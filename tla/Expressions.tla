---------------------------- MODULE Expressions -----------------------------
(***************************************************************************)
(* The bytecode interpreter of breakpoint conditions                       *)
(* (lib/gdb-stub/expression.cpp), one bytecode per step.  A state is the   *)
(* position in the code, the stack with its top last, and an outcome:      *)
(* "running", "value" when End has left the value on top of the stack, an  *)
(* Execute_error, or "killed" by a division that the processor of the host *)
(* traps.                                                                  *)
(***************************************************************************)
EXTENDS Arithmetic, Sequences

Missing == -1           \* std::nullopt

(***************************************************************************)
(* What a condition sees of the machine: env.byte has what                 *)
(* Memory_accessor::read answers for the addresses that it answers for,    *)
(* env.register the same of CPU_register_accessor::read.                   *)
(***************************************************************************)

Begin == [pc |-> 0, stack |-> << >>, outcome |-> "running"]

(* enum class Bytecode, as far as execute() has a case for it. *)
BinaryOperations ==
    [Add |-> 2, Sub |-> 3, Mul |-> 4, Div_signed |-> 5, Div_unsigned |-> 6,
     Rem_signed |-> 7, Rem_unsigned |-> 8, Lsh |-> 9, Rsh_signed |-> 10,
     Rsh_unsigned |-> 11, Bit_and |-> 15, Bit_or |-> 16, Bit_xor |-> 17,
     Equal |-> 19, Less_signed |-> 20, Less_unsigned |-> 21]

OtherOperations ==
    [Log_not |-> 14, Bit_not |-> 18, Ext |-> 22, Zero_ext |-> 42, Ref8 |-> 23,
     Ref16 |-> 24, Ref32 |-> 25, Dup |-> 40, Swap |-> 43, Pop |-> 41, Pick |-> 50,
     Rot |-> 51, If_goto |-> 32, Goto |-> 33, Const8 |-> 34, Const16 |-> 35,
     Const32 |-> 36, Reg |-> 38, End |-> 39]

Bytecode ==
    [name \in DOMAIN BinaryOperations \cup DOMAIN OtherOperations |->
        IF name \in DOMAIN BinaryOperations THEN BinaryOperations[name]
        ELSE OtherOperations[name]]

Operation ==
    [byte \in 0 .. 255 |->
        IF \E name \in DOMAIN Bytecode : Bytecode[name] = byte
        THEN CHOOSE name \in DOMAIN Bytecode : Bytecode[name] = byte
        ELSE "Unsupported"]

(* The bytes of an operand that follow the operation, and what it pops. *)
OperandBytes(op) ==
    CASE op \in {"Ext", "Zero_ext", "Pick", "Const8"} -> 1
      [] op \in {"If_goto", "Goto", "Const16", "Reg"} -> 2
      [] op = "Const32" -> 4
      [] OTHER -> 0

Pops(op) ==
    CASE op \in DOMAIN BinaryOperations \cup {"Swap"} -> 2
      [] op = "Rot" -> 3
      [] op \in {"Log_not", "Bit_not", "Ext", "Zero_ext", "Ref8", "Ref16", "Ref32",
                 "Dup", "Pop", "If_goto", "End"} -> 1
      [] OTHER -> 0

OperandLittleEndian(code, first, bytes) ==      \* mutant
    LET value[n \in 0 .. bytes] == IF n = 0 THEN 0
                                   ELSE value[n - 1] + code[first + n] * 256^(n - 1)
    IN  value[bytes]

(* Operands are big-endian, memory is little-endian. *)
Operand(code, first, bytes) ==
    LET value[n \in 0 .. bytes] == IF n = 0 THEN 0
                                   ELSE 256 * value[n - 1] + code[first + n]
    IN  value[bytes]

RegisterValue(env, n) == IF n \in DOMAIN env.register THEN env.register[n] ELSE Missing

MemoryValue(env, a, bytes) ==
    LET byte(i) == env.byte[Plus(a, i)]
        value[n \in 0 .. bytes] == IF n = 0 THEN 0
                                   ELSE value[n - 1] + byte(n - 1) * 256^(n - 1)
    IN  IF \A i \in 0 .. bytes - 1 : Plus(a, i) \in DOMAIN env.byte
        THEN Truncated(value[bytes])
        ELSE Missing

-----------------------------------------------------------------------------
(***************************************************************************)
(* The two-operand operations: x is the top of the stack, y the element    *)
(* below it.  A division looks whether its dividend is zero, and divides   *)
(* by the other.                                                           *)
(***************************************************************************)
Divisions == {"Div_signed", "Div_unsigned", "Rem_signed", "Rem_unsigned"}

Killed(op, x, y) ==
    /\ op \in Divisions
    /\ \/ y = 0
       \/ op \in {"Div_signed", "Rem_signed"} /\ DivisionOverflow(x, y)

AluOpcode ==
    [Add |-> "Add", Sub |-> "Sub", Mul |-> "Mul", Div_signed |-> "Div",
     Div_unsigned |-> "Divu", Rem_signed |-> "Rem", Rem_unsigned |-> "Remu",
     Lsh |-> "Sll", Rsh_signed |-> "Sra", Rsh_unsigned |-> "Srl", Bit_and |-> "And",
     Bit_or |-> "Or", Bit_xor |-> "Xor", Less_signed |-> "Slt", Less_unsigned |-> "Sltu"]

Computed(op, x, y) ==
    IF op = "Equal" THEN BoolWord(x = y) ELSE Calculated(AluOpcode[op], x, y)

(* Processors take a shift amount of the width or more modulo the width. *)
SignExtended(x, n) == Sra(Sll(x, (XLEN - n) % XLEN), (XLEN - n) % XLEN)

ZeroExtended(x, n) == x % 2^(n % XLEN)

-----------------------------------------------------------------------------
(* Steps *)

FailAgain(e, error) == e        \* mutant: the error does not end the loop

Fail(e, error) == [e EXCEPT !.outcome = error]

(* The operation pops its operands, pushes values, and execution goes on. *)
Continues(e, op, target, values) ==
    [e EXCEPT !.pc = target, !.stack = SubSeq(@, 1, Len(@) - Pops(op)) \o values]

(***************************************************************************)
(* What an operation does to a stack that is deep enough.                  *)
(***************************************************************************)
Performed(e, op, operand, env) ==
    LET s(i) == e.stack[Len(e.stack) - i]       \* the i-th from the top
        goes(values) == Continues(e, op, e.pc + 1 + OperandBytes(op), values)
        pushes(value, error) == IF value = Missing THEN Fail(e, error) ELSE goes(<< value >>)
        ref(bytes) == pushes(MemoryValue(env, s(0), bytes), "Memory_access_error")
    IN  CASE op \in Divisions /\ s(0) = 0 -> Fail(e, "Division_by_zero")
          [] op \in Divisions /\ s(0) # 0 /\ Killed(op, s(0), s(1)) -> Fail(e, "killed")
          [] op = "Log_not"  -> goes(<< BoolWord(s(0) = 0) >>)
          [] op = "Bit_not"  -> goes(<< AllOnes - s(0) >>)
          [] op = "Ext"      -> goes(<< SignExtended(s(0), operand) >>)
          [] op = "Zero_ext" -> goes(<< ZeroExtended(s(0), operand) >>)
          [] op = "Ref8"     -> ref(1)
          [] op = "Ref16"    -> ref(2)
          [] op = "Ref32"    -> ref(4)
          [] op = "Dup"      -> goes(<< s(0), s(0) >>)
          [] op = "Swap"     -> goes(<< s(0), s(1) >>)
          [] op = "Pop"      -> goes(<< >>)
          [] op = "Rot"      -> goes(<< s(0), s(2), s(1) >>)
          [] op = "Pick"     -> IF operand < Len(e.stack) THEN goes(<< s(operand) >>)
                                ELSE Fail(e, "Stack_out_of_bound")
          [] op = "If_goto"  -> IF s(0) = 0 THEN goes(<< >>) ELSE Continues(e, op, operand, << >>)
          [] op = "Goto"     -> Continues(e, op, operand, << >>)
          [] op \in {"Const8", "Const16", "Const32"} -> goes(<< Truncated(operand) >>)
          [] op = "Reg"      -> pushes(RegisterValue(env, operand), "Register_access_error")
          [] op = "End"      -> [e EXCEPT !.outcome = "value"]
          [] OTHER           -> goes(<< Computed(op, s(0), s(1)) >>)

(***************************************************************************)
(* One turn of the loop.  A conditional jump pops before it reads its      *)
(* operand, and reads it only to jump; the others read it before they pop. *)
(***************************************************************************)
Step(e, code, env) ==
    LET op == IF e.pc < Len(code) THEN Operation[code[e.pc + 1]] ELSE "None"
        deep == Len(e.stack) >= Pops(op)
        falls_through == op = "If_goto" /\ deep /\ e.stack[Len(e.stack)] = 0
        whole == e.pc + OperandBytes(op) < Len(code)
        operand == IF whole THEN Operand(code, e.pc + 1, OperandBytes(op)) ELSE 0
    IN  CASE op = "None"        -> Fail(e, "Bytecode_out_of_bound")
          [] op = "Unsupported" -> Fail(e, "Unsupported_bytecode")
          [] op = "If_goto" /\ ~ deep -> Fail(e, "Stack_out_of_bound")
          [] op = "If_goto" /\ deep /\ ~ whole /\ ~ falls_through ->
                 Fail(e, "Bytecode_out_of_bound")
          [] op \notin {"None", "Unsupported", "If_goto"} /\ ~ whole ->
                 Fail(e, "Bytecode_out_of_bound")
          [] op \notin {"None", "Unsupported", "If_goto"} /\ whole /\ ~ deep ->
                 Fail(e, "Stack_out_of_bound")
          [] OTHER -> Performed(e, op, operand, env)

(* is_triggered_by: a condition holds if it ends in a value other than 0. *)
Triggers(e) == e.outcome = "value" /\ e.stack[Len(e.stack)] # 0
=============================================================================
