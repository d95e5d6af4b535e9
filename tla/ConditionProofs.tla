-------------------------- MODULE ConditionProofs ---------------------------
(***************************************************************************)
(* The conditions of breakpoints: the loop that evaluates bytecode keeps   *)
(* its state in its type, and the code a condition compiles to computes    *)
(* the value of the condition, whatever tree it is and whatever it sees.   *)
(***************************************************************************)
EXTENDS DebuggedConditions, MachineProofs, SequenceTheorems

-----------------------------------------------------------------------------
(* The evaluation of conditions *)

Outcomes ==
    {"running", "value", "killed", "Unsupported_bytecode", "Bytecode_out_of_bound",
     "Stack_out_of_bound", "Division_by_zero", "Memory_access_error", "Register_access_error"}

Codes == Seq(0 .. 255)

(* What a condition may see. *)
IsSeen(env) ==
    /\ \A a \in DOMAIN env.byte : env.byte[a] \in Int
    /\ \A n \in DOMAIN env.register : env.register[n] \in Word

(* The parts of a state of the loop. *)
LEMMA EvaluationParts ==
    ASSUME NEW e
    PROVE  /\ e \in Evaluations =>
                  e.pc \in Nat /\ e.stack \in Seq(Word) /\ e.outcome \in Outcomes
           /\ \A p \in Nat, s \in Seq(Word), o \in Outcomes :
                  [pc |-> p, stack |-> s, outcome |-> o] \in Evaluations
           /\ e \in Evaluations => e = [pc |-> e.pc, stack |-> e.stack, outcome |-> e.outcome]
  BY DEF Evaluations, Outcomes

(* An error ends the loop with its position and its stack. *)
LEMMA FailType ==
    ASSUME NEW e \in Evaluations, NEW error \in Outcomes
    PROVE  Fail(e, error) \in Evaluations
<1>1. Fail(e, error) = [pc |-> e.pc, stack |-> e.stack, outcome |-> error]
  BY EvaluationParts DEF Fail
<1> QED BY <1>1, EvaluationParts

(* The loop goes on with operands taken from the stack and values put there. *)
LEMMA ContinuesType ==
    ASSUME NEW e \in Evaluations, NEW op, Pops(op) \in Nat, Len(e.stack) >= Pops(op),
           NEW target \in Nat, NEW values \in Seq(Word)
    PROVE  Continues(e, op, target, values) \in Evaluations
<1>1. e.stack \in Seq(Word) /\ e.outcome \in Outcomes
  BY EvaluationParts
<1> DEFINE kept == SubSeq(e.stack, 1, Len(e.stack) - Pops(op))
<1>2. kept \in Seq(Word)
  <2> HIDE DEF Word
  <2> QED BY <1>1
<1> DEFINE new == kept \o values
<1>3. Continues(e, op, target, values) = [e EXCEPT !.pc = target, !.stack = new]
  BY DEF Continues
<1>4. new \in Seq(Word)
  <2> HIDE DEF kept, Word
  <2> QED BY <1>2
<1> HIDE DEF new, Word
<1>5. [e EXCEPT !.pc = target, !.stack = new] \in Evaluations
  <2> DEFINE Stacks == Seq(Word)
  <2>1. new \in Stacks
    BY <1>4
  <2> HIDE DEF Stacks
  <2> QED BY <2>1 DEF Evaluations, Stacks
<1> QED BY <1>3, <1>5

Names ==
    {"Add", "Sub", "Mul", "Div_signed", "Div_unsigned", "Rem_signed", "Rem_unsigned", "Lsh",
     "Rsh_signed", "Rsh_unsigned", "Bit_and", "Bit_or", "Bit_xor", "Equal", "Less_signed",
     "Less_unsigned"}

OtherNames ==
    {"Log_not", "Bit_not", "Ext", "Zero_ext", "Ref8", "Ref16", "Ref32", "Dup", "Swap", "Pop",
     "Pick", "Rot", "If_goto", "Goto", "Const8", "Const16", "Const32", "Reg", "End"}

(* The names the operations have in the tables of expression.hpp. *)
LEMMA OperationNames ==
    /\ DOMAIN BinaryOperations = Names /\ DOMAIN OtherOperations = OtherNames
    /\ \A byte \in 0 .. 255 : Operation[byte] \in Names \cup OtherNames \cup {"Unsupported"}
<1>1. DOMAIN BinaryOperations = Names
  BY DEF BinaryOperations, Names
<1>2. DOMAIN OtherOperations = OtherNames
  BY DEF OtherOperations, OtherNames
<1>3. DOMAIN Bytecode = Names \cup OtherNames
  BY <1>1, <1>2 DEF Bytecode
<1>4. ASSUME NEW byte \in 0 .. 255
      PROVE  Operation[byte] \in Names \cup OtherNames \cup {"Unsupported"}
  <2>1. Operation[byte] = IF \E name \in DOMAIN Bytecode : Bytecode[name] = byte
                          THEN CHOOSE name \in DOMAIN Bytecode : Bytecode[name] = byte
                          ELSE "Unsupported"
    BY DEF Operation
  <2> QED BY <1>3, <2>1
<1> QED BY <1>1, <1>2, <1>4

(* No operation takes more than three operands or is followed by more than four bytes. *)
LEMMA OperandCounts ==
    ASSUME NEW op
    PROVE  Pops(op) \in 0 .. 3 /\ OperandBytes(op) \in 0 .. 4
<1>1. Pops(op) \in 0 .. 3
  BY DEF Pops
<1>2. OperandBytes(op) \in 0 .. 4
  BY DEF OperandBytes
<1> QED BY <1>1, <1>2

(* The weights of the bytes of a number. *)
LEMMA BytePowers == \A k \in 0 .. 3 : 256^k \in Nat \ {0}
<1> DEFINE P(k) == 256^k \in Nat \ {0}
<1>1. P(0) /\ P(1) /\ P(2) /\ P(3)
  OBVIOUS
<1> HIDE DEF P
<1>2. ASSUME NEW k \in 0 .. 3 PROVE P(k)
  <2>1. k = 0 \/ k = 1 \/ k = 2 \/ k = 3
    OBVIOUS
  <2> QED BY <1>1, <2>1
<1> QED BY <1>2 DEF P

(* A register has fewer bits than values. *)
LEMMA WidthIsWord == XLEN \in Word
<1> DEFINE S == {n \in Nat : n <= XLEN => n < 2^n}
<1>0. XLEN \in Nat
  BY XLENAssumption
<1>1. 0 \in S
  BY Powers
<1>2. ASSUME NEW n \in Nat, n \in S PROVE n + 1 \in S
  <2>1. SUFFICES ASSUME n + 1 <= XLEN PROVE n + 1 < 2^(n + 1)
    OBVIOUS
  <2>2. n \in 0 .. XLEN - 1 /\ n \in 0 .. XLEN
    BY <1>0, <2>1
  <2>3. 2^(n + 1) = 2 * 2^n
    BY <2>2, DoublingAssumption
  <2>4. 2^n \in Nat /\ n < 2^n
    BY <1>2, <2>2, Powers
  <2> QED BY <2>3, <2>4
<1>3. Nat \subseteq S
  <2> HIDE DEF S
  <2> QED BY <1>1, <1>2, SetInduction
<1>4. XLEN < 2^XLEN
  BY <1>0, <1>3
<1> QED BY <1>0, <1>4, WordSize DEF Word

(* An extension gives a word. *)
LEMMA ExtendedType ==
    ASSUME NEW x \in Word, NEW n \in Nat
    PROVE  SignExtended(x, n) \in Word /\ ZeroExtended(x, n) \in Word
<1>1. XLEN \in Nat \ {0}
  BY XLENAssumption
<1> DEFINE k == (XLEN - n) % XLEN
<1>2. k \in 0 .. XLEN - 1
  BY <1>1
<1>3. k \in Word
  BY <1>1, <1>2, WidthIsWord, WordSize DEF Word
<1> HIDE DEF k
<1>4. Sll(x, k) \in Word
  <2>1. Calculated("Sll", x, k) \in Word
    BY <1>3, CalculatedType DEF Opcodes
  <2>2. Calculated("Sll", x, k) = Sll(x, k)
    BY DEF Calculated
  <2> QED BY <2>1, <2>2
<1>5. ASSUME NEW y \in Word PROVE Sra(y, k) \in Word
  <2>1. Calculated("Sra", y, k) \in Word
    BY <1>3, CalculatedType DEF Opcodes
  <2>2. Calculated("Sra", y, k) = Sra(y, k)
    BY DEF Calculated
  <2> QED BY <2>1, <2>2
<1>6. SignExtended(x, n) \in Word
  BY <1>4, <1>5 DEF SignExtended, k
<1>7. ZeroExtended(x, n) \in Word
  <2> DEFINE m == n % XLEN
             p == 2^m
  <2>1. m \in 0 .. XLEN
    BY <1>1
  <2> HIDE DEF m
  <2>2. p \in Nat \ {0}
    BY <2>1, Powers
  <2>3. x \in Nat
    BY WordSize DEF Word
  <2> HIDE DEF p
  <2>4. x % p \in Nat /\ x % p <= x
    BY <2>2, <2>3
  <2>5. x % p \in Word
    BY <2>3, <2>4, WordSize DEF Word
  <2> QED BY <2>5 DEF ZeroExtended, p, m
<1> QED BY <1>6, <1>7

(* The operand of a bytecode by its recursion. *)
ReadsOperand(value, code, first, bytes) ==
    /\ Operand(code, first, bytes) = value[bytes]
    /\ value[0] = 0
    /\ \A n \in 1 .. bytes : value[n - 1] \in Nat =>
           value[n] = 256 * value[n - 1] + code[first + n] /\ value[n] \in Nat

(* The bytes of an operand are read one after another. *)
LEMMA OperandUnfolds ==
    ASSUME NEW code \in Codes, NEW first \in Nat, NEW bytes \in Nat,
           first + bytes <= Len(code)
    PROVE  \E value : ReadsOperand(value, code, first, bytes)
<1> DEFINE Shifted(n, v) == 256 * v + code[first + n]
           G == [p \in (1 .. bytes) \X Nat |-> Shifted(p[1], p[2])]
           Unfold(f) == [n \in 0 .. bytes |->
               IF n = 0 THEN 0 ELSE 256 * f[n - 1] + code[first + n]]
           value == CHOOSE f : f = Unfold(f)
<1>1. ASSUME NEW n \in 1 .. bytes, NEW v \in Nat PROVE Shifted(n, v) \in Nat
  <2>1. first + n \in 1 .. Len(code)
    OBVIOUS
  <2> DEFINE m == first + n
             B == 0 .. 255
             b == code[m]
  <2>2. b \in B
    <3>1. code \in Seq(B) /\ m \in 1 .. Len(code)
      BY <2>1 DEF Codes
    <3> HIDE DEF B, m
    <3> QED BY <3>1
  <2>3. b \in Nat
    <3> HIDE DEF b
    <3> QED BY <2>2
  <2> HIDE DEF b
  <2>4. 256 * v + b \in Nat
    BY <2>3
  <2> QED BY <2>4 DEF b
<1>2. G \in StepFunctions(bytes, Nat)
  <2> HIDE DEF Shifted
  <2> QED BY <1>1 DEF StepFunctions
<1>3. PICK f : IsRecursion(f, bytes, Nat, 0, G)
  <2> HIDE DEF G
  <2> QED BY <1>2, RecursionExists
<1>4. f = Unfold(f)
  <2>1. f \in [0 .. bytes -> Nat] /\ f[0] = 0
    BY <1>3 DEF IsRecursion
  <2>2. ASSUME NEW n \in 1 .. bytes PROVE f[n] = Shifted(n, f[n - 1])
    <3>1. f[n - 1] \in Nat
      <4> HIDE DEF G
      <4>1. n - 1 \in 0 .. bytes
        OBVIOUS
      <4> QED BY <2>1, <4>1
    <3>2. f[n] = G[<< n, f[n - 1] >>]
      <4> HIDE DEF G
      <4> QED BY <1>3 DEF IsRecursion
    <3> HIDE DEF Shifted
    <3> QED BY <3>1, <3>2
  <2>3. ASSUME NEW n \in 0 .. bytes PROVE f[n] = IF n = 0 THEN 0 ELSE Shifted(n, f[n - 1])
    <3> HIDE DEF Shifted
    <3>1. n = 0 \/ n \in 1 .. bytes
      OBVIOUS
    <3> QED BY <2>1, <2>2, <3>1
  <2>4. f = [n \in 0 .. bytes |-> f[n]]
    BY <2>1
  <2> QED BY <2>3, <2>4
<1>5. value = Unfold(value)
  <2> HIDE DEF Unfold
  <2> QED BY <1>4
<1>6. \A n \in 0 .. bytes : value[n] = IF n = 0 THEN 0 ELSE Shifted(n, value[n - 1])
  <2> HIDE DEF value
  <2> QED BY <1>5
<1> HIDE DEF value
<1>7. value[0] = 0
  BY <1>6
<1>8. ASSUME NEW n \in 1 .. bytes, value[n - 1] \in Nat
      PROVE  value[n] = Shifted(n, value[n - 1]) /\ value[n] \in Nat
  <2>1. value[n] = Shifted(n, value[n - 1])
    <3> HIDE DEF Shifted
    <3> QED BY <1>6
  <2> HIDE DEF Shifted
  <2> QED BY <1>1, <1>8, <2>1
<1>9. Operand(code, first, bytes) = value[bytes]
  BY DEF Operand, value
<1>10. \A n \in 1 .. bytes : value[n - 1] \in Nat =>
           value[n] = 256 * value[n - 1] + code[first + n] /\ value[n] \in Nat
  BY <1>8
<1>11. ReadsOperand(value, code, first, bytes)
  <2> HIDE DEF value
  <2> QED BY <1>7, <1>9, <1>10 DEF ReadsOperand
<1> QED BY <1>11

(* The operand of a bytecode is a number. *)
LEMMA OperandType ==
    ASSUME NEW code \in Codes, NEW first \in Nat, NEW bytes \in Nat,
           first + bytes <= Len(code)
    PROVE  Operand(code, first, bytes) \in Nat
<1>1. PICK value : ReadsOperand(value, code, first, bytes)
  BY OperandUnfolds
<1> DEFINE T == Nat
<1>2. value[0] \in T /\ \A n \in 1 .. bytes : value[n - 1] \in T => value[n] \in T
  BY <1>1 DEF ReadsOperand
<1> HIDE DEF T
<1>3. \A n \in 0 .. bytes : value[n] \in T
  BY <1>2, RecursionType
<1> QED BY <1>1, <1>3 DEF T, ReadsOperand

(* What memory is read as is a word. *)
LEMMA MemoryValueType ==
    ASSUME NEW env, IsSeen(env), NEW a, NEW bytes \in {1, 2, 4}
    PROVE  MemoryValue(env, a, bytes) \in Word \cup {Missing}
<1>1. SUFFICES ASSUME \A i \in 0 .. bytes - 1 : Plus(a, i) \in DOMAIN env.byte
               PROVE  MemoryValue(env, a, bytes) \in Word
  BY DEF MemoryValue
<1> DEFINE byte(i) == env.byte[Plus(a, i)]
           Added(n, v) == v + byte(n - 1) * 256^(n - 1)
           G == [p \in (1 .. bytes) \X Int |-> Added(p[1], p[2])]
           Unfold(f) == [n \in 0 .. bytes |->
               IF n = 0 THEN 0 ELSE f[n - 1] + byte(n - 1) * 256^(n - 1)]
           value == CHOOSE f : f = Unfold(f)
<1>2. ASSUME NEW n \in 1 .. bytes, NEW v \in Int PROVE Added(n, v) \in Int
  <2> DEFINE b == byte(n - 1)
             p == 256^(n - 1)
  <2>1. n - 1 \in 0 .. bytes - 1 /\ n - 1 \in 0 .. 3
    OBVIOUS
  <2>2. b \in Int
    BY <1>1, <2>1 DEF IsSeen
  <2>3. p \in Int
    BY <2>1, BytePowers
  <2> HIDE DEF b, p, byte
  <2>4. v + b * p \in Int
    BY <2>2, <2>3
  <2> QED BY <2>4 DEF b, p
<1> HIDE DEF byte
<1>3. G \in StepFunctions(bytes, Int)
  <2> HIDE DEF Added
  <2> QED BY <1>2 DEF StepFunctions
<1>4. PICK f : IsRecursion(f, bytes, Int, 0, G)
  <2> HIDE DEF G
  <2> QED BY <1>3, RecursionExists
<1>5. f = Unfold(f)
  <2>1. f \in [0 .. bytes -> Int] /\ f[0] = 0
    BY <1>4 DEF IsRecursion
  <2>2. ASSUME NEW n \in 1 .. bytes PROVE f[n] = Added(n, f[n - 1])
    <3>1. f[n - 1] \in Int
      <4> HIDE DEF G
      <4>1. n - 1 \in 0 .. bytes
        OBVIOUS
      <4> QED BY <2>1, <4>1
    <3>2. f[n] = G[<< n, f[n - 1] >>]
      <4> HIDE DEF G
      <4> QED BY <1>4 DEF IsRecursion
    <3> HIDE DEF Added
    <3> QED BY <3>1, <3>2
  <2>3. ASSUME NEW n \in 0 .. bytes PROVE f[n] = IF n = 0 THEN 0 ELSE Added(n, f[n - 1])
    <3> HIDE DEF Added
    <3>1. n = 0 \/ n \in 1 .. bytes
      OBVIOUS
    <3> QED BY <2>1, <2>2, <3>1
  <2>4. f = [n \in 0 .. bytes |-> f[n]]
    BY <2>1
  <2> QED BY <2>3, <2>4
<1>6. value = Unfold(value)
  <2> HIDE DEF Unfold
  <2> QED BY <1>5
<1>7. \A n \in 0 .. bytes : value[n] = IF n = 0 THEN 0 ELSE Added(n, value[n - 1])
  <2> HIDE DEF value
  <2> QED BY <1>6
<1>8. value[0] \in Int /\ \A n \in 1 .. bytes : value[n - 1] \in Int => value[n] \in Int
  <2> HIDE DEF value, Added
  <2> QED BY <1>2, <1>7
<1>9. value[bytes] \in Int
  <2> HIDE DEF value
  <2>1. bytes \in Nat /\ 0 \in Int
    OBVIOUS
  <2> QED BY <1>8, <2>1, RecursionType
<1>10. MemoryValue(env, a, bytes) = Truncated(value[bytes])
  BY <1>1 DEF MemoryValue, byte
<1> HIDE DEF value
<1> QED BY <1>9, <1>10, TruncatedValue

(* An operation on two words gives a word. *)
LEMMA ComputedType ==
    ASSUME NEW op \in Names, NEW x \in Word, NEW y \in Word
    PROVE  Computed(op, x, y) \in Word
<1>1. CASE op = "Equal"
  BY <1>1, WordSize DEF Computed, BoolWord, Word
<1>2. CASE op # "Equal"
  <2>1. AluOpcode[op] \in Opcodes
    BY <1>2 DEF AluOpcode, Names, Opcodes
  <2> QED BY <1>2, <2>1, CalculatedType DEF Computed
<1> QED BY <1>1, <1>2

(* How many elements of the stack an operation takes. *)
LEMMA PopsValue ==
    ASSUME NEW op
    PROVE  /\ op \in Names \cup {"Swap"} => Pops(op) = 2
           /\ op = "Rot" => Pops(op) = 3
           /\ op \in {"Log_not", "Bit_not", "Ext", "Zero_ext", "Ref8", "Ref16", "Ref32", "Dup",
                      "Pop", "If_goto", "End"} => Pops(op) = 1
<1>1. CASE op \in Names \cup {"Swap"}
  BY <1>1, OperationNames DEF Pops, Names
<1>2. CASE op \notin Names \cup {"Swap"}
  BY <1>2, OperationNames DEF Pops
<1> QED BY <1>1, <1>2

(***************************************************************************)
(* Every operation leaves an evaluation, given as many operands as it pops *)
(* (expression.cpp:7-388).                                                 *)
(***************************************************************************)
LEMMA PerformedType ==
    ASSUME NEW e \in Evaluations, NEW op \in Names \cup OtherNames,
           Len(e.stack) >= Pops(op), NEW operand \in Nat, NEW env, IsSeen(env)
    PROVE  Performed(e, op, operand, env) \in Evaluations
<1> DEFINE s(i) == e.stack[Len(e.stack) - i]
           next == e.pc + 1 + OperandBytes(op)
           goes(values) == Continues(e, op, next, values)
           pushes(value, error) == IF value = Missing THEN Fail(e, error) ELSE goes(<< value >>)
           done == Performed(e, op, operand, env)
<1> SUFFICES done \in Evaluations
  OBVIOUS
<1>1. /\ e.pc \in Nat /\ e.stack \in Seq(Word) /\ Len(e.stack) \in Nat /\ next \in Nat
      /\ Pops(op) \in Nat
  BY EvaluationParts, OperandCounts
<1>2. ASSUME NEW values \in Seq(Word), NEW target \in Nat
      PROVE  Continues(e, op, target, values) \in Evaluations
  BY <1>1, ContinuesType
<1>3. ASSUME NEW values \in Seq(Word) PROVE goes(values) \in Evaluations
  <2> HIDE DEF next
  <2> QED BY <1>1, <1>2
<1>4. ASSUME NEW i \in Nat, i < Len(e.stack) PROVE s(i) \in Word
  <2> HIDE DEF Word
  <2>1. Len(e.stack) - i \in 1 .. Len(e.stack)
    BY <1>1, <1>4
  <2> QED BY <1>1, <2>1
<1>5. ASSUME NEW x \in Word, NEW y \in Word, NEW z \in Word
      PROVE  /\ << >> \in Seq(Word) /\ << x >> \in Seq(Word) /\ << x, y >> \in Seq(Word)
             /\ << x, y, z >> \in Seq(Word)
  <2> HIDE DEF Word
  <2> QED OBVIOUS
<1>6. ASSUME NEW value \in Word \cup {Missing}, NEW error \in Outcomes
      PROVE  pushes(value, error) \in Evaluations
  <2> HIDE DEF goes
  <2>1. value \in Word => << value >> \in Seq(Word)
    BY <1>5
  <2> QED BY <1>3, <2>1, FailType
<1>7. << >> \in Seq(Word) /\ 0 \in Word
  BY <1>5, WordSize
<1>8. BoolWord(TRUE) \in Word /\ BoolWord(FALSE) \in Word
  BY WordSize DEF BoolWord, Word
<1> HIDE DEF next, Word
<1>9. CASE op \in Divisions
  <2>1. op \in Names /\ Pops(op) = 2
    BY <1>9, PopsValue DEF Divisions, Names
  <2>2. s(0) \in Word /\ s(1) \in Word
    BY <1>1, <1>4, <2>1
  <2>3. CASE s(0) = 0
    <3>1. done = Fail(e, "Division_by_zero")
      BY <1>9, <2>3 DEF Performed, Divisions
    <3> QED BY <3>1, FailType DEF Outcomes
  <2>4. CASE s(0) # 0 /\ Killed(op, s(0), s(1))
    <3>1. done = Fail(e, "killed")
      BY <1>9, <2>4 DEF Performed, Divisions
    <3> QED BY <3>1, FailType DEF Outcomes
  <2>5. CASE s(0) # 0 /\ ~ Killed(op, s(0), s(1))
    <3>1. done = goes(<< Computed(op, s(0), s(1)) >>)
      BY <1>9, <2>5 DEF Performed, Divisions, next
    <3>2. Computed(op, s(0), s(1)) \in Word
      BY <2>1, <2>2, ComputedType
    <3> HIDE DEF s, goes, done
    <3> QED BY <1>3, <1>5, <3>1, <3>2
  <2> QED BY <2>3, <2>4, <2>5
<1>10. CASE op \in Names \ Divisions
  <2>1. Pops(op) = 2
    BY <1>10, PopsValue
  <2>2. s(0) \in Word /\ s(1) \in Word
    BY <1>1, <1>4, <2>1
  <2>3. done = goes(<< Computed(op, s(0), s(1)) >>)
    BY <1>10 DEF Performed, Names, next
  <2>4. Computed(op, s(0), s(1)) \in Word
    BY <1>10, <2>2, ComputedType
  <2> HIDE DEF s, goes, done
  <2> QED BY <1>3, <1>5, <2>3, <2>4
<1>11. CASE op \in {"Log_not", "Bit_not", "Ext", "Zero_ext", "Dup", "Pop", "If_goto"}
  <2>1. Pops(op) = 1 /\ op \notin Divisions
    BY <1>11, PopsValue DEF Divisions
  <2>2. s(0) \in Word
    BY <1>1, <1>4, <2>1
  <2>3. CASE op = "Log_not"
    <3>1. done = goes(<< BoolWord(s(0) = 0) >>)
      BY <2>1, <2>3 DEF Performed, next
    <3>2. BoolWord(s(0) = 0) \in Word
      BY WordSize DEF BoolWord, Word
    <3> HIDE DEF s, goes, done
    <3> QED BY <1>3, <1>5, <3>1, <3>2
  <2>4. CASE op = "Bit_not"
    <3>1. done = goes(<< AllOnes - s(0) >>)
      BY <2>1, <2>4 DEF Performed, next
    <3> HIDE DEF s, goes, done
    <3>2. AllOnes - s(0) \in Word
      BY <2>2, WordSize DEF AllOnes, Word
    <3> QED BY <1>3, <1>5, <3>1, <3>2
  <2>5. CASE op = "Ext"
    <3>1. done = goes(<< SignExtended(s(0), operand) >>)
      BY <2>1, <2>5 DEF Performed, next
    <3> HIDE DEF s, goes, done
    <3> QED BY <1>3, <1>5, <2>2, <3>1, ExtendedType
  <2>6. CASE op = "Zero_ext"
    <3>1. done = goes(<< ZeroExtended(s(0), operand) >>)
      BY <2>1, <2>6 DEF Performed, next
    <3> HIDE DEF s, goes, done
    <3> QED BY <1>3, <1>5, <2>2, <3>1, ExtendedType
  <2>7. CASE op = "Dup"
    <3>1. done = goes(<< s(0), s(0) >>)
      BY <2>1, <2>7 DEF Performed, next
    <3> HIDE DEF s, goes, done
    <3> QED BY <1>3, <1>5, <2>2, <3>1
  <2>8. CASE op = "Pop"
    <3>1. done = goes(<< >>)
      BY <2>1, <2>8 DEF Performed, next
    <3> HIDE DEF goes, done
    <3> QED BY <1>3, <1>7, <3>1
  <2>9. CASE op = "If_goto"
    <3>1. done = IF s(0) = 0 THEN goes(<< >>) ELSE Continues(e, op, operand, << >>)
      BY <2>1, <2>9 DEF Performed, next
    <3>2. goes(<< >>) \in Evaluations /\ Continues(e, op, operand, << >>) \in Evaluations
      BY <1>2, <1>3, <1>7
    <3> HIDE DEF s, goes, done
    <3> QED BY <3>1, <3>2
  <2> QED BY <1>11, <2>3, <2>4, <2>5, <2>6, <2>7, <2>8, <2>9
<1>12. CASE op \in {"Ref8", "Ref16", "Ref32", "Reg"}
  <2>1. PICK value \in Word \cup {Missing}, error \in Outcomes : done = pushes(value, error)
    <3>1. op \notin Divisions
      BY <1>12 DEF Divisions
    <3>2. ASSUME NEW bytes \in {1, 2, 4}
          PROVE  MemoryValue(env, s(0), bytes) \in Word \cup {Missing}
      BY MemoryValueType
    <3>3. RegisterValue(env, operand) \in Word \cup {Missing}
      BY DEF RegisterValue, IsSeen
    <3>4. "Memory_access_error" \in Outcomes /\ "Register_access_error" \in Outcomes
      BY DEF Outcomes
    <3>5. CASE op = "Ref8"
      <4>1. done = pushes(MemoryValue(env, s(0), 1), "Memory_access_error")
        BY <3>1, <3>5 DEF Performed, next
      <4> HIDE DEF s, pushes, done
      <4> QED BY <3>2, <3>4, <4>1
    <3>6. CASE op = "Ref16"
      <4>1. done = pushes(MemoryValue(env, s(0), 2), "Memory_access_error")
        BY <3>1, <3>6 DEF Performed, next
      <4> HIDE DEF s, pushes, done
      <4> QED BY <3>2, <3>4, <4>1
    <3>7. CASE op = "Ref32"
      <4>1. done = pushes(MemoryValue(env, s(0), 4), "Memory_access_error")
        BY <3>1, <3>7 DEF Performed, next
      <4> HIDE DEF s, pushes, done
      <4> QED BY <3>2, <3>4, <4>1
    <3>8. CASE op = "Reg"
      <4>1. done = pushes(RegisterValue(env, operand), "Register_access_error")
        BY <3>1, <3>8 DEF Performed, next
      <4> HIDE DEF s, pushes, done
      <4> QED BY <3>3, <3>4, <4>1
    <3> QED BY <1>12, <3>5, <3>6, <3>7, <3>8
  <2> HIDE DEF pushes, done
  <2> QED BY <1>6, <2>1
<1>13. CASE op \in {"Swap", "Rot"}
  <2>1. Pops(op) >= 2 /\ (op = "Rot" => Pops(op) = 3) /\ op \notin Divisions
    BY <1>13, PopsValue DEF Divisions
  <2>2. s(0) \in Word /\ s(1) \in Word /\ (op = "Rot" => s(2) \in Word)
    BY <1>1, <1>4, <2>1
  <2>3. CASE op = "Swap"
    <3>1. done = goes(<< s(0), s(1) >>)
      BY <2>1, <2>3 DEF Performed, next
    <3> HIDE DEF s, goes, done
    <3> QED BY <1>3, <1>5, <2>2, <3>1
  <2>4. CASE op = "Rot"
    <3>1. done = goes(<< s(0), s(2), s(1) >>)
      BY <2>1, <2>4 DEF Performed, next
    <3> HIDE DEF s, goes, done
    <3> QED BY <1>3, <1>5, <2>2, <2>4, <3>1
  <2> QED BY <1>13, <2>3, <2>4
<1>14. CASE op = "Pick"
  <2>1. done = IF operand < Len(e.stack) THEN goes(<< s(operand) >>)
               ELSE Fail(e, "Stack_out_of_bound")
    BY <1>14 DEF Performed, Divisions, next
  <2>2. CASE operand < Len(e.stack)
    <3>1. s(operand) \in Word
      BY <1>4, <2>2
    <3> HIDE DEF s, goes, done
    <3> QED BY <1>3, <1>5, <2>1, <2>2, <3>1
  <2>3. CASE ~ operand < Len(e.stack)
    <3> HIDE DEF s, goes, done
    <3> QED BY <2>1, <2>3, FailType DEF Outcomes
  <2> QED BY <2>2, <2>3
<1>15. CASE op = "Goto"
  <2>1. done = Continues(e, op, operand, << >>)
    BY <1>15 DEF Performed, Divisions
  <2> HIDE DEF done
  <2> QED BY <1>2, <1>7, <2>1
<1>16. CASE op \in {"Const8", "Const16", "Const32"}
  <2>1. done = goes(<< Truncated(operand) >>)
    BY <1>16 DEF Performed, Divisions, next
  <2>2. Truncated(operand) \in Word
    BY TruncatedValue
  <2> HIDE DEF goes, done
  <2> QED BY <1>3, <1>5, <2>1, <2>2
<1>17. CASE op = "End"
  <2>1. done = [e EXCEPT !.outcome = "value"]
    BY <1>17 DEF Performed, Divisions
  <2>2. Fail(e, "value") \in Evaluations
    BY FailType DEF Outcomes
  <2> QED BY <2>1, <2>2 DEF Fail
<1> QED BY <1>9, <1>10, <1>11, <1>12, <1>13, <1>14, <1>15, <1>16, <1>17 DEF OtherNames

(***************************************************************************)
(* A turn of the loop leaves an evaluation (expression.cpp:42-387).        *)
(***************************************************************************)
LEMMA StepType ==
    ASSUME NEW e \in Evaluations, NEW code \in Codes, NEW env, IsSeen(env)
    PROVE  Step(e, code, env) \in Evaluations
<1> DEFINE op == IF e.pc < Len(code) THEN Operation[code[e.pc + 1]] ELSE "None"
           deep == Len(e.stack) >= Pops(op)
           falls_through == op = "If_goto" /\ deep /\ e.stack[Len(e.stack)] = 0
           whole == e.pc + OperandBytes(op) < Len(code)
           operand == IF whole THEN Operand(code, e.pc + 1, OperandBytes(op)) ELSE 0
           taken == Step(e, code, env)
<1> SUFFICES taken \in Evaluations
  OBVIOUS
<1>1. e.pc \in Nat /\ Len(code) \in Nat
  BY EvaluationParts DEF Codes
<1>2. op \in Names \cup OtherNames \cup {"Unsupported", "None"}
  <2>1. CASE e.pc < Len(code)
    <3>1. code[e.pc + 1] \in 0 .. 255
      <4> DEFINE B == 0 .. 255
                 m == e.pc + 1
      <4>1. code \in Seq(B) /\ m \in 1 .. Len(code)
        BY <1>1, <2>1 DEF Codes
      <4> HIDE DEF B, m
      <4>2. code[m] \in B
        BY <4>1
      <4> QED BY <4>2 DEF B, m
    <3> QED BY <2>1, <3>1, OperationNames
  <2> QED BY <2>1
<1>3. operand \in Nat
  <2> DEFINE bytes == OperandBytes(op)
             first == e.pc + 1
  <2>1. bytes \in Nat /\ first \in Nat
    BY <1>1, OperandCounts
  <2> HIDE DEF op, bytes, first
  <2>2. whole => first + bytes <= Len(code)
    BY <1>1, <2>1 DEF first, bytes
  <2>3. whole => Operand(code, first, bytes) \in Nat
    BY <2>1, <2>2, OperandType
  <2> QED BY <2>3 DEF first, bytes
<1>4. taken = CASE op = "None"        -> Fail(e, "Bytecode_out_of_bound")
                [] op = "Unsupported" -> Fail(e, "Unsupported_bytecode")
                [] op = "If_goto" /\ ~ deep -> Fail(e, "Stack_out_of_bound")
                [] op = "If_goto" /\ deep /\ ~ whole /\ ~ falls_through ->
                       Fail(e, "Bytecode_out_of_bound")
                [] op \notin {"None", "Unsupported", "If_goto"} /\ ~ whole ->
                       Fail(e, "Bytecode_out_of_bound")
                [] op \notin {"None", "Unsupported", "If_goto"} /\ whole /\ ~ deep ->
                       Fail(e, "Stack_out_of_bound")
                [] OTHER -> Performed(e, op, operand, env)
  BY DEF Step
<1> HIDE DEF op, whole, operand, taken, falls_through
<1>5. /\ Fail(e, "Bytecode_out_of_bound") \in Evaluations
      /\ Fail(e, "Unsupported_bytecode") \in Evaluations
      /\ Fail(e, "Stack_out_of_bound") \in Evaluations
  BY FailType DEF Outcomes
<1>6. op \in Names \cup OtherNames /\ deep => Performed(e, op, operand, env) \in Evaluations
  BY <1>3, PerformedType
<1> HIDE DEF deep
<1>7. CASE op \in {"None", "Unsupported"}
  BY <1>4, <1>5, <1>7
<1>8. CASE op \notin {"None", "Unsupported"} /\ deep
  BY <1>2, <1>4, <1>5, <1>6, <1>8
<1>9. CASE op \notin {"None", "Unsupported"} /\ ~ deep
  BY <1>4, <1>5, <1>9
<1> QED BY <1>7, <1>8, <1>9

(* The loop begins in its type. *)
LEMMA BeginType == Begin \in Evaluations
<1>1. << >> \in Seq(Word)
  OBVIOUS
<1> QED BY <1>1, EvaluationParts DEF Begin, Outcomes

(* Every bytecode is the byte of one operation. *)
NameOf(byte) ==
    CASE byte = 2 -> "Add" [] byte = 3 -> "Sub" [] byte = 4 -> "Mul"
      [] byte = 5 -> "Div_signed" [] byte = 6 -> "Div_unsigned" [] byte = 7 -> "Rem_signed"
      [] byte = 8 -> "Rem_unsigned" [] byte = 9 -> "Lsh" [] byte = 10 -> "Rsh_signed"
      [] byte = 11 -> "Rsh_unsigned" [] byte = 14 -> "Log_not" [] byte = 15 -> "Bit_and"
      [] byte = 16 -> "Bit_or" [] byte = 17 -> "Bit_xor" [] byte = 18 -> "Bit_not"
      [] byte = 19 -> "Equal" [] byte = 20 -> "Less_signed" [] byte = 21 -> "Less_unsigned"
      [] byte = 22 -> "Ext" [] byte = 23 -> "Ref8" [] byte = 24 -> "Ref16"
      [] byte = 25 -> "Ref32" [] byte = 32 -> "If_goto" [] byte = 33 -> "Goto"
      [] byte = 34 -> "Const8" [] byte = 35 -> "Const16" [] byte = 36 -> "Const32"
      [] byte = 38 -> "Reg" [] byte = 39 -> "End" [] byte = 40 -> "Dup" [] byte = 41 -> "Pop"
      [] byte = 42 -> "Zero_ext" [] byte = 43 -> "Swap" [] byte = 50 -> "Pick"
      [] byte = 51 -> "Rot"

(* No two operations have the same byte. *)
LEMMA BytecodeNames ==
    ASSUME NEW op \in Names \cup OtherNames
    PROVE  Bytecode[op] \in 0 .. 255 /\ Operation[Bytecode[op]] = op
<1>1. DOMAIN Bytecode = Names \cup OtherNames
  BY OperationNames DEF Bytecode
<1>2. ASSUME NEW name \in Names \cup OtherNames
      PROVE  Bytecode[name] \in 0 .. 255 /\ NameOf(Bytecode[name]) = name
  <2>1. CASE name \in Names
    <3>1. Bytecode[name] = BinaryOperations[name]
      BY <1>1, <2>1, OperationNames DEF Bytecode
    <3>2. BinaryOperations[name] \in 0 .. 255
      BY <2>1 DEF Names, BinaryOperations
    <3>3. NameOf(BinaryOperations[name]) = name
      <4> DEFINE k == BinaryOperations
      <4>1. /\ k.Add = 2 /\ k.Sub = 3 /\ k.Mul = 4 /\ k.Div_signed = 5
            /\ k.Div_unsigned = 6 /\ k.Rem_signed = 7 /\ k.Rem_unsigned = 8 /\ k.Lsh = 9
            /\ k.Rsh_signed = 10 /\ k.Rsh_unsigned = 11 /\ k.Bit_and = 15 /\ k.Bit_or = 16
            /\ k.Bit_xor = 17 /\ k.Equal = 19 /\ k.Less_signed = 20 /\ k.Less_unsigned = 21
        BY DEF BinaryOperations
      <4> HIDE DEF k
      <4>2. NameOf(k[name]) = name
        BY <2>1, <4>1 DEF Names, NameOf
      <4> QED BY <4>2 DEF k
    <3> QED BY <3>1, <3>2, <3>3
  <2>2. CASE name \in OtherNames
    <3>1. name \notin Names
      BY <2>2 DEF Names, OtherNames
    <3>2. Bytecode[name] = OtherOperations[name]
      BY <1>1, <2>2, <3>1, OperationNames DEF Bytecode
    <3>3. OtherOperations[name] \in 0 .. 255
      BY <2>2 DEF OtherNames, OtherOperations
    <3>4. NameOf(OtherOperations[name]) = name
      <4> DEFINE k == OtherOperations
      <4>1. /\ k.Log_not = 14 /\ k.Bit_not = 18 /\ k.Ext = 22 /\ k.Zero_ext = 42
            /\ k.Ref8 = 23 /\ k.Ref16 = 24 /\ k.Ref32 = 25 /\ k.Dup = 40
            /\ k.Swap = 43 /\ k.Pop = 41 /\ k.Pick = 50 /\ k.Rot = 51
            /\ k.If_goto = 32 /\ k.Goto = 33 /\ k.Const8 = 34 /\ k.Const16 = 35
            /\ k.Const32 = 36 /\ k.Reg = 38 /\ k.End = 39
        BY DEF OtherOperations
      <4> HIDE DEF k
      <4>2. NameOf(k[name]) = name
        BY <2>2, <4>1 DEF OtherNames, NameOf
      <4> QED BY <4>2 DEF k
    <3> QED BY <3>2, <3>3, <3>4
  <2> QED BY <1>2, <2>1, <2>2
<1> DEFINE byte == Bytecode[op]
<1>3. byte \in 0 .. 255 /\ \E name \in DOMAIN Bytecode : Bytecode[name] = byte
  BY <1>1, <1>2
<1>4. Operation[byte] = CHOOSE name \in DOMAIN Bytecode : Bytecode[name] = byte
  <2> HIDE DEF byte
  <2> QED BY <1>3 DEF Operation
<1>5. Operation[byte] \in DOMAIN Bytecode /\ Bytecode[Operation[byte]] = byte
  <2> HIDE DEF byte
  <2> QED BY <1>3, <1>4
<1>6. Operation[byte] = NameOf(byte) /\ op = NameOf(byte)
  BY <1>1, <1>2, <1>5
<1> QED BY <1>3, <1>6

(* A part of the code. *)
HasAt(code, p, part) ==
    p + Len(part) <= Len(code) /\ \A i \in 1 .. Len(part) : code[p + i] = part[i]

(* Where the parts of a part are. *)
LEMMA PartsOfCode ==
    ASSUME NEW code \in Codes, NEW p \in Nat, NEW a \in Codes, NEW b \in Codes,
           HasAt(code, p, a \o b)
    PROVE  HasAt(code, p, a) /\ HasAt(code, p + Len(a), b)
<1> DEFINE B == 0 .. 255
<1> USE DEF Codes
<1> HIDE DEF B
<1>1. a \o b \in Seq(B) /\ Len(a \o b) = Len(a) + Len(b) /\ Len(a) \in Nat /\ Len(b) \in Nat
  BY ConcatProperties, LenProperties DEF B
<1>2. ASSUME NEW i \in 1 .. Len(a) PROVE code[p + i] = a[i]
  <2>1. i \in 1 .. Len(a \o b)
    BY <1>1
  <2>2. (a \o b)[i] = a[i]
    BY <1>1, <2>1, ConcatProperties DEF B
  <2> QED BY <2>1, <2>2 DEF HasAt
<1>3. ASSUME NEW i \in 1 .. Len(b) PROVE code[p + Len(a) + i] = b[i]
  <2> DEFINE j == Len(a) + i
  <2>1. j \in 1 .. Len(a \o b) /\ j > Len(a) /\ j - Len(a) = i
    BY <1>1
  <2>2. (a \o b)[j] = b[j - Len(a)]
    <3> HIDE DEF j
    <3> QED BY <1>1, <2>1, ConcatProperties DEF B
  <2>3. code[p + j] = (a \o b)[j]
    <3> HIDE DEF j
    <3> QED BY <2>1 DEF HasAt
  <2>4. p + j = p + Len(a) + i
    BY <1>1
  <2> QED BY <2>1, <2>2, <2>3, <2>4
<1>4. Len(code) \in Nat
  BY LenProperties
<1>5. p + (Len(a) + Len(b)) <= Len(code)
  BY <1>1 DEF HasAt
<1> HIDE DEF Codes
<1>6. p + Len(a) <= Len(code) /\ (p + Len(a)) + Len(b) <= Len(code)
  BY <1>1, <1>4, <1>5
<1> QED BY <1>2, <1>3, <1>6 DEF HasAt

IsBigEndian(s, n, bytes) ==
    /\ s \in Codes /\ Len(s) = bytes
    /\ \A i \in 1 .. bytes : s[i] = (n \div 256^(bytes - i)) % 256

(* A number is written in bytes. *)
LEMMA BigEndianType ==
    ASSUME NEW n \in Nat, NEW bytes \in {0, 1, 2, 4}
    PROVE  IsBigEndian(BigEndian(n, bytes), n, bytes)
<1>1. ASSUME NEW i \in 1 .. bytes PROVE (n \div 256^(bytes - i)) % 256 \in 0 .. 255
  <2> DEFINE p == 256^(bytes - i)
  <2>1. bytes - i \in 0 .. 3
    OBVIOUS
  <2>2. p \in Nat \ {0}
    BY <2>1, BytePowers
  <2> HIDE DEF p
  <2>3. n \div p \in Nat
    BY <2>2
  <2>4. (n \div p) % 256 \in 0 .. 255
    BY <2>3
  <2> QED BY <2>4 DEF p
<1> DEFINE B == 0 .. 255
           s == BigEndian(n, bytes)
<1>2. s \in [1 .. bytes -> B] /\ \A i \in 1 .. bytes : s[i] = (n \div 256^(bytes - i)) % 256
  BY <1>1 DEF BigEndian
<1>3. bytes \in Nat
  OBVIOUS
<1> HIDE DEF s, B
<1>4. s \in Seq(B) /\ Len(s) = bytes
  BY <1>2, <1>3, IsASeq, LenProperties
<1> QED BY <1>2, <1>4 DEF s, B, Codes, IsBigEndian

(* The weights of the bytes of a number, evaluated. *)
LEMMA PowersOf256 == 256^0 = 1 /\ 256^1 = 256 /\ 256^2 = 65536 /\ 256^3 = 16777216
  OBVIOUS

(* A number fits in as many bytes. *)
Fits(n, bytes) == n \in Nat /\ (bytes = 0 \/ n \div 256^(bytes - 1) < 256)

(* A number is its last byte and the number before it. *)
LEMMA DigitsOf ==
    ASSUME NEW n \in Nat
    PROVE  /\ n \div 256 \in Nat /\ n = 256 * (n \div 256) + (n % 256)
           /\ n < 256 => n % 256 = n
           /\ n \div 65536 = (n \div 256) \div 256
           /\ n \div 16777216 = (n \div 65536) \div 256
           /\ n \div 1 = n
  OBVIOUS

(* An operand is read as it was written. *)
LEMMA OperandValue ==
    ASSUME NEW code \in Codes, NEW first \in Nat, NEW bytes \in {0, 1, 2, 4}, NEW n,
           Fits(n, bytes), HasAt(code, first, BigEndian(n, bytes))
    PROVE  Operand(code, first, bytes) = IF bytes = 0 THEN 0 ELSE n
<1> DEFINE digit(k) == (n \div 256^k) % 256
<1>0. n \in Nat /\ bytes \in Nat
  BY DEF Fits
<1>1. /\ first + bytes <= Len(code)
      /\ \A i \in 1 .. bytes : code[first + i] = digit(bytes - i)
  <2> DEFINE s == BigEndian(n, bytes)
  <2>0. IsBigEndian(s, n, bytes)
    BY <1>0, BigEndianType
  <2>1. Len(s) = bytes /\ \A i \in 1 .. bytes : s[i] = digit(bytes - i)
    <3> HIDE DEF s
    <3> QED BY <2>0 DEF IsBigEndian
  <2> HIDE DEF s, digit
  <2>2. first + Len(s) <= Len(code) /\ \A i \in 1 .. Len(s) : code[first + i] = s[i]
    BY DEF HasAt, s
  <2> QED BY <2>1, <2>2
<1>2. PICK value : ReadsOperand(value, code, first, bytes)
  BY <1>0, <1>1, OperandUnfolds
<1> DEFINE given(i) == value[i]
<1> HIDE DEF given
<1>3. /\ Operand(code, first, bytes) = given(bytes) /\ given(0) = 0
      /\ \A i \in 1 .. bytes : given(i - 1) \in Nat =>
             given(i) = 256 * given(i - 1) + digit(bytes - i) /\ given(i) \in Nat
  BY <1>1, <1>2 DEF ReadsOperand, given
<1> DEFINE q1 == n \div 256
           q2 == n \div 65536
           q3 == n \div 16777216
           d0 == n % 256
           d1 == q1 % 256
           d2 == q2 % 256
           d3 == q3 % 256
<1>4. digit(0) = d0 /\ digit(1) = d1 /\ digit(2) = d2 /\ digit(3) = d3
  BY <1>0, DigitsOf, PowersOf256
<1>5. /\ q1 \in Nat /\ q2 \in Nat /\ q3 \in Nat
      /\ n = 256 * q1 + d0 /\ q1 = 256 * q2 + d1 /\ q2 = 256 * q3 + d2
      /\ n < 256 => d0 = n
      /\ q1 < 256 => d1 = q1
      /\ q3 < 256 => d3 = q3
  <2>1. q1 \in Nat /\ n = 256 * q1 + d0 /\ (n < 256 => d0 = n)
    BY <1>0, DigitsOf
  <2>2. q2 = q1 \div 256 /\ q3 = q2 \div 256
    BY <1>0, DigitsOf
  <2> HIDE DEF q1
  <2>3. q2 \in Nat /\ q1 = 256 * q2 + d1 /\ (q1 < 256 => d1 = q1)
    BY <2>1, <2>2, DigitsOf
  <2> HIDE DEF q2
  <2>4. q3 \in Nat /\ q2 = 256 * q3 + d2
    BY <2>2, <2>3, DigitsOf
  <2> HIDE DEF q3
  <2>5. q3 < 256 => d3 = q3
    BY <2>4, DigitsOf
  <2> QED BY <2>1, <2>3, <2>4, <2>5
<1>6. /\ bytes = 1 => n < 256
      /\ bytes = 2 => q1 < 256
      /\ bytes = 4 => q3 < 256
  <2>1. bytes = 0 \/ n \div 256^(bytes - 1) < 256
    BY DEF Fits
  <2>2. CASE bytes = 1
    BY <1>0, <2>1, <2>2, DigitsOf, PowersOf256
  <2>3. CASE bytes = 2
    BY <2>1, <2>3, PowersOf256
  <2>4. CASE bytes = 4
    BY <2>1, <2>4, PowersOf256
  <2> HIDE DEF q1, q3
  <2> QED BY <2>2, <2>3, <2>4
<1> HIDE DEF digit, q1, q2, q3, d0, d1, d2, d3
<1>7. CASE bytes = 0
  BY <1>3, <1>7
<1>8. CASE bytes = 1
  <2>1. given(1) = 256 * given(0) + digit(0)
    BY <1>3, <1>8
  <2> QED BY <1>0, <1>3, <1>4, <1>5, <1>6, <1>8, <2>1
<1>9. CASE bytes = 2
  <2>1. given(1) = 256 * given(0) + digit(1) /\ given(1) \in Nat
    BY <1>3, <1>9
  <2>2. given(1) = q1
    BY <1>3, <1>4, <1>5, <1>6, <1>9, <2>1
  <2>3. given(2) = 256 * given(1) + digit(0)
    BY <1>3, <1>9, <2>1
  <2> QED BY <1>3, <1>4, <1>5, <1>9, <2>2, <2>3
<1>10. CASE bytes = 4
  <2>1. given(1) = 256 * given(0) + digit(3) /\ given(1) \in Nat
    BY <1>3, <1>10
  <2>2. given(1) = q3
    BY <1>3, <1>4, <1>5, <1>6, <1>10, <2>1
  <2>3. given(2) = 256 * given(1) + digit(2) /\ given(2) \in Nat
    BY <1>3, <1>10, <2>1
  <2>4. given(2) = q2
    BY <1>4, <1>5, <2>2, <2>3
  <2>5. given(3) = 256 * given(2) + digit(1) /\ given(3) \in Nat
    BY <1>3, <1>10, <2>3
  <2>6. given(3) = q1
    BY <1>4, <1>5, <2>4, <2>5
  <2>7. given(4) = 256 * given(3) + digit(0)
    BY <1>3, <1>10, <2>5
  <2> QED BY <1>3, <1>4, <1>5, <1>10, <2>6, <2>7
<1> QED BY <1>7, <1>8, <1>9, <1>10

-----------------------------------------------------------------------------
(* The trees of conditions *)

(* The trees of the forest, by their form. *)
Below(tree, t) == t \in Forest /\ Depth[t] < Depth[tree]

UnaryNames == {"Log_not", "Bit_not", "Ref8", "Ref16", "Ref32"}

IsTree(tree) ==
    \/ /\ tree.form = "const" /\ tree.op \in {"Const8", "Const16", "Const32"}
       /\ Fits(tree.value, OperandBytes(tree.op))
    \/ tree.form = "reg" /\ Fits(tree.number, 2)
    \/ tree.form = "unary" /\ tree.op \in UnaryNames /\ Below(tree, tree.x)
    \/ /\ tree.form = "extend" /\ tree.op \in {"Ext", "Zero_ext"}
       /\ tree.n \in Nat /\ 0 < tree.n /\ tree.n < XLEN /\ tree.n < 256 /\ Below(tree, tree.x)
    \/ tree.form = "twice" /\ tree.op \in Names /\ Below(tree, tree.x)
    \/ /\ tree.form \in {"binary", "swapped", "picked"} /\ tree.op \in Names
       /\ Below(tree, tree.x) /\ Below(tree, tree.y)
    \/ /\ tree.form = "rotated" /\ tree.op \in Names
       /\ Below(tree, tree.x) /\ Below(tree, tree.y) /\ Below(tree, tree.z)
    \/ /\ tree.form = "if" /\ Below(tree, tree.x) /\ Below(tree, tree.y) /\ Below(tree, tree.z)

(* A number of sixteen bits fits in two bytes. *)
LEMMA HalfwordsFit == \A n \in 0 .. 2^16 - 1 : Fits(n, 2)
<1> TAKE n \in 0 .. 2^16 - 1
<1>1. 2^16 = 65536
  OBVIOUS
<1>2. n \in Nat /\ n < 65536
  BY <1>1
<1>3. n \div 256 < 256
  BY <1>2
<1>4. 256^(2 - 1) = 256
  BY PowersOf256
<1> QED BY <1>2, <1>3, <1>4 DEF Fits

(* How many bytes follow an operation, form by form. *)
LEMMA OperandSizes ==
    ASSUME NEW op
    PROVE  /\ op \in Names \cup UnaryNames \cup {"Dup", "Swap", "Pop", "Rot", "End"} =>
                  OperandBytes(op) = 0
           /\ op \in {"Ext", "Zero_ext", "Pick", "Const8"} => OperandBytes(op) = 1
           /\ op \in {"If_goto", "Goto", "Const16", "Reg"} => OperandBytes(op) = 2
           /\ op = "Const32" => OperandBytes(op) = 4
  BY DEF OperandBytes, Names, UnaryNames

(* A tree of the forest has one of the forms, over trees of smaller depth. *)
LEMMA TreeForms ==
    ASSUME NEW tree \in Forest
    PROVE  Depth[tree] \in Nat \ {0} /\ IsTree(tree)
<1>1. Depth[tree] \in Nat \ {0} /\ WellFormed(tree)
  BY ForestAssumption
<1> DEFINE part == { t \in Forest : Depth[t] < Depth[tree] }
           two == DOMAIN BinaryOperations
           widths == { n \in 1 .. 255 : n < XLEN }
<1>2. \/ /\ tree \in [form : {"const"}, op : {"Const8", "Const16", "Const32"}, value : Nat]
         /\ tree.value \div 256^(OperandBytes(tree.op) - 1) < 256
      \/ tree \in [form : {"reg"}, number : 0 .. 2^16 - 1]
      \/ tree \in [form : {"unary"}, op : {"Log_not", "Bit_not", "Ref8", "Ref16", "Ref32"},
                   x : part]
      \/ tree \in [form : {"extend"}, op : {"Ext", "Zero_ext"}, n : widths, x : part]
      \/ tree \in [form : {"twice"}, op : two, x : part]
      \/ tree \in [form : {"binary", "swapped", "picked"}, op : two, x : part, y : part]
      \/ tree \in [form : {"rotated"}, op : two, x : part, y : part, z : part]
      \/ tree \in [form : {"if"}, x : part, y : part, z : part]
  BY <1>1 DEF WellFormed
<1>3. two = Names /\ \A t \in part : Below(tree, t)
  BY OperationNames DEF Below
<1>4. \A n \in widths : n \in Nat /\ 0 < n /\ n < XLEN /\ n < 256
  OBVIOUS
<1>5. \A n \in 0 .. 2^16 - 1 : Fits(n, 2)
  BY HalfwordsFit, Zenon
<1> HIDE DEF part, two, widths
<1>6. CASE /\ tree \in [form : {"const"}, op : {"Const8", "Const16", "Const32"}, value : Nat]
           /\ tree.value \div 256^(OperandBytes(tree.op) - 1) < 256
  <2>1. /\ tree.form = "const" /\ tree.op \in {"Const8", "Const16", "Const32"}
        /\ tree.value \in Nat
    BY <1>6
  <2>2. Fits(tree.value, OperandBytes(tree.op))
    BY <1>6, <2>1 DEF Fits
  <2> QED BY <1>1, <2>1, <2>2 DEF IsTree
<1>7. CASE tree \in [form : {"reg"}, number : 0 .. 2^16 - 1]
  <2>1. tree.form = "reg" /\ tree.number \in 0 .. 2^16 - 1
    BY <1>7
  <2>2. Fits(tree.number, 2)
    BY <1>5, <2>1
  <2> QED BY <1>1, <2>1, <2>2 DEF IsTree
<1>8. CASE tree \in [form : {"unary"}, op : {"Log_not", "Bit_not", "Ref8", "Ref16", "Ref32"},
                     x : part]
  <2>1. tree.form = "unary" /\ tree.op \in UnaryNames /\ tree.x \in part
    BY <1>8 DEF UnaryNames
  <2> QED BY <1>1, <1>3, <2>1 DEF IsTree
<1>9. CASE tree \in [form : {"extend"}, op : {"Ext", "Zero_ext"}, n : widths, x : part]
  <2>1. /\ tree.form = "extend" /\ tree.op \in {"Ext", "Zero_ext"} /\ tree.n \in widths
        /\ tree.x \in part
    BY <1>9
  <2> QED BY <1>1, <1>3, <1>4, <2>1 DEF IsTree
<1>10. CASE tree \in [form : {"twice"}, op : two, x : part]
  <2>1. tree.form = "twice" /\ tree.op \in two /\ tree.x \in part
    BY <1>10
  <2> QED BY <1>1, <1>3, <2>1 DEF IsTree
<1>11. CASE tree \in [form : {"binary", "swapped", "picked"}, op : two, x : part, y : part]
  <2>1. /\ tree.form \in {"binary", "swapped", "picked"} /\ tree.op \in two
        /\ tree.x \in part /\ tree.y \in part
    BY <1>11
  <2> QED BY <1>1, <1>3, <2>1 DEF IsTree
<1>12. CASE tree \in [form : {"rotated"}, op : two, x : part, y : part, z : part]
  <2>1. /\ tree.form = "rotated" /\ tree.op \in two
        /\ tree.x \in part /\ tree.y \in part /\ tree.z \in part
    BY <1>12
  <2> QED BY <1>1, <1>3, <2>1 DEF IsTree
<1>13. CASE tree \in [form : {"if"}, x : part, y : part, z : part]
  <2>1. tree.form = "if" /\ tree.x \in part /\ tree.y \in part /\ tree.z \in part
    BY <1>13
  <2> QED BY <1>1, <1>3, <2>1 DEF IsTree
<1> QED BY <1>2, <1>6, <1>7, <1>8, <1>9, <1>10, <1>11, <1>12, <1>13

(* What codes are put together from. *)
LEMMA CodesJoin ==
    /\ << >> \in Codes
    /\ \A a, b \in Codes : a \o b \in Codes /\ Len(a \o b) = Len(a) + Len(b)
    /\ \A a \in Codes : Len(a) \in Nat
    /\ \A op \in Names \cup OtherNames : Byte(op) \in Codes /\ Len(Byte(op)) = 1
    /\ \A n \in Nat : n < 256 => << n >> \in Codes /\ << n >> = BigEndian(n, 1)
<1> DEFINE B == 0 .. 255
<1>1. << >> \in Codes
  BY DEF Codes
<1>2. \A a, b \in Codes : a \o b \in Codes /\ Len(a \o b) = Len(a) + Len(b)
  BY ConcatProperties DEF Codes
<1>3. \A a \in Codes : Len(a) \in Nat
  BY LenProperties DEF Codes
<1>4. ASSUME NEW byte \in 0 .. 255 PROVE << byte >> \in Codes
  BY DEF Codes
<1>5. ASSUME NEW op \in Names \cup OtherNames PROVE Byte(op) \in Codes /\ Len(Byte(op)) = 1
  BY <1>4, BytecodeNames DEF Byte
<1>6. ASSUME NEW n \in Nat, n < 256 PROVE << n >> \in Codes /\ << n >> = BigEndian(n, 1)
  <2> DEFINE s == BigEndian(n, 1)
  <2>1. IsBigEndian(s, n, 1)
    BY BigEndianType
  <2>2. s \in Codes /\ Len(s) = 1
    <3> HIDE DEF s
    <3> QED BY <2>1 DEF IsBigEndian
  <2>3. s[1] = n
    <3>1. s[1] = (n \div 256^0) % 256
      <4> HIDE DEF s
      <4>1. 1 \in 1 .. 1 /\ 1 - 1 = 0
        OBVIOUS
      <4>2. s[1] = (n \div 256^(1 - 1)) % 256
        BY <2>1, <4>1 DEF IsBigEndian
      <4> QED BY <4>1, <4>2
    <3> QED BY <1>6, <3>1, PowersOf256, DigitsOf
  <2> HIDE DEF s
  <2>4. << n >> \in Codes
    <3>1. n \in 0 .. 255
      BY <1>6
    <3> QED BY <1>4, <3>1
  <2>5. s = << n >>
    <3>1. << n >> \in Seq(B) /\ s \in Seq(B) /\ Len(<< n >>) = 1
      BY <2>2, <2>4 DEF Codes
    <3>2. \A i \in 1 .. Len(s) : s[i] = << n >>[i]
      BY <2>2, <2>3
    <3> HIDE DEF B
    <3> QED BY <2>2, <3>1, <3>2, SeqEqual
  <2> QED BY <2>4, <2>5 DEF s
<1> QED BY <1>1, <1>2, <1>3, <1>5, <1>6

-----------------------------------------------------------------------------
(* The code of the trees *)

Places == Forest \X Nat

(* Where the parts of the longer forms are. *)
IsRotated(text, tree, at, code) ==
    \E b, c :
        LET x == code[<< tree.x, at >>]
            y == code[<< tree.y, b >>]
            z == code[<< tree.z, c >>]
        IN  /\ b = at + Len(x) /\ c = at + Len(x) + Len(y)
            /\ text = x \o y \o z \o Byte("Rot") \o Byte(tree.op) \o Byte(tree.op)

IsConditional(text, tree, at, code) ==
    \E b, c, d :
        LET x == code[<< tree.x, at >>]
            z == code[<< tree.z, b >>]
            y == code[<< tree.y, c >>]
        IN  /\ b = at + Len(x) + 3 /\ c = b + Len(z) + 3 /\ d = c + Len(y)
            /\ text = x \o Byte("If_goto") \o BigEndian(c, 2) \o z
                          \o Byte("Goto") \o BigEndian(d, 2) \o y

(* The code of a tree by that of its parts, form by form. *)
LEMMA AssembledForms ==
    ASSUME NEW tree, NEW at, NEW code
    PROVE  LET x(p) == code[<< tree.x, p >>]
               y(p) == code[<< tree.y, p >>]
               text == Assembled(tree, at, code)
           IN  /\ tree.form = "const" =>
                      text = Byte(tree.op) \o BigEndian(tree.value, OperandBytes(tree.op))
               /\ tree.form = "reg" => text = Byte("Reg") \o BigEndian(tree.number, 2)
               /\ tree.form = "unary" => text = x(at) \o Byte(tree.op)
               /\ tree.form = "extend" => text = x(at) \o Byte(tree.op) \o << tree.n >>
               /\ tree.form = "twice" => text = x(at) \o Byte("Dup") \o Byte(tree.op)
               /\ tree.form = "binary" =>
                      text = x(at) \o y(at + Len(x(at))) \o Byte(tree.op)
               /\ tree.form = "swapped" =>
                      text = y(at) \o x(at + Len(y(at))) \o Byte("Swap") \o Byte(tree.op)
               /\ tree.form = "picked" =>
                      text = y(at) \o x(at + Len(y(at))) \o Byte("Pick") \o << 1 >>
                                 \o Byte(tree.op) \o Byte("Swap") \o Byte("Pop")
               /\ tree.form = "rotated" => IsRotated(text, tree, at, code)
               /\ tree.form = "if" => IsConditional(text, tree, at, code)
<1> DEFINE text == Assembled(tree, at, code)
<1>1. CASE tree.form \in {"const", "reg", "unary", "extend", "twice"}
  BY <1>1 DEF Assembled
<1>2. CASE tree.form = "binary"
  BY <1>2 DEF Assembled
<1>3. CASE tree.form = "swapped"
  BY <1>3 DEF Assembled
<1>4. CASE tree.form = "picked"
  BY <1>4 DEF Assembled
<1>5. CASE tree.form = "rotated"
  BY <1>5 DEF Assembled, IsRotated
<1>6. CASE tree.form = "if"
  BY <1>6 DEF Assembled, IsConditional
<1> QED BY <1>1, <1>2, <1>3, <1>4, <1>5, <1>6

(* The code of a tree is bytes, if that of its parts is. *)
LEMMA AssembledType ==
    ASSUME NEW tree \in Forest, NEW at \in Nat, NEW code \in [Places -> Codes]
    PROVE  Assembled(tree, at, code) \in Codes
<1> DEFINE x(p) == code[<< tree.x, p >>]
           y(p) == code[<< tree.y, p >>]
           z(p) == code[<< tree.z, p >>]
           text == Assembled(tree, at, code)
           part(t) == \A p \in Nat : code[<< t, p >>] \in Codes
<1> SUFFICES text \in Codes
  OBVIOUS
<1>1. IsTree(tree)
  BY TreeForms
<1>2. ASSUME NEW t, Below(tree, t) PROVE part(t)
  <2>1. \A p \in Nat : << t, p >> \in Places
    BY <1>2 DEF Below, Places
  <2> QED BY <2>1
<1>3. /\ part(tree.x) => \A p \in Nat : x(p) \in Codes
      /\ part(tree.y) => \A p \in Nat : y(p) \in Codes
      /\ part(tree.z) => \A p \in Nat : z(p) \in Codes
  OBVIOUS
<1>4. /\ \A a, b \in Codes : a \o b \in Codes
      /\ \A a \in Codes, p \in Nat : p + Len(a) \in Nat
      /\ \A op \in Names \cup OtherNames : Byte(op) \in Codes
      /\ \A n \in Nat : n < 256 => << n >> \in Codes
  BY CodesJoin
<1>5. /\ "Reg" \in OtherNames /\ "Dup" \in OtherNames /\ "Swap" \in OtherNames
      /\ "Pick" \in OtherNames /\ "Pop" \in OtherNames /\ "Rot" \in OtherNames
      /\ "If_goto" \in OtherNames /\ "Goto" \in OtherNames
      /\ UnaryNames \cup {"Ext", "Zero_ext", "Const8", "Const16", "Const32"}
             \subseteq OtherNames
  BY DEF OtherNames, UnaryNames
<1>6. ASSUME NEW n \in Nat, NEW bytes \in {0, 1, 2, 4} PROVE BigEndian(n, bytes) \in Codes
  <2>1. IsBigEndian(BigEndian(n, bytes), n, bytes)
    BY BigEndianType
  <2> QED BY <2>1 DEF IsBigEndian
<1>7. ASSUME NEW n, NEW bytes, Fits(n, bytes) PROVE n \in Nat
  BY <1>7 DEF Fits
<1> HIDE DEF text, part
<1>8. CASE tree.form \in {"const", "reg"}
  <2>1. CASE tree.form = "const"
    <3>1. text = Byte(tree.op) \o BigEndian(tree.value, OperandBytes(tree.op))
      BY <2>1, AssembledForms DEF text
    <3>2. /\ tree.op \in {"Const8", "Const16", "Const32"} /\ tree.value \in Nat
          /\ OperandBytes(tree.op) \in {0, 1, 2, 4}
      BY <1>1, <1>7, <2>1, OperandSizes DEF IsTree
    <3> QED BY <1>4, <1>5, <1>6, <3>1, <3>2
  <2>2. CASE tree.form = "reg"
    <3>1. text = Byte("Reg") \o BigEndian(tree.number, 2)
      BY <2>2, AssembledForms DEF text
    <3>2. tree.number \in Nat
      BY <1>1, <1>7, <2>2 DEF IsTree
    <3> QED BY <1>4, <1>5, <1>6, <3>1, <3>2
  <2> QED BY <1>8, <2>1, <2>2
<1> HIDE DEF x, y, z
<1>9. CASE tree.form \in {"unary", "extend", "twice"}
  <2>1. Below(tree, tree.x) /\ x(at) \in Codes
    BY <1>1, <1>2, <1>3, <1>9 DEF IsTree
  <2>2. CASE tree.form = "unary"
    <3>1. text = x(at) \o Byte(tree.op)
      BY <2>2, AssembledForms DEF text, x
    <3>2. tree.op \in OtherNames
      BY <1>1, <1>5, <2>2 DEF IsTree
    <3> QED BY <1>4, <2>1, <3>1, <3>2
  <2>3. CASE tree.form = "extend"
    <3>1. text = x(at) \o Byte(tree.op) \o << tree.n >>
      BY <2>3, AssembledForms DEF text, x
    <3>2. tree.op \in OtherNames /\ tree.n \in Nat /\ tree.n < 256
      BY <1>1, <1>5, <2>3 DEF IsTree
    <3> QED BY <1>4, <2>1, <3>1, <3>2
  <2>4. CASE tree.form = "twice"
    <3>1. text = x(at) \o Byte("Dup") \o Byte(tree.op)
      BY <2>4, AssembledForms DEF text, x
    <3>2. tree.op \in Names
      BY <1>1, <2>4 DEF IsTree
    <3> QED BY <1>4, <1>5, <2>1, <3>1, <3>2
  <2> QED BY <1>9, <2>2, <2>3, <2>4
<1>10. CASE tree.form \in {"binary", "swapped", "picked"}
  <2>1. \A p \in Nat : x(p) \in Codes /\ y(p) \in Codes
    BY <1>1, <1>2, <1>3, <1>10 DEF IsTree
  <2>2. tree.op \in Names
    BY <1>1, <1>10 DEF IsTree
  <2>3. << 1 >> \in Codes
    BY <1>4
  <2>4. CASE tree.form = "binary"
    <3>1. text = x(at) \o y(at + Len(x(at))) \o Byte(tree.op)
      BY <2>4, AssembledForms DEF text, x, y
    <3>2. x(at) \in Codes /\ y(at + Len(x(at))) \in Codes
      BY <1>4, <2>1
    <3> QED BY <1>4, <2>2, <3>1, <3>2
  <2>5. CASE tree.form \in {"swapped", "picked"}
    <3>1. y(at) \in Codes /\ x(at + Len(y(at))) \in Codes
      BY <1>4, <2>1
    <3>2. CASE tree.form = "swapped"
      <4>1. text = y(at) \o x(at + Len(y(at))) \o Byte("Swap") \o Byte(tree.op)
        BY <3>2, AssembledForms DEF text, x, y
      <4> QED BY <1>4, <1>5, <2>2, <3>1, <4>1
    <3>3. CASE tree.form = "picked"
      <4>1. text = y(at) \o x(at + Len(y(at))) \o Byte("Pick") \o << 1 >>
                       \o Byte(tree.op) \o Byte("Swap") \o Byte("Pop")
        BY <3>3, AssembledForms DEF text, x, y
      <4> QED BY <1>4, <1>5, <2>2, <2>3, <3>1, <4>1
    <3> QED BY <2>5, <3>2, <3>3
  <2> QED BY <1>10, <2>4, <2>5
<1>11. CASE tree.form = "rotated"
  <2>1. \A p \in Nat : x(p) \in Codes /\ y(p) \in Codes /\ z(p) \in Codes
    BY <1>1, <1>2, <1>3, <1>11 DEF IsTree
  <2>2. tree.op \in Names
    BY <1>1, <1>11 DEF IsTree
  <2>3. PICK b, c : /\ b = at + Len(x(at)) /\ c = at + Len(x(at)) + Len(y(b))
                    /\ text = x(at) \o y(b) \o z(c) \o Byte("Rot") \o Byte(tree.op)
                                  \o Byte(tree.op)
    <3>1. IsRotated(text, tree, at, code)
      BY <1>11, AssembledForms DEF text
    <3> QED BY <3>1 DEF IsRotated, x, y, z
  <2>4. b \in Nat /\ c \in Nat
    BY <1>4, <2>1, <2>3
  <2>5. x(at) \in Codes /\ y(b) \in Codes /\ z(c) \in Codes
    BY <2>1, <2>4
  <2> QED BY <1>4, <1>5, <2>2, <2>3, <2>5
<1>12. CASE tree.form = "if"
  <2>1. \A p \in Nat : x(p) \in Codes /\ y(p) \in Codes /\ z(p) \in Codes
    BY <1>1, <1>2, <1>3, <1>12 DEF IsTree
  <2>2. PICK b, c, d :
            /\ b = at + Len(x(at)) + 3 /\ c = b + Len(z(b)) + 3 /\ d = c + Len(y(c))
            /\ text = x(at) \o Byte("If_goto") \o BigEndian(c, 2) \o z(b)
                          \o Byte("Goto") \o BigEndian(d, 2) \o y(c)
    <3>1. IsConditional(text, tree, at, code)
      BY <1>12, AssembledForms DEF text
    <3> QED BY <3>1 DEF IsConditional, x, y, z
  <2>3. b \in Nat
    BY <1>4, <2>1, <2>2
  <2>4. c \in Nat
    BY <1>4, <2>1, <2>2, <2>3
  <2>5. d \in Nat
    BY <1>4, <2>1, <2>2, <2>4
  <2>6. /\ x(at) \in Codes /\ z(b) \in Codes /\ y(c) \in Codes
        /\ BigEndian(c, 2) \in Codes /\ BigEndian(d, 2) \in Codes
    BY <1>6, <2>1, <2>3, <2>4, <2>5
  <2> QED BY <1>4, <1>5, <2>2, <2>6
<1> QED BY <1>1, <1>8, <1>9, <1>10, <1>11, <1>12 DEF IsTree

(* The code of a tree depends on that of its parts only. *)
LEMMA AssembledLocally ==
    ASSUME NEW tree \in Forest, NEW at \in Nat,
           NEW f \in [Places -> Codes], NEW g \in [Places -> Codes],
           \A t : Below(tree, t) => \A p \in Nat : f[<< t, p >>] = g[<< t, p >>]
    PROVE  Assembled(tree, at, f) = Assembled(tree, at, g)
<1> DEFINE same(t) == \A p \in Nat : f[<< t, p >>] = g[<< t, p >>] /\ f[<< t, p >>] \in Codes
<1>1. IsTree(tree)
  BY TreeForms
<1>2. ASSUME NEW t, Below(tree, t) PROVE same(t)
  <2>1. \A p \in Nat : << t, p >> \in Places
    BY <1>2 DEF Below, Places
  <2> QED BY <1>2, <2>1
<1>3. \A a \in Codes, p \in Nat : p + Len(a) \in Nat
  BY CodesJoin
<1>4. /\ same(tree.x) => \A p \in Nat : f[<< tree.x, p >>] = g[<< tree.x, p >>]
                                     /\ f[<< tree.x, p >>] \in Codes
      /\ same(tree.y) => \A p \in Nat : f[<< tree.y, p >>] = g[<< tree.y, p >>]
                                     /\ f[<< tree.y, p >>] \in Codes
      /\ same(tree.z) => \A p \in Nat : f[<< tree.z, p >>] = g[<< tree.z, p >>]
                                     /\ f[<< tree.z, p >>] \in Codes
  OBVIOUS
<1> HIDE DEF same
<1>5. CASE tree.form \in {"const", "reg"}
  BY <1>5 DEF Assembled
<1>6. CASE tree.form \in {"unary", "extend", "twice"}
  <2>1. same(tree.x)
    BY <1>1, <1>2, <1>6 DEF IsTree
  <2> QED BY <1>4, <1>6, <2>1 DEF Assembled
<1>7. CASE tree.form \in {"binary", "swapped", "picked"}
  <2>1. same(tree.x) /\ same(tree.y)
    BY <1>1, <1>2, <1>7 DEF IsTree
  <2>2. CASE tree.form = "binary"
    BY <1>3, <1>4, <2>1, <2>2 DEF Assembled
  <2>3. CASE tree.form = "swapped"
    BY <1>3, <1>4, <2>1, <2>3 DEF Assembled
  <2>4. CASE tree.form = "picked"
    BY <1>3, <1>4, <2>1, <2>4 DEF Assembled
  <2> QED BY <1>7, <2>2, <2>3, <2>4
<1>8. CASE tree.form = "rotated"
  <2>1. same(tree.x) /\ same(tree.y) /\ same(tree.z)
    BY <1>1, <1>2, <1>8 DEF IsTree
  <2> DEFINE b == at + Len(f[<< tree.x, at >>])
             c == at + Len(f[<< tree.x, at >>]) + Len(f[<< tree.y, b >>])
  <2>2. b \in Nat
    BY <1>3, <1>4, <2>1
  <2>3. c \in Nat
    <3> HIDE DEF b
    <3>1. f[<< tree.y, b >>] \in Codes
      BY <1>4, <2>1, <2>2
    <3> QED BY <1>3, <2>2, <3>1 DEF b
  <2>4. /\ f[<< tree.x, at >>] = g[<< tree.x, at >>]
        /\ f[<< tree.y, b >>] = g[<< tree.y, b >>]
        /\ f[<< tree.z, c >>] = g[<< tree.z, c >>]
    <3> HIDE DEF b, c
    <3> QED BY <1>4, <2>1, <2>2, <2>3
  <2> QED BY <1>8, <2>4 DEF Assembled
<1>9. CASE tree.form = "if"
  <2>1. same(tree.x) /\ same(tree.y) /\ same(tree.z)
    BY <1>1, <1>2, <1>9 DEF IsTree
  <2> DEFINE b == at + Len(f[<< tree.x, at >>]) + 3
             c == at + Len(f[<< tree.x, at >>]) + 3 + Len(f[<< tree.z, b >>]) + 3
  <2>2. b \in Nat
    <3>1. at + Len(f[<< tree.x, at >>]) \in Nat
      BY <1>3, <1>4, <2>1
    <3> QED BY <3>1
  <2>3. c \in Nat
    <3>1. f[<< tree.z, b >>] \in Codes
      <4> HIDE DEF b
      <4> QED BY <1>4, <2>1, <2>2
    <3> DEFINE e == b + Len(f[<< tree.z, b >>])
    <3>2. e \in Nat
      <4> HIDE DEF b
      <4> QED BY <1>3, <2>2, <3>1
    <3>3. c = e + 3
      OBVIOUS
    <3> HIDE DEF e, c
    <3> QED BY <3>2, <3>3
  <2>4. /\ f[<< tree.x, at >>] = g[<< tree.x, at >>]
        /\ f[<< tree.z, b >>] = g[<< tree.z, b >>]
        /\ f[<< tree.y, c >>] = g[<< tree.y, c >>]
    <3> HIDE DEF b, c
    <3> QED BY <1>4, <2>1, <2>2, <2>3
  <2> QED BY <1>9, <2>4 DEF Assembled
<1> QED BY <1>1, <1>5, <1>6, <1>7, <1>8, <1>9 DEF IsTree

(* The code of every tree at every place. *)
CodeOf == [place \in Places |-> Code(place[1], place[2])]

(* The code of every tree is put together from that of its parts. *)
LEMMA CodeUnfolds ==
    /\ CodeOf \in [Places -> Codes]
    /\ \A tree \in Forest, at \in Nat :
           /\ Code(tree, at) = CodeOf[<< tree, at >>]
           /\ Code(tree, at) = Assembled(tree, at, CodeOf)
<1> DEFINE T == [Places -> Codes]
           G == [q \in Places \X T |-> Assembled(q[1][1], q[1][2], q[2])]
           depth == [place \in Places |-> Depth[place[1]]]
           Settled(R) == Settles(R, Places, Codes, << >>, G, depth)
<1>1. ASSUME NEW place \in Places, NEW f \in T
      PROVE  /\ G[<< place, f >>] = Assembled(place[1], place[2], f)
             /\ G[<< place, f >>] \in Codes
  <2>1. place[1] \in Forest /\ place[2] \in Nat
    BY <1>1 DEF Places
  <2>2. Assembled(place[1], place[2], f) \in Codes
    BY <2>1, AssembledType
  <2>3. << place, f >> \in Places \X T
    <3> HIDE DEF T
    <3> QED BY <1>1
  <2>4. G[<< place, f >>] = Assembled(place[1], place[2], f)
    <3> HIDE DEF T
    <3> QED BY <2>3
  <2> QED BY <2>2, <2>4
<1>2. G \in LevelFunctions(Places, Codes)
  <2>1. \A q \in Places \X T : q = << q[1], q[2] >> /\ q[1] \in Places /\ q[2] \in T
    <3> HIDE DEF T
    <3> QED OBVIOUS
  <2>2. ASSUME NEW q \in Places \X T PROVE G[q] \in Codes
    <3> HIDE DEF G, T
    <3> QED BY <1>1, <2>1, <2>2
  <2>3. G = [q \in Places \X T |-> G[q]]
    <3> HIDE DEF T
    <3> QED OBVIOUS
  <2> HIDE DEF G
  <2> QED BY <2>2, <2>3 DEF LevelFunctions
<1>3. depth \in [Places -> Nat \ {0}]
  <2>1. ASSUME NEW place \in Places PROVE Depth[place[1]] \in Nat \ {0}
    <3>1. place[1] \in Forest
      BY DEF Places
    <3> QED BY <3>1, TreeForms
  <2> QED BY <2>1
<1>4. IsLocal(G, Places, Codes, depth)
  <2>1. ASSUME NEW place \in Places, NEW f \in T, NEW g \in T,
               \A q \in Places : depth[q] < depth[place] => f[q] = g[q]
        PROVE  G[<< place, f >>] = G[<< place, g >>]
    <3>1. place[1] \in Forest /\ place[2] \in Nat
      BY <2>1 DEF Places
    <3>2. ASSUME NEW t, Below(place[1], t), NEW p \in Nat PROVE f[<< t, p >>] = g[<< t, p >>]
      <4>1. << t, p >> \in Places
        BY <3>2 DEF Below, Places
      <4>2. depth[<< t, p >>] = Depth[t] /\ depth[place] = Depth[place[1]]
        BY <4>1
      <4>3. depth[<< t, p >>] < depth[place]
        BY <3>2, <4>2 DEF Below
      <4> HIDE DEF depth
      <4> QED BY <2>1, <4>1, <4>3
    <3>3. Assembled(place[1], place[2], f) = Assembled(place[1], place[2], g)
      BY <3>1, <3>2, AssembledLocally
    <3> HIDE DEF G, T
    <3> QED BY <1>1, <2>1, <3>3
  <2> HIDE DEF G, depth
  <2> QED BY <2>1 DEF IsLocal
<1>5. << >> \in Codes
  BY CodesJoin
<1>6. PICK R : Settled(R)
  <2> HIDE DEF G, depth
  <2> QED BY <1>2, <1>3, <1>4, <1>5, LevelsSettle
<1>7. ASSUME NEW tree \in Forest, NEW at \in Nat
      PROVE  Code(tree, at) = R[<< tree, at >>]
  <2> DEFINE N == Depth[tree]
             Next_(f, n) == [place \in Places |->
                 IF n = 0 THEN << >> ELSE Assembled(place[1], place[2], f[n - 1])]
             Unfold(f) == [n \in 0 .. N |-> Next_(f, n)]
             code == CHOOSE f : f = Unfold(f)
             Is(f) == IsLevels(f, N, Places, Codes, << >>, G)
  <2>1. N \in Nat
    BY TreeForms
  <2> HIDE DEF N
  <2>2. PICK F : Is(F)
    <3> HIDE DEF G
    <3> QED BY <1>2, <1>5, <2>1, LevelsExist
  <2>3. /\ F \in [0 .. N -> T] /\ F[0] = [p \in Places |-> << >>]
        /\ \A k \in 1 .. N : F[k] = [p \in Places |-> G[<< p, F[k - 1] >>]]
    <3> HIDE DEF G
    <3> QED BY <2>2 DEF IsLevels
  <2>4. ASSUME NEW n \in 0 .. N PROVE F[n] = Next_(F, n)
    <3>1. CASE n = 0
      BY <2>3, <3>1
    <3>2. CASE n # 0
      <4>1. n \in 1 .. N /\ n - 1 \in 0 .. N
        BY <2>1, <3>2
      <4>2. F[n - 1] \in T
        <5> HIDE DEF T, G
        <5> QED BY <2>3, <4>1
      <4>3. ASSUME NEW p \in Places
            PROVE  G[<< p, F[n - 1] >>] = Assembled(p[1], p[2], F[n - 1])
        <5> HIDE DEF T, G
        <5> QED BY <1>1, <4>2
      <4>4. F[n] = [p \in Places |-> G[<< p, F[n - 1] >>]]
        <5> HIDE DEF G
        <5> QED BY <2>3, <4>1
      <4> HIDE DEF G
      <4> QED BY <3>2, <4>3, <4>4
    <3> QED BY <3>1, <3>2
  <2>5. F = Unfold(F)
    <3>1. F = [n \in 0 .. N |-> F[n]]
      <4> HIDE DEF T, G
      <4> QED BY <2>3
    <3> HIDE DEF Next_
    <3> QED BY <2>4, <3>1
  <2>6. code = Unfold(code)
    <3> HIDE DEF Unfold
    <3> QED BY <2>5
  <2>7. \A n \in 0 .. N : code[n] = Next_(code, n)
    <3> HIDE DEF code, Next_
    <3> QED BY <2>6
  <2>8. code = [n \in 0 .. N |-> code[n]]
    <3> HIDE DEF code, Next_
    <3> QED BY <2>6
  <2>9. Code(tree, at) = code[N][<< tree, at >>]
    BY DEF Code, Places, N
  <2> HIDE DEF code
  <2>10. code[0] = [p \in Places |-> << >>]
    BY <2>1, <2>7
  <2>11. ASSUME NEW n \in 1 .. N, code[n - 1] \in T
         PROVE  code[n] \in T /\ code[n] = [p \in Places |-> G[<< p, code[n - 1] >>]]
    <3>1. n \in 0 .. N /\ n # 0
      BY <2>1
    <3>2. code[n] = [p \in Places |-> Assembled(p[1], p[2], code[n - 1])]
      BY <2>7, <3>1
    <3>3. ASSUME NEW p \in Places
          PROVE  /\ G[<< p, code[n - 1] >>] = Assembled(p[1], p[2], code[n - 1])
                 /\ G[<< p, code[n - 1] >>] \in Codes
      <4> HIDE DEF T, G
      <4> QED BY <1>1, <2>11
    <3> HIDE DEF G
    <3> QED BY <3>2, <3>3
  <2>12. \A n \in 0 .. N : code[n] \in T
    <3>1. code[0] \in T
      BY <1>5, <2>10
    <3> HIDE DEF T, G
    <3> QED BY <2>1, <2>11, <3>1, RecursionType
  <2>13. Is(code)
    <3>1. code \in [0 .. N -> T]
      <4> HIDE DEF T, G
      <4> QED BY <2>8, <2>12
    <3>2. \A n \in 1 .. N : code[n] = [p \in Places |-> G[<< p, code[n - 1] >>]]
      <4>1. \A n \in 1 .. N : n - 1 \in 0 .. N
        BY <2>1
      <4> HIDE DEF T, G
      <4> QED BY <2>11, <2>12, <4>1
    <3> HIDE DEF G
    <3> QED BY <2>10, <3>1, <3>2 DEF IsLevels
  <2> DEFINE place == << tree, at >>
  <2>14. place \in Places /\ depth[place] = N
    BY DEF Places, N
  <2>15. code[N][place] = R[place]
    <3> HIDE DEF G, depth, place
    <3>1. depth[place] <= N
      BY <2>1, <2>14
    <3> QED BY <1>6, <2>1, <2>13, <2>14, <3>1 DEF Settles
  <2> QED BY <2>9, <2>15
<1>8. R \in T /\ \A p \in Places : R[p] = G[<< p, R >>]
  <2> HIDE DEF G, depth
  <2> QED BY <1>6 DEF Settles
<1>9. CodeOf = R
  <2>1. ASSUME NEW place \in Places PROVE Code(place[1], place[2]) = R[place]
    <3>1. place[1] \in Forest /\ place[2] \in Nat /\ place = << place[1], place[2] >>
      BY <2>1 DEF Places
    <3> QED BY <1>7, <3>1
  <2>2. R = [place \in Places |-> R[place]]
    BY <1>8
  <2> QED BY <2>1, <2>2 DEF CodeOf
<1>10. ASSUME NEW tree \in Forest, NEW at \in Nat
       PROVE  /\ Code(tree, at) = CodeOf[<< tree, at >>]
              /\ Code(tree, at) = Assembled(tree, at, CodeOf)
  <2>1. << tree, at >> \in Places /\ << tree, at >>[1] = tree /\ << tree, at >>[2] = at
    BY DEF Places
  <2>2. G[<< << tree, at >>, R >>] = Assembled(tree, at, R)
    <3> HIDE DEF G, T
    <3> QED BY <1>1, <1>8, <2>1
  <2> HIDE DEF G
  <2> QED BY <1>7, <1>8, <1>9, <2>1, <2>2
<1> HIDE DEF G
<1> QED BY <1>8, <1>9, <1>10

-----------------------------------------------------------------------------
(* The values of the trees *)

(* Shifting left and arithmetically right extends the sign. *)
LEMMA SignExtendedValue ==
    ASSUME NEW x \in Word, NEW n \in Nat, 0 < n, n < XLEN
    PROVE  SignExtended(x, n) =
               IF x % 2^n >= 2^(n - 1) THEN Truncated((x % 2^n) - 2^n) ELSE x % 2^n
<1> DEFINE k == XLEN - n
           P == 2^k
           Q == 2^n
           H == 2^(n - 1)
           W == 2^XLEN
           h == 2^(XLEN - 1)
           r == x % Q
           s == Sll(x, k)
           v == Sra(s, k)
<1>1. /\ XLEN \in Nat /\ k \in 0 .. XLEN - 1 /\ n \in 0 .. XLEN /\ n - 1 \in 0 .. XLEN
      /\ k \in 0 .. XLEN /\ XLEN - k = n /\ k % XLEN = k /\ XLEN % XLEN = 0
  BY XLENAssumption
<1>2. (XLEN - n) % XLEN = k
  BY <1>1
<1>3. k \in Word
  <2>1. XLEN \in Nat /\ XLEN < W
    BY <1>1, WidthIsWord, WordSize DEF Word
  <2> HIDE DEF W
  <2> QED BY <1>1, <2>1 DEF Word, W
<1>4. P \in Nat \ {0} /\ Q \in Nat \ {0} /\ H \in Nat \ {0}
  <2> HIDE DEF k
  <2> QED BY <1>1, Powers
<1>5. P * Q = W /\ Q <= W
  <2>1. 2^k * 2^(XLEN - k) = 2^XLEN
    <3>1. XLEN \in 0 .. XLEN
      BY <1>1
    <3> HIDE DEF k
    <3> QED BY <1>1, <3>1, PowerProduct
  <2>2. Q <= W
    <3>1. XLEN \in 0 .. XLEN
      BY <1>1
    <3> QED BY <1>1, <3>1, PowerGrows
  <2> QED BY <1>1, <2>1, <2>2
<1>6. Q = 2 * H /\ W = 2 * h /\ h \in Nat /\ W \in Nat
  <2>1. n \in 1 .. XLEN
    BY <1>1
  <2>2. Q = 2 * H
    BY <2>1, Powers
  <2> QED BY <2>2, WordSize
<1>7. x \in Nat /\ x < W
  BY WordSize DEF Word
<1>8. SignExtended(x, n) = v
  BY <1>2 DEF SignExtended
<1>9. s \in Word /\ s % P = 0 /\ s \div P = r
  <2> HIDE DEF k
  <2>1. s \in Word /\ s % 2^(k % XLEN) = 0 /\ s \div 2^(k % XLEN) = x % 2^(XLEN - (k % XLEN))
    BY <1>3, SllValue
  <2> HIDE DEF s
  <2> QED BY <1>1, <2>1
<1>10. v \in Word /\ Signed(v) = Signed(s) \div P
  <2> HIDE DEF k, s
  <2> QED BY <1>1, <1>3, <1>9, SraValue
<1>11. Signed(s) = (IF s < h THEN s ELSE s - W) /\ Signed(s) \in Int /\ s \in Nat
  <2> HIDE DEF s
  <2> QED BY <1>9, SignedValue
<1>12. v = Truncated(Signed(v)) /\ Signed(v) \in Int
  <2> HIDE DEF v
  <2>1. v \in Nat /\ Signed(v) \in Int /\ \E c \in Int : Signed(v) = v + 2^XLEN * c
    BY <1>10, SignedValue
  <2>2. PICK c \in Int : Signed(v) = v + 2^XLEN * c
    BY <2>1
  <2>3. Truncated(v + 2^XLEN * c) = Truncated(v) /\ Truncated(v) = v
    BY <1>10, <2>1, TruncatedValue
  <2> QED BY <2>1, <2>2, <2>3
<1>13. r \in Nat /\ r < Q
  <2> HIDE DEF Q
  <2> QED BY <1>4, <1>7
<1>14. r \in Word
  <2> HIDE DEF r, W, Q
  <2> QED BY <1>5, <1>6, <1>13 DEF Word, W
<1> HIDE DEF k, P, Q, H, W, h, r, s, v
<1>15. s = P * r
  <2>1. s = P * (s \div P) + (s % P)
    BY <1>4, <1>11, Division, SMTT(30)
  <2>2. P * r \in Nat
    BY <1>4, <1>13
  <2> QED BY <1>9, <2>1, <2>2
<1>16. h = P * H
  <2> DEFINE m == P * H
  <2>1. P * Q = P * (2 * H) /\ P * (2 * H) = 2 * m /\ m \in Nat
    BY <1>4, <1>6
  <2> HIDE DEF m
  <2>2. 2 * h = 2 * m
    BY <1>5, <1>6, <2>1
  <2> QED BY <1>6, <2>1, <2>2 DEF m
<1>17. CASE r >= H
  <2>1. s >= h
    <3>1. P * r >= P * H
      BY <1>4, <1>13, <1>17
    <3> QED BY <1>15, <1>16, <3>1
  <2>2. Signed(s) = P * (r - Q) + 0
    <3>1. Signed(s) = s - W
      BY <1>6, <1>11, <2>1
    <3>2. P * (r - Q) = P * r - P * Q
      BY <1>4, <1>13
    <3>3. P * r \in Int /\ P * Q \in Int
      BY <1>4, <1>13
    <3> QED BY <1>5, <1>15, <3>1, <3>2, <3>3
  <2>3. Signed(v) = r - Q
    <3>1. r - Q \in Int /\ 0 \in 0 .. P - 1
      BY <1>4, <1>13
    <3>2. (P * (r - Q) + 0) \div P = r - Q
      BY <1>4, <3>1, DivisionUnique
    <3> QED BY <1>10, <2>2, <3>2
  <2> QED BY <1>8, <1>12, <1>17, <2>3 DEF r, Q, H
<1>18. CASE ~ r >= H
  <2>1. r + 1 <= H /\ s < h
    <3>1. r + 1 <= H
      BY <1>4, <1>13, <1>18
    <3>2. P * (r + 1) <= P * H
      BY <1>4, <1>13, <3>1
    <3>3. P * (r + 1) = P * r + P /\ P * r \in Nat
      BY <1>4, <1>13
    <3> QED BY <1>4, <1>15, <1>16, <3>1, <3>2, <3>3
  <2>2. Signed(s) = P * r + 0
    <3>1. P * r \in Int
      BY <1>4, <1>13
    <3> QED BY <1>11, <1>15, <2>1, <3>1
  <2>3. Signed(v) = r
    <3>1. r \in Int /\ 0 \in 0 .. P - 1
      BY <1>4, <1>13
    <3>2. (P * r + 0) \div P = r
      BY <1>4, <3>1, DivisionUnique
    <3> QED BY <1>10, <2>2, <3>2
  <2>4. Truncated(r) = r
    BY <1>13, <1>14, TruncatedValue
  <2> QED BY <1>8, <1>12, <1>18, <2>3, <2>4 DEF r, Q, H
<1> QED BY <1>17, <1>18

(* A zero extension keeps the low bits. *)
LEMMA ZeroExtendedValue ==
    ASSUME NEW x \in Word, NEW n \in Nat, 0 < n, n < XLEN
    PROVE  ZeroExtended(x, n) = x % 2^n
<1>1. n % XLEN = n
  BY XLENAssumption
<1> QED BY <1>1 DEF ZeroExtended

(* The bits of a word inverted. *)
LEMMA ComplementValue ==
    ASSUME NEW x \in Word
    PROVE  AllOnes - x = Truncated(-x - 1) /\ AllOnes - x \in Word
<1> DEFINE W == 2^XLEN
<1>1. W \in Nat /\ x \in Nat /\ x < W
  BY WordSize DEF Word
<1>2. W - 1 - x \in Word
  <2> HIDE DEF W
  <2>1. W - 1 - x \in 0 .. W - 1
    BY <1>1
  <2> QED BY <2>1 DEF Word, W
<1>3. Truncated((-x - 1) + W * 1) = Truncated(-x - 1)
  <2>1. -x - 1 \in Int /\ 1 \in Int
    BY <1>1
  <2> QED BY <2>1, TruncatedValue
<1>4. (-x - 1) + W * 1 = W - 1 - x
  <2> HIDE DEF W
  <2> QED BY <1>1
<1>5. Truncated(W - 1 - x) = W - 1 - x
  <2> DEFINE z == W - 1 - x
  <2>1. z \in Int
    <3> HIDE DEF W
    <3> QED BY <1>1
  <2> HIDE DEF z
  <2> QED BY <1>2, <2>1, TruncatedValue DEF z
<1> QED BY <1>2, <1>3, <1>4, <1>5 DEF AllOnes

Answers == Word \cup {Missing}

(* A word is a value. *)
LEMMA MissingIsNoWord == Missing \notin Word
<1> DEFINE W == 2^XLEN
<1>1. W \in Nat
  BY WordSize
<1> HIDE DEF W
<1>2. -1 \notin 0 .. W - 1
  BY <1>1
<1> QED BY <1>2 DEF Word, W, Missing

(* An operation on two values has a value or none. *)
LEMMA AppliedType ==
    ASSUME NEW op \in Names, NEW x \in Answers, NEW y \in Answers
    PROVE  Applied(op, x, y) \in Answers
<1>1. x \in Word /\ y \in Word => Computed(op, x, y) \in Word
  BY ComputedType
<1>2. Missing \notin {x, y} => x \in Word /\ y \in Word
  BY DEF Answers
<1> HIDE DEF Word
<1> QED BY <1>1, <1>2 DEF Applied, Answers

(* An operation on one value has a value or none. *)
LEMMA AppliedToType ==
    ASSUME NEW op \in UnaryNames, NEW x \in Answers, NEW env, IsSeen(env)
    PROVE  AppliedTo(op, x, env) \in Answers
<1>1. CASE x = Missing
  BY <1>1 DEF AppliedTo, Answers
<1>2. CASE x # Missing
  <2>1. x \in Word
    BY <1>2 DEF Answers
  <2>2. /\ BoolWord(x = 0) \in Word /\ Truncated(-x - 1) \in Word
    BY <2>1, BoolWordValue, ComplementValue
  <2>3. \A bytes \in {1, 2, 4} : MemoryValue(env, x, bytes) \in Word \cup {Missing}
    BY MemoryValueType
  <2>4. op \in {"Log_not", "Bit_not"} => AppliedTo(op, x, env) \in Word
    BY <1>2, <2>2 DEF AppliedTo
  <2>5. op = "Ref8" => AppliedTo(op, x, env) = MemoryValue(env, x, 1)
    BY <1>2 DEF AppliedTo
  <2>6. op = "Ref16" => AppliedTo(op, x, env) = MemoryValue(env, x, 2)
    BY <1>2 DEF AppliedTo
  <2>7. op = "Ref32" => AppliedTo(op, x, env) = MemoryValue(env, x, 4)
    BY <1>2 DEF AppliedTo
  <2> HIDE DEF Word
  <2> QED BY <2>3, <2>4, <2>5, <2>6, <2>7 DEF UnaryNames, Answers
<1> QED BY <1>1, <1>2

(* An extension by what the loop computes. *)
LEMMA ExtendedValue ==
    ASSUME NEW op \in {"Ext", "Zero_ext"}, NEW n \in Nat, 0 < n, n < XLEN, NEW x \in Answers
    PROVE  /\ x = Missing => Extended(op, n, x) = Missing
           /\ x # Missing => Extended(op, n, x) = IF op = "Ext" THEN SignExtended(x, n)
                                                  ELSE ZeroExtended(x, n)
           /\ Extended(op, n, x) \in Answers
<1>1. CASE x = Missing
  BY <1>1 DEF Extended, Answers
<1>2. CASE x # Missing
  <2>1. x \in Word
    BY <1>2 DEF Answers
  <2>2. Extended(op, n, x) = IF op = "Ext" THEN SignExtended(x, n) ELSE ZeroExtended(x, n)
    <3>1. CASE op = "Ext"
      <4>1. Extended(op, n, x) =
                IF x % 2^n >= 2^(n - 1) THEN Truncated((x % 2^n) - 2^n) ELSE x % 2^n
        BY <1>2, <3>1 DEF Extended
      <4> QED BY <2>1, <3>1, <4>1, SignExtendedValue
    <3>2. CASE op = "Zero_ext"
      <4>1. Extended(op, n, x) = x % 2^n
        BY <1>2, <3>2 DEF Extended
      <4> QED BY <2>1, <3>2, <4>1, ZeroExtendedValue
    <3> QED BY <3>1, <3>2
  <2>3. SignExtended(x, n) \in Word /\ ZeroExtended(x, n) \in Word
    BY <2>1, ExtendedType
  <2> QED BY <1>2, <2>2, <2>3 DEF Answers
<1> QED BY <1>1, <1>2

(* A tree has a value or none, if its parts do. *)
LEMMA MeaningType ==
    ASSUME NEW tree \in Forest, NEW env, IsSeen(env), NEW value \in [Forest -> Answers]
    PROVE  Meaning(tree, env, value) \in Answers
<1> DEFINE text == Meaning(tree, env, value)
<1> SUFFICES text \in Answers
  OBVIOUS
<1>1. IsTree(tree)
  BY TreeForms
<1>2. \A t : Below(tree, t) => value[t] \in Answers
  BY DEF Below
<1>3. Missing \in Answers
  BY DEF Answers
<1> HIDE DEF Answers
<1>4. CASE tree.form = "const"
  <2>1. tree.value \in Nat
    BY <1>1, <1>4 DEF IsTree, Fits
  <2>2. Truncated(tree.value) \in Word
    BY <2>1, TruncatedValue
  <2>3. text = Truncated(tree.value)
    BY <1>4 DEF Meaning
  <2> QED BY <2>2, <2>3 DEF Answers
<1>5. CASE tree.form = "reg"
  <2>1. text = RegisterValue(env, tree.number)
    BY <1>5 DEF Meaning
  <2> QED BY <2>1 DEF RegisterValue, IsSeen, Answers
<1>6. CASE tree.form = "unary"
  <2>1. text = AppliedTo(tree.op, value[tree.x], env)
    BY <1>6 DEF Meaning
  <2> QED BY <1>1, <1>2, <1>6, <2>1, AppliedToType DEF IsTree
<1>7. CASE tree.form = "extend"
  <2>1. text = Extended(tree.op, tree.n, value[tree.x])
    BY <1>7 DEF Meaning
  <2>2. /\ tree.op \in {"Ext", "Zero_ext"} /\ tree.n \in Nat /\ 0 < tree.n /\ tree.n < XLEN
        /\ value[tree.x] \in Answers
    BY <1>1, <1>2, <1>7 DEF IsTree
  <2> QED BY <2>1, <2>2, ExtendedValue
<1>8. CASE tree.form \in {"twice", "binary", "swapped", "picked"}
  <2>1. text \in {Applied(tree.op, value[tree.x], value[tree.x]),
                  Applied(tree.op, value[tree.x], value[tree.y])}
    BY <1>8 DEF Meaning
  <2>2. /\ tree.op \in Names /\ value[tree.x] \in Answers
        /\ tree.form # "twice" => value[tree.y] \in Answers
    BY <1>1, <1>2, <1>8 DEF IsTree
  <2>3. tree.form = "twice" => text = Applied(tree.op, value[tree.x], value[tree.x])
    BY DEF Meaning
  <2> QED BY <2>1, <2>2, <2>3, AppliedType
<1>9. CASE tree.form = "rotated"
  <2>1. text = Applied(tree.op, value[tree.z], Applied(tree.op, value[tree.x], value[tree.y]))
    BY <1>9 DEF Meaning
  <2>2. /\ tree.op \in Names /\ value[tree.x] \in Answers /\ value[tree.y] \in Answers
        /\ value[tree.z] \in Answers
    BY <1>1, <1>2, <1>9 DEF IsTree
  <2> QED BY <2>1, <2>2, AppliedType
<1>10. CASE tree.form = "if"
  <2>1. text \in {Missing, value[tree.z], value[tree.y]}
    BY <1>10 DEF Meaning
  <2>2. value[tree.y] \in Answers /\ value[tree.z] \in Answers
    BY <1>1, <1>2, <1>10 DEF IsTree
  <2> QED BY <1>3, <2>1, <2>2
<1> QED BY <1>1, <1>4, <1>5, <1>6, <1>7, <1>8, <1>9, <1>10 DEF IsTree

(* The value of a tree depends on those of its parts only. *)
LEMMA MeaningLocally ==
    ASSUME NEW tree \in Forest, NEW env, NEW f, NEW g, \A t : Below(tree, t) => f[t] = g[t]
    PROVE  Meaning(tree, env, f) = Meaning(tree, env, g)
<1>1. IsTree(tree)
  BY TreeForms
<1>2. CASE tree.form \in {"const", "reg"}
  BY <1>2 DEF Meaning
<1>3. CASE tree.form \in {"unary", "extend", "twice"}
  <2>1. f[tree.x] = g[tree.x]
    BY <1>1, <1>3 DEF IsTree
  <2> QED BY <1>3, <2>1 DEF Meaning
<1>4. CASE tree.form \in {"binary", "swapped", "picked"}
  <2>1. f[tree.x] = g[tree.x] /\ f[tree.y] = g[tree.y]
    BY <1>1, <1>4 DEF IsTree
  <2> QED BY <1>4, <2>1 DEF Meaning
<1>5. CASE tree.form \in {"rotated", "if"}
  <2>1. f[tree.x] = g[tree.x] /\ f[tree.y] = g[tree.y] /\ f[tree.z] = g[tree.z]
    BY <1>1, <1>5 DEF IsTree
  <2> QED BY <1>5, <2>1 DEF Meaning
<1> QED BY <1>1, <1>2, <1>3, <1>4, <1>5 DEF IsTree

(* The value of every tree. *)
ValueOf(env) == [tree \in Forest |-> Value(tree, env)]

(* The value of every tree is computed from those of its parts. *)
LEMMA ValueUnfolds ==
    ASSUME NEW env, IsSeen(env)
    PROVE  /\ ValueOf(env) \in [Forest -> Answers]
           /\ \A tree \in Forest : /\ Value(tree, env) = ValueOf(env)[tree]
                                   /\ Value(tree, env) = Meaning(tree, env, ValueOf(env))
<1> DEFINE T == [Forest -> Answers]
           G == [q \in Forest \X T |-> Meaning(q[1], env, q[2])]
           Settled(R) == Settles(R, Forest, Answers, Missing, G, Depth)
<1>1. ASSUME NEW t \in Forest, NEW f \in T
      PROVE  G[<< t, f >>] = Meaning(t, env, f) /\ G[<< t, f >>] \in Answers
  <2>1. Meaning(t, env, f) \in Answers
    BY MeaningType
  <2>2. << t, f >> \in Forest \X T
    <3> HIDE DEF T
    <3> QED BY <1>1
  <2>3. G[<< t, f >>] = Meaning(t, env, f)
    <3> HIDE DEF T
    <3> QED BY <2>2
  <2> QED BY <2>1, <2>3
<1>2. G \in LevelFunctions(Forest, Answers)
  <2>1. \A q \in Forest \X T : q = << q[1], q[2] >> /\ q[1] \in Forest /\ q[2] \in T
    <3> HIDE DEF T
    <3> QED OBVIOUS
  <2>2. ASSUME NEW q \in Forest \X T PROVE G[q] \in Answers
    <3> HIDE DEF G, T, Answers
    <3> QED BY <1>1, <2>1, <2>2
  <2>3. G = [q \in Forest \X T |-> G[q]]
    <3> HIDE DEF T
    <3> QED OBVIOUS
  <2> HIDE DEF G
  <2> QED BY <2>2, <2>3 DEF LevelFunctions
<1>3. Depth \in [Forest -> Nat \ {0}]
  BY ForestAssumption
<1>4. IsLocal(G, Forest, Answers, Depth)
  <2>1. ASSUME NEW t \in Forest, NEW f \in T, NEW g \in T,
               \A q \in Forest : Depth[q] < Depth[t] => f[q] = g[q]
        PROVE  G[<< t, f >>] = G[<< t, g >>]
    <3>1. \A q : Below(t, q) => f[q] = g[q]
      BY <2>1 DEF Below
    <3>2. Meaning(t, env, f) = Meaning(t, env, g)
      BY <3>1, MeaningLocally
    <3> HIDE DEF G, T
    <3> QED BY <1>1, <2>1, <3>2
  <2> HIDE DEF G
  <2> QED BY <2>1 DEF IsLocal
<1>5. Missing \in Answers
  BY DEF Answers
<1>6. PICK R : Settled(R)
  <2> HIDE DEF G
  <2> QED BY <1>2, <1>3, <1>4, <1>5, LevelsSettle
<1>7. ASSUME NEW tree \in Forest
      PROVE  Value(tree, env) = R[tree]
  <2> DEFINE N == Depth[tree]
             Level(f, n) ==
                 [t \in Forest |-> IF n = 0 THEN Missing ELSE Meaning(t, env, f[n - 1])]
             Unfold(f) == [n \in 0 .. N |-> Level(f, n)]
             value == CHOOSE f : f = Unfold(f)
             Is(f) == IsLevels(f, N, Forest, Answers, Missing, G)
  <2>1. N \in Nat
    BY TreeForms
  <2> HIDE DEF N
  <2>2. PICK F : Is(F)
    <3> HIDE DEF G
    <3> QED BY <1>2, <1>5, <2>1, LevelsExist
  <2>3. /\ F \in [0 .. N -> T] /\ F[0] = [t \in Forest |-> Missing]
        /\ \A k \in 1 .. N : F[k] = [t \in Forest |-> G[<< t, F[k - 1] >>]]
    <3> HIDE DEF G
    <3> QED BY <2>2 DEF IsLevels
  <2>4. ASSUME NEW n \in 0 .. N PROVE F[n] = Level(F, n)
    <3>1. CASE n = 0
      BY <2>3, <3>1
    <3>2. CASE n # 0
      <4>1. n \in 1 .. N /\ n - 1 \in 0 .. N
        BY <2>1, <3>2
      <4>2. F[n - 1] \in T
        <5> HIDE DEF T, G
        <5> QED BY <2>3, <4>1
      <4>3. ASSUME NEW t \in Forest PROVE G[<< t, F[n - 1] >>] = Meaning(t, env, F[n - 1])
        <5> HIDE DEF T, G
        <5> QED BY <1>1, <4>2
      <4>4. F[n] = [t \in Forest |-> G[<< t, F[n - 1] >>]]
        <5> HIDE DEF G
        <5> QED BY <2>3, <4>1
      <4> HIDE DEF G
      <4> QED BY <3>2, <4>3, <4>4
    <3> QED BY <3>1, <3>2
  <2>5. F = Unfold(F)
    <3>1. F = [n \in 0 .. N |-> F[n]]
      <4> HIDE DEF T, G
      <4> QED BY <2>3
    <3> HIDE DEF Level
    <3> QED BY <2>4, <3>1
  <2>6. value = Unfold(value)
    <3> HIDE DEF Unfold
    <3> QED BY <2>5
  <2>7. \A n \in 0 .. N : value[n] = Level(value, n)
    <3> HIDE DEF value, Level
    <3> QED BY <2>6
  <2>8. value = [n \in 0 .. N |-> value[n]]
    <3> HIDE DEF value, Level
    <3> QED BY <2>6
  <2>9. Value(tree, env) = value[N][tree]
    BY DEF Value, N
  <2> HIDE DEF value
  <2>10. value[0] = [t \in Forest |-> Missing]
    BY <2>1, <2>7
  <2>11. ASSUME NEW n \in 1 .. N, value[n - 1] \in T
         PROVE  value[n] \in T /\ value[n] = [t \in Forest |-> G[<< t, value[n - 1] >>]]
    <3>1. n \in 0 .. N /\ n # 0
      BY <2>1
    <3>2. value[n] = [t \in Forest |-> Meaning(t, env, value[n - 1])]
      BY <2>7, <3>1
    <3>3. ASSUME NEW t \in Forest
          PROVE  /\ G[<< t, value[n - 1] >>] = Meaning(t, env, value[n - 1])
                 /\ G[<< t, value[n - 1] >>] \in Answers
      <4> HIDE DEF T, G, Answers
      <4> QED BY <1>1, <2>11
    <3> HIDE DEF G, Answers
    <3> QED BY <3>2, <3>3
  <2>12. \A n \in 0 .. N : value[n] \in T
    <3>1. value[0] \in T
      BY <1>5, <2>10
    <3> HIDE DEF T, G
    <3> QED BY <2>1, <2>11, <3>1, RecursionType
  <2>13. Is(value)
    <3>1. value \in [0 .. N -> T]
      <4> HIDE DEF T, G
      <4> QED BY <2>8, <2>12
    <3>2. \A n \in 1 .. N : value[n] = [t \in Forest |-> G[<< t, value[n - 1] >>]]
      <4>1. \A n \in 1 .. N : n - 1 \in 0 .. N
        BY <2>1
      <4> HIDE DEF T, G
      <4> QED BY <2>11, <2>12, <4>1
    <3> HIDE DEF G
    <3> QED BY <2>10, <3>1, <3>2 DEF IsLevels
  <2>14. value[N][tree] = R[tree]
    <3> HIDE DEF G
    <3>1. Depth[tree] <= N
      BY <2>1 DEF N
    <3> QED BY <1>6, <2>1, <2>13, <3>1 DEF Settles
  <2> QED BY <2>9, <2>14
<1>8. R \in T /\ \A t \in Forest : R[t] = G[<< t, R >>]
  <2> HIDE DEF G
  <2> QED BY <1>6 DEF Settles
<1>9. ValueOf(env) = R
  <2>1. R = [t \in Forest |-> R[t]]
    BY <1>8
  <2> QED BY <1>7, <2>1 DEF ValueOf
<1>10. ASSUME NEW tree \in Forest
       PROVE  /\ Value(tree, env) = ValueOf(env)[tree]
              /\ Value(tree, env) = Meaning(tree, env, ValueOf(env))
  <2>1. G[<< tree, R >>] = Meaning(tree, env, R)
    <3> HIDE DEF G, T
    <3> QED BY <1>1, <1>8
  <2> HIDE DEF G
  <2> QED BY <1>7, <1>8, <1>9, <2>1
<1> HIDE DEF G
<1> QED BY <1>8, <1>9, <1>10

-----------------------------------------------------------------------------
(* The turns of the loop *)

(* A turn of the loop, if it has not ended. *)
Turn(e, code, env) == IF e.outcome = "running" THEN Step(e, code, env) ELSE e

(* The first n turns, and all of them. *)
AreTurns(states, n, code, env) ==
    /\ Executed(code, env, n) = states[n]
    /\ states[0] = Begin
    /\ \A i \in 1 .. n : states[i] = Turn(states[i - 1], code, env)

(* The first n turns of the loop are the values of its recursion. *)
LEMMA TurnsExist ==
    ASSUME NEW code \in Codes, NEW env, IsSeen(env), NEW n \in Nat
    PROVE  \E states : AreTurns(states, n, code, env)
<1> DEFINE T == Evaluations
           G == [q \in (1 .. n) \X T |-> Turn(q[2], code, env)]
           Unfold(f) == [i \in 0 .. n |->
               IF i = 0 THEN Begin
               ELSE LET e == f[i - 1]
                    IN  IF e.outcome = "running" THEN Step(e, code, env) ELSE e]
           states == CHOOSE f : f = Unfold(f)
<1>1. ASSUME NEW e \in T PROVE Turn(e, code, env) \in T
  BY StepType DEF Turn
<1>2. G \in StepFunctions(n, T) /\ Begin \in T
  <2>1. Begin \in T
    BY BeginType
  <2> HIDE DEF T
  <2> QED BY <1>1, <2>1 DEF StepFunctions
<1>3. PICK f : IsRecursion(f, n, T, Begin, G)
  <2> HIDE DEF G, T
  <2> QED BY <1>2, RecursionExists
<1>4. f = Unfold(f)
  <2> HIDE DEF T
  <2>1. f \in [0 .. n -> T] /\ f[0] = Begin
    BY <1>3 DEF IsRecursion
  <2>2. ASSUME NEW i \in 1 .. n PROVE f[i] = Turn(f[i - 1], code, env)
    <3>1. f[i - 1] \in T
      <4> HIDE DEF G
      <4>1. i - 1 \in 0 .. n
        OBVIOUS
      <4> QED BY <2>1, <4>1
    <3>2. f[i] = G[<< i, f[i - 1] >>]
      <4> HIDE DEF G
      <4> QED BY <1>3 DEF IsRecursion
    <3> QED BY <3>1, <3>2
  <2>3. ASSUME NEW i \in 0 .. n PROVE f[i] = IF i = 0 THEN Begin ELSE Turn(f[i - 1], code, env)
    <3>1. i = 0 \/ i \in 1 .. n
      OBVIOUS
    <3> QED BY <2>1, <2>2, <3>1
  <2>4. f = [i \in 0 .. n |-> f[i]]
    BY <2>1
  <2> QED BY <2>3, <2>4 DEF Turn
<1>5. states = Unfold(states)
  <2> HIDE DEF Unfold
  <2> QED BY <1>4
<1>6. \A i \in 0 .. n : states[i] = IF i = 0 THEN Begin ELSE Turn(states[i - 1], code, env)
  <2> HIDE DEF states
  <2> QED BY <1>5 DEF Turn
<1>7. Executed(code, env, n) = states[n]
  BY DEF Executed, states
<1> HIDE DEF states
<1> QED BY <1>6, <1>7 DEF AreTurns

IsRun(states, code, env) ==
    /\ states[0] = Begin
    /\ \A i \in Nat : /\ states[i] \in Evaluations
                      /\ states[i] = Executed(code, env, i)
                      /\ states[i + 1] = Turn(states[i], code, env)

(* The loop of execute() has a run, turn after turn, whatever the bytes are. *)
LEMMA RunExists ==
    ASSUME NEW code \in Codes, NEW env, IsSeen(env)
    PROVE  \E states : IsRun(states, code, env)
<1> DEFINE done(n) == Executed(code, env, n)
           states == [n \in Nat |-> done(n)]
<1>1. ASSUME NEW n \in Nat PROVE done(n + 1) = Turn(done(n), code, env)
  <2>1. PICK f : AreTurns(f, n, code, env)
    BY TurnsExist
  <2>2. PICK g : AreTurns(g, n + 1, code, env)
    <3>1. n + 1 \in Nat
      OBVIOUS
    <3> QED BY <3>1, TurnsExist
  <2> DEFINE S == {k \in Nat : k <= n => f[k] = g[k]}
  <2>3. 0 \in S
    BY <2>1, <2>2 DEF AreTurns
  <2>4. ASSUME NEW k \in Nat, k \in S PROVE k + 1 \in S
    <3>1. SUFFICES ASSUME k + 1 <= n PROVE f[k + 1] = g[k + 1]
      OBVIOUS
    <3>2. f[k] = g[k] /\ k + 1 \in 1 .. n /\ k + 1 \in 1 .. n + 1 /\ (k + 1) - 1 = k
      BY <2>4, <3>1
    <3> QED BY <2>1, <2>2, <3>2 DEF AreTurns
  <2>5. n \in S
    <3> HIDE DEF S
    <3> QED BY <2>3, <2>4, SetInduction
  <2>6. n + 1 \in 1 .. n + 1 /\ (n + 1) - 1 = n
    OBVIOUS
  <2>7. g[n + 1] = Turn(g[n], code, env)
    BY <2>2, <2>6 DEF AreTurns
  <2> QED BY <2>1, <2>2, <2>5, <2>7 DEF AreTurns
<1>2. done(0) = Begin
  <2>1. PICK f : AreTurns(f, 0, code, env)
    BY TurnsExist
  <2> QED BY <2>1 DEF AreTurns
<1> DEFINE S == {n \in Nat : done(n) \in Evaluations}
<1>3. 0 \in S
  BY <1>2, BeginType
<1>4. ASSUME NEW n \in Nat, n \in S PROVE n + 1 \in S
  BY <1>1, <1>4, StepType DEF Turn
<1>5. \A n \in Nat : done(n) \in Evaluations
  <2>1. Nat \subseteq S
    <3> HIDE DEF S
    <3> QED BY <1>3, <1>4, SetInduction
  <2> QED BY <2>1
<1>6. \A n \in Nat : states[n] = done(n) /\ n + 1 \in Nat
  OBVIOUS
<1>7. states[0] = Begin /\ \A n \in Nat : states[n] = Executed(code, env, n)
  BY <1>2, <1>6
<1>8. \A n \in Nat : states[n] \in Evaluations /\ states[n + 1] = Turn(states[n], code, env)
  <2> HIDE DEF done, states
  <2> QED BY <1>1, <1>5, <1>6
<1>9. IsRun(states, code, env)
  <2> HIDE DEF states
  <2> QED BY <1>7, <1>8 DEF IsRun
<1> QED BY <1>9

(* The loop goes on at a position, with a stack. *)
At(p, s) == [pc |-> p, stack |-> s, outcome |-> "running"]

(* One, two and three elements put on a stack. *)
LEMMA TopElements ==
    ASSUME NEW s \in Seq(Word), NEW x \in Word, NEW y \in Word, NEW z \in Word
    PROVE  LET a == s \o << x >>
               b == s \o << y, x >>
               c == s \o << z, y, x >>
               n == Len(s)
           IN  /\ n \in Nat
               /\ a \in Seq(Word) /\ Len(a) = n + 1 /\ a[n + 1] = x
               /\ b \in Seq(Word) /\ Len(b) = n + 2 /\ b[n + 2] = x /\ b[n + 1] = y
               /\ c \in Seq(Word) /\ Len(c) = n + 3 /\ c[n + 3] = x /\ c[n + 2] = y
                  /\ c[n + 1] = z
<1> DEFINE T == Word
<1>1. /\ s \in Seq(T) /\ << x >> \in Seq(T) /\ << y, x >> \in Seq(T) /\ << z, y, x >> \in Seq(T)
      /\ Len(s) \in Nat
  <2> HIDE DEF Word
  <2> QED BY LenProperties
<1> HIDE DEF T
<1>2. \A t \in Seq(T) : s \o t \in Seq(T) /\ Len(s \o t) = Len(s) + Len(t)
  BY <1>1, ConcatProperties
<1>3. \A t \in Seq(T) : \A i \in 1 .. Len(t) : (s \o t)[Len(s) + i] = t[i]
  <2> SUFFICES ASSUME NEW t \in Seq(T), NEW i \in 1 .. Len(t) PROVE (s \o t)[Len(s) + i] = t[i]
    OBVIOUS
  <2> DEFINE j == Len(s) + i
  <2>1. j \in 1 .. Len(s \o t) /\ j > Len(s) /\ j - Len(s) = i
    <3>1. Len(t) \in Nat /\ Len(s \o t) = Len(s) + Len(t)
      BY <1>2, LenProperties
    <3> QED BY <1>1, <3>1
  <2>2. (s \o t)[j] = t[j - Len(s)]
    <3> HIDE DEF j
    <3> QED BY <1>1, <2>1, ConcatProperties
  <2> QED BY <2>1, <2>2
<1>4. (s \o << x >>)[Len(s) + 1] = x
  BY <1>1, <1>3
<1>5. (s \o << y, x >>)[Len(s) + 1] = y /\ (s \o << y, x >>)[Len(s) + 2] = x
  BY <1>1, <1>3
<1>6. /\ (s \o << z, y, x >>)[Len(s) + 1] = z /\ (s \o << z, y, x >>)[Len(s) + 2] = y
      /\ (s \o << z, y, x >>)[Len(s) + 3] = x
  BY <1>1, <1>3
<1>7. Len(<< x >>) = 1 /\ Len(<< y, x >>) = 2 /\ Len(<< z, y, x >>) = 3
  OBVIOUS
<1> QED BY <1>1, <1>2, <1>4, <1>5, <1>6, <1>7 DEF T

Joins(u, v, w) ==
    /\ Len(w) = Len(u) + Len(v)
    /\ \A i \in 1 .. Len(w) : w[i] = IF i <= Len(u) THEN u[i] ELSE v[i - Len(u)]

(* A sequence that joins two others is their concatenation. *)
LEMMA JoinValue ==
    ASSUME NEW T, NEW u \in Seq(T), NEW v \in Seq(T), NEW w \in Seq(T), Joins(u, v, w)
    PROVE  u \o v = w
<1>1. Len(u) \in Nat /\ Len(v) \in Nat /\ u \o v \in Seq(T) /\ Len(u \o v) = Len(w)
  BY ConcatProperties, LenProperties DEF Joins
<1>2. ASSUME NEW i \in 1 .. Len(u \o v) PROVE (u \o v)[i] = w[i]
  <2>1. (u \o v)[i] = IF i <= Len(u) THEN u[i] ELSE v[i - Len(u)]
    BY ConcatProperties
  <2> QED BY <1>1, <2>1 DEF Joins
<1> QED BY <1>1, <1>2, SeqEqual

(* Three elements, after two of them and before two of them. *)
IsTriple(s, a, b, c) ==
    /\ (s \o << a, b >>) \o << c >> = s \o << a, b, c >>
    /\ (s \o << a >>) \o << b, c >> = s \o << a, b, c >>

(* Elements put on a stack one after another or together. *)
LEMMA StacksJoin ==
    ASSUME NEW s \in Seq(Word), NEW x \in Word, NEW y \in Word, NEW z \in Word
    PROVE  /\ (s \o << y >>) \o << x >> = s \o << y, x >>
           /\ (s \o << z >>) \o << y, x >> = s \o << z, y, x >>
           /\ (s \o << z, y >>) \o << x >> = s \o << z, y, x >>
           /\ s \o << >> = s
           /\ IsTriple(s, z, y, x)
<1> DEFINE T == Word
           a == << x >>
           b == << y >>
           c == << z >>
           ab == << y, x >>
           bc == << z, y >>
           abc == << z, y, x >>
<1>1. /\ a \in Seq(T) /\ b \in Seq(T) /\ c \in Seq(T)
      /\ ab \in Seq(T) /\ bc \in Seq(T) /\ abc \in Seq(T)
  <2> HIDE DEF Word
  <2> QED OBVIOUS
<1>2. /\ Len(a) = 1 /\ Len(b) = 1 /\ Len(c) = 1 /\ Len(ab) = 2 /\ Len(bc) = 2 /\ Len(abc) = 3
      /\ a[1] = x /\ b[1] = y /\ c[1] = z /\ ab[1] = y /\ ab[2] = x /\ bc[1] = z /\ bc[2] = y
      /\ abc[1] = z /\ abc[2] = y /\ abc[3] = x
  OBVIOUS
<1>0. s \in Seq(T)
  OBVIOUS
<1> HIDE DEF T, a, b, c, ab, bc, abc
<1>3. /\ \A i \in 1 .. 2 : i = 1 \/ i = 2
      /\ \A i \in 1 .. 3 : i = 1 \/ i = 2 \/ i = 3
  OBVIOUS
<1>4. Joins(b, a, ab)
  BY <1>2, <1>3 DEF Joins
<1>5. Joins(c, ab, abc)
  BY <1>2, <1>3 DEF Joins
<1>6. Joins(bc, a, abc)
  BY <1>2, <1>3 DEF Joins
<1>7. b \o a = ab /\ c \o ab = abc /\ bc \o a = abc
  <2>1. b \o a = ab
    BY <1>1, <1>4, JoinValue
  <2>2. c \o ab = abc
    BY <1>1, <1>5, JoinValue
  <2>3. bc \o a = abc
    BY <1>1, <1>6, JoinValue
  <2> QED BY <2>1, <2>2, <2>3
<1>8. s \o << >> = s
  BY ConcatEmptySeq
<1>9. (s \o b) \o a = s \o ab /\ (s \o c) \o ab = s \o abc /\ (s \o bc) \o a = s \o abc
  <2>0. \A u \in Seq(T) : \A v \in Seq(T) : (s \o u) \o v = s \o (u \o v)
    BY <1>0, ConcatAssociative
  <2>1. (s \o b) \o a = s \o (b \o a)
    BY <1>1, <2>0, Zenon
  <2>2. (s \o c) \o ab = s \o (c \o ab)
    BY <1>1, <2>0, Zenon
  <2>3. (s \o bc) \o a = s \o (bc \o a)
    BY <1>1, <2>0, Zenon
  <2> QED BY <1>7, <2>1, <2>2, <2>3
<1> QED BY <1>8, <1>9 DEF a, b, c, ab, bc, abc, IsTriple

(* Three elements are one and two of them, and two and one. *)
LEMMA TriplesJoin ==
    ASSUME NEW s \in Seq(Word), NEW z \in Word, NEW y \in Word, NEW x \in Word
    PROVE  IsTriple(s, z, y, x)
  BY StacksJoin

(* Two elements put on a stack one after the other. *)
LEMMA PairJoins ==
    ASSUME NEW s \in Seq(Word), NEW y \in Word, NEW x \in Word
    PROVE  (s \o << y >>) \o << x >> = s \o << y, x >> /\ s \o << y >> \in Seq(Word)
<1>1. (s \o << y >>) \o << x >> = s \o << y, x >>
  BY StacksJoin
<1>2. s \o << y >> \in Seq(Word)
  <2>1. << y >> \in Seq(Word)
    OBVIOUS
  <2> QED BY <2>1
<1> QED BY <1>1, <1>2

(* What is left of a stack once its top is taken. *)
LEMMA KeepsRest ==
    ASSUME NEW s \in Seq(Word), NEW top \in Seq(Word)
    PROVE  SubSeq(s \o top, 1, Len(s \o top) - Len(top)) = s
<1> HIDE DEF Word
<1>1. Len(s \o top) = Len(s) + Len(top) /\ Len(s) \in Nat /\ Len(top) \in Nat
  BY ConcatProperties, LenProperties
<1>2. Len(s \o top) - Len(top) = Len(s)
  BY <1>1
<1> QED BY <1>2

(* What an operation leaves of its operands, and what it pushes. *)
LEMMA ContinuesValue ==
    ASSUME NEW p \in Nat, NEW op, NEW s \in Seq(Word), NEW top \in Seq(Word),
           Len(top) = Pops(op), NEW target \in Nat, NEW values \in Seq(Word)
    PROVE  Continues(At(p, s \o top), op, target, values) = At(target, s \o values)
<1> DEFINE stack == s \o top
           kept == SubSeq(stack, 1, Len(stack) - Pops(op))
           new == s \o values
           e == At(p, stack)
           next == [e EXCEPT !.pc = target, !.stack = new]
<1>1. kept = s
  BY KeepsRest
<1>2. stack \in Seq(Word) /\ new \in Seq(Word)
  <2> HIDE DEF Word
  <2> QED BY ConcatProperties
<1> HIDE DEF stack, new
<1>3. e.stack = stack /\ e.outcome = "running" /\ e \in Evaluations
  <2>1. e \in Evaluations
    BY <1>2, EvaluationParts DEF At, Outcomes
  <2> QED BY <2>1 DEF At
<1> HIDE DEF e
<1>4. Continues(e, op, target, values) = next
  BY <1>1, <1>3 DEF Continues, new
<1>5. next \in Evaluations
  <2> DEFINE Stacks == Seq(Word)
  <2>1. new \in Stacks
    BY <1>2
  <2> HIDE DEF Stacks
  <2> QED BY <1>3, <2>1 DEF Evaluations, Stacks
<1>6. next.pc = target /\ next.stack = new /\ next.outcome = "running"
  <2> HIDE DEF Word
  <2> QED BY <1>3 DEF Evaluations
<1> HIDE DEF next
<1>7. next = At(target, new)
  BY <1>5, <1>6, EvaluationParts DEF At
<1> QED BY <1>4, <1>7 DEF e, new, stack

(* An operation is at a position of the code, with its operand. *)
HasOperation(code, p, op, n) ==
    /\ HasAt(code, p, Byte(op))
    /\ HasAt(code, p + 1, BigEndian(n, OperandBytes(op)))
    /\ Fits(n, OperandBytes(op))
    /\ OperandBytes(op) = 0 => n = 0

(* A turn of the loop where there is a whole operation and its operands. *)
LEMMA OneTurn ==
    ASSUME NEW code \in Codes, NEW p \in Nat, NEW s \in Seq(Word),
           NEW op \in Names \cup OtherNames, NEW n, NEW env,
           HasOperation(code, p, op, n), Len(s) >= Pops(op)
    PROVE  Step(At(p, s), code, env) = Performed(At(p, s), op, n, env)
<1> DEFINE bytes == OperandBytes(op)
           e == At(p, s)
<1>1. e.pc = p /\ e.stack = s /\ Len(code) \in Nat
  BY LenProperties DEF At, Codes
<1>2. bytes \in {0, 1, 2, 4}
  BY DEF OperandBytes
<1>3. p < Len(code) /\ code[p + 1] = Bytecode[op]
  <2>1. Len(Byte(op)) = 1 /\ Byte(op)[1] = Bytecode[op]
    BY DEF Byte
  <2> QED BY <1>1, <2>1 DEF HasOperation, HasAt
<1>4. Operation[code[p + 1]] = op
  BY <1>3, BytecodeNames
<1>5. p + bytes < Len(code)
  <2>1. n \in Nat /\ HasAt(code, p + 1, BigEndian(n, bytes))
    BY DEF HasOperation, Fits
  <2> HIDE DEF bytes
  <2>2. IsBigEndian(BigEndian(n, bytes), n, bytes)
    BY <1>2, <2>1, BigEndianType
  <2>3. Len(BigEndian(n, bytes)) = bytes
    BY <2>2 DEF IsBigEndian
  <2> QED BY <1>1, <1>2, <2>1, <2>3 DEF HasAt
<1>6. Operand(code, p + 1, bytes) = n
  <2>1. p + 1 \in Nat /\ Fits(n, bytes) /\ HasAt(code, p + 1, BigEndian(n, bytes))
        /\ (bytes = 0 => n = 0)
    BY DEF HasOperation
  <2> HIDE DEF bytes
  <2> QED BY <1>2, <2>1, OperandValue
<1>7. op \notin {"None", "Unsupported"}
  BY DEF Names, OtherNames
<1> DEFINE found == IF e.pc < Len(code) THEN Operation[code[e.pc + 1]] ELSE "None"
           deep == Len(e.stack) >= Pops(found)
           falls_through == found = "If_goto" /\ deep /\ e.stack[Len(e.stack)] = 0
           whole == e.pc + OperandBytes(found) < Len(code)
           operand == IF whole THEN Operand(code, e.pc + 1, OperandBytes(found)) ELSE 0
           taken == Step(e, code, env)
<1>8. taken = CASE found = "None"        -> Fail(e, "Bytecode_out_of_bound")
                [] found = "Unsupported" -> Fail(e, "Unsupported_bytecode")
                [] found = "If_goto" /\ ~ deep -> Fail(e, "Stack_out_of_bound")
                [] found = "If_goto" /\ deep /\ ~ whole /\ ~ falls_through ->
                       Fail(e, "Bytecode_out_of_bound")
                [] found \notin {"None", "Unsupported", "If_goto"} /\ ~ whole ->
                       Fail(e, "Bytecode_out_of_bound")
                [] found \notin {"None", "Unsupported", "If_goto"} /\ whole /\ ~ deep ->
                       Fail(e, "Stack_out_of_bound")
                [] OTHER -> Performed(e, found, operand, env)
  BY DEF Step
<1> HIDE DEF e
<1>9. found = op
  BY <1>1, <1>3, <1>4
<1>10. deep /\ whole
  BY <1>1, <1>5, <1>9
<1>11. operand = n
  BY <1>1, <1>6, <1>9, <1>10
<1> HIDE DEF found, deep, whole, operand, taken, falls_through
<1>12. taken = Performed(e, found, operand, env)
  BY <1>7, <1>8, <1>9, <1>10
<1> QED BY <1>9, <1>11, <1>12 DEF taken, e

-----------------------------------------------------------------------------
(* What a turn does *)

(* What a turn ends the loop with, when it fails. *)
IsFailure(e) == e.outcome \notin {"running", "value", "killed"}

(* A turn takes a loop from a position and a stack to others. *)
Goes(code, env, p, s, q, t) == Step(At(p, s), code, env) = At(q, t)

(* The same, or it fails when there is no value. *)
GoesOrFails(code, env, p, s, q, t, value) ==
    /\ value = Missing => IsFailure(Step(At(p, s), code, env))
    /\ value # Missing => Goes(code, env, p, s, q, t \o << value >>)

(* An error is a failure. *)
LEMMA FailFails ==
    ASSUME NEW p, NEW s, NEW error \in Outcomes \ {"running", "value", "killed"}
    PROVE  IsFailure(Fail(At(p, s), error))
  BY DEF IsFailure, Fail, At

(* An operation that does not mind the order of its operands, or cannot tell. *)
InAnyOrder(op, x, y) == op \in Commuting \/ x = y

(* What commutes is computed the same of two words either way. *)
LEMMA ComputedCommutes ==
    ASSUME NEW op \in Names, NEW x \in Word, NEW y \in Word, InAnyOrder(op, x, y)
    PROVE  Computed(op, x, y) = Computed(op, y, x)
<1>1. CASE x = y
  BY <1>1
<1>2. CASE op = "Equal"
  BY <1>2 DEF Computed, BoolWord
<1>3. x \in Int /\ y \in Int
  BY WordSize DEF Word
<1>4. CASE op = "Add"
  <2>1. Computed(op, x, y) = Plus(x, y) /\ Computed(op, y, x) = Plus(y, x)
    BY <1>4 DEF Computed, AluOpcode, Calculated
  <2> QED BY <1>3, <2>1 DEF Plus
<1>5. CASE op = "Mul"
  <2>1. /\ Computed(op, x, y) = Truncated(x * y)
        /\ Computed(op, y, x) = Truncated(y * x)
    BY <1>5 DEF Computed, AluOpcode, Calculated
  <2>2. x * y = y * x
    BY <1>3
  <2> QED BY <2>1, <2>2
<1>6. CASE op \in {"Bit_and", "Bit_or", "Bit_xor"}
  <2>1. /\ BitsOf[x] \cap BitsOf[y] = BitsOf[y] \cap BitsOf[x]
        /\ BitsOf[x] \cup BitsOf[y] = BitsOf[y] \cup BitsOf[x]
    OBVIOUS
  <2>2. CASE op = "Bit_and"
    BY <2>1, <2>2 DEF Computed, AluOpcode, Calculated
  <2>3. CASE op = "Bit_or"
    BY <2>1, <2>3 DEF Computed, AluOpcode, Calculated
  <2>4. CASE op = "Bit_xor"
    BY <2>1, <2>4 DEF Computed, AluOpcode, Calculated
  <2> QED BY <1>6, <2>2, <2>3, <2>4
<1> QED BY <1>1, <1>2, <1>4, <1>5, <1>6 DEF InAnyOrder, Commuting

(* The processor traps no operation that does not mind the order, but a division by 0. *)
LEMMA NeverKilled ==
    ASSUME NEW op, NEW x \in Word, NEW y \in Word, InAnyOrder(op, x, y), y # 0
    PROVE  ~ Killed(op, y, x)
<1> DEFINE W == 2^XLEN
           H == 2^(XLEN - 1)
<1>1. H \in Nat /\ W = 2 * H /\ W >= 256
  BY WordSize
<1>2. op \in Divisions => x = y
  BY DEF InAnyOrder, Commuting, Divisions
<1>3. ~ DivisionOverflow(x, x)
  <2>1. SUFFICES ASSUME x = W - 1 PROVE Signed(x) # -H
    BY DEF DivisionOverflow, AllOnes
  <2>2. Signed(x) = IF x >= H THEN x - W ELSE x
    BY DEF Signed
  <2> HIDE DEF W, H
  <2> QED BY <1>1, <2>1, <2>2
<1> QED BY <1>2, <1>3 DEF Killed

(* A turn that applies an operation to two operands. *)
LEMMA BinaryStep ==
    ASSUME NEW code \in Codes, NEW env, NEW p \in Nat, NEW s \in Seq(Word),
           NEW op \in Names, NEW x \in Word, NEW y \in Word, HasOperation(code, p, op, 0),
           InAnyOrder(op, x, y)
    PROVE  GoesOrFails(code, env, p, s \o << x, y >>, p + 1, s, Applied(op, x, y))
<1> DEFINE t == s \o << x, y >>
           e == At(p, t)
           next == Step(e, code, env)
           value == Applied(op, x, y)
<1>1. /\ t \in Seq(Word) /\ Len(t) = Len(s) + 2 /\ Len(s) \in Nat
      /\ t[Len(t)] = y /\ t[Len(t) - 1] = x
  <2>1. t \in Seq(Word) /\ Len(t) = Len(s) + 2 /\ t[Len(s) + 2] = y /\ t[Len(s) + 1] = x
        /\ Len(s) \in Nat
    BY TopElements
  <2>2. Len(t) - 1 = Len(s) + 1
    BY <2>1
  <2> QED BY <2>1, <2>2
<1>2. Pops(op) = 2 /\ OperandBytes(op) = 0
  BY PopsValue, OperandSizes
<1>3. next = Performed(e, op, 0, env)
  <2> HIDE DEF t
  <2> QED BY <1>1, <1>2, OneTurn
<1>4. e.pc = p /\ e.stack[Len(e.stack) - 0] = y /\ e.stack[Len(e.stack) - 1] = x
  <2>1. e.pc = p /\ e.stack = t /\ Len(t) - 0 = Len(t)
    BY <1>1 DEF At
  <2> QED BY <1>1, <2>1
<1>5. << x, y >> \in Seq(Word) /\ Len(<< x, y >>) = 2
  <2> HIDE DEF Word
  <2> QED OBVIOUS
<1>6. ASSUME NEW v \in Word
      PROVE  Continues(e, op, p + 1 + OperandBytes(op), << v >>) = At(p + 1, s \o << v >>)
  <2> DEFINE q == p + 1 + OperandBytes(op)
             top == << x, y >>
             values == << v >>
  <2>1. values \in Seq(Word) /\ top \in Seq(Word) /\ Len(top) = Pops(op)
    <3>1. values \in Seq(Word)
      <4> HIDE DEF Word
      <4> QED OBVIOUS
    <3> QED BY <1>2, <1>5, <3>1
  <2>2. q = p + 1 /\ q \in Nat
    BY <1>2
  <2> HIDE DEF q, top, values
  <2>3. Continues(At(p, s \o top), op, q, values) = At(q, s \o values)
    BY <2>1, <2>2, ContinuesValue
  <2> QED BY <2>2, <2>3 DEF q, top, values
<1> HIDE DEF e
<1> DEFINE done == Performed(e, op, 0, env)
           a(i) == e.stack[Len(e.stack) - i]
<1>7. CASE op \in Divisions /\ a(0) = 0
  <2>1. done = Fail(e, "Division_by_zero")
    BY <1>7 DEF Performed, Divisions
  <2>2. value = Missing
    BY <1>4, <1>7 DEF Applied
  <2> QED BY <1>3, <2>1, <2>2, FailFails DEF GoesOrFails, Outcomes, e
<1>8. CASE op \in Divisions /\ a(0) # 0 /\ Killed(op, a(0), a(1))
  BY <1>4, <1>8, NeverKilled
<1>9. CASE ~ (op \in Divisions /\ (a(0) = 0 \/ Killed(op, a(0), a(1))))
  <2> DEFINE v == Computed(op, x, y)
  <2>1. done = Continues(e, op, e.pc + 1 + OperandBytes(op), << Computed(op, a(0), a(1)) >>)
    BY <1>9 DEF Performed, Names
  <2>2. v \in Word
    BY ComputedType
  <2>3. value = v /\ v # Missing
    <3>1. x # Missing /\ y # Missing
      BY MissingIsNoWord
    <3>2. ~ (op \in Divisions /\ y = 0)
      BY <1>4, <1>9
    <3> QED BY <2>2, <3>1, <3>2, MissingIsNoWord DEF Applied
  <2>4. Computed(op, a(0), a(1)) = v
    BY <1>4, ComputedCommutes
  <2> HIDE DEF v, done, a
  <2>5. next = At(p + 1, s \o << v >>)
    BY <1>3, <1>4, <1>6, <2>1, <2>2, <2>4 DEF done
  <2> QED BY <2>3, <2>5 DEF GoesOrFails, Goes, e
<1> QED BY <1>7, <1>8, <1>9

(* A turn that applies an operation to one operand. *)
LEMMA UnaryStep ==
    ASSUME NEW code \in Codes, NEW env, IsSeen(env), NEW p \in Nat, NEW s \in Seq(Word),
           NEW op \in UnaryNames, NEW x \in Word, HasOperation(code, p, op, 0)
    PROVE  GoesOrFails(code, env, p, s \o << x >>, p + 1, s, AppliedTo(op, x, env))
<1> DEFINE t == s \o << x >>
           e == At(p, t)
           next == Step(e, code, env)
           value == AppliedTo(op, x, env)
<1>1. t \in Seq(Word) /\ Len(t) = Len(s) + 1 /\ Len(s) \in Nat /\ t[Len(t)] = x
  BY TopElements
<1>2. Pops(op) = 1 /\ OperandBytes(op) = 0 /\ op \in OtherNames
  BY PopsValue, OperandSizes DEF UnaryNames, OtherNames
<1>3. next = Performed(e, op, 0, env)
  <2> HIDE DEF t
  <2> QED BY <1>1, <1>2, OneTurn
<1>4. e.pc = p /\ e.stack[Len(e.stack) - 0] = x
  <2>1. e.pc = p /\ e.stack = t /\ Len(t) - 0 = Len(t)
    BY <1>1 DEF At
  <2> QED BY <1>1, <2>1
<1>5. << x >> \in Seq(Word) /\ Len(<< x >>) = 1
  <2> HIDE DEF Word
  <2> QED OBVIOUS
<1>6. ASSUME NEW v \in Word
      PROVE  Continues(e, op, p + 1 + OperandBytes(op), << v >>) = At(p + 1, s \o << v >>)
  <2> DEFINE q == p + 1 + OperandBytes(op)
             top == << x >>
             values == << v >>
  <2>1. values \in Seq(Word) /\ top \in Seq(Word) /\ Len(top) = Pops(op)
    <3>1. values \in Seq(Word)
      <4> HIDE DEF Word
      <4> QED OBVIOUS
    <3> QED BY <1>2, <1>5, <3>1
  <2>2. q = p + 1 /\ q \in Nat
    BY <1>2
  <2> HIDE DEF q, top, values
  <2>3. Continues(At(p, s \o top), op, q, values) = At(q, s \o values)
    BY <2>1, <2>2, ContinuesValue
  <2> QED BY <2>2, <2>3 DEF q, top, values
<1>7. x # Missing /\ value \in Word \cup {Missing}
  BY MissingIsNoWord, AppliedToType DEF Answers
<1> HIDE DEF e
<1>8. CASE op \in {"Ref8", "Ref16", "Ref32"}
  <2>1. next = IF value = Missing THEN Fail(e, "Memory_access_error")
               ELSE Continues(e, op, e.pc + 1 + OperandBytes(op), << value >>)
    <3>1. CASE op = "Ref8"
      BY <1>3, <1>4, <1>7, <3>1 DEF Performed, AppliedTo, Divisions
    <3>2. CASE op = "Ref16"
      BY <1>3, <1>4, <1>7, <3>2 DEF Performed, AppliedTo, Divisions
    <3>3. CASE op = "Ref32"
      BY <1>3, <1>4, <1>7, <3>3 DEF Performed, AppliedTo, Divisions
    <3> QED BY <1>8, <3>1, <3>2, <3>3
  <2> HIDE DEF value
  <2>2. CASE value = Missing
    BY <2>1, <2>2, FailFails DEF GoesOrFails, Outcomes, e, value
  <2>3. CASE value # Missing
    <3>1. next = At(p + 1, s \o << value >>)
      BY <1>4, <1>6, <1>7, <2>1, <2>3
    <3> QED BY <2>3, <3>1 DEF GoesOrFails, Goes, e, value
  <2> QED BY <2>2, <2>3
<1>9. CASE op \in {"Log_not", "Bit_not"}
  <2>1. next = Continues(e, op, e.pc + 1 + OperandBytes(op), << value >>) /\ value \in Word
    <3>1. CASE op = "Log_not"
      <4>1. value = BoolWord(x = 0) /\ value \in Word
        BY <1>7, <3>1, WordSize DEF AppliedTo, BoolWord, Word
      <4> HIDE DEF value
      <4> QED BY <1>3, <1>4, <3>1, <4>1 DEF Performed, Divisions
    <3>2. CASE op = "Bit_not"
      <4>1. value = AllOnes - x /\ value \in Word
        BY <1>7, <3>2, ComplementValue DEF AppliedTo
      <4> HIDE DEF value
      <4> QED BY <1>3, <1>4, <3>2, <4>1 DEF Performed, Divisions
    <3> QED BY <1>9, <3>1, <3>2
  <2> HIDE DEF value
  <2>2. next = At(p + 1, s \o << value >>) /\ value # Missing
    BY <1>4, <1>6, <2>1, MissingIsNoWord
  <2> QED BY <2>2 DEF GoesOrFails, Goes, e, value
<1> QED BY <1>8, <1>9 DEF UnaryNames

(* The i-th element of a state's stack, from its top. *)
FromTop(e, i) == e.stack[Len(e.stack) - i]

(* Short sequences of words. *)
LEMMA TopTypes ==
    ASSUME NEW x \in Word, NEW y \in Word, NEW z \in Word
    PROVE  /\ << >> \in Seq(Word) /\ Len(<< >>) = 0
           /\ << x >> \in Seq(Word) /\ Len(<< x >>) = 1
           /\ << y, x >> \in Seq(Word) /\ Len(<< y, x >>) = 2
           /\ << z, y, x >> \in Seq(Word) /\ Len(<< z, y, x >>) = 3
<1> HIDE DEF Word
<1> QED OBVIOUS

(* The top of a stack. *)
LEMMA Top1 ==
    ASSUME NEW p \in Nat, NEW s \in Seq(Word), NEW x \in Word
    PROVE  FromTop(At(p, s \o << x >>), 0) = x
<1> DEFINE t == s \o << x >>
           n == Len(s)
<1>1. n \in Nat /\ Len(t) = n + 1 /\ t[n + 1] = x
  BY TopElements
<1>2. At(p, t).stack = t
  BY DEF At
<1> HIDE DEF t, n
<1>3. Len(t) - 0 = n + 1
  BY <1>1
<1>4. FromTop(At(p, t), 0) = x
  BY <1>1, <1>2, <1>3 DEF FromTop
<1> QED BY <1>4 DEF t

(* The top two elements of a stack. *)
LEMMA Top2 ==
    ASSUME NEW p \in Nat, NEW s \in Seq(Word), NEW x \in Word, NEW y \in Word
    PROVE  /\ FromTop(At(p, s \o << y, x >>), 0) = x
           /\ FromTop(At(p, s \o << y, x >>), 1) = y
<1> DEFINE t == s \o << y, x >>
           n == Len(s)
<1>1. n \in Nat /\ Len(t) = n + 2 /\ t[n + 1] = y /\ t[n + 2] = x
  BY TopElements
<1>2. At(p, t).stack = t
  BY DEF At
<1> HIDE DEF t, n
<1>3. Len(t) - 0 = n + 2 /\ Len(t) - 1 = n + 1
  BY <1>1
<1>4. FromTop(At(p, t), 0) = x /\ FromTop(At(p, t), 1) = y
  BY <1>1, <1>2, <1>3 DEF FromTop
<1> QED BY <1>4 DEF t

(* The top three elements of a stack. *)
LEMMA Top3 ==
    ASSUME NEW p \in Nat, NEW s \in Seq(Word), NEW x \in Word, NEW y \in Word, NEW z \in Word
    PROVE  /\ FromTop(At(p, s \o << z, y, x >>), 0) = x
           /\ FromTop(At(p, s \o << z, y, x >>), 1) = y
           /\ FromTop(At(p, s \o << z, y, x >>), 2) = z
<1> DEFINE t == s \o << z, y, x >>
           n == Len(s)
<1>1. n \in Nat /\ Len(t) = n + 3 /\ t[n + 1] = z /\ t[n + 2] = y /\ t[n + 3] = x
  BY TopElements
<1>2. At(p, t).stack = t
  BY DEF At
<1> HIDE DEF t, n
<1>3. Len(t) - 0 = n + 3 /\ Len(t) - 1 = n + 2 /\ Len(t) - 2 = n + 1
  BY <1>1
<1>4. FromTop(At(p, t), 0) = x /\ FromTop(At(p, t), 1) = y /\ FromTop(At(p, t), 2) = z
  BY <1>1, <1>2, <1>3 DEF FromTop
<1> QED BY <1>4 DEF t

(* The position after an operation and its operand. *)
LEMMA NextPosition ==
    ASSUME NEW p \in Nat, NEW op
    PROVE  p + 1 + OperandBytes(op) \in Nat
<1>1. OperandBytes(op) \in 0 .. 4
  BY OperandCounts
<1> QED BY <1>1

(* An operation that pops its operands and goes on at a position. *)
LEMMA GoesThere ==
    ASSUME NEW code \in Codes, NEW env, NEW p \in Nat, NEW s \in Seq(Word),
           NEW op \in Names \cup OtherNames, NEW n, HasOperation(code, p, op, n),
           NEW top \in Seq(Word), Len(top) = Pops(op), NEW target \in Nat,
           NEW values \in Seq(Word),
           Performed(At(p, s \o top), op, n, env) =
               Continues(At(p, s \o top), op, target, values)
    PROVE  Goes(code, env, p, s \o top, target, s \o values)
<1> DEFINE t == s \o top
<1>1. t \in Seq(Word) /\ Len(t) >= Pops(op)
  <2>1. Len(t) = Len(s) + Len(top) /\ Len(s) \in Nat /\ Len(top) \in Nat
    BY ConcatProperties, LenProperties
  <2>2. t \in Seq(Word)
    BY ConcatProperties
  <2> QED BY <2>1, <2>2
<1>2. Step(At(p, t), code, env) = Performed(At(p, t), op, n, env)
  <2> HIDE DEF t
  <2> QED BY <1>1, OneTurn
<1>3. Continues(At(p, t), op, target, values) = At(target, s \o values)
  BY ContinuesValue
<1> QED BY <1>2, <1>3 DEF Goes

(* A turn that extends a value. *)
LEMMA ExtendStep ==
    ASSUME NEW code \in Codes, NEW env, NEW p \in Nat, NEW s \in Seq(Word),
           NEW op \in {"Ext", "Zero_ext"}, NEW n \in Nat, 0 < n, n < XLEN, NEW x \in Word,
           HasOperation(code, p, op, n)
    PROVE  GoesOrFails(code, env, p, s \o << x >>, p + 2, s, Extended(op, n, x))
<1> DEFINE e == At(p, s \o << x >>)
           v == Extended(op, n, x)
           q == p + 1 + OperandBytes(op)
<1>1. Pops(op) = 1 /\ OperandBytes(op) = 1 /\ op \in OtherNames
  BY PopsValue, OperandSizes DEF OtherNames
<1>2. q = p + 2 /\ q \in Nat
  BY <1>1
<1>3. FromTop(e, 0) = x /\ e.pc = p
  <2>1. FromTop(e, 0) = x
    BY Top1
  <2> QED BY <2>1 DEF At
<1>4. v = (IF op = "Ext" THEN SignExtended(x, n) ELSE ZeroExtended(x, n))
      /\ v \in Word /\ v # Missing
  <2>1. x # Missing /\ x \in Answers
    BY MissingIsNoWord DEF Answers
  <2>2. v = (IF op = "Ext" THEN SignExtended(x, n) ELSE ZeroExtended(x, n))
    BY <2>1, ExtendedValue
  <2>3. v \in Word
    BY <2>2, ExtendedType
  <2> QED BY <2>2, <2>3, MissingIsNoWord
<1> HIDE DEF e
<1>5. Performed(e, op, n, env) = Continues(e, op, e.pc + 1 + OperandBytes(op), << v >>)
  <2> HIDE DEF v
  <2>1. CASE op = "Ext"
    <3>1. Performed(e, op, n, env) =
              Continues(e, op, e.pc + 1 + OperandBytes(op),
                        << SignExtended(FromTop(e, 0), n) >>)
      BY <2>1 DEF Performed, Divisions, FromTop
    <3> QED BY <1>3, <1>4, <2>1, <3>1
  <2>2. CASE op = "Zero_ext"
    <3>1. Performed(e, op, n, env) =
              Continues(e, op, e.pc + 1 + OperandBytes(op),
                        << ZeroExtended(FromTop(e, 0), n) >>)
      BY <2>2 DEF Performed, Divisions, FromTop
    <3> QED BY <1>3, <1>4, <2>2, <3>1
  <2> QED BY <2>1, <2>2
<1> DEFINE top == << x >>
           values == << v >>
<1>6. top \in Seq(Word) /\ Len(top) = Pops(op) /\ values \in Seq(Word)
  <2> HIDE DEF v
  <2> QED BY <1>1, <1>4, TopTypes
<1>7. Performed(At(p, s \o top), op, n, env) = Continues(At(p, s \o top), op, q, values)
  BY <1>3, <1>5 DEF e
<1> HIDE DEF top, values, q
<1>8. Goes(code, env, p, s \o top, q, s \o values)
  BY <1>1, <1>2, <1>6, <1>7, GoesThere
<1> QED BY <1>2, <1>4, <1>8 DEF GoesOrFails, top, values

(* A turn that pushes a constant. *)
LEMMA ConstStep ==
    ASSUME NEW code \in Codes, NEW env, NEW p \in Nat, NEW s \in Seq(Word),
           NEW op \in {"Const8", "Const16", "Const32"}, NEW n \in Nat,
           HasOperation(code, p, op, n)
    PROVE  GoesOrFails(code, env, p, s, p + 1 + OperandBytes(op), s, Truncated(n))
<1> DEFINE e == At(p, s \o << >>)
           v == Truncated(n)
           q == p + 1 + OperandBytes(op)
<1>1. Pops(op) = 0 /\ op \in OtherNames
  BY OperationNames DEF OtherNames, Pops, Names
<1>2. q \in Nat
  BY NextPosition
<1>3. e.pc = p
  BY DEF At
<1>4. v \in Word /\ v # Missing
  <2>1. v \in Word
    BY TruncatedValue
  <2> QED BY <2>1, MissingIsNoWord
<1> HIDE DEF e
<1>5. Performed(e, op, n, env) = Continues(e, op, e.pc + 1 + OperandBytes(op), << v >>)
  BY DEF Performed, Divisions
<1> DEFINE values == << v >>
           top == << >>
<1>6. top \in Seq(Word) /\ Len(top) = Pops(op) /\ values \in Seq(Word)
  <2> HIDE DEF v
  <2> QED BY <1>1, <1>4, TopTypes
<1>7. Performed(At(p, s \o top), op, n, env) = Continues(At(p, s \o top), op, q, values)
  BY <1>3, <1>5 DEF e
<1> HIDE DEF top, values, q
<1>8. Goes(code, env, p, s \o top, q, s \o values)
  BY <1>1, <1>2, <1>6, <1>7, GoesThere
<1>9. s \o top = s
  BY ConcatEmptySeq DEF top
<1> QED BY <1>4, <1>8, <1>9 DEF GoesOrFails, values, q

(* A turn that reads a register. *)
LEMMA RegStep ==
    ASSUME NEW code \in Codes, NEW env, IsSeen(env), NEW p \in Nat, NEW s \in Seq(Word),
           NEW n \in Nat, HasOperation(code, p, "Reg", n)
    PROVE  GoesOrFails(code, env, p, s, p + 3, s, RegisterValue(env, n))
<1> DEFINE op == "Reg"
           e == At(p, s \o << >>)
           v == RegisterValue(env, n)
           q == p + 1 + OperandBytes(op)
<1>1. Pops(op) = 0 /\ op \in OtherNames /\ OperandBytes(op) = 2
  BY OperationNames, OperandSizes DEF OtherNames, Pops, Names
<1>2. q \in Nat /\ q = p + 3
  BY <1>1
<1>3. e.pc = p /\ s \o << >> = s
  BY ConcatEmptySeq DEF At
<1>4. v \in Word \cup {Missing}
  BY DEF RegisterValue, IsSeen
<1> HIDE DEF e
<1>5. Performed(e, op, n, env) =
          IF v = Missing THEN Fail(e, "Register_access_error")
          ELSE Continues(e, op, e.pc + 1 + OperandBytes(op), << v >>)
  <2> HIDE DEF v
  <2> QED BY DEF Performed, Divisions, v
<1>6. CASE v = Missing
  <2>1. Len(s) >= Pops(op)
    BY <1>1, LenProperties
  <2>2. Step(At(p, s), code, env) = Performed(At(p, s), op, n, env)
    BY <1>1, <2>1, OneTurn
  <2>3. Step(At(p, s), code, env) = Fail(At(p, s), "Register_access_error")
    <3> HIDE DEF v
    <3> QED BY <1>3, <1>5, <1>6, <2>2 DEF e
  <2> QED BY <1>6, <2>3, FailFails DEF GoesOrFails, Outcomes
<1>7. CASE v # Missing
  <2> DEFINE values == << v >>
             top == << >>
  <2>1. top \in Seq(Word) /\ Len(top) = Pops(op) /\ values \in Seq(Word)
    <3> HIDE DEF v
    <3> QED BY <1>1, <1>4, <1>7, TopTypes
  <2>2. Performed(At(p, s \o top), op, n, env) = Continues(At(p, s \o top), op, q, values)
    <3> HIDE DEF v
    <3> QED BY <1>3, <1>5, <1>7 DEF e
  <2> HIDE DEF top, values, q, op
  <2>3. Goes(code, env, p, s \o top, q, s \o values)
    BY <1>1, <1>2, <2>1, <2>2, GoesThere DEF op
  <2> QED BY <1>2, <1>3, <1>7, <2>3 DEF GoesOrFails, values, top
<1> QED BY <1>6, <1>7

(* Turns that only move elements of the stack. *)
LEMMA StackSteps ==
    ASSUME NEW code \in Codes, NEW env, NEW p \in Nat, NEW s \in Seq(Word),
           NEW x \in Word, NEW y \in Word, NEW z \in Word
    PROVE  /\ HasOperation(code, p, "Dup", 0) =>
                  Goes(code, env, p, s \o << x >>, p + 1, s \o << x, x >>)
           /\ HasOperation(code, p, "Swap", 0) =>
                  Goes(code, env, p, s \o << y, x >>, p + 1, s \o << x, y >>)
           /\ HasOperation(code, p, "Pop", 0) =>
                  Goes(code, env, p, s \o << x >>, p + 1, s)
           /\ HasOperation(code, p, "Rot", 0) =>
                  Goes(code, env, p, s \o << z, y, x >>, p + 1, s \o << x, z, y >>)
<1> DEFINE turns(op, top, values) ==
               HasOperation(code, p, op, 0) => Goes(code, env, p, s \o top, p + 1, s \o values)
           next(op) == p + 1 + OperandBytes(op)
<1>1. ASSUME NEW op \in {"Dup", "Swap", "Pop", "Rot"},
             NEW top \in Seq(Word), Len(top) = Pops(op), NEW values \in Seq(Word),
             Performed(At(p, s \o top), op, 0, env) =
                 Continues(At(p, s \o top), op, next(op), values)
      PROVE  turns(op, top, values)
  <2>1. next(op) = p + 1 /\ p + 1 \in Nat /\ op \in OtherNames
    BY OperandSizes DEF OtherNames
  <2> QED BY <1>1, <2>1, GoesThere
<1> HIDE DEF turns
<1>2. turns("Dup", << x >>, << x, x >>)
  <2> DEFINE op == "Dup"
             top == << x >>
             e == At(p, s \o top)
  <2>1. FromTop(e, 0) = x /\ e.pc = p
    <3>1. FromTop(e, 0) = x
      BY Top1
    <3> QED BY <3>1 DEF At
  <2>2. Pops(op) = 1 /\ << x, x >> \in Seq(Word) /\ top \in Seq(Word) /\ Len(top) = 1
    BY PopsValue, TopTypes
  <2> HIDE DEF e
  <2>3. Performed(e, op, 0, env) =
            Continues(e, op, e.pc + 1 + OperandBytes(op), << FromTop(e, 0), FromTop(e, 0) >>)
    BY DEF Performed, Divisions, FromTop
  <2>4. Performed(e, op, 0, env) = Continues(e, op, next(op), << x, x >>)
    BY <2>1, <2>3
  <2> QED BY <1>1, <2>2, <2>4 DEF e
<1>3. turns("Swap", << y, x >>, << x, y >>)
  <2> DEFINE op == "Swap"
             top == << y, x >>
             e == At(p, s \o top)
  <2>1. FromTop(e, 0) = x /\ FromTop(e, 1) = y /\ e.pc = p
    <3>1. FromTop(e, 0) = x /\ FromTop(e, 1) = y
      BY Top2
    <3> QED BY <3>1 DEF At
  <2>2. Pops(op) = 2 /\ << x, y >> \in Seq(Word) /\ top \in Seq(Word) /\ Len(top) = 2
    BY PopsValue, TopTypes
  <2> HIDE DEF e
  <2>3. Performed(e, op, 0, env) =
            Continues(e, op, e.pc + 1 + OperandBytes(op), << FromTop(e, 0), FromTop(e, 1) >>)
    BY DEF Performed, Divisions, FromTop
  <2>4. Performed(e, op, 0, env) = Continues(e, op, next(op), << x, y >>)
    BY <2>1, <2>3
  <2> QED BY <1>1, <2>2, <2>4 DEF e
<1>4. turns("Pop", << x >>, << >>)
  <2> DEFINE op == "Pop"
             top == << x >>
             e == At(p, s \o top)
  <2>1. e.pc = p
    BY DEF At
  <2>2. Pops(op) = 1 /\ << >> \in Seq(Word) /\ top \in Seq(Word) /\ Len(top) = 1
    BY PopsValue, TopTypes
  <2> HIDE DEF e
  <2>3. Performed(e, op, 0, env) = Continues(e, op, e.pc + 1 + OperandBytes(op), << >>)
    BY DEF Performed, Divisions
  <2>4. Performed(e, op, 0, env) = Continues(e, op, next(op), << >>)
    BY <2>1, <2>3
  <2> QED BY <1>1, <2>2, <2>4 DEF e
<1>5. turns("Rot", << z, y, x >>, << x, z, y >>)
  <2> DEFINE op == "Rot"
             top == << z, y, x >>
             e == At(p, s \o top)
  <2>1. FromTop(e, 0) = x /\ FromTop(e, 1) = y /\ FromTop(e, 2) = z /\ e.pc = p
    <3>1. FromTop(e, 0) = x /\ FromTop(e, 1) = y /\ FromTop(e, 2) = z
      BY Top3
    <3> QED BY <3>1 DEF At
  <2>2. Pops(op) = 3 /\ << x, z, y >> \in Seq(Word) /\ top \in Seq(Word) /\ Len(top) = 3
    BY PopsValue, TopTypes
  <2> HIDE DEF e
  <2>3. Performed(e, op, 0, env) =
            Continues(e, op, e.pc + 1 + OperandBytes(op),
                      << FromTop(e, 0), FromTop(e, 2), FromTop(e, 1) >>)
    BY DEF Performed, Divisions, FromTop
  <2>4. Performed(e, op, 0, env) = Continues(e, op, next(op), << x, z, y >>)
    BY <2>1, <2>3
  <2> QED BY <1>1, <2>2, <2>4 DEF e
<1>6. s \o << >> = s
  BY ConcatEmptySeq
<1> QED BY <1>2, <1>3, <1>4, <1>5, <1>6 DEF turns

(* A turn that copies the second element of the stack. *)
LEMMA PickStep ==
    ASSUME NEW code \in Codes, NEW env, NEW p \in Nat, NEW s \in Seq(Word),
           NEW x \in Word, NEW y \in Word, HasOperation(code, p, "Pick", 1)
    PROVE  Goes(code, env, p, s \o << y, x >>, p + 2, s \o << y, x, y >>)
<1> DEFINE op == "Pick"
           t == s \o << y, x >>
           e == At(p, t \o << >>)
           q == p + 1 + OperandBytes(op)
           values == << y >>
           top == << >>
<1> DEFINE two == << y, x >>
<1>0. /\ two \in Seq(Word) /\ Len(two) = 2 /\ two[1] = y
      /\ top \in Seq(Word) /\ Len(top) = 0 /\ values \in Seq(Word)
  BY TopTypes
<1>1. t \in Seq(Word) /\ Len(t) = Len(s) + 2 /\ Len(s) \in Nat /\ t \o top = t
      /\ t \o values = s \o << y, x, y >>
  <2>1. t \o values = s \o << y, x, y >>
    <3>1. IsTriple(s, y, x, y)
      BY TriplesJoin
    <3> QED BY <3>1 DEF IsTriple
  <2> HIDE DEF two, values
  <2>2. t \in Seq(Word) /\ Len(t) = Len(s) + 2 /\ Len(s) \in Nat
    <3>1. s \o two \in Seq(Word) /\ Len(s \o two) = Len(s) + Len(two)
      BY <1>0, ConcatProperties
    <3>2. Len(s) \in Nat
      BY LenProperties
    <3> QED BY <1>0, <3>1, <3>2 DEF two
  <2> HIDE DEF t
  <2>3. t \o top = t
    BY <2>2, ConcatEmptySeq
  <2> QED BY <2>1, <2>2, <2>3
<1>2. Pops(op) = 0 /\ OperandBytes(op) = 1 /\ op \in OtherNames
  BY OperationNames, OperandSizes DEF OtherNames, Pops, Names
<1>3. q = p + 2 /\ q \in Nat
  BY <1>2
<1>4. FromTop(e, 1) = y /\ e.pc = p /\ 1 < Len(e.stack)
  <2>1. e = At(p, t)
    BY <1>1
  <2>2. FromTop(At(p, t), 1) = y
    BY Top2
  <2>3. At(p, t).pc = p /\ At(p, t).stack = t
    BY DEF At
  <2> HIDE DEF t, e
  <2> QED BY <1>1, <2>1, <2>2, <2>3
<1>5. top \in Seq(Word) /\ Len(top) = Pops(op) /\ values \in Seq(Word)
  BY <1>0, <1>2
<1> HIDE DEF e, t
<1>6. Performed(e, op, 1, env) =
          Continues(e, op, e.pc + 1 + OperandBytes(op), << FromTop(e, 1) >>)
  BY <1>4 DEF Performed, Divisions, FromTop
<1>7. Performed(At(p, t \o top), op, 1, env) = Continues(At(p, t \o top), op, q, values)
  BY <1>4, <1>6 DEF e
<1> HIDE DEF top, values, q, op
<1>8. Goes(code, env, p, t \o top, q, t \o values)
  BY <1>1, <1>2, <1>3, <1>5, <1>7, GoesThere DEF op
<1> QED BY <1>1, <1>3, <1>8 DEF t, top, values

(* Turns that jump, or fall through. *)
LEMMA JumpSteps ==
    ASSUME NEW code \in Codes, NEW env, NEW p \in Nat, NEW s \in Seq(Word),
           NEW x \in Word, NEW n \in Nat
    PROVE  /\ HasOperation(code, p, "If_goto", n) /\ x = 0 =>
                  Goes(code, env, p, s \o << x >>, p + 3, s)
           /\ HasOperation(code, p, "If_goto", n) /\ x # 0 =>
                  Goes(code, env, p, s \o << x >>, n, s)
           /\ HasOperation(code, p, "Goto", n) => Goes(code, env, p, s, n, s)
<1> DEFINE next(op) == p + 1 + OperandBytes(op)
<1>1. /\ next("If_goto") = p + 3 /\ Pops("If_goto") = 1 /\ Pops("Goto") = 0 /\ p + 3 \in Nat
      /\ "If_goto" \in OtherNames /\ "Goto" \in OtherNames
  <2>1. OperandBytes("If_goto") = 2 /\ Pops("If_goto") = 1
    BY OperandSizes, PopsValue
  <2>2. Pops("Goto") = 0
    BY OperationNames DEF Pops, Names
  <2> QED BY <2>1, <2>2 DEF OtherNames
<1>2. /\ << x >> \in Seq(Word) /\ Len(<< x >>) = 1 /\ << >> \in Seq(Word) /\ Len(<< >>) = 0
      /\ s \o << >> = s
  BY TopTypes, ConcatEmptySeq
<1>3. ASSUME HasOperation(code, p, "If_goto", n)
      PROVE  Goes(code, env, p, s \o << x >>, IF x = 0 THEN p + 3 ELSE n, s)
  <2> DEFINE op == "If_goto"
             top == << x >>
             e == At(p, s \o top)
             target == IF x = 0 THEN p + 3 ELSE n
             values == << >>
  <2>1. FromTop(e, 0) = x /\ e.pc = p
    <3>1. FromTop(e, 0) = x
      BY Top1
    <3> QED BY <3>1 DEF At
  <2> HIDE DEF e
  <2>2. Performed(e, op, n, env) =
            IF FromTop(e, 0) = 0 THEN Continues(e, op, e.pc + 1 + OperandBytes(op), << >>)
            ELSE Continues(e, op, n, << >>)
    BY DEF Performed, Divisions, FromTop
  <2>3. Performed(e, op, n, env) = Continues(e, op, target, values)
    BY <1>1, <2>1, <2>2
  <2>4. target \in Nat
    BY <1>1
  <2> HIDE DEF top, target, values
  <2>5. Goes(code, env, p, s \o top, target, s \o values)
    BY <1>1, <1>2, <1>3, <2>3, <2>4, GoesThere DEF top, values, e
  <2> QED BY <1>2, <2>5 DEF top, target, values
<1>4. ASSUME HasOperation(code, p, "Goto", n)
      PROVE  Goes(code, env, p, s, n, s)
  <2> DEFINE op == "Goto"
             top == << >>
             e == At(p, s \o top)
             values == << >>
  <2> HIDE DEF e
  <2>1. Performed(e, op, n, env) = Continues(e, op, n, values)
    BY DEF Performed, Divisions
  <2> HIDE DEF top, values
  <2>2. Goes(code, env, p, s \o top, n, s \o values)
    BY <1>1, <1>2, <1>4, <2>1, GoesThere DEF top, values, e
  <2> QED BY <1>2, <2>2 DEF top, values
<1> QED BY <1>3, <1>4

(* The loop has ended with a value on the stack. *)
EndedWith(e, stack) == e.outcome = "value" /\ e.stack = stack

(* The turn that ends the loop. *)
LEMMA EndStep ==
    ASSUME NEW code \in Codes, NEW env, NEW p \in Nat, NEW s \in Seq(Word), NEW x \in Word,
           HasOperation(code, p, "End", 0)
    PROVE  EndedWith(Step(At(p, s \o << x >>), code, env), s \o << x >>)
<1> DEFINE t == s \o << x >>
           e == At(p, t)
<1>1. t \in Seq(Word) /\ Len(t) = Len(s) + 1 /\ Len(s) \in Nat
  BY TopElements
<1>2. Pops("End") = 1 /\ "End" \in OtherNames
  BY PopsValue DEF OtherNames
<1>3. Len(t) >= Pops("End")
  BY <1>1, <1>2
<1>4. e.stack = t
  BY DEF At
<1> HIDE DEF t
<1>5. Step(e, code, env) = Performed(e, "End", 0, env)
  BY <1>1, <1>2, <1>3, OneTurn
<1>6. Performed(e, "End", 0, env) = [e EXCEPT !.outcome = "value"]
  BY DEF Performed, Divisions
<1>7. [e EXCEPT !.outcome = "value"].outcome = "value"
      /\ [e EXCEPT !.outcome = "value"].stack = t
  BY DEF At
<1> QED BY <1>5, <1>6, <1>7 DEF t, EndedWith

-----------------------------------------------------------------------------
(* What the code of a tree does *)

(* A run comes to a position, in no more turns than there are bytes before it. *)
Reached(states, p, s) == \E i \in 0 .. p : states[i] = At(p, s)

(* It fails in no more than n turns. *)
Failed(states, n) == \E i \in 0 .. n : IsFailure(states[i])

(* It comes to a position with a value on the stack, or fails if there is none. *)
Arrives(states, p, s, value) ==
    /\ value = Missing => Failed(states, p)
    /\ value # Missing => Reached(states, p, s \o << value >>)

(* A run that comes to a position takes the turn from there. *)
LEMMA Advances ==
    ASSUME NEW states, NEW code, NEW env, IsRun(states, code, env),
           NEW p \in Nat, NEW q \in Nat, p < q, NEW s, NEW t,
           Reached(states, p, s), Goes(code, env, p, s, q, t)
    PROVE  Reached(states, q, t)
<1>1. PICK i \in 0 .. p : states[i] = At(p, s)
  BY DEF Reached
<1>2. i \in Nat /\ i + 1 \in 0 .. q
  OBVIOUS
<1>3. states[i + 1] = Turn(states[i], code, env)
  BY <1>2 DEF IsRun
<1>4. At(p, s).outcome = "running"
  BY DEF At
<1>5. states[i + 1] = At(q, t)
  BY <1>1, <1>3, <1>4 DEF Turn, Goes
<1> QED BY <1>2, <1>5 DEF Reached

(* The same for a turn that may fail. *)
LEMMA AdvancesOrFails ==
    ASSUME NEW states, NEW code, NEW env, IsRun(states, code, env),
           NEW p \in Nat, NEW q \in Nat, p < q, NEW s, NEW t, NEW value,
           Reached(states, p, s), GoesOrFails(code, env, p, s, q, t, value)
    PROVE  Arrives(states, q, t, value)
<1>1. CASE value # Missing
  <2>1. Goes(code, env, p, s, q, t \o << value >>)
    BY <1>1 DEF GoesOrFails
  <2> QED BY <1>1, <2>1, Advances DEF Arrives
<1>2. CASE value = Missing
  <2>1. PICK i \in 0 .. p : states[i] = At(p, s)
    BY DEF Reached
  <2>2. i \in Nat /\ i + 1 \in 0 .. q
    OBVIOUS
  <2>3. states[i + 1] = Turn(states[i], code, env)
    BY <2>2 DEF IsRun
  <2>4. At(p, s).outcome = "running"
    BY DEF At
  <2>5. IsFailure(states[i + 1])
    BY <1>2, <2>1, <2>3, <2>4 DEF Turn, GoesOrFails
  <2> QED BY <1>2, <2>2, <2>5 DEF Arrives, Failed
<1> QED BY <1>1, <1>2

(* A failure within some turns is one within more. *)
LEMMA FailedLater ==
    ASSUME NEW states, NEW p \in Nat, NEW q \in Nat, p <= q, Failed(states, p)
    PROVE  Failed(states, q)
<1>1. PICK i \in 0 .. p : IsFailure(states[i])
  BY DEF Failed
<1>2. i \in 0 .. q
  OBVIOUS
<1> QED BY <1>1, <1>2 DEF Failed

(* A run that has failed stays so. *)
LEMMA FailureStays ==
    ASSUME NEW states, NEW code, NEW env, IsRun(states, code, env), NEW n \in Nat,
           Failed(states, n)
    PROVE  IsFailure(states[n])
<1>1. PICK i \in 0 .. n : IsFailure(states[i])
  BY DEF Failed
<1> DEFINE S == {k \in Nat : i <= k => IsFailure(states[k])}
<1>2. 0 \in S
  BY <1>1
<1>3. ASSUME NEW k \in Nat, k \in S PROVE k + 1 \in S
  <2>1. SUFFICES ASSUME i <= k + 1 PROVE IsFailure(states[k + 1])
    OBVIOUS
  <2>2. CASE i = k + 1
    BY <1>1, <2>2
  <2>3. CASE i # k + 1
    <3>1. IsFailure(states[k])
      BY <1>3, <2>1, <2>3
    <3>2. states[k + 1] = Turn(states[k], code, env)
      BY DEF IsRun
    <3>3. states[k + 1] = states[k]
      BY <3>1, <3>2 DEF Turn, IsFailure
    <3> QED BY <3>1, <3>3
  <2> QED BY <2>2, <2>3
<1>4. n \in S
  <2> HIDE DEF S
  <2> QED BY <1>2, <1>3, SetInduction
<1> QED BY <1>4

(* What the code of a tree does wherever it is, given its value. *)
Computes(states, code, env, tree, value) ==
    \A p \in Nat : \A s \in Seq(Word) :
        Reached(states, p, s) /\ HasAt(code, p, CodeOf[<< tree, p >>])
            => Arrives(states, p + Len(CodeOf[<< tree, p >>]), s, value)

(* A run of some code. *)
Runs(states, code, env) ==
    code \in Codes /\ Len(code) < 2^16 /\ IsSeen(env) /\ IsRun(states, code, env)

(* The run computes the tree, which is smaller. *)
Part(states, code, env, t) == t \in Forest /\ Computes(states, code, env, t, ValueOf(env)[t])

(* An operation without operand bytes. *)
LEMMA PlainOperation ==
    ASSUME NEW code \in Codes, NEW p \in Nat, NEW op, OperandBytes(op) = 0,
           HasAt(code, p, Byte(op))
    PROVE  HasOperation(code, p, op, 0)
<1>1. IsBigEndian(BigEndian(0, 0), 0, 0)
  BY BigEndianType
<1> DEFINE none == BigEndian(0, 0)
<1>2. Len(none) = 0
  BY <1>1 DEF IsBigEndian
<1>3. Len(Byte(op)) = 1
  BY DEF Byte
<1>4. Len(code) \in Nat
  BY CodesJoin
<1>5. p + 1 <= Len(code)
  BY <1>3 DEF HasAt
<1> HIDE DEF none
<1>6. HasAt(code, p + 1, none)
  BY <1>2, <1>4, <1>5 DEF HasAt
<1>7. Fits(0, 0)
  BY DEF Fits
<1> QED BY <1>6, <1>7 DEF HasOperation, none

(* A run comes to the end of a part with its value. *)
LEMMA PartArrives ==
    ASSUME NEW states, NEW code, NEW env, Runs(states, code, env),
           NEW t, Part(states, code, env, t),
           NEW p \in Nat, NEW s \in Seq(Word), Reached(states, p, s),
           HasAt(code, p, CodeOf[<< t, p >>])
    PROVE  /\ CodeOf[<< t, p >>] \in Codes /\ p + Len(CodeOf[<< t, p >>]) \in Nat
           /\ p <= p + Len(CodeOf[<< t, p >>])
           /\ ValueOf(env)[t] \in Answers
           /\ Arrives(states, p + Len(CodeOf[<< t, p >>]), s, ValueOf(env)[t])
<1>1. t \in Forest /\ << t, p >> \in Places
  BY DEF Part, Places
<1>2. CodeOf[<< t, p >>] \in Codes
  BY <1>1, CodeUnfolds
<1> DEFINE x == CodeOf[<< t, p >>]
<1>3. Len(x) \in Nat
  BY <1>2, CodesJoin
<1>4. ValueOf(env)[t] \in Answers
  BY <1>1, ValueUnfolds DEF Runs
<1>5. Arrives(states, p + Len(x), s, ValueOf(env)[t])
  <2> HIDE DEF Codes, Word
  <2> QED BY DEF Part, Computes
<1> HIDE DEF x
<1>6. p + Len(x) \in Nat /\ p <= p + Len(x)
  BY <1>3
<1> QED BY <1>2, <1>4, <1>5, <1>6 DEF x

(* The values of two parts on the stack, or a failure. *)
BothReach(states, p, s, v, w) ==
    /\ v = Missing \/ w = Missing => Failed(states, p)
    /\ v # Missing /\ w # Missing =>
           v \in Word /\ w \in Word /\ Reached(states, p, s \o << v, w >>)

(* A run comes to the end of two parts with their values. *)
LEMMA PairArrives ==
    ASSUME NEW states, NEW code, NEW env, Runs(states, code, env),
           NEW t, Part(states, code, env, t), NEW u, Part(states, code, env, u),
           NEW p \in Nat, NEW s \in Seq(Word), Reached(states, p, s),
           HasAt(code, p, CodeOf[<< t, p >>]),
           NEW q, q = p + Len(CodeOf[<< t, p >>]), HasAt(code, q, CodeOf[<< u, q >>]),
           NEW r, r = q + Len(CodeOf[<< u, q >>])
    PROVE  /\ CodeOf[<< t, p >>] \in Codes /\ CodeOf[<< u, q >>] \in Codes
           /\ q \in Nat /\ r \in Nat /\ p <= q /\ q <= r
           /\ BothReach(states, r, s, ValueOf(env)[t], ValueOf(env)[u])
<1> DEFINE v == ValueOf(env)[t]
           w == ValueOf(env)[u]
           y == CodeOf[<< u, q >>]
<1>1. /\ q \in Nat /\ p <= q /\ v \in Answers /\ Arrives(states, q, s, v)
      /\ CodeOf[<< t, p >>] \in Codes
  BY PartArrives
<1>2. u \in Forest /\ << u, q >> \in Places
  BY <1>1 DEF Part, Places
<1>3. y \in Codes /\ w \in Answers
  BY <1>2, CodeUnfolds, ValueUnfolds DEF Runs
<1>4. Len(y) \in Nat
  BY <1>3, CodesJoin
<1>5. r \in Nat /\ q <= r
  <2> HIDE DEF y
  <2> QED BY <1>1, <1>4 DEF y
<1> HIDE DEF v, w
<1>6. CASE v = Missing
  <2>1. Failed(states, r)
    BY <1>1, <1>5, <1>6, FailedLater DEF Arrives
  <2> QED BY <1>1, <1>3, <1>5, <1>6, <2>1 DEF BothReach, v, w
<1>7. CASE v # Missing
  <2> DEFINE z == s \o << v >>
  <2>1. v \in Word /\ Reached(states, q, z)
    BY <1>1, <1>7 DEF Arrives, Answers
  <2>2. z \in Seq(Word)
    BY <2>1, TopElements
  <2> HIDE DEF z
  <2>3. Arrives(states, r, z, w)
    BY <1>1, <2>1, <2>2, PartArrives DEF w
  <2>4. CASE w = Missing
    BY <1>1, <1>3, <1>5, <2>3, <2>4 DEF BothReach, Arrives, v, w
  <2>5. CASE w # Missing
    <3>1. w \in Word
      BY <1>3, <2>5 DEF Answers
    <3>2. z \o << w >> = s \o << v, w >>
      BY <2>1, <3>1, PairJoins DEF z
    <3>3. Reached(states, r, s \o << v, w >>)
      BY <2>3, <2>5, <3>2 DEF Arrives
    <3> QED BY <1>1, <1>3, <1>5, <1>7, <2>1, <2>5, <3>1, <3>3 DEF BothReach, v, w
  <2> QED BY <2>4, <2>5
<1> QED BY <1>6, <1>7

(* A run that has failed arrives anywhere later without a value. *)
LEMMA MissingArrives ==
    ASSUME NEW states, NEW p \in Nat, NEW q \in Nat, p <= q, NEW s, Failed(states, p)
    PROVE  Arrives(states, q, s, Missing)
  BY FailedLater DEF Arrives

(* A part of the code that consists of two. *)
IsJoined(c, a, b) == a \in Codes /\ b \in Codes /\ c = a \o b

IsCut(code, p, c, a, b) ==
    /\ HasAt(code, p, a) /\ HasAt(code, p + Len(a), b)
    /\ p + Len(a) \in Nat /\ p + Len(c) = (p + Len(a)) + Len(b)

(* A part that is put together from two holds both. *)
LEMMA CutCode ==
    ASSUME NEW code \in Codes, NEW p \in Nat, NEW a, NEW b, NEW c, IsJoined(c, a, b),
           HasAt(code, p, c)
    PROVE  IsCut(code, p, c, a, b)
<1>0. a \in Codes /\ b \in Codes /\ c = a \o b
  BY DEF IsJoined
<1>1. c \in Codes /\ Len(c) = Len(a) + Len(b) /\ Len(a) \in Nat /\ Len(b) \in Nat
  BY <1>0, CodesJoin
<1>2. p + Len(a) \in Nat /\ p + Len(c) = (p + Len(a)) + Len(b)
  BY <1>1
<1>3. HasAt(code, p, a \o b)
  BY <1>0
<1>4. HasAt(code, p, a) /\ HasAt(code, p + Len(a), b)
  BY <1>0, <1>3, PartsOfCode
<1> QED BY <1>2, <1>4 DEF IsCut

(* The code of a constant or a register computes its value. *)
LEMMA LeafComputes ==
    ASSUME NEW states, NEW code, NEW env, Runs(states, code, env), NEW tree \in Forest,
           tree.form \in {"const", "reg"}, NEW p \in Nat, NEW s \in Seq(Word),
           Reached(states, p, s), HasAt(code, p, Assembled(tree, p, CodeOf))
    PROVE  Arrives(states, p + Len(Assembled(tree, p, CodeOf)), s,
                   Meaning(tree, env, ValueOf(env)))
<1> DEFINE text == Assembled(tree, p, CodeOf)
           op == IF tree.form = "const" THEN tree.op ELSE "Reg"
           n == IF tree.form = "const" THEN tree.value ELSE tree.number
           bytes == OperandBytes(op)
           value == Meaning(tree, env, ValueOf(env))
           q == p + 1 + bytes
<1>1. /\ op \in OtherNames /\ bytes \in {1, 2, 4} /\ Fits(n, bytes)
      /\ tree.form = "const" => op \in {"Const8", "Const16", "Const32"}
  <2>1. CASE tree.form = "const"
    <3>1. op \in {"Const8", "Const16", "Const32"} /\ Fits(n, bytes)
      BY <2>1, TreeForms DEF IsTree
    <3>2. bytes \in {1, 2, 4}
      <4> HIDE DEF op
      <4> QED BY <3>1, OperandSizes
    <3> QED BY <3>1, <3>2 DEF OtherNames
  <2>2. CASE tree.form = "reg"
    <3>1. op = "Reg" /\ Fits(n, 2)
      BY <2>2, TreeForms DEF IsTree
    <3>2. bytes = 2
      BY <3>1, OperandSizes
    <3> QED BY <2>2, <3>1, <3>2 DEF OtherNames
  <2> QED BY <2>1, <2>2
<1> DEFINE first == Byte(op)
           rest == BigEndian(n, bytes)
<1>2. text = first \o rest
  <2>1. CASE tree.form = "const"
    BY <2>1, AssembledForms
  <2>2. CASE tree.form = "reg"
    <3>1. text = Byte("Reg") \o BigEndian(tree.number, 2)
      BY <2>2, AssembledForms
    <3>2. op = "Reg" /\ n = tree.number /\ bytes = 2
      BY <2>2, OperandSizes
    <3> QED BY <3>1, <3>2
  <2> QED BY <2>1, <2>2
<1> HIDE DEF text, op, n, bytes
<1>3. first \in Codes /\ Len(first) = 1
  BY <1>1, CodesJoin
<1>4. rest \in Codes /\ Len(rest) = bytes
  <2>1. n \in Nat
    BY <1>1 DEF Fits
  <2>2. IsBigEndian(rest, n, bytes)
    BY <1>1, <2>1, BigEndianType
  <2> QED BY <2>2 DEF IsBigEndian
<1> HIDE DEF first, rest
<1>5. /\ HasAt(code, p, first) /\ HasAt(code, p + 1, rest)
      /\ p + Len(text) = q /\ q \in Nat /\ p < q
  <2>1. HasAt(code, p, text) /\ code \in Codes
    BY DEF Runs, text
  <2>2. HasAt(code, p, first) /\ HasAt(code, p + Len(first), rest)
        /\ p + Len(text) = (p + Len(first)) + Len(rest)
    <3>1. IsJoined(text, first, rest)
      BY <1>2, <1>3, <1>4 DEF IsJoined
    <3>2. IsCut(code, p, text, first, rest)
      BY <2>1, <3>1, CutCode
    <3> QED BY <3>2 DEF IsCut
  <2> QED BY <1>1, <1>2, <1>3, <1>4, <2>2
<1>6. HasOperation(code, p, op, n)
  BY <1>1, <1>5 DEF HasOperation, first, rest, bytes
<1>7. n \in Nat
  BY <1>1 DEF Fits
<1>8. GoesOrFails(code, env, p, s, q, s, value)
  <2>1. CASE tree.form = "const"
    <3>1. value = Truncated(n)
      BY <2>1 DEF Meaning, n
    <3>2. GoesOrFails(code, env, p, s, q, s, Truncated(n))
      BY <1>1, <1>6, <1>7, <2>1, ConstStep DEF Runs, bytes
    <3> QED BY <3>1, <3>2
  <2>2. CASE tree.form = "reg"
    <3>1. value = RegisterValue(env, n)
      BY <2>2 DEF Meaning, n
    <3>2. op = "Reg" /\ q = p + 3
      BY <2>2, OperandSizes DEF op, bytes
    <3>3. GoesOrFails(code, env, p, s, p + 3, s, RegisterValue(env, n))
      BY <1>6, <1>7, <3>2, RegStep DEF Runs
    <3> QED BY <3>1, <3>2, <3>3
  <2> QED BY <2>1, <2>2
<1> HIDE DEF q, value
<1>9. Arrives(states, q, s, value)
  BY <1>5, <1>8, AdvancesOrFails DEF Runs
<1> QED BY <1>5, <1>9 DEF text, value

(* So does that of an operation on one operand. *)
LEMMA UnaryComputes ==
    ASSUME NEW states, NEW code, NEW env, Runs(states, code, env), NEW tree \in Forest,
           tree.form \in {"unary", "extend"}, Part(states, code, env, tree.x),
           NEW p \in Nat, NEW s \in Seq(Word),
           Reached(states, p, s), HasAt(code, p, Assembled(tree, p, CodeOf))
    PROVE  Arrives(states, p + Len(Assembled(tree, p, CodeOf)), s,
                   Meaning(tree, env, ValueOf(env)))
<1> DEFINE text == Assembled(tree, p, CodeOf)
           op == tree.op
           v == ValueOf(env)[tree.x]
           x == CodeOf[<< tree.x, p >>]
           first == Byte(op)
           rest == IF tree.form = "extend" THEN << tree.n >> ELSE << >>
           q == p + Len(x)
           r == q + 1 + Len(rest)
           value == Meaning(tree, env, ValueOf(env))
<1>0. code \in Codes /\ IsSeen(env) /\ IsRun(states, code, env)
  BY DEF Runs
<1>1. /\ tree.form = "unary" => op \in UnaryNames
      /\ tree.form = "extend" => op \in {"Ext", "Zero_ext"} /\ tree.n \in Nat /\ 0 < tree.n
                                 /\ tree.n < XLEN /\ tree.n < 256
  BY TreeForms DEF IsTree
<1>2. op \in OtherNames
  BY <1>1 DEF UnaryNames, OtherNames
<1>3. first \in Codes /\ Len(first) = 1 /\ rest \in Codes
      /\ Len(rest) = IF tree.form = "extend" THEN 1 ELSE 0
  <2>1. first \in Codes /\ Len(first) = 1
    BY <1>2, CodesJoin
  <2>2. << >> \in Codes /\ Len(<< >>) = 0
    BY CodesJoin
  <2>3. tree.form = "extend" => << tree.n >> \in Codes /\ Len(<< tree.n >>) = 1
    BY <1>1, CodesJoin
  <2> QED BY <2>1, <2>2, <2>3
<1>4. x \in Codes
  BY CodeUnfolds DEF Part, Places
<1>5. text = (x \o first) \o rest
  <2>1. CASE tree.form = "unary"
    <3>1. text = x \o first
      BY <2>1, AssembledForms
    <3>2. x \o first \in Codes
      BY <1>3, <1>4, CodesJoin
    <3>3. (x \o first) \o << >> = x \o first
      <4> DEFINE a == x \o first
                 B == 0 .. 255
      <4>1. a \in Seq(B)
        BY <3>2 DEF Codes
      <4> HIDE DEF a, B
      <4> QED BY <4>1, ConcatEmptySeq DEF a
    <3> QED BY <2>1, <3>1, <3>3
  <2>2. CASE tree.form = "extend"
    BY <2>2, AssembledForms
  <2> QED BY <2>1, <2>2
<1> HIDE DEF text, x, first, rest, q
<1>6. /\ HasAt(code, p, x) /\ HasAt(code, q, first) /\ HasAt(code, q + 1, rest)
      /\ q \in Nat /\ p + Len(text) = r
  <2> DEFINE a == x \o first
  <2>1. a \in Codes /\ HasAt(code, p, text)
    BY <1>3, <1>4, CodesJoin DEF text
  <2>0. text = a \o rest /\ a = x \o first
    BY <1>5
  <2> HIDE DEF a
  <2>2. /\ HasAt(code, p, a) /\ HasAt(code, p + Len(a), rest)
        /\ p + Len(text) = (p + Len(a)) + Len(rest)
    <3>1. IsJoined(text, a, rest)
      BY <1>3, <2>0, <2>1 DEF IsJoined
    <3>2. IsCut(code, p, text, a, rest)
      BY <1>0, <2>1, <3>1, CutCode
    <3> QED BY <3>2 DEF IsCut
  <2>3. HasAt(code, p, x) /\ HasAt(code, q, first) /\ q \in Nat /\ p + Len(a) = q + 1
    <3>1. IsJoined(a, x, first)
      BY <1>3, <1>4, <2>0 DEF IsJoined
    <3>2. IsCut(code, p, a, x, first)
      BY <1>0, <2>2, <3>1, CutCode
    <3> QED BY <1>3, <3>2 DEF q, IsCut
  <2> QED BY <2>2, <2>3
<1>7. Arrives(states, q, s, v) /\ v \in Answers
  BY <1>6, PartArrives DEF q, x
<1>8. r \in Nat /\ q < r
  BY <1>3, <1>6
<1>9. CASE v = Missing
  <2>1. value = Missing
    <3>1. CASE tree.form = "unary"
      BY <1>9, <3>1 DEF Meaning, AppliedTo
    <3>2. CASE tree.form = "extend"
      BY <1>9, <3>2 DEF Meaning, Extended
    <3> QED BY <3>1, <3>2
  <2>2. Failed(states, q)
    BY <1>7, <1>9 DEF Arrives
  <2>3. Arrives(states, r, s, Missing)
    <3> HIDE DEF r
    <3> QED BY <1>6, <1>8, <2>2, MissingArrives
  <2> QED BY <1>6, <2>1, <2>3 DEF text
<1>10. CASE v # Missing
  <2> DEFINE t == s \o << v >>
  <2>1. v \in Word /\ Reached(states, q, t)
    BY <1>7, <1>10 DEF Arrives, Answers
  <2> HIDE DEF v
  <2>2. GoesOrFails(code, env, q, t, r, s, value)
    <3>1. CASE tree.form = "unary"
      <4>1. value = AppliedTo(op, v, env)
        BY <3>1 DEF Meaning, v
      <4>2. r = q + 1
        BY <1>3, <1>6, <3>1
      <4>3. HasOperation(code, q, op, 0)
        <5>1. OperandBytes(op) = 0
          BY <1>1, <3>1, OperandSizes
        <5> QED BY <1>0, <1>6, <5>1, PlainOperation DEF first
      <4>4. GoesOrFails(code, env, q, t, q + 1, s, AppliedTo(op, v, env))
        BY <1>0, <1>1, <1>6, <2>1, <3>1, <4>3, UnaryStep
      <4> QED BY <4>1, <4>2, <4>4
    <3>2. CASE tree.form = "extend"
      <4>1. value = Extended(op, tree.n, v)
        BY <3>2 DEF Meaning, v
      <4>2. r = q + 2
        BY <1>3, <1>6, <3>2
      <4>3. HasOperation(code, q, op, tree.n)
        <5>1. OperandBytes(op) = 1
          BY <1>1, <3>2, OperandSizes
        <5>2. rest = BigEndian(tree.n, 1)
          BY <1>1, <3>2, CodesJoin DEF rest
        <5>3. Fits(tree.n, 1)
          <6>1. 256^0 = 1
            BY PowersOf256
          <6>2. tree.n \div 1 = tree.n
            BY <1>1, <3>2, DigitsOf
          <6> QED BY <1>1, <3>2, <6>1, <6>2 DEF Fits
        <5> QED BY <1>6, <5>1, <5>2, <5>3 DEF first, HasOperation
      <4>4. GoesOrFails(code, env, q, t, q + 2, s, Extended(op, tree.n, v))
        BY <1>0, <1>1, <1>6, <2>1, <3>2, <4>3, ExtendStep
      <4> QED BY <4>1, <4>2, <4>4
    <3> QED BY <3>1, <3>2
  <2> HIDE DEF t, r, value
  <2>3. Arrives(states, r, s, value)
    BY <1>0, <1>6, <1>8, <2>1, <2>2, AdvancesOrFails
  <2> QED BY <1>6, <2>3 DEF text, value
<1> QED BY <1>9, <1>10

(* A part of the code, up to a position. *)
Spans(code, p, part, q) == part \in Codes /\ HasAt(code, p, part) /\ q = p + Len(part)

(* The last part of a span, which begins n bytes before its end. *)
EndsAt(code, p, r, a, b, n) ==
    /\ Spans(code, p, a, r - n) /\ HasAt(code, r - n, b)
    /\ r \in Nat /\ r - n \in Nat /\ (r - n) + n = r

(* A span less its last part is a span. *)
LEMMA CutLast ==
    ASSUME NEW code \in Codes, NEW p \in Nat, NEW r, NEW a, NEW b, NEW c, NEW n,
           Spans(code, p, c, r), IsJoined(c, a, b), Len(b) = n
    PROVE  EndsAt(code, p, r, a, b, n)
<1>1. a \in Codes /\ b \in Codes /\ HasAt(code, p, c) /\ r = p + Len(c)
  BY DEF IsJoined, Spans
<1>2. HasAt(code, p, a) /\ HasAt(code, p + Len(a), b) /\ p + Len(a) \in Nat
      /\ p + Len(c) = (p + Len(a)) + Len(b)
  <2>1. IsCut(code, p, c, a, b)
    BY <1>1, CutCode
  <2> QED BY <2>1 DEF IsCut
<1>3. n \in Nat
  BY <1>1, CodesJoin
<1> DEFINE q == p + Len(a)
<1>4. q \in Nat /\ r = q + n
  BY <1>1, <1>2
<1> HIDE DEF q
<1>5. r - n = q /\ r \in Nat /\ q + n = r
  BY <1>3, <1>4
<1> QED BY <1>1, <1>2, <1>4, <1>5 DEF Spans, EndsAt, q

(* A run that comes to an operation on two operands. *)
LEMMA BinaryThere ==
    ASSUME NEW states, NEW code, NEW env, Runs(states, code, env),
           NEW op \in Names, NEW x \in Word, NEW y \in Word, NEW q \in Nat, NEW s \in Seq(Word),
           Reached(states, q, s \o << x, y >>), HasAt(code, q, Byte(op)), InAnyOrder(op, x, y)
    PROVE  Arrives(states, q + 1, s, Applied(op, x, y))
<1>1. OperandBytes(op) = 0 /\ code \in Codes
  BY OperandSizes DEF Runs
<1>2. HasOperation(code, q, op, 0)
  BY <1>1, PlainOperation
<1>3. GoesOrFails(code, env, q, s \o << x, y >>, q + 1, s, Applied(op, x, y))
  BY <1>1, <1>2, BinaryStep
<1>4. q + 1 \in Nat /\ q < q + 1
  OBVIOUS
<1> QED BY <1>3, <1>4, AdvancesOrFails DEF Runs

(* A run that comes to an operation on the stack. *)
LEMMA StackThere ==
    ASSUME NEW states, NEW code, NEW env, Runs(states, code, env),
           NEW op \in {"Dup", "Swap", "Pop", "Rot"}, NEW q \in Nat, NEW s, NEW t,
           Reached(states, q, s), HasAt(code, q, Byte(op)),
           HasOperation(code, q, op, 0) => Goes(code, env, q, s, q + 1, t)
    PROVE  Reached(states, q + 1, t)
<1>1. OperandBytes(op) = 0 /\ code \in Codes
  BY OperandSizes DEF Runs
<1>2. HasOperation(code, q, op, 0)
  BY <1>1, PlainOperation
<1>3. q + 1 \in Nat /\ q < q + 1
  OBVIOUS
<1> QED BY <1>2, <1>3, Advances DEF Runs

(* A run that comes to Dup. *)
LEMMA DupThere ==
    ASSUME NEW states, NEW code, NEW env, Runs(states, code, env),
           NEW x \in Word, NEW q \in Nat, NEW s \in Seq(Word),
           Reached(states, q, s \o << x >>), HasAt(code, q, Byte("Dup"))
    PROVE  Reached(states, q + 1, s \o << x, x >>)
<1>1. HasOperation(code, q, "Dup", 0) =>
          Goes(code, env, q, s \o << x >>, q + 1, s \o << x, x >>)
  BY StackSteps DEF Runs
<1> QED BY <1>1, StackThere

(* A run that comes to Swap. *)
LEMMA SwapThere ==
    ASSUME NEW states, NEW code, NEW env, Runs(states, code, env),
           NEW x \in Word, NEW y \in Word, NEW q \in Nat, NEW s \in Seq(Word),
           Reached(states, q, s \o << y, x >>), HasAt(code, q, Byte("Swap"))
    PROVE  Reached(states, q + 1, s \o << x, y >>)
<1>1. HasOperation(code, q, "Swap", 0) =>
          Goes(code, env, q, s \o << y, x >>, q + 1, s \o << x, y >>)
  BY StackSteps DEF Runs
<1> QED BY <1>1, StackThere

(* A run that comes to Pop. *)
LEMMA PopThere ==
    ASSUME NEW states, NEW code, NEW env, Runs(states, code, env),
           NEW x \in Word, NEW q \in Nat, NEW s \in Seq(Word),
           Reached(states, q, s \o << x >>), HasAt(code, q, Byte("Pop"))
    PROVE  Reached(states, q + 1, s)
<1>1. HasOperation(code, q, "Pop", 0) => Goes(code, env, q, s \o << x >>, q + 1, s)
  BY StackSteps DEF Runs
<1> QED BY <1>1, StackThere

(* A run that comes to Rot. *)
LEMMA RotThere ==
    ASSUME NEW states, NEW code, NEW env, Runs(states, code, env),
           NEW x \in Word, NEW y \in Word, NEW z \in Word, NEW q \in Nat, NEW s \in Seq(Word),
           Reached(states, q, s \o << z, y, x >>), HasAt(code, q, Byte("Rot"))
    PROVE  Reached(states, q + 1, s \o << x, z, y >>)
<1>1. HasOperation(code, q, "Rot", 0) =>
          Goes(code, env, q, s \o << z, y, x >>, q + 1, s \o << x, z, y >>)
  BY StackSteps DEF Runs
<1> QED BY <1>1, StackThere

(* A run over a span that holds two parts. *)
LEMMA PairThere ==
    ASSUME NEW states, NEW code, NEW env, Runs(states, code, env),
           NEW t, Part(states, code, env, t), NEW u, Part(states, code, env, u),
           NEW p \in Nat, NEW s \in Seq(Word), Reached(states, p, s),
           NEW c, NEW q, NEW r, Spans(code, p, c, r), q = p + Len(CodeOf[<< t, p >>]),
           c = CodeOf[<< t, p >>] \o CodeOf[<< u, q >>]
    PROVE  /\ q \in Nat /\ r \in Nat
           /\ BothReach(states, r, s, ValueOf(env)[t], ValueOf(env)[u])
<1> DEFINE x == CodeOf[<< t, p >>]
           y == CodeOf[<< u, q >>]
<1>1. x \in Codes /\ Len(x) \in Nat
  <2>1. x \in Codes
    BY CodeUnfolds DEF Part, Places
  <2> QED BY <2>1, CodesJoin
<1>2. q \in Nat
  <2> HIDE DEF x
  <2> QED BY <1>1 DEF x
<1>3. y \in Codes
  BY <1>2, CodeUnfolds DEF Part, Places
<1>4. IsJoined(c, x, y)
  BY <1>1, <1>3 DEF IsJoined
<1>5. /\ HasAt(code, p, x) /\ HasAt(code, q, y) /\ r = q + Len(y)
  <2> HIDE DEF x, y
  <2>1. HasAt(code, p, c) /\ code \in Codes
    BY DEF Spans, Runs
  <2>2. IsCut(code, p, c, x, y)
    BY <1>4, <2>1, CutCode
  <2> QED BY <2>2 DEF IsCut, Spans, x
<1> QED BY <1>5, PairArrives

(* A run that comes to the code of a tree. *)
ComesTo(states, code, env, tree, p, s, r) ==
    /\ Runs(states, code, env) /\ tree \in Forest /\ p \in Nat /\ s \in Seq(Word)
    /\ Reached(states, p, s) /\ Spans(code, p, Assembled(tree, p, CodeOf), r)

(* The values of the parts of a tree. *)
PartsCompute(states, code, env, tree) ==
    /\ tree.form \in {"twice", "binary", "swapped", "picked", "rotated", "if"} =>
           Part(states, code, env, tree.x)
    /\ tree.form \in {"binary", "swapped", "picked", "rotated", "if"} =>
           Part(states, code, env, tree.y)
    /\ tree.form \in {"rotated", "if"} => Part(states, code, env, tree.z)

(* The code that uses one operand twice computes its value. *)
LEMMA TwiceComputes ==
    ASSUME NEW states, NEW code, NEW env, NEW tree, NEW p, NEW s, NEW r,
           ComesTo(states, code, env, tree, p, s, r), tree.form = "twice",
           PartsCompute(states, code, env, tree)
    PROVE  Arrives(states, r, s, Meaning(tree, env, ValueOf(env)))
<1> DEFINE text == Assembled(tree, p, CodeOf)
           op == tree.op
           v == ValueOf(env)[tree.x]
           x == CodeOf[<< tree.x, p >>]
           a == x \o Byte("Dup")
           m == r - 1
           q == m - 1
           value == Meaning(tree, env, ValueOf(env))
<1>0. /\ Runs(states, code, env) /\ tree \in Forest /\ p \in Nat /\ s \in Seq(Word)
      /\ Reached(states, p, s) /\ Spans(code, p, text, r) /\ code \in Codes
  BY DEF ComesTo, Runs
<1>1. op \in Names
  BY <1>0, TreeForms DEF IsTree
<1>2. value = Applied(op, v, v)
  BY DEF Meaning
<1>3. text = a \o Byte(op)
  BY AssembledForms
<1>4. x \in Codes
  BY <1>0, CodeUnfolds DEF PartsCompute, Part, Places
<1>5. /\ Byte("Dup") \in Codes /\ Len(Byte("Dup")) = 1
      /\ Byte(op) \in Codes /\ Len(Byte(op)) = 1
      /\ a \in Codes
  BY <1>1, <1>4, CodesJoin DEF OtherNames
<1>6. IsJoined(text, a, Byte(op)) /\ IsJoined(a, x, Byte("Dup"))
  BY <1>3, <1>4, <1>5 DEF IsJoined
<1> HIDE DEF text, x, a, v
<1>7. /\ Spans(code, p, a, m) /\ HasAt(code, m, Byte(op)) /\ m \in Nat /\ m + 1 = r
  <2>1. EndsAt(code, p, r, a, Byte(op), 1)
    BY <1>0, <1>5, <1>6, CutLast
  <2> QED BY <2>1 DEF EndsAt
<1>8. /\ Spans(code, p, x, q) /\ HasAt(code, q, Byte("Dup")) /\ q \in Nat /\ q + 1 = m
  <2> HIDE DEF m
  <2>1. EndsAt(code, p, m, x, Byte("Dup"), 1)
    BY <1>0, <1>5, <1>6, <1>7, CutLast
  <2> QED BY <2>1 DEF EndsAt
<1>9. Arrives(states, q, s, v) /\ v \in Answers
  <2>1. HasAt(code, p, x) /\ q = p + Len(x)
    BY <1>8 DEF Spans
  <2> HIDE DEF q
  <2> QED BY <1>0, <2>1, PartArrives DEF x, v, PartsCompute
<1> HIDE DEF m, q
<1>10. CASE v = Missing
  <2>1. Failed(states, q) /\ q <= r /\ r \in Nat
    BY <1>7, <1>8, <1>9, <1>10 DEF Arrives
  <2>2. Arrives(states, r, s, Missing)
    BY <1>8, <2>1, MissingArrives
  <2>3. value = Missing
    BY <1>2, <1>10 DEF Applied
  <2> QED BY <2>2, <2>3
<1>11. CASE v # Missing
  <2>1. v \in Word /\ Reached(states, q, s \o << v >>)
    BY <1>9, <1>11 DEF Arrives, Answers
  <2>2. Reached(states, m, s \o << v, v >>)
    BY <1>0, <1>8, <2>1, DupThere
  <2>3. InAnyOrder(op, v, v)
    BY DEF InAnyOrder
  <2>4. Arrives(states, m + 1, s, Applied(op, v, v))
    BY <1>0, <1>1, <1>7, <2>1, <2>2, <2>3, BinaryThere
  <2> QED BY <1>2, <1>7, <2>4
<1> QED BY <1>10, <1>11

(* So does that of an operation on two operands that does not mind their order. *)
LEMMA BinaryComputes ==
    ASSUME NEW states, NEW code, NEW env, NEW tree, NEW p, NEW s, NEW r,
           ComesTo(states, code, env, tree, p, s, r), tree.form \in {"binary", "swapped"},
           PartsCompute(states, code, env, tree), tree.op \in Commuting
    PROVE  Arrives(states, r, s, Meaning(tree, env, ValueOf(env)))
<1> DEFINE text == Assembled(tree, p, CodeOf)
           op == tree.op
           v == ValueOf(env)[tree.x]
           w == ValueOf(env)[tree.y]
           first == IF tree.form = "binary" THEN tree.x ELSE tree.y
           second == IF tree.form = "binary" THEN tree.y ELSE tree.x
           x == CodeOf[<< first, p >>]
           b == p + Len(x)
           y == CodeOf[<< second, b >>]
           c == x \o y
           value == Meaning(tree, env, ValueOf(env))
           m == r - 1
           q == m - 1
<1>0. /\ Runs(states, code, env) /\ tree \in Forest /\ p \in Nat /\ s \in Seq(Word)
      /\ Reached(states, p, s) /\ Spans(code, p, text, r) /\ code \in Codes
  BY DEF ComesTo, Runs
<1>1. op \in Names
  BY <1>0, TreeForms DEF IsTree
<1>2. value = Applied(op, v, w)
  BY DEF Meaning
<1>3. /\ tree.form = "binary" => text = c \o Byte(op)
      /\ tree.form = "swapped" => text = (c \o Byte("Swap")) \o Byte(op)
  <2>1. CASE tree.form = "binary"
    BY <2>1, AssembledForms
  <2>2. CASE tree.form = "swapped"
    BY <2>2, AssembledForms
  <2> QED BY <2>1, <2>2
<1>4. Part(states, code, env, first) /\ Part(states, code, env, second)
  BY DEF PartsCompute
<1>5. x \in Codes /\ b \in Nat
  <2>1. x \in Codes
    BY <1>0, <1>4, CodeUnfolds DEF Part, Places
  <2>2. Len(x) \in Nat
    BY <2>1, CodesJoin
  <2> HIDE DEF x
  <2> QED BY <1>0, <2>1, <2>2
<1>6. y \in Codes
  <2> HIDE DEF b
  <2> QED BY <1>4, <1>5, CodeUnfolds DEF Part, Places
<1>7. /\ c \in Codes /\ Byte(op) \in Codes /\ Len(Byte(op)) = 1
      /\ Byte("Swap") \in Codes /\ Len(Byte("Swap")) = 1 /\ c \o Byte("Swap") \in Codes
  BY <1>1, <1>5, <1>6, CodesJoin DEF OtherNames
<1>8. /\ tree.form = "binary" => IsJoined(text, c, Byte(op))
      /\ tree.form = "swapped" => /\ IsJoined(text, c \o Byte("Swap"), Byte(op))
                                  /\ IsJoined(c \o Byte("Swap"), c, Byte("Swap"))
  BY <1>3, <1>7 DEF IsJoined
<1>9. ASSUME NEW k, Spans(code, p, c, k)
      PROVE  k \in Nat /\ BothReach(states, k, s, ValueOf(env)[first], ValueOf(env)[second])
  <2>1. /\ b = p + Len(CodeOf[<< first, p >>])
        /\ c = CodeOf[<< first, p >>] \o CodeOf[<< second, b >>]
    OBVIOUS
  <2> HIDE DEF first, second, b, c
  <2> QED BY <1>0, <1>4, <1>9, <2>1, PairThere
<1>10. v \in Answers /\ w \in Answers
  BY <1>0, ValueUnfolds DEF PartsCompute, Part, Runs
<1>13. InAnyOrder(op, v, w)
  BY DEF InAnyOrder
<1> HIDE DEF text, x, y, b, c, v, w, op, value
<1>11. CASE tree.form = "binary"
  <2>1. Spans(code, p, c, m) /\ HasAt(code, m, Byte(op)) /\ m \in Nat /\ m + 1 = r
    <3>1. EndsAt(code, p, r, c, Byte(op), 1)
      BY <1>0, <1>7, <1>8, <1>11, CutLast
    <3> QED BY <3>1 DEF EndsAt
  <2>2. BothReach(states, m, s, v, w)
    <3> HIDE DEF m
    <3> QED BY <1>9, <1>11, <2>1 DEF first, second, v, w
  <2> HIDE DEF m
  <2>3. CASE v = Missing \/ w = Missing
    <3>1. Failed(states, m) /\ m <= r /\ r \in Nat
      BY <2>1, <2>2, <2>3 DEF BothReach
    <3>2. Arrives(states, r, s, Missing)
      BY <2>1, <3>1, MissingArrives
    <3> QED BY <1>2, <2>3, <3>2 DEF Applied, value
  <2>4. CASE v # Missing /\ w # Missing
    <3>1. v \in Word /\ w \in Word /\ Reached(states, m, s \o << v, w >>)
      BY <2>2, <2>4 DEF BothReach
    <3>2. Arrives(states, m + 1, s, Applied(op, v, w))
      BY <1>0, <1>1, <1>13, <2>1, <3>1, BinaryThere DEF op
    <3> QED BY <1>2, <2>1, <3>2 DEF value
  <2> QED BY <2>3, <2>4
<1>12. CASE tree.form = "swapped"
  <2> DEFINE a == c \o Byte("Swap")
  <2> HIDE DEF a
  <2>1. Spans(code, p, a, m) /\ HasAt(code, m, Byte(op)) /\ m \in Nat /\ m + 1 = r
    <3>1. EndsAt(code, p, r, a, Byte(op), 1)
      BY <1>0, <1>7, <1>8, <1>12, CutLast DEF a
    <3> QED BY <3>1 DEF EndsAt
  <2>2. Spans(code, p, c, q) /\ HasAt(code, q, Byte("Swap")) /\ q \in Nat /\ q + 1 = m
    <3> HIDE DEF m
    <3>1. EndsAt(code, p, m, c, Byte("Swap"), 1)
      BY <1>0, <1>7, <1>8, <1>12, <2>1, CutLast DEF a
    <3> QED BY <3>1 DEF EndsAt
  <2>3. BothReach(states, q, s, w, v)
    <3> HIDE DEF q
    <3> QED BY <1>9, <1>12, <2>2 DEF first, second, v, w
  <2> HIDE DEF m, q
  <2>4. CASE v = Missing \/ w = Missing
    <3>1. Failed(states, q) /\ q <= r /\ r \in Nat
      BY <2>1, <2>2, <2>3, <2>4 DEF BothReach
    <3>2. Arrives(states, r, s, Missing)
      BY <2>2, <3>1, MissingArrives
    <3> QED BY <1>2, <2>4, <3>2 DEF Applied, value
  <2>5. CASE v # Missing /\ w # Missing
    <3>1. v \in Word /\ w \in Word /\ Reached(states, q, s \o << w, v >>)
      BY <2>3, <2>5 DEF BothReach
    <3>2. Reached(states, q + 1, s \o << v, w >>)
      BY <1>0, <2>2, <3>1, SwapThere
    <3>3. Arrives(states, m + 1, s, Applied(op, v, w))
      BY <1>0, <1>1, <1>13, <2>1, <2>2, <3>1, <3>2, BinaryThere DEF op
    <3> QED BY <1>2, <2>1, <3>3 DEF value
  <2> QED BY <2>4, <2>5
<1> QED BY <1>11, <1>12

(* A run that comes to a copy of the second element. *)
LEMMA PickThere ==
    ASSUME NEW states, NEW code, NEW env, Runs(states, code, env),
           NEW x \in Word, NEW y \in Word, NEW q \in Nat, NEW s \in Seq(Word),
           Reached(states, q, s \o << y, x >>), HasAt(code, q, Byte("Pick")),
           HasAt(code, q + 1, << 1 >>)
    PROVE  Reached(states, q + 2, s \o << y, x, y >>)
<1>1. OperandBytes("Pick") = 1 /\ << 1 >> = BigEndian(1, 1) /\ Fits(1, 1)
  <2>1. << 1 >> = BigEndian(1, 1) /\ OperandBytes("Pick") = 1
    BY CodesJoin, OperandSizes
  <2>2. 1 \div 256^(1 - 1) = 1
    BY PowersOf256, DigitsOf
  <2> QED BY <2>1, <2>2 DEF Fits
<1>2. HasOperation(code, q, "Pick", 1)
  BY <1>1 DEF HasOperation
<1>3. Goes(code, env, q, s \o << y, x >>, q + 2, s \o << y, x, y >>)
  BY <1>2, PickStep DEF Runs
<1>4. q + 2 \in Nat /\ q < q + 2
  OBVIOUS
<1> QED BY <1>3, <1>4, Advances DEF Runs

(* The second operand of a picked operation is left below its value, and popped. *)
LEMMA PickedComputes ==
    ASSUME NEW states, NEW code, NEW env, NEW tree, NEW p, NEW s, NEW r,
           ComesTo(states, code, env, tree, p, s, r), tree.form = "picked",
           PartsCompute(states, code, env, tree), tree.op \in Commuting
    PROVE  Arrives(states, r, s, Meaning(tree, env, ValueOf(env)))
<1> DEFINE text == Assembled(tree, p, CodeOf)
           op == tree.op
           v == ValueOf(env)[tree.x]
           w == ValueOf(env)[tree.y]
           y == CodeOf[<< tree.y, p >>]
           b == p + Len(y)
           x == CodeOf[<< tree.x, b >>]
           c == y \o x
           c1 == c \o Byte("Pick")
           c2 == c1 \o << 1 >>
           c3 == c2 \o Byte(op)
           c4 == c3 \o Byte("Swap")
           value == Meaning(tree, env, ValueOf(env))
           q4 == r - 1
           q3 == q4 - 1
           q2 == q3 - 1
           q1 == q2 - 1
           q == q1 - 1
<1>0. /\ Runs(states, code, env) /\ tree \in Forest /\ p \in Nat /\ s \in Seq(Word)
      /\ Reached(states, p, s) /\ Spans(code, p, text, r) /\ code \in Codes
  BY DEF ComesTo, Runs
<1>1. op \in Names
  BY <1>0, TreeForms DEF IsTree
<1>2. value = Applied(op, v, w)
  BY DEF Meaning
<1>3. text = c4 \o Byte("Pop")
  BY AssembledForms
<1>4. Part(states, code, env, tree.x) /\ Part(states, code, env, tree.y)
  BY DEF PartsCompute
<1>5. y \in Codes /\ b \in Nat
  <2>1. y \in Codes
    BY <1>0, <1>4, CodeUnfolds DEF Part, Places
  <2>2. Len(y) \in Nat
    BY <2>1, CodesJoin
  <2> HIDE DEF y
  <2> QED BY <1>0, <2>1, <2>2
<1>6. x \in Codes
  <2> HIDE DEF b
  <2> QED BY <1>4, <1>5, CodeUnfolds DEF Part, Places
<1>7. /\ Byte("Pick") \in Codes /\ Len(Byte("Pick")) = 1
      /\ Byte("Swap") \in Codes /\ Len(Byte("Swap")) = 1
      /\ Byte("Pop") \in Codes /\ Len(Byte("Pop")) = 1
      /\ Byte(op) \in Codes /\ Len(Byte(op)) = 1
      /\ << 1 >> \in Codes /\ Len(<< 1 >>) = 1
  BY <1>1, CodesJoin DEF OtherNames
<1>8. c \in Codes /\ c1 \in Codes /\ c2 \in Codes /\ c3 \in Codes /\ c4 \in Codes
  <2>1. \A d, e \in Codes : d \o e \in Codes
    BY CodesJoin
  <2> HIDE DEF x, y
  <2>2. c \in Codes
    BY <1>5, <1>6, <2>1
  <2>3. c1 \in Codes
    BY <1>7, <2>1, <2>2
  <2> HIDE DEF c1
  <2>4. c2 \in Codes
    BY <1>7, <2>1, <2>3
  <2> HIDE DEF c2
  <2>5. c3 \in Codes
    BY <1>7, <2>1, <2>4
  <2> HIDE DEF c3
  <2>6. c4 \in Codes
    BY <1>7, <2>1, <2>5
  <2> QED BY <2>2, <2>3, <2>4, <2>5, <2>6
<1>9. /\ IsJoined(text, c4, Byte("Pop")) /\ IsJoined(c4, c3, Byte("Swap"))
      /\ IsJoined(c3, c2, Byte(op)) /\ IsJoined(c2, c1, << 1 >>)
      /\ IsJoined(c1, c, Byte("Pick"))
  BY <1>3, <1>7, <1>8 DEF IsJoined
<1>10. ASSUME NEW k, Spans(code, p, c, k)
       PROVE  k \in Nat /\ BothReach(states, k, s, w, v)
  <2>1. b = p + Len(CodeOf[<< tree.y, p >>])
        /\ c = CodeOf[<< tree.y, p >>] \o CodeOf[<< tree.x, b >>]
    OBVIOUS
  <2> HIDE DEF b, c
  <2> QED BY <1>0, <1>4, <1>10, <2>1, PairThere
<1>11. v \in Answers /\ w \in Answers
  BY <1>0, ValueUnfolds DEF PartsCompute, Part, Runs
<1>23. InAnyOrder(op, v, w)
  BY DEF InAnyOrder
<1> HIDE DEF text, x, y, b, c, c1, c2, c3, c4, v, w, op, value
<1>12. EndsAt(code, p, r, c4, Byte("Pop"), 1)
  BY <1>0, <1>7, <1>9, CutLast
<1>13. EndsAt(code, p, q4, c3, Byte("Swap"), 1)
  <2>1. Spans(code, p, c4, q4)
    BY <1>12 DEF EndsAt
  <2> HIDE DEF q4
  <2> QED BY <1>0, <1>7, <1>9, <2>1, CutLast
<1>14. EndsAt(code, p, q3, c2, Byte(op), 1)
  <2>1. Spans(code, p, c3, q3)
    BY <1>13 DEF EndsAt
  <2> HIDE DEF q3
  <2> QED BY <1>0, <1>7, <1>9, <2>1, CutLast
<1>15. EndsAt(code, p, q2, c1, << 1 >>, 1)
  <2>1. Spans(code, p, c2, q2)
    BY <1>14 DEF EndsAt
  <2> HIDE DEF q2
  <2> QED BY <1>0, <1>7, <1>9, <2>1, CutLast
<1>16. EndsAt(code, p, q1, c, Byte("Pick"), 1)
  <2>1. Spans(code, p, c1, q1)
    BY <1>15 DEF EndsAt
  <2> HIDE DEF q1
  <2> QED BY <1>0, <1>7, <1>9, <2>1, CutLast
<1>17. /\ HasAt(code, q4, Byte("Pop")) /\ q4 \in Nat /\ q4 + 1 = r
       /\ HasAt(code, q3, Byte("Swap")) /\ q3 \in Nat /\ q3 + 1 = q4
       /\ HasAt(code, q2, Byte(op)) /\ q2 \in Nat /\ q2 + 1 = q3
  BY <1>12, <1>13, <1>14 DEF EndsAt
<1>18. /\ HasAt(code, q1, << 1 >>) /\ q1 \in Nat /\ q1 + 1 = q2
       /\ HasAt(code, q, Byte("Pick")) /\ q \in Nat /\ q + 1 = q1
       /\ Spans(code, p, c, q)
  BY <1>15, <1>16 DEF EndsAt
<1> HIDE DEF q, q1, q2, q3, q4
<1>19. q + 1 = q1 /\ q + 2 = q2 /\ q <= r /\ q2 <= r /\ q3 <= r /\ r \in Nat
  BY <1>17, <1>18
<1>20. BothReach(states, q, s, w, v)
  BY <1>10, <1>18
<1>21. CASE v = Missing \/ w = Missing
  <2>1. Failed(states, q)
    BY <1>20, <1>21 DEF BothReach
  <2>2. Arrives(states, r, s, Missing)
    BY <1>18, <1>19, <2>1, MissingArrives
  <2> QED BY <1>2, <1>21, <2>2 DEF Applied, value
<1>22. CASE v # Missing /\ w # Missing
  <2>1. v \in Word /\ w \in Word /\ Reached(states, q, s \o << w, v >>)
    BY <1>20, <1>22 DEF BothReach
  <2>2. Reached(states, q2, s \o << w, v, w >>)
    BY <1>0, <1>18, <1>19, <2>1, PickThere
  <2> DEFINE t == s \o << w >>
             u == Applied(op, v, w)
  <2>3. t \in Seq(Word) /\ s \o << w, v, w >> = t \o << v, w >>
    <3>1. IsTriple(s, w, v, w)
      BY <1>0, <2>1, TriplesJoin
    <3>2. s \o << w >> \in Seq(Word)
      BY <1>0, <2>1, PairJoins
    <3> QED BY <3>1, <3>2 DEF IsTriple
  <2>4. u \in Answers /\ value = u
    BY <1>1, <1>2, <1>11, AppliedType
  <2> HIDE DEF t, u
  <2>5. Arrives(states, q2 + 1, t, u)
    BY <1>0, <1>1, <1>17, <1>23, <2>1, <2>2, <2>3, BinaryThere DEF u
  <2>6. CASE u = Missing
    <3>1. Failed(states, q3)
      BY <1>17, <2>5, <2>6 DEF Arrives
    <3>2. Arrives(states, r, s, Missing)
      BY <1>17, <1>19, <3>1, MissingArrives
    <3> QED BY <2>4, <2>6, <3>2 DEF value
  <2>7. CASE u # Missing
    <3>1. u \in Word /\ Reached(states, q3, t \o << u >>)
      BY <1>17, <2>4, <2>5, <2>7 DEF Arrives, Answers
    <3>2. t \o << u >> = s \o << w, u >>
      BY <1>0, <2>1, <3>1, PairJoins DEF t
    <3>3. Reached(states, q3 + 1, s \o << u, w >>)
      BY <1>0, <1>17, <2>1, <3>1, <3>2, SwapThere
    <3>4. s \o << u, w >> = (s \o << u >>) \o << w >> /\ s \o << u >> \in Seq(Word)
      BY <1>0, <2>1, <3>1, PairJoins
    <3>5. Reached(states, q4 + 1, s \o << u >>)
      BY <1>0, <1>17, <2>1, <3>3, <3>4, PopThere
    <3>6. Arrives(states, r, s, u)
      BY <1>17, <2>7, <3>5 DEF Arrives
    <3> QED BY <2>4, <3>6 DEF value
  <2> QED BY <2>6, <2>7
<1> QED BY <1>21, <1>22

(* The three parts of a rotated operation, one after another. *)
ThreeReach(states, p, s, u, v, w) ==
    /\ Missing \in {u, v, w} => Failed(states, p)
    /\ Missing \notin {u, v, w} =>
           u \in Word /\ v \in Word /\ w \in Word /\ Reached(states, p, s \o << u, v, w >>)

(* A run comes to the end of a third part with its value. *)
LEMMA ThreeArrive ==
    ASSUME NEW states, NEW code, NEW env, Runs(states, code, env),
           NEW p \in Nat, NEW s \in Seq(Word), NEW q \in Nat,
           NEW v \in Answers, NEW w \in Answers,
           BothReach(states, q, s, v, w),
           NEW t, Part(states, code, env, t), HasAt(code, q, CodeOf[<< t, q >>]),
           NEW r, r = q + Len(CodeOf[<< t, q >>])
    PROVE  r \in Nat /\ q <= r /\ ThreeReach(states, r, s, v, w, ValueOf(env)[t])
<1> DEFINE u == ValueOf(env)[t]
           x == CodeOf[<< t, q >>]
<1>1. x \in Codes /\ u \in Answers
  BY CodeUnfolds, ValueUnfolds DEF Part, Places, Runs
<1>2. r \in Nat /\ q <= r
  <2>1. Len(x) \in Nat
    BY <1>1, CodesJoin
  <2> HIDE DEF x
  <2> QED BY <2>1 DEF x
<1> HIDE DEF x, u
<1>3. CASE v = Missing \/ w = Missing
  <2>1. Failed(states, q)
    BY <1>3 DEF BothReach
  <2>2. Failed(states, r)
    BY <1>2, <2>1, FailedLater
  <2> QED BY <1>2, <1>3, <2>2 DEF ThreeReach, u
<1>4. CASE v # Missing /\ w # Missing
  <2> DEFINE z == s \o << v, w >>
  <2>1. v \in Word /\ w \in Word /\ Reached(states, q, z)
    BY <1>4 DEF BothReach
  <2>2. z \in Seq(Word)
    BY <2>1, TopElements
  <2> HIDE DEF z
  <2>3. Arrives(states, r, z, u)
    BY <2>1, <2>2, PartArrives DEF u
  <2>4. CASE u = Missing
    <3>1. Failed(states, r)
      BY <2>3, <2>4 DEF Arrives
    <3> QED BY <1>2, <1>4, <2>4, <3>1 DEF ThreeReach, u
  <2>5. CASE u # Missing
    <3>1. u \in Word /\ Reached(states, r, z \o << u >>)
      BY <1>1, <2>3, <2>5 DEF Arrives, Answers
    <3>2. z \o << u >> = s \o << v, w, u >>
      <4>1. IsTriple(s, v, w, u)
        BY <2>1, <3>1, TriplesJoin
      <4> QED BY <4>1 DEF IsTriple, z
    <3> QED BY <1>2, <1>4, <2>1, <2>5, <3>1, <3>2 DEF ThreeReach, u
  <2> QED BY <2>4, <2>5
<1> QED BY <1>3, <1>4

(* The operation is done twice, on what the rotation brought to the top. *)
LEMMA RotatedComputes ==
    ASSUME NEW states, NEW code, NEW env, NEW tree, NEW p, NEW s, NEW r,
           ComesTo(states, code, env, tree, p, s, r), tree.form = "rotated",
           PartsCompute(states, code, env, tree), tree.op \in Commuting
    PROVE  Arrives(states, r, s, Meaning(tree, env, ValueOf(env)))
<1> DEFINE text == Assembled(tree, p, CodeOf)
           op == tree.op
           v == ValueOf(env)[tree.x]
           w == ValueOf(env)[tree.y]
           u == ValueOf(env)[tree.z]
           x == CodeOf[<< tree.x, p >>]
           b == p + Len(x)
           y == CodeOf[<< tree.y, b >>]
           d == b + Len(y)
           z == CodeOf[<< tree.z, d >>]
           c == x \o y
           c1 == c \o z
           c2 == c1 \o Byte("Rot")
           c3 == c2 \o Byte(op)
           value == Meaning(tree, env, ValueOf(env))
           inner == Applied(op, v, w)
           q3 == r - 1
           q2 == q3 - 1
           q1 == q2 - 1
<1>0. /\ Runs(states, code, env) /\ tree \in Forest /\ p \in Nat /\ s \in Seq(Word)
      /\ Reached(states, p, s) /\ Spans(code, p, text, r) /\ code \in Codes
  BY DEF ComesTo, Runs
<1>1. op \in Names
  BY <1>0, TreeForms DEF IsTree
<1>2. value = Applied(op, u, inner)
  BY DEF Meaning
<1>3. text = c3 \o Byte(op)
  <2>1. IsRotated(text, tree, p, CodeOf)
    BY AssembledForms
  <2> QED BY <2>1 DEF IsRotated
<1>4. /\ Part(states, code, env, tree.x) /\ Part(states, code, env, tree.y)
      /\ Part(states, code, env, tree.z)
  BY DEF PartsCompute
<1>5. x \in Codes /\ b \in Nat
  <2>1. x \in Codes
    BY <1>0, <1>4, CodeUnfolds DEF Part, Places
  <2>2. Len(x) \in Nat
    BY <2>1, CodesJoin
  <2> HIDE DEF x
  <2> QED BY <1>0, <2>1, <2>2
<1>6. y \in Codes /\ d \in Nat
  <2> HIDE DEF b
  <2>1. y \in Codes
    BY <1>4, <1>5, CodeUnfolds DEF Part, Places
  <2>2. Len(y) \in Nat
    BY <2>1, CodesJoin
  <2> HIDE DEF y
  <2> QED BY <1>5, <2>1, <2>2
<1>7. z \in Codes
  <2> HIDE DEF d
  <2> QED BY <1>4, <1>6, CodeUnfolds DEF Part, Places
<1>8. /\ Byte("Rot") \in Codes /\ Len(Byte("Rot")) = 1
      /\ Byte(op) \in Codes /\ Len(Byte(op)) = 1
  BY <1>1, CodesJoin DEF OtherNames
<1>9. c \in Codes /\ c1 \in Codes /\ c2 \in Codes /\ c3 \in Codes
  <2>1. \A f, e \in Codes : f \o e \in Codes
    BY CodesJoin
  <2> HIDE DEF x, y, z
  <2>2. c \in Codes
    BY <1>5, <1>6, <2>1
  <2> HIDE DEF c
  <2>3. c1 \in Codes
    BY <1>7, <2>1, <2>2
  <2> HIDE DEF c1
  <2>4. c2 \in Codes
    BY <1>8, <2>1, <2>3
  <2> HIDE DEF c2
  <2>5. c3 \in Codes
    BY <1>8, <2>1, <2>4
  <2> QED BY <2>2, <2>3, <2>4, <2>5
<1>10. /\ IsJoined(text, c3, Byte(op)) /\ IsJoined(c3, c2, Byte(op))
       /\ IsJoined(c2, c1, Byte("Rot")) /\ IsJoined(c1, c, z)
  BY <1>3, <1>7, <1>8, <1>9 DEF IsJoined
<1>11. d = p + Len(c)
  <2>1. Len(c) = Len(x) + Len(y) /\ Len(x) \in Nat /\ Len(y) \in Nat
    BY <1>5, <1>6, CodesJoin
  <2> HIDE DEF x, y, c
  <2> QED BY <1>0, <2>1
<1>12. ASSUME Spans(code, p, c, d)
       PROVE  BothReach(states, d, s, v, w)
  <2>1. b = p + Len(CodeOf[<< tree.x, p >>])
        /\ c = CodeOf[<< tree.x, p >>] \o CodeOf[<< tree.y, b >>]
    OBVIOUS
  <2> HIDE DEF b, c, d
  <2> QED BY <1>0, <1>4, <1>12, <2>1, PairThere
<1>13. v \in Answers /\ w \in Answers /\ u \in Answers
  BY <1>0, ValueUnfolds DEF PartsCompute, Part, Runs
<1>14. z = CodeOf[<< tree.z, d >>]
  OBVIOUS
<1>25. \A k, l : InAnyOrder(op, k, l)
  BY DEF InAnyOrder
<1> HIDE DEF text, x, y, z, b, c, d, c1, c2, c3, v, w, u, op, value, inner
<1>15. EndsAt(code, p, r, c3, Byte(op), 1)
  BY <1>0, <1>8, <1>10, CutLast
<1>16. EndsAt(code, p, q3, c2, Byte(op), 1)
  <2>1. Spans(code, p, c3, q3)
    BY <1>15 DEF EndsAt
  <2> HIDE DEF q3
  <2> QED BY <1>0, <1>8, <1>10, <2>1, CutLast
<1>17. EndsAt(code, p, q2, c1, Byte("Rot"), 1)
  <2>1. Spans(code, p, c2, q2)
    BY <1>16 DEF EndsAt
  <2> HIDE DEF q2
  <2> QED BY <1>0, <1>8, <1>10, <2>1, CutLast
<1>18. /\ HasAt(code, q3, Byte(op)) /\ q3 \in Nat /\ q3 + 1 = r
       /\ HasAt(code, q2, Byte(op)) /\ q2 \in Nat /\ q2 + 1 = q3
       /\ HasAt(code, q1, Byte("Rot")) /\ q1 \in Nat /\ q1 + 1 = q2
       /\ Spans(code, p, c1, q1)
  BY <1>15, <1>16, <1>17 DEF EndsAt
<1> HIDE DEF q1, q2, q3
<1>19. q1 <= r /\ q3 <= r /\ r \in Nat
  BY <1>18
<1>20. Spans(code, p, c, d) /\ HasAt(code, d, z) /\ q1 = d + Len(z)
  <2>1. HasAt(code, p, c1) /\ q1 = p + Len(c1)
    BY <1>18 DEF Spans
  <2>2. IsCut(code, p, c1, c, z)
    BY <1>0, <1>10, <2>1, CutCode
  <2>3. HasAt(code, p, c) /\ HasAt(code, d, z) /\ q1 = d + Len(z)
    BY <1>11, <2>1, <2>2 DEF IsCut
  <2> QED BY <1>9, <1>11, <2>3 DEF Spans
<1>21. ThreeReach(states, q1, s, v, w, u)
  <2>1. BothReach(states, d, s, v, w)
    BY <1>12, <1>20
  <2> QED BY <1>0, <1>4, <1>6, <1>13, <1>14, <1>20, <2>1, ThreeArrive DEF u
<1>22. inner \in Answers
  BY <1>1, <1>13, AppliedType DEF inner
<1>23. CASE Missing \in {u, v, w}
  <2>1. Failed(states, q1)
    BY <1>21, <1>23 DEF ThreeReach
  <2>2. Arrives(states, r, s, Missing)
    BY <1>18, <1>19, <2>1, MissingArrives
  <2>3. value = Missing
    BY <1>2, <1>23 DEF Applied, inner
  <2> QED BY <2>2, <2>3 DEF value
<1>24. CASE Missing \notin {u, v, w}
  <2>1. u \in Word /\ v \in Word /\ w \in Word /\ Reached(states, q1, s \o << v, w, u >>)
    BY <1>21, <1>24 DEF ThreeReach
  <2>2. Reached(states, q1 + 1, s \o << u, v, w >>)
    BY <1>0, <1>18, <2>1, RotThere
  <2> DEFINE t == s \o << u >>
  <2>3. t \in Seq(Word) /\ s \o << u, v, w >> = t \o << v, w >>
    <3>1. IsTriple(s, u, v, w)
      BY <1>0, <2>1, TriplesJoin
    <3>2. s \o << u >> \in Seq(Word)
      BY <1>0, <2>1, TopElements
    <3> QED BY <3>1, <3>2 DEF IsTriple
  <2> HIDE DEF t
  <2>4. Arrives(states, q2 + 1, t, inner)
    BY <1>0, <1>1, <1>18, <1>25, <2>1, <2>2, <2>3, BinaryThere DEF inner
  <2>5. CASE inner = Missing
    <3>1. Failed(states, q3)
      BY <1>18, <2>4, <2>5 DEF Arrives
    <3>2. Arrives(states, r, s, Missing)
      BY <1>18, <1>19, <3>1, MissingArrives
    <3>3. value = Missing
      BY <1>2, <2>5 DEF Applied
    <3> QED BY <3>2, <3>3 DEF value
  <2>6. CASE inner # Missing
    <3>1. inner \in Word /\ Reached(states, q3, t \o << inner >>)
      BY <1>18, <1>22, <2>4, <2>6 DEF Arrives, Answers
    <3>2. t \o << inner >> = s \o << u, inner >>
      BY <1>0, <2>1, <3>1, PairJoins DEF t
    <3>3. Arrives(states, q3 + 1, s, Applied(op, u, inner))
      BY <1>0, <1>1, <1>18, <1>25, <2>1, <3>1, <3>2, BinaryThere
    <3> QED BY <1>2, <1>18, <3>3 DEF value
  <2> QED BY <2>5, <2>6
<1> QED BY <1>23, <1>24

(* A position within the code fits in the operand of a jump. *)
LEMMA TargetFits ==
    ASSUME NEW code \in Codes, Len(code) < 2^16, NEW n \in Nat, n <= Len(code)
    PROVE  Fits(n, 2) /\ IsBigEndian(BigEndian(n, 2), n, 2)
<1>1. 2^16 = 65536
  BY SMT
<1>2. Len(code) \in Nat
  BY CodesJoin
<1> DEFINE l == Len(code)
<1> HIDE DEF l
<1>3. l < 65536 /\ n <= l
  BY <1>1 DEF l
<1>4. n < 65536 /\ n \div 256 < 256
  BY <1>2, <1>3 DEF l
<1>5. 256^(2 - 1) = 256
  BY PowersOf256
<1> QED BY <1>4, <1>5, BigEndianType DEF Fits

(* The pieces of a conditional, and where they are. *)
IsBranching(code, env, tree, p, r) ==
    \E q, b, k, c :
        /\ q \in Nat /\ b \in Nat /\ k \in Nat /\ c \in Nat /\ r \in Nat
        /\ p <= q /\ b = q + 3 /\ b <= k /\ c = k + 3 /\ c <= r
        /\ HasAt(code, p, CodeOf[<< tree.x, p >>]) /\ q = p + Len(CodeOf[<< tree.x, p >>])
        /\ HasOperation(code, q, "If_goto", c)
        /\ HasAt(code, b, CodeOf[<< tree.z, b >>]) /\ k = b + Len(CodeOf[<< tree.z, b >>])
        /\ HasOperation(code, k, "Goto", r)
        /\ HasAt(code, c, CodeOf[<< tree.y, c >>]) /\ r = c + Len(CodeOf[<< tree.y, c >>])

(* The code of a conditional holds its parts and its jumps, to their places. *)
LEMMA Branches ==
    ASSUME NEW states, NEW code, NEW env, NEW tree, NEW p, NEW s, NEW r,
           ComesTo(states, code, env, tree, p, s, r), tree.form = "if",
           PartsCompute(states, code, env, tree)
    PROVE  IsBranching(code, env, tree, p, r)
<1> DEFINE text == Assembled(tree, p, CodeOf)
           x == CodeOf[<< tree.x, p >>]
<1>0. /\ Runs(states, code, env) /\ tree \in Forest /\ p \in Nat /\ s \in Seq(Word)
      /\ Reached(states, p, s) /\ Spans(code, p, text, r) /\ code \in Codes
      /\ Len(code) < 2^16
  BY DEF ComesTo, Runs
<1>1. /\ tree.x \in Forest /\ tree.y \in Forest /\ tree.z \in Forest
  BY DEF PartsCompute, Part
<1>2. PICK b, c, d :
          LET z == CodeOf[<< tree.z, b >>]
              y == CodeOf[<< tree.y, c >>]
          IN  /\ b = p + Len(x) + 3 /\ c = b + Len(z) + 3 /\ d = c + Len(y)
              /\ text = x \o Byte("If_goto") \o BigEndian(c, 2) \o z
                          \o Byte("Goto") \o BigEndian(d, 2) \o y
  <2>1. IsConditional(text, tree, p, CodeOf)
    BY AssembledForms
  <2> QED BY <2>1 DEF IsConditional
<1> DEFINE z == CodeOf[<< tree.z, b >>]
           y == CodeOf[<< tree.y, c >>]
           first == Byte("If_goto")
           second == Byte("Goto")
           there == BigEndian(c, 2)
           after == BigEndian(d, 2)
           c1 == x \o first
           c2 == c1 \o there
           c3 == c2 \o z
           c4 == c3 \o second
           c5 == c4 \o after
           l == Len(x)
           m == Len(z)
           n == Len(y)
<1>3. /\ b = p + l + 3 /\ c = b + m + 3 /\ d = c + n
      /\ text = c5 \o y
  BY <1>2
<1>4. x \in Codes /\ l \in Nat
  <2>1. x \in Codes
    BY <1>0, <1>1, CodeUnfolds DEF Places
  <2> HIDE DEF x
  <2> QED BY <2>1, CodesJoin
<1> HIDE DEF l
<1>5. b \in Nat /\ z \in Codes /\ m \in Nat
  <2>1. b \in Nat
    <3>1. p \in Nat /\ b = p + l + 3
      BY <1>0, <1>3
    <3> QED BY <1>4, <3>1
  <2>2. z \in Codes
    BY <1>1, <2>1, CodeUnfolds DEF Places
  <2> HIDE DEF z
  <2> QED BY <2>1, <2>2, CodesJoin
<1> HIDE DEF m
<1>6. c \in Nat /\ y \in Codes /\ n \in Nat
  <2>1. c \in Nat
    BY <1>3, <1>5
  <2>2. y \in Codes
    BY <1>1, <2>1, CodeUnfolds DEF Places
  <2> HIDE DEF y
  <2> QED BY <2>1, <2>2, CodesJoin
<1> HIDE DEF n
<1>7. d \in Nat
  BY <1>3, <1>6
<1>8. first \in Codes /\ Len(first) = 1 /\ second \in Codes /\ Len(second) = 1
  BY CodesJoin DEF OtherNames
<1>9. there \in Codes /\ Len(there) = 2 /\ after \in Codes /\ Len(after) = 2
  <2>1. IsBigEndian(there, c, 2) /\ IsBigEndian(after, d, 2)
    BY <1>6, <1>7, BigEndianType
  <2> QED BY <2>1 DEF IsBigEndian
<1> HIDE DEF x, y, z, first, second, there, after
<1>10. c1 \in Codes /\ c2 \in Codes /\ c3 \in Codes /\ c4 \in Codes /\ c5 \in Codes
  <2>1. \A f, e \in Codes : f \o e \in Codes
    BY CodesJoin
  <2>2. c1 \in Codes
    BY <1>4, <1>8, <2>1
  <2> HIDE DEF c1
  <2>3. c2 \in Codes
    BY <1>9, <2>1, <2>2
  <2> HIDE DEF c2
  <2>4. c3 \in Codes
    BY <1>5, <2>1, <2>3
  <2> HIDE DEF c3
  <2>5. c4 \in Codes
    BY <1>8, <2>1, <2>4
  <2> HIDE DEF c4
  <2>6. c5 \in Codes
    BY <1>9, <2>1, <2>5
  <2> QED BY <2>2, <2>3, <2>4, <2>5, <2>6
<1>11. /\ IsJoined(text, c5, y) /\ IsJoined(c5, c4, after) /\ IsJoined(c4, c3, second)
       /\ IsJoined(c3, c2, z) /\ IsJoined(c2, c1, there) /\ IsJoined(c1, x, first)
  BY <1>3, <1>4, <1>5, <1>6, <1>8, <1>9, <1>10 DEF IsJoined
<1> HIDE DEF text, c1, c2, c3, c4, c5
<1>12. Len(y) = n /\ Len(z) = m /\ Len(x) = l
  BY DEF n, m, l
<1> DEFINE k5 == r - n
           k4 == k5 - 2
           k3 == k4 - 1
           k2 == k3 - m
           k1 == k2 - 2
           k0 == k1 - 1
<1>13. EndsAt(code, p, r, c5, y, n)
  BY <1>0, <1>11, <1>12, CutLast
<1>14. EndsAt(code, p, k5, c4, after, 2)
  <2>1. Spans(code, p, c5, k5)
    BY <1>13 DEF EndsAt
  <2> HIDE DEF k5
  <2> QED BY <1>0, <1>9, <1>11, <2>1, CutLast
<1>15. EndsAt(code, p, k4, c3, second, 1)
  <2>1. Spans(code, p, c4, k4)
    BY <1>14 DEF EndsAt
  <2> HIDE DEF k4
  <2> QED BY <1>0, <1>8, <1>11, <2>1, CutLast
<1>16. EndsAt(code, p, k3, c2, z, m)
  <2>1. Spans(code, p, c3, k3)
    BY <1>15 DEF EndsAt
  <2> HIDE DEF k3
  <2> QED BY <1>0, <1>11, <1>12, <2>1, CutLast
<1>17. EndsAt(code, p, k2, c1, there, 2)
  <2>1. Spans(code, p, c2, k2)
    BY <1>16 DEF EndsAt
  <2> HIDE DEF k2
  <2> QED BY <1>0, <1>9, <1>11, <2>1, CutLast
<1>18. EndsAt(code, p, k1, x, first, 1)
  <2>1. Spans(code, p, c1, k1)
    BY <1>17 DEF EndsAt
  <2> HIDE DEF k1
  <2> QED BY <1>0, <1>8, <1>11, <2>1, CutLast
<1>19. /\ r \in Nat /\ HasAt(code, k5, y) /\ k5 \in Nat /\ k5 + n = r
       /\ HasAt(code, k4, after) /\ k4 \in Nat /\ k4 + 2 = k5
       /\ HasAt(code, k3, second) /\ k3 \in Nat /\ k3 + 1 = k4
  BY <1>13, <1>14, <1>15 DEF EndsAt
<1>20. /\ HasAt(code, k2, z) /\ k2 \in Nat /\ k2 + m = k3
       /\ HasAt(code, k1, there) /\ k1 \in Nat /\ k1 + 2 = k2
       /\ HasAt(code, k0, first) /\ k0 \in Nat /\ k0 + 1 = k1 /\ Spans(code, p, x, k0)
  BY <1>16, <1>17, <1>18 DEF EndsAt
<1> HIDE DEF k0, k1, k2, k3, k4, k5
<1>21. k0 = p + l /\ HasAt(code, p, x)
  BY <1>20 DEF Spans, l
<1>22. b = k2 /\ b = k0 + 3 /\ p <= k0 /\ b <= k3 /\ c = k3 + 3 /\ c = k5 /\ d = r /\ c <= r
  <2>1. k2 = k0 + 3 /\ k3 = k2 + m /\ k5 = k3 + 3
    BY <1>5, <1>19, <1>20
  <2>2. b = k2
    BY <1>0, <1>3, <1>4, <1>20, <1>21, <2>1
  <2>3. c = k5
    BY <1>3, <1>5, <2>1, <2>2
  <2>4. d = r
    BY <1>3, <1>19, <2>3
  <2> QED BY <1>0, <1>3, <1>4, <1>5, <1>6, <1>19, <1>20, <1>21, <2>1, <2>2, <2>3, <2>4
<1>23. r <= Len(code)
  BY <1>12, <1>19 DEF HasAt
<1>24. c <= Len(code)
  <2>1. Len(code) \in Nat
    BY <1>0, CodesJoin
  <2> QED BY <1>6, <1>19, <1>22, <1>23, <2>1
<1>25. Fits(c, 2) /\ Fits(r, 2)
  BY <1>0, <1>6, <1>19, <1>23, <1>24, TargetFits
<1>26. OperandBytes("If_goto") = 2 /\ OperandBytes("Goto") = 2
  BY OperandSizes
<1>27. HasOperation(code, k0, "If_goto", c) /\ HasOperation(code, k3, "Goto", r)
  <2>1. HasAt(code, k0 + 1, BigEndian(c, 2)) /\ HasAt(code, k3 + 1, BigEndian(r, 2))
    BY <1>19, <1>20, <1>22 DEF there, after
  <2>2. HasAt(code, k0, Byte("If_goto")) /\ HasAt(code, k3, Byte("Goto"))
    BY <1>19, <1>20 DEF first, second
  <2> QED BY <1>25, <1>26, <2>1, <2>2 DEF HasOperation
<1>28. /\ HasAt(code, p, x) /\ k0 = p + Len(x)
       /\ HasAt(code, b, z) /\ k3 = b + Len(z)
       /\ HasAt(code, c, y) /\ r = c + Len(y)
  BY <1>12, <1>19, <1>20, <1>21, <1>22
<1>29. /\ k0 \in Nat /\ b \in Nat /\ k3 \in Nat /\ c \in Nat /\ r \in Nat
       /\ p <= k0 /\ b = k0 + 3 /\ b <= k3 /\ c = k3 + 3 /\ c <= r
  BY <1>5, <1>6, <1>19, <1>20, <1>22
<1> QED BY <1>27, <1>28, <1>29, Zenon DEF IsBranching, x, y, z

(* A conditional jumps over the branch it does not take. *)
LEMMA IfComputes ==
    ASSUME NEW states, NEW code, NEW env, NEW tree, NEW p, NEW s, NEW r,
           ComesTo(states, code, env, tree, p, s, r), tree.form = "if",
           PartsCompute(states, code, env, tree)
    PROVE  Arrives(states, r, s, Meaning(tree, env, ValueOf(env)))
<1> DEFINE v == ValueOf(env)[tree.x]
           w == ValueOf(env)[tree.y]
           u == ValueOf(env)[tree.z]
           value == Meaning(tree, env, ValueOf(env))
<1>0. /\ Runs(states, code, env) /\ p \in Nat /\ s \in Seq(Word) /\ Reached(states, p, s)
      /\ code \in Codes /\ IsRun(states, code, env)
  BY DEF ComesTo, Runs
<1>1. /\ Part(states, code, env, tree.x) /\ Part(states, code, env, tree.y)
      /\ Part(states, code, env, tree.z)
  BY DEF PartsCompute
<1>2. value = CASE v = Missing -> Missing
                [] v = 0 -> u
                [] v \notin {0, Missing} -> w
  BY DEF Meaning
<1>3. PICK q, b, k, c :
        /\ q \in Nat /\ b \in Nat /\ k \in Nat /\ c \in Nat /\ r \in Nat
        /\ p <= q /\ b = q + 3 /\ b <= k /\ c = k + 3 /\ c <= r
        /\ HasAt(code, p, CodeOf[<< tree.x, p >>]) /\ q = p + Len(CodeOf[<< tree.x, p >>])
        /\ HasOperation(code, q, "If_goto", c)
        /\ HasAt(code, b, CodeOf[<< tree.z, b >>]) /\ k = b + Len(CodeOf[<< tree.z, b >>])
        /\ HasOperation(code, k, "Goto", r)
        /\ HasAt(code, c, CodeOf[<< tree.y, c >>]) /\ r = c + Len(CodeOf[<< tree.y, c >>])
  <2>1. IsBranching(code, env, tree, p, r)
    BY Branches
  <2> QED BY <2>1, Zenon DEF IsBranching
<1>4. v \in Answers /\ w \in Answers /\ u \in Answers
  BY <1>0, <1>1, ValueUnfolds DEF Part, Runs
<1>5. Arrives(states, q, s, v)
  BY <1>0, <1>1, <1>3, PartArrives
<1>6. /\ q \in Nat /\ b \in Nat /\ k \in Nat /\ c \in Nat /\ r \in Nat
      /\ q < b /\ q < c /\ k < r /\ q <= r /\ k <= r
  <2>1. /\ q \in Nat /\ b \in Nat /\ k \in Nat /\ c \in Nat /\ r \in Nat
        /\ b = q + 3 /\ b <= k /\ c = k + 3 /\ c <= r
    BY <1>3, Zenon
  <2>2. b \in Nat /\ q < b /\ c = k + 3 /\ k < c
    BY <2>1
  <2> QED BY <2>1, <2>2
<1>9. Missing # 0
  <2>1. 0 \in Word
    BY WordSize DEF Word
  <2> QED BY <2>1, MissingIsNoWord
<1> HIDE DEF v, w, u, value
<1>7. CASE v = Missing
  <2>1. Failed(states, q)
    BY <1>5, <1>7 DEF Arrives
  <2>2. Arrives(states, r, s, Missing)
    BY <1>3, <1>6, <2>1, MissingArrives
  <2>3. value = Missing
    BY <1>2, <1>7, <1>9
  <2> QED BY <2>2, <2>3 DEF value
<1>8. CASE v # Missing
  <2>1. v \in Word /\ Reached(states, q, s \o << v >>)
    BY <1>4, <1>5, <1>8 DEF Arrives, Answers
  <2>2. CASE v = 0
    <3>1. Goes(code, env, q, s \o << v >>, b, s)
      BY <1>0, <1>3, <2>1, <2>2, JumpSteps
    <3>2. Reached(states, b, s)
      BY <1>0, <1>6, <2>1, <3>1, Advances
    <3>3. Arrives(states, k, s, u)
      BY <1>0, <1>1, <1>3, <3>2, PartArrives DEF u
    <3>4. value = u
      BY <1>2, <1>8, <2>2
    <3>5. CASE u = Missing
      <4>1. Failed(states, k)
        BY <3>3, <3>5 DEF Arrives
      <4>2. Arrives(states, r, s, Missing)
        BY <1>3, <1>6, <4>1, MissingArrives
      <4> QED BY <3>4, <3>5, <4>2 DEF value
    <3>6. CASE u # Missing
      <4> DEFINE t == s \o << u >>
      <4>1. Reached(states, k, t) /\ u \in Word
        BY <1>4, <3>3, <3>6 DEF Arrives, Answers
      <4>2. t \in Seq(Word)
        BY <1>0, <4>1, TopElements
      <4> HIDE DEF t
      <4>3. Goes(code, env, k, t, r, t)
        BY <1>0, <1>3, <4>1, <4>2, JumpSteps
      <4>4. Reached(states, r, t)
        BY <1>0, <1>6, <4>1, <4>3, Advances
      <4>5. Arrives(states, r, s, u)
        BY <3>6, <4>4 DEF Arrives, t
      <4> QED BY <3>4, <4>5 DEF value
    <3> QED BY <3>5, <3>6
  <2>3. CASE v # 0
    <3>1. Goes(code, env, q, s \o << v >>, c, s)
      BY <1>0, <1>3, <2>1, <2>3, JumpSteps
    <3>2. Reached(states, c, s)
      BY <1>0, <1>6, <2>1, <3>1, Advances
    <3>3. Arrives(states, r, s, w)
      BY <1>0, <1>1, <1>3, <3>2, PartArrives DEF w
    <3>4. value = w
      BY <1>2, <1>8, <2>3
    <3> QED BY <3>3, <3>4 DEF value
  <2> QED BY <2>2, <2>3
<1> QED BY <1>7, <1>8

(* A tree in which no operation minds the order of its operands, and its parts. *)
LEMMA OrderlessParts ==
    ASSUME NEW tree \in Orderless
    PROVE  /\ tree \in Forest
           /\ tree.form \in {"binary", "swapped", "picked", "rotated"} => tree.op \in Commuting
           /\ tree.form \notin {"const", "reg"} => tree.x \in Orderless
           /\ tree.form \in {"binary", "swapped", "picked", "rotated", "if"} =>
                  tree.y \in Orderless
           /\ tree.form \in {"rotated", "if"} => tree.z \in Orderless
<1>1. tree \in Forest /\ WellFormed(tree)
  BY OrderlessAssumption, ForestAssumption
<1>2. \A part \in {"x", "y", "z"} \cap DOMAIN tree : tree[part] \in Orderless
  BY OrderlessAssumption
<1>3. tree.form \notin {"const", "reg"} => "x" \in DOMAIN tree
  BY <1>1 DEF WellFormed
<1>4. tree.form \in {"binary", "swapped", "picked", "rotated", "if"} => "y" \in DOMAIN tree
  BY <1>1 DEF WellFormed
<1>5. tree.form \in {"rotated", "if"} => "z" \in DOMAIN tree
  BY <1>1 DEF WellFormed
<1>6. tree.form \in {"binary", "swapped", "picked", "rotated"} => tree.op \in Commuting
  BY OrderlessAssumption
<1> QED BY <1>1, <1>2, <1>3, <1>4, <1>5, <1>6

(* A tree is computed if the trees of smaller depth are. *)
LEMMA TreeComputes ==
    ASSUME NEW states, NEW code, NEW env, Runs(states, code, env), NEW tree \in Orderless,
           \A t \in Orderless : Below(tree, t) => Part(states, code, env, t)
    PROVE  Part(states, code, env, tree)
<1> DEFINE value == Meaning(tree, env, ValueOf(env))
           text(p) == Assembled(tree, p, CodeOf)
<1>1. tree \in Forest /\ IsTree(tree)
  BY OrderlessParts, TreeForms
<1>2. /\ tree.form \notin {"const", "reg"} => Part(states, code, env, tree.x)
      /\ PartsCompute(states, code, env, tree)
  BY <1>1, OrderlessParts DEF IsTree, PartsCompute
<1>3. ValueOf(env)[tree] = value
  BY <1>1, ValueUnfolds DEF Runs
<1>4. ASSUME NEW p \in Nat, NEW s \in Seq(Word), Reached(states, p, s), HasAt(code, p, text(p)),
             text(p) \in Codes
      PROVE  Arrives(states, p + Len(text(p)), s, value)
  <2> DEFINE r == p + Len(text(p))
  <2>1. CASE tree.form \in {"const", "reg"}
    BY <1>1, <1>4, <2>1, LeafComputes
  <2>2. CASE tree.form \in {"unary", "extend"}
    BY <1>1, <1>2, <1>4, <2>2, UnaryComputes
  <2>3. ComesTo(states, code, env, tree, p, s, r)
    BY <1>1, <1>4 DEF ComesTo, Spans
  <2> HIDE DEF r, value, text
  <2>4. CASE tree.form = "twice"
    BY <1>2, <2>3, <2>4, TwiceComputes DEF r, value
  <2>5. CASE tree.form \in {"binary", "swapped"}
    BY <1>2, <2>3, <2>5, OrderlessParts, BinaryComputes DEF r, value
  <2>6. CASE tree.form = "picked"
    BY <1>2, <2>3, <2>6, OrderlessParts, PickedComputes DEF r, value
  <2>7. CASE tree.form = "rotated"
    BY <1>2, <2>3, <2>7, OrderlessParts, RotatedComputes DEF r, value
  <2>8. CASE tree.form = "if"
    BY <1>2, <2>3, <2>8, IfComputes DEF r, value
  <2>9. tree.form \in {"const", "reg", "unary", "extend", "twice", "binary", "swapped",
                       "picked", "rotated", "if"}
    BY <1>1 DEF IsTree
  <2> QED BY <2>1, <2>2, <2>4, <2>5, <2>6, <2>7, <2>8, <2>9 DEF r, value
<1> HIDE DEF value
<1>5. ASSUME NEW p \in Nat PROVE CodeOf[<< tree, p >>] = text(p) /\ text(p) \in Codes
  BY <1>1, CodeUnfolds DEF Places
<1>6. Computes(states, code, env, tree, value)
  <2> HIDE DEF text
  <2> QED BY <1>4, <1>5 DEF Computes
<1> QED BY <1>1, <1>3, <1>6 DEF Part

(* Every tree that minds no order is computed, by induction on its depth. *)
LEMMA TreesCompute ==
    ASSUME NEW states, NEW code, NEW env, Runs(states, code, env)
    PROVE  \A tree \in Orderless : Part(states, code, env, tree)
<1> DEFINE computes(tree) == Part(states, code, env, tree)
           S == {n \in Nat : \A tree \in Orderless : Depth[tree] < n => computes(tree)}
<1>1. \A tree \in Orderless : Depth[tree] \in Nat
  BY TreeForms, OrderlessParts
<1>2. 0 \in S
  BY <1>1
<1>3. ASSUME NEW n \in Nat, n \in S PROVE n + 1 \in S
  <2>1. ASSUME NEW tree \in Orderless, Depth[tree] < n + 1 PROVE computes(tree)
    <3>1. ASSUME NEW t \in Orderless, Below(tree, t) PROVE computes(t)
      <4>1. Depth[t] < n
        BY <1>1, <2>1, <3>1 DEF Below
      <4> QED BY <1>3, <4>1
    <3> QED BY <3>1, TreeComputes
  <2> HIDE DEF computes
  <2> QED BY <2>1
<1>4. Nat \subseteq S
  <2> HIDE DEF S
  <2> QED BY <1>2, <1>3, SetInduction
<1>5. ASSUME NEW tree \in Orderless PROVE computes(tree)
  <2>1. Depth[tree] + 1 \in S /\ Depth[tree] < Depth[tree] + 1
    <3> HIDE DEF S
    <3> QED BY <1>1, <1>4
  <2> QED BY <2>1
<1> QED BY <1>5

(* A run that has ended stays so. *)
LEMMA EndStays ==
    ASSUME NEW states, NEW code, NEW env, IsRun(states, code, env), NEW i \in Nat,
           states[i].outcome # "running", NEW n \in Nat, i <= n
    PROVE  states[n] = states[i]
<1> DEFINE S == {k \in Nat : states[i + k] = states[i]}
<1>1. 0 \in S
  OBVIOUS
<1>2. ASSUME NEW k \in Nat, k \in S PROVE k + 1 \in S
  <2>1. i + k \in Nat /\ (i + k) + 1 = i + (k + 1)
    OBVIOUS
  <2>2. states[(i + k) + 1] = Turn(states[i + k], code, env) /\ states[i + k] = states[i]
    BY <1>2, <2>1 DEF IsRun
  <2>3. states[i + (k + 1)] = states[i]
    BY <2>1, <2>2 DEF Turn
  <2> QED BY <2>3
<1>3. n - i \in S
  <2>1. n - i \in Nat
    OBVIOUS
  <2> HIDE DEF S
  <2> QED BY <1>1, <1>2, <2>1, SetInduction
<1>4. i + (n - i) = n
  OBVIOUS
<1> QED BY <1>3, <1>4

(* What the loop comes to by the end of the code of a tree. *)
LEMMA CompiledEvaluates ==
    ASSUME NEW tree \in Orderless, NEW env, IsSeen(env), NEW code, code = Compiled(tree),
           Len(code) < 2^16, code \in Codes
    PROVE  Evaluates(tree, code, env)
<1> DEFINE c == CodeOf[<< tree, 0 >>]
           k == Len(c)
           n == Len(code)
           v == ValueOf(env)[tree]
           s == << >>
           end == Byte("End")
<1>0. tree \in Forest
  BY OrderlessParts
<1>1. PICK states : IsRun(states, code, env)
  BY RunExists
<1>2. Runs(states, code, env)
  BY <1>1 DEF Runs
<1>3. c \in Codes /\ Code(tree, 0) = c
  BY <1>0, CodeUnfolds DEF Places
<1>4. end \in Codes /\ Len(end) = 1
  BY CodesJoin DEF OtherNames
<1>5. k \in Nat /\ n \in Nat /\ n = k + 1
  <2>1. code = c \o end
    BY <1>3 DEF Compiled
  <2> HIDE DEF c, end
  <2>2. Len(c \o end) = Len(c) + Len(end) /\ Len(c) \in Nat
    BY <1>3, <1>4, CodesJoin
  <2> QED BY <1>4, <2>1, <2>2
<1> HIDE DEF k, n
<1>6. HasAt(code, 0, c) /\ HasAt(code, k, end)
  <2>1. code = c \o end
    BY <1>3 DEF Compiled
  <2> HIDE DEF c, end
  <2>2. IsJoined(code, c, end)
    BY <1>3, <1>4, <2>1 DEF IsJoined
  <2>3. HasAt(code, 0, code)
    BY <1>5 DEF HasAt, n
  <2>4. IsCut(code, 0, code, c, end)
    BY <2>2, <2>3, CutCode
  <2>5. 0 + Len(c) = k
    BY <1>5 DEF k
  <2> QED BY <2>4, <2>5 DEF IsCut
<1>7. s \in Seq(Word) /\ Reached(states, 0, s)
  <2>1. Begin = At(0, << >>)
    BY DEF Begin, At
  <2>2. states[0] = Begin
    BY <1>1 DEF IsRun
  <2> QED BY <2>1, <2>2, TopTypes DEF Reached
<1>8. v \in Answers /\ Value(tree, env) = v
  BY <1>0, ValueUnfolds
<1>9. Arrives(states, k, s, v)
  <2>1. Part(states, code, env, tree)
    BY <1>2, TreesCompute
  <2>2. 0 + Len(CodeOf[<< tree, 0 >>]) = k
    BY <1>5 DEF k
  <2> HIDE DEF c, s, v
  <2> QED BY <1>2, <1>6, <1>7, <2>1, <2>2, PartArrives DEF c, v
<1>10. states[n] = Executed(code, env, n)
  BY <1>1, <1>5 DEF IsRun
<1> HIDE DEF c, v
<1>11. CASE v = Missing
  <2>1. Failed(states, k) /\ k <= n
    BY <1>5, <1>9, <1>11 DEF Arrives
  <2>2. Failed(states, n)
    BY <1>5, <2>1, FailedLater
  <2>3. IsFailure(states[n])
    BY <1>1, <1>5, <2>2, FailureStays
  <2> QED BY <1>8, <1>10, <1>11, <2>3 DEF Evaluates, IsFailure, n
<1>12. CASE v # Missing
  <2> DEFINE t == s \o << v >>
  <2>1. v \in Word /\ Reached(states, k, t)
    BY <1>8, <1>9, <1>12 DEF Arrives, Answers
  <2>2. PICK i \in 0 .. k : states[i] = At(k, t)
    BY <2>1 DEF Reached
  <2>3. i \in Nat /\ i + 1 \in Nat /\ i + 1 <= n
    BY <1>5, <2>2
  <2>4. HasOperation(code, k, "End", 0)
    <3>1. OperandBytes("End") = 0
      BY OperandSizes
    <3> QED BY <1>5, <1>6, <3>1, PlainOperation DEF end
  <2> DEFINE e == Step(At(k, t), code, env)
  <2>5. e.outcome = "value" /\ e.stack = t
    <3>1. EndedWith(e, t)
      <4> HIDE DEF s
      <4> QED BY <1>5, <1>7, <2>1, <2>4, EndStep
    <3> HIDE DEF e, t
    <3> QED BY <3>1 DEF EndedWith
  <2>6. states[i + 1] = e
    <3>1. states[i + 1] = Turn(states[i], code, env)
      BY <1>1, <2>3 DEF IsRun
    <3>2. At(k, t).outcome = "running"
      BY DEF At
    <3> QED BY <2>2, <3>1, <3>2 DEF Turn
  <2>7. t = << v >>
    BY <2>1
  <2> HIDE DEF e, t
  <2>8. states[n] = e
    BY <1>1, <1>5, <2>3, <2>5, <2>6, EndStays
  <2> QED BY <1>8, <1>10, <1>12, <2>5, <2>7, <2>8 DEF Evaluates, n
<1> QED BY <1>11, <1>12

(* A state of the loop that evaluates some code. *)
IsTurnOf(e, code, env) == \E k \in Nat : e = Executed(code, env, k)

(* The loop begins with the first state of its run. *)
LEMMA BeginIsTurn ==
    ASSUME NEW code \in Codes, NEW env, IsSeen(env)
    PROVE  IsTurnOf(Begin, code, env)
<1>1. PICK states : IsRun(states, code, env)
  BY RunExists
<1> QED BY <1>1 DEF IsRun, IsTurnOf

(* A turn takes it to the next. *)
LEMMA StepIsTurn ==
    ASSUME NEW code \in Codes, NEW env, IsSeen(env), NEW e, IsTurnOf(e, code, env),
           e.outcome = "running"
    PROVE  IsTurnOf(Step(e, code, env), code, env)
<1>1. PICK states : IsRun(states, code, env)
  BY RunExists
<1>2. PICK k \in Nat : e = Executed(code, env, k)
  BY DEF IsTurnOf
<1>3. k + 1 \in Nat
  OBVIOUS
<1>4. states[k] = e /\ states[k + 1] = Turn(e, code, env)
      /\ states[k + 1] = Executed(code, env, k + 1)
  BY <1>1, <1>2, <1>3 DEF IsRun
<1>5. Turn(e, code, env) = Step(e, code, env)
  BY DEF Turn
<1> QED BY <1>3, <1>4, <1>5 DEF IsTurnOf
=============================================================================
