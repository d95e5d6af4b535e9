--------------------------- MODULE ConditionTrees ---------------------------
(***************************************************************************)
(* Conditions as trees: the bytecode they compile to, and what they mean.  *)
(* The operands of an operation are pushed in their order, which is how    *)
(* lib/test/gdb-stub/expression.cpp:107-111 writes 10 / 0: first 10, then  *)
(* 0.  Compiled code jumps forward only.                                   *)
(***************************************************************************)
EXTENDS Expressions

Const(op, value) == [form |-> "const", op |-> op, value |-> value]
Reg(number) == [form |-> "reg", number |-> number]
Unary(op, x) == [form |-> "unary", op |-> op, x |-> x]
Extend(op, n, x) == [form |-> "extend", op |-> op, n |-> n, x |-> x]
Binary(op, x, y) == [form |-> "binary", op |-> op, x |-> x, y |-> y]
(* The same with the operands pushed the other way round and put in order   *)
(* by Swap or Pick, with two uses of one operand, and with three operands.  *)
Swapped(op, x, y) == [form |-> "swapped", op |-> op, x |-> x, y |-> y]
Twice(op, x) == [form |-> "twice", op |-> op, x |-> x]
Picked(op, x, y) == [form |-> "picked", op |-> op, x |-> x, y |-> y]
Rotated(op, x, y, z) == [form |-> "rotated", op |-> op, x |-> x, y |-> y, z |-> z]
IfThenElse(x, y, z) == [form |-> "if", x |-> x, y |-> y, z |-> z]

CONSTANT Depth      \* how deep a tree is, of every tree and its parts

Forest == DOMAIN Depth

(* The trees that have code: constants, numbers and widths that fit. *)
WellFormed(tree) ==
    LET part == { t \in Forest : Depth[t] < Depth[tree] }
        two == DOMAIN BinaryOperations
    IN  \/ /\ tree \in [form : {"const"}, op : {"Const8", "Const16", "Const32"}, value : Nat]
           /\ tree.value \div 256^(OperandBytes(tree.op) - 1) < 256
        \/ tree \in [form : {"reg"}, number : 0 .. 2^16 - 1]
        \/ tree \in [form : {"unary"}, op : {"Log_not", "Bit_not", "Ref8", "Ref16", "Ref32"},
                     x : part]
        \/ tree \in [form : {"extend"}, op : {"Ext", "Zero_ext"},
                     n : { n \in 1 .. 255 : n < XLEN }, x : part]
        \/ tree \in [form : {"twice"}, op : two, x : part]
        \/ tree \in [form : {"binary", "swapped", "picked"}, op : two, x : part, y : part]
        \/ tree \in [form : {"rotated"}, op : two, x : part, y : part, z : part]
        \/ tree \in [form : {"if"}, x : part, y : part, z : part]

ASSUME ForestAssumption ==
    /\ Depth \in [Forest -> Nat \ {0}]
    /\ \A tree \in Forest : WellFormed(tree)

-----------------------------------------------------------------------------
(* Code *)

Byte(op) == << Bytecode[op] >>

BigEndian(n, bytes) == [i \in 1 .. bytes |-> (n \div 256^(bytes - i)) % 256]

(* The code of a tree that is placed at a position, given that of its parts. *)
Assembled(tree, at, code) ==
    CASE tree.form = "const"   -> Byte(tree.op) \o BigEndian(tree.value, OperandBytes(tree.op))
      [] tree.form = "reg"     -> Byte("Reg") \o BigEndian(tree.number, 2)
      [] tree.form = "unary"   -> code[<< tree.x, at >>] \o Byte(tree.op)
      [] tree.form = "extend"  -> code[<< tree.x, at >>] \o Byte(tree.op) \o << tree.n >>
      [] tree.form = "twice"   -> code[<< tree.x, at >>] \o Byte("Dup") \o Byte(tree.op)
      [] tree.form = "binary"  ->
             LET x == code[<< tree.x, at >>]
             IN  x \o code[<< tree.y, at + Len(x) >>] \o Byte(tree.op)
      [] tree.form = "swapped" ->
             LET y == code[<< tree.y, at >>]
             IN  y \o code[<< tree.x, at + Len(y) >>] \o Byte("Swap") \o Byte(tree.op)
      [] tree.form = "picked"  ->
             LET y == code[<< tree.y, at >>]
             IN  y \o code[<< tree.x, at + Len(y) >>] \o Byte("Pick") \o << 1 >>
                   \o Byte(tree.op) \o Byte("Swap") \o Byte("Pop")
      [] tree.form = "rotated" ->
             LET x == code[<< tree.x, at >>]
                 y == code[<< tree.y, at + Len(x) >>]
                 z == code[<< tree.z, at + Len(x) + Len(y) >>]
             IN  x \o y \o z \o Byte("Rot") \o Byte(tree.op) \o Byte(tree.op)
      [] tree.form = "if"      ->
             LET x == code[<< tree.x, at >>]
                 z == code[<< tree.z, at + Len(x) + 3 >>]
                 then == at + Len(x) + 3 + Len(z) + 3
                 y == code[<< tree.y, then >>]
             IN  x \o Byte("If_goto") \o BigEndian(then, 2) \o z
                   \o Byte("Goto") \o BigEndian(then + Len(y), 2) \o y

Code(tree, at) ==
    LET code[n \in 0 .. Depth[tree]] ==
            [place \in Forest \X Nat |->
                IF n = 0 THEN << >> ELSE Assembled(place[1], place[2], code[n - 1])]
    IN  code[Depth[tree]][<< tree, at >>]

Compiled(tree) == Code(tree, 0) \o Byte("End")

-----------------------------------------------------------------------------
(* The value of an operation, its operands in order; nothing is divided by 0. *)
Applied(op, x, y) ==
    IF Missing \in {x, y} \/ (op \in Divisions /\ y = 0) THEN Missing
    ELSE Computed(op, x, y)

AppliedTo(op, x, env) ==
    CASE x = Missing -> Missing
      [] x # Missing /\ op = "Log_not" -> BoolWord(x = 0)
      [] x # Missing /\ op = "Bit_not" -> Truncated(-x - 1)
      [] x # Missing /\ op = "Ref8"    -> MemoryValue(env, x, 1)
      [] x # Missing /\ op = "Ref16"   -> MemoryValue(env, x, 2)
      [] x # Missing /\ op = "Ref32"   -> MemoryValue(env, x, 4)

Extended(op, n, x) ==
    CASE x = Missing -> Missing
      [] x # Missing /\ op = "Zero_ext" -> x % 2^n
      [] x # Missing /\ op = "Ext" ->
             IF x % 2^n >= 2^(n - 1) THEN Truncated((x % 2^n) - 2^n) ELSE x % 2^n

(* What a condition evaluates to, given what its parts do; Missing if nothing. *)
Meaning(tree, env, value) ==
    CASE tree.form = "const"  -> Truncated(tree.value)
      [] tree.form = "reg"    -> RegisterValue(env, tree.number)
      [] tree.form = "unary"  -> AppliedTo(tree.op, value[tree.x], env)
      [] tree.form = "extend" -> Extended(tree.op, tree.n, value[tree.x])
      [] tree.form = "twice"  -> Applied(tree.op, value[tree.x], value[tree.x])
      [] tree.form \in {"binary", "swapped", "picked"} ->
             Applied(tree.op, value[tree.x], value[tree.y])
      [] tree.form = "rotated" ->
             Applied(tree.op, value[tree.z], Applied(tree.op, value[tree.x], value[tree.y]))
      [] tree.form = "if"     ->
             CASE value[tree.x] = Missing -> Missing
               [] value[tree.x] = 0 -> value[tree.z]
               [] value[tree.x] \notin {0, Missing} -> value[tree.y]

Value(tree, env) ==
    LET value[n \in 0 .. Depth[tree]] ==
            [t \in Forest |->
                IF n = 0 THEN Missing ELSE Meaning(t, env, value[n - 1])]
    IN  value[Depth[tree]][tree]

(***************************************************************************)
(* Trees in which no operation minds the order of its operands: what they  *)
(* mean does not rest on which operand is pushed first.                    *)
(***************************************************************************)
Commuting == {"Add", "Mul", "Bit_and", "Bit_or", "Bit_xor", "Equal"}

CONSTANT Orderless

ASSUME OrderlessAssumption ==
    /\ Orderless \subseteq Forest
    /\ \A tree \in Orderless :
          /\ tree.form \in {"binary", "swapped", "picked", "rotated"} => tree.op \in Commuting
          /\ \A part \in {"x", "y", "z"} \cap DOMAIN tree : tree[part] \in Orderless

-----------------------------------------------------------------------------
(* What the loop of execute() comes to within n turns. *)
Executed(code, env, n) ==
    LET state[i \in 0 .. n] ==
            IF i = 0 THEN Begin
            ELSE LET e == state[i - 1]
                 IN  IF e.outcome = "running" THEN Step(e, code, env) ELSE e
    IN  state[n]

(***************************************************************************)
(* A compiled condition ends, after no more turns than it has bytes, in    *)
(* the value of its tree if it has one, and if not in an error that        *)
(* execute() returns (expression.cpp:42-386).                              *)
(***************************************************************************)
Evaluates(tree, code, env) ==
    LET e == Executed(code, env, Len(code))
        value == Value(tree, env)
    IN  IF value = Missing THEN e.outcome \notin {"running", "value", "killed"}
        ELSE e.outcome = "value" /\ e.stack = << value >>
=============================================================================
