----------------------------- MODULE MCDebugger -----------------------------
(***************************************************************************)
(* DebuggedConditions on a machine of eight-bit words: a program of nine   *)
(* instructions, the breakpoints and watchpoints GDB sets in it, and trees *)
(* that use every bytecode.                                                *)
(***************************************************************************)
EXTENDS DebuggedConditions, Programs, FiniteSetsExt, TLC

MCRegister == 0 .. 2
MCData == {240, 248}
MCFillValues == {0}
MCIndeterminate == {0, 240}

(* Traps go to address 0, where the program starts again. *)
Program == <<
    CsrI("Set", 0, "mstatus", 8), Upper("lui", 1, 240), Store(2, 1, 0), Load(2, 1, 0),
    Op("Div", 2, 2, 1), Load(1, 0, 248), Branch("Lt", 2, 0, 8), Other("ecall"),
    Jal(0, -28) >>

MCImage == [a \in Addresses(0, Program) |-> Program[a \div 4 + 1]]
MCEncoding == [a \in DOMAIN MCImage |-> 255 - a]

C8(value) == Const("Const8", value)

(* Division by zero, yes or no, as r2 has it; and whether what the program  *)
(* stores has a bit of pc, read in several ways.                            *)
R2IsOdd == Binary("Bit_and", Twice("Div_unsigned", Reg(2)), Reg(2))
StoredMeetsPc ==
    IfThenElse(Binary("Bit_and", Unary("Ref8", C8(240)), Reg(PcNumber)),
               Binary("Equal", Unary("Ref32", C8(240)), Unary("Ref16", C8(240))), C8(0))

(* Operands: registers, memory, status registers by two numbers, nothing. *)
Leaves ==
    {Reg(1), Reg(128 + 768), Reg(4096 + 128 + 772), Reg(33), Const("Const16", 129),
     Const("Const32", 2), Unary("Ref8", Reg(1)), Unary("Ref16", C8(247))}

MCTrees ==
    {R2IsOdd, StoredMeetsPc}
    \cup { Binary(op, Reg(2), C8(129)) : op \in DOMAIN BinaryOperations }
    \cup { Binary(op, Reg(1), Reg(2)) : op \in DOMAIN BinaryOperations }
    \cup { Extend(op, n, Unary("Bit_not", Reg(2))) : op \in {"Ext", "Zero_ext"}, n \in {1, 7} }
    \cup { IfThenElse(x, Twice("Mul", x), Unary("Log_not", Reg(2))) : x \in Leaves }
    \cup { Swapped("Sub", Reg(1), Reg(2)), Picked("Lsh", Reg(1), Reg(2)),
           Rotated("Sub", Reg(1), C8(3), Reg(2)) }
    \cup { Swapped("Add", Reg(1), Reg(2)), Picked("Mul", Reg(1), Reg(2)),
           Rotated("Equal", Reg(1), C8(3), Reg(2)) }

(* The parts of a tree, and how deep it is. *)
Parts(tree) == { tree[field] : field \in DOMAIN tree \cap {"x", "y", "z"} }

RECURSIVE Subtrees(_), DepthOf(_), MindsNoOrder(_)
Subtrees(tree) == {tree} \cup UNION { Subtrees(t) : t \in Parts(tree) }
DepthOf(tree) == 1 + Max({0} \cup { DepthOf(t) : t \in Parts(tree) })
MindsNoOrder(tree) ==
    /\ tree.form \in {"binary", "swapped", "picked", "rotated"} => tree.op \in Commuting
    /\ \A t \in Parts(tree) : MindsNoOrder(t)

MCForest == UNION { Subtrees(t) : t \in MCTrees }

DepthTable == [tree \in MCForest |-> DepthOf(tree)]

MCDepth == DepthTable

OrderlessTable == { tree \in MCForest : MindsNoOrder(tree) }

MCOrderless == OrderlessTable

(* Conditions that no tree compiles to. *)
Loop == [form |-> "loop"]
Unsafe == [form |-> "unsafe"]
MCNoCondition == [form |-> "none"]

MCConditions == MCTrees \cup {Loop, Unsafe}

(* Tables: what a .cfg substitutes for a constant is evaluated at each use. *)
CodeTable ==
    [c \in MCTrees |-> Compiled(c)]
    @@ Loop :> << Bytecode.Goto, 0, 0 >>
    @@ Unsafe :> << Bytecode.Const8, 0, Bytecode.Const8, 1, Bytecode.Div_unsigned >>

MCBytesOf == CodeTable

(* Z and z commands. *)
Request(type, address, length, cond) ==
    [type |-> type, address |-> address, length |-> length, cond |-> cond]

Watch(type, address, length) == Request(type, address, length, MCNoCondition)

MCRequests ==
    { Request(1, 28, 4, c) : c \in {StoredMeetsPc, Unsafe} }
    \cup { Request(1, 0, 4, Loop), Request(1, 4, 4, R2IsOdd),
           Request(1, 12, 4, MCNoCondition), Request(1, 16, 2, MCNoCondition),
           Request(0, 16, 4, MCNoCondition), Watch(5, 16, 4),
           Watch(2, 240, 4), Watch(3, 241, 2), Watch(4, 244, 2), Watch(3, 246, 3),
           Watch(2, 252, 4), Watch(4, 248, 0) }

(* One register of each kind, and all of them with G. *)
P(number, value) == << [number |-> number, value |-> value] >>
MCWrites ==
    { P(2, v) : v \in {128, 255} }
    \cup { P(128 + 772, 128), P(128 + 3860, 1), P(33, 1),
           P(0, 1) \o P(1, 3) \o P(2, 5) \o P(32, 12) }

MCResumeAddresses == {16}
MCStepCounts == {0, 2}
=============================================================================
