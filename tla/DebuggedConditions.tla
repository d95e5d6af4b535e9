------------------------- MODULE DebuggedConditions -------------------------
(***************************************************************************)
(* The machine under the debugger with the conditions of its breakpoints   *)
(* given as trees: what the machine does of a condition against what the   *)
(* tree means.                                                             *)
(***************************************************************************)
EXTENDS DebuggedMachine, ConditionTrees

CONSTANT Trees      \* the conditions that are compiled from trees: these trees

ASSUME TreesAssumption ==
    /\ Trees \subseteq Conditions \cap Forest
    /\ \A tree \in Trees : BytesOf[tree] = Compiled(tree) /\ Len(BytesOf[tree]) < 2^16

-----------------------------------------------------------------------------
(* Properties *)

(* Those of the trees that mean the same in either order of operands. *)
OrderlessTrees == Trees \cap Orderless

(***************************************************************************)
(* Whatever the machine's state, a compiled condition in which the order   *)
(* of operands does not matter computes its tree (expression.cpp:7-388).   *)
(***************************************************************************)
ConditionsCompute ==
    Standing => \A tree \in OrderlessTrees : Evaluates(tree, BytesOf[tree], Seen)

(***************************************************************************)
(* Every compiled condition computes its tree: the operand that is pushed  *)
(* first is the first operand, as in "10 / 0 -> division by zero"          *)
(* (lib/test/gdb-stub/expression.cpp:107-111).                             *)
(***************************************************************************)
OperandsInOrder ==
    Standing => \A tree \in Trees : Evaluates(tree, BytesOf[tree], Seen)

(* The condition holds, by its tree. *)
Holds(cond) ==
    cond = NoCondition \/ (cond \in OrderlessTrees /\ Value(cond, Seen) \notin {0, Missing})

(***************************************************************************)
(* No instruction under a breakpoint whose condition holds is executed,    *)
(* but the first of a run (emulator-debug.cpp:37-41, 414-442), and a run   *)
(* reports a breakpoint only where there is one.  Of a condition in which  *)
(* the order of operands matters nothing is said.                          *)
(***************************************************************************)
BreakpointsStop ==
    [][/\ phase = "tick" /\ phase' = "check" =>
              fresh \/ ~ (pc \in DOMAIN hw_breakpoints /\ Holds(hw_breakpoints[pc]))
       /\ reply # "hwbreak" /\ reply' = "hwbreak" =>
              /\ pc \in DOMAIN hw_breakpoints
              /\ hw_breakpoints[pc] \in OrderlessTrees \cup {NoCondition}
                     => Holds(hw_breakpoints[pc])]_debugged

(***************************************************************************)
(* A run that is interrupted or has its cycles counted ends, unless the    *)
(* condition of a breakpoint does not (emulator-debug.cpp:414-472).        *)
(***************************************************************************)
EvaluatesForever == phase = "evaluate" /\ hw_breakpoints[pc] \notin Trees

RunsEnd ==
    (phase # "stopped" /\ (interrupt \/ budget # Unlimited))
        ~> (phase \in {"stopped", "killed"} \/ EvaluatesForever)
=============================================================================
