---------------------------- MODULE UserProgram -----------------------------
(***************************************************************************)
(* What a program sees of the machine when its trap handler is transparent *)
(* and skips every instruction that faults or calls the environment: the   *)
(* instructions one after the other, no interrupts, no handler, no CSRs.   *)
(***************************************************************************)
EXTENDS Instructions

CONSTANTS Image, ResetAddress, FillValues

VARIABLES pc, registers, memory

vars == << pc, registers, memory >>

Init ==
    /\ pc = ResetAddress
    /\ registers = [r \in Register |-> 0]
    /\ memory \in [Data -> FillValues]

Step(d) ==
    /\ memory' = Stored(d, memory)
    /\ registers' = WrittenBack(d, pc, registers, LoadedValue(d, memory), 0)
    /\ pc' = NextPc(d, pc)

Legal == pc \in DOMAIN Image /\ Image[pc].op # "illegal"

Current == Decoded(Image[pc], registers, pc)

Faults == ~ Legal \/ Current.ecall \/ AccessFails(Current)
              \/ Current.access.address \in {"mhartid", "unimplemented"}

Execute == ~ Faults /\ Step(Current)

Skip ==
    /\ Faults
    /\ pc' = Plus(pc, 4)
    /\ UNCHANGED << registers, memory >>

Spec == Init /\ [][Execute \/ Skip]_vars
=============================================================================
