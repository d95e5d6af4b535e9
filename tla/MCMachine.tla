----------------------------- MODULE MCMachine ------------------------------
(***************************************************************************)
(* InterruptedProgram on a machine of eight-bit words with three registers *)
(* and two words of RAM.                                                   *)
(***************************************************************************)
EXTENDS InterruptedProgram

MCRegister == 0 .. 2
MCData == {0, 4}
MCFillValues == {0, 1}

MCEncoding == [a \in DOMAIN Image |-> a]
=============================================================================
