--------------------------- MODULE MCTimerProgram ---------------------------
(***************************************************************************)
(* TimerProgram with registers of three bits, so that the low half wraps   *)
(* every eight cycles, also between the two loads of a read and between    *)
(* the stores that set a deadline.                                         *)
(***************************************************************************)
EXTENDS TimerProgram

MCDelays == {1, 6, 9}
=============================================================================
