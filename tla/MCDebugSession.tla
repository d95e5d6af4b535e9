--------------------------- MODULE MCDebugSession ---------------------------
(***************************************************************************)
(* DebugSession with a GDB that issues every kind of command.              *)
(***************************************************************************)
EXTENDS DebugSession

MCHostKinds == {}
MCCommands == Commands
MCRuns == Runs
=============================================================================
