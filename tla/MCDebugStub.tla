---------------------------- MODULE MCDebugStub -----------------------------
(***************************************************************************)
(* DebugStub against a host that may send anything at any time, over two   *)
(* connections.                                                            *)
(***************************************************************************)
EXTENDS DebugStub

MCHostKinds == Kinds
=============================================================================
