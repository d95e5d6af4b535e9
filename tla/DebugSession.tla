---------------------------- MODULE DebugSession ----------------------------
(***************************************************************************)
(* DebugStub with GDB at the other end: a client that keeps to the remote  *)
(* protocol.  It sends one command at a time, waits for its ACK and then   *)
(* for the response, acknowledges the response, and sends Ctrl-C only      *)
(* while it waits for a run to stop.  GDB is no part of the repository:    *)
(* this module says what the stub may rely on.                             *)
(***************************************************************************)
EXTENDS DebugStub

CONSTANTS
    GdbCommands,    \* the commands the user gives
    MaxInterrupts   \* bound: Ctrl-C per run

ASSUME GdbAssumption == GdbCommands \subseteq Commands /\ MaxInterrupts \in Nat

VARIABLES
    gdb,            \* what GDB is waiting for
    command,        \* its last command
    interrupts,     \* Ctrl-C sent since that command
    asked,          \* history: the kinds of command given so far
    clean           \* history: the present connection began with nothing left
                    \* of the one before

user == << gdb, command, interrupts, asked >>

client == << user, clean >>

sessionVars == << vars, client >>

ClientTypeOK ==
    /\ gdb \in {"off", "connecting", "idle", "sent", "waiting"}
    /\ command \in Commands \cup {"none"}
    /\ interrupts \in 0 .. MaxInterrupts
    /\ asked \subseteq Commands /\ clean \in BOOLEAN

SessionInit ==
    /\ Init
    /\ gdb = "off" /\ command = "none" /\ interrupts = 0 /\ asked = {}
    /\ clean = TRUE

-----------------------------------------------------------------------------

GdbSay(kinds) ==
    /\ inbound' = IF socket = "open"
                  THEN inbound \o [i \in DOMAIN kinds |-> OnConnection(kinds[i])]
                  ELSE inbound

GdbSend(kinds) ==
    /\ socket = "open"
    /\ GdbSay(kinds)
    /\ UNCHANGED << main, thread, queue, socket, backlog, connection, outbound >>

GdbConnect ==
    /\ gdb = "off" /\ pc # "exited"
    /\ HostConnect
    /\ gdb' = "connecting"
    /\ UNCHANGED << command, interrupts, asked, clean >>

(***************************************************************************)
(* GDB opens every session with an ACK of its own.                         *)
(***************************************************************************)
GdbGreet ==
    /\ gdb = "connecting"
    /\ GdbSend(<< "ack" >>)
    /\ gdb' = "idle"
    /\ UNCHANGED << command, interrupts, asked, clean, sent >>

GdbCommand ==
    /\ gdb = "idle" /\ sent < MaxItems
    /\ \E kind \in GdbCommands :
          /\ GdbSend(<< kind >>)
          /\ command' = kind
          /\ asked' = asked \cup {kind}
    /\ gdb' = "sent" /\ interrupts' = 0
    /\ sent' = sent + 1
    /\ UNCHANGED clean

GdbInterrupt ==
    /\ gdb = "waiting" /\ command \in Runs
    /\ interrupts < MaxInterrupts
    /\ GdbSend(<< "ctrl_c" >>)
    /\ interrupts' = interrupts + 1
    /\ UNCHANGED << gdb, command, asked, clean, sent >>

(***************************************************************************)
(* GDB reads while it waits.  Before the ACK of its command it repeats the *)
(* command on a NAK, and acknowledges and ignores a response; after it, it *)
(* skips ACK and NAK, and takes the response.                              *)
(***************************************************************************)
GdbTake ==
    /\ outbound # << >>
    /\ outbound' = Tail(outbound)
    /\ UNCHANGED << main, thread, queue, socket, backlog, connection >>

GdbReceive ==
    /\ GdbTake
    /\ \/ /\ gdb = "sent"
          /\ LET kind == Head(outbound).kind
             IN  /\ gdb' = IF kind = "ack" THEN "waiting" ELSE gdb
                 /\ GdbSay(CASE kind = "ack" -> << >>
                             [] kind = "nak" -> << command >>
                             [] OTHER -> << "ack" >>)
       \/ /\ gdb = "waiting"
          /\ IF Head(outbound).kind \in {"ack", "nak"}
             THEN gdb' = gdb /\ GdbSay(<< >>)
             ELSE gdb' = "idle" /\ GdbSay(<< "ack" >>)
    /\ UNCHANGED << command, interrupts, asked, clean, sent >>

(***************************************************************************)
(* GDB notices that the stub has closed the connection, or gives up.       *)
(***************************************************************************)
GdbLost ==
    /\ gdb \in {"idle", "sent", "waiting"}
    /\ socket # "open" \/ pc = "exited"
    /\ gdb = "idle" \/ outbound = << >>
    /\ gdb' = "off"
    /\ UNCHANGED << vars, command, interrupts, asked, clean >>

GdbQuit ==
    /\ gdb \in {"idle", "sent", "waiting"}
    /\ HostDisconnect
    /\ gdb' = "off"
    /\ UNCHANGED << command, interrupts, asked, clean >>

(***************************************************************************)
(* The decoder's queue, a run and a response in progress outlive a         *)
(* connection: what the next one finds of them belongs to the last.        *)
(***************************************************************************)
NothingLeft == queue = << >> /\ worker = "none" /\ pc = "receive"

Observed ==
    /\ clean' = IF connection' = connection THEN clean ELSE NothingLeft
    /\ UNCHANGED user

Stub == (Main \/ Worker) /\ Observed

Gdb == GdbConnect \/ GdbGreet \/ GdbCommand \/ GdbInterrupt
           \/ GdbReceive \/ GdbLost \/ GdbQuit

SessionNext == Stub \/ Gdb

SessionSpec == SessionInit /\ [][SessionNext]_sessionVars

-----------------------------------------------------------------------------
(* Properties *)

IsResponse(message) == message.kind \notin {"ack", "nak"}

Answers(kind) ==
    CASE kind \in {"request", "query"} -> {"answer"}
      [] kind = "continue" -> {"int", "hit"}
      [] kind = "step"     -> {"int", "hit", "trap"}
      [] kind = "unknown"  -> {"unsupported"}
      [] OTHER             -> {}

(***************************************************************************)
(* A response on its way to GDB is the one response to the command GDB is  *)
(* waiting on, and SIGINT is reported only for a run that GDB interrupted: *)
(* client and stub never get out of step, whatever the timing of           *)
(* breakpoints and Ctrl-C.  On a connection that begins with something     *)
(* left of the one before it is false: close() clears neither the          *)
(* decoder's queue nor the response that async_run is about to send, and   *)
(* they reach the next client (network.cpp:148).                           *)
(***************************************************************************)
ReplyMatchesCommand ==
    \A i \in DOMAIN outbound :
        IsResponse(outbound[i]) /\ socket = "open" /\ clean
        => /\ gdb \in {"sent", "waiting"}
           /\ outbound[i].kind \in Answers(command)
           /\ outbound[i].kind = "int" => interrupts > 0
           /\ \A j \in DOMAIN outbound : IsResponse(outbound[j]) => i = j

(***************************************************************************)
(* With a client that keeps to the protocol and sends one Ctrl-C per run,  *)
(* the emulator ends only because it was asked to, or because the          *)
(* simulated machine threw: a Ctrl-C that comes too late for the run costs *)
(* the connection, never the process.  Again on clean connections: a       *)
(* Ctrl-C left in the decoder's queue ends run() on the next.              *)
(***************************************************************************)
ExitsOnRequest ==
    pc = "exited" /\ clean => asked \cap {"kill", "unhandled"} # {} \/ worker = "threw"

(***************************************************************************)
(* The stub and the client make progress.  A cycle of the worker always    *)
(* completes, but a run need not hit anything: fairness is of CyclePasses  *)
(* alone.  The user is patient or not: only the impatient one is bound to  *)
(* press Ctrl-C in the end.                                                *)
(***************************************************************************)
PatientSpec ==
    /\ SessionSpec
    /\ WF_sessionVars(Main /\ Observed)
    /\ WF_sessionVars(CyclePasses /\ UNCHANGED << main, link, queue >> /\ Observed)
    /\ WF_sessionVars(GdbReceive) /\ WF_sessionVars(GdbGreet)
    /\ WF_sessionVars(GdbLost)

ImpatientSpec == PatientSpec /\ WF_sessionVars(GdbInterrupt)

(***************************************************************************)
(* Ctrl-C gives GDB the machine back: a run always ends, for the client,   *)
(* with a stop reply or with the connection.  That takes a machine that    *)
(* stops within 50 ms of the flag: a slower one stops unheard              *)
(* (StopIsReported).                                                       *)
(***************************************************************************)
CommandEnds == prompt /\ gdb = "waiting" ~> gdb # "waiting"

(***************************************************************************)
(* Once the worker has stopped, async_run sends its stop reply to the GDB  *)
(* that waits for it.                                                      *)
(***************************************************************************)
StopIsReported ==
    worker = "done" /\ gdb = "waiting" ~> worker # "done" \/ gdb # "waiting"
=============================================================================
