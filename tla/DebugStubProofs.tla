-------------------------- MODULE DebugStubProofs ---------------------------
(***************************************************************************)
(* Proofs about DebugStub, for every number of tries, items, connections   *)
(* and cycles and every set of kinds of item that the host sends; and      *)
(* about DebugSession, for any number of Ctrl-Cs in a run as well: on a    *)
(* connection that begins clean the stub and GDB keep step.                *)
(***************************************************************************)
EXTENDS DebugSession, SequenceTheorems, TLAPS

-----------------------------------------------------------------------------
(* The stub and any host *)

(***************************************************************************)
(* Where the main thread does not have the worker to wait for, there is    *)
(* none: each way out of async_run either takes the result of the future   *)
(* or waits for it, so that the statement is inductive as it stands.       *)
(***************************************************************************)
LEMMA NextKeepsExclusive == WorkerExclusive /\ [Next]_vars => WorkerExclusive'
<1> SUFFICES ASSUME WorkerExclusive, [Next]_vars PROVE WorkerExclusive'
  OBVIOUS
<1> USE DEF WorkerExclusive, Goto
<1>1. CASE Accept \/ Read
  BY <1>1 DEF Accept, Read, main, thread
<1>2. CASE ConnectionFault
  BY <1>2 DEF ConnectionFault, Receiving, thread
<1>3. CASE ReceiveDamaged("receive") \/ ReceiveDamaged("poll")
  BY <1>3 DEF ReceiveDamaged, Take, AfterProtocolFail, thread
<1>4. CASE ReceiveStopped
  BY <1>4 DEF ReceiveStopped, Take, Resume, Respond, Exit, thread
<1>5. CASE StartRun
  BY <1>5 DEF StartRun
<1>6. CASE WaitReady
  BY <1>6 DEF WaitReady, Respond, Exit
<1>7. CASE WaitTimeout
  BY <1>7 DEF WaitTimeout, thread
<1>8. CASE PollInterrupt \/ PollUnknown \/ PollUnexpected
  BY <1>8 DEF PollInterrupt, PollUnknown, PollUnexpected
<1>9. CASE JoinWorker
  BY <1>9 DEF JoinWorker, Resume
<1>10. CASE SendResponse \/ AckReceived \/ Resend \/ SendFailed
  BY <1>10 DEF SendResponse, AckReceived, Resend, SendFailed, Take, Resume, Drop, thread
<1>11. CASE Worker
  BY <1>11 DEF Worker, CycleHits, CycleThrows, CyclePasses, Finish, main
<1>12. CASE AnyHost
  BY <1>12 DEF AnyHost, HostConnect, HostSend, HostRead, HostDisconnect, main, thread
<1>13. CASE UNCHANGED vars
  BY <1>13 DEF vars, main, thread
<1> QED BY <1>1, <1>2, <1>3, <1>4, <1>5, <1>6, <1>7, <1>8, <1>9, <1>10, <1>11, <1>12,
           <1>13 DEF Next, Main

(***************************************************************************)
(* No handler of the main thread runs beside a worker, whatever the host   *)
(* does and however connections end (emulator-debug.cpp:276-305).          *)
(***************************************************************************)
THEOREM ExclusiveCorrect == Spec => []WorkerExclusive
<1>1. Init => WorkerExclusive
  BY DEF Init, WorkerExclusive
<1> QED BY <1>1, NextKeepsExclusive, PTL DEF Spec

-----------------------------------------------------------------------------
(***************************************************************************)
(* The main thread leaves the wait for an ACK with the ACK, without the    *)
(* connection, or to repeat the response (network.cpp:65-106).             *)
(***************************************************************************)
Settled ==
    pc = "await_ack" /\ pc' \notin {"await_ack", "send"}
        => \/ queue # << >> /\ Head(queue).kind = "ack"
           \/ socket' = "none"

LEMMA NextSettles == [Next]_vars => Settled
<1> SUFFICES ASSUME [Next]_vars, pc = "await_ack", pc' \notin {"await_ack", "send"}
             PROVE  \/ queue # << >> /\ Head(queue).kind = "ack"
                    \/ socket' = "none"
  BY DEF Settled
<1>1. CASE ConnectionFault
  BY <1>1 DEF ConnectionFault, Close, WriteAndClose
<1>2. CASE AckReceived
  BY <1>2 DEF AckReceived, Take
<1>3. CASE SendFailed
  BY <1>3 DEF SendFailed, Drop, Close, WriteAndClose
<1>4. CASE Read \/ Worker \/ AnyHost \/ UNCHANGED vars
  BY <1>4 DEF Read, Worker, AnyHost, HostConnect, HostSend, HostRead, HostDisconnect,
              vars, main
<1>5. ~ (\/ Accept \/ ReceiveDamaged("receive") \/ ReceiveDamaged("poll")
         \/ ReceiveStopped \/ StartRun \/ WaitReady \/ WaitTimeout
         \/ PollInterrupt \/ PollUnknown \/ PollUnexpected \/ JoinWorker
         \/ SendResponse \/ Resend)
  BY DEF Accept, ReceiveDamaged, ReceiveStopped, StartRun, Take, WaitReady, WaitTimeout,
         PollInterrupt, PollUnknown, PollUnexpected, JoinWorker, SendResponse, Resend
<1> QED BY <1>1, <1>2, <1>3, <1>4, <1>5 DEF Next, Main

(***************************************************************************)
(* No response is forgotten on a connection that stays open.               *)
(***************************************************************************)
THEOREM AcknowledgementCorrect == Spec => AcknowledgedOrClosed
<1>1. [Next]_vars => [Settled]_vars
  BY NextSettles
<1> QED BY <1>1, PTL DEF Spec, AcknowledgedOrClosed, Settled

-----------------------------------------------------------------------------
(***************************************************************************)
(* The type invariant.  It takes the facts that stand behind values which  *)
(* are there only when they are needed: a response while it is sent, the   *)
(* reason for a stop and the connection of a run, and the number of an     *)
(* open connection.                                                        *)
(***************************************************************************)
MainType ==
    /\ pc \in {"receive", "wait", "poll", "send", "await_ack", "join", "exited"}
    /\ tries \in 0 .. MaxRetry - 1
    /\ response \in Response \cup {NoResponse}
    /\ interrupt \in BOOLEAN
    /\ run_connection \in 0 .. MaxConnections
    /\ pc \in {"send", "await_ack"} => response \in Response

ThreadType ==
    /\ worker \in {"none", "running", "done", "threw"}
    /\ cycles \in 0 .. MaxCycles
    /\ stop_reason \in StopReasons \cup {"none"} /\ prompt \in BOOLEAN
    /\ worker = "done" => stop_reason \in StopReasons

RunKnown == worker # "none" => run_connection # 0

LinkType ==
    /\ socket \in {"none", "open", "eof"}
    /\ backlog \in BOOLEAN
    /\ connection \in 0 .. MaxConnections
    /\ inbound \in Seq(Item) /\ outbound \in Seq(Written)
    /\ sent \in 0 .. MaxItems
    /\ socket # "none" => connection # 0
    /\ backlog => connection < MaxConnections

QueueType == queue \in Seq(Item)

IInv == MainType /\ ThreadType /\ RunKnown /\ LinkType /\ QueueType

LEMMA EmptyLink == << >> \in Seq(Item) /\ << >> \in Seq(Written)
  BY EmptySeq

LEMMA RepliesType ==
    ASSUME LinkType, socket # "none"
    PROVE  Ack \in Seq(Written) /\ Nak \in Seq(Written) /\ << >> \in Seq(Written)
<1>1. connection \in 1 .. MaxConnections
  BY BoundsAssumption DEF LinkType
<1>2. OnConnection("ack") \in Written /\ OnConnection("nak") \in Written
  BY <1>1 DEF OnConnection, Written
<1> QED BY <1>2 DEF Ack, Nak

LEMMA WriteType ==
    ASSUME LinkType, NEW items \in Seq(Written), Write(items) \/ WriteAndClose(items)
    PROVE  LinkType'
<1>1. outbound \o items \in Seq(Written)
  BY ConcatProperties DEF LinkType
<1>2. CASE Write(items)
  BY <1>1, <1>2 DEF LinkType, Write
<1>3. CASE WriteAndClose(items)
  BY <1>1, <1>3, EmptyLink DEF LinkType, WriteAndClose
<1> QED BY <1>2, <1>3

LEMMA TakeType ==
    ASSUME QueueType, NEW label, Take(label)
    PROVE  Head(queue) \in Item /\ QueueType' /\ socket # "none"
<1>1. Head(queue) \in Item /\ Tail(queue) \in Seq(Item)
  BY HeadTailProperties DEF QueueType, Take
<1> QED BY <1>1 DEF QueueType, Take, Receiving

LEMMA ReadType ==
    ASSUME IInv, Read
    PROVE  LinkType' /\ QueueType'
<1>1. PICK n \in 1 .. Len(inbound) : /\ queue' = SubSeq(inbound, 1, n)
                                     /\ inbound' = SubSeq(inbound, n + 1, Len(inbound))
  BY DEF Read
<1>2. inbound \in Seq(Item) /\ Len(inbound) \in Nat
  BY DEF IInv, LinkType
<1>3. \A i \in 1 .. n : inbound[i] \in Item
  BY <1>2, ElementOfSeq
<1>4. \A i \in n + 1 .. Len(inbound) : inbound[i] \in Item
  BY <1>2, ElementOfSeq
<1>5. queue' \in Seq(Item)
  BY <1>1, <1>2, <1>3, SubSeqProperties
<1>6. inbound' \in Seq(Item)
  BY <1>1, <1>2, <1>4, SubSeqProperties
<1> QED BY <1>5, <1>6 DEF IInv, LinkType, QueueType, Read

LEMMA NextKeepsInvariant == IInv /\ [Next]_vars => IInv'
<1> SUFFICES ASSUME IInv, [Next]_vars PROVE IInv'
  OBVIOUS
<1>0. 0 \in 0 .. MaxRetry - 1
  BY BoundsAssumption
<1> USE DEF IInv, Goto
<1>1. CASE Accept
  <2>1. connection' \in 1 .. MaxConnections
    BY <1>1, BoundsAssumption DEF Accept, LinkType
  <2>2. LinkType'
    <3>1. backlog' = FALSE /\ socket' = "open" /\ sent' = sent
          /\ inbound' = << >> /\ outbound' = << >>
      BY <1>1 DEF Accept
    <3>2. backlog' \in BOOLEAN /\ (backlog' => connection' < MaxConnections)
      BY <3>1, Zenon
    <3>3. connection' \in 0 .. MaxConnections /\ connection' # 0
      BY <2>1, BoundsAssumption
    <3> QED BY <3>1, <3>2, <3>3, EmptyLink DEF LinkType
  <2>3. MainType'
    BY <1>1 DEF Accept, MainType, main
  <2>4. ThreadType' /\ RunKnown' /\ QueueType'
    BY <1>1 DEF Accept, ThreadType, RunKnown, QueueType, main, thread
  <2> QED BY <2>2, <2>3, <2>4
<1>2. CASE Read
  BY <1>2, ReadType DEF Read, MainType, ThreadType, RunKnown, main, thread
<1>3. CASE ConnectionFault
  <2>1. QueueType'
    BY <1>3, HeadTailProperties DEF ConnectionFault, QueueType
  <2>2. LinkType'
    BY <1>3, WriteType, RepliesType DEF ConnectionFault, Close
  <2> QED BY <1>0, <1>3, <2>1, <2>2
          DEF ConnectionFault, MainType, ThreadType, RunKnown, thread
<1>4. ASSUME NEW label \in {"receive", "poll"}, ReceiveDamaged(label)
      PROVE  IInv'
  <2>1. QueueType' /\ socket # "none"
    BY <1>4, TakeType DEF ReceiveDamaged
  <2>2. LinkType'
    BY <1>4, <2>1, WriteType, RepliesType DEF ReceiveDamaged
  <2>3. tries' \in 0 .. MaxRetry - 1
    BY <1>0, <1>4, BoundsAssumption
       DEF ReceiveDamaged, AfterProtocolFail, LastTry, MainType
  <2>4. pc' \in {"receive", "poll", "wait"}
    BY <1>4 DEF ReceiveDamaged, AfterProtocolFail, Take
  <2> QED BY <1>4, <2>1, <2>2, <2>3, <2>4
          DEF ReceiveDamaged, MainType, ThreadType, RunKnown, thread
<1>5. CASE ReceiveStopped
  <2>1. QueueType' /\ socket # "none" /\ Head(queue) \in Item
    BY <1>5, TakeType DEF ReceiveStopped
  <2>2. LinkType'
    BY <1>5, <2>1, WriteType, RepliesType DEF ReceiveStopped
  <2>3. \A kind \in {"answer", "unsupported"} :
            [kind |-> kind, connection |-> Head(queue).connection] \in Response
    BY <2>1 DEF Item, Response
  <2> QED BY <1>0, <1>5, <2>1, <2>2, <2>3
          DEF ReceiveStopped, Resume, Respond, Exit, MainType, ThreadType, RunKnown, thread
<1>6. CASE StartRun
  <2>1. QueueType' /\ socket # "none" /\ Head(queue) \in Item
    BY <1>6, TakeType DEF StartRun
  <2>2. LinkType'
    BY <1>6, <2>1, WriteType, RepliesType DEF StartRun
  <2>3. Head(queue).connection \in 1 .. MaxConnections
    BY <2>1 DEF Item
  <2>4. MainType' /\ RunKnown'
    <3>1. /\ pc' = "wait" /\ tries' = 0 /\ interrupt' = FALSE /\ response' = response
          /\ run_connection' \in 1 .. MaxConnections
      BY <1>6, <2>3 DEF StartRun
    <3>2. interrupt' \in BOOLEAN
      BY <3>1, Zenon
    <3>3. run_connection' \in 0 .. MaxConnections /\ run_connection' # 0
      BY <3>1, BoundsAssumption
    <3> QED BY <1>0, <3>1, <3>2, <3>3 DEF MainType, RunKnown
  <2>5. ThreadType'
    <3>1. /\ worker' \in {"running", "done"} /\ cycles' \in 0 .. MaxCycles
          /\ stop_reason' \in {"none", "trap"} /\ prompt' = prompt
          /\ worker' = "done" => stop_reason' = "trap"
      BY <1>6, BoundsAssumption DEF StartRun
    <3> QED BY <3>1 DEF ThreadType, StopReasons
  <2> QED BY <2>1, <2>2, <2>4, <2>5
<1>7. CASE WaitReady
  <2>1. worker = "done" =>
            [kind |-> stop_reason, connection |-> run_connection] \in Response
    BY BoundsAssumption DEF Response, MainType, ThreadType, RunKnown
  <2> QED BY <1>0, <1>7, <2>1
          DEF WaitReady, Respond, Exit, MainType, ThreadType, RunKnown, LinkType,
              QueueType, link
<1>8. CASE WaitTimeout
  BY <1>0, <1>8 DEF WaitTimeout, MainType, ThreadType, RunKnown, LinkType, QueueType,
                    thread, link
<1>9. CASE PollInterrupt \/ PollUnknown \/ PollUnexpected
  <2>1. QueueType' /\ socket # "none"
    BY <1>9, TakeType DEF PollInterrupt, PollUnknown, PollUnexpected
  <2>2. LinkType'
    BY <1>9, <2>1, WriteType, RepliesType DEF PollInterrupt, PollUnknown, PollUnexpected
  <2> QED BY <1>0, <1>9, <2>1, <2>2
          DEF PollInterrupt, PollUnknown, PollUnexpected, MainType, ThreadType, RunKnown,
              thread
<1>10. CASE JoinWorker
  BY <1>0, <1>10 DEF JoinWorker, Resume, MainType, ThreadType, RunKnown, LinkType,
                     QueueType, link
<1>11. CASE SendResponse
  <2>1. << response >> \in Seq(Written)
    BY <1>11 DEF SendResponse, MainType, Written
  <2>2. LinkType'
    BY <1>11, <2>1, WriteType DEF SendResponse
  <2> QED BY <1>11, <2>2 DEF SendResponse, MainType, ThreadType, RunKnown, QueueType, thread
<1>12. CASE AckReceived \/ Resend
  <2>1. QueueType'
    BY <1>12, TakeType DEF AckReceived, Resend
  <2>2. tries' \in 0 .. MaxRetry - 1
    BY <1>0, <1>12, BoundsAssumption DEF AckReceived, Resend, Resume, LastTry, MainType
  <2> QED BY <1>12, <2>1, <2>2
          DEF AckReceived, Resend, Resume, Take, MainType, ThreadType, RunKnown, LinkType,
              thread, link
<1>13. CASE SendFailed
  <2>1. QueueType' /\ socket # "none"
    BY <1>13, TakeType DEF SendFailed
  <2>2. LinkType'
    BY <1>13, <2>1, WriteType, RepliesType DEF SendFailed, Drop, Close
  <2> QED BY <1>0, <1>13, <2>1, <2>2
          DEF SendFailed, Drop, Resume, MainType, ThreadType, RunKnown, thread
<1>14. CASE Worker
  <2>1. ThreadType' /\ RunKnown'
    BY <1>14, BoundsAssumption
       DEF Worker, CycleHits, CycleThrows, CyclePasses, Finish, ThreadType, RunKnown,
           StopReasons, main
  <2> QED BY <1>14, <2>1 DEF Worker, MainType, LinkType, QueueType, main, link
<1>15. CASE AnyHost
  <2>1. CASE \E kind \in HostKinds : HostSend(kind)
    <3>1. PICK kind \in HostKinds : HostSend(kind)
      BY <2>1
    <3>2. OnConnection(kind) \in Item
      BY <3>1, HostAssumption, BoundsAssumption DEF HostSend, OnConnection, Item, LinkType
    <3>3. inbound' \in Seq(Item) /\ sent' \in 0 .. MaxItems
      BY <3>1, <3>2, BoundsAssumption DEF HostSend, LinkType
    <3> QED BY <3>1, <3>3
            DEF HostSend, MainType, ThreadType, RunKnown, LinkType, QueueType, main, thread
  <2>2. CASE HostConnect \/ HostRead \/ HostDisconnect
    <3>1. backlog' \in BOOLEAN
      BY <2>2, Zenon DEF HostConnect, HostRead, HostDisconnect, LinkType
    <3>2. backlog' => connection' < MaxConnections
      BY <2>2, Zenon DEF HostConnect, HostRead, HostDisconnect, LinkType
    <3>3. /\ socket' \in {"none", "open", "eof"}
          /\ socket' # "none" => connection' # 0
          /\ connection' \in 0 .. MaxConnections /\ sent' \in 0 .. MaxItems
      BY <2>2 DEF HostConnect, HostRead, HostDisconnect, LinkType
    <3>4. inbound' \in Seq(Item) /\ outbound' \in Seq(Written)
      BY <2>2, EmptyLink DEF HostConnect, HostRead, HostDisconnect, LinkType
    <3>5. LinkType'
      BY <3>1, <3>2, <3>3, <3>4 DEF LinkType
    <3>6. MainType' /\ ThreadType' /\ RunKnown' /\ QueueType'
      BY <2>2 DEF HostConnect, HostRead, HostDisconnect, MainType, ThreadType, RunKnown,
                  QueueType, main, thread
    <3> QED BY <3>5, <3>6
  <2> QED BY <1>15, <2>1, <2>2 DEF AnyHost
<1>16. CASE UNCHANGED vars
  BY <1>16 DEF vars, main, thread, link, MainType, ThreadType, RunKnown, LinkType, QueueType
<1> QED BY <1>1, <1>2, <1>3, <1>4, <1>5, <1>6, <1>7, <1>8, <1>9, <1>10, <1>11, <1>12,
           <1>13, <1>14, <1>15, <1>16 DEF Next, Main

LEMMA InitInvariant == Init => IInv
<1>1. 0 \in 0 .. MaxRetry - 1 /\ 0 < MaxConnections
  BY BoundsAssumption
<1> SUFFICES ASSUME Init PROVE IInv
  OBVIOUS
<1>2. interrupt \in BOOLEAN /\ backlog \in BOOLEAN /\ ~ backlog
  BY Zenon DEF Init
<1>3. MainType
  BY <1>1, <1>2, BoundsAssumption DEF Init, MainType
<1>4. ThreadType /\ RunKnown
  BY BoundsAssumption DEF Init, ThreadType, RunKnown
<1>5. LinkType /\ QueueType
  BY <1>1, <1>2, BoundsAssumption, EmptyLink DEF Init, LinkType, QueueType
<1> QED BY <1>3, <1>4, <1>5 DEF IInv

(***************************************************************************)
(* The tries of receive() and send() stay below their limit, a stop reply  *)
(* has a reason and a connection, and what is queued and written belongs   *)
(* to a connection that there was (network.cpp:65-146,                     *)
(* emulator-debug.cpp:276-305).                                            *)
(***************************************************************************)
THEOREM TypeCorrect == Spec => []TypeOK
<1>1. IInv => TypeOK
  BY DEF IInv, MainType, ThreadType, LinkType, QueueType, TypeOK
<1> QED BY <1>1, InitInvariant, NextKeepsInvariant, PTL DEF Spec
-----------------------------------------------------------------------------
(* What travels *)

(***************************************************************************)
(* GDB sends nothing damaged, no NAK, and no command it was not asked for; *)
(* the stub, which gets no damaged frame, sends no NAK either.             *)
(***************************************************************************)
FromGdb == [kind : asked \cup {"ack", "ctrl_c"}, connection : 1 .. MaxConnections]

FromStub == Response \cup [kind : {"ack"}, connection : 1 .. MaxConnections]

Channels == /\ queue \in Seq(FromGdb) /\ inbound \in Seq(FromGdb)
            /\ outbound \in Seq(FromStub)

(* A host that is let in is one that connects; a stub that waits for its   *)
(* worker after an error has no connection.                                *)
Linked ==
    /\ backlog => gdb = "connecting" /\ socket # "open"
    /\ pc = "join" => socket = "none"

SessionTypes == IInv /\ WorkerExclusive /\ ClientTypeOK /\ Channels /\ Linked

(* On its way to the stub: what has been read, then what has not. *)
Wire == queue \o inbound

CtrlC(from, to) == \A i \in from .. to : Wire[i].kind = "ctrl_c"

NoResponseOut == \A i \in DOMAIN outbound : ~ IsResponse(outbound[i])

(***************************************************************************)
(* Between two commands.  At position p of the wire is the ACK that ends   *)
(* the last exchange (p = 0: it has been read), before it the Ctrl-Cs that *)
(* came too late; after it the next command, and the Ctrl-Cs of its run.   *)
(***************************************************************************)
Exchange(p) ==
    /\ p \in 0 .. Len(Wire)
    /\ p > 0 => Wire[p].kind = "ack" /\ CtrlC(1, p - 1)
    /\ Len(Wire) > p => Wire[p + 1].kind \in Commands
    /\ CtrlC(p + 2, Len(Wire))

Idle(p) ==
    /\ Exchange(p)
    /\ socket = "open" =>
          /\ NoResponseOut
          /\ Len(Wire) = p => gdb \in {"connecting", "idle"}
          /\ Len(Wire) > p => /\ gdb \in {"sent", "waiting"}
                              /\ Wire[p + 1].kind = command
          /\ Len(Wire) > p + 1 => interrupts > 0
          /\ gdb = "connecting" => pc = "receive" /\ Wire = << >>

(* The stub has taken the command, and GDB has not taken its response. *)
Busy ==
    /\ CtrlC(1, Len(Wire))
    /\ socket = "open" =>
          /\ gdb \in {"sent", "waiting"}
          /\ Len(Wire) > 0 => interrupts > 0
          /\ gdb = "sent" => outbound # << >> /\ outbound[1].kind = "ack"

Right(kind) == kind \in Answers(command) /\ (kind = "int" => interrupts > 0)

WorkerRight ==
    /\ worker # "none"
    /\ worker = "running" /\ command = "continue" => cycles = 0
    /\ worker = "done" => Right(stop_reason)

Running ==
    /\ Busy
    /\ socket = "open" => /\ NoResponseOut /\ command \in Runs /\ WorkerRight
                          /\ interrupt => interrupts > 0

Sending == Busy /\ (socket = "open" => NoResponseOut /\ Right(response.kind))

Answered ==
    /\ Busy
    /\ socket = "open" => /\ outbound # << >> /\ Right(outbound[Len(outbound)].kind)
                          /\ IsResponse(outbound[Len(outbound)])
                          /\ \A i \in 1 .. Len(outbound) - 1 : ~ IsResponse(outbound[i])

Step ==
    /\ pc = "receive" => \E p \in {0, 1} : Idle(p)
    /\ pc \in {"wait", "poll"} => Running
    /\ pc = "send" => Sending
    /\ pc = "await_ack" => Answered \/ \E p \in Nat \ {0} : Idle(p)
    /\ pc = "exited" /\ socket = "open" => NoResponseOut

InStep == clean /\ socket # "none" => Step

SessionInv == SessionTypes /\ InStep /\ ExitsOnRequest

-----------------------------------------------------------------------------
(* The channels *)

LEMMA Kinds3 ==
    ASSUME ClientTypeOK, NEW item \in FromGdb
    PROVE  /\ item \in Item
           /\ item.kind \in Commands \cup {"ack", "ctrl_c"}
           /\ item.kind \in Commands => item.kind \in asked
           /\ item.kind \notin Damage \cup {"nak"}
  BY DEF FromGdb, Item, Kinds, Commands, Runs, Damage, ClientTypeOK

LEMMA TakeHead ==
    ASSUME SessionTypes, NEW label, Take(label)
    PROVE  /\ pc = label /\ Head(queue) \in FromGdb /\ socket # "none"
           /\ queue' \in Seq(FromGdb)
<1>1. Head(queue) \in FromGdb /\ Tail(queue) \in Seq(FromGdb)
  BY HeadTailProperties DEF SessionTypes, Channels, Take
<1> QED BY <1>1 DEF Take, Receiving

(* The wire without its first item, and with one more at its end. *)
Shifted ==
    /\ Len(Wire) \in Nat \ {0} /\ Len(Wire') = Len(Wire) - 1
    /\ \A i \in 1 .. Len(Wire') : Wire'[i] = Wire[i + 1]

Extended(kind) ==
    /\ Len(Wire) \in Nat /\ Len(Wire') = Len(Wire) + 1
    /\ \A i \in 1 .. Len(Wire) : Wire'[i] = Wire[i]
    /\ Wire'[Len(Wire) + 1].kind = kind

LEMMA WireItems ==
    ASSUME SessionTypes
    PROVE  Len(Wire) \in Nat /\ \A i \in 1 .. Len(Wire) : Wire[i] \in FromGdb
<1>1. Wire \in Seq(FromGdb)
  BY ConcatProperties DEF Wire, SessionTypes, Channels
<1> QED BY <1>1

LEMMA TakeFirst ==
    ASSUME SessionTypes, NEW label, Take(label)
    PROVE  /\ Len(Wire) \in Nat \ {0}
           /\ Wire[1] = Head(queue) /\ Wire[1] \in FromGdb
<1>1. /\ queue \in Seq(FromGdb) /\ inbound \in Seq(FromGdb) /\ queue # << >>
  BY DEF SessionTypes, Channels, Take
<1> QED BY <1>1, HeadTailProperties DEF Wire

LEMMA TakeShifts ==
    ASSUME SessionTypes, NEW label, Take(label), inbound' = inbound
    PROVE  Shifted /\ Wire[1] = Head(queue) /\ Wire[1] \in FromGdb
<1>1. queue \in Seq(FromGdb) /\ inbound \in Seq(FromGdb) /\ queue # << >>
      /\ queue' = Tail(queue)
  BY DEF SessionTypes, Channels, Take
<1> QED BY <1>1, TakeFirst DEF Wire, Shifted

LEMMA SayExtends ==
    ASSUME SessionTypes, NEW kind, GdbSay(<< kind >>), queue' = queue, socket = "open"
    PROVE  Extended(kind)
<1> DEFINE item == OnConnection(kind)
           said == [i \in DOMAIN << kind >> |-> OnConnection(<< kind >>[i])]
<1>1. queue \in Seq(FromGdb) /\ inbound \in Seq(FromGdb)
  BY DEF SessionTypes, Channels
<1>2. said = << item >>
  OBVIOUS
<1>3. inbound' = inbound \o << item >>
  BY <1>2 DEF GdbSay
<1>4. item.kind = kind
  BY DEF OnConnection
<1> HIDE DEF item
<1> QED BY <1>1, <1>3, <1>4 DEF Wire, Extended

LEMMA ReadKeepsWire ==
    ASSUME SessionTypes, Read
    PROVE  Wire' = Wire
<1>1. PICK n \in 1 .. Len(inbound) : /\ queue' = SubSeq(inbound, 1, n)
                                     /\ inbound' = SubSeq(inbound, n + 1, Len(inbound))
  BY DEF Read
<1>2. inbound \in Seq(FromGdb) /\ queue = << >>
  BY DEF Read, SessionTypes, Channels
<1>3. Wire = inbound
  BY <1>2 DEF Wire
<1>4. Wire' = inbound
  BY <1>1, <1>2, SubSeqProperties DEF Wire
<1> QED BY <1>3, <1>4

LEMMA SayNothing ==
    ASSUME SessionTypes, GdbSay(<< >>)
    PROVE  inbound' = inbound
<1>1. [i \in DOMAIN << >> |-> OnConnection(<< >>[i])] = << >>
  OBVIOUS
<1> QED BY <1>1 DEF GdbSay, SessionTypes, Channels

LEMMA StubWrites ==
    ASSUME SessionTypes, NEW items \in Seq(FromStub),
           Write(items) \/ WriteAndClose(items)
    PROVE  /\ inbound' \in Seq(FromGdb) /\ outbound' \in Seq(FromStub)
           /\ backlog' = backlog /\ (socket' = socket \/ socket' = "none")
<1>1. << >> \in Seq(FromGdb)
  BY EmptySeq
<1>2. outbound \o items \in Seq(FromStub)
  BY ConcatProperties DEF SessionTypes, Channels
<1> QED BY <1>1, <1>2 DEF Write, WriteAndClose, SessionTypes, Channels

LEMMA OnLink ==
    ASSUME SessionTypes, socket # "none"
    PROVE  /\ Ack \in Seq(FromStub) /\ << >> \in Seq(FromStub)
           /\ connection \in 1 .. MaxConnections
<1>1. connection \in 1 .. MaxConnections
  BY BoundsAssumption DEF SessionTypes, IInv, LinkType
<1>2. OnConnection("ack") \in FromStub
  BY <1>1 DEF OnConnection, FromStub
<1> QED BY <1>1, <1>2 DEF Ack

(* Nothing damaged arrives. *)
LEMMA Undamaged ==
    ASSUME SessionTypes
    PROVE  ~ ReceiveDamaged("receive") /\ ~ ReceiveDamaged("poll") /\ ~ Resend
<1> SUFFICES ASSUME NEW label, Take(label)
             PROVE  Head(queue).kind \notin Damage \cup {"nak", "corrupt"}
  BY DEF ReceiveDamaged, Resend
<1> QED BY TakeHead, Kinds3 DEF SessionTypes, Damage

LEMMA MainKeepsLinked ==
    ASSUME SessionTypes, Main, UNCHANGED gdb
    PROVE  Linked'
<1>1. \/ backlog' = backlog /\ (socket' = socket \/ socket' = "none")
      \/ backlog' = FALSE /\ pc' # "join"
  BY DEF Main, Accept, Read, ConnectionFault, ReceiveDamaged, ReceiveStopped, StartRun,
         WaitReady, WaitTimeout, PollInterrupt, PollUnknown, PollUnexpected, JoinWorker,
         SendResponse, AckReceived, Resend, SendFailed, Drop, Close, Write,
         WriteAndClose, link, main
<1>2. pc' = "join" => socket' = "none"
  BY Undamaged
     DEF Main, Accept, Read, ConnectionFault, ReceiveDamaged, ReceiveStopped, StartRun,
         WaitReady, WaitTimeout, PollInterrupt, PollUnknown, PollUnexpected, JoinWorker,
         SendResponse, AckReceived, Resend, SendFailed, Drop, Close, Write, Goto, Resume,
         Respond, Exit, WriteAndClose, AfterProtocolFail, link, main, SessionTypes, Linked
<1>3. backlog' => backlog /\ (socket' = socket \/ socket' = "none")
  BY <1>1, Zenon
<1>4. backlog' => gdb' = "connecting" /\ socket' # "open"
  BY <1>3 DEF SessionTypes, Linked
<1> QED BY <1>2, <1>4, Zenon DEF Linked

LEMMA MainKeepsChannels ==
    ASSUME SessionTypes, Main, UNCHANGED asked
    PROVE  Channels'
<1> FromGdb' = FromGdb
  BY DEF FromGdb
<1>1. CASE Accept
  BY <1>1, EmptySeq DEF Accept, SessionTypes, Channels
<1>2. CASE Read
  <2>1. PICK n \in 1 .. Len(inbound) : /\ queue' = SubSeq(inbound, 1, n)
                                       /\ inbound' = SubSeq(inbound, n + 1, Len(inbound))
    BY <1>2 DEF Read
  <2>2. inbound \in Seq(FromGdb) /\ Len(inbound) \in Nat
    BY DEF SessionTypes, Channels
  <2>3. \A i \in 1 .. Len(inbound) : inbound[i] \in FromGdb
    BY <2>2, ElementOfSeq
  <2>4. queue' \in Seq(FromGdb)
    BY <2>1, <2>2, <2>3, SubSeqProperties
  <2>5. inbound' \in Seq(FromGdb)
    BY <2>1, <2>2, <2>3, SubSeqProperties
  <2> QED BY <1>2, <2>4, <2>5 DEF Read, SessionTypes, Channels
<1>3. CASE ConnectionFault
  <2>1. queue' \in Seq(FromGdb) /\ socket # "none"
    BY <1>3, HeadTailProperties DEF ConnectionFault, SessionTypes, Channels
  <2> QED BY <1>3, <2>1, StubWrites, OnLink DEF ConnectionFault, Close, Channels
<1>4. CASE ReceiveStopped
  BY <1>4, TakeHead, StubWrites, OnLink DEF ReceiveStopped, Channels
<1>5. CASE StartRun
  BY <1>5, TakeHead, StubWrites, OnLink DEF StartRun, Channels
<1>6. CASE WaitReady \/ WaitTimeout \/ JoinWorker
  BY <1>6 DEF WaitReady, WaitTimeout, JoinWorker, link, SessionTypes, Channels
<1>7. CASE PollInterrupt \/ PollUnknown \/ PollUnexpected
  BY <1>7, TakeHead, StubWrites, OnLink
     DEF PollInterrupt, PollUnknown, PollUnexpected, Channels
<1>8. CASE SendResponse
  <2>1. response \in Response
    BY <1>8 DEF SendResponse, SessionTypes, IInv, MainType
  <2>2. << response >> \in Seq(FromStub)
    BY <2>1 DEF FromStub
  <2> QED BY <1>8, <2>2, StubWrites DEF SendResponse, SessionTypes, Channels
<1>9. CASE AckReceived
  BY <1>9, TakeHead DEF AckReceived, link, SessionTypes, Channels
<1>10. CASE SendFailed
  BY <1>10, TakeHead, StubWrites, OnLink DEF SendFailed, Drop, Close, Channels
<1> QED BY <1>1, <1>2, <1>3, <1>4, <1>5, <1>6, <1>7, <1>8, <1>9, <1>10, Undamaged DEF Main

(* What a client says is of a connection, and of a kind it may send. *)
LEMMA SayTypes ==
    ASSUME SessionTypes, asked \subseteq asked', queue' = queue,
           \/ GdbSay(<< >>)
           \/ \E kind \in Commands \cup {"ack", "ctrl_c"} :
                 kind \in asked' \cup {"ack", "ctrl_c"} /\ GdbSay(<< kind >>)
    PROVE  /\ inbound' \in Seq(Item) /\ inbound' \in Seq(FromGdb')
           /\ queue' \in Seq(FromGdb')
<1>1. FromGdb \subseteq FromGdb'
  BY DEF FromGdb
<1>2. queue \in Seq(FromGdb') /\ inbound \in Seq(FromGdb') /\ inbound \in Seq(Item)
  BY <1>1 DEF SessionTypes, Channels, IInv, LinkType
<1>3. ASSUME NEW kind \in Commands \cup {"ack", "ctrl_c"}, GdbSay(<< kind >>),
             kind \in asked' \cup {"ack", "ctrl_c"}, socket = "open"
      PROVE  inbound' \in Seq(Item) /\ inbound' \in Seq(FromGdb')
  <2> DEFINE item == OnConnection(kind)
             said == [i \in DOMAIN << kind >> |-> OnConnection(<< kind >>[i])]
  <2>1. connection \in 1 .. MaxConnections
    BY <1>3, OnLink
  <2>2. item \in Item /\ item \in FromGdb'
    BY <1>3, <2>1 DEF OnConnection, Item, FromGdb, Kinds
  <2>3. said = << item >>
    OBVIOUS
  <2>4. inbound' = inbound \o << item >>
    BY <1>3, <2>3 DEF GdbSay
  <2> HIDE DEF item
  <2> QED BY <1>2, <2>2, <2>4, ConcatProperties
<1>4. CASE GdbSay(<< >>)
  BY <1>2, <1>4, SayNothing
<1> QED BY <1>2, <1>3, <1>4 DEF GdbSay

(* It asks for nothing again: it gets no NAK. *)
LEMMA SaysAckOnly ==
    ASSUME SessionTypes, GdbReceive
    PROVE  GdbSay(<< >>) \/ GdbSay(<< "ack" >>)
<1>1. Head(outbound) \in FromStub
  BY HeadTailProperties DEF GdbReceive, GdbTake, SessionTypes, Channels
<1>2. Head(outbound).kind # "nak"
  BY <1>1 DEF FromStub, Response, StopReasons
<1> QED BY <1>2 DEF GdbReceive

LEMMA ClientStep ==
    ASSUME SessionTypes,
           UNCHANGED << main, thread, queue, socket, backlog, connection >>,
           inbound' \in Seq(Item), outbound' \in Seq(Written), sent' \in 0 .. MaxItems
    PROVE  IInv' /\ WorkerExclusive'
<1>1. MainType' /\ ThreadType' /\ RunKnown' /\ QueueType' /\ WorkerExclusive'
  BY DEF SessionTypes, IInv, MainType, ThreadType, RunKnown, QueueType, main, thread,
         WorkerExclusive
<1>2. backlog' \in BOOLEAN /\ (backlog' => connection' < MaxConnections)
  BY Zenon DEF SessionTypes, IInv, LinkType
<1>3. LinkType'
  BY <1>2 DEF SessionTypes, IInv, LinkType
<1> QED BY <1>1, <1>3 DEF IInv

LEMMA ClientFacts ==
    ASSUME SessionTypes
    PROVE  /\ gdb \in {"off", "connecting", "idle", "sent", "waiting"}
           /\ command \in Commands \cup {"none"} /\ asked \subseteq Commands
           /\ interrupts \in 0 .. MaxInterrupts
  BY DEF SessionTypes, ClientTypeOK

LEMMA GdbKeepsTypes ==
    ASSUME SessionTypes, Gdb
    PROVE  SessionTypes'
<1>1. clean' \in BOOLEAN
  BY Zenon DEF SessionTypes, ClientTypeOK, Gdb, GdbConnect, GdbGreet, GdbCommand,
               GdbInterrupt, GdbReceive, GdbLost, GdbQuit
<1>2. Linked'
  <2>1. CASE GdbConnect
    BY <2>1 DEF GdbConnect, HostConnect, main, SessionTypes, Linked
  <2>2. CASE GdbGreet \/ GdbCommand \/ GdbInterrupt \/ GdbReceive
    <3>1. socket = "open" \/ gdb # "connecting"
      BY <2>2 DEF GdbGreet, GdbSend, GdbCommand, GdbInterrupt, GdbReceive
    <3>2. ~ backlog
      BY <3>1 DEF SessionTypes, Linked
    <3>3. backlog' = backlog /\ socket' = socket /\ pc' = pc
      BY <2>2 DEF GdbGreet, GdbSend, GdbCommand, GdbInterrupt, GdbReceive, GdbTake, main
    <3>4. ~ backlog'
      BY <3>2, <3>3, Zenon
    <3> QED BY <3>3, <3>4 DEF SessionTypes, Linked
  <2>3. CASE GdbLost \/ GdbQuit
    <3>1. ~ backlog
      BY <2>3 DEF GdbLost, GdbQuit, SessionTypes, Linked
    <3>2. backlog' = backlog /\ pc' = pc /\ (socket' = socket \/ socket = "open")
      BY <2>3 DEF GdbLost, GdbQuit, HostDisconnect, vars, link, main
    <3>3. ~ backlog'
      BY <3>1, <3>2, Zenon
    <3> QED BY <3>2, <3>3 DEF SessionTypes, Linked
  <2> QED BY <2>1, <2>2, <2>3 DEF Gdb
<1>3. CASE GdbConnect \/ GdbQuit
  <2>1. IInv' /\ WorkerExclusive'
    BY <1>3, NextKeepsInvariant, NextKeepsExclusive
       DEF SessionTypes, Next, AnyHost, GdbConnect, GdbQuit
  <2>2. Channels'
    BY <1>3, EmptySeq DEF GdbConnect, GdbQuit, HostConnect, HostDisconnect, SessionTypes,
                          Channels, FromGdb
  <2>3. ClientTypeOK'
    BY <1>1, <1>3 DEF GdbConnect, GdbQuit, SessionTypes, ClientTypeOK
  <2> QED BY <1>2, <2>1, <2>2, <2>3 DEF SessionTypes
<1>4. CASE GdbLost
  <2>1. IInv' /\ WorkerExclusive'
    BY <1>4, NextKeepsInvariant, NextKeepsExclusive DEF SessionTypes, GdbLost
  <2>2. Channels'
    BY <1>4 DEF GdbLost, SessionTypes, Channels, FromGdb, vars, link
  <2>3. ClientTypeOK'
    BY <1>1, <1>4 DEF GdbLost, SessionTypes, ClientTypeOK
  <2> QED BY <1>2, <2>1, <2>2, <2>3 DEF SessionTypes
<1>5. CASE GdbGreet \/ GdbInterrupt
  <2>1. /\ inbound' \in Seq(Item) /\ inbound' \in Seq(FromGdb')
        /\ queue' \in Seq(FromGdb') /\ outbound' = outbound /\ sent' = sent
    BY <1>5, SayTypes DEF GdbGreet, GdbInterrupt, GdbSend
  <2>2. IInv' /\ WorkerExclusive'
    BY <1>5, <2>1, ClientStep
       DEF GdbGreet, GdbInterrupt, GdbSend, SessionTypes, IInv, LinkType
  <2>3. ClientTypeOK'
    <3>1. /\ gdb' \in {"off", "connecting", "idle", "sent", "waiting"}
          /\ command' \in Commands \cup {"none"} /\ asked' \subseteq Commands
      BY <1>5, GdbAssumption, ClientFacts DEF GdbGreet, GdbInterrupt
    <3>2. interrupts' \in 0 .. MaxInterrupts
      BY <1>5, GdbAssumption, ClientFacts DEF GdbGreet, GdbInterrupt
    <3> QED BY <1>1, <3>1, <3>2, Zenon DEF ClientTypeOK
  <2> QED BY <1>2, <2>1, <2>2, <2>3 DEF SessionTypes, Channels
<1>6. CASE GdbCommand
  <2>1. PICK kind \in GdbCommands : /\ GdbSend(<< kind >>) /\ command' = kind
                                    /\ asked' = asked \cup {kind}
    BY <1>6 DEF GdbCommand
  <2>2. kind \in Commands
    BY GdbAssumption
  <2>3. /\ inbound' \in Seq(Item) /\ inbound' \in Seq(FromGdb')
        /\ queue' \in Seq(FromGdb') /\ outbound' = outbound
    BY <2>1, <2>2, SayTypes DEF GdbSend
  <2>4. sent' \in 0 .. MaxItems
    BY <1>6, BoundsAssumption DEF GdbCommand, SessionTypes, IInv, LinkType
  <2>5. IInv' /\ WorkerExclusive'
    BY <2>1, <2>3, <2>4, ClientStep DEF GdbSend, SessionTypes, IInv, LinkType
  <2>6. ClientTypeOK'
    <3>1. /\ gdb' \in {"off", "connecting", "idle", "sent", "waiting"}
          /\ command' \in Commands \cup {"none"} /\ asked' \subseteq Commands
      BY <1>6, <2>1, GdbAssumption, ClientFacts DEF GdbCommand
    <3>2. interrupts' \in 0 .. MaxInterrupts
      BY <1>6, <2>1, GdbAssumption, ClientFacts DEF GdbCommand
    <3> QED BY <1>1, <3>1, <3>2, Zenon DEF ClientTypeOK
  <2> QED BY <1>2, <2>3, <2>5, <2>6 DEF SessionTypes, Channels
<1>7. CASE GdbReceive
  <2>1. outbound' \in Seq(FromStub) /\ outbound' \in Seq(Written)
    BY <1>7, HeadTailProperties
       DEF GdbReceive, GdbTake, SessionTypes, Channels, IInv, LinkType
  <2>4. /\ inbound' \in Seq(Item) /\ inbound' \in Seq(FromGdb')
        /\ queue' \in Seq(FromGdb')
    BY <1>7, SaysAckOnly, SayTypes DEF GdbReceive, GdbTake
  <2>5. IInv' /\ WorkerExclusive'
    BY <1>7, <2>1, <2>4, ClientStep DEF GdbReceive, GdbTake, SessionTypes, IInv, LinkType
  <2>6. ClientTypeOK'
    <3>1. /\ gdb' \in {"off", "connecting", "idle", "sent", "waiting"}
          /\ command' \in Commands \cup {"none"} /\ asked' \subseteq Commands
      BY <1>7, ClientFacts DEF GdbReceive
    <3>2. interrupts' \in 0 .. MaxInterrupts
      BY <1>7, GdbAssumption, ClientFacts DEF GdbReceive
    <3> QED BY <1>1, <3>1, <3>2, Zenon DEF ClientTypeOK
  <2> QED BY <1>2, <2>1, <2>4, <2>5, <2>6 DEF SessionTypes, Channels
<1> QED BY <1>3, <1>4, <1>5, <1>6, <1>7 DEF Gdb

LEMMA StubKeepsTypes ==
    ASSUME SessionTypes, Stub
    PROVE  SessionTypes'
<1>1. IInv' /\ WorkerExclusive'
  BY NextKeepsInvariant, NextKeepsExclusive DEF SessionTypes, Next, Stub
<1>2. ClientTypeOK'
  <2>1. clean' \in BOOLEAN
    BY Zenon DEF Stub, Observed, NothingLeft, SessionTypes, ClientTypeOK
  <2> QED BY <2>1 DEF Stub, Observed, user, SessionTypes, ClientTypeOK
<1>3. Channels' /\ Linked'
  <2>1. CASE Main
    BY <2>1, MainKeepsChannels, MainKeepsLinked DEF Stub, Observed, user
  <2>2. CASE Worker
    <3>1. Channels'
      BY <2>2 DEF Worker, link, Stub, Observed, user, SessionTypes, Channels, FromGdb
    <3>2. Linked'
      BY <2>2, Zenon DEF Worker, link, main, Stub, Observed, user, SessionTypes, Linked
    <3> QED BY <3>1, <3>2
  <2> QED BY <2>1, <2>2 DEF Stub
<1> QED BY <1>1, <1>2, <1>3 DEF SessionTypes

-----------------------------------------------------------------------------
(* The stub's steps *)

(* What the stub writes besides responses are ACKs. *)
LEMMA Acknowledged ==
    ASSUME SessionTypes, Write(Ack), socket = "open", NoResponseOut
    PROVE  /\ NoResponseOut' /\ outbound' # << >> /\ outbound'[1].kind = "ack"
           /\ socket' = "open"
<1>1. outbound \in Seq(FromStub)
  BY DEF SessionTypes, Channels
<1>2. \A i \in 1 .. Len(outbound) : outbound[i].kind = "ack"
  BY <1>1 DEF NoResponseOut, IsResponse, FromStub, Response, StopReasons
<1> DEFINE ack == OnConnection("ack")
<1>3. outbound' = outbound \o << ack >> /\ socket' = "open"
  BY DEF Write, Ack
<1>4. ack.kind = "ack"
  BY DEF OnConnection
<1> HIDE DEF ack
<1>5. outbound' # << >> /\ \A i \in 1 .. Len(outbound') : outbound'[i].kind = "ack"
  BY <1>1, <1>2, <1>3, <1>4
<1>6. DOMAIN outbound' = 1 .. Len(outbound') /\ Len(outbound') \in Nat
  BY <1>1, <1>3
<1> QED BY <1>3, <1>5, <1>6 DEF NoResponseOut, IsResponse

(* The stub takes the command. *)
LEMMA CommandTaken ==
    ASSUME SessionTypes, NEW p \in {0, 1}, Idle(p), Shifted, Wire[1].kind \in Commands,
           Write(Ack), UNCHANGED user, socket # "none"
    PROVE  /\ Busy' /\ (socket = "open" => NoResponseOut' /\ Wire[1].kind = command)
           /\ socket' = socket
<1>1. p = 0
  BY WireItems DEF Idle, Exchange, Commands, Runs
<1>2. CtrlC(2, Len(Wire))
  BY <1>1 DEF Idle, Exchange
<1>3. CtrlC(1, Len(Wire))'
  BY <1>2 DEF CtrlC, Shifted
<1>4. ASSUME socket = "open"
      PROVE  /\ NoResponseOut' /\ outbound' # << >> /\ outbound'[1].kind = "ack"
             /\ gdb' \in {"sent", "waiting"} /\ Wire[1].kind = command
             /\ Len(Wire') > 0 => interrupts' > 0
  BY <1>1, <1>4, Acknowledged DEF Idle, Shifted, user
<1>5. socket' = socket
  BY DEF Write
<1> QED BY <1>3, <1>4, <1>5 DEF Busy

(* The stub takes the ACK of the last exchange. *)
LEMMA ExchangeEnds ==
    ASSUME SessionTypes, NEW p \in Nat, Idle(p), Shifted, Wire[1].kind = "ack",
           UNCHANGED user, socket' = socket, pc' = "receive",
           socket = "open" => NoResponseOut'
    PROVE  Idle(0)'
<1>1. p = 1
  BY DEF Idle, Exchange, Commands, Runs, CtrlC, Shifted
<1>2. Exchange(0)'
  <2>1. Len(Wire) > 1 => Wire[2].kind \in Commands
    BY <1>1 DEF Idle, Exchange
  <2>2. CtrlC(3, Len(Wire))
    BY <1>1 DEF Idle, Exchange
  <2>3. CtrlC(2, Len(Wire))'
    BY <2>2 DEF CtrlC, Shifted
  <2> QED BY <2>1, <2>3 DEF Exchange, Shifted
<1>3. ASSUME socket = "open"
      PROVE  /\ Len(Wire') = 0 => gdb' \in {"connecting", "idle"}
             /\ Len(Wire') > 0 => gdb' \in {"sent", "waiting"} /\ Wire'[1].kind = command'
             /\ Len(Wire') > 1 => interrupts' > 0
             /\ gdb' # "connecting"
  BY <1>1, <1>3 DEF Idle, Shifted, user
<1> QED BY <1>2, <1>3 DEF Idle

LEMMA ReceiveStoppedStep ==
    ASSUME SessionTypes, Step, ReceiveStopped, UNCHANGED user, socket' # "none"
    PROVE  Step'
<1>1. PICK p \in {0, 1} : Idle(p)
  BY DEF ReceiveStopped, Take, Step
<1>2. /\ Take("receive") /\ Write(Ack) /\ Wire[1] = Head(queue) /\ Shifted
      /\ Wire[1] \in FromGdb /\ socket # "none"
      /\ Head(queue).kind \notin {"unhandled", "ctrl_c"}
  BY TakeHead, TakeShifts DEF ReceiveStopped, WriteAndClose, Write
<1>3. CASE Head(queue).kind \in {"ack", "nak"}
  <2>1. Wire[1].kind = "ack" /\ pc' = "receive" /\ socket' = socket
    BY <1>2, <1>3, Kinds3
       DEF ReceiveStopped, Resume, Goto, Write, SessionTypes, Commands, Runs
  <2>2. socket = "open" => NoResponseOut'
    BY <1>1, <1>2, Acknowledged DEF Idle
  <2>3. Idle(0)'
    BY <1>1, <1>2, <2>1, <2>2, ExchangeEnds
  <2> QED BY <2>1, <2>3 DEF Step
<1>4. CASE Head(queue).kind \in Commands
  <2>1. /\ Busy' /\ (socket = "open" => NoResponseOut' /\ Wire[1].kind = command)
        /\ socket' = socket
    BY <1>1, <1>2, <1>4, CommandTaken
  <2>2. CASE Head(queue).kind = "kill"
    <3>1. pc' = "exited"
      BY <2>2 DEF ReceiveStopped, Exit, Goto
    <3> QED BY <2>1, <3>1 DEF Step
  <2>3. CASE Head(queue).kind \in {"request", "query", "unknown"}
    <3>1. /\ pc' = "send" /\ response'.kind \in {"answer", "unsupported"}
          /\ response'.kind = "unsupported" <=> Head(queue).kind = "unknown"
      BY <2>3 DEF ReceiveStopped, Respond, Goto
    <3>2. socket = "open" => Right(response.kind)'
      BY <1>2, <2>1, <2>3, <3>1 DEF Right, Answers, user
    <3>3. Sending'
      BY <2>1, <3>2 DEF Sending
    <3> QED BY <3>1, <3>3 DEF Step
  <2> QED BY <1>2, <1>4, <2>2, <2>3 DEF ReceiveStopped, Commands
<1> QED BY <1>2, <1>3, <1>4 DEF ReceiveStopped, Commands

LEMMA StartRunStep ==
    ASSUME SessionTypes, Step, StartRun, UNCHANGED user
    PROVE  Step'
<1>1. PICK p \in {0, 1} : Idle(p)
  BY DEF StartRun, Take, Step
<1>2. /\ Take("receive") /\ Write(Ack) /\ Wire[1] = Head(queue) /\ Shifted
      /\ Wire[1].kind \in Runs /\ socket # "none" /\ pc' = "wait"
  BY TakeHead, TakeShifts DEF StartRun, Write, Goto
<1>3. /\ Busy' /\ (socket = "open" => NoResponseOut' /\ Wire[1].kind = command)
      /\ socket' = socket
  BY <1>1, <1>2, CommandTaken DEF Commands
<1>4. socket = "open" => command' \in Runs /\ WorkerRight'
  BY <1>2, <1>3 DEF StartRun, WorkerRight, Right, Answers, Runs, user
<1>5. ~ interrupt'
  <2>1. interrupt' = FALSE
    BY DEF StartRun
  <2> QED BY <2>1, Zenon
<1>6. Running'
  BY <1>3, <1>4, <1>5, Zenon DEF Running
<1> QED BY <1>2, <1>6 DEF Step

LEMMA WaitStep ==
    ASSUME Step, WaitReady \/ WaitTimeout, UNCHANGED user
    PROVE  Step'
<1>1. Running /\ UNCHANGED << link, queue >> /\ pc = "wait" /\ Wire' = Wire
  BY DEF WaitReady, WaitTimeout, Step, Wire, link
<1>2. Busy' /\ (socket' = "open" => socket = "open" /\ NoResponseOut')
  BY <1>1 DEF Running, Busy, NoResponseOut, CtrlC, link, user
<1>3. CASE WaitReady /\ worker = "done"
  <2>1. pc' = "send" /\ response'.kind = stop_reason
    BY <1>3 DEF WaitReady, Respond, Goto
  <2>2. Sending'
    BY <1>1, <1>2, <1>3, <2>1 DEF Running, WorkerRight, Right, Sending, user
  <2> QED BY <2>1, <2>2 DEF Step
<1>4. CASE WaitReady /\ worker = "threw"
  <2>1. pc' = "exited"
    BY <1>4 DEF WaitReady, Exit, Goto
  <2> QED BY <1>2, <2>1 DEF Step
<1>5. CASE WaitTimeout
  <2>1. pc' = "poll" /\ UNCHANGED << interrupt, thread, user >>
    BY <1>5 DEF WaitTimeout, Goto
  <2>2. socket' = "open" => command' \in Runs /\ WorkerRight'
    BY <1>1, <1>2, <2>1 DEF Running, WorkerRight, Right, thread, user
  <2>3. socket' = "open" => (interrupt' => interrupts' > 0)
    BY <1>1, <1>2, <2>1, Zenon DEF Running, user
  <2>4. Running'
    BY <1>2, <2>2, <2>3, Zenon DEF Running
  <2> QED BY <2>1, <2>4 DEF Step
<1> QED BY <1>3, <1>4, <1>5 DEF WaitReady

LEMMA PollStep ==
    ASSUME SessionTypes, Step, PollInterrupt \/ PollUnknown \/ PollUnexpected,
           UNCHANGED user, socket' # "none"
    PROVE  Step'
<1>1. /\ Take("poll") /\ Write(Ack) /\ Wire[1] = Head(queue) /\ Shifted
      /\ socket # "none" /\ socket' = socket /\ pc' = "wait" /\ UNCHANGED thread
  BY TakeHead, TakeShifts
     DEF PollInterrupt, PollUnknown, PollUnexpected, WriteAndClose, Write, Goto
<1>2. Running
  BY <1>1 DEF Step, Take
<1>3. CtrlC(1, Len(Wire))'
  BY <1>1, <1>2 DEF Running, Busy, CtrlC, Shifted
<1>4. ASSUME socket = "open"
      PROVE  /\ NoResponseOut' /\ outbound' # << >> /\ outbound'[1].kind = "ack"
             /\ gdb' \in {"sent", "waiting"} /\ interrupts' > 0
             /\ command' \in Runs /\ WorkerRight'
  <2>1. NoResponseOut' /\ outbound' # << >> /\ outbound'[1].kind = "ack"
    BY <1>1, <1>2, <1>4, Acknowledged DEF Running
  <2>2. gdb' \in {"sent", "waiting"} /\ interrupts' > 0 /\ command' \in Runs
    BY <1>1, <1>2, <1>4 DEF Running, Busy, Shifted, user
  <2>3. WorkerRight'
    BY <1>1, <1>2, <1>4 DEF Running, WorkerRight, Right, thread, user
  <2> QED BY <2>1, <2>2, <2>3
<1>5. Busy'
  BY <1>1, <1>3, <1>4 DEF Busy
<1>6. Running'
  BY <1>1, <1>4, <1>5, Zenon DEF Running
<1> QED BY <1>1, <1>6 DEF Step

LEMMA SendStep ==
    ASSUME SessionTypes, Step, SendResponse, UNCHANGED user
    PROVE  Step'
<1>1. /\ Sending /\ response \in Response /\ Write(<< response >>) /\ pc' = "await_ack"
      /\ Wire' = Wire /\ socket' = socket
  BY DEF SendResponse, Step, SessionTypes, IInv, MainType, Write, Wire
<1>2. ASSUME socket = "open"
      PROVE  /\ outbound' # << >> /\ Right(outbound[Len(outbound)].kind)'
             /\ IsResponse(outbound[Len(outbound)])'
             /\ \A i \in 1 .. Len(outbound') - 1 : ~ IsResponse(outbound'[i])
             /\ gdb = "sent" => outbound'[1] = outbound[1]
  <2>1. outbound \in Seq(FromStub) /\ outbound' = outbound \o << response >>
    BY <1>1, <1>2 DEF SessionTypes, Channels, Write
  <2>2. /\ Len(outbound') = Len(outbound) + 1 /\ outbound'[Len(outbound')] = response
        /\ \A i \in 1 .. Len(outbound) : outbound'[i] = outbound[i]
    BY <2>1
  <2>3. IsResponse(response)
    BY <1>1 DEF IsResponse, Response, StopReasons
  <2>4. \A i \in 1 .. Len(outbound) : ~ IsResponse(outbound[i])
    BY <1>1, <1>2, <2>1 DEF Sending, NoResponseOut
  <2>5. Right(outbound[Len(outbound)].kind)'
    BY <1>1, <1>2, <2>2 DEF Sending, Right, user
  <2>6. gdb = "sent" => Len(outbound) > 0
    BY <1>1, <1>2, <2>1 DEF Sending, Busy
  <2>7. \A i \in 1 .. Len(outbound') - 1 : ~ IsResponse(outbound'[i])
    BY <2>1, <2>2, <2>4 DEF IsResponse
  <2> QED BY <2>1, <2>2, <2>3, <2>5, <2>6, <2>7 DEF IsResponse
<1>3. Busy'
  BY <1>1, <1>2 DEF Sending, Busy, CtrlC, user
<1>4. Answered'
  BY <1>1, <1>2, <1>3 DEF Answered
<1> QED BY <1>1, <1>4 DEF Step

LEMMA AckStep ==
    ASSUME SessionTypes, Step, AckReceived, UNCHANGED user
    PROVE  Step'
<1>1. /\ Take("await_ack") /\ Wire[1].kind = "ack" /\ Shifted /\ UNCHANGED link
      /\ pc' = "receive" /\ pc = "await_ack"
  BY TakeShifts DEF AckReceived, Resume, Goto, link, Take
<1>2. ~ Answered
  BY <1>1 DEF Answered, Busy, CtrlC, Shifted
<1>3. PICK p \in Nat \ {0} : Idle(p)
  BY <1>1, <1>2 DEF Step
<1>4. Idle(0)'
  BY <1>1, <1>3, ExchangeEnds DEF Idle, NoResponseOut, link
<1> QED BY <1>1, <1>4 DEF Step

LEMMA AcceptStep ==
    ASSUME SessionTypes, Accept, UNCHANGED user, NothingLeft
    PROVE  Step'
<1>1. gdb' = "connecting" /\ pc' = "receive" /\ socket' = "open"
  BY DEF Accept, NothingLeft, SessionTypes, Linked, user, main
<1>2. Wire' = << >> /\ outbound' = << >>
  BY DEF Accept, NothingLeft, Wire
<1>3. Idle(0)'
  BY <1>1, <1>2 DEF Idle, Exchange, CtrlC, NoResponseOut
<1> QED BY <1>1, <1>3 DEF Step

(* Where the bytes are on their way does not matter. *)
LEMMA SameStep ==
    ASSUME Step, Wire' = Wire, UNCHANGED << main, thread, socket, outbound, user >>
    PROVE  Step'
<1>1. UNCHANGED << pc, response, gdb, command, interrupts >>
  BY DEF main, user
<1>2. ASSUME NEW p \in Nat, Idle(p) PROVE Idle(p)'
  BY <1>1, <1>2 DEF Idle, Exchange, CtrlC, NoResponseOut
<1>3. Busy => Busy'
  BY <1>1 DEF Busy, CtrlC
<1>4. NoResponseOut => NoResponseOut'
  BY DEF NoResponseOut
<1>5. Running => Running'
  <2>1. WorkerRight => WorkerRight'
    BY <1>1 DEF WorkerRight, Right, thread
  <2>2. interrupt' = interrupt
    BY DEF main
  <2> QED BY <1>1, <1>3, <1>4, <2>1, <2>2, Zenon DEF Running
<1>6. Sending => Sending'
  BY <1>1, <1>3, <1>4 DEF Sending, Right
<1>7. Answered => Answered'
  BY <1>1, <1>3 DEF Answered, Right
<1> QED BY <1>1, <1>2, <1>4, <1>5, <1>6, <1>7 DEF Step

LEMMA ReadStep ==
    ASSUME SessionTypes, Step, Read, UNCHANGED user
    PROVE  Step'
  BY ReadKeepsWire, SameStep DEF Read

LEMMA WorkerStep ==
    ASSUME SessionTypes, Step, Worker, UNCHANGED user, socket # "none"
    PROVE  Step'
<1>1. /\ UNCHANGED << main, link, queue, user >> /\ worker = "running"
      /\ CycleHits \/ CycleThrows \/ CyclePasses
  BY DEF Worker, CycleHits, CycleThrows, CyclePasses
<1>2. pc \in {"wait", "poll"} /\ Running
  BY <1>1 DEF SessionTypes, WorkerExclusive, IInv, MainType, Linked, Step
<1>3. /\ Wire' = Wire /\ UNCHANGED << pc, socket, outbound, gdb, command, interrupts >>
      /\ interrupt' = interrupt
  BY <1>1 DEF main, link, user, Wire
<1>4. Busy' /\ (NoResponseOut => NoResponseOut')
  BY <1>2, <1>3 DEF Running, Busy, CtrlC, NoResponseOut
<1>5. ASSUME socket = "open"
      PROVE  WorkerRight'
  <2>1. /\ command \in Runs /\ WorkerRight /\ cycles \in 0 .. MaxCycles
        /\ command = "continue" => cycles = 0
    BY <1>1, <1>2, <1>5 DEF Running, WorkerRight, SessionTypes, IInv, ThreadType
  <2>2. interrupt => interrupts > 0
    BY <1>2, <1>5, Zenon DEF Running
  <2>3. CASE CycleHits
    BY <1>3, <2>1, <2>3 DEF CycleHits, Finish, WorkerRight, Right, Answers, Runs
  <2>4. CASE CycleThrows
    BY <1>3, <2>1, <2>4 DEF CycleThrows, WorkerRight
  <2>5. CASE CyclePasses
    <3>1. \/ interrupts > 0 /\ worker' = "done" /\ stop_reason' = "int"
          \/ cycles = 1 /\ worker' = "done" /\ stop_reason' = "trap"
          \/ worker' = worker /\ (cycles = 0 => cycles' = 0)
      <4>1. CASE interrupt
        BY <2>2, <2>5, <4>1, Zenon DEF CyclePasses, Finish
      <4>2. CASE ~ interrupt
        <5>1. IF cycles = 1 THEN Finish("trap")
              ELSE /\ cycles' = IF cycles = 0 THEN 0 ELSE cycles - 1
                   /\ UNCHANGED << worker, stop_reason, prompt >>
          BY <2>5, <4>2, Zenon DEF CyclePasses
        <5> QED BY <5>1 DEF Finish
      <4> QED BY <4>1, <4>2
    <3> QED BY <1>1, <1>3, <2>1, <3>1 DEF WorkerRight, Right, Answers, Runs
  <2> QED BY <1>1, <2>3, <2>4, <2>5
<1>6. Running'
  BY <1>2, <1>3, <1>4, <1>5, Zenon DEF Running
<1> QED BY <1>2, <1>3, <1>6 DEF Step

LEMMA StubKeepsStep ==
    ASSUME SessionTypes, InStep, Stub
    PROVE  InStep'
<1> SUFFICES ASSUME clean', socket' # "none" PROVE Step'
  BY DEF InStep
<1>0. UNCHANGED user
  BY DEF Stub, Observed
<1>1. CASE Accept
  <2>1. connection' # connection
    BY <1>1 DEF Accept, SessionTypes, IInv, LinkType
  <2>2. NothingLeft
    BY <2>1, Zenon DEF Stub, Observed
  <2> QED BY <1>0, <1>1, <2>2, AcceptStep
<1>2. CASE ~ Accept
  <2>1. connection' = connection /\ socket # "none"
    BY <1>2
       DEF Stub, Main, Read, ConnectionFault, ReceiveDamaged, ReceiveStopped, StartRun,
           WaitReady, WaitTimeout, PollInterrupt, PollUnknown, PollUnexpected, JoinWorker,
           SendResponse, AckReceived, Resend, SendFailed, Drop, Close, Write,
           WriteAndClose, link, Worker
  <2>2. Step
    <3>1. clean
      BY <2>1, Zenon DEF Stub, Observed
    <3> QED BY <2>1, <3>1, Zenon DEF InStep
  <2>3. ~ JoinWorker
    BY <2>1 DEF JoinWorker, SessionTypes, Linked
  <2>4. ~ ConnectionFault /\ ~ SendFailed
    BY DEF ConnectionFault, SendFailed, Drop, Close, WriteAndClose
  <2>5. \/ Read \/ ReceiveStopped \/ StartRun \/ WaitReady \/ WaitTimeout
        \/ PollInterrupt \/ PollUnknown \/ PollUnexpected \/ SendResponse \/ AckReceived
        \/ Worker
    BY <1>2, <2>3, <2>4, Undamaged DEF Stub, Main
  <2> QED BY <1>0, <2>1, <2>2, <2>5, ReadStep, ReceiveStoppedStep, StartRunStep, WaitStep,
             PollStep, SendStep, AckStep, WorkerStep
<1> QED BY <1>1, <1>2

-----------------------------------------------------------------------------
(* GDB's steps *)

(* Where there is no open connection, GDB does not matter. *)
LEMMA AwayStep ==
    ASSUME SessionTypes, Step, UNCHANGED << pc, queue, inbound >>, socket' # "open"
    PROVE  Step'
<1>1. Wire' = Wire
  BY DEF Wire
<1>2. ASSUME NEW p \in Nat, Idle(p) PROVE Idle(p)'
  BY <1>1, <1>2 DEF Idle, Exchange, CtrlC
<1>3. Busy => Busy'
  BY <1>1 DEF Busy, CtrlC
<1>4. /\ Running => Running'
      /\ Sending => Sending'
      /\ Answered => Answered'
  BY <1>3, Zenon DEF Running, Sending, Answered
<1> QED BY <1>2, <1>4 DEF Step

LEMMA GreetStep ==
    ASSUME SessionTypes, Step, GdbGreet
    PROVE  Step'
<1>1. /\ Extended("ack") /\ gdb = "connecting" /\ gdb' = "idle" /\ socket' = "open"
      /\ socket = "open" /\ UNCHANGED << pc, outbound >>
  BY SayExtends DEF GdbGreet, GdbSend, main
<1>2. pc \in {"receive", "exited"}
  BY <1>1 DEF Step, Running, Sending, Answered, Busy, Idle, SessionTypes, IInv, MainType,
              Linked
<1>3. CASE pc = "receive"
  <2>1. Wire = << >> /\ NoResponseOut
    BY <1>1, <1>3 DEF Step, Idle
  <2>2. Len(Wire') = 1 /\ Wire'[1].kind = "ack"
    BY <1>1, <2>1 DEF Extended
  <2>3. Idle(1)'
    BY <1>1, <2>1, <2>2 DEF Idle, Exchange, CtrlC, NoResponseOut
  <2> QED BY <1>1, <1>3, <2>3 DEF Step
<1>4. CASE pc = "exited"
  BY <1>1, <1>4 DEF Step, NoResponseOut
<1> QED BY <1>2, <1>3, <1>4

LEMMA CommandStep ==
    ASSUME SessionTypes, Step, GdbCommand
    PROVE  Step'
<1>1. PICK kind \in GdbCommands : GdbSend(<< kind >>) /\ command' = kind
  BY DEF GdbCommand
<1>2. /\ Extended(kind) /\ gdb = "idle" /\ gdb' = "sent" /\ kind \in Commands
      /\ socket = "open" /\ socket' = "open" /\ UNCHANGED << pc, outbound >>
  BY <1>1, SayExtends, GdbAssumption DEF GdbCommand, GdbSend, main
<1>3. pc \in {"receive", "await_ack", "exited"}
  BY <1>2 DEF Step, Running, Sending, Busy, SessionTypes, IInv, MainType, Linked
<1>4. ASSUME NEW p \in Nat, Idle(p)
      PROVE  Idle(p)'
  <2>1. Len(Wire) = p /\ NoResponseOut
    BY <1>2, <1>4, WireItems DEF Idle, Exchange
  <2>2. Len(Wire') = p + 1 /\ Wire'[p + 1].kind = kind
    BY <1>2, <2>1 DEF Extended
  <2>3. p > 0 => Wire'[p].kind = "ack" /\ CtrlC(1, p - 1)'
    BY <1>2, <1>4, <2>1 DEF Idle, Exchange, CtrlC, Extended
  <2>4. Exchange(p)'
    BY <1>2, <1>4, <2>2, <2>3 DEF Exchange, CtrlC
  <2> QED BY <1>1, <1>2, <1>4, <2>1, <2>2, <2>4 DEF Idle, NoResponseOut
<1>5. CASE pc = "receive"
  BY <1>2, <1>4, <1>5 DEF Step
<1>6. CASE pc = "await_ack"
  BY <1>2, <1>4, <1>6 DEF Step, Answered, Busy
<1>7. CASE pc = "exited"
  BY <1>2, <1>7 DEF Step, NoResponseOut
<1> QED BY <1>3, <1>5, <1>6, <1>7

LEMMA InterruptStep ==
    ASSUME SessionTypes, Step, GdbInterrupt
    PROVE  Step'
<1>1. /\ Extended("ctrl_c") /\ gdb = "waiting" /\ gdb' = gdb /\ interrupts' > 0
      /\ socket = "open" /\ socket' = "open" /\ UNCHANGED << pc, outbound, command >>
      /\ UNCHANGED << thread, response >>
  BY SayExtends DEF GdbInterrupt, GdbSend, main, SessionTypes, ClientTypeOK
<1>2. ASSUME NEW p \in Nat, Idle(p)
      PROVE  Idle(p)'
  <2>1. Len(Wire) > p /\ NoResponseOut
    BY <1>1, <1>2, WireItems DEF Idle, Exchange
  <2>2. Exchange(p)'
    BY <1>1, <1>2, <2>1 DEF Idle, Exchange, CtrlC, Extended
  <2> QED BY <1>1, <1>2, <2>1, <2>2 DEF Idle, NoResponseOut, Extended
<1>3. Busy => Busy'
  BY <1>1 DEF Busy, CtrlC, Extended
<1>4. NoResponseOut => NoResponseOut'
  BY <1>1 DEF NoResponseOut
<1>5. Running => Running'
  <2>1. WorkerRight => WorkerRight'
    BY <1>1 DEF WorkerRight, Right, thread
  <2>2. interrupts' > 0 /\ command' = command
    BY <1>1
  <2> QED BY <1>1, <1>3, <1>4, <2>1, <2>2, Zenon DEF Running
<1>6. Sending => Sending'
  BY <1>1, <1>3, <1>4 DEF Sending, Right
<1>7. Answered => Answered'
  BY <1>1, <1>3 DEF Answered, Right
<1> QED BY <1>1, <1>2, <1>4, <1>5, <1>6, <1>7 DEF Step

(* GDB skips an ACK. *)
LEMMA SkipStep ==
    ASSUME SessionTypes, Step, GdbReceive, socket = "open", Head(outbound).kind = "ack"
    PROVE  Step'
<1>1. /\ outbound # << >> /\ outbound' = Tail(outbound) /\ outbound \in Seq(FromStub)
      /\ gdb' = "waiting" /\ gdb \in {"sent", "waiting"}
      /\ UNCHANGED << main, thread, queue, socket, command, interrupts >>
  BY DEF GdbReceive, GdbTake, SessionTypes, Channels
<1>2. Wire' = Wire
  <2>1. inbound' = inbound
    BY SayNothing DEF GdbReceive
  <2> QED BY <1>1, <2>1 DEF Wire
<1>3. NoResponseOut => NoResponseOut'
  BY <1>1 DEF NoResponseOut, IsResponse
<1>4. UNCHANGED << pc, response >>
  BY <1>1 DEF main
<1>5. Busy => Busy'
  BY <1>1, <1>2 DEF Busy, CtrlC
<1>6. ASSUME NEW p \in Nat, Idle(p) PROVE Idle(p)'
  BY <1>1, <1>2, <1>3, <1>4, <1>6 DEF Idle, Exchange, CtrlC
<1>7. Running => Running'
  <2>1. WorkerRight => WorkerRight'
    BY <1>1 DEF WorkerRight, Right, thread
  <2>2. interrupt' = interrupt /\ UNCHANGED << socket, command, interrupts >>
    BY <1>1 DEF main
  <2> QED BY <1>3, <1>5, <2>1, <2>2, Zenon DEF Running
<1>8. Sending => Sending'
  BY <1>1, <1>3, <1>4, <1>5 DEF Sending, Right
<1>9. Answered => Answered'
  <2> SUFFICES ASSUME Answered PROVE Answered'
    OBVIOUS
  <2>1. Len(outbound) > 1
    BY <1>1 DEF Answered, IsResponse
  <2>2. /\ Len(outbound') = Len(outbound) - 1 /\ Len(outbound) \in Nat
        /\ \A i \in 1 .. Len(outbound') : outbound'[i] = outbound[i + 1]
    BY <1>1
  <2>3. outbound'[Len(outbound')] = outbound[Len(outbound)]
    BY <2>1, <2>2
  <2>4. outbound' # << >>
    BY <2>1, <2>2
  <2>5. \A i \in 1 .. Len(outbound') - 1 : ~ IsResponse(outbound'[i])
    <3> SUFFICES ASSUME NEW i \in 1 .. Len(outbound') - 1 PROVE ~ IsResponse(outbound'[i])
      OBVIOUS
    <3>1. i + 1 \in 1 .. Len(outbound) - 1 /\ outbound'[i] = outbound[i + 1]
      BY <1>1, <2>1, <2>2
    <3> QED BY <3>1 DEF Answered, IsResponse
  <2> QED BY <1>1, <1>5, <2>3, <2>4, <2>5 DEF Answered, Right, IsResponse
<1> QED BY <1>1, <1>3, <1>4, <1>6, <1>7, <1>8, <1>9 DEF Step

(* GDB takes the response and acknowledges it. *)
LEMMA ResponseStep ==
    ASSUME SessionTypes, Step, GdbReceive, socket = "open", Head(outbound).kind # "ack"
    PROVE  Step'
<1>1. /\ outbound # << >> /\ outbound' = Tail(outbound) /\ outbound \in Seq(FromStub)
      /\ Head(outbound) \in FromStub /\ gdb \in {"sent", "waiting"}
      /\ UNCHANGED << main, thread, queue, socket, command, interrupts >>
  BY HeadTailProperties DEF GdbReceive, GdbTake, SessionTypes, Channels
<1>2. IsResponse(Head(outbound)) /\ outbound[1] = Head(outbound) /\ 1 \in DOMAIN outbound
  BY <1>1 DEF FromStub, Response, StopReasons, IsResponse
<1>3. ~ NoResponseOut
  BY <1>1, <1>2 DEF NoResponseOut
<1>4. pc = "await_ack" /\ Answered
  BY <1>1, <1>3 DEF Step, Running, Sending, Idle, SessionTypes, Linked, IInv, MainType
<1>5. Len(outbound) = 1 /\ gdb = "waiting"
  <2>1. outbound[1].kind # "ack" /\ IsResponse(outbound[1]) /\ Len(outbound) \in Nat \ {0}
    BY <1>1, <1>2 DEF IsResponse
  <2>2. gdb # "sent"
    BY <1>4, <2>1 DEF Answered, Busy
  <2>3. ~ (1 \in 1 .. Len(outbound) - 1)
    BY <1>4, <2>1 DEF Answered
  <2> QED BY <1>1, <2>1, <2>2, <2>3
<1>6. gdb' = "idle" /\ outbound' = << >> /\ Extended("ack")
  <2>1. gdb' = "idle" /\ GdbSay(<< "ack" >>)
    BY <1>2, <1>5 DEF GdbReceive, IsResponse
  <2> QED BY <1>1, <1>5, <2>1, SayExtends
<1> DEFINE p == Len(Wire')
<1>7. p \in Nat \ {0} /\ Wire'[p].kind = "ack"
  BY <1>6 DEF Extended
<1>8. CtrlC(1, Len(Wire))
  BY <1>4 DEF Answered, Busy
<1>9. ASSUME NEW n \in Nat \ {0}, n = p
      PROVE  Idle(n)'
  <2>1. CtrlC(1, n - 1)'
    BY <1>6, <1>8, <1>9 DEF CtrlC, Extended
  <2>2. Exchange(n)'
    BY <1>7, <1>9, <2>1 DEF Exchange, CtrlC
  <2> QED BY <1>6, <1>7, <1>9, <2>2 DEF Idle, NoResponseOut
<1> QED BY <1>1, <1>4, <1>7, <1>9 DEF Step, main

LEMMA GdbKeepsStep ==
    ASSUME SessionTypes, InStep, Gdb
    PROVE  InStep'
<1> SUFFICES ASSUME clean', socket' # "none" PROVE Step'
  BY DEF InStep
<1>1. clean
  BY Zenon DEF Gdb, GdbConnect, GdbGreet, GdbCommand, GdbInterrupt, GdbReceive, GdbLost,
               GdbQuit
<1>2. socket # "none"
  BY DEF Gdb, GdbConnect, GdbGreet, GdbCommand, GdbInterrupt, GdbReceive, GdbLost, GdbQuit,
         GdbSend, GdbTake, HostConnect, HostDisconnect, vars, link
<1>3. Step
  BY <1>1, <1>2, Zenon DEF InStep
<1>4. CASE GdbGreet \/ GdbCommand \/ GdbInterrupt
  BY <1>3, <1>4, GreetStep, CommandStep, InterruptStep
<1>5. CASE GdbReceive
  <2>1. CASE socket = "open"
    BY <1>3, <1>5, <2>1, SkipStep, ResponseStep
  <2>2. CASE socket # "open"
    <3>1. inbound' = inbound
      BY <1>5, <2>2, SaysAckOnly DEF GdbSay
    <3>2. queue' = queue /\ pc' = pc /\ socket' = socket
      BY <1>5 DEF GdbReceive, GdbTake, main
    <3> QED BY <1>3, <2>2, <3>1, <3>2, AwayStep
  <2> QED BY <2>1, <2>2
<1>6. CASE GdbConnect \/ GdbQuit
  <2>1. UNCHANGED << pc, queue, inbound >> /\ socket' # "open"
    BY <1>6 DEF GdbConnect, GdbQuit, HostConnect, HostDisconnect, main
  <2> QED BY <1>3, <2>1, AwayStep
<1>7. CASE GdbLost
  <2>1. UNCHANGED << pc, queue, inbound, socket, outbound >>
    BY <1>7 DEF GdbLost, vars, main, link
  <2>2. CASE socket = "open"
    BY <1>3, <1>7, <2>1, <2>2 DEF GdbLost, Step, NoResponseOut
  <2> QED BY <1>3, <2>1, <2>2, AwayStep
<1> QED BY <1>4, <1>5, <1>6, <1>7 DEF Gdb

-----------------------------------------------------------------------------
(* The end of the process *)

LEMMA ExitKeepsReason ==
    ASSUME SessionInv, SessionNext, pc' = "exited", clean'
    PROVE  asked' \cap {"kill", "unhandled"} # {} \/ worker' = "threw"
<1>1. ASSUME pc = "exited", UNCHANGED << worker, clean >>, asked \subseteq asked'
      PROVE  asked' \cap {"kill", "unhandled"} # {} \/ worker' = "threw"
  <2>1. clean
    BY <1>1, Zenon
  <2> QED BY <1>1, <2>1 DEF SessionInv, ExitsOnRequest
<1>2. CASE Gdb
  <2>1. UNCHANGED << pc, worker >> /\ asked \subseteq asked'
    BY <1>2 DEF Gdb, GdbConnect, GdbGreet, GdbCommand, GdbInterrupt, GdbReceive, GdbLost,
                GdbQuit, GdbSend, GdbTake, HostConnect, HostDisconnect, vars, main, thread
  <2>2. clean' = clean
    BY <1>2 DEF Gdb, GdbConnect, GdbGreet, GdbCommand, GdbInterrupt, GdbReceive, GdbLost,
                GdbQuit
  <2> QED BY <1>1, <2>1, <2>2
<1>3. CASE Worker /\ Observed
  <2>1. /\ pc = "exited" /\ worker = "running"
    BY <1>3 DEF Worker, CycleHits, CycleThrows, CyclePasses, main
  <2> QED BY <2>1 DEF SessionInv, SessionTypes, WorkerExclusive
<1>4. CASE Main /\ Observed
  <2>1. CASE WaitReady
    BY <2>1 DEF WaitReady, Respond, Goto
  <2>2. CASE ReceiveStopped
    <3>1. /\ pc = "receive" /\ socket # "none" /\ connection' = connection
          /\ Len(Wire) > 0 /\ Wire[1] = Head(queue) /\ Wire[1] \in FromGdb
          /\ Head(queue).kind \in {"kill", "unhandled", "ctrl_c"}
      BY <2>2, TakeHead, TakeFirst
         DEF SessionInv, ReceiveStopped, Resume, Respond, Goto, Write, WriteAndClose
    <3>2. clean
      BY <1>4, <3>1, Zenon DEF Observed
    <3>3. PICK p \in {0, 1} : Idle(p)
      BY <3>1, <3>2 DEF SessionInv, InStep, Step
    <3>4. Wire[1].kind # "ctrl_c"
      BY <3>1, <3>3 DEF Idle, Exchange, Commands, Runs
    <3> QED BY <1>4, <3>1, <3>4 DEF FromGdb, Observed, user
  <2>3. CASE Accept \/ Read \/ WaitTimeout \/ SendResponse
    BY <2>3 DEF Accept, Read, Receiving, WaitTimeout, SendResponse, Goto, main
  <2>4. CASE \/ ConnectionFault \/ StartRun \/ PollInterrupt \/ PollUnknown
             \/ PollUnexpected \/ JoinWorker \/ AckReceived \/ SendFailed
    BY <2>4 DEF ConnectionFault, StartRun, PollInterrupt, PollUnknown, PollUnexpected,
                JoinWorker, AckReceived, SendFailed, Resume, Drop, Goto
  <2> QED BY <1>4, <2>1, <2>2, <2>3, <2>4, Undamaged DEF Main, SessionInv
<1> QED BY <1>2, <1>3, <1>4 DEF SessionNext, Stub

-----------------------------------------------------------------------------
(* The invariant *)

LEMMA SessionInitially == SessionInit => SessionInv
<1> SUFFICES ASSUME SessionInit PROVE SessionInv
  OBVIOUS
<1>1. WorkerExclusive
  BY DEF SessionInit, Init, WorkerExclusive
<1>2. IInv
  BY InitInvariant DEF SessionInit
<1>3. ClientTypeOK
  <2>1. clean \in BOOLEAN
    BY Zenon DEF SessionInit
  <2> QED BY <2>1, GdbAssumption DEF SessionInit, ClientTypeOK
<1>4. Channels
  BY EmptySeq DEF SessionInit, Init, Channels
<1>5. Linked
  <2>1. ~ backlog
    BY Zenon DEF SessionInit, Init
  <2> QED BY <2>1 DEF SessionInit, Init, Linked
<1>6. InStep /\ ExitsOnRequest
  BY DEF SessionInit, Init, InStep, ExitsOnRequest
<1> QED BY <1>1, <1>2, <1>3, <1>4, <1>5, <1>6 DEF SessionInv, SessionTypes

LEMMA SessionKept == SessionInv /\ [SessionNext]_sessionVars => SessionInv'
<1> SUFFICES ASSUME SessionInv, [SessionNext]_sessionVars PROVE SessionInv'
  OBVIOUS
<1>1. CASE SessionNext
  <2>1. SessionTypes'
    BY <1>1, StubKeepsTypes, GdbKeepsTypes DEF SessionNext, SessionInv
  <2>2. InStep'
    BY <1>1, StubKeepsStep, GdbKeepsStep DEF SessionNext, SessionInv
  <2>3. ExitsOnRequest'
    BY <1>1, ExitKeepsReason DEF ExitsOnRequest
  <2> QED BY <2>1, <2>2, <2>3 DEF SessionInv
<1>2. CASE UNCHANGED sessionVars
  <2>1. UNCHANGED << vars, user >> /\ clean' = clean
    BY <1>2 DEF sessionVars, client
  <2>2. IInv' /\ WorkerExclusive'
    BY <2>1, NextKeepsInvariant, NextKeepsExclusive DEF SessionInv, SessionTypes
  <2>3. ClientTypeOK' /\ Channels' /\ Linked'
    BY <2>1, Zenon DEF SessionInv, SessionTypes, ClientTypeOK, Channels, FromGdb, Linked,
                       vars, user, main, link
  <2>4. InStep'
    <3>1. Wire' = Wire /\ UNCHANGED << main, thread, socket, outbound, user >>
      BY <2>1 DEF vars, link, Wire
    <3>2. Step => Step'
      BY <3>1, SameStep
    <3> QED BY <2>1, <3>1, <3>2, Zenon DEF SessionInv, InStep
  <2>5. ExitsOnRequest'
    BY <2>1, Zenon DEF SessionInv, ExitsOnRequest, vars, user, main, thread
  <2> QED BY <2>2, <2>3, <2>4, <2>5 DEF SessionInv, SessionTypes
<1> QED BY <1>1, <1>2

LEMMA SessionInvariant == SessionSpec => []SessionInv
  BY SessionInitially, SessionKept, PTL DEF SessionSpec

(***************************************************************************)
(* A response on its way is the one response to the command that GDB waits *)
(* on, and SIGINT answers only a run that GDB interrupted, whenever the    *)
(* breakpoint hits, the 50 ms pass and the Ctrl-C arrives                  *)
(* (emulator-debug.cpp:248-305, network.cpp:65-106).                       *)
(***************************************************************************)
THEOREM RepliesCorrect == SessionSpec => []ReplyMatchesCommand
<1>1. SessionInv => ReplyMatchesCommand
  <2> SUFFICES ASSUME SessionInv, NEW i \in DOMAIN outbound, IsResponse(outbound[i]),
                      socket = "open", clean
               PROVE  /\ gdb \in {"sent", "waiting"}
                      /\ outbound[i].kind \in Answers(command)
                      /\ outbound[i].kind = "int" => interrupts > 0
                      /\ \A j \in DOMAIN outbound : IsResponse(outbound[j]) => i = j
    BY DEF ReplyMatchesCommand
  <2>1. ~ NoResponseOut
    BY DEF NoResponseOut
  <2>2. Answered
    BY <2>1 DEF SessionInv, SessionTypes, IInv, MainType, Linked, InStep, Step, Running,
                Sending, Idle
  <2>3. DOMAIN outbound = 1 .. Len(outbound) /\ Len(outbound) \in Nat
    BY DEF SessionInv, SessionTypes, Channels
  <2>4. \A j \in DOMAIN outbound : IsResponse(outbound[j]) => j = Len(outbound)
    BY <2>2, <2>3 DEF Answered
  <2> QED BY <2>2, <2>4 DEF Answered, Busy, Right
<1> QED BY <1>1, SessionInvariant, PTL

(***************************************************************************)
(* The emulator ends because GDB killed it, or sent the command it has no  *)
(* handler for, or because the machine threw: no Ctrl-C of a GDB that      *)
(* keeps to the protocol ends it, however late (emulator-debug.cpp:51-90,  *)
(* 276-305).                                                               *)
(***************************************************************************)
THEOREM ExitsCorrect == SessionSpec => []ExitsOnRequest
<1>1. SessionInv => ExitsOnRequest
  BY DEF SessionInv
<1> QED BY <1>1, SessionInvariant, PTL
=============================================================================
