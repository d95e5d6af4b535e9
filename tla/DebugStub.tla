----------------------------- MODULE DebugStub ------------------------------
(***************************************************************************)
(* The debugging session of the emulator: the main thread of               *)
(* Emulator_debug (run, async_run and the handlers), the worker thread     *)
(* that async_run starts, and the Network_handler that both phases of the  *)
(* main thread block in.                                                   *)
(*                                                                         *)
(* The host's side of the connection is an environment that may connect,   *)
(* send any item at any time, and disconnect; DebugSession.tla replaces it *)
(* with a well-behaved GDB.  An item is what Packet_decoder makes of the   *)
(* bytes (PacketDecoder.tla): a command, a control character, or the error *)
(* that stands for a damaged frame.                                        *)
(***************************************************************************)
EXTENDS Naturals, Sequences

CONSTANTS
    MaxRetry,       \* Network_handler::max_retry_count
    MaxItems,       \* bound: items the host sends in a behaviour
    MaxConnections, \* bound: connections the host opens in a behaviour
    MaxCycles,      \* bound: the cycle count of a step command
    MaxInFlight,    \* bound: unread items from the host
    HostKinds       \* the kinds of item the host may send

ASSUME BoundsAssumption ==
    /\ MaxRetry \in Nat \ {0} /\ MaxItems \in Nat
    /\ MaxConnections \in Nat \ {0} /\ MaxCycles \in Nat \ {0}
    /\ MaxInFlight \in Nat \ {0}

VARIABLES
    pc,             \* main thread: the blocking point it is at
    tries,          \* failed attempts of the send or receive in progress
    response,       \* the response being sent
    interrupt,      \* async_run's atomic flag
    worker,         \* the thread behind the std::future
    cycles,         \* cycles the worker has left; 0 for run_until_trap
    stop_reason,    \* the value in the future
    prompt,         \* the machine is fast: the worker ends a bounded run, and
                    \* obeys an interrupt, within the 50 ms that async_run
                    \* waits for it; fixed at the start
    run_connection, \* the connection the run in progress was asked on
    socket,         \* "eof": the peer has closed, unread items may remain
    backlog,        \* a host has connected and is not accepted yet
    connection,     \* connections accepted so far; names the present one
    inbound,        \* items on their way to the stub
    queue,          \* Packet_decoder::out_queue, which outlives connections
    outbound,       \* what the stub has written and the host not read
    sent            \* items the host has sent

main == << pc, tries, response, interrupt, run_connection >>
thread == << worker, cycles, stop_reason, prompt >>
link == << socket, backlog, connection, inbound, outbound, sent >>
vars == << main, thread, link, queue >>

-----------------------------------------------------------------------------
(* What travels *)

(***************************************************************************)
(* Commands by how the stub treats them.  "request" stands for every       *)
(* command whose handler changes or reads the stopped machine and sends    *)
(* one response (q, g, G, m, M, p, P, z, Z); "query" is '?', "step" is     *)
(* 's' and 'i', "kill" is 'k', "unhandled" is '!', which is parsed but has *)
(* no handler, and "unknown" a packet that command::parse rejects.         *)
(***************************************************************************)
Runs == {"continue", "step"}

Commands == Runs \cup {"request", "query", "kill", "unhandled", "unknown"}

Damage == {"corrupt", "overflow"}   \* Bad_checksum or Bad_packet; Buffer_overflow

Kinds == Commands \cup {"ack", "nak", "ctrl_c"} \cup Damage

ASSUME HostAssumption == HostKinds \subseteq Kinds

Item == [kind : Kinds, connection : 1 .. MaxConnections]

StopReasons == {"trap", "int", "hit"}  \* SIGTRAP, SIGINT, break- or watchpoint

Response == [kind : StopReasons \cup {"answer", "unsupported"},
             connection : 1 .. MaxConnections]

NoResponse == [kind |-> "none", connection |-> 0]

Written == Response \cup [kind : {"ack", "nak"}, connection : 1 .. MaxConnections]

TypeOK ==
    /\ pc \in {"receive", "wait", "poll", "send", "await_ack", "join", "exited"}
    /\ tries \in 0 .. MaxRetry - 1
    /\ response \in Response \cup {NoResponse}
    /\ interrupt \in BOOLEAN
    /\ worker \in {"none", "running", "done", "threw"}
    /\ cycles \in 0 .. MaxCycles
    /\ stop_reason \in StopReasons \cup {"none"} /\ prompt \in BOOLEAN
    /\ run_connection \in 0 .. MaxConnections
    /\ socket \in {"none", "open", "eof"}
    /\ backlog \in BOOLEAN
    /\ connection \in 0 .. MaxConnections
    /\ inbound \in Seq(Item)
    /\ queue \in Seq(Item)
    /\ outbound \in Seq(Written)
    /\ sent \in 0 .. MaxItems

Init ==
    /\ pc = "receive" /\ tries = 0 /\ response = NoResponse
    /\ interrupt = FALSE /\ run_connection = 0
    /\ worker = "none" /\ cycles = 0 /\ stop_reason = "none" /\ prompt \in BOOLEAN
    /\ socket = "none" /\ backlog = FALSE /\ connection = 0
    /\ inbound = << >> /\ queue = << >> /\ outbound = << >> /\ sent = 0

-----------------------------------------------------------------------------
(* Network_handler *)

(***************************************************************************)
(* setup_socket, at the start of receive() and send(): block until a host  *)
(* connects.  The decoder keeps its queue from the connection before.      *)
(***************************************************************************)
Accept ==
    /\ pc \in {"receive", "poll", "send"}
    /\ socket = "none" /\ backlog
    /\ socket' = "open" /\ backlog' = FALSE
    /\ connection' = connection + 1
    /\ inbound' = << >> /\ outbound' = << >>
    /\ UNCHANGED << main, thread, queue, sent >>

(***************************************************************************)
(* close(): the socket goes, the decoder stays as it is.                   *)
(***************************************************************************)
WriteAndClose(items) ==
    /\ socket' = "none"
    /\ inbound' = << >>
    /\ outbound' = IF socket = "open" THEN outbound \o items ELSE outbound
    /\ UNCHANGED << backlog, connection, sent >>

Close == WriteAndClose(<< >>)

(***************************************************************************)
(* asio::write.  To a peer that has gone it is lost.                       *)
(***************************************************************************)
Write(items) ==
    /\ outbound' = IF socket = "open" THEN outbound \o items ELSE outbound
    /\ UNCHANGED << socket, backlog, connection, inbound, sent >>

OnConnection(kind) == [kind |-> kind, connection |-> connection]

Ack == << OnConnection("ack") >>

Nak == << OnConnection("nak") >>

(***************************************************************************)
(* read_some in get_packet_from_decoder: it blocks until the host has sent *)
(* something, and may bring several items at once.                         *)
(***************************************************************************)
Receiving == pc \in {"receive", "poll", "await_ack"} /\ socket # "none"

Read ==
    /\ Receiving
    /\ queue = << >>
    /\ \E n \in 1 .. Len(inbound) :
          /\ queue' = SubSeq(inbound, 1, n)
          /\ inbound' = SubSeq(inbound, n + 1, Len(inbound))
    /\ UNCHANGED << main, thread, socket, backlog, connection, outbound, sent >>

-----------------------------------------------------------------------------
(* Where the main thread goes next *)

Goto(label) == pc' = label /\ tries' = 0

(***************************************************************************)
(* run() returns to receive() with the connection as it is, or after       *)
(* closing it.                                                             *)
(***************************************************************************)
Resume == Goto("receive") /\ response' = NoResponse
                          /\ UNCHANGED << interrupt, run_connection >>

Drop == Resume /\ Close

Respond(r) ==
    /\ Goto("send")
    /\ response' = r
    /\ UNCHANGED << interrupt, run_connection >>

Exit == Goto("exited") /\ response' = NoResponse
                       /\ UNCHANGED << interrupt, run_connection >>

(***************************************************************************)
(* read_some or write throws: the connection is closed and                 *)
(* Connection_fault returned to run() (continue), to async_run (continue)  *)
(* or to send_response (close).                                            *)
(***************************************************************************)
ConnectionFault ==
    /\ socket = "eof"
    /\ \/ Receiving /\ queue = << >> /\ inbound = << >>  \* read_some: end of file
       \/ pc = "send"                                    \* write of the response
       \/ pc \in {"receive", "poll"} /\ queue # << >>    \* write of the ACK or NAK
    /\ Goto(IF pc = "poll" THEN "wait" ELSE "receive")
    /\ response' = NoResponse
    /\ queue' = IF pc # "send" /\ queue # << >> THEN Tail(queue) ELSE queue
    /\ Close
    /\ UNCHANGED << thread, interrupt, run_connection >>

(***************************************************************************)
(* A packet is popped by receive().                                        *)
(***************************************************************************)
Take(label) ==
    /\ pc = label /\ Receiving /\ queue # << >>
    /\ queue' = Tail(queue)

(***************************************************************************)
(* Bad_checksum or Bad_packet: send NAK and try again, max_retry_count     *)
(* times.  Then, and on an overflow, receive() returns Protocol_fail: run()*)
(* closes the connection, async_run goes back to waiting.                  *)
(***************************************************************************)
LastTryOffByOne == tries = MaxRetry         \* mutant

LastTry == tries + 1 = MaxRetry

AfterProtocolFail(label) ==
    IF label = "receive" THEN Goto("receive") ELSE Goto("wait")

ReceiveDamaged(label) ==
    /\ Take(label)
    /\ Head(queue).kind \in Damage
    /\ IF Head(queue).kind = "corrupt" /\ ~ LastTry
       THEN tries' = tries + 1 /\ UNCHANGED pc /\ Write(Nak)
       ELSE /\ AfterProtocolFail(label)
            /\ LET answer == IF Head(queue).kind = "corrupt" THEN Nak ELSE << >>
               IN  IF label = "receive" THEN WriteAndClose(answer) ELSE Write(answer)
    /\ UNCHANGED << thread, response, interrupt, run_connection >>

(***************************************************************************)
(* run(): a packet arrived while the machine is stopped.  receive()        *)
(* acknowledges it, whatever it is, before command::parse sees it.         *)
(***************************************************************************)
ReceiveStopped ==
    LET item == Head(queue)
    IN  /\ Take("receive")
        /\ item.kind \notin Damage \cup Runs
        /\ \/ /\ item.kind \in {"ack", "nak"}
              /\ Resume /\ Write(Ack)
           \/ /\ item.kind \in {"request", "query"}
              /\ Respond([kind |-> "answer", connection |-> item.connection])
              /\ Write(Ack)
           \/ /\ item.kind = "unknown"
              /\ Respond([kind |-> "unsupported", connection |-> item.connection])
              /\ Write(Ack)
           \/ /\ item.kind = "kill"
              /\ Exit /\ Write(Ack)
           \/ /\ item.kind \in {"unhandled", "ctrl_c"}
              /\ Exit /\ WriteAndClose(Ack)
        /\ UNCHANGED thread

(***************************************************************************)
(* handle_continue, handle_step and handle_step_single_cycles: async_run   *)
(* clears its flag and starts the worker.                                  *)
(***************************************************************************)
StartRunKeepsFlag ==            \* mutant: the flag of the last run stays up
    /\ Take("receive")
    /\ Head(queue).kind \in Runs
    /\ Write(Ack)
    /\ Goto("wait")
    /\ run_connection' = Head(queue).connection
    /\ worker' = "running"
    /\ cycles' = IF Head(queue).kind = "step" THEN 1 ELSE 0
    /\ stop_reason' = "none"
    /\ UNCHANGED << response, interrupt, prompt >>

StartRun ==
    LET item == Head(queue)
    IN  /\ Take("receive")
        /\ item.kind \in Runs
        /\ Write(Ack)
        /\ Goto("wait")
        /\ interrupt' = FALSE
        /\ run_connection' = item.connection
        /\ \/ /\ item.kind = "continue"
              /\ worker' = "running" /\ cycles' = 0 /\ stop_reason' = "none"
           \/ /\ item.kind = "step"
              /\ worker' = "running" /\ cycles' \in 1 .. MaxCycles /\ stop_reason' = "none"
           \/ /\ item.kind = "step"       \* a cycle count of zero
              /\ worker' = "done" /\ cycles' = 0 /\ stop_reason' = "trap"
        /\ UNCHANGED << response, prompt >>

-----------------------------------------------------------------------------
(* async_run, in the main thread *)

(***************************************************************************)
(* wait_for finds the result: it is sent.  result.get() rethrows what      *)
(* run_func threw, and main() ends the process.                            *)
(***************************************************************************)
WaitReady ==
    /\ pc = "wait"
    /\ \/ /\ worker = "done"
          /\ Respond([kind |-> stop_reason, connection |-> run_connection])
          /\ worker' = "none"
       \/ /\ worker = "threw"
          /\ Exit
          /\ UNCHANGED worker
    /\ UNCHANGED << cycles, stop_reason, prompt, link, queue >>

(***************************************************************************)
(* 50 ms pass: the main thread turns to the network and blocks there.      *)
(***************************************************************************)
WaitTimeout ==
    /\ pc = "wait" /\ worker = "running"
    /\ ~ (prompt /\ (interrupt \/ cycles > 0))
    /\ Goto("poll")
    /\ UNCHANGED << response, interrupt, run_connection, thread, link, queue >>

(***************************************************************************)
(* A packet arrived during the run: Ctrl-C or '?' raises the flag, one     *)
(* that command::parse rejects is acknowledged and ignored, anything else  *)
(* closes the connection and leaves async_run, whose future blocks until   *)
(* the worker ends.                                                        *)
(***************************************************************************)
PollInterruptIgnored ==         \* mutant: the flag is not raised
    /\ Take("poll")
    /\ Head(queue).kind \in {"ctrl_c", "query"}
    /\ Write(Ack)
    /\ Goto("wait")
    /\ UNCHANGED << response, interrupt, run_connection, thread >>

PollInterrupt ==
    /\ Take("poll")
    /\ Head(queue).kind \in {"ctrl_c", "query"}
    /\ Write(Ack)
    /\ interrupt' = TRUE
    /\ Goto("wait")
    /\ UNCHANGED << response, run_connection, thread >>

PollUnknown ==
    /\ Take("poll")
    /\ Head(queue).kind = "unknown"
    /\ Write(Ack)
    /\ Goto("wait")
    /\ UNCHANGED << response, interrupt, run_connection, thread >>

PollUnexpected ==
    /\ Take("poll")
    /\ Head(queue).kind \notin Damage \cup {"ctrl_c", "query", "unknown"}
    /\ WriteAndClose(Ack)
    /\ Goto("join")
    /\ UNCHANGED << response, interrupt, run_connection, thread >>

JoinWorkerDetached ==           \* mutant: a thread nobody waits for
    /\ pc = "join"
    /\ Resume
    /\ UNCHANGED << thread, link, queue >>

JoinWorker ==
    /\ pc = "join"
    /\ worker \in {"done", "threw"}
    /\ worker' = "none"
    /\ Resume
    /\ UNCHANGED << cycles, stop_reason, prompt, link, queue >>

-----------------------------------------------------------------------------
(* send_response *)

SendResponse ==
    /\ pc = "send" /\ socket # "none"
    /\ Write(<< response >>)
    /\ pc' = "await_ack"
    /\ UNCHANGED << tries, response, interrupt, run_connection, thread, queue >>

(***************************************************************************)
(* The packet awaited after the response: ACK ends the send; NAK or a      *)
(* damaged frame repeats it, max_retry_count times; anything else, Ctrl-C  *)
(* included, fails it, and send_response closes the connection.            *)
(***************************************************************************)
AckReceived ==
    /\ Take("await_ack")
    /\ Head(queue).kind = "ack"
    /\ Resume
    /\ UNCHANGED << thread, link >>

Resend ==
    /\ Take("await_ack")
    /\ Head(queue).kind \in {"nak", "corrupt"}
    /\ ~ LastTry
    /\ pc' = "send" /\ tries' = tries + 1
    /\ UNCHANGED << response, interrupt, run_connection, thread, link >>

SendFailedKeepsConnection ==    \* mutant: no close()
    /\ Take("await_ack")
    /\ Head(queue).kind # "ack" /\ LastTry
    /\ Resume
    /\ UNCHANGED << thread, link >>

SendFailedKeepsPacket ==        \* mutant: no close(), what came is left for run()
    /\ pc = "await_ack" /\ Receiving /\ queue # << >>
    /\ Head(queue).kind \notin {"ack", "nak", "corrupt"}
    /\ Resume
    /\ UNCHANGED << thread, link, queue >>

SendFailed ==
    /\ Take("await_ack")
    /\ \/ Head(queue).kind \in {"nak", "corrupt"} /\ LastTry
       \/ Head(queue).kind \notin {"ack", "nak", "corrupt"}
    /\ Drop
    /\ UNCHANGED thread

Main ==
    \/ Accept \/ Read \/ ConnectionFault
    \/ ReceiveDamaged("receive") \/ ReceiveDamaged("poll")
    \/ ReceiveStopped \/ StartRun
    \/ WaitReady \/ WaitTimeout
    \/ PollInterrupt \/ PollUnknown \/ PollUnexpected \/ JoinWorker
    \/ SendResponse \/ AckReceived \/ Resend \/ SendFailed

-----------------------------------------------------------------------------
(* The worker: run_until_trap and run_steps *)

(***************************************************************************)
(* One iteration: a cycle, then the break- and watchpoints, then the flag, *)
(* then the end of a bounded run.  What the machine does is open: the      *)
(* cycle may hit, and may throw (std::logic_error from read_page or        *)
(* get_size).                                                              *)
(***************************************************************************)
Finish(reason) ==
    /\ worker' = "done"
    /\ stop_reason' = reason
    /\ UNCHANGED << cycles, prompt >>

CycleHits == worker = "running" /\ Finish("hit")

CycleThrows ==
    /\ worker = "running"
    /\ worker' = "threw"
    /\ UNCHANGED << cycles, stop_reason, prompt >>

CyclePassesDeaf ==              \* mutant: only run_steps looks at the flag
    /\ worker = "running"
    /\ IF interrupt /\ cycles > 0 THEN Finish("int")
       ELSE IF cycles = 1 THEN Finish("trap")
       ELSE /\ cycles' = IF cycles = 0 THEN 0 ELSE cycles - 1
            /\ UNCHANGED << worker, stop_reason, prompt >>

CyclePasses ==
    /\ worker = "running"
    /\ IF interrupt THEN Finish("int")
       ELSE IF cycles = 1 THEN Finish("trap")
       ELSE /\ cycles' = IF cycles = 0 THEN 0 ELSE cycles - 1
            /\ UNCHANGED << worker, stop_reason, prompt >>

Worker ==
    /\ CycleHits \/ CycleThrows \/ CyclePasses
    /\ UNCHANGED << main, link, queue >>

-----------------------------------------------------------------------------
(* The host, unconstrained *)

HostConnect ==
    /\ socket # "open" /\ ~ backlog
    /\ connection < MaxConnections
    /\ backlog' = TRUE
    /\ UNCHANGED << main, thread, queue, socket, connection, inbound, outbound, sent >>

HostSend(kind) ==
    /\ socket = "open"
    /\ sent < MaxItems /\ Len(inbound) < MaxInFlight
    /\ inbound' = Append(inbound, OnConnection(kind))
    /\ sent' = sent + 1
    /\ UNCHANGED << main, thread, queue, socket, backlog, connection, outbound >>

HostRead ==
    /\ outbound # << >>
    /\ outbound' = << >>
    /\ UNCHANGED << main, thread, queue, socket, backlog, connection, inbound, sent >>

HostDisconnect ==
    /\ socket = "open"
    /\ socket' = "eof"
    /\ outbound' = << >>
    /\ UNCHANGED << main, thread, queue, backlog, connection, inbound, sent >>

AnyHost ==
    \/ HostConnect \/ HostRead \/ HostDisconnect
    \/ \E kind \in HostKinds : HostSend(kind)

Next == Main \/ Worker \/ AnyHost

Spec == Init /\ [][Next]_vars
-----------------------------------------------------------------------------
(* Properties *)

(***************************************************************************)
(* The handlers of the main thread and tick_one_cycle of the worker share  *)
(* the CPU, the memory and the break- and watchpoint maps without a lock.  *)
(* Whatever the host sends, and however a connection ends, no handler runs *)
(* while a worker is alive.                                                *)
(***************************************************************************)
WorkerExclusive ==
    /\ pc \in {"receive", "send", "await_ack"} => worker = "none"
    /\ pc = "exited" => worker \in {"none", "threw"}

(***************************************************************************)
(* The stub never takes a new command on a connection where its last       *)
(* response is still unacknowledged: either the ACK came, or the           *)
(* connection is gone.                                                     *)
(***************************************************************************)
AcknowledgedOrClosed ==
    [][pc = "await_ack" /\ pc' \notin {"await_ack", "send"}
          => \/ queue # << >> /\ Head(queue).kind = "ack"
             \/ socket' = "none"]_vars

(***************************************************************************)
(* A raised flag reaches the worker: whatever the host does next, even if  *)
(* it disappears, an interrupted run ends.                                 *)
(***************************************************************************)
InterruptStopsWorker == (interrupt /\ worker = "running") ~> worker # "running"
=============================================================================
