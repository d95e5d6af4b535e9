--------------------------- MODULE PacketDecoder ----------------------------
(***************************************************************************)
(* gdb_stub::Packet_decoder (lib/gdb-stub/packet.cpp): the character state *)
(* machine of push(), the queue of results behind out_queue_mutex, and     *)
(* pop_packet().                                                           *)
(*                                                                         *)
(* Push(c) is one iteration of push()'s loop.  Pop may come between any    *)
(* two of them: the queue has its own mutex, and push_result holds it for  *)
(* one result at a time.                                                   *)
(***************************************************************************)
EXTENDS PacketFormat

CONSTANT MaxWire        \* bound: characters pushed in a behaviour

ASSUME MaxWireAssumption == MaxWire \in Nat

VARIABLES
    state,                  \* Packet_decoder::State
    in_buffer,              \* the body received so far
    checksum_buffer,        \* the first digit while the second is awaited
    out_queue,              \* results not popped yet
    out_queue_available,    \* the atomic flag read without the mutex
    wire,                   \* history: every character pushed
    taken                   \* history: every result popped

vars == << state, in_buffer, checksum_buffer, out_queue, out_queue_available,
           wire, taken >>

State == {"Waiting_dollar", "Receiving_body",
          "Receiving_checksum1", "Receiving_checksum2"}

TypeOK ==
    /\ state \in State
    /\ in_buffer \in Seq(Char)
    /\ checksum_buffer \in Seq(Char)
    /\ out_queue \in Seq(Result)
    /\ out_queue_available \in BOOLEAN
    /\ wire \in Seq(Char)
    /\ taken \in Seq(Result)

Init ==
    /\ state = "Waiting_dollar"
    /\ in_buffer = << >>
    /\ checksum_buffer = << >>
    /\ out_queue = << >>
    /\ out_queue_available = FALSE
    /\ wire = << >>
    /\ taken = << >>

(***************************************************************************)
(* push_result for each of the given results: enqueue, raise the flag,     *)
(* forget the body.  The stale first digit is forgotten with it: the code  *)
(* overwrites it before it reads it again.                                 *)
(***************************************************************************)
PushResults(results) ==
    /\ out_queue' = out_queue \o results
    /\ out_queue_available' = TRUE
    /\ in_buffer' = << >>
    /\ checksum_buffer' = << >>

NoResult == UNCHANGED << out_queue, out_queue_available >>

WaitingDollar(c) ==
    /\ state = "Waiting_dollar"
    /\ state' = IF c = Dollar THEN "Receiving_body" ELSE state
    /\ IF c \in Control
       THEN PushResults(<< Packet(<< c >>) >>)
       ELSE NoResult /\ UNCHANGED << in_buffer, checksum_buffer >>

(***************************************************************************)
(* A '$' in any state but the first: the frame in progress is reported as  *)
(* bad and a new one begins.                                               *)
(***************************************************************************)
RestartAtNextDollar(c) ==       \* mutant: the new frame is not begun
    /\ c = Dollar
    /\ PushResults(<< Failure("Bad_packet") >>)
    /\ state' = "Waiting_dollar"

Restart(c) ==
    /\ c = Dollar
    /\ PushResults(<< Failure("Bad_packet") >>)
    /\ state' = "Receiving_body"

BodyCharOffByOne(c) ==          \* mutant: > for >=
    /\ c \notin {Dollar, Hash}
    /\ IF Len(in_buffer) > MaxBuffer
       THEN PushResults(<< Failure("Buffer_overflow") >>) /\ state' = "Waiting_dollar"
       ELSE /\ in_buffer' = Append(in_buffer, c)
            /\ NoResult
            /\ UNCHANGED << state, checksum_buffer >>

BodyChar(c) ==
    /\ c # Dollar
    /\ IF c = Hash
       THEN /\ state' = "Receiving_checksum1"
            /\ NoResult
            /\ UNCHANGED << in_buffer, checksum_buffer >>
       ELSE IF Len(in_buffer) >= MaxBuffer
       THEN /\ PushResults(<< Failure("Buffer_overflow") >>)
            /\ state' = "Waiting_dollar"
       ELSE /\ in_buffer' = Append(in_buffer, c)
            /\ NoResult
            /\ UNCHANGED << state, checksum_buffer >>

ReceivingBody(c) ==
    /\ state = "Receiving_body"
    /\ Restart(c) \/ BodyChar(c)

(***************************************************************************)
(* A control character in place of a checksum digit.                       *)
(***************************************************************************)
Abort(c) ==
    /\ c \in Control
    /\ PushResults(<< Failure("Bad_packet"), Packet(<< c >>) >>)
    /\ state' = "Waiting_dollar"

ReceivingChecksum1(c) ==
    /\ state = "Receiving_checksum1"
    /\ \/ Restart(c)
       \/ Abort(c)
       \/ /\ c \notin Control \cup {Dollar}
          /\ checksum_buffer' = << c >>
          /\ state' = "Receiving_checksum2"
          /\ NoResult
          /\ UNCHANGED in_buffer

ReceivingChecksum2(c) ==
    /\ state = "Receiving_checksum2"
    /\ \/ Restart(c)
       \/ Abort(c)
       \/ /\ c \notin Control \cup {Dollar}
          /\ PushResults(<< Decode(in_buffer, checksum_buffer[1], c) >>)
          /\ state' = "Waiting_dollar"

Push(c) ==
    /\ Len(wire) < MaxWire
    /\ wire' = Append(wire, c)
    /\ UNCHANGED taken
    /\ \/ WaitingDollar(c)
       \/ ReceivingBody(c)
       \/ ReceivingChecksum1(c)
       \/ ReceivingChecksum2(c)

(***************************************************************************)
(* pop_packet; on an empty queue it returns No_new_packet and changes      *)
(* nothing.                                                                *)
(***************************************************************************)
PopKeepsFlag ==                 \* mutant: the flag is not lowered
    /\ out_queue # << >>
    /\ taken' = Append(taken, Head(out_queue))
    /\ out_queue' = Tail(out_queue)
    /\ UNCHANGED << state, in_buffer, checksum_buffer, out_queue_available, wire >>

Pop ==
    /\ out_queue # << >>
    /\ taken' = Append(taken, Head(out_queue))
    /\ out_queue' = Tail(out_queue)
    /\ out_queue_available' = (out_queue' # << >>)
    /\ UNCHANGED << state, in_buffer, checksum_buffer, wire >>

PopEmpty ==
    /\ out_queue = << >>
    /\ UNCHANGED vars

Next == Pop \/ PopEmpty \/ \E c \in Char : Push(c)

Spec == Init /\ [][Next]_vars

-----------------------------------------------------------------------------
(* Properties *)

(***************************************************************************)
(* new_packet_available() is read without the mutex and gates pop_packet() *)
(* (network.cpp, get_packet_from_decoder): a flag left down would strand a *)
(* packet in the queue, a flag left up would make the caller pop an empty  *)
(* queue and fail the session with Internal_fail.                          *)
(***************************************************************************)
FlagTracksQueue == out_queue_available = (out_queue # << >>)

(***************************************************************************)
(* No path through push() carries characters of one frame into the next:   *)
(* outside a frame the buffer is empty, inside it never holds a delimiter  *)
(* and never exceeds max_buffer_size, and a first checksum digit is held   *)
(* exactly while the second is awaited.                                    *)
(***************************************************************************)
BufferDiscipline ==
    /\ state = "Waiting_dollar" => in_buffer = << >>
    /\ Len(in_buffer) <= MaxBuffer
    /\ \A i \in DOMAIN in_buffer : in_buffer[i] \notin {Dollar, Hash}
    /\ Len(checksum_buffer) = (IF state = "Receiving_checksum2" THEN 1 ELSE 0)

(***************************************************************************)
(* The decoder implements the stream of packets: nothing lost, duplicated  *)
(* or reordered between push() and pop_packet(), and every well-formed     *)
(* frame decoded whatever came before its '$'.                             *)
(***************************************************************************)
Stream == INSTANCE PacketStream

StreamSpec == Stream!Spec
=============================================================================
