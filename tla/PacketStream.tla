---------------------------- MODULE PacketStream ----------------------------
(***************************************************************************)
(* What a packet decoder promises: the results it hands out are, in order  *)
(* and once each, the packets and errors of the characters received.       *)
(*                                                                         *)
(* Which results a character completes is defined from the text alone:     *)
(* from the last '$' before it, never from what came before that '$'.  A   *)
(* decoder that implements this specification is therefore in step again   *)
(* at every '$', whatever garbage preceded it.                             *)
(***************************************************************************)
EXTENDS PacketFormat, SequencesExt

CONSTANT MaxWire        \* bound: characters received in a behaviour

VARIABLES
    wire,               \* every character received so far
    taken               \* every result handed out so far

(***************************************************************************)
(* The frame opened at position s of w, when no '$' follows s before       *)
(* position i.  It ends at the character that overflows the buffer, at a   *)
(* control character in place of a checksum digit, or at the second digit; *)
(* position i + 1 stands for a frame still open at i.                      *)
(***************************************************************************)
FrameStart(w, i) == SelectLastInSubSeq(w, 1, i - 1, LAMBDA c : c = Dollar)

BodyEnd(w, s, i) == SelectInSubSeq(w, s + 1, i, LAMBDA c : c = Hash)

FrameEnd(w, s, i) ==
    LET h == BodyEnd(w, s, i)
        overflow == s + MaxBuffer + 1
    IN  IF h = 0 \/ h > overflow
        THEN IF overflow <= i THEN overflow ELSE i + 1
        ELSE IF h + 1 <= i /\ w[h + 1] \in Control THEN h + 1
        ELSE IF h + 2 <= i THEN h + 2 ELSE i + 1

(***************************************************************************)
(* The results that the i-th character of w completes.                     *)
(***************************************************************************)
Outside(w, i) ==
    IF w[i] \in Control THEN << Packet(<< w[i] >>) >> ELSE << >>

Closing(w, s, i) ==
    LET h == BodyEnd(w, s, i)
    IN  IF h = 0
        THEN << Failure("Buffer_overflow") >>
        ELSE IF w[i] \in Control
        THEN << Failure("Bad_packet"), Packet(<< w[i] >>) >>
        ELSE << Decode(SubSeq(w, s + 1, h - 1), w[i - 1], w[i]) >>

Completed(w, i) ==
    LET s == FrameStart(w, i)
        end == FrameEnd(w, s, i - 1)
    IN  IF s = 0 \/ end < i
        THEN IF w[i] = Dollar THEN << >> ELSE Outside(w, i)
        ELSE IF w[i] = Dollar THEN << Failure("Bad_packet") >>
        ELSE IF FrameEnd(w, s, i) = i THEN Closing(w, s, i)
        ELSE << >>

Results(w) == FlattenSeq([i \in DOMAIN w |-> Completed(w, i)])

-----------------------------------------------------------------------------

Init ==
    /\ wire = << >>
    /\ taken = << >>

Receive(c) ==
    /\ Len(wire) < MaxWire
    /\ wire' = Append(wire, c)
    /\ UNCHANGED taken

Deliver ==
    /\ Len(taken) < Len(Results(wire))
    /\ taken' = Append(taken, Results(wire)[Len(taken) + 1])
    /\ UNCHANGED wire

Next == Deliver \/ \E c \in Char : Receive(c)

Spec == Init /\ [][Next]_<< wire, taken >>
=============================================================================
