------------------------ MODULE PacketDecoderProofs -------------------------
(***************************************************************************)
(* The invariants of Packet_decoder and its refinement of PacketStream,    *)
(* proved for every alphabet, checksum base and buffer size.               *)
(***************************************************************************)
EXTENDS PacketDecoder, Induction, SequenceTheorems, TLAPS

(***************************************************************************)
(* remove_escape returns characters: each prefix of its output is built    *)
(* from the prefix before it.                                              *)
(***************************************************************************)
LEMMA LiteralType ==
    ASSUME NEW body \in Seq(Char), NEW i \in 1 .. Len(body)
    PROVE  Literal(body, i) \in Char
<1>1. body[i] \in Char
  OBVIOUS
<1> QED BY <1>1, CodeAssumption DEF Literal

LEMMA UnescapedType ==
    ASSUME NEW body \in Seq(Char)
    PROVE  Unescaped(body) \in Seq(Char)
<1> DEFINE n == Len(body)
           Extend(i, p) ==
               IF body[i] = Escape THEN p ELSE Append(p, Literal(body, i))
           G == [x \in (1 .. n) \X Seq(Char) |-> Extend(x[1], x[2])]
           prefix[i \in 0 .. Len(body)] ==
               IF i = 0 THEN << >>
               ELSE IF body[i] = Escape THEN prefix[i - 1]
               ELSE Append(prefix[i - 1], Literal(body, i))
           Unfold(f) == [i \in 0 .. Len(body) |->
               IF i = 0 THEN << >>
               ELSE IF body[i] = Escape THEN f[i - 1]
               ELSE Append(f[i - 1], Literal(body, i))]
<1>1. n \in Nat /\ << >> \in Seq(Char)
  OBVIOUS
<1>2. ASSUME NEW i \in 1 .. n, NEW p \in Seq(Char)
      PROVE  Extend(i, p) \in Seq(Char)
  BY LiteralType
<1>3. \E f \in [0 .. n -> Seq(Char)] :
          f[0] = << >> /\ \A i \in 1 .. n : f[i] = Extend(i, f[i - 1])
  <2>1. G \in [(1 .. n) \X Seq(Char) -> Seq(Char)]
    <3> HIDE DEF Extend
    <3> QED BY <1>2
  <2>2. PICK f \in [0 .. n -> Seq(Char)] :
            f[0] = << >> /\ \A i \in 1 .. n : f[i] = G[<< i, f[i - 1] >>]
    <3>1. G \in StepFunctions(n, Seq(Char))
      BY <2>1 DEF StepFunctions
    <3> HIDE DEF G, n
    <3>2. \E f : IsRecursion(f, n, Seq(Char), << >>, G)
      BY <1>1, <3>1, RecursionExists
    <3> QED BY <3>2 DEF IsRecursion
  <2>3. ASSUME NEW i \in 1 .. n PROVE f[i] = Extend(i, f[i - 1])
    <3>1. f[i - 1] \in Seq(Char)
      BY <1>1
    <3> HIDE DEF Extend
    <3> QED BY <2>2, <3>1
  <2> QED BY <2>2, <2>3
<1>4. \E f : f = Unfold(f)
  <2>1. PICK f \in [0 .. n -> Seq(Char)] :
            f[0] = << >> /\ \A i \in 1 .. n : f[i] = Extend(i, f[i - 1])
    BY <1>3
  <2>2. ASSUME NEW i \in 0 .. n PROVE f[i] = Unfold(f)[i]
    <3>1. Unfold(f)[i] = IF i = 0 THEN << >> ELSE Extend(i, f[i - 1])
      OBVIOUS
    <3>2. i # 0 => i \in 1 .. n
      BY <1>1
    <3> HIDE DEF Unfold, Extend, n
    <3> QED BY <2>1, <3>1, <3>2
  <2>3. f = [i \in 0 .. n |-> f[i]] /\ Unfold(f) = [i \in 0 .. n |-> Unfold(f)[i]]
    OBVIOUS
  <2> HIDE DEF Unfold
  <2>4. f = Unfold(f)
    BY <2>2, <2>3
  <2> QED BY <2>4
<1>5. prefix = Unfold(prefix)
  <2>1. prefix = CHOOSE f : f = Unfold(f)
    OBVIOUS
  <2> HIDE DEF prefix, Unfold
  <2> QED BY <1>4, <2>1
<1>6. \A i \in 0 .. n : prefix[i] \in Seq(Char)
  <2> HIDE DEF prefix
  <2>a. \A f : Unfold(f)[0] = << >>
    BY <1>1
  <2>b. \A f : \A i \in 1 .. n : Unfold(f)[i] = Extend(i, f[i - 1])
    BY <1>1
  <2> HIDE DEF Unfold, Extend
  <2>1. prefix[0] = << >>
    BY <1>5, <2>a
  <2>2. ASSUME NEW i \in 1 .. n, prefix[i - 1] \in Seq(Char)
        PROVE  prefix[i] \in Seq(Char)
    <3>1. prefix[i] = Extend(i, prefix[i - 1])
      BY <1>5, <2>b
    <3> QED BY <1>2, <2>2, <3>1
  <2> HIDE DEF n
  <2> QED BY <1>1, <2>1, <2>2, RecursionType
<1>7. Unescaped(body) = prefix[n]
  BY DEF Unescaped
<1> HIDE DEF prefix
<1> QED BY <1>1, <1>6, <1>7

LEMMA DecodeType ==
    ASSUME NEW body \in Seq(Char), NEW high, NEW low
    PROVE  Decode(body, high, low) \in Result
<1>1. Unescaped(body) \in Seq(Char)
  BY UnescapedType
<1> QED BY <1>1 DEF Decode, Packet, Failure, Result, Error
-----------------------------------------------------------------------------

(***************************************************************************)
(* What push() and pop_packet() do to the queue and its flag, whatever the *)
(* results are.                                                            *)
(***************************************************************************)
LEMMA PushResultsEffect ==
    ASSUME NEW results \in Seq(Result), results # << >>,
           out_queue \in Seq(Result), PushResults(results)
    PROVE  /\ in_buffer' = << >> /\ checksum_buffer' = << >>
           /\ out_queue' \in Seq(Result) /\ out_queue' # << >>
           /\ out_queue_available' = TRUE
<1>1. out_queue' = out_queue \o results
  BY DEF PushResults
<1>2. out_queue \o results \in Seq(Result)
  OBVIOUS
<1>3. Len(out_queue \o results) # 0
  <2>1. Len(results) # 0 /\ Len(results) \in Nat /\ Len(out_queue) \in Nat
    BY EmptySeq
  <2> QED BY <2>1
<1> QED BY <1>1, <1>2, <1>3 DEF PushResults

(***************************************************************************)
(* The inductive invariant is the conjunction of the three.                *)
(***************************************************************************)
IInv == TypeOK /\ FlagTracksQueue /\ BufferDiscipline

LEMMA InitIInv == Init => IInv
<1> SUFFICES ASSUME Init PROVE IInv
  OBVIOUS
<1>1. TypeOK
  <2>1. << >> \in Seq(Char) /\ << >> \in Seq(Result)
    BY EmptySeq
  <2>2. FALSE \in BOOLEAN /\ "Waiting_dollar" \in State
    BY DEF State
  <2> QED BY <2>1, <2>2, Zenon DEF Init, TypeOK
<1>2. FlagTracksQueue
  BY DEF Init, FlagTracksQueue
<1>3. BufferDiscipline
  <2>1. Len(in_buffer) = 0 /\ Len(checksum_buffer) = 0
    BY DEF Init
  <2> QED BY <2>1, CodeAssumption DEF Init, BufferDiscipline
<1> QED BY <1>1, <1>2, <1>3 DEF IInv

(***************************************************************************)
(* A step that enqueues results leaves no body and no digit behind, so     *)
(* every state but the one awaiting a second digit may follow it.          *)
(***************************************************************************)
LEMMA PushResultsIInv ==
    ASSUME IInv, NEW results \in Seq(Result), results # << >>,
           PushResults(results),
           state' \in State \ {"Receiving_checksum2"},
           wire' \in Seq(Char), UNCHANGED taken
    PROVE  IInv'
<1>1. /\ in_buffer' = << >> /\ checksum_buffer' = << >>
      /\ out_queue' \in Seq(Result) /\ out_queue' # << >>
      /\ out_queue_available' = TRUE
  BY PushResultsEffect DEF IInv, TypeOK
<1>2. TypeOK'
  BY <1>1 DEF IInv, TypeOK
<1>3. FlagTracksQueue'
  BY <1>1 DEF FlagTracksQueue
<1>4. BufferDiscipline'
  BY <1>1, CodeAssumption DEF BufferDiscipline
<1> QED BY <1>2, <1>3, <1>4 DEF IInv

LEMMA ResultTypes ==
    /\ \A e \in Error : Failure(e) \in Result
    /\ \A c \in Char : Packet(<< c >>) \in Result
BY DEF Failure, Packet, Result, Error

LEMMA RestartIInv ==
    ASSUME IInv, NEW c \in Char, Restart(c),
           wire' \in Seq(Char), UNCHANGED taken
    PROVE  IInv'
<1>1. << Failure("Bad_packet") >> \in Seq(Result)
  BY ResultTypes DEF Error
<1>2. state' \in State \ {"Receiving_checksum2"}
  BY DEF Restart, State
<1>3. PushResults(<< Failure("Bad_packet") >>)
  BY DEF Restart
<1> QED BY <1>1, <1>2, <1>3, PushResultsIInv

LEMMA AbortIInv ==
    ASSUME IInv, NEW c \in Char, Abort(c),
           wire' \in Seq(Char), UNCHANGED taken
    PROVE  IInv'
<1> DEFINE results == << Failure("Bad_packet"), Packet(<< c >>) >>
<1>1. results \in Seq(Result)
  BY ResultTypes DEF Error
<1>2. results # << >>
  OBVIOUS
<1>3. state' \in State \ {"Receiving_checksum2"} /\ PushResults(results)
  BY DEF Abort, State
<1> HIDE DEF results
<1> QED BY <1>1, <1>2, <1>3, PushResultsIInv

LEMMA WaitingDollarIInv ==
    ASSUME IInv, NEW c \in Char, WaitingDollar(c),
           wire' \in Seq(Char), UNCHANGED taken
    PROVE  IInv'
<1>1. CASE c \in Control
  <2>1. << Packet(<< c >>) >> \in Seq(Result)
    BY ResultTypes
  <2>2. PushResults(<< Packet(<< c >>) >>)
    BY <1>1 DEF WaitingDollar
  <2>3. state' \in State \ {"Receiving_checksum2"}
    BY DEF WaitingDollar, State
  <2> QED BY <2>1, <2>2, <2>3, PushResultsIInv
<1>2. CASE c \notin Control
  BY <1>2 DEF IInv, WaitingDollar, NoResult, TypeOK, FlagTracksQueue,
              BufferDiscipline, State
<1> QED BY <1>1, <1>2

LEMMA BodyCharIInv ==
    ASSUME IInv, state = "Receiving_body", NEW c \in Char, BodyChar(c),
           wire' \in Seq(Char), UNCHANGED taken
    PROVE  IInv'
<1>1. CASE c = Hash
  BY <1>1 DEF IInv, BodyChar, NoResult, TypeOK, FlagTracksQueue,
              BufferDiscipline, State
<1>2. CASE c # Hash /\ Len(in_buffer) >= MaxBuffer
  <2>1. << Failure("Buffer_overflow") >> \in Seq(Result)
    BY ResultTypes DEF Error
  <2>2. PushResults(<< Failure("Buffer_overflow") >>)
    BY <1>2 DEF BodyChar
  <2>3. state' \in State \ {"Receiving_checksum2"}
    BY <1>2 DEF BodyChar, State
  <2> QED BY <2>1, <2>2, <2>3, PushResultsIInv
<1>3. CASE c # Hash /\ ~ (Len(in_buffer) >= MaxBuffer)
  <2>1. /\ in_buffer' = Append(in_buffer, c)
        /\ UNCHANGED << state, checksum_buffer, out_queue, out_queue_available >>
    BY <1>3 DEF BodyChar, NoResult
  <2>2. in_buffer \in Seq(Char) /\ Len(in_buffer) \in Nat
    BY DEF IInv, TypeOK
  <2>3. in_buffer' \in Seq(Char) /\ Len(in_buffer') = Len(in_buffer) + 1
    BY <2>1, <2>2
  <2>4. \A i \in DOMAIN in_buffer' : in_buffer'[i] \notin {Dollar, Hash}
    <3>1. c \notin {Dollar, Hash}
      BY <1>3 DEF BodyChar
    <3>2. \A i \in 1 .. Len(in_buffer) : in_buffer[i] \notin {Dollar, Hash}
      BY <2>2 DEF IInv, BufferDiscipline
    <3>3. ASSUME NEW i \in 1 .. Len(in_buffer) + 1
          PROVE  in_buffer'[i] \notin {Dollar, Hash}
      <4>1. CASE i = Len(in_buffer) + 1
        BY <2>1, <2>2, <3>1, <4>1
      <4>2. CASE i # Len(in_buffer) + 1
        <5>1. in_buffer'[i] = in_buffer[i] /\ i \in 1 .. Len(in_buffer)
          BY <2>1, <2>2, <4>2
        <5> QED BY <3>2, <5>1
      <4> QED BY <4>1, <4>2
    <3>4. DOMAIN in_buffer' = 1 .. Len(in_buffer) + 1
      BY <2>3
    <3> QED BY <3>3, <3>4
  <2>5. Len(in_buffer') <= MaxBuffer
    BY <1>3, <2>2, <2>3, CodeAssumption
  <2> QED BY <2>1, <2>3, <2>4, <2>5
          DEF IInv, TypeOK, FlagTracksQueue, BufferDiscipline
<1> QED BY <1>1, <1>2, <1>3

LEMMA ReceivingChecksum1IInv ==
    ASSUME IInv, NEW c \in Char, ReceivingChecksum1(c),
           wire' \in Seq(Char), UNCHANGED taken
    PROVE  IInv'
<1>1. CASE Restart(c)
  BY <1>1, RestartIInv
<1>2. CASE Abort(c)
  BY <1>2, AbortIInv
<1>3. CASE ~ Restart(c) /\ ~ Abort(c)
  <2>1. /\ checksum_buffer' = << c >> /\ state' = "Receiving_checksum2"
        /\ UNCHANGED << in_buffer, out_queue, out_queue_available >>
    BY <1>3 DEF ReceivingChecksum1, NoResult
  <2>2. << c >> \in Seq(Char) /\ Len(<< c >>) = 1
    OBVIOUS
  <2> QED BY <2>1, <2>2
          DEF IInv, TypeOK, FlagTracksQueue, BufferDiscipline, State
<1> QED BY <1>1, <1>2, <1>3

LEMMA ReceivingChecksum2IInv ==
    ASSUME IInv, NEW c \in Char, ReceivingChecksum2(c),
           wire' \in Seq(Char), UNCHANGED taken
    PROVE  IInv'
<1>1. CASE Restart(c)
  BY <1>1, RestartIInv
<1>2. CASE Abort(c)
  BY <1>2, AbortIInv
<1>3. CASE ~ Restart(c) /\ ~ Abort(c)
  <2> DEFINE results == << Decode(in_buffer, checksum_buffer[1], c) >>
  <2>1. results \in Seq(Result)
    BY DecodeType DEF IInv, TypeOK
  <2>2. results # << >>
    OBVIOUS
  <2>3. PushResults(results) /\ state' \in State \ {"Receiving_checksum2"}
    BY <1>3 DEF ReceivingChecksum2, State
  <2> HIDE DEF results
  <2> QED BY <2>1, <2>2, <2>3, PushResultsIInv
<1> QED BY <1>1, <1>2, <1>3

LEMMA PushIInv ==
    ASSUME IInv, NEW c \in Char, Push(c)
    PROVE  IInv'
<1>1. wire' \in Seq(Char) /\ UNCHANGED taken
  BY DEF IInv, TypeOK, Push
<1>2. CASE WaitingDollar(c)
  BY <1>1, <1>2, WaitingDollarIInv
<1>3. CASE ReceivingBody(c)
  BY <1>1, <1>3, RestartIInv, BodyCharIInv DEF ReceivingBody
<1>4. CASE ReceivingChecksum1(c)
  BY <1>1, <1>4, ReceivingChecksum1IInv
<1>5. CASE ReceivingChecksum2(c)
  BY <1>1, <1>5, ReceivingChecksum2IInv
<1> QED BY <1>2, <1>3, <1>4, <1>5 DEF Push

LEMMA PopIInv == IInv /\ Pop => IInv'
<1> SUFFICES ASSUME IInv, Pop PROVE IInv'
  OBVIOUS
<1>1. out_queue \in Seq(Result) /\ out_queue # << >> /\ taken \in Seq(Result)
  BY DEF IInv, TypeOK, Pop
<1>2. Head(out_queue) \in Result /\ Tail(out_queue) \in Seq(Result)
  BY <1>1, HeadTailProperties
<1>3. TypeOK'
  BY <1>1, <1>2 DEF IInv, TypeOK, Pop
<1>4. FlagTracksQueue'
  BY DEF Pop, FlagTracksQueue
<1>5. BufferDiscipline'
  BY DEF IInv, Pop, BufferDiscipline
<1> QED BY <1>3, <1>4, <1>5 DEF IInv

LEMMA NextIInv == IInv /\ [Next]_vars => IInv'
<1> SUFFICES ASSUME IInv, [Next]_vars PROVE IInv'
  OBVIOUS
<1>1. CASE Pop
  BY <1>1, PopIInv
<1>2. CASE UNCHANGED vars
  BY <1>2 DEF IInv, TypeOK, FlagTracksQueue, BufferDiscipline, vars
<1>3. CASE \E c \in Char : Push(c)
  BY <1>3, PushIInv
<1> QED BY <1>1, <1>2, <1>3 DEF Next, PopEmpty

LEMMA SpecIInv == Spec => []IInv
BY InitIInv, NextIInv, PTL DEF Spec

(***************************************************************************)
(* Every value the decoder holds has its type, whatever is pushed: in      *)
(* particular remove_escape only ever yields characters.                   *)
(***************************************************************************)
THEOREM TypeCorrect == Spec => []TypeOK
BY SpecIInv, PTL DEF IInv

(***************************************************************************)
(* The flag that new_packet_available() reads is up exactly while a result *)
(* waits in the queue.                                                     *)
(***************************************************************************)
THEOREM FlagCorrect == Spec => []FlagTracksQueue
BY SpecIInv, PTL DEF IInv

(***************************************************************************)
(* No characters of one frame survive into the next, and the body never    *)
(* outgrows max_buffer_size.                                               *)
(***************************************************************************)
THEOREM BufferCorrect == Spec => []BufferDiscipline
BY SpecIInv, PTL DEF IInv

-----------------------------------------------------------------------------
(***************************************************************************)
(* The refinement.  First, what the operators of PacketStream mean: the    *)
(* community modules define the last '$' and the first '#' by the largest  *)
(* and the smallest element of a set of positions.                         *)
(***************************************************************************)
LEMMA MaxExists ==
    ASSUME NEW m \in Nat, NEW S \in SUBSET (1 .. m), S # {}
    PROVE  Stream!Max(S) \in S /\ \A k \in S : k <= Stream!Max(S)
<1> DEFINE Below == {k \in Nat : m - k \in S}
           Less == {p \in Nat \X Nat : p[1] < p[2]}
<1>1. IsWellFoundedOn(Less, Nat)
  BY NatLessThanWellFounded DEF OpToRel
<1>2. Below # {}
  <2>1. PICK k : k \in S
    OBVIOUS
  <2>2. m - k \in Nat /\ m - (m - k) = k
    BY <2>1
  <2> QED BY <2>1, <2>2
<1>3. PICK j \in Below : \A y \in Below : << y, j >> \notin Less
  <2>1. Below \subseteq Nat
    OBVIOUS
  <2> HIDE DEF Below, Less
  <2> QED BY <1>1, <1>2, <2>1, WFMin
<1>4. \A k \in S : k <= m - j
  <2> SUFFICES ASSUME NEW k \in S PROVE k <= m - j
    OBVIOUS
  <2>1. m - k \in Nat /\ m - (m - k) = k
    OBVIOUS
  <2>2. m - k \in Below
    BY <2>1
  <2>3. ~ (m - k < j)
    BY <1>3, <2>1, <2>2
  <2> QED BY <2>1, <2>3
<1>5. m - j \in S
  BY <1>3
<1> QED BY <1>4, <1>5 DEF Stream!Max

LEMMA FrameStartMeaning ==
    ASSUME NEW w, NEW i \in Nat \ {0}
    PROVE  \/ /\ Stream!FrameStart(w, i) = 0
              /\ \A k \in 1 .. i - 1 : w[k] # Dollar
           \/ /\ Stream!FrameStart(w, i) \in 1 .. i - 1
              /\ w[Stream!FrameStart(w, i)] = Dollar
              /\ \A k \in Stream!FrameStart(w, i) + 1 .. i - 1 : w[k] # Dollar
<1> DEFINE S == {k \in 1 .. i - 1 : w[k] = Dollar}
<1>1. Stream!FrameStart(w, i) = IF S # {} THEN Stream!Max(S) ELSE 0
  BY DEF Stream!FrameStart, Stream!SelectLastInSubSeq
<1>2. S \in SUBSET (1 .. i - 1) /\ i - 1 \in Nat
  OBVIOUS
<1>3. S # {} => Stream!Max(S) \in S /\ \A k \in S : k <= Stream!Max(S)
  <2> HIDE DEF S
  <2> QED BY <1>2, MaxExists
<1> QED BY <1>1, <1>3

LEMMA MinExists ==
    ASSUME NEW S \in SUBSET Nat, S # {}
    PROVE  Stream!Min(S) \in S /\ \A k \in S : Stream!Min(S) <= k
<1> DEFINE Less == {p \in Nat \X Nat : p[1] < p[2]}
<1>1. IsWellFoundedOn(Less, Nat)
  BY NatLessThanWellFounded DEF OpToRel
<1>2. PICK j \in S : \A y \in S : << y, j >> \notin Less
  <2> HIDE DEF Less
  <2> QED BY <1>1, WFMin
<1>3. \A k \in S : j <= k
  <2> SUFFICES ASSUME NEW k \in S PROVE j <= k
    OBVIOUS
  <2>1. j \in Nat /\ k \in Nat /\ << k, j >> \notin Less
    BY <1>2
  <2>2. ~ (k < j)
    BY <2>1
  <2> QED BY <2>1, <2>2
<1> QED BY <1>2, <1>3 DEF Stream!Min

LEMMA BodyEndMeaning ==
    ASSUME NEW w, NEW s \in Nat, NEW i \in Nat
    PROVE  \/ /\ Stream!BodyEnd(w, s, i) = 0
              /\ \A k \in s + 1 .. i : w[k] # Hash
           \/ /\ Stream!BodyEnd(w, s, i) \in s + 1 .. i
              /\ w[Stream!BodyEnd(w, s, i)] = Hash
              /\ \A k \in s + 1 .. Stream!BodyEnd(w, s, i) - 1 : w[k] # Hash
<1> DEFINE S == {k \in s + 1 .. i : w[k] = Hash}
<1>1. Stream!BodyEnd(w, s, i) = IF S # {} THEN Stream!Min(S) ELSE 0
  BY DEF Stream!BodyEnd, Stream!SelectInSubSeq
<1>2. S \in SUBSET Nat
  OBVIOUS
<1>3. S # {} => Stream!Min(S) \in S /\ \A k \in S : Stream!Min(S) <= k
  <2> HIDE DEF S
  <2> QED BY <1>2, MinExists
<1>4. CASE S = {}
  BY <1>1, <1>4
<1>5. CASE S # {}
  <2> DEFINE h == Stream!BodyEnd(w, s, i)
  <2>1. h \in S /\ \A k \in S : h <= k
    BY <1>1, <1>3, <1>5
  <2>2. h \in s + 1 .. i /\ w[h] = Hash
    BY <2>1
  <2>3. ASSUME NEW k \in s + 1 .. h - 1 PROVE w[k] # Hash
    <3>1. k \in s + 1 .. i /\ ~ (h <= k)
      BY <2>2
    <3> QED BY <2>1, <3>1
  <2> QED BY <2>2, <2>3
<1> QED BY <1>4, <1>5

(***************************************************************************)
(* What a character completes depends on the text up to it only.           *)
(***************************************************************************)
Agree(w, v, n) == \A k \in 1 .. n : w[k] = v[k]

LEMMA FrameStartLocal ==
    ASSUME NEW w, NEW v, NEW i \in Nat \ {0}, Agree(w, v, i - 1)
    PROVE  Stream!FrameStart(w, i) = Stream!FrameStart(v, i)
<1> {k \in 1 .. i - 1 : w[k] = Dollar} = {k \in 1 .. i - 1 : v[k] = Dollar}
  BY DEF Agree
<1> QED BY DEF Stream!FrameStart, Stream!SelectLastInSubSeq

LEMMA BodyEndLocal ==
    ASSUME NEW w, NEW v, NEW s \in Nat, NEW i \in Nat, Agree(w, v, i)
    PROVE  Stream!BodyEnd(w, s, i) = Stream!BodyEnd(v, s, i)
<1> {k \in s + 1 .. i : w[k] = Hash} = {k \in s + 1 .. i : v[k] = Hash}
  BY DEF Agree
<1> QED BY DEF Stream!BodyEnd, Stream!SelectInSubSeq

LEMMA FrameEndLocal ==
    ASSUME NEW w, NEW v, NEW s \in Nat, NEW i \in Nat, Agree(w, v, i)
    PROVE  Stream!FrameEnd(w, s, i) = Stream!FrameEnd(v, s, i)
<1> DEFINE h == Stream!BodyEnd(w, s, i)
<1>1. h = Stream!BodyEnd(v, s, i)
  BY BodyEndLocal
<1>2. h # 0 => h \in s + 1 .. i
  BY BodyEndMeaning
<1>3. h # 0 /\ h + 1 <= i => w[h + 1] = v[h + 1]
  BY <1>2 DEF Agree
<1> HIDE DEF h
<1> QED BY <1>1, <1>3 DEF Stream!FrameEnd, h

-----------------------------------------------------------------------------
(***************************************************************************)
(* PacketStream has its own instance of the frame format: it is the same.  *)
(***************************************************************************)
LEMMA SameFormat ==
    /\ \A b : Stream!Packet(b) = Packet(b)
    /\ \A e : Stream!Failure(e) = Failure(e)
    /\ \A b, high, low : Stream!Decode(b, high, low) = Decode(b, high, low)
<1>1. \A b : Stream!Packet(b) = Packet(b)
  BY DEF Stream!Packet, Packet
<1>2. \A e : Stream!Failure(e) = Failure(e)
  BY DEF Stream!Failure, Failure
<1>3. ASSUME NEW b PROVE Stream!Checksum(b) = Checksum(b)
  BY DEF Stream!Checksum, Checksum
<1>4. ASSUME NEW b PROVE Stream!Unescaped(b) = Unescaped(b)
  BY DEF Stream!Unescaped, Unescaped, Stream!Literal, Literal
<1>5. ASSUME NEW b PROVE Stream!WellEscaped(b) <=> WellEscaped(b)
  BY DEF Stream!WellEscaped, WellEscaped
<1>6. ASSUME NEW b, NEW high, NEW low
      PROVE  Stream!Decode(b, high, low) = Decode(b, high, low)
  BY <1>1, <1>2, <1>3, <1>4, <1>5 DEF Stream!Decode, Decode
<1> QED BY <1>1, <1>2, <1>6

LEMMA SubSeqLocal ==
    ASSUME NEW w \in Seq(Char), NEW v \in Seq(Char), NEW m \in Nat \ {0}, NEW n \in Nat,
           n <= Len(w), n <= Len(v), Agree(w, v, n)
    PROVE  SubSeq(w, m, n) = SubSeq(v, m, n) /\ SubSeq(w, m, n) \in Seq(Char)
<1> DEFINE a == SubSeq(w, m, n)
           b == SubSeq(v, m, n)
<1>1. \A k \in m .. n : w[k] \in Char /\ v[k] \in Char
  OBVIOUS
<1>2. /\ a \in Seq(Char) /\ Len(a) = IF m <= n THEN n - m + 1 ELSE 0
      /\ \A k \in 1 .. n - m + 1 : a[k] = w[m + k - 1]
  BY <1>1, SubSeqProperties
<1>3. /\ b \in Seq(Char) /\ Len(b) = IF m <= n THEN n - m + 1 ELSE 0
      /\ \A k \in 1 .. n - m + 1 : b[k] = v[m + k - 1]
  BY <1>1, SubSeqProperties
<1>4. ASSUME NEW k \in 1 .. Len(a) PROVE a[k] = b[k]
  <2> HIDE DEF a, b
  <2>1. k \in 1 .. n - m + 1 /\ m + k - 1 \in 1 .. n
    BY <1>2
  <2> QED BY <1>2, <1>3, <2>1 DEF Agree
<1> HIDE DEF a, b
<1>5. a = b
  BY <1>2, <1>3, <1>4, SeqEqual
<1> QED BY <1>2, <1>5 DEF a, b

LEMMA ClosingLocal ==
    ASSUME NEW w \in Seq(Char), NEW v \in Seq(Char), NEW i \in 1 .. Len(w), i <= Len(v),
           Agree(w, v, i), NEW s \in 1 .. i - 1
    PROVE  /\ Stream!Closing(w, s, i) = Stream!Closing(v, s, i)
           /\ Stream!Closing(w, s, i) \in Seq(Result)
<1> DEFINE h == Stream!BodyEnd(w, s, i)
<1>0. i \in Nat /\ s \in Nat
  OBVIOUS
<1>1. h = Stream!BodyEnd(v, s, i)
  BY <1>0, BodyEndLocal
<1>2. h = 0 \/ h \in s + 1 .. i
  BY <1>0, BodyEndMeaning
<1> HIDE DEF h
<1>3. w[i] = v[i] /\ w[i - 1] = v[i - 1] /\ w[i] \in Char
  BY DEF Agree
<1>4. ASSUME h # 0
      PROVE  /\ SubSeq(w, s + 1, h - 1) = SubSeq(v, s + 1, h - 1)
             /\ SubSeq(w, s + 1, h - 1) \in Seq(Char)
  BY <1>2, <1>4, SubSeqLocal DEF Agree
<1>5. << Failure("Buffer_overflow") >> \in Seq(Result)
  BY ResultTypes DEF Error
<1>6. w[i] \in Control => << Failure("Bad_packet"), Packet(<< w[i] >>) >> \in Seq(Result)
  BY <1>3, ResultTypes DEF Error
<1>7. h # 0 => << Decode(SubSeq(w, s + 1, h - 1), w[i - 1], w[i]) >> \in Seq(Result)
  <2>1. h # 0 => Decode(SubSeq(w, s + 1, h - 1), w[i - 1], w[i]) \in Result
    BY <1>4, DecodeType
  <2> QED BY <2>1
<1> QED BY <1>1, <1>3, <1>4, <1>5, <1>6, <1>7, SameFormat DEF Stream!Closing, h

LEMMA CompletedLocal ==
    ASSUME NEW w \in Seq(Char), NEW v \in Seq(Char), NEW i \in 1 .. Len(w), i <= Len(v),
           Agree(w, v, i)
    PROVE  /\ Stream!Completed(w, i) = Stream!Completed(v, i)
           /\ Stream!Completed(w, i) \in Seq(Result)
<1> DEFINE s == Stream!FrameStart(w, i)
<1>1. i \in Nat \ {0} /\ i - 1 \in Nat /\ Agree(w, v, i - 1) /\ w[i] \in Char
  BY DEF Agree
<1>2. s = Stream!FrameStart(v, i)
  BY <1>1, FrameStartLocal
<1>3. s = 0 \/ s \in 1 .. i - 1
  BY <1>1, FrameStartMeaning
<1> HIDE DEF s
<1>4. Stream!FrameEnd(w, s, i - 1) = Stream!FrameEnd(v, s, i - 1)
  BY <1>1, <1>3, FrameEndLocal
<1>5. Stream!FrameEnd(w, s, i) = Stream!FrameEnd(v, s, i)
  BY <1>1, <1>3, FrameEndLocal
<1>6. w[i] = v[i]
  BY DEF Agree
<1>7. s # 0 => /\ Stream!Closing(w, s, i) = Stream!Closing(v, s, i)
               /\ Stream!Closing(w, s, i) \in Seq(Result)
  BY <1>3, ClosingLocal
<1>8. Stream!Outside(w, i) = Stream!Outside(v, i)
      /\ Stream!Outside(w, i) \in Seq(Result)
  BY <1>1, <1>6, ResultTypes, SameFormat DEF Stream!Outside
<1>9. << >> \in Seq(Result) /\ << Failure("Bad_packet") >> \in Seq(Result)
  BY ResultTypes DEF Error
<1> QED BY <1>2, <1>4, <1>5, <1>6, <1>7, <1>8, <1>9, SameFormat DEF Stream!Completed, s

-----------------------------------------------------------------------------
(* FlattenSeq is defined by recursion: its value is the last of a sequence in
   which each element extends the one before. *)

IsFlatten(f, ss) ==
    /\ f[1] = ss[1]
    /\ \A i \in 2 .. Len(ss) : f[i] = f[i - 1] \o ss[i]

LEMMA FlattenExists ==
    ASSUME NEW R, NEW ss \in Seq(Seq(R)), ss # << >>
    PROVE  \E f \in [1 .. Len(ss) -> Seq(R)] : IsFlatten(f, ss)
<1> DEFINE n == Len(ss) - 1
           G == [x \in (1 .. n) \X Seq(R) |-> x[2] \o ss[x[1] + 1]]
<1>1. n \in Nat /\ ss[1] \in Seq(R) /\ n + 1 = Len(ss)
  BY EmptySeq
<1>2. G \in StepFunctions(n, Seq(R))
  <2>1. ASSUME NEW i \in 1 .. n, NEW p \in Seq(R) PROVE p \o ss[i + 1] \in Seq(R)
    <3>1. ss[i + 1] \in Seq(R)
      BY <1>1
    <3> QED BY <3>1, ConcatProperties
  <2> QED BY <2>1 DEF StepFunctions
<1>3. PICK f : IsRecursion(f, n, Seq(R), ss[1], G)
  <2> HIDE DEF n, G
  <2> QED BY <1>1, <1>2, RecursionExists
<1> DEFINE g == [i \in 1 .. Len(ss) |-> f[i - 1]]
<1>4. f \in [0 .. n -> Seq(R)] /\ f[0] = ss[1]
  BY <1>3 DEF IsRecursion
<1>5. g \in [1 .. Len(ss) -> Seq(R)]
  BY <1>1, <1>4
<1>6. g[1] = ss[1]
  BY <1>1, <1>4
<1>7. ASSUME NEW i \in 2 .. Len(ss) PROVE g[i] = g[i - 1] \o ss[i]
  <2> DEFINE j == i - 1
  <2>1. j \in 1 .. n /\ j - 1 \in 0 .. n /\ j + 1 = i
    BY <1>1
  <2>2. f[j - 1] \in Seq(R)
    BY <1>4, <2>1
  <2>3. g[i] = f[j] /\ g[i - 1] = f[j - 1]
    <3>1. i \in 1 .. Len(ss) /\ i - 1 \in 1 .. Len(ss) /\ (i - 1) - 1 = j - 1
      BY <1>1
    <3> QED BY <3>1
  <2> HIDE DEF j, g
  <2>4. f[j] = G[<< j, f[j - 1] >>]
    <3> HIDE DEF G, n
    <3> QED BY <1>3, <2>1 DEF IsRecursion
  <2>5. G[<< j, f[j - 1] >>] = f[j - 1] \o ss[j + 1]
    BY <2>1, <2>2
  <2> HIDE DEF G
  <2> QED BY <2>1, <2>3, <2>4, <2>5
<1> HIDE DEF g
<1> QED BY <1>5, <1>6, <1>7 DEF IsFlatten

LEMMA FlattenUnfolds ==
    ASSUME NEW R, NEW ss \in Seq(Seq(R)), ss # << >>
    PROVE  \E f : IsFlatten(f, ss) /\ Stream!FlattenSeq(ss) = f[Len(ss)]
<1> DEFINE Unfold(f) ==
               [i \in 1 .. Len(ss) |-> IF i = 1 THEN ss[i] ELSE f[i - 1] \o ss[i]]
           flatten[i \in 1 .. Len(ss)] ==
               IF i = 1 THEN ss[i] ELSE flatten[i - 1] \o ss[i]
<1>1. Len(ss) \in Nat \ {0}
  BY EmptySeq
<1>2. \E f : f = Unfold(f)
  <2>1. PICK f \in [1 .. Len(ss) -> Seq(R)] : IsFlatten(f, ss)
    BY FlattenExists
  <2>2. ASSUME NEW i \in 1 .. Len(ss) PROVE f[i] = Unfold(f)[i]
    <3>1. i = 1 \/ i \in 2 .. Len(ss)
      BY <1>1
    <3> QED BY <2>1, <3>1 DEF IsFlatten
  <2>3. f = [i \in 1 .. Len(ss) |-> f[i]]
        /\ Unfold(f) = [i \in 1 .. Len(ss) |-> Unfold(f)[i]]
    OBVIOUS
  <2> HIDE DEF Unfold
  <2> f = Unfold(f)
    BY <2>2, <2>3
  <2> QED OBVIOUS
<1>3. flatten = Unfold(flatten)
  <2>1. flatten = CHOOSE f : f = Unfold(f)
    OBVIOUS
  <2> HIDE DEF flatten, Unfold
  <2> QED BY <1>2, <2>1
<1>4. IsFlatten(flatten, ss)
  <2> HIDE DEF flatten
  <2>1. \A f : Unfold(f)[1] = ss[1]
    BY <1>1
  <2>2. \A f : \A i \in 2 .. Len(ss) : Unfold(f)[i] = f[i - 1] \o ss[i]
    <3> SUFFICES ASSUME NEW f, NEW i \in 2 .. Len(ss)
                 PROVE  Unfold(f)[i] = f[i - 1] \o ss[i]
      OBVIOUS
    <3>1. i \in 1 .. Len(ss) /\ i # 1
      BY <1>1
    <3> QED BY <3>1
  <2>3. flatten[1] = Unfold(flatten)[1]
        /\ \A i \in 2 .. Len(ss) : flatten[i] = Unfold(flatten)[i]
    <3> HIDE DEF Unfold
    <3> QED BY <1>3
  <2> HIDE DEF Unfold
  <2> QED BY <2>1, <2>2, <2>3 DEF IsFlatten
<1>5. Stream!FlattenSeq(ss) = flatten[Len(ss)]
  BY <1>1 DEF Stream!FlattenSeq
<1> HIDE DEF flatten
<1> QED BY <1>4, <1>5

(* The results of one more sequence are added at the end. *)
LEMMA FlattenSnoc ==
    ASSUME NEW R, NEW ss \in Seq(Seq(R)), NEW t \in Seq(R)
    PROVE  Stream!FlattenSeq(Append(ss, t)) = Stream!FlattenSeq(ss) \o t
<1> DEFINE tt == Append(ss, t)
<1>1. /\ tt \in Seq(Seq(R)) /\ tt # << >> /\ Len(tt) = Len(ss) + 1 /\ Len(ss) \in Nat
      /\ tt[Len(tt)] = t /\ \A i \in 1 .. Len(ss) : tt[i] = ss[i]
  BY AppendProperties
<1>2. PICK g : IsFlatten(g, tt) /\ Stream!FlattenSeq(tt) = g[Len(tt)]
  <2> HIDE DEF tt
  <2> QED BY <1>1, FlattenUnfolds
<1> HIDE DEF tt
<1>3. CASE ss = << >>
  <2>1. Stream!FlattenSeq(ss) = << >>
    BY <1>3 DEF Stream!FlattenSeq
  <2>2. g[Len(tt)] = t
    BY <1>1, <1>2, <1>3 DEF IsFlatten
  <2>3. << >> \o t = t
    BY ConcatEmptySeq
  <2> QED BY <1>2, <2>1, <2>2, <2>3 DEF tt
<1>4. CASE ss # << >>
  <2>1. PICK f : IsFlatten(f, ss) /\ Stream!FlattenSeq(ss) = f[Len(ss)]
    BY <1>4, FlattenUnfolds
  <2>2. Len(ss) # 0
    BY <1>4, EmptySeq
  <2> DEFINE S == {k \in Nat : k + 1 <= Len(ss) => f[k + 1] = g[k + 1]}
  <2>3. 0 \in S
    <3>1. f[1] = ss[1] /\ g[1] = tt[1]
      BY <1>2, <2>1 DEF IsFlatten
    <3>2. tt[1] = ss[1]
      BY <1>1, <2>2
    <3> QED BY <3>1, <3>2
  <2>4. ASSUME NEW k \in Nat, k \in S PROVE k + 1 \in S
    <3> SUFFICES ASSUME k + 2 <= Len(ss) PROVE f[k + 2] = g[k + 2]
      <4>1. (k + 1) + 1 = k + 2 /\ k + 1 \in Nat
        OBVIOUS
      <4> QED BY <4>1
    <3>1. f[k + 1] = g[k + 1]
      BY <1>1, <2>4
    <3>2. k + 2 \in 2 .. Len(ss) /\ k + 2 \in 2 .. Len(tt) /\ (k + 2) - 1 = k + 1
          /\ tt[k + 2] = ss[k + 2]
      BY <1>1
    <3>3. f[k + 2] = f[k + 1] \o ss[k + 2]
      BY <2>1, <3>2 DEF IsFlatten
    <3>4. g[k + 2] = g[k + 1] \o tt[k + 2]
      BY <1>2, <3>2 DEF IsFlatten
    <3> QED BY <3>1, <3>2, <3>3, <3>4
  <2>5. Nat \subseteq S
    <3> HIDE DEF S
    <3> QED BY <2>3, <2>4, SetInduction
  <2>6. Len(ss) - 1 \in S
    <3>1. Len(ss) - 1 \in Nat
      BY <1>1, <2>2
    <3> HIDE DEF S
    <3> QED BY <2>5, <3>1
  <2>7. f[Len(ss)] = g[Len(ss)]
    <3>1. (Len(ss) - 1) + 1 = Len(ss)
      BY <1>1
    <3> QED BY <1>1, <2>6, <3>1
  <2>8. Len(tt) \in 2 .. Len(tt) /\ Len(tt) - 1 = Len(ss)
    BY <1>1, <2>2
  <2>9. g[Len(tt)] = g[Len(ss)] \o t
    BY <1>1, <1>2, <2>8 DEF IsFlatten
  <2> QED BY <1>2, <2>1, <2>7, <2>9 DEF tt
<1> QED BY <1>3, <1>4

(* A character adds the results it completes, and changes none before. *)
LEMMA ResultsGrow ==
    ASSUME NEW w \in Seq(Char), NEW c \in Char
    PROVE  /\ Stream!Results(Append(w, c)) =
                  Stream!Results(w) \o Stream!Completed(Append(w, c), Len(w) + 1)
           /\ Stream!Completed(Append(w, c), Len(w) + 1) \in Seq(Result)
<1> DEFINE v == Append(w, c)
           n == Len(w)
           ss == [i \in 1 .. n |-> Stream!Completed(w, i)]
           last == Stream!Completed(v, n + 1)
<1>1. /\ v \in Seq(Char) /\ Len(v) = n + 1 /\ n \in Nat
      /\ \A i \in 1 .. n : v[i] = w[i]
  BY AppendProperties
<1> HIDE DEF v
<1>2. ASSUME NEW i \in 1 .. n
      PROVE  /\ Stream!Completed(w, i) = Stream!Completed(v, i)
             /\ Stream!Completed(w, i) \in Seq(Result)
  <2>1. Agree(w, v, i)
    BY <1>1 DEF Agree
  <2> QED BY <1>1, <2>1, CompletedLocal
<1>3. last \in Seq(Result)
  <2>1. Agree(v, v, n + 1) /\ n + 1 \in 1 .. Len(v) /\ n + 1 <= Len(v)
    BY <1>1 DEF Agree
  <2> QED BY <1>1, <2>1, CompletedLocal
<1>4. ss \in Seq(Seq(Result)) /\ Len(ss) = n
  BY <1>1, <1>2
<1>5. [i \in DOMAIN w |-> Stream!Completed(w, i)] = ss
  BY <1>1
<1>6. [i \in DOMAIN v |-> Stream!Completed(v, i)] = Append(ss, last)
  <2> DEFINE a == [i \in 1 .. n + 1 |-> Stream!Completed(v, i)]
             b == Append(ss, last)
  <2>1. ASSUME NEW i \in 1 .. n + 1
        PROVE  a[i] = b[i] /\ a[i] \in Seq(Result)
    <3>1. CASE i \in 1 .. n
      BY <1>2, <1>4, <3>1
    <3>2. CASE i = n + 1
      <4>1. a[i] = last
        BY <3>2
      <4>2. b[i] = last
        <5> HIDE DEF ss, last, n
        <5> QED BY <1>3, <1>4, <3>2, AppendProperties
      <4> QED BY <1>3, <4>1, <4>2
    <3> QED BY <1>1, <3>1, <3>2
  <2>2. a \in Seq(Seq(Result)) /\ Len(a) = n + 1
    BY <1>1, <2>1
  <2>3. b \in Seq(Seq(Result)) /\ Len(b) = n + 1
    <3> HIDE DEF ss, last, n
    <3> QED BY <1>3, <1>4, AppendProperties
  <2>4. DOMAIN v = 1 .. n + 1
    BY <1>1
  <2> HIDE DEF b
  <2>5. a = b
    <3> HIDE DEF a
    <3> QED BY <2>1, <2>2, <2>3, SeqEqual
  <2> QED BY <2>4, <2>5 DEF b
<1>7. Stream!FlattenSeq(Append(ss, last)) = Stream!FlattenSeq(ss) \o last
  <2> HIDE DEF ss, last
  <2> QED BY <1>3, <1>4, FlattenSnoc
<1> HIDE DEF ss
<1> QED BY <1>3, <1>5, <1>6, <1>7 DEF Stream!Results, v

-----------------------------------------------------------------------------
(***************************************************************************)
(* Where the frame in progress starts and ends, from what the decoder      *)
(* remembers of it.                                                        *)
(***************************************************************************)
LEMMA FrameStartIs ==
    ASSUME NEW w, NEW i \in Nat \ {0}, NEW s \in 1 .. i - 1, w[s] = Dollar,
           \A k \in s + 1 .. i - 1 : w[k] # Dollar
    PROVE  Stream!FrameStart(w, i) = s
<1> DEFINE t == Stream!FrameStart(w, i)
<1>1. \/ t = 0 /\ \A k \in 1 .. i - 1 : w[k] # Dollar
      \/ /\ t \in 1 .. i - 1 /\ w[t] = Dollar
         /\ \A k \in t + 1 .. i - 1 : w[k] # Dollar
  BY FrameStartMeaning
<1> HIDE DEF t
<1>2. t \in 1 .. i - 1
  BY <1>1
<1>3. ~ (t < s) /\ ~ (s < t)
  BY <1>1, <1>2
<1>4. t = s
  BY <1>2, <1>3
<1> QED BY <1>4 DEF t

LEMMA BodyEndIs ==
    ASSUME NEW w, NEW s \in Nat, NEW i \in Nat, NEW h \in s + 1 .. i, w[h] = Hash,
           \A k \in s + 1 .. h - 1 : w[k] # Hash
    PROVE  Stream!BodyEnd(w, s, i) = h
<1> DEFINE t == Stream!BodyEnd(w, s, i)
<1>1. \/ t = 0 /\ \A k \in s + 1 .. i : w[k] # Hash
      \/ /\ t \in s + 1 .. i /\ w[t] = Hash
         /\ \A k \in s + 1 .. t - 1 : w[k] # Hash
  BY BodyEndMeaning
<1> HIDE DEF t
<1>2. t \in s + 1 .. i
  BY <1>1
<1>3. ~ (t < h) /\ ~ (h < t)
  BY <1>1, <1>2
<1>4. t = h
  BY <1>2, <1>3
<1> QED BY <1>4 DEF t

LEMMA NoBodyEnd ==
    ASSUME NEW w, NEW s \in Nat, NEW i \in Nat, \A k \in s + 1 .. i : w[k] # Hash
    PROVE  Stream!BodyEnd(w, s, i) = 0
  BY BodyEndMeaning

(* A frame that has ended stays so. *)
LEMMA FrameEndStable ==
    ASSUME NEW w, NEW v, NEW s \in Nat, NEW n \in Nat, Agree(w, v, n),
           Stream!FrameEnd(w, s, n) <= n
    PROVE  /\ Stream!FrameEnd(v, s, n) <= n
           /\ Stream!FrameEnd(v, s, n + 1) <= n
<1>1. Stream!FrameEnd(v, s, n) <= n
  BY FrameEndLocal
<1> DEFINE h == Stream!BodyEnd(v, s, n)
           g == Stream!BodyEnd(v, s, n + 1)
<1>2. \/ h = 0 /\ \A k \in s + 1 .. n : v[k] # Hash
      \/ /\ h \in s + 1 .. n /\ v[h] = Hash
         /\ \A k \in s + 1 .. h - 1 : v[k] # Hash
  BY BodyEndMeaning
<1>3. h # 0 => g = h
  <2> SUFFICES ASSUME h # 0 PROVE g = h
    OBVIOUS
  <2>1. h \in s + 1 .. n + 1
    BY <1>2
  <2> HIDE DEF h
  <2> QED BY <1>2, <2>1, BodyEndIs
<1>4. h = 0 => g = 0 \/ g = n + 1
  <2>1. \/ g = 0
        \/ g \in s + 1 .. n + 1 /\ v[g] = Hash
    BY BodyEndMeaning
  <2> HIDE DEF h, g
  <2> QED BY <1>2, <2>1
<1> HIDE DEF h, g
<1> QED BY <1>1, <1>2, <1>3, <1>4, CodeAssumption DEF Stream!FrameEnd, h, g

-----------------------------------------------------------------------------
(* The frame in progress is the one that the last '$' of w opened. *)
Opened(w, s) ==
    /\ s \in 1 .. Len(w) /\ w[s] = Dollar
    /\ \A k \in s + 1 .. Len(w) : w[k] # Dollar

(* Its body ends before position h, and fits the buffer. *)
BodyIs(w, s, h, body) ==
    /\ h \in s + 1 .. Len(w) + 1 /\ h - 1 - s <= MaxBuffer
    /\ \A k \in s + 1 .. h - 1 : w[k] # Hash
    /\ body = SubSeq(w, s + 1, h - 1)

InFrame(w, h) ==
    \E s \in 1 .. Len(w) : Opened(w, s) /\ BodyIs(w, s, h, in_buffer)

FrameKnown(w) ==
    LET n == Len(w)
        s == Stream!FrameStart(w, n + 1)
    IN  /\ state = "Waiting_dollar" => s = 0 \/ Stream!FrameEnd(w, s, n) <= n
        /\ state = "Receiving_body" => InFrame(w, n + 1)
        /\ state = "Receiving_checksum1" => w[n] = Hash /\ InFrame(w, n)
        /\ state = "Receiving_checksum2" =>
              /\ w[n - 1] = Hash /\ InFrame(w, n - 1)
              /\ w[n] \notin Control /\ checksum_buffer = << w[n] >>

(***************************************************************************)
(* What the next character completes in an open frame.                     *)
(***************************************************************************)
LEMMA CompletedInFrame ==
    ASSUME NEW w \in Seq(Char), NEW c \in Char, NEW s, Opened(w, s),
           Stream!FrameEnd(Append(w, c), s, Len(w)) = Len(w) + 1
    PROVE  Stream!Completed(Append(w, c), Len(w) + 1) =
               IF c = Dollar THEN << Failure("Bad_packet") >>
               ELSE IF Stream!FrameEnd(Append(w, c), s, Len(w) + 1) = Len(w) + 1
               THEN Stream!Closing(Append(w, c), s, Len(w) + 1)
               ELSE << >>
<1> DEFINE v == Append(w, c)
           n == Len(w)
<1>1. /\ n \in Nat /\ n + 1 \in Nat \ {0} /\ (n + 1) - 1 = n /\ v[n + 1] = c
      /\ \A k \in 1 .. n : v[k] = w[k]
  BY AppendProperties
<1>2. s \in 1 .. n /\ v[s] = Dollar /\ \A k \in s + 1 .. n : v[k] # Dollar
  BY <1>1 DEF Opened
<1> HIDE DEF v, n
<1>3. Stream!FrameStart(v, n + 1) = s
  BY <1>1, <1>2, FrameStartIs
<1>4. Stream!FrameEnd(v, s, n) = n + 1
  BY DEF v, n
<1>5. s # 0 /\ ~ (n + 1 < n + 1)
  BY <1>1, <1>2
<1>6. Stream!Completed(v, n + 1) =
               IF c = Dollar THEN << Failure("Bad_packet") >>
               ELSE IF Stream!FrameEnd(v, s, n + 1) = n + 1
               THEN Stream!Closing(v, s, n + 1)
               ELSE << >>
  BY <1>1, <1>3, <1>4, <1>5, SameFormat DEF Stream!Completed
<1> QED BY <1>6 DEF v, n

(***************************************************************************)
(* Where an open frame ends, by what has been received of it.              *)
(***************************************************************************)
LEMMA EndInBody ==
    ASSUME NEW v, NEW n \in Nat, NEW s \in 1 .. n, n - s <= MaxBuffer,
           \A k \in s + 1 .. n : v[k] # Hash
    PROVE  /\ Stream!FrameEnd(v, s, n) = n + 1
           /\ v[n + 1] = Hash => Stream!FrameEnd(v, s, n + 1) # n + 1
           /\ v[n + 1] # Hash /\ n - s < MaxBuffer =>
                  Stream!FrameEnd(v, s, n + 1) # n + 1
           /\ v[n + 1] # Hash /\ n - s = MaxBuffer =>
                  /\ Stream!FrameEnd(v, s, n + 1) = n + 1
                  /\ Stream!BodyEnd(v, s, n + 1) = 0
<1>1. Stream!BodyEnd(v, s, n) = 0
  BY NoBodyEnd
<1>2. v[n + 1] = Hash => Stream!BodyEnd(v, s, n + 1) = n + 1
  <2>1. n + 1 \in s + 1 .. n + 1 /\ s \in Nat /\ n + 1 \in Nat /\ (n + 1) - 1 = n
    OBVIOUS
  <2> QED BY <2>1, BodyEndIs
<1>3. v[n + 1] # Hash => Stream!BodyEnd(v, s, n + 1) = 0
  <2>1. v[n + 1] # Hash => \A k \in s + 1 .. n + 1 : v[k] # Hash
    OBVIOUS
  <2> QED BY <2>1, NoBodyEnd
<1>4. Stream!FrameEnd(v, s, n) = n + 1
  BY <1>1, CodeAssumption DEF Stream!FrameEnd
<1>5. v[n + 1] = Hash => Stream!FrameEnd(v, s, n + 1) # n + 1
  BY <1>2, CodeAssumption DEF Stream!FrameEnd
<1>6. v[n + 1] # Hash /\ n - s < MaxBuffer => Stream!FrameEnd(v, s, n + 1) # n + 1
  BY <1>3, CodeAssumption DEF Stream!FrameEnd
<1>7. v[n + 1] # Hash /\ n - s = MaxBuffer => Stream!FrameEnd(v, s, n + 1) = n + 1
  BY <1>3, CodeAssumption DEF Stream!FrameEnd
<1> QED BY <1>3, <1>4, <1>5, <1>6, <1>7

LEMMA EndInChecksum1 ==
    ASSUME NEW v, NEW n \in Nat, NEW s \in 1 .. n - 1, n - 1 - s <= MaxBuffer,
           v[n] = Hash, \A k \in s + 1 .. n - 1 : v[k] # Hash
    PROVE  /\ Stream!FrameEnd(v, s, n) = n + 1
           /\ Stream!BodyEnd(v, s, n + 1) = n
           /\ Stream!FrameEnd(v, s, n + 1) =
                  IF v[n + 1] \in Control THEN n + 1 ELSE n + 2
<1>1. Stream!BodyEnd(v, s, n) = n
  <2>1. n \in s + 1 .. n /\ s \in Nat
    OBVIOUS
  <2> QED BY <2>1, BodyEndIs
<1>2. Stream!BodyEnd(v, s, n + 1) = n
  <2>1. n \in s + 1 .. n + 1 /\ s \in Nat /\ n + 1 \in Nat
    OBVIOUS
  <2> QED BY <2>1, BodyEndIs
<1>3. Stream!FrameEnd(v, s, n) = n + 1
  BY <1>1, CodeAssumption DEF Stream!FrameEnd
<1>4. Stream!FrameEnd(v, s, n + 1) = IF v[n + 1] \in Control THEN n + 1 ELSE n + 2
  BY <1>2, CodeAssumption DEF Stream!FrameEnd
<1> QED BY <1>2, <1>3, <1>4

LEMMA EndInChecksum2 ==
    ASSUME NEW v, NEW n \in Nat, NEW s \in 1 .. n - 2, n - 2 - s <= MaxBuffer,
           v[n - 1] = Hash, v[n] \notin Control, \A k \in s + 1 .. n - 2 : v[k] # Hash
    PROVE  /\ Stream!FrameEnd(v, s, n) = n + 1
           /\ Stream!BodyEnd(v, s, n + 1) = n - 1
           /\ Stream!FrameEnd(v, s, n + 1) = n + 1
<1>0. (n - 1) - 1 = n - 2 /\ n - 1 \in Nat /\ s \in Nat /\ (n - 1) + 1 = n
  OBVIOUS
<1>1. Stream!BodyEnd(v, s, n) = n - 1
  <2>1. n - 1 \in s + 1 .. n
    OBVIOUS
  <2> QED BY <1>0, <2>1, BodyEndIs
<1>2. Stream!BodyEnd(v, s, n + 1) = n - 1
  <2>1. n - 1 \in s + 1 .. n + 1 /\ n + 1 \in Nat
    OBVIOUS
  <2> QED BY <1>0, <2>1, BodyEndIs
<1>3. Stream!FrameEnd(v, s, n) = n + 1
  BY <1>0, <1>1, CodeAssumption DEF Stream!FrameEnd
<1>4. Stream!FrameEnd(v, s, n + 1) = n + 1
  BY <1>0, <1>2, CodeAssumption DEF Stream!FrameEnd
<1> QED BY <1>2, <1>3, <1>4

(***************************************************************************)
(* The invariant of the refinement: the state, the body and the digit held *)
(* are those of the frame in progress of the text, and the results taken   *)
(* and queued are those the text has completed.                            *)
(***************************************************************************)
StreamInv ==
    /\ IInv
    /\ FrameKnown(wire)
    /\ taken \o out_queue = Stream!Results(wire)

(* The step for the character c enqueues what the text says it completes. *)
Matches(c) ==
    out_queue' = out_queue \o Stream!Completed(Append(wire, c), Len(wire) + 1)

LEMMA ConcatResults ==
    ASSUME NEW a \in Seq(Result), NEW b \in Seq(Result), NEW d \in Seq(Result)
    PROVE  a \o (b \o d) = (a \o b) \o d
<1> DEFINE R == Result
<1> HIDE DEF R
<1>1. a \in Seq(R) /\ b \in Seq(R) /\ d \in Seq(R)
  BY DEF R
<1> QED BY <1>1, ConcatAssociative

LEMMA QueueGrows ==
    ASSUME StreamInv, NEW c \in Char, wire' = Append(wire, c), taken' = taken, Matches(c)
    PROVE  (taken \o out_queue = Stream!Results(wire))'
<1> DEFINE more == Stream!Completed(Append(wire, c), Len(wire) + 1)
<1>1. wire \in Seq(Char) /\ taken \in Seq(Result) /\ out_queue \in Seq(Result)
  BY DEF StreamInv, IInv, TypeOK
<1>2. Stream!Results(Append(wire, c)) = Stream!Results(wire) \o more
      /\ more \in Seq(Result)
  BY <1>1, ResultsGrow
<1>3. taken' \o out_queue' = taken \o (out_queue \o more)
  BY DEF Matches
<1> HIDE DEF more
<1>4. taken \o (out_queue \o more) = (taken \o out_queue) \o more
  BY <1>1, <1>2, ConcatResults
<1>5. Stream!Results(wire)' = Stream!Results(wire')
  OBVIOUS
<1> QED BY <1>2, <1>3, <1>4, <1>5 DEF StreamInv

(* The character c appended to wire. *)
LEMMA WireGrows ==
    ASSUME IInv, NEW c \in Char
    PROVE  /\ wire \in Seq(Char) /\ Append(wire, c) \in Seq(Char)
           /\ Len(wire) \in Nat /\ Len(Append(wire, c)) = Len(wire) + 1
           /\ Append(wire, c)[Len(wire) + 1] = c
           /\ \A k \in 1 .. Len(wire) : Append(wire, c)[k] = wire[k]
           /\ Agree(wire, Append(wire, c), Len(wire))
<1>1. wire \in Seq(Char)
  BY DEF IInv, TypeOK
<1> QED BY <1>1, AppendProperties DEF Agree

LEMMA OpenedGrows ==
    ASSUME IInv, NEW c \in Char, c # Dollar, NEW s, Opened(wire, s)
    PROVE  Opened(Append(wire, c), s)
<1> DEFINE v == Append(wire, c)
<1>1. /\ Len(wire) \in Nat /\ Len(v) = Len(wire) + 1 /\ v[Len(wire) + 1] = c
      /\ \A k \in 1 .. Len(wire) : v[k] = wire[k]
  BY WireGrows
<1> HIDE DEF v
<1>2. s \in 1 .. Len(v) /\ v[s] = Dollar
  BY <1>1 DEF Opened
<1>3. ASSUME NEW k \in s + 1 .. Len(v) PROVE v[k] # Dollar
  BY <1>1, <1>2 DEF Opened
<1>4. Opened(v, s)
  BY <1>2, <1>3 DEF Opened
<1> QED BY <1>4 DEF v

(* A '$' opens a frame with nothing in it. *)
LEMMA FrameOpens ==
    ASSUME IInv, NEW c \in Char, c = Dollar, wire' = Append(wire, c),
           state' = "Receiving_body", in_buffer' = << >>
    PROVE  FrameKnown(wire)'
<1> DEFINE v == Append(wire, c)
           n == Len(wire)
<1>1. v \in Seq(Char) /\ n \in Nat /\ Len(v) = n + 1 /\ v[n + 1] = c
  BY WireGrows
<1> HIDE DEF v, n
<1>2. n + 1 \in 1 .. Len(v) /\ Opened(v, n + 1)
  BY <1>1 DEF Opened
<1>3. BodyIs(v, n + 1, n + 2, << >>)
  <2>1. SubSeq(v, n + 2, n + 1) = << >>
    BY <1>1
  <2>2. n + 2 \in (n + 1) + 1 .. Len(v) + 1
    BY <1>1
  <2>3. (n + 2) - 1 - (n + 1) <= MaxBuffer
    BY <1>1, CodeAssumption
  <2>4. (n + 1) + 1 = n + 2 /\ (n + 2) - 1 = n + 1
    BY <1>1
  <2>5. \A k \in (n + 1) + 1 .. (n + 2) - 1 : v[k] # Hash
    BY <1>1
  <2> QED BY <2>1, <2>2, <2>3, <2>4, <2>5 DEF BodyIs
<1>4. \E s \in 1 .. Len(v) : Opened(v, s) /\ BodyIs(v, s, n + 2, << >>)
  BY <1>2, <1>3
<1>5. v = wire' /\ n + 2 = Len(wire') + 1
  BY <1>1 DEF v
<1>6. (InFrame(wire, Len(wire) + 1))'
  BY <1>4, <1>5 DEF InFrame
<1> QED BY <1>6 DEF FrameKnown

(* A frame that ends leaves the decoder waiting for a '$'. *)
LEMMA FrameEnds ==
    ASSUME IInv, NEW c \in Char, c # Dollar, wire' = Append(wire, c),
           state' = "Waiting_dollar", NEW s, Opened(wire, s),
           Stream!FrameEnd(Append(wire, c), s, Len(wire) + 1) = Len(wire) + 1
    PROVE  FrameKnown(wire)'
<1> DEFINE v == Append(wire, c)
           n == Len(wire)
<1>1. n \in Nat /\ Len(v) = n + 1
  BY WireGrows
<1>2. Opened(v, s)
  BY OpenedGrows
<1>3. Stream!FrameEnd(v, s, n + 1) = n + 1
  OBVIOUS
<1>4. v = wire'
  OBVIOUS
<1> HIDE DEF v, n
<1>5. n + 2 \in Nat \ {0} /\ (n + 2) - 1 = n + 1 /\ s \in 1 .. n + 1
  BY <1>1, <1>2 DEF Opened
<1>6. Stream!FrameStart(v, n + 2) = s
  BY <1>1, <1>2, <1>5, FrameStartIs DEF Opened
<1>7. Len(v) + 1 = n + 2
  BY <1>1
<1>8. Stream!FrameEnd(v, Stream!FrameStart(v, Len(v) + 1), Len(v)) <= Len(v)
  BY <1>1, <1>3, <1>6, <1>7
<1>9. Stream!FrameEnd(wire', Stream!FrameStart(wire', Len(wire') + 1), Len(wire'))
        <= Len(wire')
  BY <1>4, <1>8
<1> QED BY <1>9 DEF FrameKnown

LEMMA WaitingMatches ==
    ASSUME StreamInv, NEW c \in Char, wire' = Append(wire, c), WaitingDollar(c)
    PROVE  Matches(c) /\ FrameKnown(wire)'
<1> DEFINE v == Append(wire, c)
           n == Len(wire)
           s == Stream!FrameStart(wire, n + 1)
<1>1. /\ IInv /\ state = "Waiting_dollar"
      /\ s = 0 \/ Stream!FrameEnd(wire, s, n) <= n
  BY DEF StreamInv, FrameKnown, WaitingDollar
<1>2. /\ v \in Seq(Char) /\ n \in Nat /\ Len(v) = n + 1 /\ v[n + 1] = c
      /\ \A k \in 1 .. n : v[k] = wire[k]
      /\ Agree(wire, v, n)
  BY <1>1, WireGrows
<1>3. v = wire'
  OBVIOUS
<1>4. out_queue \in Seq(Result) /\ in_buffer = << >>
  BY <1>1 DEF IInv, TypeOK, BufferDiscipline
<1>5. n + 1 \in Nat \ {0} /\ (n + 1) - 1 = n
  BY <1>2
<1> HIDE DEF v, n
<1>6. s = Stream!FrameStart(v, n + 1)
  BY <1>2, <1>5, FrameStartLocal
<1>7. s \in Nat
  BY <1>5, FrameStartMeaning
<1> HIDE DEF s
<1>8. s = 0 \/ /\ Stream!FrameEnd(v, s, n) <= n
               /\ Stream!FrameEnd(v, s, n + 1) <= n
  BY <1>1, <1>2, <1>7, FrameEndStable
<1>9. s = 0 \/ Stream!FrameEnd(v, s, n) < n + 1
  <2>1. Stream!FrameEnd(v, s, n) \in Int
    <3>1. Stream!BodyEnd(v, s, n) \in Int
      BY <1>2, <1>7, BodyEndMeaning
    <3> QED BY <1>2, <1>7, <3>1, CodeAssumption DEF Stream!FrameEnd
  <2> QED BY <1>2, <1>8, <2>1
<1>10. Stream!Completed(v, n + 1) =
           IF c = Dollar THEN << >> ELSE Stream!Outside(v, n + 1)
  BY <1>2, <1>5, <1>6, <1>9 DEF Stream!Completed
<1>11. Stream!Completed(v, n + 1) =
           IF c \in Control THEN << Packet(<< c >>) >> ELSE << >>
  BY <1>2, <1>10, CharAssumption, SameFormat DEF Stream!Outside
<1>12. out_queue' = out_queue \o Stream!Completed(v, n + 1)
  <2>1. CASE c \in Control
    BY <1>11, <2>1 DEF WaitingDollar, PushResults
  <2>2. CASE c \notin Control
    <3>1. out_queue' = out_queue
      BY <2>2 DEF WaitingDollar, NoResult
    <3> QED BY <1>4, <1>11, <2>2, <3>1, ConcatEmptySeq
  <2> QED BY <2>1, <2>2
<1>13. Matches(c)
  BY <1>12 DEF Matches, v, n
<1>14. CASE c = Dollar
  <2>1. state' = "Receiving_body" /\ in_buffer' = << >>
    BY <1>4, <1>14, CharAssumption DEF WaitingDollar, NoResult
  <2>2. FrameKnown(wire)'
    BY <1>1, <1>14, <2>1, FrameOpens
  <2> QED BY <1>13, <2>2
<1>15. CASE c # Dollar
  <2>1. state' = "Waiting_dollar"
    BY <1>1, <1>15 DEF WaitingDollar
  <2> DEFINE t == Stream!FrameStart(v, Len(v) + 1)
  <2>2. t = 0 \/ Stream!FrameEnd(v, t, Len(v)) <= Len(v)
    <3>1. Len(v) + 1 \in Nat \ {0} /\ (Len(v) + 1) - 1 = n + 1
      BY <1>2
    <3>2. t = s
      <4>1. CASE s = 0
        <5>1. \A k \in 1 .. n : v[k] # Dollar
          BY <1>5, <1>6, <4>1, FrameStartMeaning
        <5>2. \A k \in 1 .. n + 1 : v[k] # Dollar
          BY <1>2, <1>15, <5>1
        <5> QED BY <3>1, <4>1, <5>2, FrameStartMeaning
      <4>2. CASE s # 0
        <5>1. s \in 1 .. n /\ v[s] = Dollar /\ \A k \in s + 1 .. n : v[k] # Dollar
          BY <1>5, <1>6, <4>2, FrameStartMeaning
        <5>2. \A k \in s + 1 .. n + 1 : v[k] # Dollar
          BY <1>2, <1>15, <5>1
        <5>3. s \in 1 .. n + 1
          BY <5>1, <1>2
        <5> QED BY <3>1, <5>1, <5>2, <5>3, FrameStartIs
      <4> QED BY <4>1, <4>2
    <3>3. Stream!FrameEnd(v, s, n + 1) \in Int
      <4>1. Stream!BodyEnd(v, s, n + 1) \in Int
        BY <1>2, <1>7, BodyEndMeaning
      <4> QED BY <1>2, <1>7, <4>1, CodeAssumption DEF Stream!FrameEnd
    <3> HIDE DEF t
    <3> QED BY <1>2, <1>8, <3>2, <3>3
  <2>3. FrameKnown(wire)'
    BY <1>3, <2>1, <2>2 DEF FrameKnown
  <2> QED BY <1>13, <2>3
<1> QED BY <1>14, <1>15

(* The frame of each state, and where the next character ends it. *)
LEMMA BodyFrame ==
    ASSUME StreamInv, state = "Receiving_body", NEW c \in Char
    PROVE  LET v == Append(wire, c)
               n == Len(wire)
           IN  \E s \in 1 .. n :
                   /\ Opened(wire, s)
                   /\ BodyIs(wire, s, n + 1, in_buffer)
                   /\ Len(in_buffer) = n - s /\ n - s <= MaxBuffer
                   /\ Stream!FrameEnd(v, s, n) = n + 1
                   /\ c = Hash => Stream!FrameEnd(v, s, n + 1) # n + 1
                   /\ c # Hash /\ n - s < MaxBuffer =>
                          Stream!FrameEnd(v, s, n + 1) # n + 1
                   /\ c # Hash /\ n - s = MaxBuffer =>
                          /\ Stream!FrameEnd(v, s, n + 1) = n + 1
                          /\ Stream!BodyEnd(v, s, n + 1) = 0
<1> DEFINE v == Append(wire, c)
           n == Len(wire)
<1>1. /\ wire \in Seq(Char) /\ n \in Nat /\ v[n + 1] = c
      /\ \A k \in 1 .. n : v[k] = wire[k]
  BY WireGrows DEF StreamInv
<1>2. PICK s \in 1 .. n : Opened(wire, s) /\ BodyIs(wire, s, n + 1, in_buffer)
  BY DEF StreamInv, FrameKnown, InFrame
<1> HIDE DEF v, n
<1>3. /\ (n + 1) - 1 = n
      /\ \A k \in s + 1 .. n : wire[k] # Hash
      /\ n - s <= MaxBuffer
      /\ in_buffer = SubSeq(wire, s + 1, n)
  <2> DEFINE h == (n + 1) - 1
  <2>1. /\ \A k \in s + 1 .. h : wire[k] # Hash
        /\ h - s <= MaxBuffer /\ in_buffer = SubSeq(wire, s + 1, h)
    BY <1>2 DEF BodyIs
  <2>2. h = n
    BY <1>1
  <2> HIDE DEF h
  <2> QED BY <2>1, <2>2 DEF h
<1>4. \A k \in s + 1 .. n : v[k] # Hash
  BY <1>1, <1>3
<1>5. Len(in_buffer) = n - s
  <2>1. \A k \in s + 1 .. n : wire[k] \in Char
    BY <1>1 DEF n
  <2>2. Len(SubSeq(wire, s + 1, n)) = IF s + 1 <= n THEN n - (s + 1) + 1 ELSE 0
    BY <1>1, <2>1, SubSeqProperties
  <2> QED BY <1>1, <1>3, <2>2
<1>6. /\ Stream!FrameEnd(v, s, n) = n + 1
      /\ v[n + 1] = Hash => Stream!FrameEnd(v, s, n + 1) # n + 1
      /\ v[n + 1] # Hash /\ n - s < MaxBuffer =>
             Stream!FrameEnd(v, s, n + 1) # n + 1
      /\ v[n + 1] # Hash /\ n - s = MaxBuffer =>
             /\ Stream!FrameEnd(v, s, n + 1) = n + 1
             /\ Stream!BodyEnd(v, s, n + 1) = 0
  BY <1>1, <1>3, <1>4, EndInBody
<1> QED BY <1>1, <1>2, <1>3, <1>5, <1>6 DEF v, n

LEMMA Checksum1Frame ==
    ASSUME StreamInv, state = "Receiving_checksum1", NEW c \in Char
    PROVE  LET v == Append(wire, c)
               n == Len(wire)
           IN  \E s \in 1 .. n - 1 :
                   /\ Opened(wire, s)
                   /\ BodyIs(wire, s, n, in_buffer) /\ wire[n] = Hash
                   /\ Stream!FrameEnd(v, s, n) = n + 1
                   /\ Stream!BodyEnd(v, s, n + 1) = n
                   /\ Stream!FrameEnd(v, s, n + 1) =
                          IF c \in Control THEN n + 1 ELSE n + 2
<1> DEFINE v == Append(wire, c)
           n == Len(wire)
<1>1. /\ wire \in Seq(Char) /\ n \in Nat /\ v[n + 1] = c
      /\ \A k \in 1 .. n : v[k] = wire[k]
  BY WireGrows DEF StreamInv
<1>2. wire[n] = Hash
  BY DEF StreamInv, FrameKnown
<1>3. PICK s \in 1 .. n : Opened(wire, s) /\ BodyIs(wire, s, n, in_buffer)
  BY DEF StreamInv, FrameKnown, InFrame
<1> HIDE DEF v, n
<1>4. /\ n \in s + 1 .. n + 1 /\ n - 1 - s <= MaxBuffer
      /\ \A k \in s + 1 .. n - 1 : wire[k] # Hash
  BY <1>1, <1>3 DEF BodyIs, n
<1>5. s \in 1 .. n - 1 /\ v[n] = Hash /\ \A k \in s + 1 .. n - 1 : v[k] # Hash
  BY <1>1, <1>2, <1>4
<1>6. /\ Stream!FrameEnd(v, s, n) = n + 1
      /\ Stream!BodyEnd(v, s, n + 1) = n
      /\ Stream!FrameEnd(v, s, n + 1) =
             IF v[n + 1] \in Control THEN n + 1 ELSE n + 2
  BY <1>1, <1>4, <1>5, EndInChecksum1
<1> QED BY <1>1, <1>2, <1>3, <1>5, <1>6 DEF v, n

LEMMA Checksum2Frame ==
    ASSUME StreamInv, state = "Receiving_checksum2", NEW c \in Char
    PROVE  LET v == Append(wire, c)
               n == Len(wire)
           IN  \E s \in 1 .. n - 2 :
                   /\ Opened(wire, s)
                   /\ in_buffer = SubSeq(wire, s + 1, n - 2)
                   /\ checksum_buffer = << wire[n] >>
                   /\ Stream!FrameEnd(v, s, n) = n + 1
                   /\ Stream!BodyEnd(v, s, n + 1) = n - 1
                   /\ Stream!FrameEnd(v, s, n + 1) = n + 1
<1> DEFINE v == Append(wire, c)
           n == Len(wire)
<1>1. /\ wire \in Seq(Char) /\ n \in Nat /\ v[n + 1] = c
      /\ \A k \in 1 .. n : v[k] = wire[k]
  BY WireGrows DEF StreamInv
<1>2. wire[n - 1] = Hash /\ wire[n] \notin Control /\ checksum_buffer = << wire[n] >>
  BY DEF StreamInv, FrameKnown
<1>3. PICK s \in 1 .. n : Opened(wire, s) /\ BodyIs(wire, s, n - 1, in_buffer)
  BY DEF StreamInv, FrameKnown, InFrame
<1> HIDE DEF v, n
<1>4. /\ n - 1 \in s + 1 .. n + 1 /\ n - 2 - s <= MaxBuffer
      /\ in_buffer = SubSeq(wire, s + 1, n - 2)
      /\ \A k \in s + 1 .. n - 2 : wire[k] # Hash
  <2>1. (n - 1) - 1 = n - 2
    BY <1>1
  <2> QED BY <1>1, <1>3, <2>1 DEF BodyIs, n
<1>5. /\ s \in 1 .. n - 2 /\ v[n - 1] = Hash /\ v[n] \notin Control
      /\ \A k \in s + 1 .. n - 2 : v[k] # Hash
  <2>1. s \in 1 .. n - 2 /\ n - 1 \in 1 .. n /\ n \in 1 .. n
    BY <1>1, <1>4
  <2>2. v[n - 1] = wire[n - 1] /\ v[n] = wire[n]
    BY <1>1, <2>1
  <2>3. ASSUME NEW k \in s + 1 .. n - 2 PROVE v[k] # Hash
    <3>1. k \in 1 .. n
      BY <1>1, <2>1
    <3> QED BY <1>1, <1>4, <3>1
  <2> QED BY <1>2, <2>1, <2>2, <2>3
<1>6. /\ Stream!FrameEnd(v, s, n) = n + 1
      /\ Stream!BodyEnd(v, s, n + 1) = n - 1
      /\ Stream!FrameEnd(v, s, n + 1) = n + 1
  BY <1>1, <1>4, <1>5, EndInChecksum2
<1> QED BY <1>2, <1>3, <1>4, <1>5, <1>6 DEF v, n

LEMMA RestartMatches ==
    ASSUME StreamInv, NEW c \in Char, wire' = Append(wire, c),
           state # "Waiting_dollar", Restart(c)
    PROVE  Matches(c) /\ FrameKnown(wire)'
<1> DEFINE v == Append(wire, c)
           n == Len(wire)
<1>1. wire \in Seq(Char) /\ c = Dollar /\ IInv
  BY DEF StreamInv, IInv, TypeOK, Restart
<1>2. \E s : Opened(wire, s) /\ Stream!FrameEnd(v, s, n) = n + 1
  <2>1. \/ state = "Receiving_body" \/ state = "Receiving_checksum1"
        \/ state = "Receiving_checksum2"
    BY <1>1 DEF IInv, TypeOK, State
  <2>2. CASE state = "Receiving_body"
    BY <2>2, BodyFrame
  <2>3. CASE state = "Receiving_checksum1"
    BY <2>3, Checksum1Frame
  <2>4. CASE state = "Receiving_checksum2"
    BY <2>4, Checksum2Frame
  <2> QED BY <2>1, <2>2, <2>3, <2>4
<1>3. Stream!Completed(v, n + 1) = << Failure("Bad_packet") >>
  <2>1. PICK s : Opened(wire, s) /\ Stream!FrameEnd(v, s, n) = n + 1
    BY <1>2
  <2> QED BY <1>1, <2>1, CompletedInFrame
<1>4. Matches(c)
  BY <1>3 DEF Matches, Restart, PushResults
<1>5. state' = "Receiving_body" /\ in_buffer' = << >>
  BY DEF Restart, PushResults
<1>6. FrameKnown(wire)'
  BY <1>1, <1>5, FrameOpens
<1> QED BY <1>4, <1>6

(* The results of a frame's last character, and the state it leaves. *)
LEMMA ClosingMatches ==
    ASSUME StreamInv, NEW c \in Char \ {Dollar}, wire' = Append(wire, c),
           state' = "Waiting_dollar", NEW s, Opened(wire, s),
           Stream!FrameEnd(Append(wire, c), s, Len(wire)) = Len(wire) + 1,
           Stream!FrameEnd(Append(wire, c), s, Len(wire) + 1) = Len(wire) + 1,
           PushResults(Stream!Closing(Append(wire, c), s, Len(wire) + 1))
    PROVE  Matches(c) /\ FrameKnown(wire)'
<1>1. wire \in Seq(Char) /\ IInv
  BY DEF StreamInv, IInv, TypeOK
<1>2. Stream!Completed(Append(wire, c), Len(wire) + 1) =
          Stream!Closing(Append(wire, c), s, Len(wire) + 1)
  BY <1>1, CompletedInFrame
<1>3. Matches(c)
  BY <1>2 DEF Matches, PushResults
<1>4. FrameKnown(wire)'
  BY <1>1, FrameEnds
<1> QED BY <1>3, <1>4

LEMMA BodyCharMatches ==
    ASSUME StreamInv, NEW c \in Char, wire' = Append(wire, c),
           state = "Receiving_body", BodyChar(c)
    PROVE  Matches(c) /\ FrameKnown(wire)'
<1> DEFINE v == Append(wire, c)
           n == Len(wire)
<1>1. PICK s \in 1 .. n :
          /\ Opened(wire, s)
          /\ BodyIs(wire, s, n + 1, in_buffer)
          /\ Len(in_buffer) = n - s /\ n - s <= MaxBuffer
          /\ Stream!FrameEnd(v, s, n) = n + 1
          /\ c = Hash => Stream!FrameEnd(v, s, n + 1) # n + 1
          /\ c # Hash /\ n - s < MaxBuffer =>
                 Stream!FrameEnd(v, s, n + 1) # n + 1
          /\ c # Hash /\ n - s = MaxBuffer =>
                 /\ Stream!FrameEnd(v, s, n + 1) = n + 1
                 /\ Stream!BodyEnd(v, s, n + 1) = 0
  BY BodyFrame
<1>2. /\ wire \in Seq(Char) /\ v \in Seq(Char) /\ n \in Nat /\ Len(v) = n + 1
      /\ v[n + 1] = c /\ \A k \in 1 .. n : v[k] = wire[k]
      /\ Agree(wire, v, n) /\ IInv /\ out_queue \in Seq(Result)
  BY WireGrows DEF StreamInv, IInv, TypeOK
<1>3. c # Dollar
  BY DEF BodyChar
<1>4. Opened(v, s)
  BY <1>1, <1>2, <1>3, OpenedGrows
<1>5. v = wire'
  OBVIOUS
<1>6. s \in 1 .. Len(v) /\ (n + 1) - 1 = n
  BY <1>2
<1>7. /\ n - s <= MaxBuffer /\ in_buffer = SubSeq(wire, s + 1, n)
      /\ \A k \in s + 1 .. n : wire[k] # Hash
  BY <1>1, <1>6 DEF BodyIs
<1>8. SubSeq(v, s + 1, n) = SubSeq(wire, s + 1, n)
  <2> HIDE DEF v
  <2>1. n <= Len(wire) /\ n <= Len(v) /\ s + 1 \in Nat \ {0}
    BY <1>2
  <2> QED BY <1>2, <2>1, SubSeqLocal
<1> HIDE DEF v, n
<1>9. \A k \in s + 1 .. n : v[k] # Hash
  BY <1>2, <1>7
<1>10. CASE c = Hash
  <2>1. Stream!Completed(v, n + 1) = << >>
    BY <1>1, <1>2, <1>3, <1>10, CompletedInFrame DEF v, n
  <2>2. state' = "Receiving_checksum1" /\ UNCHANGED << in_buffer, out_queue >>
    BY <1>10 DEF BodyChar, NoResult
  <2>3. Matches(c)
    BY <1>2, <2>1, <2>2, ConcatEmptySeq DEF Matches, v, n
  <2>4. BodyIs(v, s, n + 1, in_buffer)
    BY <1>2, <1>6, <1>7, <1>8, <1>9 DEF BodyIs
  <2>5. \E t \in 1 .. Len(v) : Opened(v, t) /\ BodyIs(v, t, Len(v), in_buffer)
    BY <1>2, <1>4, <1>6, <2>4
  <2>6. \E t \in 1 .. Len(wire') :
            Opened(wire', t) /\ BodyIs(wire', t, Len(wire'), in_buffer')
    BY <1>5, <2>2, <2>5
  <2>7. wire'[Len(wire')] = Hash
    BY <1>2, <1>5, <1>10
  <2>8. FrameKnown(wire)'
    BY <2>2, <2>6, <2>7 DEF FrameKnown, InFrame
  <2> QED BY <2>3, <2>8
<1>11. CASE c # Hash /\ n - s < MaxBuffer
  <2>1. Stream!Completed(v, n + 1) = << >>
    BY <1>1, <1>2, <1>3, <1>11, CompletedInFrame DEF v, n
  <2>2. state' = "Receiving_body" /\ UNCHANGED out_queue
        /\ in_buffer' = Append(in_buffer, c)
    BY <1>1, <1>2, <1>11, CodeAssumption DEF BodyChar, NoResult
  <2>3. Matches(c)
    BY <1>2, <2>1, <2>2, ConcatEmptySeq DEF Matches, v, n
  <2>4. in_buffer' = SubSeq(v, s + 1, n + 1)
    <3> DEFINE a == Append(in_buffer, c)
               b == SubSeq(v, s + 1, n + 1)
    <3>1. /\ in_buffer \in Seq(Char) /\ Len(in_buffer) = n - s
          /\ \A k \in 1 .. n - s : in_buffer[k] = wire[s + k]
      BY <1>1, <1>2, <1>7 DEF IInv, TypeOK, n
    <3>2. /\ a \in Seq(Char) /\ Len(a) = n + 1 - s /\ a[n + 1 - s] = c
          /\ \A k \in 1 .. n - s : a[k] = in_buffer[k]
      BY <1>2, <3>1, AppendProperties
    <3>3. /\ b \in Seq(Char) /\ Len(b) = n + 1 - s
          /\ \A k \in 1 .. n + 1 - s : b[k] = v[s + k]
      BY <1>2
    <3>4. ASSUME NEW k \in 1 .. Len(a) PROVE a[k] = b[k]
      <4> HIDE DEF a, b
      <4>1. k \in 1 .. n - s \/ k = n + 1 - s
        BY <1>2, <3>2
      <4>2. CASE k \in 1 .. n - s
        <5>1. s + k \in 1 .. n /\ k \in 1 .. n + 1 - s
          BY <1>2, <4>2
        <5> QED BY <1>2, <3>1, <3>2, <3>3, <4>2, <5>1
      <4>3. CASE k = n + 1 - s
        <5>1. s + k = n + 1 /\ k \in 1 .. n + 1 - s
          BY <1>2, <4>3
        <5> QED BY <1>2, <3>2, <3>3, <4>3, <5>1
      <4> QED BY <4>1, <4>2, <4>3
    <3> HIDE DEF a, b
    <3>5. a = b
      BY <3>2, <3>3, <3>4, SeqEqual
    <3> QED BY <2>2, <3>5 DEF a, b
  <2>5. BodyIs(v, s, n + 2, in_buffer')
    <3>1. (n + 2) - 1 = n + 1 /\ n + 2 \in s + 1 .. Len(v) + 1
          /\ (n + 2) - 1 - s <= MaxBuffer
      BY <1>2, <1>11, CodeAssumption
    <3>2. \A k \in s + 1 .. n + 1 : v[k] # Hash
      <4> SUFFICES ASSUME NEW k \in s + 1 .. n + 1 PROVE v[k] # Hash
        OBVIOUS
      <4>1. k = n + 1 \/ k \in s + 1 .. n
        BY <1>2
      <4> QED BY <1>2, <1>9, <1>11, <4>1
    <3> QED BY <2>4, <3>1, <3>2 DEF BodyIs
  <2>6. Len(v) + 1 = n + 2
    BY <1>2
  <2>7. \E t \in 1 .. Len(v) : Opened(v, t) /\ BodyIs(v, t, Len(v) + 1, in_buffer')
    BY <1>4, <1>6, <2>5, <2>6
  <2>8. \E t \in 1 .. Len(wire') :
            Opened(wire', t) /\ BodyIs(wire', t, Len(wire') + 1, in_buffer')
    BY <1>5, <2>7
  <2>9. FrameKnown(wire)'
    BY <2>2, <2>8 DEF FrameKnown, InFrame
  <2> QED BY <2>3, <2>9
<1>12. CASE c # Hash /\ n - s = MaxBuffer
  <2>1. state' = "Waiting_dollar" /\ PushResults(<< Failure("Buffer_overflow") >>)
    BY <1>1, <1>2, <1>12, CodeAssumption DEF BodyChar
  <2>2. Stream!Closing(v, s, n + 1) = << Failure("Buffer_overflow") >>
    BY <1>1, <1>12, SameFormat DEF Stream!Closing, v, n
  <2>3. PushResults(Stream!Closing(v, s, n + 1))
    BY <2>1, <2>2
  <2> QED BY <1>1, <1>3, <1>12, <2>1, <2>3, ClosingMatches DEF v, n
<1>13. n - s < MaxBuffer \/ n - s = MaxBuffer
  <2>1. n \in Nat /\ s \in Nat /\ MaxBuffer \in Nat
    BY <1>2, CodeAssumption
  <2>2. n - s <= MaxBuffer
    BY <1>7
  <2> QED BY <2>1, <2>2
<1> QED BY <1>10, <1>11, <1>12, <1>13

(* A control character in place of a digit. *)
LEMMA AbortMatches ==
    ASSUME StreamInv, NEW c \in Char, wire' = Append(wire, c), Abort(c),
           state \in {"Receiving_checksum1", "Receiving_checksum2"}
    PROVE  Matches(c) /\ FrameKnown(wire)'
<1> DEFINE v == Append(wire, c)
           n == Len(wire)
<1>1. c \in Control /\ c \in Char \ {Dollar} /\ state' = "Waiting_dollar"
  BY CharAssumption DEF Abort
<1>2. n \in Nat /\ v[n + 1] = c
  BY WireGrows DEF StreamInv
<1>3. PICK s \in 1 .. n :
          /\ Opened(wire, s)
          /\ Stream!FrameEnd(v, s, n) = n + 1
          /\ Stream!FrameEnd(v, s, n + 1) = n + 1
          /\ Stream!BodyEnd(v, s, n + 1) # 0
  <2>1. CASE state = "Receiving_checksum1"
    <3>1. PICK s \in 1 .. n - 1 :
              /\ Opened(wire, s)
              /\ Stream!FrameEnd(v, s, n) = n + 1
              /\ Stream!BodyEnd(v, s, n + 1) = n
              /\ Stream!FrameEnd(v, s, n + 1) = n + 1
      BY <1>1, <2>1, Checksum1Frame
    <3>2. s \in 1 .. n /\ n # 0
      BY <1>2
    <3> HIDE DEF v, n
    <3> QED BY <3>1, <3>2
  <2>2. CASE state = "Receiving_checksum2"
    <3>1. PICK s \in 1 .. n - 2 :
              /\ Opened(wire, s)
              /\ Stream!FrameEnd(v, s, n) = n + 1
              /\ Stream!BodyEnd(v, s, n + 1) = n - 1
              /\ Stream!FrameEnd(v, s, n + 1) = n + 1
      BY <2>2, Checksum2Frame
    <3>2. s \in 1 .. n /\ n - 1 # 0
      BY <1>2
    <3> HIDE DEF v, n
    <3> QED BY <3>1, <3>2
  <2> QED BY <2>1, <2>2
<1>4. Stream!Closing(v, s, n + 1) = << Failure("Bad_packet"), Packet(<< c >>) >>
  <2> HIDE DEF v, n
  <2> QED BY <1>1, <1>2, <1>3, SameFormat DEF Stream!Closing
<1>5. PushResults(Stream!Closing(v, s, n + 1))
  BY <1>4 DEF Abort
<1> QED BY <1>1, <1>3, <1>5, ClosingMatches

(* The first digit. *)
LEMMA Checksum1Matches ==
    ASSUME StreamInv, NEW c \in Char, wire' = Append(wire, c), ReceivingChecksum1(c)
    PROVE  Matches(c) /\ FrameKnown(wire)'
<1> DEFINE v == Append(wire, c)
           n == Len(wire)
<1>1. state = "Receiving_checksum1"
  BY DEF ReceivingChecksum1
<1>2. CASE Restart(c)
  BY <1>1, <1>2, RestartMatches
<1>3. CASE Abort(c)
  BY <1>1, <1>3, AbortMatches
<1>4. CASE ~ Restart(c) /\ ~ Abort(c)
  <2>1. /\ c \notin Control /\ c # Dollar
        /\ checksum_buffer' = << c >> /\ state' = "Receiving_checksum2"
        /\ UNCHANGED << in_buffer, out_queue >>
    BY <1>4 DEF ReceivingChecksum1, NoResult
  <2>2. PICK s \in 1 .. n - 1 :
            /\ Opened(wire, s)
            /\ BodyIs(wire, s, n, in_buffer) /\ wire[n] = Hash
            /\ Stream!FrameEnd(v, s, n) = n + 1
            /\ Stream!FrameEnd(v, s, n + 1) = n + 2
    BY <1>1, <2>1, Checksum1Frame
  <2>3. /\ wire \in Seq(Char) /\ v \in Seq(Char) /\ n \in Nat /\ Len(v) = n + 1
        /\ v[n + 1] = c /\ \A k \in 1 .. n : v[k] = wire[k]
        /\ Agree(wire, v, n) /\ IInv /\ out_queue \in Seq(Result)
    BY WireGrows DEF StreamInv, IInv, TypeOK
  <2>4. Stream!FrameEnd(v, s, n + 1) # n + 1
    BY <2>2, <2>3
  <2>5. Stream!Completed(v, n + 1) = << >>
    BY <2>1, <2>2, <2>3, <2>4, CompletedInFrame
  <2>6. Matches(c)
    BY <2>1, <2>3, <2>5, ConcatEmptySeq DEF Matches
  <2>7. Opened(v, s)
    BY <2>1, <2>2, <2>3, OpenedGrows
  <2>8. v = wire'
    OBVIOUS
  <2>9. BodyIs(v, s, n, in_buffer)
    <3>1. /\ n - 1 - s <= MaxBuffer /\ in_buffer = SubSeq(wire, s + 1, n - 1)
          /\ \A k \in s + 1 .. n - 1 : wire[k] # Hash
      BY <2>2 DEF BodyIs
    <3> HIDE DEF v, n
    <3>2. n - 1 <= Len(wire) /\ n - 1 <= Len(v) /\ s + 1 \in Nat \ {0} /\ n - 1 \in Nat
      BY <2>3 DEF n
    <3>3. Agree(wire, v, n - 1)
      BY <2>3 DEF Agree
    <3>4. in_buffer = SubSeq(v, s + 1, n - 1)
      BY <2>3, <3>1, <3>2, <3>3, SubSeqLocal
    <3>5. ASSUME NEW k \in s + 1 .. n - 1 PROVE v[k] # Hash
      <4>1. k \in 1 .. n
        BY <2>3
      <4> QED BY <2>3, <3>1, <4>1
    <3>6. n \in s + 1 .. Len(v) + 1
      BY <2>3
    <3> QED BY <3>1, <3>4, <3>5, <3>6 DEF BodyIs
  <2>10. s \in 1 .. Len(v) /\ Len(v) - 1 = n
    BY <2>3
  <2>11. \E t \in 1 .. Len(v) : Opened(v, t) /\ BodyIs(v, t, Len(v) - 1, in_buffer)
    BY <2>7, <2>9, <2>10
  <2>12. \E t \in 1 .. Len(wire') :
             Opened(wire', t) /\ BodyIs(wire', t, Len(wire') - 1, in_buffer')
    BY <2>1, <2>8, <2>11
  <2>13. v[Len(v) - 1] = Hash /\ v[Len(v)] = c
    <3>1. v[n] = wire[n]
      BY <2>3
    <3> QED BY <2>2, <2>3, <2>10, <3>1
  <2>14. FrameKnown(wire)'
    BY <2>1, <2>8, <2>12, <2>13 DEF FrameKnown, InFrame
  <2> QED BY <2>6, <2>14
<1> QED BY <1>2, <1>3, <1>4

(* The second digit: the body and the digits of the text are decoded. *)
LEMMA Checksum2Matches ==
    ASSUME StreamInv, NEW c \in Char, wire' = Append(wire, c), ReceivingChecksum2(c)
    PROVE  Matches(c) /\ FrameKnown(wire)'
<1> DEFINE v == Append(wire, c)
           n == Len(wire)
<1>1. state = "Receiving_checksum2"
  BY DEF ReceivingChecksum2
<1>2. CASE Restart(c)
  BY <1>1, <1>2, RestartMatches
<1>3. CASE Abort(c)
  BY <1>1, <1>3, AbortMatches
<1>4. CASE ~ Restart(c) /\ ~ Abort(c)
  <2>1. /\ c \in Char \ {Dollar} /\ c \notin Control /\ state' = "Waiting_dollar"
        /\ PushResults(<< Decode(in_buffer, checksum_buffer[1], c) >>)
    BY <1>4 DEF ReceivingChecksum2
  <2>2. PICK s \in 1 .. n - 2 :
            /\ Opened(wire, s)
            /\ in_buffer = SubSeq(wire, s + 1, n - 2)
            /\ checksum_buffer = << wire[n] >>
            /\ Stream!FrameEnd(v, s, n) = n + 1
            /\ Stream!BodyEnd(v, s, n + 1) = n - 1
            /\ Stream!FrameEnd(v, s, n + 1) = n + 1
    BY <1>1, Checksum2Frame
  <2>3. /\ wire \in Seq(Char) /\ v \in Seq(Char) /\ n \in Nat /\ Len(v) = n + 1
        /\ v[n + 1] = c /\ \A k \in 1 .. n : v[k] = wire[k]
        /\ Agree(wire, v, n)
    BY WireGrows DEF StreamInv
  <2>4. /\ (n - 1) - 1 = n - 2 /\ (n + 1) - 1 = n /\ n - 1 # 0 /\ v[n] = wire[n]
        /\ n - 2 \in Nat /\ n - 2 <= Len(wire) /\ n - 2 <= Len(v)
        /\ s + 1 \in Nat \ {0}
    BY <2>3
  <2>5. SubSeq(v, s + 1, n - 2) = in_buffer
    <3> HIDE DEF v, n
    <3>1. Agree(wire, v, n - 2)
      BY <2>3 DEF Agree
    <3> QED BY <2>2, <2>3, <2>4, <3>1, SubSeqLocal
  <2>6. checksum_buffer[1] = v[n]
    BY <2>2, <2>4
  <2>7. Stream!Closing(v, s, n + 1) = << Decode(in_buffer, checksum_buffer[1], c) >>
    <3> HIDE DEF v, n
    <3> QED BY <2>1, <2>2, <2>3, <2>4, <2>5, <2>6, SameFormat DEF Stream!Closing
  <2>8. PushResults(Stream!Closing(v, s, n + 1))
    BY <2>1, <2>7
  <2> QED BY <2>1, <2>2, <2>8, ClosingMatches
<1> QED BY <1>2, <1>3, <1>4

-----------------------------------------------------------------------------
LEMMA InitStreamInv == Init => StreamInv
<1> SUFFICES ASSUME Init PROVE StreamInv
  OBVIOUS
<1>1. wire = << >> /\ taken = << >> /\ out_queue = << >> /\ state = "Waiting_dollar"
  BY DEF Init
<1>2. FrameKnown(wire)
  <2>1. Len(wire) = 0 /\ Len(wire) + 1 \in Nat \ {0} /\ (Len(wire) + 1) - 1 = 0
    BY <1>1
  <2>2. Stream!FrameStart(wire, Len(wire) + 1) = 0
    BY <2>1, FrameStartMeaning
  <2> QED BY <1>1, <2>2 DEF FrameKnown
<1>3. taken \o out_queue = Stream!Results(wire)
  <2>1. Stream!Results(wire) = << >>
    BY <1>1 DEF Stream!Results, Stream!FlattenSeq
  <2>2. << >> \o << >> = << >>
    OBVIOUS
  <2> QED BY <1>1, <2>1, <2>2
<1> QED BY <1>2, <1>3, InitIInv DEF StreamInv

LEMMA PushStreamInv ==
    ASSUME StreamInv, NEW c \in Char, Push(c)
    PROVE  StreamInv'
<1>1. wire' = Append(wire, c) /\ taken' = taken
  BY DEF Push
<1>2. Matches(c) /\ FrameKnown(wire)'
  <2>1. CASE WaitingDollar(c)
    BY <1>1, <2>1, WaitingMatches
  <2>2. CASE ReceivingBody(c)
    <3>1. state = "Receiving_body" /\ state # "Waiting_dollar"
      BY <2>2 DEF ReceivingBody
    <3> QED BY <1>1, <2>2, <3>1, RestartMatches, BodyCharMatches DEF ReceivingBody
  <2>3. CASE ReceivingChecksum1(c)
    BY <1>1, <2>3, Checksum1Matches
  <2>4. CASE ReceivingChecksum2(c)
    BY <1>1, <2>4, Checksum2Matches
  <2> QED BY <2>1, <2>2, <2>3, <2>4 DEF Push
<1>3. (taken \o out_queue = Stream!Results(wire))'
  BY <1>1, <1>2, QueueGrows
<1>4. IInv'
  BY PushIInv DEF StreamInv
<1> QED BY <1>2, <1>3, <1>4 DEF StreamInv

(* pop_packet moves the first result from one side to the other. *)
LEMMA PopMoves ==
    ASSUME IInv, Pop
    PROVE  taken' \o out_queue' = taken \o out_queue
<1> DEFINE r == Head(out_queue)
           q == Tail(out_queue)
           R == Result
<1>1. taken \in Seq(R) /\ out_queue \in Seq(R) /\ out_queue # << >>
  BY DEF IInv, TypeOK, Pop
<1>2. taken' = Append(taken, r) /\ out_queue' = q
  BY DEF Pop
<1> HIDE DEF R
<1>3. r \in R /\ q \in Seq(R) /\ out_queue = << r >> \o q
  BY <1>1, HeadTailProperties
<1> HIDE DEF r, q
<1>4. Append(taken, r) = taken \o << r >> /\ << r >> \in Seq(R)
  BY <1>1, <1>3, AppendIsConcat
<1>5. (taken \o << r >>) \o q = taken \o (<< r >> \o q)
  BY <1>1, <1>3, <1>4, ConcatAssociative
<1> QED BY <1>2, <1>3, <1>4, <1>5

LEMMA StepStreamInv == StreamInv /\ [Next]_vars => StreamInv'
<1> SUFFICES ASSUME StreamInv, [Next]_vars PROVE StreamInv'
  OBVIOUS
<1>1. CASE \E c \in Char : Push(c)
  BY <1>1, PushStreamInv
<1>2. CASE Pop
  <2>1. UNCHANGED << state, in_buffer, checksum_buffer, wire >>
    BY <1>2 DEF Pop
  <2>2. FrameKnown(wire)'
    BY <2>1 DEF StreamInv, FrameKnown, InFrame
  <2>3. (taken \o out_queue = Stream!Results(wire))'
    BY <1>2, <2>1, PopMoves DEF StreamInv
  <2> QED BY <1>2, <2>2, <2>3, PopIInv DEF StreamInv
<1>3. CASE UNCHANGED vars
  <2>1. FrameKnown(wire)'
    BY <1>3 DEF StreamInv, FrameKnown, InFrame, vars
  <2>2. (taken \o out_queue = Stream!Results(wire))'
    BY <1>3 DEF StreamInv, vars
  <2>3. IInv'
    BY <1>3, NextIInv DEF StreamInv
  <2> QED BY <2>1, <2>2, <2>3 DEF StreamInv
<1> QED BY <1>1, <1>2, <1>3 DEF Next, PopEmpty

(* pop_packet hands out the next result of the text. *)
LEMMA PopDelivers ==
    ASSUME StreamInv, Pop
    PROVE  Stream!Deliver
<1> DEFINE R == Result
           results == taken \o out_queue
<1>1. taken \in Seq(R) /\ out_queue \in Seq(R) /\ out_queue # << >>
  BY DEF StreamInv, IInv, TypeOK, Pop
<1>2. /\ taken' = Append(taken, Head(out_queue)) /\ wire' = wire
      /\ results = Stream!Results(wire)
  BY DEF Pop, StreamInv
<1> HIDE DEF R
<1>3. Len(out_queue) \in Nat \ {0} /\ Len(taken) \in Nat
  BY <1>1, EmptySeq
<1>4. Len(results) = Len(taken) + Len(out_queue)
      /\ results[Len(taken) + 1] = out_queue[1]
  BY <1>1, <1>3, ConcatProperties
<1>5. Head(out_queue) = out_queue[1]
  BY <1>1
<1>6. Len(taken) < Len(results)
  BY <1>3, <1>4
<1> HIDE DEF results
<1> QED BY <1>2, <1>4, <1>5, <1>6 DEF Stream!Deliver

(***************************************************************************)
(* The decoder implements PacketStream (packet.cpp:68-173, push and its    *)
(* states, push_result and pop_packet).  However the characters arrive and *)
(* pop_packet comes between them, the results handed out are a prefix of   *)
(* those the text completes, in order and once each; and what a character  *)
(* completes depends on the text since the last '$' only.                  *)
(***************************************************************************)
THEOREM StreamCorrect == Spec => StreamSpec
<1>1. Init => Stream!Init
  BY DEF Init, Stream!Init
<1>2. StreamInv /\ [Next]_vars => [Stream!Next]_<< wire, taken >>
  <2> SUFFICES ASSUME StreamInv, [Next]_vars
               PROVE  Stream!Next \/ UNCHANGED << wire, taken >>
    OBVIOUS
  <2>1. CASE \E c \in Char : Push(c)
    BY <2>1 DEF Push, Stream!Receive, Stream!Next
  <2>2. CASE Pop
    BY <2>2, PopDelivers DEF Stream!Next
  <2>3. CASE UNCHANGED vars
    BY <2>3 DEF vars
  <2> QED BY <2>1, <2>2, <2>3 DEF Next, PopEmpty
<1> QED BY <1>1, <1>2, InitStreamInv, StepStreamInv, PTL
        DEF Spec, StreamSpec, Stream!Spec
=============================================================================
