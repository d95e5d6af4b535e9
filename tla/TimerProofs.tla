----------------------------- MODULE TimerProofs -----------------------------
(***************************************************************************)
(* Proofs about Clock and TimerProgram, for every width of the registers   *)
(* (TLC checks three bits, the code has 32), every bound on the time and   *)
(* every set of delays.                                                    *)
(***************************************************************************)
EXTENDS TimerProgram, TLAPS

(* A value and its two halves. *)

LEMMA Join ==
    ASSUME NEW l \in Word, NEW h \in Word
    PROVE  h * WordSize + l \in Time
<1> USE WordSizeAssumption
<1>1. WordSize \in Nat /\ l \in Nat /\ h \in Nat
  BY DEF Word
<1>2. h * WordSize + l \in Nat
  BY <1>1
<1>3. h + 1 <= WordSize /\ l + 1 <= WordSize
  BY DEF Word
<1>4. (h + 1) * WordSize <= WordSize * WordSize
  BY <1>1, <1>3
<1>5. (h + 1) * WordSize = h * WordSize + WordSize
  BY <1>1
<1> QED BY <1>1, <1>2, <1>3, <1>4, <1>5 DEF Time

LEMMA Split ==
    ASSUME NEW v \in Time
    PROVE  /\ v \div WordSize \in Word /\ v % WordSize \in Word
           /\ (v \div WordSize) * WordSize + (v % WordSize) = v
<1> DEFINE q == v \div WordSize
           r == v % WordSize
<1> USE WordSizeAssumption
<1>1. v \in Nat /\ v < WordSize * WordSize
  BY DEF Time
<1>2. q \in Nat /\ r \in 0 .. WordSize - 1 /\ q * WordSize + r = v
  BY <1>1
<1> HIDE DEF q, r
<1>3. q < WordSize
  <2>1. SUFFICES ASSUME q >= WordSize PROVE FALSE
    BY <1>2
  <2>2. q * WordSize >= WordSize * WordSize
    BY <1>2, <2>1
  <2> QED BY <1>1, <1>2, <2>2
<1>4. q \in Word /\ r \in Word
  BY <1>2, <1>3 DEF Word
<1> QED BY <1>2, <1>4 DEF q, r

LEMMA GetSet ==
    ASSUME NEW v \in Time
    PROVE  Set64(v) \in Reg /\ Get64(Set64(v)) = v
<1>1. v \div WordSize \in Word /\ v % WordSize \in Word
      /\ (v \div WordSize) * WordSize + (v % WordSize) = v
  BY Split
<1>2. \A x \in Word : x % WordSize = x
  BY WordSizeAssumption DEF Word
<1> QED BY <1>1, <1>2 DEF Set64, Get64, Reg

LEMMA GetType == ASSUME NEW reg \in Reg PROVE Get64(reg) \in Time
  BY Join DEF Reg, Get64

LEMMA SetType == ASSUME NEW v \in Nat PROVE Set64(v) \in Reg
<1>1. v % WordSize \in Word /\ v \div WordSize \in Nat
  BY WordSizeAssumption DEF Word
<1>2. (v \div WordSize) % WordSize \in Word
  BY <1>1, WordSizeAssumption DEF Word
<1> QED BY <1>1, <1>2 DEF Set64, Reg

(* A deadline is a time, and so is every moment before the counter stops.  *)
LEMMA Reachable ==
    ASSUME NEW t \in 0 .. MaxTime
    PROVE  t \in Time /\ \A d \in Delays : t + d \in Time
<1>1. (WordSize - 1) * WordSize <= WordSize * WordSize
      /\ WordSize * WordSize \in Nat /\ (WordSize - 1) * WordSize \in Nat
  BY WordSizeAssumption
<1>2. \A d \in Delays : d \in Nat /\ MaxTime + d < WordSize * WordSize
  BY <1>1, ProgramAssumption
<1>3. \A d \in Delays : t + d \in Time
  BY <1>1, <1>2, ProgramAssumption DEF Time
<1>4. t \in Time
  BY <1>1, ProgramAssumption DEF Time
<1> QED BY <1>3, <1>4

(* A later time has no smaller high half. *)
LEMMA HighGrows ==
    ASSUME NEW a \in Reg, NEW b \in Reg, Get64(a) <= Get64(b)
    PROVE  a.high <= b.high
<1>1. /\ WordSize \in Nat /\ a.high \in Nat /\ b.high \in Nat
      /\ a.low \in Nat /\ b.low \in Nat /\ b.low < WordSize
  BY WordSizeAssumption DEF Reg, Word
<1>2. SUFFICES ASSUME b.high + 1 <= a.high PROVE FALSE
  BY <1>1
<1>3. (b.high + 1) * WordSize <= a.high * WordSize
  BY <1>1, <1>2
<1>4. (b.high + 1) * WordSize = b.high * WordSize + WordSize
  BY <1>1
<1> QED BY <1>1, <1>3, <1>4 DEF Get64

-----------------------------------------------------------------------------
(***************************************************************************)
(* The end of a cycle: the time goes on by one, as long as it does not     *)
(* wrap, and the pending bit rises if it has passed the comparator.        *)
(***************************************************************************)
Late(c) == Get64(timer) > Get64(c)

LEMMA CycleEnds ==
    ASSUME timer \in Reg, NEW c \in Reg, NEW p \in BOOLEAN, EndCycle(timer, c, p)
    PROVE  /\ timer' \in Reg /\ comp' = c
           /\ Get64(timer) \in 0 .. MaxTime
           /\ Get64(timer') = Get64(timer) + 1
           /\ timer.high <= timer'.high
           /\ mtip' = (p \/ Get64(timer') > Get64(c))
<1>1. Get64(timer) \in Nat
  BY GetType DEF Time
<1>2. Get64(timer) \in 0 .. MaxTime /\ Get64(timer) + 1 \in 0 .. MaxTime
  BY <1>1, ProgramAssumption DEF EndCycle
<1>3. timer' \in Reg
  BY <1>1, SetType DEF EndCycle, Ticked
<1>4. Get64(timer') = Get64(timer) + 1
  BY <1>2, Reachable, GetSet DEF EndCycle, Ticked
<1>5. timer.high <= timer'.high
  BY <1>1, <1>3, <1>4, HighGrows
<1> QED BY <1>2, <1>3, <1>4, <1>5 DEF EndCycle, PendingAfterTick

(***************************************************************************)
(* The invariant: until the low half is read, the high half that was read  *)
(* is no later than the counter's, and neither is what the latch, the      *)
(* program's or the debugger's, would make of it; the comparator holds the *)
(* deadline when both halves are written; and, once the bit has been       *)
(* cleared, it says whether the time has come.                             *)
(***************************************************************************)
Joined(low) == high * WordSize + low

LatchHolds ==
    step = "read_low" =>
        /\ high <= timer.high
        /\ Joined(0) <= read_at /\ read_at < Joined(WordSize)
        /\ counter_templow # NoLatch => Joined(counter_templow) <= Get64(timer)
        /\ disturbed \/ (counter_templow # NoLatch /\ read_at = Joined(counter_templow))

ValueHolds ==
    step = "disarm" =>
        /\ value < Get64(timer) /\ read_at < value + WordSize
        /\ disturbed \/ value = read_at

DeadlineSet ==
    /\ step = "set_high" => comp.low = deadline % WordSize
    /\ step \in {"acknowledge", "armed"} => Get64(comp) = deadline

PendingIsRight == step = "armed" => (mtip <=> Get64(timer) > deadline)

IInv == ProgramTypeOK /\ LatchHolds /\ ValueHolds /\ DeadlineSet /\ PendingIsRight

(***************************************************************************)
(* What the cycle's instruction leaves as it was, its end leaves so: an    *)
(* open pending bit stays open until the time has come.                    *)
(***************************************************************************)
LEMMA StillRight ==
    ASSUME IInv, step = "armed", EndCycle(timer, comp, mtip)
    PROVE  mtip' <=> Get64(timer') > deadline
<1>1. /\ Get64(comp) = deadline
      /\ mtip <=> Get64(timer) > deadline
  BY DEF IInv, DeadlineSet, PendingIsRight
<1>2. /\ Get64(timer) \in Nat /\ Get64(timer') = Get64(timer) + 1
      /\ mtip' = (mtip \/ Get64(timer') > Get64(comp))
  BY <1>1, CycleEnds DEF IInv, ProgramTypeOK, ClockTypeOK
<1>3. deadline \in Nat
  BY DEF IInv, ProgramTypeOK, Time
<1>4. Get64(timer) > deadline => Get64(timer') > deadline
  BY <1>2, <1>3
<1>5. mtip' <=> (Get64(timer) > deadline \/ Get64(timer') > deadline)
  BY <1>1, <1>2, Zenon
<1> QED BY <1>4, <1>5, Zenon

(* Time only helps what the program has read. *)
LEMMA HeldAsTimePasses ==
    ASSUME IInv, NEW c \in Reg, NEW p \in BOOLEAN, EndCycle(timer, c, p),
           UNCHANGED << step, high, value, read_at, disturbed, counter_templow >>
    PROVE  LatchHolds' /\ ValueHolds'
<1>1. /\ timer \in Reg /\ timer.high \in Nat /\ high \in Nat /\ value \in Nat
      /\ Get64(timer) \in Nat
  BY GetType DEF IInv, ProgramTypeOK, ClockTypeOK, Reg, Word, Time
<1>2. /\ Get64(timer') = Get64(timer) + 1 /\ timer.high <= timer'.high
      /\ timer'.high \in Nat
  BY <1>1, CycleEnds DEF Reg, Word
<1>3. LatchHolds'
  <2>1. SUFFICES ASSUME step = "read_low" PROVE LatchHolds'
    BY DEF LatchHolds
  <2>2. /\ high <= timer.high
        /\ counter_templow # NoLatch => Joined(counter_templow) <= Get64(timer)
    BY <2>1 DEF IInv, LatchHolds
  <2>3. counter_templow # NoLatch => Joined(counter_templow) \in Nat
    BY <1>1, WordSizeAssumption DEF IInv, ProgramTypeOK, ClockTypeOK, Word, Joined
  <2>4. high <= timer'.high
    BY <1>1, <1>2, <2>2
  <2>5. counter_templow # NoLatch => Joined(counter_templow) <= Get64(timer')
    BY <1>1, <1>2, <2>2, <2>3
  <2> QED BY <2>1, <2>4, <2>5 DEF IInv, LatchHolds, Joined
<1>4. ValueHolds'
  BY <1>1, <1>2 DEF IInv, ValueHolds
<1> QED BY <1>3, <1>4

LEMMA ElsewhereKeeps == IInv /\ Elsewhere => IInv'
<1> SUFFICES ASSUME IInv, Elsewhere PROVE IInv'
  OBVIOUS
<1>1. timer' \in Reg /\ comp' = comp /\ mtip' \in BOOLEAN
  BY CycleEnds DEF IInv, ProgramTypeOK, ClockTypeOK, Elsewhere
<1>2. ProgramTypeOK'
  BY <1>1 DEF IInv, ProgramTypeOK, ClockTypeOK, Elsewhere, program
<1>3. LatchHolds' /\ ValueHolds'
  BY HeldAsTimePasses DEF IInv, ProgramTypeOK, ClockTypeOK, Elsewhere, program
<1>4. DeadlineSet'
  BY <1>1 DEF IInv, DeadlineSet, Elsewhere, program
<1>5. PendingIsRight'
  BY StillRight DEF PendingIsRight, Elsewhere, program
<1> QED BY <1>2, <1>3, <1>4, <1>5 DEF IInv

LEMMA LoadHighKeeps == IInv /\ LoadHigh => IInv'
<1> SUFFICES ASSUME IInv, LoadHigh PROVE IInv'
  OBVIOUS
<1>1. timer \in Reg /\ timer.low \in Word /\ timer.high \in Word
  BY DEF IInv, ProgramTypeOK, ClockTypeOK, Reg
<1>2. /\ timer' \in Reg /\ comp' = comp /\ mtip' \in BOOLEAN
      /\ Get64(timer') = Get64(timer) + 1 /\ timer.high <= timer'.high
      /\ Get64(timer) \in Time
  BY <1>1, CycleEnds, GetType DEF IInv, ProgramTypeOK, ClockTypeOK, LoadHigh
<1>3. /\ step' = "read_low" /\ high' = timer.high /\ counter_templow' = timer.low
      /\ read_at' = Get64(timer) /\ disturbed' = FALSE
  BY DEF LoadHigh, LoadValue, LatchAfterLoad
<1>4. ProgramTypeOK'
  BY <1>1, <1>2, <1>3 DEF IInv, ProgramTypeOK, ClockTypeOK, LoadHigh
<1>5. LatchHolds'
  <2>1. Get64(timer) = timer.high * WordSize + timer.low
    BY DEF Get64
  <2>2. timer.low \in Nat /\ timer.low < WordSize /\ timer.high * WordSize \in Nat
    BY <1>1, WordSizeAssumption DEF Word
  <2>3. /\ Joined(0)' = timer.high * WordSize
        /\ Joined(WordSize)' = timer.high * WordSize + WordSize
        /\ Joined(counter_templow)' = Get64(timer) /\ timer.low # NoLatch
    BY <1>3, <2>1, <2>2, WordSizeAssumption DEF Joined, NoLatch
  <2>4. Joined(counter_templow)' <= Get64(timer')
    BY <1>2, <2>1, <2>2, <2>3
  <2> QED BY <1>2, <1>3, <2>1, <2>2, <2>3, <2>4, WordSizeAssumption DEF LatchHolds
<1>6. ValueHolds' /\ DeadlineSet' /\ PendingIsRight'
  BY <1>3 DEF ValueHolds, DeadlineSet, PendingIsRight
<1> QED BY <1>4, <1>5, <1>6 DEF IInv

(* The low half that the program gets, from the latch or, once the         *)
(* debugger has taken that, from the counter.                              *)
LEMMA LoadLowKeeps == IInv /\ LoadLow => IInv'
<1> SUFFICES ASSUME IInv, LoadLow PROVE IInv'
  OBVIOUS
<1> DEFINE low == LoadValue(timer, counter_templow, "low")
<1>1. /\ timer \in Reg /\ timer.low \in Word /\ timer.high \in Nat /\ high \in Word
      /\ counter_templow \in Word \cup {NoLatch} /\ LatchHolds /\ step = "read_low"
      /\ Get64(timer) \in Nat
  BY GetType DEF IInv, ProgramTypeOK, ClockTypeOK, LoadLow, Reg, Word, Time
<1>2. /\ timer' \in Reg /\ comp' = comp /\ mtip' \in BOOLEAN
      /\ Get64(timer') = Get64(timer) + 1
  BY CycleEnds DEF IInv, ProgramTypeOK, ClockTypeOK, LoadLow
<1>3. low \in Word /\ low = (IF counter_templow # NoLatch THEN counter_templow
                             ELSE timer.low)
  BY <1>1 DEF LoadValue
<1>4. /\ step' = "disarm" /\ value' = Joined(low) /\ read_at' = read_at
      /\ disturbed' = disturbed /\ counter_templow' = NoLatch
  BY DEF LoadLow, LatchAfterLoad, Joined
<1> HIDE DEF low
<1>5. Joined(low) \in Time
  BY <1>1, <1>3, Join DEF Joined
<1>6. ProgramTypeOK'
  BY <1>2, <1>4, <1>5 DEF IInv, ProgramTypeOK, ClockTypeOK, LoadLow
<1>7. Joined(low) <= Get64(timer)
  <2>1. CASE counter_templow # NoLatch
    BY <1>1, <1>3, <2>1 DEF LatchHolds
  <2>2. CASE counter_templow = NoLatch
    <3>1. high <= timer.high /\ high \in Nat /\ timer.low \in Nat
      BY <1>1 DEF LatchHolds, Word
    <3>2. high * WordSize <= timer.high * WordSize
      BY <1>1, <3>1, WordSizeAssumption
    <3>3. high * WordSize \in Nat /\ timer.high * WordSize \in Nat
      BY <1>1, <3>1, WordSizeAssumption
    <3> QED BY <1>3, <2>2, <3>1, <3>2, <3>3 DEF Joined, Get64
  <2> QED BY <2>1, <2>2
<1>8. ValueHolds'
  <2>1. Joined(low) < Get64(timer')
    BY <1>1, <1>2, <1>5, <1>7 DEF Time
  <2>2. read_at < Joined(low) + WordSize
    <3>1. read_at < Joined(WordSize) /\ read_at \in Nat
      BY <1>1 DEF LatchHolds, IInv, ProgramTypeOK, Time
    <3>2. high * WordSize \in Nat /\ low \in Nat
      BY <1>1, <1>3, WordSizeAssumption DEF Word
    <3> QED BY <3>1, <3>2, WordSizeAssumption DEF Joined
  <2>3. disturbed \/ Joined(low) = read_at
    BY <1>1, <1>3 DEF LatchHolds
  <2> QED BY <1>4, <2>1, <2>2, <2>3 DEF ValueHolds
<1>9. LatchHolds' /\ DeadlineSet' /\ PendingIsRight'
  BY <1>4 DEF LatchHolds, DeadlineSet, PendingIsRight
<1> QED BY <1>6, <1>8, <1>9 DEF IInv

-----------------------------------------------------------------------------
(* The three stores of a deadline *)

LEMMA StoreTypes ==
    ASSUME IInv, NEW half \in {"low", "high"}, NEW data \in Word,
           NEW label, NEW next \in {"set_low", "set_high", "acknowledge"},
           Store(label, next, half, data), deadline' \in Time
    PROVE  /\ ProgramTypeOK' /\ LatchHolds' /\ ValueHolds' /\ PendingIsRight'
           /\ step = label /\ step' = next /\ comp' = [comp EXCEPT ![half] = data]
<1>1. Written(comp, half, data) \in Reg
  BY DEF IInv, ProgramTypeOK, ClockTypeOK, Reg, Written
<1>2. timer' \in Reg /\ comp' = Written(comp, half, data) /\ mtip' \in BOOLEAN
  BY <1>1, CycleEnds DEF IInv, ProgramTypeOK, ClockTypeOK, Store
<1>3. ProgramTypeOK'
  BY <1>1, <1>2 DEF IInv, ProgramTypeOK, ClockTypeOK, Store, LatchAfterStore
<1>4. LatchHolds' /\ ValueHolds' /\ PendingIsRight'
  BY DEF LatchHolds, ValueHolds, PendingIsRight, Store
<1> QED BY <1>2, <1>3, <1>4 DEF Store, Written

LEMMA DisarmKeeps == IInv /\ Disarm => IInv'
<1> SUFFICES ASSUME IInv, NEW d \in Delays,
                    Store("disarm", "set_low", "high", WordSize - 1),
                    deadline' = value + d
             PROVE  IInv'
  BY DEF Disarm
<1>1. deadline' \in Time
  <2>1. value < Get64(timer) /\ Get64(timer) < MaxTime
    BY DEF IInv, ValueHolds, Store, EndCycle
  <2>2. value \in Nat /\ Get64(timer) \in Nat /\ MaxTime \in Nat
    BY GetType, ProgramAssumption DEF IInv, ProgramTypeOK, ClockTypeOK, Time
  <2>3. value \in 0 .. MaxTime
    BY <2>1, <2>2
  <2> QED BY <2>3, Reachable
<1>2. WordSize - 1 \in Word
  BY WordSizeAssumption DEF Word
<1>3. ProgramTypeOK' /\ LatchHolds' /\ ValueHolds' /\ PendingIsRight'
      /\ step' = "set_low"
  BY <1>1, <1>2, StoreTypes
<1>4. DeadlineSet'
  BY <1>3 DEF DeadlineSet
<1> QED BY <1>3, <1>4 DEF IInv

LEMMA SetLowKeeps == IInv /\ SetLow => IInv'
<1> SUFFICES ASSUME IInv, SetLow PROVE IInv'
  OBVIOUS
<1>1. deadline \in Time /\ deadline' = deadline /\ comp \in Reg
  BY DEF IInv, ProgramTypeOK, ClockTypeOK, SetLow
<1>2. deadline % WordSize \in Word
  BY <1>1, Split
<1>3. /\ ProgramTypeOK' /\ LatchHolds' /\ ValueHolds' /\ PendingIsRight'
      /\ step = "set_low" /\ step' = "set_high"
      /\ comp' = [comp EXCEPT !["low"] = deadline % WordSize]
  BY <1>1, <1>2, StoreTypes DEF SetLow
<1>4. DeadlineSet'
  BY <1>1, <1>3 DEF IInv, DeadlineSet, Reg
<1> QED BY <1>3, <1>4 DEF IInv

LEMMA SetHighKeeps == IInv /\ SetHigh => IInv'
<1> SUFFICES ASSUME IInv, SetHigh PROVE IInv'
  OBVIOUS
<1>1. deadline \in Time /\ deadline' = deadline /\ comp \in Reg
  BY DEF IInv, ProgramTypeOK, ClockTypeOK, SetHigh
<1>2. /\ deadline \div WordSize \in Word
      /\ (deadline \div WordSize) * WordSize + (deadline % WordSize) = deadline
  BY <1>1, Split
<1>3. /\ ProgramTypeOK' /\ LatchHolds' /\ ValueHolds' /\ PendingIsRight'
      /\ step = "set_high" /\ step' = "acknowledge"
      /\ comp' = [comp EXCEPT !["high"] = deadline \div WordSize]
  BY <1>1, <1>2, StoreTypes DEF SetHigh
<1>4. comp.low = deadline % WordSize
  BY <1>3 DEF IInv, DeadlineSet
<1>5. comp'.low = deadline % WordSize /\ comp'.high = deadline \div WordSize
  BY <1>1, <1>3, <1>4 DEF Reg
<1>6. Get64(comp') = deadline
  BY <1>2, <1>5 DEF Get64
<1>7. DeadlineSet'
  BY <1>1, <1>3, <1>4, <1>6 DEF DeadlineSet
<1> QED BY <1>3, <1>7 DEF IInv

LEMMA AcknowledgeKeeps == IInv /\ Acknowledge => IInv'
<1> SUFFICES ASSUME IInv, Acknowledge PROVE IInv'
  OBVIOUS
<1>1. /\ Get64(comp) = deadline
      /\ timer \in Reg /\ comp \in Reg /\ EndCycle(timer, comp, FALSE)
      /\ step' = "armed" /\ deadline' = deadline
  BY DEF IInv, ProgramTypeOK, ClockTypeOK, DeadlineSet, Acknowledge
<1>2. /\ timer' \in Reg /\ comp' = comp
      /\ mtip' = (FALSE \/ Get64(timer') > Get64(comp))
  BY <1>1, CycleEnds
<1>3. mtip' \in BOOLEAN /\ (mtip' <=> Get64(timer') > deadline)
  BY <1>1, <1>2, Zenon
<1>4. ProgramTypeOK'
  BY <1>1, <1>2, <1>3 DEF IInv, ProgramTypeOK, ClockTypeOK, Acknowledge
<1>5. LatchHolds' /\ ValueHolds' /\ DeadlineSet'
  BY <1>1, <1>2 DEF IInv, LatchHolds, ValueHolds, DeadlineSet, Acknowledge
<1>6. PendingIsRight'
  BY <1>1, <1>3, Zenon DEF PendingIsRight
<1> QED BY <1>4, <1>5, <1>6 DEF IInv

(* The debugger's latch, too, is of a moment not before the high half.     *)
LEMMA DebuggerCounterKeeps == IInv /\ DebuggerReadsCounter => IInv'
<1> SUFFICES ASSUME IInv, DebuggerReadsCounter PROVE IInv'
  OBVIOUS
<1>1. /\ timer \in Reg /\ timer.low \in Word /\ timer.high \in Nat /\ high \in Nat
      /\ WordSize \in Nat
  BY WordSizeAssumption DEF IInv, ProgramTypeOK, ClockTypeOK, Reg, Word
<1>2. /\ counter_templow' \in {timer.low, NoLatch} /\ disturbed' = TRUE
      /\ UNCHANGED << timer, comp, comp_templow, mtip, step, high, value, deadline,
                      read_at >>
  BY DEF DebuggerReadsCounter, LatchAfterLoad
<1>3. ProgramTypeOK'
  BY <1>1, <1>2 DEF IInv, ProgramTypeOK, ClockTypeOK
<1>4. LatchHolds'
  <2>1. SUFFICES ASSUME step = "read_low" PROVE LatchHolds'
    BY <1>2 DEF LatchHolds
  <2>2. high <= timer.high /\ Joined(0) <= read_at /\ read_at < Joined(WordSize)
    BY <2>1 DEF IInv, LatchHolds
  <2>3. high * WordSize <= timer.high * WordSize
    BY <1>1, <2>2
  <2>4. /\ high * WordSize \in Nat /\ timer.high * WordSize \in Nat
        /\ timer.low \in Nat
    BY <1>1 DEF Word
  <2>5. Joined(timer.low) <= Get64(timer)
    BY <2>3, <2>4 DEF Joined, Get64
  <2> QED BY <1>2, <2>1, <2>2, <2>5 DEF LatchHolds, Joined
<1>5. ValueHolds' /\ DeadlineSet' /\ PendingIsRight'
  BY <1>2 DEF IInv, ValueHolds, DeadlineSet, PendingIsRight
<1> QED BY <1>3, <1>4, <1>5 DEF IInv

LEMMA DebuggerComparatorKeeps == IInv /\ DebuggerReadsComparator => IInv'
<1> SUFFICES ASSUME IInv, DebuggerReadsComparator PROVE IInv'
  OBVIOUS
<1>1. comp_templow' \in Word \cup {NoLatch}
  BY DEF IInv, ProgramTypeOK, ClockTypeOK, Reg, DebuggerReadsComparator, LatchAfterLoad
<1> QED BY <1>1 DEF IInv, ProgramTypeOK, ClockTypeOK, LatchHolds, ValueHolds, Joined,
                    DeadlineSet, PendingIsRight, DebuggerReadsComparator, program

-----------------------------------------------------------------------------
LEMMA InvariantHolds == Spec => []IInv
<1>1. Init => IInv
  <2> SUFFICES ASSUME Init PROVE IInv
    OBVIOUS
  <2>1. 0 \in Word /\ 0 \in Time /\ 0 \in 0 .. MaxTime
    <3>1. WordSize * WordSize > 0
      BY WordSizeAssumption
    <3> QED BY <3>1, WordSizeAssumption, ProgramAssumption DEF Word, Time
  <2>2. ClockTypeOK
    BY <2>1 DEF Init, ClockInit, ClockTypeOK, Reg
  <2> QED BY <2>1, <2>2 DEF Init, IInv, ProgramTypeOK, LatchHolds, ValueHolds,
                            DeadlineSet, PendingIsRight
<1>2. IInv /\ UNCHANGED vars => IInv'
  BY DEF IInv, ProgramTypeOK, ClockTypeOK, LatchHolds, ValueHolds, Joined, DeadlineSet,
         PendingIsRight, vars, clock, program
<1>3. IInv /\ [Next]_vars => IInv'
  BY <1>2, ElsewhereKeeps, LoadHighKeeps, LoadLowKeeps, DisarmKeeps, SetLowKeeps,
     SetHighKeeps, AcknowledgeKeeps, DebuggerCounterKeeps, DebuggerComparatorKeeps
  DEF Next, Cycle, DebuggerReads
<1> QED BY <1>1, <1>3, PTL DEF Spec

(***************************************************************************)
(* The registers, the latches and what the program makes of them keep      *)
(* their types; a deadline is a time (clock.cpp:9-104).                    *)
(***************************************************************************)
THEOREM TypeCorrect == Spec => []ProgramTypeOK
<1>1. IInv => ProgramTypeOK
  BY DEF IInv
<1> QED BY <1>1, InvariantHolds, PTL

(***************************************************************************)
(* Two loads read one value of the counter, with registers of any width    *)
(* and any number of cycles in between, as long as the debugger does not   *)
(* read the counter between them (clock.cpp:53-97).                        *)
(***************************************************************************)
THEOREM AtomicityCorrect == Spec => []ReadIsAtomic
<1>1. IInv => ReadIsAtomic
  BY DEF IInv, ValueHolds, ReadIsAtomic
<1> QED BY <1>1, InvariantHolds, PTL

(***************************************************************************)
(* With the debugger's reads of either half of it in between, any number   *)
(* of them, they still read no time to come, and none further back than a  *)
(* carry (clock.cpp:65-77, emulator-debug.cpp:106-126).                    *)
(***************************************************************************)
THEOREM ReadsArePast == Spec => []ReadIsPast
<1>1. IInv => ReadIsPast
  BY DEF IInv, ValueHolds, ReadIsPast
<1> QED BY <1>1, InvariantHolds, PTL

(***************************************************************************)
(* Once the deadline is written and the bit cleared, the bit says exactly  *)
(* whether the deadline has passed: no interrupt is spurious ...           *)
(***************************************************************************)
THEOREM NoneIsSpurious == Spec => []NoSpuriousInterrupt
<1>1. IInv => NoSpuriousInterrupt
  BY DEF IInv, PendingIsRight, NoSpuriousInterrupt
<1> QED BY <1>1, InvariantHolds, PTL

(***************************************************************************)
(* ... and no deadline is missed (clock.cpp:99-103).                       *)
(***************************************************************************)
THEOREM NoneIsMissed == Spec => []DeadlineIsSeen
<1>1. IInv => DeadlineIsSeen
  BY DEF IInv, PendingIsRight, DeadlineIsSeen
<1> QED BY <1>1, InvariantHolds, PTL
=============================================================================
