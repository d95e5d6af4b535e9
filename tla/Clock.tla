------------------------------- MODULE Clock --------------------------------
(***************************************************************************)
(* device::periph::Clock (lib/device/peripheral/clock.cpp): a 64-bit       *)
(* counter and a 64-bit comparator behind four 32-bit registers, and the   *)
(* timer bit of MIP that tick() raises.                                    *)
(*                                                                         *)
(* A program reads 64 bits with two loads: the load of the high half       *)
(* latches the low half of that moment, and the next load of the low half  *)
(* consumes the latch.                                                     *)
(***************************************************************************)
EXTENDS Naturals

CONSTANT WordSize       \* 2^32: the values of one register

ASSUME WordSizeAssumption == WordSize \in Nat \ {0, 1}

VARIABLES
    timer,              \* Clock::timer, [low, high]
    comp,               \* Clock::comp
    counter_templow,    \* the latched low half of timer, or NoLatch
    comp_templow,       \* the latched low half of comp, or NoLatch
    mtip                \* bit 7 of the CPU's mip

clock == << timer, comp, counter_templow, comp_templow, mtip >>

Word == 0 .. WordSize - 1

Reg == [low : Word, high : Word]

NoLatch == WordSize     \* std::nullopt; no word has this value

ClockTypeOK ==
    /\ timer \in Reg /\ comp \in Reg
    /\ counter_templow \in Word \cup {NoLatch}
    /\ comp_templow \in Word \cup {NoLatch}
    /\ mtip \in BOOLEAN

ClockInit ==
    /\ timer = [low |-> 0, high |-> 0]
    /\ comp = [low |-> 0, high |-> 0]
    /\ counter_templow = NoLatch /\ comp_templow = NoLatch
    /\ mtip = FALSE

Get64(reg) == reg.high * WordSize + reg.low

Set64(value) == [low  |-> value % WordSize,
                 high |-> (value \div WordSize) % WordSize]

(***************************************************************************)
(* Clock::write of one half of a register: the whole word, the byte mask   *)
(* merged into it.  The latch of the pair is dropped.                      *)
(***************************************************************************)
Written(reg, half, data) == [reg EXCEPT ![half] = data]

LatchAfterStore == NoLatch

(***************************************************************************)
(* Clock::read: the value that the load returns, and the latch after it.   *)
(***************************************************************************)
LoadValueUnchecked(reg, templow, half) == templow       \* mutant

LoadValueAnyHalf(reg, templow, half) ==                 \* mutant: for both halves
    IF templow # NoLatch THEN templow ELSE reg[half]

LoadValue(reg, templow, half) ==
    IF half = "low" /\ templow # NoLatch THEN templow ELSE reg[half]

LatchAfterLoadNone(reg, half) == NoLatch                \* mutant

LatchAfterLoad(reg, half) == IF half = "high" THEN reg.low ELSE NoLatch

(***************************************************************************)
(* Clock::tick, after an access in the same cycle has made the registers   *)
(* t and c and the pending bit p: tick() only ever raises the bit.         *)
(***************************************************************************)
Ticked(t) == Set64(Get64(t) + 1)

PendingTooEarly(t, c, p) ==     \* mutant: >= for >
    p \/ Get64(Ticked(t)) >= Get64(c)

PendingOnEquality(t, c, p) ==   \* mutant: raised in one cycle only
    p \/ Get64(Ticked(t)) = Get64(c) + 1

PendingAfterTick(t, c, p) == p \/ Get64(Ticked(t)) > Get64(c)
=============================================================================
