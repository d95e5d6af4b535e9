---------------------------- MODULE TimerProgram ----------------------------
(***************************************************************************)
(* A program that uses the clock the way its register interface asks for,  *)
(* one access per cycle, between accesses that may take any number of      *)
(* cycles: it reads the counter (high half, then low half), moves the      *)
(* comparator to a later deadline (high half to its maximum, low half,     *)
(* high half) and then clears the pending bit of mip with a CSR            *)
(* instruction.  A debugger may stop the machine anywhere and read either  *)
(* register, which costs no cycle.  Clock::read does not know who reads:   *)
(* the debugger sets and takes the same latches as the program.            *)
(*                                                                         *)
(* Every cycle is Emulator::tick_one_cycle: the instruction first, then    *)
(* Clock::tick.                                                            *)
(***************************************************************************)
EXTENDS Clock

CONSTANTS
    MaxTime,        \* bound: the counter stops there
    Delays          \* bound: how far ahead a deadline is set

ASSUME ProgramAssumption ==
    /\ MaxTime \in Nat /\ Delays \subseteq Nat \ {0}
    /\ MaxTime < WordSize * WordSize
    \* the deadline technique needs a high half below the maximum
    /\ \A d \in Delays : MaxTime + d < (WordSize - 1) * WordSize

VARIABLES
    step,           \* where the program is
    high,           \* the high half it has read
    value,          \* the last counter value it has put together
    deadline,       \* the comparator value it wants
    read_at,        \* history: the counter when the high half was read
    disturbed       \* history: the debugger has read the counter since then

program == << step, high, value, deadline, read_at, disturbed >>

vars == << clock, program >>

Time == 0 .. WordSize * WordSize - 1

ProgramTypeOK ==
    /\ ClockTypeOK
    /\ step \in {"start", "read_low", "disarm", "set_low", "set_high",
                 "acknowledge", "armed"}
    /\ high \in Word
    /\ value \in Time /\ deadline \in Time
    /\ read_at \in Time /\ disturbed \in BOOLEAN

Init ==
    /\ ClockInit
    /\ step = "start" /\ high = 0 /\ value = 0 /\ deadline = 0
    /\ read_at = 0 /\ disturbed = FALSE

(***************************************************************************)
(* A cycle ends with the tick of the clock, over the registers and the     *)
(* pending bit that its instruction leaves.                                *)
(***************************************************************************)
EndCycle(t, c, p) ==
    /\ Get64(t) < MaxTime
    /\ timer' = Ticked(t)
    /\ comp' = c
    /\ mtip' = PendingAfterTick(t, c, p)

Elsewhere ==        \* an instruction that does not touch the clock
    /\ EndCycle(timer, comp, mtip)
    /\ UNCHANGED << counter_templow, comp_templow, program >>

LoadHigh ==
    /\ step \in {"start", "armed"}
    /\ step' = "read_low"
    /\ high' = LoadValue(timer, counter_templow, "high")
    /\ read_at' = Get64(timer) /\ disturbed' = FALSE
    /\ counter_templow' = LatchAfterLoad(timer, "high")
    /\ EndCycle(timer, comp, mtip)
    /\ UNCHANGED << comp_templow, value, deadline >>

LoadLow ==
    /\ step = "read_low"
    /\ step' = "disarm"
    /\ value' = high * WordSize + LoadValue(timer, counter_templow, "low")
    /\ counter_templow' = LatchAfterLoad(timer, "low")
    /\ EndCycle(timer, comp, mtip)
    /\ UNCHANGED << comp_templow, high, deadline, read_at, disturbed >>

Store(label, next, half, data) ==
    /\ step = label
    /\ step' = next
    /\ EndCycle(timer, Written(comp, half, data), mtip)
    /\ comp_templow' = LatchAfterStore
    /\ UNCHANGED << counter_templow, high, value, read_at, disturbed >>

Disarm ==
    \E d \in Delays :
        /\ Store("disarm", "set_low", "high", WordSize - 1)
        /\ deadline' = value + d

SetLow ==
    /\ Store("set_low", "set_high", "low", deadline % WordSize)
    /\ UNCHANGED deadline

SetHigh ==
    /\ Store("set_high", "acknowledge", "high", deadline \div WordSize)
    /\ UNCHANGED deadline

Acknowledge ==      \* csrc mip, 1 << 7
    /\ step = "acknowledge"
    /\ step' = "armed"
    /\ EndCycle(timer, comp, FALSE)
    /\ UNCHANGED << counter_templow, comp_templow, high, value, deadline,
                    read_at, disturbed >>

DebuggerReadsCounter ==
    /\ \E half \in {"low", "high"} :
           counter_templow' = LatchAfterLoad(timer, half)
    /\ disturbed' = TRUE
    /\ UNCHANGED << timer, comp, comp_templow, mtip, step, high, value, deadline,
                    read_at >>

DebuggerReadsComparator ==
    /\ \E half \in {"low", "high"} :
           comp_templow' = LatchAfterLoad(comp, half)
    /\ UNCHANGED << timer, comp, counter_templow, mtip, program >>

(* handle_mem_read, of one word; of several, one after the other. *)
DebuggerReads == DebuggerReadsCounter \/ DebuggerReadsComparator

Cycle == Elsewhere \/ LoadHigh \/ LoadLow \/ Disarm \/ SetLow \/ SetHigh
             \/ Acknowledge

Next == Cycle \/ DebuggerReads

Spec == Init /\ [][Next]_vars

-----------------------------------------------------------------------------
(* Properties *)

(***************************************************************************)
(* The two halves that a program reads are the halves of one value, the    *)
(* counter at the moment the high half was read, however many cycles       *)
(* (and carries into the high half) pass before the low half is read,      *)
(* unless the debugger reads the counter in between (clock.cpp:65-77).     *)
(***************************************************************************)
ReadIsAtomic == step = "disarm" /\ ~ disturbed => value = read_at

(***************************************************************************)
(* Such a debugger takes or renews the latch, and the low half that the    *)
(* program gets is of a later moment than the high half.  What the two     *)
(* halves make is still no time to come, so that a deadline counted from   *)
(* it is not too late, and it lies behind the moment of the first load by  *)
(* less than one carry.                                                    *)
(***************************************************************************)
ReadIsPast ==
    step = "disarm" => value < Get64(timer) /\ read_at < value + WordSize

(***************************************************************************)
(* After the deadline is set and the bit cleared, in this order, a pending *)
(* bit means that the deadline has passed: the comparator's intermediate   *)
(* values never leave an interrupt behind, and an old one is not seen      *)
(* again.                                                                  *)
(***************************************************************************)
NoSpuriousInterrupt == step = "armed" /\ mtip => Get64(timer) > deadline

(***************************************************************************)
(* No deadline is missed, not even one that passes while the comparator is *)
(* being written or while the bit is being cleared.                        *)
(***************************************************************************)
DeadlineIsSeen == step = "armed" /\ Get64(timer) > deadline => mtip
=============================================================================
