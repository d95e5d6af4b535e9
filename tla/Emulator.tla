------------------------------ MODULE Emulator ------------------------------
(***************************************************************************)
(* Emulator::run (main/src/emulator.cpp): cycles of the machine until a    *)
(* trap that is to be captured or a jump to itself ends the run.           *)
(***************************************************************************)
EXTENDS Cpu

VARIABLES
    trap_capture_mode,          \* the options, fixed at the start
    stop_at_infinite_loop,
    running                     \* run() has not returned

options == << trap_capture_mode, stop_at_infinite_loop >>

Modes == {"No_capture", "Exception_only", "All"}

EmulatorInit ==
    /\ Init
    /\ trap_capture_mode \in Modes
    /\ stop_at_infinite_loop \in BOOLEAN
    /\ running = TRUE

(* The trap that a run of this mode stops at. *)
Captured(mode, trap) ==
    /\ trap # NoTrap
    /\ \/ mode = "All"
       \/ mode = "Exception_only" /\ IsInterrupt(trap) /\ trap # EnvCallFromMMode

LoopDetected(stop, r) == stop /\ r.trap = NoTrap /\ r.loops

Run ==
    /\ running
    /\ Cycle
    /\ running' = ~ (Captured(trap_capture_mode, result'.trap)
                        \/ LoopDetected(stop_at_infinite_loop, result'))
    /\ UNCHANGED options

EmulatorSpec == EmulatorInit /\ [][Run]_<< vars, options, running >>

-----------------------------------------------------------------------------
(* Properties *)

(***************************************************************************)
(* A run without capture and without loop detection never ends, and a run  *)
(* that has ended did so at a trap or where the machine stands still: the  *)
(* next instruction is the one that has just been executed.                *)
(***************************************************************************)
EndedForAReason ==
    ~ running =>
        \/ trap_capture_mode # "No_capture" /\ result.trap # NoTrap
        \/ stop_at_infinite_loop /\ result.trap = NoTrap /\ pc = result.pc

(* A run that goes on has not captured a trap. *)
NothingCaptured == running => ~ Captured(trap_capture_mode, result.trap)

(* A run that captures all traps has begun no trap handler. *)
NoHandlerBegan ==
    trap_capture_mode = "All" /\ running => csr["mcause"] = 0 /\ csr["mepc"] = 0

(***************************************************************************)
(* A run ends only at a trap or at a jump to itself, and it does end with  *)
(* its first captured trap, before any instruction of the handler          *)
(* (emulator.cpp:58-96).                                                   *)
(***************************************************************************)
StopsForAReason == EndedForAReason /\ NothingCaptured /\ NoHandlerBegan
=============================================================================
