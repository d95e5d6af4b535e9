--------------------------- MODULE DebuggedMachine ---------------------------
(***************************************************************************)
(* The machine under the debugger: the commands of GDB that change it or   *)
(* its stop points while it stands still, and the loops run_until_trap and *)
(* run_steps (main/src/emulator-debug.cpp) that run it in the thread of    *)
(* async_run.  How the commands and the replies travel, and how the two    *)
(* threads share the machine, is DebugStub's and DebugSession's matter.    *)
(***************************************************************************)
EXTENDS Cpu, StopPoints, Expressions

CONSTANTS
    BytesOf,            \* condition -> its bytes
    Writes,             \* what P and G commands write: sequences of registers
    ResumeAddresses,    \* addresses that c, s and i commands may carry
    StepCounts,         \* numbers of cycles in s and i commands
    MaxEdits            \* commands that change stop points, registers or pc

ASSUME DebuggedAssumption ==
    /\ Space = 2^XLEN
    /\ BytesOf \in [Conditions -> Seq(0 .. 255)]
    /\ Writes \subseteq Seq([number : Nat, value : Word])
    /\ ResumeAddresses \subseteq Word
    /\ StepCounts \subseteq Nat /\ MaxEdits \in Nat

VARIABLES
    phase,          \* of the thread that runs the machine
    budget,         \* cycles left to run_steps; Unlimited in run_until_trap
    interrupt,      \* the flag that async_run raises
    evaluation,     \* of the condition of the breakpoint at pc
    fresh,          \* history: the first cycle of the run has not been done
    made,           \* history: the access to memory that the last cycle made
    edits           \* bound: the commands counted by MaxEdits so far

machine == << pc, registers, csr, memory >>
run == << phase, budget, interrupt, evaluation, fresh, made >>

Unlimited == -1

Phases == {"stopped", "tick", "check", "evaluate", "killed"}

Replies == Statuses \cup {"none", "trap", "int", "hwbreak", "watch", "rwatch"}

DebuggedInit ==
    /\ Init /\ StopPointsInit
    /\ phase = "stopped" /\ budget = 0 /\ interrupt = FALSE /\ evaluation = Begin
    /\ fresh = FALSE /\ made = NoMemory /\ edits = 0

-----------------------------------------------------------------------------
(* The registers as GDB numbers them (CPU_register_accessor) *)

PcNumber == 32

CsrAddress ==
    [mstatus |-> 768, mie |-> 772, mtvec |-> 773, mscratch |-> 832, mepc |-> 833,
     mcause |-> 834, mtval |-> 835, mip |-> 836, mhartid |-> 3860]

(* The address of a CSR has twelve bits, the number of a register may have more. *)
CsrNumbers == { n \in 128 .. 2^13 - 1 : \E c \in Csrs : CsrAddress[c] = (n - 128) % 2^12 }

CsrOf[n \in CsrNumbers] == CHOOSE c \in Csrs : CsrAddress[c] = (n - 128) % 2^12

CsrAccess(mode, n, value) ==
    [mode |-> mode, address |-> CsrOf[n], value |-> value, read |-> TRUE]

RegisterWrittenAny(cpu, number, value) ==       \* mutant: register 0 too
    IF number \in Register THEN [cpu EXCEPT !.registers[number] = value] ELSE cpu

(* CPU_register_accessor::write; a write that fails changes nothing. *)
RegisterWritten(cpu, number, value) ==
    CASE number \in Register \ {0} -> [cpu EXCEPT !.registers[number] = value]
      [] number = PcNumber -> [cpu EXCEPT !.pc = value]
      [] number \in CsrNumbers /\ ~ CsrFails(CsrAccess("Overwrite", number, value)) ->
             [cpu EXCEPT !.csr = CsrAfter(CsrAccess("Overwrite", number, value), @)]
      [] OTHER -> cpu

(***************************************************************************)
(* What a condition sees: the accessors of is_triggered_by, over RAM and   *)
(* ROM.  Devices, of which reading the clock sets a latch, are left out.   *)
(***************************************************************************)
ReadableBytes == UNION { w .. w + 3 : w \in Data \cup DOMAIN Encoding }

WordAtAddress(a) == IF a \in Data THEN memory[a] ELSE Encoding[a]

Seen ==
    [byte |->
        [a \in ReadableBytes |->
            (WordAtAddress(4 * (a \div 4)) \div 256^(a % 4)) % 256],
     register |->
        [n \in Register \cup {PcNumber} \cup CsrNumbers |->
            CASE n \in Register -> registers[n]
              [] n = PcNumber -> pc
              [] n \in CsrNumbers -> CsrResult(CsrAccess("None", n, 0), csr)]]

-----------------------------------------------------------------------------
(* Commands, which come while the machine stands still *)

handle_reg_write ==
    /\ phase = "stopped" /\ edits < MaxEdits
    /\ \E values \in Writes :
           LET after[n \in 0 .. Len(values)] ==
                   IF n = 0 THEN [pc |-> pc, registers |-> registers, csr |-> csr]
                   ELSE RegisterWritten(after[n - 1], values[n].number, values[n].value)
           IN  /\ pc' = after[Len(values)].pc
               /\ registers' = after[Len(values)].registers
               /\ csr' = after[Len(values)].csr
    /\ reply' = "OK"
    /\ edits' = edits + 1
    /\ UNCHANGED << memory, result, stopPoints, run >>

EditStopPoints ==
    /\ phase = "stopped" /\ edits < MaxEdits
    /\ Edit
    /\ edits' = edits + 1
    /\ UNCHANGED << vars, run >>

(* handle_continue, handle_step and handle_step_single_cycles. *)
Start(cycles) ==
    /\ phase = "stopped"
    /\ \/ UNCHANGED << pc, edits >>
       \/ edits < MaxEdits /\ pc' \in ResumeAddresses /\ edits' = edits + 1
    /\ phase' = IF cycles = 0 THEN "stopped" ELSE "tick"
    /\ reply' = IF cycles = 0 THEN "trap" ELSE "none"
    /\ budget' = cycles
    /\ interrupt' = FALSE /\ fresh' = TRUE
    /\ UNCHANGED << registers, csr, memory, result, evaluation, made, stopPoints >>

handle_continue == Start(Unlimited)

handle_steps == \E n \in StepCounts : Start(n)

(* While the machine runs, async_run takes an interrupt. *)
Interrupt ==
    /\ phase \in {"tick", "check", "evaluate"} /\ ~ interrupt
    /\ interrupt' = TRUE
    /\ UNCHANGED << vars, stopPoints, reply, phase, budget, evaluation, fresh, made,
                    edits >>

-----------------------------------------------------------------------------
(* The loop of run_until_trap and run_steps *)

tick_one_cycle ==
    /\ phase = "tick"
    /\ Cycle
    /\ phase' = "check"
    /\ made' = AccessMade
    /\ UNCHANGED << stopPoints, reply, budget, interrupt, evaluation, fresh, edits >>

StopReasonSteppingOff(is_breakpoint) ==         \* mutant: none after the first cycle
    CASE is_breakpoint /\ ~ fresh -> "hwbreak"
      [] ~ (is_breakpoint /\ ~ fresh) /\ interrupt -> "int"
      [] OTHER -> IF budget = 1 THEN "trap" ELSE "none"

(* Why the loop is left after a cycle, if it is. *)
StopReason(is_breakpoint) ==
    LET hit == check_watchpoint(result.access.memory, result.access.address)
    IN  CASE is_breakpoint -> "hwbreak"
          [] ~ is_breakpoint /\ hit ->
                 IF result.access.memory = "Store" THEN "watch" ELSE "rwatch"
          [] ~ is_breakpoint /\ ~ hit /\ interrupt -> "int"
          [] ~ is_breakpoint /\ ~ hit /\ ~ interrupt ->
                 IF budget = 1 THEN "trap" ELSE "none"

(* The rest of a turn, once it is known whether a breakpoint has been hit. *)
Finish(is_breakpoint) ==
    /\ reply' = StopReason(is_breakpoint)
    /\ phase' = IF reply' = "none" THEN "tick" ELSE "stopped"
    /\ budget' = IF reply' # "none" THEN 0
                 ELSE IF budget = Unlimited THEN Unlimited ELSE budget - 1
    /\ interrupt' = (interrupt /\ reply' = "none")
    /\ evaluation' = Begin
    /\ fresh' = FALSE
    /\ UNCHANGED << vars, stopPoints, made, edits >>

check_breakpoint == pc \in DOMAIN hw_breakpoints

Unconditional == check_breakpoint /\ hw_breakpoints[pc] = NoCondition

Conditional == check_breakpoint /\ hw_breakpoints[pc] # NoCondition

Check ==
    /\ phase = "check" /\ ~ Conditional
    /\ Finish(Unconditional)

StartEvaluation ==
    /\ phase = "check" /\ Conditional
    /\ phase' = "evaluate"
    /\ UNCHANGED << vars, stopPoints, reply, budget, interrupt, evaluation, fresh, made,
                    edits >>

Evaluate ==
    /\ phase = "evaluate" /\ evaluation.outcome = "running"
    /\ \E seen \in {Seen} :
           evaluation' = Step(evaluation, BytesOf[hw_breakpoints[pc]], seen)
    /\ phase' = IF evaluation'.outcome = "killed" THEN "killed" ELSE phase
    /\ UNCHANGED << vars, stopPoints, reply, budget, interrupt, fresh, made, edits >>

Evaluated ==
    /\ phase = "evaluate" /\ evaluation.outcome # "running"
    /\ Finish(Triggers(evaluation))

Worker == tick_one_cycle \/ Check \/ StartEvaluation \/ Evaluate \/ Evaluated

Command == handle_reg_write \/ EditStopPoints \/ handle_continue \/ handle_steps

Next == Command \/ Interrupt \/ Worker

debugged == << vars, stopPoints, reply, run, edits >>

DebuggedSpec == DebuggedInit /\ [][Next]_debugged /\ WF_debugged(Worker)

-----------------------------------------------------------------------------
(* Properties *)

Evaluations ==
    [pc : Nat, stack : Seq(Word),
     outcome : {"running", "value", "killed", "Unsupported_bytecode",
                "Bytecode_out_of_bound", "Stack_out_of_bound", "Division_by_zero",
                "Memory_access_error", "Register_access_error"}]

(* The type invariant; what the debugger writes keeps the machine's. *)
DebuggedTypeOK ==
    /\ TypeOK /\ StopPointsTypeOK
    /\ reply \in Replies /\ phase \in Phases /\ budget \in Nat \cup {Unlimited}
    /\ interrupt \in BOOLEAN /\ fresh \in BOOLEAN /\ edits \in 0 .. MaxEdits
    /\ evaluation \in Evaluations
    /\ made \in [memory : {"None", "Load", "Store"}, address : Word]

(* What depends on the machine alone is looked at once: after a write of GDB's. *)
Standing ==
    /\ phase = "stopped" /\ reply \in {"none", "OK"}
    /\ DOMAIN hw_breakpoints = {} /\ watchpoints = << >>

(***************************************************************************)
(* Whatever the registers hold, the operations of the ALU on them are the  *)
(* operations on numbers (alu.cpp:29-150).                                 *)
(***************************************************************************)
ArithmeticIsExact ==
    Standing => \A r, s \in Register : Exact(registers[r], registers[s])

Watches(w, opcode) ==
    \/ opcode = "Store" /\ w.watch_write
    \/ opcode = "Load" /\ w.watch_read

(* All the watchpoints that a comparison of ranges may take for this access. *)
Near(range) ==
    { i \in DOMAIN watchpoints :
          Wraps(watchpoints[i].range) \/ ~ Apart(watchpoints[i].range, range) }

(***************************************************************************)
(* No run goes on after an access to a word that one watchpoint of its     *)
(* kind shares a byte with and no other touches.  After a cycle that did   *)
(* not trap a run reports a watchpoint only if the cycle made an access,   *)
(* as the kind that the access was, and only if the access touched a       *)
(* watchpoint of its kind, or one of its kind wraps                        *)
(* (emulator-debug.cpp:43-62).  A cycle that traps makes no access, but    *)
(* leaves one in Result all the same, which may be reported: nothing is    *)
(* claimed of these reports.                                               *)
(***************************************************************************)
WatchpointsStop ==
    [][LET range == Accessed(made.address)
       IN  /\ phase \in {"check", "evaluate"} /\ phase' = "tick" /\ made.memory # "None"
                  /\ ~ Wraps(range)
                  => ~ \E i \in DOMAIN watchpoints :
                           /\ Near(range) = {i} /\ ~ Wraps(watchpoints[i].range)
                           /\ Bytes(watchpoints[i].range) \cap Bytes(range) # {}
                           /\ Watches(watchpoints[i], made.memory)
           /\ phase # "stopped" /\ reply' \in {"watch", "rwatch"} /\ result.trap = NoTrap
                  => /\ made.memory # "None"
                     /\ reply' = IF made.memory = "Store" THEN "watch" ELSE "rwatch"
                     /\ Wraps(range)
                            \/ \E i \in Near(range) : Watches(watchpoints[i], made.memory)
      ]_debugged

(***************************************************************************)
(* "Run until a trap is hit (breakpoint, watchpoint, exception, ecall,     *)
(* ebreak) or interrupted" (main/include/emulator-debug.hpp:54): a run     *)
(* does not go on after an exception.                                      *)
(***************************************************************************)
StopsAtTraps ==
    phase = "tick" /\ ~ fresh /\ budget = Unlimited => result.trap \notin Exceptions
=============================================================================
