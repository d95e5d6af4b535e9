-------------------------------- MODULE Cpu ---------------------------------
(***************************************************************************)
(* One cycle of the machine: CPU_module::step (lib/core/cpu.cpp), that is  *)
(* execute(), then handle_trap(), then the tick of the clock that may      *)
(* raise the timer bit of mip (Emulator::tick_one_cycle).  When the clock  *)
(* does so is left open: any cycle may be the one.                         *)
(*                                                                         *)
(* The program is a constant in ROM.  The counters mcycle and minstret and *)
(* the high halves of CSRs are left out.                                   *)
(***************************************************************************)
EXTENDS Instructions

CONSTANTS
    Image,              \* address -> instruction, the executable memory
    Encoding,           \* address -> the word that encodes the instruction
    ResetAddress,       \* where Platform starts the CPU
    FillValues,         \* what the fill policy may leave in the RAM
    Indeterminate       \* words an uninitialised alu_result may hold

ASSUME ImageAssumption ==
    /\ DOMAIN Image \subseteq { a \in Word : a % 4 = 0 }
    /\ Image \in [DOMAIN Image -> Instruction]
    /\ Encoding \in [DOMAIN Image -> Word]
    /\ ResetAddress \in Word

ASSUME ValuesAssumption ==
    /\ FillValues \subseteq Word /\ FillValues # {}
    /\ Indeterminate \subseteq Word /\ Indeterminate # {}

VARIABLES
    pc,
    registers,
    csr,                \* CSR_module, name -> value
    memory,             \* the words of Data
    result              \* of the last step: what the loops over step() look at

vars == << pc, registers, csr, memory, result >>

-----------------------------------------------------------------------------
(* Traps (lib/include/core/trap.hpp) *)

NoTrap == -1
InstAddressMisaligned == 0
InstAccessFault == 1
IllegalInstruction == 2
LoadAddressMisaligned == 4
LoadAccessFault == 5
StoreAddressMisaligned == 6
StoreAccessFault == 7
EnvCallFromMMode == 11
InterruptBit == 2^(XLEN - 1)
MachineTimerInterrupt == InterruptBit + 7

Exceptions == {InstAddressMisaligned, InstAccessFault, IllegalInstruction,
               LoadAddressMisaligned, LoadAccessFault, StoreAddressMisaligned,
               StoreAccessFault, EnvCallFromMMode}

Traps == Exceptions \cup {MachineTimerInterrupt}

IsInterrupt(trap) == trap >= InterruptBit

-----------------------------------------------------------------------------
(* CSRs (lib/core/csr.cpp) *)

Writable == {"mstatus", "mie", "mip", "mtvec", "mepc", "mcause", "mtval", "mscratch"}
ReadOnly == {"mhartid"}         \* for the five registers whose bits 11:10 are set
Csrs == Writable \cup ReadOnly

Has(c, name, bit) == bit \in BitsOf[c[name]]

Mie(c) == Has(c, "mstatus", 3)
Mpie(c) == Has(c, "mstatus", 7)

(* mpp, in bits 12:11 if a word has them, keeps whatever is written there. *)
MachineMode == {11, 12}

Mpp(c) == BitsOf[c["mstatus"]] \cap MachineMode

Mstatus(mie, mpie, mpp) ==
    WordOf((IF mie THEN {3} ELSE {}) \cup (IF mpie THEN {7} ELSE {}) \cup mpp)

ForceLegal(w) == WordOf(BitsOf[w] \cap ({3, 7} \cup MachineMode))

Masked(dst, mask, value) ==
    WordOf((BitsOf[dst] \ BitsOf[mask]) \cup (BitsOf[value] \cap BitsOf[mask]))

WriteMask(access) ==
    CASE access.mode = "None" -> 0
      [] access.mode = "Overwrite" -> AllOnes
      [] access.mode \in {"Set", "Clear"} -> access.value

WriteValue(access) ==
    CASE access.mode \in {"None", "Clear"} -> 0
      [] access.mode = "Overwrite" -> access.value
      [] access.mode = "Set" -> AllOnes

NoCsrAccess(access) == ~ access.read /\ access.mode = "None"

CsrFails(access) ==
    /\ ~ NoCsrAccess(access)
    /\ \/ access.address \notin Csrs
       \/ access.address \in ReadOnly /\ WriteMask(access) # 0

NewValue(access, c) ==
    LET written == Masked(c[access.address], WriteMask(access), WriteValue(access))
    IN  IF access.address = "mstatus" THEN ForceLegal(written) ELSE written

CsrAfter(access, c) ==
    IF NoCsrAccess(access) THEN c
    ELSE [c EXCEPT ![access.address] = NewValue(access, c)]

(* The old value of the register, except that mstatus answers the new one. *)
CsrResult(access, c) ==
    CASE NoCsrAccess(access) -> 0
      [] ~ NoCsrAccess(access) /\ access.address = "mstatus" -> NewValue(access, c)
      [] ~ NoCsrAccess(access) /\ access.address # "mstatus" -> c[access.address]

(* Clock::tick may raise bit 7 of mip at the end of any cycle. *)
Ticked(c) == {c, [c EXCEPT !["mip"] = WordOf(BitsOf[@] \cup {7})]}

(***************************************************************************)
(* What a step leaves in memory_opcode and alu_result for                  *)
(* check_watchpoint, which looks at the second only if there is a first.   *)
(***************************************************************************)
NoMemory == [memory |-> "None", address |-> 0]

AccessOf(d, address) ==
    IF d.memory = "None" THEN NoMemory ELSE [memory |-> d.memory, address |-> address]

-----------------------------------------------------------------------------
Init ==
    /\ pc = ResetAddress
    /\ registers = [r \in Register |-> 0]
    /\ csr = [name \in Csrs |->
                  IF name = "mstatus" THEN Mstatus(FALSE, FALSE, MachineMode) ELSE 0]
    /\ memory \in [Data -> FillValues]
    /\ result = [pc |-> 0, trap |-> NoTrap, loops |-> FALSE, access |-> NoMemory]

(***************************************************************************)
(* CPU_module::handle_trap, the end of a cycle that did nothing else.      *)
(***************************************************************************)
TrappedUnmasked(c, trap, tval) ==       \* mutant: mie stays set
    [c EXCEPT !["mstatus"] = Mstatus(Mie(c), Mie(c), MachineMode),
              !["mepc"] = pc, !["mcause"] = trap, !["mtval"] = tval]

TrappedNextPc(c, trap, tval) ==         \* mutant: mepc past the instruction
    [c EXCEPT !["mstatus"] = Mstatus(FALSE, Mie(c), MachineMode),
              !["mepc"] = Plus(pc, 4), !["mcause"] = trap, !["mtval"] = tval]

Trapped(c, trap, tval) ==
    [c EXCEPT !["mstatus"] = Mstatus(FALSE, Mie(c), MachineMode),
              !["mepc"] = pc,
              !["mcause"] = trap,
              !["mtval"] = tval]

TrapTarget(c, trap) ==
    LET base == 4 * (c["mtvec"] \div 4)
    IN  IF IsInterrupt(trap) /\ c["mtvec"] % 4 = 1
        THEN Plus(base, 4 * (trap - InterruptBit))
        ELSE base

TakeTrap(trap, tval, access) ==
    /\ csr' \in Ticked(Trapped(csr, trap, tval))
    /\ pc' = TrapTarget(csr, trap)
    /\ result' = [pc |-> pc, trap |-> trap, loops |-> FALSE, access |-> access]
    /\ UNCHANGED << registers, memory >>

(* The stages of CPU_module::execute, each with the trap it may end in. *)

Fetchable == pc % 4 = 0 /\ pc \in DOMAIN Image

InstFault ==
    /\ ~ Fetchable
    /\ \E w \in Indeterminate :
           TakeTrap(IF pc % 4 # 0 THEN InstAddressMisaligned ELSE InstAccessFault, w, NoMemory)

Legal == Fetchable /\ Image[pc].op # "illegal"

DecodeFault ==
    /\ Fetchable /\ ~ Legal
    /\ TakeTrap(IllegalInstruction, Encoding[pc], NoMemory)

Current == Decoded(Image[pc], registers, pc)

EnvCall ==
    /\ Legal /\ Current.ecall
    /\ TakeTrap(EnvCallFromMMode, 0, NoMemory)

InterruptEnabledAlways == Has(csr, "mip", 7)    \* mutant: pending is enough

InterruptEnabledWrongBit == Mie(csr) /\ Has(csr, "mip", 7) /\ Has(csr, "mie", 3)  \* mutant

InterruptEnabled == Mie(csr) /\ Has(csr, "mip", 7) /\ Has(csr, "mie", 7)

TimerInterruptLate ==           \* mutant: checked after the write-back
    /\ Legal /\ ~ Current.ecall
    /\ InterruptEnabled
    /\ csr' \in Ticked(Trapped(csr, MachineTimerInterrupt, 0))
    /\ pc' = TrapTarget(csr, MachineTimerInterrupt)
    /\ result' = [pc |-> pc, trap |-> MachineTimerInterrupt, loops |-> FALSE,
                  access |-> NoMemory]
    /\ registers' = WrittenBack(Current, pc, registers, LoadedValue(Current, memory), 0)
    /\ UNCHANGED memory

TimerInterrupt ==
    /\ Legal /\ ~ Current.ecall
    /\ InterruptEnabled
    /\ \E w \in Indeterminate :            \* the ALU has not run
           TakeTrap(MachineTimerInterrupt, 0, AccessOf(Current, w))

Executes == Legal /\ ~ Current.ecall /\ ~ InterruptEnabled

CsrFault ==
    /\ Executes /\ CsrFails(Current.access)
    /\ TakeTrap(IllegalInstruction, Encoding[pc], NoMemory)

AccessTrap(d) ==
    CASE d.memory = "Load"  /\ d.alu % 4 # 0 -> LoadAddressMisaligned
      [] d.memory = "Load"  /\ d.alu % 4 = 0 -> LoadAccessFault
      [] d.memory = "Store" /\ d.alu % 4 # 0 -> StoreAddressMisaligned
      [] d.memory = "Store" /\ d.alu % 4 = 0 -> StoreAccessFault

MemoryFault ==
    /\ Executes /\ ~ CsrFails(Current.access) /\ AccessFails(Current)
    /\ TakeTrap(AccessTrap(Current), Current.alu, AccessOf(Current, Current.alu))

(* The access to memory that the cycle makes, which every trap comes before. *)
AccessMade ==
    IF Executes /\ ~ CsrFails(Current.access) /\ ~ AccessFails(Current)
    THEN AccessOf(Current, Current.alu)
    ELSE NoMemory

Returned(c) == [c EXCEPT !["mstatus"] = Mstatus(Mpie(c), FALSE, Mpp(c))]

LoopsIfAluIsPc(d) == d.alu = pc         \* mutant: branch_result is not asked

Loops(d) == d.branch /\ d.alu = pc

Retire ==
    /\ Executes
    /\ \E d \in {Current} :
        /\ ~ CsrFails(d.access) /\ ~ AccessFails(d)
        /\ memory' = Stored(d, memory)
        /\ registers' = WrittenBack(d, pc, registers, LoadedValue(d, memory),
                                    CsrResult(d.access, csr))
        /\ csr' \in Ticked(IF d.mret THEN Returned(csr) ELSE CsrAfter(d.access, csr))
        /\ pc' = IF d.mret THEN csr["mepc"] ELSE NextPc(d, pc)
        /\ result' = [pc |-> pc, trap |-> NoTrap, loops |-> Loops(d),
                      access |-> AccessOf(d, d.alu)]

Cycle == InstFault \/ DecodeFault \/ EnvCall \/ TimerInterrupt \/ CsrFault
             \/ MemoryFault \/ Retire

Spec == Init /\ [][Cycle]_vars

-----------------------------------------------------------------------------
(* The type invariant of the machine's state. *)
TypeOK ==
    /\ pc \in Word
    /\ registers \in [Register -> Word] /\ registers[0] = 0
    /\ csr \in [Csrs -> Word]
    /\ memory \in [Data -> Word]
    /\ result \in [pc : Word, trap : Traps \cup {NoTrap}, loops : BOOLEAN,
                   access : [memory : {"None", "Load", "Store"}, address : Word]]

(***************************************************************************)
(* A trap is precise: the step that takes it leaves registers and memory   *)
(* as the instructions before it left them and remembers the address to    *)
(* return to, and masks interrupts until the handler is done.              *)
(***************************************************************************)
PreciseTraps ==
    [][result'.trap # NoTrap =>
           /\ registers' = registers /\ memory' = memory
           /\ csr'["mepc"] = pc /\ csr'["mscratch"] = csr["mscratch"]
           /\ ~ Mie(csr') /\ Mpie(csr') = Mie(csr)]_vars

(***************************************************************************)
(* A CSR instruction that reads puts the value that the register had       *)
(* before the instruction wrote it into its destination: "`u32` read value *)
(* if `access_info.read` is `true`" (lib/include/core/csr.hpp:359).        *)
(***************************************************************************)
CsrReadsOldValue ==
    [][Legal /\ Current.access.read /\ Current.dest # 0 /\ result'.trap = NoTrap =>
           registers'[Current.dest] = csr[Current.access.address]]_vars
=============================================================================
