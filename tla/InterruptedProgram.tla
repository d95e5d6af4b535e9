------------------------- MODULE InterruptedProgram -------------------------
(***************************************************************************)
(* A program on the CPU with a trap handler in the usual form: swap a      *)
(* register with mscratch, look at mcause, step mepc over an exception or  *)
(* acknowledge the timer, swap back, mret.  Under this handler traps must  *)
(* be invisible to the program.                                            *)
(***************************************************************************)
EXTENDS Emulator, Programs

Handler == HandlerAddresses

(* Where a register of the program is in mscratch, and which one. *)
Saved == Handler \ {Base, Base + 28, Base + 44}
Scratch == 1

FairSpec == EmulatorSpec /\ WF_<< vars, options, running >>(Run)

-----------------------------------------------------------------------------
(* Properties *)

(***************************************************************************)
(* The handler runs with interrupts masked from its first to its last      *)
(* instruction, so that nothing overwrites mepc and mscratch under it.     *)
(***************************************************************************)
HandlerMasked == pc \in Handler => ~ Mie(csr)

(***************************************************************************)
(* The program cannot tell when a timer interrupt was taken, or that a     *)
(* fault went through the handler: its registers, its memory and its       *)
(* program counter go through the steps of UserProgram, whatever the cycle *)
(* in which the clock raises its line.                                     *)
(***************************************************************************)
User == INSTANCE UserProgram WITH
            pc <- IF pc \in Handler THEN csr["mepc"] ELSE pc,
            registers <- IF pc \in Saved
                         THEN [registers EXCEPT ![Scratch] = csr["mscratch"]]
                         ELSE registers

TrapsAreTransparent == User!Spec

(***************************************************************************)
(* What that takes.  The handler is in the executable memory, and no other *)
(* instruction is an mret or keeps what it reads of a CSR; those of CSRs   *)
(* that do not exist, or that cannot be written, always fail.              *)
(***************************************************************************)
HandlerInPlace ==
    /\ ResetAddress \notin Handler
    /\ \A k \in DOMAIN HandlerCode :
           /\ Base + 4 * (k - 1) \in DOMAIN Image
           /\ Image[Base + 4 * (k - 1)] = HandlerCode[k]

LeavesTrapsAlone(i) ==
    /\ i.op # "mret"
    /\ i.op = "csr" =>
           /\ i.rd = 0
           /\ \/ i.csr \in Writable
              \/ i.csr = "mhartid" /\ i.mode = "Overwrite" /\ i.rs1 # 0
              \/ i.csr = "unimplemented" /\ i.mode # "Overwrite"

MainProgram == \A a \in DOMAIN Image \ Handler : LeavesTrapsAlone(Image[a])

(***************************************************************************)
(* The program enters the handler by traps only, and none is taken before  *)
(* mtvec leads there: the setup enables interrupts last, and does nothing  *)
(* that faults (lib/core/cpu.cpp:41-52, 163-173).                          *)
(***************************************************************************)
EntersByTraps ==
    pc \notin Handler =>
        /\ User!Faults \/ InterruptEnabled => csr["mtvec"] \in {Base, Base + 1}
        /\ (IF User!Faults THEN Plus(pc, 4) ELSE NextPc(Current, pc)) \notin Handler

KeepsTheContract == HandlerInPlace /\ MainProgram /\ EntersByTraps

(***************************************************************************)
(* A program that writes neither of the registers a trap is told by: what  *)
(* NoHandlerBegan needs of it besides, whatever the handler writes.        *)
(***************************************************************************)
LeavesTrapRegisters(i) == i.op = "csr" /\ i.rs1 # 0 => i.csr \notin {"mcause", "mepc"}

MainLeavesTrapRegisters == \A a \in DOMAIN Image \ Handler : LeavesTrapRegisters(Image[a])

(***************************************************************************)
(* A timer interrupt that is pending outside the handler is taken in the   *)
(* end, unless run() returns before: neither an environment call or a      *)
(* fault, which go first, nor a critical section that runs with interrupts *)
(* masked keeps it out for ever.                                           *)
(***************************************************************************)
TimerIsServed ==
    Has(csr, "mip", 7) /\ pc \notin Handler
        ~> result.trap = MachineTimerInterrupt \/ ~ running
=============================================================================
