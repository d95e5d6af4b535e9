------------------------------ MODULE Programs ------------------------------
(***************************************************************************)
(* Small programs for the CPU, for machines of eight-bit words: an         *)
(* assembler, one trap handler and the programs that run over it.          *)
(***************************************************************************)
EXTENDS Integers, Sequences

Alu(rd, rs1, imm) ==
    [op |-> "alu", opcode |-> "Add", rd |-> rd, rs1 |-> rs1, imm |-> imm]
Op(opcode, rd, rs1, rs2) ==
    [op |-> "op", opcode |-> opcode, rd |-> rd, rs1 |-> rs1, rs2 |-> rs2]
Upper(op, rd, imm) == [op |-> op, rd |-> rd, imm |-> imm]
Branch(cond, rs1, rs2, imm) ==
    [op |-> "branch", cond |-> cond, rs1 |-> rs1, rs2 |-> rs2, imm |-> imm % 256]
Jal(rd, imm) == [op |-> "jal", rd |-> rd, imm |-> imm % 256]
Jalr(rd, rs1) == [op |-> "jalr", rd |-> rd, rs1 |-> rs1, imm |-> 0]
Load(rd, rs1, imm) == [op |-> "load", rd |-> rd, rs1 |-> rs1, imm |-> imm]
Store(rs2, rs1, imm) == [op |-> "store", rs1 |-> rs1, rs2 |-> rs2, imm |-> imm]
Csr(mode, rd, name, rs1) ==
    [op |-> "csr", mode |-> mode, rd |-> rd, csr |-> name, rs1 |-> rs1,
     immediate |-> FALSE]
CsrI(mode, rd, name, uimm) ==
    [Csr(mode, rd, name, uimm) EXCEPT !.immediate = TRUE]
Other(op) == [op |-> op]

(***************************************************************************)
(* The handler: an exception is stepped over, the timer acknowledged.  Its *)
(* eighth word, at Base + 4 * 7, is the entry of vectored timer interrupts.*)
(***************************************************************************)
Base == 128

HandlerCode == <<
    Csr("Overwrite", 1, "mscratch", 1), Csr("Set", 1, "mcause", 0),
    Branch("Lt", 1, 0, 24),
    Csr("Set", 1, "mepc", 0), Alu(1, 1, 4), Csr("Overwrite", 0, "mepc", 1), Jal(0, 16),
    Csr("Overwrite", 1, "mscratch", 1),
    Alu(1, 0, 128), Csr("Clear", 0, "mip", 1),
    Csr("Overwrite", 1, "mscratch", 1), Other("mret") >>

(* The trap mode comes from uninitialised RAM; then interrupts are enabled. *)
Setup == <<
    Load(1, 0, 0), Alu(1, 1, Base), Csr("Overwrite", 0, "mtvec", 1),
    Alu(1, 0, 128), Csr("Set", 0, "mie", 1), CsrI("Set", 0, "mstatus", 8) >>

(***************************************************************************)
(* What follows the setup.  The first program has a store, a load, an      *)
(* environment call, a call, one instruction of each kind that faults, a   *)
(* critical section, and an instruction whose ALU result is its own        *)
(* address; it goes round twice and ends in `j .`.  The second saves       *)
(* mstatus around its critical section, for ever.                          *)
(***************************************************************************)
Busy == <<
    Alu(1, 1, 64), Store(1, 0, 4), Load(2, 0, 4), Other("ecall"),
    Jal(2, 8), Jal(0, 8), Jalr(0, 2),
    Store(1, 0, 2), Load(2, 0, 6), Load(1, 0, 12), Store(2, 0, 16),
    Other("illegal"),
    Csr("Overwrite", 0, "mhartid", 1), Csr("Set", 0, "unimplemented", 0),
    CsrI("Clear", 0, "mstatus", 8), Store(2, 0, 0),
    CsrI("Set", 0, "mstatus", 8),
    Branch("Eq", 1, 0, 8), Other("hole"),
    Alu(2, 0, 100),
    Branch("Ne", 1, 0, -80), Jal(0, 0) >>

SaveAndRestore == <<
    CsrI("Clear", 2, "mstatus", 8), Store(2, 0, 0), Csr("Set", 0, "mstatus", 2),
    Jal(0, -12) >>

(* The memory that holds a main program at 0 and the handler at Base. *)
Addresses(first, code) == { first + 4 * (k - 1) : k \in 1 .. Len(code) }

HandlerAddresses == Addresses(Base, HandlerCode)

WordAt(main, a) ==
    IF a >= Base THEN HandlerCode[(a - Base) \div 4 + 1] ELSE main[a \div 4 + 1]

Mapped(main) ==
    { a \in Addresses(0, main) \cup HandlerAddresses : WordAt(main, a).op # "hole" }

BusyMain == Setup \o Busy
BusyAddresses == Mapped(BusyMain)
BusyImage == [a \in BusyAddresses |-> WordAt(BusyMain, a)]

SaveAndRestoreMain == Setup \o SaveAndRestore
SaveAndRestoreAddresses == Mapped(SaveAndRestoreMain)
SaveAndRestoreImage == [a \in SaveAndRestoreAddresses |-> WordAt(SaveAndRestoreMain, a)]
=============================================================================
