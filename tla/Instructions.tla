---------------------------- MODULE Instructions ----------------------------
(***************************************************************************)
(* What the decoder makes of an instruction (lib/core/decode.cpp), and the *)
(* units it feeds, down to what the control flow of the CPU depends on:    *)
(* which units an instruction uses, with which operands, and where its     *)
(* result goes.  The accesses are of whole words.                          *)
(***************************************************************************)
EXTENDS Arithmetic

CONSTANTS
    Register,       \* register numbers in use, 0 among them
    Data            \* the addresses of mapped, writable words

ASSUME RegisterAssumption == 0 \in Register /\ Register \subseteq 0 .. 31

ASSUME DataAssumption == Data \subseteq { a \in Word : a % 4 = 0 }

(* What a word of the program is an instruction of, with its operands. *)
Instruction ==
    [op : {"lui", "auipc", "jal"}, rd : Register, imm : Word]
    \cup [op : {"alu"}, opcode : Opcodes, rd : Register, rs1 : Register, imm : Word]
    \cup [op : {"op"}, opcode : Opcodes, rd : Register, rs1 : Register, rs2 : Register]
    \cup [op : {"branch"}, cond : Comparisons \cup {"None"}, rs1 : Register, rs2 : Register,
          imm : Word]
    \cup [op : {"jalr", "load"}, rd : Register, rs1 : Register, imm : Word]
    \cup [op : {"store"}, rs1 : Register, rs2 : Register, imm : Word]
    \cup [op : {"csr"}, mode : {"Overwrite", "Set", "Clear"}, rd : Register, csr : STRING,
          rs1 : Register, immediate : {FALSE}]
    \cup [op : {"csr"}, mode : {"Overwrite", "Set", "Clear"}, rd : Register, csr : STRING,
          rs1 : 0 .. 31, immediate : {TRUE}]
    \cup [op : {"ecall", "mret", "illegal"}]

(***************************************************************************)
(* Inst_decode_module::Result: the operands are read from the registers    *)
(* while decoding.                                                         *)
(***************************************************************************)
NoAccess == [mode |-> "None", address |-> "", value |-> 0, read |-> FALSE]

Plain == [writeback |-> "None", dest |-> 0, alu |-> 0, branch |-> FALSE,
          memory |-> "None", store |-> 0, ecall |-> FALSE, mret |-> FALSE,
          access |-> NoAccess]

(* lui and auipc, register-immediate and register-register arithmetic. *)
DecodeUpper(i, base) ==
    [Plain EXCEPT !.writeback = "Alu", !.dest = i.rd, !.alu = Plus(base, i.imm)]

DecodeRegisterImm(i, reg) ==
    [Plain EXCEPT !.writeback = "Alu", !.dest = i.rd,
                  !.alu = Calculated(i.opcode, reg[i.rs1], i.imm)]

DecodeRegisterRegister(i, reg) ==
    [Plain EXCEPT !.writeback = "Alu", !.dest = i.rd,
                  !.alu = Calculated(i.opcode, reg[i.rs1], reg[i.rs2])]

DecodeBranch(i, reg, pc) ==
    [Plain EXCEPT !.alu = Plus(pc, i.imm),
                  !.branch = Compare(i.cond, reg[i.rs1], reg[i.rs2])]

DecodeJal(i, pc) ==
    [Plain EXCEPT !.writeback = "Pc_plus_4", !.dest = i.rd,
                  !.alu = Plus(pc, i.imm), !.branch = TRUE]

DecodeJalr(i, reg) ==
    [Plain EXCEPT !.writeback = "Pc_plus_4", !.dest = i.rd,
                  !.alu = Plus(reg[i.rs1], i.imm), !.branch = TRUE]

DecodeLoad(i, reg) ==
    [Plain EXCEPT !.writeback = "Memory", !.dest = i.rd,
                  !.alu = Plus(reg[i.rs1], i.imm), !.memory = "Load"]

DecodeStore(i, reg) ==
    [Plain EXCEPT !.alu = Plus(reg[i.rs1], i.imm),
                  !.memory = "Store", !.store = reg[i.rs2]]

(***************************************************************************)
(* decode_system.  An operand field of 0 means no write, for csrrw too,    *)
(* and the immediate forms sign-extend their five bits.                    *)
(***************************************************************************)
CsrOperand(i, reg) ==
    IF ~ i.immediate THEN reg[i.rs1]
    ELSE IF i.rs1 >= 16 THEN i.rs1 + 2^XLEN - 32 ELSE i.rs1

DecodeCsr(i, reg) ==
    [Plain EXCEPT
        !.writeback = "Csr", !.dest = i.rd,
        !.access = [mode |-> IF i.rs1 # 0 THEN i.mode ELSE "None",
                    address |-> i.csr,
                    value |-> CsrOperand(i, reg),
                    read |-> i.mode # "Overwrite" \/ i.rd # 0]]

(***************************************************************************)
(* Of loads and stores there is the word only; an access whose funct3 has  *)
(* no operation is left out.                                               *)
(***************************************************************************)
Decoded(i, reg, pc) ==
    CASE i.op = "lui"    -> DecodeUpper(i, 0)
      [] i.op = "auipc"  -> DecodeUpper(i, pc)
      [] i.op = "alu"    -> DecodeRegisterImm(i, reg)
      [] i.op = "op"     -> DecodeRegisterRegister(i, reg)
      [] i.op = "branch" -> DecodeBranch(i, reg, pc)
      [] i.op = "jal"    -> DecodeJal(i, pc)
      [] i.op = "jalr"   -> DecodeJalr(i, reg)
      [] i.op = "load"   -> DecodeLoad(i, reg)
      [] i.op = "store"  -> DecodeStore(i, reg)
      [] i.op = "csr"    -> DecodeCsr(i, reg)
      [] i.op = "ecall"  -> [Plain EXCEPT !.ecall = TRUE]
      [] i.op = "mret"   -> [Plain EXCEPT !.mret = TRUE]

(***************************************************************************)
(* Load_store_module: an access to a misaligned or an unmapped address has *)
(* no effect but its trap.                                                 *)
(***************************************************************************)
AccessFails(d) == d.memory # "None" /\ d.alu \notin Data

Stored(d, mem) == IF d.memory = "Store" THEN [mem EXCEPT ![d.alu] = d.store] ELSE mem

LoadedValue(d, mem) == IF d.memory = "Load" THEN mem[d.alu] ELSE 0

(***************************************************************************)
(* Write-back: register 0 keeps its zero.                                  *)
(***************************************************************************)
WrittenBack(d, pc, reg, loaded, csr_value) ==
    IF d.dest = 0 \/ d.writeback = "None" THEN reg
    ELSE [reg EXCEPT ![d.dest] =
              CASE d.writeback = "Pc_plus_4" -> Plus(pc, 4)
                [] d.writeback = "Alu"       -> d.alu
                [] d.writeback = "Memory"    -> loaded
                [] d.writeback = "Csr"       -> csr_value]

NextPc(d, pc) == IF d.branch THEN d.alu ELSE Plus(pc, 4)
=============================================================================
