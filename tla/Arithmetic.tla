----------------------------- MODULE Arithmetic -----------------------------
(***************************************************************************)
(* The words of the machine and what ALU_module and Branch_module          *)
(* (lib/core/alu.cpp) compute of them.  A word is the number it holds; the *)
(* code's are 32 bits wide.                                                *)
(***************************************************************************)
EXTENDS Integers

CONSTANT XLEN       \* bits in a register, 32 in the code

ASSUME XLENAssumption == XLEN \in Nat /\ XLEN >= 8

(* What a power of two is: arithmetic, which proofs have to be told. *)
ASSUME DoublingAssumption == \A n \in 0 .. XLEN - 1 : 2^(n + 1) = 2 * 2^n

Word == 0 .. 2^XLEN - 1

AllOnes == 2^XLEN - 1

(* The bits of every word, and back. *)
BitsOf == [ w \in Word |-> { b \in 0 .. XLEN - 1 : (w \div 2^b) % 2 = 1 } ]

WordOf(bits) ==
    LET sum[n \in 0 .. XLEN] ==
            IF n = 0 THEN 0 ELSE sum[n - 1] + (IF n - 1 \in bits THEN 2^(n - 1) ELSE 0)
    IN  sum[XLEN]

Truncated(x) == x % 2^XLEN

Signed(x) == IF x >= 2^(XLEN - 1) THEN x - 2^XLEN ELSE x

PlusUnbounded(a, b) == a + b            \* mutant

Plus(a, b) == (a + b) % 2^XLEN

Comparisons == {"Eq", "Ne", "Lt", "Ge", "Ltu", "Geu"}

Compare(cond, x, y) ==
    CASE cond = "Eq"   -> x = y
      [] cond = "Ne"   -> x # y
      [] cond = "Lt"   -> Signed(x) < Signed(y)
      [] cond = "Ge"   -> Signed(x) >= Signed(y)
      [] cond = "Ltu"  -> x < y
      [] cond = "Geu"  -> x >= y
      [] cond = "None" -> FALSE      \* a branch with the funct3 of no comparison

-----------------------------------------------------------------------------
(* namespace native_math *)

BoolWord(holds) == IF holds THEN 1 ELSE 0

(* The shift amount is taken modulo the width. *)
Sll(x, y) == Truncated(x * 2^(y % XLEN))

Srl(x, y) == x \div 2^(y % XLEN)

SraOfUnsigned(x, y) == Srl(x, y)        \* mutant: a logical shift

Sra(x, y) ==
    Srl(x, y) + (IF Signed(x) < 0 THEN 2^XLEN - 2^(XLEN - (y % XLEN)) ELSE 0)

(* The division of C++, which rounds towards zero. *)
Quotient(a, b) ==
    LET abs(n) == IF n < 0 THEN -n ELSE n
        q == abs(a) \div abs(b)
    IN  IF (a < 0) = (b < 0) THEN q ELSE -q

DivisionOverflow(x, y) == Signed(x) = -(2^(XLEN - 1)) /\ y = AllOnes

Div(x, y) ==
    CASE y = 0 -> AllOnes
      [] DivisionOverflow(x, y) -> x
      [] y # 0 /\ ~ DivisionOverflow(x, y) -> Truncated(Quotient(Signed(x), Signed(y)))

Rem(x, y) ==
    CASE y = 0 -> x
      [] DivisionOverflow(x, y) -> 0
      [] y # 0 /\ ~ DivisionOverflow(x, y) ->
             Truncated(Signed(x) - Quotient(Signed(x), Signed(y)) * Signed(y))

Opcodes == {"Add", "Sub", "Sll", "Srl", "Sra", "Slt", "Sltu", "And", "Or", "Xor", "Mul",
            "Mulh", "Mulhsu", "Mulhu", "Div", "Rem", "Divu", "Remu", "Czero_eqz",
            "Czero_nez"}

(***************************************************************************)
(* ALU_module.  mulh and mulhsu convert their u32 operands to i64 and so   *)
(* see no negative number: both are mulhu.                                 *)
(***************************************************************************)
Calculated(opcode, x, y) ==
    CASE opcode = "Add"  -> Plus(x, y)
      [] opcode = "Sub"  -> Truncated(x - y)
      [] opcode = "Sll"  -> Sll(x, y)
      [] opcode = "Srl"  -> Srl(x, y)
      [] opcode = "Sra"  -> Sra(x, y)
      [] opcode = "Slt"  -> BoolWord(Compare("Lt", x, y))
      [] opcode = "Sltu" -> BoolWord(Compare("Ltu", x, y))
      [] opcode = "And"  -> WordOf(BitsOf[x] \cap BitsOf[y])
      [] opcode = "Or"   -> WordOf(BitsOf[x] \cup BitsOf[y])
      [] opcode = "Xor"  -> WordOf(BitsOf[x] \cup BitsOf[y])
                                - WordOf(BitsOf[x] \cap BitsOf[y])
      [] opcode = "Mul"  -> Truncated(x * y)
      [] opcode \in {"Mulh", "Mulhsu", "Mulhu"} -> (x * y) \div 2^XLEN
      [] opcode = "Div"  -> Div(x, y)
      [] opcode = "Rem"  -> Rem(x, y)
      [] opcode = "Divu" -> IF y = 0 THEN AllOnes ELSE x \div y
      [] opcode = "Remu" -> IF y = 0 THEN x ELSE x % y
      [] opcode = "Czero_eqz" -> IF y = 0 THEN 0 ELSE x
      [] opcode = "Czero_nez" -> IF y # 0 THEN 0 ELSE x

-----------------------------------------------------------------------------
(***************************************************************************)
(* What the operations mean, as equations between numbers that no          *)
(* operation is defined by: the quotient and the remainder give the        *)
(* dividend back, the halves of a product the product, a right shift is a  *)
(* division rounded down, an exclusive or is undone by itself.  mulh and   *)
(* mulhsu are held to it for operands without a sign only.                 *)
(***************************************************************************)
Exact(x, y) ==
    LET f(opcode) == Calculated(opcode, x, y)
        sx == Signed(x)
        sy == Signed(y)
        abs(n) == IF n < 0 THEN -n ELSE n
        k == y % XLEN
    IN  /\ f("Add") = (sx + sy) % 2^XLEN
        /\ f("Add") = (f("Or") + f("And")) % 2^XLEN
        /\ Calculated("Add", f("Sub"), y) = x
        /\ Calculated("Xor", f("Xor"), y) = x
        /\ f("Sll") % 2^k = 0 /\ f("Sll") \div 2^k = x % 2^(XLEN - k)
        /\ f("Srl") = x \div 2^k
        /\ Signed(f("Sra")) = sx \div 2^k
        /\ f("Slt") = BoolWord(sx - sy < 0) /\ f("Sltu") = BoolWord(x - y < 0)
        /\ f("Mulhu") * 2^XLEN + f("Mul") = x * y
        /\ (sx * sy) % 2^XLEN = f("Mul")
        /\ sx >= 0 /\ sy >= 0 => f("Mulh") = f("Mulhu") /\ f("Mulhsu") = f("Mulhu")
        /\ Calculated("Add", Calculated("Mul", f("Div"), y), f("Rem")) = x
        /\ y # 0 => /\ abs(Signed(f("Rem"))) < abs(sy)
                    /\ Signed(f("Rem")) # 0 => (Signed(f("Rem")) < 0 <=> sx < 0)
        /\ y # 0 => f("Divu") * y + f("Remu") = x /\ f("Remu") < y
        /\ f("Czero_eqz") + f("Czero_nez") = x
=============================================================================
