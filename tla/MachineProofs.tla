--------------------------- MODULE MachineProofs ----------------------------
(***************************************************************************)
(* The operations of the ALU and the branch unit are the operations on     *)
(* numbers, for every register width of at least eight bits: what TLC      *)
(* finds by evaluation is derived here from powers of two that double,     *)
(* from the bits of a word, which determine it, and from the bounds of     *)
(* products and quotients.  With them the machine keeps its types and      *)
(* traps precisely, and the run loop of the emulator ends for a reason,    *)
(* for every program, every such width and every moment at which the clock *)
(* raises its interrupt.                                                   *)
(***************************************************************************)
EXTENDS InterruptedProgram, Induction, TLAPS

-----------------------------------------------------------------------------
(* Powers of two *)

LEMMA Powers ==
    /\ \A n \in 0 .. XLEN : 2^n \in Nat \ {0}
    /\ 2^0 = 1
    /\ \A n \in 1 .. XLEN : 2^n = 2 * 2^(n - 1)
<1>0. XLEN \in Nat
  BY XLENAssumption
<1>1. 2^0 = 1
  OBVIOUS
<1> DEFINE S == {n \in Nat : n <= XLEN => 2^n \in Nat \ {0}}
<1>2. 0 \in S
  BY <1>1
<1>3. ASSUME NEW n \in Nat, n \in S PROVE n + 1 \in S
  <2>1. SUFFICES ASSUME n + 1 <= XLEN PROVE 2^(n + 1) \in Nat \ {0}
    OBVIOUS
  <2>2. n <= XLEN /\ n \in 0 .. XLEN - 1
    BY <1>0, <2>1
  <2>3. 2^n \in Nat \ {0}
    BY <1>3, <2>2
  <2>4. 2^(n + 1) = 2 * 2^n
    BY <2>2, DoublingAssumption
  <2> QED BY <2>3, <2>4
<1>4. Nat \subseteq S
  <2> HIDE DEF S
  <2> QED BY <1>2, <1>3, SetInduction
<1>5. \A n \in 1 .. XLEN : 2^n = 2 * 2^(n - 1)
  <2>1. SUFFICES ASSUME NEW n \in 1 .. XLEN PROVE 2^n = 2 * 2^(n - 1)
    OBVIOUS
  <2>2. n - 1 \in 0 .. XLEN - 1 /\ (n - 1) + 1 = n
    BY <1>0
  <2> QED BY <2>2, DoublingAssumption
<1> QED BY <1>0, <1>1, <1>4, <1>5

LEMMA PowerProduct ==
    \A n \in 0 .. XLEN : \A k \in 0 .. n : 2^k * 2^(n - k) = 2^n
<1>0. XLEN \in Nat
  BY XLENAssumption
<1> DEFINE S == {k \in Nat : \A n \in 0 .. XLEN : k <= n => 2^k * 2^(n - k) = 2^n}
<1>1. 0 \in S
  <2>1. ASSUME NEW n \in 0 .. XLEN PROVE 2^0 * 2^(n - 0) = 2^n
    <3>1. n - 0 = n /\ 2^n \in Int
      BY Powers
    <3> QED BY <3>1, Powers
  <2> QED BY <2>1
<1>2. ASSUME NEW k \in Nat, k \in S PROVE k + 1 \in S
  <2>1. SUFFICES ASSUME NEW n \in 0 .. XLEN, k + 1 <= n
                 PROVE  2^(k + 1) * 2^(n - (k + 1)) = 2^n
    OBVIOUS
  <2>2. k <= n /\ k \in 0 .. XLEN - 1 /\ n - k \in 1 .. XLEN /\ n - (k + 1) = (n - k) - 1
        /\ n - (k + 1) \in 0 .. XLEN
    BY <1>0, <2>1
  <2>3. 2^k * 2^(n - k) = 2^n
    BY <1>2, <2>2
  <2>4. 2^(k + 1) = 2 * 2^k /\ 2^k \in Nat
    BY <1>0, <2>2, DoublingAssumption, Powers
  <2>5. 2^(n - k) = 2 * 2^(n - (k + 1)) /\ 2^(n - (k + 1)) \in Nat
    BY <2>2, Powers
  <2> DEFINE a == 2^k
             b == 2^(n - (k + 1))
  <2>6. a \in Nat /\ b \in Nat
    BY <2>4, <2>5
  <2>7. (2 * a) * b = a * (2 * b)
    <3> HIDE DEF a, b
    <3> QED BY <2>6
  <2> QED BY <2>3, <2>4, <2>5, <2>7
<1>3. Nat \subseteq S
  <2> HIDE DEF S
  <2> QED BY <1>1, <1>2, SetInduction
<1>4. SUFFICES ASSUME NEW n \in 0 .. XLEN, NEW k \in 0 .. n PROVE 2^k * 2^(n - k) = 2^n
  OBVIOUS
<1>5. k \in Nat /\ k <= n
  BY <1>0
<1>6. k \in S
  BY <1>3, <1>5
<1> QED BY <1>5, <1>6

LEMMA PowerGrows ==
    \A n \in 0 .. XLEN : \A k \in 0 .. n : 2^k <= 2^n
<1>0. XLEN \in Nat
  BY XLENAssumption
<1>1. SUFFICES ASSUME NEW n \in 0 .. XLEN, NEW k \in 0 .. n PROVE 2^k <= 2^n
  OBVIOUS
<1>2. k \in 0 .. XLEN /\ n - k \in 0 .. XLEN
  BY <1>0
<1> DEFINE a == 2^k
           b == 2^(n - k)
<1>3. a \in Nat /\ b \in Nat \ {0} /\ 2^n = a * b
  BY <1>2, Powers, PowerProduct
<1>4. a <= a * b
  <2> HIDE DEF a, b
  <2> QED BY <1>3
<1> QED BY <1>3, <1>4

LEMMA WordSize ==
    /\ 2^XLEN \in Nat /\ 2^XLEN >= 256
    /\ 2^(XLEN - 1) \in Nat /\ 2^XLEN = 2 * 2^(XLEN - 1)
    /\ 0 \in Word /\ 8 \in Word /\ 128 \in Word /\ AllOnes \in Word
<1>0. XLEN \in Nat /\ XLEN >= 8
  BY XLENAssumption
<1>1. 8 \in 0 .. XLEN /\ XLEN \in 0 .. XLEN /\ XLEN \in 1 .. XLEN /\ XLEN - 1 \in 0 .. XLEN
  BY <1>0
<1>2. 2^8 <= 2^XLEN
  BY <1>1, PowerGrows
<1>3. 2^8 = 256
  OBVIOUS
<1>4. 2^XLEN \in Nat /\ 2^(XLEN - 1) \in Nat /\ 2^XLEN = 2 * 2^(XLEN - 1)
  BY <1>1, Powers
<1>5. 2^XLEN >= 256
  BY <1>2, <1>3, <1>4
<1> HIDE DEF Word
<1> QED BY <1>4, <1>5 DEF Word, AllOnes

(* Division *)

LEMMA Division ==
    ASSUME NEW a \in Int, NEW p \in Nat \ {0}
    PROVE  /\ a \div p \in Int /\ a % p \in 0 .. p - 1
           /\ a = p * (a \div p) + (a % p)
           /\ a >= 0 => a \div p \in 0 .. a
<1>1. /\ a \div p \in Int /\ a % p \in 0 .. p - 1
      /\ a = p * (a \div p) + (a % p)
  OBVIOUS
<1> DEFINE q == a \div p
           r == a % p
<1>2. ASSUME a >= 0 PROVE q \in 0 .. a
  <2>1. q \in Int /\ r \in 0 .. p - 1 /\ a = p * q + r
    BY <1>1
  <2> HIDE DEF q, r
  <2>2. q >= 0
    <3>1. SUFFICES ASSUME q <= -1 PROVE FALSE
      BY <2>1
    <3>2. p * q <= p * (-1)
      BY <2>1, <3>1
    <3> QED BY <1>2, <2>1, <3>2
  <2>3. p * q >= q
    BY <2>1, <2>2
  <2> QED BY <2>1, <2>2, <2>3
<1> QED BY <1>1, <1>2

LEMMA DivisionUnique ==
    ASSUME NEW p \in Nat \ {0}, NEW q \in Int, NEW r \in 0 .. p - 1
    PROVE  (p * q + r) \div p = q /\ (p * q + r) % p = r
<1> DEFINE a == p * q + r
           s == a \div p
           t == a % p
<1>1. a \in Int
  OBVIOUS
<1>2. s \in Int /\ t \in 0 .. p - 1 /\ p * q + r = p * s + t
  BY <1>1, Division
<1> HIDE DEF a, s, t
<1>3. ~ s > q
  <2>1. SUFFICES ASSUME s >= q + 1 PROVE FALSE
    BY <1>2
  <2>2. p * s >= p * (q + 1)
    BY <1>2, <2>1
  <2>3. p * (q + 1) = p * q + p
    OBVIOUS
  <2> QED BY <1>2, <2>2, <2>3
<1>4. ~ q > s
  <2>1. SUFFICES ASSUME q >= s + 1 PROVE FALSE
    BY <1>2
  <2>2. p * q >= p * (s + 1)
    BY <1>2, <2>1
  <2>3. p * (s + 1) = p * s + p
    BY <1>2
  <2> QED BY <1>2, <2>2, <2>3
<1>5. s = q
  BY <1>2, <1>3, <1>4
<1>6. t = r
  BY <1>2, <1>5
<1> QED BY <1>5, <1>6 DEF s, t, a

(* Numbers that differ by a multiple have the same remainder. *)
LEMMA Congruent ==
    ASSUME NEW a \in Int, NEW p \in Nat \ {0}, NEW k \in Int
    PROVE  (a + p * k) % p = a % p
<1> DEFINE q == a \div p
           r == a % p
<1>1. q \in Int /\ r \in 0 .. p - 1 /\ a = p * q + r
  BY Division
<1> HIDE DEF q, r
<1>2. a + p * k = p * (q + k) + r
  BY <1>1
<1>3. q + k \in Int
  BY <1>1
<1>4. (p * (q + k) + r) % p = r
  BY <1>1, <1>3, DivisionUnique
<1> QED BY <1>2, <1>4 DEF r

-----------------------------------------------------------------------------
(* Words and their bits *)

Weight(b, bits) == IF b \in bits THEN 2^b ELSE 0

(* What the sum of WordOf is after n bits. *)
IsSum(f, bits) ==
    /\ f \in [0 .. XLEN -> Nat]
    /\ f[0] = 0
    /\ \A n \in 1 .. XLEN : f[n] = f[n - 1] + Weight(n - 1, bits)

LEMMA WeightType ==
    ASSUME NEW bits, NEW b \in 0 .. XLEN
    PROVE  Weight(b, bits) \in Nat
  BY Powers DEF Weight

LEMMA WordOfUnfolds ==
    ASSUME NEW bits
    PROVE  \E f : IsSum(f, bits) /\ WordOf(bits) = f[XLEN]
<1> DEFINE Extend(n, s) == s + Weight(n - 1, bits)
           G == [p \in (1 .. XLEN) \X Nat |-> Extend(p[1], p[2])]
           Unfold(f) == [n \in 0 .. XLEN |->
               IF n = 0 THEN 0 ELSE f[n - 1] + (IF n - 1 \in bits THEN 2^(n - 1) ELSE 0)]
           sum == CHOOSE f : f = Unfold(f)
<1>0. XLEN \in Nat
  BY XLENAssumption
<1>1. ASSUME NEW n \in 1 .. XLEN, NEW s \in Nat PROVE Extend(n, s) \in Nat
  <2>1. n - 1 \in 0 .. XLEN
    BY <1>0
  <2>2. Weight(n - 1, bits) \in Nat
    BY <2>1, WeightType
  <2> QED BY <2>2
<1>2. G \in StepFunctions(XLEN, Nat)
  <2> HIDE DEF Extend
  <2> QED BY <1>1 DEF StepFunctions
<1>3. PICK f : IsRecursion(f, XLEN, Nat, 0, G)
  <2> HIDE DEF G
  <2> QED BY <1>0, <1>2, RecursionExists
<1>4. IsSum(f, bits)
  <2>1. /\ f \in [0 .. XLEN -> Nat] /\ f[0] = 0
        /\ \A n \in 1 .. XLEN : f[n] = G[<< n, f[n - 1] >>]
    <3> HIDE DEF G
    <3> QED BY <1>3 DEF IsRecursion
  <2>2. ASSUME NEW n \in 1 .. XLEN PROVE f[n] = f[n - 1] + Weight(n - 1, bits)
    <3>1. f[n - 1] \in Nat
      <4> HIDE DEF G, Extend, Unfold, sum
      <4>1. n - 1 \in 0 .. XLEN
        BY <1>0
      <4> QED BY <2>1, <4>1
    <3>2. G[<< n, f[n - 1] >>] = Extend(n, f[n - 1])
      <4> HIDE DEF Extend
      <4> QED BY <3>1
    <3> QED BY <2>1, <3>2
  <2> QED BY <2>1, <2>2 DEF IsSum
<1>5. ASSUME NEW g, IsSum(g, bits) PROVE g = Unfold(g)
  <2>1. g = [n \in 0 .. XLEN |-> g[n]]
    BY <1>5 DEF IsSum
  <2>2. ASSUME NEW n \in 0 .. XLEN
        PROVE  g[n] = IF n = 0 THEN 0
                      ELSE g[n - 1] + (IF n - 1 \in bits THEN 2^(n - 1) ELSE 0)
    <3>1. CASE n = 0
      BY <1>5, <3>1 DEF IsSum
    <3>2. CASE n # 0
      <4>1. n \in 1 .. XLEN
        BY <1>0, <3>2
      <4> QED BY <1>5, <3>2, <4>1 DEF IsSum, Weight
    <3> QED BY <3>1, <3>2
  <2> QED BY <2>1, <2>2
<1>6. sum = Unfold(sum)
  <2>1. \E g : g = Unfold(g)
    BY <1>4, <1>5
  <2> HIDE DEF Unfold
  <2> QED BY <2>1
<1>7. sum = f
  <2> DEFINE S == {n \in Nat : n <= XLEN => sum[n] = f[n]}
  <2>1. \A n \in 0 .. XLEN :
            sum[n] = IF n = 0 THEN 0
                     ELSE sum[n - 1] + (IF n - 1 \in bits THEN 2^(n - 1) ELSE 0)
    <3> HIDE DEF sum
    <3> QED BY <1>6
  <2> HIDE DEF sum
  <2>2. 0 \in S
    BY <1>0, <1>4, <2>1 DEF IsSum
  <2>3. ASSUME NEW n \in Nat, n \in S PROVE n + 1 \in S
    <3>1. SUFFICES ASSUME n + 1 <= XLEN PROVE sum[n + 1] = f[n + 1]
      OBVIOUS
    <3>2. n + 1 \in 1 .. XLEN /\ n + 1 \in 0 .. XLEN /\ (n + 1) - 1 = n /\ n <= XLEN
      BY <1>0, <3>1
    <3>3. f[n + 1] = f[n] + Weight(n, bits)
      BY <1>4, <3>2 DEF IsSum
    <3>4. sum[n + 1] = sum[n] + Weight(n, bits)
      BY <2>1, <3>2 DEF Weight
    <3>5. sum[n] = f[n]
      BY <2>3, <3>2
    <3> QED BY <3>3, <3>4, <3>5
  <2>4. Nat \subseteq S
    <3> HIDE DEF S
    <3> QED BY <2>2, <2>3, SetInduction
  <2>5. \A n \in 0 .. XLEN : sum[n] = f[n]
    BY <1>0, <2>4
  <2>6. sum = [n \in 0 .. XLEN |-> sum[n]]
    BY <1>6
  <2>7. f = [n \in 0 .. XLEN |-> f[n]]
    BY <1>4 DEF IsSum
  <2> QED BY <2>5, <2>6, <2>7
<1>8. WordOf(bits) = sum[XLEN]
  BY DEF WordOf
<1> HIDE DEF sum
<1> QED BY <1>4, <1>7, <1>8

LEMMA SumBound ==
    ASSUME NEW bits, NEW f, IsSum(f, bits), NEW n \in 0 .. XLEN
    PROVE  f[n] \in Nat /\ f[n] < 2^n
<1>0. XLEN \in Nat
  BY XLENAssumption
<1> DEFINE S == {k \in Nat : k <= XLEN => f[k] < 2^k}
<1>1. 0 \in S
  BY Powers DEF IsSum
<1>2. ASSUME NEW k \in Nat, k \in S PROVE k + 1 \in S
  <2>1. SUFFICES ASSUME k + 1 <= XLEN PROVE f[k + 1] < 2^(k + 1)
    OBVIOUS
  <2>2. k + 1 \in 1 .. XLEN /\ k \in 0 .. XLEN /\ (k + 1) - 1 = k /\ k <= XLEN
    BY <1>0, <2>1
  <2>3. f[k + 1] = f[k] + Weight(k, bits) /\ f[k] \in Nat
    BY <2>2 DEF IsSum
  <2>4. 2^(k + 1) = 2 * 2^k /\ 2^k \in Nat
    BY <2>2, Powers
  <2>5. f[k] < 2^k
    BY <1>2, <2>2
  <2>6. Weight(k, bits) \in Nat /\ Weight(k, bits) <= 2^k
    BY <2>4 DEF Weight
  <2> QED BY <2>3, <2>4, <2>5, <2>6
<1>3. Nat \subseteq S
  <2> HIDE DEF S
  <2> QED BY <1>1, <1>2, SetInduction
<1>4. n \in S /\ n <= XLEN
  BY <1>0, <1>3
<1> QED BY <1>4 DEF IsSum

(* A set of bits makes a word. *)
LEMMA WordOfType ==
    ASSUME NEW bits
    PROVE  WordOf(bits) \in Word
<1>1. PICK f : IsSum(f, bits) /\ WordOf(bits) = f[XLEN]
  BY WordOfUnfolds
<1>2. XLEN \in 0 .. XLEN
  BY XLENAssumption
<1>3. f[XLEN] \in Nat /\ f[XLEN] < 2^XLEN
  BY <1>1, <1>2, SumBound
<1> QED BY <1>1, <1>3, WordSize DEF Word

LEMMA SumAbove ==
    ASSUME NEW bits, NEW f, IsSum(f, bits), NEW b \in 0 .. XLEN - 1
    PROVE  \E m \in Nat : f[XLEN] = f[b] + Weight(b, bits) + (2 * 2^b) * m
<1>0. XLEN \in Nat /\ b \in Nat /\ b + 1 <= XLEN /\ b \in 0 .. XLEN
  BY XLENAssumption
<1> DEFINE p == 2^b
           w == f[b] + Weight(b, bits)
           Form(n) == \E m \in Nat : f[n] = w + (2 * p) * m
           S == {k \in Nat : b + 1 + k <= XLEN => Form(b + 1 + k)}
<1>1. p \in Nat /\ f[b] \in Nat /\ Weight(b, bits) \in Nat
  BY <1>0, Powers, WeightType DEF IsSum
<1>2. w \in Nat
  BY <1>1
<1>3. 0 \in S
  <2>1. b + 1 + 0 \in 1 .. XLEN /\ (b + 1 + 0) - 1 = b
    BY <1>0
  <2>2. f[b + 1 + 0] = f[b] + Weight(b, bits)
    BY <2>1 DEF IsSum
  <2>3. f[b + 1 + 0] = w + (2 * p) * 0
    <3> HIDE DEF p
    <3> QED BY <1>1, <2>2
  <2> HIDE DEF p, w
  <2> QED BY <2>3
<1>4. ASSUME NEW k \in Nat, k \in S PROVE k + 1 \in S
  <2>1. SUFFICES ASSUME b + 1 + (k + 1) <= XLEN PROVE Form(b + 1 + (k + 1))
    OBVIOUS
  <2> DEFINE n == b + 1 + k
  <2>2. /\ n \in 0 .. XLEN /\ n + 1 \in 1 .. XLEN /\ n <= XLEN /\ (n + 1) - 1 = n
        /\ b + 1 + (k + 1) = n + 1
    BY <1>0, <2>1
  <2>3. PICK m \in Nat : f[n] = w + (2 * p) * m
    BY <1>4, <2>2
  <2>4. f[n + 1] = f[n] + Weight(n, bits)
    BY <2>2 DEF IsSum
  <2>5. PICK l \in Nat : Weight(n, bits) = (2 * p) * l
    <3>1. CASE n \in bits
      <4>1. b + 1 \in 0 .. n /\ n - (b + 1) = k /\ k \in 0 .. XLEN /\ b + 1 \in 1 .. XLEN
            /\ (b + 1) - 1 = b
        BY <1>0, <2>1
      <4>2. 2^(b + 1) * 2^k = 2^n /\ 2^k \in Nat
        BY <2>2, <4>1, PowerProduct, Powers
      <4>3. 2^(b + 1) = 2 * p
        BY <4>1, Powers
      <4> HIDE DEF p, n
      <4> QED BY <3>1, <4>2, <4>3 DEF Weight
    <3>2. CASE n \notin bits
      <4>1. Weight(n, bits) = 0
        BY <3>2 DEF Weight
      <4>2. (2 * p) * 0 = 0
        <5> HIDE DEF p
        <5> QED BY <1>1
      <4> HIDE DEF p, n
      <4> QED BY <4>1, <4>2
    <3> QED BY <3>1, <3>2
  <2>6. f[n + 1] = w + (2 * p) * (m + l)
    <3> HIDE DEF p, w, n
    <3> QED BY <1>1, <1>2, <2>3, <2>4, <2>5
  <2>7. m + l \in Nat
    OBVIOUS
  <2> HIDE DEF p, w, n
  <2> QED BY <2>2, <2>6, <2>7
<1>5. Nat \subseteq S
  <2> HIDE DEF S
  <2> QED BY <1>3, <1>4, SetInduction
<1> DEFINE k == XLEN - (b + 1)
<1>6. k \in Nat /\ b + 1 + k = XLEN /\ b + 1 + k <= XLEN
  BY <1>0
<1>7. Form(b + 1 + k)
  <2> HIDE DEF k, Form
  <2> QED BY <1>5, <1>6
<1>8. Form(XLEN)
  <2> HIDE DEF k, Form
  <2> QED BY <1>6, <1>7
<1> QED BY <1>8

(* The bits of the word that a set of bits makes are these bits. *)
LEMMA BitsOfWordOf ==
    ASSUME NEW bits
    PROVE  BitsOf[WordOf(bits)] = bits \cap (0 .. XLEN - 1)
<1>0. XLEN \in Nat
  BY XLENAssumption
<1>1. PICK f : IsSum(f, bits) /\ WordOf(bits) = f[XLEN]
  BY WordOfUnfolds
<1>2. BitsOf[WordOf(bits)] = { b \in 0 .. XLEN - 1 : (WordOf(bits) \div 2^b) % 2 = 1 }
  BY WordOfType DEF BitsOf
<1>3. ASSUME NEW b \in 0 .. XLEN - 1
      PROVE  (f[XLEN] \div 2^b) % 2 = 1 <=> b \in bits
  <2>1. b \in 0 .. XLEN
    BY <1>0
  <2> DEFINE p == 2^b
             t == IF b \in bits THEN 1 ELSE 0
  <2>2. p \in Nat \ {0} /\ f[b] \in Nat /\ f[b] < p
    BY <1>1, <2>1, Powers, SumBound
  <2>3. PICK m \in Nat : f[XLEN] = f[b] + Weight(b, bits) + (2 * p) * m
    BY <1>1, SumAbove
  <2>4. Weight(b, bits) = p * t
    <3>1. CASE b \in bits
      <4> HIDE DEF p
      <4> QED BY <2>2, <3>1 DEF Weight, p
    <3>2. CASE b \notin bits
      <4> HIDE DEF p
      <4> QED BY <2>2, <3>2 DEF Weight
    <3> QED BY <3>1, <3>2
  <2>5. t \in 0 .. 1 /\ (t = 1 <=> b \in bits)
    OBVIOUS
  <2> HIDE DEF p, t
  <2>6. f[XLEN] = p * (2 * m + t) + f[b]
    BY <2>2, <2>3, <2>4, <2>5
  <2>7. 2 * m + t \in Int /\ f[b] \in 0 .. p - 1
    BY <2>2, <2>5
  <2>8. (p * (2 * m + t) + f[b]) \div p = 2 * m + t
    BY <2>2, <2>7, DivisionUnique
  <2>9. (2 * m + t) % 2 = t
    BY <2>5
  <2>10. (f[XLEN] \div p) % 2 = t
    BY <2>6, <2>8, <2>9
  <2> QED BY <2>5, <2>10 DEF p
<1> QED BY <1>1, <1>2, <1>3

(* The word that the bits of a word make is this word. *)
LEMMA WordOfBitsOf ==
    ASSUME NEW w \in Word
    PROVE  BitsOf[w] \subseteq 0 .. XLEN - 1 /\ WordOf(BitsOf[w]) = w
<1>0. XLEN \in Nat /\ w \in Nat /\ w < 2^XLEN
  BY XLENAssumption, WordSize DEF Word
<1> DEFINE bits == BitsOf[w]
<1>1. bits = { b \in 0 .. XLEN - 1 : (w \div 2^b) % 2 = 1 }
  BY DEF BitsOf
<1> HIDE DEF bits
<1>2. PICK f : IsSum(f, bits) /\ WordOf(bits) = f[XLEN]
  BY WordOfUnfolds
<1> DEFINE S == {n \in Nat : n <= XLEN => f[n] = w % 2^n}
<1>3. 0 \in S
  <2>1. w % 1 = 0
    BY <1>0
  <2> QED BY <1>2, <2>1, Powers DEF IsSum
<1>4. ASSUME NEW n \in Nat, n \in S PROVE n + 1 \in S
  <2>1. SUFFICES ASSUME n + 1 <= XLEN PROVE f[n + 1] = w % 2^(n + 1)
    OBVIOUS
  <2>2. n + 1 \in 1 .. XLEN /\ n \in 0 .. XLEN - 1 /\ (n + 1) - 1 = n /\ n <= XLEN
        /\ n \in 0 .. XLEN
    BY <1>0, <2>1
  <2> DEFINE p == 2^n
             q == w \div p
             r == w % p
             s == q \div 2
             t == q % 2
  <2>3. p \in Nat \ {0} /\ 2^(n + 1) = 2 * p
    BY <2>2, Powers
  <2>4. q \in Nat /\ r \in 0 .. p - 1 /\ w = p * q + r
    <3> HIDE DEF p
    <3>1. w \in Int /\ w >= 0
      BY <1>0
    <3>2. /\ w \div p \in Int /\ w % p \in 0 .. p - 1
          /\ w = p * (w \div p) + (w % p) /\ w \div p \in 0 .. w
      BY <2>3, <3>1, Division
    <3> QED BY <3>2
  <2>5. s \in Nat /\ t \in 0 .. 1 /\ q = 2 * s + t
    <3> HIDE DEF q
    <3> QED BY <2>4
  <2>6. f[n + 1] = f[n] + Weight(n, bits)
    BY <1>2, <2>2 DEF IsSum
  <2>7. f[n] = r
    BY <1>4, <2>2
  <2>8. n \in bits <=> t = 1
    BY <1>1, <2>2
  <2>9. Weight(n, bits) = p * t
    <3> HIDE DEF q, t
    <3>1. CASE t = 1
      <4> HIDE DEF p
      <4> QED BY <2>3, <2>8, <3>1 DEF Weight, p
    <3>2. CASE t = 0
      <4> HIDE DEF p
      <4> QED BY <2>3, <2>8, <3>2 DEF Weight
    <3> QED BY <2>5, <3>1, <3>2
  <2> HIDE DEF p, q, r, s, t
  <2>10. w = (2 * p) * s + (p * t + r)
    BY <2>3, <2>4, <2>5
  <2>11. p * t + r \in 0 .. 2 * p - 1
    <3>1. t = 0 \/ t = 1
      BY <2>5
    <3> QED BY <2>3, <2>4, <3>1
  <2>12. ((2 * p) * s + (p * t + r)) % (2 * p) = p * t + r
    <3> DEFINE d == 2 * p
               e == p * t + r
    <3>1. d \in Nat \ {0} /\ s \in Int /\ e \in 0 .. d - 1
      BY <2>3, <2>5, <2>11
    <3> HIDE DEF d, e
    <3>2. (d * s + e) % d = e
      BY <3>1, DivisionUnique
    <3> QED BY <3>2 DEF d, e
  <2>13. w % (2 * p) = p * t + r
    BY <2>10, <2>12
  <2>14. p * t + r = r + p * t
    BY <2>3, <2>4, <2>5
  <2> QED BY <2>3, <2>6, <2>7, <2>9, <2>13, <2>14
<1>5. Nat \subseteq S
  <2> HIDE DEF S
  <2> QED BY <1>3, <1>4, SetInduction
<1>6. f[XLEN] = w % 2^XLEN
  BY <1>0, <1>5
<1>7. w % 2^XLEN = w
  BY <1>0, WordSize
<1> QED BY <1>1, <1>2, <1>6, <1>7 DEF bits

(* Union and intersection have the sum of the words. *)
LEMMA WordsAdd ==
    ASSUME NEW A, NEW B
    PROVE  WordOf(A) + WordOf(B) = WordOf(A \cup B) + WordOf(A \cap B)
<1>0. XLEN \in Nat
  BY XLENAssumption
<1>1. PICK a : IsSum(a, A) /\ WordOf(A) = a[XLEN]
  BY WordOfUnfolds
<1>2. PICK b : IsSum(b, B) /\ WordOf(B) = b[XLEN]
  BY WordOfUnfolds
<1>3. PICK u : IsSum(u, A \cup B) /\ WordOf(A \cup B) = u[XLEN]
  BY WordOfUnfolds
<1>4. PICK i : IsSum(i, A \cap B) /\ WordOf(A \cap B) = i[XLEN]
  BY WordOfUnfolds
<1> DEFINE S == {n \in Nat : n <= XLEN => a[n] + b[n] = u[n] + i[n]}
<1>5. 0 \in S
  BY <1>1, <1>2, <1>3, <1>4 DEF IsSum
<1>6. ASSUME NEW n \in Nat, n \in S PROVE n + 1 \in S
  <2>1. SUFFICES ASSUME n + 1 <= XLEN PROVE a[n + 1] + b[n + 1] = u[n + 1] + i[n + 1]
    OBVIOUS
  <2>2. n + 1 \in 1 .. XLEN /\ (n + 1) - 1 = n /\ n <= XLEN /\ n \in 0 .. XLEN
    BY <1>0, <2>1
  <2>3. /\ a[n + 1] = a[n] + Weight(n, A) /\ b[n + 1] = b[n] + Weight(n, B)
        /\ u[n + 1] = u[n] + Weight(n, A \cup B) /\ i[n + 1] = i[n] + Weight(n, A \cap B)
    BY <1>1, <1>2, <1>3, <1>4, <2>2 DEF IsSum
  <2>4. /\ a[n] \in Nat /\ b[n] \in Nat /\ u[n] \in Nat /\ i[n] \in Nat
    BY <1>1, <1>2, <1>3, <1>4, <2>2 DEF IsSum
  <2>5. a[n] + b[n] = u[n] + i[n]
    BY <1>6, <2>2
  <2>6. /\ Weight(n, A) \in Nat /\ Weight(n, B) \in Nat
        /\ Weight(n, A \cup B) \in Nat /\ Weight(n, A \cap B) \in Nat
    BY <2>2, WeightType
  <2>7. Weight(n, A) + Weight(n, B) = Weight(n, A \cup B) + Weight(n, A \cap B)
    <3> DEFINE p == 2^n
    <3>1. p \in Nat
      BY <2>2, Powers
    <3>2. /\ Weight(n, A) = (IF n \in A THEN p ELSE 0)
          /\ Weight(n, B) = (IF n \in B THEN p ELSE 0)
          /\ Weight(n, A \cup B) = (IF n \in A \/ n \in B THEN p ELSE 0)
          /\ Weight(n, A \cap B) = (IF n \in A /\ n \in B THEN p ELSE 0)
      BY DEF Weight
    <3> HIDE DEF p
    <3> QED BY <3>1, <3>2
  <2> QED BY <2>3, <2>4, <2>5, <2>6, <2>7
<1>7. Nat \subseteq S
  <2> HIDE DEF S
  <2> QED BY <1>5, <1>6, SetInduction
<1> QED BY <1>0, <1>1, <1>2, <1>3, <1>4, <1>7

LEMMA NoBits == WordOf({}) = 0 /\ BitsOf[0] = {}
<1>1. PICK f : IsSum(f, {}) /\ WordOf({}) = f[XLEN]
  BY WordOfUnfolds
<1>2. WordOf({}) + WordOf({}) = WordOf({} \cup {}) + WordOf({} \cap {})
  BY WordsAdd
<1>3. BitsOf[0] = {}
  <2>1. BitsOf[0] = { b \in 0 .. XLEN - 1 : (0 \div 2^b) % 2 = 1 }
    BY WordSize DEF BitsOf
  <2>2. ASSUME NEW b \in 0 .. XLEN - 1 PROVE (0 \div 2^b) % 2 # 1
    <3>1. 2^b \in Nat \ {0}
      BY XLENAssumption, Powers
    <3> DEFINE q == 0 \div 2^b
    <3>2. q = 0
      BY <3>1, Division
    <3> HIDE DEF q
    <3>3. q % 2 # 1
      BY <3>2
    <3> QED BY <3>3 DEF q
  <2> QED BY <2>1, <2>2
<1> QED BY <1>3, WordOfBitsOf, WordSize

(* The exclusive or. *)
LEMMA ExclusiveOr ==
    ASSUME NEW A, NEW B
    PROVE  WordOf(A \cup B) - WordOf(A \cap B) = WordOf((A \cup B) \ (A \cap B))
<1> DEFINE C == (A \cup B) \ (A \cap B)
           D == A \cap B
<1>1. C \cup D = A \cup B /\ C \cap D = {}
  OBVIOUS
<1> HIDE DEF C
<1>2. WordOf(C) + WordOf(D) = WordOf(A \cup B) + WordOf({})
  BY <1>1, WordsAdd
<1>3. WordOf(C) \in Int /\ WordOf(D) \in Int /\ WordOf(A \cup B) \in Int
  BY WordOfType DEF Word
<1> QED BY <1>2, <1>3, NoBits DEF C

-----------------------------------------------------------------------------
(* Remainders *)

LEMMA RemainderOfSmall ==
    ASSUME NEW p \in Nat \ {0}, NEW r \in 0 .. p - 1
    PROVE  r % p = r /\ r \div p = 0
<1>1. p * 0 + r = r /\ 0 \in Int
  OBVIOUS
<1>2. (p * 0 + r) \div p = 0 /\ (p * 0 + r) % p = r
  BY <1>1, DivisionUnique
<1> QED BY <1>1, <1>2

(* A number and its remainder differ by a multiple. *)
LEMMA Remainder ==
    ASSUME NEW a \in Int, NEW p \in Nat \ {0}
    PROVE  /\ a % p \in 0 .. p - 1
           /\ \E k \in Int : a % p = a + p * k
<1> DEFINE q == a \div p
           r == a % p
<1>1. q \in Int /\ r \in 0 .. p - 1 /\ a = p * q + r
  BY Division
<1> HIDE DEF q, r
<1>2. -q \in Int /\ r = a + p * (-q)
  BY <1>1
<1> QED BY <1>1, <1>2 DEF r

(* What a word is as a signed number. *)
LEMMA SignedValue ==
    ASSUME NEW x \in Word
    PROVE  /\ x \in Nat /\ x < 2^XLEN
           /\ Signed(x) \in Int /\ -(2^(XLEN - 1)) <= Signed(x) /\ Signed(x) < 2^(XLEN - 1)
           /\ Signed(x) = x \/ Signed(x) = x - 2^XLEN
           /\ Signed(x) = (IF x < 2^(XLEN - 1) THEN x ELSE x - 2^XLEN)
           /\ \E k \in Int : Signed(x) = x + 2^XLEN * k
           /\ Signed(x) = 0 <=> x = 0
<1> DEFINE M == 2^XLEN
           H == 2^(XLEN - 1)
<1>1. M \in Nat /\ H \in Nat /\ M = 2 * H /\ M >= 256
  BY WordSize
<1>2. x \in Nat /\ x < M
  BY <1>1 DEF Word
<1>3. Signed(x) = (IF x >= H THEN x - M ELSE x)
  BY DEF Signed
<1> HIDE DEF M, H
<1>4. x + M * 0 = x /\ x + M * (-1) = x - M
  BY <1>1, <1>2
<1>5. \E k \in Int : Signed(x) = x + M * k
  BY <1>1, <1>2, <1>3, <1>4
<1>6. /\ Signed(x) \in Int /\ -H <= Signed(x) /\ Signed(x) < H
      /\ Signed(x) = x \/ Signed(x) = x - M
      /\ Signed(x) = (IF x < H THEN x ELSE x - M)
      /\ Signed(x) = 0 <=> x = 0
  BY <1>1, <1>2, <1>3
<1> QED BY <1>2, <1>5, <1>6 DEF M, H

LEMMA TruncatedValue ==
    ASSUME NEW z \in Int
    PROVE  /\ Truncated(z) \in Word
           /\ \E k \in Int : Truncated(z) = z + 2^XLEN * k
           /\ \A k \in Int : Truncated(z + 2^XLEN * k) = Truncated(z)
           /\ z \in Word => Truncated(z) = z
           /\ -(2^(XLEN - 1)) <= z /\ z < 2^(XLEN - 1) => Signed(Truncated(z)) = z
<1> DEFINE M == 2^XLEN
           H == 2^(XLEN - 1)
<1>1. M \in Nat \ {0} /\ H \in Nat /\ M = 2 * H
  BY WordSize
<1>2. Truncated(z) = z % M /\ Word = 0 .. M - 1
  BY DEF Truncated, Word
<1>3. \A k \in Int : Truncated(z + M * k) = (z + M * k) % M
  BY DEF Truncated
<1>4. Signed(Truncated(z)) = (IF Truncated(z) >= H THEN Truncated(z) - M ELSE Truncated(z))
  BY DEF Signed
<1> HIDE DEF M, H
<1>5. Truncated(z) \in Word /\ \E k \in Int : Truncated(z) = z + M * k
  BY <1>1, <1>2, Remainder
<1>6. \A k \in Int : Truncated(z + M * k) = Truncated(z)
  BY <1>1, <1>2, <1>3, Congruent
<1>7. ASSUME z \in Word PROVE Truncated(z) = z
  BY <1>1, <1>2, <1>7, RemainderOfSmall
<1>8. ASSUME -H <= z, z < H PROVE Signed(Truncated(z)) = z
  <2>1. CASE z >= 0
    <3>1. Truncated(z) = z
      <4>1. z \in 0 .. M - 1
        BY <1>1, <1>8, <2>1
      <4> QED BY <1>1, <1>2, <4>1, RemainderOfSmall
    <3> QED BY <1>1, <1>4, <1>8, <3>1
  <2>2. CASE z < 0
    <3>1. z + M \in 0 .. M - 1 /\ z + M >= H
      BY <1>1, <1>8, <2>2
    <3>2. (z + M) % M = z + M
      BY <1>1, <3>1, RemainderOfSmall
    <3>3. z + M = z + M * 1 /\ 1 \in Int
      BY <1>1
    <3>4. (z + M * 1) % M = z % M
      BY <1>1, <3>3, Congruent
    <3>5. Truncated(z) = z + M
      BY <1>2, <3>2, <3>3, <3>4
    <3> QED BY <1>1, <1>4, <3>1, <3>5
  <2> QED BY <2>1, <2>2
<1> QED BY <1>5, <1>6, <1>7, <1>8 DEF M, H

-----------------------------------------------------------------------------
(* The operations, one by one *)

LEMMA PlusValue ==
    ASSUME NEW x, NEW y
    PROVE  Plus(x, y) = Truncated(x + y)
  BY DEF Plus, Truncated

LEMMA ComparisonValue ==
    ASSUME NEW x, NEW y
    PROVE  /\ Compare("Lt", x, y) <=> Signed(x) < Signed(y)
           /\ Compare("Ltu", x, y) <=> x < y
  BY DEF Compare

LEMMA BoolWordValue ==
    ASSUME NEW b
    PROVE  BoolWord(b) \in Word
<1>1. 0 \in Word /\ 1 \in Word
  BY WordSize DEF Word
<1> QED BY <1>1, Zenon DEF BoolWord

(* The amount of a shift, and the two parts it cuts a word into. *)
LEMMA ShiftAmount ==
    ASSUME NEW y \in Word
    PROVE  /\ y % XLEN \in 0 .. XLEN /\ XLEN - (y % XLEN) \in 0 .. XLEN
           /\ 2^(y % XLEN) \in Nat \ {0} /\ 2^(XLEN - (y % XLEN)) \in Nat \ {0}
           /\ 2^XLEN = 2^(y % XLEN) * 2^(XLEN - (y % XLEN))
           /\ 2^(XLEN - (y % XLEN)) <= 2^XLEN
<1>1. XLEN \in Nat \ {0} /\ y \in Int
  BY XLENAssumption, WordSize DEF Word
<1> DEFINE k == y % XLEN
<1>2. k \in 0 .. XLEN - 1
  BY <1>1, Remainder
<1> HIDE DEF k
<1>3. k \in 0 .. XLEN /\ XLEN - k \in 0 .. XLEN /\ XLEN \in 0 .. XLEN
  BY <1>1, <1>2
<1>4. 2^k \in Nat \ {0} /\ 2^(XLEN - k) \in Nat \ {0}
  BY <1>3, Powers
<1>5. 2^k * 2^(XLEN - k) = 2^XLEN
  BY <1>3, PowerProduct
<1>6. 2^(XLEN - k) <= 2^XLEN
  BY <1>3, PowerGrows
<1> QED BY <1>3, <1>4, <1>5, <1>6 DEF k

(* A logical shift to the left keeps the low part of the word. *)
LEMMA SllValue ==
    ASSUME NEW x \in Word, NEW y \in Word
    PROVE  /\ Sll(x, y) \in Word
           /\ Sll(x, y) % 2^(y % XLEN) = 0
           /\ Sll(x, y) \div 2^(y % XLEN) = x % 2^(XLEN - (y % XLEN))
<1> DEFINE p == 2^(y % XLEN)
           s == 2^(XLEN - (y % XLEN))
           M == 2^XLEN
           a == x \div s
           b == x % s
<1>1. p \in Nat \ {0} /\ s \in Nat \ {0} /\ M = p * s
  BY ShiftAmount
<1>2. x \in Int /\ Sll(x, y) = Truncated(x * p) /\ Truncated(x * p) = (x * p) % M
  BY WordSize DEF Word, Sll, Truncated
<1> HIDE DEF p, s, M
<1>3. a \in Int /\ b \in 0 .. s - 1 /\ x = s * a + b
  BY <1>1, <1>2, Division
<1> HIDE DEF a, b
<1>4. x * p = M * a + p * b
  <2>1. (s * a + b) * p = (p * s) * a + p * b
    BY <1>1, <1>3
  <2> QED BY <1>1, <1>3, <2>1
<1>5. M \in Nat \ {0} /\ p * b \in 0 .. M - 1
  <2>1. b \in Nat /\ b <= s - 1
    BY <1>1, <1>3
  <2>2. p * b <= p * (s - 1)
    BY <1>1, <2>1
  <2>3. p * (s - 1) = p * s - p
    BY <1>1
  <2>4. M = p * s /\ p * s \in Nat /\ p * b \in Nat
    BY <1>1, <2>1
  <2>5. M # 0
    BY WordSize DEF M
  <2> QED BY <1>1, <2>2, <2>3, <2>4, <2>5
<1>6. (M * a + p * b) % M = p * b
  <2> DEFINE e == p * b
  <2>1. e \in 0 .. M - 1
    BY <1>5
  <2> HIDE DEF e
  <2>2. (M * a + e) % M = e
    BY <1>3, <1>5, <2>1, DivisionUnique
  <2> QED BY <2>2 DEF e
<1>7. Sll(x, y) = p * b
  BY <1>2, <1>4, <1>6
<1>8. Sll(x, y) = p * b + 0 /\ b \in Int /\ 0 \in 0 .. p - 1
  BY <1>1, <1>3, <1>7
<1>9. (p * b + 0) % p = 0 /\ (p * b + 0) \div p = b
  BY <1>1, <1>8, DivisionUnique
<1>10. Sll(x, y) \in Word
  BY <1>5, <1>7 DEF Word, M
<1> QED BY <1>8, <1>9, <1>10 DEF p, b, s

(* A logical shift to the right keeps the high part. *)
LEMMA SrlValue ==
    ASSUME NEW x \in Word, NEW y \in Word
    PROVE  /\ Srl(x, y) \in Word /\ Srl(x, y) <= x
           /\ Srl(x, y) = x \div 2^(y % XLEN)
           /\ Srl(x, y) < 2^(XLEN - (y % XLEN))
<1> DEFINE p == 2^(y % XLEN)
           s == 2^(XLEN - (y % XLEN))
           M == 2^XLEN
           q == x \div p
           r == x % p
<1>1. p \in Nat \ {0} /\ s \in Nat \ {0} /\ M = p * s
  BY ShiftAmount
<1>2. x \in Nat /\ x < M
  BY WordSize DEF Word
<1>3. Srl(x, y) = q
  BY DEF Srl
<1>4. q \in Int /\ r \in 0 .. p - 1 /\ x = p * q + r /\ q \in 0 .. x
  <2> HIDE DEF p
  <2>1. x \in Int /\ x >= 0
    BY <1>2
  <2> QED BY <1>1, <2>1, Division
<1> HIDE DEF p, s, M, q, r
<1>5. q < s
  <2>1. SUFFICES ASSUME q >= s PROVE FALSE
    BY <1>1, <1>4
  <2>2. p * q >= p * s
    BY <1>1, <1>4, <2>1
  <2> QED BY <1>1, <1>2, <1>4, <2>2
<1>6. q \in 0 .. M - 1
  BY <1>1, <1>2, <1>4
<1> QED BY <1>3, <1>4, <1>5, <1>6 DEF p, s, M, q, Word

(* An arithmetic shift to the right is a division rounded down. *)
LEMMA SraValue ==
    ASSUME NEW x \in Word, NEW y \in Word
    PROVE  Sra(x, y) \in Word /\ Signed(Sra(x, y)) = Signed(x) \div 2^(y % XLEN)
<1> DEFINE p == 2^(y % XLEN)
           s == 2^(XLEN - (y % XLEN))
           M == 2^XLEN
           H == 2^(XLEN - 1)
           q == x \div p
           r == x % p
           sx == Signed(x)
<1>1. p \in Nat \ {0} /\ s \in Nat \ {0} /\ M = p * s /\ s <= M
  BY ShiftAmount
<1>2. M \in Nat /\ H \in Nat /\ M = 2 * H
  BY WordSize
<1>3. x \in Nat /\ x < M /\ sx \in Int /\ -H <= sx /\ sx < H
      /\ sx = (IF x < H THEN x ELSE x - M)
  BY SignedValue
<1>4. Srl(x, y) = q /\ q < s /\ q <= x
  BY SrlValue
<1>5. q \in Int /\ r \in 0 .. p - 1 /\ x = p * q + r /\ q \in 0 .. x
  <2> HIDE DEF p
  <2>1. x \in Int /\ x >= 0
    BY <1>3
  <2> QED BY <1>1, <2>1, Division
<1>6. Sra(x, y) = q + (IF sx < 0 THEN M - s ELSE 0)
  BY <1>4 DEF Sra
<1> HIDE DEF p, s, M, H, q, r, sx
<1>7. CASE sx >= 0
  <2>1. Sra(x, y) = q /\ x < H /\ sx = x
    BY <1>1, <1>2, <1>3, <1>5, <1>6, <1>7
  <2>2. q \in Word /\ Signed(q) = q
    BY <1>2, <1>3, <1>5, <2>1 DEF Word, Signed, M, H
  <2> QED BY <2>1, <2>2 DEF q, p, sx
<1>8. CASE sx < 0
  <2>1. Sra(x, y) = q + (M - s) /\ sx = x - M
    BY <1>1, <1>2, <1>3, <1>5, <1>6, <1>8
  <2>2. sx = p * (q - s) + r
    <3>1. p * (q - s) = p * q - p * s
      BY <1>1, <1>5
    <3> QED BY <1>1, <1>2, <1>3, <1>5, <2>1, <3>1
  <2>3. sx \div p = q - s
    <3>1. q - s \in Int
      BY <1>1, <1>5
    <3> QED BY <1>1, <1>5, <2>2, <3>1, DivisionUnique
  <2> DEFINE d == q - s
  <2>4. d \in Int /\ d <= -1 /\ Sra(x, y) = d + M /\ sx = p * d + r
    BY <1>1, <1>2, <1>4, <1>5, <2>1, <2>2
  <2> HIDE DEF d
  <2>5. -H <= d
    <3>1. SUFFICES ASSUME d <= -H - 1 PROVE FALSE
      BY <1>2, <2>4
    <3>2. p * d <= p * (-H - 1)
      BY <1>1, <1>2, <2>4, <3>1
    <3>3. p * (-H - 1) = -(p * H) - p /\ p * H >= H
      BY <1>1, <1>2
    <3>4. p * d \in Int /\ p * H \in Int
      BY <1>1, <1>2, <2>4
    <3> QED BY <1>1, <1>2, <1>3, <1>5, <2>4, <3>2, <3>3, <3>4
  <2>6. Sra(x, y) \in 0 .. M - 1 /\ Sra(x, y) >= H
    BY <1>2, <2>4, <2>5
  <2>7. Sra(x, y) \in Word /\ Signed(Sra(x, y)) = Sra(x, y) - M
    BY <2>6 DEF Word, Signed, M, H
  <2> QED BY <1>2, <2>3, <2>4, <2>7 DEF d, p, sx
<1> QED BY <1>3, <1>7, <1>8

(* The division of C++ rounds towards zero: the rest is smaller than the    *)
(* divisor and has the sign of the dividend.                                *)
Magnitude(n) == IF n < 0 THEN -n ELSE n

LEMMA QuotientValue ==
    ASSUME NEW a \in Int, NEW b \in Int \ {0}
    PROVE  /\ Quotient(a, b) \in Int
           /\ a - Quotient(a, b) * b \in Int
           /\ Magnitude(a - Quotient(a, b) * b) < Magnitude(b)
           /\ a >= 0 => a - Quotient(a, b) * b >= 0
           /\ a <= 0 => a - Quotient(a, b) * b <= 0
<1> DEFINE m == Magnitude(a)
           n == Magnitude(b)
           q == m \div n
           r == m % n
           Q == Quotient(a, b)
<1>1. m \in Nat /\ n \in Nat \ {0} /\ (a >= 0 => m = a) /\ (a < 0 => m = -a)
      /\ (b >= 0 => n = b) /\ (b < 0 => n = -b)
  BY DEF Magnitude
<1>2. (a < 0 <=> b < 0) => Q = q
  BY DEF Quotient, Magnitude
<1>3. ~ (a < 0 <=> b < 0) => Q = -q
  BY DEF Quotient, Magnitude
<1> HIDE DEF m, n, Q
<1>4. q \in Int /\ r \in 0 .. n - 1 /\ m = n * q + r
  BY <1>1, Division
<1> HIDE DEF q, r
<1>5. Q \in Int
  BY <1>2, <1>3, <1>4
<1>6. CASE a >= 0 /\ b >= 0
  <2>1. Q * b = n * q /\ n * q \in Int
    BY <1>1, <1>2, <1>4, <1>6
  <2>2. a - Q * b = r
    BY <1>1, <1>4, <1>6, <2>1
  <2> QED BY <1>1, <1>4, <1>5, <1>6, <2>2 DEF Q, n, Magnitude
<1>7. CASE a >= 0 /\ b < 0
  <2>1. Q * b = n * q /\ n * q \in Int
    BY <1>1, <1>3, <1>4, <1>7
  <2>2. a - Q * b = r
    BY <1>1, <1>4, <1>7, <2>1
  <2> QED BY <1>1, <1>4, <1>5, <1>7, <2>2 DEF Q, n, Magnitude
<1>8. CASE a < 0 /\ b >= 0
  <2>1. Q * b = -(n * q) /\ n * q \in Int
    BY <1>1, <1>3, <1>4, <1>8
  <2>2. a - Q * b = -r
    BY <1>1, <1>4, <1>8, <2>1
  <2> QED BY <1>1, <1>4, <1>5, <1>8, <2>2 DEF Q, n, Magnitude
<1>9. CASE a < 0 /\ b < 0
  <2>1. Q * b = -(n * q) /\ n * q \in Int
    BY <1>1, <1>2, <1>4, <1>9
  <2>2. a - Q * b = -r
    BY <1>1, <1>4, <1>9, <2>1
  <2> QED BY <1>1, <1>4, <1>5, <1>9, <2>2 DEF Q, n, Magnitude
<1> QED BY <1>6, <1>7, <1>8, <1>9

(* Division and remainder in the three cases of the code. *)
LEMMA DivideByZero ==
    ASSUME NEW x \in Word
    PROVE  Div(x, 0) = AllOnes /\ Rem(x, 0) = x
<1>1. ~ DivisionOverflow(x, 0)
  BY WordSize DEF DivisionOverflow, AllOnes
<1> QED BY <1>1 DEF Div, Rem

LEMMA DivideOverflow ==
    ASSUME NEW x \in Word, NEW y \in Word, DivisionOverflow(x, y)
    PROVE  /\ Div(x, y) = x /\ Rem(x, y) = 0 /\ y # 0
           /\ x = 2^(XLEN - 1) /\ y = AllOnes /\ Signed(y) = -1
<1> DEFINE M == 2^XLEN
           H == 2^(XLEN - 1)
<1>1. M \in Nat /\ H \in Nat /\ M = 2 * H /\ M >= 256
  BY WordSize
<1>2. y = M - 1 /\ Signed(x) = -H
  BY DEF DivisionOverflow, AllOnes
<1>3. Signed(y) = (IF y < H THEN y ELSE y - M) /\ Signed(x) = (IF x < H THEN x ELSE x - M)
      /\ x \in Nat
  BY SignedValue
<1> HIDE DEF M, H
<1>4. y # 0 /\ Signed(y) = -1 /\ x = H
  BY <1>1, <1>2, <1>3
<1>5. Div(x, y) = x /\ Rem(x, y) = 0
  BY <1>4 DEF Div, Rem
<1> QED BY <1>2, <1>4, <1>5 DEF AllOnes, M, H

LEMMA DivideSigned ==
    ASSUME NEW x \in Word, NEW y \in Word, y # 0, ~ DivisionOverflow(x, y)
    PROVE  /\ Div(x, y) = Truncated(Quotient(Signed(x), Signed(y)))
           /\ Rem(x, y) = Truncated(Signed(x) - Quotient(Signed(x), Signed(y)) * Signed(y))
           /\ Signed(x) \in Int /\ Signed(y) \in Int \ {0}
           /\ Signed(Rem(x, y)) = Signed(x) - Quotient(Signed(x), Signed(y)) * Signed(y)
<1> DEFINE a == Signed(x)
           b == Signed(y)
           z == a - Quotient(a, b) * b
           H == 2^(XLEN - 1)
<1>1. Div(x, y) = Truncated(Quotient(a, b)) /\ Rem(x, y) = Truncated(z)
  BY DEF Div, Rem
<1>2. a \in Int /\ -H <= a /\ a < H /\ b \in Int \ {0} /\ -H <= b /\ b < H
  BY SignedValue
<1> HIDE DEF a, b
<1>3. z \in Int /\ Magnitude(z) < Magnitude(b) /\ (a >= 0 => z >= 0) /\ (a <= 0 => z <= 0)
  BY <1>2, QuotientValue
<1> HIDE DEF z
<1>4. H \in Nat
  BY WordSize
<1> HIDE DEF H
<1>5. -H <= z /\ z < H
  BY <1>2, <1>3, <1>4 DEF Magnitude
<1>6. Signed(Truncated(z)) = z
  BY <1>3, <1>5, TruncatedValue DEF H
<1> QED BY <1>1, <1>2, <1>6 DEF a, b, z

LEMMA DivisionWords ==
    ASSUME NEW x \in Word, NEW y \in Word
    PROVE  Div(x, y) \in Word /\ Rem(x, y) \in Word
<1>1. CASE y = 0
  BY <1>1, DivideByZero, WordSize
<1>2. CASE DivisionOverflow(x, y)
  BY <1>2, DivideOverflow, WordSize
<1>3. CASE y # 0 /\ ~ DivisionOverflow(x, y)
  <2> DEFINE Q == Quotient(Signed(x), Signed(y))
  <2>1. /\ Div(x, y) = Truncated(Q) /\ Rem(x, y) = Truncated(Signed(x) - Q * Signed(y))
        /\ Signed(x) \in Int /\ Signed(y) \in Int \ {0}
    BY <1>3, DivideSigned
  <2>2. Q \in Int /\ Signed(x) - Q * Signed(y) \in Int
    BY <2>1, QuotientValue
  <2> HIDE DEF Q
  <2> QED BY <2>1, <2>2, TruncatedValue
<1> QED BY <1>1, <1>2, <1>3

LEMMA ProductWord ==
    ASSUME NEW x \in Word, NEW y \in Word
    PROVE  (x * y) \div 2^XLEN \in Word /\ x * y \in Nat
<1> DEFINE M == 2^XLEN
           q == (x * y) \div M
<1>1. M \in Nat \ {0} /\ x \in Nat /\ y \in Nat /\ x <= M - 1 /\ y <= M - 1
  BY WordSize DEF Word
<1> HIDE DEF M
<1>2. x * y \in Nat /\ x * y <= x * (M - 1) /\ x * (M - 1) <= (M - 1) * (M - 1)
  BY <1>1
<1> DEFINE r == (x * y) % M
           z == x * y
<1>3. z \in Int /\ z >= 0
  BY <1>2
<1>4. q \in Int /\ r \in 0 .. M - 1 /\ z = M * q + r /\ q \in 0 .. z
  <2> HIDE DEF z
  <2>1. z \div M \in Int /\ z % M \in 0 .. M - 1 /\ z = M * (z \div M) + (z % M)
        /\ z \div M \in 0 .. z
    BY <1>1, <1>3, Division
  <2> QED BY <2>1 DEF z
<1> HIDE DEF q, r
<1>5. q <= M - 1
  <2>1. SUFFICES ASSUME q >= M PROVE FALSE
    BY <1>1, <1>4
  <2>2. M * q >= M * M
    BY <1>1, <1>4, <2>1
  <2>3. (M - 1) * (M - 1) = M * M - 2 * M + 1
    BY <1>1
  <2>4. z <= (M - 1) * (M - 1)
    BY <1>1, <1>2
  <2> HIDE DEF z
  <2>5. M * M \in Int /\ M * q \in Int
    BY <1>1, <1>4
  <2> QED BY <1>1, <1>3, <1>4, <2>2, <2>3, <2>4, <2>5
<1>6. q \in 0 .. M - 1
  BY <1>1, <1>4, <1>5
<1> QED BY <1>2, <1>6 DEF q, M, Word

(***************************************************************************)
(* Every operation of the ALU answers a word.                              *)
(***************************************************************************)
LEMMA CalculatedType ==
    ASSUME NEW opcode \in Opcodes, NEW x \in Word, NEW y \in Word
    PROVE  Calculated(opcode, x, y) \in Word
<1>1. x \in Int /\ y \in Int /\ x + y \in Int /\ x - y \in Int /\ x * y \in Int
  BY WordSize DEF Word
<1>2. /\ Truncated(x + y) \in Word /\ Truncated(x - y) \in Word /\ Truncated(x * y) \in Word
  BY <1>1, TruncatedValue
<1>3. Sll(x, y) \in Word /\ Srl(x, y) \in Word /\ Sra(x, y) \in Word
  BY SllValue, SrlValue, SraValue
<1>4. /\ BoolWord(Compare("Lt", x, y)) \in Word
      /\ BoolWord(Compare("Ltu", x, y)) \in Word
  BY BoolWordValue
<1>5. /\ WordOf(BitsOf[x] \cap BitsOf[y]) \in Word /\ WordOf(BitsOf[x] \cup BitsOf[y]) \in Word
      /\ WordOf(BitsOf[x] \cup BitsOf[y]) - WordOf(BitsOf[x] \cap BitsOf[y]) \in Word
  <2> DEFINE A == BitsOf[x]
             B == BitsOf[y]
  <2> HIDE DEF A, B
  <2>1. WordOf(A \cup B) - WordOf(A \cap B) = WordOf((A \cup B) \ (A \cap B))
    BY ExclusiveOr
  <2>2. /\ WordOf(A \cap B) \in Word /\ WordOf(A \cup B) \in Word
        /\ WordOf((A \cup B) \ (A \cap B)) \in Word
    BY WordOfType
  <2> QED BY <2>1, <2>2 DEF A, B
<1>6. (x * y) \div 2^XLEN \in Word
  BY ProductWord
<1>7. Div(x, y) \in Word /\ Rem(x, y) \in Word
  BY DivisionWords
<1>8. /\ (IF y = 0 THEN AllOnes ELSE x \div y) \in Word
      /\ (IF y = 0 THEN x ELSE x % y) \in Word
  <2>1. CASE y = 0
    BY <2>1, WordSize
  <2>2. CASE y # 0
    <3>1. y \in Nat \ {0} /\ x >= 0
      BY <2>2, WordSize DEF Word
    <3>2. x \div y \in 0 .. x /\ x % y \in 0 .. y - 1
      BY <1>1, <3>1, Division
    <3>3. x \div y \in Word /\ x % y \in Word
      <4>1. \A n \in Nat : n <= x \/ n <= y => n \in Word
        BY <1>1, WordSize DEF Word
      <4> DEFINE q == x \div y
                 r == x % y
      <4>2. q \in Nat /\ q <= x /\ r \in Nat /\ r <= y
        BY <1>1, <3>1, <3>2
      <4> HIDE DEF q, r
      <4>3. q \in Word /\ r \in Word
        BY <4>1, <4>2
      <4> QED BY <4>3 DEF q, r
    <3> QED BY <2>2, <3>3
  <2> QED BY <2>1, <2>2
<1>9. /\ (IF y = 0 THEN 0 ELSE x) \in Word /\ (IF y # 0 THEN 0 ELSE x) \in Word
  BY WordSize
<1> HIDE DEF Word
<1>10. /\ Calculated("Add", x, y) \in Word
       /\ Calculated("Sub", x, y) \in Word
       /\ Calculated("Mul", x, y) \in Word
  BY <1>2, PlusValue DEF Calculated
<1>11. /\ Calculated("Sll", x, y) \in Word
       /\ Calculated("Srl", x, y) \in Word
       /\ Calculated("Sra", x, y) \in Word
  BY <1>3 DEF Calculated
<1>12. /\ Calculated("Slt", x, y) \in Word
       /\ Calculated("Sltu", x, y) \in Word
  BY <1>4 DEF Calculated
<1>13. /\ Calculated("And", x, y) \in Word
       /\ Calculated("Or", x, y) \in Word
       /\ Calculated("Xor", x, y) \in Word
  BY <1>5 DEF Calculated
<1>14. /\ Calculated("Mulh", x, y) \in Word
       /\ Calculated("Mulhsu", x, y) \in Word
       /\ Calculated("Mulhu", x, y) \in Word
  BY <1>6 DEF Calculated
<1>15. /\ Calculated("Div", x, y) \in Word
       /\ Calculated("Rem", x, y) \in Word
  BY <1>7 DEF Calculated
<1>16. /\ Calculated("Divu", x, y) \in Word
       /\ Calculated("Remu", x, y) \in Word
  BY <1>8 DEF Calculated
<1>17. /\ Calculated("Czero_eqz", x, y) \in Word
       /\ Calculated("Czero_nez", x, y) \in Word
  BY <1>9 DEF Calculated
<1> QED BY <1>10, <1>11, <1>12, <1>13, <1>14, <1>15, <1>16, <1>17 DEF Opcodes

(* Terms that differ by a multiple of the size of a word are the same word. *)
LEMMA SameWord ==
    ASSUME NEW a \in Int, NEW b \in Int, NEW k \in Int, a = b + 2^XLEN * k
    PROVE  Truncated(a) = Truncated(b)
  BY TruncatedValue

LEMMA AddExact ==
    ASSUME NEW x \in Word, NEW y \in Word
    PROVE  /\ Calculated("Add", x, y) = (Signed(x) + Signed(y)) % 2^XLEN
           /\ Calculated("Add", x, y)
                  = (Calculated("Or", x, y) + Calculated("And", x, y)) % 2^XLEN
<1> DEFINE M == 2^XLEN
           A == BitsOf[x]
           B == BitsOf[y]
<1>1. Calculated("Add", x, y) = Truncated(x + y)
  BY PlusValue DEF Calculated
<1>2. M \in Nat /\ x \in Int /\ y \in Int
  BY WordSize DEF Word
<1>3. PICK k \in Int : Signed(x) = x + M * k
  BY SignedValue
<1>4. PICK l \in Int : Signed(y) = y + M * l
  BY SignedValue
<1>5. Truncated(Signed(x) + Signed(y)) = (Signed(x) + Signed(y)) % M
  BY DEF Truncated
<1>6. Truncated(Signed(x) + Signed(y)) = Truncated(x + y)
  <2> DEFINE sx == Signed(x)
             sy == Signed(y)
  <2>1. sx \in Int /\ sy \in Int
    BY SignedValue
  <2> HIDE DEF M, sx, sy
  <2>2. sx + sy = (x + y) + M * (k + l)
    BY <1>2, <1>3, <1>4 DEF sx, sy
  <2>3. sx + sy \in Int /\ x + y \in Int /\ k + l \in Int
    BY <1>2, <2>1
  <2>4. Truncated(sx + sy) = Truncated(x + y)
    <3> DEFINE a == sx + sy
               b == x + y
               n == k + l
    <3>1. a \in Int /\ b \in Int /\ n \in Int /\ a = b + M * n
      BY <2>2, <2>3
    <3> HIDE DEF a, b, n
    <3>2. Truncated(a) = Truncated(b)
      BY <3>1, SameWord DEF M
    <3> QED BY <3>2 DEF a, b
  <2> QED BY <2>4 DEF sx, sy
<1>7. WordOf(A) = x /\ WordOf(B) = y
  BY WordOfBitsOf
<1>8. Calculated("Or", x, y) = WordOf(A \cup B) /\ Calculated("And", x, y) = WordOf(A \cap B)
  BY DEF Calculated
<1> HIDE DEF A, B
<1>9. WordOf(A) + WordOf(B) = WordOf(A \cup B) + WordOf(A \cap B)
  BY WordsAdd
<1>10. Calculated("Or", x, y) + Calculated("And", x, y) = x + y
  BY <1>7, <1>8, <1>9
<1>11. Truncated(x + y) = (x + y) % M
  BY DEF Truncated
<1> QED BY <1>1, <1>5, <1>6, <1>10, <1>11 DEF M

LEMMA SubExact ==
    ASSUME NEW x \in Word, NEW y \in Word
    PROVE  Calculated("Add", Calculated("Sub", x, y), y) = x
<1> DEFINE M == 2^XLEN
           d == Calculated("Sub", x, y)
<1>1. d = Truncated(x - y) /\ Calculated("Add", d, y) = Truncated(d + y)
  BY PlusValue DEF Calculated
<1>2. x \in Int /\ y \in Int /\ M \in Int
  BY WordSize DEF Word
<1>3. PICK k \in Int : d = (x - y) + M * k
  BY <1>1, <1>2, TruncatedValue
<1> HIDE DEF d, M
<1>4. d + y = x + M * k /\ d + y \in Int
  BY <1>2, <1>3
<1>5. Truncated(x + M * k) = Truncated(x) /\ Truncated(x) = x
  BY <1>2, TruncatedValue DEF M
<1>6. Calculated("Add", d, y) = x
  BY <1>1, <1>4, <1>5
<1> QED BY <1>6 DEF d

LEMMA XorExact ==
    ASSUME NEW x \in Word, NEW y \in Word
    PROVE  Calculated("Xor", Calculated("Xor", x, y), y) = x
<1> DEFINE A == BitsOf[x]
           B == BitsOf[y]
           C == (A \cup B) \ (A \cap B)
           w == WordOf(C)
           D == BitsOf[w]
<1>1. Calculated("Xor", x, y) = WordOf(A \cup B) - WordOf(A \cap B)
  BY DEF Calculated
<1>2. Calculated("Xor", w, y) = WordOf(D \cup B) - WordOf(D \cap B)
  BY DEF Calculated
<1>3. A \subseteq 0 .. XLEN - 1 /\ B \subseteq 0 .. XLEN - 1 /\ WordOf(A) = x
  BY WordOfBitsOf
<1> HIDE DEF A, B
<1>4. WordOf(A \cup B) - WordOf(A \cap B) = w
  BY ExclusiveOr
<1> HIDE DEF C
<1>5. D = C \cap (0 .. XLEN - 1)
  BY BitsOfWordOf
<1> HIDE DEF D, w
<1>6. WordOf(D \cup B) - WordOf(D \cap B) = WordOf((D \cup B) \ (D \cap B))
  BY ExclusiveOr
<1>7. (D \cup B) \ (D \cap B) = A
  <2>1. D = C
    BY <1>3, <1>5 DEF C
  <2> QED BY <2>1 DEF C
<1> QED BY <1>1, <1>2, <1>3, <1>4, <1>6, <1>7

LEMMA ShiftsExact ==
    ASSUME NEW x \in Word, NEW y \in Word
    PROVE  /\ Calculated("Sll", x, y) % 2^(y % XLEN) = 0
           /\ Calculated("Sll", x, y) \div 2^(y % XLEN) = x % 2^(XLEN - (y % XLEN))
           /\ Calculated("Srl", x, y) = x \div 2^(y % XLEN)
           /\ Signed(Calculated("Sra", x, y)) = Signed(x) \div 2^(y % XLEN)
<1>1. /\ Calculated("Sll", x, y) = Sll(x, y) /\ Calculated("Srl", x, y) = Srl(x, y)
      /\ Calculated("Sra", x, y) = Sra(x, y)
  BY DEF Calculated
<1> QED BY <1>1, SllValue, SrlValue, SraValue

LEMMA ComparisonsExact ==
    ASSUME NEW x \in Word, NEW y \in Word
    PROVE  /\ Calculated("Slt", x, y) = BoolWord(Signed(x) - Signed(y) < 0)
           /\ Calculated("Sltu", x, y) = BoolWord(x - y < 0)
<1>1. /\ Calculated("Slt", x, y) = BoolWord(Compare("Lt", x, y))
      /\ Calculated("Sltu", x, y) = BoolWord(Compare("Ltu", x, y))
  BY DEF Calculated
<1>2. x \in Int /\ y \in Int /\ Signed(x) \in Int /\ Signed(y) \in Int
  BY SignedValue
<1>3. Compare("Lt", x, y) <=> Signed(x) - Signed(y) < 0
  BY <1>2, ComparisonValue
<1>4. Compare("Ltu", x, y) <=> x - y < 0
  BY <1>2, ComparisonValue
<1>5. BoolWord(Compare("Lt", x, y)) = BoolWord(Signed(x) - Signed(y) < 0)
  BY <1>3, Zenon DEF BoolWord
<1>6. BoolWord(Compare("Ltu", x, y)) = BoolWord(x - y < 0)
  BY <1>4, Zenon DEF BoolWord
<1> QED BY <1>1, <1>5, <1>6

LEMMA ProductsExact ==
    ASSUME NEW x \in Word, NEW y \in Word
    PROVE  /\ Calculated("Mulhu", x, y) * 2^XLEN + Calculated("Mul", x, y) = x * y
           /\ (Signed(x) * Signed(y)) % 2^XLEN = Calculated("Mul", x, y)
           /\ Calculated("Mulh", x, y) = Calculated("Mulhu", x, y)
           /\ Calculated("Mulhsu", x, y) = Calculated("Mulhu", x, y)
<1> DEFINE M == 2^XLEN
           z == x * y
           sx == Signed(x)
           sy == Signed(y)
<1>1. /\ Calculated("Mulhu", x, y) = z \div M /\ Calculated("Mul", x, y) = Truncated(z)
      /\ Calculated("Mulh", x, y) = z \div M /\ Calculated("Mulhsu", x, y) = z \div M
  BY DEF Calculated
<1>2. M \in Nat \ {0} /\ x \in Int /\ y \in Int /\ sx \in Int /\ sy \in Int
  BY WordSize, SignedValue DEF Word
<1>3. PICK k \in Int : sx = x + M * k
  BY SignedValue
<1>4. PICK l \in Int : sy = y + M * l
  BY SignedValue
<1>5. Truncated(z) = z % M /\ Truncated(sx * sy) = (sx * sy) % M
  BY DEF Truncated
<1> HIDE DEF M, sx, sy
<1>6. z \in Int /\ sx * sy \in Int
  BY <1>2
<1>7. sx * sy = z + M * (x * l + y * k + M * k * l)
  BY <1>2, <1>3, <1>4
<1>8. x * l + y * k + M * k * l \in Int
  BY <1>2
<1>9. Truncated(sx * sy) = Truncated(z)
  <2> DEFINE a == sx * sy
             n == x * l + y * k + M * k * l
  <2>1. a \in Int /\ n \in Int /\ a = z + M * n
    BY <1>6, <1>7, <1>8
  <2> HIDE DEF a, z, n
  <2>2. Truncated(a) = Truncated(z)
    BY <1>6, <2>1, SameWord DEF M
  <2> QED BY <2>2 DEF a
<1> HIDE DEF z
<1>10. z = M * (z \div M) + (z % M) /\ z \div M \in Int /\ z % M \in Int
  BY <1>2, <1>6, Division
<1>11. (z \div M) * M + (z % M) = z
  <2> DEFINE q == z \div M
             r == z % M
  <2> HIDE DEF q, r
  <2>1. q * M + r = z
    BY <1>2, <1>10 DEF q, r
  <2> QED BY <2>1 DEF q, r
<1> QED BY <1>1, <1>5, <1>9, <1>11 DEF M, z, sx, sy

(* The quotient and the remainder give the dividend back. *)
LEMMA DivisionExact ==
    ASSUME NEW x \in Word, NEW y \in Word
    PROVE  Calculated("Add", Calculated("Mul", Calculated("Div", x, y), y),
                      Calculated("Rem", x, y)) = x
<1> DEFINE M == 2^XLEN
           H == 2^(XLEN - 1)
           d == Div(x, y)
           r == Rem(x, y)
           m == Truncated(d * y)
<1>1. /\ Calculated("Div", x, y) = d /\ Calculated("Rem", x, y) = r
      /\ Calculated("Mul", d, y) = m /\ Calculated("Add", m, r) = Truncated(m + r)
  BY PlusValue DEF Calculated
<1>2. M \in Nat /\ H \in Nat /\ M = 2 * H /\ M >= 256 /\ x \in Int /\ y \in Int
      /\ d \in Int /\ r \in Int
  BY WordSize, DivisionWords DEF Word
<1>3. Truncated(x) = x
  BY <1>2, TruncatedValue
<1>4. SUFFICES Truncated(m + r) = x
  BY <1>1
<1>5. SUFFICES \E k \in Int : d * y + r = x + M * k
  <2>1. PICK k \in Int : d * y + r = x + M * k
    BY <1>5
  <2>2. d * y \in Int
    <3> HIDE DEF d
    <3> QED BY <1>2
  <2>3. PICK l \in Int : m = d * y + M * l
    BY <2>2, TruncatedValue
  <2>4. m \in Int
    BY <2>2, TruncatedValue, WordSize DEF Word
  <2> DEFINE z == d * y
             e == m + r
             n == k + l
  <2> HIDE DEF M, d, r, m, z
  <2>5. e = x + M * n /\ e \in Int /\ n \in Int
    BY <1>2, <2>1, <2>2, <2>3, <2>4 DEF z
  <2> HIDE DEF e, n
  <2>6. Truncated(e) = Truncated(x)
    BY <1>2, <2>5, SameWord DEF M
  <2> QED BY <1>3, <2>6 DEF e
<1>6. CASE y = 0
  <2>1. r = x
    BY <1>6, DivideByZero
  <2> HIDE DEF M, H, d, r
  <2>2. d * y + r = x + M * 0
    BY <1>2, <1>6, <2>1
  <2> QED BY <2>2
<1>7. CASE DivisionOverflow(x, y)
  <2>1. d = x /\ r = 0 /\ x = H /\ y = M - 1
    BY <1>7, DivideOverflow DEF AllOnes
  <2> HIDE DEF M, H, d, r
  <2>2. H * (2 * H - 1) = H + (2 * H) * (H - 1)
    BY <1>2
  <2>3. d * y + r = x + M * (H - 1)
    <3>1. d * y + r = H * (2 * H - 1)
      BY <1>2, <2>1
    <3>2. x + M * (H - 1) = H + (2 * H) * (H - 1)
      BY <1>2, <2>1
    <3> QED BY <2>2, <3>1, <3>2
  <2>4. H - 1 \in Int
    BY <1>2
  <2> QED BY <2>3, <2>4
<1>8. CASE y # 0 /\ ~ DivisionOverflow(x, y)
  <2> DEFINE sx == Signed(x)
             sy == Signed(y)
             Q == Quotient(sx, sy)
             R == sx - Q * sy
  <2>1. d = Truncated(Q) /\ r = Truncated(R) /\ sx \in Int /\ sy \in Int \ {0}
    BY <1>8, DivideSigned
  <2>2. Q \in Int
    BY <2>1, QuotientValue
  <2>3. PICK a \in Int : sx = x + M * a
    BY SignedValue
  <2>4. PICK b \in Int : sy = y + M * b
    BY SignedValue
  <2> HIDE DEF sx, sy, Q
  <2>5. R \in Int
    BY <2>1, <2>2
  <2>6. PICK i \in Int : d = Q + M * i
    BY <2>1, <2>2, TruncatedValue
  <2> HIDE DEF d
  <2>7. PICK j \in Int : r = R + M * j
    BY <2>1, <2>5, TruncatedValue
  <2> HIDE DEF r, M
  <2>8. d * y + r = x + M * (i * y + a - Q * b + j)
    <3>1. d * y = Q * y + M * (i * y)
      BY <1>2, <2>2, <2>6
    <3>2. Q * sy = Q * y + M * (Q * b)
      BY <1>2, <2>2, <2>4
    <3>3. r = x + M * a - Q * sy + M * j
      BY <1>2, <2>1, <2>2, <2>3, <2>7
    <3> DEFINE u == Q * y
               v == Q * b
               t == i * y
    <3>4. u \in Int /\ v \in Int /\ t \in Int
      BY <1>2, <2>2
    <3>5. d * y = u + M * t /\ Q * sy = u + M * v
      BY <3>1, <3>2
    <3> HIDE DEF u, v, t
    <3>6. d * y + r = u + M * t + (x + M * a - (u + M * v) + M * j)
      BY <3>3, <3>5
    <3>7. d * y + r = x + M * (t + a - v + j)
      BY <1>2, <3>4, <3>6
    <3> QED BY <3>7 DEF t, v
  <2>9. i * y + a - Q * b + j \in Int
    BY <1>2, <2>2
  <2> QED BY <2>8, <2>9
<1> QED BY <1>6, <1>7, <1>8

(* The remainder is smaller than the divisor and has the dividend's sign. *)
LEMMA RemainderExact ==
    ASSUME NEW x \in Word, NEW y \in Word, y # 0
    PROVE  /\ Magnitude(Signed(Calculated("Rem", x, y))) < Magnitude(Signed(y))
           /\ Signed(Calculated("Rem", x, y)) # 0
                  => (Signed(Calculated("Rem", x, y)) < 0 <=> Signed(x) < 0)
<1> DEFINE sx == Signed(x)
           sy == Signed(y)
           sr == Signed(Rem(x, y))
<1>1. Calculated("Rem", x, y) = Rem(x, y)
  BY DEF Calculated
<1>2. sx \in Int /\ sy \in Int /\ (sy = 0 <=> y = 0)
  BY SignedValue
<1>3. /\ sr \in Int /\ Magnitude(sr) < Magnitude(sy)
      /\ sx >= 0 => sr >= 0
      /\ sx <= 0 => sr <= 0
  <2>1. CASE DivisionOverflow(x, y)
    <3>1. Rem(x, y) = 0 /\ sy = -1 /\ 0 \in Word
      BY <2>1, DivideOverflow, WordSize
    <3>2. sr = 0
      BY <3>1, SignedValue
    <3> HIDE DEF sx, sy, sr
    <3> QED BY <3>1, <3>2 DEF Magnitude
  <2>2. CASE ~ DivisionOverflow(x, y)
    <3>1. sr = sx - Quotient(sx, sy) * sy /\ sy \in Int \ {0}
      BY <2>2, DivideSigned
    <3> HIDE DEF sx, sy, sr
    <3> QED BY <1>2, <3>1, QuotientValue
  <2> QED BY <2>1, <2>2
<1> HIDE DEF sx, sy, sr
<1>4. sr # 0 => (sr < 0 <=> sx < 0)
  BY <1>2, <1>3
<1> QED BY <1>1, <1>3, <1>4 DEF sx, sy, sr

LEMMA UnsignedExact ==
    ASSUME NEW x \in Word, NEW y \in Word
    PROVE  /\ y # 0 => /\ Calculated("Divu", x, y) * y + Calculated("Remu", x, y) = x
                       /\ Calculated("Remu", x, y) < y
           /\ Calculated("Czero_eqz", x, y) + Calculated("Czero_nez", x, y) = x
<1>1. x \in Int /\ y \in Nat
  BY WordSize DEF Word
<1>2. ASSUME y # 0
      PROVE  /\ Calculated("Divu", x, y) * y + Calculated("Remu", x, y) = x
             /\ Calculated("Remu", x, y) < y
  <2> DEFINE q == x \div y
             r == x % y
  <2>1. Calculated("Divu", x, y) = q /\ Calculated("Remu", x, y) = r
    BY <1>2 DEF Calculated
  <2>2. q \in Int /\ r \in 0 .. y - 1 /\ x = y * q + r
    <3>1. y \in Nat \ {0}
      BY <1>1, <1>2
    <3> QED BY <1>1, <3>1, Division
  <2> HIDE DEF q, r
  <2>3. q * y + r = x /\ r < y
    BY <1>1, <2>2
  <2> QED BY <2>1, <2>3
<1>3. Calculated("Czero_eqz", x, y) + Calculated("Czero_nez", x, y) = x
  <2>1. /\ Calculated("Czero_eqz", x, y) = (IF y = 0 THEN 0 ELSE x)
        /\ Calculated("Czero_nez", x, y) = (IF y # 0 THEN 0 ELSE x)
    BY DEF Calculated
  <2> QED BY <1>1, <2>1
<1> QED BY <1>2, <1>3

(***************************************************************************)
(* Whatever the width of the machine and the two operands, the operations  *)
(* of the ALU are the operations on numbers (alu.cpp:12-151).              *)
(***************************************************************************)
THEOREM OperationsAreExact == \A x, y \in Word : Exact(x, y)
<1> SUFFICES ASSUME NEW x \in Word, NEW y \in Word PROVE Exact(x, y)
  OBVIOUS
<1>1. /\ Calculated("Add", x, y) = (Signed(x) + Signed(y)) % 2^XLEN
      /\ Calculated("Add", x, y)
             = (Calculated("Or", x, y) + Calculated("And", x, y)) % 2^XLEN
  BY AddExact
<1>2. Calculated("Add", Calculated("Sub", x, y), y) = x
  BY SubExact
<1>3. Calculated("Xor", Calculated("Xor", x, y), y) = x
  BY XorExact
<1>4. /\ Calculated("Sll", x, y) % 2^(y % XLEN) = 0
      /\ Calculated("Sll", x, y) \div 2^(y % XLEN) = x % 2^(XLEN - (y % XLEN))
      /\ Calculated("Srl", x, y) = x \div 2^(y % XLEN)
      /\ Signed(Calculated("Sra", x, y)) = Signed(x) \div 2^(y % XLEN)
  BY ShiftsExact
<1>5. /\ Calculated("Slt", x, y) = BoolWord(Signed(x) - Signed(y) < 0)
      /\ Calculated("Sltu", x, y) = BoolWord(x - y < 0)
  BY ComparisonsExact
<1>6. /\ Calculated("Mulhu", x, y) * 2^XLEN + Calculated("Mul", x, y) = x * y
      /\ (Signed(x) * Signed(y)) % 2^XLEN = Calculated("Mul", x, y)
      /\ Signed(x) >= 0 /\ Signed(y) >= 0
             => /\ Calculated("Mulh", x, y) = Calculated("Mulhu", x, y)
                /\ Calculated("Mulhsu", x, y) = Calculated("Mulhu", x, y)
  BY ProductsExact
<1>7. Calculated("Add", Calculated("Mul", Calculated("Div", x, y), y),
                 Calculated("Rem", x, y)) = x
  BY DivisionExact
<1>8. y # 0 => /\ Magnitude(Signed(Calculated("Rem", x, y))) < Magnitude(Signed(y))
               /\ Signed(Calculated("Rem", x, y)) # 0
                      => (Signed(Calculated("Rem", x, y)) < 0 <=> Signed(x) < 0)
  BY RemainderExact
<1>9. /\ y # 0 => /\ Calculated("Divu", x, y) * y + Calculated("Remu", x, y) = x
                  /\ Calculated("Remu", x, y) < y
      /\ Calculated("Czero_eqz", x, y) + Calculated("Czero_nez", x, y) = x
  BY UnsignedExact
<1> QED BY <1>1, <1>2, <1>3, <1>4, <1>5, <1>6, <1>7, <1>8, <1>9, Zenon
        DEF Exact, Magnitude

-----------------------------------------------------------------------------
-----------------------------------------------------------------------------
(* What the decoder makes of an instruction *)

Registers == {reg \in [Register -> Word] : reg[0] = 0}

AccessType == [memory : {"None", "Load", "Store"}, address : Word]

IsDecoded(d) ==
    /\ d.dest \in Register /\ d.alu \in Word /\ d.store \in Word
    /\ d.writeback \in {"None", "Alu", "Pc_plus_4", "Memory", "Csr"}
    /\ d.memory \in {"None", "Load", "Store"}
    /\ d.access.mode \in {"None", "Overwrite", "Set", "Clear"}
    /\ d.access.value \in Word
    /\ d.mret => ~ d.branch

LEMMA PlusType ==
    ASSUME NEW a \in Int, NEW b \in Int
    PROVE  Plus(a, b) \in Word
  BY PlusValue, TruncatedValue

LEMMA PlainType ==
    /\ Plain.writeback = "None" /\ Plain.dest = 0 /\ Plain.alu = 0 /\ Plain.branch = FALSE
    /\ Plain.memory = "None" /\ Plain.store = 0 /\ Plain.ecall = FALSE /\ Plain.mret = FALSE
    /\ Plain.access = NoAccess /\ NoAccess.mode = "None" /\ NoAccess.value = 0
    /\ NoCsrAccess(NoAccess)
  BY DEF Plain, NoAccess, NoCsrAccess

LEMMA InstructionFields ==
    ASSUME NEW i \in Instruction
    PROVE  /\ i.op \in {"lui", "auipc", "jal", "alu", "op", "branch", "jalr", "load", "store",
                        "csr", "ecall", "mret", "illegal"}
           /\ i.op \in {"lui", "auipc", "jal"} => i.rd \in Register /\ i.imm \in Word
           /\ i.op = "alu" => /\ i.opcode \in Opcodes /\ i.rd \in Register
                              /\ i.rs1 \in Register /\ i.imm \in Word
           /\ i.op = "op" => /\ i.opcode \in Opcodes /\ i.rd \in Register
                             /\ i.rs1 \in Register /\ i.rs2 \in Register
           /\ i.op = "branch" => /\ i.rs1 \in Register /\ i.rs2 \in Register
                                 /\ i.imm \in Word
           /\ i.op \in {"jalr", "load"} => /\ i.rd \in Register /\ i.rs1 \in Register
                                           /\ i.imm \in Word
           /\ i.op = "store" => /\ i.rs1 \in Register /\ i.rs2 \in Register
                                /\ i.imm \in Word
           /\ i.op = "csr" => /\ i.mode \in {"Overwrite", "Set", "Clear"}
                              /\ i.rd \in Register
                              /\ ~ i.immediate => i.rs1 \in Register
                              /\ i.immediate => i.rs1 \in 0 .. 31
  BY DEF Instruction

LEMMA CsrOperandType ==
    ASSUME NEW i \in Instruction, i.op = "csr", NEW reg \in Registers
    PROVE  CsrOperand(i, reg) \in Word
<1>1. 2^XLEN \in Nat /\ 2^XLEN >= 256
  BY WordSize
<1>2. CASE ~ i.immediate
  BY <1>2, InstructionFields DEF CsrOperand, Registers
<1>3. CASE i.immediate
  <2>1. i.rs1 \in 0 .. 31
    BY <1>3, InstructionFields
  <2>2. (CsrOperand(i, reg) = i.rs1 + 2^XLEN - 32 /\ i.rs1 >= 16) \/ CsrOperand(i, reg) = i.rs1
    BY <1>3 DEF CsrOperand
  <2> QED BY <1>1, <2>1, <2>2 DEF Word
<1> QED BY <1>2, <1>3

LEMMA DecodedType ==
    ASSUME NEW i \in Instruction, i.op # "illegal", NEW reg \in Registers, NEW at \in Word
    PROVE  IsDecoded(Decoded(i, reg, at))
<1> DEFINE d == Decoded(i, reg, at)
<1>1. at \in Int /\ 0 \in Word /\ 0 \in Register /\ Word \subseteq Int
  BY RegisterAssumption, WordSize DEF Word
<1>2. ASSUME NEW r \in Register PROVE reg[r] \in Word /\ reg[r] \in Int
  BY <1>1 DEF Registers
<1> HIDE DEF Word
<1>3. CASE i.op = "lui" \/ i.op = "auipc"
  <2>1. PICK base \in Word : d = DecodeUpper(i, base)
    BY <1>1, <1>3 DEF Decoded
  <2> HIDE DEF d
  <2>2. Plus(base, i.imm) \in Word /\ i.rd \in Register
    BY <1>1, <1>3, InstructionFields, PlusType
  <2>3. /\ d.writeback = "Alu" /\ d.dest = i.rd /\ d.alu = Plus(base, i.imm)
        /\ d.memory = Plain.memory /\ d.store = Plain.store /\ d.access = Plain.access
        /\ d.mret = Plain.mret
    BY <2>1 DEF DecodeUpper, Plain
  <2> QED BY <1>1, <2>2, <2>3, PlainType DEF IsDecoded, d
<1>4. CASE i.op = "alu" \/ i.op = "op"
  <2>1. PICK y \in Word : d = [Plain EXCEPT !.writeback = "Alu", !.dest = i.rd,
                                            !.alu = Calculated(i.opcode, reg[i.rs1], y)]
    BY <1>2, <1>4, InstructionFields DEF Decoded, DecodeRegisterImm, DecodeRegisterRegister
  <2> HIDE DEF d
  <2>2. Calculated(i.opcode, reg[i.rs1], y) \in Word /\ i.rd \in Register
    BY <1>2, <1>4, InstructionFields, CalculatedType
  <2>3. /\ d.writeback = "Alu" /\ d.dest = i.rd /\ d.alu = Calculated(i.opcode, reg[i.rs1], y)
        /\ d.memory = Plain.memory /\ d.store = Plain.store /\ d.access = Plain.access
        /\ d.mret = Plain.mret
    BY <2>1 DEF Plain
  <2> QED BY <1>1, <2>2, <2>3, PlainType DEF IsDecoded, d
<1>5. CASE i.op = "branch"
  <2>1. d = DecodeBranch(i, reg, at)
    BY <1>5 DEF Decoded
  <2> HIDE DEF d
  <2>2. Plus(at, i.imm) \in Word
    BY <1>1, <1>5, InstructionFields, PlusType
  <2>3. /\ d.writeback = Plain.writeback /\ d.dest = Plain.dest /\ d.alu = Plus(at, i.imm)
        /\ d.memory = Plain.memory /\ d.store = Plain.store /\ d.access = Plain.access
        /\ d.mret = Plain.mret
    BY <2>1 DEF DecodeBranch, Plain
  <2> QED BY <1>1, <2>2, <2>3, PlainType DEF IsDecoded, d
<1>6. CASE i.op = "jal" \/ i.op = "jalr"
  <2>1. PICK base \in Word : d = [Plain EXCEPT !.writeback = "Pc_plus_4", !.dest = i.rd,
                                               !.alu = Plus(base, i.imm), !.branch = TRUE]
    BY <1>1, <1>2, <1>6, InstructionFields DEF Decoded, DecodeJal, DecodeJalr
  <2> HIDE DEF d
  <2>2. Plus(base, i.imm) \in Word /\ i.rd \in Register
    BY <1>1, <1>6, InstructionFields, PlusType
  <2>3. /\ d.writeback = "Pc_plus_4" /\ d.dest = i.rd /\ d.alu = Plus(base, i.imm)
        /\ d.memory = Plain.memory /\ d.store = Plain.store /\ d.access = Plain.access
        /\ d.mret = Plain.mret
    BY <2>1 DEF Plain
  <2> QED BY <1>1, <2>2, <2>3, PlainType DEF IsDecoded, d
<1>7. CASE i.op = "load"
  <2>1. d = DecodeLoad(i, reg)
    BY <1>7 DEF Decoded
  <2> HIDE DEF d
  <2>2. Plus(reg[i.rs1], i.imm) \in Word /\ i.rd \in Register
    BY <1>1, <1>2, <1>7, InstructionFields, PlusType
  <2>3. /\ d.writeback = "Memory" /\ d.dest = i.rd /\ d.alu = Plus(reg[i.rs1], i.imm)
        /\ d.memory = "Load" /\ d.store = Plain.store /\ d.access = Plain.access
        /\ d.mret = Plain.mret
    BY <2>1 DEF DecodeLoad, Plain
  <2> QED BY <1>1, <2>2, <2>3, PlainType DEF IsDecoded, d
<1>8. CASE i.op = "store"
  <2>1. d = DecodeStore(i, reg)
    BY <1>8 DEF Decoded
  <2> HIDE DEF d
  <2>2. Plus(reg[i.rs1], i.imm) \in Word /\ reg[i.rs2] \in Word
    BY <1>1, <1>2, <1>8, InstructionFields, PlusType
  <2>3. /\ d.writeback = Plain.writeback /\ d.dest = Plain.dest
        /\ d.alu = Plus(reg[i.rs1], i.imm) /\ d.memory = "Store"
        /\ d.store = reg[i.rs2] /\ d.access = Plain.access /\ d.mret = Plain.mret
    BY <2>1 DEF DecodeStore, Plain
  <2> QED BY <1>1, <2>2, <2>3, PlainType DEF IsDecoded, d
<1>9. CASE i.op = "csr"
  <2>1. d = DecodeCsr(i, reg)
    BY <1>9 DEF Decoded
  <2> HIDE DEF d
  <2>2. CsrOperand(i, reg) \in Word /\ i.rd \in Register /\ i.mode \in {"Overwrite", "Set", "Clear"}
    BY <1>9, InstructionFields, CsrOperandType
  <2>3. /\ d.writeback = "Csr" /\ d.dest = i.rd /\ d.alu = Plain.alu
        /\ d.memory = Plain.memory /\ d.store = Plain.store
        /\ d.access.mode \in {i.mode, "None"} /\ d.access.value = CsrOperand(i, reg)
        /\ d.mret = Plain.mret
    BY <2>1 DEF DecodeCsr, Plain
  <2> QED BY <1>1, <2>2, <2>3, PlainType DEF IsDecoded, d
<1>10. CASE i.op = "ecall" \/ i.op = "mret"
  <2>1. d = [Plain EXCEPT !.ecall = TRUE] \/ d = [Plain EXCEPT !.mret = TRUE]
    BY <1>10 DEF Decoded
  <2> HIDE DEF d
  <2>2. /\ d.writeback = Plain.writeback /\ d.dest = Plain.dest /\ d.alu = Plain.alu
        /\ d.memory = Plain.memory /\ d.store = Plain.store /\ d.access = Plain.access
        /\ d.branch = Plain.branch
    BY <2>1 DEF Plain
  <2> QED BY <1>1, <2>2, PlainType DEF IsDecoded, d
<1> QED BY <1>3, <1>4, <1>5, <1>6, <1>7, <1>8, <1>9, <1>10, InstructionFields

-----------------------------------------------------------------------------
(* The control and status registers *)

CsrStates == [Csrs -> Word]

LEMMA MstatusType ==
    ASSUME NEW mie, NEW mpie, NEW mpp
    PROVE  Mstatus(mie, mpie, mpp) \in Word
  BY WordOfType DEF Mstatus

(* The bits of mstatus that handle_trap and mret look at and write. *)
LEMMA MstatusBits ==
    ASSUME NEW c, NEW mie \in BOOLEAN, NEW mpie \in BOOLEAN,
           NEW mpp \in SUBSET MachineMode,
           c["mstatus"] = Mstatus(mie, mpie, mpp)
    PROVE  (Mie(c) <=> mie) /\ (Mpie(c) <=> mpie)
<1> DEFINE bits == (IF mie THEN {3} ELSE {}) \cup (IF mpie THEN {7} ELSE {}) \cup mpp
<1>1. BitsOf[c["mstatus"]] = bits \cap (0 .. XLEN - 1)
  <2>1. c["mstatus"] = WordOf(bits)
    BY DEF Mstatus
  <2> HIDE DEF bits
  <2> QED BY <2>1, BitsOfWordOf
<1>2. 3 \in 0 .. XLEN - 1 /\ 7 \in 0 .. XLEN - 1
  BY XLENAssumption
<1>3. 3 \notin mpp /\ 7 \notin mpp
  BY DEF MachineMode
<1>4. (3 \in bits <=> mie) /\ (7 \in bits <=> mpie)
  BY <1>3
<1> HIDE DEF bits
<1> QED BY <1>1, <1>2, <1>4 DEF Mie, Mpie, Has

LEMMA TickedCsr ==
    ASSUME NEW c \in CsrStates, NEW after \in Ticked(c)
    PROVE  /\ after \in CsrStates
           /\ \A name \in Csrs : name # "mip" => after[name] = c[name]
<1>1. WordOf(BitsOf[c["mip"]] \cup {7}) \in Word
  BY WordOfType
<1> QED BY <1>1 DEF Ticked, CsrStates

LEMMA NewValueType ==
    ASSUME NEW access, NEW c
    PROVE  NewValue(access, c) \in Word
  BY WordOfType DEF NewValue, ForceLegal, Masked

LEMMA CsrAfterType ==
    ASSUME NEW access, NEW c \in CsrStates
    PROVE  CsrAfter(access, c) \in CsrStates
  BY NewValueType DEF CsrAfter, CsrStates

LEMMA CsrResultType ==
    ASSUME NEW access, NEW c \in CsrStates, ~ CsrFails(access)
    PROVE  CsrResult(access, c) \in Word
<1>1. CASE NoCsrAccess(access)
  BY <1>1, WordSize DEF CsrResult
<1>2. CASE ~ NoCsrAccess(access)
  <2>1. access.address \in Csrs
    BY <1>2 DEF CsrFails
  <2> QED BY <1>2, <2>1, NewValueType DEF CsrResult, CsrStates
<1> QED BY <1>1, <1>2

-----------------------------------------------------------------------------
(* The steps of a cycle *)

Results == [pc : Word, trap : Traps \cup {NoTrap}, loops : BOOLEAN, access : AccessType]

LEMMA TypeParts ==
    TypeOK <=> /\ pc \in Word /\ registers \in Registers /\ csr \in CsrStates
               /\ memory \in [Data -> Word] /\ result \in Results
  BY DEF TypeOK, Registers, CsrStates, Results, AccessType

LEMMA AccessOfType ==
    ASSUME NEW d, d.memory \in {"None", "Load", "Store"}, NEW address \in Word
    PROVE  AccessOf(d, address) \in AccessType
<1>1. 0 \in Word
  BY WordSize
<1> QED BY <1>1 DEF AccessOf, NoMemory, AccessType

LEMMA TrappedCsr ==
    ASSUME NEW c \in CsrStates, NEW trap, NEW tval, NEW after, after = Trapped(c, trap, tval)
    PROVE  /\ after["mstatus"] = Mstatus(FALSE, Mie(c), MachineMode)
           /\ after["mepc"] = pc /\ after["mcause"] = trap
           /\ after["mscratch"] = c["mscratch"]
           /\ pc \in Word /\ trap \in Word /\ tval \in Word => after \in CsrStates
<1>1. Mstatus(FALSE, Mie(c), MachineMode) \in Word
  BY MstatusType
<1> HIDE DEF Word
<1> QED BY <1>1 DEF Trapped, CsrStates, Csrs, Writable, ReadOnly

LEMMA TrapsAreWords ==
    /\ Traps \subseteq Word /\ NoTrap \notin Traps
    /\ \A trap \in Exceptions : ~ IsInterrupt(trap)
<1>1. /\ 2^XLEN \in Nat /\ 2^(XLEN - 1) \in Nat /\ 2^XLEN = 2 * 2^(XLEN - 1)
      /\ 2^XLEN >= 256
  BY WordSize
<1> QED BY <1>1 DEF Traps, Exceptions, Word, MachineTimerInterrupt, InterruptBit, NoTrap,
              IsInterrupt, InstAddressMisaligned, InstAccessFault, IllegalInstruction,
              LoadAddressMisaligned, LoadAccessFault, StoreAddressMisaligned,
              StoreAccessFault, EnvCallFromMMode

LEMMA TrapTargetType ==
    ASSUME NEW c \in CsrStates, NEW trap \in Traps
    PROVE  TrapTarget(c, trap) \in Word
<1> DEFINE w == c["mtvec"]
           base == 4 * (w \div 4)
<1>1. w \in Word
  BY DEF CsrStates, Csrs, Writable, ReadOnly
<1>2. /\ 2^XLEN \in Nat /\ 2^(XLEN - 1) \in Nat
  BY WordSize
<1>3. base \in Int /\ base >= 0 /\ base <= w
  BY <1>1, <1>2 DEF Word
<1>4. base \in Word
  BY <1>1, <1>2, <1>3 DEF Word
<1>5. 4 * (trap - InterruptBit) \in Int
  BY <1>2, TrapsAreWords DEF Word, InterruptBit
<1>6. Plus(base, 4 * (trap - InterruptBit)) \in Word
  BY <1>3, <1>5, PlusType
<1> QED BY <1>4, <1>6 DEF TrapTarget

LEMMA WrittenBackType ==
    ASSUME NEW d, IsDecoded(d), NEW at \in Word, NEW reg \in Registers,
           NEW loaded \in Word, NEW read \in Word
    PROVE  WrittenBack(d, at, reg, loaded, read) \in Registers
<1> DEFINE value == CASE d.writeback = "Pc_plus_4" -> Plus(at, 4)
                      [] d.writeback = "Alu"       -> d.alu
                      [] d.writeback = "Memory"    -> loaded
                      [] d.writeback = "Csr"       -> read
<1>1. CASE d.dest = 0 \/ d.writeback = "None"
  BY <1>1 DEF WrittenBack
<1>2. CASE d.dest # 0 /\ d.writeback # "None"
  <2>1. at \in Int /\ 4 \in Int
    BY WordSize DEF Word
  <2>2. Plus(at, 4) \in Word
    BY <2>1, PlusType
  <2>3. value \in Word
    BY <1>2, <2>2 DEF IsDecoded
  <2>4. WrittenBack(d, at, reg, loaded, read) = [reg EXCEPT ![d.dest] = value]
    BY <1>2 DEF WrittenBack
  <2>5. PICK r : r = d.dest /\ r \in Register /\ r # 0
    BY <1>2 DEF IsDecoded
  <2> HIDE DEF value
  <2>6. [reg EXCEPT ![r] = value] \in Registers
    <3>1. reg \in [Register -> Word] /\ reg[0] = 0 /\ 0 \in Register
      BY RegisterAssumption DEF Registers
    <3> HIDE DEF Word
    <3> QED BY <2>3, <2>5, <3>1 DEF Registers
  <2> QED BY <2>4, <2>5, <2>6
<1> QED BY <1>1, <1>2

(* The end of a cycle in a trap keeps the types, and the trap is precise. *)
LEMMA TakeTrapKeeps ==
    ASSUME TypeOK, NEW trap \in Traps, NEW tval \in Word, NEW access \in AccessType,
           TakeTrap(trap, tval, access)
    PROVE  TypeOK'
<1>1. pc \in Word /\ csr \in CsrStates
  BY TypeParts
<1> DEFINE c == Trapped(csr, trap, tval)
<1>2. c \in CsrStates
  BY <1>1, TrappedCsr, TrapsAreWords
<1>3. csr' \in CsrStates
  <2> HIDE DEF c
  <2>1. csr' \in Ticked(c)
    BY DEF TakeTrap, c
  <2> QED BY <1>2, <2>1, TickedCsr
<1>4. pc' \in Word
  BY <1>1, TrapTargetType DEF TakeTrap
<1>5. result' \in Results
  BY <1>1 DEF TakeTrap, Results
<1>6. registers' = registers /\ memory' = memory
  BY DEF TakeTrap
<1> QED BY <1>3, <1>4, <1>5, <1>6, TypeParts DEF TypeOK, Registers, CsrStates, Results, AccessType

LEMMA CurrentType ==
    ASSUME TypeOK, Legal
    PROVE  IsDecoded(Current)
<1>1. Image[pc] \in Instruction /\ Image[pc].op # "illegal"
  BY ImageAssumption DEF Legal, Fetchable
<1>2. pc \in Word /\ registers \in Registers
  BY TypeParts
<1> QED BY <1>1, <1>2, DecodedType DEF Current

(* The trap that each stage of execute may end in. *)
IsTrapStep == \E trap \in Traps, tval \in Word, access \in AccessType :
                  TakeTrap(trap, tval, access)

LEMMA CycleIsTrapOrRetire ==
    ASSUME TypeOK, Cycle
    PROVE  IsTrapStep \/ Retire
<1>1. NoMemory \in AccessType /\ 0 \in Word
  BY WordSize DEF NoMemory, AccessType
<1>2. /\ Exceptions \subseteq Traps /\ MachineTimerInterrupt \in Traps
      /\ {InstAddressMisaligned, InstAccessFault, IllegalInstruction, LoadAddressMisaligned,
          LoadAccessFault, StoreAddressMisaligned, StoreAccessFault, EnvCallFromMMode}
             = Exceptions
  BY DEF Traps, Exceptions
<1>3. Fetchable => Encoding[pc] \in Word
  BY ImageAssumption DEF Fetchable
<1>4. CASE InstFault
  <2>1. PICK w \in Indeterminate :
            TakeTrap(IF pc % 4 # 0 THEN InstAddressMisaligned ELSE InstAccessFault, w, NoMemory)
    BY <1>4 DEF InstFault
  <2>2. w \in Word
    BY ValuesAssumption
  <2>3. (IF pc % 4 # 0 THEN InstAddressMisaligned ELSE InstAccessFault) \in Traps
    BY <1>2
  <2> QED BY <1>1, <2>1, <2>2, <2>3 DEF IsTrapStep
<1>5. CASE DecodeFault
  BY <1>1, <1>2, <1>3, <1>5 DEF DecodeFault, IsTrapStep
<1>6. CASE EnvCall
  BY <1>1, <1>2, <1>6 DEF EnvCall, IsTrapStep
<1>7. CASE TimerInterrupt
  <2>1. PICK w \in Indeterminate :
            TakeTrap(MachineTimerInterrupt, 0, AccessOf(Current, w))
    BY <1>7 DEF TimerInterrupt
  <2>2. AccessOf(Current, w) \in AccessType
    BY <1>7, ValuesAssumption, CurrentType, AccessOfType DEF TimerInterrupt, IsDecoded
  <2> QED BY <1>1, <1>2, <2>1, <2>2 DEF IsTrapStep
<1>8. CASE CsrFault
  BY <1>1, <1>2, <1>3, <1>8 DEF CsrFault, Executes, Legal, IsTrapStep
<1>9. CASE MemoryFault
  <2>1. TakeTrap(AccessTrap(Current), Current.alu, AccessOf(Current, Current.alu))
    BY <1>9 DEF MemoryFault
  <2>2. IsDecoded(Current)
    BY <1>9, CurrentType DEF MemoryFault, Executes
  <2> DEFINE d == Current
  <2>3. IsDecoded(d) /\ d.memory # "None"
    BY <1>9, <2>2 DEF MemoryFault, AccessFails
  <2> HIDE DEF d
  <2>4. AccessTrap(d) \in Traps /\ d.alu \in Word /\ AccessOf(d, d.alu) \in AccessType
    BY <1>2, <2>3, AccessOfType DEF AccessTrap, IsDecoded
  <2> QED BY <2>1, <2>4 DEF IsTrapStep, d
<1> QED BY <1>4, <1>5, <1>6, <1>7, <1>8, <1>9 DEF Cycle

(* What a step that retires an instruction does to each variable. *)
LEMMA RetireKeeps ==
    ASSUME TypeOK, Retire
    PROVE  TypeOK' /\ result'.trap = NoTrap
<1>1. /\ pc \in Word /\ registers \in Registers /\ csr \in CsrStates
      /\ memory \in [Data -> Word]
  BY TypeParts
<1>2. IsDecoded(Current)
  BY CurrentType DEF Retire, Executes
<1>3. PICK d :
        /\ IsDecoded(d)
        /\ ~ CsrFails(d.access) /\ ~ AccessFails(d)
        /\ memory' = Stored(d, memory)
        /\ registers' = WrittenBack(d, pc, registers, LoadedValue(d, memory),
                                    CsrResult(d.access, csr))
        /\ csr' \in Ticked(IF d.mret THEN Returned(csr) ELSE CsrAfter(d.access, csr))
        /\ pc' = IF d.mret THEN csr["mepc"] ELSE NextPc(d, pc)
        /\ result' = [pc |-> pc, trap |-> NoTrap, loops |-> Loops(d),
                      access |-> AccessOf(d, d.alu)]
  BY <1>2 DEF Retire
<1>4. pc \in Int /\ 4 \in Int /\ 0 \in Word /\ 0 \in Register
  BY <1>1, WordSize, RegisterAssumption DEF Word
<1>5. Plus(pc, 4) \in Word
  BY <1>4, PlusType
<1>6. memory' \in [Data -> Word]
  BY <1>1, <1>3 DEF Stored, IsDecoded
<1>7. registers' \in Registers
  <2>1. LoadedValue(d, memory) \in Word
    BY <1>1, <1>3, <1>4 DEF LoadedValue, AccessFails, IsDecoded
  <2>2. CsrResult(d.access, csr) \in Word
    BY <1>1, <1>3, CsrResultType
  <2> DEFINE loaded == LoadedValue(d, memory)
             read == CsrResult(d.access, csr)
  <2>3. registers' = WrittenBack(d, pc, registers, loaded, read)
    BY <1>3
  <2> HIDE DEF loaded, read
  <2> QED BY <1>1, <1>3, <2>1, <2>2, <2>3, WrittenBackType DEF loaded, read
<1>8. csr' \in CsrStates
  <2>1. Returned(csr) \in CsrStates
    BY <1>1, MstatusType DEF Returned, CsrStates
  <2>2. CsrAfter(d.access, csr) \in CsrStates
    BY <1>1, CsrAfterType
  <2> DEFINE c == IF d.mret THEN Returned(csr) ELSE CsrAfter(d.access, csr)
  <2>3. c \in CsrStates /\ csr' \in Ticked(c)
    BY <1>3, <2>1, <2>2
  <2> HIDE DEF c
  <2> QED BY <2>3, TickedCsr
<1>9. pc' \in Word
  BY <1>1, <1>3, <1>5 DEF NextPc, IsDecoded, CsrStates, Csrs, Writable
<1>10. result' \in Results
  <2>1. AccessOf(d, d.alu) \in AccessType
    BY <1>3, AccessOfType DEF IsDecoded
  <2>2. Loops(d) \in BOOLEAN
    BY DEF Loops
  <2> QED BY <1>1, <1>3, <2>1, <2>2 DEF Results
<1>11. result'.trap = NoTrap
  BY <1>3
<1> QED BY <1>6, <1>7, <1>8, <1>9, <1>10, <1>11
        DEF TypeOK, Registers, CsrStates, Results, AccessType

LEMMA InitType == Init => TypeOK
<1> SUFFICES ASSUME Init PROVE TypeOK
  OBVIOUS
<1>1. 0 \in Word
  BY WordSize
<1>2. pc \in Word
  BY ImageAssumption DEF Init
<1>3. registers \in Registers
  BY <1>1, RegisterAssumption DEF Init, Registers
<1>4. csr \in CsrStates
  BY <1>1, MstatusType DEF Init, CsrStates
<1>5. memory \in [Data -> Word]
  BY ValuesAssumption DEF Init
<1>6. result \in Results
  BY <1>1 DEF Init, Results, NoMemory, AccessType
<1> QED BY <1>2, <1>3, <1>4, <1>5, <1>6, TypeParts

LEMMA CycleKeepsType == TypeOK /\ [Cycle]_vars => TypeOK'
<1> SUFFICES ASSUME TypeOK, [Cycle]_vars PROVE TypeOK'
  OBVIOUS
<1>1. CASE IsTrapStep
  BY <1>1, TakeTrapKeeps DEF IsTrapStep
<1>2. CASE Retire
  BY <1>2, RetireKeeps
<1>3. CASE UNCHANGED vars
  BY <1>3 DEF vars, TypeOK
<1> QED BY <1>1, <1>2, <1>3, CycleIsTrapOrRetire

(***************************************************************************)
(* No cycle takes the machine out of its types, whatever the program and   *)
(* whenever the clock raises its interrupt: every register, CSR and word   *)
(* of memory holds a word and register 0 holds zero                        *)
(* (lib/core/cpu.cpp:5-183).                                               *)
(***************************************************************************)
THEOREM MachineTypesCorrect == Spec => []TypeOK
  BY InitType, CycleKeepsType, PTL DEF Spec

(* What a cycle that ends in a trap leaves alone and what it remembers. *)
Precise ==
    result'.trap # NoTrap =>
        /\ registers' = registers /\ memory' = memory
        /\ csr'["mepc"] = pc /\ csr'["mscratch"] = csr["mscratch"]
        /\ ~ Mie(csr') /\ Mpie(csr') = Mie(csr)

LEMMA CycleIsPrecise == TypeOK /\ Cycle => Precise
<1> SUFFICES ASSUME TypeOK, Cycle PROVE Precise
  OBVIOUS
<1>1. CASE Retire
  BY <1>1, RetireKeeps DEF Precise
<1>2. ASSUME NEW trap \in Traps, NEW tval \in Word, NEW access \in AccessType,
             TakeTrap(trap, tval, access)
      PROVE  Precise
  <2> DEFINE c == Trapped(csr, trap, tval)
  <2>1. csr \in CsrStates /\ pc \in Word
    BY TypeParts
  <2> HIDE DEF c
  <2>2. /\ c \in CsrStates
        /\ c["mstatus"] = Mstatus(FALSE, Mie(csr), MachineMode)
        /\ c["mepc"] = pc /\ c["mscratch"] = csr["mscratch"]
    <3>1. trap \in Word
      BY TrapsAreWords
    <3>2. c = Trapped(csr, trap, tval)
      BY DEF c
    <3>3. /\ c["mstatus"] = Mstatus(FALSE, Mie(csr), MachineMode)
          /\ c["mepc"] = pc /\ c["mscratch"] = csr["mscratch"]
      BY <2>1 DEF c, Trapped, CsrStates, Csrs, Writable
    <3>4. c \in CsrStates
      BY <2>1, <3>1, <3>2, TrappedCsr
    <3> QED BY <3>3, <3>4
  <2>3. registers' = registers /\ memory' = memory /\ csr' \in Ticked(c)
    BY <1>2 DEF TakeTrap, c
  <2>4. /\ csr'["mstatus"] = c["mstatus"] /\ csr'["mepc"] = c["mepc"]
        /\ csr'["mscratch"] = c["mscratch"]
    BY <2>2, <2>3, TickedCsr DEF Csrs, Writable
  <2>5. Mie(csr) \in BOOLEAN
    BY DEF Mie, Has
  <2>6. (Mie(csr') <=> FALSE) /\ (Mpie(csr') <=> Mie(csr))
    <3>1. /\ csr'["mstatus"] = Mstatus(FALSE, Mie(csr), MachineMode)
          /\ FALSE \in BOOLEAN /\ MachineMode \in SUBSET MachineMode
      BY <2>2, <2>4
    <3> QED BY <2>5, <3>1, MstatusBits, Zenon
  <2>7. Mpie(csr') = Mie(csr)
    <3>1. Mpie(csr') \in BOOLEAN
      BY DEF Mpie, Has
    <3> QED BY <2>5, <2>6, <3>1, Zenon
  <2> QED BY <2>2, <2>3, <2>4, <2>6, <2>7 DEF Precise
<1> QED BY <1>1, <1>2, CycleIsTrapOrRetire DEF IsTrapStep

(***************************************************************************)
(* A cycle that ends in a trap leaves the registers and the memory alone,  *)
(* records the address of the instruction in mepc, and moves the enable    *)
(* bit of mstatus to mpie (lib/core/cpu.cpp:5-183), for every program and  *)
(* every moment at which the clock raises its interrupt.                   *)
(***************************************************************************)
THEOREM TrapsArePrecise == Spec => PreciseTraps
<1>1. TypeOK /\ [Cycle]_vars => [Precise]_vars
  BY CycleIsPrecise
<1> QED BY <1>1, InitType, CycleKeepsType, PTL DEF Spec, PreciseTraps, Precise

-----------------------------------------------------------------------------
(* The run loop *)

LEMMA EmulatorRunsTheMachine == EmulatorSpec => Spec
<1>1. EmulatorInit => Init
  BY DEF EmulatorInit
<1>2. [Run]_<< vars, options, running >> => [Cycle]_vars
  BY DEF Run, vars
<1> QED BY <1>1, <1>2, PTL DEF EmulatorSpec, Spec

(* A jump to itself moves nothing. *)
LEMMA LoopStandsStill ==
    ASSUME TypeOK, Cycle, result'.trap = NoTrap, result'.loops
    PROVE  pc' = result'.pc
<1>1. CASE IsTrapStep
  <2>1. PICK trap \in Traps : result'.trap = trap
    BY <1>1 DEF IsTrapStep, TakeTrap
  <2> QED BY <2>1, TrapsAreWords
<1>2. CASE Retire
  <2>1. IsDecoded(Current)
    BY <1>2, CurrentType DEF Retire, Executes
  <2>2. PICK d : /\ IsDecoded(d)
                 /\ pc' = IF d.mret THEN csr["mepc"] ELSE NextPc(d, pc)
                 /\ result' = [pc |-> pc, trap |-> NoTrap, loops |-> Loops(d),
                               access |-> AccessOf(d, d.alu)]
    BY <1>2, <2>1 DEF Retire
  <2>3. result'.pc = pc /\ Loops(d)
    BY <2>2
  <2>4. d.branch /\ d.alu = pc /\ ~ d.mret
    BY <2>2, <2>3 DEF Loops, IsDecoded
  <2> QED BY <2>2, <2>3, <2>4 DEF NextPc
<1> QED BY <1>1, <1>2, CycleIsTrapOrRetire

LEMMA RunEnds ==
    TypeOK /\ EndedForAReason /\ NothingCaptured /\ [Run]_<< vars, options, running >>
        => (EndedForAReason /\ NothingCaptured)'
<1> SUFFICES ASSUME TypeOK, EndedForAReason, NothingCaptured,
                    [Run]_<< vars, options, running >>
             PROVE  EndedForAReason' /\ NothingCaptured'
  OBVIOUS
<1>1. CASE UNCHANGED << vars, options, running >>
  BY <1>1 DEF vars, options, EndedForAReason, NothingCaptured, Captured
<1>2. CASE Run
  <2>1. /\ Cycle
        /\ running' = ~ (Captured(trap_capture_mode, result'.trap)
                            \/ LoopDetected(stop_at_infinite_loop, result'))
        /\ trap_capture_mode' = trap_capture_mode
        /\ stop_at_infinite_loop' = stop_at_infinite_loop
    BY <1>2 DEF Run, options
  <2>2. NothingCaptured'
    BY <2>1 DEF NothingCaptured, Captured
  <2>3. CASE Captured(trap_capture_mode, result'.trap)
    <3>1. trap_capture_mode' # "No_capture" /\ result'.trap # NoTrap
      BY <2>1, <2>3 DEF Captured
    <3>2. EndedForAReason'
      BY <3>1 DEF EndedForAReason
    <3> QED BY <2>2, <3>2
  <2>4. CASE LoopDetected(stop_at_infinite_loop, result')
    <3>1. stop_at_infinite_loop /\ result'.trap = NoTrap /\ result'.loops
      BY <2>4 DEF LoopDetected
    <3>2. pc' = result'.pc
      BY <2>1, <3>1, LoopStandsStill
    <3> QED BY <2>1, <2>2, <3>1, <3>2 DEF EndedForAReason
  <2> QED BY <2>1, <2>2, <2>3, <2>4 DEF EndedForAReason
<1> QED BY <1>1, <1>2

(***************************************************************************)
(* A run of the emulator ends only with a trap, in a mode that captures    *)
(* traps, or at an instruction that jumps to itself, when it is asked to   *)
(* stop there; and it never goes on past a trap that it captures           *)
(* (main/src/emulator.cpp:50-96).                                          *)
(***************************************************************************)
THEOREM RunsEndForAReason == EmulatorSpec => [](EndedForAReason /\ NothingCaptured)
<1>1. EmulatorInit => EndedForAReason /\ NothingCaptured
  BY DEF EmulatorInit, Init, EndedForAReason, NothingCaptured, Captured
<1>2. EmulatorSpec => []TypeOK
  BY EmulatorRunsTheMachine, MachineTypesCorrect
<1> QED BY <1>1, <1>2, RunEnds, PTL DEF EmulatorSpec

(* No instruction of the program writes the registers that a trap is told by. *)
TrapRegistersUnwritten == \A a \in DOMAIN Image : LeavesTrapRegisters(Image[a])

LEMMA DecodedAccess ==
    ASSUME NEW i \in Instruction, i.op # "illegal", NEW reg, NEW at
    PROVE  /\ i.op = "csr" => /\ Decoded(i, reg, at).access.address = i.csr
                              /\ i.rs1 = 0 => Decoded(i, reg, at).access.mode = "None"
           /\ i.op # "csr" => NoCsrAccess(Decoded(i, reg, at).access)
<1> DEFINE d == Decoded(i, reg, at)
<1>1. CASE i.op = "csr"
  BY <1>1 DEF Decoded, DecodeCsr, Plain
<1>2. CASE i.op # "csr"
  <2>1. d.access = Plain.access
    BY <1>2, InstructionFields
       DEF Decoded, Plain, DecodeUpper, DecodeRegisterImm, DecodeRegisterRegister, DecodeBranch,
           DecodeJal, DecodeJalr, DecodeLoad, DecodeStore
  <2> QED BY <1>2, <2>1, PlainType
<1> QED BY <1>1, <1>2

(* A CSR access without a write changes nothing. *)
LEMMA NoWrite ==
    ASSUME NEW access, NEW c \in CsrStates, access.mode = "None",
           access.address \in {"mcause", "mepc"}
    PROVE  CsrAfter(access, c) = c
<1> DEFINE w == c[access.address]
<1>1. w \in Word
  BY DEF CsrStates, Csrs, Writable
<1>2. WriteMask(access) = 0 /\ WriteValue(access) = 0
  BY DEF WriteMask, WriteValue
<1>3. NewValue(access, c) = WordOf((BitsOf[w] \ BitsOf[0]) \cup (BitsOf[0] \cap BitsOf[0]))
  BY <1>2 DEF NewValue, Masked
<1>4. (BitsOf[w] \ BitsOf[0]) \cup (BitsOf[0] \cap BitsOf[0]) = BitsOf[w]
  BY NoBits
<1>5. NewValue(access, c) = w
  BY <1>1, <1>3, <1>4, WordOfBitsOf
<1>6. [c EXCEPT ![access.address] = w] = c
  BY DEF CsrStates
<1> QED BY <1>5, <1>6 DEF CsrAfter

LEMMA RetireLeavesTrapRegisters ==
    ASSUME LeavesTrapRegisters(Image[pc]), TypeOK, Retire
    PROVE  csr'["mcause"] = csr["mcause"] /\ csr'["mepc"] = csr["mepc"]
<1>1. pc \in Word /\ registers \in Registers /\ csr \in CsrStates
  BY TypeParts
<1>2. PICK d : /\ d = Current
               /\ csr' \in Ticked(IF d.mret THEN Returned(csr) ELSE CsrAfter(d.access, csr))
  BY DEF Retire
<1>3. /\ pc \in DOMAIN Image /\ Image[pc] \in Instruction /\ Image[pc].op # "illegal"
      /\ d = Decoded(Image[pc], registers, pc)
  BY <1>2, ImageAssumption DEF Retire, Executes, Legal, Fetchable, Current
<1> DEFINE after == CsrAfter(d.access, csr)
           c == IF d.mret THEN Returned(csr) ELSE after
<1>4. Returned(csr) \in CsrStates /\ after \in CsrStates
  BY <1>1, MstatusType, CsrAfterType DEF Returned, CsrStates
<1>5. after["mcause"] = csr["mcause"] /\ after["mepc"] = csr["mepc"]
  <2>1. CASE NoCsrAccess(d.access)
    BY <2>1 DEF CsrAfter
  <2>2. CASE d.access.address \notin {"mcause", "mepc"}
    BY <1>1, <2>2 DEF CsrAfter, CsrStates
  <2>3. CASE ~ NoCsrAccess(d.access) /\ d.access.address \in {"mcause", "mepc"}
    <3>1. d.access.mode = "None"
      BY <1>3, <2>3, DecodedAccess DEF LeavesTrapRegisters
    <3> QED BY <1>1, <2>3, <3>1, NoWrite
  <2> QED BY <2>1, <2>2, <2>3
<1>6. Returned(csr)["mcause"] = csr["mcause"] /\ Returned(csr)["mepc"] = csr["mepc"]
  BY <1>1 DEF Returned, CsrStates, Csrs, Writable
<1>7. c \in CsrStates /\ c["mcause"] = csr["mcause"] /\ c["mepc"] = csr["mepc"]
  <2> HIDE DEF after
  <2> QED BY <1>4, <1>5, <1>6
<1> HIDE DEF c
<1>8. csr' \in Ticked(c)
  BY <1>2 DEF c
<1> QED BY <1>7, <1>8, TickedCsr DEF Csrs, Writable

(* A run that captures all traps goes on with instructions that retire only. *)
LEMMA RunRetires ==
    ASSUME TypeOK, [Run]_<< vars, options, running >>, trap_capture_mode' = "All", running'
    PROVE  \/ UNCHANGED << vars, options, running >>
           \/ Retire /\ Cycle /\ running /\ trap_capture_mode = "All"
<1>1. CASE Run
  <2>1. Cycle /\ running /\ trap_capture_mode = "All" /\ result'.trap = NoTrap
    BY <1>1 DEF Run, options, Captured
  <2>2. ~ IsTrapStep
    <3>1. SUFFICES ASSUME IsTrapStep PROVE FALSE
      OBVIOUS
    <3>2. PICK trap \in Traps : result'.trap = trap
      BY <3>1 DEF IsTrapStep, TakeTrap
    <3> QED BY <2>1, <3>2, TrapsAreWords
  <2> QED BY <2>1, <2>2, CycleIsTrapOrRetire
<1> QED BY <1>1

LEMMA RunKeepsTrapRegisters ==
    ASSUME TrapRegistersUnwritten
    PROVE  TypeOK /\ NoHandlerBegan /\ [Run]_<< vars, options, running >> => NoHandlerBegan'
<1> SUFFICES ASSUME TypeOK, NoHandlerBegan, [Run]_<< vars, options, running >>,
                    trap_capture_mode' = "All", running'
             PROVE  csr'["mcause"] = 0 /\ csr'["mepc"] = 0
  BY DEF NoHandlerBegan
<1>1. CASE UNCHANGED << vars, options, running >>
  BY <1>1 DEF vars, options, NoHandlerBegan
<1>2. CASE Retire /\ Cycle /\ running /\ trap_capture_mode = "All"
  <2>1. LeavesTrapRegisters(Image[pc])
    BY <1>2 DEF Retire, Executes, Legal, Fetchable, TrapRegistersUnwritten
  <2> QED BY <1>2, <2>1, RetireLeavesTrapRegisters DEF NoHandlerBegan
<1> QED BY <1>1, <1>2, RunRetires

(***************************************************************************)
(* When every trap is captured, none has begun to be handled while the     *)
(* run goes on: the trap registers still hold their reset values, if the   *)
(* program does not write them itself (main/src/emulator.cpp:50-96).       *)
(***************************************************************************)
THEOREM NoHandlerRuns ==
    ASSUME TrapRegistersUnwritten PROVE EmulatorSpec => []StopsForAReason
<1>1. EmulatorInit => NoHandlerBegan
  BY DEF EmulatorInit, Init, NoHandlerBegan, Csrs, Writable
<1>2. EmulatorSpec => []TypeOK
  BY EmulatorRunsTheMachine, MachineTypesCorrect
<1>3. EmulatorSpec => [](EndedForAReason /\ NothingCaptured)
  BY RunsEndForAReason
<1>4. EmulatorSpec => []NoHandlerBegan
  BY <1>1, <1>2, RunKeepsTrapRegisters, PTL DEF EmulatorSpec
<1> QED BY <1>3, <1>4, PTL DEF StopsForAReason

-----------------------------------------------------------------------------
(***************************************************************************)
(* The program over the handler (InterruptedProgram): what the program     *)
(* sees of the machine is UserPc, UserRegisters and the memory.            *)
(***************************************************************************)
UserPc == IF pc \in Handler THEN csr["mepc"] ELSE pc

UserRegisters ==
    IF pc \in Saved THEN [registers EXCEPT ![Scratch] = csr["mscratch"]] ELSE registers

(* What Faults of UserProgram says of an address and a register file. *)
FaultsAt(a, reg) ==
    \/ ~ (a \in DOMAIN Image /\ Image[a].op # "illegal")
    \/ LET d == Decoded(Image[a], reg, a)
       IN  d.ecall \/ AccessFails(d) \/ d.access.address \in {"mhartid", "unimplemented"}

(* The trap was an exception: the instruction that mepc points at faults. *)
ToBeSteppedOver ==
    FaultsAt(UserPc, UserRegisters) /\ Plus(csr["mepc"], 4) \notin Handler

(***************************************************************************)
(* While the handler runs, interrupts are masked and mepc is outside it.   *)
(* Until mepc has been moved on, the trap is an interrupt or the program   *)
(* is at an instruction that faults, and the scratch register holds what   *)
(* the next instruction of the handler takes from it.                      *)
(***************************************************************************)
InHandler ==
    /\ ~ Mie(csr)
    /\ csr["mepc"] \notin Handler
    /\ pc \in {Base, Base + 4, Base + 8} => IsInterrupt(csr["mcause"]) \/ ToBeSteppedOver
    /\ pc = Base + 8 => registers[Scratch] = csr["mcause"]
    /\ pc \in {Base + 12, Base + 16, Base + 20} => ToBeSteppedOver
    /\ pc = Base + 16 => registers[Scratch] = csr["mepc"]
    /\ pc = Base + 20 => registers[Scratch] = Plus(csr["mepc"], 4)

HandlerInv == pc \in Handler => InHandler

LEMMA HandlerIs ==
    /\ Handler = {128, 132, 136, 140, 144, 148, 152, 156, 160, 164, 168, 172}
    /\ Saved = {132, 136, 140, 144, 148, 152, 160, 164, 168}
    /\ Base = 128 /\ Scratch = 1
<1>1. Len(HandlerCode) = 12
  BY DEF HandlerCode
<1>2. Handler = { 128 + 4 * (k - 1) : k \in 1 .. 12 }
  BY <1>1 DEF Handler, HandlerAddresses, Addresses, Base
<1>3. 1 .. 12 = {1, 2, 3, 4, 5, 6, 7, 8, 9, 10, 11, 12}
  OBVIOUS
<1>4. Handler = {128, 132, 136, 140, 144, 148, 152, 156, 160, 164, 168, 172}
  BY <1>2, <1>3
<1> QED BY <1>4 DEF Saved, Base, Scratch

Swap == Csr("Overwrite", 1, "mscratch", 1)

(* The instructions of the handler, one by one. *)
LEMMA HandlerImage ==
    ASSUME HandlerInPlace
    PROVE  /\ Handler \subseteq DOMAIN Image
           /\ Image[128] = Swap /\ Image[156] = Swap /\ Image[168] = Swap
           /\ Image[132] = Csr("Set", 1, "mcause", 0)
           /\ Image[136] = Branch("Lt", 1, 0, 24)
           /\ Image[140] = Csr("Set", 1, "mepc", 0)
           /\ Image[144] = Alu(1, 1, 4)
           /\ Image[148] = Csr("Overwrite", 0, "mepc", 1)
           /\ Image[152] = Jal(0, 16)
           /\ Image[160] = Alu(1, 0, 128)
           /\ Image[164] = Csr("Clear", 0, "mip", 1)
           /\ Image[172] = Other("mret")
<1>1. DOMAIN HandlerCode = 1 .. 12
  BY DEF HandlerCode
<1>2. \A k \in 1 .. 12 : /\ 128 + 4 * (k - 1) \in DOMAIN Image
                         /\ Image[128 + 4 * (k - 1)] = HandlerCode[k]
  BY <1>1 DEF HandlerInPlace, Base
<1>3. /\ HandlerCode[1] = Swap /\ HandlerCode[8] = Swap /\ HandlerCode[11] = Swap
      /\ HandlerCode[2] = Csr("Set", 1, "mcause", 0)
      /\ HandlerCode[3] = Branch("Lt", 1, 0, 24)
      /\ HandlerCode[4] = Csr("Set", 1, "mepc", 0)
      /\ HandlerCode[5] = Alu(1, 1, 4)
      /\ HandlerCode[6] = Csr("Overwrite", 0, "mepc", 1)
      /\ HandlerCode[7] = Jal(0, 16)
      /\ HandlerCode[9] = Alu(1, 0, 128)
      /\ HandlerCode[10] = Csr("Clear", 0, "mip", 1)
      /\ HandlerCode[12] = Other("mret")
  BY DEF HandlerCode, Swap
<1>4. /\ 128 \in DOMAIN Image /\ Image[128] = HandlerCode[1]
      /\ 132 \in DOMAIN Image /\ Image[132] = HandlerCode[2]
      /\ 136 \in DOMAIN Image /\ Image[136] = HandlerCode[3]
      /\ 140 \in DOMAIN Image /\ Image[140] = HandlerCode[4]
      /\ 144 \in DOMAIN Image /\ Image[144] = HandlerCode[5]
      /\ 148 \in DOMAIN Image /\ Image[148] = HandlerCode[6]
      /\ 152 \in DOMAIN Image /\ Image[152] = HandlerCode[7]
      /\ 156 \in DOMAIN Image /\ Image[156] = HandlerCode[8]
      /\ 160 \in DOMAIN Image /\ Image[160] = HandlerCode[9]
      /\ 164 \in DOMAIN Image /\ Image[164] = HandlerCode[10]
      /\ 168 \in DOMAIN Image /\ Image[168] = HandlerCode[11]
      /\ 172 \in DOMAIN Image /\ Image[172] = HandlerCode[12]
  <2> DEFINE At(k) == /\ 128 + 4 * (k - 1) \in DOMAIN Image
                      /\ Image[128 + 4 * (k - 1)] = HandlerCode[k]
  <2>1. At(1) /\ At(2) /\ At(3) /\ At(4) /\ At(5) /\ At(6)
    <3> HIDE DEF At
    <3>1. \A k \in 1 .. 12 : At(k)
      BY <1>2 DEF At
    <3> QED BY <3>1
  <2>2. At(7) /\ At(8) /\ At(9) /\ At(10) /\ At(11) /\ At(12)
    <3> HIDE DEF At
    <3>1. \A k \in 1 .. 12 : At(k)
      BY <1>2 DEF At
    <3> QED BY <3>1
  <2> QED BY <2>1, <2>2
<1> HIDE DEF Handler
<1> QED BY <1>3, <1>4, HandlerIs

(* A write of a whole CSR leaves the value written, and nothing else changed. *)
LEMMA OverwriteValue ==
    ASSUME NEW access, NEW c \in CsrStates, access.mode = "Overwrite",
           access.value \in Word, access.address \in Writable \ {"mstatus"}
    PROVE  CsrAfter(access, c) = [c EXCEPT ![access.address] = access.value]
<1> DEFINE w == c[access.address]
           v == access.value
<1>1. w \in Word /\ v \in Word /\ AllOnes \in Word /\ XLEN \in Nat
  BY WordSize, XLENAssumption DEF CsrStates, Csrs
<1>2. BitsOf[AllOnes] = 0 .. XLEN - 1
  <2>1. SUFFICES ASSUME NEW b \in 0 .. XLEN - 1 PROVE (AllOnes \div 2^b) % 2 = 1
    BY <1>1 DEF BitsOf
  <2> DEFINE p == 2^b
             q == 2^(XLEN - 1 - b)
  <2>2. p \in Nat \ {0} /\ q \in Nat \ {0}
    BY <1>1, Powers
  <2>3. 2^XLEN = 2 * (p * q)
    <3>1. XLEN - 1 \in 0 .. XLEN /\ b \in 0 .. XLEN - 1
      BY <1>1
    <3>2. 2^b * 2^((XLEN - 1) - b) = 2^(XLEN - 1)
      BY <3>1, PowerProduct
    <3> QED BY <3>2, WordSize
  <2> HIDE DEF p, q
  <2>4. AllOnes = p * (2 * q - 1) + (p - 1) /\ p - 1 \in 0 .. p - 1 /\ 2 * q - 1 \in Int
    BY <2>2, <2>3 DEF AllOnes
  <2>5. (p * (2 * q - 1) + (p - 1)) \div p = 2 * q - 1
    BY <2>2, <2>4, DivisionUnique
  <2>6. (2 * q - 1) % 2 = 1
    BY <2>2
  <2> QED BY <2>4, <2>5, <2>6 DEF p
<1>3. BitsOf[v] \subseteq 0 .. XLEN - 1 /\ BitsOf[w] \subseteq 0 .. XLEN - 1
      /\ WordOf(BitsOf[v]) = v
  BY <1>1, WordOfBitsOf
<1>4. NewValue(access, c) = WordOf((BitsOf[w] \ BitsOf[AllOnes])
                                       \cup (BitsOf[v] \cap BitsOf[AllOnes]))
  BY DEF NewValue, Masked, WriteMask, WriteValue
<1>5. (BitsOf[w] \ BitsOf[AllOnes]) \cup (BitsOf[v] \cap BitsOf[AllOnes]) = BitsOf[v]
  BY <1>2, <1>3
<1>6. NewValue(access, c) = v
  BY <1>3, <1>4, <1>5
<1> QED BY <1>6 DEF CsrAfter, NoCsrAccess

(* What the decoder makes of the kinds of instruction the handler has. *)
LEMMA DecodedCsr ==
    ASSUME NEW mode, NEW rd, NEW name, NEW rs1, NEW reg, NEW at, NEW d,
           d = Decoded(Csr(mode, rd, name, rs1), reg, at)
    PROVE  /\ d.writeback = "Csr" /\ d.dest = rd /\ d.memory = "None"
           /\ ~ d.ecall /\ ~ d.mret /\ ~ d.branch
           /\ d.access.mode = (IF rs1 # 0 THEN mode ELSE "None")
           /\ d.access.address = name /\ d.access.value = reg[rs1]
           /\ d.access.read <=> mode # "Overwrite" \/ rd # 0
<1> DEFINE i == Csr(mode, rd, name, rs1)
<1>1. /\ i.op = "csr" /\ i.mode = mode /\ i.rd = rd /\ i.csr = name /\ i.rs1 = rs1
      /\ i.immediate = FALSE
  BY DEF Csr
<1> HIDE DEF i
<1>2. d = DecodeCsr(i, reg)
  BY <1>1 DEF Decoded, i
<1>3. /\ d.writeback = "Csr" /\ d.dest = i.rd /\ d.memory = Plain.memory
      /\ d.ecall = Plain.ecall /\ d.mret = Plain.mret /\ d.branch = Plain.branch
      /\ d.access.mode = (IF i.rs1 # 0 THEN i.mode ELSE "None")
      /\ d.access.address = i.csr /\ d.access.value = CsrOperand(i, reg)
  BY <1>2 DEF DecodeCsr, Plain
<1>4. d.access.read = (i.mode # "Overwrite" \/ i.rd # 0)
  BY <1>2 DEF DecodeCsr, Plain
<1>5. CsrOperand(i, reg) = reg[rs1]
  BY <1>1 DEF CsrOperand
<1> QED BY <1>1, <1>3, <1>4, <1>5, PlainType

LEMMA DecodedAdd ==
    ASSUME NEW rd, NEW rs1, NEW imm, NEW reg, NEW at, NEW d,
           d = Decoded(Alu(rd, rs1, imm), reg, at)
    PROVE  /\ d.writeback = "Alu" /\ d.dest = rd /\ d.alu = Plus(reg[rs1], imm)
           /\ d.memory = "None" /\ d.access = NoAccess
           /\ ~ d.ecall /\ ~ d.mret /\ ~ d.branch
<1> DEFINE i == Alu(rd, rs1, imm)
<1>1. i.op = "alu" /\ i.opcode = "Add" /\ i.rd = rd /\ i.rs1 = rs1 /\ i.imm = imm
  BY DEF Alu
<1> HIDE DEF i
<1>2. d = DecodeRegisterImm(i, reg)
  BY <1>1 DEF Decoded, i
<1>3. Calculated(i.opcode, reg[i.rs1], i.imm) = Plus(reg[rs1], imm)
  BY <1>1 DEF Calculated
<1>4. /\ d.writeback = "Alu" /\ d.dest = i.rd
      /\ d.alu = Calculated(i.opcode, reg[i.rs1], i.imm)
      /\ d.memory = Plain.memory /\ d.access = Plain.access
      /\ d.ecall = Plain.ecall /\ d.mret = Plain.mret /\ d.branch = Plain.branch
  BY <1>2 DEF DecodeRegisterImm, Plain
<1> QED BY <1>1, <1>3, <1>4, PlainType

LEMMA DecodedJumps ==
    ASSUME NEW reg, NEW at, NEW imm, NEW d, NEW i,
           i = Branch("Lt", 1, 0, imm) \/ i = Jal(0, imm) \/ i = Other("mret"),
           d = Decoded(i, reg, at)
    PROVE  /\ d.dest = 0 /\ d.memory = "None" /\ d.access = NoAccess /\ ~ d.ecall
           /\ d.mret <=> i = Other("mret")
           /\ i = Branch("Lt", 1, 0, imm) =>
                  d.alu = Plus(at, imm % 256) /\ (d.branch <=> Compare("Lt", reg[1], reg[0]))
           /\ i = Jal(0, imm) => d.alu = Plus(at, imm % 256) /\ d.branch
<1>1. ASSUME i = Branch("Lt", 1, 0, imm)
      PROVE  /\ d.dest = Plain.dest /\ d.memory = Plain.memory /\ d.access = Plain.access
             /\ d.ecall = Plain.ecall /\ d.mret = Plain.mret /\ i.op = "branch"
             /\ d.alu = Plus(at, imm % 256)
             /\ d.branch = Compare("Lt", reg[1], reg[0])
  <2>1. /\ i.op = "branch" /\ i.cond = "Lt" /\ i.rs1 = 1 /\ i.rs2 = 0 /\ i.imm = imm % 256
    BY <1>1 DEF Branch
  <2>2. d = DecodeBranch(i, reg, at)
    BY <2>1 DEF Decoded
  <2>3. d.branch = Compare(i.cond, reg[i.rs1], reg[i.rs2])
    BY <2>2 DEF DecodeBranch, Plain
  <2> QED BY <2>1, <2>2, <2>3 DEF DecodeBranch, Plain
<1>2. ASSUME i = Jal(0, imm)
      PROVE  /\ d.dest = 0 /\ d.memory = Plain.memory /\ d.access = Plain.access
             /\ d.ecall = Plain.ecall /\ d.mret = Plain.mret /\ i.op = "jal"
             /\ d.alu = Plus(at, imm % 256) /\ d.branch = TRUE
  <2>1. i.op = "jal" /\ i.rd = 0 /\ i.imm = imm % 256
    BY <1>2 DEF Jal
  <2>2. d = DecodeJal(i, at)
    BY <2>1 DEF Decoded
  <2> QED BY <2>1, <2>2 DEF DecodeJal, Plain
<1>3. ASSUME i = Other("mret")
      PROVE  /\ d.dest = Plain.dest /\ d.memory = Plain.memory /\ d.access = Plain.access
             /\ d.ecall = Plain.ecall /\ d.mret = TRUE /\ i.op = "mret"
  <2>1. i.op = "mret"
    BY <1>3 DEF Other
  <2>2. d = [Plain EXCEPT !.mret = TRUE]
    BY <2>1 DEF Decoded
  <2> QED BY <2>1, <2>2 DEF Plain
<1>4. Other("mret").op = "mret" /\ Branch("Lt", 1, 0, imm).op = "branch" /\ Jal(0, imm).op = "jal"
  BY DEF Other, Branch, Jal
<1>5. CASE i = Branch("Lt", 1, 0, imm)
  BY <1>1, <1>4, <1>5, PlainType
<1>6. CASE i = Jal(0, imm)
  BY <1>2, <1>4, <1>6, PlainType
<1>7. CASE i = Other("mret")
  BY <1>3, <1>4, <1>7, PlainType
<1> QED BY <1>5, <1>6, <1>7

(* With interrupts masked none of the handler's instructions traps. *)
LEMMA HandlerRetires ==
    ASSUME HandlerInPlace, pc \in Handler, ~ Mie(csr), Cycle
    PROVE  Retire /\ Current.memory = "None"
<1> DEFINE d == Current
<1>1. pc \in {128, 132, 136, 140, 144, 148, 152, 156, 160, 164, 168, 172}
  BY HandlerIs
<1>2. pc \in DOMAIN Image /\ pc % 4 = 0
  BY HandlerImage, ImageAssumption
<1> HIDE DEF Handler
<1>3. \/ \E mode, rd, name, rs1 : /\ Image[pc] = Csr(mode, rd, name, rs1)
                                  /\ name \in {"mscratch", "mcause", "mepc", "mip"}
      \/ \E rd, rs1, imm : Image[pc] = Alu(rd, rs1, imm)
      \/ \E imm : \/ Image[pc] = Branch("Lt", 1, 0, imm)
                  \/ Image[pc] = Jal(0, imm)
                  \/ Image[pc] = Other("mret")
  <2>1. CASE pc \in {128, 132, 140, 148, 156, 164, 168}
    <3>1. \E mode, rd, name, rs1 : /\ Image[pc] = Csr(mode, rd, name, rs1)
                                   /\ name \in {"mscratch", "mcause", "mepc", "mip"}
      <4>1. CASE pc = 128 \/ pc = 156 \/ pc = 168
        <5>1. Image[pc] = Csr("Overwrite", 1, "mscratch", 1)
          BY <4>1, HandlerImage DEF Swap
        <5> QED BY <5>1
      <4>2. CASE pc = 132
        BY <4>2, HandlerImage
      <4>3. CASE pc = 140
        BY <4>3, HandlerImage
      <4>4. CASE pc = 148
        BY <4>4, HandlerImage
      <4>5. CASE pc = 164
        BY <4>5, HandlerImage
      <4> QED BY <2>1, <4>1, <4>2, <4>3, <4>4, <4>5
    <3> QED BY <3>1
  <2>2. CASE pc = 144 \/ pc = 160
    BY <2>2, HandlerImage
  <2>3. CASE pc = 136 \/ pc = 152 \/ pc = 172
    <3>1. \E imm : \/ Image[pc] = Branch("Lt", 1, 0, imm)
                   \/ Image[pc] = Jal(0, imm)
                   \/ Image[pc] = Other("mret")
      BY <2>3, HandlerImage
    <3> QED BY <3>1
  <2>4. \/ pc \in {128, 132, 140, 148, 156, 164, 168} \/ pc = 144 \/ pc = 160
        \/ pc = 136 \/ pc = 152 \/ pc = 172
    BY <1>1
  <2> QED BY <2>1, <2>2, <2>3, <2>4
<1>4. d = Decoded(Image[pc], registers, pc)
  BY DEF Current
<1> HIDE DEF d
<1>5. /\ Image[pc].op # "illegal"
      /\ d.memory = "None" /\ ~ d.ecall
      /\ d.access = NoAccess \/ d.access.address \in {"mscratch", "mcause", "mepc", "mip"}
  <2>1. ASSUME NEW mode, NEW rd, NEW name, NEW rs1, Image[pc] = Csr(mode, rd, name, rs1),
               name \in {"mscratch", "mcause", "mepc", "mip"}
        PROVE  <1>5!:
    <3>1. Csr(mode, rd, name, rs1).op = "csr"
      BY DEF Csr
    <3> QED BY <1>4, <2>1, <3>1, DecodedCsr
  <2>2. ASSUME NEW rd, NEW rs1, NEW imm, Image[pc] = Alu(rd, rs1, imm)
        PROVE  <1>5!:
    <3>1. Alu(rd, rs1, imm).op = "alu"
      BY DEF Alu
    <3> QED BY <1>4, <2>2, <3>1, DecodedAdd
  <2>3. ASSUME NEW imm, \/ Image[pc] = Branch("Lt", 1, 0, imm)
                        \/ Image[pc] = Jal(0, imm)
                        \/ Image[pc] = Other("mret")
        PROVE  <1>5!:
    <3>1. Other("mret").op = "mret" /\ Branch("Lt", 1, 0, imm).op = "branch"
          /\ Jal(0, imm).op = "jal"
      BY DEF Other, Branch, Jal
    <3> QED BY <1>4, <2>3, <3>1, DecodedJumps
  <2> QED BY <1>3, <2>1, <2>2, <2>3
<1>6. ~ CsrFails(d.access)
  BY <1>5, PlainType DEF CsrFails, Csrs, Writable, ReadOnly
<1>7. ~ AccessFails(d) /\ ~ InterruptEnabled /\ Legal
  BY <1>2, <1>5 DEF AccessFails, InterruptEnabled, Legal, Fetchable
<1> QED BY <1>5, <1>6, <1>7
        DEF Cycle, InstFault, DecodeFault, EnvCall, TimerInterrupt, CsrFault, MemoryFault,
            Legal, Executes, d

LEMMA SmallPlus ==
    ASSUME NEW a \in Nat, NEW b \in Nat, a + b < 256
    PROVE  Plus(a, b) = a + b
<1>1. 2^XLEN \in Nat \ {0} /\ a + b \in 0 .. 2^XLEN - 1
  BY WordSize
<1> DEFINE x == a + b
<1> HIDE DEF x
<1>2. x % 2^XLEN = x
  BY <1>1, RemainderOfSmall DEF x
<1> QED BY <1>2 DEF Plus, x

KeepsCsrs(names) == \A name \in names : csr'[name] = csr[name]

CsrEffect(mode, rd, name, rs1) ==
    /\ Current.access.mode = (IF rs1 # 0 THEN mode ELSE "None")
    /\ Current.access.address = name /\ Current.access.value = registers[rs1]
    /\ csr' \in Ticked(CsrAfter(Current.access, csr))
    /\ memory' = memory /\ pc' = Plus(pc, 4)
    /\ rd = 0 => registers' = registers
    /\ rd # 0 => registers' = [registers EXCEPT ![rd] = csr[name]]

(* An access to a CSR other than mstatus, between a register and the CSR. *)
LEMMA CsrStep ==
    ASSUME TypeOK, Retire, NEW mode, NEW rd \in Register, NEW name \in Writable \ {"mstatus"},
           NEW rs1, Image[pc] = Csr(mode, rd, name, rs1)
    PROVE  CsrEffect(mode, rd, name, rs1)
<1> DEFINE d == Current
<1>1. d = Decoded(Csr(mode, rd, name, rs1), registers, pc)
  BY DEF Current
<1>2. /\ memory' = Stored(d, memory)
      /\ registers' = WrittenBack(d, pc, registers, LoadedValue(d, memory),
                                  CsrResult(d.access, csr))
      /\ csr' \in Ticked(IF d.mret THEN Returned(csr) ELSE CsrAfter(d.access, csr))
      /\ pc' = IF d.mret THEN csr["mepc"] ELSE NextPc(d, pc)
  BY DEF Retire
<1> HIDE DEF d
<1>3. /\ d.writeback = "Csr" /\ d.dest = rd /\ d.memory = "None"
      /\ ~ d.ecall /\ ~ d.mret /\ ~ d.branch
      /\ d.access.mode = (IF rs1 # 0 THEN mode ELSE "None")
      /\ d.access.address = name /\ d.access.value = registers[rs1]
      /\ d.access.read <=> mode # "Overwrite" \/ rd # 0
  BY <1>1, DecodedCsr
<1>4. memory' = memory
  BY <1>2, <1>3 DEF Stored
<1>5. pc' = Plus(pc, 4) /\ csr' \in Ticked(CsrAfter(d.access, csr))
  BY <1>2, <1>3 DEF NextPc
<1>6. /\ rd = 0 => registers' = registers
      /\ rd # 0 => registers' = [registers EXCEPT ![rd] = csr[name]]
  <2>1. CASE rd = 0
    BY <1>2, <1>3, <2>1 DEF WrittenBack
  <2>2. CASE rd # 0
    <3>1. ~ NoCsrAccess(d.access)
      BY <1>3, <2>2 DEF NoCsrAccess
    <3>2. CsrResult(d.access, csr) = csr[name]
      BY <1>3, <3>1 DEF CsrResult
    <3>3. WrittenBack(d, pc, registers, LoadedValue(d, memory), csr[name])
              = [registers EXCEPT ![rd] = csr[name]]
      BY <1>3, <2>2 DEF WrittenBack
    <3> QED BY <1>2, <2>2, <3>2, <3>3
  <2> QED BY <2>1, <2>2
<1> QED BY <1>3, <1>4, <1>5, <1>6 DEF CsrEffect, d

LEMMA AddStep ==
    ASSUME TypeOK, Retire, NEW rd \in Register, rd # 0, NEW rs1, NEW imm,
           Image[pc] = Alu(rd, rs1, imm)
    PROVE  /\ registers' = [registers EXCEPT ![rd] = Plus(registers[rs1], imm)]
           /\ csr' \in Ticked(csr) /\ memory' = memory /\ pc' = Plus(pc, 4)
<1> DEFINE d == Current
<1>1. d = Decoded(Alu(rd, rs1, imm), registers, pc)
  BY DEF Current
<1>2. /\ memory' = Stored(d, memory)
      /\ registers' = WrittenBack(d, pc, registers, LoadedValue(d, memory),
                                  CsrResult(d.access, csr))
      /\ csr' \in Ticked(IF d.mret THEN Returned(csr) ELSE CsrAfter(d.access, csr))
      /\ pc' = IF d.mret THEN csr["mepc"] ELSE NextPc(d, pc)
  BY DEF Retire
<1> HIDE DEF d
<1>3. /\ d.writeback = "Alu" /\ d.dest = rd /\ d.alu = Plus(registers[rs1], imm)
      /\ d.memory = "None" /\ d.access = NoAccess
      /\ ~ d.ecall /\ ~ d.mret /\ ~ d.branch
  BY <1>1, DecodedAdd
<1> QED BY <1>2, <1>3, PlainType DEF Stored, WrittenBack, CsrAfter, NextPc

LEMMA JumpStep ==
    ASSUME TypeOK, Retire, NEW imm,
           \/ Image[pc] = Branch("Lt", 1, 0, imm)
           \/ Image[pc] = Jal(0, imm)
           \/ Image[pc] = Other("mret")
    PROVE  /\ registers' = registers /\ memory' = memory
           /\ Image[pc] # Other("mret") => csr' \in Ticked(csr)
           /\ Image[pc] = Branch("Lt", 1, 0, imm) =>
                  pc' = IF Compare("Lt", registers[1], registers[0])
                        THEN Plus(pc, imm % 256) ELSE Plus(pc, 4)
           /\ Image[pc] = Jal(0, imm) => pc' = Plus(pc, imm % 256)
           /\ Image[pc] = Other("mret") => pc' = csr["mepc"] /\ csr' \in Ticked(Returned(csr))
<1> DEFINE d == Current
<1>1. d = Decoded(Image[pc], registers, pc)
  BY DEF Current
<1>2. /\ memory' = Stored(d, memory)
      /\ registers' = WrittenBack(d, pc, registers, LoadedValue(d, memory),
                                  CsrResult(d.access, csr))
      /\ csr' \in Ticked(IF d.mret THEN Returned(csr) ELSE CsrAfter(d.access, csr))
      /\ pc' = IF d.mret THEN csr["mepc"] ELSE NextPc(d, pc)
  BY DEF Retire
<1> HIDE DEF d
<1>3. /\ d.dest = 0 /\ d.memory = "None" /\ d.access = NoAccess /\ ~ d.ecall
      /\ d.mret <=> Image[pc] = Other("mret")
      /\ Image[pc] = Branch("Lt", 1, 0, imm) =>
             /\ d.alu = Plus(pc, imm % 256)
             /\ d.branch <=> Compare("Lt", registers[1], registers[0])
      /\ Image[pc] = Jal(0, imm) => d.alu = Plus(pc, imm % 256) /\ d.branch
  BY <1>1, DecodedJumps
<1>4. Other("mret").op = "mret" /\ Branch("Lt", 1, 0, imm).op = "branch"
      /\ Jal(0, imm).op = "jal"
  BY DEF Other, Branch, Jal
<1>5. registers' = registers /\ memory' = memory
  BY <1>2, <1>3 DEF Stored, WrittenBack
<1>6. CASE Image[pc] = Branch("Lt", 1, 0, imm)
  BY <1>2, <1>3, <1>4, <1>5, <1>6, PlainType DEF CsrAfter, NextPc
<1>7. CASE Image[pc] = Jal(0, imm)
  BY <1>2, <1>3, <1>4, <1>5, <1>7, PlainType DEF CsrAfter, NextPc
<1>8. CASE Image[pc] = Other("mret")
  BY <1>2, <1>3, <1>4, <1>5, <1>8
<1> QED BY <1>6, <1>7, <1>8

TrapCsrs == {"mstatus", "mepc", "mcause", "mscratch", "mtvec"}

LEMMA TickedKeeps ==
    ASSUME NEW c \in CsrStates, NEW after \in Ticked(c)
    PROVE  \A name \in TrapCsrs : after[name] = c[name]
  BY TickedCsr DEF TrapCsrs, Csrs, Writable

(* What each step of the handler does. *)
HandlerEffect ==
    /\ memory' = memory
    /\ pc \in {128, 156, 168} =>
           /\ pc' = pc + 4 /\ registers' = [registers EXCEPT ![1] = csr["mscratch"]]
           /\ csr'["mscratch"] = registers[1] /\ KeepsCsrs(TrapCsrs \ {"mscratch"})
    /\ pc = 132 => /\ pc' = 136 /\ registers' = [registers EXCEPT ![1] = csr["mcause"]]
                   /\ KeepsCsrs(TrapCsrs)
    /\ pc = 136 => /\ pc' = (IF IsInterrupt(registers[1]) THEN 160 ELSE 140)
                   /\ registers' = registers /\ KeepsCsrs(TrapCsrs)
    /\ pc = 140 => /\ pc' = 144 /\ registers' = [registers EXCEPT ![1] = csr["mepc"]]
                   /\ KeepsCsrs(TrapCsrs)
    /\ pc = 144 => /\ pc' = 148
            /\ registers' = [registers EXCEPT ![1] = Plus(registers[1], 4)]
                   /\ KeepsCsrs(TrapCsrs)
    /\ pc = 148 => /\ pc' = 152 /\ registers' = registers
                   /\ csr'["mepc"] = registers[1] /\ KeepsCsrs(TrapCsrs \ {"mepc"})
    /\ pc = 152 => pc' = 168 /\ registers' = registers /\ KeepsCsrs(TrapCsrs)
    /\ pc = 160 => /\ pc' = 164 /\ registers' = [registers EXCEPT ![1] = 128]
                   /\ KeepsCsrs(TrapCsrs)
    /\ pc = 164 => pc' = 168 /\ registers' = registers /\ KeepsCsrs(TrapCsrs)
    /\ pc = 172 => /\ pc' = csr["mepc"] /\ registers' = registers
                   /\ KeepsCsrs(TrapCsrs \ {"mstatus"})

LEMMA HandlerStep ==
    ASSUME TypeOK, HandlerInPlace, pc \in Handler, ~ Mie(csr), Cycle
    PROVE  HandlerEffect
<1>1. pc \in {128, 132, 136, 140, 144, 148, 152, 156, 160, 164, 168, 172}
  BY HandlerIs
<1>2. Retire
  BY HandlerRetires
<1>3. csr \in CsrStates /\ registers \in Registers /\ 0 \in Register
  BY TypeParts, RegisterAssumption
<1>4. 1 \in Register
  <2>1. Swap \in Instruction
    BY HandlerIs, HandlerImage, ImageAssumption
  <2>2. Swap.op = "csr" /\ Swap.rd = 1
    BY DEF Swap, Csr
  <2> QED BY <2>1, <2>2, InstructionFields
<1> DEFINE access == Current.access
<1> HIDE DEF access
<1>5. registers[1] \in Word /\ registers[0] = 0
  BY <1>3, <1>4 DEF Registers
<1> HIDE DEF Handler
<1>6. /\ "mscratch" \in Writable \ {"mstatus"} /\ "mcause" \in Writable \ {"mstatus"}
      /\ "mepc" \in Writable \ {"mstatus"} /\ "mip" \in Writable \ {"mstatus"}
  BY DEF Writable
<1>7. ASSUME pc \in {128, 156, 168}
      PROVE  /\ memory' = memory
             /\ pc' = pc + 4 /\ registers' = [registers EXCEPT ![1] = csr["mscratch"]]
             /\ csr'["mscratch"] = registers[1] /\ KeepsCsrs(TrapCsrs \ {"mscratch"})
  <2>1. Image[pc] = Csr("Overwrite", 1, "mscratch", 1)
    BY <1>7, HandlerImage DEF Swap
  <2>0. CsrEffect("Overwrite", 1, "mscratch", 1)
    BY <1>2, <1>4, <1>6, <2>1, CsrStep
  <2>2. /\ access.mode = "Overwrite"
        /\ access.address = "mscratch" /\ access.value = registers[1]
        /\ csr' \in Ticked(CsrAfter(access, csr))
        /\ memory' = memory /\ pc' = Plus(pc, 4)
        /\ registers' = [registers EXCEPT ![1] = csr["mscratch"]]
    BY <2>0 DEF CsrEffect, access
  <2> DEFINE c == CsrAfter(access, csr)
  <2>3. c = [csr EXCEPT !["mscratch"] = registers[1]]
    BY <1>3, <1>5, <1>6, <2>2, OverwriteValue
  <2>4. c \in CsrStates
    BY <1>3, CsrAfterType
  <2>5. c["mscratch"] = registers[1] /\ \A n \in TrapCsrs \ {"mscratch"} : c[n] = csr[n]
    BY <1>3, <2>3 DEF CsrStates, Csrs, Writable, TrapCsrs
  <2> HIDE DEF c
  <2>6. \A n \in TrapCsrs : csr'[n] = c[n]
    BY <2>2, <2>4, TickedKeeps DEF c
  <2>7. Plus(pc, 4) = pc + 4
    BY <1>7, SmallPlus
  <2> QED BY <2>2, <2>5, <2>6, <2>7 DEF KeepsCsrs, TrapCsrs
<1>8. ASSUME NEW name \in {"mcause", "mepc"}, Image[pc] = Csr("Set", 1, name, 0)
      PROVE  /\ memory' = memory /\ pc' = Plus(pc, 4)
             /\ registers' = [registers EXCEPT ![1] = csr[name]] /\ KeepsCsrs(TrapCsrs)
  <2>0. CsrEffect("Set", 1, name, 0)
    BY <1>2, <1>4, <1>6, <1>8, CsrStep
  <2>1. /\ access.mode = "None" /\ access.address = name
        /\ csr' \in Ticked(CsrAfter(access, csr))
        /\ memory' = memory /\ pc' = Plus(pc, 4)
        /\ registers' = [registers EXCEPT ![1] = csr[name]]
    BY <2>0 DEF CsrEffect, access
  <2>2. CsrAfter(access, csr) = csr
    BY <1>3, <2>1, NoWrite
  <2> QED BY <1>3, <2>1, <2>2, TickedKeeps DEF KeepsCsrs
<1>9. ASSUME pc = 132
      PROVE  /\ memory' = memory
             /\ pc' = 136 /\ registers' = [registers EXCEPT ![1] = csr["mcause"]]
             /\ KeepsCsrs(TrapCsrs)
  <2>1. Image[pc] = Csr("Set", 1, "mcause", 0) /\ Plus(pc, 4) = 136
    BY <1>9, HandlerImage, SmallPlus
  <2> QED BY <1>8, <2>1
<1>10. ASSUME pc = 140
      PROVE  /\ memory' = memory
             /\ pc' = 144 /\ registers' = [registers EXCEPT ![1] = csr["mepc"]]
             /\ KeepsCsrs(TrapCsrs)
  <2>1. Image[pc] = Csr("Set", 1, "mepc", 0) /\ Plus(pc, 4) = 144
    BY <1>10, HandlerImage, SmallPlus
  <2> QED BY <1>8, <2>1
<1>11. ASSUME NEW rs1, NEW imm, Image[pc] = Alu(1, rs1, imm)
       PROVE  /\ memory' = memory /\ pc' = Plus(pc, 4)
              /\ registers' = [registers EXCEPT ![1] = Plus(registers[rs1], imm)]
              /\ KeepsCsrs(TrapCsrs)
  BY <1>2, <1>3, <1>4, <1>11, AddStep, TickedKeeps DEF KeepsCsrs
<1>12. ASSUME pc = 144
       PROVE  /\ memory' = memory /\ pc' = 148
              /\ registers' = [registers EXCEPT ![1] = Plus(registers[1], 4)]
              /\ KeepsCsrs(TrapCsrs)
  <2>1. Image[pc] = Alu(1, 1, 4) /\ Plus(pc, 4) = 148
    BY <1>12, HandlerImage, SmallPlus
  <2> QED BY <1>11, <2>1
<1>13. ASSUME pc = 160
       PROVE  /\ memory' = memory /\ pc' = 164
              /\ registers' = [registers EXCEPT ![1] = 128] /\ KeepsCsrs(TrapCsrs)
  <2>1. Image[pc] = Alu(1, 0, 128) /\ Plus(pc, 4) = 164
    BY <1>13, HandlerImage, SmallPlus
  <2>2. Plus(registers[0], 128) = 128
    BY <1>5, SmallPlus
  <2> QED BY <1>11, <2>1, <2>2
<1>14. ASSUME pc = 148
       PROVE  /\ memory' = memory /\ pc' = 152 /\ registers' = registers
              /\ csr'["mepc"] = registers[1] /\ KeepsCsrs(TrapCsrs \ {"mepc"})
  <2>1. Image[pc] = Csr("Overwrite", 0, "mepc", 1)
    BY <1>14, HandlerImage
  <2>0. CsrEffect("Overwrite", 0, "mepc", 1)
    BY <1>2, <1>3, <1>6, <2>1, CsrStep
  <2>2. /\ access.mode = "Overwrite"
        /\ access.address = "mepc" /\ access.value = registers[1]
        /\ csr' \in Ticked(CsrAfter(access, csr))
        /\ memory' = memory /\ pc' = Plus(pc, 4)
        /\ registers' = registers
    BY <2>0 DEF CsrEffect, access
  <2> DEFINE c == CsrAfter(access, csr)
  <2>3. c = [csr EXCEPT !["mepc"] = registers[1]]
    BY <1>3, <1>5, <1>6, <2>2, OverwriteValue
  <2>4. c \in CsrStates
    BY <1>3, CsrAfterType
  <2>5. c["mepc"] = registers[1] /\ \A n \in TrapCsrs \ {"mepc"} : c[n] = csr[n]
    BY <1>3, <2>3 DEF CsrStates, Csrs, Writable, TrapCsrs
  <2> HIDE DEF c
  <2>6. \A n \in TrapCsrs : csr'[n] = c[n]
    BY <2>2, <2>4, TickedKeeps DEF c
  <2>7. Plus(pc, 4) = 152
    BY <1>14, SmallPlus
  <2> QED BY <2>2, <2>5, <2>6, <2>7 DEF KeepsCsrs, TrapCsrs
<1>15. ASSUME pc = 164
       PROVE  /\ memory' = memory /\ pc' = 168 /\ registers' = registers
              /\ KeepsCsrs(TrapCsrs)
  <2>1. Image[pc] = Csr("Clear", 0, "mip", 1)
    BY <1>15, HandlerImage
  <2>0. CsrEffect("Clear", 0, "mip", 1)
    BY <1>2, <1>3, <1>6, <2>1, CsrStep
  <2>2. /\ access.address = "mip" /\ csr' \in Ticked(CsrAfter(access, csr))
        /\ memory' = memory /\ pc' = Plus(pc, 4)
        /\ registers' = registers
    BY <2>0 DEF CsrEffect, access
  <2> DEFINE c == CsrAfter(access, csr)
  <2>3. c \in CsrStates
    BY <1>3, CsrAfterType
  <2>4. \A n \in TrapCsrs : c[n] = csr[n]
    BY <1>3, <2>2 DEF CsrAfter, CsrStates, Csrs, Writable, TrapCsrs
  <2> HIDE DEF c
  <2>5. \A n \in TrapCsrs : csr'[n] = c[n]
    BY <2>2, <2>3, TickedKeeps DEF c
  <2>6. Plus(pc, 4) = 168
    BY <1>15, SmallPlus
  <2> QED BY <2>2, <2>4, <2>5, <2>6 DEF KeepsCsrs
<1>16. ASSUME pc = 136
       PROVE  /\ memory' = memory /\ pc' = (IF IsInterrupt(registers[1]) THEN 160 ELSE 140)
              /\ registers' = registers /\ KeepsCsrs(TrapCsrs)
  <2>1. Image[pc] = Branch("Lt", 1, 0, 24) /\ Plus(pc, 4) = 140 /\ Plus(pc, 24) = 160
    BY <1>16, HandlerImage, SmallPlus
  <2>2. 24 % 256 = 24 /\ Image[pc] # Other("mret")
    <3>1. Other("mret").op = "mret" /\ Branch("Lt", 1, 0, 24).op = "branch"
      BY DEF Other, Branch
    <3> QED BY <2>1, <3>1
  <2>3. /\ registers' = registers /\ memory' = memory /\ csr' \in Ticked(csr)
        /\ pc' = IF Compare("Lt", registers[1], registers[0]) THEN Plus(pc, 24) ELSE Plus(pc, 4)
    BY <1>2, <2>1, <2>2, JumpStep
  <2>4. Compare("Lt", registers[1], registers[0]) <=> IsInterrupt(registers[1])
    <3> DEFINE w == registers[1]
    <3>1. w \in Word /\ 0 \in Word
      BY <1>5, WordSize
    <3> HIDE DEF w
    <3>2. Signed(0) = 0
      BY <3>1, SignedValue
    <3>3. Compare("Lt", w, 0) <=> Signed(w) < 0
      BY <3>2, ComparisonValue
    <3>4. 2^XLEN = 2 * 2^(XLEN - 1) /\ 2^(XLEN - 1) \in Nat
      BY WordSize
    <3>5. Signed(w) < 0 <=> w >= 2^(XLEN - 1)
      <4> DEFINE M == 2^XLEN
                 H == 2^(XLEN - 1)
      <4>1. /\ w \in Nat /\ w < M /\ Signed(w) = (IF w < H THEN w ELSE w - M)
            /\ H \in Nat /\ M = 2 * H
        BY <3>1, <3>4, SignedValue
      <4> HIDE DEF M, H
      <4> QED BY <4>1 DEF H
    <3> QED BY <1>5, <3>3, <3>5 DEF IsInterrupt, InterruptBit, w
  <2> QED BY <1>3, <2>1, <2>3, <2>4, TickedKeeps DEF KeepsCsrs
<1>17. ASSUME pc = 152
       PROVE  /\ memory' = memory /\ pc' = 168 /\ registers' = registers
              /\ KeepsCsrs(TrapCsrs)
  <2>1. Image[pc] = Jal(0, 16) /\ Plus(pc, 16) = 168
    BY <1>17, HandlerImage, SmallPlus
  <2>2. 16 % 256 = 16 /\ Image[pc] # Other("mret")
    <3>1. Other("mret").op = "mret" /\ Jal(0, 16).op = "jal"
      BY DEF Other, Jal
    <3> QED BY <2>1, <3>1
  <2>3. registers' = registers /\ memory' = memory /\ csr' \in Ticked(csr) /\ pc' = Plus(pc, 16)
    BY <1>2, <2>1, <2>2, JumpStep
  <2> QED BY <1>3, <2>1, <2>3, TickedKeeps DEF KeepsCsrs
<1>18. ASSUME pc = 172
       PROVE  /\ memory' = memory /\ pc' = csr["mepc"] /\ registers' = registers
              /\ KeepsCsrs(TrapCsrs \ {"mstatus"})
  <2>1. /\ registers' = registers /\ memory' = memory /\ pc' = csr["mepc"]
        /\ csr' \in Ticked(Returned(csr))
    BY <1>2, <1>18, HandlerImage, JumpStep
  <2> DEFINE c == Returned(csr)
  <2>2. c \in CsrStates
    BY <1>3, MstatusType DEF Returned, CsrStates
  <2>3. \A n \in TrapCsrs \ {"mstatus"} : c[n] = csr[n]
    BY <1>3 DEF Returned, CsrStates, Csrs, Writable, TrapCsrs
  <2> HIDE DEF c
  <2>4. \A n \in TrapCsrs : csr'[n] = c[n]
    BY <2>1, <2>2, TickedKeeps DEF c
  <2> QED BY <2>1, <2>3, <2>4 DEF KeepsCsrs
<1>19. memory' = memory
  BY <1>1, <1>7, <1>9, <1>10, <1>12, <1>13, <1>14, <1>15, <1>16, <1>17, <1>18
<1> QED BY <1>7, <1>9, <1>10, <1>12, <1>13, <1>14, <1>15, <1>16, <1>17, <1>18, <1>19
        DEF HandlerEffect

(* The instructions of the instance are those of the machine. *)
LEMMA UserCalculates ==
    \A opcode \in Opcodes : \A x, y : User!Calculated(opcode, x, y) = Calculated(opcode, x, y)
<1>1. User!Word = Word /\ User!AllOnes = AllOnes
  BY DEF User!Word, Word, User!AllOnes, AllOnes
<1>2. User!BitsOf = BitsOf
  BY DEF User!BitsOf, BitsOf, User!Word, Word
<1>3. \A bits : User!WordOf(bits) = WordOf(bits)
  BY DEF User!WordOf, WordOf
<1>4. /\ \A x : User!Truncated(x) = Truncated(x) /\ User!Signed(x) = Signed(x)
      /\ \A x, y : User!Plus(x, y) = Plus(x, y)
  BY DEF User!Truncated, Truncated, User!Signed, Signed, User!Plus, Plus
<1>6. \A cond, x, y : User!BoolWord(User!Compare(cond, x, y)) = BoolWord(Compare(cond, x, y))
  BY DEF User!BoolWord, BoolWord, User!Compare, Compare, User!Signed, Signed
<1>7. \A x, y : /\ User!Sll(x, y) = Sll(x, y) /\ User!Srl(x, y) = Srl(x, y)
                /\ User!Sra(x, y) = Sra(x, y)
  BY DEF User!Sll, Sll, User!Srl, Srl, User!Sra, Sra, User!Truncated, Truncated,
         User!Signed, Signed
<1>8. \A x, y : User!Quotient(x, y) = Quotient(x, y)
  BY DEF User!Quotient, Quotient
<1>9. \A x, y : User!DivisionOverflow(x, y) = DivisionOverflow(x, y)
  BY DEF User!DivisionOverflow, DivisionOverflow, User!Signed, Signed, User!AllOnes, AllOnes
<1>10. \A x, y : User!Div(x, y) = Div(x, y)
  BY <1>1, <1>4, <1>8, <1>9 DEF User!Div, Div
<1>11. \A x, y : User!Rem(x, y) = Rem(x, y)
  BY <1>1, <1>4, <1>8, <1>9 DEF User!Rem, Rem
<1>12. \A x, y : /\ User!WordOf(User!BitsOf[x] \cap User!BitsOf[y])
                          = WordOf(BitsOf[x] \cap BitsOf[y])
                 /\ User!WordOf(User!BitsOf[x] \cup User!BitsOf[y])
                          = WordOf(BitsOf[x] \cup BitsOf[y])
  BY <1>2, <1>3
<1>13. SUFFICES ASSUME NEW opcode \in Opcodes, NEW x, NEW y
                PROVE  User!Calculated(opcode, x, y) = Calculated(opcode, x, y)
  OBVIOUS
<1>14. CASE opcode \in {"Add", "Sub", "Mul"}
  BY <1>14, <1>4 DEF User!Calculated, Calculated
<1>15. CASE opcode \in {"Sll", "Srl", "Sra"}
  BY <1>15, <1>7 DEF User!Calculated, Calculated
<1>16. CASE opcode \in {"Slt", "Sltu"}
  BY <1>16, <1>6 DEF User!Calculated, Calculated
<1>17. CASE opcode \in {"And", "Or", "Xor"}
  BY <1>17, <1>12 DEF User!Calculated, Calculated
<1>18. CASE opcode \in {"Mulh", "Mulhsu", "Mulhu"}
  BY <1>18 DEF User!Calculated, Calculated
<1>19. CASE opcode \in {"Div", "Rem"}
  BY <1>19, <1>10, <1>11 DEF User!Calculated, Calculated
<1>20. CASE opcode \in {"Divu", "Remu"}
  BY <1>20, <1>1 DEF User!Calculated, Calculated
<1>21. CASE opcode \in {"Czero_eqz", "Czero_nez"}
  BY <1>21 DEF User!Calculated, Calculated
<1> QED BY <1>14, <1>15, <1>16, <1>17, <1>18, <1>19, <1>20, <1>21 DEF Opcodes

LEMMA UserDecodes ==
    ASSUME NEW i \in Instruction, i.op # "illegal", NEW reg, NEW at
    PROVE  User!Decoded(i, reg, at) = Decoded(i, reg, at)
<1> USE DEF User!Plain, Plain, User!NoAccess, NoAccess, User!Plus, Plus
<1>1. \A base : User!DecodeUpper(i, base) = DecodeUpper(i, base)
  BY DEF User!DecodeUpper, DecodeUpper
<1>2. i.op = "alu" => User!DecodeRegisterImm(i, reg) = DecodeRegisterImm(i, reg)
  BY UserCalculates, InstructionFields DEF User!DecodeRegisterImm, DecodeRegisterImm
<1>3. i.op = "op" => User!DecodeRegisterRegister(i, reg) = DecodeRegisterRegister(i, reg)
  BY UserCalculates, InstructionFields DEF User!DecodeRegisterRegister, DecodeRegisterRegister
<1>4. User!DecodeBranch(i, reg, at) = DecodeBranch(i, reg, at)
  BY DEF User!DecodeBranch, DecodeBranch, User!Compare, Compare, User!Signed, Signed
<1>5. User!DecodeJal(i, at) = DecodeJal(i, at)
  BY DEF User!DecodeJal, DecodeJal
<1>6. User!DecodeJalr(i, reg) = DecodeJalr(i, reg)
  BY DEF User!DecodeJalr, DecodeJalr
<1>7. User!DecodeLoad(i, reg) = DecodeLoad(i, reg)
  BY DEF User!DecodeLoad, DecodeLoad
<1>8. User!DecodeStore(i, reg) = DecodeStore(i, reg)
  BY DEF User!DecodeStore, DecodeStore
<1>9. User!DecodeCsr(i, reg) = DecodeCsr(i, reg)
  BY DEF User!DecodeCsr, DecodeCsr, User!CsrOperand, CsrOperand
<1>10. User!Plain = Plain
  OBVIOUS
<1> HIDE DEF User!Plain, Plain, User!NoAccess, NoAccess, User!Plus, Plus
<1> QED BY <1>1, <1>2, <1>3, <1>4, <1>5, <1>6, <1>7, <1>8, <1>9, <1>10, InstructionFields
        DEF User!Decoded, Decoded

LEMMA UserFaults ==
    User!Faults <=> FaultsAt(UserPc, UserRegisters)
<1>1. UserPc \in DOMAIN Image /\ Image[UserPc].op # "illegal" =>
          User!Current = Decoded(Image[UserPc], UserRegisters, UserPc)
  BY UserDecodes, ImageAssumption DEF User!Current, UserPc, UserRegisters
<1>2. User!Legal <=> UserPc \in DOMAIN Image /\ Image[UserPc].op # "illegal"
  BY DEF User!Legal, UserPc
<1>3. \A d : User!AccessFails(d) <=> AccessFails(d)
  BY DEF User!AccessFails, AccessFails
<1> QED BY <1>1, <1>2, <1>3 DEF User!Faults, FaultsAt

LEMMA UserSteps ==
    ASSUME NEW d
    PROVE  User!Step(d) <=>
               /\ memory' = Stored(d, memory)
               /\ UserRegisters' = WrittenBack(d, UserPc, UserRegisters,
                                               LoadedValue(d, memory), 0)
               /\ UserPc' = NextPc(d, UserPc)
BY DEF User!Step, User!Stored, Stored, User!WrittenBack, WrittenBack, User!LoadedValue,
       LoadedValue, User!NextPc, NextPc, User!Plus, Plus, UserPc, UserRegisters

LEMMA DecodedKinds ==
    ASSUME NEW i \in Instruction, i.op # "illegal", NEW reg, NEW at, NEW d,
           d = Decoded(i, reg, at)
    PROVE  /\ i.op # "csr" => d.access = NoAccess /\ d.writeback # "Csr"
           /\ i.op = "csr" => /\ d.access.address = i.csr /\ d.dest = i.rd
                              /\ i.rs1 # 0 => d.access.mode = i.mode
                              /\ i.mode # "Overwrite" => d.access.read
           /\ i.op # "mret" => ~ d.mret
<1>1. i.op \in {"lui", "auipc", "jal", "alu", "op", "branch", "jalr", "load", "store",
                "csr", "ecall", "mret"}
  BY InstructionFields
<1>2. CASE i.op \in {"lui", "auipc"}
  <2>1. \/ d = DecodeUpper(i, 0) \/ d = DecodeUpper(i, at)
    BY <1>2 DEF Decoded
  <2>2. d.access = NoAccess /\ d.writeback = "Alu" /\ d.mret = Plain.mret
    BY <2>1 DEF DecodeUpper, Plain
  <2> QED BY <1>2, <2>2, PlainType
<1>3. CASE i.op \in {"alu", "op"}
  <2>1. \/ d = DecodeRegisterImm(i, reg) \/ d = DecodeRegisterRegister(i, reg)
    BY <1>3 DEF Decoded
  <2>2. d.access = NoAccess /\ d.writeback = "Alu" /\ d.mret = Plain.mret
    BY <2>1 DEF DecodeRegisterImm, DecodeRegisterRegister, Plain
  <2> QED BY <1>3, <2>2, PlainType
<1>4. CASE i.op \in {"jal", "jalr"}
  <2>1. \/ d = DecodeJal(i, at) \/ d = DecodeJalr(i, reg)
    BY <1>4 DEF Decoded
  <2>2. d.access = NoAccess /\ d.writeback = "Pc_plus_4" /\ d.mret = Plain.mret
    BY <2>1 DEF DecodeJal, DecodeJalr, Plain
  <2> QED BY <1>4, <2>2, PlainType
<1>5. CASE i.op \in {"branch", "store"}
  <2>1. \/ d = DecodeBranch(i, reg, at) \/ d = DecodeStore(i, reg)
    BY <1>5 DEF Decoded
  <2>2. d.access = NoAccess /\ d.writeback = "None" /\ d.mret = Plain.mret
    BY <2>1 DEF DecodeBranch, DecodeStore, Plain
  <2> QED BY <1>5, <2>2, PlainType
<1>6. CASE i.op = "load"
  <2>1. d = DecodeLoad(i, reg)
    BY <1>6 DEF Decoded
  <2>2. d.access = NoAccess /\ d.writeback = "Memory" /\ d.mret = Plain.mret
    BY <2>1 DEF DecodeLoad, Plain
  <2> QED BY <1>6, <2>2, PlainType
<1>7. CASE i.op \in {"ecall", "mret"}
  <2>1. /\ i.op = "ecall" => d = [Plain EXCEPT !.ecall = TRUE]
        /\ i.op = "mret" => d = [Plain EXCEPT !.mret = TRUE]
    BY <1>7 DEF Decoded
  <2>2. /\ d.access = NoAccess /\ d.writeback = "None"
        /\ i.op = "ecall" => d.mret = Plain.mret
    BY <1>7, <2>1 DEF Plain
  <2> QED BY <1>7, <2>2, PlainType
<1>8. CASE i.op = "csr"
  <2>1. d = DecodeCsr(i, reg)
    BY <1>8 DEF Decoded
  <2>2. /\ d.dest = i.rd /\ d.mret = Plain.mret
        /\ d.access.mode = (IF i.rs1 # 0 THEN i.mode ELSE "None")
        /\ d.access.address = i.csr
        /\ d.access.read = (i.mode # "Overwrite" \/ i.rd # 0)
    BY <2>1 DEF DecodeCsr, Plain
  <2> QED BY <1>8, <2>2, PlainType
<1> QED BY <1>1, <1>2, <1>3, <1>4, <1>5, <1>6, <1>7, <1>8

(* Outside the handler, an instruction fails exactly if the program's does. *)
LEMMA CsrFailsOutside ==
    ASSUME MainProgram, pc \notin Handler, Legal
    PROVE  CsrFails(Current.access)
               <=> Current.access.address \in {"mhartid", "unimplemented"}
<1> DEFINE i == Image[pc]
           d == Current
<1>1. /\ i \in Instruction /\ i.op # "illegal" /\ d = Decoded(i, registers, pc)
      /\ LeavesTrapsAlone(i)
  BY ImageAssumption DEF Legal, Fetchable, Current, MainProgram
<1> HIDE DEF i, d
<1>2. CASE i.op # "csr"
  <2>1. d.access = NoAccess
    BY <1>1, <1>2, DecodedKinds
  <2>2. ~ CsrFails(d.access)
    BY <2>1, PlainType DEF CsrFails
  <2>3. NoAccess.address = ""
    BY DEF NoAccess
  <2> QED BY <2>1, <2>2, <2>3 DEF d
<1>3. CASE i.op = "csr"
  <2>1. /\ d.access.address = i.csr
        /\ i.rs1 # 0 => d.access.mode = i.mode
        /\ i.mode # "Overwrite" => d.access.read
    BY <1>1, <1>3, DecodedKinds
  <2>2. \/ i.csr \in Writable
        \/ i.csr = "mhartid" /\ i.mode = "Overwrite" /\ i.rs1 # 0
        \/ i.csr = "unimplemented" /\ i.mode # "Overwrite"
    BY <1>1, <1>3 DEF LeavesTrapsAlone
  <2>3. CASE i.csr \in Writable
    <3>1. i.csr \in Csrs \ ReadOnly /\ i.csr \notin {"mhartid", "unimplemented"}
      BY <2>3 DEF Csrs, Writable, ReadOnly
    <3> QED BY <2>1, <3>1 DEF CsrFails, d
  <2>4. CASE i.csr = "mhartid" /\ i.mode = "Overwrite" /\ i.rs1 # 0
    <3>1. i.csr \in ReadOnly
      BY <2>4 DEF ReadOnly
    <3>2. WriteMask(d.access) = AllOnes
      BY <2>1, <2>4 DEF WriteMask
    <3>3. AllOnes # 0
      BY WordSize DEF AllOnes
    <3>4. ~ NoCsrAccess(d.access)
      BY <2>1, <2>4 DEF NoCsrAccess
    <3> QED BY <2>1, <2>4, <3>1, <3>2, <3>3, <3>4 DEF CsrFails, d
  <2>5. CASE i.csr = "unimplemented" /\ i.mode # "Overwrite"
    <3>1. i.csr \notin Csrs
      BY <2>5 DEF Csrs, Writable, ReadOnly
    <3>2. ~ NoCsrAccess(d.access)
      BY <2>1, <2>5 DEF NoCsrAccess
    <3> QED BY <2>1, <2>5, <3>1, <3>2 DEF CsrFails, d
  <2> QED BY <2>2, <2>3, <2>4, <2>5
<1> QED BY <1>2, <1>3

(* What a cycle outside the handler may be. *)
TrapsTo(trap) == \E tval, access : TakeTrap(trap, tval, access)

RetiresPlainly ==
    /\ memory' = Stored(Current, memory)
    /\ registers' = WrittenBack(Current, pc, registers, LoadedValue(Current, memory), 0)
    /\ pc' = NextPc(Current, pc)

LEMMA RetireOutside ==
    ASSUME TypeOK, MainProgram, pc \notin Handler, Retire
    PROVE  ~ FaultsAt(pc, registers) /\ RetiresPlainly
<1> DEFINE i == Image[pc]
           d == Current
<1>1. /\ i \in Instruction /\ i.op # "illegal" /\ d = Decoded(i, registers, pc)
      /\ LeavesTrapsAlone(i) /\ Legal
  BY ImageAssumption DEF Retire, Executes, Legal, Fetchable, Current, MainProgram
<1>2. ~ FaultsAt(pc, registers)
  <2>1. d.access.address \notin {"mhartid", "unimplemented"}
    BY <1>1, CsrFailsOutside DEF Retire
  <2> QED BY <1>1, <2>1 DEF Retire, Executes, Legal, Fetchable, FaultsAt, Current
<1>3. /\ memory' = Stored(d, memory)
      /\ registers' = WrittenBack(d, pc, registers, LoadedValue(d, memory),
                                  CsrResult(d.access, csr))
      /\ pc' = IF d.mret THEN csr["mepc"] ELSE NextPc(d, pc)
  BY DEF Retire
<1> HIDE DEF i, d
<1>4. ~ d.mret
  BY <1>1, DecodedKinds DEF LeavesTrapsAlone
<1>5. WrittenBack(d, pc, registers, LoadedValue(d, memory), CsrResult(d.access, csr))
          = WrittenBack(d, pc, registers, LoadedValue(d, memory), 0)
  <2>1. CASE i.op = "csr"
    <3>1. d.dest = 0
      BY <1>1, <2>1, DecodedKinds DEF LeavesTrapsAlone
    <3> QED BY <3>1 DEF WrittenBack
  <2>2. CASE i.op # "csr"
    <3>1. d.writeback # "Csr" /\ IsDecoded(d)
      BY <1>1, <2>2, DecodedKinds, CurrentType DEF d
    <3> QED BY <3>1 DEF WrittenBack, IsDecoded
  <2> QED BY <2>1, <2>2
<1> QED BY <1>2, <1>3, <1>4, <1>5 DEF RetiresPlainly, d

LEMMA CycleOutside ==
    ASSUME TypeOK, MainProgram, pc \notin Handler, Cycle
    PROVE  \/ FaultsAt(pc, registers) /\ \E trap \in Exceptions : TrapsTo(trap)
           \/ InterruptEnabled /\ TrapsTo(MachineTimerInterrupt)
           \/ ~ FaultsAt(pc, registers) /\ RetiresPlainly
<1>1. \A a, reg : ~ (a \in DOMAIN Image /\ Image[a].op # "illegal") => FaultsAt(a, reg)
  BY DEF FaultsAt
<1>2. Legal => /\ Current.ecall => FaultsAt(pc, registers)
               /\ AccessFails(Current) => FaultsAt(pc, registers)
               /\ CsrFails(Current.access) => FaultsAt(pc, registers)
  BY CsrFailsOutside DEF FaultsAt, Current
<1>3. CASE InstFault
  <2>1. PICK w \in Indeterminate :
            TakeTrap(IF pc % 4 # 0 THEN InstAddressMisaligned ELSE InstAccessFault, w, NoMemory)
    BY <1>3 DEF InstFault
  <2>2. pc \notin DOMAIN Image
    BY <1>3, ImageAssumption DEF InstFault, Fetchable
  <2> QED BY <1>1, <2>1, <2>2 DEF Exceptions, TrapsTo
<1>4. CASE DecodeFault
  <2>1. FaultsAt(pc, registers)
    BY <1>1, <1>4 DEF DecodeFault, Legal
  <2> QED BY <1>4, <2>1 DEF DecodeFault, Exceptions, TrapsTo
<1>5. CASE EnvCall
  BY <1>2, <1>5 DEF EnvCall, Exceptions, TrapsTo
<1>6. CASE TimerInterrupt
  BY <1>6 DEF TimerInterrupt, TrapsTo
<1>7. CASE CsrFault
  BY <1>2, <1>7 DEF CsrFault, Executes, Exceptions, TrapsTo
<1>8. CASE MemoryFault
  <2>1. TakeTrap(AccessTrap(Current), Current.alu, AccessOf(Current, Current.alu))
    BY <1>8 DEF MemoryFault
  <2> DEFINE d == Current
  <2>2. IsDecoded(d) /\ d.memory # "None"
    BY <1>8, CurrentType DEF MemoryFault, AccessFails, Executes
  <2> HIDE DEF d
  <2>3. AccessTrap(d) \in Exceptions
    BY <2>2 DEF AccessTrap, IsDecoded, Exceptions
  <2>4. FaultsAt(pc, registers)
    BY <1>2, <1>8 DEF MemoryFault, Executes
  <2> QED BY <2>1, <2>3, <2>4 DEF TrapsTo, d
<1>9. CASE Retire
  BY <1>9, RetireOutside
<1> QED BY <1>3, <1>4, <1>5, <1>6, <1>7, <1>8, <1>9 DEF Cycle

(* Where a trap that was taken outside the handler leads. *)
LEMMA TrapEnters ==
    ASSUME TypeOK, NEW trap \in Traps, TrapsTo(trap), csr["mtvec"] \in {Base, Base + 1}
    PROVE  /\ pc' = 128 \/ (IsInterrupt(trap) /\ pc' = 156)
           /\ registers' = registers /\ memory' = memory
           /\ csr'["mepc"] = pc /\ csr'["mcause"] = trap /\ ~ Mie(csr')
<1>1. PICK tval, access : TakeTrap(trap, tval, access)
  BY DEF TrapsTo
<1>2. /\ csr' \in Ticked(Trapped(csr, trap, tval))
      /\ pc' = TrapTarget(csr, trap)
      /\ registers' = registers /\ memory' = memory
  BY <1>1 DEF TakeTrap
<1>3. csr["mtvec"] = 128 \/ csr["mtvec"] = 129
  BY DEF Base
<1>4. csr["mtvec"] \div 4 = 32 /\ (csr["mtvec"] % 4 = 1 <=> csr["mtvec"] = 129)
  BY <1>3
<1>5. pc' = 128 \/ (IsInterrupt(trap) /\ pc' = 156)
  <2>1. TrapTarget(csr, trap)
            = IF IsInterrupt(trap) /\ csr["mtvec"] % 4 = 1
              THEN Plus(4 * 32, 4 * (trap - InterruptBit)) ELSE 4 * 32
    BY <1>4 DEF TrapTarget
  <2>2. IsInterrupt(trap) => trap - InterruptBit = 7
    <3>1. ASSUME IsInterrupt(trap) PROVE trap = InterruptBit + 7
      BY <3>1, TrapsAreWords DEF Traps, MachineTimerInterrupt
    <3>2. InterruptBit \in Nat
      BY WordSize DEF InterruptBit
    <3> QED BY <3>1, <3>2
  <2>3. Plus(128, 28) = 156
    BY SmallPlus
  <2>4. CASE IsInterrupt(trap) /\ csr["mtvec"] % 4 = 1
    <3>1. 4 * 32 = 128 /\ 4 * (trap - InterruptBit) = 28
      BY <2>2, <2>4
    <3> QED BY <1>2, <2>1, <2>3, <2>4, <3>1
  <2>5. CASE ~ (IsInterrupt(trap) /\ csr["mtvec"] % 4 = 1)
    BY <1>2, <2>1, <2>5
  <2> QED BY <2>4, <2>5
<1>6. csr'["mepc"] = pc /\ csr'["mcause"] = trap /\ ~ Mie(csr')
  <2>0. csr \in CsrStates /\ pc \in Word /\ trap \in Word
    BY TypeParts, TrapsAreWords
  <2> DEFINE c == Trapped(csr, trap, tval)
  <2>1. DOMAIN c = Csrs
    BY <2>0 DEF Trapped, CsrStates
  <2>2. csr' = c \/ csr' = [c EXCEPT !["mip"] = WordOf(BitsOf[@] \cup {7})]
    BY <1>2 DEF Ticked
  <2> HIDE DEF c
  <2>6. \A name \in Csrs : name # "mip" => csr'[name] = c[name]
    BY <2>1, <2>2
  <2>7. /\ c["mstatus"] = Mstatus(FALSE, Mie(csr), MachineMode)
        /\ c["mepc"] = pc /\ c["mcause"] = trap
    BY <2>0 DEF c, Trapped, CsrStates, Csrs, Writable
  <2>3. csr'["mepc"] = pc /\ csr'["mcause"] = trap
        /\ csr'["mstatus"] = Mstatus(FALSE, Mie(csr), MachineMode)
    BY <2>6, <2>7 DEF Csrs, Writable
  <2>4. Mie(csr) \in BOOLEAN
    BY DEF Mie, Has
  <2>5. FALSE \in BOOLEAN /\ MachineMode \in SUBSET MachineMode
    OBVIOUS
  <2> QED BY <2>3, <2>4, <2>5, MstatusBits, Zenon
<1> QED BY <1>2, <1>5, <1>6

LEMMA RegistersOf ==
    ASSUME TypeOK, HandlerInPlace
    PROVE  /\ csr \in CsrStates /\ registers \in Registers
           /\ 1 \in Register /\ registers[1] \in Word
           /\ \A v : registers = [[registers EXCEPT ![1] = v] EXCEPT ![1] = registers[1]]
<1>1. 1 \in Register
  <2>1. Swap \in Instruction
    BY HandlerIs, HandlerImage, ImageAssumption
  <2>2. Swap.op = "csr" /\ Swap.rd = 1
    BY DEF Swap, Csr
  <2> QED BY <2>1, <2>2, InstructionFields
<1> QED BY <1>1, TypeParts DEF Registers

(* What the program sees of a step of the handler: the skip, or nothing. *)
LEMMA HandlerUser ==
    ASSUME TypeOK, HandlerInPlace, HandlerInv, pc \in Handler, Cycle
    PROVE  /\ HandlerInv' /\ memory' = memory /\ UserRegisters' = UserRegisters
           /\ pc # 148 => UserPc' = UserPc
           /\ pc = 148 => FaultsAt(UserPc, UserRegisters) /\ UserPc' = Plus(UserPc, 4)
<1>1. pc \in {128, 132, 136, 140, 144, 148, 152, 156, 160, 164, 168, 172}
  BY HandlerIs
<1>2. /\ ~ Mie(csr) /\ csr["mepc"] \notin Handler
      /\ pc \in {128, 132, 136} => IsInterrupt(csr["mcause"]) \/ ToBeSteppedOver
      /\ pc = 136 => registers[1] = csr["mcause"]
      /\ pc \in {140, 144, 148} => ToBeSteppedOver
      /\ pc = 144 => registers[1] = csr["mepc"]
      /\ pc = 148 => registers[1] = Plus(csr["mepc"], 4)
  <2>1. Base + 4 = 132 /\ Base + 8 = 136 /\ Base + 12 = 140 /\ Base + 16 = 144 /\ Base + 20 = 148
    BY DEF Base
  <2> QED BY <2>1, HandlerIs DEF HandlerInv, InHandler
<1>3. HandlerEffect
  BY <1>2, HandlerStep
<1>4. /\ csr \in CsrStates /\ registers \in Registers
      /\ 1 \in Register /\ registers[1] \in Word
      /\ \A v : registers = [[registers EXCEPT ![1] = v] EXCEPT ![1] = registers[1]]
  BY RegistersOf
<1>5. /\ UserPc = csr["mepc"]
      /\ UserRegisters = IF pc \in {132, 136, 140, 144, 148, 152, 160, 164, 168}
                         THEN [registers EXCEPT ![1] = csr["mscratch"]] ELSE registers
      /\ UserPc' = IF pc' \in Handler THEN csr'["mepc"] ELSE pc'
      /\ UserRegisters' = IF pc' \in {132, 136, 140, 144, 148, 152, 160, 164, 168}
                          THEN [registers' EXCEPT ![1] = csr'["mscratch"]] ELSE registers'
  BY HandlerIs DEF UserPc, UserRegisters
<1>6. /\ "mstatus" \in TrapCsrs /\ "mepc" \in TrapCsrs /\ "mcause" \in TrapCsrs
      /\ "mscratch" \in TrapCsrs
  BY DEF TrapCsrs
<1>7. \A name \in {"mstatus", "mepc", "mcause", "mscratch"} :
          KeepsCsrs(TrapCsrs) => csr'[name] = csr[name]
  BY <1>6 DEF KeepsCsrs
<1> HIDE DEF Handler, Saved
<1>8. \A a : a \in {128, 132, 136, 140, 144, 148, 152, 156, 160, 164, 168, 172} <=> a \in Handler
  BY HandlerIs
<1>9. memory' = memory
  BY <1>3 DEF HandlerEffect
<1>10. UserRegisters' = UserRegisters
  <2>1. CASE pc \in {128, 156, 168}
    <3>1. /\ pc' = pc + 4 /\ registers' = [registers EXCEPT ![1] = csr["mscratch"]]
          /\ csr'["mscratch"] = registers[1]
      BY <1>3, <2>1 DEF HandlerEffect
    <3>2. CASE pc = 128 \/ pc = 156
      <4>1. pc' \in {132, 160} /\ UserRegisters = registers
        BY <1>5, <3>1, <3>2
      <4>2. UserRegisters' = [registers' EXCEPT ![1] = csr'["mscratch"]]
        BY <1>5, <4>1
      <4>3. UserRegisters' = [[registers EXCEPT ![1] = csr["mscratch"]] EXCEPT ![1] = registers[1]]
        BY <3>1, <4>2
      <4> QED BY <1>4, <4>1, <4>3
    <3>3. CASE pc = 168
      <4>1. pc' = 172 /\ UserRegisters = [registers EXCEPT ![1] = csr["mscratch"]]
        BY <1>5, <3>1, <3>3
      <4>2. UserRegisters' = registers'
        BY <1>5, <4>1
      <4> QED BY <3>1, <4>1, <4>2
    <3> QED BY <2>1, <3>2, <3>3
  <2>2. CASE pc \in {132, 136, 140, 144, 148, 152, 160, 164}
    <3>1. pc' \in {132, 136, 140, 144, 148, 152, 160, 164, 168}
      BY <1>3, <2>2 DEF HandlerEffect
    <3>2. csr'["mscratch"] = csr["mscratch"]
      BY <1>3, <2>2, <1>6 DEF HandlerEffect, KeepsCsrs
    <3>3. registers' = registers \/ \E v : registers' = [registers EXCEPT ![1] = v]
      BY <1>3, <2>2 DEF HandlerEffect
    <3>4. [registers' EXCEPT ![1] = csr["mscratch"]] = [registers EXCEPT ![1] = csr["mscratch"]]
      BY <1>4, <3>3 DEF Registers
    <3> QED BY <1>5, <2>2, <3>1, <3>2, <3>4
  <2>3. CASE pc = 172
    <3>1. registers' = registers /\ pc' = csr["mepc"]
      BY <1>3, <2>3 DEF HandlerEffect
    <3>2. pc' \notin {132, 136, 140, 144, 148, 152, 160, 164, 168}
      BY <1>2, <1>8, <3>1
    <3> QED BY <1>5, <2>3, <3>1, <3>2
  <2> QED BY <1>1, <2>1, <2>2, <2>3
<1>11. pc # 172 => pc' \in Handler /\ csr'["mstatus"] = csr["mstatus"]
  BY <1>1, <1>3, <1>6, <1>8 DEF HandlerEffect, KeepsCsrs
<1>12. pc \notin {148, 172} => csr'["mepc"] = csr["mepc"]
  BY <1>1, <1>3, <1>6 DEF HandlerEffect, KeepsCsrs
<1>13. pc # 148 => UserPc' = UserPc
  <2>1. CASE pc = 172
    BY <1>2, <1>3, <1>5, <2>1 DEF HandlerEffect
  <2> QED BY <1>5, <1>11, <1>12, <2>1
<1>14. pc = 148 => /\ FaultsAt(UserPc, UserRegisters) /\ UserPc' = Plus(UserPc, 4)
                   /\ csr'["mepc"] = Plus(csr["mepc"], 4) /\ csr'["mepc"] \notin Handler
  <2> SUFFICES ASSUME pc = 148 PROVE <1>14!2
    OBVIOUS
  <2>1. csr'["mepc"] = registers[1]
    BY <1>3 DEF HandlerEffect
  <2> QED BY <1>2, <1>5, <1>11, <2>1 DEF ToBeSteppedOver
<1>15. pc \notin {148, 172} => (ToBeSteppedOver => ToBeSteppedOver')
  BY <1>10, <1>12, <1>13 DEF ToBeSteppedOver
<1>16. HandlerInv'
  <2>1. CASE pc = 172
    BY <1>2, <1>3, <2>1 DEF HandlerEffect, HandlerInv
  <2>2. CASE pc # 172
    <3>1. ~ Mie(csr')
      BY <1>2, <1>11, <2>2 DEF Mie, Has
    <3>2. csr'["mepc"] \notin Handler
      BY <1>2, <1>12, <1>14, <2>2
    <3>3. pc' \in {128, 132, 136} => IsInterrupt(csr'["mcause"]) \/ ToBeSteppedOver'
      <4> SUFFICES ASSUME pc' \in {128, 132, 136}
                   PROVE  IsInterrupt(csr'["mcause"]) \/ ToBeSteppedOver'
        OBVIOUS
      <4>1. pc \in {128, 132}
        BY <1>1, <1>3, <2>2 DEF HandlerEffect
      <4>2. csr'["mcause"] = csr["mcause"]
        BY <1>3, <1>6, <4>1 DEF HandlerEffect, KeepsCsrs
      <4> QED BY <1>2, <1>15, <4>1, <4>2
    <3>4. pc' = 136 => registers'[1] = csr'["mcause"]
      <4> SUFFICES ASSUME pc' = 136 PROVE registers'[1] = csr'["mcause"]
        OBVIOUS
      <4>1. pc = 132
        BY <1>1, <1>3, <2>2 DEF HandlerEffect
      <4>2. csr'["mcause"] = csr["mcause"] /\ registers' = [registers EXCEPT ![1] = csr["mcause"]]
        BY <1>3, <1>6, <4>1 DEF HandlerEffect, KeepsCsrs
      <4> QED BY <1>4, <4>2 DEF Registers
    <3>5. pc' \in {140, 144, 148} => ToBeSteppedOver'
      <4> SUFFICES ASSUME pc' \in {140, 144, 148} PROVE ToBeSteppedOver'
        OBVIOUS
      <4>1. pc \in {136, 140, 144} /\ (pc = 136 => ~ IsInterrupt(registers[1]))
        BY <1>1, <1>3, <2>2 DEF HandlerEffect
      <4>2. ToBeSteppedOver
        BY <1>2, <4>1
      <4> QED BY <1>15, <4>1, <4>2
    <3>6. pc' = 144 => registers'[1] = csr'["mepc"]
      <4> SUFFICES ASSUME pc' = 144 PROVE registers'[1] = csr'["mepc"]
        OBVIOUS
      <4>1. pc = 140
        BY <1>1, <1>3, <2>2 DEF HandlerEffect
      <4>2. csr'["mepc"] = csr["mepc"] /\ registers' = [registers EXCEPT ![1] = csr["mepc"]]
        BY <1>3, <1>12, <4>1 DEF HandlerEffect
      <4> QED BY <1>4, <4>2 DEF Registers
    <3>7. pc' = 148 => registers'[1] = Plus(csr'["mepc"], 4)
      <4> SUFFICES ASSUME pc' = 148 PROVE registers'[1] = Plus(csr'["mepc"], 4)
        OBVIOUS
      <4>1. pc = 144
        BY <1>1, <1>3, <2>2 DEF HandlerEffect
      <4>2. /\ csr'["mepc"] = csr["mepc"] /\ registers[1] = csr["mepc"]
            /\ registers' = [registers EXCEPT ![1] = Plus(registers[1], 4)]
        BY <1>2, <1>3, <1>12, <4>1 DEF HandlerEffect
      <4> QED BY <1>4, <4>2 DEF Registers
    <3>8. Base = 128 /\ Base + 4 = 132 /\ Base + 8 = 136 /\ Base + 12 = 140
          /\ Base + 16 = 144 /\ Base + 20 = 148 /\ Scratch = 1
      BY DEF Base, Scratch
    <3> QED BY <3>1, <3>2, <3>3, <3>4, <3>5, <3>6, <3>7, <3>8 DEF HandlerInv, InHandler
  <2> QED BY <2>1, <2>2
<1> QED BY <1>9, <1>10, <1>13, <1>14, <1>16

(* What it sees of any other step: its instruction, or, of a trap, nothing. *)
LEMMA OutsideUser ==
    ASSUME TypeOK, KeepsTheContract, pc \notin Handler, Cycle
    PROVE  /\ HandlerInv'
           /\ \/ UserPc' = UserPc /\ UserRegisters' = UserRegisters /\ memory' = memory
              \/ User!Execute
<1>1. UserPc = pc /\ UserRegisters = registers
  BY HandlerIs DEF UserPc, UserRegisters
<1>2. /\ FaultsAt(pc, registers) \/ InterruptEnabled => csr["mtvec"] \in {Base, Base + 1}
      /\ FaultsAt(pc, registers) => Plus(pc, 4) \notin Handler
      /\ ~ FaultsAt(pc, registers) => NextPc(Current, pc) \notin Handler
  BY <1>1, UserFaults DEF KeepsTheContract, EntersByTraps
<1>3. ASSUME NEW trap \in Traps, TrapsTo(trap), csr["mtvec"] \in {Base, Base + 1},
             ~ IsInterrupt(trap) => FaultsAt(pc, registers)
      PROVE  HandlerInv' /\ UserPc' = UserPc /\ UserRegisters' = UserRegisters /\ memory' = memory
  <2>1. /\ pc' = 128 \/ (IsInterrupt(trap) /\ pc' = 156)
        /\ registers' = registers /\ memory' = memory
        /\ csr'["mepc"] = pc /\ csr'["mcause"] = trap /\ ~ Mie(csr')
    BY <1>3, TrapEnters
  <2>2. pc' \in Handler /\ pc' \notin Saved
    BY <2>1, HandlerIs
  <2>3. UserPc' = pc /\ UserRegisters' = registers
    BY <2>1, <2>2 DEF UserPc, UserRegisters
  <2>4. ~ IsInterrupt(trap) => ToBeSteppedOver'
    BY <1>2, <1>3, <2>1, <2>3 DEF ToBeSteppedOver
  <2>5. HandlerInv'
    <3>1. Base = 128 /\ Base + 4 = 132 /\ Base + 8 = 136 /\ Base + 12 = 140
          /\ Base + 16 = 144 /\ Base + 20 = 148
      BY DEF Base
    <3> HIDE DEF Handler
    <3> QED BY <2>1, <2>4, <3>1 DEF HandlerInv, InHandler
  <2> QED BY <1>1, <2>1, <2>3, <2>5
<1>4. CASE FaultsAt(pc, registers) /\ \E trap \in Exceptions : TrapsTo(trap)
  <2>1. Exceptions \subseteq Traps
    BY DEF Traps
  <2> QED BY <1>2, <1>3, <1>4, <2>1
<1>5. CASE InterruptEnabled /\ TrapsTo(MachineTimerInterrupt)
  <2>1. MachineTimerInterrupt \in Traps /\ IsInterrupt(MachineTimerInterrupt)
    <3>1. InterruptBit \in Nat
      BY WordSize DEF InterruptBit
    <3> QED BY <3>1 DEF Traps, MachineTimerInterrupt, IsInterrupt
  <2> QED BY <1>2, <1>3, <1>5, <2>1
<1>6. CASE ~ FaultsAt(pc, registers) /\ RetiresPlainly
  <2>1. pc' = NextPc(Current, pc) /\ pc' \notin Handler
    BY <1>2, <1>6 DEF RetiresPlainly
  <2>2. UserPc' = pc' /\ UserRegisters' = registers'
    BY <2>1, HandlerIs DEF UserPc, UserRegisters
  <2>3. User!Step(Current)
    BY <1>1, <1>6, <2>1, <2>2, UserSteps DEF RetiresPlainly
  <2>4. User!Current = Current
    BY <1>1, <1>6, UserDecodes, ImageAssumption
       DEF User!Current, UserPc, UserRegisters, FaultsAt, Current
  <2>5. User!Execute
    BY <1>1, <1>6, <2>3, <2>4, UserFaults DEF User!Execute
  <2> QED BY <2>1, <2>5 DEF HandlerInv
<1> QED BY <1>4, <1>5, <1>6, CycleOutside DEF KeepsTheContract

LEMMA HandlerInductive ==
    TypeOK /\ KeepsTheContract /\ HandlerInv /\ [Run]_<< vars, options, running >> => HandlerInv'
<1> SUFFICES ASSUME TypeOK, KeepsTheContract, HandlerInv, [Run]_<< vars, options, running >>
             PROVE  HandlerInv'
  OBVIOUS
<1>1. CASE UNCHANGED << vars, options, running >>
  <2>1. pc' = pc /\ registers' = registers /\ csr' = csr
    BY <1>1 DEF vars
  <2>2. UserPc' = UserPc /\ UserRegisters' = UserRegisters
    BY <2>1 DEF UserPc, UserRegisters
  <2> HIDE DEF Handler, Saved
  <2>3. ToBeSteppedOver' = ToBeSteppedOver
    BY <2>1, <2>2 DEF ToBeSteppedOver
  <2>4. Mie(csr') = Mie(csr)
    BY <2>1
  <2> QED BY <2>1, <2>3, <2>4 DEF HandlerInv, InHandler
<1>2. CASE Run /\ pc \in Handler
  BY <1>2, HandlerUser DEF Run, KeepsTheContract
<1>3. CASE Run /\ pc \notin Handler
  BY <1>3, OutsideUser DEF Run
<1> QED BY <1>1, <1>2, <1>3

LEMMA HandlerInit == EmulatorInit /\ KeepsTheContract => HandlerInv
  BY DEF EmulatorInit, Init, KeepsTheContract, HandlerInPlace, HandlerInv

(***************************************************************************)
(* In every state of a run in which the program keeps its contract with    *)
(* the handler, the handler is where InHandler says: between the trap of   *)
(* lib/core/cpu.cpp:117-174 and its mret, mepc, mcause and the scratch     *)
(* register hold what its next instructions need.                          *)
(***************************************************************************)
THEOREM HandlerInvariantHolds == EmulatorSpec /\ []KeepsTheContract => [](TypeOK /\ HandlerInv)
<1>1. EmulatorSpec => []TypeOK
  BY EmulatorRunsTheMachine, MachineTypesCorrect
<1> QED BY <1>1, HandlerInit, HandlerInductive, PTL DEF EmulatorSpec

(***************************************************************************)
(* From its first to its last instruction the handler runs with interrupts *)
(* masked (lib/core/cpu.cpp:41-52, 103-108, 117-127), whatever the program *)
(* under it and whenever the clock raises its line.                        *)
(***************************************************************************)
THEOREM HandlerRunsMasked == EmulatorSpec /\ []KeepsTheContract => []HandlerMasked
<1>1. HandlerInv => HandlerMasked
  BY DEF HandlerInv, InHandler, HandlerMasked
<1> QED BY <1>1, HandlerInvariantHolds, PTL

(* Every step of the machine is a step of the program, or none. *)
LEMMA StepsOfTheProgram ==
    TypeOK /\ KeepsTheContract /\ HandlerInv /\ [Run]_<< vars, options, running >>
        => [User!Execute \/ User!Skip]_(User!vars)
<1> SUFFICES ASSUME TypeOK, KeepsTheContract, HandlerInv, [Run]_<< vars, options, running >>
             PROVE  User!Execute \/ User!Skip \/ User!vars' = User!vars
  OBVIOUS
<1>1. UserPc' = UserPc /\ UserRegisters' = UserRegisters /\ memory' = memory
          => User!vars' = User!vars
  BY DEF UserPc, UserRegisters, User!vars
<1>2. CASE UNCHANGED << vars, options, running >>
  <2>1. pc' = pc /\ registers' = registers /\ csr' = csr /\ memory' = memory
    BY <1>2 DEF vars
  <2>2. UserPc' = UserPc /\ UserRegisters' = UserRegisters
    BY <2>1 DEF UserPc, UserRegisters
  <2> QED BY <1>1, <2>1, <2>2
<1>3. CASE Run /\ pc \in Handler
  <2>1. /\ memory' = memory /\ UserRegisters' = UserRegisters
        /\ pc # 148 => UserPc' = UserPc
        /\ pc = 148 => FaultsAt(UserPc, UserRegisters) /\ UserPc' = Plus(UserPc, 4)
    BY <1>3, HandlerUser DEF Run, KeepsTheContract
  <2>2. FaultsAt(UserPc, UserRegisters) /\ UserPc' = Plus(UserPc, 4) => User!Skip
    BY <2>1, UserFaults DEF User!Skip, UserPc, UserRegisters, User!Plus, Plus
  <2> QED BY <1>1, <2>1, <2>2
<1>4. CASE Run /\ pc \notin Handler
  BY <1>1, <1>4, OutsideUser DEF Run
<1> QED BY <1>2, <1>3, <1>4

(***************************************************************************)
(* Traps are invisible: registers, memory and program counter of a program *)
(* that keeps the contract go through the steps of UserProgram, in which   *)
(* there is no interrupt, no handler and no CSR, and in which an           *)
(* instruction that faults is skipped (lib/core/cpu.cpp:5-174); for every  *)
(* program, every width of the registers from eight bits up, and every     *)
(* cycle in which the clock raises its line.                               *)
(***************************************************************************)
THEOREM TrapsStayInvisible == EmulatorSpec /\ []KeepsTheContract => TrapsAreTransparent
<1>1. EmulatorInit /\ KeepsTheContract => User!Init
  BY HandlerIs DEF EmulatorInit, Init, KeepsTheContract, HandlerInPlace, User!Init
<1>2. TypeOK /\ KeepsTheContract /\ HandlerInv /\ [Run]_<< vars, options, running >>
          => [User!Execute \/ User!Skip]_(User!vars)
  BY StepsOfTheProgram
<1> QED BY <1>1, <1>2, HandlerInvariantHolds, PTL
        DEF EmulatorSpec, TrapsAreTransparent, User!Spec

(* While a run that captures all traps goes on, no handler has begun. *)
HandlerNotBegun == trap_capture_mode = "All" /\ running => pc \notin Handler

LEMMA RunStaysOutside ==
    ASSUME MainLeavesTrapRegisters
    PROVE  TypeOK /\ KeepsTheContract /\ NoHandlerBegan /\ HandlerNotBegun
               /\ [Run]_<< vars, options, running >>
               => NoHandlerBegan' /\ HandlerNotBegun'
<1> SUFFICES ASSUME TypeOK, KeepsTheContract, NoHandlerBegan, HandlerNotBegun,
                    [Run]_<< vars, options, running >>, trap_capture_mode' = "All", running'
             PROVE  csr'["mcause"] = 0 /\ csr'["mepc"] = 0 /\ pc' \notin Handler
  BY DEF NoHandlerBegan, HandlerNotBegun
<1>1. CASE UNCHANGED << vars, options, running >>
  BY <1>1 DEF vars, options, NoHandlerBegan, HandlerNotBegun
<1>2. CASE Retire /\ Cycle /\ running /\ trap_capture_mode = "All"
  <2>1. pc \notin Handler
    BY <1>2 DEF HandlerNotBegun
  <2>2. LeavesTrapRegisters(Image[pc])
    BY <1>2, <2>1 DEF Retire, Executes, Legal, Fetchable, MainLeavesTrapRegisters
  <2>3. csr'["mcause"] = 0 /\ csr'["mepc"] = 0
    BY <1>2, <2>2, RetireLeavesTrapRegisters DEF NoHandlerBegan
  <2>4. ~ FaultsAt(pc, registers) /\ pc' = NextPc(Current, pc)
    BY <1>2, <2>1, RetireOutside DEF KeepsTheContract, RetiresPlainly
  <2>5. ~ User!Faults
    BY <2>1, <2>4, UserFaults, HandlerIs DEF UserPc, UserRegisters
  <2> QED BY <2>1, <2>3, <2>4, <2>5 DEF KeepsTheContract, EntersByTraps
<1> QED BY <1>1, <1>2, RunRetires

(***************************************************************************)
(* A run that captures all traps ends before the first instruction of the  *)
(* handler (main/src/emulator.cpp:50-96).  The handler itself writes mepc, *)
(* and still mepc and mcause keep their reset values while the run goes    *)
(* on, if the main program writes neither.                                 *)
(***************************************************************************)
THEOREM NoHandlerRunsOverTheHandler ==
    ASSUME MainLeavesTrapRegisters
    PROVE  EmulatorSpec /\ []KeepsTheContract => []StopsForAReason
<1>1. EmulatorInit /\ KeepsTheContract => NoHandlerBegan /\ HandlerNotBegun
  BY DEF EmulatorInit, Init, NoHandlerBegan, HandlerNotBegun, Csrs, Writable, KeepsTheContract,
         HandlerInPlace
<1>2. EmulatorSpec => []TypeOK
  BY EmulatorRunsTheMachine, MachineTypesCorrect
<1>3. EmulatorSpec => [](EndedForAReason /\ NothingCaptured)
  BY RunsEndForAReason
<1>4. EmulatorSpec /\ []KeepsTheContract => []NoHandlerBegan
  BY <1>1, <1>2, RunStaysOutside, PTL DEF EmulatorSpec
<1> QED BY <1>3, <1>4, PTL DEF StopsForAReason
=============================================================================
