---------------------------- MODULE MemoryProofs ----------------------------
(***************************************************************************)
(* The invariants of the memory and the fetch cache, and what the accesses *)
(* of the program and of the debugger do to the bytes, and the round trip  *)
(* of a reply through the packet encoder, proved for every address map,    *)
(* page size, number of entries, flash image and longest run.              *)
(***************************************************************************)
EXTENDS DebugReplies, Induction, SequenceTheorems, TLAPS

-----------------------------------------------------------------------------
(* Pages and bytes *)

LEMMA Sizes ==
    /\ PageBytes \in Nat \ {0} /\ PageBytes % 4 = 0
    /\ AddressSpace \in Nat \ {0} /\ AddressSpace % PageBytes = 0
  BY MemoryAssumption

LEMMA Division ==
    ASSUME NEW a \in Nat, NEW n \in Nat \ {0}
    PROVE  /\ a \div n \in Nat /\ a % n \in 0 .. n - 1
           /\ a = n * (a \div n) + (a % n)
  OBVIOUS

(* Quotient and remainder are the only ones. *)
LEMMA DivisionUnique ==
    ASSUME NEW n \in Nat \ {0}, NEW p \in Nat, NEW k \in 0 .. n - 1
    PROVE  (n * p + k) \div n = p
<1> DEFINE x == n * p + k
           q == x \div n
           r == x % n
<1>1. x \in Nat
  OBVIOUS
<1>2. q \in Nat /\ r \in 0 .. n - 1 /\ x = n * q + r
  <2> HIDE DEF x
  <2> QED BY <1>1, Division
<1>3. n * (q - p) = k - r
  <2> HIDE DEF q, r
  <2> QED BY <1>2
<1>4. k - r < n /\ -n < k - r
  <2> HIDE DEF q, r
  <2> QED BY <1>2
<1>5. q - p = 0
  <2> DEFINE d == q - p
  <2>1. d \in Int /\ n * d < n /\ -n < n * d
    <3> HIDE DEF q, r
    <3> QED BY <1>2, <1>3, <1>4
  <2> HIDE DEF d, q
  <2>2. d >= 1 => n * d >= n
    BY <2>1
  <2>3. d <= -1 => n * d <= -n
    BY <2>1
  <2>4. d = 0
    BY <2>1, <2>2, <2>3
  <2> QED BY <2>4 DEF d
<1> HIDE DEF q
<1> QED BY <1>2, <1>5 DEF q

(* The bytes of a page are addresses, and they belong to it. *)
LEMMA PageBytesOfPage ==
    ASSUME NEW p \in Page, NEW k \in 0 .. PageBytes - 1
    PROVE  p * PageBytes + k \in Address /\ PageOf(p * PageBytes + k) = p
<1> DEFINE q == AddressSpace \div PageBytes
<1> USE Sizes
<1>1. AddressSpace = PageBytes * q /\ q \in Nat
  BY Division
<1>2. p \in Nat /\ p <= q - 1
  BY <1>1 DEF Page
<1> HIDE DEF q
<1>3. p * PageBytes <= (q - 1) * PageBytes
  BY <1>1, <1>2
<1>4. (q - 1) * PageBytes = AddressSpace - PageBytes
  BY <1>1
<1>5. p * PageBytes \in Nat /\ p * PageBytes = PageBytes * p
  BY <1>2
<1>6. p * PageBytes + k < AddressSpace
  BY <1>3, <1>4, <1>5
<1>7. (PageBytes * p + k) \div PageBytes = p
  BY <1>2, DivisionUnique
<1> QED BY <1>5, <1>6, <1>7 DEF Address, PageOf

(* An aligned word does not reach beyond its page. *)
LEMMA WordInPage ==
    ASSUME NEW a \in Address, Aligned(a), NEW i \in Lane
    PROVE  /\ PageOf(a) \in Page
           /\ (a % PageBytes) + i \in 0 .. PageBytes - 1
           /\ a + i = PageOf(a) * PageBytes + ((a % PageBytes) + i)
<1> DEFINE q == a \div PageBytes
           r == a % PageBytes
<1> USE Sizes
<1>1. a = PageBytes * q + r /\ q \in Nat /\ r \in 0 .. PageBytes - 1
  <2>1. a \in Nat
    BY DEF Address
  <2> QED BY <2>1, Division
<1>2. PICK y \in Nat : PageBytes = 4 * y
  <2>1. PageBytes = 4 * (PageBytes \div 4) + (PageBytes % 4) /\ PageBytes \div 4 \in Nat
    BY Division
  <2>2. PageBytes = 4 * (PageBytes \div 4)
    BY <2>1
  <2> QED BY <2>1, <2>2
<1>3. PICK x \in Nat : a = 4 * x
  <2>1. a = 4 * (a \div 4) + (a % 4) /\ a \div 4 \in Nat
    BY Division DEF Address
  <2> QED BY <2>1 DEF Aligned
<1> HIDE DEF q, r
<1>4. r = 4 * (x - y * q)
  BY <1>1, <1>2, <1>3
<1>5. r <= PageBytes - 4
  <2> DEFINE d == x - y * q
  <2>1. d \in Int /\ r = 4 * d
    BY <1>1, <1>4
  <2> HIDE DEF d
  <2> QED BY <1>1, <1>2, <2>1
<1>6. r + i \in 0 .. PageBytes - 1
  BY <1>1, <1>5 DEF Lane
<1>7. q * PageBytes + (r + i) = a + i
  BY <1>1 DEF Lane
<1>8. q \in Page
  <2> DEFINE s == AddressSpace \div PageBytes
  <2>1. AddressSpace = PageBytes * s /\ s \in Nat
    BY Division
  <2> HIDE DEF s
  <2>2. PageBytes * q < PageBytes * s
    BY <1>1, <2>1 DEF Address
  <2>3. q < s
    <3>1. q >= s => PageBytes * q >= PageBytes * s
      BY <1>1, <2>1
    <3> QED BY <1>1, <2>1, <2>2, <3>1
  <2> QED BY <1>1, <2>1, <2>3 DEF Page, s
<1> QED BY <1>6, <1>7, <1>8 DEF q, r, PageOf

-----------------------------------------------------------------------------
(* What the ways to the memory leave alone *)

(* The memories that agree with m on the ROM. *)
Kept(m) == {w \in Contents : \A b \in InRom : w[b] = m[b]}

Errors == {"none", "Out_of_range", "Access_fault", "Unaligned"}

(* A word at an aligned address lies in one page. *)
LEMMA SamePage ==
    ASSUME NEW a \in Address, Aligned(a), NEW i \in Lane
    PROVE  PageOf(a + i) = PageOf(a)
<1>1. PageOf(PageOf(a) * PageBytes + ((a % PageBytes) + i)) = PageOf(a)
  <2> DEFINE p == PageOf(a)
             k == (a % PageBytes) + i
  <2>1. p \in Page /\ k \in 0 .. PageBytes - 1
    BY WordInPage
  <2> HIDE DEF p, k
  <2>2. PageOf(p * PageBytes + k) = p
    BY <2>1, PageBytesOfPage
  <2> QED BY <2>2 DEF p, k
<1>2. a + i = PageOf(a) * PageBytes + ((a % PageBytes) + i)
  BY WordInPage
<1> QED BY <1>1, <1>2

LEMMA WriteKeepsRom ==
    ASSUME NEW m \in Contents, NEW a \in Address, NEW data \in Word,
           NEW mask \in SUBSET Lane
    PROVE  /\ Write(m, a, data, mask).memory \in Kept(m)
           /\ Write(m, a, data, mask).error \in Errors
<1> DEFINE w == Overlaid(m, a, data, mask)
<1>1. w \in Contents
  <2>1. ASSUME NEW b \in Backed
        PROVE  (IF b - a \in mask THEN data[b - a] ELSE m[b]) \in Byte
    <3>1. m[b] \in Byte
      BY DEF Contents
    <3>2. b - a \in mask => data[b - a] \in Byte
      BY DEF Word
    <3> QED BY <3>1, <3>2
  <2> QED BY <2>1 DEF Overlaid, Contents
<1>2. ASSUME WriteError(a, mask) = "none", NEW b \in InRom
      PROVE  w[b] = m[b]
  <2>1. PageOf(b) \in Rom /\ b \in Backed /\ b \in Address
    BY DEF InRom, Backed
  <2>2. SUFFICES ASSUME b - a \in mask PROVE FALSE
    BY <2>1 DEF Overlaid
  <2>3. Aligned(a) /\ PageOf(a) \in Ram \cup Peripheral
    BY <1>2, <2>2, MemoryAssumption DEF WriteError
  <2>4. PageOf(b) = PageOf(a)
    <3>1. b = a + (b - a) /\ b - a \in Lane
      BY <2>1, <2>2 DEF Address
    <3> QED BY <2>3, <3>1, SamePage
  <2> QED BY <2>1, <2>3, <2>4, MemoryAssumption
<1>3. WriteError(a, mask) \in Errors
  BY DEF WriteError, Errors
<1> HIDE DEF w
<1>4. Write(m, a, data, mask).memory = IF WriteError(a, mask) = "none" THEN w ELSE m
  BY DEF Write, w
<1> QED BY <1>1, <1>2, <1>3, <1>4 DEF Kept, Write

LEMMA AlignedDownType ==
    ASSUME NEW a \in Address
    PROVE  AlignedDown(a) \in Address /\ Aligned(AlignedDown(a)) /\ a % 4 \in Lane
  BY Sizes DEF Address, AlignedDown, Aligned, Lane

LEMMA StoreKeepsRom ==
    ASSUME NEW m \in Contents, NEW a \in Address, NEW value \in Word,
           NEW funct \in StoreFunct
    PROVE  Store(m, funct, a, value).memory \in Kept(m)
<1>1. m \in Kept(m)
  BY DEF Kept
<1>2. CASE ~ is_aligned(a, funct)
  BY <1>1, <1>2 DEF Store
<1>3. CASE is_aligned(a, funct)
  <2> DEFINE d == ShiftedLeft(value, a % 4)
             mask == StoreMask(funct, a)
             w == Write(m, AlignedDown(a), d, mask)
  <2>1. d \in Word
    <3>1. ASSUME NEW i \in Lane
          PROVE  (IF i >= a % 4 THEN value[i - (a % 4)] ELSE 0) \in Byte
      <4>1. i >= a % 4 => i - (a % 4) \in Lane
        BY AlignedDownType DEF Lane
      <4>2. 0 \in Byte
        BY MemoryAssumption
      <4> QED BY <4>1, <4>2 DEF Word
    <3> QED BY <3>1 DEF ShiftedLeft, Word
  <2>2. mask \in SUBSET Lane
    <3>1. a \in Nat
      BY DEF Address
    <3>2. CASE funct = "Store_byte"
      BY <3>1, <3>2 DEF StoreMask, get_size, Lane
    <3>3. CASE funct = "Store_halfword"
      BY <1>3, <3>1, <3>3 DEF StoreMask, get_size, Lane, is_aligned
    <3>4. CASE funct = "Store_word"
      BY <1>3, <3>1, <3>4 DEF StoreMask, get_size, Lane, is_aligned
    <3> QED BY <3>2, <3>3, <3>4 DEF StoreFunct
  <2> HIDE DEF d, mask
  <2>3. w.memory \in Kept(m)
    BY <2>1, <2>2, AlignedDownType, WriteKeepsRom
  <2> HIDE DEF w
  <2>4. Store(m, funct, a, value).memory \in {m, w.memory}
    BY <1>3 DEF Store, w, d, mask
  <2> QED BY <1>1, <2>3, <2>4
<1> QED BY <1>2, <1>3

LEMMA AtType ==
    ASSUME NEW a \in Address, NEW i \in Nat PROVE At(a, i) \in Address
<1>1. a + i \in Nat
  BY DEF Address
<1>2. (a + i) % AddressSpace \in 0 .. AddressSpace - 1
  BY <1>1, Sizes, Division
<1> QED BY <1>2 DEF At, Address

(***************************************************************************)
(* The loop of handle_mem_write, a function defined by recursion: what has *)
(* been done after each byte, and each byte keeps what the bytes before it *)
(* have kept.                                                              *)
(***************************************************************************)
LEMMA WriteUnfolds ==
    ASSUME NEW m \in Contents, NEW a \in Address, NEW data \in Seq(Byte)
    PROVE  \E after :
               /\ handle_mem_write(m, a, data) = after[Len(data)]
               /\ after[0] = [error |-> "none", memory |-> m]
               /\ \A i \in 1 .. Len(data) :
                      after[i] =
                          IF Succeeds(after[i - 1])
                          THEN WriteByte(after[i - 1].memory, At(a, i - 1), data[i])
                          ELSE after[i - 1]
               /\ \A i \in 0 .. Len(data) :
                      after[i] \in [error : Errors, memory : Kept(m)]
<1> DEFINE n == Len(data)
           T == [error : Errors, memory : Kept(m)]
           start == [error |-> "none", memory |-> m]
           Extend(i, w) ==
               IF Succeeds(w) THEN WriteByte(w.memory, At(a, i - 1), data[i]) ELSE w
           G == [x \in (1 .. n) \X T |-> Extend(x[1], x[2])]
           after[i \in 0 .. Len(data)] ==
               IF i = 0 THEN [error |-> "none", memory |-> m]
               ELSE IF Succeeds(after[i - 1])
                    THEN WriteByte(after[i - 1].memory, At(a, i - 1), data[i])
                    ELSE after[i - 1]
           Unfold(f) == [i \in 0 .. Len(data) |->
               IF i = 0 THEN [error |-> "none", memory |-> m]
               ELSE IF Succeeds(f[i - 1])
                    THEN WriteByte(f[i - 1].memory, At(a, i - 1), data[i])
                    ELSE f[i - 1]]
<1>1. n \in Nat /\ start \in T
  BY DEF Kept, Errors
<1>2. ASSUME NEW i \in 1 .. n, NEW w \in T
      PROVE  Extend(i, w) \in T
  <2>1. w.memory \in Kept(m) /\ w.memory \in Contents
    BY DEF Kept
  <2> DEFINE b == At(a, i - 1)
             d == [j \in Lane |-> IF j = b % 4 THEN data[i] ELSE 0]
             v == Write(w.memory, b, d, {b % 4})
  <2>2. b \in Address /\ b % 4 \in Lane
    BY AtType, AlignedDownType
  <2>3. d \in Word
    <3>1. data[i] \in Byte /\ 0 \in Byte
      BY MemoryAssumption
    <3> QED BY <3>1 DEF Word
  <2> HIDE DEF b, d
  <2>4. v.memory \in Kept(w.memory) /\ v.error \in Errors
    BY <2>1, <2>2, <2>3, WriteKeepsRom
  <2>5. v.memory \in Kept(m)
    BY <2>1, <2>4 DEF Kept
  <2>6. v = [error |-> v.error, memory |-> v.memory]
    BY DEF Write
  <2> HIDE DEF v
  <2>7. v \in T
    BY <2>4, <2>5, <2>6
  <2>8. WriteByte(w.memory, b, data[i]) = v
    BY DEF WriteByte, v, d
  <2> QED BY <2>7, <2>8 DEF b
<1>3. \E f \in [0 .. n -> T] :
          f[0] = start /\ \A i \in 1 .. n : f[i] = Extend(i, f[i - 1])
  <2>1. G \in StepFunctions(n, T)
    <3> HIDE DEF Extend, T
    <3> QED BY <1>2 DEF StepFunctions
  <2>2. PICK f \in [0 .. n -> T] :
            f[0] = start /\ \A i \in 1 .. n : f[i] = G[<< i, f[i - 1] >>]
    <3> HIDE DEF G, n, T, start
    <3>1. \E f : IsRecursion(f, n, T, start, G)
      BY <1>1, <2>1, RecursionExists
    <3> QED BY <3>1 DEF IsRecursion
  <2>3. ASSUME NEW i \in 1 .. n PROVE f[i] = Extend(i, f[i - 1])
    <3> HIDE DEF T
    <3>1. f[i - 1] \in T
      BY <1>1
    <3> HIDE DEF Extend
    <3> QED BY <2>2, <3>1
  <2> QED BY <2>2, <2>3
<1>4. \E f : f = Unfold(f)
  <2>1. PICK f \in [0 .. n -> T] :
            f[0] = start /\ \A i \in 1 .. n : f[i] = Extend(i, f[i - 1])
    BY <1>3
  <2>2. ASSUME NEW i \in 0 .. n PROVE f[i] = Unfold(f)[i]
    <3>1. Unfold(f)[i] = IF i = 0 THEN start ELSE Extend(i, f[i - 1])
      OBVIOUS
    <3>2. i # 0 => i \in 1 .. n
      BY <1>1
    <3> HIDE DEF Unfold, Extend, n, start
    <3> QED BY <2>1, <3>1, <3>2
  <2>3. f = [i \in 0 .. n |-> f[i]] /\ Unfold(f) = [i \in 0 .. n |-> Unfold(f)[i]]
    OBVIOUS
  <2> HIDE DEF Unfold
  <2>4. f = Unfold(f)
    BY <2>2, <2>3
  <2> QED BY <2>4
<1>5. after = Unfold(after)
  <2>1. after = CHOOSE f : f = Unfold(f)
    OBVIOUS
  <2> HIDE DEF after, Unfold
  <2> QED BY <1>4, <2>1
<1>6. after[0] = start
  <2>1. 0 \in 0 .. Len(data)
    BY <1>1
  <2> HIDE DEF after
  <2> QED BY <1>5, <2>1
<1>7. ASSUME NEW i \in 1 .. n PROVE after[i] = Extend(i, after[i - 1])
  <2>1. i \in 0 .. Len(data) /\ i # 0
    OBVIOUS
  <2> HIDE DEF after
  <2> QED BY <1>5, <2>1
<1>8. \A i \in 0 .. n : after[i] \in T
  <2> HIDE DEF after, T, start, n, Extend
  <2> QED BY <1>1, <1>2, <1>6, <1>7, RecursionType
<1>9. handle_mem_write(m, a, data) = after[n]
  BY DEF handle_mem_write
<1> HIDE DEF after
<1> QED BY <1>6, <1>7, <1>8, <1>9

LEMMA DebuggerKeepsRom ==
    ASSUME NEW m \in Contents, NEW a \in Address, NEW data \in Seq(Byte)
    PROVE  handle_mem_write(m, a, data).memory \in Kept(m)
<1> DEFINE T == [error : Errors, memory : Kept(m)]
<1>1. PICK after : /\ handle_mem_write(m, a, data) = after[Len(data)]
                   /\ \A i \in 0 .. Len(data) : after[i] \in T
  BY WriteUnfolds
<1>2. after[Len(data)] \in T
  <2> HIDE DEF T
  <2> QED BY <1>1
<1> QED BY <1>1, <1>2
-----------------------------------------------------------------------------
(* The invariant *)

(***************************************************************************)
(* FetchesAreCurrent speaks of the next fetch.  What makes it inductive is *)
(* the agreement of every valid entry with its page in the memory, byte by *)
(* byte, until a byte of the page is changed.                              *)
(***************************************************************************)
Coherent ==
    \A i \in Index : cache[i].valid /\ cache[i].address \notin stored =>
        \A k \in 0 .. PageBytes - 1 :
            cache[i].data[k] = memory[(cache[i].address * PageBytes) + k]

IInv == TypeOK /\ Coherent

LEMMA EntryType == ASSUME NEW p \in Page PROVE Entry(p) \in Index
<1>1. p \in Nat
  BY Sizes DEF Page
<1>2. p % cache_num \in 0 .. cache_num - 1
  BY <1>1, CacheAssumption
<1> QED BY <1>2 DEF Entry, Index

(* A page that can be read in is one of RAM or ROM, and is read as it is. *)
LEMMA ReadPageType ==
    ASSUME NEW m \in Contents, NEW p \in Page
    PROVE  /\ Succeeds(ReadPage(m, p)) <=> p \in Ram \cup Rom
           /\ p \in Ram \cup Rom =>
                  /\ ReadPage(m, p).data \in PageData
                  /\ \A k \in 0 .. PageBytes - 1 :
                         ReadPage(m, p).data[k] = m[(p * PageBytes) + k]
<1> DEFINE page == [k \in 0 .. PageBytes - 1 |-> m[(p * PageBytes) + k]]
<1> HIDE DEF page
<1>1. ReadPage(m, p) = CASE p \in Ram \cup Rom -> [error |-> "none", data |-> page]
                         [] p \in Peripheral -> Failed("Not_supported")
                         [] OTHER -> Failed("Out_of_range")
  BY Zenon DEF ReadPage, page
<1>2. Failed("Not_supported").error # "none" /\ Failed("Out_of_range").error # "none"
  BY DEF Failed
<1> HIDE DEF ReadPage
<1>3. ASSUME p \in Ram \cup Rom
      PROVE  Succeeds(ReadPage(m, p)) /\ ReadPage(m, p).data = page
  <2>1. p \notin Peripheral
    BY <1>3, MemoryAssumption
  <2>2. ReadPage(m, p) = [error |-> "none", data |-> page]
    BY <1>1, <1>3, <2>1
  <2> QED BY <2>2 DEF Succeeds
<1>4. ASSUME p \notin Ram \cup Rom
      PROVE  ~ Succeeds(ReadPage(m, p))
  <2>1. CASE p \in Peripheral
    <3>1. ReadPage(m, p) = Failed("Not_supported")
      BY <1>1, <1>4, <2>1, Zenon
    <3> QED BY <1>2, <3>1 DEF Succeeds
  <2>2. CASE p \notin Peripheral
    <3>1. ReadPage(m, p) = Failed("Out_of_range")
      BY <1>1, <1>4, <2>2, Zenon
    <3> QED BY <1>2, <3>1 DEF Succeeds
  <2> QED BY <2>1, <2>2
<1>5. ASSUME p \in Ram \cup Rom, NEW k \in 0 .. PageBytes - 1
      PROVE  m[(p * PageBytes) + k] \in Byte
  <2>1. (p * PageBytes) + k \in Backed
    BY <1>5, PageBytesOfPage DEF Backed
  <2> QED BY <2>1 DEF Contents
<1> QED BY <1>3, <1>4, <1>5 DEF PageData, page

LEMMA InitInvariant == Init => IInv
<1> SUFFICES ASSUME Init PROVE IInv
  OBVIOUS
<1>1. memory \in Contents
  <2>1. PICK fill \in [Backed \ InRom -> FillByte] :
            memory = [b \in Backed |-> IF b \in InRom THEN rom_init_data[b] ELSE fill[b]]
    BY DEF Init, MemoryInit
  <2>2. ASSUME NEW b \in Backed
        PROVE  (IF b \in InRom THEN rom_init_data[b] ELSE fill[b]) \in Byte
    BY ImageAssumption, MemoryAssumption
  <2> QED BY <2>1, <2>2 DEF Contents
<1>2. PICK byte \in FillByte :
          cache = [i \in Index |->
                      [valid |-> FALSE, address |-> 0,
                       data |-> [k \in 0 .. PageBytes - 1 |-> byte]]]
  BY DEF Init
<1>3. \A i \in Index : ~ cache[i].valid
  BY <1>2
<1>4. cache \in [Index -> [valid : BOOLEAN, address : Page, data : PageData]]
  <2>1. 0 \in Page
    <3> DEFINE q == AddressSpace \div PageBytes
    <3>1. AddressSpace = PageBytes * q /\ q \in Nat
      BY Sizes, Division
    <3> HIDE DEF q
    <3>2. q # 0
      BY <3>1, Sizes
    <3> QED BY <3>1, <3>2 DEF Page, q
  <2>2. [k \in 0 .. PageBytes - 1 |-> byte] \in PageData
    BY MemoryAssumption DEF PageData
  <2> QED BY <1>2, <2>1, <2>2
<1> QED BY <1>1, <1>3, <1>4 DEF Init, IInv, TypeOK, Coherent

(***************************************************************************)
(* A miss: the entry of the page is replaced by the page, or invalidated.  *)
(***************************************************************************)
LEMMA FillPreserves ==
    ASSUME IInv, NEW p \in Page, FetchFill(p)
    PROVE  IInv'
<1> DEFINE e == Entry(p)
           page == ReadPage(memory, p).data
<1> USE DEF IInv
<1>1. e \in Index /\ p \in Ram \cup Rom /\ memory \in Contents /\ page \in PageData
  BY EntryType, ReadPageType DEF FetchFill, TypeOK
<1>2. \A k \in 0 .. PageBytes - 1 : page[k] = memory[(p * PageBytes) + k]
  BY <1>1, ReadPageType
<1>3. /\ cache' = [cache EXCEPT ![e] = [valid |-> TRUE, address |-> p, data |-> page]]
      /\ stored' = stored \ {p} /\ memory' = memory /\ fenced' = fenced
  BY DEF FetchFill
<1>4. p % cache_num = e
  BY DEF Entry
<1> HIDE DEF e, page
<1>5. cache' \in [Index -> [valid : BOOLEAN, address : Page, data : PageData]]
  BY <1>1, <1>3 DEF TypeOK
<1>6. cache'[e] = [valid |-> TRUE, address |-> p, data |-> page]
  BY <1>1, <1>3 DEF TypeOK
<1>7. \A i \in Index \ {e} : cache'[i] = cache[i]
  BY <1>3 DEF TypeOK
<1>8. TypeOK'
  <2>1. ASSUME NEW i \in Index, cache'[i].valid
        PROVE  cache'[i].address \in Ram \cup Rom /\ cache'[i].address % cache_num = i
    <3>1. CASE i = e
      BY <1>1, <1>4, <1>6, <3>1
    <3>2. CASE i # e
      BY <1>7, <2>1, <3>2 DEF TypeOK
    <3> QED BY <3>1, <3>2
  <2> QED BY <1>3, <1>5, <2>1 DEF TypeOK
<1>9. Coherent'
  <2>1. SUFFICES ASSUME NEW i \in Index, cache'[i].valid, cache'[i].address \notin stored',
                        NEW k \in 0 .. PageBytes - 1
                 PROVE  cache'[i].data[k] = memory'[(cache'[i].address * PageBytes) + k]
    BY DEF Coherent
  <2>2. CASE i = e
    BY <1>2, <1>3, <1>6, <2>2
  <2>3. CASE i # e
    <3>1. cache'[i] = cache[i]
      BY <1>7, <2>3
    <3>2. cache[i].address % cache_num = i
      BY <2>1, <3>1 DEF TypeOK
    <3>3. cache[i].address # p
      BY <1>4, <2>3, <3>2
    <3>4. cache[i].address \notin stored
      BY <1>3, <2>1, <3>1, <3>3
    <3> QED BY <1>3, <2>1, <3>1, <3>4 DEF Coherent
  <2> QED BY <2>2, <2>3
<1> QED BY <1>8, <1>9

LEMMA FailPreserves ==
    ASSUME IInv, NEW p \in Page, FetchFail(p)
    PROVE  IInv'
<1> DEFINE e == Entry(p)
<1> USE DEF IInv
<1>1. e \in Index
  BY EntryType
<1>2. /\ cache' = [cache EXCEPT ![e].valid = FALSE]
      /\ stored' = stored /\ memory' = memory /\ fenced' = fenced
  BY DEF FetchFail
<1> HIDE DEF e
<1>3. cache' \in [Index -> [valid : BOOLEAN, address : Page, data : PageData]]
  BY <1>1, <1>2 DEF TypeOK
<1>4. \A i \in Index : cache'[i].valid => cache'[i] = cache[i]
  BY <1>1, <1>2 DEF TypeOK
<1> QED BY <1>2, <1>3, <1>4 DEF TypeOK, Coherent

(***************************************************************************)
(* A store: an entry whose page was not changed still agrees with it.      *)
(***************************************************************************)
LEMMA StorePreserves ==
    ASSUME IInv, NEW after \in Kept(memory), MemoryBecomes(after)
    PROVE  IInv'
<1> USE DEF IInv
<1>1. /\ memory' = after /\ after \in Contents /\ cache' = cache /\ fenced' = FALSE
      /\ stored' = stored \cup {PageOf(b) : b \in {b \in Backed : after[b] # memory[b]}}
  BY DEF MemoryBecomes, Kept
<1>2. stored' \subseteq Ram
  <2>1. ASSUME NEW b \in Backed, after[b] # memory[b] PROVE PageOf(b) \in Ram
    BY <2>1 DEF Kept, Backed, InRom
  <2> QED BY <1>1, <2>1 DEF TypeOK
<1>3. TypeOK'
  BY <1>1, <1>2 DEF TypeOK
<1>4. Coherent'
  <2>1. SUFFICES ASSUME NEW i \in Index, cache[i].valid, cache[i].address \notin stored',
                        NEW k \in 0 .. PageBytes - 1
                 PROVE  cache[i].data[k] = after[(cache[i].address * PageBytes) + k]
    BY <1>1 DEF Coherent
  <2> DEFINE p == cache[i].address
             b == (p * PageBytes) + k
  <2>2. p \in Page /\ p \in Ram \cup Rom
    BY <2>1 DEF TypeOK
  <2>3. b \in Backed /\ PageOf(b) = p
    BY <2>2, PageBytesOfPage DEF Backed
  <2>4. cache[i].data[k] = memory[b]
    BY <1>1, <2>1 DEF Coherent
  <2> HIDE DEF b
  <2>5. after[b] = memory[b]
    BY <1>1, <2>1, <2>3
  <2> QED BY <2>4, <2>5 DEF b
<1> QED BY <1>3, <1>4

(* What the two ways to the memory make of it. *)
LEMMA WritersKeepRom ==
    ASSUME TypeOK, ProgramStores \/ DebuggerWrites
    PROVE  \E after \in Kept(memory) : MemoryBecomes(after)
<1>1. memory \in Contents
  BY DEF TypeOK
<1>2. CASE ProgramStores
  <2>1. PICK funct \in StoreFunct, a \in Address, value \in Value :
            MemoryBecomes(Store(memory, funct, a, value).memory)
    BY <1>2 DEF ProgramStores
  <2>2. value \in Word
    BY CacheAssumption
  <2> QED BY <1>1, <2>1, <2>2, StoreKeepsRom
<1>3. CASE DebuggerWrites
  <2>1. PICK a \in Address, data \in Data :
            MemoryBecomes(handle_mem_write(memory, a, data).memory)
    BY <1>3 DEF DebuggerWrites
  <2>2. data \in Seq(Byte)
    BY CacheAssumption
  <2> QED BY <1>1, <2>1, <2>2, DebuggerKeepsRom
<1> QED BY <1>2, <1>3

LEMMA NextPreserves ==
    ASSUME IInv, [Next]_vars
    PROVE  IInv'
<1>1. CASE Fetch
  BY <1>1, FillPreserves, FailPreserves DEF Fetch
<1>2. CASE ProgramStores \/ DebuggerWrites
  BY <1>2, WritersKeepRom, StorePreserves DEF IInv
<1>3. CASE FenceI
  BY <1>3 DEF FenceI, IInv, TypeOK, Coherent
<1>4. CASE UNCHANGED vars
  BY <1>4 DEF vars, IInv, TypeOK, Coherent
<1> QED BY <1>1, <1>2, <1>3, <1>4 DEF Next

LEMMA Invariance == Spec => []IInv
<1>1. Init => IInv
  BY InitInvariant
<1>2. IInv /\ [Next]_vars => IInv'
  BY NextPreserves
<1> QED BY <1>1, <1>2, PTL DEF Spec
-----------------------------------------------------------------------------
(* Theorems *)

(***************************************************************************)
(* The entries of the fetch cache are well-formed in every reachable       *)
(* state: a valid one holds a page of RAM or ROM that belongs there, fills *)
(* and failures in any order notwithstanding.                              *)
(***************************************************************************)
THEOREM TypeCorrect == Spec => []TypeOK
<1>1. IInv => TypeOK
  BY DEF IInv
<1> QED BY <1>1, Invariance, PTL

(***************************************************************************)
(* A fetch answers what the memory holds unless its page has been changed  *)
(* since it was read in.                                                   *)
(***************************************************************************)
LEMMA AnswerIsCurrent == IInv => FetchesAreCurrent
<1> SUFFICES ASSUME IInv, NEW pc \in Address, Aligned(pc)
             PROVE  IF pc \in Backed
                    THEN \/ PageOf(pc) \in stored /\ Hit(PageOf(pc))
                         \/ FetchAnswer(pc) = Answer(WordAt(memory, pc))
                    ELSE FetchAnswer(pc).error \in {"Inst_access_fault", "logic_error"}
  BY DEF FetchesAreCurrent
<1> DEFINE p == PageOf(pc)
           word(data) == [i \in Lane |-> data[(pc % PageBytes) + i]]
           page == ReadPage(memory, p)
<1>1. p \in Page
  BY WordInPage DEF Lane
<1>2. memory \in Contents
  BY DEF IInv, TypeOK
<1>3. ASSUME NEW data,
             \A k \in 0 .. PageBytes - 1 : data[k] = memory[(p * PageBytes) + k]
      PROVE  word(data) = WordAt(memory, pc)
  <2>1. ASSUME NEW i \in Lane
        PROVE  data[(pc % PageBytes) + i] = memory[pc + i]
    <3> DEFINE k == (pc % PageBytes) + i
    <3>1. k \in 0 .. PageBytes - 1 /\ pc + i = (p * PageBytes) + k
      BY WordInPage
    <3> HIDE DEF k, p
    <3>2. data[k] = memory[pc + i]
      BY <1>3, <3>1
    <3> QED BY <3>2 DEF k
  <2> HIDE DEF p
  <2> QED BY <2>1 DEF WordAt
<1>4. Hit(p) => p \in Ram \cup Rom
  BY <1>1, EntryType DEF IInv, TypeOK, Hit
<1>5. FetchAnswer(pc) =
        CASE ~ Aligned(pc) -> Failed("Inst_address_misaligned")
          [] Aligned(pc) /\ Hit(p) -> Answer(word(cache[Entry(p)].data))
          [] Aligned(pc) /\ ~ Hit(p) /\ Succeeds(page) -> Answer(word(page.data))
          [] Aligned(pc) /\ ~ Hit(p) /\ page.error = "Out_of_range" ->
                 Failed("Inst_access_fault")
          [] OTHER -> Failed("logic_error")
  BY Zenon DEF FetchAnswer
<1>6. pc \in Backed <=> p \in Ram \cup Rom
  BY DEF Backed
<1> HIDE DEF p, page, word
<1>7. CASE Hit(p)
  <2>1. FetchAnswer(pc) = Answer(word(cache[Entry(p)].data))
    BY <1>5, <1>7, Zenon
  <2>2. p \notin stored =>
            \A k \in 0 .. PageBytes - 1 :
                cache[Entry(p)].data[k] = memory[(p * PageBytes) + k]
    BY <1>1, <1>7, EntryType DEF IInv, Coherent, Hit
  <2>3. p \notin stored => word(cache[Entry(p)].data) = WordAt(memory, pc)
    BY <1>3, <2>2
  <2> QED BY <1>4, <1>6, <1>7, <2>1, <2>3 DEF p
<1>8. CASE ~ Hit(p) /\ p \in Ram \cup Rom
  <2>1. Succeeds(page) /\ word(page.data) = WordAt(memory, pc)
    BY <1>1, <1>2, <1>3, <1>8, ReadPageType DEF page
  <2>2. page.error # "Out_of_range"
    BY <2>1 DEF Succeeds
  <2>3. FetchAnswer(pc) = Answer(word(page.data))
    BY <1>5, <1>8, <2>1, <2>2, Zenon
  <2> QED BY <1>6, <1>8, <2>1, <2>3
<1>9. CASE ~ Hit(p) /\ p \notin Ram \cup Rom
  <2>1. ~ Succeeds(page)
    BY <1>1, <1>2, <1>9, ReadPageType DEF page
  <2>2. FetchAnswer(pc) \in {Failed("Inst_access_fault"), Failed("logic_error")}
    <3>1. CASE page.error = "Out_of_range"
      <4>1. FetchAnswer(pc) = Failed("Inst_access_fault")
        BY <1>5, <1>9, <2>1, <3>1, Zenon
      <4> QED BY <4>1
    <3>2. CASE page.error # "Out_of_range"
      <4>1. FetchAnswer(pc) = Failed("logic_error")
        BY <1>5, <1>9, <2>1, <3>2, Zenon
      <4> QED BY <4>1
    <3> QED BY <3>1, <3>2
  <2>3. Failed("Inst_access_fault").error = "Inst_access_fault"
        /\ Failed("logic_error").error = "logic_error"
    BY DEF Failed
  <2> QED BY <1>6, <1>9, <2>2, <2>3
<1> QED BY <1>7, <1>8, <1>9

THEOREM FetchCorrect == Spec => []FetchesAreCurrent
BY AnswerIsCurrent, Invariance, PTL

(***************************************************************************)
(* No write of the program or of the debugger, refused, cut short or       *)
(* carried out, changes a byte of the ROM.                                 *)
(***************************************************************************)
THEOREM RomCorrect == Spec => RomNeverChanges
<1>1. IInv /\ [Next]_vars =>
          [\A b \in Backed : PageOf(b) \in Rom => memory'[b] = memory[b]]_vars
  <2> SUFFICES ASSUME IInv, Next
               PROVE  \A b \in Backed : PageOf(b) \in Rom => memory'[b] = memory[b]
    OBVIOUS
  <2>1. CASE ProgramStores \/ DebuggerWrites
    <3>1. PICK after \in Kept(memory) : MemoryBecomes(after)
      BY <2>1, WritersKeepRom DEF IInv
    <3> QED BY <3>1 DEF MemoryBecomes, Kept, InRom, Backed
  <2>2. CASE Fetch \/ FenceI
    BY <2>2 DEF Fetch, FetchFill, FetchFail, FenceI
  <2> QED BY <2>1, <2>2 DEF Next
<1> QED BY <1>1, Invariance, PTL DEF Spec, RomNeverChanges

-----------------------------------------------------------------------------
(***************************************************************************)
(* The accesses against plain bytes.  They are facts about every memory,   *)
(* not only those that the behaviours reach: what a word holds, what an    *)
(* access that is refused does, and that no aligned access leaves its      *)
(* word.                                                                   *)
(***************************************************************************)
LEMMA WordType ==
    ASSUME NEW m \in Contents, NEW a \in Address, PageOf(a) \in Ram \cup Rom, Aligned(a)
    PROVE  /\ Read(m, a) = Answer(WordAt(m, a))
           /\ Succeeds(Read(m, a)) /\ WordAt(m, a) \in Word
           /\ Read(m, a).data = WordAt(m, a)
           /\ \A i \in Lane : a + i \in Backed /\ m[a + i] \in Byte
                              /\ Read(m, a).data[i] = m[a + i]
<1>1. PageOf(a) \notin Peripheral
  BY MemoryAssumption
<1> DEFINE word == Answer(WordAt(m, a))
           page == PageOf(a)
<1>2. Read(m, a) = word
  <2>1. Read(m, a) =
            CASE page \notin Ram \cup Rom \cup Peripheral -> Failed("Out_of_range")
              [] page \in Ram \cup Rom /\ Aligned(a) -> word
              [] page \in Peripheral /\ a \in DOMAIN register -> Answer(register[a])
              [] page \in Peripheral /\ Aligned(a) /\ a \notin DOMAIN register ->
                     Failed("Access_fault")
              [] OTHER -> Failed("Unaligned")
    BY DEF Read
  <2> HIDE DEF word, page
  <2> QED BY <1>1, <2>1 DEF page
<1>3. ASSUME NEW i \in Lane PROVE a + i \in Backed /\ m[a + i] \in Byte
  <2>1. PageOf(a + i) = PageOf(a)
    BY SamePage
  <2>2. a + i \in Address
    <3> DEFINE p == PageOf(a)
               k == (a % PageBytes) + i
    <3>1. p \in Page /\ k \in 0 .. PageBytes - 1 /\ a + i = p * PageBytes + k
      BY WordInPage
    <3> HIDE DEF p, k
    <3> QED BY <3>1, PageBytesOfPage
  <2>3. a + i \in Backed
    BY <2>1, <2>2 DEF Backed
  <2> QED BY <2>3 DEF Contents
<1>4. WordAt(m, a) \in Word
  BY <1>3 DEF WordAt, Word
<1> QED BY <1>2, <1>3, <1>4 DEF Answer, Succeeds, WordAt

LEMMA ReadFails ==
    ASSUME NEW m, NEW a \in Address
    PROVE  /\ PageOf(a) \notin Ram \cup Rom \cup Peripheral => ~ Succeeds(Read(m, a))
           /\ PageOf(a) \in Ram \cup Rom /\ ~ Aligned(a) => ~ Succeeds(Read(m, a))
<1> DEFINE word == Answer(WordAt(m, a))
           page == PageOf(a)
<1>1. Read(m, a) =
          CASE page \notin Ram \cup Rom \cup Peripheral -> Failed("Out_of_range")
            [] page \in Ram \cup Rom /\ Aligned(a) -> word
            [] page \in Peripheral /\ a \in DOMAIN register -> Answer(register[a])
            [] page \in Peripheral /\ Aligned(a) /\ a \notin DOMAIN register ->
                   Failed("Access_fault")
            [] OTHER -> Failed("Unaligned")
  BY DEF Read
<1>2. ~ Succeeds(Failed("Out_of_range")) /\ ~ Succeeds(Failed("Unaligned"))
  BY DEF Succeeds, Failed
<1>3. ASSUME page \notin Ram \cup Rom \cup Peripheral PROVE ~ Succeeds(Read(m, a))
  <2> HIDE DEF word, page
  <2>1. Read(m, a) = Failed("Out_of_range")
    BY <1>1, <1>3
  <2> QED BY <1>2, <2>1
<1>4. ASSUME page \in Ram \cup Rom, ~ Aligned(a) PROVE ~ Succeeds(Read(m, a))
  <2>1. page \notin Peripheral
    BY <1>4, MemoryAssumption
  <2> HIDE DEF word, page
  <2>2. Read(m, a) = Failed("Unaligned")
    BY <1>1, <1>4, <2>1
  <2> QED BY <1>2, <2>2
<1> QED BY <1>3, <1>4

(* An address and the word it lies in. *)
LEMMA WordOf ==
    ASSUME NEW a \in Address
    PROVE  /\ AlignedDown(a) \in Address /\ Aligned(AlignedDown(a))
           /\ a % 4 \in Lane /\ AlignedDown(a) + (a % 4) = a
           /\ PageOf(AlignedDown(a)) = PageOf(a)
<1>1. /\ AlignedDown(a) \in Address /\ Aligned(AlignedDown(a)) /\ a % 4 \in Lane
  BY AlignedDownType
<1>2. AlignedDown(a) + (a % 4) = a
  <2>1. a \in Int /\ a % 4 \in Int
    BY <1>1 DEF Address, Lane
  <2> QED BY <2>1 DEF AlignedDown
<1>3. PageOf(AlignedDown(a) + (a % 4)) = PageOf(AlignedDown(a))
  BY <1>1, SamePage
<1> QED BY <1>1, <1>2, <1>3

LEMMA AccessorIsExact ==
    ASSUME NEW m \in Contents, NEW a \in Backed
    PROVE  AccessorReads(m, a) = m[a]
<1>1. a \in Address /\ PageOf(a) \in Ram \cup Rom
  BY DEF Backed
<1> DEFINE d == AlignedDown(a)
           l == a % 4
<1>2. d \in Address /\ Aligned(d) /\ l \in Lane /\ d + l = a /\ PageOf(d) = PageOf(a)
  BY <1>1, WordOf
<1>3. AccessorReads(m, a) = Read(m, d).data[l]
  BY DEF AccessorReads
<1> HIDE DEF d, l
<1>4. Read(m, d).data[l] = m[d + l]
  BY <1>1, <1>2, WordType
<1> QED BY <1>2, <1>3, <1>4

LEMMA Widths ==
    ASSUME NEW funct \in LoadFunct \cup StoreFunct
    PROVE  get_size[funct] \in {1, 2, 4}
<1>1. /\ get_size["Load_byte"] = 1 /\ get_size["Load_halfword"] = 2
      /\ get_size["Load_word"] = 4 /\ get_size["Load_byte_unsigned"] = 1
      /\ get_size["Load_halfword_unsigned"] = 2 /\ get_size["Store_byte"] = 1
      /\ get_size["Store_halfword"] = 2 /\ get_size["Store_word"] = 4
  BY DEF get_size
<1> QED BY <1>1 DEF LoadFunct, StoreFunct

(* An access that is aligned to its size does not leave its word. *)
LEMMA WithinWord ==
    ASSUME NEW a \in Address, NEW n \in {1, 2, 4}, a % n = 0, NEW i \in 0 .. n - 1
    PROVE  (a % 4) + i \in Lane
<1>1. a \in Nat
  BY DEF Address
<1>2. CASE n = 1
  BY <1>1, <1>2 DEF Lane
<1>3. CASE n = 2
  BY <1>1, <1>3 DEF Lane
<1>4. CASE n = 4
  BY <1>1, <1>4 DEF Lane
<1> QED BY <1>2, <1>3, <1>4

(***************************************************************************)
(* A load, by whether it is aligned and by what answers at its address.    *)
(***************************************************************************)
LEMMA LoadExact ==
    ASSUME memory \in Contents, NEW funct \in LoadFunct, NEW a \in Address
    PROVE  LoadIsExact(funct, a)
<1> DEFINE n == get_size[funct]
           d == AlignedDown(a)
           l == a % 4
           answer == Read(memory, d)
           loaded == Answer(Extended(ShiftedRight(answer.data, l), funct))
           sign == IF funct \in SignedFunct /\ memory[a + n - 1] >= 128 THEN 255 ELSE 0
<1>1. n \in {1, 2, 4}
  BY Widths
<1>2. d \in Address /\ Aligned(d) /\ l \in Lane /\ d + l = a /\ PageOf(d) = PageOf(a)
  BY WordOf
<1>3. Load(memory, funct, a) =
          CASE ~ is_aligned(a, funct) -> Failed("Load_address_misaligned")
            [] is_aligned(a, funct) /\ ~ Succeeds(answer) -> Failed("Load_access_fault")
            [] OTHER -> loaded
  BY DEF Load
<1>4. is_aligned(a, funct) <=> a % n = 0
  BY DEF is_aligned
<1> HIDE DEF loaded, answer
<1>5. CASE a % n # 0
  <2>1. Load(memory, funct, a) = Failed("Load_address_misaligned")
    BY <1>3, <1>4, <1>5
  <2> QED BY <1>5, <2>1 DEF LoadIsExact, Failed
<1>6. CASE a % n = 0 /\ a \notin Backed
  <2>1. PageOf(d) \notin Ram \cup Rom
    BY <1>2, <1>6 DEF Backed
  <2>2. CASE PageOf(a) \in Peripheral
    BY <1>6, <2>2 DEF LoadIsExact
  <2>3. CASE PageOf(a) \notin Peripheral
    <3>1. ~ Succeeds(answer)
      BY <1>2, <2>1, <2>3, ReadFails DEF answer
    <3>2. Load(memory, funct, a) = Failed("Load_access_fault")
      BY <1>3, <1>4, <1>6, <3>1
    <3> QED BY <1>6, <3>2 DEF LoadIsExact, Failed
  <2> QED BY <2>2, <2>3
<1>7. CASE a % n = 0 /\ a \in Backed
  <2>1. PageOf(d) \in Ram \cup Rom
    BY <1>2, <1>7 DEF Backed
  <2>2. Succeeds(answer) /\ \A i \in Lane : answer.data[i] = memory[d + i]
    BY <1>2, <2>1, WordType DEF answer
  <2>3. Load(memory, funct, a) = loaded
    BY <1>3, <1>4, <1>7, <2>2
  <2> DEFINE w == ShiftedRight(answer.data, l)
  <2>4. ASSUME NEW i \in 0 .. n - 1 PROVE w[i] = memory[a + i]
    <3>1. l + i \in Lane /\ i \in Lane /\ i + l = l + i /\ d + (l + i) = a + i
      <4>1. l + i \in Lane
        BY <1>1, <1>7, WithinWord
      <4>2. i \in Lane
        BY <1>1 DEF Lane
      <4> HIDE DEF l, d, n
      <4> QED BY <1>1, <1>2, <4>1, <4>2 DEF Lane, Address
    <3> HIDE DEF l, d, n
    <3>2. w[i] = answer.data[i + l]
      BY <3>1 DEF ShiftedRight
    <3> QED BY <2>2, <3>1, <3>2
  <2> HIDE DEF w, l, d
  <2>5. n - 1 \in 0 .. n - 1 /\ a + (n - 1) = a + n - 1
    BY <1>1 DEF Address
  <2>6. w[n - 1] = memory[a + n - 1]
    BY <2>4, <2>5
  <2>7. ASSUME NEW i \in Lane
        PROVE  Extended(w, funct)[i] = IF i < n THEN memory[a + i] ELSE sign
    <3>1. Extended(w, funct)[i] =
              IF i < n THEN w[i]
              ELSE IF funct \in SignedFunct /\ w[n - 1] >= 128 THEN 255 ELSE 0
      BY DEF Extended
    <3>2. i < n => i \in 0 .. n - 1
      BY <1>1 DEF Lane
    <3> HIDE DEF n
    <3> QED BY <2>4, <2>6, <3>1, <3>2
  <2>8. Succeeds(loaded) /\ loaded.data = Extended(w, funct)
    BY DEF loaded, Answer, Succeeds, w
  <2> QED BY <1>7, <2>3, <2>7, <2>8 DEF LoadIsExact
<1> QED BY <1>5, <1>6, <1>7

(* Where nothing but the mask reaches the bytes, by the pages. *)
LEMMA WriteErrors ==
    ASSUME NEW a \in Address, NEW mask \in SUBSET Lane, mask # {}
    PROVE  /\ WriteError(a, mask) \in Errors
           /\ PageOf(a) \in Rom => WriteError(a, mask) = "Access_fault"
           /\ PageOf(a) \in Ram =>
                  WriteError(a, mask) = IF Aligned(a) THEN "none" ELSE "Unaligned"
           /\ WriteError(a, mask) = "none" =>
                  Aligned(a) /\ PageOf(a) \in Ram \cup Peripheral
           /\ Aligned(a) => WriteError(a, mask) # "Unaligned"
<1> DEFINE page == PageOf(a)
           e == WriteError(a, mask)
           other == CASE ~ Aligned(a) -> "Unaligned"
                      [] a \in writable -> "none"
                      [] OTHER -> "Access_fault"
<1>1. e = CASE page \notin Ram \cup Rom \cup Peripheral -> "Out_of_range"
            [] page \in Rom -> "Access_fault"
            [] page \in Ram -> IF Aligned(a) THEN "none" ELSE "Unaligned"
            [] OTHER -> other
  BY DEF WriteError
<1>2. /\ other \in {"Unaligned", "none", "Access_fault"}
      /\ ~ Aligned(a) => other = "Unaligned"
      /\ Aligned(a) => other # "Unaligned"
  <2>1. a \in writable => Aligned(a)
    BY MemoryAssumption
  <2>2. CASE ~ Aligned(a)
    <3>1. a \notin writable
      BY <2>1, <2>2
    <3> QED BY <2>2, <3>1
  <2>3. CASE Aligned(a) /\ a \in writable
    BY <2>3
  <2>4. CASE Aligned(a) /\ a \notin writable
    BY <2>4
  <2> QED BY <2>2, <2>3, <2>4
<1>3. /\ page \in Rom => page \notin Ram /\ page \notin Peripheral
      /\ page \in Ram => page \notin Rom /\ page \notin Peripheral
  BY MemoryAssumption
<1> HIDE DEF page, other, e
<1>4. CASE page \notin Ram \cup Rom \cup Peripheral
  <2>1. e = "Out_of_range"
    BY <1>1, <1>4
  <2> QED BY <1>4, <2>1 DEF Errors, e, page
<1>5. CASE page \in Rom
  <2>1. e = "Access_fault"
    BY <1>1, <1>3, <1>5
  <2> QED BY <1>3, <1>5, <2>1 DEF Errors, e, page
<1>6. CASE page \in Ram
  <2>1. e = IF Aligned(a) THEN "none" ELSE "Unaligned"
    BY <1>1, <1>3, <1>6
  <2> QED BY <1>3, <1>6, <2>1 DEF Errors, e, page
<1>7. CASE page \in Peripheral
  <2>1. e = other
    BY <1>1, <1>3, <1>7
  <2> QED BY <1>2, <1>3, <1>7, <2>1 DEF Errors, e, page
<1> QED BY <1>4, <1>5, <1>6, <1>7

LEMMA ShiftedLeftType ==
    ASSUME NEW value \in Word, NEW l \in Lane
    PROVE  ShiftedLeft(value, l) \in Word
<1>1. ASSUME NEW i \in Lane
      PROVE  (IF i >= l THEN value[i - l] ELSE 0) \in Byte
  <2>1. i >= l => i - l \in Lane
    BY DEF Lane
  <2>2. 0 \in Byte
    BY MemoryAssumption
  <2> QED BY <2>1, <2>2 DEF Word
<1> QED BY <1>1 DEF ShiftedLeft, Word

(***************************************************************************)
(* A store: the shifted word and the mask of its lanes reach the bytes     *)
(* from its address on.                                                    *)
(***************************************************************************)
LEMMA StoreExact ==
    ASSUME memory \in Contents, NEW funct \in StoreFunct, NEW a \in Address,
           NEW value \in Word
    PROVE  StoreIsExact(funct, a, value)
<1> DEFINE n == get_size[funct]
           d == AlignedDown(a)
           l == a % 4
           data == ShiftedLeft(value, l)
           mask == StoreMask(funct, a)
           w == Write(memory, d, data, mask)
           after == Store(memory, funct, a, value)
<1>1. n \in {1, 2, 4}
  BY Widths
<1>2. d \in Address /\ Aligned(d) /\ l \in Lane /\ d + l = a /\ PageOf(d) = PageOf(a)
  BY WordOf
<1>3. after =
          CASE ~ is_aligned(a, funct) ->
                   [error |-> "Store_address_misaligned", memory |-> memory]
            [] is_aligned(a, funct) /\ w.error \in {"Out_of_range", "Access_fault"} ->
                   [error |-> "Store_access_fault", memory |-> memory]
            [] OTHER -> w
  BY DEF Store
<1>4. is_aligned(a, funct) <=> a % n = 0
  BY DEF is_aligned
<1>5. /\ w.error = WriteError(d, mask)
      /\ w.memory = IF WriteError(d, mask) = "none"
                    THEN Overlaid(memory, d, data, mask) ELSE memory
  BY DEF Write
<1>6. PageOf(a) \in Rom => PageOf(a) \notin Ram
  BY MemoryAssumption
<1> HIDE DEF w, after, data
<1>7. CASE a % n # 0
  <2>1. after = [error |-> "Store_address_misaligned", memory |-> memory]
    BY <1>3, <1>4, <1>7
  <2>2. ~ Succeeds(after) /\ after.memory = memory
    BY <2>1 DEF Succeeds
  <2> QED BY <1>6, <1>7, <2>2 DEF StoreIsExact, after
<1>8. CASE a % n = 0
  <2>1. mask \in SUBSET Lane /\ mask # {}
    <3>1. ASSUME NEW k \in mask PROVE k \in Lane
      <4> DEFINE i == k - l
      <4>1. i \in 0 .. n - 1 /\ l + i = k
        BY <1>1, <1>2 DEF StoreMask, Lane
      <4>2. l + i \in Lane
        <5> HIDE DEF i, n
        <5> QED BY <1>1, <1>8, <4>1, WithinWord
      <4> QED BY <4>1, <4>2
    <3>2. l \in mask
      BY <1>1, <1>2 DEF StoreMask, Lane
    <3> QED BY <3>1, <3>2
  <2>2. /\ w.error \in Errors /\ w.error # "Unaligned"
        /\ PageOf(a) \in Rom => w.error = "Access_fault"
        /\ PageOf(a) \in Ram => w.error = "none"
    BY <1>2, <1>5, <2>1, WriteErrors
  <2>3. CASE w.error = "none"
    <3>1. after = w
      BY <1>3, <1>4, <1>8, <2>3
    <3>2. Succeeds(after) /\ after.memory = Overlaid(memory, d, data, mask)
      BY <1>5, <2>3, <3>1 DEF Succeeds
    <3>3. ASSUME NEW b \in Backed
          PROVE  after.memory[b] = IF b \in a .. a + n - 1 THEN value[b - a] ELSE memory[b]
      <4>1. after.memory[b] = IF b - d \in mask THEN data[b - d] ELSE memory[b]
        BY <3>2 DEF Overlaid
      <4>2. b \in Int /\ a \in Int /\ d \in Int /\ l \in Int
        BY <1>2 DEF Backed, Address, Lane
      <4>3. b - d \in mask <=> b \in a .. a + n - 1
        <5>1. mask = l .. l + n - 1
          BY DEF StoreMask
        <5> HIDE DEF mask, l, d, n
        <5> QED BY <1>1, <1>2, <4>2, <5>1
      <4>4. b - d \in mask => data[b - d] = value[b - a]
        <5> SUFFICES ASSUME b - d \in mask PROVE data[b - d] = value[b - a]
          OBVIOUS
        <5>1. b - d \in Lane
          BY <2>1
        <5>2. b - d >= l /\ (b - d) - l = b - a
          <6> HIDE DEF mask, l, d, n
          <6> QED BY <1>1, <1>2, <4>2, <4>3
        <5> HIDE DEF mask, l, d, n
        <5> QED BY <5>1, <5>2 DEF data, ShiftedLeft
      <4> HIDE DEF mask, l, d, n
      <4> QED BY <4>1, <4>3, <4>4
    <3>4. PageOf(a) \notin Rom
      BY <2>2, <2>3
    <3> QED BY <1>8, <3>2, <3>3, <3>4 DEF StoreIsExact, after
  <2>4. CASE w.error # "none"
    <3>1. w.error \in {"Out_of_range", "Access_fault"}
      BY <2>2, <2>4 DEF Errors
    <3>2. after = [error |-> "Store_access_fault", memory |-> memory]
      BY <1>3, <1>4, <1>8, <3>1
    <3>3. ~ Succeeds(after) /\ after.memory = memory
      BY <3>2 DEF Succeeds
    <3>4. PageOf(a) \notin Ram
      BY <2>2, <2>4
    <3> QED BY <3>3, <3>4 DEF StoreIsExact, after
  <2> QED BY <2>3, <2>4
<1> QED BY <1>7, <1>8

-----------------------------------------------------------------------------
(* Near a word boundary the debugger's addresses do not wrap around. *)
LEMMA SpaceOfWords == AddressSpace % 4 = 0
<1> DEFINE p == PageBytes \div 4
           q == AddressSpace \div PageBytes
<1>1. PageBytes = 4 * p /\ p \in Nat
  <2>1. PageBytes = 4 * p + (PageBytes % 4) /\ p \in Nat
    BY Sizes, Division
  <2> HIDE DEF p
  <2> QED BY <2>1, Sizes
<1>2. AddressSpace = PageBytes * q /\ q \in Nat
  <2>1. AddressSpace = PageBytes * q + (AddressSpace % PageBytes) /\ q \in Nat
    BY Sizes, Division
  <2> HIDE DEF q
  <2> QED BY <2>1, Sizes
<1> HIDE DEF p, q
<1>3. PICK x : x = p * q
  OBVIOUS
<1>4. AddressSpace = 4 * x /\ x \in Nat
  BY <1>1, <1>2, <1>3
<1> QED BY <1>4

LEMMA AtInWord ==
    ASSUME NEW a \in Address, Aligned(a), NEW i \in Lane
    PROVE  At(a, i) = a + i /\ (a + i) % 4 = i /\ a + i \in Address
<1>1. a \in Nat /\ i \in Nat /\ i < 4 /\ a % 4 = 0 /\ a < AddressSpace
  BY Sizes DEF Address, Lane, Aligned
<1>2. a + i < AddressSpace
  BY <1>1, SpaceOfWords, Sizes
<1>3. (a + i) % 4 = i
  BY <1>1
<1>4. (a + i) % AddressSpace = a + i
  BY <1>1, <1>2, Sizes
<1> QED BY <1>1, <1>2, <1>3, <1>4, Sizes DEF At, Address

(* The loop of handle_mem_read stops at the first piece it cannot read. *)
LEMMA InitialSegment ==
    ASSUME NEW S, NEW n \in Nat
    PROVE  \E k \in 0 .. n :
               /\ \A i \in 0 .. k - 1 : i \in S
               /\ k < n => k \notin S
<1> DEFINE Stops(m) == \E k \in 0 .. m :
                           /\ \A i \in 0 .. k - 1 : i \in S
                           /\ k < m => k \notin S
           T == {m \in Nat : Stops(m)}
<1>1. 0 \in T
  OBVIOUS
<1>2. ASSUME NEW m \in Nat, m \in T PROVE m + 1 \in T
  <2>1. PICK k \in 0 .. m : /\ \A i \in 0 .. k - 1 : i \in S
                            /\ k < m => k \notin S
    BY <1>2
  <2>2. CASE k \notin S
    <3>1. k \in 0 .. m + 1
      OBVIOUS
    <3>2. Stops(m + 1)
      BY <2>1, <2>2, <3>1
    <3> QED BY <3>2
  <2>3. CASE k \in S
    <3>1. k = m
      BY <2>1, <2>3
    <3>2. \A i \in 0 .. (m + 1) - 1 : i \in S
      BY <2>1, <2>3, <3>1
    <3>3. Stops(m + 1)
      BY <3>2
    <3> QED BY <3>3
  <2> QED BY <2>2, <2>3
<1>3. n \in T
  <2> HIDE DEF T
  <2> QED BY <1>1, <1>2, SetInduction
<1> QED BY <1>3

LEMMA BytesReadMeaning ==
    ASSUME NEW m, NEW a, NEW length \in Nat
    PROVE  /\ BytesRead(m, a, length) \in 0 .. length
           /\ \A i \in 0 .. BytesRead(m, a, length) - 1 : Succeeds(Read(m, Front(a, i)))
           /\ BytesRead(m, a, length) < length =>
                  ~ Succeeds(Read(m, Front(a, BytesRead(m, a, length))))
<1> DEFINE S == {i \in Nat : Succeeds(Read(m, Front(a, i)))}
<1>1. PICK k \in 0 .. length : /\ \A i \in 0 .. k - 1 : i \in S
                               /\ k < length => k \notin S
  <2> HIDE DEF S
  <2> QED BY InitialSegment
<1>2. /\ \A i \in 0 .. k - 1 : Succeeds(Read(m, Front(a, i)))
      /\ k < length => ~ Succeeds(Read(m, Front(a, k)))
  BY <1>1
<1> HIDE DEF S
<1> QED BY <1>2, Zenon DEF BytesRead

LEMMA FrontOfAligned ==
    ASSUME NEW a \in Address, Aligned(a), NEW i \in Nat
    PROVE  Front(a, i) = AlignedDown(At(a, i))
<1>1. CASE i < 4
  <2>1. i \in Lane /\ a \in Int
    BY <1>1 DEF Lane, Address
  <2>2. At(a, i) = a + i /\ (a + i) % 4 = i
    BY <2>1, AtInWord
  <2>3. AlignedDown(At(a, i)) = a
    BY <2>1, <2>2 DEF AlignedDown, Lane
  <2>4. Front(a, i) = a
    BY <1>1, <2>3 DEF Front, Aligned
  <2> QED BY <2>3, <2>4
<1>2. CASE ~ (i < 4)
  BY <1>2 DEF Front, Aligned
<1> QED BY <1>1, <1>2

(***************************************************************************)
(* The m command, for any length: only its first piece can begin           *)
(* unaligned, and then it reads nothing; every other piece is an aligned   *)
(* word.                                                                   *)
(***************************************************************************)
LEMMA ReadsAreExact ==
    ASSUME NEW m \in Contents, NEW a \in Backed, NEW length \in Nat
    PROVE  LET data == handle_mem_read(m, a, length)
           IN  /\ \A i \in 1 .. Len(data) :
                      At(a, i - 1) \in Backed => data[i] = m[At(a, i - 1)]
               /\ Aligned(a) /\ (\A i \in 0 .. length - 1 : At(a, i) \in Backed) =>
                      Len(data) = length
               /\ ~ Aligned(a) => data = << >>
<1> DEFINE n == BytesRead(m, a, length)
           data == handle_mem_read(m, a, length)
<1>1. a \in Address /\ PageOf(a) \in Ram \cup Rom
  BY DEF Backed
<1>2. /\ n \in 0 .. length
      /\ \A i \in 0 .. n - 1 : Succeeds(Read(m, Front(a, i)))
      /\ n < length => ~ Succeeds(Read(m, Front(a, n)))
  BY BytesReadMeaning
<1>3. data = [i \in 1 .. n |-> Read(m, Front(a, i - 1)).data[At(a, i - 1) % 4]]
  BY DEF handle_mem_read
<1> HIDE DEF n, data
<1>4. Len(data) = n
  BY <1>2, <1>3
<1>5. CASE ~ Aligned(a)
  <2>1. Front(a, 0) = a
    <3>1. a % 4 \in Lane
      BY <1>1, WordOf
    <3> QED BY <3>1 DEF Front, Lane
  <2>2. ~ Succeeds(Read(m, a))
    BY <1>1, <1>5, ReadFails
  <2>3. n = 0
    <3>1. n # 0 => 0 \in 0 .. n - 1
      BY <1>2
    <3> QED BY <1>2, <2>1, <2>2, <3>1
  <2>4. data = << >>
    BY <1>3, <2>3
  <2> QED BY <1>4, <1>5, <2>3, <2>4 DEF data
<1>6. CASE Aligned(a)
  <2>1. ASSUME NEW j \in Nat, At(a, j) \in Backed
        PROVE  /\ Succeeds(Read(m, Front(a, j)))
               /\ Read(m, Front(a, j)).data[At(a, j) % 4] = m[At(a, j)]
    <3> DEFINE b == At(a, j)
               d == AlignedDown(b)
               l == b % 4
    <3>1. b \in Address /\ PageOf(b) \in Ram \cup Rom
      BY <2>1 DEF Backed
    <3>2. d \in Address /\ Aligned(d) /\ l \in Lane /\ d + l = b /\ PageOf(d) = PageOf(b)
      <4> HIDE DEF b
      <4> QED BY <3>1, WordOf
    <3>3. Front(a, j) = d
      BY <1>1, <1>6, FrontOfAligned
    <3> HIDE DEF b, d, l
    <3>4. Succeeds(Read(m, d)) /\ Read(m, d).data[l] = m[d + l]
      BY <3>1, <3>2, WordType
    <3> QED BY <3>2, <3>3, <3>4 DEF b, l
  <2>2. ASSUME NEW i \in 1 .. Len(data), At(a, i - 1) \in Backed
        PROVE  data[i] = m[At(a, i - 1)]
    <3>1. i \in 1 .. n /\ i - 1 \in Nat
      BY <1>2, <1>4
    <3> QED BY <1>3, <2>1, <2>2, <3>1
  <2>3. ASSUME \A i \in 0 .. length - 1 : At(a, i) \in Backed
        PROVE  Len(data) = length
    <3>1. n < length => n \in 0 .. length - 1 /\ n \in Nat
      BY <1>2
    <3>2. ~ (n < length)
      BY <1>2, <2>1, <2>3, <3>1
    <3> QED BY <1>2, <1>4, <3>2
  <2> QED BY <1>6, <2>2, <2>3 DEF data
<1> QED BY <1>5, <1>6

(* The first lane is the one of the address itself. *)
LEMMA ModuloZero ==
    ASSUME NEW n \in Nat \ {0}, NEW d \in Int, -n < d, d < n
    PROVE  d % n \in 0 .. n - 1 /\ (d % n = 0 <=> d = 0)
<1>1. d % n \in 0 .. n - 1 /\ d = n * (d \div n) + (d % n) /\ d \div n \in Int
  OBVIOUS
<1>2. d = 0 => d % n = 0
  OBVIOUS
<1>3. ASSUME d % n = 0 PROVE d = 0
  <2> DEFINE q == d \div n
  <2>1. q \in Int /\ d = n * q
    BY <1>1, <1>3
  <2> HIDE DEF q
  <2>2. q >= 1 => n * q >= n
    BY <2>1
  <2>3. q <= -1 => n * q <= -n
    BY <2>1
  <2>4. q = 0
    BY <2>1, <2>2, <2>3
  <2> QED BY <2>1, <2>4
<1> QED BY <1>1, <1>2, <1>3

(* Once refused, nothing more happens. *)
LEMMA Stuck ==
    ASSUME NEW f, NEW n \in Nat, NEW k \in 0 .. n, ~ Succeeds(f[k]),
           \A i \in 1 .. n : ~ Succeeds(f[i - 1]) => f[i] = f[i - 1]
    PROVE  f[n] = f[k]
<1> DEFINE S == {j \in Nat : k + j <= n => f[k + j] = f[k]}
<1>1. 0 \in S
  OBVIOUS
<1>2. ASSUME NEW j \in Nat, j \in S PROVE j + 1 \in S
  <2> SUFFICES ASSUME k + (j + 1) <= n PROVE f[k + (j + 1)] = f[k]
    OBVIOUS
  <2>1. f[k + j] = f[k]
    BY <1>2
  <2>2. k + (j + 1) \in 1 .. n /\ (k + (j + 1)) - 1 = k + j
    OBVIOUS
  <2> QED BY <2>1, <2>2
<1>3. n - k \in S
  <2>1. n - k \in Nat
    OBVIOUS
  <2> HIDE DEF S
  <2> QED BY <1>1, <1>2, <2>1, SetInduction
<1>4. k + (n - k) = n
  OBVIOUS
<1> QED BY <1>3, <1>4

(* One byte, by its address. *)
LEMMA ByteWritten ==
    ASSUME NEW m \in Contents, NEW a \in Address, NEW byte \in Byte
    PROVE  /\ ~ Succeeds(WriteByte(m, a, byte)) => WriteByte(m, a, byte).memory = m
           /\ ~ Aligned(a) => ~ Succeeds(WriteByte(m, a, byte))
           /\ Aligned(a) /\ PageOf(a) \in Ram => Succeeds(WriteByte(m, a, byte))
           /\ Succeeds(WriteByte(m, a, byte)) =>
                  /\ PageOf(a) \in Ram \cup Peripheral
                  /\ WriteByte(m, a, byte).memory =
                         [b \in Backed |-> IF b = a THEN byte ELSE m[b]]
<1> DEFINE l == a % 4
           d == [i \in Lane |-> IF i = l THEN byte ELSE 0]
           e == WriteError(a, {l})
           w == WriteByte(m, a, byte)
<1>1. l \in Lane /\ a \in Nat
  BY WordOf DEF Address
<1>2. w = [error  |-> e, memory |-> IF e = "none" THEN Overlaid(m, a, d, {l}) ELSE m]
  BY DEF WriteByte, Write
<1>3. /\ PageOf(a) \in Ram => e = IF Aligned(a) THEN "none" ELSE "Unaligned"
      /\ e = "none" => Aligned(a) /\ PageOf(a) \in Ram \cup Peripheral
  BY <1>1, WriteErrors
<1> HIDE DEF e, w, d
<1>4. Succeeds(w) <=> e = "none"
  BY <1>2 DEF Succeeds
<1>5. w.memory = IF e = "none" THEN Overlaid(m, a, d, {l}) ELSE m
  BY <1>2
<1>6. ASSUME e = "none"
      PROVE  Overlaid(m, a, d, {l}) = [b \in Backed |-> IF b = a THEN byte ELSE m[b]]
  <2>1. l = 0
    BY <1>3, <1>6 DEF Aligned
  <2>2. d[0] = byte
    BY <2>1 DEF d, Lane
  <2>3. ASSUME NEW b \in Backed
        PROVE  (IF b - a \in {l} THEN d[b - a] ELSE m[b]) = IF b = a THEN byte ELSE m[b]
    <3>1. b \in Int
      BY DEF Backed, Address
    <3>2. b - a = 0 <=> b = a
      BY <1>1, <3>1
    <3> HIDE DEF l
    <3> QED BY <2>1, <2>2, <3>2
  <2> HIDE DEF l
  <2> QED BY <2>3 DEF Overlaid
<1>7. ~ Aligned(a) => e # "none"
  BY <1>3
<1>8. Aligned(a) /\ PageOf(a) \in Ram => e = "none"
  BY <1>3
<1> QED BY <1>3, <1>4, <1>5, <1>6, <1>7, <1>8 DEF w

(* The first n bytes of the data over m, from a on. *)
Written(m, a, data, n) ==
    [b \in Backed |->
        IF ((b - a) % AddressSpace) + 1 <= n
        THEN data[((b - a) % AddressSpace) + 1] ELSE m[b]]

LEMMA WrittenMeaning ==
    ASSUME NEW m \in Contents, NEW a \in Address, NEW data
    PROVE  /\ Written(m, a, data, 0) = m
           /\ Written(m, a, data, 1) = [b \in Backed |-> IF b = a THEN data[1] ELSE m[b]]
<1>1. ASSUME NEW b \in Backed
      PROVE  /\ (b - a) % AddressSpace \in Nat
             /\ (b - a) % AddressSpace = 0 <=> b = a
  <2>1. b \in Nat /\ a \in Nat /\ b < AddressSpace /\ a < AddressSpace
    BY Sizes DEF Backed, Address
  <2>2. b - a \in Int /\ -AddressSpace < b - a /\ b - a < AddressSpace
    BY <2>1, Sizes
  <2>3. /\ (b - a) % AddressSpace \in 0 .. AddressSpace - 1
        /\ (b - a) % AddressSpace = 0 <=> b - a = 0
    BY <2>2, ModuloZero, Sizes
  <2> QED BY <2>1, <2>3, Sizes
<1>2. Written(m, a, data, 0) = m
  <2>1. ASSUME NEW b \in Backed PROVE Written(m, a, data, 0)[b] = m[b]
    <3> DEFINE r == (b - a) % AddressSpace
    <3>1. r \in Nat
      BY <1>1
    <3>2. Written(m, a, data, 0)[b] = IF r + 1 <= 0 THEN data[r + 1] ELSE m[b]
      BY DEF Written
    <3> HIDE DEF r
    <3> QED BY <3>1, <3>2
  <2>2. DOMAIN m = Backed /\ m = [b \in DOMAIN m |-> m[b]]
    BY DEF Contents
  <2>3. Written(m, a, data, 0) = [b \in Backed |-> Written(m, a, data, 0)[b]]
    BY DEF Written
  <2> QED BY <2>1, <2>2, <2>3
<1>3. Written(m, a, data, 1) = [b \in Backed |-> IF b = a THEN data[1] ELSE m[b]]
  <2>1. ASSUME NEW b \in Backed
        PROVE  (IF ((b - a) % AddressSpace) + 1 <= 1
                THEN data[((b - a) % AddressSpace) + 1] ELSE m[b])
               = IF b = a THEN data[1] ELSE m[b]
    <3> DEFINE r == (b - a) % AddressSpace
    <3>1. r \in Nat /\ (r = 0 <=> b = a)
      BY <1>1
    <3> HIDE DEF r
    <3>2. (IF r + 1 <= 1 THEN data[r + 1] ELSE m[b]) = IF b = a THEN data[1] ELSE m[b]
      <4>1. CASE r = 0
        BY <3>1, <4>1
      <4>2. CASE r # 0
        BY <3>1, <4>2
      <4> QED BY <4>1, <4>2
    <3> QED BY <3>2 DEF r
  <2> QED BY <2>1 DEF Written
<1> QED BY <1>2, <1>3

(***************************************************************************)
(* The M command, for any data: the second byte lies at an address that is *)
(* not aligned, whatever the first one was, and is refused.                *)
(***************************************************************************)
LEMMA WritesAreExact ==
    ASSUME NEW m \in Contents, NEW a \in Address, NEW data \in Seq(Byte)
    PROVE  LET after == handle_mem_write(m, a, data)
           IN  /\ \E n \in 0 .. Len(data) :
                      /\ after.memory = Written(m, a, data, n)
                      /\ Succeeds(after) => n = Len(data) \/ PageOf(a) \in Peripheral
               /\ Succeeds(after) => Len(data) <= 1
               /\ Len(data) = 1 /\ Aligned(a) /\ PageOf(a) \in Ram => Succeeds(after)
<1> DEFINE n == Len(data)
           after == handle_mem_write(m, a, data)
<1>1. PICK f :
          /\ after = f[n]
          /\ f[0] = [error |-> "none", memory |-> m]
          /\ \A i \in 1 .. n :
                 f[i] = IF Succeeds(f[i - 1])
                        THEN WriteByte(f[i - 1].memory, At(a, i - 1), data[i])
                        ELSE f[i - 1]
          /\ \A i \in 0 .. n : f[i] \in [error : Errors, memory : Kept(m)]
  BY WriteUnfolds
<1>2. n \in Nat /\ \A i \in 1 .. n : data[i] \in Byte
  OBVIOUS
<1>3. Written(m, a, data, 0) = m
      /\ Written(m, a, data, 1) = [b \in Backed |-> IF b = a THEN data[1] ELSE m[b]]
  BY WrittenMeaning
<1>4. \A i \in 0 .. n : f[i].memory \in Contents
  BY <1>1 DEF Kept
<1>5. \A i \in 1 .. n : ~ Succeeds(f[i - 1]) => f[i] = f[i - 1]
  BY <1>1
<1>6. Succeeds(f[0]) /\ f[0].memory = m
  BY <1>1 DEF Succeeds
<1>7. At(a, 0) = a
  BY Sizes DEF At, Address
<1> HIDE DEF n, after
<1>8. CASE n = 0
  <2>1. after.memory = Written(m, a, data, 0) /\ 0 \in 0 .. n
    BY <1>1, <1>3, <1>6, <1>8
  <2> QED BY <1>8, <2>1 DEF n, after
<1>9. CASE n # 0
  <2>1. 1 \in 1 .. n /\ 1 \in 0 .. n /\ 0 \in 0 .. n /\ 1 - 1 = 0 /\ data[1] \in Byte
    BY <1>2, <1>9
  <2>2. f[1] = WriteByte(m, a, data[1])
    BY <1>1, <1>6, <1>7, <2>1
  <2>3. /\ ~ Succeeds(f[1]) => f[1].memory = m
        /\ ~ Aligned(a) => ~ Succeeds(f[1])
        /\ Aligned(a) /\ PageOf(a) \in Ram => Succeeds(f[1])
        /\ Succeeds(f[1]) => /\ PageOf(a) \in Ram \cup Peripheral
                             /\ f[1].memory = Written(m, a, data, 1)
    BY <1>3, <2>1, <2>2, ByteWritten
  <2>4. CASE ~ Succeeds(f[1])
    <3>1. after = f[1]
      BY <1>1, <1>2, <1>5, <2>1, <2>4, Stuck
    <3>2. after.memory = Written(m, a, data, 0) /\ ~ Succeeds(after)
      BY <1>3, <2>3, <2>4, <3>1
    <3> QED BY <2>1, <2>3, <2>4, <3>1, <3>2 DEF n, after
  <2>5. CASE Succeeds(f[1]) /\ n = 1
    <3>1. after = f[1]
      BY <1>1, <2>5
    <3>2. after.memory = Written(m, a, data, 1)
      BY <2>3, <2>5, <3>1
    <3> QED BY <2>1, <2>5, <3>1, <3>2 DEF n, after
  <2>6. CASE Succeeds(f[1]) /\ n # 1
    <3>1. 2 \in 1 .. n /\ 2 \in 0 .. n /\ 2 - 1 = 1 /\ data[2] \in Byte
      BY <1>2, <1>9, <2>6
    <3>2. Aligned(a)
      BY <2>3, <2>6
    <3>3. At(a, 1) \in Address /\ ~ Aligned(At(a, 1))
      <4>1. 1 \in Lane
        BY DEF Lane
      <4>2. At(a, 1) = a + 1 /\ (a + 1) % 4 = 1 /\ a + 1 \in Address
        BY <3>2, <4>1, AtInWord
      <4> QED BY <4>2 DEF Aligned
    <3>4. f[2] = WriteByte(f[1].memory, At(a, 1), data[2])
      BY <1>1, <2>6, <3>1
    <3>5. f[1].memory \in Contents
      BY <1>4, <2>1
    <3>6. ~ Succeeds(f[2]) /\ f[2].memory = f[1].memory
      <4> DEFINE v == f[1].memory
                 b == At(a, 1)
                 x == data[2]
      <4>1. v \in Contents /\ b \in Address /\ ~ Aligned(b) /\ x \in Byte
        BY <3>1, <3>3, <3>5
      <4>2. f[2] = WriteByte(v, b, x)
        BY <3>4
      <4> HIDE DEF v, b, x
      <4>3. ~ Succeeds(WriteByte(v, b, x)) /\ WriteByte(v, b, x).memory = v
        BY <4>1, ByteWritten
      <4> QED BY <4>2, <4>3 DEF v
    <3>7. after = f[2]
      BY <1>1, <1>2, <1>5, <3>1, <3>6, Stuck
    <3>8. after.memory = Written(m, a, data, 1) /\ ~ Succeeds(after)
      BY <2>3, <2>6, <3>6, <3>7
    <3> QED BY <2>1, <2>6, <3>8 DEF n, after
  <2> QED BY <2>4, <2>5, <2>6
<1> QED BY <1>8, <1>9

-----------------------------------------------------------------------------
(***************************************************************************)
(* Seen through the load/store unit, with its aligned addresses, shifts,   *)
(* masks and casts (lib/core/memory.cpp:29-108), the memory is an array of *)
(* bytes, and an access that is refused changes nothing: for every address *)
(* map, every contents, every funct, address and value.                    *)
(***************************************************************************)
THEOREM ProgramCorrect == Spec => []ProgramAccessesAreExact
<1>1. TypeOK => ProgramAccessesAreExact
  <2> SUFFICES ASSUME TypeOK, NEW a \in Address
               PROVE  /\ \A funct \in LoadFunct : LoadIsExact(funct, a)
                      /\ \A funct \in StoreFunct, value \in Value :
                             StoreIsExact(funct, a, value)
    BY DEF ProgramAccessesAreExact, AccessesAreExact
  <2>1. memory \in Contents /\ Value \subseteq Word
    BY CacheAssumption DEF TypeOK
  <2> QED BY <2>1, LoadExact, StoreExact
<1> QED BY <1>1, TypeCorrect, PTL

(***************************************************************************)
(* The m and M commands and the conditions of breakpoints (emulator-       *)
(* debug.cpp:108-144, accessor.cpp) read what the memory holds, all of it  *)
(* from a word boundary within RAM and ROM and none from another address;  *)
(* a write changes an initial segment of its range and answers OK only     *)
(* when that is all of it, which is never so for more than one byte.       *)
(***************************************************************************)
THEOREM DebuggerCorrect == Spec => []DebuggerAccessesArePrefixes
<1>1. TypeOK => DebuggerReadsMemory(0 .. 6)
  <2> SUFFICES ASSUME TypeOK, NEW a \in Backed, NEW length \in 0 .. 6
               PROVE  /\ AccessorReads(memory, a) = memory[a]
                      /\ LET data == handle_mem_read(memory, a, length)
                         IN  /\ \A i \in 1 .. Len(data) :
                                    At(a, i - 1) \in Backed => data[i] = memory[At(a, i - 1)]
                             /\ Aligned(a) /\ (\A i \in 0 .. length - 1 : At(a, i) \in Backed)
                                    => Len(data) = length
                             /\ ~ Aligned(a) => data = << >>
    BY DEF DebuggerReadsMemory
  <2>1. memory \in Contents /\ length \in Nat
    BY DEF TypeOK
  <2> QED BY <2>1, AccessorIsExact, ReadsAreExact
<1>2. TypeOK => DebuggerWritesAPrefix(Data)
  <2> SUFFICES ASSUME TypeOK, NEW a \in Address, NEW data \in Data
               PROVE  LET after == handle_mem_write(memory, a, data)
                          position(b) == ((b - a) % AddressSpace) + 1
                      IN  /\ \E n \in 0 .. Len(data) :
                                 /\ after.memory = [b \in Backed |->
                                        IF position(b) <= n THEN data[position(b)]
                                                            ELSE memory[b]]
                                 /\ Succeeds(after) =>
                                        n = Len(data) \/ PageOf(a) \in Peripheral
                          /\ Succeeds(after) => Len(data) <= 1
                          /\ Len(data) = 1 /\ Aligned(a) /\ PageOf(a) \in Ram =>
                                 Succeeds(after)
    BY DEF DebuggerWritesAPrefix
  <2>1. memory \in Contents /\ data \in Seq(Byte)
    BY CacheAssumption DEF TypeOK
  <2> QED BY <2>1, WritesAreExact DEF Written
<1>3. TypeOK => DebuggerAccessesArePrefixes
  BY <1>1, <1>2 DEF DebuggerAccessesArePrefixes
<1> QED BY <1>3, TypeCorrect, PTL

-----------------------------------------------------------------------------
(***************************************************************************)
(* The two loops of a reply.  The encoder and GDB each take a body or a    *)
(* text a character at a time, by recursion on its length.                 *)
(***************************************************************************)
Encoders == [stream : Seq(Nat), last_char : Nat, repeat : Nat]

(* The count after a `*' at the start of a body repeats no character. *)
Texts == Seq(Int \cup {<< >>[0]})
Readers == [text : Texts, after : {"character", "escape", "star"}]

LEMMA RunType ==
    ASSUME NEW c \in Nat, NEW repeat \in Nat
    PROVE  Run(c, repeat) \in Seq(Nat)
<1>1. CASE c = 0 \/ repeat = 0
  BY <1>1 DEF Run
<1>2. CASE c # 0 /\ repeat \in {1, 2}
  <2>1. [i \in 1 .. repeat |-> c] \in Seq(Nat)
    OBVIOUS
  <2> QED BY <1>2, <2>1 DEF Run
<1>3. CASE c # 0 /\ repeat \in {6, 7}
  <2>1. [i \in 1 .. repeat - 5 |-> c] \in Seq(Nat) /\ << Star, Quote >> \in Seq(Nat)
    BY <1>3 DEF Star, Quote
  <2>2. << Star, Quote >> \o [i \in 1 .. repeat - 5 |-> c] \in Seq(Nat)
    BY <2>1, ConcatProperties
  <2> QED BY <1>3, <2>2 DEF Run
<1>4. CASE c # 0 /\ repeat > 2 /\ repeat \notin {6, 7}
  <2>1. << Star, repeat + 29 >> \in Seq(Nat)
    BY DEF Star
  <2> QED BY <1>4, <2>1 DEF Run
<1> QED BY <1>1, <1>2, <1>3, <1>4

LEMMA EscapedType ==
    ASSUME NEW c \in Nat PROVE Escaped(c) \in Seq(Nat)
<1>1. c \in Special => ToggledBit5(c) \in Nat
  BY DEF Special, Star, Dollar, Brace, Hash, ToggledBit5
<1> QED BY <1>1 DEF Escaped, Brace

LEMMA PushType ==
    ASSUME NEW e \in Encoders, NEW c \in Nat
    PROVE  Push(e, c) \in Encoders
<1>1. e.stream \o Run(e.last_char, e.repeat) \o Escaped(c) \in Seq(Nat)
  BY RunType, EscapedType, ConcatProperties DEF Encoders
<1> DEFINE s == e.stream \o Run(e.last_char, e.repeat) \o Escaped(c)
<1>2. s \in Seq(Nat)
  BY <1>1
<1>3. Push(e, c) = CASE c = 0 -> e
      [] c # 0 /\ c = e.last_char /\ e.repeat < MaxRepeat ->
             [e EXCEPT !.repeat = @ + 1]
      [] OTHER -> [stream |-> s, last_char |-> c, repeat |-> 0]
  BY DEF Push
<1> HIDE DEF s
<1>4. CASE c = 0
  BY <1>3, <1>4
<1>5. CASE c # 0 /\ c = e.last_char /\ e.repeat < MaxRepeat
  <2>1. Push(e, c) = [e EXCEPT !.repeat = @ + 1]
    BY <1>3, <1>5
  <2> QED BY <2>1 DEF Encoders
<1>6. CASE c # 0 /\ ~ (c = e.last_char /\ e.repeat < MaxRepeat)
  <2>1. Push(e, c) = [stream |-> s, last_char |-> c, repeat |-> 0]
    BY <1>3, <1>6
  <2> QED BY <1>2, <2>1 DEF Encoders
<1> QED BY <1>4, <1>5, <1>6

LEMMA EncoderUnfolds ==
    ASSUME NEW text \in Seq(Nat)
    PROVE  \E encoder :
               /\ Encode(text) = encoder[Len(text)].stream
                      \o Run(encoder[Len(text)].last_char, encoder[Len(text)].repeat)
               /\ encoder[0] = NewEncoder
               /\ \A i \in 1 .. Len(text) : encoder[i] = Push(encoder[i - 1], text[i])
               /\ \A i \in 0 .. Len(text) : encoder[i] \in Encoders
<1> DEFINE n == Len(text)
           G == [x \in (1 .. n) \X Encoders |-> Push(x[2], text[x[1]])]
           encoder[i \in 0 .. Len(text)] ==
               IF i = 0 THEN NewEncoder ELSE Push(encoder[i - 1], text[i])
           Unfold(f) == [i \in 0 .. Len(text) |->
               IF i = 0 THEN NewEncoder ELSE Push(f[i - 1], text[i])]
<1>1. n \in Nat /\ NewEncoder \in Encoders /\ \A i \in 1 .. n : text[i] \in Nat
  BY DEF NewEncoder, Encoders
<1>2. PICK f \in [0 .. n -> Encoders] :
          f[0] = NewEncoder /\ \A i \in 1 .. n : f[i] = Push(f[i - 1], text[i])
  <2>1. G \in StepFunctions(n, Encoders)
    <3>1. ASSUME NEW x \in (1 .. n) \X Encoders PROVE Push(x[2], text[x[1]]) \in Encoders
      BY <1>1, PushType
    <3> QED BY <3>1 DEF StepFunctions
  <2>2. PICK f \in [0 .. n -> Encoders] :
            f[0] = NewEncoder /\ \A i \in 1 .. n : f[i] = G[<< i, f[i - 1] >>]
    <3> HIDE DEF G, n
    <3>1. \E f : IsRecursion(f, n, Encoders, NewEncoder, G)
      BY <1>1, <2>1, RecursionExists
    <3> QED BY <3>1 DEF IsRecursion
  <2>3. ASSUME NEW i \in 1 .. n PROVE f[i] = Push(f[i - 1], text[i])
    <3>1. f[i - 1] \in Encoders
      BY <1>1
    <3> QED BY <2>2, <3>1
  <2> QED BY <2>2, <2>3
<1>3. f = Unfold(f)
  <2>1. ASSUME NEW i \in 0 .. n PROVE f[i] = Unfold(f)[i]
    BY <1>1, <1>2
  <2>2. f = [i \in 0 .. n |-> f[i]] /\ Unfold(f) = [i \in 0 .. n |-> Unfold(f)[i]]
    OBVIOUS
  <2> HIDE DEF Unfold
  <2> QED BY <2>1, <2>2
<1>4. encoder = Unfold(encoder)
  <2>1. encoder = CHOOSE g : g = Unfold(g)
    OBVIOUS
  <2> HIDE DEF encoder, Unfold
  <2> QED BY <1>3, <2>1
<1>5. encoder[0] = NewEncoder
  <2>1. 0 \in 0 .. Len(text)
    BY <1>1
  <2> HIDE DEF encoder
  <2> QED BY <1>4, <2>1
<1>6. ASSUME NEW i \in 1 .. n PROVE encoder[i] = Push(encoder[i - 1], text[i])
  <2>1. i \in 0 .. Len(text) /\ i # 0
    OBVIOUS
  <2> HIDE DEF encoder
  <2> QED BY <1>4, <2>1
<1>7. \A i \in 0 .. n : encoder[i] \in Encoders
  <2>1. ASSUME NEW i \in 1 .. n, encoder[i - 1] \in Encoders PROVE encoder[i] \in Encoders
    <3> HIDE DEF encoder
    <3> QED BY <1>1, <1>6, <2>1, PushType
  <2> HIDE DEF encoder, n
  <2> QED BY <1>1, <1>5, <2>1, RecursionType
<1>8. Encode(text) = encoder[n].stream \o Run(encoder[n].last_char, encoder[n].repeat)
  BY DEF Encode
<1> HIDE DEF encoder
<1> QED BY <1>5, <1>6, <1>7, <1>8

LEMMA ExpandedType ==
    ASSUME NEW r \in Readers, NEW c \in Nat
    PROVE  Expanded(r, c) \in Readers
<1> DEFINE X == Int \cup {<< >>[0]}
           l == r.text[Len(r.text)]
           more == [i \in 1 .. c - 29 |-> l]
<1>1. r.text \in Seq(X) /\ r.after \in {"character", "escape", "star"}
  BY DEF Readers, Texts
<1>2. ToggledBit5(c) \in X /\ c \in X
  BY DEF ToggledBit5
<1>3. l \in X
  <2>1. CASE r.text = << >>
    BY <2>1
  <2>2. CASE r.text # << >>
    <3>1. Len(r.text) \in 1 .. Len(r.text)
      BY <1>1, <2>2, EmptySeq
    <3> QED BY <1>1, <3>1
  <2> QED BY <2>1, <2>2
<1> HIDE DEF X, l
<1>4. more \in Seq(X)
  <2>1. CASE c - 29 >= 0
    <3>1. c - 29 \in Nat
      BY <2>1
    <3> QED BY <1>3, <3>1, SeqDef
  <2>2. CASE c - 29 < 0
    <3>1. more = << >>
      BY <2>2
    <3> QED BY <3>1
  <2> QED BY <2>1, <2>2
<1>5. r.text \o more \in Seq(X)
  BY <1>1, <1>4, ConcatProperties
<1> HIDE DEF more
<1>6. Append(r.text, c) \in Seq(X) /\ Append(r.text, ToggledBit5(c)) \in Seq(X)
  BY <1>1, <1>2
<1> DEFINE s1 == Append(r.text, c)
           s2 == Append(r.text, ToggledBit5(c))
           s3 == r.text \o more
<1>7. s1 \in Seq(X) /\ s2 \in Seq(X) /\ s3 \in Seq(X)
  BY <1>5, <1>6
<1>8. Expanded(r, c) =
         CASE r.after = "escape" -> [text |-> s2, after |-> "character"]
      [] r.after = "star" -> [text |-> s3, after |-> "character"]
      [] r.after = "character" /\ c = Brace -> [r EXCEPT !.after = "escape"]
      [] r.after = "character" /\ c = Star  -> [r EXCEPT !.after = "star"]
      [] OTHER -> [r EXCEPT !.text = s1]
  BY DEF Expanded, more, l
<1> HIDE DEF s1, s2, s3
<1> QED BY <1>1, <1>7, <1>8 DEF Readers, Texts, X

(* GDB in the body: where it stands after each character. *)
Reads(reader, body) ==
    /\ reader[0] = NewReader
    /\ \A i \in 1 .. Len(body) : reader[i] = Expanded(reader[i - 1], body[i])

LEMMA ReaderUnfolds ==
    ASSUME NEW body \in Seq(Nat)
    PROVE  \E reader : Expand(body) = reader[Len(body)].text /\ Reads(reader, body)
<1> DEFINE n == Len(body)
           G == [x \in (1 .. n) \X Readers |-> Expanded(x[2], body[x[1]])]
           reader[i \in 0 .. Len(body)] ==
               IF i = 0 THEN NewReader ELSE Expanded(reader[i - 1], body[i])
           Unfold(f) == [i \in 0 .. Len(body) |->
               IF i = 0 THEN NewReader ELSE Expanded(f[i - 1], body[i])]
<1>1. n \in Nat /\ NewReader \in Readers /\ \A i \in 1 .. n : body[i] \in Nat
  BY DEF NewReader, Readers, Texts
<1>2. PICK f \in [0 .. n -> Readers] :
          f[0] = NewReader /\ \A i \in 1 .. n : f[i] = Expanded(f[i - 1], body[i])
  <2>1. G \in StepFunctions(n, Readers)
    <3>1. ASSUME NEW x \in (1 .. n) \X Readers
          PROVE  Expanded(x[2], body[x[1]]) \in Readers
      BY <1>1, ExpandedType
    <3> QED BY <3>1 DEF StepFunctions
  <2>2. PICK f \in [0 .. n -> Readers] :
            f[0] = NewReader /\ \A i \in 1 .. n : f[i] = G[<< i, f[i - 1] >>]
    <3> HIDE DEF G, n
    <3>1. \E f : IsRecursion(f, n, Readers, NewReader, G)
      BY <1>1, <2>1, RecursionExists
    <3> QED BY <3>1 DEF IsRecursion
  <2>3. ASSUME NEW i \in 1 .. n PROVE f[i] = Expanded(f[i - 1], body[i])
    <3>1. f[i - 1] \in Readers
      BY <1>1
    <3> QED BY <2>2, <3>1
  <2> QED BY <2>2, <2>3
<1>3. f = Unfold(f)
  <2>1. ASSUME NEW i \in 0 .. n PROVE f[i] = Unfold(f)[i]
    BY <1>1, <1>2
  <2>2. f = [i \in 0 .. n |-> f[i]] /\ Unfold(f) = [i \in 0 .. n |-> Unfold(f)[i]]
    OBVIOUS
  <2> HIDE DEF Unfold
  <2> QED BY <2>1, <2>2
<1>4. reader = Unfold(reader)
  <2>1. reader = CHOOSE g : g = Unfold(g)
    OBVIOUS
  <2> HIDE DEF reader, Unfold
  <2> QED BY <1>3, <2>1
<1>5. Reads(reader, body)
  <2> HIDE DEF reader
  <2> QED BY <1>1, <1>4 DEF Reads
<1>6. Expand(body) = reader[n].text
  BY DEF Expand
<1> HIDE DEF reader
<1> QED BY <1>5, <1>6

(* The characters that a body may hold as they are. *)
Plain == {c \in Nat \ {0} : c \notin Special}

Prefix(s, m) == [i \in 1 .. m |-> s[i]]

(* GDB between two characters, with the first m characters of the text. *)
Reader(text, m) == [text |-> Prefix(text, m), after |-> "character"]

LEMMA PrefixType ==
    ASSUME NEW text \in Seq(Plain), NEW m \in 0 .. Len(text)
    PROVE  /\ Prefix(text, m) \in Seq(Plain) /\ Len(Prefix(text, m)) = m
           /\ \A i \in 1 .. m : Prefix(text, m)[i] = text[i]
           /\ m = Len(text) => Prefix(text, m) = text
<1>1. \A i \in 1 .. m : text[i] \in Plain
  OBVIOUS
<1>2. Prefix(text, m) \in Seq(Plain) /\ Len(Prefix(text, m)) = m
  BY <1>1 DEF Prefix
<1>3. \A i \in 1 .. m : Prefix(text, m)[i] = text[i]
  BY DEF Prefix
<1>4. m = Len(text) => Prefix(text, m) = text
  BY DEF Prefix
<1> QED BY <1>2, <1>3, <1>4

LEMMA ReadsCharacter ==
    ASSUME NEW text \in Seq(Plain), NEW m \in 0 .. Len(text) - 1
    PROVE  Expanded(Reader(text, m), text[m + 1]) = Reader(text, m + 1)
<1> DEFINE p == Prefix(text, m)
           c == text[m + 1]
<1>1. p \in Seq(Plain) /\ Len(p) = m /\ \A i \in 1 .. m : p[i] = text[i]
  BY PrefixType
<1>2. c \in Plain
  OBVIOUS
<1>3. c # Brace /\ c # Star
  BY <1>2 DEF Plain, Special
<1>4. Append(p, c) = Prefix(text, m + 1)
  <2> DEFINE q == Prefix(text, m + 1)
             s == Append(p, c)
  <2>1. q \in Seq(Plain) /\ Len(q) = m + 1 /\ \A i \in 1 .. m + 1 : q[i] = text[i]
    BY PrefixType
  <2> HIDE DEF p, q
  <2>2. /\ s \in Seq(Plain) /\ Len(s) = m + 1
        /\ s[m + 1] = c /\ \A i \in 1 .. m : s[i] = p[i]
    <3> HIDE DEF c
    <3> QED BY <1>1, <1>2, AppendProperties
  <2> HIDE DEF s
  <2>3. ASSUME NEW i \in 1 .. m + 1 PROVE s[i] = q[i]
    <3>1. i # m + 1 => i \in 1 .. m
      OBVIOUS
    <3> QED BY <1>1, <2>1, <2>2, <3>1
  <2>4. s = q
    BY <2>1, <2>2, <2>3, SeqEqual
  <2> QED BY <2>4 DEF s, q
<1> HIDE DEF c
<1>5. Expanded(Reader(text, m), c) = [Reader(text, m) EXCEPT !.text = Append(@, c)]
  BY <1>3 DEF Expanded, Reader
<1> QED BY <1>4, <1>5 DEF Reader, c

(* From m, the next characters of the text are the one at m again. *)
Repeats(text, m, r) ==
    /\ m + r <= Len(text)
    /\ r > 0 => m > 0
    /\ \A i \in 1 .. r : text[m + i] = text[m]

LEMMA ReadsCount ==
    ASSUME NEW text \in Seq(Plain), NEW m \in Nat, NEW r \in Nat \ {0},
           Repeats(text, m, r)
    PROVE  /\ Expanded(Reader(text, m), Star) = [Reader(text, m) EXCEPT !.after = "star"]
           /\ Expanded([Reader(text, m) EXCEPT !.after = "star"], r + 29) =
                  Reader(text, m + r)
<1> DEFINE p == Prefix(text, m)
           q == Prefix(text, m + r)
           l == p[Len(p)]
           more == [i \in 1 .. r |-> l]
<1>1. m \in 0 .. Len(text) /\ m > 0 /\ m + r \in 0 .. Len(text)
      /\ \A i \in 1 .. r : text[m + i] = text[m]
  BY DEF Repeats
<1>2. p \in Seq(Plain) /\ Len(p) = m /\ \A i \in 1 .. m : p[i] = text[i]
  BY <1>1, PrefixType
<1>3. q \in Seq(Plain) /\ Len(q) = m + r /\ \A i \in 1 .. m + r : q[i] = text[i]
  BY <1>1, PrefixType
<1> HIDE DEF p, q
<1>4. l = text[m] /\ l \in Plain
  BY <1>1, <1>2
<1> HIDE DEF l
<1>5. more \in Seq(Plain) /\ Len(more) = r /\ \A i \in 1 .. r : more[i] = l
  BY <1>4
<1> HIDE DEF more
<1>6. p \o more = q
  <2> DEFINE s == p \o more
  <2>1. s \in Seq(Plain) /\ Len(s) = m + r
        /\ \A i \in 1 .. m + r : s[i] = IF i <= m THEN p[i] ELSE more[i - m]
    <3>1. /\ s \in Seq(Plain) /\ Len(s) = Len(p) + Len(more)
          /\ \A i \in 1 .. Len(p) + Len(more) :
                 s[i] = IF i <= Len(p) THEN p[i] ELSE more[i - Len(p)]
      <4>1. p \in Seq(Plain) /\ more \in Seq(Plain)
        BY <1>2, <1>5
      <4> QED BY <4>1, ConcatProperties
    <3> HIDE DEF s
    <3>2. Len(p) = m /\ Len(more) = r
      BY <1>2, <1>5
    <3> QED BY <3>1, <3>2
  <2> HIDE DEF s
  <2>2. ASSUME NEW i \in 1 .. m + r PROVE s[i] = q[i]
    <3>1. CASE i <= m
      <4>1. s[i] = p[i] /\ i \in 1 .. m
        BY <1>1, <2>1, <3>1
      <4> QED BY <1>2, <1>3, <4>1
    <3>2. CASE ~ (i <= m)
      <4>1. i - m \in 1 .. r /\ m + (i - m) = i
        BY <3>2, <1>1
      <4>2. s[i] = more[i - m]
        BY <2>1, <3>2 DEF s
      <4>3. text[m + (i - m)] = text[m]
        BY <1>1, <4>1
      <4>4. q[i] = text[i] /\ text[i] = text[m]
        BY <1>3, <4>1, <4>3
      <4>5. more[i - m] = text[m]
        BY <1>4, <1>5, <4>1
      <4> QED BY <4>2, <4>4, <4>5
    <3> QED BY <3>1, <3>2
  <2>3. s = q
    BY <1>3, <2>1, <2>2 DEF s
  <2> QED BY <2>3 DEF s
<1>7. Expanded(Reader(text, m), Star) = [Reader(text, m) EXCEPT !.after = "star"]
  BY DEF Expanded, Reader, Star, Brace
<1>8. Expanded([Reader(text, m) EXCEPT !.after = "star"], r + 29) =
          [text |-> p \o [i \in 1 .. (r + 29) - 29 |-> l], after |-> "character"]
  BY DEF Expanded, Reader, p, l
<1>9. [i \in 1 .. (r + 29) - 29 |-> l] = more
  <2>1. (r + 29) - 29 = r
    OBVIOUS
  <2> QED BY <2>1 DEF more
<1> QED BY <1>6, <1>7, <1>8, <1>9 DEF Reader, q

(* From k on, the body holds s. *)
HasAt(body, k, s) ==
    /\ k + Len(s) <= Len(body)
    /\ \A i \in 1 .. Len(s) : body[k + i] = s[i]

LEMMA RepeatsRest ==
    ASSUME NEW text \in Seq(Plain), NEW m \in Nat, NEW r \in Nat, Repeats(text, m, r),
           NEW d \in 0 .. r
    PROVE  /\ Repeats(text, m, d) /\ Repeats(text, m + d, r - d)
           /\ m + d <= Len(text) /\ (m > 0 => text[m + d] = text[m])
<1>1. m + r <= Len(text) /\ (r > 0 => m > 0) /\ \A i \in 1 .. r : text[m + i] = text[m]
  BY DEF Repeats
<1>2. Repeats(text, m, d)
  <2>1. m + d <= Len(text) /\ (d > 0 => m > 0)
    BY <1>1
  <2>2. ASSUME NEW i \in 1 .. d PROVE text[m + i] = text[m]
    <3>1. i \in 1 .. r
      OBVIOUS
    <3> QED BY <1>1, <3>1
  <2> QED BY <2>1, <2>2 DEF Repeats
<1>3. text[m + d] = text[m]
  <2>1. CASE d = 0
    BY <2>1
  <2>2. CASE d # 0
    BY <1>1, <2>2
  <2> QED BY <2>1, <2>2
<1>4. ASSUME NEW i \in 1 .. r - d PROVE text[(m + d) + i] = text[m + d]
  <2>1. d + i \in 1 .. r /\ m + (d + i) = (m + d) + i
    OBVIOUS
  <2>2. text[m + (d + i)] = text[m]
    BY <1>1, <2>1
  <2> QED BY <1>3, <2>1, <2>2
<1>5. Repeats(text, m + d, r - d)
  BY <1>1, <1>4 DEF Repeats
<1> QED BY <1>1, <1>2, <1>3, <1>5

(* A step of GDB through the body. *)
LEMMA ReadsOne ==
    ASSUME NEW body \in Seq(Nat), NEW reader,
           Reads(reader, body), NEW k \in Nat, k + 1 <= Len(body)
    PROVE  reader[k + 1] = Expanded(reader[k], body[k + 1])
<1>1. k + 1 \in 1 .. Len(body) /\ (k + 1) - 1 = k
  OBVIOUS
<1> QED BY <1>1 DEF Reads

(* From k on, the body holds r times the character c. *)
HasRepeated(body, k, c, r) ==
    /\ k + r <= Len(body)
    /\ \A i \in 1 .. r : body[k + i] = c

(* One or two characters, written out. *)
LEMMA ReadsRepeated ==
    ASSUME NEW text \in Seq(Plain), NEW body \in Seq(Nat), NEW reader,
           Reads(reader, body), NEW k \in Nat, NEW m \in Nat, NEW r \in {1, 2},
           Repeats(text, m, r),
           HasRepeated(body, k, text[m], r), reader[k] = Reader(text, m)
    PROVE  reader[k + r] = Reader(text, m + r)
<1>1. /\ m + r <= Len(text) /\ m > 0 /\ \A i \in 1 .. r : text[m + i] = text[m]
      /\ k + r <= Len(body) /\ \A i \in 1 .. r : body[k + i] = text[m]
  BY DEF Repeats, HasRepeated
<1>2. reader[k + 1] = Reader(text, m + 1)
  <2>1. reader[k + 1] = Expanded(reader[k], body[k + 1])
    <3>1. k + 1 <= Len(body)
      BY <1>1
    <3> QED BY <3>1, ReadsOne
  <2>2. m \in 0 .. Len(text) - 1 /\ body[k + 1] = text[m + 1]
    BY <1>1
  <2> QED BY <2>1, <2>2, ReadsCharacter
<1>3. r = 2 => reader[k + 2] = Reader(text, m + 2)
  <2> SUFFICES ASSUME r = 2 PROVE reader[k + 2] = Reader(text, m + 2)
    OBVIOUS
  <2> DEFINE j == k + 1
             o == m + 1
  <2>1. j \in Nat /\ j + 1 = k + 2 /\ j + 1 <= Len(body)
        /\ o \in 0 .. Len(text) - 1 /\ o + 1 = m + 2
    BY <1>1
  <2>2. body[j + 1] = text[o + 1]
    BY <1>1, <2>1
  <2>3. reader[j] = Reader(text, o)
    BY <1>2
  <2> HIDE DEF j, o
  <2>4. reader[j + 1] = Expanded(reader[j], body[j + 1])
    BY <2>1, ReadsOne
  <2>5. reader[j + 1] = Reader(text, o + 1)
    BY <2>1, <2>2, <2>3, <2>4, ReadsCharacter
  <2> QED BY <2>1, <2>5
<1> QED BY <1>2, <1>3

(* From k on, the body holds the count of r repetitions. *)
HasCounted(body, k, r) ==
    /\ k + 2 <= Len(body)
    /\ body[k + 1] = Star /\ body[k + 2] = r + 29

(* A `*' and a count. *)
LEMMA ReadsStar ==
    ASSUME NEW text \in Seq(Plain), NEW body \in Seq(Nat), NEW reader,
           Reads(reader, body), NEW k \in Nat, NEW m \in Nat, NEW r \in Nat \ {0},
           Repeats(text, m, r), HasCounted(body, k, r), reader[k] = Reader(text, m)
    PROVE  reader[k + 2] = Reader(text, m + r)
<1>0. k + 2 <= Len(body) /\ body[k + 1] = Star /\ body[k + 2] = r + 29
  BY DEF HasCounted
<1>1. reader[k + 1] = [Reader(text, m) EXCEPT !.after = "star"]
  <2>1. reader[k + 1] = Expanded(reader[k], body[k + 1])
    <3>1. k + 1 <= Len(body)
      BY <1>0
    <3> QED BY <3>1, ReadsOne
  <2> QED BY <1>0, <2>1, ReadsCount
<1>2. reader[k + 2] = Expanded(reader[k + 1], r + 29)
  <2> DEFINE j == k + 1
  <2>1. j \in Nat /\ j + 1 = k + 2 /\ j + 1 <= Len(body)
    BY <1>0
  <2> HIDE DEF j
  <2>2. reader[j + 1] = Expanded(reader[j], body[j + 1])
    BY <2>1, ReadsOne
  <2> QED BY <1>0, <2>1, <2>2 DEF j
<1>3. Expanded([Reader(text, m) EXCEPT !.after = "star"], r + 29) = Reader(text, m + r)
  BY ReadsCount
<1> DEFINE x == [Reader(text, m) EXCEPT !.after = "star"]
<1> HIDE DEF x
<1> QED BY <1>1, <1>2, <1>3 DEF x

(***************************************************************************)
(* push_repeat, read back: whatever the count, GDB gets that many more of  *)
(* the character.  Five and one or two characters are six and seven.       *)
(***************************************************************************)
LEMMA ReadsRun ==
    ASSUME NEW text \in Seq(Plain), NEW body \in Seq(Nat), NEW reader,
           Reads(reader, body), NEW k \in Nat, NEW m \in Nat, NEW r \in Nat,
           Repeats(text, m, r),
           NEW c \in Nat, r > 0 => c = text[m],
           HasAt(body, k, Run(c, r)), reader[k] = Reader(text, m)
    PROVE  reader[k + Len(Run(c, r))] = Reader(text, m + r)
<1> DEFINE run == Run(c, r)
<1>1. /\ k + Len(run) <= Len(body)
      /\ \A i \in 1 .. Len(run) : body[k + i] = run[i]
  BY DEF HasAt
<1>2. r > 0 => c # 0
  BY DEF Repeats, Plain
<1>3. CASE r = 0
  <2>1. run = << >>
    BY <1>3 DEF Run
  <2> QED BY <1>3, <2>1
<1>4. CASE r \in {1, 2}
  <2>1. run = [i \in 1 .. r |-> c]
    BY <1>2, <1>4 DEF Run
  <2>2. Len(run) = r /\ \A i \in 1 .. r : run[i] = c
    <3> HIDE DEF run
    <3>1. Len([i \in 1 .. r |-> c]) = r
      OBVIOUS
    <3> QED BY <2>1, <3>1
  <2> HIDE DEF run
  <2>3. HasRepeated(body, k, text[m], r)
    <3>1. k + r <= Len(body) /\ c = text[m]
      BY <1>1, <1>4, <2>2
    <3>2. \A i \in 1 .. r : body[k + i] = c
      BY <1>1, <2>2
    <3> QED BY <3>1, <3>2 DEF HasRepeated
  <2>4. reader[k + r] = Reader(text, m + r)
    BY <1>4, <2>3, ReadsRepeated
  <2> QED BY <2>2, <2>4 DEF run
<1>5. CASE r \in {6, 7}
  <2> DEFINE d == r - 5
             tail == [i \in 1 .. d |-> c]
  <2>1. run = << Star, Quote >> \o tail
    BY <1>2, <1>5 DEF Run
  <2>2. d \in {1, 2}
    BY <1>5
  <2> HIDE DEF d, run
  <2>3. /\ tail \in Seq(Nat) /\ Len(tail) = d /\ \A i \in 1 .. d : tail[i] = c
        /\ << Star, Quote >> \in Seq(Nat) /\ Len(<< Star, Quote >>) = 2
    BY <2>2 DEF Star, Quote
  <2> HIDE DEF tail
  <2>4. Len(run) = 2 + d
        /\ \A i \in 1 .. 2 + d :
               run[i] = IF i <= 2 THEN << Star, Quote >>[i] ELSE tail[i - 2]
    BY <2>1, <2>2, <2>3, ConcatProperties
  <2>5. run[1] = Star /\ run[2] = Quote
    BY <2>2, <2>4
  <2>6. \A i \in 1 .. d : run[2 + i] = c
    BY <2>2, <2>3, <2>4
  <2>7. Repeats(text, m, 5) /\ Repeats(text, m + 5, d) /\ text[m + 5] = text[m]
    <3>1. 5 \in 0 .. r /\ m > 0
      BY <1>5 DEF Repeats
    <3> QED BY <3>1, RepeatsRest DEF d
  <2>8. reader[k + 2] = Reader(text, m + 5)
    <3>1. 1 \in 1 .. Len(run) /\ 2 \in 1 .. Len(run) /\ k + 2 <= Len(body)
      BY <1>1, <2>2, <2>4
    <3>2. body[k + 1] = run[1] /\ body[k + 2] = run[2]
      BY <1>1, <3>1
    <3> DEFINE five == 5
    <3>3. HasCounted(body, k, five)
      BY <2>5, <3>1, <3>2 DEF Quote, HasCounted
    <3>4. five \in Nat \ {0} /\ Repeats(text, m, five)
      BY <2>7
    <3> HIDE DEF five
    <3>5. reader[k + 2] = Reader(text, m + five)
      BY <3>3, <3>4, ReadsStar
    <3> QED BY <3>5 DEF five
  <2>9. reader[(k + 2) + d] = Reader(text, (m + 5) + d)
    <3>1. k + 2 \in Nat /\ m + 5 \in Nat /\ (k + 2) + d <= Len(body)
      BY <1>1, <2>2, <2>4
    <3>2. ASSUME NEW i \in 1 .. d PROVE body[(k + 2) + i] = text[m + 5]
      <4>1. 2 + i \in 1 .. Len(run) /\ k + (2 + i) = (k + 2) + i
        BY <2>2, <2>4
      <4>2. body[k + (2 + i)] = run[2 + i] /\ run[2 + i] = c
        BY <1>1, <2>6, <4>1
      <4>3. c = text[m + 5]
        BY <1>5, <2>7
      <4> QED BY <4>1, <4>2, <4>3
    <3>3. HasRepeated(body, k + 2, text[m + 5], d)
      BY <3>1, <3>2 DEF HasRepeated
    <3> DEFINE k2 == k + 2
               m5 == m + 5
    <3>4. k2 \in Nat /\ m5 \in Nat /\ Repeats(text, m5, d)
          /\ reader[k2] = Reader(text, m5) /\ HasRepeated(body, k2, text[m5], d)
      BY <2>7, <2>8, <3>1, <3>3
    <3> HIDE DEF k2, m5
    <3>5. reader[k2 + d] = Reader(text, m5 + d)
      BY <2>2, <3>4, ReadsRepeated
    <3> QED BY <3>5 DEF k2, m5
  <2>10. (m + 5) + d = m + r /\ (k + 2) + d = k + Len(run)
    BY <1>5, <2>4 DEF d
  <2> QED BY <2>9, <2>10 DEF run
<1>6. CASE r > 2 /\ r \notin {6, 7}
  <2>1. run = << Star, r + 29 >>
    BY <1>2, <1>6 DEF Run
  <2> HIDE DEF run
  <2>2. Len(run) = 2 /\ run[1] = Star /\ run[2] = r + 29
    BY <2>1
  <2>3. HasCounted(body, k, r)
    BY <1>1, <2>2 DEF HasCounted
  <2>4. reader[k + 2] = Reader(text, m + r)
    BY <1>6, <2>3, ReadsStar
  <2> QED BY <2>2, <2>4 DEF run
<1> QED BY <1>3, <1>4, <1>5, <1>6

(* No character ends a packet or begins one. *)
Clean(s) == \A i \in 1 .. Len(s) : s[i] \notin {Hash, Dollar}

LEMMA CleanConcat ==
    ASSUME NEW s \in Seq(Nat), NEW t \in Seq(Nat), Clean(s), Clean(t)
    PROVE  Clean(s \o t)
<1>1. /\ Len(s \o t) = Len(s) + Len(t)
      /\ \A i \in 1 .. Len(s) + Len(t) :
             (s \o t)[i] = IF i <= Len(s) THEN s[i] ELSE t[i - Len(s)]
  BY ConcatProperties
<1> DEFINE u == s \o t
<1> HIDE DEF u
<1>2. ASSUME NEW i \in 1 .. Len(u) PROVE u[i] \notin {Hash, Dollar}
  <2>1. CASE i <= Len(s)
    BY <1>1, <2>1 DEF Clean, u
  <2>2. CASE ~ (i <= Len(s))
    <3>1. i - Len(s) \in 1 .. Len(t) /\ u[i] = t[i - Len(s)]
      BY <1>1, <2>2 DEF u
    <3> QED BY <3>1 DEF Clean
  <2> QED BY <2>1, <2>2
<1>3. Clean(u)
  BY <1>2 DEF Clean
<1> QED BY <1>3 DEF u

LEMMA CleanRun ==
    ASSUME NEW c \in Nat, c > 0 => c \in Plain, NEW r \in Nat
    PROVE  Clean(Run(c, r))
<1>1. c \notin {Hash, Dollar}
  BY DEF Plain, Special, Hash, Dollar
<1>2. CASE c = 0 \/ r = 0
  BY <1>2 DEF Run, Clean
<1>3. CASE c # 0 /\ r \in {1, 2}
  <2> DEFINE s == [i \in 1 .. r |-> c]
  <2>1. Run(c, r) = s
    BY <1>3 DEF Run
  <2>2. Clean(s)
    BY <1>1, <1>3 DEF Clean
  <2> QED BY <2>1, <2>2
<1>4. CASE c # 0 /\ r \in {6, 7}
  <2> DEFINE s == [i \in 1 .. r - 5 |-> c]
  <2>1. Run(c, r) = << Star, Quote >> \o s
    BY <1>4 DEF Run
  <2>2. s \in Seq(Nat) /\ Clean(s)
    BY <1>1, <1>4 DEF Clean
  <2>3. << Star, Quote >> \in Seq(Nat) /\ Clean(<< Star, Quote >>)
    BY DEF Clean, Star, Quote, Hash, Dollar
  <2> HIDE DEF s
  <2> QED BY <2>1, <2>2, <2>3, CleanConcat
<1>5. CASE c # 0 /\ r > 2 /\ r \notin {6, 7}
  <2>1. Run(c, r) = << Star, r + 29 >>
    BY <1>5 DEF Run
  <2> DEFINE s == << Star, r + 29 >>
  <2>2. Len(s) = 2 /\ s[1] = Star /\ s[2] = r + 29
    OBVIOUS
  <2> HIDE DEF s
  <2>3. Clean(s)
    BY <1>5, <2>2 DEF Clean, Star, Hash, Dollar
  <2> QED BY <2>1, <2>3 DEF s
<1> QED BY <1>2, <1>3, <1>4, <1>5

Extends(body, s) ==
    /\ Len(s) <= Len(body)
    /\ \A i \in 1 .. Len(s) : body[i] = s[i]

LEMMA ExtendsConcat ==
    ASSUME NEW body \in Seq(Nat), NEW s \in Seq(Nat), NEW t \in Seq(Nat),
           Extends(body, s \o t)
    PROVE  Extends(body, s) /\ HasAt(body, Len(s), t)
<1>1. /\ Len(s \o t) = Len(s) + Len(t)
      /\ \A i \in 1 .. Len(s) + Len(t) :
             (s \o t)[i] = IF i <= Len(s) THEN s[i] ELSE t[i - Len(s)]
  BY ConcatProperties
<1> DEFINE u == s \o t
<1> HIDE DEF u
<1>2. Len(u) <= Len(body) /\ \A i \in 1 .. Len(u) : body[i] = u[i]
  BY DEF Extends, u
<1>3. ASSUME NEW i \in 1 .. Len(s) PROVE body[i] = s[i]
  <2>1. i \in 1 .. Len(s) + Len(t) /\ i <= Len(s)
    OBVIOUS
  <2> QED BY <1>1, <1>2, <2>1 DEF u
<1>4. ASSUME NEW i \in 1 .. Len(t) PROVE body[Len(s) + i] = t[i]
  <2> DEFINE j == Len(s) + i
  <2>1. j \in 1 .. Len(s) + Len(t) /\ ~ (j <= Len(s)) /\ j - Len(s) = i
    OBVIOUS
  <2> HIDE DEF j
  <2>2. body[j] = u[j] /\ u[j] = t[j - Len(s)]
    BY <1>1, <1>2, <2>1 DEF u
  <2> QED BY <2>1, <2>2 DEF j
<1>5. Len(s) + Len(t) <= Len(body) /\ Len(s) <= Len(body)
  BY <1>1, <1>2 DEF u
<1>6. Extends(body, s)
  BY <1>3, <1>5 DEF Extends
<1>7. HasAt(body, Len(s), t)
  BY <1>4, <1>5 DEF HasAt
<1> QED BY <1>6, <1>7

(***************************************************************************)
(* The encoder after n characters of a text: it holds back a run of the    *)
(* last one, and from what it has written GDB has read the others.         *)
(***************************************************************************)
HoldsBack(e, text, n) ==
    /\ e \in Encoders
    /\ e.repeat <= n
    /\ n = 0 => e.last_char = 0
    /\ n > 0 => e.repeat < n /\ e.last_char = text[n - e.repeat]
    /\ Repeats(text, n - e.repeat, e.repeat)

HasWritten(e, text, n) ==
    /\ Clean(e.stream)
    /\ \A body \in Seq(Nat) : \A reader :
           Extends(body, e.stream) /\ Reads(reader, body) =>
               reader[Len(e.stream)] = Reader(text, n - e.repeat)

Encodes(e, text, n) == HoldsBack(e, text, n) /\ HasWritten(e, text, n)

LEMMA EncodesNothing ==
    ASSUME NEW text \in Seq(Plain) PROVE Encodes(NewEncoder, text, 0)
<1> DEFINE e == NewEncoder
<1>1. e \in Encoders /\ e.repeat = 0 /\ e.last_char = 0 /\ e.stream = << >>
  BY DEF NewEncoder, Encoders
<1> HIDE DEF e
<1>2. HoldsBack(e, text, 0)
  <2>1. Repeats(text, 0, 0)
    BY DEF Repeats
  <2> QED BY <1>1, <2>1 DEF HoldsBack
<1>3. Clean(e.stream)
  BY <1>1 DEF Clean
<1>4. Reader(text, 0) = NewReader
  BY DEF Reader, NewReader, Prefix
<1>5. ASSUME NEW body \in Seq(Nat), NEW reader, Reads(reader, body)
      PROVE  reader[Len(e.stream)] = Reader(text, 0 - e.repeat)
  <2>1. reader[0] = NewReader /\ Len(e.stream) = 0 /\ 0 - e.repeat = 0
    BY <1>1, <1>5 DEF Reads
  <2> QED BY <1>4, <2>1
<1> QED BY <1>2, <1>3, <1>5 DEF Encodes, HasWritten, e

(* What is written when the run that is held back is added to it. *)
LEMMA WritesRun ==
    ASSUME NEW text \in Seq(Plain), NEW n \in 0 .. Len(text), NEW e, Encodes(e, text, n)
    PROVE  /\ e.stream \o Run(e.last_char, e.repeat) \in Seq(Nat)
           /\ Clean(e.stream \o Run(e.last_char, e.repeat))
           /\ \A body \in Seq(Nat) : \A reader :
                  Extends(body, e.stream \o Run(e.last_char, e.repeat)) /\ Reads(reader, body)
                  => reader[Len(e.stream \o Run(e.last_char, e.repeat))] = Reader(text, n)
<1> DEFINE s == e.stream
           c == e.last_char
           r == e.repeat
           m == n - r
           run == Run(c, r)
<1>1. s \in Seq(Nat) /\ c \in Nat /\ r \in Nat
  BY DEF Encodes, HoldsBack, Encoders
<1>2. m \in Nat /\ m + r = n /\ Repeats(text, m, r) /\ (r > 0 => c = text[m])
  BY <1>1 DEF Encodes, HoldsBack
<1>3. c > 0 => c \in Plain
  <2>1. c > 0 => n > 0
    BY DEF Encodes, HoldsBack
  <2>2. n > 0 => c = text[m] /\ m > 0
    BY <1>1 DEF Encodes, HoldsBack
  <2>3. n > 0 => m \in 1 .. Len(text)
    BY <1>1, <2>2
  <2> HIDE DEF c, m
  <2> QED BY <2>1, <2>2, <2>3
<1>4. /\ Clean(s)
      /\ \A body \in Seq(Nat) : \A reader :
             Extends(body, s) /\ Reads(reader, body) => reader[Len(s)] = Reader(text, m)
  BY DEF Encodes, HasWritten
<1> HIDE DEF s, c, r, m
<1>5. run \in Seq(Nat) /\ Clean(run)
  BY <1>1, <1>3, RunType, CleanRun
<1>6. s \o run \in Seq(Nat) /\ Clean(s \o run) /\ Len(s \o run) = Len(s) + Len(run)
  <2> HIDE DEF run
  <2> QED BY <1>1, <1>4, <1>5, CleanConcat, ConcatProperties
<1>7. ASSUME NEW body \in Seq(Nat), NEW reader,
             Extends(body, s \o run), Reads(reader, body)
      PROVE  reader[Len(s \o run)] = Reader(text, n)
  <2>1. Extends(body, s) /\ HasAt(body, Len(s), run)
    <3> HIDE DEF run
    <3> QED BY <1>1, <1>5, <1>7, ExtendsConcat
  <2>2. reader[Len(s)] = Reader(text, m)
    BY <1>4, <1>7, <2>1
  <2> DEFINE k == Len(s)
  <2>3. k \in Nat
    BY <1>1
  <2> HIDE DEF k
  <2>4. reader[k + Len(run)] = Reader(text, m + r)
    BY <1>1, <1>2, <1>7, <2>1, <2>2, <2>3, ReadsRun DEF k
  <2> QED BY <1>2, <1>6, <2>4 DEF k
<1> HIDE DEF run
<1> QED BY <1>6, <1>7 DEF s, c, r, run

LEMMA PushEncodes ==
    ASSUME NEW text \in Seq(Plain), NEW n \in 0 .. Len(text) - 1, NEW e,
           Encodes(e, text, n)
    PROVE  Encodes(Push(e, text[n + 1]), text, n + 1)
<1> DEFINE s == e.stream
           l == e.last_char
           r == e.repeat
           m == n - r
           c == text[n + 1]
           d == Push(e, c)
<1>1. c \in Plain /\ c \in Nat /\ c # 0
  <2>1. n + 1 \in 1 .. Len(text)
    OBVIOUS
  <2> QED BY <2>1 DEF Plain
<1>2. /\ e \in Encoders /\ s \in Seq(Nat) /\ l \in Nat /\ r \in Nat /\ m \in Nat
      /\ Repeats(text, m, r) /\ (n = 0 => l = 0) /\ (n > 0 => m > 0 /\ l = text[m])
  BY DEF Encodes, HoldsBack, Encoders
<1>3. d \in Encoders
  BY <1>1, <1>2, PushType
<1> HIDE DEF c
<1>4. CASE c = l /\ r < MaxRepeat
  <2>1. d = [e EXCEPT !.repeat = @ + 1]
    BY <1>1, <1>4 DEF Push
  <2>2. d.stream = s /\ d.last_char = l /\ d.repeat = r + 1
    BY <1>2, <2>1 DEF Encoders
  <2>3. (n + 1) - (r + 1) = m /\ n > 0 /\ r + 1 < n + 1
    BY <1>1, <1>2, <1>4
  <2> HIDE DEF d, l, r, s
  <2>4. Repeats(text, m, r + 1)
    <3>1. m + (r + 1) <= Len(text) /\ m > 0
      BY <1>2, <2>3
    <3>2. ASSUME NEW i \in 1 .. r + 1 PROVE text[m + i] = text[m]
      <4>1. CASE i <= r
        <5>1. i \in 1 .. r
          BY <1>2, <4>1
        <5> QED BY <1>2, <5>1 DEF Repeats
      <4>2. CASE ~ (i <= r)
        <5>1. m + i = n + 1
          BY <1>2, <4>2
        <5> QED BY <1>2, <1>4, <2>3, <5>1 DEF c
      <4> QED BY <4>1, <4>2
    <3> QED BY <3>1, <3>2 DEF Repeats
  <2> HIDE DEF m
  <2>5. HoldsBack(d, text, n + 1)
    BY <1>2, <1>3, <2>2, <2>3, <2>4 DEF HoldsBack
  <2>6. HasWritten(e, text, n)
    BY DEF Encodes
  <2>7. HasWritten(d, text, n + 1)
    BY <2>2, <2>3, <2>6 DEF HasWritten, s, r, m
  <2> QED BY <2>5, <2>7 DEF Encodes, d, c
<1>5. CASE ~ (c = l /\ r < MaxRepeat)
  <2> DEFINE u == s \o Run(l, r)
  <2>1. Escaped(c) = << c >>
    BY <1>1 DEF Escaped, Plain
  <2>2. d = [stream |-> u \o << c >>, last_char |-> c, repeat |-> 0]
    BY <1>1, <1>5, <2>1 DEF Push
  <2>3. d.stream = u \o << c >> /\ d.last_char = c /\ d.repeat = 0
    <3> DEFINE w == u \o << c >>
    <3> HIDE DEF d, w
    <3> QED BY <2>2 DEF w
  <2> HIDE DEF d
  <2>4. HoldsBack(d, text, n + 1)
    <3>1. Repeats(text, n + 1, 0)
      BY DEF Repeats
    <3> QED BY <1>3, <2>3, <3>1 DEF HoldsBack, c
  <2>5. /\ u \in Seq(Nat) /\ Clean(u)
        /\ \A body \in Seq(Nat) : \A reader :
               Extends(body, u) /\ Reads(reader, body) => reader[Len(u)] = Reader(text, n)
    <3>1. n \in 0 .. Len(text)
      OBVIOUS
    <3> QED BY <3>1, WritesRun
  <2> HIDE DEF u
  <2>6. << c >> \in Seq(Nat) /\ Clean(<< c >>) /\ Len(<< c >>) = 1 /\ << c >>[1] = c
    BY <1>1 DEF Clean, Plain, Special
  <2>7. Clean(u \o << c >>) /\ Len(u \o << c >>) = Len(u) + 1
    BY <2>5, <2>6, CleanConcat, ConcatProperties
  <2>8. ASSUME NEW body \in Seq(Nat), NEW reader,
               Extends(body, u \o << c >>), Reads(reader, body)
        PROVE  reader[Len(u) + 1] = Reader(text, n + 1)
    <3> DEFINE t == << c >>
    <3>1. t \in Seq(Nat) /\ Len(t) = 1 /\ t[1] = c
      BY <2>6
    <3>2. Extends(body, u \o t)
      BY <2>8
    <3> HIDE DEF t
    <3>3. Extends(body, u) /\ HasAt(body, Len(u), t)
      BY <2>5, <3>1, <3>2, ExtendsConcat
    <3> DEFINE k == Len(u)
    <3>4. k \in Nat
      BY <2>5
    <3>5. reader[k] = Reader(text, n)
      BY <2>5, <2>8, <3>3
    <3> HIDE DEF k
    <3>6. k + 1 <= Len(body) /\ body[k + 1] = c
      BY <3>1, <3>3 DEF HasAt, k
    <3>7. reader[k + 1] = Expanded(reader[k], body[k + 1])
      BY <2>8, <3>4, <3>6, ReadsOne
    <3>8. Expanded(Reader(text, n), text[n + 1]) = Reader(text, n + 1)
      BY ReadsCharacter
    <3> QED BY <3>5, <3>6, <3>7, <3>8 DEF c, k
  <2>9. HasWritten(d, text, n + 1)
    <3>1. (n + 1) - d.repeat = n + 1
      BY <2>3
    <3> QED BY <2>3, <2>7, <2>8, <3>1 DEF HasWritten
  <2> QED BY <2>4, <2>9 DEF Encodes, d, c
<1> QED BY <1>4, <1>5

(***************************************************************************)
(* Packet_encoder (packet.cpp:175-238) against a reader of the protocol:   *)
(* a text of any length, without `#', `$', `*', `}' and NUL, comes back as *)
(* it was, and no character of the body ends the packet or begins one.     *)
(* By induction on the text: the run that the encoder holds back is the    *)
(* only part of the text so far that GDB has not read.                     *)
(***************************************************************************)
THEOREM EncodingRoundTrips ==
    ASSUME NEW text \in Seq(Plain)
    PROVE  /\ Encode(text) \in Seq(Nat) /\ Clean(Encode(text))
           /\ Expand(Encode(text)) = text
<1> DEFINE n == Len(text)
<1>1. text \in Seq(Nat) /\ n \in Nat
  <2>1. \A i \in 1 .. Len(text) : text[i] \in Nat
    BY DEF Plain
  <2> QED BY <2>1
<1>2. PICK encoder :
          /\ Encode(text) = encoder[n].stream \o Run(encoder[n].last_char, encoder[n].repeat)
          /\ encoder[0] = NewEncoder
          /\ \A i \in 1 .. n : encoder[i] = Push(encoder[i - 1], text[i])
  BY <1>1, EncoderUnfolds
<1> DEFINE S == {k \in Nat : k <= n => Encodes(encoder[k], text, k)}
<1>3. 0 \in S
  BY <1>2, EncodesNothing
<1>4. ASSUME NEW k \in Nat, k \in S PROVE k + 1 \in S
  <2> SUFFICES ASSUME k + 1 <= n PROVE Encodes(encoder[k + 1], text, k + 1)
    OBVIOUS
  <2>1. k \in 0 .. Len(text) - 1 /\ k + 1 \in 1 .. n /\ (k + 1) - 1 = k
    BY <1>1
  <2>2. Encodes(encoder[k], text, k)
    BY <1>4, <2>1
  <2>3. encoder[k + 1] = Push(encoder[k], text[k + 1])
    BY <1>2, <2>1
  <2> QED BY <2>1, <2>2, <2>3, PushEncodes
<1>5. Encodes(encoder[n], text, n)
  <2>1. Nat \subseteq S
    <3> HIDE DEF S
    <3> QED BY <1>3, <1>4, SetInduction
  <2> QED BY <1>1, <2>1
<1> DEFINE e == encoder[n]
           body == e.stream \o Run(e.last_char, e.repeat)
<1>6. /\ body \in Seq(Nat) /\ Clean(body)
      /\ \A b \in Seq(Nat) : \A reader :
             Extends(b, body) /\ Reads(reader, b) => reader[Len(body)] = Reader(text, n)
  <2>1. n \in 0 .. Len(text) /\ Encodes(e, text, n)
    BY <1>1, <1>5
  <2> HIDE DEF e
  <2> QED BY <2>1, WritesRun
<1>7. Encode(text) = body
  BY <1>2
<1> HIDE DEF body
<1>8. PICK reader : Expand(body) = reader[Len(body)].text /\ Reads(reader, body)
  BY <1>6, ReaderUnfolds
<1>9. Extends(body, body)
  BY <1>6 DEF Extends
<1>10. Expand(body) = Prefix(text, n)
  BY <1>6, <1>8, <1>9 DEF Reader
<1>11. Prefix(text, n) = text
  BY <1>1, PrefixType
<1> QED BY <1>6, <1>7, <1>10, <1>11

-----------------------------------------------------------------------------
HexDigits == (48 .. 57) \cup (97 .. 102)

LEMMA DigitsDecode ==
    ASSUME NEW d \in 0 .. 15
    PROVE  HexDigit(d) \in HexDigits /\ Digit(HexDigit(d)) = d
  BY DEF HexDigit, Digit, HexDigits

LEMMA DigitsArePlain == HexDigits \subseteq Plain /\ ErrorText \in Seq(Plain)
<1>1. HexDigits \subseteq Plain /\ 69 \in Plain
  BY DEF HexDigits, Plain, Special, Star, Dollar, Brace, Hash
<1>2. 48 \in HexDigits
  BY DEF HexDigits
<1> QED BY <1>1, <1>2 DEF ErrorText

(* The digits of a byte are the quotient and the remainder. *)
LEMMA BytesDecode ==
    ASSUME NEW b \in 0 .. 255
    PROVE  b \div 16 \in 0 .. 15 /\ b % 16 \in 0 .. 15 /\ 16 * (b \div 16) + (b % 16) = b
  OBVIOUS

LEMMA HexTextMeaning ==
    ASSUME NEW data \in Seq(0 .. 255), data # << >>
    PROVE  /\ HexText(data) \in Seq(HexDigits) /\ Len(HexText(data)) = 2 * Len(data)
           /\ \A i \in 1 .. Len(data) :
                  /\ HexText(data)[2 * i - 1] = HexDigit(data[i] \div 16)
                  /\ HexText(data)[2 * i] = HexDigit(data[i] % 16)
<1> DEFINE n == Len(data)
           half(i) == (i + 1) \div 2
           h(i) == HexDigit(IF i % 2 = 1 THEN data[half(i)] \div 16
                                         ELSE data[half(i)] % 16)
           text == [i \in 1 .. 2 * n |-> h(i)]
<1>1. HexText(data) = text
  BY DEF HexText
<1>2. n \in Nat /\ 2 * n \in Nat
  OBVIOUS
<1>3. ASSUME NEW i \in 1 .. 2 * n PROVE h(i) \in HexDigits
  <2>1. half(i) \in 1 .. n
    BY <1>2
  <2> DEFINE b == data[half(i)]
  <2>2. b \in 0 .. 255
    <3> HIDE DEF half
    <3> QED BY <2>1, ElementOfSeq
  <2> HIDE DEF b, half
  <2>3. b \div 16 \in 0 .. 15 /\ b % 16 \in 0 .. 15
    BY <2>2, BytesDecode
  <2> QED BY <2>3, DigitsDecode DEF b
<1>4. ASSUME NEW i \in 1 .. n
      PROVE  /\ text[2 * i - 1] = HexDigit(data[i] \div 16)
             /\ text[2 * i] = HexDigit(data[i] % 16)
  <2>1. /\ 2 * i - 1 \in 1 .. 2 * n /\ 2 * i \in 1 .. 2 * n
        /\ half(2 * i - 1) = i /\ half(2 * i) = i
        /\ (2 * i - 1) % 2 = 1 /\ (2 * i) % 2 = 0
    BY <1>2
  <2> HIDE DEF half
  <2>2. text[2 * i - 1] = h(2 * i - 1) /\ text[2 * i] = h(2 * i)
    <3> HIDE DEF h
    <3> QED BY <2>1
  <2> HIDE DEF text
  <2> QED BY <2>1, <2>2
<1> HIDE DEF h
<1>5. text \in Seq(HexDigits) /\ Len(text) = 2 * n
  BY <1>2, <1>3
<1> HIDE DEF text
<1> QED BY <1>1, <1>4, <1>5

LEMMA RepliesInDigits ==
    ASSUME NEW data \in Seq(0 .. 255)
    PROVE  HexText(data) \in Seq(Plain) /\ BytesOf(HexText(data)) = data
<1>1. CASE data = << >>
  <2>1. HexText(data) = ErrorText
    BY <1>1 DEF HexText
  <2>2. BytesOf(ErrorText) = << >>
    BY DEF BytesOf
  <2> QED BY <1>1, <2>1, <2>2, DigitsArePlain
<1>2. CASE data # << >>
  <2> DEFINE text == HexText(data)
             n == Len(data)
             byte(i) == 16 * Digit(text[2 * i - 1]) + Digit(text[2 * i])
  <2>1. /\ text \in Seq(HexDigits) /\ Len(text) = 2 * n
        /\ \A i \in 1 .. n : /\ text[2 * i - 1] = HexDigit(data[i] \div 16)
                             /\ text[2 * i] = HexDigit(data[i] % 16)
    BY <1>2, HexTextMeaning
  <2> HIDE DEF text
  <2>2. n \in Nat /\ Len(text) \div 2 = n /\ Len(text) # 3
    BY <2>1
  <2>3. text # ErrorText
    <3>1. Len(ErrorText) = 3
      BY DEF ErrorText
    <3> QED BY <2>2, <3>1
  <2>4. BytesOf(text) = [i \in 1 .. n |-> byte(i)]
    <3>1. BytesOf(text) = [i \in 1 .. Len(text) \div 2 |-> byte(i)]
      BY <2>3 DEF BytesOf
    <3> HIDE DEF byte
    <3> QED BY <2>2, <3>1
  <2>5. ASSUME NEW i \in 1 .. n PROVE byte(i) = data[i]
    <3> DEFINE b == data[i]
    <3>1. b \in 0 .. 255
      BY ElementOfSeq
    <3> HIDE DEF b
    <3>2. /\ b \div 16 \in 0 .. 15 /\ b % 16 \in 0 .. 15
          /\ 16 * (b \div 16) + (b % 16) = b
      BY <3>1, BytesDecode
    <3> DEFINE q == b \div 16
               r == b % 16
    <3>3. Digit(HexDigit(q)) = q /\ Digit(HexDigit(r)) = r
      BY <3>2, DigitsDecode
    <3>4. byte(i) = 16 * q + r
      BY <2>1, <3>3 DEF b
    <3> QED BY <3>2, <3>4 DEF b
  <2>6. [i \in 1 .. n |-> byte(i)] = data
    <3>1. data = [i \in 1 .. n |-> data[i]]
      OBVIOUS
    <3> HIDE DEF byte
    <3> QED BY <2>5, <3>1
  <2>7. text \in Seq(Plain)
    <3>1. \A i \in 1 .. Len(text) : text[i] \in Plain
      BY <2>1, DigitsArePlain
    <3> QED BY <2>1, <3>1
  <2> QED BY <2>4, <2>6, <2>7 DEF text
<1> QED BY <1>1, <1>2

(* What a read that succeeds answers is a word. *)
LEMMA AnswersAreWords ==
    ASSUME NEW m \in Contents, NEW a \in Address, Succeeds(Read(m, a))
    PROVE  Read(m, a).data \in Word
<1> DEFINE word == Answer(WordAt(m, a))
           page == PageOf(a)
<1>1. Read(m, a) =
          CASE page \notin Ram \cup Rom \cup Peripheral -> Failed("Out_of_range")
            [] page \in Ram \cup Rom /\ Aligned(a) -> word
            [] page \in Peripheral /\ a \in DOMAIN register -> Answer(register[a])
            [] page \in Peripheral /\ Aligned(a) /\ a \notin DOMAIN register ->
                   Failed("Access_fault")
            [] OTHER -> Failed("Unaligned")
  BY DEF Read
<1>2. /\ ~ Succeeds(Failed("Out_of_range")) /\ ~ Succeeds(Failed("Unaligned"))
      /\ ~ Succeeds(Failed("Access_fault"))
  BY DEF Succeeds, Failed
<1>3. page \in Ram \cup Rom /\ Aligned(a) => Read(m, a).data \in Word
  BY WordType
<1>4. CASE page \in Ram \cup Rom
  <2>1. Aligned(a)
    BY <1>4, ReadFails
  <2> QED BY <1>3, <1>4, <2>1
<1>5. CASE page \notin Ram \cup Rom
  <2> HIDE DEF word, page
  <2>1. page \in Peripheral /\ a \in DOMAIN register /\ Read(m, a) = Answer(register[a])
    BY <1>1, <1>2, <1>5
  <2>2. register[a] \in Word
    BY <2>1, MemoryAssumption
  <2> QED BY <2>1, <2>2 DEF Answer
<1> QED BY <1>4, <1>5

LEMMA BytesAreRead ==
    ASSUME NEW m \in Contents, NEW a \in Address, NEW length \in Nat
    PROVE  handle_mem_read(m, a, length) \in Seq(0 .. 255)
<1> DEFINE n == BytesRead(m, a, length)
           byte(i) == Read(m, Front(a, i - 1)).data[At(a, i - 1) % 4]
<1>1. handle_mem_read(m, a, length) = [i \in 1 .. n |-> byte(i)]
  BY DEF handle_mem_read
<1>2. n \in 0 .. length /\ \A i \in 0 .. n - 1 : Succeeds(Read(m, Front(a, i)))
  BY BytesReadMeaning
<1> HIDE DEF n
<1>3. ASSUME NEW i \in 1 .. n PROVE byte(i) \in 0 .. 255
  <2> DEFINE j == i - 1
  <2>1. j \in Nat /\ j \in 0 .. n - 1
    BY <1>2
  <2> HIDE DEF j
  <2>2. At(a, j) \in Address /\ At(a, j) % 4 \in Lane
    BY <2>1, AtType, AlignedDownType
  <2>3. Front(a, j) \in Address
    BY <2>2, AlignedDownType DEF Front
  <2>4. Read(m, Front(a, j)).data \in Word
    BY <1>2, <2>1, <2>3, AnswersAreWords
  <2>5. Read(m, Front(a, j)).data[At(a, j) % 4] \in Byte
    BY <2>2, <2>4 DEF Word
  <2>6. Byte \subseteq 0 .. 255
    BY MemoryAssumption
  <2> QED BY <2>5, <2>6 DEF j
<1> HIDE DEF byte
<1>4. [i \in 1 .. n |-> byte(i)] \in Seq(0 .. 255)
  BY <1>2, <1>3
<1> QED BY <1>1, <1>4

(***************************************************************************)
(* Whatever the memory holds, GDB gets the bytes that handle_mem_read      *)
(* collected, of any length asked for, and the packet ends where it should *)
(* (packet.cpp:175-238, emulator-debug.cpp:106-126): the reply is a text   *)
(* of hex digits, or E00, and of no special character.                     *)
(***************************************************************************)
THEOREM RepliesRoundTrip == Spec => []RepliesDecode
<1>1. TypeOK => RepliesDecode
  <2> SUFFICES ASSUME TypeOK, NEW a \in Address, NEW length \in Lengths
               PROVE  LET data == handle_mem_read(memory, a, length)
                          body == Encode(HexText(data))
                      IN  /\ \A i \in DOMAIN body : body[i] \notin {Hash, Dollar}
                          /\ BytesOf(Expand(body)) = data
    BY DEF RepliesDecode
  <2> DEFINE data == handle_mem_read(memory, a, length)
             body == Encode(HexText(data))
  <2>1. data \in Seq(0 .. 255)
    <3>1. memory \in Contents /\ length \in Nat
      BY LengthsAssumption DEF TypeOK
    <3> QED BY <3>1, BytesAreRead
  <2> HIDE DEF data
  <2>2. HexText(data) \in Seq(Plain) /\ BytesOf(HexText(data)) = data
    BY <2>1, RepliesInDigits
  <2>3. body \in Seq(Nat) /\ Clean(body) /\ Expand(body) = HexText(data)
    BY <2>2, EncodingRoundTrips
  <2> HIDE DEF body
  <2>4. \A i \in DOMAIN body : body[i] \notin {Hash, Dollar}
    BY <2>3 DEF Clean
  <2>5. BytesOf(Expand(body)) = data
    BY <2>2, <2>3
  <2> QED BY <2>4, <2>5 DEF body, data
<1> QED BY <1>1, TypeCorrect, PTL
=============================================================================
