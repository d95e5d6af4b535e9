------------------------------- MODULE Memory -------------------------------
(***************************************************************************)
(* The memory and those who access it: Block_memory behind the address map *)
(* of Platform::Memory, the load/store unit of the CPU, and the debugger's *)
(* `m' and `M' commands.  An access is an operator on a memory, so that    *)
(* its answer and its effect can be compared with those of a plain array   *)
(* of bytes.  Words are four bytes, the least significant one first, as on *)
(* the little-endian hosts that bit_cast and byte_ptr assume.              *)
(*                                                                         *)
(* Block_memory allocates and fills 64 KiB pages when they are first       *)
(* touched.  What a page will be filled with is chosen in Init here, which *)
(* no access can tell from a choice at the first touch.                    *)
(***************************************************************************)
EXTENDS Integers, Sequences

CONSTANTS
    PageBytes,          \* bytes of a page of the fetch cache, 4096 in the code
    AddressSpace,       \* number of addresses, 2^32 in the code
    Ram, Rom,           \* page numbers
    Peripheral,         \* pages of the UART and the clock
    rom_init_data,      \* the flash image
    register,           \* what the readable registers of the devices hold
    writable,           \* the addresses of the writable ones
    Byte,               \* the byte values in use, among 0 .. 255
    FillByte            \* those that the fill policy may leave in RAM

Lane == 0 .. 3
Word == [Lane -> Byte]
Address == 0 .. AddressSpace - 1
Page == 0 .. (AddressSpace \div PageBytes) - 1
PageOf(a) == a \div PageBytes
Aligned(a) == a % 4 = 0
AlignedDown(a) == a - (a % 4)

ASSUME MemoryAssumption ==
    /\ PageBytes \in Nat \ {0} /\ PageBytes % 4 = 0
    /\ AddressSpace \in Nat \ {0} /\ AddressSpace % PageBytes = 0
    /\ Ram \subseteq Page /\ Rom \subseteq Page /\ Peripheral \subseteq Page
    /\ Ram \cap Rom = {} /\ (Ram \cup Rom) \cap Peripheral = {}
    /\ Byte \subseteq 0 .. 255 /\ {0, 255} \subseteq Byte
    /\ FillByte \subseteq Byte /\ FillByte # {}
    /\ DOMAIN register \cup writable \subseteq
           {a \in Address : Aligned(a) /\ PageOf(a) \in Peripheral}
    /\ \A a \in DOMAIN register : register[a] \in Word

Backed == {a \in Address : PageOf(a) \in Ram \cup Rom}
InRom == {a \in Address : PageOf(a) \in Rom}
Contents == [Backed -> Byte]

ASSUME ImageAssumption == rom_init_data \in [InRom -> Byte]

VARIABLE memory         \* what the bytes of RAM and ROM hold

(* fill_data copies the flash image, then the ROM is locked. *)
MemoryInit ==
    \E fill \in [Backed \ InRom -> FillByte] :
        memory = [b \in Backed |-> IF b \in InRom THEN rom_init_data[b] ELSE fill[b]]

ZeroWord == [i \in Lane |-> 0]
Answer(w) == [error |-> "none", data |-> w]
Failed(e) == [error |-> e, data |-> ZeroWord]
Succeeds(answer) == answer.error = "none"

WordAt(m, a) == [i \in Lane |-> m[a + i]]

-----------------------------------------------------------------------------
(* Block_memory and Platform::Memory *)

(***************************************************************************)
(* A device has 256 bytes and rejects those without a register; the rest   *)
(* of its page is out of range in the code and rejected with the same      *)
(* error here, a difference that none of the callers makes.                *)
(***************************************************************************)

Read(m, a) ==
    CASE PageOf(a) \notin Ram \cup Rom \cup Peripheral -> Failed("Out_of_range")
      [] PageOf(a) \in Ram \cup Rom /\ Aligned(a) -> Answer(WordAt(m, a))
      [] PageOf(a) \in Peripheral /\ a \in DOMAIN register -> Answer(register[a])
      [] PageOf(a) \in Peripheral /\ Aligned(a) /\ a \notin DOMAIN register ->
             Failed("Access_fault")
      [] OTHER -> Failed("Unaligned")

(* The memory after a write that reaches the bytes of `mask'. *)
Overlaid(m, a, data, mask) ==
    [b \in Backed |-> IF b - a \in mask THEN data[b - a] ELSE m[b]]

WriteErrorUnlocked(a, mask) ==   \* mutant: the ROM is not locked
    IF PageOf(a) \in Ram \cup Rom /\ Aligned(a) THEN "none" ELSE "Out_of_range"

(***************************************************************************)
(* Block_memory::write answers for a locked ROM before it looks at the     *)
(* mask, and for an empty mask before it looks at the alignment.           *)
(***************************************************************************)
WriteError(a, mask) ==
    CASE PageOf(a) \notin Ram \cup Rom \cup Peripheral -> "Out_of_range"
      [] PageOf(a) \in Rom -> "Access_fault"
      [] PageOf(a) \in Ram -> IF mask = {} \/ Aligned(a) THEN "none" ELSE "Unaligned"
      [] OTHER -> CASE ~ Aligned(a) -> "Unaligned"
                    [] a \in writable -> "none"
                    [] OTHER -> "Access_fault"

Write(m, a, data, mask) ==
    [error  |-> WriteError(a, mask),
     memory |-> IF WriteError(a, mask) = "none"
                THEN Overlaid(m, a, data, mask) ELSE m]

ReadPage(m, p) ==
    CASE p \in Ram \cup Rom ->
             [error |-> "none",
              data  |-> [k \in 0 .. PageBytes - 1 |-> m[p * PageBytes + k]]]
      [] p \in Peripheral -> Failed("Not_supported")
      [] OTHER -> Failed("Out_of_range")

-----------------------------------------------------------------------------
(* Load_store_module *)

get_size ==
    [Load_byte |-> 1, Load_halfword |-> 2, Load_word |-> 4,
     Load_byte_unsigned |-> 1, Load_halfword_unsigned |-> 2,
     Store_byte |-> 1, Store_halfword |-> 2, Store_word |-> 4]

LoadFunct == {"Load_byte", "Load_halfword", "Load_word",
              "Load_byte_unsigned", "Load_halfword_unsigned"}
StoreFunct == {"Store_byte", "Store_halfword", "Store_word"}
SignedFunct == {"Load_byte", "Load_halfword"}

is_aligned(a, funct) == a % get_size[funct] = 0

ShiftedLeft(w, bytes) == [i \in Lane |-> IF i >= bytes THEN w[i - bytes] ELSE 0]
ShiftedRight(w, bytes) == [i \in Lane |-> IF i + bytes \in Lane THEN w[i + bytes] ELSE 0]

ExtendedFromByte(w, funct) ==   \* mutant: the sign is that of the first byte
    [i \in Lane |->
        IF i < get_size[funct] THEN w[i]
        ELSE IF funct \in SignedFunct /\ w[0] >= 128
             THEN 255 ELSE 0]

(* The casts to i8, i16, u8 and u16 and back to 32 bits. *)
Extended(w, funct) ==
    [i \in Lane |->
        IF i < get_size[funct] THEN w[i]
        ELSE IF funct \in SignedFunct /\ w[get_size[funct] - 1] >= 128
             THEN 255 ELSE 0]

Load(m, funct, a) ==
    LET answer == Read(m, AlignedDown(a))
    IN  CASE ~ is_aligned(a, funct) -> Failed("Load_address_misaligned")
          [] is_aligned(a, funct) /\ ~ Succeeds(answer) -> Failed("Load_access_fault")
          [] OTHER -> Answer(Extended(ShiftedRight(answer.data, a % 4), funct))

StoreMask(funct, a) == (a % 4) .. ((a % 4) + get_size[funct] - 1)

Store(m, funct, a, value) ==
    LET w == Write(m, AlignedDown(a), ShiftedLeft(value, a % 4), StoreMask(funct, a))
    IN  CASE ~ is_aligned(a, funct) ->
                 [error |-> "Store_address_misaligned", memory |-> m]
          [] is_aligned(a, funct) /\ w.error \in {"Out_of_range", "Access_fault"} ->
                 [error |-> "Store_access_fault", memory |-> m]
          [] OTHER -> w

-----------------------------------------------------------------------------
(* Properties *)

(***************************************************************************)
(* Seen through the load/store unit, with its aligned addresses, shifts,   *)
(* masks and casts (lib/core/memory.cpp:29-108), the memory is an array of *)
(* bytes: a load answers the bytes from its address on, with zeros or the  *)
(* sign above them, and a store changes these bytes to the low bytes of    *)
(* its value and no other.  An access that is refused changes nothing, and *)
(* the ROM is never changed.                                               *)
(***************************************************************************)
LoadIsExact(funct, a) ==
    LET n == get_size[funct]
        answer == Load(memory, funct, a)
        sign == IF funct \in SignedFunct /\ memory[a + n - 1] >= 128 THEN 255 ELSE 0
    IN  IF a % n = 0 /\ a \in Backed
        THEN /\ Succeeds(answer)
             /\ \A i \in Lane : answer.data[i] = IF i < n THEN memory[a + i] ELSE sign
        ELSE \/ PageOf(a) \in Peripheral
             \/ answer.error = IF a % n = 0 THEN "Load_access_fault"
                                            ELSE "Load_address_misaligned"

StoreIsExact(funct, a, value) ==
    LET n == get_size[funct]
        after == Store(memory, funct, a, value)
    IN  /\ \A b \in Backed :
               after.memory[b] =
                   IF Succeeds(after) /\ b \in a .. a + n - 1
                   THEN value[b - a] ELSE memory[b]
        /\ PageOf(a) \in Ram => (Succeeds(after) <=> a % n = 0)
        /\ PageOf(a) \in Rom => ~ Succeeds(after)

AccessesAreExact(Value) ==
    \A a \in Address :
        /\ \A funct \in LoadFunct : LoadIsExact(funct, a)
        /\ \A funct \in StoreFunct, value \in Value : StoreIsExact(funct, a, value)
=============================================================================
