---------------------------- MODULE DebugMemory -----------------------------
(***************************************************************************)
(* The debugger's way to the memory: the handlers of the `m' and `M'       *)
(* commands (main/src/emulator-debug.cpp) and the byte accessor that the   *)
(* conditions of breakpoints use (lib/gdb-stub/accessor.cpp).  Unlike the  *)
(* load/store unit, the handlers do not align the addresses they pass on.  *)
(***************************************************************************)
EXTENDS Memory

(* iota over u32: the address after the last one is 0. *)
At(a, i) == (a + i) % AddressSpace

(***************************************************************************)
(* handle_mem_read cuts the range into pieces that end at word boundaries, *)
(* reads a word at the first address of each piece, and stops at a piece   *)
(* that cannot be read.  The i-th byte lies in the piece that begins at    *)
(* Front(a, i): only the first one can begin unaligned.                    *)
(***************************************************************************)
Front(a, i) == IF i < 4 - (a % 4) THEN a ELSE AlignedDown(At(a, i))

BytesRead(m, a, length) ==
    CHOOSE n \in 0 .. length :
        /\ \A i \in 0 .. n - 1 : Succeeds(Read(m, Front(a, i)))
        /\ n < length => ~ Succeeds(Read(m, Front(a, n)))

handle_mem_read(m, a, length) ==
    [i \in 1 .. BytesRead(m, a, length) |->
        Read(m, Front(a, i - 1)).data[At(a, i - 1) % 4]]

(* One byte of handle_mem_write, in its lane, at its own address. *)
WriteByte(m, a, byte) ==
    Write(m, a, [i \in Lane |-> IF i = a % 4 THEN byte ELSE 0], {a % 4})

handle_mem_writeUnchecked(m, a, data) ==   \* mutant: only the first result counts
    IF data = << >> THEN [error |-> "none", memory |-> m]
    ELSE WriteByte(m, a, data[1])

(***************************************************************************)
(* handle_mem_write goes on byte by byte until one is refused; what is     *)
(* written by then stays written.                                          *)
(***************************************************************************)
handle_mem_write(m, a, data) ==
    LET after[n \in 0 .. Len(data)] ==
            IF n = 0 THEN [error |-> "none", memory |-> m]
            ELSE IF Succeeds(after[n - 1])
                 THEN WriteByte(after[n - 1].memory, At(a, n - 1), data[n])
                 ELSE after[n - 1]
    IN  after[Len(data)]

(* Memory_accessor aligns its addresses. *)
AccessorReads(m, a) == Read(m, AlignedDown(a)).data[a % 4]

-----------------------------------------------------------------------------
(* Properties *)

(***************************************************************************)
(* What the debugger reads of the program's memory is what it holds: an    *)
(* initial segment of the bytes asked for (emulator-debug.cpp:108-126),    *)
(* all of them from a word boundary within RAM and ROM, and none at all    *)
(* from any other address.  A condition of a breakpoint sees every byte.   *)
(***************************************************************************)
DebuggerReadsMemory(lengths) ==
    \A a \in Backed :
        /\ AccessorReads(memory, a) = memory[a]
        /\ \A length \in lengths :
               LET data == handle_mem_read(memory, a, length)
               IN  /\ \A i \in 1 .. Len(data) :
                          At(a, i - 1) \in Backed => data[i] = memory[At(a, i - 1)]
                   /\ Aligned(a) /\ (\A i \in 0 .. length - 1 : At(a, i) \in Backed) =>
                          Len(data) = length
                   /\ ~ Aligned(a) => data = << >>

(***************************************************************************)
(* A write of the debugger (emulator-debug.cpp:128-144), to any address    *)
(* and over the end of the address space, changes an initial segment of    *)
(* its range and nothing else, and answers OK only when the segment is the *)
(* range.  That is never so for more than one byte: the second one lies at *)
(* an address that is not aligned.  A byte at a word boundary in RAM is    *)
(* always written.                                                         *)
(***************************************************************************)
DebuggerWritesAPrefix(Data) ==
    \A a \in Address, data \in Data :
        LET after == handle_mem_write(memory, a, data)
            position(b) == ((b - a) % AddressSpace) + 1
        IN  /\ \E n \in 0 .. Len(data) :
                   /\ after.memory = [b \in Backed |->
                          IF position(b) <= n THEN data[position(b)] ELSE memory[b]]
                   /\ Succeeds(after) => n = Len(data) \/ PageOf(a) \in Peripheral
            /\ Succeeds(after) => Len(data) <= 1
            /\ Len(data) = 1 /\ Aligned(a) /\ PageOf(a) \in Ram => Succeeds(after)
=============================================================================
