----------------------------- MODULE InstFetch ------------------------------
(***************************************************************************)
(* Inst_fetch_module (lib/core/memory.cpp): a direct-mapped cache of whole *)
(* pages in front of the memory, filled on a miss and consulted before     *)
(* every instruction.  Stores, of the program or of a debugger, go to the  *)
(* memory and leave the cache alone.  Loads and the debugger's reads have  *)
(* no effect and are compared with the memory in every state.              *)
(***************************************************************************)
EXTENDS DebugMemory

CONSTANTS
    cache_num,          \* entries of the cache, 1024 in the code
    Value,              \* words that are stored
    Data                \* sequences of bytes that a debugger writes

ASSUME CacheAssumption ==
    /\ cache_num \in Nat \ {0}
    /\ Value \subseteq Word
    /\ \A data \in Data : data \in Seq(Byte)

Index == 0 .. cache_num - 1
PageData == [0 .. PageBytes - 1 -> Byte]

VARIABLES
    cache,              \* [valid, address, data] per entry
    stored,             \* history: pages changed since they were last read in
    fenced              \* history: no store since the last fence.i

vars == << memory, cache, stored, fenced >>

TypeOK ==
    /\ memory \in Contents
    /\ cache \in [Index -> [valid : BOOLEAN, address : Page, data : PageData]]
    /\ \A i \in Index : cache[i].valid =>
           cache[i].address \in Ram \cup Rom /\ cache[i].address % cache_num = i
    /\ stored \subseteq Ram
    /\ fenced \in BOOLEAN

(* The data of an entry is not initialised, and no fetch looks at it. *)
Init ==
    /\ MemoryInit
    /\ \E byte \in FillByte :
           cache = [i \in Index |->
                       [valid |-> FALSE, address |-> 0,
                        data |-> [k \in 0 .. PageBytes - 1 |-> byte]]]
    /\ stored = {}
    /\ fenced = FALSE

Entry(p) == p % cache_num

HitAnyTag(p) == cache[Entry(p)].valid   \* mutant

Hit(p) == cache[Entry(p)].valid /\ cache[Entry(p)].address = p

(***************************************************************************)
(* The answer to a fetch.  Where nothing answers it is an access fault;    *)
(* the Not_supported of a peripheral is not among the cases and throws.    *)
(***************************************************************************)
FetchAnswer(pc) ==
    LET p == PageOf(pc)
        page == ReadPage(memory, p)
        word(data) == [i \in Lane |-> data[(pc % PageBytes) + i]]
    IN  CASE ~ Aligned(pc) -> Failed("Inst_address_misaligned")
          [] Aligned(pc) /\ Hit(p) -> Answer(word(cache[Entry(p)].data))
          [] Aligned(pc) /\ ~ Hit(p) /\ Succeeds(page) -> Answer(word(page.data))
          [] Aligned(pc) /\ ~ Hit(p) /\ page.error = "Out_of_range" ->
                 Failed("Inst_access_fault")
          [] OTHER -> Failed("logic_error")

(* read_page succeeds: the entry holds the page, whatever it held before. *)
FetchFill(p) ==
    /\ ~ Hit(p) /\ Succeeds(ReadPage(memory, p))
    /\ cache' = [cache EXCEPT ![Entry(p)] =
                     [valid |-> TRUE, address |-> p, data |-> ReadPage(memory, p).data]]
    /\ stored' = stored \ {p}
    /\ UNCHANGED << memory, fenced >>

FetchFailTagsEntry(p) ==   \* mutant: the entry stays valid, with the new tag
    /\ ~ Hit(p) /\ ~ Succeeds(ReadPage(memory, p))
    /\ cache' = [cache EXCEPT ![Entry(p)].address = p]
    /\ UNCHANGED << memory, stored, fenced >>

(* read_page fails: the entry is lost. *)
FetchFail(p) ==
    /\ ~ Hit(p) /\ ~ Succeeds(ReadPage(memory, p))
    /\ cache' = [cache EXCEPT ![Entry(p)].valid = FALSE]
    /\ UNCHANGED << memory, stored, fenced >>

(* What every way to the memory does to it, and to nothing else. *)
MemoryBecomes(after) ==
    /\ memory' = after
    /\ stored' = stored \cup {PageOf(b) : b \in {b \in Backed : after[b] # memory[b]}}
    /\ fenced' = FALSE
    /\ UNCHANGED cache

ProgramStores ==
    \E funct \in StoreFunct, a \in Address, value \in Value :
        MemoryBecomes(Store(memory, funct, a, value).memory)

DebuggerWrites ==
    \E a \in Address, data \in Data :
        MemoryBecomes(handle_mem_write(memory, a, data).memory)

(***************************************************************************)
(* The decoder marks a fence.i, and CPU_module::execute retires it without *)
(* a look at the mark: fencei() has no caller.                             *)
(***************************************************************************)
FenceI ==
    /\ fenced' = TRUE
    /\ UNCHANGED << memory, cache, stored >>

(* Hits, and fetches from addresses that are not aligned, change nothing. *)
Fetch == \E p \in Page : FetchFill(p) \/ FetchFail(p)

Next == Fetch \/ ProgramStores \/ DebuggerWrites \/ FenceI

Spec == Init /\ [][Next]_vars

-----------------------------------------------------------------------------
(* Properties *)

(***************************************************************************)
(* A fetch answers what the memory holds, for pages that share an entry    *)
(* too and after fetches that failed in between, unless the page has been  *)
(* changed since it was read in; it fails only where there is no memory    *)
(* (lib/core/memory.cpp:133-167).                                          *)
(***************************************************************************)
FetchesAreCurrent ==
    \A pc \in {a \in Address : Aligned(a)} :
        IF pc \in Backed
        THEN \/ PageOf(pc) \in stored /\ Hit(PageOf(pc))
             \/ FetchAnswer(pc) = Answer(WordAt(memory, pc))
        ELSE FetchAnswer(pc).error \in {"Inst_access_fault", "logic_error"}

(***************************************************************************)
(* Whatever the program and the debugger write (emulator-debug.cpp:136,    *)
(* lib/core/memory.cpp:88), no byte of the ROM changes: Platform locks it  *)
(* (platform.cpp:39).                                                      *)
(***************************************************************************)
RomNeverChanges ==
    [][\A b \in Backed : PageOf(b) \in Rom => memory'[b] = memory[b]]_vars

(***************************************************************************)
(* The accesses of the program, and those of the debugger, against plain   *)
(* bytes: see Memory and DebugMemory.                                      *)
(***************************************************************************)
ProgramAccessesAreExact == AccessesAreExact(Value)

DebuggerAccessesArePrefixes ==
    DebuggerReadsMemory(0 .. 6) /\ DebuggerWritesAPrefix(Data)

(***************************************************************************)
(* "Supports base ISA and extensions: `rv32im_zicond_zicsr_zifencei`"      *)
(* (readme.md:9), "Execute `fence.i` on the cache"                         *)
(* (lib/include/core/memory.hpp:121): after a fence.i a fetch sees every   *)
(* store before it.                                                        *)
(***************************************************************************)
FenceMakesStoresVisible ==
    \A pc \in {a \in Backed : Aligned(a)} :
        fenced => FetchAnswer(pc) = Answer(WordAt(memory, pc))
=============================================================================
