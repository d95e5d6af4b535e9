# simple-riscv-emulator in TLA+

A verification project for the emulator in `src/`: TLA+ modules that are read off
its C++ code, configurations with which TLC checks them on small instances, and
theorems that TLAPS checks for every instance. Paths below are relative to `src/`.

## 1. The system

The program runs a 32-bit RISC-V machine (RV32IM, Zicond, Zicsr, machine mode
only) from a flash image. `main()` either calls `Emulator::run`, a loop over
cycles that ends at a captured trap or an infinite loop, or `Emulator_debug::run`,
a GDB stub that serves one TCP connection at a time and runs the machine in a
second thread.

| Component | State | Operations | Talks to |
|---|---|---|---|
| Packet decoder (`lib/gdb-stub/packet.cpp`) | character state, body, first digit, queue of results behind a mutex, an atomic flag | `push`, `pop_packet`, `new_packet_available` | called by the network handler |
| Packet encoder (same file) | last character, repeat count | `encode` | called by `send` |
| Network handler (`lib/gdb-stub/network.cpp`) | acceptor, socket, decoder | `receive` (ACK/NAK and retries), `send` (repeat until ACK), `close` | the host over TCP; the command parser |
| Debug stub (`main/src/emulator-debug.cpp`) | stop points, network handler | `run`, one handler per command, `async_run` with a worker thread and an atomic interrupt flag | network handler; the machine, shared with the worker |
| Clock (`lib/device/peripheral/clock.cpp`) | 64-bit counter and comparator in halves, a latch for each | `read`, `write`, `tick` | the CPU's `mip` |
| CPU (`lib/core/cpu.cpp`, `csr.cpp`, `decode.cpp`, `alu.cpp`, `register-file.cpp`) | pc, registers, CSRs | `execute`, `handle_trap`, `step` | memory interface, fetch cache |
| Fetch cache (`lib/core/memory.cpp`) | 1024 direct-mapped pages | lookup and fill, `fencei` | memory interface |
| Load/store unit (same file) | none | word, half and byte accesses | memory interface |
| Memory (`lib/device/*.cpp`, `main/src/platform.cpp`) | lazily allocated pages, lock of the ROM | `read`, `write`, `read_page` | routed by address |
| Run loop (`main/src/emulator.cpp`) | options, count of instructions | `create`, `tick_one_cycle`, `run` | CPU, clock |
| Stop points, expressions, accessors (`lib/gdb-stub/`) | maps of break- and watchpoints; a stack machine | match, evaluate | CPU and memory, from the worker |
| Command parser, responses, target description | none | text | network handler, debug stub |
| UART, options, printing | none | I/O | |

What makes it correct, part by part:

* decoder: every packet and every error exactly once and in order; in step again at every
  `$`; the flag agrees with the queue;
* network handler and stub: no handler beside a running worker; no response forgotten; every
  command answered, by its own answer; Ctrl-C always leads back;
* clock: 64-bit reads are atomic, unless the debugger reads the counter in between; no
  deadline is missed and none reported early;
* CPU: traps are precise and invisible to the program; the handler is not interrupted; a
  pending interrupt is served;
* memory: for the program an array of bytes; the debugger's writes are prefixes of what it
  asked for; the ROM stays;
* fetch cache: what is fetched is what the memory holds, or held when the page was read in;
* run loop: a run ends for the reason its options name;
* debugger: a run stops where a break- or watchpoint says so and only there, and ends when
  it is interrupted; conditions and arithmetic compute what they mean; a reply arrives as
  the bytes it was made of.

The hard behaviours are the two threads of the stub and everything that can cross
on the wire (a stop, a Ctrl-C, a reconnect), the decoder on damaged input, the
clock that ticks between the halves of an access, and the order in which one cycle
of the CPU decides between a call, an interrupt, a fault and an effect; and the keys of
the map of watchpoints, whose comparison is not the order a map needs. `hazards`
in `PROJECT.json` lists them at their lines.

## 2. The modules

| Module | Models | Extends |
|---|---|---|
| `PacketFormat` | frame, checksum, escapes, `decode_in_buffer` | |
| `PacketStream` | abstract specification: the results that a text stands for | `PacketFormat` |
| `PacketDecoder` | `push` character by character, `pop_packet` in between | `PacketFormat` |
| `DebugStub` | network handler, command loop, `async_run`, worker; any host | |
| `DebugSession` | the stub with a GDB that keeps to the protocol (external) | `DebugStub` |
| `Clock` | registers, latches, tick | |
| `TimerProgram` | a program, one access per cycle, and a debugger that reads | `Clock` |
| `Arithmetic` | words; every operation of the ALU and the branch unit | |
| `Instructions` | decoder, load/store unit, write-back | `Arithmetic` |
| `Cpu` | one cycle: stages, traps, CSRs | `Instructions` |
| `UserProgram` | abstract specification: the program without traps | `Instructions` |
| `Emulator` | `Emulator::run` | `Cpu` |
| `InterruptedProgram` | a run of a program with a trap handler | `Emulator` |
| `Programs` | an assembler, the handler and two programs | |
| `Memory` | address map, `Block_memory`, load/store unit | |
| `DebugMemory` | the debugger's `m` and `M`, the byte accessor | `Memory` |
| `InstFetch` | the fetch cache, with the program's stores and the debugger's writes | `DebugMemory` |
| `PacketEncoder` | run-length encoding of a packet's body, and GDB's reading of it (external) | |
| `DebugReplies` | the way of an `m` reply from the memory to GDB | `InstFetch`, `PacketEncoder` |
| `AddressRange` | the key of the map of watchpoints and its comparison | |
| `StopPoints` | the maps of break- and watchpoints, `Z` and `z`, `check_watchpoint` | `AddressRange` |
| `Expressions` | the bytecode interpreter of conditions | `Arithmetic` |
| `ConditionTrees` | reference: conditions as trees of a forest, their code and their value | `Expressions` |
| `DebuggedMachine` | the stopped and the running machine under GDB's commands | `Cpu`, `StopPoints`, `Expressions` |
| `DebuggedConditions` | what the running machine does of a condition against what its tree means | `DebuggedMachine`, `ConditionTrees` |
| `PacketDecoderProofs`, `MemoryProofs`, `DebugStubProofs`, `TimerProofs` | proofs | `PacketDecoder`, `DebugReplies`, `DebugSession`, `TimerProgram` |
| `MachineProofs`, `ConditionProofs`, `DebuggerProofs` | proofs, each upon the one before | `InterruptedProgram`, `DebuggedConditions` |
| `Induction` | lemmas on recursive functions, of numbers and of the parts of a tree | |
| `MC*` | values for the constants | |

How they correspond to the code:

* **Packet decoder.** `Push(c)` is one iteration of the loop in `push`, one
  disjunct per `case`; `PushResults` is the lambda `push_result`, several calls in
  one iteration taken together, since nothing but the queue's order depends on
  them. `wire` and `taken` are history. Characters are abstract: the code tells
  apart `$`, `#`, three control characters, `}` and the digits, and uses codes in
  the checksum and the escape only.
* **Debug stub.** `pc` names the calls in which the main thread can block: `accept` and
  `read_some` in `receive` (`"receive"` from `run`, `"poll"` from `async_run`), `wait_for`
  (`"wait"`), `write` and `read_some` in `send` (`"send"`, `"await_ack"`) and the destructor
  of the future (`"join"`). Between two of them the code runs without a choice, and that
  stretch is one action. The worker's action is one iteration of `run_until_trap` or
  `run_steps`. Packets carry the connection they came on. `prompt` says whether the machine
  of this behaviour is fast (see Fairness). `inbound` is what is on the wire, `queue` the
  decoder's queue, which `close()` leaves as it is. A write to a peer that has gone is lost
  or throws.
* **Clock.** Every action of `TimerProgram` but the debugger's is `tick_one_cycle`: an
  instruction, then `tick`, in `EndCycle`. The debugger reads either register with
  `handle_mem_read` wherever the program is, which costs no cycle and sets or takes the
  latch that the program uses; `disturbed` is history and says that it has read the
  counter since the program read the high half.
* **CPU.** The seven disjuncts of `Cycle` are the exits of `execute` in their order;
  each takes the trap as `handle_trap` does and may end with the clock raising its
  bit, so that the timer can come in every cycle. What an exit leaves uninitialised
  (`alu_result` on a fetch fault) is any value of `Indeterminate`. Words have `XLEN`
  bits; eight are used, with the positions of all CSR bits as in the code (the
  interrupt bit is the top bit). `mpp` is there where a
  word has its bits. `mcycle`, `minstret` and the high halves are left out.
* **Memory and fetch cache.** An access is an operator from a memory to an answer and
  a memory: `Read`, `Write`, `ReadPage` are those of `Block_memory` behind
  `get_memory`, `Load` and `Store` the load/store unit with its shifts and masks on
  the four lanes of a word, `handle_mem_read` and `handle_mem_write` the debugger's
  handlers. The state is the memory and the cache; what changes it is a fetch that
  misses, a store, a debugger's write. Loads, hits and the debugger's reads change
  nothing, so that their answers are compared with the memory in every state. The
  devices are a set of registers with fixed answers here; the clock has its own
  module.
* **Replies.** `Encode` folds `Push` over the text of a reply, as `internal_encode` does
  over its characters; characters are their codes, because the count of a run is written
  as one.
* **Stop points.** `std::map` is the sequence of its elements with `lower_bound` and
  `emplace` as the standard defines them; `LowerBound` takes the boundary between the elements
  less than the key and the others, and `WatchpointsApart` says that there is only
  one. `parse_Z` and `parse_z` say which handler a type digit selects.
* **Debugged machine.** One turn of the loops `run_until_trap` and `run_steps`, which differ
  in the count, is several actions: `tick_one_cycle`, then `Check`, or `StartEvaluation`,
  one `Evaluate` for each bytecode and `Evaluated`; the interrupt may come between any two
  of them. `result.access` of `Cpu` is the part of `Result` that `check_watchpoint` reads,
  which a cycle that traps leaves as its decoder and ALU made it, or as it was in memory;
  `made` is history: the access to memory that the cycle did make, if any. What conditions
  see (`Seen`) are registers, CSRs, RAM and ROM, not the devices. `handle_reg_write` is both
  handlers, `P` being a sequence of one register. A CSR's number is cut to the twelve bits
  of its address, so that numbers 4096 apart name the same CSR. The thread that runs the
  machine is the only one that touches it: that is `WorkerExclusive` of `DebugStub`. What
  `DebuggedMachine` reports as a reply is what `DebugStub` sends as `stop_reason`.
* **Expressions.** A state is the position, the stack and an outcome. A division by zero
  that the interpreter's check lets through, and the overflow of a signed one, end
  the process on the hosts the emulator is built for (x86): the outcome `"killed"`.
* **Conditions.** What bytecode means is given by trees, which GDB has compiled: operands
  are pushed in their order, as in the repository's test of `10 / 0`
  (`lib/test/gdb-stub/expression.cpp:107`), and nothing is divided by zero. The code takes
  them in the other order, so that a tree in which the order matters does not compute what
  it means; `operands_in_order` shows it. `Orderless` are the trees in which it does not
  (`OrderlessAssumption`: every operation of two operands commutes, or has the same operand
  twice), and what is claimed to hold is claimed of them. `Depth` is the forest, and its
  assumption (`ForestAssumption`) is that parts of a tree are in the forest, with a smaller
  depth, so that code and value can be recursive functions of the depth; TLC computes the
  depths, and which trees are orderless, from the trees in `MCDebugger`. A tree is
  well-formed if its constants, register numbers and widths fit their bytes, and has code if
  that is shorter than the 2^16 bytes an operand of a jump can address.

## 3. What is checked

TLC runs, with their configurations (all `MC*.cfg`):

| Run | Shows | Bounds |
|---|---|---|
| `packet_decoder` | `TypeOK`, `FlagTracksQueue`, `BufferDiscipline`, and that the decoder implements `PacketStream` | 7 characters over an alphabet of one of each class and two digits, buffer of 2 |
| `debug_stub` | `TypeOK`, `WorkerExclusive`, `AcknowledgedOrClosed` | 4 items of any kind, 2 connections, 2 tries, 2 cycles |
| `debug_session` | `ReplyMatchesCommand`, `ExitsOnRequest`; `InterruptStopsWorker`, and `CommandEnds` for a user who presses Ctrl-C in the end | 3 commands of any kind, one Ctrl-C per run, 2 connections, 5 tries as in the code |
| `timer` | types, `ReadIsAtomic` as long as the debugger does not read the counter in between, `ReadIsPast` if it does, `NoSpuriousInterrupt`, `DeadlineIsSeen` | words of 8 values, time 28: three carries; delays 1, 6 and 9 |
| `machine` | types, `KeepsTheContract`, `HandlerMasked`, `PreciseTraps`, `TrapsAreTransparent` (refinement of `UserProgram`), `TimerIsServed`; `StopsForAReason`, which includes that a captured trap's handler never begins | a program with every kind of trap that ends in `j .`; both trap vector modes, three capture modes, both loop options |
| `memory` | types, `FetchesAreCurrent`, `ProgramAccessesAreExact`, `DebuggerAccessesArePrefixes`, `RepliesDecode`, `RomNeverChanges` | 6 pages of a word, 2 entries, bytes 0, 15 and 255, ranges of up to 8 bytes, runs of up to 8 repetitions |
| `debugger` | types, `WatchpointsApart`, `ArithmeticIsExact`, `ConditionsCompute`, `BreakpointsStop`, `WatchpointsStop`, `RunsEnd` | words of 8 bits, nine instructions, 2 commands that edit (14 stop points set or cleared, 6 register writes, one address to resume at) and any number that do not; 54 conditions, 29 of them orderless trees |

Five further runs find a violation each; section 5 says of what.

Why the bounds are enough. The decoder's states are all left and entered within a frame and
the start of the next; seven characters hold an overflow or a complete frame of one
character and two more beginnings, and a buffer of two shows both sides of its limit. The
stub keeps one response, one run and one flag; a stale one must come from the command or the
connection before, so that two connections and four items reach every pair. `debug_session`
has two connections as well; its invariants are claimed for those that begin with nothing
left of the one before, which the history variable `clean` records (see the hazard on
`close()`). Two tries have a first, a last and no other role than five. In `timer` every
access, of the program and of the debugger, falls on every phase of the low word, and there
is room for a read that one carry comes between and a deadline after the next. The program
on the CPU goes round its loop twice, with different outcomes of its branches, and then
stands still under the timer: the run has no bound at all. In `memory` both bytes take part
in every lane, one with the sign and one without; a page has one word, because nothing but
the offset distinguishes the words of a page, and the proofs cover the offset. Ranges of
eight bytes cross a word boundary at every phase, and the reply to one has up to sixteen
equal digits: the runs of 6 and 7 and, with `MaxRepeat` 8, the one that is cut. In
`debugger` two edits put two watchpoints, or a break- and a watchpoint, or a stop point and
a register, next to each other, and a removal after an insertion; a third watchpoint adds
nothing, since the map compares two ranges at a time and the proof covers the rest. The
program divides, compares, loads, stores, traps and starts again, so that the number of
cycles has no bound. `ArithmeticIsExact` and `ConditionsCompute` depend on the machine alone
and are evaluated where it stands still without stop points, after writes of registers too.
The orderless trees are built from every unary operation, every commuting one and the
division of a register by itself, which has a value or none as the program goes on.

`CHECK_DEADLOCK FALSE` stands in the runs of the stub (the emulator exits, or the
host stays silent at its bound), of the timer (time is bounded), of the machine
(`run()` returns) and of the debugger (the process may be killed). Everywhere else
deadlock is checked.

**Fairness.** `WF(Main)` and `WF(CyclePasses)`: two threads of a preemptive
scheduler. The main thread needs a step only when a call of its own can return;
`read_some` and `accept` are not enabled without data or a host. The worker completes
cycles, and nothing makes one of them hit a breakpoint: a run without an end stays
one until its flag is raised. GDB reads what arrives and greets, and the user of
`ImpatientSpec` presses Ctrl-C in the end: `WF(GdbInterrupt)`. `CommandEnds` is claimed
for behaviours in which `prompt` holds: within the 50 ms of `wait_for` the worker, 60 million
instructions per second, obeys a flag or ends a step. Without it a bounded run would be
missed like an unbounded one (`StopIsReported`). `FairSpec` of the machine is
`WF(Run)`: the loop in `run()` goes on until it returns. `DebuggedSpec` has
`WF(Worker)`, the same thread as `WF(CyclePasses)`: a cycle completes, and so does one
bytecode of a condition, but the interrupt never has to come. That a cycle completes is
what `DebugStub` assumes and `RunsEnd` examines: it may not, when the condition of a
breakpoint jumps backwards.

## 4. What is proved

`PacketDecoderProofs`, for every alphabet, coding, buffer size and length:

* `TypeCorrect`: `Spec => []TypeOK`. Types include that no `Internal_error` is ever
  queued, so that decoding never throws.
* `FlagCorrect`: `Spec => []FlagTracksQueue`.
* `BufferCorrect`: `Spec => []BufferDiscipline`.
* `StreamCorrect`: `Spec => StreamSpec`, the refinement of `PacketStream`: whatever the
  interleaving of `push` and `pop_packet`, what comes out is what the text stands for.

The assumptions are those of `PacketFormat` and `PacketDecoder`: the classes of characters
are disjoint where the code compares them with different constants, codes and digit values
are natural numbers. They hold of ASCII.

The argument. `FlagTracksQueue` is inductive with the types. `BufferDiscipline` is with
both: in `Receiving_checksum2` the digit exists because `Receiving_checksum1` has stored
it, so `Decode` is applied to characters and returns a `Result`, which is what the type of
the queue needs; `IInv` is the conjunction. One step of the proof per `case` of `push`,
one for `pop_packet`. That `Checksum` and `Unescaped`, which are recursive functions,
return numbers and bodies rests on `Induction`, a small library about functions defined by
recursion over an initial segment of the naturals, proved without assumptions: the
existence theorem for recursive functions is derived with natural-number induction over
sets, and facts of the form "every value of the recursion is in T" follow.

For the refinement the invariant is `StreamInv`: what has been taken and what is queued
are together what the text so far completes, and (`FrameKnown`) the state, the body and
the digit held are those of the frame that the text has open, which `PacketStream` finds
by looking backwards for the `$` that begins it. `FrameKnown` is needed because the
abstract specification keeps no state but the text: each `case` of `push` is shown to
enqueue what the text with one more character completes.

`MemoryProofs`, for every address map, page size, number of entries, set of bytes, image,
set of stored words and of debugger writes:

* `TypeCorrect`: `Spec => []TypeOK`. A valid entry holds a page of RAM or ROM, under its
  index.
* `FetchCorrect`: `Spec => []FetchesAreCurrent`.
* `RomCorrect`: `Spec => RomNeverChanges`.
* `ProgramCorrect`: `Spec => []ProgramAccessesAreExact`.
* `DebuggerCorrect`: `Spec => []DebuggerAccessesArePrefixes`.
* `RepliesRoundTrip`: `Spec => []RepliesDecode`, for every length asked for and every
  longest run, and `EncodingRoundTrips`: the same of any text without special characters.

The assumptions are those of `Memory`, `InstFetch` and `PacketEncoder`: kinds of pages are
disjoint, pages are whole words and the address space whole pages. `FetchesAreCurrent`
speaks of the answer to the next fetch; what is inductive is `Coherent`: a valid entry
agrees with its page, byte by byte, as long as the page is not in `stored`. A fill
establishes it and, because the entry's index determines which page it replaces, leaves the
other entries' claims alone; a store either changes no byte of the page or puts the page
into `stored`. That no write leaves the page of its address, the fact behind `RomCorrect`,
rests on lemmas about division with a variable page size, and for the loop in
`handle_mem_write` on `Induction`.

`ProgramCorrect` and `DebuggerCorrect` follow from the types alone, because they speak of
every access that could be made in a state. `LoadExact` and `StoreExact` take the shifts and
masks of the load/store unit apart for each width and each offset in a word.
`DebuggerAccessesArePrefixes` compares what the debugger's loops did with what the memory
held; `ReadsAreExact` and `WritesAreExact` follow the loops with an invariant over the
number of bytes done, also past the end of the address space, where the address wraps.

The encoder and GDB's end of the wire are both recursive functions of the length, and
`EncodingRoundTrips` is an induction over the text that relates the two (`Encodes`): the
encoder holds back a run of the last character (`HoldsBack`), and in any body that begins
with what it has written GDB has read the text up to that run and is between two
characters (`HasWritten`). `ReadsRun` goes through the forms of a run, among them the six
and seven repetitions that the code splits in two so as not to write `#` or `$`. Special
characters are excluded because `push_repeat` does not escape a run of one or two of them
(`lib/gdb-stub/packet.cpp:183`); no reply the stub sends contains one, and a reply to `m`
is of digits (`RepliesInDigits`).

`DebugStubProofs`, for every number of tries, items, connections and cycles and every set
of kinds of item the host may send:

* `ExclusiveCorrect`: `Spec => []WorkerExclusive`. The statement is inductive as it
  stands: a worker starts on the way to `"wait"`, and of the places the main thread goes
  on to from there, only those that take the result (`WaitReady`) or join the thread
  (`JoinWorker`) leave the part of `pc` in which a worker may live.
* `AcknowledgementCorrect`: `Spec => AcknowledgedOrClosed`. No invariant is needed: each
  of the four actions that leave `"await_ack"` has taken an ACK, closes, or sends again.
* `TypeCorrect`: `Spec => []TypeOK`. The types of what the stub sends need that a run in
  progress has a connection (`RunKnown`), that a finished one has a reason, that an open
  socket has a number, and that one more host is let in only while numbers last; `IInv`
  adds these.

The assumptions are `BoundsAssumption` (the code's limit of tries and the model's bounds
are positive) and `HostAssumption` (the host sends what has a kind). Nothing is assumed of
the host's behaviour, so the theorems hold beside any client.

The same module has the session with a GDB that keeps to the protocol, for any number of
commands, connections, Ctrl-Cs in a run, tries and cycles (`GdbAssumption` says that what
GDB sends are commands and that the bound on Ctrl-Cs is a number):

* `RepliesCorrect`: `SessionSpec => []ReplyMatchesCommand`.
* `ExitsCorrect`: `SessionSpec => []ExitsOnRequest`.

These two need to know what is on the wire. The invariant is `SessionInv`: the types of both
sides, who can have sent what (`Channels`), which side can be connected (`Linked`), and
`InStep`. `InStep` says, for a connection that begins clean, at which point of the exchange
the two sides stand: between two commands (`Idle`, which puts the last ACK and the Ctrl-Cs
that came too late in front of the next command), in a run (`Running`), with a response to
be sent (`Sending`) or out (`Answered`). The delicate case is a Ctrl-C that crosses the stop
reply: it stays in front of the ACK, costs the connection, and so cannot be taken for the
interrupt of a later run.

`TimerProofs`, for registers of every width (TLC has three bits, the code 32), every bound
on the time and every set of delays:

* `TypeCorrect`: `Spec => []ProgramTypeOK`.
* `AtomicityCorrect`: `Spec => []ReadIsAtomic`. `ReadIsAtomic` excepts reads that the debugger
  has come into by reading the counter: the latch is one.
* `ReadsArePast`: `Spec => []ReadIsPast`, what is left of such a read: it is no time to come, and
  less than a carry behind the first load.
* `NoneIsSpurious` and `NoneIsMissed`: `Spec => []NoSpuriousInterrupt`, `Spec =>
  []DeadlineIsSeen`.

The assumptions are `WordSizeAssumption` and `ProgramAssumption`: the bound on the time is
below the counter's range, and a deadline stays below the largest high half. `LatchHolds`
says that the latch, if the debugger has not touched it, completes the high half to the
value that was read, and that if it has, what the latch would complete it to lies behind;
`ValueHolds` says the same of the value put together; `DeadlineSet` that the comparator is
the deadline after the third store, for which `Split` puts the quotient and the remainder
together; `PendingIsRight` that from the clearing of the bit on it equals `timer >
deadline`. The proof shows that the order "all three stores, then clear" alone makes the bit
right: that the comparator stands at its maximum in between is not used.

The operations (the first part of `MachineProofs`), for every width of at least eight
bits:

* `OperationsAreExact`: `\A x, y \in Word : Exact(x, y)`.

The assumptions are `XLENAssumption` and `DoublingAssumption`, `2^(n + 1) = 2 * 2^n` for
the exponents in use: the provers know literal powers only. From it come the laws of
powers and the binary expansion of a word (`WordOfBitsOf`, `BitsOfWordOf`), which make the
bit operations sums of powers; the shifts, products and divisions are bounded by nonlinear
steps done one at a time, each named in a lemma (`Division`, `DivisionUnique`,
`ProductWord`).

The machine (the rest of `MachineProofs`), for every program, memory, reset address and
width:

* `MachineTypesCorrect`: `Spec => []TypeOK`, and `TrapsArePrecise`: `Spec =>
  PreciseTraps`.
* `RunsEndForAReason`: `EmulatorSpec => [](EndedForAReason /\ NothingCaptured)`, two of
  the three parts of `StopsForAReason`.
* `NoHandlerRuns`: `EmulatorSpec => []StopsForAReason`, if the program writes neither
  `mcause` nor `mepc` (`TrapRegistersUnwritten`).
* `HandlerRunsMasked`: `EmulatorSpec /\ []KeepsTheContract => []HandlerMasked`, for every
  program over the handler.
* `TrapsStayInvisible`: `EmulatorSpec /\ []KeepsTheContract => TrapsAreTransparent`, the
  refinement of `UserProgram`.
* `NoHandlerRunsOverTheHandler`: `EmulatorSpec /\ []KeepsTheContract =>
  []StopsForAReason`, if nothing but the handler writes these registers
  (`MainLeavesTrapRegisters`).

`ImageAssumption` says what a program is: at aligned addresses, what the decoder of the
model has a format for (`Instruction`, which includes the illegal one), with operands that
are words. `TypeOK` is inductive, because an operand of any instruction gives a word out
of the ALU (`CalculatedType`) and because every exit of a cycle but one is a trap with the
same four writes (`CycleIsTrapOrRetire`). `PreciseTraps` needs the types for the bits of
`mstatus` to come apart again, and `EndedForAReason` is inductive with the types once a
jump to itself is known to leave `pc` alone (`LoopStandsStill`), which has to exclude that
the step returned from a trap. The third part of `StopsForAReason` speaks of `mcause` and
`mepc`, which any program may write, so that it holds of programs and not of the emulator
alone: of those that leave the two alone, and of those over the handler, which
writes `mepc`, because it cannot be reached without a trap.

The last three are about any program with the handler of `Programs`. What the program has
to do for it is `KeepsTheContract`: the handler is where `mtvec` leads before the first
trap can come, nothing else is an `mret` or keeps what it reads of a CSR, and no jump
leads into the handler. It speaks of the state and is a hypothesis of the theorems, which
the run `machine` checks of its program as an invariant, in both vector modes; a
reader of another program has to check it there. `HandlerInv` says, for each instruction
of the handler, that interrupts are masked, what `mcause` says and where the register is
that the handler uses; it is inductive in the cycles of the CPU together with the types
(`HandlerInductive`), since a masked machine traps only on its own faults and the handler
has none (`HandlerStep`). For the refinement each cycle outside the handler is shown to be
a step of `UserProgram` (`UserSteps`), or the entry of the trap that hides it
(`TrapEnters`), and each cycle within to leave the mapped state alone but the one that
steps `mepc` over a fault, which is the program's `Skip`.

The map of stop points, for every size of the address space and every set of `Z` and `z`
commands (the beginning of `DebuggerProofs`):

* `StopPointsTypeSafe`: `StopPointsSpec => []StopPointsTypeOK`.
* `WatchpointsStayApart`: `StopPointsSpec => []WatchpointsApart`.
* `AccessesAreFound`: the same of the searches of `check_watchpoint`, at every address.
* `LessIsStrict`: the comparison is irreflexive and transitive, with wrapping ends.

The assumptions are `SpaceAssumption` (there is an address) and `RequestsAssumption`
(addresses and lengths of commands are addresses). The invariant is `StopPointsTypeOK /\
InOrder`: the elements are in the order of `Less`. What a map is usually said to need,
that being equivalent is transitive, fails here; the proof needs only `LessIsStrict`.
Transitivity makes the elements less than a key a prefix of an ordered sequence
(`OrderedPartitions`), so that `lower_bound` is unique; `emplace` adds an element only if
it is greater than its predecessor and less than its successor, hence than all before and
after it (`EmplacedOrdered`). `WatchpointsApart` follows, since `Less` of ranges that do
not wrap means a gap between them. In `DebuggedMachine` only `EditStopPoints` changes the
maps, by `Edit`.

The debugger, for every program, width, set of register writes, resume addresses and
conditions, with the commands and the running machine interleaved in every order (the rest
of `DebuggerProofs`):

* `DebuggedTypesCorrect`: `DebuggedSpec => []DebuggedTypeOK`.
* `DebuggedWatchpointsApart`: `DebuggedSpec => []WatchpointsApart`, through `DebuggedSpec
  => StopPointsSpec`.
* `DebuggedArithmeticExact`: `DebuggedSpec => []ArithmeticIsExact`.
* `WatchpointsStopRuns`: `DebuggedSpec => WatchpointsStop`, of the access that a cycle made.
  What is reported after a cycle that trapped is not covered: it may be false (section 5).
* `ConditionsAlwaysCompute`: `DebuggedSpec => []ConditionsCompute`, for every forest of
  conditions, however deep, and the trees in it that mind no order of operands.
* `BreakpointsAlwaysStop`: `DebuggedSpec => BreakpointsStop`, for the same conditions and for
  breakpoints without one.

`DebuggedAssumption` adds that what GDB writes to a register and where it resumes are words
and that conditions are sequences of bytes. The invariant is `DebuggedInv`: the machine's
types, the invariant of the stop points, the types of the loop, and `LoopInv`. `LoopInv` is
what the loop knows between its steps: no reply while it runs, a condition under evaluation
is that of a breakpoint at `pc`, and at the beginning of a cycle that is not the first there
is no unconditional breakpoint at `pc`. `WatchpointsStop` then needs that what `lower_bound`
finds for an access is near it (`HitIsNear`), and that the only watchpoint near an access is
the one it finds (`NearIsHit`); in both the order of the map decides, that is
`WatchpointsApart`. `MadeInv` relates the access that was made to the one in `Result`: they
are the same unless the cycle trapped, and then none was made. For `DebuggedTypesCorrect`
every bytecode is shown to leave words on the stack and a natural number as its position
(`PerformedType`), whatever bytes follow it, and operands and memory values, which are
recursive functions, to be numbers, by `Induction`.

`ConditionsAlwaysCompute` is `CompiledEvaluates` of `ConditionProofs`, a statement about
the interpreter alone, in which the machine enters by what a condition sees of it
(`IsSeen`). The provers have no induction over trees; it is taken apart in four steps.
`LevelsSettle` (`Induction`) says that a recursion by depth settles: from a tree's own
depth on, the levels agree, so that code and value satisfy their recursive equations
(`CodeUnfolds`, `ValueUnfolds`). `RunExists` makes the turns of the loop one function of
their number, and a lemma for each bytecode says what its turn does of the operands on
top of the stack and that it leaves what is below (`BinaryStep`, `ExtendStep`,
`JumpSteps` and the others). `Arrives` states what a tree's code does: a run that comes
to its beginning comes to its end, in no more turns than there are bytes before, with
the value on top of what was there; without a value it has failed by then. There is one
lemma for each form of tree (`BinaryComputes`, `PickedComputes`, `IfComputes` and the
others), which supposes this of the parts, wherever in the code they are placed.
The interpreter computes with the two operands exchanged, which makes no difference for
the operations in `Commuting` and for an operand used twice (`ComputedCommutes`), and a
division that cannot be made by its own operand never kills the process (`NeverKilled`);
the parts of an orderless tree are orderless (`OrderlessParts`). `TreesCompute` is then an
induction over the numbers that bound the depth. The bound
2^16 on the code is used once, where a position must fit in the operand of a jump
(`TargetFits`).

`BreakpointsAlwaysStop` adds `EvaluationInv` to the invariant: between two evaluations
nothing is left of the one before, an evaluation in progress is a turn of the run of the
condition at `pc`, and at the beginning of a cycle that is not the first the condition at
`pc` does not hold. No command and no cycle comes between its turns, so that what the
condition sees is the same in all of them (`SeenUnchanged`); when the loop ends it is at a
turn of the run that `ConditionsAlwaysCompute` speaks of, with the tree's value or an error
(`EndedTriggers`). Conditions that are not trees, endless ones among them, and trees that
mind the order are only claimed not to matter to the others.

Only model-checked:

* Liveness (`InterruptStopsWorker`, `CommandEnds`, `TimerIsServed`, `RunsEnd`) is beyond
  the prover.

## 5. What the code does otherwise than it says

| Run | The code | The text |
|---|---|---|
| `stop_reported` | `async_run` blocks in `receive()` and does not see the worker stop (`main/src/emulator-debug.cpp:291`) | "It also sends the response to the GDB host." (`main/include/emulator-debug.hpp:73`) |
| `csr_read` | `mstatus` answers its new value (`lib/core/csr.cpp:99`) | "`u32` read value if `access_info.read` is `true`" (`lib/include/core/csr.hpp:359`) |
| `operands_in_order` | an operation takes its first operand from the top of the stack, where the second is; a division checks that one for zero and divides by the other (`lib/gdb-stub/expression.cpp:75`) | "`10 / 0 -> division by zero`", of code that pushes 10, then 0 (`lib/test/gdb-stub/expression.cpp:107`) |
| `fence_i` | `fencei()` has no caller (`lib/core/memory.cpp:169`) | "`rv32im_zicond_zicsr_zifencei`" (`readme.md:9`), "Execute `fence.i` on the cache" (`lib/include/core/memory.hpp:121`) |
| `stops_at_traps` | `run_until_trap` looks at break- and watchpoints only (`main/src/emulator-debug.cpp:416`) | "Run until a trap is hit (breakpoint, watchpoint, exception, ecall, ebreak) or interrupted" (`main/include/emulator-debug.hpp:54`) |

Read, but without a run: the capture mode `Exception_only` selects interrupts
(`main/src/emulator.cpp:58`) where its declaration says "Only catch exceptions (excluding
ecall/ebreak)" (`main/include/option.hpp:15`), and `StopsForAReason` follows the code; a
jump that changes its own target is stopped as an infinite loop
(`main/src/emulator.cpp:86`); `handle_mem_write` passes unaligned addresses that the memory
rejects, so that only aligned single bytes can be written
(`main/src/emulator-debug.cpp:136`, `lib/device/block-memory.cpp:133`), and a read from such
an address answers nothing: `DebuggerAccessesArePrefixes` states both; `mulh` and `mulhsu`
do not extend signs (`lib/core/alu.cpp:47`); `csrrw` from `x0` does not write
(`lib/core/decode.cpp:320`).

`TrapsAreTransparent` of the run `machine` does not depend on the `mstatus` defect: its
program sets and clears the bit with immediate forms and does not read it.

Also read, in the debugger:

* A Ctrl-C that crosses the stop reply is read as a wrong answer to it and costs the
  connection (`lib/gdb-stub/network.cpp:91`).
* A division of a condition by an operand of zero that lies below another one kills the process
  (`lib/gdb-stub/expression.cpp:83`): `0 / 10` in the order of the test.
* A breakpoint whose condition loops cannot be interrupted (`EvaluatesForever`).
* `g` swaps the bytes of a register, `p`, `P` and `G` do not
  (`lib/gdb-stub/response.cpp:17`, `lib/gdb-stub/command.cpp:91`).
* A failed write of a register answers `OK` (`main/src/emulator-debug.cpp:188`), and so does
  a watchpoint that is not added because it meets another one
  (`main/src/emulator-debug.cpp:246`); `z` removes whatever watchpoint it meets, of any
  range and kind.
* A watchpoint, or an access, that ends with the address space has the end 0 and meets
  ranges it shares no byte with (`lib/include/gdb-stub/addr-range.hpp:23`).
* A breakpoint hides the watchpoint that the same cycle hit
  (`main/src/emulator-debug.cpp:423`), and an access watchpoint is reported as a read or a
  write one.
* A timer interrupt before a load leaves `memory_opcode` set and `alu_result`
  uninitialised: a watchpoint may be reported for an access that was not made.
* `handle_mem_read` of the clock's counter takes the latch from a program between its two loads
  (`lib/device/peripheral/clock.cpp:65`): `ReadIsPast` says what the program then reads.
* No command of the parser is a `command::Restart`, which `handle_special_commands`
  has a case for.

## 6. What is not modelled

The digits and separators of commands and the wording of responses; the target description;
the UART; command line options and the flash file; the counters `mcycle` and `minstret`; the
bit layout of instructions; `Bitset` and printing. `PROJECT.json` gives the reason for each
component. Accesses of the programs on the CPU, and so those `check_watchpoint` sees, are of
whole words; narrower ones are in `Memory`; loads and stores with a reserved `funct3` are
left out, and so are devices, with the clock's latch, in what conditions read. A machine
under the debugger and a stub under the network are two models, joined by what the one
reports and the other sends, not one product.

## 7. What could follow

1. Composition of `Cpu` with `Clock`: a timer with a deadline in place of an open line.
2. Sessions over several connections: what a decoder that outlives its connection
   does to the next client.
3. Proofs: `KeepsTheContract` as a check of a program's text instead of its states.
