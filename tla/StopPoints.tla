----------------------------- MODULE StopPoints -----------------------------
(***************************************************************************)
(* The break- and watchpoints of the debugger: the maps hw_breakpoints and *)
(* watchpoints of Emulator_debug, the handlers of the `Z' and `z' commands *)
(* that edit them (main/src/emulator-debug.cpp), and what command::parse   *)
(* makes of those commands.                                                *)
(***************************************************************************)
EXTENDS AddressRange, Sequences

CONSTANTS
    Conditions,     \* the bytecode sequences GDB sends along with breakpoints
    NoCondition,    \* std::nullopt in Hw_breakpoint::cond
    Requests        \* the parameters of the Z and z commands that GDB sends

ASSUME RequestsAssumption ==
    /\ NoCondition \notin Conditions
    /\ Requests \subseteq [type : Nat, address : Address, length : Address,
                           cond : Conditions \cup {NoCondition}]

VARIABLES
    hw_breakpoints, \* std::map, address -> condition
    watchpoints,    \* std::map from ranges, as the sequence of its elements
    reply           \* the last response

stopPoints == << hw_breakpoints, watchpoints >>

Watchpoint == [range : Ranges, watch_write : BOOLEAN, watch_read : BOOLEAN]

Statuses == {"OK", "unsupported", "error"}

StopPointsTypeOK ==
    /\ DOMAIN hw_breakpoints \subseteq Address
    /\ \A a \in DOMAIN hw_breakpoints :
           hw_breakpoints[a] \in Conditions \cup {NoCondition}
    /\ watchpoints \in Seq(Watchpoint)

StopPointsInit ==
    /\ hw_breakpoints = [a \in {} |-> NoCondition]
    /\ watchpoints = << >>
    /\ reply = "none"

-----------------------------------------------------------------------------
(* std::map *)

(***************************************************************************)
(* lower_bound: the first element that is not less than the key, or one    *)
(* past the last.  The elements less than a key come first, whatever the   *)
(* key (DebuggerProofs).                                                   *)
(***************************************************************************)
LowerBound(map, key) ==
    CHOOSE i \in 1 .. Len(map) + 1 :
        /\ \A j \in 1 .. i - 1 : Less(map[j].range, key)
        /\ i <= Len(map) => ~ Less(map[i].range, key)

Finds(map, key) ==
    LET i == LowerBound(map, key)
    IN  i <= Len(map) /\ ~ Less(key, map[i].range)

Inserted(map, i, element) ==
    [j \in 1 .. Len(map) + 1 |->
        IF j < i THEN map[j] ELSE IF j = i THEN element ELSE map[j - 1]]

Erased(map, i) ==
    [j \in 1 .. Len(map) - 1 |-> IF j < i THEN map[j] ELSE map[j + 1]]

EmplacedAlways(map, element) == \* mutant: a multimap
    Inserted(map, LowerBound(map, element.range), element)

(* emplace leaves the map alone if it finds the key. *)
Emplaced(map, element) ==
    IF Finds(map, element.range) THEN map
    ELSE Inserted(map, LowerBound(map, element.range), element)

-----------------------------------------------------------------------------
(* The handlers *)

handle_add_breakpoint(is_hardware, address, length, cond) ==
    /\ reply' = CASE ~ is_hardware -> "unsupported"
                  [] is_hardware /\ length # 4 -> "error"
                  [] is_hardware /\ length = 4 -> "OK"
    /\ hw_breakpoints' =
           IF is_hardware /\ length = 4 /\ address \notin DOMAIN hw_breakpoints
           THEN [a \in DOMAIN hw_breakpoints \cup {address} |->
                    IF a = address THEN cond ELSE hw_breakpoints[a]]
           ELSE hw_breakpoints
    /\ UNCHANGED watchpoints

handle_remove_breakpoint(is_hardware, address) ==
    /\ reply' = CASE ~ is_hardware -> "unsupported"
                  [] is_hardware /\ address \notin DOMAIN hw_breakpoints -> "error"
                  [] is_hardware /\ address \in DOMAIN hw_breakpoints -> "OK"
    /\ hw_breakpoints' =
           IF is_hardware
           THEN [a \in DOMAIN hw_breakpoints \ {address} |-> hw_breakpoints[a]]
           ELSE hw_breakpoints
    /\ UNCHANGED watchpoints

(* A key that is found is not added, and the answer is OK all the same. *)
handle_add_watchpoint(watch_write, watch_read, range) ==
    /\ IF range.size = 0 \/ ~ (watch_read \/ watch_write)
       THEN reply' = "error" /\ UNCHANGED watchpoints
       ELSE /\ reply' = "OK"
            /\ watchpoints' =
                   Emplaced(watchpoints, [range |-> range, watch_write |-> watch_write,
                                          watch_read |-> watch_read])
    /\ UNCHANGED hw_breakpoints

(* What goes is the element found, whatever its range and what it watches. *)
handle_remove_watchpoint(range) ==
    /\ IF Finds(watchpoints, range)
       THEN /\ reply' = "OK"
            /\ watchpoints' = Erased(watchpoints, LowerBound(watchpoints, range))
       ELSE reply' = "error" /\ UNCHANGED watchpoints
    /\ UNCHANGED hw_breakpoints

(***************************************************************************)
(* parse_Z and parse_z: the type digit selects the handler and what it is  *)
(* told.                                                                   *)
(***************************************************************************)
RangeOf(request) == [start |-> request.address, size |-> request.length]

Unknown == reply' = "unsupported" /\ UNCHANGED stopPoints

parse_Z(request) ==
    \/ /\ request.type \in {0, 1}
       /\ handle_add_breakpoint(request.type = 1, request.address, request.length,
                                request.cond)
    \/ /\ request.type \in {2, 3, 4}
       /\ handle_add_watchpoint(request.type \in {2, 4}, request.type \in {3, 4},
                                RangeOf(request))
    \/ request.type > 4 /\ Unknown

parse_z(request) ==
    \/ /\ request.type \in {0, 1}
       /\ handle_remove_breakpoint(request.type = 1, request.address)
    \/ request.type \in {2, 3, 4} /\ handle_remove_watchpoint(RangeOf(request))
    \/ request.type > 4 /\ Unknown

Edit == \E request \in Requests : parse_Z(request) \/ parse_z(request)

StopPointsSpec == StopPointsInit /\ [][Edit]_stopPoints

-----------------------------------------------------------------------------
(* check_watchpoint *)

(***************************************************************************)
(* What an access of a word at this address hits: whether the element that *)
(* the map finds for it watches its kind.  The size, which the code takes  *)
(* of memory_funct (emulator-debug.cpp:54), is that of the one width of    *)
(* access that Instructions has.                                           *)
(***************************************************************************)
Accessed(address) == [start |-> address, size |-> 4]

check_watchpointReadsOnly(memory_opcode, address) ==  \* mutant: forgets the writes
    /\ memory_opcode # "None" /\ Finds(watchpoints, Accessed(address))
    /\ watchpoints[LowerBound(watchpoints, Accessed(address))].watch_read

check_watchpoint(memory_opcode, address) ==
    /\ memory_opcode # "None" /\ Finds(watchpoints, Accessed(address))
    /\ LET hit == watchpoints[LowerBound(watchpoints, Accessed(address))]
       IN  \/ memory_opcode = "Store" /\ hit.watch_write
           \/ memory_opcode = "Load" /\ hit.watch_read

-----------------------------------------------------------------------------
(* Properties *)

(***************************************************************************)
(* The comparison of ranges is no strict weak order, which std::map asks   *)
(* of it: two ranges may each be equivalent to a third and not to each     *)
(* other.  It does for the map's work all the same, over any sequence of Z *)
(* and z commands (emulator-debug.cpp:192-272): the elements stay in       *)
(* order, no two ranges that do not wrap overlap or touch, and for every   *)
(* key the elements less than it come first and those greater come last,   *)
(* so that no search depends on the shape of the tree.                     *)
(***************************************************************************)
InOrder == \A i, j \in DOMAIN watchpoints :
               i < j => Less(watchpoints[i].range, watchpoints[j].range)

Partitions(key) ==
    \A i, j \in DOMAIN watchpoints : i < j =>
        /\ Less(watchpoints[j].range, key) => Less(watchpoints[i].range, key)
        /\ Less(key, watchpoints[i].range) => Less(key, watchpoints[j].range)

WatchpointsApart ==
    /\ InOrder
    /\ \A i, j \in DOMAIN watchpoints :
           LET r == watchpoints[i].range
               s == watchpoints[j].range
           IN  i # j /\ ~ Wraps(r) /\ ~ Wraps(s) => Apart(r, s)
    /\ \A request \in Requests : Partitions(RangeOf(request))
=============================================================================
