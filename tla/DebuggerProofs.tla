--------------------------- MODULE DebuggerProofs ---------------------------
(***************************************************************************)
(* The debugger: the map of watchpoints stays sound under every sequence   *)
(* of commands, for every address space (the comparison of ranges, which   *)
(* is no strict weak order, is transitive, and std::map needs no more than *)
(* that to keep its elements in order and to find one); the machine and    *)
(* the evaluation of conditions keep their types under it; every condition *)
(* is evaluated to what its tree means; and the run loops stop where the   *)
(* watchpoints and those conditions have them stop.                        *)
(***************************************************************************)
EXTENDS ConditionProofs

-----------------------------------------------------------------------------
(* The comparison *)

(* An end is a remainder: within one turn of the address space. *)
LEMMA SmallRemainder ==
    ASSUME NEW n \in Nat \ {0}, NEW x \in 0 .. 2 * n - 1
    PROVE  x % n = IF x < n THEN x ELSE x - n
<1> DEFINE q == x \div n
           r == x % n
<1>1. q \in Nat /\ r \in 0 .. n - 1 /\ x = n * q + r
  OBVIOUS
<1> HIDE DEF q, r
<1>2. q < 2
  <2>1. SUFFICES ASSUME q >= 2 PROVE FALSE
    BY <1>1
  <2>2. n * q >= n * 2
    BY <1>1, <2>1
  <2> QED BY <1>1, <2>2
<1>3. q = 0 \/ q = 1
  BY <1>1, <1>2
<1>4. CASE q = 0
  BY <1>1, <1>4 DEF r
<1>5. CASE q = 1
  BY <1>1, <1>5 DEF r
<1> QED BY <1>3, <1>4, <1>5

LEMMA EndValue ==
    ASSUME NEW r \in Ranges
    PROVE  /\ r.start \in Address /\ r.size \in Address /\ End(r) \in Address
           /\ ~ Wraps(r) => End(r) = r.start + r.size
           /\ Wraps(r) => End(r) = r.start + r.size - Space
<1>1. Space \in Nat \ {0}
  BY SpaceAssumption
<1>2. r.start \in Address /\ r.size \in Address
  BY DEF Ranges
<1> DEFINE x == r.start + r.size
<1>3. x \in 0 .. 2 * Space - 1 /\ End(r) = x % Space
  BY <1>1, <1>2 DEF Address, End
<1> HIDE DEF x
<1>4. End(r) = IF x < Space THEN x ELSE x - Space
  BY <1>1, <1>3, SmallRemainder
<1> QED BY <1>1, <1>2, <1>3, <1>4 DEF Address, Wraps, x

(* `Less' in terms of the four bounds. *)
LEMMA LessValue ==
    ASSUME NEW r \in Ranges, NEW s \in Ranges
    PROVE  Less(r, s) <=> /\ ~ (r.start <= s.start /\ End(s) <= End(r))
                          /\ ~ (s.start <= r.start /\ End(r) <= End(s))
                          /\ End(s) >= r.start
                          /\ End(r) < s.start
  BY EndValue DEF Less, Ordering, Contains, Address

(***************************************************************************)
(* The comparison is irreflexive and transitive, whatever wraps            *)
(* (addr-range.hpp:21-32).                                                 *)
(***************************************************************************)
THEOREM LessIsStrict ==
    /\ \A r \in Ranges : ~ Less(r, r)
    /\ \A r, s, t \in Ranges : Less(r, s) /\ Less(s, t) => Less(r, t)
<1>1. ASSUME NEW r \in Ranges PROVE ~ Less(r, r)
  BY LessValue, EndValue DEF Address
<1>2. ASSUME NEW r \in Ranges, NEW s \in Ranges, NEW t \in Ranges,
             Less(r, s), Less(s, t)
      PROVE  Less(r, t)
  <2>1. Space \in Nat
    BY SpaceAssumption
  <2>2. /\ r.start \in Nat /\ s.start \in Nat /\ t.start \in Nat
        /\ End(r) \in Nat /\ End(s) \in Nat /\ End(t) \in Nat
    BY <2>1, EndValue DEF Address
  <2>3. /\ ~ (r.start <= s.start /\ End(s) <= End(r))
        /\ ~ (s.start <= r.start /\ End(r) <= End(s))
        /\ End(s) >= r.start /\ End(r) < s.start
    BY <1>2, LessValue
  <2>4. /\ ~ (s.start <= t.start /\ End(t) <= End(s))
        /\ ~ (t.start <= s.start /\ End(s) <= End(t))
        /\ End(t) >= s.start /\ End(s) < t.start
    BY <1>2, LessValue
  <2>5. /\ ~ (r.start <= t.start /\ End(t) <= End(r))
        /\ ~ (t.start <= r.start /\ End(r) <= End(t))
        /\ End(t) >= r.start /\ End(r) < t.start
    BY <2>2, <2>3, <2>4
  <2> QED BY <2>5, LessValue
<1> QED BY <1>1, <1>2

(* Ranges that do not wrap are apart if one is less. *)
LEMMA LessIsApart ==
    ASSUME NEW r \in Ranges, NEW s \in Ranges, ~ Wraps(r), Less(r, s)
    PROVE  Apart(r, s)
<1>1. End(r) < s.start
  BY LessValue
<1> QED BY <1>1, EndValue DEF Apart

-----------------------------------------------------------------------------
(* The map *)

Ordered(map) ==
    \A i, j \in DOMAIN map : i < j => Less(map[i].range, map[j].range)

(* A search ends at an element or past the last one. *)
LEMMA LowerBoundExists ==
    ASSUME NEW map \in Seq(Watchpoint), NEW key \in Ranges
    PROVE  /\ LowerBound(map, key) \in 1 .. Len(map) + 1
           /\ \A j \in 1 .. LowerBound(map, key) - 1 : Less(map[j].range, key)
           /\ LowerBound(map, key) <= Len(map)
                  => ~ Less(map[LowerBound(map, key)].range, key)
<1> DEFINE IsBound(i) == /\ \A j \in 1 .. i - 1 : Less(map[j].range, key)
                         /\ i <= Len(map) => ~ Less(map[i].range, key)
           Exists == \E i \in 1 .. Len(map) + 1 : IsBound(i)
           LessTo(k) == \A j \in 1 .. k : Less(map[j].range, key)
           S == {k \in Nat : k <= Len(map) => LessTo(k) \/ Exists}
<1>1. Len(map) \in Nat
  OBVIOUS
<1>2. 0 \in S
  OBVIOUS
<1>3. ASSUME NEW k \in Nat, k \in S PROVE k + 1 \in S
  <2>1. SUFFICES ASSUME k + 1 <= Len(map), ~ Exists PROVE LessTo(k + 1)
    OBVIOUS
  <2>2. LessTo(k)
    BY <1>1, <1>3, <2>1
  <2>3. Less(map[k + 1].range, key)
    <3>1. SUFFICES ASSUME ~ Less(map[k + 1].range, key) PROVE FALSE
      OBVIOUS
    <3>2. k + 1 \in 1 .. Len(map) + 1 /\ (k + 1) - 1 = k
      BY <1>1, <2>1
    <3>3. IsBound(k + 1)
      BY <2>2, <3>1, <3>2
    <3> QED BY <2>1, <3>2, <3>3
  <2> QED BY <2>2, <2>3
<1>4. Len(map) \in S
  <2> HIDE DEF S
  <2> QED BY <1>1, <1>2, <1>3, SetInduction
<1>5. Exists
  <2>1. SUFFICES ASSUME LessTo(Len(map)) PROVE Exists
    BY <1>4
  <2>2. IsBound(Len(map) + 1)
    BY <1>1, <2>1
  <2> QED BY <1>1, <2>2
<1> QED BY <1>5 DEF LowerBound

LEMMA ElementRange ==
    ASSUME NEW map \in Seq(Watchpoint), NEW i \in DOMAIN map
    PROVE  map[i].range \in Ranges
<1>1. map[i] \in Watchpoint
  OBVIOUS
<1> QED BY <1>1 DEF Watchpoint

(***************************************************************************)
(* The elements less than a key come first, those greater come last.       *)
(***************************************************************************)
LEMMA OrderedPartitions ==
    ASSUME NEW map \in Seq(Watchpoint), Ordered(map), NEW key \in Ranges,
           NEW i \in DOMAIN map, NEW j \in DOMAIN map, i < j
    PROVE  /\ Less(map[j].range, key) => Less(map[i].range, key)
           /\ Less(key, map[i].range) => Less(key, map[j].range)
<1>1. map[i].range \in Ranges /\ map[j].range \in Ranges
  BY ElementRange
<1>2. Less(map[i].range, map[j].range)
  BY DEF Ordered
<1> QED BY <1>1, <1>2, LessIsStrict

LEMMA InsertedType ==
    ASSUME NEW map \in Seq(Watchpoint), NEW element \in Watchpoint,
           NEW i \in 1 .. Len(map) + 1
    PROVE  /\ Inserted(map, i, element) \in Seq(Watchpoint)
           /\ DOMAIN Inserted(map, i, element) = 1 .. Len(map) + 1
           /\ \A j \in 1 .. Len(map) + 1 :
                  Inserted(map, i, element)[j] =
                      IF j < i THEN map[j] ELSE IF j = i THEN element ELSE map[j - 1]
<1>1. ASSUME NEW j \in 1 .. Len(map) + 1
      PROVE  (IF j < i THEN map[j] ELSE IF j = i THEN element ELSE map[j - 1])
                 \in Watchpoint
  OBVIOUS
<1>2. Inserted(map, i, element) \in [1 .. Len(map) + 1 -> Watchpoint]
  BY <1>1 DEF Inserted
<1> QED BY <1>2 DEF Inserted

LEMMA ErasedType ==
    ASSUME NEW map \in Seq(Watchpoint), NEW i \in 1 .. Len(map)
    PROVE  /\ Erased(map, i) \in Seq(Watchpoint)
           /\ DOMAIN Erased(map, i) = 1 .. Len(map) - 1
           /\ \A j \in 1 .. Len(map) - 1 :
                  Erased(map, i)[j] = IF j < i THEN map[j] ELSE map[j + 1]
<1>1. Len(map) - 1 \in Nat
  OBVIOUS
<1>2. ASSUME NEW j \in 1 .. Len(map) - 1
      PROVE  (IF j < i THEN map[j] ELSE map[j + 1]) \in Watchpoint
  OBVIOUS
<1>3. Erased(map, i) \in [1 .. Len(map) - 1 -> Watchpoint]
  BY <1>2 DEF Erased
<1> QED BY <1>1, <1>3 DEF Erased

(* emplace keeps the order: what it does not find fits at the bound. *)
LEMMA EmplacedOrdered ==
    ASSUME NEW map \in Seq(Watchpoint), Ordered(map), NEW element \in Watchpoint
    PROVE  Emplaced(map, element) \in Seq(Watchpoint) /\ Ordered(Emplaced(map, element))
<1> DEFINE key == element.range
           i == LowerBound(map, key)
           new == Inserted(map, i, element)
<1>1. key \in Ranges
  BY DEF Watchpoint
<1>2. /\ i \in 1 .. Len(map) + 1
      /\ \A j \in 1 .. i - 1 : Less(map[j].range, key)
  BY <1>1, LowerBoundExists
<1>3. CASE Finds(map, key)
  BY <1>3 DEF Emplaced
<1>4. CASE ~ Finds(map, key)
  <2>1. Emplaced(map, element) = new /\ (i <= Len(map) => Less(key, map[i].range))
    BY <1>4 DEF Emplaced, Finds
  <2> HIDE DEF i
  <2>2. /\ new \in Seq(Watchpoint) /\ DOMAIN new = 1 .. Len(map) + 1
        /\ \A j \in 1 .. Len(map) + 1 :
               new[j] = IF j < i THEN map[j] ELSE IF j = i THEN element ELSE map[j - 1]
    BY <1>2, InsertedType
  <2> HIDE DEF new
  <2>3. ASSUME NEW j \in 1 .. Len(map) + 1, NEW l \in 1 .. Len(map) + 1, j < l
        PROVE  Less(new[j].range, new[l].range)
    <3>1. CASE l < i
      <4>1. j \in DOMAIN map /\ l \in DOMAIN map /\ new[j] = map[j] /\ new[l] = map[l]
        BY <1>2, <2>2, <2>3, <3>1
      <4> QED BY <2>3, <4>1 DEF Ordered
    <3>2. CASE l = i
      <4>1. new[j] = map[j] /\ new[l] = element /\ j \in 1 .. i - 1
        BY <1>2, <2>2, <2>3, <3>2
      <4> QED BY <1>2, <4>1
    <3>3. CASE j < i /\ l > i
      <4>1. /\ j \in DOMAIN map /\ l - 1 \in DOMAIN map /\ j < l - 1
            /\ new[j] = map[j] /\ new[l] = map[l - 1]
        BY <1>2, <2>2, <3>3
      <4> QED BY <4>1 DEF Ordered
    <3>4. CASE j = i
      <4>1. /\ l - 1 \in DOMAIN map /\ i \in DOMAIN map /\ i <= l - 1
            /\ new[j] = element /\ new[l] = map[l - 1]
        BY <1>2, <2>2, <2>3, <3>4
      <4>2. Less(key, map[i].range)
        BY <2>1, <4>1
      <4>3. i < l - 1 => Less(key, map[l - 1].range)
        BY <1>1, <4>1, <4>2, OrderedPartitions
      <4>4. i = l - 1 \/ i < l - 1
        BY <1>2, <4>1
      <4> QED BY <4>1, <4>2, <4>3, <4>4
    <3>5. CASE j > i
      <4>1. /\ j - 1 \in DOMAIN map /\ l - 1 \in DOMAIN map /\ j - 1 < l - 1
            /\ new[j] = map[j - 1] /\ new[l] = map[l - 1]
        BY <1>2, <2>2, <2>3, <3>5
      <4> QED BY <4>1 DEF Ordered
    <3> QED BY <1>2, <2>3, <3>1, <3>2, <3>3, <3>4, <3>5
  <2> QED BY <2>1, <2>2, <2>3 DEF Ordered
<1> QED BY <1>3, <1>4

LEMMA ErasedOrdered ==
    ASSUME NEW map \in Seq(Watchpoint), Ordered(map), NEW i \in 1 .. Len(map)
    PROVE  Erased(map, i) \in Seq(Watchpoint) /\ Ordered(Erased(map, i))
<1> DEFINE new == Erased(map, i)
<1>1. /\ new \in Seq(Watchpoint) /\ DOMAIN new = 1 .. Len(map) - 1
      /\ \A j \in 1 .. Len(map) - 1 : new[j] = IF j < i THEN map[j] ELSE map[j + 1]
  BY ErasedType
<1> HIDE DEF new
<1>2. ASSUME NEW j \in 1 .. Len(map) - 1, NEW l \in 1 .. Len(map) - 1, j < l
      PROVE  Less(new[j].range, new[l].range)
  <2> DEFINE p == IF j < i THEN j ELSE j + 1
             q == IF l < i THEN l ELSE l + 1
  <2>1. p \in DOMAIN map /\ q \in DOMAIN map /\ p < q
    BY <1>2
  <2>2. new[j] = map[p] /\ new[l] = map[q]
    BY <1>1
  <2> QED BY <2>1, <2>2 DEF Ordered
<1> QED BY <1>1, <1>2 DEF Ordered, new

-----------------------------------------------------------------------------
(* The invariants *)

LEMMA RequestType ==
    ASSUME NEW request \in Requests
    PROVE  /\ RangeOf(request) \in Ranges /\ request.address \in Address
           /\ request.cond \in Conditions \cup {NoCondition}
  BY RequestsAssumption DEF RangeOf, Ranges

IInv == StopPointsTypeOK /\ InOrder

LEMMA EditKeepsInvariant == IInv /\ [Edit]_stopPoints => IInv'
<1> SUFFICES ASSUME IInv, [Edit]_stopPoints PROVE IInv'
  OBVIOUS
<1>1. Ordered(watchpoints) /\ watchpoints \in Seq(Watchpoint)
  BY DEF IInv, InOrder, Ordered, StopPointsTypeOK
<1> DEFINE BreakpointsOK(b) == /\ DOMAIN b \subseteq Address
                               /\ \A a \in DOMAIN b : b[a] \in Conditions \cup {NoCondition}
<1>2. SUFFICES /\ BreakpointsOK(hw_breakpoints')
               /\ watchpoints' \in Seq(Watchpoint) /\ Ordered(watchpoints')
  BY DEF IInv, InOrder, Ordered, StopPointsTypeOK
<1>3. BreakpointsOK(hw_breakpoints)
  BY DEF IInv, StopPointsTypeOK
<1>4. ASSUME NEW request \in Requests, NEW is_hardware,
             handle_add_breakpoint(is_hardware, request.address, request.length,
                                   request.cond)
      PROVE  BreakpointsOK(hw_breakpoints') /\ UNCHANGED watchpoints
  BY <1>3, <1>4, RequestType DEF handle_add_breakpoint
<1>5. ASSUME NEW request \in Requests, NEW is_hardware,
             handle_remove_breakpoint(is_hardware, request.address)
      PROVE  BreakpointsOK(hw_breakpoints') /\ UNCHANGED watchpoints
  BY <1>3, <1>5 DEF handle_remove_breakpoint
<1>6. ASSUME NEW request \in Requests, NEW w \in BOOLEAN, NEW r \in BOOLEAN,
             handle_add_watchpoint(w, r, RangeOf(request))
      PROVE  /\ UNCHANGED hw_breakpoints
             /\ watchpoints' \in Seq(Watchpoint) /\ Ordered(watchpoints')
  <2> DEFINE element == [range |-> RangeOf(request), watch_write |-> w, watch_read |-> r]
  <2>1. element \in Watchpoint
    BY RequestType DEF Watchpoint
  <2>2. /\ UNCHANGED hw_breakpoints
        /\ watchpoints' = watchpoints \/ watchpoints' = Emplaced(watchpoints, element)
    BY <1>6 DEF handle_add_watchpoint
  <2> HIDE DEF element
  <2> QED BY <1>1, <2>1, <2>2, EmplacedOrdered
<1>7. ASSUME NEW request \in Requests, handle_remove_watchpoint(RangeOf(request))
      PROVE  /\ UNCHANGED hw_breakpoints
             /\ watchpoints' \in Seq(Watchpoint) /\ Ordered(watchpoints')
  <2> DEFINE key == RangeOf(request)
             i == LowerBound(watchpoints, key)
  <2>1. CASE Finds(watchpoints, key)
    <3>1. UNCHANGED hw_breakpoints /\ watchpoints' = Erased(watchpoints, i) /\ i <= Len(watchpoints)
      BY <1>7, <2>1 DEF handle_remove_watchpoint, Finds
    <3>2. i \in 1 .. Len(watchpoints) + 1
      BY <1>1, RequestType, LowerBoundExists
    <3>3. i \in 1 .. Len(watchpoints)
      <4> HIDE DEF i
      <4> QED BY <1>1, <3>1, <3>2
    <3> HIDE DEF i
    <3> QED BY <1>1, <3>1, <3>3, ErasedOrdered
  <2>2. CASE ~ Finds(watchpoints, key)
    BY <1>1, <1>7, <2>2 DEF handle_remove_watchpoint
  <2> QED BY <2>1, <2>2
<1>8. CASE Edit
  <2>1. PICK request \in Requests : parse_Z(request) \/ parse_z(request)
    BY <1>8 DEF Edit
  <2>2. CASE parse_Z(request)
    <3>1. \/ handle_add_breakpoint(request.type = 1, request.address, request.length,
                                   request.cond)
          \/ handle_add_watchpoint(request.type \in {2, 4}, request.type \in {3, 4},
                                   RangeOf(request))
          \/ UNCHANGED stopPoints
      BY <2>2 DEF parse_Z, Unknown
    <3>2. (request.type \in {2, 4}) \in BOOLEAN /\ (request.type \in {3, 4}) \in BOOLEAN
      OBVIOUS
    <3>3. CASE handle_add_breakpoint(request.type = 1, request.address, request.length,
                                     request.cond)
      BY <1>1, <1>4, <3>3
    <3>4. CASE handle_add_watchpoint(request.type \in {2, 4}, request.type \in {3, 4},
                                     RangeOf(request))
      BY <1>3, <1>6, <3>2, <3>4
    <3>5. CASE UNCHANGED stopPoints
      BY <1>1, <1>3, <3>5 DEF stopPoints
    <3> QED BY <3>1, <3>3, <3>4, <3>5
  <2>3. CASE parse_z(request)
    <3>1. \/ handle_remove_breakpoint(request.type = 1, request.address)
          \/ handle_remove_watchpoint(RangeOf(request))
          \/ UNCHANGED stopPoints
      BY <2>3 DEF parse_z, Unknown
    <3> QED BY <1>1, <1>3, <1>5, <1>7, <3>1 DEF stopPoints
  <2> QED BY <2>1, <2>2, <2>3
<1>9. CASE UNCHANGED stopPoints
  BY <1>1, <1>3, <1>9 DEF stopPoints
<1> QED BY <1>8, <1>9

LEMMA InitInvariant == StopPointsInit => IInv
<1> SUFFICES ASSUME StopPointsInit PROVE IInv
  OBVIOUS
<1>1. watchpoints = << >> /\ DOMAIN hw_breakpoints = {}
  BY DEF StopPointsInit
<1> QED BY <1>1 DEF IInv, StopPointsTypeOK, InOrder

LEMMA InvariantImplies == IInv => WatchpointsApart
<1> SUFFICES ASSUME IInv PROVE WatchpointsApart
  OBVIOUS
<1>1. watchpoints \in Seq(Watchpoint) /\ Ordered(watchpoints) /\ InOrder
  BY DEF IInv, StopPointsTypeOK, InOrder, Ordered
<1>2. ASSUME NEW i \in DOMAIN watchpoints, NEW j \in DOMAIN watchpoints, i # j,
             ~ Wraps(watchpoints[i].range), ~ Wraps(watchpoints[j].range)
      PROVE  Apart(watchpoints[i].range, watchpoints[j].range)
  <2>1. watchpoints[i].range \in Ranges /\ watchpoints[j].range \in Ranges
    BY <1>1, ElementRange
  <2>2. CASE i < j
    BY <1>1, <1>2, <2>1, <2>2, LessIsApart DEF Ordered
  <2>3. CASE j < i
    <3>1. Apart(watchpoints[j].range, watchpoints[i].range)
      BY <1>1, <1>2, <2>1, <2>3, LessIsApart DEF Ordered
    <3> QED BY <3>1 DEF Apart
  <2> QED BY <1>1, <1>2, <2>2, <2>3
<1>3. ASSUME NEW request \in Requests PROVE Partitions(RangeOf(request))
  BY <1>1, RequestType, OrderedPartitions DEF Partitions
<1> QED BY <1>1, <1>2, <1>3 DEF WatchpointsApart

(***************************************************************************)
(* The maps keep their types (emulator-debug.cpp:192-272).                 *)
(***************************************************************************)
THEOREM StopPointsTypeSafe == StopPointsSpec => []StopPointsTypeOK
<1>1. IInv => StopPointsTypeOK
  BY DEF IInv
<1> QED BY <1>1, InitInvariant, EditKeepsInvariant, PTL DEF StopPointsSpec

(***************************************************************************)
(* Whatever GDB sets and clears, the watchpoints stay in order, those that *)
(* do not wrap stay apart, and every search of a command is well-defined   *)
(* (emulator-debug.cpp:192-272, addr-range.hpp:21-32).                     *)
(***************************************************************************)
THEOREM WatchpointsStayApart == StopPointsSpec => []WatchpointsApart
  BY InitInvariant, EditKeepsInvariant, InvariantImplies, PTL DEF StopPointsSpec

(***************************************************************************)
(* The search of check_watchpoint is well-defined as well, whatever the    *)
(* address (emulator-debug.cpp:53-57).                                     *)
(***************************************************************************)
THEOREM AccessesAreFound ==
    StopPointsSpec => [](\A a \in Address : 4 \in Address => Partitions(Accessed(a)))
<1>1. IInv => \A a \in Address : 4 \in Address => Partitions(Accessed(a))
  <2> SUFFICES ASSUME IInv, NEW a \in Address, 4 \in Address
               PROVE  Partitions(Accessed(a))
    OBVIOUS
  <2>1. watchpoints \in Seq(Watchpoint) /\ Ordered(watchpoints)
    BY DEF IInv, StopPointsTypeOK, InOrder, Ordered
  <2>2. Accessed(a) \in Ranges
    BY DEF Accessed, Ranges
  <2> QED BY <2>1, <2>2, OrderedPartitions DEF Partitions
<1> QED BY <1>1, InitInvariant, EditKeepsInvariant, PTL DEF StopPointsSpec

-----------------------------------------------------------------------------
(* The commands that edit the stop points are the only ones that do *)

LEMMA MachineKeepsStopPoints == [Next]_debugged => [Edit]_stopPoints
<1> SUFFICES ASSUME [Next]_debugged PROVE Edit \/ UNCHANGED stopPoints
  OBVIOUS
<1>1. CASE UNCHANGED debugged
  BY <1>1 DEF debugged
<1>2. CASE handle_reg_write
  BY <1>2 DEF handle_reg_write
<1>3. CASE EditStopPoints
  BY <1>3 DEF EditStopPoints
<1>4. CASE handle_continue \/ handle_steps
  BY <1>4 DEF handle_continue, handle_steps, Start
<1>5. CASE Interrupt
  BY <1>5 DEF Interrupt
<1>6. CASE Worker
  BY <1>6 DEF Worker, tick_one_cycle, Check, StartEvaluation, Evaluate, Evaluated, Finish
<1> QED BY <1>1, <1>2, <1>3, <1>4, <1>5, <1>6 DEF Next, Command

LEMMA DebuggerEditsStopPoints == DebuggedSpec => StopPointsSpec
<1>1. DebuggedInit => StopPointsInit
  BY DEF DebuggedInit
<1> QED BY <1>1, MachineKeepsStopPoints, PTL DEF DebuggedSpec, StopPointsSpec

(***************************************************************************)
(* The commands of GDB and the running machine interleave, and the         *)
(* watchpoints stay apart: only the handlers of the Z and z commands edit  *)
(* them (main/src/emulator-debug.cpp:192-272).                             *)
(***************************************************************************)
THEOREM DebuggedWatchpointsApart == DebuggedSpec => []WatchpointsApart
  BY DebuggerEditsStopPoints, WatchpointsStayApart

-----------------------------------------------------------------------------
(* What GDB writes *)

Cpus == [pc : Word, registers : Registers, csr : CsrStates]

LEMMA RegisterWrittenType ==
    ASSUME NEW cpu \in Cpus, NEW number \in Nat, NEW value \in Word
    PROVE  RegisterWritten(cpu, number, value) \in Cpus
<1> HIDE DEF Word
<1>1. /\ cpu = [pc |-> cpu.pc, registers |-> cpu.registers, csr |-> cpu.csr]
      /\ cpu.pc \in Word /\ cpu.registers \in Registers /\ cpu.csr \in CsrStates
  BY DEF Cpus
<1>2. CASE number \in Register \ {0}
  <2>1. number # PcNumber /\ number \notin CsrNumbers
    BY <1>2, RegisterAssumption DEF PcNumber, CsrNumbers
  <2>2. RegisterWritten(cpu, number, value) = [cpu EXCEPT !.registers[number] = value]
    BY <1>2, <2>1 DEF RegisterWritten
  <2> DEFINE after == [cpu.registers EXCEPT ![number] = value]
  <2>3. [cpu EXCEPT !.registers[number] = value]
            = [pc |-> cpu.pc, registers |-> after, csr |-> cpu.csr]
    BY <1>1
  <2>4. after \in Registers
    <3>1. /\ cpu.registers \in [Register -> Word] /\ cpu.registers[0] = 0 /\ 0 \in Register
          /\ number \in Register /\ number # 0
      BY <1>1, <1>2, RegisterAssumption DEF Registers
    <3> QED BY <3>1 DEF Registers
  <2> HIDE DEF after
  <2> QED BY <1>1, <2>2, <2>3, <2>4 DEF Cpus
<1>3. CASE number = PcNumber
  <2>1. number \notin Register /\ number \notin CsrNumbers
    BY <1>3, RegisterAssumption DEF PcNumber, CsrNumbers
  <2>2. RegisterWritten(cpu, number, value) = [cpu EXCEPT !.pc = value]
    BY <1>3, <2>1 DEF RegisterWritten
  <2> QED BY <1>1, <2>2 DEF Cpus
<1> DEFINE access == CsrAccess("Overwrite", number, value)
<1>4. CASE number \in CsrNumbers /\ ~ CsrFails(access)
  <2>1. number \notin Register /\ number # PcNumber
    BY <1>4, RegisterAssumption DEF PcNumber, CsrNumbers
  <2>2. RegisterWritten(cpu, number, value) = [cpu EXCEPT !.csr = CsrAfter(access, cpu.csr)]
    BY <1>4, <2>1 DEF RegisterWritten
  <2>3. CsrAfter(access, cpu.csr) \in CsrStates
    BY <1>1, CsrAfterType
  <2> HIDE DEF access
  <2> QED BY <1>1, <2>2, <2>3 DEF Cpus
<1>5. CASE /\ number \notin Register \ {0} /\ number # PcNumber
           /\ ~ (number \in CsrNumbers /\ ~ CsrFails(access))
  BY <1>5 DEF RegisterWritten
<1> QED BY <1>2, <1>3, <1>4, <1>5

LEMMA RegistersWrittenType ==
    ASSUME TypeOK, handle_reg_write
    PROVE  pc' \in Word /\ registers' \in Registers /\ csr' \in CsrStates
<1>1. PICK values \in Writes :
          LET after[n \in 0 .. Len(values)] ==
                  IF n = 0 THEN [pc |-> pc, registers |-> registers, csr |-> csr]
                  ELSE RegisterWritten(after[n - 1], values[n].number, values[n].value)
          IN  /\ pc' = after[Len(values)].pc
              /\ registers' = after[Len(values)].registers
              /\ csr' = after[Len(values)].csr
  BY DEF handle_reg_write
<1> DEFINE len == Len(values)
           cpu == [pc |-> pc, registers |-> registers, csr |-> csr]
           Written(n, s) == RegisterWritten(s, values[n].number, values[n].value)
           G == [p \in (1 .. len) \X Cpus |-> Written(p[1], p[2])]
           Unfold(f) == [n \in 0 .. len |->
               IF n = 0 THEN cpu
               ELSE RegisterWritten(f[n - 1], values[n].number, values[n].value)]
           after == CHOOSE f : f = Unfold(f)
<1>2. cpu \in Cpus
  BY TypeParts DEF Cpus
<1>3. values \in Seq([number : Nat, value : Word]) /\ len \in Nat
  <2>1. Writes \subseteq Seq([number : Nat, value : Word])
    BY DebuggedAssumption
  <2>2. values \in Seq([number : Nat, value : Word])
    BY <2>1
  <2> QED BY <2>2
<1>4. ASSUME NEW n \in 1 .. len, NEW s \in Cpus PROVE Written(n, s) \in Cpus
  <2>1. values[n] \in [number : Nat, value : Word]
    <3> DEFINE Pairs == [number : Nat, value : Word]
    <3>1. values \in Seq(Pairs) /\ n \in 1 .. Len(values)
      BY <1>3
    <3> HIDE DEF Pairs
    <3>2. values[n] \in Pairs
      BY <3>1
    <3> QED BY <3>2 DEF Pairs
  <2>2. values[n].number \in Nat /\ values[n].value \in Word
    BY <2>1
  <2> QED BY <2>2, RegisterWrittenType
<1>5. pc' = after[len].pc /\ registers' = after[len].registers /\ csr' = after[len].csr
  BY <1>1
<1> HIDE DEF cpu, len
<1>6. G \in StepFunctions(len, Cpus)
  <2> HIDE DEF Written
  <2> QED BY <1>4 DEF StepFunctions
<1>7. PICK f : IsRecursion(f, len, Cpus, cpu, G)
  <2> HIDE DEF G, Cpus
  <2> QED BY <1>2, <1>3, <1>6, RecursionExists
<1>8. f = Unfold(f)
  <2>1. f \in [0 .. len -> Cpus] /\ f[0] = cpu
    BY <1>7 DEF IsRecursion
  <2>2. ASSUME NEW n \in 1 .. len PROVE f[n] = Written(n, f[n - 1])
    <3>1. f[n - 1] \in Cpus
      <4> HIDE DEF Cpus, G
      <4>1. n - 1 \in 0 .. len
        BY <1>3
      <4> QED BY <2>1, <4>1
    <3>2. f[n] = G[<< n, f[n - 1] >>]
      <4> HIDE DEF G
      <4> QED BY <1>7 DEF IsRecursion
    <3> HIDE DEF Written
    <3> QED BY <3>1, <3>2
  <2>3. ASSUME NEW n \in 0 .. len PROVE f[n] = IF n = 0 THEN cpu ELSE Written(n, f[n - 1])
    <3> HIDE DEF Written
    <3>1. n = 0 \/ n \in 1 .. len
      BY <1>3
    <3> QED BY <2>1, <2>2, <3>1
  <2>4. f = [n \in 0 .. len |-> f[n]]
    BY <2>1
  <2> QED BY <2>3, <2>4
<1>9. after = Unfold(after)
  <2> HIDE DEF Unfold
  <2> QED BY <1>8
<1>10. after[0] \in Cpus /\ \A n \in 1 .. len : after[n - 1] \in Cpus => after[n] \in Cpus
  <2>1. \A n \in 0 .. len : after[n] = IF n = 0 THEN cpu ELSE Written(n, after[n - 1])
    <3> HIDE DEF after
    <3> QED BY <1>9
  <2> HIDE DEF after, Written
  <2> QED BY <1>2, <1>3, <1>4, <2>1
<1>11. after[len] \in Cpus
  <2> HIDE DEF after
  <2>1. \A n \in 0 .. len : after[n] \in Cpus
    BY <1>3, <1>10, RecursionType
  <2> QED BY <1>3, <2>1
<1> HIDE DEF after
<1> QED BY <1>5, <1>11 DEF Cpus

-----------------------------------------------------------------------------
(* The machine's types under the debugger *)

LEMMA DebuggerKeepsMachine == TypeOK /\ [Next]_debugged => TypeOK'
<1> SUFFICES ASSUME TypeOK, [Next]_debugged PROVE TypeOK'
  OBVIOUS
<1>1. CASE UNCHANGED vars
  BY <1>1 DEF vars, TypeOK
<1>2. CASE handle_reg_write
  <2>1. memory' = memory /\ result' = result
    BY <1>2 DEF handle_reg_write
  <2> QED BY <1>2, <2>1, RegistersWrittenType DEF TypeOK, Registers, CsrStates
<1>3. CASE handle_continue \/ handle_steps
  <2>1. /\ pc' = pc \/ pc' \in ResumeAddresses
        /\ UNCHANGED << registers, csr, memory, result >>
    BY <1>3 DEF handle_continue, handle_steps, Start
  <2>2. pc' \in Word
    BY <2>1, DebuggedAssumption DEF TypeOK
  <2> QED BY <2>1, <2>2 DEF TypeOK
<1>4. CASE tick_one_cycle
  BY <1>4, CycleKeepsType DEF tick_one_cycle
<1>5. CASE EditStopPoints \/ Interrupt
  BY <1>1, <1>5 DEF EditStopPoints, Interrupt
<1>6. CASE Check \/ StartEvaluation \/ Evaluate \/ Evaluated
  BY <1>1, <1>6 DEF Check, StartEvaluation, Evaluate, Evaluated, Finish
<1>7. CASE UNCHANGED debugged
  BY <1>1, <1>7 DEF debugged
<1> QED BY <1>2, <1>3, <1>4, <1>5, <1>6, <1>7 DEF Next, Command, Worker

LEMMA DebuggedMachineTypes == DebuggedSpec => []TypeOK
<1>1. DebuggedInit => TypeOK
  BY InitType DEF DebuggedInit
<1> QED BY <1>1, DebuggerKeepsMachine, PTL DEF DebuggedSpec

(***************************************************************************)
(* What the ALU computes is the operation on numbers also after GDB has    *)
(* written any registers, since it writes words                            *)
(* (lib/core/alu.cpp:29-150).                                              *)
(***************************************************************************)
THEOREM DebuggedArithmeticExact == DebuggedSpec => []ArithmeticIsExact
<1>1. TypeOK => ArithmeticIsExact
  BY OperationsAreExact DEF ArithmeticIsExact, TypeOK
<1> QED BY <1>1, DebuggedMachineTypes, PTL

-----------------------------------------------------------------------------
(* What the loop of a run knows between its steps *)

LoopInv ==
    /\ phase # "stopped" => reply = "none" /\ budget # 0
    /\ phase = "evaluate" => Conditional
    /\ phase = "tick" /\ ~ fresh => ~ Unconditional

LoopTypes ==
    /\ reply \in Replies /\ phase \in Phases /\ budget \in Nat \cup {Unlimited}
    /\ interrupt \in BOOLEAN /\ fresh \in BOOLEAN /\ edits \in 0 .. MaxEdits

DebuggedInv == TypeOK /\ IInv /\ LoopTypes /\ LoopInv

StopReasons == {"none", "trap", "int", "hwbreak", "watch", "rwatch"}

KindReported == IF result.access.memory = "Store" THEN "watch" ELSE "rwatch"

LEMMA StopReasonValue ==
    ASSUME NEW hits
    PROVE  /\ StopReason(hits) \in StopReasons
           /\ StopReason(hits) = "hwbreak" => hits
           /\ StopReason(hits) = "none" =>
                  /\ ~ hits /\ budget # 1
                  /\ ~ check_watchpoint(result.access.memory, result.access.address)
           /\ StopReason(hits) \in {"watch", "rwatch"} =>
                  /\ check_watchpoint(result.access.memory, result.access.address)
                  /\ StopReason(hits) = KindReported
<1> DEFINE hit == check_watchpoint(result.access.memory, result.access.address)
<1>1. CASE hits
  <2>1. StopReason(hits) = "hwbreak"
    BY <1>1 DEF StopReason
  <2> QED BY <1>1, <2>1 DEF StopReasons
<1>2. CASE ~ hits /\ hit
  <2>1. StopReason(hits) = KindReported /\ KindReported \in {"watch", "rwatch"}
    BY <1>2 DEF StopReason, KindReported
  <2> HIDE DEF hit
  <2> QED BY <1>2, <2>1 DEF StopReasons, hit
<1>3. CASE ~ hits /\ ~ hit /\ interrupt
  <2>1. StopReason(hits) = "int"
    BY <1>3 DEF StopReason
  <2> QED BY <2>1 DEF StopReasons
<1>4. CASE ~ hits /\ ~ hit /\ ~ interrupt
  <2>1. StopReason(hits) = IF budget = 1 THEN "trap" ELSE "none"
    BY <1>4 DEF StopReason
  <2> HIDE DEF hit
  <2> QED BY <1>4, <2>1 DEF StopReasons, hit
<1> QED BY <1>1, <1>2, <1>3, <1>4

(* How a turn of the loop ends. *)
LEMMA FinishStep ==
    ASSUME NEW hits, Finish(hits)
    PROVE  /\ reply' \in StopReasons
           /\ reply' = "hwbreak" => hits
           /\ phase' \in {"tick", "stopped"} /\ (phase' = "tick" <=> reply' = "none")
           /\ phase' = "tick" =>
                  /\ ~ hits /\ budget # 1
                  /\ ~ check_watchpoint(result.access.memory, result.access.address)
                  /\ budget' = IF budget = Unlimited THEN Unlimited ELSE budget - 1
           /\ phase' = "stopped" => budget' = 0
           /\ reply' \in {"watch", "rwatch"} =>
                  /\ check_watchpoint(result.access.memory, result.access.address)
                  /\ reply' = KindReported
           /\ ~ fresh'
           /\ UNCHANGED << vars, stopPoints >>
<1>1. /\ reply' = StopReason(hits)
      /\ phase' = IF reply' = "none" THEN "tick" ELSE "stopped"
      /\ budget' = IF reply' # "none" THEN 0
                   ELSE IF budget = Unlimited THEN Unlimited ELSE budget - 1
      /\ fresh' = FALSE
      /\ UNCHANGED << vars, stopPoints >>
  BY DEF Finish
<1> QED BY <1>1, StopReasonValue

LEMMA EditReply == Edit => reply' \in Statuses
<1> SUFFICES ASSUME Edit PROVE reply' \in Statuses
  OBVIOUS
<1>1. PICK request \in Requests : parse_Z(request) \/ parse_z(request)
  BY DEF Edit
<1> QED BY <1>1 DEF parse_Z, parse_z, Unknown, handle_add_breakpoint, handle_add_watchpoint,
                    handle_remove_breakpoint, handle_remove_watchpoint, Statuses

LEMMA StartStep ==
    ASSUME NEW cycles \in Nat \cup {Unlimited}, Start(cycles), LoopTypes
    PROVE  LoopTypes' /\ LoopInv'
<1>1. /\ phase = "stopped"
      /\ edits' = edits \/ (edits < MaxEdits /\ edits' = edits + 1)
      /\ phase' = IF cycles = 0 THEN "stopped" ELSE "tick"
      /\ reply' = IF cycles = 0 THEN "trap" ELSE "none"
      /\ budget' = cycles /\ interrupt' = FALSE /\ fresh' = TRUE
  BY DEF Start
<1>2. edits' \in 0 .. MaxEdits
  BY <1>1, DebuggedAssumption DEF LoopTypes
<1>3. phase' \in {"stopped", "tick"} /\ reply' \in {"trap", "none"}
      /\ budget' \in Nat \cup {Unlimited}
  BY <1>1
<1>4. phase' # "stopped" => reply' = "none" /\ budget' # 0
  BY <1>1
<1>5. interrupt' \in BOOLEAN /\ fresh' \in BOOLEAN
  BY <1>1, Zenon
<1>6. phase' # "evaluate" /\ ~ (phase' = "tick" /\ ~ fresh')
  BY <1>1, <1>3
<1> QED BY <1>2, <1>3, <1>4, <1>5, <1>6 DEF LoopTypes, LoopInv, Replies, Phases

LEMMA FinishKeepsLoop ==
    ASSUME NEW hits, Finish(hits), Unconditional => hits, phase # "stopped",
           LoopTypes, LoopInv
    PROVE  LoopTypes' /\ LoopInv'
<1>1. /\ reply' \in StopReasons /\ phase' \in {"tick", "stopped"}
      /\ phase' = "tick" <=> reply' = "none"
      /\ phase' = "tick" => /\ ~ hits /\ budget # 1
                            /\ budget' = IF budget = Unlimited THEN Unlimited ELSE budget - 1
      /\ phase' = "stopped" => budget' = 0
      /\ UNCHANGED << vars, stopPoints >>
  BY FinishStep
<1>2. interrupt' = (interrupt /\ reply' = "none") /\ fresh' = FALSE /\ edits' = edits
  BY DEF Finish
<1>3. interrupt' \in BOOLEAN /\ fresh' \in BOOLEAN
  BY <1>2, Zenon
<1>4. budget \in Nat \cup {Unlimited} /\ budget # 0
  BY DEF LoopTypes, LoopInv
<1>5. budget' \in Nat \cup {Unlimited} /\ (phase' = "tick" => budget' # 0)
  BY <1>1, <1>4 DEF Unlimited
<1>6. Unconditional' <=> Unconditional
  BY <1>1 DEF Unconditional, check_breakpoint, vars, stopPoints
<1>7. phase' = "tick" => ~ Unconditional'
  BY <1>1, <1>6
<1>8. reply' \in Replies /\ edits' \in 0 .. MaxEdits /\ phase' \in Phases
  BY <1>1, <1>2 DEF StopReasons, Replies, LoopTypes, Phases
<1>9. phase' # "stopped" => reply' = "none" /\ budget' # 0
  BY <1>1, <1>5
<1> QED BY <1>1, <1>3, <1>5, <1>7, <1>8, <1>9 DEF LoopTypes, LoopInv

(* Steps that leave the loop's own variables alone, but for the phase. *)
LEMMA QuietStep ==
    ASSUME UNCHANGED << hw_breakpoints, reply, budget, fresh, edits >>,
           interrupt' \in BOOLEAN, phase' \in Phases,
           phase' = "stopped" <=> phase = "stopped",
           phase' = "evaluate" => Conditional', phase' = "tick" => phase = "tick" /\ pc' = pc,
           LoopTypes, LoopInv
    PROVE  LoopTypes' /\ LoopInv'
<1>1. phase' = "tick" => (Unconditional' <=> Unconditional)
  BY DEF Unconditional, check_breakpoint
<1>2. LoopTypes'
  BY DEF LoopTypes
<1>3. phase' # "stopped" => reply' = "none" /\ budget' # 0
  BY DEF LoopInv
<1>4. phase' = "tick" /\ ~ fresh' => ~ Unconditional'
  BY <1>1 DEF LoopInv
<1> QED BY <1>2, <1>3, <1>4 DEF LoopInv

LEMMA LoopStep ==
    ASSUME LoopTypes, LoopInv, [Next]_debugged
    PROVE  LoopTypes' /\ LoopInv'
<1>1. CASE UNCHANGED debugged
  BY <1>1 DEF debugged, vars, stopPoints, run, LoopTypes, LoopInv, Conditional, Unconditional,
              check_breakpoint
<1>2. CASE handle_reg_write \/ EditStopPoints
  <2>1. /\ phase = "stopped" /\ edits < MaxEdits /\ edits' = edits + 1 /\ UNCHANGED run
        /\ reply' \in Statuses
    BY <1>2, EditReply DEF handle_reg_write, EditStopPoints, Statuses
  <2>2. phase' = phase /\ budget' = budget /\ interrupt' = interrupt /\ fresh' = fresh
    BY <2>1 DEF run
  <2>3. edits' \in 0 .. MaxEdits
    BY <2>1, DebuggedAssumption DEF LoopTypes
  <2>4. LoopInv'
    BY <2>1, <2>2 DEF LoopInv
  <2> QED BY <2>1, <2>2, <2>3, <2>4 DEF LoopTypes, Replies
<1>3. CASE handle_continue
  BY <1>3, StartStep DEF handle_continue
<1>4. CASE handle_steps
  <2>1. PICK n \in StepCounts : Start(n)
    BY <1>4 DEF handle_steps
  <2>2. n \in Nat
    BY DebuggedAssumption
  <2> QED BY <2>1, <2>2, StartStep
<1>5. CASE Interrupt
  <2>1. /\ interrupt' = TRUE /\ UNCHANGED << vars, stopPoints, reply, phase, budget, fresh, edits >>
    BY <1>5 DEF Interrupt
  <2>2. interrupt' \in BOOLEAN
    BY <2>1, Zenon
  <2>3. /\ UNCHANGED << hw_breakpoints, reply, budget, fresh, edits >> /\ phase' = phase /\ pc' = pc
        /\ phase' \in Phases
    BY <2>1 DEF vars, stopPoints, LoopTypes
  <2>4. Conditional' <=> Conditional
    BY <2>3 DEF Conditional, check_breakpoint
  <2>5. phase' = "evaluate" => Conditional'
    BY <2>3, <2>4 DEF LoopInv
  <2> QED BY <2>2, <2>3, <2>5, QuietStep
<1>6. CASE tick_one_cycle
  <2>1. /\ UNCHANGED << hw_breakpoints, reply, budget, fresh, edits, interrupt >>
        /\ phase = "tick" /\ phase' = "check"
    BY <1>6 DEF tick_one_cycle, stopPoints
  <2>2. interrupt' \in BOOLEAN
    BY <2>1 DEF LoopTypes
  <2> QED BY <2>1, <2>2, QuietStep DEF Phases
<1>7. CASE Check
  <2>1. phase = "check" /\ Finish(Unconditional)
    BY <1>7 DEF Check
  <2> HIDE DEF Finish, Unconditional
  <2> QED BY <2>1, FinishKeepsLoop
<1>8. CASE Evaluated
  <2>1. phase = "evaluate" /\ Finish(Triggers(evaluation))
    BY <1>8 DEF Evaluated
  <2>2. ~ Unconditional
    BY <2>1 DEF LoopInv, Conditional, Unconditional
  <2> QED BY <2>1, <2>2, FinishKeepsLoop
<1>9. CASE StartEvaluation
  <2>1. /\ UNCHANGED << hw_breakpoints, reply, budget, fresh, edits, interrupt, pc >>
        /\ phase = "check" /\ Conditional /\ phase' = "evaluate"
    BY <1>9 DEF StartEvaluation, stopPoints, vars
  <2>2. interrupt' \in BOOLEAN /\ Conditional'
    BY <2>1 DEF LoopTypes, Conditional, check_breakpoint
  <2> QED BY <2>1, <2>2, QuietStep DEF Phases
<1>10. CASE Evaluate
  <2>1. /\ UNCHANGED << hw_breakpoints, reply, budget, fresh, edits, interrupt, pc >>
        /\ phase = "evaluate" /\ phase' \in {"evaluate", "killed"}
    BY <1>10 DEF Evaluate, stopPoints, vars
  <2>2. Conditional /\ interrupt' \in BOOLEAN
    BY <2>1 DEF LoopInv, LoopTypes
  <2>3. Conditional'
    BY <2>1, <2>2 DEF Conditional, check_breakpoint
  <2> QED BY <2>1, <2>2, <2>3, QuietStep DEF Phases
<1> QED BY <1>1, <1>2, <1>3, <1>4, <1>5, <1>6, <1>7, <1>8, <1>9, <1>10
        DEF Next, Command, Worker

LEMMA DebuggedInvariant == DebuggedSpec => []DebuggedInv
<1>1. DebuggedInit => DebuggedInv
  <2> SUFFICES ASSUME DebuggedInit PROVE DebuggedInv
    OBVIOUS
  <2>1. /\ Init /\ StopPointsInit /\ phase = "stopped" /\ budget = 0 /\ edits = 0
        /\ reply = "none" /\ interrupt = FALSE /\ fresh = FALSE
    BY DEF DebuggedInit, StopPointsInit
  <2>2. interrupt \in BOOLEAN /\ fresh \in BOOLEAN
    BY <2>1, Zenon
  <2>3. edits \in 0 .. MaxEdits
    BY <2>1, DebuggedAssumption
  <2>4. LoopTypes /\ LoopInv
    BY <2>1, <2>2, <2>3 DEF LoopTypes, LoopInv, Replies, Phases
  <2> QED BY <2>1, <2>4, InitType, InitInvariant DEF DebuggedInv
<1>2. DebuggedInv /\ [Next]_debugged => DebuggedInv'
  BY DebuggerKeepsMachine, MachineKeepsStopPoints, EditKeepsInvariant, LoopStep DEF DebuggedInv
<1> QED BY <1>1, <1>2, PTL DEF DebuggedSpec

-----------------------------------------------------------------------------
(* What an access hits *)

LEMMA ApartIsLess ==
    ASSUME NEW r \in Ranges, NEW s \in Ranges, ~ Wraps(r), ~ Wraps(s), Apart(r, s)
    PROVE  Less(r, s) \/ Less(s, r)
<1>1. /\ r.start \in Nat /\ r.size \in Nat /\ s.start \in Nat /\ s.size \in Nat
      /\ End(r) = r.start + r.size /\ End(s) = s.start + s.size
  BY EndValue, SpaceAssumption DEF Address
<1> QED BY <1>1, LessValue DEF Apart

LEMMA OverlapIsNotLess ==
    ASSUME NEW r \in Ranges, NEW s \in Ranges, ~ Wraps(r), ~ Wraps(s),
           Bytes(r) \cap Bytes(s) # {}
    PROVE  ~ Less(r, s) /\ ~ Less(s, r)
<1>1. PICK b : b \in Bytes(r) /\ b \in Bytes(s)
  OBVIOUS
<1>2. /\ r.start \in Nat /\ r.size \in Nat /\ s.start \in Nat /\ s.size \in Nat
  BY EndValue, SpaceAssumption DEF Address
<1>3. /\ b >= r.start /\ b <= r.start + r.size - 1 /\ b \in Int
      /\ b >= s.start /\ b <= s.start + s.size - 1
  BY <1>1, <1>2 DEF Bytes
<1>4. ~ Apart(r, s) /\ ~ Apart(s, r)
  BY <1>2, <1>3 DEF Apart
<1> QED BY <1>4, LessIsApart

LEMMA AccessedRange ==
    ASSUME TypeOK
    PROVE  Accessed(result.access.address) \in Ranges
<1>1. result.access.address \in Word
  BY TypeParts DEF Results, AccessType
<1>2. Space = 2^XLEN /\ 2^XLEN \in Nat /\ 2^XLEN >= 256
  BY DebuggedAssumption, WordSize
<1>3. result.access.address \in Address /\ 4 \in Address
  BY <1>1, <1>2 DEF Word, Address
<1> QED BY <1>3 DEF Accessed, Ranges

(* An access that stops the run touches a watchpoint of its kind. *)
LEMMA HitIsNear ==
    ASSUME TypeOK, IInv, NEW opcode, NEW address, Accessed(address) \in Ranges,
           check_watchpoint(opcode, address), ~ Wraps(Accessed(address))
    PROVE  \E i \in Near(Accessed(address)) : Watches(watchpoints[i], opcode)
<1> DEFINE key == Accessed(address)
           i == LowerBound(watchpoints, key)
<1>1. watchpoints \in Seq(Watchpoint) /\ Ordered(watchpoints)
  BY DEF IInv, StopPointsTypeOK, InOrder, Ordered
<1>2. /\ i \in 1 .. Len(watchpoints) + 1
      /\ i <= Len(watchpoints) => ~ Less(watchpoints[i].range, key)
  BY <1>1, LowerBoundExists
<1>3. /\ i <= Len(watchpoints) /\ ~ Less(key, watchpoints[i].range)
      /\ Watches(watchpoints[i], opcode)
  BY DEF check_watchpoint, Finds, Watches
<1> HIDE DEF i
<1>4. i \in DOMAIN watchpoints
  BY <1>1, <1>2, <1>3
<1>5. watchpoints[i].range \in Ranges
  BY <1>1, <1>4, ElementRange
<1> HIDE DEF key
<1>6. Wraps(watchpoints[i].range) \/ ~ Apart(watchpoints[i].range, key)
  BY <1>2, <1>3, <1>5, ApartIsLess DEF key
<1> QED BY <1>3, <1>4, <1>6 DEF Near, key

(* An access that only one watchpoint is near of, and touches, finds it. *)
LEMMA NearIsHit ==
    ASSUME TypeOK, IInv, NEW opcode, opcode # "None", NEW address, Accessed(address) \in Ranges,
           ~ Wraps(Accessed(address)), NEW i \in DOMAIN watchpoints,
           Near(Accessed(address)) = {i}, ~ Wraps(watchpoints[i].range),
           Bytes(watchpoints[i].range) \cap Bytes(Accessed(address)) # {},
           Watches(watchpoints[i], opcode)
    PROVE  check_watchpoint(opcode, address)
<1> DEFINE key == Accessed(address)
           j == LowerBound(watchpoints, key)
<1>1. watchpoints \in Seq(Watchpoint) /\ Ordered(watchpoints)
  BY DEF IInv, StopPointsTypeOK, InOrder, Ordered
<1>2. /\ j \in 1 .. Len(watchpoints) + 1
      /\ \A k \in 1 .. j - 1 : Less(watchpoints[k].range, key)
      /\ j <= Len(watchpoints) => ~ Less(watchpoints[j].range, key)
  BY <1>1, LowerBoundExists
<1>3. watchpoints[i].range \in Ranges /\ i \in 1 .. Len(watchpoints)
  BY <1>1, ElementRange
<1>4. ~ Less(watchpoints[i].range, key) /\ ~ Less(key, watchpoints[i].range)
  <2> HIDE DEF key
  <2> QED BY <1>3, OverlapIsNotLess DEF key
<1> HIDE DEF j, key
<1>5. j \in 1 .. i
  BY <1>1, <1>2, <1>3, <1>4
<1>6. j = i
  <2>1. SUFFICES ASSUME j < i PROVE FALSE
    BY <1>3, <1>5
  <2>2. j \in DOMAIN watchpoints
    BY <1>1, <1>3, <1>5
  <2>3. watchpoints[j].range \in Ranges /\ ~ Less(watchpoints[j].range, key)
    BY <1>1, <1>2, <1>3, <1>5, <2>2, ElementRange
  <2>4. ~ Less(key, watchpoints[j].range)
    BY <1>1, <1>4, <2>1, <2>2, OrderedPartitions DEF key
  <2>5. Wraps(watchpoints[j].range) \/ ~ Apart(watchpoints[j].range, key)
    BY <2>3, <2>4, ApartIsLess DEF key
  <2>6. j \in Near(key)
    BY <2>2, <2>5 DEF Near
  <2> QED BY <1>3, <2>1, <2>6 DEF key
<1>7. Finds(watchpoints, key)
  BY <1>3, <1>4, <1>6 DEF Finds, j
<1>8. watchpoints[LowerBound(watchpoints, key)] = watchpoints[i]
  BY <1>6 DEF j
<1> QED BY <1>7, <1>8 DEF check_watchpoint, Watches, key

(* What the last cycle left in Result is the access it made, unless it trapped. *)
MadeInv ==
    /\ result.trap = NoTrap => made = result.access
    /\ made \in {NoMemory, result.access}

LEMMA CycleMakesAccess ==
    ASSUME TypeOK, Cycle, made' = AccessMade
    PROVE  MadeInv'
<1>1. CASE Retire
  <2>1. /\ Executes /\ ~ CsrFails(Current.access) /\ ~ AccessFails(Current)
        /\ result'.access = AccessOf(Current, Current.alu)
    BY <1>1 DEF Retire
  <2> QED BY <2>1 DEF AccessMade, MadeInv
<1>2. CASE ~ Retire
  <2>1. ~ (Executes /\ ~ CsrFails(Current.access) /\ ~ AccessFails(Current))
    BY <1>2 DEF Cycle, InstFault, DecodeFault, EnvCall, TimerInterrupt, CsrFault, MemoryFault,
                Executes, Legal
  <2>2. made' = NoMemory
    BY <2>1, Zenon DEF AccessMade
  <2>3. PICK trap \in Traps, tval \in Word, access \in AccessType :
            TakeTrap(trap, tval, access)
    BY <1>2, CycleIsTrapOrRetire DEF IsTrapStep
  <2>4. result'.trap # NoTrap
    BY <2>3, TrapsAreWords DEF TakeTrap
  <2> QED BY <2>2, <2>4 DEF MadeInv
<1> QED BY <1>1, <1>2

LEMMA MadeStep ==
    ASSUME TypeOK, MadeInv, [Next]_debugged
    PROVE  MadeInv'
<1>1. CASE tick_one_cycle
  BY <1>1, CycleMakesAccess DEF tick_one_cycle
<1>2. CASE UNCHANGED << result, made >>
  BY <1>2 DEF MadeInv
<1>3. Next => tick_one_cycle \/ UNCHANGED << result, made >>
  BY DEF Next, Command, Worker, handle_reg_write, EditStopPoints, run, vars, handle_continue,
         handle_steps, Start, Interrupt, Check, Evaluated, Finish, StartEvaluation, Evaluate
<1>4. UNCHANGED debugged => UNCHANGED << result, made >>
  BY DEF debugged, run, vars
<1> QED BY <1>1, <1>2, <1>3, <1>4

LEMMA MadeInvariant == DebuggedSpec => []MadeInv
<1>1. DebuggedInit => MadeInv
  BY DEF DebuggedInit, Init, MadeInv
<1>2. DebuggedInv => TypeOK
  BY DEF DebuggedInv
<1>3. TypeOK /\ MadeInv /\ [Next]_debugged => MadeInv'
  BY MadeStep
<1> QED BY <1>1, <1>2, <1>3, DebuggedInvariant, PTL DEF DebuggedSpec

WatchpointsStopStep ==
    LET range == Accessed(made.address)
    IN  /\ phase \in {"check", "evaluate"} /\ phase' = "tick" /\ made.memory # "None"
               /\ ~ Wraps(range)
               => ~ \E i \in DOMAIN watchpoints :
                        /\ Near(range) = {i} /\ ~ Wraps(watchpoints[i].range)
                        /\ Bytes(watchpoints[i].range) \cap Bytes(range) # {}
                        /\ Watches(watchpoints[i], made.memory)
        /\ phase # "stopped" /\ reply' \in {"watch", "rwatch"} /\ result.trap = NoTrap
               => /\ made.memory # "None"
                  /\ reply' = IF made.memory = "Store" THEN "watch" ELSE "rwatch"
                  /\ Wraps(range)
                         \/ \E i \in Near(range) : Watches(watchpoints[i], made.memory)

(* Every step of a running loop finishes a turn or leaves phase and reply. *)
LEMMA RunningStep ==
    ASSUME [Next]_debugged, DebuggedInv, phase # "stopped"
    PROVE  \/ /\ phase \in {"check", "evaluate"}
              /\ \E hits : Finish(hits) /\ (hits => check_breakpoint)
                           /\ (hits => Unconditional \/ Triggers(evaluation))
           \/ reply' = reply /\ ~ (phase \in {"check", "evaluate"} /\ phase' = "tick")
<1>1. CASE UNCHANGED debugged \/ Interrupt
  BY <1>1 DEF debugged, run, Interrupt
<1>2. CASE Command
  BY <1>2 DEF Command, handle_reg_write, EditStopPoints, handle_continue, handle_steps, Start
<1>3. CASE tick_one_cycle \/ StartEvaluation \/ Evaluate
  BY <1>3 DEF tick_one_cycle, StartEvaluation, Evaluate
<1>4. CASE Check
  <2>1. phase = "check" /\ Finish(Unconditional)
    BY <1>4 DEF Check
  <2>2. Unconditional => check_breakpoint
    BY DEF Unconditional
  <2> HIDE DEF Unconditional, Finish
  <2> QED BY <2>1, <2>2
<1>5. CASE Evaluated
  <2>1. phase = "evaluate" /\ Finish(Triggers(evaluation))
    BY <1>5 DEF Evaluated
  <2>2. check_breakpoint
    BY <2>1 DEF DebuggedInv, LoopInv, Conditional
  <2> QED BY <2>1, <2>2
<1> QED BY <1>1, <1>2, <1>3, <1>4, <1>5 DEF Next, Worker

LEMMA WatchpointsStopAtEachStep ==
    ASSUME DebuggedInv, MadeInv, [Next]_debugged
    PROVE  WatchpointsStopStep
<1> DEFINE address == made.address
           range == Accessed(address)
           opcode == made.memory
<1>1. TypeOK /\ IInv
  BY DEF DebuggedInv
<1>2. ASSUME phase \in {"check", "evaluate"}, phase' = "tick", opcode # "None", ~ Wraps(range),
             NEW i \in DOMAIN watchpoints, Near(range) = {i}, ~ Wraps(watchpoints[i].range),
             Bytes(watchpoints[i].range) \cap Bytes(range) # {},
             Watches(watchpoints[i], opcode)
      PROVE  FALSE
  <2>1. PICK hits : Finish(hits)
    BY <1>2, RunningStep
  <2>2. made = result.access
    BY <1>2 DEF MadeInv, NoMemory
  <2>3. ~ check_watchpoint(opcode, address)
    BY <1>2, <2>1, <2>2, FinishStep
  <2>4. range \in Ranges
    BY <1>1, <2>2, AccessedRange
  <2> HIDE DEF opcode, address
  <2> QED BY <1>1, <1>2, <2>3, <2>4, NearIsHit
<1>3. ASSUME phase # "stopped", reply' \in {"watch", "rwatch"}, result.trap = NoTrap
      PROVE  /\ opcode # "None"
             /\ reply' = IF opcode = "Store" THEN "watch" ELSE "rwatch"
             /\ Wraps(range) \/ \E i \in Near(range) : Watches(watchpoints[i], opcode)
  <2>1. reply = "none"
    BY <1>3 DEF DebuggedInv, LoopInv
  <2>2. PICK hits : Finish(hits)
    BY <1>3, <2>1, RunningStep
  <2>3. made = result.access
    BY <1>3 DEF MadeInv
  <2>4. /\ check_watchpoint(opcode, address)
        /\ reply' = IF opcode = "Store" THEN "watch" ELSE "rwatch"
    <3> HIDE DEF Finish, check_watchpoint
    <3> QED BY <1>3, <2>2, <2>3, FinishStep DEF KindReported
  <2>5. range \in Ranges
    BY <1>1, <2>3, AccessedRange
  <2>6. opcode # "None"
    BY <2>4 DEF check_watchpoint
  <2> HIDE DEF opcode, address
  <2>7. ~ Wraps(range) => \E i \in Near(range) : Watches(watchpoints[i], opcode)
    BY <1>1, <2>4, <2>5, HitIsNear
  <2> QED BY <2>4, <2>6, <2>7
<1> HIDE DEF Near, Watches, Bytes, Wraps
<1> QED BY <1>2, <1>3 DEF WatchpointsStopStep

(***************************************************************************)
(* No run goes on after an access to a word that one watchpoint of its     *)
(* kind shares a byte with and no other touches.  After a cycle without a  *)
(* trap a run reports a watchpoint only if the cycle made an access, of    *)
(* the kind reported, that touched a watchpoint of this kind, or one of    *)
(* the kind wraps (main/src/emulator-debug.cpp:37-62): for every program,  *)
(* address space and set of watchpoints that GDB has put there.            *)
(***************************************************************************)
THEOREM WatchpointsStopRuns == DebuggedSpec => WatchpointsStop
<1>1. DebuggedInv /\ MadeInv /\ [Next]_debugged => [WatchpointsStopStep]_debugged
  BY WatchpointsStopAtEachStep
<1> QED BY <1>1, DebuggedInvariant, MadeInvariant, PTL
        DEF DebuggedSpec, WatchpointsStop, WatchpointsStopStep

-----------------------------------------------------------------------------
(* The evaluation of conditions by the machine *)

(* What a condition sees of a machine in a legal state. *)
LEMMA SeenType ==
    ASSUME TypeOK
    PROVE  IsSeen(Seen)
<1> HIDE DEF Word
<1>1. /\ pc \in Word /\ registers \in [Register -> Word] /\ csr \in CsrStates
      /\ memory \in [Data -> Word]
  BY DEF TypeOK, CsrStates
<1>2. ASSUME NEW a \in ReadableBytes
      PROVE  (WordAtAddress(4 * (a \div 4)) \div 256^(a % 4)) % 256 \in Int
  <2>1. PICK w \in Data \cup DOMAIN Encoding : a \in w .. w + 3
    BY <1>2 DEF ReadableBytes
  <2>2. w \in Nat /\ w % 4 = 0
    BY <2>1, DataAssumption, ImageAssumption, WordSize DEF Word
  <2>3. 4 * (a \div 4) = w /\ a % 4 \in 0 .. 3
    BY <2>1, <2>2
  <2>4. WordAtAddress(w) \in Word
    BY <1>1, <2>1, ImageAssumption DEF WordAtAddress
  <2> DEFINE x == WordAtAddress(w)
             r == a % 4
             p == 256^r
  <2>5. x \in Nat
    <3> HIDE DEF x
    <3> QED BY <2>4, WordSize DEF Word, x
  <2>6. p \in Nat \ {0}
    <3> HIDE DEF r
    <3> QED BY <2>3, BytePowers DEF r
  <2> HIDE DEF x, p
  <2>7. (x \div p) % 256 \in Int
    BY <2>5, <2>6
  <2> QED BY <2>3, <2>7 DEF x, p
<1>3. ASSUME NEW n \in CsrNumbers
      PROVE  CsrResult(CsrAccess("None", n, 0), csr) \in Word
  <2>1. CsrOf[n] \in Csrs
    BY DEF CsrNumbers, CsrOf
  <2>2. ~ CsrFails(CsrAccess("None", n, 0))
    BY <2>1 DEF CsrFails, CsrAccess, WriteMask
  <2> QED BY <1>1, <2>2, CsrResultType
<1> DEFINE Disjoint(m) == /\ m \in Register => m # PcNumber /\ m \notin CsrNumbers
                          /\ m = PcNumber => m \notin CsrNumbers
<1>4. \A m : Disjoint(m)
  <2>1. Register \subseteq 0 .. 127 /\ PcNumber \notin Register /\ PcNumber \in 0 .. 127
    BY RegisterAssumption DEF PcNumber
  <2>2. ASSUME NEW m \in CsrNumbers PROVE m \notin 0 .. 127
    <3> DEFINE top == 2^13 - 1
    <3>1. m \in 128 .. top
      BY Zenon DEF CsrNumbers
    <3>2. top \in Int
      OBVIOUS
    <3> HIDE DEF CsrNumbers, top
    <3> QED BY <3>1, <3>2
  <2> HIDE DEF CsrNumbers, PcNumber
  <2> DEFINE Low == 0 .. 127
  <2> HIDE DEF Low
  <2>3. Register \subseteq Low /\ PcNumber \in Low /\ \A m \in CsrNumbers : m \notin Low
    BY <2>1, <2>2 DEF Low
  <2>4. \A m \in Register : m # PcNumber
    BY <2>1
  <2> QED BY <2>3, <2>4
<1>5. ASSUME NEW n \in DOMAIN Seen.register PROVE Seen.register[n] \in Word
  <2> DEFINE Read(m) ==
                 CASE m \in Register -> registers[m]
                   [] m = PcNumber -> pc
                   [] m \in CsrNumbers -> CsrResult(CsrAccess("None", m, 0), csr)
  <2>0. n \in Register \cup {PcNumber} \cup CsrNumbers /\ Seen.register[n] = Read(n)
    BY <1>5 DEF Seen
  <2>1. CASE n \in Register
    <3>1. n # PcNumber /\ n \notin CsrNumbers
      BY <1>4, <2>1
    <3>2. Read(n) = registers[n]
      BY <2>1, <3>1
    <3> QED BY <1>1, <2>0, <2>1, <3>2
  <2>2. CASE n = PcNumber
    <3>1. n \notin Register /\ n \notin CsrNumbers
      BY <1>4, <2>2
    <3>2. Read(n) = pc
      BY <2>2, <3>1
    <3> QED BY <1>1, <2>0, <3>2
  <2>3. CASE n \in CsrNumbers
    <3>1. n \notin Register /\ n # PcNumber
      BY <1>4, <2>3
    <3>2. Read(n) = CsrResult(CsrAccess("None", n, 0), csr)
      BY <2>3, <3>1
    <3> QED BY <1>3, <2>0, <2>3, <3>2
  <2> QED BY <2>0, <2>1, <2>2, <2>3
<1>6. ASSUME NEW a \in DOMAIN Seen.byte PROVE Seen.byte[a] \in Int
  BY <1>2 DEF Seen
<1> QED BY <1>5, <1>6 DEF IsSeen

(* A step of the debugger leaves an evaluation. *)
LEMMA EvaluationStep ==
    ASSUME DebuggedInv, evaluation \in Evaluations, [Next]_debugged
    PROVE  evaluation' \in Evaluations
<1>1. CASE Evaluate
  <2>1. phase = "evaluate" /\ TypeOK /\ Conditional
    BY <1>1 DEF Evaluate, DebuggedInv, LoopInv
  <2>2. hw_breakpoints[pc] \in Conditions
    BY <2>1 DEF DebuggedInv, IInv, StopPointsTypeOK, Conditional, check_breakpoint
  <2>3. BytesOf[hw_breakpoints[pc]] \in Codes
    BY <2>2, DebuggedAssumption DEF Codes
  <2>4. evaluation' = Step(evaluation, BytesOf[hw_breakpoints[pc]], Seen)
    BY <1>1 DEF Evaluate
  <2> QED BY <2>1, <2>3, <2>4, SeenType, StepType
<1>2. CASE Check \/ Evaluated
  <2>1. evaluation' = Begin
    BY <1>2 DEF Check, Evaluated, Finish
  <2> QED BY <2>1, BeginType
<1>3. CASE UNCHANGED evaluation
  BY <1>3
<1>4. Next => Evaluate \/ Check \/ Evaluated \/ UNCHANGED evaluation
  BY DEF Next, Command, Worker, handle_reg_write, EditStopPoints, run, handle_continue,
         handle_steps, Start, Interrupt, tick_one_cycle, StartEvaluation
<1>5. UNCHANGED debugged => UNCHANGED evaluation
  BY DEF debugged, run
<1> QED BY <1>1, <1>2, <1>3, <1>4, <1>5

(***************************************************************************)
(* No command of GDB's and no condition takes the machine, the stop points *)
(* or the state of the loop out of their types                             *)
(* (main/src/emulator-debug.cpp:37-472): in particular a condition's stack *)
(* holds words only, and its position is never negative, whatever the      *)
(* bytes of the condition are (lib/gdb-stub/expression.cpp:7-388).         *)
(***************************************************************************)
THEOREM DebuggedTypesCorrect == DebuggedSpec => []DebuggedTypeOK
<1>1. DebuggedInit => evaluation \in Evaluations
  BY BeginType DEF DebuggedInit
<1>2. DebuggedInv /\ evaluation \in Evaluations /\ [Next]_debugged => (evaluation \in Evaluations)'
  BY EvaluationStep
<1>3. TypeOK /\ MadeInv => made \in AccessType
  <2> SUFFICES ASSUME TypeOK, MadeInv PROVE made \in AccessType
    OBVIOUS
  <2>1. result.access \in AccessType
    BY TypeParts DEF Results
  <2>2. NoMemory \in AccessType
    BY WordSize DEF NoMemory, AccessType
  <2> QED BY <2>1, <2>2 DEF MadeInv
<1>4. DebuggedInv /\ MadeInv /\ evaluation \in Evaluations => DebuggedTypeOK
  BY <1>3 DEF DebuggedInv, LoopTypes, IInv, DebuggedTypeOK, AccessType
<1> QED BY <1>1, <1>2, <1>4, DebuggedInvariant, MadeInvariant, PTL DEF DebuggedSpec

(* The code of a tree among the conditions computes it, whatever it sees. *)
LEMMA TreeConditions ==
    ASSUME NEW tree \in OrderlessTrees, NEW env, IsSeen(env)
    PROVE  BytesOf[tree] \in Codes /\ Evaluates(tree, BytesOf[tree], env)
<1>1. tree \in Orderless /\ tree \in Conditions /\ BytesOf[tree] = Compiled(tree)
      /\ Len(BytesOf[tree]) < 2^16
  BY TreesAssumption DEF OrderlessTrees
<1>2. BytesOf[tree] \in Codes
  BY <1>1, DebuggedAssumption DEF Codes
<1> QED BY <1>1, <1>2, CompiledEvaluates

(***************************************************************************)
(* Whatever state the machine is in while it stands, the bytecode a        *)
(* condition compiles to takes the loop of execute() to the value of the   *)
(* condition's tree, alone on the stack, or to an error that execute()     *)
(* returns where the tree has none: a division by zero or an address that  *)
(* is not the memory's (lib/gdb-stub/expression.cpp:7-388).  It does so    *)
(* for every tree of the forest in which no operation minds the order of   *)
(* its operands, however deep, whose code jumps can address, for every     *)
(* register width and every memory.                                        *)
(***************************************************************************)
THEOREM ConditionsAlwaysCompute == DebuggedSpec => []ConditionsCompute
<1>1. TypeOK => ConditionsCompute
  <2> SUFFICES ASSUME TypeOK, NEW tree \in OrderlessTrees
               PROVE  Evaluates(tree, BytesOf[tree], Seen)
    BY DEF ConditionsCompute
  <2>1. IsSeen(Seen)
    BY SeenType
  <2> QED BY <2>1, TreeConditions
<1> QED BY <1>1, DebuggedMachineTypes, PTL

(* The value of a tree, as a condition. *)
IsTrue(tree, env) == Value(tree, env) \notin {0, Missing}

(* An evaluation that has ended triggers the breakpoint exactly if its tree says so. *)
LEMMA EndedTriggers ==
    ASSUME NEW tree \in OrderlessTrees, NEW env, IsSeen(env),
           NEW e, IsTurnOf(e, BytesOf[tree], env), e.outcome # "running"
    PROVE  Triggers(e) <=> IsTrue(tree, env)
<1> DEFINE code == BytesOf[tree]
           n == Len(code)
           v == Value(tree, env)
<1>1. code \in Codes /\ Evaluates(tree, code, env)
  BY TreeConditions
<1>2. PICK states : IsRun(states, code, env)
  BY <1>1, RunExists
<1>3. PICK k \in Nat : e = Executed(code, env, k)
  BY DEF IsTurnOf
<1>4. n \in Nat
  BY <1>1, CodesJoin
<1> HIDE DEF code, n, v
<1>5. states[k] = e /\ states[n] = Executed(code, env, n)
  BY <1>2, <1>3, <1>4 DEF IsRun
<1>6. /\ v = Missing => states[n].outcome \notin {"running", "value"}
      /\ v # Missing => states[n].outcome = "value" /\ states[n].stack = << v >>
  BY <1>1, <1>5 DEF Evaluates, n, v
<1>7. states[n] = e
  <2>1. states[n].outcome # "running"
    BY <1>6
  <2>2. CASE k <= n
    BY <1>2, <1>4, <1>5, <2>2, EndStays
  <2>3. CASE n <= k
    BY <1>2, <1>4, <1>5, <2>1, <2>3, EndStays
  <2> QED BY <1>4, <2>2, <2>3
<1>8. CASE v = Missing
  BY <1>6, <1>7, <1>8 DEF Triggers, IsTrue, v
<1>9. CASE v # Missing
  <2>1. e.outcome = "value" /\ e.stack = << v >>
    BY <1>6, <1>7, <1>9
  <2>2. e.stack[Len(e.stack)] = v
    BY <2>1
  <2> QED BY <1>9, <2>1, <2>2 DEF Triggers, IsTrue, v
<1> QED BY <1>8, <1>9

-----------------------------------------------------------------------------
(* What a run knows of the breakpoint at pc *)

Condition == hw_breakpoints[pc]

(* Nothing is evaluated, or the condition at pc, and what was found false there. *)
EvaluationInv ==
    /\ phase \notin {"evaluate", "killed"} => evaluation = Begin
    /\ phase = "evaluate" => IsTurnOf(evaluation, BytesOf[Condition], Seen)
    /\ phase = "tick" /\ ~ fresh /\ check_breakpoint => ~ Holds(Condition)

BreakpointInv == DebuggedInv /\ EvaluationInv

(* The breakpoint at pc has a condition with bytes. *)
LEMMA ConditionBytes ==
    ASSUME DebuggedInv, Conditional
    PROVE  /\ check_breakpoint /\ Condition # NoCondition
           /\ BytesOf[Condition] \in Codes /\ IsSeen(Seen)
<1>1. TypeOK
  BY DEF DebuggedInv
<1>2. Condition \in Conditions
  BY <1>1 DEF DebuggedInv, IInv, StopPointsTypeOK, Conditional, check_breakpoint, Condition
<1>3. BytesOf[Condition] \in Codes
  BY <1>2, DebuggedAssumption DEF Codes
<1> QED BY <1>1, <1>3, SeenType DEF Conditional, Condition

(* A condition that is such a tree and has been evaluated. *)
LEMMA EvaluatedTriggers ==
    ASSUME BreakpointInv, phase = "evaluate", evaluation.outcome # "running",
           Condition \in OrderlessTrees
    PROVE  Triggers(evaluation) <=> Holds(Condition)
<1>1. IsTurnOf(evaluation, BytesOf[Condition], Seen) /\ Condition # NoCondition /\ IsSeen(Seen)
  BY ConditionBytes DEF BreakpointInv, EvaluationInv, DebuggedInv, LoopInv
<1>2. Triggers(evaluation) <=> IsTrue(Condition, Seen)
  BY <1>1, EndedTriggers
<1>3. Holds(Condition) <=> IsTrue(Condition, Seen)
  BY <1>1 DEF Holds, IsTrue
<1> QED BY <1>2, <1>3

(* A condition sees the machine only. *)
LEMMA SeenUnchanged == UNCHANGED vars => UNCHANGED Seen
<1> SUFFICES ASSUME UNCHANGED vars PROVE Seen' = Seen
  OBVIOUS
<1>1. pc' = pc /\ registers' = registers /\ csr' = csr /\ memory' = memory
  BY DEF vars
<1> QED BY <1>1 DEF Seen, WordAtAddress

(* So what is found of it stays true while the machine and its breakpoints do. *)
LEMMA HoldsUnchanged ==
    UNCHANGED << vars, stopPoints >> =>
        /\ UNCHANGED Seen /\ UNCHANGED Condition
        /\ (check_breakpoint' <=> check_breakpoint)
        /\ (Holds(Condition)' <=> Holds(Condition))
<1> SUFFICES ASSUME UNCHANGED << vars, stopPoints >>
             PROVE  /\ UNCHANGED Seen /\ UNCHANGED Condition
                    /\ (check_breakpoint' <=> check_breakpoint)
                    /\ (Holds(Condition)' <=> Holds(Condition))
  OBVIOUS
<1>1. Seen' = Seen
  BY SeenUnchanged
<1>2. Condition' = Condition /\ (check_breakpoint' <=> check_breakpoint)
  BY DEF vars, stopPoints, Condition, check_breakpoint
<1>3. Holds(Condition)' <=> Holds(Condition)
  BY <1>1, <1>2 DEF Holds
<1> QED BY <1>1, <1>2, <1>3

(* The end of an evaluation leaves nothing evaluated. *)
LEMMA FinishKeepsEvaluation ==
    ASSUME NEW hits, Finish(hits), ~ hits /\ check_breakpoint => ~ Holds(Condition)
    PROVE  EvaluationInv'
<1>1. /\ phase' \in {"tick", "stopped"} /\ (phase' = "tick" => ~ hits)
      /\ UNCHANGED << vars, stopPoints >>
  BY FinishStep
<1>2. evaluation' = Begin
  BY DEF Finish
<1>3. /\ check_breakpoint' <=> check_breakpoint
      /\ Holds(Condition)' <=> Holds(Condition)
  BY <1>1, HoldsUnchanged
<1>4. phase' = "tick" /\ ~ fresh' /\ check_breakpoint' => ~ Holds(Condition)'
  BY <1>1, <1>3
<1> QED BY <1>1, <1>2, <1>4 DEF EvaluationInv

(* Every step keeps it: commands, the clock, turns of the loop and the worker. *)
LEMMA BreakpointStep ==
    ASSUME BreakpointInv, [Next]_debugged
    PROVE  EvaluationInv'
<1>1. DebuggedInv /\ EvaluationInv
  BY DEF BreakpointInv
<1>2. CASE UNCHANGED debugged \/ Interrupt
  <2>1. UNCHANGED << vars, stopPoints, phase, evaluation, fresh >>
    BY <1>2 DEF debugged, run, Interrupt
  <2>2. /\ UNCHANGED Seen /\ UNCHANGED Condition
        /\ (check_breakpoint' <=> check_breakpoint)
        /\ (Holds(Condition)' <=> Holds(Condition))
    BY <2>1, HoldsUnchanged
  <2> QED BY <1>1, <2>1, <2>2 DEF EvaluationInv
<1>3. CASE handle_reg_write \/ EditStopPoints
  <2>1. phase = "stopped" /\ phase' = "stopped" /\ evaluation' = evaluation
    BY <1>3 DEF handle_reg_write, EditStopPoints, run
  <2> QED BY <1>1, <2>1 DEF EvaluationInv
<1>4. CASE handle_continue \/ handle_steps
  <2>1. PICK cycles : Start(cycles)
    BY <1>4, Zenon DEF handle_continue, handle_steps
  <2>2. /\ phase = "stopped" /\ phase' \in {"stopped", "tick"} /\ fresh' = TRUE
        /\ evaluation' = evaluation
    BY <2>1 DEF Start
  <2> QED BY <1>1, <2>2 DEF EvaluationInv
<1>5. CASE tick_one_cycle
  <2>1. phase = "tick" /\ phase' = "check" /\ evaluation' = evaluation
    BY <1>5 DEF tick_one_cycle
  <2> QED BY <1>1, <2>1 DEF EvaluationInv
<1>6. CASE Check
  <2>1. Finish(Unconditional) /\ ~ Conditional
    BY <1>6 DEF Check
  <2>2. ~ Unconditional => ~ check_breakpoint
    BY <2>1 DEF Unconditional, Conditional
  <2> HIDE DEF Unconditional, Finish
  <2> QED BY <2>1, <2>2, FinishKeepsEvaluation
<1>7. CASE StartEvaluation
  <2>1. /\ phase = "check" /\ Conditional /\ phase' = "evaluate" /\ evaluation' = evaluation
        /\ UNCHANGED << vars, stopPoints >>
    BY <1>7 DEF StartEvaluation
  <2>2. UNCHANGED Seen /\ UNCHANGED Condition
    BY <2>1, HoldsUnchanged
  <2>3. evaluation = Begin
    BY <1>1, <2>1 DEF EvaluationInv
  <2>4. IsTurnOf(evaluation, BytesOf[Condition], Seen)
    BY <1>1, <2>1, <2>3, ConditionBytes, BeginIsTurn
  <2> QED BY <2>1, <2>2, <2>4 DEF EvaluationInv
<1>8. CASE Evaluate
  <2>1. /\ phase = "evaluate" /\ evaluation.outcome = "running" /\ phase' \in {"evaluate", "killed"}
        /\ UNCHANGED << vars, stopPoints >>
        /\ evaluation' = Step(evaluation, BytesOf[Condition], Seen)
    BY <1>8 DEF Evaluate, Condition
  <2>2. UNCHANGED Seen /\ UNCHANGED Condition
    BY <2>1, HoldsUnchanged
  <2>3. Conditional /\ IsTurnOf(evaluation, BytesOf[Condition], Seen)
    BY <1>1, <2>1 DEF DebuggedInv, LoopInv, EvaluationInv
  <2>4. IsTurnOf(evaluation', BytesOf[Condition], Seen)
    BY <1>1, <2>1, <2>3, ConditionBytes, StepIsTurn
  <2> QED BY <2>1, <2>2, <2>4 DEF EvaluationInv
<1>9. CASE Evaluated
  <2>1. Finish(Triggers(evaluation)) /\ phase = "evaluate" /\ evaluation.outcome # "running"
    BY <1>9 DEF Evaluated
  <2>2. ~ Triggers(evaluation) /\ check_breakpoint => ~ Holds(Condition)
    <3>1. Condition # NoCondition
      BY <1>1, <2>1, ConditionBytes DEF DebuggedInv, LoopInv
    <3>2. CASE Condition \in OrderlessTrees
      BY <2>1, <3>2, EvaluatedTriggers
    <3>3. CASE Condition \notin OrderlessTrees
      BY <3>1, <3>3 DEF Holds
    <3> QED BY <3>2, <3>3
  <2> HIDE DEF Finish, Triggers
  <2> QED BY <2>1, <2>2, FinishKeepsEvaluation
<1> QED BY <1>2, <1>3, <1>4, <1>5, <1>6, <1>7, <1>8, <1>9 DEF Next, Command, Worker

(* So it holds throughout. *)
LEMMA BreakpointInvariant == DebuggedSpec => []BreakpointInv
<1>1. DebuggedInit => EvaluationInv
  BY DEF DebuggedInit, EvaluationInv
<1>2. BreakpointInv /\ [Next]_debugged => EvaluationInv'
  BY BreakpointStep
<1> QED BY <1>1, <1>2, DebuggedInvariant, PTL DEF DebuggedSpec, BreakpointInv

(* A run reports a breakpoint only if its condition holds. *)
LEMMA ReportedHolds ==
    ASSUME BreakpointInv, [Next]_debugged, reply # "hwbreak", reply' = "hwbreak"
    PROVE  /\ check_breakpoint
           /\ Condition \in OrderlessTrees \cup {NoCondition} => Holds(Condition)
<1>1. DebuggedInv
  BY DEF BreakpointInv
<1>2. CASE UNCHANGED debugged \/ Interrupt
  BY <1>2 DEF debugged, Interrupt
<1>3. CASE handle_reg_write \/ EditStopPoints
  <2>1. reply' \in Statuses \cup {"OK"}
    BY <1>3, EditReply DEF handle_reg_write, EditStopPoints
  <2> QED BY <2>1 DEF Statuses
<1>4. CASE handle_continue \/ handle_steps
  <2>1. PICK cycles : Start(cycles)
    BY <1>4, Zenon DEF handle_continue, handle_steps
  <2> QED BY <2>1 DEF Start
<1>5. CASE tick_one_cycle \/ StartEvaluation \/ Evaluate
  BY <1>5 DEF tick_one_cycle, StartEvaluation, Evaluate
<1>6. CASE Check
  <2>1. Finish(Unconditional)
    BY <1>6 DEF Check
  <2>2. Unconditional
    <3> HIDE DEF Unconditional, Finish
    <3> QED BY <2>1, FinishStep
  <2> QED BY <2>2 DEF Unconditional, Condition, Holds
<1>7. CASE Evaluated
  <2>1. Finish(Triggers(evaluation)) /\ phase = "evaluate" /\ evaluation.outcome # "running"
    BY <1>7 DEF Evaluated
  <2>2. Triggers(evaluation)
    <3> HIDE DEF Triggers, Finish
    <3> QED BY <2>1, FinishStep
  <2>3. check_breakpoint /\ Condition # NoCondition
    BY <1>1, <2>1, ConditionBytes DEF DebuggedInv, LoopInv
  <2>4. Condition \in OrderlessTrees => Holds(Condition)
    BY <2>1, <2>2, EvaluatedTriggers
  <2> QED BY <2>3, <2>4
<1> QED BY <1>2, <1>3, <1>4, <1>5, <1>6, <1>7 DEF Next, Command, Worker

(***************************************************************************)
(* No run executes an instruction under a breakpoint whose condition       *)
(* holds, except its first, and no run reports a breakpoint but where      *)
(* there is one whose condition holds, if it has one that is a tree in     *)
(* which no operation minds the order of its operands                      *)
(* (main/src/emulator-debug.cpp:37-62, 414-472): whatever the trees, the   *)
(* stores between the evaluations and the commands between the runs.       *)
(***************************************************************************)
THEOREM BreakpointsAlwaysStop == DebuggedSpec => BreakpointsStop
<1> DEFINE Passed == phase = "tick" /\ phase' = "check"
           Stopped == reply # "hwbreak" /\ reply' = "hwbreak"
           A == /\ Passed => fresh \/ ~ (pc \in DOMAIN hw_breakpoints /\ Holds(hw_breakpoints[pc]))
                /\ Stopped => /\ pc \in DOMAIN hw_breakpoints
                              /\ hw_breakpoints[pc] \in OrderlessTrees \cup {NoCondition}
                                     => Holds(hw_breakpoints[pc])
<1>1. ASSUME BreakpointInv, [Next]_debugged PROVE A
  <2>1. ASSUME Passed, ~ fresh, check_breakpoint PROVE ~ Holds(Condition)
    BY <1>1, <2>1 DEF BreakpointInv, EvaluationInv
  <2>2. ASSUME Stopped
        PROVE  check_breakpoint /\ (Condition \in OrderlessTrees \cup {NoCondition} => Holds(Condition))
    BY <1>1, <2>2, ReportedHolds
  <2> HIDE DEF Passed, Stopped
  <2> QED BY <2>1, <2>2 DEF check_breakpoint, Condition
<1>2. BreakpointInv /\ [Next]_debugged => [A]_debugged
  BY <1>1
<1> QED BY <1>2, BreakpointInvariant, PTL DEF DebuggedSpec, BreakpointsStop
=============================================================================
