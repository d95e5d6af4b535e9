---------------------------- MODULE AddressRange ----------------------------
(***************************************************************************)
(* Address_range (lib/include/gdb-stub/addr-range.hpp), the key of the map *)
(* of watchpoints, and its three-way comparison.  Containment makes keys   *)
(* equivalent, overlap or contact makes them unordered, and an end beyond  *)
(* the address space wraps.                                                *)
(***************************************************************************)
EXTENDS Integers

CONSTANT Space      \* number of addresses, 2^32 in the code

ASSUME SpaceAssumption == Space \in Nat \ {0}

Address == 0 .. Space - 1

Ranges == [start : Address, size : Address]

End(r) == (r.start + r.size) % Space

Contains(r, s) == r.start <= s.start /\ End(s) <= End(r)

Ordering(r, s) ==
    CASE Contains(r, s) \/ Contains(s, r) -> "equivalent"
      [] ~ (Contains(r, s) \/ Contains(s, r)) /\ End(s) < r.start -> "greater"
      [] ~ (Contains(r, s) \/ Contains(s, r)) /\ End(s) >= r.start
             /\ End(r) < s.start -> "less"
      [] OTHER -> "unordered"

(* What std::map asks: operator< of a std::partial_ordering. *)
Less(r, s) == Ordering(r, s) = "less"

-----------------------------------------------------------------------------
Wraps(r) == r.start + r.size >= Space

Bytes(r) == r.start .. r.start + r.size - 1

(* Neither a common byte nor contact. *)
Apart(r, s) == r.start + r.size < s.start \/ s.start + s.size < r.start
=============================================================================
