---------------------------- MODULE DynamicArray ----------------------------
(***************************************************************************)
(* The store of dynamic_array.c as operators on its struct.  Each of them  *)
(* runs under the store's synchronizer, so it is one step of its caller.   *)
(*                                                                         *)
(* The memory never runs out, and no store outgrows half of SIZE_MAX.      *)
(***************************************************************************)
EXTENDS Integers, FiniteSets

CONSTANT Null   \* an empty slot: all its bytes are zero

Offsets(n) == 0 .. n - 1

\* A struct whose heap_region holds members of Elements.
IsStore(s, Elements) ==
  /\ s = [floor_threshold |-> s.floor_threshold, allocated_slots |-> s.allocated_slots,
          occupied_slots |-> s.occupied_slots, heap_region |-> s.heap_region]
  /\ s.floor_threshold \in Nat \ {0}
  /\ s.allocated_slots \in Nat
  /\ s.occupied_slots \in Int
  /\ s.heap_region \in [Offsets(s.allocated_slots) -> Elements \cup {Null}]

configure_memory_store(starter) ==
  [floor_threshold |-> IF starter = 0 THEN 1 ELSE starter,
   allocated_slots |-> starter,
   occupied_slots |-> 0,
   heap_region |-> [i \in Offsets(starter) |-> Null]]

\* Mutant: the count grows and the memory does not.
ResizedInName(s, n) == [s EXCEPT !.allocated_slots = n]
Resized(s, n) ==
  [s EXCEPT !.allocated_slots = n,
            !.heap_region = [i \in Offsets(n) |->
                               IF i < s.allocated_slots THEN s.heap_region[i] ELSE Null]]

expand_storage_if_required(s) ==
  IF s.occupied_slots < s.allocated_slots THEN s
  ELSE Resized(s, IF s.allocated_slots = 0 THEN s.floor_threshold
                                           ELSE 2 * s.allocated_slots)

\* Only the slot in the middle, once empty, makes the store look at its upper
\* half; the elements there forbid the compaction.
\* Mutant: they do not.
CompactionUnchecked(s, excised) ==
  LET half == s.allocated_slots \div 2
      reduced == IF half >= s.floor_threshold THEN half ELSE s.floor_threshold
  IN IF s.allocated_slots # 0 /\ excised = half - 1 THEN Resized(s, reduced) ELSE s
evaluate_compaction(s, excised) ==
  LET half == s.allocated_slots \div 2
      reduced == IF half >= s.floor_threshold THEN half ELSE s.floor_threshold
  IN IF /\ s.allocated_slots # 0
        /\ excised = half - 1
        /\ \A k \in reduced .. s.allocated_slots - 1 : s.heap_region[k] = Null
     THEN Resized(s, reduced)
     ELSE s

\* At the offset occupied_slots, whatever is there.
append_to_store(s, element) ==
  LET room == expand_storage_if_required(s)
  IN [room EXCEPT !.heap_region[room.occupied_slots] = element,
                  !.occupied_slots = @ + 1]

\* The offset is compared with the capacity before the store expands, and the
\* store expands only if it counts no slot free.
ImplantAccepted(s, offset) == offset <= s.allocated_slots
ImplantOverruns(s, offset) ==
  /\ ImplantAccepted(s, offset)
  /\ offset >= expand_storage_if_required(s).allocated_slots

\* Mutants: the element is not counted; it goes where the next append would.
ImplantUncounted(s, offset, element) ==
  [expand_storage_if_required(s) EXCEPT !.heap_region[offset] = element]
ImplantAtTheEnd(s, offset, element) ==
  LET room == expand_storage_if_required(s)
  IN [room EXCEPT !.heap_region[room.occupied_slots] = element, !.occupied_slots = @ + 1]
implant_at_offset(s, offset, element) ==
  [expand_storage_if_required(s) EXCEPT !.heap_region[offset] = element,
                                        !.occupied_slots = @ + 1]

\* Null for an offset the store does not have: the callers clear the receiver.
fetch_from_offset(s, offset) ==
  IF offset < s.allocated_slots THEN s.heap_region[offset] ELSE Null

ExciseAccepted(s, offset) == offset < s.allocated_slots

\* An empty slot is excised, and discounted, like any other.
\* Mutant: the slot keeps its element.
ExciseKept(s, offset) ==
  evaluate_compaction([s EXCEPT !.occupied_slots = @ - 1], offset)
excise_at_offset(s, offset) ==
  evaluate_compaction([s EXCEPT !.heap_region[offset] = Null,
                                !.occupied_slots = @ - 1], offset)

Live(s) == {i \in Offsets(s.allocated_slots) : s.heap_region[i] # Null}
=============================================================================
