------------------------ MODULE DynamicArray_proofs ------------------------
(***************************************************************************)
(* Proofs about the operators of DynamicArray, for stores of any size that *)
(* hold anything.                                                          *)
(***************************************************************************)
EXTENDS DynamicArray, TLAPS

\* t holds what s holds, at the same offsets.
SameElements(s, t) == /\ Live(t) = Live(s)
                      /\ \A i \in Live(s) : t.heap_region[i] = s.heap_region[i]

\* What a resized store is made of.
LEMMA ResizedFields ==
  ASSUME NEW Elements, NEW s, IsStore(s, Elements), NEW n \in Nat
  PROVE  /\ Resized(s, n).floor_threshold = s.floor_threshold
         /\ Resized(s, n).allocated_slots = n
         /\ Resized(s, n).occupied_slots = s.occupied_slots
         /\ Resized(s, n).heap_region =
              [i \in Offsets(n) |->
                 IF i < s.allocated_slots THEN s.heap_region[i] ELSE Null]
         /\ IsStore(Resized(s, n), Elements)
<1> DEFINE heap == [i \in Offsets(n) |->
                      IF i < s.allocated_slots THEN s.heap_region[i] ELSE Null]
           t == [floor_threshold |-> s.floor_threshold, allocated_slots |-> n,
                 occupied_slots |-> s.occupied_slots, heap_region |-> heap]
<1>1. s = [floor_threshold |-> s.floor_threshold, allocated_slots |-> s.allocated_slots,
           occupied_slots |-> s.occupied_slots, heap_region |-> s.heap_region]
  BY DEF IsStore
<1>2. Resized(s, n) = t
  <2> HIDE DEF heap
  <2>1. Resized(s, n) = [s EXCEPT !.allocated_slots = n, !.heap_region = heap]
    BY DEF Resized, heap
  <2> QED
    BY <1>1, <2>1
<1>3. heap \in [Offsets(n) -> Elements \cup {Null}]
  BY DEF IsStore, Offsets
<1>4. IsStore(t, Elements)
  <2> HIDE DEF heap
  <2> QED
    BY <1>3 DEF IsStore
<1> QED
  BY <1>2, <1>4

\* A store resized to a size its elements fit in holds the same elements.
LEMMA ResizedKeeps ==
  ASSUME NEW Elements, NEW s, IsStore(s, Elements), NEW n \in Nat,
         \A i \in Live(s) : i < n
  PROVE  SameElements(s, Resized(s, n))
<1> DEFINE t == Resized(s, n)
<1>1. s.allocated_slots \in Nat
  BY DEF IsStore
<1>2. /\ t.allocated_slots = n
      /\ t.heap_region = [i \in Offsets(n) |->
                            IF i < s.allocated_slots THEN s.heap_region[i] ELSE Null]
  BY ResizedFields
<1> HIDE DEF t
<1>3. \A i \in Live(s) : i \in Live(t) /\ t.heap_region[i] = s.heap_region[i]
  BY <1>1, <1>2 DEF Live, Offsets
<1>4. Live(t) \subseteq Live(s)
  BY <1>1, <1>2 DEF Live, Offsets
<1> QED
  BY <1>3, <1>4 DEF SameElements, t

Written(s, offset, element, count) ==
  [s EXCEPT !.heap_region[offset] = element, !.occupied_slots = count]

\* Writing one slot of a store changes no other.
LEMMA SlotWritten ==
  ASSUME NEW Elements, NEW s, IsStore(s, Elements), NEW offset \in Offsets(s.allocated_slots),
         NEW element \in Elements \cup {Null}, NEW count \in Int,
         NEW t, t = Written(s, offset, element, count)
  PROVE  /\ IsStore(t, Elements)
         /\ t.floor_threshold = s.floor_threshold
         /\ t.allocated_slots = s.allocated_slots
         /\ t.occupied_slots = count
         /\ Live(t) = IF element = Null THEN Live(s) \ {offset} ELSE Live(s) \cup {offset}
         /\ t.heap_region[offset] = element
         /\ \A i \in Live(s) \ {offset} : t.heap_region[i] = s.heap_region[i]
<1> DEFINE heap == [s.heap_region EXCEPT ![offset] = element]
           u == [floor_threshold |-> s.floor_threshold, allocated_slots |-> s.allocated_slots,
                 occupied_slots |-> count, heap_region |-> heap]
<1>1. s = [floor_threshold |-> s.floor_threshold, allocated_slots |-> s.allocated_slots,
           occupied_slots |-> s.occupied_slots, heap_region |-> s.heap_region]
  BY DEF IsStore
<1>2. t = u
  <2>1. t = [s EXCEPT !.heap_region = heap, !.occupied_slots = count]
    BY DEF Written, heap
  <2> HIDE DEF heap
  <2> QED
    BY <1>1, <2>1
<1>3. heap \in [Offsets(s.allocated_slots) -> Elements \cup {Null}]
  BY DEF IsStore
<1>4. IsStore(u, Elements)
  <2> HIDE DEF heap
  <2> QED
    BY <1>3 DEF IsStore
<1>5. /\ heap[offset] = element
      /\ \A i \in Offsets(s.allocated_slots) \ {offset} : heap[i] = s.heap_region[i]
  BY DEF IsStore
<1>6. Live(u) = {i \in Offsets(s.allocated_slots) : heap[i] # Null}
  BY DEF Live
<1> HIDE DEF heap
<1>7. Live(u) = IF element = Null THEN Live(s) \ {offset} ELSE Live(s) \cup {offset}
  BY <1>5, <1>6 DEF Live
<1>8. \A i \in Live(s) \ {offset} : heap[i] = s.heap_region[i]
  BY <1>5 DEF Live
<1>9. /\ u.floor_threshold = s.floor_threshold
      /\ u.allocated_slots = s.allocated_slots
      /\ u.occupied_slots = count
      /\ u.heap_region = heap
  OBVIOUS
<1> HIDE DEF u
<1> QED
  BY <1>2, <1>4, <1>5, <1>7, <1>8, <1>9

\* Expanding a store moves, loses and makes up nothing
\* (expand_storage_if_required: the memset starts at the first new slot).
THEOREM ExpansionKeeps ==
  ASSUME NEW Elements, NEW s, IsStore(s, Elements)
  PROVE  /\ IsStore(expand_storage_if_required(s), Elements)
         /\ SameElements(s, expand_storage_if_required(s))
         /\ expand_storage_if_required(s).occupied_slots = s.occupied_slots
         /\ expand_storage_if_required(s).allocated_slots >= s.allocated_slots
<1>1. s.allocated_slots \in Nat /\ s.floor_threshold \in Nat
  BY DEF IsStore
<1>2. CASE s.occupied_slots < s.allocated_slots
  BY <1>1, <1>2 DEF expand_storage_if_required, SameElements
<1>3. CASE ~ (s.occupied_slots < s.allocated_slots)
  <2>1. PICK n \in Nat : /\ n >= s.allocated_slots
                         /\ expand_storage_if_required(s) = Resized(s, n)
    BY <1>1, <1>3 DEF expand_storage_if_required
  <2>2. \A i \in Live(s) : i < n
    BY <1>1, <2>1 DEF Live, Offsets
  <2>3. SameElements(s, Resized(s, n))
    BY <2>2, ResizedKeeps
  <2>4. Resized(s, n).allocated_slots = n
    BY DEF Resized, IsStore
  <2>5. /\ Resized(s, n).occupied_slots = s.occupied_slots
        /\ IsStore(Resized(s, n), Elements)
    BY ResizedFields
  <2> QED
    BY <2>1, <2>3, <2>4, <2>5
<1> QED
  BY <1>2, <1>3

\* Compacting a store loses nothing, whichever slot was just emptied: the upper
\* half goes only after each of its slots was found empty (evaluate_compaction).
THEOREM CompactionKeeps ==
  ASSUME NEW Elements, NEW s, IsStore(s, Elements), NEW excised
  PROVE  /\ IsStore(evaluate_compaction(s, excised), Elements)
         /\ SameElements(s, evaluate_compaction(s, excised))
         /\ evaluate_compaction(s, excised).occupied_slots = s.occupied_slots
<1> DEFINE half == s.allocated_slots \div 2
           reduced == IF half >= s.floor_threshold THEN half ELSE s.floor_threshold
           shrinks == /\ s.allocated_slots # 0
                      /\ excised = half - 1
                      /\ \A k \in reduced .. s.allocated_slots - 1 : s.heap_region[k] = Null
<1>1. s.allocated_slots \in Nat /\ s.floor_threshold \in Nat
  BY DEF IsStore
<1>2. reduced \in Nat
  BY <1>1
<1>3. CASE shrinks
  <2>1. evaluate_compaction(s, excised) = Resized(s, reduced)
    BY <1>3 DEF evaluate_compaction
  <2>2. \A k \in reduced .. s.allocated_slots - 1 : s.heap_region[k] = Null
    BY <1>3
  <2> HIDE DEF reduced
  <2>3. \A i \in Live(s) : i < reduced
    BY <1>1, <1>2, <2>2 DEF Live, Offsets
  <2>4. SameElements(s, Resized(s, reduced))
    BY <1>2, <2>3, ResizedKeeps
  <2>5. /\ Resized(s, reduced).occupied_slots = s.occupied_slots
        /\ IsStore(Resized(s, reduced), Elements)
    BY <1>2, ResizedFields
  <2> QED
    BY <2>1, <2>4, <2>5
<1>4. CASE ~ shrinks
  BY <1>4 DEF evaluate_compaction, SameElements
<1> QED
  BY <1>3, <1>4

\* Implanting an element within the capacity changes that slot and no other.
THEOREM ImplantWritesOneSlot ==
  ASSUME NEW Elements, NEW s, IsStore(s, Elements), NEW offset \in Nat,
         NEW element \in Elements, element # Null,
         ImplantAccepted(s, offset), ~ ImplantOverruns(s, offset)
  PROVE  LET t == implant_at_offset(s, offset, element) IN
         /\ IsStore(t, Elements)
         /\ Live(t) = Live(s) \cup {offset}
         /\ t.heap_region[offset] = element
         /\ \A i \in Live(s) \ {offset} : t.heap_region[i] = s.heap_region[i]
         /\ t.occupied_slots = s.occupied_slots + 1
<1> DEFINE room == expand_storage_if_required(s)
           t == implant_at_offset(s, offset, element)
<1>1. /\ IsStore(room, Elements)
      /\ SameElements(s, room)
      /\ room.occupied_slots = s.occupied_slots
  BY ExpansionKeeps
<1>2. offset < room.allocated_slots
  <2>1. room.allocated_slots \in Nat
    BY <1>1 DEF IsStore
  <2>2. ~ (offset >= room.allocated_slots)
    BY DEF ImplantOverruns
  <2> HIDE DEF room
  <2> QED
    BY <2>1, <2>2
<1>3. offset \in Offsets(room.allocated_slots)
  <2>1. room.allocated_slots \in Nat
    BY <1>1 DEF IsStore
  <2> HIDE DEF room
  <2> QED
    BY <1>2, <2>1 DEF Offsets
<1>4. room.occupied_slots + 1 \in Int
  BY <1>1 DEF IsStore
<1>5. t = Written(room, offset, element, room.occupied_slots + 1)
  BY DEF implant_at_offset, Written
<1> HIDE DEF room, t
<1>6. /\ IsStore(t, Elements)
      /\ t.occupied_slots = room.occupied_slots + 1
      /\ Live(t) = Live(room) \cup {offset}
      /\ t.heap_region[offset] = element
      /\ \A i \in Live(room) \ {offset} : t.heap_region[i] = room.heap_region[i]
  BY <1>1, <1>3, <1>4, <1>5, SlotWritten
<1> QED
  BY <1>1, <1>6 DEF SameElements, t

\* Appending an element where the store has room changes the slot it counts as
\* the next one, empty or not, and no other.
THEOREM AppendWritesOneSlot ==
  ASSUME NEW Elements, NEW s, IsStore(s, Elements), NEW element \in Elements, element # Null,
         s.occupied_slots \in Offsets(expand_storage_if_required(s).allocated_slots)
  PROVE  LET t == append_to_store(s, element) IN
         /\ IsStore(t, Elements)
         /\ Live(t) = Live(s) \cup {s.occupied_slots}
         /\ t.heap_region[s.occupied_slots] = element
         /\ \A i \in Live(s) \ {s.occupied_slots} : t.heap_region[i] = s.heap_region[i]
<1> DEFINE room == expand_storage_if_required(s)
           t == append_to_store(s, element)
           next == s.occupied_slots
           count == next + 1
<1>1. /\ IsStore(room, Elements)
      /\ SameElements(s, room)
      /\ room.occupied_slots = next
  BY ExpansionKeeps
<1>2. next \in Offsets(room.allocated_slots) /\ next \in Int /\ count \in Int
  BY DEF IsStore
<1>3. t = Written(room, next, element, count)
  BY <1>1 DEF append_to_store, Written
<1> HIDE DEF room, t, next, count
<1>4. /\ IsStore(t, Elements)
      /\ Live(t) = Live(room) \cup {next}
      /\ t.heap_region[next] = element
      /\ \A i \in Live(room) \ {next} : t.heap_region[i] = room.heap_region[i]
  BY <1>1, <1>2, <1>3, SlotWritten
<1> QED
  BY <1>1, <1>4 DEF SameElements, t, next

\* Excising a slot empties it and moves or loses no other element, whether or
\* not the store is compacted after.
THEOREM ExciseEmptiesOneSlot ==
  ASSUME NEW Elements, NEW s, IsStore(s, Elements), NEW offset \in Nat,
         ExciseAccepted(s, offset)
  PROVE  LET t == excise_at_offset(s, offset) IN
         /\ IsStore(t, Elements)
         /\ Live(t) = Live(s) \ {offset}
         /\ \A i \in Live(s) \ {offset} : t.heap_region[i] = s.heap_region[i]
         /\ t.occupied_slots = s.occupied_slots - 1
<1> DEFINE emptied == Written(s, offset, Null, s.occupied_slots - 1)
           t == excise_at_offset(s, offset)
<1>1. offset \in Offsets(s.allocated_slots) /\ s.occupied_slots - 1 \in Int
  BY DEF IsStore, ExciseAccepted, Offsets
<1>2. t = evaluate_compaction(emptied, offset)
  BY DEF excise_at_offset, Written
<1>3. /\ IsStore(emptied, Elements)
      /\ emptied.occupied_slots = s.occupied_slots - 1
      /\ Live(emptied) = Live(s) \ {offset}
      /\ \A i \in Live(s) \ {offset} : emptied.heap_region[i] = s.heap_region[i]
  <2> DEFINE count == s.occupied_slots - 1
  <2>1. count \in Int /\ emptied = Written(s, offset, Null, count)
    BY <1>1
  <2> HIDE DEF emptied, count
  <2>2. /\ IsStore(emptied, Elements)
        /\ emptied.occupied_slots = count
        /\ Live(emptied) = IF Null = Null THEN Live(s) \ {offset} ELSE Live(s) \cup {offset}
        /\ \A i \in Live(s) \ {offset} : emptied.heap_region[i] = s.heap_region[i]
    <3>1. offset \in Offsets(s.allocated_slots) /\ Null \in Elements \cup {Null}
      BY <1>1
    <3> QED
      BY <2>1, <3>1, SlotWritten
  <2> QED
    BY <2>2 DEF count
<1> HIDE DEF emptied, t
<1>4. /\ IsStore(t, Elements)
      /\ SameElements(emptied, t)
      /\ t.occupied_slots = emptied.occupied_slots
  BY <1>2, <1>3, CompactionKeeps
<1> QED
  BY <1>3, <1>4 DEF SameElements, t

\* No operation makes a store smaller than both its floor and what it was.
LEMMA StoreKeepsRoom ==
  ASSUME NEW Elements, NEW s, IsStore(s, Elements), NEW offset, NEW element,
         NEW room \in Nat, s.floor_threshold >= room, s.allocated_slots >= room
  PROVE  LET t == implant_at_offset(s, offset, element)
             u == excise_at_offset(s, offset)
         IN /\ t.floor_threshold >= room /\ t.allocated_slots >= room
            /\ u.floor_threshold >= room /\ u.allocated_slots >= room
<1>1. s.floor_threshold \in Nat /\ s.allocated_slots \in Nat
  BY DEF IsStore
<1> DEFINE e == expand_storage_if_required(s)
           x == [s EXCEPT !.heap_region[offset] = Null, !.occupied_slots = @ - 1]
           half == s.allocated_slots \div 2
           reduced == IF half >= s.floor_threshold THEN half ELSE s.floor_threshold
<1>2. e.floor_threshold = s.floor_threshold /\ e.allocated_slots >= s.allocated_slots /\ e.allocated_slots \in Nat
  <2>1. e = s \/ \E n \in Nat : e = Resized(s, n)
    BY <1>1 DEF expand_storage_if_required
  <2>2. \A n \in Nat : Resized(s, n).floor_threshold = s.floor_threshold
    BY ResizedFields
  <2> HIDE DEF e
  <2>3. e.floor_threshold = s.floor_threshold
    BY <2>1, <2>2
  <2> USE DEF e
  <2>4. e.allocated_slots >= s.allocated_slots /\ e.allocated_slots \in Nat
    BY ExpansionKeeps DEF IsStore
  <2> QED
    BY <2>3, <2>4
<1>3. /\ implant_at_offset(s, offset, element).floor_threshold = e.floor_threshold
      /\ implant_at_offset(s, offset, element).allocated_slots = e.allocated_slots
  <2>1. IsStore(e, Elements)
    BY ExpansionKeeps
  <2>2. e = [floor_threshold |-> e.floor_threshold, allocated_slots |-> e.allocated_slots,
             occupied_slots |-> e.occupied_slots, heap_region |-> e.heap_region]
    BY <2>1 DEF IsStore
  <2>3. implant_at_offset(s, offset, element) =
          [e EXCEPT !.heap_region[offset] = element, !.occupied_slots = @ + 1]
    BY DEF implant_at_offset
  <2> HIDE DEF e
  <2> QED
    BY <2>2, <2>3
<1>4. x.floor_threshold = s.floor_threshold /\ x.allocated_slots = s.allocated_slots
  BY DEF IsStore
<1>5. excise_at_offset(s, offset) = evaluate_compaction(x, offset)
  BY DEF excise_at_offset
<1>6. \/ evaluate_compaction(x, offset) = x
      \/ evaluate_compaction(x, offset) = Resized(x, reduced)
  <2>1. x.allocated_slots \div 2 = half
    BY <1>4
  <2> HIDE DEF x, half
  <2> QED
    BY <1>4, <2>1 DEF evaluate_compaction
<1>7. reduced >= room
  BY <1>1
<1>8. Resized(x, reduced).floor_threshold = s.floor_threshold /\ Resized(x, reduced).allocated_slots = reduced
  <2> DEFINE slots == [s.heap_region EXCEPT ![offset] = Null]
             count == s.occupied_slots - 1
  <2>1. x = [s EXCEPT !.heap_region = slots, !.occupied_slots = count]
    OBVIOUS
  <2>2. s = [floor_threshold |-> s.floor_threshold, allocated_slots |-> s.allocated_slots,
             occupied_slots |-> s.occupied_slots, heap_region |-> s.heap_region]
    BY DEF IsStore
  <2> HIDE DEF slots, count, x, reduced
  <2>3. x = [floor_threshold |-> s.floor_threshold, allocated_slots |-> s.allocated_slots,
             occupied_slots |-> count, heap_region |-> slots]
    BY <2>1, <2>2
  <2> QED
    BY <2>3 DEF Resized
<1> HIDE DEF e, x, reduced, half
<1> QED
  BY <1>1, <1>2, <1>3, <1>4, <1>5, <1>6, <1>7, <1>8
=============================================================================
