------------------------ MODULE NodeRegistry_proofs ------------------------
(***************************************************************************)
(* Proofs about NodeRegistry, for any number of connections and any size   *)
(* of the store.                                                           *)
(***************************************************************************)
EXTENDS NodeRegistry, DynamicArray_proofs, FiniteSetTheorems

slot == activePlayerNodes.heap_region

\* A node is listed from its Register to its Excise, and its socket is open
\* for longer than that.
ListedWhileOpen ==
  \A c \in Connections :
    /\ thread[c].pc \notin {"none", "gone"} <=> c \in open
    /\ thread[c].pc \in {"none", "surveying", "printing", "closing", "gone"} => c \notin Listed
    /\ thread[c].pc \in {"surveying", "printing"} => node[c] = "live"

\* A scan has not passed the slot of its own node, which no one moves.
ScansAreBehind ==
  \A c \in Connections :
    \A i \in Live(activePlayerNodes) :
      slot[i] = c =>
        /\ At(c, "searching") => i >= thread[c].idx
        /\ At(c, "comparing") => IF thread[c].fetched = c THEN i = thread[c].idx
                                                          ELSE i > thread[c].idx
        /\ At(c, "excising") => i = thread[c].idx

\* The socket tells the nodes apart, the one a scan has fetched included,
\* which may be listed no more.
SocketsTell ==
  /\ \A c, d \in open : socket[c] = socket[d] => c = d
  /\ \A c \in Connections :
       At(c, "comparing") => /\ thread[c].fetched \in Connections
                             /\ thread[thread[c].fetched].pc # "none"
                             /\ socket[thread[c].fetched] = socket[c] => thread[c].fetched = c

NodeInv == TypeOK /\ NoDanglingSlot /\ ListedWhileOpen /\ ScansAreBehind /\ SocketsTell

Records == [pc : {"none", "surveying", "printing", "serving", "searching", "comparing",
                  "excising", "closing", "gone", "exited"},
            idx : Nat, fetched : Connections \cup {Null}]

\* What is listed is at some offset of the store.
LEMMA ListedIsAtASlot ==
  ASSUME TypeOK
  PROVE  /\ Listed \subseteq Connections
         /\ \A c : c \in Listed <=> \E i \in Live(activePlayerNodes) : slot[i] = c
         /\ Live(activePlayerNodes) \subseteq Nat
<1>1. IsStore(activePlayerNodes, Connections)
  BY DEF TypeOK
<1>2. activePlayerNodes.allocated_slots \in Nat
  BY <1>1 DEF IsStore
<1>3. slot \in [Offsets(activePlayerNodes.allocated_slots) -> Connections \cup {Null}]
  BY <1>1 DEF IsStore, slot
<1> QED
  BY <1>2, <1>3 DEF Listed, Live, Offsets, slot

LEMMA InitEstablishes == Init => NodeInv
<1> SUFFICES ASSUME Init PROVE NodeInv
  OBVIOUS
<1>1. /\ activePlayerNodes = [floor_threshold |-> Starter, allocated_slots |-> Starter,
                              occupied_slots |-> 0, heap_region |-> [i \in Offsets(Starter) |-> Null]]
      /\ Starter \in Nat \ {0}
  BY RegistryAssumption DEF Init, configure_memory_store
<1>2. IsStore(activePlayerNodes, Connections)
  BY <1>1 DEF IsStore
<1>3. Live(activePlayerNodes) = {} /\ Listed = {}
  BY <1>1 DEF Live, Listed, Offsets
<1>4. TypeOK
  BY <1>2 DEF Init, TypeOK
<1> QED
  BY <1>3, <1>4 DEF Init, NodeInv, NoDanglingSlot, ListedWhileOpen, ScansAreBehind, SocketsTell, At

\* A step that moves one thread and touches nothing else.
LEMMA ThreadMoves ==
  ASSUME NodeInv, NEW c \in Connections, NEW t \in Records,
         UNCHANGED <<activePlayerNodes, socket, open, node, aborted>>,
         thread' = [thread EXCEPT ![c] = t],
         thread[c].pc \notin {"none", "gone"},
         t.pc \notin {"none", "gone"},
         t.pc \in {"surveying", "printing", "closing"} => c \notin Listed,
         t.pc \in {"surveying", "printing"} => node[c] = "live",
         \A i \in Live(activePlayerNodes) :
           slot[i] = c =>
             /\ t.pc = "searching" => i >= t.idx
             /\ t.pc = "comparing" => IF t.fetched = c THEN i = t.idx ELSE i > t.idx
             /\ t.pc = "excising" => i = t.idx,
         t.pc = "comparing" => /\ t.fetched \in Connections
                               /\ thread[t.fetched].pc # "none"
                               /\ socket[t.fetched] = socket[c] => t.fetched = c
  PROVE  NodeInv'
<1> USE DEF NodeInv
<1>1. thread \in [Connections -> Records]
  BY DEF TypeOK, Records
<1>2. thread' \in [Connections -> Records]
  BY <1>1
<1>3. /\ Live(activePlayerNodes)' = Live(activePlayerNodes)
      /\ slot' = slot /\ Listed' = Listed
  BY DEF Live, slot, Listed
<1>4. \A d \in Connections : thread'[d] = IF d = c THEN t ELSE thread[d]
  BY <1>1
<1>5. TypeOK'
  BY <1>2 DEF TypeOK, Records
<1>6. NoDanglingSlot'
  BY <1>3 DEF NoDanglingSlot, slot
<1>7. ListedWhileOpen'
  BY <1>3, <1>4 DEF ListedWhileOpen
<1>8. ScansAreBehind'
  BY <1>3, <1>4 DEF ScansAreBehind, At
<1>9. SocketsTell'
  BY <1>4 DEF SocketsTell, At
<1> QED
  BY <1>5, <1>6, <1>7, <1>8, <1>9

\* A scan fetches a slot, and the node in it, if any, to look at.
LEMMA FetchKeeps ==
  ASSUME NodeInv, NEW c \in Connections, NEW looking,
         \/ thread[c].pc = "surveying" /\ looking = "printing"
         \/ thread[c].pc = "searching" /\ looking = "comparing",
         Fetch(c, looking)
  PROVE  NodeInv'
<1> DEFINE fetched == fetch_from_offset(activePlayerNodes, thread[c].idx)
           t == IF fetched = Null
                THEN [pc |-> thread[c].pc, idx |-> thread[c].idx + 1, fetched |-> Null]
                ELSE [pc |-> looking, idx |-> thread[c].idx, fetched |-> fetched]
<1>1. thread[c] \in Records /\ IsStore(activePlayerNodes, Connections)
  BY DEF NodeInv, TypeOK, Records
<1>2. fetched = slot[thread[c].idx] /\ thread[c].idx \in Offsets(activePlayerNodes.allocated_slots)
  BY <1>1 DEF Fetch, fetch_from_offset, slot, Records, Offsets, IsStore
<1>3. fetched \in Connections \cup {Null}
  BY <1>1, <1>2 DEF IsStore, slot
<1>4. fetched # Null => thread[c].idx \in Live(activePlayerNodes) /\ fetched \in Listed
  BY <1>2 DEF Live, slot, Listed
<1>5. t \in Records
  BY <1>1, <1>3 DEF Records
<1>6. thread' = [thread EXCEPT ![c] = t]
  <2>1. CASE fetched = Null
    BY <2>1, <1>1 DEF Fetch, Scans
  <2>2. CASE fetched # Null
    BY <2>2, <1>1 DEF Fetch, Scans
  <2> QED
    BY <2>1, <2>2
<1>7. UNCHANGED <<activePlayerNodes, socket, open, node, aborted>>
  BY DEF Fetch
<1>8. /\ t.pc = IF fetched = Null THEN thread[c].pc ELSE looking
      /\ t.idx = IF fetched = Null THEN thread[c].idx + 1 ELSE thread[c].idx
      /\ t.fetched = fetched
  BY <1>1 DEF Records
<1>9. ASSUME NEW i \in Live(activePlayerNodes), slot[i] = c
      PROVE  /\ t.pc = "searching" => i >= t.idx
             /\ t.pc = "comparing" => IF t.fetched = c THEN i = t.idx ELSE i > t.idx
             /\ t.pc = "excising" => i = t.idx
  <2>1. i \in Nat /\ i \in Live(activePlayerNodes) /\ thread[c].idx \in Nat
    BY <1>1, ListedIsAtASlot DEF NodeInv, Records
  <2>2. thread[c].pc = "searching" => i >= thread[c].idx
    BY <1>9 DEF NodeInv, ScansAreBehind, At
  <2>3. fetched = c => i = thread[c].idx
    <3> SUFFICES ASSUME fetched = c PROVE i = thread[c].idx
      OBVIOUS
    <3>1. thread[c].idx \in Live(activePlayerNodes) /\ slot[thread[c].idx] = c
      BY <1>2, <1>4, RegistryAssumption
    <3> QED
      BY <2>1, <3>1, <1>9 DEF NodeInv, NoDanglingSlot, slot
  <2>4. fetched # c => i # thread[c].idx
    BY <1>2, <1>9
  <2> HIDE DEF t, fetched
  <2>5. CASE fetched = Null
    <3>1. t.pc = "searching" => i >= t.idx
      BY <1>8, <2>1, <2>2, <2>4, <2>5, RegistryAssumption
    <3> QED
      BY <1>8, <2>5, <3>1
  <2>6. CASE fetched # Null
    <3>1. t.pc = "comparing" => IF t.fetched = c THEN i = t.idx ELSE i > t.idx
      BY <1>8, <2>1, <2>2, <2>3, <2>4, <2>6
    <3> QED
      BY <1>8, <2>6, <3>1
  <2> QED
    BY <2>5, <2>6
<1>10. t.pc = "comparing" => /\ t.fetched \in Connections
                             /\ thread[t.fetched].pc # "none"
                             /\ socket[t.fetched] = socket[c] => t.fetched = c
  <2>1. c \in open
    BY DEF NodeInv, ListedWhileOpen
  <2>2. fetched # Null => fetched \in open
    BY <1>3, <1>4 DEF NodeInv, ListedWhileOpen
  <2>3. t.pc = "comparing" => fetched # Null
    BY <1>8
  <2> QED
    BY <1>3, <1>8, <2>1, <2>2, <2>3 DEF NodeInv, SocketsTell, ListedWhileOpen
<1>11. t.pc \in {"surveying", "printing", "closing"} => c \notin Listed /\ node[c] = "live"
  <2>1. t.pc \in {"surveying", "printing", "closing"} => thread[c].pc = "surveying"
    BY <1>8
  <2> QED
    BY <2>1 DEF NodeInv, ListedWhileOpen
<1>12. t.pc \notin {"none", "gone"} /\ thread[c].pc \notin {"none", "gone"}
  BY <1>8
<1> HIDE DEF t, fetched
<1> QED
  BY <1>5, <1>6, <1>7, <1>9, <1>10, <1>11, <1>12, ThreadMoves

\* A thread goes on without a look at the registry.
LEMMA GoesOnKeeps ==
  ASSUME NodeInv, NEW c \in Connections,
         dumpPlayerNodeDiagnostics(c) \/ Leave(c) \/ ThreadExits(c)
  PROVE  NodeInv'
<1> DEFINE Onward(pc, idx) == [pc |-> pc, idx |-> idx, fetched |-> Null]
<1>1. thread[c].idx \in Nat /\ Live(activePlayerNodes) \subseteq Nat
  BY ListedIsAtASlot DEF NodeInv, TypeOK
<1>2. CASE dumpPlayerNodeDiagnostics(c)
  <2>1. /\ Onward("surveying", thread[c].idx + 1) \in Records
        /\ thread' = [thread EXCEPT ![c] = Onward("surveying", thread[c].idx + 1)]
        /\ UNCHANGED <<activePlayerNodes, socket, open, node, aborted>>
    BY <1>1, <1>2 DEF Records, dumpPlayerNodeDiagnostics, Scans
  <2>2. thread[c].pc = "printing" /\ c \notin Listed /\ node[c] = "live"
    BY <1>2 DEF dumpPlayerNodeDiagnostics, At, NodeInv, ListedWhileOpen
  <2> QED
    BY <2>1, <2>2, ThreadMoves
<1>3. CASE Leave(c)
  <2> DEFINE t == Onward("searching", 0)
  <2>1. /\ t \in Records /\ t.pc = "searching" /\ t.idx = 0
        /\ thread' = [thread EXCEPT ![c] = t]
        /\ UNCHANGED <<activePlayerNodes, socket, open, node, aborted>>
        /\ thread[c].pc = "serving"
    BY <1>3 DEF Records, Leave, Goes, Scans, At
  <2>2. \A i \in Live(activePlayerNodes) : i >= t.idx
    BY <1>1, <2>1
  <2> HIDE DEF t
  <2> QED
    BY <2>1, <2>2, ThreadMoves
<1>4. CASE ThreadExits(c)
  <2> DEFINE t == Onward("exited", 0)
  <2>1. /\ t \in Records /\ t.pc = "exited"
        /\ thread' = [thread EXCEPT ![c] = t]
        /\ UNCHANGED <<activePlayerNodes, socket, open, node, aborted>>
        /\ thread[c].pc = "serving"
    BY <1>4 DEF Records, ThreadExits, Goes, Scans, At
  <2> HIDE DEF t
  <2> QED
    BY <2>1, ThreadMoves
<1> QED
  BY <1>2, <1>3, <1>4

\* A node with the socket of the leaving thread is its own.
LEMMA CompareKeeps ==
  ASSUME NodeInv, NEW c \in Connections, Compare(c)
  PROVE  NodeInv'
<1> DEFINE found == socket[thread[c].fetched] = socket[c]
           t == [pc |-> IF found THEN "excising" ELSE "searching",
                 idx |-> IF found THEN thread[c].idx ELSE thread[c].idx + 1,
                 fetched |-> Null]
<1>1. thread[c].idx \in Nat /\ Live(activePlayerNodes) \subseteq Nat
  BY ListedIsAtASlot DEF NodeInv, TypeOK
<1>2. /\ thread[c].pc = "comparing" /\ At(c, "comparing")
      /\ UNCHANGED <<activePlayerNodes, socket, open, node, aborted>>
  BY DEF Compare, At
<1>3. t \in Records
  BY <1>1 DEF Records
<1>4. thread' = [thread EXCEPT ![c] = t]
  BY DEF Compare, Scans
<1>5. found <=> thread[c].fetched = c
  BY <1>2 DEF NodeInv, SocketsTell
<1>6. ASSUME NEW i \in Live(activePlayerNodes), slot[i] = c
      PROVE  /\ t.pc = "searching" => i >= t.idx
             /\ t.pc = "comparing" => IF t.fetched = c THEN i = t.idx ELSE i > t.idx
             /\ t.pc = "excising" => i = t.idx
  <2>1. IF found THEN i = thread[c].idx ELSE i > thread[c].idx
    BY <1>2, <1>5, <1>6 DEF NodeInv, ScansAreBehind
  <2>2. i \in Nat
    BY <1>1, <1>6
  <2> QED
    BY <1>1, <2>1, <2>2
<1>7. t.pc \in {"excising", "searching"}
  OBVIOUS
<1> HIDE DEF t, found
<1> QED
  BY <1>2, <1>3, <1>4, <1>6, <1>7, ThreadMoves

\* A thread that goes somewhere, and what its record is then.
LEMMA GoneTo ==
  ASSUME NodeInv, NEW c \in Connections, NEW pc, Goes(c, pc),
         pc \in {"surveying", "serving", "closing", "gone"}
  PROVE  /\ thread' \in [Connections -> Records]
         /\ thread'[c].pc = pc
         /\ \A d \in Connections \ {c} : thread'[d] = thread[d]
<1> DEFINE t == [pc |-> pc, idx |-> 0, fetched |-> Null]
<1>1. thread \in [Connections -> Records] /\ t \in Records
  BY DEF NodeInv, TypeOK, Records
<1>2. thread' = [thread EXCEPT ![c] = t] /\ t.pc = pc
  BY DEF Goes, Scans
<1> HIDE DEF t
<1> QED
  BY <1>1, <1>2

LEMMA acceptKeeps ==
  ASSUME NodeInv, NEW c \in Connections, accept(c)
  PROVE  NodeInv'
<1>1. /\ Live(activePlayerNodes)' = Live(activePlayerNodes)
      /\ slot' = slot /\ Listed' = Listed
  BY DEF accept, Live, slot, Listed
<1>2. /\ thread' \in [Connections -> Records]
      /\ thread'[c].pc = "surveying" /\ thread[c].pc = "none"
      /\ \A d \in Connections \ {c} : thread'[d] = thread[d]
  BY GoneTo DEF accept, At
<1>3. PICK n \in Nat : socket' = [socket EXCEPT ![c] = n] /\ n \notin {socket[d] : d \in open}
  <2>1. Cardinality(open) \in Nat
    BY RegistryAssumption, FS_Subset, FS_CardinalityType DEF NodeInv, TypeOK
  <2>2. PICK n \in 1 .. Cardinality(open) + 1 :
          IsLowestFree(n) /\ socket' = [socket EXCEPT ![c] = n]
    BY DEF accept
  <2>3. n \in Nat /\ n \notin {socket[d] : d \in open}
    BY <2>1, <2>2 DEF IsLowestFree
  <2> QED
    BY <2>2, <2>3
<1>4. /\ node' = [node EXCEPT ![c] = "live"] /\ open' = open \cup {c}
      /\ UNCHANGED <<activePlayerNodes, aborted>>
  BY DEF accept
<1>5. c \notin Listed /\ Listed \subseteq Connections /\ open \subseteq Connections
  BY <1>2, ListedIsAtASlot DEF NodeInv, ListedWhileOpen, TypeOK
<1>6. TypeOK'
  BY <1>2, <1>3, <1>4 DEF NodeInv, TypeOK, Records
<1>7. NoDanglingSlot'
  BY <1>1, <1>4, <1>5 DEF NodeInv, NoDanglingSlot, TypeOK, slot
<1>8. ListedWhileOpen'
  BY <1>1, <1>2, <1>4, <1>5 DEF NodeInv, ListedWhileOpen, TypeOK
<1>9. ScansAreBehind'
  BY <1>1, <1>2 DEF NodeInv, ScansAreBehind, At
<1>10. SocketsTell'
  <2>1. \A d \in Connections \ {c} : socket'[d] = socket[d]
    BY <1>3 DEF NodeInv, TypeOK
  <2>2. socket'[c] = n
    BY <1>3 DEF NodeInv, TypeOK
  <2>3. \A d, e \in open' : socket'[d] = socket'[e] => d = e
    BY <1>3, <1>4, <1>5, <2>1, <2>2 DEF NodeInv, SocketsTell
  <2>4. ASSUME NEW d \in Connections, thread'[d].pc = "comparing"
        PROVE  /\ thread'[d].fetched \in Connections
               /\ thread'[thread'[d].fetched].pc # "none"
               /\ socket'[thread'[d].fetched] = socket'[d] => thread'[d].fetched = d
    <3>1. d # c /\ thread'[d] = thread[d]
      BY <1>2, <2>4
    <3>2. thread[d].fetched \in Connections \ {c}
      BY <1>2, <2>4, <3>1 DEF NodeInv, SocketsTell, At
    <3> QED
      BY <1>2, <2>1, <2>4, <3>1, <3>2 DEF NodeInv, SocketsTell, At
  <2> QED
    BY <2>3, <2>4 DEF SocketsTell, At
<1> QED
  BY <1>6, <1>7, <1>8, <1>9, <1>10 DEF NodeInv

\* The slot may be that of a live node, which is listed no more.
LEMMA RegisterKeeps ==
  ASSUME NodeInv, NEW c \in Connections, Register(c)
  PROVE  NodeInv'
<1> DEFINE n == activePlayerNodes.occupied_slots
<1>1. /\ thread' \in [Connections -> Records]
      /\ thread'[c].pc = "serving" /\ thread[c].pc = "surveying"
      /\ \A d \in Connections \ {c} : thread'[d] = thread[d]
  BY GoneTo DEF Register, At
<1>2. UNCHANGED <<socket, open, node, aborted>>
  BY DEF Register
<1>3. c \notin Listed /\ node[c] = "live" /\ c \in open
  BY <1>1 DEF NodeInv, ListedWhileOpen
<1>4. /\ IsStore(activePlayerNodes, Connections)' /\ n \in Int
      /\ Live(activePlayerNodes)' = Live(activePlayerNodes) \cup {n}
      /\ slot'[n] = c
      /\ \A i \in Live(activePlayerNodes) \ {n} : slot'[i] = slot[i]
  <2>1. /\ IsStore(activePlayerNodes, Connections) /\ c # Null
        /\ n \in Offsets(expand_storage_if_required(activePlayerNodes).allocated_slots)
        /\ activePlayerNodes' = append_to_store(activePlayerNodes, c)
    BY RegistryAssumption DEF NodeInv, TypeOK, Register, AppendOverruns
  <2>2. n \in Int
    BY <2>1 DEF IsStore
  <2> QED
    BY <2>1, <2>2, AppendWritesOneSlot DEF slot
<1> HIDE DEF n
<1>5. TypeOK'
  BY <1>1, <1>2, <1>4 DEF NodeInv, TypeOK, Records
<1>6. /\ Listed' \subseteq Listed \cup {c}
      /\ \A i \in Live(activePlayerNodes)' : slot'[i] # c => i \in Live(activePlayerNodes) /\ slot'[i] = slot[i]
      /\ \A i \in Live(activePlayerNodes) : slot[i] # c
  BY <1>3, <1>4, <1>5, ListedIsAtASlot DEF NodeInv, Listed, slot
<1>7. NoDanglingSlot'
  <2>1. \A d \in Listed' : node'[d] = "live"
    BY <1>2, <1>3, <1>6 DEF NodeInv, NoDanglingSlot
  <2>2. \A i, j \in Live(activePlayerNodes)' : slot'[i] = slot'[j] => i = j
    BY <1>4, <1>6 DEF NodeInv, NoDanglingSlot, slot
  <2> QED
    BY <2>1, <2>2 DEF NoDanglingSlot, slot
<1>8. ListedWhileOpen'
  BY <1>1, <1>2, <1>3, <1>6 DEF NodeInv, ListedWhileOpen
<1>9. ScansAreBehind'
  BY <1>1, <1>6 DEF NodeInv, ScansAreBehind, At
<1>10. SocketsTell'
  BY <1>1, <1>2 DEF NodeInv, SocketsTell, At
<1> QED
  BY <1>5, <1>7, <1>8, <1>9, <1>10 DEF NodeInv

\* Whichever node is in the slot by then: it was in no other.
LEMMA ExciseKeeps ==
  ASSUME NodeInv, NEW c \in Connections, Excise(c)
  PROVE  NodeInv'
<1> DEFINE n == thread[c].idx
<1>1. /\ thread' \in [Connections -> Records]
      /\ thread'[c].pc = "closing" /\ thread[c].pc = "excising"
      /\ \A d \in Connections \ {c} : thread'[d] = thread[d]
  BY GoneTo DEF Excise, At
<1>2. UNCHANGED <<socket, open, aborted>> /\ c \in open
  BY <1>1 DEF Excise, NodeInv, ListedWhileOpen
<1>3. IsStore(activePlayerNodes, Connections) /\ n \in Nat
  BY DEF NodeInv, TypeOK
<1>4. \A i \in Live(activePlayerNodes) : slot[i] = c => i = n
  BY <1>1 DEF NodeInv, ScansAreBehind, At
<1>5. CASE ExciseAccepted(activePlayerNodes, n)
  <2>1. /\ IsStore(activePlayerNodes, Connections)'
        /\ Live(activePlayerNodes)' = Live(activePlayerNodes) \ {n}
        /\ \A i \in Live(activePlayerNodes) \ {n} : slot'[i] = slot[i]
    BY <1>3, <1>5, ExciseEmptiesOneSlot DEF Excise, slot
  <2>2. /\ node' = [d \in Connections |-> IF d \in Freed(c) THEN "freed" ELSE node[d]]
        /\ \A d \in Freed(c) : n \in Live(activePlayerNodes) /\ slot[n] = d
    BY <1>3, <1>5 DEF Excise, ExciseAccepted, Freed, fetch_from_offset, Live, Offsets, slot, IsStore
  <2> HIDE DEF n
  <2>3. TypeOK'
    BY <1>1, <1>2, <2>1, <2>2 DEF NodeInv, TypeOK, Records
  <2>4. /\ \A d \in Listed' : d \in Listed /\ d \notin Freed(c)
        /\ Freed(c) \subseteq Listed
        /\ c \notin Listed'
    <3>1. \A d \in Listed' : \E i \in Live(activePlayerNodes) \ {n} : slot[i] = d
      BY <2>1 DEF Listed, slot
    <3>2. \A d \in Listed : \E i \in Live(activePlayerNodes) : slot[i] = d
      BY DEF Listed, slot
    <3> QED
      BY <1>4, <2>2, <3>1, ListedIsAtASlot DEF NodeInv, NoDanglingSlot, slot
  <2>5. NoDanglingSlot'
    <3>1. \A d \in Listed' : node'[d] = "live"
      BY <2>2, <2>3, <2>4, ListedIsAtASlot DEF NodeInv, NoDanglingSlot
    <3>2. \A i, j \in Live(activePlayerNodes)' : slot'[i] = slot'[j] => i = j
      BY <2>1 DEF NodeInv, NoDanglingSlot, slot
    <3> QED
      BY <3>1, <3>2 DEF NoDanglingSlot, slot
  <2>6. ListedWhileOpen'
    BY <1>1, <1>2, <2>2, <2>4 DEF NodeInv, ListedWhileOpen
  <2>7. ScansAreBehind'
    BY <1>1, <2>1 DEF NodeInv, ScansAreBehind, At
  <2>8. SocketsTell'
    BY <1>1, <1>2 DEF NodeInv, SocketsTell, At
  <2> QED
    BY <2>3, <2>5, <2>6, <2>7, <2>8 DEF NodeInv
<1>6. CASE ~ ExciseAccepted(activePlayerNodes, n)
  <2>1. UNCHANGED <<activePlayerNodes, node>>
    BY <1>6 DEF Excise
  <2>2. /\ Live(activePlayerNodes)' = Live(activePlayerNodes)
        /\ slot' = slot /\ Listed' = Listed
    BY <2>1 DEF Live, slot, Listed
  <2>3. c \notin Listed
    <3>1. n \notin Live(activePlayerNodes)
      BY <1>3, <1>6 DEF ExciseAccepted, Live, Offsets, IsStore
    <3> QED
      BY <1>4, <3>1, ListedIsAtASlot DEF NodeInv
  <2>4. TypeOK'
    BY <1>1, <1>2, <2>1 DEF NodeInv, TypeOK, Records
  <2>5. NoDanglingSlot' /\ ListedWhileOpen'
    BY <1>1, <1>2, <2>1, <2>2, <2>3 DEF NodeInv, NoDanglingSlot, ListedWhileOpen, slot
  <2>6. ScansAreBehind' /\ SocketsTell'
    BY <1>1, <1>2, <2>2 DEF NodeInv, ScansAreBehind, SocketsTell, At
  <2> QED
    BY <2>4, <2>5, <2>6 DEF NodeInv
<1> QED
  BY <1>5, <1>6

\* A scan that has come to the end has not missed its own node.
LEMMA CloseKeeps ==
  ASSUME NodeInv, NEW c \in Connections, Close(c)
  PROVE  NodeInv'
<1>1. /\ thread' \in [Connections -> Records]
      /\ thread'[c].pc = "gone" /\ thread[c].pc \in {"closing", "searching"}
      /\ \A d \in Connections \ {c} : thread'[d] = thread[d]
  BY GoneTo DEF Close, At
<1>2. /\ UNCHANGED <<activePlayerNodes, socket, node, aborted>>
      /\ open' = open \ {c}
  BY DEF Close
<1>3. /\ Live(activePlayerNodes)' = Live(activePlayerNodes)
      /\ slot' = slot /\ Listed' = Listed
  BY <1>2 DEF Live, slot, Listed
<1>4. c \notin Listed
  <2>1. CASE thread[c].pc = "closing"
    BY <2>1 DEF NodeInv, ListedWhileOpen
  <2>2. CASE thread[c].pc = "searching"
    <3>1. thread[c].idx >= activePlayerNodes.allocated_slots
      BY <2>2 DEF Close, At
    <3>2. activePlayerNodes.allocated_slots \in Nat /\ thread[c].idx \in Nat
      BY DEF NodeInv, TypeOK, IsStore
    <3>3. \A i \in Live(activePlayerNodes) : i \in Nat /\ i < activePlayerNodes.allocated_slots
      BY <3>2 DEF Live, Offsets
    <3>4. \A i \in Live(activePlayerNodes) : slot[i] = c => i >= thread[c].idx
      BY <2>2 DEF NodeInv, ScansAreBehind, At
    <3>5. \A i \in Live(activePlayerNodes) : slot[i] # c
      BY <3>1, <3>2, <3>3, <3>4
    <3> QED
      BY <3>5, ListedIsAtASlot DEF NodeInv
  <2> QED
    BY <1>1, <2>1, <2>2
<1>5. TypeOK'
  BY <1>1, <1>2 DEF NodeInv, TypeOK, Records
<1>6. NoDanglingSlot' /\ ListedWhileOpen'
  BY <1>1, <1>2, <1>3, <1>4 DEF NodeInv, NoDanglingSlot, ListedWhileOpen, slot
<1>7. ScansAreBehind' /\ SocketsTell'
  BY <1>1, <1>2, <1>3 DEF NodeInv, ScansAreBehind, SocketsTell, At
<1> QED
  BY <1>5, <1>6, <1>7 DEF NodeInv

LEMMA StepKeeps == NodeInv /\ [Next]_vars => NodeInv'
<1> SUFFICES ASSUME NodeInv, [Next]_vars PROVE NodeInv'
  OBVIOUS
<1>1. ASSUME UNCHANGED <<activePlayerNodes, socket, open, node, thread>>, aborted' \in BOOLEAN
      PROVE  NodeInv'
  <2>1. TypeOK'
    BY <1>1 DEF NodeInv, TypeOK
  <2>2. NoDanglingSlot' /\ ListedWhileOpen' /\ ScansAreBehind' /\ SocketsTell'
    BY <1>1 DEF NodeInv, NoDanglingSlot, ListedWhileOpen, ScansAreBehind, SocketsTell, Listed, slot, At
  <2> QED
    BY <2>1, <2>2 DEF NodeInv
<1>2. CASE UNCHANGED vars
  BY <1>1, <1>2 DEF vars, NodeInv, TypeOK
<1>3. ASSUME NEW c \in Connections, accept(c) \/ Step(c) \/ Leave(c) \/ ThreadExits(c)
      PROVE  NodeInv'
  <2>1. CASE Faults(c) /\ Step(c)
    BY <1>1, <2>1 DEF Step
  <2>2. CASE ~ Faults(c) /\ Step(c)
    <3>1. \/ Survey(c) \/ dumpPlayerNodeDiagnostics(c) \/ Register(c)
          \/ Search(c) \/ Compare(c) \/ Excise(c) \/ Close(c)
      BY <2>2 DEF Step
    <3>2. CASE Survey(c)
      BY <3>2, FetchKeeps DEF Survey, At
    <3>3. CASE Search(c)
      BY <3>3, FetchKeeps DEF Search, At
    <3> QED
      BY <3>1, <3>2, <3>3, GoesOnKeeps, RegisterKeeps, CompareKeeps, ExciseKeeps, CloseKeeps
  <2> QED
    BY <1>3, <2>1, <2>2, acceptKeeps, GoesOnKeeps
<1> QED
  BY <1>2, <1>3 DEF Next

\* In every reachable state the threads of executePlayerNodeLifecycle and the
\* registry they share satisfy NodeInv.
THEOREM NodeInvariant == Spec => []NodeInv
<1> QED
  BY InitEstablishes, StepKeeps, PTL DEF Spec

\* Every variable of the registry of players keeps its type, for any number of
\* connections: the store stays one however it grows, shrinks and is
\* overwritten.
THEOREM NodeRegistryTypeOK == Spec => []TypeOK
<1>1. NodeInv => TypeOK
  BY DEF NodeInv
<1> QED
  BY <1>1, NodeInvariant, PTL

\* Whatever a leaving thread excises, no freed node stays in the registry of
\* executePlayerNodeLifecycle, and no node is in it twice.
THEOREM NoSlotEverDangles == Spec => []NoDanglingSlot
<1>1. NodeInv => NoDanglingSlot
  BY DEF NodeInv
<1> QED
  BY <1>1, NodeInvariant, PTL

\* The socket number by which a leaving thread looks for its node is that of
\* no other listed node, however the system reuses the numbers.
THEOREM ListedSocketsAlwaysDiffer == Spec => []ListedSocketsDiffer
<1>1. NodeInv => ListedSocketsDiffer
  <2> SUFFICES ASSUME NodeInv PROVE ListedSocketsDiffer
    OBVIOUS
  <2>1. Listed \subseteq open
    BY ListedIsAtASlot DEF NodeInv, ListedWhileOpen
  <2> QED
    BY <2>1 DEF NodeInv, SocketsTell, ListedSocketsDiffer
<1> QED
  BY <1>1, NodeInvariant, PTL

=============================================================================
