---------------------------- MODULE NodeRegistry ----------------------------
(***************************************************************************)
(* The registry of the connected players: the accept loop of main.c, and   *)
(* what the threads it starts (executePlayerNodeLifecycle) do with         *)
(* activePlayerNodes before and after their loop.  A node is named by its  *)
(* thread, which allocates it once; freed memory is not reused.            *)
(*                                                                         *)
(* Abstracted: what a thread does while it serves its player, except that  *)
(* it uses its node and may end by pthread_exit.  The memory and the       *)
(* threads do not run out.                                                 *)
(***************************************************************************)
EXTENDS DynamicArray

CONSTANTS
  Connections,    \* bound: the connections ever accepted, each with its thread
  Starter         \* configure_memory_store(&activePlayerNodes, 6, ...)

ASSUME RegistryAssumption == /\ IsFiniteSet(Connections)
                             /\ Null \notin Connections
                             /\ Starter \in Nat \ {0}

VARIABLES
  activePlayerNodes,
  socket,         \* d_socket of each thread, and socketDescriptor of its node
  open,           \* the connections whose socket is not closed
  node,           \* the memory of each struct PlayerNode
  thread,         \* idx and the pointer it fetched are locals of the scans
  aborted         \* AddressSanitizer has stopped the server

vars == <<activePlayerNodes, socket, open, node, thread, aborted>>

Init == /\ activePlayerNodes = configure_memory_store(Starter)
        /\ socket = [c \in Connections |-> 0]
        /\ open = {}
        /\ node = [c \in Connections |-> "none"]
        /\ thread = [c \in Connections |-> [pc |-> "none", idx |-> 0, fetched |-> Null]]
        /\ aborted = FALSE

At(c, pc) == thread[c].pc = pc
Scans(c, pc, idx, fetched) ==
  thread' = [thread EXCEPT ![c] = [pc |-> pc, idx |-> idx, fetched |-> fetched]]
Goes(c, pc) == Scans(c, pc, 0, Null)

\* accept gives the lowest socket number that is free.
IsLowestFree(d) == LET used == {socket[c] : c \in open}
                   IN d \notin used /\ 1 .. d - 1 \subseteq used

-----------------------------------------------------------------------------
(***************************************************************************)
(* main: a thread for every connection.                                    *)
(***************************************************************************)
accept(c) ==
  /\ At(c, "none")
  /\ \E d \in 1 .. Cardinality(open) + 1 :
       IsLowestFree(d) /\ socket' = [socket EXCEPT ![c] = d]
  /\ open' = open \cup {c}
  /\ node' = [node EXCEPT ![c] = "live"]
  /\ Goes(c, "surveying")
  /\ UNCHANGED <<activePlayerNodes, aborted>>

-----------------------------------------------------------------------------
(***************************************************************************)
(* A scan of the registry: the capacity is read without the synchronizer,  *)
(* a slot is fetched under it, and the node it pointed to is looked at     *)
(* after it.                                                               *)
(***************************************************************************)
Fetch(c, looking) ==
  LET fetched == fetch_from_offset(activePlayerNodes, thread[c].idx)
  IN /\ thread[c].idx < activePlayerNodes.allocated_slots
     /\ IF fetched = Null THEN Scans(c, thread[c].pc, thread[c].idx + 1, Null)
                          ELSE Scans(c, looking, thread[c].idx, fetched)
     /\ UNCHANGED <<activePlayerNodes, socket, open, node, aborted>>

\* What the new thread prints of the others.
Survey(c) == At(c, "surveying") /\ Fetch(c, "printing")

dumpPlayerNodeDiagnostics(c) ==
  /\ At(c, "printing")
  /\ Scans(c, "surveying", thread[c].idx + 1, Null)
  /\ UNCHANGED <<activePlayerNodes, socket, open, node, aborted>>

\* occupied_slots drifts from the slots in use.  It is a size_t, below 0 it is
\* beyond every store; and one expansion may not reach it.
AppendOverruns ==
  activePlayerNodes.occupied_slots
    \notin Offsets(expand_storage_if_required(activePlayerNodes).allocated_slots)
Register(c) ==
  /\ At(c, "surveying")
  /\ thread[c].idx >= activePlayerNodes.allocated_slots
  /\ ~ AppendOverruns
  /\ activePlayerNodes' = append_to_store(activePlayerNodes, c)
  /\ Goes(c, "serving")
  /\ UNCHANGED <<socket, open, node, aborted>>

\* The peer has gone, is silent for too long or says so.
Leave(c) == /\ At(c, "serving")
            /\ Goes(c, "searching")
            /\ UNCHANGED <<activePlayerNodes, socket, open, node, aborted>>

\* pthread_exit in a handler: neither removed nor closed.
ThreadExits(c) == /\ At(c, "serving")
                  /\ Goes(c, "exited")
                  /\ UNCHANGED <<activePlayerNodes, socket, open, node, aborted>>

Search(c) == At(c, "searching") /\ Fetch(c, "comparing")

\* Mutant: the socket is closed as soon as the node is found.
CompareAndClose(c) ==
  LET found == socket[thread[c].fetched] = socket[c]
  IN /\ At(c, "comparing")
     /\ IF found THEN Scans(c, "excising", thread[c].idx, Null)
                 ELSE Scans(c, "searching", thread[c].idx + 1, Null)
     /\ open' = IF found THEN open \ {c} ELSE open
     /\ UNCHANGED <<activePlayerNodes, socket, node, aborted>>
Compare(c) ==
  /\ At(c, "comparing")
  /\ IF socket[thread[c].fetched] = socket[c]
     THEN Scans(c, "excising", thread[c].idx, Null)
     ELSE Scans(c, "searching", thread[c].idx + 1, Null)
  /\ UNCHANGED <<activePlayerNodes, socket, open, node, aborted>>

Freed(c) == {fetch_from_offset(activePlayerNodes, thread[c].idx)} \ {Null}

\* The node that is in the slot by now.
Excise(c) ==
  /\ At(c, "excising")
  /\ IF ExciseAccepted(activePlayerNodes, thread[c].idx)
     THEN /\ activePlayerNodes' = excise_at_offset(activePlayerNodes, thread[c].idx)
          /\ node' = [n \in Connections |-> IF n \in Freed(c) THEN "freed" ELSE node[n]]
     ELSE UNCHANGED <<activePlayerNodes, node>>
  /\ Goes(c, "closing")
  /\ UNCHANGED <<socket, open, aborted>>

\* Found and excised, or not found at all.
\* Mutant: it is taken for granted that a thread finds its node.
CloseFound(c) ==
  /\ At(c, "closing")
  /\ open' = open \ {c}
  /\ Goes(c, "gone")
  /\ UNCHANGED <<activePlayerNodes, socket, node, aborted>>
Close(c) ==
  /\ \/ At(c, "closing")
     \/ At(c, "searching") /\ thread[c].idx >= activePlayerNodes.allocated_slots
  /\ open' = open \ {c}
  /\ Goes(c, "gone")
  /\ UNCHANGED <<activePlayerNodes, socket, node, aborted>>

-----------------------------------------------------------------------------
\* A thread about to use freed memory, or memory outside the store.
Faults(c) ==
  \/ thread[c].pc \in {"printing", "comparing"} /\ node[thread[c].fetched] = "freed"
  \/ At(c, "serving") /\ node[c] = "freed"
  \/ /\ At(c, "surveying") /\ AppendOverruns
     /\ thread[c].idx >= activePlayerNodes.allocated_slots

Step(c) ==
  IF Faults(c)
  THEN aborted' = TRUE /\ UNCHANGED <<activePlayerNodes, socket, open, node, thread>>
  ELSE \/ Survey(c) \/ dumpPlayerNodeDiagnostics(c) \/ Register(c)
       \/ Search(c) \/ Compare(c) \/ Excise(c) \/ Close(c)

Next == ~ aborted /\ \E c \in Connections : accept(c) \/ Step(c) \/ Leave(c) \/ ThreadExits(c)

Spec == Init /\ [][Next]_vars

-----------------------------------------------------------------------------
Listed == {activePlayerNodes.heap_region[i] : i \in Live(activePlayerNodes)}

\* Every variable has the values the code can give it.
TypeOK ==
  /\ IsStore(activePlayerNodes, Connections)
  /\ socket \in [Connections -> Nat]
  /\ open \subseteq Connections
  /\ node \in [Connections -> {"none", "live", "freed"}]
  /\ thread \in [Connections ->
                   [pc : {"none", "surveying", "printing", "serving", "searching", "comparing",
                          "excising", "closing", "gone", "exited"},
                    idx : Nat, fetched : Connections \cup {Null}]]
  /\ aborted \in BOOLEAN

\* Whatever a leaving thread finds in its slot by the time it excises it, no
\* slot is left with a node that was freed, and no node is in two slots.
NoDanglingSlot ==
  /\ \A c \in Listed : node[c] = "live"
  /\ \A i, j \in Live(activePlayerNodes) :
       activePlayerNodes.heap_region[i] = activePlayerNodes.heap_region[j] => i = j

\* The leaving thread finds its node by its socket: no two listed nodes have
\* the same one, even though a closed number is given to the next player.
ListedSocketsDiffer ==
  \A c, d \in Listed : socket[c] = socket[d] => c = d

\* "l'elenco degli utenti connessi" (Documentazione.tex:165): who is being
\* served is in the registry.
ServedAreListed == \A c \in Connections : At(c, "serving") => c \in Listed

\* "garantendo totale thread-safety" (Documentazione.tex:191): no thread looks
\* at a node another has freed.
NoUseAfterFree == ~ aborted

\* "ridimensionarsi automaticamente (shrink)" (Documentazione.tex:191): above
\* its floor, the store has something in its upper half.
NoUnusedHalf ==
  LET s == activePlayerNodes
  IN s.allocated_slots > s.floor_threshold =>
       \E i \in Live(s) : i >= s.allocated_slots \div 2
=============================================================================
