----------------------- MODULE SessionRegistry_proofs -----------------------
(***************************************************************************)
(* Proofs about SessionRegistry, for any set of hosts and any sizes of the *)
(* store and of the pool of identifiers.                                   *)
(***************************************************************************)
EXTENDS SessionRegistry, SessionIds_proofs, DynamicArray_proofs, FiniteSetTheorems

\* The identifier h works with is its own to put back.
HasId(h) == thread[h] \in {"creating", "bound", "ending", "leaving"} /\ sessionId[h] # NoId

\* Where the thread of a host is tells whether it has an identifier.
ThreadsTellIds ==
  \A h \in Hosts :
    /\ thread[h] \in {"gone", "idle"} => sessionId[h] = NoId
    /\ thread[h] \in {"creating", "bound", "ending", "purging"} => sessionId[h] \in Nat

HoldersHold == \A h \in Hosts : HasId(h) => sessionId[h] \in held

HoldersApart == \A g, h \in Hosts : g # h /\ HasId(g) /\ HasId(h) => sessionId[g] # sessionId[h]

\* A session in the store is that of a host which knows it.
SlotsHaveHosts ==
  \A i \in Live(activeMatchSessions) :
    LET session == activeMatchSessions.heap_region[i]
    IN /\ session \in Sessions
       /\ session.sessionId = i
       /\ sessionId[session.participantPrimary] = i
       /\ thread[session.participantPrimary] \in {"bound", "leaving", "purging"}

\* Also those whose identifier has gone back know one that was made.
IdsKnown == \A h \in Hosts : sessionId[h] # NoId => sessionId[h] < current_highest_id

RegistryInv == /\ TypeOK
               /\ IdInv
               /\ ThreadsTellIds
               /\ HoldersHold
               /\ HoldersApart
               /\ SlotsHaveHosts
               /\ IdsKnown

Threads == {"gone", "idle", "creating", "bound", "ending", "leaving", "purging"}

-----------------------------------------------------------------------------
(* Steps that leave the identifiers alone, or use them as IdSpec has it. *)

\* The orphan a purge finds is in the slot of the identifier of its host.
LEMMA OrphanIsOwn ==
  ASSUME NEW h \in Hosts, RegistryInv, NEW i \in Orphans(h)
  PROVE  /\ i = sessionId[h]
         /\ activeMatchSessions.heap_region[i].sessionId = i
  BY DEF RegistryInv, SlotsHaveHosts, Orphans

\* Every step treats the identifiers as IdSpec has it.
LEMMA Step_IdNext ==
  ASSUME NEW h \in Hosts, RegistryInv, Step(h)
  PROVE  [IdNext]_idVars
<1>1. CASE AcquireId(h)
  BY <1>1 DEF AcquireId, IdNext
<1>2. ASSUME ForgetId(sessionId[h]), thread[h] \in {"creating", "leaving"}
      PROVE  [IdNext]_idVars
  <2>1. CASE sessionId[h] # NoId
    <3>1. sessionId[h] \in held
      BY <1>2, <2>1 DEF RegistryInv, HoldersHold, HasId
    <3> QED
      BY <1>2, <3>1 DEF IdNext
  <2>2. CASE sessionId[h] = NoId
    <3>1. NoId \notin held
      BY DEF RegistryInv, TypeOK, IdTypeOK, NoId
    <3>2. held' = held
      BY <1>2, <2>2, <3>1 DEF ForgetId
    <3> QED
      BY <1>2, <3>2 DEF ForgetId, idVars
  <2> QED
    BY <2>1, <2>2
<1>3. CASE ExitCreating(h)
  BY <1>2, <1>3 DEF ExitCreating, Goes
<1>4. CASE ImplantSession(h)
  BY <1>2, <1>4 DEF ImplantSession, Goes, idVars
<1>5. CASE ReclaimId(h)
  <2>1. thread[h] = "ending" /\ relinquishSessionIdentifier(sessionId[h])
    BY <1>5 DEF ReclaimId, Goes
  <2>2. sessionId[h] \in Nat
    BY <2>1 DEF RegistryInv, ThreadsTellIds
  <2>3. sessionId[h] \in held
    BY <2>1, <2>2 DEF RegistryInv, HoldersHold, HasId, NoId
  <2> QED
    BY <2>1, <2>3 DEF IdNext
<1>6. CASE RelinquishOrphan(h)
  <2>1. PICK i \in Orphans(h) :
          /\ thread[h] = "leaving"
          /\ relinquishSessionIdentifier(activeMatchSessions.heap_region[i].sessionId)
    BY <1>6 DEF RelinquishOrphan, Goes
  <2>2. sessionId[h] = i /\ activeMatchSessions.heap_region[i].sessionId = i
    BY OrphanIsOwn
  <2>3. i # NoId
    BY DEF Orphans, Live, Offsets, NoId, RegistryInv, TypeOK, IsStore
  <2>4. i \in held
    BY <2>1, <2>2, <2>3 DEF RegistryInv, HoldersHold, HasId
  <2> QED
    BY <2>1, <2>2, <2>4 DEF IdNext
<1>7. CASE EndThread(h)
  BY <1>2, <1>7 DEF EndThread, Goes
<1>8. CASE Connect(h) \/ ExciseMatch(h) \/ Leave(h) \/ ExciseOrphan(h)
  BY <1>8 DEF Connect, ExciseMatch, Leave, ExciseOrphan, idVars
<1> QED
  BY <1>1, <1>3, <1>4, <1>5, <1>6, <1>7, <1>8 DEF Step

\* What is put back or forgotten by one host is no other's.
LEMMA OthersKeepTheirs ==
  ASSUME NEW h \in Hosts, NEW g \in Hosts \ {h}, RegistryInv, HasId(g),
         HasId(h) \/ sessionId[h] = NoId
  PROVE  sessionId[g] \in held \ {sessionId[h]}
  BY DEF RegistryInv, HoldersHold, HoldersApart, HasId

-----------------------------------------------------------------------------
(* What a step of one host owes to the invariant. *)

Host(store, i) == store.heap_region[i].participantPrimary

\* So it keeps the invariant of the identifiers.
LEMMA Step_IdInv ==
  ASSUME NEW h \in Hosts, RegistryInv, Step(h)
  PROVE  IdInv'
  BY Step_IdNext, IdNext_IdInv DEF RegistryInv

\* No identifier is unmade.
LEMMA HighestGrows ==
  ASSUME RegistryInv, [IdNext]_idVars
  PROVE  /\ current_highest_id \in Nat
         /\ current_highest_id' \in Nat
         /\ current_highest_id <= current_highest_id'
  BY DEF RegistryInv, IdInv, IdTypeOK, IdNext, idVars, acquireNewSessionIdentifier,
     relinquishSessionIdentifier, ForgetId

\* Only h moves, and its identifier suits the place it moves to.
Moves(h, to, id) ==
  /\ to \in Threads
  /\ id \in Nat \cup {NoId}
  /\ id \in {NoId, sessionId[h]} \/ id \in held'
  /\ thread' = [thread EXCEPT ![h] = to]
  /\ sessionId' = [sessionId EXCEPT ![h] = id]
  /\ to \in {"gone", "idle"} => id = NoId
  /\ to \in {"creating", "bound", "ending", "purging"} => id \in Nat
  /\ aborted' \in BOOLEAN

\* h holds the identifier it works with, and the others still hold theirs.
Holds(h, to, id) ==
  /\ to \in {"creating", "bound", "ending", "leaving"} /\ id # NoId =>
       /\ id \in held'
       /\ \A g \in Hosts \ {h} : HasId(g) => sessionId[g] # id
  /\ \A g \in Hosts \ {h} : HasId(g) => sessionId[g] \in held'

\* The store keeps nothing but what it held of others, and the slot of h.
Stores(h, to, id) ==
  /\ IsStore(activeMatchSessions', Sessions)
  /\ \A i \in Live(activeMatchSessions') :
       LET session == activeMatchSessions'.heap_region[i]
       IN \/ /\ i \in Live(activeMatchSessions)
             /\ session = activeMatchSessions.heap_region[i]
             /\ session.participantPrimary # h
          \/ /\ session \in Sessions
             /\ session.participantPrimary = h
             /\ session.sessionId = i
             /\ id = i
             /\ to \in {"bound", "leaving", "purging"}

\* A step that meets the three obligations keeps the invariant.
LEMMA HostMoves ==
  ASSUME NEW h \in Hosts, RegistryInv, Step(h), NEW to, NEW id,
         Moves(h, to, id), Holds(h, to, id), Stores(h, to, id)
  PROVE  RegistryInv'
<1>1. /\ thread \in [Hosts -> Threads]
      /\ sessionId \in [Hosts -> Nat \cup {NoId}]
  BY DEF RegistryInv, TypeOK, Threads
<1>2. /\ thread'[h] = to
      /\ sessionId'[h] = id
      /\ \A g \in Hosts \ {h} : thread'[g] = thread[g] /\ sessionId'[g] = sessionId[g]
  BY <1>1 DEF Moves
<1>0. IdInv'
  BY Step_IdInv
<1>3. TypeOK'
  <2>1. thread' \in [Hosts -> Threads] /\ sessionId' \in [Hosts -> Nat \cup {NoId}]
    BY <1>1 DEF Moves
  <2>2. IdTypeOK'
    BY <1>0 DEF IdInv
  <2> QED
    BY <2>1, <2>2 DEF TypeOK, Threads, Moves, Stores
<1>4. ThreadsTellIds'
  BY <1>2 DEF ThreadsTellIds, RegistryInv, Moves
<1>5. \A g \in Hosts \ {h} : HasId(g)' <=> HasId(g)
  BY <1>2 DEF HasId
<1>6. HoldersHold'
  <2>1. HasId(h)' => sessionId'[h] \in held'
    BY <1>2 DEF HasId, Holds
  <2>2. \A g \in Hosts \ {h} : HasId(g)' => sessionId'[g] \in held'
    BY <1>2, <1>5 DEF Holds
  <2> QED
    BY <2>1, <2>2 DEF HoldersHold
<1>7. HoldersApart'
  <2>1. \A g \in Hosts \ {h} : HasId(h)' /\ HasId(g)' => sessionId'[g] # sessionId'[h]
    <3> TAKE g \in Hosts \ {h}
    <3> HAVE HasId(h)' /\ HasId(g)'
    <3>1. to \in {"creating", "bound", "ending", "leaving"} /\ id # NoId
      BY <1>2 DEF HasId
    <3>2. HasId(g)
      BY <1>5
    <3> QED
      BY <1>2, <3>1, <3>2 DEF Holds
  <2>2. \A f, g \in Hosts \ {h} :
          f # g /\ HasId(f)' /\ HasId(g)' => sessionId'[f] # sessionId'[g]
    BY <1>2, <1>5 DEF RegistryInv, HoldersApart
  <2> QED
    BY <2>1, <2>2 DEF HoldersApart
<1>8. SlotsHaveHosts'
  <2> SUFFICES ASSUME NEW i \in Live(activeMatchSessions')
               PROVE  LET session == activeMatchSessions'.heap_region[i]
                      IN /\ session \in Sessions
                         /\ session.sessionId = i
                         /\ sessionId'[session.participantPrimary] = i
                         /\ thread'[session.participantPrimary]
                              \in {"bound", "leaving", "purging"}
    BY DEF SlotsHaveHosts
  <2> DEFINE session == activeMatchSessions'.heap_region[i]
             g == session.participantPrimary
  <2>1. CASE /\ i \in Live(activeMatchSessions)
             /\ session = activeMatchSessions.heap_region[i]
             /\ g # h
    <3>1. /\ session \in Sessions
          /\ session.sessionId = i
          /\ sessionId[g] = i
          /\ thread[g] \in {"bound", "leaving", "purging"}
      BY <2>1 DEF RegistryInv, SlotsHaveHosts
    <3>2. g \in Hosts \ {h}
      BY <2>1, <3>1 DEF Sessions
    <3> HIDE DEF session, g
    <3>3. sessionId'[g] = sessionId[g] /\ thread'[g] = thread[g]
      BY <1>2, <3>2
    <3> QED
      BY <3>1, <3>3 DEF session, g
  <2>2. CASE /\ session \in Sessions
             /\ g = h
             /\ session.sessionId = i
             /\ id = i
             /\ to \in {"bound", "leaving", "purging"}
    BY <1>2, <2>2
  <2> QED
    BY <2>1, <2>2 DEF Stores
<1>9. IdsKnown'
  <2>1. /\ current_highest_id \in Nat
        /\ current_highest_id' \in Nat
        /\ current_highest_id <= current_highest_id'
    BY Step_IdNext, HighestGrows
  <2>2. \A g \in Hosts : sessionId[g] # NoId =>
          sessionId[g] \in Nat /\ sessionId[g] < current_highest_id
    BY <1>1 DEF RegistryInv, IdsKnown
  <2>3. \A i \in held' : i < current_highest_id'
    BY <1>0 DEF IdInv, IdsWereMade
  <2>4. id # NoId => id < current_highest_id'
    BY <2>1, <2>2, <2>3 DEF Moves
  <2>5. \A g \in Hosts \ {h} : sessionId'[g] # NoId => sessionId'[g] < current_highest_id'
    BY <1>2, <2>1, <2>2
  <2> QED
    BY <1>2, <2>4, <2>5 DEF IdsKnown
<1> QED
  BY <1>0, <1>3, <1>4, <1>6, <1>7, <1>8, <1>9 DEF RegistryInv

\* A host that is elsewhere has no session in the store.
LEMMA SlotsOf ==
  ASSUME RegistryInv, NEW i \in Live(activeMatchSessions)
  PROVE  /\ activeMatchSessions.heap_region[i] \in Sessions
         /\ activeMatchSessions.heap_region[i].sessionId = i
         /\ Host(activeMatchSessions, i) \in Hosts
         /\ sessionId[Host(activeMatchSessions, i)] = i
         /\ thread[Host(activeMatchSessions, i)] \in {"bound", "leaving", "purging"}
  BY DEF RegistryInv, SlotsHaveHosts, Host, Sessions

-----------------------------------------------------------------------------
(* The steps. *)

\* The store does not change.
LEMMA UnchangedStore ==
  ASSUME NEW h \in Hosts, RegistryInv, UNCHANGED activeMatchSessions, NEW to, NEW id,
         \/ thread[h] \notin {"bound", "leaving", "purging"}
         \/ Orphans(h) = {}
         \/ id = sessionId[h] /\ to \in {"bound", "leaving", "purging"}
  PROVE  Stores(h, to, id)
<1>1. IsStore(activeMatchSessions', Sessions)
  BY DEF RegistryInv, TypeOK
<1>2. ASSUME NEW i \in Live(activeMatchSessions),
             activeMatchSessions.heap_region[i].participantPrimary = h
      PROVE  id = sessionId[h] /\ to \in {"bound", "leaving", "purging"}
  BY <1>2, SlotsOf DEF Host, Orphans
<1>3. \A i \in Live(activeMatchSessions) :
        activeMatchSessions.heap_region[i].participantPrimary = h =>
          id = i /\ to \in {"bound", "leaving", "purging"}
  BY <1>2, SlotsOf DEF Host
<1> QED
  BY <1>1, <1>3, SlotsOf DEF Stores

\* A player connects.
LEMMA Connect_Inv ==
  ASSUME NEW h \in Hosts, RegistryInv, Connect(h)
  PROVE  RegistryInv'
<1>1. /\ thread[h] = "gone"
      /\ thread' = [thread EXCEPT ![h] = "idle"]
      /\ UNCHANGED <<held, activeMatchSessions, sessionId, aborted>>
  BY DEF Connect, Goes, idVars
<1>2. Moves(h, "idle", NoId)
  BY <1>1 DEF Moves, Threads, RegistryInv, TypeOK, ThreadsTellIds
<1>3. Holds(h, "idle", NoId)
  BY <1>1 DEF Holds, RegistryInv, HoldersHold
<1>4. Stores(h, "idle", NoId)
  BY <1>1, UnchangedStore
<1> QED
  BY <1>2, <1>3, <1>4, HostMoves DEF Step

\* A creation takes an identifier no one works with.
LEMMA AcquireId_Inv ==
  ASSUME NEW h \in Hosts, RegistryInv, AcquireId(h)
  PROVE  RegistryInv'
<1>1. /\ thread[h] = "idle"
      /\ thread' = [thread EXCEPT ![h] = "creating"]
      /\ sessionId' = [sessionId EXCEPT ![h] = NextId]
      /\ held' = held \cup {NextId}
      /\ UNCHANGED <<activeMatchSessions, aborted>>
  BY DEF AcquireId, Goes, Keeps, acquireNewSessionIdentifier
<1>2. NextId \in Nat /\ NextId \notin held
  <2>1. CASE recycled_id_pool = <<>>
    BY <2>1 DEF NextId, RegistryInv, IdInv, IdTypeOK, IdsWereMade
  <2>2. CASE recycled_id_pool # <<>>
    <3>1. recycled_id_pool \in Seq(Nat)
      BY DEF RegistryInv, IdInv, IdTypeOK
    <3>2. /\ Len(recycled_id_pool) \in DOMAIN recycled_id_pool
          /\ recycled_id_pool[Len(recycled_id_pool)] \in Nat
      BY <2>2, <3>1
    <3>3. recycled_id_pool[Len(recycled_id_pool)] \in Pooled
      BY <3>2 DEF Pooled
    <3> QED
      BY <2>2, <3>2, <3>3 DEF NextId, RegistryInv, IdInv, IdsNeverShared
  <2> QED
    BY <2>1, <2>2
<1>3. Moves(h, "creating", NextId)
  BY <1>1, <1>2 DEF Moves, Threads, RegistryInv, TypeOK
<1>4. Holds(h, "creating", NextId)
  BY <1>1, <1>2 DEF Holds, RegistryInv, HoldersHold
<1>5. Stores(h, "creating", NextId)
  BY <1>1, UnchangedStore
<1> QED
  BY <1>3, <1>4, <1>5, HostMoves DEF Step

\* Ending with its identifier, from a place where no session is listed.
LEMMA Forgetting_Inv ==
  ASSUME NEW h \in Hosts, RegistryInv, Step(h),
         thread[h] \in {"creating", "leaving"}, Orphans(h) = {},
         thread' = [thread EXCEPT ![h] = "gone"],
         ForgetId(sessionId[h]), Keeps(h, NoId), UNCHANGED activeMatchSessions,
         aborted' \in BOOLEAN
  PROVE  RegistryInv'
<1>1. Moves(h, "gone", NoId)
  BY DEF Moves, Threads, Keeps
<1>2. Holds(h, "gone", NoId)
  <2>1. HasId(h) \/ sessionId[h] = NoId
    BY DEF HasId
  <2>2. \A g \in Hosts \ {h} : HasId(g) => sessionId[g] \in held \ {sessionId[h]}
    BY <2>1, OthersKeepTheirs
  <2> QED
    BY <2>2 DEF Holds, ForgetId
<1>3. Stores(h, "gone", NoId)
  BY UnchangedStore
<1> QED
  BY <1>1, <1>2, <1>3, HostMoves

\* A host that is not in a session has none in the store.
LEMMA CreatorHasNone ==
  ASSUME NEW h \in Hosts, RegistryInv, thread[h] \notin {"bound", "leaving", "purging"}
  PROVE  Orphans(h) = {}
  BY SlotsOf DEF Orphans, Host

\* A creation gives up and forgets its identifier.
LEMMA ExitCreating_Inv ==
  ASSUME NEW h \in Hosts, RegistryInv, ExitCreating(h)
  PROVE  RegistryInv'
<1>1. /\ thread[h] = "creating"
      /\ thread' = [thread EXCEPT ![h] = "gone"]
      /\ ForgetId(sessionId[h])
      /\ Keeps(h, NoId)
      /\ UNCHANGED activeMatchSessions
      /\ aborted' \in BOOLEAN
  BY DEF ExitCreating, Goes, RegistryInv, TypeOK
<1>2. Orphans(h) = {}
  BY <1>1, CreatorHasNone
<1> QED
  BY <1>1, <1>2, Forgetting_Inv DEF Step

\* A purge finds nothing, or has nothing left to find.
LEMMA EndThread_Inv ==
  ASSUME NEW h \in Hosts, RegistryInv, EndThread(h)
  PROVE  RegistryInv'
<1>1. /\ thread[h] = "leaving"
      /\ thread' = [thread EXCEPT ![h] = "gone"]
      /\ ForgetId(sessionId[h])
      /\ Keeps(h, NoId)
      /\ UNCHANGED activeMatchSessions
      /\ aborted' \in BOOLEAN
      /\ Orphans(h) = {}
  BY DEF EndThread, Goes, RegistryInv, TypeOK
<1> QED
  BY <1>1, Forgetting_Inv DEF Step

\* The identifiers do not change, nor does the one h works with, which it holds.
LEMMA SameIds ==
  ASSUME NEW h \in Hosts, RegistryInv, UNCHANGED held, NEW to,
         HasId(h) \/ to \notin {"creating", "bound", "ending", "leaving"}
                  \/ sessionId[h] = NoId
  PROVE  Holds(h, to, sessionId[h])
  BY DEF Holds, RegistryInv, HoldersHold, HoldersApart

\* A host that does not change its identifier.
LEMMA SameId ==
  ASSUME RegistryInv, NEW h \in Hosts
  PROVE  /\ sessionId[h] \in Nat \cup {NoId}
         /\ UNCHANGED sessionId => sessionId' = [sessionId EXCEPT ![h] = sessionId[h]]
  BY DEF RegistryInv, TypeOK

\* A session is implanted in its slot, refused, or written beyond the store.
LEMMA ImplantSession_Inv ==
  ASSUME NEW h \in Hosts, RegistryInv, ImplantSession(h)
  PROVE  RegistryInv'
<1> DEFINE id == sessionId[h]
<1>1. thread[h] = "creating" /\ id \in Nat /\ id # NoId
  BY DEF ImplantSession, RegistryInv, ThreadsTellIds, NoId
<1>2. CASE ~ ImplantAccepted(activeMatchSessions, id)
  <2>1. /\ Goes(h, "creating", "gone")
        /\ ForgetId(id)
        /\ Keeps(h, NoId)
        /\ UNCHANGED <<activeMatchSessions, aborted>>
    BY <1>2 DEF ImplantSession, ImplantOverruns
  <2>3. thread' = [thread EXCEPT ![h] = "gone"] /\ aborted' \in BOOLEAN
    BY <2>1 DEF Goes, RegistryInv, TypeOK
  <2>2. Orphans(h) = {}
    BY <1>1, CreatorHasNone
  <2> QED
    BY <1>1, <2>1, <2>2, <2>3, Forgetting_Inv DEF Step
<1>3. CASE ImplantOverruns(activeMatchSessions, id)
  <2>1. /\ aborted' = TRUE
        /\ UNCHANGED <<idVars, activeMatchSessions, thread, sessionId>>
    BY <1>3 DEF ImplantSession, ImplantOverruns
  <2> QED
    BY <2>1 DEF RegistryInv, TypeOK, IdInv, IdTypeOK, IdsNeverShared, IdsWereMade,
       PoolNeverOverflows, Pooled, idVars, ThreadsTellIds, HoldersHold, HoldersApart,
       HasId, SlotsHaveHosts, IdsKnown
<1>4. CASE /\ ImplantAccepted(activeMatchSessions, id)
           /\ ~ ImplantOverruns(activeMatchSessions, id)
  <2> DEFINE session == Session(h, id)
  <2>1. /\ thread' = [thread EXCEPT ![h] = "bound"]
        /\ activeMatchSessions' = implant_at_offset(activeMatchSessions, id, session)
        /\ UNCHANGED <<idVars, sessionId, aborted>>
    BY <1>4 DEF ImplantSession, Goes
  <2>2. session \in Sessions /\ session.participantPrimary = h /\ session.sessionId = id
    BY <1>1 DEF Session, Sessions
  <2>3. session # Null
    BY <2>2, RegistryAssumption
  <2>4. IsStore(activeMatchSessions, Sessions)
    BY DEF RegistryInv, TypeOK
  <2>5. Moves(h, "bound", id)
    BY <1>1, <2>1, SameId DEF Moves, Threads, RegistryInv, TypeOK
  <2>6. Holds(h, "bound", id)
    BY <1>1, <2>1, SameIds DEF HasId, idVars
  <2>7. Stores(h, "bound", id)
    <3> HIDE DEF id, session
    <3>1. /\ IsStore(activeMatchSessions', Sessions)
          /\ Live(activeMatchSessions') = Live(activeMatchSessions) \cup {id}
          /\ activeMatchSessions'.heap_region[id] = session
          /\ \A i \in Live(activeMatchSessions) \ {id} :
               activeMatchSessions'.heap_region[i] = activeMatchSessions.heap_region[i]
      BY <1>1, <1>4, <2>1, <2>2, <2>3, <2>4, ImplantWritesOneSlot
    <3>2. \A i \in Live(activeMatchSessions) :
            activeMatchSessions.heap_region[i].participantPrimary # h
      BY <1>1, CreatorHasNone DEF Orphans
    <3> QED
      BY <2>2, <3>1, <3>2 DEF Stores
  <2> QED
    BY <2>5, <2>6, <2>7, HostMoves DEF Step
<1> QED
  BY <1>2, <1>3, <1>4

\* Emptying the slot of h takes nothing else, and leaves nothing of h.
LEMMA Emptied ==
  ASSUME NEW h \in Hosts, RegistryInv, sessionId[h] \in Nat, NEW to, NEW id,
         activeMatchSessions' = IF ExciseAccepted(activeMatchSessions, sessionId[h])
                                THEN excise_at_offset(activeMatchSessions, sessionId[h])
                                ELSE activeMatchSessions
  PROVE  Stores(h, to, id)
<1> DEFINE slot == sessionId[h]
<1>1. IsStore(activeMatchSessions, Sessions)
  BY DEF RegistryInv, TypeOK
<1>2. /\ IsStore(activeMatchSessions', Sessions)
      /\ \A i \in Live(activeMatchSessions') :
           /\ i \in Live(activeMatchSessions) \ {slot}
           /\ activeMatchSessions'.heap_region[i] = activeMatchSessions.heap_region[i]
  <2>1. CASE ExciseAccepted(activeMatchSessions, slot)
    BY <1>1, <2>1, ExciseEmptiesOneSlot
  <2>2. CASE ~ ExciseAccepted(activeMatchSessions, slot)
    BY <1>1, <2>2 DEF ExciseAccepted, Live, Offsets, IsStore
  <2> QED
    BY <2>1, <2>2
<1>3. \A i \in Live(activeMatchSessions) \ {slot} :
        activeMatchSessions.heap_region[i].participantPrimary # h
  BY SlotsOf DEF Host
<1> QED
  BY <1>2, <1>3 DEF Stores

\* The end of a match empties the slot of its session.
LEMMA ExciseMatch_Inv ==
  ASSUME NEW h \in Hosts, RegistryInv, ExciseMatch(h)
  PROVE  RegistryInv'
<1>1. /\ thread[h] = "bound"
      /\ thread' = [thread EXCEPT ![h] = "ending"]
      /\ UNCHANGED <<idVars, sessionId, aborted>>
      /\ fetch_from_offset(activeMatchSessions, sessionId[h]) = Session(h, sessionId[h])
      /\ activeMatchSessions' = excise_at_offset(activeMatchSessions, sessionId[h])
  BY DEF ExciseMatch, Goes
<1>2. sessionId[h] \in Nat /\ sessionId[h] # NoId
  BY <1>1 DEF RegistryInv, ThreadsTellIds, NoId
<1>3. ExciseAccepted(activeMatchSessions, sessionId[h])
  <2>1. Session(h, sessionId[h]) \in Sessions
    BY <1>2 DEF Session, Sessions
  <2>2. Session(h, sessionId[h]) # Null
    BY <2>1, RegistryAssumption
  <2> QED
    BY <1>1, <2>2 DEF fetch_from_offset, ExciseAccepted
<1>4. Moves(h, "ending", sessionId[h])
  BY <1>1, <1>2, SameId DEF Moves, Threads, RegistryInv, TypeOK
<1>5. Holds(h, "ending", sessionId[h])
  BY <1>1, <1>2, SameIds DEF HasId, idVars
<1>6. Stores(h, "ending", sessionId[h])
  BY <1>1, <1>2, <1>3, Emptied
<1> QED
  BY <1>4, <1>5, <1>6, HostMoves DEF Step

\* And puts the identifier back, which is the host's own.
LEMMA ReclaimId_Inv ==
  ASSUME NEW h \in Hosts, RegistryInv, ReclaimId(h)
  PROVE  RegistryInv'
<1>1. /\ thread[h] = "ending"
      /\ thread' = [thread EXCEPT ![h] = "idle"]
      /\ held' = held \ {sessionId[h]}
      /\ sessionId' = [sessionId EXCEPT ![h] = NoId]
      /\ UNCHANGED <<activeMatchSessions, aborted>>
  BY DEF ReclaimId, Goes, Keeps, relinquishSessionIdentifier
<1>2. Moves(h, "idle", NoId)
  BY <1>1 DEF Moves, Threads, RegistryInv, TypeOK
<1>3. Holds(h, "idle", NoId)
  <2>1. HasId(h) \/ sessionId[h] = NoId
    BY <1>1 DEF HasId
  <2>2. \A g \in Hosts \ {h} : HasId(g) => sessionId[g] \in held \ {sessionId[h]}
    BY <2>1, OthersKeepTheirs
  <2> QED
    BY <1>1, <2>2 DEF Holds
<1>4. Stores(h, "idle", NoId)
  BY <1>1, UnchangedStore
<1> QED
  BY <1>2, <1>3, <1>4, HostMoves DEF Step

\* A player leaves, with its session or without.
LEMMA Leave_Inv ==
  ASSUME NEW h \in Hosts, RegistryInv, Leave(h)
  PROVE  RegistryInv'
<1>1. /\ thread[h] \in {"idle", "bound"}
      /\ thread' = [thread EXCEPT ![h] = "leaving"]
      /\ UNCHANGED <<idVars, activeMatchSessions, sessionId, aborted>>
  BY DEF Leave, Goes
<1>2. Moves(h, "leaving", sessionId[h])
  BY <1>1, SameId DEF Moves, Threads, RegistryInv, TypeOK
<1>3. Holds(h, "leaving", sessionId[h])
  <2>1. HasId(h) \/ sessionId[h] = NoId
    BY <1>1 DEF HasId, RegistryInv, ThreadsTellIds
  <2> QED
    BY <1>1, <2>1, SameIds DEF idVars
<1>4. Stores(h, "leaving", sessionId[h])
  BY <1>1, UnchangedStore
<1> QED
  BY <1>2, <1>3, <1>4, HostMoves DEF Step

\* A purge puts back the identifier of its own orphan.
LEMMA RelinquishOrphan_Inv ==
  ASSUME NEW h \in Hosts, RegistryInv, RelinquishOrphan(h)
  PROVE  RegistryInv'
<1>1. PICK i \in Orphans(h) :
        /\ thread[h] = "leaving"
        /\ thread' = [thread EXCEPT ![h] = "purging"]
        /\ held' = held \ {activeMatchSessions.heap_region[i].sessionId}
        /\ UNCHANGED <<activeMatchSessions, sessionId, aborted>>
  BY DEF RelinquishOrphan, Goes, relinquishSessionIdentifier
<1>2. i = sessionId[h] /\ activeMatchSessions.heap_region[i].sessionId = i
  BY OrphanIsOwn
<1>3. i \in Nat
  BY DEF Orphans, Live, Offsets, RegistryInv, TypeOK, IsStore
<1>4. Moves(h, "purging", sessionId[h])
  BY <1>1, <1>2, <1>3, SameId DEF Moves, Threads, RegistryInv, TypeOK
<1>5. Holds(h, "purging", sessionId[h])
  <2>1. HasId(h) \/ sessionId[h] = NoId
    BY <1>1 DEF HasId
  <2>2. \A g \in Hosts \ {h} : HasId(g) => sessionId[g] \in held \ {sessionId[h]}
    BY <2>1, OthersKeepTheirs
  <2> QED
    BY <1>1, <1>2, <2>2 DEF Holds
<1>6. Stores(h, "purging", sessionId[h])
  BY <1>1, UnchangedStore
<1> QED
  BY <1>4, <1>5, <1>6, HostMoves DEF Step

\* And empties the slot, which may be another's by now.
LEMMA ExciseOrphan_Inv ==
  ASSUME NEW h \in Hosts, RegistryInv, ExciseOrphan(h)
  PROVE  RegistryInv'
<1>1. /\ thread[h] = "purging"
      /\ thread' = [thread EXCEPT ![h] = "gone"]
      /\ sessionId' = [sessionId EXCEPT ![h] = NoId]
      /\ UNCHANGED <<idVars, aborted>>
      /\ activeMatchSessions' = IF ExciseAccepted(activeMatchSessions, sessionId[h])
                                THEN excise_at_offset(activeMatchSessions, sessionId[h])
                                ELSE activeMatchSessions
  BY DEF ExciseOrphan, Goes, Keeps
<1>2. sessionId[h] \in Nat
  BY <1>1 DEF RegistryInv, ThreadsTellIds
<1>3. Moves(h, "gone", NoId)
  BY <1>1 DEF Moves, Threads, RegistryInv, TypeOK
<1>4. Holds(h, "gone", NoId)
  BY <1>1 DEF Holds, RegistryInv, HoldersHold, idVars
<1>5. Stores(h, "gone", NoId)
  BY <1>1, <1>2, Emptied
<1> QED
  BY <1>3, <1>4, <1>5, HostMoves DEF Step

-----------------------------------------------------------------------------
(* The theorems. *)

\* The configured store is a store and holds nothing.
LEMMA StoreAtStart ==
  /\ IsStore(configure_memory_store(Starter), Sessions)
  /\ Live(configure_memory_store(Starter)) = {}
  BY RegistryAssumption DEF configure_memory_store, IsStore, Live, Offsets

\* The invariant holds at the start.
LEMMA Init_RegistryInv == Init => RegistryInv
<1> SUFFICES ASSUME Init PROVE RegistryInv
  OBVIOUS
<1>1. IdInv
  BY IdInit_IdInv DEF Init
<1>2. TypeOK
  BY <1>1, StoreAtStart DEF Init, TypeOK, IdInv
<1>3. ThreadsTellIds /\ HoldersHold /\ HoldersApart /\ IdsKnown
  BY DEF Init, ThreadsTellIds, HoldersHold, HoldersApart, HasId, IdsKnown
<1>4. SlotsHaveHosts
  BY StoreAtStart DEF Init, SlotsHaveHosts
<1> QED
  BY <1>1, <1>2, <1>3, <1>4 DEF RegistryInv

\* The invariant is inductive: one lemma per step.
LEMMA Next_RegistryInv == RegistryInv /\ [Next]_vars => RegistryInv'
<1> SUFFICES ASSUME RegistryInv, [Next]_vars PROVE RegistryInv'
  OBVIOUS
<1>1. CASE UNCHANGED vars
  BY <1>1 DEF vars, RegistryInv, TypeOK, IdInv, IdTypeOK, IdsNeverShared, IdsWereMade,
     PoolNeverOverflows, Pooled, idVars, ThreadsTellIds, HoldersHold, HoldersApart,
     HasId, SlotsHaveHosts, IdsKnown
<1>2. ASSUME NEW h \in Hosts, Step(h) PROVE RegistryInv'
  BY <1>2, Connect_Inv, AcquireId_Inv, ExitCreating_Inv, ImplantSession_Inv,
     ExciseMatch_Inv, ReclaimId_Inv, Leave_Inv, RelinquishOrphan_Inv,
     ExciseOrphan_Inv, EndThread_Inv DEF Step
<1> QED
  BY <1>1, <1>2 DEF Next

\* So it holds always.
LEMMA RegistryInvariant == Spec => []RegistryInv
  BY Init_RegistryInv, Next_RegistryInv, PTL DEF Spec

\* The store stays a store and every thread works with a number or with none.
THEOREM RegistryTypeOK == Spec => []TypeOK
<1>1. RegistryInv => TypeOK
  BY DEF RegistryInv
<1> QED
  BY <1>1, RegistryInvariant, PTL

\* The threads of server.c keep the contract of the identifiers: none puts back
\* one that is not its own, and none twice, though the end of a match and the
\* purge of its host both do it without a common lock.
THEOREM RegistryUsesIdsRightly == Spec => UsesIdsRightly
<1>1. Init => IdInit
  BY DEF Init
<1>2. RegistryInv /\ [Next]_vars => [IdNext]_idVars
  BY Step_IdNext DEF Next, vars
<1> QED
  BY <1>1, <1>2, RegistryInvariant, PTL DEF Spec, IdSpec, UsesIdsRightly

\* ... and so two sessions never get one identifier.
THEOREM RegistryNeverSharesIds == Spec => []IdsNeverShared
<1>1. RegistryInv => IdsNeverShared
  BY DEF RegistryInv, IdInv
<1> QED
  BY <1>1, RegistryInvariant, PTL

\* Two players work with one identifier only while one of them is being purged
\* and has put its own back.
THEOREM NoTwoHoldersEver == Spec => []NoTwoHolders
<1>1. RegistryInv => NoTwoHolders
  <2> SUFFICES ASSUME RegistryInv, NEW g \in Hosts, NEW h \in Hosts, g # h,
                      sessionId[g] = sessionId[h], sessionId[g] # NoId
               PROVE  "purging" \in {thread[g], thread[h]}
    BY DEF NoTwoHolders
  <2>1. ~ (HasId(g) /\ HasId(h))
    BY DEF RegistryInv, HoldersApart
  <2>2. thread[g] \notin {"gone", "idle"} /\ thread[h] \notin {"gone", "idle"}
    BY DEF RegistryInv, ThreadsTellIds
  <2> QED
    BY <2>1, <2>2 DEF HasId, RegistryInv, TypeOK
<1> QED
  BY <1>1, RegistryInvariant, PTL

\* The index of a session in the store is its identifier, which has been made
\* and waits for nobody, unless its host is being purged.
THEOREM SlotsAreIdsAlways == Spec => []SlotsAreIds
<1>1. RegistryInv => SlotsAreIds
  <2> SUFFICES ASSUME RegistryInv, NEW i \in Live(activeMatchSessions)
               PROVE  LET session == activeMatchSessions.heap_region[i]
                      IN /\ session.sessionId = i
                         /\ i < current_highest_id
                         /\ i \in Pooled => thread[session.participantPrimary] = "purging"
    BY DEF SlotsAreIds
  <2> DEFINE h == Host(activeMatchSessions, i)
  <2>1. /\ activeMatchSessions.heap_region[i].sessionId = i
        /\ h \in Hosts
        /\ sessionId[h] = i
        /\ thread[h] \in {"bound", "leaving", "purging"}
    BY SlotsOf
  <2>2. i # NoId
    BY DEF Live, Offsets, NoId, RegistryInv, TypeOK, IsStore
  <2> HIDE DEF h
  <2>3. i < current_highest_id
    BY <2>1, <2>2 DEF RegistryInv, IdsKnown
  <2>4. i \in Pooled => thread[h] = "purging"
    <3>1. thread[h] # "purging" => i \in held
      BY <2>1, <2>2 DEF RegistryInv, HoldersHold, HasId
    <3> QED
      BY <3>1 DEF RegistryInv, IdInv, IdsNeverShared
  <2> QED
    BY <2>1, <2>3, <2>4 DEF h, Host
<1> QED
  BY <1>1, RegistryInvariant, PTL

-----------------------------------------------------------------------------
(* What occupied_slots counts. *)

\* The hosts the store still counts: those with a session in it, and those
\* whose purge has an excision to do, in whatever state their slot is.
Counted == {h \in Hosts : thread[h] = "purging" \/ Orphans(h) # {}}

CountInv == /\ IsFiniteSet(Counted)
            /\ Cardinality(Counted) <= activeMatchSessions.occupied_slots

\* A step of h that counts h, discounts it, or does neither.
LEMMA CountMoves ==
  ASSUME NEW h \in Hosts, RegistryInv, CountInv,
         \/ /\ activeMatchSessions'.occupied_slots = activeMatchSessions.occupied_slots
            /\ Counted' \subseteq Counted
         \/ /\ activeMatchSessions'.occupied_slots = activeMatchSessions.occupied_slots + 1
            /\ Counted' \subseteq Counted \cup {h}
         \/ /\ activeMatchSessions'.occupied_slots = activeMatchSessions.occupied_slots - 1
            /\ h \in Counted
            /\ Counted' \subseteq Counted \ {h}
  PROVE  CountInv'
<1> DEFINE count == activeMatchSessions.occupied_slots
<1>1. count \in Int /\ IsFiniteSet(Counted) /\ Cardinality(Counted) <= count
  BY DEF RegistryInv, TypeOK, IsStore, CountInv
<1>2. Cardinality(Counted) \in Nat
  BY <1>1, FS_CardinalityType
<1>3. ASSUME NEW S, IsFiniteSet(S), Counted' \subseteq S, Cardinality(S) <= count'
      PROVE  CountInv'
  <2>1. /\ IsFiniteSet(Counted')
        /\ Cardinality(Counted') <= Cardinality(S)
    BY <1>3, FS_Subset
  <2>2. Cardinality(Counted') \in Nat /\ Cardinality(S) \in Nat
    BY <1>3, <2>1, FS_CardinalityType
  <2>3. count' \in Int
    BY <1>1
  <2> QED
    BY <1>3, <2>1, <2>2, <2>3 DEF CountInv
<1>4. CASE count' = count /\ Counted' \subseteq Counted
  BY <1>1, <1>3, <1>4
<1>5. CASE count' = count + 1 /\ Counted' \subseteq Counted \cup {h}
  <2>1. IsFiniteSet(Counted \cup {h}) /\ Cardinality(Counted \cup {h}) <= Cardinality(Counted) + 1
    BY <1>1, <1>2, FS_AddElement
  <2>2. Cardinality(Counted \cup {h}) \in Nat
    BY <2>1, FS_CardinalityType
  <2> QED
    BY <1>1, <1>2, <1>3, <1>5, <2>1, <2>2
<1>6. CASE count' = count - 1 /\ h \in Counted /\ Counted' \subseteq Counted \ {h}
  <2>1. IsFiniteSet(Counted \ {h}) /\ Cardinality(Counted \ {h}) = Cardinality(Counted) - 1
    BY <1>1, <1>6, FS_RemoveElement
  <2> QED
    BY <1>1, <1>2, <1>3, <1>6, <2>1
<1> QED
  BY <1>4, <1>5, <1>6

\* A step that leaves the store alone discounts nobody, and counts nobody new
\* unless it is a purge, whose host was counted for its orphan.
LEMMA CountStays ==
  ASSUME NEW h \in Hosts, RegistryInv, CountInv, UNCHANGED activeMatchSessions,
         NEW to, thread' = [thread EXCEPT ![h] = to],
         to = "purging" => Orphans(h) # {}
  PROVE  CountInv'
<1>1. \A g \in Hosts : Orphans(g)' = Orphans(g)
  BY DEF Orphans
<1>2. \A g \in Hosts : thread'[g] = IF g = h THEN to ELSE thread[g]
  BY DEF RegistryInv, TypeOK
<1>3. Counted' \subseteq Counted
  BY <1>1, <1>2 DEF Counted
<1> QED
  BY <1>3, CountMoves

\* A store that is changed in one slot only, which is emptied.
LEMMA CountExcised ==
  ASSUME NEW h \in Hosts, RegistryInv, CountInv, sessionId[h] \in Nat,
         h \in Counted, NEW to, to # "purging",
         thread' = [thread EXCEPT ![h] = to],
         ExciseAccepted(activeMatchSessions, sessionId[h]),
         activeMatchSessions' = excise_at_offset(activeMatchSessions, sessionId[h])
  PROVE  CountInv'
<1>1. IsStore(activeMatchSessions, Sessions)
  BY DEF RegistryInv, TypeOK
<1>2. /\ Live(activeMatchSessions') = Live(activeMatchSessions) \ {sessionId[h]}
      /\ \A i \in Live(activeMatchSessions) \ {sessionId[h]} :
           activeMatchSessions'.heap_region[i] = activeMatchSessions.heap_region[i]
      /\ activeMatchSessions'.occupied_slots = activeMatchSessions.occupied_slots - 1
  BY <1>1, ExciseEmptiesOneSlot
<1>3. \A g \in Hosts : Orphans(g)' = Orphans(g) \ {sessionId[h]}
  BY <1>2 DEF Orphans
<1>4. Orphans(h) \subseteq {sessionId[h]}
  BY OrphanIsOwn
<1>5. \A g \in Hosts : thread'[g] = IF g = h THEN to ELSE thread[g]
  BY DEF RegistryInv, TypeOK
<1>6. Counted' \subseteq Counted \ {h}
  BY <1>3, <1>4, <1>5 DEF Counted
<1> QED
  BY <1>2, <1>6, CountMoves

\* A session found at the identifier of its host is in the store.
LEMMA FetchedIsLive ==
  ASSUME NEW h \in Hosts, RegistryInv, sessionId[h] \in Nat, Listed(h)
  PROVE  /\ ExciseAccepted(activeMatchSessions, sessionId[h])
         /\ sessionId[h] \in Orphans(h)
         /\ activeMatchSessions.heap_region[sessionId[h]] = Session(h, sessionId[h])
<1>1. Session(h, sessionId[h]) \in Sessions
  BY DEF Session, Sessions
<1>2. Session(h, sessionId[h]) # Null
  BY <1>1, RegistryAssumption
<1>3. sessionId[h] < activeMatchSessions.allocated_slots
  BY <1>2 DEF Listed, fetch_from_offset
<1>4. activeMatchSessions.heap_region[sessionId[h]] = Session(h, sessionId[h])
  BY <1>3 DEF Listed, fetch_from_offset
<1>5. sessionId[h] \in Offsets(activeMatchSessions.allocated_slots)
  BY <1>3 DEF Offsets, RegistryInv, TypeOK, IsStore
<1> QED
  BY <1>2, <1>3, <1>4, <1>5 DEF Orphans, Live, Session, ExciseAccepted

\* What a creation does: nothing to the store, or one more session.
LEMMA Implanted ==
  ASSUME NEW h \in Hosts, RegistryInv, ImplantSession(h)
  PROVE  /\ thread[h] = "creating"
         /\ sessionId[h] \in Nat
         /\ \/ /\ UNCHANGED activeMatchSessions
               /\ \E to \in {"creating", "gone"} : thread' = [thread EXCEPT ![h] = to]
            \/ /\ thread' = [thread EXCEPT ![h] = "bound"]
               /\ UNCHANGED sessionId
               /\ Live(activeMatchSessions') = Live(activeMatchSessions) \cup {sessionId[h]}
               /\ activeMatchSessions'.heap_region[sessionId[h]] = Session(h, sessionId[h])
               /\ \A i \in Live(activeMatchSessions) \ {sessionId[h]} :
                    activeMatchSessions'.heap_region[i] = activeMatchSessions.heap_region[i]
               /\ activeMatchSessions'.occupied_slots = activeMatchSessions.occupied_slots + 1
<1> DEFINE id == sessionId[h]
<1>1. thread[h] = "creating" /\ id \in Nat
  BY DEF ImplantSession, RegistryInv, ThreadsTellIds
<1>2. CASE ~ ImplantAccepted(activeMatchSessions, id)
  BY <1>1, <1>2 DEF ImplantSession, ImplantOverruns, Goes
<1>3. CASE ImplantOverruns(activeMatchSessions, id)
  <2>1. UNCHANGED <<thread, activeMatchSessions>>
    BY <1>3 DEF ImplantSession, ImplantOverruns
  <2>2. thread' = [thread EXCEPT ![h] = "creating"]
    BY <1>1, <2>1 DEF RegistryInv, TypeOK
  <2> QED
    BY <1>1, <2>1, <2>2
<1>4. CASE /\ ImplantAccepted(activeMatchSessions, id)
           /\ ~ ImplantOverruns(activeMatchSessions, id)
  <2> DEFINE session == Session(h, id)
  <2>1. /\ thread' = [thread EXCEPT ![h] = "bound"]
        /\ activeMatchSessions' = implant_at_offset(activeMatchSessions, id, session)
        /\ UNCHANGED sessionId
    BY <1>4 DEF ImplantSession, Goes
  <2>2. session \in Sessions /\ session # Null
    BY <1>1, RegistryAssumption DEF Session, Sessions
  <2>3. IsStore(activeMatchSessions, Sessions)
    BY DEF RegistryInv, TypeOK
  <2> HIDE DEF session
  <2>4. /\ Live(activeMatchSessions') = Live(activeMatchSessions) \cup {id}
        /\ activeMatchSessions'.heap_region[id] = session
        /\ \A i \in Live(activeMatchSessions) \ {id} :
             activeMatchSessions'.heap_region[i] = activeMatchSessions.heap_region[i]
        /\ activeMatchSessions'.occupied_slots = activeMatchSessions.occupied_slots + 1
    BY <1>1, <1>4, <2>1, <2>2, <2>3, ImplantWritesOneSlot
  <2> QED
    BY <1>1, <2>1, <2>4 DEF session
<1> QED
  BY <1>2, <1>3, <1>4

\* A creation counts its host, whether or not it overwrites a session.
LEMMA Implant_CountInv ==
  ASSUME NEW h \in Hosts, RegistryInv, CountInv, ImplantSession(h)
  PROVE  CountInv'
<1>1. CASE /\ UNCHANGED activeMatchSessions
           /\ \E to \in {"creating", "gone"} : thread' = [thread EXCEPT ![h] = to]
  BY <1>1, CountStays
<1>2. CASE /\ thread' = [thread EXCEPT ![h] = "bound"]
           /\ Live(activeMatchSessions') = Live(activeMatchSessions) \cup {sessionId[h]}
           /\ activeMatchSessions'.heap_region[sessionId[h]] = Session(h, sessionId[h])
           /\ \A i \in Live(activeMatchSessions) \ {sessionId[h]} :
                activeMatchSessions'.heap_region[i] = activeMatchSessions.heap_region[i]
           /\ activeMatchSessions'.occupied_slots = activeMatchSessions.occupied_slots + 1
  <2>1. \A g \in Hosts \ {h} : Orphans(g)' \subseteq Orphans(g)
    BY <1>2 DEF Orphans, Session
  <2>2. \A g \in Hosts \ {h} : thread'[g] = thread[g]
    BY <1>2 DEF RegistryInv, TypeOK
  <2>3. Counted' \subseteq Counted \cup {h}
    BY <2>1, <2>2 DEF Counted
  <2> QED
    BY <1>2, <2>3, CountMoves
<1> QED
  BY <1>1, <1>2, Implanted

\* Every step keeps the count.
LEMMA Step_CountInv ==
  ASSUME NEW h \in Hosts, RegistryInv, CountInv, Step(h)
  PROVE  CountInv'
<1>1. CASE Connect(h) \/ AcquireId(h) \/ ExitCreating(h) \/ ReclaimId(h) \/ Leave(h) \/ EndThread(h)
  <2>1. PICK to \in Threads \ {"purging"} :
          thread' = [thread EXCEPT ![h] = to] /\ UNCHANGED activeMatchSessions
    BY <1>1 DEF Connect, AcquireId, ExitCreating, ReclaimId, Leave, EndThread, Goes, Threads
  <2> QED
    BY <2>1, CountStays
<1>2. CASE RelinquishOrphan(h)
  <2>1. /\ thread' = [thread EXCEPT ![h] = "purging"]
        /\ UNCHANGED activeMatchSessions
        /\ Orphans(h) # {}
    BY <1>2 DEF RelinquishOrphan, Goes
  <2> QED
    BY <2>1, CountStays
<1>3. CASE ExciseMatch(h)
  <2>1. /\ thread[h] = "bound"
        /\ thread' = [thread EXCEPT ![h] = "ending"]
        /\ fetch_from_offset(activeMatchSessions, sessionId[h]) = Session(h, sessionId[h])
        /\ activeMatchSessions' = excise_at_offset(activeMatchSessions, sessionId[h])
    BY <1>3 DEF ExciseMatch, Goes
  <2>2. sessionId[h] \in Nat
    BY <2>1 DEF RegistryInv, ThreadsTellIds
  <2>3. /\ ExciseAccepted(activeMatchSessions, sessionId[h])
        /\ sessionId[h] \in Orphans(h)
    BY <2>1, <2>2, FetchedIsLive DEF Listed
  <2> QED
    BY <2>1, <2>2, <2>3, CountExcised DEF Counted
<1>4. CASE ExciseOrphan(h)
  <2>1. /\ thread[h] = "purging"
        /\ thread' = [thread EXCEPT ![h] = "gone"]
        /\ activeMatchSessions' = IF ExciseAccepted(activeMatchSessions, sessionId[h])
                                  THEN excise_at_offset(activeMatchSessions, sessionId[h])
                                  ELSE activeMatchSessions
    BY <1>4 DEF ExciseOrphan, Goes
  <2>2. sessionId[h] \in Nat /\ h \in Counted
    BY <2>1 DEF RegistryInv, ThreadsTellIds, Counted
  <2>3. CASE ExciseAccepted(activeMatchSessions, sessionId[h])
    BY <2>1, <2>2, <2>3, CountExcised
  <2>4. CASE ~ ExciseAccepted(activeMatchSessions, sessionId[h])
    BY <2>1, <2>4, CountStays
  <2> QED
    BY <2>3, <2>4
<1>5. CASE ImplantSession(h)
  BY <1>5, Implant_CountInv
<1> QED
  BY <1>1, <1>2, <1>3, <1>4, <1>5 DEF Step
\* So the count holds always.
LEMMA CountInvariant == Spec => []CountInv
<1>1. Init => CountInv
  <2> SUFFICES ASSUME Init PROVE CountInv
    OBVIOUS
  <2>1. Counted = {}
    BY StoreAtStart DEF Init, Counted, Orphans
  <2> QED
    BY <2>1, FS_EmptySet DEF Init, CountInv, configure_memory_store
<1>2. RegistryInv /\ CountInv /\ [Next]_vars => CountInv'
  <2> SUFFICES ASSUME RegistryInv, CountInv, [Next]_vars PROVE CountInv'
    OBVIOUS
  <2>1. CASE UNCHANGED vars
    BY <2>1 DEF vars, CountInv, Counted, Orphans
  <2> QED
    BY <2>1, Step_CountInv DEF Next
<1> QED
  BY <1>1, <1>2, RegistryInvariant, PTL DEF Spec

\* occupied_slots, by which the store expands, is never below the number of
\* sessions there are, although a purge may excise an empty slot and a creation
\* overwrite a session.
THEOREM OccupancyAlwaysCovers == Spec => []OccupancyCoversLive
<1>1. RegistryInv /\ CountInv => OccupancyCoversLive
  <2> SUFFICES ASSUME RegistryInv, CountInv PROVE OccupancyCoversLive
    OBVIOUS
  <2> DEFINE live == Live(activeMatchSessions)
             host == [i \in live |-> Host(activeMatchSessions, i)]
  <2>1. \A i \in live : Host(activeMatchSessions, i) \in Counted /\ sessionId[Host(activeMatchSessions, i)] = i
    BY SlotsOf DEF Counted, Orphans, Host
  <2> HIDE DEF live
  <2>2. host \in Injection(live, Counted)
    BY <2>1 DEF Injection, IsInjective
  <2>3. /\ IsFiniteSet(Counted)
        /\ IsFiniteSet(live)
        /\ Cardinality(live) <= Cardinality(Counted)
    BY <2>2, FS_Injection DEF CountInv
  <2>4. Cardinality(live) \in Nat /\ Cardinality(Counted) \in Nat
    BY <2>3, FS_CardinalityType
  <2>5. activeMatchSessions.occupied_slots \in Int
    BY DEF RegistryInv, TypeOK, IsStore
  <2> QED
    BY <2>3, <2>4, <2>5 DEF CountInv, OccupancyCoversLive, live
<1> QED
  BY <1>1, RegistryInvariant, CountInvariant, PTL
-----------------------------------------------------------------------------
(* What a session can be lost by. *)

\* A session whose slot and whose host's identifier are left alone stays listed.
LEMMA ListedStays ==
  ASSUME NEW h \in Hosts, RegistryInv, sessionId[h] \in Nat, Listed(h),
         IsStore(activeMatchSessions', Sessions),
         sessionId'[h] = sessionId[h],
         sessionId[h] \in Live(activeMatchSessions) =>
           /\ sessionId[h] \in Live(activeMatchSessions')
           /\ activeMatchSessions'.heap_region[sessionId[h]] =
                activeMatchSessions.heap_region[sessionId[h]]
  PROVE  sessionId'[h] # NoId /\ Listed(h)'
<1>1. /\ sessionId[h] \in Live(activeMatchSessions)
      /\ activeMatchSessions.heap_region[sessionId[h]] = Session(h, sessionId[h])
  BY FetchedIsLive DEF Orphans
<1>2. /\ sessionId[h] < activeMatchSessions'.allocated_slots
      /\ activeMatchSessions'.heap_region[sessionId[h]] = Session(h, sessionId[h])
  BY <1>1 DEF Live, Offsets, IsStore
<1> QED
  BY <1>2 DEF Listed, fetch_from_offset, NoId

\* An excision by g takes from h only what is in the slot of them both.
LEMMA ExcisionSpares ==
  ASSUME NEW g \in Hosts, NEW h \in Hosts, RegistryInv, sessionId[g] \in Nat,
         sessionId[h] \in Nat, Listed(h), sessionId[g] # sessionId[h],
         sessionId'[h] = sessionId[h],
         activeMatchSessions' = IF ExciseAccepted(activeMatchSessions, sessionId[g])
                                THEN excise_at_offset(activeMatchSessions, sessionId[g])
                                ELSE activeMatchSessions
  PROVE  sessionId'[h] # NoId /\ Listed(h)'
<1>1. IsStore(activeMatchSessions, Sessions)
  BY DEF RegistryInv, TypeOK
<1>2. CASE ExciseAccepted(activeMatchSessions, sessionId[g])
  BY <1>1, <1>2, ExciseEmptiesOneSlot, ListedStays
<1>3. CASE ~ ExciseAccepted(activeMatchSessions, sessionId[g])
  BY <1>1, <1>3, ListedStays
<1> QED
  BY <1>2, <1>3

\* A loss that NoCollateralLoss allows, by the step of g.
Loss(h) ==
  \/ thread[h] = "bound" /\ thread'[h] = "ending"
  \/ \E g \in Hosts : /\ thread[g] = "purging"
                      /\ thread'[g] = "gone"
                      /\ sessionId[g] = sessionId[h]
  \/ \E g \in Hosts : /\ thread[g] = "creating"
                      /\ thread'[g] = "bound"
                      /\ sessionId[g] = sessionId[h]
                      /\ thread[h] = "purging"

LEMMA Step_Spares ==
  ASSUME NEW g \in Hosts, NEW h \in Hosts, RegistryInv, RegistryInv', Step(g),
         sessionId[h] # NoId, Listed(h), ~ (sessionId'[h] # NoId /\ Listed(h)')
  PROVE  Loss(h)
<1>1. sessionId[h] \in Nat /\ IsStore(activeMatchSessions', Sessions)
  BY DEF RegistryInv, TypeOK
<1>2. /\ sessionId[h] \in Orphans(h)
      /\ activeMatchSessions.heap_region[sessionId[h]] = Session(h, sessionId[h])
      /\ thread[h] \in {"bound", "leaving", "purging"}
  <2>1. /\ sessionId[h] \in Orphans(h)
        /\ activeMatchSessions.heap_region[sessionId[h]] = Session(h, sessionId[h])
    BY <1>1, FetchedIsLive
  <2> QED
    BY <2>1, CreatorHasNone
<1>3. UNCHANGED activeMatchSessions => sessionId'[h] # sessionId[h]
  BY <1>1, ListedStays
<1>4. CASE Connect(g) \/ AcquireId(g) \/ ExitCreating(g) \/ ReclaimId(g) \/ EndThread(g)
  <2>1. UNCHANGED activeMatchSessions
    BY <1>4 DEF Connect, AcquireId, ExitCreating, ReclaimId, EndThread
  <2>2. g # h
    BY <1>2, <1>4 DEF Connect, AcquireId, ExitCreating, ReclaimId, EndThread, Goes
  <2>3. sessionId'[h] = sessionId[h]
    BY <1>4, <2>2 DEF Connect, AcquireId, ExitCreating, ReclaimId, EndThread, Keeps,
       RegistryInv, TypeOK
  <2> QED
    BY <1>3, <2>1, <2>3
<1>5. CASE Leave(g) \/ RelinquishOrphan(g)
  BY <1>3, <1>5 DEF Leave, RelinquishOrphan
<1>6. CASE ExciseMatch(g)
  <2>1. /\ thread[g] = "bound"
        /\ thread' = [thread EXCEPT ![g] = "ending"]
        /\ UNCHANGED sessionId
        /\ Listed(g)
        /\ activeMatchSessions' = excise_at_offset(activeMatchSessions, sessionId[g])
    BY <1>6 DEF ExciseMatch, Goes, Listed
  <2>2. sessionId[g] \in Nat
    BY <2>1 DEF RegistryInv, ThreadsTellIds
  <2>3. /\ ExciseAccepted(activeMatchSessions, sessionId[g])
        /\ activeMatchSessions.heap_region[sessionId[g]] = Session(g, sessionId[g])
    BY <2>1, <2>2, FetchedIsLive
  <2>4. CASE g = h
    <3>1. thread'[h] = "ending"
      BY <2>1, <2>4 DEF RegistryInv, TypeOK
    <3> QED
      BY <2>1, <2>4, <3>1 DEF Loss
  <2>5. CASE g # h
    <3>1. sessionId[g] # sessionId[h]
      BY <1>2, <2>3, <2>5 DEF Session
    <3> QED
      BY <1>1, <2>1, <2>2, <2>3, <3>1, ExcisionSpares
  <2> QED
    BY <2>4, <2>5
<1>7. CASE ExciseOrphan(g)
  <2>1. /\ thread[g] = "purging"
        /\ thread' = [thread EXCEPT ![g] = "gone"]
        /\ sessionId' = [sessionId EXCEPT ![g] = NoId]
        /\ activeMatchSessions' = IF ExciseAccepted(activeMatchSessions, sessionId[g])
                                  THEN excise_at_offset(activeMatchSessions, sessionId[g])
                                  ELSE activeMatchSessions
    BY <1>7 DEF ExciseOrphan, Goes, Keeps
  <2>2. sessionId[g] \in Nat /\ thread'[g] = "gone"
    BY <2>1 DEF RegistryInv, ThreadsTellIds, TypeOK
  <2>3. CASE sessionId[g] = sessionId[h]
    BY <2>1, <2>2, <2>3 DEF Loss
  <2>4. CASE sessionId[g] # sessionId[h]
    <3>1. sessionId'[h] = sessionId[h]
      BY <2>1, <2>4 DEF RegistryInv, TypeOK
    <3> QED
      BY <1>1, <2>1, <2>2, <2>4, <3>1, ExcisionSpares
  <2> QED
    BY <2>3, <2>4
<1>8. CASE ImplantSession(g)
  <2>1. thread[g] = "creating" /\ sessionId[g] \in Nat
    BY <1>8, Implanted
  <2>2. g # h
    BY <1>2, <2>1
  <2>3. sessionId'[h] = sessionId[h]
    BY <1>8, <2>2 DEF ImplantSession, Keeps, RegistryInv, TypeOK
  <2>4. ~ UNCHANGED activeMatchSessions
    BY <1>3, <2>3
  <2>5. /\ thread' = [thread EXCEPT ![g] = "bound"]
        /\ Live(activeMatchSessions') = Live(activeMatchSessions) \cup {sessionId[g]}
        /\ \A i \in Live(activeMatchSessions) \ {sessionId[g]} :
             activeMatchSessions'.heap_region[i] = activeMatchSessions.heap_region[i]
    BY <1>8, <2>4, Implanted
  <2>6. sessionId[g] = sessionId[h]
    BY <1>1, <2>3, <2>5, ListedStays
  <2>7. thread[h] = "purging"
    BY <1>1, <1>2, <2>1, <2>2, <2>6 DEF RegistryInv, HoldersApart, HasId, NoId
  <2>8. thread'[g] = "bound"
    BY <2>5 DEF RegistryInv, TypeOK
  <2> QED
    BY <2>1, <2>6, <2>7, <2>8 DEF Loss
<1> QED
  BY <1>4, <1>5, <1>6, <1>7, <1>8 DEF Step

\* A session goes only with its match, with the purge of its host, or with a
\* purge or a creation that has its identifier while its own purge goes on.
THEOREM NoLossIsCollateral == Spec => NoCollateralLoss
<1>1. RegistryInv /\ RegistryInv' /\ [Next]_vars =>
        [\A h \in Hosts :
           (sessionId[h] # NoId /\ Listed(h) /\ ~ (sessionId'[h] # NoId /\ Listed(h)')) =>
             Loss(h)]_vars
  BY Step_Spares DEF Next
<1> QED
  BY <1>1, RegistryInvariant, PTL DEF Spec, NoCollateralLoss, Loss
=============================================================================
