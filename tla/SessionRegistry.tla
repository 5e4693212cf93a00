-------------------------- MODULE SessionRegistry --------------------------
(***************************************************************************)
(* The registry of sessions: the threads of the players that create        *)
(* matches (executePlayerNodeLifecycle, process_instantiation_request),    *)
(* the ends of their matches (execute_core_loop), the identifiers and the  *)
(* store activeMatchSessions.  Every call on the identifiers or the store  *)
(* is under its lock; what happens between two calls is not.               *)
(*                                                                         *)
(* The scans of the store are collapsed to the slot they look for.         *)
(***************************************************************************)
EXTENDS SessionIds, DynamicArray

CONSTANTS
  Hosts,              \* players who create matches
  Starter,            \* configure_memory_store(&activeMatchSessions, 3, ...)
  Faults              \* whether the data of a creation may fail to come

\* The members of struct MatchSession the registry depends on.
Sessions == [participantPrimary : Hosts, sessionId : Nat]

ASSUME RegistryAssumption == /\ Starter \in Nat
                             /\ Faults \in BOOLEAN
                             /\ Null \notin Sessions

NoId == -1

VARIABLES
  activeMatchSessions,
  thread,             \* where the thread of each host is
  sessionId,          \* the identifier it works with
  aborted             \* AddressSanitizer has stopped the server

vars == <<idVars, activeMatchSessions, thread, sessionId, aborted>>

Session(h, id) == [participantPrimary |-> h, sessionId |-> id]

Init ==
  /\ IdInit
  /\ activeMatchSessions = configure_memory_store(Starter)
  /\ thread = [h \in Hosts |-> "gone"]
  /\ sessionId = [h \in Hosts |-> NoId]
  /\ aborted = FALSE

Goes(h, from, to) == thread[h] = from /\ thread' = [thread EXCEPT ![h] = to]
Keeps(h, id) == sessionId' = [sessionId EXCEPT ![h] = id]

Connect(h) ==
  /\ Goes(h, "gone", "idle")
  /\ UNCHANGED <<idVars, activeMatchSessions, sessionId, aborted>>

\* process_instantiation_request of a player not bound to a session.
AcquireId(h) ==
  /\ Goes(h, "idle", "creating")
  /\ acquireNewSessionIdentifier
  /\ Keeps(h, NextId)
  /\ UNCHANGED <<activeMatchSessions, aborted>>

\* The name does not come, or is too long: pthread_exit, and no clean-up.
ExitCreating(h) ==
  /\ Faults
  /\ Goes(h, "creating", "gone")
  /\ ForgetId(sessionId[h])
  /\ Keeps(h, NoId)
  /\ UNCHANGED <<activeMatchSessions, aborted>>

ImplantSession(h) ==
  LET id == sessionId[h]
  IN /\ thread[h] = "creating"
     /\ CASE ~ ImplantAccepted(activeMatchSessions, id) ->
               \* "Registry insertion fault": pthread_exit
               /\ Goes(h, "creating", "gone")
               /\ ForgetId(id)
               /\ Keeps(h, NoId)
               /\ UNCHANGED <<activeMatchSessions, aborted>>
          [] ImplantOverruns(activeMatchSessions, id) ->
               /\ aborted' = TRUE
               /\ UNCHANGED <<idVars, activeMatchSessions, thread, sessionId>>
          [] OTHER ->
               /\ Goes(h, "creating", "bound")
               /\ activeMatchSessions' =
                    implant_at_offset(activeMatchSessions, id, Session(h, id))
               /\ UNCHANGED <<idVars, sessionId, aborted>>

\* The match of h is over: its session is excised, then its identifier put
\* back, before h is unlocked.  If the purge of another host has emptied the
\* slot, the match works on a session that has been freed: what it then does
\* is not modelled, and h only leaves.
ExciseMatch(h) ==
  LET id == sessionId[h]
  IN /\ Goes(h, "bound", "ending")
     /\ fetch_from_offset(activeMatchSessions, id) = Session(h, id)
     /\ activeMatchSessions' = excise_at_offset(activeMatchSessions, id)
     /\ UNCHANGED <<idVars, sessionId, aborted>>

ReclaimId(h) ==
  /\ Goes(h, "ending", "idle")
  /\ relinquishSessionIdentifier(sessionId[h])
  /\ Keeps(h, NoId)
  /\ UNCHANGED <<activeMatchSessions, aborted>>

\* The connection is lost, closed or idle for 30 seconds: the node is freed
\* and the purge of its session begins.
Leave(h) ==
  /\ thread[h] \in {"idle", "bound"}
  /\ Goes(h, thread[h], "leaving")
  /\ UNCHANGED <<idVars, activeMatchSessions, sessionId, aborted>>

Orphans(h) == {i \in Live(activeMatchSessions) :
                 activeMatchSessions.heap_region[i].participantPrimary = h}

\* The identifier of the orphan goes back first ...
RelinquishOrphan(h) ==
  \E i \in Orphans(h) :
    /\ Goes(h, "leaving", "purging")
    /\ relinquishSessionIdentifier(activeMatchSessions.heap_region[i].sessionId)
    /\ UNCHANGED <<activeMatchSessions, sessionId, aborted>>

\* ... and its slot is emptied after, whoever has it by then.
\* Mutant: the identifier goes back a second time.
ExciseOrphanTwice(h) ==
  /\ Goes(h, "purging", "gone")
  /\ activeMatchSessions' = IF ExciseAccepted(activeMatchSessions, sessionId[h])
                            THEN excise_at_offset(activeMatchSessions, sessionId[h])
                            ELSE activeMatchSessions
  /\ Keeps(h, NoId)
  /\ relinquishSessionIdentifier(sessionId[h])
  /\ UNCHANGED aborted
ExciseOrphan(h) ==
  LET i == sessionId[h]
  IN /\ Goes(h, "purging", "gone")
     /\ activeMatchSessions' = IF ExciseAccepted(activeMatchSessions, i)
                               THEN excise_at_offset(activeMatchSessions, i)
                               ELSE activeMatchSessions
     /\ Keeps(h, NoId)
     /\ UNCHANGED <<idVars, aborted>>

\* The scan finds nothing (left) of h.
EndThread(h) ==
  /\ Orphans(h) = {}
  /\ Goes(h, "leaving", "gone")
  /\ ForgetId(sessionId[h])
  /\ Keeps(h, NoId)
  /\ UNCHANGED <<activeMatchSessions, aborted>>

Step(h) == \/ Connect(h)
           \/ AcquireId(h)
           \/ ExitCreating(h)
           \/ ImplantSession(h)
           \/ ExciseMatch(h)
           \/ ReclaimId(h)
           \/ Leave(h)
           \/ RelinquishOrphan(h)
           \/ ExciseOrphan(h)
           \/ EndThread(h)

Next == \/ ~ aborted /\ \E h \in Hosts : Step(h)
        \/ aborted /\ UNCHANGED vars

Spec == Init /\ [][Next]_vars

-----------------------------------------------------------------------------
(***************************************************************************)
(* Properties.                                                             *)
(***************************************************************************)
TypeOK ==
  /\ IdTypeOK
  /\ IsStore(activeMatchSessions, Sessions)
  /\ thread \in [Hosts -> {"gone", "idle", "creating", "bound", "ending",
                           "leaving", "purging"}]
  /\ sessionId \in [Hosts -> Nat \cup {NoId}]
  /\ aborted \in BOOLEAN

Listed(h) == fetch_from_offset(activeMatchSessions, sessionId[h]) = Session(h, sessionId[h])

\* The threads never put back an identifier they do not hold, nor twice: not
\* the end of a match and the purge of its host, nor two purges.
UsesIdsRightly == IdSpec

\* The index of a session in the store is its identifier, its identifier has
\* been made, and it is not waiting to be reused, unless its host is being
\* purged: what lets process_activation_request take the one for the other.
SlotsAreIds ==
  \A i \in Live(activeMatchSessions) :
    LET session == activeMatchSessions.heap_region[i]
    IN /\ session.sessionId = i
       /\ i < current_highest_id
       /\ i \in Pooled => thread[session.participantPrimary] = "purging"

\* No two players work with one identifier, but for a host being purged, which
\* has put its own back.
NoTwoHolders ==
  \A g, h \in Hosts :
    (/\ g # h
     /\ sessionId[g] = sessionId[h]
     /\ sessionId[g] # NoId) => "purging" \in {thread[g], thread[h]}

\* Expansion and the next offset go by occupied_slots: it counts at least the
\* sessions there are, whatever was excised twice or overwritten.
OccupancyCoversLive ==
  activeMatchSessions.occupied_slots >= Cardinality(Live(activeMatchSessions))

\* A player loses its session only when its match ends or its host is purged,
\* or when a purge empties the slot of an identifier already given away: no
\* expansion, compaction or other excision takes it.
NoCollateralLoss ==
  [][\A h \in Hosts :
       (sessionId[h] # NoId /\ Listed(h) /\ ~ (sessionId'[h] # NoId /\ Listed(h)')) =>
         \/ thread[h] = "bound" /\ thread'[h] = "ending"
         \/ \E g \in Hosts : /\ thread[g] = "purging"
                             /\ thread'[g] = "gone"
                             /\ sessionId[g] = sessionId[h]
         \/ \E g \in Hosts : /\ thread[g] = "creating"
                             /\ thread'[g] = "bound"
                             /\ sessionId[g] = sessionId[h]
                             /\ thread[h] = "purging"]_vars

\* A creation never writes beyond the store: "garantisce stabilita' ... grazie
\* ... al riciclo degli identificatori logici" (Documentazione.tex:270).
NoOverrun == ~ aborted
=============================================================================
