------------------------------ MODULE Shutdown ------------------------------
(***************************************************************************)
(* How the server ends (main.c), beside the threads of NodeRegistry: the   *)
(* handler of SIGINT, which may interrupt any thread, and the end of main  *)
(* after an accept that fails.                                             *)
(*                                                                         *)
(* Abstracted: of activeMatchSessions everything but its synchronizer; a   *)
(* call that is interrupted has changed nothing yet.  Bound: one SIGINT.   *)
(***************************************************************************)
EXTENDS NodeRegistry

CONSTANT MaxOpen   \* bound: the connections that are open when SIGINT comes

ASSUME ShutdownAssumption == "main" \notin Connections /\ MaxOpen \in Nat

VARIABLES
  routine,    \* the handler: the thread it runs on, and its locals
  inside,     \* the store in whose call it has interrupted that thread, which
              \* holds the synchronizer for good; or "none"
  demolished, \* activePlayerNodes and its synchronizer are
  listening   \* whether main is in an accept from before the listener was closed

ending == <<routine, inside, demolished, listening>>

ShutdownInit == /\ Init
                /\ routine = [on |-> Null, pc |-> "none", idx |-> 0, fetched |-> Null]
                /\ inside = "none"
                /\ demolished = FALSE
                /\ listening = TRUE

Exited == routine.pc = "exited"
Interrupted == routine.pc # "none"

-----------------------------------------------------------------------------
(***************************************************************************)
(* interrupt_signal_routine.                                               *)
(***************************************************************************)
\* What thread t may be in the middle of.
CallsPlayers(t) ==
  \/ thread[t].pc \in {"surveying", "excising"}
  \/ At(t, "searching") /\ thread[t].idx < activePlayerNodes.allocated_slots
\* The requests of its player, and the purge.
CallsSessions(t) == thread[t].pc \in {"serving", "gone"}

SIGINT(t) ==
  /\ ~ Interrupted
  /\ Cardinality(open) <= MaxOpen
  /\ routine' = [on |-> t, pc |-> "players", idx |-> 0, fetched |-> Null]
  /\ \/ t = "main" /\ inside' = "none"
     \/ /\ t # "main"
        /\ thread[t].pc \notin {"none", "exited"}
        /\ \/ inside' = "none"
           \/ CallsPlayers(t) /\ inside' = "players"
           \/ CallsSessions(t) /\ inside' = "sessions"
  /\ UNCHANGED <<vars, demolished, listening>>

RoutineGoes(pc, idx, fetched) ==
  routine' = [routine EXCEPT !.pc = pc, !.idx = idx, !.fetched = fetched]

\* Mutant: the store is locked for the whole dump.
FreeUntilDumped(store) == inside # store /\ routine.pc # "players"
SynchronizerIsFree(store) == inside # store

DumpPlayer ==
  LET fetched == fetch_from_offset(activePlayerNodes, routine.idx)
  IN /\ routine.pc = "players"
     /\ routine.idx < activePlayerNodes.allocated_slots
     /\ SynchronizerIsFree("players")
     /\ RoutineGoes(IF fetched = Null THEN "players" ELSE "printing",
                    IF fetched = Null THEN routine.idx + 1 ELSE routine.idx, fetched)
     /\ UNCHANGED <<vars, inside, demolished, listening>>

PrintPlayer ==
  /\ routine.pc = "printing"
  /\ IF node[routine.fetched] = "freed" THEN aborted' = TRUE /\ UNCHANGED routine
     ELSE UNCHANGED aborted /\ RoutineGoes("players", routine.idx + 1, Null)
  /\ UNCHANGED <<activePlayerNodes, socket, open, node, thread, inside, demolished, listening>>

\* The sessions are printed and demolished.
DemolishSessions ==
  /\ routine.pc = "players"
  /\ routine.idx >= activePlayerNodes.allocated_slots
  /\ SynchronizerIsFree("sessions")
  /\ RoutineGoes("demolishing", 0, Null)
  /\ UNCHANGED <<vars, inside, demolished, listening>>

\* No floor, no slots.
NoStore == [floor_threshold |-> 0, allocated_slots |-> 0, occupied_slots |-> 0,
            heap_region |-> [i \in {} |-> Null]]

DemolishPlayers ==
  /\ routine.pc = "demolishing"
  /\ SynchronizerIsFree("players")
  /\ activePlayerNodes' = NoStore
  /\ node' = [c \in Connections |-> IF c \in Listed THEN "freed" ELSE node[c]]
  /\ demolished' = TRUE
  /\ aborted' = \E c \in Listed : node[c] = "freed"
  /\ RoutineGoes("exiting", 0, Null)
  /\ UNCHANGED <<socket, open, thread, inside, listening>>

Exit == /\ routine.pc = "exiting"
        /\ RoutineGoes("exited", 0, Null)
        /\ UNCHANGED <<vars, inside, demolished, listening>>

Routine == DumpPlayer \/ PrintPlayer \/ DemolishSessions \/ DemolishPlayers \/ Exit

-----------------------------------------------------------------------------
(***************************************************************************)
(* The others meanwhile.                                                   *)
(***************************************************************************)
\* The store that is demolished refuses the call, or writes to it (Step).  The
\* thread frees its node and exits; the socket stays open.
RegisterRefused(c) ==
  /\ At(c, "surveying")
  /\ demolished
  /\ node' = [node EXCEPT ![c] = "freed"]
  /\ Goes(c, "exited")
  /\ UNCHANGED <<activePlayerNodes, socket, open, aborted>>

Continues(c) ==
  /\ routine.on # c
  /\ CallsPlayers(c) => SynchronizerIsFree("players")
  /\ UNCHANGED ending

\* The accept that was under way when the listener was closed may still succeed.
Accepts(c) ==
  /\ routine.on # "main"
  /\ listening
  /\ accept(c)
  /\ listening' = ~ Interrupted
  /\ UNCHANGED <<routine, inside, demolished>>

\* main frees the slots of the store, which are no blocks of their own; if the
\* handler has left it none, main returns.
AcceptFails ==
  /\ routine.on # "main"
  /\ SynchronizerIsFree("players") /\ SynchronizerIsFree("sessions")
  /\ aborted' = (activePlayerNodes.allocated_slots > 0)
  /\ routine' = [routine EXCEPT !.pc = IF aborted' THEN @ ELSE "exited"]
  /\ UNCHANGED <<activePlayerNodes, socket, open, node, thread, inside, demolished, listening>>

ShutdownNext ==
  /\ ~ aborted /\ ~ Exited
  /\ \/ \E t \in Connections \cup {"main"} : SIGINT(t)
     \/ Routine
     \/ AcceptFails
     \/ \E c \in Connections :
          \/ Accepts(c)
          \/ Continues(c) /\ (Step(c) \/ RegisterRefused(c) \/ Leave(c) \/ ThreadExits(c))

ShutdownSpec == ShutdownInit /\ [][ShutdownNext]_<<vars, ending>>
\* The threads go on, the one that runs the handler included.
FairShutdownSpec ==
  /\ ShutdownSpec
  /\ WF_<<vars, ending>>(Routine)
  /\ \A c \in Connections : WF_<<vars, ending>>(Continues(c) /\ Step(c))

-----------------------------------------------------------------------------
\* Whoever else is in the registry, the handler gets through its dump, frees
\* the stores and exits, unless it has interrupted a call of theirs.
RoutineEnds == Interrupted /\ inside = "none" ~> Exited \/ aborted

\* A thread whose player has left gets through the registry and closes the
\* socket, however the registry grows, shrinks, is overwritten or demolished
\* meanwhile, unless the server stops it.
LeaversGo ==
  \A c \in Connections :
    At(c, "searching") ~> \/ At(c, "gone") \/ aborted \/ Exited
                          \/ routine.on = c \/ inside # "none"
=============================================================================
