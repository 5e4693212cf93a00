------------------------- MODULE MatchServer_proofs -------------------------
(***************************************************************************)
(* Proofs about MatchServer, for any number of players, matches and        *)
(* requests.                                                               *)
(***************************************************************************)
EXTENDS MatchServer, SessionIds_proofs, DynamicArray_proofs

States == {"loop", "deadline", "leaving", "purging", "gone", "create", "naming", "exited",
           "discardId", "discardLength", "discardName", "rejecting",
           "fetch", "ledger", "newline", "join", "challenge", "verdict", "relay",
           "lockPrimary", "lockSecondary", "round", "await", "polling", "ending"}

\* The handlers that only a player who is bound to nothing enters.
Unattached == {"create", "naming", "join", "challenge", "verdict", "relay"}

\* Where a thread knows the session it joins.
Chosen == {"challenge", "verdict", "relay"} \cup Agreed
Final == {"gone", "exited"}

SessionRecord == [participantPrimary : Players, participantSecondary : Players \cup {Null},
                  sessionId : Nat, live : BOOLEAN]

ThreadRecord == [pc : States, opcode : [1 .. 4 -> Nat], target : Nat \cup {NoId}, session : Nat,
                 master : Players \cup {Null}, acting : Players \cup {Null}, verdict : Int]

NodeRecord == [live : BOOLEAN, activeSessionId : Nat \cup {NoId}, timeoutTicks : {0, 1}]

Typed ==
  /\ heap \in Seq(SessionRecord)
  /\ node \in [Players -> NodeRecord]
  /\ streamLock \in [Players -> Players \cup {Null}]
  /\ thread \in [Players -> ThreadRecord]
  /\ link \in [Players -> {"open", "closed"}]
  /\ toServer \in [Players -> Seq(Nat)]
  /\ \A p \in Players : /\ thread[p].session \in 0 .. Len(heap)
                        /\ At(p, "discardName") => thread[p].target \in Nat

\* A session is in the store, in the slot of its identifier, as long as it lives.
StoreHolds ==
  /\ IsStore(activeMatchSessions, 1 .. Len(heap))
  /\ activeMatchSessions.floor_threshold >= Starter
  /\ activeMatchSessions.allocated_slots >= Starter
  /\ \A i \in Live(activeMatchSessions) :
       LET s == activeMatchSessions.heap_region[i]
       IN heap[s].live /\ heap[s].sessionId = i
  /\ \A s \in 1 .. Len(heap) :
       heap[s].live => /\ heap[s].sessionId \in Live(activeMatchSessions)
                       /\ activeMatchSessions.heap_region[heap[s].sessionId] = s

\* Who has an identifier holds it, and no two have the same.
IdsAreApart ==
  /\ current_highest_id <= MaxId
  /\ \A s \in 1 .. Len(heap) : heap[s].live => heap[s].sessionId \in held
  /\ \A p \in Players :
       At(p, "naming") =>
         /\ thread[p].target \in held
         /\ \A s \in 1 .. Len(heap) : heap[s].live => thread[p].target # heap[s].sessionId
         /\ \A q \in Players : At(q, "naming") /\ q # p => thread[p].target # thread[q].target

\* A host is bound to its session as long as it lives, and does nothing that a
\* player who is not bound would do; its guest is in the match.
HostsAreBound ==
  \A s \in 1 .. Len(heap) :
    heap[s].live =>
      LET h == heap[s].participantPrimary
          g == heap[s].participantSecondary
      IN /\ node[h].activeSessionId = heap[s].sessionId
         /\ thread[h].pc \notin Unattached \cup Agreed \cup Final
         /\ g # Null => thread[g].pc \in Agreed /\ thread[g].session = s

UnattachedIsUnbound(p) == thread[p].pc \in Unattached => node[p].activeSessionId = NoId

\* A guest joins a session that is not its own.
GuestHasSession(p) ==
  /\ thread[p].pc \in Chosen =>
       /\ thread[p].session # 0
       /\ thread[p].master = Mine(p).participantPrimary
       /\ thread[p].master # p
       /\ thread[p].target = Mine(p).sessionId
  /\ thread[p].pc \in Agreed => Mine(p).participantSecondary \in Players \ {thread[p].master}

ServerInv == /\ Typed
             /\ IdInv
             /\ StoreHolds
             /\ IdsAreApart
             /\ HostsAreBound
             /\ \A p \in Players : UnattachedIsUnbound(p) /\ GuestHasSession(p)

-----------------------------------------------------------------------------
(* Bytes and places. *)

LEMMA Dropped ==
  ASSUME NEW s \in Seq(Nat), NEW n \in Nat
  PROVE  SubSeq(s, n + 1, Len(s)) \in Seq(Nat)
<1>1. Len(s) \in Int /\ n + 1 \in Int /\ \A i \in n + 1 .. Len(s) : s[i] \in Nat
  OBVIOUS
<1> QED
  BY <1>1, SubSeqProperties

LEMMA Taken ==
  ASSUME NEW s \in Seq(Nat), NEW n \in 0 .. Len(s)
  PROVE  SubSeq(s, 1, n) \in Seq(Nat)
<1>1. n \in Int /\ \A i \in 1 .. n : s[i] \in Nat
  OBVIOUS
<1> QED
  BY <1>1, SubSeqProperties

LEMMA Carried ==
  ASSUME NEW x \in Nat, NEW y \in Nat
  PROVE  x * 256 + y \in Nat
  OBVIOUS

LEMMA FourBytes ==
  ASSUME NEW s \in Seq(Nat), NEW i \in Nat \ {0}, i + 3 <= Len(s)
  PROVE  Number(SubSeq(s, i, i + 3)) \in Nat
<1> DEFINE b == SubSeq(s, i, i + 3)
<1>1. i + 3 \in Int /\ \A j \in i .. i + 3 : s[j] \in Nat
  OBVIOUS
<1>2. \A j \in 1 .. i + 3 - i + 1 : b[j] = s[i + j - 1]
  BY <1>1, SubSeqProperties
<1>3. b[1] = s[i] /\ b[2] = s[i + 1] /\ b[3] = s[i + 2] /\ b[4] = s[i + 3]
  BY <1>2
<1>4. b[1] \in Nat /\ b[2] \in Nat /\ b[3] \in Nat /\ b[4] \in Nat
  BY <1>1, <1>3
<1> HIDE DEF b
<1>5. b[1] * 256 + b[2] \in Nat
  BY <1>4, Carried
<1>6. (b[1] * 256 + b[2]) * 256 + b[3] \in Nat
  BY <1>4, <1>5, Carried
<1>7. Number(b) \in Nat
  BY <1>4, <1>6, Carried DEF Number
<1> QED
  BY <1>7 DEF b

\* What recv does not overwrite of the last opcode.
LEMMA Overwritten ==
  ASSUME NEW s \in Seq(Nat), NEW b \in [1 .. 4 -> Nat], NEW n \in 0 .. 4, n <= Len(s)
  PROVE  SubSeq(s, 1, n) \o SubSeq(b, n + 1, 4) \in [1 .. 4 -> Nat]
<1>1. /\ SubSeq(s, 1, n) \in Seq(Nat)
      /\ Len(SubSeq(s, 1, n)) = n
  BY SubSeqProperties
<1>2. /\ SubSeq(b, n + 1, 4) \in Seq(Nat)
      /\ Len(SubSeq(b, n + 1, 4)) = 4 - n
  <2>1. \A i \in n + 1 .. 4 : b[i] \in Nat
    OBVIOUS
  <2> QED
    BY <2>1, SubSeqProperties
<1> DEFINE r == SubSeq(s, 1, n) \o SubSeq(b, n + 1, 4)
<1>3. r \in Seq(Nat) /\ Len(r) = 4
  <2>1. r \in Seq(Nat) /\ Len(r) = Len(SubSeq(s, 1, n)) + Len(SubSeq(b, n + 1, 4))
    BY <1>1, <1>2, ConcatProperties
  <2> QED
    BY <1>1, <1>2, <2>1
<1> HIDE DEF r
<1> QED
  BY <1>3, LenProperties DEF r

\* A receive takes bytes from the front, or empties the stream.
LEMMA StreamsTyped ==
  ASSUME toServer \in [Players -> Seq(Nat)], NEW q, NEW n \in Nat, Receives(q, n) \/ Starves(q, n)
  PROVE  toServer' \in [Players -> Seq(Nat)]
<1>1. CASE q \in Players
  <2>1. SubSeq(toServer[q], n + 1, Len(toServer[q])) \in Seq(Nat) /\ <<>> \in Seq(Nat)
    BY <1>1, Dropped
  <2> QED
    BY <2>1 DEF Receives, Starves
<1>2. CASE q \notin Players
  BY <1>2 DEF Receives, Starves
<1> QED
  BY <1>1, <1>2

\* What a session is made of.
LEMMA SessionFields ==
  ASSUME Typed, NEW s \in 1 .. Len(heap)
  PROVE  /\ heap[s].participantPrimary \in Players
         /\ heap[s].participantSecondary \in Players \cup {Null}
         /\ heap[s].sessionId \in Nat /\ heap[s].sessionId # NoId
         /\ heap[s].live \in BOOLEAN
<1>1. heap[s] \in SessionRecord
  BY DEF Typed
<1>2. heap[s].sessionId \in Nat
  BY <1>1 DEF SessionRecord
<1>3. heap[s].sessionId # NoId
  BY <1>2 DEF NoId
<1> QED
  BY <1>1, <1>2, <1>3 DEF SessionRecord

\* The kinds of places a thread can be at exclude one another.
LEMMA Places ==
  /\ \A pc \in Unattached : pc \notin Agreed \cup Final
  /\ \A pc \in Agreed : pc \notin Final
  /\ Agreed \subseteq Chosen /\ Chosen \subseteq Agreed \cup Unattached
  BY DEF Unattached, Agreed, Chosen, Final

-----------------------------------------------------------------------------
(* Steps that leave the sessions alone. *)

\* Who has an identifier, when nobody takes one or lets one go.
LEMMA IdsKept ==
  ASSUME IdsAreApart, UNCHANGED idVars, Len(heap') = Len(heap),
         \A s \in 1 .. Len(heap) : heap'[s].live = heap[s].live /\ heap'[s].sessionId = heap[s].sessionId,
         \A q \in Players : At(q, "naming")' => At(q, "naming") /\ thread'[q] = thread[q]
  PROVE  IdsAreApart'
<1>1. held' = held /\ current_highest_id' = current_highest_id
  BY DEF idVars
<1>2. \A s \in 1 .. Len(heap') : heap'[s].live => heap'[s].sessionId \in held'
  BY <1>1 DEF IdsAreApart
<1>3. \A q \in Players :
        At(q, "naming")' =>
          /\ thread'[q].target \in held'
          /\ \A s \in 1 .. Len(heap') : heap'[s].live => thread'[q].target # heap'[s].sessionId
          /\ \A r \in Players : At(r, "naming")' /\ r # q => thread'[q].target # thread'[r].target
  BY <1>1 DEF IdsAreApart
<1> QED
  BY <1>1, <1>2, <1>3 DEF IdsAreApart

\* No creation is named, nobody joins, and nobody leaves a match.
KeepsSessions(p) ==
  /\ UNCHANGED sessions
  /\ \A q \in Players : q # p => thread'[q] = thread[q]
  /\ \A q \in Players : node'[q].activeSessionId = node[q].activeSessionId
  /\ thread'[p].pc \in Unattached => node[p].activeSessionId = NoId
  /\ thread'[p].pc \notin {"naming"} \cup Final
  /\ thread'[p].pc \in Agreed <=> thread[p].pc \in Agreed
  /\ thread'[p].pc \in Chosen => /\ thread[p].pc \in Chosen
                                 /\ thread'[p].session = thread[p].session
                                 /\ thread'[p].master = thread[p].master
                                 /\ thread'[p].target = thread[p].target

LEMMA SessionsKept ==
  ASSUME ServerInv, Typed', NEW p \in Players, KeepsSessions(p)
  PROVE  ServerInv'
<1> USE DEF ServerInv, KeepsSessions
<1>1. heap' = heap /\ activeMatchSessions' = activeMatchSessions /\ UNCHANGED idVars
  BY DEF sessions
<1>2. IdInv'
  BY <1>1, IdNext_IdInv
<1>3. StoreHolds'
  BY <1>1 DEF StoreHolds
<1>4. IdsAreApart'
  <2>1. \A q \in Players : At(q, "naming")' => At(q, "naming") /\ thread'[q] = thread[q]
    BY DEF At
  <2> QED
    BY <1>1, <2>1, IdsKept
<1>5. HostsAreBound'
  <2> SUFFICES ASSUME NEW s \in 1 .. Len(heap), heap[s].live,
                      NEW h, h = heap[s].participantPrimary,
                      NEW g, g = heap[s].participantSecondary
               PROVE  /\ node'[h].activeSessionId = heap[s].sessionId
                      /\ thread'[h].pc \notin Unattached \cup Agreed \cup Final
                      /\ g # Null => thread'[g].pc \in Agreed /\ thread'[g].session = s
    BY <1>1 DEF HostsAreBound
  <2>1. h \in Players /\ (g \in Players \/ g = Null) /\ heap[s].sessionId # NoId
    BY SessionFields
  <2>2. /\ node[h].activeSessionId = heap[s].sessionId
        /\ thread[h].pc \notin Unattached \cup Agreed \cup Final
        /\ g # Null => thread[g].pc \in Agreed /\ thread[g].session = s
    BY DEF HostsAreBound
  <2>3. thread'[h].pc \notin Unattached \cup Agreed \cup Final
    <3>1. CASE h # p
      BY <2>1, <2>2, <3>1
    <3>2. CASE h = p
      BY <2>1, <2>2, <3>2
    <3> QED
      BY <3>1, <3>2
  <2>4. g # Null => thread'[g].pc \in Agreed /\ thread'[g].session = s
    <3>1. CASE g # p
      BY <2>1, <2>2, <3>1
    <3>2. CASE g = p
      BY <2>1, <2>2, <3>2, Places
    <3> QED
      BY <3>1, <3>2
  <2> QED
    BY <2>1, <2>2, <2>3, <2>4
<1>6. ASSUME NEW q \in Players PROVE (UnattachedIsUnbound(q) /\ GuestHasSession(q))'
  <2>1. UnattachedIsUnbound(q) /\ GuestHasSession(q)
    OBVIOUS
  <2>2. CASE q # p
    BY <1>1, <2>1, <2>2 DEF UnattachedIsUnbound, GuestHasSession, Mine
  <2>3. CASE q = p
    <3>1. UnattachedIsUnbound(q)'
      BY <2>3 DEF UnattachedIsUnbound
    <3>2. GuestHasSession(q)'
      BY <1>1, <2>1, <2>3, Places DEF GuestHasSession, Mine
    <3> QED
      BY <3>1, <3>2
  <2> QED
    BY <2>2, <2>3
<1> QED
  BY <1>2, <1>3, <1>4, <1>5, <1>6

\* What remains to show of the types when the heap is left alone.
LEMMA StepTyped ==
  ASSUME Typed, heap' = heap, NEW p \in Players,
         thread' \in [Players -> ThreadRecord],
         \A q \in Players : q # p => thread'[q] = thread[q],
         thread'[p].session \in 0 .. Len(heap),
         thread'[p].pc = "discardName" => thread'[p].target \in Nat,
         node' \in [Players -> NodeRecord], streamLock' \in [Players -> Players \cup {Null}],
         link' \in [Players -> {"open", "closed"}], toServer' \in [Players -> Seq(Nat)]
  PROVE  Typed'
  BY DEF Typed, At

\* Only the program counter of p moves.
LEMMA GoesTyped ==
  ASSUME Typed, NEW p \in Players, NEW pc \in States, pc # "discardName", Goes(p, pc)
  PROVE  /\ thread' \in [Players -> ThreadRecord]
         /\ \A q \in Players : q # p => thread'[q] = thread[q]
         /\ thread'[p].pc = pc /\ thread'[p].session = thread[p].session
         /\ thread'[p].master = thread[p].master /\ thread'[p].target = thread[p].target
         /\ thread'[p].session \in 0 .. Len(heap)
<1>1. thread' = [thread EXCEPT ![p].pc = pc]
  BY DEF Goes
<1>2. thread \in [Players -> ThreadRecord] /\ thread[p].session \in 0 .. Len(heap)
  BY DEF Typed
<1>3. thread[p] \in ThreadRecord
  BY <1>2
<1>4. [thread[p] EXCEPT !.pc = pc] \in ThreadRecord
  BY <1>3 DEF ThreadRecord
<1>5. thread' \in [Players -> ThreadRecord]
  BY <1>1, <1>2, <1>4
<1> QED
  BY <1>1, <1>2, <1>3, <1>5 DEF ThreadRecord

\* The thread of p is back in the loop.
LEMMA ReturnsTyped ==
  ASSUME Typed, NEW p \in Players,
         thread' = [thread EXCEPT ![p] = [InLoop EXCEPT !.opcode = thread[p].opcode]]
  PROVE  /\ thread' \in [Players -> ThreadRecord]
         /\ \A q \in Players : q # p => thread'[q] = thread[q]
         /\ thread'[p].pc = "loop" /\ thread'[p].session = 0
<1> DEFINE r == [InLoop EXCEPT !.opcode = thread[p].opcode]
<1>1. thread \in [Players -> ThreadRecord] /\ thread[p] \in ThreadRecord
  BY DEF Typed
<1>2. thread[p].opcode \in [1 .. 4 -> Nat]
  BY <1>1 DEF ThreadRecord
<1>3. r \in ThreadRecord /\ r.pc = "loop" /\ r.session = 0
  BY <1>2 DEF ThreadRecord, InLoop, States, NoId
<1> HIDE DEF r
<1> QED
  BY <1>1, <1>3 DEF r

\* The nodes when the tick of one is cleared or set.
LEMMA TickTyped ==
  ASSUME Typed, NEW p \in Players,
         node' = node \/ node' = [node EXCEPT ![p].timeoutTicks = 0]
  PROVE  /\ node' \in [Players -> NodeRecord]
         /\ \A q \in Players : /\ node'[q].activeSessionId = node[q].activeSessionId
                              /\ node'[q].live = node[q].live
<1>1. node \in [Players -> NodeRecord] /\ node[p] \in NodeRecord
  BY DEF Typed
<1>2. [node[p] EXCEPT !.timeoutTicks = 0] \in NodeRecord
  BY <1>1 DEF NodeRecord
<1> QED
  BY <1>1, <1>2 DEF NodeRecord

\* Where a thread deals with nobody else.
Settled == {"loop", "deadline", "leaving", "purging", "discardId", "discardLength", "discardName",
            "rejecting", "fetch", "ledger", "newline"}

\* A thread that is in no match goes where it deals with nobody else.
LEMMA Settles ==
  ASSUME ServerInv, NEW p \in Players, UNCHANGED <<sessions, streamLock>>,
         thread[p].pc \notin Agreed,
         thread' \in [Players -> ThreadRecord],
         \A q \in Players : q # p => thread'[q] = thread[q],
         thread'[p].pc \in Settled, thread'[p].session \in 0 .. Len(heap),
         thread'[p].pc = "discardName" => thread'[p].target \in Nat,
         node' \in [Players -> NodeRecord],
         \A q \in Players : node'[q].activeSessionId = node[q].activeSessionId,
         link' \in [Players -> {"open", "closed"}], toServer' \in [Players -> Seq(Nat)]
  PROVE  Typed' /\ KeepsSessions(p)
<1> USE DEF ServerInv
<1>1. heap' = heap /\ UNCHANGED sessions /\ streamLock' = streamLock
  BY DEF sessions
<1>2. thread'[p].pc \notin Unattached \cup Chosen \cup Agreed \cup {"naming"} \cup Final
  BY DEF Settled, Unattached, Chosen, Agreed, Final
<1>3. Typed'
  BY <1>1, StepTyped DEF Typed
<1>4. KeepsSessions(p)
  BY <1>1, <1>2 DEF KeepsSessions
<1> QED
  BY <1>3, <1>4

LEMMA ReadOpcode_Keeps ==
  ASSUME ServerInv, NEW p \in Players, ReadOpcode(p)
  PROVE  Typed' /\ KeepsSessions(p)
<1> USE DEF ServerInv
<1> DEFINE read == IF Len(toServer[p]) < 4 THEN Len(toServer[p]) ELSE 4
           opcode == SubSeq(toServer[p], 1, read) \o SubSeq(thread[p].opcode, read + 1, 4)
           handler == Handler(p, Number(opcode))
<1>0. /\ UNCHANGED sessions /\ heap' = heap /\ streamLock' = streamLock
      /\ link' = link /\ At(p, "loop") /\ Receives(p, read)
      /\ thread' = [thread EXCEPT ![p].opcode = opcode, ![p].pc = handler]
      /\ node' = node \/ node' = [node EXCEPT ![p].timeoutTicks = 0]
  BY DEF ReadOpcode, sessions
<1>1. toServer[p] \in Seq(Nat) /\ thread[p] \in ThreadRecord /\ thread[p].opcode \in [1 .. 4 -> Nat]
  BY DEF Typed, ThreadRecord
<1>2. read \in Nat /\ read \in 0 .. 4 /\ read <= Len(toServer[p])
  <2> DEFINE l == Len(toServer[p])
  <2>1. l \in Nat
    BY <1>1, LenProperties
  <2> HIDE DEF l
  <2> SUFFICES (IF l < 4 THEN l ELSE 4) \in 0 .. 4 /\ (IF l < 4 THEN l ELSE 4) <= l
    BY DEF l
  <2> QED
    BY <2>1
<1>3. toServer' \in [Players -> Seq(Nat)]
  BY <1>0, <1>2, StreamsTyped DEF Typed
<1>4. handler \in {"loop", "fetch", "leaving", "discardId", "discardLength", "join", "create"}
  BY DEF Handler
<1>5. handler \in {"join", "create"} => node[p].activeSessionId = NoId
  BY DEF Handler
<1>6. opcode \in [1 .. 4 -> Nat]
  BY <1>1, <1>2, Overwritten
<1>7. node' \in [Players -> NodeRecord] /\ \A q \in Players : node'[q].activeSessionId = node[q].activeSessionId
  BY <1>0, TickTyped
<1> HIDE DEF handler, opcode, read
<1>8. /\ thread' \in [Players -> ThreadRecord]
      /\ \A q \in Players : q # p => thread'[q] = thread[q]
      /\ thread'[p].pc = handler /\ thread'[p].session = thread[p].session
  <2>1. thread \in [Players -> ThreadRecord] /\ handler \in States
    BY <1>4 DEF Typed, States
  <2>2. [thread[p] EXCEPT !.opcode = opcode, !.pc = handler] \in ThreadRecord
    BY <1>1, <1>6, <2>1 DEF ThreadRecord
  <2> QED
    BY <1>0, <1>1, <2>1, <2>2 DEF ThreadRecord
<1>9. Typed'
  BY <1>0, <1>3, <1>4, <1>7, <1>8, StepTyped DEF Typed
<1>10. KeepsSessions(p)
  BY <1>0, <1>4, <1>5, <1>7, <1>8 DEF KeepsSessions, At, Unattached, Chosen, Agreed, Final
<1> QED
  BY <1>9, <1>10

LEMMA PollIdle_Keeps ==
  ASSUME ServerInv, NEW p \in Players, PollIdle(p)
  PROVE  Typed' /\ KeepsSessions(p)
<1>0. /\ UNCHANGED <<sessions, streamLock>> /\ link' = link /\ toServer' = toServer /\ At(p, "loop")
      /\ node' = node
  BY DEF PollIdle, memory, network
<1>1. PICK pc \in {"deadline", "leaving"} : Goes(p, pc)
  BY DEF PollIdle
<1>2. pc \in States /\ pc # "discardName" /\ pc \in Settled
  BY DEF States, Settled
<1>3. Typed
  BY DEF ServerInv
<1>4. /\ thread' \in [Players -> ThreadRecord]
      /\ \A q \in Players : q # p => thread'[q] = thread[q]
      /\ thread'[p].pc = pc /\ thread'[p].session \in 0 .. Len(heap)
  BY <1>1, <1>2, <1>3, GoesTyped
<1>5. node' \in [Players -> NodeRecord] /\ \A q \in Players : node'[q].activeSessionId = node[q].activeSessionId
  BY <1>0, <1>3 DEF Typed
<1>6. link' \in [Players -> {"open", "closed"}] /\ toServer' \in [Players -> Seq(Nat)]
  BY <1>0, <1>3 DEF Typed
<1>7. thread[p].pc \notin Agreed
  BY <1>0 DEF At, Agreed
<1> QED
  BY <1>0, <1>2, <1>4, <1>5, <1>6, <1>7, Settles

LEMMA CheckDeadline_Keeps ==
  ASSUME ServerInv, NEW p \in Players, CheckDeadline(p)
  PROVE  Typed' /\ KeepsSessions(p)
<1>0. /\ UNCHANGED <<sessions, streamLock>> /\ link' = link /\ toServer' = toServer /\ At(p, "deadline")
      /\ node' = [node EXCEPT ![p].timeoutTicks = 0]
  BY DEF CheckDeadline, network
<1>1. PICK pc \in {"loop", "leaving"} : Goes(p, pc)
  BY DEF CheckDeadline
<1>2. pc \in States /\ pc # "discardName" /\ pc \in Settled
  BY DEF States, Settled
<1>3. Typed
  BY DEF ServerInv
<1>4. /\ thread' \in [Players -> ThreadRecord]
      /\ \A q \in Players : q # p => thread'[q] = thread[q]
      /\ thread'[p].pc = pc /\ thread'[p].session \in 0 .. Len(heap)
  BY <1>1, <1>2, <1>3, GoesTyped
<1>5. node' \in [Players -> NodeRecord] /\ \A q \in Players : node'[q].activeSessionId = node[q].activeSessionId
  BY <1>0, <1>3, TickTyped
<1>6. link' \in [Players -> {"open", "closed"}] /\ toServer' \in [Players -> Seq(Nat)]
  BY <1>0, <1>3 DEF Typed
<1>7. thread[p].pc \notin Agreed
  BY <1>0 DEF At, Agreed
<1> QED
  BY <1>0, <1>2, <1>4, <1>5, <1>6, <1>7, Settles

LEMMA FreeNode_Keeps ==
  ASSUME ServerInv, NEW p \in Players, FreeNode(p)
  PROVE  Typed' /\ KeepsSessions(p)
<1>0. /\ UNCHANGED <<sessions, streamLock>> /\ link' = [link EXCEPT ![p] = "closed"] /\ toServer' = toServer
      /\ At(p, "leaving") /\ node' = [node EXCEPT ![p].live = FALSE] /\ Goes(p, "purging")
  BY DEF FreeNode
<1>2. "purging" \in States /\ "purging" # "discardName" /\ "purging" \in Settled
  BY DEF States, Settled
<1>3. Typed
  BY DEF ServerInv
<1>4. /\ thread' \in [Players -> ThreadRecord]
      /\ \A q \in Players : q # p => thread'[q] = thread[q]
      /\ thread'[p].pc = "purging" /\ thread'[p].session \in 0 .. Len(heap)
  BY <1>0, <1>2, <1>3, GoesTyped
<1>5. node' \in [Players -> NodeRecord] /\ \A q \in Players : node'[q].activeSessionId = node[q].activeSessionId
  <2>1. node \in [Players -> NodeRecord] /\ node[p] \in NodeRecord
    BY <1>3 DEF Typed
  <2>2. [node[p] EXCEPT !.live = FALSE] \in NodeRecord
    BY <2>1 DEF NodeRecord
  <2> QED
    BY <1>0, <2>1, <2>2 DEF NodeRecord
<1>6. link' \in [Players -> {"open", "closed"}] /\ toServer' \in [Players -> Seq(Nat)]
  BY <1>0, <1>3 DEF Typed
<1>7. thread[p].pc \notin Agreed
  BY <1>0 DEF At, Agreed
<1> QED
  BY <1>0, <1>2, <1>4, <1>5, <1>6, <1>7, Settles

LEMMA DiscardId_Keeps ==
  ASSUME ServerInv, NEW p \in Players, DiscardId(p)
  PROVE  Typed' /\ KeepsSessions(p)
<1>0. /\ UNCHANGED <<sessions, streamLock>> /\ link' = link /\ node' = node
      /\ At(p, "discardId") /\ Goes(p, "discardLength") /\ (Receives(p, 2) \/ Starves(p, 2))
  BY DEF DiscardId, memory
<1>2. "discardLength" \in States /\ "discardLength" # "discardName" /\ "discardLength" \in Settled
  BY DEF States, Settled
<1>3. Typed
  BY DEF ServerInv
<1>4. /\ thread' \in [Players -> ThreadRecord]
      /\ \A q \in Players : q # p => thread'[q] = thread[q]
      /\ thread'[p].pc = "discardLength" /\ thread'[p].session \in 0 .. Len(heap)
  BY <1>0, <1>2, <1>3, GoesTyped
<1>5. toServer' \in [Players -> Seq(Nat)]
  <2>1. 2 \in Nat /\ toServer \in [Players -> Seq(Nat)]
    BY <1>0, <1>3 DEF Typed
  <2> QED
    BY <1>0, <2>1, StreamsTyped
<1>6. link' \in [Players -> {"open", "closed"}] /\ node' \in [Players -> NodeRecord]
  BY <1>0, <1>3 DEF Typed
<1>7. thread[p].pc \notin Agreed
  BY <1>0 DEF At, Agreed
<1> QED
  BY <1>0, <1>2, <1>4, <1>5, <1>6, <1>7, Settles

LEMMA DiscardName_Keeps ==
  ASSUME ServerInv, NEW p \in Players, DiscardName(p)
  PROVE  Typed' /\ KeepsSessions(p)
<1>0. /\ UNCHANGED <<sessions, streamLock>> /\ link' = link /\ node' = node
      /\ At(p, "discardName") /\ Goes(p, "rejecting") /\ (Receives(p, thread[p].target) \/ Starves(p, thread[p].target))
  BY DEF DiscardName, memory
<1>2. "rejecting" \in States /\ "rejecting" # "discardName" /\ "rejecting" \in Settled
  BY DEF States, Settled
<1>3. Typed
  BY DEF ServerInv
<1>4. /\ thread' \in [Players -> ThreadRecord]
      /\ \A q \in Players : q # p => thread'[q] = thread[q]
      /\ thread'[p].pc = "rejecting" /\ thread'[p].session \in 0 .. Len(heap)
  BY <1>0, <1>2, <1>3, GoesTyped
<1>5. toServer' \in [Players -> Seq(Nat)]
  <2>1. thread[p].target \in Nat /\ toServer \in [Players -> Seq(Nat)]
    BY <1>0, <1>3 DEF Typed
  <2> QED
    BY <1>0, <2>1, StreamsTyped
<1>6. link' \in [Players -> {"open", "closed"}] /\ node' \in [Players -> NodeRecord]
  BY <1>0, <1>3 DEF Typed
<1>7. thread[p].pc \notin Agreed
  BY <1>0 DEF At, Agreed
<1> QED
  BY <1>0, <1>2, <1>4, <1>5, <1>6, <1>7, Settles

LEMMA DiscardLength_Keeps ==
  ASSUME ServerInv, NEW p \in Players, DiscardLength(p)
  PROVE  Typed' /\ KeepsSessions(p)
<1>0. /\ UNCHANGED <<sessions, streamLock>> /\ link' = link /\ node' = node
      /\ At(p, "discardLength") /\ (Receives(p, 4) \/ Starves(p, 4))
  BY DEF DiscardLength, memory
<1>1. Typed
  BY DEF ServerInv
<1>2. PICK n \in Nat : Skips(p, n)
  <2>1. CASE Receives(p, 4) /\ Skips(p, IntAt(p, 1))
    <3>1. toServer[p] \in Seq(Nat) /\ 1 + 3 <= Len(toServer[p])
      BY <1>1, <2>1 DEF Receives, Typed
    <3>2. IntAt(p, 1) \in Nat
      BY <3>1, FourBytes DEF IntAt
    <3> QED
      BY <2>1, <3>2
  <2>2. CASE Starves(p, 4) /\ \E n \in {0} \cup NameLengths : Skips(p, n)
    BY <2>2, ServerAssumption
  <2> QED
    BY <2>1, <2>2 DEF DiscardLength
<1> DEFINE pc == IF n \in 1 .. LIMIT_IDENTITY_CAPACITY THEN "discardName" ELSE "rejecting"
<1>3. pc \in States /\ pc \in Settled
  BY DEF States, Settled
<1>4. thread' = [thread EXCEPT ![p].pc = pc, ![p].target = n]
  BY <1>2 DEF Skips
<1> HIDE DEF pc
<1>5. /\ thread' \in [Players -> ThreadRecord]
      /\ \A q \in Players : q # p => thread'[q] = thread[q]
      /\ thread'[p].pc = pc /\ thread'[p].target \in Nat /\ thread'[p].session \in 0 .. Len(heap)
  <2>1. thread \in [Players -> ThreadRecord] /\ thread[p] \in ThreadRecord /\ thread[p].session \in 0 .. Len(heap)
    BY <1>1 DEF Typed
  <2>2. [thread[p] EXCEPT !.pc = pc, !.target = n] \in ThreadRecord
    BY <1>3, <2>1 DEF ThreadRecord
  <2> QED
    BY <1>4, <2>1, <2>2 DEF ThreadRecord
<1>6. /\ toServer' \in [Players -> Seq(Nat)] /\ link' \in [Players -> {"open", "closed"}]
      /\ node' \in [Players -> NodeRecord]
  BY <1>0, <1>1, StreamsTyped DEF Typed
<1>7. thread[p].pc \notin Agreed
  BY <1>0 DEF At, Agreed
<1> QED
  BY <1>0, <1>3, <1>5, <1>6, <1>7, Settles

\* A handler that returns to the loop without having changed a session.
LEMMA ReturnsSettles ==
  ASSUME ServerInv, NEW p \in Players, Returns(p), UNCHANGED <<sessions, streamLock, link>>,
         toServer' \in [Players -> Seq(Nat)], thread[p].pc \notin Agreed
  PROVE  Typed' /\ KeepsSessions(p)
<1>1. Typed
  BY DEF ServerInv
<1>2. /\ thread' = [thread EXCEPT ![p] = [InLoop EXCEPT !.opcode = thread[p].opcode]]
      /\ node' = [node EXCEPT ![p].timeoutTicks = 0]
  BY DEF Returns
<1>3. /\ thread' \in [Players -> ThreadRecord]
      /\ \A q \in Players : q # p => thread'[q] = thread[q]
      /\ thread'[p].pc = "loop" /\ thread'[p].session = 0
  BY <1>1, <1>2, ReturnsTyped
<1>4. /\ node' \in [Players -> NodeRecord]
      /\ \A q \in Players : node'[q].activeSessionId = node[q].activeSessionId
  BY <1>1, <1>2, TickTyped
<1>5. thread'[p].pc \in Settled /\ thread'[p].pc # "discardName"
  BY <1>3 DEF Settled
<1>6. link' \in [Players -> {"open", "closed"}] /\ heap \in Seq(SessionRecord)
  BY <1>1 DEF Typed
<1>7. thread'[p].session \in 0 .. Len(heap)
  BY <1>3, <1>6
<1> QED
  BY <1>3, <1>4, <1>5, <1>6, <1>7, Settles

LEMMA Reject_Keeps ==
  ASSUME ServerInv, NEW p \in Players, Reject(p)
  PROVE  Typed' /\ KeepsSessions(p)
<1>1. Returns(p) /\ UNCHANGED <<sessions, streamLock, link>> /\ At(p, "rejecting") /\ toServer' = toServer
  BY DEF Reject
<1>2. toServer' \in [Players -> Seq(Nat)] /\ thread[p].pc \notin Agreed
  BY <1>1 DEF ServerInv, Typed, At, Agreed
<1> QED
  BY <1>1, <1>2, ReturnsSettles

LEMMA SendNewline_Keeps ==
  ASSUME ServerInv, NEW p \in Players, SendNewline(p)
  PROVE  Typed' /\ KeepsSessions(p)
<1>1. Returns(p) /\ UNCHANGED <<sessions, streamLock, link>> /\ At(p, "newline") /\ toServer' = toServer
  BY DEF SendNewline
<1>2. toServer' \in [Players -> Seq(Nat)] /\ thread[p].pc \notin Agreed
  BY <1>1 DEF ServerInv, Typed, At, Agreed
<1> QED
  BY <1>1, <1>2, ReturnsSettles

LEMMA FetchSlot_Keeps ==
  ASSUME ServerInv, NEW p \in Players, FetchSlot(p)
  PROVE  Typed' /\ KeepsSessions(p)
<1>0. /\ UNCHANGED <<sessions, streamLock, link, toServer, node>> /\ At(p, "fetch")
  BY DEF FetchSlot, memory, network
<1>1. PICK s \in Registered \cup {0} : thread' = [thread EXCEPT ![p].pc = "ledger", ![p].session = s]
  BY DEF FetchSlot
<1>2. Typed
  BY DEF ServerInv
<1>3. Len(heap) \in Nat
  BY <1>2, LenProperties DEF Typed
<1>4. s \in 0 .. Len(heap)
  <2>1. IsStore(activeMatchSessions, 1 .. Len(heap))
    BY DEF ServerInv, StoreHolds
  <2>2. Registered \subseteq 1 .. Len(heap)
    BY <2>1 DEF Registered, Live, IsStore
  <2> QED
    BY <1>3, <2>2
<1>5. /\ thread' \in [Players -> ThreadRecord]
      /\ \A q \in Players : q # p => thread'[q] = thread[q]
      /\ thread'[p].pc = "ledger" /\ thread'[p].session = s
  <2>1. thread \in [Players -> ThreadRecord] /\ thread[p] \in ThreadRecord /\ s \in Nat
    BY <1>2, <1>3, <1>4 DEF Typed
  <2>2. [thread[p] EXCEPT !.pc = "ledger", !.session = s] \in ThreadRecord
    BY <2>1 DEF ThreadRecord, States
  <2> QED
    BY <1>1, <2>1, <2>2 DEF ThreadRecord
<1>6. thread'[p].pc \in Settled /\ thread'[p].pc # "discardName" /\ thread[p].pc \notin Agreed
  BY <1>0, <1>5 DEF Settled, At, Agreed
<1>7. /\ toServer' \in [Players -> Seq(Nat)] /\ link' \in [Players -> {"open", "closed"}]
      /\ node' \in [Players -> NodeRecord]
  BY <1>0, <1>2 DEF Typed
<1> QED
  BY <1>0, <1>4, <1>5, <1>6, <1>7, Settles

LEMMA SendLedger_Keeps ==
  ASSUME ServerInv, NEW p \in Players, SendLedger(p)
  PROVE  Typed' /\ KeepsSessions(p)
<1>0. UNCHANGED <<sessions, streamLock, link, toServer, node>> /\ At(p, "ledger") /\ Goes(p, "newline")
  BY DEF SendLedger, memory
<1>1. Typed /\ "newline" \in States /\ "newline" # "discardName" /\ "newline" \in Settled
  BY DEF ServerInv, States, Settled
<1>2. /\ thread' \in [Players -> ThreadRecord]
      /\ \A q \in Players : q # p => thread'[q] = thread[q]
      /\ thread'[p].pc = "newline" /\ thread'[p].session \in 0 .. Len(heap)
  BY <1>0, <1>1, GoesTyped
<1>3. /\ toServer' \in [Players -> Seq(Nat)] /\ link' \in [Players -> {"open", "closed"}]
      /\ node' \in [Players -> NodeRecord] /\ thread[p].pc \notin Agreed
  BY <1>0, <1>1 DEF Typed, At, Agreed
<1> QED
  BY <1>0, <1>1, <1>2, <1>3, Settles

LEMMA JoinLengthTyped ==
  ASSUME Typed, NEW p \in Players
  PROVE  JoinLength(p) \in Nat
<1>1. CASE Len(toServer[p]) >= 6
  <2>1. toServer[p] \in Seq(Nat) /\ 3 + 3 <= Len(toServer[p])
    BY <1>1 DEF Typed
  <2>2. Number(SubSeq(toServer[p], 3, 3 + 3)) \in Nat
    BY <2>1, FourBytes
  <2> QED
    BY <1>1, <2>2 DEF JoinLength, IntAt
<1>2. CASE ~ (Len(toServer[p]) >= 6)
  BY <1>2 DEF JoinLength
<1> QED
  BY <1>1, <1>2

LEMMA JoinFails_Keeps ==
  ASSUME ServerInv, NEW p \in Players, JoinFails(p)
  PROVE  Typed' /\ KeepsSessions(p)
<1>1. Returns(p) /\ UNCHANGED <<sessions, streamLock, link>> /\ At(p, "join")
  BY DEF JoinFails
<1>2. Typed
  BY DEF ServerInv
<1>3. PICK n \in Nat : Receives(p, n) \/ Starves(p, n)
  <2>1. 6 + JoinLength(p) \in Nat
    BY <1>2, JoinLengthTyped
  <2> QED
    BY <2>1 DEF JoinFails
<1>4. toServer' \in [Players -> Seq(Nat)] /\ thread[p].pc \notin Agreed
  BY <1>1, <1>2, <1>3, StreamsTyped DEF Typed, At, Agreed
<1> QED
  BY <1>1, <1>4, ReturnsSettles

\* No such session (any more).
LEMMA ReadJoinRefused_Keeps ==
  ASSUME ServerInv, NEW p \in Players, ReadJoin(p), Returns(p)
  PROVE  Typed' /\ KeepsSessions(p)
<1>1. UNCHANGED <<sessions, streamLock, link>> /\ At(p, "join") /\ Receives(p, 6 + JoinLength(p))
  BY DEF ReadJoin
<1>2. Typed
  BY DEF ServerInv
<1>3. 6 + JoinLength(p) \in Nat
  BY <1>2, JoinLengthTyped
<1>4. toServer' \in [Players -> Seq(Nat)] /\ thread[p].pc \notin Agreed
  BY <1>1, <1>2, <1>3, StreamsTyped DEF Typed, At, Agreed
<1> QED
  BY <1>1, <1>4, ReturnsSettles

LEMMA RelayRefused_Keeps ==
  ASSUME ServerInv, NEW p \in Players, RelayVerdict(p), ~ Approves(thread[p].verdict)
  PROVE  Typed' /\ KeepsSessions(p)
<1>1. Returns(p) /\ UNCHANGED <<sessions, streamLock, link, toServer>> /\ At(p, "relay")
  BY DEF RelayVerdict, sessions
<1>2. toServer' \in [Players -> Seq(Nat)] /\ thread[p].pc \notin Agreed
  BY <1>1 DEF ServerInv, Typed, At, Agreed
<1> QED
  BY <1>1, <1>2, ReturnsSettles

\* A thread that goes on with the session it has chosen, in a match or before it.
LEMMA GoesOn ==
  ASSUME ServerInv, NEW p \in Players, UNCHANGED <<sessions, node, link>>,
         thread[p].pc \in Chosen,
         thread' \in [Players -> ThreadRecord],
         \A q \in Players : q # p => thread'[q] = thread[q],
         thread'[p].pc \in Chosen, thread'[p].pc \in Agreed <=> thread[p].pc \in Agreed,
         thread'[p].session = thread[p].session, thread'[p].master = thread[p].master,
         thread'[p].target = thread[p].target,
         streamLock' \in [Players -> Players \cup {Null}], toServer' \in [Players -> Seq(Nat)]
  PROVE  Typed' /\ KeepsSessions(p)
<1>1. Typed /\ UnattachedIsUnbound(p)
  BY DEF ServerInv
<1>2. heap' = heap /\ node' = node /\ link' = link
  BY DEF sessions
<1>3. thread'[p].pc \notin {"naming", "discardName"} \cup Final /\ thread[p].pc \in Unattached \cup Agreed
  BY Places DEF Chosen, Agreed, Final, Unattached
<1>4. thread'[p].session \in 0 .. Len(heap)
  BY <1>1 DEF Typed
<1>5. Typed'
  BY <1>1, <1>2, <1>3, <1>4, StepTyped DEF Typed
<1>6. thread'[p].pc \in Unattached => node[p].activeSessionId = NoId
  BY <1>1, <1>3, Places DEF UnattachedIsUnbound
<1> QED
  BY <1>2, <1>3, <1>5, <1>6 DEF KeepsSessions

LEMMA SendChallenge_Keeps ==
  ASSUME ServerInv, NEW p \in Players, SendChallenge(p)
  PROVE  Typed' /\ KeepsSessions(p)
<1>0. /\ UNCHANGED <<sessions, node, link, toServer>> /\ At(p, "challenge") /\ Goes(p, "verdict")
      /\ streamLock' = [streamLock EXCEPT ![thread[p].master] = p]
  BY DEF SendChallenge, Acquires
<1>1. Typed /\ "verdict" \in States /\ "verdict" # "discardName"
  BY DEF ServerInv, States
<1>2. /\ thread' \in [Players -> ThreadRecord]
      /\ \A q \in Players : q # p => thread'[q] = thread[q]
      /\ thread'[p].pc = "verdict" /\ thread'[p].session = thread[p].session
      /\ thread'[p].master = thread[p].master /\ thread'[p].target = thread[p].target
  BY <1>0, <1>1, GoesTyped
<1>3. streamLock' \in [Players -> Players \cup {Null}] /\ toServer' \in [Players -> Seq(Nat)]
  BY <1>0, <1>1 DEF Typed
<1>4. {"challenge", "verdict"} \subseteq Chosen /\ "challenge" \notin Agreed /\ "verdict" \notin Agreed
  BY DEF Chosen, Agreed
<1> QED
  BY <1>0, <1>2, <1>3, <1>4, GoesOn DEF At

LEMMA ReadVerdict_Keeps ==
  ASSUME ServerInv, NEW p \in Players, ReadVerdict(p)
  PROVE  Typed' /\ KeepsSessions(p)
<1> DEFINE m == thread[p].master
<1>0. /\ UNCHANGED <<sessions, node, link>> /\ At(p, "verdict")
      /\ streamLock' = [streamLock EXCEPT ![m] = Null]
      /\ Receives(m, 4) \/ Starves(m, 4)
  BY DEF ReadVerdict, HostUnlocked
<1>1. Typed
  BY DEF ServerInv
<1>2. {"relay", "verdict"} \subseteq Chosen /\ "relay" \notin Agreed /\ "verdict" \notin Agreed /\ "relay" \in States
  BY DEF Chosen, Agreed, States
<1>3. m \in Players
  <2>1. GuestHasSession(p)
    BY DEF ServerInv
  <2>2. thread[p].session # 0 /\ m = heap[thread[p].session].participantPrimary
    BY <1>0, <1>2, <2>1 DEF GuestHasSession, Mine, At
  <2>3. thread[p].session \in 1 .. Len(heap)
    <3>1. thread[p].session \in 0 .. Len(heap) /\ Len(heap) \in Nat
      BY <1>1, LenProperties DEF Typed
    <3> QED
      BY <2>2, <3>1
  <2> QED
    BY <1>1, <2>2, <2>3, SessionFields
<1>4. PICK verdict \in Int : Hears(p, verdict)
  <2>1. CASE Receives(m, 4) /\ Hears(p, IntAt(m, 1))
    <3>1. toServer[m] \in Seq(Nat) /\ 1 + 3 <= Len(toServer[m])
      BY <1>1, <1>3, <2>1 DEF Receives, Typed
    <3>2. IntAt(m, 1) \in Nat
      BY <3>1, FourBytes DEF IntAt
    <3> QED
      BY <2>1, <3>2
  <2>2. CASE Starves(m, 4) /\ Hears(p, OP_DECLINE_REQ)
    BY <2>2 DEF OP_DECLINE_REQ
  <2> QED
    BY <2>1, <2>2 DEF ReadVerdict
<1>5. /\ thread' \in [Players -> ThreadRecord]
      /\ \A q \in Players : q # p => thread'[q] = thread[q]
      /\ thread'[p].pc = "relay" /\ thread'[p].session = thread[p].session
      /\ thread'[p].master = thread[p].master /\ thread'[p].target = thread[p].target
  <2>1. thread \in [Players -> ThreadRecord] /\ thread[p] \in ThreadRecord
    BY <1>1 DEF Typed
  <2>2. [thread[p] EXCEPT !.pc = "relay", !.verdict = verdict] \in ThreadRecord
    BY <1>2, <2>1 DEF ThreadRecord
  <2>3. thread' = [thread EXCEPT ![p].pc = "relay", ![p].verdict = verdict]
    BY <1>4 DEF Hears
  <2> QED
    BY <2>1, <2>2, <2>3 DEF ThreadRecord
<1>6. streamLock' \in [Players -> Players \cup {Null}]
  BY <1>0, <1>1 DEF Typed
<1>7. toServer' \in [Players -> Seq(Nat)]
  BY <1>0, <1>1, StreamsTyped DEF Typed
<1> QED
  BY <1>0, <1>2, <1>5, <1>6, <1>7, GoesOn DEF At

LEMMA LockPrimary_Keeps ==
  ASSUME ServerInv, NEW p \in Players, LockPrimary(p)
  PROVE  Typed' /\ KeepsSessions(p)
<1>0. /\ UNCHANGED <<sessions, node, link, toServer>> /\ At(p, "lockPrimary") /\ Goes(p, "lockSecondary")
      /\ streamLock' = [streamLock EXCEPT ![Mine(p).participantPrimary] = p]
  BY DEF LockPrimary, network, Acquires
<1>1. Typed /\ "lockSecondary" \in States /\ "lockSecondary" # "discardName"
  BY DEF ServerInv, States
<1>2. /\ thread' \in [Players -> ThreadRecord]
      /\ \A q \in Players : q # p => thread'[q] = thread[q]
      /\ thread'[p].pc = "lockSecondary" /\ thread'[p].session = thread[p].session
      /\ thread'[p].master = thread[p].master /\ thread'[p].target = thread[p].target
  BY <1>0, <1>1, GoesTyped
<1>3. streamLock' \in [Players -> Players \cup {Null}] /\ toServer' \in [Players -> Seq(Nat)]
  BY <1>0, <1>1 DEF Typed
<1>4. {"lockPrimary", "lockSecondary"} \subseteq Chosen /\ {"lockPrimary", "lockSecondary"} \subseteq Agreed
  BY DEF Chosen, Agreed
<1> QED
  BY <1>0, <1>2, <1>3, <1>4, GoesOn DEF At

LEMMA LockSecondary_Keeps ==
  ASSUME ServerInv, NEW p \in Players, LockSecondary(p)
  PROVE  Typed' /\ KeepsSessions(p)
<1>0. /\ UNCHANGED <<sessions, node, link, toServer>> /\ At(p, "lockSecondary") /\ Goes(p, "round")
      /\ streamLock' = [streamLock EXCEPT ![Mine(p).participantSecondary] = p]
  BY DEF LockSecondary, network, Acquires
<1>1. Typed /\ "round" \in States /\ "round" # "discardName"
  BY DEF ServerInv, States
<1>2. /\ thread' \in [Players -> ThreadRecord]
      /\ \A q \in Players : q # p => thread'[q] = thread[q]
      /\ thread'[p].pc = "round" /\ thread'[p].session = thread[p].session
      /\ thread'[p].master = thread[p].master /\ thread'[p].target = thread[p].target
  BY <1>0, <1>1, GoesTyped
<1>3. streamLock' \in [Players -> Players \cup {Null}] /\ toServer' \in [Players -> Seq(Nat)]
  BY <1>0, <1>1 DEF Typed
<1>4. {"lockSecondary", "round"} \subseteq Chosen /\ {"lockSecondary", "round"} \subseteq Agreed
  BY DEF Chosen, Agreed
<1> QED
  BY <1>0, <1>2, <1>3, <1>4, GoesOn DEF At

\* Who plays: two players.
LEMMA Opponents ==
  ASSUME ServerInv, NEW p \in Players, thread[p].pc \in Agreed
  PROVE  /\ thread[p].session \in 1 .. Len(heap)
         /\ thread[p].master = Mine(p).participantPrimary
         /\ thread[p].master \in Players /\ thread[p].master # p
         /\ Mine(p).participantSecondary \in Players \ {thread[p].master}
         /\ NodesOf(Mine(p)) = {thread[p].master, Mine(p).participantSecondary}
<1>1. Typed /\ GuestHasSession(p) /\ thread[p].pc \in Chosen
  BY Places DEF ServerInv
<1>2. /\ thread[p].session # 0 /\ thread[p].master = Mine(p).participantPrimary /\ thread[p].master # p
      /\ Mine(p).participantSecondary \in Players \ {thread[p].master}
  BY <1>1 DEF GuestHasSession
<1>3. thread[p].session \in 1 .. Len(heap)
  <2>1. thread[p].session \in 0 .. Len(heap) /\ Len(heap) \in Nat
    BY <1>1, LenProperties DEF Typed
  <2> QED
    BY <1>2, <2>1
<1>4. Mine(p).participantPrimary \in Players
  BY <1>1, <1>3, SessionFields DEF Mine
<1>5. Null \notin Players
  BY ServerAssumption
<1> QED
  BY <1>2, <1>3, <1>4, <1>5 DEF NodesOf

\* A match goes on: the thread of the guest keeps its session.
LEMMA Plays ==
  ASSUME ServerInv, NEW p \in Players, UNCHANGED <<memory, link>>, InMatch(p),
         NEW pc, NEW acting \in Players \cup {Null}, pc \in {"round", "await", "polling", "ending"},
         thread' = [thread EXCEPT ![p].pc = pc, ![p].acting = acting],
         toServer' \in [Players -> Seq(Nat)]
  PROVE  Typed' /\ KeepsSessions(p)
<1>0. UNCHANGED <<sessions, node, link, streamLock>>
  BY DEF memory
<1>1. Typed
  BY DEF ServerInv
<1>2. /\ pc \in States /\ pc \in Agreed /\ pc \in Chosen
      /\ thread[p].pc \in Agreed /\ thread[p].pc \in Chosen
  BY DEF States, Agreed, Chosen, InMatch
<1>3. /\ thread' \in [Players -> ThreadRecord]
      /\ \A q \in Players : q # p => thread'[q] = thread[q]
      /\ thread'[p].pc = pc /\ thread'[p].session = thread[p].session
      /\ thread'[p].master = thread[p].master /\ thread'[p].target = thread[p].target
  <2>1. thread \in [Players -> ThreadRecord] /\ thread[p] \in ThreadRecord
    BY <1>1 DEF Typed
  <2>2. [thread[p] EXCEPT !.pc = pc, !.acting = acting] \in ThreadRecord
    BY <1>2, <2>1 DEF ThreadRecord
  <2> QED
    BY <2>1, <2>2 DEF ThreadRecord
<1>4. streamLock' \in [Players -> Players \cup {Null}]
  BY <1>0, <1>1 DEF Typed
<1> QED
  BY <1>0, <1>2, <1>3, <1>4, GoesOn

\* The same when nothing but the program counter moves.
LEMMA PlaysOn ==
  ASSUME ServerInv, NEW p \in Players, UNCHANGED <<memory, link>>, InMatch(p),
         NEW pc, pc \in {"round", "await", "polling", "ending"}, Goes(p, pc),
         toServer' \in [Players -> Seq(Nat)]
  PROVE  Typed' /\ KeepsSessions(p)
<1>0. UNCHANGED <<sessions, node, link, streamLock>>
  BY DEF memory
<1>1. Typed
  BY DEF ServerInv
<1>2. /\ pc \in States /\ pc \in Agreed /\ pc \in Chosen /\ pc # "discardName"
      /\ thread[p].pc \in Agreed /\ thread[p].pc \in Chosen
  BY DEF States, Agreed, Chosen, InMatch
<1>3. /\ thread' \in [Players -> ThreadRecord]
      /\ \A q \in Players : q # p => thread'[q] = thread[q]
      /\ thread'[p].pc = pc /\ thread'[p].session = thread[p].session
      /\ thread'[p].master = thread[p].master /\ thread'[p].target = thread[p].target
  BY <1>1, <1>2, GoesTyped
<1>4. streamLock' \in [Players -> Players \cup {Null}]
  BY <1>0, <1>1 DEF Typed
<1> QED
  BY <1>0, <1>2, <1>3, <1>4, GoesOn

LEMMA StartRound_Keeps ==
  ASSUME ServerInv, NEW p \in Players, StartRound(p)
  PROVE  Typed' /\ KeepsSessions(p)
<1>0. /\ UNCHANGED <<memory, link, toServer>> /\ At(p, "round")
  BY DEF StartRound
<1>1. Typed /\ InMatch(p) /\ thread[p].pc \in Agreed
  BY <1>0 DEF ServerInv, InMatch, At, Agreed
<1>2. PICK acting \in NodesOf(Mine(p)) : thread' = [thread EXCEPT ![p].pc = "await", ![p].acting = acting]
  BY DEF StartRound
<1>3. acting \in Players \cup {Null}
  BY <1>1, <1>2, Opponents
<1>4. toServer' \in [Players -> Seq(Nat)]
  BY <1>0, <1>1 DEF Typed
<1> QED
  BY <1>0, <1>1, <1>2, <1>3, <1>4, Plays

LEMMA ReceiveMove_Keeps ==
  ASSUME ServerInv, NEW p \in Players, ReceiveMove(p)
  PROVE  Typed' /\ KeepsSessions(p)
<1> DEFINE next == dispatch_active_node(Mine(p), thread[p].acting)
<1>0. /\ UNCHANGED <<memory, link>> /\ At(p, "await") /\ Receives(thread[p].acting, 4)
  BY DEF ReceiveMove
<1>1. Typed /\ InMatch(p) /\ thread[p].pc \in Agreed
  BY <1>0 DEF ServerInv, InMatch, At, Agreed
<1>2. toServer' \in [Players -> Seq(Nat)]
  BY <1>0, <1>1, StreamsTyped DEF Typed
<1>3. next \in Players \cup {Null}
  BY <1>1, Opponents DEF dispatch_active_node
<1>4. CASE thread' = thread
  <2>1. thread[p] \in ThreadRecord /\ thread[p].session \in 0 .. Len(heap)
    BY <1>1 DEF Typed
  <2>2. /\ thread[p].pc = "await" /\ "await" \in Agreed /\ "await" \in Chosen
        /\ "await" # "discardName"
    BY <1>0 DEF At, Agreed, Chosen
  <2>3. UNCHANGED <<sessions, node, link, streamLock>> /\ thread' \in [Players -> ThreadRecord]
    BY <1>0, <1>1, <1>4 DEF memory, Typed
  <2>4. streamLock' \in [Players -> Players \cup {Null}]
    BY <1>1, <2>3 DEF Typed
  <2> QED
    BY <1>2, <1>4, <2>1, <2>2, <2>3, <2>4, GoesOn
<1>5. CASE thread' # thread
  <2>1. PICK pc \in {"polling", "await"} : thread' = [thread EXCEPT ![p].pc = pc, ![p].acting = next]
    BY <1>5 DEF ReceiveMove
  <2> HIDE DEF next
  <2> QED
    BY <1>0, <1>1, <1>2, <1>3, <2>1, Plays
<1> QED
  BY <1>4, <1>5

LEMMA AbandonRound_Keeps ==
  ASSUME ServerInv, NEW p \in Players, AbandonRound(p)
  PROVE  Typed' /\ KeepsSessions(p)
<1>0. /\ UNCHANGED <<memory, link>> /\ At(p, "await") /\ Starves(thread[p].acting, 4) /\ Goes(p, "ending")
  BY DEF AbandonRound
<1>1. Typed /\ InMatch(p)
  BY <1>0 DEF ServerInv, InMatch, At
<1>2. toServer' \in [Players -> Seq(Nat)]
  BY <1>0, <1>1, StreamsTyped DEF Typed
<1> QED
  BY <1>0, <1>1, <1>2, PlaysOn

LEMMA JoinVerdicts_Keeps ==
  ASSUME ServerInv, NEW p \in Players, JoinVerdicts(p)
  PROVE  Typed' /\ KeepsSessions(p)
<1>0. /\ UNCHANGED <<memory, link>> /\ At(p, "polling")
      /\ toServer' = [q \in Players |-> IF q \in NodesOf(Mine(p)) THEN SubSeq(toServer[q], 3, Len(toServer[q]))
                                                              ELSE toServer[q]]
  BY DEF JoinVerdicts
<1>1. Typed /\ InMatch(p)
  BY <1>0 DEF ServerInv, InMatch, At
<1>2. PICK pc \in {"round", "ending"} : Goes(p, pc)
  BY DEF JoinVerdicts
<1>3. toServer' \in [Players -> Seq(Nat)]
  <2>1. \A q \in Players : toServer[q] \in Seq(Nat)
    BY <1>1 DEF Typed
  <2>2. \A q \in Players : SubSeq(toServer[q], 2 + 1, Len(toServer[q])) \in Seq(Nat)
    BY <2>1, Dropped
  <2>3. \A q \in Players : SubSeq(toServer[q], 3, Len(toServer[q])) \in Seq(Nat)
    BY <2>2
  <2> QED
    BY <1>0, <2>1, <2>3
<1> QED
  BY <1>0, <1>1, <1>2, <1>3, PlaysOn

-----------------------------------------------------------------------------
(* Steps that create, join, match or end a session. *)

\* Whom the sessions belong to, when somebody else moves.
LEMMA HostsKept ==
  ASSUME ServerInv, NEW p \in Players, thread[p].pc \in Unattached, heap' = heap, node' = node,
         \A q \in Players : q # p => thread'[q] = thread[q]
  PROVE  HostsAreBound'
<1>1. Typed /\ HostsAreBound
  BY DEF ServerInv
<1> SUFFICES ASSUME NEW s \in 1 .. Len(heap), heap[s].live,
                    NEW h, h = heap[s].participantPrimary,
                    NEW g, g = heap[s].participantSecondary
             PROVE  /\ node[h].activeSessionId = heap[s].sessionId
                    /\ thread'[h].pc \notin Unattached \cup Agreed \cup Final
                    /\ g # Null => thread'[g].pc \in Agreed /\ thread'[g].session = s
  BY DEF HostsAreBound
<1>2. h \in Players /\ (g \in Players \/ g = Null)
  BY <1>1, SessionFields
<1>3. /\ node[h].activeSessionId = heap[s].sessionId
      /\ thread[h].pc \notin Unattached \cup Agreed \cup Final
      /\ g # Null => thread[g].pc \in Agreed /\ thread[g].session = s
  BY <1>1 DEF HostsAreBound
<1>4. h # p /\ (g # Null => g # p)
  BY <1>3, Places
<1> QED
  BY <1>2, <1>3, <1>4

\* An identifier is taken for a session to be.
LEMMA AcquireId_Inv ==
  ASSUME ServerInv, NEW p \in Players, AcquireId(p)
  PROVE  ServerInv'
<1> USE DEF ServerInv
<1>0. /\ UNCHANGED <<activeMatchSessions, heap, node, streamLock, link, toServer>>
      /\ At(p, "create") /\ acquireNewSessionIdentifier
      /\ thread' = [thread EXCEPT ![p].pc = "naming", ![p].target = NextId]
  BY DEF AcquireId, network
<1>00. heap' = heap /\ node' = node
  BY <1>0
<1>1. NextId \in Nat /\ NextId \notin held /\ held' = held \cup {NextId}
  <2>1. CASE recycled_id_pool = <<>>
    BY <1>0, <2>1 DEF IdInv, IdTypeOK, IdsWereMade, NextId, acquireNewSessionIdentifier
  <2>2. CASE recycled_id_pool # <<>>
    <3>1. Len(recycled_id_pool) \in DOMAIN recycled_id_pool /\ recycled_id_pool[Len(recycled_id_pool)] \in Nat
      BY <2>2, Shortened DEF IdInv, IdTypeOK
    <3>2. NextId = recycled_id_pool[Len(recycled_id_pool)]
      BY <2>2 DEF NextId
    <3>3. NextId \in Pooled
      BY <3>1, <3>2 DEF Pooled
    <3> QED
      BY <1>0, <3>1, <3>2, <3>3 DEF IdInv, IdsNeverShared, acquireNewSessionIdentifier
  <2> QED
    BY <2>1, <2>2
<1>2. current_highest_id' <= MaxId
  BY <1>0, PoolAssumption DEF IdsAreApart, IdInv, IdTypeOK, acquireNewSessionIdentifier
<1>3. IdInv'
  BY <1>0, Acquire_IdInv
<1>4. /\ thread' \in [Players -> ThreadRecord]
      /\ \A q \in Players : q # p => thread'[q] = thread[q]
      /\ thread'[p].pc = "naming" /\ thread'[p].target = NextId /\ thread'[p].session = thread[p].session
  <2>1. thread \in [Players -> ThreadRecord] /\ thread[p] \in ThreadRecord
    BY DEF Typed
  <2>2. [thread[p] EXCEPT !.pc = "naming", !.target = NextId] \in ThreadRecord
    BY <1>1, <2>1 DEF ThreadRecord, States
  <2> QED
    BY <1>0, <2>1, <2>2 DEF ThreadRecord
<1>5. Typed'
  <2>1. /\ node' \in [Players -> NodeRecord] /\ streamLock' \in [Players -> Players \cup {Null}]
        /\ link' \in [Players -> {"open", "closed"}] /\ toServer' \in [Players -> Seq(Nat)]
        /\ heap' = heap /\ thread'[p].session \in 0 .. Len(heap)
    BY <1>0, <1>4 DEF Typed
  <2> QED
    BY <1>4, <2>1, StepTyped
<1>6. StoreHolds'
  BY <1>0 DEF StoreHolds
<1>7. IdsAreApart'
  <2>1. \A s \in 1 .. Len(heap) : heap[s].live => heap[s].sessionId \in held /\ heap[s].sessionId # NextId
    BY <1>1 DEF IdsAreApart
  <2>2. \A s \in 1 .. Len(heap') : heap'[s].live => heap'[s].sessionId \in held'
    BY <1>0, <1>1, <2>1
  <2>3. ASSUME NEW q \in Players, At(q, "naming")'
        PROVE  /\ thread'[q].target \in held'
               /\ \A s \in 1 .. Len(heap') : heap'[s].live => thread'[q].target # heap'[s].sessionId
               /\ \A r \in Players : At(r, "naming")' /\ r # q => thread'[q].target # thread'[r].target
    <3>1. \A r \in Players : r # p /\ At(r, "naming")' =>
            /\ thread'[r] = thread[r] /\ At(r, "naming")
            /\ thread[r].target \in held /\ thread[r].target # NextId
      BY <1>1, <1>4 DEF IdsAreApart, At
    <3>2. CASE q = p
      BY <1>0, <1>1, <1>4, <2>1, <3>1, <3>2
    <3>3. CASE q # p
      BY <1>0, <1>1, <1>4, <2>3, <3>1, <3>3 DEF IdsAreApart
    <3> QED
      BY <3>2, <3>3
  <2> QED
    BY <1>2, <2>2, <2>3 DEF IdsAreApart
<1>8. HostsAreBound'
  <2>1. thread[p].pc \in Unattached
    BY <1>0 DEF At, Unattached
  <2> QED
    BY <1>00, <1>4, <2>1, HostsKept
<1>9. ASSUME NEW q \in Players PROVE (UnattachedIsUnbound(q) /\ GuestHasSession(q))'
  <2>1. UnattachedIsUnbound(q) /\ GuestHasSession(q)
    OBVIOUS
  <2>2. CASE q # p
    BY <1>0, <1>4, <2>1, <2>2 DEF UnattachedIsUnbound, GuestHasSession, Mine
  <2>3. CASE q = p
    <3>1. "create" \in Unattached /\ "naming" \notin Chosen /\ "naming" \notin Agreed
      BY DEF Unattached, Chosen, Agreed
    <3>2. node'[p].activeSessionId = NoId
      BY <1>0, <2>1, <2>3, <3>1 DEF UnattachedIsUnbound, At
    <3>3. UnattachedIsUnbound(q)'
      BY <2>3, <3>2 DEF UnattachedIsUnbound
    <3>4. GuestHasSession(q)'
      BY <1>4, <2>3, <3>1 DEF GuestHasSession
    <3> QED
      BY <3>3, <3>4
  <2> QED
    BY <2>2, <2>3
<1> QED
  BY <1>3, <1>5, <1>6, <1>7, <1>8, <1>9

\* What a guest knows of its session stays true whatever happens to its life
\* and, within reason, to its guest.
LEMMA GuestKept ==
  ASSUME ServerInv, NEW q \in Players, thread'[q] = thread[q],
         \A s \in 1 .. Len(heap) :
           /\ heap'[s].participantPrimary = heap[s].participantPrimary
           /\ heap'[s].sessionId = heap[s].sessionId
           /\ \/ heap'[s].participantSecondary = heap[s].participantSecondary
              \/ heap'[s].participantSecondary \in Players \ {heap[s].participantPrimary}
  PROVE  GuestHasSession(q)'
<1>1. GuestHasSession(q) /\ thread[q].session \in 0 .. Len(heap) /\ Len(heap) \in Nat
  BY LenProperties DEF ServerInv, Typed
<1>2. ASSUME thread[q].pc \in Chosen
      PROVE  /\ thread[q].session # 0
             /\ thread[q].master = Mine(q)'.participantPrimary
             /\ thread[q].master # q
             /\ thread[q].target = Mine(q)'.sessionId
  <2>1. thread[q].session \in 1 .. Len(heap)
    BY <1>1, <1>2 DEF GuestHasSession
  <2> QED
    BY <1>1, <1>2, <2>1 DEF GuestHasSession, Mine
<1>3. ASSUME thread[q].pc \in Agreed
      PROVE  Mine(q)'.participantSecondary \in Players \ {thread[q].master}
  <2>1. thread[q].pc \in Chosen
    BY <1>3, Places
  <2>2. thread[q].session \in 1 .. Len(heap)
    BY <1>1, <2>1 DEF GuestHasSession
  <2> QED
    BY <1>1, <1>3, <2>1, <2>2 DEF GuestHasSession, Mine
<1> QED
  BY <1>2, <1>3 DEF GuestHasSession

\* A new session gets the slot of its identifier, which is empty.
LEMMA Implanted ==
  ASSUME ServerInv, NEW id \in held,
         \A s \in 1 .. Len(heap) : heap[s].live => heap[s].sessionId # id,
         NEW n, n = Len(heap) + 1,
         NEW t, t = implant_at_offset(activeMatchSessions, id, n)
  PROVE  /\ id \in Nat /\ id < activeMatchSessions.allocated_slots
         /\ id \notin Live(activeMatchSessions)
         /\ IsStore(t, 1 .. n)
         /\ t.floor_threshold >= Starter /\ t.allocated_slots >= Starter
         /\ Live(t) = Live(activeMatchSessions) \cup {id}
         /\ t.heap_region[id] = n
         /\ \A i \in Live(activeMatchSessions) : t.heap_region[i] = activeMatchSessions.heap_region[i]
<1> DEFINE store == activeMatchSessions
<1>1. /\ StoreHolds /\ IdInv /\ IdsAreApart /\ Typed
  BY DEF ServerInv
<1>2. Len(heap) \in Nat /\ n \in Nat \ {0}
  <2>1. Len(heap) \in Nat
    BY <1>1, LenProperties DEF Typed
  <2> QED
    BY <2>1
<1>3. IsStore(store, 1 .. n)
  <2>1. IsStore(store, 1 .. Len(heap))
    BY <1>1 DEF StoreHolds
  <2>2. 1 .. Len(heap) \subseteq 1 .. n
    BY <1>2
  <2> QED
    BY <2>1, <2>2 DEF IsStore
<1>4. store.allocated_slots \in Nat /\ store.allocated_slots >= Starter /\ store.floor_threshold >= Starter
  BY <1>1, <1>3 DEF StoreHolds, IsStore
<1>5. id \in Nat /\ id < current_highest_id /\ current_highest_id \in Nat
  BY <1>1 DEF IdInv, IdTypeOK, IdsWereMade
<1>6. MaxId \in Nat /\ Starter \in Nat /\ MaxId <= Starter /\ Null \notin Nat
  BY ServerAssumption, PoolAssumption
<1>7. id < store.allocated_slots
  <2>1. current_highest_id <= MaxId
    BY <1>1 DEF IdsAreApart
  <2> DEFINE a == store.allocated_slots
  <2>2. a \in Nat /\ a >= Starter
    BY <1>4
  <2> HIDE DEF a
  <2>3. id < a
    BY <1>5, <1>6, <2>1, <2>2
  <2> QED
    BY <2>3 DEF a
<1>8. id \notin Live(store)
  <2> SUFFICES ASSUME id \in Live(store) PROVE FALSE
    OBVIOUS
  <2>1. store.heap_region[id] \in 1 .. Len(heap)
    BY <1>1 DEF StoreHolds, IsStore, Live
  <2>2. heap[store.heap_region[id]].live /\ heap[store.heap_region[id]].sessionId = id
    BY <1>1 DEF StoreHolds
  <2> QED
    BY <2>1, <2>2
<1>9. ImplantAccepted(store, id) /\ ~ ImplantOverruns(store, id)
  <2>1. expand_storage_if_required(store).allocated_slots >= store.allocated_slots
    BY <1>3, ExpansionKeeps
  <2>2. expand_storage_if_required(store).allocated_slots \in Nat
    BY <1>3, ExpansionKeeps DEF IsStore
  <2> DEFINE e == expand_storage_if_required(store).allocated_slots
             a == store.allocated_slots
  <2>3. e >= a /\ e \in Nat /\ a \in Nat /\ id < a
    BY <1>4, <1>7, <2>1, <2>2
  <2>4. ImplantAccepted(store, id) <=> id <= a
    BY DEF ImplantAccepted
  <2>5. ImplantOverruns(store, id) => id >= e
    BY DEF ImplantOverruns
  <2> HIDE DEF e, a
  <2> QED
    BY <1>5, <2>3, <2>4, <2>5
<1>10. n \in 1 .. n /\ n # Null
  BY <1>2, <1>6
<1>11. /\ IsStore(t, 1 .. n)
       /\ Live(t) = Live(store) \cup {id}
       /\ t.heap_region[id] = n
       /\ \A i \in Live(store) \ {id} : t.heap_region[i] = store.heap_region[i]
  BY <1>3, <1>5, <1>9, <1>10, ImplantWritesOneSlot
<1>12. t.floor_threshold >= Starter /\ t.allocated_slots >= Starter
  BY <1>3, <1>4, <1>6, StoreKeepsRoom
<1> QED
  BY <1>5, <1>7, <1>8, <1>11, <1>12

LEMMA NameLengthTyped ==
  ASSUME Typed, NEW p \in Players
  PROVE  NameLength(p) \in Nat
<1>1. CASE Len(toServer[p]) >= 4
  <2>1. toServer[p] \in Seq(Nat) /\ 1 + 3 <= Len(toServer[p])
    BY <1>1 DEF Typed
  <2>2. Number(SubSeq(toServer[p], 1, 1 + 3)) \in Nat
    BY <2>1, FourBytes
  <2> QED
    BY <1>1, <2>2 DEF NameLength, IntAt
<1>2. CASE ~ (Len(toServer[p]) >= 4)
  BY <1>2 DEF NameLength
<1> QED
  BY <1>1, <1>2

LEMMA CreateSession_Inv ==
  ASSUME ServerInv, NEW p \in Players, CreateSession(p)
  PROVE  /\ ServerInv' /\ streamLock' = streamLock /\ At(p, "naming")
         /\ thread'[p].pc = "loop" /\ Len(heap') = Len(heap) + 1
         /\ heap'[Len(heap) + 1].live /\ heap'[Len(heap) + 1].participantPrimary = p
         /\ \A s \in 1 .. Len(heap) : heap'[s] = heap[s]
         /\ \A q \in Players : q # p => thread'[q] = thread[q] /\ node'[q] = node[q]
<1> DEFINE id == thread[p].target
           n == Len(heap) + 1
           new == [participantPrimary |-> p, participantSecondary |-> Null, sessionId |-> id, live |-> TRUE]
           store == activeMatchSessions
<1>0. /\ UNCHANGED idVars /\ UNCHANGED <<streamLock, link>> /\ At(p, "naming")
      /\ Receives(p, 4 + NameLength(p))
      /\ heap' = Append(heap, new)
      /\ activeMatchSessions' = implant_at_offset(store, id, n)
      /\ node' = [node EXCEPT ![p].activeSessionId = id, ![p].timeoutTicks = 0]
      /\ thread' = [thread EXCEPT ![p] = [InLoop EXCEPT !.opcode = thread[p].opcode]]
  BY DEF CreateSession
<1>1. Typed /\ IdInv /\ StoreHolds /\ IdsAreApart /\ HostsAreBound
  BY DEF ServerInv
<1>2. Len(heap) \in Nat /\ heap \in Seq(SessionRecord)
  BY <1>1, LenProperties DEF Typed
<1>3. /\ id \in held
      /\ \A s \in 1 .. Len(heap) : heap[s].live => heap[s].sessionId # id
      /\ \A q \in Players : At(q, "naming") /\ q # p => thread[q].target # id
  BY <1>0, <1>1 DEF IdsAreApart
<1>4. id \in Nat /\ id # NoId
  <2>1. id \in Nat
    BY <1>1, <1>3 DEF IdInv, IdTypeOK
  <2> QED
    BY <2>1 DEF NoId
<1>5. /\ IsStore(store', 1 .. n)
      /\ store'.floor_threshold >= Starter /\ store'.allocated_slots >= Starter
      /\ Live(store') = Live(store) \cup {id} /\ id \notin Live(store)
      /\ store'.heap_region[id] = n
      /\ \A i \in Live(store) : store'.heap_region[i] = store.heap_region[i]
  BY <1>0, <1>3, Implanted
<1>6. new \in SessionRecord
  BY <1>4 DEF SessionRecord
<1>7. /\ heap' \in Seq(SessionRecord) /\ Len(heap') = n /\ heap'[n] = new
      /\ \A s \in 1 .. Len(heap) : heap'[s] = heap[s]
  <2> HIDE DEF new
  <2> QED
    BY <1>0, <1>2, <1>6, AppendProperties
<1>8. 1 .. n = 1 .. Len(heap) \cup {n}
  BY <1>2
<1>9. /\ thread' \in [Players -> ThreadRecord]
      /\ \A q \in Players : q # p => thread'[q] = thread[q]
      /\ thread'[p].pc = "loop" /\ thread'[p].session = 0
  BY <1>0, <1>1, ReturnsTyped
<1>10. /\ node' \in [Players -> NodeRecord]
       /\ node'[p].activeSessionId = id
       /\ \A q \in Players : q # p => node'[q] = node[q]
  <2>1. node \in [Players -> NodeRecord] /\ node[p] \in NodeRecord
    BY <1>1 DEF Typed
  <2> HIDE DEF id
  <2>2. [node[p] EXCEPT !.activeSessionId = id, !.timeoutTicks = 0] \in NodeRecord
    BY <1>4, <2>1 DEF NodeRecord
  <2> QED
    BY <1>0, <2>1, <2>2 DEF NodeRecord
<1>11. "naming" \in Unattached /\ "naming" \notin Agreed /\ "loop" \notin Unattached \cup Chosen \cup Agreed \cup Final
  BY DEF Unattached, Chosen, Agreed, Final
<1> HIDE DEF id, n, new
<1>12. Typed'
  <2>1. toServer' \in [Players -> Seq(Nat)]
    <3>1. 4 + NameLength(p) \in Nat
      BY <1>1, NameLengthTyped
    <3> QED
      BY <1>0, <1>1, <3>1, StreamsTyped DEF Typed
  <2>2. \A q \in Players : thread'[q].session \in 0 .. Len(heap')
    <3>1. \A q \in Players : thread[q].session \in 0 .. Len(heap)
      BY <1>1 DEF Typed
    <3>2. n \in Nat /\ Len(heap) < n
      BY <1>2 DEF n
    <3> QED
      BY <1>2, <1>7, <1>9, <3>1, <3>2
  <2>3. \A q \in Players : At(q, "discardName")' => thread'[q].target \in Nat
    BY <1>1, <1>9 DEF Typed, At
  <2>4. streamLock' = streamLock /\ link' = link
    BY <1>0
  <2> QED
    BY <1>1, <1>7, <1>9, <1>10, <2>1, <2>2, <2>3, <2>4 DEF Typed
<1>13. IdInv'
  BY <1>0, <1>1, IdNext_IdInv
<1>14. StoreHolds'
  <2>1. ASSUME NEW i \in Live(store')
        PROVE  heap'[store'.heap_region[i]].live /\ heap'[store'.heap_region[i]].sessionId = i
    <3>1. CASE i = id
      BY <1>5, <1>7, <3>1 DEF new
    <3>2. CASE i # id
      <4>1. i \in Live(store) /\ store'.heap_region[i] = store.heap_region[i]
        BY <1>5, <2>1, <3>2
      <4>2. store.heap_region[i] \in 1 .. Len(heap)
        BY <1>1, <4>1 DEF StoreHolds, IsStore, Live
      <4> QED
        BY <1>1, <1>7, <4>1, <4>2 DEF StoreHolds
    <3> QED
      BY <3>1, <3>2
  <2>2. ASSUME NEW s \in 1 .. n, heap'[s].live
        PROVE  heap'[s].sessionId \in Live(store') /\ store'.heap_region[heap'[s].sessionId] = s
    <3>1. CASE s = n
      BY <1>5, <1>7, <3>1 DEF new
    <3>2. CASE s \in 1 .. Len(heap)
      BY <1>1, <1>5, <1>7, <2>2, <3>2 DEF StoreHolds
    <3> QED
      BY <1>8, <3>1, <3>2
  <2> QED
    BY <1>5, <1>7, <2>1, <2>2 DEF StoreHolds
<1>15. IdsAreApart'
  <2>1. held' = held /\ current_highest_id' = current_highest_id
    BY <1>0 DEF idVars
  <2>2. \A s \in 1 .. n : heap'[s].live => heap'[s].sessionId \in held
    BY <1>1, <1>3, <1>7, <1>8 DEF IdsAreApart, new
  <2>3. ASSUME NEW q \in Players, At(q, "naming")'
        PROVE  /\ thread'[q].target \in held
               /\ \A s \in 1 .. n : heap'[s].live => thread'[q].target # heap'[s].sessionId
               /\ \A r \in Players : At(r, "naming")' /\ r # q => thread'[q].target # thread'[r].target
    <3>1. \A r \in Players : At(r, "naming")' => r # p /\ thread'[r] = thread[r] /\ At(r, "naming")
      BY <1>9 DEF At
    <3>2. /\ thread[q].target \in held /\ thread[q].target # id
          /\ \A s \in 1 .. Len(heap) : heap[s].live => thread[q].target # heap[s].sessionId
          /\ \A r \in Players : At(r, "naming") /\ r # q => thread[q].target # thread[r].target
      BY <1>1, <1>3, <2>3, <3>1 DEF IdsAreApart
    <3>3. \A s \in 1 .. n : heap'[s].live => thread[q].target # heap'[s].sessionId
      BY <1>7, <1>8, <3>2 DEF new
    <3> QED
      BY <2>3, <3>1, <3>2, <3>3
  <2> QED
    BY <1>1, <1>7, <2>1, <2>2, <2>3 DEF IdsAreApart
<1>16. HostsAreBound'
  <2> SUFFICES ASSUME NEW s \in 1 .. n, heap'[s].live,
                      NEW h, h = heap'[s].participantPrimary,
                      NEW g, g = heap'[s].participantSecondary
               PROVE  /\ node'[h].activeSessionId = heap'[s].sessionId
                      /\ thread'[h].pc \notin Unattached \cup Agreed \cup Final
                      /\ g # Null => thread'[g].pc \in Agreed /\ thread'[g].session = s
    BY <1>7 DEF HostsAreBound
  <2>1. CASE s = n
    <3>1. h = p /\ g = Null /\ heap'[s].sessionId = id
      BY <1>7, <2>1 DEF new
    <3> QED
      BY <1>9, <1>10, <1>11, <3>1
  <2>2. CASE s \in 1 .. Len(heap)
    <3>1. heap'[s] = heap[s]
      BY <1>7, <2>2
    <3>2. h \in Players /\ (g \in Players \/ g = Null)
      BY <1>1, <2>2, <3>1, SessionFields
    <3>3. /\ node[h].activeSessionId = heap[s].sessionId
          /\ thread[h].pc \notin Unattached \cup Agreed \cup Final
          /\ g # Null => thread[g].pc \in Agreed /\ thread[g].session = s
      BY <1>1, <2>2, <3>1 DEF HostsAreBound
    <3>4. h # p /\ (g # Null => g # p)
      BY <1>0, <1>11, <3>3 DEF At
    <3> QED
      BY <1>9, <1>10, <3>1, <3>2, <3>3, <3>4
  <2> QED
    BY <1>8, <2>1, <2>2
<1>17. ASSUME NEW q \in Players PROVE (UnattachedIsUnbound(q) /\ GuestHasSession(q))'
  <2>1. UnattachedIsUnbound(q) /\ GuestHasSession(q)
    BY DEF ServerInv
  <2>2. CASE q # p
    <3>1. thread'[q] = thread[q] /\ node'[q] = node[q]
      BY <1>9, <1>10, <2>2
    <3>2. GuestHasSession(q)'
      BY <1>7, <3>1, GuestKept
    <3> QED
      BY <2>1, <3>1, <3>2 DEF UnattachedIsUnbound
  <2>3. CASE q = p
    BY <1>9, <1>11, <2>3 DEF UnattachedIsUnbound, GuestHasSession
  <2> QED
    BY <2>2, <2>3
<1>18. ServerInv'
  BY <1>12, <1>13, <1>14, <1>15, <1>16, <1>17 DEF ServerInv
<1> QED
  BY <1>0, <1>7, <1>9, <1>10, <1>18 DEF n, new

\* A creation that fails lets its identifier go.
LEMMA CreateFails_Inv ==
  ASSUME ServerInv, NEW p \in Players, CreateFails(p)
  PROVE  ServerInv'
<1> DEFINE id == thread[p].target
<1>0. /\ UNCHANGED <<activeMatchSessions, heap, node, streamLock, link>>
      /\ At(p, "naming") /\ ForgetId(id) /\ Goes(p, "exited")
  BY DEF CreateFails
<1>00. heap' = heap /\ node' = node /\ activeMatchSessions' = activeMatchSessions
  BY <1>0
<1>1. Typed /\ IdInv /\ StoreHolds /\ IdsAreApart /\ HostsAreBound
  BY DEF ServerInv
<1>2. /\ id \in held
      /\ \A s \in 1 .. Len(heap) : heap[s].live => heap[s].sessionId # id
      /\ \A q \in Players : At(q, "naming") /\ q # p => thread[q].target # id
  BY <1>0, <1>1 DEF IdsAreApart
<1>3. "exited" \in States /\ "exited" # "discardName"
  BY DEF States
<1>4. /\ thread' \in [Players -> ThreadRecord]
      /\ \A q \in Players : q # p => thread'[q] = thread[q]
      /\ thread'[p].pc = "exited" /\ thread'[p].session \in 0 .. Len(heap)
  BY <1>0, <1>1, <1>3, GoesTyped
<1>5. "naming" \in Unattached /\ "naming" \notin Agreed /\ "exited" \notin Unattached \cup Chosen \cup Agreed \cup {"naming"}
  BY DEF Unattached, Chosen, Agreed
<1> HIDE DEF id
<1>6. Typed'
  <2>1. PICK n \in Nat : Receives(p, n) \/ Starves(p, n)
    <3>1. 4 + NameLength(p) \in Nat
      BY <1>1, NameLengthTyped
    <3> QED
      BY <3>1 DEF CreateFails
  <2>2. toServer' \in [Players -> Seq(Nat)]
    BY <1>1, <2>1, StreamsTyped DEF Typed
  <2>3. /\ node' \in [Players -> NodeRecord] /\ streamLock' \in [Players -> Players \cup {Null}]
        /\ link' \in [Players -> {"open", "closed"}] /\ thread'[p].pc # "discardName"
    BY <1>0, <1>1, <1>3, <1>4 DEF Typed
  <2> QED
    BY <1>00, <1>1, <1>4, <2>2, <2>3, StepTyped
<1>7. IdInv'
  BY <1>0, <1>1, <1>2, Forget_IdInv
<1>8. StoreHolds'
  BY <1>00, <1>1 DEF StoreHolds
<1>9. IdsAreApart'
  <2>1. held' = held \ {id} /\ current_highest_id' = current_highest_id
    BY <1>0 DEF ForgetId
  <2>2. \A s \in 1 .. Len(heap) : heap[s].live => heap[s].sessionId \in held'
    BY <1>1, <1>2, <2>1 DEF IdsAreApart
  <2>3. ASSUME NEW q \in Players, At(q, "naming")'
        PROVE  /\ thread'[q].target \in held'
               /\ \A s \in 1 .. Len(heap) : heap[s].live => thread'[q].target # heap[s].sessionId
               /\ \A r \in Players : At(r, "naming")' /\ r # q => thread'[q].target # thread'[r].target
    <3>1. \A r \in Players : At(r, "naming")' => r # p /\ thread'[r] = thread[r] /\ At(r, "naming")
      BY <1>4, <1>5 DEF At
    <3>2. /\ thread[q].target \in held /\ thread[q].target # id
          /\ \A s \in 1 .. Len(heap) : heap[s].live => thread[q].target # heap[s].sessionId
          /\ \A r \in Players : At(r, "naming") /\ r # q => thread[q].target # thread[r].target
      BY <1>1, <1>2, <2>3, <3>1 DEF IdsAreApart
    <3> QED
      BY <2>1, <2>3, <3>1, <3>2
  <2> QED
    BY <1>00, <1>1, <2>1, <2>2, <2>3 DEF IdsAreApart
<1>10. HostsAreBound'
  <2>1. thread[p].pc \in Unattached
    BY <1>0, <1>5 DEF At
  <2> QED
    BY <1>00, <1>4, <2>1, HostsKept
<1>11. ASSUME NEW q \in Players PROVE (UnattachedIsUnbound(q) /\ GuestHasSession(q))'
  <2>1. UnattachedIsUnbound(q) /\ GuestHasSession(q)
    BY DEF ServerInv
  <2>2. CASE q # p
    BY <1>00, <1>4, <2>1, <2>2 DEF UnattachedIsUnbound, GuestHasSession, Mine
  <2>3. CASE q = p
    BY <1>4, <1>5, <2>3 DEF UnattachedIsUnbound, GuestHasSession
  <2> QED
    BY <2>2, <2>3
<1> QED
  BY <1>6, <1>7, <1>8, <1>9, <1>10, <1>11 DEF ServerInv

\* The session of a slot.
LEMMA Fetched ==
  ASSUME ServerInv, NEW id \in Nat, NEW s, s = fetch_from_offset(activeMatchSessions, id), s # Null
  PROVE  /\ s \in 1 .. Len(heap) /\ id \in Live(activeMatchSessions)
         /\ heap[s].live /\ heap[s].sessionId = id
<1>1. StoreHolds /\ IsStore(activeMatchSessions, 1 .. Len(heap))
  BY DEF ServerInv, StoreHolds
<1>2. id \in Live(activeMatchSessions) /\ s = activeMatchSessions.heap_region[id] /\ s \in 1 .. Len(heap)
  BY <1>1 DEF fetch_from_offset, IsStore, Live, Offsets
<1> QED
  BY <1>1, <1>2 DEF StoreHolds

\* A session is found, with a host that is somebody else.
LEMMA ReadJoinFound_Inv ==
  ASSUME ServerInv, NEW p \in Players, ReadJoin(p), ~ Returns(p)
  PROVE  /\ ServerInv' /\ UNCHANGED <<sessions, streamLock, node>>
         /\ \A q \in Players : q # p => thread'[q] = thread[q]
         /\ thread'[p].pc = "challenge"
<1> DEFINE id == toServer[p][1] * 256 + toServer[p][2]
           s == fetch_from_offset(activeMatchSessions, id)
           m == heap[s].participantPrimary
<1>0. /\ UNCHANGED sessions /\ streamLock' = streamLock /\ link' = link /\ node' = node
      /\ At(p, "join") /\ JoinLength(p) > 0 /\ Receives(p, 6 + JoinLength(p)) /\ s # Null
      /\ thread' = [thread EXCEPT ![p].pc = "challenge", ![p].target = id,
                                  ![p].session = s, ![p].master = m]
  BY DEF ReadJoin
<1>1. Typed /\ IdInv /\ StoreHolds /\ IdsAreApart /\ HostsAreBound
  BY DEF ServerInv
<1>2. id \in Nat
  <2>1. toServer[p] \in Seq(Nat) /\ Len(toServer[p]) >= 6
    BY <1>0, <1>1 DEF Typed, JoinLength
  <2>2. toServer[p][1] \in Nat /\ toServer[p][2] \in Nat
    BY <2>1
  <2> QED
    BY <2>2, Carried
<1> HIDE DEF id
<1>3. s \in 1 .. Len(heap) /\ heap[s].live /\ heap[s].sessionId = id
  BY <1>0, <1>2, Fetched
<1> HIDE DEF s
<1>4. m \in Players /\ m # p
  <2>1. thread[m].pc \notin Unattached
    BY <1>1, <1>3 DEF HostsAreBound
  <2> QED
    BY <1>0, <1>1, <1>3, <2>1, SessionFields DEF At, Unattached
<1> HIDE DEF m
<1>5. Len(heap) \in Nat /\ s \in Nat /\ s # 0 /\ s \in 0 .. Len(heap)
  <2>1. Len(heap) \in Nat
    BY <1>1, LenProperties DEF Typed
  <2> QED
    BY <1>3, <2>1
<1>6. /\ thread' \in [Players -> ThreadRecord]
      /\ \A q \in Players : q # p => thread'[q] = thread[q]
      /\ thread'[p].pc = "challenge" /\ thread'[p].target = id
      /\ thread'[p].session = s /\ thread'[p].master = m
  <2>1. thread \in [Players -> ThreadRecord] /\ thread[p] \in ThreadRecord
    BY <1>1 DEF Typed
  <2>2. [thread[p] EXCEPT !.pc = "challenge", !.target = id, !.session = s, !.master = m] \in ThreadRecord
    BY <1>2, <1>4, <1>5, <2>1 DEF ThreadRecord, States
  <2> QED
    BY <1>0, <2>1, <2>2 DEF ThreadRecord
<1>7. /\ "join" \in Unattached /\ "challenge" \in Unattached /\ "join" \notin Agreed /\ "challenge" \notin Agreed
      /\ "challenge" # "discardName" /\ "challenge" # "naming"
  BY DEF Unattached, Agreed
<1>8. heap' = heap /\ activeMatchSessions' = activeMatchSessions /\ UNCHANGED idVars
  BY <1>0 DEF sessions
<1>9. Typed'
  <2>1. toServer' \in [Players -> Seq(Nat)]
    <3>1. 6 + JoinLength(p) \in Nat
      BY <1>1, JoinLengthTyped
    <3> QED
      BY <1>0, <1>1, <3>1, StreamsTyped DEF Typed
  <2>2. /\ node' \in [Players -> NodeRecord] /\ streamLock' \in [Players -> Players \cup {Null}]
        /\ link' \in [Players -> {"open", "closed"}]
    BY <1>0, <1>1 DEF Typed
  <2> QED
    BY <1>1, <1>5, <1>6, <1>7, <1>8, <2>1, <2>2, StepTyped
<1>10. IdInv'
  BY <1>1, <1>8, IdNext_IdInv
<1>11. StoreHolds'
  BY <1>1, <1>8 DEF StoreHolds
<1>12. IdsAreApart'
  <2>1. \A q \in Players : At(q, "naming")' => At(q, "naming") /\ thread'[q] = thread[q]
    BY <1>6, <1>7 DEF At
  <2> QED
    BY <1>1, <1>8, <2>1, IdsKept
<1>13. HostsAreBound'
  <2>1. thread[p].pc \in Unattached
    BY <1>0, <1>7 DEF At
  <2>2. heap' = heap /\ node' = node
    BY <1>0, <1>8
  <2> QED
    BY <1>6, <2>1, <2>2, HostsKept
<1>14. ASSUME NEW q \in Players PROVE (UnattachedIsUnbound(q) /\ GuestHasSession(q))'
  <2>1. UnattachedIsUnbound(q) /\ GuestHasSession(q)
    BY DEF ServerInv
  <2>2. CASE q # p
    BY <1>0, <1>6, <1>8, <2>1, <2>2 DEF UnattachedIsUnbound, GuestHasSession, Mine
  <2>3. CASE q = p
    <3>1. UnattachedIsUnbound(q)'
      BY <1>0, <1>7, <2>1, <2>3 DEF UnattachedIsUnbound, At
    <3>2. Mine(p)' = heap[s]
      BY <1>6, <1>8 DEF Mine
    <3>3. GuestHasSession(q)'
      BY <1>3, <1>4, <1>5, <1>6, <1>7, <2>3, <3>2 DEF GuestHasSession, m
    <3> QED
      BY <3>1, <3>3
  <2> QED
    BY <2>2, <2>3
<1> QED
  BY <1>0, <1>6, <1>9, <1>10, <1>11, <1>12, <1>13, <1>14 DEF ServerInv

\* The store, when sessions neither end nor begin.
LEMMA StoreKept ==
  ASSUME StoreHolds, activeMatchSessions' = activeMatchSessions, Len(heap') = Len(heap),
         \A s \in 1 .. Len(heap) : heap'[s].live = heap[s].live /\ heap'[s].sessionId = heap[s].sessionId
  PROVE  StoreHolds'
<1>1. \A i \in Live(activeMatchSessions) : activeMatchSessions.heap_region[i] \in 1 .. Len(heap)
  BY DEF StoreHolds, IsStore, Live
<1>2. \A i \in Live(activeMatchSessions) :
        LET s == activeMatchSessions.heap_region[i]
        IN heap'[s].live /\ heap'[s].sessionId = i
  BY <1>1 DEF StoreHolds
<1> QED
  BY <1>2 DEF StoreHolds

\* Two live sessions of one host are one.
LEMMA OneSessionEach ==
  ASSUME ServerInv, NEW r \in 1 .. Len(heap), NEW s \in 1 .. Len(heap), heap[r].live, heap[s].live,
         \/ heap[r].participantPrimary = heap[s].participantPrimary
         \/ heap[r].sessionId = heap[s].sessionId
  PROVE  r = s
<1>1. heap[r].sessionId = heap[s].sessionId
  BY DEF ServerInv, HostsAreBound
<1> QED
  BY <1>1 DEF ServerInv, StoreHolds

\* The session of a thread that uses no freed memory is alive.
LEMMA Alive ==
  ASSUME ServerInv, NEW p \in Players, ~ UsesFreedMemory(p), Approved(p)
  PROVE  thread[p].session \in 1 .. Len(heap) /\ Mine(p).live
<1>1. thread[p].session \in SessionsUsed(p)
  BY DEF Approved, Agreed, SessionsUsed
<1>2. Mine(p).live
  BY <1>1 DEF UsesFreedMemory, Mine
<1>3. thread[p].pc \in Chosen /\ GuestHasSession(p) /\ Typed
  BY Places DEF Approved, At, Chosen, ServerInv
<1>4. thread[p].session # 0 /\ thread[p].session \in 0 .. Len(heap) /\ Len(heap) \in Nat
  BY <1>3, LenProperties DEF GuestHasSession, Typed
<1> QED
  BY <1>2, <1>4

\* The host has accepted: the guest enters the session, and both are bound to it.
LEMMA RelayApproved_Inv ==
  ASSUME ServerInv, NEW p \in Players, ~ UsesFreedMemory(p), RelayVerdict(p), Approves(thread[p].verdict)
  PROVE  LET s == thread[p].session
             m == thread[p].master
         IN /\ ServerInv' /\ streamLock' = streamLock /\ At(p, "relay")
            /\ s \in 1 .. Len(heap) /\ heap[s].live /\ m = heap[s].participantPrimary
            /\ thread'[p].pc = "lockPrimary" /\ thread'[p].session = s /\ thread'[p].master = m
            /\ Len(heap') = Len(heap)
            /\ heap'[s].participantSecondary = p
            /\ \A r \in 1 .. Len(heap) : /\ heap'[r].live = heap[r].live
                                         /\ heap'[r].sessionId = heap[r].sessionId
                                         /\ heap'[r].participantPrimary = heap[r].participantPrimary
                                         /\ r # s => heap'[r] = heap[r]
            /\ \A q \in Players : /\ q # p => thread'[q] = thread[q]
                                  /\ node'[q].live = node[q].live
                                  /\ q \notin {p, m} => node'[q].activeSessionId = node[q].activeSessionId
            /\ node'[p].activeSessionId = heap[s].sessionId
<1> DEFINE s == thread[p].session
           m == thread[p].master
           id == thread[p].target
           joined == [heap[s] EXCEPT !.participantSecondary = p]
<1>0. /\ UNCHANGED idVars /\ activeMatchSessions' = activeMatchSessions
      /\ UNCHANGED <<streamLock, link, toServer>>
      /\ At(p, "relay") /\ Goes(p, "lockPrimary")
      /\ heap' = [heap EXCEPT ![s].participantSecondary = p]
      /\ node' = [node EXCEPT ![p].activeSessionId = id, ![m].activeSessionId = id, ![m].timeoutTicks = 1]
  BY DEF RelayVerdict
<1>1. Typed /\ IdInv /\ StoreHolds /\ IdsAreApart /\ HostsAreBound
  BY DEF ServerInv
<1>2. s \in 1 .. Len(heap) /\ heap[s].live
  BY <1>0, Alive DEF Approved, Mine
<1>3. m = heap[s].participantPrimary /\ m \in Players /\ m # p /\ id = heap[s].sessionId /\ id \in Nat
  <2>1. GuestHasSession(p) /\ "relay" \in Chosen
    BY DEF ServerInv, Chosen
  <2> QED
    BY <1>0, <1>1, <1>2, <2>1, SessionFields DEF GuestHasSession, Mine, At
<1>4. "lockPrimary" \in States /\ "lockPrimary" # "discardName"
  BY DEF States
<1>5. /\ thread' \in [Players -> ThreadRecord]
      /\ \A q \in Players : q # p => thread'[q] = thread[q]
      /\ thread'[p].pc = "lockPrimary" /\ thread'[p].session = s
      /\ thread'[p].master = m /\ thread'[p].target = id
  BY <1>0, <1>1, <1>4, GoesTyped
<1>6. /\ "relay" \in Unattached /\ "relay" \notin Agreed /\ "lockPrimary" \in Agreed /\ "lockPrimary" \in Chosen
      /\ "lockPrimary" \notin Unattached
  BY DEF Unattached, Chosen, Agreed
<1>7. heap \in Seq(SessionRecord) /\ heap[s] \in SessionRecord /\ Len(heap) \in Nat
  BY <1>1, <1>2, LenProperties DEF Typed
<1>8. /\ joined \in SessionRecord
      /\ joined.participantSecondary = p /\ joined.participantPrimary = m
      /\ joined.sessionId = id /\ joined.live = heap[s].live
  BY <1>3, <1>7 DEF SessionRecord
<1>9. /\ heap' \in Seq(SessionRecord) /\ Len(heap') = Len(heap)
      /\ \A r \in 1 .. Len(heap) : heap'[r] = IF r = s THEN joined ELSE heap[r]
  <2>1. heap' = [heap EXCEPT ![s] = joined]
    BY <1>0
  <2> HIDE DEF joined
  <2> QED
    BY <1>2, <1>7, <1>8, <2>1, ExceptSeq
<1> HIDE DEF joined
<1>10. \A r \in 1 .. Len(heap) : /\ heap'[r].live = heap[r].live
                                 /\ heap'[r].sessionId = heap[r].sessionId
                                 /\ heap'[r].participantPrimary = heap[r].participantPrimary
  BY <1>3, <1>8, <1>9
<1>11. /\ node' \in [Players -> NodeRecord]
       /\ node'[p].activeSessionId = id /\ node'[m].activeSessionId = id
       /\ node'[p].live = node[p].live /\ node'[m].live = node[m].live
       /\ \A q \in Players \ {p, m} : node'[q] = node[q]
  <2>1. node \in [Players -> NodeRecord] /\ node[p] \in NodeRecord /\ node[m] \in NodeRecord
    BY <1>1, <1>3 DEF Typed
  <2> HIDE DEF id, m
  <2>2. /\ [node[p] EXCEPT !.activeSessionId = id] \in NodeRecord
        /\ [node[m] EXCEPT !.activeSessionId = id, !.timeoutTicks = 1] \in NodeRecord
    BY <1>3, <2>1 DEF NodeRecord
  <2>3. /\ node'[p] = [node[p] EXCEPT !.activeSessionId = id]
        /\ node'[m] = [node[m] EXCEPT !.activeSessionId = id, !.timeoutTicks = 1]
        /\ \A q \in Players \ {p, m} : node'[q] = node[q]
        /\ node' = [q \in Players |-> node'[q]]
    BY <1>0, <1>3, <2>1
  <2>4. node' \in [Players -> NodeRecord]
    BY <2>1, <2>2, <2>3
  <2> QED
    BY <2>1, <2>3, <2>4 DEF NodeRecord
<1> HIDE DEF s, m, id
<1>12. Typed'
  <2>1. \A q \in Players : thread'[q].session \in 0 .. Len(heap')
    BY <1>1, <1>5, <1>9 DEF Typed, s
  <2>2. \A q \in Players : At(q, "discardName")' => thread'[q].target \in Nat
    BY <1>1, <1>4, <1>5 DEF Typed, At
  <2>3. streamLock' = streamLock /\ link' = link /\ toServer' = toServer
    BY <1>0
  <2> QED
    BY <1>1, <1>5, <1>9, <1>11, <2>1, <2>2, <2>3 DEF Typed
<1>13. IdInv'
  BY <1>0, <1>1, IdNext_IdInv
<1>14. StoreHolds'
  BY <1>0, <1>1, <1>9, <1>10, StoreKept
<1>15. IdsAreApart'
  <2>1. \A q \in Players : At(q, "naming")' => At(q, "naming") /\ thread'[q] = thread[q]
    BY <1>5 DEF At
  <2> QED
    BY <1>0, <1>1, <1>9, <1>10, <2>1, IdsKept
<1>16. HostsAreBound'
  <2> SUFFICES ASSUME NEW r \in 1 .. Len(heap), heap'[r].live,
                      NEW h, h = heap'[r].participantPrimary,
                      NEW g, g = heap'[r].participantSecondary
               PROVE  /\ node'[h].activeSessionId = heap'[r].sessionId
                      /\ thread'[h].pc \notin Unattached \cup Agreed \cup Final
                      /\ g # Null => thread'[g].pc \in Agreed /\ thread'[g].session = r
    BY <1>9 DEF HostsAreBound
  <2>1. heap[r].live /\ h = heap[r].participantPrimary /\ heap'[r].sessionId = heap[r].sessionId /\ h \in Players
    BY <1>1, <1>10, SessionFields
  <2>2. /\ node[h].activeSessionId = heap[r].sessionId
        /\ thread[h].pc \notin Unattached \cup Agreed \cup Final
        /\ heap[r].participantSecondary # Null =>
             /\ thread[heap[r].participantSecondary].pc \in Agreed
             /\ thread[heap[r].participantSecondary].session = r
    BY <1>1, <2>1 DEF HostsAreBound
  <2>3. h # p
    BY <1>0, <1>6, <2>2 DEF At
  <2>4. thread'[h].pc \notin Unattached \cup Agreed \cup Final
    BY <1>5, <2>1, <2>2, <2>3
  <2>5. CASE r = s
    <3>1. h = m /\ g = p /\ heap'[r].sessionId = id
      BY <1>3, <1>8, <1>9, <2>1, <2>5
    <3> QED
      BY <1>5, <1>6, <1>11, <2>4, <2>5, <3>1
  <2>6. CASE r # s
    <3>1. h # m
      BY <1>2, <1>3, <2>1, <2>6, OneSessionEach
    <3>2. g = heap[r].participantSecondary /\ (g \in Players \/ g = Null)
      BY <1>1, <1>9, <2>6, SessionFields
    <3>3. g # Null => g # p
      BY <1>0, <1>6, <2>2, <3>2 DEF At
    <3>4. node'[h] = node[h]
      BY <1>11, <2>1, <2>3, <3>1
    <3>5. g # Null => thread'[g].pc \in Agreed /\ thread'[g].session = r
      BY <1>5, <2>2, <3>2, <3>3
    <3> QED
      BY <2>1, <2>2, <2>4, <3>4, <3>5
  <2> QED
    BY <2>5, <2>6
<1>17. ASSUME NEW q \in Players PROVE (UnattachedIsUnbound(q) /\ GuestHasSession(q))'
  <2>1. UnattachedIsUnbound(q) /\ GuestHasSession(q)
    BY DEF ServerInv
  <2>2. CASE q # p
    <3>1. thread'[q] = thread[q]
      BY <1>5, <2>2
    <3>2. \A r \in 1 .. Len(heap) :
            \/ heap'[r].participantSecondary = heap[r].participantSecondary
            \/ heap'[r].participantSecondary \in Players \ {heap[r].participantPrimary}
      BY <1>3, <1>8, <1>9
    <3>3. GuestHasSession(q)'
      BY <1>10, <3>1, <3>2, GuestKept
    <3>4. UnattachedIsUnbound(q)'
      <4>1. CASE q = m
        <5>1. thread[m].pc \notin Unattached
          BY <1>1, <1>2, <1>3 DEF HostsAreBound
        <5> QED
          BY <3>1, <4>1, <5>1 DEF UnattachedIsUnbound
      <4>2. CASE q # m
        BY <1>11, <2>1, <2>2, <3>1, <4>2 DEF UnattachedIsUnbound
      <4> QED
        BY <4>1, <4>2
    <3> QED
      BY <3>3, <3>4
  <2>3. CASE q = p
    <3>1. UnattachedIsUnbound(q)'
      BY <1>5, <1>6, <2>3 DEF UnattachedIsUnbound
    <3>2. Mine(p)' = joined
      BY <1>2, <1>5, <1>9 DEF Mine
    <3>3. s # 0
      BY <1>2
    <3>4. GuestHasSession(q)'
      BY <1>3, <1>5, <1>6, <1>8, <2>3, <3>2, <3>3 DEF GuestHasSession
    <3> QED
      BY <3>1, <3>4
  <2> QED
    BY <2>2, <2>3
<1>18. ServerInv'
  BY <1>12, <1>13, <1>14, <1>15, <1>16, <1>17 DEF ServerInv
<1>19. \A q \in Players : node'[q].live = node[q].live
  BY <1>11
<1>20. /\ thread[p].session = s /\ thread[p].master = m /\ heap'[s].participantSecondary = p
       /\ \A r \in 1 .. Len(heap) : r # s => heap'[r] = heap[r]
       /\ node'[p].activeSessionId = heap[s].sessionId
  BY <1>2, <1>3, <1>8, <1>9, <1>11 DEF s, m
<1>21. \A q \in Players : q \notin {p, m} => node'[q].activeSessionId = node[q].activeSessionId
  BY <1>11
<1> QED
  BY <1>0, <1>2, <1>3, <1>5, <1>9, <1>10, <1>18, <1>19, <1>20, <1>21

\* A session is freed: its slot is empty, and its identifier was its own.
LEMMA SessionEnds ==
  ASSUME ServerInv, NEW s \in 1 .. Len(heap), heap[s].live, NEW id, id = heap[s].sessionId,
         relinquishSessionIdentifier(id),
         activeMatchSessions' = excise_at_offset(activeMatchSessions, id),
         heap' = [heap EXCEPT ![s].live = FALSE],
         \A q \in Players : At(q, "naming")' => At(q, "naming") /\ thread'[q] = thread[q]
  PROVE  /\ IdInv' /\ StoreHolds' /\ IdsAreApart'
         /\ heap' \in Seq(SessionRecord) /\ Len(heap') = Len(heap)
         /\ \A r \in 1 .. Len(heap) :
              /\ heap'[r].participantPrimary = heap[r].participantPrimary
              /\ heap'[r].participantSecondary = heap[r].participantSecondary
              /\ heap'[r].sessionId = heap[r].sessionId
              /\ heap'[r].live <=> heap[r].live /\ r # s
<1> DEFINE store == activeMatchSessions
           dead == [heap[s] EXCEPT !.live = FALSE]
<1>1. Typed /\ IdInv /\ StoreHolds /\ IdsAreApart
  BY DEF ServerInv
<1>2. heap \in Seq(SessionRecord) /\ heap[s] \in SessionRecord
  BY <1>1 DEF Typed
<1>3. /\ dead \in SessionRecord /\ ~ dead.live
      /\ dead.participantPrimary = heap[s].participantPrimary
      /\ dead.participantSecondary = heap[s].participantSecondary
      /\ dead.sessionId = heap[s].sessionId
  BY <1>2 DEF SessionRecord
<1>4. /\ heap' \in Seq(SessionRecord) /\ Len(heap') = Len(heap)
      /\ \A r \in 1 .. Len(heap) : heap'[r] = IF r = s THEN dead ELSE heap[r]
  <2>1. heap' = [heap EXCEPT ![s] = dead]
    OBVIOUS
  <2>2. dead \in SessionRecord
    BY <1>3
  <2> HIDE DEF dead
  <2>3. /\ [heap EXCEPT ![s] = dead] \in Seq(SessionRecord)
        /\ Len([heap EXCEPT ![s] = dead]) = Len(heap)
        /\ \A r \in 1 .. Len(heap) : [heap EXCEPT ![s] = dead][r] = IF r = s THEN dead ELSE heap[r]
    BY <1>2, <2>2, ExceptSeq
  <2> QED
    BY <2>1, <2>3
<1> HIDE DEF dead
<1>5. \A r \in 1 .. Len(heap) :
        /\ heap'[r].participantPrimary = heap[r].participantPrimary
        /\ heap'[r].participantSecondary = heap[r].participantSecondary
        /\ heap'[r].sessionId = heap[r].sessionId
        /\ heap'[r].live <=> heap[r].live /\ r # s
  BY <1>3, <1>4
<1>6. /\ id \in held /\ id \in Nat /\ id \in Live(store) /\ store.heap_region[id] = s
      /\ held' = held \ {id} /\ current_highest_id' = current_highest_id
  <2>1. id \in held
    BY <1>1 DEF IdsAreApart
  <2>2. id \in Live(store) /\ store.heap_region[id] = s
    BY <1>1 DEF StoreHolds
  <2>3. id \in Nat
    BY <1>1, SessionFields
  <2> QED
    BY <2>1, <2>2, <2>3 DEF relinquishSessionIdentifier
<1>7. IdInv'
  BY <1>1, <1>6, Relinquish_IdInv
<1>8. IsStore(store, 1 .. Len(heap)) /\ ExciseAccepted(store, id)
  BY <1>1, <1>6 DEF StoreHolds, Live, Offsets, IsStore, ExciseAccepted
<1>9. /\ IsStore(store', 1 .. Len(heap)) /\ Live(store') = Live(store) \ {id}
      /\ \A i \in Live(store) \ {id} : store'.heap_region[i] = store.heap_region[i]
  BY <1>6, <1>8, ExciseEmptiesOneSlot
<1>10. store'.floor_threshold >= Starter /\ store'.allocated_slots >= Starter
  BY <1>1, <1>8, StoreKeepsRoom, ServerAssumption DEF StoreHolds
<1>11. StoreHolds'
  <2>1. ASSUME NEW i \in Live(store')
        PROVE  heap'[store'.heap_region[i]].live /\ heap'[store'.heap_region[i]].sessionId = i
    <3>1. i \in Live(store) /\ i # id /\ store'.heap_region[i] = store.heap_region[i]
      BY <1>9
    <3>2. store.heap_region[i] \in 1 .. Len(heap)
      BY <1>8, <3>1 DEF IsStore, Live
    <3>3. heap[store.heap_region[i]].live /\ heap[store.heap_region[i]].sessionId = i
      BY <1>1, <3>1 DEF StoreHolds
    <3> QED
      BY <1>5, <3>1, <3>2, <3>3
  <2>2. ASSUME NEW r \in 1 .. Len(heap), heap'[r].live
        PROVE  heap'[r].sessionId \in Live(store') /\ store'.heap_region[heap'[r].sessionId] = r
    <3>1. heap[r].live /\ r # s /\ heap'[r].sessionId = heap[r].sessionId
      BY <1>5, <2>2
    <3>2. heap[r].sessionId \in Live(store) /\ store.heap_region[heap[r].sessionId] = r
      BY <1>1, <3>1 DEF StoreHolds
    <3> QED
      BY <1>6, <1>9, <3>1, <3>2
  <2> QED
    BY <1>4, <1>9, <1>10, <2>1, <2>2 DEF StoreHolds
<1>12. IdsAreApart'
  <2>1. ASSUME NEW r \in 1 .. Len(heap), heap'[r].live
        PROVE  heap'[r].sessionId \in held'
    <3>1. heap[r].live /\ r # s /\ heap'[r].sessionId = heap[r].sessionId
      BY <1>5, <2>1
    <3>2. heap[r].sessionId # id
      BY <3>1, OneSessionEach
    <3> QED
      BY <1>1, <1>6, <3>1, <3>2 DEF IdsAreApart
  <2>2. ASSUME NEW q \in Players, At(q, "naming")'
        PROVE  /\ thread'[q].target \in held'
               /\ \A r \in 1 .. Len(heap) : heap'[r].live => thread'[q].target # heap'[r].sessionId
               /\ \A r \in Players : At(r, "naming")' /\ r # q => thread'[q].target # thread'[r].target
    <3>1. /\ thread[q].target \in held
          /\ \A r \in 1 .. Len(heap) : heap[r].live => thread[q].target # heap[r].sessionId
          /\ \A r \in Players : At(r, "naming") /\ r # q => thread[q].target # thread[r].target
      BY <1>1, <2>2 DEF IdsAreApart
    <3> QED
      BY <1>5, <1>6, <2>2, <3>1
  <2> QED
    BY <1>1, <1>4, <1>6, <2>1, <2>2 DEF IdsAreApart
<1> QED
  BY <1>4, <1>5, <1>7, <1>11, <1>12

\* A player has gone; the session it created goes with it, if there is one.
LEMMA Purge_Inv ==
  ASSUME ServerInv, NEW p \in Players, Purge(p)
  PROVE  /\ ServerInv'
         /\ UNCHANGED <<node, streamLock>> /\ At(p, "purging")
         /\ \A q \in Players : q # p => thread'[q] = thread[q]
         /\ thread'[p].pc = "gone" /\ Len(heap') = Len(heap)
         /\ \A s \in 1 .. Len(heap) :
              /\ heap'[s].participantPrimary = heap[s].participantPrimary
              /\ heap'[s].participantSecondary = heap[s].participantSecondary
              /\ heap'[s].sessionId = heap[s].sessionId
              /\ heap'[s].live <=> heap[s].live /\ heap[s].participantPrimary # p
<1> DEFINE store == activeMatchSessions
           orphans == {i \in Live(store) : heap[store.heap_region[i]].participantPrimary = p}
<1>0. /\ UNCHANGED <<node, streamLock, link, toServer>> /\ At(p, "purging") /\ Goes(p, "gone")
  BY DEF Purge, network
<1>1. Typed /\ IdInv /\ StoreHolds /\ IdsAreApart /\ HostsAreBound
  BY DEF ServerInv
<1>2. /\ "gone" \in States /\ "gone" # "discardName" /\ "purging" \notin Agreed
      /\ "gone" \notin Unattached \cup Chosen \cup Agreed \cup {"naming"}
  BY DEF States, Unattached, Chosen, Agreed
<1>3. /\ thread' \in [Players -> ThreadRecord]
      /\ \A q \in Players : q # p => thread'[q] = thread[q]
      /\ thread'[p].pc = "gone" /\ thread'[p].session \in 0 .. Len(heap)
  BY <1>0, <1>1, <1>2, GoesTyped
<1>4. \A q \in Players : At(q, "naming")' => At(q, "naming") /\ thread'[q] = thread[q]
  BY <1>2, <1>3 DEF At
\* Whatever p has created is an orphan.
<1>5. ASSUME NEW s \in 1 .. Len(heap), heap[s].live, heap[s].participantPrimary = p
      PROVE  heap[s].sessionId \in orphans /\ store.heap_region[heap[s].sessionId] = s
  BY <1>1, <1>5 DEF StoreHolds
<1>6. /\ IdInv' /\ StoreHolds' /\ IdsAreApart'
      /\ heap' \in Seq(SessionRecord) /\ Len(heap') = Len(heap)
      /\ \A s \in 1 .. Len(heap) :
           /\ heap'[s].participantPrimary = heap[s].participantPrimary
           /\ heap'[s].participantSecondary = heap[s].participantSecondary
           /\ heap'[s].sessionId = heap[s].sessionId
           /\ heap'[s].live <=> heap[s].live /\ heap[s].participantPrimary # p
  <2>1. CASE orphans = {}
    <3>1. UNCHANGED idVars /\ activeMatchSessions' = activeMatchSessions /\ heap' = heap
      BY <2>1 DEF Purge, sessions
    <3>2. \A s \in 1 .. Len(heap) : heap[s].live => heap[s].participantPrimary # p
      BY <1>5, <2>1
    <3>3. IdInv' /\ StoreHolds' /\ IdsAreApart'
      BY <1>1, <1>4, <3>1, IdNext_IdInv, StoreKept, IdsKept
    <3> QED
      BY <1>1, <3>1, <3>2, <3>3 DEF Typed
  <2>2. CASE orphans # {}
    <3>1. PICK i \in orphans :
            LET s == activeMatchSessions.heap_region[i]
            IN /\ relinquishSessionIdentifier(heap[s].sessionId)
               /\ activeMatchSessions' = excise_at_offset(activeMatchSessions, i)
               /\ heap' = [heap EXCEPT ![s].live = FALSE]
      BY <2>2 DEF Purge
    <3> DEFINE s == store.heap_region[i]
    <3>2. s \in 1 .. Len(heap) /\ heap[s].live /\ heap[s].sessionId = i /\ heap[s].participantPrimary = p
      BY <1>1 DEF StoreHolds, IsStore, Live
    <3>3. /\ relinquishSessionIdentifier(heap[s].sessionId)
          /\ activeMatchSessions' = excise_at_offset(activeMatchSessions, heap[s].sessionId)
          /\ heap' = [heap EXCEPT ![s].live = FALSE]
      BY <3>1, <3>2
    <3> HIDE DEF s
    <3>4. /\ IdInv' /\ StoreHolds' /\ IdsAreApart'
          /\ heap' \in Seq(SessionRecord) /\ Len(heap') = Len(heap)
          /\ \A r \in 1 .. Len(heap) :
               /\ heap'[r].participantPrimary = heap[r].participantPrimary
               /\ heap'[r].participantSecondary = heap[r].participantSecondary
               /\ heap'[r].sessionId = heap[r].sessionId
               /\ heap'[r].live <=> heap[r].live /\ r # s
      BY <1>4, <3>2, <3>3, SessionEnds
    <3>5. \A r \in 1 .. Len(heap) : heap[r].live => (heap[r].participantPrimary = p <=> r = s)
      BY <3>2, OneSessionEach
    <3> QED
      BY <3>4, <3>5
  <2> QED
    BY <2>1, <2>2
<1> HIDE DEF orphans
<1>7. Typed'
  <2>1. \A q \in Players : thread'[q].session \in 0 .. Len(heap')
    BY <1>1, <1>3, <1>6 DEF Typed
  <2>2. \A q \in Players : At(q, "discardName")' => thread'[q].target \in Nat
    BY <1>1, <1>2, <1>3 DEF Typed, At
  <2>3. streamLock' = streamLock /\ link' = link /\ toServer' = toServer /\ node' = node
    BY <1>0
  <2> QED
    BY <1>1, <1>3, <1>6, <2>1, <2>2, <2>3 DEF Typed
<1>8. HostsAreBound'
  <2> SUFFICES ASSUME NEW s \in 1 .. Len(heap), heap'[s].live,
                      NEW h, h = heap'[s].participantPrimary,
                      NEW g, g = heap'[s].participantSecondary
               PROVE  /\ node'[h].activeSessionId = heap'[s].sessionId
                      /\ thread'[h].pc \notin Unattached \cup Agreed \cup Final
                      /\ g # Null => thread'[g].pc \in Agreed /\ thread'[g].session = s
    BY <1>6 DEF HostsAreBound
  <2>1. /\ heap[s].live /\ h = heap[s].participantPrimary /\ g = heap[s].participantSecondary
        /\ heap'[s].sessionId = heap[s].sessionId /\ h # p
    BY <1>6
  <2>2. h \in Players /\ (g \in Players \/ g = Null)
    BY <1>1, <2>1, SessionFields
  <2>3. /\ node[h].activeSessionId = heap[s].sessionId
        /\ thread[h].pc \notin Unattached \cup Agreed \cup Final
        /\ g # Null => thread[g].pc \in Agreed /\ thread[g].session = s
    BY <1>1, <2>1 DEF HostsAreBound
  <2>4. g # Null => g # p
    BY <1>0, <1>2, <2>3 DEF At
  <2>5. node' = node
    BY <1>0
  <2> QED
    BY <1>3, <2>1, <2>2, <2>3, <2>4, <2>5
<1>9. ASSUME NEW q \in Players PROVE (UnattachedIsUnbound(q) /\ GuestHasSession(q))'
  <2>1. UnattachedIsUnbound(q)
    BY DEF ServerInv
  <2>2. CASE q # p
    <3>1. thread'[q] = thread[q] /\ node' = node
      BY <1>0, <1>3, <2>2
    <3>2. GuestHasSession(q)'
      BY <1>6, <3>1, GuestKept
    <3> QED
      BY <2>1, <3>1, <3>2 DEF UnattachedIsUnbound
  <2>3. CASE q = p
    BY <1>2, <1>3, <2>3 DEF UnattachedIsUnbound, GuestHasSession
  <2> QED
    BY <2>2, <2>3
<1> QED
  BY <1>0, <1>3, <1>6, <1>7, <1>8, <1>9 DEF ServerInv

\* A match ends: its session is freed, and its players unbound and unlocked.
LEMMA EndMatch_Inv ==
  ASSUME ServerInv, NEW p \in Players, ~ UsesFreedMemory(p), EndMatch(p)
  PROVE  /\ ServerInv' /\ At(p, "ending")
         /\ streamLock' = [q \in Players |-> IF q \in NodesOf(Mine(p)) THEN Null ELSE streamLock[q]]
         /\ \A q \in Players : q # p => thread'[q] = thread[q]
         /\ thread'[p].pc = "loop" /\ Len(heap') = Len(heap)
         /\ \A q \in Players :
              /\ node'[q].activeSessionId = IF q \in NodesOf(Mine(p)) THEN NoId ELSE node[q].activeSessionId
              /\ node'[q].live = node[q].live
         /\ \A r \in 1 .. Len(heap) :
              /\ heap'[r].participantPrimary = heap[r].participantPrimary
              /\ heap'[r].participantSecondary = heap[r].participantSecondary
              /\ heap'[r].sessionId = heap[r].sessionId
              /\ heap'[r].live <=> heap[r].live /\ r # thread[p].session
<1> DEFINE s == thread[p].session
           id == Mine(p).sessionId
           both == NodesOf(Mine(p))
           store == activeMatchSessions
           excised == fetch_from_offset(store, id)
<1>0. /\ At(p, "ending")
      /\ activeMatchSessions' = excise_at_offset(store, id)
      /\ heap' = [i \in DOMAIN heap |-> [heap[i] EXCEPT !.live = @ /\ i # excised]]
      /\ relinquishSessionIdentifier(id)
      /\ streamLock' = [q \in Players |-> IF q \in both THEN Null ELSE streamLock[q]]
      /\ node' = [Unbound(Mine(p)) EXCEPT ![p].timeoutTicks = 0]
      /\ thread' = [thread EXCEPT ![p] = [InLoop EXCEPT !.opcode = thread[p].opcode]]
      /\ link' = link /\ toServer' = toServer
  BY DEF EndMatch, Reclaims, Remaining, network
<1>1. Typed /\ IdInv /\ StoreHolds /\ IdsAreApart /\ HostsAreBound
  BY DEF ServerInv
<1>2. "ending" \in Agreed /\ "ending" # "naming" /\ "loop" \notin Unattached \cup Chosen \cup Agreed \cup Final
  BY DEF Unattached, Chosen, Agreed, Final
<1>3. s \in 1 .. Len(heap) /\ heap[s].live /\ Mine(p) = heap[s]
  BY <1>0, <1>2, Alive DEF Approved, At, Mine
<1>4. excised = s
  <2>1. id \in Live(store) /\ store.heap_region[id] = s
    BY <1>1, <1>3 DEF StoreHolds
  <2> HIDE DEF s, id
  <2> QED
    BY <1>1, <2>1 DEF fetch_from_offset, Live, Offsets, StoreHolds, IsStore
<1>5. heap' = [heap EXCEPT ![s].live = FALSE]
  <2>1. heap \in Seq(SessionRecord)
    BY <1>1 DEF Typed
  <2>2. DOMAIN heap = 1 .. Len(heap) /\ heap = [i \in 1 .. Len(heap) |-> heap[i]]
    BY <2>1
  <2> DEFINE dead == [heap[s] EXCEPT !.live = FALSE]
  <2>3. \A i \in 1 .. Len(heap) : heap[i] \in SessionRecord
    BY <2>1
  <2> HIDE DEF s, excised
  <2>4. ASSUME NEW i \in 1 .. Len(heap)
        PROVE  heap'[i] = IF i = s THEN dead ELSE heap[i]
    <3>1. heap'[i] = [heap[i] EXCEPT !.live = heap[i].live /\ i # s]
      BY <1>0, <1>4, <2>2
    <3>2. CASE i = s
      <4>1. (heap[i].live /\ i # s) = FALSE
        BY <3>2
      <4> QED
        BY <3>1, <3>2, <4>1, Zenon
    <3>3. CASE i # s
      <4>1. heap[i].live \in BOOLEAN /\ heap[i] \in SessionRecord
        BY <2>3 DEF SessionRecord
      <4>2. (heap[i].live /\ i # s) = heap[i].live
        BY <3>3, <4>1, Zenon
      <4>3. heap'[i] = [heap[i] EXCEPT !.live = heap[i].live]
        BY <3>1, <4>2, Zenon
      <4>4. [heap[i] EXCEPT !.live = heap[i].live] = heap[i]
        BY <4>1 DEF SessionRecord
      <4> QED
        BY <3>3, <4>3, <4>4
    <3> QED
      BY <3>2, <3>3
  <2> HIDE DEF dead
  <2>5. heap' = [i \in 1 .. Len(heap) |-> heap'[i]]
    BY <1>0, <2>2
  <2>6. heap' = [heap EXCEPT ![s] = dead]
    BY <2>2, <2>4, <2>5
  <2> QED
    BY <2>6 DEF dead
<1>6. /\ thread' \in [Players -> ThreadRecord]
      /\ \A q \in Players : q # p => thread'[q] = thread[q]
      /\ thread'[p].pc = "loop" /\ thread'[p].session = 0
  BY <1>0, <1>1, ReturnsTyped
<1>7. \A q \in Players : At(q, "naming")' => At(q, "naming") /\ thread'[q] = thread[q]
  BY <1>6 DEF At
<1>8. /\ IdInv' /\ StoreHolds' /\ IdsAreApart'
      /\ heap' \in Seq(SessionRecord) /\ Len(heap') = Len(heap)
      /\ \A r \in 1 .. Len(heap) :
           /\ heap'[r].participantPrimary = heap[r].participantPrimary
           /\ heap'[r].participantSecondary = heap[r].participantSecondary
           /\ heap'[r].sessionId = heap[r].sessionId
           /\ heap'[r].live <=> heap[r].live /\ r # s
  <2>1. id = heap[s].sessionId
    BY <1>3
  <2> HIDE DEF s, id
  <2> QED
    BY <1>0, <1>3, <1>5, <1>7, <2>1, SessionEnds
<1>9. /\ p \in Players /\ both \subseteq Players
      /\ both = {heap[s].participantPrimary, heap[s].participantSecondary}
      /\ heap[s].participantSecondary # Null
  <2>1. thread[p].pc \in Agreed /\ Null \notin Players
    BY <1>0, <1>2, ServerAssumption DEF At
  <2>2. /\ both = {thread[p].master, Mine(p).participantSecondary}
        /\ thread[p].master = Mine(p).participantPrimary /\ thread[p].master \in Players
        /\ Mine(p).participantSecondary \in Players
    BY <2>1, Opponents
  <2> HIDE DEF both
  <2>3. Mine(p) = heap[s]
    BY <1>3
  <2> QED
    BY <2>1, <2>2, <2>3
<1>10. /\ node' \in [Players -> NodeRecord]
       /\ \A q \in Players :
            /\ node'[q].activeSessionId = IF q \in both THEN NoId ELSE node[q].activeSessionId
            /\ node'[q].live = node[q].live
  <2> DEFINE u == Unbound(Mine(p))
  <2>1. \A q \in Players : node[q] \in NodeRecord
    BY <1>1 DEF Typed
  <2>2. u = [q \in Players |-> IF q \in both THEN [node[q] EXCEPT !.activeSessionId = NoId] ELSE node[q]]
    BY DEF Unbound
  <2> HIDE DEF u, both
  <2>3. \A q \in Players :
          /\ u[q] \in NodeRecord
          /\ u[q].activeSessionId = IF q \in both THEN NoId ELSE node[q].activeSessionId
          /\ u[q].live = node[q].live
    <3> TAKE q \in Players
    <3>1. node[q] \in NodeRecord /\ u[q] = IF q \in both THEN [node[q] EXCEPT !.activeSessionId = NoId] ELSE node[q]
      BY <2>1, <2>2
    <3> QED
      BY <3>1 DEF NodeRecord
  <2>4. node' = [u EXCEPT ![p].timeoutTicks = 0]
    BY <1>0 DEF u
  <2>5. [u[p] EXCEPT !.timeoutTicks = 0] \in NodeRecord
    BY <2>3 DEF NodeRecord
  <2>6. node' \in [Players -> NodeRecord]
    BY <2>2, <2>3, <2>4, <2>5
  <2>7. \A q \in Players : node'[q].activeSessionId = u[q].activeSessionId /\ node'[q].live = u[q].live
    BY <2>2, <2>3, <2>4 DEF NodeRecord
  <2> QED
    BY <2>3, <2>6, <2>7
<1> HIDE DEF id, excised, both
<1>11. Typed'
  <2>1. \A q \in Players : thread'[q].session \in 0 .. Len(heap')
    <3>1. Len(heap) \in Nat /\ \A q \in Players : thread[q].session \in 0 .. Len(heap)
      BY <1>1, LenProperties DEF Typed
    <3> QED
      BY <1>6, <1>8, <3>1
  <2>2. \A q \in Players : At(q, "discardName")' => thread'[q].target \in Nat
    BY <1>1, <1>6 DEF Typed, At
  <2>3. link' = link /\ toServer' = toServer
    BY <1>0
  <2>4. streamLock' \in [Players -> Players \cup {Null}]
    BY <1>0, <1>1 DEF Typed
  <2> QED
    BY <1>1, <1>6, <1>8, <1>10, <2>1, <2>2, <2>3, <2>4 DEF Typed
<1>12. HostsAreBound'
  <2> SUFFICES ASSUME NEW r \in 1 .. Len(heap), heap'[r].live,
                      NEW h, h = heap'[r].participantPrimary,
                      NEW g, g = heap'[r].participantSecondary
               PROVE  /\ node'[h].activeSessionId = heap'[r].sessionId
                      /\ thread'[h].pc \notin Unattached \cup Agreed \cup Final
                      /\ g # Null => thread'[g].pc \in Agreed /\ thread'[g].session = r
    BY <1>8 DEF HostsAreBound
  <2>1. /\ heap[r].live /\ h = heap[r].participantPrimary /\ g = heap[r].participantSecondary
        /\ heap'[r].sessionId = heap[r].sessionId /\ r # s
    BY <1>8
  <2>2. h \in Players /\ (g \in Players \/ g = Null)
    BY <1>1, <2>1, SessionFields
  <2>3. /\ node[h].activeSessionId = heap[r].sessionId
        /\ thread[h].pc \notin Unattached \cup Agreed \cup Final
        /\ g # Null => thread[g].pc \in Agreed /\ thread[g].session = r
    BY <1>1, <2>1 DEF HostsAreBound
  <2>4. h # p /\ (g # Null => g # p)
    BY <1>0, <1>2, <2>1, <2>3 DEF At
  <2>5. h \notin both
    <3>1. h # heap[s].participantPrimary
      BY <1>3, <2>1, OneSessionEach
    <3>2. thread[heap[s].participantSecondary].pc \in Agreed
      BY <1>1, <1>3, <1>9 DEF HostsAreBound
    <3>3. h # heap[s].participantSecondary
      BY <2>3, <3>2
    <3> QED
      BY <1>9, <3>1, <3>3
  <2>6. node'[h].activeSessionId = node[h].activeSessionId
    BY <1>10, <2>2, <2>5
  <2> QED
    BY <1>6, <2>1, <2>2, <2>3, <2>4, <2>6
<1>13. ASSUME NEW q \in Players PROVE (UnattachedIsUnbound(q) /\ GuestHasSession(q))'
  <2>1. UnattachedIsUnbound(q)
    BY DEF ServerInv
  <2>2. CASE q # p
    <3>1. thread'[q] = thread[q]
      BY <1>6, <2>2
    <3>2. GuestHasSession(q)'
      BY <1>8, <3>1, GuestKept
    <3> QED
      BY <1>10, <2>1, <3>1, <3>2 DEF UnattachedIsUnbound
  <2>3. CASE q = p
    BY <1>2, <1>6, <2>3 DEF UnattachedIsUnbound, GuestHasSession
  <2> QED
    BY <2>2, <2>3
<1>14. ServerInv'
  BY <1>8, <1>11, <1>12, <1>13 DEF ServerInv
<1> QED
  BY <1>0, <1>6, <1>8, <1>10, <1>14 DEF both

-----------------------------------------------------------------------------
(* Every step. *)

LEMMA NetworkOnly ==
  ASSUME ServerInv, UNCHANGED <<memory, thread>>,
         link' \in [Players -> {"open", "closed"}], toServer' \in [Players -> Seq(Nat)]
  PROVE  ServerInv'
<1>1. /\ UNCHANGED idVars /\ activeMatchSessions' = activeMatchSessions /\ heap' = heap
      /\ node' = node /\ streamLock' = streamLock /\ thread' = thread
  BY DEF memory, sessions
<1>2. Typed /\ IdInv /\ StoreHolds /\ IdsAreApart /\ HostsAreBound
  BY DEF ServerInv
<1>3. Typed'
  BY <1>1, <1>2 DEF Typed, At
<1>4. IdInv'
  BY <1>1, <1>2, IdNext_IdInv
<1>5. StoreHolds'
  BY <1>1, <1>2, StoreKept
<1>6. IdsAreApart'
  BY <1>1, <1>2, IdsKept DEF At
<1>7. HostsAreBound'
  BY <1>1, <1>2 DEF HostsAreBound
<1>8. \A q \in Players : (UnattachedIsUnbound(q) /\ GuestHasSession(q))'
  BY <1>1 DEF ServerInv, UnattachedIsUnbound, GuestHasSession, Mine
<1> QED
  BY <1>3, <1>4, <1>5, <1>6, <1>7, <1>8 DEF ServerInv

LEMMA WritesTyped ==
  ASSUME Typed, NEW p \in Players, NEW bytes \in Seq(Nat), Writes(p, bytes)
  PROVE  /\ UNCHANGED <<memory, thread>>
         /\ link' \in [Players -> {"open", "closed"}] /\ toServer' \in [Players -> Seq(Nat)]
<1>1. /\ toServer' = [toServer EXCEPT ![p] = @ \o bytes] /\ link' = link /\ UNCHANGED <<memory, thread>>
  BY DEF Writes
<1>2. toServer \in [Players -> Seq(Nat)] /\ link \in [Players -> {"open", "closed"}]
  BY DEF Typed
<1>3. toServer[p] \o bytes \in Seq(Nat)
  BY <1>2, ConcatProperties
<1> QED
  BY <1>1, <1>2, <1>3

\* What the programs write.
LEMMA RequestsTyped ==
  /\ \A n \in Nat : Int4(n) \in Seq(Nat) /\ Int2(n) \in Seq(Nat)
  /\ \A n \in Nat : CreateRequest(n) \in Seq(Nat)
  /\ \A id, n \in Nat : JoinRequest(id, n) \in Seq(Nat)
<1>1. \A n \in Nat : Int4(n) \in Seq(Nat) /\ Int2(n) \in Seq(Nat)
  BY DEF Int4, Int2
<1>2. \A n \in Nat : Name(n) \in Seq(Nat)
  BY DEF Name
<1>3. /\ Int4(OP_BUILD_MATCH_SESSION) \in Seq(Nat)
      /\ Int4(OP_INIT_MATCH_SESSION) \in Seq(Nat)
  BY <1>1 DEF OP_BUILD_MATCH_SESSION, OP_INIT_MATCH_SESSION
<1>4. ASSUME NEW n \in Nat PROVE CreateRequest(n) \in Seq(Nat)
  <2>1. Int4(OP_BUILD_MATCH_SESSION) \o Int4(n) \in Seq(Nat)
    BY <1>1, <1>3, ConcatProperties
  <2> QED
    BY <1>2, <2>1, ConcatProperties DEF CreateRequest
<1>5. ASSUME NEW id \in Nat, NEW n \in Nat PROVE JoinRequest(id, n) \in Seq(Nat)
  <2>1. Int4(OP_INIT_MATCH_SESSION) \o Int2(id) \in Seq(Nat)
    BY <1>1, <1>3, ConcatProperties
  <2>2. Int4(OP_INIT_MATCH_SESSION) \o Int2(id) \o Int4(n) \in Seq(Nat)
    BY <1>1, <2>1, ConcatProperties
  <2> QED
    BY <1>2, <2>2, ConcatProperties DEF JoinRequest
<1> QED
  BY <1>1, <1>4, <1>5

\* A program only writes, reads and closes.
LEMMA ClientStep_Only ==
  ASSUME ServerInv, NEW p \in Players, ClientStep(p)
  PROVE  /\ UNCHANGED <<memory, thread>>
         /\ link' \in [Players -> {"open", "closed"}] /\ toServer' \in [Players -> Seq(Nat)]
<1>1. Typed /\ IdInv
  BY DEF ServerInv
<1>2. ASSUME NEW bytes \in Seq(Nat), Writes(p, bytes)
      PROVE  /\ UNCHANGED <<memory, thread>>
             /\ link' \in [Players -> {"open", "closed"}] /\ toServer' \in [Players -> Seq(Nat)]
  BY <1>1, <1>2, WritesTyped
<1>3. \A n \in Nat : Int4(n) \in Seq(Nat) /\ Int2(n) \in Seq(Nat)
  BY RequestsTyped
<1>4. CASE Read(p)
  BY <1>1, <1>4 DEF Read, Typed
<1>5. CASE listGames(p)
  <2>1. Int4(OP_FETCH_WAITING_LIST) \in Seq(Nat)
    BY <1>3 DEF OP_FETCH_WAITING_LIST
  <2>2. Writes(p, Int4(OP_FETCH_WAITING_LIST))
    BY <1>5 DEF listGames
  <2> QED
    BY <1>2, <2>1, <2>2
<1>6. ASSUME NEW n \in NameLengths, createGame(p, n)
      PROVE  /\ UNCHANGED <<memory, thread>>
             /\ link' \in [Players -> {"open", "closed"}] /\ toServer' \in [Players -> Seq(Nat)]
  <2>1. n \in Nat
    BY ServerAssumption
  <2>2. Writes(p, CreateRequest(n)) /\ CreateRequest(n) \in Seq(Nat)
    BY <1>6, <2>1, RequestsTyped DEF createGame
  <2> QED
    BY <1>2, <2>2
<1>7. ASSUME NEW n \in NameLengths, NEW id \in 0 .. current_highest_id - 1, startGame(p, id, n)
      PROVE  /\ UNCHANGED <<memory, thread>>
             /\ link' \in [Players -> {"open", "closed"}] /\ toServer' \in [Players -> Seq(Nat)]
  <2>1. id \in Nat /\ n \in Nat
    BY <1>1, ServerAssumption DEF IdInv, IdTypeOK
  <2>2. Writes(p, JoinRequest(id, n)) /\ JoinRequest(id, n) \in Seq(Nat)
    BY <1>7, <2>1, RequestsTyped DEF startGame
  <2> QED
    BY <1>2, <2>2
<1>8. ASSUME NEW yes \in BOOLEAN, AnswerChallenge(p, yes) \/ rivincita(p, yes)
      PROVE  /\ UNCHANGED <<memory, thread>>
             /\ link' \in [Players -> {"open", "closed"}] /\ toServer' \in [Players -> Seq(Nat)]
  <2> DEFINE n == IF yes THEN OP_APPROVE_REQ ELSE OP_DECLINE_REQ
  <2>1. n \in Nat
    BY DEF OP_APPROVE_REQ, OP_DECLINE_REQ
  <2>2. Writes(p, Int4(n)) \/ Writes(p, Int2(n))
    BY <1>8 DEF AnswerChallenge, rivincita
  <2> HIDE DEF n
  <2> QED
    BY <1>2, <1>3, <2>1, <2>2
<1>9. ASSUME NEW cell \in Cells, sendMove(p, cell)
      PROVE  /\ UNCHANGED <<memory, thread>>
             /\ link' \in [Players -> {"open", "closed"}] /\ toServer' \in [Players -> Seq(Nat)]
  <2>1. cell \in Nat
    BY ServerAssumption
  <2>2. Writes(p, Int4(cell))
    BY <1>9 DEF sendMove
  <2> QED
    BY <1>2, <1>3, <2>1, <2>2
<1>10. CASE GivesUp(p)
  <2>1. UNCHANGED <<memory, thread, toServer>> /\ (link' = link \/ link' = [link EXCEPT ![p] = "closed"])
    BY <1>10 DEF GivesUp
  <2> QED
    BY <1>1, <2>1 DEF Typed
<1>11. CASE Quit(p)
  BY <1>1, <1>11 DEF Quit, Typed
<1>12. CASE Strays(p)
  <2>1. \A word \in Words : word \in Seq(Nat)
    <3>1. \A n \in NameLengths : n \in Nat
      BY ServerAssumption
    <3>2. \A id \in 0 .. current_highest_id - 1 : id \in Nat
      BY <1>1 DEF IdInv, IdTypeOK
    <3>3. \A n \in Cells \cup {OP_FETCH_WAITING_LIST, OP_APPROVE_REQ, OP_DECLINE_REQ} : n \in Nat
      BY ServerAssumption DEF OP_FETCH_WAITING_LIST, OP_APPROVE_REQ, OP_DECLINE_REQ
    <3>4. /\ \A n \in NameLengths : CreateRequest(n) \in Seq(Nat)
          /\ \A id \in 0 .. current_highest_id - 1, n \in NameLengths : JoinRequest(id, n) \in Seq(Nat)
      BY <3>1, <3>2, RequestsTyped
    <3>5. \A n \in Cells \cup {OP_FETCH_WAITING_LIST, OP_APPROVE_REQ, OP_DECLINE_REQ} : Int4(n) \in Seq(Nat)
      BY <3>3, RequestsTyped
    <3>6. \A n \in {OP_APPROVE_REQ, OP_DECLINE_REQ} : Int2(n) \in Seq(Nat)
      BY <3>3, RequestsTyped
    <3> QED
      BY <3>4, <3>5, <3>6 DEF Words
  <2>2. PICK word \in Words : Writes(p, word)
    BY <1>12 DEF Strays
  <2> QED
    BY <1>2, <2>1, <2>2
<1> QED
  BY <1>4, <1>5, <1>6, <1>7, <1>8, <1>9, <1>10, <1>11, <1>12 DEF ClientStep

\* The steps of a thread that only keep the sessions.
Keeping(p) ==
  \/ ReadOpcode(p) \/ PollIdle(p) \/ CheckDeadline(p) \/ FreeNode(p)
  \/ DiscardId(p) \/ DiscardLength(p) \/ DiscardName(p) \/ Reject(p)
  \/ QueueFetch(p)
  \/ (ReadJoin(p) /\ Returns(p)) \/ JoinFails(p) \/ SendChallenge(p) \/ ReadVerdict(p)
  \/ (RelayVerdict(p) /\ ~ Approves(thread[p].verdict))
  \/ LockPrimary(p) \/ LockSecondary(p)
  \/ StartRound(p) \/ ReceiveMove(p) \/ AbandonRound(p) \/ JoinVerdicts(p)

LEMMA Keeping_Keeps ==
  ASSUME ServerInv, NEW p \in Players, Keeping(p)
  PROVE  Typed' /\ KeepsSessions(p)
<1>1. CASE ReadOpcode(p) \/ PollIdle(p) \/ CheckDeadline(p) \/ FreeNode(p)
  BY <1>1, ReadOpcode_Keeps, PollIdle_Keeps, CheckDeadline_Keeps, FreeNode_Keeps
<1>2. CASE DiscardId(p) \/ DiscardLength(p) \/ DiscardName(p) \/ Reject(p)
  BY <1>2, DiscardId_Keeps, DiscardLength_Keeps, DiscardName_Keeps, Reject_Keeps
<1>3. CASE QueueFetch(p)
  BY <1>3, FetchSlot_Keeps, SendLedger_Keeps, SendNewline_Keeps DEF QueueFetch
<1>4. CASE (ReadJoin(p) /\ Returns(p)) \/ JoinFails(p) \/ SendChallenge(p) \/ ReadVerdict(p)
  BY <1>4, ReadJoinRefused_Keeps, JoinFails_Keeps, SendChallenge_Keeps, ReadVerdict_Keeps
<1>5. CASE RelayVerdict(p) /\ ~ Approves(thread[p].verdict)
  BY <1>5, RelayRefused_Keeps
<1>6. CASE LockPrimary(p) \/ LockSecondary(p)
  BY <1>6, LockPrimary_Keeps, LockSecondary_Keeps
<1>7. CASE StartRound(p) \/ ReceiveMove(p) \/ AbandonRound(p) \/ JoinVerdicts(p)
  BY <1>7, StartRound_Keeps, ReceiveMove_Keeps, AbandonRound_Keeps, JoinVerdicts_Keeps
<1> QED
  BY <1>1, <1>2, <1>3, <1>4, <1>5, <1>6, <1>7 DEF Keeping

\* What a thread may do.
LEMMA Steps ==
  ASSUME NEW p \in Players, ServerStep(p)
  PROVE  \/ UNCHANGED <<memory, thread, network>>
         \/ /\ ~ UsesFreedMemory(p)
            /\ \/ Keeping(p) \/ Purge(p) \/ AcquireId(p) \/ CreateSession(p) \/ CreateFails(p)
               \/ (ReadJoin(p) /\ ~ Returns(p))
               \/ (RelayVerdict(p) /\ Approves(thread[p].verdict)) \/ EndMatch(p)
  BY DEF ServerStep, Loop, Instantiation, Activation, CoreLoop, Keeping

LEMMA Init_Inv == Init => ServerInv
<1> SUFFICES ASSUME Init PROVE ServerInv
  OBVIOUS
<1>1. /\ heap = <<>> /\ Len(heap) = 0 /\ 1 .. Len(heap) = {} /\ heap \in Seq(SessionRecord)
      /\ node = [q \in Players |-> [live |-> TRUE, activeSessionId |-> NoId, timeoutTicks |-> 0]]
      /\ streamLock = [q \in Players |-> Null] /\ thread = [q \in Players |-> InLoop]
      /\ link = [q \in Players |-> "open"] /\ toServer = [q \in Players |-> <<>>]
      /\ activeMatchSessions = configure_memory_store(Starter) /\ IdInit
  BY DEF Init
<1>2. /\ InLoop \in ThreadRecord /\ InLoop.pc = "loop" /\ InLoop.session = 0
  <2>1. Int4(0) \in [1 .. 4 -> Nat]
    BY DEF Int4
  <2> QED
    BY <2>1 DEF InLoop, ThreadRecord, States
<1>3. "loop" \notin Unattached \cup Chosen \cup Agreed \cup {"naming", "discardName"}
  BY DEF Unattached, Chosen, Agreed
<1>4. Typed
  <2>1. [live |-> TRUE, activeSessionId |-> NoId, timeoutTicks |-> 0] \in NodeRecord
    BY DEF NodeRecord
  <2>2. node \in [Players -> NodeRecord]
    BY <1>1, <2>1
  <2>3. thread \in [Players -> ThreadRecord] /\ \A q \in Players : thread[q] = InLoop
    BY <1>1, <1>2
  <2>4. \A q \in Players : thread[q].session \in 0 .. Len(heap) /\ ~ At(q, "discardName")
    BY <1>1, <1>2, <2>3 DEF At
  <2>5. /\ streamLock \in [Players -> Players \cup {Null}] /\ link \in [Players -> {"open", "closed"}]
        /\ toServer \in [Players -> Seq(Nat)]
    BY <1>1
  <2> QED
    BY <1>1, <2>2, <2>3, <2>4, <2>5 DEF Typed
<1>5. IdInv
  BY <1>1, IdInit_IdInv
<1>6. StoreHolds
  <2>1. Starter \in Nat /\ Null \notin Nat
    BY ServerAssumption
  <2>2. IsStore(activeMatchSessions, 1 .. Len(heap)) /\ Live(activeMatchSessions) = {}
    BY <1>1, <2>1 DEF configure_memory_store, IsStore, Live, Offsets
  <2>3. activeMatchSessions.floor_threshold >= Starter /\ activeMatchSessions.allocated_slots >= Starter
    BY <1>1, <2>1 DEF configure_memory_store
  <2> QED
    BY <1>1, <2>2, <2>3 DEF StoreHolds
<1>7. IdsAreApart
  <2>1. current_highest_id = 0 /\ MaxId \in Nat
    BY <1>1, PoolAssumption DEF IdInit
  <2>2. \A q \in Players : ~ At(q, "naming")
    BY <1>1, <1>2 DEF At
  <2> QED
    BY <1>1, <2>1, <2>2 DEF IdsAreApart
<1>8. HostsAreBound
  BY <1>1 DEF HostsAreBound
<1>9. \A q \in Players : UnattachedIsUnbound(q) /\ GuestHasSession(q)
  BY <1>1, <1>2, <1>3 DEF UnattachedIsUnbound, GuestHasSession
<1> QED
  BY <1>4, <1>5, <1>6, <1>7, <1>8, <1>9 DEF ServerInv

\* ServerInv is inductive.
LEMMA Next_Inv == ServerInv /\ [Next]_vars => ServerInv'
<1> SUFFICES ASSUME ServerInv, [Next]_vars PROVE ServerInv'
  OBVIOUS
<1>1. ASSUME UNCHANGED <<memory, thread, network>> PROVE ServerInv'
  BY <1>1, NetworkOnly DEF ServerInv, Typed, network
<1>2. ASSUME NEW p \in Players, ServerStep(p) PROVE ServerInv'
  <2>1. CASE Keeping(p)
    BY <2>1, Keeping_Keeps, SessionsKept
  <2>2. CASE UNCHANGED <<memory, thread, network>>
    BY <1>1, <2>2
  <2>3. CASE ~ UsesFreedMemory(p) /\ ~ Keeping(p)
    <3>1. CASE Purge(p) \/ AcquireId(p) \/ CreateSession(p) \/ CreateFails(p)
      BY <3>1, Purge_Inv, AcquireId_Inv, CreateSession_Inv, CreateFails_Inv
    <3>2. CASE ReadJoin(p) /\ ~ Returns(p)
      BY <3>2, ReadJoinFound_Inv
    <3>3. CASE RelayVerdict(p) /\ Approves(thread[p].verdict)
      BY <2>3, <3>3, RelayApproved_Inv
    <3>4. CASE EndMatch(p)
      BY <2>3, <3>4, EndMatch_Inv
    <3>5. CASE UNCHANGED <<memory, thread, network>>
      BY <1>1, <3>5
    <3> QED
      BY <1>2, <2>3, <3>1, <3>2, <3>3, <3>4, <3>5, Steps
  <2> QED
    BY <1>2, <2>1, <2>2, <2>3, Steps
<1>3. ASSUME NEW p \in Players, ClientStep(p) PROVE ServerInv'
  BY <1>3, ClientStep_Only, NetworkOnly
<1>4. CASE UNCHANGED vars
  BY <1>1, <1>4 DEF vars
<1> QED
  BY <1>2, <1>3, <1>4 DEF Next

\* Every variable has the values the code can give it, for any number of players
\* and of matches (server.h: struct MatchSession, struct PlayerNode).
THEOREM TypeIsRight == Spec => []TypeOK
<1>1. Init => ServerInv
  BY Init_Inv
<1>2. ServerInv /\ [Next]_vars => ServerInv'
  BY Next_Inv
<1>3. ServerInv => TypeOK
  BY DEF ServerInv, Typed, StoreHolds, IdInv, TypeOK, NodeRecord
<1> QED
  BY <1>1, <1>2, <1>3, PTL DEF Spec

-----------------------------------------------------------------------------
(***************************************************************************)
(* The streamLocks.  Nothing here rests on what the programs write, and    *)
(* two guests may be approved for one match.                               *)
(***************************************************************************)
\* A guest that has locked its host for a match, a thread that has locked a host
\* at all, and a guest that waits with a session that is freed already.
HasHost(p) == At(p, "lockSecondary") \/ InMatch(p)
HoldsHost(p) == At(p, "verdict") \/ HasHost(p)
Stranded(p) == At(p, "lockPrimary") /\ ~ Mine(p).live

HostIsLocked(p) ==
  HoldsHost(p) /\ ~ Stranded(thread[p].master) => streamLock[thread[p].master] = p
GuestIsLocked(p) == InMatch(p) /\ Mine(p).participantSecondary = p => streamLock[p] = p

\* The session of a match dies early only with its host.
HostHasGone(p) == HasHost(p) /\ ~ Mine(p).live => At(thread[p].master, "gone")

\* The guest in the session may be another, but one that has agreed to it.
Second(p) == Mine(p).participantSecondary
SecondHasAgreed(p) ==
  HasHost(p) => /\ thread[Second(p)].pc \in Agreed
                /\ thread[Second(p)].session = thread[p].session

\* Why p may hold the lock of r: as that of its host, as that of the guest it
\* plays with, or because it was never given back.
Keeps(p, r) == \/ r = thread[p].master /\ HoldsHost(p)
               \/ /\ InMatch(p)
                  /\ r = p \/ (At(r, "lockPrimary") /\ thread[r].session = thread[p].session)
               \/ r = p /\ At(p, "loop")
               \/ Stranded(r)
LocksTell == \A r, p \in Players : streamLock[r] = p => Keeps(p, r)

LockInv == /\ LocksTell
           /\ \A p \in Players : /\ HostIsLocked(p) /\ GuestIsLocked(p)
                                 /\ HostHasGone(p) /\ SecondHasAgreed(p)

\* Where a thread is tells what it holds.
LEMMA Holders ==
  ASSUME NEW p
  PROVE  /\ InMatch(p) => HasHost(p)
         /\ HasHost(p) => HoldsHost(p) /\ ~ At(p, "verdict") /\ ~ At(p, "loop")
         /\ HoldsHost(p) => thread[p].pc \in Chosen
         /\ At(p, "verdict") => thread[p].pc \in Chosen
         /\ thread[p].pc \in Agreed <=> At(p, "lockPrimary") \/ HasHost(p)
         /\ ~ (At(p, "lockPrimary") /\ HoldsHost(p))
         /\ At(p, "gone") => thread[p].pc \notin Chosen \cup Agreed
         /\ At(p, "loop") => thread[p].pc \notin Chosen \cup Agreed
  BY DEF InMatch, HasHost, HoldsHost, Agreed, Chosen, At

\* The host of who has chosen a session.
LEMMA ChosenMaster ==
  ASSUME ServerInv, NEW p \in Players, thread[p].pc \in Chosen
  PROVE  /\ thread[p].master \in Players \ {p} /\ thread[p].session \in 1 .. Len(heap)
         /\ thread[p].master = Mine(p).participantPrimary
<1>1. thread[p].session \in 0 .. Len(heap) /\ Len(heap) \in Nat
  BY LenProperties DEF ServerInv, Typed
<1>2. thread[p].session # 0 /\ thread[p].master = Mine(p).participantPrimary /\ thread[p].master # p
  BY DEF ServerInv, GuestHasSession
<1>3. thread[p].session \in 1 .. Len(heap)
  BY <1>1, <1>2
<1> QED
  BY <1>2, <1>3, SessionFields DEF Mine, ServerInv

\* The host of a match is locked, and no guest.
LEMMA HostOfMatch ==
  ASSUME ServerInv, LockInv, NEW p \in Players, HasHost(p)
  PROVE  /\ thread[p].master \in Players \ {p}
         /\ thread[thread[p].master].pc \notin Agreed
         /\ ~ Stranded(thread[p].master)
         /\ streamLock[thread[p].master] = p
<1> DEFINE m == thread[p].master
<1>1. thread[p].pc \in Agreed /\ HoldsHost(p)
  BY Holders
<1>2. /\ m \in Players \ {p} /\ thread[p].session \in 1 .. Len(heap)
      /\ m = Mine(p).participantPrimary
  BY <1>1, Opponents
<1>3. thread[m].pc \notin Agreed
  <2>1. CASE Mine(p).live
    BY <1>2, <2>1 DEF ServerInv, HostsAreBound, Mine
  <2>2. CASE ~ Mine(p).live
    <3>1. At(m, "gone")
      BY <2>2 DEF LockInv, HostHasGone
    <3> QED
      BY <3>1, Holders
  <2> QED
    BY <2>1, <2>2
<1>4. ~ Stranded(m)
  BY <1>3, Holders DEF Stranded
<1> QED
  BY <1>1, <1>2, <1>3, <1>4 DEF LockInv, HostIsLocked

\* A session is played by one thread.
LEMMA OnePlays ==
  ASSUME ServerInv, LockInv, NEW p \in Players, NEW q \in Players, HasHost(p), HasHost(q),
         thread[p].session = thread[q].session
  PROVE  p = q
<1>1. thread[p].pc \in Agreed /\ thread[q].pc \in Agreed
  BY Holders
<1>2. /\ thread[p].master = Mine(p).participantPrimary
      /\ thread[q].master = Mine(q).participantPrimary /\ Mine(p) = Mine(q)
  BY <1>1, Opponents DEF Mine
<1> QED
  BY <1>2, HostOfMatch

\* A step that leaves the locks and what the sessions are alone, and takes no
\* thread to or from where it holds a lock, says nothing new of the locks.
LEMMA QuietStep ==
  ASSUME ServerInv, LockInv, NEW p \in Players,
         streamLock' = streamLock,
         \A s \in 1 .. Len(heap) : /\ heap'[s].participantSecondary = heap[s].participantSecondary
                                   /\ heap'[s].live = heap[s].live,
         \A q \in Players : q # p => thread'[q] = thread[q],
         ~ At(p, "gone"),
         thread'[p].pc \in Agreed <=> thread[p].pc \in Agreed,
         thread[p].pc \in Chosen /\ thread'[p].pc \in Chosen =>
            thread'[p].session = thread[p].session /\ thread'[p].master = thread[p].master,
         HoldsHost(p)' <=> HoldsHost(p), HasHost(p)' <=> HasHost(p), InMatch(p)' <=> InMatch(p),
         At(p, "loop") /\ streamLock[p] = p => At(p, "loop")'
  PROVE  LockInv'
<1>1. ASSUME NEW q \in Players
      PROVE  /\ thread'[q].pc \in Agreed <=> thread[q].pc \in Agreed
             /\ HoldsHost(q)' <=> HoldsHost(q)
             /\ HasHost(q)' <=> HasHost(q)
             /\ InMatch(q)' <=> InMatch(q)
             /\ At(q, "lockPrimary")' <=> At(q, "lockPrimary")
             /\ At(q, "gone") => At(q, "gone")'
             /\ At(q, "loop") /\ streamLock[q] = q => At(q, "loop")'
             /\ HoldsHost(q) \/ thread[q].pc \in Agreed =>
                  /\ thread[q].pc \in Chosen
                  /\ thread'[q].session = thread[q].session
                  /\ thread'[q].master = thread[q].master
  <2>1. CASE q = p
    <3>1. HoldsHost(p) => thread[p].pc \in Chosen
      BY Holders
    <3>2. HoldsHost(p)' => thread'[p].pc \in Chosen
      BY DEF HoldsHost, HasHost, InMatch, At, Chosen, Agreed
    <3>3. thread'[p].pc \in Agreed => thread'[p].pc \in Chosen
      BY Places
    <3>4. thread[p].pc \in Agreed => thread[p].pc \in Chosen
      BY Places
    <3>5. thread'[p].pc \in Agreed <=> At(p, "lockPrimary")' \/ HasHost(p)'
      BY DEF HasHost, InMatch, At, Agreed
    <3>6. thread[p].pc \in Agreed <=> At(p, "lockPrimary") \/ HasHost(p)
      BY Holders
    <3>7. (At(p, "lockPrimary") => ~ HasHost(p)) /\ (At(p, "lockPrimary")' => ~ HasHost(p)')
      BY DEF HasHost, InMatch, At
    <3> QED
      BY <2>1, <3>1, <3>2, <3>3, <3>4, <3>5, <3>6, <3>7
  <2>2. CASE q # p
    <3>1. thread'[q] = thread[q]
      BY <2>2
    <3>2. HoldsHost(q) \/ thread[q].pc \in Agreed => thread[q].pc \in Chosen
      BY Holders, Places
    <3> QED
      BY <3>1, <3>2 DEF HoldsHost, HasHost, InMatch, At
  <2> QED
    BY <2>1, <2>2
<1>2. ASSUME NEW q \in Players, thread[q].pc \in Agreed
      PROVE  /\ Mine(q)'.live = Mine(q).live
             /\ Second(q)' = Second(q) /\ Second(q) \in Players
  BY <1>1, <1>2, Opponents DEF Mine, Second
<1>3. ASSUME NEW q \in Players PROVE Stranded(q)' <=> Stranded(q)
  BY <1>1, <1>2, Holders DEF Stranded
<1>4. ASSUME NEW q \in Players
      PROVE  (HostIsLocked(q) /\ GuestIsLocked(q) /\ HostHasGone(q) /\ SecondHasAgreed(q))'
  <2>0. HostIsLocked(q) /\ GuestIsLocked(q) /\ HostHasGone(q) /\ SecondHasAgreed(q)
    BY DEF LockInv
  <2>1. /\ HoldsHost(q) => thread[q].master \in Players
        /\ HasHost(q) => thread[q].pc \in Agreed /\ HoldsHost(q)
        /\ InMatch(q) => HasHost(q)
    BY ChosenMaster, Holders
  <2>2. HostIsLocked(q)'
    BY <1>1, <1>3, <2>0, <2>1 DEF HostIsLocked
  <2>3. GuestIsLocked(q)'
    BY <1>1, <1>2, <2>0, <2>1 DEF GuestIsLocked, Second
  <2>4. HostHasGone(q)'
    BY <1>1, <1>2, <2>0, <2>1 DEF HostHasGone
  <2>5. SecondHasAgreed(q)'
    <3>1. SUFFICES ASSUME HasHost(q)
                   PROVE  thread'[Second(q)'].pc \in Agreed /\ thread'[Second(q)'].session = thread'[q].session
      BY <1>1 DEF SecondHasAgreed
    <3>2. PICK g \in Players : g = Second(q) /\ g = Second(q)'
      BY <1>2, <2>1, <3>1
    <3>3. thread[g].pc \in Agreed /\ thread[g].session = thread[q].session
      BY <2>0, <3>1, <3>2 DEF SecondHasAgreed
    <3>4. thread'[q].session = thread[q].session
      BY <1>1, <2>1, <3>1
    <3>5. thread'[g].pc \in Agreed /\ thread'[g].session = thread[g].session
      BY <1>1, <3>3
    <3> QED
      BY <3>2, <3>3, <3>4, <3>5
  <2> QED
    BY <2>2, <2>3, <2>4, <2>5
<1>5. LocksTell'
  <2> SUFFICES ASSUME NEW r \in Players, NEW q \in Players, streamLock[r] = q PROVE Keeps(q, r)'
    BY DEF LocksTell
  <2>1. Keeps(q, r)
    BY DEF LockInv, LocksTell
  <2>2. CASE r = thread[q].master /\ HoldsHost(q)
    BY <1>1, <2>2 DEF Keeps
  <2>3. CASE InMatch(q) /\ r = q
    BY <1>1, <2>3 DEF Keeps
  <2>4. CASE InMatch(q) /\ At(r, "lockPrimary") /\ thread[r].session = thread[q].session
    BY <1>1, <2>4, Holders DEF Keeps
  <2>5. CASE r = q /\ At(q, "loop")
    BY <1>1, <2>5 DEF Keeps
  <2>6. CASE Stranded(r)
    BY <1>3, <2>6 DEF Keeps
  <2> QED
    BY <2>1, <2>2, <2>3, <2>4, <2>5, <2>6 DEF Keeps
<1> QED
  BY <1>4, <1>5 DEF LockInv

\* The same of a thread that was dealing with nobody.
LEMMA Lone_Locks ==
  ASSUME ServerInv, LockInv, NEW p \in Players,
         \/ ReadOpcode(p) \/ PollIdle(p) \/ CheckDeadline(p) \/ FreeNode(p)
         \/ DiscardId(p) \/ DiscardLength(p) \/ DiscardName(p) \/ Reject(p)
         \/ QueueFetch(p)
         \/ (ReadJoin(p) /\ Returns(p)) \/ JoinFails(p)
  PROVE  LockInv'
<1>1. KeepsSessions(p)
  BY Keeping_Keeps DEF Keeping
<1>2. streamLock' = streamLock /\ heap' = heap
  BY <1>1 DEF ReadOpcode, PollIdle, CheckDeadline, FreeNode, DiscardId, DiscardLength, DiscardName, Reject,
         QueueFetch, FetchSlot, SendLedger, SendNewline, ReadJoin, JoinFails, memory, KeepsSessions, sessions
<1>3. thread[p].pc \in {"loop", "deadline", "leaving", "discardId", "discardLength", "discardName",
                       "rejecting", "fetch", "ledger", "newline", "join"}
  BY DEF ReadOpcode, PollIdle, CheckDeadline, FreeNode, DiscardId, DiscardLength, DiscardName, Reject,
         QueueFetch, FetchSlot, SendLedger, SendNewline, ReadJoin, JoinFails, At
<1>4. At(p, "loop") => streamLock[p] = Null
  BY DEF ReadOpcode, PollIdle, CheckDeadline, FreeNode, DiscardId, DiscardLength, DiscardName, Reject,
         QueueFetch, FetchSlot, SendLedger, SendNewline, ReadJoin, JoinFails, At
<1>5. /\ thread[p].pc \notin Chosen \cup Agreed /\ ~ At(p, "gone")
      /\ ~ HoldsHost(p) /\ ~ HasHost(p) /\ ~ InMatch(p)
  BY <1>3 DEF Chosen, Agreed, HoldsHost, HasHost, InMatch, At
<1>6. thread'[p].pc \notin Chosen /\ thread'[p].pc \notin Agreed
  BY <1>1, <1>5, Places DEF KeepsSessions
<1>7. ~ HoldsHost(p)' /\ ~ HasHost(p)' /\ ~ InMatch(p)'
  BY <1>6 DEF HoldsHost, HasHost, InMatch, Chosen, Agreed, At
<1>8. At(p, "loop") => streamLock[p] # p
  BY <1>4, ServerAssumption
<1> QED
  BY <1>1, <1>2, <1>5, <1>6, <1>7, <1>8, QuietStep DEF KeepsSessions

\* A challenge that is refused, and the moves of a match, leave the locks alone.
LEMMA Match_Locks ==
  ASSUME ServerInv, LockInv, NEW p \in Players,
         \/ (RelayVerdict(p) /\ ~ Approves(thread[p].verdict))
         \/ StartRound(p) \/ ReceiveMove(p) \/ AbandonRound(p) \/ JoinVerdicts(p)
  PROVE  LockInv'
<1>1. KeepsSessions(p)
  BY Keeping_Keeps DEF Keeping
<1>2. streamLock' = streamLock /\ heap' = heap
  BY <1>1 DEF StartRound, ReceiveMove, AbandonRound, JoinVerdicts, RelayVerdict, memory, KeepsSessions, sessions
<1>4. thread[p] \in ThreadRecord /\ thread \in [Players -> ThreadRecord]
  BY DEF ServerInv, Typed
<1>5. CASE RelayVerdict(p) /\ ~ Approves(thread[p].verdict)
  <2>1. At(p, "relay") /\ Returns(p)
    BY <1>5 DEF RelayVerdict
  <2>2. thread'[p].pc = "loop"
    BY <2>1, ReturnsTyped DEF Returns, ServerInv
  <2>3. /\ ~ HoldsHost(p) /\ ~ HasHost(p) /\ ~ InMatch(p)
        /\ ~ HoldsHost(p)' /\ ~ HasHost(p)' /\ ~ InMatch(p)' /\ At(p, "loop")'
    BY <2>1, <2>2 DEF HoldsHost, HasHost, InMatch, At
  <2>4. thread[p].pc \notin Agreed /\ thread'[p].pc \notin Agreed \cup Chosen /\ ~ At(p, "gone")
    BY <2>1, <2>2 DEF Agreed, Chosen, At
  <2> QED
    BY <1>1, <1>2, <2>3, <2>4, QuietStep DEF KeepsSessions
<1>6. CASE StartRound(p) \/ ReceiveMove(p) \/ AbandonRound(p) \/ JoinVerdicts(p)
  <2>1. InMatch(p)
    BY <1>6 DEF StartRound, ReceiveMove, AbandonRound, JoinVerdicts, InMatch, At
  <2>2. InMatch(p)'
    <3>1. CASE thread' = thread
      BY <2>1, <3>1 DEF InMatch
    <3>2. CASE thread' # thread /\ (StartRound(p) \/ ReceiveMove(p))
      <4>1. PICK pc, q : /\ thread' = [thread EXCEPT ![p].pc = pc, ![p].acting = q]
                         /\ pc \in {"await", "polling"}
        BY <3>2 DEF StartRound, ReceiveMove
      <4> QED
        BY <1>4, <4>1 DEF ThreadRecord, InMatch
    <3>3. CASE AbandonRound(p) \/ JoinVerdicts(p)
      <4>1. PICK pc : Goes(p, pc) /\ pc \in {"round", "ending"}
        BY <3>3 DEF AbandonRound, JoinVerdicts
      <4> QED
        BY <1>4, <4>1 DEF Goes, ThreadRecord, InMatch
    <3> QED
      BY <1>6, <3>1, <3>2, <3>3
  <2>3. thread[p].pc \in Agreed /\ thread'[p].pc \in Agreed /\ thread'[p].pc \in Chosen
    BY <2>1, <2>2 DEF InMatch, Agreed, Chosen
  <2>4. ~ At(p, "gone") /\ ~ At(p, "loop")
    BY <2>1 DEF InMatch, At
  <2>5. HoldsHost(p) /\ HasHost(p) /\ HoldsHost(p)' /\ HasHost(p)'
    BY <2>1, <2>2 DEF HoldsHost, HasHost
  <2> QED
    BY <1>1, <1>2, <2>1, <2>2, <2>3, <2>4, <2>5, QuietStep DEF KeepsSessions
<1> QED
  BY <1>5, <1>6

\* The steps that change no session and no lock.
LEMMA Request_Locks ==
  ASSUME ServerInv, LockInv, NEW p \in Players,
         AcquireId(p) \/ CreateFails(p) \/ (ReadJoin(p) /\ ~ Returns(p))
  PROVE  LockInv'
<1>1. thread[p] \in ThreadRecord /\ thread \in [Players -> ThreadRecord]
  BY DEF ServerInv, Typed
<1>2. UNCHANGED <<heap, node, streamLock>>
  BY ReadJoinFound_Inv DEF AcquireId, CreateFails, sessions
<1>3. \A q \in Players : q # p => thread'[q] = thread[q]
  BY <1>1, ReadJoinFound_Inv DEF AcquireId, CreateFails, Goes
<1>4. thread[p].pc \in {"create", "naming", "join"}
  BY DEF AcquireId, CreateFails, ReadJoin, At
<1>5. thread'[p].pc \in {"naming", "exited", "challenge"}
  BY <1>1, ReadJoinFound_Inv DEF AcquireId, CreateFails, Goes, ThreadRecord
<1>6. /\ thread[p].pc \notin Agreed \cup Chosen /\ thread'[p].pc \notin Agreed
      /\ ~ At(p, "gone") /\ ~ At(p, "loop")
  BY <1>4, <1>5 DEF Agreed, Chosen, At
<1>7. /\ ~ HoldsHost(p) /\ ~ HasHost(p) /\ ~ InMatch(p)
      /\ ~ HoldsHost(p)' /\ ~ HasHost(p)' /\ ~ InMatch(p)'
  BY <1>4, <1>5 DEF HoldsHost, HasHost, InMatch, At
<1> QED
  BY <1>2, <1>3, <1>6, <1>7, QuietStep

LEMMA CreateSession_Locks ==
  ASSUME ServerInv, LockInv, NEW p \in Players, CreateSession(p)
  PROVE  LockInv'
<1>0. /\ streamLock' = streamLock /\ At(p, "naming") /\ thread'[p].pc = "loop"
      /\ \A s \in 1 .. Len(heap) : heap'[s] = heap[s]
      /\ \A q \in Players : q # p => thread'[q] = thread[q]
  BY CreateSession_Inv
<1>1. /\ ~ HoldsHost(p) /\ ~ HasHost(p) /\ ~ InMatch(p)
      /\ ~ HoldsHost(p)' /\ ~ HasHost(p)' /\ ~ InMatch(p)' /\ ~ At(p, "gone") /\ ~ At(p, "loop")
  BY <1>0 DEF HoldsHost, HasHost, InMatch, At
<1>2. thread[p].pc \notin Agreed \cup Chosen /\ thread'[p].pc \notin Agreed
  BY <1>0 DEF Agreed, Chosen, At
<1> QED
  BY <1>0, <1>1, <1>2, QuietStep

\* What a step of p says of the others, when it changes no session.
LEMMA Bystanders ==
  ASSUME ServerInv, LockInv, NEW p \in Players, KeepsSessions(p),
         thread[p].pc \in Chosen, thread'[p].pc \in Chosen
  PROVE  /\ heap' = heap
         /\ \A q \in Players :
              /\ Mine(q)' = Mine(q) /\ Second(q)' = Second(q)
              /\ thread'[q].session = thread[q].session /\ thread'[q].master = thread[q].master
              /\ thread'[q].pc \in Agreed <=> thread[q].pc \in Agreed
              /\ At(q, "gone") <=> At(q, "gone")'
              /\ q # p => /\ thread'[q] = thread[q]
                          /\ HoldsHost(q)' <=> HoldsHost(q)
                          /\ HasHost(q)' <=> HasHost(q)
                          /\ InMatch(q)' <=> InMatch(q)
                          /\ At(q, "lockPrimary")' <=> At(q, "lockPrimary")
                          /\ At(q, "loop")' <=> At(q, "loop")
                          /\ Stranded(q)' <=> Stranded(q)
<1>1. heap' = heap
  BY DEF KeepsSessions, sessions
<1>2. ~ At(p, "gone") /\ ~ At(p, "gone")'
  BY DEF At, Chosen, Agreed
<1> SUFFICES ASSUME NEW q \in Players
             PROVE  /\ Mine(q)' = Mine(q) /\ Second(q)' = Second(q)
                    /\ thread'[q].session = thread[q].session /\ thread'[q].master = thread[q].master
                    /\ thread'[q].pc \in Agreed <=> thread[q].pc \in Agreed
                    /\ At(q, "gone") <=> At(q, "gone")'
                    /\ q # p => /\ thread'[q] = thread[q]
                                /\ HoldsHost(q)' <=> HoldsHost(q)
                                /\ HasHost(q)' <=> HasHost(q)
                                /\ InMatch(q)' <=> InMatch(q)
                                /\ At(q, "lockPrimary")' <=> At(q, "lockPrimary")
                                /\ At(q, "loop")' <=> At(q, "loop")
                                /\ Stranded(q)' <=> Stranded(q)
  BY <1>1
<1>3. CASE q = p
  BY <1>1, <1>2, <1>3 DEF KeepsSessions, Mine, Second
<1>4. CASE q # p
  <2>1. thread'[q] = thread[q]
    BY <1>4 DEF KeepsSessions
  <2> QED
    BY <1>1, <2>1 DEF Mine, Second, HoldsHost, HasHost, InMatch, At, Stranded
<1> QED
  BY <1>3, <1>4

\* p takes the free lock of its host, for a challenge or for a match.
LEMMA TakesHost ==
  ASSUME ServerInv, LockInv, NEW p \in Players, KeepsSessions(p),
         Acquires(p, thread[p].master),
         thread[p].pc \in Chosen, thread'[p].pc \in Chosen,
         HoldsHost(p)', ~ InMatch(p)', ~ HoldsHost(p), ~ Stranded(p),
         HasHost(p)' => Mine(p).live
  PROVE  LockInv'
<1> DEFINE m == thread[p].master
<1>1. m \in Players \ {p}
  BY ChosenMaster
<1>2. streamLock[m] = Null /\ streamLock' = [streamLock EXCEPT ![m] = p]
  BY DEF Acquires
<1>3. streamLock \in [Players -> Players \cup {Null}] /\ Null \notin Players
  BY ServerAssumption DEF ServerInv, Typed
<1>4. /\ heap' = heap
      /\ \A q \in Players :
           /\ Mine(q)' = Mine(q) /\ Second(q)' = Second(q)
           /\ thread'[q].session = thread[q].session /\ thread'[q].master = thread[q].master
           /\ thread'[q].pc \in Agreed <=> thread[q].pc \in Agreed
           /\ At(q, "gone") <=> At(q, "gone")'
           /\ q # p => /\ thread'[q] = thread[q]
                       /\ HoldsHost(q)' <=> HoldsHost(q)
                       /\ HasHost(q)' <=> HasHost(q)
                       /\ InMatch(q)' <=> InMatch(q)
                       /\ At(q, "lockPrimary")' <=> At(q, "lockPrimary")
                       /\ At(q, "loop")' <=> At(q, "loop")
                       /\ Stranded(q)' <=> Stranded(q)
  BY Bystanders
<1> HIDE DEF m
<1>5. ~ InMatch(p) /\ ~ HasHost(p) /\ thread'[p].master = m
  BY <1>1, <1>4, Holders DEF m
<1>6. ~ At(p, "loop")
  BY Holders
<1>7. ASSUME NEW q \in Players PROVE HostIsLocked(q)'
  <2>0. HostIsLocked(q) /\ (HoldsHost(q) => thread[q].master \in Players)
    BY ChosenMaster, Holders DEF LockInv
  <2>1. CASE q = p
    BY <1>1, <1>2, <1>3, <1>5, <2>1 DEF HostIsLocked
  <2>2. CASE q # p
    <3> SUFFICES ASSUME HoldsHost(q), ~ Stranded(thread[q].master)'
                 PROVE  streamLock'[thread[q].master] = q
      BY <1>4, <2>2 DEF HostIsLocked
    <3>1. PICK h \in Players : h = thread[q].master
      BY <2>0
    <3>2. ~ Stranded(h)
      BY <1>4, <3>1
    <3>3. streamLock[h] = q
      BY <2>0, <3>1, <3>2 DEF HostIsLocked
    <3> QED
      BY <1>2, <1>3, <3>1, <3>3
  <2> QED
    BY <2>1, <2>2
<1>8. ASSUME NEW q \in Players PROVE (GuestIsLocked(q) /\ HostHasGone(q) /\ SecondHasAgreed(q))'
  <2>0. GuestIsLocked(q) /\ HostHasGone(q) /\ SecondHasAgreed(q)
    BY DEF LockInv
  <2>1. GuestIsLocked(q)'
    <3>1. CASE q = p
      BY <3>1 DEF GuestIsLocked
    <3>2. CASE q # p
      BY <1>2, <1>3, <1>4, <2>0, <3>2 DEF GuestIsLocked
    <3> QED
      BY <3>1, <3>2
  <2>2. HostHasGone(q)'
    <3>1. CASE q = p
      BY <1>4, <3>1 DEF HostHasGone
    <3>2. CASE q # p
      <4>1. HasHost(q) => thread[q].master \in Players
        BY HostOfMatch
      <4> QED
        BY <1>4, <2>0, <3>2, <4>1 DEF HostHasGone
    <3> QED
      BY <3>1, <3>2
  <2>3. SecondHasAgreed(q)'
    <3> SUFFICES ASSUME HasHost(q)'
                 PROVE  thread'[Second(q)].pc \in Agreed /\ thread'[Second(q)].session = thread'[q].session
      BY <1>4 DEF SecondHasAgreed
    <3>1. thread[Second(q)].pc \in Agreed /\ thread[Second(q)].session = thread[q].session
      <4>1. CASE q # p
        BY <1>4, <2>0, <4>1 DEF SecondHasAgreed
      <4>2. CASE q = p
        <5>1. thread'[p].pc \in Agreed
          BY <4>2 DEF HasHost, InMatch, At, Agreed
        <5>2. thread[p].pc \in Agreed
          BY <1>4, <5>1
        <5>3. /\ thread[p].session \in 1 .. Len(heap) /\ Second(p) # Null
              /\ Mine(p) = heap[thread[p].session]
          BY <1>3, <5>2, Opponents DEF Second, Mine
        <5>4. heap[thread[p].session].live
          BY <4>2, <5>3
        <5> QED
          BY <4>2, <5>3, <5>4 DEF ServerInv, HostsAreBound, Second
      <4> QED
        BY <4>1, <4>2
    <3>2. Second(q) \in Players
      <4>1. thread'[q].pc \in Agreed
        BY DEF HasHost, InMatch, At, Agreed
      <4>2. thread[q].pc \in Agreed
        BY <1>4, <4>1
      <4> QED
        BY <4>2, Opponents DEF Second
    <3> QED
      BY <1>4, <3>1, <3>2
  <2> QED
    BY <2>1, <2>2, <2>3
<1>9. LocksTell'
  <2> SUFFICES ASSUME NEW r \in Players, NEW q \in Players, streamLock'[r] = q PROVE Keeps(q, r)'
    BY DEF LocksTell
  <2>1. CASE r = m
    <3>1. q = p
      BY <1>1, <1>2, <1>3, <2>1
    <3> QED
      BY <1>5, <2>1, <3>1 DEF Keeps
  <2>2. CASE r # m
    <3>1. streamLock[r] = q
      BY <1>2, <1>3, <2>2
    <3>2. Keeps(q, r)
      BY <3>1 DEF LockInv, LocksTell
    <3>3. CASE Stranded(r)
      BY <1>4, <3>3 DEF Keeps
    <3>4. CASE ~ Stranded(r)
      <4>1. q # p
        BY <1>5, <1>6, <3>2, <3>4 DEF Keeps
      <4>2. CASE r = thread[q].master /\ HoldsHost(q)
        BY <1>4, <4>1, <4>2 DEF Keeps
      <4>3. CASE InMatch(q) /\ r = q
        BY <1>4, <4>1, <4>3 DEF Keeps
      <4>4. CASE InMatch(q) /\ At(r, "lockPrimary") /\ thread[r].session = thread[q].session
        <5>1. CASE r # p
          BY <1>4, <4>1, <4>4, <5>1 DEF Keeps
        \* While the match lasts its host is locked.
        <5>2. CASE r = p
          <6>1. HasHost(q) /\ thread[q].pc \in Agreed /\ thread[p].pc \in Agreed
            BY <4>4, <5>2, Holders
          <6>2. thread[q].master = Mine(q).participantPrimary /\ thread[p].master = Mine(p).participantPrimary
            BY <6>1, Opponents
          <6>3. thread[q].master = m
            BY <4>4, <5>2, <6>2 DEF Mine, m
          <6>4. streamLock[m] = q
            BY <6>1, <6>3, HostOfMatch
          <6> QED
            BY <1>2, <1>3, <6>4
        <5> QED
          BY <5>1, <5>2
      <4>5. CASE r = q /\ At(q, "loop")
        BY <1>4, <4>1, <4>5 DEF Keeps
      <4> QED
        BY <3>2, <3>4, <4>2, <4>3, <4>4, <4>5 DEF Keeps
    <3> QED
      BY <3>3, <3>4
  <2> QED
    BY <2>1, <2>2
<1> QED
  BY <1>7, <1>8, <1>9 DEF LockInv

LEMMA SendChallenge_Locks ==
  ASSUME ServerInv, LockInv, NEW p \in Players, SendChallenge(p)
  PROVE  LockInv'
<1>1. KeepsSessions(p)
  BY Keeping_Keeps DEF Keeping
<1>2. At(p, "challenge") /\ Acquires(p, thread[p].master) /\ Goes(p, "verdict")
  BY DEF SendChallenge
<1>3. thread[p].pc \in Chosen /\ ~ HoldsHost(p) /\ ~ Stranded(p)
  BY <1>2 DEF At, Chosen, InMatch, HasHost, HoldsHost, Stranded
<1>4. thread'[p].pc = "verdict"
  BY <1>2 DEF Goes, ServerInv, Typed, ThreadRecord
<1>5. thread'[p].pc \in Chosen /\ HoldsHost(p)' /\ ~ InMatch(p)' /\ ~ HasHost(p)'
  BY <1>4 DEF Chosen, HoldsHost, HasHost, InMatch, At
<1> QED
  BY <1>1, <1>2, <1>3, <1>5, TakesHost

LEMMA LockPrimary_Locks ==
  ASSUME ServerInv, LockInv, NEW p \in Players, ~ UsesFreedMemory(p), LockPrimary(p)
  PROVE  LockInv'
<1>1. KeepsSessions(p)
  BY Keeping_Keeps DEF Keeping
<1>2. At(p, "lockPrimary") /\ Acquires(p, Mine(p).participantPrimary) /\ Goes(p, "lockSecondary")
  BY DEF LockPrimary
<1>3. thread[p].pc \in Chosen /\ thread[p].pc \in Agreed /\ ~ HoldsHost(p) /\ Approved(p)
  BY <1>2 DEF At, Chosen, Agreed, InMatch, HasHost, HoldsHost, Approved
<1>4. thread[p].master = Mine(p).participantPrimary /\ Mine(p).live
  BY <1>3, Opponents, Alive
<1>5. ~ Stranded(p)
  BY <1>4 DEF Stranded
<1>6. thread'[p].pc = "lockSecondary"
  BY <1>2 DEF Goes, ServerInv, Typed, ThreadRecord
<1>7. thread'[p].pc \in Chosen /\ HoldsHost(p)' /\ ~ InMatch(p)'
  BY <1>6 DEF Chosen, Agreed, HoldsHost, HasHost, InMatch, At
<1> QED
  BY <1>1, <1>2, <1>3, <1>4, <1>5, <1>7, TakesHost

\* The guest is locked; if it is another than p, it waits for the host, which p holds.
LEMMA LockSecondary_Locks ==
  ASSUME ServerInv, LockInv, NEW p \in Players, LockSecondary(p)
  PROVE  LockInv'
<1> DEFINE g == Second(p)
<1>1. KeepsSessions(p)
  BY Keeping_Keeps DEF Keeping
<1>2. At(p, "lockSecondary") /\ Acquires(p, Second(p)) /\ Goes(p, "round")
  BY DEF LockSecondary, Second
<1>3. thread'[p].pc = "round"
  BY <1>2 DEF Goes, ServerInv, Typed, ThreadRecord
<1>4. /\ thread[p].pc \in Chosen /\ thread[p].pc \in Agreed /\ ~ InMatch(p) /\ HasHost(p) /\ HoldsHost(p)
      /\ ~ Stranded(p) /\ ~ At(p, "lockPrimary") /\ ~ At(p, "loop")
  BY <1>2 DEF At, Chosen, Agreed, InMatch, HasHost, HoldsHost, Stranded
<1>5. thread'[p].pc \in Chosen /\ HoldsHost(p)' /\ HasHost(p)' /\ InMatch(p)' /\ ~ Stranded(p)'
  BY <1>3 DEF Chosen, Agreed, InMatch, HasHost, HoldsHost, At, Stranded
<1>6. streamLock \in [Players -> Players \cup {Null}] /\ Null \notin Players
  BY ServerAssumption DEF ServerInv, Typed
<1>7. /\ heap' = heap
      /\ \A q \in Players :
           /\ Mine(q)' = Mine(q) /\ Second(q)' = Second(q)
           /\ thread'[q].session = thread[q].session /\ thread'[q].master = thread[q].master
           /\ thread'[q].pc \in Agreed <=> thread[q].pc \in Agreed
           /\ At(q, "gone") <=> At(q, "gone")'
           /\ q # p => /\ thread'[q] = thread[q]
                       /\ HoldsHost(q)' <=> HoldsHost(q)
                       /\ HasHost(q)' <=> HasHost(q)
                       /\ InMatch(q)' <=> InMatch(q)
                       /\ At(q, "lockPrimary")' <=> At(q, "lockPrimary")
                       /\ At(q, "loop")' <=> At(q, "loop")
                       /\ Stranded(q)' <=> Stranded(q)
  BY <1>1, <1>4, <1>5, Bystanders
<1>8. g \in Players /\ streamLock[g] = Null /\ streamLock' = [streamLock EXCEPT ![g] = p]
  BY <1>2, <1>4, Opponents DEF Acquires, Second
<1>9. thread[g].pc \in Agreed /\ thread[g].session = thread[p].session
  BY <1>4 DEF LockInv, SecondHasAgreed
<1>10. g = p \/ At(g, "lockPrimary")
  <2>1. HasHost(g) => g = p
    BY <1>4, <1>8, <1>9, OnePlays
  <2> QED
    BY <1>9, <2>1, Holders
<1>11. \A q \in Players : HoldsHost(q)' <=> HoldsHost(q)
  BY <1>4, <1>5, <1>7
<1>12. \A q \in Players : Stranded(q)' <=> Stranded(q)
  BY <1>4, <1>5, <1>7
<1>13. \A q \in Players : HasHost(q)' <=> HasHost(q)
  BY <1>4, <1>5, <1>7
<1>14. ASSUME NEW q \in Players
       PROVE  (HostIsLocked(q) /\ GuestIsLocked(q) /\ HostHasGone(q) /\ SecondHasAgreed(q))'
  <2>0. /\ HostIsLocked(q) /\ GuestIsLocked(q) /\ HostHasGone(q) /\ SecondHasAgreed(q)
        /\ HoldsHost(q) => thread[q].master \in Players
        /\ HasHost(q) => HoldsHost(q) /\ thread[q].pc \in Agreed
    BY ChosenMaster, Holders DEF LockInv
  <2>1. HostIsLocked(q)'
    <3> SUFFICES ASSUME HoldsHost(q), ~ Stranded(thread[q].master)'
                 PROVE  streamLock'[thread[q].master] = q
      BY <1>7, <1>11 DEF HostIsLocked
    <3>1. PICK h \in Players : h = thread[q].master
      BY <2>0
    <3>2. ~ Stranded(h)
      BY <1>7, <1>12, <3>1
    <3>3. streamLock[h] = q
      BY <2>0, <3>1, <3>2 DEF HostIsLocked
    <3> QED
      BY <1>6, <1>8, <3>1, <3>3
  <2>2. GuestIsLocked(q)'
    <3>1. CASE q = p
      BY <1>6, <1>7, <1>8, <3>1 DEF GuestIsLocked, Second
    <3>2. CASE q # p
      BY <1>6, <1>7, <1>8, <2>0, <3>2 DEF GuestIsLocked
    <3> QED
      BY <3>1, <3>2
  <2>3. HostHasGone(q)'
    BY <1>7, <1>13, <2>0 DEF HostHasGone
  <2>4. SecondHasAgreed(q)'
    <3>1. HasHost(q) => Second(q) \in Players
      BY <2>0, Opponents DEF Second
    <3> QED
      BY <1>7, <1>13, <2>0, <3>1 DEF SecondHasAgreed
  <2> QED
    BY <2>1, <2>2, <2>3, <2>4
<1>15. LocksTell'
  <2> SUFFICES ASSUME NEW r \in Players, NEW q \in Players, streamLock'[r] = q PROVE Keeps(q, r)'
    BY DEF LocksTell
  <2>1. CASE r = g
    <3>1. q = p
      BY <1>6, <1>8, <2>1
    <3>2. r = p \/ At(r, "lockPrimary")
      BY <1>10, <2>1
    <3>3. thread'[r].session = thread'[p].session
      BY <1>7, <1>9, <2>1
    <3>4. r = p \/ At(r, "lockPrimary")'
      BY <1>4, <1>7, <3>2
    <3> QED
      BY <1>5, <3>1, <3>3, <3>4 DEF Keeps
  <2>2. CASE r # g
    <3>1. streamLock[r] = q
      BY <1>6, <1>8, <2>2
    <3>2. Keeps(q, r)
      BY <3>1 DEF LockInv, LocksTell
    <3>3. CASE Stranded(r)
      BY <1>12, <3>3 DEF Keeps
    <3>4. CASE r = thread[q].master /\ HoldsHost(q)
      BY <1>7, <1>11, <3>4 DEF Keeps
    <3>5. CASE InMatch(q) /\ r = q
      BY <1>4, <1>7, <3>5 DEF Keeps
    <3>6. CASE InMatch(q) /\ At(r, "lockPrimary") /\ thread[r].session = thread[q].session
      BY <1>4, <1>7, <3>6 DEF Keeps
    <3>7. CASE r = q /\ At(q, "loop")
      BY <1>4, <1>7, <3>7 DEF Keeps
    <3> QED
      BY <3>2, <3>3, <3>4, <3>5, <3>6, <3>7 DEF Keeps
  <2> QED
    BY <2>1, <2>2
<1> QED
  BY <1>14, <1>15 DEF LockInv

\* The host is let go when it has answered.
LEMMA ReadVerdict_Locks ==
  ASSUME ServerInv, LockInv, NEW p \in Players, ReadVerdict(p)
  PROVE  LockInv'
<1> DEFINE m == thread[p].master
<1>1. KeepsSessions(p)
  BY Keeping_Keeps DEF Keeping
<1>2. At(p, "verdict") /\ streamLock' = [streamLock EXCEPT ![m] = Null]
  BY DEF ReadVerdict, HostUnlocked
<1>3. thread'[p].pc = "relay"
  <2>1. PICK v : Hears(p, v)
    BY DEF ReadVerdict
  <2> QED
    BY <2>1 DEF Hears, ServerInv, Typed, ThreadRecord
<1>4. /\ thread[p].pc \in Chosen /\ HoldsHost(p) /\ ~ HasHost(p) /\ ~ InMatch(p)
      /\ ~ Stranded(p) /\ ~ At(p, "lockPrimary") /\ ~ At(p, "loop")
  BY <1>2 DEF At, Chosen, Agreed, InMatch, HasHost, HoldsHost, Stranded
<1>5. /\ thread'[p].pc \in Chosen /\ ~ HoldsHost(p)' /\ ~ HasHost(p)' /\ ~ InMatch(p)'
      /\ ~ Stranded(p)'
  BY <1>3 DEF Chosen, Agreed, InMatch, HasHost, HoldsHost, At, Stranded
<1>6. streamLock \in [Players -> Players \cup {Null}] /\ Null \notin Players
  BY ServerAssumption DEF ServerInv, Typed
<1>7. /\ heap' = heap
      /\ \A q \in Players :
           /\ Mine(q)' = Mine(q) /\ Second(q)' = Second(q)
           /\ thread'[q].session = thread[q].session /\ thread'[q].master = thread[q].master
           /\ thread'[q].pc \in Agreed <=> thread[q].pc \in Agreed
           /\ At(q, "gone") <=> At(q, "gone")'
           /\ q # p => /\ thread'[q] = thread[q]
                       /\ HoldsHost(q)' <=> HoldsHost(q)
                       /\ HasHost(q)' <=> HasHost(q)
                       /\ InMatch(q)' <=> InMatch(q)
                       /\ At(q, "lockPrimary")' <=> At(q, "lockPrimary")
                       /\ At(q, "loop")' <=> At(q, "loop")
                       /\ Stranded(q)' <=> Stranded(q)
  BY <1>1, <1>4, <1>5, Bystanders
<1>8. m \in Players \ {p}
  BY <1>4, ChosenMaster
<1>9. ~ Stranded(m) => streamLock[m] = p
  BY <1>4 DEF LockInv, HostIsLocked
<1>10. \A q \in Players : Stranded(q)' <=> Stranded(q)
  BY <1>4, <1>5, <1>7
<1>11. \A q \in Players : HasHost(q)' <=> HasHost(q)
  BY <1>4, <1>5, <1>7
<1> HIDE DEF m
<1>12. ASSUME NEW q \in Players
       PROVE  (HostIsLocked(q) /\ GuestIsLocked(q) /\ HostHasGone(q) /\ SecondHasAgreed(q))'
  <2>0. /\ HostIsLocked(q) /\ GuestIsLocked(q) /\ HostHasGone(q) /\ SecondHasAgreed(q)
        /\ HoldsHost(q) => thread[q].master \in Players
        /\ HasHost(q) => HoldsHost(q) /\ thread[q].pc \in Agreed
        /\ InMatch(q) => ~ Stranded(q)
    BY ChosenMaster, Holders DEF LockInv, Stranded
  <2>1. HostIsLocked(q)'
    <3>1. CASE q = p
      BY <1>5, <3>1 DEF HostIsLocked
    <3>2. CASE q # p
      <4> SUFFICES ASSUME HoldsHost(q), ~ Stranded(thread[q].master)'
                   PROVE  streamLock'[thread[q].master] = q
        BY <1>7, <3>2 DEF HostIsLocked
      <4>1. PICK h \in Players : h = thread[q].master
        BY <2>0
      <4>2. ~ Stranded(h)
        BY <1>7, <1>10, <4>1
      <4>3. streamLock[h] = q
        BY <2>0, <4>1, <4>2 DEF HostIsLocked
      <4>4. h # m
        BY <1>9, <3>2, <4>2, <4>3
      <4> QED
        BY <1>2, <1>6, <4>1, <4>3, <4>4
    <3> QED
      BY <3>1, <3>2
  <2>2. GuestIsLocked(q)'
    <3>1. CASE q = p
      BY <1>5, <3>1 DEF GuestIsLocked
    <3>2. CASE q # p
      <4> SUFFICES ASSUME InMatch(q), Second(q) = q PROVE streamLock'[q] = q
        BY <1>7, <3>2 DEF GuestIsLocked, Second
      <4>1. streamLock[q] = q /\ ~ Stranded(q)
        BY <2>0 DEF GuestIsLocked, Second
      <4>2. q # m
        BY <1>9, <3>2, <4>1
      <4> QED
        BY <1>2, <1>6, <4>1, <4>2
    <3> QED
      BY <3>1, <3>2
  <2>3. HostHasGone(q)'
    BY <1>7, <1>11, <2>0 DEF HostHasGone
  <2>4. SecondHasAgreed(q)'
    <3>1. HasHost(q) => Second(q) \in Players
      BY <2>0, Opponents DEF Second
    <3> QED
      BY <1>7, <1>11, <2>0, <3>1 DEF SecondHasAgreed
  <2> QED
    BY <2>1, <2>2, <2>3, <2>4
<1>13. LocksTell'
  <2> SUFFICES ASSUME NEW r \in Players, NEW q \in Players, streamLock'[r] = q PROVE Keeps(q, r)'
    BY DEF LocksTell
  <2>1. r # m /\ streamLock[r] = q
    BY <1>2, <1>6, <1>8
  <2>2. Keeps(q, r)
    BY <2>1 DEF LockInv, LocksTell
  <2>3. CASE Stranded(r)
    BY <1>10, <2>3 DEF Keeps
  <2>4. CASE r = thread[q].master /\ HoldsHost(q)
    <3>1. q # p
      BY <2>1, <2>4 DEF m
    <3> QED
      BY <1>7, <2>4, <3>1 DEF Keeps
  <2>5. CASE InMatch(q) /\ r = q
    BY <1>4, <1>7, <2>5 DEF Keeps
  <2>6. CASE InMatch(q) /\ At(r, "lockPrimary") /\ thread[r].session = thread[q].session
    BY <1>4, <1>7, <2>6 DEF Keeps
  <2>7. CASE r = q /\ At(q, "loop")
    BY <1>4, <1>7, <2>7 DEF Keeps
  <2> QED
    BY <2>2, <2>3, <2>4, <2>5, <2>6, <2>7 DEF Keeps
<1> QED
  BY <1>12, <1>13 DEF LockInv

\* The guest enters the session, maybe in the place of another: one that has
\* locked the host plays on with the newcomer.
LEMMA RelayApproved_Locks ==
  ASSUME ServerInv, LockInv,
         NEW p \in Players, ~ UsesFreedMemory(p), RelayVerdict(p), Approves(thread[p].verdict)
  PROVE  LockInv'
<1> DEFINE s == thread[p].session
<1>0. /\ streamLock' = streamLock /\ At(p, "relay")
      /\ s \in 1 .. Len(heap) /\ heap[s].live
      /\ thread'[p].pc = "lockPrimary" /\ thread'[p].session = s
      /\ heap'[s].participantSecondary = p
      /\ \A r \in 1 .. Len(heap) : /\ heap'[r].live = heap[r].live
                                   /\ r # s => heap'[r] = heap[r]
      /\ \A q \in Players : q # p => thread'[q] = thread[q]
  BY RelayApproved_Inv
<1> HIDE DEF s
<1>1. /\ ~ HoldsHost(p) /\ ~ HasHost(p) /\ ~ InMatch(p) /\ ~ At(p, "lockPrimary") /\ ~ At(p, "loop")
      /\ ~ HoldsHost(p)' /\ ~ HasHost(p)' /\ ~ InMatch(p)'
      /\ ~ Stranded(p) /\ ~ At(p, "gone") /\ thread[p].pc \notin Agreed
  BY <1>0 DEF HoldsHost, HasHost, InMatch, Agreed, At, Stranded
<1>2. thread'[p].pc \in Agreed
  BY <1>0 DEF Agreed
<1>3. ASSUME NEW q \in Players, q # p
      PROVE  /\ thread'[q] = thread[q]
             /\ HoldsHost(q)' <=> HoldsHost(q)
             /\ HasHost(q)' <=> HasHost(q)
             /\ InMatch(q)' <=> InMatch(q)
             /\ At(q, "lockPrimary")' <=> At(q, "lockPrimary")
             /\ At(q, "loop")' <=> At(q, "loop")
             /\ At(q, "gone")' <=> At(q, "gone")
  BY <1>0, <1>3 DEF HoldsHost, HasHost, InMatch, At
<1>4. ASSUME NEW q \in Players, q # p, thread[q].pc \in Agreed
      PROVE  /\ Mine(q)'.live = Mine(q).live
             /\ Second(q) \in Players
             /\ Second(q)' = IF thread[q].session = s THEN p ELSE Second(q)
  <2>1. thread[q].session \in 1 .. Len(heap) /\ Second(q) \in Players
    BY <1>4, Opponents DEF Second
  <2>2. thread'[q] = thread[q]
    BY <1>3, <1>4
  <2> QED
    BY <1>0, <2>1, <2>2 DEF Mine, Second
<1>5. ASSUME NEW q \in Players PROVE Stranded(q)' <=> Stranded(q)
  <2>1. CASE q = p
    <3>1. Mine(p)'.live = heap'[s].live /\ heap'[s].live
      BY <1>0 DEF Mine
    <3> QED
      BY <1>1, <2>1, <3>1 DEF Stranded
  <2>2. CASE q # p
    BY <1>3, <1>4, <2>2, Holders DEF Stranded
  <2> QED
    BY <2>1, <2>2
<1>6. ASSUME NEW q \in Players
      PROVE  (HostIsLocked(q) /\ GuestIsLocked(q) /\ HostHasGone(q) /\ SecondHasAgreed(q))'
  <2>0. /\ HostIsLocked(q) /\ GuestIsLocked(q) /\ HostHasGone(q) /\ SecondHasAgreed(q)
        /\ HoldsHost(q) => thread[q].master \in Players
        /\ HasHost(q) => HoldsHost(q) /\ thread[q].pc \in Agreed
        /\ InMatch(q) => HasHost(q)
    BY ChosenMaster, Holders DEF LockInv
  <2>1. CASE q = p
    BY <1>1, <2>1 DEF HostIsLocked, GuestIsLocked, HostHasGone, SecondHasAgreed
  <2>2. CASE q # p
    <3>1. HostIsLocked(q)'
      <4> SUFFICES ASSUME HoldsHost(q), ~ Stranded(thread[q].master)'
                   PROVE  streamLock[thread[q].master] = q
        BY <1>0, <1>3, <2>2 DEF HostIsLocked
      <4>1. PICK h \in Players : h = thread[q].master
        BY <2>0
      <4>2. ~ Stranded(h)
        BY <1>3, <1>5, <2>2, <4>1
      <4> QED
        BY <2>0, <4>1, <4>2 DEF HostIsLocked
    <3>2. GuestIsLocked(q)'
      BY <1>0, <1>3, <1>4, <2>0, <2>2 DEF GuestIsLocked, Second
    <3>3. HostHasGone(q)'
      <4>1. HasHost(q) /\ ~ Mine(q).live => At(thread[q].master, "gone") /\ thread[q].master # p
        BY <1>1, <2>0 DEF HostHasGone
      <4> QED
        BY <1>3, <1>4, <2>0, <2>2, <4>1 DEF HostHasGone
    <3>4. SecondHasAgreed(q)'
      <4>1. CASE HasHost(q) /\ thread[q].session = s
        <5>1. Second(q)' = p /\ thread'[p].session = thread'[q].session
          BY <1>0, <1>3, <1>4, <2>0, <2>2, <4>1
        <5> QED
          BY <1>2, <5>1 DEF SecondHasAgreed
      <4>2. CASE HasHost(q) /\ thread[q].session # s
        <5>1. PICK g \in Players : g = Second(q) /\ g = Second(q)'
          BY <1>4, <2>0, <2>2, <4>2
        <5>2. thread[g].pc \in Agreed /\ thread[g].session = thread[q].session
          BY <2>0, <4>2, <5>1 DEF SecondHasAgreed
        <5>3. thread'[g] = thread[g] /\ thread'[q] = thread[q]
          BY <1>1, <1>3, <2>2, <5>2
        <5> QED
          BY <5>1, <5>2, <5>3 DEF SecondHasAgreed
      <4>3. CASE ~ HasHost(q)
        BY <1>3, <2>2, <4>3 DEF SecondHasAgreed
      <4> QED
        BY <4>1, <4>2, <4>3
    <3> QED
      BY <3>1, <3>2, <3>3, <3>4
  <2> QED
    BY <2>1, <2>2
<1>7. LocksTell'
  <2> SUFFICES ASSUME NEW r \in Players, NEW q \in Players, streamLock[r] = q PROVE Keeps(q, r)'
    BY <1>0 DEF LocksTell
  <2>1. Keeps(q, r)
    BY DEF LockInv, LocksTell
  <2>2. CASE Stranded(r)
    BY <1>5, <2>2 DEF Keeps
  <2>3. CASE ~ Stranded(r)
    <3>1. q # p
      BY <1>1, <2>1, <2>3 DEF Keeps
    <3>2. CASE r = thread[q].master /\ HoldsHost(q)
      BY <1>3, <3>1, <3>2 DEF Keeps
    <3>3. CASE InMatch(q) /\ r = q
      BY <1>3, <3>1, <3>3 DEF Keeps
    <3>4. CASE InMatch(q) /\ At(r, "lockPrimary") /\ thread[r].session = thread[q].session
      <4>1. r # p
        BY <1>1, <3>4
      <4> QED
        BY <1>3, <3>1, <3>4, <4>1 DEF Keeps
    <3>5. CASE r = q /\ At(q, "loop")
      BY <1>3, <3>1, <3>5 DEF Keeps
    <3> QED
      BY <2>1, <2>3, <3>2, <3>3, <3>4, <3>5 DEF Keeps
  <2> QED
    BY <2>2, <2>3
<1> QED
  BY <1>6, <1>7 DEF LockInv

\* A host leaves: its guest's session is dead, and its host gone.
LEMMA Purge_Locks ==
  ASSUME ServerInv, LockInv, NEW p \in Players, Purge(p)
  PROVE  LockInv'
<1>0. /\ streamLock' = streamLock /\ At(p, "purging")
      /\ \A q \in Players : q # p => thread'[q] = thread[q]
      /\ thread'[p].pc = "gone"
      /\ \A s \in 1 .. Len(heap) :
           /\ heap'[s].participantSecondary = heap[s].participantSecondary
           /\ heap'[s].live <=> heap[s].live /\ heap[s].participantPrimary # p
  BY Purge_Inv
<1>1. /\ ~ HoldsHost(p) /\ ~ HasHost(p) /\ ~ InMatch(p) /\ ~ At(p, "lockPrimary") /\ ~ At(p, "loop")
      /\ ~ HoldsHost(p)' /\ ~ HasHost(p)' /\ ~ InMatch(p)' /\ At(p, "gone")'
      /\ ~ Stranded(p) /\ thread[p].pc \notin Agreed
  BY <1>0 DEF HoldsHost, HasHost, InMatch, Agreed, At, Stranded
<1>2. ASSUME NEW q \in Players, q # p
      PROVE  /\ thread'[q] = thread[q]
             /\ HoldsHost(q)' <=> HoldsHost(q)
             /\ HasHost(q)' <=> HasHost(q)
             /\ InMatch(q)' <=> InMatch(q)
             /\ At(q, "lockPrimary")' <=> At(q, "lockPrimary")
             /\ At(q, "loop")' <=> At(q, "loop")
             /\ At(q, "gone")' <=> At(q, "gone")
  BY <1>0, <1>2 DEF HoldsHost, HasHost, InMatch, At
<1>3. ASSUME NEW q \in Players, thread[q].pc \in Agreed
      PROVE  /\ q # p
             /\ Second(q)' = Second(q) /\ Second(q) \in Players
             /\ Mine(q)'.live <=> Mine(q).live /\ thread[q].master # p
  <2>1. /\ thread[q].session \in 1 .. Len(heap) /\ thread[q].master = Mine(q).participantPrimary
        /\ Second(q) \in Players
    BY <1>3, Opponents DEF Second
  <2>2. q # p /\ thread'[q] = thread[q]
    BY <1>1, <1>2, <1>3
  <2> QED
    BY <1>0, <2>1, <2>2 DEF Mine, Second
<1>4. ASSUME NEW q \in Players, Stranded(q) PROVE Stranded(q)'
  BY <1>2, <1>3, <1>4, Holders DEF Stranded
<1>5. ASSUME NEW q \in Players
      PROVE  (HostIsLocked(q) /\ GuestIsLocked(q) /\ HostHasGone(q) /\ SecondHasAgreed(q))'
  <2>0. /\ HostIsLocked(q) /\ GuestIsLocked(q) /\ HostHasGone(q) /\ SecondHasAgreed(q)
        /\ HoldsHost(q) => thread[q].master \in Players
        /\ HasHost(q) => HoldsHost(q) /\ thread[q].pc \in Agreed
        /\ InMatch(q) => HasHost(q)
    BY ChosenMaster, Holders DEF LockInv
  <2>1. CASE q = p
    BY <1>1, <2>1 DEF HostIsLocked, GuestIsLocked, HostHasGone, SecondHasAgreed
  <2>2. CASE q # p
    <3>1. HostIsLocked(q)'
      <4> SUFFICES ASSUME HoldsHost(q), ~ Stranded(thread[q].master)'
                   PROVE  streamLock[thread[q].master] = q
        BY <1>0, <1>2, <2>2 DEF HostIsLocked
      <4>1. PICK h \in Players : h = thread[q].master
        BY <2>0
      <4>2. ~ Stranded(h)
        BY <1>2, <1>4, <2>2, <4>1
      <4> QED
        BY <2>0, <4>1, <4>2 DEF HostIsLocked
    <3>2. GuestIsLocked(q)'
      BY <1>0, <1>2, <1>3, <2>0, <2>2 DEF GuestIsLocked, Second
    <3>3. HostHasGone(q)'
      BY <1>1, <1>2, <1>3, <2>0, <2>2 DEF HostHasGone
    <3>4. SecondHasAgreed(q)'
      <4> SUFFICES ASSUME HasHost(q)
                   PROVE  thread'[Second(q)'].pc \in Agreed /\ thread'[Second(q)'].session = thread'[q].session
        BY <1>2, <2>2 DEF SecondHasAgreed
      <4>1. PICK g \in Players : g = Second(q) /\ g = Second(q)'
        BY <1>3, <2>0
      <4>2. thread[g].pc \in Agreed /\ thread[g].session = thread[q].session
        BY <2>0, <4>1 DEF SecondHasAgreed
      <4>3. thread'[g] = thread[g] /\ thread'[q] = thread[q]
        BY <1>2, <1>3, <2>2, <4>2
      <4> QED
        BY <4>1, <4>2, <4>3
    <3> QED
      BY <3>1, <3>2, <3>3, <3>4
  <2> QED
    BY <2>1, <2>2
<1>6. LocksTell'
  <2> SUFFICES ASSUME NEW r \in Players, NEW q \in Players, streamLock[r] = q PROVE Keeps(q, r)'
    BY <1>0 DEF LocksTell
  <2>1. Keeps(q, r)
    BY DEF LockInv, LocksTell
  <2>2. CASE Stranded(r)
    BY <1>4, <2>2 DEF Keeps
  <2>3. CASE ~ Stranded(r)
    <3>1. q # p
      BY <1>1, <2>1, <2>3 DEF Keeps
    <3>2. CASE r = thread[q].master /\ HoldsHost(q)
      BY <1>2, <3>1, <3>2 DEF Keeps
    <3>3. CASE InMatch(q) /\ r = q
      BY <1>2, <3>1, <3>3 DEF Keeps
    <3>4. CASE InMatch(q) /\ At(r, "lockPrimary") /\ thread[r].session = thread[q].session
      <4>1. r # p
        BY <1>1, <3>4
      <4> QED
        BY <1>2, <3>1, <3>4, <4>1 DEF Keeps
    <3>5. CASE r = q /\ At(q, "loop")
      BY <1>2, <3>1, <3>5 DEF Keeps
    <3> QED
      BY <2>1, <2>3, <3>2, <3>3, <3>4, <3>5 DEF Keeps
  <2> QED
    BY <2>2, <2>3
<1> QED
  BY <1>5, <1>6 DEF LockInv

\* The match is over: who else was approved for its session is stranded.  A guest
\* whose place was taken keeps its own lock, or that of who took it.
LEMMA EndMatch_Locks ==
  ASSUME ServerInv, LockInv, NEW p \in Players, ~ UsesFreedMemory(p), EndMatch(p)
  PROVE  LockInv'
<1>0. /\ At(p, "ending")
      /\ streamLock' = [q \in Players |-> IF q \in NodesOf(Mine(p)) THEN Null ELSE streamLock[q]]
      /\ \A q \in Players : q # p => thread'[q] = thread[q]
      /\ thread'[p].pc = "loop"
      /\ \A r \in 1 .. Len(heap) :
           /\ heap'[r].participantSecondary = heap[r].participantSecondary
           /\ heap'[r].live <=> heap[r].live /\ r # thread[p].session
  BY EndMatch_Inv
<1>1. /\ thread[p].pc \in Agreed /\ Approved(p) /\ InMatch(p) /\ HasHost(p) /\ ~ Stranded(p)
      /\ ~ At(p, "lockPrimary") /\ ~ At(p, "loop") /\ ~ At(p, "gone")
      /\ ~ InMatch(p)' /\ ~ HasHost(p)' /\ ~ HoldsHost(p)' /\ At(p, "loop")'
  BY <1>0 DEF At, Agreed, Approved, InMatch, HasHost, HoldsHost, Stranded
<1>2. PICK s \in 1 .. Len(heap) : s = thread[p].session
  BY <1>1, Opponents
<1>3. PICK m \in Players : m = thread[p].master /\ m # p /\ streamLock[m] = p
  BY <1>1, HostOfMatch
<1>4. PICK g \in Players :
        /\ g = Second(p) /\ NodesOf(Mine(p)) = {m, g}
        /\ thread[g].pc \in Agreed /\ thread[g].session = s
  BY <1>1, <1>2, <1>3, Opponents DEF LockInv, SecondHasAgreed, Second
<1>5. streamLock \in [Players -> Players \cup {Null}] /\ Null \notin Players
  BY ServerAssumption DEF ServerInv, Typed
<1>6. \A q \in Players : streamLock'[q] = IF q \in {m, g} THEN Null ELSE streamLock[q]
  BY <1>0, <1>4
<1>7. ASSUME NEW q \in Players, q # p
      PROVE  /\ thread'[q] = thread[q]
             /\ HoldsHost(q)' <=> HoldsHost(q)
             /\ HasHost(q)' <=> HasHost(q)
             /\ InMatch(q)' <=> InMatch(q)
             /\ At(q, "lockPrimary")' <=> At(q, "lockPrimary")
             /\ At(q, "loop")' <=> At(q, "loop")
             /\ At(q, "gone")' <=> At(q, "gone")
             /\ HasHost(q) => thread[q].session # s
  BY <1>0, <1>1, <1>2, <1>7, OnePlays DEF HoldsHost, HasHost, InMatch, At
<1>8. ASSUME NEW q \in Players, thread[q].pc \in Agreed, q # p
      PROVE  /\ Second(q)' = Second(q) /\ Second(q) \in Players
             /\ Mine(q)'.live <=> Mine(q).live /\ thread[q].session # s
  <2>1. thread[q].session \in 1 .. Len(heap) /\ Second(q) \in Players
    BY <1>8, Opponents DEF Second
  <2> QED
    BY <1>0, <1>2, <1>7, <1>8, <2>1 DEF Mine, Second
<1>9. ASSUME NEW q \in Players, q # p, Stranded(q) \/ (At(q, "lockPrimary") /\ thread[q].session = s)
      PROVE  Stranded(q)'
  <2>1. At(q, "lockPrimary") /\ thread[q].pc \in Agreed
    BY <1>9, Holders DEF Stranded
  <2> QED
    BY <1>7, <1>8, <1>9, <2>1 DEF Stranded
<1>10. IF g = p THEN streamLock[p] = p ELSE Stranded(g)'
  <2>1. CASE g = p
    BY <1>1, <1>4, <2>1 DEF LockInv, GuestIsLocked, Second
  <2>2. CASE g # p
    <3>1. ~ HasHost(g)
      BY <1>4, <1>7, <2>2
    <3>2. At(g, "lockPrimary")
      BY <1>4, <3>1, Holders
    <3> QED
      BY <1>4, <1>9, <2>2, <3>2
  <2> QED
    BY <2>1, <2>2
<1>11. ASSUME NEW q \in Players
       PROVE  (HostIsLocked(q) /\ GuestIsLocked(q) /\ HostHasGone(q) /\ SecondHasAgreed(q))'
  <2>0. /\ HostIsLocked(q) /\ GuestIsLocked(q) /\ HostHasGone(q) /\ SecondHasAgreed(q)
        /\ HoldsHost(q) => thread[q].master \in Players
        /\ HasHost(q) => HoldsHost(q) /\ thread[q].pc \in Agreed
        /\ InMatch(q) => HasHost(q)
    BY ChosenMaster, Holders DEF LockInv
  <2>1. CASE q = p
    BY <1>1, <2>1 DEF HostIsLocked, GuestIsLocked, HostHasGone, SecondHasAgreed
  <2>2. CASE q # p
    <3>1. HostIsLocked(q)'
      <4> SUFFICES ASSUME HoldsHost(q), ~ Stranded(thread[q].master)'
                   PROVE  streamLock'[thread[q].master] = q
        BY <1>7, <2>2 DEF HostIsLocked
      <4>1. PICK h \in Players : h = thread[q].master
        BY <2>0
      <4>2. ~ Stranded(h)'
        BY <1>7, <2>2, <4>1
      <4>3. ~ Stranded(h)
        BY <1>1, <1>9, <4>2
      <4>4. streamLock[h] = q
        BY <2>0, <4>1, <4>3 DEF HostIsLocked
      <4>5. h # m /\ h # g
        BY <1>3, <1>10, <2>2, <4>2, <4>4
      <4> QED
        BY <1>6, <4>1, <4>4, <4>5
    <3>2. GuestIsLocked(q)'
      <4> SUFFICES ASSUME InMatch(q), Second(q) = q PROVE streamLock'[q] = q
        BY <1>7, <1>8, <2>0, <2>2 DEF GuestIsLocked, Second
      <4>1. streamLock[q] = q
        BY <2>0 DEF GuestIsLocked, Second
      <4>2. q # m /\ q # g
        BY <1>3, <1>4, <1>7, <2>0, <2>2, <4>1
      <4> QED
        BY <1>6, <4>1, <4>2
    <3>3. HostHasGone(q)'
      <4>1. HasHost(q) /\ ~ Mine(q).live => At(thread[q].master, "gone") /\ thread[q].master # p
        BY <1>1, <2>0 DEF HostHasGone
      <4> QED
        BY <1>7, <1>8, <2>0, <2>2, <4>1 DEF HostHasGone
    <3>4. SecondHasAgreed(q)'
      <4> SUFFICES ASSUME HasHost(q)
                   PROVE  thread'[Second(q)'].pc \in Agreed /\ thread'[Second(q)'].session = thread'[q].session
        BY <1>7, <2>2 DEF SecondHasAgreed
      <4>1. PICK r \in Players : r = Second(q) /\ r = Second(q)'
        BY <1>8, <2>0, <2>2
      <4>2. thread[r].pc \in Agreed /\ thread[r].session = thread[q].session
        BY <2>0, <4>1 DEF SecondHasAgreed
      <4>3. r # p
        BY <1>2, <1>7, <2>2, <4>2
      <4>4. thread'[r] = thread[r] /\ thread'[q] = thread[q]
        BY <1>7, <2>2, <4>3
      <4> QED
        BY <4>1, <4>2, <4>4
    <3> QED
      BY <3>1, <3>2, <3>3, <3>4
  <2> QED
    BY <2>1, <2>2
<1>12. LocksTell'
  <2> SUFFICES ASSUME NEW r \in Players, NEW q \in Players, streamLock'[r] = q PROVE Keeps(q, r)'
    BY DEF LocksTell
  <2>1. r # m /\ r # g /\ streamLock[r] = q
    BY <1>5, <1>6
  <2>2. Keeps(q, r)
    BY <2>1 DEF LockInv, LocksTell
  <2>3. CASE Stranded(r)
    <3>1. Stranded(r)'
      BY <1>1, <1>9, <2>3
    <3> QED
      BY <3>1 DEF Keeps
  <2>4. CASE ~ Stranded(r) /\ q = p
    <3>1. r = p \/ (At(r, "lockPrimary") /\ thread[r].session = s)
      BY <1>1, <1>2, <1>3, <2>1, <2>2, <2>4 DEF Keeps
    <3>2. CASE r = p
      BY <1>1, <2>4, <3>2 DEF Keeps
    <3>3. CASE r # p
      <4>1. Stranded(r)'
        BY <1>9, <3>1, <3>3
      <4> QED
        BY <4>1 DEF Keeps
    <3> QED
      BY <3>2, <3>3
  <2>5. CASE ~ Stranded(r) /\ q # p
    <3>1. CASE r = thread[q].master /\ HoldsHost(q)
      BY <1>7, <2>5, <3>1 DEF Keeps
    <3>2. CASE InMatch(q) /\ r = q
      BY <1>7, <2>5, <3>2 DEF Keeps
    <3>3. CASE InMatch(q) /\ At(r, "lockPrimary") /\ thread[r].session = thread[q].session
      <4>1. r # p
        BY <1>1, <3>3
      <4> QED
        BY <1>7, <2>5, <3>3, <4>1 DEF Keeps
    <3>4. CASE r = q /\ At(q, "loop")
      BY <1>7, <2>5, <3>4 DEF Keeps
    <3> QED
      BY <2>2, <2>5, <3>1, <3>2, <3>3, <3>4 DEF Keeps
  <2> QED
    BY <2>3, <2>4, <2>5
<1> QED
  BY <1>11, <1>12 DEF LockInv

LEMMA Init_Locks == Init => LockInv
<1> SUFFICES ASSUME Init PROVE LockInv
  OBVIOUS
<1>1. \A q \in Players : thread[q].pc = "loop" /\ streamLock[q] = Null
  BY DEF Init, InLoop
<1>2. Null \notin Players
  BY ServerAssumption
<1>3. LocksTell
  BY <1>1, <1>2 DEF LocksTell
<1>4. \A q \in Players : ~ HoldsHost(q) /\ ~ HasHost(q) /\ ~ InMatch(q)
  BY <1>1 DEF HoldsHost, HasHost, InMatch, At
<1> QED
  BY <1>3, <1>4 DEF LockInv, HostIsLocked, GuestIsLocked, HostHasGone, SecondHasAgreed

LEMMA Next_Locks == ServerInv /\ LockInv /\ [Next]_vars => LockInv'
<1> SUFFICES ASSUME ServerInv, LockInv, [Next]_vars PROVE LockInv'
  OBVIOUS
<1>1. ASSUME UNCHANGED <<memory, thread>> PROVE LockInv'
  <2>1. heap' = heap /\ streamLock' = streamLock /\ thread' = thread
    BY <1>1 DEF memory, sessions
  <2> QED
    BY <2>1 DEF LockInv, LocksTell, Keeps, HostIsLocked, GuestIsLocked, HostHasGone, SecondHasAgreed,
                HoldsHost, HasHost, InMatch, Stranded, Second, At, Mine
<1>2. ASSUME NEW p \in Players, ServerStep(p) PROVE LockInv'
  <2>1. CASE UNCHANGED <<memory, thread, network>>
    BY <1>1, <2>1
  <2>2. CASE Keeping(p) /\ ~ UsesFreedMemory(p)
    BY <2>2, Lone_Locks, Match_Locks, SendChallenge_Locks, ReadVerdict_Locks, LockPrimary_Locks,
       LockSecondary_Locks DEF Keeping
  <2>3. CASE ~ UsesFreedMemory(p) /\ ~ Keeping(p) /\ ~ UNCHANGED <<memory, thread, network>>
    BY <1>2, <2>3, Steps, Purge_Locks, CreateSession_Locks, Request_Locks, RelayApproved_Locks, EndMatch_Locks
  <2> QED
    BY <1>2, <2>1, <2>2, <2>3, Steps
<1>3. ASSUME NEW p \in Players, ClientStep(p) PROVE LockInv'
  BY <1>1, <1>3, ClientStep_Only
<1>4. CASE UNCHANGED vars
  BY <1>1, <1>4 DEF vars
<1> QED
  BY <1>2, <1>3, <1>4 DEF Next

-----------------------------------------------------------------------------
(***************************************************************************)
(* What the two invariants say.                                            *)
(***************************************************************************)
\* Whom the thread of a match plays with.
LEMMA PlayersOfMatch ==
  ASSUME ServerInv, LockInv, NEW p \in Players, InMatch(p)
  PROVE  /\ HasHost(p) /\ thread[p].pc \in Agreed
         /\ thread[p].master = Mine(p).participantPrimary
         /\ Second(p) \in Players
         /\ NodesOf(Mine(p)) = {thread[p].master, Second(p)}
         /\ thread[Second(p)].pc \in Agreed
         /\ thread[Second(p)].session = thread[p].session
<1>1. HasHost(p) /\ thread[p].pc \in Agreed
  BY Holders
<1> QED
  BY <1>1, Opponents DEF Second, LockInv, SecondHasAgreed

LEMMA Inv_OneMatchEach == ServerInv /\ LockInv => OneMatchEach
<1> SUFFICES ASSUME ServerInv, LockInv, NEW p \in Players, NEW q \in Players,
                    p # q, InMatch(p), InMatch(q)
             PROVE  NodesOf(Mine(p)) \cap NodesOf(Mine(q)) = {}
  BY DEF OneMatchEach
<1>1. /\ HasHost(p) /\ NodesOf(Mine(p)) = {thread[p].master, Second(p)}
      /\ thread[Second(p)].pc \in Agreed /\ thread[Second(p)].session = thread[p].session
  BY PlayersOfMatch
<1>2. /\ HasHost(q) /\ NodesOf(Mine(q)) = {thread[q].master, Second(q)}
      /\ thread[Second(q)].pc \in Agreed /\ thread[Second(q)].session = thread[q].session
  BY PlayersOfMatch
<1>3. thread[p].master # thread[q].master
  BY <1>1, <1>2, HostOfMatch
<1>4. thread[p].master # Second(q) /\ thread[q].master # Second(p)
  BY <1>1, <1>2, HostOfMatch
<1>5. Second(p) # Second(q)
  BY <1>1, <1>2, OnePlays
<1> QED
  BY <1>1, <1>2, <1>3, <1>4, <1>5

LEMMA Inv_PlayersAreHeld == ServerInv /\ LockInv => PlayersAreHeld
<1> SUFFICES ASSUME ServerInv, LockInv, NEW p \in Players, NEW q \in Players, p # q, InMatch(p),
                    NEW r \in NodesOf(Mine(p)) \cap {p, Mine(p).participantPrimary}, Reads(q, r)
             PROVE  FALSE
  BY DEF PlayersAreHeld
<1>1. /\ HasHost(p) /\ thread[p].master = Mine(p).participantPrimary
      /\ NodesOf(Mine(p)) = {thread[p].master, Second(p)} /\ Second(p) \in Players
  BY PlayersOfMatch
<1>2. thread[p].master \in Players \ {p} /\ ~ Stranded(thread[p].master) /\ streamLock[thread[p].master] = p
  BY <1>1, HostOfMatch
<1>3. Null \notin Players
  BY ServerAssumption
<1>4. r \in Players /\ ~ Stranded(r) /\ streamLock[r] = p
  <2>1. CASE r = thread[p].master
    BY <1>2, <2>1
  <2>2. CASE r # thread[p].master
    <3>1. r = p /\ Second(p) = p
      BY <1>1, <2>2
    <3>2. streamLock[p] = p
      BY <3>1 DEF LockInv, GuestIsLocked, Second
    <3>3. ~ Stranded(p)
      BY <1>1, Holders DEF Stranded
    <3> QED
      BY <3>1, <3>2, <3>3
  <2> QED
    BY <2>1, <2>2
<1>5. CASE At(q, "verdict") /\ thread[q].master = r
  <2>1. HoldsHost(q)
    BY <1>5 DEF HoldsHost
  <2>2. streamLock[r] = q
    BY <1>4, <1>5, <2>1 DEF LockInv, HostIsLocked
  <2> QED
    BY <1>4, <2>2
<1> QED
  BY <1>3, <1>4, <1>5 DEF Reads

\* Who waits for a lock finds, behind it, a thread that waits for nothing, or at
\* most for one that waits for nothing; but for one that has locked itself out.
LEMMA HolderGoesOn ==
  ASSUME ServerInv, LockInv, MemoryIsSafe, NEW r \in Players, NEW p \in Players, streamLock[r] = p
  PROVE  \/ r = thread[p].master /\ HasHost(p) /\ At(p, "lockSecondary")
         \/ WaitsFor(p) = Null
         \/ r = p /\ At(p, "loop") /\ WaitsFor(p) = p
<1>1. Keeps(p, r)
  BY DEF LockInv, LocksTell
<1>2. ~ Stranded(r)
  <2>1. SUFFICES ASSUME Stranded(r) PROVE FALSE
    OBVIOUS
  <2>2. Approved(r)
    BY <2>1 DEF Stranded, Approved, At, Agreed
  <2>3. UsesFreedMemory(r)
    BY <2>1, <2>2 DEF Stranded, UsesFreedMemory, SessionsUsed, Mine
  <2> QED
    BY <2>3 DEF MemoryIsSafe
<1>3. CASE At(p, "verdict") \/ InMatch(p)
  BY <1>3 DEF WaitsFor, InMatch, At
<1>4. CASE r = p /\ At(p, "loop")
  BY <1>4 DEF WaitsFor, At
<1> QED
  BY <1>1, <1>2, <1>3, <1>4 DEF Keeps, HoldsHost, HasHost, At

LEMMA Inv_NoCircularWait == ServerInv /\ LockInv => NoCircularWait
<1> SUFFICES ASSUME ServerInv, LockInv, MemoryIsSafe,
                    NEW S \in (SUBSET Players) \ {{}},
                    \A p \in S : WaitsFor(p) \in S \ {p}
             PROVE  FALSE
  BY DEF NoCircularWait
<1>0. Null \notin Players
  BY ServerAssumption
<1>1. ASSUME NEW p \in S
      PROVE  \E r \in Players : streamLock[r] = WaitsFor(p)
  <2>1. WaitsFor(p) # Null /\ p \in Players
    BY <1>0
  <2>2. CASE At(p, "loop")
    BY <2>1, <2>2 DEF WaitsFor, At
  <2>3. CASE At(p, "challenge")
    <3>1. thread[p].master \in Players
      BY <2>1, <2>3, ChosenMaster DEF At, Chosen
    <3> QED
      BY <2>3, <3>1 DEF WaitsFor, At
  <2>4. CASE At(p, "lockPrimary") \/ At(p, "lockSecondary")
    <3>1. Mine(p).participantPrimary \in Players /\ Mine(p).participantSecondary \in Players
      BY <2>1, <2>4, Opponents DEF At, Agreed
    <3> QED
      BY <2>4, <3>1 DEF WaitsFor, At
  <2> QED
    BY <2>1, <2>2, <2>3, <2>4 DEF WaitsFor
<1>2. PICK p \in S : TRUE
  OBVIOUS
<1>3. PICK x \in S : x = WaitsFor(p)
  BY <1>2
<1>4. At(x, "lockSecondary") /\ HasHost(x)
  <2>1. WaitsFor(x) # Null /\ WaitsFor(x) # x
    BY <1>0
  <2> QED
    BY <1>1, <1>3, <2>1, HolderGoesOn
<1>5. PICK y \in S : y = WaitsFor(x) /\ y = streamLock[Second(x)]
  BY <1>4 DEF WaitsFor, At, Second
<1>6. Second(x) \in Players /\ thread[Second(x)].pc \in Agreed
  BY <1>4, Holders, Opponents DEF Second, LockInv, SecondHasAgreed
<1>7. Second(x) = thread[y].master /\ HasHost(y)
  <2>1. WaitsFor(y) # Null /\ WaitsFor(y) # y
    BY <1>0
  <2> QED
    BY <1>5, <1>6, <2>1, HolderGoesOn
<1> QED
  BY <1>6, <1>7, HostOfMatch

LEMMA Inv_NoZombieSessions == ServerInv => NoZombieSessions
<1> SUFFICES ASSUME ServerInv, NEW i \in Live(activeMatchSessions)
             PROVE  LET s == activeMatchSessions.heap_region[i]
                    IN node[heap[s].participantPrimary].activeSessionId = heap[s].sessionId
  BY DEF NoZombieSessions, Registered
<1>1. activeMatchSessions.heap_region[i] \in 1 .. Len(heap) /\ heap[activeMatchSessions.heap_region[i]].live
  BY DEF ServerInv, StoreHolds, IsStore, Live
<1> QED
  BY <1>1 DEF ServerInv, HostsAreBound

LEMMA Always == Spec => [](ServerInv /\ LockInv)
<1>1. Init => ServerInv /\ LockInv
  BY Init_Inv, Init_Locks
<1>2. ServerInv /\ LockInv /\ [Next]_vars => (ServerInv /\ LockInv)'
  BY Next_Inv, Next_Locks
<1> QED
  BY <1>1, <1>2, PTL DEF Spec

\* Nobody plays in two matches at once, whatever the programs write and however
\* many guests are approved (the comment of server.c:1051).
THEOREM NobodyPlaysTwice == Spec => []OneMatchEach
<1>1. ServerInv /\ LockInv => OneMatchEach
  BY Inv_OneMatchEach
<1> QED
  BY <1>1, Always, PTL

\* No other thread is about to read the stream of the host of a match, or of the
\* guest that plays it (enforce_locking, server.c:368-387), whatever the programs
\* write.
THEOREM PlayersAreTheMatchs == Spec => []PlayersAreHeld
<1>1. ServerInv /\ LockInv => PlayersAreHeld
  BY Inv_PlayersAreHeld
<1> QED
  BY <1>1, Always, PTL

\* The threads never wait for the streamLocks of one another in a circle, as long
\* as no freed session is used.
THEOREM NobodyWaitsForEver == Spec => []NoCircularWait
<1>1. ServerInv /\ LockInv => NoCircularWait
  BY Inv_NoCircularWait
<1> QED
  BY <1>1, Always, PTL

\* A session in the store is that of a host that is bound to it ("Zombie
\* Sessions", server.c:1053), whatever the programs write.
THEOREM StoreHasNoZombies == Spec => []NoZombieSessions
<1>1. ServerInv /\ LockInv => NoZombieSessions
  BY Inv_NoZombieSessions
<1> QED
  BY <1>1, Always, PTL

=============================================================================
