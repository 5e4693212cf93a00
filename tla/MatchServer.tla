---------------------------- MODULE MatchServer ----------------------------
(***************************************************************************)
(* The threads of the players (executePlayerNodeLifecycle of server.c and  *)
(* the handlers it calls), their streamLocks, the challenge of a host, and *)
(* the nodes and sessions as memory that is freed while others point at    *)
(* it.  The clients are the Java programs seen from their socket.          *)
(*                                                                         *)
(* Abstracted: the board and who wins (CoreMatch); the growth of the store *)
(* and the steps inside a creation, the end of a match and a purge         *)
(* (SessionRegistry); activePlayerNodes (NodeRegistry); SIGPIPE            *)
(* (CoreMatch).  Every player is connected at the start, once.  The bytes  *)
(* sent to the server are exact, what it sends is a record per message.    *)
(***************************************************************************)
EXTENDS SessionIds, DynamicArray

CONSTANTS
  Players,
  Starter,        \* configure_memory_store(&activeMatchSessions, 3, ...)
  Hosts,          \* bound: players who create matches
  MaxCreations,   \* bound: clicks on the create buttons
  MaxRequests,    \* bound: ledgers and joins asked for
  NameLengths,    \* bound: the lengths of the names users choose
  Cells,          \* bound: the cells a user clicks
  Slow,           \* players for whom 30 seconds may elapse, on either side
  Quitters,       \* players whose program may stop
  Pollers,        \* players whose lobby polls the ledger, in a match too
  Astray,         \* players whose program, once lost, may write any word it knows
  MaxUnread       \* bound: bytes a poller leaves unread

ASSUME ServerAssumption ==
  /\ Cells \subseteq 1..9
  /\ Hosts \subseteq Players /\ Slow \subseteq Players
  /\ NameLengths \subseteq Nat \ {0}
  /\ Quitters \subseteq Players /\ Pollers \subseteq Players /\ Astray \subseteq Players
  /\ {MaxUnread, MaxCreations, MaxRequests, Starter} \subseteq Nat
  /\ MaxId <= Starter   \* so that the store has room for every identifier
  /\ Null \notin Players \cup Nat

OP_BUILD_MATCH_SESSION == 1
OP_FETCH_WAITING_LIST == 2
OP_INIT_MATCH_SESSION == 3
OP_TERMINATE_LINK == 4
OP_APPROVE_REQ == 5
OP_DECLINE_REQ == 6
LIMIT_IDENTITY_CAPACITY == 64
NoId == -1

VARIABLES
  activeMatchSessions,   \* its elements point into heap
  heap,                  \* every struct MatchSession ever allocated
  node,                  \* the struct PlayerNode of each player
  streamLock,            \* the player whose thread holds it, or Null
  thread,                \* the thread of each player and the locals it still needs
  link, toServer, toClient,
  client,                \* where the program of each player is
  second,                \* what another of its threads will do with byte_consumer
  consent,               \* history: whom its user was last asked about, and the answer
  creations, requests,   \* counted for the bounds
  aborted                \* AddressSanitizer has stopped the server

sessions == <<idVars, activeMatchSessions, heap>>
memory == <<sessions, node, streamLock>>
network == <<link, toServer, toClient>>
users == <<client, second, consent, creations, requests>>
vars == <<memory, thread, network, users, aborted>>

Int4(n) == <<0, 0, 0, n>>
Int2(n) == <<0, n>>
Name(n) == [i \in 1..n |-> 97]
Number(b) == ((b[1] * 256 + b[2]) * 256 + b[3]) * 256 + b[4]

Message(type, from, value) == [type |-> type, from |-> from, value |-> value]

InLoop == [pc |-> "loop", opcode |-> Int4(0), target |-> NoId, session |-> 0,
           master |-> Null, acting |-> Null, verdict |-> 0]

Init ==
  /\ IdInit
  /\ activeMatchSessions = configure_memory_store(Starter)
  /\ heap = <<>>
  /\ node = [p \in Players |-> [live |-> TRUE, activeSessionId |-> NoId, timeoutTicks |-> 0]]
  /\ streamLock = [p \in Players |-> Null]
  /\ thread = [p \in Players |-> InLoop]
  /\ link = [p \in Players |-> "open"]
  /\ toServer = [p \in Players |-> <<>>]
  /\ toClient = [p \in Players |-> <<>>]
  /\ client = [p \in Players |-> "lobby"]
  /\ second = [p \in Players |-> "none"]
  /\ consent = [p \in Players |-> [to |-> Null, yes |-> FALSE]]
  /\ creations = 0
  /\ requests = 0
  /\ aborted = FALSE

-----------------------------------------------------------------------------
(***************************************************************************)
(* What the handlers are made of.                                          *)
(***************************************************************************)
At(p, pc) == thread[p].pc = pc
Goes(p, pc) == thread' = [thread EXCEPT ![p].pc = pc]

\* The locals of the handler are gone, the buffer of the opcode is not; the
\* loop clears the tick.
Returns(p) ==
  /\ thread' = [thread EXCEPT ![p] = [InLoop EXCEPT !.opcode = thread[p].opcode]]
  /\ node' = [node EXCEPT ![p].timeoutTicks = 0]

\* recv until n bytes are there ...
Receives(q, n) == /\ Len(toServer[q]) >= n
                  /\ toServer' = [toServer EXCEPT ![q] = SubSeq(@, n + 1, Len(@))]
\* ... or 30 seconds elapse, or the peer has gone.
Starves(q, n) == /\ Len(toServer[q]) < n
                 /\ q \in Slow \/ link[q] # "open"
                 /\ toServer' = [toServer EXCEPT ![q] = <<>>]
IntAt(q, i) == Number(SubSeq(toServer[q], i, i + 3))

To(p, messages) == [q \in Players |-> IF q = p THEN messages ELSE <<>>]
NodesOf(s) == {s.participantPrimary, s.participantSecondary} \ {Null}
ToBoth(s, message) == [q \in Players |-> IF q \in NodesOf(s) THEN <<message>> ELSE <<>>]
Sends(messages) ==
  toClient' = [q \in Players |->
                 IF link[q] = "open" THEN toClient[q] \o messages[q] ELSE <<>>]

Acquires(p, q) == /\ streamLock[q] = Null
                  /\ streamLock' = [streamLock EXCEPT ![q] = p]

Registered == {activeMatchSessions.heap_region[i] : i \in Live(activeMatchSessions)}
Mine(p) == heap[thread[p].session]

-----------------------------------------------------------------------------
(***************************************************************************)
(* The loop of executePlayerNodeLifecycle.  A poll that finds nothing and  *)
(* changes nothing is not a step.                                          *)
(***************************************************************************)
\* Mutant: P1, the check of activeSessionId, is left out.
HandlerUnchecked(p, opcode) ==
  CASE opcode = OP_INIT_MATCH_SESSION -> "join"
    [] opcode = OP_BUILD_MATCH_SESSION -> "create"
    [] opcode = OP_FETCH_WAITING_LIST -> "fetch"
    [] opcode = OP_TERMINATE_LINK -> "leaving"
    [] OTHER -> "loop"
Handler(p, opcode) ==
  LET bound == node[p].activeSessionId # NoId
  IN CASE opcode = OP_INIT_MATCH_SESSION -> IF bound THEN "discardId" ELSE "join"
       [] opcode = OP_BUILD_MATCH_SESSION -> IF bound THEN "discardLength" ELSE "create"
       [] opcode = OP_FETCH_WAITING_LIST -> "fetch"
       [] opcode = OP_TERMINATE_LINK -> "leaving"
       [] OTHER -> "loop"

\* recv takes up to four bytes; those that do not come are the last opcode's.
ReadOpcode(p) ==
  LET read == IF Len(toServer[p]) < 4 THEN Len(toServer[p]) ELSE 4
      opcode == SubSeq(toServer[p], 1, read) \o SubSeq(thread[p].opcode, read + 1, 4)
      handler == Handler(p, Number(opcode))
  IN /\ At(p, "loop")
     /\ streamLock[p] = Null
     /\ toServer[p] # <<>>
     /\ Receives(p, read)
     /\ thread' = [thread EXCEPT ![p].opcode = opcode, ![p].pc = handler]
     /\ node' = IF handler = "loop" THEN [node EXCEPT ![p].timeoutTicks = 0] ELSE node
     /\ UNCHANGED <<sessions, streamLock, link, toClient, users, aborted>>

PollIdle(p) ==
  /\ At(p, "loop")
  /\ streamLock[p] = Null
  /\ toServer[p] = <<>>
  /\ IF link[p] = "open" THEN /\ p \in Slow \/ node[p].timeoutTicks = 1
                              /\ Goes(p, "deadline")
                         ELSE Goes(p, "leaving")
  /\ UNCHANGED <<memory, network, users, aborted>>

\* streamLock is free again: a challenge may come between the poll and this.
CheckDeadline(p) ==
  /\ At(p, "deadline")
  /\ \/ Goes(p, "loop")
     \/ p \in Slow /\ node[p].timeoutTicks # 1 /\ Goes(p, "leaving")
  /\ node' = [node EXCEPT ![p].timeoutTicks = 0]
  /\ UNCHANGED <<sessions, streamLock, network, users, aborted>>

\* Clean-up: the node is freed and the socket closed ...
FreeNode(p) ==
  /\ At(p, "leaving")
  /\ node' = [node EXCEPT ![p].live = FALSE]
  /\ link' = [link EXCEPT ![p] = "closed"]
  /\ toClient' = [toClient EXCEPT ![p] = <<>>]
  /\ Goes(p, "purging")
  /\ UNCHANGED <<sessions, streamLock, toServer, users, aborted>>

\* ... and then the session it created is freed.
Purge(p) ==
  LET orphans == {i \in Live(activeMatchSessions) :
                    heap[activeMatchSessions.heap_region[i]].participantPrimary = p}
  IN /\ At(p, "purging")
     /\ IF orphans = {} THEN UNCHANGED sessions
        ELSE \E i \in orphans :
               LET s == activeMatchSessions.heap_region[i]
               IN /\ relinquishSessionIdentifier(heap[s].sessionId)
                  /\ activeMatchSessions' = excise_at_offset(activeMatchSessions, i)
                  /\ heap' = [heap EXCEPT ![s].live = FALSE]
     /\ Goes(p, "gone")
     /\ UNCHANGED <<node, streamLock, network, users, aborted>>

Loop(p) == ReadOpcode(p) \/ PollIdle(p) \/ CheckDeadline(p) \/ FreeNode(p) \/ Purge(p)

-----------------------------------------------------------------------------
(***************************************************************************)
(* process_instantiation_request.                                          *)
(***************************************************************************)
AcquireId(p) ==
  /\ At(p, "create")
  /\ acquireNewSessionIdentifier
  /\ thread' = [thread EXCEPT ![p].pc = "naming", ![p].target = NextId]
  /\ UNCHANGED <<activeMatchSessions, heap, node, streamLock, network, users, aborted>>

NameLength(p) == IF Len(toServer[p]) >= 4 THEN IntAt(p, 1) ELSE 0

CreateSession(p) ==
  LET id == thread[p].target
      s == Len(heap) + 1
  IN /\ At(p, "naming")
     /\ NameLength(p) \in 1 .. LIMIT_IDENTITY_CAPACITY
     /\ Receives(p, 4 + NameLength(p))
     /\ heap' = Append(heap, [participantPrimary |-> p, participantSecondary |-> Null,
                              sessionId |-> id, live |-> TRUE])
     /\ activeMatchSessions' = implant_at_offset(activeMatchSessions, id, s)
     /\ node' = [node EXCEPT ![p].activeSessionId = id, ![p].timeoutTicks = 0]
     /\ thread' = [thread EXCEPT ![p] = [InLoop EXCEPT !.opcode = thread[p].opcode]]
     /\ UNCHANGED <<idVars, streamLock, link, toClient, users, aborted>>

\* The length or the name is refused or does not come: pthread_exit.  The node
\* stays registered and the socket open.
CreateFails(p) ==
  /\ At(p, "naming")
  /\ \/ Starves(p, 4)
     \/ Receives(p, 4) /\ NameLength(p) \notin 1 .. LIMIT_IDENTITY_CAPACITY
     \/ NameLength(p) \in 1 .. LIMIT_IDENTITY_CAPACITY /\ Starves(p, 4 + NameLength(p))
  /\ ForgetId(thread[p].target)
  /\ Goes(p, "exited")
  /\ UNCHANGED <<activeMatchSessions, heap, node, streamLock, link, toClient, users, aborted>>

\* A bound player is turned away, and what came with its opcode discarded, by
\* three receives whose results nobody looks at.  Another thread may hold its
\* streamLock and read the same stream.
DiscardId(p) ==
  /\ At(p, "discardId")
  /\ Receives(p, 2) \/ Starves(p, 2)
  /\ Goes(p, "discardLength")
  /\ UNCHANGED <<memory, link, toClient, users, aborted>>

Skips(p, n) ==
  thread' = [thread EXCEPT
               ![p].pc = IF n \in 1 .. LIMIT_IDENTITY_CAPACITY THEN "discardName" ELSE "rejecting",
               ![p].target = n]

\* A length that does not come is an uninitialized variable.
DiscardLength(p) ==
  /\ At(p, "discardLength")
  /\ \/ Receives(p, 4) /\ Skips(p, IntAt(p, 1))
     \/ Starves(p, 4) /\ \E n \in {0} \cup NameLengths : Skips(p, n)
  /\ UNCHANGED <<memory, link, toClient, users, aborted>>

DiscardName(p) ==
  /\ At(p, "discardName")
  /\ Receives(p, thread[p].target) \/ Starves(p, thread[p].target)
  /\ Goes(p, "rejecting")
  /\ UNCHANGED <<memory, link, toClient, users, aborted>>

TurnedAway(p) == << Message("bind", p, 0), Message("verdict", p, OP_DECLINE_REQ) >>

\* Only who asked to join is told.
Reject(p) ==
  /\ At(p, "rejecting")
  /\ Returns(p)
  /\ Sends(To(p, IF Number(thread[p].opcode) = OP_INIT_MATCH_SESSION
                 THEN TurnedAway(p) ELSE <<>>))
  /\ UNCHANGED <<sessions, streamLock, link, toServer, users, aborted>>

Instantiation(p) == \/ AcquireId(p) \/ CreateSession(p) \/ CreateFails(p)
                    \/ DiscardId(p) \/ DiscardLength(p) \/ DiscardName(p) \/ Reject(p)

-----------------------------------------------------------------------------
(***************************************************************************)
(* process_queue_fetch.  Of the slots it reads, the one it is slow on is   *)
(* fetched in a step of its own; none of its sends takes the streamLock.   *)
(***************************************************************************)
FetchSlot(p) ==
  /\ At(p, "fetch")
  /\ \E s \in Registered \cup {0} :
       thread' = [thread EXCEPT ![p].pc = "ledger", ![p].session = s]
  /\ UNCHANGED <<memory, network, users, aborted>>

SendLedger(p) ==
  /\ At(p, "ledger")
  /\ Sends(To(p, << Message("ledger", p, 0) >>))
  /\ Goes(p, "newline")
  /\ UNCHANGED <<memory, link, toServer, users, aborted>>

SendNewline(p) ==
  /\ At(p, "newline")
  /\ Sends(To(p, << Message("newline", p, 0) >>))
  /\ Returns(p)
  /\ UNCHANGED <<sessions, streamLock, link, toServer, users, aborted>>

QueueFetch(p) == FetchSlot(p) \/ SendLedger(p) \/ SendNewline(p)

-----------------------------------------------------------------------------
(***************************************************************************)
(* process_activation_request of a player who is not bound.                *)
(***************************************************************************)
JoinLength(p) == IF Len(toServer[p]) >= 6 THEN IntAt(p, 3) ELSE 0

ReadJoin(p) ==
  LET id == toServer[p][1] * 256 + toServer[p][2]
      s == fetch_from_offset(activeMatchSessions, id)
  IN /\ At(p, "join")
     /\ JoinLength(p) > 0
     /\ Receives(p, 6 + JoinLength(p))
     /\ IF s = Null
        THEN /\ Sends(To(p, TurnedAway(p)))
             /\ Returns(p)
        ELSE /\ Sends(To(p, << Message("bind", p, 0) >>))
             /\ thread' = [thread EXCEPT ![p].pc = "challenge", ![p].target = id,
                             ![p].session = s, ![p].master = heap[s].participantPrimary]
             /\ UNCHANGED node
     /\ UNCHANGED <<sessions, streamLock, link, users, aborted>>

\* Nothing is answered.  After a receive that fails the next ones fail too.
JoinFails(p) ==
  /\ At(p, "join")
  /\ \/ Starves(p, 6)
     \/ Receives(p, 6) /\ JoinLength(p) = 0
     \/ JoinLength(p) > 0 /\ Starves(p, 6 + JoinLength(p))
  /\ Returns(p)
  /\ UNCHANGED <<sessions, streamLock, link, toClient, users, aborted>>

SendChallenge(p) ==
  LET m == thread[p].master
  IN /\ At(p, "challenge")
     /\ Acquires(p, m)
     /\ Sends(To(m, << Message("challenge", p, 0) >>))
     /\ Goes(p, "verdict")
     /\ UNCHANGED <<sessions, node, link, toServer, users, aborted>>

\* Mutant: the host stays locked.
HostStillLocked(m) == streamLock
HostUnlocked(m) == [streamLock EXCEPT ![m] = Null]

Hears(p, verdict) == thread' = [thread EXCEPT ![p].pc = "relay", ![p].verdict = verdict]

\* Any four bytes of the host are its verdict; silence is a refusal.
ReadVerdict(p) ==
  LET m == thread[p].master
  IN /\ At(p, "verdict")
     /\ \/ Receives(m, 4) /\ Hears(p, IntAt(m, 1))
        \/ Starves(m, 4) /\ Hears(p, OP_DECLINE_REQ)
     /\ streamLock' = HostUnlocked(m)
     /\ UNCHANGED <<sessions, node, link, toClient, users, aborted>>

Approves(verdict) == verdict = OP_APPROVE_REQ

\* The host is unlocked by now.
RelayVerdict(p) ==
  LET t == thread[p]
  IN /\ At(p, "relay")
     /\ Sends(To(p, << Message("verdict", p, t.verdict) >>))
     /\ IF Approves(t.verdict)
        THEN /\ heap' = [heap EXCEPT ![t.session].participantSecondary = p]
             /\ node' = [node EXCEPT ![p].activeSessionId = t.target,
                                     ![t.master].activeSessionId = t.target,
                                     ![t.master].timeoutTicks = 1]
             /\ Goes(p, "lockPrimary")
        ELSE /\ Returns(p)
             /\ UNCHANGED heap
     /\ UNCHANGED <<idVars, activeMatchSessions, streamLock, link, toServer, users, aborted>>

Activation(p) == \/ ReadJoin(p) \/ JoinFails(p)
                 \/ SendChallenge(p) \/ ReadVerdict(p) \/ RelayVerdict(p)

-----------------------------------------------------------------------------
(***************************************************************************)
(* execute_core_loop in the thread of the guest p.                         *)
(***************************************************************************)
\* Mutant: enforce_locking is 0.
LockPrimaryNot(p) ==
  /\ At(p, "lockPrimary")
  /\ Goes(p, "lockSecondary")
  /\ UNCHANGED <<memory, network, users, aborted>>
LockPrimary(p) ==
  /\ At(p, "lockPrimary")
  /\ Acquires(p, Mine(p).participantPrimary)
  /\ Goes(p, "lockSecondary")
  /\ UNCHANGED <<sessions, node, network, users, aborted>>

LockSecondary(p) ==
  /\ At(p, "lockSecondary")
  /\ Acquires(p, Mine(p).participantSecondary)
  /\ Goes(p, "round")
  /\ UNCHANGED <<sessions, node, network, users, aborted>>

StartRound(p) ==
  /\ At(p, "round")
  /\ \E acting \in NodesOf(Mine(p)) :
       /\ thread' = [thread EXCEPT ![p].pc = "await", ![p].acting = acting]
       /\ Sends(ToBoth(Mine(p), Message("turn", acting, 0)))
  /\ UNCHANGED <<memory, link, toServer, users, aborted>>

dispatch_active_node(s, acting) ==
  IF acting # s.participantPrimary THEN s.participantPrimary ELSE s.participantSecondary

\* Any four bytes of the acting node are its move, and perhaps the last; a
\* number that is no cell is a write outside gridMatrix.
ReceiveMove(p) ==
  LET acting == thread[p].acting
  IN /\ At(p, "await")
     /\ Receives(acting, 4)
     /\ IF IntAt(acting, 1) \in 1..9
        THEN /\ \E over \in {0, 1} :
                  /\ thread' = [thread EXCEPT
                                  ![p].pc = IF over = 1 THEN "polling" ELSE "await",
                                  ![p].acting = dispatch_active_node(Mine(p), acting)]
                  /\ Sends(ToBoth(Mine(p), Message("status", acting, over)))
             /\ UNCHANGED aborted
        ELSE /\ aborted' = TRUE
             /\ UNCHANGED <<thread, toClient>>
     /\ UNCHANGED <<memory, link, users>>

AbandonRound(p) ==
  /\ At(p, "await")
  /\ Starves(thread[p].acting, 4)
  /\ Goes(p, "ending")
  /\ UNCHANGED <<memory, link, toClient, users, aborted>>

\* What the polling thread of q may return, as an approval or not: at the end
\* of the stream an uninitialized variable.
Outcomes(q) ==
  IF Len(toServer[q]) >= 2 THEN {SubSeq(toServer[q], 1, 2) = Int2(OP_APPROVE_REQ)}
  ELSE {no \in {FALSE} : q \in Slow} \cup {any \in BOOLEAN : link[q] # "open"}

\* Both polling threads are joined.
JoinVerdicts(p) ==
  LET both == NodesOf(Mine(p))
  IN /\ At(p, "polling")
     /\ \E yes \in [both -> BOOLEAN] :
          LET agreed == \A q \in both : yes[q]
          IN /\ \A q \in both : yes[q] \in Outcomes(q)
             /\ Sends(ToBoth(Mine(p), Message("rematch", p, IF agreed THEN OP_APPROVE_REQ
                                                                     ELSE OP_DECLINE_REQ)))
             /\ Goes(p, IF agreed THEN "round" ELSE "ending")
     /\ toServer' = [q \in Players |-> IF q \in both THEN SubSeq(toServer[q], 3, Len(toServer[q]))
                                                      ELSE toServer[q]]
     /\ UNCHANGED <<memory, link, users, aborted>>

Unbound(s) == [q \in Players |->
                 IF q \in NodesOf(s) THEN [node[q] EXCEPT !.activeSessionId = NoId] ELSE node[q]]

\* Mutant: the identifier is read back from the node, after it was unbound.
ReclaimsUnbound(s) == relinquishSessionIdentifier(NoId)
Reclaims(s) == relinquishSessionIdentifier(s.sessionId)
Remaining(id) == excise_at_offset(activeMatchSessions, id)

\* Whatever session is in the slot is freed; then both nodes are unlocked.
EndMatch(p) ==
  LET s == Mine(p)
      id == s.sessionId
      excised == fetch_from_offset(activeMatchSessions, id)
  IN /\ At(p, "ending")
     /\ activeMatchSessions' = Remaining(id)
     /\ heap' = [i \in DOMAIN heap |-> [heap[i] EXCEPT !.live = @ /\ i # excised]]
     /\ Reclaims(s)
     /\ streamLock' = [q \in Players |-> IF q \in NodesOf(s) THEN Null ELSE streamLock[q]]
     /\ node' = [Unbound(s) EXCEPT ![p].timeoutTicks = 0]
     /\ thread' = [thread EXCEPT ![p] = [InLoop EXCEPT !.opcode = thread[p].opcode]]
     /\ UNCHANGED <<network, users, aborted>>

CoreLoop(p) == \/ LockPrimary(p) \/ LockSecondary(p) \/ StartRound(p) \/ ReceiveMove(p)
               \/ AbandonRound(p) \/ JoinVerdicts(p) \/ EndMatch(p)

-----------------------------------------------------------------------------
(***************************************************************************)
(* Memory.  A thread whose next step uses a node or a session that was     *)
(* freed does not take it.                                                 *)
(***************************************************************************)
\* The guest who has heard an approval, until its match is over.
Agreed == {"lockPrimary", "lockSecondary", "round", "await", "polling", "ending"}
Approved(p) == \/ thread[p].pc \in Agreed
               \/ At(p, "relay") /\ Approves(thread[p].verdict)

SessionsUsed(p) ==
  {s \in {thread[p].session} :
     \/ Approved(p)
     \/ At(p, "ledger") /\ s # 0}

\* The ledger, and what broadcast_session_state_update prints, name the hosts.
ReadsRegistry(p) ==
  \/ thread[p].pc \in {"ledger", "ending"}
  \/ At(p, "relay") /\ Approves(thread[p].verdict)
  \/ At(p, "naming") /\ Len(toServer[p]) >= 4 + NameLength(p)

NodesUsed(p) ==
  UNION {NodesOf(heap[s]) : s \in SessionsUsed(p)}
    \cup {heap[s].participantPrimary : s \in {r \in Registered : ReadsRegistry(p)}}
    \cup {m \in {thread[p].master} : thread[p].pc \in {"challenge", "verdict"}}

UsesFreedMemory(p) == \/ \E s \in SessionsUsed(p) : ~ heap[s].live
                      \/ \E q \in NodesUsed(p) : ~ node[q].live

ServerStep(p) ==
  IF UsesFreedMemory(p)
  THEN /\ aborted' = TRUE
       /\ UNCHANGED <<memory, thread, network, users>>
  ELSE Loop(p) \/ Instantiation(p) \/ QueueFetch(p) \/ Activation(p) \/ CoreLoop(p)

-----------------------------------------------------------------------------
(***************************************************************************)
(* The program of player p.  A line is read byte by byte up to a newline    *)
(* (no descriptor is 10, which would be one), a number four bytes at a time. *)
(* "lost" is a program that has taken a line for a number or one number for *)
(* another: what it reads then is not modelled; if it is Astray, it may      *)
(* write anything it knows how to write.                                   *)
(***************************************************************************)
Open(p) == link[p] = "open"
Becomes(p, state, other) == /\ client' = [client EXCEPT ![p] = state]
                            /\ second' = [second EXCEPT ![p] = other]
Writes(p, bytes) == /\ Open(p)
                    /\ toServer' = [toServer EXCEPT ![p] = @ \o bytes]
                    /\ UNCHANGED <<memory, thread, link, toClient, aborted>>

\* The number each state of the program takes the next bytes for.
Expected == [joining |-> "bind", bound |-> "verdict", starting |-> "turn",
             watching |-> "status", agreeing |-> "rematch", refusing |-> "rematch"]

\* consume_exact_string_payload, of listGames and of listenGameRequest.
ReadLine(p, m) ==
  /\ client[p] \in {"fetching", "hosting"}
  /\ Becomes(p, IF m.type \notin {"challenge", "newline"} THEN client[p]
                ELSE IF client[p] = "hosting" THEN "asked" ELSE "lobby", second[p])
  /\ consent' = IF client'[p] = "asked"
                THEN [consent EXCEPT ![p] = [to |-> m.from, yes |-> FALSE]] ELSE consent

\* startGame, of a player whose listener is in the dialog.
ReadWhileAsked(p, m) ==
  LET bind == second[p] = "join" /\ m.type = "bind"
      refusal == second[p] = "bound" /\ m.type = "verdict" /\ m.value # OP_APPROVE_REQ
  IN /\ client[p] = "asked"
     /\ second[p] \in {"join", "bound"}
     /\ CASE bind -> Becomes(p, "asked", "bound")
          [] refusal -> Becomes(p, "asked", "none")
          [] OTHER -> Becomes(p, "lost", "none")
     /\ UNCHANGED consent

\* Where a refused join leaves the thread that waited for the monitor.
Refused == [none |-> "lobby", listen |-> "hosting", fetch |-> "fetching", play |-> "starting"]

After(p, m) ==
  CASE m.type = "bind" -> "bound"
    [] m.type = "verdict" -> IF m.value # OP_APPROVE_REQ THEN Refused[second[p]]
                             ELSE IF second[p] = "none" THEN "starting" ELSE "lost"
    [] m.type = "turn" -> IF m.from = p THEN "moving" ELSE "watching"
    [] m.type = "status" -> IF m.value = 1 THEN "over"
                            ELSE IF m.from = p THEN "watching" ELSE "moving"
    [] m.type = "rematch" -> IF m.value = OP_APPROVE_REQ /\ client[p] = "agreeing"
                             THEN "starting" ELSE "lobby"

ReadNumber(p, m) ==
  /\ client[p] \in DOMAIN Expected
  /\ IF m.type = Expected[client[p]]
     THEN Becomes(p, After(p, m), IF m.type = "verdict" THEN "none" ELSE second[p])
     ELSE Becomes(p, "lost", "none")
  /\ UNCHANGED consent

Read(p) ==
  LET m == Head(toClient[p])
  IN /\ Open(p)
     /\ toClient[p] # <<>>
     /\ toClient' = [toClient EXCEPT ![p] = Tail(@)]
     /\ ReadLine(p, m) \/ ReadWhileAsked(p, m) \/ ReadNumber(p, m)
     /\ UNCHANGED <<memory, thread, link, toServer, creations, requests, aborted>>

Requests == /\ requests < MaxRequests
            /\ requests' = requests + 1
            /\ UNCHANGED <<consent, creations>>

\* The timeline or the button; during a join the FX thread waits for its end.
listGames(p) ==
  /\ p \in Pollers
  /\ \/ client[p] = "lobby" /\ Becomes(p, "fetching", "none")
     \/ client[p] \in {"joining", "bound"} /\ second[p] = "none" /\ Becomes(p, client[p], "fetch")
     \/ client[p] \in {"starting", "moving", "watching", "over"} /\ Becomes(p, "lost", "none")
  /\ Len(toServer[p]) + 4 <= MaxUnread
  /\ Requests
  /\ Writes(p, Int4(OP_FETCH_WAITING_LIST))

CreateRequest(n) == Int4(OP_BUILD_MATCH_SESSION) \o Int4(n) \o Name(n)
JoinRequest(id, n) == Int4(OP_INIT_MATCH_SESSION) \o Int2(id) \o Int4(n) \o Name(n)

\* The button is never disabled: a host may click it again, and so may a player
\* whose join is under way; then the listener waits for the monitor.
createGame(p, n) ==
  /\ p \in Hosts
  /\ \/ client[p] = "lobby" /\ Becomes(p, "hosting", "none")
     \/ client[p] = "hosting" /\ second[p] \in {"none", "join"} /\ UNCHANGED <<client, second>>
     \/ /\ client[p] \in {"joining", "bound"} /\ second[p] \in {"none", "listen"}
        /\ Becomes(p, client[p], "listen")
  /\ creations < MaxCreations
  /\ creations' = creations + 1
  /\ Writes(p, CreateRequest(n))
  /\ UNCHANGED <<consent, requests>>

\* Of a match the user has seen in a ledger, which may be gone by now.  While
\* the listener reads it waits for the monitor.
startGame(p, id, n) ==
  /\ \/ client[p] = "lobby" /\ Becomes(p, "joining", "none")
     \/ client[p] = "hosting" /\ second[p] = "none" /\ Becomes(p, "hosting", "join")
  /\ Requests
  /\ Writes(p, JoinRequest(id, n))

\* listenGameRequest: the user may leave the dialog open for long.  A join has
\* the monitor by then, and who comes after it waits.
AnswerChallenge(p, yes) ==
  /\ client[p] = "asked"
  /\ Writes(p, Int4(IF yes THEN OP_APPROVE_REQ ELSE OP_DECLINE_REQ))
  /\ consent' = [consent EXCEPT ![p].yes = yes]
  /\ CASE second[p] = "none" -> Becomes(p, IF yes THEN "starting" ELSE "hosting", "none")
       [] second[p] = "join" -> Becomes(p, "joining", IF yes THEN "play" ELSE "listen")
       [] second[p] = "bound" -> Becomes(p, "bound", IF yes THEN "play" ELSE "listen")
       [] second[p] = "dead" -> IF yes THEN Becomes(p, "lost", "none")
                                       ELSE Becomes(p, "hosting", "dead")
  /\ UNCHANGED <<creations, requests>>

sendMove(p, cell) ==
  /\ client[p] = "moving"
  /\ Writes(p, Int4(cell))
  /\ Becomes(p, "watching", "none")
  /\ UNCHANGED <<consent, creations, requests>>

rivincita(p, yes) ==
  /\ client[p] = "over"
  /\ Writes(p, Int2(IF yes THEN OP_APPROVE_REQ ELSE OP_DECLINE_REQ))
  /\ Becomes(p, IF yes THEN "agreeing" ELSE "refusing", "none")
  /\ UNCHANGED <<consent, creations, requests>>

\* What a program can write.
Words == {Int4(n) : n \in Cells \cup {OP_FETCH_WAITING_LIST, OP_APPROVE_REQ, OP_DECLINE_REQ}}
           \cup {Int2(n) : n \in {OP_APPROVE_REQ, OP_DECLINE_REQ}}
           \cup {CreateRequest(n) : n \in NameLengths}
           \cup {JoinRequest(id, n) : id \in 0 .. current_highest_id - 1, n \in NameLengths}

Strays(p) ==
  /\ p \in Astray
  /\ client[p] = "lost"
  /\ Requests
  /\ \E word \in Words : Writes(p, word)
  /\ UNCHANGED <<client, second>>

\* SO_TIMEOUT.  A listener that gives up leaves its match registered.  A join
\* that does takes the connection down, which a listener ("dead") does not
\* notice; a reader in a match is not replaced.
GivesUp(p) ==
  /\ p \in Slow
  /\ Open(p)
  /\ toClient[p] = <<>>
  /\ \/ /\ client[p] \in {"fetching", "agreeing", "refusing"}
        /\ Becomes(p, "lobby", "none")
        /\ UNCHANGED link
     \/ /\ client[p] \in {"starting", "watching"}
        /\ Becomes(p, "lost", "none")
        /\ UNCHANGED link
     \/ /\ client[p] = "hosting" /\ second[p] \in {"none", "join"}
        /\ Becomes(p, IF second[p] = "join" THEN "joining" ELSE "lobby", "none")
        /\ UNCHANGED link
     \/ /\ \/ client[p] = "asked" /\ second[p] \in {"join", "bound"}
           \/ client[p] \in {"joining", "bound"} /\ second[p] = "listen"
        /\ Becomes(p, IF client[p] = "asked" THEN "asked" ELSE "hosting", "dead")
        /\ UNCHANGED link
     \/ /\ \/ client[p] \in {"joining", "bound"} /\ second[p] # "listen"
           \/ client[p] = "hosting" /\ second[p] = "dead"
        /\ Becomes(p, "lost", "none")
        /\ link' = [link EXCEPT ![p] = "closed"]
  /\ UNCHANGED <<memory, thread, toServer, toClient, consent, creations, requests, aborted>>

Quit(p) ==
  /\ p \in Quitters
  /\ Open(p)
  /\ link' = [link EXCEPT ![p] = "closed"]
  /\ toClient' = [toClient EXCEPT ![p] = <<>>]
  /\ Becomes(p, "lost", "none")
  /\ UNCHANGED <<memory, thread, toServer, consent, creations, requests, aborted>>

ClientStep(p) == \/ Read(p)
                 \/ listGames(p)
                 \/ \E n \in NameLengths :
                      \/ createGame(p, n)
                      \/ \E id \in 0 .. current_highest_id - 1 : startGame(p, id, n)
                 \/ \E yes \in BOOLEAN : AnswerChallenge(p, yes) \/ rivincita(p, yes)
                 \/ \E cell \in Cells : sendMove(p, cell)
                 \/ Strays(p)
                 \/ GivesUp(p)
                 \/ Quit(p)

Next == \/ ~ aborted /\ \E p \in Players : ServerStep(p) \/ ClientStep(p)
        \/ aborted /\ UNCHANGED vars

Spec == Init /\ [][Next]_vars
\* Each thread goes on: a receive of the server is bounded by SO_RCVTIMEO.
FairSpec == Spec /\ \A p \in Players : WF_vars(ServerStep(p))

-----------------------------------------------------------------------------
(***************************************************************************)
(* Properties.                                                             *)
(***************************************************************************)
\* Every variable has the values the code can give it.
TypeOK ==
  /\ IdTypeOK
  /\ IsStore(activeMatchSessions, 1 .. Len(heap))
  /\ node \in [Players -> [live : BOOLEAN, activeSessionId : Nat \cup {NoId}, timeoutTicks : {0, 1}]]
  /\ streamLock \in [Players -> Players \cup {Null}]
  /\ link \in [Players -> {"open", "closed"}]
  /\ \A p \in Players : thread[p].session \in 0 .. Len(heap)

InMatch(p) == thread[p].pc \in {"round", "await", "polling", "ending"}

\* "può giocare solo ad una partita" (the comment of server.c:1051): no player
\* is in two matches, however two guests and the end of a match interleave.
\* Only the order of the locks and the freeing of the session see to it.
OneMatchEach ==
  \A p, q \in Players :
    p # q /\ InMatch(p) /\ InMatch(q) => NodesOf(Mine(p)) \cap NodesOf(Mine(q)) = {}

\* The threads that stand before a receive on the stream of r, but for matches.
Reads(q, r) == \/ q = r /\ At(q, "loop") /\ streamLock[q] = Null
               \/ At(q, "verdict") /\ thread[q].master = r

\* While a match is played, no other thread is about to read the stream of its
\* host, nor of the guest whose thread runs it, as an opcode or as the answer to
\* a challenge: nobody else takes their moves.  (The discard of a request of a
\* bound player, server.c:1062-1071, reads without the lock.  A second guest
\* that is approved in the first one's place plays, but is not locked.)
PlayersAreHeld ==
  \A p, q \in Players :
    p # q /\ InMatch(p) =>
      \A r \in NodesOf(Mine(p)) \cap {p, Mine(p).participantPrimary} : ~ Reads(q, r)

WaitsFor(p) == CASE At(p, "loop") -> streamLock[p]
                 [] At(p, "challenge") -> streamLock[thread[p].master]
                 [] At(p, "lockPrimary") -> streamLock[Mine(p).participantPrimary]
                 [] At(p, "lockSecondary") -> streamLock[Mine(p).participantSecondary]
                 [] OTHER -> Null

MemoryIsSafe == \A q \in Players : ~ UsesFreedMemory(q)

\* No set of threads waits for the streamLocks of one another: a guest that
\* waits for its host, a host that is a guest elsewhere, the loops.  Until a
\* freed session is used, that is; and a guest whose place another has taken
\* may wait for itself, as the end of the match unlocks the other (server.c:483).
NoCircularWait ==
  MemoryIsSafe => \A S \in (SUBSET Players) \ {{}} : \E p \in S : WaitsFor(p) \notin S \ {p}

\* "fail-early: blocca ... l'istanziazione contemporanea di multiple stanze
\* ("Zombie Sessions")" (the comment of server.c:1053): a session in the store
\* is that of a host which is bound to it, for as long as it lives, and to no
\* other, whatever the end of a match or a guest's approval writes meanwhile.
NoZombieSessions ==
  \A s \in Registered :
    LET host == heap[s].participantPrimary
    IN node[host].live => node[host].activeSessionId = heap[s].sessionId

\* A match is agreed with one guest: no two threads have heard an approval for
\* the same session.
OneApprovalEach ==
  \A p, q \in Players :
    p # q /\ Approved(p) /\ Approved(q) /\ Mine(p).live => thread[p].session # thread[q].session

\* A live player whose activeSessionId is set is in the session of that slot:
\* it is never turned away for a match that is over (server.c:1054).
NobodyIsBoundToNothing ==
  MemoryIsSafe =>
    \A p \in Players :
      node[p].live /\ node[p].activeSessionId # NoId =>
        LET s == fetch_from_offset(activeMatchSessions, node[p].activeSessionId)
        IN s # Null /\ p \in NodesOf(heap[s])

\* No program that does not poll takes one message of the server for another,
\* whatever the other player's polls put into the match.
NobodyLost == \A p \in Players \ Pollers : client[p] = "lost" => link[p] = "closed"

\* No thread uses a node or a session that another has freed.
NoUseAfterFree == ~ aborted

\* A match starts only with a host that was last asked about this guest and
\* accepted (README R5-R6): not with the answer to somebody else, nor with a
\* request of the host taken for an answer.
ConsentIsForMe ==
  [][\A p \in Players : At(p, "relay") /\ thread'[p].pc = "lockPrimary" =>
       consent[thread[p].master] = [to |-> p, yes |-> TRUE]]_vars

Joining(p) == thread[p].pc \in {"join", "challenge", "verdict", "relay", "lockPrimary", "lockSecondary"}

HostPlays(p) == \E q \in Players : InMatch(q) /\ thread[p].master \in NodesOf(Mine(q))

\* A join does not hang on a host that is silent or has gone, nor on a guest
\* before it in the queue: again and again no join is under way, since it is
\* turned away or becomes a match, unless its host plays (or the server is
\* stopped).  Who waits for a host that plays waits through all its rematches.
JoinsEnd == \A p \in Players : []<>(~ Joining(p) \/ HostPlays(p) \/ aborted)
=============================================================================
