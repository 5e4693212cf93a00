----------------------------- MODULE CoreMatch -----------------------------
(***************************************************************************)
(* One match: the server thread in execute_core_loop (server.c), the two   *)
(* threads that poll the rematch verdicts, and the two Java clients, each  *)
(* with its reader thread (GameClient.startReader) and its JavaFX thread   *)
(* (GameController).                                                       *)
(*                                                                         *)
(* What a client sends is a sequence of 16-bit halves: four bytes (a move, *)
(* an opcode of the lobby) are two of them, a rematch verdict is one.  The *)
(* server takes as many as it asks for, whatever was meant.                *)
(* What the server sends is a sequence of <<kind, value>>; the clients act *)
(* on the value only, the kind is there for the properties.                *)
(***************************************************************************)
EXTENDS TopologicalGrid, Sequences

CONSTANTS
  MaxRounds,      \* bound: the users ask for a rematch this often, less one
  Playable,       \* bound: the cells each user clicks
  Timeouts,       \* whether the 30 seconds of a receive may elapse
  Quitters,       \* players whose program may stop
  Pollers,        \* players whose lobby still fetches the ledger every 2.5 s
  MaxUnread       \* bound: halves unread in a poller's stream

Players == {Node1, Node2}

ASSUME BoundsAssumption == /\ MaxRounds \in Nat \ {0}
                           /\ Playable \in [Players -> SUBSET Positions]
                           /\ Timeouts \in BOOLEAN
                           /\ Quitters \subseteq Players
                           /\ Pollers \subseteq Players
                           /\ MaxUnread \in Nat

OP_FETCH_WAITING_LIST == 2
OP_APPROVE_REQ == 5
OP_DECLINE_REQ == 6
NoVerdict == -1       \* outcomeBuffer when the receive timed out
NotRead == -2         \* the polling thread has not returned

VARIABLES
  \* the server thread and the struct MatchSession it works on
  pc, grid, activeTurnIdx, currentState, core_status, outcomeBuffer,
  round,                         \* history: rounds begun
  \* the two connections
  link, toServer, toClient,
  \* the reader thread of each client and the calls it left to the FX thread
  reader, runLater,
  \* the FX thread: what the user sees and may do
  has_token_control, engine, shown, window, consensus, fetching

server == <<pc, grid, activeTurnIdx, currentState, core_status, outcomeBuffer, round>>
network == <<link, toServer, toClient>>
client == <<reader, runLater, has_token_control, engine, shown, window,
            consensus, fetching>>
vars == <<server, network, client>>

NoMarks == [p \in Players |-> wipe_topological_grid]

Init ==
  /\ pc = "start"
  /\ grid = wipe_topological_grid
  /\ activeTurnIdx = 0
  /\ currentState = "IN_PROGRESS"      \* set by process_activation_request
  /\ core_status = Undecided
  /\ outcomeBuffer = [p \in Players |-> NotRead]
  /\ round = 1
  /\ link = [p \in Players |-> "open"]
  /\ toServer = [p \in Players |-> <<>>]
  /\ toClient = [p \in Players |-> <<>>]
  /\ reader = [p \in Players |-> "first"]
  /\ runLater = [p \in Players |-> <<>>]
  /\ has_token_control = [p \in Players |-> FALSE]
  /\ engine = NoMarks
  /\ shown = NoMarks
  /\ window = [p \in Players |-> "playing"]
  /\ consensus = [p \in Players |-> FALSE]
  /\ fetching = [p \in Players |-> "no"]

-----------------------------------------------------------------------------
(***************************************************************************)
(* The server thread.  A send to a peer that closed its socket is answered *)
(* by a reset, and a later one raises SIGPIPE, which nothing handles.      *)
(***************************************************************************)
dispatch_active_node(turn) == IF turn # Node1 THEN Node1 ELSE Node2

PipeMayBreak(sent) ==
  \E p \in Players : \/ link[p] = "reset" /\ sent[p] # <<>>
                     \/ link[p] = "closed" /\ Len(sent[p]) > 1

\* Send sent[p] to each p and go on to next, unless the signal comes.
SendAll(sent, next) ==
  /\ toClient' = [p \in Players |->
                    IF link[p] = "open" THEN toClient[p] \o sent[p] ELSE <<>>]
  /\ link' = [p \in Players |->
                IF link[p] = "closed" /\ sent[p] # <<>> THEN "reset" ELSE link[p]]
  /\ pc' \in {next} \cup {s \in {"killed"} : PipeMayBreak(sent)}

\* What p is sent after a move: only the other node is told the cell.
\* Mutants: the status leaves before the move; the cell leaves counted from 0.
MoveMessagesSwapped(p, next, cell, status) ==
  IF p = next THEN << <<"status", status>>, <<"cell", cell>> >>
              ELSE << <<"status", status>> >>
MoveMessagesFromZero(p, next, cell, status) ==
  IF p = next THEN << <<"cell", cell - 1>>, <<"status", status>> >>
              ELSE << <<"status", status>> >>
MoveMessages(p, next, cell, status) ==
  IF p = next THEN << <<"cell", cell>>, <<"status", status>> >>
              ELSE << <<"status", status>> >>

StartRound ==
  /\ pc = "start"
  /\ activeTurnIdx' \in Players
  /\ currentState' = "IN_PROGRESS"
  /\ core_status' = Undecided
  /\ SendAll([p \in Players |-> << <<"turn", activeTurnIdx'>> >>], "await")
  /\ UNCHANGED <<grid, outcomeBuffer, round, toServer, client>>

\* Four bytes of the acting node, taken as a move without looking at the
\* cell; then the move to the other node, the status to both and, when the
\* round is decided, its conclusion.
ReceiveMove ==
  LET acting == activeTurnIdx
      cell == 65536 * toServer[acting][1] + toServer[acting][2]
      next == dispatch_active_node(acting)
  IN /\ pc = "await"
     /\ Len(toServer[acting]) > 1
     /\ toServer' = [toServer EXCEPT ![acting] = SubSeq(@, 3, Len(@))]
     /\ IF cell \in Positions
        THEN /\ grid' = PutMark(grid, cell, acting)
             /\ core_status' = calculate_session_victor(grid', Node1, Node2)
             /\ SendAll([p \in Players |-> MoveMessages(p, next, cell, core_status')],
                        IF core_status' = Undecided THEN "await" ELSE "polling")
             /\ IF core_status' = Undecided
                THEN /\ activeTurnIdx' = next
                     /\ UNCHANGED currentState
                ELSE /\ activeTurnIdx' = dispatch_active_node(next)
                     /\ currentState' = "CONCLUDED"
        ELSE \* a store outside gridMatrix
             /\ pc' = "killed"
             /\ UNCHANGED <<grid, activeTurnIdx, currentState, core_status, link, toClient>>
     /\ UNCHANGED <<outcomeBuffer, round, client>>

\* recv fails or times out, perhaps after half of the four bytes.  Nothing is
\* said to the players.
\* Mutant: the socket has no SO_RCVTIMEO.
FailsAtOnce(p) == link[p] # "open"
ReceiveFails(p) == Timeouts \/ link[p] # "open"

AbandonRound ==
  /\ pc = "await"
  /\ Len(toServer[activeTurnIdx]) < 2
  /\ ReceiveFails(activeTurnIdx)
  /\ toServer' = [toServer EXCEPT ![activeTurnIdx] = <<>>]
  /\ activeTurnIdx' = dispatch_active_node(activeTurnIdx)
  /\ currentState' = "CONCLUDED"
  /\ pc' = "done"
  /\ UNCHANGED <<grid, core_status, outcomeBuffer, round, link, toClient, client>>

\* fetch_draw_verdict in the polling thread of p: two bytes, or nothing in 30
\* seconds; at the end of the stream it returns an uninitialized variable.
PollVerdict(p) ==
  /\ pc = "polling"
  /\ outcomeBuffer[p] = NotRead
  /\ \/ /\ toServer[p] # <<>>
        /\ outcomeBuffer' = [outcomeBuffer EXCEPT ![p] = Head(toServer[p])]
        /\ toServer' = [toServer EXCEPT ![p] = Tail(@)]
     \/ /\ toServer[p] = <<>>
        /\ \E left \in {verdict \in {NoVerdict} : Timeouts}
                        \cup {v \in {0, OP_APPROVE_REQ} : link[p] # "open"} :
             outcomeBuffer' = [outcomeBuffer EXCEPT ![p] = left]
        /\ UNCHANGED toServer
  /\ UNCHANGED <<pc, grid, activeTurnIdx, currentState, core_status, round,
                 link, toClient, client>>

\* Mutant: one verdict is enough.
ApprovedByOne == \E p \in Players : outcomeBuffer[p] = OP_APPROVE_REQ
Approved == \A p \in Players : outcomeBuffer[p] = OP_APPROVE_REQ

\* invoke_rematch after both threads are joined.
JoinVerdicts ==
  LET reply == IF Approved THEN OP_APPROVE_REQ ELSE OP_DECLINE_REQ
  IN /\ pc = "polling"
     /\ \A p \in Players : outcomeBuffer[p] # NotRead
     /\ outcomeBuffer' = [p \in Players |-> NotRead]
     /\ SendAll([p \in Players |-> << <<"rematch", reply>> >>],
                IF Approved THEN "start" ELSE "done")
     /\ IF Approved
        THEN /\ currentState' = "IN_PROGRESS"
             /\ grid' = wipe_topological_grid
             /\ round' = round + 1
        ELSE /\ currentState' = "CONCLUDED"
             /\ UNCHANGED <<grid, round>>
     /\ UNCHANGED <<activeTurnIdx, core_status, toServer, client>>

ServerStep == \/ StartRound
              \/ ReceiveMove
              \/ AbandonRound
              \/ \E p \in Players : PollVerdict(p)
              \/ JoinVerdicts

-----------------------------------------------------------------------------
(***************************************************************************)
(* The reader thread of client p.                                          *)
(***************************************************************************)
Reading(p, states) == /\ link[p] = "open"
                      /\ reader[p] \in states
                      /\ toClient[p] # <<>>

\* synchronized (byte_consumer): not while listGames is in it.
HasMonitor(p) == fetching[p] # "reading"

\* readInt: any four bytes will do, the two of a verdict will not.
ReadInt(p) == /\ Head(toClient[p])[1] # "rematch"
              /\ toClient' = [toClient EXCEPT ![p] = Tail(@)]
              /\ UNCHANGED <<link, toServer, server>>

Received(p) == Head(toClient[p])[2]

\* onFirstTurn gives the token ...
ReadFirstTurn(p) ==
  /\ Reading(p, {"first"})
  /\ HasMonitor(p)
  /\ ReadInt(p)
  /\ has_token_control' = [has_token_control EXCEPT ![p] = Received(p) = p]
  /\ reader' = [reader EXCEPT ![p] = IF Received(p) = p THEN "freshOwn" ELSE "freshOpp"]
  /\ UNCHANGED <<runLater, engine, shown, window, consensus, fetching>>

\* ... and then replaces the board the FX thread plays on.
\* Mutant: it keeps the board of the last round.
RenewEngineNever(p) ==
  /\ link[p] = "open"
  /\ reader[p] \in {"freshOwn", "freshOpp"}
  /\ reader' = [reader EXCEPT ![p] = IF @ = "freshOwn" THEN "ownStatus" ELSE "oppMove"]
  /\ UNCHANGED <<server, network, runLater, has_token_control, engine, shown, window,
                 consensus, fetching>>
RenewEngine(p) ==
  /\ link[p] = "open"
  /\ reader[p] \in {"freshOwn", "freshOpp"}
  /\ engine' = [engine EXCEPT ![p] = wipe_topological_grid]
  /\ reader' = [reader EXCEPT ![p] = IF @ = "freshOwn" THEN "ownStatus" ELSE "oppMove"]
  /\ UNCHANGED <<server, network, runLater, has_token_control, shown, window,
                 consensus, fetching>>

ReadOpponentMove(p) ==
  /\ Reading(p, {"oppMove"})
  /\ ReadInt(p)
  /\ runLater' = [runLater EXCEPT ![p] = Append(@, <<"onOpponentMove", Received(p)>>)]
  /\ reader' = [reader EXCEPT ![p] = "oppStatus"]
  /\ UNCHANGED <<has_token_control, engine, shown, window, consensus, fetching>>

\* The handler of status -2 returns at once: it is not queued here.
ReadStatus(p) ==
  /\ Reading(p, {"ownStatus", "oppStatus"})
  /\ HasMonitor(p)
  /\ ReadInt(p)
  /\ IF Received(p) = Undecided
     THEN /\ reader' = [reader EXCEPT ![p] = IF @ = "ownStatus" THEN "oppMove" ELSE "ownStatus"]
          /\ UNCHANGED runLater
     ELSE /\ reader' = [reader EXCEPT ![p] = "ended"]
          /\ runLater' = [runLater EXCEPT ![p] = Append(@, <<"onGameStatus", Received(p)>>)]
  /\ UNCHANGED <<has_token_control, engine, shown, window, consensus, fetching>>

\* SO_TIMEOUT: onConnectionError, and nobody reads this round any more.
ReaderTimesOut(p) ==
  /\ Timeouts
  /\ link[p] = "open"
  /\ reader[p] \in {"first", "ownStatus", "oppMove", "oppStatus"}
  /\ reader[p] = "oppMove" \/ HasMonitor(p)
  /\ toClient[p] = <<>>
  /\ reader' = [reader EXCEPT ![p] = "broken"]
  /\ UNCHANGED <<server, network, runLater, has_token_control, engine, shown,
                 window, consensus, fetching>>

ReaderStep(p) == \/ ReadFirstTurn(p)
                 \/ RenewEngine(p)
                 \/ ReadOpponentMove(p)
                 \/ ReadStatus(p)
                 \/ ReaderTimesOut(p)

-----------------------------------------------------------------------------
(***************************************************************************)
(* The FX thread of client p and its user.  In "waiting" it is blocked in  *)
(* rivincita, while fetching in listGames; in "asking" the rematch dialog  *)
(* runs an event loop of its own.                                          *)
(***************************************************************************)
FxFree(p) == /\ link[p] = "open"
             /\ fetching[p] = "no"
             /\ window[p] # "waiting"

Send(p, halves) == /\ toServer' = [toServer EXCEPT ![p] = @ \o halves]
                   /\ UNCHANGED <<link, toClient>>

\* dispatchDelta: a button that is still enabled, on one's turn.
Click(p, cell) ==
  /\ FxFree(p)
  /\ window[p] = "playing"
  /\ has_token_control[p]
  /\ shown[p][cell] = 0
  /\ makeMoveUI(engine[p], cell)
  /\ engine' = [engine EXCEPT ![p] = PutMark(@, cell, p)]
  /\ shown' = [shown EXCEPT ![p] = PutMark(@, cell, p)]
  /\ Send(p, <<0, cell>>)
  /\ has_token_control' = [has_token_control EXCEPT ![p] = FALSE]
  /\ UNCHANGED <<server, reader, runLater, window, consensus, fetching>>

\* applyOpponentMove leaves an occupied cell alone, mutateCellState does not;
\* a number that is no cell raises an exception before anything changes.
HandleOpponentMove(p) ==
  LET cell == Head(runLater[p])[2]
      opponent == dispatch_active_node(p)
  IN /\ FxFree(p)
     /\ runLater[p] # <<>>
     /\ Head(runLater[p])[1] = "onOpponentMove"
     /\ runLater' = [runLater EXCEPT ![p] = Tail(@)]
     /\ IF cell \in Positions
        THEN /\ engine' = [engine EXCEPT ![p] = applyOpponentMove(@, cell, opponent)]
             /\ shown' = [shown EXCEPT ![p] = PutMark(@, cell, opponent)]
             /\ has_token_control' = [has_token_control EXCEPT ![p] = TRUE]
        ELSE UNCHANGED <<engine, shown, has_token_control>>
     /\ UNCHANGED <<server, network, reader, window, consensus, fetching>>

\* onGameStatus with a final status: freeze the buttons, open the dialog.
HandleGameStatus(p) ==
  /\ FxFree(p)
  /\ runLater[p] # <<>>
  /\ Head(runLater[p])[1] = "onGameStatus"
  /\ runLater' = [runLater EXCEPT ![p] = Tail(@)]
  /\ window' = [window EXCEPT ![p] = "asking"]
  /\ UNCHANGED <<server, network, reader, has_token_control, engine, shown,
                 consensus, fetching>>

\* promptForSessionRefresh and the sending half of rivincita.
AnswerRematch(p, yes) ==
  /\ FxFree(p)
  /\ window[p] = "asking"
  /\ yes => round < MaxRounds
  /\ Send(p, <<IF yes THEN OP_APPROVE_REQ ELSE OP_DECLINE_REQ>>)
  /\ consensus' = [consensus EXCEPT ![p] = yes]
  /\ window' = [window EXCEPT ![p] = "waiting"]
  /\ UNCHANGED <<server, reader, runLater, has_token_control, engine, shown, fetching>>

\* The receiving half of rivincita: readUnsignedShort.
ReadReply(p) ==
  /\ link[p] = "open"
  /\ window[p] = "waiting"
  /\ toClient[p] # <<>>
  /\ toClient' = [toClient EXCEPT ![p] = Tail(@)]
  /\ window' = [window EXCEPT ![p] =
                  IF consensus[p] /\ Head(toClient[p]) = <<"rematch", OP_APPROVE_REQ>>
                  THEN "agreed" ELSE "over"]
  /\ UNCHANGED <<server, link, toServer, reader, runLater, has_token_control,
                 engine, shown, consensus, fetching>>

ReplyTimesOut(p) ==
  /\ Timeouts
  /\ link[p] = "open"
  /\ window[p] = "waiting"
  /\ toClient[p] = <<>>
  /\ window' = [window EXCEPT ![p] = "over"]
  /\ UNCHANGED <<server, network, reader, runLater, has_token_control, engine,
                 shown, consensus, fetching>>

\* purgeTopologicalGrid and a new reader; the engine stays until it is renewed.
\* Mutants: the token of the last round stays; the marks of the last round stay.
PlayAgainKeepingToken(p) ==
  /\ FxFree(p) /\ window[p] = "agreed"
  /\ shown' = [shown EXCEPT ![p] = wipe_topological_grid]
  /\ reader' = [reader EXCEPT ![p] = "first"]
  /\ window' = [window EXCEPT ![p] = "playing"]
  /\ consensus' = [consensus EXCEPT ![p] = FALSE]
  /\ UNCHANGED <<server, network, runLater, has_token_control, engine, fetching>>
PlayAgainUnwiped(p) ==
  /\ FxFree(p) /\ window[p] = "agreed"
  /\ has_token_control' = [has_token_control EXCEPT ![p] = FALSE]
  /\ reader' = [reader EXCEPT ![p] = "first"]
  /\ window' = [window EXCEPT ![p] = "playing"]
  /\ consensus' = [consensus EXCEPT ![p] = FALSE]
  /\ UNCHANGED <<server, network, runLater, engine, shown, fetching>>
PlayAgain(p) ==
  /\ FxFree(p)
  /\ window[p] = "agreed"
  /\ shown' = [shown EXCEPT ![p] = wipe_topological_grid]
  /\ has_token_control' = [has_token_control EXCEPT ![p] = FALSE]
  /\ reader' = [reader EXCEPT ![p] = "first"]
  /\ window' = [window EXCEPT ![p] = "playing"]
  /\ consensus' = [consensus EXCEPT ![p] = FALSE]
  /\ UNCHANGED <<server, network, runLater, engine, fetching>>

\* The lobby's timeline fires: listGames writes its opcode into the match ...
FetchLedger(p) ==
  /\ p \in Pollers
  /\ FxFree(p)
  /\ Len(toServer[p]) + 2 <= MaxUnread
  /\ Send(p, <<0, OP_FETCH_WAITING_LIST>>)
  /\ fetching' = [fetching EXCEPT ![p] = "asked"]
  /\ UNCHANGED <<server, reader, runLater, has_token_control, engine, shown,
                 window, consensus>>

\* ... and waits for a line in the monitor of byte_consumer, which the reader
\* may have first, or be about to take; it keeps it to the end of the line.
FetchReads(p) ==
  /\ link[p] = "open"
  /\ fetching[p] = "asked"
  /\ fetching' = [fetching EXCEPT ![p] = "reading"]
  /\ UNCHANGED <<server, network, reader, runLater, has_token_control, engine,
                 shown, window, consensus>>

\* The bytes of the match go into the line.  The reader waits for an opponent's
\* move outside the monitor, so that the two race for them.  Of what the server
\* sends only the descriptor of a player can end in a byte 10, the newline.
SwallowMessage(p) ==
  /\ link[p] = "open"
  /\ fetching[p] = "reading"
  /\ toClient[p] # <<>>
  /\ toClient' = [toClient EXCEPT ![p] = Tail(@)]
  /\ \E after \in {"reading"} \cup {end \in {"no"} : Head(toClient[p])[1] \in {"turn", "status"}
                                                      /\ Received(p) \in Players} :
       fetching' = [fetching EXCEPT ![p] = after]
  /\ UNCHANGED <<server, link, toServer, reader, runLater, has_token_control, engine,
                 shown, window, consensus>>

FetchEnds(p) ==
  /\ link[p] = "open"
  /\ fetching[p] = "reading"
  /\ Timeouts \/ pc = "done"
  /\ fetching' = [fetching EXCEPT ![p] = "no"]
  /\ UNCHANGED <<server, network, reader, runLater, has_token_control, engine,
                 shown, window, consensus>>

\* The program of p stops.  A socket closed over unread data resets the
\* connection, and what it had sent may be lost.
Quit(p) ==
  /\ p \in Quitters
  /\ link[p] = "open"
  /\ \/ /\ link' = [link EXCEPT ![p] = "closed"]
        /\ UNCHANGED toServer
     \/ /\ toClient[p] # <<>>
        /\ link' = [link EXCEPT ![p] = "reset"]
        /\ toServer' = [toServer EXCEPT ![p] = <<>>]
  /\ toClient' = [toClient EXCEPT ![p] = <<>>]
  /\ UNCHANGED <<server, client>>

FxStep(p) == \/ \E cell \in Playable[p] : Click(p, cell)
             \/ HandleOpponentMove(p)
             \/ HandleGameStatus(p)
             \/ \E yes \in BOOLEAN : AnswerRematch(p, yes)
             \/ ReadReply(p)
             \/ ReplyTimesOut(p)
             \/ PlayAgain(p)
             \/ FetchLedger(p)
             \/ FetchReads(p)
             \/ SwallowMessage(p)
             \/ FetchEnds(p)

\* The match is over, or the whole server is.
Terminated == /\ pc \in {"done", "killed"}
              /\ UNCHANGED vars

Next == \/ /\ pc # "killed"
           /\ \/ ServerStep
              \/ \E p \in Players : ReaderStep(p) \/ FxStep(p) \/ Quit(p)
        \/ Terminated

Spec == Init /\ [][Next]_vars

\* SO_RCVTIMEO bounds every receive of the server thread (server.c:690), and
\* nothing else blocks it here; the users and their programs owe nothing.
FairSpec == Spec /\ WF_vars(ServerStep)

-----------------------------------------------------------------------------
(***************************************************************************)
(* Properties.                                                             *)
(***************************************************************************)
Marked == Players \cup {0}
Halves == 0..9
Messages == ({"turn"} \X Players)
              \cup ({"cell"} \X Positions)
              \cup ({"status"} \X (Players \cup {Undecided, Draw}))
              \cup ({"rematch"} \X {OP_APPROVE_REQ, OP_DECLINE_REQ})
Calls == ({"onOpponentMove"} \X Int) \cup ({"onGameStatus"} \X Int)

\* Every variable keeps its type.  That the halves a client sends stay below
\* ten is what keeps the moves the server reads small.
TypeOK ==
  /\ pc \in {"start", "await", "polling", "done", "killed"}
  /\ grid \in Grids(Marked)
  /\ activeTurnIdx \in Marked
  /\ pc = "await" => activeTurnIdx \in Players
  /\ currentState \in {"IN_PROGRESS", "CONCLUDED"}
  /\ core_status \in Players \cup {Undecided, Draw}
  /\ outcomeBuffer \in [Players -> Halves \cup {NoVerdict, NotRead}]
  /\ round \in Nat
  /\ link \in [Players -> {"open", "closed", "reset"}]
  /\ toServer \in [Players -> Seq(Halves)]
  /\ toClient \in [Players -> Seq(Messages)]
  /\ reader \in [Players -> {"first", "freshOwn", "freshOpp", "ownStatus",
                             "oppMove", "oppStatus", "ended", "broken"}]
  /\ runLater \in [Players -> Seq(Calls)]
  /\ has_token_control \in [Players -> BOOLEAN]
  /\ engine \in [Players -> Grids(Marked)]
  /\ shown \in [Players -> Grids(Marked)]
  /\ window \in [Players -> {"playing", "asking", "waiting", "agreed", "over"}]
  /\ consensus \in [Players -> BOOLEAN]
  /\ fetching \in [Players -> {"no", "asked", "reading"}]

\* The server, its streams and its clients play the game of Referee: the turns
\* alternate, no mark is lost or moved, and the status the server declares is
\* the one the rules give (execute_core_loop, calculate_session_victor).  Only
\* a player whose lobby still polls may mark over the other, in its own turn:
\* the server looks at no cell, and OP_FETCH_WAITING_LIST is one.
Game == INSTANCE Referee WITH
  Careless <- Pollers,
  board <- IF pc \in {"done", "killed"} THEN wipe_topological_grid ELSE grid,
  mover <- IF pc = "await" THEN activeTurnIdx ELSE 0,
  stage <- CASE pc = "start" -> "idle"
             [] pc = "await" -> "playing"
             [] pc = "polling" -> "settled"
             [] OTHER -> "closed",
  victor <- IF pc = "polling" THEN core_status ELSE Undecided
PlaysTheGame == Game!Spec

Faithful == Players \ Pollers
Kinds(p) == {toClient[p][i][1] : i \in DOMAIN toClient[p]}

\* A reader never takes the bytes of one message for another's: whatever the
\* interleaving of the two readers of a client (the daemon of startReader and
\* the FX thread in rivincita) with the sends of the server.
StreamInStep ==
  \A p \in Faithful :
    (link[p] = "open" /\ toClient[p] # <<>>) =>
      LET kind == Head(toClient[p])[1]
      IN /\ reader[p] = "first" /\ window[p] = "playing" => kind = "turn"
         /\ reader[p] = "oppMove" => kind = "cell"
         /\ reader[p] \in {"ownStatus", "oppStatus"} => kind = "status"
         /\ window[p] = "waiting" => kind = "rematch"

MayMove(p) == /\ link[p] = "open"
              /\ window[p] = "playing"
              /\ has_token_control[p]

\* While the server plays a round, a player who can click is the one it waits
\* for, and has not been heard yet: has_token_control, kept by two threads of
\* each client, never disagrees with activeTurnIdx.
TurnsAgree ==
  pc = "await" => \A p \in Faithful : MayMove(p) => /\ activeTurnIdx = p
                                                    /\ toServer[p] = <<>>

\* Nobody is heard out of turn, and what the acting node sent is one whole
\* move to a cell that is free: the server, which checks neither, relies on it.
OnlyTheActingNodeSpeaks ==
  pc = "await" =>
    \A p \in Faithful :
      toServer[p] # <<>> =>
        /\ p = activeTurnIdx
        /\ Len(toServer[p]) = 2
        /\ toServer[p][1] = 0
        /\ grid[toServer[p][2]] = 0

\* p's program knows of the round being played, which is not being discussed.
InRound(p) == /\ \/ pc = "await"
                 \/ pc = "polling" /\ outcomeBuffer[p] = NotRead
              /\ link[p] = "open"
              /\ "turn" \notin Kinds(p)

Unseen(p) == {toClient[p][i][2] : i \in {j \in DOMAIN toClient[p] : toClient[p][j][1] = "cell"}}
               \cup {runLater[p][i][2] :
                      i \in {j \in DOMAIN runLater[p] : runLater[p][j][1] = "onOpponentMove"}}
Unheard(p) == IF Len(toServer[p]) > 1 THEN {toServer[p][2]} ELSE {}

\* What a player sees is the server's grid, but for the opponent's marks still
\* on their way to the FX thread and the player's own mark the server has not
\* read.
ViewsReconcile ==
  \A p \in Faithful : InRound(p) =>
    \A cell \in Positions :
      grid[cell] = IF cell \in Unseen(p) THEN dispatch_active_node(p)
                   ELSE IF cell \in Unheard(p) /\ shown[p][cell] = p THEN 0
                   ELSE shown[p][cell]

\* Once the reader has renewed the board of TrisGame, a button the user can
\* press is a cell that board holds free: the two records of the marks, one
\* written by both threads, never refuse a legal move.
NoMoveRefused ==
  \A p \in Players :
    (MayMove(p) /\ reader[p] \notin {"first", "freshOwn", "freshOpp"}) =>
      \A cell \in Positions : shown[p][cell] = 0 => engine[p][cell] = 0

\* Nobody whose program runs is drawn into another round: it begins only after
\* its user has asked for it (invoke_rematch).
RematchNeedsBoth ==
  [][round' # round => \A p \in Players : link[p] = "open" => consensus[p]]_vars

\* And it does begin if they have: "Se entrambi concordano, la partita riparte
\* immediatamente" (server.c:469).
RematchWhenBothAgree ==
  [][pc = "polling" /\ pc' = "done" =>
       ~ \A p \in Players : window[p] = "waiting" /\ consensus[p]]_vars

\* A mark is never overwritten: "verifica che la cella sia vuota"
\* (Documentazione.tex:247).
NoMarkOverwritten ==
  [][\A cell \in Positions :
       grid[cell] # 0 => grid'[cell] = grid[cell] \/ grid' = wipe_topological_grid]_vars

\* When a player leaves a round, the other is told that it won
\* (Documentazione.tex:260).
AbandonIsNotified ==
  [][pc = "await" /\ pc' = "done" =>
       \A p \in Players :
         link[p] = "open" /\ link[dispatch_active_node(p)] # "open" =>
           toClient'[p] # toClient[p]]_vars

\* A round ends, whatever the players and their programs do or fail to do: the
\* receives time out and the marks run out (execute_core_loop).
RoundEnds == pc = "await" ~> pc \in {"polling", "done", "killed"}
=============================================================================
