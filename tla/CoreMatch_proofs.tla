-------------------------- MODULE CoreMatch_proofs --------------------------
(***************************************************************************)
(* Proofs about CoreMatch, for any two descriptors, any number of rounds   *)
(* and whatever the users, their programs and their lobbies do; and about  *)
(* Boards, for any board.                                                  *)
(***************************************************************************)
EXTENDS CoreMatch, Boards, SequenceTheorems, WellFoundedInduction, TLAPS

States == {"start", "await", "polling", "done", "killed"}

-----------------------------------------------------------------------------
(* Sequences. *)

\* What a step sends is a sequence of one message or of two.
LEMMA ShortSequences ==
  ASSUME NEW S, NEW a \in S, NEW b \in S
  PROVE  <<a>> \in Seq(S) /\ <<a, b>> \in Seq(S)
  OBVIOUS

\* Taking a whole move from a stream leaves a stream.
LEMMA WithoutAMove ==
  ASSUME NEW S, NEW s \in Seq(S), Len(s) > 1
  PROVE  /\ s[1] \in S
         /\ s[2] \in S
         /\ SubSeq(s, 3, Len(s)) \in Seq(S)
<1>1. Len(s) \in Int /\ \A i \in 3 .. Len(s) : s[i] \in S
  OBVIOUS
<1>2. SubSeq(s, 3, Len(s)) \in Seq(S)
  BY <1>1, SubSeqProperties
<1>3. s[1] \in S /\ s[2] \in S
  OBVIOUS
<1> QED
  BY <1>2, <1>3

-----------------------------------------------------------------------------
(* The board. *)

\* The judge names one of the two values it is given, or no one.
LEMMA VictorType ==
  ASSUME NEW g, NEW val1, NEW val2
  PROVE  calculate_session_victor(g, val1, val2) \in {val1, val2, Undecided, Draw}
  BY DEF calculate_session_victor

\* A grid with one more mark is a grid.
LEMMA PutMarkType ==
  ASSUME NEW values, NEW g \in Grids(values), NEW cell \in Positions, NEW mark \in values
  PROVE  PutMark(g, cell, mark) \in Grids(values)
  BY DEF PutMark, Grids

\* The empty board is a grid.
LEMMA BlankType == wipe_topological_grid \in Grids(Marked)
  BY DEF wipe_topological_grid, Grids, Marked

-----------------------------------------------------------------------------
(* What the server sends. *)

\* The next node is a player, whoever has the turn.
LEMMA PlayersAreNumbers ==
  /\ Players \subseteq Nat \ {0}
  /\ \A turn : dispatch_active_node(turn) \in Players
  BY NodesAssumption DEF Players, dispatch_active_node

\* What the server sends are messages.
LEMMA MessageTypes ==
  /\ \A p \in Players : <<"turn", p>> \in Messages
  /\ \A cell \in Positions : <<"cell", cell>> \in Messages
  /\ \A s \in Players \cup {Undecided, Draw} : <<"status", s>> \in Messages
  /\ \A r \in {OP_APPROVE_REQ, OP_DECLINE_REQ} : <<"rematch", r>> \in Messages
  BY DEF Messages

\* Whatever it is, a client can take it for a number.
LEMMA MessagesAreNumbers == \A m \in Messages : m[2] \in Int
<1> DEFINE Numbers == Players \cup Positions \cup {Undecided, Draw, OP_APPROVE_REQ, OP_DECLINE_REQ}
<1>1. Numbers \subseteq Int
  BY PlayersAreNumbers DEF Positions, Undecided, Draw, OP_APPROVE_REQ, OP_DECLINE_REQ
<1>2. \A m \in Messages : m[2] \in Numbers
  BY DEF Messages
<1> QED
  BY <1>1, <1>2

\* Sending keeps the streams sequences of messages, and ends where it was to or is killed.
LEMMA SendAllType ==
  ASSUME NEW sent \in [Players -> Seq(Messages)], NEW next \in States,
         TypeOK, SendAll(sent, next)
  PROVE  /\ toClient' \in [Players -> Seq(Messages)]
         /\ link' \in [Players -> {"open", "closed", "reset"}]
         /\ pc' \in {next, "killed"}
<1>1. \A p \in Players : toClient[p] \in Seq(Messages) /\ sent[p] \in Seq(Messages)
  BY DEF TypeOK
<1>2. \A p \in Players : toClient[p] \o sent[p] \in Seq(Messages)
  BY <1>1, ConcatProperties
<1>3. <<>> \in Seq(Messages)
  OBVIOUS
<1>4. toClient' \in [Players -> Seq(Messages)]
  BY <1>1, <1>2, <1>3 DEF SendAll
<1>5. link' \in [Players -> {"open", "closed", "reset"}]
  BY DEF SendAll, TypeOK
<1> QED
  BY <1>4, <1>5 DEF SendAll

-----------------------------------------------------------------------------
(* The server thread. *)

\* A match starts well typed.
LEMMA Init_TypeOK == Init => TypeOK
<1> SUFFICES ASSUME Init PROVE TypeOK
  OBVIOUS
<1>1. <<>> \in Seq(Halves) /\ <<>> \in Seq(Messages) /\ <<>> \in Seq(Calls)
  OBVIOUS
<1>2. NoMarks \in [Players -> Grids(Marked)]
  BY BlankType DEF NoMarks
<1> QED
  BY <1>1, <1>2, BlankType DEF Init, TypeOK, Marked

\* The turns are drawn and sent.
LEMMA StartRound_TypeOK == TypeOK /\ StartRound => TypeOK'
<1> SUFFICES ASSUME TypeOK, StartRound PROVE TypeOK'
  OBVIOUS
<1> DEFINE sent == [p \in Players |-> << <<"turn", activeTurnIdx'>> >>]
<1>1. activeTurnIdx' \in Players /\ SendAll(sent, "await")
  BY DEF StartRound
<1>2. sent \in [Players -> Seq(Messages)]
  BY <1>1, MessageTypes, ShortSequences
<1>3. /\ toClient' \in [Players -> Seq(Messages)]
      /\ link' \in [Players -> {"open", "closed", "reset"}]
      /\ pc' \in {"await", "killed"}
  BY <1>1, <1>2, SendAllType DEF States
<1> QED
  BY <1>1, <1>3 DEF StartRound, TypeOK, client, Marked

\* A move is read, marked, judged and forwarded; one that is no cell kills the server.
LEMMA ReceiveMove_TypeOK == TypeOK /\ ReceiveMove => TypeOK'
<1> SUFFICES ASSUME TypeOK, ReceiveMove PROVE TypeOK'
  OBVIOUS
<1> DEFINE acting == activeTurnIdx
           cell == 65536 * toServer[acting][1] + toServer[acting][2]
           next == dispatch_active_node(acting)
           sent == [p \in Players |-> MoveMessages(p, next, cell, core_status')]
           after == IF core_status' = Undecided THEN "await" ELSE "polling"
<1>1. acting \in Players /\ next \in Players /\ dispatch_active_node(next) \in Players
  BY PlayersAreNumbers DEF ReceiveMove, TypeOK
<1>2. toServer' \in [Players -> Seq(Halves)]
  <2>1. toServer[acting] \in Seq(Halves) /\ Len(toServer[acting]) > 1
    BY <1>1 DEF ReceiveMove, TypeOK
  <2>2. SubSeq(toServer[acting], 3, Len(toServer[acting])) \in Seq(Halves)
    BY <2>1, WithoutAMove
  <2> QED
    BY <2>2 DEF ReceiveMove, TypeOK
<1>3. CASE cell \in Positions
  <2>1. /\ grid' = PutMark(grid, cell, acting)
        /\ core_status' = calculate_session_victor(grid', Node1, Node2)
        /\ SendAll(sent, after)
    BY <1>3 DEF ReceiveMove
  <2>2. grid' \in Grids(Marked)
    BY <1>1, <1>3, <2>1, PutMarkType DEF TypeOK, Marked
  <2>3. core_status' \in Players \cup {Undecided, Draw}
    BY <2>1, VictorType DEF Players
  <2>4. sent \in [Players -> Seq(Messages)]
    <3>1. <<"cell", cell>> \in Messages /\ <<"status", core_status'>> \in Messages
      BY <1>3, <2>3, MessageTypes
    <3> HIDE DEF cell, next
    <3> QED
      BY <3>1, ShortSequences DEF MoveMessages
  <2>5. /\ toClient' \in [Players -> Seq(Messages)]
        /\ link' \in [Players -> {"open", "closed", "reset"}]
        /\ pc' \in {after, "killed"}
    <3>1. after \in States
      BY DEF States
    <3> HIDE DEF sent, after
    <3> QED
      BY <2>1, <2>4, <3>1, SendAllType
  <2>6. IF core_status' = Undecided
        THEN activeTurnIdx' = next /\ currentState' = currentState
        ELSE activeTurnIdx' = dispatch_active_node(next) /\ currentState' = "CONCLUDED"
    BY <1>3 DEF ReceiveMove
  <2>7. outcomeBuffer' = outcomeBuffer /\ round' = round /\ UNCHANGED client
    BY DEF ReceiveMove
  <2> HIDE DEF sent, cell, next
  <2> QED
    BY <1>1, <1>2, <2>2, <2>3, <2>5, <2>6, <2>7 DEF TypeOK, client, Marked
<1>4. CASE cell \notin Positions
  <2>1. /\ pc' = "killed"
        /\ UNCHANGED <<grid, activeTurnIdx, currentState, core_status, link, toClient>>
        /\ UNCHANGED <<outcomeBuffer, round, client>>
    BY <1>4 DEF ReceiveMove
  <2> QED
    BY <1>2, <2>1 DEF TypeOK, client
<1> QED
  BY <1>3, <1>4

\* A receive fails and the round ends.
LEMMA AbandonRound_TypeOK == TypeOK /\ AbandonRound => TypeOK'
<1> SUFFICES ASSUME TypeOK, AbandonRound PROVE TypeOK'
  OBVIOUS
<1>1. dispatch_active_node(activeTurnIdx) \in Marked
  BY PlayersAreNumbers DEF Marked
<1>2. toServer' \in [Players -> Seq(Halves)]
  <2>1. <<>> \in Seq(Halves)
    OBVIOUS
  <2> QED
    BY <2>1 DEF AbandonRound, TypeOK
<1> QED
  BY <1>1, <1>2 DEF AbandonRound, TypeOK, client

\* A verdict is read, times out, or is whatever memory holds.
LEMMA PollVerdict_TypeOK ==
  ASSUME NEW p \in Players, TypeOK, PollVerdict(p)
  PROVE  TypeOK'
<1>1. CASE toServer[p] # <<>>
  <2>1. toServer[p] \in Seq(Halves)
    BY DEF TypeOK
  <2>2. Head(toServer[p]) \in Halves /\ Tail(toServer[p]) \in Seq(Halves)
    BY <1>1, <2>1, HeadTailProperties
  <2>3. /\ outcomeBuffer' = [outcomeBuffer EXCEPT ![p] = Head(toServer[p])]
        /\ toServer' = [toServer EXCEPT ![p] = Tail(@)]
    BY <1>1 DEF PollVerdict
  <2>4. /\ outcomeBuffer' \in [Players -> Halves \cup {NoVerdict, NotRead}]
        /\ toServer' \in [Players -> Seq(Halves)]
    BY <2>2, <2>3 DEF TypeOK
  <2> QED
    BY <2>4 DEF PollVerdict, TypeOK, client
<1>2. CASE toServer[p] = <<>>
  <2>1. toServer' = toServer
    BY <1>2 DEF PollVerdict
  <2>2. PICK left \in {NoVerdict, 0, OP_APPROVE_REQ} :
               outcomeBuffer' = [outcomeBuffer EXCEPT ![p] = left]
    BY <1>2 DEF PollVerdict
  <2>3. left \in Halves \cup {NoVerdict}
    BY DEF Halves, OP_APPROVE_REQ
  <2>4. outcomeBuffer' \in [Players -> Halves \cup {NoVerdict, NotRead}]
    BY <2>2, <2>3 DEF TypeOK
  <2> QED
    BY <2>1, <2>4 DEF PollVerdict, TypeOK, client
<1> QED
  BY <1>1, <1>2

\* The verdicts are joined and answered.
LEMMA JoinVerdicts_TypeOK == TypeOK /\ JoinVerdicts => TypeOK'
<1> SUFFICES ASSUME TypeOK, JoinVerdicts PROVE TypeOK'
  OBVIOUS
<1> DEFINE reply == IF Approved THEN OP_APPROVE_REQ ELSE OP_DECLINE_REQ
           sent == [p \in Players |-> << <<"rematch", reply>> >>]
           after == IF Approved THEN "start" ELSE "done"
<1>1. <<"rematch", reply>> \in Messages
  BY MessageTypes
<1>2. sent \in [Players -> Seq(Messages)]
  BY <1>1, ShortSequences
<1>3. SendAll(sent, after)
  BY DEF JoinVerdicts
<1>4. /\ toClient' \in [Players -> Seq(Messages)]
      /\ link' \in [Players -> {"open", "closed", "reset"}]
      /\ pc' \in {after, "killed"}
  BY <1>2, <1>3, SendAllType DEF States
<1>5. outcomeBuffer' \in [Players -> Halves \cup {NoVerdict, NotRead}]
  BY DEF JoinVerdicts
<1>6. /\ grid' \in Grids(Marked)
      /\ round' \in Nat
      /\ currentState' \in {"IN_PROGRESS", "CONCLUDED"}
  BY BlankType DEF JoinVerdicts, TypeOK
<1>7. UNCHANGED <<activeTurnIdx, core_status, toServer, client>> /\ pc' # "await"
  BY <1>4 DEF JoinVerdicts
<1> HIDE DEF sent
<1> QED
  BY <1>4, <1>5, <1>6, <1>7 DEF TypeOK, client

-----------------------------------------------------------------------------
(* The reader thread of a client. *)

\* The reader takes one message, whose value is a number.
LEMMA ReadIntType ==
  ASSUME NEW p \in Players, TypeOK, toClient[p] # <<>>, ReadInt(p)
  PROVE  /\ toClient' \in [Players -> Seq(Messages)]
         /\ Received(p) \in Int
         /\ UNCHANGED <<link, toServer, server>>
<1>1. toClient[p] \in Seq(Messages)
  BY DEF TypeOK
<1>2. Head(toClient[p]) \in Messages /\ Tail(toClient[p]) \in Seq(Messages)
  BY <1>1, HeadTailProperties
<1>3. toClient' \in [Players -> Seq(Messages)]
  BY <1>2 DEF ReadInt, TypeOK
<1>4. Received(p) \in Int
  BY <1>2, MessagesAreNumbers DEF Received
<1> QED
  BY <1>3, <1>4 DEF ReadInt

\* What the reader leaves to the FX thread is a call.
LEMMA CallType ==
  ASSUME NEW p \in Players, TypeOK, NEW value \in Int
  PROVE  /\ Append(runLater[p], <<"onOpponentMove", value>>) \in Seq(Calls)
         /\ Append(runLater[p], <<"onGameStatus", value>>) \in Seq(Calls)
<1>1. runLater[p] \in Seq(Calls)
  BY DEF TypeOK
<1>2. <<"onOpponentMove", value>> \in Calls /\ <<"onGameStatus", value>> \in Calls
  BY DEF Calls
<1> QED
  BY <1>1, <1>2, AppendProperties

\* Every step of a reader.
LEMMA ReaderStep_TypeOK ==
  ASSUME NEW p \in Players, TypeOK, ReaderStep(p)
  PROVE  TypeOK'
<1>1. CASE ReadFirstTurn(p)
  <2>1. /\ toClient' \in [Players -> Seq(Messages)]
        /\ UNCHANGED <<link, toServer, server>>
    BY <1>1, ReadIntType DEF ReadFirstTurn, Reading
  <2>2. has_token_control' \in [Players -> BOOLEAN]
    BY <1>1 DEF ReadFirstTurn, TypeOK
  <2> QED
    BY <1>1, <2>1, <2>2 DEF ReadFirstTurn, TypeOK, server
<1>2. CASE RenewEngine(p)
  BY <1>2, BlankType DEF RenewEngine, TypeOK, server, network
<1>3. CASE ReadOpponentMove(p)
  <2>1. /\ toClient' \in [Players -> Seq(Messages)]
        /\ Received(p) \in Int
        /\ UNCHANGED <<link, toServer, server>>
    BY <1>3, ReadIntType DEF ReadOpponentMove, Reading
  <2>2. runLater' \in [Players -> Seq(Calls)]
    BY <1>3, <2>1, CallType DEF ReadOpponentMove, TypeOK
  <2> QED
    BY <1>3, <2>1, <2>2 DEF ReadOpponentMove, TypeOK, server
<1>4. CASE ReadStatus(p)
  <2>1. /\ toClient' \in [Players -> Seq(Messages)]
        /\ Received(p) \in Int
        /\ UNCHANGED <<link, toServer, server>>
    BY <1>4, ReadIntType DEF ReadStatus, Reading
  <2>2. runLater' \in [Players -> Seq(Calls)]
    <3>1. Append(runLater[p], <<"onGameStatus", Received(p)>>) \in Seq(Calls)
      BY <2>1, CallType
    <3>2. \/ runLater' = runLater
          \/ runLater' = [runLater EXCEPT ![p] =
                            Append(runLater[p], <<"onGameStatus", Received(p)>>)]
      BY <1>4 DEF ReadStatus
    <3> QED
      BY <3>1, <3>2 DEF TypeOK
  <2> QED
    BY <1>4, <2>1, <2>2 DEF ReadStatus, TypeOK, server
<1>5. CASE ReaderTimesOut(p)
  BY <1>5 DEF ReaderTimesOut, TypeOK, server, network
<1> QED
  BY <1>1, <1>2, <1>3, <1>4, <1>5 DEF ReaderStep

-----------------------------------------------------------------------------
(* The FX thread of a client. *)

\* Sending halves keeps the stream a sequence of halves.
LEMMA SendType ==
  ASSUME NEW p \in Players, TypeOK, NEW halves \in Seq(Halves), Send(p, halves)
  PROVE  /\ toServer' \in [Players -> Seq(Halves)]
         /\ UNCHANGED <<link, toClient>>
<1>1. toServer[p] \in Seq(Halves)
  BY DEF TypeOK
<1>2. toServer[p] \o halves \in Seq(Halves)
  BY <1>1, ConcatProperties
<1> QED
  BY <1>2 DEF Send, TypeOK

\* Handling a call leaves calls.
LEMMA TailOfCalls ==
  ASSUME NEW p \in Players, TypeOK, runLater[p] # <<>>
  PROVE  Tail(runLater[p]) \in Seq(Calls)
<1>1. runLater[p] \in Seq(Calls)
  BY DEF TypeOK
<1> QED
  BY <1>1, HeadTailProperties

\* Reading a message leaves messages.
LEMMA TailOfMessages ==
  ASSUME NEW p \in Players, TypeOK, toClient[p] # <<>>
  PROVE  Tail(toClient[p]) \in Seq(Messages)
<1>1. toClient[p] \in Seq(Messages)
  BY DEF TypeOK
<1> QED
  BY <1>1, HeadTailProperties

\* A click marks the two boards of the client and sends the cell.
LEMMA Click_TypeOK ==
  ASSUME NEW p \in Players, NEW cell \in Playable[p], TypeOK, Click(p, cell)
  PROVE  TypeOK'
<1>1. cell \in Positions
  BY BoundsAssumption
<1>2. <<0, cell>> \in Seq(Halves)
  BY <1>1, ShortSequences DEF Positions, Halves
<1>3. toServer' \in [Players -> Seq(Halves)] /\ UNCHANGED <<link, toClient>>
  BY <1>2, SendType DEF Click
<1>4. /\ PutMark(engine[p], cell, p) \in Grids(Marked)
      /\ PutMark(shown[p], cell, p) \in Grids(Marked)
  BY <1>1, PutMarkType DEF TypeOK, Marked
<1> QED
  BY <1>3, <1>4 DEF Click, TypeOK, server

\* A mark of the opponent is shown, if it is a cell at all.
LEMMA HandleOpponentMove_TypeOK ==
  ASSUME NEW p \in Players, TypeOK, HandleOpponentMove(p)
  PROVE  TypeOK'
<1> DEFINE cell == Head(runLater[p])[2]
           opponent == dispatch_active_node(p)
<1>1. runLater' \in [Players -> Seq(Calls)]
  BY TailOfCalls DEF HandleOpponentMove, TypeOK
<1>2. UNCHANGED <<server, network, reader, window, consensus, fetching>>
  BY DEF HandleOpponentMove
<1>3. CASE cell \in Positions
  <2>1. /\ engine' = [engine EXCEPT ![p] = applyOpponentMove(@, cell, opponent)]
        /\ shown' = [shown EXCEPT ![p] = PutMark(@, cell, opponent)]
        /\ has_token_control' = [has_token_control EXCEPT ![p] = TRUE]
    BY <1>3 DEF HandleOpponentMove
  <2>2. opponent \in Marked
    BY PlayersAreNumbers DEF Marked
  <2>3. PutMark(shown[p], cell, opponent) \in Grids(Marked)
    BY <1>3, <2>2, PutMarkType DEF TypeOK
  <2>4. engine' \in [Players -> Grids(Marked)]
    <3>1. engine[p] \in Grids(Marked)
      BY DEF TypeOK
    <3>2. applyOpponentMove(engine[p], cell, opponent) \in Grids(Marked)
      BY <1>3, <2>2, <3>1 DEF Grids, applyOpponentMove
    <3> HIDE DEF cell, opponent
    <3> QED
      BY <2>1, <3>2 DEF TypeOK
  <2> HIDE DEF cell, opponent
  <2> QED
    BY <1>1, <1>2, <2>1, <2>3, <2>4 DEF TypeOK, server, network
<1>4. CASE cell \notin Positions
  <2>1. UNCHANGED <<engine, shown, has_token_control>>
    BY <1>4 DEF HandleOpponentMove
  <2> QED
    BY <1>1, <1>2, <2>1 DEF TypeOK, server, network
<1> QED
  BY <1>3, <1>4

\* The answer of the user to the dialog is sent.
LEMMA AnswerRematch_TypeOK ==
  ASSUME NEW p \in Players, NEW yes \in BOOLEAN, TypeOK, AnswerRematch(p, yes)
  PROVE  TypeOK'
<1>1. <<IF yes THEN OP_APPROVE_REQ ELSE OP_DECLINE_REQ>> \in Seq(Halves)
  BY ShortSequences DEF OP_APPROVE_REQ, OP_DECLINE_REQ, Halves
<1>2. toServer' \in [Players -> Seq(Halves)] /\ UNCHANGED <<link, toClient>>
  BY <1>1, SendType DEF AnswerRematch
<1> QED
  BY <1>2 DEF AnswerRematch, TypeOK, server

\* The reply of the server to a verdict is read, whatever it is.
LEMMA ReadReply_TypeOK ==
  ASSUME NEW p \in Players, TypeOK, ReadReply(p)
  PROVE  TypeOK'
<1>1. toClient' \in [Players -> Seq(Messages)]
  BY TailOfMessages DEF ReadReply, TypeOK
<1>2. window' \in [Players -> {"playing", "asking", "waiting", "agreed", "over"}]
  BY DEF ReadReply, TypeOK
<1> QED
  BY <1>1, <1>2 DEF ReadReply, TypeOK, server

\* A fetch of the ledger is sent.
LEMMA FetchLedger_TypeOK ==
  ASSUME NEW p \in Players, TypeOK, FetchLedger(p)
  PROVE  TypeOK'
<1>1. <<0, OP_FETCH_WAITING_LIST>> \in Seq(Halves)
  BY ShortSequences DEF OP_FETCH_WAITING_LIST, Halves
<1>2. toServer' \in [Players -> Seq(Halves)] /\ UNCHANGED <<link, toClient>>
  BY <1>1, SendType DEF FetchLedger
<1> QED
  BY <1>2 DEF FetchLedger, TypeOK, server

\* Every step of an FX thread.
LEMMA FxStep_TypeOK ==
  ASSUME NEW p \in Players, TypeOK, FxStep(p)
  PROVE  TypeOK'
<1>1. ASSUME NEW cell \in Playable[p], Click(p, cell) PROVE TypeOK'
  BY <1>1, Click_TypeOK
<1>2. CASE HandleOpponentMove(p)
  BY <1>2, HandleOpponentMove_TypeOK
<1>3. CASE HandleGameStatus(p)
  BY <1>3, TailOfCalls DEF HandleGameStatus, TypeOK, server, network
<1>4. ASSUME NEW yes \in BOOLEAN, AnswerRematch(p, yes) PROVE TypeOK'
  BY <1>4, AnswerRematch_TypeOK
<1>5. CASE ReadReply(p)
  BY <1>5, ReadReply_TypeOK
<1>6. CASE ReplyTimesOut(p)
  BY <1>6 DEF ReplyTimesOut, TypeOK, server, network
<1>7. CASE PlayAgain(p)
  BY <1>7, BlankType DEF PlayAgain, TypeOK, server, network
<1>8. CASE FetchLedger(p)
  BY <1>8, FetchLedger_TypeOK
<1>9. CASE SwallowMessage(p)
  <2>1. toClient' \in [Players -> Seq(Messages)]
    BY <1>9, TailOfMessages DEF SwallowMessage, TypeOK
  <2>2. fetching' \in [Players -> {"no", "asked", "reading"}]
    BY <1>9 DEF SwallowMessage, TypeOK
  <2> QED
    BY <1>9, <2>1, <2>2 DEF SwallowMessage, TypeOK, server
<1>10. CASE FetchReads(p) \/ FetchEnds(p)
  BY <1>10 DEF FetchReads, FetchEnds, TypeOK, server, network
<1> QED
  BY <1>1, <1>2, <1>3, <1>4, <1>5, <1>6, <1>7, <1>8, <1>9, <1>10 DEF FxStep

\* A program stops.
LEMMA Quit_TypeOK ==
  ASSUME NEW p \in Players, TypeOK, Quit(p)
  PROVE  TypeOK'
<1>1. <<>> \in Seq(Halves) /\ <<>> \in Seq(Messages)
  OBVIOUS
<1>2. toClient' \in [Players -> Seq(Messages)] /\ toServer' \in [Players -> Seq(Halves)]
  <2>1. toClient' = [toClient EXCEPT ![p] = <<>>]
    BY DEF Quit
  <2>2. toServer' = toServer \/ toServer' = [toServer EXCEPT ![p] = <<>>]
    BY DEF Quit
  <2> QED
    BY <1>1, <2>1, <2>2 DEF TypeOK
<1>3. link' \in [Players -> {"open", "closed", "reset"}]
  BY DEF Quit, TypeOK
<1> QED
  BY <1>2, <1>3 DEF Quit, TypeOK, server, client

-----------------------------------------------------------------------------
\* TypeOK is inductive: one case per step.
LEMMA Next_TypeOK == TypeOK /\ [Next]_vars => TypeOK'
<1> SUFFICES ASSUME TypeOK, [Next]_vars PROVE TypeOK'
  OBVIOUS
<1>1. CASE StartRound
  BY <1>1, StartRound_TypeOK
<1>2. CASE ReceiveMove
  BY <1>2, ReceiveMove_TypeOK
<1>3. CASE AbandonRound
  BY <1>3, AbandonRound_TypeOK
<1>4. ASSUME NEW p \in Players, PollVerdict(p) PROVE TypeOK'
  BY <1>4, PollVerdict_TypeOK
<1>5. CASE JoinVerdicts
  BY <1>5, JoinVerdicts_TypeOK
<1>6. ASSUME NEW p \in Players, ReaderStep(p) PROVE TypeOK'
  BY <1>6, ReaderStep_TypeOK
<1>7. ASSUME NEW p \in Players, FxStep(p) PROVE TypeOK'
  BY <1>7, FxStep_TypeOK
<1>8. ASSUME NEW p \in Players, Quit(p) PROVE TypeOK'
  BY <1>8, Quit_TypeOK
<1>9. CASE UNCHANGED vars
  BY <1>9 DEF vars, server, network, client, TypeOK
<1> QED
  BY <1>1, <1>2, <1>3, <1>4, <1>5, <1>6, <1>7, <1>8, <1>9
     DEF Next, ServerStep, Terminated

\* Every variable of the server and of both clients keeps its type, whatever
\* the server is sent and whoever reads it; in particular the server waits only
\* for a player, and the halves it reads stay small (execute_core_loop, the
\* threads of GameClient and GameController).
THEOREM CoreMatchTypeOK == Spec => []TypeOK
  BY Init_TypeOK, Next_TypeOK, PTL DEF Spec

-----------------------------------------------------------------------------
(***************************************************************************)
(* Proofs about the streams of CoreMatch: the readers of a client whose    *)
(* lobby does not poll stay in step with the server, and the turns agree,  *)
(* whatever the other player and its program do.                           *)
(***************************************************************************)

\* Where a client is in a round, as far as its own threads know: its turn to
\* click, its move gone, the opponent's turn; a status to come with the move
\* of the opponent, before and after the user has answered it; the end, the
\* verdict sent, and the end of it all.
Places == {"first", "due", "sent", "opp", "oppStatus", "oppSent", "ended", "reply", "over"}

\* The client p, at the place a, goes on to b with the message m.
Reads(p, a, m, b) ==
  \/ a = "first" /\ m[1] = "turn" /\ b = IF m[2] = p THEN "due" ELSE "opp"
  \/ a = "opp" /\ m[1] = "cell" /\ b = "oppStatus"
  \/ a = "sent" /\ m[1] = "status" /\ b = IF m[2] = Undecided THEN "opp" ELSE "ended"
  \/ a = "oppStatus" /\ m[1] = "status" /\ b = IF m[2] = Undecided THEN "due" ELSE "ended"
  \/ a = "oppSent" /\ m[1] = "status" /\ b = IF m[2] = Undecided THEN "sent" ELSE "ended"
  \/ a = "ended" /\ m[1] = "rematch" /\ b = "over"
  \/ a = "reply" /\ m[1] = "rematch" /\ b = IF m[2] = OP_APPROVE_REQ THEN "first" ELSE "over"

\* What is on its way to p takes it from a to b.
Path(p, a, messages, b) ==
  \E place \in [0 .. Len(messages) -> Places] :
    /\ place[0] = a
    /\ place[Len(messages)] = b
    /\ \A i \in 1 .. Len(messages) : Reads(p, place[i-1], messages[i], place[i])

MoveQueued(p) == runLater[p] # <<>> /\ Head(runLater[p])[1] = "onOpponentMove"

\* The user of p may click, or will once the move of the opponent is shown.
Armed(p) == has_token_control[p] \/ MoveQueued(p)

Place(p) ==
  CASE window[p] = "asking" -> "ended"
    [] window[p] = "waiting" -> "reply"
    [] window[p] = "agreed" -> "first"
    [] window[p] = "over" -> "over"
    [] OTHER ->
         CASE reader[p] = "first" -> "first"
           [] reader[p] \in {"freshOpp", "oppMove"} -> "opp"
           [] reader[p] \in {"freshOwn", "ownStatus"} -> IF Armed(p) THEN "due" ELSE "sent"
           [] reader[p] = "oppStatus" -> IF Armed(p) THEN "oppStatus" ELSE "oppSent"
           [] OTHER -> "ended"

\* The program of p has not stopped reading its match.
Follows(p) == link[p] = "open" /\ window[p] # "over" /\ reader[p] # "broken"

\* Where the server takes p to be, once it has read all it was sent.
Expects(p, b) ==
  /\ pc = "start" => b = "first"
  /\ pc = "await" => b = IF activeTurnIdx # p THEN "opp"
                         ELSE IF toServer[p] = <<>> THEN "due" ELSE "sent"
  /\ pc = "polling" => b \in {"ended", "reply"}

Script(p) ==
  Follows(p) => \E b \in Places : Path(p, Place(p), toClient[p], b) /\ Expects(p, b)

\* A user whose reader has given up may still have a move to send.
LastClick(p) ==
  link[p] = "open" /\ reader[p] = "broken" /\ Armed(p) =>
    /\ pc # "start"
    /\ pc = "await" => activeTurnIdx = p /\ toServer[p] = <<>>

\* Between the rounds p is not heard, within one only as the acting node.
Speaks(p) ==
  link[p] = "open" =>
    /\ pc = "start" => toServer[p] = <<>>
    /\ pc = "await" => \/ toServer[p] = <<>>
                       \/ activeTurnIdx = p /\ Len(toServer[p]) = 2

Answered(p) == window[p] = "over" \/ (window[p] = "waiting" /\ toClient[p] = <<>>)

\* p is heard to agree only when its user did, and has no more to say.
Consents(p) ==
  /\ pc \in {"start", "await"} => outcomeBuffer[p] = NotRead
  /\ pc = "polling" /\ link[p] = "open" =>
       /\ outcomeBuffer[p] = OP_APPROVE_REQ => toServer[p] = <<>> /\ Answered(p)
       /\ outcomeBuffer[p] = NotRead /\ toServer[p] # <<>> /\ toServer[p][1] = OP_APPROVE_REQ =>
            Len(toServer[p]) = 1 /\ Answered(p)

\* What the reader of p has left to its FX thread.
CallsInv(p) ==
  /\ fetching[p] = "no"
  /\ window[p] # "playing" => reader[p] = "ended" /\ runLater[p] = <<>>
  /\ reader[p] \in {"first", "freshOpp", "oppMove"} => ~ has_token_control[p]
  /\ reader[p] \in {"first", "freshOwn", "freshOpp", "oppMove"} => runLater[p] = <<>>
  /\ reader[p] \in {"ownStatus", "oppStatus", "broken"} =>
       runLater[p] = <<>> \/ (Len(runLater[p]) = 1 /\ MoveQueued(p))
  /\ reader[p] = "ended" /\ window[p] = "playing" =>
       /\ Len(runLater[p]) \in {1, 2}
       /\ runLater[p][Len(runLater[p])][1] = "onGameStatus"
       /\ Len(runLater[p]) = 2 => MoveQueued(p)
  /\ MoveQueued(p) => ~ has_token_control[p] /\ Head(runLater[p])[2] \in Positions

PlayerInv(p) == CallsInv(p) /\ Script(p) /\ LastClick(p) /\ Speaks(p) /\ Consents(p)
StreamInv == TypeOK /\ \A p \in Faithful : PlayerInv(p)

-----------------------------------------------------------------------------
(* Paths. *)

\* Nothing on its way: the two places are the same.
LEMMA NoPath ==
  ASSUME NEW p, NEW a \in Places, NEW b \in Places
  PROVE  Path(p, a, <<>>, b) <=> a = b
<1>1. Len(<<>>) = 0
  OBVIOUS
<1>2. ASSUME a = b PROVE Path(p, a, <<>>, b)
  <2> DEFINE place == [i \in 0 .. 0 |-> a]
  <2>1. /\ place \in [0 .. 0 -> Places]
        /\ place[0] = a
    OBVIOUS
  <2> HIDE DEF place
  <2> QED
    BY <1>1, <1>2, <2>1 DEF Path
<1>3. ASSUME Path(p, a, <<>>, b) PROVE a = b
  BY <1>1, <1>3 DEF Path
<1> QED
  BY <1>2, <1>3

\* One message more.
LEMMA LongerPath ==
  ASSUME NEW p, NEW a, NEW s \in Seq(Messages), NEW b, NEW c \in Places, NEW m \in Messages,
         Path(p, a, s, b), Reads(p, b, m, c)
  PROVE  Path(p, a, s \o <<m>>, c)
<1>1. Len(s) \in Nat /\ <<m>> \in Seq(Messages) /\ Len(<<m>>) = 1
  OBVIOUS
<1>2. /\ Len(s \o <<m>>) = Len(s) + 1
      /\ \A i \in 1 .. Len(s) : (s \o <<m>>)[i] = s[i]
      /\ (s \o <<m>>)[Len(s) + 1] = m
  BY <1>1, ConcatProperties
<1>3. PICK place \in [0 .. Len(s) -> Places] :
        /\ place[0] = a
        /\ place[Len(s)] = b
        /\ \A i \in 1 .. Len(s) : Reads(p, place[i-1], s[i], place[i])
  BY DEF Path
<1> DEFINE longer == [i \in 0 .. Len(s) + 1 |-> IF i = Len(s) + 1 THEN c ELSE place[i]]
<1>4. /\ longer \in [0 .. Len(s) + 1 -> Places]
      /\ longer[0] = a
      /\ longer[Len(s) + 1] = c
      /\ \A i \in 0 .. Len(s) : longer[i] = place[i]
  BY <1>1, <1>3
<1> HIDE DEF longer
<1>5. ASSUME NEW i \in 1 .. Len(s) + 1
      PROVE  Reads(p, longer[i-1], (s \o <<m>>)[i], longer[i])
  <2>1. CASE i = Len(s) + 1
    <3>1. longer[i-1] = b /\ longer[i] = c /\ (s \o <<m>>)[i] = m
      BY <1>1, <1>2, <1>3, <1>4, <2>1
    <3> QED
      BY <3>1
  <2>2. CASE i \in 1 .. Len(s)
    <3>1. longer[i-1] = place[i-1] /\ longer[i] = place[i] /\ (s \o <<m>>)[i] = s[i]
      BY <1>1, <1>2, <1>4, <2>2
    <3> QED
      BY <1>3, <2>2, <3>1
  <2> QED
    BY <1>1, <2>1, <2>2
<1> QED
  BY <1>2, <1>4, <1>5 DEF Path

\* Two messages are one after the other.
LEMMA TwoMessages ==
  ASSUME NEW s \in Seq(Messages), NEW m \in Messages, NEW n \in Messages
  PROVE  (s \o <<m>>) \o <<n>> = s \o <<m, n>>
<1>1. /\ <<m>> \in Seq(Messages) /\ Len(<<m>>) = 1 /\ <<m>>[1] = m
      /\ <<n>> \in Seq(Messages) /\ Len(<<n>>) = 1 /\ <<n>>[1] = n
      /\ <<m, n>> \in Seq(Messages) /\ Len(<<m, n>>) = 2 /\ <<m, n>>[1] = m /\ <<m, n>>[2] = n
  OBVIOUS
<1>2. <<m>> \o <<n>> = <<m, n>>
  <2> DEFINE both == <<m>> \o <<n>>
             pair == <<m, n>>
  <2>1. both \in Seq(Messages) /\ Len(both) = 2 /\ both[1] = m /\ both[2] = n
    BY <1>1, ConcatProperties
  <2>2. pair \in Seq(Messages) /\ Len(pair) = 2 /\ pair[1] = m /\ pair[2] = n
    BY <1>1
  <2> HIDE DEF both, pair
  <2>3. \A i \in 1 .. Len(both) : both[i] = pair[i]
    BY <2>1, <2>2
  <2>4. both = pair
    BY <2>1, <2>2, <2>3, SeqEqual
  <2> QED
    BY <2>4 DEF both, pair
<1>3. (s \o <<m>>) \o <<n>> = s \o (<<m>> \o <<n>>)
  BY <1>1, ConcatAssociative
<1> QED
  BY <1>2, <1>3

\* The first message is read, whatever comes after.
LEMMA ShorterPath ==
  ASSUME NEW p, NEW a \in Places, NEW s \in Seq(Messages), s # <<>>, NEW b,
         Path(p, a, s, b)
  PROVE  \E c \in Places : Reads(p, a, Head(s), c) /\ Path(p, c, Tail(s), b)
<1>1. /\ Len(s) \in Nat \ {0}
      /\ Len(Tail(s)) = Len(s) - 1
      /\ \A i \in 1 .. Len(s) - 1 : Tail(s)[i] = s[i+1]
      /\ Head(s) = s[1]
  BY HeadTailProperties
<1>2. PICK place \in [0 .. Len(s) -> Places] :
        /\ place[0] = a
        /\ place[Len(s)] = b
        /\ \A i \in 1 .. Len(s) : Reads(p, place[i-1], s[i], place[i])
  BY DEF Path
<1> DEFINE shorter == [i \in 0 .. Len(s) - 1 |-> place[i+1]]
<1>3. /\ shorter \in [0 .. Len(s) - 1 -> Places]
      /\ shorter[0] = place[1]
      /\ shorter[Len(s) - 1] = b
      /\ \A i \in 0 .. Len(s) - 1 : shorter[i] = place[i+1]
  BY <1>1, <1>2
<1> HIDE DEF shorter
<1>4. ASSUME NEW i \in 1 .. Len(s) - 1
      PROVE  Reads(p, shorter[i-1], Tail(s)[i], shorter[i])
  <2>1. shorter[i-1] = place[i] /\ shorter[i] = place[i+1] /\ Tail(s)[i] = s[i+1]
    BY <1>1, <1>3
  <2>2. Reads(p, place[(i+1)-1], s[i+1], place[i+1])
    BY <1>1, <1>2
  <2>3. (i+1)-1 = i
    OBVIOUS
  <2> QED
    BY <2>1, <2>2, <2>3
<1>5. Path(p, place[1], Tail(s), b)
  BY <1>1, <1>3, <1>4 DEF Path
<1>6. place[1] \in Places /\ Reads(p, a, Head(s), place[1])
  BY <1>1, <1>2
<1> QED
  BY <1>5, <1>6

\* The other way round.
LEMMA PathFrom ==
  ASSUME NEW p, NEW a \in Places, NEW s \in Seq(Messages), s # <<>>, NEW b, NEW c \in Places,
         Reads(p, a, Head(s), c), Path(p, c, Tail(s), b)
  PROVE  Path(p, a, s, b)
<1>1. /\ Len(s) \in Nat \ {0}
      /\ Len(Tail(s)) = Len(s) - 1
      /\ \A i \in 1 .. Len(s) - 1 : Tail(s)[i] = s[i+1]
      /\ Head(s) = s[1]
  BY HeadTailProperties
<1>2. PICK place \in [0 .. Len(s) - 1 -> Places] :
        /\ place[0] = c
        /\ place[Len(s) - 1] = b
        /\ \A i \in 1 .. Len(s) - 1 : Reads(p, place[i-1], Tail(s)[i], place[i])
  BY <1>1 DEF Path
<1> DEFINE longer == [i \in 0 .. Len(s) |-> IF i = 0 THEN a ELSE place[i-1]]
<1>3. /\ longer \in [0 .. Len(s) -> Places]
      /\ longer[0] = a
      /\ longer[Len(s)] = b
      /\ \A i \in 1 .. Len(s) : longer[i] = place[i-1]
  BY <1>1, <1>2
<1> HIDE DEF longer
<1>4. ASSUME NEW i \in 1 .. Len(s)
      PROVE  Reads(p, longer[i-1], s[i], longer[i])
  <2>1. CASE i = 1
    BY <1>1, <1>2, <1>3, <2>1
  <2>2. CASE i # 1
    <3>1. /\ i - 1 \in 1 .. Len(s) - 1
          /\ longer[i-1] = place[(i-1)-1]
          /\ longer[i] = place[i-1]
          /\ Tail(s)[i-1] = s[i]
      BY <1>1, <1>3, <2>2
    <3> QED
      BY <1>2, <3>1
  <2> QED
    BY <2>1, <2>2
<1> QED
  BY <1>3, <1>4 DEF Path

\* From some places there is not far to go.
LEMMA DeadEnds ==
  ASSUME NEW p, NEW s \in Seq(Messages), NEW b \in Places
  PROVE  /\ Path(p, "due", s, b) => s = <<>> /\ b = "due"
         /\ Path(p, "over", s, b) => s = <<>> /\ b = "over"
         /\ Path(p, "ended", s, b) => (s = <<>> /\ b = "ended") \/ b = "over"
<1>1. \A a \in {"due", "over"} : Path(p, a, s, b) => s = <<>> /\ b = a
  <2> SUFFICES ASSUME NEW a \in {"due", "over"}, Path(p, a, s, b) PROVE s = <<>> /\ b = a
    OBVIOUS
  <2>1. a \in Places
    BY DEF Places
  <2>2. s = <<>>
    BY <2>1, ShorterPath DEF Reads
  <2> QED
    BY <2>1, <2>2, NoPath
<1>2. ASSUME NEW t \in Seq(Messages), Path(p, "over", t, b) PROVE b = "over"
  <2>1. "over" \in Places
    BY DEF Places
  <2>2. t = <<>>
    BY <1>2, <2>1, ShorterPath DEF Reads
  <2> QED
    BY <1>2, <2>1, <2>2, NoPath
<1>3. ASSUME Path(p, "ended", s, b) PROVE (s = <<>> /\ b = "ended") \/ b = "over"
  <2>1. "ended" \in Places
    BY DEF Places
  <2>2. CASE s = <<>>
    BY <1>3, <2>1, <2>2, NoPath
  <2>3. CASE s # <<>>
    <3>1. PICK c \in Places : Reads(p, "ended", Head(s), c) /\ Path(p, c, Tail(s), b)
      BY <1>3, <2>1, <2>3, ShorterPath
    <3>2. c = "over"
      BY <3>1 DEF Reads
    <3>3. Tail(s) \in Seq(Messages)
      BY <2>3, HeadTailProperties
    <3> QED
      BY <1>2, <3>1, <3>2, <3>3
  <2> QED
    BY <2>2, <2>3
<1> QED
  BY <1>1, <1>3

-----------------------------------------------------------------------------
(* What the invariant tells of a player. *)

LEMMA PlaceType == ASSUME NEW p PROVE Place(p) \in Places
  BY DEF Place, Places

\* What TypeOK says of one player.
LEMMA PlayerType ==
  ASSUME NEW p \in Players, TypeOK
  PROVE  /\ toServer[p] \in Seq(Halves)
         /\ toClient[p] \in Seq(Messages)
         /\ runLater[p] \in Seq(Calls)
         /\ has_token_control[p] \in BOOLEAN
         /\ window[p] \in {"playing", "asking", "waiting", "agreed", "over"}
         /\ reader[p] \in {"first", "freshOwn", "freshOpp", "ownStatus",
                           "oppMove", "oppStatus", "ended", "broken"}
         /\ outcomeBuffer[p] \in Halves \cup {NoVerdict, NotRead}
  BY DEF TypeOK

\* What of the invariant an unprimed state yields at once.
LEMMA PlayerScript ==
  ASSUME NEW p \in Faithful, StreamInv, Follows(p)
  PROVE  \E b \in Places : Path(p, Place(p), toClient[p], b) /\ Expects(p, b)
  BY DEF StreamInv, PlayerInv, Script

\* A player who may click is the one the server waits for.
LEMMA ClickersAreAwaited ==
  ASSUME NEW p \in Faithful, StreamInv, MayMove(p)
  PROVE  /\ pc # "start"
         /\ pc = "await" => activeTurnIdx = p /\ toServer[p] = <<>>
         /\ reader[p] \in {"freshOwn", "ownStatus"} => toClient[p] = <<>>
<1>0. p \in Players /\ TypeOK
  BY DEF Faithful, StreamInv
<1>1. link[p] = "open" /\ window[p] = "playing" /\ has_token_control[p] /\ Armed(p)
  BY DEF MayMove, Armed
<1>2. CallsInv(p) /\ LastClick(p)
  BY DEF StreamInv, PlayerInv
<1>3. reader[p] \in {"freshOwn", "ownStatus", "oppStatus", "ended", "broken"}
  BY <1>0, <1>1, <1>2, PlayerType DEF CallsInv
<1>4. CASE reader[p] = "broken"
  BY <1>1, <1>2, <1>4 DEF LastClick
<1>5. CASE reader[p] # "broken"
  <2>1. PICK b \in Places : Path(p, Place(p), toClient[p], b) /\ Expects(p, b)
    BY <1>1, <1>5, PlayerScript DEF Follows
  <2>2. toClient[p] \in Seq(Messages)
    BY <1>0, PlayerType
  <2>3. CASE reader[p] \in {"freshOwn", "ownStatus"}
    <3>1. Place(p) = "due"
      BY <1>1, <2>3 DEF Place
    <3>2. toClient[p] = <<>> /\ b = "due"
      BY <2>1, <2>2, <3>1, DeadEnds
    <3> QED
      BY <2>1, <3>2 DEF Expects
  <2>4. CASE reader[p] = "oppStatus"
    <3>1. Place(p) = "oppStatus" /\ "oppStatus" \in Places
      BY <1>1, <2>4 DEF Place, Places
    <3>2. CASE toClient[p] = <<>>
      BY <2>1, <2>4, <3>1, <3>2, NoPath DEF Expects
    <3>3. CASE toClient[p] # <<>>
      <4>1. PICK c \in Places : Reads(p, "oppStatus", Head(toClient[p]), c) /\ Path(p, c, Tail(toClient[p]), b)
        BY <2>1, <2>2, <3>1, <3>3, ShorterPath
      <4>2. c \in {"due", "ended"}
        BY <4>1 DEF Reads
      <4>3. Tail(toClient[p]) \in Seq(Messages)
        BY <2>2, <3>3, HeadTailProperties
      <4>4. b \in {"due", "ended", "over"}
        BY <4>1, <4>2, <4>3, DeadEnds
      <4> QED
        BY <2>1, <2>4, <4>4 DEF Expects
    <3> QED
      BY <3>2, <3>3
  <2>5. CASE reader[p] = "ended"
    <3>1. Place(p) = "ended"
      BY <1>1, <2>5 DEF Place
    <3>2. b \in {"ended", "over"}
      BY <2>1, <2>2, <3>1, DeadEnds
    <3> QED
      BY <2>1, <2>5, <3>2 DEF Expects
  <2> QED
    BY <1>3, <1>5, <2>3, <2>4, <2>5
<1> QED
  BY <1>4, <1>5

\* The first of the messages on their way is the one the reader takes it for.
LEMMA HeadIsExpected ==
  ASSUME NEW p \in Faithful, StreamInv, Follows(p), toClient[p] # <<>>
  PROVE  \E b, c \in Places : /\ Reads(p, Place(p), Head(toClient[p]), c)
                              /\ Path(p, c, Tail(toClient[p]), b)
                              /\ Expects(p, b)
<1>1. PICK b \in Places : Path(p, Place(p), toClient[p], b) /\ Expects(p, b)
  BY PlayerScript
<1>2. toClient[p] \in Seq(Messages)
  BY PlayerType DEF StreamInv, Faithful
<1> QED
  BY <1>1, <1>2, PlaceType, ShorterPath

-----------------------------------------------------------------------------
(* Steps of others. *)

View(p) == <<link[p], toServer[p], toClient[p], reader[p], runLater[p],
             has_token_control[p], window[p], fetching[p], outcomeBuffer[p]>>

\* What neither the server nor p does leaves p where it is.
LEMMA Bystander ==
  ASSUME NEW p \in Faithful, PlayerInv(p), UNCHANGED <<pc, activeTurnIdx>>, UNCHANGED View(p)
  PROVE  PlayerInv(p)'
<1>1. /\ UNCHANGED <<link[p], toServer[p], toClient[p], reader[p], runLater[p],
                     has_token_control[p], window[p], fetching[p], outcomeBuffer[p]>>
  BY DEF View
<1>2. MoveQueued(p)' = MoveQueued(p) /\ Armed(p)' = Armed(p) /\ Place(p)' = Place(p)
      /\ Follows(p)' = Follows(p) /\ Answered(p)' = Answered(p)
  BY <1>1 DEF MoveQueued, Armed, Place, Follows, Answered
<1>3. CallsInv(p)'
  BY <1>1, <1>2 DEF PlayerInv, CallsInv
<1>4. Script(p)'
  BY <1>1, <1>2 DEF PlayerInv, Script, Expects
<1>5. LastClick(p)' /\ Speaks(p)' /\ Consents(p)'
  BY <1>1, <1>2 DEF PlayerInv, LastClick, Speaks, Consents
<1> QED
  BY <1>3, <1>4, <1>5 DEF PlayerInv

\* The server sends to p and moves; the program of p has not moved.
LEMMA Told ==
  ASSUME NEW p \in Faithful, StreamInv, UNCHANGED client
  PROVE  /\ MoveQueued(p)' = MoveQueued(p) /\ Armed(p)' = Armed(p)
         /\ Place(p)' = Place(p)
         /\ CallsInv(p)'
         /\ link'[p] = link[p] => Follows(p)' = Follows(p)
<1>1. UNCHANGED <<reader[p], runLater[p], has_token_control[p], window[p], fetching[p]>>
  BY DEF client
<1>2. MoveQueued(p)' = MoveQueued(p) /\ Armed(p)' = Armed(p) /\ Place(p)' = Place(p)
  BY <1>1 DEF MoveQueued, Armed, Place
<1>3. CallsInv(p)'
  BY <1>1, <1>2 DEF StreamInv, PlayerInv, CallsInv
<1> QED
  BY <1>1, <1>2, <1>3 DEF Follows

\* To a player whose socket is open SendAll only appends.
LEMMA SentTo ==
  ASSUME NEW p \in Players, NEW sent, NEW next, TypeOK, SendAll(sent, next), link'[p] = "open"
  PROVE  /\ link[p] = "open"
         /\ toClient'[p] = toClient[p] \o sent[p]
         /\ pc' \in {next, "killed"}
  BY DEF SendAll, TypeOK

-----------------------------------------------------------------------------
(* The server thread. *)

\* The other of the two.
LEMMA TheOther ==
  ASSUME NEW p \in Players, NEW q \in Players
  PROVE  /\ dispatch_active_node(q) \in Players \ {q}
         /\ p # q => p = dispatch_active_node(q)
  BY NodesAssumption DEF Players, dispatch_active_node

\* The turns are drawn when everybody waits for them.
LEMMA StartRound_Player ==
  ASSUME NEW p \in Faithful, StreamInv, StartRound
  PROVE  PlayerInv(p)'
<1> DEFINE sent == [q \in Players |-> << <<"turn", activeTurnIdx'>> >>]
<1>0. p \in Players /\ TypeOK /\ PlayerInv(p)
  BY DEF Faithful, StreamInv
<1>1. /\ pc = "start" /\ activeTurnIdx' \in Players /\ SendAll(sent, "await")
      /\ UNCHANGED <<outcomeBuffer, toServer, client>>
  BY DEF StartRound
<1>2. pc' \in {"await", "killed"}
  BY <1>1 DEF SendAll
<1>9. sent[p] = << <<"turn", activeTurnIdx'>> >>
  BY <1>0
<1> HIDE DEF sent
<1>3. link'[p] = "open" => link[p] = "open" /\ toClient'[p] = toClient[p] \o << <<"turn", activeTurnIdx'>> >>
  BY <1>0, <1>1, <1>9, SentTo
<1>4. Script(p)'
  <2> SUFFICES ASSUME Follows(p)'
               PROVE  \E c \in Places : Path(p, Place(p)', toClient'[p], c) /\ Expects(p, c)'
    BY DEF Script
  <2>0. PICK c \in Places : c = IF activeTurnIdx' = p THEN "due" ELSE "opp"
    BY DEF Places
  <2>1. link'[p] = "open" /\ link[p] = "open" /\ Follows(p) /\ Place(p)' = Place(p)
    BY <1>1, <1>3, Told DEF Follows
  <2>2. Path(p, Place(p), toClient[p], "first")
    BY <1>1, <2>1, PlayerScript DEF Expects
  <2>3. Reads(p, "first", <<"turn", activeTurnIdx'>>, c)
    BY <2>0 DEF Reads
  <2>4. <<"turn", activeTurnIdx'>> \in Messages /\ toClient[p] \in Seq(Messages)
    BY <1>0, <1>1, PlayerType, MessageTypes
  <2>5. Path(p, Place(p)', toClient'[p], c)
    BY <1>3, <2>1, <2>2, <2>3, <2>4, LongerPath
  <2>6. toServer'[p] = <<>>
    BY <1>0, <1>1, <2>1 DEF PlayerInv, Speaks
  <2>7. Expects(p, c)'
    BY <1>2, <2>0, <2>6 DEF Expects
  <2> QED
    BY <2>5, <2>7
<1>5. LastClick(p)'
  BY <1>0, <1>1, <1>3, Told DEF PlayerInv, LastClick, client
<1>6. Speaks(p)' /\ Consents(p)'
  BY <1>0, <1>1, <1>2, <1>3 DEF PlayerInv, Speaks, Consents
<1> QED
  BY <1>1, <1>4, <1>5, <1>6, Told DEF PlayerInv

\* A move is read from the acting node and passed on to the other.
LEMMA ReceiveMove_Player ==
  ASSUME NEW p \in Faithful, StreamInv, ReceiveMove
  PROVE  PlayerInv(p)'
<1> DEFINE acting == activeTurnIdx
           cell == 65536 * toServer[acting][1] + toServer[acting][2]
           next == dispatch_active_node(acting)
           status == <<"status", core_status'>>
           after == IF core_status' = Undecided THEN "await" ELSE "polling"
           sent == [q \in Players |-> MoveMessages(q, next, cell, core_status')]
<1>0. p \in Players /\ TypeOK /\ PlayerInv(p) /\ acting \in Players
  BY DEF Faithful, StreamInv, ReceiveMove, TypeOK
<1>1. /\ pc = "await" /\ Len(toServer[acting]) > 1
      /\ toServer' = [toServer EXCEPT ![acting] = SubSeq(@, 3, Len(@))]
      /\ UNCHANGED <<outcomeBuffer, client>>
  BY DEF ReceiveMove
<1>2. outcomeBuffer'[p] = NotRead
  BY <1>0, <1>1 DEF PlayerInv, Consents
<1>3. CASE cell \notin Positions
  <2>1. pc' = "killed" /\ UNCHANGED <<link, toClient>>
    BY <1>3 DEF ReceiveMove
  <2>2. Follows(p)' = Follows(p) /\ Place(p)' = Place(p) /\ CallsInv(p)'
    BY <1>1, <2>1, Told
  <2>3. Script(p)'
    BY <1>0, <2>1, <2>2 DEF PlayerInv, Script, Expects
  <2>4. LastClick(p)'
    BY <1>0, <1>1, <2>1, Told DEF PlayerInv, LastClick, client
  <2> QED
    BY <2>1, <2>2, <2>3, <2>4 DEF PlayerInv, Speaks, Consents
<1>4. CASE cell \in Positions
  <2>1. /\ SendAll(sent, after)
        /\ core_status' = Undecided => activeTurnIdx' = next
    BY <1>4 DEF ReceiveMove
  <2>2. pc' \in {after, "killed"}
    BY <2>1 DEF SendAll
  <2>11. sent[p] = MoveMessages(p, next, cell, core_status')
    BY <1>0
  <2> HIDE DEF sent, after
  <2>3. link'[p] = "open" => link[p] = "open" /\ toClient'[p] = toClient[p] \o sent[p]
    BY <1>0, <2>1, SentTo
  <2>4. core_status' \in Players \cup {Undecided, Draw}
    BY <1>4, VictorType DEF ReceiveMove, Players
  <2>5. status \in Messages /\ <<"cell", cell>> \in Messages /\ toClient[p] \in Seq(Messages)
    BY <1>0, <1>4, <2>4, MessageTypes, PlayerType
  <2>6. link'[p] = "open" => toServer'[p] = <<>>
    <3> SUFFICES ASSUME link'[p] = "open" PROVE toServer'[p] = <<>>
      OBVIOUS
    <3>1. toServer[p] = <<>> \/ (acting = p /\ Len(toServer[p]) = 2)
      BY <1>0, <1>1, <2>3 DEF PlayerInv, Speaks
    <3>2. toServer[p] \in Seq(Halves) /\ toServer \in [Players -> Seq(Halves)]
      BY <1>0 DEF TypeOK
    <3>3. CASE acting # p
      BY <1>0, <1>1, <3>1, <3>2, <3>3
    <3>4. CASE acting = p
      <4>1. Len(toServer[p]) = 2
        BY <1>1, <3>1, <3>4
      <4>2. toServer'[p] = SubSeq(toServer[p], 3, 2)
        BY <1>0, <1>1, <3>2, <3>4, <4>1
      <4> QED
        BY <4>2, SubSeqEmpty
    <3> QED
      BY <3>3, <3>4
  <2>7. Script(p)'
    <3> SUFFICES ASSUME Follows(p)'
                 PROVE  \E c \in Places : Path(p, Place(p)', toClient'[p], c) /\ Expects(p, c)'
      BY DEF Script
    <3>1. link'[p] = "open" /\ link[p] = "open" /\ Follows(p) /\ Place(p)' = Place(p)
      BY <1>1, <2>3, Told DEF Follows
    <3>2. PICK b \in Places : Path(p, Place(p), toClient[p], b) /\ Expects(p, b)
      BY <3>1, PlayerScript
    <3>5. status[1] = "status" /\ status[2] = core_status'
      OBVIOUS
    <3> HIDE DEF cell, status
    <3>3. CASE acting = p
      <4>0. PICK c \in Places : c = IF core_status' = Undecided THEN "opp" ELSE "ended"
        BY DEF Places
      <4>1. next # p /\ sent[p] = <<status>>
        BY <1>0, <2>11, <3>3, TheOther DEF MoveMessages, status
      <4>2. toServer[p] # <<>>
        BY <1>1, <3>3
      <4>3. b = "sent"
        BY <1>1, <3>2, <3>3, <4>2 DEF Expects
      <4>4. Reads(p, b, status, c)
        BY <3>5, <4>0, <4>3 DEF Reads
      <4>5. Path(p, Place(p), toClient[p] \o <<status>>, c)
        BY <2>5, <3>2, <4>4, LongerPath
      <4>7. Path(p, Place(p)', toClient'[p], c)
        BY <2>3, <3>1, <4>1, <4>5
      <4>6. Expects(p, c)'
        BY <2>1, <2>2, <4>0, <4>1 DEF Expects, after
      <4> QED
        BY <4>6, <4>7
    <3>4. CASE acting # p
      <4>0. PICK c \in Places : c = IF core_status' = Undecided THEN "due" ELSE "ended"
        BY DEF Places
      <4>1. next = p /\ sent[p] = << <<"cell", cell>>, status >>
        BY <1>0, <2>11, <3>4, TheOther DEF MoveMessages, status
      <4>2. b = "opp"
        BY <1>1, <3>2, <3>4 DEF Expects
      <4> DEFINE move == <<"cell", cell>>
      <4>3. /\ move[1] = "cell" /\ move \in Messages /\ sent[p] = <<move, status>>
            /\ "oppStatus" \in Places
        BY <2>5, <4>1 DEF Places
      <4> HIDE DEF move
      <4>9. Reads(p, b, move, "oppStatus") /\ Reads(p, "oppStatus", status, c)
        BY <3>5, <4>0, <4>2, <4>3 DEF Reads
      <4>4. <<move>> \in Seq(Messages) /\ toClient[p] \o <<move>> \in Seq(Messages)
        BY <2>5, <4>3, ConcatProperties, ShortSequences
      <4>5. Path(p, Place(p), toClient[p] \o <<move>>, "oppStatus")
        BY <2>5, <3>2, <4>3, <4>9, LongerPath
      <4>6. Path(p, Place(p), (toClient[p] \o <<move>>) \o <<status>>, c)
        BY <2>5, <4>4, <4>5, <4>9, LongerPath
      <4>7. (toClient[p] \o <<move>>) \o <<status>> = toClient[p] \o <<move, status>>
        BY <2>5, <4>3, TwoMessages
      <4>8. Expects(p, c)'
        BY <2>1, <2>2, <2>6, <3>1, <4>0, <4>1 DEF Expects, after
      <4> QED
        BY <2>3, <3>1, <4>3, <4>6, <4>7, <4>8
    <3> QED
      BY <3>3, <3>4
  <2>8. LastClick(p)'
    <3> SUFFICES ASSUME link'[p] = "open", reader'[p] = "broken", Armed(p)' PROVE FALSE
      BY DEF LastClick
    <3>1. link[p] = "open" /\ reader[p] = "broken" /\ Armed(p)
      BY <1>1, <2>3, Told DEF client
    <3>2. acting = p /\ toServer[p] = <<>>
      BY <1>0, <1>1, <3>1 DEF PlayerInv, LastClick
    <3> QED
      BY <1>1, <3>2
  <2>9. Speaks(p)'
    BY <2>2, <2>6 DEF Speaks, after
  <2>10. Consents(p)'
    BY <1>2, <2>6 DEF Consents, NotRead, OP_APPROVE_REQ
  <2> QED
    BY <1>1, <2>7, <2>8, <2>9, <2>10, Told DEF PlayerInv
<1> QED
  BY <1>3, <1>4

\* Nobody is told that the round was abandoned.
LEMMA AbandonRound_Player ==
  ASSUME NEW p \in Faithful, StreamInv, AbandonRound
  PROVE  PlayerInv(p)'
<1>1. pc' = "done" /\ UNCHANGED <<link, toClient, client>> /\ PlayerInv(p)
  BY DEF AbandonRound, StreamInv
<1>2. Follows(p)' = Follows(p) /\ Place(p)' = Place(p) /\ CallsInv(p)'
  BY <1>1, Told
<1>3. Script(p)'
  BY <1>1, <1>2 DEF PlayerInv, Script, Expects
<1> QED
  BY <1>1, <1>2, <1>3 DEF PlayerInv, LastClick, Speaks, Consents

\* One verdict is polled: two bytes at the most leave the stream of p.
LEMMA PollVerdict_Player ==
  ASSUME NEW p \in Faithful, StreamInv, NEW q \in Players, PollVerdict(q)
  PROVE  PlayerInv(p)'
<1>0. p \in Players /\ TypeOK /\ PlayerInv(p)
  BY DEF Faithful, StreamInv
<1>1. pc = "polling" /\ outcomeBuffer[q] = NotRead /\ UNCHANGED <<pc, activeTurnIdx, link, toClient, client>>
  BY DEF PollVerdict
<1>2. CASE q # p
  <2>1. UNCHANGED <<outcomeBuffer[p], toServer[p]>>
    BY <1>0, <1>2 DEF PollVerdict, TypeOK
  <2>2. UNCHANGED View(p)
    BY <1>1, <2>1 DEF View, client
  <2> QED
    BY <1>0, <1>1, <2>2, Bystander
<1>3. CASE q = p
  <2>1. Follows(p)' = Follows(p) /\ Place(p)' = Place(p) /\ CallsInv(p)'
    BY <1>1, Told
  <2>2. Script(p)'
    BY <1>0, <1>1, <2>1 DEF PlayerInv, Script, Expects
  <2>3. Answered(p)' = Answered(p)
    BY <1>1 DEF Answered, client
  <2>4. CASE toServer[p] # <<>>
    <3>1. outcomeBuffer'[p] = Head(toServer[p]) /\ toServer'[p] = Tail(toServer[p])
      BY <1>0, <1>3, <2>4 DEF PollVerdict, TypeOK
    <3>2. /\ Head(toServer[p]) = toServer[p][1] /\ Head(toServer[p]) \in Halves
          /\ Len(toServer[p]) = 1 => Tail(toServer[p]) = <<>>
      <4>1. toServer[p] \in Seq(Halves)
        BY <1>0, PlayerType
      <4>2. /\ Head(toServer[p]) = toServer[p][1] /\ Head(toServer[p]) \in Halves
            /\ Tail(toServer[p]) \in Seq(Halves) /\ Len(Tail(toServer[p])) = Len(toServer[p]) - 1
        BY <2>4, <4>1, HeadTailProperties
      <4> DEFINE rest == Tail(toServer[p])
      <4>3. rest \in Seq(Halves) /\ Len(rest) = Len(toServer[p]) - 1
        BY <4>2
      <4> HIDE DEF rest
      <4>4. Len(toServer[p]) = 1 => rest = <<>>
        <5>1. Len(toServer[p]) = 1 => Len(rest) = 0
          BY <4>3
        <5> QED
          BY <4>3, <5>1, EmptySeq
      <4> QED
        BY <4>2, <4>4 DEF rest
    <3>3. outcomeBuffer'[p] # NotRead
      BY <3>1, <3>2 DEF Halves, NotRead
    <3>4. Consents(p)'
      BY <1>0, <1>1, <1>3, <2>3, <2>4, <3>1, <3>2, <3>3 DEF PlayerInv, Consents
    <3> QED
      BY <1>1, <2>1, <2>2, <3>4 DEF PlayerInv, LastClick, Speaks
  <2>5. CASE toServer[p] = <<>>
    <3>1. toServer'[p] = toServer[p] /\ (link[p] = "open" => outcomeBuffer'[p] = NoVerdict)
      BY <1>0, <1>3, <2>5 DEF PollVerdict, TypeOK
    <3>2. Consents(p)'
      BY <1>1, <2>5, <3>1 DEF Consents, NoVerdict, OP_APPROVE_REQ
    <3> QED
      BY <1>1, <2>1, <2>2, <3>2 DEF PlayerInv, LastClick, Speaks
  <2> QED
    BY <2>4, <2>5
<1> QED
  BY <1>2, <1>3

\* The verdicts are joined: who is drawn into another round has asked for it.
LEMMA JoinVerdicts_Player ==
  ASSUME NEW p \in Faithful, StreamInv, JoinVerdicts
  PROVE  PlayerInv(p)'
<1> DEFINE reply == IF Approved THEN OP_APPROVE_REQ ELSE OP_DECLINE_REQ
           message == <<"rematch", reply>>
           sent == [q \in Players |-> <<message>>]
           after == IF Approved THEN "start" ELSE "done"
<1>0. p \in Players /\ TypeOK /\ PlayerInv(p)
  BY DEF Faithful, StreamInv
<1>1. /\ pc = "polling" /\ SendAll(sent, after)
      /\ outcomeBuffer'[p] = NotRead
      /\ UNCHANGED <<activeTurnIdx, toServer, client>>
  BY <1>0 DEF JoinVerdicts
<1>2. pc' \in {after, "killed"}
  BY <1>1 DEF SendAll
<1>9. sent[p] = <<message>>
  BY <1>0
<1> HIDE DEF sent
<1>3. link'[p] = "open" => link[p] = "open" /\ toClient'[p] = toClient[p] \o <<message>>
  BY <1>0, <1>1, <1>9, SentTo
<1>4. message \in Messages /\ toClient[p] \in Seq(Messages)
  BY <1>0, PlayerType, MessageTypes
<1>5. Approved /\ link[p] = "open" => toServer[p] = <<>> /\ Answered(p)
  BY <1>0, <1>1 DEF Approved, PlayerInv, Consents
<1>6. Script(p)'
  <2> SUFFICES ASSUME Follows(p)'
               PROVE  \E c \in Places : Path(p, Place(p)', toClient'[p], c) /\ Expects(p, c)'
    BY DEF Script
  <2>1. link'[p] = "open" /\ link[p] = "open" /\ Follows(p) /\ Place(p)' = Place(p)
    BY <1>1, <1>3, Told DEF Follows
  <2>2. PICK b \in Places : Path(p, Place(p), toClient[p], b) /\ Expects(p, b)
    BY <2>1, PlayerScript
  <2>3. b \in {"ended", "reply"}
    BY <1>1, <2>2 DEF Expects
  <2>4. CASE Approved
    <3>1. window[p] = "waiting" /\ toClient[p] = <<>>
      BY <1>5, <2>1, <2>4 DEF Answered, Follows
    <3>2. Place(p) = "reply" /\ "reply" \in Places /\ "first" \in Places
      BY <3>1 DEF Place, Places
    <3>3. b = "reply"
      BY <2>2, <3>1, <3>2, NoPath
    <3>4. Reads(p, "reply", message, "first")
      BY <2>4 DEF Reads
    <3>5. Path(p, Place(p)', toClient'[p], "first")
      BY <1>3, <1>4, <2>1, <2>2, <3>2, <3>3, <3>4, LongerPath
    <3>6. Expects(p, "first")'
      BY <1>2, <2>4 DEF Expects
    <3> QED
      BY <3>2, <3>5, <3>6
  <2>5. CASE ~ Approved
    <3>1. Reads(p, b, message, "over") /\ "over" \in Places
      BY <2>3, <2>5 DEF Reads, Places, OP_APPROVE_REQ, OP_DECLINE_REQ
    <3>2. Path(p, Place(p)', toClient'[p], "over")
      BY <1>3, <1>4, <2>1, <2>2, <3>1, LongerPath
    <3>3. Expects(p, "over")'
      BY <1>2, <2>5 DEF Expects
    <3> QED
      BY <3>1, <3>2, <3>3
  <2> QED
    BY <2>4, <2>5
<1>7. LastClick(p)'
  <2> SUFFICES ASSUME link'[p] = "open", reader'[p] = "broken", pc' # "done", pc' # "killed" PROVE FALSE
    BY <1>2 DEF LastClick
  <2>1. Approved /\ link[p] = "open" /\ reader[p] = "broken"
    BY <1>1, <1>2, <1>3 DEF client
  <2> QED
    BY <1>0, <1>5, <2>1 DEF PlayerInv, CallsInv, Answered
<1>8. Speaks(p)' /\ Consents(p)'
  BY <1>1, <1>2, <1>3, <1>5 DEF Speaks, Consents
<1> QED
  BY <1>1, <1>6, <1>7, <1>8, Told DEF PlayerInv

\* So much for the server.
LEMMA ServerStep_Player ==
  ASSUME NEW p \in Faithful, StreamInv, ServerStep
  PROVE  PlayerInv(p)'
  BY StartRound_Player, ReceiveMove_Player, AbandonRound_Player, PollVerdict_Player,
     JoinVerdicts_Player DEF ServerStep

-----------------------------------------------------------------------------
(* The client: what its steps have in common. *)

\* A client that is at the same place, with the same messages to come.
LEMMA StaysPut ==
  ASSUME NEW p \in Faithful, StreamInv, UNCHANGED <<pc, activeTurnIdx>>,
         toServer'[p] = toServer[p], toClient'[p] = toClient[p],
         Follows(p)' => Follows(p) /\ Place(p)' = Place(p)
  PROVE  Script(p)'
<1>1. PlayerInv(p)
  BY DEF StreamInv
<1> QED
  BY <1>1 DEF PlayerInv, Script, Expects

\* A client that goes where the first message to come takes it.
LEMMA GoesOn ==
  ASSUME NEW p \in Faithful, StreamInv, UNCHANGED <<pc, activeTurnIdx>>,
         toServer'[p] = toServer[p], toClient[p] # <<>>, toClient'[p] = Tail(toClient[p]),
         Follows(p)' => /\ Follows(p)
                        /\ \A c \in Places : Reads(p, Place(p), Head(toClient[p]), c) => Place(p)' = c
  PROVE  Script(p)'
<1> SUFFICES ASSUME Follows(p)'
             PROVE  \E b \in Places : Path(p, Place(p)', toClient'[p], b) /\ Expects(p, b)'
  BY DEF Script
<1>1. PICK b, c \in Places : /\ Reads(p, Place(p), Head(toClient[p]), c)
                             /\ Path(p, c, Tail(toClient[p]), b)
                             /\ Expects(p, b)
  BY HeadIsExpected
<1>2. Path(p, Place(p)', toClient'[p], b)
  BY <1>1
<1>3. Expects(p, b)'
  BY <1>1 DEF Expects
<1> QED
  BY <1>2, <1>3

\* A client that says nothing.
LEMMA Silent ==
  ASSUME NEW p \in Faithful, StreamInv, UNCHANGED <<pc, activeTurnIdx>>,
         link'[p] = link[p], toServer'[p] = toServer[p], outcomeBuffer'[p] = outcomeBuffer[p],
         Answered(p) => Answered(p)'
  PROVE  Speaks(p)' /\ Consents(p)'
<1>1. PlayerInv(p)
  BY DEF StreamInv
<1> QED
  BY <1>1 DEF PlayerInv, Speaks, Consents

-----------------------------------------------------------------------------
(* The reader thread. *)

\* The turn is read: the place of p is the one the server has sent it to.
LEMMA ReadFirstTurn_Player ==
  ASSUME NEW p \in Faithful, StreamInv, ReadFirstTurn(p)
  PROVE  PlayerInv(p)'
<1>0. p \in Players /\ TypeOK /\ PlayerInv(p)
  BY DEF Faithful, StreamInv
<1>1. /\ link[p] = "open" /\ reader[p] = "first" /\ toClient[p] # <<>>
      /\ toClient'[p] = Tail(toClient[p])
      /\ link'[p] = link[p] /\ toServer'[p] = toServer[p]
      /\ outcomeBuffer'[p] = outcomeBuffer[p]
      /\ UNCHANGED <<pc, activeTurnIdx>>
      /\ runLater'[p] = runLater[p] /\ window'[p] = window[p] /\ fetching'[p] = fetching[p]
  BY <1>0 DEF ReadFirstTurn, Reading, ReadInt, TypeOK, server
<1>2. /\ has_token_control'[p] = (Received(p) = p)
      /\ reader'[p] = IF Received(p) = p THEN "freshOwn" ELSE "freshOpp"
  BY <1>0 DEF ReadFirstTurn, TypeOK
<1>3. runLater[p] = <<>> /\ window[p] = "playing" /\ fetching[p] = "no" /\ ~ has_token_control[p]
  BY <1>0, <1>1, PlayerType DEF PlayerInv, CallsInv
<1>4. ~ MoveQueued(p)' /\ ~ MoveQueued(p)
  BY <1>1, <1>3 DEF MoveQueued
<1>5. CallsInv(p)'
  BY <1>1, <1>2, <1>3, <1>4 DEF CallsInv
<1>6. Script(p)'
  <2>1. Follows(p) /\ Place(p) = "first"
    BY <1>1, <1>3 DEF Follows, Place
  <2>2. Place(p)' = IF Received(p) = p THEN "due" ELSE "opp"
    BY <1>1, <1>2, <1>3, <1>4 DEF Place, Armed
  <2>3. \A c \in Places : Reads(p, Place(p), Head(toClient[p]), c) => Place(p)' = c
    BY <2>1, <2>2 DEF Reads, Received
  <2> QED
    BY <1>1, <2>1, <2>3, GoesOn
<1>7. LastClick(p)'
  BY <1>2 DEF LastClick
<1>8. Speaks(p)' /\ Consents(p)'
  BY <1>1, <1>3, Silent DEF Answered
<1> QED
  BY <1>5, <1>6, <1>7, <1>8 DEF PlayerInv

\* The board is renewed: the place of p is the same.
LEMMA RenewEngine_Player ==
  ASSUME NEW p \in Faithful, StreamInv, RenewEngine(p)
  PROVE  PlayerInv(p)'
<1>0. p \in Players /\ TypeOK /\ PlayerInv(p)
  BY DEF Faithful, StreamInv
<1>1. /\ reader[p] \in {"freshOwn", "freshOpp"}
      /\ toClient'[p] = toClient[p] /\ link'[p] = link[p] /\ toServer'[p] = toServer[p]
      /\ outcomeBuffer'[p] = outcomeBuffer[p]
      /\ UNCHANGED <<pc, activeTurnIdx>>
      /\ runLater'[p] = runLater[p] /\ window'[p] = window[p] /\ fetching'[p] = fetching[p]
      /\ has_token_control'[p] = has_token_control[p]
      /\ reader'[p] = IF reader[p] = "freshOwn" THEN "ownStatus" ELSE "oppMove"
  BY <1>0 DEF RenewEngine, TypeOK, server, network
<1>3. runLater[p] = <<>> /\ window[p] = "playing" /\ fetching[p] = "no"
  BY <1>0, <1>1, PlayerType DEF PlayerInv, CallsInv
<1>4. ~ MoveQueued(p)' /\ ~ MoveQueued(p)
  BY <1>1, <1>3 DEF MoveQueued
<1>5. CallsInv(p)'
  BY <1>0, <1>1, <1>3, <1>4 DEF CallsInv, PlayerInv
<1>6. Script(p)'
  <2>1. Follows(p)' => Follows(p)
    BY <1>1 DEF Follows
  <2>2. Place(p)' = Place(p)
    BY <1>1, <1>3, <1>4 DEF Place, Armed
  <2> QED
    BY <1>1, <2>1, <2>2, StaysPut
<1>7. LastClick(p)'
  BY <1>1 DEF LastClick
<1>8. Speaks(p)' /\ Consents(p)'
  BY <1>1, <1>3, Silent DEF Answered
<1> QED
  BY <1>5, <1>6, <1>7, <1>8 DEF PlayerInv

\* A call is left to an FX thread that has none.
LEMMA FirstCall ==
  ASSUME NEW s \in Seq(Calls), s = <<>>, NEW call \in Calls
  PROVE  /\ Append(s, call) # <<>> /\ Len(Append(s, call)) = 1
         /\ Head(Append(s, call)) = call /\ Append(s, call)[1] = call
<1>1. Len(s) = 0
  OBVIOUS
<1>2. /\ Append(s, call) \in Seq(Calls) /\ Len(Append(s, call)) = 1
      /\ Append(s, call)[1] = call
  BY <1>1, AppendProperties
<1> QED
  BY <1>2

LEMMA AppendCall ==
  ASSUME NEW s \in Seq(Calls), NEW call \in Calls
  PROVE  /\ Append(s, call) # <<>>
         /\ Len(Append(s, call)) = Len(s) + 1
         /\ Append(s, call)[Len(s) + 1] = call
  BY AppendProperties

\* A call is left to an FX thread that has one already.
LEMMA SecondCall ==
  ASSUME NEW s \in Seq(Calls), Len(s) = 1, NEW call \in Calls
  PROVE  /\ Append(s, call) # <<>> /\ Len(Append(s, call)) = 2
         /\ Head(Append(s, call)) = Head(s) /\ Append(s, call)[2] = call
<1>1. Append(s, call) # <<>> /\ Len(Append(s, call)) = 2 /\ Append(s, call)[2] = call
  <2>1. /\ Append(s, call) # <<>>
        /\ Len(Append(s, call)) = Len(s) + 1
        /\ Append(s, call)[Len(s) + 1] = call
    BY AppendCall
  <2>2. Len(s) + 1 = 2
    OBVIOUS
  <2> QED
    BY <2>1, <2>2
<1>2. s # <<>>
  OBVIOUS
<1>3. Head(Append(s, call)) = Head(s)
  BY <1>2, HeadTailAppend
<1> QED
  BY <1>1, <1>3

\* The cell is read: the user may click, once it is shown.
LEMMA ReadOpponentMove_Player ==
  ASSUME NEW p \in Faithful, StreamInv, ReadOpponentMove(p)
  PROVE  PlayerInv(p)'
<1> DEFINE call == <<"onOpponentMove", Received(p)>>
<1>0. p \in Players /\ TypeOK /\ PlayerInv(p)
  BY DEF Faithful, StreamInv
<1>1. /\ link[p] = "open" /\ reader[p] = "oppMove" /\ toClient[p] # <<>>
      /\ toClient'[p] = Tail(toClient[p])
      /\ link'[p] = link[p] /\ toServer'[p] = toServer[p]
      /\ outcomeBuffer'[p] = outcomeBuffer[p]
      /\ UNCHANGED <<pc, activeTurnIdx>>
      /\ window'[p] = window[p] /\ fetching'[p] = fetching[p]
      /\ has_token_control'[p] = has_token_control[p]
      /\ reader'[p] = "oppStatus"
  BY <1>0 DEF ReadOpponentMove, Reading, ReadInt, TypeOK, server
<1>2. runLater'[p] = Append(runLater[p], call)
  BY <1>0 DEF ReadOpponentMove, TypeOK
<1>3. runLater[p] = <<>> /\ window[p] = "playing" /\ fetching[p] = "no" /\ ~ has_token_control[p]
  BY <1>0, <1>1, PlayerType DEF PlayerInv, CallsInv
<1>4. ~ MoveQueued(p)
  BY <1>3 DEF MoveQueued
<1>5. Follows(p) /\ Place(p) = "opp"
  BY <1>1, <1>3 DEF Follows, Place
<1>6. Received(p) \in Positions
  <2>1. PICK c \in Places : Reads(p, "opp", Head(toClient[p]), c)
    BY <1>1, <1>5, HeadIsExpected
  <2>2. Head(toClient[p])[1] = "cell"
    BY <2>1 DEF Reads
  <2>3. Head(toClient[p]) \in Messages
    BY <1>0, <1>1, PlayerType, HeadTailProperties
  <2> QED
    BY <2>2, <2>3 DEF Messages, Received
<1>7. call \in Calls /\ call[1] = "onOpponentMove" /\ call[2] = Received(p)
  BY <1>6 DEF Calls, Positions
<1> HIDE DEF call
<1>8. runLater'[p] # <<>> /\ Len(runLater'[p]) = 1 /\ Head(runLater'[p]) = call
  BY <1>0, <1>2, <1>3, <1>7, FirstCall, PlayerType
<1>9. MoveQueued(p)'
  BY <1>7, <1>8 DEF MoveQueued
<1>10. CallsInv(p)'
  BY <1>1, <1>3, <1>6, <1>7, <1>8, <1>9 DEF CallsInv
<1>11. Script(p)'
  <2>1. Place(p)' = "oppStatus"
    BY <1>1, <1>3, <1>9 DEF Place, Armed
  <2>2. \A c \in Places : Reads(p, Place(p), Head(toClient[p]), c) => Place(p)' = c
    BY <1>5, <2>1 DEF Reads
  <2> QED
    BY <1>1, <1>5, <2>2, GoesOn
<1>12. LastClick(p)'
  BY <1>1 DEF LastClick
<1>13. Speaks(p)' /\ Consents(p)'
  BY <1>1, <1>3, Silent DEF Answered
<1> QED
  BY <1>10, <1>11, <1>12, <1>13 DEF PlayerInv

\* The status is read, after the cell or instead of it.
LEMMA ReadStatus_Player ==
  ASSUME NEW p \in Faithful, StreamInv, ReadStatus(p)
  PROVE  PlayerInv(p)'
<1> DEFINE call == <<"onGameStatus", Received(p)>>
<1>0. p \in Players /\ TypeOK /\ PlayerInv(p)
  BY DEF Faithful, StreamInv
<1>1. /\ link[p] = "open" /\ reader[p] \in {"ownStatus", "oppStatus"} /\ toClient[p] # <<>>
      /\ toClient'[p] = Tail(toClient[p])
      /\ link'[p] = link[p] /\ toServer'[p] = toServer[p]
      /\ outcomeBuffer'[p] = outcomeBuffer[p]
      /\ UNCHANGED <<pc, activeTurnIdx>>
      /\ window'[p] = window[p] /\ fetching'[p] = fetching[p]
      /\ has_token_control'[p] = has_token_control[p]
  BY <1>0 DEF ReadStatus, Reading, ReadInt, TypeOK, server
<1>2. /\ window[p] = "playing" /\ fetching[p] = "no"
      /\ runLater[p] = <<>> \/ (Len(runLater[p]) = 1 /\ MoveQueued(p))
      /\ MoveQueued(p) => ~ has_token_control[p] /\ Head(runLater[p])[2] \in Positions
  BY <1>0, <1>1, PlayerType DEF PlayerInv, CallsInv
<1>3. Follows(p)
  BY <1>1, <1>2 DEF Follows
<1>4. Place(p) = CASE reader[p] = "ownStatus" -> IF Armed(p) THEN "due" ELSE "sent"
                   [] reader[p] = "oppStatus" -> IF Armed(p) THEN "oppStatus" ELSE "oppSent"
  BY <1>1, <1>2 DEF Place
<1>5. reader[p] = "ownStatus" => ~ Armed(p)
  <2>1. PICK c \in Places : Reads(p, Place(p), Head(toClient[p]), c)
    BY <1>1, <1>3, HeadIsExpected
  <2> QED
    BY <1>4, <2>1 DEF Reads
<1>6. LastClick(p)' /\ Speaks(p)' /\ Consents(p)'
  <2>1. reader'[p] # "broken"
    BY <1>0, <1>1 DEF ReadStatus, TypeOK
  <2> QED
    BY <1>1, <1>2, <2>1, Silent DEF Answered, LastClick
<1>7. CASE Received(p) = Undecided
  <2>1. /\ runLater'[p] = runLater[p]
        /\ reader'[p] = IF reader[p] = "ownStatus" THEN "oppMove" ELSE "ownStatus"
    BY <1>0, <1>7 DEF ReadStatus, TypeOK
  <2>2. MoveQueued(p)' = MoveQueued(p) /\ Armed(p)' = Armed(p)
    BY <1>1, <2>1 DEF MoveQueued, Armed
  <2>3. CallsInv(p)'
    <3>1. reader[p] = "ownStatus" => runLater[p] = <<>> /\ ~ has_token_control[p]
      BY <1>2, <1>5 DEF Armed
    <3> QED
      BY <1>1, <1>2, <2>1, <2>2, <3>1 DEF CallsInv
  <2>4. Place(p)' = IF reader[p] = "ownStatus" THEN "opp" ELSE IF Armed(p) THEN "due" ELSE "sent"
    BY <1>1, <1>2, <2>1, <2>2 DEF Place
  <2>5. \A c \in Places : Reads(p, Place(p), Head(toClient[p]), c) => Place(p)' = c
    BY <1>1, <1>4, <1>5, <1>7, <2>4 DEF Reads, Received
  <2> QED
    BY <1>1, <1>3, <1>6, <2>3, <2>5, GoesOn DEF PlayerInv
<1>8. CASE Received(p) # Undecided
  <2>1. /\ runLater'[p] = Append(runLater[p], call)
        /\ reader'[p] = "ended"
    BY <1>0, <1>8 DEF ReadStatus, TypeOK
  <2>2. call \in Calls /\ call[1] = "onGameStatus"
    <3>1. Received(p) \in Int
      BY <1>0, <1>1, PlayerType, HeadTailProperties, MessagesAreNumbers DEF Received
    <3> QED
      BY <3>1 DEF Calls
  <2>3. runLater[p] \in Seq(Calls)
    BY <1>0, PlayerType
  <2> HIDE DEF call
  <2>4. CallsInv(p)'
    <3>1. CASE runLater[p] = <<>>
      <4>1. Len(runLater'[p]) = 1 /\ Head(runLater'[p]) = call /\ runLater'[p][1] = call
        BY <2>1, <2>2, <2>3, <3>1, FirstCall
      <4>2. ~ MoveQueued(p)'
        BY <2>2, <4>1 DEF MoveQueued
      <4>3. runLater'[p][Len(runLater'[p])][1] = "onGameStatus"
        BY <2>2, <4>1
      <4> QED
        BY <1>1, <1>2, <2>1, <4>1, <4>2, <4>3 DEF CallsInv
    <3>2. CASE Len(runLater[p]) = 1 /\ MoveQueued(p)
      <4>1. /\ runLater'[p] # <<>> /\ Len(runLater'[p]) = 2
            /\ Head(runLater'[p]) = Head(runLater[p]) /\ runLater'[p][2] = call
        BY <2>1, <2>2, <2>3, <3>2, SecondCall
      <4>2. MoveQueued(p)'
        BY <3>2, <4>1 DEF MoveQueued
      <4>3. runLater'[p][Len(runLater'[p])][1] = "onGameStatus"
        BY <2>2, <4>1
      <4>4. ~ has_token_control'[p] /\ Head(runLater'[p])[2] \in Positions
        BY <1>1, <1>2, <3>2, <4>1
      <4> QED
        BY <1>1, <1>2, <2>1, <4>1, <4>2, <4>3, <4>4 DEF CallsInv
    <3> QED
      BY <1>2, <3>1, <3>2
  <2>5. Place(p)' = "ended"
    BY <1>1, <1>2, <2>1 DEF Place
  <2>6. \A c \in Places : Reads(p, Place(p), Head(toClient[p]), c) => Place(p)' = c
    BY <1>1, <1>4, <1>5, <1>8, <2>5 DEF Reads, Received
  <2> QED
    BY <1>1, <1>3, <1>6, <2>4, <2>6, GoesOn DEF PlayerInv
<1> QED
  BY <1>7, <1>8

\* The reader gives up: the user may still have a move to send.
LEMMA ReaderTimesOut_Player ==
  ASSUME NEW p \in Faithful, StreamInv, ReaderTimesOut(p)
  PROVE  PlayerInv(p)'
<1>0. p \in Players /\ TypeOK /\ PlayerInv(p)
  BY DEF Faithful, StreamInv
<1>1. /\ link[p] = "open" /\ reader[p] \in {"first", "ownStatus", "oppMove", "oppStatus"}
      /\ toClient[p] = <<>> /\ toClient'[p] = toClient[p]
      /\ link'[p] = link[p] /\ toServer'[p] = toServer[p]
      /\ outcomeBuffer'[p] = outcomeBuffer[p]
      /\ UNCHANGED <<pc, activeTurnIdx>>
      /\ runLater'[p] = runLater[p] /\ window'[p] = window[p] /\ fetching'[p] = fetching[p]
      /\ has_token_control'[p] = has_token_control[p]
      /\ reader'[p] = "broken"
  BY <1>0 DEF ReaderTimesOut, TypeOK, server, network
<1>2. window[p] = "playing"
  BY <1>0, <1>1, PlayerType DEF PlayerInv, CallsInv
<1>3. MoveQueued(p)' = MoveQueued(p) /\ Armed(p)' = Armed(p)
  BY <1>1 DEF MoveQueued, Armed
<1>4. CallsInv(p)'
  BY <1>0, <1>1, <1>2, <1>3 DEF CallsInv, PlayerInv
<1>5. Script(p)'
  BY <1>1 DEF Script, Follows
<1>6. LastClick(p)'
  <2> SUFFICES ASSUME Armed(p)
               PROVE  pc # "start" /\ (pc = "await" => activeTurnIdx = p /\ toServer[p] = <<>>)
    BY <1>1, <1>3 DEF LastClick
  <2>1. reader[p] \in {"ownStatus", "oppStatus"}
    BY <1>0, <1>1, <1>2 DEF PlayerInv, CallsInv, Armed, MoveQueued
  <2>2. Place(p) = IF reader[p] = "ownStatus" THEN "due" ELSE "oppStatus"
    BY <1>2, <2>1 DEF Place
  <2>3. PICK b \in Places : Path(p, Place(p), <<>>, b) /\ Expects(p, b)
    BY <1>1, <1>2, PlayerScript DEF Follows
  <2>4. b = Place(p)
    BY <2>3, PlaceType, NoPath
  <2> QED
    BY <2>2, <2>3, <2>4 DEF Expects
<1>7. Speaks(p)' /\ Consents(p)'
  BY <1>1, <1>2, Silent DEF Answered
<1> QED
  BY <1>4, <1>5, <1>6, <1>7 DEF PlayerInv

-----------------------------------------------------------------------------
(* The FX thread and its user. *)

\* A move is sent by the player the server waits for, or by one it does not
\* listen to any more.
LEMMA Click_Player ==
  ASSUME NEW p \in Faithful, StreamInv, NEW cell \in Playable[p], Click(p, cell)
  PROVE  PlayerInv(p)'
<1> DEFINE move == <<0, cell>>
<1>0. p \in Players /\ TypeOK /\ PlayerInv(p)
  BY DEF Faithful, StreamInv
<1>1. /\ link[p] = "open" /\ window[p] = "playing" /\ has_token_control[p] = TRUE
      /\ toClient'[p] = toClient[p] /\ link'[p] = link[p]
      /\ toServer'[p] = toServer[p] \o move
      /\ outcomeBuffer'[p] = outcomeBuffer[p]
      /\ UNCHANGED <<pc, activeTurnIdx>>
      /\ runLater'[p] = runLater[p] /\ window'[p] = window[p] /\ fetching'[p] = fetching[p]
      /\ has_token_control'[p] = FALSE
      /\ reader'[p] = reader[p]
  BY <1>0 DEF Click, FxFree, Send, TypeOK, server
<1>2. move \in Seq(Halves) /\ Len(move) = 2 /\ move[1] = 0
  BY BoundsAssumption, <1>0, ShortSequences DEF Positions, Halves
<1> HIDE DEF move
<1>3. toServer[p] \in Seq(Halves) /\ toClient[p] \in Seq(Messages)
  BY <1>0, PlayerType
<1>4. /\ toServer'[p] # <<>>
      /\ toServer[p] = <<>> => Len(toServer'[p]) = 2 /\ toServer'[p][1] = 0
      /\ toServer[p] # <<>> => toServer'[p][1] = toServer[p][1]
  <2>1. /\ toServer'[p] \in Seq(Halves)
        /\ Len(toServer'[p]) = Len(toServer[p]) + 2
        /\ \A i \in 1 .. Len(toServer[p]) + 2 :
             toServer'[p][i] = IF i <= Len(toServer[p]) THEN toServer[p][i] ELSE move[i - Len(toServer[p])]
    <3>1. LET both == toServer[p] \o move
          IN  /\ both \in Seq(Halves)
              /\ Len(both) = Len(toServer[p]) + Len(move)
              /\ \A i \in 1 .. Len(toServer[p]) + Len(move) :
                   both[i] = IF i <= Len(toServer[p]) THEN toServer[p][i] ELSE move[i - Len(toServer[p])]
      BY <1>2, <1>3, ConcatProperties
    <3> QED
      BY <1>1, <1>2, <3>1
  <2>2. toServer[p] = <<>> => Len(toServer[p]) = 0
    OBVIOUS
  <2>3. toServer[p] # <<>> => Len(toServer[p]) \in Nat \ {0}
    BY <1>3, EmptySeq
  <2>4. toServer[p] = <<>> => Len(toServer'[p]) = 2 /\ toServer'[p][1] = 0
    BY <1>2, <2>1, <2>2
  <2>5. toServer[p] # <<>> => toServer'[p][1] = toServer[p][1]
    BY <2>1, <2>3
  <2>6. toServer'[p] # <<>>
    <3>1. Len(toServer[p]) \in Nat
      BY <1>3, LenProperties
    <3>2. Len(toServer'[p]) # 0
      BY <2>1, <3>1
    <3> QED
      BY <3>2
  <2> QED
    BY <2>4, <2>5, <2>6
<1>5. /\ pc # "start"
      /\ pc = "await" => activeTurnIdx = p /\ toServer[p] = <<>>
      /\ reader[p] \in {"freshOwn", "ownStatus"} => toClient[p] = <<>>
  BY <1>1, ClickersAreAwaited DEF MayMove
<1>6. ~ MoveQueued(p) /\ ~ Answered(p) /\ ~ Armed(p)'
      /\ MoveQueued(p)' = MoveQueued(p) /\ Armed(p)
  BY <1>0, <1>1 DEF PlayerInv, CallsInv, MoveQueued, Armed, Answered
<1>7. CallsInv(p)'
  BY <1>0, <1>1, <1>6 DEF PlayerInv, CallsInv
<1>8. Script(p)'
  <2> SUFFICES ASSUME Follows(p)'
               PROVE  \E c \in Places : Path(p, Place(p)', toClient[p], c) /\ Expects(p, c)'
    BY <1>1 DEF Script
  <2>1. Follows(p)
    BY <1>1 DEF Follows
  <2>2. PICK b \in Places : Path(p, Place(p), toClient[p], b) /\ Expects(p, b)
    BY <2>1, PlayerScript
  <2>3. reader[p] \in {"freshOwn", "ownStatus", "oppStatus", "ended"}
    BY <1>0, <1>1, <2>1, PlayerType DEF PlayerInv, CallsInv, Follows
  <2>4. "due" \in Places /\ "sent" \in Places /\ "oppStatus" \in Places /\ "oppSent" \in Places
        /\ "ended" \in Places
    BY DEF Places
  <2>5. pc # "polling" => Expects(p, "sent")'
    BY <1>1, <1>4, <1>5 DEF Expects
  <2>6. CASE reader[p] \in {"freshOwn", "ownStatus"}
    <3>1. Place(p) = "due" /\ Place(p)' = "sent"
      BY <1>1, <1>6, <2>6 DEF Place
    <3>2. b = "due"
      BY <1>3, <2>2, <3>1, DeadEnds
    <3>3. pc # "polling"
      BY <2>2, <3>2 DEF Expects
    <3>4. Path(p, "sent", toClient[p], "sent")
      BY <1>5, <2>4, <2>6, NoPath
    <3> QED
      BY <2>4, <2>5, <3>1, <3>3, <3>4
  <2>7. CASE reader[p] = "oppStatus"
    <3>1. Place(p) = "oppStatus" /\ Place(p)' = "oppSent"
      BY <1>1, <1>6, <2>7 DEF Place
    <3>2. CASE toClient[p] = <<>>
      <4>1. b = "oppStatus"
        BY <2>2, <2>4, <3>1, <3>2, NoPath
      <4>2. pc \notin {"start", "await", "polling"}
        BY <2>2, <4>1 DEF Expects
      <4>3. Path(p, "oppSent", toClient[p], "oppSent")
        BY <2>4, <3>2, NoPath
      <4>4. Expects(p, "oppSent")'
        BY <1>1, <4>2 DEF Expects
      <4> QED
        BY <2>4, <3>1, <4>3, <4>4
    <3>3. CASE toClient[p] # <<>>
      <4>1. PICK c \in Places : /\ Reads(p, "oppStatus", Head(toClient[p]), c)
                                /\ Path(p, c, Tail(toClient[p]), b)
        BY <1>3, <2>2, <2>4, <3>1, <3>3, ShorterPath
      <4>2. Tail(toClient[p]) \in Seq(Messages)
        BY <1>3, <3>3, HeadTailProperties
      <4>3. CASE c = "due"
        <5>1. b = "due" /\ Tail(toClient[p]) = <<>>
          BY <4>1, <4>2, <4>3, DeadEnds
        <5>2. Reads(p, "oppSent", Head(toClient[p]), "sent")
          BY <4>1, <4>3 DEF Reads
        <5>3. Path(p, "sent", Tail(toClient[p]), "sent")
          <6>1. Path(p, "sent", <<>>, "sent")
            BY <2>4, NoPath
          <6> QED
            BY <5>1, <6>1
        <5>4. Path(p, "oppSent", toClient[p], "sent")
          BY <1>3, <2>4, <3>3, <5>2, <5>3, PathFrom
        <5>5. pc # "polling"
          BY <2>2, <5>1 DEF Expects
        <5> QED
          BY <2>4, <2>5, <3>1, <5>4, <5>5
      <4>4. CASE c # "due"
        <5>1. c = "ended" /\ Reads(p, "oppSent", Head(toClient[p]), "ended")
          BY <4>1, <4>4 DEF Reads
        <5>2. Path(p, "oppSent", toClient[p], b)
          BY <1>3, <2>4, <3>3, <4>1, <5>1, PathFrom
        <5>3. b \in {"ended", "over"}
          BY <4>1, <4>2, <5>1, DeadEnds
        <5>4. Expects(p, b)'
          BY <1>1, <2>2, <5>3 DEF Expects
        <5> QED
          BY <3>1, <5>2, <5>4
      <4> QED
        BY <4>3, <4>4
    <3> QED
      BY <3>2, <3>3
  <2>8. CASE reader[p] = "ended"
    <3>1. Place(p) = "ended" /\ Place(p)' = "ended"
      BY <1>1, <2>8 DEF Place
    <3>2. b \in {"ended", "over"}
      BY <1>3, <2>2, <3>1, DeadEnds
    <3>3. Expects(p, b)'
      BY <1>1, <2>2, <3>2 DEF Expects
    <3> QED
      BY <2>2, <3>1, <3>3
  <2> QED
    BY <2>3, <2>6, <2>7, <2>8
<1>9. LastClick(p)'
  BY <1>6 DEF LastClick
<1>10. Speaks(p)'
  BY <1>1, <1>4, <1>5 DEF Speaks
<1>11. Consents(p)'
  <2>1. (pc \in {"start", "await"}) => outcomeBuffer[p] = NotRead
    BY <1>0 DEF PlayerInv, Consents
  <2>2. pc = "polling" => outcomeBuffer[p] # OP_APPROVE_REQ
    BY <1>0, <1>1, <1>6 DEF PlayerInv, Consents
  <2>3. pc = "polling" /\ outcomeBuffer[p] = NotRead => toServer'[p][1] # OP_APPROVE_REQ
    <3>1. CASE toServer[p] = <<>>
      BY <1>4, <3>1 DEF OP_APPROVE_REQ
    <3>2. CASE toServer[p] # <<>>
      BY <1>0, <1>1, <1>4, <1>6, <3>2 DEF PlayerInv, Consents
    <3> QED
      BY <3>1, <3>2
  <2> QED
    BY <1>1, <2>1, <2>2, <2>3 DEF Consents
<1> QED
  BY <1>7, <1>8, <1>9, <1>10, <1>11 DEF PlayerInv

\* What is left of the calls once the first is taken.
LEMMA CallsLeft ==
  ASSUME NEW s \in Seq(Calls)
  PROVE  /\ Len(s) = 1 => Tail(s) = <<>> /\ Head(s) = s[1]
         /\ Len(s) = 2 => /\ Tail(s) # <<>> /\ Len(Tail(s)) = 1
                          /\ Head(Tail(s)) = s[2] /\ Tail(s)[1] = s[2]
<1>1. CASE Len(s) = 1
  <2> DEFINE rest == Tail(s)
  <2>1. rest \in Seq(Calls) /\ Len(rest) = 0
    BY <1>1, HeadTailProperties
  <2> HIDE DEF rest
  <2>2. rest = <<>>
    BY <2>1, EmptySeq
  <2> QED
    BY <1>1, <2>2 DEF rest
<1>2. CASE Len(s) = 2
  <2> DEFINE rest == Tail(s)
  <2>1. s # <<>>
    BY <1>2
  <2>2. /\ rest \in Seq(Calls) /\ Len(rest) = Len(s) - 1
        /\ \A i \in 1 .. Len(rest) : rest[i] = s[i+1]
    BY <2>1, HeadTailProperties
  <2> HIDE DEF rest
  <2>3. Len(rest) = 1 /\ rest[1] = s[2] /\ rest # <<>>
    <3>1. Len(rest) = 1
      BY <1>2, <2>2
    <3>2. rest[1] = s[1+1]
      BY <2>2, <3>1
    <3>3. rest # <<>>
      BY <3>1
    <3> QED
      BY <3>1, <3>2, <3>3
  <2>4. Head(rest) = s[2]
    BY <2>2, <2>3
  <2>5. Len(s) # 1
    BY <1>2
  <2> QED
    BY <2>3, <2>4, <2>5 DEF rest
<1> QED
  BY <1>1, <1>2

\* The move of the opponent is shown: the user may click now.
LEMMA HandleOpponentMove_Player ==
  ASSUME NEW p \in Faithful, StreamInv, HandleOpponentMove(p)
  PROVE  PlayerInv(p)'
<1>0. p \in Players /\ TypeOK /\ PlayerInv(p)
  BY DEF Faithful, StreamInv
<1>1. /\ link[p] = "open" /\ runLater[p] # <<>> /\ MoveQueued(p)
      /\ toClient'[p] = toClient[p] /\ link'[p] = link[p] /\ toServer'[p] = toServer[p]
      /\ outcomeBuffer'[p] = outcomeBuffer[p]
      /\ UNCHANGED <<pc, activeTurnIdx>>
      /\ runLater'[p] = Tail(runLater[p])
      /\ window'[p] = window[p] /\ fetching'[p] = fetching[p] /\ reader'[p] = reader[p]
  BY <1>0 DEF HandleOpponentMove, FxFree, MoveQueued, TypeOK, server, network
<1>2. /\ window[p] = "playing" /\ fetching[p] = "no"
      /\ reader[p] \in {"ownStatus", "oppStatus", "broken", "ended"}
      /\ Head(runLater[p])[2] \in Positions
  BY <1>0, <1>1, PlayerType DEF PlayerInv, CallsInv
<1>3. has_token_control'[p] = TRUE
  BY <1>0, <1>2 DEF HandleOpponentMove, TypeOK
<1>4. Armed(p) /\ Armed(p)'
  BY <1>1, <1>3 DEF Armed
<1>5. /\ reader[p] # "ended" => Len(runLater[p]) = 1
      /\ reader[p] = "ended" => Len(runLater[p]) = 2 /\ runLater[p][2][1] = "onGameStatus"
  <2>1. CASE reader[p] # "ended"
    BY <1>0, <1>1, <1>2, <2>1 DEF PlayerInv, CallsInv
  <2>2. CASE reader[p] = "ended"
    <3>1. Len(runLater[p]) \in {1, 2} /\ runLater[p][Len(runLater[p])][1] = "onGameStatus"
      BY <1>0, <1>2, <2>2 DEF PlayerInv, CallsInv
    <3>2. Len(runLater[p]) # 1
      <4> SUFFICES ASSUME Len(runLater[p]) = 1 PROVE FALSE
        OBVIOUS
      <4>1. Head(runLater[p]) = runLater[p][1]
        BY <1>0, CallsLeft, PlayerType
      <4> QED
        BY <1>1, <3>1, <4>1 DEF MoveQueued
    <3> QED
      BY <2>2, <3>1, <3>2
  <2> QED
    BY <2>1, <2>2
<1>6. /\ reader[p] # "ended" => runLater'[p] = <<>>
      /\ reader[p] = "ended" => /\ Len(runLater'[p]) = 1
                                /\ runLater'[p][1][1] = "onGameStatus"
                                /\ Head(runLater'[p])[1] = "onGameStatus"
  BY <1>0, <1>1, <1>5, CallsLeft, PlayerType
<1>7. ~ MoveQueued(p)'
  BY <1>2, <1>6 DEF MoveQueued
<1>8. CallsInv(p)'
  <2>1. reader[p] = "ended" => /\ Len(runLater'[p]) \in {1, 2}
                               /\ runLater'[p][Len(runLater'[p])][1] = "onGameStatus"
                               /\ Len(runLater'[p]) # 2
    BY <1>6
  <2> QED
    BY <1>1, <1>2, <1>6, <1>7, <2>1 DEF CallsInv
<1>9. Script(p)'
  <2>1. Follows(p)' = Follows(p) /\ Place(p)' = Place(p)
    BY <1>1, <1>4 DEF Follows, Place
  <2> QED
    BY <1>1, <2>1, StaysPut
<1>10. LastClick(p)'
  BY <1>0, <1>1, <1>4 DEF PlayerInv, LastClick
<1>11. Speaks(p)' /\ Consents(p)'
  BY <1>1, Silent DEF Answered
<1> QED
  BY <1>8, <1>9, <1>10, <1>11 DEF PlayerInv

\* The end of the round is shown, after everything else.
LEMMA HandleGameStatus_Player ==
  ASSUME NEW p \in Faithful, StreamInv, HandleGameStatus(p)
  PROVE  PlayerInv(p)'
<1>0. p \in Players /\ TypeOK /\ PlayerInv(p)
  BY DEF Faithful, StreamInv
<1>1. /\ link[p] = "open" /\ runLater[p] # <<>> /\ Head(runLater[p])[1] = "onGameStatus"
      /\ toClient'[p] = toClient[p] /\ link'[p] = link[p] /\ toServer'[p] = toServer[p]
      /\ outcomeBuffer'[p] = outcomeBuffer[p]
      /\ UNCHANGED <<pc, activeTurnIdx>>
      /\ runLater'[p] = Tail(runLater[p])
      /\ has_token_control'[p] = has_token_control[p]
      /\ window'[p] = "asking" /\ fetching'[p] = fetching[p] /\ reader'[p] = reader[p]
  BY <1>0 DEF HandleGameStatus, FxFree, TypeOK, server, network
<1>2. ~ MoveQueued(p)
  BY <1>1 DEF MoveQueued
<1>3. window[p] = "playing" /\ reader[p] = "ended" /\ fetching[p] = "no" /\ Len(runLater[p]) = 1
  BY <1>0, <1>1, <1>2, PlayerType DEF PlayerInv, CallsInv
<1>4. runLater'[p] = <<>>
  BY <1>0, <1>1, <1>3, CallsLeft, PlayerType
<1>5. CallsInv(p)'
  BY <1>1, <1>3, <1>4 DEF CallsInv, MoveQueued
<1>6. Script(p)'
  <2>1. Follows(p)' => Follows(p)
    BY <1>1, <1>3 DEF Follows
  <2>2. Place(p)' = Place(p)
    BY <1>1, <1>3 DEF Place
  <2> QED
    BY <1>1, <2>1, <2>2, StaysPut
<1>7. LastClick(p)'
  BY <1>1, <1>3 DEF LastClick
<1>8. Speaks(p)' /\ Consents(p)'
  BY <1>1, <1>3, Silent DEF Answered
<1> QED
  BY <1>5, <1>6, <1>7, <1>8 DEF PlayerInv

\* The user answers: what was to be read is the reply now.
LEMMA AnswerRematch_Player ==
  ASSUME NEW p \in Faithful, StreamInv, NEW yes \in BOOLEAN, AnswerRematch(p, yes)
  PROVE  PlayerInv(p)'
<1> DEFINE half == IF yes THEN OP_APPROVE_REQ ELSE OP_DECLINE_REQ
<1>0. p \in Players /\ TypeOK /\ PlayerInv(p)
  BY DEF Faithful, StreamInv
<1>1. /\ link[p] = "open" /\ window[p] = "asking"
      /\ toClient'[p] = toClient[p] /\ link'[p] = link[p]
      /\ toServer'[p] = toServer[p] \o <<half>>
      /\ outcomeBuffer'[p] = outcomeBuffer[p]
      /\ UNCHANGED <<pc, activeTurnIdx>>
      /\ runLater'[p] = runLater[p] /\ has_token_control'[p] = has_token_control[p]
      /\ window'[p] = "waiting" /\ fetching'[p] = fetching[p] /\ reader'[p] = reader[p]
  BY <1>0 DEF AnswerRematch, FxFree, Send, TypeOK, server
<1>2. half \in Halves
  BY DEF OP_APPROVE_REQ, OP_DECLINE_REQ, Halves
<1> HIDE DEF half
<1>3. toServer[p] \in Seq(Halves) /\ toClient[p] \in Seq(Messages)
  BY <1>0, PlayerType
<1>4. reader[p] = "ended" /\ runLater[p] = <<>> /\ fetching[p] = "no"
  BY <1>0, <1>1 DEF PlayerInv, CallsInv
<1>5. ~ MoveQueued(p)' /\ ~ Answered(p)
  BY <1>1, <1>4 DEF MoveQueued, Answered
<1>6. CallsInv(p)'
  BY <1>1, <1>4, <1>5 DEF CallsInv
<1>7. Follows(p) /\ Place(p) = "ended" /\ Place(p)' = "reply"
  BY <1>1, <1>4 DEF Follows, Place
<1>8. PICK b \in Places : Path(p, "ended", toClient[p], b) /\ Expects(p, b)
  BY <1>7, PlayerScript
<1>9. (toClient[p] = <<>> /\ b = "ended") \/ b = "over"
  BY <1>3, <1>8, DeadEnds
<1>10. pc \notin {"start", "await"} /\ (pc = "polling" => toClient[p] = <<>>)
  BY <1>8, <1>9 DEF Expects
<1>11. Script(p)'
  <2> SUFFICES \E c \in Places : Path(p, "reply", toClient[p], c) /\ Expects(p, c)'
    BY <1>1, <1>7 DEF Script
  <2>1. \A s : s \in {"ended", "reply", "first", "over"} => s \in Places
    BY DEF Places
  <2>2. CASE toClient[p] = <<>>
    <3>1. Path(p, "reply", toClient[p], "reply")
      BY <2>1, <2>2, NoPath
    <3>2. Expects(p, "reply")'
      BY <1>1, <1>10 DEF Expects
    <3> QED
      BY <2>1, <3>1, <3>2
  <2>3. CASE toClient[p] # <<>>
    <3>1. PICK c \in Places : /\ Reads(p, "ended", Head(toClient[p]), c)
                              /\ Path(p, c, Tail(toClient[p]), b)
      BY <1>3, <1>8, <2>1, <2>3, ShorterPath
    <3>2. c = "over"
      BY <3>1 DEF Reads
    <3>3. Tail(toClient[p]) = <<>>
      <4>1. Tail(toClient[p]) \in Seq(Messages)
        BY <1>3, <2>3, HeadTailProperties
      <4> QED
        BY <3>1, <3>2, <4>1, DeadEnds
    <3>4. PICK d \in {"first", "over"} : Reads(p, "reply", Head(toClient[p]), d)
      BY <3>1 DEF Reads
    <3>5. Path(p, d, Tail(toClient[p]), d)
      <4>1. Path(p, d, <<>>, d)
        BY <2>1, NoPath
      <4> QED
        BY <3>3, <4>1
    <3>6. Path(p, "reply", toClient[p], d)
      BY <1>3, <2>1, <2>3, <3>4, <3>5, PathFrom
    <3>7. Expects(p, d)'
      BY <1>1, <1>10, <2>3 DEF Expects
    <3> QED
      BY <2>1, <3>6, <3>7
  <2> QED
    BY <2>2, <2>3
<1>12. LastClick(p)'
  BY <1>1, <1>4 DEF LastClick
<1>13. Speaks(p)'
  BY <1>1, <1>10 DEF Speaks
<1>14. Consents(p)'
  <2>1. pc = "polling" => outcomeBuffer[p] # OP_APPROVE_REQ
    BY <1>0, <1>1, <1>5 DEF PlayerInv, Consents
  <2>2. ASSUME pc = "polling", outcomeBuffer[p] = NotRead, toServer'[p][1] = OP_APPROVE_REQ
        PROVE  Len(toServer'[p]) = 1 /\ Answered(p)'
    <3>1. toServer[p] = <<>>
      <4> SUFFICES ASSUME toServer[p] # <<>> PROVE FALSE
        OBVIOUS
      <4>1. Len(toServer[p]) \in Nat \ {0}
        BY <1>3, EmptySeq
      <4>2. toServer'[p][1] = toServer[p][1]
        <5>1. <<half>> \in Seq(Halves) /\ Len(<<half>>) = 1
          BY <1>2
        <5>2. (toServer[p] \o <<half>>)[1] = toServer[p][1]
          BY <1>3, <4>1, <5>1, ConcatProperties
        <5> QED
          BY <1>1, <5>2
      <4> QED
        BY <1>0, <1>1, <1>5, <2>2, <4>2 DEF PlayerInv, Consents
    <3>2. Len(toServer'[p]) = 1
      <4>1. <<>> \o <<half>> = <<half>>
        BY <1>2, ShortSequences, ConcatEmptySeq
      <4> QED
        BY <1>1, <3>1, <4>1
    <3>3. Answered(p)'
      BY <1>1, <1>10, <2>2 DEF Answered
    <3> QED
      BY <3>2, <3>3
  <2> QED
    BY <1>1, <1>10, <2>1, <2>2 DEF Consents
<1> QED
  BY <1>6, <1>11, <1>12, <1>13, <1>14 DEF PlayerInv

\* The reply is read by the thread that waits for it.
LEMMA ReadReply_Player ==
  ASSUME NEW p \in Faithful, StreamInv, ReadReply(p)
  PROVE  PlayerInv(p)'
<1>0. p \in Players /\ TypeOK /\ PlayerInv(p)
  BY DEF Faithful, StreamInv
<1>1. /\ link[p] = "open" /\ window[p] = "waiting" /\ toClient[p] # <<>>
      /\ toClient'[p] = Tail(toClient[p]) /\ link'[p] = link[p] /\ toServer'[p] = toServer[p]
      /\ outcomeBuffer'[p] = outcomeBuffer[p]
      /\ UNCHANGED <<pc, activeTurnIdx>>
      /\ runLater'[p] = runLater[p] /\ has_token_control'[p] = has_token_control[p]
      /\ fetching'[p] = fetching[p] /\ reader'[p] = reader[p]
  BY <1>0 DEF ReadReply, TypeOK, server
<1>2. /\ window'[p] \in {"agreed", "over"}
      /\ window'[p] = "agreed" => Head(toClient[p]) = <<"rematch", OP_APPROVE_REQ>>
  BY <1>0 DEF ReadReply, TypeOK
<1>3. reader[p] = "ended" /\ runLater[p] = <<>> /\ fetching[p] = "no"
  BY <1>0, <1>1 DEF PlayerInv, CallsInv
<1>4. CallsInv(p)'
  BY <1>1, <1>2, <1>3 DEF CallsInv, MoveQueued
<1>5. Script(p)'
  <2>1. Follows(p) /\ Place(p) = "reply"
    BY <1>1, <1>3 DEF Follows, Place
  <2>2. Follows(p)' => \A c \in Places : Reads(p, Place(p), Head(toClient[p]), c) => Place(p)' = c
    <3> SUFFICES ASSUME Follows(p)', NEW c \in Places, Reads(p, "reply", Head(toClient[p]), c)
                 PROVE  Place(p)' = c
      BY <2>1
    <3>1. window'[p] = "agreed"
      BY <1>2 DEF Follows
    <3>2. Place(p)' = "first"
      BY <3>1 DEF Place
    <3>3. Head(toClient[p])[2] = OP_APPROVE_REQ
      BY <1>2, <3>1
    <3> QED
      BY <3>2, <3>3 DEF Reads
  <2> QED
    BY <1>1, <2>1, <2>2, GoesOn
<1>6. LastClick(p)'
  BY <1>1, <1>3 DEF LastClick
<1>7. Speaks(p)' /\ Consents(p)'
  BY <1>1, Silent DEF Answered
<1> QED
  BY <1>4, <1>5, <1>6, <1>7 DEF PlayerInv

\* No reply comes: the match is over for p.
LEMMA ReplyTimesOut_Player ==
  ASSUME NEW p \in Faithful, StreamInv, ReplyTimesOut(p)
  PROVE  PlayerInv(p)'
<1>0. p \in Players /\ TypeOK /\ PlayerInv(p)
  BY DEF Faithful, StreamInv
<1>1. /\ window[p] = "waiting" /\ window'[p] = "over"
      /\ link'[p] = link[p] /\ toServer'[p] = toServer[p]
      /\ outcomeBuffer'[p] = outcomeBuffer[p]
      /\ UNCHANGED <<pc, activeTurnIdx>>
      /\ runLater'[p] = runLater[p] /\ has_token_control'[p] = has_token_control[p]
      /\ fetching'[p] = fetching[p] /\ reader'[p] = reader[p]
  BY <1>0 DEF ReplyTimesOut, TypeOK, server, network
<1>2. reader[p] = "ended" /\ runLater[p] = <<>> /\ fetching[p] = "no"
  BY <1>0, <1>1 DEF PlayerInv, CallsInv
<1>3. CallsInv(p)'
  BY <1>1, <1>2 DEF CallsInv, MoveQueued
<1>4. Script(p)' /\ LastClick(p)'
  BY <1>1, <1>2 DEF Script, Follows, LastClick
<1>5. Speaks(p)' /\ Consents(p)'
  BY <1>1, Silent DEF Answered
<1> QED
  BY <1>3, <1>4, <1>5 DEF PlayerInv

\* The window plays again, and a new reader waits for the turn.
LEMMA PlayAgain_Player ==
  ASSUME NEW p \in Faithful, StreamInv, PlayAgain(p)
  PROVE  PlayerInv(p)'
<1>0. p \in Players /\ TypeOK /\ PlayerInv(p)
  BY DEF Faithful, StreamInv
<1>1. /\ window[p] = "agreed" /\ link[p] = "open"
      /\ toClient'[p] = toClient[p] /\ link'[p] = link[p] /\ toServer'[p] = toServer[p]
      /\ outcomeBuffer'[p] = outcomeBuffer[p]
      /\ UNCHANGED <<pc, activeTurnIdx>>
      /\ runLater'[p] = runLater[p] /\ has_token_control'[p] = FALSE
      /\ fetching'[p] = fetching[p] /\ reader'[p] = "first" /\ window'[p] = "playing"
  BY <1>0 DEF PlayAgain, FxFree, TypeOK, server, network
<1>2. reader[p] = "ended" /\ runLater[p] = <<>> /\ fetching[p] = "no"
  BY <1>0, <1>1 DEF PlayerInv, CallsInv
<1>3. CallsInv(p)'
  BY <1>1, <1>2 DEF CallsInv, MoveQueued
<1>4. Script(p)'
  <2>1. Follows(p) /\ Place(p)' = Place(p)
    BY <1>1, <1>2 DEF Follows, Place
  <2> QED
    BY <1>1, <2>1, StaysPut
<1>5. LastClick(p)'
  BY <1>1 DEF LastClick
<1>6. Speaks(p)' /\ Consents(p)'
  BY <1>1, Silent DEF Answered
<1> QED
  BY <1>3, <1>4, <1>5, <1>6 DEF PlayerInv

\* The program of p stops: nothing more is read, and nothing more said.
LEMMA Quit_Player ==
  ASSUME NEW p \in Faithful, StreamInv, Quit(p)
  PROVE  PlayerInv(p)'
<1>0. p \in Players /\ TypeOK /\ PlayerInv(p)
  BY DEF Faithful, StreamInv
<1>1. link'[p] # "open" /\ UNCHANGED <<pc, outcomeBuffer, client>>
  BY <1>0 DEF Quit, TypeOK, server
<1>2. CallsInv(p)'
  BY <1>1, Told
<1> QED
  BY <1>0, <1>1, <1>2 DEF PlayerInv, Script, Follows, LastClick, Speaks, Consents

\* A step of the program of p.
LEMMA ClientStep_Player ==
  ASSUME NEW p \in Faithful, StreamInv, ReaderStep(p) \/ FxStep(p) \/ Quit(p)
  PROVE  PlayerInv(p)'
<1>1. p \in Players /\ p \notin Pollers /\ fetching[p] = "no"
  BY DEF Faithful, StreamInv, PlayerInv, CallsInv
<1>2. CASE ReaderStep(p)
  BY <1>2, ReadFirstTurn_Player, RenewEngine_Player, ReadOpponentMove_Player,
     ReadStatus_Player, ReaderTimesOut_Player DEF ReaderStep
<1>3. CASE FxStep(p)
  BY <1>1, <1>3, Click_Player, HandleOpponentMove_Player, HandleGameStatus_Player,
     AnswerRematch_Player, ReadReply_Player, ReplyTimesOut_Player, PlayAgain_Player
     DEF FxStep, FetchLedger, FetchReads, SwallowMessage, FetchEnds
<1> QED
  BY <1>2, <1>3, Quit_Player

\* The server works on what the clients cannot touch.
LEMMA ClientsLeaveServer ==
  ASSUME NEW q \in Players, ReaderStep(q) \/ FxStep(q) \/ Quit(q)
  PROVE  UNCHANGED server
  BY DEF ReaderStep, ReadFirstTurn, RenewEngine, ReadOpponentMove, ReadStatus, ReadInt,
         ReaderTimesOut, FxStep, Click, HandleOpponentMove, HandleGameStatus, AnswerRematch,
         ReadReply, ReplyTimesOut, PlayAgain, FetchLedger, FetchReads, SwallowMessage, FetchEnds, Quit

\* What one program keeps, with its connection.
Own(p) == <<link[p], toServer[p], toClient[p], reader[p], runLater[p],
            has_token_control[p], window[p], fetching[p], engine[p], shown[p]>>

\* The FX thread of a program writes what is its own.
LEMMA FxStepLeaves ==
  ASSUME NEW p \in Players, TypeOK, NEW q \in Players \ {p}, FxStep(q)
  PROVE  UNCHANGED Own(p)
<1>0. q \in Players /\ q # p
  OBVIOUS
<1>1. ASSUME NEW cell \in Playable[q], Click(q, cell) PROVE UNCHANGED Own(p)
  BY <1>0, <1>1 DEF Click, Send, Own, network, client, TypeOK
<1>2. CASE HandleOpponentMove(q)
  BY <1>0, <1>2 DEF HandleOpponentMove, Own, network, client, TypeOK
<1>3. CASE HandleGameStatus(q)
  BY <1>0, <1>3 DEF HandleGameStatus, Own, network, client, TypeOK
<1>4. ASSUME NEW yes \in BOOLEAN, AnswerRematch(q, yes) PROVE UNCHANGED Own(p)
  BY <1>0, <1>4 DEF AnswerRematch, Send, Own, network, client, TypeOK
<1>5. CASE ReadReply(q)
  BY <1>0, <1>5 DEF ReadReply, ReadInt, Own, network, client, TypeOK
<1>6. CASE ReplyTimesOut(q)
  BY <1>0, <1>6 DEF ReplyTimesOut, Own, network, client, TypeOK
<1>7. CASE PlayAgain(q)
  BY <1>0, <1>7 DEF PlayAgain, Own, network, client, TypeOK
<1>8. CASE FetchLedger(q)
  BY <1>0, <1>8 DEF FetchLedger, Send, Own, network, client, TypeOK
<1>9. CASE FetchReads(q) \/ SwallowMessage(q) \/ FetchEnds(q)
  BY <1>0, <1>9 DEF FetchReads, SwallowMessage, FetchEnds, ReadInt, Own, network, client, TypeOK
<1> QED
  BY <1>1, <1>2, <1>3, <1>4, <1>5, <1>6, <1>7, <1>8, <1>9 DEF FxStep

\* And its reader.
LEMMA ReaderStepLeaves ==
  ASSUME NEW p \in Players, TypeOK, NEW q \in Players \ {p}, ReaderStep(q)
  PROVE  UNCHANGED Own(p)
<1>0. q \in Players /\ q # p
  OBVIOUS
<1>1. CASE ReadFirstTurn(q)
  BY <1>0, <1>1 DEF ReadFirstTurn, Reading, ReadInt, Own, network, client, TypeOK
<1>2. CASE RenewEngine(q)
  BY <1>0, <1>2 DEF RenewEngine, Reading, ReadInt, Own, network, client, TypeOK
<1>3. CASE ReadOpponentMove(q)
  BY <1>0, <1>3 DEF ReadOpponentMove, Reading, ReadInt, Own, network, client, TypeOK
<1>4. CASE ReadStatus(q)
  BY <1>0, <1>4 DEF ReadStatus, Reading, ReadInt, Own, network, client, TypeOK
<1>5. CASE ReaderTimesOut(q)
  BY <1>0, <1>5 DEF ReaderTimesOut, Reading, ReadInt, Own, network, client, TypeOK
<1> QED
  BY <1>1, <1>2, <1>3, <1>4, <1>5 DEF ReaderStep

\* What the other program does is not seen by p before the server sends it on.
LEMMA OtherStepLeaves ==
  ASSUME NEW p \in Players, TypeOK, NEW q \in Players \ {p},
         ReaderStep(q) \/ FxStep(q) \/ Quit(q)
  PROVE  UNCHANGED server /\ UNCHANGED View(p) /\ shown'[p] = shown[p]
<1>0. q \in Players /\ q # p
  OBVIOUS
<1>1. UNCHANGED server
  BY <1>0, ClientsLeaveServer
<1>2. UNCHANGED <<link[p], toServer[p], toClient[p]>>
  <2>1. CASE ReaderStep(q)
    BY <2>1, ReaderStepLeaves DEF Own
  <2>2. CASE FxStep(q)
    BY <2>2, FxStepLeaves DEF Own
  <2>3. CASE Quit(q)
    BY <1>0, <2>3 DEF Quit, Send, network, TypeOK
  <2> QED
    BY <2>1, <2>2, <2>3
<1>3. UNCHANGED <<reader[p], runLater[p], has_token_control[p], window[p], fetching[p]>>
  <2>1. CASE ReaderStep(q)
    BY <2>1, ReaderStepLeaves DEF Own
  <2>2. CASE FxStep(q)
    BY <2>2, FxStepLeaves DEF Own
  <2>3. CASE Quit(q)
    BY <1>0, <2>3 DEF Quit, client, TypeOK
  <2> QED
    BY <2>1, <2>2, <2>3
<1>4. UNCHANGED View(p)
  BY <1>1, <1>2, <1>3 DEF View, server
<1>5. shown'[p] = shown[p]
  <2>1. CASE ReaderStep(q)
    BY <2>1, ReaderStepLeaves DEF Own
  <2>2. CASE FxStep(q)
    BY <2>2, FxStepLeaves DEF Own
  <2>3. CASE Quit(q)
    BY <1>0, <2>3 DEF Quit, client, TypeOK
  <2> QED
    BY <2>1, <2>2, <2>3
<1> QED
  BY <1>1, <1>4, <1>5

\* A step of the other program.
LEMMA OtherStep_Player ==
  ASSUME NEW p \in Faithful, StreamInv, NEW q \in Players \ {p},
         ReaderStep(q) \/ FxStep(q) \/ Quit(q)
  PROVE  PlayerInv(p)'
<1>0. p \in Players /\ TypeOK /\ PlayerInv(p)
  BY DEF Faithful, StreamInv
<1>1. UNCHANGED server /\ UNCHANGED View(p)
  BY <1>0, OtherStepLeaves
<1> QED
  BY <1>0, <1>1, Bystander DEF server

-----------------------------------------------------------------------------
(* The invariant, and what it is for. *)

LEMMA Init_StreamInv == Init => StreamInv
<1> SUFFICES ASSUME Init, NEW p \in Faithful PROVE PlayerInv(p)
  BY Init_TypeOK DEF StreamInv
<1>1. /\ pc = "start" /\ p \in Players /\ outcomeBuffer[p] = NotRead
      /\ toServer[p] = <<>> /\ toClient[p] = <<>> /\ reader[p] = "first" /\ runLater[p] = <<>>
      /\ has_token_control[p] = FALSE /\ window[p] = "playing" /\ fetching[p] = "no"
  BY DEF Init, Faithful
<1>2. CallsInv(p)
  BY <1>1 DEF CallsInv, MoveQueued
<1>3. Script(p)
  <2>1. Place(p) = "first" /\ "first" \in Places
    BY <1>1 DEF Place, Places
  <2>2. Path(p, "first", toClient[p], "first")
    BY <1>1, <2>1, NoPath
  <2>3. Expects(p, "first")
    BY <1>1 DEF Expects
  <2> QED
    BY <2>1, <2>2, <2>3 DEF Script
<1>4. LastClick(p) /\ Speaks(p) /\ Consents(p)
  BY <1>1 DEF LastClick, Speaks, Consents
<1> QED
  BY <1>2, <1>3, <1>4 DEF PlayerInv

LEMMA Next_StreamInv == StreamInv /\ [Next]_vars => StreamInv'
<1> SUFFICES ASSUME StreamInv, [Next]_vars PROVE StreamInv'
  OBVIOUS
<1>1. TypeOK'
  BY Next_TypeOK DEF StreamInv
<1>2. ASSUME NEW p \in Faithful PROVE PlayerInv(p)'
  <2>0. p \in Players /\ PlayerInv(p)
    BY DEF Faithful, StreamInv
  <2>1. CASE ServerStep
    BY <2>1, ServerStep_Player
  <2>2. CASE \E q \in Players : ReaderStep(q) \/ FxStep(q) \/ Quit(q)
    <3>1. PICK q \in Players : ReaderStep(q) \/ FxStep(q) \/ Quit(q)
      BY <2>2
    <3>2. CASE q = p
      BY <3>1, <3>2, ClientStep_Player
    <3>3. CASE q # p
      BY <3>1, <3>3, OtherStep_Player
    <3> QED
      BY <3>2, <3>3
  <2>3. CASE UNCHANGED vars
    <3>1. UNCHANGED <<pc, activeTurnIdx>> /\ UNCHANGED View(p)
      BY <2>3 DEF vars, server, network, client, View
    <3> QED
      BY <2>0, <3>1, Bystander
  <2> QED
    BY <2>1, <2>2, <2>3 DEF Next, Terminated
<1> QED
  BY <1>1, <1>2 DEF StreamInv

LEMMA StreamsInductive == Spec => []StreamInv
<1> QED
  BY Init_StreamInv, Next_StreamInv, PTL DEF Spec

\* Neither reader of a client ever takes one message for another: startReader
\* and rivincita stay in step with the sends of execute_core_loop and
\* invoke_rematch, over any number of rounds and whatever stops or times out.
THEOREM StreamAlwaysInStep == Spec => []StreamInStep
<1>1. StreamInv => StreamInStep
  <2> SUFFICES ASSUME StreamInv, NEW p \in Faithful, link[p] = "open", toClient[p] # <<>>
               PROVE  LET kind == Head(toClient[p])[1]
                      IN /\ reader[p] = "first" /\ window[p] = "playing" => kind = "turn"
                         /\ reader[p] = "oppMove" => kind = "cell"
                         /\ reader[p] \in {"ownStatus", "oppStatus"} => kind = "status"
                         /\ window[p] = "waiting" => kind = "rematch"
    BY DEF StreamInStep
  <2>0. p \in Players /\ TypeOK /\ PlayerInv(p)
    BY DEF Faithful, StreamInv
  <2>1. /\ window[p] # "playing" => reader[p] = "ended"
        /\ window[p] \in {"playing", "asking", "waiting", "agreed", "over"}
    BY <2>0, PlayerType DEF PlayerInv, CallsInv
  <2>2. SUFFICES ASSUME window[p] = "waiting" \/
                        reader[p] \in {"first", "oppMove", "ownStatus", "oppStatus"}
                 PROVE  LET kind == Head(toClient[p])[1]
                        IN /\ reader[p] = "first" /\ window[p] = "playing" => kind = "turn"
                           /\ reader[p] = "oppMove" => kind = "cell"
                           /\ reader[p] \in {"ownStatus", "oppStatus"} => kind = "status"
                           /\ window[p] = "waiting" => kind = "rematch"
    OBVIOUS
  <2>3. Follows(p)
    BY <2>1, <2>2 DEF Follows
  <2>4. PICK c \in Places : Reads(p, Place(p), Head(toClient[p]), c)
    BY <2>3, HeadIsExpected
  <2> QED
    BY <2>1, <2>2, <2>4 DEF Reads, Place
<1> QED
  BY <1>1, StreamsInductive, PTL

\* A player who may click is the one the server waits for: the token the two
\* threads of a client keep (onFirstTurn, onOpponentMove, dispatchDelta) agrees
\* with activeTurnIdx of execute_core_loop.
THEOREM TurnsAlwaysAgree == Spec => []TurnsAgree
<1>1. StreamInv => TurnsAgree
  BY ClickersAreAwaited DEF TurnsAgree
<1> QED
  BY <1>1, StreamsInductive, PTL

-----------------------------------------------------------------------------
(***************************************************************************)
(* Proofs about the boards of CoreMatch: what the server's grid has to do  *)
(* with what the players see, and that a match neither of whose lobbies    *)
(* polls is one of Referee.                                                *)
(***************************************************************************)

\* The turn of a round p has not begun yet is on its way.
TurnAhead(p) == "turn" \in Kinds(p)

\* What is heard of p while its verdict is polled: a click the round had no
\* time for, then the verdict, and no more until the reply.
Heard(p) ==
  pc = "polling" /\ outcomeBuffer[p] = NotRead /\ link[p] = "open" /\ toServer[p] # <<>> =>
    /\ window[p] = "playing" => ~ Armed(p)
    /\ window[p] \in {"playing", "asking"} => Len(toServer[p]) = 2
    /\ window[p] = "waiting" => toClient[p] = <<>>
    /\ window[p] # "agreed"
    /\ reader[p] \in {"oppStatus", "ended"}
    /\ reader[p] = "oppStatus" => toClient[p] # <<>> /\ Head(toClient[p])[2] # Undecided

\* Who has not read its turn has said nothing.
Mute(p) == pc \in {"await", "polling"} /\ TurnAhead(p) => toServer[p] = <<>>

\* A user whose reader has given up can have missed nothing.
LastWord(p) ==
  link[p] = "open" /\ reader[p] = "broken" /\ Armed(p) =>
    toClient[p] = <<>> /\ pc # "polling"

\* What a player that has gone may have left.
LeftBehind(p) ==
  link[p] # "open" /\ pc = "polling" =>
    /\ outcomeBuffer[p] = OP_APPROVE_REQ => toServer[p] = <<>>
    /\ outcomeBuffer[p] = NotRead /\ toServer[p] # <<>> /\ toServer[p][1] = OP_APPROVE_REQ =>
         Len(toServer[p]) = 1

\* A move that waits for the server is one it can take.
Spoken(p) ==
  /\ pc = "start" => toServer[p] = <<>>
  /\ pc = "await" /\ toServer[p] # <<>> =>
       /\ activeTurnIdx = p
       /\ Len(toServer[p]) = 2
       /\ toServer[p][1] = 0
       /\ toServer[p][2] \in Positions
       /\ grid[toServer[p][2]] = 0
       /\ link[p] = "open" => shown[p][toServer[p][2]] = p /\ toServer[p][2] \notin Unseen(p)

\* In a round p has not begun yet there are at most marks of the other.
Fresh(p) ==
  /\ reader[p] = "first" /\ window[p] = "playing" => shown[p] = wipe_topological_grid
  /\ Follows(p) /\ TurnAhead(p) =>
       \A cell \in Positions :
         grid[cell] = IF cell \in Unseen(p) THEN dispatch_active_node(p) ELSE 0

Views(p) ==
  InRound(p) =>
    \A cell \in Positions :
      grid[cell] = IF cell \in Unseen(p) THEN dispatch_active_node(p)
                   ELSE IF cell \in Unheard(p) /\ shown[p][cell] = p THEN 0
                   ELSE shown[p][cell]

BoardInv(p) == Heard(p) /\ Mute(p) /\ LastWord(p) /\ LeftBehind(p) /\ Spoken(p) /\ Fresh(p) /\ Views(p)

BlankAtStart == pc = "start" => grid = wipe_topological_grid

BoardsInv == StreamInv /\ BlankAtStart /\ \A p \in Faithful : BoardInv(p)

\* The kinds of a sequence of messages or calls, and the values of one kind.
KindsOf(s) == {s[i][1] : i \in DOMAIN s}
Picked(s, kind) == {s[i][2] : i \in {j \in DOMAIN s : s[j][1] = kind}}

-----------------------------------------------------------------------------
(* What is in a sequence. *)

LEMMA InSequence ==
  ASSUME NEW S, NEW s \in Seq(S), NEW kind
  PROVE  /\ \A x : x \in KindsOf(s) <=> \E i \in 1 .. Len(s) : s[i][1] = x
         /\ \A x : x \in Picked(s, kind) <=> \E i \in 1 .. Len(s) : s[i][1] = kind /\ s[i][2] = x
<1>1. DOMAIN s = 1 .. Len(s)
  OBVIOUS
<1> QED
  BY <1>1 DEF KindsOf, Picked

LEMMA InEmpty ==
  ASSUME NEW kind PROVE KindsOf(<<>>) = {} /\ Picked(<<>>, kind) = {}
<1>1. DOMAIN <<>> = {}
  OBVIOUS
<1> QED
  BY <1>1 DEF KindsOf, Picked

LEMMA NoneOfKind ==
  ASSUME NEW S, NEW s \in Seq(S), NEW kind, kind \notin KindsOf(s)
  PROVE  Picked(s, kind) = {}
<1>1. \A x : x \notin Picked(s, kind)
  BY InSequence
<1> QED
  BY <1>1

\* The first, and what comes after it.
LEMMA InTail ==
  ASSUME NEW S, NEW s \in Seq(S), s # <<>>, NEW kind
  PROVE  /\ KindsOf(s) = {Head(s)[1]} \cup KindsOf(Tail(s))
         /\ Head(s)[1] = kind => Picked(s, kind) = {Head(s)[2]} \cup Picked(Tail(s), kind)
         /\ Head(s)[1] # kind => Picked(s, kind) = Picked(Tail(s), kind)
<1> DEFINE rest == Tail(s)
<1>1. /\ Len(s) \in Nat \ {0} /\ rest \in Seq(S) /\ Len(rest) = Len(s) - 1
      /\ \A i \in 1 .. Len(s) - 1 : rest[i] = s[i+1]
      /\ Head(s) = s[1]
  BY HeadTailProperties
<1> HIDE DEF rest
<1>2. \A x : x \in KindsOf(s) <=> x = s[1][1] \/ x \in KindsOf(rest)
  <2> SUFFICES ASSUME NEW x PROVE x \in KindsOf(s) <=> x = s[1][1] \/ x \in KindsOf(rest)
    OBVIOUS
  <2>1. ASSUME NEW i \in 1 .. Len(s), s[i][1] = x PROVE x = s[1][1] \/ x \in KindsOf(rest)
    <3>1. CASE i = 1
      BY <2>1, <3>1
    <3>2. CASE i # 1
      <4>1. i - 1 \in 1 .. Len(rest) /\ rest[i-1] = s[i]
        BY <1>1, <3>2
      <4> QED
        BY <1>1, <2>1, <4>1, InSequence
    <3> QED
      BY <3>1, <3>2
  <2>2. ASSUME NEW i \in 1 .. Len(rest), rest[i][1] = x PROVE x \in KindsOf(s)
    <3>1. i + 1 \in 1 .. Len(s) /\ rest[i] = s[i+1]
      BY <1>1
    <3> QED
      BY <2>2, <3>1, InSequence
  <2>3. x = s[1][1] => x \in KindsOf(s)
    <3>1. 1 \in 1 .. Len(s)
      BY <1>1
    <3> QED
      BY <3>1, InSequence
  <2> QED
    BY <1>1, <2>1, <2>2, <2>3, InSequence
<1>3. \A x : x \in Picked(s, kind) <=> (s[1][1] = kind /\ x = s[1][2]) \/ x \in Picked(rest, kind)
  <2> SUFFICES ASSUME NEW x
               PROVE  x \in Picked(s, kind) <=> (s[1][1] = kind /\ x = s[1][2]) \/ x \in Picked(rest, kind)
    OBVIOUS
  <2>1. ASSUME NEW i \in 1 .. Len(s), s[i][1] = kind, s[i][2] = x
        PROVE  (s[1][1] = kind /\ x = s[1][2]) \/ x \in Picked(rest, kind)
    <3>1. CASE i = 1
      BY <2>1, <3>1
    <3>2. CASE i # 1
      <4>1. i - 1 \in 1 .. Len(rest) /\ rest[i-1] = s[i]
        BY <1>1, <3>2
      <4> QED
        BY <1>1, <2>1, <4>1, InSequence
    <3> QED
      BY <3>1, <3>2
  <2>2. ASSUME NEW i \in 1 .. Len(rest), rest[i][1] = kind, rest[i][2] = x PROVE x \in Picked(s, kind)
    <3>1. i + 1 \in 1 .. Len(s) /\ rest[i] = s[i+1]
      BY <1>1
    <3> QED
      BY <2>2, <3>1, InSequence
  <2>3. s[1][1] = kind /\ x = s[1][2] => x \in Picked(s, kind)
    <3>1. 1 \in 1 .. Len(s)
      BY <1>1
    <3> QED
      BY <3>1, InSequence
  <2> QED
    BY <1>1, <2>1, <2>2, <2>3, InSequence
<1>4. KindsOf(s) = {Head(s)[1]} \cup KindsOf(rest)
  BY <1>1, <1>2
<1>5. Head(s)[1] = kind => Picked(s, kind) = {Head(s)[2]} \cup Picked(rest, kind)
  BY <1>1, <1>3
<1>6. Head(s)[1] # kind => Picked(s, kind) = Picked(rest, kind)
  BY <1>1, <1>3
<1> QED
  BY <1>4, <1>5, <1>6 DEF rest

\* One more at the end.
LEMMA InLonger ==
  ASSUME NEW S, NEW s \in Seq(S), NEW m \in S, NEW kind
  PROVE  /\ KindsOf(s \o <<m>>) = KindsOf(s) \cup {m[1]}
         /\ m[1] = kind => Picked(s \o <<m>>, kind) = Picked(s, kind) \cup {m[2]}
         /\ m[1] # kind => Picked(s \o <<m>>, kind) = Picked(s, kind)
<1> DEFINE more == s \o <<m>>
<1>1. /\ Len(s) \in Nat /\ more \in Seq(S) /\ Len(more) = Len(s) + 1
      /\ \A i \in 1 .. Len(s) : more[i] = s[i]
      /\ more[Len(s) + 1] = m
  <2>1. <<m>> \in Seq(S) /\ Len(<<m>>) = 1 /\ <<m>>[1] = m
    OBVIOUS
  <2> QED
    BY <2>1, ConcatProperties
<1> HIDE DEF more
<1>2. \A i : i \in 1 .. Len(more) <=> i \in 1 .. Len(s) \/ i = Len(s) + 1
  BY <1>1
<1>3. \A x : x \in KindsOf(more) <=> x \in KindsOf(s) \/ x = m[1]
  <2>1. \A x : x \in KindsOf(more) <=> \E i \in 1 .. Len(more) : more[i][1] = x
    BY <1>1, InSequence
  <2>2. \A x : x \in KindsOf(s) <=> \E i \in 1 .. Len(s) : s[i][1] = x
    BY InSequence
  <2> QED
    BY <1>1, <1>2, <2>1, <2>2
<1>4. \A x : x \in Picked(more, kind) <=> x \in Picked(s, kind) \/ (m[1] = kind /\ x = m[2])
  <2>1. \A x : x \in Picked(more, kind) <=>
                 \E i \in 1 .. Len(more) : more[i][1] = kind /\ more[i][2] = x
    BY <1>1, InSequence
  <2>2. \A x : x \in Picked(s, kind) <=> \E i \in 1 .. Len(s) : s[i][1] = kind /\ s[i][2] = x
    BY InSequence
  <2> QED
    BY <1>1, <1>2, <2>1, <2>2
<1>5. KindsOf(more) = KindsOf(s) \cup {m[1]}
  BY <1>3
<1>6. m[1] = kind => Picked(more, kind) = Picked(s, kind) \cup {m[2]}
  BY <1>4
<1>7. m[1] # kind => Picked(more, kind) = Picked(s, kind)
  BY <1>4
<1> QED
  BY <1>5, <1>6, <1>7 DEF more

LEMMA UnseenIs ==
  ASSUME NEW p
  PROVE  /\ Unseen(p) = Picked(toClient[p], "cell") \cup Picked(runLater[p], "onOpponentMove")
         /\ Kinds(p) = KindsOf(toClient[p])
  BY DEF Unseen, Picked, Kinds, KindsOf

\* From these places the round goes on to its end without a move of the other.
LEMMA NoTurnAhead ==
  ASSUME NEW p, NEW s \in Seq(Messages), NEW b \in Places,
         NEW a \in {"due", "oppStatus", "ended", "over"}, Path(p, a, s, b)
  PROVE  KindsOf(s) \subseteq {"status", "rematch"}
<1>0. a \in Places
  BY DEF Places
<1>1. ASSUME NEW t \in Seq(Messages), Path(p, "over", t, b) \/ Path(p, "due", t, b)
      PROVE  KindsOf(t) \subseteq {"status", "rematch"}
  BY <1>1, DeadEnds, InEmpty
<1>2. ASSUME NEW t \in Seq(Messages), Path(p, "ended", t, b)
      PROVE  KindsOf(t) \subseteq {"status", "rematch"}
  <2>0. "ended" \in Places
    BY DEF Places
  <2>1. CASE t = <<>>
    BY <2>1, InEmpty
  <2>2. CASE t # <<>>
    <3>1. PICK c \in Places : Reads(p, "ended", Head(t), c) /\ Path(p, c, Tail(t), b)
      BY <1>2, <2>0, <2>2, ShorterPath
    <3>2. c = "over" /\ Head(t)[1] = "rematch" /\ Tail(t) \in Seq(Messages)
      BY <2>2, <3>1, HeadTailProperties DEF Reads
    <3>3. KindsOf(Tail(t)) \subseteq {"status", "rematch"}
      BY <1>1, <3>1, <3>2
    <3> QED
      BY <2>2, <3>2, <3>3, InTail
  <2> QED
    BY <2>1, <2>2
<1>3. CASE a = "oppStatus"
  <2>1. CASE s = <<>>
    BY <2>1, InEmpty
  <2>2. CASE s # <<>>
    <3>1. PICK c \in Places : Reads(p, "oppStatus", Head(s), c) /\ Path(p, c, Tail(s), b)
      BY <1>0, <1>3, <2>2, ShorterPath
    <3>2. c \in {"due", "ended"} /\ Head(s)[1] = "status" /\ Tail(s) \in Seq(Messages)
      BY <2>2, <3>1, HeadTailProperties DEF Reads
    <3>3. KindsOf(Tail(s)) \subseteq {"status", "rematch"}
      BY <1>1, <1>2, <3>1, <3>2
    <3> QED
      BY <2>2, <3>2, <3>3, InTail
  <2> QED
    BY <2>1, <2>2
<1> QED
  BY <1>1, <1>2, <1>3

\* A place to wait for the turn at is reached from the reply alone.
LEMMA ToFirst ==
  ASSUME NEW p, NEW s \in Seq(Messages), NEW a \in Places, Path(p, a, s, "first")
  PROVE  /\ a \in {"first", "reply"}
         /\ s = <<>> \/ Tail(s) = <<>>
         /\ s # <<>> => Head(s)[1] = "rematch"
<1>0. "first" \in Places
  BY DEF Places
<1>1. CASE s = <<>>
  BY <1>0, <1>1, NoPath
<1>2. CASE s # <<>>
  <2>1. Len(s) \in Nat \ {0} /\ Len(Tail(s)) = Len(s) - 1 /\ Head(s) = s[1] /\ Tail(s) \in Seq(Messages)
    BY <1>2, HeadTailProperties
  <2>2. PICK place \in [0 .. Len(s) -> Places] :
          /\ place[0] = a
          /\ place[Len(s)] = "first"
          /\ \A i \in 1 .. Len(s) : Reads(p, place[i-1], s[i], place[i])
    BY DEF Path
  <2>3. Reads(p, place[Len(s)-1], s[Len(s)], place[Len(s)])
    BY <2>1, <2>2
  <2>4. place[Len(s)-1] = "reply" /\ s[Len(s)][1] = "rematch"
    BY <2>2, <2>3 DEF Reads
  <2>5. Len(s) = 1
    <3> SUFFICES ASSUME Len(s) # 1 PROVE FALSE
      OBVIOUS
    <3>1. Len(s) - 1 \in 1 .. Len(s)
      BY <2>1
    <3>2. Reads(p, place[(Len(s)-1)-1], s[Len(s)-1], place[Len(s)-1])
      BY <2>2, <3>1
    <3> QED
      BY <2>4, <3>2 DEF Reads
  <2>6. a = "reply"
    BY <2>2, <2>4, <2>5
  <2>7. Tail(s) = <<>>
    <3>1. Len(Tail(s)) = 0
      BY <2>1, <2>5
    <3> QED
      BY <2>1, <3>1, EmptySeq
  <2>8. Head(s)[1] = "rematch"
    BY <2>1, <2>4, <2>5
  <2> QED
    BY <2>6, <2>7, <2>8
<1> QED
  BY <1>1, <1>2

-----------------------------------------------------------------------------
(* What the invariant tells of a player. *)

LEMMA PlayerBoard ==
  ASSUME NEW p \in Faithful, BoardsInv
  PROVE  p \in Players /\ TypeOK /\ StreamInv /\ PlayerInv(p) /\ BoardInv(p)
  BY DEF Faithful, BoardsInv, StreamInv

\* A player who may click, or will once the move of the other is shown, does
\* so in the round it has begun.
LEMMA ArmedIsInRound ==
  ASSUME NEW p \in Faithful, BoardsInv, link[p] = "open", window[p] = "playing", Armed(p)
  PROVE  KindsOf(toClient[p]) \subseteq {"status", "rematch"}
<1>0. p \in Players /\ TypeOK /\ StreamInv /\ PlayerInv(p) /\ BoardInv(p)
  BY PlayerBoard
<1>1. CASE reader[p] = "broken"
  <2>1. toClient[p] = <<>>
    BY <1>0, <1>1 DEF BoardInv, LastWord
  <2> QED
    BY <2>1, InEmpty
<1>2. CASE reader[p] # "broken"
  <2>1. Place(p) \in {"due", "oppStatus", "ended"}
    BY <1>0, <1>2, PlayerType DEF Place, PlayerInv, CallsInv, Armed, MoveQueued
  <2>2. PICK b \in Places : Path(p, Place(p), toClient[p], b)
    BY <1>0, <1>2, PlayerScript DEF Follows
  <2>3. toClient[p] \in Seq(Messages)
    BY <1>0, PlayerType
  <2> QED
    BY <2>1, <2>2, <2>3, NoTurnAhead
<1> QED
  BY <1>1, <1>2

\* And one who may click has seen every move of it.
LEMMA ClickersSeeAll ==
  ASSUME NEW p \in Faithful, BoardsInv, MayMove(p)
  PROVE  Unseen(p) = {} /\ ~ TurnAhead(p)
<1>0. p \in Players /\ TypeOK /\ StreamInv /\ PlayerInv(p) /\ BoardInv(p)
  BY PlayerBoard
<1>1. link[p] = "open" /\ window[p] = "playing" /\ has_token_control[p] /\ Armed(p)
  BY DEF MayMove, Armed
<1>2. toClient[p] \in Seq(Messages) /\ runLater[p] \in Seq(Calls)
  BY <1>0, PlayerType
<1>3. KindsOf(toClient[p]) \subseteq {"status", "rematch"}
  BY <1>1, ArmedIsInRound
<1>4. Picked(toClient[p], "cell") = {} /\ ~ TurnAhead(p)
  BY <1>2, <1>3, NoneOfKind, UnseenIs DEF TurnAhead
<1>5. ~ MoveQueued(p)
  BY <1>0, <1>1 DEF PlayerInv, CallsInv
<1>6. Picked(runLater[p], "onOpponentMove") = {}
  <2>1. CASE runLater[p] = <<>>
    BY <2>1, InEmpty
  <2>2. CASE runLater[p] # <<>>
    <3>1. Len(runLater[p]) = 1
      BY <1>0, <1>1, <1>5, <2>2, PlayerType DEF PlayerInv, CallsInv
    <3>2. Tail(runLater[p]) = <<>>
      BY <1>2, <3>1, CallsLeft
    <3>3. Head(runLater[p])[1] # "onOpponentMove"
      BY <1>5, <2>2 DEF MoveQueued
    <3>4. Picked(runLater[p], "onOpponentMove") = Picked(Tail(runLater[p]), "onOpponentMove")
      BY <1>2, <2>2, <3>3, InTail
    <3> QED
      BY <3>2, <3>4, InEmpty
  <2> QED
    BY <2>1, <2>2
<1> QED
  BY <1>4, <1>6, UnseenIs

-----------------------------------------------------------------------------
(* Steps of others, and steps that show nothing. *)

\* What neither the server nor p does leaves p what it sees and is to see.
LEMMA BoardBystander ==
  ASSUME NEW p \in Faithful, BoardInv(p), UNCHANGED <<pc, activeTurnIdx, grid>>,
         UNCHANGED View(p), shown'[p] = shown[p]
  PROVE  BoardInv(p)'
<1>1. UNCHANGED <<link[p], toServer[p], toClient[p], reader[p], runLater[p],
                  has_token_control[p], window[p], fetching[p], outcomeBuffer[p]>>
  BY DEF View
<1>2. Armed(p)' = Armed(p) /\ Follows(p)' = Follows(p)
  BY <1>1 DEF MoveQueued, Armed, Follows
<1>3. Kinds(p)' = Kinds(p) /\ Unseen(p)' = Unseen(p) /\ Unheard(p)' = Unheard(p)
  BY <1>1 DEF Kinds, Unseen, Unheard
<1>4. TurnAhead(p)' = TurnAhead(p) /\ InRound(p)' = InRound(p)
  BY <1>1, <1>3 DEF TurnAhead, InRound
<1>5. Heard(p)' /\ LastWord(p)' /\ LeftBehind(p)'
  BY <1>1, <1>2 DEF BoardInv, Heard, LastWord, LeftBehind
<1>6. Mute(p)' /\ Spoken(p)'
  BY <1>1, <1>3, <1>4 DEF BoardInv, Mute, Spoken
<1>7. Fresh(p)' /\ Views(p)'
  BY <1>1, <1>2, <1>3, <1>4 DEF BoardInv, Fresh, Views
<1> QED
  BY <1>5, <1>6, <1>7 DEF BoardInv

\* A step of the program of p that says nothing and shows nothing.
LEMMA NothingShown ==
  ASSUME NEW p \in Faithful, BoardsInv, UNCHANGED <<pc, activeTurnIdx, grid>>,
         link'[p] = link[p], toServer'[p] = toServer[p], shown'[p] = shown[p],
         outcomeBuffer'[p] = outcomeBuffer[p],
         Unseen(p)' = Unseen(p), TurnAhead(p)' = TurnAhead(p),
         Follows(p)' => Follows(p),
         reader'[p] = "first" /\ window'[p] = "playing" => reader[p] = "first" /\ window[p] = "playing"
  PROVE  Mute(p)' /\ LeftBehind(p)' /\ Spoken(p)' /\ Fresh(p)' /\ Views(p)'
<1>0. BoardInv(p)
  BY PlayerBoard
<1>1. Unheard(p)' = Unheard(p)
  BY DEF Unheard
<1>2. InRound(p)' = InRound(p)
  BY DEF InRound, TurnAhead
<1>3. Mute(p)' /\ LeftBehind(p)'
  BY <1>0 DEF BoardInv, Mute, LeftBehind
<1>4. Spoken(p)'
  BY <1>0 DEF BoardInv, Spoken
<1>5. Fresh(p)'
  BY <1>0 DEF BoardInv, Fresh
<1>6. Views(p)'
  BY <1>0, <1>1, <1>2 DEF BoardInv, Views
<1> QED
  BY <1>3, <1>4, <1>5, <1>6

-----------------------------------------------------------------------------
(* The server thread. *)

\* The round begins on an empty board, and every player has a turn to read.
LEMMA StartRound_Board ==
  ASSUME NEW p \in Faithful, BoardsInv, StartRound
  PROVE  BoardInv(p)'
<1> DEFINE turn == <<"turn", activeTurnIdx'>>
           sent == [q \in Players |-> <<turn>>]
<1>0. p \in Players /\ TypeOK /\ StreamInv /\ PlayerInv(p) /\ BoardInv(p)
  BY PlayerBoard
<1>1. /\ pc = "start" /\ activeTurnIdx' \in Players /\ SendAll(sent, "await")
      /\ UNCHANGED <<grid, outcomeBuffer, toServer, client>>
  BY DEF StartRound
<1>2. turn \in Messages /\ turn[1] = "turn"
  BY <1>1, MessageTypes
<1>3. sent[p] = <<turn>>
  BY <1>0
<1> HIDE DEF sent, turn
<1>4. /\ pc' \in {"await", "killed"}
      /\ link'[p] = "open" => link[p] = "open" /\ toClient'[p] = toClient[p] \o <<turn>>
  <2>1. pc' \in {"await", "killed"}
    BY <1>1 DEF SendAll
  <2>2. link'[p] = "open" => link[p] = "open" /\ toClient'[p] = toClient[p] \o <<turn>>
    BY <1>0, <1>1, <1>3, SentTo
  <2> QED
    BY <2>1, <2>2
<1>5. toServer'[p] = <<>> /\ toServer[p] = <<>>
  BY <1>0, <1>1 DEF BoardInv, Spoken
<1>6. UNCHANGED <<reader[p], runLater[p], has_token_control[p], window[p], shown[p]>>
      /\ Armed(p)' = Armed(p)
  BY <1>0, <1>1, Told DEF client
<1>7. toClient[p] \in Seq(Messages)
  BY <1>0, PlayerType
<1>8. link'[p] = "open" => TurnAhead(p)'
  BY <1>2, <1>4, <1>7, InLonger, UnseenIs DEF TurnAhead, Kinds, KindsOf
<1>9. Heard(p)' /\ Mute(p)' /\ LeftBehind(p)' /\ Spoken(p)'
  BY <1>4, <1>5 DEF Heard, Mute, LeftBehind, Spoken
<1>10. LastWord(p)'
  BY <1>0, <1>1, <1>4, <1>6 DEF PlayerInv, LastClick, LastWord
<1>11. Views(p)'
  BY <1>8 DEF Views, InRound, TurnAhead
<1>12. Fresh(p)'
  <2>1. reader'[p] = "first" /\ window'[p] = "playing" => shown'[p] = wipe_topological_grid
    BY <1>0, <1>6 DEF BoardInv, Fresh
  <2>2. ASSUME Follows(p)' PROVE Unseen(p)' = {}
    <3>1. link'[p] = "open" /\ Follows(p)
      BY <1>4, <1>6, <2>2 DEF Follows
    <3>2. Path(p, Place(p), toClient[p], "first")
      BY <1>0, <1>1, <3>1, PlayerScript DEF Expects
    <3>3. Place(p) \in {"first", "reply"} /\ (toClient[p] = <<>> \/ Tail(toClient[p]) = <<>>)
          /\ (toClient[p] # <<>> => Head(toClient[p])[1] = "rematch")
      BY <1>7, <3>2, PlaceType, ToFirst
    <3>4. Picked(toClient[p], "cell") = {}
      BY <1>7, <3>3, InTail, InEmpty
    <3>5. runLater[p] = <<>>
      BY <1>0, <3>3, PlayerType DEF Place, PlayerInv, CallsInv
    <3>6. Picked(toClient'[p], "cell") = {}
      <4>1. Picked(toClient[p] \o <<turn>>, "cell") = Picked(toClient[p], "cell")
        BY <1>2, <1>7, InLonger
      <4> QED
        BY <1>4, <3>1, <3>4, <4>1
    <3>7. Picked(runLater'[p], "onOpponentMove") = {}
      BY <1>6, <3>5, InEmpty
    <3> QED
      BY <3>6, <3>7 DEF Unseen, Picked
  <2>3. grid' = wipe_topological_grid
    BY <1>1 DEF BoardsInv, BlankAtStart
  <2> QED
    BY <2>1, <2>2, <2>3 DEF Fresh, wipe_topological_grid
<1> QED
  BY <1>9, <1>10, <1>11, <1>12 DEF BoardInv

\* What the messages of a move add to those to come.
MoveIsHeard(s, heard, p, next, cell) ==
  /\ "turn" \in KindsOf(heard) <=> "turn" \in KindsOf(s)
  /\ p = next => Picked(heard, "cell") = Picked(s, "cell") \cup {cell}
  /\ p # next => Picked(heard, "cell") = Picked(s, "cell")

LEMMA MoveMessagesAre ==
  ASSUME NEW s \in Seq(Messages), NEW cell \in Positions,
         NEW status \in Players \cup {Undecided, Draw}, NEW p, NEW next
  PROVE  MoveIsHeard(s, s \o MoveMessages(p, next, cell, status), p, next, cell)
<1> DEFINE m == <<"status", status>>
           n == <<"cell", cell>>
<1>1. m \in Messages /\ n \in Messages /\ m[1] = "status" /\ n[1] = "cell" /\ n[2] = cell
  BY MessageTypes
<1>2. MoveMessages(p, next, cell, status) = IF p = next THEN <<n, m>> ELSE <<m>>
  BY DEF MoveMessages
<1> HIDE DEF m, n
<1>3. CASE p # next
  <2>1. /\ KindsOf(s \o <<m>>) = KindsOf(s) \cup {m[1]}
        /\ Picked(s \o <<m>>, "cell") = Picked(s, "cell")
    BY <1>1, InLonger
  <2> QED
    BY <1>1, <1>2, <1>3, <2>1 DEF MoveIsHeard
<1>4. CASE p = next
  <2> DEFINE t == s \o <<n>>
  <2>1. t \in Seq(Messages)
    BY <1>1, ShortSequences, ConcatProperties
  <2>2. /\ KindsOf(t) = KindsOf(s) \cup {n[1]}
        /\ Picked(t, "cell") = Picked(s, "cell") \cup {n[2]}
    BY <1>1, InLonger
  <2>3. s \o <<n, m>> = t \o <<m>>
    BY <1>1, TwoMessages
  <2> HIDE DEF t
  <2>4. /\ KindsOf(t \o <<m>>) = KindsOf(t) \cup {m[1]}
        /\ Picked(t \o <<m>>, "cell") = Picked(t, "cell")
    BY <1>1, <2>1, InLonger
  <2> QED
    BY <1>1, <1>2, <1>4, <2>2, <2>3, <2>4 DEF MoveIsHeard
<1> QED
  BY <1>3, <1>4

\* The mark of the other is on its way to p before it is on the grid; p's own
\* is on the grid where p has seen it since it clicked.
LEMMA ReceiveMove_Board ==
  ASSUME NEW p \in Faithful, BoardsInv, ReceiveMove
  PROVE  BoardInv(p)'
<1> DEFINE acting == activeTurnIdx
           cell == 65536 * toServer[acting][1] + toServer[acting][2]
           next == dispatch_active_node(acting)
           after == IF core_status' = Undecided THEN "await" ELSE "polling"
           sent == [q \in Players |-> MoveMessages(q, next, cell, core_status')]
<1>0. p \in Players /\ TypeOK /\ StreamInv /\ PlayerInv(p) /\ BoardInv(p) /\ acting \in Players
  BY PlayerBoard DEF ReceiveMove, TypeOK
<1>1. /\ pc = "await" /\ Len(toServer[acting]) > 1
      /\ toServer' = [toServer EXCEPT ![acting] = SubSeq(@, 3, Len(@))]
      /\ UNCHANGED <<outcomeBuffer, client>>
  BY DEF ReceiveMove
<1>2. toServer'[p] = <<>>
  <2>1. toServer[p] = <<>> \/ (acting = p /\ Len(toServer[p]) = 2)
    BY <1>0, <1>1 DEF BoardInv, Spoken
  <2>2. toServer[p] \in Seq(Halves) /\ toServer \in [Players -> Seq(Halves)]
    BY <1>0 DEF TypeOK
  <2>3. CASE acting # p
    BY <1>0, <1>1, <2>1, <2>2, <2>3
  <2>4. CASE acting = p
    <3>1. Len(toServer[p]) = 2
      BY <1>1, <2>1, <2>4
    <3>2. toServer'[p] = SubSeq(toServer[p], 3, 2)
      BY <1>0, <1>1, <2>2, <2>4, <3>1
    <3> QED
      BY <3>2, SubSeqEmpty
  <2> QED
    BY <2>3, <2>4
<1>3. /\ UNCHANGED <<reader[p], runLater[p], has_token_control[p], window[p], shown[p]>>
      /\ Armed(p)' = Armed(p)
  BY <1>0, <1>1, Told DEF client
<1>4. pc' # "start" /\ outcomeBuffer'[p] = NotRead /\ outcomeBuffer[p] = NotRead
  <2>1. outcomeBuffer[p] = NotRead
    BY <1>0, <1>1 DEF PlayerInv, Consents
  <2>2. pc' # "start"
    <3>1. pc' = "killed" \/ SendAll(sent, after)
      BY DEF ReceiveMove
    <3>2. after \in {"await", "polling"}
      OBVIOUS
    <3> HIDE DEF sent, after
    <3> QED
      BY <3>1, <3>2 DEF SendAll
  <2> QED
    BY <1>1, <2>1, <2>2
<1>5. Heard(p)' /\ Mute(p)' /\ LeftBehind(p)' /\ Spoken(p)'
  BY <1>2, <1>4 DEF Heard, Mute, LeftBehind, Spoken, OP_APPROVE_REQ, NotRead
<1>6. link'[p] = "open" => link[p] = "open"
  BY <1>0 DEF ReceiveMove, SendAll, TypeOK
<1>7. LastWord(p)'
  <2> SUFFICES ASSUME link'[p] = "open", reader'[p] = "broken", Armed(p)' PROVE FALSE
    BY DEF LastWord
  <2>1. acting = p /\ toServer[p] = <<>>
    BY <1>0, <1>1, <1>3, <1>6 DEF PlayerInv, LastClick
  <2> QED
    BY <1>1, <2>1
<1>8. reader'[p] = "first" /\ window'[p] = "playing" => shown'[p] = wipe_topological_grid
  BY <1>0, <1>3 DEF BoardInv, Fresh
<1>9. CASE cell \notin Positions
  <2>1. pc' = "killed" /\ UNCHANGED <<grid, link, toClient>>
    BY <1>9 DEF ReceiveMove
  <2>2. Unseen(p)' = Unseen(p) /\ TurnAhead(p)' = TurnAhead(p) /\ Follows(p)' = Follows(p)
    BY <1>3, <2>1 DEF Unseen, TurnAhead, Kinds, Follows
  <2>3. Fresh(p)'
    BY <1>0, <1>8, <2>1, <2>2 DEF BoardInv, Fresh
  <2>4. Views(p)'
    BY <2>1 DEF Views, InRound
  <2> QED
    BY <1>5, <1>7, <2>3, <2>4 DEF BoardInv
<1>10. CASE cell \in Positions
  <2>1. grid' = PutMark(grid, cell, acting) /\ SendAll(sent, after)
    BY <1>10 DEF ReceiveMove
  <2>2. sent[p] = MoveMessages(p, next, cell, core_status')
    BY <1>0
  <2>3. core_status' \in Players \cup {Undecided, Draw}
    BY <1>10, VictorType DEF ReceiveMove, Players
  <2>4. toClient[p] \in Seq(Messages)
    BY <1>0, PlayerType
  <2>5. (next = p <=> acting # p) /\ dispatch_active_node(p) # p /\ (acting # p => acting = dispatch_active_node(p))
    BY <1>0, TheOther
  <2>6. \A c \in Positions : grid'[c] = IF c = cell THEN acting ELSE grid[c]
    <3>1. grid \in Grids(Marked)
      BY <1>0 DEF TypeOK
    <3> HIDE DEF cell, acting
    <3> QED
      BY <2>1, <3>1 DEF PutMark, Grids
  <2>7. acting = p => /\ cell = toServer[p][2] /\ toServer[p] # <<>>
                      /\ link[p] = "open" => shown[p][cell] = p /\ cell \notin Unseen(p)
    <3> SUFFICES ASSUME acting = p
                 PROVE  /\ cell = toServer[p][2] /\ toServer[p] # <<>>
                        /\ link[p] = "open" => shown[p][cell] = p /\ cell \notin Unseen(p)
      OBVIOUS
    <3>1. toServer[p] # <<>>
      BY <1>1
    <3>2. toServer[p][1] = 0 /\ toServer[p][2] \in Positions
          /\ (link[p] = "open" => shown[p][toServer[p][2]] = p /\ toServer[p][2] \notin Unseen(p))
      BY <1>0, <1>1, <3>1 DEF BoardInv, Spoken
    <3>3. cell = toServer[p][2]
      BY <3>2 DEF Positions
    <3> QED
      BY <3>1, <3>2, <3>3
  <2> HIDE DEF sent, after, cell, next, acting
  <2>8. link'[p] = "open" => toClient'[p] = toClient[p] \o sent[p]
    BY <1>0, <2>1, SentTo
  <2>9. ASSUME link'[p] = "open"
        PROVE  /\ TurnAhead(p)' = TurnAhead(p)
               /\ acting # p => Unseen(p)' = Unseen(p) \cup {cell}
               /\ acting = p => Unseen(p)' = Unseen(p)
    <3>1. /\ "turn" \in KindsOf(toClient'[p]) <=> "turn" \in KindsOf(toClient[p])
          /\ p = next => Picked(toClient'[p], "cell") = Picked(toClient[p], "cell") \cup {cell}
          /\ p # next => Picked(toClient'[p], "cell") = Picked(toClient[p], "cell")
      <4>1. /\ "turn" \in KindsOf(toClient[p] \o sent[p]) <=> "turn" \in KindsOf(toClient[p])
            /\ p = next => Picked(toClient[p] \o sent[p], "cell") =
                           Picked(toClient[p], "cell") \cup {cell}
            /\ p # next => Picked(toClient[p] \o sent[p], "cell") = Picked(toClient[p], "cell")
        <5>1. MoveIsHeard(toClient[p], toClient[p] \o MoveMessages(p, next, cell, core_status'),
                          p, next, cell)
          BY <1>10, <2>3, <2>4, MoveMessagesAre, Zenon
        <5> QED
          BY <2>2, <5>1 DEF MoveIsHeard
      <4>2. toClient'[p] = toClient[p] \o sent[p]
        BY <2>8, <2>9
      <4> QED
        BY <4>1, <4>2
    <3>2. TurnAhead(p)' = TurnAhead(p)
      BY <3>1 DEF TurnAhead, Kinds, KindsOf
    <3>3. /\ Unseen(p)' = Picked(toClient'[p], "cell") \cup Picked(runLater'[p], "onOpponentMove")
          /\ Unseen(p) = Picked(toClient[p], "cell") \cup Picked(runLater[p], "onOpponentMove")
      BY DEF Unseen, Picked
    <3>4. Picked(runLater'[p], "onOpponentMove") = Picked(runLater[p], "onOpponentMove")
      BY <1>3
    <3> QED
      BY <2>5, <3>1, <3>2, <3>3, <3>4
  <2>10. Fresh(p)'
    <3> SUFFICES ASSUME Follows(p)', TurnAhead(p)', NEW c \in Positions
                 PROVE  grid'[c] = IF c \in Unseen(p)' THEN dispatch_active_node(p) ELSE 0
      BY <1>8 DEF Fresh
    <3>1. link'[p] = "open" /\ link[p] = "open" /\ Follows(p)
      BY <1>3, <1>6 DEF Follows
    <3>2. TurnAhead(p)
      BY <2>9, <3>1
    <3>3. acting # p
      BY <1>0, <1>1, <2>7, <3>2 DEF BoardInv, Mute
    <3>4. grid[c] = IF c \in Unseen(p) THEN dispatch_active_node(p) ELSE 0
      BY <1>0, <3>1, <3>2 DEF BoardInv, Fresh
    <3> QED
      BY <2>5, <2>6, <2>9, <3>1, <3>3, <3>4
  <2>11. Views(p)'
    <3> SUFFICES ASSUME InRound(p)', NEW c \in Positions
                 PROVE  grid'[c] = IF c \in Unseen(p)' THEN dispatch_active_node(p)
                                   ELSE IF c \in Unheard(p)' /\ shown'[p][c] = p THEN 0
                                   ELSE shown'[p][c]
      BY DEF Views
    <3>1. link'[p] = "open" /\ link[p] = "open" /\ ~ TurnAhead(p)'
      BY <1>6 DEF InRound, TurnAhead
    <3>2. InRound(p)
      BY <1>1, <2>9, <3>1 DEF InRound, TurnAhead
    <3>3. grid[c] = IF c \in Unseen(p) THEN dispatch_active_node(p)
                    ELSE IF c \in Unheard(p) /\ shown[p][c] = p THEN 0
                    ELSE shown[p][c]
      BY <1>0, <3>2 DEF BoardInv, Views
    <3>4. Unheard(p)' = {}
      BY <1>2 DEF Unheard
    <3>5. Unheard(p) = IF acting = p THEN {cell} ELSE {}
      <4>1. acting = p => Unheard(p) = {cell}
        BY <1>1, <2>7 DEF Unheard, acting
      <4>2. acting # p => toServer[p] = <<>>
        BY <1>0, <1>1 DEF BoardInv, Spoken, acting
      <4>3. acting # p => Unheard(p) = {}
        BY <4>2 DEF Unheard
      <4> QED
        BY <4>1, <4>3
    <3>6. CASE acting = p
      BY <1>3, <2>6, <2>7, <2>9, <3>1, <3>3, <3>4, <3>5, <3>6
    <3>7. CASE acting # p
      BY <1>3, <2>5, <2>6, <2>9, <3>1, <3>3, <3>4, <3>5, <3>7
    <3> QED
      BY <3>6, <3>7
  <2> QED
    BY <1>5, <1>7, <2>10, <2>11 DEF BoardInv
<1> QED
  BY <1>9, <1>10

\* Nothing is said, and no board changes.
LEMMA AbandonRound_Board ==
  ASSUME NEW p \in Faithful, BoardsInv, AbandonRound
  PROVE  BoardInv(p)'
<1>0. p \in Players /\ TypeOK /\ StreamInv /\ PlayerInv(p) /\ BoardInv(p)
  BY PlayerBoard
<1>1. pc' = "done" /\ UNCHANGED <<grid, link, toClient, client>>
  BY DEF AbandonRound
<1>2. UNCHANGED <<reader[p], runLater[p], window[p], shown[p]>>
      /\ Armed(p)' = Armed(p) /\ Follows(p)' = Follows(p)
  BY <1>0, <1>1, Told DEF client
<1>3. Unseen(p)' = Unseen(p) /\ TurnAhead(p)' = TurnAhead(p)
  BY <1>1, <1>2 DEF Unseen, TurnAhead, Kinds
<1>4. Heard(p)' /\ Mute(p)' /\ LeftBehind(p)' /\ Spoken(p)' /\ Views(p)'
  BY <1>1 DEF Heard, Mute, LeftBehind, Spoken, Views, InRound
<1>5. LastWord(p)'
  BY <1>0, <1>1, <1>2 DEF BoardInv, LastWord
<1>6. Fresh(p)'
  BY <1>0, <1>1, <1>2, <1>3 DEF BoardInv, Fresh
<1> QED
  BY <1>4, <1>5, <1>6 DEF BoardInv

\* What is polled is what was left.
LEMMA PollVerdict_Board ==
  ASSUME NEW p \in Faithful, BoardsInv, NEW q \in Players, PollVerdict(q)
  PROVE  BoardInv(p)'
<1>0. p \in Players /\ TypeOK /\ StreamInv /\ PlayerInv(p) /\ BoardInv(p)
  BY PlayerBoard
<1>1. /\ pc = "polling" /\ outcomeBuffer[q] = NotRead
      /\ UNCHANGED <<pc, activeTurnIdx, grid, link, toClient, client>>
  BY DEF PollVerdict
<1>2. CASE q # p
  <2>1. UNCHANGED <<outcomeBuffer[p], toServer[p]>>
    BY <1>0, <1>2 DEF PollVerdict, TypeOK
  <2>2. UNCHANGED View(p) /\ shown'[p] = shown[p]
    BY <1>1, <2>1 DEF View, client
  <2> QED
    BY <1>0, <1>1, <2>2, BoardBystander
<1>3. CASE q = p
  <2>1. UNCHANGED <<reader[p], runLater[p], window[p], shown[p]>>
        /\ Armed(p)' = Armed(p) /\ Follows(p)' = Follows(p)
    BY <1>0, <1>1, Told DEF client
  <2>2. Unseen(p)' = Unseen(p) /\ TurnAhead(p)' = TurnAhead(p)
    BY <1>1, <2>1 DEF Unseen, TurnAhead, Kinds
  <2>3. /\ outcomeBuffer'[p] # NotRead
        /\ outcomeBuffer'[p] = OP_APPROVE_REQ /\ toServer[p] # <<>> =>
             toServer[p][1] = OP_APPROVE_REQ
        /\ toServer[p] = <<>> => toServer'[p] = <<>>
        /\ Len(toServer[p]) = 1 => toServer'[p] = <<>>
    <3>1. CASE toServer[p] # <<>>
      <4>1. outcomeBuffer'[p] = Head(toServer[p]) /\ toServer'[p] = Tail(toServer[p])
        BY <1>0, <1>3, <3>1 DEF PollVerdict, TypeOK
      <4>2. toServer[p] \in Seq(Halves)
        BY <1>0, PlayerType
      <4>3. Head(toServer[p]) = toServer[p][1] /\ Head(toServer[p]) \in Halves
        BY <3>1, <4>2, HeadTailProperties
      <4>4. Len(toServer[p]) = 1 => Tail(toServer[p]) = <<>>
        <5> DEFINE rest == Tail(toServer[p])
        <5>1. rest \in Seq(Halves) /\ Len(rest) = Len(toServer[p]) - 1
          BY <3>1, <4>2, HeadTailProperties
        <5> HIDE DEF rest
        <5>2. Len(toServer[p]) = 1 => Len(rest) = 0
          BY <5>1
        <5>3. Len(toServer[p]) = 1 => rest = <<>>
          BY <5>1, <5>2, EmptySeq
        <5> QED
          BY <5>3 DEF rest
      <4> QED
        BY <3>1, <4>1, <4>3, <4>4 DEF Halves, NotRead
    <3>2. CASE toServer[p] = <<>>
      <4>1. toServer'[p] = toServer[p] /\ outcomeBuffer'[p] \in {NoVerdict, 0, OP_APPROVE_REQ}
        BY <1>0, <1>3, <3>2 DEF PollVerdict, TypeOK
      <4> QED
        BY <3>2, <4>1 DEF NotRead, NoVerdict, OP_APPROVE_REQ
    <3> QED
      BY <3>1, <3>2
  <2>4. Heard(p)' /\ Spoken(p)' /\ Views(p)'
    BY <1>1, <2>3 DEF Heard, Spoken, Views, InRound
  <2>5. Mute(p)'
    BY <1>0, <1>1, <2>2, <2>3 DEF BoardInv, Mute
  <2>6. LastWord(p)'
    BY <1>0, <1>1, <2>1 DEF BoardInv, LastWord
  <2>7. LeftBehind(p)'
    <3> SUFFICES ASSUME link[p] # "open", outcomeBuffer'[p] = OP_APPROVE_REQ PROVE toServer'[p] = <<>>
      BY <1>1, <2>3 DEF LeftBehind
    <3>1. toServer[p] # <<>> => Len(toServer[p]) = 1
      BY <1>0, <1>1, <1>3, <2>3 DEF BoardInv, LeftBehind
    <3> QED
      BY <2>3, <3>1
  <2>8. Fresh(p)'
    BY <1>0, <1>1, <2>1, <2>2 DEF BoardInv, Fresh
  <2> QED
    BY <2>4, <2>5, <2>6, <2>7, <2>8 DEF BoardInv
<1> QED
  BY <1>2, <1>3

\* Who is drawn into another round has no more to say, and none of its board to see.
LEMMA JoinVerdicts_Board ==
  ASSUME NEW p \in Faithful, BoardsInv, JoinVerdicts
  PROVE  BoardInv(p)'
<1> DEFINE reply == IF Approved THEN OP_APPROVE_REQ ELSE OP_DECLINE_REQ
           message == <<"rematch", reply>>
           sent == [q \in Players |-> <<message>>]
           after == IF Approved THEN "start" ELSE "done"
<1>0. p \in Players /\ TypeOK /\ StreamInv /\ PlayerInv(p) /\ BoardInv(p)
  BY PlayerBoard
<1>1. /\ pc = "polling" /\ SendAll(sent, after)
      /\ ~ Approved => grid' = grid
      /\ UNCHANGED <<toServer, client>>
  BY <1>0 DEF JoinVerdicts
<1>2. sent[p] = <<message>> /\ message \in Messages /\ message[1] = "rematch"
  BY <1>0, MessageTypes
<1>3. toClient[p] \in Seq(Messages)
  BY <1>0, PlayerType
<1> HIDE DEF sent, message
<1>4. pc' \in {after, "killed"}
  BY <1>1 DEF SendAll
<1>5. link'[p] = "open" => link[p] = "open" /\ toClient'[p] = toClient[p] \o <<message>>
  <2>1. link'[p] = "open" => link[p] = "open" /\ toClient'[p] = toClient[p] \o sent[p]
    BY <1>0, <1>1, SentTo
  <2> QED
    BY <1>2, <2>1
<1>6. UNCHANGED <<reader[p], runLater[p], window[p], shown[p]>> /\ Armed(p)' = Armed(p)
  BY <1>0, <1>1, Told DEF client
<1>7. Heard(p)' /\ Mute(p)' /\ LeftBehind(p)' /\ Views(p)'
  BY <1>4 DEF Heard, Mute, LeftBehind, Views, InRound
<1>8. LastWord(p)'
  BY <1>0, <1>1, <1>5, <1>6 DEF BoardInv, LastWord
<1>9. Approved => outcomeBuffer[p] = OP_APPROVE_REQ
  BY <1>0 DEF Approved
<1>10. Spoken(p)'
  <2> SUFFICES ASSUME Approved PROVE toServer[p] = <<>>
    BY <1>1, <1>4 DEF Spoken
  <2>1. CASE link[p] = "open"
    BY <1>0, <1>1, <1>9, <2>1 DEF PlayerInv, Consents
  <2>2. CASE link[p] # "open"
    BY <1>0, <1>1, <1>9, <2>2 DEF BoardInv, LeftBehind
  <2> QED
    BY <2>1, <2>2
<1>11. Fresh(p)'
  <2>1. reader'[p] = "first" /\ window'[p] = "playing" => shown'[p] = wipe_topological_grid
    BY <1>0, <1>6 DEF BoardInv, Fresh
  <2>2. ASSUME Follows(p)', TurnAhead(p)', NEW cell \in Positions
        PROVE  grid'[cell] = IF cell \in Unseen(p)' THEN dispatch_active_node(p) ELSE 0
    <3>1. link'[p] = "open" /\ link[p] = "open" /\ Follows(p)
      BY <1>5, <1>6, <2>2 DEF Follows
    <3>2. /\ KindsOf(toClient[p] \o <<message>>) = KindsOf(toClient[p]) \cup {"rematch"}
          /\ Picked(toClient[p] \o <<message>>, "cell") = Picked(toClient[p], "cell")
      BY <1>2, <1>3, InLonger
    <3>3. TurnAhead(p)
      <4>1. "turn" \in KindsOf(toClient'[p])
        BY <2>2 DEF TurnAhead, Kinds, KindsOf
      <4>2. "turn" \in KindsOf(toClient[p])
        <5>1. toClient'[p] = toClient[p] \o <<message>>
          BY <1>5, <3>1
        <5>2. "turn" \in KindsOf(toClient[p] \o <<message>>)
          BY <4>1, <5>1
        <5>3. "turn" \in KindsOf(toClient[p]) \cup {"rematch"}
          BY <3>2, <5>2
        <5> QED
          BY <5>3
      <4> QED
        BY <4>2 DEF TurnAhead, Kinds, KindsOf
    <3>4. Unseen(p)' = Unseen(p)
      <4>1. Unseen(p)' = Picked(toClient'[p], "cell") \cup Picked(runLater'[p], "onOpponentMove")
        BY DEF Unseen, Picked
      <4>2. Unseen(p) = Picked(toClient[p], "cell") \cup Picked(runLater[p], "onOpponentMove")
        BY DEF Unseen, Picked
      <4> QED
        BY <1>5, <1>6, <3>1, <3>2, <4>1, <4>2
    <3>5. ~ Approved
      <4> SUFFICES ASSUME Approved PROVE FALSE
        OBVIOUS
      <4>1. Answered(p)
        BY <1>0, <1>1, <1>9, <3>1 DEF PlayerInv, Consents
      <4>2. toClient[p] = <<>>
        BY <3>1, <4>1 DEF Answered, Follows
      <4> QED
        BY <3>3, <4>2, InEmpty DEF TurnAhead, Kinds, KindsOf
    <3> QED
      BY <1>0, <1>1, <3>1, <3>3, <3>4, <3>5 DEF BoardInv, Fresh
  <2> QED
    BY <2>1, <2>2 DEF Fresh
<1> QED
  BY <1>7, <1>8, <1>10, <1>11 DEF BoardInv

LEMMA ServerStep_Board ==
  ASSUME NEW p \in Faithful, BoardsInv, ServerStep
  PROVE  BoardInv(p)'
  BY StartRound_Board, ReceiveMove_Board, AbandonRound_Board, PollVerdict_Board,
     JoinVerdicts_Board DEF ServerStep

-----------------------------------------------------------------------------
(* The reader thread. *)

\* Nor does a turn come after the move of the other.
LEMMA NoTurnAfterMove ==
  ASSUME NEW p, NEW s \in Seq(Messages), NEW b \in Places, Path(p, "opp", s, b)
  PROVE  "turn" \notin KindsOf(s)
<1>0. "opp" \in Places
  BY DEF Places
<1>1. CASE s = <<>>
  BY <1>1, InEmpty
<1>2. CASE s # <<>>
  <2>1. PICK c \in Places : Reads(p, "opp", Head(s), c) /\ Path(p, c, Tail(s), b)
    BY <1>0, <1>2, ShorterPath
  <2>2. c = "oppStatus" /\ Head(s)[1] = "cell" /\ Tail(s) \in Seq(Messages)
    BY <1>2, <2>1, HeadTailProperties DEF Reads
  <2>3. KindsOf(Tail(s)) \subseteq {"status", "rematch"}
    BY <2>1, <2>2, NoTurnAhead
  <2> QED
    BY <1>2, <2>2, <2>3, InTail
<1> QED
  BY <1>1, <1>2

\* p enters the round: it sees an empty board, and has said nothing yet.
LEMMA ReadFirstTurn_Board ==
  ASSUME NEW p \in Faithful, BoardsInv, ReadFirstTurn(p)
  PROVE  BoardInv(p)'
<1>0. p \in Players /\ TypeOK /\ StreamInv /\ PlayerInv(p) /\ BoardInv(p)
  BY PlayerBoard
<1>1. /\ link[p] = "open" /\ reader[p] = "first" /\ toClient[p] # <<>>
      /\ toClient'[p] = Tail(toClient[p])
      /\ link'[p] = link[p] /\ toServer'[p] = toServer[p]
      /\ outcomeBuffer'[p] = outcomeBuffer[p]
      /\ UNCHANGED <<pc, activeTurnIdx, grid>>
      /\ runLater'[p] = runLater[p] /\ window'[p] = window[p] /\ shown'[p] = shown[p]
      /\ reader'[p] \in {"freshOwn", "freshOpp"}
  BY <1>0 DEF ReadFirstTurn, Reading, ReadInt, TypeOK, server
<1>2. window[p] = "playing"
  BY <1>0, <1>1, PlayerType DEF PlayerInv, CallsInv
<1>3. toClient[p] \in Seq(Messages) /\ Tail(toClient[p]) \in Seq(Messages)
  BY <1>0, <1>1, PlayerType, HeadTailProperties
<1>4. Follows(p) /\ Place(p) = "first"
  BY <1>1, <1>2 DEF Follows, Place
<1>5. PICK b, c \in Places : Reads(p, "first", Head(toClient[p]), c) /\ Path(p, c, Tail(toClient[p]), b)
  BY <1>0, <1>1, <1>4, HeadIsExpected
<1>6. Head(toClient[p])[1] = "turn" /\ c \in {"due", "opp"}
  BY <1>5 DEF Reads
<1>7. TurnAhead(p)
  <2>1. "turn" \in KindsOf(toClient[p])
    BY <1>1, <1>3, <1>6, InTail
  <2> QED
    BY <2>1 DEF TurnAhead, Kinds, KindsOf
<1>8. ~ TurnAhead(p)'
  <2>1. "turn" \notin KindsOf(Tail(toClient[p]))
    <3>1. CASE c = "due"
      BY <1>3, <1>5, <3>1, NoTurnAhead
    <3>2. CASE c = "opp"
      BY <1>3, <1>5, <3>2, NoTurnAfterMove
    <3> QED
      BY <1>6, <3>1, <3>2
  <2> QED
    BY <1>1, <2>1 DEF TurnAhead, Kinds, KindsOf
<1>9. Unseen(p)' = Unseen(p)
  <2>1. Picked(Tail(toClient[p]), "cell") = Picked(toClient[p], "cell")
    BY <1>1, <1>3, <1>6, InTail
  <2>2. /\ Unseen(p)' = Picked(toClient'[p], "cell") \cup Picked(runLater'[p], "onOpponentMove")
        /\ Unseen(p) = Picked(toClient[p], "cell") \cup Picked(runLater[p], "onOpponentMove")
    BY DEF Unseen, Picked
  <2> QED
    BY <1>1, <2>1, <2>2
<1>10. pc \in {"await", "polling"} => toServer[p] = <<>>
  BY <1>0, <1>7 DEF BoardInv, Mute
<1>11. Heard(p)' /\ Mute(p)' /\ LastWord(p)' /\ LeftBehind(p)'
  BY <1>1, <1>8, <1>10 DEF Heard, Mute, LastWord, LeftBehind
<1>12. Spoken(p)'
  BY <1>0, <1>1, <1>10 DEF BoardInv, Spoken
<1>13. Fresh(p)'
  BY <1>1, <1>8 DEF Fresh
<1>14. Views(p)'
  <2> SUFFICES ASSUME InRound(p)', NEW cell \in Positions
               PROVE  grid[cell] = IF cell \in Unseen(p)' THEN dispatch_active_node(p)
                                   ELSE IF cell \in Unheard(p)' /\ shown'[p][cell] = p THEN 0
                                   ELSE shown'[p][cell]
    BY <1>1 DEF Views
  <2>1. grid[cell] = IF cell \in Unseen(p) THEN dispatch_active_node(p) ELSE 0
    BY <1>0, <1>4, <1>7 DEF BoardInv, Fresh
  <2>2. shown'[p][cell] = 0
    BY <1>0, <1>1, <1>2 DEF BoardInv, Fresh, wipe_topological_grid
  <2> QED
    BY <1>9, <2>1, <2>2
<1> QED
  BY <1>11, <1>12, <1>13, <1>14 DEF BoardInv

\* The board the user plays on is renewed, not the one it sees.
LEMMA RenewEngine_Board ==
  ASSUME NEW p \in Faithful, BoardsInv, RenewEngine(p)
  PROVE  BoardInv(p)'
<1>0. p \in Players /\ TypeOK /\ StreamInv /\ PlayerInv(p) /\ BoardInv(p)
  BY PlayerBoard
<1>1. /\ reader[p] \in {"freshOwn", "freshOpp"} /\ reader'[p] \in {"ownStatus", "oppMove"}
      /\ toClient'[p] = toClient[p] /\ link'[p] = link[p] /\ toServer'[p] = toServer[p]
      /\ outcomeBuffer'[p] = outcomeBuffer[p]
      /\ UNCHANGED <<pc, activeTurnIdx, grid>>
      /\ runLater'[p] = runLater[p] /\ window'[p] = window[p] /\ shown'[p] = shown[p]
  BY <1>0 DEF RenewEngine, TypeOK, server, network
<1>2. Unseen(p)' = Unseen(p) /\ TurnAhead(p)' = TurnAhead(p)
  BY <1>1 DEF Unseen, TurnAhead, Kinds
<1>3. Follows(p)' => Follows(p)
  BY <1>1 DEF Follows
<1>4. Heard(p)' /\ LastWord(p)'
  BY <1>0, <1>1 DEF BoardInv, Heard, LastWord
<1> QED
  BY <1>1, <1>2, <1>3, <1>4, NothingShown DEF BoardInv

\* One call more: another mark to be shown, or none.
LEMMA OneMoreCall ==
  ASSUME NEW s \in Seq(Calls), NEW call \in Calls
  PROVE  /\ call[1] = "onOpponentMove" =>
              Picked(Append(s, call), "onOpponentMove") = Picked(s, "onOpponentMove") \cup {call[2]}
         /\ call[1] # "onOpponentMove" =>
              Picked(Append(s, call), "onOpponentMove") = Picked(s, "onOpponentMove")
<1> DEFINE kind == "onOpponentMove"
           more == s \o <<call>>
<1>1. Append(s, call) = more
  BY AppendIsConcat, Zenon
<1> HIDE DEF more
<1>2. /\ call[1] = kind => Picked(more, kind) = Picked(s, kind) \cup {call[2]}
      /\ call[1] # kind => Picked(more, kind) = Picked(s, kind)
  <2> HIDE DEF kind
  <2>1. /\ call[1] = kind => Picked(s \o <<call>>, kind) = Picked(s, kind) \cup {call[2]}
        /\ call[1] # kind => Picked(s \o <<call>>, kind) = Picked(s, kind)
    BY InLonger
  <2> QED
    BY <2>1 DEF more
<1> QED
  BY <1>1, <1>2

\* The mark of the other is still to be seen: it is with the FX thread now.
LEMMA ReadOpponentMove_Board ==
  ASSUME NEW p \in Faithful, BoardsInv, ReadOpponentMove(p)
  PROVE  BoardInv(p)'
<1> DEFINE call == <<"onOpponentMove", Received(p)>>
<1>0. p \in Players /\ TypeOK /\ StreamInv /\ PlayerInv(p) /\ BoardInv(p)
  BY PlayerBoard
<1>1. /\ link[p] = "open" /\ reader[p] = "oppMove" /\ toClient[p] # <<>>
      /\ toClient'[p] = Tail(toClient[p])
      /\ link'[p] = link[p] /\ toServer'[p] = toServer[p]
      /\ outcomeBuffer'[p] = outcomeBuffer[p]
      /\ UNCHANGED <<pc, activeTurnIdx, grid>>
      /\ window'[p] = window[p] /\ shown'[p] = shown[p]
      /\ reader'[p] = "oppStatus" /\ runLater'[p] = Append(runLater[p], call)
  BY <1>0 DEF ReadOpponentMove, Reading, ReadInt, TypeOK, server
<1>2. runLater[p] = <<>> /\ window[p] = "playing"
  BY <1>0, <1>1, PlayerType DEF PlayerInv, CallsInv
<1>3. Follows(p) /\ Place(p) = "opp"
  BY <1>1, <1>2 DEF Follows, Place
<1>4. toClient[p] \in Seq(Messages) /\ Tail(toClient[p]) \in Seq(Messages) /\ Head(toClient[p]) \in Messages
      /\ runLater[p] \in Seq(Calls)
  BY <1>0, <1>1, PlayerType, HeadTailProperties
<1>5. Head(toClient[p])[1] = "cell"
  BY <1>0, <1>1, <1>3, HeadIsExpected DEF Reads
<1>6. call \in Calls /\ call[1] = "onOpponentMove" /\ call[2] = Head(toClient[p])[2]
  BY <1>4, <1>5 DEF Calls, Messages, Positions, Received
<1> HIDE DEF call
<1>7. Picked(runLater'[p], "onOpponentMove") = Picked(runLater[p], "onOpponentMove") \cup {call[2]}
  <2>1. Picked(Append(runLater[p], call), "onOpponentMove") =
          Picked(runLater[p], "onOpponentMove") \cup {call[2]}
    BY <1>4, <1>6, OneMoreCall
  <2> QED
    BY <1>1, <2>1
<1>8. /\ KindsOf(toClient[p]) = {"cell"} \cup KindsOf(Tail(toClient[p]))
      /\ Picked(toClient[p], "cell") = {call[2]} \cup Picked(Tail(toClient[p]), "cell")
  BY <1>1, <1>4, <1>5, <1>6, InTail
<1>9. Unseen(p)' = Unseen(p)
  <2>1. /\ Unseen(p)' = Picked(toClient'[p], "cell") \cup Picked(runLater'[p], "onOpponentMove")
        /\ Unseen(p) = Picked(toClient[p], "cell") \cup Picked(runLater[p], "onOpponentMove")
    BY DEF Unseen, Picked
  <2> QED
    BY <1>1, <1>7, <1>8, <2>1
<1>10. TurnAhead(p)' = TurnAhead(p)
  <2>1. /\ TurnAhead(p)' <=> "turn" \in KindsOf(toClient'[p])
        /\ TurnAhead(p) <=> "turn" \in KindsOf(toClient[p])
    BY DEF TurnAhead, Kinds, KindsOf
  <2>2. TurnAhead(p)' <=> TurnAhead(p)
    BY <1>1, <1>8, <2>1
  <2> QED
    BY <2>2 DEF TurnAhead
<1>11. Follows(p)' => Follows(p)
  BY <1>3
<1>12. Heard(p)' /\ LastWord(p)'
  BY <1>0, <1>1 DEF BoardInv, Heard, LastWord
<1> QED
  BY <1>1, <1>9, <1>10, <1>11, <1>12, NothingShown DEF BoardInv

\* The end of the round is read: no board changes.
LEMMA ReadStatus_Board ==
  ASSUME NEW p \in Faithful, BoardsInv, ReadStatus(p)
  PROVE  BoardInv(p)'
<1> DEFINE call == <<"onGameStatus", Received(p)>>
<1>0. p \in Players /\ TypeOK /\ StreamInv /\ PlayerInv(p) /\ BoardInv(p)
  BY PlayerBoard
<1>1. /\ link[p] = "open" /\ reader[p] \in {"ownStatus", "oppStatus"} /\ toClient[p] # <<>>
      /\ toClient'[p] = Tail(toClient[p])
      /\ link'[p] = link[p] /\ toServer'[p] = toServer[p]
      /\ outcomeBuffer'[p] = outcomeBuffer[p]
      /\ UNCHANGED <<pc, activeTurnIdx, grid>>
      /\ window'[p] = window[p] /\ shown'[p] = shown[p]
      /\ has_token_control'[p] = has_token_control[p]
  BY <1>0 DEF ReadStatus, Reading, ReadInt, TypeOK, server
<1>2. /\ reader'[p] \in {"ownStatus", "oppMove", "ended"}
      /\ Received(p) # Undecided => reader'[p] = "ended"
      /\ runLater'[p] \in {runLater[p], Append(runLater[p], call)}
  BY <1>0 DEF ReadStatus, TypeOK
<1>3. /\ window[p] = "playing"
      /\ runLater[p] = <<>> \/ (Len(runLater[p]) = 1 /\ MoveQueued(p))
  BY <1>0, <1>1, PlayerType DEF PlayerInv, CallsInv
<1>4. Follows(p) /\ Place(p) \in {"due", "sent", "oppStatus", "oppSent"}
  BY <1>1, <1>3 DEF Follows, Place
<1>5. toClient[p] \in Seq(Messages) /\ Tail(toClient[p]) \in Seq(Messages) /\ Head(toClient[p]) \in Messages
      /\ runLater[p] \in Seq(Calls)
  BY <1>0, <1>1, PlayerType, HeadTailProperties
<1>6. Head(toClient[p])[1] = "status"
  BY <1>0, <1>1, <1>4, HeadIsExpected DEF Reads
<1>7. call \in Calls /\ call[1] = "onGameStatus"
  <2>1. Received(p) \in Int
    BY <1>5, MessagesAreNumbers DEF Received
  <2> QED
    BY <2>1 DEF Calls
<1> HIDE DEF call
<1>8. Picked(runLater'[p], "onOpponentMove") = Picked(runLater[p], "onOpponentMove")
  BY <1>2, <1>5, <1>7, OneMoreCall
<1>9. MoveQueued(p)' = MoveQueued(p)
  <2>1. runLater[p] # <<>> => /\ Append(runLater[p], call) # <<>>
                              /\ Head(Append(runLater[p], call)) = Head(runLater[p])
    BY <1>3, <1>5, <1>7, SecondCall
  <2>2. runLater[p] = <<>> => /\ Append(runLater[p], call) # <<>>
                              /\ Head(Append(runLater[p], call)) = call
    BY <1>5, <1>7, FirstCall
  <2> QED
    BY <1>2, <1>7, <2>1, <2>2 DEF MoveQueued
<1>10. /\ KindsOf(toClient[p]) = {"status"} \cup KindsOf(Tail(toClient[p]))
       /\ Picked(toClient[p], "cell") = Picked(Tail(toClient[p]), "cell")
  BY <1>1, <1>5, <1>6, InTail
<1>11. Unseen(p)' = Unseen(p)
  <2>1. /\ Unseen(p)' = Picked(toClient'[p], "cell") \cup Picked(runLater'[p], "onOpponentMove")
        /\ Unseen(p) = Picked(toClient[p], "cell") \cup Picked(runLater[p], "onOpponentMove")
    BY DEF Unseen, Picked
  <2> QED
    BY <1>1, <1>8, <1>10, <2>1
<1>12. TurnAhead(p)' = TurnAhead(p)
  <2>1. /\ TurnAhead(p)' <=> "turn" \in KindsOf(toClient'[p])
        /\ TurnAhead(p) <=> "turn" \in KindsOf(toClient[p])
    BY DEF TurnAhead, Kinds, KindsOf
  <2>2. TurnAhead(p)' <=> TurnAhead(p)
    BY <1>1, <1>10, <2>1
  <2> QED
    BY <2>2 DEF TurnAhead
<1>13. Heard(p)'
  <2> SUFFICES ASSUME pc = "polling", outcomeBuffer[p] = NotRead, toServer[p] # <<>>
               PROVE  ~ Armed(p)' /\ Len(toServer[p]) = 2 /\ reader'[p] = "ended"
    BY <1>1, <1>3 DEF Heard
  <2>1. ~ Armed(p) /\ Len(toServer[p]) = 2 /\ reader[p] = "oppStatus" /\ Received(p) # Undecided
    BY <1>0, <1>1, <1>3 DEF BoardInv, Heard, Received
  <2> QED
    BY <1>1, <1>2, <1>9, <2>1 DEF Armed
<1>14. LastWord(p)'
  BY <1>2 DEF LastWord
<1> QED
  BY <1>1, <1>2, <1>4, <1>11, <1>12, <1>13, <1>14, NothingShown DEF BoardInv

\* The reader gives up: there was nothing to come.
LEMMA ReaderTimesOut_Board ==
  ASSUME NEW p \in Faithful, BoardsInv, ReaderTimesOut(p)
  PROVE  BoardInv(p)'
<1>0. p \in Players /\ TypeOK /\ StreamInv /\ PlayerInv(p) /\ BoardInv(p)
  BY PlayerBoard
<1>1. /\ link[p] = "open" /\ reader[p] \in {"first", "ownStatus", "oppMove", "oppStatus"}
      /\ toClient[p] = <<>> /\ toClient'[p] = toClient[p]
      /\ link'[p] = link[p] /\ toServer'[p] = toServer[p]
      /\ outcomeBuffer'[p] = outcomeBuffer[p]
      /\ UNCHANGED <<pc, activeTurnIdx, grid>>
      /\ runLater'[p] = runLater[p] /\ window'[p] = window[p] /\ shown'[p] = shown[p]
      /\ has_token_control'[p] = has_token_control[p]
      /\ reader'[p] = "broken"
  BY <1>0 DEF ReaderTimesOut, TypeOK, server, network
<1>2. window[p] = "playing"
  BY <1>0, <1>1, PlayerType DEF PlayerInv, CallsInv
<1>3. Unseen(p)' = Unseen(p) /\ TurnAhead(p)' = TurnAhead(p) /\ Armed(p)' = Armed(p)
  BY <1>1 DEF Unseen, TurnAhead, Kinds, Armed, MoveQueued
<1>4. Follows(p) /\ ~ Follows(p)'
  BY <1>1, <1>2 DEF Follows
<1>5. Heard(p)'
  BY <1>0, <1>1 DEF BoardInv, Heard
<1>6. LastWord(p)'
  <2> SUFFICES ASSUME Armed(p) PROVE pc # "polling"
    BY <1>1, <1>3 DEF LastWord
  <2>1. reader[p] \in {"ownStatus", "oppStatus"}
    BY <1>0, <1>1, <1>2 DEF PlayerInv, CallsInv, Armed, MoveQueued
  <2>2. Place(p) = IF reader[p] = "ownStatus" THEN "due" ELSE "oppStatus"
    BY <1>2, <2>1 DEF Place
  <2>3. PICK b \in Places : Path(p, Place(p), <<>>, b) /\ Expects(p, b)
    BY <1>0, <1>1, <1>4, PlayerScript
  <2>4. b = Place(p)
    BY <2>3, PlaceType, NoPath
  <2> QED
    BY <2>2, <2>3, <2>4 DEF Expects
<1> QED
  BY <1>1, <1>3, <1>4, <1>5, <1>6, NothingShown DEF BoardInv

-----------------------------------------------------------------------------
(* The FX thread and its user. *)

\* A click while the verdict is polled comes too late, and is the last.
LEMMA LateClick ==
  ASSUME NEW p \in Faithful, BoardsInv, MayMove(p), pc = "polling"
  PROVE  /\ outcomeBuffer[p] = NotRead => toServer[p] = <<>>
         /\ reader[p] \in {"oppStatus", "ended"}
         /\ reader[p] = "oppStatus" => toClient[p] # <<>> /\ Head(toClient[p])[2] # Undecided
<1>0. p \in Players /\ TypeOK /\ StreamInv /\ PlayerInv(p) /\ BoardInv(p)
  BY PlayerBoard
<1>1. link[p] = "open" /\ window[p] = "playing" /\ has_token_control[p] /\ Armed(p)
  BY DEF MayMove, Armed
<1>2. outcomeBuffer[p] = NotRead => toServer[p] = <<>>
  BY <1>0, <1>1 DEF BoardInv, Heard
<1>3. reader[p] \in {"freshOwn", "ownStatus", "oppStatus", "ended"}
  BY <1>0, <1>1, PlayerType DEF PlayerInv, CallsInv, BoardInv, LastWord
<1>4. Follows(p)
  BY <1>1, <1>3 DEF Follows
<1>5. PICK b \in Places : Path(p, Place(p), toClient[p], b) /\ Expects(p, b)
  BY <1>0, <1>4, PlayerScript
<1>6. toClient[p] \in Seq(Messages)
  BY <1>0, PlayerType
<1>7. b \in {"ended", "reply"}
  BY <1>5 DEF Expects
<1>8. reader[p] \notin {"freshOwn", "ownStatus"}
  <2> SUFFICES ASSUME reader[p] \in {"freshOwn", "ownStatus"} PROVE FALSE
    OBVIOUS
  <2>1. Place(p) = "due"
    BY <1>1 DEF Place
  <2> QED
    BY <1>5, <1>6, <1>7, <2>1, DeadEnds
<1>9. ASSUME reader[p] = "oppStatus" PROVE toClient[p] # <<>> /\ Head(toClient[p])[2] # Undecided
  <2>1. Place(p) = "oppStatus" /\ "oppStatus" \in Places
    BY <1>1, <1>9 DEF Place, Places
  <2>2. toClient[p] # <<>>
    BY <1>5, <1>7, <2>1, NoPath
  <2>3. PICK c \in Places : Reads(p, "oppStatus", Head(toClient[p]), c) /\ Path(p, c, Tail(toClient[p]), b)
    BY <1>5, <1>6, <2>1, <2>2, ShorterPath
  <2>4. Tail(toClient[p]) \in Seq(Messages)
    BY <1>6, <2>2, HeadTailProperties
  <2>5. c # "due"
    BY <1>7, <2>3, <2>4, DeadEnds
  <2> QED
    BY <2>2, <2>3, <2>5 DEF Reads
<1> QED
  BY <1>2, <1>3, <1>8, <1>9

\* What is sent with a click.
LEMMA FirstMove ==
  ASSUME NEW s, s = <<>>, NEW cell \in Positions
  PROVE  s \o <<0, cell>> = <<0, cell>> /\ Len(<<0, cell>>) = 2 /\ <<0, cell>> # <<>>
         /\ <<0, cell>>[1] = 0 /\ <<0, cell>>[2] = cell
<1>1. <<0, cell>> \in Seq(Nat)
  BY ShortSequences DEF Positions
<1>2. <<>> \o <<0, cell>> = <<0, cell>>
  BY <1>1, ConcatEmptySeq
<1> QED
  BY <1>2

\* A click is the move of a player who sees the server's grid.
LEMMA Click_Board ==
  ASSUME NEW p \in Faithful, BoardsInv, NEW cell \in Playable[p], Click(p, cell)
  PROVE  BoardInv(p)'
<1> DEFINE move == <<0, cell>>
<1>0. p \in Players /\ TypeOK /\ StreamInv /\ PlayerInv(p) /\ BoardInv(p)
  BY PlayerBoard
<1>1. /\ link[p] = "open" /\ window[p] = "playing" /\ has_token_control[p]
      /\ MayMove(p)
      /\ toClient'[p] = toClient[p] /\ link'[p] = link[p]
      /\ toServer'[p] = toServer[p] \o move
      /\ outcomeBuffer'[p] = outcomeBuffer[p]
      /\ UNCHANGED <<pc, activeTurnIdx, grid>>
      /\ runLater'[p] = runLater[p] /\ window'[p] = window[p]
      /\ ~ has_token_control'[p]
      /\ reader'[p] = reader[p]
  BY <1>0 DEF Click, FxFree, Send, TypeOK, server, MayMove
<1>2. shown[p][cell] = 0 /\ shown'[p] = PutMark(shown[p], cell, p) /\ cell \in Positions
  BY <1>0, BoundsAssumption DEF Click, TypeOK
<1>3. \A c \in Positions : shown'[p][c] = IF c = cell THEN p ELSE shown[p][c]
  <2>1. shown[p] \in Grids(Marked)
    BY <1>0 DEF TypeOK
  <2> QED
    BY <1>2, <2>1 DEF PutMark, Grids
<1>4. Unseen(p) = {} /\ ~ TurnAhead(p)
  BY <1>1, ClickersSeeAll
<1>5. Unseen(p)' = {} /\ ~ TurnAhead(p)'
  <2>1. Unseen(p)' = Unseen(p) /\ TurnAhead(p)' = TurnAhead(p)
    <3>1. toClient'[p] = toClient[p] /\ runLater'[p] = runLater[p]
      BY <1>1
    <3>2. Unseen(p)' = Unseen(p)
      BY <3>1, Zenon DEF Unseen
    <3>3. TurnAhead(p)' = TurnAhead(p)
      BY <3>1, Zenon DEF TurnAhead, Kinds
    <3> QED
      BY <3>2, <3>3
  <2> QED
    BY <1>4, <2>1
<1>6. ~ Armed(p)' /\ reader[p] # "first" /\ p # 0
  <2>1. p # 0
    BY NodesAssumption, <1>0 DEF Players
  <2> QED
    BY <1>0, <1>1, <2>1 DEF PlayerInv, CallsInv, Armed, MoveQueued
<1>7. pc # "start" /\ (pc = "await" => activeTurnIdx = p /\ toServer[p] = <<>>)
  BY <1>0, <1>1, ClickersAreAwaited
<1>8. pc = "polling" /\ outcomeBuffer[p] = NotRead => toServer[p] = <<>>
  BY <1>1, LateClick
<1>9. toServer[p] = <<>> => /\ toServer'[p] # <<>> /\ Len(toServer'[p]) = 2
                            /\ toServer'[p][1] = 0 /\ toServer'[p][2] = cell
                            /\ Unheard(p) = {} /\ Unheard(p)' = {cell}
  <2> SUFFICES ASSUME toServer[p] = <<>>
               PROVE  /\ toServer'[p] # <<>> /\ Len(toServer'[p]) = 2
                      /\ toServer'[p][1] = 0 /\ toServer'[p][2] = cell
                      /\ Unheard(p) = {} /\ Unheard(p)' = {cell}
    OBVIOUS
  <2>1. /\ toServer'[p] = move /\ move # <<>> /\ Len(move) = 2
        /\ move[1] = 0 /\ move[2] = cell
    <3>1. /\ toServer[p] \o <<0, cell>> = <<0, cell>> /\ Len(<<0, cell>>) = 2 /\ <<0, cell>> # <<>>
          /\ <<0, cell>>[1] = 0 /\ <<0, cell>>[2] = cell
      BY <1>2, FirstMove
    <3> QED
      BY <1>1, <3>1
  <2> HIDE DEF move
  <2>2. Unheard(p)' = {cell}
    BY <2>1 DEF Unheard
  <2>3. Unheard(p) = {}
    BY DEF Unheard
  <2> QED
    BY <2>1, <2>2, <2>3
<1>10. ASSUME InRound(p)
       PROVE  toServer[p] = <<>> /\ \A c \in Positions : grid[c] = shown[p][c]
  <2>1. toServer[p] = <<>>
    BY <1>7, <1>8, <1>10 DEF InRound
  <2> QED
    BY <1>0, <1>4, <1>9, <1>10, <2>1 DEF BoardInv, Views
<1>11. Heard(p)'
  <2> SUFFICES ASSUME pc = "polling", outcomeBuffer[p] = NotRead
               PROVE  /\ Len(toServer'[p]) = 2 /\ reader[p] \in {"oppStatus", "ended"}
                      /\ reader[p] = "oppStatus" => toClient[p] # <<>> /\ Head(toClient[p])[2] # Undecided
    BY <1>1, <1>6 DEF Heard
  <2> QED
    BY <1>1, <1>8, <1>9, LateClick
<1>12. Mute(p)' /\ LastWord(p)' /\ LeftBehind(p)' /\ Fresh(p)'
  BY <1>1, <1>5, <1>6 DEF Mute, LastWord, LeftBehind, Fresh
<1>13. Spoken(p)'
  <2> SUFFICES ASSUME pc = "await"
               PROVE  /\ activeTurnIdx = p /\ Len(toServer'[p]) = 2
                      /\ toServer'[p][1] = 0 /\ toServer'[p][2] \in Positions
                      /\ grid[toServer'[p][2]] = 0
                      /\ shown'[p][toServer'[p][2]] = p /\ toServer'[p][2] \notin Unseen(p)'
    BY <1>1, <1>7 DEF Spoken
  <2>1. InRound(p)
    BY <1>1, <1>4 DEF InRound, TurnAhead
  <2> QED
    BY <1>2, <1>3, <1>5, <1>7, <1>9, <1>10, <2>1
<1>14. Views(p)'
  <2> SUFFICES ASSUME InRound(p)', NEW c \in Positions
               PROVE  grid[c] = IF c \in Unseen(p)' THEN dispatch_active_node(p)
                                ELSE IF c \in Unheard(p)' /\ shown'[p][c] = p THEN 0
                                ELSE shown'[p][c]
    BY <1>1 DEF Views
  <2>1. InRound(p)
    BY <1>1, <1>4 DEF InRound, TurnAhead
  <2> QED
    BY <1>2, <1>3, <1>5, <1>9, <1>10, <2>1
<1> QED
  BY <1>11, <1>12, <1>13, <1>14 DEF BoardInv

\* The mark of the other is shown where the server has put it.
LEMMA HandleOpponentMove_Board ==
  ASSUME NEW p \in Faithful, BoardsInv, HandleOpponentMove(p)
  PROVE  BoardInv(p)'
<1> DEFINE cell == Head(runLater[p])[2]
           other == dispatch_active_node(p)
<1>0. p \in Players /\ TypeOK /\ StreamInv /\ PlayerInv(p) /\ BoardInv(p)
  BY PlayerBoard
<1>1. /\ link[p] = "open" /\ runLater[p] # <<>> /\ MoveQueued(p)
      /\ toClient'[p] = toClient[p] /\ link'[p] = link[p] /\ toServer'[p] = toServer[p]
      /\ outcomeBuffer'[p] = outcomeBuffer[p]
      /\ UNCHANGED <<pc, activeTurnIdx, grid>>
      /\ runLater'[p] = Tail(runLater[p])
      /\ window'[p] = window[p] /\ reader'[p] = reader[p]
  BY <1>0 DEF HandleOpponentMove, FxFree, MoveQueued, TypeOK, server, network
<1>2. window[p] = "playing" /\ reader[p] # "first" /\ cell \in Positions /\ Armed(p)
  BY <1>0, <1>1, PlayerType DEF PlayerInv, CallsInv, Armed
<1>3. \A c \in Positions : shown'[p][c] = IF c = cell THEN other ELSE shown[p][c]
  <2>1. shown'[p] = PutMark(shown[p], cell, other)
    BY <1>0, <1>2 DEF HandleOpponentMove, TypeOK
  <2>2. shown[p] \in Grids(Marked)
    BY <1>0 DEF TypeOK
  <2> QED
    BY <2>1, <2>2 DEF PutMark, Grids
<1>4. runLater[p] \in Seq(Calls) /\ toClient[p] \in Seq(Messages) /\ other # p
  BY <1>0, PlayerType, TheOther
<1>5. KindsOf(toClient[p]) \subseteq {"status", "rematch"}
  BY <1>1, <1>2, ArmedIsInRound
<1>6. Picked(toClient[p], "cell") = {} /\ ~ TurnAhead(p) /\ ~ TurnAhead(p)'
  <2>1. "turn" \notin KindsOf(toClient[p]) /\ "cell" \notin KindsOf(toClient[p])
    BY <1>5
  <2>2. Picked(toClient[p], "cell") = {}
    BY <1>4, <2>1, NoneOfKind
  <2> QED
    BY <1>1, <2>1, <2>2 DEF TurnAhead, Kinds, KindsOf
<1>7. Picked(runLater[p], "onOpponentMove") = {cell} /\ Picked(runLater'[p], "onOpponentMove") = {}
  <2>1. Picked(Tail(runLater[p]), "onOpponentMove") = {}
    <3>1. Len(runLater[p]) \in {1, 2}
      BY <1>0, <1>1, <1>2, PlayerType DEF PlayerInv, CallsInv
    <3>2. CASE Len(runLater[p]) = 1
      BY <1>4, <3>2, CallsLeft, InEmpty
    <3>3. CASE Len(runLater[p]) = 2
      <4>1. reader[p] = "ended" /\ runLater[p][2][1] = "onGameStatus"
        BY <1>0, <1>1, <1>2, <3>3, PlayerType DEF PlayerInv, CallsInv
      <4> DEFINE rest == Tail(runLater[p])
      <4>2. rest # <<>> /\ Len(rest) = 1 /\ Head(rest) = runLater[p][2]
        BY <1>4, <3>3, CallsLeft
      <4>3. rest \in Seq(Calls)
        BY <1>1, <1>4, HeadTailProperties
      <4> HIDE DEF rest
      <4>4. Picked(rest, "onOpponentMove") = Picked(Tail(rest), "onOpponentMove")
        BY <4>1, <4>2, <4>3, InTail
      <4>5. Tail(rest) = <<>>
        BY <4>2, <4>3, CallsLeft
      <4> QED
        BY <4>4, <4>5, InEmpty DEF rest
    <3> QED
      BY <3>1, <3>2, <3>3
  <2>2. Picked(runLater[p], "onOpponentMove") = {cell} \cup Picked(Tail(runLater[p]), "onOpponentMove")
    BY <1>1, <1>4, InTail DEF MoveQueued
  <2> QED
    BY <1>1, <2>1, <2>2
<1>8. Unseen(p) = {cell} /\ Unseen(p)' = {}
  <2>1. /\ Unseen(p)' = Picked(toClient'[p], "cell") \cup Picked(runLater'[p], "onOpponentMove")
        /\ Unseen(p) = Picked(toClient[p], "cell") \cup Picked(runLater[p], "onOpponentMove")
    BY DEF Unseen, Picked
  <2> QED
    BY <1>1, <1>6, <1>7, <2>1
<1> HIDE DEF cell, other
<1>9. Heard(p)' /\ Mute(p)' /\ LeftBehind(p)' /\ Fresh(p)'
  BY <1>0, <1>1, <1>2, <1>6 DEF BoardInv, Heard, Mute, LeftBehind, Fresh
<1>10. LastWord(p)'
  BY <1>0, <1>1, <1>2 DEF BoardInv, LastWord
<1>11. Spoken(p)'
  <2>1. pc = "start" => toServer[p] = <<>>
    BY <1>0 DEF BoardInv, Spoken
  <2>2. ASSUME pc = "await", toServer[p] # <<>>
        PROVE  /\ activeTurnIdx = p /\ Len(toServer[p]) = 2
               /\ toServer[p][1] = 0 /\ toServer[p][2] \in Positions
               /\ grid[toServer[p][2]] = 0
               /\ shown'[p][toServer[p][2]] = p /\ toServer[p][2] \notin Unseen(p)'
    <3>1. /\ activeTurnIdx = p /\ Len(toServer[p]) = 2
          /\ toServer[p][1] = 0 /\ toServer[p][2] \in Positions
          /\ grid[toServer[p][2]] = 0
          /\ shown[p][toServer[p][2]] = p /\ toServer[p][2] \notin Unseen(p)
      BY <1>0, <1>1, <2>2 DEF BoardInv, Spoken
    <3> QED
      BY <1>3, <1>8, <3>1
  <2> QED
    BY <1>1, <2>1, <2>2 DEF Spoken
<1>12. Views(p)'
  <2> SUFFICES ASSUME InRound(p)', NEW c \in Positions
               PROVE  grid[c] = IF c \in Unseen(p)' THEN dispatch_active_node(p)
                                ELSE IF c \in Unheard(p)' /\ shown'[p][c] = p THEN 0
                                ELSE shown'[p][c]
    BY <1>1 DEF Views
  <2>1. InRound(p) /\ Unheard(p)' = Unheard(p)
    BY <1>1, <1>6 DEF InRound, TurnAhead, Unheard
  <2>2. grid[c] = IF c \in Unseen(p) THEN dispatch_active_node(p)
                  ELSE IF c \in Unheard(p) /\ shown[p][c] = p THEN 0
                  ELSE shown[p][c]
    BY <1>0, <2>1 DEF BoardInv, Views
  <2>3. CASE c = cell
    <3>1. grid[c] = other /\ shown'[p][c] = other
      BY <1>3, <1>8, <2>2, <2>3 DEF other
    <3> QED
      BY <1>4, <1>8, <3>1
  <2>4. CASE c # cell
    BY <1>3, <1>8, <2>1, <2>2, <2>4
  <2> QED
    BY <2>3, <2>4
<1> QED
  BY <1>9, <1>10, <1>11, <1>12 DEF BoardInv

\* The end of the round is shown: the calls left had no mark.
LEMMA HandleGameStatus_Board ==
  ASSUME NEW p \in Faithful, BoardsInv, HandleGameStatus(p)
  PROVE  BoardInv(p)'
<1>0. p \in Players /\ TypeOK /\ StreamInv /\ PlayerInv(p) /\ BoardInv(p)
  BY PlayerBoard
<1>1. /\ link[p] = "open" /\ runLater[p] # <<>> /\ Head(runLater[p])[1] = "onGameStatus"
      /\ toClient'[p] = toClient[p] /\ link'[p] = link[p] /\ toServer'[p] = toServer[p]
      /\ outcomeBuffer'[p] = outcomeBuffer[p]
      /\ UNCHANGED <<pc, activeTurnIdx, grid>>
      /\ runLater'[p] = Tail(runLater[p])
      /\ window'[p] = "asking" /\ reader'[p] = reader[p] /\ shown'[p] = shown[p]
  BY <1>0 DEF HandleGameStatus, FxFree, TypeOK, server, network
<1>2. ~ MoveQueued(p)
  BY <1>1 DEF MoveQueued
<1>3. window[p] = "playing" /\ reader[p] = "ended"
  BY <1>0, <1>1, <1>2, PlayerType DEF PlayerInv, CallsInv
<1>4. Picked(runLater'[p], "onOpponentMove") = Picked(runLater[p], "onOpponentMove")
  <2>1. runLater[p] \in Seq(Calls)
    BY <1>0, PlayerType
  <2>2. Head(runLater[p])[1] # "onOpponentMove"
    BY <1>1
  <2>3. Picked(runLater[p], "onOpponentMove") = Picked(Tail(runLater[p]), "onOpponentMove")
    BY <1>1, <2>1, <2>2, InTail
  <2> QED
    BY <1>1, <2>3
<1>5. Unseen(p)' = Unseen(p) /\ TurnAhead(p)' = TurnAhead(p)
  <2>1. /\ Unseen(p)' = Picked(toClient'[p], "cell") \cup Picked(runLater'[p], "onOpponentMove")
        /\ Unseen(p) = Picked(toClient[p], "cell") \cup Picked(runLater[p], "onOpponentMove")
    BY DEF Unseen, Picked
  <2>2. TurnAhead(p)' = TurnAhead(p)
    BY <1>1 DEF TurnAhead, Kinds
  <2> QED
    BY <1>1, <1>4, <2>1, <2>2
<1>6. Follows(p)' => Follows(p)
  BY <1>1, <1>3 DEF Follows
<1>7. Heard(p)' /\ LastWord(p)'
  BY <1>0, <1>1, <1>3 DEF BoardInv, Heard, LastWord
<1> QED
  BY <1>1, <1>5, <1>6, <1>7, NothingShown DEF BoardInv

\* The verdict is not a mark.
LEMMA AnswerRematch_Board ==
  ASSUME NEW p \in Faithful, BoardsInv, NEW yes \in BOOLEAN, AnswerRematch(p, yes)
  PROVE  BoardInv(p)'
<1> DEFINE half == IF yes THEN OP_APPROVE_REQ ELSE OP_DECLINE_REQ
<1>0. p \in Players /\ TypeOK /\ StreamInv /\ PlayerInv(p) /\ BoardInv(p)
  BY PlayerBoard
<1>1. /\ link[p] = "open" /\ window[p] = "asking"
      /\ toClient'[p] = toClient[p] /\ link'[p] = link[p]
      /\ toServer'[p] = toServer[p] \o <<half>>
      /\ outcomeBuffer'[p] = outcomeBuffer[p]
      /\ UNCHANGED <<pc, activeTurnIdx, grid>>
      /\ runLater'[p] = runLater[p] /\ shown'[p] = shown[p]
      /\ window'[p] = "waiting" /\ reader'[p] = reader[p]
  BY <1>0 DEF AnswerRematch, FxFree, Send, TypeOK, server
<1>2. half \in Halves /\ toServer[p] \in Seq(Halves) /\ toClient[p] \in Seq(Messages)
  BY <1>0, PlayerType DEF OP_APPROVE_REQ, OP_DECLINE_REQ, Halves
<1> HIDE DEF half
<1>3. reader[p] = "ended"
  BY <1>0, <1>1 DEF PlayerInv, CallsInv
<1>4. Follows(p) /\ Follows(p)' /\ Place(p) = "ended"
  BY <1>1, <1>3 DEF Follows, Place
<1>5. pc \notin {"start", "await"} /\ (pc = "polling" => toClient[p] = <<>>)
  <2>1. PICK b \in Places : Path(p, "ended", toClient[p], b) /\ Expects(p, b)
    BY <1>0, <1>4, PlayerScript
  <2>2. (toClient[p] = <<>> /\ b = "ended") \/ b = "over"
    BY <1>2, <2>1, DeadEnds
  <2> QED
    BY <2>1, <2>2 DEF Expects
<1>6. Unseen(p)' = Unseen(p) /\ TurnAhead(p)' = TurnAhead(p)
  BY <1>1 DEF Unseen, TurnAhead, Kinds
<1>7. ~ TurnAhead(p)' \/ pc # "polling"
  <2>1. toClient[p] = <<>> => ~ TurnAhead(p)
    BY InEmpty DEF TurnAhead, Kinds, KindsOf
  <2> QED
    BY <1>5, <1>6, <2>1
<1>8. Heard(p)' /\ LastWord(p)' /\ LeftBehind(p)'
  BY <1>1, <1>3, <1>5 DEF Heard, LastWord, LeftBehind
<1>9. Mute(p)' /\ Spoken(p)'
  BY <1>1, <1>5, <1>7 DEF Mute, Spoken
<1>10. Fresh(p)'
  BY <1>0, <1>1, <1>3, <1>4, <1>6 DEF BoardInv, Fresh
<1>11. Views(p)'
  <2> SUFFICES ASSUME InRound(p)' PROVE InRound(p) /\ Unheard(p)' = Unheard(p)
    BY <1>0, <1>1, <1>6 DEF BoardInv, Views
  <2>1. InRound(p) /\ pc = "polling" /\ outcomeBuffer[p] = NotRead
    BY <1>1, <1>5, <1>6 DEF InRound, TurnAhead
  <2>2. toServer[p] = <<>> \/ Len(toServer[p]) = 2
    BY <1>0, <1>1, <2>1 DEF BoardInv, Heard
  <2> DEFINE more == toServer[p] \o <<half>>
  <2>3. /\ Len(more) = Len(toServer[p]) + 1
        /\ \A i \in 1 .. Len(toServer[p]) : more[i] = toServer[p][i]
    <3>1. <<half>> \in Seq(Halves) /\ Len(<<half>>) = 1
      BY <1>2
    <3> QED
      BY <1>2, <3>1, ConcatProperties
  <2>4. toServer'[p] = more
    BY <1>1
  <2> HIDE DEF more
  <2>5. CASE toServer[p] = <<>>
    <3>1. Len(toServer[p]) = 0
      BY <2>5
    <3>2. Len(toServer'[p]) = 1
      BY <2>3, <2>4, <3>1
    <3> QED
      BY <2>1, <3>1, <3>2 DEF Unheard
  <2>6. CASE Len(toServer[p]) = 2
    <3>1. Len(toServer'[p]) = 3 /\ toServer'[p][2] = toServer[p][2]
      BY <2>3, <2>4, <2>6
    <3> QED
      BY <2>1, <2>6, <3>1 DEF Unheard
  <2> QED
    BY <2>2, <2>5, <2>6
<1> QED
  BY <1>8, <1>9, <1>10, <1>11 DEF BoardInv

\* Nor is the reply.
LEMMA ReadReply_Board ==
  ASSUME NEW p \in Faithful, BoardsInv, ReadReply(p)
  PROVE  BoardInv(p)'
<1>0. p \in Players /\ TypeOK /\ StreamInv /\ PlayerInv(p) /\ BoardInv(p)
  BY PlayerBoard
<1>1. /\ link[p] = "open" /\ window[p] = "waiting" /\ toClient[p] # <<>>
      /\ toClient'[p] = Tail(toClient[p]) /\ link'[p] = link[p] /\ toServer'[p] = toServer[p]
      /\ outcomeBuffer'[p] = outcomeBuffer[p]
      /\ UNCHANGED <<pc, activeTurnIdx, grid>>
      /\ runLater'[p] = runLater[p] /\ shown'[p] = shown[p] /\ reader'[p] = reader[p]
  BY <1>0 DEF ReadReply, TypeOK, server
<1>2. reader[p] = "ended"
  BY <1>0, <1>1 DEF PlayerInv, CallsInv
<1>3. Follows(p) /\ Place(p) = "reply"
  BY <1>1, <1>2 DEF Follows, Place
<1>4. toClient[p] \in Seq(Messages)
  BY <1>0, PlayerType
<1>5. Head(toClient[p])[1] = "rematch"
  BY <1>0, <1>1, <1>3, HeadIsExpected DEF Reads
<1>6. /\ KindsOf(toClient[p]) = {"rematch"} \cup KindsOf(Tail(toClient[p]))
      /\ Picked(toClient[p], "cell") = Picked(Tail(toClient[p]), "cell")
  BY <1>1, <1>4, <1>5, InTail
<1>7. Unseen(p)' = Unseen(p)
  <2>1. /\ Unseen(p)' = Picked(toClient'[p], "cell") \cup Picked(runLater'[p], "onOpponentMove")
        /\ Unseen(p) = Picked(toClient[p], "cell") \cup Picked(runLater[p], "onOpponentMove")
    BY DEF Unseen, Picked
  <2> QED
    BY <1>1, <1>6, <2>1
<1>8. TurnAhead(p)' = TurnAhead(p)
  <2>1. /\ TurnAhead(p)' <=> "turn" \in KindsOf(toClient'[p])
        /\ TurnAhead(p) <=> "turn" \in KindsOf(toClient[p])
    BY DEF TurnAhead, Kinds, KindsOf
  <2>2. TurnAhead(p)' <=> TurnAhead(p)
    BY <1>1, <1>6, <2>1
  <2> QED
    BY <2>2 DEF TurnAhead
<1>9. Heard(p)' /\ LastWord(p)'
  BY <1>0, <1>1, <1>2 DEF BoardInv, Heard, LastWord
<1> QED
  BY <1>1, <1>2, <1>3, <1>7, <1>8, <1>9, NothingShown DEF BoardInv

\* No reply comes.
LEMMA ReplyTimesOut_Board ==
  ASSUME NEW p \in Faithful, BoardsInv, ReplyTimesOut(p)
  PROVE  BoardInv(p)'
<1>0. p \in Players /\ TypeOK /\ StreamInv /\ PlayerInv(p) /\ BoardInv(p)
  BY PlayerBoard
<1>1. /\ window[p] = "waiting" /\ window'[p] = "over"
      /\ toClient'[p] = toClient[p] /\ link'[p] = link[p] /\ toServer'[p] = toServer[p]
      /\ outcomeBuffer'[p] = outcomeBuffer[p]
      /\ UNCHANGED <<pc, activeTurnIdx, grid>>
      /\ runLater'[p] = runLater[p] /\ shown'[p] = shown[p] /\ reader'[p] = reader[p]
  BY <1>0 DEF ReplyTimesOut, TypeOK, server, network
<1>2. reader[p] = "ended"
  BY <1>0, <1>1 DEF PlayerInv, CallsInv
<1>3. Unseen(p)' = Unseen(p) /\ TurnAhead(p)' = TurnAhead(p) /\ ~ Follows(p)'
  BY <1>1 DEF Unseen, TurnAhead, Kinds, Follows
<1>4. Heard(p)' /\ LastWord(p)'
  BY <1>0, <1>1, <1>2 DEF BoardInv, Heard, LastWord
<1> QED
  BY <1>1, <1>2, <1>3, <1>4, NothingShown DEF BoardInv

\* The board is wiped by a player who has not begun the round being played.
LEMMA PlayAgain_Board ==
  ASSUME NEW p \in Faithful, BoardsInv, PlayAgain(p)
  PROVE  BoardInv(p)'
<1>0. p \in Players /\ TypeOK /\ StreamInv /\ PlayerInv(p) /\ BoardInv(p)
  BY PlayerBoard
<1>1. /\ window[p] = "agreed" /\ link[p] = "open"
      /\ toClient'[p] = toClient[p] /\ link'[p] = link[p] /\ toServer'[p] = toServer[p]
      /\ outcomeBuffer'[p] = outcomeBuffer[p]
      /\ UNCHANGED <<pc, activeTurnIdx, grid>>
      /\ runLater'[p] = runLater[p]
      /\ shown'[p] = wipe_topological_grid
      /\ reader'[p] = "first" /\ window'[p] = "playing"
  BY <1>0 DEF PlayAgain, FxFree, TypeOK, server, network
<1>2. reader[p] = "ended"
  BY <1>0, <1>1 DEF PlayerInv, CallsInv
<1>3. Follows(p) /\ Place(p) = "first" /\ "first" \in Places
  BY <1>1, <1>2 DEF Follows, Place, Places
<1>4. pc \in {"await", "polling"} => TurnAhead(p)
  <2> SUFFICES ASSUME pc \in {"await", "polling"} PROVE TurnAhead(p)
    OBVIOUS
  <2>1. PICK b \in Places : Path(p, "first", toClient[p], b) /\ Expects(p, b)
    BY <1>0, <1>3, PlayerScript
  <2>2. b # "first"
    BY <2>1 DEF Expects
  <2>3. toClient[p] # <<>>
    BY <1>3, <2>1, <2>2, NoPath
  <2>4. Head(toClient[p])[1] = "turn"
    BY <1>0, <1>3, <2>3, HeadIsExpected DEF Reads
  <2>5. "turn" \in KindsOf(toClient[p])
    BY <1>0, <2>3, <2>4, PlayerType, InTail
  <2> QED
    BY <2>5 DEF TurnAhead, Kinds, KindsOf
<1>5. Unseen(p)' = Unseen(p) /\ TurnAhead(p)' = TurnAhead(p)
  BY <1>1 DEF Unseen, TurnAhead, Kinds
<1>6. Heard(p)' /\ LastWord(p)'
  BY <1>0, <1>1 DEF BoardInv, Heard, LastWord
<1>7. Mute(p)' /\ LeftBehind(p)'
  BY <1>0, <1>1, <1>5 DEF BoardInv, Mute, LeftBehind
<1>8. Spoken(p)'
  BY <1>0, <1>1, <1>4 DEF BoardInv, Mute, Spoken
<1>9. Fresh(p)'
  BY <1>0, <1>1, <1>3, <1>5 DEF BoardInv, Fresh
<1>10. Views(p)'
  <2>1. ~ InRound(p)'
    BY <1>1, <1>4, <1>5 DEF InRound, TurnAhead
  <2> QED
    BY <2>1 DEF Views
<1> QED
  BY <1>6, <1>7, <1>8, <1>9, <1>10 DEF BoardInv

\* The program of p stops.
LEMMA Quit_Board ==
  ASSUME NEW p \in Faithful, BoardsInv, Quit(p)
  PROVE  BoardInv(p)'
<1>0. p \in Players /\ TypeOK /\ StreamInv /\ PlayerInv(p) /\ BoardInv(p)
  BY PlayerBoard
<1>1. /\ link[p] = "open" /\ link'[p] # "open" /\ toClient'[p] = <<>>
      /\ toServer'[p] = toServer[p] \/ toServer'[p] = <<>>
      /\ UNCHANGED <<pc, activeTurnIdx, grid, outcomeBuffer, client>>
  BY <1>0 DEF Quit, TypeOK, server
<1>2. shown'[p] = shown[p] /\ reader'[p] = reader[p] /\ window'[p] = window[p]
  BY <1>1 DEF client
<1>3. ~ TurnAhead(p)' /\ ~ Follows(p)' /\ ~ InRound(p)'
  BY <1>1, InEmpty DEF TurnAhead, Kinds, KindsOf, Follows, InRound
<1>4. Heard(p)' /\ LastWord(p)' /\ Mute(p)' /\ Views(p)'
  BY <1>1, <1>3 DEF Heard, LastWord, Mute, Views
<1>5. LeftBehind(p)'
  BY <1>0, <1>1 DEF PlayerInv, Consents, LeftBehind
<1>6. Spoken(p)'
  BY <1>0, <1>1 DEF BoardInv, Spoken
<1>7. Fresh(p)'
  BY <1>0, <1>2, <1>3 DEF BoardInv, Fresh
<1> QED
  BY <1>4, <1>5, <1>6, <1>7 DEF BoardInv

\* A step of the program of p.
LEMMA ClientStep_Board ==
  ASSUME NEW p \in Faithful, BoardsInv, ReaderStep(p) \/ FxStep(p) \/ Quit(p)
  PROVE  BoardInv(p)'
<1>1. p \in Players /\ p \notin Pollers /\ fetching[p] = "no"
  BY PlayerBoard DEF Faithful, PlayerInv, CallsInv
<1>2. CASE ReaderStep(p)
  BY <1>2, ReadFirstTurn_Board, RenewEngine_Board, ReadOpponentMove_Board,
     ReadStatus_Board, ReaderTimesOut_Board DEF ReaderStep
<1>3. CASE FxStep(p)
  BY <1>1, <1>3, Click_Board, HandleOpponentMove_Board, HandleGameStatus_Board,
     AnswerRematch_Board, ReadReply_Board, ReplyTimesOut_Board, PlayAgain_Board
     DEF FxStep, FetchLedger, FetchReads, SwallowMessage, FetchEnds
<1> QED
  BY <1>2, <1>3, Quit_Board

\* A step of the other program.
LEMMA OtherStep_Board ==
  ASSUME NEW p \in Faithful, BoardsInv, NEW q \in Players \ {p},
         ReaderStep(q) \/ FxStep(q) \/ Quit(q)
  PROVE  BoardInv(p)'
<1>0. p \in Players /\ TypeOK /\ BoardInv(p)
  BY PlayerBoard
<1>1. UNCHANGED server /\ UNCHANGED View(p) /\ shown'[p] = shown[p]
  BY <1>0, OtherStepLeaves
<1> QED
  BY <1>0, <1>1, BoardBystander DEF server

-----------------------------------------------------------------------------
(* The invariant, and what it is for. *)

LEMMA Init_BoardsInv == Init => BoardsInv
<1> SUFFICES ASSUME Init, NEW p \in Faithful PROVE BlankAtStart /\ BoardInv(p)
  BY Init_StreamInv DEF BoardsInv, Init, BlankAtStart
<1>1. /\ pc = "start" /\ p \in Players /\ grid = wipe_topological_grid
      /\ toServer[p] = <<>> /\ toClient[p] = <<>> /\ reader[p] = "first"
      /\ shown[p] = wipe_topological_grid
  BY DEF Init, NoMarks, Faithful
<1>2. ~ TurnAhead(p)
  BY <1>1, InEmpty DEF TurnAhead, Kinds, KindsOf
<1>3. Heard(p) /\ Mute(p) /\ LastWord(p) /\ LeftBehind(p) /\ Spoken(p)
  BY <1>1 DEF Heard, Mute, LastWord, LeftBehind, Spoken
<1>4. Fresh(p) /\ Views(p)
  BY <1>1, <1>2 DEF Fresh, Views, InRound
<1> QED
  BY <1>1, <1>3, <1>4 DEF BlankAtStart, BoardInv

LEMMA Next_BoardsInv == BoardsInv /\ [Next]_vars => BoardsInv'
<1> SUFFICES ASSUME BoardsInv, [Next]_vars PROVE BoardsInv'
  OBVIOUS
<1>1. StreamInv'
  BY Next_StreamInv DEF BoardsInv
<1>2. BlankAtStart'
  <2> SUFFICES ASSUME pc' = "start" PROVE grid' = wipe_topological_grid
    BY DEF BlankAtStart
  <2>1. CASE StartRound
    BY <2>1 DEF StartRound, SendAll
  <2>2. CASE ReceiveMove
    <3> DEFINE after == IF core_status' = Undecided THEN "await" ELSE "polling"
    <3>1. pc' = "killed" \/ \E sent : SendAll(sent, after)
      BY <2>2 DEF ReceiveMove
    <3> QED
      BY <3>1 DEF SendAll
  <2>3. CASE AbandonRound
    BY <2>3 DEF AbandonRound
  <2>4. CASE \E p \in Players : PollVerdict(p)
    BY <2>4 DEF PollVerdict
  <2>5. CASE JoinVerdicts
    <3> DEFINE after == IF Approved THEN "start" ELSE "done"
    <3>1. (\E sent : SendAll(sent, after)) /\ (Approved => grid' = wipe_topological_grid)
      BY <2>5 DEF JoinVerdicts
    <3>2. Approved
      BY <3>1 DEF SendAll
    <3> QED
      BY <3>1, <3>2
  <2>6. CASE UNCHANGED server
    BY <2>6 DEF BoardsInv, BlankAtStart, server
  <2>7. CASE \E q \in Players : ReaderStep(q) \/ FxStep(q) \/ Quit(q)
    BY <2>6, <2>7, ClientsLeaveServer
  <2> QED
    BY <2>1, <2>2, <2>3, <2>4, <2>5, <2>6, <2>7 DEF Next, ServerStep, Terminated, vars
<1>3. ASSUME NEW p \in Faithful PROVE BoardInv(p)'
  <2>0. p \in Players /\ BoardInv(p)
    BY PlayerBoard
  <2>1. CASE ServerStep
    BY <2>1, ServerStep_Board
  <2>2. CASE \E q \in Players : ReaderStep(q) \/ FxStep(q) \/ Quit(q)
    <3>1. PICK q \in Players : ReaderStep(q) \/ FxStep(q) \/ Quit(q)
      BY <2>2
    <3>2. CASE q = p
      BY <3>1, <3>2, ClientStep_Board
    <3>3. CASE q # p
      BY <3>1, <3>3, OtherStep_Board
    <3> QED
      BY <3>2, <3>3
  <2>3. CASE UNCHANGED vars
    <3>1. UNCHANGED <<pc, activeTurnIdx, grid>> /\ UNCHANGED View(p) /\ shown'[p] = shown[p]
      BY <2>3 DEF vars, server, network, client, View
    <3> QED
      BY <2>0, <3>1, BoardBystander
  <2> QED
    BY <2>1, <2>2, <2>3 DEF Next, Terminated
<1> QED
  BY <1>1, <1>2, <1>3 DEF BoardsInv

LEMMA BoardsInductive == Spec => []BoardsInv
<1> QED
  BY Init_BoardsInv, Next_BoardsInv, PTL DEF Spec

\* What a player sees is the grid of the server, but for the marks on their way
\* from one to the other: execute_core_loop, the reader threads of GameClient
\* and the FX threads of GameController, over any number of rounds.
THEOREM ViewsAlwaysReconcile == Spec => []ViewsReconcile
<1>1. BoardsInv => ViewsReconcile
  BY DEF BoardsInv, BoardInv, Views, ViewsReconcile
<1> QED
  BY <1>1, BoardsInductive, PTL

\* The server is sent one whole move to a free cell, by the node it waits for,
\* though execute_core_loop checks neither.
THEOREM OnlyTheActingNodeEverSpeaks == Spec => []OnlyTheActingNodeSpeaks
<1>1. BoardsInv => OnlyTheActingNodeSpeaks
  BY DEF BoardsInv, BoardInv, Spoken, OnlyTheActingNodeSpeaks
<1> QED
  BY <1>1, BoardsInductive, PTL

-----------------------------------------------------------------------------
(* The two records of the marks each client keeps. *)

\* What the two threads of p share.
Desk(p) == <<reader[p], runLater[p], has_token_control[p], engine[p], shown[p], window[p]>>

\* A cell that is free to see is free on the board of TrisGame, from when the
\* reader has renewed it; a reader that gave up before leaves no move to make.
DeskInv(p) ==
  /\ window[p] # "playing" => reader[p] = "ended" /\ runLater[p] = <<>>
  /\ reader[p] \in {"first", "freshOwn", "freshOpp"} => runLater[p] = <<>>
  /\ reader[p] = "first" => ~ has_token_control[p]
  /\ \A i \in 1 .. Len(runLater[p]) :
       runLater[p][i][1] = "onGameStatus" <=> i = Len(runLater[p]) /\ reader[p] = "ended"
  /\ reader[p] \notin {"first", "freshOwn", "freshOpp"} =>
       \/ reader[p] = "broken" /\ ~ has_token_control[p] /\ runLater[p] = <<>>
       \/ \A cell \in Positions : shown[p][cell] = 0 => engine[p][cell] = 0

DesksInv == TypeOK /\ \A p \in Players : DeskInv(p)

LEMMA DeskBystander ==
  ASSUME NEW p \in Players, DesksInv, UNCHANGED Desk(p)
  PROVE  DeskInv(p)'
<1>1. UNCHANGED <<reader[p], runLater[p], has_token_control[p], engine[p], shown[p], window[p]>>
  BY DEF Desk
<1> QED
  BY <1>1 DEF DesksInv, DeskInv

\* The reader leaves calls and renews the board.
LEMMA ReaderStep_Desk ==
  ASSUME NEW p \in Players, DesksInv, ReaderStep(p)
  PROVE  DeskInv(p)'
<1>0. TypeOK /\ DeskInv(p) /\ runLater[p] \in Seq(Calls)
  BY DEF DesksInv, TypeOK
<1>1. reader[p] # "ended" /\ window'[p] = window[p] /\ window[p] = "playing" /\ shown'[p] = shown[p]
  <2>1. reader[p] # "ended" /\ window'[p] = window[p] /\ shown'[p] = shown[p]
    BY <1>0 DEF ReaderStep, ReadFirstTurn, RenewEngine, ReadOpponentMove, ReadStatus,
                ReaderTimesOut, Reading, TypeOK
  <2> QED
    BY <1>0, <2>1 DEF DeskInv
<1>2. CASE ReadFirstTurn(p)
  <2>1. reader[p] = "first" /\ reader'[p] \in {"freshOwn", "freshOpp"} /\ runLater'[p] = runLater[p]
    BY <1>0, <1>2 DEF ReadFirstTurn, Reading, TypeOK
  <2>2. runLater'[p] = <<>>
    BY <1>0, <2>1 DEF DeskInv
  <2>3. Len(runLater'[p]) = 0
    BY <2>2
  <2> QED
    BY <1>1, <2>1, <2>2, <2>3 DEF DeskInv
<1>3. CASE RenewEngine(p)
  <2>1. /\ reader[p] \in {"freshOwn", "freshOpp"} /\ reader'[p] \in {"ownStatus", "oppMove"}
        /\ runLater'[p] = runLater[p] /\ engine'[p] = wipe_topological_grid
    BY <1>0, <1>3 DEF RenewEngine, TypeOK
  <2>2. runLater'[p] = <<>>
    BY <1>0, <2>1 DEF DeskInv
  <2>3. Len(runLater'[p]) = 0
    BY <2>2
  <2> QED
    BY <1>1, <2>1, <2>2, <2>3 DEF DeskInv, wipe_topological_grid
<1>4. CASE ReadOpponentMove(p)
  <2> DEFINE call == <<"onOpponentMove", Received(p)>>
  <2>1. /\ reader[p] = "oppMove" /\ reader'[p] = "oppStatus" /\ engine'[p] = engine[p]
        /\ runLater'[p] = Append(runLater[p], call)
    BY <1>0, <1>4 DEF ReadOpponentMove, Reading, TypeOK
  <2>2. \A i \in 1 .. Len(runLater'[p]) : runLater'[p][i][1] # "onGameStatus"
    <3>1. call[1] = "onOpponentMove" /\ call \in Calls
      <4>1. Received(p) \in Int
        BY <1>0, <1>4, ReadIntType DEF ReadOpponentMove, Reading
      <4> QED
        BY <4>1 DEF Calls
    <3> HIDE DEF call
    <3>2. /\ Len(runLater'[p]) = Len(runLater[p]) + 1
          /\ \A i \in 1 .. Len(runLater[p]) : runLater'[p][i] = runLater[p][i]
          /\ runLater'[p][Len(runLater[p]) + 1] = call
      BY <1>0, <2>1, <3>1, AppendProperties
    <3>3. \A i \in 1 .. Len(runLater[p]) : runLater[p][i][1] # "onGameStatus"
      BY <1>0, <2>1 DEF DeskInv
    <3> QED
      BY <1>0, <3>1, <3>2, <3>3
  <2> QED
    BY <1>0, <1>1, <2>1, <2>2 DEF DeskInv
<1>5. CASE ReadStatus(p)
  <2> DEFINE call == <<"onGameStatus", Received(p)>>
  <2>1. /\ reader[p] \in {"ownStatus", "oppStatus"} /\ engine'[p] = engine[p]
        /\ \/ runLater'[p] = runLater[p] /\ reader'[p] \in {"ownStatus", "oppMove"}
           \/ runLater'[p] = Append(runLater[p], call) /\ reader'[p] = "ended"
    BY <1>0, <1>5 DEF ReadStatus, Reading, TypeOK
  <2>2. \A i \in 1 .. Len(runLater'[p]) :
          runLater'[p][i][1] = "onGameStatus" <=> i = Len(runLater'[p]) /\ reader'[p] = "ended"
    <3>1. call[1] = "onGameStatus" /\ call \in Calls
      <4>1. Received(p) \in Int
        BY <1>0, <1>5, ReadIntType DEF ReadStatus, Reading
      <4> QED
        BY <4>1 DEF Calls
    <3> HIDE DEF call
    <3>2. \A i \in 1 .. Len(runLater[p]) : runLater[p][i][1] # "onGameStatus"
      BY <1>0, <2>1 DEF DeskInv
    <3>3. CASE runLater'[p] = runLater[p] /\ reader'[p] # "ended"
      BY <3>2, <3>3
    <3>4. CASE runLater'[p] = Append(runLater[p], call) /\ reader'[p] = "ended"
      <4>1. /\ Len(runLater'[p]) = Len(runLater[p]) + 1
            /\ \A i \in 1 .. Len(runLater[p]) : runLater'[p][i] = runLater[p][i]
            /\ runLater'[p][Len(runLater[p]) + 1] = call
        BY <1>0, <3>1, <3>4, AppendProperties
      <4> QED
        BY <1>0, <3>1, <3>2, <3>4, <4>1
    <3> QED
      BY <2>1, <3>3, <3>4
  <2> QED
    BY <1>0, <1>1, <2>1, <2>2 DEF DeskInv
<1>6. CASE ReaderTimesOut(p)
  <2>1. /\ reader[p] \in {"first", "ownStatus", "oppMove", "oppStatus"} /\ reader'[p] = "broken"
        /\ runLater'[p] = runLater[p] /\ engine'[p] = engine[p]
        /\ has_token_control'[p] = has_token_control[p]
    BY <1>0, <1>6 DEF ReaderTimesOut, TypeOK
  <2> QED
    BY <1>0, <1>1, <2>1 DEF DeskInv
<1> QED
  BY <1>2, <1>3, <1>4, <1>5, <1>6 DEF ReaderStep

\* A click marks both records, and gives up the token.
LEMMA Click_Desk ==
  ASSUME NEW p \in Players, DesksInv, NEW cell \in Playable[p], Click(p, cell)
  PROVE  DeskInv(p)'
<1>0. TypeOK /\ DeskInv(p) /\ shown[p] \in Grids(Marked) /\ engine[p] \in Grids(Marked)
      /\ cell \in Positions /\ p # 0
  BY BoundsAssumption, NodesAssumption DEF DesksInv, TypeOK, Players
<1>1. /\ reader'[p] = reader[p] /\ runLater'[p] = runLater[p] /\ window'[p] = window[p]
      /\ has_token_control[p] /\ ~ has_token_control'[p]
      /\ engine'[p] = PutMark(engine[p], cell, p) /\ shown'[p] = PutMark(shown[p], cell, p)
  BY <1>0 DEF Click, TypeOK
<1>2. \A c \in Positions : /\ shown'[p][c] = IF c = cell THEN p ELSE shown[p][c]
                           /\ engine'[p][c] = IF c = cell THEN p ELSE engine[p][c]
  BY <1>0, <1>1 DEF PutMark, Grids
<1>3. reader[p] \notin {"first", "freshOwn", "freshOpp"} =>
        \A c \in Positions : shown[p][c] = 0 => engine[p][c] = 0
  BY <1>0, <1>1 DEF DeskInv
<1>4. reader[p] \notin {"first", "freshOwn", "freshOpp"} =>
        \A c \in Positions : shown'[p][c] = 0 => engine'[p][c] = 0
  BY <1>0, <1>2, <1>3
<1> QED
  BY <1>0, <1>1, <1>4 DEF DeskInv

\* applyOpponentMove and mutateCellState mark the same cell.
LEMMA HandleOpponentMove_Desk ==
  ASSUME NEW p \in Players, DesksInv, HandleOpponentMove(p)
  PROVE  DeskInv(p)'
<1> DEFINE cell == Head(runLater[p])[2]
           other == dispatch_active_node(p)
<1>0. TypeOK /\ DeskInv(p) /\ shown[p] \in Grids(Marked) /\ engine[p] \in Grids(Marked)
      /\ runLater[p] \in Seq(Calls) /\ other # 0
  BY NodesAssumption DEF DesksInv, TypeOK, dispatch_active_node
<1>1. /\ reader'[p] = reader[p] /\ window'[p] = window[p]
      /\ runLater[p] # <<>> /\ Head(runLater[p])[1] = "onOpponentMove"
      /\ runLater'[p] = Tail(runLater[p])
  BY <1>0 DEF HandleOpponentMove, TypeOK
<1>2. /\ window[p] = "playing" /\ reader[p] \notin {"first", "freshOwn", "freshOpp"}
      /\ \A c \in Positions : shown[p][c] = 0 => engine[p][c] = 0
  BY <1>0, <1>1 DEF DeskInv
<1>3. \A c \in Positions : shown'[p][c] = 0 => engine'[p][c] = 0
  <2> HIDE DEF cell, other
  <2>1. CASE cell \in Positions
    <3>1. /\ shown'[p] = PutMark(shown[p], cell, other)
          /\ engine'[p] = applyOpponentMove(engine[p], cell, other)
      BY <1>0, <2>1 DEF HandleOpponentMove, TypeOK, cell, other
    <3>2. \A c \in Positions : /\ shown'[p][c] = IF c = cell THEN other ELSE shown[p][c]
                               /\ c # cell => engine'[p][c] = engine[p][c]
      BY <1>0, <2>1, <3>1 DEF PutMark, applyOpponentMove, Grids
    <3> QED
      BY <1>0, <1>2, <3>2
  <2>2. CASE cell \notin Positions
    <3>1. shown' = shown /\ engine' = engine
      BY <2>2 DEF HandleOpponentMove, cell
    <3> QED
      BY <1>2, <3>1
  <2> QED
    BY <2>1, <2>2
<1>4. \A i \in 1 .. Len(runLater'[p]) :
        runLater'[p][i][1] = "onGameStatus" <=> i = Len(runLater'[p]) /\ reader[p] = "ended"
  <2> SUFFICES ASSUME NEW i \in 1 .. Len(runLater'[p])
               PROVE  runLater'[p][i][1] = "onGameStatus" <=> i = Len(runLater'[p]) /\ reader[p] = "ended"
    OBVIOUS
  <2>1. /\ Len(runLater[p]) \in Nat /\ Len(runLater'[p]) = Len(runLater[p]) - 1
        /\ runLater'[p][i] = runLater[p][i + 1] /\ i + 1 \in 1 .. Len(runLater[p])
    BY <1>0, <1>1, HeadTailProperties
  <2>2. runLater[p][i + 1][1] = "onGameStatus" <=> i + 1 = Len(runLater[p]) /\ reader[p] = "ended"
    BY <1>0, <2>1 DEF DeskInv
  <2> QED
    BY <2>1, <2>2
<1> QED
  BY <1>1, <1>2, <1>3, <1>4 DEF DeskInv

\* The end of the round is the last call.
LEMMA HandleGameStatus_Desk ==
  ASSUME NEW p \in Players, DesksInv, HandleGameStatus(p)
  PROVE  DeskInv(p)'
<1>0. TypeOK /\ DeskInv(p) /\ runLater[p] \in Seq(Calls)
  BY DEF DesksInv, TypeOK
<1>1. /\ reader'[p] = reader[p] /\ engine'[p] = engine[p] /\ shown'[p] = shown[p]
      /\ runLater[p] # <<>> /\ Head(runLater[p])[1] = "onGameStatus"
      /\ runLater'[p] = Tail(runLater[p])
  BY <1>0 DEF HandleGameStatus, TypeOK
<1>2. Len(runLater[p]) \in Nat \ {0} /\ Head(runLater[p]) = runLater[p][1]
  BY <1>0, <1>1, HeadTailProperties
<1>3. Len(runLater[p]) = 1 /\ reader[p] = "ended"
  <2>1. 1 \in 1 .. Len(runLater[p])
    BY <1>2
  <2> QED
    BY <1>0, <1>1, <1>2, <2>1 DEF DeskInv
<1>4. runLater'[p] = <<>>
  BY <1>0, <1>1, <1>3, CallsLeft
<1>5. \A i \in 1 .. Len(runLater'[p]) : FALSE
  BY <1>4, EmptySeq
<1>6. \A c \in Positions : shown'[p][c] = 0 => engine'[p][c] = 0
  BY <1>0, <1>1, <1>3, Zenon DEF DeskInv
<1>7. reader'[p] = "ended"
  BY <1>1, <1>3
<1> QED
  BY <1>4, <1>5, <1>6, <1>7 DEF DeskInv

\* The steps of the dialog touch no mark, but for the wiping of the buttons.
LEMMA Dialog_Desk ==
  ASSUME NEW p \in Players, DesksInv,
         \/ \E yes \in BOOLEAN : AnswerRematch(p, yes)
         \/ ReadReply(p) \/ ReplyTimesOut(p) \/ PlayAgain(p)
  PROVE  DeskInv(p)'
<1>0. TypeOK /\ DeskInv(p)
  BY DEF DesksInv
<1>1. window[p] # "playing" /\ runLater'[p] = runLater[p] /\ engine'[p] = engine[p]
  BY <1>0 DEF AnswerRematch, ReadReply, ReplyTimesOut, PlayAgain, TypeOK
<1>2. reader[p] = "ended" /\ runLater[p] = <<>>
  BY <1>0, <1>1 DEF DeskInv
<1>3. Len(runLater'[p]) = 0
  BY <1>1, <1>2
<1>4. CASE PlayAgain(p)
  <2>1. reader'[p] = "first" /\ window'[p] = "playing" /\ has_token_control'[p] = FALSE
    BY <1>0, <1>4 DEF PlayAgain, TypeOK
  <2> QED
    BY <1>1, <1>2, <1>3, <2>1 DEF DeskInv
<1>5. CASE ~ PlayAgain(p)
  <2>1. reader'[p] = reader[p] /\ shown'[p] = shown[p]
    BY <1>0, <1>5 DEF AnswerRematch, ReadReply, ReplyTimesOut, TypeOK
  <2> QED
    BY <1>0, <1>1, <1>2, <1>3, <2>1 DEF DeskInv
<1> QED
  BY <1>4, <1>5

LEMMA Next_DesksInv == DesksInv /\ [Next]_vars => DesksInv'
<1> SUFFICES ASSUME DesksInv, [Next]_vars PROVE DesksInv'
  OBVIOUS
<1>1. TypeOK'
  BY Next_TypeOK DEF DesksInv
<1>2. ASSUME NEW p \in Players PROVE DeskInv(p)'
  <2>1. CASE ServerStep
    <3>1. UNCHANGED client
      BY <2>1 DEF ServerStep, StartRound, ReceiveMove, AbandonRound, PollVerdict, JoinVerdicts
    <3>2. UNCHANGED Desk(p)
      BY <3>1 DEF client, Desk
    <3> QED
      BY <3>2, DeskBystander
  <2>2. ASSUME NEW q \in Players \ {p}, ReaderStep(q) \/ FxStep(q) \/ Quit(q) PROVE DeskInv(p)'
    <3>0. TypeOK /\ q \in Players /\ q # p
      BY DEF DesksInv
    <3>1. UNCHANGED View(p) /\ shown'[p] = shown[p]
      BY <2>2, <3>0, OtherStepLeaves
    <3>2. engine'[p] = engine[p]
      <4>1. CASE ReaderStep(q)
        BY <3>0, <4>1, ReaderStepLeaves DEF Own
      <4>2. CASE FxStep(q)
        BY <3>0, <4>2, FxStepLeaves DEF Own
      <4>3. CASE Quit(q)
        BY <4>3 DEF Quit, client
      <4> QED
        BY <2>2, <4>1, <4>2, <4>3
    <3> QED
      BY <3>1, <3>2, DeskBystander DEF View, Desk
  <2>3. CASE ReaderStep(p)
    BY <2>3, ReaderStep_Desk
  <2>4. CASE FxStep(p)
    <3>1. CASE FetchLedger(p) \/ FetchReads(p) \/ SwallowMessage(p) \/ FetchEnds(p)
      <4>1. UNCHANGED Desk(p)
        BY <3>1 DEF FetchLedger, FetchReads, SwallowMessage, FetchEnds, client, Desk
      <4> QED
        BY <4>1, DeskBystander
    <3> QED
      BY <2>4, <3>1, Click_Desk, HandleOpponentMove_Desk, HandleGameStatus_Desk, Dialog_Desk DEF FxStep
  <2>5. CASE Quit(p) \/ UNCHANGED vars
    <3>1. UNCHANGED client
      BY <2>5 DEF Quit, vars
    <3>2. UNCHANGED Desk(p)
      BY <3>1 DEF client, Desk
    <3> QED
      BY <3>2, DeskBystander
  <2> QED
    BY <2>1, <2>2, <2>3, <2>4, <2>5 DEF Next, Terminated
<1> QED
  BY <1>1, <1>2 DEF DesksInv

LEMMA Init_DesksInv == Init => DesksInv
<1> SUFFICES ASSUME Init, NEW p \in Players PROVE DeskInv(p)
  BY Init_TypeOK DEF DesksInv
<1>1. reader[p] = "first" /\ runLater[p] = <<>> /\ window[p] = "playing" /\ ~ has_token_control[p]
  BY DEF Init
<1>2. Len(runLater[p]) = 0
  BY <1>1
<1> QED
  BY <1>1, <1>2 DEF DeskInv

\* The board of TrisGame, written by the reader (RenewEngine) and by the FX
\* thread, refuses no cell whose button the user can press, in a match that
\* the lobby polls too.
THEOREM NoMoveEverRefused == Spec => []NoMoveRefused
<1>1. DesksInv => NoMoveRefused
  BY DEF DesksInv, DeskInv, NoMoveRefused, MayMove
<1> QED
  BY <1>1, Init_DesksInv, Next_DesksInv, PTL DEF Spec

-----------------------------------------------------------------------------
(***************************************************************************)
(* Rematches.  What a player writes comes in pairs of halves, the first    *)
(* zero, but for its verdict, which is one half: the thread that polls     *)
(* takes one half, and takes none of a pair for a yes.                     *)
(***************************************************************************)
Pairs(s) == /\ Len(s) % 2 = 0
            /\ \A i \in 1 .. Len(s) : i % 2 = 1 => s[i] = 0

\* Pairs, a verdict, and the pairs of a lobby that polls.
HasVerdict(s, yes) ==
  /\ Len(s) % 2 = 1
  /\ \E k \in 1 .. Len(s) :
       /\ k % 2 = 1
       /\ s[k] \in {OP_APPROVE_REQ, OP_DECLINE_REQ}
       /\ s[k] = OP_APPROVE_REQ => yes
       /\ \A i \in 1 .. Len(s) : /\ i < k /\ i % 2 = 1 => s[i] = 0
                                 /\ i > k /\ i % 2 = 0 => s[i] = 0

Renewal == <<"rematch", OP_APPROVE_REQ>>
NoRenewal(m) == \A i \in 1 .. Len(m) : m[i] # Renewal
OneRenewal(m) == \A i, j \in 1 .. Len(m) : m[i] = Renewal /\ m[j] = Renewal => i = j

\* Where the verdict of p may be, by what its polling thread has returned:
\* not given, or given for an earlier round whose renewal is read; on its way;
\* given for an earlier round whose renewal is not read; polled, a yes; polled,
\* and no yes, so that the match ends.
VerdictIs(outcome, c, w, s, m) ==
  LET answered == w \in {"waiting", "over"}
  IN \/ outcome = NotRead /\ NoRenewal(m) /\ Pairs(s)
     \/ outcome = NotRead /\ NoRenewal(m) /\ answered /\ HasVerdict(s, c)
     \/ outcome = NotRead /\ OneRenewal(m) /\ answered /\ Pairs(s)
     \/ outcome = OP_APPROVE_REQ /\ NoRenewal(m) /\ answered /\ Pairs(s) /\ c
     \/ outcome \notin {NotRead, OP_APPROVE_REQ}

VerdictInv(p) ==
  link[p] = "open" /\ pc \notin {"done", "killed"} =>
    VerdictIs(outcomeBuffer[p], consensus[p], window[p], toServer[p], toClient[p])
RematchInv == DesksInv /\ \A p \in Players : VerdictInv(p)

LEMMA NoHalves == Pairs(<<>>) /\ NoRenewal(<<>>)
  BY DEF Pairs, NoRenewal

LEMMA Parity ==
  ASSUME NEW a \in Nat
  PROVE  /\ (a + 2) % 2 = a % 2
         /\ a % 2 = 0 <=> (a + 1) % 2 = 1
         /\ a % 2 = 1 <=> (a + 1) % 2 = 0
  OBVIOUS

\* A pair more.
LEMMA PairMore ==
  ASSUME NEW s \in Seq(Halves), NEW x \in Halves, NEW n, n = s \o <<0, x>>
  PROVE  /\ Pairs(s) => Pairs(n)
         /\ \A yes : HasVerdict(s, yes) => HasVerdict(n, yes)
<1>1. /\ Len(s) \in Nat /\ Len(n) = Len(s) + 2
      /\ \A i \in 1 .. Len(s) : n[i] = s[i]
      /\ n[Len(s) + 1] = 0
  <2>1. 0 \in Halves
    BY DEF Halves
  <2>2. <<0, x>> \in Seq(Halves) /\ Len(<<0, x>>) = 2 /\ <<0, x>>[1] = 0
    BY <2>1
  <2> QED
    BY <2>2, ConcatProperties, LenProperties
<1>2. Pairs(s) => Pairs(n)
  <2> SUFFICES ASSUME Pairs(s) PROVE Pairs(n)
    OBVIOUS
  <2>1. Len(n) % 2 = 0
    BY <1>1 DEF Pairs
  <2>2. ASSUME NEW i \in 1 .. Len(n), i % 2 = 1 PROVE n[i] = 0
    <3>1. i # Len(s) + 2
      <4>1. PICK l \in Nat : l = Len(s)
        BY <1>1
      <4>2. l % 2 = 0
        BY <4>1 DEF Pairs
      <4>3. (l + 2) % 2 = 0
        BY <4>2, Parity
      <4>4. 0 # 1
        OBVIOUS
      <4> QED
        BY <2>2, <4>1, <4>3, <4>4
    <3>2. i \in 1 .. Len(s) \/ i = Len(s) + 1
      BY <1>1, <3>1
    <3> QED
      BY <1>1, <2>2, <3>2 DEF Pairs
  <2> QED
    BY <2>1, <2>2 DEF Pairs
<1>3. ASSUME NEW yes, HasVerdict(s, yes) PROVE HasVerdict(n, yes)
  <2>1. PICK k \in 1 .. Len(s) :
            /\ k % 2 = 1
            /\ s[k] \in {OP_APPROVE_REQ, OP_DECLINE_REQ}
            /\ s[k] = OP_APPROVE_REQ => yes
            /\ \A i \in 1 .. Len(s) : /\ i < k /\ i % 2 = 1 => s[i] = 0
                                      /\ i > k /\ i % 2 = 0 => s[i] = 0
    BY <1>3 DEF HasVerdict
  <2>2. Len(s) % 2 = 1 /\ Len(n) % 2 = 1
    BY <1>1, <1>3 DEF HasVerdict
  <2>3. k \in 1 .. Len(n) /\ n[k] = s[k]
    BY <1>1, <2>1
  <2>4. ASSUME NEW i \in 1 .. Len(n)
        PROVE  /\ i < k /\ i % 2 = 1 => n[i] = 0
               /\ i > k /\ i % 2 = 0 => n[i] = 0
    <3>1. (Len(s) + 1) % 2 = 0 /\ (Len(s) + 2) % 2 = 1
      BY <1>1, <2>2, Parity
    <3>2. i \in 1 .. Len(s) \/ i = Len(s) + 1 \/ i = Len(s) + 2
      BY <1>1
    <3>3. k < Len(s) + 1 /\ k < Len(s) + 2
      BY <1>1, <2>1
    <3>4. CASE i \in 1 .. Len(s)
      BY <1>1, <2>1, <3>4
    <3>5. CASE i = Len(s) + 1
      BY <1>1, <3>1, <3>5
    <3>6. CASE i = Len(s) + 2
      BY <1>1, <3>1, <3>3, <3>6
    <3> QED
      BY <3>2, <3>4, <3>5, <3>6
  <2> QED
    BY <2>1, <2>2, <2>3, <2>4 DEF HasVerdict
<1> QED
  BY <1>2, <1>3

\* A verdict more.
LEMMA VerdictMore ==
  ASSUME NEW s \in Seq(Halves), Pairs(s), NEW v \in {OP_APPROVE_REQ, OP_DECLINE_REQ},
         NEW yes, v = OP_APPROVE_REQ => yes, NEW n, n = s \o <<v>>
  PROVE  HasVerdict(n, yes)
<1>1. /\ Len(s) \in Nat /\ Len(n) = Len(s) + 1
      /\ \A i \in 1 .. Len(s) : n[i] = s[i]
      /\ n[Len(s) + 1] = v
  <2>1. v \in Halves
    BY DEF Halves, OP_APPROVE_REQ, OP_DECLINE_REQ
  <2>2. <<v>> \in Seq(Halves) /\ Len(<<v>>) = 1 /\ <<v>>[1] = v
    BY <2>1
  <2> QED
    BY <2>2, ConcatProperties, LenProperties
<1>2. PICK k : k = Len(s) + 1
  OBVIOUS
<1>3. Len(n) % 2 = 1 /\ k \in 1 .. Len(n) /\ k % 2 = 1 /\ n[k] = v
  BY <1>1, <1>2 DEF Pairs
<1>4. ASSUME NEW i \in 1 .. Len(n)
      PROVE  /\ i < k /\ i % 2 = 1 => n[i] = 0
             /\ i > k /\ i % 2 = 0 => n[i] = 0
  BY <1>1, <1>2 DEF Pairs
<1> QED
  BY <1>3, <1>4 DEF HasVerdict

\* The poll takes one half.
HalfOff(s, x, n) ==
  /\ Pairs(s) => x = 0
  /\ \A yes : HasVerdict(s, yes) /\ x = OP_APPROVE_REQ => Pairs(n) /\ yes

LEMMA HalfTaken ==
  ASSUME NEW s \in Seq(Halves), s # <<>>, NEW x, x = Head(s), NEW n, n = Tail(s)
  PROVE  HalfOff(s, x, n)
<1>1. /\ Len(s) \in Nat /\ Len(s) > 0 /\ Len(n) = Len(s) - 1 /\ x = s[1]
      /\ \A i \in 1 .. Len(n) : n[i] = s[i + 1]
  BY HeadTailProperties, EmptySeq, LenProperties
<1>2. Pairs(s) => x = 0
  BY <1>1 DEF Pairs
<1>3. ASSUME NEW yes, HasVerdict(s, yes), x = OP_APPROVE_REQ PROVE Pairs(n) /\ yes
  <2>1. PICK k \in 1 .. Len(s) :
            /\ k % 2 = 1
            /\ s[k] = OP_APPROVE_REQ => yes
            /\ \A i \in 1 .. Len(s) : /\ i < k /\ i % 2 = 1 => s[i] = 0
                                      /\ i > k /\ i % 2 = 0 => s[i] = 0
    BY <1>3 DEF HasVerdict
  <2>2. k = 1
    BY <1>1, <1>3, <2>1 DEF OP_APPROVE_REQ
  <2>3. Len(n) % 2 = 0
    BY <1>1, <1>3 DEF HasVerdict
  <2>4. ASSUME NEW i \in 1 .. Len(n), i % 2 = 1 PROVE n[i] = 0
    <3>1. i + 1 \in 1 .. Len(s) /\ i + 1 > k /\ (i + 1) % 2 = 0
      BY <1>1, <2>2, <2>4
    <3> QED
      BY <1>1, <2>1, <2>4, <3>1
  <2> QED
    BY <1>1, <1>3, <2>1, <2>2, <2>3, <2>4 DEF Pairs
<1> QED
  BY <1>2, <1>3 DEF HalfOff

\* The loop takes two; it takes no verdict for a move.
LEMMA PairLess ==
  ASSUME NEW s \in Seq(Halves), NEW n \in Seq(Halves), NEW l \in Nat,
         Len(n) = l, Len(s) = l + 2, \A i \in 1 .. l : n[i] = s[i + 2], s[1] = 0
  PROVE  /\ Pairs(s) => Pairs(n)
         /\ \A yes : HasVerdict(s, yes) => HasVerdict(n, yes)
<1>1. (l + 2) % 2 = l % 2
  BY Parity
<1>2. \A i \in 1 .. l : i + 2 \in 1 .. l + 2 /\ (i + 2) % 2 = i % 2
  BY Parity
<1>3. Pairs(s) => Pairs(n)
  BY <1>1, <1>2 DEF Pairs
<1>4. ASSUME NEW yes, HasVerdict(s, yes) PROVE HasVerdict(n, yes)
  <2>1. PICK k \in 1 .. l + 2 :
            /\ k % 2 = 1
            /\ s[k] \in {OP_APPROVE_REQ, OP_DECLINE_REQ}
            /\ s[k] = OP_APPROVE_REQ => yes
            /\ \A i \in 1 .. l + 2 : /\ i < k /\ i % 2 = 1 => s[i] = 0
                                     /\ i > k /\ i % 2 = 0 => s[i] = 0
    BY <1>4 DEF HasVerdict
  <2>2. k # 1 /\ k # 2
    <3>1. 2 % 2 = 0
      OBVIOUS
    <3> QED
      BY <2>1, <3>1 DEF OP_APPROVE_REQ, OP_DECLINE_REQ
  <2>3. PICK j \in 1 .. l : k = j + 2
    <3>1. k - 2 \in 1 .. l /\ k = (k - 2) + 2
      BY <2>1, <2>2
    <3> QED
      BY <3>1
  <2>4. j % 2 = 1 /\ n[j] = s[k]
    BY <1>2, <2>1, <2>3
  <2>5. ASSUME NEW i \in 1 .. l
        PROVE  /\ i < j /\ i % 2 = 1 => n[i] = 0
               /\ i > j /\ i % 2 = 0 => n[i] = 0
    <3>1. i + 2 \in 1 .. l + 2 /\ n[i] = s[i + 2] /\ (i + 2) % 2 = i % 2
      BY <1>2
    <3>2. /\ i < j => i + 2 < k
          /\ i > j => i + 2 > k
      BY <2>3
    <3> QED
      BY <2>1, <3>1, <3>2
  <2>6. l % 2 = 1
    BY <1>1, <1>4 DEF HasVerdict
  <2>7. /\ n[j] \in {OP_APPROVE_REQ, OP_DECLINE_REQ}
        /\ n[j] = OP_APPROVE_REQ => yes
    BY <2>1, <2>4
  <2> QED
    BY <2>4, <2>5, <2>6, <2>7 DEF HasVerdict
<1> QED
  BY <1>3, <1>4

Rest(s) == SubSeq(s, 3, Len(s))

LEMMA RestIs ==
  ASSUME NEW s \in Seq(Halves), NEW k \in Nat, k = Len(s), k > 1
  PROVE  /\ Rest(s) \in Seq(Halves)
         /\ Len(Rest(s)) = k - 2
         /\ \A i \in 1 .. k - 2 : Rest(s)[i] = s[i + 2]
<1>1. \A i \in 3 .. k : s[i] \in Halves
  OBVIOUS
<1>2. Rest(s) = SubSeq(s, 3, k)
  BY DEF Rest
<1>3. /\ SubSeq(s, 3, k) \in Seq(Halves)
      /\ Len(SubSeq(s, 3, k)) = IF 3 <= k THEN k - 3 + 1 ELSE 0
      /\ \A i \in 1 .. k - 3 + 1 : SubSeq(s, 3, k)[i] = s[3 + i - 1]
  BY <1>1, SubSeqProperties
<1>4. /\ (IF 3 <= k THEN k - 3 + 1 ELSE 0) = k - 2
      /\ k - 3 + 1 = k - 2
      /\ \A i \in 1 .. k - 2 : 3 + i - 1 = i + 2
  OBVIOUS
<1>5. /\ Rest(s) \in Seq(Halves)
      /\ Len(Rest(s)) = IF 3 <= k THEN k - 3 + 1 ELSE 0
      /\ \A i \in 1 .. k - 3 + 1 : Rest(s)[i] = s[3 + i - 1]
  BY <1>2, <1>3, Zenon
<1>6. \A i \in 1 .. k - 2 : Rest(s)[i] = s[3 + i - 1]
  BY <1>4, <1>5, Zenon
<1> QED
  BY <1>4, <1>5, <1>6, Zenon

LEMMA MoveTaken ==
  ASSUME NEW s \in Seq(Halves), Len(s) > 1, 65536 * s[1] + s[2] \in Positions
  PROVE  /\ Pairs(s) => Pairs(Rest(s))
         /\ \A yes : HasVerdict(s, yes) => HasVerdict(Rest(s), yes)
<1>1. PICK k \in Nat : k = Len(s) /\ k > 1
  BY LenProperties
<1>2. PICK l \in Nat : l = k - 2 /\ k = l + 2
  <2>1. k - 2 \in Nat /\ k = (k - 2) + 2
    BY <1>1
  <2> QED
    BY <2>1
<1>3. Rest(s) \in Seq(Halves) /\ Len(Rest(s)) = l /\ \A i \in 1 .. l : Rest(s)[i] = s[i + 2]
  BY <1>1, <1>2, RestIs
<1>4. s[1] = 0
  <2>1. s[1] \in 0 .. 9 /\ s[2] \in 0 .. 9
    BY WithoutAMove DEF Halves
  <2>2. PICK x, y : x = s[1] /\ y = s[2]
    OBVIOUS
  <2>3. x \in 0 .. 9 /\ y \in 0 .. 9 /\ 65536 * x + y \in 1 .. 9
    BY <2>1, <2>2 DEF Positions
  <2>4. x = 0
    BY <2>3
  <2> QED
    BY <2>2, <2>4
<1>5. Len(s) = l + 2
  BY <1>1, <1>2
<1> QED
  BY <1>3, <1>4, <1>5, PairLess

\* The mail: a message is read; others are sent.
LEMMA MailTaken ==
  ASSUME NEW m \in Seq(Messages), m # <<>>, NEW n, n = Tail(m)
  PROVE  /\ NoRenewal(m) => NoRenewal(n) /\ Head(m) # Renewal
         /\ OneRenewal(m) => OneRenewal(n)
         /\ OneRenewal(m) /\ Head(m) = Renewal => NoRenewal(n)
<1>1. /\ Len(m) \in Nat /\ Len(m) > 0 /\ Len(n) = Len(m) - 1 /\ Head(m) = m[1]
      /\ \A i \in 1 .. Len(n) : n[i] = m[i + 1]
  BY HeadTailProperties, EmptySeq, LenProperties
<1>2. NoRenewal(m) => NoRenewal(n) /\ Head(m) # Renewal
  BY <1>1 DEF NoRenewal
<1>3. OneRenewal(m) => OneRenewal(n)
  <2> SUFFICES ASSUME OneRenewal(m), NEW i \in 1 .. Len(n), NEW j \in 1 .. Len(n),
                      n[i] = Renewal, n[j] = Renewal
               PROVE  i = j
    BY DEF OneRenewal
  <2>1. i + 1 \in 1 .. Len(m) /\ j + 1 \in 1 .. Len(m) /\ m[i + 1] = Renewal /\ m[j + 1] = Renewal
    BY <1>1
  <2>2. i + 1 = j + 1
    BY <2>1 DEF OneRenewal
  <2> QED
    BY <2>2
<1>4. OneRenewal(m) /\ Head(m) = Renewal => NoRenewal(n)
  <2> SUFFICES ASSUME OneRenewal(m), m[1] = Renewal, NEW i \in 1 .. Len(n), n[i] = Renewal PROVE FALSE
    BY <1>1 DEF NoRenewal
  <2>1. 1 \in 1 .. Len(m) /\ i + 1 \in 1 .. Len(m) /\ m[i + 1] = Renewal /\ i + 1 # 1
    BY <1>1
  <2> QED
    BY <2>1 DEF OneRenewal
<1> QED
  BY <1>2, <1>3, <1>4

LEMMA MailMore ==
  ASSUME NEW m \in Seq(Messages), NEW t \in Seq(Messages), NEW n, n = m \o t
  PROVE  /\ NoRenewal(t) /\ NoRenewal(m) => NoRenewal(n)
         /\ NoRenewal(t) /\ OneRenewal(m) => OneRenewal(n)
         /\ OneRenewal(t) /\ NoRenewal(m) => OneRenewal(n)
<1>1. /\ Len(m) \in Nat /\ Len(t) \in Nat /\ Len(n) = Len(m) + Len(t)
      /\ \A i \in 1 .. Len(m) : n[i] = m[i]
      /\ \A i \in Len(m) + 1 .. Len(n) : i - Len(m) \in 1 .. Len(t) /\ n[i] = t[i - Len(m)]
  BY ConcatProperties, LenProperties
<1>2. \A i \in 1 .. Len(n) : i \in 1 .. Len(m) \/ i \in Len(m) + 1 .. Len(n)
  BY <1>1
<1>3. NoRenewal(t) /\ NoRenewal(m) => NoRenewal(n)
  BY <1>1, <1>2 DEF NoRenewal
<1>4. NoRenewal(t) /\ OneRenewal(m) => OneRenewal(n)
  BY <1>1, <1>2 DEF NoRenewal, OneRenewal
<1>5. OneRenewal(t) /\ NoRenewal(m) => OneRenewal(n)
  <2> SUFFICES ASSUME OneRenewal(t), NoRenewal(m), NEW i \in 1 .. Len(n), NEW j \in 1 .. Len(n),
                      n[i] = Renewal, n[j] = Renewal
               PROVE  i = j
    BY DEF OneRenewal
  <2>1. i \in Len(m) + 1 .. Len(n) /\ j \in Len(m) + 1 .. Len(n)
    BY <1>1, <1>2 DEF NoRenewal
  <2>2. i - Len(m) = j - Len(m)
    BY <1>1, <2>1 DEF OneRenewal
  <2> QED
    BY <1>1, <2>1, <2>2
<1> QED
  BY <1>3, <1>4, <1>5

LEMMA MailRead ==
  ASSUME NEW o, NEW c, NEW w, NEW s, NEW m \in Seq(Messages), m # <<>>, VerdictIs(o, c, w, s, m),
         NEW n, n = Tail(m)
  PROVE  VerdictIs(o, c, w, s, n)
<1>1. /\ NoRenewal(m) => NoRenewal(n)
      /\ OneRenewal(m) => OneRenewal(n)
  BY MailTaken
<1> QED
  BY <1>1, Zenon DEF VerdictIs

LEMMA MailSent ==
  ASSUME NEW o, NEW c, NEW w, NEW s, NEW m \in Seq(Messages), VerdictIs(o, c, w, s, m),
         NEW t \in Seq(Messages), NoRenewal(t), NEW n, n = m \o t
  PROVE  VerdictIs(o, c, w, s, n)
<1>1. /\ NoRenewal(m) => NoRenewal(n)
      /\ OneRenewal(m) => OneRenewal(n)
  BY MailMore
<1> QED
  BY <1>1, Zenon DEF VerdictIs

LEMMA PairSaid ==
  ASSUME NEW o, NEW c, NEW w, NEW s \in Seq(Halves), NEW m, VerdictIs(o, c, w, s, m),
         NEW x \in Halves, NEW n, n = s \o <<0, x>>
  PROVE  VerdictIs(o, c, w, n, m)
<1>1. /\ Pairs(s) => Pairs(n)
      /\ HasVerdict(s, c) => HasVerdict(n, c)
  BY PairMore
<1> QED
  BY <1>1, Zenon DEF VerdictIs

\* Of p, what VerdictIs speaks of.
LEMMA VerdictTypes ==
  ASSUME NEW p \in Players, RematchInv
  PROVE  /\ TypeOK /\ VerdictInv(p)
         /\ toServer[p] \in Seq(Halves) /\ toClient[p] \in Seq(Messages)
  BY DEF RematchInv, DesksInv, TypeOK

LEMMA ReaderStep_Verdict ==
  ASSUME NEW p \in Players, RematchInv, ReaderStep(p)
  PROVE  VerdictInv(p)'
<1>0. TypeOK /\ VerdictInv(p) /\ toClient[p] \in Seq(Messages)
  BY VerdictTypes
<1>1. /\ UNCHANGED <<server, link, toServer, window, consensus>>
      /\ \/ toClient' = toClient
         \/ toClient[p] # <<>> /\ toClient' = [toClient EXCEPT ![p] = Tail(@)]
  BY DEF ReaderStep, ReadFirstTurn, RenewEngine, ReadOpponentMove, ReadStatus, ReaderTimesOut,
         Reading, ReadInt, network
<1>2. UNCHANGED <<pc, outcomeBuffer>>
  BY <1>1 DEF server
<1>3. \/ toClient'[p] = toClient[p]
      \/ toClient[p] # <<>> /\ toClient'[p] = Tail(toClient[p])
  BY <1>0, <1>1 DEF TypeOK
<1> QED
  BY <1>0, <1>1, <1>2, <1>3, MailRead DEF VerdictInv

LEMMA Quiet_Verdict ==
  ASSUME NEW p \in Players, RematchInv,
         UNCHANGED <<pc, outcomeBuffer[p], consensus[p], window[p], toServer[p], toClient[p], link[p]>>
  PROVE  VerdictInv(p)'
<1>0. VerdictInv(p)
  BY VerdictTypes
<1> QED
  BY <1>0 DEF VerdictInv

\* The program writes a pair, reads a message, asks its user or is answered.
LEMMA FxStep_Verdict ==
  ASSUME NEW p \in Players, RematchInv, FxStep(p)
  PROVE  VerdictInv(p)'
<1>0. /\ TypeOK /\ VerdictInv(p)
      /\ toServer[p] \in Seq(Halves) /\ toClient[p] \in Seq(Messages)
  BY VerdictTypes
<1>s. UNCHANGED <<pc, outcomeBuffer>>
  <2>1. UNCHANGED server
    BY ClientsLeaveServer
  <2> QED
    BY <2>1 DEF server
<1>l. UNCHANGED link
  BY DEF FxStep, Click, Send, HandleOpponentMove, HandleGameStatus, AnswerRematch, ReadReply,
         ReplyTimesOut, PlayAgain, FetchLedger, FetchReads, SwallowMessage, FetchEnds, network
<1> SUFFICES ASSUME link[p] = "open", pc \notin {"done", "killed"}
             PROVE  VerdictIs(outcomeBuffer[p], consensus'[p], window'[p], toServer'[p], toClient'[p])
  BY <1>s, <1>l DEF VerdictInv
<1>1. VerdictIs(outcomeBuffer[p], consensus[p], window[p], toServer[p], toClient[p])
  BY <1>0 DEF VerdictInv
<1>2. ASSUME NEW cell \in Playable[p], Click(p, cell)
      PROVE  VerdictIs(outcomeBuffer[p], consensus'[p], window'[p], toServer'[p], toClient'[p])
  <2>1. UNCHANGED <<consensus, window, toClient>>
    BY <1>2 DEF Click, Send
  <2>2. toServer'[p] = toServer[p] \o <<0, cell>>
    BY <1>0, <1>2 DEF Click, Send, TypeOK
  <2>3. cell \in Halves
    BY BoundsAssumption DEF Halves, Positions
  <2> QED
    BY <1>0, <1>1, <2>1, <2>2, <2>3, PairSaid
<1>3. CASE FetchLedger(p)
  <2>1. UNCHANGED <<consensus, window, toClient>>
    BY <1>3 DEF FetchLedger, Send
  <2>2. toServer'[p] = toServer[p] \o <<0, OP_FETCH_WAITING_LIST>>
    BY <1>0, <1>3 DEF FetchLedger, Send, TypeOK
  <2>3. OP_FETCH_WAITING_LIST \in Halves
    BY DEF Halves, OP_FETCH_WAITING_LIST
  <2> QED
    BY <1>0, <1>1, <2>1, <2>2, <2>3, PairSaid
<1>4. CASE SwallowMessage(p)
  <2>1. UNCHANGED <<consensus, window, toServer>> /\ toClient[p] # <<>>
    BY <1>4 DEF SwallowMessage
  <2>2. toClient'[p] = Tail(toClient[p])
    BY <1>0, <1>4 DEF SwallowMessage, TypeOK
  <2> QED
    BY <1>0, <1>1, <2>1, <2>2, MailRead
<1>5. CASE HandleOpponentMove(p) \/ FetchReads(p) \/ FetchEnds(p)
  <2>1. UNCHANGED <<consensus, window, toServer, toClient>>
    BY <1>5 DEF HandleOpponentMove, FetchReads, FetchEnds, network
  <2> QED
    BY <1>1, <2>1
<1>6. CASE HandleGameStatus(p)
  <2>1. UNCHANGED <<consensus, toServer, toClient>> /\ runLater[p] # <<>>
    BY <1>6 DEF HandleGameStatus, network
  <2>2. window[p] = "playing"
    BY <2>1 DEF RematchInv, DesksInv, DeskInv
  <2> QED
    BY <1>1, <2>1, <2>2 DEF VerdictIs
<1>7. ASSUME NEW yes \in BOOLEAN, AnswerRematch(p, yes)
      PROVE  VerdictIs(outcomeBuffer[p], consensus'[p], window'[p], toServer'[p], toClient'[p])
  <2>1. PICK v : v = IF yes THEN OP_APPROVE_REQ ELSE OP_DECLINE_REQ
    OBVIOUS
  <2>2. UNCHANGED toClient /\ window[p] = "asking" /\ consensus'[p] = yes /\ window'[p] = "waiting"
    BY <1>0, <1>7 DEF AnswerRematch, Send, TypeOK
  <2>3. toServer'[p] = toServer[p] \o <<v>>
    BY <1>0, <1>7, <2>1 DEF AnswerRematch, Send, TypeOK
  <2>4. \/ outcomeBuffer[p] = NotRead /\ NoRenewal(toClient[p]) /\ Pairs(toServer[p])
        \/ outcomeBuffer[p] \notin {NotRead, OP_APPROVE_REQ}
    BY <1>1, <2>2 DEF VerdictIs
  <2>5. v \in {OP_APPROVE_REQ, OP_DECLINE_REQ} /\ (v = OP_APPROVE_REQ => yes)
    BY <2>1 DEF OP_APPROVE_REQ, OP_DECLINE_REQ
  <2>6. Pairs(toServer[p]) => HasVerdict(toServer'[p], yes)
    BY <1>0, <2>3, <2>5, VerdictMore
  <2> QED
    BY <2>2, <2>4, <2>6 DEF VerdictIs
<1>8. CASE ReadReply(p)
  <2>1. UNCHANGED <<consensus, toServer>> /\ window[p] = "waiting" /\ toClient[p] # <<>>
    BY <1>8 DEF ReadReply
  <2>2. /\ toClient'[p] = Tail(toClient[p])
        /\ window'[p] = IF consensus[p] /\ Head(toClient[p]) = Renewal THEN "agreed" ELSE "over"
    BY <1>0, <1>8 DEF ReadReply, TypeOK, Renewal
  <2>3. CASE window'[p] = "over"
    <3>1. VerdictIs(outcomeBuffer[p], consensus[p], window[p], toServer[p], toClient'[p])
      BY <1>0, <1>1, <2>1, <2>2, MailRead
    <3> QED
      BY <2>1, <2>3, <3>1 DEF VerdictIs
  <2>4. CASE window'[p] = "agreed" /\ Head(toClient[p]) = Renewal
    <3>1. ~ NoRenewal(toClient[p]) /\ (OneRenewal(toClient[p]) => NoRenewal(toClient'[p]))
      BY <1>0, <2>1, <2>2, <2>4, MailTaken
    <3> QED
      BY <1>1, <2>1, <3>1 DEF VerdictIs
  <2> QED
    BY <2>2, <2>3, <2>4
<1>9. CASE ReplyTimesOut(p)
  <2>1. UNCHANGED <<consensus, toServer, toClient>> /\ window[p] = "waiting" /\ window'[p] = "over"
    BY <1>0, <1>9 DEF ReplyTimesOut, network, TypeOK
  <2> QED
    BY <1>1, <2>1 DEF VerdictIs
<1>10. CASE PlayAgain(p)
  <2>1. UNCHANGED <<toServer, toClient>> /\ window[p] = "agreed"
    BY <1>10 DEF PlayAgain, network
  <2> QED
    BY <1>1, <2>1 DEF VerdictIs
<1> QED
  BY <1>2, <1>3, <1>4, <1>5, <1>6, <1>7, <1>8, <1>9, <1>10 DEF FxStep

\* The server sends what renews nothing.
LEMMA Sent_Verdict ==
  ASSUME NEW p \in Players, RematchInv, NEW sent, NEW next, SendAll(sent, next),
         sent[p] \in Seq(Messages), NoRenewal(sent[p]), pc \notin {"done", "killed"},
         UNCHANGED <<outcomeBuffer, consensus, window>>,
         \/ toServer'[p] = toServer[p]
         \/ /\ Pairs(toServer[p]) => Pairs(toServer'[p])
            /\ HasVerdict(toServer[p], consensus[p]) => HasVerdict(toServer'[p], consensus[p])
  PROVE  VerdictInv(p)'
<1>0. TypeOK /\ VerdictInv(p) /\ toClient[p] \in Seq(Messages)
  BY VerdictTypes
<1> SUFFICES ASSUME link'[p] = "open"
             PROVE  VerdictIs(outcomeBuffer[p], consensus[p], window[p], toServer'[p], toClient'[p])
  BY DEF VerdictInv
<1>1. link[p] = "open" /\ toClient'[p] = toClient[p] \o sent[p]
  BY <1>0, SentTo
<1>2. VerdictIs(outcomeBuffer[p], consensus[p], window[p], toServer[p], toClient[p])
  BY <1>0, <1>1 DEF VerdictInv
<1>3. VerdictIs(outcomeBuffer[p], consensus[p], window[p], toServer[p], toClient'[p])
  BY <1>0, <1>1, <1>2, MailSent
<1>4. CASE toServer'[p] = toServer[p]
  BY <1>3, <1>4
<1>5. CASE /\ Pairs(toServer[p]) => Pairs(toServer'[p])
           /\ HasVerdict(toServer[p], consensus[p]) => HasVerdict(toServer'[p], consensus[p])
  BY <1>3, <1>5, Zenon DEF VerdictIs
<1> QED
  BY <1>4, <1>5

LEMMA ServerStep_Verdict ==
  ASSUME NEW p \in Players, RematchInv, ServerStep
  PROVE  VerdictInv(p)'
<1>0. /\ TypeOK /\ VerdictInv(p)
      /\ toServer[p] \in Seq(Halves) /\ toClient[p] \in Seq(Messages)
  BY VerdictTypes
<1>1. CASE StartRound
  <2>1. PICK m, sent : /\ m = <<"turn", activeTurnIdx'>>
                       /\ sent = [q \in Players |-> <<m>>]
    OBVIOUS
  <2>2. /\ SendAll(sent, "await") /\ pc = "start"
        /\ UNCHANGED <<outcomeBuffer, consensus, window, toServer>> /\ activeTurnIdx' \in Players
    BY <1>1, <2>1 DEF StartRound, client
  <2>3. m \in Messages /\ m # Renewal
    BY <2>1, <2>2, MessageTypes DEF Renewal
  <2>4. sent[p] = <<m>> /\ <<m>> \in Seq(Messages) /\ NoRenewal(<<m>>)
    BY <2>1, <2>3 DEF NoRenewal
  <2> QED
    BY <2>2, <2>4, Sent_Verdict
<1>2. CASE ReceiveMove
  <2> DEFINE acting == activeTurnIdx
             cell == 65536 * toServer[acting][1] + toServer[acting][2]
             next == dispatch_active_node(acting)
             sent == [q \in Players |-> MoveMessages(q, next, cell, core_status')]
             after == IF core_status' = Undecided THEN "await" ELSE "polling"
  <2>1. /\ pc = "await" /\ acting \in Players /\ Len(toServer[acting]) > 1
        /\ toServer' = [toServer EXCEPT ![acting] = Rest(toServer[acting])]
        /\ UNCHANGED <<outcomeBuffer, consensus, window>>
    BY <1>0, <1>2 DEF ReceiveMove, client, Rest, TypeOK
  <2>2. CASE cell \in Positions
    <3>1. /\ SendAll(sent, after)
          /\ core_status' \in Players \cup {Undecided, Draw}
      <4>1. /\ SendAll(sent, after)
            /\ core_status' = calculate_session_victor(grid', Node1, Node2)
        BY <1>2, <2>2 DEF ReceiveMove
      <4> QED
        BY <4>1, VictorType DEF Players
    <3>2. sent[p] \in Seq(Messages) /\ NoRenewal(sent[p])
      <4>0. PICK c : c = cell
        OBVIOUS
      <4> DEFINE m == <<"status", core_status'>>
                 n == <<"cell", c>>
      <4>2. m \in Messages /\ n \in Messages /\ m # Renewal /\ n # Renewal
        BY <2>2, <3>1, <4>0, MessageTypes DEF Renewal
      <4>3. sent[p] = IF p = next THEN <<n, m>> ELSE <<m>>
        BY <4>0 DEF MoveMessages
      <4>4. <<m>> \in Seq(Messages) /\ NoRenewal(<<m>>)
        BY <4>2 DEF NoRenewal
      <4>5. <<n, m>> \in Seq(Messages) /\ NoRenewal(<<n, m>>)
        BY <4>2 DEF NoRenewal
      <4> HIDE DEF sent, m, n
      <4> QED
        BY <4>3, <4>4, <4>5
    <3>3. \/ toServer'[p] = toServer[p]
          \/ /\ Pairs(toServer[p]) => Pairs(toServer'[p])
             /\ HasVerdict(toServer[p], consensus[p]) => HasVerdict(toServer'[p], consensus[p])
      <4>1. CASE p # acting
        BY <1>0, <2>1, <4>1 DEF TypeOK
      <4>2. CASE p = acting
        <5>1. toServer'[p] = Rest(toServer[p])
          BY <1>0, <2>1, <4>2 DEF TypeOK
        <5> QED
          BY <1>0, <2>1, <2>2, <4>2, <5>1, MoveTaken
      <4> QED
        BY <4>1, <4>2
    <3> HIDE DEF sent, after
    <3> QED
      BY <2>1, <3>1, <3>2, <3>3, Sent_Verdict
  <2>3. CASE cell \notin Positions
    <3>1. pc' = "killed"
      BY <1>2, <2>3 DEF ReceiveMove
    <3> QED
      BY <3>1 DEF VerdictInv
  <2> QED
    BY <2>2, <2>3
<1>3. CASE AbandonRound
  <2>1. pc' = "done"
    BY <1>3 DEF AbandonRound
  <2> QED
    BY <2>1 DEF VerdictInv
<1>4. ASSUME NEW q \in Players, PollVerdict(q) PROVE VerdictInv(p)'
  <2>0. UNCHANGED <<pc, link, toClient, consensus, window>>
    BY <1>4 DEF PollVerdict, client
  <2>1. CASE q # p
    <3>1. UNCHANGED <<outcomeBuffer[p], toServer[p]>>
      BY <1>0, <1>4, <2>1 DEF PollVerdict, TypeOK
    <3> QED
      BY <2>0, <3>1, Quiet_Verdict
  <2>2. CASE q = p
    <3> SUFFICES ASSUME link[p] = "open", pc \notin {"done", "killed"}
                 PROVE  VerdictIs(outcomeBuffer'[p], consensus[p], window[p], toServer'[p], toClient[p])
      BY <2>0 DEF VerdictInv
    <3>1. VerdictIs(NotRead, consensus[p], window[p], toServer[p], toClient[p])
      BY <1>0, <1>4, <2>2 DEF VerdictInv, PollVerdict
    <3>2. CASE toServer[p] = <<>>
      <4>1. outcomeBuffer'[p] = NoVerdict
        BY <1>0, <1>4, <2>2, <3>2 DEF PollVerdict, TypeOK
      <4> QED
        BY <4>1 DEF VerdictIs, NoVerdict, NotRead, OP_APPROVE_REQ
    <3>3. CASE toServer[p] # <<>>
      <4>1. PICK x : x = Head(toServer[p])
        OBVIOUS
      <4>2. outcomeBuffer'[p] = x /\ toServer'[p] = Tail(toServer[p])
        BY <1>0, <1>4, <2>2, <3>3, <4>1 DEF PollVerdict, TypeOK
      <4>3. x \in Halves
        BY <1>0, <3>3, <4>1, HeadTailProperties
      <4>4. CASE x # OP_APPROVE_REQ
        <5>1. x \notin {NotRead, OP_APPROVE_REQ}
          BY <4>3, <4>4 DEF NotRead, Halves
        <5> QED
          BY <4>2, <5>1 DEF VerdictIs
      <4>5. CASE x = OP_APPROVE_REQ
        <5>1. /\ ~ Pairs(toServer[p])
              /\ HasVerdict(toServer[p], consensus[p]) => Pairs(toServer'[p]) /\ consensus[p]
          <6>1. PICK s : s = toServer[p]
            OBVIOUS
          <6>3. PICK n : n = toServer'[p]
            OBVIOUS
          <6>4. s \in Seq(Halves) /\ s # <<>> /\ x = Head(s) /\ n = Tail(s)
            BY <1>0, <3>3, <4>1, <4>2, <6>1, <6>3
          <6>5. HalfOff(s, x, n)
            BY <6>4, HalfTaken
          <6>2. x # 0
            BY <4>5 DEF OP_APPROVE_REQ
          <6>6. ~ Pairs(s)
            BY <6>2, <6>5 DEF HalfOff
          <6>7. PICK c : c = consensus[p]
            OBVIOUS
          <6>8. HasVerdict(s, c) => Pairs(n) /\ c
            BY <4>5, <6>5 DEF HalfOff
          <6> QED
            BY <6>1, <6>3, <6>6, <6>7, <6>8
        <5>2. NotRead # OP_APPROVE_REQ
          BY DEF NotRead, OP_APPROVE_REQ
        <5> QED
          BY <3>1, <4>2, <4>5, <5>1, <5>2, Zenon DEF VerdictIs
      <4> QED
        BY <4>4, <4>5
    <3> QED
      BY <3>2, <3>3
  <2> QED
    BY <2>1, <2>2
<1>5. CASE JoinVerdicts
  <2>1. CASE Approved
    <3>1. PICK sent : sent = [q \in Players |-> <<Renewal>>]
      OBVIOUS
    <3>2. /\ SendAll(sent, "start") /\ pc = "polling" /\ outcomeBuffer'[p] = NotRead
          /\ UNCHANGED <<consensus, window, toServer>> /\ outcomeBuffer[p] = OP_APPROVE_REQ
      BY <1>5, <2>1, <3>1 DEF JoinVerdicts, Renewal, client, Approved
    <3>3. sent[p] = <<Renewal>> /\ <<Renewal>> \in Seq(Messages) /\ OneRenewal(<<Renewal>>)
      <4>1. Renewal \in Messages
        BY MessageTypes DEF Renewal
      <4> QED
        BY <3>1, <4>1 DEF OneRenewal
    <3> SUFFICES ASSUME link'[p] = "open"
                 PROVE  VerdictIs(NotRead, consensus[p], window[p], toServer[p], toClient'[p])
      BY <3>2 DEF VerdictInv
    <3>4. link[p] = "open" /\ toClient'[p] = toClient[p] \o <<Renewal>>
      BY <1>0, <3>2, <3>3, SentTo
    <3>5. VerdictIs(OP_APPROVE_REQ, consensus[p], window[p], toServer[p], toClient[p])
      BY <1>0, <3>2, <3>4 DEF VerdictInv
    <3>6. NoRenewal(toClient[p]) => OneRenewal(toClient'[p])
      BY <1>0, <3>3, <3>4, MailMore
    <3> QED
      BY <3>5, <3>6 DEF VerdictIs, NotRead, OP_APPROVE_REQ
  <2>2. CASE ~ Approved
    <3>1. pc' \in {"done", "killed"}
      BY <1>5, <2>2 DEF JoinVerdicts, SendAll
    <3> QED
      BY <3>1 DEF VerdictInv
  <2> QED
    BY <2>1, <2>2
<1> QED
  BY <1>1, <1>2, <1>3, <1>4, <1>5 DEF ServerStep

LEMMA Next_RematchInv == RematchInv /\ [Next]_vars => RematchInv'
<1> SUFFICES ASSUME RematchInv, [Next]_vars PROVE RematchInv'
  OBVIOUS
<1>1. DesksInv'
  BY Next_DesksInv DEF RematchInv
<1>2. ASSUME NEW p \in Players PROVE VerdictInv(p)'
  <2>0. TypeOK
    BY VerdictTypes
  <2>1. CASE ServerStep
    BY <2>1, ServerStep_Verdict
  <2>2. ASSUME NEW q \in Players \ {p}, ReaderStep(q) \/ FxStep(q) \/ Quit(q) PROVE VerdictInv(p)'
    <3>1. UNCHANGED server /\ UNCHANGED View(p)
      BY <2>0, <2>2, OtherStepLeaves
    <3>2. consensus'[p] = consensus[p]
      <4>1. consensus' = consensus \/ \E v : consensus' = [consensus EXCEPT ![q] = v]
        BY <2>2 DEF ReaderStep, ReadFirstTurn, RenewEngine, ReadOpponentMove, ReadStatus,
               ReaderTimesOut, FxStep, Click, HandleOpponentMove, HandleGameStatus, AnswerRematch,
               ReadReply, ReplyTimesOut, PlayAgain, FetchLedger, FetchReads, SwallowMessage, FetchEnds, Quit, client
      <4> QED
        BY <2>0, <2>2, <4>1 DEF TypeOK
    <3> QED
      BY <3>1, <3>2, Quiet_Verdict DEF server, View
  <2>3. CASE ReaderStep(p)
    BY <2>3, ReaderStep_Verdict
  <2>4. CASE FxStep(p)
    BY <2>4, FxStep_Verdict
  <2>5. CASE Quit(p)
    <3>1. link'[p] # "open"
      BY <2>0, <2>5 DEF Quit, TypeOK
    <3> QED
      BY <3>1 DEF VerdictInv
  <2>6. CASE UNCHANGED vars
    <3>1. UNCHANGED <<pc, outcomeBuffer, consensus, window, toServer, toClient, link>>
      BY <2>6 DEF vars, server, network, client
    <3> QED
      BY <3>1, Quiet_Verdict
  <2> QED
    BY <2>1, <2>2, <2>3, <2>4, <2>5, <2>6 DEF Next, Terminated
<1> QED
  BY <1>1, <1>2 DEF RematchInv

LEMMA Init_RematchInv == Init => RematchInv
<1> SUFFICES ASSUME Init, NEW p \in Players PROVE VerdictInv(p)
  BY Init_DesksInv DEF RematchInv
<1>1. outcomeBuffer[p] = NotRead /\ toServer[p] = <<>> /\ toClient[p] = <<>>
  BY DEF Init
<1> QED
  BY <1>1, NoHalves DEF VerdictInv, VerdictIs

\* A round begins only when the user of every program that still runs has asked
\* for it (invoke_rematch): no verdict left over, no move, late or not, and no
\* request of a lobby that polls is taken for one, whatever times out.
THEOREM RematchesAreAgreed == Spec => RematchNeedsBoth
<1>1. RematchInv /\ [Next]_vars =>
        [round' # round => \A p \in Players : link[p] = "open" => consensus[p]]_vars
  <2> SUFFICES ASSUME RematchInv, [Next]_vars, round' # round,
                      NEW p \in Players, link[p] = "open"
               PROVE  consensus[p]
    OBVIOUS
  <2>1. JoinVerdicts
    <3>1. ServerStep
      <4>1. ~ UNCHANGED server
        BY DEF server
      <4>2. ~ UNCHANGED vars
        BY DEF vars, server
      <4> QED
        BY <4>1, <4>2, ClientsLeaveServer DEF Next, Terminated
    <3> QED
      BY <3>1 DEF ServerStep, StartRound, ReceiveMove, AbandonRound, PollVerdict
  <2>2. Approved /\ pc = "polling"
    BY <2>1 DEF JoinVerdicts
  <2>3. VerdictIs(OP_APPROVE_REQ, consensus[p], window[p], toServer[p], toClient[p])
    BY <2>2, VerdictTypes DEF VerdictInv, Approved
  <2> QED
    BY <2>3 DEF VerdictIs, NotRead, OP_APPROVE_REQ
<1>2. Spec => []RematchInv
  BY Init_RematchInv, Next_RematchInv, PTL DEF Spec
<1> QED
  BY <1>1, <1>2, PTL DEF Spec, RematchNeedsBoth

-----------------------------------------------------------------------------
(* The match is one of Referee. *)

\* A board on which a round goes on is decided for nobody.
Unsettled == pc \in {"start", "await"} => calculate_session_victor(grid, Node1, Node2) = Undecided

\* The cells of a line, one by one.
LEMMA Line ==
  ASSUME NEW g, NEW p, NEW a, NEW b, NEW c
  PROVE  (\A x \in {a, b, c} : g[x] = p) <=> g[a] = p /\ g[b] = p /\ g[c] = p
  OBVIOUS

\* The lines of the rules are those the three judges of server.c try.
LEMMA LinesAreTried ==
  ASSUME NEW g, NEW p
  PROVE  Game!Wins(g, p) <=> \/ validate_horizontal_alignment(g, p)
                             \/ validate_vertical_alignment(g, p)
                             \/ validate_diagonal_alignment(g, p)
<1>1. /\ Cell(0, 0) = 1 /\ Cell(0, 1) = 2 /\ Cell(0, 2) = 3
      /\ Cell(1, 0) = 4 /\ Cell(1, 1) = 5 /\ Cell(1, 2) = 6
      /\ Cell(2, 0) = 7 /\ Cell(2, 1) = 8 /\ Cell(2, 2) = 9
      /\ 2 - 0 = 2 /\ 2 - 1 = 1 /\ 2 - 2 = 0
  BY DEF Cell
<1>2. Axis = {0, 1, 2}
  BY DEF Axis
<1>3. Game!Wins(g, p) <=>
        \/ g[1] = p /\ g[2] = p /\ g[3] = p
        \/ g[4] = p /\ g[5] = p /\ g[6] = p
        \/ g[7] = p /\ g[8] = p /\ g[9] = p
        \/ g[1] = p /\ g[4] = p /\ g[7] = p
        \/ g[2] = p /\ g[5] = p /\ g[8] = p
        \/ g[3] = p /\ g[6] = p /\ g[9] = p
        \/ g[1] = p /\ g[5] = p /\ g[9] = p
        \/ g[3] = p /\ g[5] = p /\ g[7] = p
  <2>1. Game!Wins(g, p) <=>
          \/ \A x \in {1, 2, 3} : g[x] = p
          \/ \A x \in {4, 5, 6} : g[x] = p
          \/ \A x \in {7, 8, 9} : g[x] = p
          \/ \A x \in {1, 4, 7} : g[x] = p
          \/ \A x \in {2, 5, 8} : g[x] = p
          \/ \A x \in {3, 6, 9} : g[x] = p
          \/ \A x \in {1, 5, 9} : g[x] = p
          \/ \A x \in {3, 5, 7} : g[x] = p
    BY Zenon DEF Game!Wins, Game!Lines
  <2> QED
    BY <2>1, Line
<1>4. validate_horizontal_alignment(g, p) <=>
        \/ g[1] = p /\ g[2] = p /\ g[3] = p
        \/ g[4] = p /\ g[5] = p /\ g[6] = p
        \/ g[7] = p /\ g[8] = p /\ g[9] = p
  <2>1. validate_horizontal_alignment(g, p) <=> \E r \in {0, 1, 2} : \A c \in {0, 1, 2} : g[Cell(r, c)] = p
    BY <1>2 DEF validate_horizontal_alignment
  <2> QED
    BY <1>1, <2>1
<1>5. validate_vertical_alignment(g, p) <=>
        \/ g[1] = p /\ g[4] = p /\ g[7] = p
        \/ g[2] = p /\ g[5] = p /\ g[8] = p
        \/ g[3] = p /\ g[6] = p /\ g[9] = p
  <2>1. validate_vertical_alignment(g, p) <=> \E c \in {0, 1, 2} : \A r \in {0, 1, 2} : g[Cell(r, c)] = p
    BY <1>2 DEF validate_vertical_alignment
  <2> QED
    BY <1>1, <2>1
<1>6. validate_diagonal_alignment(g, p) <=>
        \/ g[1] = p /\ g[5] = p /\ g[9] = p
        \/ g[3] = p /\ g[5] = p /\ g[7] = p
  <2>1. validate_diagonal_alignment(g, p) <=> \/ \A r \in {0, 1, 2} : g[Cell(r, r)] = p
                                              \/ \A r \in {0, 1, 2} : g[Cell(r, 2 - r)] = p
    BY <1>2 DEF validate_diagonal_alignment
  <2> QED
    BY <1>1, <2>1
<1> QED
  BY <1>3, <1>4, <1>5, <1>6

LEMMA FreeCells ==
  ASSUME NEW g
  PROVE  HasFreeCell(g) <=> \E c \in Positions : g[c] = 0
<1>1. \A c \in Positions : \E r \in Axis, s \in Axis : Cell(r, s) = c
  <2> SUFFICES ASSUME NEW c \in Positions PROVE \E r \in Axis, s \in Axis : Cell(r, s) = c
    OBVIOUS
  <2>1. PICK r \in 0..2, s \in 0..2 : 3 * r + s + 1 = c
    BY DEF Positions
  <2> QED
    BY <2>1 DEF Axis, Cell
<1>2. \A r \in Axis, s \in Axis : Cell(r, s) \in Positions
  BY DEF Axis, Cell, Positions
<1>3. HasFreeCell(g) <=> \E r \in Axis, s \in Axis : g[Cell(r, s)] = 0
  BY DEF HasFreeCell
<1> QED
  BY <1>1, <1>2, <1>3

\* The verdict of calculate_session_victor is the ruling on the last mark.
LEMMA VictorIsRuled ==
  ASSUME NEW g \in Grids(Marked), NEW cell \in Positions, NEW p \in Players,
         calculate_session_victor(g, Node1, Node2) = Undecided
  PROVE  Game!Ruling(PutMark(g, cell, p), p) =
           calculate_session_victor(PutMark(g, cell, p), Node1, Node2)
<1> DEFINE after == PutMark(g, cell, p)
           q == dispatch_active_node(p)
<1>1. q \in Players /\ q # p /\ (\/ p = Node1 /\ q = Node2
                                 \/ p = Node2 /\ q = Node1)
      /\ Undecided # Node1 /\ Undecided # Node2
  BY NodesAssumption DEF Players, dispatch_active_node, Undecided
<1>2. \A c \in Positions : after[c] = IF c = cell THEN p ELSE g[c]
  BY DEF PutMark, Grids
<1> HIDE DEF after, q
<1>3. ~ Game!Wins(g, q)
  <2>1. /\ ~ validate_horizontal_alignment(g, q)
        /\ ~ validate_vertical_alignment(g, q)
        /\ ~ validate_diagonal_alignment(g, q)
    BY <1>1, Zenon DEF calculate_session_victor
  <2> QED
    BY <2>1, LinesAreTried
<1>4. ~ Game!Wins(after, q)
  <2> SUFFICES ASSUME NEW line \in Game!Lines, \A c \in line : after[c] = q PROVE FALSE
    BY DEF Game!Wins
  <2>1. line \subseteq Positions
    BY DEF Game!Lines, Positions
  <2>2. \A c \in line : g[c] = q
    BY <1>1, <1>2, <2>1
  <2> QED
    BY <1>3, <2>2 DEF Game!Wins
<1>5. /\ ~ validate_horizontal_alignment(after, q)
      /\ ~ validate_vertical_alignment(after, q)
      /\ ~ validate_diagonal_alignment(after, q)
  BY <1>4, LinesAreTried
<1>6. Game!Ruling(after, p) =
        IF \/ validate_horizontal_alignment(after, p)
           \/ validate_vertical_alignment(after, p)
           \/ validate_diagonal_alignment(after, p)
        THEN p ELSE IF HasFreeCell(after) THEN Undecided ELSE Draw
  <2>1. HasFreeCell(after) <=> \E c \in Game!Cells : after[c] = Game!Free
    BY FreeCells DEF Game!Cells, Game!Free, Positions
  <2>2. Game!NoVictor = Undecided /\ Game!Draw = Draw
    BY DEF Game!NoVictor, Game!Draw, Undecided, Draw
  <2> QED
    BY <2>1, <2>2, LinesAreTried, Zenon DEF Game!Ruling
<1>7. calculate_session_victor(after, Node1, Node2) =
        IF \/ validate_horizontal_alignment(after, p)
           \/ validate_vertical_alignment(after, p)
           \/ validate_diagonal_alignment(after, p)
        THEN p ELSE IF HasFreeCell(after) THEN Undecided ELSE Draw
  BY <1>1, <1>5, Zenon DEF calculate_session_victor
<1> QED
  BY <1>6, <1>7 DEF after

LEMMA BlankIsUndecided == calculate_session_victor(wipe_topological_grid, Node1, Node2) = Undecided
<1> DEFINE blank == wipe_topological_grid
<1>1. \A c \in Positions : blank[c] = 0
  BY DEF wipe_topological_grid
<1> HIDE DEF blank
<1>2. ASSUME NEW p \in Players PROVE ~ Game!Wins(blank, p)
  <2>1. p # 0
    BY NodesAssumption DEF Players
  <2>2. \A line \in Game!Lines : \E c \in line : c \in Positions
    BY DEF Game!Lines, Positions
  <2> QED
    BY <1>1, <2>1, <2>2 DEF Game!Wins
<1>3. \A p \in Players : /\ ~ validate_horizontal_alignment(blank, p)
                         /\ ~ validate_vertical_alignment(blank, p)
                         /\ ~ validate_diagonal_alignment(blank, p)
  BY <1>2, LinesAreTried
<1>4. HasFreeCell(blank)
  <2>1. 1 \in Positions
    BY DEF Positions
  <2> QED
    BY <1>1, <2>1, FreeCells
<1>5. Node1 \in Players /\ Node2 \in Players
  BY DEF Players
<1> QED
  BY <1>3, <1>4, <1>5, Zenon DEF calculate_session_victor, blank

LEMMA Next_Unsettled == TypeOK /\ Unsettled /\ [Next]_vars => Unsettled'
<1> SUFFICES ASSUME TypeOK, Unsettled, [Next]_vars, pc' \in {"start", "await"}
             PROVE  calculate_session_victor(grid', Node1, Node2) = Undecided
  BY DEF Unsettled
<1>2. CASE StartRound
  BY <1>2 DEF StartRound, Unsettled
<1>3. CASE ReceiveMove
  <2> DEFINE after == IF core_status' = Undecided THEN "await" ELSE "polling"
  <2>1. \/ pc' = "killed"
        \/ /\ \E sent : SendAll(sent, after)
           /\ core_status' = calculate_session_victor(grid', Node1, Node2)
    BY <1>3 DEF ReceiveMove
  <2>2. core_status' = Undecided
    BY <2>1 DEF SendAll
  <2> QED
    BY <2>1, <2>2
<1>4. CASE AbandonRound
  BY <1>4 DEF AbandonRound
<1>5. CASE \E p \in Players : PollVerdict(p)
  BY <1>5 DEF PollVerdict
<1>6. CASE JoinVerdicts
  <2> DEFINE after == IF Approved THEN "start" ELSE "done"
  <2>1. (\E sent : SendAll(sent, after)) /\ (Approved => grid' = wipe_topological_grid)
    BY <1>6 DEF JoinVerdicts
  <2>2. Approved
    BY <2>1 DEF SendAll
  <2> QED
    BY BlankIsUndecided, <2>1, <2>2
<1>7. CASE UNCHANGED server
  BY <1>7 DEF Unsettled, server
<1>8. CASE \E q \in Players : ReaderStep(q) \/ FxStep(q) \/ Quit(q)
  BY <1>7, <1>8, ClientsLeaveServer
<1> QED
  BY <1>2, <1>3, <1>4, <1>5, <1>6, <1>7, <1>8 DEF Next, ServerStep, Terminated, vars

LEMMA Init_Unsettled == Init => Unsettled
  BY BlankIsUndecided DEF Init, Unsettled

\* A step of the server is one of Referee, or none.
LEMMA ServerStepIsRefereed ==
  ASSUME BoardsInv, Unsettled, ServerStep
  PROVE  Game!Next \/ UNCHANGED Game!vars
<1>0. TypeOK
  BY DEF BoardsInv, StreamInv
<1>1. wipe_topological_grid = Game!Blank /\ Game!NoVictor = Undecided /\ Game!NoOne = 0
  BY DEF wipe_topological_grid, Game!Blank, Game!Cells, Game!Free, Game!NoVictor, Game!NoOne,
         Positions, Undecided
<1>2. ASSUME pc \in {"start", "await", "polling"}, pc' \in {"done", "killed"} PROVE Game!Close
  BY <1>1, <1>2 DEF Game!Close
<1>3. CASE StartRound
  <2>1. /\ pc = "start" /\ pc' \in {"await", "killed"} /\ activeTurnIdx' \in Players
        /\ grid' = grid
    BY <1>3 DEF StartRound, SendAll
  <2>2. CASE pc' = "await"
    <3>1. Game!Begin
      BY <2>1, <2>2 DEF Game!Begin
    <3> QED
      BY <3>1 DEF Game!Next
  <2> QED
    BY <1>2, <2>1, <2>2 DEF Game!Next
<1>4. CASE ReceiveMove
  <2> DEFINE p == activeTurnIdx
             cell == 65536 * toServer[p][1] + toServer[p][2]
             next == dispatch_active_node(p)
             after == IF core_status' = Undecided THEN "await" ELSE "polling"
  <2>1. pc = "await" /\ p \in Players /\ toServer[p] # <<>>
    BY <1>0, <1>4 DEF ReceiveMove, TypeOK
  <2>0. CASE cell \notin Positions
    <3>1. pc' = "killed"
      BY <1>4, <2>0 DEF ReceiveMove
    <3> QED
      BY <1>2, <2>1, <3>1 DEF Game!Next
  <2>2. CASE cell \in Positions
    <3>2. grid[cell] = 0 \/ p \in Pollers
      <4>1. SUFFICES ASSUME p \in Faithful PROVE grid[cell] = 0
        BY <2>1 DEF Faithful
      <4>2. toServer[p][1] = 0 /\ toServer[p][2] \in Positions /\ grid[toServer[p][2]] = 0
        BY <2>1, <4>1 DEF BoardsInv, BoardInv, Spoken
      <4>3. cell = toServer[p][2]
        BY <4>2 DEF Positions
      <4> QED
        BY <4>2, <4>3
    <3>3. /\ grid' = PutMark(grid, cell, p)
          /\ core_status' = calculate_session_victor(grid', Node1, Node2)
          /\ \E sent : SendAll(sent, after)
          /\ core_status' = Undecided => activeTurnIdx' = next
      BY <1>4, <2>2 DEF ReceiveMove
    <3>4. next \in Players \ {p} /\ pc' \in {after, "killed"}
      BY <2>1, <3>3, TheOther DEF SendAll
    <3>5. core_status' = Game!Ruling(grid', p)
      <4>1. grid \in Grids(Marked) /\ calculate_session_victor(grid, Node1, Node2) = Undecided
        BY <1>0, <2>1 DEF TypeOK, Unsettled
      <4> HIDE DEF cell, p
      <4> QED
        BY <2>1, <2>2, <3>3, <4>1, VictorIsRuled
    <3>6. cell \in Game!Cells /\ Game!Free = 0
      BY <2>2 DEF Game!Cells, Game!Free, Positions
    <3>7. CASE pc' = "killed"
      BY <1>2, <2>1, <3>7 DEF Game!Next
    <3>8. CASE pc' = after
      <4> HIDE DEF p, cell, next
      <4>1. Game!Mark(p, cell)
        <5>1. CASE core_status' = Undecided
          <6>1. pc' = "await"
            BY <3>8, <5>1
          <6> QED
            BY <1>1, <2>1, <2>2, <3>2, <3>3, <3>4, <3>5, <3>6, <5>1, <6>1 DEF Game!Mark, PutMark, p
        <5>2. CASE core_status' # Undecided
          <6>1. pc' = "polling"
            BY <3>8, <5>2
          <6> QED
            BY <1>1, <2>1, <2>2, <3>2, <3>3, <3>5, <3>6, <5>2, <6>1 DEF Game!Mark, PutMark, p
        <5> QED
          BY <5>1, <5>2
      <4> QED
        BY <2>1, <3>6, <4>1 DEF Game!Next
    <3> QED
      BY <3>4, <3>7, <3>8
  <2> QED
    BY <2>0, <2>2
<1>5. CASE AbandonRound
  BY <1>2, <1>5 DEF AbandonRound, Game!Next
<1>6. CASE \E p \in Players : PollVerdict(p)
  <2>1. UNCHANGED <<pc, grid, activeTurnIdx, core_status>>
    BY <1>6 DEF PollVerdict
  <2> QED
    BY <2>1 DEF Game!vars
<1>7. CASE JoinVerdicts
  <2> DEFINE after == IF Approved THEN "start" ELSE "done"
  <2>1. /\ pc = "polling" /\ \E sent : SendAll(sent, after)
        /\ Approved => grid' = wipe_topological_grid
    BY <1>7 DEF JoinVerdicts
  <2>2. pc' \in {"start", "done", "killed"} /\ (pc' = "start" => grid' = wipe_topological_grid)
    BY <2>1 DEF SendAll
  <2>3. CASE pc' = "start"
    <3>1. Game!Rematch
      BY <1>1, <2>1, <2>2, <2>3 DEF Game!Rematch
    <3> QED
      BY <3>1 DEF Game!Next
  <2> QED
    BY <1>2, <2>1, <2>2, <2>3 DEF Game!Next
<1> QED
  BY <1>3, <1>4, <1>5, <1>6, <1>7 DEF ServerStep

\* The board, the turn and the status execute_core_loop keeps are those of a
\* game of noughts and crosses, played in rounds each of which a rematch may
\* follow, whoever polls: a player whose lobby does may mark over the other.
THEOREM MatchIsRefereed == Spec => PlaysTheGame
<1>1. Init => Game!Init
  BY DEF Init, Game!Init, Game!Blank, Game!Cells, Game!Free, Game!NoOne, Game!NoVictor,
         Undecided, wipe_topological_grid, Positions
<1>2. BoardsInv /\ Unsettled /\ [Next]_vars => [Game!Next]_Game!vars
  <2> SUFFICES ASSUME BoardsInv, Unsettled, [Next]_vars PROVE Game!Next \/ UNCHANGED Game!vars
    OBVIOUS
  <2>1. ASSUME UNCHANGED server PROVE UNCHANGED Game!vars
    BY <2>1 DEF server, Game!vars
  <2>2. CASE ServerStep
    BY <2>2, ServerStepIsRefereed
  <2>3. CASE \E p \in Players : ReaderStep(p) \/ FxStep(p) \/ Quit(p)
    BY <2>1, <2>3, ClientsLeaveServer
  <2>4. CASE Terminated \/ UNCHANGED vars
    <3>1. UNCHANGED server
      BY <2>4 DEF Terminated, vars, server
    <3> QED
      BY <2>1, <3>1
  <2> QED
    BY <2>2, <2>3, <2>4 DEF Next
<1>3. Spec => []Unsettled
  BY Init_Unsettled, Next_Unsettled, CoreMatchTypeOK, PTL DEF Spec
<1> QED
  BY <1>1, <1>2, <1>3, BoardsInductive, PTL DEF Spec, Game!Spec, PlaysTheGame

-----------------------------------------------------------------------------
(* Boards: both judges on every board. *)

\* The table of TrisGame, line by line.
LEMMA TableOfLines ==
  /\ DOMAIN validation_matrix = 1..8
  /\ validation_matrix[1] = {1, 2, 3} /\ validation_matrix[2] = {4, 5, 6}
  /\ validation_matrix[3] = {7, 8, 9} /\ validation_matrix[4] = {1, 4, 7}
  /\ validation_matrix[5] = {2, 5, 8} /\ validation_matrix[6] = {3, 6, 9}
  /\ validation_matrix[7] = {1, 5, 9} /\ validation_matrix[8] = {3, 5, 7}
  BY DEF validation_matrix

\* Each has a cell, and cells only.
LEMMA LinesHaveCells ==
  \A i \in DOMAIN validation_matrix :
    /\ validation_matrix[i] # {}
    /\ validation_matrix[i] \subseteq Positions
<1>1. \A i \in 1..8 : i = 1 \/ i = 2 \/ i = 3 \/ i = 4 \/ i = 5 \/ i = 6 \/ i = 7 \/ i = 8
  OBVIOUS
<1>2. /\ \A i \in 1..8 : validation_matrix[i] # {}
      /\ \A i \in 1..8 : validation_matrix[i] \subseteq Positions
  BY <1>1, TableOfLines DEF Positions
<1> QED
  BY <1>2, TableOfLines

\* The lines of the client are those of the rules.
LEMMA TableIsTheRules ==
  ASSUME NEW g, NEW p
  PROVE  HasLine(g, p) <=> Game!Wins(g, p)
<1> DEFINE Filled(line) == \A c \in line : g[c] = p
<1>1. Game!Wins(g, p) <=> \/ Filled({1, 2, 3}) \/ Filled({4, 5, 6}) \/ Filled({7, 8, 9})
                          \/ Filled({1, 4, 7}) \/ Filled({2, 5, 8}) \/ Filled({3, 6, 9})
                          \/ Filled({1, 5, 9}) \/ Filled({3, 5, 7})
  BY Zenon DEF Game!Wins, Game!Lines
<1>2. HasLine(g, p) <=> \E i \in 1..8 : Filled(validation_matrix[i])
  BY TableOfLines DEF HasLine, Fills
<1> HIDE DEF Filled
<1>3. \A i : i \in 1..8 <=> i = 1 \/ i = 2 \/ i = 3 \/ i = 4 \/ i = 5 \/ i = 6 \/ i = 7 \/ i = 8
  OBVIOUS
<1>4. HasLine(g, p) <=> \/ Filled(validation_matrix[1]) \/ Filled(validation_matrix[2])
                        \/ Filled(validation_matrix[3]) \/ Filled(validation_matrix[4])
                        \/ Filled(validation_matrix[5]) \/ Filled(validation_matrix[6])
                        \/ Filled(validation_matrix[7]) \/ Filled(validation_matrix[8])
  BY <1>2, <1>3, Zenon
<1> QED
  BY <1>1, <1>4, TableOfLines

\* calculate_session_victor on a board with a line of one player at most.
LEMMA VictorHasTheLine ==
  ASSUME NEW g, ~ (HasLine(g, Node1) /\ HasLine(g, Node2))
  PROVE  calculate_session_victor(g, Node1, Node2) =
           IF HasLine(g, Node1) THEN Node1
           ELSE IF HasLine(g, Node2) THEN Node2
           ELSE IF HasFreeCell(g) THEN Undecided ELSE Draw
<1>1. \A p : HasLine(g, p) <=> \/ validate_horizontal_alignment(g, p)
                               \/ validate_vertical_alignment(g, p)
                               \/ validate_diagonal_alignment(g, p)
  BY LinesAreTried, TableIsTheRules
<1> QED
  BY <1>1, Zenon DEF calculate_session_victor

\* Some line comes first.
LEMMA FirstOfLines ==
  ASSUME NEW S \in SUBSET (1..8), S # {}
  PROVE  \E i \in S : \A j \in S : i <= j
<1>1. S \subseteq Nat
  OBVIOUS
<1>2. PICK i \in S : \A j \in S : <<j, i>> \notin OpToRel(<, Nat)
  BY <1>1, NatLessThanWellFounded, WFMin
<1>3. \A j \in S : ~ (j < i)
  BY <1>1, <1>2 DEF OpToRel
<1> QED
  BY <1>1, <1>3

\* checkWinner on such a board: the player who has the line, or 0.
LEMMA WinnerHasTheLine ==
  ASSUME NEW g \in Grids(Marked), ~ (HasLine(g, Node1) /\ HasLine(g, Node2))
  PROVE  checkWinner(g) = IF HasLine(g, Node1) THEN Node1
                          ELSE IF HasLine(g, Node2) THEN Node2 ELSE 0
<1> DEFINE filled == {i \in DOMAIN validation_matrix :
                        \E mark \in {g[p] : p \in validation_matrix[i]} \ {0} :
                          Fills(g, validation_matrix[i], mark)}
           first == CHOOSE i \in filled : \A j \in filled : i <= j
           seen == CHOOSE p \in validation_matrix[first] : TRUE
<1>1. checkWinner(g) = IF filled = {} THEN 0 ELSE g[seen]
  BY Zenon DEF checkWinner
<1>2. \A p \in Positions : g[p] \in Marked
  BY DEF Grids
<1>3. ASSUME NEW i \in DOMAIN validation_matrix
      PROVE  i \in filled <=> Fills(g, validation_matrix[i], Node1) \/ Fills(g, validation_matrix[i], Node2)
  <2>1. PICK p \in validation_matrix[i] : p \in Positions
    BY LinesHaveCells
  <2>2. g[p] \in {0, Node1, Node2}
    BY <1>2, <2>1 DEF Marked, Players
  <2>3. ASSUME NEW mark \in {g[c] : c \in validation_matrix[i]} \ {0}, Fills(g, validation_matrix[i], mark)
        PROVE  mark \in {Node1, Node2}
    BY <2>1, <2>2, <2>3 DEF Fills
  <2>4. ASSUME NEW mark \in {Node1, Node2}, Fills(g, validation_matrix[i], mark)
        PROVE  mark \in {g[c] : c \in validation_matrix[i]} \ {0}
    BY <2>1, <2>4, NodesAssumption DEF Fills
  <2>5. i \in filled <=> \E mark \in {g[c] : c \in validation_matrix[i]} \ {0} : Fills(g, validation_matrix[i], mark)
    OBVIOUS
  <2> QED
    BY <2>3, <2>4, <2>5
<1>4. filled \subseteq DOMAIN validation_matrix
  OBVIOUS
<1> HIDE DEF filled
<1>5. filled = {} <=> ~ HasLine(g, Node1) /\ ~ HasLine(g, Node2)
  BY <1>3, <1>4 DEF HasLine
<1>6. CASE filled = {}
  BY <1>1, <1>5, <1>6
<1>7. CASE filled # {}
  <2>1. first \in filled
    BY <1>4, <1>7, FirstOfLines, TableOfLines
  <2> HIDE DEF first
  <2>2. seen \in validation_matrix[first]
    BY <1>4, <2>1, LinesHaveCells
  <2> HIDE DEF seen
  <2>3. \/ g[seen] = Node1 /\ HasLine(g, Node1)
        \/ g[seen] = Node2 /\ HasLine(g, Node2)
    BY <1>3, <1>4, <2>1, <2>2 DEF Fills, HasLine
  <2> QED
    BY <1>1, <1>7, <2>3
<1> QED
  BY <1>6, <1>7

IsMarked == board \in Grids(Marked)

LEMMA Next_IsMarked == IsMarked /\ [MarkACell]_board => IsMarked'
<1> SUFFICES ASSUME IsMarked, MarkACell PROVE IsMarked'
  BY DEF IsMarked
<1>1. PICK mark \in {Node1, Node2}, cell \in Positions : board' = PutMark(board, cell, mark)
  BY DEF MarkACell
<1> QED
  BY <1>1 DEF IsMarked, PutMark, Grids, Marked, Players

LEMMA BoardsAreMarked == SpecBoards => []IsMarked
<1>1. Blank => IsMarked
  BY DEF Blank, wipe_topological_grid, IsMarked, Grids, Marked
<1> QED
  BY <1>1, Next_IsMarked, PTL DEF SpecBoards

\* The client's judge and the server's call every board alike that a game
\* which stops at the first line can reach, whatever the descriptors.
THEOREM JudgesCallItAlike == SpecBoards => []JudgesAgree
<1>1. ASSUME IsMarked PROVE JudgesAgree
  <2> SUFFICES ASSUME OneWinner
               PROVE  victor = CASE checkWinner(board) # 0 -> checkWinner(board)
                                 [] checkWinner(board) = 0 /\ isBoardFull(board) -> Draw
                                 [] OTHER -> Undecided
    BY DEF JudgesAgree
  <2>1. ~ (HasLine(board, Node1) /\ HasLine(board, Node2))
    BY DEF OneWinner
  <2>2. victor = IF HasLine(board, Node1) THEN Node1
                 ELSE IF HasLine(board, Node2) THEN Node2
                 ELSE IF HasFreeCell(board) THEN Undecided ELSE Draw
    BY <2>1, VictorHasTheLine DEF victor
  <2>3. checkWinner(board) = IF HasLine(board, Node1) THEN Node1
                             ELSE IF HasLine(board, Node2) THEN Node2 ELSE 0
    BY <1>1, <2>1, WinnerHasTheLine DEF IsMarked
  <2>4. isBoardFull(board) <=> ~ HasFreeCell(board)
    BY FreeCells DEF isBoardFull
  <2>5. Node1 # 0 /\ Node2 # 0
    BY NodesAssumption
  <2>6. CASE HasLine(board, Node1)
    BY <2>2, <2>3, <2>5, <2>6
  <2>7. CASE ~ HasLine(board, Node1) /\ HasLine(board, Node2)
    BY <2>2, <2>3, <2>5, <2>7
  <2>8. CASE ~ HasLine(board, Node1) /\ ~ HasLine(board, Node2)
    BY <2>2, <2>3, <2>4, <2>8
  <2> QED
    BY <2>6, <2>7, <2>8
<1> QED
  BY <1>1, BoardsAreMarked, PTL

\* The mark that decides a board decides it for who made it, or for nobody.
THEOREM MoverOrNobodyWins == SpecBoards => OnlyTheMoverWins
<1>1. ASSUME IsMarked, MarkACell, victor = Undecided,
             NEW c \in Positions, board'[c] # board[c]
      PROVE  victor' \in {board'[c], Draw, Undecided}
  <2>1. PICK mark \in Players, cell \in Positions : board[cell] = 0 /\ board' = PutMark(board, cell, mark)
    BY <1>1 DEF MarkACell, Players
  <2>2. c = cell /\ board'[c] = mark
    BY <1>1, <2>1 DEF IsMarked, PutMark, Grids
  <2>3. calculate_session_victor(board, Node1, Node2) = Undecided
    BY <1>1 DEF victor
  <2>4. victor' = Game!Ruling(PutMark(board, cell, mark), mark)
    BY <1>1, <2>1, <2>3, VictorIsRuled DEF IsMarked, victor
  <2>5. Game!Ruling(PutMark(board, cell, mark), mark) \in {mark, Draw, Undecided}
    BY DEF Game!Ruling, Game!NoVictor, Game!Draw, Draw, Undecided
  <2> QED
    BY <2>2, <2>4, <2>5
<1>2. IsMarked /\ [MarkACell]_board =>
        [victor = Undecided =>
           \A cell \in Positions :
             board'[cell] # board[cell] => victor' \in {board'[cell], Draw, Undecided}]_board
  BY <1>1
<1> QED
  BY <1>2, BoardsAreMarked, PTL DEF SpecBoards, OnlyTheMoverWins
=============================================================================
