# A verification project for TRIS (Tic-Tac-Toe over TCP)

The program is a C server (`src/Server`), one thread per connection, and a
JavaFX client (`src/Client`), two or three threads per process. This directory
holds TLA+ modules translated from that code, the TLC configurations that check
them, and proofs for TLAPS.

    tlc -workers 2 -config match.cfg MCCoreMatch.tla
    tlapm SessionRegistry_proofs.tla

`PROJECT.json` lists the components, the runs, the source lines every
definition stands for, the hazards of the code and the theorems.

## 1. The system

| Component | State | Operations | Meets the others through |
|---|---|---|---|
| Match loop, `execute_core_loop` and `invoke_rematch` (server.c:382-601) | the `MatchSession`: grid, turn, state; the status of the round; two verdicts | draw the first turn, receive a move, judge, forward, abandon, poll the verdicts in two threads, join them | two sockets; runs in the thread of the player who joined, under both `streamLock`s |
| Judges: `calculate_session_victor`, `TrisGame.checkWinner` | none | validate rows, columns, diagonals; find a free cell | the match loop; the client's tests |
| Client in a match: `GameClient`, `GameController` | token, `simulation_engine`, buttons, dialog; position of the reader | reader thread: first turn, opponent's move, status; FX thread: click, handle what the reader left, rematch, play again | the socket; `Platform.runLater`; the monitor of `byte_consumer` |
| Session identifiers (server.c:39-64) | counter, pool of 20 | acquire, relinquish | creation, end of a match, purge |
| Dynamic array (dynamic_array.c) | capacity, count, slots | append, implant, fetch, excise, expand, compact | `activeMatchSessions`, `activePlayerNodes` |
| Session registry | `activeMatchSessions`, identifiers, which session each player is bound to | create, end of a match, purge of orphans | all player threads |
| Player lifecycle, `executePlayerNodeLifecycle`, `process_activation_request` | `PlayerNode`, its `streamLock`, `activeSessionId`, ticks | read an opcode, challenge a host, relay its verdict, time out, clean up | the registries, the match loop, other players' nodes |
| Player registry, `activePlayerNodes` | slots with node pointers, socket numbers | append, scan, excise | lifecycle, SIGINT handler |
| Lobby client, `HomeController` | pending sessions, listener flag, timeline, dialogs | poll the ledger, join, create, listen for a challenge, reconnect | the same socket and monitor as the match |
| Ledger fetch and "broadcast" (server.c:637-670, 996-1042) | none | read the registry, send a line | registries, sockets |
| Accept loop and shutdown (main.c) | listening socket | accept; on SIGINT dump, demolish and exit; demolish after an accept that fails | everything |
| Linked list (queue_list.c) | list | push, pop, peek, excise by value or offset | nothing calls it |

What is hard here: two readers on one stream in each client; a token kept in
three places (server, reader, FX thread); commands of different lengths read
by whoever reads next, which may be the player's own thread or that of a guest;
programs that stop and receives that time out on either side; nodes and
sessions freed by one thread while others keep pointers; registries whose
operations are locked one at a time while their users need two or three of them
together.

What makes each part correct:

* match: server and clients together play the game, whatever the order of
  sends, reads and events; nobody is heard out of turn; what each user sees is
  the server's board but for messages on their way; each round ends; a rematch
  begins only if both want it;
* judges: both say the same, and a mark decides for its maker only;
* identifiers: never shared, never in use before they are made;
* store: no expansion, compaction or excision touches an element it should not;
* registry: the slot of a session is its identifier, and no player loses a
  session but to its own end;
* lifecycle: a player is in one match, and nobody but its thread reads the
  moves; a session in the store is that of a host bound to it; no circle of
  waits; a join ends unless its host plays;
* player registry: no slot dangles, a thread finds no node but its own, and who
  leaves gets through;
* lobby: one listener, no poll beside it, joins that come back; shutdown: the
  handler exits; list: a sequence.

What the documents also say and the code does not do (a match starts with the
host's consent to this guest, freed memory is not used, a rematch both want
begins) is checked as well, and refuted: section 3.

## 2. Modules

| Module | What it models | State and actions |
|---|---|---|
| `TopologicalGrid` | the board, the server's judge, the client's judge and record | operators named for the C and Java functions |
| `Boards` | every board | one action: anybody marks a free cell |
| `Referee` | abstract: what a match promises | `board, mover, stage, victor`; `Begin, Mark, Rematch, Close`; a `Careless` player may mark over another's mark |
| `CoreMatch` | the match loop, both connections, both clients | below |
| `MCCoreMatch` | the cells the users click, who stops, who polls | |
| `SessionIds` | the two identifier functions, and their callers' duty as `IdSpec` | `current_highest_id`, `recycled_id_pool` and the history `held` |
| `DynamicArray` | the store as operators on a record with the fields of the C struct | each call holds `synchronizer` throughout, so it is one step of its caller |
| `SessionRegistry` | the threads of hosts over `SessionIds` and `DynamicArray` | below |
| `MatchServer` | the threads of all players, their locks, nodes and sessions as memory, over `SessionIds` and `DynamicArray` | below |
| `NodeRegistry` | `activePlayerNodes` over `DynamicArray`, and the accept loop | below |
| `Shutdown` | the SIGINT handler and the end of main, over `NodeRegistry` | below |
| `LobbyClient` | `HomeController` and the calls it makes on `GameClient` | below |
| `Ledger` | abstract: what queue_list.c promises, a sequence | `ledger`, `result` |
| `ChainLedger` | queue_list.c link by link | the links' fields, the allocated blocks, who owns them; one action per function |
| `MC*` | instances for TLC | |
| `*_proofs` | theorems and proofs | |

How they compose: `CoreMatch` is one match from inside, with the bytes of both
players; `MatchServer` is many matches from outside, where a match is its locks,
the bytes it consumes and the messages it sends, and whose board does not
matter. `SessionRegistry` is the inside of a creation, an end and a purge, which
`MatchServer` takes as one step each. `LobbyClient` is the inside of a program
that `MatchServer` sees from its socket. `NodeRegistry` is what the threads of
`MatchServer` do before and after.

**CoreMatch.** `pc` is where the server thread is: `start` (top of the `do`
loop), `await` (the receive of a move), `polling` (`invoke_rematch`), `done`,
or `killed`. Between two receives the server only computes and sends, and
nobody else touches its session, so one action runs from one receive to the
next: `StartRound`, `ReceiveMove`, `AbandonRound`, `PollVerdict(p)` (a thread
each), `JoinVerdicts`. What it sends goes to `toClient`; each client reads it
one message at a time, so every order of arrival is there. What a client sends
is a sequence of 16-bit halves, because a verdict is two bytes and a move four,
and the server reads two or four without knowing what was meant. `link` is a
connection: closed by the peer, or reset; a send to a reset peer may raise
SIGPIPE, which nothing handles.

In a client, `reader` is where `startReader`'s thread is, `runLater` what it
left to the FX thread, `has_token_control`, `engine` and `shown` are the token,
the `TrisGame` and the buttons, and `window` is the state of the FX thread
(`playing`; `asking`, in the dialog; `waiting`, blocked in `rivincita`;
`agreed`; `over`). `onFirstTurn` runs on the reader thread and is two actions,
`ReadFirstTurn` and `RenewEngine`, because a click may come between its
assignments. In the status dialog a nested event loop runs, so
`HandleOpponentMove` stays possible there. The lobby's timeline goes on in the
host's process: `FetchLedger` writes the request (`fetching` is then `asked`),
`FetchReads` takes the monitor of `byte_consumer` (`reading`; `HasMonitor` says
who may), `SwallowMessage` is one message of the match taken for a part of a
line, and the fetch keeps the monitor until the line ends or the receive times
out (`FetchEnds`). A line can end inside a message of the match only where a
descriptor has a byte 10. Messages are swallowed whole: a reader that resumes in
the middle of a number is not followed.

Left out of a client: the glyphs and messages; the back button; a second
match in the same window.

**SessionRegistry.** `thread[h]` is where the thread of host h is. The actions
are one per call on the identifiers or the store: `AcquireId`,
`ImplantSession`, `ExciseMatch`, `ReclaimId`, `RelinquishOrphan`,
`ExciseOrphan`, and what comes between: `Connect`, `ExitCreating`, `Leave`,
`EndThread`. The scans of the store are collapsed to the slot they look for.
From the implant to the assignment of `activeSessionId` is one step. A write
beyond the store sets `aborted`: the makefile builds with AddressSanitizer.
The nodes are not separate memory here; they are in `MatchServer`.

**MatchServer.** `thread[p]` is where the thread of player p is, with the locals
it still needs: `loop`, `deadline`, `leaving`, `purging` of the lifecycle;
`create`, `naming` and the discards of `process_instantiation_request`; `fetch`,
`ledger`, `newline` of `process_queue_fetch`; `join`, `challenge`, `verdict`,
`relay` of `process_activation_request`; `lockPrimary` to `ending` of
`execute_core_loop`. A step goes from one point where the thread may wait, or
another thread may come between, to the next. `streamLock[p]` names the thread
that holds it. What a program sends is exact to the byte, because any four
bytes of a host are taken for its verdict, any four of a mover for its move, and
what is left over for an opcode. A request to create or to join carries a name of
any of `NameLengths`, after its length: the word 5 of a name of five letters is
`OP_APPROVE_REQ`. What the server sends is one record per message, and `ledger`
and `newline` are two because the handler sends them with two unlocked calls.
`heap` holds every session ever allocated and `node[p].live` the node: a thread
about to use either after it was freed sets `aborted`. `consent` is a history:
whom a user was last asked about, and the answer.

`client[p]` is the program as its socket shows it, and `second[p]` what another
of its threads will do with `byte_consumer` once it has the monitor: no button of
the lobby is disabled by a listener, so a host may click create again or join
elsewhere while it listens, and a player whose join is under way may create.
A line is read byte by byte up to a newline, a number four bytes at a time. A
program that has taken one for the other is `lost`: what it reads then is not
modelled. It writes nothing more, unless it is `Astray`, and then it may write
any of the words it knows, in any order.

**NodeRegistry.** A thread registers its node (`Survey`, the print of every
other node, `Register`), serves, and removes it (`Search`, `Compare`, `Excise`,
`Close`). A scan fetches a slot, looks at the node and goes on in separate
steps, since the synchronizer is held only for the fetch. `accept` gives the
lowest free socket number, so that a number comes back as soon as it is closed.

**Shutdown.** The handler is one more walker of the registry. It runs on main or
on any thread, and that thread stands still; `inside` says whether it has
interrupted a call on a store, whose synchronizer then stays held. The stores are
demolished while the others go on: an append that comes after that is refused
(`RegisterRefused`), and the thread frees its node and ends. After an accept that
fails main frees the slots of a store as if they were blocks, which ends the
server.

**LobbyClient.** `fx` is what the FX thread is in the middle of (an event is
several steps where another thread may come between), `daemon[d]` a listening
thread, `asked[d]` the challenge it waits about, `prompt` and `consensus` the
dialog and the answer of each challenge, `enabling` the threads whose end has
left the buttons to the FX thread, `joiner` the thread of the join button,
`monitor` the holder of `byte_consumer`. `notify` wakes only who waits, and the
wait, which is not in a loop (HomeController.java:237-244), may end for nothing
(`WakeForNothing`): the answer sent is then a refusal. The network answers as it
likes.

**ChainLedger.** `links` and `blocks` are what is allocated; a call holds
`access_lock` throughout and is one step.

## 3. Runs

| Run | States | What it shows |
|---|---|---|
| `grid` | 19,683 | the judges agree wherever one player at most has a line; a mark decides for its maker or for nobody |
| `match_faults` | 1,424,226 | programs that stop at any moment, timeouts on both sides and a second round: streams stay framed, turns agree, views reconcile, `Referee` is implemented, each round ends |
| `match_polled` | 1,486,389 | the ordinary host, whose lobby polls into the match: the guest's stream, token and board stay right, no rematch without both users, `Referee` is implemented with a host that may mark over its opponent |
| `registry` | 403,077 | three hosts, store of two slots, pool of two: all the properties of identifiers, slots and sessions |
| `server_trio` | 1,652,465 | three players, two matches, two guests for one host, hosts that click create again or join elsewhere, one program that polls and goes astray: who holds which lock, who waits for whom, whose the sessions are |
| `server_joins` | 486,124 | two guests for one host that is silent, for 30 seconds or for good, or quits: every join ends unless the host plays |
| `nodes` | 369,221 | three connections and a SIGINT: the registry of players in every order of registrations, scans, removals, dump and demolition |
| `ledger` | 238,613 | queue_list.c: mirrored links, no block lost, and the refinement of `Ledger` |
| `lobby` | 1,627,053 | two creations, two joins, a ledger, two challenges and wakeups for nothing in every order of the threads of a client |
| `rematch_refused` | violation | `RematchWhenBothAgree` |
| `freed_session` | violation | `NoUseAfterFree` |
| `consent_unasked` | violation | `ConsentIsForMe` |

The three violations are disagreements between the code and what the
documentation or a comment says of it; `PROJECT.json` quotes them under
"findings". `rematch_refused`: both users ask for a rematch and the server
refuses, because the loser is given its token before it is told of the end, and
a click in between is read as the verdict. `freed_session`: a second guest waits
for the lock of a host with the pointer to a session which the end of the first
match frees. `consent_unasked`: a host of a name of five letters clicks create
again; its own thread has read the opcode and is about to discard the rest, which
it does without a lock (server.c:1062), when the thread of a guest reads the
length of the name as the host's approval. The host has been asked nothing.

Each property of a passing run has a mutant: an operator defined beside the one
it replaces, marked "Mutant" in its comment, that changes it as a slip in the
code would. Under the mutant TLC finds the property violated. Mutants are used
by nothing else.

### Further configurations

These are kept to be run by hand. `match` finds no error: two programs that stay
play a whole game on all nine cells (492,811 states), draws included, as
`Referee` says. The others end in a counterexample:

| Configuration (module) | Property | What its counterexample shows |
|---|---|---|
| `mark_overwritten` (MCCoreMatch) | `NoMarkOverwritten` | a poll of the lobby is taken for a move, and the server writes over a mark (Documentazione.tex:247) |
| `abandon_silent` (MCCoreMatch) | `AbandonIsNotified` | the player who stays is told nothing when the other is lost (Documentazione.tex:260) |
| `id_overrun` (MCSessionRegistry) | `NoOverrun` | four creations write beyond a store of three that counts a slot free (Documentazione.tex:270) |
| `freed_host` (MCMatchServer) | `NoUseAfterFree` | a ledger names the host of a session whose node is freed but which is not yet purged |
| `stream_shared` (MCMatchServer) | `NobodyLost` | with three players a host that has accepted one guest reads the challenge of another where it expects its turn (Documentazione.tex:175) |
| `consent_late` (MCMatchServer) | `ConsentIsForMe` | an answer after 30 seconds is taken for the answer to the next challenge (README.md:85) |
| `approved_twice` (MCMatchServer) | `OneApprovalEach` | a host of a name of five letters clicks create again: besides the guest it accepts, another hears an approval for the same match |
| `bound_to_nothing` (MCMatchServer) | `NobodyIsBoundToNothing` | the first of two approved guests stays bound to a session it has no part in (server.c:1054) |
| `player_unlisted` (MCNodeRegistry) | `ServedAreListed` | an append overwrites the last node after one in the middle has left (Documentazione.tex:165) |
| `node_freed` (MCNodeRegistry) | `NoUseAfterFree` | a new thread prints a node a leaving one has freed (Documentazione.tex:191) |
| `never_shrinks` (MCNodeRegistry) | `NoUnusedHalf` | the store keeps an empty upper half (Documentazione.tex:191) |
| `flag_stuck`, `pending_miscounted`, `guest_unpolled` (MCLobbyClient) | `FlagIsDown`, `NothingPending`, `TimelinePlays` | a lobby at rest that no longer polls: the flag was set after the listener ended, matches are counted that are over, or the timeline was left stopped by a join (README.md:88) |
| `answer_unheard` (MCLobbyClient) | `AnswerIsHeard` | the user answers before the listener waits (README.md:85) |
| `answer_unasked` (MCLobbyClient) | `AnswerIsTheUsers` | a wakeup for nothing: the challenge is refused before its user has answered (README.md:85) |
| `window_frozen` (MCLobbyClient) | `FxIsFree` | a fetch on the FX thread waits for the monitor of a join (Documentazione.tex:232) |

### Bounds

| Constant | Values | Why that is enough |
|---|---|---|
| `Playable` | which cells each user clicks | `NineCells` (`match`): both can win by rows, columns or a diagonal, contend for cells, and draw on a full board. `FewCells`: wins of both, a contended cell, and a free cell left to a loser, which is what makes a late click possible. `PolledCells`: a poll that wins, or that marks what the guest holds |
| `MaxRounds` | 1, 2 | the users ask for one rematch; nothing but the wiped state passes from a round to the next, so what survives one wipe wrongly shows in the second |
| `MaxUnread` | 2 halves | one fetch unread at a time in a poller's stream; it is already enough for a stray move and a stray verdict |
| `Hosts` | 3 | one purged, one that takes its identifier, one bystander (4 in `id_overrun`) |
| `Starter` | 1 to 3 | small, so that the stores expand and compact; 3 and 6 are main.c's |
| `POOL_SIZE_FOR_IDS` | 2, 20 | 2 so that a third identifier is dropped; 20 is the code's |
| `MaxId` | 1 to 5 | more than the hosts in `registry`, so that dropped and forgotten identifiers are replaced; as many as creations in `MatchServer` |
| `Players` | 3 in both runs of `MatchServer` | a host and two guests for it, or a host who is a guest elsewhere, is all that can contend for two locks; a guest waits for a host that plays only where there is a third |
| `Hosts` | everybody in `server_trio`, one in `server_joins` | hosts that are guests of one another; one is enough to be waited for |
| `MaxCreations`, `MaxRequests` | 2, 2; 1, 2 | two matches at once, or one and a second click; two guests, or one that comes twice. A second guest and a second click are all it takes for two approvals of one match |
| `NameLengths` | 5; 7 | 5 reads as `OP_APPROVE_REQ`; 7 as no opcode, so that the configurations with 7 show what goes wrong without it. With 4 the second click would say `OP_TERMINATE_LINK`. The theorems leave the lengths free |
| `Slow` | none; the host | who may be silent for 30 seconds, on either side |
| `Astray` | one | a program that has lost its place and writes anything; more of them add states and no new kind of word |
| `Cells` | one | a move is four bytes; 5 because it is also `OP_APPROVE_REQ` |
| `MaxUnread` | 4 bytes in `MatchServer` | one poll at a time |
| `Connections` | 3 | one that leaves the middle, the one an append then overwrites, the one that appends |
| `MaxOpen` | 1 | connections open when SIGINT comes: the handler beside one thread, and one that main still accepts |
| `Links`, `Payloads`, `MaxOffset` | 4, 2, 4 | every case of unlinking (only one, first, last, middle), equal payloads, an offset beyond the end |
| `Daemons`, `MaxCreations`, `MaxJoins`, `MaxReloads`, `MaxChallenges` | 2, 2, 2, 1, 2 | a listener that ends while another click starts the next one; a join refused and one accepted; a challenge refused and the next |

`Timeouts`, `Slow`, `Quitters` and `Pollers` switch failures on. `match_faults`
keeps the pollers off, since every half they write multiplies its states;
`match_polled` and the theorems are about the ordinary host, which polls.
`CHECK_DEADLOCK FALSE` appears only where the system may stop: a full board of
`grid`; users who have done all their bound lets them; a server that has ended.

### Fairness

Nothing is assumed of users or of the network, only that threads that can go on
do:

* `match_faults` (`RoundEnds`): `WF_vars(ServerStep)`. `SO_RCVTIMEO`
  (server.c:690) bounds each receive, so in `await` a step is always on its
  way: a move, a failure or a timeout. The mutant `FailsAtOnce` is a socket
  without that option, and breaks it.
* `server_joins` (`JoinsEnd`): the same for the thread of each player
  (`WF_vars(ServerStep(p))`). Two guests contend for the lock of one host, and
  weak fairness is enough: who has the lock gives it back after one bounded
  receive, or plays, which `JoinsEnd` excepts; the other's turn comes at the
  latest when the first has used its requests up. That is what the bound on
  requests does here: guests that come again without end could, in principle,
  always be the faster ones, as a mutex promises no order.
* `nodes` (`LeaversGo`, `RoutineEnds`): the handler, and each thread that scans
  or registers. The synchronizer is free after every call but an interrupted one.
* `lobby` (`JoinsComeBack`): the FX thread's own steps, the joining thread and
  each listener. `SO_TIMEOUT` bounds what they read; clicks are not assumed, and
  a dialog may stay open for ever. Nothing is assumed of `WakeForNothing`.

## 4. Properties

Of the match: `StreamInStep` (no reader takes one message for another),
`TurnsAgree` (a user who can click is the one the server waits for),
`OnlyTheActingNodeSpeaks` (what the server reads as a move is one: it checks
neither sender nor cell), `ViewsReconcile` (each user's board is the server's
but for messages in flight), `NoMoveRefused` (the two client records of the
marks do not contradict each other), `PlaysTheGame` (refinement of `Referee`),
`RematchNeedsBoth`, `RoundEnds`.

`StreamInStep`, `TurnsAgree`, `OnlyTheActingNodeSpeaks`, `ViewsReconcile` and
`NoMoveRefused` are claimed of the clients that do not poll (`Faithful`), against
opponents that do or do not. `PlaysTheGame` is claimed of all: a player who polls
is `Careless`, which means that the game may see it mark a cell the other holds,
since the loop takes a ledger request for a move to cell 2, free or not. All else
`Referee` says stays: who moves next, that a decided board ends the round, who has
won, that a rematch clears the board.

`NoMoveRefused` excludes the moment between the token and the renewal of
`simulation_engine` (GameController.java:192-197): a click there is judged, and
recorded, on the board of the last round. The move itself is sent and is legal,
so the other properties hold without the exclusion.

Of the registry: `IdsNeverShared`, `IdsWereMade`, `UsesIdsRightly` (refinement
of `IdSpec`), `SlotsAreIds`, `NoTwoHolders`, `OccupancyCoversLive` (the count
that decides on expansion is never below the sessions there are),
`NoCollateralLoss`.

`SlotsAreIds`, `NoTwoHolders` and `NoCollateralLoss` carry the exception the
code imposes: `executePlayerNodeLifecycle` puts an orphan's identifier back
(server.c:834) before it empties the slot (836), so another creation may take
the identifier and have its session emptied. The properties say that this is
the only way.

Of the lifecycle:

* `OneMatchEach`: no player is in two matches;
* `PlayersAreHeld`: no other thread is about to take the moves of the host of a
  match, or of the guest whose thread runs it, as opcodes or as a verdict;
* `NoCircularWait`, as long as no thread is about to use freed memory;
* `NoZombieSessions`: a session in the store is that of a host bound to it;
* `JoinsEnd`: a join is turned away or becomes a match, unless its host plays.
  Who waits for a host that plays waits without a timeout (server.c:947), through
  all the rematches; that is why the exception is there.

They hold although a host may approve two guests for one match (`approved_twice`).
What two approvals do leave behind: the second overwrites `participantSecondary`,
so that the thread of the first locks and plays with the second; the second may
come to wait for its own lock; a player stays bound to a match it has no part in
(`bound_to_nothing`). `PlayersAreHeld` and `NoCircularWait` say for whom they
hold. A server that is about to use freed memory is stopped by AddressSanitizer;
what it would do otherwise is not claimed.

Of the registry of players: `NoDanglingSlot`, `ListedSocketsDiffer`,
`LeaversGo`; of the shutdown `RoutineEnds`, unless the signal interrupts a call
on a store: then that thread waits for itself and the server never exits. Of the
list: `LinksMirror`, `NothingLeaked`, `ImplementsLedger`. Of the lobby:
`OneListener`, `PollsAlone`, `JoinsComeBack`; `AnswerIsTheUsers`, `AnswerIsHeard` and
`FxIsFree` only as refuted by hand.

## 5. Proofs

For all constants that satisfy the assumptions (`NodesAssumption`,
`BoundsAssumption`, `PoolAssumption`, `RegistryAssumption` of both registries,
`LobbyAssumption`, `ServerAssumption`, `ChainAssumption`). They bound nothing but
one thing: `MaxId <= Starter` in `ServerAssumption` gives the store a slot for every
identifier, because a creation is one step of `MatchServer` and the growth of the
store is the business of `SessionRegistry`. The number of players, and that of the
identifiers and slots, stay free.

* `CoreMatch_proofs`: `CoreMatchTypeOK`. `TypeOK` is inductive. Its weight is
  in what is read back: the halves a client sends are digits, so the number
  the server composes is one; an uninitialized verdict and a number that is no
  cell are among the cases.
* There too: `StreamAlwaysInStep`, `TurnsAlwaysAgree`, for any number of rounds
  and whatever stops or times out; `ViewsAlwaysReconcile`,
  `OnlyTheActingNodeEverSpeaks`, `NoMoveEverRefused`, as generally;
  `RematchesAreAgreed`, of pollers too and whatever stops or times out, of every
  player whose program still runs (the run checks it where nobody leaves); and
  `MatchIsRefereed`, that `CoreMatch` implements `Referee`, whichever lobbies
  poll.
* `SessionIds_proofs`: `IdsAreNeverShared`, `IdsAreMadeAndPoolHolds`, from
  `IdInv`, the conjunction of the type and the three invariants: that a new
  identifier is not in use needs `IdsWereMade`, and that one put back does not
  wait already needs `IdsNeverShared`.
* `DynamicArray_proofs`: `ExpansionKeeps`, `CompactionKeeps`,
  `AppendWritesOneSlot`, `ImplantWritesOneSlot`, `ExciseEmptiesOneSlot`, for any
  elements and sizes.
* `NodeRegistry_proofs`: `NodeRegistryTypeOK`, `NoSlotEverDangles`,
  `ListedSocketsAlwaysDiffer`, for any number of connections.
* `LobbyClient_proofs`: `LobbyTypeOK`, `OneListenerEver`, `PollsAreAlone`, for any
  number of listening threads, clicks and challenges.
* And, of every board of `Boards`: `JudgesCallItAlike`, `MoverOrNobodyWins`.
* `MatchServer_proofs`: `TypeIsRight`, `PlayersAreTheMatchs`, `NobodyPlaysTwice`,
  `NobodyWaitsForEver` and `StoreHasNoZombies`; for any number of players, names of
  any length, programs that are silent, stop, poll or write any word they know.
* `ChainLedger_proofs`: `ChainTypeOK`, `LinksAlwaysMirror`, `NothingEverLeaks` and
  `ListIsALedger` (refinement of `Ledger`), for a list of any length.
* `SessionRegistry_proofs`: `RegistryTypeOK`, `RegistryUsesIdsRightly`,
  `RegistryNeverSharesIds`, `NoTwoHoldersEver`, `SlotsAreIdsAlways`,
  `OccupancyAlwaysCovers`, `NoLossIsCollateral`.

The inductive invariant `RegistryInv` of the last has seven parts: `TypeOK`;
`IdInv`; `ThreadsTellIds` (where a thread is tells whether it has an
identifier); `HoldersHold` (who has not put its identifier back holds it);
`HoldersApart` (two such hosts hold different ones); `SlotsHaveHosts` (a session
in the store is of a host that knows it, in its own slot); `IdsKnown`. None of
the properties is inductive alone: that a purge puts back an identifier rightly
rests on the session it found being its own, which rests on slots being
identifiers, which rests on no two hosts writing one slot, which rests on the
identifiers. Every step moves one host, so `HostMoves` reduces each of the ten
actions to three obligations: what it does to the host, to the identifiers
held, and to the store. `RegistryUsesIdsRightly` is the step simulation
(`Step_IdNext`); the invariants of `SessionIds` then come by refinement.

`OccupancyCoversLive` is not inductive either: a purge whose slot another purge
has emptied discounts an empty slot. What makes it good is that the session it
had was overwritten by a creation, which counted itself. `CountInv` says so:
`occupied_slots` is at least the number of hosts in `Counted`, those with a
session in the store and those whose purge has an excision to do, whatever is in
its slot. Every step adds or removes at most the host that takes it, and the
live slots inject into `Counted` because a session's host knows its slot.

The inductive invariant `StreamInv` of `CoreMatch_proofs` says where each
client is in its round (`Place`, a function of its two threads), where a message
takes it (`Reads`), and that what is on its way takes it, message by message
(`Path`), to where the server takes it to be (`Expects`, a function of `pc`,
`activeTurnIdx` and of whether p has been heard). `Script` is that statement;
the first message to come is then the one the reader is at, and what comes after
it still is a path. A send of the server makes the path longer (`LongerPath`), a
read makes it shorter (`ShorterPath`). A click and an answer change the place
with messages still to come, and need that there is not far to go
(`DeadEnds`). `LastClick` is for a user whose reader has given up and who may
still click; `Speaks` says that p is heard only as the acting node; `Consents`,
that a verdict polled or to be polled next that agrees is the last word of a user
who waits for the reply, without which a round would begin over bytes of the one
before. `CallsInv` is what the reader can have left to the FX thread. A step of
the other program leaves all of it alone (`Bystander`).

`BoardsInv` adds the boards to `StreamInv`. `Views` is
`ViewsReconcile` player by player: the grid has what the player sees, with the
marks of the other that are on their way (`Unseen`) and without the one of its
own that is (`Unheard`). It is not inductive alone. A click must come to a free
cell of the *server's* grid: `Spoken` says what is in `toServer` of who is
awaited, that its cell is free, and that the player still sees it as its own. A
renewed engine must meet a blank grid but for the first mark of the other:
`Fresh`, with `BlankAtStart`. A round must begin with nothing left in
`toServer`: `Mute` (who has not read its turn has said nothing), `Heard` (while a
verdict is polled there is one late click, then the verdict) and `LeftBehind`
(the same of a player that has gone). `LastWord` is for a user whose reader has
given up. `InTail` and `InLonger` turn the kinds of messages in a
sequence into sets, so that a read or a send changes them by one element.
`DesksInv`, for `NoMoveRefused`, needs neither stream and so holds of pollers
too.

`RematchInv`, for `RematchNeedsBoth`, is about the one byte a verdict is and so
holds of pollers too, where messages are misread. It claims nothing of what a
player has written but halves: everything comes in pairs whose first half is zero
(`Pairs`: opcodes, sessions, cells), except a verdict, which is one (`HasVerdict`).
The thread that polls takes one half, so it takes a yes only if a verdict is
there. `VerdictIs` lists where the verdict of a round may be: not given; given
and on its way, and then it is what the user consented to; polled; or left behind
by a renewal (`Renewal`) that the client has yet to read, which no new verdict
can overtake. That a closed dialog is not opened again by a late status is
`DesksInv`. It says nothing of a player that has gone: its verdict is an
uninitialized variable (server.c:578-610), which may read as a yes, and the other
is then asked into a round without it.

The refinement needs one more fact, `Unsettled`: a board on which a round goes on
is decided for nobody. The loop asks all three judges about both nodes and names
the first that has a line; `Referee` rules on the last mark alone. They agree
because only one side can have gained a line (`VictorIsRuled`), a mark of a poller
over the other's included, and because the lines the three judges try are the
eight of the game (`LinesAreTried`).

The inductive invariant `NodeInv` of `NodeRegistry_proofs` is `TypeOK` and
`NoDanglingSlot` with `ListedWhileOpen` (a listed node is of a thread between
its `Register` and its `Excise`, and its socket is open longer than that),
`ScansAreBehind` (a scan that looks for its own node has not passed the slot it
is in, which nobody moves), and `SocketsTell` (open sockets have different
numbers, and if the node a scan has fetched has the number of its own, it is its
own). Why each is needed: an excision frees whatever is in the slot by then, so
that it frees no second thread's node, and leaves its own nowhere else, rests on
`ScansAreBehind`; that the slot compared is the right one rests on `SocketsTell`;
that closing gives no listed node's number away rests on `ListedWhileOpen`. An
append may overwrite a live slot: the node is then listed nowhere, which breaks
none of them.

The inductive invariant `LobbyInv` of `LobbyClient_proofs` rests on one fact,
`FlagTells`: while a thread listens and has not cleared the flag, either
`sessionDaemonActive` is up or the FX thread is between the thread's start and
`SetActive`. `OneListener` is not inductive without it: a second thread starts
where the flag is down, and the flag is down for a moment after the first has
started. No other action of the FX thread comes in between, so that
`OneUncleared` and `PollsWhileCleared` follow. `NobodyStarts` reduces the actions
that start no listener to what they do to the flag and to `fx`.

The inductive invariant of `MatchServer_proofs` has two parts, and neither rests
on what the programs write. `ServerInv` is about memory, and inductive alone:
types; `IdInv`; `StoreHolds` (a session that lives is in the store, in the slot of
its identifier, and nothing else is); `IdsAreApart` (who has an identifier but no
session yet holds it, apart from all others); `HostsAreBound` (a host is bound to
its session as long as that lives, and so is in none of the handlers that only
the unbound enter: it can be no guest; and the guest its session names has agreed
to it); `UnattachedIsUnbound`; `GuestHasSession` (a guest's pointer is to a session
of another). `TypeOK` needs all of it: that the end of a match puts back an
identifier that was made rests on the session being the one in the slot.
`NoZombieSessions` is `HostsAreBound` read along the store.

`LockInv` is about the streamLocks, and allows for two guests that are both
approved for one match, as nothing the programs write excludes it. `LocksTell`: a
lock is held only for one of four reasons (`Keeps`): by a guest that holds its
host; by a match that holds its guest, or the one whose place the guest has taken;
by a thread back in its loop that holds itself, since the end of the match gave
back another's lock; or the node's own thread is `Stranded`, approved for a
session freed meanwhile, a place it never leaves. `HostIsLocked` and
`GuestIsLocked` are the converse where `PlayersAreHeld` needs it. `HostHasGone`:
the session of a match that has its locks dies early only with its host.
`SecondHasAgreed`: the second player a match finds in its session, be it another
than the guest whose thread it is, has agreed to that session, and so is in none
of the places where its stream is read.

Two matches with a player in common are then one host's, so that the host's
lock would be held twice (`HostOfMatch`, `OnePlays`). A circle of waits is
impossible because who is waited for and itself waits has locked its host and
waits for the lock of a guest who has agreed; and that lock nobody holds as the
lock of a host, since a host has agreed to nothing: a chain of waits ends after
two.

`ChainInv` of `ChainLedger_proofs` is `TypeOK`, the partition of the allocated
blocks into the list's and the caller's, and the existence of a sequence `w` that
lists the links from head to tail (`Chained`). A walk along the successors, which
the code takes to an offset and the properties to the end, is then `w` itself
(`WalkIsChain`: the least step at which it would leave `w` does not exist), so that
unlinking takes one element out of `w` (`UnlinkKeepsChain`) and a push puts one
before it (`PushKeepsChain`). The refinement reads the payloads along `w`.

## 6. Only model-checked

* Liveness, which is beyond the prover: `RoundEnds`, `JoinsEnd`, `LeaversGo`,
  `RoutineEnds`, `JoinsComeBack`.
* The refutations: the three violations of section 3 and the configurations run
  by hand are counterexamples of small instances.
* The proofs about `NodeRegistry` are of its own specification; with the handler
  of `Shutdown` beside it the properties are model-checked.

## 7. Not modelled, and the plan

Left out for good: JavaFX layout, styles and start-up; JSON and logging; the
sockets' set-up; the console variant of the client (`manageGame`, `TrisGame.main`,
`makeMove`, `printBoard`); failed allocations in the server; a failing `select`;
identifiers beyond 65535; `extract_tail_from_store`, which nothing calls. A
program that has taken one message for another is not followed further: what it
reads does not matter, and what it writes is, in `MatchServer` where it is
`Astray`, any word a program writes, but no other bytes. In `CoreMatch` a poll
swallows whole messages; in `MatchServer` every line of the server but a challenge
ends in `newline`, and a number torn by a line is a program that is `lost`.
SIGPIPE is an outcome of `CoreMatch` (`killed`) and of no other module.

Next: the handler of `Shutdown` beside `NodeInv`.
