------------------------- MODULE LobbyClient_proofs -------------------------
(***************************************************************************)
(* Proofs about LobbyClient, for any number of listening threads, clicks,  *)
(* ledgers and challenges.                                                 *)
(***************************************************************************)
EXTENDS LobbyClient, FiniteSetTheorems, TLAPS

ProgramCounters == {"none", "listening", "reading", "asking", "waiting", "woken",
                    "ending", "counting", "done"}
Prompts == {"none", "queued", "shown", "answered", "notified"}

\* The variables that TypeOK leaves open have a type as well.
FullType ==
  /\ TypeOK
  /\ daemon \in [Daemons -> ProgramCounters]
  /\ asked \in [Daemons -> Challenges \cup {Null}]
  /\ prompt \in [Challenges -> Prompts]

\* A thread that listens has not cleared the flag yet.
Uncleared(d) == daemon[d] \in {"listening", "reading", "asking", "waiting", "woken", "ending"}

\* The flag is up from the start of a listener to its end, but for the moment
\* in which the FX thread has started it and not set the flag.
FlagTells == (\E d \in Daemons : Uncleared(d)) => sessionDaemonActive \/ fx = "activating"

OneUncleared == \A c, d \in Daemons : Uncleared(c) /\ Uncleared(d) => c = d

PollsWhileCleared == fx = "polling" => \A d \in Daemons : ~ Uncleared(d)

LobbyInv == FullType /\ FlagTells /\ OneUncleared /\ PollsWhileCleared

-----------------------------------------------------------------------------
LEMMA InitEstablishes == Init => LobbyInv
<1> SUFFICES ASSUME Init PROVE LobbyInv
  OBVIOUS
<1>1. \A d \in Daemons : daemon[d] = "none"
  BY DEF Init
<1>2. pendingSessionsCount \in Int
  BY DEF Init
<1>3. TypeOK
  BY Zenon, <1>2 DEF Init, TypeOK
<1>4. FullType
  BY <1>3 DEF Init, FullType, ProgramCounters, Prompts
<1> QED
  BY <1>1, <1>4 DEF Init, LobbyInv, FlagTells, OneUncleared, PollsWhileCleared, Uncleared

\* A step after which every thread that listens listened before.
LEMMA NobodyStarts ==
  ASSUME LobbyInv, FullType',
         \A d \in Daemons : Uncleared(d)' => Uncleared(d),
         sessionDaemonActive' = sessionDaemonActive
           \/ sessionDaemonActive' = TRUE
           \/ \E d \in Daemons : Uncleared(d) /\ ~ Uncleared(d)',
         fx = "activating" => fx' = "activating" \/ sessionDaemonActive' = TRUE,
         fx' = "polling" => fx = "polling" \/ \A d \in Daemons : ~ Uncleared(d)
  PROVE  LobbyInv'
<1>1. OneUncleared'
  BY DEF LobbyInv, OneUncleared
<1>2. FlagTells'
  BY DEF LobbyInv, OneUncleared, FlagTells
<1>3. PollsWhileCleared'
  BY DEF LobbyInv, PollsWhileCleared
<1> QED
  BY <1>1, <1>2, <1>3 DEF LobbyInv

\* A step that moves no listener.
LEMMA ListenersStay ==
  ASSUME LobbyInv, UNCHANGED <<daemon, sessionDaemonActive>>, FullType',
         fx # "activating" \/ fx' = fx,
         fx' = "polling" => fx = "polling" \/ (fx = "idle" /\ MayPoll)
  PROVE  LobbyInv'
<1>1. \A d \in Daemons : Uncleared(d)' = Uncleared(d)
  BY DEF Uncleared
<1>2. fx = "idle" /\ MayPoll => \A d \in Daemons : ~ Uncleared(d)
  BY DEF LobbyInv, FlagTells, MayPoll
<1> QED
  BY <1>1, <1>2, NobodyStarts

-----------------------------------------------------------------------------
\* The FX thread, but for the start of a listener and its notify, and the join.
LEMMA CreateKeeps == LobbyInv /\ handleCreateButtonAction => LobbyInv'
<1> SUFFICES ASSUME LobbyInv, handleCreateButtonAction PROVE LobbyInv'
  OBVIOUS
<1>1. /\ UNCHANGED <<sessionDaemonActive, polling, tunnel_active, screen, listener, dialogs, monitor>>
      /\ fx = "idle" /\ fx' = "generating" /\ syncButton' = FALSE
      /\ pendingSessionsCount' \in {pendingSessionsCount, pendingSessionsCount + 1}
  BY DEF handleCreateButtonAction, Clickable
<1>4. pendingSessionsCount \in Int => pendingSessionsCount' \in Int
  BY <1>1
<1>2. FullType'
  BY <1>1, <1>4 DEF LobbyInv, FullType, TypeOK, listener, dialogs
<1> QED
  BY <1>1, <1>2, ListenersStay DEF listener, dialogs

LEMMA EnableKeeps == LobbyInv /\ EnableSync => LobbyInv'
<1> SUFFICES ASSUME LobbyInv, EnableSync PROVE LobbyInv'
  OBVIOUS
<1>1. /\ UNCHANGED <<sessionDaemonActive, pendingSessionsCount, polling, tunnel_active, screen, daemon,
                     asked, dialogs, monitor>>
      /\ fx \in {"enabling", "idle"} /\ fx' = "idle"
  BY DEF EnableSync
<1>5. syncButton' \in BOOLEAN
  <2>1. syncButton' = TRUE \/ syncButton' = (pendingSessionsCount <= 0)
    BY Zenon DEF EnableSync
  <2>2. (pendingSessionsCount <= 0) \in BOOLEAN
    OBVIOUS
  <2> QED
    BY <2>1, <2>2, Zenon
<1>3. FullType'
  BY <1>1, <1>5 DEF LobbyInv, FullType, TypeOK, listener, dialogs
<1> QED
  BY <1>1, <1>3, ListenersStay DEF listener, dialogs

LEMMA ReloadKeeps == LobbyInv /\ handleReloadButtonAction => LobbyInv'
<1> SUFFICES ASSUME LobbyInv, handleReloadButtonAction PROVE LobbyInv'
  OBVIOUS
<1>1. UNCHANGED <<shared, screen, listener, dialogs, joiner, monitor>> /\ fx = "idle"
  BY DEF handleReloadButtonAction, Clickable
<1>4. fx' = "polling" => MayPoll
  BY DEF handleReloadButtonAction
<1>2. FullType'
  BY <1>1 DEF LobbyInv, FullType, TypeOK, shared, listener, dialogs
<1> QED
  BY <1>1, <1>2, <1>4, ListenersStay DEF shared, listener, dialogs

LEMMA listGamesKeeps == LobbyInv /\ listGames => LobbyInv'
<1> SUFFICES ASSUME LobbyInv, listGames PROVE LobbyInv'
  OBVIOUS
<1>1. /\ UNCHANGED <<sessionDaemonActive, pendingSessionsCount, polling, syncButton, screen, listener,
                     dialogs, joiner>>
      /\ fx \in {"polling", "fetching"} /\ fx' = "idle"
      /\ tunnel_active' \in BOOLEAN /\ monitor' = Null
  BY DEF listGames
<1>2. FullType'
  BY <1>1 DEF LobbyInv, FullType, TypeOK, listener, dialogs
<1> QED
  BY <1>1, <1>2, ListenersStay DEF listener, dialogs

LEMMA PromptKeeps ==
  ASSUME LobbyInv, NEW c \in Challenges, NEW yes \in BOOLEAN, ShowPrompt(c) \/ AnswerPrompt(c, yes)
  PROVE  LobbyInv'
<1>1. /\ UNCHANGED <<shared, screen, listener, joiner, monitor>>
      /\ fx = "idle" /\ fx' \in {"idle", "notifying"}
  BY DEF ShowPrompt, AnswerPrompt
<1>2. prompt' \in [Challenges -> Prompts] /\ consensus' \in [Challenges -> BOOLEAN]
  BY DEF ShowPrompt, AnswerPrompt, LobbyInv, FullType, TypeOK, Prompts, listener, dialogs
<1>3. FullType'
  BY <1>1, <1>2 DEF LobbyInv, FullType, TypeOK, shared, listener
<1> QED
  BY <1>1, <1>3, ListenersStay DEF shared, listener

LEMMA JoinKeeps ==
  ASSUME LobbyInv, handleJoinButtonAction \/ AfterJoin \/ handleBackButton
  PROVE  LobbyInv'
<1>1. /\ UNCHANGED <<sessionDaemonActive, pendingSessionsCount, syncButton, tunnel_active, listener,
                     dialogs, monitor>>
      /\ polling' \in {polling, TRUE, FALSE}
      /\ screen' \in {screen, "guest", "lobby"}
      /\ fx = "idle" /\ fx' \in {"idle", "generating"}
  BY DEF handleJoinButtonAction, AfterJoin, handleBackButton, Clickable, shared
<1>2. FullType'
  BY <1>1 DEF LobbyInv, FullType, TypeOK, listener, dialogs
<1> QED
  BY <1>1, <1>2, ListenersStay DEF listener, dialogs

LEMMA JoinerKeeps == LobbyInv /\ JoinerStep => LobbyInv'
<1> SUFFICES ASSUME LobbyInv, JoinerStep PROVE LobbyInv'
  OBVIOUS
<1>1. /\ UNCHANGED <<sessionDaemonActive, pendingSessionsCount, polling, syncButton, screen, fx, listener,
                     dialogs>>
      /\ tunnel_active' \in {tunnel_active, FALSE}
      /\ monitor' \in {monitor, "joiner", Null}
  BY DEF JoinerStep, RequestJoin, HearVerdict, Leaves, shared
<1>2. FullType'
  BY <1>1 DEF LobbyInv, FullType, TypeOK, listener, dialogs
<1> QED
  BY <1>1, <1>2, ListenersStay DEF listener, dialogs

-----------------------------------------------------------------------------
\* A listener starts where the flag is down and no other is starting.
LEMMA GenerateKeeps == LobbyInv /\ generateListenGameThread => LobbyInv'
<1> SUFFICES ASSUME LobbyInv, generateListenGameThread PROVE LobbyInv'
  OBVIOUS
<1>1. UNCHANGED <<shared, screen, asked, dialogs, joiner, monitor>> /\ fx = "generating"
  BY DEF generateListenGameThread
<1>2. CASE UNCHANGED daemon /\ fx' = "enabling"
  <2>1. FullType'
    BY <1>1, <1>2 DEF LobbyInv, FullType, TypeOK, shared, listener, dialogs
  <2> QED
    BY <1>1, <1>2, <2>1, ListenersStay DEF shared, listener, dialogs
<1>3. CASE ~ sessionDaemonActive /\ \E d \in Daemons : daemon[d] = "none" /\ Becomes(d, "listening") /\ fx' = "activating"
  <2>1. PICK d \in Daemons : daemon[d] = "none" /\ daemon' = [daemon EXCEPT ![d] = "listening"]
    BY <1>3 DEF Becomes
  <2>2. \A c \in Daemons : ~ Uncleared(c)
    BY <1>1, <1>3 DEF LobbyInv, FlagTells
  <2>3. \A c \in Daemons : daemon'[c] = IF c = d THEN "listening" ELSE daemon[c]
    BY <2>1 DEF LobbyInv, FullType
  <2>4. FullType'
    BY <1>1, <2>1, <2>3 DEF LobbyInv, FullType, TypeOK, shared, ProgramCounters, listener, dialogs
  <2>5. OneUncleared' /\ FlagTells' /\ PollsWhileCleared'
    BY <1>3, <2>2, <2>3 DEF OneUncleared, FlagTells, PollsWhileCleared, Uncleared
  <2> QED
    BY <2>4, <2>5 DEF LobbyInv
<1> QED
  BY <1>2, <1>3 DEF generateListenGameThread, MayStart

LEMMA SetActiveKeeps == LobbyInv /\ SetActive => LobbyInv'
<1> SUFFICES ASSUME LobbyInv, SetActive PROVE LobbyInv'
  OBVIOUS
<1>1. /\ UNCHANGED <<pendingSessionsCount, polling, syncButton, tunnel_active, screen, listener,
                     dialogs, joiner, monitor>>
      /\ fx' = "enabling" /\ sessionDaemonActive' = TRUE
  BY DEF SetActive
<1>2. FullType'
  BY <1>1 DEF LobbyInv, FullType, TypeOK, listener, dialogs
<1>4. \A d \in Daemons : Uncleared(d)' => Uncleared(d)
  BY <1>1 DEF Uncleared, listener
<1> QED
  BY <1>1, <1>2, <1>4, NobodyStarts

LEMMA NotifyKeeps == ASSUME LobbyInv, NEW c \in Challenges, Notify(c) PROVE LobbyInv'
<1>1. /\ UNCHANGED <<shared, asked, consensus, joiner, monitor>>
      /\ fx = "notifying" /\ fx' = "idle"
      /\ prompt' = [prompt EXCEPT ![c] = "notified"]
      /\ daemon' = [d \in Daemons |->
                      IF daemon[d] = "waiting" /\ asked[d] = c THEN "woken" ELSE daemon[d]]
  BY Zenon DEF Notify
<1>2. screen' \in {screen, "host"}
  <2>1. screen' = IF consensus[c] THEN "host" ELSE screen
    BY DEF Notify
  <2> QED
    BY <2>1, Zenon
<1>3. daemon' \in [Daemons -> ProgramCounters] /\ prompt' \in [Challenges -> Prompts]
  BY <1>1 DEF LobbyInv, FullType, ProgramCounters, Prompts
<1>4. \A d \in Daemons : \/ daemon'[d] = daemon[d]
                         \/ daemon[d] = "waiting" /\ daemon'[d] = "woken"
  BY <1>1
<1>5. \A d \in Daemons : /\ Uncleared(d)' <=> Uncleared(d)
                         /\ daemon[d] = "reading" => daemon'[d] = "reading"
                         /\ daemon'[d] \in {"asking", "waiting", "woken"} =>
                              daemon[d] \in {"asking", "waiting", "woken"}
  BY <1>4 DEF Uncleared
<1>6. FullType'
  BY <1>1, <1>2, <1>3, <1>5 DEF LobbyInv, FullType, TypeOK, shared, listener, dialogs
<1> QED
  BY <1>1, <1>5, <1>6, NobodyStarts DEF shared

-----------------------------------------------------------------------------
\* A step of the listening thread d, which goes on to pc.
LEMMA ListenerMoves ==
  ASSUME LobbyInv, NEW d \in Daemons, NEW pc \in ProgramCounters, Becomes(d, pc),
         UNCHANGED <<polling, syncButton, screen, fx>>,
         pendingSessionsCount' \in Int,
         tunnel_active' \in {tunnel_active, FALSE},
         \/ UNCHANGED sessionDaemonActive
         \/ sessionDaemonActive' = FALSE /\ daemon[d] = "ending" /\ pc = "counting",
         UNCHANGED consensus, prompt' \in [Challenges -> Prompts],
         asked' \in [Daemons -> Challenges \cup {Null}],
         \A c \in Daemons \ {d} : asked'[c] = asked[c],
         pc \in {"asking", "waiting", "woken"} => asked'[d] \in Challenges,
         pc \in {"listening", "reading", "asking", "waiting", "woken", "ending"} => Uncleared(d),
         monitor' = monitor \/ monitor' = Null \/ monitor' = d,
         monitor' = d <=> pc = "reading"
  PROVE  LobbyInv'
<1>1. daemon' = [daemon EXCEPT ![d] = pc] /\ daemon' \in [Daemons -> ProgramCounters]
  BY DEF Becomes, LobbyInv, FullType
<1>2. \A c \in Daemons : daemon'[c] = IF c = d THEN pc ELSE daemon[c]
  BY <1>1 DEF LobbyInv, FullType
<1>3. monitor' \in {c \in Daemons : daemon'[c] = "reading"} \cup {"joiner", Null}
  BY <1>2, LobbyAssumption DEF LobbyInv, FullType, TypeOK
<1>8. sessionDaemonActive' \in BOOLEAN /\ tunnel_active' \in BOOLEAN
  BY DEF LobbyInv, FullType, TypeOK
<1>5. \A c \in Daemons : daemon'[c] \in {"asking", "waiting", "woken"} => asked'[c] \in Challenges
  BY <1>2 DEF LobbyInv, FullType, TypeOK
<1>4. FullType'
  BY <1>1, <1>3, <1>5, <1>8 DEF LobbyInv, FullType, TypeOK
<1>6. \A c \in Daemons : Uncleared(c)' => Uncleared(c)
  BY <1>2 DEF Uncleared
<1>7. sessionDaemonActive' = sessionDaemonActive \/ \E c \in Daemons : Uncleared(c) /\ ~ Uncleared(c)'
  BY <1>2 DEF Uncleared
<1> QED
  BY <1>4, <1>6, <1>7, NobodyStarts

LEMMA MonitorKeeps ==
  ASSUME LobbyInv, NEW d \in Daemons, EnterMonitor(d) \/ HearNothing(d) \/ HearChallenge(d)
  PROVE  LobbyInv'
<1>0. /\ asked \in [Daemons -> Challenges \cup {Null}] /\ prompt \in [Challenges -> Prompts]
      /\ pendingSessionsCount \in Int
  BY DEF LobbyInv, FullType, TypeOK
<1>1. CASE EnterMonitor(d)
  <2>1. /\ UNCHANGED <<shared, screen, fx, asked, dialogs>>
        /\ Becomes(d, "reading") /\ monitor' = d /\ Uncleared(d)
    BY <1>1 DEF EnterMonitor, Uncleared
  <2> QED
    BY <1>0, <2>1, ListenerMoves DEF shared, dialogs, ProgramCounters
<1>2. CASE HearNothing(d)
  <2>1. /\ UNCHANGED <<sessionDaemonActive, pendingSessionsCount, polling, syncButton, screen, fx,
                       asked, dialogs>>
        /\ Becomes(d, "ending") /\ Uncleared(d)
        /\ monitor' = IF monitor = d THEN Null ELSE monitor
        /\ tunnel_active' \in {tunnel_active, FALSE}
    BY <1>2 DEF HearNothing, Ends, Leaves, Uncleared
  <2>2. (monitor' = monitor \/ monitor' = Null) /\ monitor' # d
    BY <2>1, LobbyAssumption
  <2> QED
    BY <1>0, <2>1, <2>2, ListenerMoves DEF dialogs, ProgramCounters
<1>3. CASE HearChallenge(d)
  <2>1. PICK c \in Challenges : /\ prompt' = [prompt EXCEPT ![c] = "queued"]
                               /\ asked' = [asked EXCEPT ![d] = c]
    BY <1>3 DEF HearChallenge
  <2>2. /\ UNCHANGED <<shared, screen, fx, consensus>>
        /\ Becomes(d, "asking") /\ Uncleared(d)
        /\ monitor' = IF monitor = d THEN Null ELSE monitor
    BY <1>3 DEF HearChallenge, LeavesMonitor, Leaves, Uncleared
  <2>3. /\ prompt' \in [Challenges -> Prompts] /\ asked' \in [Daemons -> Challenges \cup {Null}]
        /\ asked'[d] \in Challenges /\ \A e \in Daemons \ {d} : asked'[e] = asked[e]
    BY <1>0, <2>1 DEF Prompts
  <2>4. (monitor' = monitor \/ monitor' = Null) /\ monitor' # d
    BY <2>2, LobbyAssumption
  <2> QED
    BY <1>0, <2>2, <2>3, <2>4, ListenerMoves DEF shared, ProgramCounters
<1> QED
  BY <1>1, <1>2, <1>3

\* Who holds the monitor is reading, so another thread's step leaves it to it.
LEMMA AfterwardsKeeps ==
  ASSUME LobbyInv, NEW d \in Daemons,
         Wait(d) \/ WakeForNothing(d) \/ SendAnswer(d) \/ ClearActive(d) \/ Discount(d)
  PROVE  LobbyInv'
<1>1. monitor # d
  <2>1. daemon[d] # "reading"
    BY DEF Wait, WakeForNothing, SendAnswer, ClearActive, Discount
  <2> QED
    BY <2>1, LobbyAssumption DEF LobbyInv, FullType, TypeOK
<1>2. UNCHANGED <<monitor, dialogs, polling, syncButton, screen, fx>>
  BY DEF Wait, WakeForNothing, SendAnswer, ClearActive, Discount, shared
<1>3. /\ UNCHANGED consensus /\ prompt' \in [Challenges -> Prompts]
      /\ asked \in [Daemons -> Challenges \cup {Null}] /\ pendingSessionsCount \in Int
  BY <1>2 DEF LobbyInv, FullType, TypeOK, dialogs
<1>4. CASE Wait(d) \/ WakeForNothing(d)
  <2>1. /\ Becomes(d, "waiting") \/ Becomes(d, "woken")
        /\ UNCHANGED <<shared, asked>> /\ Uncleared(d)
    BY <1>4 DEF Wait, WakeForNothing, Uncleared
  <2>2. asked'[d] \in Challenges
    BY <1>4, <2>1 DEF Wait, WakeForNothing, LobbyInv, FullType, TypeOK
  <2> QED
    BY <1>1, <1>2, <1>3, <2>1, <2>2, ListenerMoves DEF shared, ProgramCounters
<1>5. CASE SendAnswer(d)
  <2>1. /\ UNCHANGED <<sessionDaemonActive, pendingSessionsCount>> /\ Uncleared(d)
        /\ tunnel_active' \in {tunnel_active, FALSE}
        /\ asked' = [asked EXCEPT ![d] = Null]
        /\ Becomes(d, "listening") \/ Becomes(d, "ending")
    BY <1>5 DEF SendAnswer, Ends, Uncleared
  <2>2. /\ asked' \in [Daemons -> Challenges \cup {Null}]
        /\ \A e \in Daemons \ {d} : asked'[e] = asked[e]
    BY <1>3, <2>1
  <2> QED
    BY <1>1, <1>2, <1>3, <2>1, <2>2, ListenerMoves DEF ProgramCounters
<1>6. CASE ClearActive(d)
  <2>1. /\ Becomes(d, "counting") /\ daemon[d] = "ending" /\ sessionDaemonActive' = FALSE
        /\ UNCHANGED <<pendingSessionsCount, tunnel_active, asked>>
    BY <1>6 DEF ClearActive
  <2> QED
    BY <1>1, <1>2, <1>3, <2>1, ListenerMoves DEF ProgramCounters
<1>7. CASE Discount(d)
  <2>1. /\ Becomes(d, "done") /\ pendingSessionsCount' = pendingSessionsCount - 1
        /\ UNCHANGED <<sessionDaemonActive, tunnel_active, asked>>
    BY <1>7 DEF Discount
  <2>2. pendingSessionsCount' \in Int
    BY <1>3, <2>1
  <2> QED
    BY <1>1, <1>2, <1>3, <2>1, <2>2, ListenerMoves DEF ProgramCounters
<1> QED
  BY <1>4, <1>5, <1>6, <1>7

LEMMA StepKeeps == LobbyInv /\ [Next]_vars => LobbyInv'
<1> SUFFICES ASSUME LobbyInv, [Next]_vars PROVE LobbyInv'
  OBVIOUS
<1>1. CASE UNCHANGED vars
  <2>1. UNCHANGED <<daemon, sessionDaemonActive, fx>>
    BY <1>1 DEF vars, shared, listener
  <2>2. FullType'
    BY <1>1 DEF vars, shared, listener, dialogs, LobbyInv, FullType, TypeOK
  <2> QED
    BY <2>1, <2>2, ListenersStay
<1>2. CASE FxUser
  BY <1>2, CreateKeeps, ReloadKeeps, JoinKeeps, PromptKeeps DEF FxUser
<1>3. CASE FxStep
  <2>1. CASE \E c \in Challenges : ShowPrompt(c)
    BY <2>1, PromptKeeps
  <2> QED
    BY <1>3, <2>1, GenerateKeeps, SetActiveKeeps, EnableKeeps, listGamesKeeps, JoinKeeps, NotifyKeeps DEF FxStep
<1>4. CASE JoinerStep
  BY <1>4, JoinerKeeps
<1>5. CASE \E d \in Daemons : DaemonStep(d) \/ WakeForNothing(d)
  BY <1>5, MonitorKeeps, AfterwardsKeeps DEF DaemonStep
<1> QED
  BY <1>1, <1>2, <1>3, <1>4, <1>5 DEF Next

\* In every reachable state of HomeController's threads LobbyInv holds.
THEOREM LobbyInvariant == Spec => []LobbyInv
<1> QED
  BY InitEstablishes, StepKeeps, PTL DEF Spec

\* Every variable of the lobby keeps its type, and the monitor of byte_consumer
\* is held by a listener only while it reads (listenGameRequest).
THEOREM LobbyTypeOK == Spec => []TypeOK
<1>1. LobbyInv => TypeOK
  BY DEF LobbyInv, FullType
<1> QED
  BY <1>1, LobbyInvariant, PTL

\* generateListenGameThread never has two listeners, although it sets the flag
\* after the thread has started, for any number of matches created.
THEOREM OneListenerEver == Spec => []OneListener
<1>1. LobbyInv => OneListener
  <2> SUFFICES ASSUME LobbyInv PROVE OneListener
    OBVIOUS
  <2>1. CASE Listening = {}
    BY <2>1, FS_EmptySet DEF OneListener
  <2>2. CASE \E d \in Daemons : Listening = {d}
    BY <2>2, FS_Singleton DEF OneListener
  <2>3. \A c, d \in Listening : c = d
    BY DEF LobbyInv, OneUncleared, Uncleared, Listening
  <2> QED
    BY <2>1, <2>2, <2>3 DEF Listening
<1> QED
  BY <1>1, LobbyInvariant, PTL

\* handleReloadButtonAction fetches no ledger by the timeline while a thread
\* listens on the same stream.
THEOREM PollsAreAlone == Spec => []PollsAlone
<1>1. LobbyInv => PollsAlone
  BY DEF LobbyInv, PollsWhileCleared, Uncleared, PollsAlone, Listening
<1> QED
  BY <1>1, LobbyInvariant, PTL
=============================================================================
