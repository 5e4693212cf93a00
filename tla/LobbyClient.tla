---------------------------- MODULE LobbyClient ----------------------------
(***************************************************************************)
(* The lobby of one client (HomeController.java and the calls it makes on  *)
(* GameClient): the FX thread with its timeline and its dialogs, the       *)
(* threads that listen for challenges, the thread that joins, and the      *)
(* monitor of byte_consumer they share.                                    *)
(*                                                                         *)
(* Abstracted: what is in the ledger and in the messages, and the match    *)
(* (CoreMatch).  A call of the network ends as the server or the network   *)
(* choose.  One join is under way at a time.                               *)
(***************************************************************************)
EXTENDS Integers, FiniteSets

CONSTANTS
  Daemons,          \* bound: the listening threads ever started
  MaxCreations,     \* bound: clicks on the create button
  MaxJoins,         \* bound: clicks on the join button
  MaxReloads,       \* bound: ledgers fetched
  MaxChallenges,    \* bound: challenges received
  Null

Challenges == 1 .. MaxChallenges

ASSUME LobbyAssumption == /\ "joiner" \notin Daemons /\ Null \notin Daemons \cup {"joiner"}
                          /\ {MaxCreations, MaxJoins, MaxReloads, MaxChallenges} \subseteq Nat

VARIABLES
  sessionDaemonActive, pendingSessionsCount,
  polling,          \* whether pollingTimeline is playing
  syncButton,       \* whether it can be clicked
  tunnel_active,
  screen,           \* "lobby", or the match as "host" or "guest"
  fx,               \* what the FX thread is in the middle of
  daemon,           \* the program counter of each listening thread
  asked,            \* the challenge it asks the user about
  enabling,         \* the threads whose end has left to the FX thread to enable the buttons
  prompt,           \* the dialog of each challenge: "none", "queued", "shown",
                    \* "answered" or "notified"
  consensus,        \* the answer to each
  joiner,           \* the thread of the join button
  monitor,          \* who holds byte_consumer
  budget            \* clicks and fetches left, for the bounds

shared == <<sessionDaemonActive, pendingSessionsCount, polling, syncButton, tunnel_active>>
listener == <<daemon, asked, enabling>>
dialogs == <<prompt, consensus>>
vars == <<shared, screen, fx, listener, dialogs, joiner, monitor, budget>>

Init ==
  /\ sessionDaemonActive = FALSE
  /\ pendingSessionsCount = 0
  /\ polling = TRUE
  /\ syncButton = TRUE
  /\ tunnel_active = TRUE
  /\ screen = "lobby"
  /\ fx = "idle"
  /\ daemon = [d \in Daemons |-> "none"]
  /\ asked = [d \in Daemons |-> Null]
  /\ enabling = {}
  /\ prompt = [c \in Challenges |-> "none"]
  /\ consensus = [c \in Challenges |-> FALSE]
  /\ joiner = "none"
  /\ monitor = Null
  /\ budget = [creations |-> MaxCreations, joins |-> MaxJoins,
               reloads |-> MaxReloads]

Spends(what) == budget[what] > 0 /\ budget' = [budget EXCEPT ![what] = @ - 1]
Becomes(d, pc) == daemon' = [daemon EXCEPT ![d] = pc]
Listening == {d \in Daemons : daemon[d] \in {"listening", "reading", "asking", "waiting", "woken"}}
Alive == {d \in Daemons : daemon[d] \notin {"none", "done"}}

\* A dialog is modal: no button of the window can be clicked.
Clickable == /\ fx = "idle"
             /\ screen = "lobby"
             /\ \A c \in Challenges : prompt[c] # "shown"

-----------------------------------------------------------------------------
(***************************************************************************)
(* The FX thread: the buttons, the timeline, the dialogs.                  *)
(***************************************************************************)
\* createGame may fail; generateListenGameThread is called all the same.
handleCreateButtonAction ==
  /\ Clickable
  /\ tunnel_active
  /\ Spends("creations")
  /\ pendingSessionsCount' \in {pendingSessionsCount, pendingSessionsCount + 1}
  /\ syncButton' = FALSE
  /\ fx' = "generating"
  /\ UNCHANGED <<sessionDaemonActive, polling, tunnel_active, screen, listener, dialogs,
                 joiner, monitor>>

\* Mutant: it asks only whether a match is pending.
MayStartUnchecked == pendingSessionsCount > 0
MayStart == ~ sessionDaemonActive /\ pendingSessionsCount > 0

\* The flag is set once the thread has been started.
generateListenGameThread ==
  /\ fx = "generating"
  /\ IF MayStart
     THEN \E d \in Daemons : daemon[d] = "none" /\ Becomes(d, "listening") /\ fx' = "activating"
     ELSE fx' = "enabling" /\ UNCHANGED daemon
  /\ UNCHANGED <<shared, screen, asked, enabling, dialogs, joiner, monitor, budget>>

SetActive ==
  /\ fx = "activating"
  /\ sessionDaemonActive' = TRUE
  /\ fx' = "enabling"
  /\ UNCHANGED <<pendingSessionsCount, polling, syncButton, tunnel_active, screen, listener, dialogs,
                 joiner, monitor, budget>>

\* Mutant: the timeline does not look whether the client listens.
MayPollUnchecked == polling
MayPoll == polling /\ pendingSessionsCount = 0 /\ ~ sessionDaemonActive

\* The event queued behind, and the one a listener leaves at its end.
EnableSync ==
  /\ \/ /\ fx = "enabling" /\ fx' = "idle"
        /\ syncButton' = (pendingSessionsCount <= 0)
        /\ UNCHANGED enabling
     \/ \E d \in enabling :
          /\ fx = "idle"
          /\ syncButton' = TRUE
          /\ enabling' = enabling \ {d}
          /\ UNCHANGED fx
  /\ UNCHANGED <<sessionDaemonActive, pendingSessionsCount, polling, tunnel_active, screen, daemon,
                 asked, dialogs, joiner, monitor, budget>>

\* By the timeline, or by the button.
handleReloadButtonAction ==
  /\ \/ fx = "idle" /\ MayPoll /\ fx' = "polling"
     \/ Clickable /\ syncButton /\ fx' = "fetching"
  /\ Spends("reloads")
  /\ UNCHANGED <<shared, screen, listener, dialogs, joiner, monitor>>

\* listGames reads on the FX thread.  A reconnection, before it or once after
\* it has failed, brings another byte_consumer.
listGames ==
  /\ fx \in {"polling", "fetching"}
  /\ tunnel_active => monitor = Null
  /\ fx' = "idle"
  /\ tunnel_active' \in BOOLEAN
  /\ monitor' = Null
  /\ UNCHANGED <<sessionDaemonActive, pendingSessionsCount, polling, syncButton, screen, listener,
                 dialogs, joiner, budget>>

ShowPrompt(c) ==
  /\ fx = "idle"
  /\ prompt[c] = "queued"
  /\ \A earlier \in Challenges : earlier < c => prompt[earlier] # "queued"
  /\ prompt' = [prompt EXCEPT ![c] = "shown"]
  /\ UNCHANGED <<shared, screen, fx, listener, consensus, joiner, monitor, budget>>

\* The user answers; there is no hurry.  A dialog shown over another comes first.
AnswerPrompt(c, yes) ==
  /\ fx = "idle"
  /\ prompt[c] = "shown"
  /\ \A later \in Challenges : later > c => prompt[later] # "shown"
  /\ consensus' = [consensus EXCEPT ![c] = yes]
  /\ prompt' = [prompt EXCEPT ![c] = "answered"]
  /\ fx' = "notifying"
  /\ UNCHANGED <<shared, screen, listener, joiner, monitor, budget>>

\* A notify wakes the thread that waits for this answer, and nobody later.
Notify(c) ==
  /\ fx = "notifying"
  /\ prompt[c] = "answered"
  /\ prompt' = [prompt EXCEPT ![c] = "notified"]
  /\ daemon' = [d \in Daemons |->
                  IF daemon[d] = "waiting" /\ asked[d] = c THEN "woken" ELSE daemon[d]]
  /\ screen' = IF consensus[c] THEN "host" ELSE screen
  /\ fx' = "idle"
  /\ UNCHANGED <<shared, asked, enabling, consensus, joiner, monitor, budget>>

handleJoinButtonAction ==
  /\ Clickable
  /\ tunnel_active
  /\ joiner = "none"
  /\ Spends("joins")
  /\ polling' = FALSE
  /\ joiner' = "joining"
  /\ UNCHANGED <<sessionDaemonActive, pendingSessionsCount, syncButton, tunnel_active, screen, fx,
                 listener, dialogs, monitor>>

\* What the thread that joined has left to the FX thread.
AfterJoin ==
  /\ fx = "idle"
  /\ joiner \in {"accepted", "refused"}
  /\ polling' = (polling \/ joiner = "refused")
  /\ screen' = IF joiner = "accepted" THEN "guest" ELSE screen
  /\ joiner' = "none"
  /\ UNCHANGED <<sessionDaemonActive, pendingSessionsCount, syncButton, tunnel_active, fx, listener,
                 dialogs, monitor, budget>>

\* A host looks whether it still has something to listen for.
handleBackButton ==
  /\ fx = "idle"
  /\ screen \in {"host", "guest"}
  /\ fx' = IF screen = "host" THEN "generating" ELSE fx
  /\ screen' = "lobby"
  /\ UNCHANGED <<shared, listener, dialogs, joiner, monitor, budget>>

FxUser == \/ handleCreateButtonAction \/ handleReloadButtonAction \/ handleJoinButtonAction
          \/ handleBackButton \/ \E c \in Challenges, yes \in BOOLEAN : AnswerPrompt(c, yes)
FxStep == \/ generateListenGameThread \/ SetActive \/ EnableSync \/ listGames \/ AfterJoin
          \/ \E c \in Challenges : ShowPrompt(c) \/ Notify(c)

-----------------------------------------------------------------------------
(***************************************************************************)
(* A listening thread: listenGameRequest, and what follows it.             *)
(***************************************************************************)
EnterMonitor(d) ==
  /\ daemon[d] = "listening"
  /\ monitor = Null
  /\ monitor' = d
  /\ Becomes(d, "reading")
  /\ UNCHANGED <<shared, screen, fx, asked, enabling, dialogs, joiner, budget>>

Leaves(t) == monitor' = IF monitor = t THEN Null ELSE monitor
Ends(d) == Becomes(d, "ending") /\ enabling' = enabling \cup {d}

\* The time is up, the stream has ended, or it fails.
HearNothing(d) ==
  /\ daemon[d] = "reading"
  /\ Leaves(d)
  /\ Ends(d)
  /\ tunnel_active' \in {tunnel_active, FALSE}
  /\ UNCHANGED <<sessionDaemonActive, pendingSessionsCount, polling, syncButton, screen, fx,
                 asked, dialogs, joiner, budget>>

\* Mutant: the callback runs inside the monitor.
KeepsMonitor(d) == UNCHANGED monitor
LeavesMonitor(d) == Leaves(d)

\* Each challenge has a dialog, a mutex_barrier and a consensus of its own.
HearChallenge(d) ==
  /\ daemon[d] = "reading"
  /\ LeavesMonitor(d)
  /\ \E c \in Challenges :
       /\ prompt[c] = "none" /\ \A earlier \in Challenges : earlier < c => prompt[earlier] # "none"
       /\ prompt' = [prompt EXCEPT ![c] = "queued"]
       /\ asked' = [asked EXCEPT ![d] = c]
  /\ Becomes(d, "asking")
  /\ UNCHANGED <<shared, screen, fx, enabling, consensus, joiner, budget>>

Wait(d) ==
  /\ daemon[d] = "asking"
  /\ Becomes(d, "waiting")
  /\ UNCHANGED <<shared, screen, fx, asked, enabling, dialogs, joiner, monitor, budget>>

\* Object.wait may return with no notify, and is in no loop.
WakeForNothing(d) ==
  /\ daemon[d] = "waiting"
  /\ Becomes(d, "woken")
  /\ UNCHANGED <<shared, screen, fx, asked, enabling, dialogs, joiner, monitor, budget>>

\* The answer is sent, or cannot be; a refusal is followed by more listening.
SendAnswer(d) ==
  /\ daemon[d] = "woken"
  /\ \/ consensus[asked[d]] /\ Ends(d) /\ UNCHANGED tunnel_active
     \/ ~ consensus[asked[d]] /\ Becomes(d, "listening") /\ UNCHANGED <<enabling, tunnel_active>>
     \/ Ends(d) /\ tunnel_active' = FALSE
  /\ asked' = [asked EXCEPT ![d] = Null]
  /\ UNCHANGED <<sessionDaemonActive, pendingSessionsCount, polling, syncButton, screen, fx,
                 dialogs, joiner, monitor, budget>>

ClearActive(d) ==
  /\ daemon[d] = "ending"
  /\ sessionDaemonActive' = FALSE
  /\ Becomes(d, "counting")
  /\ UNCHANGED <<pendingSessionsCount, polling, syncButton, tunnel_active, screen, fx, asked,
                 enabling, dialogs, joiner, monitor, budget>>

Discount(d) ==
  /\ daemon[d] = "counting"
  /\ pendingSessionsCount' = pendingSessionsCount - 1
  /\ Becomes(d, "done")
  /\ UNCHANGED <<sessionDaemonActive, polling, syncButton, tunnel_active, screen, fx, asked,
                 enabling, dialogs, joiner, monitor, budget>>

DaemonStep(d) == \/ EnterMonitor(d) \/ HearNothing(d) \/ HearChallenge(d) \/ Wait(d)
                 \/ SendAnswer(d) \/ ClearActive(d) \/ Discount(d)

-----------------------------------------------------------------------------
(***************************************************************************)
(* The thread of the join button: startGame.                               *)
(***************************************************************************)
RequestJoin ==
  /\ joiner = "joining"
  /\ monitor = Null
  /\ monitor' = "joiner"
  /\ joiner' = "reading"
  /\ UNCHANGED <<shared, screen, fx, listener, dialogs, budget>>

HearVerdict ==
  /\ joiner = "reading"
  /\ Leaves("joiner")
  /\ \/ joiner' \in {"accepted", "refused"} /\ UNCHANGED tunnel_active
     \/ joiner' = "refused" /\ tunnel_active' = FALSE
  /\ UNCHANGED <<sessionDaemonActive, pendingSessionsCount, polling, syncButton, screen, fx, listener,
                 dialogs, budget>>

JoinerStep == RequestJoin \/ HearVerdict

Next == FxUser \/ FxStep \/ JoinerStep \/ \E d \in Daemons : DaemonStep(d) \/ WakeForNothing(d)

Spec == Init /\ [][Next]_vars
\* The threads go on, and SO_TIMEOUT bounds what they read; the user need do
\* nothing, and no thread need wake for nothing.
FairSpec == Spec /\ WF_vars(FxStep) /\ WF_vars(JoinerStep) /\ \A d \in Daemons : WF_vars(DaemonStep(d))

-----------------------------------------------------------------------------
\* Every variable has the values the code can give it; a listener that holds
\* the monitor is reading.
TypeOK ==
  /\ sessionDaemonActive \in BOOLEAN /\ polling \in BOOLEAN
  /\ syncButton \in BOOLEAN /\ tunnel_active \in BOOLEAN
  /\ pendingSessionsCount \in Int
  /\ screen \in {"lobby", "host", "guest"}
  /\ consensus \in [Challenges -> BOOLEAN]
  /\ \A d \in Daemons : daemon[d] \in {"asking", "waiting", "woken"} => asked[d] \in Challenges
  /\ monitor \in {d \in Daemons : daemon[d] = "reading"} \cup {"joiner", Null}

\* However creations, ends of listeners and matches follow one another, one
\* thread at most listens: the flag set late is not read too early.
OneListener == Cardinality(Listening) <= 1

\* "Sospende il polling per evitare accavallamenti se siamo in ascolto"
\* (HomeController.java:65): the timeline fetches no ledger while a thread
\* listens.
PollsAlone == fx = "polling" => Listening = {}

\* A join comes back to the user whatever the listener and its dialog do: no
\* thread keeps the monitor for as long as a user thinks.
JoinsComeBack == joiner = "joining" ~> joiner = "none"

AtRest == fx = "idle" /\ screen = "lobby" /\ joiner = "none" /\ Alive = {}

\* "a tutti i client a riposo nella lobby (Ledger aggiornato periodicamente
\* tramite polling)" (README.md:88): at rest, the flag does not stop the polls,
\* no match is counted as pending, and the timeline plays.
FlagIsDown == AtRest => ~ sessionDaemonActive
NothingPending == AtRest => pendingSessionsCount = 0
TimelinePlays == AtRest => polling

\* "ed il creatore accetta/rifiuta" (README.md:85): no listener waits for a
\* notify that has been, and none sends an answer its user has not given.
AnswerIsHeard ==
  \A d \in Daemons : ~ (daemon[d] = "waiting" /\ prompt[asked[d]] = "notified")
AnswerIsTheUsers ==
  \A d \in Daemons : daemon[d] = "woken" => prompt[asked[d]] \in {"answered", "notified"}

\* "Se il client leggesse dal socket nel thread della UI, l'applicazione si
\* bloccherebbe" (Documentazione.tex:232): the FX thread does not wait for the
\* stream while another thread reads it.
FxIsFree == ~ (fx \in {"polling", "fetching"} /\ tunnel_active /\ monitor # Null)
=============================================================================
