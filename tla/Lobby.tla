------------------------------- MODULE Lobby ---------------------------------
(***************************************************************************)
(* One lobby of lobby/loop.go: runLobby on its goroutine, the two          *)
(* waitForReady goroutines it starts, and the PlayerClients whose messages *)
(* they read.  It ends in a game or in abandonConnecting.                  *)
(***************************************************************************)
EXTENDS PlayerClient

CONSTANT MaxSent  \* bound: messages the two players send

ASSUME TwoClientsAssumption == Clients = {"first", "second"}
ASSUME MaxSentAssumption == MaxSent \in Nat

VARIABLES lobby,      \* where runLobby stands, see LobbyState
          joined,     \* createPlayer was called for the second player
          waiter,     \* where waitForReady stands for each player, see WaiterState
          connected,  \* the channel firstConnected or secondConnected is closed
          done,       \* firstIsDone and secondIsDone
          canceled,   \* the channel canceled is closed
          late,       \* playersReadyTimeout is over
          diceSet,    \* the player's DiceSet: the pick it came from, 0 for the default
          reported,   \* what runLobby returned: "nil", "error", or "none" as yet
          played,     \* Play was called
          sent        \* messages the players have sent so far

lobbyVars == <<lobby, joined, waiter, connected, done, canceled, late, diceSet, reported,
               played, sent>>
vars == <<clientVars, lobbyVars>>

\* "join" is waitForOtherPlayer, "wait" the select of runLobby's loop, "ready"
\* the code after that loop, "abandon" the call of abandonConnecting.
LobbyState == {"join", "wait", "ready", "play", "abandon", "returned"}

\* "failing" is the inner select of waitForReady, with an error to deliver;
\* "leaving" is before the deferred SetTurn(false) and "exited" after it.
WaiterState == {"none", "loop", "failing", "leaving", "exited"}

Variant == {"pick", "ready", "other"}

TypeOK ==
  /\ lobby \in LobbyState
  /\ joined \in BOOLEAN
  /\ waiter \in [Clients -> WaiterState]
  /\ connected \in [Clients -> BOOLEAN]
  /\ done \in [Clients -> BOOLEAN]
  /\ canceled \in BOOLEAN
  /\ late \in BOOLEAN
  /\ diceSet \in [Clients -> 0..MaxSent]
  /\ reported \in {"none", "nil", "error"}
  /\ played \in BOOLEAN
  /\ sent \in 0..MaxSent
  /\ hasTurn \in [Clients -> BOOLEAN]
  /\ closing \in [Clients -> BOOLEAN]
  /\ \A p \in Clients : Len(consumed[p]) <= BufferLimit /\ Len(incoming[p]) <= MessageLimit

(***************************************************************************)
(* Mutants: what a plausible bug would make of the definition that is      *)
(* named in each comment.  Nothing uses them; a property is trusted only   *)
(* after it has been seen to fail with one of them in that place.          *)
(***************************************************************************)
CloseFirstOnly == closing' = [closing EXCEPT !["first"] = TRUE]            \* CloseClients

AnyDone(isDone) == \E p \in Clients : isDone[p]                             \* AllDone

TimerSeenIfNobodyReady == late /\ \A p \in Clients : ~connected[p]          \* TimerFires

CanBeTold(p) == waiter[p] = "loop"                                          \* HearsCanceled
-----------------------------------------------------------------------------
\* startLobby calls runLobby, which has created the first player's client.
Init ==
  /\ ClientInit
  /\ lobby = "join"
  /\ joined = FALSE
  /\ waiter = [p \in Clients |-> "none"]
  /\ connected = [p \in Clients |-> FALSE]
  /\ done = [p \in Clients |-> FALSE]
  /\ canceled = FALSE
  /\ late = FALSE
  /\ diceSet = [p \in Clients |-> 0]
  /\ reported = "none"
  /\ played = FALSE
  /\ sent = 0

Created(p) == p = "first" \/ joined

\* CloseGame and manager.Close close every client there is.
CloseClients == closing' = [p \in Clients |-> closing[p] \/ Created(p)]
-----------------------------------------------------------------------------
(***************************************************************************)
(* The players, the reading loops and the clock.                           *)
(***************************************************************************)
\* A player sends a dice pick, that it is ready, or something else; picks and
\* ready messages with a wrong player or wrong dice count as something else.
PlayerSends(p, variant) ==
  /\ Created(p)
  /\ sent < MaxSent
  /\ lobby # "returned"
  /\ sent' = sent + 1
  /\ Arrive(p, [variant |-> variant, no |-> IF variant = "pick" THEN sent' ELSE 0])
  /\ UNCHANGED <<lobby, joined, waiter, connected, done, canceled, late, diceSet, reported, played>>

ReaderStep(p) ==
  /\ Take(p) \/ Admit(p) \/ ReaderReturns(p)
  /\ UNCHANGED lobbyVars

TimePasses ==
  /\ lobby = "wait"
  /\ ~late
  /\ late' = TRUE
  /\ UNCHANGED <<clientVars, lobby, joined, waiter, connected, done, canceled, diceSet, reported,
                 played, sent>>

\* manager.Close, when the server goes down before the lobby is done.
ServerCloses ==
  /\ \E p \in Clients : Created(p) /\ ~closing[p]
  /\ CloseClients
  /\ UNCHANGED <<consumed, held, hasTurn, incoming, lobbyVars>>
-----------------------------------------------------------------------------
(***************************************************************************)
(* runLobby.                                                               *)
(***************************************************************************)
\* waitForOtherPlayer takes a join request and publishes the response; the
\* first player hears of it (its outgoing buffer cannot be full yet), and the
\* two waitForReady goroutines start.  An unreadable request changes nothing.
OtherJoins ==
  /\ lobby = "join"
  /\ lobby' = "wait"
  /\ joined' = TRUE
  /\ waiter' = [p \in Clients |-> "loop"]
  /\ UNCHANGED <<clientVars, connected, done, canceled, late, diceSet, reported, played, sent>>

\* waitForOtherPlayer runs out of time, or cannot sign the token of a second
\* player whose client it has already created.
OtherMissing ==
  /\ lobby = "join"
  /\ lobby' = "abandon"
  /\ joined' \in BOOLEAN
  /\ reported' = "error"
  /\ UNCHANGED <<clientVars, waiter, connected, done, canceled, late, diceSet, played, sent>>

AllDone(isDone) == \A p \in Clients : isDone[p]

\* A receive from the player's closed channel; runLobby's loop may repeat it
\* any number of times while it waits for the other player.
SeesConnected(p) ==
  /\ lobby = "wait"
  /\ connected[p]
  /\ done' = [done EXCEPT ![p] = TRUE]
  /\ lobby' = IF AllDone(done') THEN "ready" ELSE "wait"
  /\ UNCHANGED <<clientVars, joined, waiter, connected, canceled, late, diceSet, reported, played,
                 sent>>

\* An error on the player's channel: sender and receiver step together.
SeesFailure(p) ==
  /\ lobby = "wait"
  /\ waiter[p] = "failing"
  /\ waiter' = [waiter EXCEPT ![p] = "leaving"]
  /\ canceled' = TRUE
  /\ lobby' = "abandon"
  /\ reported' = "error"
  /\ UNCHANGED <<clientVars, joined, connected, done, late, diceSet, played, sent>>

TimerFires == late

\* The timer of runLobby's select.  errors.Wrap makes nil of the nil error.
ReadyTimeout ==
  /\ lobby = "wait"
  /\ TimerFires
  /\ canceled' = TRUE
  /\ lobby' = "abandon"
  /\ reported' = "nil"
  /\ UNCHANGED <<clientVars, joined, waiter, connected, done, late, diceSet, played, sent>>

\* The clients are drained, NewFarkleGame makes the game, and Play begins.
StartGame ==
  /\ lobby = "ready"
  /\ lobby' = "play"
  /\ played' = TRUE
  /\ DrainMessages
  /\ UNCHANGED <<consumed, held, hasTurn, closing, joined, waiter, connected, done, canceled, late,
                 diceSet, reported, sent>>

\* Play has returned, with its deferred CloseGame.
GameOver ==
  /\ lobby = "play"
  /\ lobby' = "returned"
  /\ reported' = "nil"
  /\ CloseClients
  /\ UNCHANGED <<consumed, held, hasTurn, incoming, joined, waiter, connected, done, canceled, late,
                 diceSet, played, sent>>

\* abandonConnecting; the error to report was wrapped before.
AbandonConnecting ==
  /\ lobby = "abandon"
  /\ lobby' = "returned"
  /\ CloseClients
  /\ UNCHANGED <<consumed, held, hasTurn, incoming, joined, waiter, connected, done, canceled, late,
                 diceSet, reported, played, sent>>
-----------------------------------------------------------------------------
(***************************************************************************)
(* waitForReady.                                                           *)
(***************************************************************************)
WaiterHandles(p) ==
  /\ waiter[p] = "loop"
  /\ Received(p)
  /\ LET msg == Head(incoming[p])
     IN  /\ diceSet' = [diceSet EXCEPT ![p] = IF msg.variant = "pick" THEN msg.no ELSE @]
         /\ connected' = [connected EXCEPT ![p] = msg.variant = "ready"]
         /\ waiter' = [waiter EXCEPT ![p] = IF msg.variant = "ready" THEN "leaving" ELSE @]
  /\ UNCHANGED <<consumed, held, hasTurn, closing, lobby, joined, done, canceled, late, reported,
                 played, sent>>

WaiterSeesClosing(p) ==
  /\ waiter[p] = "loop"
  /\ closing[p]
  /\ waiter' = [waiter EXCEPT ![p] = "failing"]
  /\ UNCHANGED <<clientVars, lobby, joined, connected, done, canceled, late, diceSet, reported,
                 played, sent>>

\* Both selects of waitForReady listen to canceled.
HearsCanceled(p) == waiter[p] \in {"loop", "failing"}

WaiterSeesCanceled(p) ==
  /\ HearsCanceled(p)
  /\ canceled
  /\ waiter' = [waiter EXCEPT ![p] = "leaving"]
  /\ UNCHANGED <<clientVars, lobby, joined, connected, done, canceled, late, diceSet, reported,
                 played, sent>>

\* The deferred SetTurn(false).
WaiterReturns(p) ==
  /\ waiter[p] = "leaving"
  /\ waiter' = [waiter EXCEPT ![p] = "exited"]
  /\ SetTurn(p, FALSE)
  /\ UNCHANGED <<consumed, held, incoming, closing, lobby, joined, connected, done, canceled, late,
                 diceSet, reported, played, sent>>
-----------------------------------------------------------------------------
RunLobby ==
  \/ OtherMissing
  \/ \E p \in Clients : SeesConnected(p) \/ SeesFailure(p)
  \/ ReadyTimeout
  \/ StartGame
  \/ AbandonConnecting

WaitForReady(p) ==
  WaiterHandles(p) \/ WaiterSeesClosing(p) \/ WaiterSeesCanceled(p) \/ WaiterReturns(p)

\* Nothing is left to do.
Finished ==
  /\ lobby = "returned"
  /\ UNCHANGED vars

Next ==
  \/ RunLobby
  \/ OtherJoins
  \/ GameOver
  \/ \E p \in Clients :
       \/ \E variant \in Variant : PlayerSends(p, variant)
       \/ ReaderStep(p)
       \/ WaitForReady(p)
  \/ TimePasses
  \/ ServerCloses
  \/ Finished

Spec == Init /\ [][Next]_vars

\* Goroutines that can run do, and time passes.  The closed channel of a done
\* player is always ready, but the select picks among ready branches at
\* random, so that a passed deadline is not put off for ever.
Fairness ==
  /\ WF_vars(RunLobby)
  /\ WF_vars(TimePasses)
  /\ \A p \in Clients : WF_vars(WaitForReady(p))

FairSpec == Spec /\ Fairness
-----------------------------------------------------------------------------
(***************************************************************************)
(* Properties.                                                             *)
(***************************************************************************)
\* The game starts with both players, each of them after its own ready
\* message, and then no waitForReady is in its loop to take the messages that
\* are meant for the game.
ReadyBeforePlay ==
  lobby \in {"ready", "play"} =>
    \A p \in Clients : connected[p] /\ waiter[p] \in {"leaving", "exited"}

\* The dice the game was made with are not replaced under it.
DiceSettled == [][lobby = "play" => diceSet' = diceSet]_vars

\* The game takes the clients over as FarklePlay expects them.
HandsOverClients ==
  [][StartGame => HandedOver([p \in Clients |-> waiter[p] = "exited"])']_vars

\* However the lobby ends, the clients it made are closed with it, and no
\* other player's messages were ever waited for in vain: a waiter that has
\* not exited by then has been told.
ClosedBehind ==
  lobby = "returned" =>
    \A p \in Clients : /\ Created(p) => closing[p]
                       /\ waiter[p] \in {"loop", "failing"} => canceled

\* A lobby comes to an end or to a game, and no waitForReady outlives it for
\* good: once started, both exit.
LobbyEnds ==
  /\ <>(lobby \in {"play", "returned"})
  /\ (\E p \in Clients : waiter[p] = "loop") ~> \A p \in Clients : waiter[p] = "exited"

\* runLobby returns nil when the game was played, and an error when it was
\* not: the players took too long to connect, for one.
ReportsFailure == lobby = "returned" /\ reported = "nil" => played
==============================================================================
