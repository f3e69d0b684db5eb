------------------------------ MODULE GameServer -----------------------------
(***************************************************************************)
(* A farkle server from start to shutdown: the worker of lobby/worker.go   *)
(* that turns create messages into lobby goroutines, the registry of games *)
(* and clients of common/client/manager.go, the upgrades of the web entry  *)
(* point, and main, which closes the manager and the queue pool when       *)
(* worker or web server gives up.  A lobby is what it does to the          *)
(* registry: see module Lobby for the rest.  Steps are the critical        *)
(* sections of the two mutexes, and the unsynchronised ones between them.  *)
(* A call on the pool may hang (see module Queue).                         *)
(***************************************************************************)
EXTENDS Naturals

CONSTANTS Game,     \* the games that are asked for, one create message each
          User,     \* the players who come by websocket
          Upgrader, \* the websocket requests that arrive
          NoClient  \* no client

ASSUME NoClientAssumption == NoClient \notin (Game \X Nat) \X User

VARIABLES pending,     \* create messages the worker has not taken
          lobby,       \* the lobby goroutine of a game, see LobbyState
          games,       \* the keys of manager.games
          made,        \* gameClients objects made for the game so far
          allClosed,   \* manager.allClosed: channels are numbered as they are made
          closedChans, \* those that are closed
          upgrade,     \* where a websocket request stands, see UpgradeState
          client,      \* the WebSocketClient it is for
          live,        \* the requests whose connection is open
          current,     \* those whose connection is the conn of their client
          late,        \* history: installed when the game's clients had been closed
          overtaken,   \* history: installed while another upgrade of the client ran
          worker,      \* where RunWorker stands, see WorkerState
          watched,     \* the channel that TryWaitForAllClosed waits on
          ctxDone,     \* the shutdown signal was received
          main,        \* where main stands, see MainState
          panicked,    \* a channel was closed twice
          wasEmpty,    \* history: there was no game at some time of the worker's wait
          missed       \* history: there was none between its count and its select

managerVars == <<games, made, allClosed, closedChans, panicked>>
upgradeVars == <<upgrade, client, live, current, late, overtaken>>
workerVars == <<pending, worker, watched, wasEmpty, missed>>
mainVars == <<ctxDone, main>>
vars == <<lobby, managerVars, upgradeVars, workerVars, mainVars>>

\* "accepted": the goroutine runs but has not called GetClient; "running": it
\* has, and does until "closed", where CloseGame has closed the clients but
\* not yet deleted the game; "over": CloseGame has returned.
LobbyState == {"none", "accepted", "running", "closed", "over"}

\* "found": tryGetGame has succeeded; "replacing": reconnect has closed the
\* connection it found in the client.
UpgradeState == {"none", "found", "replacing", "done", "notFound"}

\* "loop" is workerLoop, "acking" its Ack or Nack, "stuck" one that hangs;
\* "counted" is TryWaitForAllClosed after it has counted the games and
\* unlocked, "wait" its select; then it sends its result.
WorkerState ==
  {"loop", "acking", "stuck", "count", "counted", "wait", "allShutdown", "timedOut", "reported"}

\* "closing" is before the deferred Close of the manager, "exiting" is that of
\* the pool, which may hang.
MainState == {"select", "closing", "exiting", "exited"}

TypeOK ==
  /\ pending \subseteq Game
  /\ lobby \in [Game -> LobbyState]
  /\ games \subseteq Game
  /\ made \in [Game -> Nat]
  /\ allClosed \in Nat \ {0}
  /\ 1..(allClosed - 1) \subseteq closedChans /\ closedChans \subseteq 1..allClosed
  /\ upgrade \in [Upgrader -> UpgradeState]
  /\ client \in [Upgrader -> ((Game \X Nat) \X User) \cup {NoClient}]
  /\ live \subseteq Upgrader /\ current \subseteq Upgrader
  /\ late \subseteq Upgrader /\ overtaken \subseteq Upgrader
  /\ worker \in WorkerState
  /\ watched \in 0..allClosed
  /\ main \in MainState
  /\ ctxDone \in BOOLEAN /\ panicked \in BOOLEAN
  /\ wasEmpty \in BOOLEAN /\ missed \in BOOLEAN

(***************************************************************************)
(* Mutants: what a plausible bug would make of the definition that is      *)
(* named in each comment.  Nothing uses them; a property is trusted only   *)
(* after it has been seen to fail with one of them in that place.          *)
(***************************************************************************)
ForgetClients(gs) == live                           \* Surviving

AlwaysShutdown == "allShutdown"                     \* TimeoutResult

WaitAgain == IF games = {} THEN "allShutdown" ELSE "counted"  \* TimeoutResult

AnnounceOnce ==                                     \* AnnounceAllClosed
  /\ panicked' = (allClosed \in closedChans)
  /\ closedChans' = closedChans \cup {allClosed}
  /\ UNCHANGED allClosed

-----------------------------------------------------------------------------
\* main up to its select.
Init ==
  /\ pending = Game
  /\ lobby = [g \in Game |-> "none"]
  /\ games = {}
  /\ made = [g \in Game |-> 0]
  /\ allClosed = 1
  /\ closedChans = {}
  /\ upgrade = [u \in Upgrader |-> "none"]
  /\ client = [u \in Upgrader |-> NoClient]
  /\ live = {} /\ current = {} /\ late = {} /\ overtaken = {}
  /\ worker = "loop"
  /\ watched = 0
  /\ ctxDone = FALSE
  /\ main = "select"
  /\ panicked = FALSE
  /\ wasEmpty = FALSE /\ missed = FALSE

\* The process is there: main has not returned and no goroutine has panicked.
Up == main # "exited" /\ ~panicked

\* The gameClients object of a registered game.
Clients(g) == <<g, made[g]>>

\* getOrCreateGame: no other goroutine makes the game at the same time, for it
\* is made by its one lobby.
MakeGame(g) ==
  /\ games' = games \cup {g}
  /\ made' = IF g \in games THEN made ELSE [made EXCEPT ![g] = @ + 1]

\* gameClients.close of the games in gs: every client closes the connection
\* it has, which is not every connection it was given.
Surviving(gs) == live \ {u \in current : client[u][1] \in {Clients(g) : g \in gs}}
-----------------------------------------------------------------------------
(***************************************************************************)
(* workerLoop and RunWorker.                                               *)
(***************************************************************************)
\* A create message starts a lobby.  (One that cannot be read starts nothing
\* and is refused; its Nack may fail or hang like the Ack of another.)
TakeCreate(g) ==
  /\ worker = "loop"
  /\ g \in pending
  /\ pending' = pending \ {g}
  /\ lobby' = [lobby EXCEPT ![g] = "accepted"]
  /\ worker' = "acking"
  /\ UNCHANGED <<managerVars, upgradeVars, watched, wasEmpty, missed, mainVars>>

\* Ack or Nack returns, or fails, which ends workerLoop, or hangs for ever on
\* a channel that is stuck.
Acknowledge ==
  /\ worker = "acking"
  /\ worker' \in {"loop", "count", "stuck"}
  /\ UNCHANGED <<lobby, managerVars, upgradeVars, pending, watched, wasEmpty, missed, mainVars>>

SeeShutdown ==
  /\ worker = "loop"
  /\ ctxDone
  /\ worker' = "count"
  /\ UNCHANGED <<lobby, managerVars, upgradeVars, pending, watched, wasEmpty, missed, mainVars>>

\* TryWaitForAllClosed counts the games under the lock ...
CountGames ==
  /\ worker = "count"
  /\ worker' = IF games = {} THEN "allShutdown" ELSE "counted"
  /\ wasEmpty' = (games = {})
  /\ UNCHANGED <<lobby, managerVars, upgradeVars, pending, watched, missed, mainVars>>

\* ... and reads the channel without it.
WatchAllClosed ==
  /\ worker = "counted"
  /\ worker' = "wait"
  /\ watched' = allClosed
  /\ missed' = wasEmpty
  /\ UNCHANGED <<lobby, managerVars, upgradeVars, pending, wasEmpty, mainVars>>

SeeAllClosed ==
  /\ worker = "wait"
  /\ watched \in closedChans
  /\ worker' = "allShutdown"
  /\ UNCHANGED <<lobby, managerVars, upgradeVars, pending, watched, wasEmpty, missed, mainVars>>

TimeoutResult == IF games = {} THEN "allShutdown" ELSE "timedOut"

\* shutdownTimeout is over.
WaitTimeout ==
  /\ worker = "wait"
  /\ worker' = TimeoutResult
  /\ wasEmpty' = (wasEmpty \/ games = {})
  /\ UNCHANGED <<lobby, managerVars, upgradeVars, pending, watched, missed, mainVars>>

\* main takes the result, returns, and the deferred Close is next.
WorkerReports ==
  /\ main = "select"
  /\ worker \in {"allShutdown", "timedOut"}
  /\ worker' = "reported"
  /\ main' = "closing"
  /\ UNCHANGED <<lobby, managerVars, upgradeVars, pending, watched, wasEmpty, missed, ctxDone>>
-----------------------------------------------------------------------------
(***************************************************************************)
(* A lobby goroutine, as the registry sees it.                             *)
(***************************************************************************)
\* runLobby's first GetClient makes the game.
Register(g) ==
  /\ lobby[g] = "accepted"
  /\ lobby' = [lobby EXCEPT ![g] = "running"]
  /\ MakeGame(g)
  /\ UNCHANGED <<allClosed, closedChans, panicked, upgradeVars, workerVars, mainVars>>

\* startLobby fails before runLobby.
StartFails(g) ==
  /\ lobby[g] = "accepted"
  /\ lobby' = [lobby EXCEPT ![g] = "over"]
  /\ UNCHANGED <<managerVars, upgradeVars, workerVars, mainVars>>

\* GetClient for the second player: after manager.Close there is no game, and
\* it makes another one.
Join(g) ==
  /\ lobby[g] = "running"
  /\ MakeGame(g)
  /\ UNCHANGED <<lobby, allClosed, closedChans, panicked, upgradeVars, workerVars, mainVars>>

\* CloseGame up to game.close(), after the game or an abandoned lobby; this too
\* makes a game when there is none.
CloseGameClients(g) ==
  /\ lobby[g] = "running"
  /\ lobby' = [lobby EXCEPT ![g] = "closed"]
  /\ live' = Surviving(games \cap {g})
  /\ MakeGame(g)
  /\ UNCHANGED <<allClosed, closedChans, panicked, upgrade, client, current, late, overtaken,
                 workerVars, mainVars>>

\* close(manager.allClosed), and the channel for the next games is made.
AnnounceAllClosed ==
  /\ panicked' = (allClosed \in closedChans)
  /\ closedChans' = closedChans \cup {allClosed}
  /\ allClosed' = IF panicked' THEN allClosed ELSE allClosed + 1

\* The rest of CloseGame, under the lock.
DeleteGame(g) ==
  /\ lobby[g] = "closed"
  /\ lobby' = [lobby EXCEPT ![g] = "over"]
  /\ games' = games \ {g}
  /\ IF games' # {}
     THEN UNCHANGED <<allClosed, closedChans, panicked>>
     ELSE AnnounceAllClosed
  /\ UNCHANGED made
  /\ wasEmpty' = (wasEmpty \/ (games' = {} /\ worker \in {"counted", "wait"}))
  /\ UNCHANGED <<upgradeVars, pending, worker, watched, missed, mainVars>>
-----------------------------------------------------------------------------
(***************************************************************************)
(* The handler of a websocket request with a valid token, and              *)
(* UpgradeClient.                                                          *)
(***************************************************************************)
\* The socket is upgraded, and then tryGetGame looks for the game.  When there
\* is none the handler returns and leaves the connection open.
FindGame(u, g, user) ==
  /\ upgrade[u] = "none"
  /\ lobby[g] # "none"
  /\ live' = live \cup {u}
  /\ IF g \in games
     THEN /\ upgrade' = [upgrade EXCEPT ![u] = "found"]
          /\ client' = [client EXCEPT ![u] = <<Clients(g), user>>]
     ELSE /\ upgrade' = [upgrade EXCEPT ![u] = "notFound"]
          /\ UNCHANGED client
  /\ UNCHANGED <<lobby, managerVars, current, late, overtaken, workerVars, mainVars>>

SameClient(u) == {v \in Upgrader \ {u} : client[v] = client[u]}

\* getOrCreateClient, and reconnect closes the client's connection ...
CloseOld(u) ==
  /\ upgrade[u] = "found"
  /\ upgrade' = [upgrade EXCEPT ![u] = "replacing"]
  /\ live' = live \ (current \cap SameClient(u))
  /\ UNCHANGED <<lobby, managerVars, client, current, late, overtaken, workerVars, mainVars>>

\* ... and installs the new one, whether the client is closed or not, and
\* whether or not another upgrade has installed one since.  What two that
\* overlap do to the loops of the client is the matter of WebSocketClient.
Install(u) ==
  /\ upgrade[u] = "replacing"
  /\ upgrade' = [upgrade EXCEPT ![u] = "done"]
  /\ current' = (current \ SameClient(u)) \cup {u}
  /\ late' = IF lobby[client[u][1][1]] \in {"closed", "over"} \/ main = "exiting"
             THEN late \cup {u} ELSE late
  /\ overtaken' = IF \E v \in SameClient(u) : upgrade[v] = "replacing"
                  THEN overtaken \cup {u} ELSE overtaken
  /\ UNCHANGED <<lobby, managerVars, client, live, workerVars, mainVars>>

\* The peer goes away, or the runtime collects a connection that nothing holds.
\* Before the handler is done with it that makes no difference.
Disconnect(u) ==
  /\ u \in live /\ upgrade[u] \in {"done", "notFound"}
  /\ live' = live \ {u}
  /\ UNCHANGED <<lobby, managerVars, upgrade, client, current, late, overtaken, workerVars, mainVars>>
-----------------------------------------------------------------------------
(***************************************************************************)
(* main.                                                                   *)
(***************************************************************************)
Signal ==
  /\ ~ctxDone
  /\ ctxDone' = TRUE
  /\ UNCHANGED <<lobby, managerVars, upgradeVars, workerVars, main>>

WebFails ==
  /\ main = "select"
  /\ main' = "closing"
  /\ UNCHANGED <<lobby, managerVars, upgradeVars, workerVars, ctxDone>>

\* The deferred manager.Close.
CloseManager ==
  /\ main = "closing"
  /\ main' = "exiting"
  /\ live' = Surviving(games)
  /\ games' = {}
  /\ closedChans' = closedChans \cup {allClosed}
  /\ wasEmpty' = TRUE
  /\ UNCHANGED <<lobby, made, allClosed, panicked, upgrade, client, current, late, overtaken,
                 pending, worker, watched, missed, ctxDone>>

\* The deferred pool.Close returns, whether it fails or not, and so does main,
\* which ends the process.  It may as well wait for ever, for a lock that a
\* setup holds or on a channel that is stuck: then this step is never taken.
Exit ==
  /\ main = "exiting"
  /\ main' = "exited"
  /\ UNCHANGED <<lobby, managerVars, upgradeVars, workerVars, ctxDone>>
-----------------------------------------------------------------------------
Worker ==
  Acknowledge \/ SeeShutdown \/ CountGames \/ WatchAllClosed \/ SeeAllClosed \/ WaitTimeout
    \/ WorkerReports

LobbyStep(g) == Register(g) \/ StartFails(g) \/ Join(g) \/ CloseGameClients(g) \/ DeleteGame(g)

UpgradeStep(u) ==
  \/ CloseOld(u) \/ Install(u) \/ Disconnect(u)
  \/ \E g \in Game, user \in User : FindGame(u, g, user)

Main == WebFails \/ CloseManager \/ Exit

Next ==
  \/ /\ Up
     /\ \/ Worker
        \/ \E g \in Game : TakeCreate(g) \/ LobbyStep(g)
        \/ \E u \in Upgrader : UpgradeStep(u)
        \/ Signal
        \/ Main
  \/ ~Up /\ UNCHANGED vars

Spec == Init /\ [][Next]_vars

\* The worker and main go on when they can, but for pool.Close; the wait times
\* out at last.
FairSpec == Spec /\ WF_vars(Up /\ Worker) /\ WF_vars(Up /\ CloseManager)
-----------------------------------------------------------------------------
(***************************************************************************)
(* Properties.                                                             *)
(***************************************************************************)
\* allClosed is never closed twice while the server serves: only a game that
\* ends between manager.Close and the end of the process can do that.
NoPanicWhileServing == panicked => main = "exiting"

\* The channel that TryWaitForAllClosed waits on is read after the lock was
\* given back, and may have been closed and replaced before.  While the server
\* serves, a result of true is no mistake even so: at some time since the count
\* there was no game.  And a wait that finds no game left has its wake-up,
\* unless the last game ended in just that gap: then it sleeps on, until some
\* later game ends as the last one or shutdownTimeout is over.
WaitIsSound ==
  main = "select" =>
    /\ worker = "allShutdown" => wasEmpty
    /\ worker = "wait" /\ games = {} => watched \in closedChans \/ missed

\* Closing a game closes the connections of its clients, and a new connection
\* the one it replaces.  So an open one whose upgrade is done is its client's
\* present connection and its game is registered, but for three that nothing
\* will close: one whose game was not found, for the handler forgets it; one
\* installed after its game was closed, for UpgradeClient does not look whether
\* the client it found is closed; and one of two upgrades of a client that
\* overlapped, for reconnect forgets what was installed since it looked.
Owned(u) ==
  /\ u \in current
  /\ \E g \in games : client[u][1] = Clients(g)

OpenConnectionOwned ==
  \A u \in live : upgrade[u] = "done" => Owned(u) \/ u \in late \/ u \in overtaken

\* The signal brings main to the last thing it does, pool.Close, at the latest
\* when the wait for the games has timed out, unless the worker's Ack hangs; and
\* the server then ends if pool.Close does, which nothing here makes sure of.
ShutdownEnds == ctxDone ~> ~Up \/ main = "exiting" \/ worker = "stuck"

\* "All games shutdown": no game is left on this server.
AllGamesShutdown ==
  worker = "allShutdown" => \A g \in Game : lobby[g] \in {"none", "over"}
==============================================================================
