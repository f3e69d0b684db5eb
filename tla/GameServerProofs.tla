--------------------------- MODULE GameServerProofs --------------------------
(***************************************************************************)
(* Proofs about GameServer, for any games and any websocket requests.      *)
(***************************************************************************)
EXTENDS GameServer, TLAPS

\* Until manager.Close the channel for the games that run now is open, which
\* is why a game that ends can close it.
ChannelOpen == main \in {"select", "closing"} => allClosed \notin closedChans

ChannelInv == TypeOK /\ ChannelOpen /\ NoPanicWhileServing

LEMMA ChannelInvariant == Spec => []ChannelInv
<1>1. Init => ChannelInv
  <2>1. 1..(1 - 1) = {} /\ 1 \in Nat \ {0} /\ 0 \in 0..1 /\ 0 \in Nat
    OBVIOUS
  <2>2. ASSUME Init
        PROVE  /\ made \in [Game -> Nat]
               /\ client \in [Upgrader -> ((Game \X Nat) \X User) \cup {NoClient}]
    BY <2>1, <2>2 DEF Init
  <2> QED
    BY <2>1, <2>2 DEF Init, ChannelInv, TypeOK, LobbyState, UpgradeState, WorkerState, MainState,
                ChannelOpen, NoPanicWhileServing
<1>2. ChannelInv /\ [Next]_vars => ChannelInv'
  <2> SUFFICES ASSUME ChannelInv, [Next]_vars PROVE ChannelInv'
    OBVIOUS
  <2> USE DEF ChannelInv, TypeOK, ChannelOpen, NoPanicWhileServing, LobbyState,
              UpgradeState, WorkerState, MainState
  <2>1. ASSUME NEW g \in Game, Up, TakeCreate(g)
        PROVE  ChannelInv'
    BY <2>1 DEF TakeCreate, Up, managerVars, upgradeVars, mainVars
  <2>21. CASE Up /\ Acknowledge
    BY <2>21 DEF Acknowledge, Up, managerVars, upgradeVars, mainVars
  <2>22. ASSUME NEW g \in Game, Up, Join(g)
        PROVE  ChannelInv'
    BY <2>22 DEF Join, MakeGame, Up, upgradeVars, workerVars, mainVars
  <2>2. CASE Up /\ SeeShutdown
    BY <2>2 DEF SeeShutdown, Up, managerVars, upgradeVars, mainVars
  <2>3. CASE Up /\ CountGames
    BY <2>3 DEF CountGames, Up, managerVars, upgradeVars, mainVars
  <2>4. CASE Up /\ WatchAllClosed
    BY <2>4 DEF WatchAllClosed, Up, managerVars, upgradeVars, mainVars
  <2>5. CASE Up /\ SeeAllClosed
    BY <2>5 DEF SeeAllClosed, Up, managerVars, upgradeVars, mainVars
  <2>6. CASE Up /\ WaitTimeout
    BY <2>6 DEF WaitTimeout, TimeoutResult, Up, managerVars, upgradeVars, mainVars
  <2>7. CASE Up /\ WorkerReports
    BY <2>7 DEF WorkerReports, Up, managerVars, upgradeVars
  <2>8. ASSUME NEW g \in Game, Up, Register(g)
        PROVE  ChannelInv'
    BY <2>8 DEF Register, MakeGame, Up, upgradeVars, workerVars, mainVars
  <2>9. ASSUME NEW g \in Game, Up, StartFails(g)
        PROVE  ChannelInv'
    BY <2>9 DEF StartFails, Up, managerVars, upgradeVars, workerVars, mainVars
  <2>10. ASSUME NEW g \in Game, Up, CloseGameClients(g)
        PROVE  ChannelInv'
    BY <2>10 DEF CloseGameClients, MakeGame, Surviving, Up, workerVars, mainVars
  <2>11. ASSUME NEW g \in Game, Up, DeleteGame(g)
        PROVE  ChannelInv'
    <3>0. /\ lobby' \in [Game -> LobbyState] /\ games' \subseteq Game /\ wasEmpty' \in BOOLEAN
          /\ UNCHANGED <<upgradeVars, made, pending, worker, watched, missed, mainVars>>
      BY <2>11 DEF DeleteGame, ChannelInv, TypeOK
    <3>1. CASE UNCHANGED <<allClosed, closedChans, panicked>>
      BY <3>0, <3>1 DEF upgradeVars, mainVars
    <3>2. CASE AnnounceAllClosed /\ panicked'
      BY <2>11, <3>0, <3>2 DEF AnnounceAllClosed, Up, ChannelInv, TypeOK, ChannelOpen,
                        NoPanicWhileServing, upgradeVars, mainVars
    <3>3. CASE AnnounceAllClosed /\ ~panicked'
      <4>1. /\ allClosed \in Nat \ {0} /\ allClosed' = allClosed + 1
            /\ closedChans \subseteq 1..allClosed /\ closedChans' = closedChans \cup {allClosed}
            /\ 1..(allClosed - 1) \subseteq closedChans
        BY <3>3 DEF AnnounceAllClosed, ChannelInv, TypeOK
      <4>2. allClosed' \in Nat \ {0} /\ closedChans' \subseteq 1..allClosed'
        BY <4>1
      <4>3. 1..(allClosed' - 1) \subseteq closedChans'
        <5>1. 1..(allClosed' - 1) = 1..(allClosed - 1) \cup {allClosed}
          BY <4>1
        <5> QED
          BY <4>1, <5>1
      <4>4. allClosed' \notin closedChans'
        BY <4>1
      <4>5. watched' \in 0..allClosed'
        BY <2>11, <4>1 DEF DeleteGame, ChannelInv, TypeOK
      <4>6. panicked' = FALSE
        BY <3>3 DEF AnnounceAllClosed
      <4> QED
        BY <3>0, <4>2, <4>3, <4>4, <4>5, <4>6
           DEF upgradeVars, mainVars
    <3> QED
      BY <2>11, <3>1, <3>2, <3>3 DEF DeleteGame
  <2>12. ASSUME NEW u \in Upgrader, NEW g \in Game, NEW user \in User, Up, FindGame(u, g, user)
        PROVE  ChannelInv'
    <3>1. <<Clients(g), user>> \in (Game \X Nat) \X User
      BY DEF Clients
    <3>2. client' \in [Upgrader -> ((Game \X Nat) \X User) \cup {NoClient}]
      BY <2>12, <3>1 DEF FindGame
    <3> QED
      BY <2>12, <3>2 DEF FindGame, Up, managerVars, workerVars, mainVars
  <2>13. ASSUME NEW u \in Upgrader, Up, CloseOld(u)
        PROVE  ChannelInv'
    BY <2>13 DEF CloseOld, Up, managerVars, workerVars, mainVars
  <2>14. ASSUME NEW u \in Upgrader, Up, Install(u)
        PROVE  ChannelInv'
    BY <2>14 DEF Install, Up, managerVars, workerVars, mainVars
  <2>15. ASSUME NEW u \in Upgrader, Up, Disconnect(u)
        PROVE  ChannelInv'
    BY <2>15 DEF Disconnect, Up, managerVars, workerVars, mainVars
  <2>16. CASE Up /\ Signal
    BY <2>16 DEF Signal, Up, managerVars, upgradeVars, workerVars
  <2>17. CASE Up /\ WebFails
    BY <2>17 DEF WebFails, Up, managerVars, upgradeVars, workerVars
  <2>18. CASE Up /\ CloseManager
    BY <2>18 DEF CloseManager, Surviving, Up
  <2>19. CASE Up /\ Exit
    BY <2>19 DEF Exit, Up, managerVars, upgradeVars, workerVars
  <2>20. CASE UNCHANGED vars
    BY <2>20 DEF vars, managerVars, upgradeVars, workerVars, mainVars
  <2> QED
    BY <2>1, <2>2, <2>3, <2>4, <2>5, <2>6, <2>7, <2>8, <2>9, <2>10, <2>11, <2>12,
       <2>13, <2>14, <2>15, <2>16, <2>17, <2>18, <2>19, <2>20, <2>21, <2>22
       DEF Next, Worker, LobbyStep, UpgradeStep, Main
<1> QED
  BY <1>1, <1>2, PTL DEF Spec

\* Whatever the games and the upgrades do, the registry, the worker and main hold
\* values of their types, and every replaced allClosed channel has been closed.
THEOREM TypeCorrect == Spec => []TypeOK
BY ChannelInvariant, PTL DEF ChannelInv

\* A game that ends while the server serves finds its channel open.
THEOREM NeverPanicsWhileServing == Spec => []NoPanicWhileServing
BY ChannelInvariant, PTL DEF ChannelInv
-----------------------------------------------------------------------------
(***************************************************************************)
(* The wait for the last game.                                             *)
(***************************************************************************)
\* A wait whose channel is closed by a game has seen the registry empty, and
\* the channel it has is closed unless it is the present one.
WatchedMeansEmpty ==
  main = "select" =>
    /\ worker = "wait" /\ watched \in closedChans => wasEmpty
    /\ worker = "wait" => watched = allClosed \/ watched \in closedChans
    /\ worker = "counted" /\ games = {} => wasEmpty

WaitInv == WatchedMeansEmpty /\ WaitIsSound

\* A result of true from TryWaitForAllClosed is no mistake, and its wake-up is
\* lost only if the last game ends between its count and its select.
THEOREM WaitIsAlwaysSound == Spec => []WaitIsSound
<1>1. Init => WaitInv
  BY DEF Init, WaitInv, WatchedMeansEmpty, WaitIsSound
<1>2. ChannelInv /\ WaitInv /\ [Next]_vars => WaitInv'
  <2> SUFFICES ASSUME ChannelInv, WaitInv, [Next]_vars PROVE WaitInv'
    OBVIOUS
  <2> USE DEF ChannelInv, TypeOK, ChannelOpen, WaitInv, WatchedMeansEmpty, WaitIsSound
  <2>1. ASSUME NEW g \in Game, Up, TakeCreate(g)
        PROVE  WaitInv'
    BY <2>1 DEF TakeCreate, Up, managerVars, upgradeVars, mainVars
  <2>21. CASE Up /\ Acknowledge
    BY <2>21 DEF Acknowledge, Up, managerVars, upgradeVars, mainVars
  <2>22. ASSUME NEW g \in Game, Up, Join(g)
        PROVE  WaitInv'
    BY <2>22 DEF Join, MakeGame, Up, upgradeVars, workerVars, mainVars
  <2>2. CASE Up /\ SeeShutdown
    BY <2>2 DEF SeeShutdown, Up, managerVars, upgradeVars, mainVars
  <2>3. CASE Up /\ CountGames
    BY <2>3 DEF CountGames, Up, managerVars, upgradeVars, mainVars
  <2>4. CASE Up /\ WatchAllClosed
    BY <2>4 DEF WatchAllClosed, Up, managerVars, upgradeVars, mainVars
  <2>5. CASE Up /\ SeeAllClosed
    BY <2>5 DEF SeeAllClosed, Up, managerVars, upgradeVars, mainVars
  <2>6. CASE Up /\ WaitTimeout
    BY <2>6 DEF WaitTimeout, TimeoutResult, Up, managerVars, upgradeVars, mainVars
  <2>7. CASE Up /\ WorkerReports
    BY <2>7 DEF WorkerReports, Up, managerVars, upgradeVars
  <2>8. ASSUME NEW g \in Game, Up, Register(g)
        PROVE  WaitInv'
    BY <2>8 DEF Register, MakeGame, Up, upgradeVars, workerVars, mainVars
  <2>9. ASSUME NEW g \in Game, Up, StartFails(g)
        PROVE  WaitInv'
    BY <2>9 DEF StartFails, Up, managerVars, upgradeVars, workerVars, mainVars
  <2>10. ASSUME NEW g \in Game, Up, CloseGameClients(g)
        PROVE  WaitInv'
    BY <2>10 DEF CloseGameClients, MakeGame, Surviving, Up, workerVars, mainVars
  <2>11. ASSUME NEW g \in Game, Up, DeleteGame(g)
        PROVE  WaitInv'
    BY <2>11 DEF DeleteGame, AnnounceAllClosed, Up, upgradeVars, mainVars
  <2>12. ASSUME NEW u \in Upgrader, NEW g \in Game, NEW user \in User, Up, FindGame(u, g, user)
        PROVE  WaitInv'
    BY <2>12 DEF FindGame, Up, managerVars, workerVars, mainVars
  <2>13. ASSUME NEW u \in Upgrader, Up, CloseOld(u)
        PROVE  WaitInv'
    BY <2>13 DEF CloseOld, Up, managerVars, workerVars, mainVars
  <2>14. ASSUME NEW u \in Upgrader, Up, Install(u)
        PROVE  WaitInv'
    BY <2>14 DEF Install, Up, managerVars, workerVars, mainVars
  <2>15. ASSUME NEW u \in Upgrader, Up, Disconnect(u)
        PROVE  WaitInv'
    BY <2>15 DEF Disconnect, Up, managerVars, workerVars, mainVars
  <2>16. CASE Up /\ Signal
    BY <2>16 DEF Signal, Up, managerVars, upgradeVars, workerVars
  <2>17. CASE Up /\ WebFails
    BY <2>17 DEF WebFails, Up, managerVars, upgradeVars, workerVars
  <2>18. CASE Up /\ CloseManager
    BY <2>18 DEF CloseManager, Surviving, Up
  <2>19. CASE Up /\ Exit
    BY <2>19 DEF Exit, Up, managerVars, upgradeVars, workerVars
  <2>20. CASE UNCHANGED vars
    BY <2>20 DEF vars, managerVars, upgradeVars, workerVars, mainVars
  <2> QED
    BY <2>1, <2>2, <2>3, <2>4, <2>5, <2>6, <2>7, <2>8, <2>9, <2>10, <2>11, <2>12,
       <2>13, <2>14, <2>15, <2>16, <2>17, <2>18, <2>19, <2>20, <2>21, <2>22
       DEF Next, Worker, LobbyStep, UpgradeStep, Main
<1> QED
  BY <1>1, <1>2, ChannelInvariant, PTL DEF Spec, WaitInv
-----------------------------------------------------------------------------
(***************************************************************************)
(* Connections and games.                                                  *)
(***************************************************************************)
GameOf(u) == client[u][1][1]

Serving == main \in {"select", "closing"}

\* Who has found a game has found one that was registered, and until
\* manager.Close it is registered as it was, or over.
Found ==
  \A u \in Upgrader :
    /\ u \in current => upgrade[u] = "done"
    /\ upgrade[u] \in {"found", "replacing", "done"}
         => /\ client[u] \in (Game \X Nat) \X User
            /\ lobby[GameOf(u)] \in {"running", "closed", "over"}
            /\ Serving => client[u][1] = Clients(GameOf(u))

\* A game is in the registry while its lobby runs, unless manager.Close has
\* emptied it, and no game is asked for twice.
Registered ==
  \A g \in Game :
    /\ g \in pending => lobby[g] = "none"
    /\ g \in games => lobby[g] \in {"running", "closed"}
    /\ lobby[g] = "running" /\ Serving => g \in games

Forgotten(u) == u \in late \/ u \in overtaken

\* Between the two halves of CloseGame only forgotten connections are open.
ClosedIsQuiet ==
  \A u \in live : upgrade[u] = "done" /\ lobby[GameOf(u)] = "closed" => Forgotten(u)

\* What an upgrade is going to replace it has closed, or it overlaps with the
\* upgrade that brought it.
Overlap ==
  \A u \in Upgrader : \A v \in live \cap current :
    upgrade[u] = "replacing" /\ v \in SameClient(u) => v \in overtaken

OwnInv == Found /\ Registered /\ ClosedIsQuiet /\ Overlap /\ OpenConnectionOwned

\* An open connection is that of its registered client, or one of the two kinds
\* that are named: no other is forgotten, whatever overlaps.
THEOREM OpenConnectionsAreOwned == Spec => []OpenConnectionOwned
<1>1. Init => OwnInv
  BY DEF Init, OwnInv, Found, Registered, ClosedIsQuiet, Overlap, OpenConnectionOwned
<1>2. ChannelInv /\ OwnInv /\ [Next]_vars => OwnInv'
  <2> SUFFICES ASSUME ChannelInv, OwnInv, [Next]_vars PROVE OwnInv'
    OBVIOUS
  <2> USE DEF ChannelInv, TypeOK, Clients, OwnInv, Found, Registered, ClosedIsQuiet, Overlap,
              OpenConnectionOwned, Owned, SameClient, GameOf, Serving, Forgotten
  <2>1. ASSUME NEW g \in Game, Up, TakeCreate(g)
        PROVE  OwnInv'
    BY <2>1 DEF TakeCreate, Up, managerVars, upgradeVars, mainVars
  <2>21. CASE Up /\ Acknowledge
    BY <2>21 DEF Acknowledge, Up, managerVars, upgradeVars, mainVars
  <2>22. ASSUME NEW g \in Game, Up, Join(g)
        PROVE  OwnInv'
    BY <2>22 DEF Join, MakeGame, Up, upgradeVars, workerVars, mainVars
  <2>2. CASE Up /\ SeeShutdown
    BY <2>2 DEF SeeShutdown, Up, managerVars, upgradeVars, mainVars
  <2>3. CASE Up /\ CountGames
    BY <2>3 DEF CountGames, Up, managerVars, upgradeVars, mainVars
  <2>4. CASE Up /\ WatchAllClosed
    BY <2>4 DEF WatchAllClosed, Up, managerVars, upgradeVars, mainVars
  <2>5. CASE Up /\ SeeAllClosed
    BY <2>5 DEF SeeAllClosed, Up, managerVars, upgradeVars, mainVars
  <2>6. CASE Up /\ WaitTimeout
    BY <2>6 DEF WaitTimeout, TimeoutResult, Up, managerVars, upgradeVars, mainVars
  <2>7. CASE Up /\ WorkerReports
    BY <2>7 DEF WorkerReports, Up, managerVars, upgradeVars
  <2>8. ASSUME NEW g \in Game, Up, Register(g)
        PROVE  OwnInv'
    BY <2>8 DEF Register, MakeGame, Up, upgradeVars, workerVars, mainVars
  <2>9. ASSUME NEW g \in Game, Up, StartFails(g)
        PROVE  OwnInv'
    BY <2>9 DEF StartFails, Up, managerVars, upgradeVars, workerVars, mainVars
  <2>10. ASSUME NEW g \in Game, Up, CloseGameClients(g)
        PROVE  OwnInv'
    BY <2>10 DEF CloseGameClients, MakeGame, Surviving, Up, workerVars, mainVars
  <2>11. ASSUME NEW g \in Game, Up, DeleteGame(g)
        PROVE  OwnInv'
    BY <2>11 DEF DeleteGame, AnnounceAllClosed, Up, upgradeVars, mainVars
  <2>12. ASSUME NEW u \in Upgrader, NEW g \in Game, NEW user \in User, Up, FindGame(u, g, user)
        PROVE  OwnInv'
    BY <2>12 DEF FindGame, Up, managerVars, workerVars, mainVars
  <2>13. ASSUME NEW u \in Upgrader, Up, CloseOld(u)
        PROVE  OwnInv'
    BY <2>13 DEF CloseOld, Up, managerVars, workerVars, mainVars
  <2>14. ASSUME NEW u \in Upgrader, Up, Install(u)
        PROVE  OwnInv'
    <3>1. /\ upgrade[u] = "replacing"
          /\ upgrade' = [upgrade EXCEPT ![u] = "done"]
          /\ current' = (current \ SameClient(u)) \cup {u}
          /\ late \subseteq late' /\ overtaken \subseteq overtaken'
          /\ UNCHANGED <<pending, lobby, games, made, main, client, live>>
      BY <2>14 DEF Install, managerVars, workerVars, mainVars
    <3>2. (lobby[GameOf(u)] = "running" /\ Serving) \/ u \in late'
      BY <2>14, <3>1 DEF Install, Up, MainState
    <3>3. /\ upgrade'[u] = "done"
          /\ \A v \in Upgrader : v # u => upgrade'[v] = upgrade[v]
      BY <3>1
    <3>4. Found' /\ Registered'
      BY <3>1, <3>3
    <3>5. Owned(u)' \/ u \in late'
      BY <3>1, <3>2
    <3>6. ClosedIsQuiet'
      BY <3>1, <3>2, <3>3
    <3>7. ASSUME NEW v \in live, v # u, upgrade'[v] = "done"
          PROVE  Owned(v)' \/ v \in late' \/ v \in overtaken'
      <4>1. CASE v \in SameClient(u) /\ v \in current
        BY <3>1, <4>1
      <4>2. CASE ~(v \in SameClient(u) /\ v \in current)
        BY <3>1, <3>3, <3>7, <4>2
      <4> QED
        BY <4>1, <4>2
    <3>8. OpenConnectionOwned'
      BY <3>1, <3>5, <3>7
    <3>9. Overlap'
      <4> SUFFICES ASSUME NEW w \in Upgrader, NEW v \in live \cap current',
                          upgrade'[w] = "replacing", v \in SameClient(w)
                   PROVE  v \in overtaken'
        BY <3>1
      <4>1. CASE v = u
        <5>1. w \in SameClient(u) /\ upgrade[w] = "replacing"
          BY <3>3, <4>1
        <5> QED
          BY <2>14, <4>1, <5>1 DEF Install
      <4>2. CASE v # u
        BY <3>1, <3>3, <4>2
      <4> QED
        BY <4>1, <4>2
    <3> QED
      BY <3>4, <3>6, <3>8, <3>9
  <2>15. ASSUME NEW u \in Upgrader, Up, Disconnect(u)
        PROVE  OwnInv'
    BY <2>15 DEF Disconnect, Up, managerVars, workerVars, mainVars
  <2>16. CASE Up /\ Signal
    BY <2>16 DEF Signal, Up, managerVars, upgradeVars, workerVars
  <2>17. CASE Up /\ WebFails
    BY <2>17 DEF WebFails, Up, managerVars, upgradeVars, workerVars
  <2>18. CASE Up /\ CloseManager
    BY <2>18 DEF CloseManager, Surviving, Up
  <2>19. CASE Up /\ Exit
    BY <2>19 DEF Exit, Up, managerVars, upgradeVars, workerVars
  <2>20. CASE UNCHANGED vars
    BY <2>20 DEF vars, managerVars, upgradeVars, workerVars, mainVars
  <2> QED
    BY <2>1, <2>2, <2>3, <2>4, <2>5, <2>6, <2>7, <2>8, <2>9, <2>10, <2>11, <2>12,
       <2>13, <2>14, <2>15, <2>16, <2>17, <2>18, <2>19, <2>20, <2>21, <2>22
       DEF Next, Worker, LobbyStep, UpgradeStep, Main
<1> QED
  BY <1>1, <1>2, ChannelInvariant, PTL DEF Spec, OwnInv
==============================================================================
