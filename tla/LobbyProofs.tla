----------------------------- MODULE LobbyProofs -----------------------------
(***************************************************************************)
(* Proofs about Lobby, for any number of messages and any buffers.         *)
(***************************************************************************)
EXTENDS Lobby, TLAPS

\* What the players send.
Message == [variant : Variant, no : 0..MaxSent]

\* The types of what decides where the lobby stands.
StageType ==
  /\ lobby \in LobbyState
  /\ waiter \in [Clients -> WaiterState]
  /\ connected \in [Clients -> BOOLEAN]
  /\ done \in [Clients -> BOOLEAN]
  /\ closing \in [Clients -> BOOLEAN]
  /\ hasTurn \in [Clients -> BOOLEAN]

\* The waiters start when the second player joins, and not later.
StartedByJoin == lobby = "join" => \A p \in Clients : waiter[p] = "none"

\* A player's channel is closed as the last act of its waiter, and runLobby
\* has only ever found it closed, never open.
DoneIsConnected ==
  \A p \in Clients : /\ connected[p] => waiter[p] \in {"leaving", "exited"}
                     /\ done[p] => connected[p]

AllAreDone == lobby \in {"ready", "play"} => \A p \in Clients : done[p]

\* Once runLobby no longer looks, a waiter that still waits has been told.
WaitersAreTold ==
  lobby \in {"ready", "play", "abandon", "returned"} =>
    \A p \in Clients : waiter[p] \in {"loop", "failing"} => canceled

\* Nothing but a waiter's return lowers the flag that createPlayer has set.
FlagFollowsWaiter == \A p \in Clients : hasTurn[p] <=> waiter[p] # "exited"

AllClosed == lobby = "returned" => \A p \in Clients : Created(p) => closing[p]

StageInv ==
  /\ StageType
  /\ StartedByJoin
  /\ DoneIsConnected
  /\ AllAreDone
  /\ WaitersAreTold
  /\ FlagFollowsWaiter
  /\ AllClosed
-----------------------------------------------------------------------------
LEMMA InitStage == Init => StageInv
BY DEF Init, ClientInit, StageInv, StageType, LobbyState, WaiterState, StartedByJoin,
       DoneIsConnected, AllAreDone, WaitersAreTold, FlagFollowsWaiter, AllClosed

LEMMA CloseKeeps ==
  ASSUME StageType, CloseClients
  PROVE  /\ closing' \in [Clients -> BOOLEAN]
         /\ \A p \in Clients : Created(p) => closing'[p]
BY DEF StageType, CloseClients

\* The players, the reading loops and the clock leave the stage alone.
LEMMA EnvironmentStage ==
  ASSUME StageInv, NEW p \in Clients,
         \/ \E variant \in Variant : PlayerSends(p, variant)
         \/ ReaderStep(p)
         \/ TimePasses
         \/ Finished
  PROVE  StageInv'
<1>1. UNCHANGED <<lobby, joined, waiter, connected, done, canceled, closing, hasTurn>>
  BY DEF PlayerSends, ReaderStep, TimePasses, Finished, Arrive, Take, Admit, ReaderReturns,
         lobbyVars, clientVars, vars
<1> QED
  BY <1>1 DEF StageInv, StageType, StartedByJoin, DoneIsConnected, AllAreDone, WaitersAreTold,
              FlagFollowsWaiter, AllClosed, Created

\* So do, in what is not closing, the three ways of closing the clients.
LEMMA ClosingStage ==
  ASSUME StageInv, ServerCloses \/ GameOver \/ AbandonConnecting
  PROVE  StageInv'
<1> USE DEF StageInv
<1>1. CloseClients /\ UNCHANGED <<joined, waiter, connected, done, canceled, hasTurn>>
  BY DEF ServerCloses, GameOver, AbandonConnecting, lobbyVars
<1>2. lobby' = lobby \/ (lobby \in {"play", "abandon"} /\ lobby' = "returned")
  BY DEF ServerCloses, GameOver, AbandonConnecting, lobbyVars
<1>3. closing' \in [Clients -> BOOLEAN] /\ \A p \in Clients : Created(p) => closing'[p]
  BY <1>1, CloseKeeps
<1>4. StageType'
  BY <1>1, <1>2, <1>3 DEF StageType, LobbyState
<1>5. StartedByJoin' /\ AllAreDone'
  BY <1>1, <1>2 DEF StartedByJoin, AllAreDone
<1>6. DoneIsConnected' /\ FlagFollowsWaiter'
  BY <1>1 DEF DoneIsConnected, FlagFollowsWaiter
<1>7. WaitersAreTold'
  BY <1>1, <1>2 DEF WaitersAreTold
<1>8. AllClosed'
  BY <1>1, <1>3 DEF AllClosed, Created
<1> QED
  BY <1>4, <1>5, <1>6, <1>7, <1>8

LEMMA RunLobbyStage ==
  ASSUME StageInv, NEW q \in Clients,
         OtherJoins \/ OtherMissing \/ SeesConnected(q) \/ SeesFailure(q) \/ ReadyTimeout \/ StartGame
  PROVE  StageInv'
<1> USE DEF StageInv
<1>0. closing' = closing /\ hasTurn' = hasTurn /\ connected' = connected
  BY DEF OtherJoins, OtherMissing, SeesConnected, SeesFailure, ReadyTimeout, StartGame, clientVars
<1>1. CASE OtherJoins
  <2>1. lobby = "join" /\ lobby' = "wait" /\ waiter' = [p \in Clients |-> "loop"] /\ done' = done
    BY <1>1 DEF OtherJoins
  <2>2. StageType'
    BY <1>0, <2>1 DEF StageType, LobbyState, WaiterState
  <2>3. DoneIsConnected' /\ FlagFollowsWaiter'
    BY <1>0, <2>1 DEF DoneIsConnected, FlagFollowsWaiter, StartedByJoin
  <2>4. StartedByJoin' /\ AllAreDone' /\ WaitersAreTold' /\ AllClosed'
    BY <2>1 DEF StartedByJoin, AllAreDone, WaitersAreTold, AllClosed
  <2> QED
    BY <2>2, <2>3, <2>4
<1>2. CASE OtherMissing
  <2>1. lobby = "join" /\ lobby' = "abandon" /\ waiter' = waiter /\ done' = done
    BY <1>2 DEF OtherMissing
  <2>2. StageType' /\ DoneIsConnected' /\ FlagFollowsWaiter'
    BY <1>0, <2>1 DEF StageType, LobbyState, DoneIsConnected, FlagFollowsWaiter
  <2>3. StartedByJoin' /\ AllAreDone' /\ WaitersAreTold' /\ AllClosed'
    BY <2>1 DEF StartedByJoin, AllAreDone, WaitersAreTold, AllClosed
  <2> QED
    BY <2>2, <2>3
<1>3. CASE SeesConnected(q)
  <2>1. lobby = "wait" /\ connected[q] /\ waiter' = waiter /\ canceled' = canceled
    BY <1>3 DEF SeesConnected
  <2>2. done' = [done EXCEPT ![q] = TRUE] /\ lobby' \in {"wait", "ready"}
    BY <1>3 DEF SeesConnected
  <2>3. StageType'
    BY <1>0, <2>1, <2>2 DEF StageType, LobbyState
  <2>4. DoneIsConnected'
    BY <1>0, <2>1, <2>2 DEF DoneIsConnected, StageType
  <2>5. AllAreDone'
    BY <1>3, <2>2 DEF AllAreDone, SeesConnected, AllDone
  <2>6. WaitersAreTold'
    <3> SUFFICES ASSUME lobby' = "ready", NEW p \in Clients
                 PROVE  waiter'[p] \notin {"loop", "failing"}
      BY <2>2 DEF WaitersAreTold
    <3>1. done'[p]
      BY <2>5 DEF AllAreDone
    <3> QED
      BY <3>1, <2>4 DEF DoneIsConnected
  <2>7. StartedByJoin' /\ FlagFollowsWaiter' /\ AllClosed'
    BY <1>0, <2>1, <2>2 DEF StartedByJoin, FlagFollowsWaiter, AllClosed
  <2> QED
    BY <2>3, <2>4, <2>5, <2>6, <2>7
<1>4. CASE SeesFailure(q)
  <2>1. lobby = "wait" /\ lobby' = "abandon" /\ canceled' = TRUE /\ done' = done
    BY <1>4 DEF SeesFailure
  <2>2. waiter[q] = "failing" /\ waiter' = [waiter EXCEPT ![q] = "leaving"]
    BY <1>4 DEF SeesFailure
  <2>3. StageType'
    BY <1>0, <2>1, <2>2 DEF StageType, LobbyState, WaiterState
  <2>4. DoneIsConnected' /\ FlagFollowsWaiter'
    BY <1>0, <2>1, <2>2 DEF DoneIsConnected, FlagFollowsWaiter, StageType
  <2>5. StartedByJoin' /\ AllAreDone' /\ WaitersAreTold' /\ AllClosed'
    BY <2>1 DEF StartedByJoin, AllAreDone, WaitersAreTold, AllClosed
  <2> QED
    BY <2>3, <2>4, <2>5
<1>5. CASE ReadyTimeout
  <2>1. lobby' = "abandon" /\ canceled' = TRUE /\ waiter' = waiter /\ done' = done
    BY <1>5 DEF ReadyTimeout
  <2>2. StageType' /\ DoneIsConnected' /\ FlagFollowsWaiter'
    BY <1>0, <2>1 DEF StageType, LobbyState, DoneIsConnected, FlagFollowsWaiter
  <2>3. StartedByJoin' /\ AllAreDone' /\ WaitersAreTold' /\ AllClosed'
    BY <2>1 DEF StartedByJoin, AllAreDone, WaitersAreTold, AllClosed
  <2> QED
    BY <2>2, <2>3
<1>6. CASE StartGame
  <2>1. /\ lobby = "ready" /\ lobby' = "play"
        /\ waiter' = waiter /\ done' = done /\ canceled' = canceled
    BY <1>6 DEF StartGame
  <2>2. StageType' /\ DoneIsConnected' /\ FlagFollowsWaiter'
    BY <1>0, <2>1 DEF StageType, LobbyState, DoneIsConnected, FlagFollowsWaiter
  <2>3. StartedByJoin' /\ AllAreDone' /\ WaitersAreTold' /\ AllClosed'
    BY <2>1 DEF StartedByJoin, AllAreDone, WaitersAreTold, AllClosed
  <2> QED
    BY <2>2, <2>3
<1> QED
  BY <1>1, <1>2, <1>3, <1>4, <1>5, <1>6

LEMMA WaiterStage ==
  ASSUME StageInv, NEW q \in Clients, WaitForReady(q)
  PROVE  StageInv'
<1> USE DEF StageInv
<1>1. UNCHANGED <<lobby, joined, canceled, done, closing>>
  BY DEF WaitForReady, WaiterHandles, WaiterSeesClosing, WaiterSeesCanceled, WaiterReturns, clientVars
\* Whatever the waiter does, it has been started and moves on by one state.
<1>2. CASE WaiterHandles(q)
  <2>1. PICK isReady \in BOOLEAN :
          /\ connected' = [connected EXCEPT ![q] = isReady]
          /\ waiter' = [waiter EXCEPT ![q] = IF isReady THEN "leaving" ELSE @]
    BY <1>2 DEF WaiterHandles
  <2>2. waiter[q] = "loop" /\ ~connected[q] /\ ~done[q] /\ hasTurn' = hasTurn
    BY <1>2 DEF WaiterHandles, DoneIsConnected
  <2>3. StageType'
    BY <1>1, <2>1, <2>2 DEF StageType, WaiterState
  <2>4. /\ waiter'[q] \in {"loop", "leaving"} /\ (connected'[q] => waiter'[q] = "leaving")
        /\ \A p \in Clients \ {q} : waiter'[p] = waiter[p] /\ connected'[p] = connected[p]
    BY <2>1, <2>2 DEF StageType
  <2>5. DoneIsConnected'
    BY <1>1, <2>2, <2>4 DEF DoneIsConnected
  <2>6. FlagFollowsWaiter'
    BY <2>2, <2>4 DEF FlagFollowsWaiter
  <2>7. StartedByJoin' /\ AllAreDone' /\ WaitersAreTold' /\ AllClosed'
    BY <1>1, <2>2, <2>4 DEF StartedByJoin, AllAreDone, WaitersAreTold, AllClosed, Created
  <2> QED
    BY <2>3, <2>5, <2>6, <2>7
<1>3. CASE WaiterSeesClosing(q) \/ WaiterSeesCanceled(q)
  <2>1. /\ waiter[q] \in {"loop", "failing"} /\ waiter'[q] \in {"failing", "leaving"}
        /\ \A p \in Clients \ {q} : waiter'[p] = waiter[p]
        /\ waiter' \in [Clients -> WaiterState]
    BY <1>3 DEF WaiterSeesClosing, WaiterSeesCanceled, HearsCanceled, StageType, WaiterState
  <2>2. connected' = connected /\ hasTurn' = hasTurn
    BY <1>3 DEF WaiterSeesClosing, WaiterSeesCanceled, clientVars
  <2>3. StageType'
    BY <1>1, <2>1, <2>2 DEF StageType
  <2>4. DoneIsConnected' /\ FlagFollowsWaiter'
    BY <1>1, <2>1, <2>2 DEF DoneIsConnected, FlagFollowsWaiter
  <2>5. StartedByJoin' /\ AllAreDone' /\ WaitersAreTold' /\ AllClosed'
    BY <1>1, <2>1 DEF StartedByJoin, AllAreDone, WaitersAreTold, AllClosed, Created
  <2> QED
    BY <2>3, <2>4, <2>5
<1>4. CASE WaiterReturns(q)
  <2>1. /\ waiter[q] = "leaving" /\ waiter'[q] = "exited" /\ ~hasTurn'[q]
        /\ \A p \in Clients \ {q} : waiter'[p] = waiter[p] /\ (hasTurn'[p] <=> hasTurn[p])
    BY <1>4 DEF WaiterReturns, SetTurn, StageType
  <2>2. waiter' \in [Clients -> WaiterState] /\ hasTurn' \in [Clients -> BOOLEAN] /\ connected' = connected
    BY <1>4 DEF WaiterReturns, SetTurn, StageType, WaiterState
  <2>3. StageType'
    BY <1>1, <2>2 DEF StageType
  <2>4. DoneIsConnected'
    BY <1>1, <2>1, <2>2 DEF DoneIsConnected
  <2>5. FlagFollowsWaiter'
    BY <2>1 DEF FlagFollowsWaiter
  <2>6. StartedByJoin' /\ AllAreDone' /\ WaitersAreTold' /\ AllClosed'
    BY <1>1, <2>1 DEF StartedByJoin, AllAreDone, WaitersAreTold, AllClosed, Created
  <2> QED
    BY <2>3, <2>4, <2>5, <2>6
<1> QED
  BY <1>2, <1>3, <1>4 DEF WaitForReady

LEMMA StageInvariant == Spec => []StageInv
<1>1. StageInv /\ [Next]_vars => StageInv'
  <2> SUFFICES ASSUME StageInv, [Next]_vars PROVE StageInv'
    OBVIOUS
  <2>1. CASE TimePasses \/ Finished
    <3>1. "first" \in Clients
      BY TwoClientsAssumption
    <3> QED
      BY <2>1, <3>1, EnvironmentStage
  <2>2. CASE \E p \in Clients : (\E variant \in Variant : PlayerSends(p, variant)) \/ ReaderStep(p)
    BY <2>2, EnvironmentStage
  <2>3. CASE ServerCloses \/ GameOver \/ AbandonConnecting
    BY <2>3, ClosingStage
  <2>4. CASE OtherJoins \/ OtherMissing \/ ReadyTimeout \/ StartGame
    <3>1. "first" \in Clients
      BY TwoClientsAssumption
    <3> QED
      BY <2>4, <3>1, RunLobbyStage
  <2>5. CASE \E p \in Clients : SeesConnected(p) \/ SeesFailure(p)
    BY <2>5, RunLobbyStage
  <2>6. CASE \E p \in Clients : WaitForReady(p)
    BY <2>6, WaiterStage
  <2>7. CASE UNCHANGED vars
    BY <2>7 DEF StageInv, StageType, StartedByJoin, DoneIsConnected, AllAreDone, WaitersAreTold,
                FlagFollowsWaiter, AllClosed, Created, vars, clientVars, lobbyVars
  <2> QED
    BY <2>1, <2>2, <2>3, <2>4, <2>5, <2>6, <2>7 DEF Next, RunLobby
<1> QED
  BY <1>1, InitStage, PTL DEF Spec
-----------------------------------------------------------------------------
\* A game starts with two players that are ready, and no waiter of the lobby
\* takes messages from it.
THEOREM AlwaysReadyBeforePlay == Spec => []ReadyBeforePlay
<1>1. StageInv => ReadyBeforePlay
  BY DEF StageInv, AllAreDone, DoneIsConnected, ReadyBeforePlay
<1> QED
  BY <1>1, StageInvariant, PTL

\* None of the queues on a message's way, nor the hands of a readingLoop,
\* ever hold more than they may.
QueueInv ==
  /\ consumed \in [Clients -> Seq(Message)]
  /\ held \in [Clients -> Seq(Message)]
  /\ incoming \in [Clients -> Seq(Message)]
  /\ \A p \in Clients : Len(held[p]) <= 1 /\ Len(consumed[p]) <= BufferLimit
                        /\ Len(incoming[p]) <= MessageLimit
  /\ sent \in 0..MaxSent

\* A new queue of one client.
LEMMA QueueUpdate ==
  ASSUME NEW queues \in [Clients -> Seq(Message)], NEW limit \in Nat,
         \A p \in Clients : Len(queues[p]) <= limit,
         NEW p \in Clients, NEW queue \in Seq(Message), Len(queue) <= limit
  PROVE  /\ [queues EXCEPT ![p] = queue] \in [Clients -> Seq(Message)]
         /\ \A q \in Clients : Len([queues EXCEPT ![p] = queue][q]) <= limit
OBVIOUS

LEMMA AppendUpdate ==
  ASSUME NEW queues \in [Clients -> Seq(Message)], NEW limit \in Nat,
         \A p \in Clients : Len(queues[p]) <= limit,
         NEW p \in Clients, NEW msg \in Message, Len(queues[p]) < limit
  PROVE  /\ [queues EXCEPT ![p] = Append(@, msg)] \in [Clients -> Seq(Message)]
         /\ \A q \in Clients : Len([queues EXCEPT ![p] = Append(@, msg)][q]) <= limit
<1>1. queues[p] \in Seq(Message)
  OBVIOUS
<1>2. /\ Append(queues[p], msg) \in Seq(Message)
      /\ Len(Append(queues[p], msg)) = Len(queues[p]) + 1 /\ Len(queues[p]) \in Nat
  BY <1>1
<1>3. Len(Append(queues[p], msg)) <= limit
  BY <1>2
<1> QED
  BY <1>2, <1>3, QueueUpdate

LEMMA TailUpdate ==
  ASSUME NEW queues \in [Clients -> Seq(Message)], NEW limit \in Nat,
         \A p \in Clients : Len(queues[p]) <= limit,
         NEW p \in Clients, queues[p] # <<>>
  PROVE  /\ Head(queues[p]) \in Message
         /\ [queues EXCEPT ![p] = Tail(@)] \in [Clients -> Seq(Message)]
         /\ \A q \in Clients : Len([queues EXCEPT ![p] = Tail(@)][q]) <= limit
<1>1. queues[p] \in Seq(Message) /\ Len(queues[p]) <= limit
  OBVIOUS
<1>2. /\ Head(queues[p]) \in Message /\ Tail(queues[p]) \in Seq(Message)
      /\ Len(Tail(queues[p])) = Len(queues[p]) - 1 /\ Len(queues[p]) \in Nat
  BY <1>1
<1>3. Len(Tail(queues[p])) <= limit
  BY <1>1, <1>2
<1> QED
  BY <1>2, <1>3, QueueUpdate

LEMMA SmallQueues ==
  /\ <<>> \in Seq(Message) /\ Len(<<>>) = 0
  /\ \A msg \in Message : <<msg>> \in Seq(Message) /\ Len(<<msg>>) = 1
OBVIOUS

LEMMA Limits ==
  /\ BufferLimit \in Nat /\ 0 <= BufferLimit
  /\ MessageLimit \in Nat /\ 0 <= MessageLimit
BY BufferAssumption, MessageAssumption

LEMMA ArriveQueue ==
  ASSUME QueueInv, NEW p \in Clients, NEW msg \in Message, Arrive(p, msg), sent' \in 0..MaxSent
  PROVE  QueueInv'
<1>1. UNCHANGED <<held, incoming>>
  BY DEF Arrive
<1>2. CASE UNCHANGED consumed
  BY <1>1, <1>2 DEF QueueInv
<1>3. CASE /\ Len(consumed[p]) < BufferLimit
           /\ consumed' = [consumed EXCEPT ![p] = Append(@, msg)]
  <2>1. /\ consumed' \in [Clients -> Seq(Message)]
        /\ \A q \in Clients : Len(consumed'[q]) <= BufferLimit
    BY <1>3, Limits, AppendUpdate DEF QueueInv
  <2> QED
    BY <1>1, <2>1 DEF QueueInv
<1> QED
  BY <1>2, <1>3 DEF Arrive

LEMMA ReaderQueue ==
  ASSUME QueueInv, NEW p \in Clients, Take(p) \/ Admit(p) \/ ReaderReturns(p), sent' = sent
  PROVE  QueueInv'
<1> USE DEF QueueInv
<1>1. CASE Take(p)
  <2> DEFINE hld == IF MayPass(p, Head(consumed[p])) THEN <<Head(consumed[p])>> ELSE <<>>
  <2>1. /\ Head(consumed[p]) \in Message
        /\ consumed' \in [Clients -> Seq(Message)]
        /\ \A q \in Clients : Len(consumed'[q]) <= BufferLimit
    BY <1>1, Limits, TailUpdate DEF Take
  <2>2. hld \in Seq(Message) /\ Len(hld) <= 1
    BY <2>1, SmallQueues
  <2>3. held' = [held EXCEPT ![p] = hld] /\ UNCHANGED incoming
    BY <1>1 DEF Take
  <2> HIDE DEF hld
  <2>4. /\ held' \in [Clients -> Seq(Message)]
        /\ \A q \in Clients : Len(held'[q]) <= 1
    BY <2>2, <2>3, QueueUpdate
  <2> QED
    BY <2>1, <2>3, <2>4
<1>2. CASE Admit(p)
  <2>1. held[p] # <<>> /\ held' = [held EXCEPT ![p] = <<>>] /\ UNCHANGED consumed
    BY <1>2 DEF Admit
  <2>2. /\ held' \in [Clients -> Seq(Message)]
        /\ \A q \in Clients : Len(held'[q]) <= 1
    BY <2>1, SmallQueues, QueueUpdate
  <2>3. Head(held[p]) \in Message
    BY <2>1
  <2>4. /\ incoming' \in [Clients -> Seq(Message)]
        /\ \A q \in Clients : Len(incoming'[q]) <= MessageLimit
    <3>1. CASE Len(incoming[p]) < MessageLimit
      BY <1>2, <2>3, <3>1, Limits, AppendUpdate DEF Admit, Enqueue
    <3>2. CASE ~(Len(incoming[p]) < MessageLimit)
      BY <1>2, <3>2 DEF Admit
    <3> QED
      BY <3>1, <3>2
  <2> QED
    BY <2>1, <2>2, <2>4
<1>3. CASE ReaderReturns(p)
  <2>1. consumed' = [consumed EXCEPT ![p] = <<>>] /\ UNCHANGED <<held, incoming>>
    BY <1>3 DEF ReaderReturns
  <2>2. /\ consumed' \in [Clients -> Seq(Message)]
        /\ \A q \in Clients : Len(consumed'[q]) <= BufferLimit
    BY <2>1, SmallQueues, Limits, QueueUpdate
  <2> QED
    BY <2>1, <2>2
<1> QED
  BY <1>1, <1>2, <1>3

\* What a waiter handles is a message, and leaves one fewer.
LEMMA WaiterQueue ==
  ASSUME QueueInv, NEW p \in Clients, WaiterHandles(p)
  PROVE  QueueInv' /\ Head(incoming[p]) \in Message
<1>1. UNCHANGED <<consumed, held, sent>>
  BY DEF WaiterHandles
<1>2. /\ Head(incoming[p]) \in Message
      /\ incoming' \in [Clients -> Seq(Message)]
      /\ \A q \in Clients : Len(incoming'[q]) <= MessageLimit
  BY Limits, TailUpdate DEF QueueInv, WaiterHandles, Received
<1> QED
  BY <1>1, <1>2 DEF QueueInv

LEMMA QueueInvariant == Spec => []QueueInv
<1>1. Init => QueueInv
  <2> SUFFICES ASSUME Init PROVE QueueInv
    OBVIOUS
  <2>1. /\ consumed = [p \in Clients |-> <<>>] /\ held = [p \in Clients |-> <<>>]
        /\ incoming = [p \in Clients |-> <<>>] /\ sent = 0
    BY DEF Init, ClientInit
  <2> QED
    BY <2>1, Limits, MaxSentAssumption DEF QueueInv
<1>2. QueueInv /\ [Next]_vars => QueueInv'
  <2> SUFFICES ASSUME QueueInv, [Next]_vars PROVE QueueInv'
    OBVIOUS
  <2>1. CASE UNCHANGED <<consumed, held, incoming, sent>>
    BY <2>1 DEF QueueInv
  <2>2. ASSUME NEW p \in Clients, NEW variant \in Variant, PlayerSends(p, variant)
        PROVE  QueueInv'
    <3>1. sent' \in 0..MaxSent
      BY <2>2, MaxSentAssumption DEF PlayerSends, QueueInv
    <3>2. [variant |-> variant, no |-> IF variant = "pick" THEN sent' ELSE 0] \in Message
      BY <3>1, MaxSentAssumption DEF Message
    <3> QED
      BY <2>2, <3>1, <3>2, ArriveQueue DEF PlayerSends
  <2>3. ASSUME NEW p \in Clients, ReaderStep(p)
        PROVE  QueueInv'
    BY <2>3, ReaderQueue DEF ReaderStep, lobbyVars
  <2>4. ASSUME NEW p \in Clients, WaiterHandles(p)
        PROVE  QueueInv'
    BY <2>4, WaiterQueue
  <2>5. ASSUME NEW p \in Clients,
               \/ SeesConnected(p) \/ SeesFailure(p)
               \/ WaiterSeesClosing(p) \/ WaiterSeesCanceled(p) \/ WaiterReturns(p)
        PROVE  UNCHANGED <<consumed, held, incoming, sent>>
    BY <2>5 DEF SeesConnected, SeesFailure, WaiterSeesClosing, WaiterSeesCanceled, WaiterReturns,
                clientVars
  <2>6. ASSUME \/ OtherJoins \/ OtherMissing \/ ReadyTimeout \/ GameOver
               \/ AbandonConnecting \/ TimePasses \/ ServerCloses \/ Finished \/ UNCHANGED vars
        PROVE  UNCHANGED <<consumed, held, incoming, sent>>
    BY <2>6 DEF OtherJoins, OtherMissing, ReadyTimeout, GameOver, AbandonConnecting,
                TimePasses, ServerCloses, Finished, vars, clientVars, lobbyVars
  <2>7. CASE StartGame
    <3>1. UNCHANGED <<consumed, held, sent>> /\ incoming' = [p \in Clients |-> <<>>]
      BY <2>7 DEF StartGame, DrainMessages
    <3> QED
      BY <3>1, Limits DEF QueueInv
  <2> QED
    BY <2>1, <2>2, <2>3, <2>4, <2>5, <2>6, <2>7 DEF Next, RunLobby, WaitForReady
<1> QED
  BY <1>1, <1>2, PTL DEF Spec

\* The queues of the clients keep within their capacities, a dice set comes
\* from a pick that was sent, and every goroutine is at a place there is.
THEOREM TypeCorrect == Spec => []TypeOK
<1> DEFINE Rest == /\ joined \in BOOLEAN /\ canceled \in BOOLEAN
                   /\ late \in BOOLEAN /\ played \in BOOLEAN
                   /\ diceSet \in [Clients -> 0..MaxSent]
                   /\ reported \in {"none", "nil", "error"}
<1>1. Init => Rest
  <2> SUFFICES ASSUME Init PROVE Rest
    OBVIOUS
  <2>1. joined = FALSE /\ canceled = FALSE /\ late = FALSE /\ played = FALSE /\ reported = "none"
    BY DEF Init
  <2>2. 0 \in 0..MaxSent /\ diceSet = [p \in Clients |-> 0]
    BY MaxSentAssumption DEF Init
  <2>3. diceSet \in [Clients -> 0..MaxSent]
    BY <2>2
  <2> QED
    BY <2>1, <2>3
<1>2. QueueInv /\ Rest /\ [Next]_vars => Rest'
  <2> SUFFICES ASSUME QueueInv, Rest, [Next]_vars PROVE Rest'
    OBVIOUS
  <2>1. ASSUME NEW p \in Clients, WaiterHandles(p)
        PROVE  Rest'
    <3>1. Head(incoming[p]).no \in 0..MaxSent
      BY <2>1, WaiterQueue DEF Message
    <3>2. UNCHANGED <<joined, canceled, late, reported, played>>
      BY <2>1 DEF WaiterHandles
    <3>3. diceSet' \in [Clients -> 0..MaxSent]
      BY <2>1, <3>1 DEF WaiterHandles
    <3> QED
      BY <3>2, <3>3
  <2>2. ASSUME NEW p \in Clients,
               \/ SeesConnected(p) \/ SeesFailure(p)
               \/ WaiterSeesClosing(p) \/ WaiterSeesCanceled(p) \/ WaiterReturns(p)
               \/ (\E variant \in Variant : PlayerSends(p, variant)) \/ ReaderStep(p)
        PROVE  Rest'
    BY <2>2 DEF SeesConnected, SeesFailure, WaiterSeesClosing, WaiterSeesCanceled, WaiterReturns,
                PlayerSends, ReaderStep, lobbyVars
  <2>3. CASE OtherJoins \/ OtherMissing \/ ReadyTimeout \/ StartGame \/ GameOver \/ AbandonConnecting
    BY <2>3 DEF OtherJoins, OtherMissing, ReadyTimeout, StartGame, GameOver, AbandonConnecting
  <2>4. CASE TimePasses \/ ServerCloses \/ Finished \/ UNCHANGED vars
    BY <2>4 DEF TimePasses, ServerCloses, Finished, vars, lobbyVars
  <2> QED
    BY <2>1, <2>2, <2>3, <2>4 DEF Next, RunLobby, WaitForReady
<1>3. StageInv /\ QueueInv /\ Rest => TypeOK
  <2> SUFFICES ASSUME StageInv, QueueInv, Rest PROVE TypeOK
    OBVIOUS
  <2>1. /\ lobby \in LobbyState /\ waiter \in [Clients -> WaiterState]
        /\ connected \in [Clients -> BOOLEAN] /\ done \in [Clients -> BOOLEAN]
        /\ closing \in [Clients -> BOOLEAN] /\ hasTurn \in [Clients -> BOOLEAN]
    BY DEF StageInv, StageType
  <2>2. /\ sent \in 0..MaxSent
        /\ \A p \in Clients : Len(consumed[p]) <= BufferLimit /\ Len(incoming[p]) <= MessageLimit
    BY DEF QueueInv
  <2> QED
    BY <2>1, <2>2 DEF TypeOK
<1> HIDE DEF Rest
<1> QED
  BY <1>1, <1>2, <1>3, StageInvariant, QueueInvariant, PTL DEF Spec

\* The game is handed the clients as FarklePlay expects them: nothing left to
\* receive, the queues before it within their bounds, and the turn flag up
\* exactly where a waiter has yet to lower it.
THEOREM AlwaysHandsOverClients == Spec => HandsOverClients
<1>1. StageInv /\ StageInv' /\ QueueInv /\ [Next]_vars
        => (StartGame => HandedOver([p \in Clients |-> waiter[p] = "exited"])')
  <2> SUFFICES ASSUME StageInv', QueueInv, StartGame, NEW p \in Clients
               PROVE  /\ incoming'[p] = <<>>
                      /\ Len(held'[p]) <= 1 /\ Len(consumed'[p]) <= BufferLimit
                      /\ hasTurn'[p] <=> ~(waiter'[p] = "exited")
    BY DEF HandedOver
  <2>1. UNCHANGED <<consumed, held>> /\ incoming'[p] = <<>>
    BY DEF StartGame, DrainMessages
  <2>2. Len(held'[p]) <= 1 /\ Len(consumed'[p]) <= BufferLimit
    BY <2>1 DEF QueueInv
  <2>3. hasTurn'[p] <=> ~(waiter'[p] = "exited")
    BY DEF StageInv, FlagFollowsWaiter
  <2> QED
    BY <2>1, <2>2, <2>3
<1> QED
  BY <1>1, StageInvariant, QueueInvariant, PTL DEF Spec, HandsOverClients

\* However a lobby ends, its clients are closed and its waiters are told.
THEOREM AlwaysClosedBehind == Spec => []ClosedBehind
<1>1. StageInv => ClosedBehind
  BY DEF StageInv, AllClosed, WaitersAreTold, ClosedBehind
<1> QED
  BY <1>1, StageInvariant, PTL

\* No late pick replaces the dice of a game that plays.
THEOREM DiceAreSettled == Spec => DiceSettled
<1>1. StageInv /\ [Next]_vars => (lobby = "play" => diceSet' = diceSet)
  <2> SUFFICES ASSUME StageInv, [Next]_vars, lobby = "play"
               PROVE  diceSet' = diceSet
    OBVIOUS
  <2>1. \A p \in Clients : ~WaiterHandles(p)
    BY DEF StageInv, AllAreDone, DoneIsConnected, WaiterHandles
  <2>2. CASE \E p \in Clients : WaitForReady(p)
    BY <2>1, <2>2 DEF WaitForReady, WaiterSeesClosing, WaiterSeesCanceled, WaiterReturns
  <2>3. CASE RunLobby \/ OtherJoins \/ GameOver \/ TimePasses \/ ServerCloses \/ Finished \/ UNCHANGED vars
    BY <2>3 DEF RunLobby, OtherMissing, SeesConnected, SeesFailure, ReadyTimeout, StartGame,
                AbandonConnecting, OtherJoins, GameOver, TimePasses, ServerCloses, Finished, vars, lobbyVars
  <2>4. CASE \E p \in Clients : (\E variant \in Variant : PlayerSends(p, variant)) \/ ReaderStep(p)
    BY <2>4 DEF PlayerSends, ReaderStep, lobbyVars
  <2> QED
    BY <2>2, <2>3, <2>4 DEF Next
<1> QED
  BY <1>1, StageInvariant, PTL DEF Spec, DiceSettled
==============================================================================
