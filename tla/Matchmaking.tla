----------------------------- MODULE Matchmaking -----------------------------
(***************************************************************************)
(* How players get into games: the create and join handlers of             *)
(* game-master/main.go, the queues of connect/queue.go between them, and   *)
(* the game servers' side, workerLoop and waitForOtherPlayer.  A create    *)
(* request is named after the game it makes.  The queues here lose only    *)
(* what the broker drops by their declarations; what the library may lose  *)
(* on its way to the broker is the subject of module Queue.  Game servers  *)
(* crash; the game master, which keeps nothing but its handlers, does not. *)
(***************************************************************************)
EXTENDS Naturals, Sequences, FiniteSets

CONSTANTS Game,         \* create requests
          MaxJoins,     \* bound: join requests, numbered in the order of their start
          Stray,        \* game names that are never created, but may be asked for
          Server,
          Host,         \* the user who creates a game; a joining user is its join
          None,
          MaxFaults     \* bound: crashes, broken connections and stopped workers

Join == 1..MaxJoins

ASSUME NamesAssumption ==
  /\ Host \notin Join /\ None \notin Game \cup Stray \cup Server \cup Join
  /\ Game \cap (Join \cup Stray) = {}
ASSUME BoundsAssumption == MaxJoins \in Nat /\ MaxFaults \in Nat

Request == Game \cup Join

VARIABLES stage,        \* how far the handler of a request is
          target,       \* the game a join asks for
          listener,     \* the handler's consumer, see ListenerState
          answer,       \* what the handler sends back
          met,          \* history: the joins that were in a join's company, see AnswersFit
          createQueue,  \* CreateLobbyQueue
          mail,         \* the temporary queues
          worker,       \* where workerLoop stands on each server, and with which message
          unacked,      \* the create message each server has and has not acknowledged
          redelivered,  \* history: how often a create message went back to the queue
          lobby,        \* the runs of startLobby for each game, in the order of their start
          seats,        \* the registry: the users each server knows in each game, if any
          replaced,     \* history: where an entry of the registry was overwritten
          faults

masterVars == <<stage, target, listener, answer, met>>
brokerVars == <<createQueue, mail>>
workerVars == <<worker, unacked, redelivered>>
lobbyVars == <<lobby, seats, replaced>>
vars == <<masterVars, brokerVars, workerVars, lobbyVars, faults>>

\* A "closing" consumer may still be handed messages.
ListenerState == {"none", "starting", "on", "closing"}

\* "holding" has received a message, "started" has started its lobby.
WorkerState == {"ready", "holding", "started", "gone"}

\* "announced" has sent the acceptance, "waiting" has its first client and waits
\* for the other player, "listening" does so with its consumer subscribed,
\* "seating" has created the other client, "full" has sent the answer.
\* "registering" and "joining" have looked for the game in vain, to create the
\* first and the other client.  A lobby that crashes before its announcement is
\* "returned" if its request goes back to the queue with that, and "lost" if not.
LobbyState == {"starting", "announced", "registering", "waiting", "listening", "joining",
               "seating", "full", "over", "crashed", "lost", "returned"}

User == Join \cup {Host}
JoinRequest == [user : Join]
Answer == [game : Game, server : Server, user : User]
Name == Game \cup Stray
Box == {"accept", "join", "joined"} \X Name

TypeOK ==
  /\ stage \in [Request -> {"idle", "asked", "answered"}]
  /\ target \in [Join -> Name \cup {None}]
  /\ listener \in [Request -> ListenerState]
  /\ \A r \in Request : answer[r] = None \/ answer[r] \in Answer
  /\ met \in [Join -> SUBSET Join]
  /\ \A i \in DOMAIN createQueue : createQueue[i] \in Game
  /\ DOMAIN mail = Box
  /\ \A b \in Box : \A i \in DOMAIN mail[b] :
       mail[b][i] \in IF b[1] = "join" THEN JoinRequest ELSE Answer
  /\ worker \in [Server -> [at : WorkerState, game : Game \cup {None}]]
  /\ unacked \in [Server -> Game \cup {None}]
  /\ redelivered \in [Game -> 0..MaxFaults]
  /\ \A g \in Game : \A i \in DOMAIN lobby[g] :
       lobby[g][i] \in [state : LobbyState, server : Server, guest : Join \cup {None}]
  /\ seats \in [Server -> [Game -> SUBSET User]]
  /\ replaced \subseteq Server \X Game
  /\ faults \in 0..MaxFaults

(***************************************************************************)
(* Mutants: what a plausible bug would make of the definition that is      *)
(* named in each comment.  Nothing uses them; a property is trusted only   *)
(* after it has been seen to fail with one of them in that place.          *)
(***************************************************************************)
OneJoinedBox(g) == <<"joined", CHOOSE g1 \in Name : TRUE>>           \* JoinedBox

AckedByBroker(g) == None                                            \* KeptFor

RequeuedByWorker(g) == <<g>>                                        \* LeftBehind

ListensOn == "listening"                                            \* AfterAnswer

NotRegistered(s, g, u) == seats[s][g]                               \* GetClient

OfUser(r, a) == a.user = r                                          \* Accepts

OfHost(r, a) == a.user = Host                                       \* Accepts
-----------------------------------------------------------------------------
Init ==
  /\ stage = [r \in Request |-> "idle"]
  /\ target = [j \in Join |-> None]
  /\ listener = [r \in Request |-> "none"]
  /\ answer = [r \in Request |-> None]
  /\ met = [j \in Join |-> {}]
  /\ createQueue = <<>>
  /\ mail = [b \in Box |-> <<>>]
  /\ worker = [s \in Server |-> [at |-> "ready", game |-> None]]
  /\ unacked = [s \in Server |-> None]
  /\ redelivered = [g \in Game |-> 0]
  /\ lobby = [g \in Game |-> <<>>]
  /\ seats = [s \in Server |-> [g \in Game |-> {}]]
  /\ replaced = {}
  /\ faults = 0

\* The names of AcceptLobbyQueue, JoinLobbyQueue and JoinedLobbyQueue.
AcceptBox(g) == <<"accept", g>>
JoinBox(g) == <<"join", g>>
JoinedBox(g) == <<"joined", g>>
ReplyBox(r) == IF r \in Game THEN AcceptBox(r) ELSE JoinedBox(target[r])

Post(b, msg) == mail' = [mail EXCEPT ![b] = Append(@, msg)]
Drop(b) == mail' = [mail EXCEPT ![b] = Tail(@)]
-----------------------------------------------------------------------------
(***************************************************************************)
(* The game master: one handler per request.                               *)
(***************************************************************************)
Ask(r) ==
  /\ stage[r] = "idle"
  /\ stage' = [stage EXCEPT ![r] = "asked"]
  /\ listener' = [listener EXCEPT ![r] = "starting"]
  /\ UNCHANGED <<answer, workerVars, lobbyVars, faults>>

\* createGameFarkle publishes its request.
AskCreate(g) ==
  /\ Ask(g)
  /\ createQueue' = Append(createQueue, g)
  /\ UNCHANGED <<target, met, mail>>

\* joinGameFarkle publishes its request, for any game that a URL may name: one
\* whose host has been told its name, or none.
AskJoin(j) ==
  LET Rivals(g) == {k \in Join : stage[k] = "asked" /\ target[k] = g}
      Company(g) == Rivals(g) \cup UNION {met[k] : k \in Rivals(g)}
  IN /\ Ask(j)
     /\ \A k \in 1..(j - 1) : stage[k] # "idle"
     /\ \E g \in Stray \cup {g \in Game : answer[g] # None} :
          /\ target' = [target EXCEPT ![j] = g]
          /\ met' = [k \in Join |-> IF k = j THEN Company(g)
                                   ELSE IF k \in Rivals(g) THEN met[k] \cup {j} ELSE met[k]]
          /\ Post(JoinBox(g), [user |-> j])
     /\ UNCHANGED createQueue

\* The consumer, which runs beside the handler, is subscribed at last.
Subscribe(r) ==
  /\ listener[r] = "starting"
  /\ listener' = [listener EXCEPT ![r] = "on"]
  /\ UNCHANGED <<stage, target, answer, met, brokerVars, workerVars, lobbyVars, faults>>

\* Only a create request looks at what it is sent.
Accepts(r, a) == r \in Game => a.game = r

Receive(r) ==
  LET b == ReplyBox(r)
  IN /\ stage[r] = "asked" /\ listener[r] = "on"
     /\ mail[b] # <<>>
     /\ IF Accepts(r, Head(mail[b]))
        THEN /\ answer' = [answer EXCEPT ![r] = Head(mail[b])]
             /\ stage' = [stage EXCEPT ![r] = "answered"]
             /\ listener' = [listener EXCEPT ![r] = "closing"]
        ELSE UNCHANGED <<answer, stage, listener>>
     /\ Drop(b)
     /\ UNCHANGED <<target, met, createQueue, workerVars, lobbyVars, faults>>

\* The broker acknowledges by itself what it hands to a consumer that is
\* closing, or is stuck with a message nobody receives.
Swallow(r) ==
  /\ listener[r] = "closing"
  /\ mail[ReplyBox(r)] # <<>>
  /\ Drop(ReplyBox(r))
  /\ UNCHANGED <<masterVars, createQueue, workerVars, lobbyVars, faults>>
-----------------------------------------------------------------------------
(***************************************************************************)
(* workerLoop of a game server, with QoS 1 and acknowledgements by hand.   *)
(***************************************************************************)
\* What the broker keeps for the server until it acknowledges.
KeptFor(g) == g

TakeCreate(s) ==
  /\ worker[s].at = "ready" /\ unacked[s] = None
  /\ createQueue # <<>>
  /\ createQueue' = Tail(createQueue)
  /\ worker' = [worker EXCEPT ![s] = [at |-> "holding", game |-> Head(createQueue)]]
  /\ unacked' = [unacked EXCEPT ![s] = KeptFor(Head(createQueue))]
  /\ UNCHANGED <<masterVars, mail, redelivered, lobbyVars, faults>>

\* attemptLobby starts the goroutine of startLobby.
AttemptLobby(s) ==
  /\ worker[s].at = "holding"
  /\ worker' = [worker EXCEPT ![s].at = "started"]
  /\ lobby' = [lobby EXCEPT ![worker[s].game] =
                 Append(@, [state |-> "starting", server |-> s, guest |-> None])]
  /\ UNCHANGED <<masterVars, brokerVars, unacked, redelivered, seats, replaced, faults>>

LeftBehind(g) == <<>>

\* An acknowledgement over a broken connection fails, which ends the worker,
\* unless the library has not noticed yet.
Ack(s) ==
  /\ worker[s].at = "started"
  /\ \E at \in IF unacked[s] = None THEN {"ready", "gone"} ELSE {"ready"} :
       worker' = [worker EXCEPT ![s] = [at |-> at, game |-> None]]
  /\ unacked' = [unacked EXCEPT ![s] = None]
  /\ createQueue' = createQueue \o LeftBehind(worker[s].game)
  /\ UNCHANGED <<masterVars, mail, redelivered, lobbyVars, faults>>
-----------------------------------------------------------------------------
(***************************************************************************)
(* startLobby, and runLobby as far as the queues and the registry see it.  *)
(***************************************************************************)
In(g, i, state) == i \in DOMAIN lobby[g] /\ lobby[g][i].state = state

GoesTo(g, i, state) == lobby' = [lobby EXCEPT ![g][i].state = state]

\* The acceptance is sent before the game is registered.
Announce(g, i) ==
  /\ In(g, i, "starting")
  /\ GoesTo(g, i, "announced")
  /\ Post(AcceptBox(g), [game |-> g, server |-> lobby[g][i].server, user |-> Host])
  /\ UNCHANGED <<masterVars, createQueue, workerVars, seats, replaced, faults>>

\* A game that has users is in the registry.  GetClient adds one, unless it
\* finds no game; then it stores a new one later, without looking again.
GetClient(s, g, u) == IF seats[s][g] = {} THEN {} ELSE seats[s][g] \cup {u}

AfterLookup(s, g, found, absent) == IF seats[s][g] = {} THEN absent ELSE found

\* The first client.
Register(g, i) ==
  LET s == lobby[g][i].server
  IN /\ In(g, i, "announced")
     /\ GoesTo(g, i, AfterLookup(s, g, "waiting", "registering"))
     /\ seats' = [seats EXCEPT ![s][g] = GetClient(s, g, Host)]
     /\ UNCHANGED <<masterVars, brokerVars, workerVars, replaced, faults>>

\* The second half of getOrCreateGame, with the user's client: whatever game has
\* been stored since the lookup is overwritten.
StoreGame(g, i) ==
  LET s == lobby[g][i].server
      u == IF lobby[g][i].state = "registering" THEN Host ELSE lobby[g][i].guest
  IN /\ \/ In(g, i, "registering") /\ GoesTo(g, i, "waiting")
        \/ In(g, i, "joining") /\ GoesTo(g, i, "seating")
     /\ seats' = [seats EXCEPT ![s][g] = {u}]
     /\ replaced' = IF seats[s][g] = {} THEN replaced ELSE replaced \cup {<<s, g>>}
     /\ UNCHANGED <<masterVars, brokerVars, workerVars, faults>>

\* The consumer of waitForOtherPlayer, which runs beside it, is subscribed.
Listen(g, i) ==
  /\ In(g, i, "waiting")
  /\ GoesTo(g, i, "listening")
  /\ UNCHANGED <<masterVars, brokerVars, workerVars, seats, replaced, faults>>

TakeJoin(g, i) ==
  LET s == lobby[g][i].server
      j == Head(mail[JoinBox(g)]).user
  IN /\ In(g, i, "listening")
     /\ mail[JoinBox(g)] # <<>>
     /\ Drop(JoinBox(g))
     /\ lobby' = [lobby EXCEPT ![g][i] =
                    [@ EXCEPT !.state = AfterLookup(s, g, "seating", "joining"), !.guest = j]]
     /\ seats' = [seats EXCEPT ![s][g] = GetClient(s, g, j)]
     /\ UNCHANGED <<masterVars, createQueue, workerVars, replaced, faults>>

AfterAnswer == "full"

AnswerJoin(g, i) ==
  /\ In(g, i, "seating")
  /\ GoesTo(g, i, AfterAnswer)
  /\ Post(JoinedBox(g), [game |-> g, server |-> lobby[g][i].server, user |-> lobby[g][i].guest])
  /\ UNCHANGED <<masterVars, createQueue, workerVars, seats, replaced, faults>>

\* As Swallow: what reaches the lobby's consumer behind the one join it takes.
SwallowJoin(g, i) ==
  /\ \E state \in {"joining", "seating", "full", "over"} : In(g, i, state)
  /\ mail[JoinBox(g)] # <<>>
  /\ Drop(JoinBox(g))
  /\ UNCHANGED <<masterVars, createQueue, workerVars, lobbyVars, faults>>

\* Nobody joined in time, or the game is over: CloseGame drops the game that it
\* finds then, whichever lobby stored it.
EndLobby(g, i) ==
  /\ In(g, i, "waiting") \/ In(g, i, "listening") \/ In(g, i, "full")
  /\ GoesTo(g, i, "over")
  /\ seats' = [seats EXCEPT ![lobby[g][i].server][g] = {}]
  /\ UNCHANGED <<masterVars, brokerVars, workerVars, replaced, faults>>
-----------------------------------------------------------------------------
(***************************************************************************)
(* Faults.                                                                 *)
(***************************************************************************)
\* Somebody is subscribed to a queue.
HasConsumer(b) ==
  \/ \E r \in Request : listener[r] = "on" /\ ReplyBox(r) = b
  \/ \E g \in Game : b = JoinBox(g) /\ \E i \in DOMAIN lobby[g] : In(g, i, "listening")

\* Temporary queues live ten seconds without a consumer.
Expire(b) ==
  /\ mail[b] # <<>>
  /\ ~HasConsumer(b)
  /\ mail' = [mail EXCEPT ![b] = <<>>]
  /\ UNCHANGED <<masterVars, createQueue, workerVars, lobbyVars, faults>>

\* A message that was not acknowledged returns to the head of its queue.
Redeliver(s) ==
  /\ faults < MaxFaults
  /\ faults' = faults + 1
  /\ unacked' = [unacked EXCEPT ![s] = None]
  /\ IF unacked[s] = None
     THEN UNCHANGED <<createQueue, redelivered>>
     ELSE /\ createQueue' = <<unacked[s]>> \o createQueue
          /\ redelivered' = [redelivered EXCEPT ![unacked[s]] = @ + 1]

\* The server loses its connection to the broker with a message in hand.
LoseConnection(s) ==
  /\ unacked[s] # None
  /\ Redeliver(s)
  /\ UNCHANGED <<masterVars, mail, worker, lobbyVars>>

Dead == {"over", "crashed", "lost", "returned"}

Fallen(s, g, run) ==
  IF run.server # s \/ run.state \in Dead THEN run
  ELSE [run EXCEPT !.state = IF run.state # "starting" THEN "crashed"
                             ELSE IF unacked[s] = g THEN "returned" ELSE "lost"]

\* The server's process ends, if it has anything to lose.
Crash(s) ==
  /\ \/ worker[s].at \in {"holding", "started"}
     \/ \E g \in Game : \E i \in DOMAIN lobby[g] :
          lobby[g][i].server = s /\ lobby[g][i].state \notin Dead
  /\ Redeliver(s)
  /\ worker' = [worker EXCEPT ![s] = [at |-> "gone", game |-> None]]
  /\ lobby' = [g \in Game |-> [i \in DOMAIN lobby[g] |-> Fallen(s, g, lobby[g][i])]]
  /\ seats' = [seats EXCEPT ![s] = [g \in Game |-> {}]]
  /\ UNCHANGED <<masterVars, mail, replaced>>
-----------------------------------------------------------------------------
Handler(r) == Subscribe(r) \/ Receive(r)

WorkerLoop(s) == TakeCreate(s) \/ AttemptLobby(s) \/ Ack(s)

StartLobby(g, i) ==
  \/ Announce(g, i) \/ Register(g, i) \/ StoreGame(g, i)
  \/ Listen(g, i) \/ TakeJoin(g, i) \/ AnswerJoin(g, i)

\* Handlers wait without time-out, and servers for ever: nothing need happen.
Idle == UNCHANGED vars

Next ==
  \/ \E g \in Game : AskCreate(g)
  \/ \E j \in Join : AskJoin(j)
  \/ \E r \in Request : Handler(r) \/ Swallow(r)
  \/ \E s \in Server : WorkerLoop(s) \/ LoseConnection(s) \/ Crash(s)
  \/ \E g \in Game : \E i \in DOMAIN lobby[g] :
       StartLobby(g, i) \/ SwallowJoin(g, i) \/ EndLobby(g, i)
  \/ \E b \in Box : Expire(b)
  \/ Idle

Spec == Init /\ [][Next]_vars

\* Goroutines that can run do; what they owe after a fault is not asked.  To ask it
\* of some handler, some worker and some lobby is enough, for none of them has
\* steps without end.
FairSpec ==
  /\ Spec
  /\ WF_vars(faults = 0 /\ \E r \in Request : Handler(r))
  /\ WF_vars(faults = 0 /\ \E s \in Server : WorkerLoop(s))
  /\ WF_vars(faults = 0 /\ \E g \in Game : \E i \in DOMAIN lobby[g] : StartLobby(g, i))
-----------------------------------------------------------------------------
(***************************************************************************)
(* Properties.                                                             *)
(***************************************************************************)
\* Wherever a create request is or has been: in the queue, in the hands of a
\* worker that has not started its lobby, or with a lobby.
Copies(g) ==
  Cardinality({i \in DOMAIN createQueue : createQueue[i] = g})
    + Cardinality({s \in Server : worker[s] = [at |-> "holding", game |-> g]})
    + Len(lobby[g])

\* Whatever crashes or breaks, a create request is in the queue, with a worker, or
\* with a lobby that is yet to announce the game or has announced it, or else it
\* was with a lobby whose server crashed before the announcement when it had no
\* request left to acknowledge: one that was acknowledged, nobody answers.  It is in no more places than it
\* was redelivered for.
RequestAccounted ==
  \A g \in Game : stage[g] # "idle" =>
    /\ Copies(g) <= 1 + redelivered[g]
    /\ \/ \E i \in DOMAIN createQueue : createQueue[i] = g
       \/ \E s \in Server : worker[s] = [at |-> "holding", game |-> g]
       \/ \E i \in DOMAIN lobby[g] : lobby[g][i].state \notin {"lost", "returned"}
       \/ \E i \in DOMAIN lobby[g] : lobby[g][i].state = "lost"

\* A join is answered for the game it asked for, with a token of its own or of
\* a join in its company: one of the same game that waited when it came or came
\* when it waited, or was already in the company of one that did.  The joins of
\* a game share one queue for their answers, so an answer that is exchanged
\* leaves another behind for whoever comes while that one's owner still waits.
\* However they are exchanged, no two carry the same token, and they are not
\* more than the game has lobbies.
AnswersFit ==
  LET Guests(g) == {j \in Join : answer[j] # None /\ answer[j].game = g}
  IN /\ \A j \in Join : answer[j] # None =>
          answer[j].game = target[j] /\ answer[j].user \in {j} \cup met[j]
     /\ \A g \in Game : /\ Cardinality(Guests(g)) <= Len(lobby[g])
                        /\ \A j, k \in Guests(g) : j # k => answer[j].user # answer[k].user

\* A token is good for a place in the registry of the server that it names, as
\* long as no lobby of the game has ended there, and none has overwritten the
\* game's entry, having looked for it before it was there.  That takes two lobbies
\* of one game on one server, for which the request must have been redelivered.
\* The host's token is sent before the game is registered.
TokenFindsSeat ==
  /\ \A r \in Request : answer[r] # None =>
       LET a == answer[r]
       IN \/ a.user \in seats[a.server][a.game]
          \/ <<a.server, a.game>> \in replaced
          \/ \E i \in DOMAIN lobby[a.game] :
               /\ lobby[a.game][i].server = a.server
               /\ lobby[a.game][i].state \in {"over", "crashed"} \cup
                    (IF a.user = Host THEN {"announced", "registering"} ELSE {})
  /\ \A s \in Server, g \in Game : <<s, g>> \in replaced => redelivered[g] > 0

\* As long as nothing breaks, whoever creates a game gets an answer, if the
\* handler listens before the lobby starts: ten seconds later it may be too late.
\* Whoever joins a game that listens for a player, and does so alone, gets an
\* answer, unless the game is over before: a lobby may run out of time with the
\* join in its queue.
RequestsAnswered ==
  /\ \A g \in Game :
       stage[g] = "asked" /\ listener[g] = "on" /\ lobby[g] = <<>> ~> stage[g] = "answered" \/ faults > 0
  /\ \A j \in Join, g \in Game :
       /\ stage[j] = "asked" /\ listener[j] = "on"
       /\ \E n \in DOMAIN mail[JoinBox(g)] : mail[JoinBox(g)][n].user = j
       /\ \E i \in DOMAIN lobby[g] : In(g, i, "listening")
       ~>
       \/ stage[j] = "answered"
       \/ met[j] # {}
       \/ \E i \in DOMAIN lobby[g] : In(g, i, "over")
       \/ faults > 0
==============================================================================
