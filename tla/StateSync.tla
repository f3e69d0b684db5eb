------------------------------ MODULE StateSync -------------------------------
(***************************************************************************)
(* What the players are told of the game's state.  The game's goroutine    *)
(* changes the state under stateMu, part by part, and broadcasts what it   *)
(* changed after it has unlocked.  The readingLoop of a player answers     *)
(* please-sync: its handler returns game.state under the read lock, but    *)
(* CraftSyncState reads through that pointer after the lock is back, and   *)
(* the answer is sent after that.  Values are abstracted to versions: a    *)
(* part of the state carries the number of the critical section that wrote *)
(* it last.  Send drops a message when the outgoing buffer of its player   *)
(* is full, as it is sooner or later for one who is disconnected; how fast *)
(* the buffer is emptied is left open, so any Send to him may drop.        *)
(***************************************************************************)
EXTENDS Naturals, Sequences

CONSTANTS MaxWrites,  \* bound: critical sections of the game
          MaxAsked,   \* bound: please-sync messages of one player
          Asking,     \* bound: the players who send them
          Slow,       \* bound: the players whose buffer may be full
          MaxDrops    \* bound: messages that find it full

ASSUME MaxWritesAssumption == MaxWrites \in Nat
ASSUME MaxAskedAssumption == MaxAsked \in Nat
ASSUME MaxDropsAssumption == MaxDrops \in Nat

Player == 0..1
ASSUME AskingAssumption == Asking \subseteq Player

Deadline == <<"deadline">>
Current == <<"current">>
ScoresOf(p) == <<"scores", p>>
DiceOf(p) == <<"dice", p>>

\* GameState in the order in which it is marshalled.  The parts that never
\* change during a game are left out.
Fields == <<Deadline, Current, ScoresOf(0), DiceOf(0), ScoresOf(1), DiceOf(1)>>
Part == {Fields[i] : i \in DOMAIN Fields}

VARIABLES at,       \* where the game's goroutine is
          mover,    \* currentPlayerIdx
          state,    \* game.state: the version of each part
          writes,   \* critical sections so far
          said,     \* the parts in the message that is being broadcast
          to,       \* the player it goes to next; 2 when no broadcast is under way
          handler,  \* gameStateHandler is set
          asked,    \* please-sync messages the player's readingLoop has taken
          reading,  \* it answers one
          answer,   \* what it has marshalled of the state so far
          told,     \* version of each part in the last message that Send took, or 0
          crossed,  \* parts broadcast to the player while the answer was under way
          old,      \* parts he was told wrong: by such an answer, or by a drop
          drops     \* messages that found a buffer full

gameVars == <<at, mover, state, writes, said, to>>
readerVars == <<handler, asked, reading, answer>>
toldVars == <<told, crossed, old, drops>>
vars == <<gameVars, readerVars, toldVars>>

TypeOK ==
  /\ at \in {"begin", "turn", "reset", "roll", "busted", "wait", "count",
             "again", "bank", "judge", "over", "closed"}
  /\ mover \in Player /\ to \in 0..2 /\ said \subseteq Part
  /\ writes \in 1..(MaxWrites + 5)
  /\ state \in [Part -> 1..writes]
  /\ handler \in [Player -> BOOLEAN]
  /\ reading \in [Player -> BOOLEAN]
  /\ asked \in [Player -> 0..MaxAsked]
  /\ told \in [Player -> [Part -> 0..writes]]
  /\ \A p \in Player : /\ answer[p] \in Seq(1..writes) /\ Len(answer[p]) <= Len(Fields)
                       /\ crossed[p] \subseteq Part
                       /\ old[p] \subseteq Part
  /\ drops \in 0..MaxDrops

Init ==
  /\ at = "begin"
  /\ mover \in Player
  /\ state = [part \in Part |-> 1]
  /\ writes = 1
  /\ said = {} /\ to = 2
  /\ handler = [p \in Player |-> FALSE]
  /\ asked = [p \in Player |-> 0]
  /\ reading = [p \in Player |-> FALSE]
  /\ answer = [p \in Player |-> <<>>]
  /\ told = [p \in Player |-> [part \in Part |-> 0]]
  /\ crossed = [p \in Player |-> {}]
  /\ old = [p \in Player |-> {}]
  /\ drops = 0
-----------------------------------------------------------------------------
(***************************************************************************)
(* Mutants: what a plausible bug would make of the definition that is      *)
(* named in each comment.  Nothing uses them; a property is trusted only   *)
(* after it has been seen to fail with one of them in that place.          *)
(***************************************************************************)
BeginIsFirst == TRUE                                \* HandlersSet

BufferReused(p) == answer[p]                        \* AfterAnswer
-----------------------------------------------------------------------------
(***************************************************************************)
(* The game's goroutine.  A step writes some parts in a critical section   *)
(* and starts the broadcast of some; only the goroutine itself writes, so  *)
(* what a message carries is what the state holds while Tell sends it.     *)
(***************************************************************************)
Write(parts) ==
  /\ writes' = writes + 1
  /\ state' = [part \in Part |-> IF part \in parts THEN writes' ELSE state[part]]

Broadcast(parts) == said' = parts /\ to' = 0

GoesOn(from, next) ==
  /\ to = 2
  /\ at = from
  /\ at' = next
  /\ UNCHANGED <<readerVars, toldVars>>

\* Send finds no room and returns ErrMessageLimit.
Drop(p) == p \in Slow /\ drops < MaxDrops /\ drops' = drops + 1 /\ UNCHANGED told

\* Send of the broadcast's message to one player: it is taken, or dropped with
\* ErrMessageLimit, which the game only logs.
Tell ==
  /\ to < 2
  /\ to' = to + 1
  /\ \/ /\ told' = [told EXCEPT ![to] =
                      [part \in Part |-> IF part \in said THEN state[part] ELSE @[part]]]
        /\ old' = [old EXCEPT ![to] = @ \ said]
        /\ UNCHANGED drops
     \/ Drop(to) /\ old' = [old EXCEPT ![to] = @ \cup said]
  /\ crossed' = [crossed EXCEPT ![to] = IF reading[to] THEN @ \cup said ELSE @]
  /\ UNCHANGED <<at, mover, state, writes, said, readerVars>>

\* Play sets the handlers of the clients, one after the other, and begins.
SetHandler(p) ==
  /\ ~handler[p]
  /\ \A q \in Player : q < p => handler[q]
  /\ handler' = [handler EXCEPT ![p] = TRUE]
  /\ UNCHANGED <<gameVars, asked, reading, answer, toldVars>>

HandlersSet == \A p \in Player : handler[p]

GameBegin ==
  /\ HandlersSet
  /\ GoesOn("begin", "turn")
  /\ Broadcast(Part)
  /\ UNCHANGED <<mover, state, writes>>

\* gameLoop names the player; turnLoop announces the turn.
NextPlayer(i) == (i + 1) % 2

NextTurn ==
  /\ GoesOn("turn", "reset")
  /\ mover' = NextPlayer(mover)
  /\ Write({Current}) /\ Broadcast({Current})

\* The mover's scores and dice start anew, and nobody is told.
Reset ==
  /\ GoesOn("reset", "roll")
  /\ Write({ScoresOf(mover), DiceOf(mover)})
  /\ UNCHANGED <<mover, said, to>>

Roll ==
  /\ \E next \in {"busted", "wait"} : GoesOn("roll", next)
  /\ Write({DiceOf(mover), Deadline}) /\ Broadcast({DiceOf(mover), Deadline})
  /\ UNCHANGED mover

Bust ==
  /\ GoesOn("busted", "judge")
  /\ Write({ScoresOf(mover)}) /\ Broadcast({ScoresOf(mover)})
  /\ UNCHANGED mover

DiceTouch ==
  /\ writes < MaxWrites
  /\ GoesOn("wait", "count")
  /\ Write({DiceOf(mover)}) /\ Broadcast({DiceOf(mover)})
  /\ UNCHANGED mover

Count ==
  /\ GoesOn("count", "wait")
  /\ Write({ScoresOf(mover)}) /\ Broadcast({ScoresOf(mover)})
  /\ UNCHANGED mover

\* The messages ScoreRoll and EndTurn carry nothing of the state.
Picked ==
  /\ \/ writes < MaxWrites /\ GoesOn("wait", "again")
     \/ GoesOn("wait", "bank")
  /\ Broadcast({})
  /\ UNCHANGED <<mover, state, writes>>

RollAgain ==
  /\ GoesOn("again", "roll")
  /\ Write({ScoresOf(mover), DiceOf(mover)}) /\ Broadcast({ScoresOf(mover)})
  /\ UNCHANGED mover

Bank ==
  /\ GoesOn("bank", "judge")
  /\ Write({ScoresOf(mover), DiceOf(mover)})
  /\ UNCHANGED <<mover, said, to>>

TurnTimeout ==
  /\ GoesOn("wait", "judge")
  /\ Write({ScoresOf(mover)}) /\ Broadcast({})
  /\ UNCHANGED mover

ClientClosed ==
  /\ GoesOn("wait", "over")
  /\ UNCHANGED <<mover, state, writes, said, to>>

\* Who is struck out loses without another word on the scores; else they are
\* announced, and the game goes on or has its winner.
Judge ==
  /\ \/ GoesOn("judge", "over") /\ Broadcast({})
     \/ GoesOn("judge", "over") /\ Broadcast({ScoresOf(mover)})
     \/ writes < MaxWrites /\ GoesOn("judge", "turn") /\ Broadcast({ScoresOf(mover)})
  /\ UNCHANGED <<mover, state, writes>>

Close ==
  /\ GoesOn("over", "closed")
  /\ UNCHANGED <<mover, state, writes, said, to>>
-----------------------------------------------------------------------------
(***************************************************************************)
(* The readingLoop of a player.                                            *)
(***************************************************************************)
\* A message about whose turn it is, GameBegin as a rule, was taken for him.
Begun(p) == told[p][Current] > 0

\* The handler is read without synchronisation: until the player has heard
\* of the game the loop may miss that it has been set.
HandlerSeen(p) == IF Begun(p) THEN {handler[p]} ELSE {handler[p], FALSE}

\* A please-sync is taken; without a handler it is dropped.
Ask(p) ==
  /\ at # "closed" /\ ~reading[p] /\ p \in Asking /\ asked[p] < MaxAsked
  /\ asked' = [asked EXCEPT ![p] = @ + 1]
  /\ \E seen \in HandlerSeen(p) : reading' = [reading EXCEPT ![p] = seen]
  /\ UNCHANGED <<gameVars, handler, answer, toldVars>>

\* CraftSyncState reads the next field through the pointer, without the lock.
FieldRead(part) == state[part]

Marshal(p) ==
  /\ reading[p]
  /\ Len(answer[p]) < Len(Fields)
  /\ answer' = [answer EXCEPT ![p] = Append(@, FieldRead(Fields[Len(@) + 1]))]
  /\ UNCHANGED <<gameVars, handler, asked, reading, toldVars>>

\* Send of the answer, which may be dropped as well.  Every answer is
\* marshalled into a buffer of its own.
AfterAnswer(p) == <<>>

SendSyncState(p) ==
  /\ reading[p]
  /\ Len(answer[p]) = Len(Fields)
  /\ \/ /\ told' = [told EXCEPT ![p] = [part \in Part |->
                      answer[p][CHOOSE i \in DOMAIN Fields : Fields[i] = part]]]
        /\ old' = [old EXCEPT ![p] = crossed[p]]
        /\ UNCHANGED drops
     \/ Drop(p) /\ UNCHANGED old
  /\ crossed' = [crossed EXCEPT ![p] = {}]
  /\ reading' = [reading EXCEPT ![p] = FALSE]
  /\ answer' = [answer EXCEPT ![p] = AfterAnswer(p)]
  /\ UNCHANGED <<gameVars, handler, asked>>

\* The game is over and both clients are closed.
Finished == at = "closed" /\ to = 2 /\ UNCHANGED vars

Next ==
  \/ Tell
  \/ GameBegin \/ NextTurn \/ Reset \/ Roll \/ Bust \/ DiceTouch \/ Count
  \/ Picked \/ RollAgain \/ Bank \/ TurnTimeout \/ ClientClosed \/ Judge \/ Close
  \/ \E p \in Player : SetHandler(p) \/ Ask(p) \/ Marshal(p) \/ SendSyncState(p)
  \/ Finished

Spec == Init /\ [][Next]_vars
-----------------------------------------------------------------------------
(***************************************************************************)
(* Properties.                                                             *)
(***************************************************************************)
\* While the game waits for the mover's next request the last thing each
\* player was sent about whose turn it is, the deadline, the mover's dice and
\* the scores is the state as it is, although no lock is held from reading to
\* sending.  There are two exceptions: the scores that the beginning of the
\* turn has put to zero and nobody was told of, and the parts in `old`: those
\* whose last broadcast was dropped by a full buffer, and those where an
\* answer to please-sync that a broadcast overtook undid what the broadcast
\* had said, or was marshalled before one that was dropped.  The next message
\* that is taken about such a part puts it right, and so does the next answer;
\* a dropped answer makes nothing worse.
ResetUntold == state[ScoresOf(mover)] = state[Current] + 1

ToldAtWait ==
  {Current, Deadline, DiceOf(mover), ScoresOf(1 - mover)}
    \cup (IF ResetUntold THEN {} ELSE {ScoresOf(mover)})

PlayersUpToDate ==
  at = "wait" /\ to = 2
    => \A p \in Player : \A part \in ToldAtWait \ old[p] : told[p][part] = state[part]

\* A player who has heard of the game has every please-sync answered: a
\* handler that is missing or not yet seen can drop none of his requests.
\* (That the answer then finds room in his buffer is not said.)
HeardOnceBegun ==
  [][\A p \in Player : asked'[p] # asked[p] /\ Begun(p) => reading'[p]]_vars
==============================================================================
