--------------------------- MODULE StateSyncProofs ---------------------------
(***************************************************************************)
(* Proofs about StateSync, for any number of turns and of please-syncs.    *)
(***************************************************************************)
EXTENDS StateSync, SequenceTheorems, TLAPS

LEMMA Parts ==
  /\ Part = {Deadline, Current, ScoresOf(0), DiceOf(0), ScoresOf(1), DiceOf(1)}
  /\ Deadline # Current
  /\ \A p, q \in Player : /\ Deadline # ScoresOf(p) /\ Deadline # DiceOf(p)
                          /\ Current # ScoresOf(p) /\ Current # DiceOf(p)
                          /\ ScoresOf(p) # DiceOf(q)
                          /\ p # q => ScoresOf(p) # ScoresOf(q) /\ DiceOf(p) # DiceOf(q)
  /\ \A p \in Player : ScoresOf(p) \in Part /\ DiceOf(p) \in Part
  /\ Deadline \in Part /\ Current \in Part
  /\ Len(Fields) = 6 /\ DOMAIN Fields = 1..6
  /\ \A i \in 1..6 : Fields[i] \in Part
  /\ \A part \in Part : \E i \in 1..6 : Fields[i] = part
<1>1. DOMAIN Fields = 1..6 /\ Len(Fields) = 6
  BY DEF Fields
<1>2. Fields[1] = Deadline /\ Fields[2] = Current /\ Fields[3] = ScoresOf(0)
      /\ Fields[4] = DiceOf(0) /\ Fields[5] = ScoresOf(1) /\ Fields[6] = DiceOf(1)
  BY DEF Fields
<1>3. \A i \in 1..6 : i = 1 \/ i = 2 \/ i = 3 \/ i = 4 \/ i = 5 \/ i = 6
  OBVIOUS
<1>4. Part = {Deadline, Current, ScoresOf(0), DiceOf(0), ScoresOf(1), DiceOf(1)}
  BY <1>1, <1>2, <1>3 DEF Part
<1>5. /\ Deadline # Current
      /\ \A p, q \in Player : /\ Deadline # ScoresOf(p) /\ Deadline # DiceOf(p)
                              /\ Current # ScoresOf(p) /\ Current # DiceOf(p)
                              /\ ScoresOf(p) # DiceOf(q)
                              /\ p # q => ScoresOf(p) # ScoresOf(q) /\ DiceOf(p) # DiceOf(q)
  BY DEF Deadline, Current, ScoresOf, DiceOf, Player
<1>6. \A p \in Player : ScoresOf(p) \in Part /\ DiceOf(p) \in Part
  BY <1>4 DEF Player
<1>7. \A i \in 1..6 : Fields[i] \in Part
  BY <1>2, <1>3, <1>4
<1>8. \A part \in Part : \E i \in 1..6 : Fields[i] = part
  BY <1>1 DEF Part
<1> QED
  BY <1>1, <1>4, <1>5, <1>6, <1>7, <1>8

Place == {"begin", "turn", "reset", "roll", "busted", "wait", "count",
          "again", "bank", "judge", "over", "closed"}

\* The types, without the bounds that keep TLC's instances finite.
SyncType ==
  /\ at \in Place
  /\ mover \in Player /\ to \in 0..2 /\ said \in SUBSET Part
  /\ writes \in Nat
  /\ state \in [Part -> Nat]
  /\ handler \in [Player -> BOOLEAN]
  /\ asked \in [Player -> Nat]
  /\ reading \in [Player -> BOOLEAN]
  /\ answer \in [Player -> Seq(Nat)]
  /\ told \in [Player -> [Part -> Nat]]
  /\ crossed \in [Player -> SUBSET Part]
  /\ old \in [Player -> SUBSET Part]
  /\ \A p \in Player : Len(answer[p]) <= 6
  /\ drops \in Nat

\* The parts that nobody has been told of, though they may have changed, when
\* no broadcast is under way.
Untold ==
  CASE at \in {"begin", "over", "closed"} -> Part
    [] at \in {"turn", "reset"} -> {DiceOf(0), DiceOf(1)}
    [] at = "roll" -> {DiceOf(0), DiceOf(1)} \cup (IF ResetUntold THEN {ScoresOf(mover)} ELSE {})
    [] at = "judge" -> {DiceOf(0), DiceOf(1), ScoresOf(mover)}
    [] OTHER -> {DiceOf(1 - mover)} \cup (IF ResetUntold THEN {ScoresOf(mover)} ELSE {})

\* A player is still to be told of the part.
Pending(p, part) == part \in Untold \/ (part \in said /\ to <= p)

\* The scores of the mover are rewritten later than the beginning of the turn.
Versions ==
  /\ at = "reset" => state[Current] = writes
  /\ at \in {"roll", "busted", "wait", "count", "again", "bank"} => state[Current] < writes

\* What a player was told, and what an answer to him holds so far, is the
\* state, or will be corrected, or was overtaken.
ToldOrPending ==
  \A p \in Player : \A part \in Part :
    told[p][part] = state[part] \/ part \in old[p] \/ Pending(p, part)

AnswerOrPending ==
  \A p \in Player : \A i \in 1..Len(answer[p]) :
    \/ answer[p][i] = state[Fields[i]]
    \/ Fields[i] \in crossed[p]
    \/ Pending(p, Fields[i])

AnswerWhileReading == \A p \in Player : ~reading[p] => answer[p] = <<>>

SyncInv == Versions /\ ToldOrPending /\ AnswerOrPending /\ AnswerWhileReading
-----------------------------------------------------------------------------
LEMMA WriteParts ==
  ASSUME SyncType, NEW parts \in SUBSET Part, Write(parts)
  PROVE  /\ writes' = writes + 1 /\ writes' \in Nat /\ state' \in [Part -> Nat]
         /\ \A part \in Part : state'[part] = IF part \in parts THEN writes + 1 ELSE state[part]
BY DEF Write, SyncType

\* The steps of the game's goroutine other than Tell leave the readers alone.
GameStep ==
  \/ GameBegin \/ NextTurn \/ Reset \/ Roll \/ Bust \/ DiceTouch \/ Count
  \/ Picked \/ RollAgain \/ Bank \/ TurnTimeout \/ ClientClosed \/ Judge \/ Close

LEMMA GameStepQuiet ==
  ASSUME GameStep
  PROVE  to = 2 /\ UNCHANGED <<readerVars, toldVars>>
BY DEF GameStep, GoesOn, GameBegin, NextTurn, Reset, Roll, Bust, DiceTouch, Count, Picked,
       RollAgain, Bank, TurnTimeout, ClientClosed, Judge, Close

LEMMA GameStepType ==
  ASSUME SyncType, GameStep
  PROVE  SyncType'
<1> DEFINE Kept == /\ at' \in Place /\ mover' \in Player /\ to' \in 0..2 /\ said' \in SUBSET Part
                   /\ writes' \in Nat /\ state' \in [Part -> Nat]
<1> SUFFICES Kept
  BY GameStepQuiet DEF SyncType, readerVars, toldVars
<1>0. \A p \in Player : {ScoresOf(p)} \in SUBSET Part /\ {DiceOf(p)} \in SUBSET Part
                        /\ {ScoresOf(p), DiceOf(p)} \in SUBSET Part
                        /\ {DiceOf(p), Deadline} \in SUBSET Part
  BY Parts
<1>1. {Current} \in SUBSET Part /\ {} \in SUBSET Part /\ Part \in SUBSET Part
  BY Parts
<1>2. 0 \in 0..2 /\ NextPlayer(mover) \in Player
  BY DEF NextPlayer, Player, SyncType
<1>3. /\ mover \in Player /\ to \in 0..2 /\ said \in SUBSET Part
      /\ writes \in Nat /\ state \in [Part -> Nat]
  BY DEF SyncType
<1>4. CASE GameBegin
  BY <1>0, <1>1, <1>2, <1>3, <1>4 DEF GameBegin, GoesOn, Broadcast, Place
<1>5. CASE NextTurn
  BY <1>0, <1>1, <1>2, <1>3, <1>5, WriteParts DEF NextTurn, GoesOn, Broadcast, Place
<1>6. CASE Reset
  BY <1>0, <1>1, <1>2, <1>3, <1>6, WriteParts DEF Reset, GoesOn, Broadcast, Place
<1>7. CASE Roll
  BY <1>0, <1>1, <1>2, <1>3, <1>7, WriteParts DEF Roll, GoesOn, Broadcast, Place
<1>8. CASE Bust
  BY <1>0, <1>1, <1>2, <1>3, <1>8, WriteParts DEF Bust, GoesOn, Broadcast, Place
<1>9. CASE DiceTouch
  BY <1>0, <1>1, <1>2, <1>3, <1>9, WriteParts DEF DiceTouch, GoesOn, Broadcast, Place
<1>10. CASE Count
  BY <1>0, <1>1, <1>2, <1>3, <1>10, WriteParts DEF Count, GoesOn, Broadcast, Place
<1>11. CASE Picked
  BY <1>0, <1>1, <1>2, <1>3, <1>11 DEF Picked, GoesOn, Broadcast, Place
<1>12. CASE RollAgain
  BY <1>0, <1>1, <1>2, <1>3, <1>12, WriteParts DEF RollAgain, GoesOn, Broadcast, Place
<1>13. CASE Bank
  BY <1>0, <1>1, <1>2, <1>3, <1>13, WriteParts DEF Bank, GoesOn, Broadcast, Place
<1>14. CASE TurnTimeout
  BY <1>0, <1>1, <1>2, <1>3, <1>14, WriteParts DEF TurnTimeout, GoesOn, Broadcast, Place
<1>15. CASE ClientClosed
  BY <1>0, <1>1, <1>2, <1>3, <1>15 DEF ClientClosed, GoesOn, Broadcast, Place
<1>16. CASE Judge
  BY <1>0, <1>1, <1>2, <1>3, <1>16 DEF Judge, GoesOn, Broadcast, Place
<1>17. CASE Close
  BY <1>0, <1>1, <1>2, <1>3, <1>17 DEF Close, GoesOn, Broadcast, Place
<1> QED
  BY <1>4, <1>5, <1>6, <1>7, <1>8, <1>9, <1>10, <1>11, <1>12, <1>13, <1>14, <1>15, <1>16, <1>17
     DEF GameStep

LEMMA TypeInvariant == Spec => []SyncType
<1>1. Init => SyncType
  BY DEF Init, SyncType, Place, Player
<1>2. SyncType /\ [Next]_vars => SyncType'
  <2> SUFFICES ASSUME SyncType, [Next]_vars PROVE SyncType'
    OBVIOUS
  <2>1. CASE GameStep
    BY <2>1, GameStepType
  <2>2. CASE Tell
    <3>1. said \subseteq Part /\ to \in Player /\ to' \in 0..2
      BY <2>2 DEF Tell, SyncType, Player
    <3>2. \A part \in Part : (IF part \in said THEN state[part] ELSE told[to][part]) \in Nat
      BY <3>1 DEF SyncType
    <3>3. told' \in [Player -> [Part -> Nat]]
      <4>1. CASE told' = [told EXCEPT ![to] =
                            [part \in Part |-> IF part \in said THEN state[part] ELSE @[part]]]
        BY <3>1, <3>2, <4>1 DEF SyncType
      <4>2. CASE UNCHANGED told
        BY <4>2 DEF SyncType
      <4> QED
        BY <2>2, <4>1, <4>2 DEF Tell, Drop
    <3>4. crossed' \in [Player -> SUBSET Part]
      BY <2>2, <3>1 DEF Tell, SyncType
    <3>5. old' \in [Player -> SUBSET Part]
      BY <2>2, <3>1 DEF Tell, SyncType
    <3>6. drops' \in Nat
      BY <2>2 DEF Tell, Drop, SyncType
    <3> QED
      BY <2>2, <3>1, <3>3, <3>4, <3>5, <3>6 DEF Tell, SyncType, readerVars
  <2>3. ASSUME NEW p \in Player, SetHandler(p)
        PROVE  SyncType'
    BY <2>3 DEF SetHandler, gameVars, toldVars, SyncType
  <2>4. ASSUME NEW p \in Player, Ask(p)
        PROVE  SyncType'
    <3>1. HandlerSeen(p) \subseteq BOOLEAN
      BY DEF HandlerSeen, SyncType
    <3>2. reading' \in [Player -> BOOLEAN] /\ asked' \in [Player -> Nat]
      BY <2>4, <3>1 DEF Ask, SyncType
    <3> QED
      BY <2>4, <3>2 DEF Ask, gameVars, toldVars, SyncType
  <2>5. ASSUME NEW p \in Player, Marshal(p)
        PROVE  SyncType'
    <3> DEFINE n == Len(answer[p]) + 1
    <3>1. answer[p] \in Seq(Nat) /\ Len(answer[p]) \in Nat /\ n \in 1..6
      <4>1. Len(answer[p]) < Len(Fields) /\ Len(Fields) = 6
        BY <2>5, Parts DEF Marshal
      <4>2. answer[p] \in Seq(Nat)
        BY DEF SyncType
      <4> QED
        BY <4>1, <4>2
    <3>2. FieldRead(Fields[n]) \in Nat
      BY <3>1, Parts DEF FieldRead, SyncType
    <3> DEFINE more == Append(answer[p], FieldRead(Fields[n]))
    <3>3. more \in Seq(Nat) /\ Len(more) = n
      BY <3>1, <3>2
    <3>4. answer' = [answer EXCEPT ![p] = more]
      BY <2>5 DEF Marshal
    <3> HIDE DEF more, n
    <3>5. answer' \in [Player -> Seq(Nat)] /\ \A q \in Player : Len(answer'[q]) <= 6
      BY <3>1, <3>3, <3>4 DEF SyncType
    <3> QED
      BY <2>5, <3>5 DEF Marshal, gameVars, toldVars, SyncType
  <2>6. ASSUME NEW p \in Player, SendSyncState(p)
        PROVE  SyncType'
    <3>1. ASSUME NEW part \in Part
          PROVE  answer[p][CHOOSE i \in DOMAIN Fields : Fields[i] = part] \in Nat
      <4>1. (CHOOSE i \in DOMAIN Fields : Fields[i] = part) \in 1..6
        BY Parts
      <4>2. answer[p] \in Seq(Nat) /\ Len(answer[p]) = 6
        BY <2>6, Parts DEF SendSyncState, SyncType
      <4>3. \A i \in 1..6 : answer[p][i] \in Nat
        BY <4>2
      <4> QED
        BY <4>1, <4>3
    <3>2. told' \in [Player -> [Part -> Nat]]
      <4>1. CASE told' = [told EXCEPT ![p] = [part \in Part |->
                           answer[p][CHOOSE i \in DOMAIN Fields : Fields[i] = part]]]
        BY <3>1, <4>1 DEF SyncType
      <4>2. CASE UNCHANGED told
        BY <4>2 DEF SyncType
      <4> QED
        BY <2>6, <4>1, <4>2 DEF SendSyncState, Drop
    <3>3. crossed' \in [Player -> SUBSET Part] /\ old' \in [Player -> SUBSET Part] /\ drops' \in Nat
      <4>1. drops' \in Nat
        BY <2>6 DEF SendSyncState, Drop, SyncType
      <4>2. crossed' \in [Player -> SUBSET Part]
        BY <2>6 DEF SendSyncState, SyncType
      <4>3. old' \in [Player -> SUBSET Part]
        BY <2>6 DEF SendSyncState, SyncType
      <4> QED
        BY <4>1, <4>2, <4>3
    <3>4. <<>> \in Seq(Nat) /\ Len(<<>>) <= 6
      OBVIOUS
    <3>5. answer' \in [Player -> Seq(Nat)] /\ \A q \in Player : Len(answer'[q]) <= 6
      BY <2>6, <3>4 DEF SendSyncState, AfterAnswer, SyncType
    <3>6. reading' \in [Player -> BOOLEAN] /\ UNCHANGED <<gameVars, handler, asked>>
      BY <2>6 DEF SendSyncState, SyncType
    <3> QED
      BY <3>2, <3>3, <3>5, <3>6 DEF gameVars, SyncType
  <2>7. CASE Finished \/ UNCHANGED vars
    BY <2>7 DEF Finished, vars, gameVars, readerVars, toldVars, SyncType
  <2> QED
    BY <2>1, <2>2, <2>3, <2>4, <2>5, <2>6, <2>7 DEF Next, GameStep
<1> QED
  BY <1>1, <1>2, PTL DEF Spec

\* The bounds.  A turn is begun, and a die touched or the dice rolled again,
\* only below MaxWrites; what a place may add to that is what its turn writes
\* on the way there.
Slack(place) ==
  CASE place \in {"begin", "turn"} -> 1
    [] place \in {"reset", "again", "count"} -> 2
    [] place = "roll" -> 3
    [] place \in {"busted", "wait", "bank"} -> 4
    [] OTHER -> 5

Version == 1..writes

Bounds ==
  /\ 1 <= writes /\ writes <= MaxWrites + Slack(at)
  /\ \A part \in Part : state[part] \in Version
  /\ \A p \in Player : \A part \in Part : told[p][part] <= writes
  /\ \A p \in Player : \A i \in 1..Len(answer[p]) : answer[p][i] \in Version
  /\ \A p \in Player : asked[p] <= MaxAsked
  /\ drops <= MaxDrops

LEMMA GameStepBounds ==
  ASSUME SyncType, Bounds, GameStep
  PROVE  Bounds'
<1> DEFINE Fits == 1 <= writes' /\ writes' <= MaxWrites + Slack(at')
           More == /\ writes' \in {writes, writes + 1}
                   /\ \A part \in Part : state'[part] \in {state[part], writes'}
<1>0. /\ writes \in Nat /\ 1 <= writes /\ writes <= MaxWrites + Slack(at) /\ MaxWrites \in Nat
      /\ \A part \in Part : state[part] \in 1..writes
  BY MaxWritesAssumption DEF SyncType, Bounds, Version
<1>1. \A p \in Player : {ScoresOf(p)} \in SUBSET Part /\ {DiceOf(p)} \in SUBSET Part
                        /\ {ScoresOf(p), DiceOf(p)} \in SUBSET Part
                        /\ {DiceOf(p), Deadline} \in SUBSET Part
  BY Parts
<1>2. mover \in Player /\ {Current} \in SUBSET Part
  BY Parts DEF SyncType
<1>3. UNCHANGED <<told, answer, asked, drops>>
  BY GameStepQuiet DEF readerVars, toldVars
<1>4. Fits /\ More
  <2>1. ASSUME UNCHANGED <<state, writes>> PROVE More
    BY <2>1, <1>0
  <2>2. ASSUME NEW parts \in SUBSET Part, Write(parts) PROVE More /\ writes' = writes + 1
    BY <2>2, <1>0, WriteParts
  <2>3. CASE GameBegin
    BY <2>1, <2>3, <1>0 DEF GameBegin, GoesOn, Slack
  <2>4. CASE NextTurn
    <3>1. Write({Current}) /\ at = "turn" /\ at' = "reset"
      BY <2>4 DEF NextTurn, GoesOn
    <3> QED
      BY <2>2, <3>1, <1>0, <1>2 DEF Slack
  <2>5. CASE Reset
    <3>1. Write({ScoresOf(mover), DiceOf(mover)}) /\ at = "reset" /\ at' = "roll"
      BY <2>5 DEF Reset, GoesOn
    <3> QED
      BY <2>2, <3>1, <1>0, <1>1, <1>2 DEF Slack
  <2>6. CASE Roll
    <3>1. Write({DiceOf(mover), Deadline}) /\ at = "roll" /\ at' \in {"busted", "wait"}
      BY <2>6 DEF Roll, GoesOn
    <3> QED
      BY <2>2, <3>1, <1>0, <1>1, <1>2 DEF Slack
  <2>7. CASE Bust
    <3>1. Write({ScoresOf(mover)}) /\ at = "busted" /\ at' = "judge"
      BY <2>7 DEF Bust, GoesOn
    <3> QED
      BY <2>2, <3>1, <1>0, <1>1, <1>2 DEF Slack
  <2>8. CASE DiceTouch
    <3>1. Write({DiceOf(mover)}) /\ writes < MaxWrites /\ at' = "count"
      BY <2>8 DEF DiceTouch, GoesOn
    <3> QED
      BY <2>2, <3>1, <1>0, <1>1, <1>2 DEF Slack
  <2>9. CASE Count
    <3>1. Write({ScoresOf(mover)}) /\ at = "count" /\ at' = "wait"
      BY <2>9 DEF Count, GoesOn
    <3> QED
      BY <2>2, <3>1, <1>0, <1>1, <1>2 DEF Slack
  <2>10. CASE Picked
    <3>1. /\ UNCHANGED <<state, writes>> /\ at = "wait"
          /\ (at' = "again" /\ writes < MaxWrites) \/ at' = "bank"
      BY <2>10 DEF Picked, GoesOn
    <3> QED
      BY <2>1, <3>1, <1>0 DEF Slack
  <2>11. CASE RollAgain
    <3>1. Write({ScoresOf(mover), DiceOf(mover)}) /\ at = "again" /\ at' = "roll"
      BY <2>11 DEF RollAgain, GoesOn
    <3> QED
      BY <2>2, <3>1, <1>0, <1>1, <1>2 DEF Slack
  <2>12. CASE Bank
    <3>1. Write({ScoresOf(mover), DiceOf(mover)}) /\ at = "bank" /\ at' = "judge"
      BY <2>12 DEF Bank, GoesOn
    <3> QED
      BY <2>2, <3>1, <1>0, <1>1, <1>2 DEF Slack
  <2>13. CASE TurnTimeout
    <3>1. Write({ScoresOf(mover)}) /\ at = "wait" /\ at' = "judge"
      BY <2>13 DEF TurnTimeout, GoesOn
    <3> QED
      BY <2>2, <3>1, <1>0, <1>1, <1>2 DEF Slack
  <2>14. CASE ClientClosed
    BY <2>1, <2>14, <1>0 DEF ClientClosed, GoesOn, Slack
  <2>15. CASE Judge
    <3>1. /\ UNCHANGED <<state, writes>> /\ at = "judge"
          /\ at' = "over" \/ (at' = "turn" /\ writes < MaxWrites)
      BY <2>15 DEF Judge, GoesOn
    <3> QED
      BY <2>1, <3>1, <1>0 DEF Slack
  <2>16. CASE Close
    BY <2>1, <2>16, <1>0 DEF Close, GoesOn, Slack
  <2> QED
    BY <2>3, <2>4, <2>5, <2>6, <2>7, <2>8, <2>9, <2>10, <2>11, <2>12, <2>13, <2>14, <2>15, <2>16
       DEF GameStep
<1>5. writes <= writes' /\ writes' \in Nat /\ 1..writes \subseteq 1..writes' /\ writes' \in 1..writes'
  BY <1>0, <1>4
<1>6. \A part \in Part : state'[part] \in 1..writes'
  BY <1>0, <1>4, <1>5
<1>7. \A p \in Player : \A part \in Part : told[p][part] <= writes'
  <2> SUFFICES ASSUME NEW p \in Player, NEW part \in Part PROVE told[p][part] <= writes'
    OBVIOUS
  <2>1. told[p][part] \in Nat /\ told[p][part] <= writes
    BY DEF SyncType, Bounds
  <2> QED
    BY <2>1, <1>0, <1>5
<1>8. \A p \in Player : \A i \in 1..Len(answer[p]) : answer[p][i] \in 1..writes'
  BY <1>5 DEF Bounds, Version
<1> QED
  BY <1>3, <1>4, <1>6, <1>7, <1>8 DEF Bounds, Version

LEMMA BoundsInvariant == Spec => []Bounds
<1>1. Init => Bounds
  <2> SUFFICES ASSUME Init PROVE Bounds
    OBVIOUS
  <2>1. at = "begin" /\ writes = 1 /\ (\A part \in Part : state[part] = 1)
    BY DEF Init
  <2>2. \A p \in Player : answer[p] = <<>> /\ asked[p] = 0 /\ \A part \in Part : told[p][part] = 0
    BY DEF Init
  <2>3. \A p \in Player : 1..Len(answer[p]) = {}
    BY <2>2
  <2> QED
    BY <2>1, <2>2, <2>3, MaxWritesAssumption, MaxAskedAssumption, MaxDropsAssumption DEF Init, Bounds, Version, Slack
<1>2. SyncType /\ Bounds /\ [Next]_vars => Bounds'
  <2> SUFFICES ASSUME SyncType, Bounds, [Next]_vars PROVE Bounds'
    OBVIOUS
  <2>1. CASE GameStep
    BY <2>1, GameStepBounds
  <2>2. CASE Tell
    <3>1. to \in Player /\ UNCHANGED <<at, state, writes, answer, asked>>
      BY <2>2 DEF Tell, SyncType, Player, readerVars
    <3>2. \/ told' = [told EXCEPT ![to] =
                        [part \in Part |-> IF part \in said THEN state[part] ELSE @[part]]]
          \/ told' = told
      BY <2>2 DEF Tell, Drop
    <3>3. \A part \in Part : state[part] <= writes
      BY DEF Bounds, Version, SyncType
    <3>4. ASSUME NEW p \in Player, NEW part \in Part
          PROVE  told'[p][part] <= writes
      <4>1. told'[p][part] \in {state[part], told[p][part]}
        BY <3>1, <3>2 DEF SyncType
      <4> QED
        BY <4>1, <3>3 DEF Bounds
    <3>5. drops' <= MaxDrops
      BY <2>2, MaxDropsAssumption DEF Tell, Drop, SyncType, Bounds
    <3> QED
      BY <3>1, <3>4, <3>5 DEF Bounds, Version
  <2>3. ASSUME NEW p \in Player, SetHandler(p)
        PROVE  Bounds'
    BY <2>3 DEF SetHandler, gameVars, toldVars, Bounds, Version
  <2>4. ASSUME NEW p \in Player, Ask(p)
        PROVE  Bounds'
    <3>1. asked[p] < MaxAsked /\ asked' = [asked EXCEPT ![p] = @ + 1]
      BY <2>4 DEF Ask
    <3>2. \A q \in Player : asked'[q] <= MaxAsked
      BY <3>1, MaxAskedAssumption DEF SyncType, Bounds
    <3>3. UNCHANGED <<at, state, writes, told, answer, drops>>
      BY <2>4 DEF Ask, gameVars, toldVars
    <3> QED
      BY <3>2, <3>3 DEF Bounds, Version
  <2>5. ASSUME NEW p \in Player, Marshal(p)
        PROVE  Bounds'
    <3> DEFINE next == Fields[Len(answer[p]) + 1]
    <3>1. answer[p] \in Seq(Nat) /\ Len(answer[p]) \in Nat /\ Len(answer[p]) < 6
      BY <2>5, Parts DEF Marshal, SyncType
    <3>2. Len(answer[p]) + 1 \in 1..6
      BY <3>1
    <3>3. state[next] \in 1..writes
      BY <3>2, Parts DEF Bounds, Version
    <3>4. answer' = [answer EXCEPT ![p] = Append(answer[p], state[next])]
      BY <2>5 DEF Marshal, FieldRead
    <3> HIDE DEF next
    <3>5. answer'[p] = Append(answer[p], state[next])
      BY <3>4 DEF SyncType
    <3>6. \A i \in 1..Len(answer[p]) : answer[p][i] \in 1..writes
      BY DEF Bounds, Version
    <3>7. \A i \in 1..Len(answer'[p]) : answer'[p][i] \in 1..writes
      BY <3>1, <3>3, <3>5, <3>6
    <3>8. \A q \in Player : q # p => answer'[q] = answer[q]
      BY <3>4 DEF SyncType
    <3>9. \A q \in Player : \A i \in 1..Len(answer'[q]) : answer'[q][i] \in 1..writes
      BY <3>7, <3>8 DEF Bounds, Version
    <3>10. UNCHANGED <<at, state, writes, told, asked, drops>>
      BY <2>5 DEF Marshal, gameVars, toldVars
    <3> QED
      BY <3>9, <3>10 DEF Bounds, Version
  <2>6. ASSUME NEW p \in Player, SendSyncState(p)
        PROVE  Bounds'
    <3>0. writes \in Nat
      BY DEF SyncType
    <3>1. ASSUME NEW part \in Part
          PROVE  answer[p][CHOOSE i \in DOMAIN Fields : Fields[i] = part] <= writes
      <4>1. (CHOOSE i \in DOMAIN Fields : Fields[i] = part) \in 1..6
        BY Parts
      <4>2. Len(answer[p]) = 6
        BY <2>6, Parts DEF SendSyncState
      <4>3. \A i \in 1..6 : answer[p][i] \in 1..writes
        BY <4>2 DEF Bounds, Version
      <4>4. answer[p][CHOOSE i \in DOMAIN Fields : Fields[i] = part] \in 1..writes
        BY <4>1, <4>3, Zenon
      <4> QED
        BY <3>0, <4>4
    <3>2. \A q \in Player : \A part \in Part : told'[q][part] <= writes
      <4>1. CASE told' = [told EXCEPT ![p] = [part \in Part |->
                           answer[p][CHOOSE i \in DOMAIN Fields : Fields[i] = part]]]
        BY <3>1, <4>1 DEF SyncType, Bounds
      <4>2. CASE UNCHANGED told
        BY <4>2 DEF Bounds
      <4> QED
        BY <2>6, <4>1, <4>2 DEF SendSyncState, Drop
    <3>3. answer' = [answer EXCEPT ![p] = <<>>]
      BY <2>6 DEF SendSyncState, AfterAnswer
    <3>4. 1..Len(<<>>) = {}
      OBVIOUS
    <3>5. \A q \in Player : \A i \in 1..Len(answer'[q]) : answer'[q][i] \in 1..writes
      BY <3>3, <3>4 DEF SyncType, Bounds, Version
    <3>6. UNCHANGED <<at, state, writes, asked>>
      BY <2>6 DEF SendSyncState, gameVars
    <3>7. drops' <= MaxDrops
      BY <2>6, MaxDropsAssumption DEF SendSyncState, Drop, SyncType, Bounds
    <3> QED
      BY <3>2, <3>5, <3>6, <3>7 DEF Bounds, Version
  <2>7. CASE Finished \/ UNCHANGED vars
    BY <2>7 DEF Finished, vars, gameVars, readerVars, toldVars, Bounds, Version
  <2> QED
    BY <2>1, <2>2, <2>3, <2>4, <2>5, <2>6, <2>7 DEF Next, GameStep
<1> QED
  BY <1>1, <1>2, TypeInvariant, PTL DEF Spec

\* The variables keep their types and the game its bounds: no player was ever
\* sent, and no answer under way holds, anything newer than the state.
THEOREM TypeCorrect == Spec => []TypeOK
<1>1. SyncType /\ Bounds => TypeOK
  <2> SUFFICES ASSUME SyncType, Bounds PROVE TypeOK
    OBVIOUS
  <2>1. writes \in Nat /\ MaxWrites \in Nat /\ MaxAsked \in Nat
    BY MaxWritesAssumption, MaxAskedAssumption DEF SyncType
  <2>2. writes \in 1..(MaxWrites + 5)
    BY <2>1 DEF Bounds, Slack
  <2>3. state \in [Part -> 1..writes]
    BY DEF SyncType, Bounds, Version
  <2>4. told \in [Player -> [Part -> 0..writes]]
    <3>1. \A p \in Player : told[p] \in [Part -> Nat] /\ \A part \in Part : told[p][part] \in 0..writes
      BY <2>1 DEF SyncType, Bounds
    <3>2. \A p \in Player : told[p] \in [Part -> 0..writes]
      BY <3>1
    <3> QED
      BY <3>2 DEF SyncType
  <2>5. asked \in [Player -> 0..MaxAsked]
    BY <2>1 DEF SyncType, Bounds
  <2>8. drops \in 0..MaxDrops
    BY MaxDropsAssumption DEF SyncType, Bounds
  <2>6. ASSUME NEW p \in Player
        PROVE  /\ answer[p] \in Seq(1..writes) /\ Len(answer[p]) <= Len(Fields)
               /\ crossed[p] \subseteq Part /\ old[p] \subseteq Part
    <3>1. answer[p] \in Seq(Nat) /\ Len(answer[p]) <= 6
      BY DEF SyncType
    <3>2. \A i \in 1..Len(answer[p]) : answer[p][i] \in 1..writes
      BY DEF Bounds, Version
    <3>3. answer[p] \in Seq(1..writes)
      <4>1. Len(answer[p]) \in Nat /\ answer[p] \in [1..Len(answer[p]) -> Nat]
        BY <3>1
      <4>2. answer[p] \in [1..Len(answer[p]) -> 1..writes]
        BY <3>2, <4>1
      <4> QED
        BY <4>1, <4>2, SeqDef
    <3> QED
      BY <3>1, <3>3, Parts DEF SyncType
  <2> QED
    BY <2>2, <2>3, <2>4, <2>5, <2>6, <2>8 DEF TypeOK, SyncType, Place
<1> QED
  BY <1>1, TypeInvariant, BoundsInvariant, PTL
-----------------------------------------------------------------------------
(***************************************************************************)
(* What the players are told.                                              *)
(***************************************************************************)
\* A step of the game keeps ToldOrPending and AnswerOrPending if it announces
\* what it has changed, and what was untold but is not to be any longer.
Announced ==
  \A part \in Part :
    state'[part] # state[part] \/ part \in Untold => part \in Untold' \/ (to' = 0 /\ part \in said')

LEMMA AnnouncedKeeps ==
  ASSUME SyncType, ToldOrPending, AnswerOrPending, GameStep, Announced
  PROVE  ToldOrPending' /\ AnswerOrPending'
<1>1. to = 2 /\ UNCHANGED <<answer, told, crossed, old>>
  BY GameStepQuiet DEF readerVars, toldVars
<1>2. \A p \in Player : \A part \in Part : Pending(p, part) => part \in Untold
  BY <1>1 DEF Pending, Player
<1>3. \A p \in Player : \A part \in Part :
        state'[part] # state[part] \/ part \in Untold => Pending(p, part)'
  BY DEF Announced, Pending, Player
<1>4. ToldOrPending'
  BY <1>1, <1>2, <1>3 DEF ToldOrPending
<1>5. \A p \in Player : \A i \in 1..Len(answer[p]) : Fields[i] \in Part
  <2>1. \A p \in Player : Len(answer[p]) \in Nat /\ Len(answer[p]) <= 6
    BY DEF SyncType
  <2> QED
    BY <2>1, Parts
<1>6. AnswerOrPending'
  BY <1>1, <1>2, <1>3, <1>5 DEF AnswerOrPending
<1> QED
  BY <1>4, <1>6

LEMMA GameStepAnnounced ==
  ASSUME SyncType, Versions, GameStep
  PROVE  Versions' /\ Announced
<1> USE DEF Versions, Announced, Untold, ResetUntold
<1>0. /\ mover \in Player /\ writes \in Nat /\ state \in [Part -> Nat]
      /\ \A p \in Player : (p = 0 \/ p = 1) /\ 1 - p \in Player /\ p # 1 - p
      /\ \A p \in Player : {ScoresOf(p)} \in SUBSET Part /\ {DiceOf(p)} \in SUBSET Part
                           /\ {ScoresOf(p), DiceOf(p)} \in SUBSET Part
                           /\ {DiceOf(p), Deadline} \in SUBSET Part
      /\ {Current} \in SUBSET Part
  BY Parts DEF SyncType, Player
<1>1. CASE GameBegin
  BY <1>0, <1>1, Parts DEF GameBegin, GoesOn, Broadcast
<1>2. CASE NextTurn
  BY <1>0, <1>2, Parts, WriteParts DEF NextTurn, GoesOn, Broadcast
<1>3. CASE Reset
  BY <1>0, <1>3, Parts, WriteParts DEF Reset, GoesOn, Broadcast
<1>4. CASE Roll
  BY <1>0, <1>4, Parts, WriteParts DEF Roll, GoesOn, Broadcast
<1>5. CASE Bust
  BY <1>0, <1>5, Parts, WriteParts DEF Bust, GoesOn, Broadcast
<1>6. CASE DiceTouch
  BY <1>0, <1>6, Parts, WriteParts DEF DiceTouch, GoesOn, Broadcast
<1>7. CASE Count
  BY <1>0, <1>7, Parts, WriteParts DEF Count, GoesOn, Broadcast
<1>8. CASE Picked
  BY <1>0, <1>8, Parts DEF Picked, GoesOn, Broadcast
<1>9. CASE RollAgain
  BY <1>0, <1>9, Parts, WriteParts DEF RollAgain, GoesOn, Broadcast
<1>10. CASE Bank
  BY <1>0, <1>10, Parts, WriteParts DEF Bank, GoesOn, Broadcast
<1>11. CASE TurnTimeout
  BY <1>0, <1>11, Parts, WriteParts DEF TurnTimeout, GoesOn, Broadcast
<1>12. CASE ClientClosed
  BY <1>0, <1>12, Parts DEF ClientClosed, GoesOn, Broadcast
<1>13. CASE Judge
  BY <1>0, <1>13, Parts DEF Judge, GoesOn, Broadcast
<1>14. CASE Close
  BY <1>0, <1>14, Parts DEF Close, GoesOn, Broadcast
<1> QED
  BY <1>1, <1>2, <1>3, <1>4, <1>5, <1>6, <1>7, <1>8, <1>9, <1>10, <1>11, <1>12, <1>13, <1>14
     DEF GameStep

LEMMA TellKeeps ==
  ASSUME SyncType, SyncInv, Tell
  PROVE  ToldOrPending' /\ AnswerOrPending'
<1>1. /\ to \in Player /\ to' = to + 1 /\ said \subseteq Part
      /\ UNCHANGED <<at, mover, state, said, answer, reading>>
  BY DEF Tell, SyncType, Player, readerVars
<1>2. Untold' = Untold
  BY <1>1 DEF Untold, ResetUntold
<1>3. \A p \in Player : p # to => told'[p] = told[p] /\ crossed'[p] = crossed[p] /\ old'[p] = old[p]
  BY DEF Tell, Drop, SyncType
<1>4. /\ \/ \A part \in Part : IF part \in said
                               THEN told'[to][part] = state[part]
                               ELSE /\ told'[to][part] = told[to][part]
                                    /\ (part \in old[to] => part \in old'[to])
         \/ told'[to] = told[to] /\ old'[to] = old[to] \cup said
      /\ crossed'[to] = (IF reading[to] THEN crossed[to] \cup said ELSE crossed[to])
  <2>1. CASE /\ told' = [told EXCEPT ![to] =
                            [part \in Part |-> IF part \in said THEN state[part] ELSE @[part]]]
             /\ old' = [old EXCEPT ![to] = @ \ said]
    <3>1. \A part \in Part : told'[to][part] = IF part \in said THEN state[part] ELSE told[to][part]
      BY <1>1, <2>1 DEF SyncType
    <3>2. old'[to] = old[to] \ said
      BY <1>1, <2>1 DEF SyncType
    <3>3. crossed'[to] = (IF reading[to] THEN crossed[to] \cup said ELSE crossed[to])
      BY <1>1 DEF Tell, SyncType
    <3> QED
      BY <3>1, <3>2, <3>3
  <2>2. CASE old' = [old EXCEPT ![to] = @ \cup said] /\ UNCHANGED told
    BY <1>1, <2>2 DEF Tell, SyncType
  <2> QED
    BY <2>1, <2>2 DEF Tell, Drop
<1>5. \A p \in Player, part \in Part :
        Pending(p, part) => Pending(p, part)' \/ (p = to /\ part \in said)
  <2>1. \A p \in Player : to <= p => p = to \/ to + 1 <= p
    BY <1>1 DEF Player
  <2> QED
    BY <1>1, <1>2, <2>1 DEF Pending
<1>6. ToldOrPending'
  <2> SUFFICES ASSUME NEW p \in Player, NEW part \in Part
               PROVE  told'[p][part] = state[part] \/ part \in old'[p] \/ Pending(p, part)'
    BY <1>1 DEF ToldOrPending
  <2>1. told[p][part] = state[part] \/ part \in old[p] \/ Pending(p, part)
    BY DEF SyncInv, ToldOrPending
  <2>2. CASE p # to
    BY <1>3, <1>5, <2>1, <2>2
  <2>3. CASE p = to /\ part \in said
    <3>1. told'[to][part] = state[part] \/ part \in old'[to]
      BY <1>4, <2>3
    <3> QED
      BY <2>3, <3>1
  <2>4. CASE p = to /\ part \notin said
    <3>1. Pending(p, part) => Pending(p, part)'
      BY <1>5, <2>4
    <3>2. told'[to][part] = told[to][part] /\ (part \in old[to] => part \in old'[to])
      BY <1>4, <2>4
    <3> QED
      BY <2>1, <2>4, <3>1, <3>2
  <2> QED
    BY <2>2, <2>3, <2>4
<1>7. AnswerOrPending'
  <2> SUFFICES ASSUME NEW p \in Player, NEW i \in 1..Len(answer[p])
               PROVE  \/ answer[p][i] = state[Fields[i]]
                      \/ Fields[i] \in crossed'[p]
                      \/ Pending(p, Fields[i])'
    BY <1>1 DEF AnswerOrPending
  <2>1. reading[p]
    BY DEF SyncInv, AnswerWhileReading, SyncType
  <2>2. Fields[i] \in Part
    <3>1. Len(answer[p]) \in Nat /\ Len(answer[p]) <= 6
      BY DEF SyncType
    <3> QED
      BY <3>1, Parts
  <2> QED
    BY <1>3, <1>4, <1>5, <2>1, <2>2 DEF SyncInv, AnswerOrPending
<1> QED
  BY <1>6, <1>7

LEMMA MarshalKeeps ==
  ASSUME SyncType, SyncInv, NEW p \in Player, Marshal(p)
  PROVE  SyncInv'
<1> DEFINE n == Len(answer[p]) + 1
           more == Append(answer[p], FieldRead(Fields[n]))
<1>1. answer[p] \in Seq(Nat) /\ n \in 1..6
  <2>1. Len(answer[p]) < Len(Fields) /\ Len(Fields) = 6
    BY Parts DEF Marshal
  <2>2. answer[p] \in Seq(Nat)
    BY DEF SyncType
  <2> QED
    BY <2>1, <2>2
<1>2. FieldRead(Fields[n]) = state[Fields[n]] /\ state[Fields[n]] \in Nat
  BY <1>1, Parts DEF FieldRead, SyncType
<1>3. /\ Len(more) = n /\ more[n] = state[Fields[n]]
      /\ \A i \in 1..Len(answer[p]) : more[i] = answer[p][i]
      /\ \A i \in 1..n : i \in 1..Len(answer[p]) \/ i = n
  BY <1>1, <1>2
<1>4. answer' = [answer EXCEPT ![p] = more] /\ reading[p]
      /\ UNCHANGED <<gameVars, handler, asked, reading, toldVars>>
  BY DEF Marshal
<1>5. answer'[p] = more /\ \A q \in Player : q # p => answer'[q] = answer[q]
  BY <1>4 DEF SyncType
<1>6. \A q \in Player : \A part : Pending(q, part)' = Pending(q, part)
  BY <1>4 DEF Pending, Untold, ResetUntold, gameVars
<1> HIDE DEF more, n
<1>7. AnswerOrPending'
  BY <1>3, <1>4, <1>5, <1>6 DEF SyncInv, AnswerOrPending, gameVars, toldVars
<1>8. AnswerWhileReading'
  BY <1>4, <1>5 DEF SyncInv, AnswerWhileReading
<1>9. Versions' /\ ToldOrPending'
  BY <1>4, <1>6 DEF SyncInv, Versions, ToldOrPending, gameVars, toldVars
<1> QED
  BY <1>7, <1>8, <1>9 DEF SyncInv

LEMMA SendKeeps ==
  ASSUME SyncType, SyncInv, NEW p \in Player, SendSyncState(p)
  PROVE  SyncInv'
<1>1. UNCHANGED gameVars
  BY DEF SendSyncState
<1>2. \A q \in Player : \A part : Pending(q, part)' = Pending(q, part)
  BY <1>1 DEF Pending, Untold, ResetUntold, gameVars
<1>3. \A q \in Player : q # p => /\ told'[q] = told[q] /\ old'[q] = old[q] /\ crossed'[q] = crossed[q]
                                 /\ answer'[q] = answer[q] /\ reading'[q] = reading[q]
  BY DEF SendSyncState, Drop, SyncType
<1>4. answer'[p] = <<>>
  BY DEF SendSyncState, SyncType, AfterAnswer
<1>5. ASSUME NEW part \in Part
      PROVE  told'[p][part] = state[part] \/ part \in old'[p] \/ Pending(p, part)
  <2> DEFINE i == CHOOSE j \in DOMAIN Fields : Fields[j] = part
  <2>1. i \in 1..6 /\ Fields[i] = part
    BY Parts
  <2>2. \/ told'[p][part] = answer[p][i] /\ old'[p] = crossed[p]
        \/ told'[p] = told[p] /\ old'[p] = old[p]
    <3>1. CASE /\ told' = [told EXCEPT ![p] = [x \in Part |->
                             answer[p][CHOOSE j \in DOMAIN Fields : Fields[j] = x]]]
               /\ old' = [old EXCEPT ![p] = crossed[p]]
      BY <3>1 DEF SyncType
    <3>2. CASE UNCHANGED <<told, old>>
      BY <3>2
    <3> QED
      BY <3>1, <3>2 DEF SendSyncState, Drop
  <2>3. Len(answer[p]) = 6
    BY Parts DEF SendSyncState
  <2> HIDE DEF i
  <2> QED
    BY <2>1, <2>2, <2>3 DEF SyncInv, AnswerOrPending, ToldOrPending
<1>6. ToldOrPending'
  BY <1>1, <1>2, <1>3, <1>5 DEF SyncInv, ToldOrPending, gameVars
<1>7. AnswerOrPending'
  BY <1>1, <1>2, <1>3, <1>4 DEF SyncInv, AnswerOrPending, gameVars
<1>8. AnswerWhileReading'
  BY <1>3, <1>4 DEF SyncInv, AnswerWhileReading
<1>9. Versions'
  BY <1>1 DEF SyncInv, Versions, gameVars
<1> QED
  BY <1>6, <1>7, <1>8, <1>9 DEF SyncInv

\* Whenever the game waits the players know the state, with the exceptions
\* that PlayersUpToDate names.
THEOREM PlayersAreUpToDate == Spec => []PlayersUpToDate
<1>1. Init => SyncInv
  BY Parts DEF Init, SyncInv, Versions, ToldOrPending, AnswerOrPending, AnswerWhileReading,
               Pending, Untold
<1>2. SyncType /\ SyncInv /\ [Next]_vars => SyncInv'
  <2> SUFFICES ASSUME SyncType, SyncInv, [Next]_vars PROVE SyncInv'
    OBVIOUS
  <2>1. CASE GameStep
    <3>1. AnswerWhileReading'
      BY <2>1, GameStepQuiet DEF SyncInv, AnswerWhileReading, readerVars
    <3> QED
      BY <2>1, <3>1, GameStepAnnounced, AnnouncedKeeps DEF SyncInv
  <2>2. CASE Tell
    <3>1. AnswerWhileReading' /\ Versions'
      BY <2>2 DEF Tell, SyncInv, AnswerWhileReading, Versions, readerVars
    <3> QED
      BY <2>2, <3>1, TellKeeps DEF SyncInv
  <2>3. CASE /\ UNCHANGED <<gameVars, answer, toldVars>>
             /\ \A p \in Player : answer[p] # <<>> => reading'[p] = reading[p]
    <3>1. \A p \in Player : \A part : Pending(p, part)' = Pending(p, part)
      BY <2>3 DEF Pending, Untold, ResetUntold, gameVars
    <3> QED
      BY <2>3, <3>1 DEF SyncInv, Versions, ToldOrPending, AnswerOrPending, AnswerWhileReading,
                        gameVars, toldVars
  <2>4. ASSUME NEW p \in Player, SetHandler(p) \/ Ask(p)
        PROVE  SyncInv'
    <3>1. CASE SetHandler(p)
      BY <2>3, <3>1 DEF SetHandler
    <3>2. CASE Ask(p)
      <4>1. answer[p] = <<>>
        BY <3>2 DEF Ask, SyncInv, AnswerWhileReading
      <4>2. \A q \in Player : q # p => reading'[q] = reading[q]
        BY <3>2 DEF Ask, SyncType
      <4> QED
        BY <2>3, <3>2, <4>1, <4>2 DEF Ask
    <3> QED
      BY <2>4, <3>1, <3>2
  <2>5. CASE Finished \/ UNCHANGED vars
    BY <2>3, <2>5 DEF Finished, vars, readerVars
  <2> QED
    BY <2>1, <2>2, <2>4, <2>5, MarshalKeeps, SendKeeps DEF Next, GameStep
<1>3. SyncType /\ SyncInv => PlayersUpToDate
  <2> SUFFICES ASSUME SyncType, SyncInv, at = "wait", to = 2, NEW p \in Player,
                      NEW part \in ToldAtWait \ old[p]
               PROVE  told[p][part] = state[part]
    BY DEF PlayersUpToDate
  <2>1. mover \in Player /\ 1 - mover \in Player /\ mover # 1 - mover /\ p < 2
    BY DEF SyncType, Player
  <2>2. part \in Part /\ part \notin Untold
    BY <2>1, Parts DEF ToldAtWait, Untold
  <2> QED
    BY <2>1, <2>2 DEF SyncInv, ToldOrPending, Pending, Player
<1> QED
  BY <1>1, <1>2, <1>3, TypeInvariant, PTL DEF Spec
-----------------------------------------------------------------------------
(***************************************************************************)
(* The handler.                                                            *)
(***************************************************************************)
\* Who has heard of the game, or is being answered, has his handler set.
HandlerFirst ==
  /\ at # "begin" \/ to < 2 => HandlersSet
  /\ \A p \in Player : reading[p] \/ Begun(p) => handler[p]

LEMMA HandlerInvariant == Spec => []HandlerFirst
<1>1. Init => HandlerFirst
  BY Parts DEF Init, HandlerFirst, Begun, Player
<1>2. SyncType /\ HandlerFirst /\ [Next]_vars => HandlerFirst'
  <2> SUFFICES ASSUME SyncType, HandlerFirst, [Next]_vars PROVE HandlerFirst'
    OBVIOUS
  <2>1. CASE GameStep
    <3>1. HandlersSet
      BY <2>1 DEF GameStep, HandlerFirst, GoesOn, GameBegin, NextTurn, Reset, Roll, Bust, DiceTouch,
                  Count, Picked, RollAgain, Bank, TurnTimeout, ClientClosed, Judge, Close
    <3> QED
      BY <2>1, <3>1, GameStepQuiet DEF HandlerFirst, HandlersSet, Begun, readerVars, toldVars
  <2>2. CASE Tell
    BY <2>2 DEF Tell, HandlerFirst, HandlersSet, readerVars
  <2>3. ASSUME NEW p \in Player, SetHandler(p)
        PROVE  HandlerFirst'
    BY <2>3 DEF SetHandler, HandlerFirst, HandlersSet, Begun, SyncType, gameVars, toldVars
  <2>4. ASSUME NEW p \in Player, Ask(p)
        PROVE  HandlerFirst'
    <3>1. reading'[p] => handler[p]
      BY <2>4 DEF Ask, HandlerSeen, SyncType
    <3>2. \A q \in Player : q # p => reading'[q] = reading[q]
      BY <2>4 DEF Ask, SyncType
    <3> QED
      BY <2>4, <3>1, <3>2 DEF Ask, HandlerFirst, HandlersSet, Begun, gameVars, toldVars
  <2>5. ASSUME NEW p \in Player, Marshal(p)
        PROVE  HandlerFirst'
    BY <2>5 DEF Marshal, HandlerFirst, HandlersSet, Begun, gameVars, toldVars
  <2>6. ASSUME NEW p \in Player, SendSyncState(p)
        PROVE  HandlerFirst'
    <3>1. handler[p] /\ ~reading'[p] /\ UNCHANGED <<at, to, handler>>
      BY <2>6 DEF SendSyncState, HandlerFirst, SyncType, gameVars
    <3>2. \A q \in Player : q # p => reading'[q] = reading[q] /\ told'[q] = told[q]
      BY <2>6 DEF SendSyncState, Drop, SyncType
    <3> QED
      BY <3>1, <3>2 DEF HandlerFirst, HandlersSet, Begun
  <2>7. CASE Finished \/ UNCHANGED vars
    BY <2>7 DEF Finished, vars, gameVars, readerVars, toldVars, HandlerFirst, HandlersSet, Begun
  <2> QED
    BY <2>1, <2>2, <2>3, <2>4, <2>5, <2>6, <2>7 DEF Next, GameStep
<1> QED
  BY <1>1, <1>2, TypeInvariant, PTL DEF Spec

\* No please-sync is dropped once its player has heard of the game.
THEOREM AlwaysHeardOnceBegun == Spec => HeardOnceBegun
<1> DEFINE Heard == \A p \in Player : asked'[p] # asked[p] /\ Begun(p) => reading'[p]
<1>1. SyncType /\ HandlerFirst /\ [Next]_vars => Heard
  <2> SUFFICES ASSUME SyncType, HandlerFirst, [Next]_vars, NEW p \in Player,
                      asked'[p] # asked[p], Begun(p)
               PROVE  reading'[p]
    OBVIOUS
  <2>1. Ask(p)
    <3>1. ~UNCHANGED asked
      OBVIOUS
    <3>2. ~GameStep
      BY <3>1, GameStepQuiet DEF readerVars
    <3>3. PICK q \in Player : Ask(q)
      BY <3>1, <3>2 DEF Next, GameStep, Tell, SetHandler, Marshal, SendSyncState, Finished, vars,
                        readerVars
    <3> QED
      BY <3>3 DEF Ask, SyncType
  <2> QED
    BY <2>1 DEF Ask, HandlerSeen, HandlerFirst, SyncType
<1> QED
  BY <1>1, TypeInvariant, HandlerInvariant, PTL DEF Spec, HeardOnceBegun
==============================================================================
