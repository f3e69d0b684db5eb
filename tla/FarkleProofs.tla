---------------------------- MODULE FarkleProofs -----------------------------
(***************************************************************************)
(* Proofs about FarkleGame, for any dice, faces, target and bound, with    *)
(* the proof that it implements FarkleMatch; and about FarklePlay, for any *)
(* buffers and any number of messages.                                     *)
(***************************************************************************)
EXTENDS FarklePlay, ScoringProofs, SequenceTheorems

\* Before a roll the mover has nothing selected.
RollStart ==
  phase = "roll" =>
    /\ scores[current].selected = 0
    /\ \A d \in DiceID : ~dice[current][d].selected

\* While the mover selects, the roll it selects from is not busted.
NotBusted == phase = "select" => ~hasBusted(countValues(dice[current], TRUE))

\* A turn that was just finished has decided at most its own player's fate.
JudgeUndecided ==
  phase = "judge" =>
    /\ winner = NoPlayer
    /\ scores[Other(current)].total < Target
    /\ timeouts[Other(current)] < StrikeLimit
    /\ timeouts[current] >= StrikeLimit => scores[current].total < Target

\* The inductive invariant.
IndInv ==
  /\ TypeOK
  /\ SelectionScored
  /\ SetAsideEarned
  /\ LiveGameUndecided
  /\ RollStart
  /\ NotBusted
  /\ JudgeUndecided
-----------------------------------------------------------------------------
(***************************************************************************)
(* The operators on dice.                                                  *)
(***************************************************************************)
DiceSet == [DiceID -> Die]

LEMMA OtherPlayer ==
  ASSUME NEW p \in Player
  PROVE  /\ Other(p) \in Player /\ Other(p) # p /\ Other(Other(p)) = p
         /\ \A q \in Player : q = p \/ q = Other(p)
         /\ p # NoPlayer
<1>1. p = 0 \/ p = 1
  BY DEF Player
<1> QED
  BY <1>1 DEF Player, Other, NoPlayer

LEMMA CountsType ==
  ASSUME NEW ds \in DiceSet, NEW all \in BOOLEAN
  PROVE  countValues(ds, all) \in Counts
<1> DEFINE Of(v) == {d \in DiceID : /\ ds[d].playable
                                    /\ ds[d].selected \/ all
                                    /\ ds[d].value = v}
<1>1. ASSUME NEW v \in Face
      PROVE  Cardinality(Of(v)) \in 0..6
  <2>1. Of(v) \subseteq DiceID
    OBVIOUS
  <2>2. IsFiniteSet(Of(v)) /\ Cardinality(Of(v)) <= Cardinality(DiceID)
    BY <2>1, FS_Subset, DiceAssumption
  <2>3. Cardinality(Of(v)) \in Nat
    BY <2>2, FS_CardinalityType
  <2> QED
    BY <2>2, <2>3, DiceAssumption
<1>2. countValues(ds, all) = [v \in Face |-> Cardinality(Of(v))]
  BY DEF countValues
<1> QED
  BY <1>1, <1>2 DEF Counts

LEMMA SelectionType ==
  ASSUME NEW ds \in DiceSet
  PROVE  scoreCounts(countValues(ds, FALSE)) \in [score : Nat, extra : BOOLEAN]
BY CountsType, ScoreType

\* Nothing selected is worth nothing.
LEMMA NothingSelected ==
  ASSUME NEW ds \in DiceSet, \A d \in DiceID : ~ds[d].selected
  PROVE  scoreCounts(countValues(ds, FALSE)) = [score |-> 0, extra |-> FALSE]
<1>1. \A v \in Face : countValues(ds, FALSE)[v] = 0
  <2> TAKE v \in Face
  <2>1. {d \in DiceID : /\ ds[d].playable
                        /\ ds[d].selected \/ FALSE
                        /\ ds[d].value = v} = {}
    OBVIOUS
  <2> QED
    BY <2>1, FS_EmptySet DEF countValues
<1> QED
  BY <1>1, CountsType, EmptyScore

LEMMA DieType ==
  ASSUME NEW ds \in DiceSet
  PROVE  \A d \in DiceID : /\ ds[d] \in Die
                           /\ ds[d].value \in Face
                           /\ ds[d].selected \in BOOLEAN
                           /\ ds[d].playable \in BOOLEAN
BY DEF DiceSet, Die

LEMMA ResetType ==
  ASSUME NEW ds \in DiceSet
  PROVE  /\ resetDice(ds) \in DiceSet
         /\ \A d \in DiceID : ~resetDice(ds)[d].selected /\ resetDice(ds)[d].playable
BY DieType DEF resetDice, DiceSet, Die

LEMMA RollType ==
  ASSUME NEW ds \in DiceSet, NEW face \in [DiceID -> Faces]
  PROVE  /\ rollDice(ds, face) \in DiceSet
         /\ \A d \in DiceID : /\ rollDice(ds, face)[d].selected = ds[d].selected
                              /\ ds[d].playable => rollDice(ds, face)[d].playable
<1> DEFINE some == \E d \in DiceID : ds[d].playable
           rolled == rollDice(ds, face)
<1>1. ASSUME NEW d \in DiceID
      PROVE  /\ rolled[d] \in Die
             /\ rolled[d].selected = ds[d].selected
             /\ ds[d].playable => rolled[d].playable
  <2>1. face[d] \in Face
    BY FacesAssumption
  <2>2. rolled[d] = [ds[d] EXCEPT !.playable = ds[d].playable \/ ~some,
                                  !.value = IF ds[d].playable \/ ~some THEN face[d] ELSE @]
    BY DEF rollDice
  <2> QED
    BY <2>1, <2>2, DieType DEF Die
<1>2. rolled = [d \in DiceID |-> rolled[d]]
  BY DEF rollDice
<1> QED
  BY <1>1, <1>2 DEF DiceSet

LEMMA TouchType ==
  ASSUME NEW ds \in DiceSet, NEW d \in DiceID, NEW selected \in BOOLEAN
  PROVE  /\ touchDice(ds, d, selected) \in DiceSet
         /\ \A e \in DiceID : /\ touchDice(ds, d, selected)[e].value = ds[e].value
                              /\ touchDice(ds, d, selected)[e].playable = ds[e].playable
                              /\ touchDice(ds, d, selected)[e].selected =
                                   IF e = d THEN selected ELSE ds[e].selected
BY DieType DEF touchDice, DiceSet, Die

LEMMA MoveType ==
  ASSUME NEW ds \in DiceSet
  PROVE  /\ moveSelectedToUnplayable(ds) \in DiceSet
         /\ \A d \in DiceID :
              /\ ~moveSelectedToUnplayable(ds)[d].selected
              /\ moveSelectedToUnplayable(ds)[d].playable = (ds[d].playable /\ ~ds[d].selected)
BY DieType DEF moveSelectedToUnplayable, DiceSet, Die
-----------------------------------------------------------------------------
(***************************************************************************)
(* The invariant, action by action.                                        *)
(***************************************************************************)
LEMMA InitInv == Init => IndInv
<1> SUFFICES ASSUME Init PROVE IndInv
  OBVIOUS
<1>1. NewDice \in DiceSet /\ \A d \in DiceID : ~NewDice[d].selected /\ NewDice[d].playable
  BY DEF NewDice, DiceSet, Die, Face
<1>2. NoScores \in Scores /\ NoScores.total = 0 /\ NoScores.turn = 0 /\ NoScores.selected = 0
  BY DEF NoScores, Scores
<1>3. TypeOK
  <2>1. dice \in [Player -> DiceSet] /\ scores \in [Player -> Scores]
    BY <1>1, <1>2 DEF Init
  <2>2. shown \in [scores : [Player -> Scores], dice : DiceSet]
    BY <1>1, <1>2 DEF Init
  <2>3. timeouts \in [Player -> 0..StrikeLimit]
    BY DEF Init, StrikeLimit
  <2> QED
    BY <2>1, <2>2, <2>3 DEF Init, TypeOK, Phase, DiceSet
<1>4. SetAsideEarned /\ LiveGameUndecided
  BY <1>1, <1>2, TargetAssumption DEF Init, SetAsideEarned, LiveGameUndecided, StrikeLimit
<1> QED
  BY <1>3, <1>4 DEF Init, IndInv, SelectionScored, RollStart, NotBusted, JudgeUndecided

\* What the type invariant says of the player who moves.
LEMMA MoverType ==
  ASSUME TypeOK
  PROVE  /\ current \in Player
         /\ dice[current] \in DiceSet
         /\ scores[current] \in Scores
         /\ scores[current].total \in Nat
         /\ scores[current].turn \in Nat
         /\ scores[current].selected \in Nat
BY DEF TypeOK, DiceSet, Scores

LEMMA TurnBeginInv ==
  ASSUME IndInv, TurnBegin
  PROVE  IndInv'
<1>1. current' \in Player
  BY OtherPlayer DEF IndInv, TypeOK, TurnBegin
<1>2. /\ scores' \in [Player -> Scores]
      /\ scores'[current'].turn = 0 /\ scores'[current'].selected = 0
      /\ \A p \in Player : scores'[p].total = scores[p].total
  BY <1>1 DEF IndInv, TypeOK, TurnBegin, Scores
<1>3. /\ dice' \in [Player -> DiceSet]
      /\ \A d \in DiceID : ~dice'[current'][d].selected /\ dice'[current'][d].playable
      /\ \A p \in Player : p # current' => dice'[p] = dice[p]
  BY <1>1, ResetType DEF IndInv, TypeOK, TurnBegin, DiceSet
<1>4. TypeOK'
  BY <1>1, <1>2, <1>3 DEF IndInv, TypeOK, TurnBegin, Phase, DiceSet
<1>5. SetAsideEarned'
  BY <1>3 DEF IndInv, SetAsideEarned
<1>6. LiveGameUndecided'
  BY <1>2, OtherPlayer DEF IndInv, TypeOK, LiveGameUndecided, TurnBegin, NoPlayer
<1> QED
  BY <1>2, <1>3, <1>4, <1>5, <1>6
     DEF IndInv, TurnBegin, SelectionScored, RollStart, NotBusted, JudgeUndecided

LEMMA RollDiceInv ==
  ASSUME IndInv, NEW face \in [DiceID -> Faces], RollDice(face)
  PROVE  IndInv'
<1> DEFINE rolled == rollDice(dice[current], face)
           lost == [scores EXCEPT ![current].turn = 0, ![current].selected = 0]
<1>1. phase = "roll" /\ TypeOK /\ UNCHANGED <<current, timeouts, winner>>
  BY DEF IndInv, RollDice
<1>2. /\ rolled \in DiceSet
      /\ \A d \in DiceID : rolled[d].selected = dice[current][d].selected
      /\ \A d \in DiceID : dice[current][d].playable => rolled[d].playable
  BY <1>1, RollType, MoverType
<1>3. dice' = [dice EXCEPT ![current] = rolled]
  BY DEF RollDice
<1>4. /\ dice' \in [Player -> DiceSet]
      /\ dice'[current] = rolled
      /\ \A p \in Player : p # current => dice'[p] = dice[p]
  BY <1>1, <1>2, <1>3, MoverType DEF TypeOK, DiceSet
<1>5. /\ lost \in [Player -> Scores]
      /\ lost[current] \in Scores
      /\ \A p \in Player : lost[p].total = scores[p].total
  BY <1>1, MoverType DEF TypeOK, Scores
<1>6. \A p \in Player, d \in DiceID : dice'[p][d].selected => dice'[p][d].playable
  BY <1>1, <1>2, <1>4 DEF IndInv, SetAsideEarned, RollStart
<1>7. CASE hasBusted(countValues(rolled, TRUE))
  <2>1. /\ phase' = "judge" /\ scores' = lost /\ UNCHANGED hasExtraDice
        /\ shown' = [ShowScore(current, lost[current]) EXCEPT !.dice = rolled]
    BY <1>7 DEF RollDice
  <2>2. TypeOK'
    BY <1>1, <1>2, <1>4, <1>5, <2>1 DEF TypeOK, Phase, DiceSet, ShowScore
  <2>3. LiveGameUndecided' /\ JudgeUndecided'
    BY <1>1, <1>5, <2>1, OtherPlayer, MoverType
       DEF IndInv, LiveGameUndecided, JudgeUndecided, TypeOK, NoPlayer
  <2> QED
    BY <1>6, <2>1, <2>2, <2>3 DEF IndInv, SelectionScored, SetAsideEarned, RollStart, NotBusted
<1>8. CASE ~hasBusted(countValues(rolled, TRUE))
  <2>1. /\ phase' = "select" /\ hasExtraDice' = FALSE /\ UNCHANGED scores
        /\ shown' = [shown EXCEPT !.dice = rolled]
    BY <1>8 DEF RollDice
  <2>2. TypeOK'
    BY <1>1, <1>2, <1>4, <2>1 DEF TypeOK, Phase, DiceSet
  <2>3. SelectionScored'
    <3>1. scoreCounts(countValues(rolled, FALSE)) = [score |-> 0, extra |-> FALSE]
      BY <1>1, <1>2, NothingSelected DEF IndInv, RollStart
    <3>2. Selection(current)' = [score |-> 0, extra |-> FALSE]
      <4>1. scoreCounts(countValues(dice'[current'], FALSE)) = scoreCounts(countValues(rolled, FALSE))
        BY <1>1, <1>4
      <4> QED
        BY <1>1, <3>1, <4>1 DEF Selection
    <3>3. Selection(current)'.score = 0 /\ Selection(current)'.extra = FALSE
      BY <3>2
    <3>4. scores'[current'].selected = 0 /\ hasExtraDice' = FALSE
      BY <1>1, <2>1 DEF IndInv, RollStart
    <3> QED
      BY <3>3, <3>4 DEF SelectionScored
  <2>4. SetAsideEarned'
    BY <1>1, <1>2, <1>4, <1>6, <2>1 DEF IndInv, SetAsideEarned
  <2>5. LiveGameUndecided'
    BY <1>1, <2>1 DEF IndInv, LiveGameUndecided
  <2> QED
    BY <1>1, <1>4, <1>8, <2>1, <2>2, <2>3, <2>4, <2>5 DEF IndInv, RollStart, NotBusted, JudgeUndecided
<1> QED
  BY <1>7, <1>8

LEMMA DiceTouchInv ==
  ASSUME IndInv, NEW d \in DiceID, NEW selected \in BOOLEAN, DiceTouch(d, selected)
  PROVE  IndInv'
<1> DEFINE touched == touchDice(dice[current], d, selected)
           result == scoreCounts(countValues(touched, FALSE))
<1>1. /\ phase = "select" /\ TypeOK /\ dice[current][d].playable
      /\ UNCHANGED <<phase, current, timeouts, winner>>
  BY DEF IndInv, DiceTouch
<1>2. /\ touched \in DiceSet
      /\ \A e \in DiceID : /\ touched[e].value = dice[current][e].value
                           /\ touched[e].playable = dice[current][e].playable
                           /\ touched[e].selected = IF e = d THEN selected
                                                    ELSE dice[current][e].selected
  BY <1>1, TouchType, MoverType
<1>3. result \in [score : Nat, extra : BOOLEAN]
  BY <1>2, SelectionType
<1>4. /\ dice' = [dice EXCEPT ![current] = touched]
      /\ scores' = [scores EXCEPT ![current].selected = IF result.extra THEN 0 ELSE result.score]
      /\ hasExtraDice' = result.extra
      /\ shown' = [ShowScore(current, scores'[current]) EXCEPT !.dice = touched]
  BY DEF DiceTouch
<1>5. /\ dice' \in [Player -> DiceSet]
      /\ dice'[current] = touched
      /\ \A p \in Player : p # current => dice'[p] = dice[p]
  BY <1>1, <1>2, <1>4, MoverType DEF TypeOK, DiceSet
<1>6. /\ scores' \in [Player -> Scores]
      /\ scores'[current].selected = (IF result.extra THEN 0 ELSE result.score)
      /\ scores'[current].turn = scores[current].turn
      /\ \A p \in Player : scores'[p].total = scores[p].total
  BY <1>1, <1>3, <1>4, MoverType DEF TypeOK, Scores
<1>7. TypeOK'
  <2>1. shown' \in [scores : [Player -> Scores], dice : DiceSet]
    BY <1>1, <1>2, <1>4, <1>6 DEF TypeOK, ShowScore, DiceSet
  <2> QED
    BY <1>1, <1>3, <1>4, <1>5, <1>6, <2>1 DEF TypeOK, DiceSet
<1>8. SelectionScored'
  <2>1. scoreCounts(countValues(dice'[current'], FALSE)) = result
    BY <1>1, <1>5
  <2> QED
    BY <1>1, <1>4, <1>6, <2>1 DEF SelectionScored, Selection
<1>9. SetAsideEarned'
  BY <1>1, <1>2, <1>5, <1>6 DEF IndInv, SetAsideEarned
<1>10. LiveGameUndecided'
  BY <1>1, <1>6, OtherPlayer DEF IndInv, LiveGameUndecided, NoPlayer
<1>11. NotBusted'
  <2>1. countValues(touched, TRUE) = countValues(dice[current], TRUE)
    BY <1>2 DEF countValues
  <2> QED
    BY <1>1, <1>5, <2>1 DEF IndInv, NotBusted
<1> QED
  BY <1>1, <1>7, <1>8, <1>9, <1>10, <1>11 DEF IndInv, RollStart, JudgeUndecided

LEMMA ScoreRollInv ==
  ASSUME IndInv, ScoreRoll
  PROVE  IndInv'
<1> DEFINE moved == moveSelectedToUnplayable(dice[current])
<1>1. /\ phase = "select" /\ phase' = "roll" /\ TypeOK
      /\ scores[current].selected # 0
      /\ UNCHANGED <<current, timeouts, hasExtraDice, winner>>
  BY DEF IndInv, ScoreRoll, CanScoreRoll
<1>2. /\ moved \in DiceSet
      /\ \A d \in DiceID : ~moved[d].selected
  BY <1>1, MoveType, MoverType
<1>3. /\ dice' \in [Player -> DiceSet]
      /\ dice'[current] = moved
      /\ \A p \in Player : p # current => dice'[p] = dice[p]
  BY <1>1, <1>2, MoverType DEF TypeOK, DiceSet, ScoreRoll
<1>4. /\ scores' \in [Player -> Scores]
      /\ scores'[current].turn = scores[current].turn + scores[current].selected
      /\ scores'[current].selected = 0
      /\ \A p \in Player : scores'[p].total = scores[p].total
  BY <1>1, MoverType DEF TypeOK, Scores, ScoreRoll
<1>5. scores'[current].turn > 0
  BY <1>1, <1>4, MoverType
<1>6. TypeOK'
  <2>1. shown' \in [scores : [Player -> Scores], dice : DiceSet]
    BY <1>1, <1>4 DEF TypeOK, ScoreRoll, ShowScore, DiceSet
  <2> QED
    BY <1>1, <1>3, <1>4, <2>1 DEF TypeOK, DiceSet, Phase
<1>7. SetAsideEarned'
  BY <1>1, <1>2, <1>3, <1>5 DEF IndInv, SetAsideEarned
<1>8. LiveGameUndecided'
  BY <1>1, <1>4, OtherPlayer DEF IndInv, LiveGameUndecided, NoPlayer
<1> QED
  BY <1>1, <1>2, <1>3, <1>4, <1>6, <1>7, <1>8
     DEF IndInv, SelectionScored, RollStart, NotBusted, JudgeUndecided

LEMMA EndTurnInv ==
  ASSUME IndInv, EndTurn
  PROVE  IndInv'
<1> DEFINE moved == moveSelectedToUnplayable(dice[current])
           earned == scores[current].turn + scores[current].selected
<1>1. /\ phase = "select" /\ phase' = "judge" /\ TypeOK
      /\ UNCHANGED <<current, timeouts, hasExtraDice, winner, shown>>
  BY DEF IndInv, EndTurn
<1>2. /\ moved \in DiceSet
      /\ \A d \in DiceID : ~moved[d].selected
  BY <1>1, MoveType, MoverType
<1>3. /\ dice' \in [Player -> DiceSet]
      /\ dice'[current] = moved
      /\ \A p \in Player : p # current => dice'[p] = dice[p]
  BY <1>1, <1>2, MoverType DEF TypeOK, DiceSet, EndTurn
<1>4. earned \in Nat
  BY <1>1, MoverType
<1>5. /\ scores' \in [Player -> Scores]
      /\ \A p \in Player : p # current => scores'[p] = scores[p]
  <2>1. scores' = [scores EXCEPT ![current] =
                     [total |-> scores[current].total + earned, turn |-> earned, selected |-> 0]]
    BY DEF EndTurn
  <2>2. [total |-> scores[current].total + earned, turn |-> earned, selected |-> 0] \in Scores
    BY <1>1, <1>4, MoverType DEF Scores
  <2> QED
    BY <1>1, <2>1, <2>2 DEF TypeOK
<1>6. TypeOK'
  BY <1>1, <1>3, <1>5 DEF TypeOK, DiceSet, Phase
<1>7. SetAsideEarned'
  BY <1>1, <1>2, <1>3 DEF IndInv, SetAsideEarned
<1>8. timeouts[current] < StrikeLimit /\ winner = NoPlayer
  BY <1>1, MoverType DEF IndInv, LiveGameUndecided
<1>9. Other(current) # current /\ Other(current) \in Player
  BY <1>1, OtherPlayer DEF TypeOK
<1>10. LiveGameUndecided' /\ JudgeUndecided'
  BY <1>1, <1>5, <1>8, <1>9 DEF IndInv, LiveGameUndecided, JudgeUndecided, TypeOK, StrikeLimit
<1> QED
  BY <1>1, <1>6, <1>7, <1>10 DEF IndInv, SelectionScored, RollStart, NotBusted

LEMMA TurnTimeoutInv ==
  ASSUME IndInv, TurnTimeout
  PROVE  IndInv'
<1>1. /\ phase = "select" /\ phase' = "judge" /\ TypeOK
      /\ UNCHANGED <<current, dice, hasExtraDice, winner, shown>>
  BY DEF IndInv, TurnTimeout
<1>2. /\ scores' \in [Player -> Scores]
      /\ \A p \in Player : scores'[p].total = scores[p].total
  BY <1>1, MoverType DEF TypeOK, Scores, TurnTimeout
<1>3. timeouts[current] < StrikeLimit /\ winner = NoPlayer
  BY <1>1, MoverType DEF IndInv, LiveGameUndecided
<1>4. /\ timeouts' \in [Player -> 0..StrikeLimit]
      /\ \A p \in Player : p # current => timeouts'[p] = timeouts[p]
  BY <1>1, <1>3 DEF TypeOK, TurnTimeout, Strike, StrikeLimit
<1>5. TypeOK'
  BY <1>1, <1>2, <1>4 DEF TypeOK, Phase
<1>6. Other(current) # current /\ Other(current) \in Player /\ current \in Player
  BY <1>1, OtherPlayer DEF TypeOK
<1>7. LiveGameUndecided' /\ JudgeUndecided'
  BY <1>1, <1>2, <1>3, <1>4, <1>6 DEF IndInv, LiveGameUndecided, JudgeUndecided
<1>8. SetAsideEarned'
  BY <1>1 DEF IndInv, SetAsideEarned
<1> QED
  BY <1>1, <1>5, <1>7, <1>8 DEF IndInv, SelectionScored, RollStart, NotBusted

LEMMA ClientClosedInv ==
  ASSUME IndInv, ClientClosed
  PROVE  IndInv'
<1>1. TypeOK'
  BY DEF IndInv, ClientClosed, TypeOK, Phase
<1> QED
  BY <1>1 DEF IndInv, ClientClosed, SelectionScored, SetAsideEarned, LiveGameUndecided, RollStart,
              NotBusted, JudgeUndecided

LEMMA JudgeInv ==
  ASSUME IndInv, Judge
  PROVE  IndInv'
<1> DEFINE lostOnTime == timeouts[current] >= StrikeLimit
           won == scores[current].total >= Target
<1>1. /\ phase = "judge" /\ TypeOK
      /\ UNCHANGED <<current, dice, scores, timeouts, hasExtraDice>>
  BY DEF IndInv, Judge
<1>2. /\ winner = NoPlayer
      /\ scores[Other(current)].total < Target
      /\ timeouts[Other(current)] < StrikeLimit
      /\ lostOnTime => ~won
  BY <1>1, MoverType, TargetAssumption DEF IndInv, JudgeUndecided
<1>3. /\ Other(current) \in Player /\ Other(Other(current)) = current /\ current \in Player
      /\ \A q \in Player : q = current \/ q = Other(current)
      /\ current # NoPlayer /\ Other(current) # NoPlayer
  BY <1>1, OtherPlayer DEF TypeOK
<1>4. shown' \in [scores : [Player -> Scores], dice : DiceSet]
  BY <1>1, MoverType DEF TypeOK, Judge, ShowScore, DiceSet
<1>5. CASE lostOnTime
  <2>1. phase' = "closing" /\ winner' = Other(current)
    BY <1>5 DEF Judge, StruckOut, HasTarget
  <2>2. timeouts[current] = StrikeLimit
    BY <1>1, <1>3, <1>5 DEF TypeOK, StrikeLimit
  <2>3. LiveGameUndecided'
    BY <1>1, <1>2, <1>3, <1>5, <2>1, <2>2, MoverType, TargetAssumption DEF LiveGameUndecided
  <2>4. TypeOK'
    BY <1>1, <1>3, <1>4, <2>1 DEF TypeOK, Phase, DiceSet
  <2> QED
    BY <1>1, <2>1, <2>3, <2>4
       DEF IndInv, SelectionScored, SetAsideEarned, RollStart, NotBusted, JudgeUndecided
<1>6. CASE ~lostOnTime /\ won
  <2>1. phase' = "closing" /\ winner' = current
    BY <1>6 DEF Judge, StruckOut, HasTarget
  <2>2. LiveGameUndecided'
    BY <1>1, <1>2, <1>3, <1>6, <2>1 DEF LiveGameUndecided
  <2>3. TypeOK'
    BY <1>1, <1>3, <1>4, <2>1 DEF TypeOK, Phase, DiceSet
  <2> QED
    BY <1>1, <2>1, <2>2, <2>3
       DEF IndInv, SelectionScored, SetAsideEarned, RollStart, NotBusted, JudgeUndecided
<1>7. CASE ~lostOnTime /\ ~won
  <2>1. phase' = "turn" /\ winner' = winner
    BY <1>7 DEF Judge, StruckOut, HasTarget
  <2>2. LiveGameUndecided'
    <3>1. timeouts[current] < StrikeLimit /\ scores[current].total < Target
      BY <1>1, <1>7, MoverType, TargetAssumption DEF TypeOK, StrikeLimit
    <3> QED
      BY <1>1, <1>2, <1>3, <2>1, <3>1 DEF LiveGameUndecided
  <2>3. TypeOK'
    BY <1>1, <1>4, <2>1 DEF TypeOK, Phase, DiceSet
  <2> QED
    BY <1>1, <2>1, <2>2, <2>3
       DEF IndInv, SelectionScored, SetAsideEarned, RollStart, NotBusted, JudgeUndecided
<1> QED
  BY <1>5, <1>6, <1>7

LEMMA CloseInv ==
  ASSUME IndInv, Close
  PROVE  IndInv'
<1>1. TypeOK'
  BY DEF IndInv, Close, TypeOK, Phase
<1> QED
  BY <1>1 DEF IndInv, Close, SelectionScored, SetAsideEarned, LiveGameUndecided, RollStart,
              NotBusted, JudgeUndecided

LEMMA StutterInv ==
  ASSUME IndInv, UNCHANGED vars
  PROVE  IndInv'
BY DEF IndInv, vars, TypeOK, SelectionScored, Selection, SetAsideEarned, LiveGameUndecided,
       RollStart, NotBusted, JudgeUndecided

\* The invariant holds in every game.
THEOREM Invariance == Spec => []IndInv
<1>1. IndInv /\ [Next]_vars => IndInv'
  <2> SUFFICES ASSUME IndInv, [Next]_vars PROVE IndInv'
    OBVIOUS
  <2>1. CASE TurnBegin
    BY <2>1, TurnBeginInv
  <2>2. CASE \E face \in [DiceID -> Faces] : RollDice(face)
    BY <2>2, RollDiceInv
  <2>3. CASE \E d \in DiceID, selected \in BOOLEAN : DiceTouch(d, selected)
    BY <2>3, DiceTouchInv
  <2>4. CASE ScoreRoll
    BY <2>4, ScoreRollInv
  <2>5. CASE EndTurn
    BY <2>5, EndTurnInv
  <2>6. CASE TurnTimeout
    BY <2>6, TurnTimeoutInv
  <2>7. CASE ClientClosed
    BY <2>7, ClientClosedInv
  <2>8. CASE Judge
    BY <2>8, JudgeInv
  <2>9. CASE Close
    BY <2>9, CloseInv
  <2>10. CASE Finished \/ UNCHANGED vars
    BY <2>10, StutterInv DEF Finished
  <2> QED
    BY <2>1, <2>2, <2>3, <2>4, <2>5, <2>6, <2>7, <2>8, <2>9, <2>10 DEF Next
<1> QED
  BY InitInv, <1>1, PTL DEF Spec
-----------------------------------------------------------------------------
(***************************************************************************)
(* What the invariant says about the safety properties of FarkleGame.      *)
(***************************************************************************)

\* Every value the game goroutine holds has its type; in particular nobody
\* collects more than the two time-outs that lose the match.
THEOREM TypeCorrect == Spec => []TypeOK
BY Invariance, PTL DEF IndInv

\* The cached points and extra-dice flag are those of the selected dice.
THEOREM SelectionAlwaysScored == Spec => []SelectionScored
BY Invariance, PTL DEF IndInv

\* Dice are set aside only by a turn that holds points.
THEOREM SetAsideAlwaysEarned == Spec => []SetAsideEarned
BY Invariance, PTL DEF IndInv

\* The game goes on exactly as long as it is undecided.
THEOREM LiveGameAlwaysUndecided == Spec => []LiveGameUndecided
BY Invariance, PTL DEF IndInv

\* The dice ds with exactly the dice of chosen selected.
Chosen(ds, chosen) == [d \in DiceID |-> [ds[d] EXCEPT !.selected = d \in chosen]]

LEMMA ChosenCounts ==
  ASSUME NEW ds \in DiceSet, NEW chosen \in SUBSET {d \in DiceID : ds[d].playable}
  PROVE  /\ Chosen(ds, chosen) \in DiceSet
         /\ \A v \in Face : countValues(Chosen(ds, chosen), FALSE)[v]
                              = Cardinality({d \in chosen : ds[d].value = v})
<1>1. \A d \in DiceID : /\ Chosen(ds, chosen)[d] \in Die
                        /\ Chosen(ds, chosen)[d].value = ds[d].value
                        /\ Chosen(ds, chosen)[d].playable = ds[d].playable
                        /\ Chosen(ds, chosen)[d].selected = (d \in chosen)
  <2> TAKE d \in DiceID
  <2>1. Chosen(ds, chosen)[d] = [ds[d] EXCEPT !.selected = d \in chosen]
    BY DEF Chosen
  <2>2. ds[d] = [value |-> ds[d].value, selected |-> ds[d].selected, playable |-> ds[d].playable]
    BY DieType DEF Die
  <2>3. Chosen(ds, chosen)[d] =
          [value |-> ds[d].value, selected |-> d \in chosen, playable |-> ds[d].playable]
    BY <2>1, <2>2
  <2>4. (d \in chosen) \in BOOLEAN
    OBVIOUS
  <2> QED
    BY <2>3, <2>4, DieType DEF Die
<1>2. Chosen(ds, chosen) \in DiceSet
  BY <1>1 DEF Chosen, DiceSet
<1>3. ASSUME NEW v \in Face
      PROVE  countValues(Chosen(ds, chosen), FALSE)[v]
               = Cardinality({d \in chosen : ds[d].value = v})
  <2>1. {d \in DiceID : /\ Chosen(ds, chosen)[d].playable
                        /\ Chosen(ds, chosen)[d].selected \/ FALSE
                        /\ Chosen(ds, chosen)[d].value = v}
          = {d \in chosen : ds[d].value = v}
    BY <1>1
  <2> QED
    BY <2>1 DEF countValues
<1> QED
  BY <1>2, <1>3

\* A roll that shows a face is a roll in which some playable die shows it.
LEMMA ShownFace ==
  ASSUME NEW ds \in DiceSet, NEW v \in Face, countValues(ds, TRUE)[v] > 0
  PROVE  \E d \in DiceID : ds[d].playable /\ ds[d].value = v
<1> DEFINE Of == {d \in DiceID : /\ ds[d].playable
                                 /\ ds[d].selected \/ TRUE
                                 /\ ds[d].value = v}
<1>1. Cardinality(Of) > 0
  BY DEF countValues
<1>2. Of # {}
  <2>1. Cardinality({}) = 0
    BY FS_EmptySet
  <2> HIDE DEF Of
  <2> QED
    BY <1>1, <2>1
<1> QED
  BY <1>2

\* All playable dice of one face score if there are three of them, or if the
\* face is 1 or 5.
LEMMA KindPossible ==
  ASSUME NEW ds \in DiceSet, NEW v \in Face,
         \/ countValues(ds, TRUE)[v] >= 3
         \/ v \in {1, 5} /\ countValues(ds, TRUE)[v] > 0
  PROVE  \E chosen \in SUBSET {d \in DiceID : ds[d].playable} :
           LET result == scoreCounts(countValues(Chosen(ds, chosen), FALSE))
           IN  result.score > 0 /\ ~result.extra
<1> DEFINE chosen == {d \in DiceID : ds[d].playable /\ ds[d].value = v}
           c == countValues(Chosen(ds, chosen), FALSE)
<1>1. chosen \in SUBSET {d \in DiceID : ds[d].playable}
  OBVIOUS
<1>2. /\ Chosen(ds, chosen) \in DiceSet
      /\ \A w \in Face : c[w] = Cardinality({d \in chosen : ds[d].value = w})
  BY <1>1, ChosenCounts
<1>3. c \in Counts
  BY <1>2, CountsType
<1>4. \A w \in Face : w # v => c[w] = 0
  <2> TAKE w \in Face
  <2> HAVE w # v
  <2>1. {d \in chosen : ds[d].value = w} = {}
    OBVIOUS
  <2> QED
    BY <1>2, <2>1, FS_EmptySet
<1>5. c[v] = countValues(ds, TRUE)[v]
  <2>1. {d \in chosen : ds[d].value = v}
          = {d \in DiceID : /\ ds[d].playable
                            /\ ds[d].selected \/ TRUE
                            /\ ds[d].value = v}
    OBVIOUS
  <2>2. c[v] = Cardinality({d \in chosen : ds[d].value = v})
    BY <1>2
  <2> QED
    BY <2>1, <2>2 DEF countValues
<1>6. scoreCounts(c).score > 0 /\ ~scoreCounts(c).extra
  <2> HIDE DEF c
  <2> QED
    BY <1>3, <1>4, <1>5, KindScores
<1> QED
  BY <1>1, <1>6

\* One die of each face of a straight scores.
LEMMA StraightPossible ==
  ASSUME NEW ds \in DiceSet, NEW first \in {1, 2},
         \A v \in first .. (first + 4) : countValues(ds, TRUE)[v] > 0
  PROVE  \E chosen \in SUBSET {d \in DiceID : ds[d].playable} :
           LET result == scoreCounts(countValues(Chosen(ds, chosen), FALSE))
           IN  result.score > 0 /\ ~result.extra
<1> DEFINE faces == first .. (first + 4)
           die(v) == CHOOSE d \in DiceID : ds[d].playable /\ ds[d].value = v
           chosen == {die(v) : v \in faces}
           c == countValues(Chosen(ds, chosen), FALSE)
<1>1. faces \subseteq Face
  BY DEF Face
<1>2. \A v \in faces : die(v) \in DiceID /\ ds[die(v)].playable /\ ds[die(v)].value = v
  <2> TAKE v \in faces
  <2>1. \E d \in DiceID : ds[d].playable /\ ds[d].value = v
    BY <1>1, ShownFace
  <2> QED
    BY <2>1
<1>3. chosen \in SUBSET {d \in DiceID : ds[d].playable}
  BY <1>2
<1>4. /\ Chosen(ds, chosen) \in DiceSet
      /\ \A w \in Face : c[w] = Cardinality({d \in chosen : ds[d].value = w})
  BY <1>3, ChosenCounts
<1>5. c \in Counts
  BY <1>4, CountsType
<1>6. \A v \in Face : c[v] = IF v \in faces THEN 1 ELSE 0
  <2> TAKE v \in Face
  <2>1. CASE v \in faces
    <3>1. {d \in chosen : ds[d].value = v} = {die(v)}
      BY <1>2, <2>1
    <3>2. Cardinality({die(v)}) = 1
      BY FS_Singleton
    <3> QED
      BY <1>4, <2>1, <3>1, <3>2
  <2>2. CASE v \notin faces
    <3>1. {d \in chosen : ds[d].value = v} = {}
      BY <1>2, <2>2
    <3> QED
      BY <1>4, <2>2, <3>1, FS_EmptySet
  <2> QED
    BY <2>1, <2>2
<1>7. scoreCounts(c).score > 0 /\ ~scoreCounts(c).extra
  <2> HIDE DEF c
  <2> QED
    BY <1>5, <1>6, StraightScores
<1> QED
  BY <1>3, <1>7

\* A roll that is not busted has a selection that scores without extra dice.
LEMMA NotBustedPossible ==
  ASSUME NEW ds \in DiceSet, ~hasBusted(countValues(ds, TRUE))
  PROVE  \E chosen \in SUBSET {d \in DiceID : ds[d].playable} :
           LET result == scoreCounts(countValues(Chosen(ds, chosen), FALSE))
           IN  result.score > 0 /\ ~result.extra
<1>1. \/ \E v \in {1, 5} : countValues(ds, TRUE)[v] > 0
      \/ \E v \in Face : countValues(ds, TRUE)[v] >= 3
      \/ \A v \in 1..5 : countValues(ds, TRUE)[v] > 0
      \/ \A v \in 2..6 : countValues(ds, TRUE)[v] > 0
  BY DEF hasBusted, hasSingle, hasThreeOfKind, hasLowerStraight, hasUpperStraight
<1>2. CASE \E v \in {1, 5} : countValues(ds, TRUE)[v] > 0
  <2>1. PICK v \in {1, 5} : countValues(ds, TRUE)[v] > 0
    BY <1>2
  <2>2. v \in Face
    BY DEF Face
  <2> QED
    BY <2>1, <2>2, KindPossible
<1>3. CASE \E v \in Face : countValues(ds, TRUE)[v] >= 3
  <2>1. PICK v \in Face : countValues(ds, TRUE)[v] >= 3
    BY <1>3
  <2> QED
    BY <2>1, KindPossible
<1>4. CASE \A v \in 1..5 : countValues(ds, TRUE)[v] > 0
  <2>1. 1 .. (1 + 4) = 1..5 /\ 1 \in {1, 2}
    OBVIOUS
  <2> QED
    BY <1>4, <2>1, StraightPossible
<1>5. CASE \A v \in 2..6 : countValues(ds, TRUE)[v] > 0
  <2>1. 2 .. (2 + 4) = 2..6 /\ 2 \in {1, 2}
    OBVIOUS
  <2> QED
    BY <1>5, <2>1, StraightPossible
<1> QED
  BY <1>1, <1>2, <1>3, <1>4, <1>5

\* A player whom the game asks for a selection can always make one that
\* scores: hasBusted overlooks no dead roll, whatever the dice and faces.
THEOREM SelectionAlwaysPossible == Spec => []SelectionPossible
<1>1. IndInv => SelectionPossible
  <2> SUFFICES ASSUME IndInv, phase = "select"
               PROVE  \E chosen \in SUBSET {d \in DiceID : dice[current][d].playable} :
                        LET touched == Chosen(dice[current], chosen)
                            result == scoreCounts(countValues(touched, FALSE))
                        IN  result.score > 0 /\ ~result.extra
    BY DEF SelectionPossible, Chosen
  <2>1. dice[current] \in DiceSet /\ ~hasBusted(countValues(dice[current], TRUE))
    BY MoverType DEF IndInv, NotBusted
  <2> QED
    BY <2>1, NotBustedPossible
<1> QED
  BY <1>1, Invariance, PTL

\* A turn is lost to the roll only when the roll left nothing to choose: no
\* dice that the mover might have selected would have scored.
BustStep ==
  phase = "roll" /\ phase' = "judge" =>
    \A chosen \in SUBSET {d \in DiceID : dice'[current][d].playable} :
      LET result == scoreCounts(countValues(Chosen(dice'[current], chosen), FALSE))
      IN  result.score = 0 \/ result.extra

THEOREM BustsHaveNoChoice == Spec => [][BustStep]_vars
<1>1. IndInv /\ [Next]_vars => [BustStep]_vars
  <2> SUFFICES ASSUME IndInv, Next, phase = "roll", phase' = "judge",
                      NEW chosen \in SUBSET {d \in DiceID : dice'[current][d].playable}
               PROVE  LET result == scoreCounts(countValues(Chosen(dice'[current], chosen), FALSE))
                      IN  result.score = 0 \/ result.extra
    BY DEF BustStep
  <2> DEFINE ds == dice'[current]
             c == countValues(ds, TRUE)
             s == countValues(Chosen(ds, chosen), FALSE)
  <2>1. PICK face \in [DiceID -> Faces] : RollDice(face)
    BY DEF Next, TurnBegin, DiceTouch, ScoreRoll, EndTurn, TurnTimeout, ClientClosed, Judge, Close,
           Finished
  <2>2. ds = rollDice(dice[current], face) /\ hasBusted(countValues(rollDice(dice[current], face), TRUE))
    BY <2>1, MoverType DEF RollDice, IndInv, TypeOK
  <2>3. ds \in DiceSet /\ hasBusted(c)
    BY <2>2, MoverType, RollType DEF IndInv
  <2>4. \A v \in Face : s[v] = Cardinality({d \in chosen : ds[d].value = v})
    BY <2>3, ChosenCounts
  <2>5. s \in Counts /\ c \in Counts
    BY <2>3, ChosenCounts, CountsType
  <2>6. ASSUME NEW v \in Face
        PROVE  s[v] <= c[v]
    <3> DEFINE All == {d \in DiceID : /\ ds[d].playable
                                      /\ ds[d].selected \/ TRUE
                                      /\ ds[d].value = v}
               Some == {d \in chosen : ds[d].value = v}
    <3>1. c[v] = Cardinality(All)
      BY DEF countValues
    <3>2. Some \subseteq All /\ All \subseteq DiceID
      OBVIOUS
    <3>3. IsFiniteSet(All)
      BY <3>2, FS_Subset, DiceAssumption
    <3>4. Cardinality(Some) <= Cardinality(All)
      BY <3>2, <3>3, FS_Subset
    <3> QED
      BY <2>4, <3>1, <3>4
  <2> HIDE DEF c, s, ds
  <2>7. s \in [Face -> Int] /\ \A v \in Face : s[v] \in 0..6 /\ c[v] \in 0..6 /\ s[v] <= c[v]
    BY <2>5, <2>6 DEF Counts
  <2>8. c[1] = 0 /\ c[5] = 0 /\ \A v \in Face : c[v] < 3
    BY <2>3, <2>7 DEF hasBusted, hasSingle, hasThreeOfKind, Face
  <2>9. s[1] = 0 /\ s[5] = 0 /\ \A v \in {2, 3, 4, 6} : s[v] \in 0..2
    BY <2>7, <2>8 DEF Face
  <2>10. ~Earns(s)
    BY <2>9, FewEarnNothing
  <2>11. scoreCounts(s).score \in Nat
    BY <2>5, ScoreType
  <2>12. scoreCounts(s).score = 0 \/ scoreCounts(s).extra
    BY <2>10, <2>11 DEF Earns
  <2> QED
    BY <2>12 DEF s, ds
<1> QED
  BY <1>1, Invariance, PTL DEF Spec

\* Rolling again costs at least one die and adds points.
THEOREM RollingAgainCosts == Spec => RollAgainCosts
<1>1. IndInv /\ [Next]_vars => [RollAgainCostsStep]_vars
  <2> SUFFICES ASSUME IndInv, Next, phase = "select", phase' = "roll"
               PROVE  RollAgainCostsStep
    BY DEF RollAgainCostsStep
  <2>1. ScoreRoll
    BY DEF Next, TurnBegin, RollDice, DiceTouch, EndTurn, TurnTimeout, ClientClosed, Judge, Close,
           Finished
  <2>2. /\ scores[current].selected # 0
        /\ scores' = [scores EXCEPT ![current].turn = @ + scores[current].selected,
                                    ![current].selected = 0]
        /\ dice' = [dice EXCEPT ![current] = moveSelectedToUnplayable(@)]
    BY <2>1 DEF ScoreRoll, CanScoreRoll
  <2>3. TypeOK /\ current \in Player /\ dice[current] \in DiceSet
    BY MoverType DEF IndInv
  <2>4. scores'[current].turn > scores[current].turn
    BY <2>2, <2>3, MoverType DEF TypeOK
  <2>5. dice'[current] = moveSelectedToUnplayable(dice[current])
    BY <2>2, <2>3 DEF TypeOK
  <2>6. \A d \in DiceID :
          /\ dice'[current][d].playable => dice[current][d].playable
          /\ dice[current][d].selected => ~dice'[current][d].playable
    BY <2>3, <2>5, MoveType
  <2>7. PICK d \in DiceID : dice[current][d].selected
    <3> SUFFICES ASSUME \A d \in DiceID : ~dice[current][d].selected PROVE FALSE
      OBVIOUS
    <3>1. Selection(current) = [score |-> 0, extra |-> FALSE]
      BY <2>3, NothingSelected DEF Selection
    <3>2. Selection(current).score = 0
      BY <3>1
    <3> QED
      BY <2>2, <3>2 DEF IndInv, SelectionScored
  <2>8. dice[current][d].playable /\ ~dice'[current][d].playable
    BY <2>3, <2>6, <2>7 DEF IndInv, SetAsideEarned
  <2> QED
    BY <2>4, <2>6, <2>8 DEF RollAgainCostsStep
<1> QED
  BY <1>1, Invariance, PTL DEF Spec, RollAgainCosts

\* Totals change only by banking the turn's points and the selection's value.
THEOREM BankedPointsAlwaysBacked == Spec => BankedPointsBacked
<1>1. IndInv /\ [Next]_vars => [BankedPointsBackedStep]_vars
  <2> SUFFICES ASSUME IndInv, Next, NEW p \in Player, scores'[p].total # scores[p].total
               PROVE  /\ p = current /\ phase = "select" /\ phase' = "judge"
                      /\ ~Selection(p).extra
                      /\ scores'[p].total = scores[p].total + scores[p].turn + Selection(p).score
    BY DEF BankedPointsBackedStep
  <2>1. TypeOK /\ current \in Player /\ scores[p] \in Scores
    BY DEF IndInv, TypeOK
  <2>2. EndTurn
    <3>1. ASSUME TurnBegin PROVE FALSE
      <4>1. current' \in Player
        BY <2>1, <3>1, OtherPlayer DEF TurnBegin
      <4>2. \A q \in Player : scores'[q].total = scores[q].total
        BY <2>1, <3>1, <4>1 DEF TurnBegin, TypeOK, Scores
      <4> QED
        BY <4>2
    <3>2. ASSUME NEW face \in [DiceID -> Faces], RollDice(face) PROVE FALSE
      <4>1. \/ UNCHANGED scores
            \/ scores' = [scores EXCEPT ![current].turn = 0, ![current].selected = 0]
        BY <3>2 DEF RollDice
      <4>2. CASE UNCHANGED scores
        BY <4>2
      <4>3. CASE scores' = [scores EXCEPT ![current].turn = 0, ![current].selected = 0]
        <5>1. \A q \in Player : scores'[q].total = scores[q].total
          BY <2>1, <4>3 DEF TypeOK, Scores
        <5> QED
          BY <5>1
      <4> QED
        BY <4>1, <4>2, <4>3
    <3>3. ASSUME NEW d \in DiceID, NEW selected \in BOOLEAN, DiceTouch(d, selected) PROVE FALSE
      <4> DEFINE result == scoreCounts(countValues(touchDice(dice[current], d, selected), FALSE))
                 points == IF result.extra THEN 0 ELSE result.score
      <4>1. scores' = [scores EXCEPT ![current].selected = points]
        BY <3>3 DEF DiceTouch
      <4> HIDE DEF points
      <4>2. \A q \in Player : scores'[q].total = scores[q].total
        BY <2>1, <4>1 DEF TypeOK, Scores
      <4> QED
        BY <4>2
    <3>4. ASSUME ScoreRoll PROVE FALSE
      <4>1. \A q \in Player : scores'[q].total = scores[q].total
        BY <2>1, <3>4 DEF ScoreRoll, TypeOK, Scores
      <4> QED
        BY <4>1
    <3>5. ASSUME TurnTimeout PROVE FALSE
      <4>1. \A q \in Player : scores'[q].total = scores[q].total
        BY <2>1, <3>5 DEF TurnTimeout, TypeOK, Scores
      <4> QED
        BY <4>1
    <3>6. ~ClientClosed /\ ~Judge /\ ~Close /\ ~Finished
      BY DEF ClientClosed, Judge, Close, Finished, vars
    <3> QED
      BY <3>1, <3>2, <3>3, <3>4, <3>5, <3>6 DEF Next
  <2>3. /\ phase = "select" /\ phase' = "judge" /\ ~hasExtraDice
        /\ scores' = [scores EXCEPT ![current] =
             [total |-> scores[current].total + (scores[current].turn + scores[current].selected),
              turn |-> scores[current].turn + scores[current].selected, selected |-> 0]]
    BY <2>2 DEF EndTurn, CanEndTurn
  <2>4. p = current
    BY <2>1, <2>3 DEF TypeOK
  <2>5. scores'[p].total = scores[p].total + (scores[p].turn + scores[p].selected)
    BY <2>1, <2>3, <2>4 DEF TypeOK
  <2>6. ~Selection(p).extra /\ scores[p].selected = Selection(p).score
    BY <2>3, <2>4 DEF IndInv, SelectionScored
  <2>7. scores[p].total \in Nat /\ scores[p].turn \in Nat /\ scores[p].selected \in Nat
    BY <2>1 DEF Scores
  <2> QED
    BY <2>3, <2>4, <2>5, <2>6, <2>7
<1> QED
  BY <1>1, Invariance, PTL DEF Spec, BankedPointsBacked
-----------------------------------------------------------------------------
(***************************************************************************)
(* The rules engine implements the abstract match: totals, strikes, turns  *)
(* and the result behave as FarkleMatch says, whatever the dice show and   *)
(* whatever the players select.                                            *)
(***************************************************************************)
MatchVars == <<matchMover, matchTotal, timeouts, matchStage, winner>>

LEMMA MatchInit ==
  ASSUME Init
  PROVE  Match!Init
<1>1. matchMover \in Player
  BY OtherPlayer DEF Init, matchMover
<1>2. matchTotal = [p \in Player |-> 0]
  BY DEF Init, matchTotal, NoScores
<1>3. matchStage = "play"
  BY DEF Init, matchStage
<1> QED
  BY <1>1, <1>2, <1>3 DEF Init, Match!Init, Match!Player, Player, Match!NoPlayer, NoPlayer

\* Steps inside a turn, and the step that starts one, change no total.
LEMMA SameTotals ==
  ASSUME TypeOK, \A p \in Player : scores'[p].total = scores[p].total
  PROVE  matchTotal' = matchTotal
BY DEF matchTotal

\* A new turn changes nothing of the match but its mover, which the mapping
\* has already advanced.
LEMMA TurnBeginMatch ==
  ASSUME IndInv, TurnBegin
  PROVE  UNCHANGED MatchVars
<1>1. /\ phase = "turn" /\ phase' = "roll" /\ TypeOK /\ current \in Player
      /\ current' = Other(current) /\ UNCHANGED <<timeouts, winner>>
  BY DEF IndInv, TypeOK, TurnBegin
<1>2. current' \in Player
  BY <1>1, OtherPlayer
<1>3. \A p \in Player : scores'[p].total = scores[p].total
  BY <1>1, <1>2 DEF TypeOK, TurnBegin, Scores
<1> QED
  BY <1>1, <1>3, SameTotals DEF MatchVars, matchMover, matchStage

\* A busted roll is a turn without gain, any other roll is inside the turn.
LEMMA RollDiceMatch ==
  ASSUME IndInv, NEW face \in [DiceID -> Faces], RollDice(face)
  PROVE  Match!Turn \/ UNCHANGED MatchVars
<1>1. /\ phase = "roll" /\ TypeOK /\ current \in Player
      /\ UNCHANGED <<current, timeouts, winner>>
  BY DEF IndInv, TypeOK, RollDice
<1>2. CASE phase' = "judge" /\ scores' = [scores EXCEPT ![current].turn = 0, ![current].selected = 0]
  <2>1. \A p \in Player : scores'[p].total = scores[p].total
    BY <1>1, <1>2 DEF TypeOK, Scores
  <2>2. matchTotal' = matchTotal
    BY <1>1, <2>1, SameTotals
  <2>3. /\ matchStage = "play" /\ matchStage' = "judge" /\ matchMover = current
        /\ matchMover' = matchMover
    BY <1>1, <1>2 DEF matchStage, matchMover
  <2>4. matchTotal \in [Match!Player -> Nat]
    BY <1>1 DEF TypeOK, Scores, matchTotal, Match!Player, Player
  <2>5. /\ matchTotal'[matchMover] >= matchTotal[matchMover]
        /\ matchTotal'[Match!Other(matchMover)] = matchTotal[Match!Other(matchMover)]
    BY <1>1, <2>2, <2>3, <2>4 DEF Match!Player, Player
  <2> QED
    BY <1>1, <2>2, <2>3, <2>4, <2>5 DEF Match!Turn
<1>3. CASE phase' = "select" /\ UNCHANGED scores
  BY <1>1, <1>3 DEF MatchVars, matchMover, matchTotal, matchStage
<1> QED
  BY <1>2, <1>3 DEF RollDice

LEMMA SelectMatch ==
  ASSUME IndInv,
         ScoreRoll \/ \E d \in DiceID, selected \in BOOLEAN : DiceTouch(d, selected)
  PROVE  UNCHANGED MatchVars
<1>1. /\ phase = "select" /\ phase' \in {"select", "roll"} /\ TypeOK /\ current \in Player
      /\ UNCHANGED <<current, timeouts, winner>>
  BY DEF IndInv, TypeOK, ScoreRoll, DiceTouch
<1>2. \A p \in Player : scores'[p].total = scores[p].total
  <2>1. CASE ScoreRoll
    BY <1>1, <2>1 DEF ScoreRoll, TypeOK, Scores
  <2>2. ASSUME NEW d \in DiceID, NEW selected \in BOOLEAN, DiceTouch(d, selected)
        PROVE  \A p \in Player : scores'[p].total = scores[p].total
    <3> DEFINE result == scoreCounts(countValues(touchDice(dice[current], d, selected), FALSE))
               points == IF result.extra THEN 0 ELSE result.score
    <3>1. scores' = [scores EXCEPT ![current].selected = points]
      BY <2>2 DEF DiceTouch
    <3> HIDE DEF points
    <3> QED
      BY <1>1, <3>1 DEF TypeOK, Scores
  <2> QED
    BY <2>1, <2>2
<1>3. UNCHANGED matchTotal
  BY <1>1, <1>2, SameTotals
<1> QED
  BY <1>1, <1>3 DEF MatchVars, matchMover, matchStage

\* Banking is a turn that gains points for the mover and nobody else.
LEMMA EndTurnMatch ==
  ASSUME IndInv, EndTurn
  PROVE  Match!Turn
<1> DEFINE earned == scores[current].turn + scores[current].selected
<1>1. /\ phase = "select" /\ phase' = "judge" /\ TypeOK /\ current \in Player
      /\ UNCHANGED <<current, timeouts, winner>>
  BY DEF IndInv, TypeOK, EndTurn
<1>2. earned \in Nat /\ scores[current].total \in Nat
  BY <1>1, MoverType
<1>3. scores' = [scores EXCEPT ![current] =
                   [total |-> scores[current].total + earned, turn |-> earned, selected |-> 0]]
  BY DEF EndTurn
<1> HIDE DEF earned
<1>4. /\ scores'[current].total = scores[current].total + earned
      /\ \A p \in Player : p # current => scores'[p].total = scores[p].total
  BY <1>1, <1>3 DEF TypeOK
<1>5. matchTotal \in [Player -> Nat] /\ \A p \in Player : matchTotal[p] = scores[p].total
  BY <1>1 DEF TypeOK, Scores, matchTotal
<1>6. \A p \in Player : scores'[p].total \in Nat
  BY <1>2, <1>4, <1>5
<1>7. matchTotal' \in [Player -> Nat] /\ \A p \in Player : matchTotal'[p] = scores'[p].total
  BY <1>6 DEF matchTotal
<1>8. /\ matchStage = "play" /\ matchStage' = "judge" /\ matchMover = current
      /\ matchMover' = matchMover
  BY <1>1 DEF matchStage, matchMover
<1>9. Other(current) \in Player /\ Other(current) # current
  BY <1>1, OtherPlayer
<1>10. Match!Player = Player /\ Match!Other(current) = Other(current)
  BY DEF Match!Player, Player, Match!Other, Other
<1>11. /\ matchTotal'[matchMover] >= matchTotal[matchMover]
       /\ matchTotal'[Match!Other(matchMover)] = matchTotal[Match!Other(matchMover)]
  BY <1>1, <1>2, <1>4, <1>5, <1>7, <1>8, <1>9, <1>10
<1> QED
  BY <1>1, <1>7, <1>8, <1>10, <1>11 DEF Match!Turn

\* A time-out is a strike.
LEMMA TurnTimeoutMatch ==
  ASSUME IndInv, TurnTimeout
  PROVE  Match!Turn
<1>1. /\ phase = "select" /\ phase' = "judge" /\ TypeOK /\ current \in Player
      /\ UNCHANGED <<current, winner>>
      /\ timeouts' = [timeouts EXCEPT ![current] = @ + 1]
  BY DEF IndInv, TypeOK, TurnTimeout, Strike
<1>2. \A p \in Player : scores'[p].total = scores[p].total
  BY <1>1 DEF TypeOK, Scores, TurnTimeout
<1>3. UNCHANGED matchTotal
  BY <1>1, <1>2, SameTotals
<1>4. /\ matchStage = "play" /\ matchStage' = "judge" /\ matchMover = current
      /\ matchMover' = matchMover
  BY <1>1 DEF matchStage, matchMover
<1> QED
  BY <1>1, <1>3, <1>4 DEF Match!Turn

LEMMA ClientClosedMatch ==
  ASSUME IndInv, ClientClosed
  PROVE  Match!Abort
<1>1. UNCHANGED <<current, scores, timeouts, winner>> /\ phase = "select" /\ phase' = "closing"
  BY DEF ClientClosed
<1> QED
  BY <1>1 DEF Match!Abort, matchMover, matchTotal, matchStage

\* The finished turn is judged by strikes first, then by the total.
LEMMA JudgeMatch ==
  ASSUME IndInv, Judge
  PROVE  Match!Judge
<1> DEFINE lostOnTime == timeouts[current] >= StrikeLimit
           won == scores[current].total >= Target
<1>1. /\ phase = "judge" /\ TypeOK /\ current \in Player
      /\ UNCHANGED <<current, scores, timeouts>>
      /\ timeouts[current] \in Nat /\ scores[current].total \in Nat /\ Target \in Nat
  BY MoverType, TargetAssumption DEF IndInv, TypeOK, Judge, StrikeLimit
<1>2. /\ matchStage = "judge" /\ matchMover = current
      /\ matchTotal[current] = scores[current].total
      /\ UNCHANGED matchTotal
  BY <1>1 DEF matchStage, matchMover, matchTotal
<1>3. Match!Other(current) = Other(current) /\ StrikeLimit = 2
  BY DEF Match!Other, Other, StrikeLimit
<1>4. CASE lostOnTime
  <2>1. phase' = "closing" /\ winner' = Other(current)
    BY <1>4 DEF Judge, StruckOut, HasTarget
  <2>2. matchStage' = "over" /\ matchMover' = matchMover
    BY <1>1, <1>2, <2>1 DEF matchStage, matchMover
  <2> QED
    BY <1>1, <1>2, <1>3, <1>4, <2>1, <2>2 DEF Match!Judge
<1>5. CASE ~lostOnTime /\ won
  <2>1. phase' = "closing" /\ winner' = current
    BY <1>5 DEF Judge, StruckOut, HasTarget
  <2>2. matchStage' = "over" /\ matchMover' = matchMover
    BY <1>1, <1>2, <2>1 DEF matchStage, matchMover
  <2> QED
    BY <1>1, <1>2, <1>3, <1>5, <2>1, <2>2 DEF Match!Judge
<1>6. CASE ~lostOnTime /\ ~won
  <2>1. phase' = "turn" /\ winner' = winner
    BY <1>6 DEF Judge, StruckOut, HasTarget
  <2>2. matchStage' = "play" /\ matchMover' = Other(current)
    BY <1>1, <2>1 DEF matchStage, matchMover
  <2> QED
    BY <1>1, <1>2, <1>3, <1>6, <2>1, <2>2 DEF Match!Judge
<1> QED
  BY <1>4, <1>5, <1>6

LEMMA IdleMatch ==
  ASSUME Close \/ UNCHANGED vars
  PROVE  UNCHANGED MatchVars
<1>1. UNCHANGED <<current, scores, timeouts, winner>>
  BY DEF Close, vars
<1>2. UNCHANGED <<matchMover, matchStage>>
  BY <1>1 DEF Close, vars, matchMover, matchStage
<1> QED
  BY <1>1, <1>2 DEF MatchVars, matchTotal

\* Every game is a farkle match: the rules engine with its dice, selections
\* and broadcasts implements the match of totals, strikes and turns.
THEOREM GameIsMatch == Spec => MatchSpec
<1>1. Init => Match!Init
  BY MatchInit
<1>2. IndInv /\ [Next]_vars => [Match!Next]_(Match!vars)
  <2> SUFFICES ASSUME IndInv, [Next]_vars
               PROVE  Match!Next \/ UNCHANGED MatchVars
    BY DEF MatchVars, Match!vars
  <2>1. CASE TurnBegin
    BY <2>1, TurnBeginMatch
  <2>2. CASE \E face \in [DiceID -> Faces] : RollDice(face)
    BY <2>2, RollDiceMatch DEF Match!Next
  <2>3. CASE ScoreRoll \/ \E d \in DiceID, selected \in BOOLEAN : DiceTouch(d, selected)
    BY <2>3, SelectMatch
  <2>4. CASE EndTurn
    BY <2>4, EndTurnMatch DEF Match!Next
  <2>5. CASE TurnTimeout
    BY <2>5, TurnTimeoutMatch DEF Match!Next
  <2>6. CASE ClientClosed
    BY <2>6, ClientClosedMatch DEF Match!Next
  <2>7. CASE Judge
    BY <2>7, JudgeMatch DEF Match!Next
  <2>8. CASE Close \/ Finished \/ UNCHANGED vars
    BY <2>8, IdleMatch DEF Finished
  <2> QED
    BY <2>1, <2>2, <2>3, <2>4, <2>5, <2>6, <2>7, <2>8 DEF Next
<1> QED
  BY <1>1, <1>2, Invariance, PTL DEF Spec, MatchSpec, Match!Spec
-----------------------------------------------------------------------------
(***************************************************************************)
(* What the players see.                                                   *)
(***************************************************************************)
\* The banked totals are shown, but for the mover's between the end of its turn
\* and the judgement that shows it.
TotalsShown ==
  /\ phase \in {"turn", "roll", "select"} =>
       \A p \in Player : shown.scores[p].total = scores[p].total
  /\ phase = "judge" =>
       \A p \in Player : p # current => shown.scores[p].total = scores[p].total

\* The mover sees its dice, and their worth once one of them is selected.
ChoiceShown ==
  phase = "select" =>
    /\ shown.dice = dice[current]
    /\ (\E d \in DiceID : dice[current][d].selected) => shown.scores[current] = scores[current]

ViewInv == TotalsShown /\ ChoiceShown

LEMMA ShowScoreParts ==
  ASSUME TypeOK, NEW p \in Player, NEW score
  PROVE  /\ ShowScore(p, score).scores[p] = score
         /\ \A q \in Player : q # p => ShowScore(p, score).scores[q] = shown.scores[q]
         /\ ShowScore(p, score).dice = shown.dice
BY DEF TypeOK, ShowScore

LEMMA RollDiceView ==
  ASSUME IndInv, ViewInv, NEW face \in [DiceID -> Faces], RollDice(face)
  PROVE  ViewInv'
<1> DEFINE rolled == rollDice(dice[current], face)
           lost == [scores EXCEPT ![current].turn = 0, ![current].selected = 0]
<1>1. /\ phase = "roll" /\ dice' = [dice EXCEPT ![current] = rolled] /\ current' = current
      /\ \/ /\ phase' = "judge" /\ scores' = lost
            /\ shown' = [ShowScore(current, lost[current]) EXCEPT !.dice = rolled]
         \/ /\ phase' = "select" /\ scores' = scores
            /\ shown' = [shown EXCEPT !.dice = rolled]
  BY DEF RollDice
<1>2. /\ current \in Player /\ dice[current] \in DiceSet /\ TypeOK
      /\ \A d \in DiceID : ~dice[current][d].selected
  BY <1>1 DEF IndInv, TypeOK, RollStart, DiceSet
<1>3. \A d \in DiceID : ~rolled[d].selected
  BY <1>2, RollType
<1>4. \A p \in Player : p # current => lost[p].total = scores[p].total
  BY <1>2 DEF TypeOK
<1> HIDE DEF rolled, lost
<1>5. CASE phase' = "judge"
  <2>1. \A p \in Player : p # current => shown'.scores[p] = shown.scores[p]
    <3>1. \A p \in Player : p # current => ShowScore(current, lost[current]).scores[p] = shown.scores[p]
      BY <1>2, ShowScoreParts
    <3>2. shown'.scores = ShowScore(current, lost[current]).scores
      BY <1>1, <1>2, <1>5 DEF ShowScore, TypeOK
    <3> QED
      BY <3>1, <3>2
  <2> QED
    BY <1>1, <1>4, <1>5, <2>1 DEF ViewInv, TotalsShown, ChoiceShown
<1>6. CASE phase' = "select"
  <2>1. shown'.dice = rolled /\ shown'.scores = shown.scores /\ dice'[current] = rolled
    BY <1>1, <1>2, <1>6 DEF TypeOK
  <2> QED
    BY <1>1, <1>3, <1>6, <2>1 DEF ViewInv, TotalsShown, ChoiceShown
<1> QED
  BY <1>1, <1>5, <1>6

LEMMA DiceTouchView ==
  ASSUME IndInv, ViewInv, NEW d \in DiceID, NEW selected \in BOOLEAN, DiceTouch(d, selected)
  PROVE  ViewInv'
<1> DEFINE touched == touchDice(dice[current], d, selected)
           score == scores'[current]
<1>1. /\ phase = "select" /\ phase' = "select" /\ current' = current /\ TypeOK /\ current \in Player
      /\ dice' = [dice EXCEPT ![current] = touched]
      /\ \E n : scores' = [scores EXCEPT ![current].selected = n]
      /\ shown' = [ShowScore(current, score) EXCEPT !.dice = touched]
  BY DEF DiceTouch, IndInv, TypeOK
<1>2. \A p \in Player : scores'[p].total = scores[p].total
  BY <1>1 DEF TypeOK
<1>3. dice'[current] = touched
  BY <1>1 DEF TypeOK
<1> HIDE DEF touched, score
<1>4. /\ ShowScore(current, score).scores[current] = score
      /\ \A p \in Player : p # current => ShowScore(current, score).scores[p] = shown.scores[p]
  BY <1>1, ShowScoreParts
<1>5. /\ shown'.dice = touched /\ shown'.scores[current] = score
      /\ \A p \in Player : p # current => shown'.scores[p] = shown.scores[p]
  <2>1. shown'.scores = ShowScore(current, score).scores /\ shown'.dice = touched
    BY <1>1 DEF ShowScore, TypeOK
  <2> QED
    BY <1>4, <2>1
<1>6. TotalsShown'
  BY <1>1, <1>2, <1>5 DEF ViewInv, TotalsShown, score
<1>7. ChoiceShown'
  BY <1>1, <1>3, <1>5 DEF ChoiceShown, score
<1> QED
  BY <1>6, <1>7 DEF ViewInv

LEMMA ScoreRollView ==
  ASSUME IndInv, ViewInv, ScoreRoll
  PROVE  ViewInv'
<1>1. /\ phase = "select" /\ phase' = "roll" /\ current' = current /\ TypeOK /\ current \in Player
      /\ \E n : scores' = [scores EXCEPT ![current].turn = n, ![current].selected = 0]
      /\ shown' = ShowScore(current, scores'[current])
  BY DEF ScoreRoll, IndInv, TypeOK
<1>2. \A p \in Player : scores'[p].total = scores[p].total
  BY <1>1 DEF TypeOK
<1>3. /\ shown'.scores[current] = scores'[current]
      /\ \A p \in Player : p # current => shown'.scores[p] = shown.scores[p]
  BY <1>1, ShowScoreParts
<1> QED
  BY <1>1, <1>2, <1>3 DEF ViewInv, TotalsShown, ChoiceShown

LEMMA JudgeView ==
  ASSUME IndInv, ViewInv, Judge
  PROVE  ViewInv'
<1>1. /\ phase = "judge" /\ phase' \in {"turn", "closing"} /\ TypeOK /\ current \in Player
      /\ UNCHANGED <<current, scores>>
      /\ shown' = IF StruckOut(current) THEN shown ELSE ShowScore(current, scores[current])
      /\ phase' = "turn" => ~StruckOut(current)
  BY DEF Judge, IndInv, TypeOK
<1>2. CASE phase' = "closing"
  BY <1>2 DEF ViewInv, TotalsShown, ChoiceShown
<1>3. CASE phase' = "turn"
  <2>1. /\ shown'.scores[current] = scores[current]
        /\ \A p \in Player : p # current => shown'.scores[p] = shown.scores[p]
    BY <1>1, <1>3, ShowScoreParts
  <2> QED
    BY <1>1, <1>3, <2>1 DEF ViewInv, TotalsShown, ChoiceShown
<1> QED
  BY <1>1, <1>2, <1>3

\* Whenever the game waits for a choice, both players see the dice it is made
\* from and the banked totals, and the turn's points once a die was touched.
THEOREM ShownAlwaysInSync == Spec => []ShownInSync
<1>1. Init => ViewInv
  BY DEF Init, ViewInv, TotalsShown, ChoiceShown
<1>2. IndInv /\ ViewInv /\ [Next]_vars => ViewInv'
  <2> SUFFICES ASSUME IndInv, ViewInv, [Next]_vars PROVE ViewInv'
    OBVIOUS
  <2>0. TypeOK /\ current \in Player
    BY DEF IndInv, TypeOK
  <2>1. CASE TurnBegin
    <3>1. \A p \in Player : scores'[p].total = scores[p].total
      BY <2>0, <2>1 DEF TurnBegin, TypeOK
    <3> QED
      BY <2>1, <3>1 DEF TurnBegin, ViewInv, TotalsShown, ChoiceShown
  <2>2. ASSUME NEW face \in [DiceID -> Faces], RollDice(face)
        PROVE  ViewInv'
    BY <2>2, RollDiceView
  <2>3. ASSUME NEW d \in DiceID, NEW selected \in BOOLEAN, DiceTouch(d, selected)
        PROVE  ViewInv'
    BY <2>3, DiceTouchView
  <2>4. CASE ScoreRoll
    BY <2>4, ScoreRollView
  <2>5. CASE EndTurn \/ TurnTimeout
    <3>1. /\ phase = "select" /\ phase' = "judge" /\ UNCHANGED <<current, shown>>
          /\ \A p \in Player : p # current => scores'[p] = scores[p]
      BY <2>0, <2>5 DEF EndTurn, TurnTimeout, TypeOK
    <3> QED
      BY <3>1 DEF ViewInv, TotalsShown, ChoiceShown
  <2>6. CASE ClientClosed \/ Close
    BY <2>6 DEF ClientClosed, Close, ViewInv, TotalsShown, ChoiceShown
  <2>7. CASE Judge
    BY <2>7, JudgeView
  <2>8. CASE UNCHANGED vars
    BY <2>8 DEF vars, ViewInv, TotalsShown, ChoiceShown
  <2> QED
    BY <2>1, <2>2, <2>3, <2>4, <2>5, <2>6, <2>7, <2>8 DEF Next, Finished
<1>3. ViewInv => ShownInSync
  BY DEF ViewInv, TotalsShown, ChoiceShown, ShownInSync
<1> QED
  BY <1>1, <1>2, <1>3, Invariance, PTL DEF Spec
-----------------------------------------------------------------------------
(***************************************************************************)
(* The message path of FarklePlay.                                         *)
(***************************************************************************)
\* The types of what the goroutines share.
PathType ==
  /\ current \in Player
  /\ consumed \in [Player -> Seq(Messages)]
  /\ held \in [Player -> Seq(Messages)]
  /\ incoming \in [Player -> Seq(Messages)]
  /\ hasTurn \in [Player -> BOOLEAN]
  /\ lobbyOver \in [Player -> BOOLEAN]
  /\ sent \in [Player -> 0..MaxSent]
  /\ lastHandled \in [Player -> 0..MaxSent]
  /\ late \in [Player -> Nat]
-----------------------------------------------------------------------------
LEMMA MessageParts ==
  ASSUME NEW msg \in Messages
  PROVE  /\ msg.no \in 1..MaxSent
         /\ msg.request \in Requests
         /\ msg.variant = msg.request.variant
BY DEF Messages, Numbered

\* What the lobby may hand over.
LEMMA UpToParts ==
  ASSUME NEW n \in Nat, NEW queue \in UpTo(n)
  PROVE  queue \in Seq(Messages) /\ Len(queue) \in 0..n
<1>1. PICK length \in 0..n : queue \in [1..length -> Messages]
  BY DEF UpTo
<1> QED
  BY <1>1

LEMMA TwoQueues ==
  ASSUME NEW first \in Seq(Messages), NEW second \in Seq(Messages),
         \A i \in 1..Len(first \o second) : (first \o second)[i].no = i
  PROVE  /\ Len(first) \in Nat /\ Len(second) \in Nat
         /\ Len(first \o second) = Len(first) + Len(second)
         /\ \A i \in 1..Len(first) : first[i].no = i
         /\ \A i \in 1..Len(second) : second[i].no = Len(first) + i
<1> DEFINE both == first \o second
           F == Len(first)
           S == Len(second)
<1>1. /\ Len(both) = F + S
      /\ \A i \in 1..(F + S) : both[i] = IF i <= F THEN first[i] ELSE second[i - F]
  BY ConcatProperties
<1>2. F \in Nat /\ S \in Nat
  OBVIOUS
<1>3. \A i \in 1..Len(both) : both[i].no = i
  OBVIOUS
<1> HIDE DEF both, F, S
<1>4. \A i \in 1..F : first[i].no = i
  BY <1>1, <1>2, <1>3
<1>5. \A i \in 1..S : second[i].no = F + i
  <2> TAKE i \in 1..S
  <2>1. F + i \in 1..(F + S) /\ ~(F + i <= F) /\ (F + i) - F = i
    BY <1>2
  <2>2. both[F + i] = second[i]
    BY <1>1, <2>1
  <2> QED
    BY <1>1, <1>3, <2>1, <2>2
<1> QED
  BY <1>1, <1>2, <1>4, <1>5 DEF both, F, S

LEMMA InitParts ==
  ASSUME PlayInit, NEW p \in Player
  PROVE  /\ incoming[p] = <<>> /\ late[p] = 0 /\ lastHandled[p] = 0
         /\ held[p] \in Seq(Messages) /\ Len(held[p]) \in 0..1
         /\ consumed[p] \in Seq(Messages) /\ Len(consumed[p]) \in Nat
         /\ sent[p] = Len(held[p]) + Len(consumed[p]) /\ sent[p] \in 0..MaxSent
         /\ hasTurn[p] <=> ~lobbyOver[p]
         /\ \A i \in 1..Len(held[p]) : held[p][i].no = i
         /\ \A i \in 1..Len(consumed[p]) : consumed[p][i].no = Len(held[p]) + i
<1>1. incoming[p] = <<>> /\ late[p] = 0 /\ lastHandled[p] = 0
  BY DEF PlayInit
<1>2. ASSUME NEW q \in Player
      PROVE  /\ held[q] \in Seq(Messages) /\ Len(held[q]) \in 0..1
             /\ consumed[q] \in Seq(Messages) /\ Len(consumed[q]) \in Nat
             /\ sent[q] = Len(held[q]) + Len(consumed[q])
             /\ \A i \in 1..Len(held[q]) : held[q][i].no = i
             /\ \A i \in 1..Len(consumed[q]) : consumed[q][i].no = Len(held[q]) + i
  <2>1. held[q] \in UpTo(1) /\ consumed[q] \in UpTo(BufferLimit)
    BY DEF PlayInit
  <2>2. held[q] \in Seq(Messages) /\ Len(held[q]) \in 0..1
    BY <2>1, UpToParts
  <2>3. consumed[q] \in Seq(Messages)
    BY <2>1, UpToParts, BufferAssumption
  <2>4. sent[q] = Len(held[q] \o consumed[q])
    BY DEF PlayInit
  <2>5. \A i \in 1..Len(held[q] \o consumed[q]) : (held[q] \o consumed[q])[i].no = i
    <3>1. \A i \in 1..sent[q] : (held[q] \o consumed[q])[i].no = i
      BY Zenon DEF PlayInit
    <3> QED
      BY <2>4, <3>1, Zenon
  <2>6. /\ Len(consumed[q]) \in Nat
        /\ Len(held[q] \o consumed[q]) = Len(held[q]) + Len(consumed[q])
        /\ \A i \in 1..Len(held[q]) : held[q][i].no = i
        /\ \A i \in 1..Len(consumed[q]) : consumed[q][i].no = Len(held[q]) + i
    BY <2>2, <2>3, <2>5, TwoQueues, Zenon
  <2> QED
    BY <2>2, <2>3, <2>4, <2>6, Zenon
<1>3. \A q \in Player : sent[q] \in Nat
  <2> TAKE q \in Player
  <2>1. \A a, b \in Nat : a + b \in Nat
    OBVIOUS
  <2>2. Len(held[q]) \in Nat /\ Len(consumed[q]) \in Nat
    BY <1>2
  <2>3. sent[q] = Len(held[q]) + Len(consumed[q])
    BY <1>2
  <2> QED
    BY <2>1, <2>2, <2>3, Zenon
<1>4. sent[p] \in 0..MaxSent
  <2>1. sent[0] + sent[1] <= MaxSent
    BY DEF PlayInit
  <2> QED
    BY <1>3, <2>1, MaxSentAssumption DEF Player
<1>5. hasTurn[p] <=> ~lobbyOver[p]
  BY ClientsAssumption DEF PlayInit, HandedOver
<1> QED
  BY <1>1, <1>2, <1>4, <1>5

LEMMA ArriveType ==
  ASSUME PathType, NEW p \in Player, PlayerSends(p)
  PROVE  /\ sent' = [sent EXCEPT ![p] = @ + 1]
         /\ sent' \in [Player -> 0..MaxSent]
         /\ \E msg \in Messages : msg.no = sent'[p] /\ Arrive(p, msg)
<1>1. sent[p] \in Nat /\ sent[0] + sent[1] < MaxSent /\ sent[0] \in Nat /\ sent[1] \in Nat
  BY DEF PathType, PlayerSends, Player
<1>2. sent[p] < MaxSent /\ MaxSent \in Nat
  BY <1>1, MaxSentAssumption DEF Player
<1>3. sent' = [sent EXCEPT ![p] = @ + 1] /\ sent'[p] = sent[p] + 1
  BY DEF PlayerSends, PathType
<1>4. sent' \in [Player -> 0..MaxSent]
  <2>1. sent[p] + 1 \in 0..MaxSent
    BY <1>1, <1>2
  <2>2. sent \in [Player -> 0..MaxSent]
    BY DEF PathType
  <2> QED
    BY <1>3, <2>1, <2>2
<1>5. PICK request \in Requests : Arrive(p, Numbered(request, sent'[p]))
  BY DEF PlayerSends
<1>6. Numbered(request, sent'[p]) \in Messages /\ Numbered(request, sent'[p]).no = sent'[p]
  BY <1>1, <1>2, <1>3 DEF Messages, Numbered
<1> QED
  BY <1>3, <1>4, <1>5, <1>6

\* What a step of the game may do to the message path of its players.
LEMMA GameStepPath ==
  ASSUME PathType, GameStep
  PROVE  /\ current' \in Player
         /\ UNCHANGED <<consumed, held, sent, lobbyOver>>
         /\ \/ UNCHANGED <<incoming, lastHandled>>
            \/ /\ incoming[current] # <<>>
               /\ incoming' = [incoming EXCEPT ![current] = Tail(@)]
               /\ lastHandled' = [lastHandled EXCEPT ![current] = Head(incoming[current]).no]
         /\ \/ /\ UNCHANGED <<hasTurn, late>>
               /\ \/ phase \in {"roll", "select"} /\ phase' \in {"roll", "select"} /\ current' = current
                  \/ phase \notin {"roll", "select"}
            \/ /\ phase' = "roll" /\ phase = "turn"
               /\ hasTurn' = [hasTurn EXCEPT ![current'] = TRUE]
               /\ late' = [late EXCEPT ![current'] = 0]
            \/ /\ phase' \notin {"roll", "select"} /\ phase \in {"roll", "select"}
               /\ current' = current
               /\ hasTurn' = [hasTurn EXCEPT ![current] = FALSE]
               /\ late' = [late EXCEPT ![current] = late[current]]
<1>1. CASE PlayTurnBegin
  BY <1>1, OtherPlayer DEF PlayTurnBegin, TurnBegin, TurnFlag, SetTurn, PathType
<1>2. CASE PlayRollDice
  BY <1>2 DEF PlayRollDice, RollDice, TurnGoesOn, TurnFlag, SetTurn, PathType
<1>3. CASE PlayHandle
  <2>1. /\ phase = "select"
        /\ incoming[current] # <<>>
        /\ incoming' = [incoming EXCEPT ![current] = Tail(@)]
        /\ lastHandled' = [lastHandled EXCEPT ![current] = Head(incoming[current]).no]
        /\ UNCHANGED <<consumed, held, sent, lobbyOver>>
        /\ TurnGoesOn
    BY <1>3 DEF PlayHandle, Received
  <2>2. current' = current
    BY <1>3 DEF PlayHandle, Rejected, Accepted, DiceTouch, ScoreRoll, EndTurn, vars
  <2> QED
    BY <2>1, <2>2 DEF PathType, TurnGoesOn, TurnFlag, SetTurn
<1>4. CASE PlayTimeout
  BY <1>4 DEF PlayTimeout, TurnTimeout, TurnGoesOn, TurnFlag, SetTurn, PathType
<1>5. CASE PlayClientClosed
  BY <1>5 DEF PlayClientClosed, ClientClosed, TurnGoesOn, TurnFlag, SetTurn, PathType
<1>6. CASE PlayJudge
  BY <1>6 DEF PlayJudge, Judge, clientVars, playVars, PathType
<1>7. CASE PlayClose
  BY <1>7 DEF PlayClose, Close, playVars, PathType
<1> QED
  BY <1>1, <1>2, <1>3, <1>4, <1>5, <1>6, <1>7 DEF GameStep

\* Everything else leaves the rules engine alone.
LEMMA QuietSteps ==
  ASSUME \/ \E p \in Player : PlayerSends(p) \/ ReaderStep(p) \/ LobbyReturns(p)
         \/ DeadlinePasses \/ CountAnew \/ ServerCloses \/ PlayFinished \/ UNCHANGED allVars
  PROVE  UNCHANGED vars
BY DEF PlayerSends, ReaderStep, ReaderTakes, ReaderAdmits, ReaderEnds, LobbyReturns,
       DeadlinePasses, CountAnew, ServerCloses, PlayFinished, Finished, allVars

\* The queues of the message path hold the players' messages, the numbers count them,
\* and nothing else gets in, however many messages and whatever the buffers.
THEOREM PathTypeCorrect == PlaySpec => []PathType
<1>1. PlayInit => PathType
  <2> SUFFICES ASSUME PlayInit PROVE PathType
    OBVIOUS
  <2>1. /\ current \in Player
        /\ incoming \in [Player -> Seq(Messages)]
        /\ hasTurn \in [Player -> BOOLEAN] /\ lobbyOver \in [Player -> BOOLEAN]
        /\ lastHandled \in [Player -> 0..MaxSent] /\ late \in [Player -> Nat]
    BY MaxSentAssumption DEF PlayInit, Init
  <2>2. /\ held = [p \in Player |-> held[p]]
        /\ consumed = [p \in Player |-> consumed[p]]
        /\ sent = [p \in Player |-> sent[p]]
    BY DEF PlayInit
  <2>3. \A p \in Player : held[p] \in Seq(Messages) /\ consumed[p] \in Seq(Messages)
                          /\ sent[p] \in 0..MaxSent
    BY InitParts
  <2>4. /\ held \in [Player -> Seq(Messages)]
        /\ consumed \in [Player -> Seq(Messages)]
        /\ sent \in [Player -> 0..MaxSent]
    BY <2>2, <2>3
  <2> QED
    BY <2>1, <2>4 DEF PathType
<1>2. PathType /\ [PlayNext]_allVars => PathType'
  <2> SUFFICES ASSUME PathType, [PlayNext]_allVars PROVE PathType'
    OBVIOUS
  <2>1. CASE GameStep
    <3>1. incoming' \in [Player -> Seq(Messages)] /\ lastHandled' \in [Player -> 0..MaxSent]
      <4>1. CASE UNCHANGED <<incoming, lastHandled>>
        BY <4>1 DEF PathType
      <4>2. CASE /\ incoming[current] # <<>>
                 /\ incoming' = [incoming EXCEPT ![current] = Tail(@)]
                 /\ lastHandled' = [lastHandled EXCEPT ![current] = Head(incoming[current]).no]
        <5>1. incoming[current] \in Seq(Messages) /\ current \in Player
          BY DEF PathType
        <5>2. Head(incoming[current]) \in Messages /\ Tail(incoming[current]) \in Seq(Messages)
          BY <4>2, <5>1
        <5>3. Head(incoming[current]).no \in 0..MaxSent
          BY <5>2, MessageParts, MaxSentAssumption
        <5> QED
          BY <4>2, <5>1, <5>2, <5>3 DEF PathType
      <4> QED
        BY <2>1, <4>1, <4>2, GameStepPath
    <3>2. hasTurn' \in [Player -> BOOLEAN] /\ late' \in [Player -> Nat]
      <4>1. CASE UNCHANGED <<hasTurn, late>>
        BY <4>1 DEF PathType
      <4>2. CASE \E p \in Player, b \in BOOLEAN, n \in Nat :
                   /\ hasTurn' = [hasTurn EXCEPT ![p] = b]
                   /\ late' = [late EXCEPT ![p] = n]
        BY <4>2 DEF PathType
      <4>3. late[current] \in Nat /\ current \in Player /\ current' \in Player
        BY <2>1, GameStepPath DEF PathType
      <4> QED
        BY <2>1, <4>1, <4>2, <4>3, GameStepPath
    <3> QED
      BY <2>1, <3>1, <3>2, GameStepPath DEF PathType
  <2>2. ASSUME NEW p \in Player, PlayerSends(p)
        PROVE  PathType'
    <3>1. PICK msg \in Messages : Arrive(p, msg)
      BY <2>2, ArriveType
    <3>2. consumed' \in [Player -> Seq(Messages)]
      BY <3>1 DEF Arrive, PathType
    <3> QED
      BY <2>2, <3>1, <3>2, ArriveType DEF PathType, PlayerSends, Arrive, vars
  <2>3. ASSUME NEW p \in Player, ReaderTakes(p)
        PROVE  PathType'
    <3>1. consumed[p] \in Seq(Messages) /\ consumed[p] # <<>>
      BY <2>3 DEF ReaderTakes, Take, PathType
    <3>2. Head(consumed[p]) \in Messages /\ Tail(consumed[p]) \in Seq(Messages)
      BY <3>1
    <3>3. consumed' \in [Player -> Seq(Messages)]
      BY <2>3, <3>2 DEF ReaderTakes, Take, PathType
    <3>4. held' \in [Player -> Seq(Messages)]
      <4>1. \E next \in {<<>>, <<Head(consumed[p])>>} : held' = [held EXCEPT ![p] = next]
        BY <2>3 DEF ReaderTakes, Take
      <4>2. <<>> \in Seq(Messages) /\ <<Head(consumed[p])>> \in Seq(Messages)
        BY <3>2
      <4> QED
        BY <4>1, <4>2 DEF PathType
    <3> QED
      BY <2>3, <3>3, <3>4 DEF ReaderTakes, Take, PathType, vars, playVars
  <2>4. ASSUME NEW p \in Player, ReaderAdmits(p)
        PROVE  PathType'
    <3>1. held[p] \in Seq(Messages) /\ held[p] # <<>> /\ incoming[p] \in Seq(Messages)
      BY <2>4 DEF ReaderAdmits, Admit, PathType
    <3>2. Append(incoming[p], Head(held[p])) \in Seq(Messages)
      BY <3>1
    <3>3. incoming' \in [Player -> Seq(Messages)] /\ held' \in [Player -> Seq(Messages)]
      BY <2>4, <3>2 DEF ReaderAdmits, Admit, Enqueue, PathType
    <3> QED
      BY <2>4, <3>3 DEF ReaderAdmits, Admit, PathType, vars
  <2>5. ASSUME NEW p \in Player, ReaderEnds(p)
        PROVE  PathType'
    BY <2>5 DEF ReaderEnds, ReaderReturns, PathType, vars, playVars
  <2>6. ASSUME NEW p \in Player, LobbyReturns(p)
        PROVE  PathType'
    BY <2>6 DEF LobbyReturns, TurnFlag, SetTurn, PathType, vars
  <2>7. CASE DeadlinePasses \/ ServerCloses \/ PlayFinished \/ UNCHANGED allVars
    BY <2>7 DEF DeadlinePasses, ServerCloses, PlayFinished, Finished, allVars, vars,
                clientVars, playVars, PathType
  <2>8. CASE CountAnew
    BY <2>8, MaxSentAssumption DEF CountAnew, PathType, vars, clientVars
  <2> QED
    BY <2>1, <2>2, <2>3, <2>4, <2>5, <2>6, <2>7, <2>8 DEF PlayNext, ReaderStep
<1> QED
  BY <1>1, <1>2, PTL DEF PlaySpec
-----------------------------------------------------------------------------
(***************************************************************************)
(* A play is a game: every step of PlayNext is one of FarkleGame or leaves *)
(* its variables alone, so whatever holds of all games holds of all plays. *)
(***************************************************************************)
THEOREM PlayIsGame == PlaySpec => Spec
<1>1. PathType /\ [PlayNext]_allVars => [Next]_vars
  <2> SUFFICES ASSUME PathType, [PlayNext]_allVars PROVE [Next]_vars
    OBVIOUS
  <2>1. CASE PlayHandle
    <3>1. PICK msg \in Messages : Rejected(msg.request) \/ Accepted(msg.request)
      <4>1. incoming[current] \in Seq(Messages) /\ incoming[current] # <<>>
        BY <2>1 DEF PlayHandle, Received, PathType
      <4>2. Head(incoming[current]) \in Messages
        BY <4>1
      <4> QED
        BY <2>1, <4>2 DEF PlayHandle
    <3>2. msg.request \in Requests
      BY MessageParts
    <3>3. CASE Rejected(msg.request)
      BY <3>3 DEF Rejected
    <3>4. CASE Accepted(msg.request)
      <4>1. CASE msg.request.variant = "touch" /\ DiceTouch(msg.request.die, msg.request.selected)
        BY <3>2, <4>1, RequestsAssumption DEF Next
      <4> QED
        BY <3>4, <4>1 DEF Accepted, Next
    <3> QED
      BY <3>1, <3>3, <3>4
  <2>2. CASE GameStep /\ ~PlayHandle
    BY <2>2 DEF GameStep, PlayTurnBegin, PlayRollDice, PlayTimeout, PlayClientClosed,
                PlayJudge, PlayClose, Next
  <2> QED
    BY <2>1, <2>2, QuietSteps DEF PlayNext
<1>2. PlayInit => Init
  BY DEF PlayInit
<1> QED
  BY <1>1, <1>2, PathTypeCorrect, PTL DEF PlaySpec, Spec

\* The places of the queues, and what only the clock and the closing write.
InBounds ==
  /\ \A p \in Player : Len(consumed[p]) <= BufferLimit /\ Len(incoming[p]) <= MessageLimit
  /\ deadline \in {"ahead", "passed"}
  /\ timed \in BOOLEAN
  /\ closing \in [Player -> BOOLEAN]

LEMMA ShorterQueue ==
  ASSUME NEW queue \in Seq(Messages), NEW limit \in Nat, Len(queue) <= limit, queue # <<>>
  PROVE  Len(Tail(queue)) <= limit
<1>1. Len(Tail(queue)) = Len(queue) - 1 /\ Len(queue) \in Nat
  OBVIOUS
<1> QED
  BY <1>1

LEMMA LongerQueue ==
  ASSUME NEW queue \in Seq(Messages), NEW msg \in Messages, NEW limit \in Nat, Len(queue) < limit
  PROVE  Len(Append(queue, msg)) <= limit
<1>1. Len(Append(queue, msg)) = Len(queue) + 1 /\ Len(queue) \in Nat
  OBVIOUS
<1> QED
  BY <1>1

LEMMA GameStepInBounds ==
  ASSUME PathType, InBounds, GameStep
  PROVE  InBounds'
<1>1. /\ current \in Player /\ incoming[current] \in Seq(Messages)
      /\ MessageLimit \in Nat /\ incoming \in [Player -> Seq(Messages)]
  BY MessageAssumption DEF PathType
<1>2. \A p \in Player : Len(incoming'[p]) <= MessageLimit
  <2>1. CASE UNCHANGED incoming
    BY <2>1 DEF InBounds
  <2>2. CASE /\ incoming[current] # <<>>
             /\ incoming' = [incoming EXCEPT ![current] = Tail(@)]
    <3>1. Len(Tail(incoming[current])) <= MessageLimit
      BY <1>1, <2>2, ShorterQueue DEF InBounds
    <3> QED
      BY <1>1, <2>2, <3>1 DEF InBounds
  <2> QED
    BY <2>1, <2>2, GameStepPath
<1>3. \A p \in Player : Len(consumed'[p]) <= BufferLimit
  BY GameStepPath DEF InBounds
<1>4. /\ deadline' \in {"ahead", "passed"} /\ timed' \in BOOLEAN
      /\ closing' \in [Player -> BOOLEAN]
  BY DEF GameStep, PlayTurnBegin, PlayRollDice, PlayHandle, PlayTimeout, PlayClientClosed,
         PlayJudge, PlayClose, clientVars, playVars, InBounds
<1> QED
  BY <1>2, <1>3, <1>4 DEF InBounds

LEMMA BoundsInvariant == PlaySpec => []InBounds
<1>1. PlayInit => InBounds
  <2> SUFFICES ASSUME PlayInit PROVE InBounds
    OBVIOUS
  <2>1. \A p \in Player : Len(consumed[p]) <= BufferLimit /\ incoming[p] = <<>>
    BY ClientsAssumption DEF PlayInit, HandedOver
  <2>2. Len(<<>>) <= MessageLimit
    BY MessageAssumption
  <2>3. \A p \in Player : Len(incoming[p]) <= MessageLimit
    BY <2>1, <2>2
  <2> QED
    BY <2>1, <2>3 DEF PlayInit, InBounds
<1>2. PathType /\ InBounds /\ [PlayNext]_allVars => InBounds'
  <2> SUFFICES ASSUME PathType, InBounds, [PlayNext]_allVars PROVE InBounds'
    OBVIOUS
  <2>0. /\ consumed \in [Player -> Seq(Messages)] /\ held \in [Player -> Seq(Messages)]
        /\ incoming \in [Player -> Seq(Messages)]
        /\ BufferLimit \in Nat /\ MessageLimit \in Nat
    BY BufferAssumption, MessageAssumption DEF PathType
  <2>1. CASE GameStep
    BY <2>1, GameStepInBounds
  <2>2. ASSUME NEW p \in Player, PlayerSends(p)
        PROVE  InBounds'
    <3>1. PICK msg \in Messages : Arrive(p, msg)
      BY <2>2, ArriveType
    <3>2. UNCHANGED <<incoming, closing, deadline, timed>>
      BY <2>2, <3>1 DEF Arrive, PlayerSends
    <3>3. \A q \in Player : Len(consumed'[q]) <= BufferLimit
      <4>1. CASE UNCHANGED consumed
        BY <4>1 DEF InBounds
      <4>2. CASE /\ Len(consumed[p]) < BufferLimit
                 /\ consumed' = [consumed EXCEPT ![p] = Append(@, msg)]
        <5>1. Len(Append(consumed[p], msg)) <= BufferLimit
          BY <2>0, <4>2, LongerQueue
        <5> QED
          BY <2>0, <4>2, <5>1 DEF InBounds
      <4> QED
        BY <3>1, <4>1, <4>2 DEF Arrive
    <3> QED
      BY <3>2, <3>3 DEF InBounds
  <2>3. ASSUME NEW p \in Player, ReaderTakes(p)
        PROVE  InBounds'
    <3>1. /\ consumed[p] # <<>> /\ consumed' = [consumed EXCEPT ![p] = Tail(@)]
          /\ UNCHANGED <<incoming, closing, deadline, timed>>
      BY <2>3 DEF ReaderTakes, Take, playVars
    <3>2. Len(Tail(consumed[p])) <= BufferLimit
      BY <2>0, <3>1, ShorterQueue DEF InBounds
    <3> QED
      BY <2>0, <3>1, <3>2 DEF InBounds
  <2>4. ASSUME NEW p \in Player, ReaderAdmits(p)
        PROVE  InBounds'
    <3>1. /\ held[p] # <<>> /\ UNCHANGED <<consumed, closing, deadline, timed>>
          /\ incoming' = IF Len(incoming[p]) < MessageLimit
                         THEN [incoming EXCEPT ![p] = Append(@, Head(held[p]))] ELSE incoming
      BY <2>4 DEF ReaderAdmits, Admit, Enqueue
    <3>2. CASE Len(incoming[p]) < MessageLimit
      <4>1. Head(held[p]) \in Messages
        BY <2>0, <3>1
      <4>2. Len(Append(incoming[p], Head(held[p]))) <= MessageLimit
        BY <2>0, <3>2, <4>1, LongerQueue
      <4> QED
        BY <2>0, <3>1, <3>2, <4>2 DEF InBounds
    <3> QED
      BY <3>1, <3>2 DEF InBounds
  <2>5. ASSUME NEW p \in Player, ReaderEnds(p)
        PROVE  InBounds'
    <3>1. /\ consumed' = [consumed EXCEPT ![p] = <<>>]
          /\ UNCHANGED <<incoming, closing, deadline, timed>>
      BY <2>5 DEF ReaderEnds, ReaderReturns, playVars
    <3>2. Len(<<>>) <= BufferLimit
      BY <2>0
    <3> QED
      BY <2>0, <3>1, <3>2 DEF InBounds
  <2>6. ASSUME NEW p \in Player, LobbyReturns(p)
        PROVE  InBounds'
    BY <2>6 DEF LobbyReturns, InBounds
  <2>7. CASE DeadlinePasses \/ CountAnew \/ ServerCloses \/ PlayFinished \/ UNCHANGED allVars
    BY <2>7 DEF DeadlinePasses, CountAnew, ServerCloses, PlayFinished, allVars, clientVars, playVars, InBounds
  <2> QED
    BY <2>1, <2>2, <2>3, <2>4, <2>5, <2>6, <2>7 DEF PlayNext, ReaderStep
<1> QED
  BY <1>1, <1>2, PathTypeCorrect, PTL DEF PlaySpec

\* Neither buffer ever holds more than it has places, and every variable of a
\* play keeps its type.
THEOREM PlayTypeCorrect == PlaySpec => []PlayTypeOK
<1>1. TypeOK /\ PathType /\ InBounds => PlayTypeOK
  BY DEF PathType, InBounds, PlayTypeOK
<1> QED
  BY <1>1, PlayIsGame, TypeCorrect, PathTypeCorrect, BoundsInvariant, PTL

\* And so it is a farkle match, whatever its goroutines and its players do.
THEOREM PlayIsMatch == PlaySpec => MatchSpec
BY PlayIsGame, GameIsMatch
-----------------------------------------------------------------------------
(***************************************************************************)
(* The turn flag.                                                          *)
(***************************************************************************)
\* The readingLoop carries one message at most, and while the flag is up
\* nothing counts as late.
LateBound ==
  \A p \in Player :
    /\ Len(held[p]) <= 1
    /\ hasTurn[p] => late[p] = 0
    /\ hasTurn[p] \/ late[p] + Len(held[p]) <= 1

LEMMA FlagInvariant == PlaySpec => [](LateBound /\ OnlyMoverIsHeard)
<1>1. PlayInit => LateBound /\ OnlyMoverIsHeard
  <2> SUFFICES ASSUME PlayInit PROVE LateBound /\ OnlyMoverIsHeard
    OBVIOUS
  <2>1. \A p \in Player : /\ Len(held[p]) \in 0..1 /\ late[p] = 0
                          /\ hasTurn[p] <=> ~lobbyOver[p]
    BY InitParts
  <2>2. LateBound
    <3> SUFFICES ASSUME NEW p \in Player
                 PROVE  /\ Len(held[p]) <= 1 /\ (hasTurn[p] => late[p] = 0)
                        /\ hasTurn[p] \/ late[p] + Len(held[p]) <= 1
      BY DEF LateBound
    <3>1. Len(held[p]) \in 0..1 /\ late[p] = 0
      BY <2>1
    <3>2. \A n \in 0..1 : n <= 1 /\ 0 + n <= 1
      OBVIOUS
    <3>3. Len(held[p]) <= 1 /\ late[p] + Len(held[p]) <= 1
      BY <3>1, <3>2, Zenon
    <3> QED
      BY <3>1, <3>3
  <2>3. OnlyMoverIsHeard
    BY <2>1 DEF OnlyMoverIsHeard
  <2> QED
    BY <2>2, <2>3
<1>2. PathType /\ LateBound /\ OnlyMoverIsHeard /\ [PlayNext]_allVars
        => (LateBound /\ OnlyMoverIsHeard)'
  <2> SUFFICES ASSUME PathType, LateBound, OnlyMoverIsHeard, [PlayNext]_allVars
               PROVE  LateBound' /\ OnlyMoverIsHeard'
    OBVIOUS
  <2>0. \A p \in Player : /\ Len(held[p]) \in Nat /\ late[p] \in Nat
                          /\ hasTurn[p] \in BOOLEAN /\ lobbyOver[p] \in BOOLEAN
    BY DEF PathType
  <2>1. CASE GameStep
    <3>1. LateBound'
      <4>1. CASE UNCHANGED <<hasTurn, late>>
        BY <2>1, <4>1, GameStepPath DEF LateBound
      <4>2. CASE /\ hasTurn' = [hasTurn EXCEPT ![current'] = TRUE]
                 /\ late' = [late EXCEPT ![current'] = 0]
        <5>1. \A p \in Player : p # current' => hasTurn'[p] = hasTurn[p] /\ late'[p] = late[p]
          BY <4>2 DEF PathType
        <5>3. hasTurn'[current'] = TRUE /\ late'[current'] = 0
          BY <2>1, <4>2, GameStepPath DEF PathType
        <5>2. UNCHANGED held
          BY <2>1, GameStepPath
        <5> QED
          BY <2>0, <5>1, <5>2, <5>3 DEF LateBound
      <4>3. CASE /\ hasTurn' = [hasTurn EXCEPT ![current] = FALSE]
                 /\ late' = [late EXCEPT ![current] = late[current]]
        <5>1. \A p \in Player : p # current => hasTurn'[p] = hasTurn[p] /\ late'[p] = late[p]
          BY <4>3 DEF PathType
        <5>2. hasTurn'[current] = FALSE /\ late'[current] = late[current]
          BY <4>3 DEF PathType
        <5>3. UNCHANGED held
          BY <2>1, GameStepPath
        <5>4. hasTurn[current] => late[current] = 0 /\ Len(held[current]) <= 1
          BY DEF LateBound, PathType
        <5>5. late'[current] + Len(held'[current]) <= 1
          BY <2>0, <5>2, <5>3, <5>4 DEF LateBound, PathType
        <5> QED
          BY <2>0, <5>1, <5>2, <5>3, <5>5 DEF LateBound
      <4> QED
        BY <2>1, <4>1, <4>2, <4>3, GameStepPath
    <3>2. OnlyMoverIsHeard'
      BY <2>0, <2>1, GameStepPath DEF OnlyMoverIsHeard, PathType
    <3> QED
      BY <3>1, <3>2
  <2>2. ASSUME NEW p \in Player, ReaderTakes(p)
        PROVE  LateBound' /\ OnlyMoverIsHeard'
    <3>1. Len(held'[p]) <= 1 /\ (held'[p] = <<>> \/ hasTurn[p])
      BY <2>2 DEF ReaderTakes, Take, MayPass, PathType
    <3>2. \A q \in Player : q # p => held'[q] = held[q]
      BY <2>2 DEF ReaderTakes, Take, PathType
    <3>3. UNCHANGED <<late, hasTurn, lobbyOver, phase, current>>
      BY <2>2 DEF ReaderTakes, Take, vars, playVars
    <3> QED
      BY <2>0, <3>1, <3>2, <3>3 DEF LateBound, OnlyMoverIsHeard
  <2>3. ASSUME NEW p \in Player, ReaderAdmits(p)
        PROVE  LateBound' /\ OnlyMoverIsHeard'
    <3>1. held[p] # <<>> /\ held[p] \in Seq(Messages) /\ held' = [held EXCEPT ![p] = <<>>]
      BY <2>3 DEF ReaderAdmits, Admit, PathType
    <3>2. Len(held[p]) >= 1
      BY <3>1
    <3>3. late' = [late EXCEPT ![p] = IF hasTurn[p] THEN @ ELSE @ + 1]
      BY <2>3 DEF ReaderAdmits
    <3>4. UNCHANGED <<hasTurn, lobbyOver, phase, current>>
      BY <2>3 DEF ReaderAdmits, Admit, vars
    <3>5. Len(held'[p]) = 0 /\ late'[p] = IF hasTurn[p] THEN late[p] ELSE late[p] + 1
      BY <3>1, <3>3 DEF PathType
    <3>6. \A q \in Player : q # p => held'[q] = held[q] /\ late'[q] = late[q]
      BY <3>1, <3>3 DEF PathType
    <3> QED
      BY <2>0, <3>2, <3>4, <3>5, <3>6 DEF LateBound, OnlyMoverIsHeard
  <2>4. ASSUME NEW p \in Player, LobbyReturns(p)
        PROVE  LateBound' /\ OnlyMoverIsHeard'
    <3>1. /\ hasTurn' = [hasTurn EXCEPT ![p] = FALSE]
          /\ late' = [late EXCEPT ![p] = late[p]]
          /\ lobbyOver' = [lobbyOver EXCEPT ![p] = TRUE]
          /\ UNCHANGED <<held, phase, current>>
      BY <2>4 DEF LobbyReturns, TurnFlag, SetTurn, vars
    <3> QED
      BY <2>0, <3>1 DEF LateBound, OnlyMoverIsHeard, PathType
  <2>5. CASE UNCHANGED <<held, late, hasTurn, lobbyOver, phase, current>>
    BY <2>5 DEF LateBound, OnlyMoverIsHeard
  <2>6. ASSUME NEW p \in Player, PlayerSends(p) \/ ReaderEnds(p)
        PROVE  UNCHANGED <<held, late, hasTurn, lobbyOver, phase, current>>
    BY <2>6 DEF PlayerSends, Arrive, ReaderEnds, ReaderReturns, vars, playVars
  <2>7. DeadlinePasses \/ CountAnew \/ ServerCloses \/ PlayFinished \/ UNCHANGED allVars
          => UNCHANGED <<held, late, hasTurn, lobbyOver, phase, current>>
    BY DEF DeadlinePasses, ServerCloses, PlayFinished, Finished, allVars, vars,
           clientVars, playVars, CountAnew
  <2> QED
    BY <2>1, <2>2, <2>3, <2>4, <2>5, <2>6, <2>7 DEF PlayNext, ReaderStep
<1> QED
  BY <1>1, <1>2, PathTypeCorrect, PTL DEF PlaySpec

\* After the flag has been lowered at most one message is still admitted.
THEOREM OneLateAdmissionAtMost == PlaySpec => []AtMostOneLateAdmission
<1>1. PathType /\ LateBound => AtMostOneLateAdmission
  BY DEF PathType, LateBound, AtMostOneLateAdmission
<1> QED
  BY <1>1, FlagInvariant, PathTypeCorrect, PTL

\* Whoever is heard has the turn, or a lobby that is not over.
THEOREM OnlyMoverIsEverHeard == PlaySpec => []OnlyMoverIsHeard
BY FlagInvariant, PTL

\* Only the lobby's late SetTurn(false) takes the flag away during a turn.
THEOREM TurnIsLostOnlyToLobby == PlaySpec => TurnLostOnlyToLobby
<1> DEFINE Lost == hasTurn[current] /\ ~hasTurn'[current] /\ phase \in {"roll", "select"}
           Excused == \/ phase' \notin {"roll", "select"}
                      \/ lobbyOver'[current] # lobbyOver[current]
<1>1. PathType /\ [PlayNext]_allVars => (Lost => Excused)
  <2> SUFFICES ASSUME PathType, [PlayNext]_allVars, Lost PROVE Excused
    OBVIOUS
  <2>1. CASE GameStep
    BY <2>1, GameStepPath DEF PathType
  <2>2. ASSUME NEW p \in Player, LobbyReturns(p)
        PROVE  Excused
    BY <2>2 DEF LobbyReturns, TurnFlag, SetTurn, PathType
  <2>3. ASSUME NEW p \in Player, PlayerSends(p) \/ ReaderStep(p)
        PROVE  UNCHANGED hasTurn
    BY <2>3 DEF PlayerSends, Arrive, ReaderStep, ReaderTakes, Take, ReaderAdmits, Admit,
                ReaderEnds, ReaderReturns
  <2>4. DeadlinePasses \/ CountAnew \/ ServerCloses \/ PlayFinished \/ UNCHANGED allVars => UNCHANGED hasTurn
    BY DEF DeadlinePasses, CountAnew, ServerCloses, PlayFinished, allVars, clientVars
  <2> QED
    BY <2>1, <2>2, <2>3, <2>4 DEF PlayNext
<1> QED
  BY <1>1, PathTypeCorrect, PTL DEF PlaySpec, TurnLostOnlyToLobby
-----------------------------------------------------------------------------
(***************************************************************************)
(* The order of messages, one pair of places on their way at a time.       *)
(***************************************************************************)
Increasing(queue) == \A i, j \in 1..Len(queue) : i < j => queue[i].no < queue[j].no

Before(first, second) ==
  \A i \in 1..Len(first), j \in 1..Len(second) : first[i].no < second[j].no

Numbers(queue, low, high) == \A i \in 1..Len(queue) : low < queue[i].no /\ queue[i].no <= high

Order(inc, hld, con, last, top) ==
  /\ Len(hld) <= 1 /\ last <= top
  /\ Increasing(inc) /\ Increasing(con)
  /\ Before(inc, hld) /\ Before(inc, con) /\ Before(hld, con)
  /\ Numbers(inc, last, top) /\ Numbers(hld, last, top) /\ Numbers(con, last, top)

OrderOf(p) == Order(incoming[p], held[p], consumed[p], lastHandled[p], sent[p])

Ordered == \A p \in Player : OrderOf(p)

LEMMA QueueParts ==
  ASSUME NEW queue \in Seq(Messages)
  PROVE  /\ Len(queue) \in Nat
         /\ \A i \in 1..Len(queue) : queue[i] \in Messages /\ queue[i].no \in Nat
BY MessageParts, MaxSentAssumption

LEMMA TailParts ==
  ASSUME NEW queue \in Seq(Messages), queue # <<>>
  PROVE  /\ Tail(queue) \in Seq(Messages) /\ Len(Tail(queue)) = Len(queue) - 1
         /\ \A i \in 1..Len(Tail(queue)) : Tail(queue)[i] = queue[i + 1]
         /\ Head(queue) = queue[1] /\ Len(queue) >= 1 /\ Head(queue) \in Messages
OBVIOUS

LEMMA AppendParts ==
  ASSUME NEW queue \in Seq(Messages), NEW msg \in Messages
  PROVE  /\ Append(queue, msg) \in Seq(Messages) /\ Len(Append(queue, msg)) = Len(queue) + 1
         /\ \A i \in 1..Len(queue) : Append(queue, msg)[i] = queue[i]
         /\ Append(queue, msg)[Len(queue) + 1] = msg
OBVIOUS

LEMMA ThreeQueues ==
  ASSUME NEW a \in Seq(Messages), NEW b \in Seq(Messages), NEW c \in Seq(Messages)
  PROVE  LET w == a \o b \o c
             A == Len(a)
             B == Len(b)
             C == Len(c)
         IN  /\ DOMAIN w = 1..(A + B + C)
             /\ \A i \in 1..A : w[i] = a[i]
             /\ \A i \in (A + 1)..(A + B) : w[i] = b[i - A]
             /\ \A i \in (A + B + 1)..(A + B + C) : w[i] = c[i - (A + B)]
<1> DEFINE ab == a \o b
           w == ab \o c
<1>1. /\ ab \in Seq(Messages) /\ Len(ab) = Len(a) + Len(b)
      /\ \A i \in 1..(Len(a) + Len(b)) : ab[i] = IF i <= Len(a) THEN a[i] ELSE b[i - Len(a)]
  BY ConcatProperties
<1> HIDE DEF ab
<1>2. /\ w \in Seq(Messages) /\ Len(w) = Len(ab) + Len(c)
      /\ \A i \in 1..(Len(ab) + Len(c)) : w[i] = IF i <= Len(ab) THEN ab[i] ELSE c[i - Len(ab)]
  <2>1. ASSUME NEW x \in Seq(Messages)
        PROVE  /\ x \o c \in Seq(Messages) /\ Len(x \o c) = Len(x) + Len(c)
               /\ \A i \in 1..(Len(x) + Len(c)) :
                    (x \o c)[i] = IF i <= Len(x) THEN x[i] ELSE c[i - Len(x)]
    BY ConcatProperties
  <2> QED
    BY <1>1, <2>1, Zenon
<1> HIDE DEF w
<1>3. DOMAIN w = 1..Len(w)
  BY <1>2
<1>4. Len(a) \in Nat /\ Len(b) \in Nat /\ Len(c) \in Nat
  OBVIOUS
<1>5. /\ DOMAIN w = 1..(Len(a) + Len(b) + Len(c))
      /\ \A i \in 1..Len(a) : w[i] = a[i]
      /\ \A i \in (Len(a) + 1)..(Len(a) + Len(b)) : w[i] = b[i - Len(a)]
      /\ \A i \in (Len(a) + Len(b) + 1)..(Len(a) + Len(b) + Len(c)) :
           w[i] = c[i - (Len(a) + Len(b))]
  <2>1. /\ Len(w) = Len(a) + Len(b) + Len(c) /\ Len(ab) = Len(a) + Len(b)
        /\ \A i \in 1..Len(w) : w[i] = IF i <= Len(ab) THEN ab[i] ELSE c[i - Len(ab)]
    BY <1>1, <1>2
  <2>2. \A i \in 1..Len(a) : i \in 1..Len(w) /\ i \in 1..Len(ab) /\ i <= Len(ab) /\ i <= Len(a)
    BY <1>4, <2>1
  <2>3. \A i \in (Len(a) + 1)..(Len(a) + Len(b)) :
          i \in 1..Len(w) /\ i \in 1..Len(ab) /\ i <= Len(ab) /\ ~(i <= Len(a))
    BY <1>4, <2>1
  <2>4. \A i \in (Len(a) + Len(b) + 1)..(Len(a) + Len(b) + Len(c)) :
          i \in 1..Len(w) /\ ~(i <= Len(ab))
    BY <1>4, <2>1
  <2> QED
    BY <1>1, <1>3, <2>1, <2>2, <2>3, <2>4
<1> QED
  BY <1>5 DEF w, ab

\* The concatenation that MessagesInOrder speaks of.
LEMMA OrderedInOrder == PathType /\ Ordered => MessagesInOrder
<1> SUFFICES ASSUME PathType, Ordered, NEW p \in Player
             PROVE  LET onTheWay == incoming[p] \o held[p] \o consumed[p]
                    IN  /\ \A i \in DOMAIN onTheWay : onTheWay[i].no \in (lastHandled[p] + 1) .. sent[p]
                        /\ \A i, j \in DOMAIN onTheWay : i < j => onTheWay[i].no < onTheWay[j].no
  BY DEF MessagesInOrder
<1> DEFINE a == incoming[p]
           b == held[p]
           c == consumed[p]
           w == a \o b \o c
           A == Len(a)
           B == Len(b)
           C == Len(c)
<1>1. a \in Seq(Messages) /\ b \in Seq(Messages) /\ c \in Seq(Messages)
  BY DEF PathType
<1>2. A \in Nat /\ B \in Nat /\ C \in Nat /\ B <= 1
  BY <1>1 DEF Ordered, OrderOf, Order
<1>3. /\ DOMAIN w = 1..(A + B + C)
      /\ \A i \in 1..A : w[i] = a[i]
      /\ \A i \in (A + 1)..(A + B) : w[i] = b[i - A]
      /\ \A i \in (A + B + 1)..(A + B + C) : w[i] = c[i - (A + B)]
  BY <1>1, ThreeQueues
<1>4. lastHandled[p] \in Nat /\ sent[p] \in Nat
  BY MaxSentAssumption DEF PathType
<1>5. /\ \A i \in 1..A : a[i].no \in Nat
      /\ \A i \in 1..B : b[i].no \in Nat
      /\ \A i \in 1..C : c[i].no \in Nat
  BY <1>1, QueueParts
<1>6. OrderOf(p)
  BY DEF Ordered
<1> HIDE DEF a, b, c, w, A, B, C
<1>7. ASSUME NEW i \in DOMAIN w
      PROVE  \/ i \in 1..A /\ w[i] = a[i]
             \/ i - A \in 1..B /\ w[i] = b[i - A]
             \/ i - (A + B) \in 1..C /\ w[i] = c[i - (A + B)]
  BY <1>2, <1>3
<1>8. /\ \A i \in 1..A : lastHandled[p] < a[i].no /\ a[i].no <= sent[p]
      /\ \A i \in 1..B : lastHandled[p] < b[i].no /\ b[i].no <= sent[p]
      /\ \A i \in 1..C : lastHandled[p] < c[i].no /\ c[i].no <= sent[p]
  BY <1>6 DEF OrderOf, Order, Numbers, a, b, c, A, B, C
<1>9. /\ \A i, j \in 1..A : i < j => a[i].no < a[j].no
      /\ \A i, j \in 1..C : i < j => c[i].no < c[j].no
      /\ \A i \in 1..A, j \in 1..B : a[i].no < b[j].no
      /\ \A i \in 1..A, j \in 1..C : a[i].no < c[j].no
      /\ \A i \in 1..B, j \in 1..C : b[i].no < c[j].no
  BY <1>6 DEF OrderOf, Order, Increasing, Before, a, b, c, A, B, C
<1>10. \A i \in DOMAIN w : w[i].no \in (lastHandled[p] + 1) .. sent[p]
  BY <1>4, <1>5, <1>7, <1>8
<1>11. ASSUME NEW i \in DOMAIN w, NEW j \in DOMAIN w, i < j
       PROVE  w[i].no < w[j].no
  <2>1. i \in Nat /\ j \in Nat
    BY <1>2, <1>3
  <2> QED
    BY <1>2, <1>7, <1>9, <1>11, <2>1
<1> QED
  BY <1>10, <1>11 DEF w, a, b, c

LEMMA OrderHandled ==
  ASSUME NEW inc \in Seq(Messages), NEW hld \in Seq(Messages), NEW con \in Seq(Messages),
         NEW last \in Nat, NEW top \in Nat, Order(inc, hld, con, last, top), inc # <<>>
  PROVE  Order(Tail(inc), hld, con, Head(inc).no, top)
<1> DEFINE rest == Tail(inc)
<1>0. /\ Len(hld) <= 1 /\ last <= top /\ Increasing(inc) /\ Increasing(con)
      /\ Before(inc, hld) /\ Before(inc, con) /\ Before(hld, con)
      /\ Numbers(inc, last, top) /\ Numbers(hld, last, top) /\ Numbers(con, last, top)
  BY DEF Order
<1>1. /\ Len(inc) \in Nat /\ Len(inc) >= 1 /\ Len(rest) = Len(inc) - 1
      /\ \A i \in 1..Len(rest) : rest[i] = inc[i + 1]
      /\ Head(inc).no = inc[1].no
      /\ \A i \in 1..Len(inc) : inc[i].no \in Nat
  BY QueueParts, TailParts
<1>2. \A i \in 1..Len(rest) : i \in Nat /\ i + 1 \in 1..Len(inc) /\ 1 \in 1..Len(inc) /\ 1 < i + 1
  BY <1>1
<1> HIDE DEF rest
<1>3. Increasing(rest) /\ Before(rest, hld) /\ Before(rest, con)
  <2>1. Increasing(rest)
    <3> SUFFICES ASSUME NEW i \in 1..Len(rest), NEW j \in 1..Len(rest), i < j
                 PROVE  rest[i].no < rest[j].no
      BY DEF Increasing
    <3>1. i + 1 < j + 1
      BY <1>2
    <3> QED
      BY <1>0, <1>1, <1>2, <3>1 DEF Increasing
  <2>2. Before(rest, hld)
    BY <1>0, <1>1, <1>2 DEF Before
  <2>3. Before(rest, con)
    BY <1>0, <1>1, <1>2 DEF Before
  <2> QED
    BY <2>1, <2>2, <2>3
<1>4. Numbers(rest, inc[1].no, top)
  BY <1>0, <1>1, <1>2 DEF Increasing, Numbers
<1>5. 1 \in 1..Len(inc)
  BY <1>1
<1>6. Numbers(hld, inc[1].no, top) /\ Numbers(con, inc[1].no, top)
  BY <1>0, <1>5 DEF Before, Numbers
<1>7. inc[1].no <= top
  BY <1>0, <1>5 DEF Numbers
<1> QED
  BY <1>0, <1>1, <1>3, <1>4, <1>6, <1>7 DEF Order, rest

LEMMA OrderSent ==
  ASSUME NEW inc \in Seq(Messages), NEW hld \in Seq(Messages), NEW con \in Seq(Messages),
         NEW last \in Nat, NEW top \in Nat, Order(inc, hld, con, last, top),
         NEW msg \in Messages, msg.no = top + 1
  PROVE  /\ Order(inc, hld, con, last, top + 1)
         /\ Order(inc, hld, Append(con, msg), last, top + 1)
<1> DEFINE more == Append(con, msg)
<1>0. /\ Len(hld) <= 1 /\ last <= top /\ Increasing(inc) /\ Increasing(con)
      /\ Before(inc, hld) /\ Before(inc, con) /\ Before(hld, con)
      /\ Numbers(inc, last, top) /\ Numbers(hld, last, top) /\ Numbers(con, last, top)
  BY DEF Order
<1>1. /\ Len(con) \in Nat /\ Len(more) = Len(con) + 1
      /\ \A i \in 1..Len(con) : more[i] = con[i]
      /\ more[Len(con) + 1] = msg
  BY QueueParts, AppendParts
<1>2. \A i \in 1..Len(more) : i \in Nat /\ (i \in 1..Len(con) \/ i = Len(con) + 1)
  BY <1>1
<1> HIDE DEF more
<1>3. /\ \A i \in 1..Len(inc) : inc[i].no \in Nat
      /\ \A i \in 1..Len(hld) : hld[i].no \in Nat
      /\ \A i \in 1..Len(con) : con[i].no \in Nat
  BY QueueParts
<1>4. last <= top + 1 /\ Numbers(inc, last, top + 1)
      /\ Numbers(hld, last, top + 1) /\ Numbers(con, last, top + 1)
  <2>1. \A n \in Nat : n <= top => n <= top + 1
    OBVIOUS
  <2> QED
    BY <1>0, <1>3, <2>1 DEF Numbers
<1>5. Numbers(more, last, top + 1)
  BY <1>0, <1>1, <1>2, <1>4 DEF Numbers
<1>6. Before(inc, more) /\ Before(hld, more)
  <2>1. Before(inc, more)
    BY <1>0, <1>1, <1>2, <1>3 DEF Before, Numbers
  <2>2. Before(hld, more)
    BY <1>0, <1>1, <1>2, <1>3 DEF Before, Numbers
  <2> QED
    BY <2>1, <2>2
<1>7. Increasing(more)
  <2> SUFFICES ASSUME NEW i \in 1..Len(more), NEW j \in 1..Len(more), i < j
               PROVE  more[i].no < more[j].no
    BY DEF Increasing
  <2>1. i \in 1..Len(con)
    BY <1>1, <1>2
  <2>2. CASE j \in 1..Len(con)
    BY <1>0, <1>1, <2>1, <2>2 DEF Increasing
  <2>3. CASE j = Len(con) + 1
    BY <1>0, <1>1, <1>3, <2>1, <2>3 DEF Numbers
  <2> QED
    BY <1>2, <2>2, <2>3
<1> QED
  BY <1>0, <1>4, <1>5, <1>6, <1>7 DEF Order, more

LEMMA OrderTaken ==
  ASSUME NEW inc \in Seq(Messages), NEW con \in Seq(Messages),
         NEW last \in Nat, NEW top \in Nat, Order(inc, <<>>, con, last, top), con # <<>>
  PROVE  /\ Order(inc, <<>>, Tail(con), last, top)
         /\ Order(inc, <<Head(con)>>, Tail(con), last, top)
<1> DEFINE rest == Tail(con)
           one == <<Head(con)>>
<1>0. /\ Len(<<>>) <= 1 /\ last <= top /\ Increasing(inc) /\ Increasing(con)
      /\ Before(inc, <<>>) /\ Before(inc, con) /\ Before(<<>>, con)
      /\ Numbers(inc, last, top) /\ Numbers(<<>>, last, top) /\ Numbers(con, last, top)
  BY DEF Order
<1>1. /\ Len(con) \in Nat /\ Len(con) >= 1 /\ Len(rest) = Len(con) - 1
      /\ \A i \in 1..Len(rest) : rest[i] = con[i + 1]
      /\ Len(one) = 1 /\ one[1] = con[1]
  BY QueueParts, TailParts
<1>2. /\ \A i \in 1..Len(rest) : i \in Nat /\ i + 1 \in 1..Len(con) /\ 1 < i + 1
      /\ 1 \in 1..Len(con)
      /\ \A i \in 1..Len(one) : i = 1
  BY <1>1
<1> HIDE DEF rest, one
<1>3. Increasing(rest) /\ Before(inc, rest) /\ Numbers(rest, last, top) /\ Before(one, rest)
  <2>1. Increasing(rest)
    <3> SUFFICES ASSUME NEW i \in 1..Len(rest), NEW j \in 1..Len(rest), i < j
                 PROVE  rest[i].no < rest[j].no
      BY DEF Increasing
    <3>1. i + 1 < j + 1
      BY <1>2
    <3> QED
      BY <1>0, <1>1, <1>2, <3>1 DEF Increasing
  <2>2. Before(inc, rest)
    BY <1>0, <1>1, <1>2 DEF Before
  <2>3. Numbers(rest, last, top)
    BY <1>0, <1>1, <1>2 DEF Numbers
  <2>4. Before(one, rest)
    BY <1>0, <1>1, <1>2 DEF Increasing, Before
  <2> QED
    BY <2>1, <2>2, <2>3, <2>4
<1>4. Before(inc, one) /\ Numbers(one, last, top)
  BY <1>0, <1>1, <1>2 DEF Before, Numbers
<1>5. Before(<<>>, rest) /\ Numbers(<<>>, last, top) /\ Before(inc, <<>>) /\ Len(<<>>) <= 1
  BY DEF Before, Numbers
<1> QED
  BY <1>0, <1>1, <1>3, <1>4, <1>5 DEF Order, rest, one

LEMMA OrderAdmitted ==
  ASSUME NEW inc \in Seq(Messages), NEW hld \in Seq(Messages), NEW con \in Seq(Messages),
         NEW last \in Nat, NEW top \in Nat, Order(inc, hld, con, last, top), hld # <<>>
  PROVE  /\ Order(inc, <<>>, con, last, top)
         /\ Order(Append(inc, Head(hld)), <<>>, con, last, top)
<1> DEFINE more == Append(inc, Head(hld))
<1>0. /\ Len(hld) <= 1 /\ last <= top /\ Increasing(inc) /\ Increasing(con)
      /\ Before(inc, hld) /\ Before(inc, con) /\ Before(hld, con)
      /\ Numbers(inc, last, top) /\ Numbers(hld, last, top) /\ Numbers(con, last, top)
  BY DEF Order
<1>1. /\ Len(inc) \in Nat /\ Len(more) = Len(inc) + 1
      /\ \A i \in 1..Len(inc) : more[i] = inc[i]
      /\ more[Len(inc) + 1] = hld[1]
      /\ Len(hld) \in Nat /\ Len(hld) >= 1
  BY QueueParts, TailParts, AppendParts
<1>2. /\ \A i \in 1..Len(more) : i \in Nat /\ (i \in 1..Len(inc) \/ i = Len(inc) + 1)
      /\ 1 \in 1..Len(hld)
  BY <1>1
<1> HIDE DEF more
<1>3. \A i \in 1..Len(inc) : inc[i].no \in Nat
  BY QueueParts
<1>4. Increasing(more) /\ Before(more, con) /\ Numbers(more, last, top)
  <2>1. Increasing(more)
    <3> SUFFICES ASSUME NEW i \in 1..Len(more), NEW j \in 1..Len(more), i < j
                 PROVE  more[i].no < more[j].no
      BY DEF Increasing
    <3>1. i \in 1..Len(inc)
      BY <1>1, <1>2
    <3>2. CASE j \in 1..Len(inc)
      BY <1>0, <1>1, <3>1, <3>2 DEF Increasing
    <3>3. CASE j = Len(inc) + 1
      BY <1>0, <1>1, <1>2, <3>1, <3>3 DEF Before
    <3> QED
      BY <1>2, <3>2, <3>3
  <2>2. Before(more, con)
    BY <1>0, <1>1, <1>2, <1>3 DEF Before
  <2>3. Numbers(more, last, top)
    BY <1>0, <1>1, <1>2, <1>3 DEF Numbers
  <2> QED
    BY <2>1, <2>2, <2>3
<1>5. /\ Before(<<>>, con) /\ Numbers(<<>>, last, top) /\ Len(<<>>) <= 1
      /\ Before(inc, <<>>) /\ Before(more, <<>>)
  BY DEF Before, Numbers
<1> QED
  BY <1>0, <1>4, <1>5 DEF Order, more

LEMMA OrderDropped ==
  ASSUME NEW inc, NEW hld, NEW con, NEW last, NEW top, Order(inc, hld, con, last, top)
  PROVE  Order(inc, hld, <<>>, last, top)
BY DEF Order, Increasing, Before, Numbers

LEMMA OrderInvariant == PlaySpec => []Ordered
<1>1. PlayInit => Ordered
  <2> SUFFICES ASSUME PlayInit, NEW p \in Player PROVE OrderOf(p)
    BY DEF Ordered
  <2> DEFINE hld == held[p]
             con == consumed[p]
  <2>1. /\ incoming[p] = <<>> /\ lastHandled[p] = 0 /\ sent[p] = Len(hld) + Len(con)
        /\ Len(hld) \in 0..1 /\ Len(con) \in Nat
        /\ \A i \in 1..Len(hld) : hld[i].no = i
        /\ \A i \in 1..Len(con) : con[i].no = Len(hld) + i
    BY InitParts
  <2> HIDE DEF hld, con
  <2>2. Increasing(<<>>) /\ Before(<<>>, hld) /\ Before(<<>>, con) /\ Numbers(<<>>, 0, sent[p])
    BY DEF Increasing, Before, Numbers
  <2>3. Increasing(con) /\ Before(hld, con)
    BY <2>1 DEF Increasing, Before
  <2>4. Numbers(hld, 0, sent[p]) /\ Numbers(con, 0, sent[p])
    BY <2>1 DEF Numbers
  <2>5. Order(<<>>, hld, con, 0, sent[p])
    BY <2>1, <2>2, <2>3, <2>4 DEF Order
  <2> QED
    BY <2>1, <2>5 DEF OrderOf, hld, con
<1>2. PathType /\ PathType' /\ Ordered /\ [PlayNext]_allVars => Ordered'
  <2> SUFFICES ASSUME PathType, PathType', Ordered, [PlayNext]_allVars, NEW q \in Player
               PROVE  OrderOf(q)'
    BY DEF Ordered
  <2>0. /\ incoming[q] \in Seq(Messages) /\ held[q] \in Seq(Messages) /\ consumed[q] \in Seq(Messages)
        /\ lastHandled[q] \in Nat /\ sent[q] \in Nat
        /\ Order(incoming[q], held[q], consumed[q], lastHandled[q], sent[q])
    BY MaxSentAssumption DEF PathType, Ordered, OrderOf
  <2>1. CASE GameStep
    <3>1. CASE UNCHANGED <<incoming, lastHandled>>
      BY <2>0, <2>1, <3>1, GameStepPath DEF OrderOf
    <3>2. CASE /\ incoming[current] # <<>>
               /\ incoming' = [incoming EXCEPT ![current] = Tail(@)]
               /\ lastHandled' = [lastHandled EXCEPT ![current] = Head(incoming[current]).no]
      <4>1. CASE q = current
        <5>1. incoming'[q] = Tail(incoming[q]) /\ lastHandled'[q] = Head(incoming[q]).no
          BY <3>2, <4>1 DEF PathType
        <5> QED
          BY <2>0, <2>1, <3>2, <4>1, <5>1, GameStepPath, OrderHandled DEF OrderOf
      <4>2. CASE q # current
        <5>1. incoming'[q] = incoming[q] /\ lastHandled'[q] = lastHandled[q]
          BY <3>2, <4>2 DEF PathType
        <5> QED
          BY <2>0, <2>1, <5>1, GameStepPath DEF OrderOf
      <4> QED
        BY <4>1, <4>2
    <3> QED
      BY <2>1, <3>1, <3>2, GameStepPath
  <2>2. ASSUME NEW p \in Player, PlayerSends(p)
        PROVE  OrderOf(q)'
    <3>1. PICK msg \in Messages : msg.no = sent'[p] /\ Arrive(p, msg)
      BY <2>2, ArriveType
    <3>2. UNCHANGED <<incoming, held, lastHandled>>
      BY <2>2, <3>1 DEF PlayerSends, Arrive
    <3>3. CASE q = p
      <4>1. sent'[q] = sent[q] + 1
        BY <2>2, <3>3, ArriveType DEF PathType
      <4>2. consumed'[q] = consumed[q] \/ consumed'[q] = Append(consumed[q], msg)
        BY <3>1, <3>3 DEF Arrive, PathType
      <4> QED
        <5>1. /\ Order(incoming[q], held[q], consumed[q], lastHandled[q], sent[q] + 1)
              /\ Order(incoming[q], held[q], Append(consumed[q], msg), lastHandled[q], sent[q] + 1)
          BY <2>0, <3>1, <3>3, <4>1, OrderSent
        <5>2. Order(incoming'[q], held'[q], consumed'[q], lastHandled'[q], sent'[q])
          BY <3>2, <4>1, <4>2, <5>1
        <5> QED
          BY <5>2 DEF OrderOf
    <3>4. CASE q # p
      BY <2>0, <2>2, <3>1, <3>2, <3>4, ArriveType DEF OrderOf, Arrive, PathType
    <3> QED
      BY <3>3, <3>4
  <2>3. ASSUME NEW p \in Player, ReaderTakes(p)
        PROVE  OrderOf(q)'
    <3>1. UNCHANGED <<incoming, lastHandled, sent>>
      BY <2>3 DEF ReaderTakes, Take, playVars
    <3>2. CASE q = p
      <4>1. /\ held[q] = <<>> /\ consumed[q] # <<>> /\ consumed'[q] = Tail(consumed[q])
            /\ held'[q] = <<>> \/ held'[q] = <<Head(consumed[q])>>
        BY <2>3, <3>2 DEF ReaderTakes, Take, PathType
      <4> QED
        BY <2>0, <3>1, <4>1, OrderTaken DEF OrderOf
    <3>3. CASE q # p
      BY <2>0, <2>3, <3>1, <3>3 DEF OrderOf, ReaderTakes, Take, PathType
    <3> QED
      BY <3>2, <3>3
  <2>4. ASSUME NEW p \in Player, ReaderAdmits(p)
        PROVE  OrderOf(q)'
    <3>1. UNCHANGED <<consumed, lastHandled, sent>>
      BY <2>4 DEF ReaderAdmits, Admit
    <3>2. CASE q = p
      <4>1. /\ held[q] # <<>> /\ held'[q] = <<>>
            /\ incoming'[q] = incoming[q] \/ incoming'[q] = Append(incoming[q], Head(held[q]))
        BY <2>4, <3>2 DEF ReaderAdmits, Admit, Enqueue, PathType
      <4> QED
        BY <2>0, <3>1, <4>1, OrderAdmitted DEF OrderOf
    <3>3. CASE q # p
      BY <2>0, <2>4, <3>1, <3>3 DEF OrderOf, ReaderAdmits, Admit, PathType
    <3> QED
      BY <3>2, <3>3
  <2>5. ASSUME NEW p \in Player, ReaderEnds(p)
        PROVE  OrderOf(q)'
    <3>1. UNCHANGED <<incoming, held, lastHandled, sent>>
      BY <2>5 DEF ReaderEnds, ReaderReturns, playVars
    <3>2. consumed'[q] = consumed[q] \/ consumed'[q] = <<>>
      BY <2>5 DEF ReaderEnds, ReaderReturns, PathType
    <3> QED
      BY <2>0, <3>1, <3>2, OrderDropped DEF OrderOf
  <2>6. CASE UNCHANGED <<incoming, held, consumed, lastHandled, sent>>
    BY <2>0, <2>6 DEF OrderOf
  <2>7. ASSUME NEW p \in Player, LobbyReturns(p)
        PROVE  UNCHANGED <<incoming, held, consumed, lastHandled, sent>>
    BY <2>7 DEF LobbyReturns
  <2>8. CASE CountAnew
    <3>1. /\ UNCHANGED <<incoming, held, consumed>> /\ lastHandled'[q] = 0 /\ sent'[q] = 0
          /\ incoming'[q] = <<>> /\ held'[q] = <<>> /\ consumed'[q] = <<>>
      BY <2>8 DEF CountAnew, clientVars
    <3>2. Order(<<>>, <<>>, <<>>, 0, 0)
      BY DEF Order, Increasing, Before, Numbers
    <3> QED
      BY <3>1, <3>2 DEF OrderOf
  <2>9. DeadlinePasses \/ ServerCloses \/ PlayFinished \/ UNCHANGED allVars
          => UNCHANGED <<incoming, held, consumed, lastHandled, sent>>
    BY DEF DeadlinePasses, ServerCloses, PlayFinished, allVars, clientVars, playVars
  <2> QED
    BY <2>1, <2>2, <2>3, <2>4, <2>5, <2>6, <2>7, <2>8, <2>9 DEF PlayNext, ReaderStep
<1> QED
  BY <1>1, <1>2, PathTypeCorrect, PTL DEF PlaySpec

\* What a player has sent reaches the game in the order of sending, once.
THEOREM MessagesAlwaysInOrder == PlaySpec => []MessagesInOrder
BY OrderInvariant, OrderedInOrder, PathTypeCorrect, PTL
==============================================================================
