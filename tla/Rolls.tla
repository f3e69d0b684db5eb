-------------------------------- MODULE Rolls --------------------------------
(***************************************************************************)
(* Rolls up to NumDice weighted dice one after the other and compares the  *)
(* scoring of every roll with a definition that knows nothing about its    *)
(* case analysis: a selection is worth the best way to cut it, without a   *)
(* remainder, into scoring combinations.                                   *)
(***************************************************************************)
EXTENDS Scoring, Dice, FiniteSets

CONSTANTS NumDice, Variants

ASSUME NumDiceAssumption == NumDice \in 1..6

VARIABLES counts,  \* how many of the dice rolled so far show each face
          drawn    \* the last throw: the variant, Roller's number, the face

rollVars == <<counts, drawn>>

NoDice == [v \in Face |-> 0]
-----------------------------------------------------------------------------
(***************************************************************************)
(* The reference.  One combination is a single 1 or 5, three to six of a   *)
(* kind, or a straight; its value is what it earns.                        *)
(***************************************************************************)
Kind(v, n) == [NoDice EXCEPT ![v] = n]
Straight(from, to) == [v \in Face |-> IF v \in from..to THEN 1 ELSE 0]

\* Three of a kind; every further one doubles the points.
KindValue(v, n) == (IF v = 1 THEN 1000 ELSE v * 100) * <<1, 2, 4, 8>>[n - 2]

Combination ==
  {[dice |-> Kind(1, 1), value |-> 100], [dice |-> Kind(5, 1), value |-> 50],
   [dice |-> Straight(1, 5), value |-> 500], [dice |-> Straight(2, 6), value |-> 750],
   [dice |-> Straight(1, 6), value |-> 1500]}
  \cup {[dice |-> Kind(v, n), value |-> KindValue(v, n)] : v \in Face, n \in 3..6}

Minus(whole, part) == [v \in Face |-> whole[v] - part[v]]

\* A roll of at most six dice.
Roll == {c \in [Face -> 0..6] : DiceTotal(c) <= 6}

\* The combinations that can be cut off a roll.
Held(c) == {combo \in Combination : Within(combo.dice, c)}

\* The values of all ways to cut a roll completely into combinations.
CutValues[c \in Roll] ==
  IF c = NoDice THEN {0}
  ELSE UNION {{combo.value + x : x \in CutValues[Minus(c, combo.dice)]} : combo \in Held(c)}
-----------------------------------------------------------------------------
RollInit ==
  /\ counts = NoDice
  /\ drawn = [variant |-> "regular", roll |-> 0, face |-> 1]

\* One more die of any variant is thrown.
Throw(variant, roll) ==
  /\ DiceTotal(counts) < NumDice
  /\ LET face == rollWeightedDice(variant, roll)
     IN  /\ counts' = [counts EXCEPT ![face] = @ + 1]
         /\ drawn' = [variant |-> variant, roll |-> roll, face |-> face]

\* All the dice are thrown: take them up again.
PickUp ==
  /\ DiceTotal(counts) = NumDice
  /\ counts' = NoDice
  /\ UNCHANGED drawn

RollNext ==
  \/ \E variant \in Variants : \E roll \in RollerOutcome(variant) : Throw(variant, roll)
  \/ PickUp

RollSpec == RollInit /\ [][RollNext]_rollVars
-----------------------------------------------------------------------------
\* The panic of rollWeightedDice is out of reach for every outcome of the
\* roller, and each face is drawn by exactly as many outcomes as its weight.
RollMatchesWeights ==
  /\ drawn.face \in Face
  /\ LET outcomes == {r \in RollerOutcome(drawn.variant) :
                        rollWeightedDice(drawn.variant, r) = drawn.face}
     IN  /\ drawn.roll \in outcomes
         /\ Cardinality(outcomes) = Weights(drawn.variant)[drawn.face]

\* scoreCounts reports extra dice exactly when the selection cannot be cut
\* into combinations, and otherwise earns the most valuable cut.
ScoreIsBestCut ==
  LET cuts == CutValues[counts]
      result == scoreCounts(counts)
  IN  /\ result.extra <=> cuts = {}
      /\ ~result.extra => result.score \in cuts /\ \A x \in cuts : x <= result.score

\* hasBusted ends a turn only when no part of the roll could have scored,
\* and lets it go on only when some part can be selected and scored.
BustedIffNothingScores == BustIsExact(counts)
==============================================================================
