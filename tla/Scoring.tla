------------------------------- MODULE Scoring -------------------------------
(***************************************************************************)
(* The pure scoring rules of logic/scoring.go.  A roll is the Go map       *)
(* counts: how many dice show each face.  A missing key of the map reads   *)
(* as 0, so counts is a function that is total on the six faces.  The      *)
(* range loops of the code visit the map in an unspecified order; what     *)
(* they accumulate (a sum and a disjunction) does not depend on it.        *)
(***************************************************************************)
EXTENDS Integers

Face == 1..6

ScoreFullStraight == 1500
ScoreUpperStraight == 750
ScoreLowerStraight == 500

(***************************************************************************)
(* Mutants: what a plausible bug would make of the definition that is      *)
(* named in each comment.  Nothing uses them; a property is trusted only   *)
(* after it has been seen to fail with one of them in that place.          *)
(***************************************************************************)
HasFourOfKind(counts) == \E v \in Face : counts[v] >= 4      \* hasThreeOfKind

HasPair(counts) == \E v \in Face : counts[v] >= 2            \* hasThreeOfKind

PlainUpperStraight(counts) ==                                \* UpperStraightResult
  [score |-> ScoreUpperStraight, extra |-> \E v \in Face : counts[v] > 1]
-----------------------------------------------------------------------------
hasSingle(counts) == counts[1] > 0 \/ counts[5] > 0

hasThreeOfKind(counts) == \E v \in Face : counts[v] >= 3

hasLowerStraight(counts) == \A v \in 1..5 : counts[v] > 0

hasUpperStraight(counts) == \A v \in 2..6 : counts[v] > 0

hasFullStraight(counts) == \A v \in Face : counts[v] = 1

hasBusted(counts) ==
  /\ ~hasSingle(counts)
  /\ ~hasThreeOfKind(counts)
  /\ ~hasLowerStraight(counts)
  /\ ~hasUpperStraight(counts)

\* powInt(2, n), tabulated: six dice give exponents 0 to 3 only, where the
\* conversion to float64 and back is exact.
PowerOfTwo(n) ==
  CASE n = 0 -> 1
    [] n = 1 -> 2
    [] n = 2 -> 4
    [] n = 3 -> 8

diceCountMultiplier(base, count) == base * PowerOfTwo(count - 3)

\* The points of count dice that show face v, outside of a straight.
FaceScore(v, count) ==
  CASE v = 1 -> IF count >= 3 THEN diceCountMultiplier(1000, count) ELSE count * 100
    [] v = 5 -> IF count >= 3 THEN diceCountMultiplier(500, count) ELSE count * 50
    [] v \in {2, 3, 4, 6} -> IF count >= 3 THEN diceCountMultiplier(v * 100, count) ELSE 0

FaceExtra(v, count) == v \in {2, 3, 4, 6} /\ count > 0 /\ count < 3

DiceTotal(counts) ==
  counts[1] + counts[2] + counts[3] + counts[4] + counts[5] + counts[6]

Result(score, extra) == [score |-> score, extra |-> extra]

UpperStraightResult(counts) ==
  IF counts[5] = 2 THEN Result(ScoreUpperStraight + 50, FALSE)
                   ELSE Result(ScoreUpperStraight, DiceTotal(counts) > 5)

LowerStraightResult(counts) ==
  IF counts[1] = 2 THEN Result(ScoreLowerStraight + 100, FALSE)
  ELSE IF counts[5] = 2 THEN Result(ScoreLowerStraight + 50, FALSE)
  ELSE Result(ScoreLowerStraight, DiceTotal(counts) > 5)

KindsResult(counts) ==
  Result(FaceScore(1, counts[1]) + FaceScore(2, counts[2]) + FaceScore(3, counts[3])
           + FaceScore(4, counts[4]) + FaceScore(5, counts[5]) + FaceScore(6, counts[6]),
         \E v \in Face : FaceExtra(v, counts[v]))

\* The two results of scoreCounts: the points, and whether some die of the
\* selection takes no part in them.
scoreCounts(counts) ==
  IF hasFullStraight(counts) THEN Result(ScoreFullStraight, FALSE)
  ELSE IF hasUpperStraight(counts) THEN UpperStraightResult(counts)
  ELSE IF hasLowerStraight(counts) THEN LowerStraightResult(counts)
  ELSE KindsResult(counts)
-----------------------------------------------------------------------------
Within(part, whole) == \A v \in Face : part[v] <= whole[v]

\* Every roll contained in c; a tuple of six numbers is a function on Face.
SubRolls(c) ==
  (0..c[1]) \X (0..c[2]) \X (0..c[3]) \X (0..c[4]) \X (0..c[5]) \X (0..c[6])

\* A part of a roll that may be set aside for points.
Earns(c) == scoreCounts(c).score > 0 /\ ~scoreCounts(c).extra

\* hasBusted ends a turn only when no part of the roll could have scored,
\* and lets it go on only when some part can be selected and scored.
BustIsExact(c) == hasBusted(c) <=> ~\E s \in SubRolls(c) : Earns(s)
==============================================================================
