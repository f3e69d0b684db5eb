---------------------------- MODULE ScoringProofs ----------------------------
(***************************************************************************)
(* Proofs about the scoring rules of Scoring and the weighted dice of      *)
(* Dice: what each case of the code earns, that a bust is exactly a roll   *)
(* without a part that scores, and the invariants of Rolls, for every roll *)
(* of at most six dice of any variants.                                    *)
(***************************************************************************)
EXTENDS Rolls, FiniteSetTheorems, TLAPS

-----------------------------------------------------------------------------
(***************************************************************************)
(* The scoring rules, for every roll of at most six dice of a kind.        *)
(***************************************************************************)
Counts == [Face -> 0..6]

\* The powers that the multiplier of three to six equal dice uses.
LEMMA PowerType ==
  ASSUME NEW n \in 3..6
  PROVE  PowerOfTwo(n - 3) \in {1, 2, 4, 8}
<1>1. n = 3 \/ n = 4 \/ n = 5 \/ n = 6
  OBVIOUS
<1>2. CASE n = 3
  BY <1>2 DEF PowerOfTwo
<1>3. CASE n = 4
  BY <1>3 DEF PowerOfTwo
<1>4. CASE n = 5
  BY <1>4 DEF PowerOfTwo
<1>5. CASE n = 6
  BY <1>5 DEF PowerOfTwo
<1> QED
  BY <1>1, <1>2, <1>3, <1>4, <1>5

\* The points of one face are a natural number, and three or more of a face,
\* and any 1 or 5, are worth something.
LEMMA FaceScoreType ==
  ASSUME NEW v \in Face, NEW n \in 0..6
  PROVE  /\ FaceScore(v, n) \in Nat
         /\ n = 0 => FaceScore(v, n) = 0
         /\ n >= 3 => FaceScore(v, n) > 0
         /\ v \in {1, 5} /\ n > 0 => FaceScore(v, n) > 0
<1>1. v = 1 \/ v = 5 \/ v \in {2, 3, 4, 6}
  BY DEF Face
<1>2. CASE n >= 3
  <2>1. PowerOfTwo(n - 3) \in {1, 2, 4, 8}
    BY <1>2, PowerType
  <2>2. CASE v = 1
    BY <1>2, <2>1, <2>2 DEF FaceScore, diceCountMultiplier
  <2>3. CASE v = 5
    BY <1>2, <2>1, <2>3 DEF FaceScore, diceCountMultiplier
  <2>4. CASE v \in {2, 3, 4, 6}
    BY <1>2, <2>1, <2>4 DEF FaceScore, diceCountMultiplier
  <2> QED
    BY <1>1, <2>2, <2>3, <2>4
<1>3. CASE n < 3
  BY <1>1, <1>3 DEF FaceScore
<1> QED
  BY <1>2, <1>3

\* scoreCounts returns points and a flag.
THEOREM ScoreType ==
  ASSUME NEW c \in Counts
  PROVE  scoreCounts(c) \in [score : Nat, extra : BOOLEAN]
<1>1. \A v \in Face : c[v] \in 0..6 /\ FaceScore(v, c[v]) \in Nat
  BY FaceScoreType DEF Counts
<1>2. KindsResult(c) \in [score : Nat, extra : BOOLEAN]
  <2>1. FaceScore(1, c[1]) + FaceScore(2, c[2]) + FaceScore(3, c[3])
          + FaceScore(4, c[4]) + FaceScore(5, c[5]) + FaceScore(6, c[6]) \in Nat
    BY <1>1 DEF Face
  <2> QED
    BY <2>1 DEF KindsResult, Result
<1>3. UpperStraightResult(c) \in [score : Nat, extra : BOOLEAN]
  BY DEF UpperStraightResult, Result, ScoreUpperStraight
<1>4. LowerStraightResult(c) \in [score : Nat, extra : BOOLEAN]
  BY DEF LowerStraightResult, Result, ScoreLowerStraight
<1> QED
  BY <1>2, <1>3, <1>4 DEF scoreCounts, Result, ScoreFullStraight

\* An empty selection is worth nothing and has no extra dice.
THEOREM EmptyScore ==
  ASSUME NEW c \in Counts, \A v \in Face : c[v] = 0
  PROVE  scoreCounts(c) = [score |-> 0, extra |-> FALSE]
<1>1. ~hasFullStraight(c) /\ ~hasUpperStraight(c) /\ ~hasLowerStraight(c)
  BY DEF hasFullStraight, hasUpperStraight, hasLowerStraight, Face
<1>2. ASSUME NEW v \in Face
      PROVE  FaceScore(v, c[v]) = 0 /\ ~FaceExtra(v, c[v])
  <2>1. c[v] = 0 /\ 0 \in 0..6
    OBVIOUS
  <2>2. FaceScore(v, 0) = 0
    BY <2>1, FaceScoreType
  <2> QED
    BY <2>1, <2>2 DEF FaceExtra
<1>3. FaceScore(1, c[1]) + FaceScore(2, c[2]) + FaceScore(3, c[3])
        + FaceScore(4, c[4]) + FaceScore(5, c[5]) + FaceScore(6, c[6]) = 0
  BY <1>2 DEF Face
<1>4. (\E v \in Face : FaceExtra(v, c[v])) = FALSE
  BY <1>2
<1>5. KindsResult(c) = [score |-> 0, extra |-> FALSE]
  BY <1>3, <1>4 DEF KindsResult, Result
<1> QED
  BY <1>1, <1>5 DEF scoreCounts

\* Only dice of one face are selected, enough of them to score.
THEOREM KindScores ==
  ASSUME NEW c \in Counts, NEW v \in Face,
         \A w \in Face : w # v => c[w] = 0,
         c[v] >= 3 \/ (v \in {1, 5} /\ c[v] > 0)
  PROVE  scoreCounts(c).score > 0 /\ ~scoreCounts(c).extra
<1>1. ~hasFullStraight(c) /\ ~hasUpperStraight(c) /\ ~hasLowerStraight(c)
  <2>1. \E w \in 2..5 : w # v
    BY DEF Face
  <2>2. \E w \in 2..5 : c[w] = 0
    BY <2>1 DEF Face
  <2> QED
    BY <2>2 DEF hasFullStraight, hasUpperStraight, hasLowerStraight, Face
<1>2. /\ FaceScore(v, c[v]) > 0 /\ ~FaceExtra(v, c[v])
      /\ FaceScore(v, c[v]) \in Nat
  BY FaceScoreType DEF FaceExtra, Counts
<1>3. \A w \in Face : w # v => FaceScore(w, c[w]) = 0 /\ ~FaceExtra(w, c[w])
  BY FaceScoreType DEF FaceExtra
<1>4. scoreCounts(c) = KindsResult(c)
  BY <1>1 DEF scoreCounts
<1>5. FaceScore(1, c[1]) + FaceScore(2, c[2]) + FaceScore(3, c[3])
        + FaceScore(4, c[4]) + FaceScore(5, c[5]) + FaceScore(6, c[6]) = FaceScore(v, c[v])
  BY <1>2, <1>3 DEF Face
<1> QED
  BY <1>2, <1>3, <1>4, <1>5 DEF KindsResult, Result

\* One die of each of five faces in a row.
THEOREM StraightScores ==
  ASSUME NEW c \in Counts, NEW first \in {1, 2},
         \A v \in Face : c[v] = IF v \in first .. (first + 4) THEN 1 ELSE 0
  PROVE  scoreCounts(c).score > 0 /\ ~scoreCounts(c).extra
<1>1. ~hasFullStraight(c)
  BY DEF hasFullStraight, Face
<1>2. (DiceTotal(c) > 5) = FALSE
  BY DEF DiceTotal, Face
<1>3. CASE first = 1
  <2>1. ~hasUpperStraight(c) /\ hasLowerStraight(c)
    BY <1>3 DEF hasUpperStraight, hasLowerStraight, Face
  <2>2. c[1] = 1 /\ c[5] = 1
    BY <1>3 DEF Face
  <2>3. LowerStraightResult(c) = [score |-> 500, extra |-> FALSE]
    <3>1. LowerStraightResult(c) = Result(ScoreLowerStraight, DiceTotal(c) > 5)
      BY <2>2 DEF LowerStraightResult
    <3> QED
      BY <1>2, <3>1 DEF Result, ScoreLowerStraight
  <2> QED
    BY <1>1, <2>1, <2>3 DEF scoreCounts
<1>4. CASE first = 2
  <2>1. hasUpperStraight(c)
    BY <1>4 DEF hasUpperStraight, Face
  <2>2. c[5] = 1
    BY <1>4 DEF Face
  <2>3. UpperStraightResult(c) = [score |-> 750, extra |-> FALSE]
    <3>1. UpperStraightResult(c) = Result(ScoreUpperStraight, DiceTotal(c) > 5)
      BY <2>2 DEF UpperStraightResult
    <3> QED
      BY <1>2, <3>1 DEF Result, ScoreUpperStraight
  <2> QED
    BY <1>1, <2>1, <2>3 DEF scoreCounts
<1> QED
  BY <1>3, <1>4

\* A face of which fewer than three dice show earns nothing unless it is 1 or 5.
LEMMA FewEarnNothing ==
  ASSUME NEW s, s[1] = 0, s[5] = 0, \A v \in {2, 3, 4, 6} : s[v] \in 0..2
  PROVE  ~Earns(s)
<1>1. ~hasFullStraight(s) /\ ~hasUpperStraight(s) /\ ~hasLowerStraight(s)
  BY DEF hasFullStraight, hasUpperStraight, hasLowerStraight, Face
<1>2. FaceScore(1, s[1]) = 0 /\ FaceScore(5, s[5]) = 0
  BY DEF FaceScore
<1>3. \A v \in {2, 3, 4, 6} : FaceScore(v, s[v]) = 0
  BY DEF FaceScore
<1>4. KindsResult(s).score = 0
  BY <1>2, <1>3 DEF KindsResult, Result
<1> QED
  BY <1>1, <1>4 DEF scoreCounts, Earns

\* hasBusted is exact: a roll of at most six dice of a face is busted if and
\* only if no part of it could be set aside for points.
THEOREM BustedIsExact ==
  ASSUME NEW c \in Counts
  PROVE  BustIsExact(c)
<1>0. c[1] \in 0..6 /\ c[2] \in 0..6 /\ c[3] \in 0..6 /\ c[4] \in 0..6 /\ c[5] \in 0..6 /\ c[6] \in 0..6
  BY DEF Counts, Face
<1>1. ASSUME hasBusted(c), NEW s \in SubRolls(c)
      PROVE  ~Earns(s)
  <2>1. /\ s[1] \in 0..c[1] /\ s[2] \in 0..c[2] /\ s[3] \in 0..c[3]
        /\ s[4] \in 0..c[4] /\ s[5] \in 0..c[5] /\ s[6] \in 0..c[6]
    BY DEF SubRolls
  <2>2. c[1] = 0 /\ c[5] = 0 /\ c[2] < 3 /\ c[3] < 3 /\ c[4] < 3 /\ c[6] < 3
    BY <1>0, <1>1 DEF hasBusted, hasSingle, hasThreeOfKind, Face
  <2>3. s[1] = 0 /\ s[5] = 0 /\ \A v \in {2, 3, 4, 6} : s[v] \in 0..2
    BY <1>0, <2>1, <2>2
  <2> QED
    BY <2>3, FewEarnNothing
<1>2. ASSUME NEW s \in Counts, Within(s, c), Earns(s)
      PROVE  \E t \in SubRolls(c) : Earns(t)
  <2>1. s = <<s[1], s[2], s[3], s[4], s[5], s[6]>>
    BY DEF Counts, Face
  <2>2. /\ s[1] \in 0..c[1] /\ s[2] \in 0..c[2] /\ s[3] \in 0..c[3]
        /\ s[4] \in 0..c[4] /\ s[5] \in 0..c[5] /\ s[6] \in 0..c[6]
    <3>1. \A v \in Face : s[v] \in 0..6 /\ c[v] \in 0..6 /\ s[v] <= c[v]
      BY <1>2 DEF Counts, Within
    <3> QED
      BY <3>1 DEF Face
  <2>3. s \in SubRolls(c)
    BY <2>1, <2>2 DEF SubRolls
  <2> QED
    BY <1>2, <2>3
<1>3. ASSUME NEW v \in Face, c[v] >= 3 \/ (v \in {1, 5} /\ c[v] > 0)
      PROVE  \E t \in SubRolls(c) : Earns(t)
  <2> DEFINE s == [w \in Face |-> IF w = v THEN c[v] ELSE 0]
  <2>1. s \in Counts /\ Within(s, c)
    BY DEF Counts, Within
  <2>2. s[v] = c[v] /\ \A w \in Face : w # v => s[w] = 0
    OBVIOUS
  <2> HIDE DEF s
  <2>3. Earns(s)
    BY <1>3, <2>1, <2>2, KindScores DEF Earns
  <2> QED
    BY <1>2, <2>1, <2>3
<1>4. ASSUME NEW first \in {1, 2}, \A v \in first .. (first + 4) : c[v] > 0
      PROVE  \E t \in SubRolls(c) : Earns(t)
  <2> DEFINE s == [w \in Face |-> IF w \in first .. (first + 4) THEN 1 ELSE 0]
  <2>1. s \in Counts /\ Within(s, c)
    <3>1. \A w \in Face : c[w] \in 0..6
      BY DEF Counts
    <3> QED
      BY <1>4, <3>1 DEF Counts, Within
  <2>2. \A w \in Face : s[w] = IF w \in first .. (first + 4) THEN 1 ELSE 0
    OBVIOUS
  <2> HIDE DEF s
  <2>3. Earns(s)
    BY <2>1, <2>2, StraightScores DEF Earns
  <2> QED
    BY <1>2, <2>1, <2>3
<1>5. ASSUME ~hasBusted(c)
      PROVE  \E t \in SubRolls(c) : Earns(t)
  <2>1. CASE hasSingle(c)
    <3>1. \E v \in Face : v \in {1, 5} /\ c[v] > 0
      BY <2>1 DEF hasSingle, Face
    <3> QED
      BY <1>3, <3>1
  <2>2. CASE hasThreeOfKind(c)
    BY <1>3, <2>2 DEF hasThreeOfKind
  <2>3. CASE hasLowerStraight(c)
    <3>1. 1 \in {1, 2} /\ \A v \in 1 .. (1 + 4) : c[v] > 0
      BY <2>3 DEF hasLowerStraight
    <3> QED
      BY <1>4, <3>1
  <2>4. CASE hasUpperStraight(c)
    <3>1. 2 \in {1, 2} /\ \A v \in 2 .. (2 + 4) : c[v] > 0
      BY <2>4 DEF hasUpperStraight
    <3> QED
      BY <1>4, <3>1
  <2> QED
    BY <1>5, <2>1, <2>2, <2>3, <2>4 DEF hasBusted
<1> QED
  BY <1>1, <1>5 DEF BustIsExact
-----------------------------------------------------------------------------
(***************************************************************************)
(* The reference of Rolls: what can be cut off a roll, and what is left.   *)
(***************************************************************************)

\* Six numbers that make up a roll.
LEMMA RollParts ==
  ASSUME NEW c \in Roll
  PROVE  /\ c \in Counts
         /\ c[1] \in 0..6 /\ c[2] \in 0..6 /\ c[3] \in 0..6
         /\ c[4] \in 0..6 /\ c[5] \in 0..6 /\ c[6] \in 0..6
         /\ c[1] + c[2] + c[3] + c[4] + c[5] + c[6] <= 6
<1>1. c \in [Face -> 0..6] /\ DiceTotal(c) <= 6
  BY DEF Roll
<1> QED
  BY <1>1 DEF Counts, DiceTotal, Face

LEMMA RollTotal ==
  ASSUME NEW c \in Roll
  PROVE  DiceTotal(c) \in 0..6
<1>1. DiceTotal(c) = c[1] + c[2] + c[3] + c[4] + c[5] + c[6]
  BY DEF DiceTotal
<1> QED
  BY <1>1, RollParts

\* Two rolls that show the same number of each face are the same.
LEMMA SameRoll ==
  ASSUME NEW c \in Roll, NEW d \in Roll, \A v \in Face : c[v] = d[v]
  PROVE  c = d
<1>1. c \in [Face -> 0..6] /\ d \in [Face -> 0..6]
  BY DEF Roll
<1> QED
  BY <1>1

LEMMA NoDiceRoll == NoDice \in Roll /\ \A v \in Face : NoDice[v] = 0
BY DEF NoDice, Roll, DiceTotal, Face

\* The dice of n of a kind, as six numbers.
LEMMA KindDice ==
  ASSUME NEW v \in Face, NEW n \in 1..6
  PROVE  /\ Kind(v, n) \in Roll
         /\ \A w \in Face : Kind(v, n)[w] = IF w = v THEN n ELSE 0
<1>1. \A w \in Face : Kind(v, n)[w] = IF w = v THEN n ELSE 0
  BY NoDiceRoll DEF Kind, NoDice
<1>2. Kind(v, n) \in [Face -> 0..6]
  BY <1>1 DEF Kind, NoDice
<1>3. DiceTotal(Kind(v, n)) = n
  BY <1>1 DEF DiceTotal, Face
<1> QED
  BY <1>1, <1>2, <1>3 DEF Roll

\* The dice of a straight, as six numbers.
LEMMA StraightDice ==
  ASSUME NEW from \in Face, NEW to \in Face, from < to
  PROVE  /\ Straight(from, to) \in Roll
         /\ \A w \in Face : Straight(from, to)[w] = IF w \in from..to THEN 1 ELSE 0
<1>1. \A w \in Face : Straight(from, to)[w] = IF w \in from..to THEN 1 ELSE 0
  BY DEF Straight
<1>2. Straight(from, to) \in [Face -> 0..6]
  BY <1>1 DEF Straight
<1>3. DiceTotal(Straight(from, to)) <= 6
  BY <1>1 DEF DiceTotal, Face
<1> QED
  BY <1>1, <1>2, <1>3 DEF Roll

\* A combination is n of a kind or a straight; the points of n of a kind are
\* those of the code for n dice of that face.
KindCombo(v, n) == [dice |-> Kind(v, n), value |-> FaceScore(v, n)]
StraightCombo(from, to, value) == [dice |-> Straight(from, to), value |-> value]
CanBeKind(v, n) == n \in 3..6 \/ (v \in {1, 5} /\ n = 1)

\* The points of the code for n dice of one face, face by face.
LEMMA FaceScoreTable ==
  /\ FaceScore(1, 0) = 0 /\ FaceScore(1, 1) = 100 /\ FaceScore(1, 2) = 200
  /\ FaceScore(1, 3) = 1000 /\ FaceScore(1, 4) = 2000
  /\ FaceScore(1, 5) = 4000 /\ FaceScore(1, 6) = 8000
  /\ FaceScore(5, 0) = 0 /\ FaceScore(5, 1) = 50 /\ FaceScore(5, 2) = 100
  /\ FaceScore(5, 3) = 500 /\ FaceScore(5, 4) = 1000
  /\ FaceScore(5, 5) = 2000 /\ FaceScore(5, 6) = 4000
  /\ \A v \in {2, 3, 4, 6} :
       /\ FaceScore(v, 0) = 0 /\ FaceScore(v, 1) = 0 /\ FaceScore(v, 2) = 0
       /\ FaceScore(v, 3) = 100 * v /\ FaceScore(v, 4) = 200 * v
       /\ FaceScore(v, 5) = 400 * v /\ FaceScore(v, 6) = 800 * v
<1>1. PowerOfTwo(0) = 1 /\ PowerOfTwo(1) = 2 /\ PowerOfTwo(2) = 4 /\ PowerOfTwo(3) = 8
  BY DEF PowerOfTwo
<1>2. \A base \in Nat : /\ diceCountMultiplier(base, 3) = base
                        /\ diceCountMultiplier(base, 4) = base * 2
                        /\ diceCountMultiplier(base, 5) = base * 4
                        /\ diceCountMultiplier(base, 6) = base * 8
  BY <1>1 DEF diceCountMultiplier
<1>3. /\ FaceScore(1, 0) = 0 /\ FaceScore(1, 1) = 100 /\ FaceScore(1, 2) = 200
      /\ FaceScore(1, 3) = 1000 /\ FaceScore(1, 4) = 2000
      /\ FaceScore(1, 5) = 4000 /\ FaceScore(1, 6) = 8000
  BY <1>2 DEF FaceScore
<1>4. /\ FaceScore(5, 0) = 0 /\ FaceScore(5, 1) = 50 /\ FaceScore(5, 2) = 100
      /\ FaceScore(5, 3) = 500 /\ FaceScore(5, 4) = 1000
      /\ FaceScore(5, 5) = 2000 /\ FaceScore(5, 6) = 4000
  BY <1>2 DEF FaceScore
<1>5. ASSUME NEW v \in {2, 3, 4, 6}
      PROVE  /\ FaceScore(v, 0) = 0 /\ FaceScore(v, 1) = 0 /\ FaceScore(v, 2) = 0
             /\ FaceScore(v, 3) = 100 * v /\ FaceScore(v, 4) = 200 * v
             /\ FaceScore(v, 5) = 400 * v /\ FaceScore(v, 6) = 800 * v
  BY <1>2 DEF FaceScore
<1> QED
  BY <1>3, <1>4, <1>5

LEMMA CombinationCases ==
  /\ \A v \in Face, n \in 1..6 : CanBeKind(v, n) => KindCombo(v, n) \in Combination
  /\ StraightCombo(1, 5, 500) \in Combination
  /\ StraightCombo(2, 6, 750) \in Combination
  /\ StraightCombo(1, 6, 1500) \in Combination
  /\ \A combo \in Combination :
       \/ \E v \in Face, n \in 1..6 : CanBeKind(v, n) /\ combo = KindCombo(v, n)
       \/ combo \in {StraightCombo(1, 5, 500), StraightCombo(2, 6, 750), StraightCombo(1, 6, 1500)}
<1>1. ASSUME NEW v \in Face, NEW n \in 3..6
      PROVE  KindValue(v, n) = FaceScore(v, n)
  <2>1. v = 1 \/ v = 5 \/ v \in {2, 3, 4, 6}
    BY DEF Face
  <2>2. n = 3 \/ n = 4 \/ n = 5 \/ n = 6
    OBVIOUS
  <2>3. /\ <<1, 2, 4, 8>>[1] = 1 /\ <<1, 2, 4, 8>>[2] = 2
        /\ <<1, 2, 4, 8>>[3] = 4 /\ <<1, 2, 4, 8>>[4] = 8
    OBVIOUS
  <2>4. CASE v = 1
    BY <2>2, <2>3, <2>4, FaceScoreTable DEF KindValue
  <2>5. CASE v = 5
    BY <2>2, <2>3, <2>5, FaceScoreTable DEF KindValue
  <2>6. CASE v \in {2, 3, 4, 6}
    BY <2>2, <2>3, <2>6, FaceScoreTable DEF KindValue
  <2> QED
    BY <2>1, <2>4, <2>5, <2>6
<1>2. KindCombo(1, 1) = [dice |-> Kind(1, 1), value |-> 100]
  BY FaceScoreTable DEF KindCombo
<1>3. KindCombo(5, 1) = [dice |-> Kind(5, 1), value |-> 50]
  BY FaceScoreTable DEF KindCombo
<1>4. \A v \in Face, n \in 3..6 :
        KindCombo(v, n) = [dice |-> Kind(v, n), value |-> KindValue(v, n)]
  BY <1>1 DEF KindCombo
<1>5. ASSUME NEW combo
      PROVE  combo \in Combination <=>
               \/ combo \in {KindCombo(1, 1), KindCombo(5, 1), StraightCombo(1, 5, 500),
                             StraightCombo(2, 6, 750), StraightCombo(1, 6, 1500)}
               \/ \E v \in Face, n \in 3..6 : combo = KindCombo(v, n)
  BY <1>2, <1>3, <1>4 DEF Combination, StraightCombo
<1>6. ASSUME NEW v \in Face, NEW n \in 1..6, CanBeKind(v, n)
      PROVE  KindCombo(v, n) \in Combination
  BY <1>5, <1>6 DEF CanBeKind
<1>7. ASSUME NEW combo \in Combination
      PROVE  \/ \E v \in Face, n \in 1..6 : CanBeKind(v, n) /\ combo = KindCombo(v, n)
             \/ combo \in {StraightCombo(1, 5, 500), StraightCombo(2, 6, 750), StraightCombo(1, 6, 1500)}
  <2>1. CanBeKind(1, 1) /\ CanBeKind(5, 1) /\ 1 \in Face /\ 5 \in Face
    BY DEF CanBeKind, Face
  <2>2. \A v \in Face, n \in 3..6 : CanBeKind(v, n) /\ n \in 1..6
    BY DEF CanBeKind
  <2> QED
    BY <1>5, <2>1, <2>2
<1>8. /\ StraightCombo(1, 5, 500) \in Combination
      /\ StraightCombo(2, 6, 750) \in Combination
      /\ StraightCombo(1, 6, 1500) \in Combination
  BY <1>5
<1> QED
  BY <1>6, <1>7, <1>8

\* A combination has a die at least, no more than six, and earns something.
LEMMA CombinationType ==
  ASSUME NEW combo \in Combination
  PROVE  combo.dice \in Roll /\ DiceTotal(combo.dice) > 0 /\ combo.value \in Nat
<1>1. ASSUME NEW v \in Face, NEW n \in 1..6, CanBeKind(v, n), combo = KindCombo(v, n)
      PROVE  combo.dice \in Roll /\ DiceTotal(combo.dice) > 0 /\ combo.value \in Nat
  <2>1. combo.dice = Kind(v, n) /\ combo.value = FaceScore(v, n)
    BY <1>1 DEF KindCombo
  <2>2. DiceTotal(Kind(v, n)) = n
    BY KindDice DEF DiceTotal, Face
  <2> QED
    BY <2>1, <2>2, KindDice, FaceScoreType
<1>2. ASSUME NEW from \in 1..2, NEW to \in 5..6, NEW value \in Nat,
             combo = StraightCombo(from, to, value)
      PROVE  combo.dice \in Roll /\ DiceTotal(combo.dice) > 0 /\ combo.value \in Nat
  <2>1. combo.dice = Straight(from, to) /\ combo.value = value
    BY <1>2 DEF StraightCombo
  <2>2. from \in Face /\ to \in Face /\ from < to
    BY DEF Face
  <2>3. DiceTotal(Straight(from, to)) > 0
    BY <2>2, StraightDice DEF DiceTotal, Face
  <2> QED
    BY <2>1, <2>2, <2>3, StraightDice
<1> QED
  BY <1>1, <1>2, CombinationCases

\* What is left after a part is cut off.
LEMMA MinusRoll ==
  ASSUME NEW c \in Roll, NEW d \in Roll, Within(d, c)
  PROVE  /\ Minus(c, d) \in Roll
         /\ \A v \in Face : Minus(c, d)[v] = c[v] - d[v]
         /\ DiceTotal(Minus(c, d)) = DiceTotal(c) - DiceTotal(d)
<1>1. \A v \in Face : c[v] \in 0..6 /\ d[v] \in 0..6 /\ d[v] <= c[v]
  BY DEF Roll, Within
<1>2. \A v \in Face : Minus(c, d)[v] = c[v] - d[v]
  BY DEF Minus
<1>3. ASSUME NEW v \in Face
      PROVE  c[v] - d[v] \in 0..6
  <2>1. c[v] \in Int /\ d[v] \in Int /\ 0 <= d[v] /\ d[v] <= c[v] /\ c[v] <= 6
    BY <1>1
  <2> QED
    BY <2>1
<1>4. Minus(c, d) \in [Face -> 0..6]
  BY <1>3 DEF Minus
<1>5. DiceTotal(Minus(c, d)) = DiceTotal(c) - DiceTotal(d)
  <2>1. /\ c[1] \in Int /\ c[2] \in Int /\ c[3] \in Int /\ c[4] \in Int /\ c[5] \in Int /\ c[6] \in Int
        /\ d[1] \in Int /\ d[2] \in Int /\ d[3] \in Int /\ d[4] \in Int /\ d[5] \in Int /\ d[6] \in Int
    BY RollParts
  <2>2. DiceTotal(Minus(c, d)) = (c[1] - d[1]) + (c[2] - d[2]) + (c[3] - d[3])
                                   + (c[4] - d[4]) + (c[5] - d[5]) + (c[6] - d[6])
    BY <1>2 DEF DiceTotal, Face
  <2> QED
    BY <2>1, <2>2 DEF DiceTotal
<1>6. DiceTotal(c) - DiceTotal(d) <= 6
  BY RollTotal
<1> QED
  BY <1>2, <1>4, <1>5, <1>6 DEF Roll
-----------------------------------------------------------------------------
\* One unfolding of CutValues, with f in the place of the recursive calls.
CutOnce(f, c) ==
  IF c = NoDice THEN {0}
  ELSE UNION {{combo.value + x : x \in f[Minus(c, combo.dice)]} : combo \in Held(c)}

Tier(f) == [c \in Roll |-> CutOnce(f, c)]

\* What is left of a roll when a combination has been cut off is a roll with
\* fewer dice.
LEMMA CutLeavesFewer ==
  ASSUME NEW c \in Roll, NEW combo \in Held(c)
  PROVE  /\ Minus(c, combo.dice) \in Roll
         /\ DiceTotal(Minus(c, combo.dice)) < DiceTotal(c)
<1>1. combo \in Combination /\ Within(combo.dice, c)
  BY DEF Held
<1>2. combo.dice \in Roll /\ DiceTotal(combo.dice) > 0
  BY <1>1, CombinationType
<1>3. DiceTotal(c) \in Int /\ DiceTotal(combo.dice) \in Int
  BY <1>2, RollTotal
<1> QED
  BY <1>1, <1>2, <1>3, MinusRoll

LEMMA TierAgrees ==
  ASSUME NEW f, NEW g, NEW n \in Nat,
         \A c \in Roll : DiceTotal(c) < n => f[c] = g[c]
  PROVE  \A c \in Roll : DiceTotal(c) < n + 1 => Tier(f)[c] = Tier(g)[c]
<1> SUFFICES ASSUME NEW c \in Roll, DiceTotal(c) < n + 1
             PROVE  Tier(f)[c] = Tier(g)[c]
  OBVIOUS
<1>1. DiceTotal(c) \in Int
  BY RollTotal
<1>2. ASSUME NEW combo \in Held(c)
      PROVE  f[Minus(c, combo.dice)] = g[Minus(c, combo.dice)]
  <2>1. Minus(c, combo.dice) \in Roll /\ DiceTotal(Minus(c, combo.dice)) < DiceTotal(c)
    BY CutLeavesFewer
  <2>2. DiceTotal(Minus(c, combo.dice)) \in Int
    BY <2>1, RollTotal
  <2> QED
    BY <1>1, <2>1, <2>2
<1>3. ASSUME NEW y
      PROVE  y \in UNION {{combo.value + x : x \in f[Minus(c, combo.dice)]} : combo \in Held(c)}
               <=> y \in UNION {{combo.value + x : x \in g[Minus(c, combo.dice)]} : combo \in Held(c)}
  BY <1>2
<1>4. CutOnce(f, c) = CutOnce(g, c)
  BY <1>3 DEF CutOnce
<1> QED
  BY <1>4 DEF Tier

\* The recursion of CutValues is well founded: seven unfoldings of it, from
\* any function, are a solution.
LEMMA CutValuesDef ==
  CutValues = [c \in Roll |-> CutOnce(CutValues, c)]
<1> DEFINE f0 == [c \in Roll |-> {}]
           f1 == Tier(f0)
           f2 == Tier(f1)
           f3 == Tier(f2)
           f4 == Tier(f3)
           f5 == Tier(f4)
           f6 == Tier(f5)
           f7 == Tier(f6)
<1> HIDE DEF f0
<1>0. \A c \in Roll : DiceTotal(c) < 0 => f0[c] = f1[c]
  BY RollTotal
<1>1. \A c \in Roll : DiceTotal(c) < 1 => f1[c] = f2[c]
  BY <1>0, TierAgrees
<1> HIDE DEF f1
<1>2. \A c \in Roll : DiceTotal(c) < 2 => f2[c] = f3[c]
  BY <1>1, TierAgrees
<1> HIDE DEF f2
<1>3. \A c \in Roll : DiceTotal(c) < 3 => f3[c] = f4[c]
  BY <1>2, TierAgrees
<1> HIDE DEF f3
<1>4. \A c \in Roll : DiceTotal(c) < 4 => f4[c] = f5[c]
  BY <1>3, TierAgrees
<1> HIDE DEF f4
<1>5. \A c \in Roll : DiceTotal(c) < 5 => f5[c] = f6[c]
  BY <1>4, TierAgrees
<1> HIDE DEF f5
<1>6. \A c \in Roll : DiceTotal(c) < 6 => f6[c] = f7[c]
  BY <1>5, TierAgrees
<1>7. \A c \in Roll : DiceTotal(c) < 7 => f7[c] = Tier(f7)[c]
  <2> HIDE DEF f6
  <2> QED
    BY <1>6, TierAgrees
<1>8. \A c \in Roll : f7[c] = Tier(f7)[c]
  <2>1. \A c \in Roll : DiceTotal(c) < 7
    BY RollTotal
  <2> QED
    BY <1>7, <2>1
<1>9. f7 = [c \in Roll |-> f7[c]]
  BY DEF Tier
<1> HIDE DEF f7
<1>10. f7 = [c \in Roll |-> CutOnce(f7, c)]
  BY <1>8, <1>9 DEF Tier
<1> DEFINE Solves(g) == g = [c \in Roll |->
             IF c = NoDice THEN {0}
             ELSE UNION {{combo.value + x : x \in g[Minus(c, combo.dice)]} : combo \in Held(c)}]
<1>11. Solves(f7)
  BY <1>10 DEF CutOnce
<1>12. CutValues = CHOOSE g : Solves(g)
  BY DEF CutValues
<1> HIDE DEF Solves
<1>13. Solves(CutValues)
  BY <1>11, <1>12
<1> QED
  BY <1>13 DEF Solves, CutOnce

\* The cuts of a roll: of no dice there is one, worth nothing; any other
\* begins with a combination.
LEMMA Cuts ==
  ASSUME NEW c \in Roll
  PROVE  /\ c = NoDice => CutValues[c] = {0}
         /\ \A combo \in Held(c) : \A x \in CutValues[Minus(c, combo.dice)] :
              combo.value + x \in CutValues[c]
         /\ c # NoDice => \A y \in CutValues[c] :
              \E combo \in Held(c) : \E x \in CutValues[Minus(c, combo.dice)] : y = combo.value + x
<1>1. CutValues[c] = CutOnce(CutValues, c)
  BY CutValuesDef
<1>2. ASSUME c = NoDice
      PROVE  Held(c) = {}
  <2>1. DiceTotal(c) = 0
    BY <1>2, NoDiceRoll DEF DiceTotal, Face
  <2>2. \A d \in Roll : DiceTotal(d) \in Int /\ DiceTotal(d) >= 0
    BY RollTotal
  <2> QED
    BY <2>1, <2>2, CutLeavesFewer
<1>3. CASE c = NoDice
  BY <1>1, <1>2, <1>3 DEF CutOnce
<1>4. CASE c # NoDice
  BY <1>1, <1>4 DEF CutOnce
<1> QED
  BY <1>3, <1>4
-----------------------------------------------------------------------------
(***************************************************************************)
(* scoreCounts of a roll, by its six numbers.                              *)
(***************************************************************************)
KindsPoints(c) ==
  FaceScore(1, c[1]) + FaceScore(2, c[2]) + FaceScore(3, c[3])
    + FaceScore(4, c[4]) + FaceScore(5, c[5]) + FaceScore(6, c[6])

NoneLeftOver(c) == \A v \in {2, 3, 4, 6} : c[v] = 0 \/ c[v] >= 3

LEMMA StraightParts ==
  ASSUME NEW c \in Roll
  PROVE  /\ hasFullStraight(c) <=>
              c[1] = 1 /\ c[2] = 1 /\ c[3] = 1 /\ c[4] = 1 /\ c[5] = 1 /\ c[6] = 1
         /\ hasUpperStraight(c) <=>
              c[2] > 0 /\ c[3] > 0 /\ c[4] > 0 /\ c[5] > 0 /\ c[6] > 0
         /\ hasLowerStraight(c) <=>
              c[1] > 0 /\ c[2] > 0 /\ c[3] > 0 /\ c[4] > 0 /\ c[5] > 0
<1>1. hasFullStraight(c) <=>
        c[1] = 1 /\ c[2] = 1 /\ c[3] = 1 /\ c[4] = 1 /\ c[5] = 1 /\ c[6] = 1
  BY DEF hasFullStraight, Face
<1>2. hasUpperStraight(c) <=>
        c[2] > 0 /\ c[3] > 0 /\ c[4] > 0 /\ c[5] > 0 /\ c[6] > 0
  BY DEF hasUpperStraight
<1>3. hasLowerStraight(c) <=>
        c[1] > 0 /\ c[2] > 0 /\ c[3] > 0 /\ c[4] > 0 /\ c[5] > 0
  BY DEF hasLowerStraight
<1> QED
  BY <1>1, <1>2, <1>3

LEMMA FullScore ==
  ASSUME NEW c \in Roll, hasFullStraight(c)
  PROVE  scoreCounts(c).score = 1500 /\ ~scoreCounts(c).extra
BY DEF scoreCounts, Result, ScoreFullStraight

\* A straight of five leaves one die at most, which adds its points if it is
\* another 5 of the straight.
LEMMA UpperScore ==
  ASSUME NEW c \in Roll, ~hasFullStraight(c), hasUpperStraight(c)
  PROVE  /\ c[1] = 0
         /\ c[5] = 2 => /\ c[2] = 1 /\ c[3] = 1 /\ c[4] = 1 /\ c[6] = 1
                        /\ scoreCounts(c).score = 800 /\ ~scoreCounts(c).extra
         /\ c[5] # 2 => /\ scoreCounts(c).score = 750
                        /\ scoreCounts(c).extra <=> DiceTotal(c) > 5
<1>1. c[1] = 0
  BY StraightParts, RollParts
<1>2. scoreCounts(c) = UpperStraightResult(c)
  BY DEF scoreCounts
<1>3. ASSUME c[5] = 2
      PROVE  /\ c[2] = 1 /\ c[3] = 1 /\ c[4] = 1 /\ c[6] = 1
             /\ scoreCounts(c).score = 800 /\ ~scoreCounts(c).extra
  <2>1. c[2] = 1 /\ c[3] = 1 /\ c[4] = 1 /\ c[6] = 1
    BY <1>3, StraightParts, RollParts
  <2>2. scoreCounts(c) = [score |-> 800, extra |-> FALSE]
    BY <1>2, <1>3 DEF UpperStraightResult, Result, ScoreUpperStraight
  <2> QED
    BY <2>1, <2>2
<1>4. ASSUME c[5] # 2
      PROVE  scoreCounts(c).score = 750 /\ (scoreCounts(c).extra <=> DiceTotal(c) > 5)
  <2>1. scoreCounts(c) = Result(750, DiceTotal(c) > 5)
    BY <1>2, <1>4 DEF UpperStraightResult, ScoreUpperStraight
  <2>2. CASE DiceTotal(c) > 5
    <3>1. (DiceTotal(c) > 5) = TRUE
      BY <2>2
    <3>2. scoreCounts(c) = [score |-> 750, extra |-> TRUE]
      BY <2>1, <3>1 DEF Result
    <3> QED
      BY <2>2, <3>2
  <2>3. CASE ~(DiceTotal(c) > 5)
    <3>1. (DiceTotal(c) > 5) = FALSE
      BY <2>3
    <3>2. scoreCounts(c) = [score |-> 750, extra |-> FALSE]
      BY <2>1, <3>1 DEF Result
    <3> QED
      BY <2>3, <3>2
  <2> QED
    BY <2>2, <2>3
<1> QED
  BY <1>1, <1>3, <1>4

LEMMA LowerScore ==
  ASSUME NEW c \in Roll, ~hasFullStraight(c), ~hasUpperStraight(c), hasLowerStraight(c)
  PROVE  /\ c[6] = 0
         /\ c[1] = 2 => /\ c[2] = 1 /\ c[3] = 1 /\ c[4] = 1 /\ c[5] = 1
                        /\ scoreCounts(c).score = 600 /\ ~scoreCounts(c).extra
         /\ c[5] = 2 => /\ c[1] = 1 /\ c[2] = 1 /\ c[3] = 1 /\ c[4] = 1
                        /\ scoreCounts(c).score = 550 /\ ~scoreCounts(c).extra
         /\ c[1] # 2 /\ c[5] # 2 => /\ scoreCounts(c).score = 500
                                    /\ scoreCounts(c).extra <=> DiceTotal(c) > 5
<1>1. c[6] = 0
  BY StraightParts, RollParts
<1>2. scoreCounts(c) = LowerStraightResult(c)
  BY DEF scoreCounts
<1>3. ASSUME c[1] = 2
      PROVE  /\ c[2] = 1 /\ c[3] = 1 /\ c[4] = 1 /\ c[5] = 1
             /\ scoreCounts(c).score = 600 /\ ~scoreCounts(c).extra
  <2>1. c[2] = 1 /\ c[3] = 1 /\ c[4] = 1 /\ c[5] = 1
    BY <1>3, StraightParts, RollParts
  <2>2. scoreCounts(c) = [score |-> 600, extra |-> FALSE]
    BY <1>2, <1>3 DEF LowerStraightResult, Result, ScoreLowerStraight
  <2> QED
    BY <2>1, <2>2
<1>4. ASSUME c[5] = 2
      PROVE  /\ c[1] = 1 /\ c[2] = 1 /\ c[3] = 1 /\ c[4] = 1
             /\ scoreCounts(c).score = 550 /\ ~scoreCounts(c).extra
  <2>1. c[1] = 1 /\ c[2] = 1 /\ c[3] = 1 /\ c[4] = 1
    BY <1>4, StraightParts, RollParts
  <2>2. scoreCounts(c) = [score |-> 550, extra |-> FALSE]
    BY <1>2, <1>4, <2>1 DEF LowerStraightResult, Result, ScoreLowerStraight
  <2> QED
    BY <2>1, <2>2
<1>5. ASSUME c[1] # 2, c[5] # 2
      PROVE  scoreCounts(c).score = 500 /\ (scoreCounts(c).extra <=> DiceTotal(c) > 5)
  <2>1. scoreCounts(c) = Result(500, DiceTotal(c) > 5)
    BY <1>2, <1>5 DEF LowerStraightResult, ScoreLowerStraight
  <2>2. CASE DiceTotal(c) > 5
    <3>1. (DiceTotal(c) > 5) = TRUE
      BY <2>2
    <3>2. scoreCounts(c) = [score |-> 500, extra |-> TRUE]
      BY <2>1, <3>1 DEF Result
    <3> QED
      BY <2>2, <3>2
  <2>3. CASE ~(DiceTotal(c) > 5)
    <3>1. (DiceTotal(c) > 5) = FALSE
      BY <2>3
    <3>2. scoreCounts(c) = [score |-> 500, extra |-> FALSE]
      BY <2>1, <3>1 DEF Result
    <3> QED
      BY <2>3, <3>2
  <2> QED
    BY <2>2, <2>3
<1> QED
  BY <1>1, <1>3, <1>4, <1>5

LEMMA PlainScore ==
  ASSUME NEW c \in Roll, ~hasFullStraight(c), ~hasUpperStraight(c), ~hasLowerStraight(c)
  PROVE  /\ scoreCounts(c).score = KindsPoints(c)
         /\ ~scoreCounts(c).extra <=> NoneLeftOver(c)
<1>1. scoreCounts(c) = [score |-> KindsPoints(c), extra |-> \E v \in Face : FaceExtra(v, c[v])]
  BY DEF scoreCounts, KindsResult, KindsPoints, Result
<1>2. \A v \in Face : c[v] \in 0..6
  BY DEF Roll
<1>3. (\E v \in Face : FaceExtra(v, c[v])) <=> ~NoneLeftOver(c)
  BY <1>2 DEF FaceExtra, NoneLeftOver, Face
<1> QED
  BY <1>1, <1>3
-----------------------------------------------------------------------------
(***************************************************************************)
(* No cut is worth more than scoreCounts says: a combination that is added *)
(* to a selection without extra dice leaves none, and adds its value.      *)
(***************************************************************************)

\* n more dice of a face earn at least what they earn on their own.
LEMMA FaceScoreGrows ==
  ASSUME NEW v \in Face, NEW n \in 1..6, CanBeKind(v, n), NEW a \in 0..6, a + n <= 6
  PROVE  FaceScore(v, a + n) >= FaceScore(v, a) + FaceScore(v, n)
<1>1. v = 1 \/ v = 5 \/ v \in {2, 3, 4, 6}
  BY DEF Face
<1>2. a = 0 \/ a = 1 \/ a = 2 \/ a = 3 \/ a = 4 \/ a = 5
  OBVIOUS
<1>3. n = 1 \/ n = 3 \/ n = 4 \/ n = 5 \/ n = 6
  BY DEF CanBeKind
<1>4. CASE v = 1
  BY <1>2, <1>3, <1>4, FaceScoreTable
<1>5. CASE v = 5
  BY <1>2, <1>3, <1>5, FaceScoreTable
<1>6. CASE v \in {2, 3, 4, 6}
  <2>1. n # 1
    BY <1>6 DEF CanBeKind
  <2>2. a \in {0, 1, 2, 3}
    BY <1>2, <1>3, <2>1
  <2> QED
    BY <1>3, <1>6, <2>1, <2>2, FaceScoreTable
<1> QED
  BY <1>1, <1>4, <1>5, <1>6

\* Adding n of a kind to the rest of a roll.
LEMMA AddKind ==
  ASSUME NEW c \in Roll, NEW v \in Face, NEW n \in 1..6, CanBeKind(v, n),
         NEW m \in Roll, \A w \in Face : m[w] = IF w = v THEN c[w] - n ELSE c[w],
         ~scoreCounts(m).extra
  PROVE  /\ ~scoreCounts(c).extra
         /\ scoreCounts(c).score >= scoreCounts(m).score + FaceScore(v, n)
<1>1. /\ c[1] \in 0..6 /\ c[2] \in 0..6 /\ c[3] \in 0..6
      /\ c[4] \in 0..6 /\ c[5] \in 0..6 /\ c[6] \in 0..6
      /\ c[1] + c[2] + c[3] + c[4] + c[5] + c[6] <= 6
  BY RollParts
<1>2. /\ m[1] \in 0..6 /\ m[2] \in 0..6 /\ m[3] \in 0..6
      /\ m[4] \in 0..6 /\ m[5] \in 0..6 /\ m[6] \in 0..6
  BY RollParts
<1>3. /\ m[1] = IF 1 = v THEN c[1] - n ELSE c[1]
      /\ m[2] = IF 2 = v THEN c[2] - n ELSE c[2]
      /\ m[3] = IF 3 = v THEN c[3] - n ELSE c[3]
      /\ m[4] = IF 4 = v THEN c[4] - n ELSE c[4]
      /\ m[5] = IF 5 = v THEN c[5] - n ELSE c[5]
      /\ m[6] = IF 6 = v THEN c[6] - n ELSE c[6]
  BY DEF Face
<1>4. (n = 1 /\ v \in {1, 5}) \/ n >= 3
  BY DEF CanBeKind
<1>5. v = 1 \/ v = 2 \/ v = 3 \/ v = 4 \/ v = 5 \/ v = 6
  BY DEF Face
<1>6. FaceScore(1, 1) = 100 /\ FaceScore(5, 1) = 50
  BY FaceScoreTable
\* A straight has no room for three of a kind; without its 5 or its 1 its
\* other dice are extra.
<1>7. ASSUME c[2] > 0, c[3] > 0, c[4] > 0, c[5] > 0, c[1] > 0 \/ c[6] > 0
      PROVE  /\ n = 1 /\ v \in {1, 5}
             /\ m[2] \in 1..2 /\ m[3] \in 1..2 /\ m[4] \in 1..2
  <2>1. c[1] <= 2 /\ c[2] <= 2 /\ c[3] <= 2 /\ c[4] <= 2 /\ c[5] <= 2 /\ c[6] <= 2
    BY <1>1, <1>7
  <2>2. c[v] <= 2 /\ c[v] - n >= 0
    <3>1. c[v] <= 2
      BY <1>5, <2>1
    <3>2. m[v] = c[v] - n /\ m[v] \in 0..6
      BY <1>2, <1>5
    <3> QED
      BY <3>1, <3>2
  <2>3. c[v] \in Int
    BY <1>1, <1>5
  <2>4. n = 1 /\ v \in {1, 5}
    BY <1>4, <2>2, <2>3
  <2>5. m[2] = c[2] /\ m[3] = c[3] /\ m[4] = c[4]
    BY <1>3, <2>4
  <2> QED
    BY <1>1, <1>7, <2>1, <2>4, <2>5
<1>8. ASSUME m[2] \in 1..2
      PROVE  hasFullStraight(m) \/ hasUpperStraight(m) \/ hasLowerStraight(m)
  <2>1. ~NoneLeftOver(m)
    BY <1>2, <1>8 DEF NoneLeftOver
  <2> QED
    BY <2>1, PlainScore
<1>9. CASE hasFullStraight(c)
  <2>1. c[1] = 1 /\ c[2] = 1 /\ c[3] = 1 /\ c[4] = 1 /\ c[5] = 1 /\ c[6] = 1
    BY <1>9, StraightParts
  <2>2. n = 1 /\ v \in {1, 5} /\ (hasFullStraight(m) \/ hasUpperStraight(m) \/ hasLowerStraight(m))
    BY <1>7, <1>8, <2>1
  <2>3. v = 1
    BY <1>3, <2>1, <2>2, StraightParts
  <2>4. m[1] = 0 /\ m[2] = 1 /\ m[3] = 1 /\ m[4] = 1 /\ m[5] = 1 /\ m[6] = 1
    BY <1>3, <2>1, <2>2, <2>3
  <2>5. ~hasFullStraight(m) /\ hasUpperStraight(m)
    BY <2>4, StraightParts
  <2>6. scoreCounts(m).score = 750
    BY <2>4, <2>5, UpperScore
  <2> QED
    BY <1>6, <1>9, <2>2, <2>3, <2>6, FullScore
<1>10. CASE ~hasFullStraight(c) /\ hasUpperStraight(c)
  <2>1. c[1] = 0 /\ c[2] > 0 /\ c[3] > 0 /\ c[4] > 0 /\ c[5] > 0 /\ c[6] > 0
    BY <1>10, StraightParts, UpperScore
  <2>2. n = 1 /\ v \in {1, 5} /\ (hasFullStraight(m) \/ hasUpperStraight(m) \/ hasLowerStraight(m))
    BY <1>7, <1>8, <2>1
  <2>3. v = 5 /\ m[1] = 0 /\ m[5] = c[5] - 1
    BY <1>2, <1>3, <2>1, <2>2
  <2>4. ~hasFullStraight(m) /\ ~hasLowerStraight(m)
    BY <2>3, StraightParts
  <2>5. m[5] > 0
    BY <2>2, <2>4, StraightParts
  <2>6. c[5] = 2
    BY <1>1, <2>1, <2>3, <2>5
  <2>7. scoreCounts(m).score = 750
    BY <2>2, <2>3, <2>4, <2>6, UpperScore
  <2> QED
    BY <1>6, <1>10, <2>2, <2>3, <2>6, <2>7, UpperScore
<1>11. CASE ~hasFullStraight(c) /\ ~hasUpperStraight(c) /\ hasLowerStraight(c)
  <2>1. c[6] = 0 /\ c[1] > 0 /\ c[2] > 0 /\ c[3] > 0 /\ c[4] > 0 /\ c[5] > 0
    BY <1>11, StraightParts, LowerScore
  <2>2. n = 1 /\ v \in {1, 5} /\ (hasFullStraight(m) \/ hasUpperStraight(m) \/ hasLowerStraight(m))
    BY <1>7, <1>8, <2>1
  <2>3. m[6] = 0
    BY <1>3, <2>1, <2>2
  <2>4. ~hasFullStraight(m) /\ ~hasUpperStraight(m) /\ hasLowerStraight(m)
    BY <2>2, <2>3, StraightParts
  <2>5. m[1] > 0 /\ m[5] > 0
    BY <2>4, StraightParts
  <2>6. CASE v = 1
    <3>1. m[1] = c[1] - 1 /\ m[5] = c[5]
      BY <1>3, <2>2, <2>6
    <3>2. c[1] = 2 /\ c[5] = 1
      BY <1>1, <2>1, <2>5, <3>1
    <3>3. scoreCounts(m).score = 500
      BY <2>4, <3>1, <3>2, LowerScore
    <3> QED
      BY <1>6, <1>11, <2>2, <2>6, <3>2, <3>3, LowerScore
  <2>7. CASE v = 5
    <3>1. m[5] = c[5] - 1 /\ m[1] = c[1]
      BY <1>3, <2>2, <2>7
    <3>2. c[5] = 2 /\ c[1] = 1
      BY <1>1, <2>1, <2>5, <3>1
    <3>3. scoreCounts(m).score = 500
      BY <2>4, <3>1, <3>2, LowerScore
    <3> QED
      BY <1>6, <1>11, <2>2, <2>7, <3>2, <3>3, LowerScore
  <2> QED
    BY <2>2, <2>6, <2>7
<1>12. CASE ~hasFullStraight(c) /\ ~hasUpperStraight(c) /\ ~hasLowerStraight(c)
  <2>1. \A w \in Face : m[w] > 0 => c[w] > 0
    BY <1>1, <1>2, <1>3 DEF Face
  <2>2. ~hasUpperStraight(m) /\ ~hasLowerStraight(m)
    BY <1>12, <2>1, StraightParts DEF Face
  <2>3. ~hasFullStraight(m)
    BY <2>2, StraightParts
  <2>4. scoreCounts(m).score = KindsPoints(m) /\ NoneLeftOver(m)
    BY <2>2, <2>3, PlainScore
  <2>5. scoreCounts(c).score = KindsPoints(c) /\ (~scoreCounts(c).extra <=> NoneLeftOver(c))
    BY <1>12, PlainScore
  <2>6. NoneLeftOver(c)
    <3> SUFFICES ASSUME NEW w \in {2, 3, 4, 6}
                 PROVE  c[w] = 0 \/ c[w] >= 3
      BY DEF NoneLeftOver
    <3>1. w \in Face /\ c[w] \in 0..6 /\ m[w] \in 0..6
      BY DEF Roll, Face
    <3>4. m[w] = 0 \/ m[w] >= 3
      BY <2>4 DEF NoneLeftOver
    <3>2. m[w] = IF w = v THEN c[w] - n ELSE c[w]
      BY <3>1
    <3>3. w = v => n >= 3
      BY <1>4
    <3> QED
      BY <3>1, <3>2, <3>3, <3>4
  <2>7. \A w \in Face : FaceScore(w, c[w]) \in Nat /\ FaceScore(w, m[w]) \in Nat
    <3>1. \A w \in Face : c[w] \in 0..6 /\ m[w] \in 0..6
      BY DEF Roll
    <3> QED
      BY <3>1, FaceScoreType
  <2>8. \A w \in Face : w # v => FaceScore(w, c[w]) = FaceScore(w, m[w])
    OBVIOUS
  <2>9. FaceScore(v, c[v]) >= FaceScore(v, m[v]) + FaceScore(v, n)
    <3>1. c[v] \in 0..6 /\ m[v] \in 0..6 /\ m[v] = c[v] - n
      BY DEF Roll
    <3>2. m[v] + n <= 6 /\ m[v] + n = c[v]
      BY <3>1
    <3> QED
      BY <3>1, <3>2, FaceScoreGrows
  <2>10. FaceScore(v, n) \in Nat
    BY FaceScoreType
  <2>11. KindsPoints(c) >= KindsPoints(m) + FaceScore(v, n)
    <3>1. /\ FaceScore(1, c[1]) \in Nat /\ FaceScore(2, c[2]) \in Nat /\ FaceScore(3, c[3]) \in Nat
          /\ FaceScore(4, c[4]) \in Nat /\ FaceScore(5, c[5]) \in Nat /\ FaceScore(6, c[6]) \in Nat
          /\ FaceScore(1, m[1]) \in Nat /\ FaceScore(2, m[2]) \in Nat /\ FaceScore(3, m[3]) \in Nat
          /\ FaceScore(4, m[4]) \in Nat /\ FaceScore(5, m[5]) \in Nat /\ FaceScore(6, m[6]) \in Nat
      BY <2>7 DEF Face
    <3>2. /\ 1 # v => FaceScore(1, c[1]) = FaceScore(1, m[1])
          /\ 2 # v => FaceScore(2, c[2]) = FaceScore(2, m[2])
          /\ 3 # v => FaceScore(3, c[3]) = FaceScore(3, m[3])
          /\ 4 # v => FaceScore(4, c[4]) = FaceScore(4, m[4])
          /\ 5 # v => FaceScore(5, c[5]) = FaceScore(5, m[5])
          /\ 6 # v => FaceScore(6, c[6]) = FaceScore(6, m[6])
      BY <2>8 DEF Face
    <3> QED
      BY <1>5, <2>9, <2>10, <3>1, <3>2 DEF KindsPoints
  <2> QED
    BY <2>4, <2>5, <2>6, <2>11
<1> QED
  BY <1>9, <1>10, <1>11, <1>12

\* A die that a straight leaves over is a 1 or a 5, or it is extra.
LEMMA LastDie ==
  ASSUME NEW m \in Roll, DiceTotal(m) <= 1, ~scoreCounts(m).extra
  PROVE  /\ m[2] = 0 /\ m[3] = 0 /\ m[4] = 0 /\ m[6] = 0
         /\ \/ m[1] = 0 /\ m[5] = 0 /\ scoreCounts(m).score = 0
            \/ m[1] = 1 /\ m[5] = 0 /\ scoreCounts(m).score = 100
            \/ m[1] = 0 /\ m[5] = 1 /\ scoreCounts(m).score = 50
<1>1. /\ m[1] \in 0..6 /\ m[2] \in 0..6 /\ m[3] \in 0..6
      /\ m[4] \in 0..6 /\ m[5] \in 0..6 /\ m[6] \in 0..6
      /\ m[1] + m[2] + m[3] + m[4] + m[5] + m[6] <= 1
  BY RollParts DEF DiceTotal
<1>2. ~hasFullStraight(m) /\ ~hasUpperStraight(m) /\ ~hasLowerStraight(m)
  BY <1>1, StraightParts
<1>3. scoreCounts(m).score = KindsPoints(m) /\ NoneLeftOver(m)
  BY <1>2, PlainScore
<1>4. m[2] = 0 /\ m[3] = 0 /\ m[4] = 0 /\ m[6] = 0
  BY <1>1, <1>3 DEF NoneLeftOver
<1>5. /\ FaceScore(2, 0) = 0 /\ FaceScore(3, 0) = 0 /\ FaceScore(4, 0) = 0 /\ FaceScore(6, 0) = 0
      /\ FaceScore(1, 0) = 0 /\ FaceScore(1, 1) = 100
      /\ FaceScore(5, 0) = 0 /\ FaceScore(5, 1) = 50
  BY FaceScoreTable
<1>6. KindsPoints(m) = FaceScore(1, m[1]) + FaceScore(5, m[5])
  <2>1. FaceScore(1, m[1]) \in Nat /\ FaceScore(5, m[5]) \in Nat
    BY <1>1, FaceScoreType DEF Face
  <2> QED
    BY <1>4, <1>5, <2>1 DEF KindsPoints
<1>7. (m[1] = 0 /\ m[5] = 0) \/ (m[1] = 1 /\ m[5] = 0) \/ (m[1] = 0 /\ m[5] = 1)
  BY <1>1
<1> QED
  BY <1>3, <1>4, <1>5, <1>6, <1>7

\* Adding a straight to the rest of a roll.
LEMMA AddStraight ==
  ASSUME NEW c \in Roll, NEW from \in 1..2, NEW to \in 5..6, ~(from = 2 /\ to = 5),
         NEW m \in Roll,
         \A w \in Face : m[w] = IF w \in from..to THEN c[w] - 1 ELSE c[w],
         ~scoreCounts(m).extra
  PROVE  /\ ~scoreCounts(c).extra
         /\ from = 1 /\ to = 6 => scoreCounts(c).score >= scoreCounts(m).score + 1500
         /\ from = 2 /\ to = 6 => scoreCounts(c).score >= scoreCounts(m).score + 750
         /\ from = 1 /\ to = 5 => scoreCounts(c).score >= scoreCounts(m).score + 500
<1>1. /\ c[1] \in 0..6 /\ c[2] \in 0..6 /\ c[3] \in 0..6
      /\ c[4] \in 0..6 /\ c[5] \in 0..6 /\ c[6] \in 0..6
      /\ c[1] + c[2] + c[3] + c[4] + c[5] + c[6] <= 6
      /\ DiceTotal(c) = c[1] + c[2] + c[3] + c[4] + c[5] + c[6]
  BY RollParts DEF DiceTotal
<1>2. /\ m[1] \in 0..6 /\ m[2] \in 0..6 /\ m[3] \in 0..6
      /\ m[4] \in 0..6 /\ m[5] \in 0..6 /\ m[6] \in 0..6
      /\ DiceTotal(m) = m[1] + m[2] + m[3] + m[4] + m[5] + m[6]
  BY RollParts DEF DiceTotal
<1>3. /\ m[2] = c[2] - 1 /\ m[3] = c[3] - 1 /\ m[4] = c[4] - 1 /\ m[5] = c[5] - 1
      /\ m[1] = IF from = 1 THEN c[1] - 1 ELSE c[1]
      /\ m[6] = IF to = 6 THEN c[6] - 1 ELSE c[6]
  BY DEF Face
<1>4. DiceTotal(m) <= 1
  BY <1>1, <1>2, <1>3
<1>5. /\ m[2] = 0 /\ m[3] = 0 /\ m[4] = 0 /\ m[6] = 0
      /\ \/ m[1] = 0 /\ m[5] = 0 /\ scoreCounts(m).score = 0
         \/ m[1] = 1 /\ m[5] = 0 /\ scoreCounts(m).score = 100
         \/ m[1] = 0 /\ m[5] = 1 /\ scoreCounts(m).score = 50
  BY <1>4, LastDie
<1>6. c[2] = 1 /\ c[3] = 1 /\ c[4] = 1
  BY <1>1, <1>3, <1>5
<1>7. CASE from = 1 /\ to = 6
  <2>1. m[1] = 0 /\ m[5] = 0
    BY <1>1, <1>3, <1>5, <1>7
  <2>2. c[1] = 1 /\ c[5] = 1 /\ c[6] = 1
    BY <1>1, <1>3, <1>5, <1>7, <2>1
  <2>3. hasFullStraight(c)
    BY <1>6, <2>2, StraightParts
  <2> QED
    BY <1>5, <1>7, <2>1, <2>3, FullScore
<1>8. CASE from = 2 /\ to = 6
  <2>1. c[1] = m[1] /\ c[5] = m[5] + 1 /\ c[6] = 1
    BY <1>1, <1>2, <1>3, <1>5, <1>8
  <2>2. CASE m[1] = 0 /\ m[5] = 0 /\ scoreCounts(m).score = 0
    <3>1. ~hasFullStraight(c) /\ hasUpperStraight(c) /\ c[5] # 2 /\ DiceTotal(c) = 5
      BY <1>1, <1>6, <2>1, <2>2, StraightParts
    <3> QED
      BY <1>8, <2>2, <3>1, UpperScore
  <2>3. CASE m[1] = 1 /\ m[5] = 0 /\ scoreCounts(m).score = 100
    <3>1. hasFullStraight(c)
      BY <1>6, <2>1, <2>3, StraightParts
    <3> QED
      BY <1>8, <2>3, <3>1, FullScore
  <2>4. CASE m[1] = 0 /\ m[5] = 1 /\ scoreCounts(m).score = 50
    <3>1. ~hasFullStraight(c) /\ hasUpperStraight(c) /\ c[5] = 2
      BY <1>6, <2>1, <2>4, StraightParts
    <3> QED
      BY <1>8, <2>4, <3>1, UpperScore
  <2> QED
    BY <1>5, <2>2, <2>3, <2>4
<1>9. CASE from = 1 /\ to = 5
  <2>1. c[1] = m[1] + 1 /\ c[5] = m[5] + 1 /\ c[6] = 0
    BY <1>1, <1>2, <1>3, <1>5, <1>9
  <2>2. ~hasFullStraight(c) /\ ~hasUpperStraight(c) /\ hasLowerStraight(c)
    BY <1>2, <1>6, <2>1, StraightParts
  <2>3. CASE m[1] = 0 /\ m[5] = 0 /\ scoreCounts(m).score = 0
    <3>1. c[1] # 2 /\ c[5] # 2 /\ DiceTotal(c) = 5
      BY <1>1, <1>6, <2>1, <2>3
    <3> QED
      BY <1>9, <2>2, <2>3, <3>1, LowerScore
  <2>4. CASE m[1] = 1 /\ m[5] = 0 /\ scoreCounts(m).score = 100
    <3>1. c[1] = 2
      BY <2>1, <2>4
    <3> QED
      BY <1>9, <2>2, <2>4, <3>1, LowerScore
  <2>5. CASE m[1] = 0 /\ m[5] = 1 /\ scoreCounts(m).score = 50
    <3>1. c[5] = 2
      BY <2>1, <2>5
    <3> QED
      BY <1>9, <2>2, <2>5, <3>1, LowerScore
  <2> QED
    BY <1>5, <2>3, <2>4, <2>5
<1> QED
  BY <1>7, <1>8, <1>9

LEMMA AddCombo ==
  ASSUME NEW c \in Roll, NEW combo \in Held(c),
         ~scoreCounts(Minus(c, combo.dice)).extra
  PROVE  /\ ~scoreCounts(c).extra
         /\ scoreCounts(c).score >= scoreCounts(Minus(c, combo.dice)).score + combo.value
<1> DEFINE m == Minus(c, combo.dice)
<1>1. combo \in Combination /\ Within(combo.dice, c) /\ combo.dice \in Roll
  BY CombinationType DEF Held
<1>2. m \in Roll /\ \A w \in Face : m[w] = c[w] - combo.dice[w]
  BY <1>1, MinusRoll
<1>3. ~scoreCounts(m).extra
  OBVIOUS
<1>4. scoreCounts(m).score \in Nat
  BY <1>2, RollParts, ScoreType
<1> HIDE DEF m
<1>5. \A w \in Face : c[w] \in 0..6
  BY DEF Roll
<1>6. ASSUME NEW v \in Face, NEW n \in 1..6, CanBeKind(v, n), combo = KindCombo(v, n)
      PROVE  /\ ~scoreCounts(c).extra
             /\ scoreCounts(c).score >= scoreCounts(m).score + combo.value
  <2>1. combo.dice = Kind(v, n) /\ combo.value = FaceScore(v, n)
    BY <1>6 DEF KindCombo
  <2>2. \A w \in Face : m[w] = IF w = v THEN c[w] - n ELSE c[w]
    <3> SUFFICES ASSUME NEW w \in Face
                 PROVE  m[w] = IF w = v THEN c[w] - n ELSE c[w]
      OBVIOUS
    <3>1. combo.dice[w] = IF w = v THEN n ELSE 0
      BY <2>1, KindDice
    <3>2. m[w] = c[w] - combo.dice[w] /\ c[w] \in Int
      BY <1>2, <1>5
    <3> QED
      BY <3>1, <3>2
  <2> QED
    BY <1>2, <1>3, <1>6, <2>1, <2>2, AddKind
<1>7. ASSUME NEW from \in 1..2, NEW to \in 5..6, ~(from = 2 /\ to = 5), NEW value \in Nat,
             combo = StraightCombo(from, to, value),
             value = IF from = 2 THEN 750 ELSE IF to = 5 THEN 500 ELSE 1500
      PROVE  /\ ~scoreCounts(c).extra
             /\ scoreCounts(c).score >= scoreCounts(m).score + combo.value
  <2>1. combo.dice = Straight(from, to) /\ combo.value = value
    BY <1>7 DEF StraightCombo
  <2>2. \A w \in Face : m[w] = IF w \in from..to THEN c[w] - 1 ELSE c[w]
    <3> SUFFICES ASSUME NEW w \in Face
                 PROVE  m[w] = IF w \in from..to THEN c[w] - 1 ELSE c[w]
      OBVIOUS
    <3>1. from \in Face /\ to \in Face /\ from < to
      BY DEF Face
    <3>2. Straight(from, to)[w] = IF w \in from..to THEN 1 ELSE 0
      BY <3>1, StraightDice
    <3>3. m[w] = c[w] - Straight(from, to)[w] /\ c[w] \in Int
      BY <1>2, <1>5, <2>1
    <3> QED
      BY <3>2, <3>3
  <2>3. /\ ~scoreCounts(c).extra
        /\ from = 1 /\ to = 6 => scoreCounts(c).score >= scoreCounts(m).score + 1500
        /\ from = 2 /\ to = 6 => scoreCounts(c).score >= scoreCounts(m).score + 750
        /\ from = 1 /\ to = 5 => scoreCounts(c).score >= scoreCounts(m).score + 500
    BY <1>2, <1>3, <1>7, <2>2, AddStraight
  <2> QED
    BY <1>7, <2>1, <2>3
<1> QED
  BY <1>1, <1>6, <1>7, CombinationCases DEF m

\* What a cut of c may be worth.
Bounded(c) ==
  \A x \in CutValues[c] : x \in Nat /\ ~scoreCounts(c).extra /\ x <= scoreCounts(c).score

LEMMA BoundedStep ==
  ASSUME NEW n \in Nat, \A c \in Roll : DiceTotal(c) < n => Bounded(c)
  PROVE  \A c \in Roll : DiceTotal(c) < n + 1 => Bounded(c)
<1> SUFFICES ASSUME NEW c \in Roll, DiceTotal(c) < n + 1, NEW y \in CutValues[c]
             PROVE  y \in Nat /\ ~scoreCounts(c).extra /\ y <= scoreCounts(c).score
  BY DEF Bounded
<1>1. CASE c = NoDice
  <2>1. y = 0
    BY <1>1, Cuts
  <2>2. scoreCounts(c) = [score |-> 0, extra |-> FALSE]
    BY <1>1, NoDiceRoll, RollParts, EmptyScore
  <2> QED
    BY <2>1, <2>2
<1>2. CASE c # NoDice
  <2>1. PICK combo \in Held(c) : \E x \in CutValues[Minus(c, combo.dice)] : y = combo.value + x
    BY <1>2, Cuts
  <2>2. PICK x \in CutValues[Minus(c, combo.dice)] : y = combo.value + x
    BY <2>1
  <2> DEFINE m == Minus(c, combo.dice)
  <2>3. m \in Roll /\ DiceTotal(m) < DiceTotal(c)
    BY CutLeavesFewer
  <2>4. DiceTotal(m) < n
    <3>1. DiceTotal(m) \in Int /\ DiceTotal(c) \in Int
      BY <2>3, RollTotal
    <3> QED
      BY <2>3, <3>1
  <2>5. x \in Nat /\ ~scoreCounts(m).extra /\ x <= scoreCounts(m).score
    BY <2>3, <2>4 DEF Bounded
  <2>6. ~scoreCounts(c).extra /\ scoreCounts(c).score >= scoreCounts(m).score + combo.value
    BY <2>5, AddCombo
  <2>7. combo.value \in Nat
    BY CombinationType DEF Held
  <2>8. scoreCounts(m).score \in Nat /\ scoreCounts(c).score \in Nat
    BY <2>3, RollParts, ScoreType
  <2> QED
    BY <2>2, <2>5, <2>6, <2>7, <2>8
<1> QED
  BY <1>1, <1>2

\* scoreCounts is an upper bound of what any cut of a roll earns, and a roll
\* that can be cut at all has no extra dice.
THEOREM NoCutEarnsMore == \A c \in Roll : Bounded(c)
<1>0. \A c \in Roll : DiceTotal(c) < 0 => Bounded(c)
  BY RollTotal
<1>1. \A c \in Roll : DiceTotal(c) < 1 => Bounded(c)
  BY <1>0, BoundedStep
<1>2. \A c \in Roll : DiceTotal(c) < 2 => Bounded(c)
  BY <1>1, BoundedStep
<1>3. \A c \in Roll : DiceTotal(c) < 3 => Bounded(c)
  BY <1>2, BoundedStep
<1>4. \A c \in Roll : DiceTotal(c) < 4 => Bounded(c)
  BY <1>3, BoundedStep
<1>5. \A c \in Roll : DiceTotal(c) < 5 => Bounded(c)
  BY <1>4, BoundedStep
<1>6. \A c \in Roll : DiceTotal(c) < 6 => Bounded(c)
  BY <1>5, BoundedStep
<1>7. \A c \in Roll : DiceTotal(c) < 7 => Bounded(c)
  BY <1>6, BoundedStep
<1> QED
  BY <1>7, RollTotal
-----------------------------------------------------------------------------
(***************************************************************************)
(* Some cut is worth what scoreCounts says: straights first, then the      *)
(* faces one by one.                                                       *)
(***************************************************************************)

\* A cut of the rest, and n of a kind.
LEMMA CutKind ==
  ASSUME NEW c \in Roll, NEW v \in Face, NEW n \in 1..6, CanBeKind(v, n), n <= c[v],
         NEW m \in Roll, \A w \in Face : m[w] = IF w = v THEN c[w] - n ELSE c[w],
         NEW x \in CutValues[m]
  PROVE  FaceScore(v, n) + x \in CutValues[c]
<1> DEFINE combo == KindCombo(v, n)
<1>1. combo \in Combination /\ combo.dice = Kind(v, n) /\ combo.value = FaceScore(v, n)
  <2>1. combo.dice = Kind(v, n) /\ combo.value = FaceScore(v, n)
    BY DEF KindCombo
  <2> HIDE DEF combo
  <2>2. combo \in Combination
    BY CombinationCases DEF combo
  <2> QED
    BY <2>1, <2>2
<1> HIDE DEF combo
<1>2. /\ combo.dice \in Roll
      /\ \A w \in Face : combo.dice[w] = IF w = v THEN n ELSE 0
  BY <1>1, KindDice
<1>3. \A w \in Face : c[w] \in 0..6
  BY DEF Roll
<1>4. Within(combo.dice, c)
  BY <1>2, <1>3 DEF Within
<1>5. ASSUME NEW w \in Face
      PROVE  Minus(c, combo.dice)[w] = m[w]
  <2>1. Minus(c, combo.dice)[w] = c[w] - combo.dice[w]
    BY <1>2, <1>4, MinusRoll
  <2>2. combo.dice[w] = IF w = v THEN n ELSE 0
    BY <1>2
  <2>3. m[w] = IF w = v THEN c[w] - n ELSE c[w]
    OBVIOUS
  <2> QED
    BY <1>3, <2>1, <2>2, <2>3
<1>6. Minus(c, combo.dice) = m
  BY <1>2, <1>4, <1>5, MinusRoll, SameRoll
<1>7. combo \in Held(c)
  BY <1>1, <1>4 DEF Held
<1> QED
  BY <1>1, <1>6, <1>7, Cuts

\* A cut of the rest, and a straight.
LEMMA CutStraight ==
  ASSUME NEW c \in Roll, NEW from \in 1..2, NEW to \in 5..6, NEW value,
         StraightCombo(from, to, value) \in Combination,
         NEW m \in Roll, \A w \in Face : m[w] = IF w \in from..to THEN c[w] - 1 ELSE c[w],
         NEW x \in CutValues[m]
  PROVE  value + x \in CutValues[c]
<1> DEFINE combo == StraightCombo(from, to, value)
<1>1. combo \in Combination /\ combo.dice = Straight(from, to) /\ combo.value = value
  BY DEF StraightCombo
<1> HIDE DEF combo
<1>2. combo.dice \in Roll
  BY <1>1, CombinationType
<1>3. \A w \in Face : c[w] \in 0..6 /\ m[w] \in 0..6
  BY DEF Roll
<1>4. ASSUME NEW w \in Face
      PROVE  combo.dice[w] = IF w \in from..to THEN 1 ELSE 0
  <2>1. from \in Face /\ to \in Face /\ from < to
    BY DEF Face
  <2>2. Straight(from, to)[w] = IF w \in from..to THEN 1 ELSE 0
    BY <2>1, StraightDice
  <2> QED
    BY <1>1, <2>2
<1>5. ASSUME NEW w \in Face
      PROVE  combo.dice[w] <= c[w] /\ c[w] - combo.dice[w] = m[w]
  <2>1. m[w] = IF w \in from..to THEN c[w] - 1 ELSE c[w]
    OBVIOUS
  <2> QED
    BY <1>3, <1>4, <2>1
<1>6. Within(combo.dice, c)
  BY <1>5 DEF Within
<1>7. Minus(c, combo.dice) = m
  <2>1. \A w \in Face : Minus(c, combo.dice)[w] = m[w]
    BY <1>2, <1>5, <1>6, MinusRoll
  <2> QED
    BY <1>2, <1>6, <2>1, MinusRoll, SameRoll
<1>8. combo \in Held(c)
  BY <1>1, <1>6 DEF Held
<1> QED
  BY <1>1, <1>7, <1>8, Cuts

\* A cut of the other faces, and all the dice of one face.
LEMMA CutFace ==
  ASSUME NEW c \in Roll, NEW v \in Face, c[v] = 0 \/ c[v] >= 3 \/ v \in {1, 5},
         NEW m \in Roll, \A w \in Face : m[w] = IF w = v THEN 0 ELSE c[w],
         NEW x \in CutValues[m]
  PROVE  FaceScore(v, c[v]) + x \in CutValues[c]
<1>1. x \in Nat
  BY NoCutEarnsMore DEF Bounded
<1>2. c[v] \in 0..6
  BY DEF Roll
<1>3. CASE c[v] = 0
  <2>1. \A w \in Face : m[w] = c[w]
    BY <1>3
  <2>2. m = c
    BY <2>1, SameRoll
  <2>3. FaceScore(v, c[v]) = 0
    BY <1>2, <1>3, FaceScoreType
  <2> QED
    BY <1>1, <2>2, <2>3
<1>4. CASE c[v] \in 1..6 /\ CanBeKind(v, c[v])
  <2>1. ASSUME NEW w \in Face
        PROVE  m[w] = IF w = v THEN c[w] - c[v] ELSE c[w]
    <3>1. c[v] - c[v] = 0
      BY <1>2
    <3>2. m[w] = IF w = v THEN 0 ELSE c[w]
      OBVIOUS
    <3> QED
      BY <3>1, <3>2
  <2> QED
    BY <1>4, <2>1, CutKind
<1>5. CASE c[v] = 2 /\ v \in {1, 5}
  <2> DEFINE one == [w \in Face |-> IF w = v THEN 1 ELSE c[w]]
  <2>1. \A w \in Face : one[w] = IF w = v THEN 1 ELSE c[w]
    OBVIOUS
  <2>2. one \in Roll
    <3>1. one \in [Face -> 0..6]
      BY DEF Roll
    <3>2. /\ c[1] \in Int /\ c[2] \in Int /\ c[3] \in Int
          /\ c[4] \in Int /\ c[5] \in Int /\ c[6] \in Int
          /\ DiceTotal(c) = c[1] + c[2] + c[3] + c[4] + c[5] + c[6] /\ DiceTotal(c) <= 6
      BY RollParts, RollTotal DEF DiceTotal
    <3>3. DiceTotal(one) = one[1] + one[2] + one[3] + one[4] + one[5] + one[6]
      BY DEF DiceTotal
    <3>4. DiceTotal(one) <= 6
      BY <1>5, <2>1, <3>2, <3>3 DEF Face
    <3> QED
      BY <3>1, <3>4 DEF Roll
  <2> HIDE DEF one
  <2>3. CanBeKind(v, 1) /\ 1 \in 1..6
    BY <1>5 DEF CanBeKind
  <2>4. FaceScore(v, 1) + x \in CutValues[one]
    <3>1. ASSUME NEW w \in Face
          PROVE  m[w] = IF w = v THEN one[w] - 1 ELSE one[w]
      <4>1. m[w] = IF w = v THEN 0 ELSE c[w]
        OBVIOUS
      <4>2. one[w] = IF w = v THEN 1 ELSE c[w]
        BY <2>1
      <4> QED
        BY <4>1, <4>2
    <3>2. 1 <= one[v]
      BY <2>1
    <3> QED
      BY <2>2, <2>3, <3>1, <3>2, CutKind
  <2>5. FaceScore(v, 1) + (FaceScore(v, 1) + x) \in CutValues[c]
    <3>1. ASSUME NEW w \in Face
          PROVE  one[w] = IF w = v THEN c[w] - 1 ELSE c[w]
      <4>1. one[w] = IF w = v THEN 1 ELSE c[w]
        BY <2>1
      <4>2. c[v] - 1 = 1
        BY <1>5
      <4> QED
        BY <4>1, <4>2
    <3>2. 1 <= c[v]
      BY <1>5
    <3> QED
      BY <2>2, <2>3, <2>4, <3>1, <3>2, CutKind
  <2>6. FaceScore(v, 2) = FaceScore(v, 1) + FaceScore(v, 1) /\ FaceScore(v, 1) \in Nat
    BY <1>5, FaceScoreTable
  <2>7. FaceScore(v, c[v]) + x = FaceScore(v, 1) + (FaceScore(v, 1) + x)
    BY <1>1, <1>5, <2>6
  <2> QED
    BY <2>5, <2>7
<1>6. c[v] = 0 \/ (c[v] \in 1..6 /\ CanBeKind(v, c[v])) \/ (c[v] = 2 /\ v \in {1, 5})
  BY <1>2 DEF CanBeKind
<1> QED
  BY <1>3, <1>4, <1>5, <1>6

\* The part of a roll that shows v or more.
FromFace(c, v) == [w \in Face |-> IF w >= v THEN c[w] ELSE 0]

LEMMA FromFaceRoll ==
  ASSUME NEW c \in Roll, NEW v \in 1..7
  PROVE  /\ FromFace(c, v) \in Roll
         /\ \A w \in Face : FromFace(c, v)[w] = IF w >= v THEN c[w] ELSE 0
<1>1. \A w \in Face : FromFace(c, v)[w] = IF w >= v THEN c[w] ELSE 0
  BY DEF FromFace
<1>2. FromFace(c, v) \in [Face -> 0..6]
  <2>1. \A w \in Face : c[w] \in 0..6
    BY DEF Roll
  <2> QED
    BY <2>1 DEF FromFace
<1>3. DiceTotal(FromFace(c, v)) <= 6
  <2> DEFINE d == FromFace(c, v)
  <2>1. /\ d[1] = (IF 1 >= v THEN c[1] ELSE 0) /\ d[2] = (IF 2 >= v THEN c[2] ELSE 0)
        /\ d[3] = (IF 3 >= v THEN c[3] ELSE 0) /\ d[4] = (IF 4 >= v THEN c[4] ELSE 0)
        /\ d[5] = (IF 5 >= v THEN c[5] ELSE 0) /\ d[6] = (IF 6 >= v THEN c[6] ELSE 0)
    BY <1>1 DEF Face
  <2> HIDE DEF d
  <2>2. d[1] + d[2] + d[3] + d[4] + d[5] + d[6] <= 6
    BY <2>1, RollParts
  <2>3. DiceTotal(d) = d[1] + d[2] + d[3] + d[4] + d[5] + d[6]
    BY DEF DiceTotal
  <2> QED
    BY <2>2, <2>3 DEF d
<1> QED
  BY <1>1, <1>2, <1>3 DEF Roll

LEMMA CutNextFace ==
  ASSUME NEW c \in Roll, NEW v \in Face, c[v] = 0 \/ c[v] >= 3 \/ v \in {1, 5},
         NEW x \in CutValues[FromFace(c, v + 1)]
  PROVE  FaceScore(v, c[v]) + x \in CutValues[FromFace(c, v)]
<1> DEFINE d == FromFace(c, v)
           m == FromFace(c, v + 1)
<1>1. v \in 1..7 /\ v + 1 \in 1..7
  BY DEF Face
<1>2. d \in Roll /\ \A w \in Face : d[w] = IF w >= v THEN c[w] ELSE 0
  BY <1>1, FromFaceRoll
<1>3. m \in Roll /\ \A w \in Face : m[w] = IF w >= v + 1 THEN c[w] ELSE 0
  BY <1>1, FromFaceRoll
<1>4. x \in CutValues[m]
  OBVIOUS
<1> HIDE DEF d, m
<1>5. d[v] = c[v]
  BY <1>2 DEF Face
<1>6. \A w \in Face : m[w] = IF w = v THEN 0 ELSE d[w]
  BY <1>2, <1>3 DEF Face
<1>7. FaceScore(v, d[v]) + x \in CutValues[d]
  BY <1>2, <1>3, <1>4, <1>5, <1>6, CutFace
<1> QED
  BY <1>5, <1>7 DEF d

\* Without a straight, the faces one after the other.
LEMMA KindsAreCut ==
  ASSUME NEW c \in Roll, NoneLeftOver(c)
  PROVE  KindsPoints(c) \in CutValues[c]
<1>1. \A v \in Face : c[v] = 0 \/ c[v] >= 3 \/ v \in {1, 5}
  BY DEF NoneLeftOver, Face
<1> DEFINE p(v) == FaceScore(v, c[v])
<1>2. \A v \in Face : p(v) \in Nat
  <2>1. \A v \in Face : c[v] \in 0..6
    BY DEF Roll
  <2> QED
    BY <2>1, FaceScoreType
<1>3. \A v \in Face : \A x \in CutValues[FromFace(c, v + 1)] : p(v) + x \in CutValues[FromFace(c, v)]
  BY <1>1, CutNextFace
<1>4. 0 \in CutValues[FromFace(c, 7)]
  <2>1. FromFace(c, 7) \in Roll /\ \A w \in Face : FromFace(c, 7)[w] = IF w >= 7 THEN c[w] ELSE 0
    BY FromFaceRoll
  <2>2. \A w \in Face : FromFace(c, 7)[w] = NoDice[w]
    BY <2>1, NoDiceRoll DEF Face
  <2>3. FromFace(c, 7) = NoDice
    BY <2>1, <2>2, NoDiceRoll, SameRoll
  <2> QED
    BY <2>3, NoDiceRoll, Cuts
<1>5. FromFace(c, 1) = c
  <2>1. FromFace(c, 1) \in Roll /\ \A w \in Face : FromFace(c, 1)[w] = IF w >= 1 THEN c[w] ELSE 0
    BY FromFaceRoll
  <2>2. \A w \in Face : FromFace(c, 1)[w] = c[w]
    BY <2>1 DEF Face
  <2> QED
    BY <2>1, <2>2, SameRoll
<1> HIDE DEF p
<1>6. /\ 1 \in Face /\ 2 \in Face /\ 3 \in Face /\ 4 \in Face /\ 5 \in Face /\ 6 \in Face
      /\ 1 + 1 = 2 /\ 2 + 1 = 3 /\ 3 + 1 = 4 /\ 4 + 1 = 5 /\ 5 + 1 = 6 /\ 6 + 1 = 7
  BY DEF Face
<1>7. p(6) + 0 \in CutValues[FromFace(c, 6)]
  BY <1>3, <1>4, <1>6
<1>8. p(5) + (p(6) + 0) \in CutValues[FromFace(c, 5)]
  BY <1>3, <1>6, <1>7
<1>9. p(4) + (p(5) + (p(6) + 0)) \in CutValues[FromFace(c, 4)]
  BY <1>3, <1>6, <1>8
<1>10. p(3) + (p(4) + (p(5) + (p(6) + 0))) \in CutValues[FromFace(c, 3)]
  BY <1>3, <1>6, <1>9
<1>11. p(2) + (p(3) + (p(4) + (p(5) + (p(6) + 0)))) \in CutValues[FromFace(c, 2)]
  BY <1>3, <1>6, <1>10
<1>12. p(1) + (p(2) + (p(3) + (p(4) + (p(5) + (p(6) + 0))))) \in CutValues[c]
  BY <1>3, <1>5, <1>6, <1>11
<1>13. KindsPoints(c) = p(1) + p(2) + p(3) + p(4) + p(5) + p(6)
  BY DEF KindsPoints, p
<1>14. KindsPoints(c) = p(1) + (p(2) + (p(3) + (p(4) + (p(5) + (p(6) + 0)))))
  BY <1>2, <1>6, <1>13
<1> QED
  BY <1>12, <1>14

\* A roll without extra dice can be cut so that it earns its score.
THEOREM ScoreIsCut ==
  ASSUME NEW c \in Roll, ~scoreCounts(c).extra
  PROVE  scoreCounts(c).score \in CutValues[c]
<1>1. /\ c[1] \in 0..6 /\ c[2] \in 0..6 /\ c[3] \in 0..6
      /\ c[4] \in 0..6 /\ c[5] \in 0..6 /\ c[6] \in 0..6
      /\ c[1] + c[2] + c[3] + c[4] + c[5] + c[6] <= 6
      /\ DiceTotal(c) = c[1] + c[2] + c[3] + c[4] + c[5] + c[6]
  BY RollParts DEF DiceTotal
<1>2. 1 \in Face /\ 5 \in Face /\ FaceScore(1, 1) = 100 /\ FaceScore(5, 1) = 50
  BY FaceScoreTable DEF Face
<1>3. \A v \in Face : v = 1 \/ v = 2 \/ v = 3 \/ v = 4 \/ v = 5 \/ v = 6
  BY DEF Face
\* A straight, which leaves a single 1, a single 5 or no die.
<1>4. ASSUME NEW from \in 1..2, NEW to \in 5..6, NEW value \in Nat,
             StraightCombo(from, to, value) \in Combination,
             \A w \in Face : c[w] = IF w \in from..to THEN 1 ELSE 0
      PROVE  value \in CutValues[c]
  <2>1. \A w \in Face : NoDice[w] = IF w \in from..to THEN c[w] - 1 ELSE c[w]
    <3> SUFFICES ASSUME NEW w \in Face
                 PROVE  NoDice[w] = IF w \in from..to THEN c[w] - 1 ELSE c[w]
      OBVIOUS
    <3>1. NoDice[w] = 0 /\ c[w] = IF w \in from..to THEN 1 ELSE 0
      BY <1>4, NoDiceRoll
    <3> QED
      BY <3>1
  <2>2. 0 \in CutValues[NoDice] /\ NoDice \in Roll
    BY NoDiceRoll, Cuts
  <2>3. value + 0 \in CutValues[c]
    BY <1>4, <2>1, <2>2, CutStraight
  <2> QED
    BY <2>3
<1>5. ASSUME NEW from \in 1..2, NEW to \in 5..6, NEW value \in Nat,
             StraightCombo(from, to, value) \in Combination,
             NEW v \in {1, 5}, v \in from..to,
             \A w \in Face : c[w] = IF w = v THEN 2 ELSE IF w \in from..to THEN 1 ELSE 0
      PROVE  value + FaceScore(v, 1) \in CutValues[c]
  <2> DEFINE m == Kind(v, 1)
  <2>1. v \in Face /\ 1 \in 1..6 /\ CanBeKind(v, 1)
    BY DEF Face, CanBeKind
  <2>2. m \in Roll /\ \A w \in Face : m[w] = IF w = v THEN 1 ELSE 0
    BY <2>1, KindDice
  <2> HIDE DEF m
  <2>3. ASSUME NEW w \in Face
        PROVE  NoDice[w] = IF w = v THEN m[w] - 1 ELSE m[w]
    <3>1. NoDice[w] = 0 /\ m[w] = IF w = v THEN 1 ELSE 0
      BY <2>2, NoDiceRoll
    <3> QED
      BY <3>1
  <2>4. 0 \in CutValues[NoDice] /\ NoDice \in Roll
    BY NoDiceRoll, Cuts
  <2>5. 1 <= m[v]
    BY <2>1, <2>2
  <2>6. FaceScore(v, 1) + 0 \in CutValues[m]
    BY <2>1, <2>2, <2>3, <2>4, <2>5, CutKind
  <2>7. FaceScore(v, 1) + 0 = FaceScore(v, 1) /\ FaceScore(v, 1) \in Nat
    BY <1>2
  <2>8. ASSUME NEW w \in Face
        PROVE  m[w] = IF w \in from..to THEN c[w] - 1 ELSE c[w]
    <3>1. c[w] = IF w = v THEN 2 ELSE IF w \in from..to THEN 1 ELSE 0
      BY <1>5
    <3>2. m[w] = IF w = v THEN 1 ELSE 0
      BY <2>2
    <3> QED
      BY <1>5, <3>1, <3>2
  <2> QED
    BY <1>5, <2>2, <2>6, <2>7, <2>8, CutStraight
<1>6. CASE hasFullStraight(c)
  <2>1. \A w \in Face : c[w] = IF w \in 1..6 THEN 1 ELSE 0
    BY <1>6 DEF hasFullStraight, Face
  <2>2. 1500 \in CutValues[c]
    BY <1>4, <2>1, CombinationCases
  <2> QED
    BY <1>6, <2>2, FullScore
<1>7. CASE ~hasFullStraight(c) /\ hasUpperStraight(c)
  <2>1. c[1] = 0 /\ c[2] > 0 /\ c[3] > 0 /\ c[4] > 0 /\ c[5] > 0 /\ c[6] > 0
    BY <1>7, StraightParts, UpperScore
  <2>2. CASE c[5] = 2
    <3>1. c[2] = 1 /\ c[3] = 1 /\ c[4] = 1 /\ c[6] = 1 /\ scoreCounts(c).score = 800
      BY <1>7, <2>2, UpperScore
    <3>2. \A w \in Face : c[w] = IF w = 5 THEN 2 ELSE IF w \in 2..6 THEN 1 ELSE 0
      BY <1>3, <2>1, <2>2, <3>1
    <3>3. 750 + FaceScore(5, 1) \in CutValues[c]
      BY <1>5, <3>2, CombinationCases
    <3> QED
      BY <1>2, <3>1, <3>3
  <2>3. CASE c[5] # 2
    <3>1. scoreCounts(c).score = 750 /\ ~(DiceTotal(c) > 5)
      BY <1>7, <2>3, UpperScore
    <3>2. c[2] = 1 /\ c[3] = 1 /\ c[4] = 1 /\ c[5] = 1 /\ c[6] = 1
      BY <1>1, <2>1, <3>1
    <3>3. \A w \in Face : c[w] = IF w \in 2..6 THEN 1 ELSE 0
      BY <1>3, <2>1, <3>2
    <3> QED
      BY <1>4, <3>1, <3>3, CombinationCases
  <2> QED
    BY <2>2, <2>3
<1>8. CASE ~hasFullStraight(c) /\ ~hasUpperStraight(c) /\ hasLowerStraight(c)
  <2>1. c[6] = 0 /\ c[1] > 0 /\ c[2] > 0 /\ c[3] > 0 /\ c[4] > 0 /\ c[5] > 0
    BY <1>8, StraightParts, LowerScore
  <2>2. CASE c[1] = 2
    <3>1. c[2] = 1 /\ c[3] = 1 /\ c[4] = 1 /\ c[5] = 1 /\ scoreCounts(c).score = 600
      BY <1>8, <2>2, LowerScore
    <3>2. \A w \in Face : c[w] = IF w = 1 THEN 2 ELSE IF w \in 1..5 THEN 1 ELSE 0
      BY <1>3, <2>1, <2>2, <3>1
    <3>3. 500 + FaceScore(1, 1) \in CutValues[c]
      BY <1>5, <3>2, CombinationCases
    <3> QED
      BY <1>2, <3>1, <3>3
  <2>3. CASE c[5] = 2
    <3>1. c[1] = 1 /\ c[2] = 1 /\ c[3] = 1 /\ c[4] = 1 /\ scoreCounts(c).score = 550
      BY <1>8, <2>3, LowerScore
    <3>2. \A w \in Face : c[w] = IF w = 5 THEN 2 ELSE IF w \in 1..5 THEN 1 ELSE 0
      BY <1>3, <2>1, <2>3, <3>1
    <3>3. 500 + FaceScore(5, 1) \in CutValues[c]
      BY <1>5, <3>2, CombinationCases
    <3> QED
      BY <1>2, <3>1, <3>3
  <2>4. CASE c[1] # 2 /\ c[5] # 2
    <3>1. scoreCounts(c).score = 500 /\ ~(DiceTotal(c) > 5)
      BY <1>8, <2>4, LowerScore
    <3>2. c[1] = 1 /\ c[2] = 1 /\ c[3] = 1 /\ c[4] = 1 /\ c[5] = 1
      BY <1>1, <2>1, <3>1
    <3>3. \A w \in Face : c[w] = IF w \in 1..5 THEN 1 ELSE 0
      BY <1>3, <2>1, <3>2
    <3> QED
      BY <1>4, <3>1, <3>3, CombinationCases
  <2> QED
    BY <2>2, <2>3, <2>4
<1>9. CASE ~hasFullStraight(c) /\ ~hasUpperStraight(c) /\ ~hasLowerStraight(c)
  BY <1>9, PlainScore, KindsAreCut
<1> QED
  BY <1>6, <1>7, <1>8, <1>9

\* scoreCounts reports extra dice exactly when there is no cut, and otherwise
\* the most valuable one.
LEMMA BestCut ==
  ASSUME NEW c \in Roll
  PROVE  /\ scoreCounts(c).extra <=> CutValues[c] = {}
         /\ ~scoreCounts(c).extra => /\ scoreCounts(c).score \in CutValues[c]
                                     /\ \A x \in CutValues[c] : x <= scoreCounts(c).score
<1>1. \A x \in CutValues[c] : ~scoreCounts(c).extra /\ x <= scoreCounts(c).score
  BY NoCutEarnsMore DEF Bounded
<1>2. ~scoreCounts(c).extra => scoreCounts(c).score \in CutValues[c]
  BY ScoreIsCut
<1> QED
  BY <1>1, <1>2
-----------------------------------------------------------------------------
(***************************************************************************)
(* The weighted die of Dice, for every variant, known or not.              *)
(***************************************************************************)

\* The weights are positive whatever the variant is called.
LEMMA WeightsType ==
  ASSUME NEW variant
  PROVE  Weights(variant) \in {<<1, 1, 1, 1, 1, 1>>, <<1, 3, 1, 3, 1, 3>>,
                               <<3, 1, 3, 1, 3, 1>>, <<5, 1, 1, 1, 4, 2>>}
<1>1. DOMAIN DiceDistributions = {"regular", "even", "odd", "lucky"}
  BY DEF DiceDistributions
<1>2. /\ DiceDistributions["regular"] = <<1, 1, 1, 1, 1, 1>>
      /\ DiceDistributions["even"] = <<1, 3, 1, 3, 1, 3>>
      /\ DiceDistributions["odd"] = <<3, 1, 3, 1, 3, 1>>
      /\ DiceDistributions["lucky"] = <<5, 1, 1, 1, 4, 2>>
  BY DEF DiceDistributions
<1>3. CASE variant \in {"regular", "even", "odd", "lucky"}
  BY <1>1, <1>2, <1>3 DEF Weights
<1>4. CASE variant \notin {"regular", "even", "odd", "lucky"}
  BY <1>1, <1>2, <1>4 DEF Weights
<1> QED
  BY <1>3, <1>4

\* currentWeight grows by the weight of each face in turn.
LEMMA CurrentWeightDef ==
  ASSUME NEW variant
  PROVE  /\ CurrentWeight(variant, 0) = 0
         /\ \A i \in 1..6 : CurrentWeight(variant, i) = CurrentWeight(variant, i - 1) + Weights(variant)[i]
<1> DEFINE w == Weights(variant)
           Sums(s) == s = [j \in 0..6 |-> IF j = 0 THEN 0 ELSE s[j - 1] + w[j]]
           s1 == 0 + w[1]
           s2 == s1 + w[2]
           s3 == s2 + w[3]
           s4 == s3 + w[4]
           s5 == s4 + w[5]
           s6 == s5 + w[6]
           t == [j \in 0..6 |-> IF j = 0 THEN 0 ELSE IF j = 1 THEN s1 ELSE IF j = 2 THEN s2
                                ELSE IF j = 3 THEN s3 ELSE IF j = 4 THEN s4
                                ELSE IF j = 5 THEN s5 ELSE s6]
<1> HIDE DEF w
<1>1. Sums(t)
  <2>1. ASSUME NEW j \in 0..6
        PROVE  t[j] = IF j = 0 THEN 0 ELSE t[j - 1] + w[j]
    <3>1. j = 0 \/ j = 1 \/ j = 2 \/ j = 3 \/ j = 4 \/ j = 5 \/ j = 6
      OBVIOUS
    <3>2. /\ t[0] = 0 /\ t[1] = s1 /\ t[2] = s2 /\ t[3] = s3
          /\ t[4] = s4 /\ t[5] = s5 /\ t[6] = s6
      OBVIOUS
    <3> HIDE DEF t
    <3>3. /\ 1 - 1 = 0 /\ 2 - 1 = 1 /\ 3 - 1 = 2 /\ 4 - 1 = 3 /\ 5 - 1 = 4 /\ 6 - 1 = 5
      OBVIOUS
    <3> QED
      BY <3>1, <3>2, <3>3
  <2>2. t = [j \in 0..6 |-> t[j]]
    OBVIOUS
  <2> HIDE DEF t
  <2> QED
    BY <2>1, <2>2
<1> DEFINE sum == CHOOSE s : Sums(s)
<1> HIDE DEF Sums
<1>2. Sums(sum)
  BY <1>1
<1> HIDE DEF sum
<1>3. ASSUME NEW i \in 0..6
      PROVE  CurrentWeight(variant, i) = sum[i]
  BY DEF CurrentWeight, sum, Sums, w
<1>4. \A j \in 0..6 : sum[j] = IF j = 0 THEN 0 ELSE sum[j - 1] + w[j]
  BY <1>2 DEF Sums
<1>5. CurrentWeight(variant, 0) = 0
  BY <1>3, <1>4
<1>6. ASSUME NEW i \in 1..6
      PROVE  CurrentWeight(variant, i) = CurrentWeight(variant, i - 1) + Weights(variant)[i]
  <2>1. i \in 0..6 /\ i - 1 \in 0..6 /\ i # 0
    OBVIOUS
  <2>2. sum[i] = sum[i - 1] + w[i]
    BY <1>4, <2>1
  <2> QED
    BY <1>3, <2>1, <2>2 DEF w
<1> QED
  BY <1>5, <1>6

\* Weights are positive, so currentWeight grows from face to face.
LEMMA CurrentWeightGrows ==
  ASSUME NEW variant
  PROVE  /\ \A i \in 0..6 : CurrentWeight(variant, i) \in Nat
         /\ \A i \in 1..6 : Weights(variant)[i] \in Nat /\ Weights(variant)[i] > 0
         /\ \A i \in 0..6, j \in 0..6 : i < j => CurrentWeight(variant, i) < CurrentWeight(variant, j)
<1> DEFINE C(i) == CurrentWeight(variant, i)
           w == Weights(variant)
<1>1. \A i \in 1..6 : w[i] \in Nat /\ w[i] > 0
  <2>1. \/ w = <<1, 1, 1, 1, 1, 1>> \/ w = <<1, 3, 1, 3, 1, 3>>
        \/ w = <<3, 1, 3, 1, 3, 1>> \/ w = <<5, 1, 1, 1, 4, 2>>
    BY WeightsType
  <2> HIDE DEF w
  <2>2. CASE w = <<1, 1, 1, 1, 1, 1>>
    BY <2>2
  <2>3. CASE w = <<1, 3, 1, 3, 1, 3>>
    BY <2>3
  <2>4. CASE w = <<3, 1, 3, 1, 3, 1>>
    BY <2>4
  <2>5. CASE w = <<5, 1, 1, 1, 4, 2>>
    BY <2>5
  <2> QED
    BY <2>1, <2>2, <2>3, <2>4, <2>5
<1>2. C(0) = 0 /\ \A i \in 1..6 : C(i) = C(i - 1) + w[i]
  BY CurrentWeightDef
<1> HIDE DEF C, w
<1>3. /\ C(1) = C(0) + w[1] /\ C(2) = C(1) + w[2] /\ C(3) = C(2) + w[3]
      /\ C(4) = C(3) + w[4] /\ C(5) = C(4) + w[5] /\ C(6) = C(5) + w[6]
  <2>1. /\ 1 - 1 = 0 /\ 2 - 1 = 1 /\ 3 - 1 = 2 /\ 4 - 1 = 3 /\ 5 - 1 = 4 /\ 6 - 1 = 5
    OBVIOUS
  <2> QED
    BY <1>2, <2>1
<1>4. /\ w[1] \in Nat /\ w[2] \in Nat /\ w[3] \in Nat /\ w[4] \in Nat /\ w[5] \in Nat /\ w[6] \in Nat
      /\ w[1] > 0 /\ w[2] > 0 /\ w[3] > 0 /\ w[4] > 0 /\ w[5] > 0 /\ w[6] > 0
  BY <1>1
<1>5. /\ C(0) \in Nat /\ C(1) \in Nat /\ C(2) \in Nat /\ C(3) \in Nat
      /\ C(4) \in Nat /\ C(5) \in Nat /\ C(6) \in Nat
      /\ C(0) < C(1) /\ C(1) < C(2) /\ C(2) < C(3) /\ C(3) < C(4) /\ C(4) < C(5) /\ C(5) < C(6)
  BY <1>2, <1>3, <1>4
<1>6. \A i \in 0..6 : i = 0 \/ i = 1 \/ i = 2 \/ i = 3 \/ i = 4 \/ i = 5 \/ i = 6
  OBVIOUS
<1>7. \A i \in 0..6 : C(i) \in Nat
  BY <1>5, <1>6
<1>8. ASSUME NEW i \in 0..6, NEW j \in 0..6, i < j
      PROVE  C(i) < C(j)
  BY <1>5, <1>6, <1>8
<1> QED
  BY <1>1, <1>7, <1>8 DEF C, w

\* The loop stops at face i for the outcomes from currentWeight before it to
\* currentWeight after it.
LEMMA FaceOfRoll ==
  ASSUME NEW variant, NEW r \in RollerOutcome(variant)
  PROVE  /\ rollWeightedDice(variant, r) \in Face
         /\ \A i \in Face : rollWeightedDice(variant, r) = i <=>
              CurrentWeight(variant, i - 1) <= r /\ r < CurrentWeight(variant, i)
<1> DEFINE C(i) == CurrentWeight(variant, i)
           S == StopsAt(variant, r)
           least == rollWeightedDice(variant, r)
<1>1. /\ \A i \in 0..6 : C(i) \in Nat
      /\ \A i \in 0..6, j \in 0..6 : i < j => C(i) < C(j)
  BY CurrentWeightGrows
<1>2. C(0) = 0
  BY CurrentWeightDef
<1>3. r \in Nat /\ r < C(6)
  BY <1>1 DEF RollerOutcome, TotalWeight
<1>4. S = {i \in 1..6 : r < C(i)}
  BY DEF StopsAt
<1>5. least = CHOOSE i \in S : \A j \in S : i <= j
  BY DEF rollWeightedDice
<1> HIDE DEF C, S, least
<1>6. 6 \in S
  BY <1>3, <1>4
<1>7. \E i \in S : \A j \in S : i <= j
  <2>1. \A j \in S : j = 1 \/ j = 2 \/ j = 3 \/ j = 4 \/ j = 5 \/ j = 6
    BY <1>4
  <2>2. \/ 1 \in S
        \/ 1 \notin S /\ 2 \in S
        \/ 1 \notin S /\ 2 \notin S /\ 3 \in S
        \/ 1 \notin S /\ 2 \notin S /\ 3 \notin S /\ 4 \in S
        \/ 1 \notin S /\ 2 \notin S /\ 3 \notin S /\ 4 \notin S /\ 5 \in S
        \/ 1 \notin S /\ 2 \notin S /\ 3 \notin S /\ 4 \notin S /\ 5 \notin S /\ 6 \in S
    BY <1>6
  <2> QED
    BY <2>1, <2>2
<1>8. least \in S /\ \A j \in S : least <= j
  BY <1>5, <1>7
<1>9. least \in 1..6 /\ r < C(least)
  BY <1>4, <1>8
<1>10. C(least - 1) <= r
  <2>1. CASE least = 1
    BY <1>2, <1>3, <2>1
  <2>2. CASE least # 1
    <3>1. least - 1 \in 1..6 /\ ~(least <= least - 1)
      BY <1>9, <2>2
    <3>2. least - 1 \notin S
      BY <1>8, <3>1
    <3>3. ~(r < C(least - 1)) /\ C(least - 1) \in Nat
      BY <1>1, <1>4, <3>1, <3>2
    <3> QED
      BY <1>3, <3>3
  <2> QED
    BY <2>1, <2>2
<1>11. ASSUME NEW i \in 1..6, C(i - 1) <= r, r < C(i)
       PROVE  least = i
  <2>1. least <= i
    BY <1>4, <1>8, <1>11
  <2>2. ~(least < i)
    <3> SUFFICES ASSUME least < i
                 PROVE  FALSE
      OBVIOUS
    <3>1. least <= i - 1 /\ i - 1 \in 0..6 /\ least \in 0..6
      BY <1>9
    <3>2. C(least) <= C(i - 1)
      <4>1. CASE least = i - 1
        <5>1. C(i - 1) \in Nat
          BY <1>1, <3>1
        <5> QED
          BY <4>1, <5>1
      <4>2. CASE least < i - 1
        <5>1. C(least) < C(i - 1) /\ C(least) \in Nat /\ C(i - 1) \in Nat
          BY <1>1, <3>1, <4>2
        <5> QED
          BY <5>1
      <4> QED
        BY <3>1, <4>1, <4>2
    <3>3. C(least) \in Nat /\ C(i - 1) \in Nat
      BY <1>1, <3>1
    <3> QED
      BY <1>3, <1>9, <1>11, <3>2, <3>3
  <2> QED
    BY <1>9, <2>1, <2>2
<1>12. least \in Face /\ \A i \in Face : least = i <=> C(i - 1) <= r /\ r < C(i)
  BY <1>9, <1>10, <1>11 DEF Face
<1> QED
  BY <1>12 DEF least, C

\* Each face is drawn by as many outcomes as its weight.
LEMMA OutcomesOfFace ==
  ASSUME NEW variant, NEW i \in Face
  PROVE  Cardinality({r \in RollerOutcome(variant) : rollWeightedDice(variant, r) = i})
           = Weights(variant)[i]
<1> DEFINE C(j) == CurrentWeight(variant, j)
           outcomes == {r \in RollerOutcome(variant) : rollWeightedDice(variant, r) = i}
<1>1. i \in 1..6 /\ i \in 0..6 /\ i - 1 \in 0..6
  BY DEF Face
<1>2. C(i - 1) \in Nat /\ C(i) \in Nat /\ C(6) \in Nat /\ C(i) <= C(6)
  <2>1. C(i - 1) \in Nat /\ C(i) \in Nat /\ C(6) \in Nat /\ (i < 6 => C(i) < C(6))
    BY <1>1, CurrentWeightGrows
  <2>2. i = 6 \/ i < 6
    BY <1>1
  <2> QED
    BY <2>1, <2>2
<1>3. RollerOutcome(variant) = 0 .. (C(6) - 1)
  BY DEF RollerOutcome, TotalWeight
<1>4. \A r \in RollerOutcome(variant) :
        rollWeightedDice(variant, r) = i <=> C(i - 1) <= r /\ r < C(i)
  BY FaceOfRoll
<1>5. C(i) = C(i - 1) + Weights(variant)[i] /\ Weights(variant)[i] \in Nat /\ Weights(variant)[i] > 0
  BY <1>1, CurrentWeightDef, CurrentWeightGrows
<1> HIDE DEF C
<1>6. outcomes = C(i - 1) .. (C(i) - 1)
  <2>1. \A r \in outcomes : r \in Int /\ C(i - 1) <= r /\ r < C(i)
    BY <1>3, <1>4
  <2>2. \A r \in C(i - 1) .. (C(i) - 1) : r \in 0 .. (C(6) - 1) /\ C(i - 1) <= r /\ r < C(i)
    BY <1>2
  <2>3. \A r \in C(i - 1) .. (C(i) - 1) : r \in outcomes
    BY <1>3, <1>4, <2>2
  <2> HIDE DEF outcomes
  <2>4. \A r \in outcomes : r \in C(i - 1) .. (C(i) - 1)
    BY <1>2, <2>1
  <2> QED
    BY <2>3, <2>4
<1> HIDE DEF outcomes
<1>7. Cardinality(C(i - 1) .. (C(i) - 1)) = (C(i) - 1) - C(i - 1) + 1
  <2>1. C(i - 1) \in Int /\ C(i) - 1 \in Int /\ ~(C(i - 1) > C(i) - 1)
    BY <1>2, <1>5
  <2> QED
    BY <2>1, FS_Interval
<1>8. Cardinality(outcomes) = Weights(variant)[i]
  BY <1>2, <1>5, <1>6, <1>7
<1> QED
  BY <1>8 DEF outcomes
-----------------------------------------------------------------------------
(***************************************************************************)
(* The throws of Rolls, for any number of dice up to six and any variants. *)
(***************************************************************************)

\* The inductive invariant: never more than NumDice dice are counted, and the
\* last face is the one its outcome gives.
RollInv ==
  /\ counts \in Roll
  /\ DiceTotal(counts) <= NumDice
  /\ drawn.face \in Face
  /\ drawn.roll \in RollerOutcome(drawn.variant)
  /\ drawn.face = rollWeightedDice(drawn.variant, drawn.roll)

LEMMA RollInitInv == RollInit => RollInv
<1> SUFFICES ASSUME RollInit
             PROVE  RollInv
  OBVIOUS
<1>1. /\ counts = NoDice /\ drawn.variant = "regular" /\ drawn.roll = 0 /\ drawn.face = 1
  BY DEF RollInit
<1>2. DiceTotal(NoDice) = 0
  BY NoDiceRoll DEF DiceTotal, Face
<1>3. /\ CurrentWeight("regular", 0) = 0
      /\ CurrentWeight("regular", 1) > 0 /\ CurrentWeight("regular", 6) > 0
      /\ CurrentWeight("regular", 6) \in Nat
  BY CurrentWeightDef, CurrentWeightGrows
<1>4. 0 \in RollerOutcome("regular")
  BY <1>3 DEF RollerOutcome, TotalWeight
<1>5. rollWeightedDice("regular", 0) = 1
  <2>1. 1 \in Face /\ 1 - 1 = 0 /\ 0 <= 0
    BY DEF Face
  <2> QED
    BY <1>3, <1>4, <2>1, FaceOfRoll
<1> QED
  BY <1>1, <1>2, <1>4, <1>5, NoDiceRoll, NumDiceAssumption DEF RollInv, Face

\* One more die.
LEMMA OneMore ==
  ASSUME NEW c \in Roll, NEW d, NEW face \in Face,
         \A w \in Face : d[w] = IF w = face THEN c[w] + 1 ELSE c[w]
  PROVE  DiceTotal(d) = DiceTotal(c) + 1
<1>1. /\ c[1] \in Int /\ c[2] \in Int /\ c[3] \in Int
      /\ c[4] \in Int /\ c[5] \in Int /\ c[6] \in Int
  BY RollParts
<1>2. face = 1 \/ face = 2 \/ face = 3 \/ face = 4 \/ face = 5 \/ face = 6
  BY DEF Face
<1>3. \A w \in 1..6 : d[w] = IF w = face THEN c[w] + 1 ELSE c[w]
  BY DEF Face
<1>4. CASE face = 1
  BY <1>1, <1>3, <1>4 DEF DiceTotal
<1>5. CASE face = 2
  BY <1>1, <1>3, <1>5 DEF DiceTotal
<1>6. CASE face = 3
  BY <1>1, <1>3, <1>6 DEF DiceTotal
<1>7. CASE face = 4
  BY <1>1, <1>3, <1>7 DEF DiceTotal
<1>8. CASE face = 5
  BY <1>1, <1>3, <1>8 DEF DiceTotal
<1>9. CASE face = 6
  BY <1>1, <1>3, <1>9 DEF DiceTotal
<1> QED
  BY <1>2, <1>4, <1>5, <1>6, <1>7, <1>8, <1>9

LEMMA ThrowInv ==
  ASSUME RollInv, NEW variant, NEW roll \in RollerOutcome(variant), Throw(variant, roll)
  PROVE  RollInv'
<1> DEFINE face == rollWeightedDice(variant, roll)
<1>1. face \in Face
  BY FaceOfRoll
<1>2. /\ DiceTotal(counts) < NumDice
      /\ counts' = [counts EXCEPT ![face] = @ + 1]
      /\ drawn' = [variant |-> variant, roll |-> roll, face |-> face]
  BY DEF Throw
<1>3. drawn'.face = face /\ drawn'.roll = roll /\ drawn'.variant = variant
  BY <1>2
<1> HIDE DEF face
<1>4. /\ counts \in Roll /\ counts \in [Face -> 0..6]
      /\ DiceTotal(counts) \in 0..6 /\ DiceTotal(counts) < NumDice /\ NumDice \in 1..6
  BY <1>2, RollTotal, NumDiceAssumption DEF RollInv, Roll
<1>5. \A w \in Face : counts'[w] = IF w = face THEN counts[w] + 1 ELSE counts[w]
  BY <1>1, <1>2, <1>4
<1>6. DiceTotal(counts') = DiceTotal(counts) + 1
  BY <1>1, <1>4, <1>5, OneMore
<1>7. counts[face] <= DiceTotal(counts)
  <2>1. face = 1 \/ face = 2 \/ face = 3 \/ face = 4 \/ face = 5 \/ face = 6
    BY <1>1 DEF Face
  <2>2. /\ counts[1] \in 0..6 /\ counts[2] \in 0..6 /\ counts[3] \in 0..6
        /\ counts[4] \in 0..6 /\ counts[5] \in 0..6 /\ counts[6] \in 0..6
    BY <1>4, RollParts
  <2> QED
    BY <2>1, <2>2 DEF DiceTotal
<1>8. counts[face] + 1 \in 0..6
  <2>1. counts[face] \in 0..6
    BY <1>1, <1>4
  <2> QED
    BY <1>4, <1>7, <2>1
<1>9. counts' \in [Face -> 0..6]
  BY <1>1, <1>2, <1>4, <1>8
<1>10. DiceTotal(counts') <= NumDice /\ DiceTotal(counts') <= 6
  BY <1>4, <1>6
<1>11. counts' \in Roll
  BY <1>9, <1>10 DEF Roll
<1> QED
  BY <1>1, <1>3, <1>10, <1>11 DEF RollInv, face

LEMMA PickUpInv ==
  ASSUME RollInv, PickUp
  PROVE  RollInv'
<1>1. counts' = NoDice /\ drawn' = drawn
  BY DEF PickUp
<1>2. DiceTotal(NoDice) = 0
  BY NoDiceRoll DEF DiceTotal, Face
<1> QED
  BY <1>1, <1>2, NoDiceRoll, NumDiceAssumption DEF RollInv

THEOREM RollInvariance == RollSpec => []RollInv
<1>1. ASSUME RollInv, [RollNext]_rollVars
      PROVE  RollInv'
  <2>1. ASSUME NEW variant \in Variants, NEW roll \in RollerOutcome(variant), Throw(variant, roll)
        PROVE  RollInv'
    BY <1>1, <2>1, ThrowInv
  <2>2. CASE PickUp
    BY <1>1, <2>2, PickUpInv
  <2>3. CASE UNCHANGED rollVars
    BY <1>1, <2>3 DEF rollVars, RollInv
  <2> QED
    BY <1>1, <2>1, <2>2, <2>3 DEF RollNext
<1> QED
  BY <1>1, RollInitInv, PTL DEF RollSpec

\* rollWeightedDice never panics, and each face is drawn by exactly as many
\* outcomes of the roller as its weight, whatever the variant.
THEOREM RollAlwaysMatchesWeights == RollSpec => []RollMatchesWeights
<1>1. RollInv => RollMatchesWeights
  BY OutcomesOfFace DEF RollInv, RollMatchesWeights
<1> QED
  BY <1>1, RollInvariance, PTL

\* scoreCounts finds the best way to cut any roll into combinations, and
\* reports extra dice exactly when there is none.
THEOREM ScoreAlwaysBestCut == RollSpec => []ScoreIsBestCut
<1>1. RollInv => ScoreIsBestCut
  BY BestCut DEF RollInv, ScoreIsBestCut
<1> QED
  BY <1>1, RollInvariance, PTL

\* A roll is busted exactly when no part of it scores.
THEOREM BustedAlwaysExact == RollSpec => []BustedIffNothingScores
<1>1. RollInv => BustedIffNothingScores
  BY RollParts, BustedIsExact DEF RollInv, BustedIffNothingScores
<1> QED
  BY <1>1, RollInvariance, PTL
==============================================================================
