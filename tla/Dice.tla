-------------------------------- MODULE Dice ---------------------------------
(***************************************************************************)
(* A single die: the weights of connect/dice.go and the weighted roll of   *)
(* data/dice.go.                                                           *)
(***************************************************************************)
EXTENDS Integers

DiceDistributions ==
  [regular |-> <<1, 1, 1, 1, 1, 1>>,
   even    |-> <<1, 3, 1, 3, 1, 3>>,
   odd     |-> <<3, 1, 3, 1, 3, 1>>,
   lucky   |-> <<5, 1, 1, 1, 4, 2>>]

\* The weights of a variant; a variant the map does not know is regular.
Weights(variant) ==
  IF variant \in DOMAIN DiceDistributions
  THEN DiceDistributions[variant] ELSE DiceDistributions["regular"]

\* currentWeight after the loop has added the weights of faces 1 to i.
CurrentWeight(variant, i) ==
  LET sum[j \in 0..6] == IF j = 0 THEN 0 ELSE sum[j - 1] + Weights(variant)[j]
  IN  sum[i]

TotalWeight(variant) == CurrentWeight(variant, 6)

\* What Roller.IntN(totalWeight) can return.
RollerOutcome(variant) == 0 .. (TotalWeight(variant) - 1)

\* Mutant of StopsAt: a bug that some property must show.
StopsTooSoon(variant, roll) == {i \in 1..6 : roll <= CurrentWeight(variant, i)}

\* The faces at which the loop may stop for this outcome: it takes the first.
StopsAt(variant, roll) == {i \in 1..6 : roll < CurrentWeight(variant, i)}

rollWeightedDice(variant, roll) ==
  CHOOSE i \in StopsAt(variant, roll) : \A j \in StopsAt(variant, roll) : i <= j
==============================================================================
