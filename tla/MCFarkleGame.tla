---------------------------- MODULE MCFarkleGame -----------------------------
(***************************************************************************)
(* Small games for TLC: the dice are interchangeable.                      *)
(***************************************************************************)
EXTENDS FarkleGame, TLC

DiceSymmetry == Permutations(DiceID)
==============================================================================
