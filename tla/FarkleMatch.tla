----------------------------- MODULE FarkleMatch -----------------------------
(***************************************************************************)
(* What a farkle match promises, without dice: two players alternate, a    *)
(* turn either adds points to the mover's total or leaves it alone, a turn *)
(* that timed out is a strike, and the result follows from totals and      *)
(* strikes alone.  FarkleGame implements this specification.               *)
(***************************************************************************)
EXTENDS Integers

CONSTANTS Target,      \* the total that wins (create.Target)
          StrikeLimit  \* the time-outs that lose the match

Player == 0..1
Other(p) == (p + 1) % 2
NoPlayer == 2

VARIABLES mover,    \* whose turn it is, or was when stage is "judge"
          total,    \* the banked points
          strikes,  \* the turns lost by time-out
          stage,    \* "play", "judge" or "over"
          winner    \* who was announced, NoPlayer before and when aborted

vars == <<mover, total, strikes, stage, winner>>

Init ==
  /\ mover \in Player
  /\ total = [p \in Player |-> 0]
  /\ strikes = [p \in Player |-> 0]
  /\ stage = "play"
  /\ winner = NoPlayer

\* The mover's turn ends: points are banked, nothing is gained, or the turn
\* timed out.
Turn ==
  /\ stage = "play"
  /\ \/ /\ total' \in [Player -> Nat]
        /\ total'[mover] >= total[mover]
        /\ total'[Other(mover)] = total[Other(mover)]
        /\ UNCHANGED strikes
     \/ /\ strikes' = [strikes EXCEPT ![mover] = @ + 1]
        /\ UNCHANGED total
  /\ stage' = "judge"
  /\ UNCHANGED <<mover, winner>>

\* The finished turn decides the match, or the other player moves next.
Judge ==
  /\ stage = "judge"
  /\ \/ /\ strikes[mover] >= StrikeLimit
        /\ stage' = "over"
        /\ winner' = Other(mover)
        /\ UNCHANGED mover
     \/ /\ strikes[mover] < StrikeLimit
        /\ total[mover] >= Target
        /\ stage' = "over"
        /\ winner' = mover
        /\ UNCHANGED mover
     \/ /\ strikes[mover] < StrikeLimit
        /\ total[mover] < Target
        /\ stage' = "play"
        /\ mover' = Other(mover)
        /\ UNCHANGED winner
  /\ UNCHANGED <<total, strikes>>

\* The mover's client is closed under the turn: nobody wins.
Abort ==
  /\ stage = "play"
  /\ stage' = "over"
  /\ UNCHANGED <<mover, total, strikes, winner>>

Next == Turn \/ Judge \/ Abort

Spec == Init /\ [][Next]_vars
==============================================================================
