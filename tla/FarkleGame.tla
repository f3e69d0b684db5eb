----------------------------- MODULE FarkleGame ------------------------------
(***************************************************************************)
(* The rules engine of one farkle game: gameLoop, turnLoop and             *)
(* diceSelection of logic/game.go, with the dice helpers they call.  The   *)
(* game runs on one goroutine, so a step is everything it does from one    *)
(* wait for a player's message, or one loop head, to the next.  Where the  *)
(* message comes from, and when the wait times out, is FarklePlay's        *)
(* subject; here a step message may arrive, the time may run out and the   *)
(* client may be closed whenever the game waits in diceSelection.          *)
(***************************************************************************)
EXTENDS Integers, FiniteSets, Scoring

CONSTANTS DiceID,   \* the dice of one player, at most six (lobby DiceSet)
          Faces,    \* the faces a roll may show: all six, fewer to bound TLC
          Target,   \* create.Target
          MaxTurn   \* bound: no re-roll once a turn holds more than this

ASSUME DiceAssumption ==
  /\ IsFiniteSet(DiceID)
  /\ Cardinality(DiceID) \in 1..6
ASSUME FacesAssumption == Faces \subseteq Face /\ Faces # {}
ASSUME TargetAssumption == Target \in Nat \ {0}
ASSUME MaxTurnAssumption == MaxTurn \in Nat

Player == 0..1
NoPlayer == 2
StrikeLimit == 2

VARIABLES phase,         \* where the game goroutine stands, see Phase
          current,       \* currentPlayerIdx
          dice,          \* the dice of every player
          scores,        \* PlayerState.Scores of every player
          timeouts,      \* game.timeouts
          hasExtraDice,  \* the flag of diceSelection
          winner,        \* whom the last CraftGameEnd named
          shown          \* the scores and dice the broadcasts last showed

vars == <<phase, current, dice, scores, timeouts, hasExtraDice, winner, shown>>

\* "turn" and "judge" are gameLoop before and after turnLoop, "roll" is the
\* head of turnLoop's loop, "select" is the Receive of diceSelection,
\* "closing" and "closed" are the end of Play.
Phase == {"turn", "roll", "select", "judge", "closing", "closed"}

Die == [value : Face, selected : BOOLEAN, playable : BOOLEAN]
Scores == [total : Nat, turn : Nat, selected : Nat]

TypeOK ==
  /\ phase \in Phase
  /\ current \in Player
  /\ dice \in [Player -> [DiceID -> Die]]
  /\ scores \in [Player -> Scores]
  /\ timeouts \in [Player -> 0..StrikeLimit]
  /\ hasExtraDice \in BOOLEAN
  /\ winner \in Player \cup {NoPlayer}
  /\ shown \in [scores : [Player -> Scores], dice : [DiceID -> Die]]
-----------------------------------------------------------------------------
(***************************************************************************)
(* Mutants: what a plausible bug would make of the definition that is      *)
(* named in each comment.  Nothing uses them; a property is trusted only   *)
(* after it has been seen to fail with one of them in that place.          *)
(***************************************************************************)
SamePlayer(p) == p % 2                              \* Other

DeselectDice(ds) ==                                 \* resetDice
  [d \in DiceID |-> [ds[d] EXCEPT !.selected = FALSE]]

MoveButKeepSelected(ds) ==                          \* moveSelectedToUnplayable
  [d \in DiceID |-> [ds[d] EXCEPT !.playable = @ /\ ~ds[d].selected]]

ScoreNotShown(p, score) == shown                    \* ShowScore

CanRollForFree == ~hasExtraDice                     \* CanScoreRoll

CanEndWithExtra == TRUE                             \* CanEndTurn

NoStrike(p) == timeouts                             \* Strike

HasMoreThanTarget(p) == scores[p].total > Target    \* HasTarget
-----------------------------------------------------------------------------
(***************************************************************************)
(* The dice helpers of game.go and countValues of scoring.go.              *)
(***************************************************************************)
countValues(ds, includeNotSelected) ==
  [v \in Face |-> Cardinality({d \in DiceID :
                    /\ ds[d].playable
                    /\ ds[d].selected \/ includeNotSelected
                    /\ ds[d].value = v})]

resetDice(ds) ==
  [d \in DiceID |-> [ds[d] EXCEPT !.selected = FALSE, !.playable = TRUE]]

\* face[d] is what the roller draws for d; only playable dice take it.
rollDice(ds, face) ==
  LET hasPlayableDice == \E d \in DiceID : ds[d].playable
      playable(d) == ds[d].playable \/ ~hasPlayableDice
  IN  [d \in DiceID |-> [ds[d] EXCEPT !.playable = playable(d),
                                      !.value = IF playable(d) THEN face[d] ELSE @]]

touchDice(ds, d, selected) == [ds EXCEPT ![d].selected = selected]

moveSelectedToUnplayable(ds) ==
  [d \in DiceID |-> [ds[d] EXCEPT !.playable = @ /\ ~ds[d].selected,
                                  !.selected = FALSE]]
-----------------------------------------------------------------------------
\* (currentPlayerIdx + 1) % len(game.state.Players).
Other(p) == (p + 1) % 2

NoScores == [total |-> 0, turn |-> 0, selected |-> 0]

NewDice == [d \in DiceID |-> [value |-> 1, selected |-> FALSE, playable |-> TRUE]]

\* broadcast(CraftUpdateScore(p, score)).
ShowScore(p, score) == [shown EXCEPT !.scores[p] = score]

\* NewFarkleGame, and Play up to its call of gameLoop: CraftGameBegin has
\* shown the whole state.  The index is random; the first turn is the next's.
Init ==
  /\ phase = "turn"
  /\ current \in Player
  /\ dice = [p \in Player |-> NewDice]
  /\ scores = [p \in Player |-> NoScores]
  /\ timeouts = [p \in Player |-> 0]
  /\ hasExtraDice = FALSE
  /\ winner = NoPlayer
  /\ shown = [scores |-> [p \in Player |-> NoScores], dice |-> NewDice]

\* The head of gameLoop's loop and the start of turnLoop.  CraftTurnBegin
\* carries no scores and no dice.
TurnBegin ==
  /\ phase = "turn"
  /\ phase' = "roll"
  /\ current' = Other(current)
  /\ scores' = [scores EXCEPT ![current'].turn = 0, ![current'].selected = 0]
  /\ dice' = [dice EXCEPT ![current'] = resetDice(@)]
  /\ UNCHANGED <<timeouts, hasExtraDice, winner, shown>>

\* One pass through turnLoop up to diceSelection: CraftDiceRoll shows the
\* dice, and a busted roll loses the turn's points.
RollDice(face) ==
  /\ phase = "roll"
  /\ LET rolled == rollDice(dice[current], face)
         lost == [scores EXCEPT ![current].turn = 0, ![current].selected = 0]
     IN  /\ dice' = [dice EXCEPT ![current] = rolled]
         /\ \/ /\ hasBusted(countValues(rolled, TRUE))
               /\ phase' = "judge"
               /\ scores' = lost
               /\ shown' = [ShowScore(current, lost[current]) EXCEPT !.dice = rolled]
               /\ UNCHANGED hasExtraDice
            \/ /\ ~hasBusted(countValues(rolled, TRUE))
               /\ phase' = "select"
               /\ shown' = [shown EXCEPT !.dice = rolled]
               /\ hasExtraDice' = FALSE
               /\ UNCHANGED scores
  /\ UNCHANGED <<current, timeouts, winner>>

\* VarDiceTouch.  For an unknown or unplayable die the only effect is an
\* error reply, so those touches are not steps.
DiceTouch(d, selected) ==
  /\ phase = "select"
  /\ dice[current][d].playable
  /\ LET touched == touchDice(dice[current], d, selected)
         result == scoreCounts(countValues(touched, FALSE))
     IN  /\ dice' = [dice EXCEPT ![current] = touched]
         /\ scores' = [scores EXCEPT ![current].selected =
                         IF result.extra THEN 0 ELSE result.score]
         /\ hasExtraDice' = result.extra
         /\ shown' = [ShowScore(current, scores'[current]) EXCEPT !.dice = touched]
  /\ UNCHANGED <<phase, current, timeouts, winner>>

\* VarScoreRoll: the selection is set aside and the rest rolled again.
CanScoreRoll == scores[current].selected # 0 /\ ~hasExtraDice

ScoreRoll ==
  /\ phase = "select"
  /\ CanScoreRoll
  /\ scores[current].turn + scores[current].selected <= MaxTurn
  /\ phase' = "roll"
  /\ scores' = [scores EXCEPT ![current].turn = @ + scores[current].selected,
                              ![current].selected = 0]
  /\ dice' = [dice EXCEPT ![current] = moveSelectedToUnplayable(@)]
  /\ shown' = ShowScore(current, scores'[current])
  /\ UNCHANGED <<current, timeouts, hasExtraDice, winner>>

\* VarEndTurn: the points of the turn and of the selection, which may be
\* empty, are banked.
CanEndTurn == ~hasExtraDice

EndTurn ==
  /\ phase = "select"
  /\ CanEndTurn
  /\ phase' = "judge"
  /\ LET earned == scores[current].turn + scores[current].selected
     IN  scores' = [scores EXCEPT ![current] =
                      [total |-> @.total + earned, turn |-> earned, selected |-> 0]]
  /\ dice' = [dice EXCEPT ![current] = moveSelectedToUnplayable(@)]
  /\ UNCHANGED <<current, timeouts, hasExtraDice, winner, shown>>

\* Receive returns ErrRecvTimeout: the points of the turn are lost.
Strike(p) == [timeouts EXCEPT ![p] = @ + 1]

TurnTimeout ==
  /\ phase = "select"
  /\ phase' = "judge"
  /\ scores' = [scores EXCEPT ![current].turn = 0, ![current].selected = 0]
  /\ timeouts' = Strike(current)
  /\ UNCHANGED <<current, dice, hasExtraDice, winner, shown>>

\* Receive returns ErrClientClosed: gameLoop gives up.
ClientClosed ==
  /\ phase = "select"
  /\ phase' = "closing"
  /\ UNCHANGED <<current, dice, scores, timeouts, hasExtraDice, winner, shown>>

\* gameLoop after turnLoop has returned without an error.
StruckOut(p) == timeouts[p] >= StrikeLimit

HasTarget(p) == scores[p].total >= Target

Judge ==
  /\ phase = "judge"
  /\ phase' = IF StruckOut(current) \/ HasTarget(current) THEN "closing" ELSE "turn"
  /\ winner' = CASE StruckOut(current) -> Other(current)
                 [] ~StruckOut(current) /\ HasTarget(current) -> current
                 [] OTHER -> winner
  /\ shown' = IF StruckOut(current) THEN shown ELSE ShowScore(current, scores[current])
  /\ UNCHANGED <<current, dice, scores, timeouts, hasExtraDice>>

\* The rest of Play: CraftTerminate, the pause, and CloseGame.
Close ==
  /\ phase = "closing"
  /\ phase' = "closed"
  /\ UNCHANGED <<current, dice, scores, timeouts, hasExtraDice, winner, shown>>

\* A closed game stays as it is.
Finished ==
  /\ phase = "closed"
  /\ UNCHANGED vars

Next ==
  \/ TurnBegin
  \/ \E face \in [DiceID -> Faces] : RollDice(face)
  \/ \E d \in DiceID, selected \in BOOLEAN : DiceTouch(d, selected)
  \/ ScoreRoll
  \/ EndTurn
  \/ TurnTimeout
  \/ ClientClosed
  \/ Judge
  \/ Close
  \/ Finished

Spec == Init /\ [][Next]_vars
-----------------------------------------------------------------------------
(***************************************************************************)
(* Properties.                                                             *)
(***************************************************************************)
Selection(p) == scoreCounts(countValues(dice[p], FALSE))

\* The points and the extra-dice flag, cached by the last touch, are always
\* those of the dice that are selected now.
SelectionScored ==
  phase = "select" =>
    /\ hasExtraDice = Selection(current).extra
    /\ scores[current].selected =
         IF Selection(current).extra THEN 0 ELSE Selection(current).score

\* A player whom the game asks for a selection can always make one that
\* ScoreRoll accepts: hasBusted has not overlooked a dead roll.
SelectionPossible ==
  phase = "select" =>
    \E chosen \in SUBSET {d \in DiceID : dice[current][d].playable} :
      LET touched == [d \in DiceID |-> [dice[current][d] EXCEPT !.selected = d \in chosen]]
          result == scoreCounts(countValues(touched, FALSE))
      IN  result.score > 0 /\ ~result.extra

\* Dice leave the turn only by scoring: whenever some die of the mover is
\* set aside, the turn holds points.  A selected die is never set aside.
SetAsideEarned ==
  /\ \A p \in Player, d \in DiceID : dice[p][d].selected => dice[p][d].playable
  /\ phase \in {"roll", "select"} /\ (\E d \in DiceID : ~dice[current][d].playable)
       => scores[current].turn > 0

\* The game goes on exactly as long as it is undecided, and it announces a
\* winner who has the points, or whose opponent ran out of time twice.
LiveGameUndecided ==
  /\ phase \in {"turn", "roll", "select"} =>
       /\ winner = NoPlayer
       /\ \A p \in Player : scores[p].total < Target /\ timeouts[p] < StrikeLimit
  /\ winner # NoPlayer =>
       /\ scores[Other(winner)].total < Target
       /\ \/ scores[winner].total >= Target
          \/ timeouts[Other(winner)] = StrikeLimit

\* While the game waits, the players have been sent the dice they choose from and
\* the banked totals; once the mover has touched a die, the turn's points too.
\* (From TurnBegin to that touch they still see the previous turn's points.)
\* This is about what is broadcast, and in which order.  A broadcast that Send
\* drops for one player with ErrMessageLimit is the matter of StateSync.
ShownInSync ==
  phase = "select" =>
    /\ shown.dice = dice[current]
    /\ \A p \in Player : shown.scores[p].total = scores[p].total
    /\ (\E d \in DiceID : dice[current][d].selected) => shown.scores[current] = scores[current]

\* Rolling again always costs dice and always adds points, so a turn cannot
\* roll for free; what it may win back is all dice at once.
RollAgainCostsStep ==
  phase = "select" /\ phase' = "roll" =>
    /\ scores'[current].turn > scores[current].turn
    /\ {d \in DiceID : dice'[current][d].playable}
         \subseteq {d \in DiceID : dice[current][d].playable}
    /\ \E d \in DiceID : dice[current][d].playable /\ ~dice'[current][d].playable

RollAgainCosts == [][RollAgainCostsStep]_vars

\* A total changes only by banking, and what is banked is the turn's points
\* plus the value of the dice that are selected, none of them extra.
BankedPointsBackedStep ==
  \A p \in Player : scores'[p].total # scores[p].total =>
    /\ p = current /\ phase = "select" /\ phase' = "judge"
    /\ ~Selection(p).extra
    /\ scores'[p].total = scores[p].total + scores[p].turn + Selection(p).score

BankedPointsBacked == [][BankedPointsBackedStep]_vars

\* The abstract match: between Judge and TurnBegin the mover is already the
\* other player.
matchMover == IF phase = "turn" THEN Other(current) ELSE current

matchTotal == [p \in Player |-> scores[p].total]

matchStage == IF phase \in {"turn", "roll", "select"} THEN "play"
              ELSE IF phase = "judge" THEN "judge" ELSE "over"

Match == INSTANCE FarkleMatch WITH mover <- matchMover, total <- matchTotal,
                                   strikes <- timeouts, stage <- matchStage

\* Every game is a farkle match.
MatchSpec == Match!Spec
==============================================================================
