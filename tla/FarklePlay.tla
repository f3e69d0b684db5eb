----------------------------- MODULE FarklePlay ------------------------------
(***************************************************************************)
(* A game between its two players: the rules engine of FarkleGame on its   *)
(* goroutine, the readingLoop of either PlayerClient on its own, the clock *)
(* of diceSelection's deadline, and what the lobby leaves running when it  *)
(* calls Play: waitForReady's deferred SetTurn(false), which comes after   *)
(* close(connected) and so may land at any later time.                     *)
(***************************************************************************)
EXTENDS FarkleGame, PlayerClient

CONSTANTS Requests,  \* the messages players send
          MaxSent    \* bound: messages the two players send until all are gone

ASSUME ClientsAssumption == Clients = Player
ASSUME MaxSentAssumption == MaxSent \in Nat
ASSUME RequestsAssumption ==
  \A request \in Requests :
    request.variant = "touch" => request.die \in DiceID /\ request.selected \in BOOLEAN

VARIABLES lobbyOver,    \* waitForReady of the player has returned
          deadline,     \* PickDeadline is "ahead" or "passed"
          timed,        \* the Receive of the wait was given a timer
          sent,         \* messages the player has sent: they are numbered, see CountAnew
          lastHandled,  \* number of the last message the game took from a player
          late          \* messages admitted since the turn flag was last cleared

playVars == <<lobbyOver, deadline, timed, sent, lastHandled, late>>
allVars == <<vars, clientVars, playVars>>

\* The messages the game tells apart; "other" stands for every variant that
\* diceSelection does not know.
Touch(d, selected) == [variant |-> "touch", die |-> d, selected |-> selected]
Plain(variant) == [variant |-> variant]

\* A request on its way, numbered by its sender.
Numbered(request, no) == [variant |-> request.variant, request |-> request, no |-> no]

PlayTypeOK ==
  /\ TypeOK
  /\ lobbyOver \in [Player -> BOOLEAN]
  /\ deadline \in {"ahead", "passed"}
  /\ timed \in BOOLEAN
  /\ sent \in [Player -> 0..MaxSent]
  /\ lastHandled \in [Player -> 0..MaxSent]
  /\ late \in [Player -> Nat]
  /\ hasTurn \in [Player -> BOOLEAN]
  /\ closing \in [Player -> BOOLEAN]
  /\ \A p \in Player : Len(consumed[p]) <= BufferLimit /\ Len(incoming[p]) <= MessageLimit

Messages == {Numbered(request, no) : request \in Requests, no \in 1..MaxSent}

\* Up to n messages in a row.
UpTo(n) == UNION {[1..length -> Messages] : length \in 0..n}

\* The messages that were sent before the game and have survived are numbered
\* from 1; whatever the lobby hands over is a beginning of the game.
PlayInit ==
  /\ Init
  /\ incoming = [p \in Player |-> <<>>]
  /\ held \in [Player -> UpTo(1)]
  /\ consumed \in [Player -> UpTo(BufferLimit)]
  /\ hasTurn \in [Player -> BOOLEAN]
  /\ closing \in [Player -> BOOLEAN]
  /\ lobbyOver \in [Player -> BOOLEAN]
  /\ HandedOver(lobbyOver)
  /\ sent = [p \in Player |-> Len(held[p] \o consumed[p])]
  /\ sent[0] + sent[1] <= MaxSent
  /\ \A p \in Player : \A i \in 1..sent[p] : (held[p] \o consumed[p])[i].no = i
  /\ deadline = "passed"
  /\ timed = FALSE
  /\ lastHandled = [p \in Player |-> 0]
  /\ late = [p \in Player |-> 0]
-----------------------------------------------------------------------------
(***************************************************************************)
(* Steps of the players, the reading loops, the lobby and the clock.       *)
(***************************************************************************)
PlayerSends(p) ==
  /\ sent[0] + sent[1] < MaxSent
  /\ phase # "closed"
  /\ sent' = [sent EXCEPT ![p] = @ + 1]
  /\ \E request \in Requests : Arrive(p, Numbered(request, sent'[p]))
  /\ UNCHANGED <<vars, lobbyOver, deadline, timed, lastHandled, late>>

\* Bookkeeping: when no message is on its way the numbers start over, so that
\* the bound on them is none on how long a game goes on.
CountAnew ==
  /\ \E p \in Player : sent[p] # 0
  /\ \A p \in Player : consumed[p] = <<>> /\ held[p] = <<>> /\ incoming[p] = <<>>
  /\ sent' = [p \in Player |-> 0]
  /\ lastHandled' = [p \in Player |-> 0]
  /\ UNCHANGED <<vars, clientVars, lobbyOver, deadline, timed, late>>

ReaderTakes(p) ==
  /\ Take(p)
  /\ UNCHANGED <<vars, playVars>>

ReaderAdmits(p) ==
  /\ Admit(p)
  /\ late' = [late EXCEPT ![p] = IF hasTurn[p] THEN @ ELSE @ + 1]
  /\ UNCHANGED <<vars, lobbyOver, deadline, timed, sent, lastHandled>>

ReaderEnds(p) ==
  /\ ReaderReturns(p)
  /\ UNCHANGED <<vars, playVars>>

\* SetTurn(p, isMyTurn) by the game or the lobby; late starts over when the
\* flag is raised.
TurnFlag(p, isMyTurn) ==
  /\ SetTurn(p, isMyTurn)
  /\ late' = [late EXCEPT ![p] = IF isMyTurn THEN 0 ELSE @]

\* The deferred SetTurn(false) of waitForReady.
LobbyReturns(p) ==
  /\ ~lobbyOver[p]
  /\ lobbyOver' = [lobbyOver EXCEPT ![p] = TRUE]
  /\ TurnFlag(p, FALSE)
  /\ UNCHANGED <<vars, consumed, held, incoming, closing, deadline, timed, sent, lastHandled>>

DeadlinePasses ==
  /\ phase = "select"
  /\ deadline = "ahead"
  /\ deadline' = "passed"
  /\ UNCHANGED <<vars, clientVars, lobbyOver, timed, sent, lastHandled, late>>

\* manager.Close while the game goes on.
ServerCloses ==
  /\ \E p \in Player : ~closing[p]
  /\ closing' = [p \in Player |-> TRUE]
  /\ UNCHANGED <<vars, consumed, held, hasTurn, incoming, playVars>>
-----------------------------------------------------------------------------
(***************************************************************************)
(* Mutants: what a plausible bug would make of the definition that is      *)
(* named in each comment.  Nothing uses them; a property is trusted only   *)
(* after it has been seen to fail with one of them in that place.          *)
(***************************************************************************)
FlagStaysUp == UNCHANGED <<hasTurn, late>>          \* TurnGoesOn

FlagGoesDown == TurnFlag(current, FALSE)            \* TurnGoesOn

TimerUnseen == timed /\ deadline = "passed" /\ incoming[current] # <<>>  \* TimerFires
-----------------------------------------------------------------------------
(***************************************************************************)
(* Steps of the game.  turnLoop raises the flag first and lowers it, by a  *)
(* defer, however it returns.                                              *)
(***************************************************************************)
PlayTurnBegin ==
  /\ TurnBegin
  /\ TurnFlag(current', TRUE)
  /\ UNCHANGED <<consumed, held, incoming, closing, lobbyOver, deadline, timed, sent, lastHandled>>

\* turnLoop goes on or returns.
TurnGoesOn == IF phase' \in {"roll", "select"} THEN UNCHANGED <<hasTurn, late>>
                                               ELSE TurnFlag(current, FALSE)

\* The roll sets the deadline a minute ahead; the first Receive is timed.
PlayRollDice ==
  /\ \E face \in [DiceID -> Faces] : RollDice(face)
  /\ TurnGoesOn
  /\ deadline' = "ahead"
  /\ timed' = TRUE
  /\ UNCHANGED <<consumed, held, incoming, closing, lobbyOver, sent, lastHandled>>

\* diceSelection answers the request with an error and asks again.  (One whose
\* data cannot be read is rejected too, with "other"; one without data is not
\* modelled: UnmarshalData does not expect it.)
Rejected(request) ==
  /\ CASE request.variant = "touch" -> ~dice[current][request.die].playable
       [] request.variant = "roll" -> ~CanScoreRoll
       [] request.variant = "end" -> ~CanEndTurn
       [] OTHER -> TRUE
  /\ UNCHANGED vars

Accepted(request) ==
  \/ request.variant = "touch" /\ DiceTouch(request.die, request.selected)
  \/ request.variant = "roll" /\ ScoreRoll
  \/ request.variant = "end" /\ EndTurn

\* Receive returns a message.  The next Receive of the same selection gets
\* what is left until the deadline, and no timer at all when that is less
\* than nothing.
PlayHandle ==
  /\ phase = "select"
  /\ Received(current)
  /\ LET msg == Head(incoming[current])
     IN  /\ Rejected(msg.request) \/ Accepted(msg.request)
         /\ lastHandled' = [lastHandled EXCEPT ![current] = msg.no]
  /\ TurnGoesOn
  /\ timed' = (deadline = "ahead")
  /\ UNCHANGED <<consumed, held, closing, lobbyOver, deadline, sent>>

\* Receive's timer fires.
TimerFires == timed /\ deadline = "passed"

PlayTimeout ==
  /\ TimerFires
  /\ TurnTimeout
  /\ TurnGoesOn
  /\ UNCHANGED <<consumed, held, incoming, closing, lobbyOver, deadline, timed, sent, lastHandled>>

PlayClientClosed ==
  /\ closing[current]
  /\ ClientClosed
  /\ TurnGoesOn
  /\ UNCHANGED <<consumed, held, incoming, closing, lobbyOver, deadline, timed, sent, lastHandled>>

PlayJudge ==
  /\ Judge
  /\ UNCHANGED <<clientVars, playVars>>

\* CloseGame closes both clients.
PlayClose ==
  /\ Close
  /\ closing' = [p \in Player |-> TRUE]
  /\ UNCHANGED <<consumed, held, hasTurn, incoming, playVars>>

PlayFinished ==
  /\ Finished
  /\ UNCHANGED <<clientVars, playVars>>

GameStep ==
  \/ PlayTurnBegin
  \/ PlayRollDice
  \/ PlayHandle
  \/ PlayTimeout
  \/ PlayClientClosed
  \/ PlayJudge
  \/ PlayClose

ReaderStep(p) == ReaderTakes(p) \/ ReaderAdmits(p) \/ ReaderEnds(p)

PlayNext ==
  \/ GameStep
  \/ \E p \in Player : PlayerSends(p) \/ ReaderStep(p) \/ LobbyReturns(p)
  \/ CountAnew
  \/ DeadlinePasses
  \/ ServerCloses
  \/ PlayFinished

PlaySpec == PlayInit /\ [][PlayNext]_allVars

\* Every goroutine that can run does, time goes by, and dice that can show a
\* scoring roll do so now and then.
PlayFairness ==
  /\ WF_allVars(GameStep)
  /\ WF_allVars(DeadlinePasses)
  /\ \A p \in Player : WF_allVars(ReaderStep(p)) /\ WF_allVars(LobbyReturns(p))
  /\ SF_allVars(PlayRollDice /\ phase' = "select")

FairPlay == PlaySpec /\ PlayFairness
-----------------------------------------------------------------------------
(***************************************************************************)
(* Properties.                                                             *)
(***************************************************************************)
\* What a player has sent over a connection reaches the game in the order of
\* sending, and no message twice: the last one handled and all that are on the
\* way, from the game back to the socket, carry increasing numbers.
MessagesInOrder ==
  \A p \in Player :
    LET onTheWay == incoming[p] \o held[p] \o consumed[p]
    IN  /\ \A i \in DOMAIN onTheWay : onTheWay[i].no \in (lastHandled[p] + 1) .. sent[p]
        /\ \A i, j \in DOMAIN onTheWay : i < j => onTheWay[i].no < onTheWay[j].no

\* Look and hand-over are two steps, so a message may still be admitted after
\* the turn (or the lobby) is over.  It is never more than one: this is all
\* that can be waiting in a turn beyond what its player sent in time.
AtMostOneLateAdmission == \A p \in Player : late[p] + Len(held[p]) <= 1 \/ hasTurn[p]

\* Only the player who moves can be heard, with the one exception of a lobby
\* that is not over.
OnlyMoverIsHeard ==
  \A p \in Player : hasTurn[p] => ~lobbyOver[p] \/ (phase \in {"roll", "select"} /\ p = current)

\* The flag of the mover stays up for the whole turn, unless waitForReady's
\* late SetTurn(false) takes it away; that deafens one turn of a player, not
\* the next.
TurnLostOnlyToLobby ==
  [][hasTurn[current] /\ ~hasTurn'[current] /\ phase \in {"roll", "select"}
       => \/ phase' \notin {"roll", "select"}
          \/ lobbyOver'[current] # lobbyOver[current]]_allVars

\* A wait that has a timer comes to an end, or loses the timer to a request
\* that was handled after the deadline.  (Such a wait ends by a request or by
\* the closing of the client, or not at all.)
TimedWaitEnds == phase = "select" /\ timed ~> phase # "select" \/ ~timed

\* A request that leads nowhere: the turn's dice are rolled again, which may yet
\* lose its points, or the turn ends with no points to bank.
LeadsNowhere ==
  /\ phase = "select" /\ lastHandled'[current] > lastHandled[current]
  /\ \/ phase' = "roll"
     \/ phase' = "judge" /\ scores'[current].total = scores[current].total

\* If no wait loses its timer the game is over in the end, unless the players go
\* on for ever with requests that lead nowhere: a turn that is ended with nothing
\* to bank is no strike.
GameEnds ==
  [](phase = "select" => timed) => <>(phase = "closed") \/ []<><<LeadsNowhere>>_allVars
==============================================================================
