---------------------------- MODULE PlayerClient -----------------------------
(***************************************************************************)
(* The message path of data/player.go: one PlayerClient per player, each   *)
(* with a readingLoop that takes the messages of its WebSocketClient,      *)
(* looks at hasTurn and hands them on to the bounded channel the game or   *)
(* the lobby receives from.  The look and the hand-over are two steps.     *)
(***************************************************************************)
EXTENDS Naturals, Sequences

CONSTANTS Clients,      \* the players
          BufferLimit,  \* messageBufferLimit of the WebSocketClient below
          MessageLimit  \* messageLimit

ASSUME BufferAssumption == BufferLimit \in Nat \ {0}
ASSUME MessageAssumption == MessageLimit \in Nat \ {0}

VARIABLES consumed,  \* the channel Consume(): read off the socket, in order
          held,      \* what readingLoop carries after hasTurn.Load(): <<>> or <<msg>>
          hasTurn,   \* the atomic flag
          incoming,  \* the channel Receive and Receiving read from
          closing    \* the channel Closing() is closed

clientVars == <<consumed, held, hasTurn, incoming, closing>>

(***************************************************************************)
(* Mutants: what a plausible bug would make of the definition that is      *)
(* named in each comment.  Nothing uses them; a property is trusted only   *)
(* after it has been seen to fail with one of them in that place.          *)
(***************************************************************************)
MayPassAnyTurn(p, msg) == msg.variant # "sync"      \* MayPass

EnqueueInFront(queue, msg) == <<msg>> \o queue      \* Enqueue

SetTurnNeverLowers(p, isMyTurn) ==                  \* SetTurn
  hasTurn' = [hasTurn EXCEPT ![p] = @ \/ isMyTurn]

LeaveMessages == UNCHANGED incoming                 \* DrainMessages
-----------------------------------------------------------------------------
\* NewPlayerClient, then SetTurn(true) by createPlayer.
ClientInit ==
  /\ consumed = [p \in Clients |-> <<>>]
  /\ held = [p \in Clients |-> <<>>]
  /\ hasTurn = [p \in Clients |-> TRUE]
  /\ incoming = [p \in Clients |-> <<>>]
  /\ closing = [p \in Clients |-> FALSE]

\* The WebSocketClient's own loop has read a message and handed it on, which is
\* one step here; a full buffer drops it.  This is right for one connection: around
\* a reconnect two such loops hand on side by side (see WebSocketClient), and
\* what is said below of the order begins with the channel they fill.
Arrive(p, msg) ==
  /\ consumed' = IF Len(consumed[p]) < BufferLimit
                 THEN [consumed EXCEPT ![p] = Append(@, msg)] ELSE consumed
  /\ UNCHANGED <<held, hasTurn, incoming, closing>>

\* readingLoop takes a message.  A request for the state is answered on the
\* spot, whoever has the turn; any other is dropped unless the flag is set.
MayPass(p, msg) == msg.variant # "sync" /\ hasTurn[p]

Take(p) ==
  /\ held[p] = <<>>
  /\ consumed[p] # <<>>
  /\ consumed' = [consumed EXCEPT ![p] = Tail(@)]
  /\ held' = [held EXCEPT ![p] =
                IF MayPass(p, Head(consumed[p])) THEN <<Head(consumed[p])>> ELSE <<>>]
  /\ UNCHANGED <<hasTurn, incoming, closing>>

\* readingLoop hands the message over; a full channel drops it.
Enqueue(queue, msg) == Append(queue, msg)

Admit(p) ==
  /\ held[p] # <<>>
  /\ held' = [held EXCEPT ![p] = <<>>]
  /\ incoming' = IF Len(incoming[p]) < MessageLimit
                 THEN [incoming EXCEPT ![p] = Enqueue(@, Head(held[p]))] ELSE incoming
  /\ UNCHANGED <<consumed, hasTurn, closing>>

\* readingLoop sees Closing() and returns: nothing is taken any more.  What
\* is left in the buffer is as good as gone.
ReaderReturns(p) ==
  /\ closing[p]
  /\ held[p] = <<>>
  /\ consumed[p] # <<>>
  /\ consumed' = [consumed EXCEPT ![p] = <<>>]
  /\ UNCHANGED <<held, hasTurn, incoming, closing>>

\* A message for Receive, if the select takes this branch.
Received(p) ==
  /\ incoming[p] # <<>>
  /\ incoming' = [incoming EXCEPT ![p] = Tail(@)]

SetTurn(p, isMyTurn) == hasTurn' = [hasTurn EXCEPT ![p] = isMyTurn]

\* DrainMessages of every client.
DrainMessages == incoming' = [p \in Clients |-> <<>>]

\* How the lobby leaves the clients to the game.  DrainMessages empties what
\* Receive reads, but a message may still be with readingLoop or before it;
\* the flag is up where the deferred SetTurn(false) of waitForReady has not
\* come yet; and a client may be closed already.
HandedOver(returned) ==
  \A p \in Clients :
    /\ incoming[p] = <<>>
    /\ Len(held[p]) <= 1
    /\ Len(consumed[p]) <= BufferLimit
    /\ hasTurn[p] <=> ~returned[p]
==============================================================================
