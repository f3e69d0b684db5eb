----------------------------- MODULE LossyMail -------------------------------
(***************************************************************************)
(* What the queue library promises, without connections and channels: each *)
(* publisher posts one message at a time and may lose it; what is not lost *)
(* enters one line, in the order of posting, and is received in the order  *)
(* of the line.  The receiver may lose what is next in line for him.       *)
(* Nothing else appears, is exchanged or comes back.  Queue implements     *)
(* this specification.                                                     *)
(***************************************************************************)
EXTENDS Naturals, Sequences

CONSTANTS Publisher,
          MaxSent     \* bound: messages per publisher

VARIABLES sent,     \* the number of each publisher's last message
          hand,     \* the message each publisher is about to send, if any
          way,      \* the line
          received

vars == <<sent, hand, way, received>>

Init ==
  /\ sent = [p \in Publisher |-> 0]
  /\ hand = [p \in Publisher |-> <<>>]
  /\ way = <<>>
  /\ received = <<>>

Post(p) ==
  /\ hand[p] = <<>> /\ sent[p] < MaxSent
  /\ sent' = [sent EXCEPT ![p] = @ + 1]
  /\ hand' = [hand EXCEPT ![p] = <<<<p, sent'[p]>>>>]
  /\ UNCHANGED <<way, received>>

Leave(p) == hand[p] # <<>> /\ hand' = [hand EXCEPT ![p] = <<>>]

Enter(p) ==
  /\ Leave(p)
  /\ way' = way \o hand[p]
  /\ UNCHANGED <<sent, received>>

Lose(p) ==
  /\ Leave(p)
  /\ UNCHANGED <<sent, way, received>>

Receive ==
  /\ way # <<>>
  /\ received' = Append(received, Head(way))
  /\ way' = Tail(way)
  /\ UNCHANGED <<sent, hand>>

\* The first n in line are lost.
Drop(n) ==
  /\ way' = SubSeq(way, n + 1, Len(way))
  /\ UNCHANGED <<sent, hand, received>>

Next ==
  \/ \E p \in Publisher : Post(p) \/ Enter(p) \/ Lose(p)
  \/ Receive
  \/ \E n \in 1..Len(way) : Drop(n)

Spec == Init /\ [][Next]_vars
==============================================================================
