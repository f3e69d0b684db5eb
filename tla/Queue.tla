-------------------------------- MODULE Queue --------------------------------
(***************************************************************************)
(* The queue library, common/queue: a pool of connections that reconnect   *)
(* by themselves, each with a number of shared channels, and the loops of  *)
(* publishers and of a consumer that pick channels, use them and pick      *)
(* others when they fail.  The broker and the AMQP library are external:   *)
(* one queue, and what the code can observe of them.                       *)
(*                                                                         *)
(* Before the AMQP library closes a channel or a connection it tells the   *)
(* listeners that NotifyClose has registered, and waits for each of them.  *)
(* Nobody receives from Channel.closing, for closeListener of a channel is *)
(* never started, nor from Connection.closing during setup: a channel may  *)
(* be "stuck" in its shutdown, and every call on it with it, and a setup   *)
(* may be "hung" with its lock held.                                       *)
(***************************************************************************)
EXTENDS Naturals, Sequences, FiniteSets

CONSTANTS Conn,         \* the connections of the pool
          SlotCount,    \* channelCount
          Publisher,
          Consumer,     \* the one consumer of the queue
          MaxFaults,    \* bound: connections and channels that break, setups that fail
          MaxSent       \* bound: messages per publisher

ASSUME NamesAssumption == Consumer \notin Publisher
ASSUME BoundsAssumption == SlotCount \in Nat \ {0} /\ MaxFaults \in Nat /\ MaxSent \in Nat

Slot == 1..SlotCount
Gen == 1..(MaxFaults + 1)
Loop == Publisher \cup {Consumer}
Message == Publisher \X (1..MaxSent)

\* A Channel object, named by its connection, the generation of that and its slot.
Chan == Conn \X Gen \X Slot
NoChan == <<>>

NoConn == "none"

VARIABLES inner,     \* the AMQP connection in each Connection and its generation
          setup,     \* where closeListener stands, see SetupState
          slots,     \* Connection.channels: the generation of the channel in each slot
          chan,      \* the state of every channel, see ChanState
          loop,      \* where each loop stands, its connection or channel, and the message in its hands
          closed,    \* the loops whose closed channel is closed
          sent,      \* messages each publisher has been given
          queue,     \* the broker's queue
          inbox,     \* deliveries the library holds for the consumer
          received,  \* history: messages that Consume has handed out
          faults,    \* faults so far
          lost       \* history: lost messages and the publisher's channel that failed

connVars == <<inner, setup, slots, chan, faults>>
mailVars == <<sent, queue, inbox, received, lost>>
vars == <<connVars, loop, closed, mailVars>>

\* The peer of a "dying" connection is gone, which the library has not noticed.
InnerState == {"open", "dying", "closed"}

\* In "dial" and "channels" the lock is held; "hung" holds it for ever.
SetupState == {"idle", "dial", "channels", "hung"}

ChanState == {"none", "open", "closed", "stuck"}

\* "ready" has found a connection and "declare" picked a channel; "wait" is the
\* select of both loops, "publish" and "hand" have a message; "blocked" waits for
\* what a hung connection never gives, its lock or an answer.
LoopState == {"pick", "ready", "declare", "wait", "publish", "hand", "blocked", "ended"}

TypeOK ==
  /\ inner \in [Conn -> [gen : Gen, state : InnerState]]
  /\ setup \in [Conn -> SetupState]
  /\ slots \in [Conn -> [Slot -> Gen]]
  /\ chan \in [Chan -> ChanState]
  /\ \A l \in Loop : /\ loop[l].at \in LoopState
                     /\ loop[l].conn \in Conn \cup {NoConn}
                     /\ loop[l].ch \in Chan \cup {NoChan}
                     /\ Len(loop[l].hand) <= 1
  /\ closed \subseteq Loop
  /\ sent \in [Publisher -> 0..MaxSent]
  /\ faults \in 0..MaxFaults
  /\ lost \subseteq [msg : Message, ch : Chan \cup {NoChan}]

(***************************************************************************)
(* Mutants: what a plausible bug would make of the definition that is      *)
(* named in each comment.  Nothing uses them; a property is trusted only   *)
(* after it has been seen to fail with one of them in that place.          *)
(***************************************************************************)
DeclaredBefore(l) == "wait"                                       \* AfterPick

LeavesConnection(c) == inner                                      \* CloseInner

EndsWhenDrained(l) == l \in closed /\ (l # Consumer => sent[l] = MaxSent)  \* IsClosed


GivesUp == "returned"                                              \* AfterFailedSetup

AckedByHand(s) == received \o s                                   \* Unacked
-----------------------------------------------------------------------------
\* NewPool, newPublisher, newConsumer.
Init ==
  /\ inner = [c \in Conn |-> [gen |-> 1, state |-> "open"]]
  /\ setup = [c \in Conn |-> "idle"]
  /\ slots = [c \in Conn |-> [s \in Slot |-> 1]]
  /\ chan = [ch \in Chan |-> IF ch[2] = 1 THEN "open" ELSE "none"]
  /\ loop = [l \in Loop |-> [at |-> "pick", conn |-> NoConn, ch |-> NoChan, hand |-> <<>>]]
  /\ closed = {}
  /\ sent = [p \in Publisher |-> 0]
  /\ queue = <<>> /\ inbox = <<>> /\ received = <<>>
  /\ faults = 0
  /\ lost = {}

\* A call on a channel that waits for the broker succeeds, or it fails; on a
\* dying connection it waits, and on a stuck channel it does so for ever.
Alive(ch) ==
  /\ chan[ch] = "open"
  /\ inner[ch[1]] = [gen |-> ch[2], state |-> "open"]
Fails(ch) == chan[ch] = "closed"

\* isReady; its lock is held by setup.
Ready(c) == setup[c] = "idle" /\ inner[c].state # "closed"

\* The open channels of a connection go to a state.
ChannelsGo(c, state) ==
  [ch \in Chan |-> IF ch[1] = c /\ ch[2] = inner[c].gen /\ chan[ch] = "open" THEN state ELSE chan[ch]]
-----------------------------------------------------------------------------
(***************************************************************************)
(* Connection: what happens to it, and closeListener with setup.           *)
(***************************************************************************)
Fault == faults < MaxFaults /\ faults' = faults + 1

Break(c) ==
  /\ Fault
  /\ inner[c].state = "open"
  /\ inner' = [inner EXCEPT ![c].state = "dying"]
  /\ UNCHANGED <<setup, slots, chan, loop, closed, mailVars>>

\* The library has noticed, and told closeListener; then it closes the channels.
Notice(c) ==
  /\ inner[c].state = "dying" /\ setup[c] = "idle"
  /\ inner' = [inner EXCEPT ![c].state = "closed"]
  /\ \E state \in {"closed", "stuck"} : chan' = ChannelsGo(c, state)
  /\ UNCHANGED <<faults, setup, slots, loop, closed, mailVars>>

\* The broker closes one channel.  Nothing opens it again.
BreakChannel(ch) ==
  /\ Fault
  /\ Alive(ch)
  /\ \E state \in {"closed", "stuck"} : chan' = [chan EXCEPT ![ch] = state]
  /\ UNCHANGED <<inner, setup, slots, loop, closed, mailVars>>

SetupBegins(c) ==
  /\ setup[c] = "idle" /\ inner[c].state = "closed"
  /\ setup' = [setup EXCEPT ![c] = "dial"]
  /\ UNCHANGED <<faults, inner, slots, chan, loop, closed, mailVars>>

\* closeListener tries again: the closing channel it listens to is closed.
AfterFailedSetup == "idle"

DialFails(c) ==
  /\ setup[c] = "dial"
  /\ setup' = [setup EXCEPT ![c] = AfterFailedSetup]
  /\ UNCHANGED <<faults, inner, slots, chan, loop, closed, mailVars>>

Dial(c) ==
  /\ setup[c] = "dial"
  /\ inner' = [inner EXCEPT ![c] = [gen |-> @.gen + 1, state |-> "open"]]
  /\ setup' = [setup EXCEPT ![c] = "channels"]
  /\ UNCHANGED <<faults, slots, chan, loop, closed, mailVars>>

NewChannel(c) ==
  LET gen == inner[c].gen
      s == 1 + Cardinality({r \in Slot : slots[c][r] = gen})
  IN /\ setup[c] = "channels" /\ inner[c].state = "open"
     /\ slots' = [slots EXCEPT ![c][s] = gen]
     /\ chan' = [chan EXCEPT ![<<c, gen, s>>] = "open"]
     /\ setup' = [setup EXCEPT ![c] = IF s = SlotCount THEN "idle" ELSE @]
     /\ UNCHANGED <<faults, inner, loop, closed, mailVars>>

CloseInner(c) == [inner EXCEPT ![c].state = "closed"]

\* The new connection is closed again, in order and with its channels.
NewChannelFails(c) ==
  /\ setup[c] = "channels"
  /\ IF inner[c].state = "dying" THEN UNCHANGED faults ELSE Fault
  /\ inner' = CloseInner(c)
  /\ chan' = ChannelsGo(c, "closed")
  /\ setup' = [setup EXCEPT ![c] = AfterFailedSetup]
  /\ UNCHANGED <<slots, loop, closed, mailVars>>

\* The connection dies under a call of setup: the library waits for someone to
\* listen, and the listener for an answer.
SetupHangs(c) ==
  /\ setup[c] = "channels" /\ inner[c].state = "dying"
  /\ setup' = [setup EXCEPT ![c] = "hung"]
  /\ UNCHANGED <<faults, inner, slots, chan, loop, closed, mailVars>>
-----------------------------------------------------------------------------
(***************************************************************************)
(* The part that the loops of Publisher and Consumer share.                *)
(***************************************************************************)
Goes(l, at, hand) == loop' = [loop EXCEPT ![l] = [@ EXCEPT !.at = at, !.hand = hand]]

\* The loop sees that its owner has called Close.
IsClosed(l) == l \in closed

LastMsg(l) == <<>>

\* listen or keepPublishing returns an error.
Restart(l) ==
  loop' = [loop EXCEPT ![l] = [at |-> IF IsClosed(l) THEN "ended" ELSE "pick",
                               conn |-> NoConn, ch |-> NoChan, hand |-> LastMsg(l)]]

\* Pool.connection: its cursor is shared by all, so any connection that isReady
\* may be next.
FindConnection(l) ==
  /\ loop[l].at = "pick"
  /\ \E c \in Conn :
       /\ Ready(c)
       /\ loop' = [loop EXCEPT ![l] = [@ EXCEPT !.at = "ready", !.conn = c]]
  /\ UNCHANGED <<connVars, closed, mailVars>>

\* isReady waits for a lock that is never given back.
PickBlocks(l) ==
  /\ loop[l].at = "pick"
  /\ \E c \in Conn : setup[c] = "hung"
  /\ Goes(l, "blocked", loop[l].hand)
  /\ UNCHANGED <<connVars, closed, mailVars>>

AfterPick(l) == "declare"

\* Connection.channel reads a slot without the lock: since isReady the connection
\* may have died, and a setup may be filling the slots for the next one.
Pick(l) ==
  /\ loop[l].at = "ready"
  /\ LET c == loop[l].conn
     IN \E s \in Slot :
          loop' = [loop EXCEPT ![l] = [@ EXCEPT !.at = AfterPick(l), !.conn = NoConn,
                                                !.ch = <<c, slots[c][s], s>>]]
  /\ UNCHANGED <<connVars, closed, mailVars>>

\* A channel made by a setup that hangs, and so not closed by the library.
Unanswered(ch) == chan[ch] = "open" /\ setup[ch[1]] = "hung"

\* declareQueue, and Consume of the consumer.  On a connection whose setup hangs
\* the call fails if it begins after the library has noticed, else it waits.
Declare(l) ==
  /\ loop[l].at = "declare"
  /\ \/ Alive(loop[l].ch) /\ Goes(l, IF loop[l].hand = <<>> THEN "wait" ELSE "publish", loop[l].hand)
     \/ (Fails(loop[l].ch) \/ Unanswered(loop[l].ch)) /\ Restart(l)
     \/ Unanswered(loop[l].ch) /\ Goes(l, "blocked", loop[l].hand)
  /\ UNCHANGED <<connVars, closed, mailVars>>

Close(l) ==
  /\ l \notin closed
  /\ closed' = closed \cup {l}
  /\ UNCHANGED <<connVars, loop, mailVars>>
-----------------------------------------------------------------------------
(***************************************************************************)
(* Publisher.                                                              *)
(***************************************************************************)
\* PublishJSON hands the message to the loop, and returns: what follows is not
\* reported to its caller.
Publish(p) ==
  /\ loop[p].at = "wait" /\ p \notin closed
  /\ sent[p] < MaxSent
  /\ sent' = [sent EXCEPT ![p] = @ + 1]
  /\ Goes(p, "publish", <<<<p, sent'[p]>>>>)
  /\ UNCHANGED <<connVars, closed, queue, inbox, received, lost>>

Lose(s, ch) == lost' = lost \cup {[msg |-> s[i], ch |-> ch] : i \in DOMAIN s}

\* There are no confirms: what is sent over a dying connection is just gone.
KeepPublishing(p) ==
  LET ch == loop[p].ch
  IN /\ loop[p].at = "publish"
     /\ \/ /\ Alive(ch)
           /\ Goes(p, "wait", LastMsg(p))
           /\ queue' = queue \o loop[p].hand
           /\ UNCHANGED lost
        \/ /\ chan[ch] = "open" /\ ~Alive(ch)
           /\ Goes(p, "wait", LastMsg(p))
           /\ Lose(loop[p].hand, NoChan)
           /\ UNCHANGED queue
        \/ /\ Fails(ch)
           /\ Restart(p)
           /\ Lose(loop[p].hand, ch)
           /\ UNCHANGED queue
     /\ UNCHANGED <<connVars, closed, sent, inbox, received>>

PublisherEnds(p) ==
  /\ loop[p].at = "wait" /\ IsClosed(p)
  /\ Goes(p, "ended", <<>>)
  /\ UNCHANGED <<connVars, closed, mailVars>>
-----------------------------------------------------------------------------
(***************************************************************************)
(* Consumer, with automatic acknowledgement.                               *)
(***************************************************************************)
Push ==
  /\ loop[Consumer].at \in {"wait", "hand"} /\ Alive(loop[Consumer].ch)
  /\ queue # <<>>
  /\ inbox' = Append(inbox, Head(queue))
  /\ queue' = Tail(queue)
  /\ UNCHANGED <<connVars, loop, closed, sent, received, lost>>

Listen ==
  /\ loop[Consumer].at = "wait"
  /\ inbox # <<>>
  /\ Goes(Consumer, "hand", <<Head(inbox)>>)
  /\ inbox' = Tail(inbox)
  /\ UNCHANGED <<connVars, closed, sent, queue, received, lost>>

\* cons.msgs <- msg.  After Close nobody receives.
HandOut ==
  /\ loop[Consumer].at = "hand" /\ Consumer \notin closed
  /\ received' = received \o loop[Consumer].hand
  /\ Goes(Consumer, "wait", <<>>)
  /\ UNCHANGED <<connVars, closed, sent, queue, inbox, lost>>

\* What the broker gives to another consumer when this one is gone.
Unacked(s) == <<>>

DropInbox ==
  /\ Lose(inbox, NoChan)
  /\ inbox' = <<>>
  /\ queue' = Unacked(inbox) \o queue

\* The library closes the deliveries of a closed channel.
ListenFails ==
  /\ loop[Consumer].at = "wait" /\ Fails(loop[Consumer].ch)
  /\ Restart(Consumer)
  /\ DropInbox
  /\ UNCHANGED <<connVars, closed, sent, received>>

\* The deferred Cancel does not wait for the broker, but for a stuck channel.
ListenEnds ==
  /\ loop[Consumer].at = "wait" /\ IsClosed(Consumer)
  /\ chan[loop[Consumer].ch] # "stuck"
  /\ Goes(Consumer, "ended", <<>>)
  /\ DropInbox
  /\ UNCHANGED <<connVars, closed, sent, received>>
-----------------------------------------------------------------------------
LoopStep(l) == FindConnection(l) \/ PickBlocks(l) \/ Pick(l) \/ Declare(l)

PublisherLoop(p) == LoopStep(p) \/ KeepPublishing(p) \/ PublisherEnds(p)

ConsumerLoop == LoopStep(Consumer) \/ Listen \/ HandOut \/ ListenFails \/ ListenEnds

CloseListener(c) ==
  SetupBegins(c) \/ DialFails(c) \/ Dial(c) \/ NewChannel(c) \/ NewChannelFails(c) \/ SetupHangs(c)

\* Loops that have ended, or wait for their owners.
Idle == UNCHANGED vars

Next ==
  \/ \E c \in Conn : CloseListener(c) \/ Break(c) \/ Notice(c)
  \/ \E ch \in Chan : BreakChannel(ch)
  \/ \E p \in Publisher : PublisherLoop(p) \/ Publish(p)
  \/ ConsumerLoop
  \/ Push
  \/ \E l \in Loop : Close(l)
  \/ Idle

Spec == Init /\ [][Next]_vars

\* Goroutines that can run do; the library notices a connection that died, by
\* its heartbeat; and a broker that is dialled again and again answers at last.
FairSpec ==
  /\ Spec
  /\ \A c \in Conn : WF_vars(CloseListener(c)) /\ SF_vars(Dial(c)) /\ WF_vars(Notice(c))
  /\ \A p \in Publisher : WF_vars(PublisherLoop(p))
  /\ WF_vars(ConsumerLoop)
-----------------------------------------------------------------------------
(***************************************************************************)
(* Properties.                                                             *)
(***************************************************************************)
\* A connection that is ready has channels of its present generation only: no
\* failure in the middle of setup leaves a mixture behind.
ReadyIsWhole ==
  \A c \in Conn : Ready(c) => \A s \in Slot : slots[c][s] = inner[c].gen

\* Messages on their way from a publisher to the receiver keep their order, and
\* none is there twice or is lost as well, whatever breaks between.  The order
\* between two AMQP channels is the broker's: what is published over one is
\* taken to be in the queue before anything is published over the next, and
\* what was delivered over one is handed out or dropped before the next delivers.
DeliveredOnceInOrder ==
  LET way == received \o loop[Consumer].hand \o inbox \o queue
  IN /\ \A i, j \in DOMAIN way : i < j /\ way[i][1] = way[j][1] => way[i][2] < way[j][2]
     /\ \A x \in lost, i \in DOMAIN way : x.msg # way[i]

\* A message whose publishing returns an error is lost, for its loop forgets it.
\* But no channel costs a publisher more than one such message: on a channel that
\* is picked again after it failed no message is taken, because declaring the
\* queue fails first.  (Messages that are published without an error over a
\* connection that is already dead, the NoChan of lost, are not counted here:
\* nothing bounds them.)
LossPerChannel ==
  \A ch \in Chan, p \in Publisher :
    Cardinality({x \in lost : x.ch = ch /\ x.msg[1] = p}) <= 1

Blocked(l) == loop[l].at = "blocked" \/ (loop[l].ch # NoChan /\ chan[loop[l].ch] = "stuck")


\* A connection that dies is replaced, however often setup fails.
Reconnects == \A c \in Conn : ~Ready(c) ~> Ready(c) \/ setup[c] = "hung"

\* The abstract mail: a line from the broker's queue to the consumer's hand.
mailHand == [p \in Publisher |-> loop[p].hand]

mailWay == loop[Consumer].hand \o inbox \o queue

Mail == INSTANCE LossyMail WITH hand <- mailHand, way <- mailWay

\* The library is a lossy mail, whatever breaks.  The mail may lose what a publisher
\* has in hand at any time, so this says where messages are lost, and not that
\* they are lost for a reason.
MailSpec == Mail!Spec
==============================================================================
