----------------------------- MODULE QueueProofs -----------------------------
(***************************************************************************)
(* Proofs about Queue, for any number of connections, channels, publishers *)
(* and messages, and any number of faults.                                 *)
(***************************************************************************)
EXTENDS Queue, FiniteSetTheorems, SequenceTheorems, TLAPS

\* A replacement costs a fault at least, which bounds the generations.
GenBound ==
  \A c \in Conn : inner[c].gen <= IF inner[c].state = "open" THEN faults + 1 ELSE faults

LoopRecord ==
  {r \in [at : LoopState, conn : Conn \cup {NoConn}, ch : Chan \cup {NoChan}, hand : Seq(Message)] :
     r.at = "ready" => r.conn \in Conn}

QueueType ==
  /\ inner \in [Conn -> [gen : Gen, state : InnerState]]
  /\ setup \in [Conn -> SetupState]
  /\ slots \in [Conn -> [Slot -> Gen]]
  /\ chan \in [Chan -> ChanState]
  /\ faults \in 0..MaxFaults
  /\ loop \in [Loop -> LoopRecord]
  /\ sent \in [Publisher -> 0..MaxSent]
  /\ queue \in Seq(Message)
  /\ inbox \in Seq(Message)
  /\ received \in Seq(Message)
  /\ GenBound

\* The slots that setup has filled so far are the first ones.
Filled(c) == {r \in Slot : slots[c][r] = inner[c].gen}

SetupStages ==
  \A c \in Conn :
    /\ \A r \in Slot : slots[c][r] <= inner[c].gen
    /\ setup[c] = "dial" => inner[c].state = "closed"
    /\ setup[c] = "channels" =>
         /\ inner[c].state # "closed"
         /\ \E k \in 0 .. SlotCount - 1 : Filled(c) = 1..k

\* A channel that no setup has made yet is untouched.
MadeInOrder ==
  \A ch \in Chan : chan[ch] # "none" =>
    /\ ch[2] <= inner[ch[1]].gen
    /\ ch[2] = inner[ch[1]].gen /\ setup[ch[1]] = "channels" => slots[ch[1]][ch[3]] = ch[2]

ConnInv == SetupStages /\ MadeInOrder /\ ReadyIsWhole
-----------------------------------------------------------------------------
LEMMA Bounds == /\ SlotCount \in Nat \ {0} /\ MaxFaults \in Nat /\ MaxSent \in Nat
                /\ Slot = 1..SlotCount /\ Gen = 1..(MaxFaults + 1)
                /\ Publisher \subseteq Loop /\ Consumer \in Loop
BY BoundsAssumption DEF Slot, Gen, Loop

LEMMA ChanParts ==
  /\ NoChan \notin Chan
  /\ \A ch \in Chan : ch[1] \in Conn /\ ch[2] \in Gen /\ ch[3] \in Slot /\ ch = <<ch[1], ch[2], ch[3]>>
  /\ \A c \in Conn, g \in Gen, s \in Slot : <<c, g, s>> \in Chan
BY DEF Chan, NoChan

\* The slot that setup fills next.
LEMMA NextSlot ==
  ASSUME QueueType, SetupStages, NEW c \in Conn, setup[c] = "channels"
  PROVE  \E k \in 0 .. SlotCount - 1 :
            /\ Filled(c) = 1..k
            /\ 1 + Cardinality({r \in Slot : slots[c][r] = inner[c].gen}) = k + 1
            /\ k + 1 \in Slot /\ k + 1 \notin Filled(c)
<1>1. PICK k \in 0 .. SlotCount - 1 : Filled(c) = 1..k
  BY DEF SetupStages
<1>2. Cardinality(1..k) = k
  BY FS_Interval, Bounds, <1>1
<1>3. 1 + Cardinality({r \in Slot : slots[c][r] = inner[c].gen}) = k + 1
  <2>1. Cardinality(Filled(c)) = k /\ k \in Nat
    BY <1>1, <1>2, Bounds
  <2> QED
    BY <2>1 DEF Filled
<1>4. k + 1 \in Slot /\ k + 1 \notin 1..k
  BY Bounds
<1> QED
  BY <1>1, <1>3, <1>4

LEMMA ChannelsGoType ==
  ASSUME QueueType, NEW c \in Conn, NEW state \in ChanState
  PROVE  /\ ChannelsGo(c, state) \in [Chan -> ChanState]
         /\ \A ch \in Chan : /\ chan[ch] # "open" => ChannelsGo(c, state)[ch] = chan[ch]
                             /\ ChannelsGo(c, state)[ch] = chan[ch] \/ ChannelsGo(c, state)[ch] = state
BY DEF QueueType, ChannelsGo

\* What a connection does to the counts of generations and faults.
LEMMA ConnType ==
  ASSUME QueueType, SetupStages, NEW c \in Conn, CloseListener(c) \/ Break(c) \/ Notice(c)
  PROVE  QueueType'
<1> USE DEF QueueType
<1>0. UNCHANGED <<loop, sent, queue, inbox, received>>
  BY DEF CloseListener, SetupBegins, DialFails, Dial, NewChannel, NewChannelFails, SetupHangs, Break,
         Notice, mailVars
<1>1. CASE Break(c)
  <2>1. faults' = faults + 1 /\ faults' \in 0..MaxFaults /\ faults \in Nat
    BY <1>1, Bounds DEF Break, Fault
  <2>2. inner' = [inner EXCEPT ![c].state = "dying"] /\ UNCHANGED <<setup, slots, chan>>
    BY <1>1 DEF Break
  <2>3. inner' \in [Conn -> [gen : Gen, state : InnerState]]
    BY <2>2 DEF InnerState
  <2>4. \A d \in Conn : inner'[d].gen = inner[d].gen /\ (d # c => inner'[d] = inner[d])
                        /\ inner'[c].state = "dying" /\ inner[d].gen \in Nat
    BY <2>2, Bounds
  <2>5. GenBound'
    BY <1>1, <2>1, <2>4 DEF GenBound, Break
  <2> QED
    BY <1>0, <2>1, <2>2, <2>3, <2>5
<1>2. CASE Notice(c)
  <2>1. /\ inner' = [inner EXCEPT ![c].state = "closed"] /\ UNCHANGED <<setup, slots, faults>>
        /\ inner[c].state = "dying"
    BY <1>2 DEF Notice
  <2>2. chan' \in [Chan -> ChanState]
    BY <1>2, ChannelsGoType DEF Notice, ChanState
  <2>3. inner' \in [Conn -> [gen : Gen, state : InnerState]]
    BY <2>1 DEF InnerState
  <2>4. GenBound'
    BY <2>1 DEF GenBound
  <2> QED
    BY <1>0, <2>1, <2>2, <2>3, <2>4
<1>3. CASE SetupBegins(c) \/ DialFails(c) \/ SetupHangs(c)
  <2>1. UNCHANGED <<inner, slots, chan, faults>> /\ setup' \in [Conn -> SetupState]
    BY <1>3 DEF SetupBegins, DialFails, SetupHangs, SetupState, AfterFailedSetup
  <2>2. GenBound'
    BY <2>1 DEF GenBound
  <2> QED
    BY <1>0, <2>1, <2>2
<1>4. CASE Dial(c)
  <2>1. /\ inner' = [inner EXCEPT ![c] = [gen |-> inner[c].gen + 1, state |-> "open"]]
        /\ setup' = [setup EXCEPT ![c] = "channels"]
        /\ UNCHANGED <<slots, chan, faults>> /\ inner[c].state = "closed"
    BY <1>4 DEF Dial, SetupStages
  <2>2. inner[c].gen <= faults /\ inner[c].gen \in Gen
    BY <2>1 DEF GenBound
  <2>3. inner[c].gen + 1 \in Gen
    BY <2>2, Bounds
  <2>4. inner' \in [Conn -> [gen : Gen, state : InnerState]]
    BY <2>1, <2>3 DEF InnerState
  <2>5. GenBound'
    BY <2>1, <2>2, Bounds DEF GenBound
  <2>6. setup' \in [Conn -> SetupState]
    BY <2>1 DEF SetupState
  <2> QED
    BY <1>0, <2>1, <2>4, <2>5, <2>6
<1>5. CASE NewChannel(c)
  <2>1. PICK s \in Slot :
          /\ slots' = [slots EXCEPT ![c][s] = inner[c].gen]
          /\ chan' = [chan EXCEPT ![<<c, inner[c].gen, s>>] = "open"]
          /\ setup' = [setup EXCEPT ![c] = IF s = SlotCount THEN "idle" ELSE @]
    BY <1>5, NextSlot DEF NewChannel
  <2>2. UNCHANGED <<inner, faults>>
    BY <1>5 DEF NewChannel
  <2>3. slots' \in [Conn -> [Slot -> Gen]]
    BY <2>1
  <2>4. chan' \in [Chan -> ChanState] /\ setup' \in [Conn -> SetupState]
    BY <2>1 DEF ChanState, SetupState
  <2>5. GenBound'
    BY <2>2 DEF GenBound
  <2> QED
    BY <1>0, <2>2, <2>3, <2>4, <2>5
<1>6. CASE NewChannelFails(c)
  <2>1. /\ inner' = [inner EXCEPT ![c].state = "closed"] /\ slots' = slots
        /\ inner[c].state # "closed" /\ inner[c].state \in InnerState
    BY <1>6 DEF NewChannelFails, CloseInner, SetupStages
  <2>2. /\ faults' \in 0..MaxFaults
        /\ inner[c].state = "dying" => faults' = faults
        /\ inner[c].state # "dying" => faults' = faults + 1
    BY <1>6, Bounds DEF NewChannelFails, Fault
  <2>3. chan' \in [Chan -> ChanState] /\ setup' \in [Conn -> SetupState]
    BY <1>6, ChannelsGoType DEF NewChannelFails, ChanState, SetupState, AfterFailedSetup
  <2>4. inner' \in [Conn -> [gen : Gen, state : InnerState]]
    BY <2>1 DEF InnerState
  <2>5. \A d \in Conn : /\ inner'[d].gen = inner[d].gen /\ inner[d].gen \in Nat
                        /\ d # c => inner'[d] = inner[d]
                        /\ inner'[c].state = "closed"
    BY <2>1, Bounds
  <2>6. inner[c].gen <= faults'
    BY <2>1, <2>2, <2>5, Bounds DEF GenBound, InnerState
  <2>7. faults \in Nat /\ faults' \in {faults, faults + 1}
    BY <2>2
  <2>8. GenBound'
    <3> SUFFICES ASSUME NEW d \in Conn
                 PROVE  inner'[d].gen <= IF inner'[d].state = "open" THEN faults' + 1 ELSE faults'
      BY DEF GenBound
    <3>1. CASE d = c
      BY <2>5, <2>6, <3>1
    <3>2. CASE d # c
      <4>1. /\ inner'[d] = inner[d] /\ inner[d].gen \in Nat
            /\ inner[d].gen <= IF inner[d].state = "open" THEN faults + 1 ELSE faults
        BY <2>5, <3>2 DEF GenBound
      <4> QED
        BY <2>7, <4>1
    <3> QED
      BY <3>1, <3>2
  <2> QED
    BY <1>0, <2>1, <2>2, <2>3, <2>4, <2>8
<1> QED
  BY <1>1, <1>2, <1>3, <1>4, <1>5, <1>6 DEF CloseListener

LEMMA SequenceTypes ==
  /\ <<>> \in Seq(Message)
  /\ \A m \in Message : <<m>> \in Seq(Message)
  /\ \A s \in Seq(Message) : s # <<>> => Head(s) \in Message /\ Tail(s) \in Seq(Message)
  /\ \A s \in Seq(Message), t \in Seq(Message) : s \o t \in Seq(Message)
<1>1. \A s \in Seq(Message), t \in Seq(Message) : s \o t \in Seq(Message)
  BY ConcatProperties
<1>2. \A s \in Seq(Message) : s # <<>> => Head(s) \in Message /\ Tail(s) \in Seq(Message)
  OBVIOUS
<1> QED
  BY <1>1, <1>2

LEMMA GoesParts ==
  ASSUME QueueType, NEW l \in Loop, NEW at \in LoopState \ {"ready"}, NEW hand \in Seq(Message), Goes(l, at, hand)
  PROVE  /\ loop' \in [Loop -> LoopRecord]
         /\ \A k \in Loop : k # l => loop'[k] = loop[k]
         /\ loop'[l].at = at /\ loop'[l].ch = loop[l].ch /\ loop'[l].hand = hand
<1>1. loop' = [loop EXCEPT ![l] = [loop[l] EXCEPT !.at = at, !.hand = hand]]
  BY DEF Goes
<1>2. loop[l] \in LoopRecord /\ loop \in [Loop -> LoopRecord]
  BY DEF QueueType
<1>3. [loop[l] EXCEPT !.at = at, !.hand = hand] \in LoopRecord
  BY <1>2 DEF LoopRecord
<1>4. loop' \in [Loop -> LoopRecord]
  BY <1>1, <1>2, <1>3
<1> QED
  BY <1>1, <1>2, <1>4 DEF LoopRecord

LEMMA RestartParts ==
  ASSUME QueueType, NEW l \in Loop, Restart(l)
  PROVE  /\ loop' \in [Loop -> LoopRecord]
         /\ \A k \in Loop : k # l => loop'[k] = loop[k]
         /\ loop'[l].at \in {"pick", "ended"} /\ loop'[l].ch = NoChan /\ loop'[l].hand = <<>>
<1>1. PICK at \in {"pick", "ended"} : loop' = [loop EXCEPT ![l] = [at |-> at, conn |-> NoConn, ch |-> NoChan, hand |-> <<>>]]
  BY DEF Restart, LastMsg
<1>2. [at |-> at, conn |-> NoConn, ch |-> NoChan, hand |-> <<>>] \in LoopRecord
  BY SequenceTypes DEF LoopRecord, LoopState
<1>3. loop \in [Loop -> LoopRecord]
  BY DEF QueueType
<1>4. loop' \in [Loop -> LoopRecord]
  BY <1>1, <1>2, <1>3
<1> QED
  BY <1>1, <1>3, <1>4

\* A step of one loop: where it stands, and what it does to the rest.
LEMMA LoopType ==
  ASSUME QueueType, NEW l \in Loop, LoopStep(l)
  PROVE  /\ loop' \in [Loop -> LoopRecord]
         /\ \A k \in Loop : k # l => loop'[k] = loop[k]
         /\ loop'[l].hand \in {loop[l].hand, <<>>}
         /\ \/ loop'[l].at \notin {"wait", "publish", "hand"}
            \/ /\ loop'[l].ch = loop[l].ch /\ chan[loop[l].ch] = "open"
               /\ loop'[l].hand = loop[l].hand
               /\ loop'[l].at = IF loop[l].hand = <<>> THEN "wait" ELSE "publish"
<1>0. loop \in [Loop -> LoopRecord] /\ loop[l].hand \in Seq(Message)
  BY DEF QueueType, LoopRecord
<1>00. loop[l] \in [at : LoopState, conn : Conn \cup {NoConn}, ch : Chan \cup {NoChan}, hand : Seq(Message)]
  BY <1>0 DEF LoopRecord
<1>1. CASE FindConnection(l) \/ Pick(l)
  <2>1. PICK new \in LoopRecord :
          /\ loop' = [loop EXCEPT ![l] = new]
          /\ new.at \in {"ready", "declare"} /\ new.hand = loop[l].hand
    <3>1. CASE FindConnection(l)
      <4>1. PICK c \in Conn : loop' = [loop EXCEPT ![l] = [loop[l] EXCEPT !.at = "ready", !.conn = c]]
        BY <3>1 DEF FindConnection
      <4> DEFINE new == [loop[l] EXCEPT !.at = "ready", !.conn = c]
      <4>2. new \in LoopRecord /\ new.at = "ready" /\ new.hand = loop[l].hand
        BY <1>00 DEF LoopRecord, LoopState
      <4> QED
        BY <4>1, <4>2
    <3>2. CASE Pick(l)
      <4>1. PICK s \in Slot :
              loop' = [loop EXCEPT ![l] = [loop[l] EXCEPT !.at = "declare", !.conn = NoConn,
                         !.ch = <<loop[l].conn, slots[loop[l].conn][s], s>>]]
        BY <3>2 DEF Pick, AfterPick
      <4>2. loop[l].conn \in Conn
        BY <1>0, <3>2 DEF Pick, LoopRecord
      <4>3. <<loop[l].conn, slots[loop[l].conn][s], s>> \in Chan
        BY <4>2, ChanParts DEF QueueType
      <4>4. PICK ch \in Chan : ch = <<loop[l].conn, slots[loop[l].conn][s], s>>
        BY <4>3
      <4> DEFINE new == [loop[l] EXCEPT !.at = "declare", !.conn = NoConn, !.ch = ch]
      <4>5. new \in LoopRecord /\ new.at = "declare" /\ new.hand = loop[l].hand
        BY <1>00 DEF LoopRecord, LoopState
      <4> QED
        BY <4>1, <4>4, <4>5
    <3> QED
      BY <1>1, <3>1, <3>2
  <2>2. loop' \in [Loop -> LoopRecord]
    BY <1>0, <2>1
  <2>3. loop'[l].at \in {"ready", "declare"} /\ loop'[l].hand = loop[l].hand
    BY <1>0, <2>1
  <2> QED
    BY <1>0, <2>1, <2>2, <2>3
<1>2. CASE PickBlocks(l)
  <2>1. "blocked" \in LoopState /\ Goes(l, "blocked", loop[l].hand)
    BY <1>2 DEF PickBlocks, LoopState
  <2> QED
    BY <1>0, <2>1, GoesParts
<1>3. CASE Declare(l)
  <2>1. CASE Restart(l)
    BY <2>1, RestartParts
  <2>3. CASE Goes(l, "blocked", loop[l].hand)
    BY <1>0, <2>3, GoesParts DEF LoopState
  <2>2. CASE Alive(loop[l].ch) /\ Goes(l, IF loop[l].hand = <<>> THEN "wait" ELSE "publish", loop[l].hand)
    <3>1. PICK at \in {"wait", "publish"} : at = IF loop[l].hand = <<>> THEN "wait" ELSE "publish"
      OBVIOUS
    <3>2. Goes(l, at, loop[l].hand) /\ at \in LoopState /\ chan[loop[l].ch] = "open"
      BY <2>2, <3>1 DEF LoopState, Alive
    <3> QED
      BY <1>0, <3>1, <3>2, GoesParts
  <2> QED
    BY <1>3, <2>1, <2>2, <2>3 DEF Declare
<1> QED
  BY <1>1, <1>2, <1>3 DEF LoopStep

\* What a publisher's own steps do to its loop, its channel and its message.
LEMMA PublisherParts ==
  ASSUME QueueType, NEW p \in Publisher, Publish(p) \/ KeepPublishing(p) \/ PublisherEnds(p)
  PROVE  /\ loop' \in [Loop -> LoopRecord]
         /\ \A k \in Loop : k # p => loop'[k] = loop[k]
         /\ sent' \in [Publisher -> 0..MaxSent]
         /\ queue' \in Seq(Message)
         /\ Publish(p) => /\ sent'[p] = sent[p] + 1 /\ \A q \in Publisher \ {p} : sent'[q] = sent[q]
                          /\ loop[p].at = "wait" /\ loop'[p].at = "publish" /\ loop'[p].ch = loop[p].ch
                          /\ loop'[p].hand = <<<<p, sent'[p]>>>> /\ <<p, sent'[p]>> \in Message
         /\ KeepPublishing(p) => /\ sent' = sent /\ loop'[p].hand = <<>>
                                 /\ loop[p].at = "publish"
                                 /\ \/ loop'[p].at = "wait" /\ loop'[p].ch = loop[p].ch
                                    \/ loop'[p].at \in {"pick", "ended"} /\ loop'[p].ch = NoChan
         /\ PublisherEnds(p) => /\ loop[p].at = "wait" /\ loop'[p].at = "ended" /\ loop'[p].hand = <<>>
<1>0. /\ p \in Loop /\ loop \in [Loop -> LoopRecord] /\ loop[p].hand \in Seq(Message)
      /\ sent \in [Publisher -> 0..MaxSent] /\ queue \in Seq(Message)
      /\ "wait" \in LoopState /\ "publish" \in LoopState /\ "ended" \in LoopState
  BY Bounds DEF QueueType, LoopRecord, LoopState
<1>1. CASE Publish(p)
  <2>1. sent[p] + 1 \in 1..MaxSent /\ sent[p] \in Nat
    BY <1>0, <1>1, Bounds DEF Publish
  <2>2. sent' = [sent EXCEPT ![p] = sent[p] + 1] /\ sent'[p] = sent[p] + 1
    BY <1>0, <1>1 DEF Publish
  <2>3. sent' \in [Publisher -> 0..MaxSent]
    BY <1>0, <2>1, <2>2
  <2>4. <<p, sent'[p]>> \in Message /\ <<<<p, sent'[p]>>>> \in Seq(Message)
    BY <2>1, <2>2, SequenceTypes DEF Message
  <2>5. Goes(p, "publish", <<<<p, sent'[p]>>>>) /\ loop[p].at = "wait" /\ queue' = queue
    BY <1>1 DEF Publish
  <2>6. ~KeepPublishing(p) /\ ~PublisherEnds(p)
    <3>1. loop'[p].at = "publish"
      BY <1>0, <2>4, <2>5, GoesParts
    <3>2. PublisherEnds(p) => loop'[p].at = "ended"
      BY <1>0, SequenceTypes, GoesParts DEF PublisherEnds
    <3> QED
      BY <2>5, <3>1, <3>2 DEF KeepPublishing
  <2> QED
    BY <1>0, <2>2, <2>3, <2>4, <2>5, <2>6, GoesParts
<1>2. CASE KeepPublishing(p)
  <2>1. sent' = sent /\ loop[p].at = "publish" /\ ~Publish(p) /\ ~PublisherEnds(p)
    BY <1>2 DEF KeepPublishing, Publish, PublisherEnds
  <2>2. Goes(p, "wait", <<>>) \/ Restart(p)
    BY <1>2 DEF KeepPublishing, LastMsg
  <2>3. queue' \in Seq(Message)
    <3>1. queue' = queue \o loop[p].hand \/ queue' = queue
      BY <1>2 DEF KeepPublishing
    <3> QED
      BY <1>0, <3>1, SequenceTypes
  <2>4. CASE Goes(p, "wait", <<>>)
    BY <1>0, <2>1, <2>3, <2>4, SequenceTypes, GoesParts
  <2>5. CASE Restart(p)
    BY <1>0, <2>1, <2>3, <2>5, RestartParts
  <2> QED
    BY <2>2, <2>4, <2>5
<1>3. CASE PublisherEnds(p)
  <2>1. /\ loop[p].at = "wait" /\ Goes(p, "ended", <<>>) /\ sent' = sent /\ queue' = queue
    BY <1>3 DEF PublisherEnds, mailVars
  <2>2. loop'[p].at = "ended" /\ loop'[p].hand = <<>> /\ loop' \in [Loop -> LoopRecord]
        /\ \A k \in Loop : k # p => loop'[k] = loop[k]
    BY <1>0, <2>1, SequenceTypes, GoesParts
  <2>3. ~Publish(p)
    <3>1. CASE Publish(p)
      <4>1. sent'[p] = sent[p] + 1
        BY <1>0, <3>1 DEF Publish
      <4> QED
        BY <1>0, <2>1, <4>1
    <3> QED
      BY <3>1
  <2>4. ~KeepPublishing(p)
    BY <2>1 DEF KeepPublishing
  <2> QED
    BY <1>0, <2>1, <2>2, <2>3, <2>4
<1> QED
  BY <1>1, <1>2, <1>3

\* The same for the consumer and the broker behind it.
LEMMA ConsumerParts ==
  ASSUME QueueType, Push \/ Listen \/ HandOut \/ ListenFails \/ ListenEnds
  PROVE  /\ loop' \in [Loop -> LoopRecord]
         /\ \A p \in Publisher : loop'[p] = loop[p]
         /\ queue' \in Seq(Message) /\ inbox' \in Seq(Message) /\ received' \in Seq(Message)
         /\ loop'[Consumer].at = "wait" => loop'[Consumer].hand = <<>> \/ loop' = loop
         /\ UNCHANGED <<connVars, sent>>
<1>0. /\ Consumer \in Loop /\ Consumer \notin Publisher /\ Publisher \subseteq Loop
      /\ loop \in [Loop -> LoopRecord] /\ loop[Consumer].hand \in Seq(Message)
      /\ queue \in Seq(Message) /\ inbox \in Seq(Message) /\ received \in Seq(Message)
      /\ "wait" \in LoopState /\ "hand" \in LoopState /\ "ended" \in LoopState /\ <<>> \in Seq(Message)
  BY Bounds, NamesAssumption, SequenceTypes DEF QueueType, LoopRecord, LoopState
<1>1. CASE Push
  <2>1. /\ loop' = loop /\ received' = received /\ queue # <<>> /\ queue' = Tail(queue)
        /\ inbox' = Append(inbox, Head(queue)) /\ UNCHANGED <<connVars, sent>>
    BY <1>1 DEF Push
  <2>2. Head(queue) \in Message /\ Tail(queue) \in Seq(Message)
    BY <1>0, <2>1, SequenceTypes
  <2>3. Append(inbox, Head(queue)) \in Seq(Message)
    BY <1>0, <2>2
  <2> QED
    BY <1>0, <2>1, <2>2, <2>3
<1>2. CASE Listen
  <2>1. /\ inbox # <<>> /\ Goes(Consumer, "hand", <<Head(inbox)>>) /\ inbox' = Tail(inbox)
        /\ received' = received /\ queue' = queue /\ UNCHANGED <<connVars, sent>>
    BY <1>2 DEF Listen
  <2>2. <<Head(inbox)>> \in Seq(Message) /\ Tail(inbox) \in Seq(Message)
    BY <1>0, <2>1, SequenceTypes
  <2>3. "hand" \in LoopState \ {"ready"}
    BY DEF LoopState
  <2>4. /\ loop' \in [Loop -> LoopRecord] /\ \A k \in Loop : k # Consumer => loop'[k] = loop[k]
        /\ loop'[Consumer].at = "hand" /\ loop'[Consumer].ch = loop[Consumer].ch
        /\ loop'[Consumer].hand = <<Head(inbox)>>
    BY <1>0, <2>1, <2>2, <2>3, GoesParts
  <2> QED
    BY <1>0, <2>1, <2>2, <2>4
<1>3. CASE HandOut
  <2>1. /\ received' = received \o loop[Consumer].hand /\ Goes(Consumer, "wait", <<>>)
        /\ inbox' = inbox /\ queue' = queue /\ UNCHANGED <<connVars, sent>>
    BY <1>3 DEF HandOut
  <2>2. received' \in Seq(Message)
    BY <1>0, <2>1, SequenceTypes
  <2> QED
    BY <1>0, <2>1, <2>2, GoesParts
<1>4. CASE ListenFails \/ ListenEnds
  <2>1. /\ inbox' = <<>> /\ queue' = <<>> \o queue /\ received' = received
        /\ UNCHANGED <<connVars, sent>>
    BY <1>4 DEF ListenFails, ListenEnds, DropInbox, Unacked
  <2>2. queue' \in Seq(Message)
    BY <1>0, <2>1, SequenceTypes
  <2>3. Restart(Consumer) \/ Goes(Consumer, "ended", <<>>)
    BY <1>4 DEF ListenFails, ListenEnds
  <2>4. CASE Restart(Consumer)
    BY <1>0, <2>1, <2>2, <2>4, RestartParts
  <2>5. CASE Goes(Consumer, "ended", <<>>)
    BY <1>0, <2>1, <2>2, <2>5, GoesParts
  <2> QED
    BY <2>3, <2>4, <2>5
<1> QED
  BY <1>1, <1>2, <1>3, <1>4
-----------------------------------------------------------------------------
(***************************************************************************)
(* Connections: the invariant of setup.                                    *)
(***************************************************************************)
LEMMA SetupStagesStep ==
  ASSUME QueueType, SetupStages, ReadyIsWhole, NEW c \in Conn,
         CloseListener(c) \/ Break(c) \/ Notice(c)
  PROVE  SetupStages' /\ ReadyIsWhole'
<1> USE DEF QueueType
\* Only c changes.
<1>0. \A d \in Conn \ {c} : inner'[d] = inner[d] /\ setup'[d] = setup[d] /\ slots'[d] = slots[d]
  BY DEF CloseListener, SetupBegins, DialFails, Dial, NewChannel, NewChannelFails, SetupHangs, Break,
         Notice, CloseInner
<1> DEFINE Stages(d) ==
             /\ \A r \in Slot : slots[d][r] <= inner[d].gen
             /\ setup[d] = "dial" => inner[d].state = "closed"
             /\ setup[d] = "channels" =>
                  /\ inner[d].state # "closed"
                  /\ \E k \in 0 .. SlotCount - 1 : Filled(d) = 1..k
             /\ setup[d] = "idle" /\ inner[d].state # "closed" => \A r \in Slot : slots[d][r] = inner[d].gen
<1>1. \A d \in Conn : Stages(d)
  BY DEF SetupStages, ReadyIsWhole, Ready
<1>2. SUFFICES Stages(c)'
  <2>1. ASSUME NEW d \in Conn \ {c}
        PROVE  Stages(d)'
    <3>1. inner'[d] = inner[d] /\ setup'[d] = setup[d] /\ slots'[d] = slots[d]
      BY <1>0
    <3>2. Filled(d)' = Filled(d)
      BY <3>1 DEF Filled
    <3>3. Stages(d)
      BY <1>1
    <3> QED
      BY <3>1, <3>2, <3>3
  <2> QED
    BY <2>1 DEF SetupStages, ReadyIsWhole, Ready
<1>3. CASE Break(c) \/ Notice(c)
  <2>1. setup' = setup /\ slots' = slots /\ inner'[c].gen = inner[c].gen
        /\ inner[c].state # "closed"
    BY <1>3 DEF Break, Notice
  <2>2. Break(c) => inner'[c].state = "dying"
    BY DEF Break
  <2>3. Notice(c) => setup[c] = "idle" /\ inner'[c].state = "closed"
    BY DEF Notice
  <2>4. Filled(c)' = Filled(c)
    BY <2>1 DEF Filled
  <2> QED
    BY <1>1, <1>3, <2>1, <2>2, <2>3, <2>4
<1>4. CASE SetupBegins(c) \/ DialFails(c) \/ SetupHangs(c)
  <2>1. inner' = inner /\ slots' = slots
    BY <1>4 DEF SetupBegins, DialFails, SetupHangs
  <2>2. \/ setup'[c] = "dial" /\ inner[c].state = "closed"
        \/ setup'[c] = "idle" /\ inner[c].state = "closed"
        \/ setup'[c] = "hung"
    BY <1>1, <1>4 DEF SetupBegins, DialFails, SetupHangs, AfterFailedSetup
  <2> QED
    BY <1>1, <2>1, <2>2
<1>5. CASE Dial(c)
  <2>1. inner'[c] = [gen |-> inner[c].gen + 1, state |-> "open"] /\ setup'[c] = "channels" /\ slots' = slots
    BY <1>5 DEF Dial
  <2>2. \A r \in Slot : slots[c][r] <= inner[c].gen /\ slots[c][r] \in Nat /\ inner[c].gen \in Nat
    BY <1>1, Bounds
  <2>3. Filled(c)' = 1..0
    BY <2>1, <2>2 DEF Filled
  <2>4. 0 \in 0 .. SlotCount - 1
    BY Bounds
  <2>5. \A r \in Slot : slots'[c][r] <= inner'[c].gen
    BY <2>1, <2>2
  <2> QED
    BY <2>1, <2>3, <2>4, <2>5
<1>6. CASE NewChannel(c)
  <2>1. PICK k \in 0 .. SlotCount - 1 :
          /\ Filled(c) = 1..k /\ k + 1 \in Slot
          /\ 1 + Cardinality({r \in Slot : slots[c][r] = inner[c].gen}) = k + 1
    BY <1>6, NextSlot DEF NewChannel
  <2>2. /\ slots' = [slots EXCEPT ![c][k + 1] = inner[c].gen] /\ inner' = inner
        /\ setup' = [setup EXCEPT ![c] = IF k + 1 = SlotCount THEN "idle" ELSE @]
        /\ setup[c] = "channels" /\ inner[c].state = "open"
    BY <1>6, <2>1 DEF NewChannel
  <2>3. /\ slots'[c][k + 1] = inner[c].gen
        /\ \A r \in Slot : r # k + 1 => slots'[c][r] = slots[c][r]
    BY <2>1, <2>2
  <2>4. \A r \in Slot : slots'[c][r] <= inner'[c].gen
    BY <1>1, <2>2, <2>3, Bounds
  <2>5. Filled(c)' = 1..(k + 1)
    <3>1. \A r \in Slot : slots'[c][r] = inner[c].gen <=> r \in 1..k \/ r = k + 1
      BY <2>1, <2>3 DEF Filled
    <3>2. 1..(k + 1) = {r \in Slot : r \in 1..k \/ r = k + 1}
      BY <2>1, Bounds
    <3>3. Filled(c)' = {r \in Slot : slots'[c][r] = inner[c].gen}
      BY <2>2 DEF Filled
    <3> QED
      BY <3>1, <3>2, <3>3
  <2>6. CASE k + 1 = SlotCount
    <3>1. setup'[c] = "idle"
      BY <2>2, <2>6
    <3>2. \A r \in Slot : slots'[c][r] = inner'[c].gen
      BY <2>2, <2>5, <2>6, Bounds DEF Filled
    <3> QED
      BY <2>4, <3>1, <3>2
  <2>7. CASE k + 1 # SlotCount
    <3>1. setup'[c] = "channels" /\ k + 1 \in 0 .. SlotCount - 1
      BY <2>2, <2>7, Bounds
    <3> QED
      BY <2>2, <2>4, <2>5, <3>1
  <2> QED
    BY <2>6, <2>7
<1>7. CASE NewChannelFails(c)
  <2>1. /\ inner'[c].gen = inner[c].gen /\ inner'[c].state = "closed" /\ slots' = slots
        /\ setup'[c] = "idle"
    BY <1>7 DEF NewChannelFails, CloseInner, AfterFailedSetup
  <2> QED
    BY <1>1, <2>1
<1> QED
  BY <1>3, <1>4, <1>5, <1>6, <1>7 DEF CloseListener

LEMMA MadeInOrderStep ==
  ASSUME QueueType, SetupStages, MadeInOrder, NEW c \in Conn,
         CloseListener(c) \/ Break(c) \/ Notice(c)
  PROVE  /\ MadeInOrder'
         /\ \A ch \in Chan : chan[ch] = "closed" => chan'[ch] = "closed"
<1> USE DEF QueueType
<1>0. \A d \in Conn \ {c} : inner'[d] = inner[d] /\ setup'[d] = setup[d] /\ slots'[d] = slots[d]
  BY DEF CloseListener, SetupBegins, DialFails, Dial, NewChannel, NewChannelFails, SetupHangs, Break,
         Notice, CloseInner
<1>1. CASE NewChannel(c)
  <2>1. PICK s \in Slot :
          /\ s \notin Filled(c)
          /\ slots' = [slots EXCEPT ![c][s] = inner[c].gen]
          /\ chan' = [chan EXCEPT ![<<c, inner[c].gen, s>>] = "open"]
          /\ inner' = inner /\ setup[c] = "channels" /\ setup'[c] \in {"idle", "channels"}
    BY <1>1, NextSlot DEF NewChannel
  <2> DEFINE new == <<c, inner[c].gen, s>>
  <2>2. new \in Chan /\ new[1] = c /\ new[2] = inner[c].gen /\ new[3] = s
    BY ChanParts
  <2>3. chan[new] = "none"
    BY <2>1, <2>2 DEF MadeInOrder, Filled
  <2>4. \A ch \in Chan : ch # new => chan'[ch] = chan[ch]
    BY <2>1, <2>2
  <2>5. slots'[c][s] = inner[c].gen /\ \A r \in Slot : slots'[c][r] = slots[c][r] \/ slots'[c][r] = inner[c].gen
    BY <2>1
  <2>6. MadeInOrder'
    <3> SUFFICES ASSUME NEW ch \in Chan, chan'[ch] # "none"
                 PROVE  /\ ch[2] <= inner'[ch[1]].gen
                        /\ ch[2] = inner'[ch[1]].gen /\ setup'[ch[1]] = "channels"
                             => slots'[ch[1]][ch[3]] = ch[2]
      BY DEF MadeInOrder
    <3>1. CASE ch = new
      <4>1. inner[c].gen \in Nat
        BY Bounds
      <4> QED
        BY <2>1, <2>2, <2>5, <3>1, <4>1
    <3>2. CASE ch # new /\ ch[1] = c
      BY <2>1, <2>4, <2>5, <3>2, ChanParts DEF MadeInOrder
    <3>3. CASE ch # new /\ ch[1] # c
      BY <1>0, <2>4, <3>3, ChanParts DEF MadeInOrder
    <3> QED
      BY <3>1, <3>2, <3>3
  <2> QED
    BY <2>3, <2>4, <2>6
<1>2. CASE Dial(c)
  <2>1. inner'[c].gen = inner[c].gen + 1 /\ chan' = chan /\ inner[c].gen \in Nat
    BY <1>2, Bounds DEF Dial
  <2>2. MadeInOrder'
    <3> SUFFICES ASSUME NEW ch \in Chan, chan'[ch] # "none"
                 PROVE  /\ ch[2] <= inner'[ch[1]].gen
                        /\ ch[2] = inner'[ch[1]].gen /\ setup'[ch[1]] = "channels"
                             => slots'[ch[1]][ch[3]] = ch[2]
      BY DEF MadeInOrder
    <3>1. CASE ch[1] = c
      <4>1. ch[2] <= inner[c].gen /\ ch[2] \in Nat
        BY <2>1, <3>1, ChanParts, Bounds DEF MadeInOrder
      <4> QED
        BY <2>1, <3>1, <4>1
    <3>2. CASE ch[1] # c
      BY <1>0, <2>1, <3>2, ChanParts DEF MadeInOrder
    <3> QED
      BY <3>1, <3>2
  <2> QED
    BY <2>1, <2>2
<1>3. CASE SetupBegins(c) \/ DialFails(c) \/ NewChannelFails(c) \/ SetupHangs(c) \/ Break(c) \/ Notice(c)
  <2>1. /\ slots' = slots /\ inner'[c].gen = inner[c].gen
        /\ setup'[c] = "channels" => setup[c] = "channels"
    BY <1>3 DEF SetupBegins, DialFails, NewChannelFails, SetupHangs, Break, Notice, AfterFailedSetup, CloseInner
  <2>2. \A ch \in Chan : /\ chan'[ch] # "none" => chan[ch] # "none"
                         /\ chan[ch] = "closed" => chan'[ch] = "closed"
    BY <1>3 DEF SetupBegins, DialFails, NewChannelFails, SetupHangs, Break, Notice, ChannelsGo
  <2>3. \A d \in Conn : /\ inner'[d].gen = inner[d].gen
                        /\ setup'[d] = "channels" => setup[d] = "channels"
    BY <1>0, <2>1
  <2> QED
    BY <2>1, <2>2, <2>3, ChanParts DEF MadeInOrder
<1> QED
  BY <1>1, <1>2, <1>3 DEF CloseListener

LEMMA ChannelBreaks ==
  ASSUME QueueType, MadeInOrder, NEW ch \in Chan, BreakChannel(ch)
  PROVE  /\ QueueType'
         /\ MadeInOrder'
         /\ \A d \in Chan : chan[d] = "closed" => chan'[d] = "closed"
         /\ UNCHANGED <<inner, setup, slots, loop, mailVars>>
<1> USE DEF QueueType
<1>1. /\ UNCHANGED <<inner, setup, slots, loop, mailVars>>
      /\ chan' \in [Chan -> ChanState] /\ chan[ch] = "open"
      /\ \A d \in Chan : d # ch => chan'[d] = chan[d]
  BY DEF BreakChannel, Alive, ChanState
<1>2. faults' = faults + 1 /\ faults' \in 0..MaxFaults /\ faults \in Nat
  BY Bounds DEF BreakChannel, Fault
<1>3. GenBound'
  <2>1. \A d \in Conn : inner[d].gen \in Nat
    BY Bounds
  <2> QED
    BY <1>1, <1>2, <2>1 DEF GenBound
<1>4. MadeInOrder'
  BY <1>1 DEF MadeInOrder
<1> QED
  BY <1>1, <1>2, <1>3, <1>4 DEF mailVars

LEMMA ConnInvariant == Spec => [](QueueType /\ ConnInv)
<1>1. Init => QueueType /\ ConnInv
  <2> SUFFICES ASSUME Init PROVE QueueType /\ ConnInv
    OBVIOUS
  <2>1. 1 \in Gen /\ 0 \in 0..MaxFaults /\ 0 \in 0..MaxSent
    BY Bounds
  <2>2. /\ loop \in [Loop -> LoopRecord]
        /\ queue \in Seq(Message) /\ inbox \in Seq(Message) /\ received \in Seq(Message)
    BY SequenceTypes DEF Init, LoopRecord, LoopState
  <2>3. /\ inner \in [Conn -> [gen : Gen, state : InnerState]] /\ setup \in [Conn -> SetupState]
        /\ slots \in [Conn -> [Slot -> Gen]] /\ chan \in [Chan -> ChanState]
    BY <2>1 DEF Init, InnerState, SetupState, ChanState
  <2>4. QueueType
    BY <2>1, <2>2, <2>3 DEF Init, QueueType, GenBound
  <2>5. SetupStages /\ ReadyIsWhole
    BY DEF Init, SetupStages, ReadyIsWhole
  <2>6. MadeInOrder
    BY ChanParts DEF Init, MadeInOrder
  <2> QED
    BY <2>4, <2>5, <2>6 DEF ConnInv
<1>2. QueueType /\ ConnInv /\ [Next]_vars => QueueType' /\ ConnInv'
  <2> SUFFICES ASSUME QueueType, ConnInv, [Next]_vars PROVE QueueType' /\ ConnInv'
    OBVIOUS
  <2> USE DEF ConnInv
  <2>0. ASSUME UNCHANGED connVars PROVE ConnInv'
    BY <2>0 DEF connVars, SetupStages, MadeInOrder, ReadyIsWhole, Ready, Filled
  <2>00. ASSUME UNCHANGED connVars, loop' \in [Loop -> LoopRecord],
                sent' \in [Publisher -> 0..MaxSent],
                queue' \in Seq(Message), inbox' \in Seq(Message), received' \in Seq(Message)
         PROVE  QueueType'
    BY <2>00 DEF QueueType, connVars, GenBound
  <2>1. ASSUME NEW c \in Conn, CloseListener(c) \/ Break(c) \/ Notice(c)
        PROVE  QueueType' /\ ConnInv'
    BY <2>1, ConnType, SetupStagesStep, MadeInOrderStep
  <2>2. ASSUME NEW ch \in Chan, BreakChannel(ch)
        PROVE  QueueType' /\ ConnInv'
    <3>1. QueueType' /\ MadeInOrder' /\ UNCHANGED <<inner, setup, slots>>
      BY <2>2, ChannelBreaks
    <3> QED
      BY <3>1 DEF SetupStages, ReadyIsWhole, Ready, Filled
  <2>3. ASSUME NEW l \in Loop, LoopStep(l)
        PROVE  QueueType' /\ ConnInv'
    <3>1. UNCHANGED connVars /\ UNCHANGED mailVars
      BY <2>3 DEF LoopStep, FindConnection, PickBlocks, Pick, Declare
    <3>2. loop' \in [Loop -> LoopRecord]
      BY <2>3, LoopType
    <3> QED
      BY <2>0, <2>00, <3>1, <3>2 DEF mailVars, QueueType
  <2>4. ASSUME NEW p \in Publisher, Publish(p) \/ KeepPublishing(p) \/ PublisherEnds(p)
        PROVE  QueueType' /\ ConnInv'
    <3>1. UNCHANGED connVars /\ UNCHANGED <<inbox, received>>
      BY <2>4 DEF Publish, KeepPublishing, PublisherEnds, mailVars
    <3>2. /\ loop' \in [Loop -> LoopRecord] /\ sent' \in [Publisher -> 0..MaxSent]
          /\ queue' \in Seq(Message)
      BY <2>4, PublisherParts
    <3> QED
      BY <2>0, <2>00, <3>1, <3>2 DEF QueueType
  <2>5. CASE Push \/ Listen \/ HandOut \/ ListenFails \/ ListenEnds
    <3>1. /\ UNCHANGED connVars /\ sent' = sent /\ loop' \in [Loop -> LoopRecord]
          /\ queue' \in Seq(Message) /\ inbox' \in Seq(Message) /\ received' \in Seq(Message)
      BY <2>5, ConsumerParts
    <3> QED
      BY <2>0, <2>00, <3>1 DEF QueueType
  <2>6. CASE (\E l \in Loop : Close(l)) \/ Idle \/ UNCHANGED vars
    <3>1. UNCHANGED connVars /\ UNCHANGED mailVars /\ loop' = loop
      BY <2>6 DEF Close, Idle, vars
    <3> QED
      BY <2>0, <2>00, <3>1 DEF mailVars, QueueType
  <2>7. CASE \E p \in Publisher : PublisherLoop(p) \/ Publish(p)
    BY <2>3, <2>4, <2>7, Bounds DEF PublisherLoop
  <2>8. CASE ConsumerLoop
    BY <2>3, <2>5, <2>8, Bounds DEF ConsumerLoop
  <2> QED
    BY <2>1, <2>2, <2>5, <2>6, <2>7, <2>8 DEF Next
<1> QED
  BY <1>1, <1>2, PTL DEF Spec

\* A ready connection has channels of its present generation only, whatever
\* fails in the middle of a setup and however many connections there are.
THEOREM ReadyIsAlwaysWhole == Spec => []ReadyIsWhole
BY ConnInvariant, PTL DEF ConnInv
-----------------------------------------------------------------------------
(***************************************************************************)
(* Losses: a channel that cost a publisher a message is closed for good,   *)
(* and the publisher does not get past declaring its queue there.          *)
(***************************************************************************)
LostOn(p, ch) == \E x \in lost : x.ch = ch /\ x.msg[1] = p

FailedIsLeft ==
  \A p \in Publisher, ch \in Chan : LostOn(p, ch) =>
    /\ chan[ch] = "closed"
    /\ ~(loop[p].ch = ch /\ loop[p].at \in {"wait", "publish"})

OneEach ==
  \A x, y \in lost : x.ch \in Chan /\ y.ch = x.ch /\ x.msg[1] = y.msg[1] /\ x.msg[1] \in Publisher => x = y

HandIsOwn ==
  \A p \in Publisher :
    /\ loop[p].at = "publish" => \E no \in Nat : loop[p].hand = <<<<p, no>>>>
    /\ loop[p].at # "publish" => loop[p].hand = <<>>

LossInv == FailedIsLeft /\ OneEach /\ HandIsOwn

LEMMA ClosedStaysClosed ==
  ASSUME QueueType, ConnInv, [Next]_vars
  PROVE  \A ch \in Chan : chan[ch] = "closed" => chan'[ch] = "closed"
<1> USE DEF ConnInv
<1>1. CASE \E c \in Conn : CloseListener(c) \/ Break(c) \/ Notice(c)
  BY <1>1, MadeInOrderStep
<1>2. CASE \E ch \in Chan : BreakChannel(ch)
  BY <1>2, ChannelBreaks
<1>3. CASE \/ \E p \in Publisher : PublisherLoop(p) \/ Publish(p)
           \/ ConsumerLoop \/ Push \/ (\E l \in Loop : Close(l)) \/ Idle \/ UNCHANGED vars
  <2>1. chan' = chan
    BY <1>3 DEF PublisherLoop, LoopStep, FindConnection, PickBlocks, Pick, Declare, KeepPublishing, PublisherEnds, Publish,
                ConsumerLoop, Listen, HandOut, ListenFails, ListenEnds, Push, Close, Idle, vars, connVars
  <2> QED
    BY <2>1
<1> QED
  BY <1>1, <1>2, <1>3 DEF Next

\* Steps that neither lose anything of a channel nor move a publisher.
LEMMA LossFrame ==
  ASSUME LossInv, \A ch \in Chan : chan[ch] = "closed" => chan'[ch] = "closed",
         \A p \in Publisher : loop'[p] = loop[p],
         lost \subseteq lost', \A x \in lost' : x \in lost \/ x.ch = NoChan
  PROVE  LossInv'
<1> USE DEF LossInv
<1>1. \A x \in lost' : x.ch \in Chan => x \in lost
  BY ChanParts
<1>2. \A p \in Publisher, ch \in Chan : LostOn(p, ch)' => LostOn(p, ch)
  BY <1>1 DEF LostOn
<1>3. FailedIsLeft'
  BY <1>2 DEF FailedIsLeft
<1>4. OneEach'
  BY <1>1 DEF OneEach
<1>5. HandIsOwn'
  BY DEF HandIsOwn
<1> QED
  BY <1>3, <1>4, <1>5

LEMMA LossLoop ==
  ASSUME QueueType, LossInv, NEW p \in Publisher, LoopStep(p)
  PROVE  LossInv'
<1> USE DEF LossInv
<1>1. UNCHANGED <<chan, lost>> /\ p \in Loop /\ Publisher \subseteq Loop
  BY Bounds DEF LoopStep, FindConnection, PickBlocks, Pick, Declare, connVars, mailVars
<1>2. /\ \A q \in Publisher : q # p => loop'[q] = loop[q]
      /\ loop'[p].hand \in {loop[p].hand, <<>>}
      /\ \/ loop'[p].at \notin {"wait", "publish", "hand"}
         \/ /\ loop'[p].ch = loop[p].ch /\ chan[loop[p].ch] = "open"
            /\ loop'[p].hand = loop[p].hand
            /\ loop'[p].at = IF loop[p].hand = <<>> THEN "wait" ELSE "publish"
  BY <1>1, LoopType
<1>3. loop[p].hand = <<>>
  BY DEF LoopStep, FindConnection, PickBlocks, Pick, Declare, HandIsOwn
<1>4. HandIsOwn'
  BY <1>2, <1>3 DEF HandIsOwn
<1>5. FailedIsLeft'
  <2>1. \A q \in Publisher, ch \in Chan : LostOn(q, ch)' <=> LostOn(q, ch)
    BY <1>1 DEF LostOn
  <2> QED
    BY <1>1, <1>2, <2>1 DEF FailedIsLeft
<1>6. OneEach'
  BY <1>1 DEF OneEach
<1> QED
  BY <1>4, <1>5, <1>6

LEMMA LossPublisher ==
  ASSUME QueueType, LossInv, NEW p \in Publisher, Publish(p) \/ KeepPublishing(p) \/ PublisherEnds(p)
  PROVE  LossInv'
<1> USE DEF LossInv
<1>0. /\ chan' = chan /\ p \in Loop /\ Publisher \subseteq Loop
      /\ \A q \in Publisher : q # p => loop'[q] = loop[q]
  <2>1. \A q \in Loop : q # p => loop'[q] = loop[q]
    BY PublisherParts
  <2> QED
    BY <2>1, Bounds DEF Publish, KeepPublishing, PublisherEnds, connVars
<1>1. CASE Publish(p) \/ PublisherEnds(p)
  <2>1. lost' = lost /\ loop[p].at = "wait"
    BY <1>1 DEF Publish, PublisherEnds, mailVars
  <2>2. \/ /\ loop'[p].at = "publish" /\ loop'[p].ch = loop[p].ch
           /\ loop'[p].hand = <<<<p, sent'[p]>>>> /\ sent'[p] \in Nat
        \/ loop'[p].at = "ended" /\ loop'[p].hand = <<>>
    <3>1. sent' \in [Publisher -> 0..MaxSent]
      BY PublisherParts
    <3>2. sent'[p] \in Nat
      BY <3>1, Bounds
    <3>3. Publish(p) => /\ loop'[p].at = "publish" /\ loop'[p].ch = loop[p].ch
                        /\ loop'[p].hand = <<<<p, sent'[p]>>>>
      BY PublisherParts
    <3>4. PublisherEnds(p) => loop'[p].at = "ended" /\ loop'[p].hand = <<>>
      BY PublisherParts
    <3> QED
      BY <1>1, <3>2, <3>3, <3>4
  <2>3. HandIsOwn'
    BY <1>0, <2>2 DEF HandIsOwn
  <2>4. \A q \in Publisher, ch \in Chan : LostOn(q, ch)' <=> LostOn(q, ch)
    BY <2>1 DEF LostOn
  <2>5. FailedIsLeft'
    BY <1>0, <2>1, <2>2, <2>4 DEF FailedIsLeft
  <2>6. OneEach'
    BY <2>1 DEF OneEach
  <2> QED
    BY <2>3, <2>5, <2>6
<1>2. CASE KeepPublishing(p)
  <2> DEFINE ch == loop[p].ch
  <2>1. PICK no \in Nat : loop[p].at = "publish" /\ loop[p].hand = <<<<p, no>>>>
    BY <1>2 DEF KeepPublishing, HandIsOwn
  <2>2. /\ loop'[p].hand = <<>>
        /\ \/ loop'[p].at = "wait" /\ loop'[p].ch = loop[p].ch
           \/ loop'[p].at \in {"pick", "ended"} /\ loop'[p].ch = NoChan
    BY <1>2, PublisherParts
  <2>3. HandIsOwn'
    BY <1>0, <2>2 DEF HandIsOwn
  <2>4. ASSUME NEW c, Lose(loop[p].hand, c)
        PROVE  lost' = lost \cup {[msg |-> <<p, no>>, ch |-> c]}
    <3>1. {[msg |-> loop[p].hand[i], ch |-> c] : i \in DOMAIN loop[p].hand} = {[msg |-> <<p, no>>, ch |-> c]}
      BY <2>1
    <3> QED
      BY <2>4, <3>1 DEF Lose
  <2>5. CASE lost' = lost \/ lost' = lost \cup {[msg |-> <<p, no>>, ch |-> NoChan]}
    <3>1. \A x \in lost' : x.ch \in Chan => x \in lost
      BY <2>5, ChanParts
    <3>2. \A q \in Publisher, d \in Chan : LostOn(q, d)' => LostOn(q, d)
      BY <3>1 DEF LostOn
    <3>3. FailedIsLeft'
      BY <1>0, <2>1, <2>2, <3>2, ChanParts DEF FailedIsLeft
    <3>4. OneEach'
      BY <3>1 DEF OneEach
    <3> QED
      BY <2>3, <3>3, <3>4
  <2>6. CASE /\ Fails(ch) /\ Restart(p)
             /\ lost' = lost \cup {[msg |-> <<p, no>>, ch |-> ch]}
    <3> DEFINE new == [msg |-> <<p, no>>, ch |-> ch]
    <3>1. ch \in Chan => ~LostOn(p, ch)
      BY <2>1 DEF FailedIsLeft
    <3>2. chan[ch] = "closed" /\ loop'[p].at \in {"pick", "ended"}
      BY <1>0, <2>6, RestartParts DEF Fails
    <3>3. new.ch = ch /\ new.msg[1] = p
      OBVIOUS
    <3>4. \A q \in Publisher, d \in Chan : LostOn(q, d)' => LostOn(q, d) \/ (q = p /\ d = ch)
      BY <2>6, <3>3 DEF LostOn
    <3>5. FailedIsLeft'
      BY <1>0, <3>2, <3>4 DEF FailedIsLeft
    <3>6. \A x \in lost : x.ch = ch /\ ch \in Chan => x.msg[1] # p
      BY <3>1 DEF LostOn
    <3>7. OneEach'
      BY <2>6, <3>3, <3>6 DEF OneEach
    <3> QED
      BY <2>3, <3>5, <3>7
  <2> QED
    BY <1>2, <2>4, <2>5, <2>6 DEF KeepPublishing
<1> QED
  BY <1>1, <1>2

LEMMA LossInvariant == Spec => []LossInv
<1>1. Init => LossInv
  BY Bounds DEF Init, LossInv, FailedIsLeft, OneEach, HandIsOwn, LostOn
<1>2. QueueType /\ ConnInv /\ LossInv /\ [Next]_vars => LossInv'
  <2> SUFFICES ASSUME QueueType, ConnInv, LossInv, [Next]_vars PROVE LossInv'
    OBVIOUS
  <2>0. \A ch \in Chan : chan[ch] = "closed" => chan'[ch] = "closed"
    BY ClosedStaysClosed
  <2>1. CASE \/ \E c \in Conn : CloseListener(c) \/ Break(c) \/ Notice(c)
             \/ \E ch \in Chan : BreakChannel(ch)
             \/ \E l \in Loop : Close(l)
             \/ Idle \/ UNCHANGED vars
    <3>1. loop' = loop /\ lost' = lost
      BY <2>1 DEF CloseListener, SetupBegins, DialFails, Dial, NewChannel, NewChannelFails, SetupHangs, Break,
                  Notice, BreakChannel, Close, Idle, vars, mailVars
    <3> QED
      BY <2>0, <3>1, LossFrame
  <2>2. CASE Push \/ Listen \/ HandOut \/ ListenFails \/ ListenEnds
    <3>1. \A p \in Publisher : loop'[p] = loop[p]
      BY <2>2, ConsumerParts
    <3>2. lost \subseteq lost' /\ \A x \in lost' : x \in lost \/ x.ch = NoChan
      BY <2>2 DEF Push, Listen, HandOut, ListenFails, ListenEnds, DropInbox, Lose
    <3> QED
      BY <2>0, <3>1, <3>2, LossFrame
  <2>3. CASE LoopStep(Consumer)
    <3>1. \A p \in Publisher : loop'[p] = loop[p]
      BY <2>3, LoopType, Bounds, NamesAssumption
    <3>2. lost' = lost
      BY <2>3 DEF LoopStep, FindConnection, PickBlocks, Pick, Declare, mailVars
    <3> QED
      BY <2>0, <3>1, <3>2, LossFrame
  <2>4. CASE \E p \in Publisher : PublisherLoop(p) \/ Publish(p)
    BY <2>4, LossLoop, LossPublisher DEF PublisherLoop
  <2> QED
    BY <2>1, <2>2, <2>3, <2>4 DEF Next, ConsumerLoop
<1> QED
  BY <1>1, <1>2, ConnInvariant, PTL DEF Spec

\* No channel costs a publisher more than one message.
THEOREM OneLossPerChannel == Spec => []LossPerChannel
<1>1. LossInv => LossPerChannel
  <2> SUFFICES ASSUME LossInv, NEW ch \in Chan, NEW p \in Publisher
               PROVE  Cardinality({x \in lost : x.ch = ch /\ x.msg[1] = p}) <= 1
    BY DEF LossPerChannel
  <2> DEFINE losses == {x \in lost : x.ch = ch /\ x.msg[1] = p}
  <2>1. CASE losses = {}
    <3>1. Cardinality({}) = 0
      BY FS_EmptySet
    <3> QED
      BY <2>1, <3>1
  <2>2. CASE losses # {}
    <3>1. PICK x : losses = {x}
      BY <2>2 DEF LossInv, OneEach
    <3>2. Cardinality({x}) = 1
      BY FS_Singleton
    <3> QED
      BY <3>1, <3>2
  <2> QED
    BY <2>1, <2>2
<1> QED
  BY <1>1, LossInvariant, PTL
-----------------------------------------------------------------------------
(***************************************************************************)
(* The order of delivery.  A message comes before another of its publisher *)
(* when its number is lower.                                               *)
(***************************************************************************)
Comes(m, n) == m[1] = n[1] => m[2] < n[2]

Sorted(s) == \A i, j \in DOMAIN s : i < j => Comes(s[i], s[j])

Elements(s) == {s[i] : i \in DOMAIN s}

Before(s, t) == \A m \in Elements(s), n \in Elements(t) : Comes(m, n)

LEMMA ElementsType ==
  /\ \A s \in Seq(Message) : Elements(s) \subseteq Message
  /\ \A m \in Message : m[1] \in Publisher /\ m[2] \in 1..MaxSent /\ ~Comes(m, m)
  /\ Elements(<<>>) = {} /\ Sorted(<<>>)
<1>1. \A m \in Message : m[1] \in Publisher /\ m[2] \in 1..MaxSent
  BY DEF Message
<1>2. \A m \in Message : ~Comes(m, m)
  BY <1>1, Bounds DEF Comes
<1>3. Elements(<<>>) = {} /\ Sorted(<<>>)
  BY DEF Elements, Sorted
<1>4. \A s \in Seq(Message) : Elements(s) \subseteq Message
  BY DEF Elements
<1> QED
  BY <1>1, <1>2, <1>3, <1>4

LEMMA OneElement ==
  ASSUME NEW m \in Message
  PROVE  Elements(<<m>>) = {m} /\ Sorted(<<m>>)
<1>1. DOMAIN <<m>> = {1} /\ <<m>>[1] = m
  OBVIOUS
<1> QED
  BY <1>1 DEF Elements, Sorted

LEMMA ConcatSorted ==
  ASSUME NEW s \in Seq(Message), NEW t \in Seq(Message)
  PROVE  /\ Elements(s \o t) = Elements(s) \cup Elements(t)
         /\ Sorted(s) /\ Sorted(t) /\ Before(s, t) => Sorted(s \o t)
<1> DEFINE u == s \o t
<1>1. /\ u \in Seq(Message) /\ Len(u) = Len(s) + Len(t) /\ Len(s) \in Nat /\ Len(t) \in Nat
      /\ \A i \in 1 .. Len(s) + Len(t) : u[i] = IF i <= Len(s) THEN s[i] ELSE t[i - Len(s)]
      /\ DOMAIN u = 1..Len(u) /\ DOMAIN s = 1..Len(s) /\ DOMAIN t = 1..Len(t)
  BY ConcatProperties
<1> HIDE DEF u
<1>2. \A i \in 1..Len(s) : i \in DOMAIN u /\ u[i] = s[i]
  BY <1>1
<1>3. ASSUME NEW i \in 1..Len(t)
      PROVE  i + Len(s) \in DOMAIN u /\ u[i + Len(s)] = t[i]
  <2>1. /\ i + Len(s) \in 1 .. Len(s) + Len(t)
        /\ ~(i + Len(s) <= Len(s)) /\ i + Len(s) - Len(s) = i
    BY <1>1
  <2>2. u[i + Len(s)] = t[i + Len(s) - Len(s)]
    BY <1>1, <2>1
  <2> QED
    BY <1>1, <2>1, <2>2
<1>4. \A i \in DOMAIN u : i \in 1..Len(s) \/ (i - Len(s) \in 1..Len(t) /\ u[i] = t[i - Len(s)] /\ i > Len(s))
  BY <1>1
<1>5. Elements(u) = Elements(s) \cup Elements(t)
  <2>1. Elements(u) \subseteq Elements(s) \cup Elements(t)
    BY <1>1, <1>2, <1>4 DEF Elements
  <2>2. Elements(s) \subseteq Elements(u) /\ Elements(t) \subseteq Elements(u)
    <3>1. \A i \in 1..Len(s) : s[i] \in Elements(u)
      BY <1>2 DEF Elements
    <3>2. \A i \in 1..Len(t) : t[i] \in Elements(u)
      <4> TAKE i \in 1..Len(t)
      <4>1. i + Len(s) \in DOMAIN u /\ u[i + Len(s)] = t[i]
        BY <1>3
      <4> QED
        BY <4>1 DEF Elements
    <3>3. DOMAIN s = 1..Len(s) /\ DOMAIN t = 1..Len(t)
      BY <1>1
    <3> QED
      BY <3>1, <3>2, <3>3 DEF Elements
  <2> QED
    BY <2>1, <2>2
<1>6. ASSUME Sorted(s), Sorted(t), Before(s, t)
      PROVE  Sorted(u)
  <2> SUFFICES ASSUME NEW i \in DOMAIN u, NEW j \in DOMAIN u, i < j
               PROVE  Comes(u[i], u[j])
    BY DEF Sorted
  <2>1. CASE j \in 1..Len(s)
    <3>1. i \in 1..Len(s)
      BY <1>1, <2>1
    <3> QED
      BY <1>1, <1>2, <1>6, <2>1, <3>1 DEF Sorted
  <2>2. CASE i \in 1..Len(s) /\ j \notin 1..Len(s)
    BY <1>1, <1>2, <1>4, <1>6, <2>2 DEF Before, Elements
  <2>3. CASE i \notin 1..Len(s) /\ j \notin 1..Len(s)
    <3>1. i - Len(s) < j - Len(s)
      BY <1>1
    <3> QED
      BY <1>1, <1>4, <1>6, <2>3, <3>1 DEF Sorted
  <2> QED
    BY <2>1, <2>2, <2>3
<1> QED
  BY <1>5, <1>6 DEF u

LEMMA TailSorted ==
  ASSUME NEW s \in Seq(Message), s # <<>>, Sorted(s)
  PROVE  /\ Tail(s) \in Seq(Message) /\ Head(s) \in Message /\ <<Head(s)>> \in Seq(Message)
         /\ Elements(s) = {Head(s)} \cup Elements(Tail(s))
         /\ Sorted(Tail(s))
         /\ \A n \in Elements(Tail(s)) : Comes(Head(s), n)
<1>1. /\ Tail(s) \in Seq(Message) /\ Len(s) \in Nat /\ Len(s) >= 1 /\ Head(s) \in Message
      /\ <<Head(s)>> \in Seq(Message)
      /\ DOMAIN Tail(s) = 1..(Len(s) - 1) /\ DOMAIN s = 1..Len(s)
      /\ \A i \in 1..(Len(s) - 1) : Tail(s)[i] = s[i + 1]
      /\ Head(s) = s[1]
  OBVIOUS
<1>2. \A i \in 1..(Len(s) - 1) : i + 1 \in 1..Len(s)
  BY <1>1
<1>3. \A i \in 1..Len(s) : i = 1 \/ (i - 1 \in 1..(Len(s) - 1) /\ Tail(s)[i - 1] = s[i])
  BY <1>1
<1>4. Elements(s) = {Head(s)} \cup Elements(Tail(s))
  <2>1. Head(s) \in Elements(s) /\ Elements(Tail(s)) \subseteq Elements(s)
    BY <1>1, <1>2 DEF Elements
  <2>2. Elements(s) \subseteq {Head(s)} \cup Elements(Tail(s))
    <3> SUFFICES ASSUME NEW i \in 1..Len(s)
                 PROVE  s[i] \in {Head(s)} \cup Elements(Tail(s))
      BY <1>1 DEF Elements
    <3>1. CASE i = 1
      BY <1>1, <3>1
    <3>2. CASE i - 1 \in 1..(Len(s) - 1) /\ Tail(s)[i - 1] = s[i]
      BY <1>1, <3>2 DEF Elements
    <3> QED
      BY <1>3, <3>1, <3>2
  <2> QED
    BY <2>1, <2>2
<1>5. Sorted(Tail(s))
  BY <1>1, <1>2 DEF Sorted
<1>6. \A i \in 1..(Len(s) - 1) : Comes(s[1], s[i + 1])
  BY <1>1, <1>2 DEF Sorted
<1>7. \A n \in Elements(Tail(s)) : Comes(Head(s), n)
  BY <1>1, <1>6 DEF Elements
<1> QED
  BY <1>1, <1>4, <1>5, <1>7

Held == loop[Consumer].hand

Way == Elements(received) \cup Elements(Held) \cup Elements(inbox) \cup Elements(queue)

\* What is on its way is in order from the receiver back to the queue.
Chain ==
  /\ Sorted(received) /\ Sorted(Held) /\ Sorted(inbox) /\ Sorted(queue)
  /\ Before(received, Held) /\ Before(received, inbox) /\ Before(received, queue)
  /\ Before(Held, inbox) /\ Before(Held, queue)
  /\ Before(inbox, queue)

\* Whatever has left a publisher was sent before what its loop has in hand.
Counts(m) ==
  /\ m \in Message
  /\ m[2] <= sent[m[1]]
  /\ loop[m[1]].at = "publish" => m[2] < sent[m[1]]

Counted == (\A m \in Way : Counts(m)) /\ \A x \in lost : Counts(x.msg)

HandIsLast == \A p \in Publisher : loop[p].at = "publish" => loop[p].hand = <<<<p, sent[p]>>>>

LostIsGone == \A x \in lost : x.msg \notin Way

OrderInv == Chain /\ Counted /\ HandIsLast /\ LostIsGone
-----------------------------------------------------------------------------
LEMMA OrderTypes ==
  ASSUME QueueType
  PROVE  /\ received \in Seq(Message) /\ Held \in Seq(Message)
         /\ inbox \in Seq(Message) /\ queue \in Seq(Message)
         /\ \A m \in Way : m \in Message /\ m[1] \in Publisher /\ m[2] \in Nat
         /\ \A p \in Publisher : sent[p] \in Nat
<1>1. /\ received \in Seq(Message) /\ Held \in Seq(Message)
      /\ inbox \in Seq(Message) /\ queue \in Seq(Message)
  BY Bounds DEF QueueType, LoopRecord, Held
<1>2. \A m \in Way : m \in Message
  BY <1>1, ElementsType DEF Way
<1>3. \A m \in Way : m[1] \in Publisher /\ m[2] \in Nat
  BY <1>2, ElementsType, Bounds
<1>4. \A p \in Publisher : sent[p] \in Nat
  BY Bounds DEF QueueType
<1> QED
  BY <1>1, <1>2, <1>3, <1>4

\* Steps that move no message, or forget what the consumer holds.
LEMMA OrderFrame ==
  ASSUME QueueType, OrderInv, UNCHANGED mailVars,
         Held' \in {Held, <<>>},
         \A p \in Publisher : loop'[p].at = "publish" => loop'[p] = loop[p]
  PROVE  OrderInv'
<1> USE DEF OrderInv
<1>1. Elements(Held') \subseteq Elements(Held) /\ Sorted(Held')
  BY ElementsType DEF Chain
<1>2. Chain'
  BY <1>1 DEF Chain, Before, mailVars
<1>3. Way' \subseteq Way
  BY <1>1 DEF Way, mailVars
<1>4. ASSUME NEW m, Counts(m)
      PROVE  Counts(m)'
  <2>1. m[1] \in Publisher
    BY <1>4, ElementsType DEF Counts
  <2> QED
    BY <1>4, <2>1 DEF Counts, mailVars
<1>5. Counted'
  <2>1. \A m \in Way' : Counts(m)'
    BY <1>3, <1>4 DEF Counted
  <2>2. \A x \in lost : Counts(x.msg)'
    BY <1>4 DEF Counted
  <2> QED
    BY <2>1, <2>2 DEF Counted, mailVars
<1>6. HandIsLast'
  BY DEF HandIsLast, mailVars
<1>7. LostIsGone'
  BY <1>3 DEF LostIsGone, mailVars
<1> QED
  BY <1>2, <1>5, <1>6, <1>7

LEMMA OrderPublish ==
  ASSUME QueueType, OrderInv, NEW p \in Publisher, Publish(p)
  PROVE  OrderInv'
<1> USE DEF OrderInv
<1>1. /\ UNCHANGED <<queue, inbox, received, lost>>
      /\ sent'[p] = sent[p] + 1 /\ \A q \in Publisher \ {p} : sent'[q] = sent[q]
      /\ loop'[p].hand = <<<<p, sent'[p]>>>>
      /\ \A q \in Publisher \ {p} : loop'[q] = loop[q]
  <2>1. \A k \in Loop : k # p => loop'[k] = loop[k]
    BY PublisherParts
  <2>2. /\ sent'[p] = sent[p] + 1 /\ \A q \in Publisher \ {p} : sent'[q] = sent[q]
        /\ loop'[p].hand = <<<<p, sent'[p]>>>>
    BY PublisherParts
  <2>3. UNCHANGED <<queue, inbox, received, lost>>
    BY DEF Publish
  <2> QED
    BY <2>1, <2>2, <2>3, Bounds
<1>2. Held' = Held
  <2>1. loop'[Consumer] = loop[Consumer]
    BY PublisherParts, Bounds, NamesAssumption
  <2> QED
    BY <2>1 DEF Held
<1>3. Chain' /\ Way' = Way
  BY <1>1, <1>2 DEF Chain, Before, Way
<1>4. ASSUME NEW m, Counts(m)
      PROVE  Counts(m)'
  <2>1. m[1] \in Publisher /\ m[2] \in Nat /\ sent[p] \in Nat
    BY <1>4, ElementsType, OrderTypes, Bounds DEF Counts
  <2>2. CASE m[1] = p
    BY <1>1, <1>4, <2>1, <2>2 DEF Counts
  <2>3. CASE m[1] # p
    BY <1>1, <1>4, <2>1, <2>3 DEF Counts
  <2> QED
    BY <2>2, <2>3
<1>5. Counted'
  <2>1. \A m \in Way' : Counts(m)'
    BY <1>3, <1>4 DEF Counted
  <2>2. \A x \in lost : Counts(x.msg)'
    BY <1>4 DEF Counted
  <2> QED
    BY <1>1, <2>1, <2>2 DEF Counted
<1>6. HandIsLast'
  BY <1>1 DEF HandIsLast
<1>7. LostIsGone'
  BY <1>1, <1>3 DEF LostIsGone
<1> QED
  BY <1>3, <1>5, <1>6, <1>7

\* The message in hand reaches the queue, or is lost.
LEMMA OrderKept ==
  ASSUME QueueType, OrderInv, NEW p \in Publisher, KeepPublishing(p)
  PROVE  OrderInv'
<1> USE DEF OrderInv
<1> DEFINE msg == <<p, sent[p]>>
<1>1. /\ UNCHANGED <<inbox, received, sent>> /\ loop[p].at = "publish" /\ loop[p].hand = <<msg>>
      /\ loop'[p].at # "publish"
      /\ \A q \in Publisher \ {p} : loop'[q] = loop[q]
  BY PublisherParts, Bounds DEF KeepPublishing, HandIsLast
<1>2. Held' = Held
  <2>1. loop'[Consumer] = loop[Consumer]
    BY PublisherParts, Bounds, NamesAssumption
  <2> QED
    BY <2>1 DEF Held
<1>3. msg \in Message /\ <<msg>> \in Seq(Message) /\ msg[1] = p /\ msg[2] = sent[p]
  <2>1. loop[p].hand \in Seq(Message)
    BY Bounds DEF QueueType, LoopRecord
  <2>2. <<msg>> \in Seq(Message) /\ Len(<<msg>>) = 1 /\ <<msg>>[1] = msg
    BY <1>1, <2>1
  <2> QED
    BY <2>2, ElementsType, OneElement
<1>4. ASSUME NEW m, Counts(m)
      PROVE  Counts(m)' /\ m # msg /\ (m[1] = p => m[2] < sent[p])
  <2>1. m[1] \in Publisher /\ m[2] \in Nat /\ sent[p] \in Nat
    BY <1>4, ElementsType, OrderTypes, Bounds DEF Counts
  <2>2. m[1] = p => m[2] < sent[p]
    BY <1>1, <1>4 DEF Counts
  <2>3. m # msg
    BY <1>3, <2>1, <2>2
  <2>4. Counts(m)'
    <3>1. CASE m[1] = p
      BY <1>1, <1>4, <3>1 DEF Counts
    <3>2. CASE m[1] # p
      BY <1>1, <1>4, <2>1, <3>2 DEF Counts
    <3> QED
      BY <3>1, <3>2
  <2> QED
    BY <2>2, <2>3, <2>4
<1>5. ASSUME NEW m, m = msg
      PROVE  Counts(m)'
  BY <1>1, <1>3, <1>5, OrderTypes DEF Counts
<1>6. HandIsLast'
  BY <1>1 DEF HandIsLast
<1>7. CASE queue' = queue \o <<msg>> /\ lost' = lost
  <2>1. Elements(queue') = Elements(queue) \cup {msg}
    <3>1. Elements(queue \o <<msg>>) = Elements(queue) \cup Elements(<<msg>>)
      BY <1>3, OrderTypes, ConcatSorted
    <3>2. Elements(<<msg>>) = {msg}
      BY <1>3, OneElement
    <3> QED
      BY <1>7, <3>1, <3>2
  <2>2. \A m \in Way : Comes(m, msg)
    BY <1>3, <1>4 DEF Comes, Counted
  <2>3. Before(queue, <<msg>>)
    BY <1>3, <2>2, OneElement DEF Before, Way
  <2>4. Sorted(queue')
    BY <1>3, <1>7, <2>3, OrderTypes, ConcatSorted, OneElement DEF Chain
  <2>5. Before(received, queue)' /\ Before(Held, queue)' /\ Before(inbox, queue)'
    BY <1>1, <1>2, <2>1, <2>2 DEF Before, Chain, Way
  <2>6. Chain'
    BY <1>1, <1>2, <2>4, <2>5 DEF Chain, Before
  <2>7. Way' = Way \cup {msg}
    BY <1>1, <1>2, <2>1 DEF Way
  <2>8. Counted'
    <3>1. \A m \in Way' : Counts(m)'
      BY <1>4, <1>5, <2>7 DEF Counted
    <3>2. \A x \in lost : Counts(x.msg)'
      BY <1>4 DEF Counted
    <3> QED
      BY <1>7, <3>1, <3>2 DEF Counted
  <2>9. LostIsGone'
    <3>1. \A x \in lost : x.msg # msg
      BY <1>4 DEF Counted
    <3> QED
      BY <1>7, <2>7, <3>1 DEF LostIsGone
  <2> QED
    BY <1>6, <2>6, <2>8, <2>9
<1>8. CASE queue' = queue /\ \E ch : Lose(<<msg>>, ch)
  <2>1. \A x \in lost' : x \in lost \/ x.msg = msg
    <3>1. PICK ch : lost' = lost \cup {[msg |-> <<msg>>[i], ch |-> ch] : i \in DOMAIN <<msg>>}
      BY <1>8 DEF Lose
    <3> QED
      BY <3>1
  <2>2. Chain' /\ Way' = Way
    BY <1>1, <1>2, <1>8 DEF Chain, Before, Way
  <2>3. Counted'
    <3>1. \A m \in Way' : Counts(m)'
      BY <1>4, <2>2 DEF Counted
    <3>2. \A x \in lost' : Counts(x.msg)'
      BY <1>4, <1>5, <2>1 DEF Counted
    <3> QED
      BY <3>1, <3>2 DEF Counted
  <2>4. msg \notin Way
    BY <1>4 DEF Counted
  <2>5. LostIsGone'
    BY <2>1, <2>2, <2>4 DEF LostIsGone
  <2> QED
    BY <1>6, <2>2, <2>3, <2>5
<1> QED
  BY <1>1, <1>7, <1>8 DEF KeepPublishing

\* A message moves one place on towards the receiver.
LEMMA OrderMoves ==
  ASSUME QueueType, OrderInv, Push \/ Listen \/ HandOut
  PROVE  OrderInv'
<1> USE DEF OrderInv
<1>0. /\ UNCHANGED <<sent, lost>> /\ \A p \in Publisher : loop'[p] = loop[p]
  BY ConsumerParts DEF Push, Listen, HandOut
<1>1. Chain' /\ Way' \subseteq Way
  <2>1. CASE Push
    <3>1. /\ UNCHANGED <<received, loop>> /\ queue # <<>> /\ queue' = Tail(queue)
          /\ inbox' = inbox \o <<Head(queue)>>
      BY <2>1, OrderTypes DEF Push
    <3>2. Held' = Held
      BY <3>1 DEF Held
    <3> DEFINE msg == Head(queue)
    <3>3. /\ msg \in Message /\ <<msg>> \in Seq(Message) /\ Sorted(queue')
          /\ Elements(queue) = {msg} \cup Elements(queue')
          /\ \A n \in Elements(queue') : Comes(msg, n)
      BY <3>1, OrderTypes, TailSorted DEF Chain
    <3>4. Elements(<<msg>>) = {msg} /\ Sorted(<<msg>>)
      BY <3>3, OneElement
    <3>5. Elements(inbox') = Elements(inbox) \cup {msg}
      <4>1. Elements(inbox \o <<msg>>) = Elements(inbox) \cup Elements(<<msg>>)
        BY <3>3, OrderTypes, ConcatSorted
      <4> QED
        BY <3>1, <3>4, <4>1
    <3>6. Before(inbox, <<msg>>)
      BY <3>3, <3>4 DEF Before, Chain
    <3>7. Sorted(inbox')
      BY <3>1, <3>3, <3>4, <3>6, OrderTypes, ConcatSorted DEF Chain
    <3>8. Before(received, inbox)' /\ Before(received, queue)'
      BY <3>1, <3>3, <3>5 DEF Before, Chain
    <3>9. Before(Held, inbox)' /\ Before(Held, queue)'
      BY <3>2, <3>3, <3>5 DEF Before, Chain
    <3>10. Before(inbox, queue)'
      BY <3>3, <3>5 DEF Before, Chain
    <3>11. Chain'
      BY <3>1, <3>2, <3>3, <3>7, <3>8, <3>9, <3>10 DEF Chain, Before
    <3> QED
      BY <3>1, <3>2, <3>3, <3>5, <3>11 DEF Way
  <2>2. CASE Listen
    <3>1. /\ UNCHANGED <<received, queue>> /\ inbox # <<>> /\ inbox' = Tail(inbox)
          /\ Goes(Consumer, "hand", <<Head(inbox)>>)
      BY <2>2 DEF Listen
    <3> DEFINE msg == Head(inbox)
    <3>2. /\ msg \in Message /\ <<msg>> \in Seq(Message) /\ Sorted(inbox')
          /\ Elements(inbox) = {msg} \cup Elements(inbox')
          /\ \A n \in Elements(inbox') : Comes(msg, n)
      BY <3>1, OrderTypes, TailSorted DEF Chain
    <3>3. Held' = <<msg>>
      <4>1. "hand" \in LoopState
        BY DEF LoopState
      <4> QED
        BY <3>1, <3>2, <4>1, GoesParts, Bounds DEF Held
    <3>4. Elements(Held') = {msg} /\ Sorted(Held')
      BY <3>2, <3>3, OneElement
    <3>5. Before(received, Held)' /\ Before(received, inbox)'
      BY <3>1, <3>2, <3>4 DEF Before, Chain
    <3>6. Before(Held, inbox)' /\ Before(Held, queue)' /\ Before(inbox, queue)'
      BY <3>1, <3>2, <3>4 DEF Before, Chain
    <3>7. Chain'
      BY <3>1, <3>2, <3>4, <3>5, <3>6 DEF Chain, Before
    <3> QED
      BY <3>1, <3>2, <3>4, <3>7 DEF Way
  <2>3. CASE HandOut
    <3>1. /\ UNCHANGED <<inbox, queue>> /\ received' = received \o Held
          /\ Goes(Consumer, "wait", <<>>)
      BY <2>3 DEF HandOut, Held
    <3>2. Held' = <<>>
      <4>1. "wait" \in LoopState
        BY DEF LoopState
      <4> QED
        BY <3>1, <4>1, GoesParts, SequenceTypes, Bounds DEF Held
    <3>3. Elements(received') = Elements(received) \cup Elements(Held)
      BY <3>1, OrderTypes, ConcatSorted
    <3>4. Sorted(received')
      BY <3>1, OrderTypes, ConcatSorted DEF Chain
    <3>5. Elements(Held') = {} /\ Sorted(Held')
      BY <3>2, ElementsType
    <3>6. Before(received, inbox)' /\ Before(received, queue)'
      BY <3>1, <3>3 DEF Before, Chain
    <3>7. Chain'
      BY <3>1, <3>4, <3>5, <3>6 DEF Chain, Before
    <3> QED
      BY <3>1, <3>3, <3>5, <3>7 DEF Way
  <2> QED
    BY <2>1, <2>2, <2>3
<1>2. ASSUME NEW m, Counts(m)
      PROVE  Counts(m)'
  BY <1>0, <1>2, ElementsType DEF Counts
<1>3. Counted'
  <2>1. \A m \in Way' : Counts(m)'
    BY <1>1, <1>2 DEF Counted
  <2>2. \A x \in lost : Counts(x.msg)'
    BY <1>2 DEF Counted
  <2> QED
    BY <1>0, <2>1, <2>2 DEF Counted
<1>4. HandIsLast'
  BY <1>0 DEF HandIsLast
<1>5. LostIsGone'
  BY <1>0, <1>1 DEF LostIsGone
<1> QED
  BY <1>1, <1>3, <1>4, <1>5

\* A consumer that leaves its channel loses what the library holds for it.
LEMMA OrderDropped ==
  ASSUME QueueType, OrderInv, ListenFails \/ ListenEnds
  PROVE  OrderInv'
<1> USE DEF OrderInv
<1>0. /\ sent' = sent /\ received' = received /\ inbox' = <<>> /\ queue' = <<>> \o queue
      /\ Lose(inbox, NoChan) /\ \A p \in Publisher : loop'[p] = loop[p]
  BY ConsumerParts DEF ListenFails, ListenEnds, DropInbox, Unacked
<1>1. queue' = queue
  <2>1. queue \in Seq(Message)
    BY OrderTypes
  <2> QED
    BY <1>0, <2>1
<1>2. Held' = <<>>
  <2>1. "ended" \in LoopState
    BY DEF LoopState
  <2>2. Restart(Consumer) \/ Goes(Consumer, "ended", <<>>)
    BY DEF ListenFails, ListenEnds
  <2> QED
    BY <2>1, <2>2, GoesParts, RestartParts, SequenceTypes, Bounds DEF Held
<1>3. Elements(<<>>) = {} /\ Sorted(<<>>)
  BY ElementsType
<1>4. Chain'
  BY <1>0, <1>1, <1>2, <1>3 DEF Chain, Before
<1>5. Way' = Elements(received) \cup Elements(queue)
  BY <1>0, <1>1, <1>2, <1>3 DEF Way
<1>6. \A x \in lost' : x \in lost \/ x.msg \in Elements(inbox)
  <2>1. lost' = lost \cup {[msg |-> inbox[i], ch |-> NoChan] : i \in DOMAIN inbox}
    BY <1>0 DEF Lose
  <2> QED
    BY <2>1 DEF Elements
<1>7. ASSUME NEW m, Counts(m)
      PROVE  Counts(m)'
  BY <1>0, <1>7, ElementsType DEF Counts
<1>8. Counted'
  <2>1. \A m \in Way' : Counts(m)'
    BY <1>5, <1>7 DEF Counted, Way
  <2>2. \A x \in lost' : Counts(x.msg)'
    BY <1>6, <1>7 DEF Counted, Way
  <2> QED
    BY <2>1, <2>2 DEF Counted
<1>9. HandIsLast'
  BY <1>0 DEF HandIsLast
<1>10. LostIsGone'
  <2>1. \A m \in Elements(inbox) : m \in Message /\ m \notin Elements(received) /\ m \notin Elements(queue)
    BY ElementsType, OrderTypes DEF Chain, Before
  <2>2. \A x \in lost : x.msg \notin Elements(received) /\ x.msg \notin Elements(queue)
    BY DEF LostIsGone, Way
  <2> QED
    BY <1>5, <1>6, <2>1, <2>2 DEF LostIsGone
<1> QED
  BY <1>4, <1>8, <1>9, <1>10

LEMMA OrderInvariant == Spec => []OrderInv
<1>1. Init => OrderInv
  <2> SUFFICES ASSUME Init PROVE OrderInv
    OBVIOUS
  <2>1. received = <<>> /\ Held = <<>> /\ inbox = <<>> /\ queue = <<>> /\ lost = {}
    BY Bounds DEF Init, Held
  <2>2. \A p \in Publisher : loop[p].at = "pick"
    BY Bounds DEF Init
  <2>3. Way = {}
    BY <2>1, ElementsType DEF Way
  <2>4. Chain
    BY <2>1, ElementsType DEF Chain, Before
  <2> QED
    BY <2>1, <2>2, <2>3, <2>4 DEF OrderInv, Counted, HandIsLast, LostIsGone
<1>2. QueueType /\ LossInv /\ OrderInv /\ [Next]_vars => OrderInv'
  <2> SUFFICES ASSUME QueueType, LossInv, OrderInv, [Next]_vars PROVE OrderInv'
    OBVIOUS
  <2>1. CASE \/ \E c \in Conn : CloseListener(c) \/ Break(c) \/ Notice(c)
             \/ \E ch \in Chan : BreakChannel(ch)
             \/ \E l \in Loop : Close(l)
             \/ Idle \/ UNCHANGED vars
    <3>1. loop' = loop /\ UNCHANGED mailVars
      BY <2>1 DEF CloseListener, SetupBegins, DialFails, Dial, NewChannel, NewChannelFails, SetupHangs, Break,
                  Notice, BreakChannel, Close, Idle, vars
    <3> QED
      BY <3>1, OrderFrame DEF Held
  <2>2. ASSUME NEW p \in Publisher, LoopStep(p) \/ PublisherEnds(p)
        PROVE  OrderInv'
    <3>1. UNCHANGED mailVars /\ Consumer # p
      BY <2>2, NamesAssumption DEF LoopStep, FindConnection, PickBlocks, Pick, Declare, PublisherEnds
    <3>2. \A k \in Loop : k # p => loop'[k] = loop[k]
      BY <2>2, LoopType, PublisherParts, Bounds
    <3>3. loop'[p].at # "publish"
      <4>1. CASE PublisherEnds(p)
        BY <4>1, PublisherParts
      <4>2. CASE LoopStep(p)
        <5>1. loop[p].hand = <<>>
          BY <4>2 DEF LoopStep, FindConnection, PickBlocks, Pick, Declare, LossInv, HandIsOwn
        <5> QED
          BY <4>2, <5>1, LoopType, Bounds
      <4> QED
        BY <2>2, <4>1, <4>2
    <3>4. Held' = Held /\ \A q \in Publisher : loop'[q].at = "publish" => loop'[q] = loop[q]
      BY <3>1, <3>2, <3>3, Bounds DEF Held
    <3> QED
      BY <3>1, <3>4, OrderFrame
  <2>3. ASSUME NEW p \in Publisher, Publish(p) \/ KeepPublishing(p)
        PROVE  OrderInv'
    BY <2>3, OrderPublish, OrderKept
  <2>4. CASE LoopStep(Consumer)
    <3>1. UNCHANGED mailVars
      BY <2>4 DEF LoopStep, FindConnection, PickBlocks, Pick, Declare
    <3>2. Held' \in {Held, <<>>} /\ \A p \in Publisher : loop'[p] = loop[p]
      BY <2>4, LoopType, Bounds, NamesAssumption DEF Held
    <3> QED
      BY <3>1, <3>2, OrderFrame
  <2>5. CASE Push \/ Listen \/ HandOut
    BY <2>5, OrderMoves
  <2>6. CASE ListenFails \/ ListenEnds
    BY <2>6, OrderDropped
  <2> QED
    BY <2>1, <2>2, <2>3, <2>4, <2>5, <2>6 DEF Next, PublisherLoop, ConsumerLoop
<1> QED
  BY <1>1, <1>2, ConnInvariant, LossInvariant, PTL DEF Spec

\* Messages on their way keep their order, and none is there twice or is lost
\* as well.
THEOREM AlwaysDeliveredOnceInOrder == Spec => []DeliveredOnceInOrder
<1>1. QueueType /\ OrderInv => DeliveredOnceInOrder
  <2> SUFFICES ASSUME QueueType, OrderInv PROVE DeliveredOnceInOrder
    OBVIOUS
  <2> USE DEF OrderInv
  <2>1. PICK s \in Seq(Message) : /\ s = received \o Held
                                  /\ Elements(s) = Elements(received) \cup Elements(Held)
                                  /\ Sorted(s)
    <3>1. received \in Seq(Message) /\ Held \in Seq(Message) /\ received \o Held \in Seq(Message)
      BY OrderTypes, SequenceTypes
    <3>2. Sorted(received) /\ Sorted(Held) /\ Before(received, Held)
      BY DEF Chain
    <3>3. /\ Elements(received \o Held) = Elements(received) \cup Elements(Held)
          /\ Sorted(received \o Held)
      BY <3>1, <3>2, ConcatSorted
    <3> QED
      BY <3>1, <3>3
  <2>2. Before(s, inbox)
    BY <2>1 DEF Chain, Before
  <2>3. PICK t \in Seq(Message) : /\ t = s \o inbox
                                  /\ Elements(t) = Elements(s) \cup Elements(inbox)
                                  /\ Sorted(t)
    BY <2>1, <2>2, OrderTypes, SequenceTypes, ConcatSorted DEF Chain
  <2>4. Before(t, queue)
    BY <2>1, <2>3 DEF Chain, Before
  <2>5. PICK way \in Seq(Message) : /\ way = t \o queue
                                    /\ Elements(way) = Elements(t) \cup Elements(queue)
                                    /\ Sorted(way)
    BY <2>3, <2>4, OrderTypes, SequenceTypes, ConcatSorted DEF Chain
  <2>6. way = received \o loop[Consumer].hand \o inbox \o queue
    BY <2>1, <2>3, <2>5 DEF Held
  <2>7. \A i, j \in DOMAIN way : i < j /\ way[i][1] = way[j][1] => way[i][2] < way[j][2]
    BY <2>5 DEF Sorted, Comes
  <2>8. \A i \in DOMAIN way : way[i] \in Way
    BY <2>1, <2>3, <2>5 DEF Elements, Way
  <2>9. \A x \in lost, i \in DOMAIN way : x.msg # way[i]
    BY <2>8 DEF LostIsGone
  <2> QED
    BY <2>6, <2>7, <2>9 DEF DeliveredOnceInOrder
<1> QED
  BY <1>1, ConnInvariant, OrderInvariant, PTL
-----------------------------------------------------------------------------
(***************************************************************************)
(* The types, with what a loop may hold.                                   *)
(***************************************************************************)
\* The consumer's loop has a delivery in its hand while it hands it out.
ConsumerHand ==
  IF loop[Consumer].at = "hand" THEN \E m \in Message : Held = <<m>> ELSE Held = <<>>

LEMMA ConsumerHandInvariant == Spec => []ConsumerHand
<1>1. Init => ConsumerHand
  BY Bounds DEF Init, ConsumerHand, Held
<1>2. QueueType /\ ConsumerHand /\ [Next]_vars => ConsumerHand'
  <2> SUFFICES ASSUME QueueType, ConsumerHand, [Next]_vars PROVE ConsumerHand'
    OBVIOUS
  <2>0. /\ Consumer \in Loop /\ Consumer \notin Publisher /\ Publisher \subseteq Loop
        /\ inbox \in Seq(Message) /\ <<>> \in Seq(Message)
    BY Bounds, NamesAssumption, SequenceTypes DEF QueueType
  <2>1. CASE loop'[Consumer] = loop[Consumer]
    BY <2>1 DEF ConsumerHand, Held
  <2>2. CASE LoopStep(Consumer)
    <3>1. loop[Consumer].at # "hand"
      BY <2>2 DEF LoopStep, FindConnection, PickBlocks, Pick, Declare
    <3>2. loop'[Consumer].hand = <<>> /\ loop'[Consumer].at # "hand"
      BY <2>0, <2>2, <3>1, LoopType DEF ConsumerHand, Held
    <3> QED
      BY <3>2 DEF ConsumerHand, Held
  <2>3. CASE Listen
    <3>1. inbox # <<>> /\ Goes(Consumer, "hand", <<Head(inbox)>>)
      BY <2>3 DEF Listen
    <3>2. Head(inbox) \in Message /\ <<Head(inbox)>> \in Seq(Message) /\ "hand" \in LoopState
      BY <2>0, <3>1, SequenceTypes DEF LoopState
    <3>3. loop'[Consumer].hand = <<Head(inbox)>> /\ loop'[Consumer].at = "hand"
      BY <2>0, <3>1, <3>2, GoesParts
    <3> QED
      BY <3>2, <3>3 DEF ConsumerHand, Held
  <2>4. CASE HandOut \/ ListenFails \/ ListenEnds
    <3>1. Restart(Consumer) \/ \E at \in {"wait", "ended"} : Goes(Consumer, at, <<>>)
      BY <2>4 DEF HandOut, ListenFails, ListenEnds
    <3>2. loop'[Consumer].hand = <<>> /\ loop'[Consumer].at # "hand"
      BY <2>0, <3>1, GoesParts, RestartParts DEF LoopState
    <3> QED
      BY <3>2 DEF ConsumerHand, Held
  <2>5. ASSUME NEW p \in Publisher, PublisherLoop(p) \/ Publish(p)
        PROVE  ConsumerHand'
    <3>1. loop'[Consumer] = loop[Consumer]
      BY <2>0, <2>5, LoopType, PublisherParts DEF PublisherLoop
    <3> QED
      BY <2>1, <3>1
  <2>6. CASE \/ \E c \in Conn : CloseListener(c) \/ Break(c) \/ Notice(c)
             \/ \E ch \in Chan : BreakChannel(ch)
             \/ Push \/ (\E l \in Loop : Close(l)) \/ Idle \/ UNCHANGED vars
    <3>1. loop' = loop
      BY <2>6 DEF CloseListener, SetupBegins, DialFails, Dial, NewChannel, NewChannelFails, SetupHangs, Break,
                  Notice, BreakChannel, Push, Close, Idle, vars
    <3> QED
      BY <2>1, <3>1
  <2> QED
    BY <2>2, <2>3, <2>4, <2>5, <2>6 DEF Next, ConsumerLoop
<1> QED
  BY <1>1, <1>2, ConnInvariant, PTL DEF Spec

\* What is lost was a message, and only loops are closed.
Ledger ==
  /\ closed \subseteq Loop
  /\ lost \subseteq [msg : Message, ch : Chan \cup {NoChan}]

LEMMA LedgerInvariant == Spec => []Ledger
<1>1. Init => Ledger
  BY DEF Init, Ledger
<1>2. QueueType /\ Ledger /\ [Next]_vars => Ledger'
  <2> SUFFICES ASSUME QueueType, Ledger, [Next]_vars PROVE Ledger'
    OBVIOUS
  <2>1. ASSUME NEW s \in Seq(Message), NEW ch \in Chan \cup {NoChan}, Lose(s, ch), closed' = closed
        PROVE  Ledger'
    <3>1. \A i \in DOMAIN s : s[i] \in Message
      OBVIOUS
    <3>2. {[msg |-> s[i], ch |-> ch] : i \in DOMAIN s} \subseteq [msg : Message, ch : Chan \cup {NoChan}]
      BY <3>1
    <3> QED
      BY <2>1, <3>2 DEF Lose, Ledger
  <2>2. CASE lost' = lost /\ closed' = closed
    BY <2>2 DEF Ledger
  <2>3. ASSUME NEW p \in Publisher, KeepPublishing(p)
        PROVE  Ledger'
    <3>1. loop[p].hand \in Seq(Message) /\ loop[p].ch \in Chan \cup {NoChan}
      BY Bounds DEF QueueType, LoopRecord
    <3>2. NoChan \in Chan \cup {NoChan} /\ closed' = closed
      BY <2>3 DEF KeepPublishing
    <3>3. lost' = lost \/ Lose(loop[p].hand, NoChan) \/ Lose(loop[p].hand, loop[p].ch)
      BY <2>3 DEF KeepPublishing
    <3> QED
      BY <2>1, <2>2, <3>1, <3>2, <3>3
  <2>4. CASE ListenFails \/ ListenEnds
    <3>1. Lose(inbox, NoChan) /\ closed' = closed /\ inbox \in Seq(Message)
      BY <2>4 DEF ListenFails, ListenEnds, DropInbox, QueueType
    <3> QED
      BY <2>1, <3>1
  <2>5. CASE \E l \in Loop : Close(l)
    BY <2>5 DEF Close, mailVars, Ledger
  <2>6. CASE \/ \E c \in Conn : CloseListener(c) \/ Break(c) \/ Notice(c)
             \/ \E ch \in Chan : BreakChannel(ch)
             \/ Idle \/ UNCHANGED vars
    BY <2>2, <2>6 DEF CloseListener, SetupBegins, DialFails, Dial, NewChannel, NewChannelFails, SetupHangs, Break,
                Notice, BreakChannel, Idle, vars, mailVars
  <2>7. ASSUME NEW l \in Loop, LoopStep(l)
        PROVE  Ledger'
    BY <2>2, <2>7 DEF LoopStep, FindConnection, PickBlocks, Pick, Declare, mailVars
  <2>8. CASE Push \/ Listen \/ HandOut
    BY <2>2, <2>8 DEF Push, Listen, HandOut
  <2>9. CASE \E p \in Publisher : Publish(p) \/ PublisherEnds(p)
    BY <2>2, <2>9 DEF Publish, PublisherEnds, mailVars
  <2> QED
    BY <2>3, <2>4, <2>5, <2>6, <2>7, <2>8, <2>9, Bounds DEF Next, PublisherLoop, ConsumerLoop
<1> QED
  BY <1>1, <1>2, ConnInvariant, PTL DEF Spec

\* The variables keep their types and the bounds of their generations, and no
\* loop ever has more than one message in its hands.
THEOREM TypeCorrect == Spec => []TypeOK
<1>1. QueueType /\ LossInv /\ ConsumerHand /\ Ledger => TypeOK
  <2> SUFFICES ASSUME QueueType, LossInv, ConsumerHand, Ledger PROVE TypeOK
    OBVIOUS
  <2>1. ASSUME NEW l \in Loop
        PROVE  /\ loop[l].at \in LoopState /\ loop[l].conn \in Conn \cup {NoConn}
               /\ loop[l].ch \in Chan \cup {NoChan} /\ Len(loop[l].hand) <= 1
    <3>1. /\ loop[l].at \in LoopState /\ loop[l].conn \in Conn \cup {NoConn}
          /\ loop[l].ch \in Chan \cup {NoChan}
      BY DEF QueueType, LoopRecord
    <3>2. loop[l].hand = <<>> \/ \E m : loop[l].hand = <<m>>
      <4>1. CASE l = Consumer
        BY <4>1 DEF ConsumerHand, Held
      <4>2. CASE l \in Publisher
        BY <4>2 DEF LossInv, HandIsOwn
      <4> QED
        BY <4>1, <4>2 DEF Loop
    <3>3. Len(<<>>) <= 1 /\ \A m : Len(<<m>>) <= 1
      OBVIOUS
    <3> QED
      BY <3>1, <3>2, <3>3
  <2> QED
    BY <2>1 DEF TypeOK, QueueType, Ledger
<1> QED
  BY <1>1, ConnInvariant, LossInvariant, ConsumerHandInvariant, LedgerInvariant, PTL
-----------------------------------------------------------------------------
(***************************************************************************)
(* The library implements the lossy mail of LossyMail: a step of a channel *)
(* or a connection is none of the mail, and the line does not notice that  *)
(* a message moves from the broker to the library and on to the consumer.  *)
(***************************************************************************)
MailView == <<sent, mailHand, mailWay, received>>

LEMMA MailInit == Init => Mail!Init
<1> SUFFICES ASSUME Init PROVE Mail!Init
  OBVIOUS
<1>1. \A l \in Loop : loop[l].hand = <<>>
  BY DEF Init
<1>2. mailHand = [p \in Publisher |-> <<>>]
  BY <1>1, Bounds DEF mailHand
<1>3. <<>> \in Seq(Message) /\ loop[Consumer].hand = <<>> /\ inbox = <<>> /\ queue = <<>>
  BY <1>1, Bounds, SequenceTypes DEF Init
<1>4. mailWay = <<>>
  BY <1>3, ConcatEmptySeq DEF mailWay
<1> QED
  BY <1>2, <1>4 DEF Init, Mail!Init

\* Steps that leave every message where it is.
LEMMA MailStays ==
  ASSUME UNCHANGED <<sent, queue, inbox, received>>,
         \A l \in Loop : loop'[l].hand = loop[l].hand
  PROVE  UNCHANGED MailView
<1>1. mailHand' = mailHand
  BY Bounds DEF mailHand
<1>2. mailWay' = mailWay
  BY Bounds DEF mailWay
<1> QED
  BY <1>1, <1>2 DEF MailView

LEMMA LoopStepMail ==
  ASSUME QueueType, LossInv, ConsumerHand, NEW l \in Loop, LoopStep(l)
  PROVE  UNCHANGED MailView
<1>1. loop[l].at \in {"pick", "ready", "declare"} /\ UNCHANGED mailVars
  BY DEF LoopStep, FindConnection, PickBlocks, Pick, Declare
<1>2. loop[l].hand = <<>>
  <2>1. CASE l = Consumer
    BY <1>1, <2>1 DEF ConsumerHand, Held
  <2>2. CASE l \in Publisher
    BY <1>1, <2>2 DEF LossInv, HandIsOwn
  <2> QED
    BY <2>1, <2>2 DEF Loop
<1>3. \A k \in Loop : loop'[k].hand = loop[k].hand
  BY <1>2, LoopType
<1> QED
  BY <1>1, <1>3, MailStays DEF mailVars

LEMMA PublishMail ==
  ASSUME QueueType, LossInv, NEW p \in Publisher, Publish(p)
  PROVE  Mail!Post(p)
<1>1. /\ loop[p].at = "wait" /\ loop'[p].hand = <<<<p, sent'[p]>>>>
      /\ \A k \in Loop : k # p => loop'[k] = loop[k]
  BY PublisherParts
<1>2. /\ loop[p].hand = <<>> /\ Consumer # p
      /\ sent[p] < MaxSent /\ sent' = [sent EXCEPT ![p] = @ + 1]
      /\ UNCHANGED <<queue, inbox, received>>
  BY <1>1, NamesAssumption DEF LossInv, HandIsOwn, Publish
<1>3. mailHand[p] = <<>>
  BY <1>2 DEF mailHand
<1>4. mailHand' = [mailHand EXCEPT ![p] = <<<<p, sent'[p]>>>>]
  BY <1>1, Bounds DEF mailHand
<1>5. mailWay' = mailWay
  BY <1>1, <1>2, Bounds DEF mailWay
<1> QED
  BY <1>2, <1>3, <1>4, <1>5 DEF Mail!Post

LEMMA KeepPublishingMail ==
  ASSUME QueueType, LossInv, NEW p \in Publisher, KeepPublishing(p)
  PROVE  Mail!Enter(p) \/ Mail!Lose(p)
<1>1. /\ loop[p].at = "publish" /\ loop'[p].hand = <<>> /\ sent' = sent
      /\ \A k \in Loop : k # p => loop'[k] = loop[k]
  BY PublisherParts
<1>2. /\ loop[p].hand # <<>> /\ Consumer # p /\ UNCHANGED <<inbox, received>>
      /\ queue' = queue \/ queue' = queue \o loop[p].hand
  <2>1. PICK no \in Nat : loop[p].hand = <<<<p, no>>>>
    BY <1>1 DEF LossInv, HandIsOwn
  <2>2. UNCHANGED <<inbox, received>> /\ (queue' = queue \/ queue' = queue \o loop[p].hand)
    BY DEF KeepPublishing
  <2>3. loop[p].hand # <<>>
    <3>1. \A x : <<x>> # <<>>
      OBVIOUS
    <3> QED
      BY <2>1, <3>1
  <2> QED
    BY <2>2, <2>3, NamesAssumption
<1>3. Mail!Leave(p)
  <2>1. mailHand[p] # <<>>
    BY <1>2 DEF mailHand
  <2>2. mailHand' = [mailHand EXCEPT ![p] = <<>>]
    BY <1>1, Bounds DEF mailHand
  <2> QED
    BY <2>1, <2>2 DEF Mail!Leave
<1>4. loop'[Consumer] = loop[Consumer]
  BY <1>1, <1>2, Bounds
<1>5. CASE queue' = queue
  <2>1. mailWay' = mailWay
    BY <1>2, <1>4, <1>5 DEF mailWay
  <2> QED
    BY <1>1, <1>2, <1>3, <2>1 DEF Mail!Lose
<1>6. CASE queue' = queue \o loop[p].hand
  <2>1. /\ Held \o inbox \in Seq(Message) /\ queue \in Seq(Message) /\ loop[p].hand \in Seq(Message)
    BY OrderTypes, SequenceTypes, Bounds DEF QueueType, LoopRecord
  <2>2. (Held \o inbox) \o (queue \o loop[p].hand) = ((Held \o inbox) \o queue) \o loop[p].hand
    <3> DEFINE front == Held \o inbox
               mine == loop[p].hand
    <3>1. front \in Seq(Message) /\ mine \in Seq(Message) /\ queue \in Seq(Message)
      BY <2>1
    <3> HIDE DEF front, mine
    <3>2. (front \o queue) \o mine = front \o (queue \o mine)
      BY <3>1, ConcatAssociative
    <3> QED
      BY <3>2 DEF front, mine
  <2>3. mailWay' = mailWay \o mailHand[p]
    BY <1>2, <1>4, <1>6, <2>2 DEF mailWay, mailHand, Held
  <2> QED
    BY <1>1, <1>2, <1>3, <2>3 DEF Mail!Enter
<1> QED
  BY <1>2, <1>5, <1>6

LEMMA PublisherEndsMail ==
  ASSUME QueueType, LossInv, NEW p \in Publisher, PublisherEnds(p)
  PROVE  UNCHANGED MailView
<1>1. /\ loop[p].at = "wait" /\ loop'[p].hand = <<>> /\ UNCHANGED mailVars
      /\ \A k \in Loop : k # p => loop'[k] = loop[k]
  BY PublisherParts DEF PublisherEnds
<1>2. loop[p].hand = <<>>
  BY <1>1 DEF LossInv, HandIsOwn
<1> QED
  BY <1>1, <1>2, MailStays DEF mailVars

\* The first of a line may be taken off and put before the rest.
LEMMA FirstAndRest ==
  ASSUME NEW s \in Seq(Message), s # <<>>
  PROVE  /\ Head(s) \in Message /\ Tail(s) \in Seq(Message)
         /\ s = <<Head(s)>> \o Tail(s)
<1>1. /\ Head(s) \in Message /\ Tail(s) \in Seq(Message) /\ <<Head(s)>> \in Seq(Message)
      /\ Head(s) = s[1] /\ Len(s) \in Nat /\ Len(s) >= 1 /\ Len(Tail(s)) = Len(s) - 1
      /\ \A i \in 1..Len(Tail(s)) : Tail(s)[i] = s[i + 1]
  BY SequenceTypes, HeadTailProperties
<1> DEFINE one == <<Head(s)>>
           both == one \o Tail(s)
<1>2. Len(one) = 1 /\ one[1] = Head(s) /\ one \in Seq(Message)
  BY <1>1
<1>3. /\ both \in Seq(Message) /\ Len(both) = 1 + Len(Tail(s))
      /\ \A i \in 1 .. 1 + Len(Tail(s)) : both[i] = IF i <= 1 THEN one[i] ELSE Tail(s)[i - 1]
  BY <1>1, <1>2, ConcatProperties
<1> HIDE DEF one, both
<1>4. \A i \in 1..Len(s) : both[i] = s[i]
  <2> TAKE i \in 1..Len(s)
  <2>1. CASE i = 1
    BY <1>1, <1>2, <1>3, <2>1
  <2>2. CASE i # 1
    <3>1. i - 1 \in 1..Len(Tail(s)) /\ i \in 1 .. 1 + Len(Tail(s)) /\ ~(i <= 1)
      BY <1>1, <2>2
    <3>2. Tail(s)[i - 1] = s[(i - 1) + 1] /\ (i - 1) + 1 = i
      BY <1>1, <3>1
    <3> QED
      BY <1>3, <3>1, <3>2
  <2> QED
    BY <2>1, <2>2
<1>5. s = both
  BY <1>1, <1>3, <1>4, SeqEqual
<1> QED
  BY <1>1, <1>5 DEF both, one

\* What the broker pushes and what the loop takes stays in line.
LEMMA MovesMail ==
  ASSUME QueueType, ConsumerHand, Push \/ Listen
  PROVE  UNCHANGED MailView
<1>0. /\ Held \in Seq(Message) /\ inbox \in Seq(Message) /\ queue \in Seq(Message)
      /\ <<>> \in Seq(Message)
      /\ \A p \in Publisher : loop'[p] = loop[p]
      /\ UNCHANGED <<sent, received>>
  BY OrderTypes, SequenceTypes, ConsumerParts DEF Push, Listen
<1>1. mailHand' = mailHand
  BY <1>0 DEF mailHand
<1>2. CASE Push
  <2>1. queue # <<>> /\ inbox' = Append(inbox, Head(queue)) /\ queue' = Tail(queue) /\ Held' = Held
    BY <1>2 DEF Push, Held
  <2> DEFINE one == <<Head(queue)>>
             front == Held \o inbox
  <2>2. /\ Head(queue) \in Message /\ Tail(queue) \in Seq(Message) /\ queue = one \o Tail(queue)
        /\ one \in Seq(Message)
    BY <1>0, <2>1, FirstAndRest, SequenceTypes
  <2>3. inbox' = inbox \o one
    BY <1>0, <2>1, <2>2, AppendIsConcat
  <2> HIDE DEF one
  <2>4. front \in Seq(Message) /\ Held \o (inbox \o one) = front \o one
    <3> DEFINE held == Held
    <3>1. held \in Seq(Message) /\ inbox \in Seq(Message) /\ one \in Seq(Message)
      BY <1>0, <2>2
    <3> HIDE DEF held
    <3>2. held \o inbox \in Seq(Message)
      BY <3>1, SequenceTypes
    <3>3. (held \o inbox) \o one = held \o (inbox \o one)
      BY <3>1, ConcatAssociative
    <3> QED
      BY <3>2, <3>3 DEF held
  <2>5. front \o (one \o Tail(queue)) = (front \o one) \o Tail(queue)
    <3> DEFINE rest == Tail(queue)
    <3>1. front \in Seq(Message) /\ one \in Seq(Message) /\ rest \in Seq(Message)
      BY <2>2, <2>4
    <3> HIDE DEF front, rest
    <3>2. (front \o one) \o rest = front \o (one \o rest)
      BY <3>1, ConcatAssociative
    <3> QED
      BY <3>2 DEF rest
  <2>6. mailWay = front \o queue /\ mailWay' = (Held \o (inbox \o one)) \o Tail(queue)
    BY <2>1, <2>3 DEF mailWay, Held
  <2> QED
    BY <1>0, <1>1, <2>2, <2>4, <2>5, <2>6 DEF MailView
<1>3. CASE Listen
  <2>1. /\ inbox # <<>> /\ inbox' = Tail(inbox) /\ queue' = queue /\ Held = <<>>
        /\ Goes(Consumer, "hand", <<Head(inbox)>>)
    BY <1>3 DEF Listen, ConsumerHand
  <2>2. /\ Head(inbox) \in Message /\ Tail(inbox) \in Seq(Message)
        /\ inbox = <<Head(inbox)>> \o Tail(inbox) /\ <<Head(inbox)>> \in Seq(Message)
    BY <1>0, <2>1, FirstAndRest, SequenceTypes
  <2>3. Held' = <<Head(inbox)>>
    BY <2>1, <2>2, Bounds, GoesParts DEF Held, LoopState
  <2>4. Held \o inbox = inbox
    BY <1>0, <2>1, ConcatEmptySeq
  <2>5. mailWay' = mailWay
    BY <2>1, <2>2, <2>3, <2>4 DEF mailWay, Held
  <2> QED
    BY <1>0, <1>1, <2>5 DEF MailView
<1> QED
  BY <1>2, <1>3

LEMMA HandOutMail ==
  ASSUME QueueType, ConsumerHand, HandOut
  PROVE  Mail!Receive
<1>0. /\ inbox \in Seq(Message) /\ queue \in Seq(Message) /\ received \in Seq(Message)
      /\ <<>> \in Seq(Message) /\ \A p \in Publisher : loop'[p] = loop[p]
      /\ UNCHANGED <<sent, inbox, queue>> /\ received' = received \o Held
      /\ loop[Consumer].at = "hand" /\ Goes(Consumer, "wait", <<>>)
  BY OrderTypes, SequenceTypes, ConsumerParts DEF HandOut, Held
<1>1. PICK m \in Message : Held = <<m>>
  BY <1>0 DEF ConsumerHand
<1>2. Held' = <<>>
  BY <1>0, Bounds, GoesParts DEF Held, LoopState
<1> DEFINE rest == inbox \o queue
<1>3. rest \in Seq(Message) /\ <<m>> \in Seq(Message)
  BY <1>0, SequenceTypes
<1>4. mailWay = <<m>> \o rest
  <2> DEFINE one == <<m>>
  <2>1. one \in Seq(Message) /\ inbox \in Seq(Message) /\ queue \in Seq(Message)
    BY <1>0, <1>3
  <2> HIDE DEF one
  <2>2. (one \o inbox) \o queue = one \o (inbox \o queue)
    BY <2>1, ConcatAssociative
  <2> QED
    BY <1>1, <2>2 DEF mailWay, Held, one
<1>5. mailWay' = rest
  <2>1. <<>> \o inbox = inbox
    BY <1>0, ConcatEmptySeq
  <2> QED
    BY <1>0, <1>2, <2>1 DEF mailWay, Held
<1> HIDE DEF rest
<1>6. /\ mailWay \in Seq(Message) /\ Len(mailWay) = 1 + Len(rest) /\ mailWay[1] = m
      /\ \A i \in 1..Len(rest) : mailWay[i + 1] = rest[i]
  <2>1. /\ mailWay \in Seq(Message) /\ Len(<<m>>) = 1 /\ <<m>>[1] = m
        /\ Len(mailWay) = 1 + Len(rest) /\ Len(rest) \in Nat
        /\ \A i \in 1 .. 1 + Len(rest) : mailWay[i] = IF i <= 1 THEN <<m>>[i] ELSE rest[i - 1]
    BY <1>3, <1>4, ConcatProperties, LenProperties
  <2>2. mailWay[1] = m
    BY <2>1
  <2>3. ASSUME NEW i \in 1..Len(rest)
        PROVE  mailWay[i + 1] = rest[i]
    <3>1. i + 1 \in 1 .. 1 + Len(rest) /\ ~(i + 1 <= 1) /\ (i + 1) - 1 = i
      BY <2>1
    <3> QED
      BY <2>1, <3>1
  <2> QED
    BY <2>1, <2>2, <2>3
<1>7. mailWay # <<>> /\ Head(mailWay) = m /\ Tail(mailWay) = rest
  <2>1. mailWay # <<>>
    BY <1>3, <1>6, LenProperties
  <2>2. /\ Head(mailWay) = m /\ Tail(mailWay) \in Seq(Message) /\ Len(Tail(mailWay)) = Len(rest)
        /\ \A i \in 1..Len(Tail(mailWay)) : Tail(mailWay)[i] = mailWay[i + 1]
    BY <1>3, <1>6, <2>1, HeadTailProperties, LenProperties
  <2>3. Tail(mailWay) = rest
    BY <1>3, <1>6, <2>2, SeqEqual
  <2> QED
    BY <2>1, <2>2, <2>3
<1>8. received' = Append(received, m)
  BY <1>0, <1>1, AppendIsConcat
<1>9. mailHand' = mailHand
  BY <1>0 DEF mailHand
<1> QED
  BY <1>0, <1>5, <1>7, <1>8, <1>9 DEF Mail!Receive

\* What the library holds for the consumer is the front of the line.
LEMMA DropMail ==
  ASSUME QueueType, ConsumerHand, ListenFails \/ ListenEnds
  PROVE  (\E n \in 1..Len(mailWay) : Mail!Drop(n)) \/ UNCHANGED MailView
<1>0. /\ inbox \in Seq(Message) /\ queue \in Seq(Message) /\ <<>> \in Seq(Message)
      /\ \A p \in Publisher : loop'[p] = loop[p]
      /\ UNCHANGED <<sent, received>> /\ Held = <<>>
      /\ inbox' = <<>> /\ queue' = <<>> \o queue
      /\ Restart(Consumer) \/ Goes(Consumer, "ended", <<>>)
  BY OrderTypes, SequenceTypes, ConsumerParts
     DEF ListenFails, ListenEnds, ConsumerHand, DropInbox, Unacked
<1>1. Held' = <<>>
  BY <1>0, Bounds, GoesParts, RestartParts DEF Held, LoopState
<1>2. mailHand' = mailHand
  BY <1>0 DEF mailHand
<1>3. mailWay = inbox \o queue /\ mailWay' = queue
  <2>1. <<>> \o inbox = inbox /\ <<>> \o queue = queue /\ <<>> \o <<>> = <<>>
    BY <1>0, ConcatEmptySeq
  <2> QED
    BY <1>0, <1>1, <2>1 DEF mailWay, Held
<1>4. CASE inbox = <<>>
  <2>1. mailWay = queue
    BY <1>0, <1>3, <1>4, ConcatEmptySeq
  <2> QED
    BY <1>0, <1>2, <1>3, <2>1 DEF MailView
<1>5. CASE inbox # <<>>
  <2> DEFINE n == Len(inbox)
             both == inbox \o queue
             left == SubSeq(both, n + 1, Len(both))
  <2>1. /\ n \in Nat /\ n >= 1 /\ Len(queue) \in Nat
        /\ both \in Seq(Message) /\ Len(both) = n + Len(queue)
        /\ \A i \in 1 .. n + Len(queue) : both[i] = IF i <= n THEN inbox[i] ELSE queue[i - n]
    BY <1>0, <1>5, ConcatProperties, LenProperties
  <2>2. \A i \in n + 1 .. Len(both) : both[i] \in Message
    BY <2>1, ElementOfSeq
  <2> HIDE DEF n, both
  <2>3. /\ left \in Seq(Message)
        /\ Len(left) = IF n + 1 <= Len(both) THEN Len(both) - (n + 1) + 1 ELSE 0
        /\ \A i \in 1 .. Len(both) - (n + 1) + 1 : left[i] = both[(n + 1) + i - 1]
    BY <2>1, <2>2, SubSeqProperties
  <2> HIDE DEF left
  <2>4. Len(left) = Len(queue)
    BY <2>1, <2>3
  <2>5. ASSUME NEW i \in 1..Len(queue)
        PROVE  left[i] = queue[i]
    <3>1. /\ i \in 1 .. Len(both) - (n + 1) + 1 /\ (n + 1) + i - 1 = n + i
          /\ n + i \in 1 .. n + Len(queue) /\ ~(n + i <= n) /\ (n + i) - n = i
      BY <2>1
    <3> QED
      BY <2>1, <2>3, <3>1
  <2>6. left = queue
    BY <1>0, <2>3, <2>4, <2>5, SeqEqual
  <2>7. n \in 1..Len(mailWay)
    BY <1>3, <2>1 DEF both
  <2>8. Mail!Drop(n)
    BY <1>0, <1>2, <1>3, <2>6 DEF Mail!Drop, left, both
  <2> QED
    BY <2>7, <2>8
<1> QED
  BY <1>4, <1>5

\* Queue implements LossyMail.
THEOREM QueueIsMail == Spec => MailSpec
<1>1. Init => Mail!Init
  BY MailInit
<1>2. QueueType /\ LossInv /\ ConsumerHand /\ [Next]_vars => [Mail!Next]_(Mail!vars)
  <2> SUFFICES ASSUME QueueType, LossInv, ConsumerHand, [Next]_vars
               PROVE  Mail!Next \/ UNCHANGED MailView
    BY DEF MailView, Mail!vars
  <2>1. CASE \/ \E c \in Conn : CloseListener(c) \/ Break(c) \/ Notice(c)
             \/ \E ch \in Chan : BreakChannel(ch)
             \/ \E l \in Loop : Close(l)
             \/ Idle \/ UNCHANGED vars
    <3>1. loop' = loop /\ UNCHANGED mailVars
      BY <2>1 DEF CloseListener, SetupBegins, DialFails, Dial, NewChannel, NewChannelFails, SetupHangs, Break,
                  Notice, BreakChannel, Close, Idle, vars
    <3> QED
      BY <3>1, MailStays DEF mailVars
  <2>2. ASSUME NEW p \in Publisher, PublisherLoop(p) \/ Publish(p)
        PROVE  Mail!Next \/ UNCHANGED MailView
    <3>1. CASE LoopStep(p)
      BY <3>1, LoopStepMail, Bounds
    <3>2. CASE Publish(p)
      BY <3>2, PublishMail DEF Mail!Next
    <3>3. CASE KeepPublishing(p)
      BY <3>3, KeepPublishingMail DEF Mail!Next
    <3>4. CASE PublisherEnds(p)
      BY <3>4, PublisherEndsMail
    <3> QED
      BY <2>2, <3>1, <3>2, <3>3, <3>4 DEF PublisherLoop
  <2>3. CASE LoopStep(Consumer)
    BY <2>3, LoopStepMail, Bounds
  <2>4. CASE Push \/ Listen
    BY <2>4, MovesMail
  <2>5. CASE HandOut
    BY <2>5, HandOutMail DEF Mail!Next
  <2>6. CASE ListenFails \/ ListenEnds
    BY <2>6, DropMail DEF Mail!Next
  <2> QED
    BY <2>1, <2>2, <2>3, <2>4, <2>5, <2>6 DEF Next, ConsumerLoop
<1> QED
  BY <1>1, <1>2, ConnInvariant, LossInvariant, ConsumerHandInvariant, PTL DEF Spec, MailSpec, Mail!Spec
==============================================================================
