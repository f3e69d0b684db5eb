------------------------ MODULE WebSocketClientProofs ------------------------
(***************************************************************************)
(* Proofs about WebSocketClient, for any number of connections, parallel   *)
(* upgrades and messages, and buffers of any size.                         *)
(***************************************************************************)
EXTENDS WebSocketClient, FiniteSetTheorems, SequenceTheorems, TLAPS

ClientType ==
  /\ conn \in Conn \cup {NoConn}
  /\ socket \in [Conn -> SocketState]
  /\ upgrade \in [Conn -> UpgradeState]
  /\ writer \in [Conn -> WriterState]
  /\ reader \in [Conn -> Seq(Nat)]
  /\ origin \in Seq(Conn)
  /\ outgoing \in Seq(Nat)
  /\ sent \in Nat
  /\ writing \in [Conn -> Nat]
  /\ delivered \in [Conn -> Seq(Nat)]
  /\ lost \subseteq [no : Nat, conn : Conn, state : SocketState]

\* A step of readingLoop(c).
ReadingLoop(c) == (\E n \in 1..MaxRead : ReadMessages(c, n)) \/ HandOn(c)
-----------------------------------------------------------------------------
(***************************************************************************)
(* Sequences of messages.                                                  *)
(***************************************************************************)
LEMMA AppendElements ==
  ASSUME NEW s \in Seq(Nat), NEW m \in Nat
  PROVE  /\ Append(s, m) \in Seq(Nat)
         /\ Elements(Append(s, m)) = Elements(s) \cup {m}
<1>1. /\ Append(s, m) \in Seq(Nat) /\ Len(s) \in Nat
      /\ DOMAIN Append(s, m) = 1..(Len(s) + 1) /\ DOMAIN s = 1..Len(s)
      /\ Append(s, m)[Len(s) + 1] = m
      /\ \A i \in 1..Len(s) : Append(s, m)[i] = s[i]
  OBVIOUS
<1>2. 1..(Len(s) + 1) = (1..Len(s)) \cup {Len(s) + 1}
  BY <1>1
<1> QED
  BY <1>1, <1>2 DEF Elements

LEMMA AppendIncreasing ==
  ASSUME NEW s \in Seq(Nat), NEW m \in Nat, Increasing(s), \A e \in Elements(s) : e < m
  PROVE  Increasing(Append(s, m))
<1>1. /\ Len(s) \in Nat /\ DOMAIN Append(s, m) = 1..(Len(s) + 1) /\ DOMAIN s = 1..Len(s)
      /\ Append(s, m)[Len(s) + 1] = m
      /\ \A i \in 1..Len(s) : Append(s, m)[i] = s[i]
  OBVIOUS
<1>2. SUFFICES ASSUME NEW i \in 1..(Len(s) + 1), NEW j \in 1..(Len(s) + 1), i < j
               PROVE  Append(s, m)[i] < Append(s, m)[j]
  BY <1>1 DEF Increasing
<1>3. i \in 1..Len(s) /\ s[i] \in Elements(s)
  BY <1>1, <1>2 DEF Elements
<1>4. CASE j = Len(s) + 1
  BY <1>1, <1>3, <1>4
<1>5. CASE j \in 1..Len(s)
  BY <1>1, <1>2, <1>3, <1>5 DEF Increasing
<1> QED
  BY <1>1, <1>4, <1>5

LEMMA TailIncreasing ==
  ASSUME NEW s \in Seq(Nat), s # <<>>, Increasing(s)
  PROVE  /\ Tail(s) \in Seq(Nat)
         /\ Head(s) \in Elements(s)
         /\ Elements(Tail(s)) \subseteq Elements(s)
         /\ \A e \in Elements(Tail(s)) : Head(s) < e
         /\ Increasing(Tail(s))
<1>1. /\ Tail(s) \in Seq(Nat) /\ Len(s) \in Nat /\ Len(s) >= 1
      /\ DOMAIN Tail(s) = 1..(Len(s) - 1) /\ DOMAIN s = 1..Len(s)
      /\ \A i \in 1..(Len(s) - 1) : Tail(s)[i] = s[i + 1]
      /\ Head(s) = s[1]
  OBVIOUS
<1>2. \A i \in 1..(Len(s) - 1) : i + 1 \in 1..Len(s)
  BY <1>1
<1>3. Head(s) \in Elements(s) /\ Elements(Tail(s)) \subseteq Elements(s)
  BY <1>1, <1>2 DEF Elements
<1>4. \A i \in 1..(Len(s) - 1) : s[1] < s[i + 1]
  BY <1>1, <1>2 DEF Increasing
<1>5. Increasing(Tail(s))
  BY <1>1, <1>2 DEF Increasing
<1> QED
  BY <1>1, <1>3, <1>4, <1>5 DEF Elements
-----------------------------------------------------------------------------
(***************************************************************************)
(* Types.                                                                  *)
(***************************************************************************)
LEMMA OfferType ==
  ASSUME NEW s \in Seq(Nat), NEW m \in Nat
  PROVE  Offer(s, m) \in Seq(Nat)
BY DEF Offer

LEMMA CloseSocketType ==
  ASSUME ClientType
  PROVE  /\ CloseSocket(conn) \in [Conn -> SocketState]
         /\ \A c \in Conn : /\ c # conn => CloseSocket(conn)[c] = socket[c]
                            /\ c = conn => CloseSocket(conn)[c] = "closed"
BY DEF ClientType, CloseSocket, SocketState, NoConn, Conn

LEMMA SeqIsFunction ==
  ASSUME NEW S, NEW n \in Nat, NEW f \in [1..n -> S]
  PROVE  f \in Seq(S)
BY SeqDef

LEMMA ReadTypes ==
  ASSUME origin \in Seq(Conn), NEW n \in Nat, NEW c \in Conn
  PROVE  /\ NextRead(n) \in Seq(Nat)
         /\ DOMAIN NextRead(n) = 1..n
         /\ \A i \in 1..n : NextRead(n)[i] = Len(origin) + i
         /\ origin \o [i \in 1..n |-> c] \in Seq(Conn)
         /\ Len(origin \o [i \in 1..n |-> c]) = Len(origin) + n
         /\ \A i \in 1..Len(origin) : (origin \o [j \in 1..n |-> c])[i] = origin[i]
         /\ \A i \in (Len(origin) + 1)..(Len(origin) + n) : (origin \o [j \in 1..n |-> c])[i] = c
<1>1. Len(origin) \in Nat /\ \A i \in 1..n : Len(origin) + i \in Nat
  OBVIOUS
<1>2. NextRead(n) \in [1..n -> Nat]
  BY <1>1 DEF NextRead
<1>3. NextRead(n) \in Seq(Nat)
  BY <1>2, SeqDef
<1>4. [i \in 1..n |-> c] \in [1..n -> Conn]
  OBVIOUS
<1>5. [i \in 1..n |-> c] \in Seq(Conn) /\ Len([i \in 1..n |-> c]) = n
  BY <1>4, SeqDef
<1> DEFINE more == [i \in 1..n |-> c]
<1>6. /\ more \in Seq(Conn) /\ Len(more) = n
      /\ \A i \in 1..n : more[i] = c
  BY <1>5
<1> HIDE DEF more
<1>7. /\ origin \o more \in Seq(Conn)
      /\ Len(origin \o more) = Len(origin) + n
      /\ \A i \in 1..Len(origin) : (origin \o more)[i] = origin[i]
      /\ \A i \in (Len(origin) + 1)..(Len(origin) + n) : (origin \o more)[i] = more[i - Len(origin)]
  BY <1>6, <1>1
<1>8. \A i \in (Len(origin) + 1)..(Len(origin) + n) : i - Len(origin) \in 1..n
  BY <1>1
<1>9. \A i \in (Len(origin) + 1)..(Len(origin) + n) : (origin \o more)[i] = c
  BY <1>6, <1>7, <1>8
<1>10. DOMAIN NextRead(n) = 1..n /\ \A i \in 1..n : NextRead(n)[i] = Len(origin) + i
  BY DEF NextRead
<1> QED
  BY <1>3, <1>7, <1>9, <1>10 DEF more

LEMMA ReadSeqs ==
  ASSUME origin \in Seq(Conn), NEW n \in Nat, NEW c \in Conn
  PROVE  NextRead(n) \in Seq(Nat) /\ origin \o [i \in 1..n |-> c] \in Seq(Conn)
BY ReadTypes

LEMMA UpgradeType ==
  ASSUME ClientType, NEW c \in Conn, Upgrade(c) \/ Reconnect(c) \/ Break(c)
  PROVE  ClientType'
<1> USE DEF ClientType
<1>1. UNCHANGED <<reader, origin, outgoing, sent, writing, delivered, lost>>
  BY DEF Upgrade, Reconnect, Break, CloseOld, LookAtChannel, CloseChannel, MakeChannel, Install,
         inVars, outVars, connVars
<1>2. conn' \in Conn \cup {NoConn}
  BY DEF Upgrade, Reconnect, Break, CloseOld, LookAtChannel, CloseChannel, MakeChannel, Install, connVars
<1>3. socket' \in [Conn -> SocketState]
  BY CloseSocketType DEF Upgrade, Reconnect, Break, CloseOld, LookAtChannel, CloseChannel,
                         MakeChannel, Install, SocketState
<1>4. upgrade' \in [Conn -> UpgradeState]
  BY DEF Upgrade, Reconnect, Break, CloseOld, LookAtChannel, CloseChannel, MakeChannel, Install,
         UpgradeState, connVars
<1>5. writer' \in [Conn -> WriterState]
  BY DEF Upgrade, Reconnect, Break, CloseOld, LookAtChannel, CloseChannel, MakeChannel, Install,
         WriterState, outVars
<1> QED
  BY <1>1, <1>2, <1>3, <1>4, <1>5

LEMMA WriterType ==
  ASSUME ClientType, NEW c \in Conn, WritingLoop(c)
  PROVE  ClientType'
<1> USE DEF ClientType
<1>1. UNCHANGED <<conn, socket, upgrade, reader, origin, sent>>
  BY DEF WritingLoop, EnterSelect, TakeMessage, WriteSucceeds, WriteFails, WriterReturns, inVars, connVars
<1>2. writer' \in [Conn -> WriterState]
  BY DEF WritingLoop, EnterSelect, TakeMessage, WriteSucceeds, WriteFails, WriterReturns, WriterState,
         AfterFailure
<1>3. CASE TakeMessage(c)
  <2>1. Head(outgoing) \in Nat /\ Tail(outgoing) \in Seq(Nat)
    BY <1>3 DEF TakeMessage
  <2> QED
    BY <1>1, <1>2, <1>3, <2>1 DEF TakeMessage, Remaining
<1>4. CASE WriteSucceeds(c)
  <2>1. Append(delivered[c], writing[c]) \in Seq(Nat)
    BY AppendElements
  <2>2. delivered' \in [Conn -> Seq(Nat)]
    BY <1>4, <2>1 DEF WriteSucceeds
  <2>3. writing' \in [Conn -> Nat] /\ outgoing' = outgoing
    BY <1>4 DEF WriteSucceeds
  <2>4. lost' \subseteq [no : Nat, conn : Conn, state : SocketState]
    BY <1>4 DEF WriteSucceeds, Loss
  <2> QED
    BY <1>1, <1>2, <2>2, <2>3, <2>4
<1>5. CASE EnterSelect(c) \/ WriterReturns(c)
  BY <1>1, <1>2, <1>5 DEF EnterSelect, WriterReturns
<1>6. CASE WriteFails(c)
  <2>1. lost' \subseteq [no : Nat, conn : Conn, state : SocketState]
    BY <1>6 DEF WriteFails, Loss
  <2>2. writing' \in [Conn -> Nat] /\ outgoing' = outgoing /\ delivered' = delivered
    BY <1>6 DEF WriteFails
  <2> QED
    BY <1>1, <1>2, <2>1, <2>2
<1> QED
  BY <1>3, <1>4, <1>5, <1>6 DEF WritingLoop

LEMMA ReaderType ==
  ASSUME ClientType, NEW c \in Conn, ReadingLoop(c)
  PROVE  ClientType'
<1> USE DEF ClientType
<1>1. UNCHANGED <<conn, socket, upgrade, writer, outgoing, sent, writing, delivered, lost>>
  BY DEF ReadingLoop, ReadMessages, HandOn, outVars, connVars
<1>2. CASE HandOn(c)
  <2>1. reader[c] \in Seq(Nat) /\ reader[c] # <<>>
    BY <1>2 DEF HandOn
  <2>2. Tail(reader[c]) \in Seq(Nat)
    BY <2>1
  <2>3. reader' = [reader EXCEPT ![c] = Tail(reader[c])] /\ origin' = origin
    BY <1>2 DEF HandOn
  <2>4. reader' \in [Conn -> Seq(Nat)]
    BY <2>2, <2>3
  <2> QED
    BY <1>1, <2>3, <2>4
<1>3. ASSUME NEW n \in 1..MaxRead, ReadMessages(c, n)
      PROVE  ClientType'
  <2>1. n \in Nat
    BY BoundsAssumption
  <2>2. NextRead(n) \in Seq(Nat) /\ origin \o [i \in 1..n |-> c] \in Seq(Conn)
    <3>1. origin \in Seq(Conn)
      OBVIOUS
    <3> QED
      BY <2>1, <3>1, ReadSeqs
  <2>3. reader' \in [Conn -> Seq(Nat)]
    BY <1>3, <2>2 DEF ReadMessages
  <2>4. origin' \in Seq(Conn)
    BY <1>3, <2>2 DEF ReadMessages
  <2> QED
    BY <1>1, <2>3, <2>4
<1> QED
  BY <1>2, <1>3 DEF ReadingLoop

LEMMA TypeInvariant == Spec => []ClientType
<1>1. Init => ClientType
  BY DEF Init, ClientType, SocketState, UpgradeState, WriterState
<1>2. ClientType /\ [Next]_vars => ClientType'
  <2> SUFFICES ASSUME ClientType, [Next]_vars PROVE ClientType'
    OBVIOUS
  <2>1. CASE Send
    <3>1. sent' = sent + 1 /\ sent' \in Nat /\ outgoing' = Offer(outgoing, sent')
      BY <2>1 DEF Send, ClientType
    <3>2. outgoing' \in Seq(Nat)
      BY <3>1, OfferType DEF ClientType
    <3> QED
      BY <2>1, <3>1, <3>2 DEF Send, ClientType, inVars, connVars
  <2>2. CASE Consume \/ Idle \/ UNCHANGED vars
    BY <2>2 DEF Consume, Idle, ClientType, vars, inVars, outVars, connVars
  <2>3. CASE Close
    BY <2>3, CloseSocketType DEF Close, ClientType, inVars, outVars, connVars
  <2>4. ASSUME NEW c \in Conn, Upgrade(c) \/ Reconnect(c) \/ Break(c)
        PROVE  ClientType'
    BY <2>4, UpgradeType
  <2>5. ASSUME NEW c \in Conn, WritingLoop(c)
        PROVE  ClientType'
    BY <2>5, WriterType
  <2>6. ASSUME NEW c \in Conn, ReadingLoop(c)
        PROVE  ClientType'
    BY <2>6, ReaderType
  <2> QED
    BY <2>1, <2>2, <2>3, <2>4, <2>5, <2>6 DEF Next, ReadingLoop
<1> QED
  BY <1>1, <1>2, PTL DEF Spec
-----------------------------------------------------------------------------
(***************************************************************************)
(* Losses: a loop that lost a message to a closed connection has returned, *)
(* and a loop is started once, for an upgrade that is not done.            *)
(***************************************************************************)
StartedOnce == \A c \in Conn : /\ socket[c] = "none" => upgrade[c] = "none"
                               /\ writer[c] # "none" => upgrade[c] = "done"

LossEndsLoop ==
  \A l \in lost : l.state = "closed" =>
    /\ writer[l.conn] = "exited"
    /\ \A k \in lost : k.state = "closed" /\ k.conn = l.conn => k = l

LossInv == StartedOnce /\ LossEndsLoop

LEMMA StartedOnceStep ==
  ASSUME ClientType, StartedOnce, [Next]_vars
  PROVE  StartedOnce'
<1> USE DEF ClientType, StartedOnce
<1>1. CASE Send \/ Consume \/ Idle \/ UNCHANGED vars
  BY <1>1 DEF Send, Consume, Idle, vars, inVars, outVars, connVars
<1>2. CASE Close
  BY <1>2, CloseSocketType DEF Close, outVars, connVars
<1>3. ASSUME NEW c \in Conn, Upgrade(c) \/ Break(c)
      PROVE  StartedOnce'
  BY <1>3 DEF Upgrade, Break, outVars, connVars
<1>4. ASSUME NEW c \in Conn, Reconnect(c)
      PROVE  StartedOnce'
  <2>1. CASE CloseOld(c)
    BY <2>1, CloseSocketType DEF CloseOld, outVars
  <2>2. CASE LookAtChannel(c) \/ CloseChannel(c) \/ MakeChannel(c)
    BY <2>2 DEF LookAtChannel, CloseChannel, MakeChannel, outVars
  <2>3. CASE Install(c)
    BY <2>3 DEF Install
  <2> QED
    BY <1>4, <2>1, <2>2, <2>3 DEF Reconnect
<1>5. ASSUME NEW c \in Conn, WritingLoop(c)
      PROVE  StartedOnce'
  BY <1>5 DEF WritingLoop, EnterSelect, TakeMessage, WriteSucceeds, WriteFails, WriterReturns,
              AfterFailure, connVars
<1>6. ASSUME NEW c \in Conn, ReadingLoop(c)
      PROVE  StartedOnce'
  BY <1>6 DEF ReadingLoop, ReadMessages, HandOn, outVars, connVars
<1> QED
  BY <1>1, <1>2, <1>3, <1>4, <1>5, <1>6 DEF Next, ReadingLoop

LEMMA LossStep ==
  ASSUME ClientType, StartedOnce, LossEndsLoop, [Next]_vars
  PROVE  LossEndsLoop'
<1> USE DEF ClientType, LossEndsLoop
<1>1. CASE UNCHANGED <<lost, writer>>
  BY <1>1
<1>2. ASSUME NEW c \in Conn, Install(c)
      PROVE  LossEndsLoop'
  <2>1. writer[c] = "none" /\ lost' = lost /\ writer' = [writer EXCEPT ![c] = "top"]
    BY <1>2 DEF Install, StartedOnce
  <2> QED
    BY <2>1
<1>3. ASSUME NEW c \in Conn, EnterSelect(c) \/ TakeMessage(c) \/ WriterReturns(c)
      PROVE  LossEndsLoop'
  BY <1>3 DEF EnterSelect, TakeMessage, WriterReturns
<1>4. ASSUME NEW c \in Conn, WriteSucceeds(c)
      PROVE  LossEndsLoop'
  <2>1. writer[c] = "write" /\ writer' = [writer EXCEPT ![c] = "top"]
    BY <1>4 DEF WriteSucceeds
  <2>2. lost' \in {lost, lost \cup {Loss(c)}} /\ (lost' # lost => Loss(c).state # "closed")
    BY <1>4 DEF WriteSucceeds, Loss
  <2> QED
    BY <2>1, <2>2
<1>5. ASSUME NEW c \in Conn, WriteFails(c)
      PROVE  LossEndsLoop'
  <2>1. writer[c] = "write" /\ writer' = [writer EXCEPT ![c] = "exited"]
    BY <1>5 DEF WriteFails, AfterFailure
  <2>2. lost' = lost \cup {Loss(c)} /\ Loss(c).conn = c
    BY <1>5 DEF WriteFails, Loss
  <2>3. \A l \in lost : l.state = "closed" => l.conn # c
    BY <2>1
  <2> QED
    BY <2>1, <2>2, <2>3
<1>6. CASE Send \/ Consume \/ Close \/ Idle \/ UNCHANGED vars
  BY <1>1, <1>6 DEF Send, Consume, Close, Idle, vars, inVars, outVars, connVars
<1>7. ASSUME NEW c \in Conn,
             \/ Upgrade(c) \/ Break(c) \/ ReadingLoop(c)
             \/ CloseOld(c) \/ LookAtChannel(c) \/ CloseChannel(c) \/ MakeChannel(c)
      PROVE  LossEndsLoop'
  BY <1>1, <1>7 DEF Upgrade, Break, ReadingLoop, ReadMessages, HandOn, CloseOld, LookAtChannel, CloseChannel,
                    MakeChannel, outVars
<1> QED
  BY <1>2, <1>3, <1>4, <1>5, <1>6, <1>7 DEF Next, Reconnect, WritingLoop, ReadingLoop

LEMMA LossInvariant == Spec => []LossInv
<1>1. Init => LossInv
  BY DEF Init, LossInv, StartedOnce, LossEndsLoop
<1>2. ClientType /\ LossInv /\ [Next]_vars => LossInv'
  BY StartedOnceStep, LossStep DEF LossInv
<1> QED
  BY <1>1, <1>2, TypeInvariant, PTL DEF Spec

\* A connection that is closed takes at most one message with it, however
\* many connections and upgrades there are.
THEOREM OneLossPerConnection == Spec => []LossPerConnection
<1>1. LossInv => LossPerConnection
  <2> SUFFICES ASSUME LossInv, NEW c \in Conn
               PROVE  Cardinality({l \in lost : l.conn = c /\ l.state = "closed"}) <= 1
    BY DEF LossPerConnection
  <2> DEFINE losses == {l \in lost : l.conn = c /\ l.state = "closed"}
  <2>1. CASE losses = {}
    BY <2>1, FS_EmptySet
  <2>2. CASE losses # {}
    <3>1. PICK l : losses = {l}
      BY <2>2 DEF LossInv, LossEndsLoop
    <3>2. Cardinality({l}) = 1
      BY FS_Singleton
    <3> QED
      BY <3>1, <3>2
  <2> QED
    BY <2>1, <2>2
<1> QED
  BY <1>1, LossInvariant, PTL
-----------------------------------------------------------------------------
(***************************************************************************)
(* Upgrades that do not overlap.                                           *)
(***************************************************************************)
OneAtATime == \A b, c \in Conn : Running(b) /\ Running(c) => b = c

\* CloseChannel finds the channel open, so no upgrade ends in a panic.
ChannelIsOpen == \A c \in Conn : upgrade[c] = "close" => reconnected \notin closedChans

\* Not closed are the connection of the running upgrade and, until the upgrade
\* has closed it, the one before.
Live(b) == socket[b] \in {"open", "broken"}

FewAreLive ==
  \A b \in Conn : Live(b) =>
    Running(b) \/ (b = conn /\ \A c \in Conn : Running(c) => upgrade[c] = "old")

\* Upgrades replace a connection by a later one.
LaterReplaces == \A c \in Conn : Running(c) => conn <= c

\* What was read came from the present connection or from earlier ones.
ReadInOrder ==
  /\ \A i \in DOMAIN origin : origin[i] <= conn
  /\ \A i, j \in DOMAIN origin : i < j => origin[i] <= origin[j]

Serial == OneAtATime /\ ChannelIsOpen /\ FewAreLive /\ LaterReplaces /\ ReadInOrder

SerialInv == ~overlapped => Serial

\* Connections are made in the order of their numbers.
MadeInOrder ==
  /\ conn # NoConn => socket[conn] # "none"
  /\ \A b, c \in Conn : b < c /\ socket[c] # "none" => socket[b] # "none"
  /\ \A c \in Conn : upgrade[c] # "none" => socket[c] # "none"

LEMMA MadeInOrderInvariant == Spec => []MadeInOrder
<1>1. Init => MadeInOrder
  BY DEF Init, MadeInOrder
<1>2. ClientType /\ MadeInOrder /\ [Next]_vars => MadeInOrder'
  <2> SUFFICES ASSUME ClientType, MadeInOrder, [Next]_vars PROVE MadeInOrder'
    OBVIOUS
  <2> USE DEF ClientType
  \* No step takes a connection back.
  <2>1. ASSUME UNCHANGED <<conn, upgrade>>, \A c \in Conn : socket[c] # "none" <=> socket'[c] # "none"
        PROVE  MadeInOrder'
    BY <2>1 DEF MadeInOrder
  <2>2. \A c \in Conn : socket[c] # "none" => CloseSocket(conn)[c] # "none"
    BY CloseSocketType
  <2>3. \A c \in Conn : CloseSocket(conn)[c] # "none" => socket[c] # "none"
    BY CloseSocketType DEF MadeInOrder, NoConn, Conn
  <2>4. CASE Send \/ Consume \/ Idle \/ UNCHANGED vars
    BY <2>1, <2>4 DEF Send, Consume, Idle, vars, connVars
  <2>5. CASE Close
    BY <2>1, <2>2, <2>3, <2>5 DEF Close, connVars
  <2>6. ASSUME NEW c \in Conn, Upgrade(c)
        PROVE  MadeInOrder'
    BY <2>6 DEF Upgrade, MadeInOrder
  <2>7. ASSUME NEW c \in Conn, CloseOld(c)
        PROVE  MadeInOrder'
    BY <2>2, <2>3, <2>7 DEF CloseOld, MadeInOrder
  <2>8. ASSUME NEW c \in Conn, LookAtChannel(c) \/ CloseChannel(c) \/ MakeChannel(c) \/ Install(c)
        PROVE  MadeInOrder'
    BY <2>8 DEF LookAtChannel, CloseChannel, MakeChannel, Install, MadeInOrder
  <2>9. ASSUME NEW c \in Conn, Break(c) \/ WritingLoop(c) \/ ReadingLoop(c)
        PROVE  MadeInOrder'
    BY <2>1, <2>9 DEF Break, WritingLoop, EnterSelect, TakeMessage, WriteSucceeds, WriteFails, WriterReturns,
                      ReadingLoop, ReadMessages, HandOn, connVars
  <2> QED
    BY <2>4, <2>5, <2>6, <2>7, <2>8, <2>9 DEF Next, Reconnect, ReadingLoop
<1> QED
  BY <1>1, <1>2, TypeInvariant, PTL DEF Spec

LEMMA OverlapStep ==
  ASSUME ClientType, SerialInv, [Next]_vars, ~overlapped'
  PROVE  Serial /\ \A c \in Conn : Upgrade(c) => \A b \in Conn : ~Running(b)
<1>1. ~overlapped
  BY DEF Next, Send, Consume, Close, Idle, Upgrade, Reconnect, CloseOld, LookAtChannel, CloseChannel,
         MakeChannel, Install, Break, WritingLoop, EnterSelect, TakeMessage, WriteSucceeds,
         WriteFails, WriterReturns, ReadMessages, HandOn, vars, connVars
<1>2. \A c \in Conn : Upgrade(c) => \A b \in Conn : ~Running(b)
  BY DEF Upgrade
<1> QED
  BY <1>1, <1>2 DEF SerialInv

\* Steps that leave the upgrades alone.
LEMMA QuietStep ==
  ASSUME ClientType, Serial, UNCHANGED connVars, UNCHANGED origin,
         \A c \in Conn : Live(c)' => Live(c)
  PROVE  Serial'
<1>1. UNCHANGED <<conn, reconnected, closedChans, upgrade>>
  BY DEF connVars
<1>2. \A c \in Conn : Running(c)' <=> Running(c)
  BY <1>1 DEF Running
<1> QED
  BY <1>1, <1>2 DEF Serial, OneAtATime, ChannelIsOpen, FewAreLive, LaterReplaces, ReadInOrder

LEMMA SerialUpgrade ==
  ASSUME ClientType, Serial, MadeInOrder, NEW c \in Conn,
         \/ Upgrade(c) /\ \A b \in Conn : ~Running(b)
         \/ Reconnect(c)
  PROVE  Serial'
<1> USE DEF Serial
<1>1. UNCHANGED origin
  BY DEF Upgrade, Reconnect, CloseOld, LookAtChannel, CloseChannel, MakeChannel, Install, inVars
<1>2. /\ \A b \in Conn \ {c} : upgrade'[b] = upgrade[b]
      /\ upgrade' \in [Conn -> UpgradeState]
  BY DEF Upgrade, Reconnect, CloseOld, LookAtChannel, CloseChannel, MakeChannel, Install, ClientType,
         UpgradeState
<1>3. conn' = conn \/ (conn' = c /\ Running(c))
  BY DEF Upgrade, Reconnect, CloseOld, LookAtChannel, CloseChannel, MakeChannel, Install, Running
\* No other upgrade runs, before or after.
<1>4. \A b \in Conn \ {c} : ~Running(b) /\ ~Running(b)'
  <2>1. \A b \in Conn \ {c} : ~Running(b)
    BY DEF OneAtATime, Running, Reconnect, CloseOld, LookAtChannel, CloseChannel, MakeChannel, Install
  <2> QED
    BY <1>2, <2>1 DEF Running
<1>5. OneAtATime'
  BY <1>4 DEF OneAtATime
<1>6. conn <= c
  <2>1. CASE Upgrade(c)
    BY <2>1 DEF Upgrade, MadeInOrder, ClientType, Conn, NoConn
  <2>2. CASE Reconnect(c)
    BY <2>2 DEF LaterReplaces, Running, Reconnect, CloseOld, LookAtChannel, CloseChannel, MakeChannel, Install
  <2> QED
    BY <2>1, <2>2
<1>7. conn \in Nat /\ c \in Nat /\ \A i \in DOMAIN origin : origin[i] \in Nat
  <2>1. \A i \in DOMAIN origin : origin[i] \in Conn
    BY ElementOfSeq DEF ClientType
  <2> QED
    BY <2>1 DEF ClientType, Conn, NoConn
<1>8. LaterReplaces' /\ ReadInOrder'
  BY <1>1, <1>3, <1>4, <1>6, <1>7 DEF LaterReplaces, ReadInOrder
<1>9. ChannelIsOpen' /\ FewAreLive'
  <2>1. CASE Upgrade(c)
    <3>1. /\ upgrade' = [upgrade EXCEPT ![c] = "old"] /\ socket' = [socket EXCEPT ![c] = "open"]
          /\ UNCHANGED <<conn, reconnected, closedChans>>
      BY <2>1 DEF Upgrade
    <3> QED
      BY <1>4, <3>1 DEF ChannelIsOpen, FewAreLive, Live, Running, ClientType
  <2>2. CASE CloseOld(c)
    <3>1. /\ upgrade' = [upgrade EXCEPT ![c] = "look"] /\ socket' = CloseSocket(conn)
          /\ UNCHANGED <<conn, reconnected, closedChans>> /\ Running(c)
      BY <2>2 DEF CloseOld, Running
    <3>2. \A b \in Conn : Live(b)' => b # conn /\ Live(b)
      BY <3>1, CloseSocketType DEF Live
    <3>3. \A b \in Conn : Live(b)' => b = c
      BY <1>4, <3>2 DEF FewAreLive
    <3>4. upgrade'[c] = "look"
      BY <3>1 DEF ClientType
    <3> QED
      BY <1>2, <3>1, <3>3, <3>4 DEF ChannelIsOpen, FewAreLive, Running
  <2>3. CASE LookAtChannel(c) \/ CloseChannel(c) \/ MakeChannel(c)
    <3>1. socket' = socket /\ Running(c) /\ upgrade[c] # "old"
      BY <2>3 DEF LookAtChannel, CloseChannel, MakeChannel, Running
    <3>2. \A b \in Conn : Live(b) => b = c
      BY <1>4, <3>1 DEF FewAreLive
    <3>3. upgrade'[c] \in {"close", "make", "install"}
      BY <2>3 DEF LookAtChannel, CloseChannel, MakeChannel, ChannelIsOpen, ClientType
    <3>4. FewAreLive'
      BY <3>1, <3>2, <3>3 DEF FewAreLive, Live, Running
    <3>5. upgrade'[c] = "close" => reconnected' \notin closedChans'
      BY <2>3 DEF LookAtChannel, CloseChannel, MakeChannel, ChannelIsOpen, ClientType
    <3>6. \A b \in Conn \ {c} : upgrade'[b] # "close"
      BY <1>4 DEF Running
    <3> QED
      BY <3>4, <3>5, <3>6 DEF ChannelIsOpen
  <2>4. CASE Install(c)
    <3>1. /\ upgrade' = [upgrade EXCEPT ![c] = "done"] /\ conn' = c /\ Running(c) /\ upgrade[c] # "old"
          /\ UNCHANGED <<socket, reconnected, closedChans>>
      BY <2>4 DEF Install, Running
    <3>2. \A b \in Conn : ~Running(b)'
      BY <1>4, <3>1 DEF Running, ClientType
    <3>3. \A b \in Conn : Live(b) => b = c
      BY <1>4, <3>1 DEF FewAreLive
    <3> QED
      BY <3>1, <3>2, <3>3 DEF ChannelIsOpen, FewAreLive, Live, Running
  <2> QED
    BY <2>1, <2>2, <2>3, <2>4 DEF Reconnect
<1> QED
  BY <1>5, <1>8, <1>9

\* What is read comes from the present connection.
LEMMA SerialReader ==
  ASSUME ClientType, Serial, NEW c \in Conn, NEW n \in 1..MaxRead, ReadMessages(c, n)
  PROVE  Serial'
<1> USE DEF Serial
<1>1. UNCHANGED <<conn, reconnected, closedChans, upgrade, socket>>
  BY DEF ReadMessages, connVars
<1>2. \A b \in Conn : (Running(b)' <=> Running(b)) /\ (Live(b)' <=> Live(b))
  BY <1>1 DEF Running, Live
<1>3. OneAtATime' /\ ChannelIsOpen' /\ FewAreLive' /\ LaterReplaces'
  BY <1>1, <1>2 DEF OneAtATime, ChannelIsOpen, FewAreLive, LaterReplaces
<1>4. conn = c
  BY DEF ReadMessages, FewAreLive, Live, Running
<1>5. n \in Nat /\ origin \in Seq(Conn) /\ Len(origin) \in Nat
  BY BoundsAssumption DEF ClientType
<1>6. origin' = origin \o [i \in 1..n |-> c]
  BY DEF ReadMessages
<1>7. /\ origin' \in Seq(Conn) /\ Len(origin') = Len(origin) + n
      /\ \A i \in 1..Len(origin) : origin'[i] = origin[i]
      /\ \A i \in (Len(origin) + 1)..(Len(origin) + n) : origin'[i] = c
  BY <1>5, <1>6, ReadTypes
<1>8. DOMAIN origin' = 1..(Len(origin) + n) /\ DOMAIN origin = 1..Len(origin)
  BY <1>5, <1>7
<1>9. \A i \in DOMAIN origin' :
        \/ i \in DOMAIN origin /\ origin'[i] = origin[i]
        \/ i > Len(origin) /\ origin'[i] = c
  BY <1>5, <1>7, <1>8
<1>10. \A i \in DOMAIN origin : origin[i] <= c
  BY <1>4 DEF ReadInOrder
<1>11. c \in Nat
  BY DEF Conn
<1>12. \A i \in DOMAIN origin' : origin'[i] <= c
  BY <1>9, <1>10, <1>11
<1>13. ASSUME NEW i \in DOMAIN origin', NEW j \in DOMAIN origin', i < j
       PROVE  origin'[i] <= origin'[j]
  <2>1. CASE j \in DOMAIN origin
    <3>1. i \in DOMAIN origin
      BY <1>5, <1>8, <1>13, <2>1
    <3> QED
      BY <1>7, <1>8, <1>13, <2>1, <3>1 DEF ReadInOrder
  <2>2. CASE j \notin DOMAIN origin
    BY <1>9, <1>12, <2>2
  <2> QED
    BY <2>1, <2>2
<1>14. ReadInOrder'
  BY <1>1, <1>4, <1>12, <1>13 DEF ReadInOrder
<1> QED
  BY <1>3, <1>14

LEMMA SerialInvariant == Spec => []SerialInv
<1>1. Init => SerialInv
  BY DEF Init, SerialInv, Serial, OneAtATime, ChannelIsOpen, FewAreLive, LaterReplaces, ReadInOrder, Live, Running
<1>2. ClientType /\ MadeInOrder /\ SerialInv /\ [Next]_vars => SerialInv'
  <2> SUFFICES ASSUME ClientType, MadeInOrder, SerialInv, [Next]_vars, ~overlapped'
               PROVE  Serial'
    BY DEF SerialInv
  <2>0. Serial /\ \A c \in Conn : Upgrade(c) => \A b \in Conn : ~Running(b)
    BY OverlapStep
  <2>1. CASE Send \/ Consume \/ Idle \/ UNCHANGED vars
    <3>1. UNCHANGED connVars /\ UNCHANGED <<origin, socket>>
      BY <2>1 DEF Send, Consume, Idle, vars, inVars
    <3>2. \A c \in Conn : Live(c)' => Live(c)
      BY <3>1 DEF Live
    <3> QED
      BY <2>0, <3>1, <3>2, QuietStep
  <2>2. CASE Close
    <3>1. UNCHANGED connVars /\ UNCHANGED origin
      BY <2>2 DEF Close, inVars
    <3>2. \A c \in Conn : Live(c)' => Live(c)
      BY <2>2, CloseSocketType DEF Close, Live
    <3> QED
      BY <2>0, <3>1, <3>2, QuietStep
  <2>3. ASSUME NEW c \in Conn, Upgrade(c) \/ Reconnect(c)
        PROVE  Serial'
    BY <2>0, <2>3, SerialUpgrade
  <2>4. ASSUME NEW c \in Conn, Break(c) \/ WritingLoop(c) \/ HandOn(c)
        PROVE  Serial'
    <3>1. UNCHANGED connVars /\ UNCHANGED origin
      BY <2>4 DEF Break, WritingLoop, EnterSelect, TakeMessage, WriteSucceeds, WriteFails, WriterReturns,
                  HandOn, inVars
    <3>2. socket' = socket \/ (socket[c] = "open" /\ socket' = [socket EXCEPT ![c] = "broken"])
      BY <2>4 DEF Break, WritingLoop, EnterSelect, TakeMessage, WriteSucceeds, WriteFails, WriterReturns,
                  HandOn
    <3>3. \A b \in Conn : Live(b)' => Live(b)
      BY <3>2 DEF Live, ClientType
    <3> QED
      BY <2>0, <3>1, <3>3, QuietStep
  <2>5. ASSUME NEW c \in Conn, NEW n \in 1..MaxRead, ReadMessages(c, n)
        PROVE  Serial'
    BY <2>0, <2>5, SerialReader
  <2> QED
    BY <2>1, <2>2, <2>3, <2>4, <2>5 DEF Next
<1> QED
  BY <1>1, <1>2, TypeInvariant, MadeInOrderInvariant, PTL DEF Spec

\* Unless upgrades overlap, replaced connections are closed when none runs, and
\* nothing is read from one once its successor has been read from, however many
\* connections there are and whatever the library has buffered.
THEOREM ReplacedAlwaysClosed == Spec => []ReplacedIsClosed
<1>1. ClientType /\ SerialInv => ReplacedIsClosed
  BY DEF ClientType, SerialInv, Serial, ReplacedIsClosed, FewAreLive, Live, ReadInOrder
<1> QED
  BY <1>1, TypeInvariant, SerialInvariant, PTL
-----------------------------------------------------------------------------
(***************************************************************************)
(* The order of delivery.                                                  *)
(***************************************************************************)
\* What waits is in order and was sent.
Waiting == Increasing(outgoing) /\ \A m \in Elements(outgoing) : 0 < m /\ m <= sent

\* What the loops write is before all that waits, and no two write the same.
Written ==
  /\ \A c \in Conn : /\ writer[c] = "write" => writing[c] # 0
                     /\ writing[c] <= sent
                     /\ \A m \in Elements(outgoing) : writing[c] < m
  /\ \A b, c \in Conn : b # c /\ writing[b] = writing[c] => writing[b] = 0

\* A message that is out of a loop's hands is before all that waits, and in
\* nobody's hands.
Past(m) ==
  /\ 0 < m /\ m <= sent
  /\ \A n \in Elements(outgoing) : m < n
  /\ \A c \in Conn : writing[c] # m

PastIsPast == (\A c \in Conn : \A m \in Elements(delivered[c]) : Past(m)) /\ \A l \in lost : Past(l.no)

WrittenIsNext ==
  \A c \in Conn : writing[c] # 0 => \A m \in Elements(delivered[c]) : m < writing[c]

OrderInv == Waiting /\ Written /\ PastIsPast /\ WrittenIsNext /\ DeliveredOnceInOrder

LEMMA ElementsNat ==
  ASSUME ClientType
  PROVE  /\ \A m \in Elements(outgoing) : m \in Nat
         /\ \A c \in Conn : \A m \in Elements(delivered[c]) : m \in Nat
         /\ \A c \in Conn : writing[c] \in Nat
         /\ \A l \in lost : l.no \in Nat
<1>1. \A s \in Seq(Nat) : \A m \in Elements(s) : m \in Nat
  BY DEF Elements
<1> QED
  BY <1>1 DEF ClientType

\* Sending appends a message that is after all others.
LEMMA SendOrder ==
  ASSUME ClientType, OrderInv, Send
  PROVE  OrderInv'
<1> USE DEF OrderInv
<1>1. sent' = sent + 1 /\ sent \in Nat /\ outgoing \in Seq(Nat) /\ UNCHANGED <<writer, writing, delivered, lost>>
  BY DEF Send, ClientType
<1>2. \/ outgoing' = outgoing
      \/ /\ Elements(outgoing') = Elements(outgoing) \cup {sent + 1}
         /\ Increasing(outgoing')
  <2>1. outgoing' = outgoing \/ outgoing' = Append(outgoing, sent + 1)
    BY <1>1 DEF Send, Offer
  <2>2. \A m \in Elements(outgoing) : m < sent + 1
    BY <1>1, ElementsNat DEF Waiting
  <2>3. Elements(Append(outgoing, sent + 1)) = Elements(outgoing) \cup {sent + 1}
    BY <1>1, AppendElements
  <2>4. Increasing(Append(outgoing, sent + 1))
    BY <1>1, <2>2, AppendIncreasing DEF Waiting
  <2> QED
    BY <2>1, <2>3, <2>4
<1>3. \A m \in Elements(outgoing') : m \in Elements(outgoing) \/ m = sent + 1
  BY <1>2
<1>4. Waiting'
  BY <1>1, <1>2, <1>3, ElementsNat DEF Waiting
<1>5. Written'
  BY <1>1, <1>3, ElementsNat DEF Written
<1>6. \A m \in Nat : Past(m) => Past(m)'
  BY <1>1, <1>3 DEF Past
<1>7. PastIsPast'
  BY <1>1, <1>6, ElementsNat DEF PastIsPast
<1>8. WrittenIsNext' /\ DeliveredOnceInOrder'
  BY <1>1 DEF WrittenIsNext, DeliveredOnceInOrder
<1> QED
  BY <1>4, <1>5, <1>7, <1>8

\* A loop takes the first message that waits.
LEMMA TakeOrder ==
  ASSUME ClientType, OrderInv, NEW c \in Conn, TakeMessage(c)
  PROVE  OrderInv'
<1> USE DEF OrderInv
<1>1. /\ outgoing # <<>> /\ outgoing' = Tail(outgoing) /\ outgoing \in Seq(Nat)
      /\ UNCHANGED <<sent, delivered, lost>>
  BY DEF TakeMessage, Remaining, ClientType
<1>2. /\ Head(outgoing) \in Elements(outgoing)
      /\ Elements(outgoing') \subseteq Elements(outgoing)
      /\ \A m \in Elements(outgoing') : Head(outgoing) < m
      /\ Increasing(outgoing')
  BY <1>1, TailIncreasing DEF Waiting
<1>3. /\ writing'[c] = Head(outgoing) /\ Head(outgoing) \in Nat
      /\ \A b \in Conn \ {c} : writing'[b] = writing[b] /\ writer'[b] = writer[b]
  BY <1>2, ElementsNat DEF TakeMessage, ClientType
<1>4. \A b \in Conn : writing[b] < Head(outgoing)
  BY <1>2 DEF Written
<1>5. 0 < Head(outgoing) /\ Head(outgoing) <= sent
  BY <1>2 DEF Waiting
<1>6. Waiting'
  BY <1>1, <1>2 DEF Waiting
<1>7. Written'
  <2>1. \A b \in Conn : /\ writer'[b] = "write" => writing'[b] # 0
                        /\ writing'[b] <= sent
                        /\ \A m \in Elements(outgoing') : writing'[b] < m
    BY <1>2, <1>3, <1>5 DEF Written
  <2>2. \A b, d \in Conn : b # d /\ writing'[b] = writing'[d] => writing'[b] = 0
    <3> SUFFICES ASSUME NEW b \in Conn, NEW d \in Conn, b # d, writing'[b] = writing'[d]
                 PROVE  writing'[b] = 0
      OBVIOUS
    <3>1. CASE b = c \/ d = c
      BY <1>3, <1>4, <3>1, ElementsNat
    <3>2. CASE b # c /\ d # c
      BY <1>3, <3>2 DEF Written
    <3> QED
      BY <3>1, <3>2
  <2> QED
    BY <1>1, <2>1, <2>2 DEF Written
<1>8. ASSUME NEW m \in Nat, Past(m)
      PROVE  Past(m)' /\ m < Head(outgoing)
  <2>1. m < Head(outgoing)
    BY <1>2, <1>8 DEF Past
  <2>2. \A b \in Conn : writing'[b] # m
    BY <1>3, <1>8, <2>1 DEF Past
  <2> QED
    BY <1>1, <1>2, <1>8, <2>1, <2>2 DEF Past
<1>9. PastIsPast'
  BY <1>1, <1>8, ElementsNat DEF PastIsPast
<1>10. WrittenIsNext'
  BY <1>1, <1>3, <1>8, ElementsNat DEF WrittenIsNext, PastIsPast
<1>11. DeliveredOnceInOrder'
  BY <1>1 DEF DeliveredOnceInOrder
<1> QED
  BY <1>6, <1>7, <1>9, <1>10, <1>11

\* What the loop has in its hands goes to its peer, or is lost.
LEMMA WriteOrder ==
  ASSUME ClientType, OrderInv, NEW c \in Conn, WriteSucceeds(c) \/ WriteFails(c)
  PROVE  OrderInv'
<1> USE DEF OrderInv
<1>0. PICK msg \in Nat : msg = writing[c]
  BY ElementsNat
<1>1. /\ UNCHANGED <<outgoing, sent>>
      /\ writing' = [writing EXCEPT ![c] = 0] /\ writer[c] = "write"
  BY DEF WriteSucceeds, WriteFails
<1>2. /\ writing'[c] = 0 /\ writer'[c] # "write"
      /\ \A b \in Conn \ {c} : writing'[b] = writing[b] /\ writer'[b] = writer[b]
  BY <1>1 DEF ClientType, WriteSucceeds, WriteFails, AfterFailure
<1>3. msg \in Nat /\ 0 < msg /\ msg <= sent /\ \A m \in Elements(outgoing) : msg < m
  BY <1>0, <1>1 DEF Written
<1>4. \A b \in Conn : writing'[b] # msg
  BY <1>0, <1>2, <1>3 DEF Written
<1>5. ASSUME NEW m \in Nat, Past(m)
      PROVE  Past(m)' /\ m # msg
  <2>1. \A b \in Conn : writing'[b] # m
    BY <1>2, <1>5 DEF Past
  <2> QED
    BY <1>0, <1>1, <1>5, <2>1 DEF Past
<1>6. Past(msg)'
  BY <1>1, <1>3, <1>4 DEF Past
<1>7. Waiting'
  BY <1>1 DEF Waiting
<1>8. Written'
  <2>1. 0 <= sent /\ \A m \in Elements(outgoing) : 0 < m
    BY DEF ClientType, Waiting
  <2>2. \A b \in Conn : /\ writer'[b] = "write" => writing'[b] # 0
                        /\ writing'[b] <= sent
                        /\ \A m \in Elements(outgoing) : writing'[b] < m
    BY <1>2, <2>1 DEF Written
  <2>3. \A b, d \in Conn : b # d /\ writing'[b] = writing'[d] => writing'[b] = 0
    BY <1>2 DEF Written
  <2> QED
    BY <1>1, <2>2, <2>3 DEF Written
<1>9. CASE /\ delivered' = [delivered EXCEPT ![c] = Append(@, msg)]
           /\ lost' = lost
  <2>1. delivered[c] \in Seq(Nat)
    BY DEF ClientType
  <2>2. /\ Elements(delivered'[c]) = Elements(delivered[c]) \cup {msg}
        /\ \A b \in Conn \ {c} : delivered'[b] = delivered[b]
    BY <1>3, <1>9, <2>1, AppendElements DEF ClientType
  <2>3. \A m \in Elements(delivered[c]) : m < msg
    BY <1>0, <1>3 DEF WrittenIsNext
  <2>4. Increasing(delivered'[c])
    <3>1. Increasing(Append(delivered[c], msg))
      BY <1>3, <2>1, <2>3, AppendIncreasing DEF DeliveredOnceInOrder
    <3> QED
      BY <1>9, <3>1 DEF ClientType
  <2>5. PastIsPast'
    BY <1>5, <1>6, <1>9, <2>2, ElementsNat DEF PastIsPast
  <2>6. WrittenIsNext'
    BY <1>2, <2>2 DEF WrittenIsNext
  <2>7. \A b \in Conn : msg \notin Elements(delivered[b])
    BY <1>5, ElementsNat DEF PastIsPast
  <2>8. \A l \in lost : l.no # msg
    BY <1>5, ElementsNat DEF PastIsPast
  <2>9. \A b \in Conn : Increasing(delivered'[b])
    BY <2>2, <2>4 DEF DeliveredOnceInOrder
  <2>10. \A b, d \in Conn : b # d => Elements(delivered'[b]) \cap Elements(delivered'[d]) = {}
    BY <2>2, <2>7 DEF DeliveredOnceInOrder
  <2>11. \A b \in Conn : Elements(delivered'[b]) \cap {l.no : l \in lost'} = {}
    BY <1>9, <2>2, <2>8 DEF DeliveredOnceInOrder
  <2>12. DeliveredOnceInOrder'
    BY <2>9, <2>10, <2>11 DEF DeliveredOnceInOrder
  <2> QED
    BY <1>7, <1>8, <2>5, <2>6, <2>12
<1>10. CASE /\ delivered' = delivered
            /\ lost' = lost \cup {Loss(c)}
  <2>1. Loss(c).no = msg
    BY <1>0 DEF Loss
  <2>2. PastIsPast'
    BY <1>5, <1>6, <1>10, <2>1, ElementsNat DEF PastIsPast
  <2>3. WrittenIsNext'
    BY <1>2, <1>10 DEF WrittenIsNext
  <2>4. \A b \in Conn : msg \notin Elements(delivered[b])
    BY <1>5, ElementsNat DEF PastIsPast
  <2>5. \A b \in Conn : Elements(delivered'[b]) \cap {l.no : l \in lost'} = {}
    BY <1>10, <2>1, <2>4 DEF DeliveredOnceInOrder
  <2>6. DeliveredOnceInOrder'
    BY <1>10, <2>5 DEF DeliveredOnceInOrder
  <2> QED
    BY <1>7, <1>8, <2>2, <2>3, <2>6
<1> QED
  BY <1>0, <1>9, <1>10 DEF WriteSucceeds, WriteFails

LEMMA OrderFrame ==
  ASSUME ClientType, OrderInv, UNCHANGED <<outgoing, sent, writing, delivered, lost>>,
         \A c \in Conn : writer'[c] = "write" => writer[c] = "write"
  PROVE  OrderInv'
<1> USE DEF OrderInv
<1>1. \A m \in Nat : Past(m) => Past(m)'
  BY DEF Past
<1>2. PastIsPast'
  BY <1>1, ElementsNat DEF PastIsPast
<1>3. Waiting' /\ WrittenIsNext' /\ DeliveredOnceInOrder'
  BY DEF Waiting, WrittenIsNext, DeliveredOnceInOrder
<1>4. Written'
  BY DEF Written
<1> QED
  BY <1>2, <1>3, <1>4

LEMMA OrderInvariant == Spec => []OrderInv
<1>1. Init => OrderInv
  <2>1. Elements(<<>>) = {} /\ Increasing(<<>>)
    BY DEF Elements, Increasing
  <2> QED
    BY <2>1 DEF Init, OrderInv, Waiting, Written, PastIsPast, WrittenIsNext, DeliveredOnceInOrder
<1>2. ClientType /\ OrderInv /\ [Next]_vars => OrderInv'
  <2> SUFFICES ASSUME ClientType, OrderInv, [Next]_vars PROVE OrderInv'
    OBVIOUS
  <2>1. CASE Send
    BY <2>1, SendOrder
  <2>2. CASE Consume \/ Close \/ Idle \/ UNCHANGED vars
    BY <2>2, OrderFrame DEF Consume, Close, Idle, vars, outVars
  <2>3. ASSUME NEW c \in Conn, Upgrade(c) \/ Reconnect(c) \/ Break(c) \/ ReadingLoop(c)
        PROVE  OrderInv'
    <3>1. UNCHANGED <<outgoing, sent, writing, delivered, lost>>
      BY <2>3 DEF Upgrade, Reconnect, CloseOld, LookAtChannel, CloseChannel, MakeChannel, Install,
                  Break, ReadingLoop, ReadMessages, HandOn, outVars
    <3>2. \A b \in Conn : writer'[b] = "write" => writer[b] = "write"
      BY <2>3 DEF Upgrade, Reconnect, CloseOld, LookAtChannel, CloseChannel, MakeChannel, Install,
                  Break, ReadingLoop, ReadMessages, HandOn, outVars, ClientType
    <3> QED
      BY <3>1, <3>2, OrderFrame
  <2>4. ASSUME NEW c \in Conn, EnterSelect(c) \/ WriterReturns(c)
        PROVE  OrderInv'
    <3>1. UNCHANGED <<outgoing, sent, writing, delivered, lost>>
      BY <2>4 DEF EnterSelect, WriterReturns
    <3>2. \A b \in Conn : writer'[b] = "write" => writer[b] = "write"
      BY <2>4 DEF EnterSelect, WriterReturns, ClientType
    <3> QED
      BY <3>1, <3>2, OrderFrame
  <2>5. ASSUME NEW c \in Conn, TakeMessage(c) \/ WriteSucceeds(c) \/ WriteFails(c)
        PROVE  OrderInv'
    BY <2>5, TakeOrder, WriteOrder
  <2> QED
    BY <2>1, <2>2, <2>3, <2>4, <2>5 DEF Next, WritingLoop, ReadingLoop
<1> QED
  BY <1>1, <1>2, TypeInvariant, PTL DEF Spec

\* Every peer sees its messages in the order of sending, and no message is
\* delivered twice, or delivered and lost.
THEOREM AlwaysDeliveredOnceInOrder == Spec => []DeliveredOnceInOrder
<1>1. OrderInv => DeliveredOnceInOrder
  BY DEF OrderInv
<1> QED
  BY <1>1, OrderInvariant, PTL
-----------------------------------------------------------------------------
(***************************************************************************)
(* The rest of the types: how many channels are made, and what the buffers *)
(* hold.                                                                   *)
(***************************************************************************)
\* Every upgrade makes one channel.
Made == {c \in Conn : upgrade[c] \in {"install", "done"}}

ChannelInv ==
  /\ made = Cardinality(Made) + 1
  /\ reconnected \in 1..made
  /\ closedChans \subseteq 1..made
  /\ watched \in [Conn -> 0..made]
  /\ closing \in BOOLEAN

LEMMA FiniteMade ==
  /\ IsFiniteSet(Made) /\ Cardinality(Made) \in Nat
  /\ Cardinality(Made) <= MaxConns
<1>1. IsFiniteSet(Conn) /\ Cardinality(Conn) = MaxConns
  <2>1. IsFiniteSet(1..MaxConns) /\ Cardinality(1..MaxConns) = IF 1 > MaxConns THEN 0 ELSE MaxConns - 1 + 1
    BY BoundsAssumption, FS_Interval
  <2> QED
    BY <2>1, BoundsAssumption DEF Conn
<1>2. Made \in SUBSET Conn
  BY DEF Made
<1>3. IsFiniteSet(Made) /\ Cardinality(Made) <= MaxConns
  BY <1>1, <1>2, FS_Subset
<1> QED
  BY <1>3, FS_CardinalityType

LEMMA MakeChannelOne ==
  ASSUME ClientType, ChannelInv, NEW c \in Conn, MakeChannel(c)
  PROVE  ChannelInv'
<1>1. /\ made' = made + 1 /\ reconnected' = made + 1
      /\ UNCHANGED <<closedChans, watched, closing>>
  BY DEF MakeChannel, outVars
<1>2. c \notin Made /\ Made' = Made \cup {c}
  BY DEF MakeChannel, Made, ClientType
<1>3. Cardinality(Made') = Cardinality(Made) + 1
  BY <1>2, FiniteMade, FS_AddElement
<1>4. made' = Cardinality(Made') + 1 /\ made \in Nat
  BY <1>1, <1>3, FiniteMade DEF ChannelInv
<1>5. 1..made \subseteq 1..made' /\ 0..made \subseteq 0..made' /\ made + 1 \in 1..made'
  BY <1>1, <1>4
<1>6. watched' \in [Conn -> 0..made']
  BY <1>1, <1>5 DEF ChannelInv
<1> QED
  BY <1>1, <1>4, <1>5, <1>6 DEF ChannelInv

LEMMA ChannelInvariant == Spec => []ChannelInv
<1>1. Init => ChannelInv
  <2> SUFFICES ASSUME Init PROVE ChannelInv
    OBVIOUS
  <2>1. Made = {}
    BY DEF Init, Made
  <2>2. made = 1 /\ reconnected = 1 /\ closedChans = {} /\ closing = FALSE
    BY DEF Init
  <2>3. watched \in [Conn -> 0..1]
    BY DEF Init
  <2>4. Cardinality(Made) = 0
    BY <2>1, FS_EmptySet
  <2>5. made = Cardinality(Made) + 1
    <3>1. Cardinality(Made) + 1 = 1
      BY <2>4
    <3> QED
      BY <2>2, <3>1, Zenon
  <2>7. watched \in [Conn -> 0..made]
    <3>1. made = 1
      BY <2>2
    <3> QED
      BY <2>3, <3>1, Zenon
  <2>6. reconnected \in 1..made /\ closedChans \subseteq 1..made /\ closing \in BOOLEAN
    <3>1. reconnected \in 1..made
      BY <2>2
    <3>2. closedChans \subseteq 1..made
      BY <2>2, Zenon
    <3>3. closing \in BOOLEAN
      BY <2>2, Zenon
    <3> QED
      BY <3>1, <3>2, <3>3
  <2> QED
    BY <2>5, <2>6, <2>7 DEF ChannelInv
<1>2. ClientType /\ StartedOnce /\ ChannelInv /\ [Next]_vars => ChannelInv'
  <2> SUFFICES ASSUME ClientType, StartedOnce, ChannelInv, [Next]_vars PROVE ChannelInv'
    OBVIOUS
  <2>0. made \in Nat /\ 1 <= made
    BY FiniteMade DEF ChannelInv
  <2>1. ASSUME Made' = Made, UNCHANGED <<made, reconnected, closedChans, watched>>,
               closing' \in BOOLEAN
        PROVE  ChannelInv'
    BY <2>1 DEF ChannelInv
  <2>2. CASE Send \/ Consume \/ Close \/ Idle \/ UNCHANGED vars
    <3>1. UNCHANGED <<upgrade, made, reconnected, closedChans, watched>> /\ closing' \in BOOLEAN
      BY <2>2 DEF Send, Consume, Close, Idle, vars, connVars, outVars, ChannelInv
    <3> QED
      BY <2>1, <3>1 DEF Made
  <2>3. ASSUME NEW c \in Conn, Break(c) \/ ReadingLoop(c)
        PROVE  ChannelInv'
    <3>1. UNCHANGED <<upgrade, made, reconnected, closedChans, watched, closing>>
      BY <2>3 DEF Break, ReadingLoop, ReadMessages, HandOn, connVars, outVars
    <3> QED
      BY <2>1, <3>1 DEF Made, ChannelInv
  <2>4. ASSUME NEW c \in Conn, Upgrade(c) \/ CloseOld(c) \/ LookAtChannel(c) \/ Install(c)
        PROVE  ChannelInv'
    <3>1. UNCHANGED <<made, reconnected, closedChans, watched, closing>>
      BY <2>4 DEF Upgrade, CloseOld, LookAtChannel, Install, outVars
    <3>2. PICK u \in UpgradeState :
            /\ upgrade' = [upgrade EXCEPT ![c] = u]
            /\ u \in {"install", "done"} <=> upgrade[c] \in {"install", "done"}
      BY <2>4 DEF Upgrade, CloseOld, LookAtChannel, Install, StartedOnce, UpgradeState
    <3>3. Made' = Made
      BY <3>2 DEF Made, ClientType
    <3> QED
      BY <2>1, <3>1, <3>3 DEF ChannelInv
  <2>5. ASSUME NEW c \in Conn, CloseChannel(c)
        PROVE  ChannelInv'
    <3>1. /\ UNCHANGED <<made, reconnected, watched, closing>>
          /\ closedChans' = closedChans \cup {reconnected}
      BY <2>5 DEF CloseChannel, outVars
    <3>2. PICK u \in UpgradeState :
            upgrade' = [upgrade EXCEPT ![c] = u] /\ u \notin {"install", "done"}
      BY <2>5 DEF CloseChannel, UpgradeState
    <3>3. Made' = Made
      BY <2>5, <3>2 DEF Made, ClientType, CloseChannel
    <3> QED
      BY <3>1, <3>3 DEF ChannelInv
  <2>6. ASSUME NEW c \in Conn, MakeChannel(c)
        PROVE  ChannelInv'
    BY <2>6, MakeChannelOne
  <2>7. ASSUME NEW c \in Conn, EnterSelect(c)
        PROVE  ChannelInv'
    <3>1. UNCHANGED <<upgrade, made, reconnected, closedChans, closing>>
      BY <2>7 DEF EnterSelect, connVars
    <3>2. reconnected \in 0..made
      BY <2>0 DEF ChannelInv
    <3>3. watched' \in [Conn -> 0..made]
      BY <2>7, <3>2 DEF EnterSelect, ChannelInv
    <3> QED
      BY <3>1, <3>3 DEF ChannelInv, Made
  <2>8. ASSUME NEW c \in Conn,
               TakeMessage(c) \/ WriteSucceeds(c) \/ WriteFails(c) \/ WriterReturns(c)
        PROVE  ChannelInv'
    <3>1. UNCHANGED <<upgrade, made, reconnected, closedChans, watched, closing>>
      BY <2>8 DEF TakeMessage, WriteSucceeds, WriteFails, WriterReturns, connVars
    <3> QED
      BY <2>1, <3>1 DEF Made, ChannelInv
  <2> QED
    BY <2>2, <2>3, <2>4, <2>5, <2>6, <2>7, <2>8 DEF Next, Reconnect, WritingLoop, ReadingLoop
<1>3. LossInv => StartedOnce
  BY DEF LossInv
<1> QED
  BY <1>1, <1>2, <1>3, TypeInvariant, LossInvariant, PTL DEF Spec

\* Buffers keep within their capacity, loops hand on what the peer has sent, and
\* nothing is lost to a connection that works.
BufferInv ==
  /\ incoming \in Seq(Nat) /\ Len(incoming) <= BufferLimit
  /\ Len(outgoing) <= BufferLimit
  /\ reader \in [Conn -> Seq(1..MaxRead)]
  /\ sent <= MaxSent /\ Len(origin) <= MaxRead
  /\ \A l \in lost : l.state \in {"broken", "closed"}

LEMMA OfferBound ==
  ASSUME NEW buffer \in Seq(Nat), NEW msg \in Nat, Len(buffer) <= BufferLimit
  PROVE  Offer(buffer, msg) \in Seq(Nat) /\ Len(Offer(buffer, msg)) <= BufferLimit
<1>1. /\ Append(buffer, msg) \in Seq(Nat) /\ Len(buffer) \in Nat
      /\ Len(Append(buffer, msg)) = Len(buffer) + 1
  OBVIOUS
<1> QED
  BY <1>1, BufferAssumption DEF Offer

LEMMA TailBound ==
  ASSUME NEW buffer \in Seq(Nat), Len(buffer) <= BufferLimit, buffer # <<>>
  PROVE  Tail(buffer) \in Seq(Nat) /\ Len(Tail(buffer)) <= BufferLimit
<1>1. /\ Tail(buffer) \in Seq(Nat) /\ Len(buffer) \in Nat
      /\ Len(Tail(buffer)) = Len(buffer) - 1
  OBVIOUS
<1> QED
  BY <1>1, BufferAssumption

LEMMA BufferInvariant == Spec => []BufferInv
<1>1. Init => BufferInv
  <2> SUFFICES ASSUME Init PROVE BufferInv
    OBVIOUS
  <2>1. <<>> \in Seq(Nat) /\ <<>> \in Seq(1..MaxRead) /\ Len(<<>>) = 0
    OBVIOUS
  <2>2. reader \in [Conn -> Seq(1..MaxRead)]
    BY <2>1 DEF Init
  <2>3. incoming = <<>> /\ outgoing = <<>> /\ sent = 0 /\ origin = <<>> /\ lost = {}
    BY DEF Init
  <2>4. 0 <= BufferLimit /\ 0 <= MaxRead /\ 0 <= MaxSent
    BY BufferAssumption, BoundsAssumption
  <2>5. Len(incoming) <= BufferLimit /\ Len(outgoing) <= BufferLimit /\ Len(origin) <= MaxRead
    BY <2>1, <2>3, <2>4
  <2> QED
    BY <2>1, <2>2, <2>3, <2>4, <2>5 DEF BufferInv
<1>2. ClientType /\ BufferInv /\ [Next]_vars => BufferInv'
  <2> SUFFICES ASSUME ClientType, BufferInv, [Next]_vars PROVE BufferInv'
    OBVIOUS
  <2>1. CASE Send
    <3>1. /\ sent < MaxSent /\ sent' = sent + 1 /\ outgoing' = Offer(outgoing, sent + 1)
          /\ UNCHANGED <<incoming, reader, origin, lost>>
      BY <2>1 DEF Send, inVars
    <3>2. sent \in Nat /\ sent + 1 <= MaxSent
      BY <3>1, BoundsAssumption DEF ClientType
    <3>3. Len(outgoing') <= BufferLimit
      BY <3>1, <3>2, OfferBound DEF ClientType, BufferInv
    <3> QED
      BY <3>1, <3>2, <3>3 DEF BufferInv
  <2>2. CASE Consume
    <3>1. Tail(incoming) \in Seq(Nat) /\ Len(Tail(incoming)) <= BufferLimit
      BY <2>2, TailBound DEF Consume, BufferInv
    <3> QED
      BY <2>2, <3>1 DEF Consume, outVars, BufferInv
  <2>3. CASE Close \/ Idle \/ UNCHANGED vars
    BY <2>3 DEF Close, Idle, vars, inVars, outVars, BufferInv
  <2>4. ASSUME NEW c \in Conn, Upgrade(c) \/ Reconnect(c) \/ Break(c)
        PROVE  BufferInv'
    <3>1. UNCHANGED <<incoming, reader, origin, outgoing, sent, lost>>
      BY <2>4 DEF Upgrade, Reconnect, CloseOld, LookAtChannel, CloseChannel, MakeChannel, Install,
                  Break, inVars, outVars
    <3> QED
      BY <3>1 DEF BufferInv
  <2>5. ASSUME NEW c \in Conn, EnterSelect(c) \/ WriterReturns(c)
        PROVE  BufferInv'
    BY <2>5 DEF EnterSelect, WriterReturns, inVars, BufferInv
  <2>6. ASSUME NEW c \in Conn, TakeMessage(c)
        PROVE  BufferInv'
    <3>1. Len(Tail(outgoing)) <= BufferLimit
      BY <2>6, TailBound DEF TakeMessage, ClientType, BufferInv
    <3> QED
      BY <2>6, <3>1 DEF TakeMessage, Remaining, inVars, BufferInv
  <2>7. ASSUME NEW c \in Conn, WriteSucceeds(c) \/ WriteFails(c)
        PROVE  BufferInv'
    <3>1. UNCHANGED <<incoming, reader, origin, outgoing, sent>>
      BY <2>7 DEF WriteSucceeds, WriteFails, inVars
    <3>2. lost' = lost \/ (lost' = lost \cup {Loss(c)} /\ socket[c] \in {"broken", "closed"})
      BY <2>7 DEF WriteSucceeds, WriteFails
    <3>3. Loss(c).state = socket[c]
      BY DEF Loss
    <3> QED
      BY <3>1, <3>2, <3>3 DEF BufferInv
  <2>8. ASSUME NEW c \in Conn, NEW n \in 1..MaxRead, ReadMessages(c, n)
        PROVE  BufferInv'
    <3>1. /\ Len(origin) + n <= MaxRead /\ reader' = [reader EXCEPT ![c] = NextRead(n)]
          /\ origin' = origin \o [i \in 1..n |-> c]
          /\ UNCHANGED <<incoming, outgoing, sent, lost>>
      BY <2>8 DEF ReadMessages, outVars
    <3>2. n \in Nat /\ origin \in Seq(Conn) /\ Len(origin) \in Nat
      BY BoundsAssumption DEF ClientType
    <3>3. Len(origin') <= MaxRead
      BY <3>1, <3>2, ReadTypes
    <3>4. \A i \in 1..n : Len(origin) + i \in 1..MaxRead
      BY <3>1, <3>2, BoundsAssumption
    <3>5. NextRead(n) \in [1..n -> 1..MaxRead]
      BY <3>4 DEF NextRead
    <3>6. NextRead(n) \in Seq(1..MaxRead)
      BY <3>2, <3>5, SeqIsFunction
    <3>7. reader' \in [Conn -> Seq(1..MaxRead)]
      BY <3>1, <3>6 DEF BufferInv
    <3> QED
      BY <3>1, <3>3, <3>7 DEF BufferInv
  <2>9. ASSUME NEW c \in Conn, HandOn(c)
        PROVE  BufferInv'
    <3>1. /\ reader[c] # <<>> /\ reader' = [reader EXCEPT ![c] = Tail(reader[c])]
          /\ incoming' = Offer(incoming, Head(reader[c]))
          /\ UNCHANGED <<origin, outgoing, sent, lost>>
      BY <2>9 DEF HandOn, outVars
    <3>2. reader[c] \in Seq(1..MaxRead)
      BY DEF BufferInv
    <3>3. Head(reader[c]) \in 1..MaxRead /\ Tail(reader[c]) \in Seq(1..MaxRead)
      BY <3>1, <3>2, HeadTailProperties
    <3>4. incoming' \in Seq(Nat) /\ Len(incoming') <= BufferLimit
      BY <3>1, <3>3, OfferBound DEF BufferInv
    <3>5. reader' \in [Conn -> Seq(1..MaxRead)]
      BY <3>1, <3>3 DEF BufferInv
    <3> QED
      BY <3>1, <3>4, <3>5 DEF BufferInv
  <2> QED
    BY <2>1, <2>2, <2>3, <2>4, <2>5, <2>6, <2>7, <2>8, <2>9 DEF Next, WritingLoop
<1> QED
  BY <1>1, <1>2, TypeInvariant, PTL DEF Spec

\* Every variable keeps its type: among them, one reconnected channel at most
\* for each connection, and no buffer beyond its capacity.
THEOREM TypeCorrect == Spec => []TypeOK
<1>1. ClientType /\ ChannelInv /\ BufferInv /\ OrderInv => TypeOK
  <2> SUFFICES ASSUME ClientType, ChannelInv, BufferInv, OrderInv PROVE TypeOK
    OBVIOUS
  <2>1. made \in 1..(MaxConns + 1)
    BY FiniteMade, BoundsAssumption DEF ChannelInv
  <2>2. sent \in 0..MaxSent
    BY BoundsAssumption DEF ClientType, BufferInv
  <2>3. writing \in [Conn -> 0..MaxSent]
    <3>1. \A c \in Conn : writing[c] \in Nat /\ writing[c] <= sent
      BY ElementsNat DEF OrderInv, Written
    <3>2. \A c \in Conn : writing[c] \in 0..MaxSent
      BY <2>2, <3>1, BoundsAssumption
    <3> QED
      BY <3>2 DEF ClientType
  <2>4. lost \subseteq [no : 1..MaxSent, conn : Conn, state : {"broken", "closed"}]
    <3> SUFFICES ASSUME NEW l \in lost
                 PROVE  l \in [no : 1..MaxSent, conn : Conn, state : {"broken", "closed"}]
      OBVIOUS
    <3>1. l \in [no : Nat, conn : Conn, state : SocketState]
      BY DEF ClientType
    <3>2. l.no > 0 /\ l.no <= sent /\ l.no \in Nat
      BY ElementsNat DEF OrderInv, PastIsPast, Past
    <3>3. l.no \in 1..MaxSent
      BY <2>2, <3>2, BoundsAssumption
    <3>4. l.state \in {"broken", "closed"}
      BY DEF BufferInv
    <3> QED
      BY <3>1, <3>3, <3>4
  <2> QED
    BY <2>1, <2>2, <2>3, <2>4 DEF TypeOK, ClientType, ChannelInv, BufferInv
<1> QED
  BY <1>1, TypeInvariant, ChannelInvariant, BufferInvariant, OrderInvariant, PTL
==============================================================================
