--------------------------- MODULE WebSocketClient ---------------------------
(***************************************************************************)
(* One WebSocketClient of common/client/client.go: the socket it writes to *)
(* and reads from, replaced by reconnect while the loops of the previous   *)
(* one still run.  Nothing but channels synchronises them, and reconnect   *)
(* may itself run for several upgrades at a time.  Messages are numbers,   *)
(* in the order in which the game, or the peer, sends them.                *)
(***************************************************************************)
EXTENDS Naturals, Sequences, FiniteSets

CONSTANTS BufferLimit,  \* messageBufferLimit of incoming and outgoing
          MaxConns,     \* bound: connections that are made
          Parallel,     \* bound: upgrades that run at the same time
          MaxSent,      \* bound: messages the game sends
          MaxRead       \* bound: messages the peer sends

ASSUME BufferAssumption == BufferLimit \in Nat \ {0}
ASSUME BoundsAssumption == MaxConns \in Nat /\ Parallel \in Nat /\ MaxSent \in Nat /\ MaxRead \in Nat

Conn == 1..MaxConns
NoConn == 0

VARIABLES conn,         \* client.conn
          reconnected,  \* client.reconnected: channels are numbered as they are made
          closedChans,  \* the channels of reconnected that are closed
          closing,      \* client.closing is closed
          incoming, outgoing,
          socket,       \* the state of every connection, see SocketState
          upgrade,      \* where reconnect(c) stands, see UpgradeState
          reader,       \* what the library has read for readingLoop(c): the first is in its hands
          writer,       \* where writingLoop(c) stands, see WriterState
          watched,      \* the channel that the select of writingLoop(c) has read
          writing,      \* the message writingLoop(c) has taken
          made,         \* channels made so far
          sent,         \* messages sent by the game
          origin,       \* history: the connection of every message read from the peer
          delivered,    \* what the peer received on every connection
          lost,         \* messages taken from outgoing that no peer received, see Loss
          overlapped    \* history: two upgrades have run at the same time

connVars == <<conn, reconnected, closedChans, made, upgrade, overlapped>>
inVars == <<incoming, reader, origin>>
outVars == <<outgoing, writer, watched, writing, sent, delivered, lost>>
vars == <<connVars, inVars, outVars, closing, socket>>

\* "broken" sockets have lost their peer, "closed" ones are closed here too.
SocketState == {"none", "open", "broken", "closed"}

\* The statements of reconnect: close the old connection, look at the channel,
\* close it, make the next one, install the connection.  "panicked" is a second
\* close of the channel.
UpgradeState == {"none", "old", "look", "close", "make", "install", "done", "panicked"}

\* "top" is before the select, "select" in it, "write" in WriteJSON.
WriterState == {"none", "top", "select", "write", "exited"}

TypeOK ==
  /\ conn \in Conn \cup {NoConn}
  /\ made \in 1..(MaxConns + 1)
  /\ reconnected \in 1..made
  /\ closedChans \subseteq 1..made
  /\ closing \in BOOLEAN
  /\ Len(incoming) <= BufferLimit /\ Len(outgoing) <= BufferLimit
  /\ socket \in [Conn -> SocketState]
  /\ upgrade \in [Conn -> UpgradeState]
  /\ writer \in [Conn -> WriterState]
  /\ watched \in [Conn -> 0..made]
  /\ writing \in [Conn -> 0..MaxSent]
  /\ reader \in [Conn -> Seq(1..MaxRead)]
  /\ sent \in 0..MaxSent
  /\ origin \in Seq(Conn) /\ Len(origin) <= MaxRead
  /\ lost \subseteq [no : 1..MaxSent, conn : Conn, state : {"broken", "closed"}]

(***************************************************************************)
(* Mutants: what a plausible bug would make of the definition that is      *)
(* named in each comment.  Nothing uses them; a property is trusted only   *)
(* after it has been seen to fail with one of them in that place.          *)
(***************************************************************************)
LeaveSocket(c) == socket                            \* CloseSocket

HearsSuccessorOnly(c) == watched[c] \in closedChans \* IsTold

WritesOn(c) == "top"                                \* AfterFailure

LeaveUntilWritten(buffer) == buffer                 \* Remaining
-----------------------------------------------------------------------------
\* NewWebSocketClient.
Init ==
  /\ conn = NoConn
  /\ made = 1
  /\ reconnected = 1
  /\ closedChans = {}
  /\ closing = FALSE
  /\ incoming = <<>> /\ outgoing = <<>>
  /\ socket = [c \in Conn |-> "none"]
  /\ upgrade = [c \in Conn |-> "none"]
  /\ reader = [c \in Conn |-> <<>>]
  /\ writer = [c \in Conn |-> "none"]
  /\ watched = [c \in Conn |-> 0]
  /\ writing = [c \in Conn |-> 0]
  /\ sent = 0
  /\ origin = <<>>
  /\ delivered = [c \in Conn |-> <<>>]
  /\ lost = {}
  /\ overlapped = FALSE

\* A send to a bounded channel with a default branch.
Offer(buffer, msg) == IF Len(buffer) < BufferLimit THEN Append(buffer, msg) ELSE buffer

\* conn.Close() of the connection the field holds.
CloseSocket(c) == IF c = NoConn THEN socket ELSE [socket EXCEPT ![c] = "closed"]
-----------------------------------------------------------------------------
(***************************************************************************)
(* reconnect, called with a fresh connection.                              *)
(***************************************************************************)
Running(c) == upgrade[c] \in {"old", "look", "close", "make", "install"}

Upgrade(c) ==
  /\ socket[c] = "none"
  /\ \A b \in Conn : b < c => socket[b] # "none"
  /\ Cardinality({b \in Conn : Running(b)}) < Parallel
  /\ socket' = [socket EXCEPT ![c] = "open"]
  /\ upgrade' = [upgrade EXCEPT ![c] = "old"]
  /\ overlapped' = (overlapped \/ \E b \in Conn : Running(b))
  /\ UNCHANGED <<conn, reconnected, closedChans, made, inVars, outVars, closing>>

CloseOld(c) ==
  /\ upgrade[c] = "old"
  /\ socket' = CloseSocket(conn)
  /\ upgrade' = [upgrade EXCEPT ![c] = "look"]
  /\ UNCHANGED <<overlapped, conn, reconnected, closedChans, made, inVars, outVars, closing>>

LookAtChannel(c) ==
  /\ upgrade[c] = "look"
  /\ upgrade' = [upgrade EXCEPT ![c] = IF reconnected \in closedChans THEN "make" ELSE "close"]
  /\ UNCHANGED <<overlapped, conn, reconnected, closedChans, made, inVars, outVars, closing, socket>>

CloseChannel(c) ==
  /\ upgrade[c] = "close"
  /\ closedChans' = closedChans \cup {reconnected}
  /\ upgrade' = [upgrade EXCEPT ![c] = IF reconnected \in closedChans THEN "panicked" ELSE "make"]
  /\ UNCHANGED <<overlapped, conn, reconnected, made, inVars, outVars, closing, socket>>

MakeChannel(c) ==
  /\ upgrade[c] = "make"
  /\ made' = made + 1
  /\ reconnected' = made'
  /\ upgrade' = [upgrade EXCEPT ![c] = "install"]
  /\ UNCHANGED <<overlapped, conn, closedChans, inVars, outVars, closing, socket>>

\* The field is set and the loops of the connection start.
Install(c) ==
  /\ upgrade[c] = "install"
  /\ conn' = c
  /\ upgrade' = [upgrade EXCEPT ![c] = "done"]
  /\ writer' = [writer EXCEPT ![c] = "top"]
  /\ UNCHANGED <<overlapped, reconnected, closedChans, made, inVars, outgoing, watched, writing, sent, delivered,
                 lost, closing, socket>>

\* close(), by CloseGame or manager.Close or both: a second call closes the
\* connection that was made since the first.
Close ==
  /\ closing' = TRUE
  /\ socket' = CloseSocket(conn)
  /\ UNCHANGED <<connVars, inVars, outVars>>

\* The network or the peer gives a connection up.
Break(c) ==
  /\ socket[c] = "open"
  /\ socket' = [socket EXCEPT ![c] = "broken"]
  /\ UNCHANGED <<connVars, inVars, outVars, closing>>
-----------------------------------------------------------------------------
(***************************************************************************)
(* Send, and writingLoop(c).                                               *)
(***************************************************************************)
\* A full buffer makes Send return ErrMessageLimit.
Send ==
  /\ sent < MaxSent
  /\ sent' = sent + 1
  /\ outgoing' = Offer(outgoing, sent')
  /\ UNCHANGED <<connVars, inVars, writer, watched, writing, delivered, lost, closing, socket>>

\* The message in writingLoop(c)'s hands is lost.
Loss(c) == [no |-> writing[c], conn |-> c, state |-> socket[c]]

\* The select reads the field, which may by now hold the next channel.
EnterSelect(c) ==
  /\ writer[c] = "top"
  /\ writer' = [writer EXCEPT ![c] = "select"]
  /\ watched' = [watched EXCEPT ![c] = reconnected]
  /\ UNCHANGED <<connVars, inVars, outgoing, writing, sent, delivered, lost, closing, socket>>

\* A receive takes its message out at once, whatever becomes of the write.
Remaining(buffer) == Tail(buffer)

TakeMessage(c) ==
  /\ writer[c] = "select"
  /\ outgoing # <<>>
  /\ outgoing' = Remaining(outgoing)
  /\ writing' = [writing EXCEPT ![c] = Head(outgoing)]
  /\ writer' = [writer EXCEPT ![c] = "write"]
  /\ UNCHANGED <<connVars, inVars, watched, sent, delivered, lost, closing, socket>>

\* WriteJSON succeeds; what is written to a broken connection goes nowhere.
WriteSucceeds(c) ==
  /\ writer[c] = "write"
  /\ socket[c] \in {"open", "broken"}
  /\ writer' = [writer EXCEPT ![c] = "top"]
  /\ writing' = [writing EXCEPT ![c] = 0]
  /\ IF socket[c] = "open"
     THEN /\ delivered' = [delivered EXCEPT ![c] = Append(@, writing[c])]
          /\ UNCHANGED lost
     ELSE /\ lost' = lost \cup {Loss(c)}
          /\ UNCHANGED delivered
  /\ UNCHANGED <<connVars, inVars, outgoing, watched, sent, closing, socket>>

AfterFailure(c) == "exited"

\* WriteJSON fails and the loop returns: its message is not put back.
WriteFails(c) ==
  /\ writer[c] = "write"
  /\ socket[c] \in {"broken", "closed"}
  /\ writer' = [writer EXCEPT ![c] = AfterFailure(c)]
  /\ writing' = [writing EXCEPT ![c] = 0]
  /\ lost' = lost \cup {Loss(c)}
  /\ UNCHANGED <<connVars, inVars, outgoing, watched, sent, delivered, closing, socket>>

IsTold(c) == watched[c] \in closedChans \/ closing

\* The select sees the closed channel it watches, or closing.
WriterReturns(c) ==
  /\ writer[c] = "select"
  /\ IsTold(c)
  /\ writer' = [writer EXCEPT ![c] = "exited"]
  /\ UNCHANGED <<connVars, inVars, outgoing, watched, writing, sent, delivered, lost, closing, socket>>
-----------------------------------------------------------------------------
(***************************************************************************)
(* readingLoop(c).  It returns when ReadJSON fails, with nothing left to   *)
(* hand on, so its end is the state of its socket.                         *)
(***************************************************************************)
\* The messages numbered from the next one to be read.
NextRead(n) == [i \in 1..n |-> Len(origin) + i]

\* One read from the network brings in all that has arrived, which is n
\* messages, and ReadJSON returns the first.  The peer's last messages can still
\* be read from a broken connection, none from one that is closed here.
ReadMessages(c, n) ==
  /\ upgrade[c] = "done"
  /\ socket[c] \in {"open", "broken"}
  /\ reader[c] = <<>>
  /\ Len(origin) + n <= MaxRead
  /\ reader' = [reader EXCEPT ![c] = NextRead(n)]
  /\ origin' = origin \o [i \in 1..n |-> c]
  /\ UNCHANGED <<connVars, incoming, outVars, closing, socket>>

\* A full buffer drops the message.  Close() does not touch what the library has
\* buffered, so ReadJSON goes on to the next of it whatever the socket's state.
HandOn(c) ==
  /\ reader[c] # <<>>
  /\ reader' = [reader EXCEPT ![c] = Tail(@)]
  /\ incoming' = Offer(incoming, Head(reader[c]))
  /\ UNCHANGED <<connVars, origin, outVars, closing, socket>>

\* The PlayerClient takes a message from Consume().
Consume ==
  /\ incoming # <<>>
  /\ incoming' = Tail(incoming)
  /\ UNCHANGED <<connVars, reader, origin, outVars, closing, socket>>
-----------------------------------------------------------------------------
WritingLoop(c) ==
  EnterSelect(c) \/ TakeMessage(c) \/ WriteSucceeds(c) \/ WriteFails(c) \/ WriterReturns(c)

Reconnect(c) == CloseOld(c) \/ LookAtChannel(c) \/ CloseChannel(c) \/ MakeChannel(c) \/ Install(c)

\* A client stays idle when no one uses it.
Idle == UNCHANGED vars

Next ==
  \/ Send
  \/ Consume
  \/ Close
  \/ \E c \in Conn :
       \/ Upgrade(c)
       \/ Reconnect(c)
       \/ Break(c)
       \/ WritingLoop(c)
       \/ \E n \in 1..MaxRead : ReadMessages(c, n)
       \/ HandOn(c)
  \/ Idle

Spec == Init /\ [][Next]_vars

\* Goroutines that can run do.
FairSpec == Spec /\ \A c \in Conn : WF_vars(WritingLoop(c)) /\ WF_vars(Reconnect(c))
-----------------------------------------------------------------------------
(***************************************************************************)
(* Properties.                                                             *)
(***************************************************************************)
Increasing(s) == \A i, j \in DOMAIN s : i < j => s[i] < s[j]

Elements(s) == {s[i] : i \in DOMAIN s}

\* Two writing loops may compete for the outgoing messages, yet every peer
\* sees the messages in the order of sending, and no message reaches two
\* connections or is both delivered and lost.
DeliveredOnceInOrder ==
  /\ \A c \in Conn : Increasing(delivered[c])
  /\ \A b, c \in Conn : b # c => Elements(delivered[b]) \cap Elements(delivered[c]) = {}
  /\ \A c \in Conn : Elements(delivered[c]) \cap {l.no : l \in lost} = {}

\* A connection that is closed, by its successor or with the client, takes at
\* most one message with it: the loop that finds out by a failed write returns.
LossPerConnection ==
  \A c \in Conn : Cardinality({l \in lost : l.conn = c /\ l.state = "closed"}) <= 1

\* While upgrades run one after the other, none but the last connection is open
\* after them, and nothing is read from a connection any more once its successor
\* has been read from.  (What it has read before, it may hand on at any time, so
\* any number of its messages can get behind those of its successor.  With two
\* upgrades at the same time the second does not know the first one's
\* connection, and leaves it open.)
ReplacedIsClosed ==
  ~overlapped =>
    /\ (\A c \in Conn : ~Running(c)) => \A c \in Conn : socket[c] = "open" => c = conn
    /\ \A i, j \in DOMAIN origin : i < j => origin[i] <= origin[j]

\* Closing the client ends every writing loop, also one that an upgrade
\* starts afterwards.
WritersEnd == closing ~> \A c \in Conn : writer[c] \in {"none", "exited"}
==============================================================================
