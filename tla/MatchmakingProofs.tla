-------------------------- MODULE MatchmakingProofs --------------------------
(***************************************************************************)
(* Proofs about Matchmaking, for any games, joins and servers, and any     *)
(* number of faults.                                                       *)
(***************************************************************************)
EXTENDS Matchmaking, FunctionTheorems, FiniteSetTheorems, SequenceTheorems, TLAPS

Elements(s) == {s[i] : i \in DOMAIN s}

\* No two messages of a queue carry the same user.
Distinct(s) == \A i, j \in DOMAIN s : s[i].user = s[j].user => i = j

LobbyRun == [state : LobbyState, server : Server, guest : Join \cup {None}]

Message == JoinRequest \cup Answer

MasterType ==
  /\ stage \in [Request -> {"idle", "asked", "answered"}]
  /\ target \in [Join -> Name \cup {None}]
  /\ \A j \in Join : stage[j] # "idle" <=> target[j] # None
  /\ listener \in [Request -> ListenerState]
  /\ \A r \in Request : stage[r] = "idle" => listener[r] = "none"
  /\ answer \in [Request -> Answer \cup {None}]
  /\ met \in [Join -> SUBSET Join]

MailType ==
  /\ mail \in [Box -> Seq(Message)]
  /\ \A n \in Name : /\ Elements(mail[AcceptBox(n)]) \subseteq Answer
                     /\ Elements(mail[JoinBox(n)]) \subseteq JoinRequest
                     /\ Elements(mail[<<"joined", n>>]) \subseteq Answer

WorkerType ==
  /\ worker \in [Server -> [at : WorkerState, game : Game \cup {None}]]
  /\ \A s \in Server : worker[s].at \in {"holding", "started"} => worker[s].game \in Game
  /\ unacked \in [Server -> Game \cup {None}]
  /\ redelivered \in [Game -> Nat]
  /\ createQueue \in Seq(Game)

LobbyType ==
  /\ lobby \in [Game -> Seq(LobbyRun)]
  /\ seats \in [Server -> [Game -> SUBSET User]]

MatchType == MasterType /\ MailType /\ WorkerType /\ LobbyType

-----------------------------------------------------------------------------
(***************************************************************************)
(* Joins, their messages and their answers.                                *)
(***************************************************************************)
Asked(n) == {j \in Join : stage[j] = "asked" /\ target[j] = n}

Answered(n) == {j \in Join : stage[j] = "answered" /\ target[j] = n}

\* A lobby in one of these states has taken a join that it is yet to answer.
Taken == {"joining", "seating"}

\* A lobby in one of these states waits for no guest, or has answered his join.
Served == {"full", "over", "crashed"}

GuestsFit ==
  \A g \in Game : \A i \in DOMAIN lobby[g] :
    /\ lobby[g][i].state \in Taken => lobby[g][i].guest # None
    /\ lobby[g][i].guest # None =>
         /\ lobby[g][i].state \in Taken \cup Served
         /\ target[lobby[g][i].guest] = g
         /\ \A k \in DOMAIN lobby[g] : lobby[g][k].guest = lobby[g][i].guest => k = i

\* A join that no lobby has taken.
JoinsFit ==
  \A n \in Name :
    /\ Distinct(mail[JoinBox(n)])
    /\ \A m \in Elements(mail[JoinBox(n)]) :
         /\ target[m.user] = n
         /\ n \in Game => \A i \in DOMAIN lobby[n] : lobby[n][i].guest # m.user

\* Among these runs of lobbies is one of the game that sent the answer to its guest.
SentBy(runs, a, n) ==
  /\ a.game = n /\ n \in Game /\ a.user \in Join
  /\ \E i \in DOMAIN runs[n] : /\ runs[n][i].state \in Served
                               /\ runs[n][i].server = a.server
                               /\ runs[n][i].guest = a.user

TokensFit ==
  \A n \in Name :
    /\ Distinct(mail[JoinedBox(n)])
    /\ \A a \in Elements(mail[JoinedBox(n)]) : SentBy(lobby, a, n)

AnswersSent ==
  \A j \in Join :
    /\ answer[j] # None => stage[j] = "answered"
    /\ stage[j] = "answered" =>
         /\ SentBy(lobby, answer[j], target[j])
         /\ \A a \in Elements(mail[JoinedBox(target[j])]) : a.user # answer[j].user
         /\ \A k \in Join : stage[k] = "answered" /\ answer[k].user = answer[j].user => k = j

\* The joins whose answers are on their way, or may yet be given.
OnTheWay(n) ==
  {m.user : m \in Elements(mail[JoinBox(n)]) \cup Elements(mail[JoinedBox(n)])}
    \cup {j \in Join : n \in Game /\ \E i \in DOMAIN lobby[n] :
                         lobby[n][i].state \in Taken /\ lobby[n][i].guest = j}

\* Whatever a waiting join may be given is its own, or of its company.
CompanyFits ==
  /\ \A n \in Name : \A j \in Asked(n) : OnTheWay(n) \subseteq {j} \cup met[j]
  /\ \A j \in Join : stage[j] = "answered" => answer[j].user \in {j} \cup met[j]

JoinInv == GuestsFit /\ JoinsFit /\ TokensFit /\ AnswersSent /\ CompanyFits
-----------------------------------------------------------------------------
(***************************************************************************)
(* Places in the registry.                                                 *)
(***************************************************************************)
\* Among these runs of a game's lobbies one has ended on the server.
Ended(runs, s) ==
  \E i \in DOMAIN runs : runs[i].server = s /\ runs[i].state \in {"over", "crashed"}

\* A lobby that has registered its players finds them among these users.
Seated(run, users) ==
  /\ run.state \in {"waiting", "listening", "joining", "seating", "full"} => Host \in users
  /\ run.state \in {"seating", "full"} => run.guest \in users

PlayersSeated ==
  \A g \in Game : \A i \in DOMAIN lobby[g] :
    \/ Ended(lobby[g], lobby[g][i].server)
    \/ <<lobby[g][i].server, g>> \in replaced
    \/ Seated(lobby[g][i], seats[lobby[g][i].server][g])

\* A lobby in one of these states has announced nothing.
Unsent == {"starting", "lost", "returned"}

\* Among these runs is the one that has sent the host this acceptance.
HostSent(runs, a, g) ==
  /\ a.game = g /\ a.user = Host
  /\ \E i \in DOMAIN runs : runs[i].server = a.server /\ runs[i].state \notin Unsent

AcceptancesSent ==
  /\ \A g \in Game : \A a \in Elements(mail[AcceptBox(g)]) : HostSent(lobby[g], a, g)
  /\ \A g \in Game : answer[g] # None => HostSent(lobby[g], answer[g], g)

\* A lobby in one of these states has put nothing into the registry.
Early == {"starting", "announced", "registering"}

EntriesOwned ==
  \A s \in Server, g \in Game : seats[s][g] # {} =>
    \E i \in DOMAIN lobby[g] : lobby[g][i].server = s /\ lobby[g][i].state \notin Early

Two(runs, s) == \E i, k \in DOMAIN runs : i # k /\ runs[i].server = s /\ runs[k].server = s

\* It takes two lobbies to overwrite an entry, and to miss one that was there.
OverlapsSeen ==
  /\ replaced \subseteq Server \X Game
  /\ \A s \in Server, g \in Game : <<s, g>> \in replaced => Two(lobby[g], s)
  /\ \A g \in Game : \A i \in DOMAIN lobby[g] :
       lobby[g][i].state = "joining" => Two(lobby[g], lobby[g][i].server)

SeatInv == PlayersSeated /\ AcceptancesSent /\ EntriesOwned /\ OverlapsSeen
-----------------------------------------------------------------------------
(***************************************************************************)
(* Create requests.                                                        *)
(***************************************************************************)
\* Where a sequence has an element.
At(q, g) == {i \in DOMAIN q : q[i] = g}

Waiting(g) == At(createQueue, g)

Holding(g) == {s \in Server : worker[s] = [at |-> "holding", game |-> g]}

\* Among these runs is one that did not return its request to the queue.
Alive(runs) == \E i \in DOMAIN runs : runs[i].state # "returned"

\* One of them is on the server.
Begun(runs, s) == \E i \in DOMAIN runs : runs[i].server = s /\ runs[i].state # "returned"

\* What the broker keeps is what the worker is at.
KeptIsHeld ==
  \A s \in Server :
    /\ unacked[s] # None => worker[s].at \in {"holding", "started"} /\ worker[s].game = unacked[s]
    /\ worker[s].at = "started" => Begun(lobby[worker[s].game], s)

\* The request is somewhere where no crash can reach it.
Safe(g) == \/ Cardinality(Waiting(g)) > 0
           \/ \E s \in Server : unacked[s] = g
           \/ Alive(lobby[g])

Counted ==
  \A g \in Game :
    /\ IsFiniteSet(Holding(g))
    /\ IF stage[g] = "idle" THEN Copies(g) = 0
                            ELSE Copies(g) <= 1 + redelivered[g] /\ Safe(g)

CopyInv == KeptIsHeld /\ Counted
-----------------------------------------------------------------------------
(***************************************************************************)
(* Names, queues and lobbies.                                              *)
(***************************************************************************)
LEMMA Names ==
  /\ Host \notin Join /\ None \notin Game /\ None \notin Name /\ None \notin Server /\ None \notin Join
  /\ Game \subseteq Name /\ Game \subseteq Request /\ Join \subseteq Request
  /\ \A r \in Request : r \in Game <=> r \notin Join
  /\ Join \subseteq User /\ Host \in User
BY NamesAssumption DEF Name, Request, User

LEMMA Boxes ==
  /\ \A n \in Name : AcceptBox(n) \in Box /\ JoinBox(n) \in Box /\ JoinedBox(n) \in Box
  /\ \A n \in Name : JoinedBox(n) = <<"joined", n>>
  /\ \A m, n \in Name :
       /\ AcceptBox(m) # JoinBox(n) /\ AcceptBox(m) # JoinedBox(n) /\ JoinBox(m) # JoinedBox(n)
       /\ m # n => AcceptBox(m) # AcceptBox(n) /\ JoinBox(m) # JoinBox(n) /\ JoinedBox(m) # JoinedBox(n)
BY DEF Box, AcceptBox, JoinBox, JoinedBox

LEMMA EmptyParts ==
  /\ <<>> \in Seq(Message) /\ Elements(<<>>) = {} /\ Distinct(<<>>)
BY DEF Elements, Distinct

LEMMA TailParts ==
  ASSUME NEW q \in Seq(Message), q # <<>>
  PROVE  /\ Head(q) \in Message /\ Head(q) \in Elements(q)
         /\ Tail(q) \in Seq(Message) /\ Elements(Tail(q)) \subseteq Elements(q)
         /\ Distinct(q) => /\ Distinct(Tail(q))
                           /\ \A m \in Elements(Tail(q)) : m.user # Head(q).user
<1> DEFINE t == Tail(q)
<1>1. /\ Len(q) \in Nat \ {0} /\ DOMAIN q = 1..Len(q) /\ Head(q) = q[1]
      /\ t \in Seq(Message) /\ Len(t) = Len(q) - 1 /\ DOMAIN t = 1..Len(t)
      /\ \A i \in 1..Len(t) : t[i] = q[i + 1]
      /\ Head(q) \in Message
  BY EmptySeq, HeadTailProperties, LenProperties
<1> HIDE DEF t
<1>2. \A i \in DOMAIN t : t[i] = q[i + 1] /\ i + 1 \in DOMAIN q /\ i + 1 # 1
  BY <1>1
<1>3. 1 \in DOMAIN q
  BY <1>1
<1>4. Elements(t) \subseteq Elements(q)
  BY <1>2 DEF Elements
<1>5. ASSUME Distinct(q)
      PROVE  Distinct(t) /\ \A m \in Elements(t) : m.user # Head(q).user
  <2>1. \A i \in DOMAIN t : t[i].user # q[1].user
    BY <1>2, <1>3, <1>5 DEF Distinct
  <2>2. \A i, j \in DOMAIN t : t[i].user = t[j].user => i + 1 = j + 1
    BY <1>2, <1>5 DEF Distinct
  <2>3. \A i, j \in DOMAIN t : i + 1 = j + 1 => i = j
    BY <1>1
  <2> QED
    BY <1>1, <2>1, <2>2, <2>3 DEF Elements, Distinct
<1> QED
  BY <1>1, <1>3, <1>4, <1>5 DEF Elements, t

LEMMA AppendParts ==
  ASSUME NEW q \in Seq(Message), NEW m \in Message
  PROVE  /\ Append(q, m) \in Seq(Message) /\ Elements(Append(q, m)) = Elements(q) \cup {m}
         /\ Distinct(q) /\ (\A n \in Elements(q) : n.user # m.user) => Distinct(Append(q, m))
<1> DEFINE a == Append(q, m)
<1>1. /\ Len(q) \in Nat /\ DOMAIN q = 1..Len(q)
      /\ a \in Seq(Message) /\ Len(a) = Len(q) + 1 /\ DOMAIN a = 1..(Len(q) + 1)
      /\ \A i \in 1..Len(q) : a[i] = q[i]
      /\ a[Len(q) + 1] = m
  OBVIOUS
<1> HIDE DEF a
<1>2. /\ \A i \in DOMAIN q : i \in DOMAIN a /\ a[i] = q[i]
      /\ \A i \in DOMAIN a : i \in DOMAIN q \/ i = Len(q) + 1
      /\ Len(q) + 1 \in DOMAIN a
  BY <1>1
<1>3. Elements(a) = Elements(q) \cup {m}
  BY <1>1, <1>2 DEF Elements
<1>4. ASSUME Distinct(q), \A n \in Elements(q) : n.user # m.user
      PROVE  Distinct(a)
  BY <1>1, <1>2, <1>4 DEF Distinct, Elements
<1> QED
  BY <1>1, <1>3, <1>4 DEF a

\* A step that takes messages out of a queue, or does nothing to it.
Shrunk(q, r) == Elements(r) \subseteq Elements(q) /\ (Distinct(q) => Distinct(r))

MailShrinks == MailType' /\ \A b \in Box : Shrunk(mail[b], mail'[b])

LEMMA DropShrinks ==
  ASSUME MailType, NEW b \in Box, mail[b] # <<>>, Drop(b)
  PROVE  /\ MailShrinks
         /\ mail'[b] = Tail(mail[b]) /\ \A c \in Box : c # b => mail'[c] = mail[c]
<1>1. mail'[b] = Tail(mail[b]) /\ \A c \in Box : c # b => mail'[c] = mail[c]
  BY DEF Drop, MailType
<1>2. /\ Tail(mail[b]) \in Seq(Message) /\ Elements(Tail(mail[b])) \subseteq Elements(mail[b])
      /\ Distinct(mail[b]) => Distinct(Tail(mail[b]))
  BY TailParts DEF MailType
<1>3. \A c \in Box : Shrunk(mail[c], mail'[c])
  BY <1>1, <1>2 DEF Shrunk
<1>4. mail' \in [Box -> Seq(Message)]
  BY <1>2 DEF Drop, MailType
<1>5. MailType'
  BY <1>3, <1>4, Boxes DEF MailType, Shrunk, AcceptBox, JoinBox
<1> QED
  BY <1>1, <1>3, <1>5 DEF MailShrinks

LEMMA SameShrinks ==
  ASSUME MailType, UNCHANGED mail
  PROVE  MailShrinks
BY DEF MailShrinks, MailType, Shrunk, AcceptBox, JoinBox

LEMMA PostGrows ==
  ASSUME MailType, NEW b \in Box, NEW msg \in Message, Post(b, msg)
  PROVE  /\ \A c \in Box : c # b => mail'[c] = mail[c]
         /\ Elements(mail'[b]) = Elements(mail[b]) \cup {msg}
         /\ Distinct(mail[b]) /\ (\A n \in Elements(mail[b]) : n.user # msg.user) => Distinct(mail'[b])
         /\ mail' \in [Box -> Seq(Message)]
<1>1. mail'[b] = Append(mail[b], msg) /\ \A c \in Box : c # b => mail'[c] = mail[c]
  BY DEF Post, MailType
<1>2. mail[b] \in Seq(Message)
  BY DEF MailType
<1>3. mail' \in [Box -> Seq(Message)]
  BY <1>2, AppendParts DEF Post, MailType
<1> QED
  BY <1>1, <1>2, <1>3, AppendParts

LEMMA ReplyBoxType ==
  ASSUME MasterType, NEW r \in Request, stage[r] # "idle"
  PROVE  /\ ReplyBox(r) \in Box
         /\ r \in Game => ReplyBox(r) = AcceptBox(r)
         /\ r \in Join => ReplyBox(r) = JoinedBox(target[r]) /\ target[r] \in Name
<1>1. r \in Join => target[r] \in Name
  BY DEF MasterType
<1> QED
  BY <1>1, Names, Boxes DEF ReplyBox, Request
-----------------------------------------------------------------------------
(***************************************************************************)
(* What a step may do to the lobbies, other than take or answer a join.    *)
(***************************************************************************)
\* One lobby's step.
Keeps(old, new) ==
  /\ new.server = old.server /\ new.guest = old.guest
  /\ new.state \in Taken => old.state \in Taken
  /\ new.state = "joining" => old.state = "joining"
  /\ new.state \in Unsent => old.state \in Unsent
  /\ new.state \in Early => old.state \in Early
  /\ old.state \in Served => new.state \in Served
  /\ old.state \in {"over", "crashed"} => new.state \in {"over", "crashed"}
  /\ new.guest # None /\ old.state \in Taken => new.state \in Taken \cup Served

LobbiesKeep ==
  /\ LobbyType'
  /\ \A g \in Game :
       /\ \A i \in DOMAIN lobby[g] : i \in DOMAIN lobby'[g] /\ Keeps(lobby[g][i], lobby'[g][i])
       /\ \A i \in DOMAIN lobby'[g] \ DOMAIN lobby[g] :
            lobby'[g][i].guest = None /\ lobby'[g][i].state = "starting"

LEMMA RunParts ==
  ASSUME LobbyType, NEW g \in Game
  PROVE  /\ lobby[g] \in Seq(LobbyRun) /\ DOMAIN lobby[g] = 1..Len(lobby[g]) /\ Len(lobby[g]) \in Nat
         /\ \A i \in DOMAIN lobby[g] :
              /\ lobby[g][i] \in LobbyRun
              /\ lobby[g][i].state \in LobbyState
              /\ lobby[g][i].server \in Server
              /\ lobby[g][i].guest \in Join \cup {None}
<1>1. lobby[g] \in Seq(LobbyRun)
  BY DEF LobbyType
<1>2. DOMAIN lobby[g] = 1..Len(lobby[g]) /\ Len(lobby[g]) \in Nat
  BY <1>1, LenProperties
<1>3. \A i \in DOMAIN lobby[g] : lobby[g][i] \in LobbyRun
  BY <1>1, <1>2, ElementOfSeq
<1> QED
  BY <1>1, <1>2, <1>3 DEF LobbyRun

\* One lobby becomes another.
LEMMA RunChanges ==
  ASSUME LobbyType, NEW g \in Game, NEW i \in DOMAIN lobby[g], NEW run \in LobbyRun,
         lobby' = [lobby EXCEPT ![g] = [lobby[g] EXCEPT ![i] = run]]
  PROVE  /\ lobby' \in [Game -> Seq(LobbyRun)]
         /\ \A h \in Game : DOMAIN lobby'[h] = DOMAIN lobby[h] /\ Len(lobby'[h]) = Len(lobby[h])
         /\ \A h \in Game : h # g => lobby'[h] = lobby[h]
         /\ \A k \in DOMAIN lobby[g] : k # i => lobby'[g][k] = lobby[g][k]
         /\ lobby'[g][i] = run
<1> DEFINE s == [lobby[g] EXCEPT ![i] = run]
<1>1. /\ lobby[g] \in Seq(LobbyRun) /\ i \in 1..Len(lobby[g])
      /\ DOMAIN lobby[g] = 1..Len(lobby[g])
  BY RunParts
<1>2. /\ s \in Seq(LobbyRun) /\ Len(s) = Len(lobby[g])
      /\ \A k \in 1..Len(lobby[g]) : s[k] = IF k = i THEN run ELSE lobby[g][k]
  BY <1>1, ExceptSeq
<1>3. DOMAIN s = 1..Len(lobby[g])
  BY <1>2, LenProperties
<1> HIDE DEF s
<1>4. lobby'[g] = s /\ \A h \in Game : h # g => lobby'[h] = lobby[h]
  BY DEF LobbyType, s
<1>5. lobby' \in [Game -> Seq(LobbyRun)]
  BY <1>2 DEF LobbyType, s
<1> QED
  BY <1>1, <1>2, <1>3, <1>4, <1>5

LEMMA GoesToKeeps ==
  ASSUME LobbyType, NEW g \in Game, NEW i \in DOMAIN lobby[g], NEW state \in LobbyState,
         GoesTo(g, i, state)
  PROVE  /\ lobby' \in [Game -> Seq(LobbyRun)]
         /\ \A h \in Game : DOMAIN lobby'[h] = DOMAIN lobby[h] /\ Len(lobby'[h]) = Len(lobby[h])
         /\ \A h \in Game : h # g => lobby'[h] = lobby[h]
         /\ \A k \in DOMAIN lobby[g] : k # i => lobby'[g][k] = lobby[g][k]
         /\ lobby'[g][i] = [lobby[g][i] EXCEPT !.state = state]
         /\ lobby'[g][i].state = state /\ lobby'[g][i].server = lobby[g][i].server
         /\ lobby'[g][i].guest = lobby[g][i].guest
<1> DEFINE run == [lobby[g][i] EXCEPT !.state = state]
<1>1. lobby[g][i] \in LobbyRun
  BY RunParts
<1>2. run \in LobbyRun /\ run.state = state /\ run.server = lobby[g][i].server /\ run.guest = lobby[g][i].guest
  BY <1>1 DEF LobbyRun
<1>3. lobby' = [lobby EXCEPT ![g] = [lobby[g] EXCEPT ![i] = run]]
  BY DEF GoesTo, LobbyType
<1> HIDE DEF run
<1>4. lobby'[g][i] = run
  BY <1>2, <1>3, RunChanges
<1> QED
  BY <1>2, <1>3, <1>4, RunChanges DEF run

LEMMA SameLobbiesKeep ==
  ASSUME LobbyType, UNCHANGED lobbyVars
  PROVE  LobbiesKeep
BY DEF LobbiesKeep, LobbyType, Keeps, lobbyVars

LEMMA AttemptKeeps ==
  ASSUME WorkerType, LobbyType, NEW s \in Server, AttemptLobby(s)
  PROVE  /\ LobbiesKeep
         /\ worker[s].game \in Game /\ Len(lobby'[worker[s].game]) = Len(lobby[worker[s].game]) + 1
         /\ \A h \in Game : h # worker[s].game => lobby'[h] = lobby[h]
         /\ \A i \in DOMAIN lobby[worker[s].game] :
              i \in DOMAIN lobby'[worker[s].game] /\ lobby'[worker[s].game][i] = lobby[worker[s].game][i]
         /\ \E i \in DOMAIN lobby'[worker[s].game] :
              lobby'[worker[s].game][i].server = s /\ lobby'[worker[s].game][i].state = "starting"
<1> DEFINE g == worker[s].game
           run == [state |-> "starting", server |-> s, guest |-> None]
<1>1. g \in Game /\ run \in LobbyRun
  BY DEF AttemptLobby, WorkerType, LobbyRun, LobbyState
<1>2. lobby' = [lobby EXCEPT ![g] = Append(@, run)] /\ UNCHANGED seats
  BY DEF AttemptLobby
<1> HIDE DEF g, run
<1>3. lobby'[g] = Append(lobby[g], run) /\ \A h \in Game : h # g => lobby'[h] = lobby[h]
  BY <1>1, <1>2 DEF LobbyType
<1>4. /\ lobby[g] \in Seq(LobbyRun) /\ DOMAIN lobby[g] = 1..Len(lobby[g]) /\ Len(lobby[g]) \in Nat
  BY <1>1, RunParts
<1>5. /\ Append(lobby[g], run) \in Seq(LobbyRun)
      /\ Len(lobby'[g]) = Len(lobby[g]) + 1 /\ DOMAIN lobby'[g] = 1..(Len(lobby[g]) + 1)
      /\ \A k \in 1..Len(lobby[g]) : lobby'[g][k] = lobby[g][k]
      /\ lobby'[g][Len(lobby[g]) + 1] = run
  BY <1>1, <1>3, <1>4
<1>6. lobby' \in [Game -> Seq(LobbyRun)]
  BY <1>1, <1>2, <1>5, <1>3 DEF LobbyType
<1>7. LobbyType'
  BY <1>2, <1>6 DEF LobbyType
<1>8. ASSUME NEW h \in Game
      PROVE  /\ \A i \in DOMAIN lobby[h] : i \in DOMAIN lobby'[h] /\ Keeps(lobby[h][i], lobby'[h][i])
             /\ \A i \in DOMAIN lobby'[h] \ DOMAIN lobby[h] :
                  lobby'[h][i].guest = None /\ lobby'[h][i].state = "starting"
  <2>1. CASE h = g
    <3>1. \A i \in DOMAIN lobby[h] : i \in DOMAIN lobby'[h] /\ lobby'[h][i] = lobby[h][i]
      BY <1>4, <1>5, <2>1
    <3>2. \A i \in DOMAIN lobby'[h] \ DOMAIN lobby[h] : lobby'[h][i] = run
      BY <1>4, <1>5, <2>1
    <3> QED
      BY <3>1, <3>2 DEF Keeps, run
  <2>2. CASE h # g
    BY <1>3, <2>2 DEF Keeps
  <2> QED
    BY <2>1, <2>2
<1>9. \A i \in DOMAIN lobby[g] : i \in DOMAIN lobby'[g] /\ lobby'[g][i] = lobby[g][i]
  BY <1>4, <1>5
<1>10. \E i \in DOMAIN lobby'[g] : lobby'[g][i].server = s /\ lobby'[g][i].state = "starting"
  <2>1. Len(lobby[g]) + 1 \in DOMAIN lobby'[g]
    BY <1>4, <1>5
  <2>2. run.server = s /\ run.state = "starting"
    BY DEF run
  <2> QED
    BY <1>5, <2>1, <2>2
<1> QED
  BY <1>1, <1>3, <1>5, <1>7, <1>8, <1>9, <1>10 DEF LobbiesKeep, g

LEMMA SteppedLobbiesKeep ==
  ASSUME LobbyType, NEW g \in Game, NEW i \in DOMAIN lobby[g], NEW state \in LobbyState,
         GoesTo(g, i, state), seats' \in [Server -> [Game -> SUBSET User]],
         \/ lobby[g][i].state = "starting" /\ state = "announced"
         \/ lobby[g][i].state = "announced" /\ state \in {"waiting", "registering"}
         \/ lobby[g][i].state = "registering" /\ state = "waiting"
         \/ lobby[g][i].state = "joining" /\ state = "seating"
         \/ lobby[g][i].state = "waiting" /\ state = "listening"
         \/ lobby[g][i].state \in {"waiting", "listening", "full"} /\ state = "over"
  PROVE  LobbiesKeep
<1>1. LobbyType'
  BY GoesToKeeps DEF LobbyType
<1>2. Keeps(lobby[g][i], lobby'[g][i])
  BY GoesToKeeps DEF Keeps, Served, Taken, Unsent, Early
<1>0. \A h \in Game : h # g => lobby'[h] = lobby[h]
  BY GoesToKeeps
<1>3. ASSUME NEW h \in Game, NEW k \in DOMAIN lobby[h]
      PROVE  k \in DOMAIN lobby'[h] /\ (lobby'[h][k] = lobby[h][k] \/ (h = g /\ k = i))
  <2>1. CASE h = g
    <3>1. /\ DOMAIN lobby'[g] = DOMAIN lobby[g]
          /\ \A l \in DOMAIN lobby[g] : l # i => lobby'[g][l] = lobby[g][l]
      BY GoesToKeeps
    <3> QED
      BY <2>1, <3>1
  <2>2. CASE h # g
    BY <1>0, <2>2
  <2> QED
    BY <2>1, <2>2
<1>4. \A h \in Game : DOMAIN lobby'[h] = DOMAIN lobby[h]
  BY GoesToKeeps
<1>5. \A h \in Game : \A k \in DOMAIN lobby[h] : Keeps(lobby[h][k], lobby'[h][k])
  BY <1>2, <1>3 DEF Keeps
<1> QED
  BY <1>1, <1>3, <1>4, <1>5 DEF LobbiesKeep

LEMMA CrashKeeps ==
  ASSUME LobbyType, NEW s \in Server, Crash(s)
  PROVE  /\ LobbiesKeep
         /\ \A g \in Game : DOMAIN lobby'[g] = DOMAIN lobby[g] /\ Len(lobby'[g]) = Len(lobby[g])
         /\ \A g \in Game : \A i \in DOMAIN lobby[g] :
              /\ IF lobby[g][i].server = s THEN lobby'[g][i].state \in Dead
                                           ELSE lobby'[g][i] = lobby[g][i]
              /\ lobby'[g][i].state = "returned" => lobby[g][i].state = "returned" \/ unacked[s] = g
<1> DEFINE run(g, i) == Fallen(s, g, lobby[g][i])
<1>1. lobby' = [g \in Game |-> [i \in DOMAIN lobby[g] |-> run(g, i)]]
  BY DEF Crash
<1>2. ASSUME NEW g \in Game, NEW i \in DOMAIN lobby[g]
      PROVE  /\ run(g, i) \in LobbyRun /\ Keeps(lobby[g][i], run(g, i))
             /\ IF lobby[g][i].server = s THEN run(g, i).state \in Dead
                                          ELSE run(g, i) = lobby[g][i]
             /\ run(g, i).state = "returned" => lobby[g][i].state = "returned" \/ unacked[s] = g
  <2> DEFINE old == lobby[g][i]
             new == Fallen(s, g, old)
  <2>1. old \in LobbyRun
    BY RunParts
  <2> HIDE DEF old
  <2>2. CASE old.server # s \/ old.state \in Dead
    <3>1. new = old
      BY <2>2 DEF Fallen
    <3> QED
      BY <2>1, <2>2, <3>1 DEF Keeps, old
  <2>3. CASE old.server = s /\ old.state \notin Dead
    <3>1. /\ new \in LobbyRun /\ new.server = old.server /\ new.guest = old.guest
          /\ new.state = IF old.state # "starting" THEN "crashed"
                         ELSE IF unacked[s] = g THEN "returned" ELSE "lost"
      BY <2>1, <2>3 DEF Fallen, LobbyRun, LobbyState
    <3> QED
      BY <2>1, <2>3, <3>1 DEF Keeps, Served, Taken, Unsent, Early, Dead, old
  <2> QED
    BY <2>2, <2>3
<1> HIDE DEF run
<1>3. \A g \in Game : /\ DOMAIN lobby'[g] = DOMAIN lobby[g]
                      /\ \A i \in DOMAIN lobby[g] : lobby'[g][i] = run(g, i)
  BY <1>1
<1>4. ASSUME NEW g \in Game
      PROVE  lobby'[g] \in Seq(LobbyRun) /\ Len(lobby'[g]) = Len(lobby[g])
  <2>1. DOMAIN lobby[g] = 1..Len(lobby[g]) /\ Len(lobby[g]) \in Nat
    BY RunParts
  <2>2. lobby'[g] = [i \in 1..Len(lobby[g]) |-> run(g, i)]
    BY <1>1, <2>1
  <2>3. \A i \in 1..Len(lobby[g]) : run(g, i) \in LobbyRun
    BY <1>2, <2>1
  <2> QED
    BY <2>1, <2>2, <2>3
<1>5. lobby' \in [Game -> Seq(LobbyRun)]
  BY <1>1, <1>4
<1>6. seats' \in [Server -> [Game -> SUBSET User]]
  BY DEF Crash, LobbyType
<1> QED
  BY <1>2, <1>3, <1>4, <1>5, <1>6 DEF LobbiesKeep, LobbyType
-----------------------------------------------------------------------------
(***************************************************************************)
(* Types, and the steps that joins and their messages hardly notice.       *)
(***************************************************************************)
JoinsSame ==
  /\ UNCHANGED <<target, met>>
  /\ \A j \in Join : stage'[j] = stage[j] /\ answer'[j] = answer[j]

Quiet ==
  /\ JoinsSame
  /\ LobbiesKeep
  /\ \A n \in Name : /\ Shrunk(mail[JoinBox(n)], mail'[JoinBox(n)])
                     /\ Shrunk(mail[<<"joined", n>>], mail'[<<"joined", n>>])

LEMMA ShrinksQuietly ==
  ASSUME MailShrinks, NEW n \in Name
  PROVE  /\ Shrunk(mail[JoinBox(n)], mail'[JoinBox(n)])
         /\ Shrunk(mail[<<"joined", n>>], mail'[<<"joined", n>>])
         /\ Shrunk(mail[AcceptBox(n)], mail'[AcceptBox(n)])
BY Boxes DEF MailShrinks

LEMMA SameMaster ==
  ASSUME MasterType, UNCHANGED <<stage, target, answer, met>>, listener' \in [Request -> ListenerState],
         \A r \in Request : stage[r] = "idle" => listener'[r] = "none"
  PROVE  MasterType' /\ JoinsSame
BY DEF MasterType, JoinsSame

LEMMA SameWorkers ==
  ASSUME WorkerType, UNCHANGED <<createQueue, workerVars>>
  PROVE  WorkerType'
BY DEF WorkerType, workerVars

LEMMA AskCreateStep ==
  ASSUME MatchType, NEW g \in Game, AskCreate(g)
  PROVE  MatchType' /\ Quiet
<1>1. MasterType' /\ JoinsSame
  <2>1. stage' = [stage EXCEPT ![g] = "asked"] /\ listener' = [listener EXCEPT ![g] = "starting"]
        /\ UNCHANGED <<answer, target, met>>
    BY DEF AskCreate, Ask
  <2>2. \A j \in Join : stage'[j] = stage[j]
    BY <2>1, Names DEF MatchType, MasterType
  <2>3. /\ stage' \in [Request -> {"idle", "asked", "answered"}]
        /\ listener' \in [Request -> ListenerState]
    BY <2>1 DEF MatchType, MasterType, ListenerState
  <2>4. \A r \in Request : stage'[r] = "idle" => listener'[r] = "none"
    BY <2>1 DEF MatchType, MasterType
  <2> QED
    BY <2>1, <2>2, <2>3, <2>4 DEF MatchType, MasterType, JoinsSame
<1>2. WorkerType'
  BY DEF MatchType, WorkerType, AskCreate, Ask, workerVars
<1>3. MailShrinks
  BY SameShrinks DEF MatchType, AskCreate
<1>4. LobbiesKeep
  BY SameLobbiesKeep DEF MatchType, AskCreate, Ask
<1> QED
  BY <1>1, <1>2, <1>3, <1>4, ShrinksQuietly DEF MatchType, Quiet, LobbiesKeep, MailShrinks

LEMMA SubscribeStep ==
  ASSUME MatchType, NEW r \in Request, Subscribe(r)
  PROVE  MatchType' /\ Quiet
<1>1. listener' \in [Request -> ListenerState]
  BY DEF MatchType, MasterType, Subscribe, ListenerState
<1>4. \A q \in Request : stage[q] = "idle" => listener'[q] = "none"
  BY DEF MatchType, MasterType, Subscribe
<1>2. MasterType' /\ JoinsSame
  BY <1>1, <1>4, SameMaster DEF MatchType, Subscribe
<1>3. WorkerType' /\ MailShrinks /\ LobbiesKeep
  BY SameWorkers, SameShrinks, SameLobbiesKeep DEF MatchType, Subscribe, brokerVars
<1> QED
  BY <1>2, <1>3, ShrinksQuietly DEF MatchType, Quiet, LobbiesKeep, MailShrinks

\* A handler is given the first message of its queue, or drops it.
LEMMA ReceiveStep ==
  ASSUME MatchType, NEW r \in Request, Receive(r)
  PROVE  /\ MatchType' /\ MailShrinks /\ ReplyBox(r) \in Box
         /\ mail[ReplyBox(r)] # <<>> /\ mail'[ReplyBox(r)] = Tail(mail[ReplyBox(r)])
         /\ \A b \in Box : b # ReplyBox(r) => mail'[b] = mail[b]
         /\ \A q \in Request : q # r => stage'[q] = stage[q] /\ answer'[q] = answer[q]
         /\ UNCHANGED <<target, met, lobby, seats, replaced>>
         /\ r \in Join \/ Accepts(r, Head(mail[ReplyBox(r)]))
              => answer'[r] = Head(mail[ReplyBox(r)]) /\ stage'[r] = "answered"
         /\ ~(r \in Join \/ Accepts(r, Head(mail[ReplyBox(r)])))
              => UNCHANGED <<answer, stage>>
<1> DEFINE b == ReplyBox(r)
           h == Head(mail[b])
<1>1. /\ stage[r] = "asked" /\ mail[b] # <<>> /\ Drop(b)
      /\ UNCHANGED <<target, met, createQueue, workerVars, lobbyVars>>
  BY DEF Receive
<1>2. b \in Box /\ (r \in Game => b = AcceptBox(r))
      /\ (r \in Join => b = JoinedBox(target[r]) /\ target[r] \in Name)
  BY <1>1, ReplyBoxType DEF MatchType
<1>3. MailShrinks /\ mail'[b] = Tail(mail[b]) /\ \A c \in Box : c # b => mail'[c] = mail[c]
  BY <1>1, <1>2, DropShrinks DEF MatchType
<1>4. h \in Elements(mail[b])
  BY <1>1, <1>2, TailParts DEF MatchType, MailType
<1>5. h \in Answer
  BY <1>2, <1>4, Names, Boxes DEF MatchType, MailType, Request
<1>6. \/ /\ answer' = [answer EXCEPT ![r] = h] /\ stage' = [stage EXCEPT ![r] = "answered"]
         /\ listener' = [listener EXCEPT ![r] = "closing"] /\ Accepts(r, h)
      \/ UNCHANGED <<answer, stage, listener>> /\ ~Accepts(r, h)
  BY DEF Receive
<1>7. r \in Join => Accepts(r, h)
  BY Names DEF Accepts
<1> HIDE DEF b, h
<1>8. MasterType'
  <2>1. /\ answer' \in [Request -> Answer \cup {None}]
        /\ stage' \in [Request -> {"idle", "asked", "answered"}]
        /\ listener' \in [Request -> ListenerState]
    BY <1>5, <1>6 DEF MatchType, MasterType, ListenerState
  <2>2. \A j \in Join : stage'[j] # "idle" <=> target'[j] # None
    BY <1>1, <1>6, Names DEF MatchType, MasterType
  <2>3. \A q \in Request : stage'[q] = "idle" => listener'[q] = "none"
    BY <1>1, <1>6 DEF MatchType, MasterType
  <2> QED
    BY <1>1, <2>1, <2>2, <2>3 DEF MatchType, MasterType
<1>9. WorkerType' /\ LobbyType'
  BY <1>1, SameWorkers DEF MatchType, LobbyType, lobbyVars
<1>10. \A q \in Request : q # r => stage'[q] = stage[q] /\ answer'[q] = answer[q]
  BY <1>6 DEF MatchType, MasterType
<1>11. Accepts(r, h) => answer'[r] = h /\ stage'[r] = "answered"
  BY <1>6 DEF MatchType, MasterType
<1>12. MatchType'
  BY <1>3, <1>8, <1>9 DEF MatchType, MailShrinks
<1>13. UNCHANGED <<target, met, lobby, seats, replaced>>
  BY <1>1 DEF lobbyVars
<1> QED
  BY <1>1, <1>2, <1>3, <1>6, <1>7, <1>10, <1>11, <1>12, <1>13 DEF b, h

LEMMA ReceiveIsQuiet ==
  ASSUME MatchType, NEW g \in Game, Receive(g)
  PROVE  Quiet
<1>1. LobbiesKeep
  BY ReceiveStep, SameLobbiesKeep, Names DEF MatchType, lobbyVars
<1>2. JoinsSame
  BY ReceiveStep, Names DEF JoinsSame
<1> QED
  BY <1>1, <1>2, ReceiveStep, ShrinksQuietly, Names DEF Quiet

LEMMA DropStep ==
  ASSUME MatchType, NEW b \in Box, mail[b] # <<>>, Drop(b) \/ mail' = [mail EXCEPT ![b] = <<>>],
         UNCHANGED <<masterVars, createQueue, workerVars, lobbyVars>>
  PROVE  MatchType' /\ Quiet /\ MailShrinks
<1>1. MasterType' /\ JoinsSame
  BY SameMaster DEF MatchType, MasterType, masterVars
<1>2. WorkerType' /\ LobbiesKeep
  BY SameWorkers, SameLobbiesKeep DEF MatchType
<1>3. CASE Drop(b)
  BY <1>1, <1>2, <1>3, DropShrinks, ShrinksQuietly DEF MatchType, Quiet, LobbiesKeep, MailShrinks
<1>4. CASE mail' = [mail EXCEPT ![b] = <<>>]
  <2>1. \A c \in Box : mail'[c] = IF c = b THEN <<>> ELSE mail[c]
    BY <1>4 DEF MatchType, MailType
  <2>2. mail' \in [Box -> Seq(Message)]
    BY <1>4, EmptyParts DEF MatchType, MailType
  <2>3. \A c \in Box : Shrunk(mail[c], mail'[c])
    BY <2>1, EmptyParts DEF Shrunk
  <2>4. MailType'
    BY <2>2, <2>3, Boxes DEF MatchType, MailType, Shrunk, AcceptBox, JoinBox
  <2> QED
    BY <1>1, <1>2, <2>3, <2>4, ShrinksQuietly DEF MatchType, Quiet, LobbiesKeep, MailShrinks
<1> QED
  BY <1>3, <1>4

\* Swallow, SwallowJoin and Expire.
LEMMA LosesMail ==
  ASSUME MatchType, \/ \E r \in Request : Swallow(r)
                    \/ \E g \in Game : \E i \in DOMAIN lobby[g] : SwallowJoin(g, i)
                    \/ \E b \in Box : Expire(b)
  PROVE  MatchType' /\ Quiet /\ MailShrinks
<1>1. ASSUME NEW r \in Request, Swallow(r)
      PROVE  MatchType' /\ Quiet /\ MailShrinks
  <2>1. stage[r] # "idle"
    BY <1>1 DEF MatchType, MasterType, Swallow
  <2> QED
    BY <1>1, <2>1, ReplyBoxType, DropStep DEF MatchType, Swallow
<1>2. ASSUME NEW g \in Game, NEW i \in DOMAIN lobby[g], SwallowJoin(g, i)
      PROVE  MatchType' /\ Quiet /\ MailShrinks
  BY <1>2, Names, Boxes, DropStep DEF SwallowJoin
<1>3. ASSUME NEW b \in Box, Expire(b)
      PROVE  MatchType' /\ Quiet /\ MailShrinks
  BY <1>3, DropStep DEF Expire
<1> QED
  BY <1>1, <1>2, <1>3
LEMMA HeadOfCreates ==
  ASSUME WorkerType, createQueue # <<>>
  PROVE  Head(createQueue) \in Game /\ Tail(createQueue) \in Seq(Game)
BY HeadTailProperties DEF WorkerType

\* The worker's steps that do not touch a lobby.
LEMMA WorkerStep ==
  ASSUME MatchType, NEW s \in Server, TakeCreate(s) \/ Ack(s) \/ LoseConnection(s)
  PROVE  MatchType' /\ Quiet /\ UNCHANGED <<masterVars, mail, lobbyVars>>
<1>1. UNCHANGED <<masterVars, mail, lobbyVars>>
  BY DEF TakeCreate, Ack, LoseConnection
<1>2. MasterType' /\ JoinsSame /\ MailShrinks /\ LobbiesKeep
  BY <1>1, SameMaster, SameShrinks, SameLobbiesKeep DEF MatchType, masterVars, MasterType
<1>3. WorkerType'
  <2> USE DEF MatchType
  <2>1. CASE TakeCreate(s)
    <3>1. Head(createQueue) \in Game /\ Tail(createQueue) \in Seq(Game)
      BY <2>1, HeadOfCreates DEF TakeCreate
    <3>2. worker' = [worker EXCEPT ![s] = [at |-> "holding", game |-> Head(createQueue)]]
          /\ unacked' = [unacked EXCEPT ![s] = Head(createQueue)]
          /\ createQueue' = Tail(createQueue) /\ UNCHANGED redelivered
      BY <2>1 DEF TakeCreate, KeptFor
    <3> QED
      BY <3>1, <3>2 DEF WorkerType, WorkerState
  <2>2. CASE Ack(s)
    <3>1. PICK at \in {"ready", "gone"} : worker' = [worker EXCEPT ![s] = [at |-> at, game |-> None]]
      BY <2>2 DEF Ack
    <3>2. unacked' = [unacked EXCEPT ![s] = None] /\ UNCHANGED redelivered
          /\ createQueue' = createQueue \o <<>>
      BY <2>2 DEF Ack, LeftBehind
    <3>3. createQueue' = createQueue
      BY <3>2, ConcatEmptySeq DEF WorkerType
    <3> QED
      BY <3>1, <3>2, <3>3 DEF WorkerType, WorkerState
  <2>3. CASE LoseConnection(s)
    <3>1. /\ unacked[s] \in Game /\ createQueue' = <<unacked[s]>> \o createQueue
          /\ redelivered' = [redelivered EXCEPT ![unacked[s]] = @ + 1]
          /\ unacked' = [unacked EXCEPT ![s] = None] /\ UNCHANGED worker
      BY <2>3 DEF LoseConnection, Redeliver, WorkerType
    <3> QED
      BY <3>1, ConcatProperties DEF WorkerType
  <2> QED
    BY <2>1, <2>2, <2>3
<1> QED
  BY <1>1, <1>2, <1>3, ShrinksQuietly DEF MatchType, Quiet, LobbiesKeep, MailShrinks

LEMMA AttemptStep ==
  ASSUME MatchType, NEW s \in Server, AttemptLobby(s)
  PROVE  MatchType' /\ Quiet /\ UNCHANGED <<masterVars, mail, seats>>
<1>1. UNCHANGED <<masterVars, mail, seats, createQueue, unacked, redelivered>>
      /\ worker' = [worker EXCEPT ![s].at = "started"]
  BY DEF AttemptLobby, brokerVars
<1>2. MasterType' /\ JoinsSame /\ MailShrinks /\ LobbiesKeep
  BY <1>1, SameMaster, SameShrinks, AttemptKeeps DEF MatchType, masterVars, MasterType
<1>3. WorkerType'
  BY <1>1 DEF MatchType, WorkerType, WorkerState, AttemptLobby
<1> QED
  BY <1>1, <1>2, <1>3, ShrinksQuietly DEF MatchType, Quiet, LobbiesKeep, MailShrinks

LEMMA CrashStep ==
  ASSUME MatchType, NEW s \in Server, Crash(s)
  PROVE  MatchType' /\ Quiet /\ UNCHANGED <<masterVars, mail>>
<1>1. UNCHANGED <<masterVars, mail>>
      /\ worker' = [worker EXCEPT ![s] = [at |-> "gone", game |-> None]]
      /\ unacked' = [unacked EXCEPT ![s] = None]
  BY DEF Crash, Redeliver
<1>2. MasterType' /\ JoinsSame /\ MailShrinks /\ LobbiesKeep
  BY <1>1, SameMaster, SameShrinks, CrashKeeps DEF MatchType, masterVars, MasterType
<1>3. WorkerType'
  <2>1. createQueue' \in Seq(Game) /\ redelivered' \in [Game -> Nat]
    <3>1. CASE unacked[s] = None
      BY <3>1 DEF MatchType, WorkerType, Crash, Redeliver
    <3>2. CASE unacked[s] # None
      <4>1. /\ unacked[s] \in Game /\ createQueue' = <<unacked[s]>> \o createQueue
            /\ redelivered' = [redelivered EXCEPT ![unacked[s]] = @ + 1]
        BY <3>2 DEF MatchType, WorkerType, Crash, Redeliver
      <4> QED
        BY <4>1, ConcatProperties DEF MatchType, WorkerType
    <3> QED
      BY <3>1, <3>2
  <2> QED
    BY <1>1, <2>1 DEF MatchType, WorkerType, WorkerState
<1> QED
  BY <1>1, <1>2, <1>3, ShrinksQuietly DEF MatchType, Quiet, LobbiesKeep, MailShrinks

\* A lobby announces itself, registers a player, listens or ends.
LEMMA AnnounceStep ==
  ASSUME MatchType, NEW g \in Game, NEW i \in DOMAIN lobby[g], Announce(g, i)
  PROVE  /\ MatchType' /\ Quiet /\ UNCHANGED <<masterVars, createQueue, workerVars, seats, replaced>>
         /\ \A n \in Name : n # g => mail'[AcceptBox(n)] = mail[AcceptBox(n)]
         /\ Elements(mail'[AcceptBox(g)]) =
              Elements(mail[AcceptBox(g)]) \cup {[game |-> g, server |-> lobby[g][i].server, user |-> Host]}
<1> DEFINE a == [game |-> g, server |-> lobby[g][i].server, user |-> Host]
<1>1. a \in Answer /\ a \in Message
  BY RunParts, Names DEF MatchType, Answer, Message
<1>2. /\ Post(AcceptBox(g), a) /\ GoesTo(g, i, "announced") /\ lobby[g][i].state = "starting"
      /\ UNCHANGED <<masterVars, createQueue, workerVars, seats, replaced>>
  BY DEF Announce, In
<1> HIDE DEF a
<1>8. AcceptBox(g) \in Box /\ MailType
  BY Names, Boxes DEF MatchType
<1>3. /\ \A c \in Box : c # AcceptBox(g) => mail'[c] = mail[c]
      /\ Elements(mail'[AcceptBox(g)]) = Elements(mail[AcceptBox(g)]) \cup {a}
      /\ mail' \in [Box -> Seq(Message)]
  BY <1>1, <1>2, <1>8, PostGrows
<1>4. \A n \in Name : /\ mail'[JoinBox(n)] = mail[JoinBox(n)]
                      /\ mail'[<<"joined", n>>] = mail[<<"joined", n>>]
                      /\ n # g => mail'[AcceptBox(n)] = mail[AcceptBox(n)]
  BY <1>3, Names, Boxes
<1>5. MailType'
  BY <1>1, <1>3, <1>4 DEF MatchType, MailType, AcceptBox, JoinBox
<1>6. LobbiesKeep
  BY <1>2, SteppedLobbiesKeep DEF MatchType, LobbyType, LobbyState
<1>7. MasterType' /\ JoinsSame /\ WorkerType'
  BY <1>2, SameMaster, SameWorkers DEF MatchType, masterVars, MasterType
<1> QED
  BY <1>2, <1>3, <1>4, <1>5, <1>6, <1>7 DEF MatchType, Quiet, LobbiesKeep, Shrunk, a

\* What a lobby becomes by the steps that put a player into the registry.
LEMMA StoreGameParts ==
  ASSUME MatchType, GuestsFit, NEW g \in Game, NEW i \in DOMAIN lobby[g], StoreGame(g, i)
  PROVE  LET s == lobby[g][i].server
             u == IF lobby[g][i].state = "registering" THEN Host ELSE lobby[g][i].guest
         IN  /\ s \in Server /\ u \in User
             /\ seats' = [seats EXCEPT ![s][g] = {u}]
             /\ \/ lobby[g][i].state = "registering" /\ GoesTo(g, i, "waiting")
                \/ lobby[g][i].state = "joining" /\ GoesTo(g, i, "seating")
<1>1. lobby[g][i].server \in Server /\ lobby[g][i].guest \in Join \cup {None}
  BY RunParts DEF MatchType
<1>2. \/ lobby[g][i].state = "registering" /\ GoesTo(g, i, "waiting")
      \/ lobby[g][i].state = "joining" /\ GoesTo(g, i, "seating")
  BY DEF StoreGame, In
<1>3. lobby[g][i].state = "joining" => lobby[g][i].guest \in Join
  BY <1>1 DEF GuestsFit, Taken
<1> QED
  BY <1>1, <1>2, <1>3, Names DEF StoreGame

LEMMA RegisterStep ==
  ASSUME MatchType, GuestsFit, NEW g \in Game, NEW i \in DOMAIN lobby[g],
         Register(g, i) \/ StoreGame(g, i) \/ Listen(g, i) \/ EndLobby(g, i)
  PROVE  MatchType' /\ Quiet /\ UNCHANGED <<masterVars, brokerVars, workerVars>>
<1>1. UNCHANGED <<masterVars, brokerVars, workerVars>>
  BY DEF Register, StoreGame, Listen, EndLobby
<1>2. seats' \in [Server -> [Game -> SUBSET User]]
  <2>1. lobby[g][i].server \in Server
    BY RunParts DEF MatchType
  <2>2. CASE Register(g, i)
    <3>1. GetClient(lobby[g][i].server, g, Host) \subseteq User
      BY <2>1, Names DEF MatchType, LobbyType, GetClient
    <3>2. seats' = [seats EXCEPT ![lobby[g][i].server][g] = GetClient(lobby[g][i].server, g, Host)]
      BY <2>2 DEF Register
    <3> QED
      BY <2>1, <3>1, <3>2 DEF MatchType, LobbyType
  <2>3. CASE StoreGame(g, i)
    <3> DEFINE u == IF lobby[g][i].state = "registering" THEN Host ELSE lobby[g][i].guest
    <3>1. u \in User /\ seats' = [seats EXCEPT ![lobby[g][i].server][g] = {u}]
      BY <2>3, StoreGameParts
    <3> HIDE DEF u
    <3>2. {u} \in SUBSET User
      BY <3>1
    <3> QED
      BY <2>1, <3>1, <3>2 DEF MatchType, LobbyType
  <2>4. CASE Listen(g, i)
    BY <2>4 DEF MatchType, LobbyType, Listen
  <2>5. CASE EndLobby(g, i)
    BY <2>1, <2>5 DEF MatchType, LobbyType, EndLobby
  <2> QED
    BY <2>2, <2>3, <2>4, <2>5
<1>3. LobbiesKeep
  <2>1. CASE Register(g, i)
    BY <1>2, <2>1, SteppedLobbiesKeep DEF MatchType, LobbyState, Register, AfterLookup, In
  <2>2. CASE StoreGame(g, i)
    BY <1>2, <2>2, StoreGameParts, SteppedLobbiesKeep DEF MatchType, LobbyState
  <2>3. CASE Listen(g, i)
    BY <1>2, <2>3, SteppedLobbiesKeep DEF MatchType, LobbyState, Listen, In
  <2>4. CASE EndLobby(g, i)
    BY <1>2, <2>4, SteppedLobbiesKeep DEF MatchType, LobbyState, EndLobby, In
  <2> QED
    BY <2>1, <2>2, <2>3, <2>4
<1>4. MasterType' /\ JoinsSame /\ WorkerType' /\ MailShrinks
  BY <1>1, SameMaster, SameWorkers, SameShrinks DEF MatchType, masterVars, brokerVars, MasterType
<1> QED
  BY <1>1, <1>3, <1>4, ShrinksQuietly DEF MatchType, Quiet, LobbiesKeep, MailShrinks

LEMMA TakeJoinStep ==
  ASSUME MatchType, NEW g \in Game, NEW i \in DOMAIN lobby[g], TakeJoin(g, i)
  PROVE  LET m == Head(mail[JoinBox(g)])
             s == lobby[g][i].server
             state == AfterLookup(s, g, "seating", "joining")
             run == [lobby[g][i] EXCEPT !.state = state, !.guest = m.user]
         IN  /\ MatchType' /\ MailShrinks /\ UNCHANGED <<masterVars, createQueue, workerVars>>
             /\ lobby[g][i].state = "listening"
             /\ m \in Elements(mail[JoinBox(g)]) /\ m.user \in Join
             /\ mail[JoinBox(g)] # <<>> /\ mail'[JoinBox(g)] = Tail(mail[JoinBox(g)])
             /\ \A b \in Box : b # JoinBox(g) => mail'[b] = mail[b]
             /\ run \in LobbyRun /\ run.state = state /\ run.state \in Taken /\ run.guest = m.user
             /\ s \in Server /\ run.server = s
             /\ lobby' = [lobby EXCEPT ![g] = [lobby[g] EXCEPT ![i] = run]]
             /\ seats' = [seats EXCEPT ![s][g] = GetClient(s, g, m.user)]
             /\ UNCHANGED replaced
<1> DEFINE m == Head(mail[JoinBox(g)])
           s == lobby[g][i].server
           state == AfterLookup(s, g, "seating", "joining")
           run == [lobby[g][i] EXCEPT !.state = state, !.guest = m.user]
<1>1. /\ lobby[g][i].state = "listening" /\ mail[JoinBox(g)] # <<>> /\ Drop(JoinBox(g))
      /\ lobby' = [lobby EXCEPT ![g][i] = [@ EXCEPT !.state = state, !.guest = m.user]]
      /\ seats' = [seats EXCEPT ![s][g] = GetClient(s, g, m.user)]
      /\ UNCHANGED <<masterVars, createQueue, workerVars, replaced>>
  BY DEF TakeJoin, In
<1>2. MailShrinks /\ mail'[JoinBox(g)] = Tail(mail[JoinBox(g)])
      /\ \A b \in Box : b # JoinBox(g) => mail'[b] = mail[b]
  BY <1>1, Names, Boxes, DropShrinks DEF MatchType
<1>3. m \in Elements(mail[JoinBox(g)])
  BY <1>1, Names, Boxes, TailParts DEF MatchType, MailType
<1>4. m.user \in Join
  BY <1>3, Names DEF MatchType, MailType, JoinRequest
<1>5. lobby[g][i] \in LobbyRun /\ s \in Server /\ state \in LobbyState /\ state \in Taken
  BY RunParts DEF MatchType, AfterLookup, LobbyState, Taken
<1> HIDE DEF state
<1>6. run \in LobbyRun /\ run.state = state /\ run.guest = m.user /\ run.server = s
  BY <1>4, <1>5 DEF LobbyRun
<1>7. lobby' = [lobby EXCEPT ![g] = [lobby[g] EXCEPT ![i] = run]]
  BY <1>1 DEF MatchType, LobbyType
<1>8. lobby' \in [Game -> Seq(LobbyRun)]
  BY <1>6, <1>7, RunChanges DEF MatchType
<1>9. GetClient(s, g, m.user) \subseteq User
  BY <1>4, <1>5, Names DEF GetClient, MatchType, LobbyType
<1>10. seats' \in [Server -> [Game -> SUBSET User]]
  BY <1>1, <1>9 DEF MatchType, LobbyType
<1>11. MasterType' /\ WorkerType'
  BY <1>1, SameMaster, SameWorkers DEF MatchType, masterVars, MasterType
<1>12. MatchType'
  BY <1>2, <1>8, <1>10, <1>11 DEF MatchType, LobbyType, MailShrinks
<1> QED
  BY <1>1, <1>2, <1>3, <1>4, <1>5, <1>6, <1>7, <1>12 DEF state

LEMMA AnswerJoinStep ==
  ASSUME MatchType, GuestsFit, NEW g \in Game, NEW i \in DOMAIN lobby[g], AnswerJoin(g, i)
  PROVE  LET a == [game |-> g, server |-> lobby[g][i].server, user |-> lobby[g][i].guest]
         IN  /\ MatchType' /\ UNCHANGED <<masterVars, createQueue, workerVars, seats, replaced>>
             /\ lobby[g][i].state = "seating" /\ lobby[g][i].guest \in Join
             /\ GoesTo(g, i, "full")
             /\ \A b \in Box : b # JoinedBox(g) => mail'[b] = mail[b]
             /\ Elements(mail'[JoinedBox(g)]) = Elements(mail[JoinedBox(g)]) \cup {a}
             /\ Distinct(mail[JoinedBox(g)]) /\ (\A n \in Elements(mail[JoinedBox(g)]) : n.user # a.user)
                  => Distinct(mail'[JoinedBox(g)])
<1> DEFINE a == [game |-> g, server |-> lobby[g][i].server, user |-> lobby[g][i].guest]
<1>1. /\ lobby[g][i].state = "seating" /\ GoesTo(g, i, "full") /\ Post(JoinedBox(g), a)
      /\ UNCHANGED <<masterVars, createQueue, workerVars, seats, replaced>>
  BY DEF AnswerJoin, In, AfterAnswer
<1>2. lobby[g][i].guest \in Join /\ lobby[g][i].server \in Server
  BY <1>1, RunParts DEF MatchType, GuestsFit, Taken
<1>3. a \in Answer /\ a \in Message
  BY <1>2, Names DEF Answer, Message
<1> HIDE DEF a
<1>4. /\ \A c \in Box : c # JoinedBox(g) => mail'[c] = mail[c]
      /\ Elements(mail'[JoinedBox(g)]) = Elements(mail[JoinedBox(g)]) \cup {a}
      /\ Distinct(mail[JoinedBox(g)]) /\ (\A n \in Elements(mail[JoinedBox(g)]) : n.user # a.user)
           => Distinct(mail'[JoinedBox(g)])
      /\ mail' \in [Box -> Seq(Message)]
  BY <1>1, <1>3, Names, Boxes, PostGrows DEF MatchType
<1>5. MailType'
  <2>1. \A n \in Name : /\ mail'[JoinBox(n)] = mail[JoinBox(n)]
                        /\ mail'[AcceptBox(n)] = mail[AcceptBox(n)]
                        /\ n # g => mail'[<<"joined", n>>] = mail[<<"joined", n>>]
    BY <1>4, Names, Boxes
  <2>2. Elements(mail'[<<"joined", g>>]) \subseteq Answer
    BY <1>3, <1>4, Names, Boxes DEF MatchType, MailType
  <2> QED
    BY <1>4, <2>1, <2>2 DEF MatchType, MailType, AcceptBox, JoinBox
<1>6. LobbyType'
  BY <1>1, GoesToKeeps DEF MatchType, LobbyType, LobbyState
<1>7. MasterType' /\ WorkerType'
  BY <1>1, SameMaster, SameWorkers DEF MatchType, masterVars, MasterType
<1> QED
  BY <1>1, <1>2, <1>4, <1>5, <1>6, <1>7 DEF MatchType, a

LEMMA AskJoinStep ==
  ASSUME MatchType, NEW j \in Join, AskJoin(j)
  PROVE  /\ MatchType'
         /\ stage[j] = "idle" /\ stage'[j] = "asked"
         /\ \A r \in Request : r # j => stage'[r] = stage[r]
         /\ UNCHANGED <<answer, createQueue, workerVars, lobbyVars>>
         /\ \E n \in Name :
              /\ target'[j] = n /\ \A k \in Join : k # j => target'[k] = target[k]
              /\ met'[j] = Asked(n) \cup UNION {met[k] : k \in Asked(n)}
              /\ \A k \in Join : k # j =>
                   met'[k] = IF k \in Asked(n) THEN met[k] \cup {j} ELSE met[k]
              /\ \A b \in Box : b # JoinBox(n) => mail'[b] = mail[b]
              /\ Elements(mail'[JoinBox(n)]) = Elements(mail[JoinBox(n)]) \cup {[user |-> j]}
              /\ Distinct(mail[JoinBox(n)]) /\ (\A m \in Elements(mail[JoinBox(n)]) : m.user # j)
                   => Distinct(mail'[JoinBox(n)])
<1>1. /\ stage[j] = "idle" /\ stage' = [stage EXCEPT ![j] = "asked"]
      /\ listener' = [listener EXCEPT ![j] = "starting"]
      /\ UNCHANGED <<answer, workerVars, lobbyVars, createQueue>>
  BY DEF AskJoin, Ask
<1>2. PICK n \in Name :
        /\ target' = [target EXCEPT ![j] = n]
        /\ met' = [k \in Join |-> IF k = j THEN Asked(n) \cup UNION {met[l] : l \in Asked(n)}
                                 ELSE IF k \in Asked(n) THEN met[k] \cup {j} ELSE met[k]]
        /\ Post(JoinBox(n), [user |-> j])
  BY DEF AskJoin, Asked, Name
<1>3. [user |-> j] \in JoinRequest /\ [user |-> j] \in Message /\ [user |-> j].user = j
  BY DEF JoinRequest, Message
<1>4. /\ \A b \in Box : b # JoinBox(n) => mail'[b] = mail[b]
      /\ Elements(mail'[JoinBox(n)]) = Elements(mail[JoinBox(n)]) \cup {[user |-> j]}
      /\ Distinct(mail[JoinBox(n)]) /\ (\A m \in Elements(mail[JoinBox(n)]) : m.user # j)
           => Distinct(mail'[JoinBox(n)])
      /\ mail' \in [Box -> Seq(Message)]
  BY <1>2, <1>3, Boxes, PostGrows DEF MatchType
<1>5. MailType'
  <2>1. \A m \in Name : /\ mail'[<<"joined", m>>] = mail[<<"joined", m>>]
                        /\ mail'[AcceptBox(m)] = mail[AcceptBox(m)]
                        /\ m # n => mail'[JoinBox(m)] = mail[JoinBox(m)]
    BY <1>4, Boxes
  <2>2. Elements(mail'[JoinBox(n)]) \subseteq JoinRequest
    BY <1>3, <1>4 DEF MatchType, MailType
  <2> QED
    BY <1>4, <2>1, <2>2 DEF MatchType, MailType, AcceptBox, JoinBox
<1>6. /\ stage'[j] = "asked" /\ \A r \in Request : r # j => stage'[r] = stage[r]
      /\ target'[j] = n /\ \A k \in Join : k # j => target'[k] = target[k]
  BY <1>1, <1>2, Names DEF MatchType, MasterType
<1>7. MasterType'
  <2>1. /\ stage' \in [Request -> {"idle", "asked", "answered"}]
        /\ listener' \in [Request -> ListenerState]
        /\ target' \in [Join -> Name \cup {None}]
    BY <1>1, <1>2 DEF MatchType, MasterType, ListenerState
  <2>2. met' \in [Join -> SUBSET Join]
    <3>1. Asked(n) \subseteq Join /\ \A k \in Join : met[k] \subseteq Join
      BY DEF Asked, MatchType, MasterType
    <3>2. \A k \in Join : (IF k = j THEN Asked(n) \cup UNION {met[l] : l \in Asked(n)}
                           ELSE IF k \in Asked(n) THEN met[k] \cup {j} ELSE met[k]) \subseteq Join
      BY <3>1
    <3> QED
      BY <1>2, <3>2
  <2>3. \A k \in Join : stage'[k] # "idle" <=> target'[k] # None
    BY <1>6, Names DEF MatchType, MasterType
  <2>4. \A r \in Request : stage'[r] = "idle" => listener'[r] = "none"
    BY <1>1 DEF MatchType, MasterType
  <2> QED
    BY <1>1, <2>1, <2>2, <2>3, <2>4 DEF MatchType, MasterType
<1>8. WorkerType' /\ LobbyType'
  BY <1>1, SameWorkers DEF MatchType, LobbyType, lobbyVars
<1>9. met'[j] = Asked(n) \cup UNION {met[k] : k \in Asked(n)}
  BY <1>2
<1>10. \A k \in Join : k # j => met'[k] = IF k \in Asked(n) THEN met[k] \cup {j} ELSE met[k]
  BY <1>2
<1> QED
  BY <1>1, <1>4, <1>5, <1>6, <1>7, <1>8, <1>9, <1>10 DEF MatchType

LEMMA IdleStep ==
  ASSUME MatchType, UNCHANGED vars
  PROVE  MatchType' /\ Quiet
<1>1. UNCHANGED <<masterVars, createQueue, mail, workerVars, lobbyVars>>
  BY DEF vars, brokerVars
<1>2. MasterType' /\ JoinsSame /\ WorkerType' /\ MailShrinks /\ LobbiesKeep
  BY <1>1, SameMaster, SameWorkers, SameShrinks, SameLobbiesKeep DEF MatchType, masterVars, MasterType
<1> QED
  BY <1>2, ShrinksQuietly DEF MatchType, Quiet, LobbiesKeep, MailShrinks
-----------------------------------------------------------------------------
(***************************************************************************)
(* Joins and answers.                                                      *)
(***************************************************************************)
\* An answer that was sent stays one.
LEMMA SentStays ==
  ASSUME LobbiesKeep, NEW n \in Name, NEW a, SentBy(lobby, a, n)
  PROVE  SentBy(lobby', a, n)
<1>1. PICK i \in DOMAIN lobby[n] : /\ lobby[n][i].state \in Served
                                   /\ lobby[n][i].server = a.server
                                   /\ lobby[n][i].guest = a.user
  BY DEF SentBy
<1>2. n \in Game /\ a.game = n /\ a.user \in Join
  BY DEF SentBy
<1>3. i \in DOMAIN lobby'[n] /\ Keeps(lobby[n][i], lobby'[n][i])
  BY <1>2 DEF LobbiesKeep
<1> QED
  BY <1>1, <1>2, <1>3 DEF SentBy, Keeps

\* The owner of an answer asked for the game.
LEMMA SentToGuest ==
  ASSUME MatchType, GuestsFit, NEW n \in Name, NEW a, SentBy(lobby, a, n)
  PROVE  a.user \in Join /\ target[a.user] = n /\ stage[a.user] # "idle"
<1>1. /\ a.user \in Join /\ n \in Game
      /\ \E i \in DOMAIN lobby[n] : lobby[n][i].guest = a.user
  BY DEF SentBy
<1>2. target[a.user] = n
  BY <1>1, Names DEF GuestsFit
<1> QED
  BY <1>1, <1>2, Names DEF MatchType, MasterType

\* Who is on the way to an answer asked for the game, and nobody has his token.
LEMMA OnTheWayParts ==
  ASSUME MatchType, JoinInv, NEW n \in Name, NEW u \in OnTheWay(n)
  PROVE  /\ u \in Join /\ target[u] = n /\ stage[u] # "idle"
         /\ \A j \in Join : stage[j] = "answered" => answer[j].user # u
<1> USE DEF JoinInv
<1>0. ASSUME NEW j \in Join, stage[j] = "answered", answer[j].user = u
      PROVE  /\ target[j] = n /\ n \in Game
             /\ \E i \in DOMAIN lobby[n] : lobby[n][i].state \in Served /\ lobby[n][i].guest = u
             /\ \A a \in Elements(mail[JoinedBox(target[j])]) : a.user # u
             \/ target[u] # n
  BY <1>0, SentToGuest, Names DEF AnswersSent, SentBy, MatchType, MasterType
<1>1. CASE \E m \in Elements(mail[JoinBox(n)]) : m.user = u
  <2>1. PICK m \in Elements(mail[JoinBox(n)]) : m.user = u
    BY <1>1
  <2>2. u \in Join
    BY <2>1 DEF MatchType, MailType, JoinRequest
  <2>3. target[u] = n /\ (n \in Game => \A i \in DOMAIN lobby[n] : lobby[n][i].guest # u)
    BY <2>1 DEF JoinsFit
  <2> QED
    BY <1>0, <2>2, <2>3, Names DEF MatchType, MasterType
<1>2. CASE \E a \in Elements(mail[JoinedBox(n)]) : a.user = u
  <2>1. PICK a \in Elements(mail[JoinedBox(n)]) : a.user = u
    BY <1>2
  <2>2. SentBy(lobby, a, n)
    BY <2>1 DEF TokensFit
  <2> QED
    BY <1>0, <2>1, <2>2, SentToGuest
<1>3. CASE u \in Join /\ n \in Game /\ \E i \in DOMAIN lobby[n] :
             lobby[n][i].state \in Taken /\ lobby[n][i].guest = u
  <2>1. PICK i \in DOMAIN lobby[n] : lobby[n][i].state \in Taken /\ lobby[n][i].guest = u
    BY <1>3
  <2>2. u \in Join /\ target[u] = n /\ \A k \in DOMAIN lobby[n] : lobby[n][k].guest = u => k = i
    BY <1>3, <2>1, Names DEF GuestsFit
  <2> QED
    BY <1>0, <2>1, <2>2, Names DEF MatchType, MasterType, Served, Taken
<1> QED
  BY <1>1, <1>2, <1>3 DEF OnTheWay

\* When nobody waits for an answer any more, none is on its way: every join of
\* the game has taken one, and no two the same.
LEMMA NobodyWaits ==
  ASSUME MatchType, JoinInv, NEW n \in Name, Asked(n) = {}
  PROVE  OnTheWay(n) = {}
<1> DEFINE S == Answered(n)
           f == [j \in S |-> answer[j].user]
<1>1. IsFiniteSet(S)
  <2>1. IsFiniteSet(Join)
    BY FS_Interval, BoundsAssumption DEF Join
  <2> QED
    BY <2>1, FS_Subset DEF Answered
<1>2. ASSUME NEW u \in Join, target[u] = n, stage[u] # "idle"
      PROVE  u \in S
  BY <1>2 DEF Asked, Answered, MatchType, MasterType, Request
<1>3. \A j \in S : answer[j].user \in S
  <2> TAKE j \in S
  <2>1. SentBy(lobby, answer[j], n)
    BY DEF JoinInv, AnswersSent, Answered
  <2> QED
    BY <1>2, <2>1, SentToGuest DEF JoinInv
<1>4. \A j, k \in S : answer[j].user = answer[k].user => j = k
  BY DEF JoinInv, AnswersSent, Answered
<1>5. f \in Injection(S, S)
  BY <1>3, <1>4 DEF Injection, IsInjective
<1> HIDE DEF f
<1>6. f \in Surjection(S, S)
  BY <1>1, <1>5, FS_Injection
<1>7. \A u \in S : \E j \in S : answer[j].user = u
  BY <1>6 DEF Surjection, f
<1>8. ASSUME NEW u \in OnTheWay(n)
      PROVE  FALSE
  BY <1>2, <1>7, OnTheWayParts DEF Answered
<1> QED
  BY <1>8

LEMMA QuietKeepsGuests ==
  ASSUME MatchType, GuestsFit, Quiet
  PROVE  GuestsFit'
<1> SUFFICES ASSUME NEW g \in Game, NEW i \in DOMAIN lobby'[g]
             PROVE  /\ lobby'[g][i].state \in Taken => lobby'[g][i].guest # None
                    /\ lobby'[g][i].guest # None =>
                         /\ lobby'[g][i].state \in Taken \cup Served
                         /\ target'[lobby'[g][i].guest] = g
                         /\ \A k \in DOMAIN lobby'[g] : lobby'[g][k].guest = lobby'[g][i].guest => k = i
  BY DEF GuestsFit
<1>1. CASE i \notin DOMAIN lobby[g]
  BY <1>1 DEF Quiet, LobbiesKeep, Taken
<1>2. CASE i \in DOMAIN lobby[g]
  <2>1. Keeps(lobby[g][i], lobby'[g][i]) /\ target' = target
    BY <1>2 DEF Quiet, LobbiesKeep, JoinsSame
  <2>2. lobby'[g][i].state \in Taken => lobby'[g][i].guest # None
    BY <1>2, <2>1 DEF Keeps, GuestsFit
  <2>3. ASSUME lobby'[g][i].guest # None
        PROVE  /\ lobby'[g][i].state \in Taken \cup Served
               /\ target'[lobby'[g][i].guest] = g
               /\ \A k \in DOMAIN lobby'[g] : lobby'[g][k].guest = lobby'[g][i].guest => k = i
    <3>1. lobby[g][i].guest # None /\ lobby'[g][i].guest = lobby[g][i].guest
      BY <2>1, <2>3 DEF Keeps
    <3>2. /\ lobby[g][i].state \in Taken \cup Served
          /\ target[lobby[g][i].guest] = g
          /\ \A k \in DOMAIN lobby[g] : lobby[g][k].guest = lobby[g][i].guest => k = i
      BY <1>2, <3>1 DEF GuestsFit
    <3>3. \A k \in DOMAIN lobby'[g] : lobby'[g][k].guest # None =>
            k \in DOMAIN lobby[g] /\ lobby'[g][k].guest = lobby[g][k].guest
      BY DEF Quiet, LobbiesKeep, Keeps
    <3> QED
      BY <2>1, <2>3, <3>1, <3>2, <3>3 DEF Keeps
  <2> QED
    BY <2>2, <2>3
<1> QED
  BY <1>1, <1>2

LEMMA QuietKeepsOnTheWay ==
  ASSUME MatchType, JoinInv, Quiet, NEW n \in Name
  PROVE  OnTheWay(n)' \subseteq OnTheWay(n)
<1>1. /\ Elements(mail'[JoinBox(n)]) \subseteq Elements(mail[JoinBox(n)])
      /\ Elements(mail'[JoinedBox(n)]) \subseteq Elements(mail[JoinedBox(n)])
  BY Boxes DEF Quiet, Shrunk
<1>2. ASSUME NEW j \in Join, n \in Game, NEW i \in DOMAIN lobby'[n],
             lobby'[n][i].state \in Taken, lobby'[n][i].guest = j
      PROVE  i \in DOMAIN lobby[n] /\ lobby[n][i].state \in Taken /\ lobby[n][i].guest = j
  BY <1>2, Names DEF Quiet, LobbiesKeep, Keeps, Taken
<1> QED
  BY <1>1, <1>2 DEF OnTheWay, JoinBox, JoinedBox

LEMMA QuietKeepsJoins ==
  ASSUME MatchType, JoinInv, Quiet
  PROVE  JoinInv'
<1> USE DEF JoinInv
<1>0. /\ target' = target /\ met' = met
      /\ \A j \in Join : stage'[j] = stage[j] /\ answer'[j] = answer[j]
  BY DEF Quiet, JoinsSame
<1>1. GuestsFit'
  BY QuietKeepsGuests
<1>2. JoinsFit'
  <2> SUFFICES ASSUME NEW n \in Name
               PROVE  /\ Distinct(mail'[JoinBox(n)])
                      /\ \A m \in Elements(mail'[JoinBox(n)]) :
                           /\ target'[m.user] = n
                           /\ n \in Game => \A i \in DOMAIN lobby'[n] : lobby'[n][i].guest # m.user
    BY DEF JoinsFit, JoinBox
  <2>1. /\ Distinct(mail'[JoinBox(n)])
        /\ Elements(mail'[JoinBox(n)]) \subseteq Elements(mail[JoinBox(n)])
    BY DEF Quiet, Shrunk, JoinsFit
  <2>2. ASSUME NEW m \in Elements(mail[JoinBox(n)]), n \in Game, NEW i \in DOMAIN lobby'[n]
        PROVE  lobby'[n][i].guest # m.user
    <3>1. m.user \in Join
      BY DEF MatchType, MailType, JoinRequest
    <3>2. i \in DOMAIN lobby[n] => lobby'[n][i].guest = lobby[n][i].guest
      BY <2>2 DEF Quiet, LobbiesKeep, Keeps
    <3>3. i \notin DOMAIN lobby[n] => lobby'[n][i].guest = None
      BY <2>2 DEF Quiet, LobbiesKeep
    <3> QED
      BY <2>2, <3>1, <3>2, <3>3, Names DEF JoinsFit
  <2> QED
    BY <1>0, <2>1, <2>2 DEF JoinsFit
<1>3. \A n \in Name : \A a : SentBy(lobby, a, n) => SentBy(lobby', a, n)
  BY SentStays DEF Quiet
<1>4. TokensFit'
  <2>1. \A n \in Name : /\ Distinct(mail'[JoinedBox(n)])
                        /\ Elements(mail'[JoinedBox(n)]) \subseteq Elements(mail[JoinedBox(n)])
    BY Boxes DEF Quiet, Shrunk, TokensFit
  <2> QED
    BY <1>3, <2>1 DEF TokensFit, JoinedBox
<1>5. AnswersSent'
  <2> SUFFICES ASSUME NEW j \in Join
               PROVE  /\ answer'[j] # None => stage'[j] = "answered"
                      /\ stage'[j] = "answered" =>
                           /\ SentBy(lobby', answer'[j], target'[j])
                           /\ \A a \in Elements(mail'[JoinedBox(target'[j])]) : a.user # answer'[j].user
                           /\ \A k \in Join : stage'[k] = "answered" /\ answer'[k].user = answer'[j].user => k = j
    BY DEF AnswersSent, JoinedBox
  <2>1. answer'[j] # None => stage'[j] = "answered"
    BY <1>0 DEF AnswersSent
  <2>2. ASSUME stage[j] = "answered"
        PROVE  /\ SentBy(lobby', answer'[j], target'[j])
               /\ \A a \in Elements(mail'[JoinedBox(target[j])]) : a.user # answer[j].user
    <3>1. target[j] \in Name
      BY <2>2 DEF MatchType, MasterType
    <3>2. SentBy(lobby, answer[j], target[j])
      BY <2>2 DEF AnswersSent
    <3>3. Elements(mail'[JoinedBox(target[j])]) \subseteq Elements(mail[JoinedBox(target[j])])
      BY <3>1, Boxes DEF Quiet, Shrunk
    <3> QED
      BY <1>0, <1>3, <2>2, <3>1, <3>2, <3>3 DEF AnswersSent
  <2>3. \A k \in Join : stage[j] = "answered" /\ stage[k] = "answered" /\ answer[k].user = answer[j].user => k = j
    BY DEF AnswersSent
  <2> QED
    BY <1>0, <2>1, <2>2, <2>3
<1>6. CompanyFits'
  <2>1. \A n \in Name : Asked(n)' = Asked(n)
    BY <1>0 DEF Asked
  <2>2. \A n \in Name : \A j \in Asked(n) : OnTheWay(n)' \subseteq {j} \cup met'[j]
    BY <1>0, QuietKeepsOnTheWay DEF CompanyFits
  <2>3. \A j \in Join : stage'[j] = "answered" => answer'[j].user \in {j} \cup met'[j]
    BY <1>0 DEF CompanyFits
  <2> QED
    BY <2>1, <2>2, <2>3 DEF CompanyFits
<1> QED
  BY <1>1, <1>2, <1>4, <1>5, <1>6

-----------------------------------------------------------------------------
(***************************************************************************)
(* Joins and answers: the steps that make, take and answer them.           *)
(***************************************************************************)
LEMMA AskJoinKeepsJoins ==
  ASSUME MatchType, JoinInv, NEW j \in Join, AskJoin(j)
  PROVE  JoinInv'
<1> USE DEF JoinInv
<1>1. PICK n \in Name :
        /\ target'[j] = n /\ \A k \in Join : k # j => target'[k] = target[k]
        /\ met'[j] = Asked(n) \cup UNION {met[k] : k \in Asked(n)}
        /\ \A k \in Join : k # j => met'[k] = IF k \in Asked(n) THEN met[k] \cup {j} ELSE met[k]
        /\ \A b \in Box : b # JoinBox(n) => mail'[b] = mail[b]
        /\ Elements(mail'[JoinBox(n)]) = Elements(mail[JoinBox(n)]) \cup {[user |-> j]}
        /\ Distinct(mail[JoinBox(n)]) /\ (\A m \in Elements(mail[JoinBox(n)]) : m.user # j)
             => Distinct(mail'[JoinBox(n)])
  BY AskJoinStep
<1>2. /\ stage[j] = "idle" /\ stage'[j] = "asked"
      /\ \A k \in Join : k # j => stage'[k] = stage[k]
      /\ answer' = answer /\ lobby' = lobby
  BY AskJoinStep, Names DEF lobbyVars
<1>3. target[j] = None /\ answer[j] = None
  BY <1>2 DEF MatchType, MasterType, AnswersSent
<1>4. \A m \in Name : /\ m # n => mail'[JoinBox(m)] = mail[JoinBox(m)]
                      /\ mail'[JoinedBox(m)] = mail[JoinedBox(m)]
  BY <1>1, Boxes
<1>5. \A g \in Game : \A i \in DOMAIN lobby[g] :
        lobby[g][i].guest # None => lobby[g][i].guest \in Join \ {j}
  BY <1>3, Names, RunParts DEF GuestsFit, MatchType
<1>6. GuestsFit'
  BY <1>1, <1>2, <1>5 DEF GuestsFit
<1>7. JoinsFit'
  <2>1. \A m \in Name : \A q \in Elements(mail[JoinBox(m)]) : q.user \in Join \ {j} /\ target[q.user] = m
    <3>1. \A m \in Name : \A q \in Elements(mail[JoinBox(m)]) : q.user \in Join
      BY DEF MatchType, MailType, JoinRequest
    <3>2. \A m \in Name : \A q \in Elements(mail[JoinBox(m)]) : target[q.user] = m
      BY DEF JoinsFit
    <3> QED
      BY <1>3, <3>1, <3>2, Names
  <2>2. \A m \in Name : Distinct(mail'[JoinBox(m)])
    BY <1>1, <1>4, <2>1 DEF JoinsFit
  <2>3. ASSUME NEW m \in Name, NEW q \in Elements(mail'[JoinBox(m)])
        PROVE  /\ target'[q.user] = m
               /\ m \in Game => \A i \in DOMAIN lobby'[m] : lobby'[m][i].guest # q.user
    <3>1. CASE q \in Elements(mail[JoinBox(m)])
      BY <1>1, <1>2, <2>1, <3>1 DEF JoinsFit
    <3>2. CASE m = n /\ q = [user |-> j]
      BY <1>1, <1>2, <1>5, <3>2, Names
    <3> QED
      BY <1>1, <1>4, <2>3, <3>1, <3>2
  <2> QED
    BY <2>2, <2>3 DEF JoinsFit, JoinBox
<1>8. TokensFit'
  BY <1>2, <1>4 DEF TokensFit, JoinedBox
<1>9. AnswersSent'
  <2>1. \A k \in Join : stage'[k] = "answered" =>
          k # j /\ stage[k] = "answered" /\ target'[k] = target[k] /\ target[k] \in Name
    BY <1>1, <1>2 DEF MatchType, MasterType
  <2>2. \A k \in Join : answer'[k] # None => stage'[k] = "answered"
    BY <1>2, <1>3 DEF AnswersSent
  <2>3. ASSUME NEW k \in Join, stage'[k] = "answered"
        PROVE  /\ SentBy(lobby', answer'[k], target'[k])
               /\ \A a \in Elements(mail'[JoinedBox(target'[k])]) : a.user # answer'[k].user
               /\ \A l \in Join : stage'[l] = "answered" /\ answer'[l].user = answer'[k].user => l = k
    BY <1>2, <1>4, <2>1, <2>3 DEF AnswersSent
  <2> QED
    BY <2>2, <2>3 DEF AnswersSent, JoinedBox
<1>10. CompanyFits'
  <2>1. \A m \in Name \ {n} : OnTheWay(m)' \subseteq OnTheWay(m) /\ Asked(m)' \subseteq Asked(m) \ {j}
    BY <1>1, <1>2, <1>4 DEF OnTheWay, Asked, JoinBox, JoinedBox
  <2>2. OnTheWay(n)' \subseteq OnTheWay(n) \cup {j} /\ Asked(n)' \subseteq Asked(n) \cup {j}
    BY <1>1, <1>2, <1>4 DEF OnTheWay, Asked, JoinBox, JoinedBox
  <2>3. \A k \in Join \ {j} : met[k] \subseteq met'[k]
    BY <1>1
  <2>4. j \notin Asked(n) /\ \A m \in Name : Asked(m) \subseteq Join
    BY <1>2 DEF Asked
  <2>5. ASSUME NEW k \in Asked(n)
        PROVE  OnTheWay(n)' \subseteq {k} \cup met'[k]
    <3>1. k \in Join /\ k # j /\ met'[k] = met[k] \cup {j}
      BY <1>1, <2>4
    <3>2. OnTheWay(n) \subseteq {k} \cup met[k]
      BY DEF CompanyFits
    <3> QED
      BY <2>2, <3>1, <3>2
  <2>6. OnTheWay(n)' \subseteq {j} \cup met'[j]
    <3>1. CASE Asked(n) = {}
      BY <2>2, <3>1, NobodyWaits
    <3>2. ASSUME NEW k \in Asked(n)
          PROVE  OnTheWay(n) \subseteq met'[j]
      BY <1>1, <3>2 DEF CompanyFits
    <3> QED
      BY <2>2, <3>1, <3>2
  <2>7. \A m \in Name : \A k \in Asked(m)' : OnTheWay(m)' \subseteq {k} \cup met'[k]
    BY <2>1, <2>2, <2>3, <2>4, <2>5, <2>6 DEF CompanyFits
  <2>8. \A k \in Join : stage'[k] = "answered" => answer'[k].user \in {k} \cup met'[k]
    BY <1>2, <2>3 DEF CompanyFits
  <2> QED
    BY <2>7, <2>8 DEF CompanyFits
<1> QED
  BY <1>6, <1>7, <1>8, <1>9, <1>10

\* While the lobbies stay as they are and messages only leave their queues,
\* nothing gets on the way.
LEMMA ShrinksTheWay ==
  ASSUME MailShrinks, UNCHANGED lobby, NEW n \in Name
  PROVE  OnTheWay(n)' \subseteq OnTheWay(n)
<1>1. /\ Elements(mail'[JoinBox(n)]) \subseteq Elements(mail[JoinBox(n)])
      /\ Elements(mail'[JoinedBox(n)]) \subseteq Elements(mail[JoinedBox(n)])
  BY Boxes DEF MailShrinks, Shrunk
<1> QED
  BY <1>1 DEF OnTheWay, JoinBox, JoinedBox

LEMMA ReceiveKeepsJoins ==
  ASSUME MatchType, JoinInv, NEW r \in Join, Receive(r)
  PROVE  JoinInv'
<1> USE DEF JoinInv
<1> DEFINE n == target[r]
           a == Head(mail[JoinedBox(n)])
<1>1. stage[r] = "asked" /\ r \in Request
  BY Names DEF Receive
<1>2. n \in Name /\ ReplyBox(r) = JoinedBox(n)
  BY <1>1, ReplyBoxType DEF MatchType
<1> HIDE DEF n
<1>3. /\ MailShrinks /\ JoinedBox(n) \in Box
      /\ mail[JoinedBox(n)] # <<>> /\ mail'[JoinedBox(n)] = Tail(mail[JoinedBox(n)])
      /\ \A b \in Box : b # JoinedBox(n) => mail'[b] = mail[b]
      /\ \A q \in Join : q # r => stage'[q] = stage[q] /\ answer'[q] = answer[q]
      /\ UNCHANGED <<target, met, lobby, seats, replaced>>
      /\ answer'[r] = a /\ stage'[r] = "answered"
  BY <1>1, <1>2, ReceiveStep, Names
<1>4. /\ a \in Elements(mail[JoinedBox(n)])
      /\ \A b \in Elements(mail'[JoinedBox(n)]) : b.user # a.user
  BY <1>2, <1>3, TailParts DEF MatchType, MailType, TokensFit
<1> HIDE DEF a
<1>5. SentBy(lobby, a, n)
  BY <1>2, <1>4 DEF TokensFit
<1>6. \A m \in Name : /\ Distinct(mail'[JoinBox(m)]) /\ Distinct(mail'[JoinedBox(m)])
                      /\ Elements(mail'[JoinBox(m)]) \subseteq Elements(mail[JoinBox(m)])
                      /\ Elements(mail'[JoinedBox(m)]) \subseteq Elements(mail[JoinedBox(m)])
  BY <1>3, Boxes DEF MailShrinks, Shrunk, JoinsFit, TokensFit
<1>7. GuestsFit' /\ JoinsFit' /\ TokensFit'
  <2>1. GuestsFit'
    BY <1>3 DEF GuestsFit
  <2>2. JoinsFit'
    BY <1>3, <1>6 DEF JoinsFit, JoinBox
  <2>3. TokensFit'
    BY <1>3, <1>6 DEF TokensFit, JoinedBox
  <2> QED
    BY <2>1, <2>2, <2>3
<1>8. AnswersSent'
  <2>1. ASSUME NEW k \in Join, k # r, stage[k] = "answered"
        PROVE  answer[k].user # a.user
    <3>1. target[k] \in Name /\ SentBy(lobby, answer[k], target[k])
      BY <2>1 DEF MatchType, MasterType, AnswersSent
    <3>2. target[a.user] = n /\ target[answer[k].user] = target[k]
      BY <1>2, <1>5, <3>1, SentToGuest
    <3>3. \A b \in Elements(mail[JoinedBox(target[k])]) : b.user # answer[k].user
      BY <2>1 DEF AnswersSent
    <3> QED
      BY <1>4, <3>2, <3>3
  <2>2. \A k \in Join : stage[k] = "answered" => target[k] \in Name
    BY DEF MatchType, MasterType
  <2>3. ASSUME NEW k \in Join
        PROVE  answer'[k] # None => stage'[k] = "answered"
    BY <1>3 DEF AnswersSent
  <2>4. ASSUME NEW k \in Join, stage'[k] = "answered"
        PROVE  /\ SentBy(lobby', answer'[k], target'[k])
               /\ \A b \in Elements(mail'[JoinedBox(target'[k])]) : b.user # answer'[k].user
               /\ \A l \in Join : stage'[l] = "answered" /\ answer'[l].user = answer'[k].user => l = k
    <3>1. CASE k = r
      BY <1>3, <1>4, <1>5, <2>1, <3>1 DEF n
    <3>2. CASE k # r
      <4>1. SentBy(lobby', answer'[k], target'[k])
        BY <1>3, <2>4, <3>2 DEF AnswersSent
      <4>2. \A b \in Elements(mail'[JoinedBox(target'[k])]) : b.user # answer'[k].user
        BY <1>3, <1>6, <2>2, <2>4, <3>2 DEF AnswersSent
      <4>3. \A l \in Join : stage'[l] = "answered" /\ answer'[l].user = answer'[k].user => l = k
        BY <1>3, <2>1, <2>4, <3>2 DEF AnswersSent
      <4> QED
        BY <4>1, <4>2, <4>3
    <3> QED
      BY <3>1, <3>2
  <2> QED
    BY <2>3, <2>4 DEF AnswersSent, JoinedBox
<1>9. CompanyFits'
  <2>1. \A m \in Name : OnTheWay(m)' \subseteq OnTheWay(m) /\ Asked(m)' \subseteq Asked(m)
    BY <1>3, ShrinksTheWay DEF Asked
  <2>2. a.user \in {r} \cup met[r]
    <3>1. a.user \in OnTheWay(n) /\ r \in Asked(n)
      BY <1>1, <1>4 DEF OnTheWay, Asked, n
    <3> QED
      BY <1>2, <3>1 DEF CompanyFits
  <2>3. \A m \in Name : \A k \in Asked(m)' : OnTheWay(m)' \subseteq {k} \cup met'[k]
    BY <1>3, <2>1 DEF CompanyFits
  <2>4. \A k \in Join : stage'[k] = "answered" => answer'[k].user \in {k} \cup met'[k]
    BY <1>3, <2>2 DEF CompanyFits
  <2> QED
    BY <2>3, <2>4 DEF CompanyFits
<1> QED
  BY <1>7, <1>8, <1>9

\* A step of a lobby leaves what the others have sent.
LEMMA ServedStay ==
  ASSUME \A g \in Game : \A i \in DOMAIN lobby[g] :
           /\ i \in DOMAIN lobby'[g]
           /\ lobby[g][i].state \in Served =>
                /\ lobby'[g][i].state \in Served
                /\ lobby'[g][i].server = lobby[g][i].server /\ lobby'[g][i].guest = lobby[g][i].guest,
         NEW n \in Name, NEW a, SentBy(lobby, a, n)
  PROVE  SentBy(lobby', a, n)
<1>1. PICK i \in DOMAIN lobby[n] : /\ lobby[n][i].state \in Served
                                   /\ lobby[n][i].server = a.server
                                   /\ lobby[n][i].guest = a.user
  BY DEF SentBy
<1>2. n \in Game /\ a.game = n /\ a.user \in Join
  BY DEF SentBy
<1> QED
  BY <1>1, <1>2 DEF SentBy

LEMMA TakeJoinKeepsJoins ==
  ASSUME MatchType, JoinInv, NEW g \in Game, NEW i \in DOMAIN lobby[g], TakeJoin(g, i)
  PROVE  JoinInv'
<1> USE DEF JoinInv
<1> DEFINE m == Head(mail[JoinBox(g)])
           u == m.user
           run == [lobby[g][i] EXCEPT !.state = AfterLookup(lobby[g][i].server, g, "seating", "joining"),
                                      !.guest = m.user]
<1>1. /\ MailShrinks /\ UNCHANGED <<masterVars, createQueue, workerVars>>
      /\ lobby[g][i].state = "listening"
      /\ m \in Elements(mail[JoinBox(g)]) /\ u \in Join
      /\ mail[JoinBox(g)] # <<>> /\ mail'[JoinBox(g)] = Tail(mail[JoinBox(g)])
      /\ \A b \in Box : b # JoinBox(g) => mail'[b] = mail[b]
      /\ run \in LobbyRun /\ run.state \in Taken /\ run.guest = u
      /\ lobby' = [lobby EXCEPT ![g] = [lobby[g] EXCEPT ![i] = run]]
  BY TakeJoinStep
<1>2. \A q \in Elements(mail'[JoinBox(g)]) : q.user # u
  BY <1>1, Names, Boxes, TailParts DEF MatchType, MailType, JoinsFit
<1> HIDE DEF m, run
<1>3. /\ \A h \in Game : DOMAIN lobby'[h] = DOMAIN lobby[h]
      /\ \A h \in Game : h # g => lobby'[h] = lobby[h]
      /\ \A k \in DOMAIN lobby[g] : k # i => lobby'[g][k] = lobby[g][k]
      /\ lobby'[g][i].state \in Taken /\ lobby'[g][i].guest = u
  BY <1>1, RunChanges DEF MatchType
<1>4. g \in Name /\ target[u] = g /\ \A k \in DOMAIN lobby[g] : lobby[g][k].guest # u
  BY <1>1, Names DEF JoinsFit
<1> HIDE DEF u
<1>5. UNCHANGED <<stage, target, answer, met>>
  BY <1>1 DEF masterVars
<1>6. GuestsFit'
  <2>1. ASSUME NEW h \in Game, NEW k \in DOMAIN lobby'[h]
        PROVE  /\ lobby'[h][k].state \in Taken => lobby'[h][k].guest # None
               /\ lobby'[h][k].guest # None =>
                    /\ lobby'[h][k].state \in Taken \cup Served
                    /\ target'[lobby'[h][k].guest] = h
                    /\ \A l \in DOMAIN lobby'[h] : lobby'[h][l].guest = lobby'[h][k].guest => l = k
    <3>1. CASE h # g
      BY <1>3, <1>5, <2>1, <3>1 DEF GuestsFit
    <3>2. CASE h = g /\ k = i
      BY <1>1, <1>3, <1>4, <1>5, <3>2, Names
    <3>3. CASE h = g /\ k # i
      BY <1>3, <1>4, <1>5, <2>1, <3>3 DEF GuestsFit
    <3> QED
      BY <3>1, <3>2, <3>3
  <2> QED
    BY <2>1 DEF GuestsFit
<1>7. \A n \in Name : /\ Distinct(mail'[JoinBox(n)]) /\ Distinct(mail'[JoinedBox(n)])
                      /\ Elements(mail'[JoinBox(n)]) \subseteq Elements(mail[JoinBox(n)])
                      /\ Elements(mail'[JoinedBox(n)]) \subseteq Elements(mail[JoinedBox(n)])
  BY <1>1, Boxes DEF MailShrinks, Shrunk, JoinsFit, TokensFit
<1>8. JoinsFit'
  <2>1. ASSUME NEW n \in Name, NEW q \in Elements(mail'[JoinBox(n)])
        PROVE  /\ target'[q.user] = n
               /\ n \in Game => \A k \in DOMAIN lobby'[n] : lobby'[n][k].guest # q.user
    BY <1>2, <1>3, <1>5, <1>7, <2>1 DEF JoinsFit
  <2> QED
    BY <1>7, <2>1 DEF JoinsFit, JoinBox
<1>9. \A n \in Name : \A a : SentBy(lobby, a, n) => SentBy(lobby', a, n)
  <2>1. \A h \in Game : \A k \in DOMAIN lobby[h] :
          k \in DOMAIN lobby'[h] /\ (lobby'[h][k] = lobby[h][k] \/ (h = g /\ k = i))
    BY <1>3
  <2>2. lobby[g][i].state \notin Served
    BY <1>1 DEF Served
  <2> QED
    BY <2>1, <2>2, ServedStay
<1>10. TokensFit'
  BY <1>7, <1>9 DEF TokensFit, JoinedBox
<1>11. AnswersSent'
  <2>1. \A k \in Join : stage[k] = "answered" => target[k] \in Name
    BY DEF MatchType, MasterType
  <2>2. ASSUME NEW k \in Join, stage[k] = "answered"
        PROVE  /\ SentBy(lobby', answer[k], target[k])
               /\ \A a \in Elements(mail'[JoinedBox(target[k])]) : a.user # answer[k].user
    BY <1>7, <1>9, <2>1, <2>2 DEF AnswersSent
  <2> QED
    BY <1>5, <2>2 DEF AnswersSent, JoinedBox
<1>12. CompanyFits'
  <2>1. ASSUME NEW n \in Name
        PROVE  OnTheWay(n)' \subseteq OnTheWay(n)
    <3>1. ASSUME NEW j \in Join, n \in Game, NEW k \in DOMAIN lobby'[n],
                 lobby'[n][k].state \in Taken, lobby'[n][k].guest = j
          PROVE  j \in OnTheWay(n)
      <4>1. CASE n = g /\ k = i
        BY <1>1, <1>3, <3>1, <4>1 DEF OnTheWay, u
      <4>2. CASE ~(n = g /\ k = i)
        BY <1>3, <3>1, <4>2 DEF OnTheWay
      <4> QED
        BY <4>1, <4>2
    <3> QED
      BY <1>7, <3>1 DEF OnTheWay, JoinBox, JoinedBox
  <2>2. \A n \in Name : Asked(n)' = Asked(n)
    BY <1>5 DEF Asked
  <2> QED
    BY <1>5, <2>1, <2>2 DEF CompanyFits
<1> QED
  BY <1>6, <1>8, <1>10, <1>11, <1>12

LEMMA AnswerJoinKeepsJoins ==
  ASSUME MatchType, JoinInv, NEW g \in Game, NEW i \in DOMAIN lobby[g], AnswerJoin(g, i)
  PROVE  JoinInv'
<1> USE DEF JoinInv
<1> DEFINE a == [game |-> g, server |-> lobby[g][i].server, user |-> lobby[g][i].guest]
           u == lobby[g][i].guest
<1>1. /\ UNCHANGED <<masterVars, createQueue, workerVars, seats>>
      /\ lobby[g][i].state = "seating" /\ u \in Join
      /\ GoesTo(g, i, "full")
      /\ \A b \in Box : b # JoinedBox(g) => mail'[b] = mail[b]
      /\ Elements(mail'[JoinedBox(g)]) = Elements(mail[JoinedBox(g)]) \cup {a}
      /\ Distinct(mail[JoinedBox(g)]) /\ (\A n \in Elements(mail[JoinedBox(g)]) : n.user # a.user)
           => Distinct(mail'[JoinedBox(g)])
  BY AnswerJoinStep
<1>2. a.game = g /\ a.user = u /\ a.server = lobby[g][i].server
  OBVIOUS
<1> HIDE DEF a
<1>3. /\ \A h \in Game : DOMAIN lobby'[h] = DOMAIN lobby[h]
      /\ \A h \in Game : h # g => lobby'[h] = lobby[h]
      /\ \A k \in DOMAIN lobby[g] : k # i => lobby'[g][k] = lobby[g][k]
      /\ lobby'[g][i].state = "full" /\ lobby'[g][i].guest = u
      /\ lobby'[g][i].server = lobby[g][i].server
  BY <1>1, GoesToKeeps DEF MatchType, LobbyState
<1>4. UNCHANGED <<stage, target, answer, met>>
  BY <1>1 DEF masterVars
<1>5. \A n \in Name : /\ mail'[JoinBox(n)] = mail[JoinBox(n)]
                      /\ n # g => mail'[JoinedBox(n)] = mail[JoinedBox(n)]
  BY <1>1, Names, Boxes
<1>6. g \in Name /\ u # None /\ "seating" \notin Served /\ "full" \in Served /\ "full" \notin Taken
  BY <1>1, Names DEF Served, Taken
\* The guest is this lobby's alone, and it has not answered before.
<1>7. \A b : SentBy(lobby, b, g) => b.user # u
  <2>1. \A k \in DOMAIN lobby[g] : lobby[g][k].guest = u => k = i
    BY <1>6 DEF GuestsFit
  <2> QED
    BY <1>1, <1>6, <2>1 DEF SentBy
<1>8. \A h \in Game : \A k \in DOMAIN lobby[h] :
        k \in DOMAIN lobby'[h] /\ lobby'[h][k].guest = lobby[h][k].guest
          /\ (lobby'[h][k] = lobby[h][k] \/ (h = g /\ k = i))
  BY <1>3
<1>9. \A n \in Name : \A b : SentBy(lobby, b, n) => SentBy(lobby', b, n)
  BY <1>1, <1>6, <1>8, ServedStay
<1>10. SentBy(lobby', a, g)
  BY <1>1, <1>2, <1>3, <1>6 DEF SentBy
<1> HIDE DEF u
<1>11. GuestsFit'
  <2>1. ASSUME NEW h \in Game, NEW k \in DOMAIN lobby'[h]
        PROVE  /\ lobby'[h][k].state \in Taken => lobby'[h][k].guest # None
               /\ lobby'[h][k].guest # None =>
                    /\ lobby'[h][k].state \in Taken \cup Served
                    /\ target'[lobby'[h][k].guest] = h
                    /\ \A l \in DOMAIN lobby'[h] : lobby'[h][l].guest = lobby'[h][k].guest => l = k
    <3>1. k \in DOMAIN lobby[h]
      BY <1>3
    <3>2. lobby'[h][k].state \in Taken => lobby'[h][k].guest # None
      BY <1>3, <1>6, <1>8, <3>1 DEF GuestsFit
    <3>3. lobby'[h][k].guest # None => lobby'[h][k].state \in Taken \cup Served
      BY <1>3, <1>6, <1>8, <3>1 DEF GuestsFit
    <3>4. lobby'[h][k].guest # None =>
            /\ target'[lobby'[h][k].guest] = h
            /\ \A l \in DOMAIN lobby'[h] : lobby'[h][l].guest = lobby'[h][k].guest => l = k
      BY <1>3, <1>4, <1>8, <3>1 DEF GuestsFit
    <3> QED
      BY <3>2, <3>3, <3>4
  <2> QED
    BY <2>1 DEF GuestsFit
<1>12. JoinsFit'
  <2>1. ASSUME NEW n \in Name
        PROVE  /\ Distinct(mail'[JoinBox(n)])
               /\ \A q \in Elements(mail'[JoinBox(n)]) :
                    /\ target'[q.user] = n
                    /\ n \in Game => \A k \in DOMAIN lobby'[n] : lobby'[n][k].guest # q.user
    <3>1. n \in Game => \A k \in DOMAIN lobby'[n] : k \in DOMAIN lobby[n] /\ lobby'[n][k].guest = lobby[n][k].guest
      BY <1>3, <1>8
    <3> QED
      BY <1>4, <1>5, <3>1 DEF JoinsFit
  <2> QED
    BY <2>1 DEF JoinsFit, JoinBox
<1>13. TokensFit'
  <2>1. Distinct(mail'[JoinedBox(g)])
    BY <1>1, <1>2, <1>6, <1>7 DEF TokensFit
  <2>2. \A n \in Name : Distinct(mail'[JoinedBox(n)])
    BY <1>5, <2>1 DEF TokensFit
  <2>3. \A n \in Name : \A b \in Elements(mail'[JoinedBox(n)]) : SentBy(lobby', b, n)
    BY <1>1, <1>5, <1>9, <1>10 DEF TokensFit
  <2> QED
    BY <2>2, <2>3 DEF TokensFit, JoinedBox
<1>14. AnswersSent'
  <2>1. ASSUME NEW k \in Join, stage[k] = "answered"
        PROVE  /\ SentBy(lobby', answer[k], target[k])
               /\ \A b \in Elements(mail'[JoinedBox(target[k])]) : b.user # answer[k].user
    <3>1. target[k] \in Name /\ SentBy(lobby, answer[k], target[k])
      BY <2>1 DEF AnswersSent, MatchType, MasterType
    <3>2. \A b \in Elements(mail[JoinedBox(target[k])]) : b.user # answer[k].user
      BY <2>1 DEF AnswersSent
    <3>3. target[k] = g => answer[k].user # a.user
      BY <1>2, <1>7, <3>1
    <3> QED
      BY <1>1, <1>5, <1>9, <3>1, <3>2, <3>3
  <2> QED
    BY <1>4, <2>1 DEF AnswersSent, JoinedBox
<1>15. CompanyFits'
  <2>1. ASSUME NEW n \in Name
        PROVE  OnTheWay(n)' \subseteq OnTheWay(n)
    <3>1. ASSUME NEW j \in Join, n \in Game, NEW k \in DOMAIN lobby'[n],
                 lobby'[n][k].state \in Taken, lobby'[n][k].guest = j
          PROVE  j \in OnTheWay(n)
      <4>1. lobby'[n][k] = lobby[n][k] /\ k \in DOMAIN lobby[n]
        <5>1. k \in DOMAIN lobby[n] /\ ~(n = g /\ k = i)
          BY <1>3, <1>6, <3>1
        <5> QED
          BY <1>8, <3>1, <5>1
      <4>2. lobby[n][k].state \in Taken /\ lobby[n][k].guest = j
        BY <3>1, <4>1
      <4> QED
        BY <3>1, <4>1, <4>2 DEF OnTheWay
    <3>2. n = g => u \in OnTheWay(n)
      BY <1>1 DEF OnTheWay, Taken, u
    <3>3. \A b \in Elements(mail'[JoinedBox(n)]) : b.user \in OnTheWay(n)
      BY <1>1, <1>2, <1>5, <3>2 DEF OnTheWay
    <3>4. \A b \in Elements(mail'[JoinBox(n)]) : b.user \in OnTheWay(n)
      BY <1>5 DEF OnTheWay
    <3> QED
      BY <3>1, <3>3, <3>4 DEF OnTheWay, JoinBox, JoinedBox
  <2>2. \A n \in Name : Asked(n)' = Asked(n)
    BY <1>4 DEF Asked
  <2> QED
    BY <1>4, <2>1, <2>2 DEF CompanyFits
<1> QED
  BY <1>11, <1>12, <1>13, <1>14, <1>15

-----------------------------------------------------------------------------
(***************************************************************************)
(* Places in the registry.                                                 *)
(***************************************************************************)
\* A lobby that has ended stays so.
LEMMA EndedStays ==
  ASSUME NEW g \in Game,
         \A i \in DOMAIN lobby[g] :
           /\ i \in DOMAIN lobby'[g] /\ lobby'[g][i].server = lobby[g][i].server
           /\ lobby[g][i].state \in {"over", "crashed"} => lobby'[g][i].state \in {"over", "crashed"},
         NEW s, Ended(lobby[g], s)
  PROVE  Ended(lobby'[g], s)
BY DEF Ended

LEMMA SeatsGrow ==
  ASSUME NEW run, NEW users, NEW more, Seated(run, users), users \subseteq more
  PROVE  Seated(run, more)
BY DEF Seated

\* A step of one lobby: what it must not lose, and what it must see to.
LEMMA OneLobbySeats ==
  ASSUME PlayersSeated, NEW g \in Game, NEW i \in DOMAIN lobby[g],
         \A h \in Game : h # g => lobby'[h] = lobby[h],
         DOMAIN lobby'[g] = DOMAIN lobby[g],
         \A k \in DOMAIN lobby[g] : k # i => lobby'[g][k] = lobby[g][k],
         lobby'[g][i].server = lobby[g][i].server,
         lobby[g][i].state \notin {"over", "crashed"},
         replaced \subseteq replaced',
         \A s \in Server : \A h \in Game : seats[s][h] \subseteq seats'[s][h] \/ <<s, h>> \in replaced',
         \A h \in Game : \A k \in DOMAIN lobby[h] : lobby[h][k].server \in Server,
         \/ Ended(lobby[g], lobby[g][i].server)
         \/ <<lobby[g][i].server, g>> \in replaced'
         \/ Seated(lobby'[g][i], seats'[lobby[g][i].server][g])
  PROVE  PlayersSeated'
<1>1. \A h \in Game : \A s : Ended(lobby[h], s) => Ended(lobby'[h], s)
  <2> TAKE h \in Game
  <2>1. \A k \in DOMAIN lobby[h] :
          /\ k \in DOMAIN lobby'[h] /\ lobby'[h][k].server = lobby[h][k].server
          /\ lobby[h][k].state \in {"over", "crashed"} => lobby'[h][k].state \in {"over", "crashed"}
    <3>1. CASE h = g
      BY <3>1
    <3>2. CASE h # g
      BY <3>2
    <3> QED
      BY <3>1, <3>2
  <2> QED
    BY <2>1, EndedStays
<1>2. ASSUME NEW h \in Game, NEW k \in DOMAIN lobby'[h]
      PROVE  \/ Ended(lobby'[h], lobby'[h][k].server)
             \/ <<lobby'[h][k].server, h>> \in replaced'
             \/ Seated(lobby'[h][k], seats'[lobby'[h][k].server][h])
  <2>1. CASE h = g /\ k = i
    BY <1>1, <2>1
  <2>2. CASE ~(h = g /\ k = i)
    <3>1. k \in DOMAIN lobby[h] /\ lobby'[h][k] = lobby[h][k]
      BY <1>2, <2>2
    <3>2. \/ Ended(lobby[h], lobby[h][k].server)
          \/ <<lobby[h][k].server, h>> \in replaced
          \/ Seated(lobby[h][k], seats[lobby[h][k].server][h])
      BY <3>1 DEF PlayersSeated
    <3>3. \/ seats[lobby[h][k].server][h] \subseteq seats'[lobby[h][k].server][h]
          \/ <<lobby[h][k].server, h>> \in replaced'
      BY <3>1
    <3> QED
      BY <1>1, <3>1, <3>2, <3>3, SeatsGrow
  <2> QED
    BY <2>1, <2>2
<1> QED
  BY <1>2 DEF PlayersSeated

\* What a step must see to for an entry to have an owner, and for an overlap to
\* have two lobbies.
LEMMA OverlapsStay ==
  ASSUME EntriesOwned, OverlapsSeen,
         \A g \in Game : \A i \in DOMAIN lobby[g] :
           /\ i \in DOMAIN lobby'[g] /\ lobby'[g][i].server = lobby[g][i].server
           /\ lobby'[g][i].state \in Early => lobby[g][i].state \in Early,
         \A g \in Game : \A i \in DOMAIN lobby'[g] : lobby'[g][i].state = "joining" =>
           \/ i \in DOMAIN lobby[g] /\ lobby[g][i].state = "joining"
           \/ Two(lobby[g], lobby'[g][i].server),
         \/ replaced' = replaced
         \/ \E s \in Server, g \in Game : replaced' = replaced \cup {<<s, g>>} /\ Two(lobby[g], s),
         \A s \in Server, g \in Game : seats'[s][g] # {} =>
           \/ seats[s][g] # {}
           \/ \E i \in DOMAIN lobby'[g] : lobby'[g][i].server = s /\ lobby'[g][i].state \notin Early
  PROVE  EntriesOwned' /\ OverlapsSeen'
<1>1. \A g \in Game : \A s : Two(lobby[g], s) => Two(lobby'[g], s)
  BY DEF Two
<1>2. EntriesOwned'
  BY DEF EntriesOwned
<1>3. \A s \in Server, g \in Game : <<s, g>> \in replaced' => Two(lobby'[g], s)
  <2> SUFFICES ASSUME NEW s \in Server, NEW g \in Game, <<s, g>> \in replaced'
               PROVE  Two(lobby'[g], s)
    OBVIOUS
  <2>1. <<s, g>> \in replaced \/ Two(lobby[g], s)
    OBVIOUS
  <2> QED
    BY <1>1, <2>1 DEF OverlapsSeen
<1>4. replaced' \subseteq Server \X Game
  BY DEF OverlapsSeen
<1>5. \A g \in Game : \A i \in DOMAIN lobby'[g] :
        lobby'[g][i].state = "joining" => Two(lobby'[g], lobby'[g][i].server)
  BY <1>1 DEF OverlapsSeen
<1> QED
  BY <1>2, <1>3, <1>4, <1>5 DEF OverlapsSeen

\* A step of the lobbies that leaves the registry alone, or empties it.
LEMMA LobbiesKeepOverlaps ==
  ASSUME SeatInv, LobbiesKeep, UNCHANGED replaced,
         \A s \in Server, g \in Game : seats'[s][g] # {} => seats[s][g] # {}
  PROVE  EntriesOwned' /\ OverlapsSeen'
<1>1. \A g \in Game : \A i \in DOMAIN lobby[g] :
        /\ i \in DOMAIN lobby'[g] /\ lobby'[g][i].server = lobby[g][i].server
        /\ lobby'[g][i].state \in Early => lobby[g][i].state \in Early
  BY DEF LobbiesKeep, Keeps
<1>2. \A g \in Game : \A i \in DOMAIN lobby'[g] : lobby'[g][i].state = "joining" =>
        i \in DOMAIN lobby[g] /\ lobby[g][i].state = "joining"
  BY DEF LobbiesKeep, Keeps
<1> QED
  BY <1>1, <1>2, OverlapsStay DEF SeatInv

\* What the host was sent stays sent.
LEMMA HostSentStays ==
  ASSUME NEW g \in Game,
         \A i \in DOMAIN lobby[g] :
           /\ i \in DOMAIN lobby'[g] /\ lobby'[g][i].server = lobby[g][i].server
           /\ lobby'[g][i].state \in Unsent => lobby[g][i].state \in Unsent,
         NEW a, HostSent(lobby[g], a, g)
  PROVE  HostSent(lobby'[g], a, g)
BY DEF HostSent

LEMMA AcceptancesStay ==
  ASSUME AcceptancesSent,
         \A g \in Game : \A i \in DOMAIN lobby[g] :
           /\ i \in DOMAIN lobby'[g] /\ lobby'[g][i].server = lobby[g][i].server
           /\ lobby'[g][i].state \in Unsent => lobby[g][i].state \in Unsent,
         \A g \in Game : \A a \in Elements(mail'[AcceptBox(g)]) :
           a \in Elements(mail[AcceptBox(g)]) \/ HostSent(lobby'[g], a, g),
         \A g \in Game : \/ answer'[g] = None \/ answer'[g] = answer[g]
                         \/ answer'[g] \in Elements(mail[AcceptBox(g)])
  PROVE  AcceptancesSent'
<1>1. \A g \in Game : \A a : HostSent(lobby[g], a, g) => HostSent(lobby'[g], a, g)
  BY HostSentStays
<1>2. \A g \in Game : \A a \in Elements(mail'[AcceptBox(g)]) : HostSent(lobby'[g], a, g)
  BY <1>1 DEF AcceptancesSent
<1>3. \A g \in Game : answer'[g] # None => HostSent(lobby'[g], answer'[g], g)
  BY <1>1 DEF AcceptancesSent
<1> QED
  BY <1>2, <1>3 DEF AcceptancesSent, AcceptBox

\* Steps that do not touch the lobbies or the registry.
LEMMA SameSeats ==
  ASSUME MatchType, SeatInv, UNCHANGED lobbyVars,
         \A g \in Game : Elements(mail'[AcceptBox(g)]) \subseteq Elements(mail[AcceptBox(g)]),
         \A g \in Game : \/ answer'[g] = answer[g]
                         \/ answer'[g] \in Elements(mail[AcceptBox(g)])
  PROVE  SeatInv'
<1>1. PlayersSeated' /\ EntriesOwned' /\ OverlapsSeen'
  BY DEF SeatInv, PlayersSeated, EntriesOwned, OverlapsSeen, lobbyVars
<1>2. AcceptancesSent'
  BY AcceptancesStay DEF SeatInv, lobbyVars
<1> QED
  BY <1>1, <1>2 DEF SeatInv

LEMMA MasterKeepsSeats ==
  ASSUME MatchType, SeatInv,
         \/ \E g \in Game : AskCreate(g)
         \/ \E j \in Join : AskJoin(j)
         \/ \E r \in Request : Subscribe(r) \/ Receive(r)
  PROVE  SeatInv'
<1>1. ASSUME NEW g \in Game, AskCreate(g)
      PROVE  SeatInv'
  BY <1>1, SameSeats DEF AskCreate, Ask
<1>2. ASSUME NEW j \in Join, AskJoin(j)
      PROVE  SeatInv'
  <2>1. \A g \in Game : mail'[AcceptBox(g)] = mail[AcceptBox(g)]
    BY <1>2, AskJoinStep, Names, Boxes
  <2>2. UNCHANGED <<answer, lobbyVars>>
    BY <1>2 DEF AskJoin, Ask
  <2> QED
    BY <2>1, <2>2, SameSeats
<1>3. ASSUME NEW r \in Request, Subscribe(r)
      PROVE  SeatInv'
  BY <1>3, SameSeats DEF Subscribe, brokerVars
<1>4. ASSUME NEW r \in Request, Receive(r)
      PROVE  SeatInv'
  <2>1. /\ MailShrinks /\ mail[ReplyBox(r)] # <<>> /\ ReplyBox(r) \in Box
        /\ \A q \in Request : q # r => answer'[q] = answer[q]
        /\ UNCHANGED <<lobby, seats, replaced>>
        /\ answer'[r] = Head(mail[ReplyBox(r)]) \/ answer'[r] = answer[r]
    BY <1>4, ReceiveStep
  <2>2. Head(mail[ReplyBox(r)]) \in Elements(mail[ReplyBox(r)])
    BY <2>1, TailParts DEF MatchType, MailType
  <2>3. r \in Game => ReplyBox(r) = AcceptBox(r)
    BY DEF ReplyBox
  <2>4. \A g \in Game : Elements(mail'[AcceptBox(g)]) \subseteq Elements(mail[AcceptBox(g)])
    BY <2>1, Names, Boxes DEF MailShrinks, Shrunk
  <2>5. \A g \in Game : answer'[g] = answer[g] \/ answer'[g] \in Elements(mail[AcceptBox(g)])
    BY <2>1, <2>2, <2>3, Names
  <2> QED
    BY <2>1, <2>4, <2>5, SameSeats DEF lobbyVars
<1> QED
  BY <1>1, <1>2, <1>3, <1>4

LEMMA BrokerKeepsSeats ==
  ASSUME MatchType, SeatInv,
         \/ \E r \in Request : Swallow(r)
         \/ \E g \in Game : \E i \in DOMAIN lobby[g] : SwallowJoin(g, i)
         \/ \E b \in Box : Expire(b)
         \/ \E s \in Server : TakeCreate(s) \/ Ack(s) \/ LoseConnection(s)
         \/ UNCHANGED vars
  PROVE  SeatInv'
<1>1. UNCHANGED lobbyVars /\ UNCHANGED answer
  BY DEF Swallow, SwallowJoin, Expire, TakeCreate, Ack, LoseConnection, vars, masterVars
<1>2. MailShrinks
  <2>1. CASE \E s \in Server : TakeCreate(s) \/ Ack(s) \/ LoseConnection(s)
    BY <2>1, SameShrinks DEF MatchType, TakeCreate, Ack, LoseConnection
  <2>2. CASE UNCHANGED vars
    BY <2>2, SameShrinks DEF MatchType, vars, brokerVars
  <2> QED
    BY <2>1, <2>2, LosesMail
<1>3. \A g \in Game : Elements(mail'[AcceptBox(g)]) \subseteq Elements(mail[AcceptBox(g)])
  BY <1>2, Names, Boxes DEF MailShrinks, Shrunk
<1> QED
  BY <1>1, <1>3, SameSeats

LEMMA AttemptKeepsSeats ==
  ASSUME MatchType, SeatInv, NEW s \in Server, AttemptLobby(s)
  PROVE  SeatInv'
<1>1. LobbiesKeep
  BY AttemptKeeps DEF MatchType
<1>2. UNCHANGED <<masterVars, mail, seats, replaced>>
  BY DEF AttemptLobby, brokerVars
<1>3. ASSUME NEW g \in Game, NEW i \in DOMAIN lobby'[g]
      PROVE  \/ Ended(lobby'[g], lobby'[g][i].server)
             \/ <<lobby'[g][i].server, g>> \in replaced'
             \/ Seated(lobby'[g][i], seats'[lobby'[g][i].server][g])
  <2>1. CASE i \notin DOMAIN lobby[g]
    BY <1>1, <1>3, <2>1 DEF LobbiesKeep, Seated
  <2>2. CASE i \in DOMAIN lobby[g]
    <3>1. lobby'[g][i] = lobby[g][i]
      <4>1. CASE g = worker[s].game
        <5>1. lobby'[g] = Append(lobby[g], [state |-> "starting", server |-> s, guest |-> None])
          BY <4>1 DEF AttemptLobby, MatchType, LobbyType
        <5>2. lobby[g] \in Seq(LobbyRun) /\ i \in 1..Len(lobby[g])
          BY <2>2, RunParts DEF MatchType
        <5> QED
          BY <5>1, <5>2
      <4>2. CASE g # worker[s].game
        BY <4>2, AttemptKeeps DEF MatchType
      <4> QED
        BY <4>1, <4>2
    <3>2. \A t : Ended(lobby[g], t) => Ended(lobby'[g], t)
      BY <1>1, EndedStays DEF LobbiesKeep, Keeps
    <3> QED
      BY <1>2, <2>2, <3>1, <3>2 DEF SeatInv, PlayersSeated
  <2> QED
    BY <2>1, <2>2
<1>4. PlayersSeated'
  BY <1>3 DEF PlayersSeated
<1>5. AcceptancesSent'
  <2>1. \A g \in Game : \A i \in DOMAIN lobby[g] :
           /\ i \in DOMAIN lobby'[g] /\ lobby'[g][i].server = lobby[g][i].server
           /\ lobby'[g][i].state \in Unsent => lobby[g][i].state \in Unsent
    BY <1>1 DEF LobbiesKeep, Keeps, Unsent
  <2> QED
    BY <1>2, <2>1, AcceptancesStay DEF SeatInv, masterVars
<1>6. EntriesOwned' /\ OverlapsSeen'
  BY <1>1, <1>2, LobbiesKeepOverlaps
<1> QED
  BY <1>4, <1>5, <1>6 DEF SeatInv

\* What the step of a lobby has to show of itself.
Stepped(g, i) ==
  /\ \A h \in Game : h # g => lobby'[h] = lobby[h]
  /\ DOMAIN lobby'[g] = DOMAIN lobby[g]
  /\ \A k \in DOMAIN lobby[g] : k # i => lobby'[g][k] = lobby[g][k]
  /\ lobby'[g][i].server = lobby[g][i].server
  /\ lobby[g][i].state \notin {"over", "crashed"}
  /\ lobby'[g][i].state \notin Unsent
  /\ lobby'[g][i].state \in Early => lobby[g][i].state \in Early
  /\ lobby'[g][i].state = "joining" => Two(lobby[g], lobby[g][i].server)
  /\ \/ replaced' = replaced
     \/ replaced' = replaced \cup {<<lobby[g][i].server, g>>} /\ Two(lobby[g], lobby[g][i].server)
  /\ \A s \in Server : \A h \in Game :
       \/ seats'[s][h] = seats[s][h]
       \/ /\ s = lobby[g][i].server /\ h = g
          /\ seats[s][h] \subseteq seats'[s][h] \/ <<s, h>> \in replaced'
          /\ seats[s][h] # {} \/ lobby'[g][i].state \notin Early
  /\ \/ Ended(lobby[g], lobby[g][i].server)
     \/ <<lobby[g][i].server, g>> \in replaced'
     \/ Seated(lobby'[g][i], seats'[lobby[g][i].server][g])
  /\ \A h \in Game : \A a \in Elements(mail'[AcceptBox(h)]) :
       a \in Elements(mail[AcceptBox(h)]) \/ HostSent(lobby'[h], a, h)

LEMMA SteppedSeats ==
  ASSUME MatchType, SeatInv, NEW g \in Game, NEW i \in DOMAIN lobby[g], UNCHANGED masterVars,
         Stepped(g, i)
  PROVE  SeatInv'
<1> USE DEF Stepped
<1>1. \A h \in Game : \A k \in DOMAIN lobby[h] : lobby[h][k].server \in Server
  BY RunParts DEF MatchType
<1>2. PlayersSeated'
  <2>1. \A s \in Server : \A h \in Game : seats[s][h] \subseteq seats'[s][h] \/ <<s, h>> \in replaced'
    OBVIOUS
  <2>2. replaced \subseteq replaced'
    OBVIOUS
  <2> QED
    BY <1>1, <2>1, <2>2, OneLobbySeats DEF SeatInv
<1>3. \A h \in Game : \A k \in DOMAIN lobby[h] :
        /\ k \in DOMAIN lobby'[h] /\ lobby'[h][k].server = lobby[h][k].server
        /\ lobby'[h][k].state \in Unsent => lobby[h][k].state \in Unsent
        /\ lobby'[h][k].state \in Early => lobby[h][k].state \in Early
  <2> TAKE h \in Game
  <2> TAKE k \in DOMAIN lobby[h]
  <2>1. CASE h = g /\ k = i
    BY <2>1
  <2>2. CASE ~(h = g /\ k = i)
    BY <2>2
  <2> QED
    BY <2>1, <2>2
<1>4. AcceptancesSent'
  BY <1>3, AcceptancesStay DEF SeatInv, masterVars
<1>5. EntriesOwned' /\ OverlapsSeen'
  <2>1. \A h \in Game : \A k \in DOMAIN lobby'[h] : lobby'[h][k].state = "joining" =>
          \/ k \in DOMAIN lobby[h] /\ lobby[h][k].state = "joining"
          \/ Two(lobby[h], lobby'[h][k].server)
    <3> TAKE h \in Game
    <3> TAKE k \in DOMAIN lobby'[h]
    <3>1. CASE h = g /\ k = i
      BY <3>1
    <3>2. CASE ~(h = g /\ k = i)
      BY <3>2
    <3> QED
      BY <3>1, <3>2
  <2>2. \A s \in Server, h \in Game : seats'[s][h] # {} =>
          \/ seats[s][h] # {}
          \/ \E k \in DOMAIN lobby'[h] : lobby'[h][k].server = s /\ lobby'[h][k].state \notin Early
    OBVIOUS
  <2>3. \/ replaced' = replaced
        \/ \E s \in Server, h \in Game : replaced' = replaced \cup {<<s, h>>} /\ Two(lobby[h], s)
    BY <1>1
  <2> QED
    BY <1>3, <2>1, <2>2, <2>3, OverlapsStay DEF SeatInv
<1> QED
  BY <1>2, <1>4, <1>5 DEF SeatInv

LEMMA AnnounceKeepsSeats ==
  ASSUME MatchType, SeatInv, NEW g \in Game, NEW i \in DOMAIN lobby[g], Announce(g, i)
  PROVE  SeatInv'
<1> DEFINE s == lobby[g][i].server
<1>1. /\ GoesTo(g, i, "announced") /\ lobby[g][i].state = "starting"
      /\ UNCHANGED <<masterVars, seats, replaced>>
  BY DEF Announce, In
<1>2. /\ \A h \in Game : h # g => lobby'[h] = lobby[h]
      /\ DOMAIN lobby'[g] = DOMAIN lobby[g]
      /\ \A k \in DOMAIN lobby[g] : k # i => lobby'[g][k] = lobby[g][k]
      /\ lobby'[g][i].server = s /\ lobby'[g][i].state = "announced"
  BY <1>1, GoesToKeeps DEF MatchType, LobbyState
<1>3. Seated(lobby'[g][i], seats'[s][g])
  BY <1>2 DEF Seated
<1>4. HostSent(lobby'[g], [game |-> g, server |-> s, user |-> Host], g)
  BY <1>2 DEF HostSent, Unsent
<1>5. \A h \in Game : \A a \in Elements(mail'[AcceptBox(h)]) :
        a \in Elements(mail[AcceptBox(h)]) \/ HostSent(lobby'[h], a, h)
  BY <1>4, AnnounceStep, Names
<1>6. lobby'[g][i].state \notin Unsent /\ lobby[g][i].state \in Early
  BY <1>1, <1>2 DEF Unsent, Early
<1>7. lobby[g][i].state \notin {"over", "crashed"} /\ lobby'[g][i].state # "joining"
  BY <1>1, <1>2
<1>8. \A t \in Server : \A h \in Game : seats'[t][h] = seats[t][h]
  BY <1>1
<1> HIDE DEF s
<1>9. Stepped(g, i)
  BY <1>1, <1>2, <1>3, <1>5, <1>6, <1>7, <1>8 DEF Stepped, s
<1> QED
  BY <1>1, <1>9, SteppedSeats

LEMMA RegisterKeepsSeats ==
  ASSUME MatchType, SeatInv, NEW g \in Game, NEW i \in DOMAIN lobby[g], Register(g, i)
  PROVE  SeatInv'
<1> DEFINE s == lobby[g][i].server
           state == AfterLookup(s, g, "waiting", "registering")
<1>1. /\ GoesTo(g, i, state) /\ lobby[g][i].state = "announced"
      /\ UNCHANGED <<masterVars, mail, replaced>>
      /\ seats' = [seats EXCEPT ![s][g] = GetClient(s, g, Host)]
  BY DEF Register, In, brokerVars
<1>2. /\ state \in {"waiting", "registering"} /\ state \in LobbyState
      /\ s \in Server
  BY RunParts DEF AfterLookup, LobbyState, MatchType
<1> HIDE DEF state
<1>3. /\ \A h \in Game : h # g => lobby'[h] = lobby[h]
      /\ DOMAIN lobby'[g] = DOMAIN lobby[g]
      /\ \A k \in DOMAIN lobby[g] : k # i => lobby'[g][k] = lobby[g][k]
      /\ lobby'[g][i].server = s /\ lobby'[g][i].state = state
  BY <1>1, <1>2, GoesToKeeps DEF MatchType
<1> HIDE DEF s
<1>4. /\ seats'[s][g] = GetClient(s, g, Host)
      /\ \A t \in Server : \A h \in Game : seats'[t][h] = seats[t][h] \/ (t = s /\ h = g)
  BY <1>1, <1>2 DEF MatchType, LobbyType
<1>5. CASE seats[s][g] = {}
  <2>1. seats'[s][g] = seats[s][g] /\ state = "registering"
    BY <1>4, <1>5 DEF GetClient, AfterLookup, state
  <2>2. Seated(lobby'[g][i], seats'[s][g])
    BY <1>3, <2>1 DEF Seated
  <2>3. /\ lobby[g][i].state \notin {"over", "crashed"} /\ lobby[g][i].state \in Early
        /\ lobby'[g][i].state \notin Unsent /\ lobby'[g][i].state # "joining"
    BY <1>1, <1>3, <2>1 DEF Unsent, Early
  <2>4. \A t \in Server : \A h \in Game : seats'[t][h] = seats[t][h]
    BY <1>4, <2>1
  <2>9. Stepped(g, i)
    BY <1>1, <1>3, <2>2, <2>3, <2>4 DEF Stepped, s
  <2> QED
    BY <1>1, <2>9, SteppedSeats
<1>6. CASE seats[s][g] # {}
  <2>1. seats'[s][g] = seats[s][g] \cup {Host} /\ state = "waiting"
    BY <1>4, <1>6 DEF GetClient, AfterLookup, state
  <2>2. Seated(lobby'[g][i], seats'[s][g])
    BY <1>3, <2>1 DEF Seated
  <2>3. /\ lobby[g][i].state \notin {"over", "crashed"} /\ lobby'[g][i].state \notin Early
        /\ lobby'[g][i].state \notin Unsent /\ lobby'[g][i].state # "joining"
    BY <1>1, <1>3, <2>1 DEF Unsent, Early
  <2>4. \A t \in Server : \A h \in Game :
          \/ seats'[t][h] = seats[t][h]
          \/ /\ t = s /\ h = g /\ seats[t][h] \subseteq seats'[t][h]
             /\ seats[t][h] # {} \/ lobby'[g][i].state \notin Early
    BY <1>4, <1>6, <2>1
  <2>9. Stepped(g, i)
    BY <1>1, <1>3, <2>2, <2>3, <2>4 DEF Stepped, s
  <2> QED
    BY <1>1, <2>9, SteppedSeats
<1> QED
  BY <1>5, <1>6

\* Who overwrites an entry is not alone: it was stored by another lobby, or it was
\* another's end that made it disappear.
LEMMA OverwritingTakesTwo ==
  ASSUME MatchType, SeatInv, NEW g \in Game, NEW i \in DOMAIN lobby[g],
         seats[lobby[g][i].server][g] # {},
         lobby[g][i].state \in {"registering", "joining"}
  PROVE  Two(lobby[g], lobby[g][i].server)
<1>1. lobby[g][i].server \in Server
  BY RunParts DEF MatchType
<1>2. CASE lobby[g][i].state = "joining"
  BY <1>2 DEF SeatInv, OverlapsSeen
<1>3. CASE lobby[g][i].state = "registering"
  <2>1. PICK k \in DOMAIN lobby[g] : lobby[g][k].server = lobby[g][i].server /\ lobby[g][k].state \notin Early
    BY <1>1 DEF SeatInv, EntriesOwned
  <2>2. k # i
    BY <1>3, <2>1 DEF Early
  <2> QED
    BY <2>1, <2>2 DEF Two
<1> QED
  BY <1>2, <1>3

LEMMA StoreGameKeepsSeats ==
  ASSUME MatchType, GuestsFit, SeatInv, NEW g \in Game, NEW i \in DOMAIN lobby[g], StoreGame(g, i)
  PROVE  SeatInv'
<1> DEFINE s == lobby[g][i].server
           u == IF lobby[g][i].state = "registering" THEN Host ELSE lobby[g][i].guest
<1>1. /\ s \in Server
      /\ UNCHANGED <<masterVars, mail>>
      /\ seats' = [seats EXCEPT ![s][g] = {u}]
      /\ replaced' = IF seats[s][g] = {} THEN replaced ELSE replaced \cup {<<s, g>>}
  BY StoreGameParts DEF StoreGame, brokerVars
<1>2. PICK state \in {"waiting", "seating"} :
        /\ GoesTo(g, i, state)
        /\ lobby[g][i].state = IF state = "waiting" THEN "registering" ELSE "joining"
  BY StoreGameParts
<1>3. /\ \A h \in Game : h # g => lobby'[h] = lobby[h]
      /\ DOMAIN lobby'[g] = DOMAIN lobby[g]
      /\ \A k \in DOMAIN lobby[g] : k # i => lobby'[g][k] = lobby[g][k]
      /\ lobby'[g][i].server = s /\ lobby'[g][i].state = state
      /\ lobby'[g][i].guest = lobby[g][i].guest
  BY <1>2, GoesToKeeps DEF MatchType, LobbyState
<1> HIDE DEF s, u
<1>4. /\ seats'[s][g] = {u}
      /\ \A t \in Server : \A h \in Game : seats'[t][h] = seats[t][h] \/ (t = s /\ h = g)
  BY <1>1 DEF MatchType, LobbyType
<1>5. /\ lobby[g][i].state \notin {"over", "crashed"} /\ lobby'[g][i].state \notin Early
      /\ lobby'[g][i].state \notin Unsent /\ lobby'[g][i].state # "joining"
  BY <1>2, <1>3 DEF Unsent, Early
<1>6. CASE seats[s][g] # {}
  <2>1. Two(lobby[g], s)
    BY <1>2, <1>6, OverwritingTakesTwo DEF s
  <2>2. replaced' = replaced \cup {<<s, g>>} /\ <<s, g>> \in replaced'
    BY <1>1, <1>6
  <2>3. \A t \in Server : \A h \in Game :
          \/ seats'[t][h] = seats[t][h]
          \/ /\ t = s /\ h = g /\ <<t, h>> \in replaced'
             /\ seats[t][h] # {} \/ lobby'[g][i].state \notin Early
    BY <1>4, <1>6, <2>2
  <2>4. \A h \in Game : \A a \in Elements(mail'[AcceptBox(h)]) : a \in Elements(mail[AcceptBox(h)])
    BY <1>1
  <2>9. Stepped(g, i)
    BY <1>1, <1>3, <1>5, <2>1, <2>2, <2>3, <2>4 DEF Stepped, s
  <2> QED
    BY <1>1, <2>9, SteppedSeats
<1>7. CASE seats[s][g] = {}
  <2>1. replaced' = replaced
    BY <1>1, <1>7
  <2>2. \/ Ended(lobby[g], s)
        \/ <<s, g>> \in replaced'
        \/ Seated(lobby'[g][i], seats'[s][g])
    <3>1. CASE state = "waiting"
      <4>1. u = Host
        BY <1>2, <3>1 DEF u
      <4> QED
        BY <1>3, <1>4, <3>1, <4>1 DEF Seated
    <3>2. CASE state = "seating"
      <4>1. \/ Ended(lobby[g], s) \/ <<s, g>> \in replaced
            \/ Seated(lobby[g][i], seats[s][g])
        BY DEF SeatInv, PlayersSeated, s
      <4>2. ~Seated(lobby[g][i], seats[s][g])
        BY <1>2, <1>7, <3>2 DEF Seated
      <4> QED
        BY <2>1, <4>1, <4>2
    <3> QED
      BY <3>1, <3>2
  <2>3. \A t \in Server : \A h \in Game :
          \/ seats'[t][h] = seats[t][h]
          \/ /\ t = s /\ h = g /\ seats[t][h] \subseteq seats'[t][h]
             /\ seats[t][h] # {} \/ lobby'[g][i].state \notin Early
    BY <1>4, <1>5, <1>7
  <2>4. \A h \in Game : \A a \in Elements(mail'[AcceptBox(h)]) : a \in Elements(mail[AcceptBox(h)])
    BY <1>1
  <2>9. Stepped(g, i)
    BY <1>1, <1>3, <1>5, <2>1, <2>2, <2>3, <2>4 DEF Stepped, s
  <2> QED
    BY <1>1, <2>9, SteppedSeats
<1> QED
  BY <1>6, <1>7

LEMMA ListenKeepsSeats ==
  ASSUME MatchType, SeatInv, NEW g \in Game, NEW i \in DOMAIN lobby[g], Listen(g, i)
  PROVE  SeatInv'
<1> DEFINE s == lobby[g][i].server
<1>1. /\ GoesTo(g, i, "listening") /\ lobby[g][i].state = "waiting"
      /\ UNCHANGED <<masterVars, mail, seats, replaced>>
  BY DEF Listen, In, brokerVars
<1>2. /\ \A h \in Game : h # g => lobby'[h] = lobby[h]
      /\ DOMAIN lobby'[g] = DOMAIN lobby[g]
      /\ \A k \in DOMAIN lobby[g] : k # i => lobby'[g][k] = lobby[g][k]
      /\ lobby'[g][i].server = s /\ lobby'[g][i].state = "listening"
  BY <1>1, GoesToKeeps DEF MatchType, LobbyState
<1>3. \/ Ended(lobby[g], s) \/ <<s, g>> \in replaced' \/ Seated(lobby'[g][i], seats'[s][g])
  BY <1>1, <1>2 DEF Seated, SeatInv, PlayersSeated
<1>4. /\ lobby[g][i].state \notin {"over", "crashed"} /\ lobby'[g][i].state \notin Early
      /\ lobby'[g][i].state \notin Unsent /\ lobby'[g][i].state # "joining"
  BY <1>1, <1>2 DEF Unsent, Early
<1>5. /\ \A t \in Server : \A h \in Game : seats'[t][h] = seats[t][h]
      /\ \A h \in Game : \A a \in Elements(mail'[AcceptBox(h)]) : a \in Elements(mail[AcceptBox(h)])
  BY <1>1
<1> HIDE DEF s
<1>9. Stepped(g, i)
  BY <1>1, <1>2, <1>3, <1>4, <1>5 DEF Stepped, s
<1> QED
  BY <1>1, <1>9, SteppedSeats

LEMMA TakeJoinKeepsSeats ==
  ASSUME MatchType, SeatInv, NEW g \in Game, NEW i \in DOMAIN lobby[g], TakeJoin(g, i)
  PROVE  SeatInv'
<1> DEFINE m == Head(mail[JoinBox(g)])
           s == lobby[g][i].server
           state == AfterLookup(s, g, "seating", "joining")
           run == [lobby[g][i] EXCEPT !.state = state, !.guest = m.user]
<1>1. /\ MailShrinks /\ UNCHANGED <<masterVars, replaced>>
      /\ lobby[g][i].state = "listening"
      /\ run \in LobbyRun /\ run.state = state /\ run.guest = m.user /\ run.server = s
      /\ s \in Server /\ state \in Taken
      /\ lobby' = [lobby EXCEPT ![g] = [lobby[g] EXCEPT ![i] = run]]
      /\ seats' = [seats EXCEPT ![s][g] = GetClient(s, g, m.user)]
  BY TakeJoinStep DEF masterVars
<1> HIDE DEF m, run, state
<1>2. /\ \A h \in Game : h # g => lobby'[h] = lobby[h]
      /\ DOMAIN lobby'[g] = DOMAIN lobby[g]
      /\ \A k \in DOMAIN lobby[g] : k # i => lobby'[g][k] = lobby[g][k]
      /\ lobby'[g][i] = run
  BY <1>1, RunChanges DEF MatchType
<1> HIDE DEF s
<1>3. /\ seats'[s][g] = GetClient(s, g, m.user)
      /\ \A t \in Server : \A h \in Game : seats'[t][h] = seats[t][h] \/ (t = s /\ h = g)
  BY <1>1 DEF MatchType, LobbyType
<1>4. \A h \in Game : Elements(mail'[AcceptBox(h)]) \subseteq Elements(mail[AcceptBox(h)])
  BY <1>1, Names, Boxes DEF MailShrinks, Shrunk
<1>5. /\ lobby[g][i].state \notin {"over", "crashed"} /\ lobby'[g][i].state \notin Early
      /\ lobby'[g][i].state \notin Unsent /\ lobby'[g][i].server = s
  BY <1>1, <1>2 DEF Unsent, Early, Taken
<1>6. Ended(lobby[g], s) \/ <<s, g>> \in replaced \/ Host \in seats[s][g]
  BY <1>1 DEF SeatInv, PlayersSeated, Seated, s
<1>7. CASE seats[s][g] = {}
  <2>1. seats'[s][g] = seats[s][g]
    BY <1>3, <1>7 DEF GetClient
  <2>2. Two(lobby[g], s)
    <3>1. CASE <<s, g>> \in replaced
      BY <1>1, <3>1 DEF SeatInv, OverlapsSeen
    <3>2. CASE Ended(lobby[g], s)
      <4>1. PICK k \in DOMAIN lobby[g] : lobby[g][k].server = s /\ lobby[g][k].state \in {"over", "crashed"}
        BY <3>2 DEF Ended
      <4>2. k # i
        BY <1>1, <4>1
      <4> QED
        BY <4>1, <4>2 DEF Two, s
    <3> QED
      BY <1>6, <1>7, <3>1, <3>2
  <2>3. \A t \in Server : \A h \in Game : seats'[t][h] = seats[t][h]
    BY <1>3, <2>1
  <2>4. Ended(lobby[g], s) \/ <<s, g>> \in replaced'
    BY <1>1, <1>6, <1>7
  <2>9. Stepped(g, i)
    BY <1>1, <1>2, <1>4, <1>5, <2>2, <2>3, <2>4 DEF Stepped, s
  <2> QED
    BY <1>1, <2>9, SteppedSeats
<1>8. CASE seats[s][g] # {}
  <2>1. seats'[s][g] = seats[s][g] \cup {m.user} /\ state = "seating"
    BY <1>3, <1>8 DEF GetClient, AfterLookup, state
  <2>2. \/ Ended(lobby[g], s) \/ <<s, g>> \in replaced' \/ Seated(lobby'[g][i], seats'[s][g])
    BY <1>1, <1>2, <1>6, <2>1 DEF Seated
  <2>3. \A t \in Server : \A h \in Game :
          \/ seats'[t][h] = seats[t][h]
          \/ /\ t = s /\ h = g /\ seats[t][h] \subseteq seats'[t][h]
             /\ seats[t][h] # {} \/ lobby'[g][i].state \notin Early
    BY <1>3, <1>8, <2>1
  <2>4. lobby'[g][i].state # "joining"
    BY <1>1, <1>2, <2>1
  <2>9. Stepped(g, i)
    BY <1>1, <1>2, <1>4, <1>5, <2>2, <2>3, <2>4 DEF Stepped, s
  <2> QED
    BY <1>1, <2>9, SteppedSeats
<1> QED
  BY <1>7, <1>8

LEMMA AnswerJoinKeepsSeats ==
  ASSUME MatchType, GuestsFit, SeatInv, NEW g \in Game, NEW i \in DOMAIN lobby[g], AnswerJoin(g, i)
  PROVE  SeatInv'
<1> DEFINE s == lobby[g][i].server
<1>1. /\ GoesTo(g, i, "full") /\ lobby[g][i].state = "seating"
      /\ UNCHANGED <<masterVars, seats, replaced>>
      /\ \A b \in Box : b # JoinedBox(g) => mail'[b] = mail[b]
  BY AnswerJoinStep
<1>2. /\ \A h \in Game : h # g => lobby'[h] = lobby[h]
      /\ DOMAIN lobby'[g] = DOMAIN lobby[g]
      /\ \A k \in DOMAIN lobby[g] : k # i => lobby'[g][k] = lobby[g][k]
      /\ lobby'[g][i].server = s /\ lobby'[g][i].state = "full"
      /\ lobby'[g][i].guest = lobby[g][i].guest
  BY <1>1, GoesToKeeps DEF MatchType, LobbyState
<1>3. \/ Ended(lobby[g], s) \/ <<s, g>> \in replaced' \/ Seated(lobby'[g][i], seats'[s][g])
  BY <1>1, <1>2 DEF Seated, SeatInv, PlayersSeated
<1>4. /\ lobby[g][i].state \notin {"over", "crashed"} /\ lobby'[g][i].state \notin Early
      /\ lobby'[g][i].state \notin Unsent /\ lobby'[g][i].state # "joining"
  BY <1>1, <1>2 DEF Unsent, Early
<1>5. \A h \in Game : mail'[AcceptBox(h)] = mail[AcceptBox(h)]
  BY <1>1, Names, Boxes
<1>6. \A t \in Server : \A h \in Game : seats'[t][h] = seats[t][h]
  BY <1>1
<1> HIDE DEF s
<1>9. Stepped(g, i)
  BY <1>1, <1>2, <1>3, <1>4, <1>5, <1>6 DEF Stepped, s
<1> QED
  BY <1>1, <1>9, SteppedSeats

LEMMA LobbyKeepsSeats ==
  ASSUME MatchType, GuestsFit, SeatInv, NEW g \in Game, NEW i \in DOMAIN lobby[g], StartLobby(g, i)
  PROVE  SeatInv'
BY AnnounceKeepsSeats, RegisterKeepsSeats, StoreGameKeepsSeats, ListenKeepsSeats,
   TakeJoinKeepsSeats, AnswerJoinKeepsSeats DEF StartLobby

\* What the end of a lobby, or of a server, takes away from the games.
Clears(s, games) ==
  /\ LobbiesKeep /\ UNCHANGED <<masterVars, mail, replaced>>
  /\ \A h \in Game : DOMAIN lobby'[h] = DOMAIN lobby[h]
  /\ \A h \in Game : \A k \in DOMAIN lobby[h] :
       IF lobby[h][k].server = s /\ h \in games
       THEN Ended(lobby'[h], s) \/ lobby'[h][k].state \in Unsent
       ELSE lobby'[h][k] = lobby[h][k]
  /\ \A t \in Server, h \in Game : seats'[t][h] # {} => seats[t][h] # {}
  /\ \A t \in Server : \A h \in Game : t # s \/ h \notin games => seats'[t][h] = seats[t][h]

LEMMA EndLobbyClears ==
  ASSUME MatchType, GuestsFit, NEW g \in Game, NEW i \in DOMAIN lobby[g], EndLobby(g, i)
  PROVE  Clears(lobby[g][i].server, {g})
<1> DEFINE s == lobby[g][i].server
<1>1. GoesTo(g, i, "over") /\ seats' = [seats EXCEPT ![s][g] = {}] /\ UNCHANGED <<masterVars, mail, replaced>>
  BY DEF EndLobby, brokerVars
<1>2. LobbiesKeep
  BY RegisterStep DEF Quiet
<1>3. /\ \A h \in Game : DOMAIN lobby'[h] = DOMAIN lobby[h]
      /\ \A h \in Game : h # g => lobby'[h] = lobby[h]
      /\ \A k \in DOMAIN lobby[g] : k # i => lobby'[g][k] = lobby[g][k]
      /\ lobby'[g][i].server = s /\ lobby'[g][i].state = "over"
  BY <1>1, GoesToKeeps DEF MatchType, LobbyState
<1>4. s \in Server
  BY RunParts DEF MatchType
<1>5. Ended(lobby'[g], s)
  BY <1>3 DEF Ended
<1>6. \A t \in Server : \A h \in Game : t # s \/ h \notin {g} => seats'[t][h] = seats[t][h]
  BY <1>1, <1>4 DEF MatchType, LobbyType
<1>7. \A h \in Game : \A k \in DOMAIN lobby[h] :
        lobby[h][k].server # s \/ h \notin {g} => lobby'[h][k] = lobby[h][k]
  BY <1>3
<1>8. \A t \in Server, h \in Game : seats'[t][h] # {} => seats[t][h] # {}
  BY <1>1, <1>4 DEF MatchType, LobbyType
<1> QED
  BY <1>1, <1>2, <1>3, <1>5, <1>6, <1>7, <1>8 DEF Clears

LEMMA CrashClears ==
  ASSUME MatchType, NEW s \in Server, Crash(s)
  PROVE  Clears(s, Game)
<1>1. /\ LobbiesKeep
      /\ \A h \in Game : DOMAIN lobby'[h] = DOMAIN lobby[h]
      /\ \A h \in Game : \A k \in DOMAIN lobby[h] :
           IF lobby[h][k].server = s THEN lobby'[h][k].state \in Dead
                                     ELSE lobby'[h][k] = lobby[h][k]
  BY CrashKeeps DEF MatchType
<1>2. UNCHANGED <<masterVars, mail, replaced>> /\ \A t \in Server : t # s => seats'[t] = seats[t]
  BY DEF Crash, MatchType, LobbyType
<1>3. \A h \in Game : \A k \in DOMAIN lobby[h] : lobby[h][k].server = s =>
        Ended(lobby'[h], s) \/ lobby'[h][k].state \in Unsent
  BY <1>1 DEF Ended, Dead, Unsent, LobbiesKeep, Keeps
<1>4. \A h \in Game : seats'[s][h] = {}
  BY DEF Crash, MatchType, LobbyType
<1>5. \A t \in Server, h \in Game : seats'[t][h] # {} => seats[t][h] # {}
  BY <1>2, <1>4
<1> QED
  BY <1>1, <1>2, <1>3, <1>5 DEF Clears

LEMMA ClearKeepsSeats ==
  ASSUME MatchType, SeatInv, NEW s \in Server, NEW games, Clears(s, games)
  PROVE  SeatInv'
<1>1. ASSUME NEW h \in Game, NEW k \in DOMAIN lobby'[h]
      PROVE  \/ Ended(lobby'[h], lobby'[h][k].server)
             \/ <<lobby'[h][k].server, h>> \in replaced'
             \/ Seated(lobby'[h][k], seats'[lobby'[h][k].server][h])
  <2>1. k \in DOMAIN lobby[h] /\ lobby'[h][k].server = lobby[h][k].server
    BY DEF Clears, LobbiesKeep, Keeps
  <2>2. CASE lobby[h][k].server = s /\ h \in games
    BY <2>1, <2>2 DEF Clears, Seated, Unsent
  <2>3. CASE ~(lobby[h][k].server = s /\ h \in games)
    <3>1. lobby'[h][k] = lobby[h][k]
      BY <2>1, <2>3 DEF Clears
    <3>2. lobby[h][k].server \in Server
      BY <2>1, RunParts DEF MatchType
    <3>3. seats'[lobby[h][k].server][h] = seats[lobby[h][k].server][h]
      BY <2>3, <3>2 DEF Clears
    <3>4. \A t : Ended(lobby[h], t) => Ended(lobby'[h], t)
      BY EndedStays DEF Clears, LobbiesKeep, Keeps
    <3>5. replaced' = replaced
      BY DEF Clears
    <3> QED
      BY <2>1, <3>1, <3>3, <3>4, <3>5 DEF SeatInv, PlayersSeated
  <2> QED
    BY <2>2, <2>3
<1>2. PlayersSeated'
  BY <1>1 DEF PlayersSeated
<1>3. \A h \in Game : \A k \in DOMAIN lobby[h] :
        /\ k \in DOMAIN lobby'[h] /\ lobby'[h][k].server = lobby[h][k].server
        /\ lobby'[h][k].state \in Unsent => lobby[h][k].state \in Unsent
  BY DEF Clears, LobbiesKeep, Keeps
<1>4. AcceptancesSent'
  BY <1>3, AcceptancesStay DEF SeatInv, masterVars, Clears
<1>5. EntriesOwned' /\ OverlapsSeen'
  BY LobbiesKeepOverlaps DEF Clears
<1> QED
  BY <1>2, <1>4, <1>5 DEF SeatInv

LEMMA EndKeepsSeats ==
  ASSUME MatchType, GuestsFit, SeatInv,
         \/ \E g \in Game : \E i \in DOMAIN lobby[g] : EndLobby(g, i)
         \/ \E s \in Server : Crash(s)
  PROVE  SeatInv'
<1>1. \A g \in Game : \A i \in DOMAIN lobby[g] : lobby[g][i].server \in Server
  BY RunParts DEF MatchType
<1> QED
  BY <1>1, EndLobbyClears, CrashClears, ClearKeepsSeats

-----------------------------------------------------------------------------
(***************************************************************************)
(* The invariant of joins, answers and places.                             *)
(***************************************************************************)
FitInv == MatchType /\ JoinInv /\ SeatInv

LEMMA FitInit ==
  ASSUME Init
  PROVE  FitInv
<1>1. \A b \in Box : mail[b] = <<>> /\ mail[b] \in Seq(Message) /\ Elements(mail[b]) = {} /\ Distinct(mail[b])
  BY EmptyParts DEF Init
<1>2. MasterType
  BY Names DEF Init, MasterType, ListenerState
<1>3. MailType
  <2>1. mail \in [Box -> Seq(Message)]
    BY EmptyParts DEF Init
  <2> QED
    BY <1>1, <2>1, Boxes DEF MailType
<1>4. WorkerType
  BY DEF Init, WorkerType, WorkerState
<1>5. LobbyType
  BY DEF Init, LobbyType
<1>6. \A g \in Game : lobby[g] = <<>> /\ DOMAIN lobby[g] = {}
  BY DEF Init
<1>7. \A j \in Join : stage[j] = "idle" /\ answer[j] = None
  BY Names DEF Init
<1>8. \A n \in Name : /\ Elements(mail[JoinBox(n)]) = {} /\ Distinct(mail[JoinBox(n)])
                      /\ Elements(mail[JoinedBox(n)]) = {} /\ Distinct(mail[JoinedBox(n)])
                      /\ Elements(mail[AcceptBox(n)]) = {}
  BY <1>1, Boxes
<1>9. GuestsFit /\ JoinsFit /\ TokensFit
  BY <1>6, <1>8 DEF GuestsFit, JoinsFit, TokensFit
<1>10. AnswersSent /\ CompanyFits
  BY <1>7 DEF AnswersSent, CompanyFits, Asked
<1>11. SeatInv
  <2>1. \A g \in Game : answer[g] = None
    BY Names DEF Init
  <2>2. replaced = {} /\ \A s \in Server, g \in Game : seats[s][g] = {}
    BY DEF Init
  <2>3. PlayersSeated /\ AcceptancesSent
    BY <1>6, <1>8, <2>1, Names DEF PlayersSeated, AcceptancesSent
  <2> QED
    BY <1>6, <2>2, <2>3 DEF SeatInv, EntriesOwned, OverlapsSeen
<1> QED
  BY <1>2, <1>3, <1>4, <1>5, <1>9, <1>10, <1>11 DEF FitInv, MatchType, JoinInv

LEMMA FitStep ==
  ASSUME FitInv, [Next]_vars
  PROVE  FitInv'
<1> USE DEF FitInv
<1>1. ASSUME NEW g \in Game, AskCreate(g)
      PROVE  FitInv'
  BY <1>1, AskCreateStep, QuietKeepsJoins, MasterKeepsSeats
<1>2. ASSUME NEW j \in Join, AskJoin(j)
      PROVE  FitInv'
  BY <1>2, AskJoinStep, AskJoinKeepsJoins, MasterKeepsSeats
<1>3. ASSUME NEW r \in Request, Subscribe(r)
      PROVE  FitInv'
  BY <1>3, SubscribeStep, QuietKeepsJoins, MasterKeepsSeats
<1>4. ASSUME NEW r \in Request, Receive(r)
      PROVE  FitInv'
  <2>1. JoinInv'
    BY <1>4, ReceiveIsQuiet, QuietKeepsJoins, ReceiveKeepsJoins DEF Request
  <2> QED
    BY <1>4, <2>1, ReceiveStep, MasterKeepsSeats
<1>5. CASE \/ \E r \in Request : Swallow(r)
           \/ \E g \in Game : \E i \in DOMAIN lobby[g] : SwallowJoin(g, i)
           \/ \E b \in Box : Expire(b)
  BY <1>5, LosesMail, QuietKeepsJoins, BrokerKeepsSeats
<1>6. ASSUME NEW s \in Server, TakeCreate(s) \/ Ack(s) \/ LoseConnection(s)
      PROVE  FitInv'
  BY <1>6, WorkerStep, QuietKeepsJoins, BrokerKeepsSeats
<1>7. ASSUME NEW s \in Server, AttemptLobby(s)
      PROVE  FitInv'
  BY <1>7, AttemptStep, QuietKeepsJoins, AttemptKeepsSeats
<1>8. ASSUME NEW s \in Server, Crash(s)
      PROVE  FitInv'
  BY <1>8, CrashStep, QuietKeepsJoins, EndKeepsSeats DEF JoinInv
<1>9. ASSUME NEW g \in Game, NEW i \in DOMAIN lobby[g], StartLobby(g, i)
      PROVE  FitInv'
  <2>1. SeatInv'
    BY <1>9, LobbyKeepsSeats DEF JoinInv
  <2>2. CASE Announce(g, i)
    BY <2>1, <2>2, AnnounceStep, QuietKeepsJoins
  <2>3. CASE Register(g, i) \/ StoreGame(g, i) \/ Listen(g, i)
    BY <2>1, <2>3, RegisterStep, QuietKeepsJoins DEF JoinInv
  <2>4. CASE TakeJoin(g, i)
    BY <2>1, <2>4, TakeJoinStep, TakeJoinKeepsJoins
  <2>5. CASE AnswerJoin(g, i)
    BY <2>1, <2>5, AnswerJoinStep, AnswerJoinKeepsJoins DEF JoinInv
  <2> QED
    BY <1>9, <2>2, <2>3, <2>4, <2>5 DEF StartLobby
<1>10. ASSUME NEW g \in Game, NEW i \in DOMAIN lobby[g], EndLobby(g, i)
       PROVE  FitInv'
  BY <1>10, RegisterStep, QuietKeepsJoins, EndKeepsSeats DEF JoinInv
<1>11. CASE UNCHANGED vars
  BY <1>11, IdleStep, QuietKeepsJoins, BrokerKeepsSeats
<1> HIDE DEF FitInv
<1> QED
  BY <1>1, <1>2, <1>3, <1>4, <1>5, <1>6, <1>7, <1>8, <1>9, <1>10, <1>11
     DEF Next, Handler, WorkerLoop, Idle

\* Messages, answers, lobbies and the registry fit together at all times,
\* however many requests, servers and faults there are: no two joins share an
\* answer, none is in two places at once, and who was let in has his place.
THEOREM FitInvariant == Spec => []FitInv
<1>1. Init => FitInv
  BY FitInit
<1>2. FitInv /\ [Next]_vars => FitInv'
  BY FitStep
<1> QED
  BY <1>1, <1>2, PTL DEF Spec

\* The guests of a game come from its lobbies, one from each.
LEMMA GuestsFromLobbies ==
  ASSUME MatchType, JoinInv, NEW g \in Game
  PROVE  Cardinality({j \in Join : answer[j] # None /\ answer[j].game = g}) <= Len(lobby[g])
<1> DEFINE G == {j \in Join : answer[j] # None /\ answer[j].game = g}
           D == DOMAIN lobby[g]
           f == [j \in G |-> CHOOSE i \in D : lobby[g][i].guest = answer[j].user]
<1>1. \A j \in G : SentBy(lobby, answer[j], g)
  <2> TAKE j \in G
  <2>1. stage[j] = "answered" /\ SentBy(lobby, answer[j], target[j])
    BY DEF JoinInv, AnswersSent
  <2> QED
    BY <2>1 DEF SentBy
<1>2. \A j \in G : f[j] \in D /\ lobby[g][f[j]].guest = answer[j].user
  <2> TAKE j \in G
  <2>1. \E i \in D : lobby[g][i].guest = answer[j].user
    BY <1>1 DEF SentBy
  <2> QED
    BY <2>1
<1>3. f \in [G -> D]
  BY <1>2
<1> HIDE DEF f
<1>4. \A j, k \in G : f[j] = f[k] => j = k
  BY <1>2 DEF JoinInv, AnswersSent
<1>5. f \in Injection(G, D)
  BY <1>3, <1>4 DEF Injection, IsInjective
<1>6. D = 1..Len(lobby[g]) /\ Len(lobby[g]) \in Nat
  BY RunParts DEF MatchType
<1>7. IsFiniteSet(D) /\ Cardinality(D) = Len(lobby[g])
  <2>1. PICK n \in Nat : n = Len(lobby[g])
    BY <1>6
  <2>2. IsFiniteSet(1..n) /\ Cardinality(1..n) = n
    BY FS_Interval
  <2> QED
    BY <1>6, <2>1, <2>2
<1>8. Cardinality(G) <= Cardinality(D)
  BY <1>5, <1>7, FS_Injection
<1> QED
  BY <1>7, <1>8

\* A join is only ever answered for its game, with a token of its own or of its
\* company, no two with the same, and no more of them than the game has lobbies,
\* for any number of joins and lobbies, and whatever is lost on the way.
THEOREM AnswersAlwaysFit == Spec => []AnswersFit
<1>1. FitInv => AnswersFit
  <2> SUFFICES ASSUME FitInv PROVE AnswersFit
    OBVIOUS
  <2>1. MatchType /\ JoinInv
    BY DEF FitInv
  <2>2. \A j \in Join : answer[j] # None =>
          answer[j].game = target[j] /\ answer[j].user \in {j} \cup met[j]
    BY <2>1 DEF JoinInv, AnswersSent, SentBy, CompanyFits
  <2>3. \A j, k \in Join : answer[j] # None /\ answer[k] # None /\ j # k => answer[j].user # answer[k].user
    BY <2>1 DEF JoinInv, AnswersSent
  <2>4. \A g \in Game : Cardinality({j \in Join : answer[j] # None /\ answer[j].game = g}) <= Len(lobby[g])
    BY <2>1, GuestsFromLobbies
  <2> QED
    BY <2>2, <2>3, <2>4 DEF AnswersFit
<1> QED
  BY <1>1, FitInvariant, PTL

-----------------------------------------------------------------------------
(***************************************************************************)
(* Counting create requests.                                               *)
(***************************************************************************)
LEMMA AtIsFinite ==
  ASSUME NEW q \in Seq(Game), NEW g
  PROVE  IsFiniteSet(At(q, g)) /\ Cardinality(At(q, g)) \in Nat
<1>1. PICK n \in Nat : DOMAIN q = 1..n
  BY LenProperties
<1>2. IsFiniteSet(1..n)
  BY FS_Interval
<1>3. At(q, g) \in SUBSET (1..n)
  BY <1>1 DEF At
<1>4. IsFiniteSet(At(q, g))
  BY <1>2, <1>3, FS_Subset
<1> QED
  BY <1>4, FS_CardinalityType

LEMMA AtAppend ==
  ASSUME NEW q \in Seq(Game), NEW h \in Game, NEW g
  PROVE  Cardinality(At(Append(q, h), g)) = Cardinality(At(q, g)) + (IF h = g THEN 1 ELSE 0)
<1> DEFINE n == Len(q)
           a == Append(q, h)
<1>1. /\ n \in Nat /\ DOMAIN q = 1..n /\ DOMAIN a = 1..(n + 1)
      /\ a[n + 1] = h /\ \A i \in 1..n : a[i] = q[i]
  BY LenProperties
<1> HIDE DEF n, a
<1>2. \A i \in DOMAIN a : i \in DOMAIN q \/ i = n + 1
  BY <1>1
<1>3. DOMAIN q \subseteq DOMAIN a /\ n + 1 \in DOMAIN a /\ n + 1 \notin DOMAIN q
  BY <1>1
<1>4. \A i \in DOMAIN q : a[i] = q[i]
  BY <1>1
<1>5. At(a, g) = IF h = g THEN At(q, g) \cup {n + 1} ELSE At(q, g)
  BY <1>1, <1>2, <1>3, <1>4 DEF At
<1>6. n + 1 \notin At(q, g)
  BY <1>3 DEF At
<1>7. IsFiniteSet(At(q, g)) /\ Cardinality(At(q, g)) \in Nat
  BY AtIsFinite
<1>8. Cardinality(At(q, g) \cup {n + 1}) = Cardinality(At(q, g)) + 1
  BY <1>6, <1>7, FS_AddElement
<1>9. Cardinality(At(a, g)) = Cardinality(At(q, g)) + (IF h = g THEN 1 ELSE 0)
  BY <1>5, <1>7, <1>8
<1> QED
  BY <1>9 DEF a

\* Every element of a tail was one place further on.
LEMMA AtTail ==
  ASSUME NEW q \in Seq(Game), q # <<>>, NEW g
  PROVE  Cardinality(At(q, g)) = Cardinality(At(Tail(q), g)) + (IF Head(q) = g THEN 1 ELSE 0)
<1> DEFINE t == Tail(q)
           S == At(t, g)
           T == {i \in At(q, g) : i # 1}
           f == [i \in S |-> i + 1]
<1>1. /\ Len(q) \in Nat \ {0} /\ DOMAIN q = 1..Len(q) /\ Head(q) = q[1]
      /\ t \in Seq(Game) /\ Len(t) = Len(q) - 1 /\ DOMAIN t = 1..Len(t)
      /\ \A i \in 1..Len(t) : t[i] = q[i + 1]
  BY EmptySeq, HeadTailProperties, LenProperties
<1> HIDE DEF t
<1>2. \A i \in DOMAIN t : i \in Nat /\ i + 1 \in DOMAIN q /\ i + 1 # 1 /\ t[i] = q[i + 1]
  BY <1>1
<1>3. \A k \in DOMAIN q : k = 1 \/ (k - 1 \in DOMAIN t /\ (k - 1) + 1 = k)
  BY <1>1
<1>4. \A i \in S : i \in Nat /\ i + 1 \in T
  BY <1>2 DEF At
<1>5. \A k \in T : k - 1 \in S /\ (k - 1) + 1 = k
  BY <1>2, <1>3 DEF At
<1>6. f \in Bijection(S, T)
  <2>1. f \in [S -> T]
    BY <1>4
  <2>2. \A i, k \in S : f[i] = f[k] => i = k
    BY <1>4
  <2>3. \A k \in T : \E i \in S : f[i] = k
    BY <1>5
  <2> HIDE DEF f, S, T
  <2> QED
    BY <2>1, <2>2, <2>3 DEF Bijection, Injection, IsInjective, Surjection
<1>7. IsFiniteSet(S) /\ Cardinality(S) \in Nat
  BY <1>1, AtIsFinite
<1> HIDE DEF f, S
<1>8. IsFiniteSet(T) /\ Cardinality(T) = Cardinality(S)
  BY <1>6, <1>7, FS_Bijection DEF ExistsBijection
<1>9. 1 \in DOMAIN q
  BY <1>1
<1>10. At(q, g) = IF Head(q) = g THEN T \cup {1} ELSE T
  BY <1>1, <1>9 DEF At
<1>11. 1 \notin T
  OBVIOUS
<1> HIDE DEF T
<1>12. Cardinality(T \cup {1}) = Cardinality(T) + 1
  BY <1>8, <1>11, FS_AddElement
<1>13. Cardinality(At(q, g)) = Cardinality(S) + (IF Head(q) = g THEN 1 ELSE 0)
  BY <1>7, <1>8, <1>10, <1>12
<1> QED
  BY <1>13 DEF S, t

LEMMA AtCons ==
  ASSUME NEW q \in Seq(Game), NEW h \in Game, NEW g
  PROVE  Cardinality(At(<<h>> \o q, g)) = Cardinality(At(q, g)) + (IF h = g THEN 1 ELSE 0)
<1> DEFINE c == <<h>> \o q
<1>1. c \in Seq(Game) /\ c # <<>> /\ Head(c) = h /\ Tail(c) = q
  <2>1. c \in Seq(Game) /\ Len(c) = Len(q) + 1 /\ Len(q) \in Nat
    BY ConcatProperties, LenProperties
  <2>2. c # <<>>
    BY <2>1, EmptySeq
  <2>3. Head(c) = h
    BY <2>1, <2>2
  <2>4. Tail(c) = q
    OBVIOUS
  <2> QED
    BY <2>1, <2>2, <2>3, <2>4
<1> HIDE DEF c
<1>2. Cardinality(At(c, g)) = Cardinality(At(q, g)) + (IF h = g THEN 1 ELSE 0)
  BY <1>1, AtTail
<1> QED
  BY <1>2 DEF c

\* One worker turns to something else.
LEMMA HoldingChanges ==
  ASSUME WorkerType, NEW s \in Server, NEW w, worker' = [worker EXCEPT ![s] = w],
         NEW g \in Game, IsFiniteSet(Holding(g))
  PROVE  LET before == IF s \in Holding(g) THEN 1 ELSE 0
             after == IF w = [at |-> "holding", game |-> g] THEN 1 ELSE 0
         IN  /\ IsFiniteSet(Holding(g)') /\ Cardinality(Holding(g)) \in Nat
             /\ Cardinality(Holding(g)') = (Cardinality(Holding(g)) - before) + after
<1> DEFINE H == Holding(g)
           R == H \ {s}
<1>1. /\ worker'[s] = w /\ \A t \in Server : t # s => worker'[t] = worker[t]
  BY DEF WorkerType
<1>2. Holding(g)' = IF w = [at |-> "holding", game |-> g] THEN R \cup {s} ELSE R
  BY <1>1 DEF Holding
<1>3. IsFiniteSet(H) /\ Cardinality(H) \in Nat
  BY FS_CardinalityType
<1> HIDE DEF H
<1>4. IsFiniteSet(R) /\ Cardinality(R) = IF s \in H THEN Cardinality(H) - 1 ELSE Cardinality(H)
  BY <1>3, FS_RemoveElement
<1>5. s \notin R
  OBVIOUS
<1> HIDE DEF R
<1>6. IsFiniteSet(R \cup {s}) /\ Cardinality(R \cup {s}) = Cardinality(R) + 1
  BY <1>4, <1>5, FS_AddElement
<1>7. IsFiniteSet(R) /\ Cardinality(R) \in Nat
  BY <1>4, FS_CardinalityType
<1> QED
  BY <1>2, <1>3, <1>4, <1>6, <1>7 DEF H

LEMMA CopiesParts ==
  ASSUME MatchType, NEW g \in Game, IsFiniteSet(Holding(g))
  PROVE  /\ Cardinality(Waiting(g)) \in Nat /\ Cardinality(Holding(g)) \in Nat /\ Len(lobby[g]) \in Nat
         /\ redelivered[g] \in Nat
         /\ Copies(g) = Cardinality(Waiting(g)) + Cardinality(Holding(g)) + Len(lobby[g])
         /\ Copies(g) \in Nat
<1>1. Cardinality(Waiting(g)) \in Nat
  BY AtIsFinite DEF Waiting, MatchType, WorkerType
<1>2. Cardinality(Holding(g)) \in Nat
  BY FS_CardinalityType
<1>3. Len(lobby[g]) \in Nat /\ redelivered[g] \in Nat
  BY RunParts DEF MatchType, WorkerType
<1>4. Copies(g) = Cardinality(Waiting(g)) + Cardinality(Holding(g)) + Len(lobby[g])
  BY DEF Copies, Waiting, Holding, At
<1> QED
  BY <1>1, <1>2, <1>3, <1>4

LEMMA AliveParts ==
  ASSUME MatchType, NEW g \in Game
  PROVE  /\ Alive(lobby[g]) => Len(lobby[g]) > 0
         /\ \A s : Begun(lobby[g], s) => Alive(lobby[g]) /\ Len(lobby[g]) > 0
<1>1. DOMAIN lobby[g] = 1..Len(lobby[g]) /\ Len(lobby[g]) \in Nat
  BY RunParts DEF MatchType
<1>2. Alive(lobby[g]) => Len(lobby[g]) > 0
  BY <1>1 DEF Alive
<1>3. \A s : Begun(lobby[g], s) => Alive(lobby[g])
  BY DEF Begun, Alive
<1> QED
  BY <1>2, <1>3

\* A step that takes no lobby's request back to the queue.
GoOn ==
  \A g \in Game : /\ Alive(lobby[g]) => Alive(lobby'[g])
                  /\ \A s \in Server : Begun(lobby[g], s) => Begun(lobby'[g], s)

LEMMA RunsGoOn ==
  ASSUME \A g \in Game : \A i \in DOMAIN lobby[g] :
           /\ i \in DOMAIN lobby'[g] /\ lobby'[g][i].server = lobby[g][i].server
           /\ lobby'[g][i].state = "returned" => lobby[g][i].state = "returned"
  PROVE  GoOn
<1>1. \A g \in Game : Alive(lobby[g]) => Alive(lobby'[g])
  BY DEF Alive
<1>2. \A g \in Game : \A s \in Server : Begun(lobby[g], s) => Begun(lobby'[g], s)
  BY DEF Begun
<1> QED
  BY <1>1, <1>2 DEF GoOn

\* Who holds a request has a copy of it, and who has started a lobby has that.
LEMMA KeptHasCopy ==
  ASSUME MatchType, CopyInv, NEW s \in Server, NEW g \in Game, unacked[s] = g
  PROVE  /\ worker[s].game = g
         /\ worker[s].at = "holding" => s \in Holding(g)
         /\ worker[s].at # "holding" => worker[s].at = "started" /\ Begun(lobby[g], s)
         /\ Copies(g) >= 1 /\ stage[g] # "idle"
<1>1. worker[s].at \in {"holding", "started"} /\ worker[s].game = g
  BY Names DEF CopyInv, KeptIsHeld
<1>2. worker[s] = [at |-> worker[s].at, game |-> worker[s].game]
  BY DEF MatchType, WorkerType
<1>3. worker[s].at = "holding" => s \in Holding(g)
  BY <1>1, <1>2 DEF Holding
<1>4. worker[s].at = "started" => Begun(lobby[g], s) /\ Len(lobby[g]) > 0
  BY <1>1, AliveParts DEF CopyInv, KeptIsHeld
<1>5. IsFiniteSet(Holding(g))
  BY DEF CopyInv, Counted
<1>6. s \in Holding(g) => Cardinality(Holding(g)) # 0
  BY <1>5, FS_EmptySet
<1>7. Copies(g) >= 1
  BY <1>1, <1>3, <1>4, <1>5, <1>6, CopiesParts
<1>8. stage[g] # "idle"
  BY <1>7 DEF CopyInv, Counted
<1> QED
  BY <1>1, <1>3, <1>4, <1>7, <1>8

\* Steps that neither move a request nor start a lobby.
LEMMA SameCopies ==
  ASSUME MatchType, CopyInv, UNCHANGED <<createQueue, workerVars>>, GoOn,
         \A g \in Game : Len(lobby'[g]) = Len(lobby[g]) /\ (stage'[g] = "idle" <=> stage[g] = "idle")
  PROVE  CopyInv'
<1>1. UNCHANGED <<createQueue, worker, unacked, redelivered>>
  BY DEF workerVars
<1>2. \A s \in Server : worker[s].at = "started" => worker[s].game \in Game
  BY DEF MatchType, WorkerType
<1>3. KeptIsHeld'
  BY <1>1, <1>2 DEF CopyInv, KeptIsHeld, GoOn
<1>4. ASSUME NEW g \in Game
      PROVE  /\ IsFiniteSet(Holding(g)')
             /\ IF stage'[g] = "idle" THEN Copies(g)' = 0
                                      ELSE Copies(g)' <= 1 + redelivered'[g] /\ Safe(g)'
  <2>1. Holding(g)' = Holding(g) /\ Waiting(g)' = Waiting(g)
    BY <1>1 DEF Holding, Waiting, At
  <2>2. Copies(g)' = Copies(g)
    BY <1>1 DEF Copies
  <2>3. Safe(g) => Safe(g)'
    BY <1>1, <2>1 DEF Safe, GoOn
  <2> QED
    BY <1>1, <2>1, <2>2, <2>3 DEF CopyInv, Counted
<1>5. Counted'
  BY <1>4 DEF Counted
<1> QED
  BY <1>3, <1>5 DEF CopyInv

\* What is left to show of the other steps.
LEMMA NewCopies ==
  ASSUME MatchType, CopyInv,
         \A s \in Server : unacked'[s] # None =>
           worker'[s].at \in {"holding", "started"} /\ worker'[s].game = unacked'[s],
         \A s \in Server : worker'[s].at = "started" => Begun(lobby'[worker'[s].game], s),
         \A g \in Game :
           LET copies == Cardinality(Waiting(g)') + Cardinality(Holding(g)') + Len(lobby'[g])
           IN  /\ IsFiniteSet(Holding(g)')
               /\ IF stage'[g] = "idle" THEN copies = 0
                                        ELSE copies <= 1 + redelivered'[g] /\ Safe(g)'
  PROVE  CopyInv'
<1>1. KeptIsHeld'
  BY DEF KeptIsHeld
<1>2. \A g \in Game : Copies(g)' = Cardinality(Waiting(g)') + Cardinality(Holding(g)') + Len(lobby'[g])
  BY DEF Copies, Waiting, Holding, At
<1>3. Counted'
  BY <1>2 DEF Counted
<1> QED
  BY <1>1, <1>3 DEF CopyInv

LEMMA AskCreateCopies ==
  ASSUME MatchType, CopyInv, NEW g \in Game, AskCreate(g)
  PROVE  CopyInv'
<1>1. /\ stage[g] = "idle" /\ stage' = [stage EXCEPT ![g] = "asked"]
      /\ createQueue' = Append(createQueue, g)
      /\ UNCHANGED <<worker, unacked, redelivered, lobby>>
  BY DEF AskCreate, Ask, workerVars, lobbyVars
<1>2. \A s \in Server : worker[s].at = "started" => worker[s].game \in Game
  BY DEF MatchType, WorkerType
<1>3. ASSUME NEW h \in Game
      PROVE  /\ IsFiniteSet(Holding(h)')
             /\ LET copies == Cardinality(Waiting(h)') + Cardinality(Holding(h)') + Len(lobby'[h])
                IN  IF stage'[h] = "idle" THEN copies = 0
                                          ELSE copies <= 1 + redelivered'[h] /\ Safe(h)'
  <2>1. Holding(h)' = Holding(h) /\ IsFiniteSet(Holding(h))
    BY <1>1 DEF Holding, CopyInv, Counted
  <2>2. Cardinality(Waiting(h)') = Cardinality(Waiting(h)) + (IF g = h THEN 1 ELSE 0)
    BY <1>1, AtAppend DEF Waiting, MatchType, WorkerType
  <2>3. stage'[h] = IF h = g THEN "asked" ELSE stage[h]
    BY <1>1, Names DEF MatchType, MasterType
  <2>4. IF stage[h] = "idle" THEN Copies(h) = 0
                             ELSE Copies(h) <= 1 + redelivered[h] /\ Safe(h)
    BY DEF CopyInv, Counted
  <2>5. /\ Cardinality(Waiting(h)) \in Nat /\ Cardinality(Holding(h)) \in Nat /\ Len(lobby[h]) \in Nat
        /\ redelivered[h] \in Nat
        /\ Copies(h) = Cardinality(Waiting(h)) + Cardinality(Holding(h)) + Len(lobby[h])
    BY <2>1, CopiesParts
  <2>6. CASE h = g
    <3>1. Cardinality(Waiting(h)') > 0
      BY <2>2, <2>5, <2>6
    <3>2. Safe(h)'
      BY <3>1 DEF Safe
    <3> QED
      BY <1>1, <2>1, <2>2, <2>3, <2>4, <2>5, <2>6, <3>2
  <2>7. CASE h # g
    <3>1. Safe(h) => Safe(h)'
      BY <1>1, <2>2, <2>5, <2>7 DEF Safe
    <3> QED
      BY <1>1, <2>1, <2>2, <2>3, <2>4, <2>5, <2>7, <3>1
  <2> QED
    BY <2>6, <2>7
<1> QED
  BY <1>1, <1>2, <1>3, NewCopies DEF CopyInv, KeptIsHeld

LEMMA TakeCreateCopies ==
  ASSUME MatchType, CopyInv, NEW s \in Server, TakeCreate(s)
  PROVE  CopyInv'
<1> DEFINE g == Head(createQueue)
<1>1. /\ worker[s].at = "ready" /\ unacked[s] = None /\ createQueue # <<>>
      /\ createQueue' = Tail(createQueue)
      /\ worker' = [worker EXCEPT ![s] = [at |-> "holding", game |-> g]]
      /\ unacked' = [unacked EXCEPT ![s] = g]
      /\ UNCHANGED <<stage, redelivered, lobby>>
  BY DEF TakeCreate, KeptFor, masterVars, lobbyVars
<1>2. g \in Game
  BY <1>1, HeadOfCreates DEF MatchType
<1>3. \A h \in Game : Cardinality(Waiting(h)) = Cardinality(Waiting(h)') + (IF g = h THEN 1 ELSE 0)
  BY <1>1, AtTail DEF Waiting, MatchType, WorkerType
<1>4. \A h \in Game : Cardinality(Waiting(h)') \in Nat
  BY <1>1, HeadOfCreates, AtIsFinite DEF Waiting, MatchType
<1> HIDE DEF g
<1>5. /\ worker'[s] = [at |-> "holding", game |-> g] /\ unacked'[s] = g
      /\ \A t \in Server : t # s => worker'[t] = worker[t] /\ unacked'[t] = unacked[t]
  BY <1>1 DEF MatchType, WorkerType
<1>6. ASSUME NEW h \in Game
      PROVE  /\ IsFiniteSet(Holding(h)')
             /\ LET copies == Cardinality(Waiting(h)') + Cardinality(Holding(h)') + Len(lobby'[h])
                IN  IF stage'[h] = "idle" THEN copies = 0
                                          ELSE copies <= 1 + redelivered'[h] /\ Safe(h)'
  <2>1. IsFiniteSet(Holding(h)) /\ s \notin Holding(h)
    BY <1>1 DEF Holding, CopyInv, Counted
  <2>2. /\ IsFiniteSet(Holding(h)')
        /\ Cardinality(Holding(h)') = Cardinality(Holding(h)) + (IF g = h THEN 1 ELSE 0)
    <3>1. ([at |-> "holding", game |-> g] = [at |-> "holding", game |-> h]) <=> g = h
      OBVIOUS
    <3>2. /\ IsFiniteSet(Holding(h)') /\ Cardinality(Holding(h)) \in Nat
          /\ Cardinality(Holding(h)') = (Cardinality(Holding(h)) - (IF s \in Holding(h) THEN 1 ELSE 0))
               + (IF [at |-> "holding", game |-> g] = [at |-> "holding", game |-> h] THEN 1 ELSE 0)
      BY <1>1, <2>1, HoldingChanges DEF MatchType
    <3> QED
      BY <2>1, <3>1, <3>2
  <2>3. IF stage[h] = "idle" THEN Copies(h) = 0
                             ELSE Copies(h) <= 1 + redelivered[h] /\ Safe(h)
    BY DEF CopyInv, Counted
  <2>4. /\ Cardinality(Waiting(h)) \in Nat /\ Cardinality(Holding(h)) \in Nat /\ Len(lobby[h]) \in Nat
        /\ redelivered[h] \in Nat
        /\ Copies(h) = Cardinality(Waiting(h)) + Cardinality(Holding(h)) + Len(lobby[h])
    BY <2>1, CopiesParts
  <2>5. Safe(h) => Safe(h)'
    <3>1. CASE h = g
      BY <1>5, <3>1 DEF Safe
    <3>2. CASE h # g
      <4>1. Cardinality(Waiting(h)') = Cardinality(Waiting(h))
        BY <1>3, <1>4, <3>2
      <4>2. unacked[s] # h
        BY <1>1, Names
      <4> QED
        BY <1>1, <1>5, <4>1, <4>2 DEF Safe
    <3> QED
      BY <3>1, <3>2
  <2>6. Cardinality(Waiting(h)') + Cardinality(Holding(h)') + Len(lobby'[h]) = Copies(h)
    BY <1>1, <1>3, <1>4, <2>2, <2>4
  <2> QED
    BY <1>1, <2>2, <2>3, <2>5, <2>6
<1>7. \A t \in Server : unacked'[t] # None =>
        worker'[t].at \in {"holding", "started"} /\ worker'[t].game = unacked'[t]
  BY <1>5 DEF CopyInv, KeptIsHeld
<1>8. \A t \in Server : worker'[t].at = "started" => Begun(lobby'[worker'[t].game], t)
  BY <1>1, <1>5 DEF CopyInv, KeptIsHeld
<1> QED
  BY <1>6, <1>7, <1>8, NewCopies

LEMMA AttemptCopies ==
  ASSUME MatchType, CopyInv, NEW s \in Server, AttemptLobby(s)
  PROVE  CopyInv'
<1> DEFINE g == worker[s].game
<1>1. /\ worker[s].at = "holding"
      /\ worker' = [worker EXCEPT ![s] = [worker[s] EXCEPT !.at = "started"]]
      /\ UNCHANGED <<stage, createQueue, unacked, redelivered>>
  BY DEF AttemptLobby, masterVars, brokerVars
<1>2. g \in Game /\ Len(lobby'[g]) = Len(lobby[g]) + 1 /\ \A h \in Game : h # g => lobby'[h] = lobby[h]
  BY AttemptKeeps DEF MatchType
<1>0. GoOn /\ Begun(lobby'[g], s)
  <2>1. /\ \A i \in DOMAIN lobby[g] : i \in DOMAIN lobby'[g] /\ lobby'[g][i] = lobby[g][i]
        /\ \E i \in DOMAIN lobby'[g] : lobby'[g][i].server = s /\ lobby'[g][i].state = "starting"
    BY AttemptKeeps DEF MatchType
  <2> HIDE DEF g
  <2>2. \A h \in Game : \A i \in DOMAIN lobby[h] : i \in DOMAIN lobby'[h] /\ lobby'[h][i] = lobby[h][i]
    BY <1>2, <2>1
  <2>3. GoOn
    BY <2>2, RunsGoOn
  <2>4. Begun(lobby'[g], s)
    BY <2>1 DEF Begun
  <2> QED
    BY <2>3, <2>4
<1>3. worker[s] = [at |-> "holding", game |-> g]
  BY <1>1 DEF MatchType, WorkerType
<1>4. [worker[s] EXCEPT !.at = "started"] = [at |-> "started", game |-> g]
  BY <1>3
<1> HIDE DEF g
<1>5. /\ worker'[s] = [at |-> "started", game |-> g]
      /\ \A t \in Server : t # s => worker'[t] = worker[t]
  BY <1>1, <1>4 DEF MatchType, WorkerType
<1>6. \A h \in Game : Len(lobby[h]) \in Nat
  BY RunParts DEF MatchType
<1>7. ASSUME NEW h \in Game
      PROVE  /\ IsFiniteSet(Holding(h)')
             /\ LET copies == Cardinality(Waiting(h)') + Cardinality(Holding(h)') + Len(lobby'[h])
                IN  IF stage'[h] = "idle" THEN copies = 0
                                          ELSE copies <= 1 + redelivered'[h] /\ Safe(h)'
  <2>1. IsFiniteSet(Holding(h)) /\ (s \in Holding(h) <=> g = h)
    BY <1>3 DEF Holding, CopyInv, Counted
  <2>2. /\ IsFiniteSet(Holding(h)')
        /\ Cardinality(Holding(h)') = Cardinality(Holding(h)) - (IF g = h THEN 1 ELSE 0)
    <3>1. [at |-> "started", game |-> g] # [at |-> "holding", game |-> h]
      OBVIOUS
    <3>2. /\ IsFiniteSet(Holding(h)') /\ Cardinality(Holding(h)) \in Nat
          /\ Cardinality(Holding(h)') = (Cardinality(Holding(h)) - (IF s \in Holding(h) THEN 1 ELSE 0))
               + (IF [at |-> "started", game |-> g] = [at |-> "holding", game |-> h] THEN 1 ELSE 0)
      BY <1>1, <1>4, <2>1, HoldingChanges DEF MatchType
    <3> QED
      BY <2>1, <3>1, <3>2
  <2>3. IF stage[h] = "idle" THEN Copies(h) = 0
                             ELSE Copies(h) <= 1 + redelivered[h] /\ Safe(h)
    BY DEF CopyInv, Counted
  <2>4. /\ Cardinality(Waiting(h)) \in Nat /\ Cardinality(Holding(h)) \in Nat /\ Len(lobby[h]) \in Nat
        /\ redelivered[h] \in Nat
        /\ Copies(h) = Cardinality(Waiting(h)) + Cardinality(Holding(h)) + Len(lobby[h])
    BY <2>1, CopiesParts
  <2>5. Waiting(h)' = Waiting(h)
    BY <1>1 DEF Waiting, At
  <2>6. Len(lobby'[h]) = Len(lobby[h]) + (IF g = h THEN 1 ELSE 0)
    <3>1. CASE g = h
      BY <1>2, <3>1
    <3>2. CASE g # h
      BY <1>2, <1>6, <3>2
    <3> QED
      BY <3>1, <3>2
  <2>7. Safe(h) => Safe(h)'
    BY <1>0, <1>1, <2>5 DEF Safe, GoOn
  <2>8. Cardinality(Waiting(h)') + Cardinality(Holding(h)') + Len(lobby'[h]) = Copies(h)
    <3>1. CASE g = h
      BY <2>2, <2>4, <2>5, <2>6, <3>1
    <3>2. CASE g # h
      BY <2>2, <2>4, <2>5, <2>6, <3>2
    <3> QED
      BY <3>1, <3>2
  <2> QED
    BY <1>1, <2>2, <2>3, <2>7, <2>8
<1>8. \A t \in Server : unacked'[t] # None =>
        worker'[t].at \in {"holding", "started"} /\ worker'[t].game = unacked'[t]
  BY <1>1, <1>3, <1>5 DEF CopyInv, KeptIsHeld
<1>9. \A t \in Server : worker'[t].at = "started" => Begun(lobby'[worker'[t].game], t)
  <2> SUFFICES ASSUME NEW t \in Server, worker'[t].at = "started"
               PROVE  Begun(lobby'[worker'[t].game], t)
    OBVIOUS
  <2>1. CASE t = s
    BY <1>0, <1>5, <2>1
  <2>2. CASE t # s
    <3>1. worker'[t] = worker[t] /\ worker[t].game \in Game /\ Begun(lobby[worker[t].game], t)
      BY <1>5, <2>2 DEF CopyInv, KeptIsHeld, MatchType, WorkerType
    <3> QED
      BY <1>0, <3>1 DEF GoOn
  <2> QED
    BY <2>1, <2>2
<1> QED
  BY <1>7, <1>8, <1>9, NewCopies

LEMMA AckCopies ==
  ASSUME MatchType, CopyInv, NEW s \in Server, Ack(s)
  PROVE  CopyInv'
<1>1. PICK at \in {"ready", "gone"} : worker' = [worker EXCEPT ![s] = [at |-> at, game |-> None]]
  BY DEF Ack
<1>2. /\ worker[s].at = "started" /\ unacked' = [unacked EXCEPT ![s] = None]
      /\ UNCHANGED <<stage, redelivered, lobby>> /\ createQueue' = createQueue
  BY ConcatEmptySeq DEF Ack, LeftBehind, MatchType, WorkerType, masterVars, lobbyVars
<1>3. /\ worker'[s] = [at |-> at, game |-> None] /\ unacked'[s] = None
      /\ \A t \in Server : t # s => worker'[t] = worker[t] /\ unacked'[t] = unacked[t]
  BY <1>1, <1>2 DEF MatchType, WorkerType
<1>4. ASSUME NEW h \in Game
      PROVE  /\ IsFiniteSet(Holding(h)')
             /\ LET copies == Cardinality(Waiting(h)') + Cardinality(Holding(h)') + Len(lobby'[h])
                IN  IF stage'[h] = "idle" THEN copies = 0
                                          ELSE copies <= 1 + redelivered'[h] /\ Safe(h)'
  <2>1. IsFiniteSet(Holding(h)) /\ Holding(h)' = Holding(h) /\ Waiting(h)' = Waiting(h)
    <3>1. worker'[s] # [at |-> "holding", game |-> h] /\ worker[s] # [at |-> "holding", game |-> h]
      BY <1>2, <1>3
    <3> QED
      BY <1>2, <1>3, <3>1 DEF Holding, CopyInv, Counted, Waiting, At
  <2>2. IF stage[h] = "idle" THEN Copies(h) = 0
                             ELSE Copies(h) <= 1 + redelivered[h] /\ Safe(h)
    BY DEF CopyInv, Counted
  <2>3. Copies(h) = Cardinality(Waiting(h)) + Cardinality(Holding(h)) + Len(lobby[h])
    BY <2>1, CopiesParts
  <2>4. unacked[s] = h => Alive(lobby[h])
    BY <1>2, Names, AliveParts DEF CopyInv, KeptIsHeld
  <2>5. Safe(h) => Safe(h)'
    BY <1>2, <1>3, <2>1, <2>4 DEF Safe
  <2> QED
    BY <1>2, <2>1, <2>2, <2>3, <2>5
<1>5. \A t \in Server : unacked'[t] # None =>
        worker'[t].at \in {"holding", "started"} /\ worker'[t].game = unacked'[t]
  BY <1>3 DEF CopyInv, KeptIsHeld
<1>6. \A t \in Server : worker'[t].at = "started" => Begun(lobby'[worker'[t].game], t)
  BY <1>2, <1>3 DEF CopyInv, KeptIsHeld
<1> QED
  BY <1>4, <1>5, <1>6, NewCopies

\* A message that a server has not acknowledged goes back to the queue, once for
\* every time it is counted as redelivered.
LEMMA RedeliverParts ==
  ASSUME MatchType, NEW s \in Server, Redeliver(s), NEW h \in Game
  PROVE  LET back == IF unacked[s] = h THEN 1 ELSE 0
         IN  /\ Cardinality(Waiting(h)') = Cardinality(Waiting(h)) + back
             /\ redelivered'[h] = redelivered[h] + back
             /\ unacked'[s] = None /\ \A t \in Server : t # s => unacked'[t] = unacked[t]
<1>1. unacked' = [unacked EXCEPT ![s] = None]
  BY DEF Redeliver
<1>2. Cardinality(Waiting(h)) \in Nat /\ redelivered[h] \in Nat /\ createQueue \in Seq(Game)
  BY AtIsFinite DEF Waiting, MatchType, WorkerType
<1>3. CASE unacked[s] = None
  <2>1. createQueue' = createQueue /\ redelivered' = redelivered /\ unacked[s] # h
    BY <1>3, Names DEF Redeliver
  <2> QED
    BY <1>1, <1>2, <2>1 DEF Waiting, MatchType, WorkerType
<1>4. CASE unacked[s] # None
  <2>1. /\ unacked[s] \in Game /\ createQueue' = <<unacked[s]>> \o createQueue
        /\ redelivered' = [redelivered EXCEPT ![unacked[s]] = @ + 1]
    BY <1>4 DEF Redeliver, MatchType, WorkerType
  <2>2. Cardinality(Waiting(h)') = Cardinality(Waiting(h)) + (IF unacked[s] = h THEN 1 ELSE 0)
    BY <1>2, <2>1, AtCons DEF Waiting
  <2>3. redelivered'[h] = redelivered[h] + (IF unacked[s] = h THEN 1 ELSE 0)
    BY <1>2, <2>1 DEF MatchType, WorkerType
  <2> QED
    BY <1>1, <2>2, <2>3 DEF MatchType, WorkerType
<1> QED
  BY <1>3, <1>4

LEMMA LoseConnectionCopies ==
  ASSUME MatchType, CopyInv, NEW s \in Server, LoseConnection(s)
  PROVE  CopyInv'
<1>1. Redeliver(s) /\ UNCHANGED <<stage, worker, lobby>>
  BY DEF LoseConnection, masterVars, lobbyVars
<1>2. ASSUME NEW h \in Game
      PROVE  /\ IsFiniteSet(Holding(h)')
             /\ LET copies == Cardinality(Waiting(h)') + Cardinality(Holding(h)') + Len(lobby'[h])
                IN  IF stage'[h] = "idle" THEN copies = 0
                                          ELSE copies <= 1 + redelivered'[h] /\ Safe(h)'
  <2>1. IsFiniteSet(Holding(h)) /\ Holding(h)' = Holding(h)
    BY <1>1 DEF Holding, CopyInv, Counted
  <2>2. IF stage[h] = "idle" THEN Copies(h) = 0
                             ELSE Copies(h) <= 1 + redelivered[h] /\ Safe(h)
    BY DEF CopyInv, Counted
  <2>3. /\ Cardinality(Waiting(h)) \in Nat /\ Cardinality(Holding(h)) \in Nat /\ Len(lobby[h]) \in Nat
        /\ redelivered[h] \in Nat
        /\ Copies(h) = Cardinality(Waiting(h)) + Cardinality(Holding(h)) + Len(lobby[h])
    BY <2>1, CopiesParts
  <2>4. /\ Cardinality(Waiting(h)') = Cardinality(Waiting(h)) + (IF unacked[s] = h THEN 1 ELSE 0)
        /\ redelivered'[h] = redelivered[h] + (IF unacked[s] = h THEN 1 ELSE 0)
        /\ \A t \in Server : t # s => unacked'[t] = unacked[t]
    BY <1>1, RedeliverParts
  <2>5. unacked[s] = h => stage[h] # "idle"
    BY KeptHasCopy
  <2>6. Safe(h) => Safe(h)'
    <3>1. CASE unacked[s] = h
      BY <2>3, <2>4, <3>1 DEF Safe
    <3>2. CASE unacked[s] # h
      BY <1>1, <2>3, <2>4, <3>2 DEF Safe
    <3> QED
      BY <3>1, <3>2
  <2> QED
    BY <1>1, <2>1, <2>2, <2>3, <2>4, <2>5, <2>6
<1>3. unacked' = [unacked EXCEPT ![s] = None]
  BY <1>1 DEF Redeliver
<1>4. \A t \in Server : unacked'[t] # None =>
        worker'[t].at \in {"holding", "started"} /\ worker'[t].game = unacked'[t]
  BY <1>1, <1>3 DEF CopyInv, KeptIsHeld, MatchType, WorkerType
<1>5. \A t \in Server : worker'[t].at = "started" => Begun(lobby'[worker'[t].game], t)
  BY <1>1 DEF CopyInv, KeptIsHeld
<1> QED
  BY <1>2, <1>4, <1>5, NewCopies

LEMMA CrashCopies ==
  ASSUME MatchType, CopyInv, NEW s \in Server, Crash(s)
  PROVE  CopyInv'
<1>1. /\ Redeliver(s) /\ stage' = stage
      /\ worker' = [worker EXCEPT ![s] = [at |-> "gone", game |-> None]]
      /\ unacked' = [unacked EXCEPT ![s] = None]
  BY DEF Crash, Redeliver, masterVars
<1>2. \A h \in Game : Len(lobby'[h]) = Len(lobby[h])
  BY CrashKeeps DEF MatchType
<1>3. /\ worker'[s] = [at |-> "gone", game |-> None] /\ unacked'[s] = None
      /\ \A t \in Server : t # s => worker'[t] = worker[t] /\ unacked'[t] = unacked[t]
  BY <1>1 DEF MatchType, WorkerType
<1>4. ASSUME NEW h \in Game
      PROVE  /\ IsFiniteSet(Holding(h)')
             /\ LET copies == Cardinality(Waiting(h)') + Cardinality(Holding(h)') + Len(lobby'[h])
                IN  IF stage'[h] = "idle" THEN copies = 0
                                          ELSE copies <= 1 + redelivered'[h] /\ Safe(h)'
  <2>1. IsFiniteSet(Holding(h))
    BY DEF CopyInv, Counted
  <2>2. /\ IsFiniteSet(Holding(h)')
        /\ Cardinality(Holding(h)') = Cardinality(Holding(h)) - (IF s \in Holding(h) THEN 1 ELSE 0)
    <3>1. [at |-> "gone", game |-> None] # [at |-> "holding", game |-> h]
      OBVIOUS
    <3>2. /\ IsFiniteSet(Holding(h)') /\ Cardinality(Holding(h)) \in Nat
          /\ Cardinality(Holding(h)') = (Cardinality(Holding(h)) - (IF s \in Holding(h) THEN 1 ELSE 0))
               + (IF [at |-> "gone", game |-> None] = [at |-> "holding", game |-> h] THEN 1 ELSE 0)
      BY <1>1, <2>1, HoldingChanges DEF MatchType
    <3> QED
      BY <3>1, <3>2
  <2>3. IF stage[h] = "idle" THEN Copies(h) = 0
                             ELSE Copies(h) <= 1 + redelivered[h] /\ Safe(h)
    BY DEF CopyInv, Counted
  <2>4. /\ Cardinality(Waiting(h)) \in Nat /\ Cardinality(Holding(h)) \in Nat /\ Len(lobby[h]) \in Nat
        /\ redelivered[h] \in Nat
        /\ Copies(h) = Cardinality(Waiting(h)) + Cardinality(Holding(h)) + Len(lobby[h])
    BY <2>1, CopiesParts
  <2>5. /\ Cardinality(Waiting(h)') = Cardinality(Waiting(h)) + (IF unacked[s] = h THEN 1 ELSE 0)
        /\ redelivered'[h] = redelivered[h] + (IF unacked[s] = h THEN 1 ELSE 0)
    BY <1>1, RedeliverParts
  <2>6. unacked[s] = h => stage[h] # "idle"
    BY KeptHasCopy
  <2>7. Safe(h) => Safe(h)'
    <3>1. CASE unacked[s] = h
      BY <2>4, <2>5, <3>1 DEF Safe
    <3>2. CASE unacked[s] # h
      <4>1. Cardinality(Waiting(h)') = Cardinality(Waiting(h))
        BY <2>4, <2>5, <3>2
      <4>2. \A i \in DOMAIN lobby[h] : i \in DOMAIN lobby'[h] /\
              (lobby'[h][i].state = "returned" => lobby[h][i].state = "returned")
        BY <3>2, CrashKeeps DEF MatchType
      <4>3. Alive(lobby[h]) => Alive(lobby'[h])
        BY <4>2 DEF Alive
      <4> QED
        BY <1>3, <3>2, <4>1, <4>3 DEF Safe
    <3> QED
      BY <3>1, <3>2
  <2>8. Cardinality(Holding(h)') \in Nat /\ (Copies(h) = 0 => Cardinality(Holding(h)') = 0)
    <3>1. Cardinality(Holding(h)') \in Nat
      BY <2>2, FS_CardinalityType
    <3> QED
      BY <2>2, <2>4, <3>1
  <2>9. CASE stage[h] = "idle"
    BY <1>1, <1>2, <2>2, <2>3, <2>4, <2>5, <2>6, <2>8, <2>9
  <2>10. CASE stage[h] # "idle"
    <3>1. Cardinality(Holding(h)') <= Cardinality(Holding(h))
      BY <2>2, <2>4
    <3> QED
      BY <1>1, <1>2, <2>2, <2>3, <2>4, <2>5, <2>7, <2>8, <2>10, <3>1
  <2> QED
    BY <2>9, <2>10
<1>5. \A t \in Server : unacked'[t] # None =>
        worker'[t].at \in {"holding", "started"} /\ worker'[t].game = unacked'[t]
  BY <1>3 DEF CopyInv, KeptIsHeld
<1>6. \A t \in Server : worker'[t].at = "started" => Begun(lobby'[worker'[t].game], t)
  <2> SUFFICES ASSUME NEW t \in Server, worker'[t].at = "started"
               PROVE  Begun(lobby'[worker'[t].game], t)
    OBVIOUS
  <2> DEFINE g == worker[t].game
  <2>1. t # s
    BY <1>3
  <2>2. worker'[t] = worker[t] /\ g \in Game /\ Begun(lobby[g], t)
    BY <1>3, <2>1 DEF CopyInv, KeptIsHeld, MatchType, WorkerType
  <2>3. \A i \in DOMAIN lobby[g] : i \in DOMAIN lobby'[g] /\
          (lobby[g][i].server = t => lobby'[g][i] = lobby[g][i])
    BY <2>1, <2>2, CrashKeeps DEF MatchType
  <2> HIDE DEF g
  <2>4. Begun(lobby'[g], t)
    BY <2>2, <2>3 DEF Begun
  <2> QED
    BY <2>2, <2>4 DEF g
<1> QED
  BY <1>4, <1>5, <1>6, NewCopies

LEMMA CopyInit ==
  ASSUME Init
  PROVE  CopyInv
<1>1. KeptIsHeld
  BY DEF Init, KeptIsHeld
<1>2. ASSUME NEW g \in Game
      PROVE  IsFiniteSet(Holding(g)) /\ Copies(g) = 0
  <2>1. Holding(g) = {} /\ Waiting(g) = {} /\ Len(lobby[g]) = 0
    BY DEF Init, Holding, Waiting, At
  <2>2. Copies(g) = Cardinality(Waiting(g)) + Cardinality(Holding(g)) + Len(lobby[g])
    BY DEF Copies, Waiting, Holding, At
  <2> QED
    BY <2>1, <2>2, FS_EmptySet
<1>3. \A g \in Game : stage[g] = "idle"
  BY Names DEF Init
<1> QED
  BY <1>1, <1>2, <1>3 DEF CopyInv, Counted

LEMMA CopyStep ==
  ASSUME MatchType, JoinInv, CopyInv, [Next]_vars
  PROVE  CopyInv'
<1>1. ASSUME NEW g \in Game, AskCreate(g)
      PROVE  CopyInv'
  BY <1>1, AskCreateCopies
<1>2. ASSUME NEW j \in Join, AskJoin(j)
      PROVE  CopyInv'
  <2>1. \A g \in Game : stage'[g] = stage[g]
    BY <1>2, AskJoinStep, Names
  <2>2. UNCHANGED <<createQueue, workerVars, lobby>>
    BY <1>2, AskJoinStep DEF lobbyVars
  <2> QED
    BY <2>1, <2>2, SameCopies DEF GoOn
<1>3. ASSUME NEW r \in Request, Subscribe(r)
      PROVE  CopyInv'
  BY <1>3, SameCopies DEF Subscribe, brokerVars, lobbyVars, GoOn
<1>4. ASSUME NEW r \in Request, Receive(r)
      PROVE  CopyInv'
  <2>1. \A g \in Game : stage'[g] = "idle" <=> stage[g] = "idle"
    BY <1>4, Names DEF Receive, MatchType, MasterType
  <2>2. UNCHANGED <<createQueue, workerVars, lobby>>
    BY <1>4 DEF Receive, lobbyVars
  <2> QED
    BY <2>1, <2>2, SameCopies DEF GoOn
<1>5. CASE \/ \E r \in Request : Swallow(r)
           \/ \E g \in Game : \E i \in DOMAIN lobby[g] : SwallowJoin(g, i)
           \/ \E b \in Box : Expire(b)
           \/ UNCHANGED vars
  <2>1. UNCHANGED <<createQueue, workerVars, lobby, stage>>
    BY <1>5 DEF Swallow, SwallowJoin, Expire, vars, brokerVars, masterVars, lobbyVars
  <2> QED
    BY <2>1, SameCopies DEF GoOn
<1>6. ASSUME NEW s \in Server, WorkerLoop(s) \/ LoseConnection(s) \/ Crash(s)
      PROVE  CopyInv'
  BY <1>6, TakeCreateCopies, AttemptCopies, AckCopies, LoseConnectionCopies, CrashCopies DEF WorkerLoop
<1>7. ASSUME NEW g \in Game, NEW i \in DOMAIN lobby[g], StartLobby(g, i) \/ EndLobby(g, i)
      PROVE  CopyInv'
  <2>1. UNCHANGED <<createQueue, workerVars, stage>>
    BY <1>7 DEF StartLobby, Announce, Register, StoreGame, Listen, TakeJoin, AnswerJoin, EndLobby,
                brokerVars, masterVars
  <2>2. PICK run \in LobbyRun : /\ lobby' = [lobby EXCEPT ![g] = [lobby[g] EXCEPT ![i] = run]]
                                /\ run.server = lobby[g][i].server /\ run.state # "returned"
    <3>1. ASSUME NEW state \in LobbyState, state # "returned", GoesTo(g, i, state)
          PROVE  \E run \in LobbyRun : /\ lobby' = [lobby EXCEPT ![g] = [lobby[g] EXCEPT ![i] = run]]
                                       /\ run.server = lobby[g][i].server /\ run.state # "returned"
      <4> DEFINE run == [lobby[g][i] EXCEPT !.state = state]
      <4>1. lobby[g][i] \in LobbyRun
        BY RunParts DEF MatchType
      <4>2. run \in LobbyRun /\ run.server = lobby[g][i].server /\ run.state # "returned"
        BY <3>1, <4>1 DEF LobbyRun
      <4>3. lobby' = [lobby EXCEPT ![g] = [lobby[g] EXCEPT ![i] = run]]
        BY <3>1 DEF GoesTo, MatchType, LobbyType
      <4> HIDE DEF run
      <4> QED
        BY <4>2, <4>3
    <3>2. CASE TakeJoin(g, i)
      BY <3>2, TakeJoinStep DEF Taken
    <3>3. Announce(g, i) => GoesTo(g, i, "announced")
      BY DEF Announce
    <3>4. Register(g, i) => GoesTo(g, i, "waiting") \/ GoesTo(g, i, "registering")
      BY DEF Register, AfterLookup
    <3>5. StoreGame(g, i) => GoesTo(g, i, "waiting") \/ GoesTo(g, i, "seating")
      BY DEF StoreGame
    <3>6. Listen(g, i) => GoesTo(g, i, "listening")
      BY DEF Listen
    <3>7. AnswerJoin(g, i) => GoesTo(g, i, "full")
      BY DEF AnswerJoin, AfterAnswer
    <3>8. EndLobby(g, i) => GoesTo(g, i, "over")
      BY DEF EndLobby
    <3> QED
      BY <1>7, <3>1, <3>2, <3>3, <3>4, <3>5, <3>6, <3>7, <3>8 DEF StartLobby, LobbyState
  <2>3. /\ \A h \in Game : DOMAIN lobby'[h] = DOMAIN lobby[h] /\ Len(lobby'[h]) = Len(lobby[h])
        /\ \A h \in Game : h # g => lobby'[h] = lobby[h]
        /\ \A k \in DOMAIN lobby[g] : k # i => lobby'[g][k] = lobby[g][k]
        /\ lobby'[g][i] = run
    BY <2>2, RunChanges DEF MatchType
  <2>4. GoOn
    <3>1. ASSUME NEW h \in Game, NEW k \in DOMAIN lobby[h]
          PROVE  /\ k \in DOMAIN lobby'[h] /\ lobby'[h][k].server = lobby[h][k].server
                 /\ lobby'[h][k].state = "returned" => lobby[h][k].state = "returned"
      <4>1. CASE h = g /\ k = i
        BY <2>2, <2>3, <4>1
      <4>2. CASE h = g /\ k # i
        BY <2>3, <4>2
      <4>3. CASE h # g
        BY <2>3, <4>3
      <4> QED
        BY <4>1, <4>2, <4>3
    <3> QED
      BY <3>1, RunsGoOn
  <2> QED
    BY <2>1, <2>3, <2>4, SameCopies
<1> QED
  BY <1>1, <1>2, <1>3, <1>4, <1>5, <1>6, <1>7 DEF Next, Handler, Idle

LEMMA CopyInvariant == Spec => []CopyInv
<1>1. Init => CopyInv
  BY CopyInit
<1>2. FitInv /\ CopyInv /\ [Next]_vars => CopyInv'
  BY CopyStep DEF FitInv
<1> QED
  BY <1>1, <1>2, FitInvariant, PTL DEF Spec

\* Whatever breaks, a create request that was made is in the queue, in the hands
\* of a worker or with a lobby, and the one way to lose it is to be with a lobby
\* that falls before its announcement when its server owes no acknowledgement;
\* and it has no more copies than one and those that the broker delivered again,
\* for any number of games, servers and faults.
THEOREM RequestAlwaysAccounted == Spec => []RequestAccounted
<1>1. FitInv /\ CopyInv => RequestAccounted
  <2> SUFFICES ASSUME FitInv, CopyInv, NEW g \in Game, stage[g] # "idle"
               PROVE  /\ Copies(g) <= 1 + redelivered[g]
                      /\ \/ \E i \in DOMAIN createQueue : createQueue[i] = g
                         \/ \E s \in Server : worker[s] = [at |-> "holding", game |-> g]
                         \/ \E i \in DOMAIN lobby[g] : lobby[g][i].state # "returned"
    BY DEF RequestAccounted
  <2>1. MatchType /\ Copies(g) <= 1 + redelivered[g] /\ Safe(g)
    BY DEF FitInv, CopyInv, Counted
  <2>2. CASE Cardinality(Waiting(g)) > 0
    <3>1. Waiting(g) # {}
      BY <2>2, FS_EmptySet
    <3> QED
      BY <2>1, <3>1 DEF Waiting, At
  <2>3. ASSUME NEW s \in Server, unacked[s] = g
        PROVE  s \in Holding(g) \/ Begun(lobby[g], s)
    BY <2>1, <2>3, KeptHasCopy
  <2> QED
    BY <2>1, <2>2, <2>3 DEF Safe, Alive, Begun, Holding
<1> QED
  BY <1>1, FitInvariant, CopyInvariant, PTL
-----------------------------------------------------------------------------
(***************************************************************************)
(* Tokens.                                                                 *)
(***************************************************************************)
\* Two lobbies of one game have had its request delivered twice.
LEMMA TwoLobbies ==
  ASSUME MatchType, CopyInv, NEW g \in Game, NEW s, Two(lobby[g], s)
  PROVE  redelivered[g] > 0
<1>1. DOMAIN lobby[g] = 1..Len(lobby[g]) /\ Len(lobby[g]) \in Nat
  BY RunParts DEF MatchType
<1>2. Len(lobby[g]) >= 2
  BY <1>1 DEF Two
<1>3. IsFiniteSet(Holding(g))
  BY DEF CopyInv, Counted
<1>4. /\ Cardinality(Waiting(g)) \in Nat /\ Cardinality(Holding(g)) \in Nat /\ redelivered[g] \in Nat
      /\ Copies(g) = Cardinality(Waiting(g)) + Cardinality(Holding(g)) + Len(lobby[g])
  BY <1>3, CopiesParts
<1>5. Copies(g) = 0 \/ Copies(g) <= 1 + redelivered[g]
  BY DEF CopyInv, Counted
<1> QED
  BY <1>1, <1>2, <1>4, <1>5

\* Whoever holds an answer finds his place on the server that it names, unless a
\* lobby of the game has ended there, the game's entry was overwritten, or the
\* host comes before his game is registered; and no entry is overwritten unless
\* the broker delivered the game's request again.
THEOREM TokenAlwaysFindsSeat == Spec => []TokenFindsSeat
<1>1. ASSUME FitInv, NEW r \in Request, answer[r] # None
      PROVE  \/ answer[r].user \in seats[answer[r].server][answer[r].game]
             \/ <<answer[r].server, answer[r].game>> \in replaced
             \/ \E i \in DOMAIN lobby[answer[r].game] :
                  /\ lobby[answer[r].game][i].server = answer[r].server
                  /\ lobby[answer[r].game][i].state \in {"over", "crashed"} \cup
                       (IF answer[r].user = Host THEN {"announced", "registering"} ELSE {})
  <2> DEFINE a == answer[r]
  <2>1. MatchType /\ JoinInv /\ PlayersSeated /\ AcceptancesSent
    BY <1>1 DEF FitInv, SeatInv
  <2>2. CASE r \in Game
    <3>1. a.game = r /\ a.user = Host
      BY <1>1, <2>1, <2>2 DEF AcceptancesSent, HostSent
    <3>2. PICK i \in DOMAIN lobby[r] : lobby[r][i].server = a.server /\ lobby[r][i].state \notin Unsent
      BY <1>1, <2>1, <2>2 DEF AcceptancesSent, HostSent
    <3>3. lobby[r][i].state \in LobbyState
      BY <2>1, <2>2, RunParts DEF MatchType
    <3>4. \/ Ended(lobby[r], a.server) \/ <<a.server, r>> \in replaced
          \/ Seated(lobby[r][i], seats[a.server][r])
      BY <2>1, <2>2, <3>2 DEF PlayersSeated
    <3> QED
      BY <3>1, <3>2, <3>3, <3>4 DEF Ended, Seated, LobbyState, Unsent
  <2>3. CASE r \in Join
    <3>1. SentBy(lobby, a, a.game)
      BY <1>1, <2>1, <2>3 DEF JoinInv, AnswersSent, SentBy
    <3>2. a.game \in Game /\ a.user \in Join
      BY <3>1 DEF SentBy
    <3>3. PICK i \in DOMAIN lobby[a.game] : /\ lobby[a.game][i].state \in Served
                                            /\ lobby[a.game][i].server = a.server
                                            /\ lobby[a.game][i].guest = a.user
      BY <3>1 DEF SentBy
    <3>4. \/ Ended(lobby[a.game], a.server) \/ <<a.server, a.game>> \in replaced
          \/ Seated(lobby[a.game][i], seats[a.server][a.game])
      BY <2>1, <3>2, <3>3 DEF PlayersSeated
    <3> QED
      BY <3>3, <3>4 DEF Ended, Seated, Served
  <2> QED
    BY <1>1, <2>2, <2>3 DEF Request
<1>2. ASSUME FitInv, CopyInv, NEW s \in Server, NEW g \in Game, <<s, g>> \in replaced
      PROVE  redelivered[g] > 0
  BY <1>2, TwoLobbies DEF FitInv, SeatInv, OverlapsSeen
<1>3. FitInv /\ CopyInv => TokenFindsSeat
  BY <1>1, <1>2 DEF TokenFindsSeat
<1> QED
  BY <1>3, FitInvariant, CopyInvariant, PTL

-----------------------------------------------------------------------------
\* A message is delivered again for a fault, and for no other reason.
FaultsCounted ==
  /\ faults \in 0..MaxFaults
  /\ \A g \in Game : redelivered[g] <= faults

\* The variables keep their types and the faults their bound: nothing a server
\* or the broker does on its own account has a create message delivered again.
THEOREM TypeCorrect == Spec => []TypeOK
<1>1. Init => FaultsCounted
  BY BoundsAssumption DEF Init, FaultsCounted
<1>2. MatchType /\ FaultsCounted /\ [Next]_vars => FaultsCounted'
  <2> SUFFICES ASSUME MatchType, FaultsCounted, [Next]_vars PROVE FaultsCounted'
    OBVIOUS
  <2>1. faults \in Nat /\ MaxFaults \in Nat /\ redelivered \in [Game -> Nat]
    BY BoundsAssumption DEF FaultsCounted, MatchType, WorkerType
  <2>2. ASSUME NEW s \in Server, Redeliver(s)
        PROVE  FaultsCounted'
    <3>1. faults < MaxFaults /\ faults' = faults + 1
      BY <2>2 DEF Redeliver
    <3>2. \A g \in Game : redelivered'[g] \in {redelivered[g], redelivered[g] + 1}
      BY <2>1, <2>2 DEF Redeliver
    <3>3. ASSUME NEW g \in Game
          PROVE  redelivered'[g] <= faults'
      <4>1. redelivered[g] \in Nat /\ redelivered[g] <= faults
        BY <2>1 DEF FaultsCounted
      <4> QED
        BY <2>1, <3>1, <3>2, <4>1
    <3>4. faults' \in 0..MaxFaults
      BY <2>1, <3>1
    <3> QED
      BY <3>3, <3>4 DEF FaultsCounted
  <2>3. CASE \E s \in Server : LoseConnection(s) \/ Crash(s)
    BY <2>2, <2>3 DEF LoseConnection, Crash
  <2>4. CASE UNCHANGED <<redelivered, faults>>
    BY <2>4 DEF FaultsCounted
  <2>5. CASE \E g \in Game : AskCreate(g)
    BY <2>4, <2>5 DEF AskCreate, Ask, workerVars
  <2>6. CASE \E j \in Join : AskJoin(j)
    BY <2>4, <2>6 DEF AskJoin, Ask, workerVars
  <2>7. CASE \E r \in Request : Handler(r) \/ Swallow(r)
    BY <2>4, <2>7 DEF Handler, Subscribe, Receive, Swallow, workerVars
  <2>8. CASE \E s \in Server : WorkerLoop(s)
    BY <2>4, <2>8 DEF WorkerLoop, TakeCreate, AttemptLobby, Ack
  <2>9. CASE \E g \in Game : \E i \in DOMAIN lobby[g] : StartLobby(g, i) \/ SwallowJoin(g, i) \/ EndLobby(g, i)
    BY <2>4, <2>9 DEF StartLobby, Announce, Register, StoreGame, Listen, TakeJoin, AnswerJoin,
                     SwallowJoin, EndLobby, workerVars
  <2>10. CASE (\E b \in Box : Expire(b)) \/ Idle \/ UNCHANGED vars
    BY <2>4, <2>10 DEF Expire, Idle, vars, workerVars
  <2> QED
    BY <2>3, <2>5, <2>6, <2>7, <2>8, <2>9, <2>10 DEF Next
<1>3. FitInv /\ FaultsCounted => TypeOK
  <2> SUFFICES ASSUME FitInv, FaultsCounted PROVE TypeOK
    OBVIOUS
  <2>0. MatchType /\ replaced \subseteq Server \X Game
    BY DEF FitInv, SeatInv, OverlapsSeen
  <2>1. faults \in Nat /\ MaxFaults \in Nat
    BY BoundsAssumption DEF FaultsCounted
  <2>2. redelivered \in [Game -> 0..MaxFaults]
    <3>1. \A g \in Game : redelivered[g] \in 0..MaxFaults
      <4> SUFFICES ASSUME NEW g \in Game PROVE redelivered[g] \in 0..MaxFaults
        OBVIOUS
      <4>1. redelivered[g] \in Nat /\ redelivered[g] <= faults /\ faults <= MaxFaults
        BY <2>0, <2>1 DEF FaultsCounted, MatchType, WorkerType
      <4> QED
        BY <2>1, <4>1
    <3> QED
      BY <2>0, <3>1 DEF MatchType, WorkerType
  <2>3. \A i \in DOMAIN createQueue : createQueue[i] \in Game
    BY <2>0 DEF MatchType, WorkerType
  <2>4. \A g \in Game : \A i \in DOMAIN lobby[g] :
          lobby[g][i] \in [state : LobbyState, server : Server, guest : Join \cup {None}]
    <3> SUFFICES ASSUME NEW g \in Game, NEW i \in DOMAIN lobby[g]
                 PROVE  lobby[g][i] \in LobbyRun
      BY DEF LobbyRun
    <3>1. lobby[g] \in Seq(LobbyRun)
      BY <2>0 DEF MatchType, LobbyType
    <3> QED
      BY <3>1
  <2>5. ASSUME NEW b \in Box, NEW i \in DOMAIN mail[b]
        PROVE  mail[b][i] \in IF b[1] = "join" THEN JoinRequest ELSE Answer
    <3>1. PICK kind \in {"accept", "join", "joined"}, n \in Name : b = <<kind, n>>
      BY DEF Box
    <3>2. mail[b][i] \in Elements(mail[b])
      BY DEF Elements
    <3>3. CASE kind = "join"
      <4>1. b = JoinBox(n) /\ b[1] = "join"
        BY <3>1, <3>3 DEF JoinBox
      <4>2. Elements(mail[b]) \subseteq JoinRequest
        BY <2>0, <4>1 DEF MatchType, MailType
      <4> QED
        BY <3>2, <4>1, <4>2
    <3>4. CASE kind = "accept"
      <4>1. b = AcceptBox(n) /\ b[1] # "join"
        BY <3>1, <3>4 DEF AcceptBox
      <4>2. Elements(mail[b]) \subseteq Answer
        BY <2>0, <4>1 DEF MatchType, MailType
      <4> QED
        BY <3>2, <4>1, <4>2
    <3>5. CASE kind = "joined"
      <4>1. b = <<"joined", n>> /\ b[1] # "join"
        BY <3>1, <3>5
      <4>2. Elements(mail[b]) \subseteq Answer
        BY <2>0, <4>1 DEF MatchType, MailType
      <4> QED
        BY <3>2, <4>1, <4>2
    <3> QED
      BY <3>1, <3>3, <3>4, <3>5
  <2>6. DOMAIN mail = Box
    BY <2>0 DEF MatchType, MailType
  <2>7. \A r \in Request : answer[r] = None \/ answer[r] \in Answer
    BY <2>0 DEF MatchType, MasterType
  <2>8. /\ stage \in [Request -> {"idle", "asked", "answered"}]
        /\ target \in [Join -> Name \cup {None}]
        /\ listener \in [Request -> ListenerState]
        /\ met \in [Join -> SUBSET Join]
    BY <2>0 DEF MatchType, MasterType
  <2>9. /\ worker \in [Server -> [at : WorkerState, game : Game \cup {None}]]
        /\ unacked \in [Server -> Game \cup {None}]
        /\ seats \in [Server -> [Game -> SUBSET User]]
        /\ faults \in 0..MaxFaults
    BY <2>0 DEF MatchType, WorkerType, LobbyType, FaultsCounted
  <2> QED
    BY <2>0, <2>2, <2>3, <2>4, <2>5, <2>6, <2>7, <2>8, <2>9 DEF TypeOK
<1>4. FitInv => MatchType
  BY DEF FitInv
<1> QED
  BY <1>1, <1>2, <1>3, <1>4, FitInvariant, PTL DEF Spec
==============================================================================
