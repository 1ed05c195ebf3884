---------------------------- MODULE GatewayProofs ----------------------------
(***************************************************************************)
(* Proofs about the gateway of one room, for every number of connections,  *)
(* players, waiting handlers, matches and failing store calls.             *)
(***************************************************************************)
EXTENDS Gateway, SequenceTheorems, TLAPS

-----------------------------------------------------------------------------
(* Types *)

Id == Player \cup {NoPlayer}
Slot == Socket \cup {NoSocket}

SocketRecord ==
    [conn : {"none", "open", "closing"}, kind : Kind, authed : BOOLEAN, player : Id,
     private : BOOLEAN, replaced : BOOLEAN, current : BOOLEAN, unseen : SUBSET Player]

Sockets == [Socket -> SocketRecord]

RoomRecord ==
    [there : BOOLEAN, lobby : BOOLEAN, deal : Nat, host : BOOLEAN,
     status : [Player -> {"none", "connected", "disconnected", "left"}],
     roles : [Player -> Nat]]

Told == [player : Id, deal : Nat]

OpRecord ==
    [kind : {"join", "leave", "event", "gone", "hostGone", "reconnected", "hostReconnected",
             "session", "resolve", "resolveHost", "forget"},
     ws : Socket, player : Id]

TypeOK ==
    /\ sock \in Sockets
    /\ host \in Slot /\ players \in [Player -> Slot]
    /\ room \in RoomRecord
    /\ sessions \subseteq Player /\ late \subseteq Player
    /\ queue \in Seq(OpRecord) /\ pending \subseteq OpRecord
    /\ told \in [Socket -> Told]
    /\ faults \in Nat

-----------------------------------------------------------------------------
(* What the operators on sockets change *)

\* The identity of every socket is the same in s and t.
SameIdentity(s, t) ==
    \A v \in Socket : /\ t[v].kind = s[v].kind /\ t[v].authed = s[v].authed
                      /\ t[v].player = s[v].player /\ t[v].replaced = s[v].replaced

\* From s to t sockets may begin to close, and that is all that happens to connections.
OnlyCloses(s, t) ==
    \A v \in Socket : t[v].conn = s[v].conn \/ (s[v].conn = "open" /\ t[v].conn = "closing")

\* What was shown on each socket is the same in s and t.
SameShown(s, t) ==
    \A v \in Socket : /\ t[v].private = s[v].private
                      /\ t[v].current = s[v].current /\ t[v].unseen = s[v].unseen

\* ws.close() begins the close of one socket.
LEMMA CloseFacts ==
    ASSUME NEW s \in Sockets, NEW w \in Socket
    PROVE  /\ CloseIn(s, w) \in Sockets
           /\ SameIdentity(s, CloseIn(s, w)) /\ OnlyCloses(s, CloseIn(s, w))
           /\ SameShown(s, CloseIn(s, w))
           /\ CloseIn(s, w)[w].conn # "open"
           /\ \A v \in Socket \ {w} : CloseIn(s, w)[v] = s[v]
BY DEF CloseIn, Sockets, SocketRecord, SameIdentity, OnlyCloses, SameShown

\* Nothing is current any more.
LEMMA StaleFacts ==
    ASSUME NEW s \in Sockets
    PROVE  /\ Stale(s) \in Sockets
           /\ SameIdentity(s, Stale(s))
           /\ \A v \in Socket : /\ Stale(s)[v].conn = s[v].conn
                                /\ Stale(s)[v].private = s[v].private
                                /\ Stale(s)[v].current = FALSE
BY DEF Stale, Sockets, SocketRecord, SameIdentity

\* The player a view is built for is one of the addressees.
LEMMA FirstAddresseeFacts ==
    ASSUME NEW s, NEW pl, NEW r, NEW w, Addressees(pl, r, w) # {}
    PROVE  /\ FirstAddressee(s, pl, r, w) \in Addressees(pl, r, w)
           /\ FirstAddressee(s, pl, r, w) \in Player
<1> DEFINE ps == Addressees(pl, r, w)
<1>1. ps \subseteq Player
  BY DEF Addressees
<1>2. CASE ps \ {s[w].player} # {}
  <2>1. \E p \in ps : p # s[w].player
    BY <1>2
  <2>2. (CHOOSE p \in ps : p # s[w].player) \in ps
    BY <2>1
  <2> HIDE DEF ps
  <2> QED BY <1>1, <1>2, <2>2 DEF FirstAddressee, ps
<1>3. CASE ps \ {s[w].player} = {}
  <2>1. s[w].player \in ps
    BY <1>3
  <2> HIDE DEF ps
  <2> QED BY <1>1, <1>3, <2>1 DEF FirstAddressee, ps
<1> QED BY <1>2, <1>3

\* A broadcast shows the room to every open socket in the registry, and tells a role where
\* one is owed; it changes nothing else about a socket.
LEMMA BroadcastFacts ==
    ASSUME NEW s \in Sockets, NEW h, NEW pl, NEW r \in RoomRecord,
           told \in [Socket -> Told], Broadcast(s, h, pl, r)
    PROVE  /\ sock' \in Sockets /\ told' \in [Socket -> Told]
           /\ SameIdentity(s, sock')
           /\ \A v \in Socket :
                 /\ sock'[v].conn = s[v].conn
                 /\ IsShown(s, h, pl, r, v) => sock'[v].current /\ sock'[v].unseen = {}
                 /\ s[v].private => sock'[v].private /\ told'[v] = told[v]
                 /\ OwesPrivate(s, pl, r, v) =>
                       /\ sock'[v].private
                       /\ s[v].conn = "open" =>
                             told'[v] = [player |-> FirstAddressee(s, pl, r, v),
                                         deal |-> r.roles[FirstAddressee(s, pl, r, v)]]
                 /\ (~s[v].private /\ sock'[v].private) => OwesPrivate(s, pl, r, v)
<1> DEFINE t == SocketsAfterBroadcast(s, h, pl, r)
           u == ToldAfterBroadcast(s, h, pl, r)
<1>1. \A v \in Socket : OwesPrivate(s, pl, r, v) \in BOOLEAN
  BY DEF OwesPrivate
<1>2. \A v \in Socket : OwesPrivate(s, pl, r, v) => ~s[v].private /\ Addressees(pl, r, v) # {}
  BY DEF OwesPrivate
<1>3. \A v \in Socket : OwesPrivate(s, pl, r, v) =>
         FirstAddressee(s, pl, r, v) \in Player /\ r.roles[FirstAddressee(s, pl, r, v)] \in Nat
  <2> TAKE v \in Socket
  <2> HAVE OwesPrivate(s, pl, r, v)
  <2>1. FirstAddressee(s, pl, r, v) \in Player
    BY <1>2, FirstAddresseeFacts
  <2> QED BY <2>1 DEF RoomRecord
<1>4. \A v \in Socket :
         /\ t[v] \in SocketRecord
         /\ t[v].kind = s[v].kind /\ t[v].authed = s[v].authed /\ t[v].player = s[v].player
         /\ t[v].replaced = s[v].replaced /\ t[v].conn = s[v].conn
         /\ IsShown(s, h, pl, r, v) => t[v].current /\ t[v].unseen = {}
         /\ t[v].private = (s[v].private \/ OwesPrivate(s, pl, r, v))
  <2>1. \A v \in Socket : IsShown(s, h, pl, r, v) \in BOOLEAN
    BY DEF IsShown
  <2> QED BY <1>1, <2>1 DEF SocketsAfterBroadcast, Sockets, SocketRecord
<1>5. t \in Sockets
  BY <1>4 DEF SocketsAfterBroadcast, Sockets
<1>6. u \in [Socket -> Told]
  BY <1>3 DEF ToldAfterBroadcast, Told, Id
<1>7. \A v \in Socket :
         /\ ~OwesPrivate(s, pl, r, v) => u[v] = told[v]
         /\ OwesPrivate(s, pl, r, v) /\ s[v].conn = "open" =>
               u[v] = [player |-> FirstAddressee(s, pl, r, v),
                       deal |-> r.roles[FirstAddressee(s, pl, r, v)]]
  BY DEF ToldAfterBroadcast
<1>8. SameIdentity(s, t)
  BY <1>4 DEF SameIdentity
<1>9. \A v \in Socket : s[v].private \in BOOLEAN /\ t[v].private \in BOOLEAN
  BY <1>5 DEF Sockets, SocketRecord
<1> HIDE DEF t, u
<1>10. \A v \in Socket :
         /\ s[v].private => t[v].private /\ u[v] = told[v]
         /\ OwesPrivate(s, pl, r, v) => t[v].private
         /\ (~s[v].private /\ t[v].private) => OwesPrivate(s, pl, r, v)
  BY <1>2, <1>4, <1>7, <1>9
<1>11. sock' = t /\ told' = u
  BY DEF Broadcast, t, u
<1> QED BY <1>4, <1>5, <1>6, <1>7, <1>8, <1>10, <1>11

\* The mark of a socket that another has taken over from.
LEMMA MarkFacts ==
    ASSUME NEW s \in Sockets, NEW w \in Socket
    PROVE  LET t == [s EXCEPT ![w].replaced = TRUE]
           IN  /\ t \in Sockets
               /\ t[w].replaced
               /\ \A v \in Socket \ {w} : t[v] = s[v]
               /\ \A v \in Socket :
                     /\ t[v].kind = s[v].kind /\ t[v].current = s[v].current
                     /\ t[v].conn = s[v].conn /\ t[v].authed = s[v].authed
                     /\ t[v].player = s[v].player /\ t[v].private = s[v].private
BY DEF Sockets, SocketRecord

\* Binding a socket to an identity whose slot held another: the socket gets the identity,
\* unless it has closed, and the other one is marked as replaced and closed.
LEMMA BindFacts ==
    ASSUME TypeOK, NEW w \in Socket, NEW p \in Id, NEW previous \in Slot
    PROVE  LET t == Replace(Identify(sock, w, p), previous, w)
           IN  /\ t \in Sockets
               /\ OnlyCloses(sock, t)
               /\ \A v \in Socket :
                     /\ t[v].kind = sock[v].kind /\ t[v].current = sock[v].current
                     /\ v # w \/ ~Known(w) =>
                           /\ t[v].authed = sock[v].authed /\ t[v].player = sock[v].player
                           /\ t[v].private = sock[v].private
                     /\ v = w /\ Known(w) => t[v].authed /\ t[v].player = p /\ ~t[v].private
                     /\ v = w => t[v].conn = sock[v].conn
                     /\ v = w \/ v # previous =>
                           t[v].conn = sock[v].conn /\ t[v].replaced = sock[v].replaced
                     /\ v # w /\ v = previous =>
                           /\ t[v].conn # "open"
                           /\ Known(v) => t[v].replaced
                           /\ ~Known(v) => t[v].replaced = sock[v].replaced
<1> DEFINE s == Identify(sock, w, p)
           t == Replace(s, previous, w)
<1>0. sock \in Sockets /\ NoSocket \notin Socket
  BY GatewayAssumption DEF TypeOK
<1>1. /\ s \in Sockets
      /\ \A v \in Socket :
            /\ s[v].kind = sock[v].kind /\ s[v].current = sock[v].current
            /\ s[v].conn = sock[v].conn /\ s[v].replaced = sock[v].replaced
            /\ v # w \/ ~Known(w) =>
                  /\ s[v].authed = sock[v].authed /\ s[v].player = sock[v].player
                  /\ s[v].private = sock[v].private
            /\ v = w /\ Known(w) => s[v].authed /\ s[v].player = p /\ ~s[v].private
  <2>1. CASE Known(w)
    <3>1. s = [sock EXCEPT ![w].authed = TRUE, ![w].private = FALSE, ![w].player = p]
      BY <2>1 DEF Identify
    <3>2. s[w] = [sock[w] EXCEPT !.authed = TRUE, !.private = FALSE, !.player = p]
      BY <1>0, <3>1 DEF Sockets
    <3>3. \A v \in Socket : v # w => s[v] = sock[v]
      BY <1>0, <3>1 DEF Sockets
    <3>4. sock[w] \in SocketRecord
      BY <1>0 DEF Sockets
    <3>5. s[w] \in SocketRecord /\ s[w].authed /\ s[w].player = p /\ ~s[w].private
      BY <3>2, <3>4 DEF SocketRecord
    <3>6. /\ s[w].kind = sock[w].kind /\ s[w].current = sock[w].current
          /\ s[w].conn = sock[w].conn /\ s[w].replaced = sock[w].replaced
      BY <3>2, <3>4 DEF SocketRecord
    <3>7. s \in Sockets
      BY <1>0, <3>1, <3>3, <3>5 DEF Sockets
    <3> HIDE DEF s
    <3> QED BY <2>1, <3>3, <3>5, <3>6, <3>7
  <2>2. CASE ~Known(w)
    BY <1>0, <2>2 DEF Identify
  <2> QED BY <2>1, <2>2
<1> HIDE DEF s
<1>2. CASE previous \in {NoSocket, w} \/ ~Known(previous)
  <2>1. t = s
    BY <1>2 DEF Replace
  <2>2. previous \in Socket \ {w} => sock[previous].conn = "none"
    BY <1>0, <1>2 DEF Known
  <2>3. OnlyCloses(sock, t)
    BY <1>1, <2>1 DEF OnlyCloses
  <2>4. \A v \in Socket : v # w /\ v = previous => sock[v].conn = "none"
    BY <2>2
  <2> HIDE DEF t
  <2>5. \A v \in Socket :
           /\ v # w /\ v = previous => t[v].conn # "open" /\ ~Known(v)
           /\ t[v].replaced = sock[v].replaced
    BY <1>1, <2>1, <2>4 DEF Known
  <2> QED BY <1>1, <2>1, <2>3, <2>5 DEF t, s
<1>3. CASE ~(previous \in {NoSocket, w} \/ ~Known(previous))
  <2>0. previous \in Socket /\ previous # w /\ Known(previous)
    BY <1>3 DEF Slot
  <2> DEFINE m == [s EXCEPT ![previous].replaced = TRUE]
  <2>1. /\ m \in Sockets
        /\ m[previous].replaced
        /\ \A v \in Socket \ {previous} : m[v] = s[v]
        /\ \A v \in Socket :
              /\ m[v].kind = s[v].kind /\ m[v].current = s[v].current
              /\ m[v].conn = s[v].conn /\ m[v].authed = s[v].authed
              /\ m[v].player = s[v].player /\ m[v].private = s[v].private
    BY <1>1, <2>0, MarkFacts
  <2>2. t = CloseIn(m, previous)
    BY <1>3 DEF Replace
  <2> HIDE DEF m, t
  <2>3. /\ t \in Sockets
        /\ SameIdentity(m, t) /\ OnlyCloses(m, t) /\ SameShown(m, t)
        /\ t[previous].conn # "open"
        /\ \A v \in Socket \ {previous} : t[v] = m[v]
    BY <2>0, <2>1, <2>2, CloseFacts
  <2>4. \A v \in Socket :
           /\ t[v].kind = s[v].kind /\ t[v].current = s[v].current
           /\ t[v].authed = s[v].authed /\ t[v].player = s[v].player
           /\ t[v].private = s[v].private
           /\ t[v].conn = s[v].conn \/ (s[v].conn = "open" /\ t[v].conn = "closing")
           /\ v # previous => t[v].conn = s[v].conn /\ t[v].replaced = s[v].replaced
           /\ v = previous => t[v].conn # "open" /\ t[v].replaced
    <3>1. \A v \in Socket : v # previous => t[v] = m[v] /\ m[v] = s[v]
      BY <2>1, <2>3
    <3>2. \A v \in Socket : v = previous => t[v].replaced
      BY <2>0, <2>1, <2>3 DEF SameIdentity
    <3>3. \A v \in Socket :
             \/ t[v].conn = s[v].conn
             \/ s[v].conn = "open" /\ t[v].conn = "closing"
      BY <2>1, <2>3 DEF OnlyCloses
    <3>4. \A v \in Socket :
             /\ t[v].kind = s[v].kind /\ t[v].current = s[v].current
             /\ t[v].authed = s[v].authed /\ t[v].player = s[v].player
             /\ t[v].private = s[v].private
      BY <2>1, <2>3 DEF SameIdentity, SameShown
    <3> QED BY <2>3, <3>1, <3>2, <3>3, <3>4
  <2>5. t \in Sockets /\ OnlyCloses(sock, t)
    BY <1>1, <2>3, <2>4 DEF OnlyCloses
  <2> QED BY <1>1, <2>0, <2>4, <2>5 DEF t, s
<1> QED BY <1>2, <1>3

\* Closing the sockets of a room that is gone.
LEMMA EvictFacts ==
    ASSUME NEW s \in Sockets
    PROVE  /\ Evict(s) \in Sockets
           /\ SameIdentity(s, Evict(s)) /\ OnlyCloses(s, Evict(s)) /\ SameShown(s, Evict(s))
<1>1. \A w \in Socket :
        /\ CloseIn(s, w)[w] \in SocketRecord
        /\ CloseIn(s, w)[w].kind = s[w].kind /\ CloseIn(s, w)[w].authed = s[w].authed
        /\ CloseIn(s, w)[w].player = s[w].player
        /\ CloseIn(s, w)[w].replaced = s[w].replaced
        /\ CloseIn(s, w)[w].private = s[w].private
        /\ CloseIn(s, w)[w].current = s[w].current /\ CloseIn(s, w)[w].unseen = s[w].unseen
        /\ \/ CloseIn(s, w)[w].conn = s[w].conn
           \/ s[w].conn = "open" /\ CloseIn(s, w)[w].conn = "closing"
  BY CloseFacts DEF Sockets, SameIdentity, OnlyCloses, SameShown
<1>2. \A w \in Socket : Evict(s)[w] = CloseIn(s, w)[w] \/ Evict(s)[w] = s[w]
  BY DEF Evict
<1>3. Evict(s) \in Sockets
  BY <1>1 DEF Evict, Sockets
<1> QED BY <1>1, <1>2, <1>3 DEF SameIdentity, OnlyCloses, SameShown

-----------------------------------------------------------------------------
(* What the operations on the queue and on the room change *)

\* An operation at the end of the queue leaves the others where they are.
LEMMA AppendOp ==
    ASSUME NEW q \in Seq(OpRecord), NEW op \in OpRecord
    PROVE  /\ Append(q, op) \in Seq(OpRecord)
           /\ Len(q) \in Nat
           /\ Len(Append(q, op)) = Len(q) + 1
           /\ \A i \in 1 .. Len(q) : Append(q, op)[i] = q[i]
           /\ Append(q, op)[Len(q) + 1] = op
BY AppendProperties, LenProperties

\* The queue without its first operation.
LEMMA TailOp ==
    ASSUME NEW q \in Seq(OpRecord), q # <<>>
    PROVE  /\ Head(q) \in OpRecord /\ Head(q) = q[1]
           /\ Tail(q) \in Seq(OpRecord)
           /\ Len(q) \in Nat /\ Len(q) >= 1 /\ Len(Tail(q)) = Len(q) - 1
           /\ \A i \in 1 .. Len(Tail(q)) : i + 1 \in 1 .. Len(q) /\ Tail(q)[i] = q[i + 1]
<1>1. Len(q) \in Nat \ {0}
  BY EmptySeq
<1>2. q[1] = Head(q)
  OBVIOUS
<1> QED BY <1>1, <1>2, HeadTailProperties

\* An operation's record.
LEMMA OpType ==
    ASSUME NEW kind, NEW w, NEW p
    PROVE  /\ Op(kind, w, p).kind = kind /\ Op(kind, w, p).ws = w /\ Op(kind, w, p).player = p
BY DEF Op

\* The room with one player's status changed.
LEMMA StatusFacts ==
    ASSUME NEW p \in Player, room \in RoomRecord,
           NEW status \in {"none", "connected", "disconnected", "left"}
    PROVE  LET r == [room EXCEPT !.status[p] = status]
           IN  /\ r \in RoomRecord
               /\ r.there = room.there /\ r.lobby = room.lobby /\ r.roles = room.roles
               /\ r.status = [room.status EXCEPT ![p] = status]
BY DEF RoomRecord

\* The room without a player.
LEMMA LeftFacts ==
    ASSUME NEW p \in Player, room \in RoomRecord
    PROVE  LET r == [room EXCEPT !.status[p] = "left", !.roles[p] = 0]
           IN  /\ r \in RoomRecord
               /\ r.there = room.there /\ r.lobby = room.lobby
               /\ r.roles = [room.roles EXCEPT ![p] = 0]
               /\ r.status = [room.status EXCEPT ![p] = "left"]
BY DEF RoomRecord

\* The room when roles have been dealt.
LEMMA DealtFacts ==
    ASSUME room \in RoomRecord
    PROVE  LET r == [room EXCEPT !.lobby = FALSE, !.deal = @ + 1,
                        !.roles = [p \in Player |-> IF InRoster(p) THEN room.deal + 1 ELSE 0]]
           IN  /\ r \in RoomRecord
               /\ r.there = room.there /\ r.status = room.status
<1> DEFINE dealt == [p \in Player |-> IF InRoster(p) THEN room.deal + 1 ELSE 0]
<1>1. dealt \in [Player -> Nat]
  BY DEF RoomRecord
<1>2. ASSUME NEW roles \in [Player -> Nat], NEW deal \in Nat
      PROVE  LET r == [room EXCEPT !.lobby = FALSE, !.deal = deal, !.roles = roles]
             IN  /\ r \in RoomRecord
                 /\ r.there = room.there /\ r.status = room.status
  BY DEF RoomRecord
<1>3. room.deal + 1 \in Nat
  BY DEF RoomRecord
<1> QED BY <1>1, <1>2, <1>3

-----------------------------------------------------------------------------
(* Types are kept *)

\* Showing a room.
LEMMA ShowFacts ==
    ASSUME TypeOK, NEW r \in RoomRecord, Show(r)
    PROVE  /\ room' = r /\ room' \in RoomRecord
           /\ sock' \in Sockets /\ told' \in [Socket -> Told]
           /\ Stale(sock) \in Sockets
           /\ Broadcast(Stale(sock), host, players, room')
           /\ SameIdentity(sock, sock')
           /\ \A v \in Socket : sock'[v].conn = sock[v].conn
<1>1. Stale(sock) \in Sockets /\ SameIdentity(sock, Stale(sock))
      /\ \A v \in Socket : Stale(sock)[v].conn = sock[v].conn
  BY StaleFacts DEF TypeOK
<1>2. sock' \in Sockets /\ told' \in [Socket -> Told] /\ SameIdentity(Stale(sock), sock')
      /\ \A v \in Socket : sock'[v].conn = Stale(sock)[v].conn
  <2> DEFINE s == Stale(sock)
  <2>1. s \in Sockets
    BY <1>1
  <2>2. Broadcast(s, host, players, r)
    BY DEF Show
  <2>3. told \in [Socket -> Told]
    BY DEF TypeOK
  <2> HIDE DEF s
  <2>4. sock' \in Sockets /\ told' \in [Socket -> Told] /\ SameIdentity(s, sock')
        /\ \A v \in Socket : sock'[v].conn = s[v].conn
    BY <2>1, <2>2, <2>3, BroadcastFacts
  <2> QED BY <2>4 DEF s
<1>3. SameIdentity(sock, sock')
  BY <1>1, <1>2 DEF SameIdentity
<1> QED BY <1>1, <1>2, <1>3 DEF Show

\* A player who joins over HTTP is unseen, and nothing else becomes of the sockets.
LEMMA HttpJoinFacts ==
    ASSUME TypeOK, NEW p \in Player, HttpJoin(p)
    PROVE  /\ sock' \in Sockets
           /\ SameIdentity(sock, sock') /\ OnlyCloses(sock, sock')
           /\ \A v \in Socket :
                 /\ sock'[v].conn = sock[v].conn /\ sock'[v].private = sock[v].private
                 /\ sock'[v].current = sock[v].current
                 /\ \A q \in Player : q \in sock'[v].unseen => q \in sock[v].unseen \/ q = p
<1>1. sock \in Sockets
  BY DEF TypeOK
<1>2. sock' = [w \in Socket |->
                 IF sock[w].current THEN [sock[w] EXCEPT !.unseen = @ \cup {p}] ELSE sock[w]]
  BY DEF HttpJoin
<1>3. ASSUME NEW v \in Socket
      PROVE  /\ sock'[v] \in SocketRecord
             /\ sock'[v].kind = sock[v].kind /\ sock'[v].authed = sock[v].authed
             /\ sock'[v].player = sock[v].player /\ sock'[v].replaced = sock[v].replaced
             /\ sock'[v].conn = sock[v].conn /\ sock'[v].private = sock[v].private
             /\ sock'[v].current = sock[v].current
             /\ \A q \in Player : q \in sock'[v].unseen => q \in sock[v].unseen \/ q = p
  <2>1. sock[v] \in SocketRecord
    BY <1>1 DEF Sockets
  <2>2. CASE sock[v].current
    <3>1. sock'[v] = [sock[v] EXCEPT !.unseen = @ \cup {p}]
      BY <1>2, <2>2
    <3> QED BY <2>1, <3>1 DEF SocketRecord
  <2>3. CASE ~sock[v].current
    <3>1. sock'[v] = sock[v]
      BY <1>2, <2>3
    <3> QED BY <2>1, <3>1
  <2> QED BY <2>2, <2>3
<1>4. sock' \in Sockets
  BY <1>2, <1>3 DEF Sockets
<1> QED BY <1>3, <1>4 DEF SameIdentity, OnlyCloses

\* A message is queued, or waits for the repository.
LEMMA AskTypes ==
    ASSUME TypeOK, NEW w \in Socket, Ask(w)
    PROVE  TypeOK'
<1>1. \A p \in Id : \A kind \in {"join", "leave", "event", "resolve", "resolveHost"} :
         Op(kind, w, p) \in OpRecord
  BY DEF Op, OpRecord
<1>2. sock[w].player \in Id /\ NoPlayer \in Id /\ \A p \in Player : p \in Id
  BY DEF TypeOK, Sockets, SocketRecord, Id
<1>3. CASE AskJoin(w) \/ AskLeave(w) \/ AskEvent(w)
  <2>1. queue' \in Seq(OpRecord)
    <3>1. PICK op \in OpRecord : queue' = Append(queue, op)
      BY <1>1, <1>2, <1>3 DEF AskJoin, AskLeave, AskEvent, Enqueue
    <3> QED BY <3>1, AppendOp DEF TypeOK
  <2> QED BY <1>3, <2>1 DEF AskJoin, AskLeave, AskEvent, registry, TypeOK
<1>4. CASE AskHost(w)
  BY <1>1, <1>2, <1>4 DEF AskHost, registry, TypeOK
<1>5. ASSUME NEW p \in Player, AskReconnect(w, p) PROVE TypeOK'
  BY <1>1, <1>2, <1>5 DEF AskReconnect, registry, TypeOK
<1> QED BY <1>3, <1>4, <1>5 DEF Ask

\* Connections come and go.
LEMMA ConnectionTypes ==
    ASSUME TypeOK, NEW w \in Socket,
           \/ \E kind \in Kind : Connect(w, kind)
           \/ AuthTimeout(w) \/ Violate(w) \/ PeerCloses(w) \/ Heartbeat(w)
    PROVE  TypeOK'
<1>1. \A kind \in Kind : \A conn \in {"none", "open"} : Fresh(kind, conn) \in SocketRecord
  BY DEF Fresh, SocketRecord, Id
<1>2. ASSUME NEW kind \in Kind, Connect(w, kind) PROVE TypeOK'
  BY <1>1, <1>2 DEF Connect, Sockets, registry, TypeOK
<1>3. CASE AuthTimeout(w) \/ Violate(w)
  BY <1>3, CloseFacts DEF AuthTimeout, Violate, registry, TypeOK
<1>4. CASE HandleClose(w)
  <2>1. Absent \in SocketRecord
    BY <1>1 DEF Absent, Kind
  <2>2. Untold \in Told
    BY DEF Untold, Told, Id
  <2>3. sock' \in Sockets
    BY <1>4, <2>1 DEF HandleClose, Sockets, TypeOK
  <2>4. told' \in [Socket -> Told]
    BY <1>4, <2>2 DEF HandleClose, TypeOK
  <2>5. host' \in Slot
    BY <1>4 DEF HandleClose, HostWithout, Slot, TypeOK
  <2>6. players' \in [Player -> Slot]
    BY <1>4 DEF HandleClose, PlayersWithout, Slot, TypeOK
  <2>7. sock[w].player \in Id
    BY DEF TypeOK, Sockets, SocketRecord
  <2>8. \A kind \in {"gone", "hostGone"} : Op(kind, w, sock[w].player) \in OpRecord
    BY <2>7 DEF Op, OpRecord
  <2>9. queue' \in Seq(OpRecord)
    BY <1>4, <2>8, AppendOp DEF HandleClose, TypeOK
  <2> QED BY <1>4, <2>3, <2>4, <2>5, <2>6, <2>9 DEF HandleClose, TypeOK
<1> QED BY <1>2, <1>3, <1>4 DEF PeerCloses, Heartbeat

\* After the session repository has answered.
LEMMA RepositoryTypes ==
    ASSUME TypeOK, NEW op \in pending, Joined(op) \/ Resolved(op) \/ HostResolved(op) \/ Forgotten(op),
           op.kind \in {"session", "resolve", "forget"} => op.player \in Player
    PROVE  TypeOK'
<1> DEFINE w == op.ws
           p == op.player
<1>1. op \in OpRecord /\ w \in Socket /\ p \in Id
  BY DEF TypeOK, OpRecord
<1>2. pending \ {op} \subseteq OpRecord
  BY DEF TypeOK
<1>3. ASSUME p \in Player, BindPlayer(w, p)
      PROVE  /\ players' \in [Player -> Slot] /\ late' \subseteq Player /\ players[p] \in Slot
             /\ Replace(Identify(sock, w, p), players[p], w) \in Sockets
  <2>1. players' \in [Player -> Slot] /\ players[p] \in Slot
    BY <1>1, <1>3 DEF BindPlayer, TypeOK, Slot
  <2>2. late' \subseteq Player
    <3>1. sock[w].player \in Id
      BY <1>1 DEF TypeOK, Sockets, SocketRecord
    <3> QED BY <1>3, <3>1 DEF BindPlayer, TypeOK, Id
  <2> QED BY <1>1, <2>1, <2>2, BindFacts
<1>4. CASE Joined(op)
  <2>1. p \in Player
    BY <1>4 DEF Joined
  <2> DEFINE s == Replace(Identify(sock, w, p), players[p], w)
  <2>2. /\ BindPlayer(w, p) /\ Broadcast(s, host, players', room)
        /\ pending' = pending \ {op} /\ sessions' = sessions \cup {p}
        /\ UNCHANGED <<host, room, queue, faults>>
    BY <1>4 DEF Joined, BindPlayer
  <2>3. s \in Sockets /\ players' \in [Player -> Slot] /\ late' \subseteq Player
    BY <1>3, <2>1, <2>2
  <2> HIDE DEF s
  <2>4. sock' \in Sockets /\ told' \in [Socket -> Told]
    BY <2>2, <2>3, BroadcastFacts DEF TypeOK
  <2> QED BY <1>2, <2>1, <2>2, <2>3, <2>4 DEF TypeOK
<1>5. CASE Resolved(op)
  <2>1. p \in Player
    BY <1>5 DEF Resolved
  <2>2. CASE p \in sessions
    <3>1. /\ BindPlayer(w, p) /\ sock' = Replace(Identify(sock, w, p), players[p], w)
          /\ queue' = Append(queue, Op("reconnected", w, p))
          /\ pending' = pending \ {op}
          /\ UNCHANGED <<host, room, sessions, told, faults>>
      BY <1>5, <2>2 DEF Resolved, BindPlayer, Enqueue
    <3>2. Op("reconnected", w, p) \in OpRecord
      BY <1>1 DEF Op, OpRecord
    <3>3. queue' \in Seq(OpRecord)
      BY <3>1, <3>2, AppendOp DEF TypeOK
    <3>4. sock' \in Sockets /\ players' \in [Player -> Slot] /\ late' \subseteq Player
      BY <1>3, <2>1, <3>1
    <3> QED BY <1>2, <3>1, <3>3, <3>4 DEF TypeOK
  <2>3. CASE p \notin sessions
    BY <1>2, <1>5, <2>3 DEF Resolved, registry, TypeOK
  <2> QED BY <2>2, <2>3
<1>6. CASE HostResolved(op)
  <2>1. CASE room.there
    <3>1. /\ sock' = Replace(Identify(sock, w, NoPlayer), host, w) /\ host' = w
          /\ queue' = Append(queue, Op("hostReconnected", w, NoPlayer))
          /\ pending' = pending \ {op}
          /\ UNCHANGED <<players, room, sessions, told, faults, late>>
      BY <1>6, <2>1 DEF HostResolved, Enqueue
    <3>2. Op("hostReconnected", w, NoPlayer) \in OpRecord /\ NoPlayer \in Id
      BY <1>1 DEF Op, OpRecord, Id
    <3>3. queue' \in Seq(OpRecord)
      BY <3>1, <3>2, AppendOp DEF TypeOK
    <3>4. host \in Slot /\ host' \in Slot
      BY <1>1, <3>1 DEF TypeOK, Slot
    <3>5. sock' \in Sockets
      BY <1>1, <3>1, <3>2, <3>4, BindFacts
    <3> QED BY <1>2, <3>1, <3>3, <3>4, <3>5 DEF TypeOK
  <2>2. CASE ~room.there
    BY <1>2, <1>6, <2>2 DEF HostResolved, TypeOK
  <2> QED BY <2>1, <2>2
<1>7. CASE Forgotten(op)
  <2> DEFINE s == CloseIn(sock, w)
  <2>1. /\ Broadcast(s, host, players', room) /\ players' = PlayersWithout(w, p)
        /\ pending' = pending \ {op} /\ sessions' = sessions \ {p}
        /\ UNCHANGED <<host, room, queue, faults, late>>
    BY <1>7 DEF Forgotten
  <2>2. s \in Sockets
    BY <1>1, CloseFacts DEF TypeOK
  <2>3. players' \in [Player -> Slot]
    BY <2>1 DEF PlayersWithout, TypeOK, Slot
  <2> HIDE DEF s
  <2>4. sock' \in Sockets /\ told' \in [Socket -> Told]
    BY <2>1, <2>2, BroadcastFacts DEF TypeOK
  <2> QED BY <1>2, <2>1, <2>3, <2>4 DEF TypeOK
<1> QED BY <1>4, <1>5, <1>6, <1>7

\* The operations of the actor: queue, room and sockets.
LEMMA ActorTypes ==
    ASSUME TypeOK, ActorStep \/ ActorFails,
           queue # <<>> => (Head(queue).kind \in {"leave", "gone", "reconnected"}
                               => Head(queue).player \in Player)
    PROVE  TypeOK'
<1>1. queue # <<>> /\ queue' = Tail(queue)
  BY DEF ActorStep, JoinAccepted, LeaveAccepted, Rejected, Accepted, Dealt, StatusChange,
         HostChange, RoomMissing, ActorFails, Take
<1>2. queue' \in Seq(OpRecord) /\ Head(queue) \in OpRecord
  BY <1>1, TailOp DEF TypeOK
<1>3. \A p \in Player : \A kind \in {"session", "forget"} : Op(kind, Head(queue).ws, p) \in OpRecord
  BY <1>2 DEF Op, OpRecord, Id
<1>4. Stale(sock) \in Sockets
  BY StaleFacts DEF TypeOK
<1>5. ASSUME NEW r \in RoomRecord, Show(r), Ours, pending' = pending PROVE TypeOK'
  BY <1>2, <1>5, ShowFacts DEF Ours, registry, TypeOK
<1>6. ASSUME NEW p \in Player, JoinAccepted(p) PROVE TypeOK'
  <2>1. room' \in RoomRecord
    BY <1>6, StatusFacts DEF JoinAccepted, TypeOK
  <2> QED BY <1>2, <1>3, <1>4, <1>6, <2>1 DEF JoinAccepted, Ours, registry, TypeOK
<1>7. CASE LeaveAccepted
  <2> DEFINE p == Head(queue).player
  <2>1. p \in Player
    BY <1>1, <1>7 DEF LeaveAccepted, Take
  <2>2. /\ room' = [room EXCEPT !.status[p] = "left", !.roles[p] = 0]
        /\ sock' = Stale(sock) /\ pending' = pending \cup {Op("forget", Head(queue).ws, p)}
        /\ UNCHANGED <<registry, sessions, told, faults, late>>
    BY <1>7 DEF LeaveAccepted, Ours
  <2>3. room' \in RoomRecord
    BY <2>1, <2>2, LeftFacts DEF TypeOK
  <2> QED BY <1>2, <1>3, <1>4, <2>1, <2>2, <2>3 DEF registry, TypeOK
<1>8. CASE Rejected \/ ActorFails
  BY <1>2, <1>8 DEF Rejected, ActorFails, Fault, Ours, registry, TypeOK
<1>9. CASE Accepted
  BY <1>5, <1>9 DEF Accepted, TypeOK
<1>10. CASE Dealt
  <2>1. PICK r \in RoomRecord : Show(r)
    BY <1>10, DealtFacts DEF Dealt, TypeOK
  <2> QED BY <1>5, <1>10, <2>1 DEF Dealt
<1>11. ASSUME NEW kind \in {"gone", "reconnected"}, NEW status \in {"connected", "disconnected"},
              StatusChange(kind, status)
       PROVE  TypeOK'
  <2>1. Head(queue).player \in Player
    BY <1>1, <1>11 DEF StatusChange, Take
  <2>2. PICK r \in RoomRecord : Show(r)
    BY <1>11, <2>1, StatusFacts DEF StatusChange, TypeOK
  <2> QED BY <1>5, <1>11, <2>2 DEF StatusChange
<1>12. ASSUME NEW kind, NEW there \in BOOLEAN, HostChange(kind, there) PROVE TypeOK'
  <2>1. [room EXCEPT !.host = there] \in RoomRecord
    BY DEF TypeOK, RoomRecord
  <2> QED BY <1>5, <1>12, <2>1 DEF HostChange
<1>13. CASE RoomMissing
  <2>1. sock' \in Sockets
    BY <1>13, EvictFacts DEF RoomMissing, TypeOK
  <2> QED BY <1>2, <1>13, <2>1 DEF RoomMissing, registry, TypeOK
<1> QED BY <1>6, <1>7, <1>8, <1>9, <1>10, <1>11, <1>12, <1>13 DEF ActorStep

\* What is left: a player over HTTP, a process that ends, a timer, a room that expires.
LEMMA OtherTypes ==
    ASSUME TypeOK,
           (\E p \in Player : HttpJoin(p)) \/ RepositoryFails \/ TimerShows \/ RoomExpires
    PROVE  TypeOK'
<1>1. ASSUME NEW p \in Player, HttpJoin(p) PROVE TypeOK'
  BY <1>1, StatusFacts, HttpJoinFacts DEF HttpJoin, registry, TypeOK
<1>2. CASE RepositoryFails
  <2>1. Absent \in SocketRecord /\ Untold \in Told
    BY DEF Absent, Fresh, SocketRecord, Untold, Told, Id, Kind
  <2>2. queue' \in Seq(OpRecord) /\ pending' \subseteq OpRecord
    BY <1>2 DEF RepositoryFails
  <2> QED BY <1>2, <2>1, <2>2 DEF RepositoryFails, Fault, Sockets, Slot, TypeOK
<1>3. CASE TimerShows
  <2>1. PICK r \in RoomRecord : Show(r)
    <3>1. [room EXCEPT !.lobby = TRUE] \in RoomRecord
      BY DEF TypeOK, RoomRecord
    <3> QED BY <1>3, <3>1 DEF TimerShows
  <2> QED BY <1>3, <2>1, ShowFacts DEF TimerShows, Ours, registry, TypeOK
<1>4. CASE RoomExpires
  <2>1. room' \in RoomRecord
    BY <1>4 DEF RoomExpires, RoomRecord, TypeOK
  <2> QED BY <1>4, <2>1 DEF RoomExpires, registry, TypeOK
<1> QED BY <1>1, <1>2, <1>3, <1>4

-----------------------------------------------------------------------------
(* Who a socket is, and what an operation is about *)

\* Only an authenticated socket has an identity: the host's none, a player's the player.
Identified(m) ==
    /\ m.conn = "none" => ~m.authed
    /\ ~m.authed => m.player = NoPlayer
    /\ m.authed => (m.kind = "player" <=> m.player # NoPlayer)

\* An operation names a player if it is about one, and the socket that asked for it is of
\* the kind that may ask.
Fits(s, op) ==
    /\ op.kind \in {"session", "resolve", "forget", "leave", "gone", "reconnected"} =>
          op.player \in Player
    /\ op.kind \in {"join", "resolveHost", "hostGone", "hostReconnected"} => op.player = NoPlayer
    /\ s[op.ws].conn # "none" =>
          /\ op.kind \in {"join", "session", "resolve"} => s[op.ws].kind = "player"
          /\ op.kind = "resolveHost" => s[op.ws].kind = "host"

OpsFit ==
    /\ \A op \in pending : Fits(sock, op)
    /\ \A i \in 1 .. Len(queue) : Fits(sock, queue[i])

BaseInv ==
    /\ TypeOK
    /\ \A w \in Socket : Identified(sock[w])
    /\ OpsFit

\* No socket is known that was not, and the known ones are of the kind they were.
KeepsKinds ==
    \A v \in Socket : sock'[v].conn # "none" =>
        sock[v].conn # "none" /\ sock'[v].kind = sock[v].kind

\* The queue as it was, shortened, lost, or longer by an operation.
QueueMoves(op) ==
    \/ queue' = queue \/ queue' = <<>>
    \/ queue # <<>> /\ queue' = Tail(queue)
    \/ queue' = Append(queue, op)

\* Operations keep fitting while they wait.
LEMMA OpsKeepFitting ==
    ASSUME BaseInv, KeepsKinds, NEW new \in OpRecord, Fits(sock', new),
           pending' \subseteq pending \cup {new}, QueueMoves(new)
    PROVE  OpsFit'
<1>1. \A op \in OpRecord : Fits(sock, op) => Fits(sock', op)
  BY DEF Fits, KeepsKinds, OpRecord
<1>2. queue \in Seq(OpRecord) /\ pending \subseteq OpRecord
  BY DEF BaseInv, TypeOK
<1>3. \A op \in pending' : Fits(sock', op)
  BY <1>1, <1>2 DEF BaseInv, OpsFit
<1>4. \A i \in 1 .. Len(queue) : queue[i] \in OpRecord /\ Fits(sock', queue[i])
  BY <1>1, <1>2, ElementOfSeq DEF BaseInv, OpsFit
<1>5. \A i \in 1 .. Len(queue') : Fits(sock', queue'[i])
  <2>1. CASE queue' = queue
    BY <1>4, <2>1
  <2>2. CASE queue' = <<>>
    BY <2>2
  <2>3. CASE queue # <<>> /\ queue' = Tail(queue)
    BY <1>2, <1>4, <2>3, TailOp
  <2>4. CASE queue' = Append(queue, new)
    <3> TAKE i \in 1 .. Len(queue')
    <3>1. i \in 1 .. Len(queue) \/ i = Len(queue) + 1
      BY <1>2, <2>4, AppendOp
    <3> QED BY <1>2, <1>4, <2>4, <3>1, AppendOp
  <2> QED BY <2>1, <2>2, <2>3, <2>4 DEF QueueMoves
<1> QED BY <1>3, <1>5 DEF OpsFit

\* The same where no operation is new.
LEMMA OldOpsKeepFitting ==
    ASSUME BaseInv, KeepsKinds, pending' \subseteq pending,
           \/ queue' = queue \/ queue' = <<>>
           \/ queue # <<>> /\ queue' = Tail(queue)
    PROVE  OpsFit'
<1>1. \A op \in OpRecord : Fits(sock, op) => Fits(sock', op)
  BY DEF Fits, KeepsKinds, OpRecord
<1>2. queue \in Seq(OpRecord) /\ pending \subseteq OpRecord
  BY DEF BaseInv, TypeOK
<1>3. \A op \in pending' : Fits(sock', op)
  BY <1>1, <1>2 DEF BaseInv, OpsFit
<1>4. \A i \in 1 .. Len(queue) : queue[i] \in OpRecord /\ Fits(sock', queue[i])
  BY <1>1, <1>2, ElementOfSeq DEF BaseInv, OpsFit
<1>5. \A i \in 1 .. Len(queue') : Fits(sock', queue'[i])
  BY <1>2, <1>4, TailOp
<1> QED BY <1>3, <1>5 DEF OpsFit

\* Where identities are the same and connections at most begin to close, the sockets keep
\* their kinds and fit their identities.
LEMMA CalmSockets ==
    ASSUME BaseInv, SameIdentity(sock, sock'), OnlyCloses(sock, sock')
    PROVE  KeepsKinds /\ \A w \in Socket : Identified(sock'[w])
BY DEF BaseInv, SameIdentity, OnlyCloses, KeepsKinds, Identified

\* What the actor takes next fits.
LEMMA HeadFits ==
    ASSUME BaseInv, queue # <<>>
    PROVE  Head(queue) \in OpRecord /\ Fits(sock, Head(queue))
<1>1. queue \in Seq(OpRecord)
  BY DEF BaseInv, TypeOK
<1>2. Head(queue) = queue[1] /\ 1 \in 1 .. Len(queue) /\ Head(queue) \in OpRecord
  BY <1>1, TailOp
<1> QED BY <1>2 DEF BaseInv, OpsFit

\* The actor and the timers leave identities and the registry alone.
LEMMA ActorIsCalm ==
    ASSUME BaseInv, ActorStep \/ ActorFails \/ TimerShows
    PROVE  /\ TypeOK'
           /\ SameIdentity(sock, sock') /\ OnlyCloses(sock, sock')
           /\ UNCHANGED <<host, players, sessions, late>>
           /\ faults' = faults \/ (ActorFails /\ faults' = faults + 1)
           /\ \/ queue # <<>> /\ queue' = Tail(queue)
              \/ TimerShows /\ queue' = queue
           /\ \/ pending' = pending
              \/ LeaveAccepted
              \/ \E p \in Player : JoinAccepted(p)
<1>1. queue # <<>> => (Head(queue).kind \in {"leave", "gone", "reconnected"}
                          => Head(queue).player \in Player)
  BY HeadFits DEF Fits
<1>2. TypeOK'
  BY <1>1, ActorTypes, OtherTypes DEF BaseInv
<1>3. \/ queue # <<>> /\ queue' = Tail(queue)
      \/ TimerShows /\ queue' = queue
  BY DEF ActorStep, JoinAccepted, LeaveAccepted, Rejected, Accepted, Dealt, StatusChange,
         HostChange, RoomMissing, ActorFails, TimerShows, Take
<1>4. UNCHANGED <<host, players, sessions, late>>
  BY DEF ActorStep, JoinAccepted, LeaveAccepted, Rejected, Accepted, Dealt, StatusChange,
         HostChange, RoomMissing, ActorFails, TimerShows, Ours, registry
<1>5. \/ pending' = pending
      \/ LeaveAccepted
      \/ \E p \in Player : JoinAccepted(p)
  BY DEF ActorStep, Rejected, Accepted, Dealt, StatusChange, HostChange, RoomMissing,
         ActorFails, TimerShows
<1>6. faults' = faults \/ (ActorFails /\ faults' = faults + 1)
  BY DEF ActorStep, JoinAccepted, LeaveAccepted, Rejected, Accepted, Dealt, StatusChange,
         HostChange, RoomMissing, ActorFails, TimerShows, Ours, Fault
<1> DEFINE calm == SameIdentity(sock, sock') /\ OnlyCloses(sock, sock')
<1>7. sock' = sock => calm
  BY DEF SameIdentity, OnlyCloses
<1>8. sock' = Stale(sock) => calm
  <2>1. sock \in Sockets
    BY DEF BaseInv, TypeOK
  <2>2. SameIdentity(sock, Stale(sock)) /\ OnlyCloses(sock, Stale(sock))
    BY <2>1, StaleFacts DEF OnlyCloses
  <2> QED BY <2>2
<1>9. sock' = Evict(sock) => calm
  BY EvictFacts DEF BaseInv, TypeOK
<1>10. ASSUME NEW r, Show(r) PROVE calm
  <2>1. r \in RoomRecord
    <3>1. room' = r
      BY <1>10 DEF Show
    <3> QED BY <1>2, <3>1 DEF TypeOK
  <2> QED BY <1>10, <2>1, ShowFacts DEF BaseInv, OnlyCloses
<1>11. calm
  <2>1. ASSUME NEW p \in Player, JoinAccepted(p) PROVE calm
    BY <1>8, <2>1 DEF JoinAccepted
  <2>2. CASE LeaveAccepted
    BY <1>8, <2>2 DEF LeaveAccepted
  <2>3. CASE Rejected \/ ActorFails
    BY <1>7, <2>3 DEF Rejected, ActorFails
  <2>4. CASE Accepted
    BY <1>10, <2>4 DEF Accepted
  <2>5. CASE Dealt
    <3>1. \E r : Show(r)
      BY <2>5 DEF Dealt
    <3> QED BY <1>10, <3>1
  <2>6. ASSUME NEW kind, NEW status, StatusChange(kind, status) PROVE calm
    <3>1. \E r : Show(r)
      BY <2>6 DEF StatusChange
    <3> QED BY <1>10, <3>1
  <2>7. ASSUME NEW kind, NEW there, HostChange(kind, there) PROVE calm
    <3>1. \E r : Show(r)
      BY <2>7 DEF HostChange
    <3> QED BY <1>10, <3>1
  <2>8. CASE RoomMissing
    BY <1>7, <1>9, <2>8 DEF RoomMissing
  <2>9. CASE TimerShows
    <3>1. \E r : Show(r)
      BY <2>9 DEF TimerShows
    <3> QED BY <1>10, <3>1
  <2> HIDE DEF calm
  <2> QED BY <2>1, <2>2, <2>3, <2>4, <2>5, <2>6, <2>7, <2>8, <2>9 DEF ActorStep
<1> QED BY <1>2, <1>3, <1>4, <1>5, <1>6, <1>11

\* The sockets after one of them got an identity whose slot held another.
Bound(w, p, previous) ==
    /\ OnlyCloses(sock, sock')
    /\ \A v \in Socket :
          /\ sock'[v].kind = sock[v].kind
          /\ v # w \/ ~Known(w) =>
                sock'[v].authed = sock[v].authed /\ sock'[v].player = sock[v].player
          /\ v = w /\ Known(w) => sock'[v].authed /\ sock'[v].player = p
          /\ v = w \/ v # previous =>
                sock'[v].conn = sock[v].conn /\ sock'[v].replaced = sock[v].replaced
          /\ v # w /\ v = previous =>
                /\ sock'[v].conn # "open"
                /\ Known(v) => sock'[v].replaced

\* A join or a reconnect binds its socket to its player.
LEMMA PlayerBound ==
    ASSUME BaseInv, NEW op \in pending, Joined(op) \/ (Resolved(op) /\ op.player \in sessions)
    PROVE  /\ op \in OpRecord /\ op.ws \in Socket /\ op.player \in Player
           /\ players[op.player] \in Slot
           /\ players' = [players EXCEPT ![op.player] = op.ws] /\ host' = host
           /\ BindPlayer(op.ws, op.player)
           /\ Bound(op.ws, op.player, players[op.player])
<1> DEFINE w == op.ws
           p == op.player
           s == Replace(Identify(sock, w, p), players[p], w)
<1>1. /\ op \in OpRecord /\ w \in Socket /\ p \in Id
      /\ p \in Player
      /\ players[p] \in Slot
  <2>1. op \in OpRecord /\ op.kind \in {"session", "resolve"}
    BY DEF Joined, Resolved, BaseInv, TypeOK
  <2>2. p \in Player
    BY <2>1 DEF BaseInv, OpsFit, Fits
  <2> QED BY <2>1, <2>2 DEF OpRecord, BaseInv, TypeOK
<1>2. BindPlayer(w, p)
  BY DEF Joined, Resolved, BindPlayer
<1>3. /\ s \in Sockets
      /\ OnlyCloses(sock, s)
      /\ \A v \in Socket :
            /\ s[v].kind = sock[v].kind /\ s[v].current = sock[v].current
            /\ v # w \/ ~Known(w) =>
                  /\ s[v].authed = sock[v].authed /\ s[v].player = sock[v].player
                  /\ s[v].private = sock[v].private
            /\ v = w /\ Known(w) => s[v].authed /\ s[v].player = p /\ ~s[v].private
            /\ v = w => s[v].conn = sock[v].conn
            /\ v = w \/ v # players[p] =>
                  s[v].conn = sock[v].conn /\ s[v].replaced = sock[v].replaced
            /\ v # w /\ v = players[p] =>
                  /\ s[v].conn # "open"
                  /\ Known(v) => s[v].replaced
                  /\ ~Known(v) => s[v].replaced = sock[v].replaced
  BY <1>1, BindFacts DEF BaseInv
<1>4. sock' = s \/ \E h, pl, r : r \in RoomRecord /\ Broadcast(s, h, pl, r)
  <2>1. CASE Joined(op)
    <3>1. Broadcast(s, host, players', room)
      BY <2>1 DEF Joined
    <3>2. room \in RoomRecord
      BY DEF BaseInv, TypeOK
    <3> HIDE DEF s
    <3> QED BY <3>1, <3>2
  <2>2. CASE Resolved(op) /\ p \in sessions
    BY <2>2 DEF Resolved
  <2> HIDE DEF s, p
  <2> QED BY <2>1, <2>2 DEF p
<1> HIDE DEF s
<1>5. SameIdentity(s, sock') /\ \A v \in Socket : sock'[v].conn = s[v].conn
  <2>1. CASE sock' = s
    BY <2>1 DEF SameIdentity
  <2>2. ASSUME NEW h, NEW pl, NEW r \in RoomRecord, Broadcast(s, h, pl, r)
        PROVE  SameIdentity(s, sock') /\ \A v \in Socket : sock'[v].conn = s[v].conn
    <3>1. told \in [Socket -> Told]
      BY DEF BaseInv, TypeOK
    <3>2. s \in Sockets
      BY <1>3
    <3> QED BY <2>2, <3>1, <3>2, BroadcastFacts
  <2> QED BY <1>4, <2>1, <2>2
<1>6. OnlyCloses(sock, sock')
  BY <1>3, <1>5 DEF OnlyCloses
<1>7. Bound(w, p, players[p])
  BY <1>3, <1>5, <1>6 DEF Bound, SameIdentity
<1> QED BY <1>1, <1>2, <1>7 DEF BindPlayer

\* A host's reconnect binds its socket to the host.
LEMMA HostBound ==
    ASSUME BaseInv, NEW op \in pending, HostResolved(op), room.there
    PROVE  /\ op \in OpRecord /\ op.ws \in Socket /\ host' = op.ws /\ players' = players
           /\ Bound(op.ws, NoPlayer, host)
<1>1. op \in OpRecord /\ op.ws \in Socket /\ NoPlayer \in Id /\ host \in Slot
  BY DEF BaseInv, TypeOK, OpRecord, Id
<1>2. sock' = Replace(Identify(sock, op.ws, NoPlayer), host, op.ws)
      /\ host' = op.ws /\ players' = players
  BY DEF HostResolved
<1>3. Bound(op.ws, NoPlayer, host)
  BY <1>1, <1>2, BindFacts DEF Bound, BaseInv
<1> QED BY <1>1, <1>2, <1>3

\* A leave closes its socket.
LEMMA ForgottenFacts ==
    ASSUME BaseInv, NEW op \in pending, Forgotten(op)
    PROVE  /\ op \in OpRecord /\ op.ws \in Socket /\ op.player \in Player
           /\ CloseIn(sock, op.ws) \in Sockets
           /\ SameIdentity(sock, sock') /\ OnlyCloses(sock, sock')
           /\ sock'[op.ws].conn # "open"
           /\ host' = host /\ players' = PlayersWithout(op.ws, op.player)
<1> DEFINE s == CloseIn(sock, op.ws)
<1>1. op \in OpRecord /\ op.ws \in Socket /\ op.player \in Player
  BY DEF Forgotten, BaseInv, OpsFit, Fits, TypeOK, OpRecord
<1>2. /\ s \in Sockets /\ SameIdentity(sock, s) /\ OnlyCloses(sock, s)
      /\ s[op.ws].conn # "open"
  BY <1>1, CloseFacts DEF BaseInv, TypeOK
<1>3. Broadcast(s, host, players', room) /\ players' = PlayersWithout(op.ws, op.player)
      /\ host' = host
  BY DEF Forgotten
<1> HIDE DEF s
<1>4. SameIdentity(s, sock') /\ \A v \in Socket : sock'[v].conn = s[v].conn
  <2>1. told \in [Socket -> Told] /\ room \in RoomRecord
    BY DEF BaseInv, TypeOK
  <2>2. s \in Sockets
    BY <1>2
  <2>3. Broadcast(s, host, players', room)
    BY <1>3
  <2> QED BY <2>1, <2>2, <2>3, BroadcastFacts
<1>5. SameIdentity(sock, sock') /\ OnlyCloses(sock, sock')
  BY <1>2, <1>4 DEF SameIdentity, OnlyCloses
<1> QED BY <1>1, <1>2, <1>3, <1>4, <1>5 DEF s

\* A close takes a socket out of the map.
LEMMA ClosedFacts ==
    ASSUME BaseInv, NEW w \in Socket, HandleClose(w)
    PROVE  /\ sock'[w] = Absent
           /\ \A v \in Socket \ {w} : sock'[v] = sock[v] /\ told'[v] = told[v]
           /\ sock[w].player \in Id /\ sock[w] \in SocketRecord
BY DEF HandleClose, BaseInv, TypeOK, Sockets, SocketRecord

\* What is known of a socket that is absent.
LEMMA AbsentFacts ==
    /\ Absent.conn = "none" /\ Absent.authed = FALSE /\ Absent.player = NoPlayer
    /\ Absent.kind = "player"
BY DEF Absent, Fresh

\* Binding a socket keeps kinds and identities in order, given that the kind is right.
LEMMA BoundFits ==
    ASSUME BaseInv, NEW w \in Socket, NEW p \in Id, NEW previous, Bound(w, p, previous),
           sock[w].conn # "none" => (sock[w].kind = "player" <=> p # NoPlayer)
    PROVE  KeepsKinds /\ \A v \in Socket : Identified(sock'[v])
<1>1. KeepsKinds
  BY DEF KeepsKinds, Bound, OnlyCloses
<1>2. ASSUME NEW v \in Socket PROVE Identified(sock'[v])
  <2>1. Identified(sock[v])
    BY DEF BaseInv
  <2>2. /\ sock'[v].kind = sock[v].kind
        /\ sock'[v].conn = "none" => sock[v].conn = "none"
        /\ sock[v].conn = "none" => sock'[v].conn = "none"
    BY DEF Bound, OnlyCloses
  <2>3. CASE v # w \/ ~Known(w)
    <3>1. sock'[v].authed = sock[v].authed /\ sock'[v].player = sock[v].player
      BY <2>3 DEF Bound
    <3> QED BY <2>1, <2>2, <3>1 DEF Identified
  <2>4. CASE v = w /\ Known(w)
    <3>1. sock'[v].authed /\ sock'[v].player = p /\ sock[w].conn # "none"
      BY <2>4 DEF Bound, Known
    <3> QED BY <2>2, <2>4, <3>1 DEF Identified
  <2> QED BY <2>3, <2>4
<1> QED BY <1>1, <1>2

\* BaseInv holds at the start.
LEMMA BaseInit == Init => BaseInv
<1> HAVE Init
<1>1. Absent \in SocketRecord /\ Untold \in Told
  BY DEF Absent, Fresh, SocketRecord, Untold, Told, Id, Kind
<1>2. TypeOK
  <2>1. room \in RoomRecord
    BY DEF Init, RoomRecord
  <2>2. queue \in Seq(OpRecord)
    BY DEF Init
  <2> QED BY <1>1, <2>1, <2>2 DEF Init, TypeOK, Sockets, Slot
<1>3. \A w \in Socket : Identified(sock[w])
  BY AbsentFacts DEF Init, Identified
<1>4. OpsFit
  BY DEF Init, OpsFit
<1> QED BY <1>2, <1>3, <1>4 DEF BaseInv

\* BaseInv is inductive.
LEMMA BaseStep ==
    ASSUME BaseInv, [Next]_vars
    PROVE  BaseInv'
<1> DEFINE goal == TypeOK' /\ (\A w \in Socket : Identified(sock'[w])) /\ OpsFit'
<1>0. TypeOK /\ (\A w \in Socket : Identified(sock[w])) /\ OpsFit
  BY DEF BaseInv
<1>1. ASSUME NEW w \in Socket, NEW kind \in Kind, Connect(w, kind) PROVE goal
  <2>1. TypeOK'
    BY <1>0, <1>1, ConnectionTypes
  <2>2. /\ sock'[w] = Fresh(kind, "open")
        /\ \A v \in Socket \ {w} : sock'[v] = sock[v]
        /\ pending' = pending /\ queue' = queue
    BY <1>0, <1>1 DEF Connect, TypeOK, Sockets
  <2>3. \A v \in Socket : Identified(sock'[v])
    BY <1>0, <2>2 DEF Identified, Fresh
  <2>4. \A op \in OpRecord : op.ws # w /\ Fits(sock, op) => Fits(sock', op)
    BY <2>2 DEF Fits, OpRecord
  <2>5. OpsFit'
    <3>1. \A i \in 1 .. Len(queue) : queue[i] \in OpRecord
      BY <1>0, ElementOfSeq DEF TypeOK
    <3>2. \A op \in pending : op \in OpRecord
      BY <1>0 DEF TypeOK
    <3> QED BY <1>0, <1>1, <2>2, <2>4, <3>1, <3>2 DEF OpsFit, Connect, Unused
  <2> QED BY <2>1, <2>3, <2>5
<1>2. ASSUME NEW w \in Socket, AuthTimeout(w) \/ Violate(w) PROVE goal
  <2>1. TypeOK'
    BY <1>0, <1>2, ConnectionTypes
  <2>2. SameIdentity(sock, sock') /\ OnlyCloses(sock, sock') /\ pending' = pending /\ queue' = queue
    BY <1>0, <1>2, CloseFacts DEF AuthTimeout, Violate, TypeOK
  <2> QED BY <2>1, <2>2, CalmSockets, OldOpsKeepFitting
<1>3. ASSUME NEW w \in Socket, HandleClose(w) PROVE goal
  <2> DEFINE new == Op(IF sock[w].kind = "host" THEN "hostGone" ELSE "gone", w, sock[w].player)
  <2>1. TypeOK'
    <3>1. PeerCloses(w) \/ ~Known(w)
      BY <1>3 DEF PeerCloses
    <3>2. CASE PeerCloses(w)
      BY <1>0, <3>2, ConnectionTypes
    <3>3. CASE ~Known(w)
      <4>1. ~sock[w].authed /\ sock[w].player = NoPlayer
        BY <1>0, <3>3 DEF Identified, Known
      <4>2. queue' = queue
        BY <1>3, <4>1 DEF HandleClose
      <4>3. Absent \in SocketRecord /\ Untold \in Told
        BY DEF Absent, Fresh, SocketRecord, Untold, Told, Id, Kind
      <4>4. players' = players /\ host' \in Slot
        BY <1>0, <1>3, <4>1 DEF HandleClose, HostWithout, Slot, TypeOK
      <4> QED BY <1>0, <1>3, <4>2, <4>3, <4>4 DEF HandleClose, TypeOK, Sockets
    <3> QED BY <3>1, <3>2, <3>3
  <2>2. /\ sock'[w] = Absent
        /\ \A v \in Socket \ {w} : sock'[v] = sock[v]
        /\ sock[w] \in SocketRecord
    BY <1>3, ClosedFacts
  <2>3. KeepsKinds /\ \A v \in Socket : Identified(sock'[v])
    BY <1>0, <2>2, AbsentFacts DEF KeepsKinds, Identified
  <2>4. pending' = pending
    BY <1>3 DEF HandleClose
  <2>5. CASE queue' = queue
    BY <2>1, <2>3, <2>4, <2>5, OldOpsKeepFitting
  <2>6. CASE queue' # queue
    <3>1. /\ sock[w].authed /\ ~(sock[w].kind = "player" /\ sock[w].player = NoPlayer)
          /\ queue' = Append(queue, new)
      BY <1>3, <2>6 DEF HandleClose
    <3>2. sock[w].kind = "player" <=> sock[w].player # NoPlayer
      BY <1>0, <3>1 DEF Identified
    <3>3. sock[w].kind \in Kind /\ sock[w].player \in Id
      BY <2>2 DEF SocketRecord
    <3>4. new \in OpRecord
      BY <3>3 DEF Op, OpRecord
    <3>5. Fits(sock', new)
      BY <3>2, <3>3 DEF Op, Fits, Id, Kind
    <3> HIDE DEF new
    <3> QED BY <2>1, <2>3, <2>4, <3>1, <3>4, <3>5, OpsKeepFitting DEF QueueMoves
  <2> QED BY <2>5, <2>6
<1>4. ASSUME NEW w \in Socket, Ask(w) PROVE goal
  <2>1. TypeOK'
    BY <1>0, <1>4, AskTypes
  <2>2. sock' = sock
    BY <1>4 DEF Ask, AskJoin, AskLeave, AskEvent, AskHost, AskReconnect
  <2>3. KeepsKinds
    BY <2>2 DEF KeepsKinds
  <2>4. PICK new : /\ pending' \subseteq pending \cup {new} /\ QueueMoves(new)
                   /\ new \in OpRecord /\ Fits(sock', new)
    <3>1. sock[w].player \in Id /\ sock[w].kind \in Kind
      BY <1>0 DEF TypeOK, Sockets, SocketRecord
    <3>2. CASE AskJoin(w)
      <4>1. Op("join", w, NoPlayer) \in OpRecord /\ Fits(sock', Op("join", w, NoPlayer))
        BY <2>2, <3>2 DEF AskJoin, Reads, Op, OpRecord, Fits, Id
      <4> QED BY <3>2, <4>1 DEF AskJoin, Enqueue, QueueMoves
    <3>3. CASE AskLeave(w)
      <4>1. Op("leave", w, sock[w].player) \in OpRecord /\ Fits(sock', Op("leave", w, sock[w].player))
        BY <2>2, <3>1, <3>3 DEF AskLeave, Op, OpRecord, Fits, Id
      <4> QED BY <3>3, <4>1 DEF AskLeave, Enqueue, QueueMoves
    <3>4. CASE AskEvent(w)
      <4>1. Op("event", w, sock[w].player) \in OpRecord /\ Fits(sock', Op("event", w, sock[w].player))
        BY <3>1 DEF Op, OpRecord, Fits
      <4> QED BY <3>4, <4>1 DEF AskEvent, Enqueue, QueueMoves
    <3>5. CASE AskHost(w)
      <4>1. Op("resolveHost", w, NoPlayer) \in OpRecord /\ Fits(sock', Op("resolveHost", w, NoPlayer))
        BY <2>2, <3>5 DEF AskHost, Reads, Op, OpRecord, Fits, Id
      <4> QED BY <3>5, <4>1 DEF AskHost, QueueMoves
    <3>6. ASSUME NEW p \in Player, AskReconnect(w, p)
          PROVE  \E new \in OpRecord : /\ pending' \subseteq pending \cup {new} /\ QueueMoves(new)
                                       /\ Fits(sock', new)
      <4>1. Op("resolve", w, p) \in OpRecord /\ Fits(sock', Op("resolve", w, p))
        BY <2>2, <3>6 DEF AskReconnect, Reads, Op, OpRecord, Fits, Id
      <4> QED BY <3>6, <4>1 DEF AskReconnect, QueueMoves
    <3> QED BY <1>4, <3>2, <3>3, <3>4, <3>5, <3>6 DEF Ask
  <2> QED BY <1>0, <2>1, <2>2, <2>3, <2>4, OpsKeepFitting
<1>5. ASSUME NEW p \in Player, HttpJoin(p) PROVE goal
  <2>1. TypeOK'
    BY <1>0, <1>5, OtherTypes
  <2>2. pending' = pending /\ queue' = queue
    BY <1>5 DEF HttpJoin
  <2>3. KeepsKinds /\ \A w \in Socket : Identified(sock'[w])
    BY <1>0, <1>5, HttpJoinFacts, CalmSockets
  <2>4. OpsFit'
    BY <1>0, <2>2, <2>3, OldOpsKeepFitting
  <2> QED BY <1>0, <2>1, <2>3, <2>4
<1>6. ASSUME ActorStep \/ ActorFails \/ TimerShows PROVE goal
  <2>1. /\ TypeOK' /\ SameIdentity(sock, sock') /\ OnlyCloses(sock, sock')
        /\ \/ queue # <<>> /\ queue' = Tail(queue)
           \/ queue' = queue
        /\ \/ pending' = pending
           \/ LeaveAccepted
           \/ \E p \in Player : JoinAccepted(p)
    BY <1>6, ActorIsCalm
  <2>2. KeepsKinds /\ \A w \in Socket : Identified(sock'[w])
    BY <2>1, CalmSockets
  <2>3. CASE pending' = pending
    <3>1. OpsFit'
      BY <2>1, <2>2, <2>3, OldOpsKeepFitting
    <3> QED BY <2>1, <2>2, <3>1
  <2>4. CASE pending' # pending
    <3>1. queue # <<>> /\ Head(queue) \in OpRecord /\ Fits(sock, Head(queue))
      BY <2>1, <2>4, HeadFits DEF LeaveAccepted, JoinAccepted, Take
    <3>2. PICK new \in OpRecord : pending' \subseteq pending \cup {new} /\ Fits(sock', new)
      <4>1. CASE LeaveAccepted
        <5> DEFINE new == Op("forget", Head(queue).ws, Head(queue).player)
        <5>1. Head(queue).kind = "leave"
          BY <4>1 DEF LeaveAccepted, Take
        <5>2. new \in OpRecord /\ Fits(sock', new)
          BY <3>1, <5>1 DEF Fits, Op, OpRecord
        <5> QED BY <4>1, <5>2 DEF LeaveAccepted
      <4>2. ASSUME NEW p \in Player, JoinAccepted(p)
            PROVE  \E new \in OpRecord : pending' \subseteq pending \cup {new} /\ Fits(sock', new)
        <5> DEFINE new == Op("session", Head(queue).ws, p)
        <5>1. Head(queue).kind = "join"
          BY <4>2 DEF JoinAccepted, Take
        <5>2. new \in OpRecord /\ Fits(sock', new)
          BY <2>2, <3>1, <5>1 DEF Fits, Op, OpRecord, KeepsKinds, Id
        <5> QED BY <4>2, <5>2 DEF JoinAccepted
      <4> QED BY <2>1, <2>4, <4>1, <4>2
    <3>3. QueueMoves(new)
      BY <2>1 DEF QueueMoves
    <3>4. OpsFit'
      BY <2>2, <3>2, <3>3, OpsKeepFitting
    <3> QED BY <2>1, <2>2, <3>4
  <2> QED BY <2>3, <2>4
<1>7. ASSUME NEW op \in pending, Joined(op) \/ Resolved(op) \/ HostResolved(op) \/ Forgotten(op)
      PROVE  goal
  <2>1. TypeOK'
    BY <1>0, <1>7, RepositoryTypes DEF OpsFit, Fits
  <2>2. pending' \subseteq pending
    BY <1>7 DEF Joined, Resolved, HostResolved, Forgotten
  <2>3. op \in OpRecord /\ Fits(sock, op)
    BY <1>0 DEF TypeOK, OpsFit
  <2>4. CASE Joined(op) \/ (Resolved(op) /\ op.player \in sessions)
    <3>1. Bound(op.ws, op.player, players[op.player]) /\ op.ws \in Socket /\ op.player \in Player
      BY <2>4, PlayerBound
    <3>2. sock[op.ws].conn # "none" => sock[op.ws].kind = "player"
      BY <2>3, <2>4 DEF Fits, Joined, Resolved
    <3>3. op.player \in Id /\ op.player # NoPlayer
      BY <3>1, GatewayAssumption DEF Id
    <3>4. KeepsKinds /\ \A v \in Socket : Identified(sock'[v])
      BY <3>1, <3>2, <3>3, BoundFits
    <3>5. CASE Joined(op)
      <4>1. queue' = queue
        BY <3>5 DEF Joined
      <4> QED BY <2>1, <2>2, <3>4, <4>1, OldOpsKeepFitting
    <3>6. CASE Resolved(op) /\ op.player \in sessions
      <4> DEFINE new == Op("reconnected", op.ws, op.player)
      <4>1. queue' = Append(queue, new)
        BY <3>6 DEF Resolved, Enqueue
      <4>2. new \in OpRecord /\ Fits(sock', new)
        BY <3>1, <3>3 DEF Op, OpRecord, Fits
      <4> HIDE DEF new
      <4> QED BY <2>1, <2>2, <3>4, <4>1, <4>2, OpsKeepFitting DEF QueueMoves
    <3> QED BY <2>4, <3>5, <3>6
  <2>5. CASE HostResolved(op) /\ room.there
    <3>1. Bound(op.ws, NoPlayer, host) /\ op.ws \in Socket
      BY <2>5, HostBound
    <3>2. sock[op.ws].conn # "none" => sock[op.ws].kind = "host"
      BY <2>3, <2>5 DEF Fits, HostResolved
    <3>3. KeepsKinds /\ \A v \in Socket : Identified(sock'[v])
      BY <3>1, <3>2, BoundFits DEF Id
    <3> DEFINE new == Op("hostReconnected", op.ws, NoPlayer)
    <3>4. queue' = Append(queue, new)
      BY <2>5 DEF HostResolved, Enqueue
    <3>5. new \in OpRecord /\ Fits(sock', new)
      BY <3>1 DEF Op, OpRecord, Fits, Id
    <3> HIDE DEF new
    <3> QED BY <2>1, <2>2, <3>3, <3>4, <3>5, OpsKeepFitting DEF QueueMoves
  <2>6. CASE (Resolved(op) /\ op.player \notin sessions) \/ (HostResolved(op) /\ ~room.there)
    <3>1. sock' = sock /\ queue' = queue
      BY <2>6 DEF Resolved, HostResolved
    <3>2. KeepsKinds
      BY <3>1 DEF KeepsKinds
    <3> QED BY <1>0, <2>1, <2>2, <3>1, <3>2, OldOpsKeepFitting
  <2>7. CASE Forgotten(op)
    <3>1. SameIdentity(sock, sock') /\ OnlyCloses(sock, sock') /\ queue' = queue
      BY <2>7, ForgottenFacts DEF Forgotten
    <3> QED BY <2>1, <2>2, <3>1, CalmSockets, OldOpsKeepFitting
  <2> QED BY <1>7, <2>4, <2>5, <2>6, <2>7
<1>8. ASSUME RepositoryFails PROVE goal
  <2>1. TypeOK'
    BY <1>0, <1>8, OtherTypes
  <2>2. KeepsKinds /\ \A v \in Socket : Identified(sock'[v])
    BY <1>8, AbsentFacts DEF RepositoryFails, KeepsKinds, Identified
  <2>3. pending' \subseteq pending /\ queue' = <<>>
    BY <1>8 DEF RepositoryFails
  <2>4. OpsFit'
    BY <2>2, <2>3, OldOpsKeepFitting
  <2> QED BY <2>1, <2>2, <2>4
<1>9. ASSUME RoomExpires PROVE goal
  <2>1. TypeOK'
    BY <1>0, <1>9, OtherTypes
  <2>2. sock' = sock /\ pending' = pending /\ queue' = queue
    BY <1>9 DEF RoomExpires
  <2>3. KeepsKinds
    BY <2>2 DEF KeepsKinds
  <2>4. OpsFit'
    BY <2>2, <2>3, OldOpsKeepFitting
  <2> QED BY <1>0, <2>1, <2>2, <2>4
<1>10. ASSUME UNCHANGED vars PROVE goal
  <2>1. UNCHANGED <<sock, host, players, room, sessions, queue, pending, told, faults, late>>
    BY <1>10 DEF vars, registry
  <2>2. TypeOK' /\ OpsFit'
    BY <1>0, <2>1 DEF TypeOK, OpsFit
  <2> QED BY <1>0, <2>1, <2>2
<1> HIDE DEF goal
<1>11. goal
  BY <1>1, <1>2, <1>3, <1>4, <1>5, <1>6, <1>7, <1>8, <1>9, <1>10
     DEF Next, PeerCloses, Heartbeat, RepositoryStep
<1> QED BY <1>11 DEF goal, BaseInv

-----------------------------------------------------------------------------
(* Players the gateway has not heard of *)

\* How a player's status may change.
StatusMoves(p) ==
    \/ room'.status[p] = room.status[p]
    \/ /\ HttpJoin(p) \/ JoinAccepted(p)
       /\ room.status[p] = "none" /\ room'.status[p] = "connected"
    \/ LeaveAccepted /\ Head(queue).player = p /\ room'.status[p] = "left"
    \/ /\ room.status[p] \in {"connected", "disconnected"}
       /\ queue # <<>> /\ queue' = Tail(queue) /\ Head(queue).player = p
       /\ \/ Head(queue).kind = "reconnected" /\ room'.status[p] = "connected"
          \/ Head(queue).kind = "gone" /\ room'.status[p] = "disconnected"

\* A player joins once, leaves once, and in between comes and goes as the queue says.
LEMMA StatusStep ==
    ASSUME BaseInv, [Next]_vars, NEW p \in Player
    PROVE  StatusMoves(p)
<1>0. room \in RoomRecord
  BY DEF BaseInv, TypeOK
<1>1. ASSUME NEW q \in Player, HttpJoin(q) \/ JoinAccepted(q) PROVE StatusMoves(p)
  <2>1. room'.status = [room.status EXCEPT ![q] = "connected"] /\ room.status[q] = "none"
    BY <1>0, <1>1, StatusFacts DEF HttpJoin, JoinAccepted
  <2>2. CASE q = p
    BY <1>0, <1>1, <2>1, <2>2 DEF StatusMoves, RoomRecord
  <2>3. CASE q # p
    BY <1>0, <2>1, <2>3 DEF StatusMoves, RoomRecord
  <2> QED BY <2>2, <2>3
<1>2. CASE LeaveAccepted
  <2> DEFINE q == Head(queue).player
  <2>1. q \in Player
    BY <1>2, HeadFits DEF LeaveAccepted, Take, Fits
  <2>2. room' = [room EXCEPT !.status[q] = "left", !.roles[q] = 0]
    BY <1>2 DEF LeaveAccepted
  <2>3. room'.status = [room.status EXCEPT ![q] = "left"]
    BY <1>0, <2>1, <2>2, LeftFacts
  <2>4. CASE q = p
    BY <1>0, <1>2, <2>3, <2>4 DEF StatusMoves, RoomRecord
  <2>5. CASE q # p
    BY <1>0, <2>3, <2>5 DEF StatusMoves, RoomRecord
  <2> QED BY <2>4, <2>5
<1>3. ASSUME NEW kind, NEW status,
             \/ kind = "reconnected" /\ status = "connected"
             \/ kind = "gone" /\ status = "disconnected",
             StatusChange(kind, status)
      PROVE  StatusMoves(p)
  <2> DEFINE q == Head(queue).player
  <2>1. q \in Player /\ queue # <<>> /\ queue' = Tail(queue) /\ Head(queue).kind = kind
    BY <1>3, HeadFits DEF StatusChange, Take, Fits
  <2>2. room' = IF InRoster(q) THEN [room EXCEPT !.status[q] = status] ELSE room
    BY <1>3 DEF StatusChange, Show
  <2>3. CASE ~InRoster(q)
    BY <2>2, <2>3 DEF StatusMoves
  <2>4. CASE InRoster(q)
    <3>1. room'.status = [room.status EXCEPT ![q] = status]
      BY <1>0, <1>3, <2>1, <2>2, <2>4, StatusFacts
    <3>2. CASE q = p
      BY <1>0, <1>3, <2>1, <2>4, <3>1, <3>2 DEF StatusMoves, InRoster, RoomRecord
    <3>3. CASE q # p
      BY <1>0, <3>1, <3>3 DEF StatusMoves, RoomRecord
    <3> QED BY <3>2, <3>3
  <2> QED BY <2>3, <2>4
<1>4. CASE Dealt
  <2>1. room' = [room EXCEPT !.lobby = FALSE, !.deal = @ + 1,
                    !.roles = [q \in Player |-> IF InRoster(q) THEN room.deal + 1 ELSE 0]]
    BY <1>4 DEF Dealt, Show
  <2> QED BY <1>0, <2>1, DealtFacts DEF StatusMoves
<1>5. ASSUME NEW kind, NEW there, HostChange(kind, there) PROVE StatusMoves(p)
  BY <1>0, <1>5 DEF HostChange, Show, RoomRecord, StatusMoves
<1>6. CASE Accepted \/ Rejected \/ ActorFails \/ RoomMissing
  BY <1>6 DEF Accepted, Rejected, ActorFails, RoomMissing, Show, StatusMoves
<1>7. CASE TimerShows
  BY <1>0, <1>7 DEF TimerShows, Show, RoomRecord, StatusMoves
<1>8. CASE RoomExpires
  BY <1>0, <1>8 DEF RoomExpires, RoomRecord, StatusMoves
<1>9. ASSUME room' = room PROVE StatusMoves(p)
  BY <1>9 DEF StatusMoves
<1>10. CASE UNCHANGED vars
  BY <1>9, <1>10 DEF vars
<1>11. ASSUME NEW w \in Socket, Ask(w) PROVE room' = room
  BY <1>11 DEF Ask, AskJoin, AskHost, AskLeave, AskEvent, AskReconnect
<1>12. CASE RepositoryStep \/ RepositoryFails
  <2>1. room' = room
    BY <1>12 DEF RepositoryStep, Joined, Resolved, HostResolved, Forgotten, RepositoryFails
  <2> QED BY <1>9, <2>1
<1>13. ASSUME NEW w \in Socket,
              \/ \E kind \in Kind : Connect(w, kind)
              \/ AuthTimeout(w) \/ Violate(w) \/ PeerCloses(w) \/ Heartbeat(w)
       PROVE  room' = room
  BY <1>13 DEF Connect, AuthTimeout, Violate, PeerCloses, Heartbeat, HandleClose
<1> QED BY <1>1, <1>2, <1>3, <1>4, <1>5, <1>6, <1>7, <1>8, <1>9, <1>10, <1>11, <1>12, <1>13
        DEF Next, ActorStep

\* Nothing the gateway has is about the player.
Untouched(p) ==
    /\ p \notin sessions /\ players[p] = NoSocket
    /\ \A w \in Socket : sock[w].player # p
    /\ \A i \in 1 .. Len(queue) : queue[i].player # p
    /\ \A op \in pending : op.kind = "forget" => op.player # p

\* Who has not joined is untouched, and so is who has but whose session is being stored;
\* who is being forgotten has left.
FreshInv ==
    /\ \A p \in Player : room.status[p] = "none" =>
          Untouched(p) /\ \A op \in pending : op.player # p
    /\ \A op \in pending : op.kind = "session" =>
          /\ Untouched(op.player)
          /\ \A o \in pending : o.kind = "session" /\ o.player = op.player => o = op
    /\ \A op \in pending : op.kind = "forget" => room.status[op.player] = "left"

\* The players the next queue is about.
LEMMA QueuePlayers ==
    ASSUME BaseInv, NEW p, NEW new \in OpRecord, QueueMoves(new),
           \A i \in 1 .. Len(queue) : queue[i].player # p,
           queue' = Append(queue, new) => new.player # p
    PROVE  \A i \in 1 .. Len(queue') : queue'[i].player # p
<1>1. queue \in Seq(OpRecord)
  BY DEF BaseInv, TypeOK
<1>2. CASE queue' = queue \/ queue' = <<>>
  BY <1>2
<1>3. CASE queue # <<>> /\ queue' = Tail(queue)
  BY <1>1, <1>3, TailOp
<1>4. CASE queue' = Append(queue, new)
  <2> TAKE i \in 1 .. Len(queue')
  <2>1. i \in 1 .. Len(queue) \/ i = Len(queue) + 1
    BY <1>1, <1>4, AppendOp
  <2> QED BY <1>1, <1>4, <2>1, AppendOp
<1> QED BY <1>2, <1>3, <1>4 DEF QueueMoves

\* A player stays untouched until somebody joins as that player.
LEMMA UntouchedStep ==
    ASSUME BaseInv, [Next]_vars, NEW p \in Player, Untouched(p),
           ~HttpJoin(p), \A op \in pending : Joined(op) => op.player # p
    PROVE  Untouched(p)'
<1> DEFINE goal == Untouched(p)'
<1>0. /\ p \notin sessions /\ players[p] = NoSocket
      /\ \A w \in Socket : sock[w].player # p
      /\ \A i \in 1 .. Len(queue) : queue[i].player # p
      /\ \A op \in pending : op.kind = "forget" => op.player # p
  BY DEF Untouched
<1>00. TypeOK /\ p # NoPlayer /\ NoSocket \notin Socket
  BY GatewayAssumption DEF BaseInv
<1>1. ASSUME NEW w \in Socket, NEW kind \in Kind, Connect(w, kind) PROVE goal
  <2>1. /\ sock' = [sock EXCEPT ![w] = Fresh(kind, "open")]
        /\ UNCHANGED <<players, sessions, queue, pending>>
    BY <1>1 DEF Connect, registry
  <2>2. \A v \in Socket : sock'[v].player # p
    BY <1>0, <1>00, <2>1 DEF Fresh, TypeOK, Sockets
  <2> QED BY <1>0, <2>1, <2>2 DEF Untouched
<1>2. ASSUME NEW w \in Socket, AuthTimeout(w) \/ Violate(w) PROVE goal
  <2>1. SameIdentity(sock, sock') /\ UNCHANGED <<players, sessions, queue, pending>>
    BY <1>00, <1>2, CloseFacts DEF AuthTimeout, Violate, registry, TypeOK
  <2> QED BY <1>0, <2>1 DEF Untouched, SameIdentity
<1>3. ASSUME NEW w \in Socket, HandleClose(w) PROVE goal
  <2> DEFINE new == Op(IF sock[w].kind = "host" THEN "hostGone" ELSE "gone", w, sock[w].player)
  <2>1. sock'[w] = Absent /\ \A v \in Socket \ {w} : sock'[v] = sock[v]
    BY <1>3, ClosedFacts
  <2>2. \A v \in Socket : sock'[v].player # p
    BY <1>0, <1>00, <2>1, AbsentFacts
  <2>3. players'[p] = NoSocket
    BY <1>0, <1>00, <1>3 DEF HandleClose, PlayersWithout, TypeOK
  <2>4. new \in OpRecord /\ new.player # p
    BY <1>0, <1>3, ClosedFacts DEF Op, OpRecord, SocketRecord
  <2>5. QueueMoves(new) /\ pending' = pending /\ sessions' = sessions
    BY <1>3 DEF HandleClose, QueueMoves
  <2> HIDE DEF new
  <2>6. \A i \in 1 .. Len(queue') : queue'[i].player # p
    BY <1>0, <2>4, <2>5, QueuePlayers
  <2> QED BY <1>0, <2>2, <2>3, <2>5, <2>6 DEF Untouched
<1>4. ASSUME NEW w \in Socket, Ask(w) PROVE goal
  <2>1. /\ UNCHANGED <<sock, players, sessions>>
        /\ \A op \in pending' : op.kind = "forget" => op \in pending
    BY <1>4, OpType DEF Ask, AskJoin, AskHost, AskLeave, AskEvent, AskReconnect, registry
  <2>2. PICK new \in OpRecord : QueueMoves(new) /\ new.player # p
    <3>1. sock[w].player \in Id /\ sock[w].player # p
      BY <1>0, <1>00 DEF TypeOK, Sockets, SocketRecord
    <3>2. \A kind \in {"join", "leave", "event"} : \A q \in {NoPlayer, sock[w].player} :
             Op(kind, w, q) \in OpRecord /\ Op(kind, w, q).player # p
      BY <1>00, <3>1 DEF Op, OpRecord, Id
    <3>3. CASE AskJoin(w) \/ AskLeave(w) \/ AskEvent(w)
      <4>1. \E kind \in {"join", "leave", "event"} : \E q \in {NoPlayer, sock[w].player} :
               queue' = Append(queue, Op(kind, w, q))
        BY <3>3 DEF AskJoin, AskLeave, AskEvent, Enqueue
      <4> QED BY <3>2, <4>1 DEF QueueMoves
    <3>4. CASE queue' = queue
      BY <3>2, <3>4 DEF QueueMoves
    <3> QED BY <1>4, <3>3, <3>4 DEF Ask, AskHost, AskReconnect
  <2>3. \A i \in 1 .. Len(queue') : queue'[i].player # p
    BY <1>0, <2>2, QueuePlayers
  <2> QED BY <1>0, <2>1, <2>3 DEF Untouched
<1>5. ASSUME NEW q \in Player, HttpJoin(q) PROVE goal
  <2>1. q # p /\ sessions' = sessions \cup {q} /\ UNCHANGED <<players, queue, pending>>
    BY <1>5 DEF HttpJoin, registry
  <2>2. SameIdentity(sock, sock')
    BY <1>00, <1>5, HttpJoinFacts
  <2> QED BY <1>0, <2>1, <2>2 DEF Untouched, SameIdentity
<1>6. ASSUME ActorStep \/ ActorFails \/ TimerShows PROVE goal
  <2>1. /\ SameIdentity(sock, sock') /\ UNCHANGED <<players, sessions>>
        /\ \/ queue # <<>> /\ queue' = Tail(queue)
           \/ queue' = queue
        /\ \/ pending' = pending
           \/ LeaveAccepted
           \/ \E q \in Player : JoinAccepted(q)
    BY <1>6, ActorIsCalm
  <2>2. \A v \in Socket : sock'[v].player # p
    BY <1>0, <2>1 DEF SameIdentity
  <2>3. queue \in Seq(OpRecord)
    BY <1>00 DEF TypeOK
  <2>4. \A i \in 1 .. Len(queue') : queue'[i].player # p
    <3>1. CASE queue # <<>> /\ queue' = Tail(queue)
      BY <1>0, <2>3, <3>1, TailOp
    <3> QED BY <1>0, <2>1, <3>1
  <2>5. \A op \in pending' : op.kind = "forget" => op.player # p
    <3>1. CASE LeaveAccepted
      <4>1. /\ queue # <<>>
            /\ pending' = pending \cup {Op("forget", Head(queue).ws, Head(queue).player)}
        BY <3>1 DEF LeaveAccepted, Take
      <4>2. Head(queue).player # p
        BY <1>0, <2>3, <4>1, TailOp
      <4> QED BY <1>0, <4>1, <4>2, OpType
    <3>2. ASSUME NEW q \in Player, JoinAccepted(q)
          PROVE  \A op \in pending' : op.kind = "forget" => op.player # p
      BY <1>0, <3>2, OpType DEF JoinAccepted
    <3> QED BY <1>0, <2>1, <3>1, <3>2
  <2> QED BY <1>0, <2>1, <2>2, <2>4, <2>5 DEF Untouched
<1>7. ASSUME NEW op \in pending, Joined(op) \/ Resolved(op) \/ HostResolved(op) \/ Forgotten(op)
      PROVE  goal
  <2>1. pending' \subseteq pending
    BY <1>7 DEF Joined, Resolved, HostResolved, Forgotten
  <2>2. CASE Joined(op) \/ (Resolved(op) /\ op.player \in sessions)
    <3>1. /\ op.ws \in Socket /\ op.player \in Player
          /\ players' = [players EXCEPT ![op.player] = op.ws]
          /\ Bound(op.ws, op.player, players[op.player])
      BY <2>2, PlayerBound
    <3>2. op.player # p
      BY <1>0, <2>2
    <3>3. players'[p] = NoSocket
      BY <1>0, <1>00, <3>1, <3>2 DEF TypeOK
    <3>4. \A v \in Socket : sock'[v].player # p
      BY <1>0, <3>1, <3>2 DEF Bound
    <3>5. p \notin sessions'
      BY <1>0, <2>2, <3>2 DEF Joined, Resolved
    <3>6. \A i \in 1 .. Len(queue') : queue'[i].player # p
      <4> DEFINE new == Op("reconnected", op.ws, op.player)
      <4>1. new \in OpRecord /\ new.player # p
        BY <3>1, <3>2 DEF Op, OpRecord, Id
      <4>2. QueueMoves(new)
        BY <2>2 DEF Joined, Resolved, Enqueue, QueueMoves
      <4> HIDE DEF new
      <4> QED BY <1>0, <4>1, <4>2, QueuePlayers
    <3> QED BY <1>0, <2>1, <3>3, <3>4, <3>5, <3>6 DEF Untouched
  <2>3. CASE HostResolved(op) /\ room.there
    <3>1. op.ws \in Socket /\ players' = players /\ Bound(op.ws, NoPlayer, host)
      BY <2>3, HostBound
    <3>2. \A v \in Socket : sock'[v].player # p
      BY <1>0, <1>00, <3>1 DEF Bound
    <3>3. \A i \in 1 .. Len(queue') : queue'[i].player # p
      <4> DEFINE new == Op("hostReconnected", op.ws, NoPlayer)
      <4>1. new \in OpRecord /\ new.player # p
        BY <1>00, <3>1 DEF Op, OpRecord, Id
      <4>2. QueueMoves(new)
        BY <2>3 DEF HostResolved, Enqueue, QueueMoves
      <4> HIDE DEF new
      <4> QED BY <1>0, <4>1, <4>2, QueuePlayers
    <3>4. sessions' = sessions
      BY <2>3 DEF HostResolved
    <3> QED BY <1>0, <2>1, <3>1, <3>2, <3>3, <3>4 DEF Untouched
  <2>4. CASE (Resolved(op) /\ op.player \notin sessions) \/ (HostResolved(op) /\ ~room.there)
    <3>1. UNCHANGED <<sock, players, sessions, queue>>
      BY <2>4 DEF Resolved, HostResolved, registry
    <3> QED BY <1>0, <2>1, <3>1 DEF Untouched
  <2>5. CASE Forgotten(op)
    <3>1. /\ SameIdentity(sock, sock') /\ players' = PlayersWithout(op.ws, op.player)
          /\ op.player \in Player
      BY <2>5, ForgottenFacts
    <3>2. players'[p] = NoSocket
      BY <1>0, <1>00, <3>1 DEF PlayersWithout, TypeOK
    <3>3. p \notin sessions' /\ queue' = queue
      BY <1>0, <2>5 DEF Forgotten
    <3> QED BY <1>0, <2>1, <3>1, <3>2, <3>3 DEF Untouched, SameIdentity
  <2> QED BY <1>7, <2>2, <2>3, <2>4, <2>5
<1>8. ASSUME RepositoryFails PROVE goal
  <2>1. \A v \in Socket : sock'[v].player # p
    BY <1>00, <1>8, AbsentFacts DEF RepositoryFails
  <2> QED BY <1>0, <1>8, <2>1 DEF RepositoryFails, Untouched
<1>9. ASSUME RoomExpires PROVE goal
  BY <1>0, <1>9 DEF RoomExpires, registry, Untouched
<1>10. ASSUME UNCHANGED vars PROVE goal
  BY <1>0, <1>10 DEF vars, registry, Untouched
<1> HIDE DEF goal
<1>11. goal
  BY <1>1, <1>2, <1>3, <1>4, <1>5, <1>6, <1>7, <1>8, <1>9, <1>10
     DEF Next, PeerCloses, Heartbeat, RepositoryStep
<1> QED BY <1>11 DEF goal

\* Where an operation that waits for the repository comes from.
LEMMA PendingStep ==
    ASSUME [Next]_vars, NEW op \in pending'
    PROVE  \/ op \in pending
           \/ \E p \in Player : JoinAccepted(p) /\ op = Op("session", Head(queue).ws, p)
           \/ LeaveAccepted /\ op = Op("forget", Head(queue).ws, Head(queue).player)
           \/ \E w \in Socket, p \in Player : AskReconnect(w, p) /\ op = Op("resolve", w, p)
           \/ \E w \in Socket : AskHost(w) /\ op = Op("resolveHost", w, NoPlayer)
<1>1. ASSUME NEW w \in Socket,
             \/ \E kind \in Kind : Connect(w, kind)
             \/ AuthTimeout(w) \/ Violate(w) \/ PeerCloses(w) \/ Heartbeat(w)
             \/ AskJoin(w) \/ AskLeave(w) \/ AskEvent(w)
      PROVE  pending' = pending
  BY <1>1 DEF Connect, AuthTimeout, Violate, PeerCloses, Heartbeat, HandleClose, AskJoin,
              AskLeave, AskEvent
<1>2. ASSUME NEW w \in Socket, AskHost(w)
      PROVE  op \in pending \/ op = Op("resolveHost", w, NoPlayer)
  BY <1>2 DEF AskHost
<1>3. ASSUME NEW w \in Socket, NEW p \in Player, AskReconnect(w, p)
      PROVE  op \in pending \/ op = Op("resolve", w, p)
  BY <1>3 DEF AskReconnect
<1>4. ASSUME NEW p \in Player, JoinAccepted(p)
      PROVE  op \in pending \/ op = Op("session", Head(queue).ws, p)
  BY <1>4 DEF JoinAccepted
<1>5. CASE LeaveAccepted
  BY <1>5 DEF LeaveAccepted
<1>6. CASE RepositoryStep \/ RepositoryFails \/ RoomExpires \/ TimerShows \/ ActorFails
           \/ UNCHANGED vars
  BY <1>6 DEF RepositoryStep, Joined, Resolved, HostResolved, Forgotten, RepositoryFails,
              RoomExpires, TimerShows, ActorFails, vars
<1>7. ASSUME NEW p \in Player, HttpJoin(p) PROVE op \in pending
  BY <1>7 DEF HttpJoin
<1>8. ASSUME ActorStep PROVE \/ LeaveAccepted \/ \E p \in Player : JoinAccepted(p)
                             \/ op \in pending
  BY <1>8 DEF ActorStep, Rejected, Accepted, Dealt, StatusChange, HostChange, RoomMissing
<1> QED BY <1>1, <1>2, <1>3, <1>4, <1>5, <1>6, <1>7, <1>8 DEF Next, Ask

\* FreshInv is inductive.
LEMMA FreshStep ==
    ASSUME BaseInv, FreshInv, [Next]_vars
    PROVE  FreshInv'
<1>0. \A op \in pending : op \in OpRecord /\ (op.kind = "session" => op.player \in Player)
  BY DEF BaseInv, TypeOK, OpsFit, Fits
<1>1. ASSUME NEW p \in Player, JoinAccepted(p) \/ HttpJoin(p)
      PROVE  room.status[p] = "none" /\ room'.status[p] # "none"
  <2>1. room.status[p] = "none"
    BY <1>1 DEF JoinAccepted, HttpJoin
  <2>2. room' = [room EXCEPT !.status[p] = "connected"]
    BY <1>1 DEF JoinAccepted, HttpJoin
  <2>3. room'.status = [room.status EXCEPT ![p] = "connected"]
    BY <2>2, StatusFacts DEF BaseInv, TypeOK
  <2> QED BY <2>1, <2>3 DEF BaseInv, TypeOK, RoomRecord
<1>2. \A p \in Player : /\ room'.status[p] = "none" => room.status[p] = "none"
                        /\ room.status[p] = "left" => room'.status[p] = "left"
  BY StatusStep DEF StatusMoves
<1>3. ASSUME NEW p \in Player, room'.status[p] = "none"
      PROVE  Untouched(p)' /\ \A op \in pending' : op.player # p
  <2>1. /\ room.status[p] = "none" /\ Untouched(p)
        /\ \A op \in pending : op.player # p
    BY <1>2, <1>3 DEF FreshInv
  <2>2. ~HttpJoin(p) /\ ~JoinAccepted(p)
    BY <1>1, <1>3
  <2>3. Untouched(p)'
    BY <2>1, <2>2, UntouchedStep
  <2>4. ASSUME NEW op \in pending' PROVE op.player # p
    <3>1. CASE op \in pending
      BY <2>1, <3>1
    <3>2. ASSUME NEW q \in Player, JoinAccepted(q), op = Op("session", Head(queue).ws, q)
          PROVE  op.player # p
      BY <2>2, <3>2, OpType
    <3>3. CASE LeaveAccepted /\ op = Op("forget", Head(queue).ws, Head(queue).player)
      <4>1. queue # <<>> /\ queue \in Seq(OpRecord)
        BY <3>3 DEF LeaveAccepted, Take, BaseInv, TypeOK
      <4>2. Head(queue).player # p
        BY <2>1, <4>1, TailOp DEF Untouched
      <4> QED BY <3>3, <4>2, OpType
    <3>4. ASSUME NEW w \in Socket, NEW q \in Player, AskReconnect(w, q), op = Op("resolve", w, q)
          PROVE  op.player # p
      BY <2>1, <3>4, OpType DEF AskReconnect
    <3>5. ASSUME NEW w \in Socket, op = Op("resolveHost", w, NoPlayer)
          PROVE  op.player # p
      BY <3>5, OpType, GatewayAssumption
    <3> QED BY <3>1, <3>2, <3>3, <3>4, <3>5, PendingStep
  <2> QED BY <2>3, <2>4
<1>4. ASSUME NEW op \in pending', op.kind = "session", op \notin pending
      PROVE  \E p \in Player : JoinAccepted(p) /\ op = Op("session", Head(queue).ws, p)
  BY <1>4, PendingStep, OpType
<1>5. ASSUME NEW op \in pending', op.kind = "session"
      PROVE  /\ Untouched(op.player)'
             /\ \A o \in pending' : o.kind = "session" /\ o.player = op.player => o = op
  <2>1. CASE op \in pending
    <3>1. /\ Untouched(op.player) /\ op.player \in Player
          /\ \A o \in pending : o.kind = "session" /\ o.player = op.player => o = op
      BY <1>0, <1>5, <2>1 DEF FreshInv
    <3>2. ASSUME NEW o \in pending, Joined(o) PROVE o.player # op.player
      <4>1. o.kind = "session" /\ o \notin pending'
        BY <3>2 DEF Joined
      <4> QED BY <3>1, <4>1
    <3>3. room.status[op.player] # "none"
      BY <2>1, <3>1 DEF FreshInv
    <3>4. ~HttpJoin(op.player) /\ ~JoinAccepted(op.player)
      BY <1>1, <3>1, <3>3
    <3>5. Untouched(op.player)'
      BY <3>1, <3>2, <3>4, UntouchedStep
    <3>6. ASSUME NEW o \in pending', o.kind = "session", o.player = op.player PROVE o = op
      BY <1>4, <3>1, <3>4, <3>6, OpType
    <3> QED BY <3>5, <3>6
  <2>2. CASE op \notin pending
    <3>1. PICK p \in Player : JoinAccepted(p) /\ op = Op("session", Head(queue).ws, p)
      BY <1>4, <1>5, <2>2
    <3>2. op.player = p /\ room.status[p] = "none"
      BY <1>1, <3>1, OpType
    <3>3. Untouched(p) /\ \A o \in pending : o.player # p
      BY <3>2 DEF FreshInv
    <3>4. ~HttpJoin(p)
      BY <3>1 DEF HttpJoin, JoinAccepted, Take, registry
    <3>5. Untouched(p)'
      BY <3>3, <3>4, UntouchedStep
    <3>6. ASSUME NEW o \in pending', o.kind = "session", o.player = op.player PROVE o = op
      <4>1. PICK q \in Player : JoinAccepted(q) /\ o = Op("session", Head(queue).ws, q)
        BY <1>4, <3>2, <3>3, <3>6
      <4> QED BY <3>1, <3>2, <3>6, <4>1, OpType
    <3> QED BY <3>2, <3>5, <3>6
  <2> QED BY <2>1, <2>2
<1>6. ASSUME NEW op \in pending', op.kind = "forget"
      PROVE  room'.status[op.player] = "left"
  <2>1. CASE op \in pending
    <3>1. op.player \in Player /\ room.status[op.player] = "left"
      BY <1>6, <2>1 DEF FreshInv, BaseInv, OpsFit, Fits
    <3> QED BY <1>2, <3>1
  <2>2. CASE LeaveAccepted /\ op = Op("forget", Head(queue).ws, Head(queue).player)
    <3> DEFINE q == Head(queue).player
    <3>1. q \in Player /\ op.player = q
      BY <2>2, HeadFits, OpType DEF LeaveAccepted, Take, Fits
    <3>2. room' = [room EXCEPT !.status[q] = "left", !.roles[q] = 0]
      BY <2>2 DEF LeaveAccepted
    <3>3. room'.status = [room.status EXCEPT ![q] = "left"] /\ room \in RoomRecord
      BY <3>1, <3>2, LeftFacts DEF BaseInv, TypeOK
    <3> QED BY <3>1, <3>3 DEF RoomRecord
  <2> QED BY <1>6, <2>1, <2>2, PendingStep, OpType
<1> QED BY <1>3, <1>5, <1>6 DEF FreshInv

-----------------------------------------------------------------------------
(* The slots of the registry *)

\* A player's slot holds the player's socket until that is replaced, or the player leaves;
\* who has left this way has no session to come back with.
SlotsAreKept ==
    \A w \in Socket : (sock[w].authed /\ ~sock[w].replaced /\ sock[w].kind = "player") =>
        \/ players[sock[w].player] = w
        \/ /\ players[sock[w].player] = NoSocket /\ sock[w].player \notin sessions
           /\ room.status[sock[w].player] = "left"

SlotInv == SocketsOwnTheirSlot /\ SlotsAreKept

\* An authenticated socket of a player has a player.
LEMMA PlayersSocket ==
    ASSUME BaseInv, NEW w \in Socket, sock[w].authed, sock[w].kind = "player"
    PROVE  sock[w].player \in Player /\ sock[w].conn # "none"
<1>1. Identified(sock[w]) /\ sock[w].player \in Id
  BY DEF BaseInv, TypeOK, Sockets, SocketRecord
<1> QED BY <1>1 DEF Identified, Id

\* SlotInv is kept where neither identities nor the registry change.
LEMMA SlotCalm ==
    ASSUME BaseInv, FreshInv, SlotInv, [Next]_vars,
           SameIdentity(sock, sock'), OnlyCloses(sock, sock'),
           host' = host, players' = players,
           \A p \in sessions' : p \in sessions \/ room.status[p] = "none"
    PROVE  SlotInv'
<1>1. SocketsOwnTheirSlot'
  BY DEF SlotInv, SocketsOwnTheirSlot, SameIdentity, OnlyCloses
<1>2. ASSUME NEW w \in Socket, sock'[w].authed, ~sock'[w].replaced, sock'[w].kind = "player"
      PROVE  \/ players'[sock'[w].player] = w
             \/ /\ players'[sock'[w].player] = NoSocket /\ sock'[w].player \notin sessions'
                /\ room'.status[sock'[w].player] = "left"
  <2> DEFINE p == sock[w].player
  <2>1. /\ sock[w].authed /\ ~sock[w].replaced /\ sock[w].kind = "player" /\ sock'[w].player = p
    BY <1>2 DEF SameIdentity
  <2>2. p \in Player
    BY <2>1, PlayersSocket
  <2>3. room.status[p] = "left" => room'.status[p] = "left"
    BY <2>2, StatusStep DEF StatusMoves
  <2> QED BY <2>1, <2>3 DEF SlotInv, SlotsAreKept
<1> QED BY <1>1, <1>2 DEF SlotInv, SlotsAreKept

\* SlotInv is kept when a socket closes.
LEMMA SlotClose ==
    ASSUME BaseInv, SlotInv, NEW w \in Socket, HandleClose(w)
    PROVE  SlotInv'
<1>1. sock'[w] = Absent /\ \A v \in Socket \ {w} : sock'[v] = sock[v]
  BY ClosedFacts
<1>2. /\ host' = host \/ (host = w /\ host' = NoSocket)
      /\ sessions' = sessions /\ room' = room
  BY DEF HandleClose, HostWithout
<1>3. \A p \in Player : players'[p] = players[p] \/ (players[p] = w /\ players'[p] = NoSocket)
  BY DEF HandleClose, PlayersWithout, BaseInv, TypeOK
<1>4. \A v \in Socket : sock'[v].authed => v # w /\ sock'[v] = sock[v]
  BY <1>1, AbsentFacts
<1>5. \A v \in Socket : (sock'[v].authed /\ sock'[v].kind = "player") => sock[v].player \in Player
  BY <1>4, PlayersSocket
<1>6. SocketsOwnTheirSlot'
  <2> SUFFICES ASSUME NEW v \in Socket, sock'[v].conn = "open", sock'[v].authed
               PROVE  IF sock'[v].kind = "host" THEN host' = v ELSE players'[sock'[v].player] = v
    BY DEF SocketsOwnTheirSlot
  <2>1. v # w /\ sock'[v] = sock[v]
    BY <1>4
  <2>2. IF sock[v].kind = "host" THEN host = v ELSE players[sock[v].player] = v
    BY <2>1 DEF SlotInv, SocketsOwnTheirSlot
  <2>3. CASE sock[v].kind = "host"
    BY <1>2, <2>1, <2>2, <2>3
  <2>4. CASE sock[v].kind # "host"
    <3>1. sock[v].kind = "player"
      BY <2>4 DEF BaseInv, TypeOK, Sockets, SocketRecord, Kind
    <3> QED BY <1>3, <1>5, <2>1, <2>2, <2>4, <3>1
  <2> QED BY <2>3, <2>4
<1>7. SlotsAreKept'
  <2> SUFFICES ASSUME NEW v \in Socket, sock'[v].authed, ~sock'[v].replaced, sock'[v].kind = "player"
               PROVE  \/ players'[sock'[v].player] = v
                      \/ /\ players'[sock'[v].player] = NoSocket
                         /\ sock'[v].player \notin sessions'
                         /\ room'.status[sock'[v].player] = "left"
    BY DEF SlotsAreKept
  <2>1. v # w /\ sock'[v] = sock[v] /\ sock[v].player \in Player
    BY <1>4, <1>5
  <2>2. \/ players[sock[v].player] = v
        \/ /\ players[sock[v].player] = NoSocket /\ sock[v].player \notin sessions
           /\ room.status[sock[v].player] = "left"
    BY <2>1 DEF SlotInv, SlotsAreKept
  <2>3. NoSocket # w
    BY GatewayAssumption
  <2> QED BY <1>2, <1>3, <2>1, <2>2, <2>3
<1> QED BY <1>6, <1>7 DEF SlotInv

\* SlotInv is kept when a player's join or reconnect binds a socket.
LEMMA SlotBind ==
    ASSUME BaseInv, BaseInv', FreshInv, SlotInv, NEW op \in pending,
           Joined(op) \/ (Resolved(op) /\ op.player \in sessions)
    PROVE  SlotInv'
<1> DEFINE w == op.ws
           p == op.player
<1>1. /\ w \in Socket /\ p \in Player
      /\ players' = [players EXCEPT ![p] = w] /\ host' = host
      /\ Bound(w, p, players[p])
  BY PlayerBound
<1>2. /\ players'[p] = w /\ \A q \in Player \ {p} : players'[q] = players[q]
      /\ room' = room /\ sessions' \subseteq sessions \cup {p}
  BY <1>1 DEF BaseInv, TypeOK, Joined, Resolved
<1>3. \A v \in Socket : sock[v].player = p => p \in sessions
  BY DEF FreshInv, Joined, Untouched
<1>4. ASSUME NEW v \in Socket, v # w
      PROVE  /\ sock'[v].kind = sock[v].kind /\ sock'[v].authed = sock[v].authed
             /\ sock'[v].player = sock[v].player
             /\ sock'[v].conn = "open" => sock[v].conn = "open"
             /\ v # players[p] => sock'[v].replaced = sock[v].replaced
             /\ v = players[p] => /\ sock'[v].conn # "open"
                                  /\ sock[v].conn # "none" => sock'[v].replaced
  BY <1>1, <1>4 DEF Bound, OnlyCloses, Known
<1>5. Known(w) => sock'[w].player = p
  BY <1>1 DEF Bound
<1>6. ~Known(w) => ~sock'[w].authed
  <2>1. ~Known(w) => ~sock[w].authed
    BY <1>1 DEF BaseInv, Identified, Known
  <2> QED BY <1>1, <2>1 DEF Bound
<1>7. SocketsOwnTheirSlot'
  <2> SUFFICES ASSUME NEW v \in Socket, sock'[v].conn = "open", sock'[v].authed
               PROVE  IF sock'[v].kind = "host" THEN host' = v ELSE players'[sock'[v].player] = v
    BY DEF SocketsOwnTheirSlot
  <2>1. CASE v = w
    <3>1. sock'[v].player = p
      BY <1>5, <1>6, <2>1
    <3>2. sock'[v].kind # "host"
      <4>1. Identified(sock'[v]) /\ p # NoPlayer
        BY <1>1, GatewayAssumption DEF BaseInv
      <4> QED BY <3>1, <4>1 DEF Identified
    <3> QED BY <1>2, <2>1, <3>1, <3>2
  <2>2. CASE v # w
    <3>1. /\ sock[v].conn = "open" /\ sock[v].authed /\ v # players[p]
          /\ sock'[v].kind = sock[v].kind /\ sock'[v].player = sock[v].player
      BY <1>4, <2>2
    <3>2. IF sock[v].kind = "host" THEN host = v ELSE players[sock[v].player] = v
      BY <3>1 DEF SlotInv, SocketsOwnTheirSlot
    <3>3. CASE sock[v].kind = "host"
      BY <1>1, <3>1, <3>2, <3>3
    <3>4. CASE sock[v].kind # "host"
      <4>1. sock[v].kind = "player"
        BY <3>4 DEF BaseInv, TypeOK, Sockets, SocketRecord, Kind
      <4>2. sock[v].player \in Player
        BY <3>1, <4>1, PlayersSocket
      <4> QED BY <1>2, <3>1, <3>2, <3>4, <4>2
    <3> QED BY <3>3, <3>4
  <2> QED BY <2>1, <2>2
<1>8. SlotsAreKept'
  <2> SUFFICES ASSUME NEW v \in Socket, sock'[v].authed, ~sock'[v].replaced, sock'[v].kind = "player"
               PROVE  \/ players'[sock'[v].player] = v
                      \/ /\ players'[sock'[v].player] = NoSocket
                         /\ sock'[v].player \notin sessions'
                         /\ room'.status[sock'[v].player] = "left"
    BY DEF SlotsAreKept
  <2>1. CASE v = w
    BY <1>2, <1>5, <1>6, <2>1
  <2>2. CASE v # w
    <3>1. /\ sock[v].authed /\ sock[v].kind = "player" /\ sock'[v].player = sock[v].player
      BY <1>4, <2>2
    <3>2. sock[v].player \in Player /\ sock[v].conn # "none"
      BY <3>1, PlayersSocket
    <3>3. v # players[p] /\ ~sock[v].replaced
      BY <1>4, <2>2, <3>2
    <3>4. \/ players[sock[v].player] = v
          \/ /\ players[sock[v].player] = NoSocket /\ sock[v].player \notin sessions
             /\ room.status[sock[v].player] = "left"
      BY <3>1, <3>3 DEF SlotInv, SlotsAreKept
    <3>5. sock[v].player # p
      BY <1>3, <3>3, <3>4
    <3> QED BY <1>2, <3>1, <3>2, <3>4, <3>5
  <2> QED BY <2>1, <2>2
<1> QED BY <1>7, <1>8 DEF SlotInv

\* SlotInv is kept when the host's reconnect binds a socket.
LEMMA SlotBindHost ==
    ASSUME BaseInv, BaseInv', SlotInv, NEW op \in pending, HostResolved(op), room.there
    PROVE  SlotInv'
<1> DEFINE w == op.ws
<1>1. w \in Socket /\ host' = w /\ players' = players /\ Bound(w, NoPlayer, host)
  BY HostBound
<1>2. room' = room /\ sessions' = sessions
  BY DEF HostResolved
<1>3. ASSUME NEW v \in Socket, v # w
      PROVE  /\ sock'[v].kind = sock[v].kind /\ sock'[v].authed = sock[v].authed
             /\ sock'[v].player = sock[v].player
             /\ sock'[v].conn = "open" => sock[v].conn = "open"
             /\ v # host => sock'[v].replaced = sock[v].replaced
             /\ v = host => /\ sock'[v].conn # "open"
                            /\ sock[v].conn # "none" => sock'[v].replaced
  BY <1>1, <1>3 DEF Bound, OnlyCloses, Known
<1>4. sock'[w].authed => sock'[w].kind # "player"
  <2>1. Known(w) => sock'[w].player = NoPlayer
    BY <1>1 DEF Bound
  <2>2. ~Known(w) => ~sock'[w].authed
    <3>1. ~Known(w) => ~sock[w].authed
      BY <1>1 DEF BaseInv, Identified, Known
    <3> QED BY <1>1, <3>1 DEF Bound
  <2> QED BY <1>1, <2>1, <2>2 DEF BaseInv, Identified
<1>5. SocketsOwnTheirSlot'
  <2> SUFFICES ASSUME NEW v \in Socket, sock'[v].conn = "open", sock'[v].authed
               PROVE  IF sock'[v].kind = "host" THEN host' = v ELSE players'[sock'[v].player] = v
    BY DEF SocketsOwnTheirSlot
  <2>1. CASE v = w
    <3>1. sock'[v].kind = "host"
      BY <1>4, <2>1 DEF BaseInv, TypeOK, Sockets, SocketRecord, Kind
    <3> QED BY <1>1, <2>1, <3>1
  <2>2. CASE v # w
    <3>1. /\ sock[v].conn = "open" /\ sock[v].authed /\ v # host
          /\ sock'[v].kind = sock[v].kind /\ sock'[v].player = sock[v].player
      BY <1>3, <2>2
    <3>2. IF sock[v].kind = "host" THEN host = v ELSE players[sock[v].player] = v
      BY <3>1 DEF SlotInv, SocketsOwnTheirSlot
    <3> QED BY <1>1, <3>1, <3>2
  <2> QED BY <2>1, <2>2
<1>6. SlotsAreKept'
  <2> SUFFICES ASSUME NEW v \in Socket, sock'[v].authed, ~sock'[v].replaced, sock'[v].kind = "player"
               PROVE  \/ players'[sock'[v].player] = v
                      \/ /\ players'[sock'[v].player] = NoSocket
                         /\ sock'[v].player \notin sessions'
                         /\ room'.status[sock'[v].player] = "left"
    BY DEF SlotsAreKept
  <2>1. v # w
    BY <1>4
  <2>2. sock[v].authed /\ sock[v].kind = "player" /\ sock'[v].player = sock[v].player
    BY <1>3, <2>1
  <2>3. ~sock[v].replaced
    <3>1. sock[v].conn # "none"
      BY <2>2, PlayersSocket
    <3> QED BY <1>3, <2>1, <3>1
  <2> QED BY <1>1, <1>2, <2>2, <2>3 DEF SlotInv, SlotsAreKept
<1> QED BY <1>5, <1>6 DEF SlotInv

\* SlotInv is kept when a player's leave empties the slot.
LEMMA SlotForget ==
    ASSUME BaseInv, FreshInv, SlotInv, NEW op \in pending, Forgotten(op)
    PROVE  SlotInv'
<1> DEFINE w == op.ws
           p == op.player
<1>1. /\ w \in Socket /\ p \in Player
      /\ SameIdentity(sock, sock') /\ OnlyCloses(sock, sock') /\ sock'[w].conn # "open"
      /\ host' = host /\ players' = PlayersWithout(w, p)
  BY ForgottenFacts
<1>2. room' = room /\ sessions' = sessions \ {p} /\ room.status[p] = "left"
  BY DEF Forgotten, FreshInv
<1>3. \A q \in Player : \/ players'[q] = players[q]
                        \/ q = p /\ players[q] = w /\ players'[q] = NoSocket
  BY <1>1 DEF PlayersWithout, BaseInv, TypeOK
<1>4. \A v \in Socket : /\ sock'[v].kind = sock[v].kind /\ sock'[v].authed = sock[v].authed
                        /\ sock'[v].player = sock[v].player
                        /\ sock'[v].replaced = sock[v].replaced
                        /\ sock'[v].conn = "open" => sock[v].conn = "open"
  BY <1>1 DEF SameIdentity, OnlyCloses
<1>5. SocketsOwnTheirSlot'
  <2> SUFFICES ASSUME NEW v \in Socket, sock'[v].conn = "open", sock'[v].authed
               PROVE  IF sock'[v].kind = "host" THEN host' = v ELSE players'[sock'[v].player] = v
    BY DEF SocketsOwnTheirSlot
  <2>1. v # w /\ (IF sock[v].kind = "host" THEN host = v ELSE players[sock[v].player] = v)
    BY <1>1, <1>4 DEF SlotInv, SocketsOwnTheirSlot
  <2>2. CASE sock[v].kind = "host"
    BY <1>1, <1>4, <2>1, <2>2
  <2>3. CASE sock[v].kind # "host"
    <3>1. sock[v].kind = "player"
      BY <2>3 DEF BaseInv, TypeOK, Sockets, SocketRecord, Kind
    <3>2. sock[v].player \in Player
      BY <1>4, <3>1, PlayersSocket
    <3> QED BY <1>3, <1>4, <2>1, <2>3, <3>2
  <2> QED BY <2>2, <2>3
<1>6. SlotsAreKept'
  <2> SUFFICES ASSUME NEW v \in Socket, sock'[v].authed, ~sock'[v].replaced, sock'[v].kind = "player"
               PROVE  \/ players'[sock'[v].player] = v
                      \/ /\ players'[sock'[v].player] = NoSocket
                         /\ sock'[v].player \notin sessions'
                         /\ room'.status[sock'[v].player] = "left"
    BY DEF SlotsAreKept
  <2>1. sock[v].player \in Player
    BY <1>4, PlayersSocket
  <2>2. \/ players[sock[v].player] = v
        \/ /\ players[sock[v].player] = NoSocket /\ sock[v].player \notin sessions
           /\ room.status[sock[v].player] = "left"
    BY <1>4 DEF SlotInv, SlotsAreKept
  <2>3. NoSocket # w
    BY <1>1, GatewayAssumption
  <2> QED BY <1>2, <1>3, <1>4, <2>1, <2>2, <2>3
<1> QED BY <1>5, <1>6 DEF SlotInv

\* SlotInv is inductive.
LEMMA SlotStep ==
    ASSUME BaseInv, FreshInv, SlotInv, [Next]_vars
    PROVE  SlotInv'
<1>0. BaseInv' /\ TypeOK
  BY BaseStep DEF BaseInv
<1>1. ASSUME NEW w \in Socket, NEW kind \in Kind, Connect(w, kind) PROVE SlotInv'
  <2>1. /\ sock' = [sock EXCEPT ![w] = Fresh(kind, "open")]
        /\ UNCHANGED <<host, players, sessions, room>>
    BY <1>1 DEF Connect, registry
  <2>2. \A v \in Socket : sock'[v].authed => sock'[v] = sock[v]
    BY <1>0, <2>1 DEF Fresh, TypeOK, Sockets
  <2> QED BY <2>1, <2>2 DEF SlotInv, SocketsOwnTheirSlot, SlotsAreKept
<1>2. ASSUME NEW w \in Socket, AuthTimeout(w) \/ Violate(w) PROVE SlotInv'
  <2>1. /\ SameIdentity(sock, sock') /\ OnlyCloses(sock, sock')
        /\ UNCHANGED <<host, players, sessions>>
    BY <1>0, <1>2, CloseFacts DEF AuthTimeout, Violate, registry, TypeOK
  <2> QED BY <2>1, SlotCalm
<1>3. ASSUME NEW w \in Socket, Ask(w) PROVE SlotInv'
  <2>1. UNCHANGED <<sock, host, players, sessions>>
    BY <1>3 DEF Ask, AskJoin, AskHost, AskLeave, AskEvent, AskReconnect, registry
  <2>2. SameIdentity(sock, sock') /\ OnlyCloses(sock, sock')
    BY <2>1 DEF SameIdentity, OnlyCloses
  <2> QED BY <2>1, <2>2, SlotCalm
<1>4. ASSUME (\E p \in Player : HttpJoin(p)) \/ RoomExpires \/ UNCHANGED vars PROVE SlotInv'
  <2>1. /\ UNCHANGED <<host, players>>
        /\ \A p \in sessions' : p \in sessions \/ room.status[p] = "none"
        /\ sock' = sock \/ \E p \in Player : HttpJoin(p)
    BY <1>4 DEF HttpJoin, RoomExpires, vars, registry
  <2>2. SameIdentity(sock, sock') /\ OnlyCloses(sock, sock')
    BY <2>1, HttpJoinFacts DEF SameIdentity, OnlyCloses, BaseInv
  <2> QED BY <2>1, <2>2, SlotCalm
<1>5. ASSUME ActorStep \/ ActorFails \/ TimerShows PROVE SlotInv'
  BY <1>5, ActorIsCalm, SlotCalm
<1>6. ASSUME NEW op \in pending, Joined(op) \/ Resolved(op) \/ HostResolved(op) \/ Forgotten(op)
      PROVE  SlotInv'
  <2>1. CASE (Resolved(op) /\ op.player \notin sessions) \/ (HostResolved(op) /\ ~room.there)
    <3>1. UNCHANGED <<sock, host, players, sessions>>
      BY <2>1 DEF Resolved, HostResolved, registry
    <3>2. SameIdentity(sock, sock') /\ OnlyCloses(sock, sock')
      BY <3>1 DEF SameIdentity, OnlyCloses
    <3> QED BY <3>1, <3>2, SlotCalm
  <2> QED BY <1>0, <1>6, <2>1, SlotBind, SlotBindHost, SlotForget
<1>7. ASSUME RepositoryFails PROVE SlotInv'
  <2>1. \A v \in Socket : ~sock'[v].authed
    BY <1>7, AbsentFacts DEF RepositoryFails
  <2> QED BY <2>1 DEF SlotInv, SocketsOwnTheirSlot, SlotsAreKept
<1>8. ASSUME NEW w \in Socket, PeerCloses(w) \/ Heartbeat(w) PROVE SlotInv'
  BY <1>8, SlotClose DEF PeerCloses, Heartbeat
<1> QED BY <1>1, <1>2, <1>3, <1>4, <1>5, <1>6, <1>7, <1>8 DEF Next, RepositoryStep

-----------------------------------------------------------------------------
(* Disconnects in the queue *)

\* Every disconnect of the player in the queue is followed by a reconnect.
Answered(q, p) ==
    \A i \in 1 .. Len(q) : (q[i].kind = "gone" /\ q[i].player = p) =>
        \E j \in i + 1 .. Len(q) : q[j].kind = "reconnected" /\ q[j].player = p

\* DisconnectIsNeverLast, in terms of Answered.
AnsweredInv ==
    \A p \in Player : (players[p] # NoSocket /\ sock[players[p]].conn = "open") => Answered(queue, p)

\* The queue as it was, shortened, or lost.
QueueShrinks == queue' = queue \/ queue' = <<>> \/ (queue # <<>> /\ queue' = Tail(queue))

\* Answers come later than what they answer, so they stay when the queue shrinks.
LEMMA AnsweredShrinks ==
    ASSUME BaseInv, NEW p \in Player, QueueShrinks, Answered(queue, p)
    PROVE  Answered(queue', p)
<1>1. queue \in Seq(OpRecord) /\ Len(queue) \in Nat
  BY LenProperties DEF BaseInv, TypeOK
<1>2. CASE queue' = queue \/ queue' = <<>>
  BY <1>2 DEF Answered
<1>3. CASE queue # <<>> /\ queue' = Tail(queue)
  <2> SUFFICES ASSUME NEW i \in 1 .. Len(queue'), queue'[i].kind = "gone", queue'[i].player = p
               PROVE  \E j \in i + 1 .. Len(queue') :
                         queue'[j].kind = "reconnected" /\ queue'[j].player = p
    BY DEF Answered
  <2>1. /\ Len(queue') = Len(queue) - 1
        /\ \A k \in 1 .. Len(queue') : k + 1 \in 1 .. Len(queue) /\ queue'[k] = queue[k + 1]
    BY <1>1, <1>3, TailOp
  <2>2. PICK j \in i + 2 .. Len(queue) : queue[j].kind = "reconnected" /\ queue[j].player = p
    <3>1. i + 1 \in 1 .. Len(queue) /\ queue[i + 1].kind = "gone" /\ queue[i + 1].player = p
      BY <2>1
    <3>2. PICK j \in (i + 1) + 1 .. Len(queue) : queue[j].kind = "reconnected" /\ queue[j].player = p
      BY <3>1 DEF Answered
    <3> QED BY <3>2
  <2>3. j - 1 \in i + 1 .. Len(queue') /\ queue'[j - 1] = queue[j]
    <3>1. j - 1 \in 1 .. Len(queue') /\ j - 1 \in i + 1 .. Len(queue') /\ (j - 1) + 1 = j
      BY <1>1, <2>1
    <3> QED BY <2>1, <3>1
  <2> QED BY <2>2, <2>3
<1> QED BY <1>2, <1>3 DEF QueueShrinks

\* Answers stay when the queue grows by anything but another disconnect of the player.
LEMMA AnsweredAppends ==
    ASSUME BaseInv, NEW p \in Player, NEW new \in OpRecord, queue' = Append(queue, new),
           Answered(queue, p), ~(new.kind = "gone" /\ new.player = p)
    PROVE  Answered(queue', p)
<1>1. queue \in Seq(OpRecord) /\ Len(queue) \in Nat
  BY LenProperties DEF BaseInv, TypeOK
<1> SUFFICES ASSUME NEW i \in 1 .. Len(queue'), queue'[i].kind = "gone", queue'[i].player = p
             PROVE  \E j \in i + 1 .. Len(queue') :
                       queue'[j].kind = "reconnected" /\ queue'[j].player = p
  BY DEF Answered
<1>2. /\ Len(queue') = Len(queue) + 1
      /\ \A k \in 1 .. Len(queue) : queue'[k] = queue[k]
      /\ queue'[Len(queue) + 1] = new
  BY <1>1, AppendOp
<1>3. i \in 1 .. Len(queue)
  BY <1>1, <1>2
<1>4. PICK j \in i + 1 .. Len(queue) : queue[j].kind = "reconnected" /\ queue[j].player = p
  BY <1>2, <1>3 DEF Answered
<1>5. j \in 1 .. Len(queue) /\ j \in i + 1 .. Len(queue')
  BY <1>1, <1>2, <1>3
<1> QED BY <1>2, <1>4, <1>5

\* A reconnect at the end answers everything.
LEMMA AnsweredByLast ==
    ASSUME BaseInv, NEW p \in Player, NEW new \in OpRecord, queue' = Append(queue, new),
           new.kind = "reconnected", new.player = p
    PROVE  Answered(queue', p)
<1> SUFFICES ASSUME NEW i \in 1 .. Len(queue'), queue'[i].kind = "gone"
             PROVE  \E j \in i + 1 .. Len(queue') :
                       queue'[j].kind = "reconnected" /\ queue'[j].player = p
  BY DEF Answered
<1>1. /\ Len(queue) \in Nat /\ Len(queue') = Len(queue) + 1 /\ queue'[Len(queue) + 1] = new
  BY AppendOp DEF BaseInv, TypeOK
<1>2. i # Len(queue) + 1
  BY <1>1
<1>3. Len(queue) + 1 \in i + 1 .. Len(queue')
  BY <1>1, <1>2
<1> QED BY <1>1, <1>3

\* What is queued in a step, but for the disconnect of a close and the reconnects.
LEMMA QueueStep ==
    ASSUME BaseInv, [Next]_vars,
           \A w \in Socket : ~HandleClose(w),
           \A op \in pending : ~(Resolved(op) /\ op.player \in sessions)
    PROVE  \/ QueueShrinks
           \/ \E new \in OpRecord : /\ queue' = Append(queue, new)
                                    /\ new.kind \notin {"gone", "reconnected"}
<1>1. ASSUME NEW w \in Socket, Ask(w)
      PROVE  \/ queue' = queue
             \/ \E new \in OpRecord : /\ queue' = Append(queue, new)
                                      /\ new.kind \notin {"gone", "reconnected"}
  <2>1. \A kind \in {"join", "leave", "event"} : \A q \in {NoPlayer, sock[w].player} :
           Op(kind, w, q) \in OpRecord /\ Op(kind, w, q).kind \notin {"gone", "reconnected"}
    BY DEF Op, OpRecord, Id, BaseInv, TypeOK, Sockets, SocketRecord
  <2>2. CASE AskJoin(w) \/ AskLeave(w) \/ AskEvent(w)
    <3>1. \E kind \in {"join", "leave", "event"} : \E q \in {NoPlayer, sock[w].player} :
             queue' = Append(queue, Op(kind, w, q))
      BY <2>2 DEF AskJoin, AskLeave, AskEvent, Enqueue
    <3> QED BY <2>1, <3>1
  <2>3. CASE queue' = queue
    BY <2>3
  <2> QED BY <1>1, <2>2, <2>3 DEF Ask, AskHost, AskReconnect
<1>2. ASSUME NEW op \in pending, HostResolved(op)
      PROVE  \/ queue' = queue
             \/ \E new \in OpRecord : /\ queue' = Append(queue, new)
                                      /\ new.kind \notin {"gone", "reconnected"}
  <2>1. op.ws \in Socket
    BY DEF BaseInv, TypeOK, OpRecord
  <2>2. /\ Op("hostReconnected", op.ws, NoPlayer) \in OpRecord
        /\ Op("hostReconnected", op.ws, NoPlayer).kind \notin {"gone", "reconnected"}
    BY <2>1 DEF Op, OpRecord, Id
  <2> QED BY <1>2, <2>2 DEF HostResolved, Enqueue
<1>3. ASSUME NEW op \in pending, Joined(op) \/ Resolved(op) \/ Forgotten(op) PROVE queue' = queue
  BY <1>3 DEF Joined, Resolved, Forgotten
<1>4. CASE ActorStep \/ ActorFails \/ TimerShows
  BY <1>4, ActorIsCalm DEF QueueShrinks
<1>5. ASSUME NEW w \in Socket,
             (\E kind \in Kind : Connect(w, kind)) \/ AuthTimeout(w) \/ Violate(w)
      PROVE  queue' = queue
  BY <1>5 DEF Connect, AuthTimeout, Violate
<1>6. CASE (\E p \in Player : HttpJoin(p)) \/ RoomExpires \/ RepositoryFails \/ UNCHANGED vars
  BY <1>6 DEF HttpJoin, RoomExpires, RepositoryFails, vars, QueueShrinks
<1> QED BY <1>1, <1>2, <1>3, <1>4, <1>5, <1>6
        DEF Next, RepositoryStep, PeerCloses, Heartbeat, QueueShrinks

\* What a step does to the registry and to connections, but for those of the three kinds
\* above.
LEMMA RegistryStep ==
    ASSUME BaseInv, [Next]_vars, NEW p \in Player, players'[p] # NoSocket,
           sock'[players'[p]].conn = "open",
           \A w \in Socket : ~HandleClose(w),
           \A op \in pending :
              ~((Joined(op) \/ (Resolved(op) /\ op.player \in sessions)) /\ op.player = p)
    PROVE  players[p] # NoSocket /\ sock[players[p]].conn = "open"
<1>0. players \in [Player -> Slot] /\ sock \in Sockets
  BY DEF BaseInv, TypeOK
<1>1. ASSUME players'[p] = players[p], OnlyCloses(sock, sock')
      PROVE  players[p] # NoSocket /\ sock[players[p]].conn = "open"
  BY <1>0, <1>1 DEF OnlyCloses, Slot
<1>2. ASSUME sock' = sock PROVE OnlyCloses(sock, sock')
  BY <1>2 DEF OnlyCloses
<1>3. ASSUME NEW w \in Socket, NEW kind \in Kind, Connect(w, kind)
      PROVE  players[p] # NoSocket /\ sock[players[p]].conn = "open"
  <2>1. players' = players /\ players[p] # w /\ sock' = [sock EXCEPT ![w] = Fresh(kind, "open")]
    BY <1>3 DEF Connect, Unused, registry
  <2> QED BY <1>0, <2>1 DEF Sockets, Slot
<1>4. ASSUME NEW w \in Socket, AuthTimeout(w) \/ Violate(w)
      PROVE  players' = players /\ OnlyCloses(sock, sock')
  BY <1>0, <1>4, CloseFacts DEF AuthTimeout, Violate, registry
<1>5. ASSUME NEW w \in Socket, Ask(w) PROVE players' = players /\ sock' = sock
  BY <1>5 DEF Ask, AskJoin, AskHost, AskLeave, AskEvent, AskReconnect, registry
<1>6. ASSUME (\E q \in Player : HttpJoin(q)) \/ RoomExpires \/ UNCHANGED vars
      PROVE  players' = players /\ OnlyCloses(sock, sock')
  BY <1>2, <1>6, HttpJoinFacts DEF HttpJoin, RoomExpires, vars, registry, BaseInv
<1>7. ASSUME ActorStep \/ ActorFails \/ TimerShows
      PROVE  players' = players /\ OnlyCloses(sock, sock')
  BY <1>7, ActorIsCalm
<1>8. ASSUME NEW op \in pending, Joined(op) \/ (Resolved(op) /\ op.player \in sessions)
      PROVE  players'[p] = players[p] /\ OnlyCloses(sock, sock')
  BY <1>0, <1>8, PlayerBound DEF Bound
<1>9. ASSUME NEW op \in pending, Resolved(op), op.player \notin sessions
      PROVE  players' = players /\ sock' = sock
  BY <1>9 DEF Resolved, registry
<1>10. ASSUME NEW op \in pending, HostResolved(op)
       PROVE  players' = players /\ OnlyCloses(sock, sock')
  <2>1. CASE room.there
    BY <1>10, <2>1, HostBound DEF Bound
  <2>2. CASE ~room.there
    BY <1>10, <2>2, <1>2 DEF HostResolved
  <2> QED BY <2>1, <2>2
<1>11. ASSUME NEW op \in pending, Forgotten(op)
       PROVE  players'[p] = players[p] /\ OnlyCloses(sock, sock')
  <2>1. players' = PlayersWithout(op.ws, op.player) /\ OnlyCloses(sock, sock') /\ op.player \in Player
    BY <1>11, ForgottenFacts
  <2>2. players'[p] = players[p] \/ players'[p] = NoSocket
    BY <1>0, <2>1 DEF PlayersWithout
  <2> QED BY <2>1, <2>2
<1>12. ~RepositoryFails
  BY DEF RepositoryFails
<1> QED BY <1>1, <1>2, <1>3, <1>4, <1>5, <1>6, <1>7, <1>8, <1>9, <1>10, <1>11, <1>12
        DEF Next, RepositoryStep, PeerCloses, Heartbeat

\* AnsweredInv is inductive.
LEMMA AnsweredStep ==
    ASSUME BaseInv, FreshInv, SlotInv, AnsweredInv, [Next]_vars
    PROVE  AnsweredInv'
<1> SUFFICES ASSUME NEW p \in Player, players'[p] # NoSocket, sock'[players'[p]].conn = "open"
             PROVE  Answered(queue', p)
  BY DEF AnsweredInv
<1>0. players \in [Player -> Slot] /\ sock \in Sockets /\ p # NoPlayer
  BY GatewayAssumption DEF BaseInv, TypeOK
<1>1. ASSUME NEW w \in Socket, HandleClose(w) PROVE Answered(queue', p)
  <2> DEFINE new == Op(IF sock[w].kind = "host" THEN "hostGone" ELSE "gone", w, sock[w].player)
  <2>1. sock'[w] = Absent /\ \A v \in Socket \ {w} : sock'[v] = sock[v]
    BY <1>1, ClosedFacts
  <2>2. players'[p] = players[p] /\ players[p] # w
    BY <1>0, <1>1, <2>1, AbsentFacts DEF HandleClose, PlayersWithout
  <2>3. sock[players[p]].conn = "open"
    BY <1>0, <2>1, <2>2 DEF Slot
  <2>4. Answered(queue, p)
    BY <2>2, <2>3 DEF AnsweredInv
  <2>5. CASE queue' = queue
    BY <2>4, <2>5
  <2>6. CASE queue' # queue
    <3>1. queue' = Append(queue, new) /\ sock[w].authed /\ ~sock[w].replaced
      BY <1>1, <2>6 DEF HandleClose
    <3>2. new \in OpRecord /\ new.player = sock[w].player
      BY <1>1, ClosedFacts DEF Op, OpRecord, SocketRecord
    <3>3. sock[w].player # p
      <4> SUFFICES ASSUME sock[w].player = p PROVE FALSE
        OBVIOUS
      <4>1. sock[w].kind = "player"
        <5>1. Identified(sock[w])
          BY DEF BaseInv
        <5> QED BY <1>0, <3>1, <5>1 DEF Identified
      <4> QED BY <2>2, <3>1, <4>1 DEF SlotInv, SlotsAreKept
    <3> HIDE DEF new
    <3> QED BY <2>4, <3>1, <3>2, <3>3, AnsweredAppends
  <2> QED BY <2>5, <2>6
<1>2. ASSUME NEW op \in pending, Joined(op), op.player = p PROVE Answered(queue', p)
  <2>1. queue' = queue /\ \A i \in 1 .. Len(queue) : queue[i].player # p
    BY <1>2 DEF Joined, FreshInv, Untouched
  <2> QED BY <2>1 DEF Answered
<1>3. ASSUME NEW op \in pending, Resolved(op), op.player \in sessions PROVE Answered(queue', p)
  <2> DEFINE new == Op("reconnected", op.ws, op.player)
  <2>1. queue' = Append(queue, new)
    BY <1>3 DEF Resolved, Enqueue
  <2>2. new \in OpRecord /\ new.kind = "reconnected" /\ new.player = op.player
    BY <1>3, PlayerBound DEF Op, OpRecord, Id
  <2> HIDE DEF new
  <2>3. CASE op.player = p
    BY <2>1, <2>2, <2>3, AnsweredByLast
  <2>4. CASE op.player # p
    <3>1. /\ players' = [players EXCEPT ![op.player] = op.ws]
          /\ Bound(op.ws, op.player, players[op.player])
      BY <1>3, PlayerBound
    <3>2. players[p] # NoSocket /\ sock[players[p]].conn = "open"
      BY <1>0, <2>4, <3>1 DEF Bound, OnlyCloses, Slot
    <3>3. Answered(queue, p)
      BY <3>2 DEF AnsweredInv
    <3> QED BY <2>1, <2>2, <3>3, AnsweredAppends
  <2> QED BY <2>3, <2>4
<1>4. CASE /\ \A w \in Socket : ~HandleClose(w)
           /\ \A op \in pending : ~(Joined(op) /\ op.player = p)
           /\ \A op \in pending : ~(Resolved(op) /\ op.player \in sessions)
  <2>1. players[p] # NoSocket /\ sock[players[p]].conn = "open"
    BY <1>4, RegistryStep
  <2>2. Answered(queue, p)
    BY <2>1 DEF AnsweredInv
  <2>3. \/ QueueShrinks
        \/ \E new \in OpRecord : /\ queue' = Append(queue, new)
                                 /\ new.kind \notin {"gone", "reconnected"}
    BY <1>4, QueueStep
  <2> QED BY <2>2, <2>3, AnsweredShrinks, AnsweredAppends
<1> QED BY <1>1, <1>2, <1>3, <1>4

-----------------------------------------------------------------------------
(* Sockets the gateway watches *)

\* The player's slot holds a live socket of that player, and of no other.
Watched(p) ==
    /\ players[p] # NoSocket
    /\ Known(players[p]) /\ ~sock[players[p]].replaced /\ sock[players[p]].player = p
    /\ \A q \in Player \ {p} : players[q] # players[p]

\* A player is watched or has no socket, unless late; the host's slot holds a host's socket.
LateInv ==
    /\ \A p \in Player \ late : players[p] = NoSocket \/ Watched(p)
    /\ host # NoSocket /\ Known(host) => sock[host].kind = "host"

\* A watched socket is an authenticated one of a player.
LEMMA WatchedSocket ==
    ASSUME BaseInv, NEW p \in Player, Watched(p)
    PROVE  /\ players[p] \in Socket
           /\ sock[players[p]].authed /\ sock[players[p]].kind = "player"
<1>1. players[p] \in Socket
  BY DEF BaseInv, TypeOK, Slot, Watched
<1>2. Identified(sock[players[p]]) /\ p # NoPlayer
  BY <1>1, GatewayAssumption DEF BaseInv
<1> QED BY <1>1, <1>2 DEF Identified, Watched

\* LateInv is kept where neither identities nor the registry change.
LEMMA LateCalm ==
    ASSUME BaseInv, LateInv, SameIdentity(sock, sock'), OnlyCloses(sock, sock'),
           host' = host, players' = players, late \subseteq late'
    PROVE  LateInv'
<1>1. \A v \in Socket : sock'[v].conn = "none" <=> sock[v].conn = "none"
  BY DEF OnlyCloses
<1>2. ASSUME NEW p \in Player, p \notin late'
      PROVE  players'[p] = NoSocket \/ Watched(p)'
  <2>1. players[p] = NoSocket \/ Watched(p)
    BY <1>2 DEF LateInv
  <2>2. CASE Watched(p)
    <3>1. players[p] \in Socket
      BY <2>2, WatchedSocket
    <3> QED BY <1>1, <2>2, <3>1 DEF Watched, Known, SameIdentity
  <2> QED BY <2>1, <2>2
<1>3. host' # NoSocket /\ Known(host)' => sock'[host'].kind = "host"
  <2>1. host # NoSocket => host \in Socket
    BY DEF BaseInv, TypeOK, Slot
  <2> QED BY <1>1, <2>1 DEF LateInv, Known, SameIdentity
<1> QED BY <1>2, <1>3 DEF LateInv

\* LateInv is kept when a socket closes: the slot of a watched player is emptied.
LEMMA LateClose ==
    ASSUME BaseInv, LateInv, NEW w \in Socket, HandleClose(w)
    PROVE  LateInv'
<1>1. sock'[w] = Absent /\ \A v \in Socket \ {w} : sock'[v] = sock[v]
  BY ClosedFacts
<1>2. late' = late /\ host' \in {host, NoSocket}
  BY DEF HandleClose, HostWithout
<1>3. players \in [Player -> Slot]
  BY DEF BaseInv, TypeOK
<1>4. \A q \in Player : players'[q] = players[q] \/ players'[q] = NoSocket
  BY <1>3 DEF HandleClose, PlayersWithout
<1>5. ASSUME NEW p \in Player, p \notin late'
      PROVE  players'[p] = NoSocket \/ Watched(p)'
  <2>1. players[p] = NoSocket \/ Watched(p)
    BY <1>2, <1>5 DEF LateInv
  <2>2. CASE players[p] = NoSocket
    BY <1>4, <2>2
  <2>3. CASE Watched(p) /\ players[p] = w
    <3>1. sock[w].player = p /\ ~sock[w].replaced /\ sock[w].kind = "player"
      BY <2>3, WatchedSocket DEF Watched
    <3>2. p # NoPlayer
      BY GatewayAssumption
    <3>3. players' = [players EXCEPT ![p] = NoSocket]
      BY <2>3, <3>1, <3>2 DEF HandleClose, PlayersWithout
    <3> QED BY <1>3, <3>3
  <2>4. CASE Watched(p) /\ players[p] # w
    <3>1. players[p] \in Socket \ {w}
      BY <2>4, WatchedSocket
    <3>2. players'[p] = NoSocket \/ players'[p] = players[p]
      BY <1>4
    <3>3. CASE players'[p] = players[p]
      <4>1. sock'[players'[p]] = sock[players[p]]
        BY <1>1, <3>1, <3>3
      <4>2. \A q \in Player \ {p} : players'[q] # players'[p]
        BY <1>4, <2>4, <3>3 DEF Watched
      <4> QED BY <2>4, <3>3, <4>1, <4>2 DEF Watched, Known
    <3> QED BY <3>2, <3>3
  <2> QED BY <2>1, <2>2, <2>3, <2>4
<1>6. host' # NoSocket /\ Known(host)' => sock'[host'].kind = "host"
  <2>1. host # NoSocket => host \in Socket
    BY DEF BaseInv, TypeOK, Slot
  <2> QED BY <1>1, <1>2, <2>1, AbsentFacts DEF LateInv, Known
<1> QED BY <1>5, <1>6 DEF LateInv

\* LateInv is kept when a player's join or reconnect binds a socket: whose socket is taken
\* over, shared or gone is late.
LEMMA LateBind ==
    ASSUME BaseInv, LateInv, NEW op \in pending,
           Joined(op) \/ (Resolved(op) /\ op.player \in sessions)
    PROVE  LateInv'
<1> DEFINE w == op.ws
           p == op.player
<1>1. /\ w \in Socket /\ p \in Player /\ players[p] \in Slot
      /\ players' = [players EXCEPT ![p] = w] /\ host' = host
      /\ BindPlayer(w, p) /\ Bound(w, p, players[p])
  BY PlayerBound
<1>2. players \in [Player -> Slot] /\ NoSocket \notin Socket
  BY GatewayAssumption DEF BaseInv, TypeOK
<1>3. players'[p] = w /\ \A q \in Player \ {p} : players'[q] = players[q]
  BY <1>1, <1>2
<1>4. /\ TooLate(w, p) => late \subseteq late' /\ p \in late'
      /\ TooLate(w, p) /\ sock[w].player # NoPlayer => sock[w].player \in late'
      /\ late \subseteq late' \cup {p}
  BY <1>1, GatewayAssumption DEF BindPlayer
<1>5. \A v \in Socket :
         /\ sock'[v].conn = "none" <=> sock[v].conn = "none"
         /\ v # w => sock'[v].player = sock[v].player
         /\ v = w /\ Known(w) => sock'[v].player = p
         /\ v = w \/ v # players[p] => sock'[v].replaced = sock[v].replaced
         /\ sock'[v].kind = sock[v].kind
  BY <1>1 DEF Bound, OnlyCloses
<1> HIDE DEF w, p
<1>6. ASSUME p \notin late' PROVE Watched(p)'
  <2>1. ~TooLate(w, p)
    BY <1>4, <1>6
  <2>2. Known(w) /\ ~sock[w].replaced /\ \A q \in Player \ {p} : players[q] # w
    BY <2>1 DEF TooLate
  <2>3. players'[p] # NoSocket /\ \A q \in Player \ {p} : players'[q] # players'[p]
    BY <1>1, <1>2, <1>3, <2>2
  <2>4. sock'[w].conn # "none" /\ ~sock'[w].replaced /\ sock'[w].player = p
    BY <1>1, <1>5, <2>2 DEF Known
  <2> QED BY <1>3, <2>3, <2>4 DEF Watched, Known
<1>7. ASSUME NEW q \in Player \ {p}, q \notin late'
      PROVE  players'[q] = NoSocket \/ Watched(q)'
  <2>1. q \notin late /\ players'[q] = players[q]
    BY <1>3, <1>4, <1>7
  <2>2. players[q] = NoSocket \/ Watched(q)
    BY <2>1 DEF LateInv
  <2>3. CASE Watched(q)
    <3> DEFINE x == players[q]
    <3>1. x \in Socket /\ sock[x].authed /\ sock[x].player = q /\ ~sock[x].replaced /\ Known(x)
      BY <2>3, WatchedSocket DEF Watched
    <3>2. x # w
      <4> SUFFICES ASSUME x = w PROVE FALSE
        OBVIOUS
      <4>1. TooLate(w, p)
        BY <3>1 DEF TooLate
      <4>2. q # NoPlayer
        BY GatewayAssumption
      <4> QED BY <1>4, <1>7, <3>1, <4>1, <4>2
    <3>3. x # players[p]
      BY <1>1, <2>3 DEF Watched
    <3>4. sock'[x].conn # "none" /\ sock'[x].player = q /\ ~sock'[x].replaced
      BY <1>5, <3>1, <3>2, <3>3 DEF Known
    <3>5. \A r \in Player \ {q} : players'[r] # x
      BY <1>3, <2>3, <3>2 DEF Watched
    <3>6. x # NoSocket
      BY <1>2, <3>1
    <3> HIDE DEF x
    <3>7. players'[q] = x
      BY <2>1 DEF x
    <3> QED BY <3>4, <3>5, <3>6, <3>7 DEF Watched, Known
  <2> QED BY <2>1, <2>2, <2>3
<1>8. host' # NoSocket /\ Known(host)' => sock'[host'].kind = "host"
  <2>1. host # NoSocket => host \in Socket
    BY DEF BaseInv, TypeOK, Slot
  <2> QED BY <1>1, <1>5, <2>1 DEF LateInv, Known
<1> QED BY <1>6, <1>7, <1>8 DEF LateInv

\* LateInv is kept when the host's reconnect binds a socket: it is no player's.
LEMMA LateBindHost ==
    ASSUME BaseInv, LateInv, NEW op \in pending, HostResolved(op), room.there
    PROVE  LateInv'
<1> DEFINE w == op.ws
<1>1. /\ w \in Socket /\ host' = w /\ players' = players /\ late' = late
      /\ Bound(w, NoPlayer, host)
  BY HostBound DEF HostResolved
<1>2. Known(w) => sock[w].kind = "host"
  BY <1>1 DEF HostResolved, BaseInv, OpsFit, Fits, Known
<1>3. \A v \in Socket :
         /\ sock'[v].conn = "none" <=> sock[v].conn = "none"
         /\ v # w => sock'[v].player = sock[v].player
         /\ v = w \/ v # host => sock'[v].replaced = sock[v].replaced
         /\ sock'[v].kind = sock[v].kind
  BY <1>1 DEF Bound, OnlyCloses
<1>4. ASSUME NEW p \in Player, p \notin late'
      PROVE  players'[p] = NoSocket \/ Watched(p)'
  <2>1. players[p] = NoSocket \/ Watched(p)
    BY <1>1, <1>4 DEF LateInv
  <2>2. CASE Watched(p)
    <3> DEFINE x == players[p]
    <3>1. /\ x \in Socket /\ sock[x].kind = "player" /\ Known(x) /\ x # NoSocket
          /\ sock[x].player = p /\ ~sock[x].replaced
      BY <2>2, WatchedSocket DEF Watched
    <3>2. x # w /\ x # host
      BY <1>2, <3>1 DEF LateInv
    <3>3. sock'[x].conn # "none" /\ sock'[x].player = p /\ ~sock'[x].replaced
      BY <1>3, <3>1, <3>2 DEF Known
    <3> QED BY <1>1, <2>2, <3>1, <3>3 DEF Watched, Known
  <2> QED BY <1>1, <2>1, <2>2
<1>5. host' # NoSocket /\ Known(host)' => sock'[host'].kind = "host"
  BY <1>1, <1>2, <1>3 DEF Known
<1> QED BY <1>4, <1>5 DEF LateInv

\* LateInv is inductive.
LEMMA LateStep ==
    ASSUME BaseInv, LateInv, [Next]_vars
    PROVE  LateInv'
<1>0. TypeOK
  BY DEF BaseInv
<1>1. ASSUME NEW w \in Socket, NEW kind \in Kind, Connect(w, kind) PROVE LateInv'
  <2>1. /\ sock' = [sock EXCEPT ![w] = Fresh(kind, "open")]
        /\ host # w /\ \A p \in Player : players[p] # w
        /\ UNCHANGED <<host, players, late>>
    BY <1>1 DEF Connect, Unused, registry
  <2>2. \A v \in Socket \ {w} : sock'[v] = sock[v]
    BY <1>0, <2>1 DEF TypeOK, Sockets
  <2>3. ASSUME NEW p \in Player, p \notin late'
        PROVE  players'[p] = NoSocket \/ Watched(p)'
    <3>1. players[p] = NoSocket \/ Watched(p)
      BY <2>1, <2>3 DEF LateInv
    <3>2. CASE Watched(p)
      <4>1. sock'[players[p]] = sock[players[p]]
        BY <2>1, <2>2, <3>2, WatchedSocket
      <4> QED BY <2>1, <3>2, <4>1 DEF Watched, Known
    <3> QED BY <2>1, <3>1, <3>2
  <2>4. host' # NoSocket /\ Known(host)' => sock'[host'].kind = "host"
    <3>1. host # NoSocket => host \in Socket
      BY <1>0 DEF TypeOK, Slot
    <3> QED BY <2>1, <2>2, <3>1 DEF LateInv, Known
  <2> QED BY <2>3, <2>4 DEF LateInv
<1>2. ASSUME NEW w \in Socket, AuthTimeout(w) \/ Violate(w) PROVE LateInv'
  <2>1. /\ SameIdentity(sock, sock') /\ OnlyCloses(sock, sock')
        /\ UNCHANGED <<host, players, late>>
    BY <1>0, <1>2, CloseFacts DEF AuthTimeout, Violate, registry, TypeOK
  <2> QED BY <2>1, LateCalm
<1>3. ASSUME NEW w \in Socket, Ask(w) PROVE LateInv'
  <2>1. UNCHANGED <<sock, host, players, late>>
    BY <1>3 DEF Ask, AskJoin, AskHost, AskLeave, AskEvent, AskReconnect, registry
  <2>2. SameIdentity(sock, sock') /\ OnlyCloses(sock, sock')
    BY <2>1 DEF SameIdentity, OnlyCloses
  <2> QED BY <2>1, <2>2, LateCalm
<1>4. ASSUME (\E p \in Player : HttpJoin(p)) \/ RoomExpires \/ UNCHANGED vars PROVE LateInv'
  <2>1. /\ UNCHANGED <<host, players>> /\ late \subseteq late'
        /\ sock' = sock \/ \E p \in Player : HttpJoin(p)
    BY <1>4 DEF HttpJoin, RoomExpires, vars, registry
  <2>2. SameIdentity(sock, sock') /\ OnlyCloses(sock, sock')
    BY <2>1, HttpJoinFacts DEF SameIdentity, OnlyCloses, BaseInv
  <2> QED BY <2>1, <2>2, LateCalm
<1>5. ASSUME ActorStep \/ ActorFails \/ TimerShows PROVE LateInv'
  BY <1>5, ActorIsCalm, LateCalm
<1>6. ASSUME NEW op \in pending, Joined(op) \/ Resolved(op) \/ HostResolved(op) PROVE LateInv'
  <2>1. CASE (Resolved(op) /\ op.player \notin sessions) \/ (HostResolved(op) /\ ~room.there)
    <3>1. UNCHANGED <<sock, host, players, late>>
      BY <2>1 DEF Resolved, HostResolved, registry
    <3>2. SameIdentity(sock, sock') /\ OnlyCloses(sock, sock')
      BY <3>1 DEF SameIdentity, OnlyCloses
    <3> QED BY <3>1, <3>2, LateCalm
  <2> QED BY <1>6, <2>1, LateBind, LateBindHost
<1>7. ASSUME NEW op \in pending, Forgotten(op) PROVE LateInv'
  <2>1. /\ op.ws \in Socket /\ op.player \in Player
        /\ SameIdentity(sock, sock') /\ OnlyCloses(sock, sock')
        /\ host' = host /\ players' = PlayersWithout(op.ws, op.player)
    BY <1>7, ForgottenFacts
  <2>2. late' = late
    BY <1>7 DEF Forgotten
  <2>3. \A q \in Player : players'[q] = players[q] \/ players'[q] = NoSocket
    BY <1>0, <2>1 DEF PlayersWithout, TypeOK
  <2>4. \A v \in Socket : sock'[v].conn = "none" <=> sock[v].conn = "none"
    BY <2>1 DEF OnlyCloses
  <2>5. ASSUME NEW p \in Player, p \notin late'
        PROVE  players'[p] = NoSocket \/ Watched(p)'
    <3>1. players[p] = NoSocket \/ Watched(p)
      BY <2>2, <2>5 DEF LateInv
    <3>2. CASE Watched(p) /\ players'[p] = players[p]
      <4>1. players[p] \in Socket
        BY <3>2, WatchedSocket
      <4>2. \A q \in Player \ {p} : players'[q] # players'[p]
        BY <2>3, <3>2 DEF Watched
      <4> QED BY <2>1, <2>4, <3>2, <4>1, <4>2 DEF Watched, Known, SameIdentity
    <3> QED BY <2>3, <3>1, <3>2
  <2>6. host' # NoSocket /\ Known(host)' => sock'[host'].kind = "host"
    <3>1. host # NoSocket => host \in Socket
      BY <1>0 DEF TypeOK, Slot
    <3> QED BY <2>1, <2>4, <3>1 DEF LateInv, Known, SameIdentity
  <2> QED BY <2>5, <2>6 DEF LateInv
<1>8. ASSUME RepositoryFails PROVE LateInv'
  BY <1>8 DEF RepositoryFails, LateInv
<1>9. ASSUME NEW w \in Socket, PeerCloses(w) \/ Heartbeat(w) PROVE LateInv'
  BY <1>9, LateClose DEF PeerCloses, Heartbeat
<1> QED BY <1>1, <1>2, <1>3, <1>4, <1>5, <1>6, <1>7, <1>8, <1>9 DEF Next, RepositoryStep

-----------------------------------------------------------------------------
(* Connected players *)

\* No reconnect of the player is in the queue from place i on.
NoReturn(q, p, i) ==
    \A j \in i .. Len(q) : ~(q[j].kind = "reconnected" /\ q[j].player = p)

\* The last the room hears of the player is a disconnect.
GoneIsLast(p) ==
    \/ room.status[p] # "connected" /\ NoReturn(queue, p, 1)
    \/ \E i \in 1 .. Len(queue) :
          /\ queue[i].kind = "gone" /\ queue[i].player = p
          /\ NoReturn(queue, p, i + 1)

\* The player's session is being stored.
Arriving(p) == \E op \in pending : op.kind = "session" /\ op.player = p

\* A player who is in the room, and not late, is watched, unless the room is about to hear
\* that the player is gone, or to be joined.
WatchInv ==
    (room.there /\ faults = 0) =>
        \A p \in Player \ late : Watched(p) \/ ~InRoster(p) \/ GoneIsLast(p) \/ Arriving(p)

\* The end of the queue has no return if the whole has none and the new operation is none.
LEMMA NoReturnAppends ==
    ASSUME BaseInv, NEW p \in Player, NEW new \in OpRecord, queue' = Append(queue, new),
           NEW i \in Nat, i >= 1, NoReturn(queue, p, i), ~(new.kind = "reconnected" /\ new.player = p)
    PROVE  NoReturn(queue', p, i)
<1>1. /\ Len(queue) \in Nat /\ Len(queue') = Len(queue) + 1
      /\ \A k \in 1 .. Len(queue) : queue'[k] = queue[k]
      /\ queue'[Len(queue) + 1] = new
  BY AppendOp DEF BaseInv, TypeOK
<1> SUFFICES ASSUME NEW j \in i .. Len(queue')
             PROVE  ~(queue'[j].kind = "reconnected" /\ queue'[j].player = p)
  BY DEF NoReturn
<1>2. j = Len(queue) + 1 \/ (j \in i .. Len(queue) /\ j \in 1 .. Len(queue))
  BY <1>1
<1> QED BY <1>1, <1>2 DEF NoReturn

\* The same when the first operation is taken.
LEMMA NoReturnShrinks ==
    ASSUME BaseInv, NEW p \in Player, queue # <<>>, queue' = Tail(queue),
           NEW i \in Nat, i >= 1, NoReturn(queue, p, i + 1)
    PROVE  NoReturn(queue', p, i)
<1>1. /\ Len(queue) \in Nat /\ Len(queue') = Len(queue) - 1
      /\ \A k \in 1 .. Len(queue') : k + 1 \in 1 .. Len(queue) /\ queue'[k] = queue[k + 1]
  BY TailOp DEF BaseInv, TypeOK
<1> SUFFICES ASSUME NEW j \in i .. Len(queue')
             PROVE  ~(queue'[j].kind = "reconnected" /\ queue'[j].player = p)
  BY DEF NoReturn
<1>2. j \in 1 .. Len(queue') /\ j + 1 \in i + 1 .. Len(queue)
  BY <1>1
<1> QED BY <1>1, <1>2 DEF NoReturn

\* While no store call fails: how the queue changes, and where its reconnects come from.
LEMMA NextOps ==
    ASSUME BaseInv, [Next]_vars, faults' = 0
    PROVE  \/ queue' = queue
           \/ queue # <<>> /\ queue' = Tail(queue)
           \/ \E new \in OpRecord :
                 /\ queue' = Append(queue, new)
                 /\ new.kind = "reconnected" =>
                       \E op \in pending : Resolved(op) /\ op.player \in sessions
                                           /\ new.player = op.player
<1> DEFINE goal ==
       \/ queue' = queue
       \/ queue # <<>> /\ queue' = Tail(queue)
       \/ \E new \in OpRecord :
             /\ queue' = Append(queue, new)
             /\ new.kind = "reconnected" =>
                   \E op \in pending : Resolved(op) /\ op.player \in sessions
                                       /\ new.player = op.player
<1>1. ASSUME NEW w \in Socket, HandleClose(w) PROVE goal
  <2> DEFINE new == Op(IF sock[w].kind = "host" THEN "hostGone" ELSE "gone", w, sock[w].player)
  <2>1. new \in OpRecord /\ new.kind # "reconnected"
    BY <1>1, ClosedFacts DEF Op, OpRecord, SocketRecord
  <2>2. queue' = queue \/ queue' = Append(queue, new)
    BY <1>1 DEF HandleClose
  <2> HIDE DEF new
  <2> QED BY <2>1, <2>2
<1>2. ASSUME NEW op \in pending, Resolved(op), op.player \in sessions PROVE goal
  <2> DEFINE new == Op("reconnected", op.ws, op.player)
  <2>1. queue' = Append(queue, new)
    BY <1>2 DEF Resolved, Enqueue
  <2>2. new \in OpRecord /\ new.player = op.player
    BY <1>2, PlayerBound DEF Op, OpRecord, Id
  <2> HIDE DEF new
  <2> QED BY <1>2, <2>1, <2>2
<1>3. ASSUME \A w \in Socket : ~HandleClose(w),
             \A op \in pending : ~(Resolved(op) /\ op.player \in sessions),
             queue' # <<>>
      PROVE  goal
  <2>1. \/ QueueShrinks
        \/ \E new \in OpRecord : /\ queue' = Append(queue, new)
                                 /\ new.kind \notin {"gone", "reconnected"}
    BY <1>3, QueueStep
  <2> QED BY <1>3, <2>1 DEF QueueShrinks
<1>4. ASSUME queue' = <<>>,
             \A w \in Socket : ~HandleClose(w),
             \A op \in pending : ~(Resolved(op) /\ op.player \in sessions)
      PROVE  goal
  <2>1. ASSUME NEW w \in Socket, Ask(w) PROVE goal
    <3>1. \/ queue' = queue
          \/ \E kind, q : queue' = Append(queue, Op(kind, w, q))
      BY <2>1 DEF Ask, AskJoin, AskLeave, AskEvent, AskHost, AskReconnect, Enqueue
    <3>2. ASSUME NEW kind, NEW q, queue' = Append(queue, Op(kind, w, q)) PROVE FALSE
      BY <1>4, <3>2 DEF BaseInv, TypeOK
    <3> QED BY <3>1, <3>2
  <2>2. ASSUME NEW op \in pending, HostResolved(op) PROVE goal
    <3>1. queue' = queue \/ queue' = Append(queue, Op("hostReconnected", op.ws, NoPlayer))
      BY <2>2 DEF HostResolved, Enqueue
    <3>2. ASSUME queue' = Append(queue, Op("hostReconnected", op.ws, NoPlayer)) PROVE FALSE
      BY <1>4, <3>2 DEF BaseInv, TypeOK
    <3> QED BY <3>1, <3>2
  <2>3. ASSUME NEW op \in pending, Joined(op) \/ Resolved(op) \/ Forgotten(op) PROVE goal
    BY <1>4, <2>3 DEF Joined, Resolved, Forgotten
  <2>4. ~RepositoryFails
    BY DEF RepositoryFails, Fault, BaseInv, TypeOK
  <2>6. ASSUME NEW w \in Socket,
               (\E kind \in Kind : Connect(w, kind)) \/ AuthTimeout(w) \/ Violate(w)
        PROVE  goal
    BY <2>6 DEF Connect, AuthTimeout, Violate
  <2>7. ASSUME (\E p \in Player : HttpJoin(p)) \/ RoomExpires \/ UNCHANGED vars PROVE goal
    BY <2>7 DEF HttpJoin, RoomExpires, vars
  <2>8. ASSUME ActorStep \/ ActorFails \/ TimerShows PROVE goal
    BY <2>8, ActorIsCalm
  <2> HIDE DEF goal
  <2> QED BY <1>4, <2>1, <2>2, <2>3, <2>4, <2>6, <2>7, <2>8
          DEF Next, RepositoryStep, PeerCloses, Heartbeat
<1> HIDE DEF goal
<1>5. goal
  BY <1>1, <1>2, <1>3, <1>4
<1> QED BY <1>5 DEF goal

\* A shorter queue is neither the same queue nor a longer one.
LEMMA TailDiffers ==
    ASSUME NEW q \in Seq(OpRecord), q # <<>>
    PROVE  Tail(q) # q /\ \A op \in OpRecord : Tail(q) # Append(q, op)
<1> DEFINE t == Tail(q)
<1>1. Len(q) \in Nat /\ Len(t) = Len(q) - 1
  BY TailOp
<1>2. \A op \in OpRecord : Len(Append(q, op)) = Len(q) + 1
  BY AppendOp
<1> HIDE DEF t
<1>3. t # q
  BY <1>1
<1>4. \A op \in OpRecord : t # Append(q, op)
  <2> TAKE op \in OpRecord
  <2> DEFINE a == Append(q, op)
  <2>1. Len(a) = Len(q) + 1
    BY <1>2
  <2> HIDE DEF a
  <2>2. t # a
    BY <1>1, <2>1
  <2> QED BY <2>2 DEF a
<1> QED BY <1>3, <1>4 DEF t

\* While no store call fails, the first operation is taken by the actor.
LEMMA TakenByActor ==
    ASSUME BaseInv, [Next]_vars, faults' = 0, queue # <<>>, queue' = Tail(queue)
    PROVE  ActorStep
<1>1. queue \in Seq(OpRecord)
  BY DEF BaseInv, TypeOK
<1>2. queue' # queue
  BY <1>1, TailDiffers
<1>3. \A op \in OpRecord : queue' # Append(queue, op)
  BY <1>1, TailDiffers
<1>4. ~RepositoryFails /\ ~ActorFails
  BY DEF RepositoryFails, ActorFails, Fault, BaseInv, TypeOK
<1>5. ASSUME NEW w \in Socket, HandleClose(w) PROVE FALSE
  <2> DEFINE new == Op(IF sock[w].kind = "host" THEN "hostGone" ELSE "gone", w, sock[w].player)
  <2>1. new \in OpRecord
    BY <1>5, ClosedFacts DEF Op, OpRecord, SocketRecord
  <2>2. queue' = queue \/ queue' = Append(queue, new)
    BY <1>5 DEF HandleClose
  <2> HIDE DEF new
  <2> QED BY <1>2, <1>3, <2>1, <2>2
<1>6. ASSUME NEW w \in Socket, Ask(w) PROVE FALSE
  <2>1. \A kind \in {"join", "leave", "event"} : \A q \in {NoPlayer, sock[w].player} :
           Op(kind, w, q) \in OpRecord
    BY DEF Op, OpRecord, Id, BaseInv, TypeOK, Sockets, SocketRecord
  <2>2. \/ queue' = queue
        \/ \E kind \in {"join", "leave", "event"} : \E q \in {NoPlayer, sock[w].player} :
              queue' = Append(queue, Op(kind, w, q))
    BY <1>6 DEF Ask, AskJoin, AskLeave, AskEvent, AskHost, AskReconnect, Enqueue
  <2> QED BY <1>2, <1>3, <2>1, <2>2
<1>7. ASSUME NEW op \in pending, Joined(op) \/ Resolved(op) \/ HostResolved(op) \/ Forgotten(op)
      PROVE  FALSE
  <2>1. op \in OpRecord /\ op.ws \in Socket /\ op.player \in Id
    BY DEF BaseInv, TypeOK, OpRecord
  <2>2. /\ Op("reconnected", op.ws, op.player) \in OpRecord
        /\ Op("hostReconnected", op.ws, NoPlayer) \in OpRecord
    BY <2>1 DEF Op, OpRecord, Id
  <2>3. \/ queue' = queue
        \/ queue' = Append(queue, Op("reconnected", op.ws, op.player))
        \/ queue' = Append(queue, Op("hostReconnected", op.ws, NoPlayer))
    BY <1>7 DEF Joined, Resolved, HostResolved, Forgotten, Enqueue
  <2> QED BY <1>2, <1>3, <2>2, <2>3
<1>8. ASSUME NEW w \in Socket,
             (\E kind \in Kind : Connect(w, kind)) \/ AuthTimeout(w) \/ Violate(w)
      PROVE  FALSE
  BY <1>2, <1>8 DEF Connect, AuthTimeout, Violate
<1>9. ASSUME (\E p \in Player : HttpJoin(p)) \/ RoomExpires \/ TimerShows \/ UNCHANGED vars
      PROVE  FALSE
  BY <1>2, <1>9 DEF HttpJoin, RoomExpires, TimerShows, vars
<1> QED BY <1>4, <1>5, <1>6, <1>7, <1>8, <1>9 DEF Next, RepositoryStep, PeerCloses, Heartbeat

\* A slot is emptied by the close of its socket, or when its player has left.
LEMMA SlotEmptied ==
    ASSUME BaseInv, [Next]_vars, faults' = 0, NEW p \in Player,
           players[p] # NoSocket, players'[p] = NoSocket
    PROVE  \/ players[p] \in Socket /\ HandleClose(players[p])
           \/ \E op \in pending : Forgotten(op) /\ op.player = p
<1>0. players \in [Player -> Slot] /\ NoSocket \notin Socket
  BY GatewayAssumption DEF BaseInv, TypeOK
<1>1. players' # players
  OBVIOUS
<1>2. ASSUME NEW w \in Socket, HandleClose(w) PROVE players[p] = w
  <2>1. players' = players \/ \E q : players' = PlayersWithout(w, q)
    BY <1>2 DEF HandleClose
  <2> QED BY <1>0, <2>1 DEF PlayersWithout
<1>3. ASSUME NEW op \in pending, Forgotten(op) PROVE op.player = p
  <2>1. players' = PlayersWithout(op.ws, op.player)
    BY <1>3 DEF Forgotten
  <2> QED BY <1>0, <2>1 DEF PlayersWithout
<1>4. ASSUME NEW op \in pending, Joined(op) \/ (Resolved(op) /\ op.player \in sessions)
      PROVE  FALSE
  <2>1. /\ players' = [players EXCEPT ![op.player] = op.ws] /\ op.ws \in Socket
        /\ op.player \in Player
    BY <1>4, PlayerBound
  <2> QED BY <1>0, <2>1
<1>5. ASSUME NEW op \in pending, HostResolved(op) \/ (Resolved(op) /\ op.player \notin sessions)
      PROVE  FALSE
  BY <1>1, <1>5 DEF HostResolved, Resolved, registry
<1>6. ~RepositoryFails
  BY DEF RepositoryFails, Fault, BaseInv, TypeOK
<1>7. ASSUME ActorStep \/ ActorFails \/ TimerShows PROVE FALSE
  BY <1>1, <1>7, ActorIsCalm
<1>8. ASSUME NEW w \in Socket,
             \/ \E kind \in Kind : Connect(w, kind)
             \/ AuthTimeout(w) \/ Violate(w)
      PROVE  FALSE
  BY <1>1, <1>8 DEF Connect, AuthTimeout, Violate, registry
<1>9. ASSUME NEW w \in Socket, Ask(w) PROVE FALSE
  BY <1>1, <1>9 DEF Ask, AskJoin, AskHost, AskLeave, AskEvent, AskReconnect, registry
<1>10. ASSUME (\E q \in Player : HttpJoin(q)) \/ RoomExpires \/ UNCHANGED vars PROVE FALSE
  BY <1>1, <1>10 DEF HttpJoin, RoomExpires, vars, registry
<1> QED BY <1>0, <1>2, <1>3, <1>4, <1>5, <1>6, <1>7, <1>8, <1>9, <1>10
        DEF Next, RepositoryStep, PeerCloses, Heartbeat

\* An arriving player goes on arriving until joined.
LEMMA ArrivingStep ==
    ASSUME BaseInv, [Next]_vars, faults' = 0, NEW p \in Player, Arriving(p),
           \A op \in pending : Joined(op) => op.player # p
    PROVE  Arriving(p)'
<1>1. PICK op \in pending : op.kind = "session" /\ op.player = p
  BY DEF Arriving
<1>2. op \in pending'
  <2>1. ASSUME NEW o \in pending, Joined(o) \/ Resolved(o) \/ HostResolved(o) \/ Forgotten(o)
        PROVE  op \in pending'
    BY <1>1, <2>1 DEF Joined, Resolved, HostResolved, Forgotten
  <2>2. ~RepositoryFails
    BY DEF RepositoryFails, Fault, BaseInv, TypeOK
  <2>3. CASE ActorStep \/ ActorFails \/ TimerShows
    BY <2>3 DEF ActorStep, JoinAccepted, LeaveAccepted, Rejected, Accepted, Dealt, StatusChange,
                HostChange, RoomMissing, ActorFails, TimerShows
  <2>4. ASSUME NEW w \in Socket,
               \/ \E kind \in Kind : Connect(w, kind)
               \/ AuthTimeout(w) \/ Violate(w) \/ PeerCloses(w) \/ Heartbeat(w)
        PROVE  op \in pending'
    BY <2>4 DEF Connect, AuthTimeout, Violate, PeerCloses, Heartbeat, HandleClose
  <2>5. ASSUME NEW w \in Socket, Ask(w) PROVE op \in pending'
    BY <2>5 DEF Ask, AskJoin, AskHost, AskLeave, AskEvent, AskReconnect
  <2>6. ASSUME (\E q \in Player : HttpJoin(q)) \/ RoomExpires \/ UNCHANGED vars
        PROVE  op \in pending'
    BY <2>6 DEF HttpJoin, RoomExpires, vars
  <2> QED BY <2>1, <2>2, <2>3, <2>4, <2>5, <2>6 DEF Next, RepositoryStep
<1> QED BY <1>1, <1>2 DEF Arriving

\* A room that is there was there.
LEMMA ThereStep ==
    ASSUME BaseInv, [Next]_vars, room'.there
    PROVE  room.there
<1>0. room \in RoomRecord
  BY DEF BaseInv, TypeOK
<1>1. CASE room' = room
  BY <1>1
<1>2. CASE ActorStep \/ TimerShows \/ \E p \in Player : HttpJoin(p)
  BY <1>1, <1>2 DEF ActorStep, JoinAccepted, LeaveAccepted, Rejected, Accepted, Dealt,
         StatusChange, HostChange, RoomMissing, TimerShows, HttpJoin
<1>3. CASE RoomExpires
  BY <1>0, <1>3 DEF RoomExpires, RoomRecord
<1>4. ASSUME NEW w \in Socket,
             \/ \E kind \in Kind : Connect(w, kind)
             \/ AuthTimeout(w) \/ Violate(w) \/ PeerCloses(w) \/ Heartbeat(w)
             \/ Ask(w)
      PROVE  room' = room
  BY <1>4 DEF Connect, AuthTimeout, Violate, PeerCloses, Heartbeat, HandleClose, Ask, AskJoin,
              AskHost, AskLeave, AskEvent, AskReconnect
<1>5. CASE RepositoryStep \/ RepositoryFails \/ ActorFails \/ UNCHANGED vars
  BY <1>5 DEF RepositoryStep, Joined, Resolved, HostResolved, Forgotten, RepositoryFails,
              ActorFails, vars
<1> QED BY <1>1, <1>2, <1>3, <1>4, <1>5 DEF Next

\* Faults are not forgotten.
LEMMA FaultsStep ==
    ASSUME BaseInv, [Next]_vars, faults' = 0
    PROVE  faults = 0
<1>0. faults \in Nat
  BY DEF BaseInv, TypeOK
<1>1. CASE RepositoryFails
  BY <1>0, <1>1 DEF RepositoryFails, Fault
<1>2. CASE ActorStep \/ ActorFails \/ TimerShows
  BY <1>0, <1>2, ActorIsCalm
<1>3. ASSUME NEW w \in Socket,
             \/ \E kind \in Kind : Connect(w, kind)
             \/ AuthTimeout(w) \/ Violate(w) \/ PeerCloses(w) \/ Heartbeat(w)
             \/ Ask(w)
      PROVE  faults' = faults
  BY <1>3 DEF Connect, AuthTimeout, Violate, PeerCloses, Heartbeat, HandleClose, Ask, AskJoin,
              AskHost, AskLeave, AskEvent, AskReconnect
<1>4. CASE RepositoryStep \/ RoomExpires \/ UNCHANGED vars \/ \E p \in Player : HttpJoin(p)
  BY <1>4 DEF RepositoryStep, Joined, Resolved, HostResolved, Forgotten, RoomExpires, vars, HttpJoin
<1> QED BY <1>1, <1>2, <1>3, <1>4 DEF Next

\* That the last is a disconnect stays so until the player reconnects.
LEMMA GoneStep ==
    ASSUME BaseInv, [Next]_vars, faults' = 0, room.there, NEW p \in Player, GoneIsLast(p),
           InRoster(p)', ~HttpJoin(p), ~JoinAccepted(p),
           \A op \in pending : (Resolved(op) /\ op.player \in sessions) => op.player # p
    PROVE  GoneIsLast(p)'
<1>1. queue \in Seq(OpRecord) /\ Len(queue) \in Nat
  BY LenProperties DEF BaseInv, TypeOK
<1>2. CASE queue' = queue
  <2>1. queue # <<>> => queue' # Tail(queue)
    BY <1>1, <1>2, TailDiffers
  <2>2. room.status[p] # "connected" => room'.status[p] # "connected"
    BY <2>1, StatusStep DEF StatusMoves
  <2> QED BY <1>2, <2>2 DEF GoneIsLast
<1>3. ASSUME NEW new \in OpRecord, queue' = Append(queue, new),
             new.kind = "reconnected" =>
                 \E op \in pending : Resolved(op) /\ op.player \in sessions /\ new.player = op.player
      PROVE  GoneIsLast(p)'
  <2>1. ~(new.kind = "reconnected" /\ new.player = p)
    BY <1>3
  <2>2. queue # <<>> => queue' # Tail(queue)
    BY <1>1, <1>3, TailDiffers
  <2>3. room.status[p] # "connected" => room'.status[p] # "connected"
    BY <2>2, StatusStep DEF StatusMoves
  <2>4. CASE room.status[p] # "connected" /\ NoReturn(queue, p, 1)
    <3>1. NoReturn(queue', p, 1)
      BY <1>3, <2>1, <2>4, NoReturnAppends
    <3> QED BY <2>3, <2>4, <3>1 DEF GoneIsLast
  <2>5. ASSUME NEW i \in 1 .. Len(queue), queue[i].kind = "gone", queue[i].player = p,
               NoReturn(queue, p, i + 1)
        PROVE  GoneIsLast(p)'
    <3>1. NoReturn(queue', p, i + 1)
      BY <1>3, <2>1, <2>5, NoReturnAppends
    <3>2. i \in 1 .. Len(queue') /\ queue'[i] = queue[i]
      BY <1>1, <1>3, AppendOp
    <3> QED BY <2>5, <3>1, <3>2 DEF GoneIsLast
  <2> QED BY <2>4, <2>5 DEF GoneIsLast
<1>4. CASE queue # <<>> /\ queue' = Tail(queue)
  <2>1. /\ Head(queue) = queue[1] /\ Len(queue) >= 1 /\ Len(queue') = Len(queue) - 1
        /\ \A i \in 1 .. Len(queue') : queue'[i] = queue[i + 1]
    BY <1>1, <1>4, TailOp
  <2>2. CASE room.status[p] # "connected" /\ NoReturn(queue, p, 1)
    <3>1. ~(Head(queue).kind = "reconnected" /\ Head(queue).player = p)
      BY <1>1, <2>1, <2>2 DEF NoReturn
    <3>2. room'.status[p] # "connected"
      BY <2>2, <3>1, StatusStep DEF StatusMoves
    <3>3. NoReturn(queue, p, 2)
      BY <1>1, <2>2 DEF NoReturn
    <3>4. NoReturn(queue', p, 1)
      BY <1>4, <3>3, NoReturnShrinks
    <3> QED BY <3>2, <3>4 DEF GoneIsLast
  <2>3. ASSUME NEW i \in 1 .. Len(queue), queue[i].kind = "gone", queue[i].player = p,
               NoReturn(queue, p, i + 1)
        PROVE  GoneIsLast(p)'
    <3>1. CASE i = 1
      <4>1. Head(queue).kind = "gone" /\ Head(queue).player = p
        BY <2>1, <2>3, <3>1
      <4>2. ActorStep
        BY <1>4, TakenByActor
      <4>3. StatusChange("gone", "disconnected")
        BY <4>1, <4>2 DEF ActorStep, JoinAccepted, LeaveAccepted, Rejected, Accepted, Dealt,
              StatusChange, HostChange, RoomMissing, Take
      <4>4. room' = IF InRoster(p) THEN [room EXCEPT !.status[p] = "disconnected"] ELSE room
        BY <4>1, <4>3 DEF StatusChange, Show
      <4>5. room'.status[p] # "connected"
        BY <4>4, StatusFacts DEF InRoster, BaseInv, TypeOK, RoomRecord
      <4>6. NoReturn(queue', p, 1)
        BY <1>4, <2>3, <3>1, NoReturnShrinks
      <4> QED BY <4>5, <4>6 DEF GoneIsLast
    <3>2. CASE i # 1
      <4>1. PICK k \in Nat : k >= 1 /\ k + 1 = i
        BY <2>3, <3>2
      <4>2. k \in 1 .. Len(queue') /\ queue'[k] = queue[i]
        BY <1>1, <2>1, <4>1
      <4>3. NoReturn(queue', p, k + 1)
        BY <1>4, <2>3, <4>1, NoReturnShrinks
      <4> QED BY <2>3, <4>2, <4>3 DEF GoneIsLast
    <3> QED BY <3>1, <3>2
  <2> QED BY <2>2, <2>3 DEF GoneIsLast
<1> QED BY <1>2, <1>3, <1>4, NextOps

\* WatchInv is inductive.
LEMMA WatchStep ==
    ASSUME BaseInv, FreshInv, LateInv, WatchInv, [Next]_vars
    PROVE  WatchInv'
<1> SUFFICES ASSUME room'.there, faults' = 0, NEW p \in Player, p \notin late', InRoster(p)'
             PROVE  Watched(p)' \/ GoneIsLast(p)' \/ Arriving(p)'
  BY DEF WatchInv
<1>0. /\ room.there /\ faults = 0 /\ BaseInv' /\ LateInv'
      /\ NoSocket \notin Socket /\ p # NoPlayer
  BY ThereStep, FaultsStep, BaseStep, LateStep, GatewayAssumption
<1>1. ASSUME NEW op \in pending, Joined(op) \/ (Resolved(op) /\ op.player \in sessions),
             op.player = p
      PROVE  Watched(p)'
  <2>1. players' = [players EXCEPT ![p] = op.ws] /\ op.ws \in Socket
    BY <1>1, PlayerBound
  <2>2. players'[p] # NoSocket
    BY <1>0, <2>1 DEF BaseInv, TypeOK
  <2> QED BY <1>0, <2>2 DEF LateInv
<1>2. CASE HttpJoin(p)
  BY <1>2 DEF HttpJoin
<1>3. CASE JoinAccepted(p)
  BY <1>3, OpType DEF JoinAccepted, Arriving
<1>4. ASSUME \A op \in pending : Joined(op) \/ (Resolved(op) /\ op.player \in sessions)
                                    => op.player # p,
             ~HttpJoin(p), ~JoinAccepted(p)
      PROVE  Watched(p)' \/ GoneIsLast(p)' \/ Arriving(p)'
  <2>1. p \notin late
    <3>1. CASE late \subseteq late'
      BY <3>1
    <3>2. ASSUME NEW op \in pending, Joined(op) \/ (Resolved(op) /\ op.player \in sessions)
          PROVE  late \subseteq late' \cup {op.player}
      <4>1. BindPlayer(op.ws, op.player)
        BY <3>2, PlayerBound
      <4> QED BY <4>1 DEF BindPlayer
    <3>3. ASSUME NEW op \in pending,
                 (Resolved(op) /\ op.player \notin sessions) \/ HostResolved(op) \/ Forgotten(op)
          PROVE  late' = late
      BY <3>3 DEF Resolved, HostResolved, Forgotten
    <3>4. CASE ActorStep \/ ActorFails \/ TimerShows
      BY <3>4, ActorIsCalm
    <3>5. ASSUME NEW w \in Socket,
                 \/ \E kind \in Kind : Connect(w, kind)
                 \/ AuthTimeout(w) \/ Violate(w) \/ PeerCloses(w) \/ Heartbeat(w)
                 \/ Ask(w)
          PROVE  late' = late
      BY <3>5 DEF Connect, AuthTimeout, Violate, PeerCloses, Heartbeat, HandleClose, Ask,
              AskJoin, AskHost, AskLeave, AskEvent, AskReconnect
    <3>6. CASE (\E q \in Player : HttpJoin(q)) \/ RoomExpires \/ RepositoryFails \/ UNCHANGED vars
      BY <3>6 DEF HttpJoin, RoomExpires, RepositoryFails, vars
    <3> QED BY <1>4, <3>1, <3>2, <3>3, <3>4, <3>5, <3>6 DEF Next, RepositoryStep
  <2>2. Watched(p) \/ ~InRoster(p) \/ GoneIsLast(p) \/ Arriving(p)
    BY <1>0, <2>1 DEF WatchInv
  <2>3. CASE Watched(p)
    <3>1. CASE players'[p] # NoSocket
      BY <1>0, <3>1 DEF LateInv
    <3>2. ASSUME HandleClose(players[p]), players[p] \in Socket PROVE GoneIsLast(p)'
      <4> DEFINE w == players[p]
                 new == Op("gone", w, p)
      <4>1. /\ sock[w].player = p /\ ~sock[w].replaced /\ sock[w].authed
            /\ sock[w].kind = "player"
        BY <2>3, WatchedSocket DEF Watched
      <4>2. queue' = Append(queue, new)
        BY <1>0, <3>2, <4>1 DEF HandleClose
      <4>3. new \in OpRecord /\ new.kind = "gone" /\ new.player = p
        BY <3>2 DEF Op, OpRecord, Id
      <4> HIDE DEF new
      <4>4. /\ Len(queue') = Len(queue) + 1 /\ Len(queue) \in Nat
            /\ queue'[Len(queue) + 1] = new
        BY <4>2, <4>3, AppendOp DEF BaseInv, TypeOK
      <4>5. NoReturn(queue', p, (Len(queue) + 1) + 1)
        BY <4>4 DEF NoReturn
      <4>6. Len(queue) + 1 \in 1 .. Len(queue')
        BY <4>4
      <4> QED BY <4>3, <4>4, <4>5, <4>6 DEF GoneIsLast
    <3>3. ASSUME NEW op \in pending, Forgotten(op), op.player = p PROVE FALSE
      <4>1. room.status[p] = "left" /\ room' = room
        BY <3>3 DEF FreshInv, Forgotten
      <4> QED BY <4>1 DEF InRoster
    <3> QED BY <2>3, <3>1, <3>2, <3>3, SlotEmptied DEF Watched
  <2>4. CASE ~InRoster(p)
    <3>1. StatusMoves(p)
      BY StatusStep
    <3>2. room'.status[p] \in {"connected", "disconnected"}
          /\ room.status[p] \notin {"connected", "disconnected"}
      BY <2>4 DEF InRoster
    <3> QED BY <1>4, <3>1, <3>2 DEF StatusMoves
  <2>5. CASE GoneIsLast(p)
    BY <1>0, <1>4, <2>5, GoneStep
  <2>6. CASE Arriving(p)
    BY <1>4, <2>6, ArrivingStep
  <2> QED BY <2>2, <2>3, <2>4, <2>5, <2>6
<1> QED BY <1>1, <1>2, <1>3, <1>4

-----------------------------------------------------------------------------
(* What sockets have been shown *)

\* A broadcast is due: after an await on the repository, or when the actor gets there.
Coming ==
    \/ \E op \in pending : op.kind \in {"session", "forget"}
    \/ \E i \in 1 .. Len(queue) : queue[i].kind \in {"reconnected", "hostReconnected"}

\* What was told last on the open socket of a player, if anything, is a role of the player.
ToldInv ==
    \A p \in Player \ late : \A w \in Socket :
        (players[p] = w /\ sock[w].conn = "open" /\ sock[w].private) =>
            told[w].player = p /\ told[w].deal > 0

\* Every seated socket is current, with nobody unseen who has a socket, and has been told
\* its player's role if there is one.
UpToDate ==
    \A w \in Socket : Seated(w) =>
        /\ sock[w].current
        /\ \A p \in Player : p \in sock[w].unseen => players[p] = NoSocket
        /\ \A p \in Player \ late : (players[p] = w /\ room.roles[p] > 0) => sock[w].private

ShowInv ==
    /\ ToldInv
    /\ (room.there /\ faults = 0 /\ ~Coming) => UpToDate

\* A broadcast brings everybody up to date, and tells roles to their players only.
LEMMA BroadcastTells ==
    ASSUME BaseInv, BaseInv', SlotInv', LateInv', NEW s \in Sockets,
           Broadcast(s, host', players', room'),
           \A p \in Player \ late' : \A w \in Socket :
               (players'[p] = w /\ s[w].conn = "open" /\ s[w].private) =>
                   told[w].player = p /\ told[w].deal > 0
    PROVE  ToldInv' /\ UpToDate'
<1>0. /\ room' \in RoomRecord /\ told \in [Socket -> Told] /\ players' \in [Player -> Slot]
      /\ NoSocket \notin Socket /\ NoPlayer \notin Player
  BY GatewayAssumption DEF BaseInv, TypeOK
<1> DEFINE h == host'
           pl == players'
           r == room'
<1>1. /\ SameIdentity(s, sock')
      /\ \A v \in Socket :
            /\ sock'[v].conn = s[v].conn
            /\ IsShown(s, h, pl, r, v) => sock'[v].current /\ sock'[v].unseen = {}
            /\ s[v].private => sock'[v].private /\ told'[v] = told[v]
            /\ OwesPrivate(s, pl, r, v) =>
                  /\ sock'[v].private
                  /\ s[v].conn = "open" =>
                        told'[v] = [player |-> FirstAddressee(s, pl, r, v),
                                    deal |-> r.roles[FirstAddressee(s, pl, r, v)]]
            /\ (~s[v].private /\ sock'[v].private) => OwesPrivate(s, pl, r, v)
  <2>1. Broadcast(s, h, pl, r) /\ r \in RoomRecord
    BY <1>0
  <2> HIDE DEF h, pl, r
  <2> QED BY <1>0, <2>1, BroadcastFacts
<1>2. \A p \in Player \ late' : \A w \in Socket : players'[p] = w =>
         /\ sock'[w].player = p
         /\ \A q \in Player \ {p} : players'[q] # w
  BY <1>0 DEF LateInv, Watched
<1>3. \A p \in Player \ late' : \A w \in Socket : players'[p] = w => Addressees(pl, r, w) \subseteq {p}
  BY <1>2 DEF Addressees
<1>4. \A v \in Socket : OwesPrivate(s, pl, r, v) =>
         /\ Addressees(pl, r, v) # {}
         /\ r.roles[FirstAddressee(s, pl, r, v)] > 0
  BY DEF OwesPrivate
<1>5. \A p \in Player \ late' : \A w \in Socket :
         (players'[p] = w /\ Addressees(pl, r, w) # {}) => FirstAddressee(s, pl, r, w) = p
  <2> SUFFICES ASSUME NEW p \in Player \ late', NEW w \in Socket, players'[p] = w,
                      Addressees(pl, r, w) # {}
               PROVE  FirstAddressee(s, pl, r, w) = p
    OBVIOUS
  <2> DEFINE a == FirstAddressee(s, pl, r, w)
  <2>1. a \in Addressees(pl, r, w)
    BY FirstAddresseeFacts
  <2>2. Addressees(pl, r, w) \subseteq {p}
    BY <1>3
  <2> HIDE DEF a, pl, r
  <2>3. a = p
    BY <2>1, <2>2
  <2> QED BY <2>3 DEF a, pl, r
<1>6. \A v \in Socket : Seated(v)' => v = h \/ Addressees(pl, r, v) # {}
  <2> TAKE v \in Socket
  <2> HAVE Seated(v)'
  <2>1. IF sock'[v].kind = "host" THEN host' = v ELSE players'[sock'[v].player] = v
    BY DEF SlotInv, SocketsOwnTheirSlot, Seated
  <2>2. CASE sock'[v].kind = "player"
    <3>1. sock'[v].player \in Player
      <4>1. Identified(sock'[v]) /\ sock'[v].player \in Id
        BY DEF BaseInv, TypeOK, Sockets, SocketRecord
      <4> QED BY <2>2, <4>1 DEF Identified, Seated, Id
    <3>2. sock'[v].player \in Addressees(pl, r, v)
      BY <2>1, <2>2, <3>1 DEF Seated, InRoster, Addressees
    <3> QED BY <3>2
  <2>3. CASE sock'[v].kind # "player"
    <3>1. sock'[v].kind = "host"
      BY <2>3 DEF BaseInv, TypeOK, Sockets, SocketRecord, Kind
    <3> QED BY <2>1, <3>1
  <2> QED BY <2>2, <2>3
<1>7. ToldInv'
  <2> SUFFICES ASSUME NEW p \in Player \ late', NEW w \in Socket, players'[p] = w,
                      sock'[w].conn = "open", sock'[w].private
               PROVE  told'[w].player = p /\ told'[w].deal > 0
    BY DEF ToldInv
  <2>1. CASE s[w].private
    <3>1. told'[w] = told[w] /\ s[w].conn = "open"
      BY <1>1, <2>1
    <3>2. told[w].player = p /\ told[w].deal > 0
      BY <2>1, <3>1
    <3> QED BY <3>1, <3>2
  <2>2. CASE ~s[w].private
    <3>1. OwesPrivate(s, pl, r, w) /\ s[w].conn = "open"
      BY <1>1, <2>2
    <3>2. FirstAddressee(s, pl, r, w) = p
      BY <1>4, <1>5, <3>1
    <3>3. told'[w] = [player |-> p, deal |-> r.roles[p]] /\ r.roles[p] > 0
      BY <1>1, <1>4, <3>1, <3>2
    <3> QED BY <3>3
  <2> QED BY <2>1, <2>2
<1>8. UpToDate'
  <2> SUFFICES ASSUME NEW w \in Socket, Seated(w)'
               PROVE  /\ sock'[w].current
                      /\ \A p \in Player : p \in sock'[w].unseen => players'[p] = NoSocket
                      /\ \A p \in Player \ late' :
                            (players'[p] = w /\ room'.roles[p] > 0) => sock'[w].private
    BY DEF UpToDate
  <2>1. s[w].conn = "open"
    BY <1>1 DEF Seated
  <2>2. sock'[w].current /\ sock'[w].unseen = {}
    BY <1>1, <1>6, <2>1 DEF IsShown
  <2>3. ASSUME NEW p \in Player \ late', players'[p] = w, room'.roles[p] > 0
        PROVE  sock'[w].private
    <3>1. sock'[w].player = p
      BY <1>2, <2>3
    <3>2. sock'[w].kind = "player"
      <4>1. Identified(sock'[w]) /\ p # NoPlayer
        BY <1>0 DEF BaseInv
      <4> QED BY <3>1, <4>1 DEF Identified, Seated
    <3>3. p \in Addressees(pl, r, w)
      BY <2>3, <3>1, <3>2 DEF Seated, InRoster, Addressees
    <3>4. FirstAddressee(s, pl, r, w) = p
      BY <1>5, <2>3, <3>3
    <3>5. CASE s[w].private
      BY <1>1, <3>5
    <3>6. CASE ~s[w].private
      <4>1. OwesPrivate(s, pl, r, w)
        BY <2>1, <2>3, <3>3, <3>4, <3>6 DEF OwesPrivate
      <4> QED BY <1>1, <4>1
    <3> QED BY <3>5, <3>6
  <2> QED BY <2>2, <2>3
<1> QED BY <1>7, <1>8

\* What a step without a broadcast does to sockets: the open ones are as they were, or new;
\* no slot is filled, no role dealt, and nobody seated.
ShownFrame ==
    /\ \A v \in Socket : sock'[v].conn = "open" =>
          \/ /\ sock[v].conn = "open"
             /\ sock'[v].private = sock[v].private /\ sock'[v].current = sock[v].current
             /\ \A p \in Player : p \in sock'[v].unseen =>
                   p \in sock[v].unseen \/ players[p] = NoSocket
             /\ told'[v] = told[v]
          \/ ~sock'[v].authed /\ ~sock'[v].private
    /\ \A p \in Player : players'[p] = players[p] \/ players'[p] = NoSocket
    /\ late \subseteq late'
    /\ room'.roles = room.roles
    /\ \A v \in Socket : Seated(v)' => Seated(v)

\* Such a step keeps everybody up to date.
LEMMA FrameKeeps ==
    ASSUME ShownFrame
    PROVE  /\ ToldInv => ToldInv'
           /\ UpToDate => UpToDate'
<1>0. NoSocket \notin Socket
  BY GatewayAssumption
<1>1. ASSUME ToldInv PROVE ToldInv'
  BY <1>0, <1>1 DEF ShownFrame, ToldInv
<1>2. ASSUME UpToDate PROVE UpToDate'
  <2> SUFFICES ASSUME NEW w \in Socket, Seated(w)'
               PROVE  /\ sock'[w].current
                      /\ \A p \in Player : p \in sock'[w].unseen => players'[p] = NoSocket
                      /\ \A p \in Player \ late' :
                            (players'[p] = w /\ room'.roles[p] > 0) => sock'[w].private
    BY DEF UpToDate
  <2>1. Seated(w) /\ sock'[w].conn = "open" /\ sock'[w].authed
    BY DEF ShownFrame, Seated
  <2>2. /\ sock'[w].private = sock[w].private /\ sock'[w].current = sock[w].current
        /\ \A p \in Player : p \in sock'[w].unseen =>
              p \in sock[w].unseen \/ players[p] = NoSocket
    BY <2>1 DEF ShownFrame
  <2>3. \A p \in Player \ late' : players'[p] = w => p \notin late /\ players[p] = w
    BY <1>0 DEF ShownFrame
  <2> QED BY <1>2, <2>1, <2>2, <2>3 DEF UpToDate, ShownFrame
<1> QED BY <1>1, <1>2

\* A weaker frame keeps what was told.
LEMMA ToldKept ==
    ASSUME ToldInv,
           \A v \in Socket : (sock'[v].conn = "open" /\ sock'[v].private) =>
               sock[v].conn = "open" /\ sock[v].private /\ told'[v] = told[v],
           \A p \in Player : players'[p] = players[p] \/ players'[p] = NoSocket,
           late \subseteq late'
    PROVE  ToldInv'
<1>1. NoSocket \notin Socket
  BY GatewayAssumption
<1> SUFFICES ASSUME NEW p \in Player \ late', NEW w \in Socket, players'[p] = w,
                    sock'[w].conn = "open", sock'[w].private
             PROVE  told'[w].player = p /\ told'[w].deal > 0
  BY DEF ToldInv
<1>2. p \notin late /\ players[p] = w
  BY <1>1
<1>3. sock[w].conn = "open" /\ sock[w].private /\ told'[w] = told[w]
  OBVIOUS
<1> QED BY <1>2, <1>3 DEF ToldInv

\* A broadcast that is due stays due until it is made.
LEMMA ComingStays ==
    ASSUME BaseInv, Coming,
           \A op \in pending : op.kind \in {"session", "forget"} => op \in pending',
           \/ queue' = queue
           \/ \E new \in OpRecord : queue' = Append(queue, new)
           \/ /\ queue # <<>> /\ queue' = Tail(queue)
              /\ Head(queue).kind \notin {"reconnected", "hostReconnected"}
    PROVE  Coming'
<1>1. queue \in Seq(OpRecord) /\ Len(queue) \in Nat
  BY LenProperties DEF BaseInv, TypeOK
<1>2. CASE \E op \in pending : op.kind \in {"session", "forget"}
  BY <1>2 DEF Coming
<1>3. ASSUME NEW i \in 1 .. Len(queue), queue[i].kind \in {"reconnected", "hostReconnected"}
      PROVE  Coming'
  <2>1. CASE queue' = queue
    BY <1>3, <2>1 DEF Coming
  <2>2. ASSUME NEW new \in OpRecord, queue' = Append(queue, new) PROVE Coming'
    <3>1. i \in 1 .. Len(queue') /\ queue'[i] = queue[i]
      BY <1>1, <2>2, AppendOp
    <3> QED BY <1>3, <3>1 DEF Coming
  <2>3. CASE /\ queue # <<>> /\ queue' = Tail(queue)
             /\ Head(queue).kind \notin {"reconnected", "hostReconnected"}
    <3>1. /\ Head(queue) = queue[1] /\ Len(queue') = Len(queue) - 1
          /\ \A k \in 1 .. Len(queue') : queue'[k] = queue[k + 1]
      BY <1>1, <2>3, TailOp
    <3>2. i # 1
      BY <1>3, <2>3, <3>1
    <3>3. i - 1 \in 1 .. Len(queue') /\ queue'[i - 1] = queue[i]
      <4>1. i - 1 \in 1 .. Len(queue') /\ (i - 1) + 1 = i
        BY <1>1, <3>1, <3>2
      <4> QED BY <3>1, <4>1
    <3> QED BY <1>3, <3>3 DEF Coming
  <2> QED BY <2>1, <2>2, <2>3
<1> QED BY <1>2, <1>3 DEF Coming

\* A message makes a broadcast due when it joins the queue as a reconnect.
LEMMA ComingAppends ==
    ASSUME BaseInv, NEW new \in OpRecord, queue' = Append(queue, new),
           new.kind \in {"reconnected", "hostReconnected"}
    PROVE  Coming'
<1>1. /\ Len(queue) \in Nat /\ Len(queue') = Len(queue) + 1
      /\ queue'[Len(queue) + 1] = new
  BY AppendOp DEF BaseInv, TypeOK
<1>2. Len(queue) + 1 \in 1 .. Len(queue')
  BY <1>1
<1> QED BY <1>1, <1>2 DEF Coming

\* Binding a socket to a player makes it one on which nothing has been told.
LEMMA BindTold ==
    ASSUME BaseInv, ToldInv, NEW op \in pending,
           Joined(op) \/ (Resolved(op) /\ op.player \in sessions)
    PROVE  LET s == Replace(Identify(sock, op.ws, op.player), players[op.player], op.ws)
           IN  /\ s \in Sockets
               /\ \A p \in Player \ late' : \A w \in Socket :
                     (players'[p] = w /\ s[w].conn = "open" /\ s[w].private) =>
                         told[w].player = p /\ told[w].deal > 0
<1> DEFINE s == Replace(Identify(sock, op.ws, op.player), players[op.player], op.ws)
<1>1. /\ op.ws \in Socket /\ op.player \in Player /\ op.player \in Id
      /\ players[op.player] \in Slot
      /\ players' = [players EXCEPT ![op.player] = op.ws]
      /\ BindPlayer(op.ws, op.player)
  BY PlayerBound DEF Id
<1>2. players \in [Player -> Slot]
  BY DEF BaseInv, TypeOK
<1>3. /\ s \in Sockets /\ OnlyCloses(sock, s)
      /\ \A v \in Socket :
            /\ v # op.ws \/ ~Known(op.ws) => s[v].private = sock[v].private
            /\ v = op.ws /\ Known(op.ws) => ~s[v].private
            /\ v = op.ws => s[v].conn = sock[v].conn
  BY <1>1, BindFacts DEF BaseInv
<1> HIDE DEF s
<1>4. ASSUME NEW p \in Player \ late', NEW w \in Socket, players'[p] = w,
             s[w].conn = "open", s[w].private
      PROVE  told[w].player = p /\ told[w].deal > 0
  <2>1. w # op.ws
    BY <1>3, <1>4 DEF Known
  <2>2. p # op.player /\ players[p] = w
    BY <1>1, <1>2, <1>4, <2>1
  <2>3. p \notin late
    BY <1>1, <1>4, <2>2 DEF BindPlayer
  <2>4. sock[w].conn = "open" /\ sock[w].private
    BY <1>3, <1>4, <2>1 DEF OnlyCloses
  <2> QED BY <2>2, <2>3, <2>4 DEF ToldInv
<1> QED BY <1>3, <1>4 DEF s

\* A room that is shown is told to everybody.
LEMMA ShowTells ==
    ASSUME BaseInv, BaseInv', SlotInv', LateInv', ToldInv,
           ActorStep \/ TimerShows, NEW r \in RoomRecord, Show(r)
    PROVE  ToldInv' /\ UpToDate'
<1> DEFINE s == Stale(sock)
<1>1. UNCHANGED <<host, players, late>>
  BY ActorIsCalm
<1>2. s \in Sockets /\ Broadcast(s, host', players', room')
  BY <1>1, ShowFacts DEF BaseInv
<1>3. \A v \in Socket : s[v].conn = sock[v].conn /\ s[v].private = sock[v].private
  BY StaleFacts DEF BaseInv, TypeOK
<1> HIDE DEF s
<1>4. \A p \in Player \ late' : \A w \in Socket :
         (players'[p] = w /\ s[w].conn = "open" /\ s[w].private) =>
             told[w].player = p /\ told[w].deal > 0
  BY <1>1, <1>3 DEF ToldInv
<1> QED BY <1>2, <1>4, BroadcastTells

\* Which of the actor's steps show the room.
LEMMA ActorShows ==
    ASSUME BaseInv, ActorStep \/ TimerShows
    PROVE  \/ \E r \in RoomRecord : Show(r)
           \/ LeaveAccepted \/ Rejected \/ RoomMissing
           \/ \E p \in Player : JoinAccepted(p)
<1>0. room \in RoomRecord
  BY DEF BaseInv, TypeOK
<1>1. CASE Accepted
  BY <1>0, <1>1 DEF Accepted
<1>2. CASE Dealt
  BY <1>0, <1>2, DealtFacts DEF Dealt
<1>3. ASSUME NEW kind \in {"gone", "reconnected"}, NEW status \in {"connected", "disconnected"},
             StatusChange(kind, status)
      PROVE  \E r \in RoomRecord : Show(r)
  <2>1. Head(queue).player \in Player
    BY <1>3, HeadFits DEF StatusChange, Take, Fits
  <2> QED BY <1>0, <1>3, <2>1, StatusFacts DEF StatusChange
<1>4. ASSUME NEW kind, NEW there \in BOOLEAN, HostChange(kind, there)
      PROVE  \E r \in RoomRecord : Show(r)
  <2>1. [room EXCEPT !.host = there] \in RoomRecord
    BY <1>0 DEF RoomRecord
  <2> QED BY <1>4, <2>1 DEF HostChange
<1>5. CASE TimerShows
  <2>1. [room EXCEPT !.lobby = TRUE] \in RoomRecord
    BY <1>0 DEF RoomRecord
  <2> QED BY <1>5, <2>1 DEF TimerShows
<1> QED BY <1>1, <1>2, <1>3, <1>4, <1>5 DEF ActorStep

\* Where sockets, the registry and the room stay, what was shown stays.
LEMMA StillFrame ==
    ASSUME UNCHANGED <<sock, players, room, told, late>>
    PROVE  ShownFrame
BY DEF ShownFrame, Seated, InRoster

\* ShowInv is inductive.
LEMMA ShowStep ==
    ASSUME BaseInv, FreshInv, SlotInv, LateInv, ShowInv, [Next]_vars
    PROVE  ShowInv'
<1>0. /\ BaseInv' /\ SlotInv' /\ LateInv' /\ ToldInv /\ TypeOK
      /\ players \in [Player -> Slot] /\ NoSocket \notin Socket
  BY BaseStep, SlotStep, LateStep, GatewayAssumption DEF ShowInv, BaseInv, TypeOK
<1> DEFINE goal == ShowInv'
<1>1. ASSUME ToldInv', UpToDate' PROVE goal
  BY <1>1 DEF ShowInv
<1>2. ASSUME ShownFrame, Coming => Coming' PROVE goal
  <2>1. ToldInv' /\ (UpToDate => UpToDate')
    BY <1>0, <1>2, FrameKeeps
  <2>2. room'.there /\ faults' = 0 => room.there /\ faults = 0
    BY ThereStep, FaultsStep
  <2> QED BY <1>2, <2>1, <2>2 DEF ShowInv
<1>3. ASSUME NEW w \in Socket, NEW kind \in Kind, Connect(w, kind) PROVE goal
  <2>1. /\ sock' = [sock EXCEPT ![w] = Fresh(kind, "open")]
        /\ UNCHANGED <<host, players, room, queue, pending, told, late>>
    BY <1>3 DEF Connect, registry
  <2>2. /\ ~sock'[w].authed /\ ~sock'[w].private
        /\ \A v \in Socket \ {w} : sock'[v] = sock[v]
    BY <1>0, <2>1 DEF TypeOK, Sockets, Fresh
  <2>3. \A v \in Socket : Seated(v)' => Seated(v)
    BY <2>1, <2>2 DEF Seated, InRoster
  <2>4. ShownFrame
    BY <2>1, <2>2, <2>3 DEF ShownFrame
  <2>5. Coming => Coming'
    BY <2>1 DEF Coming
  <2> QED BY <1>2, <2>4, <2>5
<1>4. ASSUME NEW w \in Socket, AuthTimeout(w) \/ Violate(w) PROVE goal
  <2>1. /\ SameIdentity(sock, sock') /\ OnlyCloses(sock, sock') /\ SameShown(sock, sock')
        /\ UNCHANGED <<host, players, room, queue, pending, told, late>>
    BY <1>0, <1>4, CloseFacts DEF AuthTimeout, Violate, registry, TypeOK
  <2>2. \A v \in Socket : Seated(v)' => Seated(v)
    BY <2>1 DEF Seated, InRoster, SameIdentity, OnlyCloses
  <2>3. ShownFrame
    BY <2>1, <2>2 DEF ShownFrame, OnlyCloses, SameShown
  <2>4. Coming => Coming'
    BY <2>1 DEF Coming
  <2> QED BY <1>2, <2>3, <2>4
<1>5. ASSUME NEW w \in Socket, HandleClose(w) PROVE goal
  <2>1. /\ sock'[w] = Absent
        /\ \A v \in Socket \ {w} : sock'[v] = sock[v] /\ told'[v] = told[v]
        /\ sock[w].player \in Id
    BY <1>5, ClosedFacts
  <2>2. room' = room /\ pending' = pending /\ late' = late
    BY <1>5 DEF HandleClose
  <2>3. \A p \in Player : players'[p] = players[p] \/ players'[p] = NoSocket
    <3>1. players' = players \/ \E q : players' = PlayersWithout(w, q)
      BY <1>5 DEF HandleClose
    <3> QED BY <1>0, <3>1 DEF PlayersWithout
  <2>4. \A v \in Socket : Seated(v)' => Seated(v)
    BY <2>1, <2>2, AbsentFacts DEF Seated, InRoster
  <2>5. ShownFrame
    BY <2>1, <2>2, <2>3, <2>4, AbsentFacts DEF ShownFrame
  <2>6. queue' = queue \/ \E new \in OpRecord : queue' = Append(queue, new)
    <3> DEFINE new == Op(IF sock[w].kind = "host" THEN "hostGone" ELSE "gone", w, sock[w].player)
    <3>1. new \in OpRecord
      BY <2>1 DEF Op, OpRecord
    <3>2. queue' = queue \/ queue' = Append(queue, new)
      BY <1>5 DEF HandleClose
    <3> HIDE DEF new
    <3> QED BY <3>1, <3>2
  <2>7. Coming => Coming'
    BY <2>2, <2>6, ComingStays
  <2> QED BY <1>2, <2>5, <2>7
<1>6. ASSUME NEW w \in Socket, Ask(w) PROVE goal
  <2>1. UNCHANGED <<sock, players, room, told, late>> /\ pending \subseteq pending'
    BY <1>6 DEF Ask, AskJoin, AskHost, AskLeave, AskEvent, AskReconnect, registry
  <2>2. queue' = queue \/ \E new \in OpRecord : queue' = Append(queue, new)
    <3>1. \A kind \in {"join", "leave", "event"} : \A q \in {NoPlayer, sock[w].player} :
             Op(kind, w, q) \in OpRecord
      BY <1>0 DEF Op, OpRecord, Id, TypeOK, Sockets, SocketRecord
    <3>2. \/ queue' = queue
          \/ \E kind \in {"join", "leave", "event"} : \E q \in {NoPlayer, sock[w].player} :
                queue' = Append(queue, Op(kind, w, q))
      BY <1>6 DEF Ask, AskJoin, AskLeave, AskEvent, AskHost, AskReconnect, Enqueue
    <3> QED BY <3>1, <3>2
  <2>3. Coming => Coming'
    BY <2>1, <2>2, ComingStays
  <2> QED BY <1>2, <2>1, <2>3, StillFrame
<1>7. ASSUME NEW p \in Player, HttpJoin(p) PROVE goal
  <2>0. /\ SameIdentity(sock, sock')
        /\ \A v \in Socket :
              /\ sock'[v].conn = sock[v].conn /\ sock'[v].private = sock[v].private
              /\ sock'[v].current = sock[v].current
              /\ \A q \in Player : q \in sock'[v].unseen => q \in sock[v].unseen \/ q = p
    BY <1>0, <1>7, HttpJoinFacts
  <2>1. /\ UNCHANGED <<players, queue, pending, told>> /\ late \subseteq late'
        /\ room.status[p] = "none"
        /\ room' = [room EXCEPT !.status[p] = "connected"]
    BY <1>7 DEF HttpJoin, registry
  <2>2. room'.roles = room.roles /\ room'.status = [room.status EXCEPT ![p] = "connected"]
    BY <1>0, <2>1, StatusFacts DEF TypeOK
  <2>3. \A q \in Player \ {p} : room'.status[q] = room.status[q]
    BY <1>0, <2>2 DEF TypeOK, RoomRecord
  <2>4. ASSUME NEW v \in Socket, Seated(v)' PROVE Seated(v)
    <3>1. CASE sock[v].kind = "player"
      <4>1. sock[v].player \in Player
        BY <2>0, <2>4, <3>1, PlayersSocket DEF Seated, SameIdentity
      <4>2. sock[v].player # p
        BY <2>1 DEF FreshInv, Untouched
      <4> QED BY <2>0, <2>3, <2>4, <4>1, <4>2 DEF Seated, InRoster, SameIdentity
    <3>2. CASE sock[v].kind # "player"
      BY <2>0, <2>4, <3>2 DEF Seated, SameIdentity
    <3> QED BY <3>1, <3>2
  <2>5. players[p] = NoSocket
    BY <2>1 DEF FreshInv, Untouched
  <2>6. ShownFrame
    BY <2>0, <2>1, <2>2, <2>4, <2>5 DEF ShownFrame
  <2>7. Coming => Coming'
    BY <2>1 DEF Coming
  <2> QED BY <1>2, <2>6, <2>7
<1>8. ASSUME ActorStep \/ TimerShows, NEW r \in RoomRecord, Show(r) PROVE goal
  BY <1>0, <1>1, <1>8, ShowTells
<1>9. ASSUME LeaveAccepted \/ (\E p \in Player : JoinAccepted(p)) PROVE goal
  <2>1. UNCHANGED <<players, late>> /\ ActorStep
    BY <1>9, ActorIsCalm DEF ActorStep
  <2>2. sock' = Stale(sock) /\ told' = told
    BY <1>9 DEF LeaveAccepted, JoinAccepted
  <2>3. \A v \in Socket : sock'[v].conn = sock[v].conn /\ sock'[v].private = sock[v].private
    BY <1>0, <2>2, StaleFacts DEF TypeOK
  <2>4. ToldInv'
    BY <1>0, <2>1, <2>2, <2>3, ToldKept
  <2>5. Coming'
    BY <1>9, OpType DEF LeaveAccepted, JoinAccepted, Coming
  <2> QED BY <2>4, <2>5 DEF ShowInv
<1>10. ASSUME Rejected PROVE goal
  <2>1. UNCHANGED <<sock, players, room, told, late, pending>>
    BY <1>10 DEF Rejected, Ours, registry
  <2>2. /\ queue # <<>> /\ queue' = Tail(queue)
        /\ Head(queue).kind \notin {"reconnected", "hostReconnected"}
    BY <1>10 DEF Rejected, Take
  <2>3. Coming => Coming'
    BY <2>1, <2>2, ComingStays
  <2> QED BY <1>2, <2>1, <2>3, StillFrame
<1>11. ASSUME RoomMissing PROVE goal
  <2>1. sock' = sock \/ sock' = Evict(sock)
    BY <1>11 DEF RoomMissing
  <2>2. OnlyCloses(sock, sock') /\ SameShown(sock, sock')
    <3>1. CASE sock' = sock
      BY <3>1 DEF OnlyCloses, SameShown
    <3>2. CASE sock' = Evict(sock)
      BY <1>0, <3>2, EvictFacts DEF TypeOK
    <3> QED BY <2>1, <3>1, <3>2
  <2>3. ~room'.there /\ UNCHANGED <<players, told, late>>
    BY <1>11 DEF RoomMissing, registry
  <2>4. ToldInv'
    BY <1>0, <2>2, <2>3, ToldKept DEF OnlyCloses, SameShown
  <2> QED BY <2>3, <2>4 DEF ShowInv
<1>12. ASSUME ActorFails \/ RoomExpires PROVE goal
  <2>1. UNCHANGED <<sock, players, told, late>>
    BY <1>12 DEF ActorFails, RoomExpires, registry
  <2>2. ~(room'.there /\ faults' = 0)
    BY <1>0, <1>12 DEF ActorFails, RoomExpires, Fault, TypeOK, RoomRecord
  <2>3. ToldInv'
    BY <1>0, <2>1, ToldKept
  <2> QED BY <2>2, <2>3 DEF ShowInv
<1>13. ASSUME RepositoryFails PROVE goal
  <2>1. faults' # 0 /\ players' = [p \in Player |-> NoSocket]
    BY <1>0, <1>13 DEF RepositoryFails, Fault, TypeOK
  <2>2. ToldInv'
    BY <1>0, <2>1 DEF ToldInv
  <2> QED BY <2>1, <2>2 DEF ShowInv
<1>14. ASSUME NEW op \in pending, Joined(op) PROVE goal
  <2> DEFINE s == Replace(Identify(sock, op.ws, op.player), players[op.player], op.ws)
  <2>1. s \in Sockets /\ \A p \in Player \ late' : \A w \in Socket :
           (players'[p] = w /\ s[w].conn = "open" /\ s[w].private) =>
               told[w].player = p /\ told[w].deal > 0
    BY <1>0, <1>14, BindTold
  <2>2. Broadcast(s, host', players', room')
    BY <1>14 DEF Joined, BindPlayer
  <2> HIDE DEF s
  <2>3. ToldInv' /\ UpToDate'
    BY <1>0, <2>1, <2>2, BroadcastTells
  <2> QED BY <1>1, <2>3
<1>15. ASSUME NEW op \in pending, Forgotten(op) PROVE goal
  <2> DEFINE s == CloseIn(sock, op.ws)
  <2>1. /\ op.ws \in Socket /\ s \in Sockets
        /\ players' = PlayersWithout(op.ws, op.player)
    BY <1>15, ForgottenFacts
  <2>2. OnlyCloses(sock, s) /\ SameShown(sock, s)
    BY <1>0, <2>1, CloseFacts DEF TypeOK
  <2>3. Broadcast(s, host', players', room') /\ late' = late
    BY <1>15 DEF Forgotten
  <2> HIDE DEF s
  <2>4. \A p \in Player : players'[p] = players[p] \/ players'[p] = NoSocket
    BY <1>0, <2>1 DEF PlayersWithout
  <2>5. \A p \in Player \ late' : \A w \in Socket :
           (players'[p] = w /\ s[w].conn = "open" /\ s[w].private) =>
               told[w].player = p /\ told[w].deal > 0
    BY <1>0, <2>2, <2>3, <2>4 DEF ToldInv, OnlyCloses, SameShown
  <2>6. ToldInv' /\ UpToDate'
    BY <1>0, <2>1, <2>3, <2>5, BroadcastTells
  <2> QED BY <1>1, <2>6
<1>16. ASSUME NEW op \in pending, Resolved(op), op.player \in sessions PROVE goal
  <2> DEFINE new == Op("reconnected", op.ws, op.player)
  <2>1. \A p \in Player \ late' : \A w \in Socket :
           (players'[p] = w /\ sock'[w].conn = "open" /\ sock'[w].private) =>
               told'[w].player = p /\ told'[w].deal > 0
    BY <1>0, <1>16, BindTold DEF Resolved
  <2>2. new \in OpRecord /\ new.kind = "reconnected" /\ queue' = Append(queue, new)
    BY <1>16, PlayerBound DEF Op, OpRecord, Id, Resolved, Enqueue
  <2> HIDE DEF new
  <2>3. Coming'
    BY <2>2, ComingAppends
  <2> QED BY <2>1, <2>3 DEF ShowInv, ToldInv
<1>17. ASSUME NEW op \in pending, HostResolved(op), room.there PROVE goal
  <2> DEFINE new == Op("hostReconnected", op.ws, NoPlayer)
  <2>1. op.ws \in Socket /\ NoPlayer \in Id /\ host \in Slot
    BY <1>0, <1>17, HostBound DEF Id, TypeOK
  <2>2. /\ new \in OpRecord /\ new.kind = "hostReconnected" /\ queue' = Append(queue, new)
        /\ sock' = Replace(Identify(sock, op.ws, NoPlayer), host, op.ws)
        /\ UNCHANGED <<players, told, late>>
    BY <1>17, <2>1 DEF Op, OpRecord, Id, HostResolved, Enqueue
  <2>3. /\ OnlyCloses(sock, sock')
        /\ \A v \in Socket :
              /\ v # op.ws \/ ~Known(op.ws) => sock'[v].private = sock[v].private
              /\ v = op.ws /\ Known(op.ws) => ~sock'[v].private
    BY <1>0, <2>1, <2>2, BindFacts
  <2>4. \A v \in Socket : (sock'[v].conn = "open" /\ sock'[v].private) =>
           sock[v].conn = "open" /\ sock[v].private
    BY <2>3 DEF OnlyCloses
  <2>5. ToldInv'
    BY <1>0, <2>2, <2>4, ToldKept
  <2> HIDE DEF new
  <2>6. Coming'
    BY <2>2, ComingAppends
  <2> QED BY <2>5, <2>6 DEF ShowInv
<1>18. ASSUME NEW op \in pending,
              (Resolved(op) /\ op.player \notin sessions) \/ (HostResolved(op) /\ ~room.there)
       PROVE  goal
  <2>1. /\ UNCHANGED <<sock, players, room, told, late, queue>>
        /\ op.kind \notin {"session", "forget"} /\ pending' = pending \ {op}
    BY <1>18 DEF Resolved, HostResolved, registry
  <2>2. Coming => Coming'
    BY <2>1, ComingStays
  <2> QED BY <1>2, <2>1, <2>2, StillFrame
<1>19. ASSUME UNCHANGED vars PROVE goal
  <2>1. UNCHANGED <<sock, players, room, told, late>> /\ (Coming => Coming')
    BY <1>19 DEF vars, registry, Coming
  <2> QED BY <1>2, <2>1, StillFrame
<1>20. ASSUME ActorStep \/ TimerShows PROVE goal
  <2>1. \/ \E r \in RoomRecord : Show(r)
        \/ LeaveAccepted \/ Rejected \/ RoomMissing
        \/ \E p \in Player : JoinAccepted(p)
    BY <1>20, ActorShows
  <2> QED BY <1>8, <1>9, <1>10, <1>11, <1>20, <2>1
<1>21. ASSUME RepositoryStep PROVE goal
  BY <1>14, <1>15, <1>16, <1>17, <1>18, <1>21 DEF RepositoryStep
<1> HIDE DEF goal
<1>22. goal
  BY <1>3, <1>4, <1>5, <1>6, <1>7, <1>12, <1>13, <1>19, <1>20, <1>21
     DEF Next, PeerCloses, Heartbeat
<1> QED BY <1>22 DEF goal

-----------------------------------------------------------------------------
(* The theorems *)

Inv == BaseInv /\ FreshInv /\ SlotInv /\ AnsweredInv /\ LateInv /\ WatchInv /\ ShowInv

\* The invariants hold at the start.
LEMMA InvInit == Init => Inv
<1> SUFFICES ASSUME Init PROVE Inv
  OBVIOUS
<1>0. NoSocket \notin Socket /\ NoPlayer \notin Player
  BY GatewayAssumption
<1>1. BaseInv
  BY BaseInit
<1>2. /\ \A w \in Socket : /\ sock[w].conn = "none" /\ ~sock[w].authed
                           /\ sock[w].player = NoPlayer
      /\ host = NoSocket /\ \A p \in Player : players[p] = NoSocket
      /\ sessions = {} /\ queue = <<>> /\ pending = {}
      /\ \A p \in Player : room.status[p] = "none"
  BY AbsentFacts DEF Init
<1>3. FreshInv
  BY <1>0, <1>2 DEF FreshInv, Untouched
<1>4. SlotInv
  BY <1>2 DEF SlotInv, SocketsOwnTheirSlot, SlotsAreKept
<1>5. AnsweredInv
  BY <1>2 DEF AnsweredInv
<1>6. LateInv
  BY <1>2 DEF LateInv
<1>7. WatchInv
  BY <1>2 DEF WatchInv, InRoster
<1>8. ShowInv
  BY <1>0, <1>2 DEF ShowInv, ToldInv, UpToDate, Seated
<1> QED BY <1>1, <1>3, <1>4, <1>5, <1>6, <1>7, <1>8 DEF Inv

\* The invariants together are inductive.
LEMMA InvStep == Inv /\ [Next]_vars => Inv'
<1> SUFFICES ASSUME Inv, [Next]_vars PROVE Inv'
  OBVIOUS
<1>1. BaseInv /\ FreshInv /\ SlotInv /\ AnsweredInv /\ LateInv /\ WatchInv /\ ShowInv
  BY DEF Inv
<1>2. BaseInv' /\ FreshInv' /\ SlotInv'
  BY <1>1, BaseStep, FreshStep, SlotStep
<1>3. AnsweredInv' /\ LateInv'
  BY <1>1, AnsweredStep, LateStep
<1>4. WatchInv' /\ ShowInv'
  BY <1>1, WatchStep, ShowStep
<1> QED BY <1>2, <1>3, <1>4 DEF Inv

\* So they always hold.
LEMMA Invariance == Spec => []Inv
<1>1. Init => Inv
  BY InvInit
<1>2. Inv /\ [Next]_vars => Inv'
  BY InvStep
<1> QED BY <1>1, <1>2, PTL DEF Spec

\* An open authenticated socket is the one the registry has for its identity
\* (closeReplacedSocket, handlePlayerLeave and the guards of handleClose).
THEOREM SlotsAreOwned == Spec => []SocketsOwnTheirSlot
<1>1. Inv => SocketsOwnTheirSlot
  BY DEF Inv, SlotInv
<1> QED BY <1>1, Invariance, PTL

\* While the socket bound to a player is open, every disconnect of the player in the
\* actor's queue is followed by the reconnect (the replaced mark handleClose looks at).
THEOREM ReconnectHasTheLastWord == Spec => []DisconnectIsNeverLast
<1>1. Inv => DisconnectIsNeverLast
  <2> SUFFICES ASSUME Inv, NEW p \in Player, NEW i \in 1 .. Len(queue),
                      queue[i] = Op("gone", queue[i].ws, p), players[p] # NoSocket,
                      sock[players[p]].conn = "open"
               PROVE  \E j \in i + 1 .. Len(queue) :
                         queue[j].kind = "reconnected" /\ queue[j].player = p
    BY DEF DisconnectIsNeverLast
  <2>1. queue[i].kind = "gone" /\ queue[i].player = p
    BY OpType
  <2>2. Answered(queue, p)
    BY DEF Inv, AnsweredInv
  <2> QED BY <2>1, <2>2 DEF Answered
<1> QED BY <1>1, Invariance, PTL

\* When nothing is under way and no store call failed, a player shown as connected has a
\* socket whose close the gateway will report (handleClose, handlePlayerReconnect).
THEOREM ShownConnectedIsWatched == Spec => []ConnectedIsWatched
<1>1. Inv => ConnectedIsWatched
  <2> SUFFICES ASSUME Inv, Quiet, NEW p \in Player, p \notin late, room.status[p] = "connected"
               PROVE  /\ players[p] # NoSocket
                      /\ Known(players[p]) /\ ~sock[players[p]].replaced
                      /\ sock[players[p]].player = p
    BY DEF ConnectedIsWatched
  <2>1. Watched(p) \/ ~InRoster(p) \/ GoneIsLast(p) \/ Arriving(p)
    BY DEF Inv, WatchInv, Quiet
  <2>2. InRoster(p) /\ ~GoneIsLast(p) /\ ~Arriving(p)
    BY DEF Quiet, InRoster, GoneIsLast, Arriving
  <2> QED BY <2>1, <2>2 DEF Watched
<1> QED BY <1>1, Invariance, PTL

\* Then every open authenticated socket of the room has the view of its last change by a
\* socket or a timer (broadcastRoom after each), and it lacks nobody but players who have
\* joined over HTTP, which broadcasts nothing, and have no socket yet.
THEOREM SeatedSeeTheRoom == Spec => []ViewsAreCurrent
<1>1. Inv => ViewsAreCurrent
  <2> SUFFICES ASSUME Inv, Quiet PROVE UpToDate
    <3>1. Inv => \A w \in Socket : sock[w].unseen \subseteq Player
      BY DEF Inv, BaseInv, TypeOK, Sockets, SocketRecord
    <3> QED BY <3>1 DEF ViewsAreCurrent, UpToDate
  <2>1. ~Coming
    BY DEF Quiet, Coming
  <2> QED BY <2>1 DEF Inv, ShowInv, Quiet
<1> QED BY <1>1, Invariance, PTL

\* And a player with a role and a socket of its own has been told a role on it
\* (privateInfoSent).
THEOREM RolesAreTold == Spec => []RoleIsTold
<1>1. Inv => RoleIsTold
  <2> SUFFICES ASSUME Inv, Quiet, NEW p \in Player, p \notin late, NEW w \in Socket,
                      players[p] = w, Seated(w), room.roles[p] > 0
               PROVE  told[w].player = p /\ told[w].deal > 0
    BY DEF RoleIsTold
  <2>1. ~Coming
    BY DEF Quiet, Coming
  <2>2. UpToDate /\ ToldInv
    BY <2>1 DEF Inv, ShowInv, Quiet
  <2>3. sock[w].private /\ sock[w].conn = "open"
    BY <2>2 DEF UpToDate, Seated
  <2> QED BY <2>2, <2>3 DEF ToldInv
<1> QED BY <1>1, Invariance, PTL

-----------------------------------------------------------------------------
(* What the gateway takes the room for changes as a roster does *)

Members == {p \in Player : InRoster(p)}
Present == {p \in Player : room.status[p] = "connected"}

\* The room is to the roster what it was.
SameRoster == room'.lobby = room.lobby /\ Members' = Members /\ Present' = Present

LEMMA RosterStutters == ASSUME SameRoster PROVE [Membership!Next]_(Membership!vars)
BY DEF SameRoster, Members, Present, Membership!vars

\* Where the statuses are what they were, so are the players in the room.
LEMMA RosterOfStatuses == ASSUME room'.status = room.status PROVE Members' = Members /\ Present' = Present
BY DEF Members, Present, InRoster

\* One player's status is all that changes.
LEMMA RosterOfOne ==
    ASSUME room \in RoomRecord, NEW q \in Player, NEW st,
           room'.status = [room.status EXCEPT ![q] = st]
    PROVE  /\ Members' = IF st \in {"connected", "disconnected"}
                         THEN Members \cup {q} ELSE Members \ {q}
           /\ Present' = IF st = "connected" THEN Present \cup {q} ELSE Present \ {q}
<1>1. \A p \in Player : room'.status[p] = IF p = q THEN st ELSE room.status[p]
  BY DEF RoomRecord
<1> QED BY <1>1 DEF Members, Present, InRoster

\* A player joins over HTTP or through the actor, in a lobby.
LEMMA RosterJoins ==
    ASSUME room \in RoomRecord, NEW q \in Player, HttpJoin(q) \/ JoinAccepted(q)
    PROVE  Membership!Next
<1>1. room' = [room EXCEPT !.status[q] = "connected"] /\ room.lobby /\ room.status[q] = "none"
  BY DEF HttpJoin, JoinAccepted
<1>2. room'.lobby = room.lobby /\ room'.status = [room.status EXCEPT ![q] = "connected"]
  BY <1>1, StatusFacts
<1>3. Members' = Members \cup {q} /\ Present' = Present \cup {q}
  BY <1>2, RosterOfOne
<1>4. q \notin Members
  BY <1>1 DEF Members, InRoster
<1>5. Membership!Join(q)
  BY <1>1, <1>2, <1>3, <1>4 DEF Membership!Join, Members, Present
<1> QED BY <1>5 DEF Membership!Next

\* A leave takes out a member, or somebody who is none already.
LEMMA RosterLeaves ==
    ASSUME BaseInv, LeaveAccepted
    PROVE  [Membership!Next]_(Membership!vars)
<1>0. PICK q \in Player : q = Head(queue).player
  BY HeadFits DEF LeaveAccepted, Take, Fits
<1>1. room \in RoomRecord
  BY DEF BaseInv, TypeOK
<1>2. room' = [room EXCEPT !.status[q] = "left", !.roles[q] = 0] /\ room.lobby
  BY <1>0 DEF LeaveAccepted
<1>3. room'.lobby = room.lobby /\ room'.status = [room.status EXCEPT ![q] = "left"]
  BY <1>1, <1>2, LeftFacts
<1>4. Members' = Members \ {q} /\ Present' = Present \ {q}
  BY <1>1, <1>3, RosterOfOne
<1>5. CASE InRoster(q)
  <2>1. Membership!Leave(q)
    BY <1>1, <1>2, <1>3, <1>4, <1>5 DEF Membership!Leave, Members, Present
  <2> QED BY <1>1, <2>1 DEF Membership!Next
<1>6. CASE ~InRoster(q)
  <2>1. Members' = Members /\ Present' = Present
    BY <1>4, <1>6 DEF Members, Present, InRoster
  <2> QED BY <1>3, <2>1, RosterStutters DEF SameRoster
<1> QED BY <1>5, <1>6

\* A close or a reconnect makes a member come or go, and nobody else: not whoever has
\* left by the time the actor takes it.
LEMMA RosterMoves ==
    ASSUME BaseInv, NEW kind, NEW status,
           \/ kind = "reconnected" /\ status = "connected"
           \/ kind = "gone" /\ status = "disconnected",
           StatusChange(kind, status)
    PROVE  [Membership!Next]_(Membership!vars)
<1>0. PICK q \in Player : q = Head(queue).player
  BY HeadFits DEF StatusChange, Take, Fits
<1>1. room \in RoomRecord
  BY DEF BaseInv, TypeOK
<1>2. room' = IF InRoster(q) THEN [room EXCEPT !.status[q] = status] ELSE room
  BY <1>0 DEF StatusChange, Show
<1>3. CASE ~InRoster(q)
  BY <1>2, <1>3, RosterOfStatuses, RosterStutters DEF SameRoster
<1>4. CASE InRoster(q)
  <2>1. room'.lobby = room.lobby /\ room'.status = [room.status EXCEPT ![q] = status]
    BY <1>1, <1>2, <1>4, StatusFacts
  <2>2. q \in Members /\ Members' = Members
    BY <1>1, <1>4, <2>1, RosterOfOne DEF Members
  <2>3. Present' = IF status = "connected" THEN Present \cup {q} ELSE Present \ {q}
    BY <1>1, <2>1, RosterOfOne
  <2>4. CASE status = "connected"
    <3>1. CASE q \in Present
      <4>1. SameRoster
        BY <2>1, <2>2, <2>3, <2>4, <3>1 DEF SameRoster
      <4> QED BY <4>1, RosterStutters
    <3>2. CASE q \notin Present
      <4>1. Membership!ComeBack(q)
        BY <2>1, <2>2, <2>3, <2>4, <3>2 DEF Membership!ComeBack, Members, Present
      <4> QED BY <1>1, <4>1 DEF Membership!Next
    <3> QED BY <3>1, <3>2
  <2>5. CASE status = "disconnected"
    <3>1. CASE q \notin Present
      <4>1. SameRoster
        BY <2>1, <2>2, <2>3, <2>5, <3>1 DEF SameRoster
      <4> QED BY <4>1, RosterStutters
    <3>2. CASE q \in Present
      <4>1. Membership!GoAway(q)
        BY <2>1, <2>2, <2>3, <2>5, <3>2 DEF Membership!GoAway, Members, Present
      <4> QED BY <1>1, <4>1 DEF Membership!Next
    <3> QED BY <3>1, <3>2
  <2> QED BY <2>4, <2>5
<1> QED BY <1>3, <1>4

\* The deal closes the lobby, the end of the match opens it, and nobody comes or goes.
LEMMA RosterOpens ==
    ASSUME room \in RoomRecord, Dealt \/ TimerShows
    PROVE  Membership!Next
<1>1. room'.status = room.status /\ room'.lobby = ~room.lobby
  <2>1. CASE Dealt
    <3>1. /\ room' = [room EXCEPT !.lobby = FALSE, !.deal = @ + 1,
                        !.roles = [p \in Player |-> IF InRoster(p) THEN room.deal + 1 ELSE 0]]
          /\ room.lobby
      BY <2>1 DEF Dealt, Show
    <3>2. room'.status = room.status
      BY <3>1, DealtFacts
    <3>3. room'.lobby = FALSE
      BY <3>1 DEF RoomRecord
    <3> QED BY <3>1, <3>2, <3>3 DEF RoomRecord
  <2>2. CASE TimerShows
    BY <2>2 DEF TimerShows, Show, RoomRecord
  <2> QED BY <2>1, <2>2
<1>2. Members' = Members /\ Present' = Present
  BY <1>1, RosterOfStatuses
<1>3. Membership!OpenOrClose
  BY <1>1, <1>2 DEF Membership!OpenOrClose, Members, Present
<1> QED BY <1>3 DEF Membership!Next

\* Whatever else happens leaves the roster alone.
LEMMA RosterRests ==
    ASSUME room \in RoomRecord,
           \/ \E w \in Socket :
                 \/ \E kind \in Kind : Connect(w, kind)
                 \/ AuthTimeout(w) \/ Violate(w) \/ PeerCloses(w) \/ Heartbeat(w)
                 \/ Ask(w)
           \/ Accepted \/ Rejected \/ ActorFails \/ RoomMissing \/ RoomExpires
           \/ HostChange("hostReconnected", TRUE) \/ HostChange("hostGone", FALSE)
           \/ RepositoryStep \/ RepositoryFails \/ UNCHANGED vars
    PROVE  [Membership!Next]_(Membership!vars)
<1>1. ASSUME NEW kind, NEW there, HostChange(kind, there)
      PROVE  room'.lobby = room.lobby /\ room'.status = room.status
  BY <1>1 DEF HostChange, Show, RoomRecord
<1>2. CASE RoomExpires
  <2>1. room'.lobby = room.lobby /\ room'.status = room.status
    BY <1>2 DEF RoomExpires, RoomRecord
  <2> QED BY <2>1, RosterOfStatuses, RosterStutters DEF SameRoster
<1>3. CASE Accepted \/ Rejected \/ ActorFails \/ RoomMissing \/ UNCHANGED vars
  <2>1. room' = room
    BY <1>3 DEF Accepted, Rejected, ActorFails, RoomMissing, Show, vars
  <2> QED BY <2>1, RosterOfStatuses, RosterStutters DEF SameRoster
<1>4. CASE RepositoryStep \/ RepositoryFails
  <2>1. room' = room
    BY <1>4 DEF RepositoryStep, Joined, Resolved, HostResolved, Forgotten, RepositoryFails
  <2> QED BY <2>1, RosterOfStatuses, RosterStutters DEF SameRoster
<1>5. ASSUME NEW w \in Socket,
             \/ \E kind \in Kind : Connect(w, kind)
             \/ AuthTimeout(w) \/ Violate(w) \/ PeerCloses(w) \/ Heartbeat(w)
             \/ Ask(w)
      PROVE  [Membership!Next]_(Membership!vars)
  <2>1. room' = room
    BY <1>5 DEF Connect, AuthTimeout, Violate, PeerCloses, Heartbeat, HandleClose, Ask, AskJoin,
                AskHost, AskLeave, AskEvent, AskReconnect
  <2> QED BY <2>1, RosterOfStatuses, RosterStutters DEF SameRoster
<1>6. ASSUME NEW kind, NEW there, HostChange(kind, there)
      PROVE  [Membership!Next]_(Membership!vars)
  BY <1>1, <1>6, RosterOfStatuses, RosterStutters DEF SameRoster
<1> QED BY <1>2, <1>3, <1>4, <1>5, <1>6

\* What the gateway sees of the room, whatever the order joins, leaves, closes and
\* reconnects reach the actor in, is an execution of the roster.
THEOREM RosterKept == Spec => ImplementsRoster
<1>1. Init => Membership!Init
  <2> HAVE Init
  <2>1. \A p \in Player : room.status[p] = "none"
    BY DEF Init
  <2>2. room.lobby = TRUE
    BY DEF Init
  <2> QED BY <2>1, <2>2 DEF Membership!Init, InRoster
<1>2. BaseInv /\ [Next]_vars => [Membership!Next]_(Membership!vars)
  <2> SUFFICES ASSUME BaseInv, [Next]_vars PROVE [Membership!Next]_(Membership!vars)
    OBVIOUS
  <2>1. room \in RoomRecord
    BY DEF BaseInv, TypeOK
  <2> QED BY <2>1, RosterJoins, RosterLeaves, RosterMoves, RosterOpens, RosterRests
          DEF Next, ActorStep
<1>3. Inv => BaseInv
  BY DEF Inv
<1> QED BY <1>1, <1>2, <1>3, Invariance, PTL DEF Spec, ImplementsRoster, Membership!Spec
=============================================================================
