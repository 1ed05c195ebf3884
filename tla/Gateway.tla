------------------------------- MODULE Gateway -------------------------------
(***************************************************************************)
(* The WebSocket gateway of one room (gateway/gateway-server.ts) with its  *)
(* registry of authenticated sockets (gateway/connection-registry.ts).     *)
(* A message handler runs until its first await; what follows an await on  *)
(* the room's actor or on the session repository is a later step, and      *)
(* between the two the socket may close, be replaced, or send more.        *)
(*                                                                         *)
(* Of the room the gateway's promises tell apart who is in it, who is      *)
(* shown as connected, whether a match is on, and which role assignment    *)
(* (deal) a player's role comes from.                                      *)
(***************************************************************************)
EXTENDS Naturals, Sequences, FiniteSets

CONSTANTS
    Socket,      \* connections; one that is over and forgotten may be used for the next
    Player,      \* players that may join, each with one session token
    NoSocket,    \* an empty slot of the registry
    NoPlayer,    \* a socket without an identity
    MaxDeals,    \* bound: matches started
    MaxBusy,     \* bound: handlers waiting for the actor or the session repository
    MaxFaults    \* bound: failing store calls

ASSUME GatewayAssumption ==
    /\ NoSocket \notin Socket /\ NoPlayer \notin Player
    /\ MaxDeals \in Nat /\ MaxBusy \in Nat /\ MaxFaults \in Nat

VARIABLES
    sock,      \* per connection, its state and its SocketMeta
    host,      \* registry: the room's host socket
    players,   \* registry: per player, the socket bound to it
    room,      \* the room as the actor holds it
    sessions,  \* players whose session token the repository knows
    queue,     \* the actor's queue
    pending,   \* handlers awaiting the session repository
    told,      \* history: the private information last sent on each socket
    faults,    \* history: store calls that failed
    late       \* history: players whose socket, if any, the gateway does not watch

registry == <<host, players>>
vars == <<sock, host, players, room, sessions, queue, pending, told, faults, late>>

Kind == {"host", "player"}

\* ws.readyState and the SocketMeta made in handleConnection.
Fresh(kind, conn) ==
    [conn |-> conn, kind |-> kind, authed |-> FALSE, player |-> NoPlayer, private |-> FALSE,
     replaced |-> FALSE, current |-> FALSE, unseen |-> {}]

\* No connection yet, or no more.
Absent == Fresh("player", "none")

Untold == [player |-> NoPlayer, deal |-> 0]

\* The sockets map has an entry from the connection to its close event.
Known(w) == sock[w].conn # "none"

\* ws.close(): the close event follows when the peer has answered.
CloseIn(s, w) == [s EXCEPT ![w].conn = IF @ = "open" THEN "closing" ELSE @]

InRoster(p) == room.status[p] \in {"connected", "disconnected"}

Op(kind, w, p) == [kind |-> kind, ws |-> w, player |-> p]

-----------------------------------------------------------------------------
(* Broadcasting; s is the sockets, h and pl the registry, r the room.  Two histories
   say what a socket has been shown: its view is current from a broadcast to the next
   change of the room that is to be shown, and unseen are the players who have joined
   over HTTP since then. *)

\* The players a broadcast builds a view for: buildPlayerView throws for the others.
Addressees(pl, r, w) ==
    {p \in Player : pl[p] = w /\ r.status[p] \in {"connected", "disconnected"}}

\* A socket bound to two players is served for the one that joined first.
FirstAddressee(s, pl, r, w) ==
    LET ps == Addressees(pl, r, w)
    IN  IF ps \ {s[w].player} # {} THEN CHOOSE p \in ps : p # s[w].player ELSE s[w].player

\* Mutant of OwesPrivate: a player without a role counts as informed too.
OwesPrivateEarly(s, pl, r, w) ==
    /\ s[w].conn # "none" /\ ~s[w].private
    /\ Addressees(pl, r, w) # {}

\* privateInfoSent: the private information goes out once, when there is a role.
OwesPrivate(s, pl, r, w) ==
    /\ s[w].conn # "none" /\ ~s[w].private
    /\ Addressees(pl, r, w) # {}
    /\ r.roles[FirstAddressee(s, pl, r, w)] > 0

\* Registered, open, and with a view to be built for it.
IsShown(s, h, pl, r, w) == s[w].conn = "open" /\ (w = h \/ Addressees(pl, r, w) # {})

\* broadcastRoom: every registered socket gets the room's current view.
SocketsAfterBroadcast(s, h, pl, r) ==
    [w \in Socket |->
        [s[w] EXCEPT
            !.current = @ \/ IsShown(s, h, pl, r, w),
            !.unseen = IF IsShown(s, h, pl, r, w) THEN {} ELSE @,
            !.private = @ \/ OwesPrivate(s, pl, r, w)]]

ToldAfterBroadcast(s, h, pl, r) ==
    [w \in Socket |->
        IF OwesPrivate(s, pl, r, w) /\ s[w].conn = "open"
        THEN LET p == FirstAddressee(s, pl, r, w) IN [player |-> p, deal |-> r.roles[p]]
        ELSE told[w]]

\* What was shown before a change of the room is no longer current.
Stale(s) == [w \in Socket |-> [s[w] EXCEPT !.current = FALSE, !.unseen = {}]]

Broadcast(s, h, pl, r) ==
    /\ sock' = SocketsAfterBroadcast(s, h, pl, r)
    /\ told' = ToldAfterBroadcast(s, h, pl, r)

-----------------------------------------------------------------------------
Init ==
    /\ sock = [w \in Socket |-> Absent]
    /\ host = NoSocket /\ players = [p \in Player |-> NoSocket]
    /\ room = [there |-> TRUE, lobby |-> TRUE, deal |-> 0, host |-> FALSE,
               status |-> [p \in Player |-> "none"], roles |-> [p \in Player |-> 0]]
    /\ sessions = {} /\ queue = <<>> /\ pending = {}
    /\ told = [w \in Socket |-> Untold]
    /\ faults = 0 /\ late = {}

\* Bound: after a failed store call nothing new begins.
Room == Len(queue) + Cardinality(pending) < MaxBusy /\ faults = 0

Enqueue(op) == queue' = Append(queue, op)

Fault == faults < MaxFaults /\ faults' = faults + 1

-----------------------------------------------------------------------------
(* Connections *)

\* Nothing refers to an earlier connection of this name.
Unused(w) ==
    /\ ~Known(w) /\ host # w
    /\ \A p \in Player : players[p] # w
    /\ \A op \in pending : op.ws # w
    /\ \A i \in 1 .. Len(queue) : queue[i].ws # w

\* verifyClient and handleConnection: the room code must resolve.
Connect(w, kind) ==
    /\ Unused(w) /\ room.there /\ faults = 0
    /\ sock' = [sock EXCEPT ![w] = Fresh(kind, "open")]
    /\ UNCHANGED <<registry, room, sessions, queue, pending, told, faults, late>>

\* The ten seconds of authTimeoutMs are over: 4001.
AuthTimeout(w) ==
    /\ sock[w].conn = "open" /\ ~sock[w].authed
    /\ sock' = CloseIn(sock, w)
    /\ UNCHANGED <<registry, room, sessions, queue, pending, told, faults, late>>

\* A binary, oversized, too frequent or malformed message, the last of maxViolations:
\* 4002.  Those before it are only counted.
Violate(w) ==
    /\ sock[w].conn = "open"
    /\ sock' = CloseIn(sock, w)
    /\ UNCHANGED <<registry, room, sessions, queue, pending, told, faults, late>>

\* The registry without w, as removeHost and removePlayer leave it.
HostWithout(w) == IF host = w THEN NoSocket ELSE host
PlayersWithout(w, p) == IF players[p] = w THEN [players EXCEPT ![p] = NoSocket] ELSE players

\* Mutant of HandleClose: a socket the server closes itself is no disconnect.
HandleCloseOwn(w) ==
    LET m == sock[w]
    IN  /\ sock' = [sock EXCEPT ![w] = Absent] /\ told' = [told EXCEPT ![w] = Untold]
        /\ host' = IF m.kind = "host" THEN HostWithout(w) ELSE host
        /\ players' = IF m.player = NoPlayer THEN players ELSE PlayersWithout(w, m.player)
        /\ queue' = IF m.conn = "closing" \/ m.replaced \/ ~m.authed THEN queue
                    ELSE Append(queue, Op(IF m.kind = "host" THEN "hostGone" ELSE "gone",
                                          w, m.player))
        /\ UNCHANGED <<room, sessions, pending, faults, late>>

\* Mutant of HandleClose: a replaced socket is a disconnect like any other.
HandleCloseReplaced(w) ==
    LET m == sock[w]
    IN  /\ sock' = [sock EXCEPT ![w] = Absent]
        /\ told' = [told EXCEPT ![w] = Untold]
        /\ host' = IF m.kind # "host" THEN host ELSE HostWithout(w)
        /\ players' = IF m.kind = "host" \/ m.player = NoPlayer THEN players
                      ELSE PlayersWithout(w, m.player)
        /\ queue' = IF ~m.authed THEN queue
                    ELSE Append(queue, Op(IF m.kind = "host" THEN "hostGone" ELSE "gone",
                                          w, m.player))
        /\ UNCHANGED <<room, sessions, pending, faults, late>>

\* handleClose, for a close from either side or a terminate().
HandleClose(w) ==
    LET m == sock[w]
    IN  /\ sock' = [sock EXCEPT ![w] = Absent]
        /\ told' = [told EXCEPT ![w] = Untold]
        /\ host' = IF m.replaced \/ m.kind # "host" THEN host ELSE HostWithout(w)
        /\ players' = IF m.replaced \/ m.kind = "host" \/ m.player = NoPlayer THEN players
                      ELSE PlayersWithout(w, m.player)
        /\ queue' = IF m.replaced \/ ~m.authed \/ (m.kind = "player" /\ m.player = NoPlayer)
                    THEN queue
                    ELSE Append(queue, Op(IF m.kind = "host" THEN "hostGone" ELSE "gone",
                                          w, m.player))
        /\ UNCHANGED <<room, sessions, pending, faults, late>>

\* The peer closes or answers the server's close, or the connection is lost.
PeerCloses(w) == Known(w) /\ HandleClose(w)

\* The heartbeat reaches a socket that did not answer the last ping.
Heartbeat(w) == Known(w) /\ HandleClose(w)

-----------------------------------------------------------------------------
(* Messages: what a handler does before its first await.  A socket the server is
   closing still delivers what the peer had sent. *)

Reads(w, kind) == Known(w) /\ sock[w].kind = kind /\ Room

\* handlePlayerJoin: unless the socket is authenticated, the actor is asked.
AskJoin(w) ==
    /\ Reads(w, "player") /\ ~sock[w].authed
    /\ Enqueue(Op("join", w, NoPlayer))
    /\ UNCHANGED <<sock, registry, room, sessions, pending, told, faults, late>>

\* handlePlayerReconnect with the token of p, handed out before.
AskReconnect(w, p) ==
    /\ Reads(w, "player") /\ ~sock[w].authed
    /\ room.status[p] # "none"
    /\ Op("resolve", w, p) \notin pending
    /\ pending' = pending \cup {Op("resolve", w, p)}
    /\ UNCHANGED <<sock, registry, room, sessions, queue, told, faults, late>>

\* handleHostReconnect with the host's token.
AskHost(w) ==
    /\ Reads(w, "host") /\ ~sock[w].authed
    /\ Op("resolveHost", w, NoPlayer) \notin pending
    /\ pending' = pending \cup {Op("resolveHost", w, NoPlayer)}
    /\ UNCHANGED <<sock, registry, room, sessions, queue, told, faults, late>>

\* handlePlayerLeave
AskLeave(w) ==
    /\ Reads(w, "player") /\ sock[w].authed /\ sock[w].player # NoPlayer
    /\ Enqueue(Op("leave", w, sock[w].player))
    /\ UNCHANGED <<sock, registry, room, sessions, pending, told, faults, late>>

\* routeMessage and dispatchFsmEvent: only an authenticated socket's events reach the
\* room, under the socket's own identity.
AskEvent(w) ==
    /\ Reads(w, sock[w].kind) /\ sock[w].authed
    /\ Enqueue(Op("event", w, sock[w].player))
    /\ UNCHANGED <<sock, registry, room, sessions, pending, told, faults, late>>

\* Over HTTP a player joins and gets a session without a socket.  Nothing is broadcast:
\* whoever was shown the room before does not see the new player.
HttpJoin(p) ==
    /\ room.there /\ room.lobby /\ room.status[p] = "none" /\ Room
    /\ room' = [room EXCEPT !.status[p] = "connected"]
    /\ sessions' = sessions \cup {p}
    /\ sock' = [w \in Socket |->
                   IF sock[w].current THEN [sock[w] EXCEPT !.unseen = @ \cup {p}] ELSE sock[w]]
    /\ late' = late \cup {p}
    /\ UNCHANGED <<registry, queue, pending, told, faults>>

-----------------------------------------------------------------------------
(* After an await on the session repository *)

\* Mutant of Replace: the old socket is left open.
ReplaceQuietly(s, previous, w) ==
    IF previous \in {NoSocket, w} \/ ~Known(previous) THEN s ELSE [s EXCEPT ![previous].replaced = TRUE]

\* closeReplacedSocket
Replace(s, previous, w) ==
    IF previous \in {NoSocket, w} \/ ~Known(previous) THEN s
    ELSE CloseIn([s EXCEPT ![previous].replaced = TRUE], previous)

\* markAuthenticated, with the identity the handler then writes; the meta of a socket
\* that has closed is out of reach of everything but this handler.
Identify(s, w, p) ==
    IF Known(w) THEN [s EXCEPT ![w].authed = TRUE, ![w].private = FALSE, ![w].player = p] ELSE s

\* The registration may come too late: the socket has closed, was replaced, or became
\* someone else, or is still in another's slot; then its close will not be taken for the
\* player's, or not for the other's.
TooLate(w, p) ==
    \/ ~Known(w) \/ sock[w].replaced
    \/ sock[w].authed /\ sock[w].player # p
    \/ \E q \in Player \ {p} : players[q] = w

BindPlayer(w, p) ==
    /\ players' = [players EXCEPT ![p] = w]
    /\ late' = CASE TooLate(w, p) -> late \cup ({p, sock[w].player} \ {NoPlayer})
                 [] OTHER -> late \ {p}
    /\ UNCHANGED host

\* Mutant of Joined: the others are not shown the new player.
JoinedUnseen(op) ==
    LET w == op.ws
        p == op.player
    IN  /\ op \in pending /\ op.kind = "session"
        /\ pending' = pending \ {op}
        /\ sessions' = sessions \cup {p}
        /\ BindPlayer(w, p)
        /\ sock' = Replace(Identify(sock, w, p), players[p], w)
        /\ UNCHANGED <<room, queue, told, faults>>

\* handlePlayerJoin: the session is stored, the socket is bound and told, and everybody
\* sees the new player.
Joined(op) ==
    LET w == op.ws
        p == op.player
    IN  /\ op \in pending /\ op.kind = "session"
        /\ pending' = pending \ {op}
        /\ sessions' = sessions \cup {p}
        /\ BindPlayer(w, p)
        /\ Broadcast(Replace(Identify(sock, w, p), players[p], w), host, players', room)
        /\ UNCHANGED <<room, queue, faults>>

\* handlePlayerReconnect: an unknown session is an error; a known one takes its player
\* over from whatever socket had it, and the room is told.
Resolved(op) ==
    LET w == op.ws
        p == op.player
    IN  /\ op \in pending /\ op.kind = "resolve"
        /\ pending' = pending \ {op}
        /\ IF p \in sessions
           THEN /\ BindPlayer(w, p)
                /\ sock' = Replace(Identify(sock, w, p), players[p], w)
                /\ Enqueue(Op("reconnected", w, p))
           ELSE UNCHANGED <<sock, registry, queue, late>>
        /\ UNCHANGED <<room, sessions, told, faults>>

\* handleHostReconnect
HostResolved(op) ==
    LET w == op.ws
    IN  /\ op \in pending /\ op.kind = "resolveHost"
        /\ pending' = pending \ {op}
        /\ IF room.there
           THEN /\ host' = w
                /\ sock' = Replace(Identify(sock, w, NoPlayer), host, w)
                /\ Enqueue(Op("hostReconnected", w, NoPlayer))
           ELSE UNCHANGED <<host, sock, queue>>
        /\ UNCHANGED <<players, room, sessions, told, faults, late>>

\* handlePlayerLeave: the session is deleted, the slot emptied, the socket closed.
Forgotten(op) ==
    LET w == op.ws
        p == op.player
    IN  /\ op \in pending /\ op.kind = "forget"
        /\ pending' = pending \ {op}
        /\ sessions' = sessions \ {p}
        /\ players' = PlayersWithout(w, p)
        /\ Broadcast(CloseIn(sock, w), host, players', room)
        /\ UNCHANGED <<host, room, queue, faults, late>>

\* These four awaits are outside any try: the rejection is nobody's, and the process
\* ends.  Another one starts with an empty registry; the room is as it was stored.
RepositoryFails ==
    /\ pending # {} /\ Fault
    /\ sock' = [w \in Socket |-> Absent]
    /\ told' = [w \in Socket |-> Untold]
    /\ host' = NoSocket /\ players' = [p \in Player |-> NoSocket]
    /\ queue' = <<>> /\ pending' = {}
    /\ late' = late \cup {p \in Player : room.status[p] = "connected"}
    /\ UNCHANGED <<room, sessions>>

-----------------------------------------------------------------------------
(* The actor takes the next operation; its handler goes on to its next await *)

Take(kind) == queue # <<>> /\ Head(queue).kind = kind /\ queue' = Tail(queue)

Ours == UNCHANGED <<registry, sessions, faults, late>>

\* The new state of the room is stored and shown.
Show(r) == room' = r /\ Broadcast(Stale(sock), host, players, r)

\* joinPlayer accepts in a lobby with a free seat.
JoinAccepted(p) ==
    /\ room.there /\ Take("join")
    /\ room.lobby /\ room.status[p] = "none"
    /\ room' = [room EXCEPT !.status[p] = "connected"]
    /\ sock' = Stale(sock)
    /\ pending' = pending \cup {Op("session", Head(queue).ws, p)}
    /\ UNCHANGED told /\ Ours

\* leavePlayer accepts in a lobby, for whoever asks.
LeaveAccepted ==
    LET p == Head(queue).player
    IN  /\ room.there /\ Take("leave")
        /\ room.lobby
        /\ Op("forget", Head(queue).ws, p) \notin pending
        /\ room' = [room EXCEPT !.status[p] = "left", !.roles[p] = 0]
        /\ sock' = Stale(sock)
        /\ pending' = pending \cup {Op("forget", Head(queue).ws, p)}
        /\ UNCHANGED told /\ Ours

\* An event the room rejects, and a join or leave in the wrong phase, is answered with
\* an error and shows nobody anything.
Rejected ==
    /\ room.there
    /\ \/ Take("event")
       \/ Take("join") /\ (~room.lobby \/ \A p \in Player : room.status[p] # "none")
       \/ Take("leave") /\ ~room.lobby
    /\ UNCHANGED <<sock, room, pending, told>> /\ Ours

\* An event the room accepts, of a player or the host.
Accepted ==
    /\ room.there /\ Take("event")
    /\ Show(room)
    /\ UNCHANGED pending /\ Ours

\* host:startGame, in the lobby or for a rematch: roles are dealt to the whole roster.
\* Only a host's socket sends it, and only a host's events are of no player.
Dealt ==
    /\ room.there /\ Take("event") /\ Head(queue).player = NoPlayer
    /\ room.lobby /\ room.deal < MaxDeals
    /\ Show([room EXCEPT !.lobby = FALSE, !.deal = @ + 1,
                         !.roles = [p \in Player |-> IF InRoster(p) THEN room.deal + 1 ELSE 0]])
    /\ UNCHANGED pending /\ Ours

\* Mutant of StatusChange: whoever has ever been in the room is given a status.
StatusOfAnyone(kind, status) ==
    LET p == Head(queue).player
    IN  /\ room.there /\ Take(kind)
        /\ Show([room EXCEPT !.status[p] = status])
        /\ UNCHANGED pending /\ Ours

\* player:reconnected and player:disconnected, with whatever the roster makes of them.
StatusChange(kind, status) ==
    LET p == Head(queue).player
    IN  /\ room.there /\ Take(kind)
        /\ Show(IF InRoster(p) THEN [room EXCEPT !.status[p] = status] ELSE room)
        /\ UNCHANGED pending /\ Ours

HostChange(kind, there) ==
    /\ room.there /\ Take(kind)
    /\ Show([room EXCEPT !.host = there])
    /\ UNCHANGED pending /\ Ours

\* The actor cannot store the result: an error to the sender, none for a system event.
ActorFails ==
    /\ room.there /\ queue # <<>> /\ queue' = Tail(queue)
    /\ Fault
    /\ UNCHANGED <<sock, registry, room, sessions, pending, told, late>>

\* evictRoomConnections: every registered socket is told and closed.
Evict(s) ==
    [w \in Socket |-> IF w = host \/ \E p \in Player : players[p] = w
                      THEN CloseIn(s, w)[w] ELSE s[w]]

\* The room is gone: ROOM_NOT_FOUND to whoever asked.
RoomMissing ==
    /\ ~room.there /\ queue # <<>> /\ queue' = Tail(queue)
    /\ sock' = IF Head(queue).kind \in {"gone", "hostGone"} THEN sock ELSE Evict(sock)
    /\ UNCHANGED <<registry, room, sessions, pending, told, faults, late>>

\* A timer service's event: setOnRoomMutated calls broadcastRoom.  A match ends in the
\* rematch lobby.
TimerShows ==
    /\ room.there /\ queue = <<>>
    /\ ~room.lobby
    /\ Show([room EXCEPT !.lobby = TRUE])
    /\ UNCHANGED <<queue, pending>> /\ Ours

\* The room's keys expire while nothing is under way.
RoomExpires ==
    /\ room.there /\ queue = <<>> /\ pending = {}
    /\ room' = [room EXCEPT !.there = FALSE]
    /\ sessions' = {}
    /\ UNCHANGED <<sock, registry, queue, pending, told, faults, late>>

-----------------------------------------------------------------------------
ActorStep ==
    \/ \E p \in Player : JoinAccepted(p)
    \/ LeaveAccepted \/ Rejected \/ Accepted \/ Dealt
    \/ StatusChange("reconnected", "connected") \/ StatusChange("gone", "disconnected")
    \/ HostChange("hostReconnected", TRUE) \/ HostChange("hostGone", FALSE)
    \/ RoomMissing

RepositoryStep ==
    \E op \in pending : Joined(op) \/ Resolved(op) \/ HostResolved(op) \/ Forgotten(op)

Ask(w) ==
    \/ AskJoin(w) \/ AskHost(w) \/ AskLeave(w) \/ AskEvent(w)
    \/ \E p \in Player : AskReconnect(w, p)

Next ==
    \/ \E w \in Socket :
          \/ \E kind \in Kind : Connect(w, kind)
          \/ AuthTimeout(w) \/ Violate(w) \/ PeerCloses(w) \/ Heartbeat(w)
          \/ Ask(w)
    \/ \E p \in Player : HttpJoin(p)
    \/ ActorStep \/ RepositoryStep
    \/ ActorFails \/ RepositoryFails
    \/ TimerShows \/ RoomExpires

Spec == Init /\ [][Next]_vars

-----------------------------------------------------------------------------
(* Properties *)

Membership ==
    INSTANCE Roster
        WITH gathering <- room.lobby, members <- {p \in Player : InRoster(p)},
             present <- {p \in Player : room.status[p] = "connected"}

\* Whatever order joins, leaves, reconnects and closes reach the actor in, the room changes
\* as the roster of a room does: a close or a reconnect that is late changes nothing for a
\* player who has left, and during a match nobody joins or leaves.
ImplementsRoster == Membership!Spec

\* An open authenticated socket is the one the registry has for its identity: a newer
\* one closes it, and no close or leave of an older one takes the slot from it.
SocketsOwnTheirSlot ==
    \A w \in Socket : sock[w].conn = "open" /\ sock[w].authed =>
        IF sock[w].kind = "host" THEN host = w ELSE players[sock[w].player] = w

\* A disconnect is never the last word on a player who is back: while the socket bound
\* to a player is open, every disconnect of the player in the queue is followed by the
\* reconnect.
DisconnectIsNeverLast ==
    \A p \in Player : \A i \in 1 .. Len(queue) :
        (queue[i] = Op("gone", queue[i].ws, p) /\ players[p] # NoSocket /\ sock[players[p]].conn = "open")
        => \E j \in i + 1 .. Len(queue) : queue[j].kind = "reconnected" /\ queue[j].player = p

Quiet == queue = <<>> /\ pending = {} /\ room.there /\ faults = 0

\* When nothing is under way and no store call failed, a player shown as connected has
\* a socket the gateway watches.  (The players in late have none: who joined over HTTP
\* only, whose socket closed while its join or reconnect was awaited, or shares its
\* socket with another.)
ConnectedIsWatched ==
    Quiet => \A p \in Player \ late :
        room.status[p] = "connected" =>
            /\ players[p] # NoSocket
            /\ Known(players[p]) /\ ~sock[players[p]].replaced /\ sock[players[p]].player = p

\* The socket of a player who is in the room.
Seated(w) ==
    /\ sock[w].conn = "open" /\ sock[w].authed
    /\ sock[w].kind = "player" => InRoster(sock[w].player)

\* When nothing is under way and no store call failed, every open authenticated socket
\* has been sent a view since the room last changed by a socket or a timer.  The change
\* over HTTP is exempt, as nobody is shown it (http-api-server.ts:318-348), but only
\* until the player who joined has a socket: the views lack no player who is on the line.
ViewsAreCurrent ==
    Quiet => \A w \in Socket : Seated(w) =>
        sock[w].current /\ \A p \in sock[w].unseen : players[p] = NoSocket

\* By then a player who has been dealt a role and has a socket of its own has been told
\* a role on it.
RoleIsTold ==
    Quiet => \A p \in Player \ late : \A w \in Socket :
        (players[p] = w /\ Seated(w) /\ room.roles[p] > 0) => told[w].player = p /\ told[w].deal > 0

\* "sent once at ROLE_REVEAL and again only on reconnect" (ARCHITECTURE.md:481): the
\* role a player was told is the role dealt in the present match.
ToldRoleIsCurrent ==
    Quiet => \A p \in Player \ late : \A w \in Socket :
        (players[p] = w /\ Seated(w) /\ room.roles[p] > 0) => told[w].deal = room.roles[p]
=============================================================================
