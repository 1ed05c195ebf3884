------------------------------ MODULE WebClient ------------------------------
(***************************************************************************)
(* The browser side of the program: the pages on which an account holder   *)
(* logs in and makes a room (web app/games, components/auth, app/tv) and a  *)
(* guest joins it (components/join-room-form.tsx), the two hooks that own   *)
(* a connection (lib/realtime/use*Realtime.ts), the session storage and     *)
(* the HTTP client (lib/api/client.ts), over the HTTP API.  The WebSocket   *)
(* gateway is here only what a browser sees of it: see Gateway.             *)
(***************************************************************************)
EXTENDS HttpApi, RealtimeSocket

CONSTANTS
    HostTab, PlayerTab,
    MaxMounts,    \* bound: times the join form is opened
    MaxOpen,      \* bound: tabs in use at a time
    MaxVersions,  \* bound: changes of the room that are broadcast
    MaxInbox      \* bound: events waiting for one socket's listeners

ASSUME WebClientAssumption ==
    /\ Tab = HostTab \cup PlayerTab /\ HostTab \cap PlayerTab = {}
    /\ MaxPlayers \in Nat /\ MaxVersions \in Nat /\ MaxInbox \in Nat
    /\ 0 \notin Call   \* no call is waited for

VARIABLES
    tab,      \* per tab, its page, hooks, cookie and storage
    rt,       \* per tab, the RealtimeSocket object and the browser's WebSockets
    version   \* history: how often the room's views have changed

serverVars == <<accountVars, httpVars>>
vars == <<serverVars, tab, rt, version>>

\* The seat of hostSessionToken.
HostSeat == MaxPlayers + 1

NewTab == [page |-> "away", waiting |-> 0, mount |-> 0, cookie |-> 0, stored |-> 0,
           session |-> 0, view |-> 0, pending |-> FALSE]

Init ==
    /\ AccountsInit /\ HttpInit
    /\ tab = [t \in Tab |-> NewTab]
    /\ rt = [t \in Tab |-> Idle]
    /\ version = 1

-----------------------------------------------------------------------------
\* apiRequest: `waiting` is the call whose promise the page awaits.

FreeCall == {c \in Call : calls[c] = Over}
NewCall == CHOOSE c \in FreeCall : TRUE

Ask(t, c, request, page) ==
    /\ calls' = [calls EXCEPT ![c] = request]
    /\ tab' = [tab EXCEPT ![t].page = page, ![t].waiting = c]

\* credentials: 'include'
WithCookie(t, kind) == [Request(kind, t) EXCEPT !.token = tab[t].cookie]

\* Where a page is when what it asked for was refused, or not answered in time.
\* The ownership query has no handler for that: the page shows that it is
\* checking, and nothing is (games/page.tsx:41-43).
AfterFailure ==
    [loading |-> "out", owned |-> "stuck", login |-> "login", leaving |-> "out",
     creating |-> "owner", calling |-> "not owner", opening |-> "no room", checking |-> "unavailable",
     submitting |-> "ready"]

Failed(t) == [tab EXCEPT ![t].page = AfterFailure[@], ![t].waiting = 0]

\* The answer nobody waits for any more, or a refusal.
ReceiveNothing(c) ==
    LET t == calls[c].tab
    IN  /\ calls[c].stage = "answered"
        /\ calls' = [calls EXCEPT ![c] = Over]
        /\ \/ tab[t].waiting # c /\ UNCHANGED tab
           \/ /\ tab[t].waiting = c /\ calls[c].status # "ok"
              /\ ~(calls[c].kind = "owned" /\ calls[c].status = "none")
              /\ ~(calls[c].kind = "availability" /\ t \in HostTab /\ calls[c].status # "ROOM_NOT_FOUND")
              /\ tab' = Failed(t)
        /\ UNCHANGED <<accountVars, roomVars, cacheVars, lapsed, trouble, rt, version>>

\* The timeout's abort, or a connection that breaks: the server may have the
\* request all the same, and go on with it.
GiveUp(t) ==
    /\ tab[t].waiting # 0
    /\ Troubled
    /\ \/ UNCHANGED calls
       \/ calls[tab[t].waiting].stage = "sent" /\ calls' = [calls EXCEPT ![tab[t].waiting] = Over]
    /\ tab' = Failed(t)
    /\ UNCHANGED <<accountVars, roomVars, cacheVars, lapsed, rt, version>>

\* The answer the page waits for, and a good one.
Receives(t, c, kind) ==
    /\ calls[c].stage = "answered" /\ calls[c].tab = t /\ calls[c].kind = kind
    /\ tab[t].waiting = c

onlyHttp == <<accountVars, roomVars, cacheVars, lapsed, trouble>>

-----------------------------------------------------------------------------
\* The account holder's pages.

\* A tab may be opened.  One that was left is in use until nothing of it is
\* in flight any more.
InUse(t) ==
    \/ tab[t].page # "away"
    \/ \E c \in Call : calls[c].tab = t
    \/ rt[t] # Idle
MayOpen(t) ==
    /\ tab[t].page = "away"
    /\ Cardinality({o \in Tab \ {t} : InUse(o)}) < MaxOpen

\* useCurrentUser on mount.
OpenGames(t) ==
    /\ MayOpen(t) \/ (tab[t].page = "login" /\ tab[t].waiting = 0)
    /\ FreeCall # {}
    /\ Ask(t, NewCall, WithCookie(t, "me"), "loading")
    /\ UNCHANGED <<onlyHttp, rt, version>>

GotMe(t, c) ==
    /\ Receives(t, c, "me") /\ calls[c].status = "ok"
    /\ Ask(t, c, WithCookie(t, "owned"), "owned")
    /\ UNCHANGED <<onlyHttp, rt, version>>

GotOwned(t, c) ==
    /\ Receives(t, c, "owned") /\ calls[c].status \in {"ok", "none"}
    /\ calls' = [calls EXCEPT ![c] = Over]
    /\ tab' = [tab EXCEPT ![t].waiting = 0,
                          ![t].page = IF calls[c].status = "ok" THEN "owner" ELSE "not owner"]
    /\ UNCHANGED <<onlyHttp, rt, version>>

\* LoginForm and RegisterForm.
SubmitAccount(t, kind, u) ==
    /\ tab[t].page \in {"out", "login"} /\ tab[t].waiting = 0
    /\ FreeCall # {}
    /\ Ask(t, NewCall, [Request(kind, t) EXCEPT !.user = u], "login")
    /\ UNCHANGED <<onlyHttp, rt, version>>

\* Set-Cookie, and on to the games page.
GotAccount(t, c) ==
    /\ \E kind \in {"login", "register"} : Receives(t, c, kind)
    /\ calls[c].status = "ok"
    /\ calls' = [calls EXCEPT ![c] = [Request("me", t) EXCEPT !.token = calls[c].token]]
    /\ tab' = [tab EXCEPT ![t].cookie = calls[c].token, ![t].page = "loading"]
    /\ UNCHANGED <<onlyHttp, rt, version>>

LogOut(t) ==
    /\ tab[t].page \in {"owner", "not owner"}
    /\ FreeCall # {}
    /\ Ask(t, NewCall, WithCookie(t, "logout"), "leaving")
    /\ UNCHANGED <<onlyHttp, rt, version>>

GotLogout(t, c) ==
    /\ Receives(t, c, "logout")
    /\ calls' = [calls EXCEPT ![c] = Over]
    /\ tab' = [tab EXCEPT ![t].cookie = 0, ![t].page = "out", ![t].waiting = 0]
    /\ UNCHANGED <<onlyHttp, rt, version>>

\* handleCreateRoom of the games page.  Only owners are shown the button, but
\* the page is not what stops the others: they may call without it.
AskForRoom(t) ==
    /\ tab[t].page \in {"owner", "not owner"} /\ room.host = NoUser
    /\ FreeCall # {}
    /\ Ask(t, NewCall, WithCookie(t, "create"),
           IF tab[t].page = "owner" THEN "creating" ELSE "calling")
    /\ UNCHANGED <<onlyHttp, rt, version>>

\* saveHostSession, and on to the TV page, which asks whether the room is there.
GotRoom(t, c) ==
    /\ Receives(t, c, "create") /\ calls[c].status = "ok"
    /\ calls' = [calls EXCEPT ![c] = Request("availability", t)]
    /\ tab' = [tab EXCEPT ![t].stored = HostSeat, ![t].page = "opening"]
    /\ UNCHANGED <<onlyHttp, rt, version>>

\* useHostRealtime and usePlayerRealtime on mount.
Live(t, stored) ==
    /\ tab' = [tab EXCEPT ![t].stored = stored, ![t].session = stored, ![t].page = "live",
                          ![t].waiting = 0, ![t].view = 0, ![t].pending = FALSE]
    /\ rt' = [rt EXCEPT ![t] = Connect(@)]

GotTv(t, c) ==
    /\ t \in HostTab
    /\ Receives(t, c, "availability") /\ calls[c].status # "ROOM_NOT_FOUND"
    /\ Unused(rt[t]) # {}
    /\ calls' = [calls EXCEPT ![c] = Over]
    /\ Live(t, tab[t].stored)
    /\ UNCHANGED <<onlyHttp, version>>

HostPage(t) ==
    \/ OpenGames(t) \/ LogOut(t) \/ AskForRoom(t)
    \/ \E u \in User, kind \in {"login", "register"} : SubmitAccount(t, kind, u)
    \/ \E c \in Call : \/ GotMe(t, c) \/ GotOwned(t, c) \/ GotAccount(t, c) \/ GotLogout(t, c)
                       \/ GotRoom(t, c) \/ GotTv(t, c)

-----------------------------------------------------------------------------
\* The guest's page, JoinRoomForm.

\* On mount: a stored session goes straight to the lobby, or the room is asked
\* about.  Each mount has its own requestId.
OpenJoin(t) ==
    /\ MayOpen(t)
    /\ IF tab[t].stored # 0
       THEN /\ Unused(rt[t]) # {}
            /\ Live(t, tab[t].stored)
            /\ UNCHANGED calls
       ELSE /\ tab[t].mount < MaxMounts
            /\ FreeCall # {}
            /\ calls' = [calls EXCEPT ![NewCall] = Request("availability", t)]
            /\ tab' = [tab EXCEPT ![t].page = "checking", ![t].waiting = NewCall, ![t].mount = @ + 1]
            /\ UNCHANGED rt
    /\ UNCHANGED <<onlyHttp, version>>

GotAvailability(t, c) ==
    /\ t \in PlayerTab
    /\ Receives(t, c, "availability") /\ calls[c].status = "ok"
    /\ calls' = [calls EXCEPT ![c] = Over]
    /\ tab' = [tab EXCEPT ![t].page = "ready", ![t].waiting = 0]
    /\ UNCHANGED <<onlyHttp, rt, version>>

Rid(t) == <<t, tab[t].mount>>
InProgress(rid) ==
    {c \in Call : calls[c].kind = "join" /\ calls[c].rid = rid /\ calls[c].stage # "answered"}

\* handleSubmit: again after an error, with the same requestId.
Submit(t, name) ==
    /\ tab[t].page = "ready"
    /\ FreeCall # {}
    /\ Ask(t, NewCall, [Request("join", t) EXCEPT !.rid = Rid(t), !.name = name], "submitting")
    /\ raced' = IF InProgress(Rid(t)) = {} THEN raced ELSE raced \cup {Rid(t)}
    /\ UNCHANGED <<accountVars, roomVars, cache, lapsed, trouble, rt, version>>

\* savePlayerSession, and the lobby.
GotSeat(t, c) ==
    /\ Receives(t, c, "join") /\ calls[c].status = "ok"
    /\ Unused(rt[t]) # {}
    /\ calls' = [calls EXCEPT ![c] = Over]
    /\ Live(t, calls[c].seat)
    /\ UNCHANGED <<onlyHttp, version>>

GuestPage(t) ==
    \/ OpenJoin(t)
    \/ \E name \in Name : Submit(t, name)
    \/ \E c \in Call : GotAvailability(t, c) \/ GotSeat(t, c)

-----------------------------------------------------------------------------
\* Leaving a page: its effects are cleaned up, its storage stays.

Away(t) ==
    /\ tab' = [tab EXCEPT ![t].page = "away", ![t].waiting = 0, ![t].session = 0,
                          ![t].view = 0, ![t].pending = FALSE]
    /\ rt' = [rt EXCEPT ![t] = Close(@)]

\* Reloaded or closed in the middle of something.
Reload(t) ==
    /\ tab[t].page # "away"
    /\ Troubled
    /\ Away(t)
    /\ UNCHANGED <<accountVars, calls, roomVars, cacheVars, lapsed, version>>

\* The link a dead end offers, or a page's navigation bar.
FollowLink(t) ==
    /\ \/ tab[t].page \in {"no room", "unavailable", "stuck"}
       \/ tab[t].page = "live" /\ rt[t].state = "unauthorized"
    /\ Away(t)
    /\ UNCHANGED <<serverVars, version>>

\* The TV page, opened again with a session in storage.
OpenTv(t) ==
    /\ MayOpen(t) /\ tab[t].stored # 0
    /\ FreeCall # {}
    /\ Ask(t, NewCall, Request("availability", t), "opening")
    /\ UNCHANGED <<onlyHttp, rt, version>>

-----------------------------------------------------------------------------
\* The hooks.

\* The object's next state, and the session a lobby forgets with 'unauthorized'.
Becomes(t, c) ==
    /\ rt' = [rt EXCEPT ![t] = c]
    /\ tab' = IF c.state = "unauthorized" THEN [tab EXCEPT ![t].stored = 0] ELSE tab

\* The button is shown in these states.
RetryConnection(t) ==
    /\ rt[t].live /\ rt[t].state \in {"failed", "disconnected"}
    /\ Unused(rt[t]) # {}
    /\ Becomes(t, Retry(rt[t]))
    /\ UNCHANGED <<serverVars, version>>

\* The host's hook sends whatever the state of the connection, the player's
\* while connected; the object drops what has no open socket.
MaySend(t) ==
    /\ rt[t].live /\ tab[t].view # 0 /\ ~tab[t].pending
    /\ t \in PlayerTab => rt[t].state = "connected"

Sends(c) ==
    IF c.ws # 0 /\ c.socks[c.ws].conn = "open"
    THEN [c EXCEPT !.socks[c.ws].acts = TRUE]
    ELSE c

SendEvent(t) ==
    /\ MaySend(t)
    /\ tab' = [tab EXCEPT ![t].pending = TRUE]
    /\ rt' = [rt EXCEPT ![t] = Sends(@)]
    /\ UNCHANGED <<serverVars, version>>

\* onEnvelope: a view is the latest, an error ends the wait as well.
Shown(t, e) ==
    CASE e.type = "view" -> [tab EXCEPT ![t].view = e.v, ![t].pending = FALSE]
      [] e.type = "error" -> [tab EXCEPT ![t].pending = FALSE]
      [] e.type = "SESSION_INVALID" -> [tab EXCEPT ![t].stored = 0]
      [] OTHER -> tab

\* A lobby forgets the session in an effect, after it has been drawn as 'unauthorized';
\* when the next event of the socket comes first, it never is.
Overtaken(t, s, e) ==
    e.type = "SESSION_INVALID" /\ Tail(rt[t].socks[s].inbox) # <<>> /\ UNCHANGED tab

EventArrives(t, s) ==
    /\ rt[t].socks[s].inbox # <<>>
    /\ LET e == Head1(rt[t], s)
       IN  IF e.type # "close" /\ Listens(rt[t], s)
           THEN /\ tab' = Shown(t, e) \/ Overtaken(t, s, e)
                /\ rt' = [rt EXCEPT ![t] = Delivered(@, s)]
           ELSE Becomes(t, Delivered(rt[t], s))
    /\ UNCHANGED <<serverVars, version>>

TimerFires(t) ==
    /\ rt[t].timer /\ Unused(rt[t]) # {}
    /\ Becomes(t, TimerFired(rt[t]))
    /\ UNCHANGED <<serverVars, version>>

NetEventArrives(t) ==
    /\ rt[t].event # "none"
    /\ rt[t].event = "online" => Unused(rt[t]) # {}
    /\ Becomes(t, NetEventHandled(rt[t]))
    /\ UNCHANGED <<serverVars, version>>

NetworkChanges(t) ==
    /\ rt[t].event = "none"
    /\ \/ rt[t].online /\ Troubled
       \/ ~rt[t].online /\ UNCHANGED trouble
    /\ rt' = [rt EXCEPT ![t].online = ~@, ![t].event = IF rt[t].online THEN "offline" ELSE "online"]
    /\ UNCHANGED <<accountVars, calls, roomVars, cacheVars, lapsed, tab, version>>

Hooks(t) ==
    \/ RetryConnection(t) \/ SendEvent(t) \/ TimerFires(t) \/ NetEventArrives(t) \/ NetworkChanges(t)
    \/ \E s \in Sock : EventArrives(t, s)

-----------------------------------------------------------------------------
\* What a browser sees of the gateway and of the network.

Message(type, v) == [type |-> type, v |-> v, code |-> "none"]
CloseEvent(code) == [type |-> "close", v |-> 0, code |-> code]

Put(c, s, events) == [c EXCEPT !.socks[s].inbox = @ \o events]
ClosedBy(c, s, code) ==
    [Put(c, s, <<CloseEvent(code)>>) EXCEPT !.socks[s] =
        [@ EXCEPT !.conn = "closed", !.acts = FALSE]]

\* The gateway says why before it closes a socket.
Refused(c, s, type, code) == ClosedBy(Put(c, s, <<Message(type, 0)>>), s, code)

\* closeReplacedSocket
Replaced(c, s) == Refused(c, s, "SESSION_INVALID", "replaced")

onlyRt == <<serverVars, tab, version>>

SocketOpens(t, s) ==
    /\ rt[t].socks[s].conn = "connecting" /\ rt[t].online
    /\ rt' = [rt EXCEPT ![t] = Opened(@, s)]
    /\ UNCHANGED onlyRt

\* A connection breaks; without a network every attempt does.
SocketBreaks(t, s) ==
    /\ rt[t].socks[s].conn \in {"connecting", "open"}
    /\ \/ rt[t].online /\ Troubled
       \/ ~rt[t].online /\ UNCHANGED trouble
    /\ rt' = [rt EXCEPT ![t] = ClosedBy(@, s, "lost")]
    /\ UNCHANGED <<accountVars, calls, roomVars, cacheVars, lapsed, tab, version>>

ClosingEnds(t, s) ==
    /\ rt[t].socks[s].conn = "closing"
    /\ rt' = [rt EXCEPT ![t] = ClosedBy(@, s, "lost")]
    /\ UNCHANGED onlyRt

\* The other socket of the session is closed when one has authenticated.
Replacing(c, s) ==
    LET old == {o \in Sock \ {s} : c.socks[o].conn = "open" /\ c.socks[o].auth = "done"}
    IN  IF old = {} THEN c ELSE Replaced(c, CHOOSE o \in old : TRUE)

SessionKnown(t) == IF t \in HostTab THEN room.host # NoUser ELSE tab[t].session \in tokens

\* The first message is answered; if the room's actor fails it, with an error
\* on a socket that counts as authenticated.
Authenticates(t, s) ==
    /\ rt[t].socks[s].conn = "open" /\ rt[t].socks[s].auth = "sent"
    /\ \/ /\ SessionKnown(t)
          /\ rt' = [rt EXCEPT ![t] =
                Replacing([Put(@, s, <<Message("authenticated", 0), Message("view", version)>>)
                              EXCEPT !.socks[s].auth = "done"], s)]
          /\ UNCHANGED trouble
       \/ /\ SessionKnown(t) /\ Troubled
          /\ rt' = [rt EXCEPT ![t] =
                Replacing([Put(@, s, <<Message("error", 0)>>) EXCEPT !.socks[s].auth = "done"], s)]
       \/ /\ ~SessionKnown(t)
          /\ rt' = [rt EXCEPT ![t] = [Put(@, s, <<Message("SESSION_INVALID", 0)>>)
                                         EXCEPT !.socks[s].auth = "refused"]]
          /\ UNCHANGED trouble
    /\ UNCHANGED <<accountVars, calls, roomVars, cacheVars, lapsed, tab, version>>

\* Also when the first message was sent and is late.
AuthTimesOut(t, s) ==
    /\ rt[t].socks[s].conn = "open"
    /\ \/ rt[t].socks[s].auth \in {"none", "refused"} /\ UNCHANGED trouble
       \/ rt[t].socks[s].auth = "sent" /\ Troubled
    /\ rt' = [rt EXCEPT ![t] = Refused(@, s, "error", "auth timeout")]
    /\ UNCHANGED <<accountVars, calls, roomVars, cacheVars, lapsed, tab, version>>

\* Another tab opens the session, the room is gone, or too many violations.
GatewayCloses(t, s) ==
    /\ rt[t].socks[s].conn = "open" /\ rt[t].socks[s].auth = "done"
    /\ Troubled
    /\ \/ rt' = [rt EXCEPT ![t] = Replaced(@, s)]
       \/ \E code \in {"room unavailable", "violations"} :
             rt' = [rt EXCEPT ![t] = Refused(@, s, "error", code)]
    /\ UNCHANGED <<accountVars, calls, roomVars, cacheVars, lapsed, tab, version>>

\* broadcastRoom, to every socket the gateway has registered.
Registered(c) == {s \in Sock : c.socks[s].conn = "open" /\ c.socks[s].auth = "done"}
Told(c, message) ==
    LET told(k) == [k EXCEPT !.inbox = Append(@, message)]
    IN  [c EXCEPT !.socks = [s \in Sock |-> IF s \in Registered(c) THEN told(@[s]) ELSE @[s]]]
Broadcast(r) ==
    /\ version < MaxVersions
    /\ version' = version + 1
    /\ \A t \in Tab, s \in Sock : Len(r[t].socks[s].inbox) < MaxInbox
    /\ rt' = [t \in Tab |-> Told(r[t], Message("view", version'))]

\* A timer, or somebody else's event.
RoomChanges ==
    /\ Broadcast(rt)
    /\ UNCHANGED <<serverVars, tab>>

\* The tab's own event: a broadcast, or an error for its sender.
GatewayHandlesEvent(t, s) ==
    /\ rt[t].socks[s].conn = "open" /\ rt[t].socks[s].acts /\ rt[t].socks[s].auth # "sent"
    /\ LET r == [rt EXCEPT ![t].socks[s].acts = FALSE]
       IN  \/ /\ rt[t].socks[s].auth = "done"
              /\ Broadcast(r)
           \/ /\ Len(rt[t].socks[s].inbox) < MaxInbox
              /\ rt' = [r EXCEPT ![t] = Put(@, s, <<Message("error", 0)>>)]
              /\ UNCHANGED version
    /\ UNCHANGED <<serverVars, tab>>

Network(t, s) ==
    \/ SocketOpens(t, s) \/ SocketBreaks(t, s) \/ ClosingEnds(t, s)
    \/ Authenticates(t, s) \/ AuthTimesOut(t, s) \/ GatewayCloses(t, s)
    \/ GatewayHandlesEvent(t, s)

Next ==
    \/ ServerStep /\ UNCHANGED <<tab, rt, version>>
    \/ \E c \in Call : ReceiveNothing(c)
    \/ \E t \in HostTab : HostPage(t) \/ OpenTv(t)
    \/ \E t \in PlayerTab : GuestPage(t)
    \/ \E t \in Tab : GiveUp(t) \/ Reload(t) \/ FollowLink(t) \/ Hooks(t)
    \/ \E t \in Tab, s \in Sock : Network(t, s)
    \/ RoomChanges

Spec == Init /\ [][Next]_vars

-----------------------------------------------------------------------------
\* A requestId stands for one seat (join-room-form.tsx, idempotency-cache.ts):
\* as long as its calls did not overlap, fail halfway or outlive the cache
\* entry, whatever was lost and asked again has taken one seat, and every
\* answer to it names that seat.
RetriesShareOneSeat ==
    \A t \in PlayerTab, m \in 1 .. MaxMounts :
        LET rid == <<t, m>>
            taken == {i \in DOMAIN seats : seats[i] = rid}
        IN  rid \notin raced =>
                /\ Cardinality(taken) <= 1
                /\ \A c \in Call : calls[c].kind = "join" /\ calls[c].rid = rid /\ calls[c].seat # 0
                                    => taken = {calls[c].seat}

\* A seat that was given away can be taken (handleJoinRoom awaits
\* setPlayerSession before it answers): every answer on its way, every cached
\* one and every session in a tab's storage authenticates, until it expires.
GivenSeatsAuthenticate ==
    LET known == tokens \cup lapsed
    IN  /\ \A c \in Call : calls[c].kind = "join" /\ calls[c].status = "ok" => calls[c].seat \in known
        /\ \A e \in cache : e.seat \in known
        /\ \A t \in PlayerTab : tab[t].stored # 0 => tab[t].stored \in known

\* Whoever hosts owns the active game (handleCreateRoom: authenticate, verify,
\* only then create), and a tab that holds a host session has a room.
HostsOwnTheGame ==
    /\ room.host # NoUser => room.host \in accounts \cap grants /\ game = "active"
    /\ \A t \in HostTab : tab[t].stored # 0 => room.host # NoUser

\* Nobody waits for nothing.  A connection object that has not stopped has a
\* socket, a timer, or a network event to come; a hook that is connected and
\* waits for its event's outcome has the event or the outcome on its way; a
\* page that waits for an answer has a call in flight.  (One page does wait for
\* nothing, the games page whose ownership query has failed: it is "stuck", and
\* not among these.)
NobodyWaitsForNothing ==
    \A t \in Tab :
        LET c == rt[t]
        IN  /\ c.live /\ ~c.stopped => c.ws # 0 \/ c.timer \/ ~c.online \/ c.event = "online"
            /\ tab[t].pending /\ c.state = "connected" =>
                    c.ws # 0 /\ (c.socks[c.ws].acts \/ c.socks[c.ws].inbox # <<>>)
            /\ tab[t].waiting # 0 => calls[tab[t].waiting].tab = t
            /\ tab[t].page \in (DOMAIN AfterFailure) \ {"login"} => tab[t].waiting # 0

\* What a tab shows never goes back to an older state of the room, whatever
\* sockets it opened and gave up on the way (the listeners' this.ws check).
ViewsNeverGoBack ==
    [][\A t \in Tab : tab'[t].view = 0 \/ tab'[t].view >= tab[t].view]_vars
=============================================================================
