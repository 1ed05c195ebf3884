------------------------------- MODULE HttpApi -------------------------------
(***************************************************************************)
(* The HTTP API (http/http-api-server.ts, http/idempotency-cache.ts): what *)
(* each route handler does between two of its awaits is one step, and the  *)
(* calls of several browsers, or of one that gave up waiting and asked     *)
(* again, interleave.  One room is created; its roster is the sequence of  *)
(* the request ids its seats were asked for with.  What happens inside a   *)
(* save is RoomService's subject: here the room's actor answers or not.    *)
(***************************************************************************)
EXTENDS Accounts

CONSTANTS
    Tab,         \* browser tabs that call the API
    Call,        \* identities of calls; one that is over is used again
    Name,        \* display names
    MaxPlayers,  \* config.rules.maxPlayers
    MaxTrouble   \* bound: failures, losses, expiries and reloads

VARIABLES
    calls,     \* the calls in flight: the request, how far its handler is, the answer
    room,      \* the room: its host (NoUser before it exists) and whether it is in a lobby
    seats,     \* per player of the room, the request id that asked for the seat
    tokens,    \* seats whose session token the repository knows
    cache,     \* idempotency entries that have not expired
    raced,     \* history: request ids whose calls overlapped, expired or failed
    lapsed,    \* history: seats whose token expired
    trouble    \* history: failures so far

roomVars == <<room, seats, tokens>>
cacheVars == <<cache, raced>>
httpVars == <<calls, roomVars, cacheVars, lapsed, trouble>>

NoRid == <<>>   \* requestId is optional
Over == [kind |-> "none", stage |-> "over", tab |-> "none", user |-> NoUser, token |-> 0,
         rid |-> NoRid, name |-> "none", status |-> "none", seat |-> 0]

Request(kind, tab) == [Over EXCEPT !.kind = kind, !.stage = "sent", !.tab = tab]

HttpInit ==
    /\ calls = [c \in Call |-> Over]
    /\ room = [host |-> NoUser, lobby |-> TRUE]
    /\ seats = <<>>
    /\ tokens = {}
    /\ cache = {}
    /\ raced = {}
    /\ lapsed = {}
    /\ trouble = 0

Troubled == trouble < MaxTrouble /\ trouble' = trouble + 1

At(c, kind, stage) == calls[c].kind = kind /\ calls[c].stage = stage
Advance(c, stage) == calls' = [calls EXCEPT ![c].stage = stage]

\* sendJson and sendError: the answer is on its way to the browser.
Answer(c, status) == calls' = [calls EXCEPT ![c].stage = "answered", ![c].status = status]
AnswerSeat(c, status, seat) ==
    calls' = [calls EXCEPT ![c].stage = "answered", ![c].status = status, ![c].seat = seat]

\* checkRateLimit, at the head of the handlers that change something.  The
\* window is shared by all the browsers behind one address, so that a tab may
\* be refused whatever it did itself.
Limited == {"register", "login", "create", "join"}
RefuseByRate(c) ==
    /\ calls[c].stage = "sent" /\ calls[c].kind \in Limited
    /\ Troubled
    /\ Answer(c, "RATE_LIMITED")
    /\ UNCHANGED <<accountVars, roomVars, cacheVars, lapsed>>

-----------------------------------------------------------------------------
\* Accounts.

HandleRegister(c) ==
    /\ At(c, "register", "sent")
    /\ \/ /\ Register(calls[c].user)
          /\ Advance(c, "known")
       \/ /\ calls[c].user \in accounts
          /\ Answer(c, "EMAIL_ALREADY_REGISTERED")
          /\ UNCHANGED accountVars
    /\ UNCHANGED <<roomVars, cacheVars, lapsed, trouble>>

HandleLogin(c) ==
    /\ At(c, "login", "sent")
    /\ IF calls[c].user \in accounts THEN Advance(c, "known") ELSE Answer(c, "INVALID_CREDENTIALS")
    /\ UNCHANGED <<accountVars, roomVars, cacheVars, lapsed, trouble>>

\* The session of a new account, or of a login, or the failure to store it.
StartSession(c) ==
    /\ calls[c].kind \in {"register", "login"} /\ calls[c].stage = "known"
    /\ \/ /\ IssueSession(calls[c].user)
          /\ calls' = [calls EXCEPT ![c].stage = "answered", ![c].status = "ok",
                                    ![c].token = Len(logins) + 1]
          /\ UNCHANGED trouble
       \/ /\ Troubled
          /\ Answer(c, "INTERNAL_ERROR")
          /\ UNCHANGED accountVars
    /\ UNCHANGED <<roomVars, cacheVars, lapsed>>

HandleLogout(c) ==
    /\ At(c, "logout", "sent")
    /\ IF calls[c].token = 0 THEN UNCHANGED accountVars ELSE Logout(calls[c].token)
    /\ Answer(c, "ok")
    /\ UNCHANGED <<roomVars, cacheVars, lapsed, trouble>>

HandleMe(c) ==
    /\ At(c, "me", "sent")
    /\ Answer(c, IF SessionUser(calls[c].token) = NoUser THEN "UNAUTHENTICATED" ELSE "ok")
    /\ UNCHANGED <<accountVars, roomVars, cacheVars, lapsed, trouble>>

\* handleGetOwnedGames: the answer is whether the hackers game is among them.
HandleGetOwnedGames(c) ==
    /\ At(c, "owned", "sent")
    /\ Answer(c, LET u == SessionUser(calls[c].token)
                 IN  IF u = NoUser THEN "UNAUTHENTICATED"
                     ELSE IF u \in grants THEN "ok" ELSE "none")
    /\ UNCHANGED <<accountVars, roomVars, cacheVars, lapsed, trouble>>

-----------------------------------------------------------------------------
\* handleCreateRoom: authenticate, then ownership, then the room, with an await
\* after each.

CreateAuthenticates(c) ==
    /\ At(c, "create", "sent")
    /\ LET u == SessionUser(calls[c].token)
       IN  \/ /\ u = NoUser
              /\ Answer(c, "UNAUTHENTICATED")
           \/ /\ u # NoUser
              /\ calls' = [calls EXCEPT ![c].stage = "authenticated", ![c].user = u]
    /\ UNCHANGED <<accountVars, roomVars, cacheVars, lapsed, trouble>>

CreateChecksOwnership(c) ==
    /\ At(c, "create", "authenticated")
    /\ LET verdict == OwnedGame(calls[c].user)
       IN  IF verdict = "ok" THEN Advance(c, "authorized") ELSE Answer(c, verdict)
    /\ UNCHANGED <<accountVars, roomVars, cacheVars, lapsed, trouble>>

CreateRoom(c) ==
    /\ At(c, "create", "authorized")
    /\ \/ /\ room.host = NoUser
          /\ room' = [room EXCEPT !.host = calls[c].user]
          /\ Answer(c, "ok")
          /\ UNCHANGED trouble
       \/ /\ Troubled
          /\ Answer(c, "INTERNAL_ERROR")
          /\ UNCHANGED room
    /\ UNCHANGED <<accountVars, seats, tokens, cacheVars, lapsed>>

-----------------------------------------------------------------------------
\* Joining.

Full == Len(seats) >= MaxPlayers

HandleGetRoomAvailability(c) ==
    /\ At(c, "availability", "sent")
    /\ Answer(c, CASE room.host = NoUser -> "ROOM_NOT_FOUND"
                   [] Full -> "full"
                   [] ~room.lobby -> "started"
                   [] OTHER -> "ok")
    /\ UNCHANGED <<accountVars, roomVars, cacheVars, lapsed, trouble>>

Cached(rid) == {e \in cache : e.rid = rid /\ rid # NoRid}

\* Up to the queue of the room's actor.
JoinLooksUp(c) ==
    /\ At(c, "join", "sent")
    /\ \/ /\ room.host = NoUser
          /\ Answer(c, "ROOM_NOT_FOUND")
       \/ /\ room.host # NoUser
          /\ Cached(calls[c].rid) = {}
          /\ Advance(c, "queued")
       \/ /\ room.host # NoUser
          /\ \E e \in Cached(calls[c].rid) :
                IF e.name = calls[c].name THEN AnswerSeat(c, "ok", e.seat)
                                          ELSE Answer(c, "DUPLICATE_PLAYER")
    /\ UNCHANGED <<accountVars, roomVars, cacheVars, lapsed, trouble>>

\* For the mutants: answered without waiting for the session.
SeatedAndAnswered(call, seat) ==
    [call EXCEPT !.stage = "answered", !.status = "ok", !.seat = seat]

\* The player is in the room and the session is still to be stored.
Seated(call, seat) == [call EXCEPT !.stage = "seated", !.seat = seat]

\* joinPlayer in the actor's queue, unless the actor cannot load or store the room.
JoinTakesSeat(c) ==
    /\ At(c, "join", "queued")
    /\ \/ /\ room.lobby /\ ~Full
          /\ seats' = Append(seats, calls[c].rid)
          /\ calls' = [calls EXCEPT ![c] = Seated(@, Len(seats) + 1)]
          /\ UNCHANGED trouble
       \/ /\ Full \/ ~room.lobby
          /\ Answer(c, IF room.lobby THEN "ROOM_FULL" ELSE "ROOM_NOT_JOINABLE")
          /\ UNCHANGED <<seats, trouble>>
       \/ /\ Troubled
          /\ Answer(c, "INTERNAL_ERROR")
          /\ UNCHANGED seats
    /\ UNCHANGED <<accountVars, room, tokens, cacheVars, lapsed>>

\* For the mutants: the first answer is never kept.
RememberNothing(rid, name, seat) == cache

\* idempotency.set
Remember(rid, name, seat) ==
    IF rid = NoRid THEN cache
    ELSE {e \in cache : e.rid # rid} \cup {[rid |-> rid, name |-> name, seat |-> seat]}

JoinStoresSession(c) ==
    /\ At(c, "join", "seated")
    /\ \/ /\ tokens' = tokens \cup {calls[c].seat}
          /\ cache' = Remember(calls[c].rid, calls[c].name, calls[c].seat)
          /\ AnswerSeat(c, "ok", calls[c].seat)
          /\ UNCHANGED <<raced, trouble>>
       \/ /\ Troubled
          /\ Answer(c, "INTERNAL_ERROR")
          /\ raced' = raced \cup {calls[c].rid}
          /\ UNCHANGED <<tokens, cache>>
    /\ UNCHANGED <<accountVars, room, seats, lapsed>>

-----------------------------------------------------------------------------
\* Time, and what reaches the room by another way.

CacheExpires ==
    /\ Troubled
    /\ \E e \in cache : cache' = cache \ {e} /\ raced' = raced \cup {e.rid}
    /\ UNCHANGED <<accountVars, calls, roomVars, lapsed>>

\* No page sends player:leave, the other end of a session (Gateway has it).
TokenExpires ==
    /\ Troubled
    /\ \E s \in tokens : tokens' = tokens \ {s} /\ lapsed' = lapsed \cup {s}
    /\ UNCHANGED <<accountVars, calls, room, seats, cacheVars>>

LoginLapses ==
    /\ Troubled
    /\ LoginExpires
    /\ UNCHANGED <<calls, roomVars, cacheVars, lapsed>>

\* The match begins, and the room is back in a lobby after it.
MatchMoves ==
    /\ room.host # NoUser /\ seats # <<>>
    /\ room' = [room EXCEPT !.lobby = ~@]
    /\ UNCHANGED <<accountVars, calls, seats, tokens, cacheVars, lapsed, trouble>>

Handle(c) ==
    \/ RefuseByRate(c)
    \/ HandleRegister(c) \/ HandleLogin(c) \/ StartSession(c) \/ HandleLogout(c) \/ HandleMe(c) \/ HandleGetOwnedGames(c)
    \/ CreateAuthenticates(c) \/ CreateChecksOwnership(c) \/ CreateRoom(c)
    \/ HandleGetRoomAvailability(c) \/ JoinLooksUp(c) \/ JoinTakesSeat(c) \/ JoinStoresSession(c)

ServerStep ==
    \/ \E c \in Call : Handle(c)
    \/ CacheExpires \/ TokenExpires \/ LoginLapses \/ MatchMoves
    \/ Grant /\ UNCHANGED httpVars
=============================================================================
