--------------------------- MODULE WebClientProofs ----------------------------
(***************************************************************************)
(* The client's properties, for any number of tabs, sockets, calls, users  *)
(* and failures.                                                           *)
(*   WebInv: what a call has been told of accounts, of the room and of its *)
(* seat stays true (Grows), as accounts, grants, the room and the sessions *)
(* ever stored only grow; so the handlers may act on it an await later,    *)
(* and the browsers may keep it in their storage.                          *)
(*   SeatInv: of a request id that did not race, one call at a time is     *)
(* about to take a seat, and what was taken is known to it or the cache.   *)
(*   WaitInv: a page waits for a call of its own that is not over.         *)
(*   ConnInv: what waits in a socket's inbox is in order, what the object  *)
(* knows of its socket is so, and the page shows nothing newer.            *)
(***************************************************************************)
EXTENDS WebClient, TLAPS, FiniteSetTheorems, SequenceTheorems

CallField == {"kind", "stage", "tab", "user", "token", "rid", "name", "status", "seat"}
TabField == {"page", "waiting", "mount", "cookie", "stored", "session", "view", "pending"}

\* The records are functions on their fields.
Shape ==
    /\ DOMAIN calls = Call /\ \A c \in Call : DOMAIN calls[c] = CallField
    /\ DOMAIN tab = Tab /\ \A t \in Tab : DOMAIN tab[t] = TabField
    /\ DOMAIN room = {"host", "lobby"}

\* The sessions that were stored, expired ones among them.
Known == tokens \cup lapsed

\* What the server knows: sessions and grants are of accounts, the host owns the
\* game, and a remembered answer names a seat with a session.
ServerOk ==
    /\ accounts \subseteq User
    /\ logins \in Seq(accounts \cup {NoUser})
    /\ grants \subseteq accounts /\ game \in {"missing", "inactive", "active"}
    /\ room.host # NoUser => room.host \in accounts \cap grants /\ game = "active"
    /\ \A e \in cache : e.seat \in Known

\* What a call carries: a token that was issued, for a registration and a login a
\* user who has an account when a session is started, for a create what its stages
\* have found out, and in a good answer a room or a seat.
CallOk(call) ==
    /\ call.token \in 0 .. Len(logins)
    /\ call.kind \in {"register", "login"} => call.user \in User
    /\ call.stage = "known" => call.user \in accounts
    /\ call.kind = "create" =>
          /\ call.stage \in {"authenticated", "authorized"} => call.user \in accounts
          /\ call.stage = "authorized" => call.user \in grants /\ game = "active"
          /\ call.stage = "answered" /\ call.status = "ok" => room.host # NoUser
    /\ call.kind = "join" /\ call.status = "ok" => call.stage = "answered" /\ call.seat \in Known

\* What a tab keeps: a cookie that was issued, and the session of a room or a seat.
TabOk(t, page) ==
    /\ page.cookie \in 0 .. Len(logins)
    /\ t \in HostTab /\ page.stored # 0 => room.host # NoUser
    /\ t \in PlayerTab /\ page.stored # 0 => page.stored \in Known

WebInv ==
    /\ Shape /\ ServerOk
    /\ \A c \in Call : CallOk(calls[c])
    /\ \A t \in Tab : TabOk(t, tab[t])

-----------------------------------------------------------------------------
(* Steps.  CallOkNext and TabOkNext are CallOk and TabOk of the next state. *)

CallOkNext(call) ==
    /\ call.token \in 0 .. Len(logins')
    /\ call.kind \in {"register", "login"} => call.user \in User
    /\ call.stage = "known" => call.user \in accounts'
    /\ call.kind = "create" =>
          /\ call.stage \in {"authenticated", "authorized"} => call.user \in accounts'
          /\ call.stage = "authorized" => call.user \in grants' /\ game' = "active"
          /\ call.stage = "answered" /\ call.status = "ok" => room'.host # NoUser
    /\ call.kind = "join" /\ call.status = "ok" => call.stage = "answered" /\ call.seat \in Known'

TabOkNext(t, page) ==
    /\ page.cookie \in 0 .. Len(logins')
    /\ t \in HostTab /\ page.stored # 0 => room'.host # NoUser
    /\ t \in PlayerTab /\ page.stored # 0 => page.stored \in Known'

\* What is known of the server is not taken back.
Grows ==
    /\ accounts \subseteq accounts' /\ grants \subseteq grants' /\ game' = game
    /\ Len(logins) \in Nat /\ Len(logins') \in Nat /\ Len(logins) <= Len(logins')
    /\ room.host # NoUser => room'.host # NoUser
    /\ Known \subseteq Known'

CallsGo ==
    /\ DOMAIN calls' = Call
    /\ \A c \in Call : DOMAIN calls'[c] = CallField /\ CallOkNext(calls'[c])

TabsGo ==
    /\ DOMAIN tab' = Tab
    /\ \A t \in Tab : DOMAIN tab'[t] = TabField /\ TabOkNext(t, tab'[t])

ServerGoes == ServerOk' /\ Grows /\ DOMAIN room' = {"host", "lobby"}

\* What a call has been told stays true.
LEMMA CallOkGrows == Grows => \A call : CallOk(call) => CallOkNext(call)
BY DEF Grows, CallOk, CallOkNext

\* What a tab has stored stays true.
LEMMA TabOkGrows == Grows => \A t, page : TabOk(t, page) => TabOkNext(t, page)
BY DEF Grows, TabOk, TabOkNext

\* A step keeps the invariant when its calls, its tabs and the server do.
LEMMA StepOk == ASSUME CallsGo, TabsGo, ServerGoes PROVE WebInv'
<1>1. Shape'
  BY DEF CallsGo, TabsGo, ServerGoes, Shape
<1>2. (\A c \in Call : CallOk(calls[c]))'
  BY DEF CallsGo, CallOk, CallOkNext
<1>3. (\A t \in Tab : TabOk(t, tab[t]))'
  BY DEF TabsGo, TabOk, TabOkNext
<1> QED BY <1>1, <1>2, <1>3 DEF ServerGoes, WebInv

\* The server is left alone, up to the room's lobby and to what expires.
LEMMA ServerStays ==
    ASSUME WebInv, UNCHANGED <<accountVars, room.host>>, DOMAIN room' = DOMAIN room,
           Known \subseteq Known', \A e \in cache' : e \in cache
    PROVE  ServerGoes
<1>1. Len(logins) \in Nat
  BY DEF WebInv, ServerOk
<1>2. Grows
  BY <1>1 DEF Grows, accountVars
<1>3. ServerOk'
  BY DEF WebInv, ServerOk, accountVars
<1> QED BY <1>2, <1>3 DEF ServerGoes, WebInv, Shape

\* Calls that stay are as true as they were.
LEMMA CallsStay == ASSUME WebInv, Grows, UNCHANGED calls PROVE CallsGo
BY CallOkGrows DEF WebInv, Shape, CallsGo

\* So are tabs that stay.
LEMMA TabsStay == ASSUME WebInv, Grows, UNCHANGED tab PROVE TabsGo
BY TabOkGrows DEF WebInv, Shape, TabsGo

\* One call is replaced.
LEMMA OneCall ==
    ASSUME WebInv, Grows, NEW c \in Call, NEW call, calls' = [calls EXCEPT ![c] = call],
           DOMAIN call = CallField, CallOkNext(call)
    PROVE  CallsGo
BY CallOkGrows DEF WebInv, Shape, CallsGo

\* One tab's page is replaced.
LEMMA OneTab ==
    ASSUME WebInv, Grows, NEW t \in Tab, NEW page, tab' = [tab EXCEPT ![t] = page],
           DOMAIN page = TabField, TabOkNext(t, page)
    PROVE  TabsGo
BY TabOkGrows DEF WebInv, Shape, TabsGo

\* A call that has nothing of its own yet.
LEMMA FreshCall ==
    ASSUME Grows, NEW kind, NEW t, kind \notin {"register", "login"}
    PROVE  /\ DOMAIN Over = CallField /\ CallOkNext(Over)
           /\ DOMAIN Request(kind, t) = CallField /\ CallOkNext(Request(kind, t))
           /\ Request(kind, t).kind = kind
BY DEF Grows, Over, Request, CallField, CallOkNext

\* An answer, of which a good one says nothing of a room or of a seat.
LEMMA AnswerOk ==
    ASSUME WebInv, Grows, NEW c \in Call, NEW status, Answer(c, status),
           status = "ok" => calls[c].kind \notin {"create", "join"}
    PROVE  CallsGo
<1> DEFINE call == [calls[c] EXCEPT !.stage = "answered", !.status = status]
<1>1. DOMAIN calls[c] = CallField /\ CallOkNext(calls[c])
  BY CallOkGrows DEF WebInv, Shape
<1>2. DOMAIN call = CallField /\ CallOkNext(call)
  BY <1>1 DEF CallField, CallOkNext
<1>3. calls' = [calls EXCEPT ![c] = call]
  BY DEF Answer, WebInv, Shape
<1> HIDE DEF call
<1> QED BY <1>2, <1>3, OneCall

-----------------------------------------------------------------------------
(* The server's handlers *)

\* A handler that answers and leaves the server as it is.
LEMMA QuietAnswer ==
    ASSUME WebInv, NEW c \in Call, NEW status, Answer(c, status),
           UNCHANGED <<accountVars, roomVars, cacheVars, lapsed>>,
           status = "ok" => calls[c].kind \notin {"create", "join"}
    PROVE  ServerGoes /\ CallsGo
<1>1. ServerGoes
  BY ServerStays DEF roomVars, cacheVars, Known
<1>2. CallsGo
  BY <1>1, AnswerOk DEF ServerGoes
<1> QED BY <1>1, <1>2

\* The account row: the call goes on for a user who has an account.
LEMMA KnownStep ==
    ASSUME WebInv, NEW c \in Call, HandleRegister(c) \/ HandleLogin(c)
    PROVE  ServerGoes /\ CallsGo
<1>1. /\ calls[c].kind \in {"register", "login"} /\ calls[c].user \in User
      /\ UNCHANGED <<logins, grants, game, roomVars, cacheVars, lapsed>>
  BY DEF HandleRegister, HandleLogin, At, Register, accountVars, WebInv, CallOk
<1>2. CASE Advance(c, "known") /\ accounts' = accounts \cup {calls[c].user}
  <2>1. logins \in Seq(accounts \cup {NoUser}) /\ accounts \cup {NoUser} \subseteq accounts' \cup {NoUser}
    BY <1>2 DEF WebInv, ServerOk
  <2>2. logins' \in Seq(accounts' \cup {NoUser}) /\ Len(logins) \in Nat /\ logins' = logins
    BY <1>1, <2>1
  <2>3. Grows
    BY <1>1, <1>2, <2>2 DEF Grows, roomVars, Known
  <2>4. ServerOk'
    BY <1>1, <1>2, <2>2 DEF WebInv, ServerOk, roomVars, cacheVars, Known
  <2>5. ServerGoes
    BY <1>1, <2>3, <2>4 DEF ServerGoes, WebInv, Shape, roomVars
  <2> DEFINE call == [calls[c] EXCEPT !.stage = "known"]
  <2>6. DOMAIN calls[c] = CallField /\ CallOkNext(calls[c])
    BY <2>3, CallOkGrows DEF WebInv, Shape
  <2>7. /\ DOMAIN call = CallField /\ call.kind = calls[c].kind /\ call.stage = "known"
        /\ call.user = calls[c].user /\ call.token = calls[c].token
    BY <2>6 DEF CallField
  <2>8. calls' = [calls EXCEPT ![c] = call]
    BY <1>2 DEF Advance, WebInv, Shape
  <2> HIDE DEF call
  <2>9. CallOkNext(call)
    BY <1>1, <1>2, <2>6, <2>7 DEF CallOkNext
  <2> QED BY <2>3, <2>5, <2>7, <2>8, <2>9, OneCall
<1>3. ASSUME NEW status, status # "ok", Answer(c, status), UNCHANGED accountVars
      PROVE  ServerGoes /\ CallsGo
  BY <1>1, <1>3, QuietAnswer
<1>4. CASE HandleRegister(c)
  BY <1>2, <1>3, <1>4 DEF HandleRegister, Register
<1>5. CASE HandleLogin(c)
  <2>1. CASE calls[c].user \in accounts
    <3>1. Advance(c, "known") /\ accounts' = accounts \cup {calls[c].user}
      BY <1>5, <2>1 DEF HandleLogin, accountVars
    <3> QED BY <1>2, <3>1
  <2>2. CASE calls[c].user \notin accounts
    BY <1>3, <1>5, <2>2 DEF HandleLogin
  <2> QED BY <2>1, <2>2
<1> QED BY <1>4, <1>5

\* The session of an account that is there, and its token in the answer.
LEMMA StartStep == ASSUME WebInv, NEW c \in Call, StartSession(c) PROVE ServerGoes /\ CallsGo
<1>1. calls[c].kind \in {"register", "login"} /\ calls[c].user \in accounts
  BY DEF StartSession, WebInv, CallOk
<1>2. CASE Answer(c, "INTERNAL_ERROR") /\ UNCHANGED accountVars
  BY <1>2, QuietAnswer DEF StartSession
<1>3. CASE /\ IssueSession(calls[c].user)
           /\ calls' = [calls EXCEPT ![c].stage = "answered", ![c].status = "ok",
                                     ![c].token = Len(logins) + 1]
  <2>1. logins' = Append(logins, calls[c].user) /\ UNCHANGED <<accounts, grants, game>>
    BY <1>3 DEF IssueSession
  <2>2. UNCHANGED <<roomVars, cacheVars, lapsed>>
    BY DEF StartSession
  <2>3. logins \in Seq(accounts \cup {NoUser})
    BY DEF WebInv, ServerOk
  <2>4. PICK u \in accounts \cup {NoUser} : u = calls[c].user
    BY <1>1
  <2>5. logins' \in Seq(accounts \cup {NoUser}) /\ Len(logins) \in Nat /\ Len(logins') = Len(logins) + 1
    BY <2>1, <2>3, <2>4
  <2>6. Grows
    BY <2>1, <2>2, <2>5 DEF Grows, roomVars, Known
  <2>7. ServerOk'
    BY <2>1, <2>2, <2>5 DEF WebInv, ServerOk, roomVars, cacheVars, Known
  <2>8. ServerGoes
    BY <2>2, <2>6, <2>7 DEF ServerGoes, WebInv, Shape, roomVars
  <2> DEFINE call == [calls[c] EXCEPT !.stage = "answered", !.status = "ok", !.token = Len(logins) + 1]
  <2>9. DOMAIN calls[c] = CallField /\ CallOkNext(calls[c])
    BY <2>6, CallOkGrows DEF WebInv, Shape
  <2>10. DOMAIN call = CallField /\ CallOkNext(call)
    <3>1. call.token \in 0 .. Len(logins')
      BY <2>5, <2>9 DEF CallField
    <3> QED BY <1>1, <2>9, <3>1 DEF CallField, CallOkNext
  <2>11. calls' = [calls EXCEPT ![c] = call]
    BY <1>3 DEF WebInv, Shape
  <2>12. CallsGo
    <3> HIDE DEF call
    <3> QED BY <2>6, <2>10, <2>11, OneCall
  <2> QED BY <2>8, <2>12
<1> QED BY <1>2, <1>3 DEF StartSession

\* A session is gone, and its token is nobody's.
LEMMA WithoutStep ==
    ASSUME WebInv, NEW token, logins' = Without(token), UNCHANGED <<accounts, grants, game>>,
           UNCHANGED <<roomVars, cache, lapsed>>
    PROVE  ServerGoes
<1>1. logins \in Seq(accounts \cup {NoUser})
  BY DEF WebInv, ServerOk
<1>2. DOMAIN logins = 1 .. Len(logins) /\ Len(logins) \in Nat
  BY <1>1
<1>3. logins' = [i \in 1 .. Len(logins) |-> IF i = token THEN NoUser ELSE logins[i]]
  BY <1>2 DEF Without
<1>4. logins' \in Seq(accounts \cup {NoUser}) /\ Len(logins') = Len(logins)
  BY <1>1, <1>2, <1>3
<1>5. Grows
  BY <1>2, <1>4 DEF Grows, roomVars, Known
<1>6. ServerOk'
  BY <1>4 DEF WebInv, ServerOk, roomVars, Known
<1> QED BY <1>5, <1>6 DEF ServerGoes, WebInv, Shape, roomVars

\* A session ends.
LEMMA LogoutStep == ASSUME WebInv, NEW c \in Call, HandleLogout(c) PROVE ServerGoes /\ CallsGo
<1>1. CASE UNCHANGED accountVars
  BY <1>1, QuietAnswer DEF HandleLogout, At
<1>2. CASE Logout(calls[c].token)
  <2>1. ServerGoes
    <3>1. PICK token : token = calls[c].token
      OBVIOUS
    <3> QED BY <1>2, <3>1, WithoutStep DEF HandleLogout, Logout, cacheVars
  <2>2. CallsGo
    BY <2>1, AnswerOk DEF HandleLogout, At, ServerGoes
  <2> QED BY <2>1, <2>2
<1> QED BY <1>1, <1>2 DEF HandleLogout

\* The handlers that only read.
LEMMA ReadStep ==
    ASSUME WebInv, NEW c \in Call,
           RefuseByRate(c) \/ HandleMe(c) \/ HandleGetOwnedGames(c) \/ HandleGetRoomAvailability(c)
    PROVE  ServerGoes /\ CallsGo
<1>1. PICK status : Answer(c, status) /\ (status = "ok" => calls[c].kind \notin {"create", "join"})
  BY DEF RefuseByRate, HandleMe, HandleGetOwnedGames, HandleGetRoomAvailability, At
<1>2. UNCHANGED <<accountVars, roomVars, cacheVars, lapsed>>
  BY DEF RefuseByRate, HandleMe, HandleGetOwnedGames, HandleGetRoomAvailability
<1> QED BY <1>1, <1>2, QuietAnswer

\* The stages of a create: each one notes what it found out.
LEMMA CreateCheckStep ==
    ASSUME WebInv, NEW c \in Call, CreateAuthenticates(c) \/ CreateChecksOwnership(c)
    PROVE  ServerGoes /\ CallsGo
<1>1. UNCHANGED <<accountVars, roomVars, cacheVars, lapsed>>
  BY DEF CreateAuthenticates, CreateChecksOwnership
<1>2. ServerGoes
  BY <1>1, ServerStays DEF roomVars, cacheVars, Known
<1>3. DOMAIN calls[c] = CallField /\ CallOk(calls[c]) /\ CallOkNext(calls[c])
  BY <1>2, CallOkGrows DEF WebInv, Shape, ServerGoes
<1>4. CASE CreateAuthenticates(c)
  <2> DEFINE u == SessionUser(calls[c].token)
  <2>1. CASE u = NoUser /\ Answer(c, "UNAUTHENTICATED")
    BY <1>1, <2>1, QuietAnswer
  <2>2. CASE u # NoUser /\ calls' = [calls EXCEPT ![c].stage = "authenticated", ![c].user = u]
    <3>1. u \in accounts
      <4>1. logins \in Seq(accounts \cup {NoUser}) /\ calls[c].token \in 0 .. Len(logins)
        BY <1>3 DEF WebInv, ServerOk, CallOk
      <4> QED BY <2>2, <4>1 DEF SessionUser
    <3> DEFINE call == [calls[c] EXCEPT !.stage = "authenticated", !.user = u]
    <3>2. DOMAIN call = CallField /\ CallOkNext(call)
      <4> HIDE DEF u
      <4>1. /\ DOMAIN call = CallField /\ call.stage = "authenticated" /\ call.user = u
            /\ call.token = calls[c].token /\ call.kind = "create"
        BY <1>3, <1>4 DEF CallField, CreateAuthenticates, At
      <4> HIDE DEF call
      <4> QED BY <1>1, <1>3, <3>1, <4>1 DEF CallOkNext, accountVars
    <3>3. calls' = [calls EXCEPT ![c] = call]
      BY <2>2 DEF WebInv, Shape
    <3>4. CallsGo
      <4> HIDE DEF call
      <4> QED BY <1>2, <3>2, <3>3, OneCall DEF ServerGoes
    <3> QED BY <1>2, <3>4
  <2> QED BY <1>4, <2>1, <2>2 DEF CreateAuthenticates
<1>5. CASE CreateChecksOwnership(c)
  <2>1. CASE OwnedGame(calls[c].user) = "ok"
    <3>1. calls[c].user \in grants /\ game = "active"
      BY <2>1 DEF OwnedGame, WebInv, ServerOk
    <3> DEFINE call == [calls[c] EXCEPT !.stage = "authorized"]
    <3>2. DOMAIN call = CallField /\ CallOkNext(call)
      <4>1. /\ DOMAIN call = CallField /\ call.stage = "authorized" /\ call.user = calls[c].user
            /\ call.token = calls[c].token /\ call.kind = "create"
        BY <1>3, <1>5 DEF CallField, CreateChecksOwnership, At
      <4>2. calls[c].user \in accounts
        BY <3>1 DEF WebInv, ServerOk
      <4> HIDE DEF call
      <4> QED BY <1>1, <1>3, <3>1, <4>1, <4>2 DEF CallOkNext, accountVars
    <3>3. calls' = [calls EXCEPT ![c] = call]
      BY <1>5, <2>1 DEF CreateChecksOwnership, Advance, WebInv, Shape
    <3>4. CallsGo
      <4> HIDE DEF call
      <4> QED BY <1>2, <3>2, <3>3, OneCall DEF ServerGoes
    <3> QED BY <1>2, <3>4
  <2>2. CASE OwnedGame(calls[c].user) # "ok"
    BY <1>1, <1>5, <2>2, QuietAnswer DEF CreateChecksOwnership
  <2> QED BY <2>1, <2>2
<1> QED BY <1>4, <1>5

\* The room is made for the user the call has found to own the game.
LEMMA CreateStep == ASSUME WebInv, NEW c \in Call, CreateRoom(c) PROVE ServerGoes /\ CallsGo
<1>1. CASE Answer(c, "INTERNAL_ERROR") /\ UNCHANGED room
  BY <1>1, QuietAnswer DEF CreateRoom, roomVars
<1>2. CASE /\ room.host = NoUser /\ room' = [room EXCEPT !.host = calls[c].user]
           /\ Answer(c, "ok")
  <2>1. calls[c].kind = "create" /\ calls[c].stage = "authorized"
    BY DEF CreateRoom, At
  <2>2. calls[c].user \in accounts \cap grants /\ game = "active"
    BY <2>1 DEF WebInv, CallOk
  <2>3. calls[c].user # NoUser
    BY <2>2, AccountsAssumption DEF WebInv, ServerOk
  <2>4. room'.host = calls[c].user /\ DOMAIN room' = {"host", "lobby"}
    BY <1>2 DEF WebInv, Shape
  <2>5. UNCHANGED <<accounts, logins, grants, game, tokens, lapsed, cache>>
    BY DEF CreateRoom, accountVars, cacheVars
  <2>6. Grows
    BY <1>2, <2>5 DEF Grows, Known, WebInv, ServerOk
  <2>7. ServerOk'
    BY <2>2, <2>4, <2>5 DEF ServerOk, WebInv, Known
  <2> DEFINE call == [calls[c] EXCEPT !.stage = "answered", !.status = "ok"]
  <2>8. DOMAIN calls[c] = CallField /\ CallOkNext(calls[c])
    BY <2>6, CallOkGrows DEF WebInv, Shape
  <2>9. DOMAIN call = CallField /\ CallOkNext(call)
    BY <2>1, <2>3, <2>4, <2>8 DEF CallField, CallOkNext
  <2>10. calls' = [calls EXCEPT ![c] = call]
    BY <1>2 DEF Answer, WebInv, Shape
  <2>11. CallsGo
    <3> HIDE DEF call
    <3> QED BY <2>6, <2>9, <2>10, OneCall
  <2> QED BY <2>4, <2>6, <2>7, <2>11 DEF ServerGoes
<1> QED BY <1>1, <1>2 DEF CreateRoom

\* A good answer to a join names a seat with a session.
LEMMA SeatAnswer ==
    ASSUME WebInv, Grows, NEW c \in Call, NEW seat \in Known', calls[c].kind = "join",
           AnswerSeat(c, "ok", seat)
    PROVE  CallsGo
<1> DEFINE call == [calls[c] EXCEPT !.stage = "answered", !.status = "ok", !.seat = seat]
<1>1. DOMAIN calls[c] = CallField /\ CallOkNext(calls[c])
  BY CallOkGrows DEF WebInv, Shape
<1>2. /\ DOMAIN call = CallField /\ call.kind = "join" /\ call.seat = seat
      /\ call.token = calls[c].token /\ call.stage = "answered"
  BY <1>1 DEF CallField
<1>3. calls' = [calls EXCEPT ![c] = call]
  BY DEF AnswerSeat, WebInv, Shape
<1> HIDE DEF call
<1>4. CallOkNext(call)
  BY <1>1, <1>2 DEF CallOkNext
<1> QED BY <1>2, <1>3, <1>4, OneCall

\* A join goes on to its next stage, and is not answered yet.
LEMMA JoinAdvances ==
    ASSUME WebInv, Grows, NEW c \in Call, calls[c].kind = "join", calls[c].status # "ok",
           NEW call, calls' = [calls EXCEPT ![c] = call], DOMAIN call = CallField,
           call.kind = "join", call.token = calls[c].token, call.status = calls[c].status,
           call.stage # "known"
    PROVE  CallsGo
<1>1. CallOkNext(calls[c])
  BY CallOkGrows DEF WebInv
<1>2. CallOkNext(call)
  BY <1>1 DEF CallOkNext
<1> QED BY <1>2, OneCall

\* A join that is in the cache, or has to take a seat.
LEMMA JoinLooksUpStep == ASSUME WebInv, NEW c \in Call, JoinLooksUp(c) PROVE ServerGoes /\ CallsGo
<1>1. calls[c].kind = "join" /\ calls[c].stage = "sent"
  BY DEF JoinLooksUp, At
<1>2. UNCHANGED <<accountVars, roomVars, cacheVars, lapsed>>
  BY DEF JoinLooksUp
<1>3. ServerGoes
  BY <1>2, ServerStays DEF roomVars, cacheVars, Known
<1>4. CASE Advance(c, "queued")
  <2> DEFINE call == [calls[c] EXCEPT !.stage = "queued"]
  <2>1. DOMAIN calls[c] = CallField /\ calls[c].status # "ok"
    BY <1>1 DEF WebInv, Shape, CallOk
  <2>2. /\ DOMAIN call = CallField /\ call.kind = "join" /\ call.token = calls[c].token
        /\ call.status = calls[c].status /\ call.stage # "known"
    BY <1>1, <2>1 DEF CallField
  <2>3. calls' = [calls EXCEPT ![c] = call]
    BY <1>4 DEF Advance, WebInv, Shape
  <2> HIDE DEF call
  <2> QED BY <1>1, <1>3, <2>1, <2>2, <2>3, JoinAdvances DEF ServerGoes
<1>5. ASSUME NEW e \in Cached(calls[c].rid),
             IF e.name = calls[c].name THEN AnswerSeat(c, "ok", e.seat) ELSE Answer(c, "DUPLICATE_PLAYER")
      PROVE  CallsGo
  <2>1. e.seat \in Known'
    BY <1>3 DEF Cached, WebInv, ServerOk, ServerGoes, Grows
  <2>2. PICK seat \in Known' : seat = e.seat
    BY <2>1
  <2> QED BY <1>1, <1>3, <1>5, <2>2, SeatAnswer, AnswerOk DEF ServerGoes
<1>6. CASE Answer(c, "ROOM_NOT_FOUND")
  BY <1>3, <1>6, AnswerOk DEF ServerGoes
<1> QED BY <1>3, <1>4, <1>5, <1>6 DEF JoinLooksUp

\* A join takes a seat, or is refused one.
LEMMA JoinTakesSeatStep == ASSUME WebInv, NEW c \in Call, JoinTakesSeat(c) PROVE ServerGoes /\ CallsGo
<1>1. calls[c].kind = "join" /\ calls[c].stage = "queued"
  BY DEF JoinTakesSeat, At
<1>2. UNCHANGED <<accountVars, room, tokens, cacheVars, lapsed>>
  BY DEF JoinTakesSeat
<1>3. ServerGoes
  BY <1>2, ServerStays DEF cacheVars, Known
<1>4. CASE calls' = [calls EXCEPT ![c] = Seated(@, Len(seats) + 1)]
  <2> DEFINE call == Seated(calls[c], Len(seats) + 1)
  <2>1. DOMAIN calls[c] = CallField /\ calls[c].status # "ok"
    BY <1>1 DEF WebInv, Shape, CallOk
  <2>2. /\ DOMAIN call = CallField /\ call.kind = "join" /\ call.token = calls[c].token
        /\ call.status = calls[c].status /\ call.stage # "known"
    BY <1>1, <2>1 DEF CallField, Seated
  <2>3. calls' = [calls EXCEPT ![c] = call]
    BY <1>4 DEF WebInv, Shape
  <2> HIDE DEF call
  <2> QED BY <1>1, <1>3, <2>1, <2>2, <2>3, JoinAdvances DEF ServerGoes
<1>5. ASSUME NEW status, status # "ok", Answer(c, status) PROVE CallsGo
  BY <1>3, <1>5, AnswerOk DEF ServerGoes
<1> QED BY <1>3, <1>4, <1>5 DEF JoinTakesSeat

\* The session is stored before the answer goes out and before it is remembered.
LEMMA JoinStoresStep == ASSUME WebInv, NEW c \in Call, JoinStoresSession(c) PROVE ServerGoes /\ CallsGo
<1>1. calls[c].kind = "join" /\ calls[c].stage = "seated"
  BY DEF JoinStoresSession, At
<1>2. UNCHANGED <<accountVars, room, lapsed>>
  BY DEF JoinStoresSession
<1>3. CASE /\ tokens' = tokens \cup {calls[c].seat}
           /\ cache' = Remember(calls[c].rid, calls[c].name, calls[c].seat)
           /\ AnswerSeat(c, "ok", calls[c].seat)
  <2>1. Known \subseteq Known' /\ calls[c].seat \in Known'
    BY <1>2, <1>3 DEF Known
  <2>2. \A e \in cache' : e.seat \in Known'
    <3>1. \A e \in cache' : e \in cache
             \/ e = [rid |-> calls[c].rid, name |-> calls[c].name, seat |-> calls[c].seat]
      BY <1>3 DEF Remember
    <3> QED BY <2>1, <3>1 DEF WebInv, ServerOk
  <2>3. Grows
    BY <1>2, <2>1 DEF Grows, accountVars, WebInv, ServerOk
  <2>4. ServerOk'
    BY <1>2, <2>2 DEF ServerOk, WebInv, accountVars
  <2>5. ServerGoes
    BY <1>2, <2>3, <2>4 DEF ServerGoes, WebInv, Shape
  <2>6. PICK seat \in Known' : seat = calls[c].seat
    BY <2>1
  <2>7. CallsGo
    BY <1>1, <1>3, <2>3, <2>6, SeatAnswer
  <2> QED BY <2>5, <2>7
<1>4. CASE Answer(c, "INTERNAL_ERROR") /\ UNCHANGED <<tokens, cache>>
  <2>1. ServerGoes
    BY <1>2, <1>4, ServerStays DEF Known
  <2> QED BY <1>4, <2>1, AnswerOk DEF ServerGoes
<1> QED BY <1>3, <1>4 DEF JoinStoresSession

\* Every step of the server.
LEMMA ServerStepOk == ASSUME WebInv, ServerStep PROVE ServerGoes /\ CallsGo
<1>1. ASSUME NEW c \in Call, Handle(c) PROVE ServerGoes /\ CallsGo
  BY <1>1, KnownStep, StartStep, LogoutStep, ReadStep, CreateCheckStep, CreateStep,
     JoinLooksUpStep, JoinTakesSeatStep, JoinStoresStep DEF Handle
<1>2. ASSUME CacheExpires \/ TokenExpires \/ MatchMoves PROVE ServerGoes /\ CallsGo
  <2>1. UNCHANGED <<accountVars, calls, room.host>> /\ DOMAIN room' = DOMAIN room
    BY <1>2 DEF CacheExpires, TokenExpires, MatchMoves, roomVars, WebInv, Shape
  <2>2. Known \subseteq Known' /\ \A e \in cache' : e \in cache
    BY <1>2 DEF CacheExpires, TokenExpires, MatchMoves, roomVars, cacheVars, Known
  <2>3. ServerGoes
    BY <2>1, <2>2, ServerStays
  <2> QED BY <2>1, <2>3, CallsStay DEF ServerGoes
<1>3. ASSUME LoginLapses PROVE ServerGoes /\ CallsGo
  <2>1. PICK i \in DOMAIN logins : logins' = Without(i)
    BY <1>3 DEF LoginLapses, LoginExpires
  <2>2. ServerGoes
    BY <1>3, <2>1, WithoutStep DEF LoginLapses, LoginExpires, cacheVars
  <2> QED BY <1>3, <2>2, CallsStay DEF LoginLapses, ServerGoes
<1>4. ASSUME Grant, UNCHANGED httpVars PROVE ServerGoes /\ CallsGo
  <2>1. /\ UNCHANGED <<accounts, logins, game, room, tokens, cache, lapsed, calls>>
        /\ grants \subseteq grants' /\ grants' \subseteq accounts
    BY <1>4 DEF Grant, httpVars, roomVars, cacheVars, WebInv, ServerOk
  <2>2. Grows
    BY <2>1 DEF Grows, WebInv, ServerOk, Known
  <2>3. ServerOk'
    BY <2>1 DEF WebInv, ServerOk, Known
  <2>4. ServerGoes
    BY <2>1, <2>2, <2>3 DEF ServerGoes, WebInv, Shape
  <2> QED BY <2>1, <2>2, <2>4, CallsStay
<1> QED BY <1>1, <1>2, <1>3, <1>4 DEF ServerStep

-----------------------------------------------------------------------------
(* The browsers' pages *)

\* What a step of a browser leaves alone of the server.
ServerStill == UNCHANGED <<accountVars, room, tokens, cache, lapsed>>

\* What does not change keeps what holds.
LEMMA StillGoes == ASSUME WebInv, ServerStill PROVE ServerGoes /\ Grows
<1>1. ServerGoes
  BY ServerStays DEF ServerStill, Known
<1> QED BY <1>1 DEF ServerGoes

\* A page that keeps its cookie and keeps or forgets its session.
LEMMA PageKeeps ==
    ASSUME WebInv, Grows, NEW t \in Tab, NEW page, tab' = [tab EXCEPT ![t] = page],
           DOMAIN page = TabField, page.cookie = tab[t].cookie, page.stored \in {0, tab[t].stored}
    PROVE  TabsGo
<1>1. TabOkNext(t, tab[t])
  BY TabOkGrows DEF WebInv
<1>2. TabOkNext(t, page)
  BY <1>1 DEF TabOkNext
<1> QED BY <1>2, OneTab

\* The fields of a tab.
LEMMA TabShape == ASSUME WebInv, NEW t \in Tab PROVE DOMAIN tab[t] = TabField
BY DEF WebInv, Shape

\* A call that carries the tab's cookie.
LEMMA CookieCall ==
    ASSUME WebInv, Grows, NEW t \in Tab, NEW kind, kind \notin {"register", "login"}
    PROVE  DOMAIN WithCookie(t, kind) = CallField /\ CallOkNext(WithCookie(t, kind))
<1>1. /\ DOMAIN WithCookie(t, kind) = CallField /\ WithCookie(t, kind).kind = kind
      /\ WithCookie(t, kind).token = tab[t].cookie /\ WithCookie(t, kind).stage = "sent"
      /\ WithCookie(t, kind).status = "none"
  BY DEF WithCookie, Request, Over, CallField
<1>2. TabOkNext(t, tab[t])
  BY TabOkGrows DEF WebInv
<1> QED BY <1>1, <1>2 DEF CallOkNext, TabOkNext

\* A page that asks keeps what it has stored.
LEMMA AskOk ==
    ASSUME WebInv, Grows, NEW t \in Tab, NEW c \in Call, NEW request, NEW page,
           DOMAIN request = CallField, CallOkNext(request), Ask(t, c, request, page)
    PROVE  CallsGo /\ TabsGo
<1>1. CallsGo
  BY OneCall DEF Ask
<1> DEFINE next == [tab[t] EXCEPT !.page = page, !.waiting = c]
<1>2. /\ DOMAIN next = TabField /\ next.cookie = tab[t].cookie /\ next.stored = tab[t].stored
  BY TabShape DEF TabField
<1>3. tab' = [tab EXCEPT ![t] = next]
  BY DEF Ask, WebInv, Shape
<1>4. TabsGo
  <2> HIDE DEF next
  <2> QED BY <1>2, <1>3, PageKeeps
<1> QED BY <1>1, <1>4

\* A free call is a call.
LEMMA NewCallIsOne == ASSUME FreeCall # {} PROVE NewCall \in Call
BY DEF FreeCall, NewCall

\* A page that asks with its cookie.
LEMMA CookieStep ==
    ASSUME WebInv, NEW t \in Tab,
           OpenGames(t) \/ LogOut(t) \/ AskForRoom(t) \/ (\E c \in Call : GotMe(t, c))
    PROVE  ServerGoes /\ CallsGo /\ TabsGo
<1>1. ServerStill
  BY DEF OpenGames, LogOut, AskForRoom, GotMe, onlyHttp, roomVars, cacheVars, ServerStill
<1>2. PICK c \in Call, kind \in {"me", "logout", "create", "owned"} :
          \E page : Ask(t, c, WithCookie(t, kind), page)
  BY NewCallIsOne DEF OpenGames, LogOut, AskForRoom, GotMe
<1>3. Grows /\ ServerGoes
  BY <1>1, StillGoes
<1>4. PICK request : request = WithCookie(t, kind)
  OBVIOUS
<1>5. DOMAIN request = CallField /\ CallOkNext(request)
  BY <1>3, <1>4, CookieCall
<1> QED BY <1>2, <1>3, <1>4, <1>5, AskOk

\* Asking without the cookie.
LEMMA PlainStep ==
    ASSUME WebInv, NEW t \in Tab,
           OpenTv(t) \/ (\E name \in Name : Submit(t, name))
              \/ (\E u \in User, kind \in {"login", "register"} : SubmitAccount(t, kind, u))
    PROVE  ServerGoes /\ CallsGo /\ TabsGo
<1>1. ServerStill
  BY DEF OpenTv, Submit, SubmitAccount, onlyHttp, roomVars, cacheVars, ServerStill
<1>2. Grows /\ ServerGoes
  BY <1>1, StillGoes
<1>3. FreeCall # {}
  BY DEF OpenTv, Submit, SubmitAccount
<1>4. PICK request, page : /\ DOMAIN request = CallField /\ CallOkNext(request)
                          /\ Ask(t, NewCall, request, page)
  <2>1. CASE OpenTv(t)
    BY <1>2, <2>1, FreshCall DEF OpenTv
  <2>2. ASSUME NEW name \in Name, Submit(t, name)
        PROVE \E request, page : /\ DOMAIN request = CallField /\ CallOkNext(request)
                                /\ Ask(t, NewCall, request, page)
    <3> DEFINE request == [Request("join", t) EXCEPT !.rid = Rid(t), !.name = name]
    <3>1. /\ DOMAIN request = CallField /\ request.kind = "join" /\ request.token = 0
          /\ request.status = "none" /\ request.stage = "sent"
      BY DEF Request, Over, CallField
    <3>2. CallOkNext(request)
      <4> HIDE DEF request
      <4> QED BY <1>2, <3>1 DEF CallOkNext, Grows
    <3> QED BY <2>2, <3>1, <3>2 DEF Submit
  <2>3. ASSUME NEW u \in User, NEW kind \in {"login", "register"}, SubmitAccount(t, kind, u)
        PROVE \E request, page : /\ DOMAIN request = CallField /\ CallOkNext(request)
                                /\ Ask(t, NewCall, request, page)
    <3> DEFINE request == [Request(kind, t) EXCEPT !.user = u]
    <3>1. /\ DOMAIN request = CallField /\ request.kind = kind /\ request.token = 0
          /\ request.user = u /\ request.stage = "sent"
      BY DEF Request, Over, CallField
    <3>2. CallOkNext(request)
      <4> HIDE DEF request
      <4> QED BY <1>2, <3>1 DEF CallOkNext, Grows
    <3> QED BY <2>3, <3>1, <3>2 DEF SubmitAccount
  <2> QED BY <2>1, <2>2, <2>3
<1> QED BY <1>2, <1>3, <1>4, NewCallIsOne, AskOk

\* A request failed, was refused or was given up: the call is over or goes on unheard.
LEMMA FailedOk == ASSUME WebInv, Grows, NEW t, tab' = Failed(t) PROVE TabsGo
<1>1. CASE t \in Tab
  <2> DEFINE next == [tab[t] EXCEPT !.page = AfterFailure[tab[t].page], !.waiting = 0]
  <2>1. DOMAIN next = TabField /\ next.cookie = tab[t].cookie /\ next.stored = tab[t].stored
    BY <1>1, TabShape DEF TabField
  <2>2. tab' = [tab EXCEPT ![t] = next]
    BY <1>1 DEF Failed, WebInv, Shape
  <2> HIDE DEF next
  <2> QED BY <1>1, <2>1, <2>2, PageKeeps
<1>2. CASE t \notin Tab
  <2>1. DOMAIN tab' = Tab /\ \A q \in Tab : tab'[q] = tab[q]
    BY <1>2 DEF Failed, WebInv, Shape
  <2> QED BY <2>1, TabOkGrows DEF WebInv, Shape, TabsGo
<1> QED BY <1>1, <1>2

\* A call that is over says nothing.
LEMMA CallEnds ==
    ASSUME WebInv, Grows, NEW c, calls' = [calls EXCEPT ![c] = Over] PROVE CallsGo
<1>1. DOMAIN Over = CallField /\ CallOkNext(Over)
  BY DEF Grows, Over, CallField, CallOkNext
<1> QED BY <1>1, CallOkGrows DEF WebInv, Shape, CallsGo

\* A call failed, or nobody waits for it.
LEMMA FailureStep ==
    ASSUME WebInv, (\E c \in Call : ReceiveNothing(c)) \/ (\E t \in Tab : GiveUp(t))
    PROVE  ServerGoes /\ CallsGo /\ TabsGo
<1>1. ServerStill
  BY DEF ReceiveNothing, GiveUp, roomVars, cacheVars, ServerStill
<1>2. Grows /\ ServerGoes
  BY <1>1, StillGoes
<1>3. (\E c : calls' = [calls EXCEPT ![c] = Over]) \/ UNCHANGED calls
  BY DEF ReceiveNothing, GiveUp
<1>4. (\E t : tab' = Failed(t)) \/ UNCHANGED tab
  BY DEF ReceiveNothing, GiveUp
<1>5. CallsGo
  BY <1>2, <1>3, CallEnds, CallsStay
<1>6. TabsGo
  BY <1>2, <1>4, FailedOk, TabsStay
<1> QED BY <1>2, <1>5, <1>6

\* All tabs keep their cookies, and keep or forget their sessions.
LEMMA TabsKeep ==
    ASSUME WebInv, Grows, DOMAIN tab' = Tab,
           \A t \in Tab : /\ DOMAIN tab'[t] = TabField /\ tab'[t].cookie = tab[t].cookie
                         /\ tab'[t].stored \in {0, tab[t].stored}
    PROVE  TabsGo
<1>1. \A t \in Tab : TabOkNext(t, tab[t])
  BY TabOkGrows DEF WebInv
<1> QED BY <1>1 DEF TabOkNext, TabsGo

\* A good answer of which the page keeps nothing, and leaving a page.
LEMMA PageStep ==
    ASSUME WebInv, NEW t \in Tab,
           \/ \E c \in Call : GotOwned(t, c) \/ GotAvailability(t, c) \/ GotTv(t, c)
           \/ Reload(t) \/ FollowLink(t)
    PROVE  ServerGoes /\ CallsGo /\ TabsGo
<1>1. ServerStill
  BY DEF GotOwned, GotAvailability, GotTv, Reload, FollowLink, onlyHttp, roomVars, cacheVars,
         serverVars, httpVars, ServerStill
<1>2. Grows /\ ServerGoes
  BY <1>1, StillGoes
<1>3. (\E c : calls' = [calls EXCEPT ![c] = Over]) \/ UNCHANGED calls
  BY DEF GotOwned, GotAvailability, GotTv, Reload, FollowLink, serverVars, httpVars
<1>4. CallsGo
  BY <1>2, <1>3, CallEnds, CallsStay
<1>5. /\ DOMAIN tab' = Tab
      /\ \A q \in Tab : /\ DOMAIN tab'[q] = TabField /\ tab'[q].cookie = tab[q].cookie
                        /\ tab'[q].stored \in {0, tab[q].stored}
  <2>1. CASE \E c \in Call : GotOwned(t, c)
    <3> DEFINE next(page) == [tab[t] EXCEPT !.waiting = 0, !.page = page]
    <3>1. DOMAIN tab = Tab /\ DOMAIN tab[t] = TabField
      BY DEF WebInv, Shape
    <3>2. PICK page : tab' = [tab EXCEPT ![t] = next(page)]
      BY <2>1, <3>1 DEF GotOwned
    <3>3. /\ DOMAIN next(page) = TabField /\ next(page).cookie = tab[t].cookie
          /\ next(page).stored = tab[t].stored
      BY <3>1 DEF TabField
    <3> HIDE DEF next
    <3>4. \A q \in Tab : DOMAIN tab[q] = TabField
      BY DEF WebInv, Shape
    <3> QED BY <3>1, <3>2, <3>3, <3>4
  <2>2. CASE \E c \in Call : GotAvailability(t, c)
    BY <2>2 DEF GotAvailability, WebInv, Shape, TabField
  <2>3. CASE \E c \in Call : GotTv(t, c)
    BY <2>3 DEF GotTv, Live, WebInv, Shape, TabField
  <2>4. CASE Reload(t) \/ FollowLink(t)
    <3> DEFINE next == [tab[t] EXCEPT !.page = "away", !.waiting = 0, !.session = 0,
                                      !.view = 0, !.pending = FALSE]
    <3>1. DOMAIN tab = Tab /\ DOMAIN tab[t] = TabField
      BY DEF WebInv, Shape
    <3>2. tab' = [tab EXCEPT ![t] = next]
      BY <2>4, <3>1 DEF Reload, FollowLink, Away
    <3>3. DOMAIN next = TabField /\ next.cookie = tab[t].cookie /\ next.stored = tab[t].stored
      BY <3>1 DEF TabField
    <3> HIDE DEF next
    <3>4. \A q \in Tab : DOMAIN tab[q] = TabField
      BY DEF WebInv, Shape
    <3> QED BY <3>1, <3>2, <3>3, <3>4
  <2> QED BY <2>1, <2>2, <2>3, <2>4
<1> QED BY <1>2, <1>4, <1>5, TabsKeep

\* The cookie a good answer sets, or a logout takes away.
LEMMA AccountStep ==
    ASSUME WebInv, NEW t \in Tab, NEW c \in Call, GotAccount(t, c) \/ GotLogout(t, c)
    PROVE  ServerGoes /\ CallsGo /\ TabsGo
<1>1. ServerStill
  BY DEF GotAccount, GotLogout, onlyHttp, roomVars, cacheVars, ServerStill
<1>2. Grows /\ ServerGoes
  BY <1>1, StillGoes
<1>3. CallOkNext(calls[c]) /\ TabOkNext(t, tab[t]) /\ DOMAIN tab[t] = TabField
  BY <1>2, CallOkGrows, TabOkGrows DEF WebInv, Shape
<1>4. CASE GotAccount(t, c)
  <2> DEFINE call == [Request("me", t) EXCEPT !.token = calls[c].token]
             page == [tab[t] EXCEPT !.cookie = calls[c].token, !.page = "loading"]
  <2>1. /\ DOMAIN call = CallField /\ call.kind = "me" /\ call.token = calls[c].token
        /\ call.stage = "sent"
    BY DEF Request, Over, CallField
  <2>2. CallOkNext(call)
    <3> HIDE DEF call
    <3> QED BY <1>3, <2>1 DEF CallOkNext
  <2>3. /\ DOMAIN page = TabField /\ page.cookie = calls[c].token /\ page.stored = tab[t].stored
    BY <1>3 DEF TabField
  <2>4. TabOkNext(t, page)
    <3> HIDE DEF page
    <3> QED BY <1>3, <2>3 DEF TabOkNext, CallOkNext
  <2>5. calls' = [calls EXCEPT ![c] = call] /\ tab' = [tab EXCEPT ![t] = page]
    BY <1>4 DEF GotAccount, WebInv, Shape
  <2> HIDE DEF call, page
  <2> QED BY <1>2, <2>1, <2>2, <2>3, <2>4, <2>5, OneCall, OneTab
<1>5. CASE GotLogout(t, c)
  <2> DEFINE page == [tab[t] EXCEPT !.cookie = 0, !.page = "out", !.waiting = 0]
  <2>1. DOMAIN page = TabField /\ page.cookie = 0 /\ page.stored = tab[t].stored
    BY <1>3 DEF TabField
  <2>2. tab' = [tab EXCEPT ![t] = page]
    BY <1>5 DEF GotLogout, WebInv, Shape
  <2>3. TabOkNext(t, page)
    <3> HIDE DEF page
    <3> QED BY <1>2, <1>3, <2>1 DEF TabOkNext, Grows
  <2>4. CallsGo
    BY <1>2, <1>5, CallEnds DEF GotLogout
  <2> HIDE DEF page
  <2> QED BY <1>2, <2>1, <2>2, <2>3, <2>4, OneTab
<1> QED BY <1>4, <1>5

\* The host session is stored once the room is there.
LEMMA GotRoomStep ==
    ASSUME WebInv, NEW t \in HostTab, NEW c \in Call, GotRoom(t, c)
    PROVE  ServerGoes /\ CallsGo /\ TabsGo
<1>1. ServerStill
  BY DEF GotRoom, onlyHttp, roomVars, cacheVars, ServerStill
<1>2. Grows /\ ServerGoes
  BY <1>1, StillGoes
<1>3. t \in Tab /\ t \notin PlayerTab
  BY WebClientAssumption
<1>4. TabOkNext(t, tab[t]) /\ DOMAIN tab[t] = TabField
  BY <1>2, <1>3, TabOkGrows DEF WebInv, Shape
<1>5. room'.host # NoUser
  <2>1. room.host # NoUser
    BY DEF GotRoom, Receives, WebInv, CallOk
  <2> QED BY <1>2, <2>1 DEF Grows
<1> DEFINE page == [tab[t] EXCEPT !.stored = HostSeat, !.page = "opening"]
<1>6. DOMAIN page = TabField /\ page.cookie = tab[t].cookie
  BY <1>4 DEF TabField
<1>7. tab' = [tab EXCEPT ![t] = page]
  BY <1>3 DEF GotRoom, WebInv, Shape
<1>8. TabOkNext(t, page)
  <2> HIDE DEF page
  <2> QED BY <1>3, <1>4, <1>5, <1>6 DEF TabOkNext
<1>9. CallsGo
  BY <1>2, FreshCall, OneCall DEF GotRoom
<1> HIDE DEF page
<1> QED BY <1>2, <1>3, <1>6, <1>7, <1>8, <1>9, OneTab

\* A seat's session is stored as it was answered.
LEMMA GotSeatStep ==
    ASSUME WebInv, NEW t \in PlayerTab, NEW c \in Call, GotSeat(t, c)
    PROVE  ServerGoes /\ CallsGo /\ TabsGo
<1>1. ServerStill
  BY DEF GotSeat, onlyHttp, roomVars, cacheVars, ServerStill
<1>2. Grows /\ ServerGoes
  BY <1>1, StillGoes
<1>3. t \in Tab /\ t \notin HostTab
  BY WebClientAssumption
<1>4. TabOkNext(t, tab[t]) /\ DOMAIN tab[t] = TabField
  BY <1>2, <1>3, TabOkGrows DEF WebInv, Shape
<1>5. calls[c].seat \in Known'
  BY <1>2 DEF GotSeat, Receives, WebInv, CallOk, Grows
<1> DEFINE page == [tab[t] EXCEPT !.stored = calls[c].seat, !.session = calls[c].seat,
                       !.page = "live", !.waiting = 0, !.view = 0, !.pending = FALSE]
<1>6. DOMAIN page = TabField /\ page.cookie = tab[t].cookie /\ page.stored = calls[c].seat
  BY <1>4 DEF TabField
<1>7. tab' = [tab EXCEPT ![t] = page]
  BY <1>3 DEF GotSeat, Live, WebInv, Shape
<1>8. TabOkNext(t, page)
  <2> HIDE DEF page
  <2> QED BY <1>3, <1>4, <1>5, <1>6 DEF TabOkNext
<1>9. CallsGo
  BY <1>2, CallEnds DEF GotSeat
<1> HIDE DEF page
<1> QED BY <1>2, <1>3, <1>6, <1>7, <1>8, <1>9, OneTab

\* The join page is opened, with a stored session or without.
LEMMA OpenJoinStep ==
    ASSUME WebInv, NEW t \in Tab, OpenJoin(t) PROVE ServerGoes /\ CallsGo /\ TabsGo
<1>1. ServerStill
  BY DEF OpenJoin, onlyHttp, roomVars, cacheVars, ServerStill
<1>2. Grows /\ ServerGoes
  BY <1>1, StillGoes
<1>3. CallsGo
  <2>1. CASE UNCHANGED calls
    BY <1>2, <2>1, CallsStay
  <2>2. CASE FreeCall # {} /\ calls' = [calls EXCEPT ![NewCall] = Request("availability", t)]
    BY <1>2, <2>2, NewCallIsOne, FreshCall, OneCall
  <2> QED BY <2>1, <2>2 DEF OpenJoin
<1>4. /\ DOMAIN tab' = Tab
      /\ \A q \in Tab : /\ DOMAIN tab'[q] = TabField /\ tab'[q].cookie = tab[q].cookie
                        /\ tab'[q].stored \in {0, tab[q].stored}
  BY DEF OpenJoin, Live, WebInv, Shape, TabField
<1> QED BY <1>2, <1>3, <1>4, TabsKeep

-----------------------------------------------------------------------------
(* The hooks, and what happens to their connections *)

\* The hooks at most forget a session.
LEMMA HooksStep ==
    ASSUME WebInv, NEW t \in Tab, Hooks(t) PROVE ServerGoes /\ CallsGo /\ TabsGo
<1>1. ServerStill /\ UNCHANGED calls
  BY DEF Hooks, RetryConnection, SendEvent, TimerFires, NetEventArrives, NetworkChanges, EventArrives,
         serverVars, httpVars, roomVars, cacheVars, ServerStill
<1>2. Grows /\ ServerGoes
  BY <1>1, StillGoes
<1>3. /\ DOMAIN tab' = Tab
      /\ \A q \in Tab : /\ DOMAIN tab'[q] = TabField /\ tab'[q].cookie = tab[q].cookie
                        /\ tab'[q].stored \in {0, tab[q].stored}
  <2>1. ASSUME NEW c, Becomes(t, c)
        PROVE  /\ DOMAIN tab' = Tab
               /\ \A q \in Tab : /\ DOMAIN tab'[q] = TabField /\ tab'[q].cookie = tab[q].cookie
                                 /\ tab'[q].stored \in {0, tab[q].stored}
    BY <2>1 DEF Becomes, WebInv, Shape, TabField
  <2>2. ASSUME NEW e, tab' = Shown(t, e) \/ UNCHANGED tab
        PROVE  /\ DOMAIN tab' = Tab
               /\ \A q \in Tab : /\ DOMAIN tab'[q] = TabField /\ tab'[q].cookie = tab[q].cookie
                                 /\ tab'[q].stored \in {0, tab[q].stored}
    <3>1. \A q \in Tab : DOMAIN tab[q] = TabField
      BY DEF WebInv, Shape
    <3>2. CASE UNCHANGED tab
      BY <3>1, <3>2 DEF WebInv, Shape
    <3>3. CASE tab' = [tab EXCEPT ![t].view = e.v, ![t].pending = FALSE]
      BY <3>1, <3>3 DEF WebInv, Shape, TabField
    <3>4. CASE tab' = [tab EXCEPT ![t].pending = FALSE]
      BY <3>1, <3>4 DEF WebInv, Shape, TabField
    <3>5. CASE tab' = [tab EXCEPT ![t].stored = 0]
      BY <3>1, <3>5 DEF WebInv, Shape, TabField
    <3> QED BY <2>2, <3>2, <3>3, <3>4, <3>5 DEF Shown
  <2>3. CASE SendEvent(t)
    BY <2>3 DEF SendEvent, WebInv, Shape, TabField
  <2>4. CASE NetworkChanges(t)
    BY <2>4 DEF NetworkChanges, WebInv, Shape
  <2>5. CASE \E s \in Sock : EventArrives(t, s)
    <3>1. (\E e : tab' = Shown(t, e) \/ UNCHANGED tab) \/ (\E c : Becomes(t, c))
      BY <2>5 DEF EventArrives, Overtaken
    <3> QED BY <3>1, <2>1, <2>2
  <2>6. CASE RetryConnection(t) \/ TimerFires(t) \/ NetEventArrives(t)
    <3>1. \E c : Becomes(t, c)
      BY <2>6 DEF RetryConnection, TimerFires, NetEventArrives
    <3> QED BY <3>1, <2>1
  <2> QED BY <2>3, <2>4, <2>5, <2>6 DEF Hooks
<1> QED BY <1>1, <1>2, <1>3, CallsStay, TabsKeep

\* Steps that leave the calls and the server alone.
LEMMA QuietStep ==
    ASSUME WebInv, ServerStill, UNCHANGED <<calls, tab>> PROVE ServerGoes /\ CallsGo /\ TabsGo
BY StillGoes, CallsStay, TabsStay

\* The network and the gateway leave them alone.
LEMMA NetworkStep ==
    ASSUME WebInv, (\E t \in Tab, s \in Sock : Network(t, s)) \/ RoomChanges \/ UNCHANGED vars
    PROVE  ServerGoes /\ CallsGo /\ TabsGo
<1>1. ServerStill /\ UNCHANGED <<calls, tab>>
  <2>1. ASSUME NEW t \in Tab, NEW s \in Sock, Network(t, s) PROVE ServerStill /\ UNCHANGED <<calls, tab>>
    BY <2>1 DEF Network, SocketOpens, SocketBreaks, ClosingEnds, Authenticates, AuthTimesOut,
                GatewayCloses, GatewayHandlesEvent, onlyRt, serverVars, httpVars, roomVars, cacheVars,
                ServerStill
  <2>2. ASSUME RoomChanges \/ UNCHANGED vars PROVE ServerStill /\ UNCHANGED <<calls, tab>>
    BY <2>2 DEF RoomChanges, vars, serverVars, httpVars, roomVars, cacheVars, ServerStill
  <2> QED BY <2>1, <2>2
<1> QED BY <1>1, QuietStep

-----------------------------------------------------------------------------
(* The invariant, and what follows from it *)

\* The invariant holds at the start.
LEMMA WebInit == Init => WebInv
<1> SUFFICES ASSUME Init PROVE WebInv
  OBVIOUS
<1>1. ServerOk
  BY DEF Init, AccountsInit, HttpInit, ServerOk
<1>2. Shape
  BY DEF Init, HttpInit, Shape, Over, NewTab, CallField, TabField
<1>3. Len(logins) = 0
  BY DEF Init, AccountsInit
<1>4. \A c \in Call : CallOk(calls[c])
  BY <1>3 DEF Init, HttpInit, Over, CallOk
<1>5. \A t \in Tab : TabOk(t, tab[t])
  BY <1>3 DEF Init, NewTab, TabOk
<1> QED BY <1>1, <1>2, <1>4, <1>5 DEF WebInv

\* Every step keeps the invariant.
LEMMA WebStep == ASSUME WebInv, [Next]_vars PROVE WebInv'
<1>1. ASSUME ServerStep, UNCHANGED tab PROVE ServerGoes /\ CallsGo /\ TabsGo
  BY <1>1, ServerStepOk, TabsStay DEF ServerGoes
<1>2. ASSUME NEW t \in HostTab, HostPage(t) \/ OpenTv(t) PROVE ServerGoes /\ CallsGo /\ TabsGo
  <2>1. t \in Tab
    BY WebClientAssumption
  <2>2. CASE OpenTv(t)
    BY <2>1, <2>2, PlainStep
  <2>3. CASE OpenGames(t) \/ LogOut(t) \/ AskForRoom(t) \/ (\E c \in Call : GotMe(t, c))
    BY <2>1, <2>3, CookieStep
  <2>4. CASE \E u \in User, kind \in {"login", "register"} : SubmitAccount(t, kind, u)
    BY <2>1, <2>4, PlainStep
  <2>5. ASSUME NEW c \in Call, GotOwned(t, c) \/ GotTv(t, c)
        PROVE  ServerGoes /\ CallsGo /\ TabsGo
    BY <2>1, <2>5, PageStep
  <2>6. ASSUME NEW c \in Call, GotAccount(t, c) \/ GotLogout(t, c) \/ GotRoom(t, c)
        PROVE  ServerGoes /\ CallsGo /\ TabsGo
    BY <2>1, <2>6, AccountStep, GotRoomStep
  <2> QED BY <1>2, <2>2, <2>3, <2>4, <2>5, <2>6 DEF HostPage
<1>3. ASSUME NEW t \in PlayerTab, GuestPage(t) PROVE ServerGoes /\ CallsGo /\ TabsGo
  <2>1. t \in Tab
    BY WebClientAssumption
  <2>2. CASE \E name \in Name : Submit(t, name)
    BY <2>1, <2>2, PlainStep
  <2>3. CASE OpenJoin(t)
    BY <2>1, <2>3, OpenJoinStep
  <2>4. ASSUME NEW c \in Call, GotAvailability(t, c) \/ GotSeat(t, c)
        PROVE  ServerGoes /\ CallsGo /\ TabsGo
    BY <2>1, <2>4, PageStep, GotSeatStep
  <2> QED BY <1>3, <2>2, <2>3, <2>4 DEF GuestPage
<1>4. ServerGoes /\ CallsGo /\ TabsGo
  BY <1>1, <1>2, <1>3, FailureStep, PageStep, HooksStep, NetworkStep DEF Next
<1> QED BY <1>4, StepOk

\* The invariant holds.
LEMMA WebInvariant == Spec => []WebInv
BY WebInit, WebStep, PTL DEF Spec

\* Whoever hosts owns the active game, and a tab with a host session has a room.
THEOREM HostsAreOwners == Spec => []HostsOwnTheGame
<1>1. WebInv => HostsOwnTheGame
  BY WebClientAssumption DEF WebInv, ServerOk, TabOk, HostsOwnTheGame
<1> QED BY <1>1, WebInvariant, PTL

\* Every seat that is answered, remembered or stored has had its session stored.
THEOREM GivenSeatsAreKnown == Spec => []GivenSeatsAuthenticate
<1>1. WebInv => GivenSeatsAuthenticate
  <2> SUFFICES ASSUME WebInv PROVE GivenSeatsAuthenticate
    OBVIOUS
  <2>1. \A c \in Call : calls[c].kind = "join" /\ calls[c].status = "ok" => calls[c].seat \in Known
    BY DEF WebInv, CallOk
  <2>2. \A e \in cache : e.seat \in Known
    BY DEF WebInv, ServerOk
  <2>3. \A t \in PlayerTab : tab[t].stored # 0 => tab[t].stored \in Known
    BY WebClientAssumption DEF WebInv, TabOk
  <2> QED BY <2>1, <2>2, <2>3 DEF GivenSeatsAuthenticate, Known
<1> QED BY <1>1, WebInvariant, PTL

-----------------------------------------------------------------------------
(* The seat of a request id *)

Rids == PlayerTab \X Nat

\* A join that may still take a seat.
Taking(call) == call.kind = "join" /\ call.stage # "answered"
SeatsOf(rid) == {i \in DOMAIN seats : seats[i] = rid}

\* How far one call for the request id is.
JoinOk(call, rid) ==
    call.kind = "join" /\ call.rid = rid =>
        /\ call.seat # 0 => SeatsOf(rid) = {call.seat}
        /\ call.stage = "seated" => call.seat # 0
        /\ call.stage = "queued" => SeatsOf(rid) = {}
        /\ call.stage \in {"sent", "queued"} => call.seat = 0

\* One call at a time is about to take a seat, and only while none is taken; what was
\* taken is known to that call or to the cache.
SeatOk(rid) ==
    /\ \A c, d \in Call : Taking(calls[c]) /\ Taking(calls[d]) /\ calls[c].rid = rid
                             /\ calls[d].rid = rid => c = d
    /\ \A c \in Call : JoinOk(calls[c], rid)
    /\ \A e \in cache : e.rid = rid => SeatsOf(rid) = {e.seat}
    /\ SeatsOf(rid) = {} \/ (\E e \in cache : e.rid = rid)
         \/ \E c \in Call : calls[c].kind = "join" /\ calls[c].rid = rid /\ calls[c].stage = "seated"

SeatInv ==
    /\ seats \in Seq(Rids)
    /\ \A c \in Call : calls[c].kind = "join" => calls[c].rid \in Rids
    /\ \A t \in Tab : tab[t].mount \in Nat
    /\ \A rid \in Rids : rid \notin raced => SeatOk(rid)

\* A call as it was, another that is no join, or an answer without a seat.
CallQuiet(old, new) ==
    /\ old.kind = "join" /\ old.stage = "seated" => new = old
    /\ new.kind = "join" => /\ old.kind = "join" /\ new.rid = old.rid /\ new.seat = old.seat
                            /\ new.stage \in {old.stage, "answered"}

MountsGo == \A t \in Tab : tab'[t].mount \in {tab[t].mount, tab[t].mount + 1}

\* Steps that take no seat, look none up and remember none.
LEMMA QuietSeats ==
    ASSUME SeatInv, UNCHANGED <<seats, cache, raced>>, MountsGo,
           \A c \in Call : CallQuiet(calls[c], calls'[c])
    PROVE  SeatInv'
<1>1. ASSUME NEW rid \in Rids, SeatOk(rid) PROVE SeatOk(rid)'
  <2>1. SeatsOf(rid)' = SeatsOf(rid)
    BY DEF SeatsOf
  <2>2. (\A c, d \in Call : Taking(calls[c]) /\ Taking(calls[d]) /\ calls[c].rid = rid
                             /\ calls[d].rid = rid => c = d)'
    BY <1>1 DEF SeatOk, Taking, CallQuiet
  <2>3. ASSUME NEW c \in Call PROVE JoinOk(calls[c], rid)'
    BY <1>1, <2>1 DEF SeatOk, JoinOk, CallQuiet
  <2>4. (\A e \in cache : e.rid = rid => SeatsOf(rid) = {e.seat})'
    BY <1>1, <2>1 DEF SeatOk
  <2>5. (SeatsOf(rid) = {} \/ (\E e \in cache : e.rid = rid)
         \/ \E c \in Call : calls[c].kind = "join" /\ calls[c].rid = rid /\ calls[c].stage = "seated")'
    BY <1>1, <2>1 DEF SeatOk, CallQuiet
  <2> QED BY <2>2, <2>3, <2>4, <2>5 DEF SeatOk
<1> QED BY <1>1 DEF SeatInv, MountsGo, CallQuiet

\* One join goes on, and the other request ids have the seats and entries they had.
LEMMA OneJoin ==
    ASSUME SeatInv, NEW c \in Call, NEW call, DOMAIN calls = Call,
           calls' = [calls EXCEPT ![c] = call],
           call.kind = "join", call.rid \in Rids,
           calls[c].kind = "join" => calls[c].rid = call.rid,
           seats' \in Seq(Rids), MountsGo, raced \subseteq raced',
           \A rid \in Rids \ raced' : rid # call.rid =>
              SeatsOf(rid)' = SeatsOf(rid) /\ {e \in cache' : e.rid = rid} = {e \in cache : e.rid = rid},
           call.rid \notin raced' /\ SeatOk(call.rid) => SeatOk(call.rid)'
    PROVE  SeatInv'
<1>1. calls'[c] = call /\ \A d \in Call : d # c => calls'[d] = calls[d]
  OBVIOUS
<1>2. ASSUME NEW rid \in Rids \ raced', rid # call.rid PROVE SeatOk(rid)'
  <2>1. SeatOk(rid)
    BY DEF SeatInv
  <2>2. SeatsOf(rid)' = SeatsOf(rid)
    BY <1>2
  <2>3. \A e : (e \in cache' /\ e.rid = rid) <=> (e \in cache /\ e.rid = rid)
    <3>1. {e \in cache' : e.rid = rid} = {e \in cache : e.rid = rid}
      BY <1>2
    <3> QED BY <3>1
  <2>4. \A d \in Call : \/ calls'[d] = calls[d]
                        \/ ~(calls'[d].kind = "join" /\ calls'[d].rid = rid)
                              /\ ~(calls[d].kind = "join" /\ calls[d].rid = rid)
    BY <1>1, <1>2
  <2>5. (\A a, d \in Call : Taking(calls[a]) /\ Taking(calls[d]) /\ calls[a].rid = rid
                             /\ calls[d].rid = rid => a = d)'
    BY <2>1, <2>4 DEF SeatOk, Taking
  <2>6. ASSUME NEW d \in Call PROVE JoinOk(calls[d], rid)'
    BY <2>1, <2>2, <2>4 DEF SeatOk, JoinOk
  <2>7. (\A e \in cache : e.rid = rid => SeatsOf(rid) = {e.seat})'
    BY <2>1, <2>2, <2>3 DEF SeatOk
  <2>8. (SeatsOf(rid) = {} \/ (\E e \in cache : e.rid = rid)
         \/ \E d \in Call : calls[d].kind = "join" /\ calls[d].rid = rid /\ calls[d].stage = "seated")'
    BY <2>1, <2>2, <2>3, <2>4 DEF SeatOk
  <2> QED BY <2>5, <2>6, <2>7, <2>8 DEF SeatOk
<1>3. call.rid \notin raced' => SeatOk(call.rid)'
  BY DEF SeatInv
<1>4. \A d \in Call : calls'[d].kind = "join" => calls'[d].rid \in Rids
  BY <1>1 DEF SeatInv
<1> QED BY <1>2, <1>3, <1>4 DEF SeatInv, MountsGo

\* The fields of a call.
LEMMA JoinFields ==
    ASSUME WebInv, NEW c \in Call
    PROVE  DOMAIN calls = Call /\ DOMAIN calls[c] = CallField /\ DOMAIN tab = Tab
           /\ \A t \in Tab : DOMAIN tab[t] = TabField
BY DEF WebInv, Shape

\* An answer that names no seat.
LEMMA AnswerQuiet ==
    ASSUME WebInv, NEW c \in Call, NEW status, Answer(c, status),
           calls[c].kind = "join" => calls[c].stage # "seated"
    PROVE  \A d \in Call : CallQuiet(calls[d], calls'[d])
<1> DEFINE call == [calls[c] EXCEPT !.stage = "answered", !.status = status]
<1>1. calls' = [calls EXCEPT ![c] = call] /\ DOMAIN calls = Call /\ DOMAIN calls[c] = CallField
  BY JoinFields DEF Answer
<1>2. /\ call.kind = calls[c].kind /\ call.rid = calls[c].rid /\ call.seat = calls[c].seat
      /\ call.stage = "answered"
  BY <1>1 DEF CallField
<1> HIDE DEF call
<1> QED BY <1>1, <1>2 DEF CallQuiet

\* A request id is not the absence of one.
LEMMA RidIsGiven == \A rid \in Rids : rid # NoRid
<1> TAKE rid \in Rids
<1>1. PICK t \in PlayerTab, m \in Nat : rid = <<t, m>>
  BY DEF Rids
<1>2. <<t, m>> # <<>>
  <2>1. Len(<<t, m>>) = 2 /\ Len(<<>>) = 0
    OBVIOUS
  <2> QED BY <2>1
<1> QED BY <1>1, <1>2 DEF NoRid

\* A join that finds no entry: none of its seats was taken.
LEMMA LooksUpSeats == ASSUME WebInv, SeatInv, NEW c \in Call, JoinLooksUp(c), UNCHANGED tab
                      PROVE  SeatInv'
<1>1. calls[c].kind = "join" /\ calls[c].stage = "sent" /\ calls[c].rid \in Rids
  BY DEF JoinLooksUp, At, SeatInv
<1>2. UNCHANGED <<seats, cache, raced>> /\ seats' \in Seq(Rids) /\ MountsGo
  BY DEF JoinLooksUp, roomVars, cacheVars, MountsGo, SeatInv
<1>3. /\ DOMAIN calls = Call /\ DOMAIN calls[c] = CallField
      /\ \A rid : SeatsOf(rid)' = SeatsOf(rid)
  BY <1>2, JoinFields DEF SeatsOf
<1>4. ASSUME NEW status, Answer(c, status) PROVE SeatInv'
  BY <1>1, <1>2, <1>4, AnswerQuiet, QuietSeats
<1>5. CASE Cached(calls[c].rid) = {} /\ Advance(c, "queued")
  <2> DEFINE call == [calls[c] EXCEPT !.stage = "queued"]
  <2>1. calls' = [calls EXCEPT ![c] = call]
    BY <1>3, <1>5 DEF Advance
  <2>2. /\ call.kind = "join" /\ call.rid = calls[c].rid /\ call.seat = calls[c].seat
        /\ call.stage = "queued"
    BY <1>1, <1>3 DEF CallField
  <2> HIDE DEF call
  <2>3. PICK rid \in Rids : rid = calls[c].rid
    BY <1>1
  <2>4. \A e \in cache : e.rid # rid
    <3>1. rid # NoRid
      BY RidIsGiven
    <3> QED BY <1>5, <2>3, <3>1 DEF Cached
  <2>5. ASSUME SeatOk(rid) PROVE SeatOk(rid)'
    <3>1. SeatsOf(rid) = {}
      BY <1>1, <2>3, <2>4, <2>5 DEF SeatOk, Taking
    <3>2. call.seat = 0
      BY <1>1, <2>2, <2>3, <2>5 DEF SeatOk, JoinOk
    <3>3. calls'[c] = call /\ \A d \in Call : d # c => calls'[d] = calls[d]
      BY <1>3, <2>1
    <3>4. (\A a, d \in Call : Taking(calls[a]) /\ Taking(calls[d]) /\ calls[a].rid = rid
                             /\ calls[d].rid = rid => a = d)'
      <4>1. \A d \in Call : Taking(calls'[d]) /\ calls'[d].rid = rid
                               => Taking(calls[d]) /\ calls[d].rid = rid
        BY <1>1, <2>2, <3>3 DEF Taking
      <4> QED BY <2>5, <4>1 DEF SeatOk
    <3>5. ASSUME NEW d \in Call PROVE JoinOk(calls[d], rid)'
      BY <1>3, <2>2, <2>5, <3>1, <3>2, <3>3 DEF SeatOk, JoinOk
    <3> QED BY <1>2, <1>3, <2>4, <3>1, <3>4, <3>5 DEF SeatOk
  <2> QED BY <1>1, <1>2, <1>3, <2>1, <2>2, <2>3, <2>5, OneJoin
<1>6. ASSUME NEW e \in Cached(calls[c].rid), AnswerSeat(c, "ok", e.seat) PROVE SeatInv'
  <2> DEFINE call == [calls[c] EXCEPT !.stage = "answered", !.status = "ok", !.seat = e.seat]
  <2>1. calls' = [calls EXCEPT ![c] = call]
    BY <1>3, <1>6 DEF AnswerSeat
  <2>2. /\ call.kind = "join" /\ call.rid = calls[c].rid /\ call.seat = e.seat
        /\ call.stage = "answered"
    BY <1>1, <1>3 DEF CallField
  <2> HIDE DEF call
  <2>3. PICK rid \in Rids : rid = calls[c].rid
    BY <1>1
  <2>4. e \in cache /\ e.rid = rid
    BY <2>3 DEF Cached
  <2>5. ASSUME SeatOk(rid) PROVE SeatOk(rid)'
    <3>1. SeatsOf(rid) = {e.seat}
      BY <2>4, <2>5 DEF SeatOk
    <3>2. calls'[c] = call /\ \A d \in Call : d # c => calls'[d] = calls[d]
      BY <1>3, <2>1
    <3>3. (\A a, d \in Call : Taking(calls[a]) /\ Taking(calls[d]) /\ calls[a].rid = rid
                             /\ calls[d].rid = rid => a = d)'
      <4>1. \A d \in Call : Taking(calls'[d]) /\ calls'[d].rid = rid
                               => Taking(calls[d]) /\ calls[d].rid = rid
        BY <2>2, <3>2 DEF Taking
      <4> QED BY <2>5, <4>1 DEF SeatOk
    <3>4. ASSUME NEW d \in Call PROVE JoinOk(calls[d], rid)'
      BY <1>3, <2>2, <2>5, <3>1, <3>2 DEF SeatOk, JoinOk
    <3> QED BY <1>2, <1>3, <2>4, <2>5, <3>3, <3>4 DEF SeatOk
  <2> QED BY <1>1, <1>2, <1>3, <2>1, <2>2, <2>3, <2>5, OneJoin
<1> QED BY <1>4, <1>5, <1>6 DEF JoinLooksUp

\* A seat is taken where none was.
LEMMA TakesSeatSeats == ASSUME WebInv, SeatInv, NEW c \in Call, JoinTakesSeat(c), UNCHANGED tab
                        PROVE  SeatInv'
<1>1. calls[c].kind = "join" /\ calls[c].stage = "queued" /\ calls[c].rid \in Rids
  BY DEF JoinTakesSeat, At, SeatInv
<1>2. UNCHANGED <<cache, raced>> /\ MountsGo
  BY DEF JoinTakesSeat, cacheVars, MountsGo
<1>3. DOMAIN calls = Call /\ DOMAIN calls[c] = CallField
  BY JoinFields
<1>4. ASSUME NEW status, Answer(c, status), UNCHANGED seats PROVE SeatInv'
  BY <1>1, <1>2, <1>4, AnswerQuiet, QuietSeats
<1>5. CASE /\ seats' = Append(seats, calls[c].rid)
           /\ calls' = [calls EXCEPT ![c] = Seated(@, Len(seats) + 1)]
  <2> DEFINE call == Seated(calls[c], Len(seats) + 1)
  <2>1. calls' = [calls EXCEPT ![c] = call]
    BY <1>3, <1>5
  <2>2. /\ call.kind = "join" /\ call.rid = calls[c].rid /\ call.seat = Len(seats) + 1
        /\ call.stage = "seated"
    BY <1>1, <1>3 DEF CallField, Seated
  <2> HIDE DEF call
  <2>3. PICK rid \in Rids : rid = calls[c].rid
    BY <1>1
  <2>4. /\ seats \in Seq(Rids) /\ seats' \in Seq(Rids) /\ Len(seats) \in Nat
        /\ DOMAIN seats' = DOMAIN seats \cup {Len(seats) + 1} /\ DOMAIN seats = 1 .. Len(seats)
        /\ seats'[Len(seats) + 1] = rid /\ \A i \in DOMAIN seats : seats'[i] = seats[i]
    BY <1>5, <2>3 DEF SeatInv
  <2>5. ASSUME NEW r \in Rids, r # rid PROVE SeatsOf(r)' = SeatsOf(r)
    BY <2>4, <2>5 DEF SeatsOf
  <2>6. ASSUME SeatOk(rid) PROVE SeatOk(rid)'
    <3>1. SeatsOf(rid) = {}
      BY <1>1, <2>3, <2>6 DEF SeatOk, JoinOk
    <3>2. SeatsOf(rid)' = {call.seat} /\ call.seat # 0
      BY <2>2, <2>4, <3>1 DEF SeatsOf
    <3>3. calls'[c] = call /\ \A d \in Call : d # c => calls'[d] = calls[d]
      BY <1>3, <2>1
    <3>4. (\A a, d \in Call : Taking(calls[a]) /\ Taking(calls[d]) /\ calls[a].rid = rid
                             /\ calls[d].rid = rid => a = d)'
      <4>1. \A d \in Call : Taking(calls'[d]) /\ calls'[d].rid = rid
                               => Taking(calls[d]) /\ calls[d].rid = rid
        BY <1>1, <2>2, <3>3 DEF Taking
      <4> QED BY <2>6, <4>1 DEF SeatOk
    <3>5. ASSUME NEW d \in Call PROVE JoinOk(calls[d], rid)'
      <4>1. CASE d = c
        BY <2>2, <3>2, <3>3, <4>1 DEF JoinOk
      <4>2. CASE d # c
        <5>1. calls[d].kind = "join" /\ calls[d].rid = rid =>
                 calls[d].seat = 0 /\ calls[d].stage = "answered"
          <6>1. Taking(calls[d]) /\ calls[d].rid = rid => FALSE
            BY <1>1, <2>3, <2>6, <4>2 DEF SeatOk, Taking
          <6>2. JoinOk(calls[d], rid)
            BY <2>6 DEF SeatOk
          <6> QED BY <3>1, <6>1, <6>2 DEF JoinOk, Taking
        <5> QED BY <3>3, <4>2, <5>1 DEF JoinOk
      <4> QED BY <4>1, <4>2
    <3>6. \A e \in cache : e.rid # rid
      BY <2>6, <3>1 DEF SeatOk
    <3>7. \E d \in Call : calls'[d].kind = "join" /\ calls'[d].rid = rid /\ calls'[d].stage = "seated"
      BY <2>2, <2>3, <3>3
    <3> QED BY <1>2, <3>4, <3>5, <3>6, <3>7 DEF SeatOk
  <2> QED BY <1>1, <1>2, <1>3, <2>1, <2>2, <2>3, <2>4, <2>5, <2>6, OneJoin
<1> QED BY <1>4, <1>5 DEF JoinTakesSeat

\* The answer is remembered with its seat; where that fails, the request id has raced.
LEMMA StoresSeats == ASSUME WebInv, SeatInv, NEW c \in Call, JoinStoresSession(c), UNCHANGED tab
                     PROVE  SeatInv'
<1>1. calls[c].kind = "join" /\ calls[c].stage = "seated"
  BY DEF JoinStoresSession, At
<1>2. PICK rid \in Rids : rid = calls[c].rid
  BY <1>1 DEF SeatInv
<1>3. UNCHANGED seats /\ seats' \in Seq(Rids) /\ MountsGo /\ \A r : SeatsOf(r)' = SeatsOf(r)
  BY DEF JoinStoresSession, MountsGo, SeatInv, SeatsOf
<1>4. DOMAIN calls = Call /\ DOMAIN calls[c] = CallField
  BY JoinFields
<1>5. CASE /\ cache' = Remember(calls[c].rid, calls[c].name, calls[c].seat)
           /\ AnswerSeat(c, "ok", calls[c].seat) /\ UNCHANGED raced
  <2> DEFINE call == [calls[c] EXCEPT !.stage = "answered", !.status = "ok", !.seat = calls[c].seat]
  <2>1. calls' = [calls EXCEPT ![c] = call]
    BY <1>4, <1>5 DEF AnswerSeat
  <2>2. /\ call.kind = "join" /\ call.rid = rid /\ call.seat = calls[c].seat
        /\ call.stage = "answered"
    BY <1>1, <1>2, <1>4 DEF CallField
  <2> HIDE DEF call
  <2> DEFINE entry == [rid |-> rid, name |-> calls[c].name, seat |-> calls[c].seat]
  <2>3. cache' = {e \in cache : e.rid # rid} \cup {entry}
    <3>1. rid # NoRid
      BY RidIsGiven
    <3> QED BY <1>2, <1>5, <3>1 DEF Remember
  <2>4. entry.rid = rid /\ entry.seat = calls[c].seat
    OBVIOUS
  <2> HIDE DEF entry
  <2>5. ASSUME NEW r \in Rids, r # rid
        PROVE  {e \in cache' : e.rid = r} = {e \in cache : e.rid = r}
    BY <2>3, <2>4, <2>5
  <2>6. ASSUME SeatOk(rid) PROVE SeatOk(rid)'
    <3>1. SeatsOf(rid) = {calls[c].seat}
      BY <1>1, <1>2, <2>6 DEF SeatOk, JoinOk
    <3>2. calls'[c] = call /\ \A d \in Call : d # c => calls'[d] = calls[d]
      BY <1>4, <2>1
    <3>3. (\A a, d \in Call : Taking(calls[a]) /\ Taking(calls[d]) /\ calls[a].rid = rid
                             /\ calls[d].rid = rid => a = d)'
      <4>1. \A d \in Call : Taking(calls'[d]) /\ calls'[d].rid = rid
                               => Taking(calls[d]) /\ calls[d].rid = rid
        BY <2>2, <3>2 DEF Taking
      <4> QED BY <2>6, <4>1 DEF SeatOk
    <3>4. ASSUME NEW d \in Call PROVE JoinOk(calls[d], rid)'
      BY <1>3, <2>2, <2>6, <3>1, <3>2 DEF SeatOk, JoinOk
    <3>5. entry \in cache' /\ \A e \in cache' : e.rid = rid => e = entry
      BY <2>3
    <3> QED BY <1>3, <2>4, <3>1, <3>3, <3>4, <3>5 DEF SeatOk
  <2> QED BY <1>1, <1>2, <1>3, <1>4, <1>5, <2>1, <2>2, <2>5, <2>6, OneJoin
<1>6. CASE /\ Answer(c, "INTERNAL_ERROR") /\ raced' = raced \cup {calls[c].rid}
           /\ UNCHANGED <<tokens, cache>>
  <2> DEFINE call == [calls[c] EXCEPT !.stage = "answered", !.status = "INTERNAL_ERROR"]
  <2>1. calls' = [calls EXCEPT ![c] = call]
    BY <1>4, <1>6 DEF Answer
  <2>2. call.kind = "join" /\ call.rid = rid
    BY <1>1, <1>2, <1>4 DEF CallField
  <2> HIDE DEF call
  <2>3. raced \subseteq raced' /\ rid \in raced'
    BY <1>2, <1>6
  <2> QED BY <1>2, <1>3, <1>4, <1>6, <2>1, <2>2, <2>3, OneJoin
<1> QED BY <1>5, <1>6 DEF JoinStoresSession

\* An entry expires, and its request id has raced.
LEMMA ExpiresSeats == ASSUME SeatInv, CacheExpires, UNCHANGED tab PROVE SeatInv'
<1>1. PICK e \in cache : cache' = cache \ {e} /\ raced' = raced \cup {e.rid}
  BY DEF CacheExpires
<1>2. UNCHANGED <<calls, seats, tab>> /\ \A r : SeatsOf(r)' = SeatsOf(r)
  BY DEF CacheExpires, roomVars, SeatsOf
<1>3. ASSUME NEW rid \in Rids \ raced' PROVE SeatOk(rid)'
  <2>1. SeatOk(rid) /\ rid # e.rid
    BY <1>1 DEF SeatInv
  <2>2. \A f : f \in cache' /\ f.rid = rid <=> f \in cache /\ f.rid = rid
    BY <1>1, <2>1
  <2>3. \A c \in Call : JoinOk(calls[c], rid)'
    BY <1>2, <2>1 DEF SeatOk, JoinOk
  <2> QED BY <1>2, <2>1, <2>2, <2>3 DEF SeatOk
<1> QED BY <1>2, <1>3 DEF SeatInv

\* A new join: if the request id had one before its answer, the two have raced.
LEMMA SubmitSeats ==
    ASSUME WebInv, SeatInv, NEW t \in PlayerTab, NEW name \in Name, Submit(t, name)
    PROVE  SeatInv'
<1> DEFINE c == NewCall
           call == [Request("join", t) EXCEPT !.rid = Rid(t), !.name = name]
<1>1. c \in Call /\ calls[c] = Over
  BY DEF Submit, FreeCall, NewCall
<1>2. t \in Tab
  BY WebClientAssumption
<1>3. /\ DOMAIN calls = Call /\ calls' = [calls EXCEPT ![c] = call]
      /\ calls[c].kind = "none"
  BY <1>1, JoinFields DEF Submit, Ask, Over
<1>4. PICK rid \in Rids : rid = Rid(t)
  BY <1>2 DEF Rid, Rids, SeatInv
<1>5. call.kind = "join" /\ call.rid = rid /\ call.stage = "sent" /\ call.seat = 0
  BY <1>4 DEF Request, Over
<1>6. UNCHANGED <<seats, cache>> /\ seats' \in Seq(Rids) /\ \A r : SeatsOf(r)' = SeatsOf(r)
  BY DEF Submit, roomVars, SeatInv, SeatsOf
<1>7. MountsGo
  <2>1. DOMAIN tab = Tab /\ \A q \in Tab : DOMAIN tab[q] = TabField
    BY JoinFields, <1>1
  <2> QED BY <2>1 DEF Submit, Ask, MountsGo, TabField
<1>8. raced \subseteq raced' /\ (rid \notin raced' => InProgress(rid) = {})
  BY <1>4 DEF Submit
<1> HIDE DEF c, call
<1>9. ASSUME SeatOk(rid), rid \notin raced' PROVE SeatOk(rid)'
  <2>1. calls'[c] = call /\ \A d \in Call : d # c => calls'[d] = calls[d]
    BY <1>1, <1>3
  <2>2. \A d \in Call : Taking(calls'[d]) /\ calls'[d].rid = rid => d = c
    BY <1>8, <1>9, <2>1 DEF Taking, InProgress
  <2>3. ASSUME NEW d \in Call PROVE JoinOk(calls[d], rid)'
    BY <1>5, <1>6, <1>9, <2>1 DEF SeatOk, JoinOk
  <2>4. SeatsOf(rid) = {} \/ \E e \in cache : e.rid = rid
    BY <1>8, <1>9 DEF SeatOk, InProgress
  <2> QED BY <1>6, <1>9, <2>2, <2>3, <2>4 DEF SeatOk
<1> QED BY <1>1, <1>3, <1>4, <1>5, <1>6, <1>7, <1>8, <1>9, OneJoin

\* A call that is no join, or a join that was answered, becomes one that is no join.
LEMMA ReplacedQuiet ==
    ASSUME WebInv, NEW c, NEW call, calls' = [calls EXCEPT ![c] = call],
           calls[c].kind = "join" => calls[c].stage # "seated", call.kind # "join"
    PROVE  \A d \in Call : CallQuiet(calls[d], calls'[d])
BY DEF WebInv, Shape, CallQuiet

\* Calls that stay are quiet.
LEMMA SameQuiet == ASSUME UNCHANGED calls PROVE \A d \in Call : CallQuiet(calls[d], calls'[d])
BY DEF CallQuiet

\* The server's other handlers.
LEMMA OtherHandlers ==
    ASSUME WebInv, NEW c \in Call, Handle(c),
           ~(JoinLooksUp(c) \/ JoinTakesSeat(c) \/ JoinStoresSession(c))
    PROVE  UNCHANGED <<seats, cache, raced>> /\ \A d \in Call : CallQuiet(calls[d], calls'[d])
<1>1. DOMAIN calls = Call /\ DOMAIN calls[c] = CallField
  BY JoinFields
<1>2. CASE RefuseByRate(c)
  BY <1>2, AnswerQuiet DEF RefuseByRate, roomVars, cacheVars
<1>3. CASE HandleRegister(c) \/ HandleLogin(c) \/ StartSession(c)
  <2>1. calls[c].kind # "join" /\ UNCHANGED <<seats, cache, raced>>
    BY <1>3 DEF HandleRegister, HandleLogin, StartSession, At, roomVars, cacheVars
  <2>2. CASE \E status : Answer(c, status)
    BY <2>1, <2>2, AnswerQuiet
  <2>3. CASE calls' = [calls EXCEPT ![c].stage = "answered", ![c].status = "ok",
                                    ![c].token = Len(logins) + 1]
    <3> DEFINE call == [calls[c] EXCEPT !.stage = "answered", !.status = "ok",
                                        !.token = Len(logins) + 1]
    <3>1. calls' = [calls EXCEPT ![c] = call] /\ call.kind = calls[c].kind
      BY <1>1, <2>3 DEF CallField
    <3> HIDE DEF call
    <3> QED BY <2>1, <3>1, ReplacedQuiet
  <2>4. CASE Advance(c, "known")
    <3>1. PICK call : call = [calls[c] EXCEPT !.stage = "known"]
      OBVIOUS
    <3>2. calls' = [calls EXCEPT ![c] = call] /\ call.kind = calls[c].kind
      BY <1>1, <2>4, <3>1 DEF Advance, CallField
    <3> QED BY <2>1, <3>2, ReplacedQuiet
  <2> QED BY <1>3, <2>1, <2>2, <2>3, <2>4 DEF HandleRegister, HandleLogin, StartSession
<1>4. CASE \/ HandleLogout(c) \/ HandleMe(c) \/ HandleGetOwnedGames(c) \/ CreateRoom(c)
           \/ HandleGetRoomAvailability(c)
  <2>1. calls[c].kind # "join" /\ UNCHANGED <<seats, cache, raced>>
    BY <1>4 DEF HandleLogout, HandleMe, HandleGetOwnedGames, CreateRoom, HandleGetRoomAvailability,
               At, roomVars, cacheVars
  <2>2. \E status : Answer(c, status)
    BY <1>4 DEF HandleLogout, HandleMe, HandleGetOwnedGames, CreateRoom, HandleGetRoomAvailability
  <2> QED BY <2>1, <2>2, AnswerQuiet
<1>5. CASE CreateAuthenticates(c) \/ CreateChecksOwnership(c)
  <2>1. calls[c].kind # "join" /\ UNCHANGED <<seats, cache, raced>>
    BY <1>5 DEF CreateAuthenticates, CreateChecksOwnership, At, roomVars, cacheVars
  <2>2. \/ \E status : Answer(c, status)
        \/ \E stage : calls' = [calls EXCEPT ![c].stage = stage]
        \/ \E stage, u : calls' = [calls EXCEPT ![c].stage = stage, ![c].user = u]
    BY <1>5 DEF CreateAuthenticates, CreateChecksOwnership, Advance
  <2>3. ASSUME NEW stage, calls' = [calls EXCEPT ![c].stage = stage]
        PROVE  \A d \in Call : CallQuiet(calls[d], calls'[d])
    <3>1. PICK call : call = [calls[c] EXCEPT !.stage = stage]
      OBVIOUS
    <3>2. calls' = [calls EXCEPT ![c] = call] /\ call.kind = calls[c].kind
      BY <1>1, <2>3, <3>1 DEF CallField
    <3> QED BY <2>1, <3>2, ReplacedQuiet
  <2>4. ASSUME NEW stage, NEW u, calls' = [calls EXCEPT ![c].stage = stage, ![c].user = u]
        PROVE  \A d \in Call : CallQuiet(calls[d], calls'[d])
    <3>1. PICK call : call = [calls[c] EXCEPT !.stage = stage, !.user = u]
      OBVIOUS
    <3>2. calls' = [calls EXCEPT ![c] = call] /\ call.kind = calls[c].kind
      BY <1>1, <2>4, <3>1 DEF CallField
    <3> QED BY <2>1, <3>2, ReplacedQuiet
  <2> QED BY <2>1, <2>2, <2>3, <2>4, AnswerQuiet
<1> QED BY <1>2, <1>3, <1>4, <1>5 DEF Handle

\* What the server does, a join or not, keeps the seats.
LEMMA ServerSeats == ASSUME WebInv, SeatInv, ServerStep, UNCHANGED tab PROVE SeatInv'
<1>1. MountsGo
  BY DEF MountsGo
<1>2. ASSUME NEW c \in Call, Handle(c) PROVE SeatInv'
  BY <1>1, <1>2, OtherHandlers, QuietSeats, LooksUpSeats, TakesSeatSeats, StoresSeats
<1>3. ASSUME TokenExpires \/ LoginLapses \/ MatchMoves \/ (Grant /\ UNCHANGED httpVars)
      PROVE  SeatInv'
  <2>1. UNCHANGED <<calls, seats, cache, raced>>
    BY <1>3 DEF TokenExpires, LoginLapses, MatchMoves, httpVars, roomVars, cacheVars
  <2> QED BY <1>1, <2>1, SameQuiet, QuietSeats
<1> QED BY <1>2, <1>3, ExpiresSeats DEF ServerStep

\* What the pages do with their calls, a submit apart.
PageSteps(t) ==
    \/ OpenGames(t) \/ LogOut(t) \/ AskForRoom(t) \/ OpenTv(t) \/ OpenJoin(t)
    \/ \E u \in User, kind \in {"login", "register"} : SubmitAccount(t, kind, u)
    \/ \E c \in Call : \/ GotMe(t, c) \/ GotOwned(t, c) \/ GotAccount(t, c) \/ GotLogout(t, c)
                       \/ GotRoom(t, c) \/ GotTv(t, c) \/ GotAvailability(t, c) \/ GotSeat(t, c)

\* A page takes a free call, or the one whose answer it got, for something that is no join.
LEMMA PageCalls ==
    ASSUME WebInv, NEW t \in Tab, PageSteps(t)
    PROVE  UNCHANGED <<seats, cache, raced>> /\ \A d \in Call : CallQuiet(calls[d], calls'[d])
<1>1. UNCHANGED <<seats, cache, raced>>
  BY DEF PageSteps, OpenGames, LogOut, AskForRoom, OpenTv, OpenJoin, SubmitAccount, GotMe, GotOwned,
         GotAccount, GotLogout, GotRoom, GotTv, GotAvailability, GotSeat, onlyHttp, roomVars, cacheVars
<1>2. FreeCall # {} => NewCall \in Call /\ calls[NewCall].kind = "none"
  BY DEF FreeCall, NewCall, Over
<1>3. \A kind, u : /\ Over.kind = "none" /\ Request(kind, t).kind = kind
                   /\ WithCookie(t, kind).kind = kind
                   /\ [Request(kind, t) EXCEPT !.user = u].kind = kind
                   /\ [Request(kind, t) EXCEPT !.token = u].kind = kind
  BY DEF WithCookie, Request, Over
<1>4. CASE UNCHANGED calls
  BY <1>1, <1>4, SameQuiet
<1>5. ASSUME NEW c, NEW call, calls' = [calls EXCEPT ![c] = call], call.kind # "join",
             calls[c].kind = "none" \/ calls[c].stage = "answered"
      PROVE  \A d \in Call : CallQuiet(calls[d], calls'[d])
  BY <1>5, ReplacedQuiet
<1>6. ASSUME NEW c \in Call,
             \/ GotMe(t, c) \/ GotOwned(t, c) \/ GotAccount(t, c) \/ GotLogout(t, c)
             \/ GotRoom(t, c) \/ GotTv(t, c) \/ GotAvailability(t, c) \/ GotSeat(t, c)
      PROVE  \A d \in Call : CallQuiet(calls[d], calls'[d])
  <2>1. calls[c].stage = "answered"
    BY <1>6 DEF GotMe, GotOwned, GotAccount, GotLogout, GotRoom, GotTv, GotAvailability, GotSeat,
                Receives
  <2>2. CASE GotMe(t, c)
    <3>1. calls' = [calls EXCEPT ![c] = WithCookie(t, "owned")]
      BY <2>2 DEF GotMe, Ask
    <3>2. PICK call : call = WithCookie(t, "owned")
      OBVIOUS
    <3>3. calls' = [calls EXCEPT ![c] = call] /\ call.kind # "join"
      BY <1>3, <3>1, <3>2
    <3> QED BY <2>1, <3>3, ReplacedQuiet
  <2>3. CASE GotAccount(t, c)
    <3>1. calls' = [calls EXCEPT ![c] = [Request("me", t) EXCEPT !.token = calls[c].token]]
      BY <2>3 DEF GotAccount
    <3>2. PICK call : call = [Request("me", t) EXCEPT !.token = calls[c].token]
      OBVIOUS
    <3>3. calls' = [calls EXCEPT ![c] = call] /\ call.kind # "join"
      BY <1>3, <3>1, <3>2
    <3> QED BY <2>1, <3>3, ReplacedQuiet
  <2>4. CASE GotRoom(t, c)
    <3>1. calls' = [calls EXCEPT ![c] = Request("availability", t)]
      BY <2>4 DEF GotRoom
    <3>2. PICK call : call = Request("availability", t)
      OBVIOUS
    <3>3. calls' = [calls EXCEPT ![c] = call] /\ call.kind # "join"
      BY <1>3, <3>1, <3>2
    <3> QED BY <2>1, <3>3, ReplacedQuiet
  <2>5. CASE \/ GotOwned(t, c) \/ GotLogout(t, c) \/ GotTv(t, c) \/ GotAvailability(t, c)
             \/ GotSeat(t, c)
    <3>1. calls' = [calls EXCEPT ![c] = Over]
      BY <2>5 DEF GotOwned, GotLogout, GotTv, GotAvailability, GotSeat
    <3>2. Over.kind # "join"
      BY DEF Over
    <3> QED BY <2>1, <3>1, <3>2, ReplacedQuiet
  <2> QED BY <1>6, <2>2, <2>3, <2>4, <2>5
<1>7. ASSUME OpenGames(t) \/ LogOut(t) \/ AskForRoom(t) \/ OpenTv(t)
                \/ (\E u \in User, kind \in {"login", "register"} : SubmitAccount(t, kind, u))
      PROVE  FreeCall # {} /\ \E call : calls' = [calls EXCEPT ![NewCall] = call] /\ call.kind # "join"
  <2>1. FreeCall # {}
    BY <1>7 DEF OpenGames, LogOut, AskForRoom, OpenTv, SubmitAccount
  <2>2. CASE OpenGames(t) \/ LogOut(t) \/ AskForRoom(t)
    <3>1. \E kind \in {"me", "logout", "create"} : calls' = [calls EXCEPT ![NewCall] = WithCookie(t, kind)]
      BY <2>2 DEF OpenGames, LogOut, AskForRoom, Ask
    <3>2. \A kind \in {"me", "logout", "create"} : WithCookie(t, kind).kind # "join"
      BY <1>3
    <3> QED BY <2>1, <3>1, <3>2
  <2>3. CASE OpenTv(t)
    <3>1. calls' = [calls EXCEPT ![NewCall] = Request("availability", t)]
      BY <2>3 DEF OpenTv, Ask
    <3> QED BY <1>3, <2>1, <3>1
  <2>4. ASSUME NEW u \in User, NEW kind \in {"login", "register"}, SubmitAccount(t, kind, u)
        PROVE  \E call : calls' = [calls EXCEPT ![NewCall] = call] /\ call.kind # "join"
    <3>1. calls' = [calls EXCEPT ![NewCall] = [Request(kind, t) EXCEPT !.user = u]]
      BY <2>4 DEF SubmitAccount, Ask
    <3>2. PICK call : call = [Request(kind, t) EXCEPT !.user = u]
      OBVIOUS
    <3> QED BY <1>3, <3>1, <3>2
  <2> QED BY <1>7, <2>1, <2>2, <2>3, <2>4
<1>8. ASSUME OpenJoin(t)
      PROVE  UNCHANGED calls \/ (FreeCall # {}
                /\ \E call : calls' = [calls EXCEPT ![NewCall] = call] /\ call.kind # "join")
  BY <1>3, <1>8 DEF OpenJoin
<1> QED BY <1>1, <1>2, <1>4, <1>5, <1>6, <1>7, <1>8 DEF PageSteps

\* A call failed, or nobody waits for it.
LEMMA FailureCalls ==
    ASSUME WebInv, (\E c \in Call : ReceiveNothing(c)) \/ (\E t \in Tab : GiveUp(t))
    PROVE  UNCHANGED <<seats, cache, raced>> /\ \A d \in Call : CallQuiet(calls[d], calls'[d])
<1>1. UNCHANGED <<seats, cache, raced>>
  BY DEF ReceiveNothing, GiveUp, roomVars, cacheVars
<1>2. UNCHANGED calls \/ \E c : /\ calls' = [calls EXCEPT ![c] = Over]
                                /\ calls[c].stage \in {"sent", "answered"}
  BY DEF ReceiveNothing, GiveUp
<1>3. Over.kind = "none"
  BY DEF Over
<1> QED BY <1>1, <1>2, <1>3, SameQuiet, ReplacedQuiet

\* One tab changes its count of mounts, by one at most.
LEMMA OneMount ==
    ASSUME WebInv, NEW t \in Tab, NEW page, tab' = [tab EXCEPT ![t] = page],
           page.mount \in {tab[t].mount, tab[t].mount + 1}
    PROVE  MountsGo
BY DEF WebInv, Shape, MountsGo

\* No step but the opening of the join form counts its mounts.
LEMMA PageMounts ==
    ASSUME WebInv, NEW t \in Tab,
           PageSteps(t) \/ Reload(t) \/ FollowLink(t) \/ (\E name \in Name : Submit(t, name))
    PROVE  MountsGo
<1>1. DOMAIN tab = Tab /\ \A q \in Tab : DOMAIN tab[q] = TabField
  BY DEF WebInv, Shape
<1>2. ASSUME NEW c, NEW call, NEW page, Ask(t, c, call, page) PROVE MountsGo
  BY <1>1, <1>2 DEF Ask, MountsGo, TabField
<1>3. ASSUME NEW stored, Live(t, stored) PROVE MountsGo
  BY <1>1, <1>3 DEF Live, MountsGo, TabField
<1>4. CASE \/ OpenGames(t) \/ LogOut(t) \/ AskForRoom(t) \/ OpenTv(t)
           \/ (\E u \in User, kind \in {"login", "register"} : SubmitAccount(t, kind, u))
           \/ (\E name \in Name : Submit(t, name)) \/ (\E c \in Call : GotMe(t, c))
  <2>1. \E c, call, page : Ask(t, c, call, page)
    BY <1>4 DEF OpenGames, LogOut, AskForRoom, OpenTv, SubmitAccount, Submit, GotMe
  <2> QED BY <1>2, <2>1
<1>5. CASE OpenJoin(t)
  <2>1. CASE \E stored : Live(t, stored)
    BY <1>3, <2>1
  <2>2. CASE tab' = [tab EXCEPT ![t].page = "checking", ![t].waiting = NewCall, ![t].mount = @ + 1]
    BY <1>1, <2>2 DEF MountsGo, TabField
  <2> QED BY <1>5, <2>1, <2>2 DEF OpenJoin
<1>6. CASE Reload(t) \/ FollowLink(t)
  <2> DEFINE next == [tab[t] EXCEPT !.page = "away", !.waiting = 0, !.session = 0,
                                    !.view = 0, !.pending = FALSE]
  <2>1. tab' = [tab EXCEPT ![t] = next] /\ next.mount = tab[t].mount
    BY <1>1, <1>6 DEF Reload, FollowLink, Away, TabField
  <2> HIDE DEF next
  <2> QED BY <2>1, OneMount
<1>7. ASSUME NEW c \in Call, GotTv(t, c) \/ GotSeat(t, c) PROVE MountsGo
  <2>1. \E stored : Live(t, stored)
    BY <1>7 DEF GotTv, GotSeat
  <2> QED BY <1>3, <2>1
<1>8. ASSUME NEW c \in Call, GotOwned(t, c) \/ GotAvailability(t, c) \/ GotLogout(t, c) PROVE MountsGo
  <2> DEFINE next(cookie, page) == [tab[t] EXCEPT !.cookie = cookie, !.page = page, !.waiting = 0]
  <2>1. \E cookie, page : tab' = [tab EXCEPT ![t] = next(cookie, page)]
    <3>1. CASE GotLogout(t, c)
      BY <1>1, <3>1 DEF GotLogout, TabField
    <3>2. CASE GotOwned(t, c) \/ GotAvailability(t, c)
      <4>1. PICK page : tab' = [tab EXCEPT ![t].waiting = 0, ![t].page = page]
        <5>1. CASE GotOwned(t, c)
          <6>1. PICK page : page = IF calls[c].status = "ok" THEN "owner" ELSE "not owner"
            OBVIOUS
          <6> QED BY <5>1, <6>1 DEF GotOwned
        <5>2. CASE GotAvailability(t, c)
          <6>1. tab' = [tab EXCEPT ![t].page = "ready", ![t].waiting = 0]
            BY <5>2 DEF GotAvailability
          <6>2. tab' = [tab EXCEPT ![t].waiting = 0, ![t].page = "ready"]
            BY <1>1, <6>1 DEF TabField
          <6> QED BY <6>2
        <5> QED BY <3>2, <5>1, <5>2
      <4>2. tab' = [tab EXCEPT ![t] = next(tab[t].cookie, page)]
        BY <1>1, <4>1 DEF TabField
      <4> QED BY <4>2
    <3> QED BY <1>8, <3>1, <3>2
  <2>2. \A cookie, page : next(cookie, page).mount = tab[t].mount
    BY <1>1 DEF TabField
  <2> HIDE DEF next
  <2> QED BY <2>1, <2>2, OneMount
<1>9. ASSUME NEW c \in Call, GotAccount(t, c) \/ GotRoom(t, c) PROVE MountsGo
  BY <1>1, <1>9 DEF GotAccount, GotRoom, MountsGo, TabField
<1> QED BY <1>4, <1>5, <1>6, <1>7, <1>8, <1>9 DEF PageSteps

\* A failure counts no mount.
LEMMA FailureMounts ==
    ASSUME WebInv, (\E c \in Call : ReceiveNothing(c)) \/ (\E t \in Tab : GiveUp(t))
    PROVE  MountsGo
<1>1. DOMAIN tab = Tab /\ \A q \in Tab : DOMAIN tab[q] = TabField
  BY DEF WebInv, Shape
<1>2. UNCHANGED tab \/ \E t : tab' = Failed(t)
  BY DEF ReceiveNothing, GiveUp
<1>3. ASSUME NEW t, tab' = Failed(t) PROVE MountsGo
  <2>1. CASE t \in Tab
    <3> DEFINE next == [tab[t] EXCEPT !.page = AfterFailure[tab[t].page], !.waiting = 0]
    <3>1. tab' = [tab EXCEPT ![t] = next] /\ next.mount = tab[t].mount
      BY <1>1, <1>3, <2>1 DEF Failed, TabField
    <3> HIDE DEF next
    <3> QED BY <2>1, <3>1, OneMount
  <2>2. CASE t \notin Tab
    BY <1>1, <1>3, <2>2 DEF Failed, MountsGo
  <2> QED BY <2>1, <2>2
<1>4. CASE UNCHANGED tab
  BY <1>4 DEF MountsGo
<1> QED BY <1>2, <1>3, <1>4

\* Nor do the hooks.
LEMMA HooksMounts == ASSUME WebInv, NEW t \in Tab, Hooks(t) PROVE MountsGo
<1>1. DOMAIN tab = Tab /\ \A q \in Tab : DOMAIN tab[q] = TabField
  BY DEF WebInv, Shape
<1>2. ASSUME NEW c, Becomes(t, c) PROVE MountsGo
  BY <1>1, <1>2 DEF Becomes, MountsGo, TabField
<1>3. ASSUME NEW e, tab' = Shown(t, e) \/ UNCHANGED tab PROVE MountsGo
  <2>1. CASE UNCHANGED tab
    BY <2>1 DEF MountsGo
  <2>2. CASE tab' = [tab EXCEPT ![t].view = e.v, ![t].pending = FALSE]
    BY <1>1, <2>2 DEF MountsGo, TabField
  <2>3. CASE tab' = [tab EXCEPT ![t].pending = FALSE]
    BY <1>1, <2>3 DEF MountsGo, TabField
  <2>4. CASE tab' = [tab EXCEPT ![t].stored = 0]
    BY <1>1, <2>4 DEF MountsGo, TabField
  <2> QED BY <1>3, <2>1, <2>2, <2>3, <2>4 DEF Shown
<1>4. CASE SendEvent(t) \/ NetworkChanges(t)
  BY <1>1, <1>4 DEF SendEvent, NetworkChanges, MountsGo, TabField
<1>5. CASE \E s \in Sock : EventArrives(t, s)
  <2>1. (\E e : tab' = Shown(t, e) \/ UNCHANGED tab) \/ (\E c : Becomes(t, c))
    BY <1>5 DEF EventArrives, Overtaken
  <2> QED BY <2>1, <1>2, <1>3
<1>6. CASE RetryConnection(t) \/ TimerFires(t) \/ NetEventArrives(t)
  <2>1. \E c : Becomes(t, c)
    BY <1>6 DEF RetryConnection, TimerFires, NetEventArrives
  <2> QED BY <2>1, <1>2
<1> QED BY <1>4, <1>5, <1>6 DEF Hooks

\* The network and the gateway move nothing but connections.
LEMMA NetworkKeeps ==
    ASSUME (\E t \in Tab, s \in Sock : Network(t, s)) \/ RoomChanges \/ UNCHANGED vars
    PROVE  UNCHANGED <<calls, seats, cache, raced, tab>>
<1>1. ASSUME NEW t \in Tab, NEW s \in Sock, Network(t, s)
      PROVE  UNCHANGED <<calls, seats, cache, raced, tab>>
  BY <1>1 DEF Network, SocketOpens, SocketBreaks, ClosingEnds, Authenticates, AuthTimesOut,
              GatewayCloses, GatewayHandlesEvent, onlyRt, serverVars, httpVars, roomVars, cacheVars
<1>2. ASSUME RoomChanges \/ UNCHANGED vars PROVE UNCHANGED <<calls, seats, cache, raced, tab>>
  BY <1>2 DEF RoomChanges, vars, serverVars, httpVars, roomVars, cacheVars
<1> QED BY <1>1, <1>2

\* No seat is taken at the start.
LEMMA SeatInit == Init => SeatInv
<1> SUFFICES ASSUME Init PROVE SeatInv
  OBVIOUS
<1>1. /\ seats = <<>> /\ cache = {} /\ calls = [c \in Call |-> Over]
      /\ tab = [t \in Tab |-> NewTab]
  BY DEF Init, HttpInit
<1>2. Over.kind = "none" /\ NewTab.mount = 0
  BY DEF Over, NewTab
<1>3. seats \in Seq(Rids) /\ \A rid : SeatsOf(rid) = {}
  BY <1>1 DEF SeatsOf
<1> QED BY <1>1, <1>2, <1>3 DEF SeatInv, SeatOk, JoinOk, Taking

\* Every step keeps one seat to a request id.
LEMMA SeatStep == ASSUME WebInv, SeatInv, [Next]_vars PROVE SeatInv'
<1>1. CASE ServerStep /\ UNCHANGED <<tab, rt, version>>
  BY <1>1, ServerSeats
<1>2. CASE \E t \in Tab : PageSteps(t)
  BY <1>2, PageCalls, PageMounts, QuietSeats
<1>3. CASE \E t \in PlayerTab, name \in Name : Submit(t, name)
  BY <1>3, SubmitSeats
<1>4. CASE (\E c \in Call : ReceiveNothing(c)) \/ (\E t \in Tab : GiveUp(t))
  BY <1>4, FailureCalls, FailureMounts, QuietSeats
<1>5. CASE \E t \in Tab : Reload(t) \/ FollowLink(t) \/ Hooks(t)
  <2>1. UNCHANGED <<calls, seats, cache, raced>>
    BY <1>5 DEF Reload, FollowLink, Hooks, RetryConnection, SendEvent, TimerFires, NetEventArrives,
                NetworkChanges, EventArrives, serverVars, httpVars, roomVars, cacheVars
  <2>2. MountsGo
    BY <1>5, PageMounts, HooksMounts
  <2> QED BY <2>1, <2>2, SameQuiet, QuietSeats
<1>6. CASE (\E t \in Tab, s \in Sock : Network(t, s)) \/ RoomChanges \/ UNCHANGED vars
  <2>1. UNCHANGED <<calls, seats, cache, raced, tab>>
    BY <1>6, NetworkKeeps
  <2>2. MountsGo
    BY <2>1 DEF MountsGo
  <2> QED BY <2>1, <2>2, SameQuiet, QuietSeats
<1>7. ASSUME NEW t \in HostTab, HostPage(t) \/ OpenTv(t) PROVE t \in Tab /\ PageSteps(t)
  BY <1>7, WebClientAssumption DEF HostPage, PageSteps
<1>8. ASSUME NEW t \in PlayerTab, GuestPage(t)
      PROVE  (t \in Tab /\ PageSteps(t)) \/ \E name \in Name : Submit(t, name)
  BY <1>8, WebClientAssumption DEF GuestPage, PageSteps
<1> QED BY <1>1, <1>2, <1>3, <1>4, <1>5, <1>6, <1>7, <1>8 DEF Next

\* A request id whose calls did not race stands for one seat, and its answers name it.
THEOREM RetriesTakeOneSeat == Spec => []RetriesShareOneSeat
<1>1. SeatInv => RetriesShareOneSeat
  <2> SUFFICES ASSUME SeatInv, NEW t \in PlayerTab, NEW m \in 1 .. MaxMounts, <<t, m>> \notin raced
               PROVE  /\ Cardinality(SeatsOf(<<t, m>>)) <= 1
                      /\ \A c \in Call : calls[c].kind = "join" /\ calls[c].rid = <<t, m>>
                                              /\ calls[c].seat # 0 => SeatsOf(<<t, m>>) = {calls[c].seat}
    BY DEF RetriesShareOneSeat, SeatsOf
  <2>1. SeatOk(<<t, m>>)
    BY DEF SeatInv, Rids
  <2>2. SeatsOf(<<t, m>>) = {} \/ \E i : SeatsOf(<<t, m>>) = {i}
    BY <2>1 DEF SeatOk, JoinOk
  <2>3. Cardinality(SeatsOf(<<t, m>>)) <= 1
    <3>1. CASE SeatsOf(<<t, m>>) = {}
      BY <3>1, FS_EmptySet
    <3>2. ASSUME NEW i, SeatsOf(<<t, m>>) = {i} PROVE Cardinality(SeatsOf(<<t, m>>)) = 1
      <4>1. Cardinality({i}) = 1
        BY FS_Singleton, Zenon
      <4> QED BY <3>2, <4>1
    <3> QED BY <2>2, <3>1, <3>2
  <2> QED BY <2>1, <2>3 DEF SeatOk, JoinOk
<1> QED BY <1>1, SeatInit, SeatStep, WebInvariant, PTL DEF Spec

-----------------------------------------------------------------------------
(* The answer a page waits for *)

\* The pages that ask for something, and those of them that always have a call.
Asking == {"loading", "owned", "login", "leaving", "creating", "calling", "opening", "checking",
           "submitting"}
Waiting == Asking \ {"login"}

\* A page waits for a call of its own that is not over.
WaitOk(t, page) ==
    /\ page.waiting # 0 => /\ page.waiting \in Call /\ calls[page.waiting].tab = t
                           /\ calls[page.waiting].stage # "over" /\ page.page \in Asking
    /\ page.page \in Waiting => page.waiting # 0

WaitInv == \A t \in Tab : WaitOk(t, tab[t])

\* The pages that may fail are those that ask, and none is left waiting.
LEMMA AskingPages ==
    /\ DOMAIN AfterFailure = Asking
    /\ \A page \in Asking : AfterFailure[page] \notin Waiting
<1>1. DOMAIN AfterFailure = Asking
  BY DEF AfterFailure, Asking
<1>2. /\ AfterFailure["loading"] = "out" /\ AfterFailure["owned"] = "stuck"
      /\ AfterFailure["login"] = "login" /\ AfterFailure["leaving"] = "out"
      /\ AfterFailure["creating"] = "owner" /\ AfterFailure["calling"] = "not owner"
      /\ AfterFailure["opening"] = "no room" /\ AfterFailure["checking"] = "unavailable"
      /\ AfterFailure["submitting"] = "ready"
  BY DEF AfterFailure
<1>3. "login" \notin Waiting /\ Waiting \subseteq Asking
  BY DEF Waiting
<1>4. {"out", "stuck", "owner", "not owner", "no room", "unavailable", "ready"} \cap Asking = {}
  BY DEF Asking
<1>5. ASSUME NEW page \in Asking PROVE AfterFailure[page] \notin Waiting
  <2>1. AfterFailure[page] \in {"out", "stuck", "login", "owner", "not owner", "no room",
                                "unavailable", "ready"}
    BY <1>2 DEF Asking
  <2> QED BY <1>3, <1>4, <2>1
<1> QED BY <1>1, <1>5

\* A page asks, gets its answer or moves on; its call is its own or a free one.
LEMMA PageWaits ==
    ASSUME WebInv, WaitInv, NEW t \in Tab, NEW page, tab' = [tab EXCEPT ![t] = page],
           NEW c, NEW call, calls' = [calls EXCEPT ![c] = call],
           calls[c].tab = t \/ calls[c].stage = "over",
           page.waiting # 0 => /\ page.waiting = c /\ c \in Call /\ call.tab = t
                               /\ call.stage # "over" /\ page.page \in Asking,
           page.page \in Waiting => page.waiting # 0
    PROVE  WaitInv'
<1>1. DOMAIN tab = Tab /\ DOMAIN calls = Call
  BY DEF WebInv, Shape
<1>2. ASSUME NEW q \in Tab, q # t PROVE WaitOk(q, tab[q])'
  <2>1. tab'[q] = tab[q] /\ WaitOk(q, tab[q])
    BY <1>1, <1>2 DEF WaitInv
  <2>2. tab[q].waiting # 0 => tab[q].waiting # c
    BY <1>2, <2>1 DEF WaitOk
  <2>3. tab[q].waiting # 0 => calls'[tab[q].waiting] = calls[tab[q].waiting]
    BY <1>1, <2>1, <2>2 DEF WaitOk
  <2> QED BY <2>1, <2>3 DEF WaitOk
<1>3. WaitOk(t, tab[t])'
  BY <1>1 DEF WaitOk
<1> QED BY <1>2, <1>3 DEF WaitInv

\* A page stays as it is, or waits for nothing.
PageStays(old, new) ==
    \/ new.waiting = old.waiting /\ new.page = old.page
    \/ new.waiting = 0 /\ new.page \notin Waiting
PagesStay == \A t \in Tab : PageStays(tab[t], tab'[t])

\* The calls stay what they are for their pages, and a page stays or waits for nothing.
LEMMA OthersWait ==
    ASSUME WaitInv,
           \A c \in Call : /\ calls'[c].tab = calls[c].tab
                           /\ calls[c].stage # "over" => calls'[c].stage # "over",
           PagesStay
    PROVE  WaitInv'
BY DEF WaitInv, WaitOk, PagesStay, PageStays

\* The server's handlers answer calls, and end none.
LEMMA ServerCalls ==
    ASSUME WebInv, NEW c \in Call, Handle(c)
    PROVE  \A d \in Call : /\ calls'[d].tab = calls[d].tab
                           /\ calls[d].stage # "over" => calls'[d].stage # "over"
<1>1. DOMAIN calls = Call /\ DOMAIN calls[c] = CallField
  BY JoinFields
<1>2. ASSUME NEW call, calls' = [calls EXCEPT ![c] = call], call.tab = calls[c].tab,
             call.stage # "over"
      PROVE  \A d \in Call : /\ calls'[d].tab = calls[d].tab
                             /\ calls[d].stage # "over" => calls'[d].stage # "over"
  BY <1>1, <1>2
<1>3. ASSUME NEW stage, stage # "over", calls' = [calls EXCEPT ![c].stage = stage]
      PROVE  \A d \in Call : /\ calls'[d].tab = calls[d].tab
                             /\ calls[d].stage # "over" => calls'[d].stage # "over"
  <2>1. PICK call : call = [calls[c] EXCEPT !.stage = stage]
    OBVIOUS
  <2> QED BY <1>1, <1>2, <1>3, <2>1 DEF CallField
<1>4. ASSUME NEW status, Answer(c, status)
      PROVE  \A d \in Call : /\ calls'[d].tab = calls[d].tab
                             /\ calls[d].stage # "over" => calls'[d].stage # "over"
  <2>1. PICK call : call = [calls[c] EXCEPT !.stage = "answered", !.status = status]
    OBVIOUS
  <2> QED BY <1>1, <1>2, <1>4, <2>1 DEF Answer, CallField
<1>5. ASSUME NEW status, NEW seat, AnswerSeat(c, status, seat)
      PROVE  \A d \in Call : /\ calls'[d].tab = calls[d].tab
                             /\ calls[d].stage # "over" => calls'[d].stage # "over"
  <2>1. PICK call : call = [calls[c] EXCEPT !.stage = "answered", !.status = status, !.seat = seat]
    OBVIOUS
  <2> QED BY <1>1, <1>2, <1>5, <2>1 DEF AnswerSeat, CallField
<1>6. ASSUME NEW token, calls' = [calls EXCEPT ![c].stage = "answered", ![c].status = "ok",
                                               ![c].token = token]
      PROVE  \A d \in Call : /\ calls'[d].tab = calls[d].tab
                             /\ calls[d].stage # "over" => calls'[d].stage # "over"
  <2>1. PICK call : call = [calls[c] EXCEPT !.stage = "answered", !.status = "ok", !.token = token]
    OBVIOUS
  <2> QED BY <1>1, <1>2, <1>6, <2>1 DEF CallField
<1>7. CASE CreateAuthenticates(c)
  <2>1. ASSUME NEW u, calls' = [calls EXCEPT ![c].stage = "authenticated", ![c].user = u]
        PROVE  \A d \in Call : /\ calls'[d].tab = calls[d].tab
                               /\ calls[d].stage # "over" => calls'[d].stage # "over"
    <3>1. PICK call : call = [calls[c] EXCEPT !.stage = "authenticated", !.user = u]
      OBVIOUS
    <3> QED BY <1>1, <1>2, <2>1, <3>1 DEF CallField
  <2> QED BY <1>4, <1>7, <2>1 DEF CreateAuthenticates
<1>8. CASE JoinTakesSeat(c)
  <2>1. CASE calls' = [calls EXCEPT ![c] = Seated(@, Len(seats) + 1)]
    <3>1. PICK call : call = Seated(calls[c], Len(seats) + 1)
      OBVIOUS
    <3> QED BY <1>1, <1>2, <2>1, <3>1 DEF CallField, Seated
  <2> QED BY <1>4, <1>8, <2>1 DEF JoinTakesSeat
<1>9. CASE JoinLooksUp(c) \/ JoinStoresSession(c)
  BY <1>3, <1>4, <1>5, <1>9 DEF JoinLooksUp, JoinStoresSession, Advance
<1>10. CASE HandleRegister(c) \/ HandleLogin(c) \/ StartSession(c)
  BY <1>3, <1>4, <1>6, <1>10 DEF HandleRegister, HandleLogin, StartSession, Advance
<1>11. CASE \/ HandleLogout(c) \/ HandleMe(c) \/ HandleGetOwnedGames(c) \/ CreateRoom(c)
            \/ HandleGetRoomAvailability(c) \/ RefuseByRate(c)
  <2>1. \E status : Answer(c, status)
    BY <1>11 DEF HandleLogout, HandleMe, HandleGetOwnedGames, CreateRoom, HandleGetRoomAvailability,
                 RefuseByRate
  <2> QED BY <1>4, <2>1
<1>12. CASE CreateChecksOwnership(c)
  BY <1>3, <1>4, <1>12 DEF CreateChecksOwnership, Advance
<1> QED BY <1>7, <1>8, <1>9, <1>10, <1>11, <1>12 DEF Handle

\* The server takes no call from the page that waits for it.
LEMMA ServerWaits == ASSUME WebInv, WaitInv, ServerStep, UNCHANGED tab PROVE WaitInv'
<1>1. ASSUME ~\E c \in Call : Handle(c) PROVE UNCHANGED calls
  BY <1>1 DEF ServerStep, CacheExpires, TokenExpires, LoginLapses, MatchMoves, httpVars
<1>2. \A c \in Call : /\ calls'[c].tab = calls[c].tab
                      /\ calls[c].stage # "over" => calls'[c].stage # "over"
  BY <1>1, ServerCalls
<1>3. PagesStay
  BY DEF PagesStay, PageStays
<1> QED BY <1>2, <1>3, OthersWait

\* A page asks with a free call, or goes on with the call whose answer it got.
LEMMA AskWaits ==
    ASSUME WebInv, WaitInv, NEW t \in Tab, NEW c \in Call, NEW call, NEW page \in Asking,
           calls[c].tab = t \/ calls[c].stage = "over", call.tab = t, call.stage # "over",
           Ask(t, c, call, page)
    PROVE  WaitInv'
<1> DEFINE next == [tab[t] EXCEPT !.page = page, !.waiting = c]
<1>1. DOMAIN tab = Tab /\ DOMAIN tab[t] = TabField /\ c # 0
  BY WebClientAssumption DEF WebInv, Shape
<1>2. tab' = [tab EXCEPT ![t] = next] /\ next.page = page /\ next.waiting = c
  BY <1>1 DEF Ask, TabField
<1>3. calls' = [calls EXCEPT ![c] = call]
  BY DEF Ask
<1> HIDE DEF next
<1> QED BY <1>1, <1>2, <1>3, PageWaits

\* A page that has its connection waits for no call.
LEMMA LiveWaits ==
    ASSUME WebInv, WaitInv, NEW t \in Tab, NEW stored, Live(t, stored),
           UNCHANGED calls \/ \E c : calls[c].tab = t /\ calls' = [calls EXCEPT ![c] = Over]
    PROVE  WaitInv'
<1> DEFINE next == [tab[t] EXCEPT !.stored = stored, !.session = stored, !.page = "live",
                                  !.waiting = 0, !.view = 0, !.pending = FALSE]
<1>1. DOMAIN tab = Tab /\ DOMAIN tab[t] = TabField
  BY DEF WebInv, Shape
<1>2. tab' = [tab EXCEPT ![t] = next] /\ next.page = "live" /\ next.waiting = 0
  BY <1>1 DEF Live, TabField
<1>3. "live" \notin Waiting
  BY DEF Waiting, Asking
<1> HIDE DEF next
<1>4. CASE UNCHANGED calls
  <2>1. PagesStay
    BY <1>1, <1>2, <1>3 DEF PagesStay, PageStays
  <2> QED BY <1>4, <2>1, OthersWait
<1>5. ASSUME NEW c, calls[c].tab = t, calls' = [calls EXCEPT ![c] = Over] PROVE WaitInv'
  BY <1>2, <1>3, <1>5, PageWaits
<1> QED BY <1>4, <1>5

\* A page that waits has made a call, and one that got its answer goes on.
LEMMA PageStepWaits ==
    ASSUME WebInv, WaitInv, NEW t \in Tab,
           PageSteps(t) \/ (\E name \in Name : Submit(t, name))
    PROVE  WaitInv'
<1>1. DOMAIN tab = Tab /\ DOMAIN tab[t] = TabField
  BY DEF WebInv, Shape
<1>2. FreeCall # {} => NewCall \in Call /\ calls[NewCall].stage = "over" /\ NewCall # 0
  BY WebClientAssumption DEF FreeCall, NewCall, Over
<1>3. \A kind, u, v :
         /\ Request(kind, t).tab = t /\ Request(kind, t).stage = "sent"
         /\ WithCookie(t, kind).tab = t /\ WithCookie(t, kind).stage = "sent"
         /\ [Request(kind, t) EXCEPT !.user = u].tab = t
         /\ [Request(kind, t) EXCEPT !.user = u].stage = "sent"
         /\ [Request(kind, t) EXCEPT !.token = u].tab = t
         /\ [Request(kind, t) EXCEPT !.token = u].stage = "sent"
         /\ [Request(kind, t) EXCEPT !.rid = u, !.name = v].tab = t
         /\ [Request(kind, t) EXCEPT !.rid = u, !.name = v].stage = "sent"
  BY DEF WithCookie, Request, Over
<1>4. CASE \/ OpenGames(t) \/ LogOut(t) \/ AskForRoom(t) \/ OpenTv(t)
           \/ (\E u \in User, kind \in {"login", "register"} : SubmitAccount(t, kind, u))
           \/ (\E name \in Name : Submit(t, name))
  <2>1. FreeCall # {}
    BY <1>4 DEF OpenGames, LogOut, AskForRoom, OpenTv, SubmitAccount, Submit
  <2>2. ASSUME NEW call, NEW page \in Asking, call.tab = t, call.stage = "sent",
               Ask(t, NewCall, call, page)
        PROVE  WaitInv'
    BY <1>2, <2>1, <2>2, AskWaits
  <2>3. CASE OpenGames(t)
    <3>1. PICK call : call = WithCookie(t, "me")
      OBVIOUS
    <3> QED BY <1>3, <2>2, <2>3, <3>1 DEF OpenGames, Asking
  <2>4. CASE LogOut(t)
    <3>1. PICK call : call = WithCookie(t, "logout")
      OBVIOUS
    <3> QED BY <1>3, <2>2, <2>4, <3>1 DEF LogOut, Asking
  <2>5. CASE AskForRoom(t)
    <3>1. PICK call : call = WithCookie(t, "create")
      OBVIOUS
    <3>2. PICK page \in {"creating", "calling"} : Ask(t, NewCall, call, page)
      BY <2>5, <3>1 DEF AskForRoom
    <3> QED BY <1>3, <2>2, <3>1, <3>2 DEF Asking
  <2>6. CASE OpenTv(t)
    <3>1. PICK call : call = Request("availability", t)
      OBVIOUS
    <3>2. call.tab = t /\ call.stage = "sent"
      BY <1>3, <3>1
    <3>3. Ask(t, NewCall, call, "opening") /\ "opening" \in Asking
      BY <2>6, <3>1 DEF OpenTv, Asking
    <3> QED BY <2>2, <3>2, <3>3
  <2>7. ASSUME NEW u \in User, NEW kind \in {"login", "register"}, SubmitAccount(t, kind, u)
        PROVE  WaitInv'
    <3>1. PICK call : call = [Request(kind, t) EXCEPT !.user = u]
      OBVIOUS
    <3>2. call.tab = t /\ call.stage = "sent"
      BY <1>3, <3>1
    <3>3. Ask(t, NewCall, call, "login") /\ "login" \in Asking
      BY <2>7, <3>1 DEF SubmitAccount, Asking
    <3> QED BY <2>2, <3>2, <3>3
  <2>8. ASSUME NEW name \in Name, Submit(t, name) PROVE WaitInv'
    <3>1. PICK rid : rid = Rid(t)
      OBVIOUS
    <3>2. PICK call : call = [Request("join", t) EXCEPT !.rid = rid, !.name = name]
      OBVIOUS
    <3>3. Ask(t, NewCall, call, "submitting")
      BY <2>8, <3>1, <3>2 DEF Submit
    <3>4. call.tab = t /\ call.stage = "sent"
      BY <1>3, <3>2
    <3> QED BY <2>2, <3>3, <3>4 DEF Asking
  <2> QED BY <1>4, <2>3, <2>4, <2>5, <2>6, <2>7, <2>8
<1>5. CASE OpenJoin(t)
  <2>1. CASE \E stored : Live(t, stored) /\ UNCHANGED calls
    BY <2>1, LiveWaits
  <2>2. CASE /\ FreeCall # {} /\ calls' = [calls EXCEPT ![NewCall] = Request("availability", t)]
             /\ tab' = [tab EXCEPT ![t].page = "checking", ![t].waiting = NewCall, ![t].mount = @ + 1]
    <3> DEFINE next == [tab[t] EXCEPT !.page = "checking", !.waiting = NewCall, !.mount = @ + 1]
    <3>1. tab' = [tab EXCEPT ![t] = next] /\ next.page = "checking" /\ next.waiting = NewCall
      BY <1>1, <2>2 DEF TabField
    <3>2. PICK call : call = Request("availability", t)
      OBVIOUS
    <3>3. call.tab = t /\ call.stage = "sent" /\ calls' = [calls EXCEPT ![NewCall] = call]
      BY <1>3, <2>2, <3>2
    <3>4. "checking" \in Asking
      BY DEF Asking
    <3> HIDE DEF next
    <3>5. PICK c \in Call : c = NewCall /\ calls[c].stage = "over" /\ c # 0
      BY <1>2, <2>2
    <3>6. tab' = [tab EXCEPT ![t] = next] /\ calls' = [calls EXCEPT ![c] = call]
      BY <3>1, <3>3, <3>5
    <3>7. next.waiting = c /\ next.page \in Asking /\ call.tab = t /\ call.stage # "over"
      BY <3>1, <3>3, <3>4, <3>5
    <3> QED BY <3>5, <3>6, <3>7, PageWaits
  <2> QED BY <1>5, <2>1, <2>2 DEF OpenJoin
<1>6. ASSUME NEW c \in Call, NEW kind, Receives(t, c, kind)
      PROVE  calls[c].tab = t /\ tab[t].waiting = c /\ c # 0
  BY <1>6, WebClientAssumption DEF Receives
<1>7. ASSUME NEW c \in Call, GotMe(t, c) PROVE WaitInv'
  <2>1. PICK call : call = WithCookie(t, "owned")
    OBVIOUS
  <2>2. calls[c].tab = t /\ call.tab = t /\ call.stage = "sent" /\ Ask(t, c, call, "owned")
    BY <1>3, <1>6, <1>7, <2>1 DEF GotMe
  <2> QED BY <2>2, AskWaits DEF Asking
<1>8. ASSUME NEW c \in Call, GotTv(t, c) \/ GotSeat(t, c) PROVE WaitInv'
  <2>1. calls[c].tab = t
    BY <1>6, <1>8 DEF GotTv, GotSeat
  <2>2. \E stored : Live(t, stored)
    BY <1>8 DEF GotTv, GotSeat
  <2>3. calls' = [calls EXCEPT ![c] = Over]
    BY <1>8 DEF GotTv, GotSeat
  <2> QED BY <2>1, <2>2, <2>3, LiveWaits
<1>9. ASSUME NEW c \in Call, GotOwned(t, c) \/ GotAvailability(t, c) \/ GotLogout(t, c) PROVE WaitInv'
  <2>1. calls[c].tab = t /\ calls' = [calls EXCEPT ![c] = Over]
    BY <1>6, <1>9 DEF GotOwned, GotAvailability, GotLogout
  <2>2. tab'[t].waiting = 0 /\ tab'[t].page \in {"owner", "not owner", "ready", "out"}
    BY <1>1, <1>9 DEF GotOwned, GotAvailability, GotLogout, TabField
  <2>3. tab' = [tab EXCEPT ![t] = tab'[t]]
    BY <1>1, <1>9 DEF GotOwned, GotAvailability, GotLogout
  <2>4. PICK page : page = tab'[t]
    OBVIOUS
  <2>5. page.page \notin Waiting
    BY <2>2, <2>4 DEF Waiting, Asking
  <2> QED BY <2>1, <2>2, <2>3, <2>4, <2>5, PageWaits
<1>10. ASSUME NEW c \in Call, GotAccount(t, c) \/ GotRoom(t, c) PROVE WaitInv'
  <2>1. calls[c].tab = t /\ tab[t].waiting = c /\ c # 0
    BY <1>6, <1>10 DEF GotAccount, GotRoom
  <2>2. PICK call : calls' = [calls EXCEPT ![c] = call] /\ call.tab = t /\ call.stage = "sent"
    <3>1. CASE GotAccount(t, c)
      <4>1. PICK call : call = [Request("me", t) EXCEPT !.token = calls[c].token]
        OBVIOUS
      <4>2. PICK token : token = calls[c].token
        OBVIOUS
      <4>3. call.tab = t /\ call.stage = "sent"
        BY <1>3, <4>1, <4>2
      <4>4. calls' = [calls EXCEPT ![c] = call]
        BY <3>1, <4>1 DEF GotAccount
      <4> QED BY <4>3, <4>4
    <3>2. CASE GotRoom(t, c)
      <4>1. PICK call : call = Request("availability", t)
        OBVIOUS
      <4>2. call.tab = t /\ call.stage = "sent"
        BY <1>3, <4>1
      <4>3. calls' = [calls EXCEPT ![c] = call]
        BY <3>2, <4>1 DEF GotRoom
      <4> QED BY <4>2, <4>3
    <3> QED BY <1>10, <3>1, <3>2
  <2>3. tab'[t].waiting = tab[t].waiting /\ tab'[t].page \in {"loading", "opening"}
    BY <1>1, <1>10 DEF GotAccount, GotRoom, TabField
  <2>4. tab' = [tab EXCEPT ![t] = tab'[t]]
    BY <1>1, <1>10 DEF GotAccount, GotRoom
  <2>5. PICK page : page = tab'[t]
    OBVIOUS
  <2>6. page.page \in Asking
    BY <2>3, <2>5 DEF Asking
  <2> QED BY <2>1, <2>2, <2>3, <2>4, <2>5, <2>6, PageWaits
<1> QED BY <1>4, <1>5, <1>7, <1>8, <1>9, <1>10 DEF PageSteps

\* A call failed, or nobody waits for it: a page that waited for it waits no longer.
LEMMA FailureWaits ==
    ASSUME WebInv, WaitInv, (\E c \in Call : ReceiveNothing(c)) \/ (\E t \in Tab : GiveUp(t))
    PROVE  WaitInv'
<1>1. DOMAIN tab = Tab /\ \A q \in Tab : DOMAIN tab[q] = TabField
  BY DEF WebInv, Shape
<1>2. DOMAIN calls = Call /\ Over.stage = "over"
  BY DEF WebInv, Shape, Over
<1>3. ASSUME NEW t \in Tab, tab[t].waiting # 0, tab' = Failed(t),
             UNCHANGED calls \/ calls' = [calls EXCEPT ![tab[t].waiting] = Over]
      PROVE  WaitInv'
  <2> DEFINE next == [tab[t] EXCEPT !.page = AfterFailure[tab[t].page], !.waiting = 0]
  <2>1. tab' = [tab EXCEPT ![t] = next] /\ next.page = AfterFailure[tab[t].page] /\ next.waiting = 0
    BY <1>1, <1>3 DEF Failed, TabField
  <2>2. /\ tab[t].waiting \in Call /\ calls[tab[t].waiting].tab = t /\ tab[t].page \in Asking
    BY <1>3 DEF WaitInv, WaitOk
  <2>3. AfterFailure[tab[t].page] \notin Waiting
    BY <2>2, AskingPages
  <2> HIDE DEF next
  <2>4. CASE UNCHANGED calls
    <3>1. PagesStay
      BY <1>1, <2>1, <2>3 DEF PagesStay, PageStays
    <3> QED BY <2>4, <3>1, OthersWait
  <2>5. CASE calls' = [calls EXCEPT ![tab[t].waiting] = Over]
    BY <2>1, <2>2, <2>3, <2>5, PageWaits
  <2> QED BY <1>3, <2>4, <2>5
<1>4. ASSUME NEW t \in Tab, GiveUp(t) PROVE WaitInv'
  BY <1>3, <1>4 DEF GiveUp
<1>5. ASSUME NEW c \in Call, ReceiveNothing(c) PROVE WaitInv'
  <2>1. calls' = [calls EXCEPT ![c] = Over]
    BY <1>5 DEF ReceiveNothing
  <2>2. CASE tab[calls[c].tab].waiting # c /\ UNCHANGED tab
    <3>1. ASSUME NEW q \in Tab PROVE WaitOk(q, tab[q])'
      <4>1. WaitOk(q, tab[q]) /\ tab'[q] = tab[q]
        BY <2>2 DEF WaitInv
      <4>2. tab[q].waiting # 0 => tab[q].waiting # c
        BY <2>2, <4>1 DEF WaitOk
      <4> QED BY <1>2, <2>1, <4>1, <4>2 DEF WaitOk
    <3> QED BY <3>1 DEF WaitInv
  <2>3. CASE tab[calls[c].tab].waiting = c /\ tab' = Failed(calls[c].tab)
    <3>1. CASE calls[c].tab \in Tab
      <4>1. PICK t \in Tab : t = calls[c].tab
        BY <3>1
      <4>2. tab[t].waiting # 0
        BY <2>3, <4>1, WebClientAssumption
      <4> QED BY <1>3, <2>1, <2>3, <4>1, <4>2
    <3>2. CASE calls[c].tab \notin Tab
      <4>1. DOMAIN tab' = Tab /\ \A q \in Tab : tab'[q] = tab[q]
        BY <1>1, <2>3, <3>2 DEF Failed
      <4>2. ASSUME NEW q \in Tab PROVE WaitOk(q, tab[q])'
        <5>1. WaitOk(q, tab[q]) /\ tab'[q] = tab[q]
          BY <4>1 DEF WaitInv
        <5>2. tab[q].waiting # 0 => tab[q].waiting # c
          BY <3>2, <5>1 DEF WaitOk
        <5> QED BY <1>2, <2>1, <5>1, <5>2 DEF WaitOk
      <4> QED BY <4>2 DEF WaitInv
    <3> QED BY <3>1, <3>2
  <2> QED BY <1>5, <2>2, <2>3 DEF ReceiveNothing
<1> QED BY <1>4, <1>5

\* So do the hooks and the leaving of a page.
LEMMA HooksPages ==
    ASSUME WebInv, NEW t \in Tab, Hooks(t) \/ Reload(t) \/ FollowLink(t) PROVE PagesStay
<1>1. DOMAIN tab = Tab /\ \A q \in Tab : DOMAIN tab[q] = TabField
  BY DEF WebInv, Shape
<1>2. ASSUME NEW c, Becomes(t, c) PROVE PagesStay
  BY <1>1, <1>2 DEF Becomes, PagesStay, PageStays, TabField
<1>3. ASSUME NEW e, tab' = Shown(t, e) \/ UNCHANGED tab PROVE PagesStay
  <2>1. CASE UNCHANGED tab
    BY <2>1 DEF PagesStay, PageStays
  <2>2. CASE tab' = [tab EXCEPT ![t].view = e.v, ![t].pending = FALSE]
    BY <1>1, <2>2 DEF PagesStay, PageStays, TabField
  <2>3. CASE tab' = [tab EXCEPT ![t].pending = FALSE]
    BY <1>1, <2>3 DEF PagesStay, PageStays, TabField
  <2>4. CASE tab' = [tab EXCEPT ![t].stored = 0]
    BY <1>1, <2>4 DEF PagesStay, PageStays, TabField
  <2> QED BY <1>3, <2>1, <2>2, <2>3, <2>4 DEF Shown
<1>4. CASE SendEvent(t) \/ NetworkChanges(t)
  BY <1>1, <1>4 DEF SendEvent, NetworkChanges, PagesStay, PageStays, TabField
<1>5. CASE \E s \in Sock : EventArrives(t, s)
  <2>1. (\E e : tab' = Shown(t, e) \/ UNCHANGED tab) \/ (\E c : Becomes(t, c))
    BY <1>5 DEF EventArrives, Overtaken
  <2> QED BY <2>1, <1>2, <1>3
<1>6. CASE RetryConnection(t) \/ TimerFires(t) \/ NetEventArrives(t)
  <2>1. \E c : Becomes(t, c)
    BY <1>6 DEF RetryConnection, TimerFires, NetEventArrives
  <2> QED BY <2>1, <1>2
<1>7. CASE Reload(t) \/ FollowLink(t)
  <2> DEFINE next == [tab[t] EXCEPT !.page = "away", !.waiting = 0, !.session = 0,
                                    !.view = 0, !.pending = FALSE]
  <2>1. tab' = [tab EXCEPT ![t] = next] /\ next.page = "away" /\ next.waiting = 0
    BY <1>1, <1>7 DEF Reload, FollowLink, Away, TabField
  <2>2. "away" \notin Waiting
    BY DEF Waiting, Asking
  <2> HIDE DEF next
  <2> QED BY <1>1, <2>1, <2>2 DEF PagesStay, PageStays
<1> QED BY <1>4, <1>5, <1>6, <1>7 DEF Hooks

\* Nobody waits at the start.
LEMMA WaitInit == Init => WaitInv
BY DEF Init, NewTab, WaitInv, WaitOk, Waiting, Asking

\* Every step keeps the calls that are waited for.
LEMMA WaitStep == ASSUME WebInv, WaitInv, [Next]_vars PROVE WaitInv'
<1>1. CASE ServerStep /\ UNCHANGED <<tab, rt, version>>
  BY <1>1, ServerWaits
<1>2. CASE \E t \in Tab : PageSteps(t) \/ \E name \in Name : Submit(t, name)
  BY <1>2, PageStepWaits
<1>3. CASE (\E c \in Call : ReceiveNothing(c)) \/ (\E t \in Tab : GiveUp(t))
  BY <1>3, FailureWaits
<1>4. CASE \E t \in Tab : Reload(t) \/ FollowLink(t) \/ Hooks(t)
  <2>1. UNCHANGED calls
    BY <1>4 DEF Reload, FollowLink, Hooks, RetryConnection, SendEvent, TimerFires, NetEventArrives,
                NetworkChanges, EventArrives, serverVars, httpVars
  <2>2. PagesStay
    BY <1>4, HooksPages
  <2> QED BY <2>1, <2>2, OthersWait
<1>5. CASE (\E t \in Tab, s \in Sock : Network(t, s)) \/ RoomChanges \/ UNCHANGED vars
  <2>1. UNCHANGED <<calls, tab>>
    BY <1>5, NetworkKeeps
  <2>2. PagesStay
    BY <2>1 DEF PagesStay, PageStays
  <2> QED BY <2>1, <2>2, OthersWait
<1>6. ASSUME NEW t \in HostTab, HostPage(t) \/ OpenTv(t) PROVE t \in Tab /\ PageSteps(t)
  BY <1>6, WebClientAssumption DEF HostPage, PageSteps
<1>7. ASSUME NEW t \in PlayerTab, GuestPage(t)
      PROVE  t \in Tab /\ (PageSteps(t) \/ \E name \in Name : Submit(t, name))
  BY <1>7, WebClientAssumption DEF GuestPage, PageSteps
<1> QED BY <1>1, <1>2, <1>3, <1>4, <1>5, <1>6, <1>7 DEF Next

-----------------------------------------------------------------------------
(* What waits for the listeners of a socket *)

EventRecord ==
    [type : {"authenticated", "view", "error", "SESSION_INVALID", "close"}, v : Nat,
     code : CloseCode \cup {"none"}]

\* One event, on a socket of a room with n versions of its views.
EventOk(e, conn, auth, n) ==
    /\ e.type = "close" => conn = "closed"
    /\ e.type = "authenticated" => auth = "done"
    /\ e.type = "SESSION_INVALID" => auth = "refused" \/ conn = "closed"
    /\ e.type = "view" => e.v <= n

InOrder(e, f) == e.type = "view" /\ f.type = "view" => e.v <= f.v

\* A close is the last event, an authentication is not, a session is refused at once or
\* given up right before the close, and views are in their order.
Orderly(q, conn, auth, n) ==
    /\ \A i \in 1 .. Len(q) : EventOk(q[i], conn, auth, n)
    /\ \A i \in 1 .. Len(q) : q[i].type = "close" => i = Len(q)
    /\ \A i \in 1 .. Len(q) : q[i].type = "authenticated" => i # Len(q)
    /\ \A i \in 1 .. Len(q) : q[i].type = "SESSION_INVALID" /\ auth # "refused" => i + 1 = Len(q)
    /\ \A i \in 1 .. Len(q) : \A j \in 1 .. i : InOrder(q[j], q[i])

\* No view in it is older than version w.
NotBefore(q, w) == \A i \in 1 .. Len(q) : q[i].type = "view" => w <= q[i].v

\* An event stays right when its socket moves on.
LEMMA EventMoves ==
    ASSUME NEW e \in EventRecord, NEW n \in Nat, NEW m \in Nat, n <= m,
           NEW conn, NEW auth, NEW newConn, NEW newAuth, EventOk(e, conn, auth, n),
           newConn = conn \/ conn # "closed", newAuth = auth \/ auth \notin {"done", "refused"}
    PROVE  EventOk(e, newConn, newAuth, m)
<1>1. e.v \in Nat
  BY DEF EventRecord
<1>2. e.type = "view" => e.v <= m
  BY <1>1 DEF EventOk
<1> QED BY <1>2 DEF EventOk

\* One event is put at the end.
LEMMA PutOne ==
    ASSUME NEW q \in Seq(EventRecord), NEW e \in EventRecord
    PROVE  LET r == q \o <<e>>
           IN  /\ r \in Seq(EventRecord) /\ r # <<>>
               /\ Len(q) \in Nat /\ Len(r) = Len(q) + 1 /\ r[Len(q) + 1] = e
               /\ \A i \in 1 .. Len(q) : r[i] = q[i]
<1>1. <<e>> \in Seq(EventRecord) /\ Len(<<e>>) = 1 /\ <<e>>[1] = e
  OBVIOUS
<1>2. Len(q) \in Nat
  BY LenProperties
<1> QED BY <1>1, <1>2, ConcatProperties, EmptySeq

\* Two events are put at the end, one after the other.
LEMMA PutBoth ==
    ASSUME NEW q \in Seq(EventRecord), NEW e \in EventRecord, NEW f \in EventRecord,
           NEW p, p = q \o <<e>>, NEW r, r = p \o <<f>>
    PROVE  /\ r \in Seq(EventRecord) /\ r # <<>>
           /\ Len(q) \in Nat /\ Len(r) = Len(q) + 2
           /\ r[Len(q) + 1] = e /\ r[Len(q) + 2] = f /\ r[Len(r)] = f
           /\ \A i \in 1 .. Len(q) : r[i] = q[i]
<1>1. /\ p \in Seq(EventRecord) /\ Len(q) \in Nat /\ Len(p) = Len(q) + 1 /\ p[Len(q) + 1] = e
      /\ \A i \in 1 .. Len(q) : p[i] = q[i]
  BY PutOne
<1>2. /\ r \in Seq(EventRecord) /\ r # <<>> /\ Len(r) = Len(p) + 1 /\ r[Len(p) + 1] = f
      /\ \A i \in 1 .. Len(p) : r[i] = p[i]
  BY <1>1, PutOne
<1>3. Len(r) = Len(q) + 2 /\ r[Len(q) + 2] = f
  <2>1. Len(p) + 1 = Len(q) + 2
    BY <1>1
  <2> QED BY <1>2, <2>1
<1>4. r[Len(q) + 1] = e
  <2>1. Len(q) + 1 \in 1 .. Len(p)
    BY <1>1
  <2> QED BY <1>1, <1>2, <2>1
<1>5. \A i \in 1 .. Len(q) : i \in 1 .. Len(p)
  BY <1>1
<1> QED BY <1>1, <1>2, <1>3, <1>4, <1>5

\* Two events are put at the end.
LEMMA PutTwo ==
    ASSUME NEW q \in Seq(EventRecord), NEW e \in EventRecord, NEW f \in EventRecord
    PROVE  LET r == q \o <<e, f>>
           IN  /\ r \in Seq(EventRecord) /\ r # <<>>
               /\ Len(q) \in Nat /\ Len(r) = Len(q) + 2
               /\ r[Len(q) + 1] = e /\ r[Len(q) + 2] = f
               /\ \A i \in 1 .. Len(q) : r[i] = q[i]
<1>1. <<e, f>> \in Seq(EventRecord) /\ Len(<<e, f>>) = 2 /\ <<e, f>>[1] = e /\ <<e, f>>[2] = f
  OBVIOUS
<1>2. Len(q) \in Nat
  BY LenProperties
<1> QED BY <1>1, <1>2, ConcatProperties, EmptySeq

\* No number is above itself.
LEMMA NotAboveItself == \A n \in Nat : n <= n
OBVIOUS

\* Of two events one is left.
LEMMA OneLess == \A n \in Nat : \A m : m = n - 1 /\ 1 + 1 = n => m = 1
OBVIOUS

\* A sequence has grown.
LEMMA HasGrown == \A n \in Nat : n < n + 1 /\ n < n + 2 /\ n + 1 \in Nat /\ n + 2 \in Nat
OBVIOUS

\* The places of a sequence of n elements that has grown to m.
LEMMA Places ==
    ASSUME NEW n \in Nat, NEW m \in Nat, n < m
    PROVE  /\ \A i \in 1 .. m : i \in 1 .. n \/ i \in n + 1 .. m
           /\ \A i \in 1 .. n : i # m /\ i \in 1 .. m
           /\ \A i \in 1 .. n : \A j \in 1 .. i : j \in 1 .. n
           /\ \A i \in 1 .. m : \A j \in 1 .. i : j \in 1 .. m
           /\ m = n + 1 => \A i \in n + 1 .. m : i = m
           /\ m = n + 2 => \A i \in n + 1 .. m : (i = n + 1 /\ i # m /\ i + 1 = m) \/ i = m
OBVIOUS

\* The inbox without its first event.
LEMMA ShorterInbox ==
    ASSUME NEW q \in Seq(EventRecord), q # <<>>, NEW conn, NEW auth, NEW n,
           Orderly(q, conn, auth, n)
    PROVE  LET r == Tail(q)
           IN  /\ r \in Seq(EventRecord) /\ Orderly(r, conn, auth, n)
               /\ Head(q) \in EventRecord /\ EventOk(Head(q), conn, auth, n)
               /\ Head(q).type = "authenticated" => r # <<>>
               /\ Head(q).type # "close" /\ q[Len(q)].type = "close" =>
                     /\ r # <<>> /\ r[Len(r)].type = "close"
                     /\ Head(q).type = "SESSION_INVALID" /\ auth # "refused" => Head(r).type = "close"
               /\ Head(q).type = "view" => NotBefore(r, Head(q).v)
               /\ \A w : NotBefore(q, w) => NotBefore(r, w)
               /\ \A w : NotBefore(q, w) /\ Head(q).type = "view" => w <= Head(q).v
<1> DEFINE r == Tail(q)
<1>1. Len(q) \in Nat
  BY LenProperties
<1>2. /\ Head(q) = q[1] /\ Head(q) \in EventRecord /\ Len(q) >= 1
      /\ Len(r) = Len(q) - 1 /\ r \in Seq(EventRecord)
      /\ \A i \in 1 .. Len(r) : r[i] = q[i + 1]
  BY <1>1, HeadTailProperties, EmptySeq
<1>3. Len(r) \in Nat /\ (r = <<>> <=> Len(r) = 0)
  BY <1>2, EmptySeq, LenProperties
<1> HIDE DEF r
<1>4. 1 \in 1 .. Len(q) /\ \A i \in 1 .. Len(r) : i + 1 \in 1 .. Len(q)
  BY <1>1, <1>2
<1>5. \A i \in 1 .. Len(r) : EventOk(r[i], conn, auth, n)
  BY <1>2, <1>4 DEF Orderly
<1>6. \A i \in 1 .. Len(r) : i + 1 = Len(q) <=> i = Len(r)
  BY <1>1, <1>2
<1>7. /\ \A i \in 1 .. Len(r) : r[i].type = "close" => i = Len(r)
      /\ \A i \in 1 .. Len(r) : r[i].type = "authenticated" => i # Len(r)
      /\ \A i \in 1 .. Len(r) : r[i].type = "SESSION_INVALID" /\ auth # "refused" => i + 1 = Len(r)
  <2>1. \A i \in 1 .. Len(r) : (i + 1) + 1 = Len(q) <=> i + 1 = Len(r)
    BY <1>1, <1>2
  <2> QED BY <1>2, <1>4, <1>6, <2>1 DEF Orderly
<1>8. \A i \in 1 .. Len(r) : \A j \in 1 .. i : InOrder(r[j], r[i])
  <2>1. \A i \in 1 .. Len(r) : \A j \in 1 .. i : j \in 1 .. Len(r) /\ j + 1 \in 1 .. i + 1
    BY <1>3
  <2> QED BY <1>2, <1>4, <2>1 DEF Orderly
<1>9. Orderly(r, conn, auth, n)
  BY <1>5, <1>7, <1>8 DEF Orderly
<1>10. Head(q).type = "authenticated" => r # <<>>
  <2>1. q[1].type = "authenticated" => 1 # Len(q)
    BY <1>4 DEF Orderly
  <2> QED BY <1>1, <1>2, <1>3, <2>1
<1>11. Head(q).type # "close" /\ q[Len(q)].type = "close" =>
          /\ r # <<>> /\ r[Len(r)].type = "close"
          /\ Head(q).type = "SESSION_INVALID" /\ auth # "refused" => Head(r).type = "close"
  <2>1. Head(q).type # "close" /\ q[Len(q)].type = "close" => Len(q) # 1
    BY <1>2
  <2>2. Len(q) # 1 => Len(r) \in 1 .. Len(r) /\ Len(r) + 1 = Len(q)
    BY <1>1, <1>2
  <2>3. Head(q).type = "SESSION_INVALID" /\ auth # "refused" => Len(r) = 1
    <3>1. q[1].type = "SESSION_INVALID" /\ auth # "refused" => 1 + 1 = Len(q)
      BY <1>4 DEF Orderly
    <3> QED BY <1>1, <1>2, <3>1, OneLess, Zenon
  <2>4. Len(r) = 1 => Head(r) = r[1]
    BY <1>2, <1>3, HeadTailProperties
  <2>5. Len(q) # 1 => Len(r) \in 1 .. Len(r) /\ r[Len(r)] = q[Len(q)] /\ r # <<>>
    <3>1. Len(q) # 1 => Len(r) \in 1 .. Len(r)
      BY <2>2
    <3>2. Len(r) \in 1 .. Len(r) => r # <<>>
      BY <1>3
    <3> QED BY <1>2, <2>2, <3>1, <3>2
  <2>6. Len(r) = 1 => Head(r) = r[Len(r)]
    BY <2>4
  <2> SUFFICES ASSUME Head(q).type # "close", q[Len(q)].type = "close"
               PROVE  /\ r # <<>> /\ r[Len(r)].type = "close"
                      /\ Head(q).type = "SESSION_INVALID" /\ auth # "refused" => Head(r).type = "close"
    OBVIOUS
  <2>7. r # <<>> /\ r[Len(r)] = q[Len(q)]
    BY <2>1, <2>5, Zenon
  <2>8. r[Len(r)].type = "close"
    BY <2>7, Zenon
  <2>9. ASSUME Head(q).type = "SESSION_INVALID", auth # "refused" PROVE Head(r).type = "close"
    <3>1. Head(r) = r[Len(r)]
      BY <2>3, <2>6, <2>9, Zenon
    <3> QED BY <2>8, <3>1, Zenon
  <2> QED BY <2>7, <2>8, <2>9, Zenon
<1>12. ASSUME Head(q).type = "view" PROVE NotBefore(r, Head(q).v)
  <2>1. \A i \in 1 .. Len(r) : 1 \in 1 .. i + 1
    BY <1>3
  <2>2. \A i \in 1 .. Len(r) : InOrder(q[1], q[i + 1])
    BY <1>4, <2>1 DEF Orderly
  <2> QED BY <1>2, <1>12, <2>2 DEF NotBefore, InOrder
<1>13. ASSUME NEW w, NotBefore(q, w)
       PROVE NotBefore(r, w) /\ (Head(q).type = "view" => w <= Head(q).v)
  BY <1>2, <1>4, <1>13 DEF NotBefore
<1>14. EventOk(Head(q), conn, auth, n)
  <2>1. EventOk(q[1], conn, auth, n)
    BY <1>4 DEF Orderly
  <2> QED BY <1>2, <2>1
<1> QED BY <1>2, <1>9, <1>10, <1>11, <1>12, <1>13, <1>14 DEF r

\* The inbox of a socket whose connection or session moves on.
LEMMA SameInbox ==
    ASSUME NEW q \in Seq(EventRecord), NEW n \in Nat, NEW m \in Nat, n <= m,
           NEW conn, NEW auth, NEW newConn, NEW newAuth, Orderly(q, conn, auth, n),
           newConn = conn \/ conn # "closed", newAuth = auth \/ auth \notin {"done", "refused"}
    PROVE  Orderly(q, newConn, newAuth, m)
<1>1. \A i \in 1 .. Len(q) : q[i] \in EventRecord /\ EventOk(q[i], conn, auth, n)
  BY ElementOfSeq DEF Orderly
<1>2. \A i \in 1 .. Len(q) : EventOk(q[i], newConn, newAuth, m)
  BY <1>1, EventMoves
<1> QED BY <1>2 DEF Orderly

\* An inbox with more events, their views not older than what there is.
LEMMA LongerInbox ==
    ASSUME NEW m \in Nat, NEW conn, NEW auth,
           NEW q \in Seq(EventRecord), NEW r \in Seq(EventRecord),
           Len(q) < Len(r), \A i \in 1 .. Len(q) : r[i] = q[i],
           Orderly(q, conn, auth, m), \A i \in 1 .. Len(q) : q[i].type # "close",
           \A i \in 1 .. Len(q) : q[i].type = "SESSION_INVALID" => auth = "refused",
           \A i \in Len(q) + 1 .. Len(r) :
              /\ EventOk(r[i], conn, auth, m)
              /\ r[i].type = "view" => r[i].v = m
              /\ r[i].type = "close" => i = Len(r)
              /\ r[i].type = "authenticated" => i # Len(r)
              /\ r[i].type = "SESSION_INVALID" /\ auth # "refused" => i + 1 = Len(r)
    PROVE  Orderly(r, conn, auth, m) /\ \A w : w <= m /\ NotBefore(q, w) => NotBefore(r, w)
<1>1. Len(q) \in Nat /\ Len(r) \in Nat
  BY LenProperties
<1>2. \A i \in 1 .. Len(r) : i \in 1 .. Len(q) \/ i \in Len(q) + 1 .. Len(r)
  BY <1>1, Places, Zenon
<1>3. \A i \in 1 .. Len(r) : EventOk(r[i], conn, auth, m)
  BY <1>2 DEF Orderly
<1>4. \A i \in 1 .. Len(q) : i # Len(r)
  BY <1>1, Places, Zenon
<1>5. /\ \A i \in 1 .. Len(r) : r[i].type = "close" => i = Len(r)
      /\ \A i \in 1 .. Len(r) : r[i].type = "authenticated" => i # Len(r)
      /\ \A i \in 1 .. Len(r) : r[i].type = "SESSION_INVALID" /\ auth # "refused" => i + 1 = Len(r)
  BY <1>2, <1>4
<1>6. ASSUME NEW i \in 1 .. Len(r), NEW j \in 1 .. i PROVE InOrder(r[j], r[i])
  <2>1. CASE i \in 1 .. Len(q)
    <3>1. j \in 1 .. Len(q)
      BY <1>1, <2>1, Places, Zenon
    <3> QED BY <2>1, <3>1 DEF Orderly
  <2>2. CASE i \in Len(q) + 1 .. Len(r)
    <3>1. j \in 1 .. Len(r)
      BY <1>1, Places, Zenon
    <3>2. r[j].type = "view" => r[j].v <= m
      BY <1>3, <3>1 DEF EventOk
    <3> QED BY <2>2, <3>2 DEF InOrder
  <2> QED BY <1>2, <2>1, <2>2
<1>7. ASSUME NEW w, w <= m, NotBefore(q, w) PROVE NotBefore(r, w)
  BY <1>2, <1>7 DEF NotBefore
<1> QED BY <1>3, <1>5, <1>6, <1>7 DEF Orderly

\* One event more, which is no authentication.
LEMMA EventAdded ==
    ASSUME NEW n \in Nat, NEW q \in Seq(EventRecord), NEW e \in EventRecord,
           NEW conn, NEW newConn, NEW auth, NEW newAuth, conn # "closed",
           newAuth = auth \/ auth \notin {"done", "refused"}, Orderly(q, conn, auth, n),
           e.type # "authenticated", EventOk(e, newConn, newAuth, n), e.type = "view" => e.v = n,
           e.type = "SESSION_INVALID" => newAuth = "refused"
    PROVE  LET r == q \o <<e>>
           IN  /\ r \in Seq(EventRecord) /\ r # <<>> /\ r[Len(r)] = e
               /\ Orderly(r, newConn, newAuth, n)
               /\ \A w : w <= n /\ NotBefore(q, w) => NotBefore(r, w)
<1> DEFINE r == q \o <<e>>
<1>1. /\ r \in Seq(EventRecord) /\ r # <<>>
      /\ Len(q) \in Nat /\ Len(r) = Len(q) + 1 /\ r[Len(q) + 1] = e
      /\ \A i \in 1 .. Len(q) : r[i] = q[i]
  BY PutOne
<1> HIDE DEF r
<1>2. Orderly(q, newConn, newAuth, n)
  <2>1. n <= n
    BY NotAboveItself, Zenon
  <2> QED BY <2>1, SameInbox, Zenon
<1>3. \A i \in 1 .. Len(q) : /\ q[i].type # "close"
                             /\ q[i].type = "SESSION_INVALID" => newAuth = "refused"
  BY DEF Orderly, EventOk
<1>4. Len(q) < Len(r) /\ \A i \in Len(q) + 1 .. Len(r) : i = Len(r) /\ r[i] = e
  <2>1. Len(q) < Len(r) /\ Len(r) \in Nat
    BY <1>1, HasGrown, Zenon
  <2>2. \A i \in Len(q) + 1 .. Len(r) : i = Len(r)
    BY <1>1, <2>1, Places, Zenon
  <2>3. r[Len(r)] = e
    BY <1>1, Zenon
  <2> QED BY <2>1, <2>2, <2>3, Zenon
<1>5. \A i \in Len(q) + 1 .. Len(r) :
              /\ EventOk(r[i], newConn, newAuth, n)
              /\ r[i].type = "view" => r[i].v = n
              /\ r[i].type = "close" => i = Len(r)
              /\ r[i].type = "authenticated" => i # Len(r)
              /\ r[i].type = "SESSION_INVALID" /\ newAuth # "refused" => i + 1 = Len(r)
  BY <1>4
<1>6. Orderly(r, newConn, newAuth, n) /\ \A w : w <= n /\ NotBefore(q, w) => NotBefore(r, w)
  BY <1>1, <1>2, <1>3, <1>4, <1>5, LongerInbox
<1> QED BY <1>1, <1>6 DEF r

\* An authentication and the view that follows it.
LEMMA TwoMore ==
    ASSUME NEW n \in Nat, NEW q \in Seq(EventRecord), NEW e \in EventRecord,
           NEW f \in EventRecord, NEW conn, NEW auth, conn # "closed",
           auth \notin {"done", "refused"}, Orderly(q, conn, auth, n),
           e.type = "authenticated", f.type = "view", f.v = n
    PROVE  LET r == q \o <<e, f>>
           IN  /\ r \in Seq(EventRecord) /\ r # <<>> /\ Orderly(r, conn, "done", n)
               /\ \A w : w <= n /\ NotBefore(q, w) => NotBefore(r, w)
<1> DEFINE r == q \o <<e, f>>
<1>1. /\ r \in Seq(EventRecord) /\ r # <<>>
      /\ Len(q) \in Nat /\ Len(r) = Len(q) + 2 /\ r[Len(q) + 1] = e /\ r[Len(q) + 2] = f
      /\ \A i \in 1 .. Len(q) : r[i] = q[i]
  BY PutTwo
<1> HIDE DEF r
<1>2. Orderly(q, conn, "done", n)
  BY SameInbox
<1>3. /\ \A i \in 1 .. Len(q) : q[i].type # "close"
      /\ \A i \in 1 .. Len(q) : q[i].type = "SESSION_INVALID" => "done" = "refused"
  BY DEF Orderly, EventOk
<1>4. EventOk(e, conn, "done", n) /\ EventOk(f, conn, "done", n)
  BY DEF EventOk
<1>5. Len(q) < Len(r) /\ \A i \in Len(q) + 1 .. Len(r) : (i # Len(r) /\ r[i] = e) \/ (i = Len(r) /\ r[i] = f)
  BY <1>1
<1>6. \A i \in Len(q) + 1 .. Len(r) :
              /\ EventOk(r[i], conn, "done", n)
              /\ r[i].type = "view" => r[i].v = n
              /\ r[i].type = "close" => i = Len(r)
              /\ r[i].type = "authenticated" => i # Len(r)
              /\ r[i].type = "SESSION_INVALID" /\ "done" # "refused" => i + 1 = Len(r)
  BY <1>4, <1>5
<1>7. Orderly(r, conn, "done", n) /\ \A w : w <= n /\ NotBefore(q, w) => NotBefore(r, w)
  BY <1>1, <1>2, <1>3, <1>5, <1>6, LongerInbox, Zenon
<1> QED BY <1>1, <1>7 DEF r

\* The session is given up, and the socket closed.
LEMMA LastWords ==
    ASSUME NEW n \in Nat, NEW q \in Seq(EventRecord), NEW e \in EventRecord,
           NEW f \in EventRecord, NEW conn, NEW auth, conn # "closed", Orderly(q, conn, auth, n),
           e.type = "SESSION_INVALID", f.type = "close"
    PROVE  LET r == (q \o <<e>>) \o <<f>>
           IN  /\ r \in Seq(EventRecord) /\ r # <<>> /\ r[Len(r)] = f
               /\ Orderly(r, "closed", auth, n)
               /\ \A w : w <= n /\ NotBefore(q, w) => NotBefore(r, w)
<1>1. PICK p, r : p = q \o <<e>> /\ r = p \o <<f>>
  OBVIOUS
<1>2. /\ r \in Seq(EventRecord) /\ r # <<>>
      /\ Len(q) \in Nat /\ Len(r) = Len(q) + 2
      /\ r[Len(q) + 1] = e /\ r[Len(q) + 2] = f /\ r[Len(r)] = f
      /\ \A i \in 1 .. Len(q) : r[i] = q[i]
  BY <1>1, PutBoth
<1>3. Orderly(q, "closed", auth, n)
  <2>1. n <= n
    BY NotAboveItself, Zenon
  <2> QED BY <2>1, SameInbox, Zenon
<1>4. \A i \in 1 .. Len(q) : /\ q[i].type # "close"
                             /\ q[i].type = "SESSION_INVALID" => auth = "refused"
  BY DEF Orderly, EventOk
<1>5. EventOk(e, "closed", auth, n) /\ EventOk(f, "closed", auth, n)
  BY DEF EventOk
<1>6. Len(q) < Len(r) /\ \A i \in Len(q) + 1 .. Len(r) :
                            (i + 1 = Len(r) /\ r[i] = e) \/ (i = Len(r) /\ r[i] = f)
  <2>1. Len(q) < Len(r) /\ Len(r) \in Nat
    BY <1>2, HasGrown, Zenon
  <2>2. \A i \in Len(q) + 1 .. Len(r) : (i = Len(q) + 1 /\ i # Len(r) /\ i + 1 = Len(r)) \/ i = Len(r)
    BY <1>2, <2>1, Places, Zenon
  <2> QED BY <1>2, <2>1, <2>2, Zenon
<1>7. \A i \in Len(q) + 1 .. Len(r) :
              /\ EventOk(r[i], "closed", auth, n)
              /\ r[i].type = "view" => r[i].v = n
              /\ r[i].type = "close" => i = Len(r)
              /\ r[i].type = "authenticated" => i # Len(r)
              /\ r[i].type = "SESSION_INVALID" /\ auth # "refused" => i + 1 = Len(r)
  BY <1>5, <1>6
<1>8. Orderly(r, "closed", auth, n) /\ \A w : w <= n /\ NotBefore(q, w) => NotBefore(r, w)
  <2>1. Len(q) < Len(r)
    BY <1>6
  <2>2. /\ \A i \in 1 .. Len(q) : q[i].type # "close"
        /\ \A i \in 1 .. Len(q) : q[i].type = "SESSION_INVALID" => auth = "refused"
    BY <1>4
  <2> QED BY <1>2, <1>3, <1>7, <2>1, <2>2, LongerInbox, Zenon
<1> QED BY <1>1, <1>2, <1>8

-----------------------------------------------------------------------------
(* Connections *)

SockRecord ==
    [conn : {"gone", "connecting", "open", "closing", "closed"},
     auth : {"none", "sent", "done", "refused"}, acts : BOOLEAN, inbox : Seq(EventRecord)]

ConnRecord ==
    [live : BOOLEAN, ws : Sock \cup {0}, attempt : Nat, timer : BOOLEAN, stopped : BOOLEAN,
     listening : BOOLEAN,
     state : {"idle", "connecting", "reconnecting", "authenticating", "connected",
              "disconnected", "unauthorized", "failed"},
     online : BOOLEAN, event : {"none", "online", "offline"}, socks : [Sock -> SockRecord]]

\* A socket and what waits for its listeners.
InboxOk(k, n) ==
    /\ k.conn \in {"gone", "connecting"} => k.inbox = <<>> /\ k.auth = "none"
    /\ k.conn = "closed" => k.inbox # <<>> /\ k.inbox[Len(k.inbox)].type = "close"
    /\ Orderly(k.inbox, k.conn, k.auth, n)

\* What the browser says of the network.
NetOk(c) == /\ c.event = "offline" => ~c.online
            /\ c.event = "online" => c.online

\* A socket that has nothing to say any more but its close.
Final(k) == k.auth = "refused" \/ (k.conn = "closed" /\ Head(k.inbox).type = "close")

\* What the object knows of its socket, and that it has something to come.
ObjectOk(c) ==
    /\ c.ws # 0 => c.socks[c.ws].conn # "gone"
    /\ c.ws # 0 /\ c.socks[c.ws].conn = "closing" => c.stopped
    /\ c.stopped => ~c.timer /\ (c.ws # 0 => Final(c.socks[c.ws]))
    /\ c.state = "connected" => ~c.stopped /\ c.ws # 0 /\ c.socks[c.ws].auth = "done"
    /\ c.live /\ ~c.stopped =>
          c.listening /\ (c.ws # 0 \/ c.timer \/ ~c.online \/ c.event = "online")
    /\ ~c.live => c.ws = 0 /\ ~c.timer /\ ~c.stopped /\ ~c.listening /\ c.state = "idle"

Sound(c, n) ==
    /\ c \in ConnRecord /\ NetOk(c) /\ ObjectOk(c)
    /\ \A s \in Sock : InboxOk(c.socks[s], n)

\* What the page p shows of its connection.
ShownOk(p, c, n) ==
    /\ p.page # "live" => ~c.live
    /\ p.view \in Nat /\ p.view <= n
    /\ c.ws # 0 => NotBefore(c.socks[c.ws].inbox, p.view)
    /\ p.pending /\ c.state = "connected" => c.socks[c.ws].acts \/ c.socks[c.ws].inbox # <<>>

ConnInv ==
    /\ version \in Nat /\ DOMAIN rt = Tab
    /\ \A t \in Tab : Sound(rt[t], version) /\ ShownOk(tab[t], rt[t], version)

\* A socket that has nothing yet.
LEMMA GoneFacts ==
    /\ Gone \in SockRecord /\ [Gone EXCEPT !.conn = "connecting"] \in SockRecord
    /\ Gone.conn = "gone" /\ Gone.inbox = <<>> /\ Gone.auth = "none"
    /\ \A n : InboxOk(Gone, n) /\ InboxOk([Gone EXCEPT !.conn = "connecting"], n)
<1>1. <<>> \in Seq(EventRecord) /\ Len(<<>>) = 0
  OBVIOUS
<1>2. ASSUME NEW k, k = Gone \/ k = [Gone EXCEPT !.conn = "connecting"]
      PROVE  /\ k = [conn |-> k.conn, auth |-> "none", acts |-> FALSE, inbox |-> <<>>]
             /\ k.conn \in {"gone", "connecting"}
  BY <1>2 DEF Gone
<1>3. ASSUME NEW k, k.conn \in {"gone", "connecting"},
             k = [conn |-> k.conn, auth |-> "none", acts |-> FALSE, inbox |-> <<>>]
      PROVE  k \in SockRecord /\ \A n : InboxOk(k, n)
  <2>1. k.inbox = <<>> /\ k.auth = "none" /\ k.acts = FALSE
    BY <1>3
  <2>2. k \in SockRecord
    <3>1. PICK c : c = k.conn
      OBVIOUS
    <3>2. k = [conn |-> c, auth |-> "none", acts |-> FALSE, inbox |-> <<>>]
      BY <1>3, <3>1
    <3> QED BY <1>1, <1>3, <3>1, <3>2 DEF SockRecord
  <2>3. Len(k.inbox) = 0 /\ 1 .. 0 = {}
    BY <1>1, <2>1
  <2> QED BY <1>3, <2>1, <2>2, <2>3 DEF InboxOk, Orderly
<1> QED BY <1>2, <1>3 DEF Gone

\* openSocket makes a socket with nothing on it the object's.
LEMMA OpenSocketSound ==
    ASSUME NEW n, NEW c \in ConnRecord, NetOk(c), \A s \in Sock : InboxOk(c.socks[s], n),
           c.live, c.listening, ~c.stopped, Unused(c) # {}
    PROVE  LET d == OpenSocket(c)
           IN  /\ Sound(d, n) /\ d.live
               /\ d.ws \in Sock /\ d.socks[d.ws].inbox = <<>> /\ d.state # "connected"
<1> DEFINE s == CHOOSE s \in Unused(c) : TRUE
           k == [Gone EXCEPT !.conn = "connecting"]
           d == OpenSocket(c)
<1>1. s \in Sock /\ s # 0
  BY SocketAssumption DEF Unused
<1>2. k \in SockRecord /\ k.conn = "connecting" /\ k.inbox = <<>> /\ InboxOk(k, n)
  BY GoneFacts DEF Gone
<1>3. d = [c EXCEPT !.state = IF c.attempt = 0 THEN "connecting" ELSE "reconnecting",
                    !.ws = s, !.socks[s] = k]
  BY DEF OpenSocket
<1> HIDE DEF s, k, d
<1>4. /\ d \in ConnRecord /\ d.ws = s /\ d.state \in {"connecting", "reconnecting"}
      /\ d.live /\ d.listening /\ ~d.stopped /\ d.online = c.online /\ d.event = c.event
      /\ d.socks = [c.socks EXCEPT ![s] = k]
  BY <1>1, <1>2, <1>3 DEF ConnRecord
<1>5. d.socks[s] = k /\ \A x \in Sock : x # s => d.socks[x] = c.socks[x]
  BY <1>1, <1>4 DEF ConnRecord
<1>6. \A x \in Sock : InboxOk(d.socks[x], n)
  BY <1>2, <1>5
<1>7. ObjectOk(d) /\ NetOk(d)
  BY <1>1, <1>2, <1>4, <1>5 DEF ObjectOk, NetOk
<1> QED BY <1>1, <1>2, <1>4, <1>5, <1>6, <1>7 DEF Sound, d

\* Page p may go on showing what it does when socket l is the object's.
StillShown(p, c, l) ==
    /\ NotBefore(l.inbox, p.view)
    /\ p.pending /\ c.state = "connected" => l.acts \/ l.inbox # <<>>

\* One of the sockets moves on.
LEMMA OneSocket ==
    ASSUME NEW n, NEW c, Sound(c, n), NEW s \in Sock, NEW l \in SockRecord, InboxOk(l, n),
           NEW d \in ConnRecord, d.socks = [c.socks EXCEPT ![s] = l],
           d = [c EXCEPT !.socks = d.socks],
           c.ws = s => /\ l.conn # "gone" /\ (l.conn = "closing" => c.stopped)
                       /\ (c.stopped => Final(l))
                       /\ (c.state = "connected" => l.auth = "done")
    PROVE  /\ Sound(d, n)
           /\ \A p : ShownOk(p, c, n) /\ (c.ws = s => StillShown(p, c, l)) => ShownOk(p, d, n)
<1>1. c \in ConnRecord /\ NetOk(c) /\ ObjectOk(c) /\ \A x \in Sock : InboxOk(c.socks[x], n)
  BY DEF Sound
<1>2. /\ d.live = c.live /\ d.ws = c.ws /\ d.timer = c.timer /\ d.stopped = c.stopped
      /\ d.listening = c.listening /\ d.state = c.state /\ d.online = c.online /\ d.event = c.event
  BY <1>1 DEF ConnRecord
<1>3. d.socks[s] = l /\ \A x \in Sock : x # s => d.socks[x] = c.socks[x]
  BY <1>1 DEF ConnRecord
<1>4. c.ws \in Sock \cup {0} /\ s # 0
  BY <1>1, SocketAssumption DEF ConnRecord
<1>5. \A x \in Sock : InboxOk(d.socks[x], n)
  BY <1>1, <1>3
<1>6. NetOk(d)
  BY <1>1, <1>2 DEF NetOk
<1>7. ObjectOk(d)
  BY <1>1, <1>2, <1>3, <1>4 DEF ObjectOk
<1>8. ASSUME NEW p, ShownOk(p, c, n),
             c.ws = s => StillShown(p, c, l)
      PROVE  ShownOk(p, d, n)
  <2>1. c.state = "connected" => c.ws # 0
    BY <1>1 DEF ObjectOk
  <2> QED BY <1>2, <1>3, <1>4, <1>8, <2>1 DEF ShownOk, StillShown
<1> QED BY <1>5, <1>6, <1>7, <1>8 DEF Sound

\* A message is taken from a socket.
LEMMA MessageTaken ==
    ASSUME NEW n \in Nat, NEW k \in SockRecord, InboxOk(k, n), k.inbox # <<>>,
           Head(k.inbox).type # "close"
    PROVE  LET l == [k EXCEPT !.inbox = Tail(@)]
               e == Head(k.inbox)
           IN  /\ l \in SockRecord /\ InboxOk(l, n) /\ l.inbox = Tail(k.inbox)
               /\ l.conn = k.conn /\ l.auth = k.auth /\ l.acts = k.acts
               /\ k.conn \notin {"gone", "connecting"}
               /\ e \in EventRecord /\ EventOk(e, k.conn, k.auth, n)
               /\ e.type = "authenticated" => l.inbox # <<>>
               /\ e.type = "SESSION_INVALID" => Final(l)
               /\ e.type = "view" => NotBefore(l.inbox, e.v)
               /\ \A w : NotBefore(k.inbox, w) => NotBefore(l.inbox, w)
               /\ \A w : NotBefore(k.inbox, w) /\ e.type = "view" => w <= e.v
<1> DEFINE l == [k EXCEPT !.inbox = Tail(@)]
<1>1. PICK q \in Seq(EventRecord) : q = k.inbox
  BY DEF SockRecord
<1>2. /\ Orderly(q, k.conn, k.auth, n) /\ k.conn \notin {"gone", "connecting"}
      /\ k.conn = "closed" => q[Len(q)].type = "close"
  BY <1>1 DEF InboxOk
<1> DEFINE r == Tail(q)
<1>3. /\ r \in Seq(EventRecord) /\ Orderly(r, k.conn, k.auth, n)
      /\ Head(q) \in EventRecord /\ EventOk(Head(q), k.conn, k.auth, n)
      /\ Head(q).type = "authenticated" => r # <<>>
      /\ k.conn = "closed" => r # <<>> /\ r[Len(r)].type = "close"
      /\ Head(q).type = "SESSION_INVALID" /\ k.auth # "refused" =>
            k.conn = "closed" /\ Head(r).type = "close"
      /\ Head(q).type = "view" => NotBefore(r, Head(q).v)
      /\ \A w : NotBefore(q, w) => NotBefore(r, w)
      /\ \A w : NotBefore(q, w) /\ Head(q).type = "view" => w <= Head(q).v
  <2>1. q # <<>> /\ Head(q).type # "close"
    BY <1>1
  <2>2. Head(q).type = "SESSION_INVALID" /\ k.auth # "refused" => k.conn = "closed"
    BY <1>2, <2>1, ShorterInbox DEF EventOk
  <2> QED BY <1>2, <2>1, <2>2, ShorterInbox
<1>4. r = Tail(k.inbox)
  BY <1>1
<1> HIDE DEF r
<1>5. l \in SockRecord /\ l.inbox = r /\ l.conn = k.conn /\ l.auth = k.auth /\ l.acts = k.acts
  BY <1>3, <1>4 DEF SockRecord
<1> HIDE DEF l
<1>6. InboxOk(l, n)
  BY <1>2, <1>3, <1>5 DEF InboxOk
<1>7. Head(q).type = "SESSION_INVALID" => Final(l)
  BY <1>3, <1>5 DEF Final
<1> QED BY <1>1, <1>2, <1>3, <1>4, <1>5, <1>6, <1>7 DEF l

\* The object's handlers that leave its sockets alone.
LEMMA SameSockets ==
    ASSUME NEW n, NEW c, Sound(c, n), NEW d \in ConnRecord, d.socks = c.socks, NetOk(d), ObjectOk(d)
    PROVE  Sound(d, n)
BY DEF Sound

\* scheduleReconnect and the refusals, of an object that has lost its socket.
LEMMA HandleCloseSound ==
    ASSUME NEW n, NEW c \in ConnRecord, NetOk(c), \A s \in Sock : InboxOk(c.socks[s], n),
           c.ws = 0, c.live, c.stopped => ~c.timer /\ c.state # "connected",
           ~c.stopped => c.listening, NEW code
    PROVE  LET d == HandleClose(c, code)
           IN  Sound(d, n) /\ d.ws = 0 /\ d.live /\ d.state # "connected"
<1>1. ASSUME NEW d \in ConnRecord, d.socks = c.socks, NetOk(d), ObjectOk(d) PROVE Sound(d, n)
  BY <1>1 DEF Sound
<1>2. ASSUME NEW d, NEW state \in {"disconnected", "unauthorized", "failed"}, d = Stop(c, state)
      PROVE  Sound(d, n) /\ d.ws = 0 /\ d.live /\ d.state # "connected"
  <2>1. /\ d \in ConnRecord /\ d.ws = 0 /\ d.live /\ d.stopped /\ ~d.timer /\ d.state = state
        /\ d.socks = c.socks /\ d.online = c.online /\ d.event = c.event
    BY <1>2 DEF Stop, ConnRecord
  <2>2. NetOk(d) /\ ObjectOk(d)
    BY <2>1 DEF NetOk, ObjectOk
  <2> QED BY <2>1, <2>2, <1>1
<1>3. ASSUME NEW d, d = ScheduleReconnect(c)
      PROVE  Sound(d, n) /\ d.ws = 0 /\ d.live /\ d.state # "connected"
  <2>1. CASE c.stopped
    <3>1. d = c
      BY <1>3, <2>1 DEF ScheduleReconnect
    <3>2. ObjectOk(c)
      BY <2>1 DEF ObjectOk
    <3> QED BY <1>1, <2>1, <3>1, <3>2
  <2>2. CASE ~c.stopped /\ ~c.online
    <3>1. d = [c EXCEPT !.timer = FALSE, !.state = "disconnected"]
      BY <1>3, <2>2 DEF ScheduleReconnect
    <3>2. /\ d \in ConnRecord /\ d.ws = 0 /\ d.live /\ ~d.stopped /\ ~d.timer /\ d.state = "disconnected"
          /\ d.socks = c.socks /\ d.online = c.online /\ d.event = c.event /\ d.listening = c.listening
      BY <2>2, <3>1 DEF ConnRecord
    <3>3. NetOk(d) /\ ObjectOk(d)
      BY <2>2, <3>2 DEF NetOk, ObjectOk
    <3> QED BY <3>2, <3>3, <1>1
  <2>3. CASE ~c.stopped /\ c.online /\ c.attempt >= MaxConsecutiveFailures
    <3>1. d = Stop(c, "failed")
      BY <1>3, <2>3 DEF ScheduleReconnect
    <3> QED BY <1>2, <3>1
  <2>4. CASE ~c.stopped /\ c.online /\ ~(c.attempt >= MaxConsecutiveFailures)
    <3>1. d = [c EXCEPT !.state = "reconnecting", !.attempt = @ + 1, !.timer = TRUE]
      BY <1>3, <2>4 DEF ScheduleReconnect
    <3>2. /\ d \in ConnRecord /\ d.ws = 0 /\ d.live /\ ~d.stopped /\ d.timer /\ d.state = "reconnecting"
          /\ d.socks = c.socks /\ d.online = c.online /\ d.event = c.event /\ d.listening = c.listening
      <4>1. PICK m \in Nat : m = c.attempt + 1
        BY DEF ConnRecord
      <4>2. d = [c EXCEPT !.state = "reconnecting", !.attempt = m, !.timer = TRUE]
        BY <3>1, <4>1
      <4> QED BY <2>4, <4>2 DEF ConnRecord
    <3>3. NetOk(d) /\ ObjectOk(d)
      BY <2>4, <3>2 DEF NetOk, ObjectOk
    <3> QED BY <3>2, <3>3, <1>1
  <2>5. c.stopped \in BOOLEAN /\ c.online \in BOOLEAN
    BY DEF ConnRecord
  <2> QED BY <2>1, <2>2, <2>3, <2>4, <2>5
<1> QED BY <1>2, <1>3 DEF HandleClose

\* An object with other sockets.
LEMMA WithSockets ==
    ASSUME NEW c \in ConnRecord, NEW f \in [Sock -> SockRecord], NEW d, d = [c EXCEPT !.socks = f]
    PROVE  /\ d \in ConnRecord /\ d.socks = f /\ d = [c EXCEPT !.socks = d.socks]
           /\ d.live = c.live /\ d.ws = c.ws /\ d.timer = c.timer /\ d.stopped = c.stopped
           /\ d.listening = c.listening /\ d.state = c.state /\ d.online = c.online
           /\ d.event = c.event
BY DEF ConnRecord

\* An event of a socket that is not the object's any more.
LEMMA StaleDelivered ==
    ASSUME NEW n \in Nat, NEW c, Sound(c, n), NEW s \in Sock, c.socks[s].inbox # <<>>, c.ws # s
    PROVE  LET d == Delivered(c, s)
           IN  Sound(d, n) /\ d.state = c.state /\ \A p : ShownOk(p, c, n) => ShownOk(p, d, n)
<1> DEFINE k == c.socks[s]
           d == Delivered(c, s)
<1>1. c \in ConnRecord /\ k \in SockRecord /\ InboxOk(k, n)
  BY DEF Sound, ConnRecord
<1>2. d = Taken(c, s)
  BY DEF Delivered, Listens
<1>3. PICK l \in SockRecord : InboxOk(l, n) /\ d = [c EXCEPT !.socks = [c.socks EXCEPT ![s] = l]]
  <2>1. CASE Head(k.inbox).type = "close"
    <3>1. d = [c EXCEPT !.socks[s] = Gone]
      BY <1>2, <2>1 DEF Taken, Head1
    <3>2. [c EXCEPT !.socks[s] = Gone] = [c EXCEPT !.socks = [c.socks EXCEPT ![s] = Gone]]
      OBVIOUS
    <3>3. Gone \in SockRecord /\ InboxOk(Gone, n)
      BY GoneFacts
    <3> QED BY <3>1, <3>2, <3>3
  <2>2. CASE Head(k.inbox).type # "close"
    <3> DEFINE l == [k EXCEPT !.inbox = Tail(@)]
    <3>1. d = [c EXCEPT !.socks[s].inbox = Tail(@)]
      BY <1>2, <2>2 DEF Taken, Head1
    <3>2. d = [c EXCEPT !.socks = [c.socks EXCEPT ![s] = l]]
      BY <1>1, <3>1 DEF ConnRecord, SockRecord
    <3>3. l \in SockRecord /\ InboxOk(l, n)
      BY <1>1, <2>2, MessageTaken
    <3> QED BY <3>2, <3>3
  <2> QED BY <2>1, <2>2
<1> HIDE DEF k, d
<1>4. /\ d \in ConnRecord /\ d.socks = [c.socks EXCEPT ![s] = l]
      /\ d = [c EXCEPT !.socks = d.socks] /\ d.state = c.state
  <2>1. PICK f \in [Sock -> SockRecord] : f = [c.socks EXCEPT ![s] = l]
    BY <1>1 DEF ConnRecord
  <2>2. d = [c EXCEPT !.socks = f]
    BY <1>3, <2>1
  <2>3. d \in ConnRecord /\ d.socks = f /\ d = [c EXCEPT !.socks = d.socks] /\ d.state = c.state
    BY <1>1, <2>2, WithSockets
  <2> QED BY <2>1, <2>3
<1>5. Sound(d, n) /\ \A p : ShownOk(p, c, n) => ShownOk(p, d, n)
  <2>1. /\ Sound(d, n)
        /\ \A p : ShownOk(p, c, n) /\ (c.ws = s => StillShown(p, c, l)) => ShownOk(p, d, n)
    <3>1. /\ d \in ConnRecord /\ d.socks = [c.socks EXCEPT ![s] = l]
          /\ d = [c EXCEPT !.socks = d.socks] /\ l \in SockRecord /\ InboxOk(l, n)
      BY <1>3, <1>4
    <3> QED BY <3>1, OneSocket
  <2> QED BY <2>1
<1> QED BY <1>4, <1>5 DEF d

\* The close of the object's socket.
LEMMA CloseDelivered ==
    ASSUME NEW n \in Nat, NEW c, Sound(c, n), NEW s \in Sock, c.socks[s].inbox # <<>>, c.ws = s,
           Head(c.socks[s].inbox).type = "close"
    PROVE  LET d == Delivered(c, s)
           IN  Sound(d, n) /\ \A p : ShownOk(p, c, n) => ShownOk(p, d, n)
<1> DEFINE d == Delivered(c, s)
           b == [[c EXCEPT !.socks[s] = Gone] EXCEPT !.ws = 0]
           e == Head(c.socks[s].inbox)
<1>1. c \in ConnRecord /\ NetOk(c) /\ ObjectOk(c) /\ \A x \in Sock : InboxOk(c.socks[x], n)
  BY DEF Sound
<1>2. d = HandleClose(b, e.code)
  BY DEF Delivered, Listens, Taken, Head1
<1>3. Gone \in SockRecord /\ InboxOk(Gone, n)
  BY GoneFacts
<1>4. s # 0 /\ c.live
  BY <1>1, SocketAssumption DEF ObjectOk
<1>5. /\ b \in ConnRecord /\ b.ws = 0 /\ b.live = c.live /\ b.timer = c.timer /\ b.stopped = c.stopped
      /\ b.listening = c.listening /\ b.state = c.state /\ b.online = c.online /\ b.event = c.event
      /\ b.socks = [c.socks EXCEPT ![s] = Gone]
  BY <1>1, <1>3 DEF ConnRecord
<1> HIDE DEF b
<1>6. NetOk(b) /\ \A x \in Sock : InboxOk(b.socks[x], n)
  BY <1>1, <1>3, <1>5 DEF NetOk, ConnRecord
<1>7. (b.stopped => ~b.timer /\ b.state # "connected") /\ (~b.stopped => b.listening)
  BY <1>1, <1>4, <1>5 DEF ObjectOk
<1>8. PICK code : code = e.code
  OBVIOUS
<1>9. d = HandleClose(b, code)
  BY <1>2, <1>8
<1> HIDE DEF d
<1>10. Sound(d, n) /\ d.ws = 0 /\ d.live /\ d.state # "connected"
  <2>1. /\ b \in ConnRecord /\ NetOk(b) /\ \A x \in Sock : InboxOk(b.socks[x], n)
        /\ b.ws = 0 /\ b.live /\ (b.stopped => ~b.timer /\ b.state # "connected")
        /\ (~b.stopped => b.listening)
    BY <1>4, <1>5, <1>6, <1>7
  <2>2. LET a == HandleClose(b, code)
        IN  Sound(a, n) /\ a.ws = 0 /\ a.live /\ a.state # "connected"
    BY <2>1, HandleCloseSound
  <2> QED BY <1>9, <2>2
<1>11. \A p : ShownOk(p, c, n) => ShownOk(p, d, n)
  BY <1>4, <1>10 DEF ShownOk
<1> QED BY <1>10, <1>11 DEF d

\* A message on the object's socket; p is what the page shows once it has it.
LEMMA MessageDelivered ==
    ASSUME NEW n \in Nat, NEW c, Sound(c, n), NEW s \in Sock, c.socks[s].inbox # <<>>, c.ws = s,
           Head(c.socks[s].inbox).type # "close"
    PROVE  LET d == Delivered(c, s)
               e == Head(c.socks[s].inbox)
           IN  /\ Sound(d, n)
               /\ e.type = "view" => e.v \in Nat
               /\ \A o, p : /\ ShownOk(o, c, n) /\ p.page = o.page
                            /\ IF e.type = "view" THEN p.view = e.v /\ p.pending = FALSE
                               ELSE p.view = o.view
                            /\ e.type = "error" => p.pending = FALSE
                            => ShownOk(p, d, n) /\ o.view <= p.view
<1> DEFINE d == Delivered(c, s)
           k == c.socks[s]
           e == Head(k.inbox)
           l == [k EXCEPT !.inbox = Tail(@)]
           b == [c EXCEPT !.socks = [c.socks EXCEPT ![s] = l]]
<1>1. /\ c \in ConnRecord /\ NetOk(c) /\ ObjectOk(c) /\ \A x \in Sock : InboxOk(c.socks[x], n)
      /\ k \in SockRecord /\ InboxOk(k, n) /\ s # 0
  BY SocketAssumption DEF Sound, ConnRecord
<1>2. b = Taken(c, s)
  BY <1>1 DEF Taken, Head1, ConnRecord, SockRecord
<1>3. d = HandleMessage(b, e.type)
  BY <1>2 DEF Delivered, Listens, Head1
<1>4. /\ l \in SockRecord /\ InboxOk(l, n) /\ l.conn = k.conn /\ l.auth = k.auth /\ l.acts = k.acts
      /\ k.conn \notin {"gone", "connecting"}
      /\ e \in EventRecord /\ EventOk(e, k.conn, k.auth, n)
      /\ e.type = "authenticated" => l.inbox # <<>>
      /\ e.type = "SESSION_INVALID" => Final(l)
      /\ e.type = "view" => NotBefore(l.inbox, e.v)
      /\ \A w : NotBefore(k.inbox, w) => NotBefore(l.inbox, w)
      /\ \A w : NotBefore(k.inbox, w) /\ e.type = "view" => w <= e.v
  BY <1>1, MessageTaken
<1> HIDE DEF l
<1>5. /\ b \in ConnRecord /\ b.ws = s /\ b.live = c.live /\ b.timer = c.timer /\ b.stopped = c.stopped
      /\ b.listening = c.listening /\ b.state = c.state /\ b.online = c.online /\ b.event = c.event
      /\ b.socks = [c.socks EXCEPT ![s] = l] /\ b.socks[s] = l
      /\ b = [c EXCEPT !.socks = b.socks]
  BY <1>1, <1>4 DEF ConnRecord
<1>6. c.live
  BY <1>1 DEF ObjectOk
<1> HIDE DEF b
<1>7. Sound(b, n)
  <2>1. /\ l.conn # "gone" /\ (l.conn = "closing" => c.stopped)
        /\ (c.stopped => Final(l)) /\ (c.state = "connected" => l.auth = "done")
    BY <1>1, <1>4 DEF ObjectOk, Final
  <2>2. c.ws = s => /\ l.conn # "gone" /\ (l.conn = "closing" => c.stopped)
                    /\ (c.stopped => Final(l))
                    /\ (c.state = "connected" => l.auth = "done")
    BY <2>1
  <2>3. l \in SockRecord /\ InboxOk(l, n)
    BY <1>4
  <2>4. b \in ConnRecord /\ b.socks = [c.socks EXCEPT ![s] = l] /\ b = [c EXCEPT !.socks = b.socks]
    BY <1>5
  <2> HIDE DEF k, e, d
  <2> QED BY <2>2, <2>3, <2>4, OneSocket
<1> HIDE DEF k, e, d
<1>8. e.type \in {"authenticated", "view", "error", "SESSION_INVALID"} /\ e.v \in Nat
  <2>1. e.type # "close"
    BY DEF e, k
  <2> QED BY <1>4, <2>1 DEF EventRecord
<1>9. /\ Sound(d, n) /\ d.live /\ d.ws = s /\ d.socks[s].inbox = l.inbox /\ d.socks[s].acts = l.acts
      /\ d.state = CASE e.type = "authenticated" -> "connected"
                     [] e.type = "SESSION_INVALID" -> "unauthorized"
                     [] OTHER -> c.state
  <2>1. CASE e.type = "authenticated"
    <3>1. d = [b EXCEPT !.attempt = 0, !.state = "connected"]
      BY <1>3, <2>1 DEF HandleMessage
    <3>2. /\ d \in ConnRecord /\ d.ws = s /\ d.live = c.live /\ d.timer = c.timer /\ d.stopped = c.stopped
          /\ d.listening = c.listening /\ d.state = "connected" /\ d.online = c.online
          /\ d.event = c.event /\ d.socks = b.socks
      BY <1>5, <3>1 DEF ConnRecord
    <3>3. k.auth = "done"
      BY <1>4, <2>1 DEF EventOk
    <3>4. ~c.stopped
      <4>1. e.type # "close" /\ c.socks[c.ws] = k
        BY DEF e, k
      <4> QED BY <1>1, <3>3, <4>1 DEF ObjectOk, Final, e
    <3>5. NetOk(d)
      BY <1>1, <3>2 DEF NetOk
    <3>6. ObjectOk(b)
      BY <1>7 DEF Sound
    <3>7. ObjectOk(d)
      <4>1. /\ d.ws = b.ws /\ d.live = b.live /\ d.timer = b.timer /\ d.stopped = b.stopped
            /\ d.listening = b.listening /\ d.online = b.online /\ d.event = b.event
            /\ d.socks = b.socks /\ d.state = "connected"
        BY <1>5, <3>2
      <4>2. /\ ~b.stopped /\ b.ws # 0 /\ b.live
            /\ b.socks[b.ws].auth = "done"
        BY <1>1, <1>4, <1>5, <1>6, <3>3, <3>4
      <4> QED BY <3>6, <4>1, <4>2 DEF ObjectOk
    <3>8. Sound(d, n)
      BY <1>7, <3>2, <3>5, <3>7, SameSockets
    <3> QED BY <1>5, <1>6, <2>1, <3>2, <3>8
  <2>2. CASE e.type = "SESSION_INVALID"
    <3> DEFINE m == IF l.conn \in {"connecting", "open"} THEN [l EXCEPT !.conn = "closing"] ELSE l
    <3>1. d = [Stop(b, "unauthorized") EXCEPT !.listening = FALSE, !.socks = CloseSocket(@, b.ws)]
      BY <1>3, <2>2 DEF HandleMessage
    <3>2. /\ m \in SockRecord /\ m.inbox = l.inbox /\ m.acts = l.acts /\ m.auth = l.auth
          /\ m.conn = IF l.conn \in {"connecting", "open"} THEN "closing" ELSE l.conn
      BY <1>4 DEF SockRecord
    <3>3. CloseSocket(b.socks, s) = [b.socks EXCEPT ![s] = m]
      BY <1>4, <1>5 DEF CloseSocket, ConnRecord, SockRecord
    <3> HIDE DEF m
    <3>4. /\ d \in ConnRecord /\ d.ws = s /\ d.live = c.live /\ ~d.timer /\ d.stopped
          /\ d.state = "unauthorized" /\ d.online = c.online
          /\ d.event = c.event /\ d.socks = [b.socks EXCEPT ![s] = m]
      <4>1. PICK f \in [Sock -> SockRecord] : f = [b.socks EXCEPT ![s] = m]
        BY <1>5, <3>2 DEF ConnRecord
      <4>2. d = [Stop(b, "unauthorized") EXCEPT !.listening = FALSE, !.socks = f]
        <5>1. Stop(b, "unauthorized").socks = b.socks
          BY <1>5 DEF Stop, ConnRecord
        <5> QED BY <1>5, <3>1, <3>3, <4>1, <5>1
      <4>3. d = [b EXCEPT !.stopped = TRUE, !.timer = FALSE, !.state = "unauthorized",
                          !.listening = FALSE, !.socks = f]
        BY <4>2 DEF Stop
      <4> QED BY <1>5, <4>1, <4>3 DEF ConnRecord
    <3>5. d.socks[s] = m /\ \A x \in Sock : x # s => d.socks[x] = b.socks[x]
      BY <1>5, <3>4 DEF ConnRecord
    <3>6. InboxOk(m, n)
      <4>1. PICK q \in Seq(EventRecord) : q = l.inbox
        BY <1>4 DEF SockRecord
      <4>2. Orderly(q, l.conn, l.auth, n)
        BY <1>4, <4>1 DEF InboxOk
      <4>3. m.conn = l.conn \/ l.conn # "closed"
        BY <3>2
      <4>4. Orderly(q, m.conn, l.auth, n)
        BY <4>2, <4>3, SameInbox
      <4> QED BY <1>4, <3>2, <4>1, <4>4 DEF InboxOk
    <3>7. Final(m) /\ m.conn # "gone"
      BY <1>4, <2>2, <3>2 DEF Final
    <3>8. NetOk(d) /\ ObjectOk(d)
      BY <1>1, <1>6, <3>4, <3>5, <3>7 DEF NetOk, ObjectOk
    <3>9. Sound(d, n)
      BY <1>7, <3>4, <3>5, <3>6, <3>8 DEF Sound
    <3> QED BY <1>6, <2>2, <3>2, <3>4, <3>5, <3>9
  <2>3. CASE e.type \in {"view", "error"}
    <3>1. d = b
      BY <1>3, <2>3 DEF HandleMessage
    <3> QED BY <1>5, <1>6, <1>7, <2>3, <3>1
  <2> QED BY <1>8, <2>1, <2>2, <2>3
<1>10. ASSUME NEW o, NEW p, ShownOk(o, c, n), p.page = o.page,
              IF e.type = "view" THEN p.view = e.v /\ p.pending = FALSE ELSE p.view = o.view,
              e.type = "error" => p.pending = FALSE
       PROVE  ShownOk(p, d, n) /\ o.view <= p.view
  <2>1. NotBefore(k.inbox, o.view) /\ o.view \in Nat /\ o.view <= n
    BY <1>1, <1>10 DEF ShownOk, k
  <2>2. p.view \in Nat /\ p.view <= n /\ o.view <= p.view
    <3>1. CASE e.type = "view"
      <4>1. o.view <= e.v /\ e.v <= n
        BY <1>4, <2>1, <3>1 DEF EventOk
      <4> QED BY <1>8, <1>10, <3>1, <4>1
    <3>2. CASE e.type # "view"
      BY <1>10, <2>1, <3>2
    <3> QED BY <3>1, <3>2
  <2>3. NotBefore(l.inbox, p.view)
    BY <1>4, <1>10, <2>1
  <2>4. p.pending /\ d.state = "connected" => l.acts \/ l.inbox # <<>>
    BY <1>4, <1>8, <1>9, <1>10
  <2>5. p.page = "live"
    BY <1>6, <1>10 DEF ShownOk
  <2> QED BY <1>9, <2>2, <2>3, <2>4, <2>5 DEF ShownOk
<1> QED BY <1>8, <1>9, <1>10 DEF d, e, k

-----------------------------------------------------------------------------
(* The object's methods *)

\* What a page may show of an object with a new socket.
LEMMA NewSocketShown ==
    ASSUME NEW n, NEW d, d.live, d.socks[d.ws].inbox = <<>>, d.state # "connected",
           NEW p, p.page = "live", p.view \in Nat, p.view <= n
    PROVE  ShownOk(p, d, n)
<1>1. PICK q : q = d.socks[d.ws].inbox
  OBVIOUS
<1>2. q = <<>> /\ Len(<<>>) = 0 /\ 1 .. 0 = {}
  BY <1>1
<1>3. NotBefore(q, p.view)
  BY <1>2 DEF NotBefore
<1>4. d.ws # 0 => NotBefore(d.socks[d.ws].inbox, p.view)
  BY <1>1, <1>3
<1>5. p.page # "live" => ~d.live
  OBVIOUS
<1> QED BY <1>4, <1>5 DEF ShownOk

\* An object opens a socket: it has not stopped, and listens for the network.
LEMMA OpensSocket ==
    ASSUME NEW n, NEW c, Sound(c, n), NEW b \in ConnRecord, b.socks = c.socks, b.online = c.online,
           b.event \in {c.event, "none"}, b.live, b.listening, ~b.stopped, Unused(c) # {}
    PROVE  /\ Sound(OpenSocket(b), n)
           /\ \A p : p.page = "live" /\ p.view \in Nat /\ p.view <= n => ShownOk(p, OpenSocket(b), n)
<1>1. NetOk(b) /\ \A s \in Sock : InboxOk(b.socks[s], n)
  BY DEF Sound, NetOk
<1>2. Unused(b) # {}
  BY DEF Unused
<1>3. PICK d : d = OpenSocket(b)
  OBVIOUS
<1>4. Sound(d, n) /\ d.live /\ d.ws \in Sock /\ d.socks[d.ws].inbox = <<>> /\ d.state # "connected"
  BY <1>1, <1>2, <1>3, OpenSocketSound
<1>5. \A p : p.page = "live" /\ p.view \in Nat /\ p.view <= n => ShownOk(p, d, n)
  BY <1>4, NewSocketShown
<1> QED BY <1>3, <1>4, <1>5

\* connect(), of an object that was none.
LEMMA ConnectSound ==
    ASSUME NEW n, NEW c, Sound(c, n), ~c.live, Unused(c) # {}
    PROVE  /\ Sound(Connect(c), n)
           /\ \A p : p.page = "live" /\ p.view \in Nat /\ p.view <= n => ShownOk(p, Connect(c), n)
<1>1. PICK b : b = [c EXCEPT !.live = TRUE, !.listening = TRUE]
  OBVIOUS
<1>2. c \in ConnRecord /\ ~c.stopped
  BY DEF Sound, ObjectOk
<1>3. /\ b \in ConnRecord /\ b.socks = c.socks /\ b.online = c.online /\ b.event = c.event
      /\ b.live /\ b.listening /\ ~b.stopped
  BY <1>1, <1>2 DEF ConnRecord
<1>4. Connect(c) = OpenSocket(b)
  BY <1>1 DEF Connect
<1> QED BY <1>3, <1>4, OpensSocket

\* retry().
LEMMA RetrySound ==
    ASSUME NEW n, NEW c, Sound(c, n), c.live, Unused(c) # {}
    PROVE  /\ Sound(Retry(c), n)
           /\ \A p : p.page = "live" /\ p.view \in Nat /\ p.view <= n => ShownOk(p, Retry(c), n)
<1>1. PICK b : b = [c EXCEPT !.stopped = FALSE, !.attempt = 0, !.timer = FALSE, !.listening = TRUE]
  OBVIOUS
<1>2. c \in ConnRecord
  BY DEF Sound
<1>3. /\ b \in ConnRecord /\ b.socks = c.socks /\ b.online = c.online /\ b.event = c.event
      /\ b.live /\ b.listening /\ ~b.stopped
  BY <1>1, <1>2 DEF ConnRecord
<1>4. Retry(c) = OpenSocket(b)
  BY <1>1 DEF Retry
<1> QED BY <1>3, <1>4, OpensSocket

\* The reconnect timer fires.
LEMMA TimerFiredSound ==
    ASSUME NEW n, NEW c, Sound(c, n), c.timer, Unused(c) # {}
    PROVE  /\ Sound(TimerFired(c), n)
           /\ \A p : p.page = "live" /\ p.view \in Nat /\ p.view <= n => ShownOk(p, TimerFired(c), n)
<1>1. PICK b : b = [c EXCEPT !.timer = FALSE]
  OBVIOUS
<1>2. c \in ConnRecord /\ c.live /\ c.listening /\ ~c.stopped
  BY DEF Sound, ObjectOk
<1>3. /\ b \in ConnRecord /\ b.socks = c.socks /\ b.online = c.online /\ b.event = c.event
      /\ b.live /\ b.listening /\ ~b.stopped
  BY <1>1, <1>2 DEF ConnRecord
<1>4. TimerFired(c) = OpenSocket(b)
  BY <1>1 DEF TimerFired
<1> QED BY <1>3, <1>4, OpensSocket

\* A page shows what it did when only the connection's state has changed.
LEMMA SameShown ==
    ASSUME NEW n, NEW c, NEW d, d.live = c.live, d.ws = c.ws, d.socks = c.socks,
           d.state = c.state \/ d.state # "connected"
    PROVE  \A p : ShownOk(p, c, n) => ShownOk(p, d, n)
BY DEF ShownOk

\* The 'online' or the 'offline' event arrives.
LEMMA NetEventSound ==
    ASSUME NEW n, NEW c, Sound(c, n), c.event # "none", c.event = "online" => Unused(c) # {}
    PROVE  /\ Sound(NetEventHandled(c), n)
           /\ \A p : ShownOk(p, c, n) => ShownOk(p, NetEventHandled(c), n)
<1>1. PICK b : b = [c EXCEPT !.event = "none"]
  OBVIOUS
<1>2. c \in ConnRecord /\ NetOk(c) /\ ObjectOk(c)
  BY DEF Sound
<1>3. /\ b \in ConnRecord /\ b.socks = c.socks /\ b.online = c.online /\ b.event = "none"
      /\ b.live = c.live /\ b.listening = c.listening /\ b.stopped = c.stopped /\ b.ws = c.ws
      /\ b.timer = c.timer /\ b.state = c.state
  BY <1>1, <1>2 DEF ConnRecord
<1>4. NetOk(b)
  BY <1>3 DEF NetOk
<1>5. ASSUME ObjectOk(b), NetEventHandled(c) = b
      PROVE  Sound(NetEventHandled(c), n) /\ \A p : ShownOk(p, c, n) => ShownOk(p, NetEventHandled(c), n)
  <2>1. Sound(b, n)
    BY <1>3, <1>4, <1>5, SameSockets
  <2>2. \A p : ShownOk(p, c, n) => ShownOk(p, b, n)
    BY <1>3, SameShown
  <2> QED BY <1>5, <2>1, <2>2
<1>6. CASE ~c.listening
  <2>1. NetEventHandled(c) = b
    BY <1>1, <1>6 DEF NetEventHandled
  <2>2. ObjectOk(b)
    BY <1>2, <1>3, <1>6 DEF ObjectOk
  <2> QED BY <1>5, <2>1, <2>2
<1>7. CASE c.listening /\ c.event = "online"
  <2>1. NetEventHandled(c) = HandleOnline(b)
    BY <1>1, <1>7 DEF NetEventHandled
  <2>2. CASE c.stopped \/ c.ws # 0
    <3>1. NetEventHandled(c) = b
      BY <1>3, <2>1, <2>2 DEF HandleOnline
    <3>2. ObjectOk(b)
      BY <1>2, <1>3, <1>7, <2>2 DEF ObjectOk
    <3> QED BY <1>5, <3>1, <3>2
  <2>3. CASE ~(c.stopped \/ c.ws # 0)
    <3>1. PICK a : a = [b EXCEPT !.attempt = 0, !.timer = FALSE]
      OBVIOUS
    <3>2. NetEventHandled(c) = OpenSocket(a)
      BY <1>3, <2>1, <2>3, <3>1 DEF HandleOnline
    <3>3. c.live
      BY <1>2, <1>7 DEF ObjectOk
    <3>4. /\ a \in ConnRecord /\ a.socks = c.socks /\ a.online = c.online /\ a.event = "none"
          /\ a.live /\ a.listening /\ ~a.stopped
      BY <1>3, <1>7, <2>3, <3>1, <3>3 DEF ConnRecord
    <3>5. /\ Sound(OpenSocket(a), n)
          /\ \A p : p.page = "live" /\ p.view \in Nat /\ p.view <= n => ShownOk(p, OpenSocket(a), n)
      BY <1>7, <3>4, OpensSocket
    <3>6. \A p : ShownOk(p, c, n) => p.page = "live" /\ p.view \in Nat /\ p.view <= n
      BY <3>3 DEF ShownOk
    <3> QED BY <3>2, <3>5, <3>6
  <2> QED BY <2>2, <2>3
<1>8. CASE c.listening /\ c.event # "online"
  <2>1. NetEventHandled(c) = HandleOffline(b)
    BY <1>1, <1>8 DEF NetEventHandled
  <2>2. PICK d : d = [b EXCEPT !.timer = FALSE, !.state = "disconnected"]
    OBVIOUS
  <2>3. NetEventHandled(c) = d
    BY <2>1, <2>2 DEF HandleOffline
  <2>4. /\ d \in ConnRecord /\ d.socks = c.socks /\ d.online = c.online /\ d.event = "none"
        /\ d.live = c.live /\ d.listening = c.listening /\ d.stopped = c.stopped /\ d.ws = c.ws
        /\ ~d.timer /\ d.state = "disconnected"
    BY <1>3, <2>2 DEF ConnRecord
  <2>5. ~c.online
    BY <1>2, <1>8 DEF NetOk, ConnRecord
  <2>6. c.live
    BY <1>2, <1>8 DEF ObjectOk
  <2>7. NetOk(d) /\ ObjectOk(d)
    BY <1>2, <1>8, <2>4, <2>5, <2>6 DEF NetOk, ObjectOk
  <2>8. Sound(d, n)
    BY <2>4, <2>7, SameSockets
  <2>9. \A p : ShownOk(p, c, n) => ShownOk(p, d, n)
    BY <2>4, SameShown
  <2> QED BY <2>3, <2>8, <2>9
<1>9. c.listening \in BOOLEAN
  BY <1>2 DEF ConnRecord
<1> QED BY <1>6, <1>7, <1>8, <1>9

\* The network comes or goes, and its event is on the way.
LEMMA NetworkChangeSound ==
    ASSUME NEW n, NEW c, Sound(c, n), c.event = "none", NEW d,
           d = [c EXCEPT !.online = ~@, !.event = IF c.online THEN "offline" ELSE "online"]
    PROVE  Sound(d, n) /\ \A p : ShownOk(p, c, n) => ShownOk(p, d, n)
<1>1. c \in ConnRecord /\ NetOk(c) /\ ObjectOk(c)
  BY DEF Sound
<1>2. /\ d \in ConnRecord /\ d.socks = c.socks /\ (d.online <=> ~c.online)
      /\ d.event \in {"online", "offline"} /\ (d.event = "offline" <=> c.online)
      /\ d.live = c.live /\ d.listening = c.listening /\ d.stopped = c.stopped /\ d.ws = c.ws
      /\ d.timer = c.timer /\ d.state = c.state
  BY <1>1 DEF ConnRecord
<1>3. NetOk(d)
  BY <1>2 DEF NetOk
<1>6. d.online => d.event = "online"
  BY <1>2
<1>7. ObjectOk(d)
  BY <1>1, <1>2, <1>6 DEF ObjectOk
<1>4. Sound(d, n)
  BY <1>2, <1>3, <1>7, SameSockets
<1>5. \A p : ShownOk(p, c, n) => ShownOk(p, d, n)
  BY <1>2, SameShown
<1> QED BY <1>4, <1>5

-----------------------------------------------------------------------------
(* What happens on a socket *)

\* One of the sockets moves on, and the object with it.
LEMMA SocketMoves ==
    ASSUME NEW n, NEW c, Sound(c, n), NEW s \in Sock, NEW l \in SockRecord, InboxOk(l, n),
           c.ws = s => /\ l.conn # "gone" /\ (l.conn = "closing" => c.stopped)
                       /\ (c.stopped => Final(l))
                       /\ (c.state = "connected" => l.auth = "done")
    PROVE  LET d == [c EXCEPT !.socks[s] = l]
           IN  /\ Sound(d, n)
               /\ \A p : ShownOk(p, c, n) /\ (c.ws = s => StillShown(p, c, l)) => ShownOk(p, d, n)
<1> DEFINE d == [c EXCEPT !.socks[s] = l]
<1>1. c \in ConnRecord
  BY DEF Sound
<1>2. PICK f \in [Sock -> SockRecord] : f = [c.socks EXCEPT ![s] = l]
  BY <1>1 DEF ConnRecord
<1>3. d = [c EXCEPT !.socks = f]
  BY <1>2
<1> HIDE DEF d
<1>4. d \in ConnRecord /\ d.socks = f
  BY <1>1, <1>3, WithSockets
<1>5. d.socks = [c.socks EXCEPT ![s] = l] /\ d = [c EXCEPT !.socks = d.socks]
  BY <1>2, <1>3, <1>4
<1>6. /\ Sound(d, n)
      /\ \A p : ShownOk(p, c, n) /\ (c.ws = s => StillShown(p, c, l)) => ShownOk(p, d, n)
  BY <1>4, <1>5, OneSocket
<1> QED BY <1>6 DEF d

\* The parts of a sound object.
LEMMA SocketFacts ==
    ASSUME NEW n, NEW c, Sound(c, n), NEW s \in Sock
    PROVE  /\ c.socks[s] \in SockRecord /\ InboxOk(c.socks[s], n) /\ s # 0
           /\ c.ws = s => /\ c.socks[s].conn # "gone" /\ c.live
                          /\ c.socks[s].conn = "closing" => c.stopped
                          /\ c.stopped => Final(c.socks[s])
                          /\ c.state = "connected" => c.socks[s].auth = "done"
           /\ \A p : ShownOk(p, c, n) => /\ p.view \in Nat /\ p.view <= n
                                         /\ c.ws = s => StillShown(p, c, c.socks[s])
<1>1. c \in ConnRecord /\ ObjectOk(c) /\ InboxOk(c.socks[s], n) /\ s # 0
  BY SocketAssumption DEF Sound
<1> QED BY <1>1 DEF ConnRecord, ObjectOk, ShownOk, StillShown

\* close(): the object is dropped with its socket, and with what the page showed.
LEMMA CloseSound ==
    ASSUME NEW n \in Nat, NEW c, Sound(c, n)
    PROVE  Sound(Close(c), n) /\ \A p : p.view = 0 => ShownOk(p, Close(c), n)
<1>1. /\ c \in ConnRecord /\ NetOk(c) /\ \A x \in Sock : InboxOk(c.socks[x], n)
      /\ c.socks \in [Sock -> SockRecord]
  BY DEF Sound, ConnRecord
<1>2. PICK f \in [Sock -> SockRecord] :
          /\ f = (IF c.ws = 0 THEN c.socks ELSE CloseSocket(c.socks, c.ws))
          /\ \A x \in Sock : InboxOk(f[x], n)
  <2>1. CASE c.ws = 0
    BY <1>1, <2>1
  <2>2. CASE c.ws # 0
    <3>1. PICK s \in Sock : s = c.ws
      BY <1>1, <2>2 DEF ConnRecord
    <3>2. PICK k \in SockRecord : k = c.socks[s]
      BY <1>1
    <3>3. PICK conn : conn = IF k.conn \in {"connecting", "open"} THEN "closing" ELSE k.conn
      OBVIOUS
    <3>4. PICK l : l = [k EXCEPT !.conn = conn]
      OBVIOUS
    <3>5. l \in SockRecord /\ l.conn = conn /\ l.auth = k.auth /\ l.inbox = k.inbox
      BY <3>3, <3>4 DEF SockRecord
    <3>6. InboxOk(l, n)
      <4>1. PICK q \in Seq(EventRecord) : q = k.inbox
        BY DEF SockRecord
      <4>2. InboxOk(k, n)
        BY <1>1, <3>2
      <4>3. Orderly(q, k.conn, k.auth, n) /\ (conn = k.conn \/ k.conn # "closed")
        BY <3>3, <4>1, <4>2 DEF InboxOk
      <4>4. Orderly(q, conn, k.auth, n)
        BY <4>3, SameInbox
      <4> QED BY <3>3, <3>5, <4>1, <4>2, <4>4 DEF InboxOk
    <3>7. CloseSocket(c.socks, s) = [c.socks EXCEPT ![s] = l]
      BY <1>1, <3>2, <3>3, <3>4 DEF CloseSocket
    <3>8. /\ [c.socks EXCEPT ![s] = l] \in [Sock -> SockRecord]
          /\ \A x \in Sock : InboxOk([c.socks EXCEPT ![s] = l][x], n)
      BY <1>1, <3>5, <3>6
    <3> QED BY <2>2, <3>1, <3>7, <3>8
  <2> QED BY <2>1, <2>2
<1>3. PICK d : d = Close(c)
  OBVIOUS
<1>4. d = [Idle EXCEPT !.online = c.online, !.event = c.event, !.socks = f]
  BY <1>2, <1>3 DEF Close
<1>5. /\ d \in ConnRecord /\ d.socks = f /\ d.online = c.online /\ d.event = c.event
      /\ ~d.live /\ d.ws = 0 /\ ~d.timer /\ ~d.stopped /\ ~d.listening /\ d.state = "idle"
  BY <1>1, <1>4 DEF Idle, ConnRecord
<1>6. NetOk(d) /\ ObjectOk(d)
  BY <1>1, <1>5 DEF NetOk, ObjectOk
<1>7. Sound(d, n)
  BY <1>2, <1>5, <1>6 DEF Sound
<1>8. \A p : p.view = 0 => ShownOk(p, d, n)
  BY <1>5 DEF ShownOk
<1> QED BY <1>3, <1>7, <1>8

\* The page sends an event; p is the page that waits for its outcome.
LEMMA SendsSound ==
    ASSUME NEW n \in Nat, NEW c, Sound(c, n)
    PROVE  /\ Sound(Sends(c), n)
           /\ \A o, p : ShownOk(o, c, n) /\ p.page = o.page /\ p.view = o.view
                        => ShownOk(p, Sends(c), n)
<1>1. c \in ConnRecord /\ ObjectOk(c)
  BY DEF Sound
<1>2. CASE c.ws # 0 /\ c.socks[c.ws].conn = "open"
  <2>1. PICK s \in Sock : s = c.ws
    BY <1>1, <1>2 DEF ConnRecord
  <2>2. PICK k \in SockRecord : k = c.socks[s]
    BY <2>1, SocketFacts
  <2>3. PICK l : l = [k EXCEPT !.acts = TRUE]
    OBVIOUS
  <2>4. l \in SockRecord /\ l.conn = k.conn /\ l.auth = k.auth /\ l.inbox = k.inbox /\ l.acts
    BY <2>3 DEF SockRecord
  <2>5. PICK d : d = Sends(c)
    OBVIOUS
  <2>6. d = [c EXCEPT !.socks[s] = l]
    BY <1>2, <2>1, <2>2, <2>3, <2>5 DEF Sends
  <2>7. InboxOk(k, n) /\ s # 0
    BY <2>2, SocketFacts
  <2>8. InboxOk(l, n)
    BY <2>4, <2>7 DEF InboxOk
  <2>9. /\ l.conn # "gone" /\ (l.conn = "closing" => c.stopped)
        /\ (c.stopped => Final(l)) /\ (c.state = "connected" => l.auth = "done")
    BY <1>2, <2>1, <2>2, <2>4, SocketFacts DEF Final
  <2>10. Sound(d, n)
    <3>1. Sound([c EXCEPT !.socks[s] = l], n)
      BY <2>4, <2>8, <2>9, SocketMoves
    <3> QED BY <2>6, <3>1
  <2>11. /\ d.live = c.live /\ d.ws = s /\ d.state = c.state /\ d.socks[s] = l
    BY <1>1, <2>1, <2>4, <2>6 DEF ConnRecord
  <2>12. ASSUME NEW o, NEW p, ShownOk(o, c, n), p.page = o.page, p.view = o.view
         PROVE  ShownOk(p, d, n)
    BY <2>1, <2>2, <2>4, <2>7, <2>11, <2>12 DEF ShownOk
  <2> QED BY <2>5, <2>10, <2>12
<1>3. CASE ~(c.ws # 0 /\ c.socks[c.ws].conn = "open")
  <2>1. Sends(c) = c
    BY <1>3 DEF Sends
  <2>2. c.state = "connected" => c.socks[c.ws].inbox # <<>>
    <3>1. ASSUME c.state = "connected" PROVE c.socks[c.ws].inbox # <<>>
      <4>1. PICK s \in Sock : s = c.ws
        BY <1>1, <3>1 DEF ConnRecord, ObjectOk
      <4>2. /\ c.socks[s].conn \notin {"gone", "closing", "open"} /\ c.socks[s].auth = "done"
        BY <1>1, <1>3, <3>1, <4>1 DEF ObjectOk
      <4>3. c.socks[s] \in SockRecord /\ InboxOk(c.socks[s], n)
        BY SocketFacts
      <4>4. c.socks[s].conn = "closed"
        BY <4>2, <4>3 DEF InboxOk, SockRecord
      <4> QED BY <4>1, <4>3, <4>4 DEF InboxOk
    <3> QED BY <3>1
  <2>3. ASSUME NEW o, NEW p, ShownOk(o, c, n), p.page = o.page, p.view = o.view
        PROVE  ShownOk(p, c, n)
    BY <2>2, <2>3 DEF ShownOk
  <2> QED BY <2>1, <2>3
<1> QED BY <1>2, <1>3

\* A socket is closed with events that end with its close.
LEMMA ClosedWith ==
    ASSUME NEW n \in Nat, NEW c, Sound(c, n), NEW s \in Sock,
           c.socks[s].conn \in {"connecting", "open", "closing"},
           NEW l \in SockRecord, InboxOk(l, n), l.conn = "closed", l.auth = c.socks[s].auth,
           \A w : w <= n /\ NotBefore(c.socks[s].inbox, w) => NotBefore(l.inbox, w)
    PROVE  LET d == [c EXCEPT !.socks[s] = l]
           IN  Sound(d, n) /\ \A p : ShownOk(p, c, n) => ShownOk(p, d, n)
<1>1. PICK k \in SockRecord : k = c.socks[s]
  BY SocketFacts
<1>2. c.ws = s => /\ l.conn # "gone" /\ (l.conn = "closing" => c.stopped)
                  /\ (c.stopped => Final(l))
                  /\ (c.state = "connected" => l.auth = "done")
  BY <1>1, SocketFacts DEF Final
<1>3. LET x == [c EXCEPT !.socks[s] = l]
      IN  /\ Sound(x, n)
          /\ \A p : ShownOk(p, c, n) /\ (c.ws = s => StillShown(p, c, l)) => ShownOk(p, x, n)
  BY <1>2, SocketMoves
<1>4. l.inbox # <<>>
  BY DEF InboxOk
<1>5. ASSUME NEW p, ShownOk(p, c, n) PROVE c.ws = s => StillShown(p, c, l)
  <2>1. p.view <= n /\ (c.ws = s => StillShown(p, c, k))
    BY <1>1, <1>5, SocketFacts
  <2> QED BY <1>1, <1>4, <2>1 DEF StillShown
<1> QED BY <1>3, <1>5

\* The events of a socket that is closed end with its close.
LEMMA ClosedBySound ==
    ASSUME NEW n \in Nat, NEW c, Sound(c, n), NEW s \in Sock, NEW code \in CloseCode,
           c.socks[s].conn \in {"connecting", "open", "closing"}
    PROVE  /\ Sound(ClosedBy(c, s, code), n)
           /\ \A p : ShownOk(p, c, n) => ShownOk(p, ClosedBy(c, s, code), n)
<1>1. PICK k \in SockRecord : k = c.socks[s] /\ InboxOk(k, n)
  BY SocketFacts
<1>2. PICK q \in Seq(EventRecord) : q = k.inbox
  BY DEF SockRecord
<1>3. PICK e : e = CloseEvent(code)
  OBVIOUS
<1>4. e \in EventRecord /\ e.type = "close"
  BY <1>3 DEF CloseEvent, EventRecord
<1>5. PICK r : r = q \o <<e>>
  OBVIOUS
<1>6. Orderly(q, k.conn, k.auth, n) /\ k.conn \in {"connecting", "open", "closing"}
  BY <1>1, <1>2 DEF InboxOk
<1>7. /\ r \in Seq(EventRecord) /\ r # <<>> /\ r[Len(r)] = e
      /\ Orderly(r, "closed", k.auth, n)
      /\ \A w : w <= n /\ NotBefore(q, w) => NotBefore(r, w)
  <2>1. EventOk(e, "closed", k.auth, n)
    BY <1>4 DEF EventOk
  <2>2. /\ k.conn # "closed" /\ e.type # "authenticated" /\ (e.type = "view" => e.v = n)
        /\ e.type # "SESSION_INVALID"
    BY <1>4, <1>6
  <2> QED BY <1>4, <1>5, <1>6, <2>1, <2>2, EventAdded
<1>8. PICK d : d = ClosedBy(c, s, code)
  OBVIOUS
<1>9. PICK l : l = [k EXCEPT !.inbox = r, !.conn = "closed", !.acts = FALSE]
  OBVIOUS
<1>10. d = [c EXCEPT !.socks[s] = l]
  <2>1. c.socks \in [Sock -> SockRecord] /\ c \in ConnRecord
    BY DEF Sound, ConnRecord
  <2> QED BY <1>1, <1>2, <1>3, <1>5, <1>8, <1>9, <2>1 DEF ClosedBy, Put, ConnRecord, SockRecord
<1>11. l \in SockRecord /\ l.inbox = r /\ l.conn = "closed" /\ l.auth = k.auth
  BY <1>7, <1>9 DEF SockRecord
<1>12. InboxOk(l, n)
  BY <1>4, <1>7, <1>11 DEF InboxOk
<1>13. l.auth = c.socks[s].auth /\ \A w : w <= n /\ NotBefore(c.socks[s].inbox, w) => NotBefore(l.inbox, w)
  BY <1>1, <1>2, <1>7, <1>11
<1>14. LET x == [c EXCEPT !.socks[s] = l]
       IN  Sound(x, n) /\ \A p : ShownOk(p, c, n) => ShownOk(p, x, n)
  BY <1>11, <1>12, <1>13, ClosedWith
<1> QED BY <1>8, <1>10, <1>14

\* The same, of a socket whose session another one has taken.
LEMMA ReplacedSound ==
    ASSUME NEW n \in Nat, NEW c, Sound(c, n), NEW s \in Sock, c.socks[s].conn = "open"
    PROVE  /\ Sound(Replaced(c, s), n)
           /\ \A p : ShownOk(p, c, n) => ShownOk(p, Replaced(c, s), n)
<1>1. PICK k \in SockRecord : k = c.socks[s] /\ InboxOk(k, n)
  BY SocketFacts
<1>2. PICK q \in Seq(EventRecord) : q = k.inbox
  BY DEF SockRecord
<1>3. PICK e, f : e = Message("SESSION_INVALID", 0) /\ f = CloseEvent("replaced")
  OBVIOUS
<1>4. /\ e \in EventRecord /\ e.type = "SESSION_INVALID" /\ f \in EventRecord /\ f.type = "close"
  BY <1>3 DEF Message, CloseEvent, EventRecord, CloseCode
<1>5. PICK r : r = (q \o <<e>>) \o <<f>>
  OBVIOUS
<1>6. /\ r \in Seq(EventRecord) /\ r # <<>> /\ r[Len(r)] = f
      /\ Orderly(r, "closed", k.auth, n)
      /\ \A w : w <= n /\ NotBefore(q, w) => NotBefore(r, w)
  <2>1. PICK conn, auth : conn = k.conn /\ auth = k.auth
    OBVIOUS
  <2>2. Orderly(q, conn, auth, n) /\ conn # "closed"
    BY <1>1, <1>2, <2>1 DEF InboxOk
  <2> QED BY <1>4, <1>5, <2>1, <2>2, LastWords
<1>7. PICK d : d = Replaced(c, s)
  OBVIOUS
<1>8. PICK o : o = [k EXCEPT !.inbox = r, !.conn = "closed", !.acts = FALSE]
  OBVIOUS
<1>9. d = [c EXCEPT !.socks[s] = o]
  <2>1. c.socks \in [Sock -> SockRecord] /\ c \in ConnRecord
    BY DEF Sound, ConnRecord
  <2>2. PICK p : p = q \o <<e>>
    OBVIOUS
  <2>3. PICK l : l = [k EXCEPT !.inbox = p]
    OBVIOUS
  <2>4. PICK a : a = [c EXCEPT !.socks[s] = l]
    OBVIOUS
  <2>5. a = Put(c, s, <<Message("SESSION_INVALID", 0)>>)
    BY <1>1, <1>2, <1>3, <2>1, <2>2, <2>3, <2>4 DEF Put, ConnRecord, SockRecord
  <2>6. a.socks[s] = l /\ l.inbox = p
    BY <2>1, <2>3, <2>4 DEF ConnRecord, SockRecord
  <2>7. PICK m : m = [l EXCEPT !.inbox = r, !.conn = "closed", !.acts = FALSE]
    OBVIOUS
  <2>8. d = [a EXCEPT !.socks[s] = m]
    <3>1. r = p \o <<f>>
      BY <1>5, <2>2
    <3>2. d = ClosedBy(a, s, "replaced")
      BY <1>7, <2>5 DEF Replaced, Refused
    <3>3. PICK b : b = Put(a, s, <<f>>)
      OBVIOUS
    <3>4. b = [a EXCEPT !.socks[s] = [l EXCEPT !.inbox = r]]
      BY <2>1, <2>3, <2>4, <2>6, <3>1, <3>3 DEF Put, ConnRecord, SockRecord
    <3>5. b.socks[s] = [l EXCEPT !.inbox = r]
      BY <2>1, <2>4, <3>4 DEF ConnRecord
    <3>6. d = [b EXCEPT !.socks[s] = [@ EXCEPT !.conn = "closed", !.acts = FALSE]]
      BY <1>3, <3>2, <3>3 DEF ClosedBy
    <3>7. m = [[l EXCEPT !.inbox = r] EXCEPT !.conn = "closed", !.acts = FALSE]
      BY <2>3, <2>7 DEF SockRecord
    <3>8. d = [b EXCEPT !.socks[s] = m]
      BY <3>5, <3>6, <3>7
    <3> QED BY <3>4, <3>8
  <2>9. m = [k EXCEPT !.inbox = r, !.conn = "closed", !.acts = FALSE]
    BY <2>3, <2>7 DEF SockRecord
  <2>10. d = [c EXCEPT !.socks[s] = m]
    BY <2>1, <2>4, <2>8
  <2> QED BY <1>8, <2>9, <2>10
<1>10. o \in SockRecord /\ o.inbox = r /\ o.conn = "closed" /\ o.auth = k.auth
  BY <1>6, <1>8 DEF SockRecord
<1>11. InboxOk(o, n)
  BY <1>4, <1>6, <1>10 DEF InboxOk
<1>12. o.auth = c.socks[s].auth /\ \A w : w <= n /\ NotBefore(c.socks[s].inbox, w) => NotBefore(o.inbox, w)
  BY <1>1, <1>2, <1>6, <1>10
<1>13. LET x == [c EXCEPT !.socks[s] = o]
       IN  Sound(x, n) /\ \A p : ShownOk(p, c, n) => ShownOk(p, x, n)
  <2>1. c.socks[s].conn \in {"connecting", "open", "closing"}
    OBVIOUS
  <2> QED BY <1>10, <1>11, <1>12, <2>1, ClosedWith
<1> QED BY <1>7, <1>9, <1>13

\* Object c with other events on socket s, whose session and the page's event go with them.
Said(c, s, r, auth, acts) ==
    [c EXCEPT !.socks[s] = [@ EXCEPT !.inbox = r, !.auth = auth, !.acts = acts]]

\* Object c becomes d, and a page may show what it did.
Keeps(c, d, n) == Sound(d, n) /\ \A p : ShownOk(p, c, n) => ShownOk(p, d, n)

\* The gateway puts what it has to say on an open socket.
LEMMA MessagesPut ==
    ASSUME NEW n \in Nat, NEW c, Sound(c, n), NEW s \in Sock, c.socks[s].conn = "open",
           NEW r \in Seq(EventRecord), r # <<>>,
           NEW auth \in {"none", "sent", "done", "refused"}, NEW acts \in BOOLEAN,
           Orderly(r, "open", auth, n),
           \A w : w <= n /\ NotBefore(c.socks[s].inbox, w) => NotBefore(r, w),
           auth = c.socks[s].auth \/ c.socks[s].auth = "sent"
    PROVE  Keeps(c, Said(c, s, r, auth, acts), n)
<1> DEFINE k == c.socks[s]
           l == [k EXCEPT !.inbox = r, !.auth = auth, !.acts = acts]
<1>1. /\ k \in SockRecord
      /\ c.ws = s => /\ c.stopped => k.auth = "refused"
                     /\ c.state = "connected" => k.auth = "done"
  BY SocketFacts DEF Final
<1>2. l \in SockRecord /\ l.inbox = r /\ l.auth = auth /\ l.acts = acts /\ l.conn = "open"
  BY <1>1 DEF SockRecord
<1> HIDE DEF l
<1>3. InboxOk(l, n)
  BY <1>2 DEF InboxOk
<1>4. c.ws = s => /\ l.conn # "gone" /\ (l.conn = "closing" => c.stopped)
                   /\ (c.stopped => Final(l))
                   /\ (c.state = "connected" => l.auth = "done")
  BY <1>1, <1>2 DEF Final
<1>5. ASSUME NEW p, ShownOk(p, c, n) PROVE c.ws = s => StillShown(p, c, l)
  <2>1. p.view <= n /\ (c.ws = s => StillShown(p, c, k))
    BY <1>5, SocketFacts
  <2> QED BY <1>2, <2>1 DEF StillShown
<1>6. PICK d : d = [c EXCEPT !.socks[s] = l]
  OBVIOUS
<1>7. /\ Sound(d, n)
      /\ \A p : ShownOk(p, c, n) /\ (c.ws = s => StillShown(p, c, l)) => ShownOk(p, d, n)
  <2>1. LET x == [c EXCEPT !.socks[s] = l]
        IN  /\ Sound(x, n)
            /\ \A p : ShownOk(p, c, n) /\ (c.ws = s => StillShown(p, c, l)) => ShownOk(p, x, n)
    BY <1>2, <1>3, <1>4, SocketMoves
  <2> QED BY <1>6, <2>1
<1>8. d = Said(c, s, r, auth, acts)
  BY <1>6 DEF l, Said
<1> QED BY <1>5, <1>7, <1>8 DEF Keeps

\* The browser says that a socket is open.
LEMMA OpenedSound ==
    ASSUME NEW n \in Nat, NEW c, Sound(c, n), NEW s \in Sock, c.socks[s].conn = "connecting"
    PROVE  /\ Sound(Opened(c, s), n)
           /\ \A p : ShownOk(p, c, n) => ShownOk(p, Opened(c, s), n)
<1>1. PICK k \in SockRecord : k = c.socks[s] /\ InboxOk(k, n) /\ s # 0
  BY SocketFacts
<1>2. k.inbox = <<>> /\ k.auth = "none" /\ k.conn = "connecting" /\ Orderly(k.inbox, k.conn, k.auth, n)
  BY <1>1 DEF InboxOk
<1>3. c.ws = s => c.state # "connected" /\ ~c.stopped /\ c.live
  BY <1>1, <1>2, SocketFacts DEF Final
<1>4. c \in ConnRecord /\ ObjectOk(c) /\ NetOk(c) /\ \A x \in Sock : InboxOk(c.socks[x], n)
  BY DEF Sound
<1>5. ASSUME NEW l, NEW auth \in {"none", "sent"}, l = [k EXCEPT !.conn = "open", !.auth = auth]
      PROVE  l \in SockRecord /\ l.inbox = k.inbox /\ l.conn = "open" /\ l.auth = auth /\ InboxOk(l, n)
  <2>1. l \in SockRecord /\ l.inbox = k.inbox /\ l.conn = "open" /\ l.auth = auth
    BY <1>5 DEF SockRecord
  <2>2. PICK q \in Seq(EventRecord) : q = k.inbox
    BY DEF SockRecord
  <2>3. Orderly(q, k.conn, k.auth, n) /\ k.conn # "closed" /\ k.auth \notin {"done", "refused"}
    BY <1>2, <2>2
  <2>4. Orderly(q, "open", auth, n)
    BY <2>3, SameInbox
  <2> QED BY <2>1, <2>2, <2>4 DEF InboxOk
<1>6. CASE c.ws # s
  <2>1. PICK l : l = [k EXCEPT !.conn = "open", !.auth = "none"]
    OBVIOUS
  <2>2. l \in SockRecord /\ InboxOk(l, n)
    BY <1>5, <2>1
  <2>3. PICK d : d = Opened(c, s)
    OBVIOUS
  <2>4. d = [c EXCEPT !.socks[s] = l]
    <3>1. l = [k EXCEPT !.conn = "open"]
      BY <1>2, <2>1 DEF SockRecord
    <3> QED BY <1>1, <1>6, <2>3, <3>1 DEF Opened, Listens
  <2>5. LET x == [c EXCEPT !.socks[s] = l]
        IN  /\ Sound(x, n)
            /\ \A p : ShownOk(p, c, n) /\ (c.ws = s => StillShown(p, c, l)) => ShownOk(p, x, n)
    BY <1>6, <2>2, SocketMoves
  <2> QED BY <1>6, <2>3, <2>4, <2>5
<1>7. CASE c.ws = s
  <2>1. PICK l : l = [k EXCEPT !.conn = "open", !.auth = "sent"]
    OBVIOUS
  <2>2. l \in SockRecord /\ InboxOk(l, n) /\ l.inbox = k.inbox /\ l.conn = "open" /\ l.auth = "sent"
    BY <1>5, <2>1
  <2>3. PICK d : d = Opened(c, s)
    OBVIOUS
  <2>4. PICK f \in [Sock -> SockRecord] : f = [c.socks EXCEPT ![s] = l]
    BY <1>4, <2>2 DEF ConnRecord
  <2>5. d = [c EXCEPT !.state = "authenticating", !.socks = f]
    BY <1>1, <1>7, <2>1, <2>3, <2>4 DEF Opened, Listens
  <2>6. /\ d \in ConnRecord /\ d.socks = f /\ d.state = "authenticating" /\ d.ws = s
        /\ d.live = c.live /\ d.timer = c.timer /\ d.stopped = c.stopped
        /\ d.listening = c.listening /\ d.online = c.online /\ d.event = c.event
    BY <1>4, <1>7, <2>4, <2>5 DEF ConnRecord
  <2>7. d.socks[s] = l /\ \A x \in Sock : x # s => d.socks[x] = c.socks[x]
    BY <1>4, <2>4, <2>6
  <2>8. NetOk(d)
    BY <1>4, <2>6 DEF NetOk
  <2>9. ObjectOk(d)
    BY <1>1, <1>3, <1>4, <1>7, <2>2, <2>6, <2>7 DEF ObjectOk
  <2>10. Sound(d, n)
    BY <1>4, <2>2, <2>6, <2>7, <2>8, <2>9 DEF Sound
  <2>11. ASSUME NEW p, ShownOk(p, c, n) PROVE ShownOk(p, d, n)
    BY <1>1, <1>7, <2>2, <2>6, <2>7, <2>11 DEF ShownOk
  <2> QED BY <2>3, <2>10, <2>11
<1> QED BY <1>6, <1>7

\* A message of the gateway that leaves the other sockets alone.
LEMMA MessagePut ==
    ASSUME NEW n \in Nat, NEW c, Sound(c, n), NEW s \in Sock, c.socks[s].conn = "open",
           NEW type \in {"error", "SESSION_INVALID"}, NEW acts \in BOOLEAN,
           NEW auth \in {"none", "sent", "done", "refused"},
           auth = c.socks[s].auth \/ c.socks[s].auth = "sent",
           type = "SESSION_INVALID" => auth = "refused",
           NEW r, r = c.socks[s].inbox \o <<Message(type, 0)>>
    PROVE  Keeps(c, Said(c, s, r, auth, acts), n)
<1>1. PICK k \in SockRecord : k = c.socks[s] /\ InboxOk(k, n)
  BY SocketFacts
<1>2. PICK q \in Seq(EventRecord) : q = k.inbox
  BY DEF SockRecord
<1>3. PICK e : e = Message(type, 0)
  OBVIOUS
<1>4. e \in EventRecord /\ e.type = type /\ EventOk(e, "open", auth, n)
  BY <1>3 DEF Message, EventRecord, EventOk
<1>5. r = q \o <<e>>
  BY <1>1, <1>2, <1>3
<1>6. PICK was \in {"none", "sent", "done", "refused"} : was = k.auth
  BY DEF SockRecord
<1>7. Orderly(q, "open", was, n) /\ (auth = was \/ was = "sent")
  BY <1>1, <1>2, <1>6 DEF InboxOk
<1>8. /\ r \in Seq(EventRecord) /\ r # <<>>
      /\ Orderly(r, "open", auth, n)
      /\ \A w : w <= n /\ NotBefore(q, w) => NotBefore(r, w)
  <2>1. PICK conn, newConn : conn = "open" /\ newConn = "open"
    OBVIOUS
  <2>2. /\ e.type # "authenticated" /\ (e.type = "view" => e.v = n) /\ conn # "closed"
        /\ auth = was \/ was \notin {"done", "refused"}
        /\ Orderly(q, conn, was, n) /\ EventOk(e, newConn, auth, n)
        /\ e.type = "SESSION_INVALID" => auth = "refused"
    BY <1>4, <1>7, <2>1
  <2>3. PICK x : x = q \o <<e>>
    OBVIOUS
  <2>4. /\ x \in Seq(EventRecord) /\ x # <<>>
        /\ Orderly(x, newConn, auth, n)
        /\ \A w : w <= n /\ NotBefore(q, w) => NotBefore(x, w)
    BY <1>4, <2>2, <2>3, EventAdded
  <2> QED BY <1>5, <2>1, <2>3, <2>4
<1>11. /\ r \in Seq(EventRecord) /\ r # <<>> /\ Orderly(r, "open", auth, n)
       /\ \A w : w <= n /\ NotBefore(c.socks[s].inbox, w) => NotBefore(r, w)
       /\ auth = c.socks[s].auth \/ c.socks[s].auth = "sent"
  BY <1>1, <1>2, <1>6, <1>7, <1>8
<1>12. Keeps(c, Said(c, s, r, auth, acts), n)
  BY <1>11, MessagesPut
<1> QED BY <1>12

\* A refusal that lets the session be: an error, and the close.
LEMMA RefusedSound ==
    ASSUME NEW n \in Nat, NEW c, Sound(c, n), NEW s \in Sock, c.socks[s].conn = "open",
           NEW code \in CloseCode
    PROVE  LET d == Refused(c, s, "error", code)
           IN  Sound(d, n) /\ \A p : ShownOk(p, c, n) => ShownOk(p, d, n)
<1>1. PICK k \in SockRecord : k = c.socks[s]
  BY SocketFacts
<1>2. PICK acts \in BOOLEAN : acts = k.acts
  BY DEF SockRecord
<1>3. PICK auth \in {"none", "sent", "done", "refused"} : auth = k.auth
  BY DEF SockRecord
<1>4. PICK r : r = c.socks[s].inbox \o <<Message("error", 0)>>
  OBVIOUS
<1>5. PICK a : a = Put(c, s, <<Message("error", 0)>>)
  OBVIOUS
<1>6. c \in ConnRecord /\ c.socks \in [Sock -> SockRecord]
  BY DEF Sound, ConnRecord
<1>7. a = Said(c, s, r, auth, acts)
  <2>1. PICK l : l = [k EXCEPT !.inbox = r]
    OBVIOUS
  <2>2. l = [k EXCEPT !.inbox = r, !.auth = auth, !.acts = acts]
    BY <1>2, <1>3, <2>1 DEF SockRecord
  <2>3. a = [c EXCEPT !.socks[s] = l]
    BY <1>1, <1>4, <1>5, <1>6, <2>1 DEF Put, ConnRecord, SockRecord
  <2> QED BY <1>1, <2>2, <2>3 DEF Said
<1>8. Keeps(c, a, n)
  <2>1. PICK type \in {"error", "SESSION_INVALID"} : type = "error"
    OBVIOUS
  <2>2. r = c.socks[s].inbox \o <<Message(type, 0)>> /\ (type = "SESSION_INVALID" => auth = "refused")
    BY <1>4, <2>1
  <2>3. Keeps(c, Said(c, s, r, auth, acts), n)
    BY <1>1, <1>3, <2>2, MessagePut
  <2> QED BY <1>7, <2>3
<1>9. a.socks[s].conn = "open"
  BY <1>1, <1>5, <1>6 DEF Put, ConnRecord, SockRecord
<1>10. PICK d : d = ClosedBy(a, s, code)
  OBVIOUS
<1>11. Sound(d, n) /\ \A p : ShownOk(p, a, n) => ShownOk(p, d, n)
  BY <1>8, <1>9, <1>10, ClosedBySound DEF Keeps
<1>12. d = Refused(c, s, "error", code)
  BY <1>5, <1>10 DEF Refused
<1> QED BY <1>8, <1>11, <1>12 DEF Keeps

\* The answer to a first message that is accepted.
LEMMA AuthenticatedSound ==
    ASSUME NEW n \in Nat, NEW c, Sound(c, n), NEW s \in Sock, c.socks[s].conn = "open",
           c.socks[s].auth = "sent",
           NEW d, d = [Put(c, s, <<Message("authenticated", 0), Message("view", n)>>)
                          EXCEPT !.socks[s].auth = "done"]
    PROVE  Keeps(c, d, n)
<1>1. PICK k \in SockRecord : k = c.socks[s] /\ InboxOk(k, n)
  BY SocketFacts
<1>2. PICK q \in Seq(EventRecord) : q = k.inbox
  BY DEF SockRecord
<1>3. PICK e, f : e = Message("authenticated", 0) /\ f = Message("view", n)
  OBVIOUS
<1>4. /\ e \in EventRecord /\ e.type = "authenticated"
      /\ f \in EventRecord /\ f.type = "view" /\ f.v = n
  BY <1>3 DEF Message, EventRecord
<1>5. PICK r : r = q \o <<e, f>>
  OBVIOUS
<1>6. PICK acts \in BOOLEAN : acts = k.acts
  BY DEF SockRecord
<1>7. /\ r \in Seq(EventRecord) /\ r # <<>> /\ Orderly(r, "open", "done", n)
      /\ \A w : w <= n /\ NotBefore(q, w) => NotBefore(r, w)
  <2>1. PICK conn, auth : conn = "open" /\ auth = "sent"
    OBVIOUS
  <2>2. conn # "closed" /\ auth \notin {"done", "refused"} /\ Orderly(q, conn, auth, n)
    BY <1>1, <1>2, <2>1 DEF InboxOk
  <2> QED BY <1>4, <1>5, <2>1, <2>2, TwoMore
<1>8. PICK auth \in {"none", "sent", "done", "refused"} : auth = "done"
  OBVIOUS
<1>10. d = Said(c, s, r, auth, acts)
  <2>1. c.socks \in [Sock -> SockRecord] /\ c \in ConnRecord
    BY DEF Sound, ConnRecord
  <2>2. PICK l : l = [k EXCEPT !.inbox = r, !.auth = "done"]
    OBVIOUS
  <2>3. l = [k EXCEPT !.inbox = r, !.auth = auth, !.acts = acts]
    BY <1>6, <1>8, <2>2 DEF SockRecord
  <2>4. d = [c EXCEPT !.socks[s] = l]
    BY <1>1, <1>2, <1>3, <1>5, <2>1, <2>2 DEF Put, ConnRecord, SockRecord
  <2> QED BY <1>1, <2>3, <2>4 DEF Said
<1>11. /\ r \in Seq(EventRecord) /\ r # <<>> /\ Orderly(r, "open", auth, n)
       /\ \A w : w <= n /\ NotBefore(c.socks[s].inbox, w) => NotBefore(r, w)
       /\ auth = c.socks[s].auth \/ c.socks[s].auth = "sent"
  BY <1>1, <1>2, <1>7, <1>8
<1>12. Keeps(c, Said(c, s, r, auth, acts), n)
  BY <1>11, MessagesPut
<1> QED BY <1>10, <1>12

\* The session's other socket is closed.
LEMMA ReplacingSound ==
    ASSUME NEW n \in Nat, NEW c, Sound(c, n), NEW s \in Sock
    PROVE  /\ Sound(Replacing(c, s), n)
           /\ \A p : ShownOk(p, c, n) => ShownOk(p, Replacing(c, s), n)
<1> DEFINE old == {o \in Sock \ {s} : c.socks[o].conn = "open" /\ c.socks[o].auth = "done"}
<1>1. CASE old = {}
  BY <1>1 DEF Replacing
<1>2. CASE old # {}
  <2>1. PICK o : o = CHOOSE x \in old : TRUE
    OBVIOUS
  <2>2. o \in Sock /\ c.socks[o].conn = "open"
    BY <1>2, <2>1
  <2>3. Replacing(c, s) = Replaced(c, o)
    BY <1>2, <2>1 DEF Replacing
  <2> QED BY <2>2, <2>3, ReplacedSound
<1> QED BY <1>1, <1>2

\* The room has m versions: a socket either has the latest one as well, or nothing new.
LEMMA BroadcastSound ==
    ASSUME NEW n \in Nat, NEW m \in Nat, m = n + 1, NEW c, Sound(c, n),
           NEW f \in [Sock -> SockRecord],
           \A s \in Sock :
              /\ f[s].conn = c.socks[s].conn /\ f[s].auth = c.socks[s].auth
              /\ \/ f[s].inbox = c.socks[s].inbox /\ f[s].acts = c.socks[s].acts
                 \/ /\ c.socks[s].conn = "open"
                    /\ f[s].inbox = Append(c.socks[s].inbox, Message("view", m))
    PROVE  LET d == [c EXCEPT !.socks = f]
           IN  Sound(d, m) /\ \A p : ShownOk(p, c, n) => ShownOk(p, d, m)
<1> DEFINE d == [c EXCEPT !.socks = f]
<1>1. /\ c \in ConnRecord /\ NetOk(c) /\ ObjectOk(c)
      /\ \A s \in Sock : c.socks[s] \in SockRecord /\ InboxOk(c.socks[s], n)
  BY DEF Sound, ConnRecord
<1>2. /\ d \in ConnRecord /\ d.socks = f
      /\ d.live = c.live /\ d.ws = c.ws /\ d.timer = c.timer /\ d.stopped = c.stopped
      /\ d.listening = c.listening /\ d.state = c.state /\ d.online = c.online
      /\ d.event = c.event
  BY <1>1, WithSockets
<1> HIDE DEF d
<1>3. ASSUME NEW s \in Sock
      PROVE  /\ InboxOk(f[s], m)
             /\ \A w : w <= m /\ NotBefore(c.socks[s].inbox, w) => NotBefore(f[s].inbox, w)
             /\ c.socks[s].acts \/ c.socks[s].inbox # <<>> => f[s].acts \/ f[s].inbox # <<>>
  <2>1. PICK k \in SockRecord : k = c.socks[s] /\ InboxOk(k, n)
    BY <1>1
  <2>2. PICK q \in Seq(EventRecord) : q = k.inbox
    BY DEF SockRecord
  <2>3. PICK conn, auth : conn = k.conn /\ auth = k.auth
    OBVIOUS
  <2>4. Orderly(q, conn, auth, n) /\ n <= m
    BY <2>1, <2>2, <2>3 DEF InboxOk
  <2>5. PICK l \in SockRecord : l = f[s]
    OBVIOUS
  <2>6. l.conn = conn /\ l.auth = auth
    BY <2>1, <2>3, <2>5
  <2>7. CASE l.inbox = q /\ l.acts = k.acts
    <3>1. Orderly(q, conn, auth, m)
      BY <2>4, SameInbox
    <3>2. InboxOk(l, m)
      BY <2>1, <2>2, <2>3, <2>6, <2>7, <3>1 DEF InboxOk
    <3> QED BY <2>1, <2>2, <2>5, <2>7, <3>2
  <2>8. CASE conn = "open" /\ l.inbox = Append(q, Message("view", m))
    <3>1. PICK e : e = Message("view", m)
      OBVIOUS
    <3>2. e \in EventRecord /\ e.type = "view" /\ e.v = m
      BY <3>1 DEF Message, EventRecord
    <3>3. PICK r : r = q \o <<e>>
      OBVIOUS
    <3>4. EventOk(e, conn, auth, m)
      BY <3>2 DEF EventOk
    <3>5. /\ r \in Seq(EventRecord) /\ r # <<>> /\ Orderly(r, conn, auth, m)
          /\ \A w : w <= m /\ NotBefore(q, w) => NotBefore(r, w)
      <4>1. PICK newConn, newAuth : newConn = conn /\ newAuth = auth
        OBVIOUS
      <4>2. Orderly(q, conn, auth, m)
        BY <2>4, SameInbox
      <4>3. /\ conn # "closed" /\ (newAuth = auth \/ auth \notin {"done", "refused"})
            /\ e.type # "authenticated" /\ EventOk(e, newConn, newAuth, m)
            /\ (e.type = "view" => e.v = m) /\ Orderly(q, conn, auth, m)
        BY <2>8, <3>2, <3>4, <4>1, <4>2
      <4> QED BY <3>2, <3>3, <4>1, <4>3, EventAdded
    <3>7. l.inbox = r
      BY <2>8, <3>1, <3>3, AppendIsConcat
    <3>6. InboxOk(l, m)
      BY <2>6, <2>8, <3>5, <3>7 DEF InboxOk
    <3> QED BY <2>1, <2>2, <2>5, <3>5, <3>6, <3>7
  <2> QED BY <2>1, <2>2, <2>3, <2>5, <2>7, <2>8
<1>4. NetOk(d)
  BY <1>1, <1>2 DEF NetOk
<1>5. ObjectOk(d)
  <2>1. \A s \in Sock : /\ f[s].conn = c.socks[s].conn /\ f[s].auth = c.socks[s].auth
                        /\ Final(c.socks[s]) => Final(f[s])
    BY DEF Final
  <2>2. c.ws # 0 => c.ws \in Sock
    BY <1>1 DEF ConnRecord
  <2> QED BY <1>1, <1>2, <2>1, <2>2 DEF ObjectOk
<1>6. Sound(d, m)
  BY <1>2, <1>3, <1>4, <1>5 DEF Sound
<1>7. ASSUME NEW p, ShownOk(p, c, n) PROVE ShownOk(p, d, m)
  <2>1. p.view \in Nat /\ p.view <= n /\ p.view <= m
    BY <1>7 DEF ShownOk
  <2>2. c.ws # 0 => c.ws \in Sock
    BY <1>1 DEF ConnRecord
  <2>3. c.ws # 0 => NotBefore(f[c.ws].inbox, p.view)
    BY <1>3, <1>7, <2>1, <2>2 DEF ShownOk
  <2>4. c.state = "connected" => c.ws # 0
    BY <1>1 DEF ObjectOk
  <2>5. p.pending /\ c.state = "connected" => f[c.ws].acts \/ f[c.ws].inbox # <<>>
    BY <1>3, <1>7, <2>2, <2>4 DEF ShownOk
  <2>6. p.page # "live" => ~c.live
    BY <1>7 DEF ShownOk
  <2> QED BY <1>2, <2>1, <2>3, <2>5, <2>6 DEF ShownOk
<1> QED BY <1>6, <1>7 DEF d

-----------------------------------------------------------------------------
(* The steps *)

\* What a step may do to the views that are shown.
Forward == \A t \in Tab : tab'[t].view = 0 \/ tab'[t].view >= tab[t].view

\* The connection of one tab moves on.
LEMMA OneConn ==
    ASSUME ConnInv, NEW t \in Tab, NEW d, Sound(d, version), ShownOk(tab'[t], d, version),
           rt' = [rt EXCEPT ![t] = d], version' = version,
           \A q \in Tab : q # t => tab'[q] = tab[q],
           tab'[t].view = 0 \/ tab[t].view <= tab'[t].view
    PROVE  ConnInv' /\ Forward
<1>1. version \in Nat /\ DOMAIN rt = Tab
  BY DEF ConnInv
<1>2. rt'[t] = d /\ \A q \in Tab : q # t => rt'[q] = rt[q]
  BY <1>1
<1>3. ASSUME NEW q \in Tab PROVE Sound(rt'[q], version') /\ ShownOk(tab'[q], rt'[q], version')
  <2>1. CASE q = t
    BY <1>2, <2>1
  <2>2. CASE q # t
    <3>1. Sound(rt[q], version) /\ ShownOk(tab[q], rt[q], version)
      BY DEF ConnInv
    <3> QED BY <1>2, <2>2, <3>1
  <2> QED BY <2>1, <2>2
<1>4. ConnInv'
  BY <1>1, <1>3 DEF ConnInv
<1>5. \A q \in Tab : tab[q].view \in Nat
  BY DEF ConnInv, ShownOk
<1>6. tab'[t].view \in Nat
  BY DEF ShownOk
<1>7. Forward
  BY <1>5, <1>6 DEF Forward
<1> QED BY <1>4, <1>7

\* The connections stay as they are, and what the pages show of them.
SameShows(t) ==
    /\ tab'[t].view = tab[t].view /\ tab'[t].pending = tab[t].pending
    /\ tab[t].page = "live" => tab'[t].page = "live"

\* Steps that change no connection, and nothing that is shown of one.
LEMMA SameConns ==
    ASSUME ConnInv, UNCHANGED <<rt, version>>, \A t \in Tab : SameShows(t)
    PROVE  ConnInv' /\ Forward
<1>1. version \in Nat /\ DOMAIN rt = Tab
  BY DEF ConnInv
<1>2. ASSUME NEW q \in Tab
      PROVE  /\ Sound(rt'[q], version') /\ ShownOk(tab'[q], rt'[q], version')
             /\ tab'[q].view >= tab[q].view
  <2>1. Sound(rt[q], version) /\ ShownOk(tab[q], rt[q], version) /\ SameShows(q)
    BY DEF ConnInv
  <2>2. rt'[q] = rt[q] /\ version' = version
    OBVIOUS
  <2>3. ShownOk(tab'[q], rt[q], version)
    BY <2>1 DEF ShownOk, SameShows
  <2>4. tab'[q].view >= tab[q].view
    BY <1>1, <2>1 DEF ShownOk, SameShows
  <2> QED BY <2>1, <2>2, <2>3, <2>4
<1> QED BY <1>1, <1>2 DEF ConnInv, Forward

\* A page that goes on without a connection.
LEMMA OtherPage ==
    ASSUME WebInv, ConnInv, NEW t \in Tab, NEW page, tab' = [tab EXCEPT ![t] = page],
           page.view = tab[t].view, page.pending = tab[t].pending,
           tab[t].page = "live" => page.page = "live", UNCHANGED <<rt, version>>
    PROVE  ConnInv' /\ Forward
<1>1. DOMAIN tab = Tab
  BY DEF WebInv, Shape
<1>2. \A q \in Tab : SameShows(q)
  BY <1>1 DEF SameShows
<1> QED BY <1>2, SameConns

\* useHostRealtime and usePlayerRealtime on mount.
LEMMA LiveConn ==
    ASSUME WebInv, ConnInv, NEW t \in Tab, NEW stored, Live(t, stored), tab[t].page # "live",
           Unused(rt[t]) # {}, version' = version
    PROVE  ConnInv' /\ Forward
<1>1. DOMAIN tab = Tab /\ DOMAIN tab[t] = TabField /\ DOMAIN rt = Tab /\ version \in Nat
  BY DEF WebInv, Shape, ConnInv
<1>2. PICK c : c = rt[t] /\ Sound(c, version) /\ ShownOk(tab[t], c, version)
  BY DEF ConnInv
<1>3. ~c.live /\ Unused(c) # {}
  BY <1>2 DEF ShownOk
<1>4. PICK d : d = Connect(c)
  OBVIOUS
<1>5. Sound(d, version) /\ \A p : p.page = "live" /\ p.view \in Nat /\ p.view <= version
                                  => ShownOk(p, d, version)
  BY <1>2, <1>3, <1>4, ConnectSound
<1>6. rt' = [rt EXCEPT ![t] = d]
  BY <1>2, <1>4 DEF Live
<1>7. tab'[t].page = "live" /\ tab'[t].view = 0 /\ \A q \in Tab : q # t => tab'[q] = tab[q]
  BY <1>1 DEF Live, TabField
<1>8. ShownOk(tab'[t], d, version)
  BY <1>1, <1>5, <1>7
<1> QED BY <1>5, <1>6, <1>7, <1>8, OneConn

\* The pages, which at most mount a hook.
LEMMA PageConns ==
    ASSUME WebInv, WaitInv, ConnInv, NEW t \in Tab,
           PageSteps(t) \/ (\E name \in Name : Submit(t, name))
    PROVE  ConnInv' /\ Forward
<1>1. DOMAIN tab = Tab /\ DOMAIN tab[t] = TabField
  BY DEF WebInv, Shape
<1>2. ASSUME NEW c \in Call, NEW kind, Receives(t, c, kind) PROVE tab[t].page # "live"
  <2>1. tab[t].waiting # 0
    BY <1>2, WebClientAssumption DEF Receives
  <2>2. tab[t].page \in Asking
    BY <2>1 DEF WaitInv, WaitOk
  <2> QED BY <2>2 DEF Asking
<1>3. ASSUME NEW c, NEW call, NEW page, Ask(t, c, call, page), tab[t].page # "live",
             UNCHANGED <<rt, version>>
      PROVE  ConnInv' /\ Forward
  <2>1. PICK next : next = [tab[t] EXCEPT !.page = page, !.waiting = c]
    OBVIOUS
  <2>2. tab' = [tab EXCEPT ![t] = next]
    BY <1>1, <1>3, <2>1 DEF Ask, TabField
  <2>3. next.view = tab[t].view /\ next.pending = tab[t].pending
    BY <1>1, <2>1 DEF TabField
  <2> QED BY <1>3, <2>2, <2>3, OtherPage
<1>4. CASE \/ OpenGames(t) \/ LogOut(t) \/ AskForRoom(t) \/ OpenTv(t)
           \/ (\E u \in User, kind \in {"login", "register"} : SubmitAccount(t, kind, u))
           \/ (\E name \in Name : Submit(t, name))
  <2>1. \E c, call, page : Ask(t, c, call, page)
    BY <1>4 DEF OpenGames, LogOut, AskForRoom, OpenTv, SubmitAccount, Submit
  <2>2. tab[t].page # "live"
    BY <1>4 DEF OpenGames, LogOut, AskForRoom, OpenTv, SubmitAccount, Submit, MayOpen
  <2>3. UNCHANGED <<rt, version>>
    BY <1>4 DEF OpenGames, LogOut, AskForRoom, OpenTv, SubmitAccount, Submit
  <2> QED BY <1>3, <2>1, <2>2, <2>3
<1>5. CASE OpenJoin(t)
  <2>1. tab[t].page # "live" /\ version' = version
    BY <1>5 DEF OpenJoin, MayOpen
  <2>2. CASE (\E stored : Live(t, stored)) /\ Unused(rt[t]) # {}
    BY <2>1, <2>2, LiveConn
  <2>3. CASE /\ tab' = [tab EXCEPT ![t].page = "checking", ![t].waiting = NewCall, ![t].mount = @ + 1]
             /\ UNCHANGED rt
    <3>1. PICK next : next = [tab[t] EXCEPT !.page = "checking", !.waiting = NewCall, !.mount = @ + 1]
      OBVIOUS
    <3>2. tab' = [tab EXCEPT ![t] = next]
      BY <1>1, <2>3, <3>1 DEF TabField
    <3>3. next.view = tab[t].view /\ next.pending = tab[t].pending
      BY <1>1, <3>1 DEF TabField
    <3> QED BY <2>1, <2>3, <3>2, <3>3, OtherPage
  <2> QED BY <1>5, <2>2, <2>3 DEF OpenJoin
<1>6. ASSUME NEW c \in Call, GotMe(t, c) PROVE ConnInv' /\ Forward
  <2>1. Receives(t, c, "me") /\ (\E call : Ask(t, c, call, "owned")) /\ UNCHANGED <<rt, version>>
    BY <1>6 DEF GotMe
  <2> QED BY <1>2, <1>3, <2>1
<1>7. ASSUME NEW c \in Call, GotTv(t, c) \/ GotSeat(t, c) PROVE ConnInv' /\ Forward
  <2>1. (\E kind : Receives(t, c, kind)) /\ (\E stored : Live(t, stored))
    BY <1>7 DEF GotTv, GotSeat
  <2>2. Unused(rt[t]) # {} /\ version' = version
    BY <1>7 DEF GotTv, GotSeat
  <2> QED BY <1>2, <2>1, <2>2, LiveConn
<1>8. ASSUME NEW c \in Call, \/ GotOwned(t, c) \/ GotAvailability(t, c) \/ GotLogout(t, c)
                             \/ GotAccount(t, c) \/ GotRoom(t, c)
      PROVE  ConnInv' /\ Forward
  <2>1. tab[t].page # "live"
    BY <1>2, <1>8 DEF GotOwned, GotAvailability, GotLogout, GotAccount, GotRoom
  <2>2. UNCHANGED <<rt, version>>
    BY <1>8 DEF GotOwned, GotAvailability, GotLogout, GotAccount, GotRoom
  <2>3. tab' = [tab EXCEPT ![t] = tab'[t]]
    BY <1>1, <1>8 DEF GotOwned, GotAvailability, GotLogout, GotAccount, GotRoom
  <2>4. tab'[t].view = tab[t].view /\ tab'[t].pending = tab[t].pending
    <3>1. CASE GotOwned(t, c)
      <4>1. PICK page : page = IF calls[c].status = "ok" THEN "owner" ELSE "not owner"
        OBVIOUS
      <4>2. tab' = [tab EXCEPT ![t].waiting = 0, ![t].page = page]
        BY <3>1, <4>1 DEF GotOwned
      <4> QED BY <1>1, <4>2 DEF TabField
    <3>2. CASE GotAvailability(t, c) \/ GotLogout(t, c)
      BY <1>1, <3>2 DEF GotAvailability, GotLogout, TabField
    <3>3. CASE GotAccount(t, c) \/ GotRoom(t, c)
      BY <1>1, <3>3 DEF GotAccount, GotRoom, TabField
    <3> QED BY <1>8, <3>1, <3>2, <3>3
  <2>5. PICK next : next = tab'[t]
    OBVIOUS
  <2>6. tab' = [tab EXCEPT ![t] = next] /\ next.view = tab[t].view /\ next.pending = tab[t].pending
    BY <2>3, <2>4, <2>5
  <2> QED BY <2>1, <2>2, <2>6, OtherPage
<1> QED BY <1>4, <1>5, <1>6, <1>7, <1>8 DEF PageSteps

\* A call failed, or nobody waits for it.
LEMMA FailureConns ==
    ASSUME WebInv, WaitInv, ConnInv,
           (\E c \in Call : ReceiveNothing(c)) \/ (\E t \in Tab : GiveUp(t))
    PROVE  ConnInv' /\ Forward
<1>1. DOMAIN tab = Tab /\ \A q \in Tab : DOMAIN tab[q] = TabField
  BY DEF WebInv, Shape
<1>2. UNCHANGED <<rt, version>>
  BY DEF ReceiveNothing, GiveUp
<1>3. \/ UNCHANGED tab \/ \E t : tab' = Failed(t) /\ tab[t].waiting # 0
  BY WebClientAssumption DEF ReceiveNothing, GiveUp
<1>4. ASSUME NEW t, tab' = Failed(t), tab[t].waiting # 0 PROVE \A q \in Tab : SameShows(q)
  <2>1. CASE t \in Tab
    <3>1. PICK next : next = [tab[t] EXCEPT !.page = AfterFailure[tab[t].page], !.waiting = 0]
      OBVIOUS
    <3>2. tab' = [tab EXCEPT ![t] = next]
      BY <1>1, <1>4, <2>1, <3>1 DEF Failed, TabField
    <3>3. next.view = tab[t].view /\ next.pending = tab[t].pending
      BY <1>1, <2>1, <3>1 DEF TabField
    <3>4. tab[t].page # "live"
      BY <1>4, <2>1 DEF WaitInv, WaitOk, Asking
    <3> QED BY <1>1, <3>2, <3>3, <3>4 DEF SameShows
  <2>2. CASE t \notin Tab
    BY <1>1, <1>4, <2>2 DEF Failed, SameShows
  <2> QED BY <2>1, <2>2
<1>5. CASE UNCHANGED tab
  <2>1. \A q \in Tab : SameShows(q)
    BY <1>5 DEF SameShows
  <2> QED BY <1>2, <2>1, SameConns
<1> QED BY <1>2, <1>3, <1>4, <1>5, SameConns

\* Leaving a page closes its connection.
LEMMA AwayConns ==
    ASSUME WebInv, ConnInv, NEW t \in Tab, Reload(t) \/ FollowLink(t)
    PROVE  ConnInv' /\ Forward
<1>1. DOMAIN tab = Tab /\ DOMAIN tab[t] = TabField /\ version \in Nat
  BY DEF WebInv, Shape, ConnInv
<1>2. Away(t) /\ version' = version
  BY DEF Reload, FollowLink
<1>3. PICK c : c = rt[t] /\ Sound(c, version)
  BY DEF ConnInv
<1>4. PICK d : d = Close(c)
  OBVIOUS
<1>5. Sound(d, version) /\ \A p : p.view = 0 => ShownOk(p, d, version)
  BY <1>1, <1>3, <1>4, CloseSound
<1>6. rt' = [rt EXCEPT ![t] = d]
  BY <1>2, <1>3, <1>4 DEF Away
<1>7. tab'[t].view = 0 /\ \A q \in Tab : q # t => tab'[q] = tab[q]
  BY <1>1, <1>2 DEF Away, TabField
<1>8. ShownOk(tab'[t], d, version)
  BY <1>5, <1>7
<1> QED BY <1>2, <1>5, <1>6, <1>7, <1>8, OneConn

\* The hook hears of the connection's state, and at most forgets its session.
LEMMA BecomesConns ==
    ASSUME WebInv, ConnInv, NEW t \in Tab, NEW d, Becomes(t, d), version' = version,
           Sound(d, version), \A p : ShownOk(p, rt[t], version) => ShownOk(p, d, version)
    PROVE  ConnInv' /\ Forward
<1>1. DOMAIN tab = Tab /\ DOMAIN tab[t] = TabField
  BY DEF WebInv, Shape
<1>2. ShownOk(tab[t], rt[t], version)
  BY DEF ConnInv
<1>3. /\ tab'[t].view = tab[t].view /\ tab'[t].page = tab[t].page
      /\ tab'[t].pending = tab[t].pending /\ \A q \in Tab : q # t => tab'[q] = tab[q]
  BY <1>1 DEF Becomes, TabField
<1>4. ShownOk(tab'[t], rt[t], version)
  BY <1>2, <1>3 DEF ShownOk
<1>5. tab[t].view <= tab'[t].view
  BY <1>2, <1>3 DEF ShownOk
<1>6. rt' = [rt EXCEPT ![t] = d] /\ ShownOk(tab'[t], d, version)
  BY <1>4 DEF Becomes
<1> QED BY <1>3, <1>5, <1>6, OneConn

\* The hooks and their objects.
LEMMA HooksConns == ASSUME WebInv, ConnInv, NEW t \in Tab, Hooks(t) PROVE ConnInv' /\ Forward
<1>1. /\ DOMAIN tab = Tab /\ DOMAIN tab[t] = TabField /\ version \in Nat
      /\ Sound(rt[t], version) /\ ShownOk(tab[t], rt[t], version)
  BY DEF WebInv, Shape, ConnInv
<1>2. tab[t].view \in Nat /\ tab[t].view <= version
  BY <1>1 DEF ShownOk
<1>3. version' = version
  BY DEF Hooks, RetryConnection, SendEvent, TimerFires, NetEventArrives, NetworkChanges, EventArrives
<1>4. ASSUME NEW d, Sound(d, version), Becomes(t, d),
             \A p : p.page = "live" /\ p.view \in Nat /\ p.view <= version => ShownOk(p, d, version),
             rt[t].live
      PROVE  ConnInv' /\ Forward
  <2>1. \A p : ShownOk(p, rt[t], version) => ShownOk(p, d, version)
    BY <1>4 DEF ShownOk
  <2> QED BY <1>3, <1>4, <2>1, BecomesConns
<1>5. CASE RetryConnection(t)
  <2>1. rt[t].live /\ Unused(rt[t]) # {} /\ Becomes(t, Retry(rt[t]))
    BY <1>5 DEF RetryConnection
  <2>2. /\ Sound(Retry(rt[t]), version)
        /\ \A p : p.page = "live" /\ p.view \in Nat /\ p.view <= version
                    => ShownOk(p, Retry(rt[t]), version)
    BY <1>1, <2>1, RetrySound
  <2> QED BY <1>4, <2>1, <2>2
<1>6. CASE TimerFires(t)
  <2>1. rt[t].timer /\ Unused(rt[t]) # {} /\ Becomes(t, TimerFired(rt[t]))
    BY <1>6 DEF TimerFires
  <2>2. /\ Sound(TimerFired(rt[t]), version)
        /\ \A p : p.page = "live" /\ p.view \in Nat /\ p.view <= version
                    => ShownOk(p, TimerFired(rt[t]), version)
    BY <1>1, <2>1, TimerFiredSound
  <2>3. rt[t].live
    BY <1>1, <2>1 DEF Sound, ObjectOk
  <2> QED BY <1>4, <2>1, <2>2, <2>3
<1>7. CASE NetEventArrives(t)
  <2>1. rt[t].event # "none" /\ (rt[t].event = "online" => Unused(rt[t]) # {})
        /\ Becomes(t, NetEventHandled(rt[t]))
    BY <1>7 DEF NetEventArrives
  <2>2. /\ Sound(NetEventHandled(rt[t]), version)
        /\ \A p : ShownOk(p, rt[t], version) => ShownOk(p, NetEventHandled(rt[t]), version)
    BY <1>1, <2>1, NetEventSound
  <2> QED BY <1>3, <2>1, <2>2, BecomesConns
<1>8. CASE NetworkChanges(t)
  <2>1. PICK c : c = rt[t]
    OBVIOUS
  <2>2. PICK d : d = [c EXCEPT !.online = ~@, !.event = IF c.online THEN "offline" ELSE "online"]
    OBVIOUS
  <2>3. c.event = "none" /\ tab' = tab /\ rt' = [rt EXCEPT ![t] = d]
    BY <2>1, <2>2, <1>8 DEF NetworkChanges
  <2>4. Sound(d, version) /\ \A p : ShownOk(p, c, version) => ShownOk(p, d, version)
    BY <1>1, <2>1, <2>2, <2>3, NetworkChangeSound
  <2>5. ShownOk(tab'[t], d, version) /\ tab[t].view <= tab'[t].view
    BY <1>1, <1>2, <2>1, <2>3, <2>4
  <2>6. \A q \in Tab : q # t => tab'[q] = tab[q]
    BY <2>3
  <2> QED BY <1>3, <2>3, <2>4, <2>5, <2>6, OneConn
<1>9. CASE SendEvent(t)
  <2>1. PICK d : d = Sends(rt[t])
    OBVIOUS
  <2>2. rt' = [rt EXCEPT ![t] = d]
    BY <1>9, <2>1 DEF SendEvent
  <2>3. /\ tab'[t].page = tab[t].page /\ tab'[t].view = tab[t].view
        /\ \A q \in Tab : q # t => tab'[q] = tab[q]
    BY <1>1, <1>9 DEF SendEvent, TabField
  <2>4. Sound(d, version) /\ \A o, p : ShownOk(o, rt[t], version) /\ p.page = o.page /\ p.view = o.view
                                          => ShownOk(p, d, version)
    BY <1>1, <2>1, SendsSound
  <2>5. ShownOk(tab'[t], d, version) /\ tab[t].view <= tab'[t].view
    BY <1>1, <1>2, <2>3, <2>4
  <2> QED BY <1>3, <2>2, <2>3, <2>4, <2>5, OneConn
<1>10. ASSUME NEW s \in Sock, EventArrives(t, s) PROVE ConnInv' /\ Forward
  <2>1. PICK c : c = rt[t]
    OBVIOUS
  <2>2. PICK e : e = Head(c.socks[s].inbox)
    OBVIOUS
  <2>3. PICK d : d = Delivered(c, s)
    OBVIOUS
  <2>4. c.socks[s].inbox # <<>> /\ Sound(c, version)
    BY <1>1, <1>10, <2>1 DEF EventArrives
  <2>5. IF e.type # "close" /\ c.ws = s
        THEN /\ tab' = Shown(t, e) \/ (e.type = "SESSION_INVALID" /\ UNCHANGED tab)
             /\ rt' = [rt EXCEPT ![t] = d]
        ELSE Becomes(t, d)
    BY <1>10, <2>1, <2>2, <2>3 DEF EventArrives, Head1, Listens, Overtaken
  <2>6. CASE c.ws # s
    <3>1. Sound(d, version) /\ \A p : ShownOk(p, c, version) => ShownOk(p, d, version)
      BY <1>1, <2>3, <2>4, <2>6, StaleDelivered
    <3> QED BY <1>3, <2>1, <2>5, <2>6, <3>1, BecomesConns
  <2>7. CASE c.ws = s /\ e.type = "close"
    <3>1. Sound(d, version) /\ \A p : ShownOk(p, c, version) => ShownOk(p, d, version)
      BY <1>1, <2>2, <2>3, <2>4, <2>7, CloseDelivered
    <3> QED BY <1>3, <2>1, <2>5, <2>7, <3>1, BecomesConns
  <2>8. CASE c.ws = s /\ e.type # "close"
    <3>1. /\ Sound(d, version)
          /\ e.type = "view" => e.v \in Nat
          /\ \A o, p : /\ ShownOk(o, c, version) /\ p.page = o.page
                       /\ IF e.type = "view" THEN p.view = e.v /\ p.pending = FALSE
                          ELSE p.view = o.view
                       /\ e.type = "error" => p.pending = FALSE
                       => ShownOk(p, d, version) /\ o.view <= p.view
      BY <1>1, <2>2, <2>3, <2>4, <2>8, MessageDelivered
    <3>2. /\ tab' = Shown(t, e) \/ (e.type = "SESSION_INVALID" /\ UNCHANGED tab)
          /\ rt' = [rt EXCEPT ![t] = d]
      BY <2>5, <2>8
    <3>3. PICK o, p : o = tab[t] /\ p = tab'[t]
      OBVIOUS
    <3>4. \A q \in Tab : q # t => tab'[q] = tab[q]
      BY <1>1, <3>2 DEF Shown
    <3>5. /\ p.page = o.page
          /\ IF e.type = "view" THEN p.view = e.v /\ p.pending = FALSE ELSE p.view = o.view
          /\ e.type = "error" => p.pending = FALSE
      <4>1. CASE e.type = "view"
        BY <1>1, <3>2, <3>3, <4>1 DEF Shown, TabField
      <4>2. CASE e.type = "error"
        BY <1>1, <3>2, <3>3, <4>2 DEF Shown, TabField
      <4>3. CASE e.type = "SESSION_INVALID"
        BY <1>1, <3>2, <3>3, <4>3 DEF Shown, TabField
      <4>4. CASE e.type \notin {"view", "error", "SESSION_INVALID"}
        BY <1>1, <3>2, <3>3, <4>4 DEF Shown
      <4> QED BY <4>1, <4>2, <4>3, <4>4
    <3>6. ShownOk(o, c, version)
      BY <1>1, <2>1, <3>3
    <3>7. ShownOk(p, d, version) /\ o.view <= p.view
      BY <3>1, <3>5, <3>6
    <3> QED BY <1>3, <3>1, <3>2, <3>3, <3>4, <3>7, OneConn
  <2> QED BY <2>6, <2>7, <2>8
<1> QED BY <1>5, <1>6, <1>7, <1>8, <1>9, <1>10 DEF Hooks

\* The network moves a connection, and no page.
LEMMA ConnAlone ==
    ASSUME ConnInv, NEW t \in Tab, NEW d, rt' = [rt EXCEPT ![t] = d], UNCHANGED <<tab, version>>,
           Sound(d, version), \A p : ShownOk(p, rt[t], version) => ShownOk(p, d, version)
    PROVE  ConnInv' /\ Forward
<1>1. ShownOk(tab[t], rt[t], version)
  BY DEF ConnInv
<1>2. ShownOk(tab'[t], d, version) /\ version' = version /\ \A q \in Tab : q # t => tab'[q] = tab[q]
  BY <1>1
<1>3. tab[t].view <= tab'[t].view
  BY <1>1 DEF ShownOk
<1> QED BY <1>2, <1>3, OneConn

\* The same, of a socket that is closed.
LEMMA ClosedConns ==
    ASSUME ConnInv, NEW t \in Tab, NEW s \in Sock, NEW code \in CloseCode,
           rt[t].socks[s].conn \in {"connecting", "open", "closing"},
           rt' = [rt EXCEPT ![t] = ClosedBy(@, s, code)], UNCHANGED <<tab, version>>
    PROVE  ConnInv' /\ Forward
<1>1. version \in Nat /\ Sound(rt[t], version)
  BY DEF ConnInv
<1>2. PICK c : c = rt[t]
  OBVIOUS
<1>3. PICK d : d = ClosedBy(c, s, code)
  OBVIOUS
<1>4. Sound(d, version) /\ \A p : ShownOk(p, c, version) => ShownOk(p, d, version)
  BY <1>1, <1>2, <1>3, ClosedBySound
<1>5. rt' = [rt EXCEPT ![t] = d]
  BY <1>2, <1>3
<1> QED BY <1>2, <1>4, <1>5, ConnAlone

\* Every tab's sockets are told of the next version.
LEMMA BroadcastConns ==
    ASSUME ConnInv, UNCHANGED tab, NEW r, DOMAIN r = Tab, Broadcast(r),
           \A t \in Tab : \E f \in [Sock -> SockRecord] :
              /\ r[t] = [rt[t] EXCEPT !.socks = f]
              /\ \A s \in Sock :
                    /\ f[s].conn = rt[t].socks[s].conn /\ f[s].auth = rt[t].socks[s].auth
                    /\ f[s].inbox = rt[t].socks[s].inbox
                    /\ \/ f[s].acts = rt[t].socks[s].acts
                       \/ f[s].conn = "open" /\ f[s].auth = "done"
    PROVE  ConnInv' /\ Forward
<1>1. PICK n \in Nat : n = version
  BY DEF ConnInv
<1>2. PICK m \in Nat : m = n + 1
  OBVIOUS
<1>3. version' = m /\ DOMAIN rt' = Tab
  BY <1>1, <1>2 DEF Broadcast
<1>4. ASSUME NEW t \in Tab PROVE Sound(rt'[t], m) /\ ShownOk(tab'[t], rt'[t], m)
  <2>1. PICK c : c = rt[t] /\ Sound(c, n) /\ ShownOk(tab[t], c, n)
    BY <1>1 DEF ConnInv
  <2>2. c \in ConnRecord
    BY <2>1 DEF Sound
  <2>3. PICK f \in [Sock -> SockRecord] :
              /\ r[t] = [c EXCEPT !.socks = f]
              /\ \A s \in Sock :
                    /\ f[s].conn = c.socks[s].conn /\ f[s].auth = c.socks[s].auth
                    /\ f[s].inbox = c.socks[s].inbox
                    /\ \/ f[s].acts = c.socks[s].acts
                       \/ f[s].conn = "open" /\ f[s].auth = "done"
    BY <2>1
  <2>4. r[t].socks = f
    BY <2>2, <2>3 DEF ConnRecord
  <2>5. PICK e : e = Message("view", m)
    OBVIOUS
  <2>6. e \in EventRecord
    BY <2>5 DEF Message, EventRecord
  <2>7. PICK g : g = [s \in Sock |-> IF f[s].conn = "open" /\ f[s].auth = "done"
                                     THEN [f[s] EXCEPT !.inbox = Append(@, e)] ELSE f[s]]
    OBVIOUS
  <2>8. ASSUME NEW s \in Sock
        PROVE  /\ g[s] \in SockRecord
               /\ g[s].conn = f[s].conn /\ g[s].auth = f[s].auth
               /\ IF f[s].conn = "open" /\ f[s].auth = "done"
                  THEN g[s].inbox = Append(f[s].inbox, e)
                  ELSE g[s].inbox = f[s].inbox /\ g[s].acts = f[s].acts
    <3>1. PICK k \in SockRecord : k = f[s]
      OBVIOUS
    <3>2. PICK q : q = Append(k.inbox, e)
      OBVIOUS
    <3>3. q \in Seq(EventRecord)
      <4>1. k.inbox \in Seq(EventRecord)
        BY DEF SockRecord
      <4> QED BY <2>6, <3>2, <4>1, AppendProperties
    <3>4. CASE k.conn = "open" /\ k.auth = "done"
      <4>1. PICK l : l = [k EXCEPT !.inbox = q]
        OBVIOUS
      <4>2. l \in SockRecord /\ l.conn = k.conn /\ l.auth = k.auth /\ l.inbox = q
        BY <3>3, <4>1 DEF SockRecord
      <4>3. g[s] = l
        BY <2>7, <3>1, <3>2, <3>4, <4>1
      <4> QED BY <3>1, <3>2, <3>4, <4>2, <4>3
    <3>5. CASE ~(k.conn = "open" /\ k.auth = "done")
      <4>1. g[s] = k
        BY <2>7, <3>1, <3>5
      <4> QED BY <3>1, <3>5, <4>1
    <3> QED BY <3>4, <3>5
  <2>9. g \in [Sock -> SockRecord]
    BY <2>7, <2>8
  <2>10. rt'[t] = [c EXCEPT !.socks = g]
    <3>1. rt'[t] = Told(r[t], e)
      BY <1>3, <2>5 DEF Broadcast
    <3>2. g = [s \in Sock |-> IF s \in Registered(r[t]) THEN [r[t].socks[s] EXCEPT !.inbox = Append(@, e)]
                              ELSE r[t].socks[s]]
      BY <2>4, <2>7 DEF Registered
    <3>3. rt'[t] = [r[t] EXCEPT !.socks = g]
      BY <3>1, <3>2 DEF Told
    <3>4. [r[t] EXCEPT !.socks = g] = [c EXCEPT !.socks = g]
      BY <2>2, <2>3 DEF ConnRecord
    <3> QED BY <3>3, <3>4
  <2>11. \A s \in Sock :
              /\ g[s].conn = c.socks[s].conn /\ g[s].auth = c.socks[s].auth
              /\ \/ g[s].inbox = c.socks[s].inbox /\ g[s].acts = c.socks[s].acts
                 \/ /\ c.socks[s].conn = "open"
                    /\ g[s].inbox = Append(c.socks[s].inbox, Message("view", m))
    <3> SUFFICES ASSUME NEW s \in Sock
                 PROVE  /\ g[s].conn = c.socks[s].conn /\ g[s].auth = c.socks[s].auth
                        /\ \/ g[s].inbox = c.socks[s].inbox /\ g[s].acts = c.socks[s].acts
                           \/ /\ c.socks[s].conn = "open"
                              /\ g[s].inbox = Append(c.socks[s].inbox, Message("view", m))
      OBVIOUS
    <3>1. /\ g[s].conn = f[s].conn /\ g[s].auth = f[s].auth
          /\ IF f[s].conn = "open" /\ f[s].auth = "done"
             THEN g[s].inbox = Append(f[s].inbox, Message("view", m))
             ELSE g[s].inbox = f[s].inbox /\ g[s].acts = f[s].acts
      BY <2>5, <2>8
    <3>2. /\ f[s].conn = c.socks[s].conn /\ f[s].auth = c.socks[s].auth
          /\ f[s].inbox = c.socks[s].inbox
          /\ f[s].acts = c.socks[s].acts \/ (f[s].conn = "open" /\ f[s].auth = "done")
      BY <2>3
    <3> QED BY <3>1, <3>2
  <2>12. PICK d : d = [c EXCEPT !.socks = g]
    OBVIOUS
  <2>13. Sound(d, m) /\ \A p : ShownOk(p, c, n) => ShownOk(p, d, m)
    <3>1. m = n + 1 /\ Sound(c, n)
      BY <1>2, <2>1
    <3> QED BY <2>9, <2>11, <2>12, <3>1, BroadcastSound
  <2> QED BY <2>1, <2>10, <2>12, <2>13
<1>5. \A t \in Tab : tab[t].view \in Nat
  BY DEF ConnInv, ShownOk
<1>6. Forward
  BY <1>5 DEF Forward
<1> QED BY <1>3, <1>4, <1>6 DEF ConnInv

\* The network and the gateway.
LEMMA NetworkConns ==
    ASSUME ConnInv, NEW t \in Tab, NEW s \in Sock, Network(t, s) PROVE ConnInv' /\ Forward
<1>1. version \in Nat /\ Sound(rt[t], version) /\ DOMAIN rt = Tab
  BY DEF ConnInv
<1>2. PICK c : c = rt[t]
  OBVIOUS
<1>3. UNCHANGED tab
  BY DEF Network, SocketOpens, SocketBreaks, ClosingEnds, Authenticates, AuthTimesOut,
         GatewayCloses, GatewayHandlesEvent, onlyRt
<1>4. CASE SocketOpens(t, s)
  <2>1. PICK d : d = Opened(c, s)
    OBVIOUS
  <2>2. rt' = [rt EXCEPT ![t] = d] /\ c.socks[s].conn = "connecting" /\ version' = version
    BY <1>2, <1>4, <2>1 DEF SocketOpens, onlyRt
  <2>3. Sound(d, version) /\ \A p : ShownOk(p, c, version) => ShownOk(p, d, version)
    BY <1>1, <1>2, <2>1, <2>2, OpenedSound
  <2> QED BY <1>2, <1>3, <2>2, <2>3, ConnAlone
<1>5. CASE SocketBreaks(t, s) \/ ClosingEnds(t, s)
  <2>1. /\ rt[t].socks[s].conn \in {"connecting", "open", "closing"} /\ version' = version
        /\ \E code \in CloseCode : rt' = [rt EXCEPT ![t] = ClosedBy(@, s, code)]
    BY <1>5 DEF SocketBreaks, ClosingEnds, onlyRt, CloseCode
  <2> QED BY <1>3, <2>1, ClosedConns
<1>8. CASE AuthTimesOut(t, s) \/ GatewayCloses(t, s)
  <2>1. /\ c.socks[s].conn = "open" /\ version' = version
        /\ \/ rt' = [rt EXCEPT ![t] = Replaced(@, s)]
           \/ \E code \in CloseCode : rt' = [rt EXCEPT ![t] = Refused(@, s, "error", code)]
    BY <1>2, <1>8 DEF AuthTimesOut, GatewayCloses, CloseCode
  <2>2. PICK d : /\ d = Replaced(c, s) \/ \E code \in CloseCode : d = Refused(c, s, "error", code)
                 /\ rt' = [rt EXCEPT ![t] = d]
    BY <1>2, <2>1
  <2>3. Sound(d, version) /\ \A p : ShownOk(p, c, version) => ShownOk(p, d, version)
    BY <1>1, <1>2, <2>1, <2>2, ReplacedSound, RefusedSound
  <2> QED BY <1>2, <1>3, <2>1, <2>2, <2>3, ConnAlone
<1>6. CASE Authenticates(t, s)
  <2>1. c.socks[s].conn = "open" /\ c.socks[s].auth = "sent" /\ version' = version
    BY <1>2, <1>6 DEF Authenticates
  <2>2. ASSUME NEW a, Keeps(c, a, version), rt' = [rt EXCEPT ![t] = Replacing(a, s)]
        PROVE  ConnInv' /\ Forward
    <3>1. PICK d : d = Replacing(a, s)
      OBVIOUS
    <3>2. Sound(d, version) /\ \A p : ShownOk(p, a, version) => ShownOk(p, d, version)
      BY <1>1, <2>2, <3>1, ReplacingSound DEF Keeps
    <3>3. \A p : ShownOk(p, c, version) => ShownOk(p, d, version)
      BY <2>2, <3>2 DEF Keeps
    <3> QED BY <1>2, <1>3, <2>1, <2>2, <3>1, <3>2, <3>3, ConnAlone
  <2>3. ASSUME rt' = [rt EXCEPT ![t] =
                  Replacing([Put(@, s, <<Message("authenticated", 0), Message("view", version)>>)
                              EXCEPT !.socks[s].auth = "done"], s)]
        PROVE  ConnInv' /\ Forward
    <3>1. PICK a : a = [Put(c, s, <<Message("authenticated", 0), Message("view", version)>>)
                          EXCEPT !.socks[s].auth = "done"]
      OBVIOUS
    <3>2. Keeps(c, a, version)
      BY <1>1, <1>2, <2>1, <3>1, AuthenticatedSound
    <3>3. rt' = [rt EXCEPT ![t] = Replacing(a, s)]
      BY <1>2, <2>3, <3>1
    <3> QED BY <2>2, <3>2, <3>3
  <2>4. PICK acts \in BOOLEAN : acts = c.socks[s].acts
    BY <1>1, <1>2, SocketFacts DEF SockRecord
  <2>5. ASSUME NEW type \in {"error", "SESSION_INVALID"}, NEW auth \in {"none", "sent", "done", "refused"},
               type = "SESSION_INVALID" => auth = "refused",
               NEW a, a = [Put(c, s, <<Message(type, 0)>>) EXCEPT !.socks[s].auth = auth]
        PROVE  Keeps(c, a, version)
    <3>1. PICK r : r = c.socks[s].inbox \o <<Message(type, 0)>>
      OBVIOUS
    <3>2. Keeps(c, Said(c, s, r, auth, acts), version)
      BY <1>1, <1>2, <2>1, <2>5, <3>1, MessagePut
    <3>3. a = Said(c, s, r, auth, acts)
      <4>1. c \in ConnRecord /\ c.socks \in [Sock -> SockRecord]
        BY <1>1, <1>2 DEF Sound, ConnRecord
      <4>2. PICK k \in SockRecord : k = c.socks[s]
        BY <4>1
      <4>3. PICK l : l = [k EXCEPT !.inbox = r, !.auth = auth]
        OBVIOUS
      <4>4. l = [k EXCEPT !.inbox = r, !.auth = auth, !.acts = acts]
        BY <2>4, <4>2, <4>3 DEF SockRecord
      <4>5. a = [c EXCEPT !.socks[s] = l]
        BY <2>5, <3>1, <4>1, <4>2, <4>3 DEF Put, ConnRecord, SockRecord
      <4> QED BY <4>2, <4>4, <4>5 DEF Said
    <3> QED BY <3>2, <3>3
  <2>6. ASSUME rt' = [rt EXCEPT ![t] =
                Replacing([Put(@, s, <<Message("error", 0)>>) EXCEPT !.socks[s].auth = "done"], s)]
        PROVE  ConnInv' /\ Forward
    <3>1. PICK a : a = [Put(c, s, <<Message("error", 0)>>) EXCEPT !.socks[s].auth = "done"]
      OBVIOUS
    <3>2. Keeps(c, a, version)
      BY <2>5, <3>1
    <3>3. rt' = [rt EXCEPT ![t] = Replacing(a, s)]
      BY <1>2, <2>6, <3>1
    <3> QED BY <2>2, <3>2, <3>3
  <2>7. ASSUME rt' = [rt EXCEPT ![t] = [Put(@, s, <<Message("SESSION_INVALID", 0)>>)
                                         EXCEPT !.socks[s].auth = "refused"]]
        PROVE  ConnInv' /\ Forward
    <3>1. PICK a : a = [Put(c, s, <<Message("SESSION_INVALID", 0)>>) EXCEPT !.socks[s].auth = "refused"]
      OBVIOUS
    <3>2. Keeps(c, a, version)
      BY <2>5, <3>1
    <3>3. rt' = [rt EXCEPT ![t] = a]
      BY <1>2, <2>7, <3>1
    <3> QED BY <1>2, <1>3, <2>1, <3>2, <3>3, ConnAlone DEF Keeps
  <2> QED BY <1>6, <2>3, <2>6, <2>7 DEF Authenticates
<1>7. CASE GatewayHandlesEvent(t, s)
  <2>1. PICK k \in SockRecord : k = c.socks[s] /\ k.conn = "open" /\ k.auth # "sent"
    BY <1>1, <1>2, <1>7, SocketFacts DEF GatewayHandlesEvent
  <2>2. PICK r : r = [rt EXCEPT ![t].socks[s].acts = FALSE]
    OBVIOUS
  <2>3. c \in ConnRecord /\ c.socks \in [Sock -> SockRecord]
    BY <1>1, <1>2 DEF Sound, ConnRecord
  <2>4. CASE k.auth = "done" /\ Broadcast(r)
    <3>1. DOMAIN r = Tab
      BY <1>1, <2>2
    <3>2. ASSUME NEW q \in Tab
          PROVE  \E f \in [Sock -> SockRecord] :
              /\ r[q] = [rt[q] EXCEPT !.socks = f]
              /\ \A x \in Sock :
                    /\ f[x].conn = rt[q].socks[x].conn /\ f[x].auth = rt[q].socks[x].auth
                    /\ f[x].inbox = rt[q].socks[x].inbox
                    /\ \/ f[x].acts = rt[q].socks[x].acts
                       \/ f[x].conn = "open" /\ f[x].auth = "done"
      <4>1. CASE q # t
        <5>1. r[q] = rt[q] /\ rt[q] \in ConnRecord
          BY <1>1, <2>2, <4>1 DEF ConnInv, Sound
        <5>2. PICK f \in [Sock -> SockRecord] : f = rt[q].socks
          BY <5>1 DEF ConnRecord
        <5>3. r[q] = [rt[q] EXCEPT !.socks = f]
          BY <5>1, <5>2 DEF ConnRecord
        <5> QED BY <5>2, <5>3
      <4>2. CASE q = t
        <5>1. PICK l : l = [k EXCEPT !.acts = FALSE]
          OBVIOUS
        <5>2. /\ l \in SockRecord /\ l.conn = "open" /\ l.auth = k.auth /\ l.inbox = k.inbox
          BY <2>1, <5>1 DEF SockRecord
        <5>3. PICK f \in [Sock -> SockRecord] : f = [c.socks EXCEPT ![s] = l]
          BY <2>3, <5>2
        <5>4. r[t] = [c EXCEPT !.socks = f]
          BY <1>1, <1>2, <2>1, <2>2, <5>1, <5>3
        <5>5. f[s] = l /\ \A x \in Sock : x # s => f[x] = c.socks[x]
          BY <2>3, <5>3
        <5>6. \A x \in Sock :
                    /\ f[x].conn = c.socks[x].conn /\ f[x].auth = c.socks[x].auth
                    /\ f[x].inbox = c.socks[x].inbox
                    /\ \/ f[x].acts = c.socks[x].acts
                       \/ f[x].conn = "open" /\ f[x].auth = "done"
          BY <2>1, <2>4, <5>2, <5>5
        <5> QED
          <6>1. c = rt[q] /\ r[q] = [rt[q] EXCEPT !.socks = f]
            BY <1>2, <4>2, <5>4
          <6> QED BY <5>6, <6>1, Zenon
      <4> QED BY <4>1, <4>2
    <3> QED BY <1>3, <2>4, <3>1, <3>2, BroadcastConns
  <2>5. CASE rt' = [r EXCEPT ![t] = Put(@, s, <<Message("error", 0)>>)] /\ UNCHANGED version
    <3>1. PICK auth \in {"none", "sent", "done", "refused"} : auth = k.auth
      BY DEF SockRecord
    <3>2. PICK q : q = k.inbox \o <<Message("error", 0)>>
      OBVIOUS
    <3>5. PICK b : b = Said(c, s, q, auth, FALSE)
      OBVIOUS
    <3>3. Keeps(c, b, version)
      <4>1. c.socks[s].conn = "open" /\ auth = c.socks[s].auth
        BY <2>1, <3>1
      <4> QED BY <1>1, <1>2, <2>1, <3>2, <3>5, <4>1, MessagePut
    <3>4. rt' = [rt EXCEPT ![t] = b]
      <4>1. PICK l : l = [k EXCEPT !.acts = FALSE]
        OBVIOUS
      <4>2. PICK a : a = [c EXCEPT !.socks[s] = l]
        OBVIOUS
      <4>3. r = [rt EXCEPT ![t] = a]
        BY <1>1, <1>2, <2>1, <2>2, <4>1, <4>2
      <4>4. /\ l \in SockRecord /\ l.inbox = k.inbox
            /\ [l EXCEPT !.inbox = q] = [k EXCEPT !.inbox = q, !.auth = auth, !.acts = FALSE]
        BY <2>1, <3>1, <4>1 DEF SockRecord
      <4>5. a.socks = [c.socks EXCEPT ![s] = l] /\ a \in ConnRecord
        BY <2>3, <4>2, <4>4 DEF ConnRecord
      <4>6. Put(a, s, <<Message("error", 0)>>) = [a EXCEPT !.socks[s] = [l EXCEPT !.inbox = q]]
        BY <2>3, <3>2, <4>4, <4>5 DEF Put, ConnRecord, SockRecord
      <4>7. [a EXCEPT !.socks[s] = [l EXCEPT !.inbox = q]] = [c EXCEPT !.socks[s] = [l EXCEPT !.inbox = q]]
        <5>1. PICK x : x = [l EXCEPT !.inbox = q]
          OBVIOUS
        <5>2. [a.socks EXCEPT ![s] = x] = [c.socks EXCEPT ![s] = x]
          BY <2>3, <4>5
        <5>3. PICK f : f = [c.socks EXCEPT ![s] = x]
          OBVIOUS
        <5>4. [a EXCEPT !.socks = f] = [c EXCEPT !.socks = f]
          BY <2>3, <4>2 DEF ConnRecord
        <5> QED BY <5>1, <5>2, <5>3, <5>4
      <4>8. b = Put(a, s, <<Message("error", 0)>>)
        BY <2>1, <3>5, <4>4, <4>6, <4>7 DEF Said
      <4>9. rt' = [rt EXCEPT ![t] = Put(a, s, <<Message("error", 0)>>)]
        BY <1>1, <2>5, <4>3
      <4> QED BY <4>8, <4>9
    <3> QED BY <1>2, <1>3, <2>5, <3>3, <3>4, ConnAlone DEF Keeps
  <2> QED BY <1>2, <1>7, <2>1, <2>2, <2>4, <2>5 DEF GatewayHandlesEvent
<1> QED BY <1>4, <1>5, <1>6, <1>7, <1>8 DEF Network

\* A broadcast that is nobody's doing.
LEMMA RoomConns == ASSUME ConnInv, RoomChanges PROVE ConnInv' /\ Forward
<1>1. DOMAIN rt = Tab /\ UNCHANGED tab /\ Broadcast(rt)
  BY DEF ConnInv, RoomChanges
<1>2. ASSUME NEW t \in Tab
      PROVE  \E f \in [Sock -> SockRecord] :
              /\ rt[t] = [rt[t] EXCEPT !.socks = f]
              /\ \A s \in Sock :
                    /\ f[s].conn = rt[t].socks[s].conn /\ f[s].auth = rt[t].socks[s].auth
                    /\ f[s].inbox = rt[t].socks[s].inbox
                    /\ \/ f[s].acts = rt[t].socks[s].acts
                       \/ f[s].conn = "open" /\ f[s].auth = "done"
  <2>1. rt[t] \in ConnRecord
    BY DEF ConnInv, Sound
  <2>2. PICK f \in [Sock -> SockRecord] : f = rt[t].socks
    BY <2>1 DEF ConnRecord
  <2>3. rt[t] = [rt[t] EXCEPT !.socks = f]
    BY <2>1, <2>2 DEF ConnRecord
  <2> QED BY <2>2, <2>3
<1> QED BY <1>1, <1>2, BroadcastConns

\* There is no connection at the start.
LEMMA ConnInit == Init => ConnInv
<1> SUFFICES ASSUME Init PROVE ConnInv
  OBVIOUS
<1>1. tab = [t \in Tab |-> NewTab] /\ rt = [t \in Tab |-> Idle] /\ version = 1
  BY DEF Init
<1>2. PICK f \in [Sock -> SockRecord] : f = [s \in Sock |-> Gone]
  BY GoneFacts
<1>3. PICK d : d = Idle
  OBVIOUS
<1>4. /\ d \in ConnRecord /\ d.socks = f /\ d.online /\ d.event = "none"
      /\ ~d.live /\ d.ws = 0 /\ ~d.timer /\ ~d.stopped /\ ~d.listening /\ d.state = "idle"
  BY <1>2, <1>3 DEF Idle, ConnRecord
<1>5. NetOk(d) /\ ObjectOk(d)
  BY <1>4 DEF NetOk, ObjectOk
<1>6. \A s \in Sock : InboxOk(f[s], 1)
  BY <1>2, GoneFacts
<1>7. Sound(d, 1)
  BY <1>4, <1>5, <1>6 DEF Sound
<1>8. ShownOk(NewTab, d, 1)
  BY <1>4 DEF ShownOk, NewTab
<1> QED BY <1>1, <1>3, <1>7, <1>8 DEF ConnInv

\* Every step keeps the connections sound, and takes no view back.
LEMMA ConnStep ==
    ASSUME WebInv, WaitInv, ConnInv, [Next]_vars
    PROVE  ConnInv' /\ Forward
<1>1. ASSUME UNCHANGED <<tab, rt, version>> PROVE ConnInv' /\ Forward
  <2>1. \A t \in Tab : SameShows(t)
    BY <1>1 DEF SameShows
  <2> QED BY <1>1, <2>1, SameConns
<1>2. CASE \E t \in Tab : PageSteps(t) \/ \E name \in Name : Submit(t, name)
  BY <1>2, PageConns
<1>3. CASE (\E c \in Call : ReceiveNothing(c)) \/ (\E t \in Tab : GiveUp(t))
  BY <1>3, FailureConns
<1>4. CASE \E t \in Tab : Reload(t) \/ FollowLink(t) \/ Hooks(t)
  BY <1>4, AwayConns, HooksConns
<1>5. CASE (\E t \in Tab, s \in Sock : Network(t, s)) \/ RoomChanges
  BY <1>5, NetworkConns, RoomConns
<1>6. CASE UNCHANGED vars
  BY <1>1, <1>6 DEF vars
<1>7. ASSUME NEW t \in HostTab, HostPage(t) \/ OpenTv(t) PROVE t \in Tab /\ PageSteps(t)
  BY <1>7, WebClientAssumption DEF HostPage, PageSteps
<1>8. ASSUME NEW t \in PlayerTab, GuestPage(t)
      PROVE  t \in Tab /\ (PageSteps(t) \/ \E name \in Name : Submit(t, name))
  BY <1>8, WebClientAssumption DEF GuestPage, PageSteps
<1> QED BY <1>1, <1>2, <1>3, <1>4, <1>5, <1>6, <1>7, <1>8 DEF Next

\* Every object that has not stopped has a socket, a timer or a network event to come
\* (realtime-socket.ts); who is connected and waits has what it waits for on its way; a
\* page that waits for an answer has a call in flight (lib/api/client.ts).
THEOREM NobodyIsForgotten == Spec => []NobodyWaitsForNothing
<1>1. WaitInv /\ ConnInv => NobodyWaitsForNothing
  <2> SUFFICES ASSUME WaitInv, ConnInv, NEW t \in Tab
               PROVE  LET c == rt[t]
                      IN  /\ c.live /\ ~c.stopped => c.ws # 0 \/ c.timer \/ ~c.online \/ c.event = "online"
                          /\ tab[t].pending /\ c.state = "connected" =>
                               c.ws # 0 /\ (c.socks[c.ws].acts \/ c.socks[c.ws].inbox # <<>>)
                          /\ tab[t].waiting # 0 => calls[tab[t].waiting].tab = t
                          /\ tab[t].page \in (DOMAIN AfterFailure) \ {"login"} => tab[t].waiting # 0
    BY DEF NobodyWaitsForNothing
  <2>1. WaitOk(t, tab[t]) /\ ObjectOk(rt[t]) /\ ShownOk(tab[t], rt[t], version)
    BY DEF WaitInv, ConnInv, Sound
  <2>2. rt[t].live /\ ~rt[t].stopped => rt[t].ws # 0 \/ rt[t].timer \/ ~rt[t].online \/ rt[t].event = "online"
    BY <2>1 DEF ObjectOk
  <2>3. tab[t].pending /\ rt[t].state = "connected" =>
          rt[t].ws # 0 /\ (rt[t].socks[rt[t].ws].acts \/ rt[t].socks[rt[t].ws].inbox # <<>>)
    BY <2>1 DEF ObjectOk, ShownOk
  <2>4. /\ tab[t].waiting # 0 => calls[tab[t].waiting].tab = t
        /\ tab[t].page \in (DOMAIN AfterFailure) \ {"login"} => tab[t].waiting # 0
    BY <2>1, AskingPages DEF WaitOk, Waiting
  <2> QED BY <2>2, <2>3, <2>4
<1>2. Init => WaitInv /\ ConnInv
  BY WaitInit, ConnInit
<1>3. WebInv /\ WaitInv /\ ConnInv /\ [Next]_vars => (WaitInv /\ ConnInv)'
  BY WaitStep, ConnStep
<1> QED BY <1>1, <1>2, <1>3, WebInvariant, PTL DEF Spec

\* What a tab shows is never older than what it showed, whatever sockets it opened and
\* gave up on the way (the listeners' check of this.ws in realtime-socket.ts).
THEOREM ViewsOnlyAdvance == Spec => ViewsNeverGoBack
<1>1. Init => WaitInv /\ ConnInv
  BY WaitInit, ConnInit
<1>2. WebInv /\ WaitInv /\ ConnInv /\ [Next]_vars => (WaitInv /\ ConnInv)'
  BY WaitStep, ConnStep
<1>3. WebInv /\ WaitInv /\ ConnInv /\ [Next]_vars =>
          [\A t \in Tab : tab'[t].view = 0 \/ tab'[t].view >= tab[t].view]_vars
  BY ConnStep DEF Forward
<1> QED BY <1>1, <1>2, <1>3, WebInvariant, PTL DEF Spec, ViewsNeverGoBack
=============================================================================
