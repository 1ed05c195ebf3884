--------------------------- MODULE RealtimeSocket ---------------------------
(***************************************************************************)
(* The browser's connection class (web lib/realtime/realtime-socket.ts):   *)
(* every method is an operator from the state of the object, a record, to  *)
(* its next state.  The record also holds what the browser owns: its       *)
(* WebSockets with the events not yet delivered, and whether it is online. *)
(* Of the class's use, `live` says that a hook holds the object: no method *)
(* runs after close().                                                     *)
(***************************************************************************)
EXTENDS Naturals, Sequences, FiniteSets

CONSTANTS
    Sock,                   \* the WebSockets a tab may have at a time, 0 being none
    MaxConsecutiveFailures

ASSUME SocketAssumption == 0 \notin Sock

\* No WebSocket, or one that is closed and forgotten.
Gone == [conn |-> "gone", auth |-> "none", acts |-> FALSE, inbox |-> <<>>]

\* A new object.
Idle == [live |-> FALSE, ws |-> 0, attempt |-> 0, timer |-> FALSE, stopped |-> FALSE,
         listening |-> FALSE, state |-> "idle", online |-> TRUE, event |-> "none",
         socks |-> [s \in Sock |-> Gone]]

Unused(c) == {s \in Sock : c.socks[s] = Gone}

\* openSocket: the socket before it, if there is one, is left to itself.
OpenSocket(c) ==
    LET s == CHOOSE s \in Unused(c) : TRUE
    IN  [c EXCEPT !.state = IF c.attempt = 0 THEN "connecting" ELSE "reconnecting",
                  !.ws = s,
                  !.socks[s] = [Gone EXCEPT !.conn = "connecting"]]

Connect(c) == OpenSocket([c EXCEPT !.live = TRUE, !.listening = TRUE])

Retry(c) ==
    OpenSocket([c EXCEPT !.stopped = FALSE, !.attempt = 0, !.timer = FALSE, !.listening = TRUE])

\* socket.close(): the close event comes when the peer has answered.
CloseSocket(socks, s) ==
    [socks EXCEPT ![s].conn = IF @ \in {"connecting", "open"} THEN "closing" ELSE @]

\* close(), after which the object is dropped.  Its sockets' events find that
\* they are not the object's socket.
Close(c) ==
    [Idle EXCEPT !.online = c.online, !.event = c.event,
                 !.socks = IF c.ws = 0 THEN c.socks ELSE CloseSocket(c.socks, c.ws)]

Stop(c, state) == [c EXCEPT !.stopped = TRUE, !.timer = FALSE, !.state = state]

ScheduleReconnect(c) ==
    CASE c.stopped -> c
      [] ~c.stopped /\ ~c.online -> [c EXCEPT !.timer = FALSE, !.state = "disconnected"]
      [] ~c.stopped /\ c.online /\ c.attempt >= MaxConsecutiveFailures -> Stop(c, "failed")
      [] OTHER -> [c EXCEPT !.state = "reconnecting", !.attempt = @ + 1, !.timer = TRUE]

\* The codes the gateway closes with, and any other ("lost").
CloseCode == {"replaced", "auth timeout", "violations", "room unavailable", "lost"}

HandleClose(c, code) ==
    CASE code = "replaced" -> Stop(c, "disconnected")
      [] code = "auth timeout" -> Stop(c, "unauthorized")
      [] code \in {"violations", "room unavailable"} -> Stop(c, "failed")
      [] OTHER -> ScheduleReconnect(c)

\* handleMessage, for the object's own part of it.
HandleMessage(c, type) ==
    CASE type = "authenticated" -> [c EXCEPT !.attempt = 0, !.state = "connected"]
      [] type = "SESSION_INVALID" ->
            [Stop(c, "unauthorized") EXCEPT !.listening = FALSE, !.socks = CloseSocket(@, c.ws)]
      [] OTHER -> c

\* For the mutants: an object without a timer is taken for one that has stopped.
HandleOnlineWaitingOnly(c) ==
    IF c.stopped \/ c.ws # 0 \/ ~c.timer THEN c
    ELSE OpenSocket([c EXCEPT !.attempt = 0, !.timer = FALSE])

HandleOnline(c) ==
    IF c.stopped \/ c.ws # 0 THEN c
    ELSE OpenSocket([c EXCEPT !.attempt = 0, !.timer = FALSE])

HandleOffline(c) == [c EXCEPT !.timer = FALSE, !.state = "disconnected"]

\* For the mutants: a listener never asks.
ListensAlways(c, s) == c.live

\* The listener on a socket asks whether it is still the object's socket.
Listens(c, s) == c.ws = s

\* The open event: 'authenticating', and the first message is on its way.
Opened(c, s) ==
    IF Listens(c, s)
    THEN [c EXCEPT !.state = "authenticating",
                   !.socks[s] = [@ EXCEPT !.conn = "open", !.auth = "sent"]]
    ELSE [c EXCEPT !.socks[s].conn = "open"]

\* The next event of socket s, and the object after it.
Head1(c, s) == Head(c.socks[s].inbox)
Taken(c, s) ==
    IF Head1(c, s).type = "close" THEN [c EXCEPT !.socks[s] = Gone]
    ELSE [c EXCEPT !.socks[s].inbox = Tail(@)]

Delivered(c, s) ==
    LET d == Taken(c, s)
        e == Head1(c, s)
    IN  CASE ~Listens(c, s) -> d
          [] Listens(c, s) /\ e.type = "close" -> HandleClose([d EXCEPT !.ws = 0], e.code)
          [] OTHER -> HandleMessage(d, e.type)

\* The 'online' and 'offline' events reach a listening object only.
NetEventHandled(c) ==
    LET d == [c EXCEPT !.event = "none"]
    IN  CASE ~c.listening -> d
          [] c.listening /\ c.event = "online" -> HandleOnline(d)
          [] OTHER -> HandleOffline(d)

TimerFired(c) == OpenSocket([c EXCEPT !.timer = FALSE])
=============================================================================
