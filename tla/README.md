# A TLA+ model of the Jackom game server

Jackom is a party game played on phones around a shared screen: a Node server
(`src/apps/server`) holds one room per game, a Next.js client (`src/apps/web`)
shows it. The game is social deduction: secret Hackers among the Crew, rounds of
minigames chosen by a rotating Admin, hacks before each round, one special game
(the bomb), accusations by button and vote, and a match clock that wins the match
for the Hackers when it runs out.

This directory models the server and the parts of the client that call it. Every
definition is translated from the source (`PROJECT.json`, "map", gives the lines); documents
such as `ARCHITECTURE.md` and `GAMEPLAY_RULES_V1.md` are only used for what the code
is supposed to guarantee.

## The system

| Part (under `src/apps/server/src`) | State | Operations | Talks to |
|---|---|---|---|
| Room state machine, `fsm/transitions.ts` | public room record and private roles: phase, submissions, roster, Admin queue, round, special game, firewall, clock, accusation, winner | `handleEvent(room, priv, event, sender)`: a pure function, accepted or rejected | minigame modules, rule registries, selectors |
| Match clock, `fsm/match-clock.ts` | status, deadline, remaining time, penalty, epoch | init, start, pause, resume, penalty, stop | called by the state machine |
| Roster, `fsm/room-lifecycle.ts` | players, names, session tokens | create room, join, leave, kick, set profile | same room record, outside `handleEvent` |
| Minigames, `minigames/*` | module state inside the round | initialize, validate and apply an action, timeout, force complete, score | called by the state machine |
| Room actor and manager, `actors/*` | in-memory room, promise queue, busy flag, map of actors | dispatch, lifecycle operation, load, persist, evict, evict idle | repositories, timer hooks |
| Timer services, `timers/*` | one scheduled timer per room for the phase and one for the match clock | sync after each mutation, recover a room, handle an expiry | actor (snapshot, then dispatch) |
| Repositories, `persistence/*` | two keys per room (public, private), room code, sessions, all with a TTL | save, load, delete, refresh | Redis or memory |
| Gateway, `gateway/*` | sockets with their authentication, connection registry, rate limits | connect, join, reconnect, leave, event, close, broadcast | manager, sessions, views |
| HTTP API, `http/*` | idempotency cache | create, join, room info, accounts | manager, sessions, database |
| Views, `views/*` | none | projections for screen, player and private player | room record |
| Accounts and ownership, `db/*` | PostgreSQL rows | login, ownership checks | HTTP API |
| Web client, `src/apps/web` | pages, stored session, `RealtimeSocket` with its sockets and timers | log in, make a room, join, connect, reconnect with backoff, send, render views | gateway, HTTP API |

How they interact: every event of a client or a timer is queued on the room's
actor, which loads the room if it must, calls the state machine, persists an
accepted result, replaces its copy and tells the timer services through hooks.
The gateway then broadcasts one view per socket. There is one process and one
queue per room; concurrency is between awaits.

### What is hard, and what makes each part right

* **State machine.** Events that are legal in any state (clock expiry, disconnect,
  close, restart, the button) cut across phases; records and clock are kept in step
  by hand in each handler. Right when the records exist exactly in their phases,
  the clock runs exactly during investigation, hacks and votes are counted once, a
  verdict is final, and every match ends.
* **Actor and persistence.** Two writes per save, a crash between them, a failed
  write, an eviction while tasks are queued. Right when a loaded room is one that
  was accepted, and no accepted event is lost while the process lives.
* **Timers.** Late, stale and lost expiries; recovery after a restart. Right when
  a deadline the room holds is always met and never met twice.
* **Gateway and HTTP.** Checks before an await and updates after it, replaced
  sockets, retries. Right when a player is connected exactly if a socket of theirs
  is registered, every socket shows the room as it is, one request joins one player,
  and only an owner hosts. (Of the first three there are exceptions, in the code and in
  the properties, which name them: see below.)
* **Minigames.** Late and repeated submissions, timeouts of internal steps. Right
  when each participant's submission counts once, nobody's turn is skipped, no
  answer shows early, and the game always completes.
* **Views.** Three builders decide separately what to show of a room whose secrets
  they all hold. Right when no view depends on a secret that is not its reader's, and
  what a view offers is what the handlers accept.
* **Web client.** Sockets that were given up still deliver, timers and browser events
  interleave. Right when no page waits for nothing and no view goes back in time.

The hazards are listed with their lines in `PROJECT.json`; the few without a property
carry a note that says why.

## Modules

The match:

| Module | Models | Extends |
|---|---|---|
| `MatchClock` | the clock's pure functions | |
| `RoomFsm` | one accepted event = one step; roster operations included; safety properties | `MatchClock` |
| `RoomFsmHistory` | history variables: Admin turns served, whether the turn had its round, time investigated | `RoomFsm` |
| `MatchLifecycle` | abstract specification: the stages of a match, its clock status and its verdict | |
| `Roster` | abstract specification: who is in a room and who of them is there; implemented by `RoomFsm` and by `Gateway` | |
| `RoomFsmLive` | fairness, liveness, refinement of `MatchLifecycle` and of `Roster` | `RoomFsm` |
| `Views` | TV view, player view and private payload as functions of the room and its secrets | `RoomFsm` |
| `Screens` | what the phones and the television let their users send, as functions of the views | `Views` |
| `MinigameModule` | prompt assignment and the bookkeeping of games with one answer per participant | |
| `RankIt`, `CompleteIt`, `DrawIt`, `PredictThem`, `DescribeIt`, `DefendIt`, `BombProtocol` | one game each: start, validation, action, timeout, completion, result, views | `MinigameModule` |
| `RoundStart` | where the room calls `start()` of a game: its conditions against what the room has settled | `RoomFsm`, the games (`INSTANCE`) |
| `MinigamePlay` | a game from its instructions to its result, over messages that are lost, late and repeated | the games |
| `GameScreens` | what a phone lets its player send during a game, as a function of the game's view | `MinigamePlay` |

The server around it:

| Module | Models | Extends |
|---|---|---|
| `KeyValueStore` | GET, SET, DEL, EXPIRE and the time to live | |
| `RoomService` | process start and end, actors, manager, save and load, timer services, over one room | `KeyValueStore` |
| `RoomServiceHistory` | history variable: which deadline each change of the room answers | `RoomService` |
| `Gateway` | sockets, registry and broadcasts of one room; handlers cut at their awaits; refinement of `Roster` | |
| `Accounts` | accounts, login sessions, ownership | |
| `HttpApi` | the route handlers cut at their awaits, the idempotency cache, the seats of a room | `Accounts` |

The client:

| Module | Models | Extends |
|---|---|---|
| `RealtimeSocket` | the methods of the connection class, as functions of its state | |
| `WebClient` | pages, hooks, session storage and HTTP client; what the browser sees of the gateway | `HttpApi`, `RealtimeSocket` |

Proofs are in `RoomFsmProofs`, `RoomFsmLifecycleProofs`, `RoomFsmHistoryProofs`,
`ViewsProofs`, `MinigamePlayProofs`, `RoomServiceProofs`, `GatewayProofs` and
`WebClientProofs`. The `MC...` modules give constants, symmetry and constraints to TLC.

### How the model corresponds to the code

* A variable of `RoomFsm` is a field of the room or of its private half (the comment
  beside each says which). `ROOM_CREATED` and `ROLE_ASSIGNMENT` are passed through
  within one event and are not states of the model.
* An action is a handler branch with everything it calls: `setPhase` (clears the
  submissions), the automatic transitions (`autoAdvance`), the next Admin, the clock.
  Host skip and phase timer share an action where the code treats them alike. A
  rejected event changes nothing and is no step.
* `phaseId` and `clockId` only serve to reject stale events. They are left out, so
  the model's events are those the guards accept; the guards themselves are in
  `RoomService` (`ExpireOn`) and, for players' actions, in `MinigamePlay` (`Accept`).
* The shuffled Admin queue is kept as the set of players still to serve, its head
  being any of them; a shuffled choice of Hackers or participants is any subset of
  the right size. Randomness is nondeterminism.
* Time is relative: `clock.left` and `cooldown` are distances to the deadlines the
  room holds, and `Tick` shortens them. The match clock can only expire at 0
  (`timers/real-timer-scheduler.ts` never fires early).
* In `RoomFsm` a minigame in progress may complete at any time, and the special game
  with either outcome; nothing else about a game is visible to the room. What happens
  inside is `MinigamePlay`, whose `Init` is the state in which `RoomFsm` starts a round.
* Player ids are minted by the code and drawn from a finite set by the model, so
  `LeavePlayer` also drops what the code keeps under a dead id. `kickPlayer` has the
  effect of `LeavePlayer` in `LOBBY` only and adds no behaviour. Nobody is ever
  eliminated (no handler clears `alive`), so the eligible pools are the roster.

**Actor, store and timers** (`RoomService`). A task in an actor's queue is one
`dispatch`, load or timer check; each `await` on the store ends a step, and a step may
fail or be the last of the process. An accepted event is a numbered change, a half of
the room is the set of changes in it, and of its content only the two deadlines are
kept. A deadline's `clockId` or `phaseId` is the number of the change that set it, so
that a stale timer is one with another number. Time to live counts in ticks; with
`Ttl = 2` a half may expire while the other, refreshed later, is still there.

**Gateway.** `sock` is the sockets map with `SocketMeta`; `host` and `players` are the
registry. A handler runs to its first await; the operation it waits for is in `queue`
(the actor) or `pending` (the session repository), and its rest is the step that takes
it out again. The actor does one thing at a time, in order; the repository answers in
any order. `Heartbeat` is the close of a peer that vanished. A repository failure in a
lifecycle handler is caught by nobody, and Node ends the process (`RepositoryFails`).

**Games.** A game's state is the module's `TState` with texts, drawings and prompts
reduced to what their checks and results tell apart. `wire` holds messages under way:
an action may arrive several times, after others, after its phase, or not at all.

**HTTP and client.** A call in `calls` is one `fetch` with the stage its handler has
reached. Request ids are `<<tab, mount>>`, one for each time the join form opens. A
tab's browser sockets, with the events not yet delivered, are part of its
`RealtimeSocket` record; the network breaks, closes late and goes offline. The server
answers a socket's first message by what `Gateway` lets it do (`Authenticates`,
`AuthTimesOut`, `GatewayCloses`), and broadcasts to the registered sockets. Before it
closes a socket it says why (`Refused`); a socket that another one has replaced is told
`SESSION_INVALID` (`Replaced`), on which the object stops and its page forgets the
stored session, unless the close arrives before the page has been drawn (`Overtaken`).
An account is stored and its first login is stored two awaits later (`HandleRegister`,
`StartSession`): in between the process may fail and leave an account without a login.

**Screens.** A screen is the set of events its controls can send. Everything that can be
typed, ordered, picked or drawn counts, in no time; how it looks on the way does not.

## Runs

| Run | Question | Size |
|---|---|---|
| `room_safety` | Are records, clock, hack budget, firewall, vote and verdict consistent under every order of events? | about 1.1 million states |
| `room_history` | Is the rotation fair, is every Admin turn played, does the clock account for exactly the investigation time, and can every game that is come to be started? | about 840 thousand states |
| `room_live` | Does the room implement the lifecycle; does every match end; do its views keep its secrets and its screens offer what is accepted? | about 250 thousand states |
| `minigames` | Is each action applied once, is each turn taken, are answers hidden until the reveal, do the screens offer what is accepted, do a game's timers run out, does it end? | about 330 thousand states |
| `room_service` | Does a half that is in the store have all that was acknowledged, and is each deadline handled, and only once, through failures, crash, restart and eviction? | about 430 thousand states |
| `gateway` | Do registry, roster and what each socket was sent agree once all is quiet; does the roster change as a roster does? | about 1.3 million states |
| `web` | Do retries share a seat, do seats and hosts stay rightful, does nobody wait for nothing? | about 1.7 million states |
| `abandoned`, `accusation_return`, `autoselect`, `service_eviction`, `gateway_roles` | Five statements of comments and documents the code does not keep (see below) | seconds |

**Bounds of the room.** Two or three players: with three, majorities, ties, partial
votes, collisions between two Hackers (`MinHackers = 2` in `room_safety`) and audiences
all occur. Two minigames, one with an audience and one without, with limits 2..3 so
that too few, too many and exactly the roster can be selected. A clock of 2 or 3 ticks
and a penalty of 1: the penalty can leave time or leave none, and the clock can
expire in every investigation phase. `RoundsPerCycle` is 1 or 2, so that the special
game is due at once or only after rounds without it. Matches are unbounded:
`HostStartRematch` and `HostRestartMatch` begin another one, and the state space is
finite because each counter is. Named bounds: `RoundCap` (`roundInCycle` is only
compared with `RoundsPerCycle`, so it stops one above), and the history variable
`investigated`, which stops at `ClockTotal`, above which the clock is 0 anyway. The
views and screens are checked at two players and one Hacker, where a view of the other
player's role could already differ, with one game that has an audience;
`SecretsStaySecret` and `ScreensOfferWhatIsAccepted` are proved for all sizes.

`room_history` has rooms of three and three games: one with an audience, one that needs
three participants and one that needs an asker for each, with limits above, at and below
the size of the room, as the arithmetic of the selection timeout only goes wrong where
the pool is as large as a limit or the game wants an audience.

**Bounds of the games.** Two or three participants, one of them a Hacker and one
hacked, so that both flips of a prompt occur; three messages (four in Bomb Protocol:
two right answers and both strikes), two of them under way at a time, and one
remembered actionId where the code keeps 20: a repeat is soon older than what is
remembered, which is the case `AppliedOnce` is about.

**Bounds of the service.** Two changes by clients that set deadlines, and as many
more as those deadlines may cause; one failing store call, one crash, two actor
objects (one more than the manager should ever have), two waiting events. One failure
is enough for each partial save, and leaves the rest of the run to show what comes of
it. After the last change nothing sets a deadline, so that every timer has an event.

**Bounds of the gateway.** Two connections, whose names are used again once they are
forgotten, two players and the host, two handlers waiting at a time. That gives a
replaced socket, two joins on one socket, a close during an await, and a leave beside a
reconnect. After a failed store call nothing new begins: what is under way ends.
`gateway_roles` has one player and two matches.

**Bounds of the client.** One host tab, one player tab, one of them in use at a time
(`MaxOpen`): they meet in what the server keeps. Two accounts, one of which may own the
game while the other asks for a room, and one login. Two calls, two sockets in a tab (the one given up and
its successor), two names, two openings of the form, two troubles (failures, losses,
expiries, reloads, breaks) and one consecutive failure before the socket gives up.

**Reductions.** Players are symmetric in the safety runs; liveness runs use no
symmetry. `AllBackAfterReveal` stops exploration past `ROLE_REVEAL` where somebody is
away. The connection status is read by one handler only, the acknowledgement in
`ROLE_REVEAL`, where all statuses are explored; elsewhere a player may reconnect at
any moment and no other variable depends on it, so a state with somebody away has
the same continuations as the one without. The liveness run does without the
constraint.

In `gateway` sockets and players are symmetric, in `web` the names and the accounts.

**Deadlock.** `room_service` checks it. It is off elsewhere: a closed room whose clock
is stopped and whose players have left, a game that has its result, and pages and
sockets that have used up their bounds really stop.

### Properties

* `RecordsFollowPhase`, `ClockFollowsPhase`: a round, special game or accusation
  exists exactly in its phases, and the clock's status and the winner agree with the
  phase. They speak of open rooms; closing leaves everything where it was.
* `HackAccounting`: as many targets hacked as Hackers acted, each action paid for.
* `FirewallIsEarned`, `FirewallBlocksOneRound`: a firewall comes from this match's
  special game and is spent on exactly one round without hacks.
* `OpenVoteIsUndecided`: an open vote has the right number of suspects and the whole
  roster as electorate, and somebody still has to vote.
* `VerdictIsEarned`, `VerdictStands`: how a match may be won, and that nothing later
  overrides it.
* `AdminRotationFair`, `EveryTurnPlaysARound`, `ClockAccountsForTime`: over the whole
  match, with history variables.
* `GamesCanStart`: who takes part in a round is settled two phases before `start()` of its
  game is called on them, inside a timer's event. If it threw, the event would be spent and
  the match stand still; it never does, whoever chose, for the games of the registry.
* `ImplementsLifecycle`, `MatchEnds`: refinement and liveness.
* `ImplementsRoster`, of the gateway, and proved of the room as well: players join and leave in a lobby
  only, and only members come and go. In the gateway that has to hold whatever waits in
  the actor's queue: a close or a reconnect that arrives behind the leave of its player.
* `SecretsStaySecret`: with any other roles, hacks and votes the room might have, every
  view would be the same, those of the reader's own secrets excepted. That is stronger
  than a look at the fields: a hidden dependence shows as well.
* `ScreensOfferWhatIsAccepted`: handlers, views and screens repeat each other's rules,
  and agree in every state: what a screen offers passes the guards of its handler
  (`MaySelect`, `MayHack`, `MayAccuse`, `MayVote`, `MayPushButton`, `MayStartMatch`), and
  what passes them can be sent from a screen. Some offers are in vain, and `OfferedInVain` names
  them: a target another Hacker took, which a view must not tell; the button during its
  cooldown, which the view carries apart and no screen looks at; a game with an audience
  and nobody left to be one; and, where `adminMaySelectSelf` is off (the code leaves it
  on), the Admin's own name. Acknowledging a role and wishing for a rematch have no
  control at all, so that `ROLE_REVEAL` ends by its timer.
* `GameScreensOfferWhatIsAccepted`: the same for the screens and checks of the games.
  The canvas of Draw It limits strokes and the points of each, but not the points of
  all strokes together, which the game does. It speaks of play and of the results:
  during `MINIGAME_INSTRUCTIONS` the screens of the answer games already show their
  controls, whose actions are refused. In `SPECIAL_GAME_RESULT` the bomb's board stays
  live when time or the host ended it, because its status stays `ACTIVE`.
* `AppliedOnce`, `TurnsAreTaken`, `TimersRunOut`, `PlayEnds`: play inside a game. A game has
  a number of steps left (`StepsLeft`), each timer that is started costs one of them, and
  nothing gives one back: late actions and timeouts cannot prolong it. `AnswersAreHidden`
  and `PromptsStayPrivate` are of the same form as `SecretsStaySecret`, about answers
  before the reveal and about prompt variants, which betray a hack, at any time. The
  answers are those given in an earlier step as well: in Predict Them the audience's
  votes stay hidden while the others predict them.
* `AcknowledgedIsStored`, `HalvesDriftByCrashesOnly`: what a failure or a crash may
  leave in the store. The first speaks of a half that is there: after a failed save of
  the private half the public one is deleted (`room-actor.ts:217`), and what was
  acknowledged is then in memory and in one half only, until the next save. The drift
  is allowed (loading accepts halves of different versions), and bounded: one change
  for each crash between the two writes.
* `DeadlinesAreWatched`, `PassedDeadlineIsHandled`: no deadline without somebody to see
  to it, and every passed deadline is taken up. `DeadlineActsOnce`: it moves the room on
  once, however often its expiry is scheduled, found by a recovery or tried again after a failure. Of the private half that is
  said while no store call fails, as it may hold a change whose public half was taken back.
  `DeadlinesAreWatched` and `PassedDeadlineIsHandled` speak of rooms in memory and of
  runs without failing store calls: a failed dispatch of an expiry is logged and not repeated, and a room swept
  out of memory waits for the next touch.
* `SocketsOwnTheirSlot`, `DisconnectIsNeverLast`, `ConnectedIsWatched`,
  `ViewsAreCurrent`, `RoleIsTold`: registry, queue, roster and what was sent.
  `ConnectedIsWatched` and `RoleIsTold` leave out the players in `late`, which collects
  the cases where the code does lose track: joined over HTTP and never connected, a
  socket that closed while its join was awaited, a socket that joins or reconnects as
  one player while it is, or is still waiting to be, another, and players connected when
  the process died. They say that there are no other cases; that these are lost stays so.
  `ViewsAreCurrent` has one exception: `handleJoinRoom` (`http-api-server.ts:318-348`)
  changes the roster and broadcasts nothing, so that every socket goes on without the new
  player (`unseen`) until something else makes the gateway broadcast. The property lets
  that be until the player who joined has a socket, and no longer: the answer to that
  socket's first message is a broadcast.
* `RetriesShareOneSeat`: except for request ids in `raced`: the cache is read before
  the join and filled after it, so two overlapping requests of one id take two seats,
  as does a retry after an expired entry or a half-failed first. The comment in
  `join-room-form.tsx` (43-45) promises one seat for every retry; of a retry that
  overtakes its first request the property says nothing.
* `GivenSeatsAuthenticate`, `HostsOwnTheGame`: what the handlers found out before an
  await holds when they act on it. Of the two accounts in the run either may own the
  game, and one of them may be logged in; that another login's cookie arrives between two
  awaits is beyond the run, and within the theorem.
* `NobodyWaitsForNothing`, `ViewsNeverGoBack`: the connection class and its users. The
  games page whose ownership query fails does wait for nothing: it catches no error
  (`games/page.tsx:41-43`) and stays as it is. That page is `stuck` in the model and not
  among those the property speaks of.

Four more are proved and run no more, since a theorem says of every size what the run
would say of one: the types of the service and of the games (`TypeOK`);
`SelectionHasAnAdmin`, that whenever a game is to be chosen somebody in the room is
Admin, though the ways into the selection draw, keep or clear the Admin each in its own
code; and `ExpiriesAreDue`, that no expiry is queued for a deadline that has not passed.

**Fairness.** In `RoomFsmLive`, weak fairness of time and of the expiry events of the
phases in which the match clock does not run, and of the match clock's own expiry:
nothing of any player or host. In `MinigamePlay`, of the phase timer's event alone. A
match therefore ends even if nobody answers and the button is pressed over and over.
`RoomService` shows where that comes from and where it ends: there only the event loop
is fair (an actor with work goes on, a timeout that is due fires), and a passed
deadline is handled unless a store call fails.

### Where the code and its documents differ

* `abandoned`: `ARCHITECTURE.md` makes `ABANDONED` terminal, but closing a room leaves
  its match clock running, and the expiry is accepted in any state: the closed room
  goes to `FINAL_RESULTS`. `MatchLifecycle` states what really happens
  (`ExpireClosed`).
* `accusation_return`: the comment on `returnToGameplayAfterAccusation` says that play
  goes on as if `DISCUSSION` had ended; the code goes straight to the next selection
  and skips a special game that is due. It is played after a later `DISCUSSION` that
  nobody interrupts, or never.
* `autoselect`: the selection timeout can start Predict Them with one predictor where
  rules require two, when the pool is as small as the limit.
* `service_eviction`: an actor is never evicted in the middle of a dispatch, says the
  comment on `evict`; but `busy` is one flag for all queued tasks and falls when the
  first of two settles. If that one failed, the idle sweep takes the actor away from
  the second, and the next touch makes another actor for the same room.
* `gateway_roles`: `ARCHITECTURE.md` has the role sent at each `ROLE_REVEAL`; it is
  sent once per socket, so that a player who stays connected is not told the role of
  the rematch.

## Proofs

All for every value of the constants, from the `ASSUME`s of the modules only. They say
what the source has fixed or what makes the constants fit together:
`ConstantsAssumption` (a finite set of players, consistent ranges, a positive clock and
cycle), `StoreAssumption` and `ServiceAssumption` (a time to live, some actor, bounds
that are numbers), `GatewayAssumption` (`NoSocket` and `NoPlayer` are nobody),
`StartAssumption` (the games of the registry, limits within the table of
`participant-limits.ts`, rooms of three players at least; the default config has four),
`MinigamesAssumption` and `GameScreensAssumption` (finitely many players and cards, at
least one strike, and data of the form the games' payloads have), `AccountsAssumption`,
`SocketAssumption` and `WebClientAssumption` (`NoUser` is nobody, 0 is no socket and no
call, a tab is of one kind). Bounds such as `MaxFaults` or `MaxInFlight` are constants
too: what is proved holds for each of them.

| Theorem | Statement | Module |
|---|---|---|
| `TypeCorrect` | `Spec => []TypeOK` | `RoomFsm` |
| `RecordsCorrect` | `Spec => []RecordsFollowPhase` | |
| `ClockCorrect` | `Spec => []ClockFollowsPhase` | |
| `FirewallCorrect` | `Spec => []FirewallIsEarned` | |
| `VerdictIsFinal` | `Spec => VerdictStands` | |
| `FirewallIsSpentOnce` | `Spec => FirewallBlocksOneRound` | |
| `VerdictHasAReason` | `Spec => VerdictIsEarned` | |
| `HacksAreAccounted` | `Spec => []HackAccounting` | |
| `VotesAreDecided` | `Spec => []OpenVoteIsUndecided` | |
| `TurnsHaveOwners` | `Spec => []SelectionHasAnAdmin` | |
| `LifecycleImplemented` | `Spec => ImplementsLifecycle` | |
| `RosterImplemented` | `Spec => ImplementsRoster` | |
| `GamesStart` | `Spec => []GamesCanStart` | `RoundStart` |
| `TimeIsAccounted` | `HSpec => []ClockAccountsForTime` | `RoomFsmHistory` |
| `RotationIsFair` | `HSpec => AdminRotationFair` | |
| `TurnsPlayRounds` | `HSpec => EveryTurnPlaysARound` | |
| `SecretsKept` | `Spec => []SecretsStaySecret` | `Views` |
| `ScreensAgree` | `Spec => []ScreensOfferWhatIsAccepted` | `Screens` |
| `GamesTypeCorrect` | `Spec => []TypeOK` | `MinigamePlay` |
| `ActionsAppliedOnce` | `Spec => []AppliedOnce` | |
| `TurnsCorrect` | `Spec => []TurnsAreTaken` | |
| `TimersAreCounted` | `Spec => TimersRunOut` | |
| `AnswersKept` | `Spec => []AnswersAreHidden` | |
| `PromptsKept` | `Spec => []PromptsStayPrivate` | |
| `ScreensCorrect` | `Spec => []GameScreensOfferWhatIsAccepted` | `GameScreens` |
| `ServiceTypes` | `Spec => []TypeOK` | `RoomService` |
| `ExpiriesOnlyWhenDue` | `Spec => []ExpiriesAreDue` | |
| `AcknowledgedSurvives` | `Spec => []AcknowledgedIsStored` | |
| `DeadlinesStayWatched` | `Spec => []DeadlinesAreWatched` | |
| `HalvesDriftBounded` | `Spec => []HalvesDriftByCrashesOnly` | |
| `DeadlinesActOnce` | `HSpec => []DeadlineActsOnce` | `RoomServiceHistory` |
| `SlotsAreOwned` | `Spec => []SocketsOwnTheirSlot` | `Gateway` |
| `ReconnectHasTheLastWord` | `Spec => []DisconnectIsNeverLast` | |
| `ShownConnectedIsWatched` | `Spec => []ConnectedIsWatched` | |
| `SeatedSeeTheRoom` | `Spec => []ViewsAreCurrent` | |
| `RolesAreTold` | `Spec => []RoleIsTold` | |
| `RosterKept` | `Spec => ImplementsRoster` | |
| `HostsAreOwners` | `Spec => []HostsOwnTheGame` | `WebClient` |
| `GivenSeatsAreKnown` | `Spec => []GivenSeatsAuthenticate` | |
| `RetriesTakeOneSeat` | `Spec => []RetriesShareOneSeat` | |
| `NobodyIsForgotten` | `Spec => []NobodyWaitsForNothing` | |
| `ViewsOnlyAdvance` | `Spec => ViewsNeverGoBack` | |

### The room

`TypeOK` is inductive by itself. The phase properties are not: a penalty stops or
resumes the clock rightly only if the clock was paused before, which needs the
special-game phases to be entered from running ones, and so on. They are proved
together as `PhaseInv`, with three conjuncts no run needs by themselves:
`VerdictStopsClock` (also of a closed room, so that a late expiry cannot find a clock
running after a verdict), `SpecialGameIsLocked` (the special game is marked as used
from its announcement on and has no outcome yet) and `LobbyIsFresh` (what a first
match relies on instead of a reset). The step is split by event group, then by
action. `VerdictIsFinal`, `FirewallIsSpentOnce` and the refinement of `MatchLifecycle` follow from the
invariant and one more case analysis each; `VerdictHasAReason` only needs `TypeOK`.

Two properties have inductive invariants of their own. `HackInv` adds to
`HackAccounting` that a room without a round has no record of one: with
`RecordsFollowPhase` it follows that roles are only dealt, and players only leave,
when there are no hacks to account for. `VoteInv` adds to `OpenVoteIsUndecided` that
`hackerCount` is the number of Hackers from the deal to the end of the match, that a
press copies it, and that a press brings no votes with it. `RosterInv`, for `TurnsHaveOwners`, says that a
match keeps the number of players it was started with, so that a draw always finds
somebody, and that an accusation which interrupted a choice leaves the Admin in place. They, and `PhaseInv`, were
checked with TLC on the bounds of `room_safety` before they were proved.

*Over a whole match.* History variables constrain nothing (`HistoryStep`: a step of
`HNext` is one of `Next`), so `PhaseInv` carries over. `HistoryInv` adds
`QueueIsUnserved`: during a match, the Admin queue is the roster without those who have
served, but for the time before the first turn, when there is no queue and nobody has
served. That makes fairness visible: an Admin is drawn
from the queue, or from a new one that is filled only when everybody has served. It also
adds `TurnIsPlayed`: only a selection, and an accusation that interrupted one, has a
turn still to play; `RotationStep` says that no other state can draw the next Admin. The
account of the clock is inductive once the introduction is known to have spent nothing
(`AccountInv`): each action either lets a second pass in `InvestigationState`, with the
clock running, or changes neither side.

*The roster.* `RosterImplemented` needs only `TypeOK`: every event but those of the roster
leaves players and connections as they were (`RosterUntouched`), and is a step of `Roster`
only if it enters or leaves a lobby.

*The start of a game.* `Fits` is what remains of the conditions of every `start()` once the
draws are in order: a number of participants. `GamesStart` shows that the Admin's guards
and the arithmetic of the timeout both give one that fits, from a roster that `RosterInv`
knows to be large enough, and that nothing changes it before the start. Conditions on
draws (each order names everybody once, each defendant is asked by another) are lemmas
about the draws.

`SecretsKept` follows from `TypeOK` and one lemma per view: a view looks at another's
secrets only through fields that all alternatives share. `ScreensAgree` compares, for each kind of event, the handler's
guard with the view and the screen. It needs of the room that an accusation names nobody
before it is made (`SuspectsInv`), as a view shows suspects where the handler counts them,
and that there is a Hacker in every match.

### Games

`ActionsAppliedOnce` holds by `PlayInv`: a player's messages are numbered, none above
the last one applied has been applied, and only such a one is applied; so the sequence
number alone does it, and the remembered actionIds are a second net.

The other theorems about games share `GameInv`: before its instructions there is no
game, then there is one of its kind's form (`IsGame`) that is not over until its
results. Each game has its own form and three lemmas about it: that its start has it,
and that an action and a timeout keep it. What the forms add to types is what the next
step relies on. In the two turn games (`DescribeItGame`, `DefendItGame`) the order names
every participant once (`IsRota`), those before the one on stage have had their turns
and no one else has, and the game is over when there is nobody left; `TurnsAreTaken`
is then a matter of counting. In Defend It `IsTurn` says how far the turn on stage has
come and who may ask. In Predict Them nobody has predicted before the audience has
voted. For `AnswersAreHidden` and `PromptsStayPrivate` one lemma per game
compares the views of two games that differ in another's answer, or in another's prompt;
`ScreensCorrect` compares one screen with one validation for each game. `TimersAreCounted`
has one lemma per game as well: an action or a timeout that does not end it leaves it in
its step, or in one that has one step less to come (`GoesOn`).

### The service

The operations on actor objects (`Enqueue`, `Settle`, the manager's look-up, the
handling of an expiry) have one lemma each, and every action is then one of a few things for an actor (`RoomStep`,
`MemoryStep`) and for a key of the store (`StoreStep`); the invariants are proved over
these and not over the actions.

* `BaseInv`: types; what is not registered and has no work is forgotten; and what the
  process has before the room is created.
* `AckInv`, for `AcknowledgedIsStored`: as long as no actor was evicted with work, only
  the registered object has a room (`RegisteredAlone`); a room in memory has every
  acknowledged change, and so has the result of the dispatch under way
  (`ResultsContain`), whose first half is in the store before the second is written
  (`StoreHasResult`). A half that a failed or interrupted save left behind is therefore
  never behind what somebody was told. The run's `service_eviction` is the case the
  premise leaves out.
* `WatchInv`, for `DeadlinesAreWatched`: while no call fails, an object that is not
  registered but has work can do nothing with it (the room is gone), nobody undoes a
  save, and the registered object's deadlines each have a timeout, a task that sees to
  it, or a recovery ahead (`Fit`). The recovery must be in the queue before any other
  task, as an actor just made does not know its deadlines.
* `DriftInv`, for `HalvesDriftByCrashesOnly`: the public half is ahead of the private
  one by at most one change per crash, in memory and in the store, and by one more
  between the two writes. The premise `faults = 0` carries the weight: without it the
  undo of a failed second write may fail as well.

* `CauseInv`, for `DeadlinesActOnce`, about every copy of the room: a deadline it still has
  was answered by none of its changes. The change that answers a deadline takes it from
  the copy, and a new deadline carries the number of a change that has just been made, so
  none comes back; what a copy is replaced by is a copy.

`ExpiriesOnlyWhenDue` needs only `BaseInv`: what is in a queue was overdue when it was
put there, and deadlines pass only once.

### The gateway

The invariant `Inv` is a chain in which each part needs the ones before it.

* `BaseInv`: types, that what a socket is follows from its kind, and that what waits in
  the queue or in `pending` was begun by a socket that may do so.
* `FreshInv`: a player who has not joined yet is in no slot, on no socket and in no
  operation, and neither is one whose session is being written, but for that one
  operation; two handlers cannot seat one player, as ids are fresh.
* `SlotInv` adds to `SocketsOwnTheirSlot` that the sockets in slots keep their
  identities until they close. A binding replaces the earlier socket in the step in
  which it takes the slot; that is where the property would break.
* `AnsweredInv`: for the player of an open socket, each disconnect in the queue is
  followed by a reconnect. The queue may shrink from its head or be lost, never from its
  end, and a close of the bound socket puts its disconnect before a later socket can
  take the slot.
* `LateInv`, `WatchInv`: outside `late`, a player in the roster has a socket the gateway
  watches, or will be told gone by the last word in the queue about it, or is
  being seated. This proof failed at first, for a good reason: a socket may already be in
  the slot of another player when it is bound to a second one, which takes two joins
  and a reconnect on one socket while handlers wait. TLC finds it with three
  handlers waiting at a time, and the run has two. The code does lose track of the first
  player then, so `TooLate` now counts the case among those it lists.
* `ShowInv`: when no handler that ends in a broadcast is under way, every seated socket
  was sent the present room, but for the seats taken over HTTP since the last broadcast
  (`unseen`), which the code tells nobody of; a role told on a player's socket is one the
  player was dealt.

`RosterKept` needs `BaseInv` alone: which operations change the room's part of a player,
and that the operation at the head of the queue names one. The step that matters is
`RosterMoves`: a status is only changed while its player is in the roster.

### The client

`HostsAreOwners` and `GivenSeatsAreKnown` share `WebInv`, which says what every call and
every tab may carry. Its step rests on `Grows`: accounts, grants, the room and the
sessions ever stored are never taken back, so what a handler has found out is still true
an await later. `WebInv` has one lemma per group of handlers and pages; the network and
the sockets leave its variables alone. The other three add an invariant each:

* `SeatInv`, for `RetriesTakeOneSeat`: of a request id that never raced, one call at a
  time is about to take a seat; until it has, none is taken, and what was taken is known
  to the cache or to the call that is about to store the session. Without the second half
  the invariant would not be inductive: a retry takes no second seat because it finds the
  first in the cache, and a seat whose answer is cached nowhere has its call still
  between the two.
* `WaitInv`: a page that waits does so for a call of its own that is not over, and every
  page that must have a call has one.
* `ConnInv`: per socket, an inbox is in order (`Orderly`: a close is last and only on a
  closed socket, a session is refused or given up right before its close, an
  authentication is followed by something, views do not go back and none is newer than
  the room); per object (`ObjectOk`), what it believes of its socket
  is so, and it has a socket, a timer or a network event to come unless it has
  stopped; per page (`ShownOk`), every view that waits on the object's own socket is at
  least as new as the one that is shown. `NobodyIsForgotten` is `WaitInv` with `ConnInv`;
  `ViewsOnlyAdvance` is the case analysis that keeps `ConnInv`, read once more. Each
  method of `RealtimeSocket` and each thing that happens to a socket has a lemma of its
  own, about one record; the steps only put them together. A new socket is empty and
  gets its first view from the present, and what an old one still delivers is not
  listened to: that is where the listeners' check of `this.ws` comes in.

### Model-checked only

Liveness under fairness, out of the provers' reach: `MatchEnds`, `PlayEnds`,
`PassedDeadlineIsHandled`. The part of `PlayEnds` that is safety, the measure that each timeout lowers, is `TimersAreCounted`; that of `PassedDeadlineIsHandled`,
somebody to see to each deadline, is `DeadlinesStayWatched`. Every other property of a run
that passes is proved.

## Not modelled

* More than one room: nothing in the server relates two rooms but the process they
  share.
* `player:leave`, between the HTTP seats and the sessions: no page sends it. It deletes
  the leaver's session (`gateway-server.ts:508-510`), while the idempotency cache may
  still replay the seat. The gateway's own part of it, the roster and the registry, is
  modelled (`Gateway`).
* Roster: `kickPlayer` and `setPlayerProfile` are exported and called by nothing.
* The rate limiters' windows: that a request is refused is a free choice. The window
  of ten joins a minute is per remote address, which a whole party may share.
* Summary of the last round in the views (two public fields), avatars, wording.
* Validation of payloads and of what is read back from the store; routing, CORS,
  cookies' attributes; e-mail normalisation, hashing and SQL; reading the environment.
* The constructor of `WebSocket` throwing; a connection that the browser reports lost
  is reported at once or late, never wrongly.
* What the client's screens only display, drafts that are lost when the phase changes,
  and the double sending that a pending flag prevents; prompt texts; the two generic
  games, which are registered nowhere; test scripts and containers.

What the model has but no property speaks of, as the code promises nothing there: an
offline blip on a live socket leaves the player's page refusing to send until it
reconnects or is told to; a reconnect whose dispatch fails leaves the page
authenticating on a good socket; a first message that is too slow costs the stored
session; the games page waits for ever if its owned games cannot be had
(`games/page.tsx:41-43`: the page is "stuck", the one that `NobodyWaitsForNothing`
leaves out); a seat taken over HTTP is shown to nobody before the next broadcast; a
second request to make a room makes a second room.

## Plan

*Compositions.* `RoomFsm` and `Gateway` implement one `Roster`, and `RoundStart` puts the room
and the games together at their start. Left: that the end of a game in `MinigamePlay` is
the `CompleteMinigame` of `RoomFsm`, and that the changes `RoomService` numbers are steps of
`RoomFsm` with the deadlines it sets.
