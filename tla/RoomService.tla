----------------------------- MODULE RoomService -----------------------------
(***************************************************************************)
(* One room as the server process keeps it: the actor that serialises its  *)
(* events (actors/room-actor.ts), the manager that creates, finds and      *)
(* evicts actors (actors/room-actor-manager.ts), the store that survives   *)
(* the process, and the two timer services that turn a passed deadline     *)
(* into an event (timers/*.ts).  Every await on the store is a step of its *)
(* own; store calls may fail, the process may crash between any two steps, *)
(* and an idle actor may be swept out of memory.                           *)
(*                                                                         *)
(* What an event does to the room is left to the room state machine: here  *)
(* an accepted event is a numbered change, a half of the room is the set   *)
(* of changes it contains, and of the room's content only the two deadlines*)
(* are kept, the one of the phase and the one of the match clock.          *)
(***************************************************************************)
EXTENDS KeyValueStore, FiniteSets, Sequences

CONSTANTS
    RoomId,       \* what the lookup and the host session hold
    Actor,        \* the RoomActor objects that can be in memory together
    NoActor,      \* manager.actors has no entry for the room
    MaxChanges,   \* bound: accepted events that may set a deadline
    MaxFaults,    \* bound: failing store calls
    MaxCrashes,   \* bound: crashes of the process
    MaxQueue      \* bound: client events waiting in one actor's queue

\* PhaseTimerService and MatchClockService, in the order their hooks run.
Timer == {"phase", "clock"}

ASSUME ServiceAssumption ==
    /\ NoActor \notin Actor /\ Actor # {} /\ IsFiniteSet(Actor)
    /\ MaxChanges \in Nat /\ MaxFaults \in Nat /\ MaxCrashes \in Nat /\ MaxQueue \in Nat
    /\ Key = {"room", "private", "code", "host"}

VARIABLES
    process,      \* where the server process stands between its start and its end
    store,        \* what Redis holds of this room
    creating,     \* the save createRoom() awaits, or how it ended
    registered,   \* the room's entry in manager.actors
    actor,        \* the actor objects
    armed,        \* per timer service, the deadline its scheduler holds, 0 for none
    overdue,      \* per timer, the deadlines that have passed
    changes,      \* events accepted so far; the next change's number less one
    acked,        \* history: changes whose caller was told they were accepted
    faults,       \* history: store calls that failed
    crashes,      \* history: crashes of the process
    orphaned      \* history: an actor was evicted with work in its queue

storeVars == <<store, creating, process>>
timerVars == <<armed, overdue>>
historyVars == <<changes, acked, faults, crashes, orphaned>>
vars == <<storeVars, registered, actor, timerVars, historyVars>>

-----------------------------------------------------------------------------
(* The room's content, as far as this module looks *)

\* A deadline: the change that set it, and whether there is one at all (a host-paced
\* phase has no durationMs, a clock that is not running has no deadlineAt).
Off == [id |-> 0, on |-> FALSE]

NoSlots == [t \in Timer |-> Off]

\* A half of the room: the changes it contains; the public one has the deadlines.
FirstRoom == [changes |-> {}, slot |-> NoSlots]

\* The deadlines an event leaves: each as it was, replaced, or gone.  A change at the
\* bound sets no deadline, so that no timer runs out with no change left to make.
NewSlots(slot, n, must) ==
    {s \in [Timer -> {Off, [id |-> n, on |-> TRUE]} \cup {slot[t] : t \in Timer}] :
        \A t \in Timer :
            /\ s[t] \in {Off, [id |-> n, on |-> TRUE], slot[t]}
            /\ t \in must => s[t] = Off \/ s[t] # slot[t]
            /\ n >= MaxChanges => s[t].id # n}

\* A task in an actor's queue.  "recover" and "check" wait for the room to be loaded,
\* for a timer service's recoverRoom() and handleExpiry(); "event" and "expire" are
\* dispatches, of a client and of a timer.
Task(kind, t, id) == [kind |-> kind, timer |-> t, id |-> id]
ClientEvent == Task("event", "phase", 0)

\* The task at the head is running: it has not begun, or awaits the named store call.
Stage == {"start", "public", "private", "undo", "refresh"}

Blank ==
    [loaded |-> FALSE, room |-> FirstRoom, priv |-> FirstRoom, queue |-> <<>>, busy |-> FALSE,
     idle |-> FALSE, stage |-> "start", next |-> FirstRoom, nextPriv |-> FirstRoom]

Running(a) == actor[a].queue # <<>>
HeadTask(a) == Head(actor[a].queue)

-----------------------------------------------------------------------------
(* Functions of the actors in memory; m is [actor, registered] *)

Memory == [actor |-> actor, registered |-> registered]

\* runSerialized and trackBusy: a task goes to the end of the queue and the actor is busy.
Enqueue(m, a, task) ==
    [m EXCEPT !.actor[a].queue = Append(@, task), !.actor[a].busy = TRUE]

\* Objects no longer reachable: neither registered nor holding work.
Free(m) == {a \in Actor : a # m.registered /\ m.actor[a].queue = <<>>}

\* manager.get: the registered actor, or a new one, for which both services
\* immediately ask for the snapshot to recover from.
Get(m) ==
    IF m.registered # NoActor
    THEN m
    ELSE LET a == CHOOSE f \in Free(m) : TRUE
             fresh == [m EXCEPT !.actor[a] = Blank, !.registered = a]
         IN  Enqueue(Enqueue(fresh, a, Task("recover", "phase", 0)),
                     a, Task("recover", "clock", 0))

CanGet(m) == m.registered # NoActor \/ Free(m) # {}

\* The expiry check of handleExpiry on a loaded actor a: a deadline that is still the
\* room's own is dispatched, a stale one is dropped.
ExpireOn(m, a, t, id) ==
    IF m.actor[a].room.slot[t] = [id |-> id, on |-> TRUE]
    THEN Enqueue(m, a, Task("expire", t, id))
    ELSE m

\* handleExpiry: a loaded actor answers at once, another after its load.
HandleExpiry(m, t, id) ==
    LET g == Get(m)
        a == g.registered
    IN  IF g.actor[a].loaded THEN ExpireOn(g, a, t, id)
        ELSE Enqueue(g, a, Task("check", t, id))

\* A task settles: the next one may start, and busy falls although others may wait.
Settle(m, a) ==
    LET done == [m EXCEPT !.actor[a].queue = Tail(@), !.actor[a].busy = FALSE,
                          !.actor[a].stage = "start", !.actor[a].next = FirstRoom,
                          !.actor[a].nextPriv = FirstRoom]
    IN  IF a # m.registered /\ done.actor[a].queue = <<>>
        THEN [done EXCEPT !.actor[a] = Blank]
        ELSE done

SetMemory(m) == actor' = m.actor /\ registered' = m.registered

\* Mutant of SyncTimers: the second service's hooks have replaced the first's.
SyncLastServiceOnly(room) ==
    armed' = [armed EXCEPT !["clock"] = IF room.slot["clock"].on THEN room.slot["clock"].id ELSE 0]

\* Both schedulers after cancel() or shutdown().
NoTimeouts == [t \in Timer |-> 0]

\* refreshDerivedTtls: the room's code and sessions live on with it.
Refresh(ks) == KvExpire(store, ks)

\* recoverRoom's test of the deadline it finds.
Passed(t, slot) == slot.on /\ slot.id \in overdue[t]

\* syncFromRoom: a timed phase is scheduled, a host-paced one cancels.
Scheduled(slot) == IF slot.on THEN slot.id ELSE 0

\* syncFromRoom of both services: what the room has now is what is scheduled.
SyncTimers(room) == armed' = [t \in Timer |-> Scheduled(room.slot[t])]

Fault == faults < MaxFaults /\ faults' = faults + 1

\* A store call that failed may have reached the store all the same.
FailedWrite(written) == Fault /\ store' \in {store, written}

-----------------------------------------------------------------------------
Init ==
    /\ process = "redis"
    /\ store = EmptyStore /\ creating = "none"
    /\ registered = NoActor /\ actor = [a \in Actor |-> Blank]
    /\ armed = NoTimeouts /\ overdue = [t \in Timer |-> {}]
    /\ changes = 0 /\ acked = {} /\ faults = 0 /\ crashes = 0 /\ orphaned = FALSE

(* The process: main() awaits Redis, the database and the two ports, in this order *)

ConnectToRedis ==
    /\ process = "redis" /\ process' = "database"
    /\ UNCHANGED <<store, creating, registered, actor, timerVars, historyVars>>

ConnectToDatabase ==
    /\ process = "database" /\ process' = "ports"
    /\ UNCHANGED <<store, creating, registered, actor, timerVars, historyVars>>

\* Both listeners are up, over one manager with no actor in it.
CreateRuntime ==
    /\ process = "ports" /\ process' = "up"
    /\ UNCHANGED <<store, creating, registered, actor, timerVars, historyVars>>

\* Whatever cannot be reached ends the process; somebody starts it again.
StartFails ==
    /\ process \in {"database", "ports"} /\ process' = "redis"
    /\ UNCHANGED <<store, creating, registered, actor, timerVars, historyVars>>

\* SIGTERM: runtime.close() stops the sweep, both servers and both schedulers, and does
\* not wait for the actors; what they still do may schedule timeouts again.
Shutdown ==
    /\ process = "up" /\ crashes < MaxCrashes
    /\ process' = "closing"
    /\ armed' = NoTimeouts
    /\ UNCHANGED <<store, creating, registered, actor, overdue, historyVars>>

(* Creation: four saves, one after the other, then a hydrated actor.  Nobody knows the
   room before createRoom() returns. *)

SaveOrder == <<"room", "private", "code", "host", "done">>

CreateValue(k) ==
    IF k \in {"room", "private"} THEN FirstRoom ELSE RoomId

CreateRoom ==
    /\ process = "up" /\ creating = "none"
    /\ creating' = SaveOrder[1]
    /\ UNCHANGED <<process, store, registered, actor, timerVars, historyVars>>

CreateSave ==
    /\ \E i \in 1 .. 4 : creating = SaveOrder[i] /\ creating' = SaveOrder[i + 1]
    /\ store' = KvSet(store, creating, CreateValue(creating))
    /\ IF creating' = "done"
       THEN LET a == CHOOSE f \in Free(Memory) : TRUE
            IN  /\ registered' = a
                /\ actor' = [actor EXCEPT ![a] = [Blank EXCEPT !.loaded = TRUE]]
                /\ SyncTimers(FirstRoom)
       ELSE UNCHANGED <<registered, actor, armed>>
    /\ UNCHANGED <<process, overdue, historyVars>>

CreateFails ==
    /\ creating \in Key
    /\ creating' = "failed"
    /\ FailedWrite(KvSet(store, creating, CreateValue(creating)))
    /\ UNCHANGED <<process, registered, actor, timerVars, changes, acked, crashes, orphaned>>

-----------------------------------------------------------------------------
(* Requests and timers *)

\* A client's event or a lifecycle operation: manager.get(roomId).dispatch(...).
ClientRequest ==
    /\ process = "up" /\ creating = "done"
    /\ changes < MaxChanges
    /\ CanGet(Memory)
    /\ LET g == Get(Memory)
           waiting == {i \in 1 .. Len(g.actor[g.registered].queue) :
                          g.actor[g.registered].queue[i] = ClientEvent}
       IN  /\ Cardinality(waiting) < MaxQueue
           /\ SetMemory(Enqueue(g, g.registered, ClientEvent))
    /\ UNCHANGED <<storeVars, timerVars, historyVars>>

\* A scheduled timeout runs out: one-shot, it leaves the scheduler first.
TimerFires(t) ==
    /\ armed[t] \in overdue[t]
    /\ CanGet(Memory)
    /\ armed' = [armed EXCEPT ![t] = 0]
    /\ SetMemory(HandleExpiry(Memory, t, armed[t]))
    /\ UNCHANGED <<storeVars, overdue, historyVars>>

-----------------------------------------------------------------------------
(* The head task of an actor *)

\* ensureLoaded: both halves, or none is taken over.
Load(a) ==
    /\ Running(a) /\ actor[a].stage = "start" /\ ~actor[a].loaded
    /\ KvHas(store, "room") /\ KvHas(store, "private")
    /\ actor' = [actor EXCEPT ![a].loaded = TRUE,
                              ![a].room = KvGet(store, "room"),
                              ![a].priv = KvGet(store, "private")]
    /\ UNCHANGED <<storeVars, registered, timerVars, historyVars>>

\* A half is missing: RoomConsistencyError to whoever asked; a check also cancels
\* whatever its service has scheduled.
LoadInconsistent(a) ==
    /\ Running(a) /\ actor[a].stage = "start" /\ ~actor[a].loaded
    /\ ~(KvHas(store, "room") /\ KvHas(store, "private"))
    /\ SetMemory(Settle(Memory, a))
    /\ armed' = IF HeadTask(a).kind = "check"
                THEN [armed EXCEPT ![HeadTask(a).timer] = 0]
                ELSE armed
    /\ UNCHANGED <<storeVars, overdue, historyVars>>

\* The store cannot be read: the task fails, and with it what it was for.
LoadFails(a) ==
    /\ Running(a) /\ actor[a].stage = "start" /\ ~actor[a].loaded
    /\ Fault
    /\ SetMemory(Settle(Memory, a))
    /\ UNCHANGED <<storeVars, timerVars, changes, acked, crashes, orphaned>>

\* Mutant of Recover: a deadline that has passed is left alone.
RecoverSkipsPassed(a) ==
    LET t == HeadTask(a).timer
        s == actor[a].room.slot[t]
    IN  /\ Running(a) /\ HeadTask(a).kind = "recover" /\ actor[a].loaded
        /\ SetMemory(Settle(Memory, a))
        /\ armed' = [armed EXCEPT ![t] = IF s.on /\ s.id \notin overdue[t] THEN s.id ELSE 0]
        /\ UNCHANGED <<storeVars, overdue, historyVars>>

\* recoverRoom with a snapshot: a deadline that has passed is handled now, one to come
\* is scheduled for the time that is left.
Recover(a) ==
    LET t == HeadTask(a).timer
        s == actor[a].room.slot[t]
        m == Settle(Memory, a)
    IN  /\ Running(a) /\ HeadTask(a).kind = "recover" /\ actor[a].loaded
        /\ \/ /\ ~s.on
              /\ armed' = [armed EXCEPT ![t] = 0]
              /\ SetMemory(m)
           \/ /\ Passed(t, s)
              /\ CanGet(m)
              /\ SetMemory(HandleExpiry(m, t, s.id))
              /\ UNCHANGED armed
           \/ /\ s.on /\ ~Passed(t, s)
              /\ armed' = [armed EXCEPT ![t] = s.id]
              /\ SetMemory(m)
        /\ UNCHANGED <<storeVars, overdue, historyVars>>

\* handleExpiry with a snapshot it had to wait for: the actor it asked is the one it
\* dispatches to.
Check(a) ==
    /\ Running(a) /\ HeadTask(a).kind = "check" /\ actor[a].loaded
    /\ SetMemory(ExpireOn(Settle(Memory, a), a, HeadTask(a).timer, HeadTask(a).id))
    /\ UNCHANGED <<storeVars, timerVars, historyVars>>

Dispatching(a) ==
    /\ Running(a) /\ HeadTask(a).kind \in {"event", "expire"}
    /\ actor[a].loaded /\ actor[a].stage = "start"

\* Mutant of StillDue: the state machine trusts the timer that its deadline is the room's.
AnyExpiryIsDue(a) == TRUE

StillDue(a) ==
    HeadTask(a).kind = "expire" =>
        actor[a].room.slot[HeadTask(a).timer] = [id |-> HeadTask(a).id, on |-> TRUE]

\* The state machine rejects the event, a timer's when its deadline is stale; nothing
\* is saved, but the room has been active.
Reject(a) ==
    /\ Dispatching(a)
    /\ HeadTask(a).kind = "expire" => ~StillDue(a)
    /\ SetMemory([Settle(Memory, a) EXCEPT !.actor[a].idle = FALSE])
    /\ UNCHANGED <<storeVars, timerVars, historyVars>>

\* The state machine accepts the event; its result waits for the store.
Accept(a) ==
    LET n == changes + 1
        task == HeadTask(a)
    IN  /\ Dispatching(a) /\ StillDue(a)
        /\ task.kind = "event" => changes < MaxChanges
        /\ \E slot \in NewSlots(actor[a].room.slot, n,
                                IF task.kind = "expire" THEN {task.timer} ELSE {}) :
              actor' = [actor EXCEPT
                  ![a].stage = "public",
                  ![a].next = [changes |-> actor[a].room.changes \cup {n}, slot |-> slot],
                  ![a].nextPriv.changes = actor[a].priv.changes \cup {n}]
        /\ changes' = n
        /\ UNCHANGED <<storeVars, registered, timerVars, acked, faults, crashes, orphaned>>

-----------------------------------------------------------------------------
(* persist() *)

\* Mutant of SavePublic: the private half is not saved after it.
SavePublicOnly(a) ==
    /\ actor[a].stage = "public"
    /\ store' = KvSet(store, "room", actor[a].next)
    /\ actor' = [actor EXCEPT ![a].stage = "refresh"]
    /\ UNCHANGED <<process, creating, registered, timerVars, historyVars>>

SavePublic(a) ==
    /\ actor[a].stage = "public"
    /\ store' = KvSet(store, "room", actor[a].next)
    /\ actor' = [actor EXCEPT ![a].stage = "private"]
    /\ UNCHANGED <<process, creating, registered, timerVars, historyVars>>

SavePrivate(a) ==
    /\ actor[a].stage = "private"
    /\ store' = KvSet(store, "private", actor[a].nextPriv)
    /\ actor' = [actor EXCEPT ![a].stage = "refresh"]
    /\ UNCHANGED <<process, creating, registered, timerVars, historyVars>>

\* Nothing was saved: the caller gets the error, memory stays as it was.
SavePublicFails(a) ==
    /\ actor[a].stage = "public"
    /\ FailedWrite(KvSet(store, "room", actor[a].next))
    /\ SetMemory(Settle(Memory, a))
    /\ UNCHANGED <<process, creating, timerVars, changes, acked, crashes, orphaned>>

SavePrivateFails(a) ==
    /\ actor[a].stage = "private"
    /\ FailedWrite(KvSet(store, "private", actor[a].nextPriv))
    /\ actor' = [actor EXCEPT ![a].stage = "undo"]
    /\ UNCHANGED <<process, creating, registered, timerVars, changes, acked, crashes, orphaned>>

\* The public half just saved is deleted, if the store lets it.
Undo(a) ==
    /\ actor[a].stage = "undo"
    /\ \/ store' = KvDel(store, "room") /\ UNCHANGED faults
       \/ FailedWrite(KvDel(store, "room"))
    /\ SetMemory(Settle(Memory, a))
    /\ UNCHANGED <<process, creating, timerVars, changes, acked, crashes, orphaned>>

\* Mutant of Commit: memory does not take the saved result over.
CommitForgets(a) ==
    /\ actor[a].stage = "refresh"
    /\ store' = Refresh({"code", "host"})
    /\ SyncTimers(actor[a].next)
    /\ acked' = acked \cup {c \in actor[a].next.changes : c \notin actor[a].room.changes}
    /\ SetMemory(Settle(Memory, a))
    /\ UNCHANGED <<process, creating, overdue, changes, faults, crashes, orphaned>>

\* Both halves are saved.  The keys that live as long as the room are renewed, those
\* the store lets be; then memory takes the result over, the timers follow and the
\* caller has its answer.
Commit(a) ==
    /\ actor[a].stage = "refresh"
    /\ \/ store' = Refresh({"code", "host"}) /\ UNCHANGED faults
       \/ \E ks \in SUBSET {"code", "host"} : Fault /\ store' = Refresh(ks)
    /\ SyncTimers(actor[a].next)
    /\ acked' = acked \cup {c \in actor[a].next.changes : c \notin actor[a].room.changes}
    /\ LET took == [Memory EXCEPT !.actor[a].room = actor[a].next,
                                  !.actor[a].priv = actor[a].nextPriv,
                                  !.actor[a].idle = FALSE]
       IN  SetMemory(Settle(took, a))
    /\ UNCHANGED <<process, creating, overdue, changes, crashes, orphaned>>

-----------------------------------------------------------------------------
(* The environment *)

\* The periodic sweep finds the actor idle and not busy, and drops it with its timers.
EvictIdle ==
    /\ process = "up" /\ registered # NoActor
    /\ ~actor[registered].busy /\ actor[registered].idle
    /\ registered' = NoActor
    /\ actor' = IF Running(registered) THEN actor ELSE [actor EXCEPT ![registered] = Blank]
    /\ armed' = NoTimeouts
    /\ orphaned' = (orphaned \/ Running(registered))
    /\ UNCHANGED <<storeVars, overdue, changes, acked, faults, crashes>>

\* A tick of wall-clock time: longer than a store call takes, as long as the idle
\* threshold, a fraction of the time to live.
Tick ==
    /\ creating \in {"done", "failed"}
    /\ \A a \in Actor : ~Running(a)
    /\ store' = KvTick(store)
    /\ actor' = [a \in Actor |-> IF a = registered THEN [actor[a] EXCEPT !.idle = TRUE]
                                 ELSE actor[a]]
    /\ UNCHANGED <<process, creating, registered, timerVars, historyVars>>

\* The rooms there are to look at: in memory, and in the store.
Rooms ==
    {actor[a].room : a \in {b \in Actor : actor[b].loaded}}
        \cup {KvGet(store, k) : k \in {j \in {"room"} : KvHas(store, j)}}

DeadlinePasses(t) ==
    /\ \E r \in Rooms :
          /\ r.slot[t].on /\ r.slot[t].id \notin overdue[t]
          /\ overdue' = [overdue EXCEPT ![t] = @ \cup {r.slot[t].id}]
    /\ UNCHANGED <<storeVars, registered, actor, armed, historyVars>>

\* The process dies, or its shutdown ends or is cut off after five seconds, and another
\* one starts: all that is left is the store.
Crash ==
    /\ process \in {"up", "closing"} /\ crashes < MaxCrashes
    /\ process' = "redis"
    /\ crashes' = crashes + 1
    /\ creating' = IF creating \in Key THEN "failed" ELSE creating
    /\ registered' = NoActor
    /\ actor' = [a \in Actor |-> Blank]
    /\ armed' = NoTimeouts
    /\ UNCHANGED <<store, overdue, changes, acked, faults, orphaned>>

-----------------------------------------------------------------------------
Work(a) ==
    \/ Load(a) \/ LoadInconsistent(a)
    \/ Recover(a) \/ Check(a)
    \/ Accept(a) \/ Reject(a)
    \/ SavePublic(a) \/ SavePrivate(a) \/ Undo(a) \/ Commit(a)

Next ==
    \/ ConnectToRedis \/ ConnectToDatabase \/ CreateRuntime \/ StartFails \/ Shutdown
    \/ CreateRoom \/ CreateSave \/ CreateFails
    \/ ClientRequest
    \/ \E t \in Timer : TimerFires(t) \/ DeadlinePasses(t)
    \/ \E a \in Actor : Work(a)
    \/ \E a \in Actor : LoadFails(a) \/ SavePublicFails(a) \/ SavePrivateFails(a)
    \/ EvictIdle \/ Tick \/ Crash

Spec == Init /\ [][Next]_vars

\* The event loop runs the tasks it has and the timeouts that are due.
Fairness ==
    /\ \A a \in Actor : WF_vars(Work(a))
    /\ \A t \in Timer : WF_vars(TimerFires(t))

-----------------------------------------------------------------------------
(* Properties *)

Deadline == {Off} \cup [id : 1 .. MaxChanges, on : {TRUE}]

Half == [changes : SUBSET (1 .. changes), slot : [Timer -> Deadline]]

Entry == [value : Half \cup {RoomId, Nothing}, left : 0 .. Ttl]

TaskSet ==
    [kind : {"recover", "check", "event", "expire"}, timer : Timer, id : 0 .. MaxChanges]

ActorObject ==
    [loaded : BOOLEAN, room : Half, priv : Half, queue : Seq(TaskSet), busy : BOOLEAN,
     idle : BOOLEAN, stage : Stage, next : Half, nextPriv : Half]

\* Type invariant: the store, the actors and the timers hold values of their kind, a half
\* that is there has no change that was not made, and only a running dispatch is past
\* its start.
TypeOK ==
    /\ store \in [Key -> Entry]
    /\ \A k \in {"room", "private"} : KvHas(store, k) => KvGet(store, k) \in Half
    /\ process \in {"redis", "database", "ports", "up", "closing"}
    /\ creating \in Key \cup {"none", "done", "failed"}
    /\ registered \in Actor \cup {NoActor}
    /\ actor \in [Actor -> ActorObject]
    /\ \A a \in Actor :
          actor[a].stage # "start" =>
              /\ Running(a) /\ actor[a].loaded
              /\ HeadTask(a).kind \in {"event", "expire"}
    /\ armed \in [Timer -> 0 .. MaxChanges]
    /\ overdue \in [Timer -> SUBSET (1 .. MaxChanges)]
    /\ changes \in Nat /\ acked \subseteq 1 .. changes
    /\ faults \in 0 .. MaxFaults /\ crashes \in 0 .. MaxCrashes /\ orphaned \in BOOLEAN

\* Whatever fails and whenever the process dies, a half of the room that is in the
\* store contains every change whose caller was told that it was accepted: persist()
\* comes before the answer, and every later state is computed from memory that has it.
\* Whether both halves are there is not said: when the private one cannot be saved the
\* public one is deleted (room-actor.ts:217), and what was acknowledged is then in
\* memory and in one half, until the next save.
\* (An actor evicted with work in its queue breaks this, see EvictionSparesWork.)
AcknowledgedIsStored ==
    ~orphaned => \A k \in {"room", "private"} : KvHas(store, k) => acked \subseteq KvGet(store, k).changes

\* As long as no store call fails the private half never has a change the public half
\* lacks, and lacks no more changes than there were crashes between the two saves, and
\* the one being saved.
HalvesDriftByCrashesOnly ==
    (faults = 0 /\ creating = "done" /\ KvHas(store, "room") /\ KvHas(store, "private")) =>
        LET pub == KvGet(store, "room").changes
            priv == KvGet(store, "private").changes
        IN  /\ priv \subseteq pub
            /\ Cardinality(pub \ priv) <=
                  crashes + Cardinality({a \in Actor : actor[a].stage = "private"})

\* A timer's event is only ever on its way for a deadline that has passed: not for the
\* phase that follows, and not early after a recovery.
ExpiriesAreDue ==
    \A a \in Actor : \A i \in 1 .. Len(actor[a].queue) :
        LET task == actor[a].queue[i]
        IN  task.kind \in {"check", "expire"} => task.id \in overdue[task.timer]

\* As long as no store call fails, a room in memory is watched: for each of its
\* deadlines the service holds a timeout, or its recovery or its expiry is queued.
DeadlinesAreWatched ==
    (faults = 0 /\ process = "up" /\ registered # NoActor /\ actor[registered].loaded) =>
        \A t \in Timer :
            LET s == actor[registered].room.slot[t]
            IN  s.on =>
                  \/ armed[t] = s.id
                  \/ \E i \in 1 .. Len(actor[registered].queue) :
                        LET task == actor[registered].queue[i]
                        IN  /\ task.timer = t
                            /\ \/ task.kind = "recover"
                               \/ task.kind \in {"check", "expire"} /\ task.id = s.id

\* A deadline of the room in memory that has passed.
Due(t, id) ==
    /\ process = "up" /\ registered # NoActor /\ actor[registered].loaded
    /\ actor[registered].room.slot[t] = [id |-> id, on |-> TRUE]
    /\ id \in overdue[t]

\* A room in memory whose deadline has passed moves on, or leaves memory, unless a
\* store call fails: nobody has to touch it.
PassedDeadlineIsHandled ==
    \A t \in Timer : \A id \in 1 .. MaxChanges - 1 : Due(t, id) ~> (~Due(t, id) \/ faults > 0)

\* "Refuses while it's mid-dispatch()" (room-actor-manager.ts:139): an actor is never
\* evicted with work in its queue.
EvictionSparesWork == ~orphaned
=============================================================================
