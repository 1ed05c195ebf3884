-------------------------- MODULE RoomServiceProofs --------------------------
(***************************************************************************)
(* Proofs about one room in the server process, for every number of        *)
(* actors, changes, failing store calls and crashes.                       *)
(***************************************************************************)
EXTENDS RoomServiceHistory, FiniteSetTheorems, SequenceTheorems, TLAPS

-----------------------------------------------------------------------------
(* The actors in memory, and what the operations on them return *)

\* A dispatch alone is past its start, and only on a loaded actor.
Staged(o) ==
    o.stage # "start" =>
        o.queue # <<>> /\ o.loaded /\ Head(o.queue).kind \in {"event", "expire"}

SoundActor == {o \in ActorObject : Staged(o)}

SoundMemory == [actor : [Actor -> SoundActor], registered : Actor \cup {NoActor}]

\* A task at the end of a queue leaves what was before it where it was.
LEMMA AppendTask ==
    ASSUME NEW q \in Seq(TaskSet), NEW task \in TaskSet
    PROVE  /\ Append(q, task) \in Seq(TaskSet)
           /\ Append(q, task) # <<>>
           /\ Len(Append(q, task)) = Len(q) + 1
           /\ \A i \in 1 .. Len(q) : Append(q, task)[i] = q[i]
           /\ Append(q, task)[Len(q) + 1] = task
           /\ q # <<>> => Head(Append(q, task)) = Head(q)
           /\ q = <<>> => Head(Append(q, task)) = task
BY AppendProperties, HeadTailAppend

\* The queue without its first task.
LEMMA TailTasks ==
    ASSUME NEW q \in Seq(TaskSet), q # <<>>
    PROVE  /\ Len(q) \in Nat /\ Len(q) >= 1
           /\ Head(q) \in TaskSet /\ q[1] = Head(q)
           /\ Tail(q) \in Seq(TaskSet)
           /\ Len(Tail(q)) = Len(q) - 1
           /\ \A i \in 1 .. Len(Tail(q)) : Tail(q)[i] = q[i + 1]
<1>1. Len(q) \in Nat \ {0}
  BY EmptySeq
<1>2. q[1] = Head(q)
  OBVIOUS
<1> QED BY <1>1, <1>2, HeadTailProperties

\* A new actor object is sound, and has nothing.
LEMMA BlankSound == FirstRoom \in Half /\ Blank \in SoundActor
<1>1. Off \in Deadline
  BY DEF Deadline
<1>2. FirstRoom \in Half
  BY <1>1 DEF FirstRoom, NoSlots, Half
<1>3. <<>> \in Seq(TaskSet)
  OBVIOUS
<1> HIDE DEF FirstRoom
<1> QED BY <1>2, <1>3 DEF Blank, ActorObject, Stage, SoundActor, Staged

\* Enqueue touches one actor's queue and busy flag.
LEMMA EnqueueFacts ==
    ASSUME NEW m \in SoundMemory, NEW a \in Actor, NEW task \in TaskSet
    PROVE  /\ Enqueue(m, a, task) \in SoundMemory
           /\ Enqueue(m, a, task).registered = m.registered
           /\ Enqueue(m, a, task).actor =
                [m.actor EXCEPT ![a] = [m.actor[a] EXCEPT !.queue = Append(m.actor[a].queue, task),
                                                          !.busy = TRUE]]
<1>1. Enqueue(m, a, task) =
        [m EXCEPT !.actor = [m.actor EXCEPT ![a] = [m.actor[a] EXCEPT
            !.queue = Append(m.actor[a].queue, task), !.busy = TRUE]]]
  BY DEF Enqueue, SoundMemory, SoundActor, ActorObject
<1> DEFINE o == [m.actor[a] EXCEPT !.queue = Append(m.actor[a].queue, task), !.busy = TRUE]
<1>2. m.actor[a] \in ActorObject /\ Staged(m.actor[a]) /\ m.actor[a].queue \in Seq(TaskSet)
  BY DEF SoundMemory, SoundActor, ActorObject
<1>3. o \in ActorObject
  BY <1>2, AppendTask DEF ActorObject
<1>4. Staged(o)
  BY <1>2, AppendTask DEF Staged, ActorObject
<1>5. o \in SoundActor
  BY <1>3, <1>4 DEF SoundActor
<1> HIDE DEF o
<1> QED BY <1>1, <1>5 DEF SoundMemory, o

\* A task put at the end of an actor's queue, and one taken from its head.
Given(o, task) == [o EXCEPT !.queue = Append(o.queue, task), !.busy = TRUE]

Ended(o) ==
    [o EXCEPT !.queue = Tail(o.queue), !.busy = FALSE, !.stage = "start",
              !.next = FirstRoom, !.nextPriv = FirstRoom]

\* The fields of an actor given a task.
LEMMA GivenFacts ==
    ASSUME NEW o \in SoundActor, NEW task \in TaskSet
    PROVE  /\ Given(o, task) \in SoundActor
           /\ Given(o, task).queue = Append(o.queue, task)
           /\ Given(o, task).busy = TRUE
           /\ Given(o, task).loaded = o.loaded /\ Given(o, task).idle = o.idle
           /\ Given(o, task).room = o.room /\ Given(o, task).priv = o.priv
           /\ Given(o, task).stage = o.stage
           /\ Given(o, task).next = o.next /\ Given(o, task).nextPriv = o.nextPriv
           /\ Given(o, task).queue # <<>>
<1>1. o \in ActorObject /\ Staged(o) /\ o.queue \in Seq(TaskSet)
  BY DEF SoundActor, ActorObject
<1>2. Given(o, task) \in ActorObject
  BY <1>1, AppendTask DEF ActorObject, Given
<1>3. Staged(Given(o, task))
  BY <1>1, AppendTask DEF Staged, ActorObject, Given
<1> QED BY <1>1, <1>2, <1>3, AppendTask DEF SoundActor, Given, ActorObject

\* The fields of an actor whose task ended.
LEMMA EndedFacts ==
    ASSUME NEW o \in SoundActor, o.queue # <<>>
    PROVE  /\ Ended(o) \in SoundActor
           /\ Ended(o).queue = Tail(o.queue)
           /\ Ended(o).busy = FALSE
           /\ Ended(o).loaded = o.loaded /\ Ended(o).idle = o.idle
           /\ Ended(o).room = o.room /\ Ended(o).priv = o.priv
           /\ Ended(o).stage = "start"
           /\ Ended(o).next = FirstRoom /\ Ended(o).nextPriv = FirstRoom
<1>1. o \in ActorObject /\ o.queue \in Seq(TaskSet)
  BY DEF SoundActor, ActorObject
<1>2. FirstRoom \in Half /\ Tail(o.queue) \in Seq(TaskSet)
  BY <1>1, BlankSound, TailTasks
<1> HIDE DEF FirstRoom
<1>3. Ended(o) \in ActorObject
  BY <1>1, <1>2 DEF ActorObject, Ended, Stage
<1> QED BY <1>1, <1>3 DEF SoundActor, Ended, ActorObject, Staged

\* The fields of a new actor.
LEMMA BlankFields ==
    /\ Blank.loaded = FALSE /\ Blank.busy = FALSE /\ Blank.idle = FALSE
    /\ Blank.queue = <<>> /\ Blank.stage = "start"
    /\ Blank.room = FirstRoom /\ Blank.priv = FirstRoom
    /\ Blank.next = FirstRoom /\ Blank.nextPriv = FirstRoom
BY DEF Blank

\* Enqueue gives the task to one actor.
LEMMA EnqueueGives ==
    ASSUME NEW m \in SoundMemory, NEW a \in Actor, NEW task \in TaskSet
    PROVE  /\ Enqueue(m, a, task) \in SoundMemory
           /\ Enqueue(m, a, task).registered = m.registered
           /\ Enqueue(m, a, task).actor = [m.actor EXCEPT ![a] = Given(m.actor[a], task)]
BY EnqueueFacts DEF Given

\* Settle ends the task of one actor, and forgets an object out of reach and out of work.
LEMMA SettleFacts ==
    ASSUME NEW m \in SoundMemory, NEW a \in Actor, m.actor[a].queue # <<>>
    PROVE  /\ Settle(m, a) \in SoundMemory
           /\ Settle(m, a).registered = m.registered
           /\ Settle(m, a).actor =
                [m.actor EXCEPT ![a] =
                    IF a # m.registered /\ Tail(m.actor[a].queue) = <<>> THEN Blank
                    ELSE Ended(m.actor[a])]
<1> DEFINE done == [m EXCEPT !.actor[a].queue = Tail(@), !.actor[a].busy = FALSE,
                             !.actor[a].stage = "start", !.actor[a].next = FirstRoom,
                             !.actor[a].nextPriv = FirstRoom]
<1>1. m.actor[a] \in SoundActor /\ m.actor \in [Actor -> SoundActor]
      /\ m.registered \in Actor \cup {NoActor}
  BY DEF SoundMemory
<1>2. Ended(m.actor[a]) \in SoundActor /\ Ended(m.actor[a]).queue = Tail(m.actor[a].queue)
  BY <1>1, EndedFacts
<1>3. done = [m EXCEPT !.actor = [m.actor EXCEPT ![a] = Ended(m.actor[a])]]
  <2>1. m \in [actor : [Actor -> ActorObject], registered : Actor \cup {NoActor}]
    BY DEF SoundMemory, SoundActor
  <2>2. Tail(m.actor[a].queue) \in Seq(TaskSet) /\ FirstRoom \in Half
    BY <1>1, BlankSound, TailTasks DEF SoundActor, ActorObject
  <2> DEFINE q == Tail(m.actor[a].queue)
             F == FirstRoom
  <2>3. q \in Seq(TaskSet) /\ F \in Half
    BY <2>2
  <2> HIDE DEF q, F
  <2> DEFINE o3 == [m.actor[a] EXCEPT !.queue = q, !.busy = FALSE, !.stage = "start"]
             m3 == [m EXCEPT !.actor[a].queue = q, !.actor[a].busy = FALSE,
                             !.actor[a].stage = "start"]
             o5 == [o3 EXCEPT !.next = F, !.nextPriv = F]
  <2>4. m3 = [m EXCEPT !.actor = [m.actor EXCEPT ![a] = o3]] /\ o3 \in ActorObject
    <3>1. m3 = [m EXCEPT !.actor = [m.actor EXCEPT ![a] = o3]]
      BY <2>1
    <3>2. m.actor[a] \in ActorObject /\ "start" \in Stage
      BY <2>1 DEF Stage
    <3>3. o3 \in ActorObject
      BY <2>3, <3>2 DEF ActorObject
    <3> QED BY <3>1, <3>3
  <2>5. done = [m3 EXCEPT !.actor[a].next = F, !.actor[a].nextPriv = F]
    BY DEF q, F
  <2>6. Ended(m.actor[a]) = o5
    BY <2>1, <2>3 DEF ActorObject, Ended, q, F
  <2> HIDE DEF o3, m3
  <2>7. [m3 EXCEPT !.actor[a].next = F, !.actor[a].nextPriv = F] =
          [m3 EXCEPT !.actor = [m3.actor EXCEPT ![a] =
              [m3.actor[a] EXCEPT !.next = F, !.nextPriv = F]]]
    BY <2>1, <2>4 DEF ActorObject
  <2>8. m3.actor[a] = o3
    BY <2>1, <2>4
  <2>9. [m3 EXCEPT !.actor = [m3.actor EXCEPT ![a] = o5]] =
          [m EXCEPT !.actor = [m.actor EXCEPT ![a] = o5]]
    BY <2>1, <2>4
  <2> HIDE DEF done
  <2> QED BY <2>5, <2>6, <2>7, <2>8, <2>9
<1>4. Settle(m, a) = IF a # m.registered /\ done.actor[a].queue = <<>>
                     THEN [done EXCEPT !.actor[a] = Blank] ELSE done
  BY DEF Settle
<1> HIDE DEF done
<1>5. done = [actor |-> [m.actor EXCEPT ![a] = Ended(m.actor[a])], registered |-> m.registered]
  BY <1>3 DEF SoundMemory
<1>6. done.actor[a].queue = Tail(m.actor[a].queue)
  BY <1>1, <1>2, <1>5
<1>7. CASE a # m.registered /\ Tail(m.actor[a].queue) = <<>>
  <2>1. Settle(m, a) = [actor |-> [m.actor EXCEPT ![a] = Blank], registered |-> m.registered]
    BY <1>1, <1>4, <1>5, <1>6, <1>7
  <2> QED BY <1>1, <1>7, <2>1, BlankSound DEF SoundMemory
<1>8. CASE ~(a # m.registered /\ Tail(m.actor[a].queue) = <<>>)
  <2>1. Settle(m, a) = [actor |-> [m.actor EXCEPT ![a] = Ended(m.actor[a])],
                        registered |-> m.registered]
    BY <1>4, <1>5, <1>6, <1>8
  <2> QED BY <1>1, <1>2, <1>8, <2>1 DEF SoundMemory
<1> QED BY <1>7, <1>8

\* An actor just made, for which both timer services ask for the snapshot.
Fetched == Given(Given(Blank, Task("recover", "phase", 0)), Task("recover", "clock", 0))

\* The queue of an actor just made.
LEMMA FetchedFacts ==
    /\ Fetched \in SoundActor
    /\ Fetched.queue = <<Task("recover", "phase", 0), Task("recover", "clock", 0)>>
    /\ ~Fetched.loaded /\ ~Fetched.idle /\ Fetched.stage = "start"
    /\ Fetched.room = FirstRoom /\ Fetched.priv = FirstRoom
<1> DEFINE T1 == Task("recover", "phase", 0)
           T2 == Task("recover", "clock", 0)
           B1 == Given(Blank, T1)
<1>1. T1 \in TaskSet /\ T2 \in TaskSet
  BY ServiceAssumption DEF Task, TaskSet, Timer
<1> HIDE DEF T1, T2
<1>2. /\ B1 \in SoundActor /\ ~B1.loaded /\ ~B1.idle /\ B1.stage = "start"
      /\ B1.room = FirstRoom /\ B1.priv = FirstRoom
      /\ B1.queue = Append(<<>>, T1)
  <2>1. Blank \in SoundActor
    BY BlankSound
  <2>2. /\ B1 \in SoundActor /\ B1.loaded = Blank.loaded /\ B1.idle = Blank.idle
        /\ B1.stage = Blank.stage /\ B1.room = Blank.room /\ B1.priv = Blank.priv
        /\ B1.queue = Append(Blank.queue, T1)
    BY <1>1, <2>1, GivenFacts
  <2> QED BY <2>2, BlankFields
<1> HIDE DEF B1
<1>3. Given(B1, T2).queue = <<T1, T2>>
  <2>1. Given(B1, T2).queue = Append(B1.queue, T2)
    BY <1>1, <1>2, GivenFacts
  <2>2. Append(<<>>, T1) = <<T1>>
    <3>1. <<>> \in Seq(TaskSet) /\ <<T1>> \in Seq(TaskSet) /\ Len(<<>>) = 0 /\ Len(<<T1>>) = 1
      BY <1>1
    <3>2. Append(<<>>, T1) \in Seq(TaskSet) /\ Len(Append(<<>>, T1)) = 1 /\ Append(<<>>, T1)[1] = T1
      BY <1>1, <3>1, AppendProperties
    <3> QED BY <3>1, <3>2, SeqEqual
  <2>3. Append(<<T1>>, T2) = <<T1, T2>>
    <3>1. <<T1>> \in Seq(TaskSet) /\ <<T1, T2>> \in Seq(TaskSet)
          /\ Len(<<T1>>) = 1 /\ Len(<<T1, T2>>) = 2
      BY <1>1
    <3>2. Append(<<T1>>, T2) \in Seq(TaskSet) /\ Len(Append(<<T1>>, T2)) = 2
          /\ Append(<<T1>>, T2)[1] = T1 /\ Append(<<T1>>, T2)[2] = T2
      BY <1>1, <3>1, AppendProperties
    <3>3. \A i \in 1 .. 2 : Append(<<T1>>, T2)[i] = <<T1, T2>>[i]
      <4>1. \A i \in 1 .. 2 : i = 1 \/ i = 2
        OBVIOUS
      <4> QED BY <3>2, <4>1
    <3> QED BY <3>1, <3>2, <3>3, SeqEqual
  <2> QED BY <1>2, <2>1, <2>2, <2>3
<1>4. Fetched = Given(B1, T2)
  BY DEF Fetched, B1, T1, T2
<1>5. Given(B1, T2) \in SoundActor /\ ~Given(B1, T2).loaded /\ ~Given(B1, T2).idle
      /\ Given(B1, T2).stage = "start"
      /\ Given(B1, T2).room = FirstRoom /\ Given(B1, T2).priv = FirstRoom
  BY <1>1, <1>2, GivenFacts
<1> QED BY <1>3, <1>4, <1>5 DEF T1, T2

\* manager.get finds the registered actor or registers a new one.
LEMMA GetFacts ==
    ASSUME NEW m \in SoundMemory, CanGet(m)
    PROVE  /\ Get(m) \in SoundMemory
           /\ Get(m).registered \in Actor
           /\ \/ m.registered \in Actor /\ Get(m) = m
              \/ /\ m.registered = NoActor
                 /\ m.actor[Get(m).registered].queue = <<>>
                 /\ Get(m).actor = [m.actor EXCEPT ![Get(m).registered] = Fetched]
<1>1. CASE m.registered # NoActor
  BY <1>1 DEF Get, SoundMemory
<1>2. CASE m.registered = NoActor
  <2> DEFINE a == CHOOSE f \in Free(m) : TRUE
             fresh == [m EXCEPT !.actor[a] = Blank, !.registered = a]
             once == Enqueue(fresh, a, Task("recover", "phase", 0))
  <2>1. a \in Actor /\ m.actor[a].queue = <<>>
    <3>1. Free(m) # {}
      BY <1>2 DEF CanGet
    <3>2. a \in Free(m)
      BY <3>1
    <3> HIDE DEF a
    <3> QED BY <3>2 DEF Free
  <2>2. Get(m) = Enqueue(once, a, Task("recover", "clock", 0))
    BY <1>2 DEF Get
  <2> HIDE DEF a
  <2>3. fresh = [actor |-> [m.actor EXCEPT ![a] = Blank], registered |-> a]
    <3>1. m \in [actor : [Actor -> SoundActor], registered : Actor \cup {NoActor}]
      BY DEF SoundMemory
    <3>2. fresh = [[m EXCEPT !.actor = [m.actor EXCEPT ![a] = Blank]] EXCEPT !.registered = a]
      BY <2>1, <3>1
    <3>3. [m EXCEPT !.actor = [m.actor EXCEPT ![a] = Blank]] =
            [actor |-> [m.actor EXCEPT ![a] = Blank], registered |-> m.registered]
      BY <3>1
    <3>4. [[actor |-> [m.actor EXCEPT ![a] = Blank], registered |-> m.registered]
              EXCEPT !.registered = a] =
            [actor |-> [m.actor EXCEPT ![a] = Blank], registered |-> a]
      OBVIOUS
    <3> QED BY <3>2, <3>3, <3>4
  <2>4. fresh \in SoundMemory
    BY <2>1, <2>3, BlankSound DEF SoundMemory
  <2>5. Task("recover", "phase", 0) \in TaskSet /\ Task("recover", "clock", 0) \in TaskSet
    BY ServiceAssumption DEF Task, TaskSet, Timer
  <2>6. once \in SoundMemory /\ once.registered = a
        /\ once.actor = [fresh.actor EXCEPT ![a] = Given(fresh.actor[a], Task("recover", "phase", 0))]
    BY <2>1, <2>4, <2>5, <2>3, EnqueueGives
  <2> HIDE DEF once
  <2>7. Get(m) \in SoundMemory /\ Get(m).registered = a
        /\ Get(m).actor = [once.actor EXCEPT ![a] = Given(once.actor[a], Task("recover", "clock", 0))]
    BY <2>1, <2>2, <2>5, <2>6, EnqueueGives
  <2>8. m.actor \in [Actor -> SoundActor] /\ fresh.actor \in [Actor -> SoundActor]
    BY <2>4 DEF SoundMemory
  <2>9. fresh.actor[a] = Blank /\ fresh.actor = [m.actor EXCEPT ![a] = Blank]
    BY <2>1, <2>3, <2>8
  <2> HIDE DEF fresh
  <2>10. once.actor[a] = Given(Blank, Task("recover", "phase", 0))
    BY <2>1, <2>6, <2>8, <2>9
  <2>11. Get(m).actor = [m.actor EXCEPT ![a] = Fetched]
    BY <2>1, <2>6, <2>7, <2>8, <2>9, <2>10 DEF Fetched
  <2> QED BY <1>2, <2>1, <2>7, <2>11
<1> QED BY <1>1, <1>2

\* What handleExpiry does for the actor that get() found: an expiry, a check, or nothing.
LEMMA HandleExpiryFacts ==
    ASSUME NEW m \in SoundMemory, CanGet(m), NEW t \in Timer, NEW id \in 0 .. MaxChanges
    PROVE  LET g == Get(m)
               a == g.registered
               n == HandleExpiry(m, t, id)
           IN  /\ n \in SoundMemory /\ n.registered = a
               /\ \/ /\ ~g.actor[a].loaded
                     /\ n.actor = [g.actor EXCEPT ![a] = Given(g.actor[a], Task("check", t, id))]
                  \/ /\ g.actor[a].loaded
                     /\ g.actor[a].room.slot[t] = [id |-> id, on |-> TRUE]
                     /\ n.actor = [g.actor EXCEPT ![a] = Given(g.actor[a], Task("expire", t, id))]
                  \/ /\ g.actor[a].loaded
                     /\ g.actor[a].room.slot[t] # [id |-> id, on |-> TRUE]
                     /\ n.actor = g.actor
<1> DEFINE g == Get(m)
           a == g.registered
<1>1. g \in SoundMemory /\ a \in Actor
  BY GetFacts
<1>2. Task("check", t, id) \in TaskSet /\ Task("expire", t, id) \in TaskSet
  BY DEF Task, TaskSet
<1>3. HandleExpiry(m, t, id) =
        IF g.actor[a].loaded
        THEN IF g.actor[a].room.slot[t] = [id |-> id, on |-> TRUE]
             THEN Enqueue(g, a, Task("expire", t, id)) ELSE g
        ELSE Enqueue(g, a, Task("check", t, id))
  BY DEF HandleExpiry, ExpireOn
<1> HIDE DEF g
<1> DEFINE C == Task("check", t, id)
           E == Task("expire", t, id)
<1> HIDE DEF C, E
<1>4. C \in TaskSet /\ E \in TaskSet
  BY <1>2 DEF C, E
<1>5. \A x \in TaskSet : /\ Enqueue(g, a, x) \in SoundMemory
                         /\ Enqueue(g, a, x).registered = g.registered
                         /\ Enqueue(g, a, x).actor = [g.actor EXCEPT ![a] = Given(g.actor[a], x)]
  BY <1>1, EnqueueGives
<1>6. CASE ~g.actor[a].loaded
  BY <1>1, <1>3, <1>4, <1>5, <1>6 DEF C, g
<1>7. CASE g.actor[a].loaded /\ g.actor[a].room.slot[t] = [id |-> id, on |-> TRUE]
  BY <1>1, <1>3, <1>4, <1>5, <1>7 DEF E, g
<1>8. CASE g.actor[a].loaded /\ g.actor[a].room.slot[t] # [id |-> id, on |-> TRUE]
  BY <1>1, <1>3, <1>8 DEF g
<1> QED BY <1>6, <1>7, <1>8

-----------------------------------------------------------------------------
(* Types *)

\* What TypeOK says of the actors.
LEMMA TypedMemory ==
    ASSUME TypeOK
    PROVE  /\ Memory \in SoundMemory
           /\ actor \in [Actor -> SoundActor] /\ registered \in Actor \cup {NoActor}
           /\ Memory.actor = actor /\ Memory.registered = registered
BY DEF TypeOK, Memory, SoundMemory, SoundActor, Staged, Running, HeadTask

\* The halves there may be are those there were, until a change is made.
LEMMA SameHalves ==
    ASSUME changes' = changes
    PROVE  /\ Half' = Half /\ Entry' = Entry /\ ActorObject' = ActorObject
           /\ SoundActor' = SoundActor
BY DEF Half, Entry, ActorObject, SoundActor

\* A change more, and there are more of them.
LEMMA MoreHalves ==
    ASSUME changes \in Nat, changes' = changes + 1
    PROVE  /\ Half \subseteq Half' /\ Entry \subseteq Entry'
           /\ ActorObject \subseteq ActorObject' /\ SoundActor \subseteq SoundActor'
<1>1. 1 .. changes \subseteq 1 .. changes'
  OBVIOUS
<1>2. Half \subseteq Half'
  BY <1>1 DEF Half
<1>3. Entry \subseteq Entry'
  BY <1>2 DEF Entry
<1>4. ActorObject \subseteq ActorObject'
  BY <1>2 DEF ActorObject
<1> QED BY <1>2, <1>3, <1>4 DEF SoundActor

\* What the store holds of the room.
StoreOK ==
    /\ store \in [Key -> Entry]
    /\ \A k \in {"room", "private"} : KvHas(store, k) => KvGet(store, k) \in Half

\* The store's commands on a store that holds halves.
LEMMA StoreCommands ==
    ASSUME StoreOK, changes' = changes
    PROVE  /\ store' = store => StoreOK'
           /\ \A k \in Key, v \in Half : store' = KvSet(store, k, v) => StoreOK'
           /\ \A k \in {"code", "host"} : store' = KvSet(store, k, RoomId) => StoreOK'
           /\ \A k \in Key : store' = KvDel(store, k) => StoreOK'
           /\ \A ks \in SUBSET Key : store' = KvExpire(store, ks) => StoreOK'
           /\ store' = KvTick(store) => StoreOK'
<1>1. Half' = Half /\ Entry' = Entry
  BY SameHalves
<1>2. Ttl \in Nat \ {0} /\ Key = {"room", "private", "code", "host"}
  BY StoreAssumption, ServiceAssumption
<1>3. store \in [Key -> Entry] /\ \A k \in Key : store[k] \in Entry
  BY DEF StoreOK
<1>4. \A v \in Half \cup {RoomId, Nothing} : [value |-> v, left |-> Ttl] \in Entry
  BY <1>2 DEF Entry
<1>5. Gone \in Entry
  BY <1>2 DEF Entry, Gone
<1>6. store' = store => StoreOK'
  BY <1>1 DEF StoreOK, KvHas, KvGet
<1>7. ASSUME NEW k \in Key, NEW v \in Half, store' = KvSet(store, k, v)
      PROVE  StoreOK'
  BY <1>1, <1>2, <1>3, <1>4, <1>7 DEF StoreOK, KvHas, KvGet, KvSet
<1>8. ASSUME NEW k \in {"code", "host"}, store' = KvSet(store, k, RoomId)
      PROVE  StoreOK'
  BY <1>1, <1>2, <1>3, <1>4, <1>8 DEF StoreOK, KvHas, KvGet, KvSet
<1>9. ASSUME NEW k \in Key, store' = KvDel(store, k)
      PROVE  StoreOK'
  BY <1>1, <1>2, <1>3, <1>5, <1>9 DEF StoreOK, KvHas, KvGet, KvDel, Gone
<1>10. ASSUME NEW ks \in SUBSET Key, store' = KvExpire(store, ks)
       PROVE  StoreOK'
  <2>1. \A k \in Key : [store[k] EXCEPT !.left = Ttl] \in Entry
                       /\ [store[k] EXCEPT !.left = Ttl].value = store[k].value
    BY <1>2, <1>3 DEF Entry
  <2>2. store' = [k \in Key |-> IF k \in ks /\ store[k].left > 0
                                THEN [store[k] EXCEPT !.left = Ttl] ELSE store[k]]
    BY <1>10 DEF KvExpire, KvHas
  <2>3. store' \in [Key -> Entry]
    BY <1>3, <2>1, <2>2
  <2>4. ASSUME NEW k \in {"room", "private"}, store'[k].left > 0
        PROVE  store'[k].value \in Half
    <3>1. k \in Key
      BY <1>2
    <3>2. store'[k].value = store[k].value /\ store[k].left > 0
      BY <2>1, <2>2, <2>4, <3>1
    <3> QED BY <3>2 DEF StoreOK, KvHas, KvGet
  <2> QED BY <1>1, <2>3, <2>4 DEF StoreOK, KvHas, KvGet
<1>11. ASSUME store' = KvTick(store)
       PROVE  StoreOK'
  <2>1. \A k \in Key : store[k].left > 1 =>
            /\ [store[k] EXCEPT !.left = @ - 1] \in Entry
            /\ [store[k] EXCEPT !.left = @ - 1].value = store[k].value
    BY <1>2, <1>3 DEF Entry
  <2>2. store' \in [Key -> Entry]
    BY <1>3, <1>5, <1>11, <2>1 DEF KvTick
  <2>3. ASSUME NEW k \in {"room", "private"}, store'[k].left > 0
        PROVE  store'[k].value \in Half
    <3>1. k \in Key /\ store[k].left \in Nat
      BY <1>2, <1>3 DEF Entry
    <3>2. store'[k].value = store[k].value /\ store[k].left > 0
      BY <1>11, <2>1, <2>3, <3>1 DEF KvTick, Gone
    <3> QED BY <3>2 DEF StoreOK, KvHas, KvGet
  <2> QED BY <1>1, <2>2, <2>3 DEF StoreOK, KvHas, KvGet
<1> QED BY <1>6, <1>7, <1>8, <1>9, <1>10, <1>11

\* An object that is neither registered nor has work is forgotten.
IdleIsForgotten ==
    \A a \in Actor : a # registered /\ ~Running(a) => actor[a] = Blank

\* Until createRoom() is over nobody has the room, and what it saved is what it creates;
\* a process that is not up has no actor.
NobodyHasIt ==
    /\ registered = NoActor /\ armed = NoTimeouts
    /\ \A a \in Actor : actor[a] = Blank

UnknownUntilCreated ==
    /\ creating # "done" =>
          /\ NobodyHasIt /\ changes = 0
          /\ \A k \in {"room", "private"} : KvHas(store, k) => KvGet(store, k) = FirstRoom
    /\ process \notin {"up", "closing"} => NobodyHasIt /\ creating \notin Key


BaseInv == TypeOK /\ IdleIsForgotten /\ UnknownUntilCreated

-----------------------------------------------------------------------------
(* What the steps do to the actors *)

\* What Settle leaves of an object.
Left(a, o) == IF a # registered /\ Tail(o.queue) = <<>> THEN Blank ELSE Ended(o)

\* The object that has taken the result of its dispatch over.
Took(o) == [o EXCEPT !.room = o.next, !.priv = o.nextPriv, !.idle = FALSE]

\* What is left of an object is sound.
LEMMA LeftFacts ==
    ASSUME NEW a \in Actor, NEW o \in SoundActor, o.queue # <<>>
    PROVE  /\ Left(a, o) \in SoundActor
           /\ Left(a, o).stage = "start" /\ ~Left(a, o).busy
           /\ Left(a, o).queue = Tail(o.queue)
           /\ Left(a, o).next = FirstRoom /\ Left(a, o).nextPriv = FirstRoom
           /\ \/ a # registered /\ Left(a, o) = Blank
              \/ /\ Left(a, o).loaded = o.loaded /\ Left(a, o).idle = o.idle
                 /\ Left(a, o).room = o.room /\ Left(a, o).priv = o.priv
           /\ a = registered => Left(a, o) = Ended(o)
           /\ a # registered /\ Left(a, o).queue = <<>> => Left(a, o) = Blank
BY EndedFacts, BlankSound, BlankFields DEF Left

\* A step that ends the head task.
LEMMA SettledStep ==
    ASSUME TypeOK, NEW a \in Actor, Running(a)
    PROVE  /\ actor[a] \in SoundActor /\ actor[a].queue # <<>>
           /\ Settle(Memory, a) \in SoundMemory
           /\ Settle(Memory, a).registered = registered
           /\ Settle(Memory, a).actor = [actor EXCEPT ![a] = Left(a, actor[a])]
           /\ SetMemory(Settle(Memory, a)) =>
                actor' = [actor EXCEPT ![a] = Left(a, actor[a])] /\ registered' = registered
<1>1. /\ Memory \in SoundMemory /\ Memory.actor = actor /\ Memory.registered = registered
      /\ actor \in [Actor -> SoundActor]
  BY TypedMemory
<1>2. Memory.actor[a].queue # <<>>
  BY <1>1 DEF Running
<1> DEFINE m == Memory
<1>3. m \in SoundMemory /\ m.actor[a].queue # <<>>
  BY <1>1, <1>2
<1> HIDE DEF m
<1>4. /\ Settle(m, a) \in SoundMemory
      /\ Settle(m, a).registered = m.registered
      /\ Settle(m, a).actor =
            [m.actor EXCEPT ![a] =
                IF a # m.registered /\ Tail(m.actor[a].queue) = <<>> THEN Blank
                ELSE Ended(m.actor[a])]
  BY <1>3, SettleFacts
<1> QED BY <1>1, <1>2, <1>4 DEF m, SetMemory, Left

\* A rejection ends the task, and the room has been active.
LEMMA RejectStep ==
    ASSUME TypeOK, NEW a \in Actor, Reject(a)
    PROVE  /\ Running(a)
           /\ [Left(a, actor[a]) EXCEPT !.idle = FALSE] \in SoundActor
           /\ actor' = [actor EXCEPT ![a] = [Left(a, actor[a]) EXCEPT !.idle = FALSE]]
           /\ registered' = registered
<1> DEFINE m == Settle(Memory, a)
           o == Left(a, actor[a])
<1>1. Running(a)
  BY DEF Reject, Dispatching
<1>2. m \in SoundMemory /\ m.registered = registered /\ m.actor = [actor EXCEPT ![a] = o]
  BY <1>1, SettledStep
<1>3. o \in SoundActor
  BY <1>1, SettledStep, LeftFacts
<1>4. [o EXCEPT !.idle = FALSE] \in ActorObject
  BY <1>3 DEF SoundActor, ActorObject
<1>5. [o EXCEPT !.idle = FALSE] \in SoundActor
  BY <1>3, <1>4 DEF SoundActor, ActorObject, Staged
<1>6. SetMemory([m EXCEPT !.actor[a].idle = FALSE])
  BY DEF Reject
<1> HIDE DEF m, o
<1>7. [m EXCEPT !.actor[a].idle = FALSE].actor = [m.actor EXCEPT ![a] = [m.actor[a] EXCEPT !.idle = FALSE]]
      /\ [m EXCEPT !.actor[a].idle = FALSE].registered = m.registered
  BY <1>2 DEF SoundMemory
<1>8. actor \in [Actor -> SoundActor]
  BY TypedMemory
<1> QED BY <1>1, <1>2, <1>3, <1>5, <1>6, <1>7, <1>8 DEF SetMemory, m, o

\* A commit takes the result over and ends the task.
LEMMA CommitStep ==
    ASSUME TypeOK, NEW a \in Actor, Commit(a)
    PROVE  /\ Running(a)
           /\ Took(actor[a]) \in SoundActor
           /\ Took(actor[a]).queue = actor[a].queue
           /\ Took(actor[a]).loaded = actor[a].loaded
           /\ Took(actor[a]).room = actor[a].next /\ Took(actor[a]).priv = actor[a].nextPriv
           /\ ~Took(actor[a]).idle
           /\ actor' = [actor EXCEPT ![a] = Left(a, Took(actor[a]))]
           /\ registered' = registered
<1> DEFINE took == [Memory EXCEPT !.actor[a].room = actor[a].next,
                                  !.actor[a].priv = actor[a].nextPriv,
                                  !.actor[a].idle = FALSE]
           o == Took(actor[a])
<1>1. /\ Running(a) /\ actor[a].queue # <<>>
      /\ actor[a] \in SoundActor /\ actor[a] \in ActorObject /\ Staged(actor[a])
  BY TypedMemory DEF TypeOK, Commit, SoundActor, Running
<1>2. o \in ActorObject /\ o.queue = actor[a].queue /\ o.loaded = actor[a].loaded
      /\ o.stage = actor[a].stage
      /\ o.room = actor[a].next /\ o.priv = actor[a].nextPriv /\ o.idle = FALSE
  BY <1>1 DEF ActorObject, Took
<1>3. o \in SoundActor
  BY <1>1, <1>2 DEF SoundActor, Staged
<1>4. /\ Memory \in [actor : [Actor -> ActorObject], registered : Actor \cup {NoActor}]
      /\ Memory.actor = actor /\ Memory.registered = registered
      /\ actor \in [Actor -> SoundActor]
  BY TypedMemory DEF SoundMemory, SoundActor
<1>5. SetMemory(Settle(took, a))
  BY DEF Commit
<1> HIDE DEF Memory
<1>6. took = [Memory EXCEPT !.actor = [Memory.actor EXCEPT ![a] = [Memory.actor[a] EXCEPT
                !.room = actor[a].next, !.priv = actor[a].nextPriv, !.idle = FALSE]]]
  BY <1>1, <1>4 DEF ActorObject
<1>7. took = [Memory EXCEPT !.actor = [actor EXCEPT ![a] = o]]
  BY <1>4, <1>6 DEF Took
<1> HIDE DEF took, o
<1>8. took = [actor |-> [actor EXCEPT ![a] = o], registered |-> registered]
  BY <1>4, <1>7
<1>9. took \in SoundMemory /\ took.registered = registered /\ took.actor[a] = o
      /\ took.actor = [actor EXCEPT ![a] = o]
  BY <1>3, <1>4, <1>8, TypedMemory DEF SoundMemory
<1>10. took.actor[a].queue # <<>>
  BY <1>1, <1>2, <1>9
<1>11. Settle(took, a).registered = registered
       /\ Settle(took, a).actor = [took.actor EXCEPT ![a] = Left(a, o)]
  BY <1>9, <1>10, SettleFacts DEF Left
<1>12. [took.actor EXCEPT ![a] = Left(a, o)] = [actor EXCEPT ![a] = Left(a, o)]
  BY <1>4, <1>9
<1> QED BY <1>1, <1>2, <1>3, <1>5, <1>11, <1>12 DEF SetMemory, o

\* A check that waited for its load ends, and dispatches the expiry if it is still due.
LEMMA CheckStep ==
    ASSUME TypeOK, NEW a \in Actor, Check(a)
    PROVE  LET o == Left(a, actor[a])
               task == Task("expire", HeadTask(a).timer, HeadTask(a).id)
           IN  /\ Running(a) /\ HeadTask(a).kind = "check" /\ actor[a].loaded
               /\ HeadTask(a) \in TaskSet /\ task \in TaskSet
               /\ registered' = registered
               /\ \/ /\ o.room.slot[HeadTask(a).timer] # [id |-> HeadTask(a).id, on |-> TRUE]
                     /\ actor' = [actor EXCEPT ![a] = o]
                  \/ /\ o.room.slot[HeadTask(a).timer] = [id |-> HeadTask(a).id, on |-> TRUE]
                     /\ actor' = [actor EXCEPT ![a] = Given(o, task)]
<1> DEFINE m == Settle(Memory, a)
           o == Left(a, actor[a])
           task == Task("expire", HeadTask(a).timer, HeadTask(a).id)
           due == o.room.slot[HeadTask(a).timer] = [id |-> HeadTask(a).id, on |-> TRUE]
<1>1. Running(a) /\ HeadTask(a).kind = "check" /\ actor[a].loaded
      /\ SetMemory(ExpireOn(m, a, HeadTask(a).timer, HeadTask(a).id))
  BY DEF Check
<1>2. m \in SoundMemory /\ m.registered = registered /\ m.actor = [actor EXCEPT ![a] = o]
      /\ actor[a].queue \in Seq(TaskSet) /\ actor[a].queue # <<>>
  BY <1>1, SettledStep DEF SoundActor, ActorObject
<1>3. HeadTask(a) \in TaskSet
  BY <1>2, TailTasks DEF HeadTask
<1>4. task \in TaskSet
  BY <1>3 DEF TaskSet, Task
<1>5. actor \in [Actor -> SoundActor]
  BY TypedMemory
<1> HIDE DEF m, o, task
<1>6. m.actor[a] = o
  BY <1>2, <1>5
<1>7. ExpireOn(m, a, HeadTask(a).timer, HeadTask(a).id) = IF due THEN Enqueue(m, a, task) ELSE m
  BY <1>6 DEF ExpireOn, task
<1>8. CASE due
  <2>1. registered' = registered /\ actor' = [m.actor EXCEPT ![a] = Given(m.actor[a], task)]
    <3>0. m \in SoundMemory
      BY <1>2
    <3>1. /\ Enqueue(m, a, task).registered = m.registered
          /\ Enqueue(m, a, task).actor = [m.actor EXCEPT ![a] = Given(m.actor[a], task)]
      BY <1>4, <3>0, EnqueueGives
    <3>2. SetMemory(Enqueue(m, a, task))
      BY <1>1, <1>7, <1>8
    <3> QED BY <1>2, <3>1, <3>2 DEF SetMemory
  <2>2. actor' = [actor EXCEPT ![a] = Given(o, task)]
    BY <1>2, <1>5, <1>6, <2>1
  <2> QED BY <1>1, <1>3, <1>4, <1>8, <2>1, <2>2 DEF o, task
<1>9. CASE ~due
  BY <1>1, <1>2, <1>3, <1>4, <1>7, <1>9 DEF SetMemory, o, task
<1> QED BY <1>8, <1>9

\* get() on the memory m returns b, with the actors then being G.
Found(m, b, G) ==
    \/ m.registered = b /\ G = m.actor
    \/ /\ m.registered = NoActor /\ m.actor[b].queue = <<>>
       /\ G = [m.actor EXCEPT ![b] = Fetched]

\* What handleExpiry asks of the actor b it got: H are the actors after it.
Expires(G, b, t, id, H) ==
    \/ ~G[b].loaded /\ H = [G EXCEPT ![b] = Given(G[b], Task("check", t, id))]
    \/ /\ G[b].loaded /\ G[b].room.slot[t] = [id |-> id, on |-> TRUE]
       /\ H = [G EXCEPT ![b] = Given(G[b], Task("expire", t, id))]
    \/ G[b].loaded /\ G[b].room.slot[t] # [id |-> id, on |-> TRUE] /\ H = G

\* get() finds somebody.
LEMMA SomebodyFound ==
    ASSUME NEW m \in SoundMemory, CanGet(m)
    PROVE  /\ Get(m) \in SoundMemory
           /\ Get(m).registered \in Actor
           /\ Get(m).actor \in [Actor -> SoundActor]
           /\ Found(m, Get(m).registered, Get(m).actor)
BY GetFacts DEF Found, SoundMemory

\* handleExpiry as a whole.
LEMMA ExpiryHandled ==
    ASSUME NEW m \in SoundMemory, CanGet(m), NEW t \in Timer, NEW id \in 0 .. MaxChanges
    PROVE  \E b \in Actor, G \in [Actor -> SoundActor] :
              /\ Found(m, b, G)
              /\ HandleExpiry(m, t, id) \in SoundMemory
              /\ HandleExpiry(m, t, id).registered = b
              /\ Expires(G, b, t, id, HandleExpiry(m, t, id).actor)
<1>1. Get(m).registered \in Actor /\ Get(m).actor \in [Actor -> SoundActor]
      /\ Found(m, Get(m).registered, Get(m).actor)
  BY SomebodyFound
<1>2. /\ HandleExpiry(m, t, id) \in SoundMemory
      /\ HandleExpiry(m, t, id).registered = Get(m).registered
      /\ Expires(Get(m).actor, Get(m).registered, t, id, HandleExpiry(m, t, id).actor)
  BY HandleExpiryFacts DEF Expires
<1> QED BY <1>1, <1>2

\* A request: somebody is found and given a client's event.
LEMMA RequestStep ==
    ASSUME TypeOK, ClientRequest
    PROVE  /\ ClientEvent \in TaskSet
           /\ \E b \in Actor, G \in [Actor -> SoundActor] :
                 /\ Found(Memory, b, G) /\ registered' = b
                 /\ actor' = [G EXCEPT ![b] = Given(G[b], ClientEvent)]
<1> DEFINE m == Memory
           g == Get(m)
<1>1. m \in SoundMemory /\ CanGet(m) /\ SetMemory(Enqueue(g, g.registered, ClientEvent))
  BY TypedMemory DEF ClientRequest
<1>2. ClientEvent \in TaskSet
  BY ServiceAssumption DEF ClientEvent, Task, TaskSet, Timer
<1> HIDE DEF m
<1>3. g \in SoundMemory /\ g.registered \in Actor /\ g.actor \in [Actor -> SoundActor]
      /\ Found(m, g.registered, g.actor)
  BY <1>1, SomebodyFound
<1> HIDE DEF g
<1>4. /\ Enqueue(g, g.registered, ClientEvent).registered = g.registered
      /\ Enqueue(g, g.registered, ClientEvent).actor =
            [g.actor EXCEPT ![g.registered] = Given(g.actor[g.registered], ClientEvent)]
  BY <1>2, <1>3, EnqueueGives
<1>5. registered' = g.registered
      /\ actor' = [g.actor EXCEPT ![g.registered] = Given(g.actor[g.registered], ClientEvent)]
  BY <1>1, <1>4 DEF SetMemory
<1> QED BY <1>2, <1>3, <1>5 DEF m

\* A timeout: somebody is found and asked for the expiry.
LEMMA FireStep ==
    ASSUME TypeOK, NEW t \in Timer, TimerFires(t)
    PROVE  /\ armed[t] \in 1 .. MaxChanges /\ armed[t] \in overdue[t]
           /\ \E b \in Actor, G \in [Actor -> SoundActor] :
                 Found(Memory, b, G) /\ registered' = b /\ Expires(G, b, t, armed[t], actor')
           /\ actor' \in [Actor -> SoundActor]
<1> DEFINE m == Memory
           id == armed[t]
<1>1. m \in SoundMemory /\ CanGet(m) /\ SetMemory(HandleExpiry(m, t, id)) /\ id \in overdue[t]
  BY TypedMemory DEF TimerFires
<1>2. id \in 1 .. MaxChanges
  BY <1>1 DEF TypeOK
<1> HIDE DEF m, id
<1>3. id \in 0 .. MaxChanges
  BY <1>2, ServiceAssumption
<1>4. PICK b \in Actor, G \in [Actor -> SoundActor] :
         /\ Found(m, b, G)
         /\ HandleExpiry(m, t, id) \in SoundMemory
         /\ HandleExpiry(m, t, id).registered = b
         /\ Expires(G, b, t, id, HandleExpiry(m, t, id).actor)
  BY <1>1, <1>3, ExpiryHandled
<1>5. registered' = b /\ actor' = HandleExpiry(m, t, id).actor
  BY <1>1, <1>4 DEF SetMemory
<1>6. actor' \in [Actor -> SoundActor]
  BY <1>4, <1>5 DEF SoundMemory
<1>7. Found(m, b, G) /\ registered' = b /\ Expires(G, b, t, id, actor')
  BY <1>4, <1>5
<1> QED BY <1>1, <1>2, <1>6, <1>7 DEF m, id

\* A deadline is off, or is the one of a change.
LEMMA DeadlineFacts ==
    ASSUME NEW d \in Deadline
    PROVE  /\ d.id \in 0 .. MaxChanges /\ d.on \in BOOLEAN
           /\ d.on => d = [id |-> d.id, on |-> TRUE] /\ d.id \in 1 .. MaxChanges
           /\ ~d.on => d = Off
<1>1. CASE d = Off
  BY <1>1, ServiceAssumption DEF Off
<1>2. CASE d \in [id : 1 .. MaxChanges, on : {TRUE}]
  <2>1. d.id \in 1 .. MaxChanges /\ d.on = TRUE
    BY <1>2
  <2>2. d = [id |-> d.id, on |-> TRUE]
    BY <1>2, <2>1
  <2>3. d.id \in 0 .. MaxChanges
    BY <2>1, ServiceAssumption
  <2>4. d.on \in BOOLEAN /\ d.on
    BY <2>1
  <2> QED BY <2>1, <2>2, <2>3, <2>4, Zenon
<1> QED BY <1>1, <1>2 DEF Deadline

\* A recovery that finds its deadline gone, passed or to come.
LEMMA RecoverStep ==
    ASSUME TypeOK, NEW a \in Actor, Recover(a)
    PROVE  LET t == HeadTask(a).timer
               s == actor[a].room.slot[t]
               A == [actor EXCEPT ![a] = Left(a, actor[a])]
           IN  /\ Running(a) /\ actor[a].loaded
               /\ HeadTask(a) \in TaskSet /\ HeadTask(a).kind = "recover"
               /\ t \in Timer /\ s \in Deadline
               /\ A \in [Actor -> SoundActor]
               /\ actor' \in [Actor -> SoundActor] /\ registered' \in Actor \cup {NoActor}
               /\ \/ /\ ~s.on
                     /\ armed' = [armed EXCEPT ![t] = 0]
                     /\ actor' = A /\ registered' = registered
                  \/ /\ Passed(t, s) /\ armed' = armed
                     /\ \E b \in Actor, G \in [Actor -> SoundActor] :
                           /\ Found([actor |-> A, registered |-> registered], b, G)
                           /\ registered' = b /\ Expires(G, b, t, s.id, actor')
                  \/ /\ s.on /\ ~Passed(t, s)
                     /\ armed' = [armed EXCEPT ![t] = s.id]
                     /\ actor' = A /\ registered' = registered
<1> DEFINE t == HeadTask(a).timer
           s == actor[a].room.slot[t]
           A == [actor EXCEPT ![a] = Left(a, actor[a])]
           m == Settle(Memory, a)
<1>1. /\ Running(a) /\ HeadTask(a).kind = "recover" /\ actor[a].loaded
      /\ \/ ~s.on /\ armed' = [armed EXCEPT ![t] = 0] /\ SetMemory(m)
         \/ /\ Passed(t, s) /\ CanGet(m) /\ SetMemory(HandleExpiry(m, t, s.id))
            /\ UNCHANGED armed
         \/ s.on /\ ~Passed(t, s) /\ armed' = [armed EXCEPT ![t] = s.id] /\ SetMemory(m)
  BY DEF Recover
<1>2. m \in SoundMemory /\ m.registered = registered /\ m.actor = A
      /\ actor[a] \in SoundActor /\ actor[a].queue # <<>>
  BY <1>1, SettledStep
<1>3. HeadTask(a) \in TaskSet /\ actor[a].room \in Half
  BY <1>2, TailTasks DEF HeadTask, SoundActor, ActorObject
<1>4. t \in Timer /\ s \in Deadline
  BY <1>3 DEF TaskSet, Half
<1>5. s.id \in 0 .. MaxChanges
  BY <1>4, DeadlineFacts
<1>6. A \in [Actor -> SoundActor] /\ registered \in Actor \cup {NoActor}
  BY <1>2 DEF SoundMemory
<1>7. m = [actor |-> A, registered |-> registered]
  BY <1>2 DEF SoundMemory
<1> HIDE DEF m, t, s, A
<1>8. CASE SetMemory(m) /\ ~Passed(t, s)
  <2>1. actor' = A /\ registered' = registered
    BY <1>2, <1>8 DEF SetMemory
  <2> QED BY <1>1, <1>3, <1>4, <1>6, <1>8, <2>1 DEF t, s, A, Passed
<1>9. CASE Passed(t, s) /\ CanGet(m) /\ SetMemory(HandleExpiry(m, t, s.id)) /\ UNCHANGED armed
  <2> DEFINE h == HandleExpiry(m, t, s.id)
  <2>1. PICK b \in Actor, G \in [Actor -> SoundActor] :
           Found(m, b, G) /\ h \in SoundMemory /\ h.registered = b /\ Expires(G, b, t, s.id, h.actor)
    BY <1>2, <1>4, <1>5, <1>9, ExpiryHandled
  <2>2. registered' = b /\ actor' = h.actor
    BY <1>9, <2>1 DEF SetMemory
  <2> HIDE DEF h
  <2>3. actor' \in [Actor -> SoundActor]
    BY <2>1, <2>2 DEF SoundMemory
  <2>4. Found([actor |-> A, registered |-> registered], b, G) /\ registered' = b
        /\ Expires(G, b, t, s.id, actor')
    BY <1>7, <2>1, <2>2
  <2> QED BY <1>1, <1>3, <1>4, <1>6, <1>9, <2>3, <2>4 DEF t, s, A
<1> QED BY <1>1, <1>8, <1>9 DEF Passed

\* The object that has loaded both halves, and the one whose event was accepted as the
\* change n and left these deadlines.
Loaded(o) == [o EXCEPT !.loaded = TRUE, !.room = KvGet(store, "room"),
                       !.priv = KvGet(store, "private")]

Dispatched(o, n, slot) ==
    [o EXCEPT !.stage = "public",
              !.next = [changes |-> o.room.changes \cup {n}, slot |-> slot],
              !.nextPriv = [changes |-> o.priv.changes \cup {n}, slot |-> o.nextPriv.slot]]

\* A load replaces one object.
LEMMA LoadStep ==
    ASSUME TypeOK, NEW a \in Actor, Load(a)
    PROVE  /\ actor' = [actor EXCEPT ![a] = Loaded(actor[a])]
           /\ Loaded(actor[a]) \in SoundActor
           /\ Loaded(actor[a]).loaded /\ Loaded(actor[a]).queue = actor[a].queue
           /\ Loaded(actor[a]).room = KvGet(store, "room")
           /\ Loaded(actor[a]).priv = KvGet(store, "private")
           /\ Loaded(actor[a]).stage = "start" /\ Loaded(actor[a]).idle = actor[a].idle
<1>1. actor \in [Actor -> SoundActor] /\ actor[a] \in ActorObject /\ Staged(actor[a])
  BY TypedMemory DEF SoundActor
<1>2. KvGet(store, "room") \in Half /\ KvGet(store, "private") \in Half
  BY DEF Load, TypeOK
<1>3. actor' = [actor EXCEPT ![a] = Loaded(actor[a])]
  BY <1>1 DEF Load, Loaded, ActorObject
<1>4. Loaded(actor[a]) \in ActorObject
  BY <1>1, <1>2 DEF Loaded, ActorObject
<1> QED BY <1>1, <1>3, <1>4 DEF Load, Loaded, ActorObject, SoundActor, Staged

\* An event is accepted as the next change; the deadlines it leaves are deadlines.
LEMMA AcceptStep ==
    ASSUME TypeOK, NEW a \in Actor, Accept(a)
    PROVE  /\ changes' = changes + 1
           /\ Dispatching(a) /\ actor[a] \in SoundActor
           /\ \E slot \in [Timer -> Deadline] :
                 LET o == Dispatched(actor[a], changes + 1, slot)
                 IN  /\ actor' = [actor EXCEPT ![a] = o]
                     /\ o \in SoundActor'
                     /\ o.stage = "public" /\ o.queue = actor[a].queue
                     /\ o.loaded /\ o.idle = actor[a].idle /\ o.busy = actor[a].busy
                     /\ o.room = actor[a].room /\ o.priv = actor[a].priv
                     /\ o.next.changes = actor[a].room.changes \cup {changes + 1}
                     /\ o.nextPriv.changes = actor[a].priv.changes \cup {changes + 1}
                     /\ o.next.slot = slot
<1> DEFINE n == changes + 1
           must == IF HeadTask(a).kind = "expire" THEN {HeadTask(a).timer} ELSE {}
<1>1. /\ changes' = n /\ n \in Nat /\ n >= 1 /\ changes \in Nat
      /\ Dispatching(a)
  BY DEF Accept, TypeOK
<1>2. actor \in [Actor -> SoundActor] /\ actor[a] \in ActorObject /\ Staged(actor[a])
  BY TypedMemory DEF SoundActor
<1>3. PICK slot \in NewSlots(actor[a].room.slot, n, must) :
         actor' = [actor EXCEPT
             ![a].stage = "public",
             ![a].next = [changes |-> actor[a].room.changes \cup {n}, slot |-> slot],
             ![a].nextPriv.changes = actor[a].priv.changes \cup {n}]
  BY DEF Accept
<1>4. actor[a].room.slot \in [Timer -> Deadline] /\ actor[a].nextPriv \in Half
      /\ actor[a].room.changes \in SUBSET (1 .. changes)
      /\ actor[a].priv.changes \in SUBSET (1 .. changes)
  BY <1>2 DEF ActorObject, Half
<1>5. slot \in [Timer -> Deadline]
  <2>1. ASSUME NEW t \in Timer
        PROVE  slot[t] \in Deadline
    <3>1. /\ slot[t] \in {Off, [id |-> n, on |-> TRUE], actor[a].room.slot[t]}
          /\ n >= MaxChanges => slot[t].id # n
      BY <1>3, <2>1 DEF NewSlots
    <3>2. CASE slot[t] = [id |-> n, on |-> TRUE]
      <4>1. n < MaxChanges
        BY <1>1, <3>1, <3>2, ServiceAssumption
      <4>2. [id |-> n, on |-> TRUE] \in [id : 1 .. MaxChanges, on : {TRUE}]
        BY <1>1, <4>1, ServiceAssumption
      <4> QED BY <3>2, <4>2 DEF Deadline
    <3> QED BY <1>4, <2>1, <3>1, <3>2 DEF Deadline
  <2> QED BY <1>3, <2>1 DEF NewSlots
<1> DEFINE o == Dispatched(actor[a], n, slot)
<1>6. actor' = [actor EXCEPT ![a] = o]
  <2>1. [actor[a] EXCEPT !.stage = "public",
             !.next = [changes |-> actor[a].room.changes \cup {n}, slot |-> slot],
             !.nextPriv.changes = actor[a].priv.changes \cup {n}] = o
    <3>1. [actor[a].nextPriv EXCEPT !.changes = actor[a].priv.changes \cup {n}] =
            [changes |-> actor[a].priv.changes \cup {n}, slot |-> actor[a].nextPriv.slot]
      <4> DEFINE r == actor[a].nextPriv
                 c == actor[a].priv.changes \cup {n}
      <4>1. r \in [changes : SUBSET (1 .. changes), slot : [Timer -> Deadline]]
        BY <1>4 DEF Half
      <4> HIDE DEF r, c
      <4>2. [r EXCEPT !.changes = c] = [changes |-> c, slot |-> r.slot]
        BY <4>1
      <4> QED BY <4>2 DEF r, c
    <3>2. [actor[a] EXCEPT !.stage = "public",
             !.next = [changes |-> actor[a].room.changes \cup {n}, slot |-> slot],
             !.nextPriv.changes = actor[a].priv.changes \cup {n}] =
          [actor[a] EXCEPT !.stage = "public",
             !.next = [changes |-> actor[a].room.changes \cup {n}, slot |-> slot],
             !.nextPriv = [actor[a].nextPriv EXCEPT !.changes = actor[a].priv.changes \cup {n}]]
      BY <1>2 DEF ActorObject
    <3> QED BY <3>1, <3>2 DEF Dispatched
  <2>2. actor' = [actor EXCEPT ![a] = [actor[a] EXCEPT !.stage = "public",
             !.next = [changes |-> actor[a].room.changes \cup {n}, slot |-> slot],
             !.nextPriv.changes = actor[a].priv.changes \cup {n}]]
    BY <1>2, <1>3 DEF ActorObject
  <2> QED BY <2>1, <2>2
<1>7. /\ o.stage = "public" /\ o.queue = actor[a].queue /\ o.loaded = actor[a].loaded
      /\ o.idle = actor[a].idle /\ o.busy = actor[a].busy
      /\ o.room = actor[a].room /\ o.priv = actor[a].priv
      /\ o.next = [changes |-> actor[a].room.changes \cup {n}, slot |-> slot]
      /\ o.nextPriv = [changes |-> actor[a].priv.changes \cup {n}, slot |-> actor[a].nextPriv.slot]
  BY <1>2 DEF ActorObject, Dispatched
<1>8. o \in ActorObject'
  <2>1. actor[a] \in ActorObject'
    BY <1>1, <1>2, MoreHalves
  <2>2. actor[a].room.changes \cup {n} \in SUBSET (1 .. n)
        /\ actor[a].priv.changes \cup {n} \in SUBSET (1 .. n)
    BY <1>1, <1>4
  <2>3. [changes |-> actor[a].room.changes \cup {n}, slot |-> slot] \in Half'
        /\ [changes |-> actor[a].priv.changes \cup {n}, slot |-> actor[a].nextPriv.slot] \in Half'
    BY <1>1, <1>4, <1>5, <2>2 DEF Half
  <2> QED BY <2>1, <2>3 DEF ActorObject, Dispatched, Stage
<1>9. o \in SoundActor'
  BY <1>1, <1>2, <1>7, <1>8 DEF SoundActor, Staged, Dispatching, Running, HeadTask
<1> HIDE DEF o
<1>10. o.next.changes = actor[a].room.changes \cup {n}
       /\ o.nextPriv.changes = actor[a].priv.changes \cup {n} /\ o.next.slot = slot /\ o.loaded
  BY <1>1, <1>7 DEF Dispatching
<1>11. actor[a] \in SoundActor
  BY <1>2 DEF SoundActor
<1> QED BY <1>1, <1>5, <1>6, <1>7, <1>9, <1>10, <1>11 DEF o

\* A dispatch goes on to another of its awaits.
LEMMA StageStep ==
    ASSUME TypeOK, NEW a \in Actor, actor[a].stage # "start", NEW st \in Stage \ {"start"}
    PROVE  LET o == [actor[a] EXCEPT !.stage = st]
           IN  /\ Running(a) /\ actor[a].loaded
               /\ [actor EXCEPT ![a].stage = st] = [actor EXCEPT ![a] = o]
               /\ [actor EXCEPT ![a].stage = st] \in [Actor -> SoundActor]
               /\ o \in SoundActor
               /\ o.stage = st /\ o.queue = actor[a].queue /\ o.loaded = actor[a].loaded
               /\ o.idle = actor[a].idle /\ o.busy = actor[a].busy
               /\ o.room = actor[a].room /\ o.priv = actor[a].priv
               /\ o.next = actor[a].next /\ o.nextPriv = actor[a].nextPriv
<1>1. actor \in [Actor -> SoundActor] /\ actor[a] \in ActorObject /\ Staged(actor[a])
  BY TypedMemory DEF SoundActor
<1> DEFINE o == [actor[a] EXCEPT !.stage = st]
<1>2. /\ o.stage = st /\ o.queue = actor[a].queue /\ o.loaded = actor[a].loaded
      /\ o.idle = actor[a].idle /\ o.busy = actor[a].busy
      /\ o.room = actor[a].room /\ o.priv = actor[a].priv
      /\ o.next = actor[a].next /\ o.nextPriv = actor[a].nextPriv
      /\ o \in ActorObject
  BY <1>1 DEF ActorObject
<1>3. [actor EXCEPT ![a].stage = st] = [actor EXCEPT ![a] = o]
  BY <1>1
<1> HIDE DEF o
<1>4. o \in SoundActor
  BY <1>1, <1>2 DEF SoundActor, Staged
<1>5. Running(a) /\ actor[a].loaded
  BY <1>1 DEF Staged, Running
<1> QED BY <1>1, <1>2, <1>3, <1>4, <1>5 DEF o

\* The steps that touch no actor, and no entry of the room.
ProcessStep ==
    ConnectToRedis \/ ConnectToDatabase \/ CreateRuntime \/ StartFails \/ Shutdown \/ CreateRoom

\* The steps by which a task ends without a result.
Fruitless(a) ==
    LoadInconsistent(a) \/ LoadFails(a) \/ SavePublicFails(a) \/ Undo(a)

\* Such a step ends the task and does nothing else to memory.
LEMMA FruitlessStep ==
    ASSUME TypeOK, NEW a \in Actor, Fruitless(a)
    PROVE  /\ Running(a) /\ actor[a].queue # <<>> /\ actor[a] \in SoundActor
           /\ actor' = [actor EXCEPT ![a] = Left(a, actor[a])] /\ registered' = registered
           /\ changes' = changes /\ acked' = acked /\ overdue' = overdue
           /\ orphaned' = orphaned /\ crashes' = crashes
           /\ UNCHANGED <<process, creating>>
<1>1. Running(a)
  BY DEF Fruitless, LoadInconsistent, LoadFails, SavePublicFails, Undo, TypeOK
<1>2. SetMemory(Settle(Memory, a))
  BY DEF Fruitless, LoadInconsistent, LoadFails, SavePublicFails, Undo
<1> QED BY <1>1, <1>2, SettledStep DEF Fruitless, LoadInconsistent, LoadFails, SavePublicFails, Undo,
                                       storeVars, timerVars, historyVars

\* Work, a registration and a timeout are only there while the process has a room.
LEMMA OnlyWhileKnown ==
    ASSUME TypeOK, UnknownUntilCreated
    PROVE  /\ \A a \in Actor : Running(a) \/ actor[a].loaded =>
                 creating = "done" /\ process \in {"up", "closing"}
           /\ registered # NoActor => creating = "done" /\ process \in {"up", "closing"}
           /\ \A t \in Timer : armed[t] # 0 => creating = "done" /\ process \in {"up", "closing"}
BY BlankFields DEF UnknownUntilCreated, NobodyHasIt, NoTimeouts, Running

\* A step that replaces one object, which has work or is registered or is forgotten.
LEMMA ReplaceOne ==
    ASSUME TypeOK, IdleIsForgotten, NEW a \in Actor, NEW o \in SoundActor,
           actor' = [actor EXCEPT ![a] = o], registered' = registered,
           a # registered /\ o.queue = <<>> => o = Blank
    PROVE  /\ actor' \in [Actor -> SoundActor] /\ registered' \in Actor \cup {NoActor}
           /\ actor'[a] = o /\ \A c \in Actor \ {a} : actor'[c] = actor[c]
           /\ IdleIsForgotten'
<1>1. actor \in [Actor -> SoundActor] /\ registered \in Actor \cup {NoActor}
  BY TypedMemory
<1>2. actor'[a] = o /\ \A c \in Actor \ {a} : actor'[c] = actor[c]
  BY <1>1
<1>3. ASSUME NEW c \in Actor, c # registered', actor'[c].queue = <<>>
      PROVE  actor'[c] = Blank
  BY <1>2, <1>3 DEF IdleIsForgotten, Running
<1> QED BY <1>1, <1>2, <1>3 DEF IdleIsForgotten, Running

\* A step that gets an actor, and may give it a task.
LEMMA FoundForgets ==
    ASSUME NEW A \in [Actor -> SoundActor], NEW r \in Actor \cup {NoActor},
           \A c \in Actor : c # r /\ A[c].queue = <<>> => A[c] = Blank,
           NEW b \in Actor, NEW G, Found([actor |-> A, registered |-> r], b, G),
           NEW H, \A c \in Actor \ {b} : H[c] = G[c]
    PROVE  \A c \in Actor : c # b /\ H[c].queue = <<>> => H[c] = Blank
BY ServiceAssumption DEF Found

\* An expiry changes the actor found and no other.
LEMMA ExpiresOne ==
    ASSUME NEW G \in [Actor -> SoundActor], NEW b \in Actor, NEW t \in Timer,
           NEW id \in 0 .. MaxChanges, NEW H, Expires(G, b, t, id, H)
    PROVE  /\ \A c \in Actor \ {b} : H[c] = G[c]
           /\ H \in [Actor -> SoundActor]
           /\ \/ H[b] = G[b]
              \/ ~G[b].loaded /\ H[b] = Given(G[b], Task("check", t, id))
              \/ G[b].loaded /\ H[b] = Given(G[b], Task("expire", t, id))
<1>1. Task("check", t, id) \in TaskSet /\ Task("expire", t, id) \in TaskSet
  BY DEF Task, TaskSet
<1>2. Given(G[b], Task("check", t, id)) \in SoundActor /\ Given(G[b], Task("expire", t, id)) \in SoundActor
  BY <1>1, GivenFacts
<1> QED BY <1>2 DEF Expires

\* What TypeOK asks after a step that makes no change.
LEMMA TypedAgain ==
    ASSUME TypeOK, changes' = changes, StoreOK',
           actor' \in [Actor -> SoundActor], registered' \in Actor \cup {NoActor},
           process' \in {"redis", "database", "ports", "up", "closing"},
           creating' \in Key \cup {"none", "done", "failed"},
           armed' \in [Timer -> 0 .. MaxChanges],
           overdue' \in [Timer -> SUBSET (1 .. MaxChanges)],
           acked' \subseteq 1 .. changes,
           faults' \in 0 .. MaxFaults, crashes' \in 0 .. MaxCrashes, orphaned' \in BOOLEAN
    PROVE  TypeOK'
<1>1. Half' = Half /\ Entry' = Entry /\ ActorObject' = ActorObject
  BY SameHalves
<1>2. actor' \in [Actor -> ActorObject']
  BY <1>1 DEF SoundActor
<1>3. \A a \in Actor : actor'[a].stage # "start" =>
         /\ actor'[a].queue # <<>> /\ actor'[a].loaded
         /\ Head(actor'[a].queue).kind \in {"event", "expire"}
  BY DEF SoundActor, Staged
<1> QED BY <1>2, <1>3 DEF TypeOK, StoreOK, Running, HeadTask

\* A failing store call is counted.
LEMMA FaultCounted ==
    ASSUME TypeOK
    PROVE  Fault => faults' \in 0 .. MaxFaults
BY ServiceAssumption DEF Fault, TypeOK

\* The schedulers only hold what a room has.
LEMMA SyncTyped ==
    ASSUME NEW r \in Half, SyncTimers(r)
    PROVE  armed' \in [Timer -> 0 .. MaxChanges]
<1>1. ASSUME NEW t \in Timer
      PROVE  Scheduled(r.slot[t]) \in 0 .. MaxChanges
  <2>1. r.slot[t] \in Deadline
    BY DEF Half
  <2> QED BY <2>1, DeadlineFacts, ServiceAssumption DEF Scheduled
<1> QED BY <1>1 DEF SyncTimers

\* The first states.
LEMMA BaseInit == Init => BaseInv
<1> SUFFICES ASSUME Init PROVE BaseInv
  OBVIOUS
<1>1. Blank \in ActorObject /\ Blank.stage = "start"
  BY BlankSound, BlankFields DEF SoundActor
<1>2. EmptyStore \in [Key -> Entry] /\ \A k \in Key : ~KvHas(EmptyStore, k)
  BY StoreAssumption DEF EmptyStore, Gone, Entry, KvHas
<1>3. TypeOK
  <2>1. store \in [Key -> Entry] /\ \A k \in {"room", "private"} : ~KvHas(store, k)
    BY <1>2, ServiceAssumption DEF Init
  <2>2. actor \in [Actor -> ActorObject] /\ \A a \in Actor : actor[a].stage = "start"
    BY <1>1 DEF Init
  <2>3. armed \in [Timer -> 0 .. MaxChanges] /\ overdue \in [Timer -> SUBSET (1 .. MaxChanges)]
    BY ServiceAssumption DEF Init, NoTimeouts
  <2>4. /\ process = "redis" /\ creating = "none" /\ registered = NoActor
        /\ changes = 0 /\ acked = {} /\ faults = 0 /\ crashes = 0 /\ orphaned = FALSE
    BY DEF Init
  <2>5. /\ process \in {"redis", "database", "ports", "up", "closing"}
        /\ creating \in Key \cup {"none", "done", "failed"}
        /\ registered \in Actor \cup {NoActor}
        /\ changes \in Nat /\ acked \subseteq 1 .. changes
        /\ faults \in 0 .. MaxFaults /\ crashes \in 0 .. MaxCrashes /\ orphaned \in BOOLEAN
    <3>1. 0 \in Nat /\ 0 \in 0 .. MaxFaults /\ 0 \in 0 .. MaxCrashes
      BY ServiceAssumption
    <3>2. FALSE \in BOOLEAN
      OBVIOUS
    <3> QED BY <2>4, <3>1, <3>2
  <2> QED BY <2>1, <2>2, <2>3, <2>5 DEF TypeOK
<1>4. IdleIsForgotten /\ UnknownUntilCreated
  BY <1>2, ServiceAssumption DEF Init, IdleIsForgotten, UnknownUntilCreated, NobodyHasIt
<1> QED BY <1>3, <1>4 DEF BaseInv

\* The steps of the process and of creation.
LEMMA BaseCreation ==
    ASSUME BaseInv, ProcessStep \/ CreateSave \/ CreateFails
    PROVE  BaseInv'
<1> USE DEF BaseInv, storeVars, timerVars, historyVars
<1>1. /\ actor \in [Actor -> SoundActor] /\ registered \in Actor \cup {NoActor} /\ StoreOK
      /\ Key = {"room", "private", "code", "host"}
  BY TypedMemory, ServiceAssumption DEF TypeOK, StoreOK
<1>2. CASE ProcessStep
  <2> USE <1>2 DEF ProcessStep, ConnectToRedis, ConnectToDatabase, CreateRuntime, StartFails,
                   Shutdown, CreateRoom
  <2>1. actor' = actor /\ registered' = registered /\ store' = store /\ changes' = changes
    OBVIOUS
  <2>2. StoreOK'
    BY <1>1, <2>1, StoreCommands
  <2>3. armed' \in {armed, NoTimeouts} /\ NoTimeouts \in [Timer -> 0 .. MaxChanges]
    BY ServiceAssumption DEF NoTimeouts
  <2>4. creating' \in Key \cup {"none", "done", "failed"}
        /\ process' \in {"redis", "database", "ports", "up", "closing"}
    BY <1>1 DEF TypeOK, SaveOrder
  <2>5. UNCHANGED <<overdue, acked, faults, crashes, orphaned>>
    OBVIOUS
  <2> HIDE <1>2
  <2>6. TypeOK'
    BY <1>1, <2>1, <2>2, <2>3, <2>4, <2>5, TypedAgain DEF TypeOK
  <2>7. IdleIsForgotten'
    BY <2>1 DEF IdleIsForgotten, Running
  <2>8. UnknownUntilCreated'
    BY <1>1, <1>2, <2>1 DEF UnknownUntilCreated, NobodyHasIt, KvHas, KvGet, SaveOrder
  <2> QED BY <2>6, <2>7, <2>8
<1>3. ASSUME NEW v, creating \in Key,
             v = CreateValue(creating)
      PROVE  /\ store' \in {store, KvSet(store, creating, v)} /\ changes' = changes => StoreOK'
             /\ store' \in {store, KvSet(store, creating, v)} /\ creating # "done" =>
                  \A k \in {"room", "private"} : KvHas(store', k) => KvGet(store', k) = FirstRoom
  <2>1. CASE creating \in {"room", "private"}
    <3>1. v = FirstRoom /\ v \in Half
      BY <1>3, <2>1, BlankSound DEF CreateValue
    <3>2. store' \in {store, KvSet(store, creating, v)} /\ changes' = changes => StoreOK'
      BY <1>1, <1>3, <3>1, StoreCommands
    <3>3. \A k \in Key : KvSet(store, creating, v)[k] =
                IF k = creating THEN [value |-> v, left |-> Ttl] ELSE store[k]
      BY <1>1 DEF KvSet, StoreOK
    <3> QED BY <1>1, <1>3, <3>1, <3>2, <3>3 DEF UnknownUntilCreated, KvHas, KvGet
  <2>2. CASE creating \in {"code", "host"}
    <3>1. v = RoomId
      BY <1>3, <2>2 DEF CreateValue
    <3>2. store' \in {store, KvSet(store, creating, v)} /\ changes' = changes => StoreOK'
      BY <1>1, <2>2, <3>1, StoreCommands
    <3>3. \A k \in {"room", "private"} : KvSet(store, creating, v)[k] = store[k]
      BY <1>1, <2>2 DEF KvSet, StoreOK
    <3> QED BY <2>2, <3>2, <3>3 DEF UnknownUntilCreated, KvHas, KvGet
  <2> QED BY <1>1, <1>3, <2>1, <2>2
<1>4. CASE CreateFails
  <2>1. creating \in Key /\ creating # "done" /\ creating' = "failed"
        /\ store' \in {store, KvSet(store, creating, CreateValue(creating))}
        /\ UNCHANGED <<process, registered, actor, armed, overdue, changes, acked, crashes, orphaned>>
    BY <1>1, <1>4 DEF CreateFails, FailedWrite
  <2>2. StoreOK' /\ \A k \in {"room", "private"} : KvHas(store', k) => KvGet(store', k) = FirstRoom
    BY <1>3, <2>1
  <2>3. faults' \in 0 .. MaxFaults
    BY <1>4, FaultCounted DEF CreateFails, FailedWrite
  <2>4. TypeOK'
    BY <1>1, <2>1, <2>2, <2>3, TypedAgain DEF TypeOK
  <2>5. IdleIsForgotten'
    BY <2>1 DEF IdleIsForgotten, Running
  <2>6. UnknownUntilCreated'
    BY <1>1, <2>1, <2>2 DEF UnknownUntilCreated, NobodyHasIt, KvHas, KvGet
  <2> QED BY <2>4, <2>5, <2>6
<1>5. CASE CreateSave
  <2>1. /\ creating \in Key /\ creating # "done"
        /\ creating' \in Key \cup {"done"}
        /\ store' = KvSet(store, creating, CreateValue(creating))
        /\ UNCHANGED <<process, overdue, changes, acked, faults, crashes, orphaned>>
    <3>1. PICK i \in 1 .. 4 : creating = SaveOrder[i] /\ creating' = SaveOrder[i + 1]
      BY <1>5 DEF CreateSave
    <3>2. i = 1 \/ i = 2 \/ i = 3 \/ i = 4
      OBVIOUS
    <3>3. creating \in Key /\ creating # "done" /\ creating' \in Key \cup {"done"}
      BY <1>1, <3>1, <3>2 DEF SaveOrder
    <3> QED BY <1>5, <3>3 DEF CreateSave
  <2>2. StoreOK' /\ \A k \in {"room", "private"} : KvHas(store', k) => KvGet(store', k) = FirstRoom
    BY <1>3, <2>1
  <2>3. NobodyHasIt /\ process \in {"up", "closing"} /\ \A k \in Actor : actor[k].queue = <<>>
    BY <2>1, BlankFields DEF UnknownUntilCreated, NobodyHasIt, TypeOK
  <2>4. CASE creating' # "done"
    <3>1. UNCHANGED <<registered, actor, armed>>
      BY <1>5, <2>4 DEF CreateSave
    <3>2. TypeOK'
      BY <1>1, <2>1, <2>2, <3>1, TypedAgain DEF TypeOK
    <3>3. IdleIsForgotten' /\ UnknownUntilCreated'
      BY <2>1, <2>2, <2>3, <3>1
         DEF IdleIsForgotten, Running, UnknownUntilCreated, NobodyHasIt, KvHas, KvGet
    <3> QED BY <3>2, <3>3
  <2>5. CASE creating' = "done"
    <3> DEFINE a == CHOOSE f \in Free(Memory) : TRUE
               o == [Blank EXCEPT !.loaded = TRUE]
    <3>1. registered' = a /\ actor' = [actor EXCEPT ![a] = o] /\ SyncTimers(FirstRoom)
      BY <1>5, <2>5 DEF CreateSave
    <3>2. a \in Actor
      <4>1. Free(Memory) # {}
        BY <2>3, ServiceAssumption DEF Free, Memory, NobodyHasIt
      <4>2. a \in Free(Memory)
        BY <4>1
      <4> HIDE DEF a
      <4> QED BY <4>2 DEF Free
    <3> HIDE DEF a
    <3>3. o \in SoundActor
      BY BlankSound DEF SoundActor, ActorObject, Staged, Blank
    <3> HIDE DEF o
    <3>4. actor' \in [Actor -> SoundActor]
      BY <1>1, <3>1, <3>2, <3>3
    <3>5. armed' \in [Timer -> 0 .. MaxChanges]
      BY <3>1, SyncTyped, BlankSound
    <3>6. TypeOK'
      BY <1>1, <2>1, <2>2, <3>1, <3>2, <3>4, <3>5, TypedAgain DEF TypeOK
    <3>7. IdleIsForgotten'
      BY <1>1, <2>3, <3>1, <3>2 DEF IdleIsForgotten, NobodyHasIt, Running
    <3>8. UnknownUntilCreated'
      BY <2>1, <2>3, <2>5 DEF UnknownUntilCreated
    <3> QED BY <3>6, <3>7, <3>8
  <2> QED BY <2>4, <2>5
<1> QED BY <1>2, <1>4, <1>5

\* While the process has a room, what is unknown before is known.
LEMMA StillKnown ==
    ASSUME creating = "done", process \in {"up", "closing"}, UNCHANGED <<creating, process>>
    PROVE  UnknownUntilCreated'
BY DEF UnknownUntilCreated

\* Whoever is found, the others are forgotten as before.
LEMMA RequestForgets ==
    ASSUME NEW A \in [Actor -> SoundActor], NEW r \in Actor \cup {NoActor},
           \A c \in Actor : c # r /\ A[c].queue = <<>> => A[c] = Blank,
           NEW b \in Actor, NEW G \in [Actor -> SoundActor],
           Found([actor |-> A, registered |-> r], b, G),
           registered' = b, \A c \in Actor \ {b} : actor'[c] = G[c]
    PROVE  IdleIsForgotten'
<1>1. \A c \in Actor : c # b /\ actor'[c].queue = <<>> => actor'[c] = Blank
  BY FoundForgets
<1> QED BY <1>1 DEF IdleIsForgotten, Running

\* Requests, timeouts and the passing of time.
LEMMA BaseRequests ==
    ASSUME BaseInv,
           \/ ClientRequest
           \/ \E t \in Timer : TimerFires(t) \/ DeadlinePasses(t)
    PROVE  BaseInv'
<1> USE DEF BaseInv, storeVars, timerVars, historyVars
<1>1. /\ actor \in [Actor -> SoundActor] /\ registered \in Actor \cup {NoActor} /\ StoreOK
      /\ Memory = [actor |-> actor, registered |-> registered]
      /\ \A c \in Actor : c # registered /\ actor[c].queue = <<>> => actor[c] = Blank
  BY TypedMemory DEF TypeOK, StoreOK, Memory, IdleIsForgotten, Running
<1>2. CASE ClientRequest
  <2>1. PICK b \in Actor, G \in [Actor -> SoundActor] :
           Found(Memory, b, G) /\ registered' = b /\ actor' = [G EXCEPT ![b] = Given(G[b], ClientEvent)]
    BY <1>2, RequestStep
  <2>2. Given(G[b], ClientEvent) \in SoundActor
    BY <1>2, RequestStep, GivenFacts
  <2>3. actor' \in [Actor -> SoundActor] /\ \A c \in Actor \ {b} : actor'[c] = G[c]
    BY <2>1, <2>2
  <2>4. UNCHANGED <<storeVars, timerVars, historyVars>> /\ creating = "done" /\ process = "up"
    BY <1>2 DEF ClientRequest
  <2>5. StoreOK'
    BY <1>1, <2>4, StoreCommands
  <2>6. TypeOK'
    BY <2>1, <2>3, <2>4, <2>5, TypedAgain DEF TypeOK
  <2>7. IdleIsForgotten'
    BY <1>1, <2>1, <2>3, RequestForgets
  <2> QED BY <2>4, <2>6, <2>7, StillKnown
<1>3. ASSUME NEW t \in Timer, TimerFires(t)
      PROVE  BaseInv'
  <2>1. /\ armed[t] \in 1 .. MaxChanges /\ actor' \in [Actor -> SoundActor]
        /\ armed' = [armed EXCEPT ![t] = 0]
        /\ UNCHANGED <<storeVars, overdue, historyVars>>
    BY <1>3, FireStep DEF TimerFires
  <2>2. PICK b \in Actor, G \in [Actor -> SoundActor] :
           Found(Memory, b, G) /\ registered' = b /\ Expires(G, b, t, armed[t], actor')
    BY <1>3, FireStep
  <2>3. armed[t] \in 0 .. MaxChanges /\ armed[t] # 0
    BY <2>1
  <2>4. \A c \in Actor \ {b} : actor'[c] = G[c]
    BY <2>2, <2>3, ExpiresOne
  <2>5. StoreOK'
    BY <1>1, <2>1, StoreCommands
  <2>6. armed' \in [Timer -> 0 .. MaxChanges]
    BY <2>1, ServiceAssumption DEF TypeOK
  <2>7. TypeOK'
    BY <2>1, <2>2, <2>5, <2>6, TypedAgain DEF TypeOK
  <2>8. IdleIsForgotten'
    BY <1>1, <2>2, <2>4, RequestForgets
  <2> QED BY <2>1, <2>3, <2>7, <2>8, OnlyWhileKnown, StillKnown
<1>4. ASSUME NEW t \in Timer, DeadlinePasses(t)
      PROVE  BaseInv'
  <2>1. PICK r \in Rooms : r.slot[t].on /\ overdue' = [overdue EXCEPT ![t] = @ \cup {r.slot[t].id}]
    BY <1>4 DEF DeadlinePasses
  <2>2. UNCHANGED <<storeVars, registered, actor, armed, historyVars>>
    BY <1>4 DEF DeadlinePasses
  <2>3. r \in Half
    <3>1. CASE r \in {actor[a].room : a \in {c \in Actor : actor[c].loaded}}
      BY <1>1, <3>1 DEF SoundActor, ActorObject
    <3>2. CASE r \in {KvGet(store, k) : k \in {j \in {"room"} : KvHas(store, j)}}
      BY <1>1, <3>2 DEF StoreOK
    <3> QED BY <3>1, <3>2 DEF Rooms
  <2>4. r.slot[t] \in Deadline
    BY <2>3 DEF Half
  <2>5. r.slot[t].id \in 1 .. MaxChanges
    BY <2>1, <2>4, DeadlineFacts
  <2>6. overdue' \in [Timer -> SUBSET (1 .. MaxChanges)]
    BY <2>1, <2>5 DEF TypeOK
  <2>7. StoreOK'
    BY <1>1, <2>2, StoreCommands
  <2>8. TypeOK'
    BY <1>1, <2>2, <2>6, <2>7, TypedAgain DEF TypeOK
  <2> QED BY <2>2, <2>8 DEF IdleIsForgotten, Running, UnknownUntilCreated, NobodyHasIt, KvHas, KvGet
<1> QED BY <1>2, <1>3, <1>4

\* The steps of a running task.
LEMMA BaseWork ==
    ASSUME BaseInv, NEW a \in Actor,
           Work(a) \/ LoadFails(a) \/ SavePublicFails(a) \/ SavePrivateFails(a)
    PROVE  BaseInv'
<1> USE DEF BaseInv, storeVars, timerVars, historyVars
<1>1. /\ actor \in [Actor -> SoundActor] /\ registered \in Actor \cup {NoActor} /\ StoreOK
      /\ actor[a] \in SoundActor /\ actor[a] \in ActorObject
      /\ actor[a].room \in Half /\ actor[a].next \in Half /\ actor[a].nextPriv \in Half
      /\ "room" \in Key /\ "private" \in Key /\ {"code", "host"} \in SUBSET Key
  BY TypedMemory, ServiceAssumption DEF TypeOK, StoreOK, SoundActor, ActorObject
<1>2. Running(a)
  BY DEF Work, Load, LoadInconsistent, Recover, Check, Accept, Reject, Dispatching, SavePublic,
         SavePrivate, Undo, Commit, LoadFails, SavePublicFails, SavePrivateFails, TypeOK
<1>3. creating = "done" /\ process \in {"up", "closing"} /\ actor[a].queue # <<>>
  BY <1>2, OnlyWhileKnown DEF Running
<1>4. UNCHANGED <<creating, process>> => UnknownUntilCreated'
  BY <1>3, StillKnown
<1>5. Left(a, actor[a]) \in SoundActor
      /\ (a # registered /\ Left(a, actor[a]).queue = <<>> => Left(a, actor[a]) = Blank)
  BY <1>1, <1>3, LeftFacts
<1>6. CASE Load(a)
  <2>1. UNCHANGED <<storeVars, registered, timerVars, historyVars>>
    BY <1>6 DEF Load
  <2>2. actor' = [actor EXCEPT ![a] = Loaded(actor[a])] /\ Loaded(actor[a]) \in SoundActor
        /\ Loaded(actor[a]).queue # <<>>
    BY <1>3, <1>6, LoadStep
  <2>3. actor' \in [Actor -> SoundActor] /\ IdleIsForgotten'
    BY <2>1, <2>2, ReplaceOne
  <2>4. StoreOK'
    BY <1>1, <2>1, StoreCommands
  <2>5. TypeOK'
    BY <1>1, <2>1, <2>3, <2>4, TypedAgain DEF TypeOK
  <2> QED BY <1>4, <2>1, <2>3, <2>5
<1>7. CASE Fruitless(a)
  <2>1. /\ actor' = [actor EXCEPT ![a] = Left(a, actor[a])] /\ registered' = registered
        /\ UNCHANGED <<changes, acked, overdue, orphaned, crashes, process, creating>>
    BY <1>7, FruitlessStep
  <2>2. actor' \in [Actor -> SoundActor] /\ IdleIsForgotten'
    BY <1>5, <2>1, ReplaceOne
  <2>3. store' \in {store, KvSet(store, "room", actor[a].next), KvDel(store, "room")}
    BY <1>7 DEF Fruitless, LoadInconsistent, LoadFails, SavePublicFails, Undo, FailedWrite
  <2>4. StoreOK'
    BY <1>1, <2>1, <2>3, StoreCommands
  <2>5. faults' \in 0 .. MaxFaults
    BY <1>7, FaultCounted
       DEF Fruitless, LoadInconsistent, LoadFails, SavePublicFails, Undo, FailedWrite, TypeOK
  <2>6. armed' \in [Timer -> 0 .. MaxChanges]
    BY <1>7, ServiceAssumption
       DEF Fruitless, LoadInconsistent, LoadFails, SavePublicFails, Undo, TypeOK
  <2>7. TypeOK'
    BY <1>1, <2>1, <2>2, <2>4, <2>5, <2>6, TypedAgain DEF TypeOK
  <2> QED BY <1>4, <2>1, <2>2, <2>7
<1>8. CASE Recover(a)
  <2> DEFINE t == HeadTask(a).timer
             s == actor[a].room.slot[t]
             A == [actor EXCEPT ![a] = Left(a, actor[a])]
  <2>1. UNCHANGED <<storeVars, overdue, historyVars>>
    BY <1>8 DEF Recover
  <2>2. /\ t \in Timer /\ s \in Deadline /\ A \in [Actor -> SoundActor]
        /\ actor' \in [Actor -> SoundActor] /\ registered' \in Actor \cup {NoActor}
        /\ \/ ~s.on /\ armed' = [armed EXCEPT ![t] = 0] /\ actor' = A /\ registered' = registered
           \/ /\ armed' = armed
              /\ \E b \in Actor, G \in [Actor -> SoundActor] :
                    /\ Found([actor |-> A, registered |-> registered], b, G)
                    /\ registered' = b /\ Expires(G, b, t, s.id, actor')
           \/ /\ s.on /\ armed' = [armed EXCEPT ![t] = s.id]
              /\ actor' = A /\ registered' = registered
    BY <1>8, RecoverStep
  <2>3. \A c \in Actor : c # registered /\ A[c].queue = <<>> => A[c] = Blank
    BY <1>1, <1>5 DEF IdleIsForgotten, Running
  <2> HIDE DEF t, s, A
  <2>4. s.id \in 0 .. MaxChanges
    BY <2>2, DeadlineFacts
  <2>5. armed' \in [Timer -> 0 .. MaxChanges]
    BY <2>2, <2>4, ServiceAssumption DEF TypeOK
  <2>6. IdleIsForgotten'
    <3>1. CASE actor' = A /\ registered' = registered
      BY <2>3, <3>1 DEF IdleIsForgotten, Running
    <3>2. ASSUME NEW b \in Actor, NEW G \in [Actor -> SoundActor],
                 Found([actor |-> A, registered |-> registered], b, G),
                 registered' = b, Expires(G, b, t, s.id, actor')
          PROVE  IdleIsForgotten'
      <4>1. \A c \in Actor \ {b} : actor'[c] = G[c]
        BY <2>2, <2>4, <3>2, ExpiresOne
      <4> QED BY <1>1, <2>2, <2>3, <3>2, <4>1, RequestForgets
    <3> QED BY <2>2, <3>1, <3>2
  <2>7. StoreOK'
    BY <1>1, <2>1, StoreCommands
  <2>8. TypeOK'
    BY <2>1, <2>2, <2>5, <2>7, TypedAgain DEF TypeOK
  <2> QED BY <1>4, <2>1, <2>6, <2>8
<1>9. CASE Check(a)
  <2> DEFINE task == Task("expire", HeadTask(a).timer, HeadTask(a).id)
             l == Left(a, actor[a])
  <2>1. UNCHANGED <<storeVars, timerVars, historyVars>>
    BY <1>9 DEF Check
  <2>2. /\ task \in TaskSet /\ registered' = registered
        /\ actor' = [actor EXCEPT ![a] = l] \/ actor' = [actor EXCEPT ![a] = Given(l, task)]
    BY <1>9, CheckStep
  <2>3. l \in SoundActor /\ (a # registered /\ l.queue = <<>> => l = Blank)
    BY <1>5
  <2> HIDE DEF l, task
  <2>4. Given(l, task) \in SoundActor /\ Given(l, task).queue # <<>>
    BY <2>2, <2>3, GivenFacts
  <2>5. actor' \in [Actor -> SoundActor] /\ IdleIsForgotten'
    BY <2>2, <2>3, <2>4, ReplaceOne
  <2>6. StoreOK'
    BY <1>1, <2>1, StoreCommands
  <2>7. TypeOK'
    BY <1>1, <2>1, <2>2, <2>5, <2>6, TypedAgain DEF TypeOK
  <2> QED BY <1>4, <2>1, <2>5, <2>7
<1>10. CASE Accept(a)
  <2>1. changes' = changes + 1 /\ changes \in Nat /\ SoundActor \subseteq SoundActor'
        /\ Half \subseteq Half' /\ Entry \subseteq Entry'
    BY <1>10, AcceptStep, MoreHalves DEF TypeOK
  <2>2. PICK slot \in [Timer -> Deadline] :
           LET o == Dispatched(actor[a], changes + 1, slot)
           IN  actor' = [actor EXCEPT ![a] = o] /\ o \in SoundActor' /\ o.queue = actor[a].queue
    BY <1>10, AcceptStep
  <2> DEFINE o == Dispatched(actor[a], changes + 1, slot)
  <2>3. actor' = [actor EXCEPT ![a] = o] /\ o \in SoundActor' /\ o.queue # <<>>
    BY <1>3, <2>2
  <2> HIDE DEF o
  <2>4. UNCHANGED <<storeVars, registered, timerVars, acked, faults, crashes, orphaned>>
    BY <1>10 DEF Accept
  <2>5. actor' \in [Actor -> SoundActor']
    BY <1>1, <2>1, <2>3
  <2>6. actor' \in [Actor -> ActorObject']
    BY <2>5 DEF SoundActor
  <2>7. \A c \in Actor : actor'[c].stage # "start" =>
           /\ actor'[c].queue # <<>> /\ actor'[c].loaded
           /\ Head(actor'[c].queue).kind \in {"event", "expire"}
    BY <2>5 DEF SoundActor, Staged
  <2>8. store' \in [Key -> Entry']
        /\ \A k \in {"room", "private"} : KvHas(store', k) => KvGet(store', k) \in Half'
    BY <1>1, <2>1, <2>4 DEF StoreOK, KvHas, KvGet
  <2>9. changes' \in Nat /\ acked' \subseteq 1 .. changes'
    BY <2>1, <2>4 DEF TypeOK
  <2>10. TypeOK'
    BY <2>4, <2>6, <2>7, <2>8, <2>9 DEF TypeOK, Running, HeadTask, KvHas, KvGet
  <2>11. IdleIsForgotten'
    BY <1>1, <2>3, <2>4 DEF IdleIsForgotten, Running
  <2> QED BY <1>4, <2>4, <2>10, <2>11
<1>11. CASE Reject(a)
  <2>1. UNCHANGED <<storeVars, timerVars, historyVars>>
    BY <1>11 DEF Reject
  <2> DEFINE l == Left(a, actor[a])
             o == [l EXCEPT !.idle = FALSE]
  <2>2. actor' = [actor EXCEPT ![a] = o] /\ registered' = registered /\ o \in SoundActor
    BY <1>11, RejectStep
  <2>3. a # registered /\ o.queue = <<>> => o = Blank
    <3>1. l \in ActorObject
      BY <1>5 DEF SoundActor
    <3>2. o.queue = l.queue
      BY <3>1 DEF ActorObject
    <3>3. [Blank EXCEPT !.idle = FALSE] = Blank
      BY BlankSound, BlankFields DEF SoundActor, ActorObject
    <3> HIDE DEF l
    <3> QED BY <1>5, <3>2, <3>3 DEF l
  <2> HIDE DEF o
  <2>4. actor' \in [Actor -> SoundActor] /\ IdleIsForgotten'
    BY <2>2, <2>3, ReplaceOne
  <2>5. StoreOK'
    BY <1>1, <2>1, StoreCommands
  <2>6. TypeOK'
    BY <1>1, <2>1, <2>2, <2>4, <2>5, TypedAgain DEF TypeOK
  <2> QED BY <1>4, <2>1, <2>4, <2>6
<1>12. ASSUME actor[a].stage # "start", NEW st \in Stage \ {"start"},
              actor' = [actor EXCEPT ![a].stage = st],
              \/ store' = KvSet(store, "room", actor[a].next)
              \/ store' \in {store, KvSet(store, "private", actor[a].nextPriv)},
              UNCHANGED <<process, creating, registered, timerVars, changes, acked, crashes, orphaned>>,
              faults' \in 0 .. MaxFaults
       PROVE  BaseInv'
  <2> DEFINE o == [actor[a] EXCEPT !.stage = st]
  <2>1. actor' = [actor EXCEPT ![a] = o] /\ o \in SoundActor /\ o.queue # <<>>
    BY <1>3, <1>12, StageStep
  <2> HIDE DEF o
  <2>2. actor' \in [Actor -> SoundActor] /\ IdleIsForgotten'
    BY <1>12, <2>1, ReplaceOne
  <2>3. StoreOK'
    BY <1>1, <1>12, StoreCommands
  <2>4. TypeOK'
    BY <1>1, <1>12, <2>2, <2>3, TypedAgain DEF TypeOK
  <2> QED BY <1>4, <1>12, <2>2, <2>4
<1>13. CASE SavePublic(a)
  BY <1>12, <1>13 DEF SavePublic, Stage, TypeOK
<1>14. CASE SavePrivate(a)
  BY <1>12, <1>14 DEF SavePrivate, Stage, TypeOK
<1>15. CASE SavePrivateFails(a)
  BY <1>12, <1>15, FaultCounted DEF SavePrivateFails, FailedWrite, Stage
<1>16. CASE Commit(a)
  <2>1. /\ UNCHANGED <<process, creating, overdue, changes, crashes, orphaned>>
        /\ SyncTimers(actor[a].next)
        /\ acked' = acked \cup {c \in actor[a].next.changes : c \notin actor[a].room.changes}
    BY <1>16 DEF Commit
  <2>2. \E ks \in SUBSET Key : store' = KvExpire(store, ks)
    BY <1>1, <1>16 DEF Commit, Refresh
  <2>3. faults' \in 0 .. MaxFaults
    BY <1>16, FaultCounted DEF Commit, TypeOK
  <2> DEFINE o == Left(a, Took(actor[a]))
  <2>4. actor' = [actor EXCEPT ![a] = o] /\ registered' = registered
        /\ Took(actor[a]) \in SoundActor /\ Took(actor[a]).queue # <<>>
    BY <1>3, <1>16, CommitStep
  <2>5. o \in SoundActor /\ (a # registered /\ o.queue = <<>> => o = Blank)
    BY <2>4, LeftFacts
  <2> HIDE DEF o
  <2>6. actor' \in [Actor -> SoundActor] /\ IdleIsForgotten'
    BY <2>4, <2>5, ReplaceOne
  <2>7. StoreOK'
    BY <1>1, <2>1, <2>2, StoreCommands
  <2>8. acked' \subseteq 1 .. changes
    BY <1>1, <2>1 DEF TypeOK, Half
  <2>9. armed' \in [Timer -> 0 .. MaxChanges]
    BY <1>1, <2>1, SyncTyped
  <2>10. TypeOK'
    BY <1>1, <2>1, <2>3, <2>4, <2>6, <2>7, <2>8, <2>9, TypedAgain DEF TypeOK
  <2> QED BY <1>4, <2>1, <2>6, <2>10
<1> QED BY <1>6, <1>7, <1>8, <1>9, <1>10, <1>11, <1>13, <1>14, <1>15, <1>16 DEF Work, Fruitless

\* The steps of the environment.
LEMMA BaseEnvironment ==
    ASSUME BaseInv, EvictIdle \/ Tick \/ Crash
    PROVE  BaseInv'
<1> USE DEF BaseInv, storeVars, timerVars, historyVars
<1>1. /\ actor \in [Actor -> SoundActor] /\ registered \in Actor \cup {NoActor} /\ StoreOK
      /\ NoTimeouts \in [Timer -> 0 .. MaxChanges] /\ Blank \in SoundActor
  BY TypedMemory, BlankSound, ServiceAssumption DEF TypeOK, StoreOK, NoTimeouts
<1>2. CASE EvictIdle
  <2>1. /\ registered \in Actor /\ registered' = NoActor /\ armed' = NoTimeouts
        /\ UNCHANGED <<storeVars, overdue, changes, acked, faults, crashes>>
        /\ actor' = IF Running(registered) THEN actor ELSE [actor EXCEPT ![registered] = Blank]
        /\ orphaned' = (orphaned \/ Running(registered))
    BY <1>1, <1>2 DEF EvictIdle
  <2>2. actor' \in [Actor -> SoundActor]
    BY <1>1, <2>1
  <2>3. orphaned' \in BOOLEAN
    BY <2>1 DEF TypeOK
  <2>4. StoreOK'
    BY <1>1, <2>1, StoreCommands
  <2>5. TypeOK'
    BY <1>1, <2>1, <2>2, <2>3, <2>4, TypedAgain DEF TypeOK
  <2>6. IdleIsForgotten'
    BY <1>1, <2>1 DEF IdleIsForgotten, Running
  <2>7. UnknownUntilCreated'
    BY <2>1, OnlyWhileKnown, StillKnown, ServiceAssumption
  <2> QED BY <2>5, <2>6, <2>7
<1>3. CASE Tick
  <2>1. /\ creating \in {"done", "failed"} /\ \A a \in Actor : actor[a].queue = <<>>
        /\ store' = KvTick(store)
        /\ actor' = [a \in Actor |-> IF a = registered THEN [actor[a] EXCEPT !.idle = TRUE]
                                     ELSE actor[a]]
        /\ UNCHANGED <<process, creating, registered, timerVars, historyVars>>
    BY <1>3 DEF Tick, Running
  <2>2. \A a \in Actor : [actor[a] EXCEPT !.idle = TRUE] \in SoundActor
    BY <1>1 DEF SoundActor, ActorObject, Staged
  <2>3. actor' \in [Actor -> SoundActor]
    BY <1>1, <2>1, <2>2
  <2>4. StoreOK'
    BY <1>1, <2>1, StoreCommands
  <2>5. TypeOK'
    BY <1>1, <2>1, <2>3, <2>4, TypedAgain DEF TypeOK
  <2>6. IdleIsForgotten'
    BY <2>1 DEF IdleIsForgotten, Running
  <2>7. UnknownUntilCreated'
    <3>1. \A k \in {"room", "private"} : KvHas(store', k) => KvHas(store, k) /\ KvGet(store', k) = KvGet(store, k)
      <4>1. \A k \in Key : store[k].left \in Nat /\ store[k] \in Entry
        BY <1>1 DEF StoreOK, Entry
      <4>2. \A k \in Key : store[k].left > 1 => [store[k] EXCEPT !.left = @ - 1].value = store[k].value
        BY <4>1 DEF Entry
      <4> QED BY <2>1, <4>1, <4>2, ServiceAssumption DEF KvTick, KvHas, KvGet, Gone
    <3>2. NobodyHasIt => NobodyHasIt'
      BY <1>1, <2>1, ServiceAssumption DEF NobodyHasIt
    <3> QED BY <2>1, <3>1, <3>2 DEF UnknownUntilCreated, KvHas, KvGet
  <2> QED BY <2>5, <2>6, <2>7
<1>4. CASE Crash
  <2>1. /\ process \in {"up", "closing"} /\ crashes < MaxCrashes /\ process' = "redis"
        /\ crashes' = crashes + 1
        /\ creating' = IF creating \in Key THEN "failed" ELSE creating
        /\ registered' = NoActor /\ actor' = [a \in Actor |-> Blank] /\ armed' = NoTimeouts
        /\ UNCHANGED <<store, overdue, changes, acked, faults, orphaned>>
    BY <1>4 DEF Crash
  <2>2. actor' \in [Actor -> SoundActor]
    BY <1>1, <2>1
  <2>3. crashes' \in 0 .. MaxCrashes
    BY <2>1, ServiceAssumption DEF TypeOK
  <2>4. StoreOK'
    BY <1>1, <2>1, StoreCommands
  <2>5. creating' \in Key \cup {"none", "done", "failed"} /\ creating' \notin Key
        /\ (creating = "done" => creating' = "done")
        /\ (creating # "done" => creating' # "done")
    BY <2>1, ServiceAssumption DEF TypeOK
  <2>6. TypeOK'
    BY <1>1, <2>1, <2>2, <2>3, <2>4, <2>5, TypedAgain DEF TypeOK
  <2>7. IdleIsForgotten'
    BY <2>1 DEF IdleIsForgotten
  <2>8. NobodyHasIt'
    BY <2>1 DEF NobodyHasIt
  <2>9. UnknownUntilCreated'
    BY <2>1, <2>5, <2>8 DEF UnknownUntilCreated, KvHas, KvGet
  <2> QED BY <2>6, <2>7, <2>9
<1> QED BY <1>2, <1>3, <1>4

\* Every step keeps the base invariant.
LEMMA BaseStep ==
    ASSUME BaseInv, [Next]_vars
    PROVE  BaseInv'
<1>1. CASE UNCHANGED vars
  <2> USE <1>1 DEF vars, storeVars, timerVars, historyVars
  <2>1. StoreOK'
    <3>1. StoreOK /\ store' = store /\ changes' = changes
      BY DEF BaseInv, TypeOK, StoreOK
    <3> QED BY <3>1, StoreCommands
  <2>2. TypeOK'
    BY <2>1, TypedMemory, TypedAgain DEF BaseInv, TypeOK
  <2> QED BY <2>2 DEF BaseInv, IdleIsForgotten, UnknownUntilCreated, NobodyHasIt, Running, KvHas, KvGet
<1>2. CASE Next
  <2>1. CASE ProcessStep \/ CreateSave \/ CreateFails
    BY <2>1, BaseCreation
  <2>2. CASE ClientRequest \/ \E t \in Timer : TimerFires(t) \/ DeadlinePasses(t)
    BY <2>2, BaseRequests
  <2>3. ASSUME NEW a \in Actor,
               Work(a) \/ LoadFails(a) \/ SavePublicFails(a) \/ SavePrivateFails(a)
        PROVE  BaseInv'
    BY <2>3, BaseWork
  <2>4. CASE EvictIdle \/ Tick \/ Crash
    BY <2>4, BaseEnvironment
  <2> QED BY <1>2, <2>1, <2>2, <2>3, <2>4 DEF Next, ProcessStep
<1> QED BY <1>1, <1>2

\* The base invariant holds.
LEMMA BaseHolds == Spec => []BaseInv
BY BaseInit, BaseStep, PTL DEF Spec

\* Types: the store, the actors and the timers hold values of their kind in every state.
THEOREM ServiceTypes == Spec => []TypeOK
<1>1. BaseInv => TypeOK
  BY DEF BaseInv
<1> QED BY <1>1, BaseHolds, PTL

-----------------------------------------------------------------------------
(* A timer's event is only on its way for a deadline that has passed *)

TaskDue(od, task) == task.kind \in {"check", "expire"} => task.id \in od[task.timer]

QueueDue(od, q) == \A i \in 1 .. Len(q) : TaskDue(od, q[i])

\* A queue stays due when its head leaves it, when a due task joins it, and as deadlines pass.
LEMMA QueueDueFacts ==
    ASSUME NEW od, NEW q \in Seq(TaskSet), QueueDue(od, q)
    PROVE  /\ q # <<>> => QueueDue(od, Tail(q)) /\ TaskDue(od, Head(q))
           /\ \A task \in TaskSet : TaskDue(od, task) => QueueDue(od, Append(q, task))
<1>1. ASSUME q # <<>>
      PROVE  QueueDue(od, Tail(q)) /\ TaskDue(od, Head(q))
  <2>1. /\ Len(q) \in Nat /\ Len(q) >= 1 /\ q[1] = Head(q) /\ Len(Tail(q)) = Len(q) - 1
        /\ \A i \in 1 .. Len(Tail(q)) : Tail(q)[i] = q[i + 1]
    BY <1>1, TailTasks
  <2>2. \A i \in 1 .. Len(Tail(q)) : i + 1 \in 1 .. Len(q)
    BY <2>1
  <2>3. 1 \in 1 .. Len(q)
    BY <2>1
  <2> QED BY <2>1, <2>2, <2>3 DEF QueueDue
<1>2. ASSUME NEW task \in TaskSet, TaskDue(od, task)
      PROVE  QueueDue(od, Append(q, task))
  <2>1. /\ Len(q) \in Nat /\ Len(Append(q, task)) = Len(q) + 1
        /\ \A i \in 1 .. Len(q) : Append(q, task)[i] = q[i]
        /\ Append(q, task)[Len(q) + 1] = task
    BY AppendTask
  <2>2. \A i \in 1 .. Len(Append(q, task)) : i \in 1 .. Len(q) \/ i = Len(q) + 1
    BY <2>1
  <2> QED BY <1>2, <2>1, <2>2 DEF QueueDue
<1> QED BY <1>1, <1>2

\* A new actor has only recoveries.
LEMMA FetchedDue ==
    ASSUME NEW od
    PROVE  QueueDue(od, <<>>) /\ QueueDue(od, Fetched.queue)
<1>1. QueueDue(od, <<>>)
  BY DEF QueueDue
<1>2. Fetched.queue = <<Task("recover", "phase", 0), Task("recover", "clock", 0)>>
  BY FetchedFacts
<1>3. \A i \in 1 .. Len(Fetched.queue) : Fetched.queue[i].kind = "recover"
  <2>1. Len(Fetched.queue) = 2
    BY <1>2
  <2>2. \A i \in 1 .. 2 : i = 1 \/ i = 2
    OBVIOUS
  <2> QED BY <1>2, <2>1, <2>2 DEF Task
<1> QED BY <1>1, <1>3 DEF QueueDue, TaskDue

\* Of the actors after a request, each has a queue that was due, and maybe a due task more.
LEMMA RequestDue ==
    ASSUME NEW od, NEW A \in [Actor -> SoundActor], NEW r,
           \A c \in Actor : QueueDue(od, A[c].queue),
           NEW b \in Actor, NEW G \in [Actor -> SoundActor],
           Found([actor |-> A, registered |-> r], b, G)
    PROVE  /\ \A c \in Actor : QueueDue(od, G[c].queue)
           /\ \A task \in TaskSet : TaskDue(od, task) => QueueDue(od, Given(G[b], task).queue)
<1>1. G = A \/ G = [A EXCEPT ![b] = Fetched]
  BY DEF Found
<1>2. \A c \in Actor : QueueDue(od, G[c].queue)
  BY <1>1, FetchedDue
<1>3. G[b].queue \in Seq(TaskSet)
  BY DEF SoundActor, ActorObject
<1>4. ASSUME NEW task \in TaskSet, TaskDue(od, task)
      PROVE  QueueDue(od, Given(G[b], task).queue)
  <2>1. Given(G[b], task).queue = Append(G[b].queue, task)
    BY GivenFacts
  <2> QED BY <1>2, <1>3, <1>4, <2>1, QueueDueFacts
<1> QED BY <1>2, <1>4

\* So do the actors after handleExpiry for a deadline that has passed.
LEMMA ExpiryDue ==
    ASSUME NEW od, NEW A \in [Actor -> SoundActor], NEW r,
           \A c \in Actor : QueueDue(od, A[c].queue),
           NEW b \in Actor, NEW G \in [Actor -> SoundActor],
           Found([actor |-> A, registered |-> r], b, G),
           NEW t \in Timer, NEW id \in 0 .. MaxChanges, id \in od[t],
           NEW H, Expires(G, b, t, id, H)
    PROVE  \A c \in Actor : QueueDue(od, H[c].queue)
<1>1. /\ \A c \in Actor : QueueDue(od, G[c].queue)
      /\ \A task \in TaskSet : TaskDue(od, task) => QueueDue(od, Given(G[b], task).queue)
  BY RequestDue
<1>2. /\ \A c \in Actor \ {b} : H[c] = G[c]
      /\ \/ H[b] = G[b]
         \/ H[b] = Given(G[b], Task("check", t, id))
         \/ H[b] = Given(G[b], Task("expire", t, id))
  BY ExpiresOne
<1>3. /\ Task("check", t, id) \in TaskSet /\ TaskDue(od, Task("check", t, id))
      /\ Task("expire", t, id) \in TaskSet /\ TaskDue(od, Task("expire", t, id))
  BY DEF Task, TaskSet, TaskDue
<1> QED BY <1>1, <1>2, <1>3

\* Every step leaves every queue due for the deadlines that had passed before it.
LEMMA QueuesStayDue ==
    ASSUME BaseInv, Next, \A c \in Actor : QueueDue(overdue, actor[c].queue)
    PROVE  \A c \in Actor : QueueDue(overdue, actor'[c].queue)
<1> DEFINE Goal == \A c \in Actor : QueueDue(overdue, actor'[c].queue)
<1>1. /\ actor \in [Actor -> SoundActor] /\ registered \in Actor \cup {NoActor} /\ TypeOK
      /\ Memory = [actor |-> actor, registered |-> registered]
      /\ \A c \in Actor : actor[c].queue \in Seq(TaskSet)
  BY TypedMemory DEF BaseInv, Memory, SoundActor, ActorObject
<1>2. CASE UNCHANGED actor
  BY <1>2
<1>3. ASSUME NEW a \in Actor, NEW o, actor' = [actor EXCEPT ![a] = o], QueueDue(overdue, o.queue)
      PROVE  Goal
  BY <1>1, <1>3
<1>4. \A a \in Actor : Running(a) => /\ Left(a, actor[a]).queue = Tail(actor[a].queue)
                                     /\ QueueDue(overdue, Tail(actor[a].queue))
                                     /\ TaskDue(overdue, HeadTask(a))
  BY <1>1, LeftFacts, QueueDueFacts DEF Running, HeadTask
<1>5. CASE ProcessStep \/ CreateFails \/ \E t \in Timer : DeadlinePasses(t)
  BY <1>2, <1>5 DEF ProcessStep, ConnectToRedis, ConnectToDatabase, CreateRuntime, StartFails,
                    Shutdown, CreateRoom, CreateFails, DeadlinePasses
<1>6. CASE CreateSave
  <2>1. actor' = actor \/ \E a : actor' = [actor EXCEPT ![a] = [Blank EXCEPT !.loaded = TRUE]]
    BY <1>6 DEF CreateSave
  <2>2. [Blank EXCEPT !.loaded = TRUE].queue = <<>>
    BY DEF Blank
  <2>3. ASSUME NEW a, actor' = [actor EXCEPT ![a] = [Blank EXCEPT !.loaded = TRUE]], NEW c \in Actor
        PROVE  QueueDue(overdue, actor'[c].queue)
    BY <1>1, <2>2, <2>3, FetchedDue
  <2> QED BY <2>1, <2>3
<1>7. CASE ClientRequest
  <2>1. PICK b \in Actor, G \in [Actor -> SoundActor] :
           Found(Memory, b, G) /\ actor' = [G EXCEPT ![b] = Given(G[b], ClientEvent)]
    BY <1>1, <1>7, RequestStep
  <2>2. ClientEvent \in TaskSet /\ TaskDue(overdue, ClientEvent)
    BY <1>1, <1>7, RequestStep DEF TaskDue, ClientEvent, Task
  <2>3. /\ \A c \in Actor : QueueDue(overdue, G[c].queue)
        /\ QueueDue(overdue, Given(G[b], ClientEvent).queue)
    BY <1>1, <2>1, <2>2, RequestDue
  <2> QED BY <2>1, <2>3
<1>8. ASSUME NEW t \in Timer, TimerFires(t)
      PROVE  Goal
  <2>1. PICK b \in Actor, G \in [Actor -> SoundActor] :
           Found(Memory, b, G) /\ Expires(G, b, t, armed[t], actor')
    BY <1>1, <1>8, FireStep
  <2>2. armed[t] \in 0 .. MaxChanges /\ armed[t] \in overdue[t]
    BY <1>1, <1>8, FireStep, ServiceAssumption
  <2> QED BY <1>1, <2>1, <2>2, ExpiryDue
<1>9. ASSUME NEW a \in Actor, Load(a)
      PROVE  Goal
  BY <1>1, <1>3, <1>9, LoadStep
<1>10. ASSUME NEW a \in Actor, Fruitless(a)
       PROVE  Goal
  BY <1>1, <1>3, <1>4, <1>10, FruitlessStep
<1>11. ASSUME NEW a \in Actor, Recover(a)
       PROVE  Goal
  <2> DEFINE t == HeadTask(a).timer
             s == actor[a].room.slot[t]
             A == [actor EXCEPT ![a] = Left(a, actor[a])]
  <2>1. /\ Running(a) /\ t \in Timer /\ s \in Deadline /\ A \in [Actor -> SoundActor]
        /\ \/ actor' = A
           \/ /\ Passed(t, s)
              /\ \E b \in Actor, G \in [Actor -> SoundActor] :
                    /\ Found([actor |-> A, registered |-> registered], b, G)
                    /\ Expires(G, b, t, s.id, actor')
    BY <1>1, <1>11, RecoverStep
  <2>2. \A c \in Actor : QueueDue(overdue, A[c].queue)
    BY <1>1, <1>4, <2>1
  <2> HIDE DEF t, s, A
  <2>3. CASE Passed(t, s)
    <3>1. s.id \in 0 .. MaxChanges /\ s.id \in overdue[t]
      BY <2>1, <2>3, DeadlineFacts DEF Passed
    <3> QED BY <2>1, <2>2, <3>1, ExpiryDue
  <2> QED BY <2>1, <2>2, <2>3
<1>12. ASSUME NEW a \in Actor, Check(a)
       PROVE  Goal
  <2> DEFINE task == Task("expire", HeadTask(a).timer, HeadTask(a).id)
             l == Left(a, actor[a])
  <2>1. /\ Running(a) /\ HeadTask(a).kind = "check" /\ task \in TaskSet
        /\ actor' = [actor EXCEPT ![a] = l] \/ actor' = [actor EXCEPT ![a] = Given(l, task)]
    BY <1>1, <1>12, CheckStep
  <2>2. TaskDue(overdue, task) /\ QueueDue(overdue, l.queue)
    BY <1>4, <2>1 DEF TaskDue, Task
  <2>3. l \in SoundActor /\ l.queue \in Seq(TaskSet)
    BY <1>1, <2>1, LeftFacts DEF Running, SoundActor, ActorObject
  <2> HIDE DEF l, task
  <2>4. QueueDue(overdue, Given(l, task).queue)
    <3>1. Given(l, task).queue = Append(l.queue, task)
      BY <2>1, <2>3, GivenFacts
    <3> DEFINE q == l.queue
    <3>2. q \in Seq(TaskSet) /\ QueueDue(overdue, q)
      BY <2>2, <2>3
    <3> HIDE DEF q
    <3>3. \A x \in TaskSet : TaskDue(overdue, x) => QueueDue(overdue, Append(q, x))
      BY <3>2, QueueDueFacts
    <3>4. QueueDue(overdue, Append(q, task))
      BY <2>1, <2>2, <3>3
    <3> QED BY <3>1, <3>4 DEF q
  <2> QED BY <1>3, <2>1, <2>2, <2>4
<1>13. ASSUME NEW a \in Actor, Accept(a)
       PROVE  Goal
  BY <1>1, <1>3, <1>13, AcceptStep
<1>14. ASSUME NEW a \in Actor, Reject(a)
       PROVE  Goal
  <2> DEFINE l == Left(a, actor[a])
  <2>1. Running(a) /\ actor' = [actor EXCEPT ![a] = [l EXCEPT !.idle = FALSE]]
    BY <1>1, <1>14, RejectStep
  <2>2. l \in ActorObject /\ QueueDue(overdue, l.queue)
    BY <1>1, <1>4, <2>1, LeftFacts DEF Running, SoundActor
  <2>3. [l EXCEPT !.idle = FALSE].queue = l.queue
    BY <2>2 DEF ActorObject
  <2> QED BY <1>3, <2>1, <2>2, <2>3
<1>15. ASSUME NEW a \in Actor, SavePublic(a) \/ SavePrivate(a) \/ SavePrivateFails(a)
       PROVE  Goal
  <2>1. /\ actor[a].stage # "start"
        /\ \E st \in Stage \ {"start"} : actor' = [actor EXCEPT ![a].stage = st]
    BY <1>15 DEF SavePublic, SavePrivate, SavePrivateFails, Stage
  <2> QED BY <1>1, <1>3, <2>1, StageStep
<1>16. ASSUME NEW a \in Actor, Commit(a)
       PROVE  Goal
  <2>1. /\ Running(a) /\ Took(actor[a]) \in SoundActor /\ Took(actor[a]).queue = actor[a].queue
        /\ actor' = [actor EXCEPT ![a] = Left(a, Took(actor[a]))]
    BY <1>1, <1>16, CommitStep
  <2>2. Left(a, Took(actor[a])).queue = Tail(actor[a].queue)
    BY <2>1, LeftFacts DEF Running
  <2> QED BY <1>3, <1>4, <2>1, <2>2
<1>17. CASE EvictIdle \/ Tick \/ Crash
  <2>1. \A c \in Actor : actor'[c].queue \in {actor[c].queue, <<>>}
    BY <1>1, <1>17, BlankFields DEF EvictIdle, Tick, Crash, SoundActor, ActorObject
  <2> QED BY <2>1, FetchedDue
<1> QED BY <1>5, <1>6, <1>7, <1>8, <1>9, <1>10, <1>11, <1>12, <1>13, <1>14, <1>15, <1>16, <1>17
        DEF Next, Work, ProcessStep, Fruitless

\* A timer's event is only ever on its way for a deadline that has passed: whatever checks
\* and expiries wait in an actor's queue, for however many actors, crashes and faults.
THEOREM ExpiriesOnlyWhenDue == Spec => []ExpiriesAreDue
<1>1. Init => ExpiriesAreDue
  <2>1. Init => \A a \in Actor : actor[a].queue = <<>>
    BY BlankFields DEF Init
  <2> QED BY <2>1 DEF ExpiriesAreDue
<1>2. ExpiriesAreDue <=> \A c \in Actor : QueueDue(overdue, actor[c].queue)
  BY DEF ExpiriesAreDue, QueueDue, TaskDue
<1>3. BaseInv /\ ExpiriesAreDue /\ [Next]_vars => ExpiriesAreDue'
  <2> SUFFICES ASSUME BaseInv, ExpiriesAreDue, [Next]_vars PROVE ExpiriesAreDue'
    OBVIOUS
  <2>1. CASE UNCHANGED vars
    BY <2>1 DEF vars, timerVars, ExpiriesAreDue
  <2>2. CASE Next
    <3>1. \A c \in Actor : QueueDue(overdue, actor'[c].queue)
      BY <1>2, <2>2, QueuesStayDue
    <3>2. \A t \in Timer : overdue[t] \subseteq overdue'[t]
      <4>1. overdue' = overdue \/ \E t \in Timer : DeadlinePasses(t)
        BY <2>2 DEF Next, ConnectToRedis, ConnectToDatabase, CreateRuntime, StartFails, Shutdown,
                    CreateRoom, CreateSave, CreateFails, ClientRequest, TimerFires, Work, Load,
                    LoadInconsistent, LoadFails, Recover, Check, Accept, Reject, SavePublic,
                    SavePrivate, SavePublicFails, SavePrivateFails, Undo, Commit, EvictIdle, Tick,
                    Crash, timerVars
      <4>2. overdue \in [Timer -> SUBSET (1 .. MaxChanges)]
        BY DEF BaseInv, TypeOK
      <4> QED BY <4>1, <4>2 DEF DeadlinePasses
    <3>3. \A c \in Actor : actor'[c].queue \in Seq(TaskSet)
      <4>1. BaseInv'
        BY <2>2, BaseStep
      <4> QED BY <4>1 DEF BaseInv, TypeOK, ActorObject
    <3>4. \A c \in Actor : \A i \in 1 .. Len(actor'[c].queue) : actor'[c].queue[i].timer \in Timer
      <4>1. ASSUME NEW c \in Actor, NEW i \in 1 .. Len(actor'[c].queue)
            PROVE  actor'[c].queue[i] \in TaskSet
        BY <3>3, <4>1, ElementOfSeq
      <4> QED BY <4>1 DEF TaskSet
    <3> QED BY <3>1, <3>2, <3>4 DEF ExpiriesAreDue, QueueDue, TaskDue
  <2> QED BY <2>1, <2>2
<1> QED BY <1>1, <1>3, BaseHolds, PTL DEF Spec

-----------------------------------------------------------------------------
(* What a step does to one actor's copy of the room, and to the stored halves *)

SameRoom(c) ==
    /\ actor'[c].loaded = actor[c].loaded
    /\ actor'[c].room = actor[c].room /\ actor'[c].priv = actor[c].priv

SameResult(c) == actor'[c].next = actor[c].next /\ actor'[c].nextPriv = actor[c].nextPriv

Keeps(c) == SameRoom(c) /\ SameResult(c) /\ actor'[c].stage = actor[c].stage

\* The object is new, or forgotten: between the two saves only by a crash.
Drops(c) ==
    /\ ~actor'[c].loaded /\ actor'[c].stage = "start"
    /\ actor[c].stage = "private" => Crash

\* Its task ends and leaves the room as it was.
Ends(c) ==
    /\ SameRoom(c) /\ actor'[c].stage = "start"
    /\ actor[c].stage = "start" \/ SavePublicFails(c) \/ Undo(c)

TakesOver(c) ==
    /\ Commit(c)
    /\ actor'[c].loaded /\ actor'[c].stage = "start"
    /\ actor'[c].room = actor[c].next /\ actor'[c].priv = actor[c].nextPriv

Loads(c) ==
    /\ KvHas(store, "room") /\ KvHas(store, "private") /\ Running(c) /\ ~actor[c].loaded
    /\ actor'[c].loaded /\ actor'[c].stage = "start"
    /\ actor'[c].room = KvGet(store, "room") /\ actor'[c].priv = KvGet(store, "private")

Accepts(c) ==
    /\ Accept(c) /\ SameRoom(c)
    /\ actor[c].stage = "start" /\ actor'[c].stage = "public" /\ changes' = changes + 1
    /\ actor'[c].next.changes = actor[c].room.changes \cup {changes + 1}
    /\ actor'[c].nextPriv.changes = actor[c].priv.changes \cup {changes + 1}

Advances(c) ==
    /\ SameRoom(c) /\ SameResult(c)
    /\ \/ SavePublic(c) /\ actor[c].stage = "public" /\ actor'[c].stage = "private"
       \/ SavePrivate(c) /\ actor[c].stage = "private" /\ actor'[c].stage = "refresh"
       \/ SavePrivateFails(c) /\ actor[c].stage = "private" /\ actor'[c].stage = "undo"

IsCreated(c) ==
    /\ CreateSave /\ creating' = "done"
    /\ actor'[c].loaded /\ actor'[c].stage = "start"
    /\ actor'[c].room = FirstRoom /\ actor'[c].priv = FirstRoom

RoomStep(c) ==
    \/ Keeps(c) \/ Drops(c) \/ Ends(c) \/ TakesOver(c) \/ Loads(c)
    \/ Accepts(c) \/ Advances(c) \/ IsCreated(c)

\* What handleExpiry leaves of an object's copy of the room.
LEMMA ExpiryRoomStep ==
    ASSUME NEW A \in [Actor -> SoundActor], NEW r, NEW b \in Actor, NEW G \in [Actor -> SoundActor],
           Found([actor |-> A, registered |-> r], b, G), NEW c \in Actor,
           NEW t \in Timer, NEW id \in 0 .. MaxChanges, NEW H, Expires(G, b, t, id, H)
    PROVE  \/ /\ H[c].loaded = A[c].loaded /\ H[c].room = A[c].room /\ H[c].priv = A[c].priv
              /\ H[c].stage = A[c].stage /\ H[c].next = A[c].next /\ H[c].nextPriv = A[c].nextPriv
           \/ ~H[c].loaded /\ H[c].stage = "start" /\ A[c].stage = "start"
<1>1. G[c] = A[c] \/ (~G[c].loaded /\ G[c].stage = "start" /\ A[c].stage = "start")
  <2>1. A[c] \in SoundActor
    OBVIOUS
  <2>2. A[c].queue = <<>> => A[c].stage = "start"
    BY <2>1 DEF SoundActor, Staged
  <2> QED BY <2>2, FetchedFacts DEF Found
<1>2. H[c] = G[c] \/ \E task \in TaskSet : H[c] = Given(G[c], task)
  <2>1. /\ \A d \in Actor \ {b} : H[d] = G[d]
        /\ \/ H[b] = G[b]
           \/ H[b] = Given(G[b], Task("check", t, id))
           \/ H[b] = Given(G[b], Task("expire", t, id))
    BY ExpiresOne
  <2>2. Task("check", t, id) \in TaskSet /\ Task("expire", t, id) \in TaskSet
    BY DEF Task, TaskSet
  <2> QED BY <2>1, <2>2
<1>3. ASSUME NEW task \in TaskSet, H[c] = Given(G[c], task)
      PROVE  /\ H[c].loaded = G[c].loaded /\ H[c].room = G[c].room /\ H[c].priv = G[c].priv
             /\ H[c].stage = G[c].stage /\ H[c].next = G[c].next /\ H[c].nextPriv = G[c].nextPriv
  <2> DEFINE g == G[c]
  <2>1. g \in SoundActor
    OBVIOUS
  <2> HIDE DEF g
  <2>2. /\ Given(g, task).loaded = g.loaded /\ Given(g, task).stage = g.stage
        /\ Given(g, task).room = g.room /\ Given(g, task).priv = g.priv
        /\ Given(g, task).next = g.next /\ Given(g, task).nextPriv = g.nextPriv
    BY <2>1, GivenFacts
  <2> QED BY <1>3, <2>2 DEF g
<1> QED BY <1>1, <1>2, <1>3

\* Every step is one of these to every actor.
LEMMA RoomSteps ==
    ASSUME BaseInv, Next, NEW c \in Actor
    PROVE  RoomStep(c)
<1>1. /\ actor \in [Actor -> SoundActor] /\ registered \in Actor \cup {NoActor} /\ TypeOK
      /\ Memory = [actor |-> actor, registered |-> registered]
  BY TypedMemory DEF BaseInv, Memory
<1>2. CASE UNCHANGED actor
  BY <1>2 DEF RoomStep, Keeps, SameRoom, SameResult
<1>3. ASSUME NEW a \in Actor, c # a, NEW o, actor' = [actor EXCEPT ![a] = o]
      PROVE  RoomStep(c)
  BY <1>1, <1>3 DEF RoomStep, Keeps, SameRoom, SameResult
<1>4. ASSUME Running(c)
      PROVE  /\ Left(c, actor[c]) \in SoundActor /\ Left(c, actor[c]).stage = "start"
             /\ \/ ~Left(c, actor[c]).loaded
                \/ /\ Left(c, actor[c]).loaded = actor[c].loaded
                   /\ Left(c, actor[c]).room = actor[c].room
                   /\ Left(c, actor[c]).priv = actor[c].priv
  BY <1>1, <1>4, LeftFacts, BlankFields DEF Running
<1>5. CASE ProcessStep \/ CreateFails \/ \E t \in Timer : DeadlinePasses(t)
  BY <1>2, <1>5 DEF ProcessStep, ConnectToRedis, ConnectToDatabase, CreateRuntime, StartFails,
                    Shutdown, CreateRoom, CreateFails, DeadlinePasses
<1>6. CASE CreateSave
  <2>1. CASE creating' # "done"
    BY <1>2, <1>6, <2>1 DEF CreateSave
  <2>2. CASE creating' = "done"
    <3> DEFINE a == CHOOSE f \in Free(Memory) : TRUE
               o == [Blank EXCEPT !.loaded = TRUE]
    <3>1. actor' = [actor EXCEPT ![a] = o]
      BY <1>6, <2>2 DEF CreateSave
    <3>2. o.loaded /\ o.stage = "start" /\ o.room = FirstRoom /\ o.priv = FirstRoom
      BY DEF Blank
    <3> HIDE DEF a, o
    <3>3. actor'[c] = o \/ actor'[c] = actor[c]
      BY <1>1, <3>1
    <3> QED BY <1>6, <2>2, <3>2, <3>3 DEF RoomStep, Keeps, SameRoom, SameResult, IsCreated
  <2> QED BY <2>1, <2>2
<1>7. CASE ClientRequest
  <2>1. PICK b \in Actor, G \in [Actor -> SoundActor] :
           Found(Memory, b, G) /\ actor' = [G EXCEPT ![b] = Given(G[b], ClientEvent)]
    BY <1>1, <1>7, RequestStep
  <2>2. ClientEvent \in TaskSet
    BY <1>1, <1>7, RequestStep
  <2>3. G[c] = actor[c] \/ (~G[c].loaded /\ G[c].stage = "start" /\ actor[c].stage = "start")
    <3>1. actor[c].queue = <<>> => actor[c].stage = "start"
      BY <1>1 DEF TypeOK, Running
    <3> QED BY <1>1, <2>1, <3>1, FetchedFacts DEF Found
  <2>4. /\ actor'[c].loaded = G[c].loaded /\ actor'[c].room = G[c].room /\ actor'[c].priv = G[c].priv
        /\ actor'[c].stage = G[c].stage
        /\ actor'[c].next = G[c].next /\ actor'[c].nextPriv = G[c].nextPriv
    <3> DEFINE g == G[c]
    <3>1. g \in SoundActor /\ (actor'[c] = g \/ actor'[c] = Given(g, ClientEvent))
      BY <2>1
    <3> HIDE DEF g
    <3>2. /\ Given(g, ClientEvent).loaded = g.loaded /\ Given(g, ClientEvent).stage = g.stage
          /\ Given(g, ClientEvent).room = g.room /\ Given(g, ClientEvent).priv = g.priv
          /\ Given(g, ClientEvent).next = g.next /\ Given(g, ClientEvent).nextPriv = g.nextPriv
      BY <2>2, <3>1, GivenFacts
    <3> QED BY <3>1, <3>2 DEF g
  <2> QED BY <2>3, <2>4 DEF RoomStep, Keeps, SameRoom, SameResult, Drops
<1>8. ASSUME NEW t \in Timer, TimerFires(t)
      PROVE  RoomStep(c)
  <2>1. PICK b \in Actor, G \in [Actor -> SoundActor] :
           Found(Memory, b, G) /\ Expires(G, b, t, armed[t], actor')
    BY <1>1, <1>8, FireStep
  <2>2. armed[t] \in 0 .. MaxChanges
    BY <1>1, <1>8, FireStep, ServiceAssumption
  <2>3. \/ /\ actor'[c].loaded = actor[c].loaded /\ actor'[c].room = actor[c].room
           /\ actor'[c].priv = actor[c].priv /\ actor'[c].stage = actor[c].stage
           /\ actor'[c].next = actor[c].next /\ actor'[c].nextPriv = actor[c].nextPriv
        \/ ~actor'[c].loaded /\ actor'[c].stage = "start" /\ actor[c].stage = "start"
    BY <1>1, <2>1, <2>2, ExpiryRoomStep
  <2> QED BY <2>3 DEF RoomStep, Keeps, SameRoom, SameResult, Drops
<1>9. ASSUME NEW a \in Actor, Load(a)
      PROVE  RoomStep(c)
  <2>1. actor' = [actor EXCEPT ![a] = Loaded(actor[a])]
    BY <1>1, <1>9, LoadStep
  <2>2. CASE c = a
    <3>1. actor'[c] = Loaded(actor[a])
      BY <1>1, <2>1, <2>2
    <3> QED BY <1>1, <1>9, <2>2, <3>1, LoadStep DEF RoomStep, Loads, Load
  <2> QED BY <1>3, <2>1, <2>2
<1>10. ASSUME NEW a \in Actor, Fruitless(a) \/ Reject(a) \/ Check(a)
       PROVE  RoomStep(c)
  <2> DEFINE l == Left(a, actor[a])
  <2>1. /\ Running(a)
        /\ \/ actor' = [actor EXCEPT ![a] = l]
           \/ actor' = [actor EXCEPT ![a] = [l EXCEPT !.idle = FALSE]]
           \/ \E task \in TaskSet : actor' = [actor EXCEPT ![a] = Given(l, task)]
    BY <1>1, <1>10, FruitlessStep, RejectStep, CheckStep
  <2>4. actor[a].stage = "start" \/ SavePublicFails(a) \/ (Undo(a) /\ actor[a].stage = "undo")
    BY <1>1, <1>10 DEF Fruitless, LoadInconsistent, LoadFails, Undo, Reject, Dispatching, Check, TypeOK
  <2>2. CASE c # a
    BY <1>3, <2>1, <2>2
  <2>3. CASE c = a
    <3>1. /\ l \in SoundActor /\ l \in ActorObject /\ l.stage = "start"
          /\ ~l.loaded \/ (l.loaded = actor[c].loaded /\ l.room = actor[c].room /\ l.priv = actor[c].priv)
      BY <1>4, <2>1, <2>3 DEF SoundActor
    <3> HIDE DEF l
    <3>2. /\ actor'[c].loaded = l.loaded /\ actor'[c].room = l.room /\ actor'[c].priv = l.priv
          /\ actor'[c].stage = l.stage
      <4>1. CASE actor' = [actor EXCEPT ![a] = l]
        BY <1>1, <2>3, <4>1
      <4>2. CASE actor' = [actor EXCEPT ![a] = [l EXCEPT !.idle = FALSE]]
        <5>1. actor'[c] = [l EXCEPT !.idle = FALSE]
          BY <1>1, <2>3, <4>2
        <5> QED BY <3>1, <5>1 DEF ActorObject
      <4>3. ASSUME NEW task \in TaskSet, actor' = [actor EXCEPT ![a] = Given(l, task)]
            PROVE  actor'[c].loaded = l.loaded /\ actor'[c].room = l.room
                   /\ actor'[c].priv = l.priv /\ actor'[c].stage = l.stage
        <5>1. actor'[c] = Given(l, task)
          BY <1>1, <2>3, <4>3
        <5>2. l \in SoundActor
          BY <3>1
        <5>3. /\ Given(l, task).loaded = l.loaded /\ Given(l, task).room = l.room
              /\ Given(l, task).priv = l.priv /\ Given(l, task).stage = l.stage
          BY <5>2, GivenFacts
        <5> QED BY <5>1, <5>3
      <4> QED BY <2>1, <4>1, <4>2, <4>3
    <3>3. actor[c].stage # "private" /\ (actor[c].stage = "start" \/ SavePublicFails(c) \/ Undo(c))
      BY <2>3, <2>4 DEF SavePublicFails
    <3> QED BY <3>1, <3>2, <3>3 DEF RoomStep, Ends, SameRoom, Drops
  <2> QED BY <2>2, <2>3
<1>11. ASSUME NEW a \in Actor, Recover(a)
       PROVE  RoomStep(c)
  <2> DEFINE t == HeadTask(a).timer
             s == actor[a].room.slot[t]
             A == [actor EXCEPT ![a] = Left(a, actor[a])]
  <2>1. /\ Running(a) /\ t \in Timer /\ s \in Deadline /\ A \in [Actor -> SoundActor]
        /\ \/ actor' = A
           \/ \E b \in Actor, G \in [Actor -> SoundActor] :
                 /\ Found([actor |-> A, registered |-> registered], b, G)
                 /\ Expires(G, b, t, s.id, actor')
    BY <1>1, <1>11, RecoverStep
  <2>2. \/ A[c] = actor[c]
        \/ /\ A[c].stage = "start" /\ c = a
           /\ \/ ~A[c].loaded
              \/ A[c].loaded = actor[c].loaded /\ A[c].room = actor[c].room /\ A[c].priv = actor[c].priv
    BY <1>1, <1>4, <2>1
  <2>5. actor[a].stage = "start"
    BY <1>1, <1>11 DEF Recover, TypeOK
  <2> HIDE DEF t, s, A
  <2>3. s.id \in 0 .. MaxChanges
    BY <2>1, DeadlineFacts
  <2>4. \/ /\ actor'[c].loaded = A[c].loaded /\ actor'[c].room = A[c].room /\ actor'[c].priv = A[c].priv
           /\ actor'[c].stage = A[c].stage
           /\ actor'[c].next = A[c].next /\ actor'[c].nextPriv = A[c].nextPriv
        \/ ~actor'[c].loaded /\ actor'[c].stage = "start" /\ A[c].stage = "start"
    BY <2>1, <2>3, ExpiryRoomStep
  <2> QED BY <2>2, <2>4, <2>5 DEF RoomStep, Keeps, SameRoom, SameResult, Drops, Ends
<1>12. ASSUME NEW a \in Actor, Accept(a)
       PROVE  RoomStep(c)
  <2>1. PICK slot \in [Timer -> Deadline] :
           LET o == Dispatched(actor[a], changes + 1, slot)
           IN  /\ actor' = [actor EXCEPT ![a] = o]
               /\ o.stage = "public" /\ o.loaded
               /\ o.room = actor[a].room /\ o.priv = actor[a].priv
               /\ o.next.changes = actor[a].room.changes \cup {changes + 1}
               /\ o.nextPriv.changes = actor[a].priv.changes \cup {changes + 1}
    BY <1>1, <1>12, AcceptStep
  <2>2. CASE c = a
    <3>1. actor'[c] = Dispatched(actor[a], changes + 1, slot)
      BY <1>1, <2>1, <2>2
    <3>2. changes' = changes + 1 /\ actor[c].stage = "start" /\ actor[c].loaded
      BY <1>12, <2>2 DEF Accept, Dispatching
    <3>3. actor[c].loaded = TRUE /\ actor'[c].loaded = TRUE
      <4>1. actor[c] \in ActorObject /\ actor'[c] \in ActorObject'
        <5>1. actor'[c] \in SoundActor'
          BY <1>1, <1>12, <2>2, <3>1, BaseStep DEF BaseInv, TypeOK, SoundActor, Staged, Running, HeadTask
        <5> QED BY <1>1, <5>1 DEF SoundActor
      <4> QED BY <2>1, <3>1, <3>2, <4>1 DEF ActorObject
    <3> QED BY <1>12, <2>1, <2>2, <3>1, <3>2, <3>3 DEF RoomStep, Accepts, SameRoom
  <2> QED BY <1>3, <2>1, <2>2
<1>13. ASSUME NEW a \in Actor, SavePublic(a) \/ SavePrivate(a) \/ SavePrivateFails(a)
       PROVE  RoomStep(c)
  <2>1. CASE c # a
    BY <1>1, <1>13, <2>1 DEF SavePublic, SavePrivate, SavePrivateFails, RoomStep, Keeps, SameRoom, SameResult
  <2>2. CASE c = a
    <3>1. ASSUME NEW st \in Stage \ {"start"}, actor[a].stage # "start",
                 actor' = [actor EXCEPT ![a].stage = st]
          PROVE  SameRoom(c) /\ SameResult(c) /\ actor'[c].stage = st
      <4>1. actor'[c] = [actor[a] EXCEPT !.stage = st]
        BY <1>1, <2>2, <3>1
      <4> QED BY <1>1, <2>2, <3>1, <4>1, StageStep DEF SameRoom, SameResult
    <3>2. {"private", "refresh", "undo"} \subseteq Stage \ {"start"}
      BY DEF Stage
    <3>3. CASE SavePublic(a)
      BY <2>2, <3>1, <3>2, <3>3 DEF SavePublic, RoomStep, Advances
    <3>4. CASE SavePrivate(a)
      BY <2>2, <3>1, <3>2, <3>4 DEF SavePrivate, RoomStep, Advances
    <3>5. CASE SavePrivateFails(a)
      BY <2>2, <3>1, <3>2, <3>5 DEF SavePrivateFails, RoomStep, Advances
    <3> QED BY <1>13, <3>3, <3>4, <3>5
  <2> QED BY <2>1, <2>2
<1>14. ASSUME NEW a \in Actor, Commit(a)
       PROVE  RoomStep(c)
  <2> DEFINE o == Took(actor[a])
             l == Left(a, o)
  <2>1. /\ Running(a) /\ o \in SoundActor /\ o.queue = actor[a].queue /\ o.loaded = actor[a].loaded
        /\ o.room = actor[a].next /\ o.priv = actor[a].nextPriv
        /\ actor' = [actor EXCEPT ![a] = l]
    BY <1>1, <1>14, CommitStep
  <2>2. CASE c # a
    BY <1>3, <2>1, <2>2
  <2>3. CASE c = a
    <3>1. actor[a].loaded
      BY <1>14 DEF Commit, BaseInv, TypeOK
    <3>2. /\ l.stage = "start"
          /\ ~l.loaded \/ (l.loaded = o.loaded /\ l.room = o.room /\ l.priv = o.priv)
      BY <2>1, LeftFacts, BlankFields DEF Running
    <3>3. actor'[c] = l
      BY <1>1, <2>1, <2>3
    <3> HIDE DEF o, l
    <3>4. actor[c].stage = "refresh"
      BY <1>14, <2>3 DEF Commit
    <3> QED BY <1>14, <2>1, <2>3, <3>1, <3>2, <3>3, <3>4 DEF RoomStep, TakesOver, Drops
  <2> QED BY <2>2, <2>3
<1>15. CASE EvictIdle \/ Crash
  <2>1. actor'[c] = actor[c] \/ (actor'[c] = Blank /\ (Crash \/ actor[c].stage = "start"))
    BY <1>1, <1>15 DEF EvictIdle, Crash, TypeOK
  <2> QED BY <2>1, BlankFields DEF RoomStep, Keeps, SameRoom, SameResult, Drops
<1>16. CASE Tick
  <2>1. actor'[c] = actor[c] \/ actor'[c] = [actor[c] EXCEPT !.idle = TRUE]
    BY <1>16 DEF Tick
  <2>2. actor[c] \in ActorObject
    BY <1>1 DEF SoundActor
  <2> QED BY <2>1, <2>2 DEF RoomStep, Keeps, SameRoom, SameResult, ActorObject
<1> QED BY <1>5, <1>6, <1>7, <1>8, <1>9, <1>10, <1>11, <1>12, <1>13, <1>14, <1>15, <1>16
        DEF Next, Work, ProcessStep, Fruitless

-----------------------------------------------------------------------------
(* What the result of a dispatch has, and what a step does to the store *)


\* What the commands do to the entries and to the others.
LEMMA KvFacts ==
    ASSUME TypeOK, NEW k \in Key
    PROVE  /\ \A j \in Key : \A v :
                 /\ KvHas(KvSet(store, j, v), j) /\ KvGet(KvSet(store, j, v), j) = v
                 /\ j # k => /\ KvHas(KvSet(store, j, v), k) = KvHas(store, k)
                             /\ KvGet(KvSet(store, j, v), k) = KvGet(store, k)
           /\ \A j \in Key : /\ ~KvHas(KvDel(store, j), j)
                             /\ j # k => /\ KvHas(KvDel(store, j), k) = KvHas(store, k)
                                         /\ KvGet(KvDel(store, j), k) = KvGet(store, k)
           /\ \A ks : /\ KvHas(KvExpire(store, ks), k) = KvHas(store, k)
                      /\ KvGet(KvExpire(store, ks), k) = KvGet(store, k)
           /\ KvHas(KvTick(store), k) => KvHas(store, k) /\ KvGet(KvTick(store), k) = KvGet(store, k)
<1>1. store \in [Key -> Entry] /\ store[k] \in Entry /\ store[k].left \in Nat
  BY DEF TypeOK, Entry
<1>2. Ttl \in Nat /\ Ttl > 0
  BY StoreAssumption
<1>3. \A j \in Key : \A v :
         /\ KvHas(KvSet(store, j, v), j) /\ KvGet(KvSet(store, j, v), j) = v
         /\ j # k => /\ KvHas(KvSet(store, j, v), k) = KvHas(store, k)
                     /\ KvGet(KvSet(store, j, v), k) = KvGet(store, k)
  BY <1>1, <1>2 DEF KvHas, KvGet, KvSet
<1>4. \A j \in Key : /\ ~KvHas(KvDel(store, j), j)
                     /\ j # k => /\ KvHas(KvDel(store, j), k) = KvHas(store, k)
                                 /\ KvGet(KvDel(store, j), k) = KvGet(store, k)
  BY <1>1, <1>2 DEF KvHas, KvGet, KvDel, Gone
<1>5. ASSUME NEW ks
      PROVE  /\ KvHas(KvExpire(store, ks), k) = KvHas(store, k)
             /\ KvGet(KvExpire(store, ks), k) = KvGet(store, k)
  <2>1. CASE k \in ks /\ store[k].left > 0
    <3>1. KvExpire(store, ks)[k] = [store[k] EXCEPT !.left = Ttl]
      BY <2>1 DEF KvExpire, KvHas
    <3>2. KvExpire(store, ks)[k].left = Ttl /\ KvExpire(store, ks)[k].value = store[k].value
      BY <1>1, <3>1 DEF Entry
    <3> QED BY <1>2, <2>1, <3>2 DEF KvHas, KvGet
  <2>2. CASE ~(k \in ks /\ store[k].left > 0)
    <3>1. KvExpire(store, ks)[k] = store[k]
      BY <2>2 DEF KvExpire, KvHas
    <3> QED BY <3>1 DEF KvHas, KvGet
  <2> QED BY <2>1, <2>2
<1>6. KvHas(KvTick(store), k) => KvHas(store, k) /\ KvGet(KvTick(store), k) = KvGet(store, k)
  <2>1. CASE store[k].left > 1
    <3>1. KvTick(store)[k] = [store[k] EXCEPT !.left = store[k].left - 1]
      BY <2>1 DEF KvTick
    <3>2. KvTick(store)[k].value = store[k].value
      BY <1>1, <3>1 DEF Entry
    <3> QED BY <1>1, <2>1, <3>2 DEF KvHas, KvGet
  <2>2. CASE ~(store[k].left > 1)
    BY <2>2 DEF KvTick, KvHas, Gone
  <2> QED BY <2>1, <2>2
<1> QED BY <1>3, <1>4, <1>5, <1>6

\* persist() writes this half.
Writes(a, k) ==
    \/ k = "room" /\ (SavePublic(a) \/ SavePublicFails(a))
    \/ k = "private" /\ (SavePrivate(a) \/ SavePrivateFails(a))

Written(a, k) == IF k = "room" THEN actor[a].next ELSE actor[a].nextPriv

StoreStep(k) ==
    KvHas(store', k) =>
        \/ KvHas(store, k) /\ KvGet(store', k) = KvGet(store, k)
        \/ \E a \in Actor : Writes(a, k) /\ KvGet(store', k) = Written(a, k)
        \/ (CreateSave \/ CreateFails) /\ KvGet(store', k) = FirstRoom

\* A half that is in the store was there before, or is what somebody just wrote.
LEMMA StoreSteps ==
    ASSUME BaseInv, Next, NEW k \in {"room", "private"}
    PROVE  StoreStep(k)
<1>1. TypeOK /\ k \in Key /\ "room" \in Key /\ "private" \in Key
  BY ServiceAssumption DEF BaseInv
<1>2. CASE UNCHANGED store
  BY <1>2 DEF StoreStep
<1>3. ASSUME NEW j \in Key \ {k}, NEW v, store' = KvSet(store, j, v) \/ store' = KvDel(store, j)
      PROVE  StoreStep(k)
  BY <1>1, <1>3, KvFacts DEF StoreStep
<1>4. ASSUME NEW ks, store' = KvExpire(store, ks)
      PROVE  StoreStep(k)
  BY <1>1, <1>4, KvFacts DEF StoreStep
<1>5. CASE CreateSave \/ CreateFails
  <2>1. /\ creating \in Key
        /\ store' = store \/ store' = KvSet(store, creating, CreateValue(creating))
    BY <1>5, ServiceAssumption DEF CreateSave, CreateFails, FailedWrite, SaveOrder
  <2>2. CASE creating = k
    <3>1. CreateValue(creating) = FirstRoom
      BY <2>2 DEF CreateValue
    <3> QED BY <1>1, <1>2, <1>5, <2>1, <2>2, <3>1, KvFacts DEF StoreStep
  <2>3. CASE creating # k
    BY <1>2, <1>3, <2>1, <2>3
  <2> QED BY <2>2, <2>3
<1>6. ASSUME NEW a \in Actor, SavePublic(a) \/ SavePublicFails(a)
      PROVE  StoreStep(k)
  <2>1. store' = store \/ store' = KvSet(store, "room", actor[a].next)
    BY <1>6 DEF SavePublic, SavePublicFails, FailedWrite
  <2>2. CASE k = "room"
    BY <1>1, <1>2, <1>6, <2>1, <2>2, KvFacts DEF StoreStep, Writes, Written
  <2>3. CASE k = "private"
    BY <1>1, <1>2, <1>3, <2>1, <2>3
  <2> QED BY <2>2, <2>3
<1>7. ASSUME NEW a \in Actor, SavePrivate(a) \/ SavePrivateFails(a)
      PROVE  StoreStep(k)
  <2>1. store' = store \/ store' = KvSet(store, "private", actor[a].nextPriv)
    BY <1>7 DEF SavePrivate, SavePrivateFails, FailedWrite
  <2>2. CASE k = "private"
    BY <1>1, <1>2, <1>7, <2>1, <2>2, KvFacts DEF StoreStep, Writes, Written
  <2>3. CASE k = "room"
    BY <1>1, <1>2, <1>3, <2>1, <2>3
  <2> QED BY <2>2, <2>3
<1>8. ASSUME NEW a \in Actor, Undo(a)
      PROVE  StoreStep(k)
  <2>1. store' = store \/ store' = KvDel(store, "room")
    BY <1>8 DEF Undo, FailedWrite
  <2>2. CASE k = "room"
    BY <1>1, <1>2, <2>1, <2>2, KvFacts DEF StoreStep
  <2>3. CASE k = "private"
    BY <1>1, <1>2, <1>3, <2>1, <2>3
  <2> QED BY <2>2, <2>3
<1>9. ASSUME NEW a \in Actor, Commit(a)
      PROVE  StoreStep(k)
  BY <1>4, <1>9 DEF Commit, Refresh
<1>10. CASE Tick
  BY <1>1, <1>10, KvFacts DEF Tick, StoreStep
<1>11. ASSUME NEW a \in Actor,
              \/ Load(a) \/ LoadInconsistent(a) \/ LoadFails(a)
              \/ Recover(a) \/ Check(a) \/ Reject(a) \/ Accept(a)
       PROVE  UNCHANGED store
  BY <1>11 DEF Load, LoadInconsistent, LoadFails, Recover, Check, Reject, Accept, storeVars
<1>12. ASSUME NEW t \in Timer, TimerFires(t) \/ DeadlinePasses(t)
       PROVE  UNCHANGED store
  BY <1>12 DEF TimerFires, DeadlinePasses, storeVars
<1>13. CASE ProcessStep \/ ClientRequest \/ EvictIdle \/ Crash
  BY <1>2, <1>13 DEF ProcessStep, ConnectToRedis, ConnectToDatabase, CreateRuntime, StartFails,
                     Shutdown, CreateRoom, ClientRequest, EvictIdle, Crash, storeVars
<1> QED BY <1>2, <1>5, <1>6, <1>7, <1>8, <1>9, <1>10, <1>11, <1>12, <1>13
        DEF Next, Work, ProcessStep

\* What memory has, the result of the running dispatch has as well, and one change more.
ResultContains(o) ==
    o.stage # "start" =>
        \E n \in 1 .. changes :
            /\ o.next.changes = o.room.changes \cup {n}
            /\ o.nextPriv.changes = o.priv.changes \cup {n}

ResultsContain == \A a \in Actor : ResultContains(actor[a])

\* Changes are numbered in the order they are made.
LEMMA ChangesGrow ==
    ASSUME BaseInv, Next
    PROVE  /\ changes \in Nat /\ changes' \in Nat
           /\ changes' = changes \/ \E a \in Actor : Accept(a) /\ changes' = changes + 1
<1>1. changes \in Nat
  BY DEF BaseInv, TypeOK
<1>2. CASE ProcessStep \/ CreateSave \/ CreateFails \/ ClientRequest \/ EvictIdle \/ Tick \/ Crash
  BY <1>1, <1>2 DEF ProcessStep, ConnectToRedis, ConnectToDatabase, CreateRuntime, StartFails,
                    Shutdown, CreateRoom, CreateSave, CreateFails, ClientRequest, EvictIdle,
                    Tick, Crash, historyVars
<1>3. ASSUME NEW t \in Timer, TimerFires(t) \/ DeadlinePasses(t)
      PROVE  changes' = changes
  BY <1>3 DEF TimerFires, DeadlinePasses, historyVars
<1>4. ASSUME NEW a \in Actor,
             \/ Load(a) \/ LoadInconsistent(a) \/ LoadFails(a) \/ Recover(a) \/ Check(a) \/ Reject(a)
             \/ SavePublic(a) \/ SavePublicFails(a) \/ SavePrivate(a) \/ SavePrivateFails(a)
             \/ Undo(a) \/ Commit(a)
      PROVE  changes' = changes
  BY <1>4 DEF Load, LoadInconsistent, LoadFails, Recover, Check, Reject, SavePublic,
              SavePublicFails, SavePrivate, SavePrivateFails, Undo, Commit, historyVars
<1>5. ASSUME NEW a \in Actor, Accept(a)
      PROVE  changes' = changes + 1
  BY <1>5 DEF Accept
<1> QED BY <1>1, <1>2, <1>3, <1>4, <1>5 DEF Next, Work, ProcessStep

\* Only a committed dispatch is acknowledged, and only it takes the result over.
LEMMA AcknowledgedByCommit ==
    ASSUME Next
    PROVE  acked' = acked \/ \E a \in Actor : Commit(a)
<1>2. CASE ProcessStep \/ CreateSave \/ CreateFails \/ ClientRequest \/ EvictIdle \/ Tick \/ Crash
  BY <1>2 DEF ProcessStep, ConnectToRedis, ConnectToDatabase, CreateRuntime, StartFails,
              Shutdown, CreateRoom, CreateSave, CreateFails, ClientRequest, EvictIdle,
              Tick, Crash, historyVars
<1>3. ASSUME NEW t \in Timer, TimerFires(t) \/ DeadlinePasses(t)
      PROVE  acked' = acked
  BY <1>3 DEF TimerFires, DeadlinePasses, historyVars
<1>4. ASSUME NEW a \in Actor,
             \/ Load(a) \/ LoadInconsistent(a) \/ LoadFails(a) \/ Recover(a) \/ Check(a) \/ Reject(a)
             \/ SavePublic(a) \/ SavePublicFails(a) \/ SavePrivate(a) \/ SavePrivateFails(a)
             \/ Undo(a) \/ Accept(a)
      PROVE  acked' = acked
  BY <1>4 DEF Load, LoadInconsistent, LoadFails, Recover, Check, Reject, SavePublic,
              SavePublicFails, SavePrivate, SavePrivateFails, Undo, Accept, historyVars
<1> QED BY <1>2, <1>3, <1>4 DEF Next, Work, ProcessStep

\* The result stays one change ahead of memory while it is being saved.
LEMMA ResultsStay ==
    ASSUME BaseInv, Next, ResultsContain
    PROVE  ResultsContain'
<1> SUFFICES ASSUME NEW c \in Actor PROVE ResultContains(actor[c])'
  BY DEF ResultsContain
<1>1. RoomStep(c) /\ ResultContains(actor[c])
  BY RoomSteps DEF ResultsContain
<1>2. /\ changes \in Nat /\ changes' \in Nat
      /\ changes' = changes \/ changes' = changes + 1
  BY ChangesGrow
<1>3. CASE Keeps(c)
  BY <1>1, <1>2, <1>3 DEF Keeps, SameRoom, SameResult, ResultContains
<1>4. CASE Drops(c) \/ Ends(c) \/ TakesOver(c) \/ Loads(c) \/ IsCreated(c)
  BY <1>4 DEF Drops, Ends, TakesOver, Loads, IsCreated, ResultContains
<1>5. CASE Accepts(c)
  <2>1. changes' \in 1 .. changes'
    BY <1>2, <1>5 DEF Accepts
  <2> QED BY <1>2, <1>5, <2>1 DEF Accepts, SameRoom, ResultContains
<1>6. CASE Advances(c)
  BY <1>1, <1>2, <1>6 DEF Advances, SameRoom, SameResult, ResultContains
<1> QED BY <1>1, <1>3, <1>4, <1>5, <1>6 DEF RoomStep

-----------------------------------------------------------------------------
(* What was acknowledged is in the store *)

MemoryStep ==
    \/ /\ registered' = registered \/ (registered = NoActor /\ registered' \in Actor)
       /\ \A c \in Actor : c = registered' \/ Running(c) \/ actor'[c] = actor[c]
       /\ orphaned' = orphaned
    \/ EvictIdle
    \/ Crash

\* A step works for an actor that has work, or for the one that is registered.
LEMMA MemorySteps ==
    ASSUME BaseInv, Next
    PROVE  MemoryStep
<1>1. /\ actor \in [Actor -> SoundActor] /\ registered \in Actor \cup {NoActor} /\ TypeOK
      /\ Memory = [actor |-> actor, registered |-> registered]
  BY TypedMemory DEF BaseInv, Memory
<1>2. CASE ProcessStep \/ CreateFails \/ \E t \in Timer : DeadlinePasses(t)
  BY <1>2 DEF ProcessStep, ConnectToRedis, ConnectToDatabase, CreateRuntime, StartFails,
              Shutdown, CreateRoom, CreateFails, DeadlinePasses, MemoryStep, historyVars
<1>3. CASE CreateSave
  <2>1. CASE creating' # "done"
    BY <1>3, <2>1 DEF CreateSave, MemoryStep, historyVars
  <2>2. CASE creating' = "done"
    <3> DEFINE a == CHOOSE f \in Free(Memory) : TRUE
               o == [Blank EXCEPT !.loaded = TRUE]
    <3>1. /\ actor' = [actor EXCEPT ![a] = o] /\ registered' = a /\ orphaned' = orphaned
          /\ creating # "done"
      BY <1>3, <2>2 DEF CreateSave, historyVars, SaveOrder
    <3>2. NobodyHasIt
      BY <3>1 DEF BaseInv, UnknownUntilCreated
    <3>3. PICK f \in Actor : TRUE
      BY ServiceAssumption
    <3>4. f \in Free(Memory)
      BY <1>1, <3>2, <3>3, BlankFields, ServiceAssumption DEF Free, NobodyHasIt
    <3>5. a \in Free(Memory)
      BY <3>4
    <3>6. a \in Actor
      BY <3>5 DEF Free
    <3> HIDE DEF a, o
    <3> QED BY <1>1, <3>1, <3>2, <3>6 DEF MemoryStep, NobodyHasIt
  <2> QED BY <2>1, <2>2
<1>4. CASE ClientRequest
  <2>1. PICK b \in Actor, G \in [Actor -> SoundActor] :
           /\ Found(Memory, b, G) /\ registered' = b
           /\ actor' = [G EXCEPT ![b] = Given(G[b], ClientEvent)]
    BY <1>1, <1>4, RequestStep
  <2>2. \A c \in Actor \ {b} : actor'[c] = actor[c]
    BY <1>1, <2>1 DEF Found
  <2> QED BY <1>1, <1>4, <2>1, <2>2 DEF Found, MemoryStep, ClientRequest, historyVars
<1>5. ASSUME NEW t \in Timer, TimerFires(t)
      PROVE  MemoryStep
  <2>1. PICK b \in Actor, G \in [Actor -> SoundActor] :
           Found(Memory, b, G) /\ registered' = b /\ Expires(G, b, t, armed[t], actor')
    BY <1>1, <1>5, FireStep
  <2>2. armed[t] \in 0 .. MaxChanges
    BY <1>1, <1>5, FireStep, ServiceAssumption
  <2>3. \A c \in Actor \ {b} : actor'[c] = G[c] /\ G[c] = actor[c]
    BY <1>1, <2>1, <2>2, ExpiresOne DEF Found
  <2> QED BY <1>1, <1>5, <2>1, <2>3 DEF Found, MemoryStep, TimerFires, historyVars
<1>6. ASSUME NEW a \in Actor, Running(a), registered' = registered, orphaned' = orphaned,
             NEW o, actor' = [actor EXCEPT ![a] = o]
      PROVE  MemoryStep
  BY <1>1, <1>6 DEF MemoryStep
<1>7. ASSUME NEW a \in Actor, Load(a)
      PROVE  MemoryStep
  BY <1>1, <1>6, <1>7, LoadStep DEF Load, historyVars
<1>8. ASSUME NEW a \in Actor, Fruitless(a)
      PROVE  MemoryStep
  BY <1>1, <1>6, <1>8, FruitlessStep
<1>9. ASSUME NEW a \in Actor, Check(a) \/ Reject(a)
      PROVE  MemoryStep
  BY <1>1, <1>6, <1>9, CheckStep, RejectStep DEF Check, Reject, historyVars
<1>10. ASSUME NEW a \in Actor, Recover(a)
       PROVE  MemoryStep
  <2> DEFINE t == HeadTask(a).timer
             s == actor[a].room.slot[t]
             A == [actor EXCEPT ![a] = Left(a, actor[a])]
  <2>1. /\ Running(a) /\ t \in Timer /\ s \in Deadline /\ A \in [Actor -> SoundActor]
        /\ \/ actor' = A /\ registered' = registered
           \/ \E b \in Actor, G \in [Actor -> SoundActor] :
                 /\ Found([actor |-> A, registered |-> registered], b, G)
                 /\ registered' = b /\ Expires(G, b, t, s.id, actor')
    BY <1>1, <1>10, RecoverStep
  <2>2. \A c \in Actor : Running(c) \/ A[c] = actor[c]
    BY <1>1, <2>1
  <2>3. orphaned' = orphaned
    BY <1>10 DEF Recover, historyVars
  <2> HIDE DEF t, s, A
  <2>4. s.id \in 0 .. MaxChanges
    BY <2>1, DeadlineFacts
  <2>5. CASE actor' = A /\ registered' = registered
    BY <2>2, <2>3, <2>5 DEF MemoryStep
  <2>6. ASSUME NEW b \in Actor, NEW G \in [Actor -> SoundActor],
               Found([actor |-> A, registered |-> registered], b, G),
               registered' = b, Expires(G, b, t, s.id, actor')
        PROVE  MemoryStep
    <3>1. \A c \in Actor \ {b} : actor'[c] = G[c] /\ G[c] = A[c]
      BY <2>1, <2>4, <2>6, ExpiresOne DEF Found
    <3> QED BY <2>2, <2>3, <2>6, <3>1 DEF Found, MemoryStep
  <2> QED BY <2>1, <2>5, <2>6
<1>11. ASSUME NEW a \in Actor, Accept(a)
       PROVE  MemoryStep
  <2>1. PICK slot \in [Timer -> Deadline] :
           actor' = [actor EXCEPT ![a] = Dispatched(actor[a], changes + 1, slot)]
    BY <1>1, <1>11, AcceptStep
  <2> QED BY <1>6, <1>11, <2>1 DEF Accept, Dispatching
<1>12. ASSUME NEW a \in Actor, SavePublic(a) \/ SavePrivate(a) \/ SavePrivateFails(a)
       PROVE  MemoryStep
  <2>1. /\ actor[a].stage # "start" /\ registered' = registered /\ orphaned' = orphaned
        /\ \E st \in Stage \ {"start"} : actor' = [actor EXCEPT ![a].stage = st]
    BY <1>12 DEF SavePublic, SavePrivate, SavePrivateFails, Stage, historyVars
  <2> QED BY <1>1, <1>6, <2>1, StageStep
<1>13. ASSUME NEW a \in Actor, Commit(a)
       PROVE  MemoryStep
  BY <1>1, <1>6, <1>13, CommitStep DEF Commit
<1>14. CASE EvictIdle \/ Crash
  BY <1>14 DEF MemoryStep
<1>15. CASE Tick
  BY <1>1, <1>15 DEF Tick, MemoryStep, historyVars
<1> QED BY <1>2, <1>3, <1>4, <1>5, <1>7, <1>8, <1>9, <1>10, <1>11, <1>12, <1>13, <1>14, <1>15
        DEF Next, Work, ProcessStep, Fruitless

\* No actor but the registered one has anything, unless one was evicted with work.
RegisteredAlone == ~orphaned => \A a \in Actor : a # registered => actor[a] = Blank

\* What was acknowledged is in memory, in both halves.
MemoryHasAcknowledged ==
    ~orphaned => \A a \in Actor : actor[a].loaded =>
        acked \subseteq actor[a].room.changes /\ acked \subseteq actor[a].priv.changes

\* A half that persist() is through with has the result.
StoreHasResult ==
    ~orphaned => \A a \in Actor :
        /\ actor[a].stage \in {"private", "refresh"} /\ KvHas(store, "room") =>
              actor[a].next.changes \subseteq KvGet(store, "room").changes
        /\ actor[a].stage = "refresh" /\ KvHas(store, "private") =>
              actor[a].nextPriv.changes \subseteq KvGet(store, "private").changes

AckInv ==
    /\ ResultsContain /\ RegisteredAlone /\ MemoryHasAcknowledged
    /\ StoreHasResult /\ AcknowledgedIsStored

\* Whoever has anything is the registered actor.
LEMMA SomebodyIsRegistered ==
    ASSUME RegisteredAlone, ~orphaned, NEW a \in Actor,
           Running(a) \/ actor[a].loaded \/ actor[a].stage # "start"
    PROVE  a = registered
BY BlankFields DEF RegisteredAlone, Running

\* Once an actor was evicted with work, that is not forgotten.
LEMMA OrphanedStays ==
    ASSUME BaseInv, Next, ~orphaned'
    PROVE  ~orphaned /\ (EvictIdle => ~Running(registered))
<1>1. orphaned \in BOOLEAN
  BY DEF BaseInv, TypeOK
<1>2. EvictIdle => orphaned' = (orphaned \/ Running(registered))
  BY Zenon DEF EvictIdle
<1>3. EvictIdle \/ orphaned' = orphaned
  BY MemorySteps DEF MemoryStep, Crash
<1> QED BY <1>1, <1>2, <1>3, Zenon

\* The registered actor stays the only one that has anything.
LEMMA RegisteredStaysAlone ==
    ASSUME BaseInv, Next, RegisteredAlone
    PROVE  RegisteredAlone'
<1> SUFFICES ASSUME ~orphaned', NEW c \in Actor, c # registered' PROVE actor'[c] = Blank
  BY DEF RegisteredAlone
<1>1. /\ actor \in [Actor -> SoundActor] /\ NoActor \notin Actor
      /\ ~orphaned /\ (EvictIdle => ~Running(registered))
  BY OrphanedStays, TypedMemory, ServiceAssumption DEF BaseInv
<1>2. CASE EvictIdle
  BY <1>1, <1>2 DEF EvictIdle, RegisteredAlone
<1>3. CASE Crash
  BY <1>3 DEF Crash
<1>4. CASE /\ registered' = registered \/ (registered = NoActor /\ registered' \in Actor)
           /\ \A d \in Actor : d = registered' \/ Running(d) \/ actor'[d] = actor[d]
  BY <1>1, <1>4, SomebodyIsRegistered DEF RegisteredAlone
<1> QED BY <1>2, <1>3, <1>4, MemorySteps DEF MemoryStep

\* Memory keeps what was acknowledged.
LEMMA MemoryKeepsAcknowledged ==
    ASSUME BaseInv, Next, AckInv
    PROVE  MemoryHasAcknowledged'
<1> SUFFICES ASSUME ~orphaned', NEW c \in Actor, actor'[c].loaded
             PROVE  acked' \subseteq actor'[c].room.changes /\ acked' \subseteq actor'[c].priv.changes
  BY DEF MemoryHasAcknowledged
<1>1. ~orphaned /\ actor \in [Actor -> SoundActor]
  BY OrphanedStays, TypedMemory DEF BaseInv
<1>2. ASSUME NEW a \in Actor, Commit(a)
      PROVE  acked' \subseteq actor'[c].room.changes /\ acked' \subseteq actor'[c].priv.changes
  <2> DEFINE o == Took(actor[a])
             l == Left(a, o)
  <2>1. /\ Running(a) /\ o \in SoundActor /\ o.queue = actor[a].queue
        /\ o.room = actor[a].next /\ o.priv = actor[a].nextPriv
        /\ actor' = [actor EXCEPT ![a] = l]
    BY <1>2, CommitStep DEF BaseInv
  <2>2. a = registered /\ actor[a].stage = "refresh" /\ actor[a].loaded
    BY <1>1, <1>2, <2>1, SomebodyIsRegistered DEF AckInv, Commit, BaseInv, TypeOK
  <2>3. c = a
    BY <1>1, <2>1, <2>2, SomebodyIsRegistered DEF AckInv
  <2>4. l.room = o.room /\ l.priv = o.priv
    BY <2>1, <2>2, LeftFacts, EndedFacts DEF Running
  <2>5. actor'[c].room = actor[a].next /\ actor'[c].priv = actor[a].nextPriv
    BY <1>1, <2>1, <2>3, <2>4
  <2>6. /\ acked \subseteq actor[a].room.changes /\ acked \subseteq actor[a].priv.changes
        /\ ResultContains(actor[a])
    BY <1>1, <2>2 DEF AckInv, MemoryHasAcknowledged, ResultsContain
  <2>7. acked' = acked \cup {n \in actor[a].next.changes : n \notin actor[a].room.changes}
    BY <1>2 DEF Commit
  <2>8. PICK n : /\ actor[a].next.changes = actor[a].room.changes \cup {n}
                 /\ actor[a].nextPriv.changes = actor[a].priv.changes \cup {n}
    BY <2>2, <2>6 DEF ResultContains
  <2> QED BY <2>5, <2>6, <2>7, <2>8
<1>3. CASE acked' = acked
  <2>1. RoomStep(c)
    BY RoomSteps
  <2>2. CASE SameRoom(c)
    BY <1>1, <1>3, <2>2 DEF SameRoom, AckInv, MemoryHasAcknowledged
  <2>3. CASE Loads(c)
    BY <1>1, <1>3, <2>3 DEF Loads, AckInv, AcknowledgedIsStored
  <2>4. CASE IsCreated(c)
    <3>1. creating # "done"
      BY <2>4 DEF IsCreated, CreateSave, SaveOrder
    <3>2. acked = {}
      BY <3>1 DEF BaseInv, TypeOK, UnknownUntilCreated
    <3> QED BY <1>3, <3>2
  <2>5. CASE TakesOver(c)
    BY <1>2, <2>5 DEF TakesOver
  <2> QED BY <2>1, <2>2, <2>3, <2>4, <2>5 DEF RoomStep, Keeps, Drops, Ends, Accepts, Advances
<1> QED BY <1>2, <1>3, AcknowledgedByCommit

\* What persist() is through with stays in the store until the dispatch is over.
LEMMA StoreKeepsResult ==
    ASSUME BaseInv, Next, AckInv
    PROVE  StoreHasResult'
<1> SUFFICES ASSUME ~orphaned', NEW c \in Actor
             PROVE  /\ actor'[c].stage \in {"private", "refresh"} /\ KvHas(store', "room") =>
                          actor'[c].next.changes \subseteq KvGet(store', "room").changes
                    /\ actor'[c].stage = "refresh" /\ KvHas(store', "private") =>
                          actor'[c].nextPriv.changes \subseteq KvGet(store', "private").changes
  BY DEF StoreHasResult
<1>1. ~orphaned /\ RoomStep(c) /\ StoreStep("room") /\ StoreStep("private")
  BY OrphanedStays, RoomSteps, StoreSteps
<1>2. CASE Drops(c) \/ Ends(c) \/ TakesOver(c) \/ Loads(c) \/ Accepts(c) \/ IsCreated(c)
  BY <1>2 DEF Drops, Ends, TakesOver, Loads, Accepts, IsCreated
<1>3. ASSUME actor[c].stage # "start", NEW a \in Actor, NEW k \in {"room", "private"}, Writes(a, k)
      PROVE  a = c /\ (k = "room" => actor[c].stage = "public")
                   /\ (k = "private" => actor[c].stage = "private")
  <2>1. /\ actor[a].stage # "start"
        /\ (k = "room" => actor[a].stage = "public") /\ (k = "private" => actor[a].stage = "private")
    BY <1>3 DEF Writes, SavePublic, SavePublicFails, SavePrivate, SavePrivateFails
  <2> QED BY <1>1, <1>3, <2>1, SomebodyIsRegistered DEF AckInv
<1>4. ASSUME CreateSave \/ CreateFails
      PROVE  actor[c].stage = "start"
  <2>1. creating # "done"
    BY <1>4, ServiceAssumption DEF CreateSave, CreateFails, SaveOrder
  <2> QED BY <2>1, BlankFields DEF BaseInv, UnknownUntilCreated, NobodyHasIt
<1>5. ASSUME actor[c].stage # "start", actor[c].stage # "public",
             KvHas(store', "room")
      PROVE  KvHas(store, "room") /\ KvGet(store', "room") = KvGet(store, "room")
  BY <1>1, <1>3, <1>4, <1>5 DEF StoreStep
<1>6. ASSUME actor[c].stage = "refresh", KvHas(store', "private")
      PROVE  KvHas(store, "private") /\ KvGet(store', "private") = KvGet(store, "private")
  BY <1>1, <1>3, <1>4, <1>6 DEF StoreStep
<1>7. CASE Keeps(c)
  BY <1>1, <1>5, <1>6, <1>7 DEF Keeps, SameResult, AckInv, StoreHasResult
<1>8. CASE Advances(c)
  <2>1. TypeOK /\ "room" \in Key /\ "private" \in Key
    BY ServiceAssumption DEF BaseInv
  <2>2. CASE SavePublic(c) /\ actor'[c].stage = "private"
    BY <1>8, <2>1, <2>2, KvFacts DEF SavePublic, Advances, SameResult
  <2>3. CASE SavePrivate(c) /\ actor[c].stage = "private" /\ actor'[c].stage = "refresh"
    <3>1. KvGet(store', "private") = actor[c].nextPriv
      BY <2>1, <2>3, KvFacts DEF SavePrivate
    <3>2. KvHas(store', "room") => actor[c].next.changes \subseteq KvGet(store', "room").changes
      BY <1>1, <1>5, <2>3 DEF AckInv, StoreHasResult
    <3> QED BY <1>8, <3>1, <3>2 DEF Advances, SameResult
  <2> QED BY <1>8, <2>2, <2>3 DEF Advances
<1> QED BY <1>1, <1>2, <1>7, <1>8 DEF RoomStep

\* The store keeps what was acknowledged, and gets what now is.
LEMMA StoreKeepsAcknowledged ==
    ASSUME BaseInv, Next, AckInv
    PROVE  AcknowledgedIsStored'
<1> SUFFICES ASSUME ~orphaned', NEW k \in {"room", "private"}, KvHas(store', k)
             PROVE  acked' \subseteq KvGet(store', k).changes
  BY DEF AcknowledgedIsStored
<1>1. ~orphaned /\ StoreStep(k) /\ TypeOK /\ k \in Key
  BY OrphanedStays, StoreSteps, ServiceAssumption DEF BaseInv
<1>2. ASSUME NEW a \in Actor, Commit(a)
      PROVE  acked' \subseteq KvGet(store', k).changes
  <2>1. KvHas(store, k) /\ KvGet(store', k) = KvGet(store, k)
    <3>1. PICK ks : store' = KvExpire(store, ks)
      BY <1>2 DEF Commit, Refresh
    <3>2. /\ KvHas(KvExpire(store, ks), k) = KvHas(store, k)
          /\ KvGet(KvExpire(store, ks), k) = KvGet(store, k)
      BY <1>1, KvFacts
    <3> QED BY <3>1, <3>2
  <2>2. actor[a].stage = "refresh" /\ ResultContains(actor[a])
    BY <1>2 DEF Commit, AckInv, ResultsContain
  <2>3. /\ k = "room" => actor[a].next.changes \subseteq KvGet(store, "room").changes
        /\ k = "private" => actor[a].nextPriv.changes \subseteq KvGet(store, "private").changes
    BY <1>1, <2>1, <2>2 DEF AckInv, StoreHasResult
  <2>4. acked \subseteq KvGet(store, k).changes
    BY <1>1, <2>1 DEF AckInv, AcknowledgedIsStored
  <2>5. acked' = acked \cup {n \in actor[a].next.changes : n \notin actor[a].room.changes}
    BY <1>2 DEF Commit
  <2>6. PICK n : /\ actor[a].next.changes = actor[a].room.changes \cup {n}
                 /\ actor[a].nextPriv.changes = actor[a].priv.changes \cup {n}
    BY <2>2 DEF ResultContains
  <2> QED BY <2>1, <2>3, <2>4, <2>5, <2>6
<1>3. CASE acked' = acked
  <2>1. CASE KvHas(store, k) /\ KvGet(store', k) = KvGet(store, k)
    BY <1>1, <1>3, <2>1 DEF AckInv, AcknowledgedIsStored
  <2>2. ASSUME NEW a \in Actor, Writes(a, k), KvGet(store', k) = Written(a, k)
        PROVE  acked' \subseteq KvGet(store', k).changes
    <3>1. actor[a].stage # "start"
      BY <2>2 DEF Writes, SavePublic, SavePublicFails, SavePrivate, SavePrivateFails
    <3>2. actor[a].loaded /\ ResultContains(actor[a])
      BY <1>1, <3>1 DEF TypeOK, AckInv, ResultsContain
    <3>3. acked \subseteq actor[a].room.changes /\ acked \subseteq actor[a].priv.changes
      BY <1>1, <3>2 DEF AckInv, MemoryHasAcknowledged
    <3> QED BY <1>3, <2>2, <3>1, <3>2, <3>3 DEF ResultContains, Written
  <2>3. CASE CreateSave \/ CreateFails
    <3>1. creating # "done"
      BY <2>3, ServiceAssumption DEF CreateSave, CreateFails, SaveOrder
    <3>2. acked = {}
      BY <3>1 DEF BaseInv, TypeOK, UnknownUntilCreated
    <3> QED BY <1>3, <3>2
  <2> QED BY <1>1, <2>1, <2>2, <2>3 DEF StoreStep
<1> QED BY <1>2, <1>3, AcknowledgedByCommit

\* The argument holds initially and is kept by every step.
LEMMA AckHolds == Spec => [](BaseInv /\ AckInv)
<1>1. Init => AckInv
  <2> SUFFICES ASSUME Init PROVE AckInv
    OBVIOUS
  <2>1. \A a \in Actor : actor[a] = Blank
    BY DEF Init
  <2>2. acked = {}
    BY DEF Init
  <2> QED BY <2>1, <2>2, BlankFields DEF AckInv, ResultsContain, ResultContains, RegisteredAlone,
             MemoryHasAcknowledged, StoreHasResult, AcknowledgedIsStored
<1>2. BaseInv /\ AckInv /\ [Next]_vars => AckInv'
  <2> SUFFICES ASSUME BaseInv, AckInv, [Next]_vars PROVE AckInv'
    OBVIOUS
  <2>1. CASE Next
    BY <2>1, ResultsStay, RegisteredStaysAlone, MemoryKeepsAcknowledged, StoreKeepsResult,
       StoreKeepsAcknowledged DEF AckInv
  <2>2. CASE UNCHANGED vars
    BY <2>2 DEF vars, storeVars, timerVars, historyVars, AckInv, ResultsContain, ResultContains,
                RegisteredAlone, MemoryHasAcknowledged, StoreHasResult, AcknowledgedIsStored
  <2> QED BY <2>1, <2>2
<1> QED BY <1>1, <1>2, BaseInit, BaseStep, PTL DEF Spec

\* Whatever fails and whenever the process dies, a half that is in the store has every
\* change whose caller was told that it was accepted (persist() before the answer,
\* hydrate() from both halves), as long as no actor was evicted with work in its queue.
THEOREM AcknowledgedSurvives == Spec => []AcknowledgedIsStored
BY AckHolds, PTL DEF AckInv

-----------------------------------------------------------------------------
(* Deadlines are watched *)

\* Nobody will ever load or save the room again.
Dead ==
    /\ ~(KvHas(store, "room") /\ KvHas(store, "private"))
    /\ \A a \in Actor : ~actor[a].loaded

\* An actor that lost its registration with work left has lost the room before.
OrphanIsDead == \A a \in Actor : Running(a) /\ a # registered => Dead

\* No dispatch has to undo a save.
NothingUndone == \A a \in Actor : actor[a].stage # "undo"

Tasks(q) == {q[i] : i \in 1 .. Len(q)}

\* An actor that has yet to load the room has both recoveries before it.
RecoversAhead(o) ==
    /\ ~o.idle
    /\ \A t \in Timer : \E task \in Tasks(o.queue) : task.kind = "recover" /\ task.timer = t

\* An actor that was idle when its work came has only dispatches, and is busy with them.
IdleIsBusy(o) ==
    /\ o.queue # <<>> => o.busy
    /\ \A task \in Tasks(o.queue) : task.kind \in {"event", "expire"}

\* A task that will see to the deadline id of the timer t.
SeesTo(task, t, id) ==
    /\ task.timer = t
    /\ \/ task.kind = "recover"
       \/ task.kind \in {"check", "expire"} /\ task.id = id

Watched(o, t, at) ==
    o.room.slot[t].on =>
        at = o.room.slot[t].id \/ \E task \in Tasks(o.queue) : SeesTo(task, t, o.room.slot[t].id)

\* What holds of the registered actor o with the timeouts at.
Fit(o, at) ==
    /\ ~o.loaded => RecoversAhead(o)
    /\ o.loaded /\ o.idle => IdleIsBusy(o)
    /\ o.loaded => \A t \in Timer : Watched(o, t, at[t])

RegisteredIsFit ==
    process = "up" /\ registered # NoActor => Dead \/ Fit(actor[registered], armed)

WatchInv == faults = 0 => OrphanIsDead /\ NothingUndone /\ RegisteredIsFit

\* The tasks of a longer and of a shorter queue.
LEMMA TasksFacts ==
    ASSUME NEW q \in Seq(TaskSet)
    PROVE  /\ Tasks(q) \subseteq TaskSet
           /\ q = <<>> => Tasks(q) = {}
           /\ \A task \in TaskSet : Tasks(Append(q, task)) = Tasks(q) \cup {task}
           /\ q # <<>> => Tasks(q) = Tasks(Tail(q)) \cup {Head(q)}
<1>1. Tasks(q) \subseteq TaskSet
  BY ElementOfSeq DEF Tasks
<1>2. q = <<>> => Tasks(q) = {}
  BY DEF Tasks
<1>3. ASSUME NEW task \in TaskSet
      PROVE  Tasks(Append(q, task)) = Tasks(q) \cup {task}
  <2>1. /\ Len(Append(q, task)) = Len(q) + 1 /\ Len(q) \in Nat
        /\ \A i \in 1 .. Len(q) : Append(q, task)[i] = q[i]
        /\ Append(q, task)[Len(q) + 1] = task
    BY AppendTask, LenProperties
  <2> QED BY <2>1 DEF Tasks
<1>4. ASSUME q # <<>>
      PROVE  Tasks(q) = Tasks(Tail(q)) \cup {Head(q)}
  <2>1. /\ Len(q) \in Nat /\ Len(q) >= 1 /\ q[1] = Head(q)
        /\ Len(Tail(q)) = Len(q) - 1
        /\ \A i \in 1 .. Len(Tail(q)) : Tail(q)[i] = q[i + 1]
    BY <1>4, TailTasks
  <2> DEFINE h == Head(q)
             l == Tail(q)
  <2>2. /\ Len(q) \in Nat /\ Len(q) >= 1 /\ q[1] = h /\ Len(l) = Len(q) - 1
        /\ \A i \in 1 .. Len(l) : l[i] = q[i + 1]
    BY <2>1
  <2> HIDE DEF h, l
  <2>3. \A i \in 2 .. Len(q) : i - 1 \in 1 .. Len(l) /\ q[i] = l[i - 1]
    BY <2>2
  <2>4. Tasks(q) \subseteq Tasks(l) \cup {h}
    BY <2>2, <2>3 DEF Tasks
  <2>5. Tasks(l) \cup {h} \subseteq Tasks(q)
    BY <2>2 DEF Tasks
  <2> QED BY <2>4, <2>5 DEF h, l
<1> QED BY <1>1, <1>2, <1>3, <1>4

\* Failing calls are counted.
LEMMA FaultsCount ==
    ASSUME BaseInv, Next, faults' = 0
    PROVE  /\ faults = 0 /\ ~CreateFails
           /\ \A a \in Actor : ~LoadFails(a) /\ ~SavePublicFails(a) /\ ~SavePrivateFails(a)
<1>1. faults \in Nat
  BY ServiceAssumption DEF BaseInv, TypeOK
<1>2. ~Fault
  BY <1>1 DEF Fault
<1>3. /\ ~CreateFails
      /\ \A a \in Actor : ~LoadFails(a) /\ ~SavePublicFails(a) /\ ~SavePrivateFails(a)
  BY <1>2 DEF CreateFails, LoadFails, SavePublicFails, SavePrivateFails, FailedWrite
<1>4. CASE ProcessStep \/ CreateSave \/ ClientRequest \/ EvictIdle \/ Tick \/ Crash
  BY <1>3, <1>4 DEF ProcessStep, ConnectToRedis, ConnectToDatabase, CreateRuntime, StartFails,
              Shutdown, CreateRoom, CreateSave, ClientRequest, EvictIdle,
              Tick, Crash, historyVars
<1>5. ASSUME NEW t \in Timer, TimerFires(t) \/ DeadlinePasses(t)
      PROVE  faults' = faults
  BY <1>5 DEF TimerFires, DeadlinePasses, historyVars
<1>6. ASSUME NEW a \in Actor,
             \/ Load(a) \/ LoadInconsistent(a) \/ Recover(a) \/ Check(a) \/ Reject(a)
             \/ SavePublic(a) \/ SavePrivate(a) \/ Accept(a)
      PROVE  faults' = faults
  BY <1>6 DEF Load, LoadInconsistent, Recover, Check, Reject, SavePublic, SavePrivate,
              Accept, historyVars
<1>7. ASSUME NEW a \in Actor, Undo(a) \/ Commit(a)
      PROVE  faults' = faults
  BY <1>2, <1>7 DEF Undo, Commit, FailedWrite
<1> QED BY <1>3, <1>4, <1>5, <1>6, <1>7 DEF Next, Work, ProcessStep

\* Dead rooms stay dead.
LEMMA DeadStays ==
    ASSUME BaseInv, Next, Dead, creating = "done"
    PROVE  Dead'
<1>1. TypeOK
  BY DEF BaseInv
<1>2. \A a \in Actor : ~actor[a].loaded /\ actor[a].stage = "start"
  BY <1>1 DEF Dead, TypeOK
<1>3. ~CreateSave /\ ~CreateFails
  BY ServiceAssumption DEF CreateSave, CreateFails, SaveOrder
<1>4. ASSUME NEW k \in {"room", "private"}, KvHas(store', k)
      PROVE  KvHas(store, k)
  <2>1. \A a \in Actor : ~Writes(a, k)
    BY <1>2 DEF Writes, SavePublic, SavePublicFails, SavePrivate, SavePrivateFails
  <2> QED BY <1>3, <1>4, <2>1, StoreSteps DEF StoreStep
<1>5. ASSUME NEW c \in Actor
      PROVE  ~actor'[c].loaded
  <2>1. RoomStep(c)
    BY RoomSteps
  <2> QED BY <1>2, <1>3, <2>1 DEF RoomStep, Keeps, SameRoom, Drops, Ends, TakesOver, Commit, Loads, Dead,
                                Accepts, Advances, IsCreated
<1> QED BY <1>4, <1>5 DEF Dead

\* While no store call fails, only the registered actor has the room.
LEMMA LoadedAlone ==
    ASSUME BaseInv, OrphanIsDead, NEW a \in Actor, actor[a].loaded
    PROVE  a = registered
BY BlankFields DEF BaseInv, IdleIsForgotten, OrphanIsDead, Dead

\* An actor is only evicted with work when the room is lost.
LEMMA OrphansStayDead ==
    ASSUME BaseInv, Next, OrphanIsDead, RegisteredIsFit
    PROVE  OrphanIsDead'
<1> SUFFICES ASSUME NEW c \in Actor, actor'[c].queue # <<>>, c # registered' PROVE Dead'
  BY DEF OrphanIsDead, Running
<1>1. MemoryStep /\ NoActor \notin Actor /\ actor \in [Actor -> SoundActor]
  BY MemorySteps, ServiceAssumption, TypedMemory DEF BaseInv
<1>2. ~Crash
  BY BlankFields DEF Crash
<1>3. Running(c)
  BY <1>1, <1>2, BlankFields DEF MemoryStep, EvictIdle, Running
<1>4. creating = "done"
  BY <1>3, OnlyWhileKnown DEF BaseInv
<1>5. CASE c # registered
  BY <1>3, <1>4, <1>5, DeadStays DEF OrphanIsDead
<1>6. CASE c = registered
  <2>1. EvictIdle
    BY <1>1, <1>2, <1>6 DEF MemoryStep
  <2>2. /\ process = "up" /\ registered # NoActor /\ ~actor[c].busy /\ actor[c].idle
    BY <1>6, <2>1 DEF EvictIdle
  <2>3. ~Fit(actor[c], armed)
    BY <1>3, <2>2 DEF Fit, RecoversAhead, IdleIsBusy, Running
  <2> QED BY <1>4, <1>6, <2>2, <2>3, DeadStays DEF RegisteredIsFit
<1> QED BY <1>5, <1>6

\* Nothing has to be undone as long as no store call fails.
LEMMA NothingIsUndone ==
    ASSUME BaseInv, Next, faults' = 0, NothingUndone
    PROVE  NothingUndone'
<1> SUFFICES ASSUME NEW c \in Actor PROVE actor'[c].stage # "undo"
  BY DEF NothingUndone
<1>1. RoomStep(c) /\ actor[c].stage # "undo" /\ ~SavePrivateFails(c)
  BY RoomSteps, FaultsCount DEF NothingUndone
<1> QED BY <1>1 DEF RoomStep, Keeps, Drops, Ends, TakesOver, Loads, Accepts, Advances, IsCreated

\* An object with the same queue and the same copy of the room is watched as before.
LEMMA FitSame ==
    ASSUME NEW o, NEW p, NEW at, Fit(o, at),
           p.loaded = o.loaded, p.room = o.room, p.queue = o.queue,
           p.idle = o.idle, p.busy = o.busy
    PROVE  Fit(p, at)
BY DEF Fit, RecoversAhead, IdleIsBusy, Watched

\* A task more does not harm, if it is a dispatch or the room is not loaded.
LEMMA FitGiven ==
    ASSUME NEW o \in SoundActor, NEW at, Fit(o, at), NEW task \in TaskSet,
           o.loaded => task.kind \in {"event", "expire"}
    PROVE  Fit(Given(o, task), at)
<1> DEFINE p == Given(o, task)
<1>1. /\ p.queue = Append(o.queue, task) /\ p.busy = TRUE
      /\ p.loaded = o.loaded /\ p.idle = o.idle /\ p.room = o.room
  BY GivenFacts
<1>2. o.queue \in Seq(TaskSet)
  BY DEF SoundActor, ActorObject
<1>3. Tasks(p.queue) = Tasks(o.queue) \cup {task}
  BY <1>1, <1>2, TasksFacts
<1> HIDE DEF p
<1>4. ~p.loaded => RecoversAhead(p)
  BY <1>1, <1>3 DEF Fit, RecoversAhead
<1>5. p.loaded /\ p.idle => IdleIsBusy(p)
  BY <1>1, <1>3 DEF Fit, IdleIsBusy
<1>6. p.loaded => \A t \in Timer : Watched(p, t, at[t])
  BY <1>1, <1>3 DEF Fit, Watched
<1> QED BY <1>4, <1>5, <1>6 DEF Fit, p

\* A timeout may go when the room is not loaded, or when its deadline is stale or seen to.
LEMMA FitDisarmed ==
    ASSUME NEW o \in SoundActor, NEW at \in [Timer -> Nat], Fit(o, at), NEW u \in Timer,
           NEW at2, at2 = [at EXCEPT ![u] = 0],
           o.loaded => \/ o.room.slot[u] # [id |-> at[u], on |-> TRUE]
                       \/ \E task \in Tasks(o.queue) : SeesTo(task, u, at[u])
    PROVE  Fit(o, at2)
<1>1. ASSUME o.loaded, NEW t \in Timer
      PROVE  Watched(o, t, at2[t])
  <2>1. Watched(o, t, at[t])
    BY <1>1 DEF Fit
  <2>2. CASE t # u
    BY <2>1, <2>2
  <2>3. CASE t = u
    <3>1. o.room.slot[u] \in Deadline
      BY DEF SoundActor, ActorObject, Half
    <3>2. o.room.slot[u].on => o.room.slot[u] = [id |-> o.room.slot[u].id, on |-> TRUE]
      BY <3>1, DeadlineFacts
    <3> QED BY <1>1, <2>1, <2>3, <3>2 DEF Watched
  <2> QED BY <2>2, <2>3
<1> QED BY <1>1 DEF Fit

\* A found room has both recoveries before it.
LEMMA FetchedFit == \A at : Fit(Fetched, at)
<1>1. ~Fetched.loaded /\ ~Fetched.idle
  BY FetchedFacts
<1>2. /\ Task("recover", "phase", 0) \in TaskSet /\ Task("recover", "clock", 0) \in TaskSet
  BY ServiceAssumption DEF Task, TaskSet, Timer
<1>3. /\ Fetched.queue[1] = Task("recover", "phase", 0)
      /\ Fetched.queue[2] = Task("recover", "clock", 0) /\ Len(Fetched.queue) = 2
  BY FetchedFacts
<1>4. \A t \in Timer : \E task \in Tasks(Fetched.queue) : task.kind = "recover" /\ task.timer = t
  BY <1>3 DEF Tasks, Timer, Task
<1> QED BY <1>1, <1>4 DEF Fit, RecoversAhead

\* A task that leaves must have been seen to, or be succeeded by one that sees to it.
LEMMA FitEnded ==
    ASSUME NEW o \in SoundActor, NEW at, Fit(o, at), o.loaded, o.queue # <<>>,
           NEW p, p.loaded, p.room = o.room, ~p.idle, Tasks(Tail(o.queue)) \subseteq Tasks(p.queue),
           NEW at2,
           \A t \in Timer : o.room.slot[t].on =>
              \/ at2[t] = at[t] /\ ~SeesTo(Head(o.queue), t, o.room.slot[t].id)
              \/ at2[t] = o.room.slot[t].id
              \/ \E task \in Tasks(p.queue) : SeesTo(task, t, o.room.slot[t].id)
    PROVE  Fit(p, at2)
<1>1. o.queue \in Seq(TaskSet)
  BY DEF SoundActor, ActorObject
<1>2. Tasks(o.queue) = Tasks(Tail(o.queue)) \cup {Head(o.queue)}
  BY <1>1, TasksFacts
<1>3. ASSUME NEW t \in Timer, o.room.slot[t].on
      PROVE  at2[t] = o.room.slot[t].id \/ \E task \in Tasks(p.queue) : SeesTo(task, t, o.room.slot[t].id)
  <2>1. at[t] = o.room.slot[t].id \/ \E task \in Tasks(o.queue) : SeesTo(task, t, o.room.slot[t].id)
    BY <1>3 DEF Fit, Watched
  <2> QED BY <1>2, <1>3, <2>1
<1> QED BY <1>3 DEF Fit, Watched

\* Whoever asks for a room nobody has gets one with both recoveries before it.
LEMMA FoundIsFit ==
    ASSUME BaseInv, Next, OrphanIsDead, registered = NoActor, registered' \in Actor
    PROVE  Fit(actor'[registered'], armed')
<1>1. /\ actor \in [Actor -> SoundActor] /\ TypeOK /\ NoActor \notin Actor
      /\ Memory = [actor |-> actor, registered |-> registered]
  BY TypedMemory, ServiceAssumption DEF BaseInv, Memory
<1>2. \A a \in Actor : ~(Running(a) /\ actor[a].loaded)
  BY <1>1, LoadedAlone
<1>3. CASE CreateSave
  <2> DEFINE o == [Blank EXCEPT !.loaded = TRUE]
  <2>1. actor' = [actor EXCEPT ![registered'] = o]
    BY <1>1, <1>3 DEF CreateSave
  <2>2. actor'[registered'] = o
    BY <1>1, <2>1
  <2>3. o.loaded /\ ~o.idle /\ o.room = FirstRoom
    BY DEF Blank
  <2> HIDE DEF o
  <2> QED BY <2>2, <2>3 DEF Fit, Watched, FirstRoom, NoSlots, Off
<1>4. CASE ClientRequest
  <2>1. PICK b \in Actor, G \in [Actor -> SoundActor] :
           /\ Found(Memory, b, G) /\ registered' = b
           /\ actor' = [G EXCEPT ![b] = Given(G[b], ClientEvent)]
    BY <1>1, <1>4, RequestStep
  <2>2. ClientEvent \in TaskSet /\ Fetched \in SoundActor /\ ~Fetched.loaded
    BY <1>1, <1>4, RequestStep, FetchedFacts
  <2>3. actor'[b] = Given(Fetched, ClientEvent)
    BY <1>1, <2>1 DEF Found
  <2> QED BY <2>1, <2>2, <2>3, FetchedFit, FitGiven
<1>5. ASSUME NEW t \in Timer, TimerFires(t)
      PROVE  Fit(actor'[registered'], armed')
  <2>1. PICK b \in Actor, G \in [Actor -> SoundActor] :
           Found(Memory, b, G) /\ registered' = b /\ Expires(G, b, t, armed[t], actor')
    BY <1>1, <1>5, FireStep
  <2>2. armed[t] \in 0 .. MaxChanges
    BY <1>1, <1>5, FireStep, ServiceAssumption
  <2> DEFINE task == Task("check", t, armed[t])
  <2>3. task \in TaskSet /\ Fetched \in SoundActor /\ ~Fetched.loaded
    BY <2>2, FetchedFacts DEF TaskSet, Task
  <2>4. G[b] = Fetched
    BY <1>1, <2>1 DEF Found
  <2>5. actor'[b] = Given(Fetched, task)
    BY <2>1, <2>3, <2>4 DEF Expires
  <2> HIDE DEF task
  <2> QED BY <2>1, <2>3, <2>5, FetchedFit, FitGiven
<1>6. ASSUME NEW a \in Actor, \/ Recover(a) \/ Check(a) \/ Reject(a) \/ Accept(a)
                              \/ SavePublic(a) \/ SavePrivate(a) \/ SavePrivateFails(a) \/ Commit(a)
      PROVE  FALSE
  BY <1>1, <1>2, <1>6 DEF Recover, Check, Reject, Accept, Dispatching, SavePublic, SavePrivate,
                          SavePrivateFails, Commit, TypeOK
<1>7. ASSUME NEW a \in Actor, Load(a) \/ Fruitless(a)
      PROVE  FALSE
  BY <1>1, <1>7, FruitlessStep DEF Load
<1>8. CASE ProcessStep \/ CreateFails \/ EvictIdle \/ Tick \/ Crash \/ \E t \in Timer : DeadlinePasses(t)
  BY <1>1, <1>8 DEF ProcessStep, ConnectToRedis, ConnectToDatabase, CreateRuntime, StartFails,
                    Shutdown, CreateRoom, CreateFails, EvictIdle, Tick, Crash, DeadlinePasses
<1> QED BY <1>3, <1>4, <1>5, <1>6, <1>7, <1>8 DEF Next, Work, ProcessStep, Fruitless

\* What the registered actor's own task does to it.
LEMMA WorkKeepsFit ==
    ASSUME BaseInv, NEW r \in Actor, r = registered, Fit(actor[r], armed),
           \/ Recover(r) \/ Check(r) \/ Reject(r) \/ Commit(r)
    PROVE  Fit(actor'[r], armed')
<1> DEFINE o == actor[r]
           h == Head(o.queue)
<1>1. TypeOK /\ actor \in [Actor -> SoundActor] /\ o \in SoundActor
  BY TypedMemory DEF BaseInv
<1>2. /\ Fit(o, armed) /\ Running(r) /\ o.queue # <<>> /\ o.loaded /\ h \in TaskSet
      /\ armed \in [Timer -> Nat] /\ NoActor # r
  <2>1. Running(r) /\ o.loaded
    BY <1>1 DEF Recover, Check, Reject, Dispatching, Commit, TypeOK
  <2>2. o.queue \in Seq(TaskSet)
    BY <1>1 DEF SoundActor, ActorObject
  <2>3. armed \in [Timer -> Nat]
    BY <1>1, ServiceAssumption DEF TypeOK
  <2> QED BY <2>1, <2>2, <2>3, TailTasks, ServiceAssumption DEF Running
<1>3. /\ Ended(o) \in SoundActor /\ Ended(o).queue = Tail(o.queue) /\ Ended(o).idle = o.idle
      /\ Ended(o).loaded = o.loaded /\ Ended(o).room = o.room
      /\ Left(r, o) = Ended(o)
  BY <1>1, <1>2, EndedFacts DEF Left
<1>4. h \in Tasks(o.queue)
  BY <1>1, <1>2, TasksFacts DEF SoundActor, ActorObject
<1>5. \A t \in Timer : o.room.slot[t] \in Deadline
  BY <1>1 DEF SoundActor, ActorObject, Half
<1>6. CASE Commit(r)
  <2> DEFINE q == Took(o)
             l == Left(r, q)
  <2>1. /\ q \in SoundActor /\ q.queue = o.queue /\ q.room = o.next /\ q.loaded = o.loaded /\ ~q.idle
        /\ actor' = [actor EXCEPT ![r] = l]
    BY <1>1, <1>6, CommitStep
  <2>2. l = Ended(q)
    BY DEF Left
  <2> HIDE DEF q
  <2>3. Ended(q).room = q.room /\ Ended(q).loaded = q.loaded /\ Ended(q).idle = q.idle
    BY <1>2, <2>1, EndedFacts
  <2> HIDE DEF l
  <2>4. actor'[r] = l /\ l.room = o.next /\ l.loaded /\ ~l.idle
    BY <1>1, <1>2, <2>1, <2>2, <2>3
  <2>5. armed' = [t \in Timer |-> Scheduled(o.next.slot[t])]
    BY <1>6 DEF Commit, SyncTimers
  <2> QED BY <2>4, <2>5 DEF Fit, Watched, Scheduled
<1>7. CASE Reject(r)
  <2> DEFINE l == Left(r, o)
             p == [l EXCEPT !.idle = FALSE]
  <2>1. actor' = [actor EXCEPT ![r] = p] /\ armed' = armed
    BY <1>1, <1>7, RejectStep DEF Reject, timerVars
  <2>2. l \in SoundActor /\ l.queue = Tail(o.queue) /\ l.loaded /\ l.room = o.room
    BY <1>2, <1>3
  <2> HIDE DEF l
  <2>3. p.queue = Tail(o.queue) /\ p.loaded /\ p.room = o.room /\ ~p.idle
    BY <2>2 DEF SoundActor, ActorObject
  <2>4. actor'[r] = p
    BY <1>1, <2>1
  <2> HIDE DEF p
  <2>5. ASSUME NEW t \in Timer, o.room.slot[t].on
        PROVE  ~SeesTo(h, t, o.room.slot[t].id)
    <3>1. o.room.slot[t] = [id |-> o.room.slot[t].id, on |-> TRUE]
      BY <1>5, <2>5, DeadlineFacts
    <3> QED BY <1>7, <3>1 DEF SeesTo, Reject, Dispatching, StillDue, HeadTask
  <2> QED BY <1>1, <1>2, <2>1, <2>3, <2>4, <2>5, FitEnded
<1>8. CASE Check(r)
  <2> DEFINE l == Left(r, o)
             task == Task("expire", h.timer, h.id)
             d == [id |-> h.id, on |-> TRUE]
  <2>1. /\ h.kind = "check" /\ task \in TaskSet /\ armed' = armed
        /\ \/ l.room.slot[h.timer] # d /\ actor' = [actor EXCEPT ![r] = l]
           \/ l.room.slot[h.timer] = d /\ actor' = [actor EXCEPT ![r] = Given(l, task)]
    BY <1>1, <1>8, CheckStep DEF Check, timerVars, HeadTask
  <2>2. l \in SoundActor /\ l.queue = Tail(o.queue) /\ l.loaded /\ l.room = o.room /\ l.idle = o.idle
    BY <1>2, <1>3
  <2>3. ~o.idle
    BY <1>2, <1>4, <2>1 DEF Fit, IdleIsBusy
  <2>4. l.queue \in Seq(TaskSet)
    BY <2>2 DEF SoundActor, ActorObject
  <2> HIDE DEF l
  <2>5. ASSUME NEW t \in Timer, o.room.slot[t].on, SeesTo(h, t, o.room.slot[t].id)
        PROVE  o.room.slot[h.timer] = d /\ SeesTo(task, t, o.room.slot[t].id)
    <3>1. o.room.slot[t] = [id |-> o.room.slot[t].id, on |-> TRUE]
      BY <1>5, <2>5, DeadlineFacts
    <3> QED BY <2>1, <2>5, <3>1 DEF SeesTo, Task
  <2>6. CASE l.room.slot[h.timer] # d /\ actor' = [actor EXCEPT ![r] = l]
    <3>1. actor'[r] = l
      BY <1>1, <2>6
    <3> QED BY <1>1, <1>2, <2>1, <2>2, <2>3, <2>5, <2>6, <3>1, FitEnded
  <2>7. CASE l.room.slot[h.timer] = d /\ actor' = [actor EXCEPT ![r] = Given(l, task)]
    <3> DEFINE p == Given(l, task)
    <3>1. p.queue = Append(l.queue, task) /\ p.loaded /\ p.room = o.room /\ ~p.idle
      BY <2>1, <2>2, <2>3, GivenFacts
    <3>2. actor'[r] = p
      BY <1>1, <2>7
    <3> HIDE DEF p
    <3> HIDE DEF task
    <3>3. Tasks(p.queue) = Tasks(Tail(o.queue)) \cup {task}
      <4> DEFINE q == l.queue
      <4>1. q \in Seq(TaskSet) /\ task \in TaskSet
        BY <2>1, <2>4
      <4> HIDE DEF q
      <4>2. Tasks(Append(q, task)) = Tasks(q) \cup {task}
        BY <4>1, TasksFacts
      <4> QED BY <2>2, <3>1, <4>2 DEF q
    <3>4. \A t \in Timer : o.room.slot[t].on =>
             \/ armed'[t] = armed[t] /\ ~SeesTo(h, t, o.room.slot[t].id)
             \/ \E x \in Tasks(p.queue) : SeesTo(x, t, o.room.slot[t].id)
      BY <2>1, <2>5, <3>3
    <3>5. Tasks(Tail(o.queue)) \subseteq Tasks(p.queue)
      BY <3>3
    <3> HIDE DEF o
    <3>6. Fit(p, armed')
      BY <1>1, <1>2, <3>1, <3>4, <3>5, FitEnded
    <3> QED BY <3>2, <3>6
  <2> QED BY <2>1, <2>6, <2>7
<1>9. CASE Recover(r)
  <2> DEFINE u == h.timer
             s == o.room.slot[u]
             l == Left(r, o)
             A == [actor EXCEPT ![r] = l]
             task == Task("expire", u, s.id)
  <2>1. /\ h.kind = "recover" /\ u \in Timer /\ s \in Deadline
        /\ \/ ~s.on /\ armed' = [armed EXCEPT ![u] = 0] /\ actor' = A
           \/ /\ Passed(u, s) /\ armed' = armed
              /\ \E b \in Actor, G \in [Actor -> SoundActor] :
                    /\ Found([actor |-> A, registered |-> registered], b, G)
                    /\ Expires(G, b, u, s.id, actor')
           \/ s.on /\ armed' = [armed EXCEPT ![u] = s.id] /\ actor' = A
    BY <1>1, <1>9, RecoverStep DEF HeadTask
  <2>2. l \in SoundActor /\ l.queue = Tail(o.queue) /\ l.loaded /\ l.room = o.room /\ l.idle = o.idle
    BY <1>2, <1>3
  <2>3. ~o.idle
    BY <1>2, <1>4, <2>1 DEF Fit, IdleIsBusy
  <2>4. l.queue \in Seq(TaskSet) /\ s.id \in 0 .. MaxChanges
    BY <2>1, <2>2, DeadlineFacts DEF SoundActor, ActorObject
  <2>5. task \in TaskSet
    BY <2>1, <2>4 DEF Task, TaskSet
  <2> HIDE DEF l
  <2>6. A[r] = l
    BY <1>1
  <2>7. \A t \in Timer \ {u} : ~SeesTo(h, t, o.room.slot[t].id)
    BY DEF SeesTo
  <2>8. CASE actor' = A /\ (s.on => armed'[u] = s.id) /\ \A t \in Timer \ {u} : armed'[t] = armed[t]
    <3>1. actor'[r] = l
      BY <2>6, <2>8
    <3>2. \A t \in Timer : o.room.slot[t].on =>
             \/ armed'[t] = armed[t] /\ ~SeesTo(h, t, o.room.slot[t].id)
             \/ armed'[t] = o.room.slot[t].id
      BY <2>7, <2>8
    <3>3. l.loaded /\ l.room = o.room /\ ~l.idle /\ Tasks(Tail(o.queue)) \subseteq Tasks(l.queue)
      BY <1>2, <2>2, <2>3
    <3> HIDE DEF o
    <3>4. Fit(l, armed')
      BY <1>1, <1>2, <3>2, <3>3, FitEnded
    <3> QED BY <3>1, <3>4
  <2>9. ASSUME Passed(u, s), armed' = armed,
               NEW b \in Actor, NEW G \in [Actor -> SoundActor],
               Found([actor |-> A, registered |-> registered], b, G),
               Expires(G, b, u, s.id, actor')
        PROVE  Fit(actor'[r], armed')
    <3> DEFINE p == Given(l, task)
    <3>1. b = r /\ G = A
      BY <1>2, <2>9 DEF Found
    <3>2. s = [id |-> s.id, on |-> TRUE]
      BY <2>1, <2>9, DeadlineFacts DEF Passed
    <3>3. actor' = [A EXCEPT ![r] = p]
      BY <2>2, <2>6, <2>9, <3>1, <3>2 DEF Expires
    <3>4. actor'[r] = p
      BY <1>1, <3>3
    <3>5. p.queue = Append(l.queue, task) /\ p.loaded /\ p.room = o.room /\ ~p.idle
      BY <2>2, <2>3, <2>5, GivenFacts
    <3> HIDE DEF p
    <3>6. SeesTo(task, u, s.id)
      BY DEF SeesTo, Task
    <3> HIDE DEF task
    <3>7. Tasks(p.queue) = Tasks(Tail(o.queue)) \cup {task}
      <4> DEFINE q == l.queue
      <4>1. q \in Seq(TaskSet) /\ task \in TaskSet
        BY <2>4, <2>5
      <4> HIDE DEF q
      <4>2. Tasks(Append(q, task)) = Tasks(q) \cup {task}
        BY <4>1, TasksFacts
      <4> QED BY <2>2, <3>5, <4>2 DEF q
    <3>8. \A t \in Timer : o.room.slot[t].on =>
             \/ armed'[t] = armed[t] /\ ~SeesTo(h, t, o.room.slot[t].id)
             \/ \E x \in Tasks(p.queue) : SeesTo(x, t, o.room.slot[t].id)
      BY <2>7, <2>9, <3>6, <3>7
    <3>9. Tasks(Tail(o.queue)) \subseteq Tasks(p.queue)
      BY <3>7
    <3> HIDE DEF o
    <3>10. Fit(p, armed')
      BY <1>1, <1>2, <3>5, <3>8, <3>9, FitEnded
    <3> QED BY <3>4, <3>10
  <2> QED BY <1>2, <2>1, <2>8, <2>9
<1> QED BY <1>6, <1>7, <1>8, <1>9

\* A process that is shutting down never serves again.
LEMMA ClosingIsFinal ==
    ASSUME Next, process \in {"up", "closing"}, process' = "up"
    PROVE  process = "up"
<1>1. CASE ProcessStep \/ CreateSave \/ CreateFails \/ ClientRequest \/ EvictIdle \/ Tick \/ Crash
  BY <1>1 DEF ProcessStep, ConnectToRedis, ConnectToDatabase, CreateRuntime, StartFails,
              Shutdown, CreateRoom, CreateSave, CreateFails, ClientRequest, EvictIdle,
              Tick, Crash, storeVars
<1>2. ASSUME NEW t \in Timer, TimerFires(t) \/ DeadlinePasses(t)
      PROVE  process' = process
  BY <1>2 DEF TimerFires, DeadlinePasses, storeVars
<1>3. ASSUME NEW a \in Actor,
             \/ Load(a) \/ LoadInconsistent(a) \/ LoadFails(a) \/ Recover(a) \/ Check(a) \/ Reject(a)
             \/ SavePublic(a) \/ SavePublicFails(a) \/ SavePrivate(a) \/ SavePrivateFails(a)
             \/ Undo(a) \/ Accept(a) \/ Commit(a)
      PROVE  process' = process
  BY <1>3 DEF Load, LoadInconsistent, LoadFails, Recover, Check, Reject, SavePublic,
              SavePublicFails, SavePrivate, SavePrivateFails, Undo, Accept, Commit, storeVars
<1> QED BY <1>1, <1>2, <1>3 DEF Next, Work, ProcessStep

\* A request or a timeout leaves the registered actor fit.
LEMMA RequestKeepsFit ==
    ASSUME BaseInv, NEW r \in Actor, r = registered, Fit(actor[r], armed),
           ClientRequest \/ \E t \in Timer : TimerFires(t)
    PROVE  Fit(actor'[r], armed')
<1> DEFINE o == actor[r]
<1>1. /\ TypeOK /\ actor \in [Actor -> SoundActor] /\ o \in SoundActor /\ NoActor # r
      /\ Memory = [actor |-> actor, registered |-> registered]
      /\ armed \in [Timer -> Nat] /\ armed \in [Timer -> 0 .. MaxChanges]
  BY TypedMemory, ServiceAssumption DEF BaseInv, Memory, TypeOK
<1>2. CASE ClientRequest
  <2>1. PICK b \in Actor, G \in [Actor -> SoundActor] :
           /\ Found(Memory, b, G)
           /\ actor' = [G EXCEPT ![b] = Given(G[b], ClientEvent)]
    BY <1>1, <1>2, RequestStep
  <2>2. b = r /\ G = actor
    BY <1>1, <2>1 DEF Found
  <2>3. actor'[r] = Given(o, ClientEvent) /\ armed' = armed
    BY <1>1, <1>2, <2>1, <2>2 DEF ClientRequest, timerVars
  <2>4. ClientEvent \in TaskSet /\ ClientEvent.kind = "event"
    BY <1>1, <1>2, RequestStep DEF ClientEvent, Task
  <2> QED BY <1>1, <2>3, <2>4, FitGiven
<1>3. ASSUME NEW t \in Timer, TimerFires(t)
      PROVE  Fit(actor'[r], armed')
  <2> DEFINE id == armed[t]
  <2>1. PICK b \in Actor, G \in [Actor -> SoundActor] :
           Found(Memory, b, G) /\ Expires(G, b, t, id, actor')
    BY <1>1, <1>3, FireStep
  <2>2. b = r /\ G = actor
    BY <1>1, <2>1 DEF Found
  <2>3. id \in 0 .. MaxChanges /\ armed' = [armed EXCEPT ![t] = 0]
    BY <1>1, <1>3 DEF TimerFires
  <2>4. Task("check", t, id) \in TaskSet /\ Task("expire", t, id) \in TaskSet
    BY <2>3 DEF Task, TaskSet
  <2>5. ASSUME NEW p \in SoundActor, Fit(p, armed), actor'[r] = p,
               p.loaded => \/ p.room.slot[t] # [id |-> id, on |-> TRUE]
                           \/ \E task \in Tasks(p.queue) : SeesTo(task, t, id)
        PROVE  Fit(actor'[r], armed')
    BY <1>1, <2>3, <2>5, FitDisarmed
  <2>6. CASE ~o.loaded /\ actor' = [actor EXCEPT ![r] = Given(o, Task("check", t, id))]
    <3> DEFINE p == Given(o, Task("check", t, id))
    <3>1. p \in SoundActor /\ ~p.loaded
      BY <1>1, <2>4, <2>6, GivenFacts
    <3>2. Fit(p, armed)
      BY <1>1, <2>4, <2>6, FitGiven
    <3>3. actor'[r] = p
      BY <1>1, <2>6
    <3> HIDE DEF p
    <3> QED BY <2>5, <3>1, <3>2, <3>3
  <2>7. CASE o.loaded /\ actor' = [actor EXCEPT ![r] = Given(o, Task("expire", t, id))]
    <3> DEFINE task == Task("expire", t, id)
               p == Given(o, task)
    <3>1. p \in SoundActor /\ p.queue = Append(o.queue, task)
      BY <1>1, <2>4, GivenFacts
    <3>2. task.kind = "expire" /\ SeesTo(task, t, id)
      BY DEF SeesTo, Task
    <3>3. Fit(p, armed)
      BY <1>1, <2>4, <3>2, FitGiven
    <3>4. actor'[r] = p
      BY <1>1, <2>7
    <3>5. o.queue \in Seq(TaskSet) /\ task \in TaskSet
      BY <1>1, <2>4 DEF SoundActor, ActorObject
    <3> HIDE DEF p, task
    <3>6. task \in Tasks(p.queue)
      BY <3>1, <3>5, TasksFacts
    <3> QED BY <2>5, <3>1, <3>2, <3>3, <3>4, <3>6
  <2>8. CASE o.room.slot[t] # [id |-> id, on |-> TRUE] /\ actor' = actor
    BY <1>1, <2>5, <2>8
  <2> QED BY <2>1, <2>2, <2>6, <2>7, <2>8 DEF Expires
<1> QED BY <1>2, <1>3

\* The registered actor stays fit, or the room is lost.
LEMMA RegisteredStaysFit ==
    ASSUME BaseInv, Next, faults' = 0, OrphanIsDead, NothingUndone, RegisteredIsFit
    PROVE  RegisteredIsFit'
<1> SUFFICES ASSUME process' = "up", registered' # NoActor
             PROVE  Dead' \/ Fit(actor'[registered'], armed')
  BY DEF RegisteredIsFit
<1>1. /\ TypeOK /\ actor \in [Actor -> SoundActor] /\ NoActor \notin Actor
      /\ registered \in Actor \cup {NoActor} /\ registered' \in Actor
      /\ MemoryStep
  BY TypedMemory, BaseStep, MemorySteps, ServiceAssumption DEF BaseInv, TypeOK
<1>2. CASE registered = NoActor
  BY <1>1, <1>2, FoundIsFit
<1>3. CASE registered # NoActor
  <2> DEFINE r == registered
             o == actor[r]
  <2>1. r' = r
    BY <1>1, <1>3 DEF MemoryStep, EvictIdle, Crash
  <2>2. creating = "done" /\ process = "up" /\ r \in Actor /\ o \in SoundActor /\ o \in ActorObject
    BY <1>1, <1>3, OnlyWhileKnown, ClosingIsFinal DEF BaseInv, SoundActor
  <2>3. CASE Dead
    BY <2>2, <2>3, DeadStays
  <2>4. CASE ~Dead
    <3>1. Fit(o, armed)
      BY <1>3, <2>2, <2>4 DEF RegisteredIsFit
    <3>2. \A a \in Actor : Running(a) => a = r
      BY <2>4 DEF OrphanIsDead
    <3>3. ASSUME NEW p, actor'[r] = p, armed' = armed,
                 p.loaded = o.loaded, p.room = o.room, p.queue = o.queue,
                 p.idle = o.idle, p.busy = o.busy
          PROVE  Fit(actor'[r], armed')
      BY <3>1, <3>3, FitSame
    <3>4. CASE ClientRequest \/ \E t \in Timer : TimerFires(t)
      BY <2>1, <2>2, <3>1, <3>4, RequestKeepsFit
    <3>5. ASSUME NEW a \in Actor, Recover(a) \/ Check(a) \/ Reject(a) \/ Commit(a)
          PROVE  Fit(actor'[r], armed')
      <4>1. Running(a)
        BY <1>1, <3>5 DEF Recover, Check, Reject, Dispatching, Commit, TypeOK
      <4>2. a = r
        BY <3>2, <4>1
      <4> HIDE DEF o
      <4> QED BY <2>2, <3>1, <3>5, <4>2, WorkKeepsFit DEF o
    <3>6. ASSUME NEW a \in Actor, Load(a)
          PROVE  Fit(actor'[r], armed')
      <4>1. a = r /\ ~o.loaded /\ armed' = armed
        BY <3>2, <3>6 DEF Load, timerVars
      <4>2. RecoversAhead(o)
        BY <3>1, <4>1 DEF Fit
      <4> DEFINE p == Loaded(o)
      <4>3. actor'[r] = p /\ p.loaded /\ p.queue = o.queue /\ p.idle = o.idle
        BY <1>1, <2>2, <3>6, <4>1, LoadStep
      <4> HIDE DEF p
      <4> QED BY <4>2, <4>3 DEF Fit, RecoversAhead, Watched, SeesTo
    <3>7. ASSUME NEW a \in Actor, LoadInconsistent(a)
          PROVE  FALSE
      <4>1. a = r /\ ~o.loaded /\ ~(KvHas(store, "room") /\ KvHas(store, "private"))
        BY <3>2, <3>7 DEF LoadInconsistent
      <4> QED BY <2>4, <4>1, LoadedAlone DEF Dead
    <3>8. ASSUME NEW a \in Actor, Accept(a)
          PROVE  Fit(actor'[r], armed')
      <4>1. a = r /\ armed' = armed
        BY <3>2, <3>8 DEF Accept, Dispatching, timerVars
      <4>2. PICK slot \in [Timer -> Deadline] :
               LET p == Dispatched(o, changes + 1, slot)
               IN  /\ actor' = [actor EXCEPT ![r] = p]
                   /\ p.queue = o.queue /\ p.loaded /\ p.idle = o.idle /\ p.busy = o.busy
                   /\ p.room = o.room
        BY <1>1, <3>8, <4>1, AcceptStep
      <4> DEFINE p == Dispatched(o, changes + 1, slot)
      <4>3. /\ actor'[r] = p /\ p.queue = o.queue /\ p.loaded /\ o.loaded
            /\ p.idle = o.idle /\ p.busy = o.busy /\ p.room = o.room
        BY <1>1, <2>2, <3>8, <4>1, <4>2 DEF Accept, Dispatching
      <4> HIDE DEF p
      <4> QED BY <3>1, <4>1, <4>3 DEF Fit, RecoversAhead, IdleIsBusy, Watched
    <3>9. ASSUME NEW a \in Actor, SavePublic(a) \/ SavePrivate(a)
          PROVE  Fit(actor'[r], armed')
      <4>1. /\ actor[a].stage # "start" /\ armed' = armed
            /\ \E st \in Stage \ {"start"} : actor' = [actor EXCEPT ![a].stage = st]
        BY <3>9 DEF SavePublic, SavePrivate, Stage, timerVars
      <4>2. a = r
        BY <1>1, <3>2, <4>1 DEF TypeOK
      <4>3. PICK st \in Stage \ {"start"} : actor' = [actor EXCEPT ![r].stage = st]
        BY <4>1, <4>2
      <4> DEFINE p == [o EXCEPT !.stage = st]
      <4>4. /\ actor'[r] = p /\ p.queue = o.queue /\ p.loaded = o.loaded /\ p.idle = o.idle
            /\ p.busy = o.busy /\ p.room = o.room
        BY <1>1, <2>2, <4>3 DEF ActorObject
      <4> HIDE DEF p
      <4> QED BY <3>3, <4>1, <4>4
    <3>10. ASSUME NEW a \in Actor, Undo(a) \/ LoadFails(a) \/ SavePublicFails(a) \/ SavePrivateFails(a)
           PROVE  FALSE
      BY <3>10, FaultsCount DEF Undo, NothingUndone
    <3>11. CASE Tick
      <4>1. /\ armed' = armed /\ o.queue = <<>> /\ actor'[r] = [o EXCEPT !.idle = TRUE]
        BY <2>2, <3>11 DEF Tick, timerVars, Running
      <4> DEFINE p == [o EXCEPT !.idle = TRUE]
      <4>2. p.loaded = o.loaded /\ p.room = o.room /\ p.queue = <<>>
        BY <2>2, <4>1 DEF ActorObject
      <4>3. Tasks(o.queue) = {} /\ Tasks(p.queue) = {}
        BY <4>1, <4>2 DEF Tasks
      <4>4. o.loaded
        BY <3>1, <4>3 DEF Fit, RecoversAhead, Timer
      <4> HIDE DEF p
      <4>5. IdleIsBusy(p)
        BY <4>2, <4>3 DEF IdleIsBusy
      <4>6. \A t \in Timer : Watched(p, t, armed[t])
        BY <3>1, <4>2, <4>3, <4>4 DEF Fit, Watched
      <4>7. actor'[r] = p
        BY <4>1 DEF p
      <4> QED BY <2>1, <4>1, <4>2, <4>4, <4>5, <4>6, <4>7 DEF Fit
    <3>12. CASE \/ ConnectToRedis \/ ConnectToDatabase \/ CreateRuntime \/ StartFails \/ CreateRoom
                \/ \E t \in Timer : DeadlinePasses(t)
      <4>1. UNCHANGED <<actor, armed>>
        BY <3>12 DEF ConnectToRedis, ConnectToDatabase, CreateRuntime, StartFails, CreateRoom,
                     DeadlinePasses, timerVars
      <4> QED BY <2>1, <3>1, <4>1
    <3>13. ~Shutdown /\ ~CreateSave /\ ~CreateFails /\ ~EvictIdle /\ ~Crash
      <4>1. ~CreateSave /\ ~CreateFails
        BY <2>2, ServiceAssumption DEF CreateSave, CreateFails, SaveOrder
      <4>2. ~Shutdown /\ ~EvictIdle /\ ~Crash
        BY DEF Shutdown, EvictIdle, Crash
      <4> QED BY <4>1, <4>2
    <3> HIDE DEF o
    <3> QED BY <2>1, <3>4, <3>5, <3>6, <3>7, <3>8, <3>9, <3>10, <3>11, <3>12, <3>13 DEF Next, Work
  <2> QED BY <2>3, <2>4
<1> QED BY <1>2, <1>3

\* The watch is kept by every step.
LEMMA WatchHolds == Spec => [](BaseInv /\ WatchInv)
<1>1. Init => WatchInv
  BY BlankFields DEF Init, WatchInv, OrphanIsDead, Running, NothingUndone, RegisteredIsFit
<1>2. BaseInv /\ WatchInv /\ [Next]_vars => WatchInv'
  <2> SUFFICES ASSUME BaseInv, WatchInv, [Next]_vars, faults' = 0
               PROVE  OrphanIsDead' /\ NothingUndone' /\ RegisteredIsFit'
    BY DEF WatchInv
  <2>1. CASE Next
    <3>1. OrphanIsDead /\ NothingUndone /\ RegisteredIsFit
      BY <2>1, FaultsCount DEF WatchInv
    <3> QED BY <2>1, <3>1, OrphansStayDead, NothingIsUndone, RegisteredStaysFit
  <2>2. CASE UNCHANGED vars
    BY <2>2 DEF vars, storeVars, timerVars, historyVars, WatchInv, OrphanIsDead, NothingUndone,
                RegisteredIsFit, Running, Dead
  <2> QED BY <2>1, <2>2
<1> QED BY <1>1, <1>2, BaseInit, BaseStep, PTL DEF Spec

\* As long as no store call fails, each deadline of a room in memory has its timeout, or
\* its recovery or its expiry is on the way (syncFromRoom, recoverRoom, handleExpiry), over
\* evictions, crashes and shutdowns.
THEOREM DeadlinesStayWatched == Spec => []DeadlinesAreWatched
<1>1. ASSUME BaseInv, WatchInv
      PROVE  DeadlinesAreWatched
  <2> SUFFICES ASSUME faults = 0, process = "up", registered # NoActor, actor[registered].loaded,
                      NEW t \in Timer, actor[registered].room.slot[t].on
               PROVE  \/ armed[t] = actor[registered].room.slot[t].id
                      \/ \E i \in 1 .. Len(actor[registered].queue) :
                            SeesTo(actor[registered].queue[i], t, actor[registered].room.slot[t].id)
    BY DEF DeadlinesAreWatched, SeesTo
  <2>1. registered \in Actor /\ Fit(actor[registered], armed)
    BY <1>1 DEF BaseInv, TypeOK, WatchInv, RegisteredIsFit, Dead
  <2>2. Watched(actor[registered], t, armed[t])
    BY <2>1 DEF Fit
  <2> QED BY <2>2 DEF Watched, Tasks
<1> QED BY <1>1, WatchHolds, PTL

-----------------------------------------------------------------------------
(* The two halves drift by crashes only *)

\* Every change of the private half is in the public one, which has at most n more.
Drift(pub, priv, n) ==
    /\ priv \subseteq pub
    /\ Cardinality(pub \ priv) <= n

\* What the store has of the room that is loaded, as far as its dispatch has come.
MemoryDrift ==
    \A a \in Actor : actor[a].loaded =>
        /\ Drift(actor[a].room.changes, actor[a].priv.changes, crashes)
        /\ KvHas(store, "room") =>
              KvGet(store, "room").changes =
                  IF actor[a].stage \in {"private", "refresh"} THEN actor[a].next.changes
                                                               ELSE actor[a].room.changes
        /\ KvHas(store, "private") =>
              KvGet(store, "private").changes =
                  IF actor[a].stage = "refresh" THEN actor[a].nextPriv.changes
                                                ELSE actor[a].priv.changes

StoredDrift ==
    (/\ creating = "done" /\ KvHas(store, "room") /\ KvHas(store, "private")
     /\ \A a \in Actor : ~actor[a].loaded)
    => Drift(KvGet(store, "room").changes, KvGet(store, "private").changes, crashes)

DriftInv == faults = 0 => MemoryDrift /\ StoredDrift

\* A change in both halves, or in the public one alone.
LEMMA DriftGrows ==
    ASSUME NEW pub, IsFiniteSet(pub), NEW priv, NEW k \in Nat, Drift(pub, priv, k), NEW n
    PROVE  /\ Drift(pub \cup {n}, priv \cup {n}, k)
           /\ Drift(pub \cup {n}, priv, k + 1)
           /\ Drift(pub, priv, k + 1)
<1> DEFINE D == pub \ priv
<1>1. IsFiniteSet(D) /\ Cardinality(D) \in Nat /\ Cardinality(D) <= k
  <2>1. D \in SUBSET pub /\ Cardinality(D) <= k
    BY DEF Drift
  <2> HIDE DEF D
  <2>2. IsFiniteSet(D)
    BY <2>1, FS_Subset
  <2> QED BY <2>1, <2>2, FS_CardinalityType
<1>2. (pub \cup {n}) \ (priv \cup {n}) \in SUBSET D
  OBVIOUS
<1>3. (pub \cup {n}) \ priv \in SUBSET (D \cup {n})
  OBVIOUS
<1> DEFINE E == (pub \cup {n}) \ (priv \cup {n})
           F == (pub \cup {n}) \ priv
<1>4. IsFiniteSet(E) /\ Cardinality(E) <= Cardinality(D)
  <2> HIDE DEF D, E
  <2>1. E \in SUBSET D
    BY <1>2 DEF D, E
  <2> QED BY <1>1, <2>1, FS_Subset
<1>5. IsFiniteSet(F) /\ Cardinality(F) <= Cardinality(D) + 1
  <2> DEFINE G == D \cup {n}
  <2> HIDE DEF D
  <2>1. IsFiniteSet(G) /\ Cardinality(G) <= Cardinality(D) + 1
    BY <1>1, FS_AddElement
  <2>2. F \in SUBSET G
    BY <1>3
  <2> HIDE DEF F, G
  <2>3. IsFiniteSet(F) /\ Cardinality(F) <= Cardinality(G)
    BY <2>1, <2>2, FS_Subset
  <2>4. Cardinality(F) \in Nat /\ Cardinality(G) \in Nat
    BY <2>1, <2>3, FS_CardinalityType
  <2> QED BY <1>1, <2>1, <2>3, <2>4
<1>6. Cardinality(E) \in Nat /\ Cardinality(F) \in Nat
  BY <1>4, <1>5, FS_CardinalityType
<1>7. priv \cup {n} \subseteq pub \cup {n} /\ priv \subseteq pub \cup {n} /\ priv \subseteq pub
  BY DEF Drift
<1>8. Cardinality(E) <= k /\ Cardinality(F) <= k + 1 /\ Cardinality(D) <= k + 1
  BY <1>1, <1>4, <1>5, <1>6
<1> QED BY <1>7, <1>8 DEF Drift

\* The process dies at most once in a step.
LEMMA CrashesCount ==
    ASSUME BaseInv, Next
    PROVE  /\ crashes \in Nat
           /\ crashes' = crashes \/ crashes' = crashes + 1
           /\ Crash => crashes' = crashes + 1
<1>1. crashes \in Nat
  BY ServiceAssumption DEF BaseInv, TypeOK
<1>2. ASSUME ProcessStep \/ CreateSave \/ CreateFails \/ ClientRequest \/ EvictIdle \/ Tick
      PROVE  crashes' = crashes
  BY <1>2 DEF ProcessStep, ConnectToRedis, ConnectToDatabase, CreateRuntime, StartFails,
              Shutdown, CreateRoom, CreateSave, CreateFails, ClientRequest, EvictIdle,
              Tick, historyVars
<1>3. ASSUME NEW t \in Timer, TimerFires(t) \/ DeadlinePasses(t)
      PROVE  crashes' = crashes
  BY <1>3 DEF TimerFires, DeadlinePasses, historyVars
<1>4. ASSUME NEW a \in Actor,
             \/ Load(a) \/ LoadInconsistent(a) \/ LoadFails(a) \/ Recover(a) \/ Check(a) \/ Reject(a)
             \/ SavePublic(a) \/ SavePublicFails(a) \/ SavePrivate(a) \/ SavePrivateFails(a)
             \/ Undo(a) \/ Accept(a) \/ Commit(a)
      PROVE  crashes' = crashes
  BY <1>4 DEF Load, LoadInconsistent, LoadFails, Recover, Check, Reject, SavePublic,
              SavePublicFails, SavePrivate, SavePrivateFails, Undo, Accept, Commit, historyVars
<1>5. Crash => crashes' = crashes + 1
  BY DEF Crash
<1>6. crashes' = crashes \/ crashes' = crashes + 1
  BY <1>2, <1>3, <1>4, <1>5 DEF Next, Work, ProcessStep
<1> QED BY <1>1, <1>5, <1>6

\* Everything one of the next lemmas needs of the state before.
DriftContext ==
    /\ BaseInv /\ ResultsContain /\ OrphanIsDead /\ NothingUndone
    /\ MemoryDrift /\ StoredDrift

\* The changes of a half are finitely many.
LEMMA ChangesFinite ==
    ASSUME BaseInv, NEW h \in Half
    PROVE  IsFiniteSet(h.changes)
<1>1. h.changes \in SUBSET (1 .. changes) /\ IsFiniteSet(1 .. changes)
  BY FS_Interval DEF BaseInv, TypeOK, Half
<1> QED BY <1>1, FS_Subset

\* A step that writes none of them leaves the stored halves as they were, or gone; one
\* that does writes what the registered actor's dispatch has come to.
LEMMA StoredHalves ==
    ASSUME DriftContext, Next, faults' = 0, creating = "done", NEW k \in {"room", "private"},
           KvHas(store', k)
    PROVE  \/ KvHas(store, k) /\ KvGet(store', k) = KvGet(store, k)
           \/ /\ k = "room" /\ registered \in Actor /\ SavePublic(registered)
              /\ KvGet(store', k) = actor[registered].next
           \/ /\ k = "private" /\ registered \in Actor /\ SavePrivate(registered)
              /\ KvGet(store', k) = actor[registered].nextPriv
<1>1. BaseInv /\ OrphanIsDead /\ TypeOK /\ StoreStep(k)
  BY StoreSteps DEF DriftContext, BaseInv
<1>2. ~CreateSave /\ ~CreateFails
  BY ServiceAssumption DEF CreateSave, CreateFails, SaveOrder
<1>3. ASSUME NEW a \in Actor, Writes(a, k)
      PROVE  /\ a = registered
             /\ k = "room" => SavePublic(a)
             /\ k = "private" => SavePrivate(a)
  <2>1. actor[a].stage # "start"
    BY <1>3 DEF Writes, SavePublic, SavePublicFails, SavePrivate, SavePrivateFails
  <2>2. actor[a].loaded
    BY <1>1, <2>1 DEF TypeOK
  <2> QED BY <1>1, <1>3, <2>2, LoadedAlone, FaultsCount DEF Writes
<1> QED BY <1>1, <1>2, <1>3 DEF StoreStep, Written

\* Of an actor that has the room, and has it still: memory and store move together.
LEMMA LoadedDrift ==
    ASSUME DriftContext, Next, faults' = 0, NEW c \in Actor, actor[c].loaded, SameRoom(c)
    PROVE  /\ Drift(actor'[c].room.changes, actor'[c].priv.changes, crashes')
           /\ KvHas(store', "room") =>
                 KvGet(store', "room").changes =
                     IF actor'[c].stage \in {"private", "refresh"} THEN actor'[c].next.changes
                                                                  ELSE actor'[c].room.changes
           /\ KvHas(store', "private") =>
                 KvGet(store', "private").changes =
                     IF actor'[c].stage = "refresh" THEN actor'[c].nextPriv.changes
                                                   ELSE actor'[c].priv.changes
<1>1. /\ BaseInv /\ TypeOK /\ NothingUndone /\ MemoryDrift
      /\ RoomStep(c) /\ registered = c /\ creating = "done"
      /\ "room" \in Key /\ "private" \in Key /\ actor[c] \in SoundActor
  BY RoomSteps, LoadedAlone, OnlyWhileKnown, TypedMemory, ServiceAssumption DEF DriftContext, BaseInv
<1>2. /\ Drift(actor[c].room.changes, actor[c].priv.changes, crashes)
      /\ KvHas(store, "room") =>
            KvGet(store, "room").changes =
                IF actor[c].stage \in {"private", "refresh"} THEN actor[c].next.changes
                                                             ELSE actor[c].room.changes
      /\ KvHas(store, "private") =>
            KvGet(store, "private").changes =
                IF actor[c].stage = "refresh" THEN actor[c].nextPriv.changes
                                              ELSE actor[c].priv.changes
  BY <1>1 DEF MemoryDrift
<1>3. Drift(actor'[c].room.changes, actor'[c].priv.changes, crashes')
  <2>1. crashes \in Nat /\ (crashes' = crashes \/ crashes' = crashes + 1)
    BY <1>1, CrashesCount
  <2>2. IsFiniteSet(actor[c].room.changes)
    BY <1>1, ChangesFinite DEF SoundActor, ActorObject
  <2>3. Drift(actor[c].room.changes, actor[c].priv.changes, crashes + 1)
    BY <1>2, <2>1, <2>2, DriftGrows
  <2> QED BY <1>2, <2>1, <2>3 DEF SameRoom
<1>4. ASSUME NEW st \in Stage \ {"start"}, actor[c].stage # "start",
             actor' = [actor EXCEPT ![c].stage = st]
      PROVE  /\ actor'[c].stage = st
             /\ actor'[c].next = actor[c].next /\ actor'[c].nextPriv = actor[c].nextPriv
  <2> DEFINE p == [actor[c] EXCEPT !.stage = st]
  <2>1. actor' = [actor EXCEPT ![c] = p] /\ p.stage = st
        /\ p.next = actor[c].next /\ p.nextPriv = actor[c].nextPriv
    BY <1>1, <1>4, StageStep
  <2>2. actor'[c] = p
    BY <1>1, <2>1 DEF TypeOK
  <2> QED BY <2>1, <2>2
<1>5. CASE SavePublic(c)
  <2>1. /\ actor[c].stage = "public" /\ actor'[c].stage = "private"
        /\ actor'[c].next = actor[c].next
    BY <1>4, <1>5 DEF SavePublic, Stage
  <2>2. KvHas(store', "room") /\ KvGet(store', "room") = actor[c].next
    BY <1>1, <1>5, KvFacts DEF SavePublic
  <2>3. /\ KvHas(store', "private") = KvHas(store, "private")
        /\ KvGet(store', "private") = KvGet(store, "private")
    BY <1>1, <1>5, KvFacts DEF SavePublic
  <2> QED BY <1>2, <1>3, <2>1, <2>2, <2>3 DEF SameRoom
<1>6. CASE SavePrivate(c)
  <2>1. /\ actor[c].stage = "private" /\ actor'[c].stage = "refresh"
        /\ actor'[c].next = actor[c].next /\ actor'[c].nextPriv = actor[c].nextPriv
    BY <1>4, <1>6 DEF SavePrivate, Stage
  <2>2. KvHas(store', "private") /\ KvGet(store', "private") = actor[c].nextPriv
    BY <1>1, <1>6, KvFacts DEF SavePrivate
  <2>3. /\ KvHas(store', "room") = KvHas(store, "room")
        /\ KvGet(store', "room") = KvGet(store, "room")
    BY <1>1, <1>6, KvFacts DEF SavePrivate
  <2> QED BY <1>2, <1>3, <2>1, <2>2, <2>3
<1>7. CASE ~SavePublic(c) /\ ~SavePrivate(c)
  <2>1. \A k \in {"room", "private"} : KvHas(store', k) =>
           KvHas(store, k) /\ KvGet(store', k) = KvGet(store, k)
    BY <1>1, <1>7, StoredHalves
  <2>2. CASE Keeps(c)
    BY <1>2, <1>3, <2>1, <2>2 DEF Keeps, SameRoom, SameResult
  <2>3. CASE Ends(c)
    <3>1. actor[c].stage = "start" /\ actor'[c].stage = "start"
      BY <1>1, <2>3, FaultsCount DEF Ends, Undo, NothingUndone
    <3> QED BY <1>2, <1>3, <2>1, <3>1 DEF SameRoom
  <2>4. CASE Accepts(c)
    BY <1>2, <1>3, <2>1, <2>4 DEF Accepts, SameRoom
  <2>5. CASE Advances(c)
    BY <1>1, <1>7, <2>5, FaultsCount DEF Advances
  <2>6. CASE Drops(c) \/ Loads(c) \/ IsCreated(c)
    <3>1. ~Loads(c)
      BY DEF Loads
    <3>2. ~IsCreated(c)
      BY <1>1, ServiceAssumption DEF IsCreated, CreateSave, SaveOrder
    <3>3. ~Drops(c)
      <4>1. actor'[c].loaded = actor[c].loaded
        BY DEF SameRoom
      <4> QED BY <4>1 DEF Drops
    <3> QED BY <2>6, <3>1, <3>2, <3>3
  <2>7. CASE TakesOver(c)
    <3>1. /\ actor[c].stage = "refresh" /\ actor'[c].stage = "start"
          /\ actor'[c].room = actor[c].next /\ actor'[c].priv = actor[c].nextPriv
      BY <2>7 DEF TakesOver, Commit
    <3> QED BY <1>2, <1>3, <2>1, <3>1
  <2> QED BY <1>1, <2>2, <2>3, <2>4, <2>5, <2>6, <2>7 DEF RoomStep
<1> QED BY <1>5, <1>6, <1>7

\* The same of every actor that has the room after the step.
LEMMA MemoryDriftStays ==
    ASSUME DriftContext, Next, faults' = 0
    PROVE  MemoryDrift'
<1> SUFFICES ASSUME NEW c \in Actor, actor'[c].loaded
             PROVE  /\ Drift(actor'[c].room.changes, actor'[c].priv.changes, crashes')
                    /\ KvHas(store', "room") =>
                          KvGet(store', "room").changes =
                              IF actor'[c].stage \in {"private", "refresh"} THEN actor'[c].next.changes
                                                                           ELSE actor'[c].room.changes
                    /\ KvHas(store', "private") =>
                          KvGet(store', "private").changes =
                              IF actor'[c].stage = "refresh" THEN actor'[c].nextPriv.changes
                                                            ELSE actor'[c].priv.changes
  BY DEF MemoryDrift
<1>1. /\ BaseInv /\ TypeOK /\ OrphanIsDead /\ MemoryDrift /\ StoredDrift /\ RoomStep(c)
      /\ actor[c] \in SoundActor /\ ResultContains(actor[c])
  BY RoomSteps, TypedMemory DEF DriftContext, BaseInv, ResultsContain
<1>2. crashes \in Nat /\ (crashes' = crashes \/ crashes' = crashes + 1)
  BY <1>1, CrashesCount
<1>3. CASE SameRoom(c)
  <2>1. actor[c].loaded
    BY <1>3 DEF SameRoom
  <2> QED BY <1>3, <2>1, LoadedDrift
<1>4. CASE TakesOver(c)
  <2>1. /\ actor[c].stage = "refresh" /\ actor'[c].stage = "start"
        /\ actor'[c].room = actor[c].next /\ actor'[c].priv = actor[c].nextPriv
    BY <1>4 DEF TakesOver, Commit
  <2>2. actor[c].loaded /\ c = registered
    BY <1>1, <2>1, LoadedAlone DEF TypeOK
  <2>3. creating = "done"
    BY <1>1, <2>2, OnlyWhileKnown DEF BaseInv
  <2>4. \A k \in {"room", "private"} : KvHas(store', k) =>
           KvHas(store, k) /\ KvGet(store', k) = KvGet(store, k)
    BY <2>1, <2>2, <2>3, StoredHalves DEF SavePublic, SavePrivate
  <2>5. /\ KvHas(store, "room") => KvGet(store, "room").changes = actor[c].next.changes
        /\ KvHas(store, "private") => KvGet(store, "private").changes = actor[c].nextPriv.changes
        /\ Drift(actor[c].room.changes, actor[c].priv.changes, crashes)
    BY <1>1, <2>1, <2>2 DEF MemoryDrift
  <2>6. PICK n : /\ actor[c].next.changes = actor[c].room.changes \cup {n}
                 /\ actor[c].nextPriv.changes = actor[c].priv.changes \cup {n}
    BY <1>1, <2>1 DEF ResultContains
  <2>7. IsFiniteSet(actor[c].room.changes) /\ IsFiniteSet(actor[c].next.changes)
    BY <1>1, ChangesFinite DEF SoundActor, ActorObject
  <2>8. Drift(actor[c].next.changes, actor[c].nextPriv.changes, crashes)
    <3> DEFINE pub == actor[c].room.changes
               priv == actor[c].priv.changes
    <3>1. Drift(pub, priv, crashes) /\ IsFiniteSet(pub)
      BY <2>5, <2>7
    <3> HIDE DEF pub, priv
    <3>2. Drift(pub \cup {n}, priv \cup {n}, crashes)
      BY <1>2, <3>1, DriftGrows
    <3> QED BY <2>6, <3>2 DEF pub, priv
  <2>9. Drift(actor[c].next.changes, actor[c].nextPriv.changes, crashes + 1)
    BY <1>2, <2>7, <2>8, DriftGrows
  <2> QED BY <1>2, <2>1, <2>4, <2>5, <2>8, <2>9
<1>5. CASE Loads(c)
  <2>1. \A d \in Actor : ~actor[d].loaded
    BY <1>1, <1>5, LoadedAlone DEF Loads, OrphanIsDead, Dead
  <2>2. creating = "done"
    BY <1>1, <1>5, OnlyWhileKnown DEF BaseInv, Loads
  <2>3. Drift(KvGet(store, "room").changes, KvGet(store, "private").changes, crashes)
    BY <1>1, <1>5, <2>1, <2>2 DEF StoredDrift, Loads
  <2>4. \A k \in {"room", "private"} : KvHas(store', k) =>
           KvHas(store, k) /\ KvGet(store', k) = KvGet(store, k)
    <3>1. \A d \in Actor : ~SavePublic(d) /\ ~SavePrivate(d)
      BY <1>1, <2>1 DEF SavePublic, SavePrivate, TypeOK
    <3> QED BY <2>2, <3>1, StoredHalves
  <2>5. IsFiniteSet(KvGet(store, "room").changes)
    BY <1>1, <1>5, ChangesFinite DEF TypeOK, Loads
  <2>6. Drift(KvGet(store, "room").changes, KvGet(store, "private").changes, crashes + 1)
    BY <1>2, <2>3, <2>5, DriftGrows
  <2> QED BY <1>2, <1>5, <2>3, <2>4, <2>6 DEF Loads
<1>6. CASE IsCreated(c)
  <2>1. creating # "done"
    BY <1>6 DEF IsCreated, CreateSave, SaveOrder
  <2>2. /\ \A a \in Actor : actor[a].stage = "start"
        /\ \A k \in {"room", "private"} : KvHas(store, k) => KvGet(store, k) = FirstRoom
    BY <1>1, <2>1, BlankFields DEF BaseInv, UnknownUntilCreated, NobodyHasIt
  <2>3. \A k \in {"room", "private"} : ~\E a \in Actor : Writes(a, k)
    BY <2>2 DEF Writes, SavePublic, SavePublicFails, SavePrivate, SavePrivateFails
  <2>4. \A k \in {"room", "private"} : KvHas(store', k) => KvGet(store', k) = FirstRoom
    BY <1>1, <2>2, <2>3, StoreSteps DEF StoreStep
  <2>5. Drift(FirstRoom.changes, FirstRoom.changes, crashes')
    BY <1>2, FS_EmptySet DEF Drift, FirstRoom
  <2> QED BY <1>6, <2>4, <2>5 DEF IsCreated
<1>7. ~Drops(c)
  BY DEF Drops
<1> QED BY <1>1, <1>3, <1>4, <1>5, <1>6, <1>7 DEF RoomStep, Keeps, Ends, Accepts, Advances

\* Of the store alone, when nobody has the room.
LEMMA StoredDriftStays ==
    ASSUME DriftContext, Next, faults' = 0
    PROVE  StoredDrift'
<1> SUFFICES ASSUME creating' = "done", KvHas(store', "room"), KvHas(store', "private"),
                    \A a \in Actor : ~actor'[a].loaded
             PROVE  Drift(KvGet(store', "room").changes, KvGet(store', "private").changes, crashes')
  BY DEF StoredDrift
<1>1. /\ BaseInv /\ TypeOK /\ OrphanIsDead /\ MemoryDrift /\ StoredDrift /\ NothingUndone
      /\ actor \in [Actor -> SoundActor]
  BY TypedMemory DEF DriftContext, BaseInv
<1>2. /\ crashes \in Nat /\ (crashes' = crashes \/ crashes' = crashes + 1)
      /\ Crash => crashes' = crashes + 1
  BY <1>1, CrashesCount
<1>3. ASSUME NEW pub, NEW priv, IsFiniteSet(pub), Drift(pub, priv, crashes)
      PROVE  Drift(pub, priv, crashes')
  <2>1. Drift(pub, priv, crashes + 1)
    BY <1>2, <1>3, DriftGrows
  <2> QED BY <1>2, <1>3, <2>1
<1>4. CASE creating # "done"
  <2>2. /\ \A a \in Actor : actor[a].stage = "start"
        /\ \A k \in {"room", "private"} : KvHas(store, k) => KvGet(store, k) = FirstRoom
    BY <1>1, <1>4, BlankFields DEF BaseInv, UnknownUntilCreated, NobodyHasIt
  <2>3. \A k \in {"room", "private"} : ~\E a \in Actor : Writes(a, k)
    BY <2>2 DEF Writes, SavePublic, SavePublicFails, SavePrivate, SavePrivateFails
  <2>4. \A k \in {"room", "private"} : KvHas(store', k) => KvGet(store', k) = FirstRoom
    BY <1>1, <2>2, <2>3, StoreSteps DEF StoreStep
  <2>5. Drift(FirstRoom.changes, FirstRoom.changes, crashes')
    BY <1>2, FS_EmptySet DEF Drift, FirstRoom
  <2> QED BY <2>4, <2>5
<1>5. CASE creating = "done"
  <2>1. \A k \in {"room", "private"} : KvHas(store, k) /\ KvGet(store', k) = KvGet(store, k)
    <3>1. \A a \in Actor : ~SavePublic(a) /\ ~SavePrivate(a)
      <4> SUFFICES ASSUME NEW a \in Actor, SavePublic(a) \/ SavePrivate(a) PROVE FALSE
        OBVIOUS
      <4>1. /\ actor[a].stage # "start"
            /\ \E st \in Stage \ {"start"} : actor' = [actor EXCEPT ![a].stage = st]
        BY DEF SavePublic, SavePrivate, Stage
      <4>2. PICK st \in Stage \ {"start"} : actor' = [actor EXCEPT ![a].stage = st]
        BY <4>1
      <4> DEFINE p == [actor[a] EXCEPT !.stage = st]
      <4>3. actor[a].loaded /\ p.loaded = actor[a].loaded /\ actor' = [actor EXCEPT ![a] = p]
        BY <1>1, <4>1, <4>2, StageStep
      <4>4. actor'[a] = p
        BY <1>1, <4>3
      <4> QED BY <4>3, <4>4
    <3> QED BY <1>5, <3>1, StoredHalves
  <2>2. CASE \A a \in Actor : ~actor[a].loaded
    <3>1. Drift(KvGet(store, "room").changes, KvGet(store, "private").changes, crashes)
      BY <1>1, <1>5, <2>1, <2>2 DEF StoredDrift
    <3>2. IsFiniteSet(KvGet(store, "room").changes)
      BY <1>1, <2>1, ChangesFinite DEF TypeOK
    <3> QED BY <1>3, <2>1, <3>1, <3>2
  <2>3. ASSUME NEW c \in Actor, actor[c].loaded
        PROVE  Drift(KvGet(store', "room").changes, KvGet(store', "private").changes, crashes')
    <3> DEFINE pub == actor[c].room.changes
               priv == actor[c].priv.changes
    <3>1. /\ Drift(pub, priv, crashes)
          /\ KvGet(store, "room").changes =
                IF actor[c].stage \in {"private", "refresh"} THEN actor[c].next.changes ELSE pub
          /\ KvGet(store, "private").changes =
                IF actor[c].stage = "refresh" THEN actor[c].nextPriv.changes ELSE priv
      BY <1>1, <2>1, <2>3 DEF MemoryDrift
    <3>2. IsFiniteSet(pub) /\ ResultContains(actor[c])
      BY <1>1, ChangesFinite DEF SoundActor, ActorObject, DriftContext, ResultsContain
    <3>3. actor[c].stage \in {"start", "public", "private", "refresh"}
      BY <1>1 DEF NothingUndone, SoundActor, ActorObject, Stage
    <3>4. CASE actor[c].stage \in {"start", "public"}
      BY <1>3, <2>1, <3>1, <3>2, <3>4
    <3>5. CASE actor[c].stage \in {"private", "refresh"}
      <4>1. PICK n : actor[c].next.changes = pub \cup {n} /\ actor[c].nextPriv.changes = priv \cup {n}
        BY <3>2, <3>5 DEF ResultContains
      <4> HIDE DEF pub, priv
      <4>2. /\ Drift(pub \cup {n}, priv \cup {n}, crashes) /\ Drift(pub \cup {n}, priv, crashes + 1)
            /\ IsFiniteSet(pub \cup {n})
        BY <1>2, <3>1, <3>2, DriftGrows, FS_AddElement
      <4>3. CASE actor[c].stage = "refresh"
        <5>1. Drift(pub \cup {n}, priv \cup {n}, crashes')
          BY <1>3, <4>2
        <5> QED BY <2>1, <3>1, <4>1, <4>3, <5>1
      <4>4. CASE actor[c].stage = "private"
        <5>1. RoomStep(c) /\ ~Commit(c) /\ ~actor'[c].loaded
          BY <1>1, <4>4, RoomSteps DEF Commit
        <5>2. Drops(c)
          BY <2>3, <5>1 DEF RoomStep, Keeps, SameRoom, Ends, TakesOver, Loads, Accepts, Advances, IsCreated
        <5>3. crashes' = crashes + 1
          BY <1>2, <4>4, <5>2 DEF Drops
        <5> QED BY <2>1, <3>1, <4>1, <4>2, <4>4, <5>3
      <4> QED BY <3>5, <4>3, <4>4
    <3> QED BY <3>3, <3>4, <3>5
  <2> QED BY <2>2, <2>3
<1> QED BY <1>4, <1>5

\* The drift stays bounded by the crashes.
LEMMA DriftHolds == Spec => [](BaseInv /\ ResultsContain /\ WatchInv /\ DriftInv)
<1>1. Init => DriftInv
  BY BlankFields DEF Init, DriftInv, MemoryDrift, StoredDrift
<1>2. BaseInv /\ ResultsContain /\ WatchInv /\ DriftInv /\ [Next]_vars => DriftInv'
  <2> SUFFICES ASSUME BaseInv, ResultsContain, WatchInv, DriftInv, [Next]_vars, faults' = 0
               PROVE  MemoryDrift' /\ StoredDrift'
    BY DEF DriftInv
  <2>1. CASE Next
    <3>1. DriftContext
      BY <2>1, FaultsCount DEF WatchInv, DriftInv, DriftContext
    <3> QED BY <2>1, <3>1, MemoryDriftStays, StoredDriftStays
  <2>2. CASE UNCHANGED vars
    BY <2>2 DEF vars, storeVars, historyVars, DriftInv, MemoryDrift, StoredDrift
  <2> QED BY <2>1, <2>2
<1> QED BY <1>1, <1>2, AckHolds, WatchHolds, PTL DEF Spec, AckInv

\* As long as no store call fails the stored private half has no change the public one
\* lacks, and lacks at most one per crash between the two saves of persist(), and the one
\* that is being saved: hydrate() takes both halves together.
THEOREM HalvesDriftBounded == Spec => []HalvesDriftByCrashesOnly
<1>1. ASSUME BaseInv, ResultsContain, WatchInv, DriftInv
      PROVE  HalvesDriftByCrashesOnly
  <2> DEFINE saving == {a \in Actor : actor[a].stage = "private"}
             sp == KvGet(store, "room").changes
             sq == KvGet(store, "private").changes
  <2> SUFFICES ASSUME faults = 0, creating = "done", KvHas(store, "room"), KvHas(store, "private")
               PROVE  Drift(sp, sq, crashes + Cardinality(saving))
    BY DEF HalvesDriftByCrashesOnly, Drift
  <2>1. /\ TypeOK /\ MemoryDrift /\ StoredDrift /\ NothingUndone /\ crashes \in Nat
        /\ actor \in [Actor -> SoundActor]
    BY <1>1, TypedMemory, ServiceAssumption DEF BaseInv, TypeOK, WatchInv, DriftInv
  <2>2. IsFiniteSet(saving) /\ Cardinality(saving) \in Nat
    <3>1. saving \in SUBSET Actor /\ IsFiniteSet(Actor)
      BY ServiceAssumption
    <3> HIDE DEF saving
    <3>2. IsFiniteSet(saving)
      BY <3>1, FS_Subset
    <3> QED BY <3>2, FS_CardinalityType
  <2>3. IsFiniteSet(sp) /\ IsFiniteSet(sp \ sq)
    <3>1. IsFiniteSet(sp)
      BY <1>1, <2>1, ChangesFinite DEF TypeOK
    <3>2. sp \ sq \in SUBSET sp
      OBVIOUS
    <3> HIDE DEF sp, sq
    <3> QED BY <3>1, <3>2, FS_Subset
  <2>4. Cardinality(sp \ sq) \in Nat
    BY <2>3, FS_CardinalityType
  <2>5. ASSUME Drift(sp, sq, crashes)
        PROVE  Drift(sp, sq, crashes + Cardinality(saving))
    <3> HIDE DEF sp, sq, saving
    <3> QED BY <2>1, <2>2, <2>4, <2>5 DEF Drift
  <2>6. CASE \A a \in Actor : ~actor[a].loaded
    BY <2>1, <2>5, <2>6 DEF StoredDrift
  <2>7. ASSUME NEW c \in Actor, actor[c].loaded
        PROVE  Drift(sp, sq, crashes + Cardinality(saving))
    <3> DEFINE pub == actor[c].room.changes
               priv == actor[c].priv.changes
    <3>1. /\ Drift(pub, priv, crashes)
          /\ sp = IF actor[c].stage \in {"private", "refresh"} THEN actor[c].next.changes ELSE pub
          /\ sq = IF actor[c].stage = "refresh" THEN actor[c].nextPriv.changes ELSE priv
      BY <2>1, <2>7 DEF MemoryDrift
    <3>2. IsFiniteSet(pub) /\ ResultContains(actor[c])
      BY <1>1, <2>1, ChangesFinite DEF SoundActor, ActorObject, ResultsContain
    <3>3. CASE actor[c].stage \notin {"private", "refresh"}
      BY <2>5, <3>1, <3>3
    <3>4. CASE actor[c].stage \in {"private", "refresh"}
      <4>1. PICK n : actor[c].next.changes = pub \cup {n} /\ actor[c].nextPriv.changes = priv \cup {n}
        BY <3>2, <3>4 DEF ResultContains
      <4>2. actor[c].stage = "private" => Cardinality(saving) >= 1
        <5>1. actor[c].stage = "private" => saving # {}
          OBVIOUS
        <5> HIDE DEF saving
        <5> QED BY <2>2, <5>1, FS_EmptySet
      <4> HIDE DEF pub, priv, sp, sq, saving
      <4>3. Drift(pub \cup {n}, priv \cup {n}, crashes) /\ Drift(pub \cup {n}, priv, crashes + 1)
        BY <2>1, <3>1, <3>2, DriftGrows
      <4>4. CASE actor[c].stage = "refresh"
        BY <2>5, <3>1, <4>1, <4>3, <4>4
      <4>5. CASE actor[c].stage = "private"
        <5>1. Drift(sp, sq, crashes + 1)
          BY <3>1, <4>1, <4>3, <4>5
        <5> QED BY <2>1, <2>2, <2>4, <4>2, <4>5, <5>1 DEF Drift
      <4> QED BY <3>4, <4>4, <4>5
    <3> QED BY <3>3, <3>4
  <2> QED BY <2>6, <2>7
<1> QED BY <1>1, DriftHolds, PTL

-----------------------------------------------------------------------------
(* A deadline moves the room on once.  A deadline the room still has was   *)
(* answered by none of its changes; and as the change that answers it takes*)
(* it from the room, and new deadlines carry the number of a new change,   *)
(* none that was answered comes back.                                      *)

Cause == [timer : Timer \cup {"none"}, id : Nat]

\* One cause for each of n changes; a deadline that is answered was set by an
\* earlier change.
CausesOK(cs, n) ==
    /\ cs \in Seq(Cause) /\ Len(cs) = n
    /\ \A i \in 1 .. n : cs[i].id < i

\* A half of the room that answered its deadlines once, and the ones it has not yet.
Lawful(h, cs, n) ==
    /\ \A i, j \in h.changes : i # j /\ cs[i] # ClientCause => cs[i] # cs[j]
    /\ \A t \in Timer : h.slot[t].on =>
          /\ h.slot[t].id <= n
          /\ \A i \in h.changes : cs[i] # [timer |-> t, id |-> h.slot[t].id]

CauseInv ==
    /\ CausesOK(causes, changes)
    /\ \A a \in Actor :
          /\ actor[a].loaded => Lawful(actor[a].room, causes, changes)
          /\ actor[a].stage # "start" => Lawful(actor[a].next, causes, changes)
    /\ KvHas(store, "room") => Lawful(KvGet(store, "room"), causes, changes)

\* A new room has answered nothing.
LEMMA FirstRoomLawful == \A cs, n : Lawful(FirstRoom, cs, n)
BY DEF Lawful, FirstRoom, NoSlots, Off

\* A half of n changes, and its deadlines.
HalfOf(n) == [changes : SUBSET (1 .. n), slot : [Timer -> Deadline]]

\* A deadline that is on has a number.
LEMMA DeadlineNumbers ==
    ASSUME NEW d \in Deadline, d.on PROVE d.id \in Nat
<1>1. d.id \in 1 .. MaxChanges /\ MaxChanges \in Nat
  BY DeadlineFacts, ServiceAssumption
<1> QED BY <1>1

\* ds are the causes cs of n changes, and x of one more.
OneMore(cs, n, x, ds) ==
    CausesOK(ds, n + 1) /\ ds[n + 1] = x /\ \A i \in 1 .. n : ds[i] = cs[i]

\* The history with one cause more.
LEMMA CauseAppended ==
    ASSUME NEW n \in Nat, NEW cs, CausesOK(cs, n), NEW x \in Cause, x.id <= n
    PROVE  OneMore(cs, n, x, Append(cs, x))
<1> DEFINE ds == Append(cs, x)
<1>1. cs \in Seq(Cause) /\ Len(cs) = n
  BY DEF CausesOK
<1>2. /\ ds \in Seq(Cause) /\ Len(ds) = n + 1
      /\ \A i \in 1 .. n : ds[i] = cs[i]
      /\ ds[n + 1] = x
  BY <1>1, AppendProperties
<1> HIDE DEF ds
<1>3. ASSUME NEW i \in 1 .. n + 1 PROVE ds[i].id < i
  <2>1. CASE i = n + 1
    BY <1>2, <2>1 DEF Cause
  <2>2. CASE i \in 1 .. n
    BY <1>2, <2>2 DEF CausesOK
  <2> QED BY <2>1, <2>2
<1> QED BY <1>2, <1>3 DEF CausesOK, OneMore, ds

\* What was lawful of a half stays so as the history grows.
LEMMA LawfulStays ==
    ASSUME NEW n \in Nat, NEW cs, NEW ds, \A i \in 1 .. n : ds[i] = cs[i],
           NEW h \in HalfOf(n), Lawful(h, cs, n)
    PROVE  Lawful(h, ds, n + 1)
<1>1. h.changes \in SUBSET (1 .. n) /\ h.slot \in [Timer -> Deadline]
  BY DEF HalfOf
<1>2. \A i \in h.changes : ds[i] = cs[i]
  BY <1>1
<1>3. \A t \in Timer : h.slot[t].on => h.slot[t].id \in Nat
  BY <1>1, DeadlineNumbers
<1>4. ASSUME NEW t \in Timer, h.slot[t].on PROVE h.slot[t].id <= n + 1
  <2> DEFINE i == h.slot[t].id
  <2>1. i <= n /\ i \in Nat
    BY <1>3, <1>4 DEF Lawful
  <2> HIDE DEF i
  <2>2. i <= n + 1
    BY <2>1
  <2> QED BY <2>2 DEF i
<1> QED BY <1>2, <1>4 DEF Lawful

\* The result of an accepted event is lawful, whatever it does to the deadlines.
LEMMA ResultLawful ==
    ASSUME NEW n \in Nat, NEW cs, CausesOK(cs, n), NEW h \in HalfOf(n), Lawful(h, cs, n),
           NEW x \in Cause,
           \/ x = ClientCause
           \/ x.timer \in Timer /\ h.slot[x.timer] = [id |-> x.id, on |-> TRUE],
           NEW next, next.changes = h.changes \cup {n + 1},
           next.slot \in NewSlots(h.slot, n + 1, IF x = ClientCause THEN {} ELSE {x.timer})
    PROVE  x.id <= n /\ Lawful(next, Append(cs, x), n + 1)
<1> DEFINE ds == Append(cs, x)
<1>1. h.changes \in SUBSET (1 .. n) /\ h.slot \in [Timer -> Deadline]
  BY DEF HalfOf
<1>2. x.id <= n /\ x.id \in Nat
  BY DEF Lawful, ClientCause, Cause
<1>3. CausesOK(ds, n + 1) /\ ds[n + 1] = x /\ \A i \in 1 .. n : ds[i] = cs[i]
  <2>1. OneMore(cs, n, x, ds)
    BY <1>2, CauseAppended
  <2> HIDE DEF ds
  <2> QED BY <2>1 DEF OneMore
<1> HIDE DEF ds
<1>4. \A i \in h.changes : ds[i] = cs[i] /\ i # n + 1
  BY <1>1, <1>3
<1>5. x # ClientCause => \A i \in h.changes : cs[i] # x
  <2> SUFFICES ASSUME x # ClientCause, NEW i \in h.changes PROVE cs[i] # x
    OBVIOUS
  <2>1. x.timer \in Timer /\ h.slot[x.timer] = [id |-> x.id, on |-> TRUE]
    OBVIOUS
  <2>2. cs[i] # [timer |-> x.timer, id |-> x.id]
    BY <2>1 DEF Lawful
  <2> QED BY <2>2 DEF Cause
<1>6. ASSUME NEW i \in next.changes, NEW j \in next.changes, i # j, ds[i] # ClientCause
      PROVE  ds[i] # ds[j]
  <2>1. CASE i \in h.changes /\ j \in h.changes
    BY <1>4, <1>6, <2>1 DEF Lawful
  <2>2. CASE i = n + 1 /\ j \in h.changes
    BY <1>3, <1>4, <1>5, <1>6, <2>2
  <2>3. CASE j = n + 1 /\ i \in h.changes
    BY <1>3, <1>4, <1>5, <1>6, <2>3
  <2> QED BY <1>6, <2>1, <2>2, <2>3
<1>7. ASSUME NEW t \in Timer, next.slot[t].on
      PROVE  /\ next.slot[t].id <= n + 1
             /\ \A i \in next.changes : ds[i] # [timer |-> t, id |-> next.slot[t].id]
  <2> DEFINE s == next.slot[t]
  <2> DEFINE must == IF x = ClientCause THEN {} ELSE {x.timer}
  <2>1. /\ s = [id |-> n + 1, on |-> TRUE] \/ s = h.slot[t]
        /\ t = x.timer /\ x # ClientCause => s # h.slot[t]
    <3>1. /\ s \in {Off, [id |-> n + 1, on |-> TRUE], h.slot[t]}
          /\ t \in must => s = Off \/ s # h.slot[t]
      BY <1>7 DEF NewSlots
    <3>2. s # Off
      BY <1>7 DEF Off
    <3> QED BY <3>1, <3>2
  <2> HIDE DEF s
  <2>2. CASE s = [id |-> n + 1, on |-> TRUE]
    <3>1. \A i \in 1 .. n + 1 : ds[i].id < n + 1
      <4>1. \A i \in 1 .. n + 1 : ds[i].id < i /\ ds[i] \in Cause
        BY <1>3, ElementOfSeq DEF CausesOK
      <4> QED BY <4>1 DEF Cause
    <3>2. s.id = n + 1 /\ \A i \in next.changes : i \in 1 .. n + 1
      BY <1>1, <2>2
    <3>3. \A i \in next.changes : ds[i] # [timer |-> t, id |-> s.id]
      BY <3>1, <3>2
    <3> QED BY <3>2, <3>3 DEF s
  <2>3. CASE s = h.slot[t] /\ (t # x.timer \/ x = ClientCause)
    <3>1. s.on /\ s.id <= n /\ s.id \in Nat
      BY <1>1, <1>7, <2>3, DeadlineNumbers DEF Lawful, s
    <3>2. \A i \in h.changes : ds[i] # [timer |-> t, id |-> s.id]
      BY <1>4, <2>3, <3>1 DEF Lawful
    <3>3. x # [timer |-> t, id |-> s.id]
      <4>1. ClientCause.timer \notin Timer
        BY DEF ClientCause, Timer
      <4> QED BY <2>3, <4>1
    <3>4. \A i \in next.changes : ds[i] # [timer |-> t, id |-> s.id]
      BY <1>3, <3>2, <3>3
    <3> QED BY <3>1, <3>4 DEF s
  <2> QED BY <2>1, <2>2, <2>3
<1> QED BY <1>2, <1>6, <1>7 DEF Lawful, ds

\* The deadlines the accepted event leaves are those Accept chooses from.
LEMMA AcceptSlots ==
    ASSUME TypeOK, NEW a \in Actor, Accept(a)
    PROVE  actor'[a].next.slot \in NewSlots(actor[a].room.slot, changes + 1,
                                       IF HeadTask(a).kind = "expire" THEN {HeadTask(a).timer} ELSE {})
<1> DEFINE n == changes + 1
           must == IF HeadTask(a).kind = "expire" THEN {HeadTask(a).timer} ELSE {}
<1>1. PICK slot \in NewSlots(actor[a].room.slot, n, must) :
         actor' = [actor EXCEPT
             ![a].stage = "public",
             ![a].next = [changes |-> actor[a].room.changes \cup {n}, slot |-> slot],
             ![a].nextPriv.changes = actor[a].priv.changes \cup {n}]
  BY Zenon DEF Accept
<1>2. actor \in [Actor -> ActorObject]
  BY DEF TypeOK
<1> HIDE DEF n, must
<1>3. actor'[a].next = [changes |-> actor[a].room.changes \cup {n}, slot |-> slot]
  BY <1>1, <1>2 DEF ActorObject
<1> QED BY <1>1, <1>3 DEF n, must

\* An accepted event keeps CauseInv.
LEMMA AcceptKeepsCauses ==
    ASSUME BaseInv, CauseInv, HAccept PROVE CauseInv'
<1>1. PICK a \in Actor : Accept(a) /\ causes' = Append(causes, CauseOf(HeadTask(a)))
  BY DEF HAccept
<1>2. /\ TypeOK /\ changes \in Nat /\ actor \in [Actor -> SoundActor]
      /\ CausesOK(causes, changes)
  BY TypedMemory DEF BaseInv, TypeOK, CauseInv
<1>3. PICK slot \in [Timer -> Deadline] :
         LET o == Dispatched(actor[a], changes + 1, slot)
         IN  /\ actor' = [actor EXCEPT ![a] = o] /\ o.stage = "public" /\ o.loaded
             /\ o.room = actor[a].room /\ o.next.changes = actor[a].room.changes \cup {changes + 1}
  BY <1>1, <1>2, AcceptStep
<1> DEFINE o == Dispatched(actor[a], changes + 1, slot)
           x == CauseOf(HeadTask(a))
<1>4. /\ changes' = changes + 1 /\ Dispatching(a) /\ StillDue(a) /\ UNCHANGED store
  BY <1>1 DEF Accept, storeVars
<1>5. /\ actor'[a] = o /\ \A c \in Actor \ {a} : actor'[c] = actor[c]
      /\ o.loaded /\ o.room = actor[a].room
      /\ o.next.changes = actor[a].room.changes \cup {changes + 1}
  BY <1>2, <1>3
<1> HIDE DEF o
<1>6. \A c \in Actor : actor[c].room \in HalfOf(changes) /\ actor[c].next \in HalfOf(changes)
  BY <1>2 DEF SoundActor, ActorObject, Half, HalfOf
<1>7. HeadTask(a) \in TaskSet /\ Lawful(actor[a].room, causes, changes)
  <2>1. actor[a].queue \in Seq(TaskSet) /\ actor[a].queue # <<>>
    BY <1>2, <1>4 DEF SoundActor, ActorObject, Dispatching, Running
  <2> QED BY <1>4, <2>1, TailTasks DEF HeadTask, Dispatching, CauseInv
<1>8. /\ x \in Cause
      /\ \/ x = ClientCause /\ HeadTask(a).kind # "expire"
         \/ /\ HeadTask(a).kind = "expire" /\ x.timer \in Timer /\ x # ClientCause
            /\ x.timer = HeadTask(a).timer
            /\ actor[a].room.slot[x.timer] = [id |-> x.id, on |-> TRUE]
  <2> DEFINE task == HeadTask(a)
  <2>1. /\ task.timer \in Timer /\ task.id \in Nat
        /\ task.kind = "expire" => actor[a].room.slot[task.timer] = [id |-> task.id, on |-> TRUE]
    BY <1>4, <1>7, ServiceAssumption DEF TaskSet, StillDue
  <2>2. x = IF task.kind = "expire" THEN [timer |-> task.timer, id |-> task.id] ELSE ClientCause
    BY DEF CauseOf
  <2> HIDE DEF task, x
  <2>3. ClientCause \in Cause /\ ClientCause.timer \notin Timer
    BY DEF ClientCause, Cause, Timer
  <2>4. CASE task.kind = "expire"
    <3>1. x \in Cause /\ x.timer = task.timer /\ x.id = task.id
      BY <2>1, <2>2, <2>4 DEF Cause
    <3> QED BY <2>1, <2>3, <2>4, <3>1 DEF task
  <2>5. CASE task.kind # "expire"
    BY <2>2, <2>3, <2>5 DEF task
  <2> QED BY <2>4, <2>5
<1> HIDE DEF x
<1>9. actor'[a].next.slot \in NewSlots(actor[a].room.slot, changes + 1,
                                       IF x = ClientCause THEN {} ELSE {x.timer})
  BY <1>1, <1>2, <1>8, AcceptSlots
<1>10. causes' = Append(causes, x)
  BY <1>1 DEF x
<1>11. x.id <= changes /\ Lawful(actor'[a].next, causes', changes')
  BY <1>2, <1>4, <1>5, <1>6, <1>7, <1>8, <1>9, <1>10, ResultLawful
<1>12. CausesOK(causes', changes') /\ \A i \in 1 .. changes : causes'[i] = causes[i]
  <2>1. x \in Cause /\ x.id <= changes
    BY <1>8, <1>11
  <2>2. OneMore(causes, changes, x, Append(causes, x))
    BY <1>2, <2>1, CauseAppended
  <2>3. OneMore(causes, changes, x, causes')
    BY <1>10, <2>2
  <2> QED BY <1>4, <2>3 DEF OneMore
<1>13. ASSUME NEW h \in HalfOf(changes), Lawful(h, causes, changes)
       PROVE  Lawful(h, causes', changes')
  BY <1>2, <1>4, <1>12, <1>13, LawfulStays
<1>14. ASSUME NEW c \in Actor
       PROVE  /\ actor'[c].loaded => Lawful(actor'[c].room, causes', changes')
              /\ actor'[c].stage # "start" => Lawful(actor'[c].next, causes', changes')
  <2>1. CASE c = a
    BY <1>5, <1>6, <1>7, <1>11, <1>13, <2>1
  <2>2. CASE c # a
    BY <1>5, <1>6, <1>13, <2>2 DEF CauseInv
  <2> QED BY <2>1, <2>2
<1>15. KvHas(store, "room") => KvGet(store, "room") \in HalfOf(changes)
  BY <1>2 DEF TypeOK, Half, HalfOf
<1>16. KvHas(store', "room") => Lawful(KvGet(store', "room"), causes', changes')
  BY <1>4, <1>13, <1>15 DEF CauseInv
<1> QED BY <1>12, <1>14, <1>16 DEF CauseInv

\* So does every other step: a half is nothing but what some half was before.
LEMMA OthersKeepCauses ==
    ASSUME BaseInv, CauseInv, Next, UNCHANGED <<changes, causes>> PROVE CauseInv'
<1> DEFINE Good(h) == Lawful(h, causes, changes)
<1>1. TypeOK /\ changes \in Nat /\ Good(FirstRoom)
  BY FirstRoomLawful DEF BaseInv, TypeOK
<1>2. /\ \A a \in Actor : /\ actor[a].loaded => Good(actor[a].room)
                          /\ actor[a].stage # "start" => Good(actor[a].next)
      /\ KvHas(store, "room") => Good(KvGet(store, "room"))
  BY DEF CauseInv
<1> HIDE DEF Good
<1>3. ASSUME NEW c \in Actor
      PROVE  /\ actor'[c].loaded => Good(actor'[c].room)
             /\ actor'[c].stage # "start" => Good(actor'[c].next)
  <2>1. RoomStep(c)
    BY RoomSteps
  <2>2. ~Accepts(c)
    BY <1>1 DEF Accepts
  <2>3. CASE Keeps(c) \/ Ends(c) \/ Advances(c)
    BY <1>2, <2>3 DEF Keeps, Ends, Advances, SameRoom, SameResult
  <2>4. CASE Drops(c)
    BY <2>4 DEF Drops
  <2>5. CASE TakesOver(c)
    BY <1>2, <2>5 DEF TakesOver, Commit
  <2>6. CASE Loads(c)
    BY <1>2, <2>6 DEF Loads
  <2>7. CASE IsCreated(c)
    BY <1>1, <2>7 DEF IsCreated
  <2> QED BY <2>1, <2>2, <2>3, <2>4, <2>5, <2>6, <2>7 DEF RoomStep
<1>4. KvHas(store', "room") => Good(KvGet(store', "room"))
  <2>1. StoreStep("room")
    BY StoreSteps
  <2>2. ASSUME NEW a \in Actor, Writes(a, "room") PROVE Good(Written(a, "room"))
    BY <1>2, <2>2 DEF Writes, Written, SavePublic, SavePublicFails
  <2> QED BY <1>1, <1>2, <2>1, <2>2 DEF StoreStep
<1> QED BY <1>3, <1>4 DEF CauseInv, Good

\* The deadlines are answered once, in every execution with its history.
LEMMA CausesHold == HSpec => Spec /\ []CauseInv
<1>1. HInit => Init /\ CauseInv
  <2> SUFFICES ASSUME HInit PROVE CauseInv
    BY DEF HInit
  <2>1. CausesOK(<<>>, 0) /\ causes = <<>> /\ changes = 0
    BY DEF HInit, Init, CausesOK
  <2>2. \A a \in Actor : ~actor[a].loaded /\ actor[a].stage = "start"
    BY BlankFields DEF HInit, Init
  <2>3. ~KvHas(store, "room")
    BY ServiceAssumption DEF HInit, Init, KvHas, EmptyStore, Gone
  <2> QED BY <2>1, <2>2, <2>3 DEF CauseInv
<1>2. [HNext]_hvars => [Next]_vars
  BY DEF HNext, HAccept, Next, Work, hvars
<1>3. BaseInv /\ CauseInv /\ [HNext]_hvars => CauseInv'
  <2> SUFFICES ASSUME BaseInv, CauseInv, [HNext]_hvars PROVE CauseInv'
    OBVIOUS
  <2>1. CASE HAccept
    BY <2>1, AcceptKeepsCauses
  <2>2. CASE Next /\ changes' = changes /\ UNCHANGED causes
    BY <2>2, OthersKeepCauses
  <2>3. CASE UNCHANGED hvars
    BY <2>3 DEF hvars, vars, storeVars, historyVars, CauseInv
  <2> QED BY <2>1, <2>2, <2>3 DEF HNext
<1>4. HSpec => Spec
  BY <1>1, <1>2, PTL DEF HSpec, Spec
<1> QED BY <1>1, <1>3, <1>4, BaseHolds, PTL DEF HSpec

\* No deadline of the phase timer or the match clock moves the room on twice, however its
\* expiry is found, repeated or tried again after a failure or a restart
\* (timers/phase-timer-service.ts, handleExpiry; transitions.ts, the test of the phaseId).
THEOREM DeadlinesActOnce == HSpec => []DeadlineActsOnce
<1>1. ASSUME BaseInv, CauseInv, HalvesDriftByCrashesOnly PROVE DeadlineActsOnce
  <2>1. ASSUME NEW h, Lawful(h, causes, changes) PROVE AnsweredOnce(h.changes)
    BY <2>1 DEF Lawful, AnsweredOnce
  <2>2. ASSUME NEW h \in Rooms PROVE AnsweredOnce(h.changes)
    BY <1>1, <2>1, <2>2 DEF Rooms, CauseInv
  <2>3. ASSUME faults = 0, creating = "done", KvHas(store, "room"), KvHas(store, "private")
        PROVE  AnsweredOnce(KvGet(store, "private").changes)
    <3>1. AnsweredOnce(KvGet(store, "room").changes)
      BY <1>1, <2>1, <2>3 DEF CauseInv
    <3>2. KvGet(store, "private").changes \subseteq KvGet(store, "room").changes
      BY <1>1, <2>3 DEF HalvesDriftByCrashesOnly
    <3> QED BY <3>1, <3>2 DEF AnsweredOnce
  <2> QED BY <2>2, <2>3 DEF DeadlineActsOnce
<1> QED BY <1>1, CausesHold, BaseHolds, HalvesDriftBounded, PTL
=============================================================================
