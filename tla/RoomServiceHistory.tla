------------------------- MODULE RoomServiceHistory -------------------------
(***************************************************************************)
(* RoomService with a history variable that no code reads: for each change *)
(* what made the room accept it, a client's event or the expiry of one     *)
(* deadline of one timer.                                                  *)
(***************************************************************************)
EXTENDS RoomService

VARIABLE causes   \* for each change, the deadline whose expiry it answers

hvars == <<vars, causes>>

ClientCause == [timer |-> "none", id |-> 0]

CauseOf(task) ==
    IF task.kind = "expire" THEN [timer |-> task.timer, id |-> task.id] ELSE ClientCause

HInit == Init /\ causes = <<>>

\* Accept alone numbers a change.
HAccept == \E a \in Actor : Accept(a) /\ causes' = Append(causes, CauseOf(HeadTask(a)))

HNext == HAccept \/ (Next /\ changes' = changes /\ UNCHANGED causes)

HSpec == HInit /\ [][HNext]_hvars

HFairSpec == HSpec /\ Fairness

-----------------------------------------------------------------------------
\* No two of these changes answer the same deadline.
AnsweredOnce(done) ==
    \A m, n \in done : m # n /\ causes[m] # ClientCause => causes[m] # causes[n]

\* However often a timer fires, is scheduled again, is recovered by another actor or
\* another process, or has its event fail in the store and tried again: the room, as any
\* actor or the store has it, was moved on by each of its deadlines at most once
\* (handleExpiry's and the state machine's test of the phaseId).  Of the private half
\* this can be said as long as no store call fails: it may hold a change whose public
\* half was taken back.
DeadlineActsOnce ==
    /\ \A h \in Rooms : AnsweredOnce(h.changes)
    /\ (faults = 0 /\ creating = "done" /\ KvHas(store, "room") /\ KvHas(store, "private")) =>
          AnsweredOnce(KvGet(store, "private").changes)
=============================================================================
