----------------------------- MODULE MatchClock -----------------------------
(***************************************************************************)
(* The match clock of a room (apps/server/src/fsm/match-clock.ts) as pure  *)
(* functions on a clock record, exactly as the source keeps it: a value    *)
(* the room's state machine replaces, never a process of its own.          *)
(*                                                                         *)
(* Time is kept relative to the present.  The code stores the absolute     *)
(* deadlineAt and compares it with deps.now(); the model stores `left`,    *)
(* the distance from now to that deadline (0 once it has passed or when    *)
(* the field is null), and a tick of time is a step that shortens it.      *)
(* clockId only serves to recognise an expiry of an earlier epoch, which   *)
(* is the concern of the timer service; it is not kept here.               *)
(***************************************************************************)
EXTENDS Integers

ClockStatus == {"pending", "running", "paused", "stopped"}

\* left      - deadlineAt - now, for a running clock
\* remaining - remainingMs, refreshed only by a start, a pause or a penalty
\* penalty   - totalPenaltyMs
Clock == [status: ClockStatus, left: Nat, remaining: Nat, penalty: Nat]

AtLeastZero(n) == IF n > 0 THEN n ELSE 0

InitMatchClock == [status |-> "pending", left |-> 0, remaining |-> 0, penalty |-> 0]

StartMatchClock(total) ==
    [status |-> "running", left |-> total, remaining |-> total, penalty |-> 0]

\* Mutant: the running time is not snapshotted before the clock stops.
PauseMatchClockStale(c) ==
    IF c.status # "running" THEN c
    ELSE [c EXCEPT !.status = "paused", !.left = 0]

\* A clock that is not running is returned as it is, so a second pause
\* cannot overwrite the snapshot of the first.
PauseMatchClock(c) ==
    IF c.status # "running" THEN c
    ELSE [c EXCEPT !.status = "paused", !.left = 0, !.remaining = c.left]

\* Mutant: a resumed clock stays paused.
ResumeMatchClockIdle(c) == c

ResumeMatchClock(c) ==
    IF c.status # "paused" THEN c
    ELSE [c EXCEPT !.status = "running", !.left = c.remaining]

\* Mutant: the penalty is not clamped at zero.
ApplyPenaltyUnclamped(c, ms) ==
    [c EXCEPT !.remaining = c.remaining - ms, !.penalty = c.penalty + ms]

ApplyPenalty(c, ms) ==
    [c EXCEPT !.remaining = AtLeastZero(c.remaining - ms), !.penalty = c.penalty + ms]

\* Mutant: the match ends but its clock is left as it is.
StopMatchClockIdle(c) == c

StopMatchClock(c) == [c EXCEPT !.status = "stopped", !.left = 0]

\* One unit of time passing.
TickMatchClock(c) ==
    IF c.status = "running" THEN [c EXCEPT !.left = AtLeastZero(c.left - 1)] ELSE c
=============================================================================
