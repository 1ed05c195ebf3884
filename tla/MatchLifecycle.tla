--------------------------- MODULE MatchLifecycle ---------------------------
(***************************************************************************)
(* What a room promises about a match, with all play left out: the stages  *)
(* of GAMEPLAY_RULES_V1.md, the status of the match clock in each of them, *)
(* how a verdict comes about, and that the special game - the bomb - is    *)
(* played at most once.  RoomFsmLive shows the room state machine          *)
(* implements it.                                                          *)
(***************************************************************************)
VARIABLES
    stage,    \* how far the match is
    timing,   \* status of the match clock
    verdict,  \* the winner
    bombUsed  \* whether this match has had its special game

vars == <<stage, timing, verdict, bombUsed>>

Init ==
    /\ stage = "gathering"
    /\ timing = "pending"
    /\ verdict = "none"
    /\ bombUsed = FALSE

\* A match is set up afresh, whether it is the room's first or another one.
Prepare ==
    /\ stage \in {"gathering", "over"}
    /\ stage' = "preparing"
    /\ timing' = "pending"
    /\ verdict' = "none"
    /\ bombUsed' = FALSE

Investigate ==
    /\ stage = "preparing"
    /\ stage' = "investigating"
    /\ timing' = "running"
    /\ UNCHANGED <<verdict, bombUsed>>

\* Investigation stops for the bomb, and its clock with it.
BombStarts ==
    /\ stage = "investigating"
    /\ ~bombUsed
    /\ stage' = "bomb"
    /\ timing' = "paused"
    /\ bombUsed' = TRUE
    /\ UNCHANGED verdict

BombEnds ==
    /\ stage = "bomb"
    /\ stage' = "investigating"
    /\ timing' = "running"
    /\ UNCHANGED <<verdict, bombUsed>>

\* Crew can only win out of investigation: by an accusation.
Conclude(w) ==
    /\ stage = "investigating" \/ (stage = "bomb" /\ w = "hackers")
    /\ stage' = "over"
    /\ timing' = "stopped"
    /\ verdict' = w
    /\ UNCHANGED bombUsed

Regroup ==
    /\ stage = "over"
    /\ stage' = "gathering"
    /\ timing' = "pending"
    /\ verdict' = "none"
    /\ bombUsed' = FALSE

\* Closing a room leaves its clock as it was ...
Close ==
    /\ stage # "closed"
    /\ stage' = "closed"
    /\ UNCHANGED <<timing, verdict, bombUsed>>

\* ... so a clock that still runs can expire in the closed room.
ExpireClosed ==
    /\ stage = "closed"
    /\ timing = "running"
    /\ verdict = "none"
    /\ stage' = "over"
    /\ timing' = "stopped"
    /\ verdict' = "hackers"
    /\ UNCHANGED bombUsed

Next ==
    \/ Prepare \/ Investigate \/ BombStarts \/ BombEnds
    \/ Conclude("crew") \/ Conclude("hackers")
    \/ Regroup \/ Close \/ ExpireClosed

Spec == Init /\ [][Next]_vars
=============================================================================
