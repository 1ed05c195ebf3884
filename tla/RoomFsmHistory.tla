--------------------------- MODULE RoomFsmHistory ---------------------------
(***************************************************************************)
(* RoomFsm with history variables that no handler reads: who has had the   *)
(* Admin turn, whether the present turn has played its round, and how much *)
(* time the match has spent in investigation.                              *)
(***************************************************************************)
EXTENDS RoomFsm

VARIABLES
    served,       \* Admins of the rotation in progress
    played,       \* the present Admin's turn has begun its round
    investigated  \* ticks that passed in investigation states, counted up to ClockTotal

history == <<served, played, investigated>>

HInit == Init /\ served = {} /\ played = TRUE /\ investigated = 0

MatchStarts == state' = "ROLE_REVEAL" /\ state # "ROLE_REVEAL"

\* The Admin rotation moved on.
TurnStarts == state' = "MINIGAME_SELECT" /\ adminVars' # adminVars

RoundStarts == round'.active /\ ~round.active

HNext ==
    /\ Next
    /\ served' = IF MatchStarts THEN {}
                 ELSE IF ~TurnStarts THEN served
                 ELSE IF players \subseteq served THEN {adminId'} ELSE served \cup {adminId'}
    /\ played' = (MatchStarts \/ RoundStarts \/ (played /\ ~TurnStarts))
    /\ investigated' = IF MatchStarts THEN 0
                       ELSE IF Tick /\ state \in InvestigationState
                            THEN Least(investigated + 1, ClockTotal)
                       ELSE investigated

HSpec == HInit /\ [][HNext]_<<vars, history>>

-----------------------------------------------------------------------------
\* GAMEPLAY_RULES_V1 section 4: nobody is Admin again before every player of
\* the room has been.
AdminRotationFair ==
    [][TurnStarts => adminId' \notin served \/ players \subseteq served]_<<vars, history>>

\* Nobody's Admin turn is lost: the rotation only moves on after the round of
\* the present turn, however often an accusation interrupts the selection.
EveryTurnPlaysARound ==
    [][TurnStarts => played]_<<vars, history>>

Charged == IF lastSpecial = "failure" THEN FailPenalty ELSE 0

\* The time left is the total less the investigation time spent and the one
\* penalty: the special game costs no time of its own, and no sequence of
\* pauses, resumes and interruptions gives time back or loses it.
ClockAccountsForTime ==
    /\ state \in InvestigationState =>
          clock.left = AtLeastZero(ClockTotal - investigated - Charged)
    /\ state \in SpecialState => clock.remaining = AtLeastZero(ClockTotal - investigated)
=============================================================================
