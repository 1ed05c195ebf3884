------------------------------- MODULE Roster -------------------------------
(***************************************************************************)
(* What a room promises about who is in it, to whoever holds connections   *)
(* to it: it gathers players or is closed to them, they join and leave     *)
(* while it gathers only, and a member is there or away, whatever the room *)
(* is doing.  The room state machine implements it (RoomFsmLive), and what *)
(* the gateway takes the room for does as well (Gateway).                  *)
(***************************************************************************)
CONSTANT Player

VARIABLES
    gathering,  \* whether players may join and leave
    members,    \* the players in the room
    present     \* those of them who are connected

vars == <<gathering, members, present>>

Init == gathering = TRUE /\ members = {} /\ present = {}

\* Whoever joins does so over a connection.
Join(p) ==
    /\ gathering /\ p \notin members
    /\ members' = members \cup {p} /\ present' = present \cup {p}
    /\ UNCHANGED gathering

Leave(p) ==
    /\ gathering /\ p \in members
    /\ members' = members \ {p} /\ present' = present \ {p}
    /\ UNCHANGED gathering

GoAway(p) ==
    /\ p \in present /\ present' = present \ {p}
    /\ UNCHANGED <<gathering, members>>

ComeBack(p) ==
    /\ p \in members \ present /\ present' = present \cup {p}
    /\ UNCHANGED <<gathering, members>>

\* A match begins or ends with the members there are.
OpenOrClose == gathering' = ~gathering /\ UNCHANGED <<members, present>>

Next ==
    \/ \E p \in Player : Join(p) \/ Leave(p) \/ GoAway(p) \/ ComeBack(p)
    \/ OpenOrClose

Spec == Init /\ [][Next]_vars
=============================================================================
