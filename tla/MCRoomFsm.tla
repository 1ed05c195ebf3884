----------------------------- MODULE MCRoomFsm ------------------------------
EXTENDS RoomFsm, TLC

Games == {"DRAW_IT", "PREDICT_THEM"}
Audience == {"PREDICT_THEM"}
Mins == [g \in Games |-> 2]
Maxs == [g \in Games |-> 3]
Symmetry == Permutations(Player)

\* Connection statuses are read in ROLE_REVEAL only, where a player may also
\* drop and come back at will: past it, a state in which somebody is away has
\* the same continuations as the one in which everybody is there.
AllBackAfterReveal == state \in {"LOBBY", "ROLE_REVEAL"} \/ connected = players
=============================================================================
