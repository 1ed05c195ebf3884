-------------------------- MODULE MCRoomFsmHistory --------------------------
EXTENDS RoomFsmHistory, RoundStart, TLC

Games == {"DESCRIBE_IT", "PREDICT_THEM", "DEFEND_IT"}
Audience == {"PREDICT_THEM"}
Mins == [g \in Games |-> IF g = "DESCRIBE_IT" THEN 3 ELSE 2]

\* One limit beyond the room, one as large as the room, one below it.
Maxs == [g \in Games |-> CASE g = "DESCRIBE_IT" -> 5 [] g = "PREDICT_THEM" -> 3 [] OTHER -> 2]
Symmetry == Permutations(Player)

\* See MCRoomFsm.
AllBackAfterReveal == state \in {"LOBBY", "ROLE_REVEAL"} \/ connected = players
=============================================================================
