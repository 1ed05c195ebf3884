--------------------------- MODULE MCRoomFsmLive ----------------------------
EXTENDS RoomFsmLive, Screens

Games == {"PREDICT_THEM"}
Mins == [g \in Games |-> 1]
Maxs == [g \in Games |-> 2]
=============================================================================
