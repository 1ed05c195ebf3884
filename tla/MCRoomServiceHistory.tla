------------------------ MODULE MCRoomServiceHistory ------------------------
EXTENDS RoomServiceHistory, TLC

RoomKeys == {"room", "private", "code", "host"}
=============================================================================
