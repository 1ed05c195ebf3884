---- MODULE MCRoomService ----
EXTENDS RoomService, TLC

RoomKeys == {"room", "private", "code", "host"}
====
