---------------------------- MODULE RoomFsmLive -----------------------------
(***************************************************************************)
(* What a match is sure to come to, and the abstract match lifecycle and   *)
(* roster the room state machine implements.                               *)
(***************************************************************************)
EXTENDS RoomFsm

StageOf(s) ==
    CASE s = "LOBBY" -> "gathering"
      [] s \in {"ROLE_REVEAL", "GAME_INTRO"} -> "preparing"
      [] s \in InvestigationState -> "investigating"
      [] s \in SpecialState -> "bomb"
      [] s \in OverState -> "over"
      [] s = "ABANDONED" -> "closed"

Lifecycle ==
    INSTANCE MatchLifecycle
        WITH stage <- StageOf(state), timing <- clock.status, verdict <- winner,
             bombUsed <- specialUsed

\* Every step of the room is a step of the match lifecycle or leaves its
\* stage, clock status, verdict and use of the special game alone.
ImplementsLifecycle == Lifecycle!Spec

Membership ==
    INSTANCE Roster WITH gathering <- state \in LobbyState, members <- players,
                         present <- connected

\* Only joins and leaves in a lobby change who is in the room, and only members come
\* and go; no other event, of whatever phase, touches the roster (room-lifecycle.ts and
\* the connection events of handleEvent).
ImplementsRoster == Membership!Spec

\* What the phase timers and the match-clock timer do without any player or
\* host acting: each deadline the room holds is met by its event in the end.
Timers ==
    /\ WF_vars(RoleRevealOver) /\ WF_vars(GameIntroOver)
    /\ WF_vars(SpecialIntroOver) /\ WF_vars(CompleteSpecialGame) /\ WF_vars(SpecialResultOver)
    /\ WF_vars(MatchClockExpired)
    /\ WF_vars(Tick)

FairSpec == Spec /\ Timers

\* The match must never stall on one player (GAMEPLAY_RULES_V1 section 4):
\* with nobody answering, disconnecting at will, or pushing the button over
\* and over again, a match that has begun still ends or is closed.
MatchEnds ==
    state = "ROLE_REVEAL" ~> state \in OverState \cup {"ABANDONED"}
=============================================================================
