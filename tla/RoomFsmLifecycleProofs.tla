----------------------- MODULE RoomFsmLifecycleProofs -----------------------
(***************************************************************************)
(* The room state machine implements the abstract match lifecycle: every   *)
(* step is a lifecycle step or leaves stage, clock status, verdict and use *)
(* of the special game alone.  The mapping is that of RoomFsmLive, and     *)
(* what it needs of the reachable states is the invariant of RoomFsmProofs.*)
(* The second part is about the games such a match comes to: each of them  *)
(* can be started.                                                         *)
(***************************************************************************)
EXTENDS RoomFsmLive, RoundStart, RoomFsmProofs, Sequences

\* The stage of each leaf state, the case analysis of StageOf done once.
LEMMA Stages ==
    /\ StageOf("LOBBY") = "gathering"
    /\ StageOf("ROLE_REVEAL") = "preparing" /\ StageOf("GAME_INTRO") = "preparing"
    /\ \A s \in InvestigationState : StageOf(s) = "investigating"
    /\ \A s \in SpecialState : StageOf(s) = "bomb"
    /\ \A s \in OverState : StageOf(s) = "over"
    /\ StageOf("ABANDONED") = "closed"
BY DEF StageOf, InvestigationState, AccusationAllowed, RoundState, AccusationState, SpecialState,
       OverState

\* What a stutter of the lifecycle is.
Stays == StageOf(state') = StageOf(state) /\ UNCHANGED <<clock.status, winner, specialUsed>>

LifecycleStep == Lifecycle!Next \/ Stays

\* A new room is a gathering match.
LEMMA LifecycleInit == Init => Lifecycle!Init
BY Stages, ClockStatuses DEF Init, Lifecycle!Init

\* Roster events leave the lifecycle alone.
LEMMA LifecycleRoster == ASSUME RosterEvent PROVE LifecycleStep
BY DEF RosterEvent, JoinPlayer, LeavePlayer, PlayerDisconnected, PlayerReconnected, LifecycleStep,
       Stays, phaseVars, specialVars, verdictVars

\* Setting a match up prepares it and begins the investigation.
LEMMA LifecycleSetup == ASSUME TypeOK, PhaseInv, SetupEvent PROVE LifecycleStep
<1>1. CASE HostStartGame \/ HostStartRematch
  <2>1. state \in {"LOBBY", "REMATCH_LOBBY"} /\ state' = "ROLE_REVEAL"
    BY <1>1 DEF HostStartGame, HostStartRematch, AssignRoles, EnterPhase
  <2>2. clock'.status = "pending" /\ specialUsed' = FALSE
    BY <1>1, ClockStatuses DEF HostStartGame, HostStartRematch, AssignRoles
  <2>3. winner' = "none"
    BY <1>1
    DEF HostStartGame, HostStartRematch, ClearMatch, PhaseInv, ClockFollowsPhase, OverState
  <2>4. Lifecycle!Prepare
    BY <2>1, <2>2, <2>3, Stages DEF Lifecycle!Prepare, OverState
  <2> QED BY <2>4 DEF LifecycleStep, Lifecycle!Next
<1>2. ASSUME state = "ROLE_REVEAL", EnterGameIntro PROVE LifecycleStep
  BY <1>2, Stages DEF EnterGameIntro, EnterPhase, LifecycleStep, Stays, specialVars, verdictVars
<1>3. ASSUME NEW p \in Player, AcknowledgeReveal(p) PROVE LifecycleStep
  BY <1>2, <1>3 DEF AcknowledgeReveal, LifecycleStep, Stays, specialVars, verdictVars
<1>4. CASE RoleRevealOver
  BY <1>2, <1>4 DEF RoleRevealOver
<1>5. CASE GameIntroOver
  <2>1. state = "GAME_INTRO" /\ state' = "MINIGAME_SELECT"
    BY <1>5 DEF GameIntroOver, EnterMinigameSelect, EnterPhase
  <2>2. clock'.status = "running" /\ UNCHANGED <<winner, specialUsed>>
    BY <1>5, ClockStatuses DEF GameIntroOver, specialVars
  <2>3. Lifecycle!Investigate
    BY <2>1, <2>2, Stages DEF Lifecycle!Investigate, InvestigationState, AccusationAllowed
  <2> QED BY <2>3 DEF LifecycleStep, Lifecycle!Next
<1> QED BY <1>1, <1>3, <1>4, <1>5 DEF SetupEvent

\* A round stays in investigation; the end of DISCUSSION may start the bomb.
LEMMA LifecycleRound == ASSUME TypeOK, PhaseInv, RoundEvent PROVE LifecycleStep
<1>1. CASE state = "DISCUSSION" /\ SpecialGameDue /\ BeginSpecialGame
  <2>1. state' = "SPECIAL_GAME_INTRO" /\ specialUsed' = TRUE /\ UNCHANGED winner
    BY <1>1 DEF BeginSpecialGame, EnterPhase
  <2>2. ~specialUsed
    BY <1>1 DEF SpecialGameDue
  <2>3. clock'.status = "paused"
    BY <1>1, ClockStatuses
    DEF BeginSpecialGame, PhaseInv, ClockFollowsPhase, TypeOK, InvestigationState, AccusationAllowed
  <2>4. Lifecycle!BombStarts
    BY <1>1, <2>1, <2>2, <2>3, Stages
    DEF Lifecycle!BombStarts, InvestigationState, AccusationAllowed, SpecialState
  <2> QED BY <2>4 DEF LifecycleStep, Lifecycle!Next
<1>2. CASE ~(state = "DISCUSSION" /\ SpecialGameDue /\ BeginSpecialGame)
  <2>1. state \in InvestigationState /\ state' \in InvestigationState
    BY <1>2
    DEF RoundEvent, AdminSelectMinigame, MaySelect, AutoSelect, BeginRound, HackWindowPhase, SubmitHack, MayHack,
        HackWindowOver, InstructionsOver, CompleteMinigame, ResultsOver, NextRoundPhase,
        DiscussionOver, EnterMinigameSelect, EnterPhase, InvestigationState, AccusationAllowed,
        RoundState, phaseVars
  <2>2. UNCHANGED <<clock, winner, specialUsed>>
    BY <1>2
    DEF RoundEvent, AdminSelectMinigame, AutoSelect, BeginRound, SubmitHack, HackWindowOver,
        InstructionsOver, CompleteMinigame, ResultsOver, NextRoundPhase, DiscussionOver,
        specialVars, verdictVars
  <2> QED BY <2>1, <2>2, Stages DEF LifecycleStep, Stays
<1> QED BY <1>1, <1>2

\* The special game ends in investigation again or in a verdict.
LEMMA LifecycleSpecial == ASSUME TypeOK, PhaseInv, SpecialEvent PROVE LifecycleStep
<1>1. CASE SpecialIntroOver \/ CompleteSpecialGame
  BY <1>1, Stages
  DEF SpecialIntroOver, CompleteSpecialGame, EnterPhase, SpecialState, LifecycleStep, Stays,
      verdictVars
<1>2. CASE SpecialResultOver
  <2> DEFINE charged == IF lastSpecial = "failure" THEN ApplyPenalty(clock, FailPenalty) ELSE clock
  <2>1. state = "SPECIAL_GAME_RESULT" /\ UNCHANGED specialUsed
    BY <1>2 DEF SpecialResultOver
  <2>2. clock \in Clock /\ clock.status = "paused"
    BY <2>1 DEF PhaseInv, ClockFollowsPhase, TypeOK, SpecialState
  <2>3. charged \in Clock /\ charged.status = "paused"
    BY <2>2, ClockTypes, ClockStatuses, ConstantsAssumption
  <2>4. CASE EnterPhase("FINAL_RESULTS")
    <3>1. clock'.status = "stopped" /\ winner' = "hackers" /\ state' = "FINAL_RESULTS"
      BY <1>2, <2>3, <2>4, ClockStatuses DEF SpecialResultOver, EnterMinigameSelect, EnterPhase
    <3>2. Lifecycle!Conclude("hackers")
      BY <2>1, <3>1, Stages DEF Lifecycle!Conclude, SpecialState, OverState
    <3> QED BY <3>2 DEF LifecycleStep, Lifecycle!Next
  <2>5. CASE EnterMinigameSelect
    <3>1. clock'.status = "running" /\ winner' = winner /\ state' = "MINIGAME_SELECT"
      BY <1>2, <2>3, <2>5, ClockStatuses DEF SpecialResultOver, EnterMinigameSelect, EnterPhase
    <3>2. Lifecycle!BombEnds
      BY <2>1, <3>1, Stages
      DEF Lifecycle!BombEnds, SpecialState, InvestigationState, AccusationAllowed
    <3> QED BY <3>2 DEF LifecycleStep, Lifecycle!Next
  <2> QED BY <1>2, <2>4, <2>5 DEF SpecialResultOver
<1> QED BY <1>1, <1>2 DEF SpecialEvent

\* A resolved vote goes on with the investigation or concludes the match.
LEMMA LifecycleVote ==
    ASSUME TypeOK, state = "ACCUSATION_VOTE", NEW acc, ResolveAccusationVote(acc)
    PROVE  LifecycleStep
<1>1. UNCHANGED specialUsed
  BY DEF ResolveAccusationVote, specialVars
<1>2. CASE RejectAccusation(acc)
  BY <1>1, <1>2, ReturnPhase, Stages
  DEF RejectAccusation, verdictVars, LifecycleStep, Stays, InvestigationState, AccusationState,
      AccusationAllowed
<1>3. CASE ApproveAccusation(acc)
  <2>1. clock'.status = "stopped" /\ winner' \in {"crew", "hackers"} /\ state' = "FINAL_RESULTS"
    BY <1>3, ClockStatuses DEF ApproveAccusation, EnterPhase, TypeOK
  <2>2. Lifecycle!Conclude("crew") \/ Lifecycle!Conclude("hackers")
    BY <1>1, <2>1, Stages
    DEF Lifecycle!Conclude, InvestigationState, AccusationState, OverState
  <2> QED BY <2>2 DEF LifecycleStep, Lifecycle!Next
<1> QED BY <1>2, <1>3 DEF ResolveAccusationVote

\* An accusation stays in investigation or concludes the match.
LEMMA LifecycleAccusation == ASSUME TypeOK, AccusationEvent PROVE LifecycleStep
<1> USE Stages DEF LifecycleStep, Stays, InvestigationState, AccusationState, AccusationAllowed,
                   specialVars, verdictVars
<1>1. ASSUME NEW p \in Player, PushButton(p) PROVE LifecycleStep
  BY <1>1 DEF PushButton, MayPushButton, EnterPhase
<1>2. ASSUME NEW p \in Player, NEW S \in SUBSET Player, SubmitAccusation(p, S) PROVE LifecycleStep
  BY <1>2 DEF SubmitAccusation, MayAccuse, EnterPhase
<1>3. CASE AccusationCancelled
  BY <1>3, ReturnPhase DEF AccusationCancelled
<1>4. ASSUME NEW p \in Player, NEW v \in {"APPROVE", "REJECT"}, SubmitAccusationVote(p, v)
      PROVE  LifecycleStep
  <2> DEFINE acc == IF v = "APPROVE" THEN [accusation EXCEPT !.approve = @ \cup {p}]
                                     ELSE [accusation EXCEPT !.reject = @ \cup {p}]
  <2>1. CASE ResolveAccusationVote(acc)
    BY <1>4, <2>1, LifecycleVote DEF SubmitAccusationVote, MayVote
  <2>2. CASE ~ResolveAccusationVote(acc)
    BY <1>4, <2>2 DEF SubmitAccusationVote
  <2> QED BY <2>1, <2>2
<1>5. CASE AccusationVoteOver
  BY <1>5, LifecycleVote DEF AccusationVoteOver
<1> QED BY <1>1, <1>2, <1>3, <1>4, <1>5 DEF AccusationEvent

\* Expiry, restart, rematch and closing are lifecycle steps.
LEMMA LifecycleEnd == ASSUME TypeOK, PhaseInv, EndEvent PROVE LifecycleStep
<1>1. CASE MatchClockExpired
  <2>1. /\ clock.status = "running" /\ winner = "none"
        /\ clock'.status = "stopped" /\ winner' = "hackers" /\ state' = "FINAL_RESULTS"
        /\ UNCHANGED specialUsed
    BY <1>1, ClockStatuses DEF MatchClockExpired, EnterPhase, TypeOK
  <2>2. CASE state = "ABANDONED"
    <3>1. Lifecycle!ExpireClosed
      BY <2>1, <2>2, Stages DEF Lifecycle!ExpireClosed, OverState
    <3> QED BY <3>1 DEF LifecycleStep, Lifecycle!Next
  <2>3. CASE state # "ABANDONED"
    <3>1. state \in InvestigationState
      BY <2>1, <2>3 DEF PhaseInv, ClockFollowsPhase
    <3>2. Lifecycle!Conclude("hackers")
      BY <2>1, <3>1, Stages DEF Lifecycle!Conclude, OverState
    <3> QED BY <3>2 DEF LifecycleStep, Lifecycle!Next
  <2> QED BY <2>2, <2>3
<1>2. CASE HostAdvance
  BY <1>2, Stages
  DEF HostAdvance, EnterPhase, OverState, LifecycleStep, Stays, specialVars, verdictVars
<1>3. CASE HostRestartMatch
  <2>1. /\ state \in OverState /\ state' = "LOBBY" /\ clock'.status = "pending"
        /\ winner' = "none" /\ specialUsed' = FALSE
    BY <1>3, ClockStatuses DEF HostRestartMatch, ClearMatch, EnterPhase
  <2>2. Lifecycle!Regroup
    BY <2>1, Stages DEF Lifecycle!Regroup
  <2> QED BY <2>2 DEF LifecycleStep, Lifecycle!Next
<1>4. CASE CloseRoom
  <2>1. state # "ABANDONED" /\ state' = "ABANDONED" /\ UNCHANGED <<clock, winner, specialUsed>>
    BY <1>4 DEF CloseRoom, EnterPhase, specialVars, verdictVars
  <2>2. StageOf(state) # "closed"
    BY <2>1
    DEF TypeOK, GameState, StageOf, InvestigationState, AccusationAllowed, RoundState,
        AccusationState, SpecialState, OverState
  <2>3. Lifecycle!Close
    BY <2>1, <2>2, Stages DEF Lifecycle!Close
  <2> QED BY <2>3 DEF LifecycleStep, Lifecycle!Next
<1>5. ASSUME NEW p \in Player, RequestRematch(p) PROVE LifecycleStep
  BY <1>5 DEF RequestRematch, LifecycleStep, Stays, specialVars, verdictVars
<1> QED BY <1>1, <1>2, <1>3, <1>4, <1>5 DEF EndEvent

\* Time passing leaves the lifecycle alone.
LEMMA LifecycleTick == ASSUME TypeOK, Tick PROVE LifecycleStep
<1>1. clock'.status = clock.status
  BY ClockStatuses DEF Tick, TypeOK
<1> QED BY <1>1 DEF Tick, LifecycleStep, Stays, phaseVars, specialVars

\* Every execution of the room state machine is, seen through its stage, clock
\* status, verdict and use of the special game, an execution of the lifecycle.
THEOREM LifecycleImplemented == Spec => ImplementsLifecycle
<1>1. Init => Lifecycle!Init
  BY LifecycleInit
<1>2. TypeOK /\ PhaseInv /\ [Next]_vars => [Lifecycle!Next]_(Lifecycle!vars)
  <2> SUFFICES ASSUME TypeOK, PhaseInv, [Next]_vars
               PROVE  Lifecycle!Next \/ UNCHANGED Lifecycle!vars
    OBVIOUS
  <2>1. ASSUME UNCHANGED vars PROVE LifecycleStep
    BY <2>1 DEF vars, phaseVars, specialVars, verdictVars, LifecycleStep, Stays
  <2>2. LifecycleStep
    BY <2>1, LifecycleRoster, LifecycleSetup, LifecycleRound, LifecycleSpecial,
       LifecycleAccusation, LifecycleEnd, LifecycleTick
    DEF Next
  <2>3. Stays => UNCHANGED Lifecycle!vars
    BY DEF Stays, Lifecycle!vars
  <2> QED BY <2>2, <2>3 DEF LifecycleStep
<1> QED BY <1>1, <1>2, PhaseInvariant, PTL DEF Spec, ImplementsLifecycle, Lifecycle!Spec

-----------------------------------------------------------------------------
(* The room keeps the roster it promises *)

\* Players join and leave a lobby, and only members come and go.
LEMMA RosterFollows == ASSUME TypeOK, RosterEvent PROVE Membership!Next
<1>1. PICK p \in Player :
         JoinPlayer(p) \/ LeavePlayer(p) \/ PlayerDisconnected(p) \/ PlayerReconnected(p)
  BY DEF RosterEvent
<1>2. ASSUME JoinPlayer(p) PROVE Membership!Join(p)
  BY <1>2 DEF JoinPlayer, Membership!Join, phaseVars
<1>3. ASSUME LeavePlayer(p) PROVE Membership!Leave(p)
  BY <1>3 DEF LeavePlayer, Membership!Leave
<1>4. ASSUME PlayerDisconnected(p) PROVE Membership!GoAway(p)
  BY <1>4 DEF PlayerDisconnected, Membership!GoAway, phaseVars
<1>5. ASSUME PlayerReconnected(p) PROVE Membership!ComeBack(p)
  BY <1>5 DEF PlayerReconnected, Membership!ComeBack, phaseVars
<1> QED BY <1>1, <1>2, <1>3, <1>4, <1>5 DEF Membership!Next

\* No other event, of whatever phase, changes who is in the room or who of them is there.
LEMMA RosterUntouched ==
    ASSUME [Next]_vars, ~RosterEvent
    PROVE  UNCHANGED rosterVars
<1>1. CASE SetupEvent
  BY <1>1 DEF SetupEvent, HostStartGame, HostStartRematch, AcknowledgeReveal, RoleRevealOver,
              EnterGameIntro, GameIntroOver, rosterVars
<1>2. CASE RoundEvent
  <2>1. ASSUME NEW g \in Minigame, NEW ids \in SUBSET Player,
               AdminSelectMinigame(g, ids) \/ AutoSelect(g, ids)
        PROVE  UNCHANGED rosterVars
    BY <2>1 DEF AdminSelectMinigame, AutoSelect, BeginRound, rosterVars
  <2>2. ASSUME NEW p \in Player, NEW t \in Player, SubmitHack(p, t) PROVE UNCHANGED rosterVars
    BY <2>2 DEF SubmitHack, rosterVars
  <2>3. CASE HackWindowOver \/ InstructionsOver \/ CompleteMinigame \/ ResultsOver
    BY <2>3 DEF HackWindowOver, InstructionsOver, CompleteMinigame, ResultsOver, NextRoundPhase,
                rosterVars
  <2>4. CASE DiscussionOver
    BY <2>4 DEF DiscussionOver, BeginSpecialGame, rosterVars
  <2> QED BY <1>2, <2>1, <2>2, <2>3, <2>4 DEF RoundEvent
<1>3. CASE SpecialEvent
  BY <1>3 DEF SpecialEvent, SpecialIntroOver, CompleteSpecialGame, SpecialResultOver, rosterVars
<1>4. CASE AccusationEvent
  <2>1. ASSUME NEW acc, ResolveAccusationVote(acc) PROVE UNCHANGED rosterVars
    BY <2>1 DEF ResolveAccusationVote, rosterVars
  <2>2. ASSUME NEW p \in Player, NEW v \in {"APPROVE", "REJECT"}, SubmitAccusationVote(p, v)
        PROVE  UNCHANGED rosterVars
    BY <2>1, <2>2 DEF SubmitAccusationVote, rosterVars
  <2>3. ASSUME NEW p \in Player, NEW S \in SUBSET Player, SubmitAccusation(p, S)
        PROVE  UNCHANGED rosterVars
    BY <2>3 DEF SubmitAccusation, rosterVars
  <2>4. CASE AccusationCancelled \/ AccusationVoteOver
    BY <2>1, <2>4 DEF AccusationCancelled, AccusationVoteOver, rosterVars
  <2>5. ASSUME NEW p \in Player, PushButton(p) PROVE UNCHANGED rosterVars
    BY <2>5 DEF PushButton, rosterVars
  <2> QED BY <1>4, <2>2, <2>3, <2>4, <2>5 DEF AccusationEvent
<1>5. CASE EndEvent
  BY <1>5 DEF EndEvent, MatchClockExpired, HostAdvance, HostRestartMatch, CloseRoom,
              RequestRematch, rosterVars
<1>6. CASE Tick \/ UNCHANGED vars
  BY <1>6 DEF Tick, vars, rosterVars
<1> QED BY <1>1, <1>2, <1>3, <1>4, <1>5, <1>6 DEF Next

\* Every execution of the room state machine is, seen through its lobbies, its players and
\* those of them connected, an execution of the roster (room-lifecycle.ts and the connection
\* events of handleEvent).
THEOREM RosterImplemented == Spec => ImplementsRoster
<1>1. Init => Membership!Init
  BY DEF Init, Membership!Init, LobbyState
<1>2. TypeOK /\ [Next]_vars => [Membership!Next]_(Membership!vars)
  <2> SUFFICES ASSUME TypeOK, [Next]_vars
               PROVE  Membership!Next \/ UNCHANGED Membership!vars
    OBVIOUS
  <2>1. CASE RosterEvent
    BY <2>1, RosterFollows
  <2>2. CASE ~RosterEvent
    <3>1. players' = players /\ connected' = connected
      BY <2>2, RosterUntouched DEF rosterVars
    <3>2. CASE (state \in LobbyState)' = (state \in LobbyState)
      BY <3>1, <3>2 DEF Membership!vars
    <3>3. CASE (state \in LobbyState)' = ~(state \in LobbyState)
      BY <3>1, <3>3 DEF Membership!OpenOrClose, Membership!Next
    <3> QED BY <3>2, <3>3
  <2> QED BY <2>1, <2>2
<1> QED BY <1>1, <1>2, PhaseInvariant, PTL DEF Spec, ImplementsRoster, Membership!Spec

-----------------------------------------------------------------------------
(* The games a match comes to can be started *)

\* What is left of the conditions of start() once every draw is in order: as
\* many participants as the table's row allows, or, of an audience game, one to
\* four selected players and somebody to watch them.
Fits(g, people, selected) ==
    IF g = "PREDICT_THEM"
    THEN /\ selected \subseteq people /\ people \ selected # {}
         /\ Cardinality(selected) \in 1 .. 4 /\ Cardinality(people) >= 2
    ELSE Cardinality(people) \in TableRow(g)

\* The modules of the games count participants as the room does.
LEMMA SameCardinality ==
    ASSUME NEW S
    PROVE  /\ Rank!Cardinality(S) = Cardinality(S) /\ Draw!Cardinality(S) = Cardinality(S)
           /\ Predict!Cardinality(S) = Cardinality(S) /\ Describe!Cardinality(S) = Cardinality(S)
           /\ Defend!Cardinality(S) = Cardinality(S) /\ Bomb!Cardinality(S) = Cardinality(S)
BY DEF Cardinality, Rank!Cardinality, Draw!Cardinality, Predict!Cardinality,
       Describe!Cardinality, Defend!Cardinality, Bomb!Cardinality

\* A shuffled set is a sequence of all of it.
LEMMA ShuffledIsAnOrder ==
    ASSUME NEW S, IsFiniteSet(S), NEW order \in Shuffled(S)
    PROVE  Len(order) = Cardinality(S) /\ {order[i] : i \in DOMAIN order} = S
<1>1. Cardinality(S) \in Nat
  BY FS_CardinalityType
<1>2. order \in [1 .. Cardinality(S) -> S] /\ {order[i] : i \in DOMAIN order} = S
  BY DEF Shuffled
<1> QED BY <1>1, <1>2

\* Of two participants at least, each has somebody to be asked by.
LEMMA AskersThere ==
    ASSUME NEW people, IsFiniteSet(people), Cardinality(people) >= 2
    PROVE  Askers(people) # {}
<1>1. \A p \in people : \E q \in people : q # p
  <2> SUFFICES ASSUME NEW p \in people, \A q \in people : q = p PROVE FALSE
    OBVIOUS
  <2>1. people = {p}
    OBVIOUS
  <2>2. Cardinality(people) = 1
    BY <2>1, FS_Singleton
  <2> QED BY <2>2
<1> DEFINE asks == [p \in people |-> CHOOSE q \in people : q # p]
<1>2. \A p \in people : asks[p] \in people /\ asks[p] # p
  BY <1>1
<1>3. asks \in Askers(people)
  BY <1>2 DEF Askers
<1> QED BY <1>3

\* A game that fits is started.
LEMMA FittingGameStarts ==
    ASSUME NEW g \in Minigame, NEW people, NEW selected, IsFiniteSet(people),
           Fits(g, people, selected)
    PROVE  Starts(g, people, selected)
<1> USE StartAssumption
<1>1. Cardinality(people) \in Nat
  BY FS_CardinalityType
<1>2. CASE g = "RANK_IT"
  <2>1. Cardinality(people) \in 2 .. 5
    BY <1>2 DEF Fits, TableRow
  <2>2. ASSUME NEW orders \in [people -> Shuffled(Card)] PROVE Rank!RankItMayStart(people, orders)
    BY <2>1, ShuffledIsAnOrder, SameCardinality DEF Rank!RankItMayStart, Rank!IsOrder
  <2> QED BY <1>2, <2>2 DEF Starts
<1>3. CASE g = "COMPLETE_IT"
  <2>1. people # {}
    BY <1>3, FS_EmptySet DEF Fits, TableRow
  <2> QED BY <1>3, <2>1 DEF Starts, Complete!CompleteItMayStart
<1>4. CASE g = "DRAW_IT"
  BY <1>4, SameCardinality DEF Fits, TableRow, Starts, Draw!DrawItMayStart
<1>5. CASE g = "PREDICT_THEM"
  BY <1>5, SameCardinality DEF Fits, Starts, Predict!PredictThemMayStart
<1>6. CASE g = "DESCRIBE_IT"
  <2>1. Cardinality(people) \in 3 .. 5
    BY <1>6 DEF Fits, TableRow
  <2>2. ASSUME NEW order \in Shuffled(people) PROVE Describe!DescribeItMayStart(people, order)
    BY <2>1, ShuffledIsAnOrder, SameCardinality DEF Describe!DescribeItMayStart
  <2> QED BY <1>6, <2>2 DEF Starts
<1>7. CASE g = "DEFEND_IT"
  <2>1. Cardinality(people) \in 2 .. 4
    BY <1>7 DEF Fits, TableRow
  <2>2. ASSUME NEW order \in Shuffled(people), NEW asks \in Askers(people)
        PROVE  Defend!DefendItMayStart(people, order, asks)
    <3>1. \A p \in people : asks[p] \in people \ {p}
      BY DEF Askers
    <3> QED BY <2>1, <3>1, ShuffledIsAnOrder, SameCardinality DEF Defend!DefendItMayStart
  <2>3. Askers(people) # {}
    BY <2>1, AskersThere
  <2> QED BY <1>7, <2>2, <2>3 DEF Starts
<1> QED BY <1>2, <1>3, <1>4, <1>5, <1>6, <1>7

\* So is a special game of three to five.
LEMMA FittingBombStarts ==
    ASSUME NEW people, Cardinality(people) \in 3 .. 5 PROVE BombStarts(people)
<1>1. people # {}
  BY FS_EmptySet
<1>2. ASSUME NEW operator \in people, NEW puzzle \in Puzzles
      PROVE  Bomb!BombMayStart(people, operator, puzzle)
  <2>1. puzzle.wire \in Wire /\ puzzle.code \in Code /\ puzzle.symbols \in Shuffled(Symbol)
    BY DEF Puzzles
  <2>2. \A i \in DOMAIN puzzle.symbols : puzzle.symbols[i] \in Symbol
    BY <2>1 DEF Shuffled
  <2> QED BY <2>1, <2>2, SameCardinality DEF Bomb!BombMayStart
<1> QED BY <1>1, <1>2 DEF BombStarts

\* How many the selection timeout picks of a roster that may play a match.
LEMMA AutoSelectFits ==
    ASSUME NEW g \in Minigame, NEW n \in Nat, n >= MinPlayers
    PROVE  IF g = "PREDICT_THEM"
           THEN AutoSelectCount(g, n) \in 1 .. 4 /\ AutoSelectCount(g, n) < n
           ELSE AutoSelectCount(g, n) \in TableRow(g)
<1> DEFINE taken == Least(Greatest(LimitMin[g], Least(LimitMax[g], n)), n)
<1>1. /\ LimitMin[g] \in TableRow(g) /\ LimitMax[g] \in TableRow(g)
      /\ LimitMin[g] <= LimitMax[g] /\ LimitMin[g] <= n /\ n >= 3
      /\ g \in {"RANK_IT", "COMPLETE_IT", "DRAW_IT", "PREDICT_THEM", "DESCRIBE_IT", "DEFEND_IT"}
      /\ LimitMin[g] \in Nat /\ LimitMax[g] \in Nat /\ MinPlayers \in Nat
  BY ConstantsAssumption, StartAssumption
<1>2. taken \in Nat /\ taken <= n /\ LimitMin[g] <= taken /\ taken <= LimitMax[g]
  BY <1>1 DEF Least, Greatest
<1>3. CASE g = "PREDICT_THEM"
  <2>1. g \in AudienceGame
    BY <1>3, StartAssumption
  <2>2. LimitMin[g] \in 2 .. 4 /\ LimitMax[g] \in 2 .. 4
    BY <1>1, <1>3 DEF TableRow
  <2>3. CASE taken = n
    BY <1>1, <1>2, <2>1, <2>2, <2>3, <1>3 DEF AutoSelectCount, Least
  <2>4. CASE taken # n
    BY <1>1, <1>2, <2>2, <2>4, <1>3 DEF AutoSelectCount
  <2> QED BY <2>3, <2>4
<1>4. CASE g # "PREDICT_THEM"
  <2>1. g \notin AudienceGame
    BY <1>4, StartAssumption
  <2>2. AutoSelectCount(g, n) = taken
    BY <2>1 DEF AutoSelectCount
  <2> QED BY <1>1, <1>2, <1>4, <2>2 DEF TableRow
<1> QED BY <1>3, <1>4

\* The special game has three to five players whatever the size of the room.
LEMMA SpecialCountFits ==
    ASSUME NEW n \in Nat, n >= MinPlayers PROVE SpecialCount(n) \in 3 .. 5
<1>1. SpecialMin \in 3 .. 5 /\ SpecialMax \in 3 .. 5 /\ n >= 3
  BY ConstantsAssumption, StartAssumption
<1> QED BY <1>1 DEF SpecialCount, Least, Greatest

\* The games on record are the games that were, or none.
LEMMA StartsUnchanged ==
    ASSUME GamesCanStart,
           \/ UNCHANGED <<round.active, round.game, round.participants, round.selected>>
           \/ ~round'.active,
           UNCHANGED <<special.active, special.participants>> \/ ~special'.active
    PROVE  GamesCanStart'
BY DEF GamesCanStart

\* Both ways to choose a game and its players come to one that can be started.
LEMMA ChosenGameStarts ==
    ASSUME TypeOK, RosterInv, GamesCanStart, NEW g \in Minigame, NEW ids \in SUBSET Player,
           AdminSelectMinigame(g, ids) \/ AutoSelect(g, ids)
    PROVE  GamesCanStart'
<1> DEFINE people == ExpandParticipants(g, ids)
<1>1. /\ state = "MINIGAME_SELECT" /\ ids \subseteq players /\ BeginRound(g, ids)
      /\ MaySelect(g, ids) \/ Cardinality(ids) = AutoSelectCount(g, Cardinality(players))
  BY DEF AdminSelectMinigame, AutoSelect, MaySelect, Eligible
<1>2. PlayerCountInRange
  BY <1>1 DEF RosterInv, MatchState, GameState, OverState
<1>3. Cardinality(players) \in Nat /\ Cardinality(players) >= MinPlayers /\ IsFiniteSet(players)
      /\ Cardinality(ids) \in Nat /\ IsFiniteSet(ids)
  BY <1>1, <1>2, RosterFinite DEF PlayerCountInRange
<1>4. Cardinality(players) >= 3
  BY <1>3, StartAssumption, ConstantsAssumption
<1>5. Fits(g, people, ids) /\ IsFiniteSet(people)
  <2>1. CASE g = "PREDICT_THEM"
    <3>1. people = players
      BY <1>1, <2>1, StartAssumption DEF ExpandParticipants, Eligible
    <3>2. Cardinality(ids) \in 1 .. 4 /\ ids # players
      <4>1. CASE MaySelect(g, ids)
        <5>1. LimitMin[g] \in 2 .. 4 /\ LimitMax[g] \in 2 .. 4
          BY <2>1, StartAssumption DEF TableRow
        <5>2. Cardinality(ids) >= LimitMin[g] /\ Cardinality(ids) <= LimitMax[g] /\ people # ids
          BY <4>1, <2>1, StartAssumption DEF MaySelect
        <5> QED BY <1>3, <3>1, <5>1, <5>2
      <4>2. CASE Cardinality(ids) = AutoSelectCount(g, Cardinality(players))
        BY <1>3, <2>1, <4>2, AutoSelectFits
      <4> QED BY <1>1, <4>1, <4>2
    <3> QED BY <1>1, <1>3, <1>4, <2>1, <3>1, <3>2 DEF Fits
  <2>2. CASE g # "PREDICT_THEM"
    <3>1. people = ids
      BY <2>2, StartAssumption DEF ExpandParticipants
    <3>2. Cardinality(ids) \in TableRow(g)
      <4>1. CASE MaySelect(g, ids)
        <5>1. Cardinality(ids) >= LimitMin[g] /\ Cardinality(ids) <= LimitMax[g]
          BY <4>1 DEF MaySelect
        <5>2. LimitMin[g] \in TableRow(g) /\ LimitMax[g] \in TableRow(g)
              /\ g \in {"RANK_IT", "COMPLETE_IT", "DRAW_IT", "PREDICT_THEM", "DESCRIBE_IT",
                        "DEFEND_IT"}
          BY StartAssumption
        <5> QED BY <1>3, <2>2, <5>1, <5>2 DEF TableRow
      <4>2. CASE Cardinality(ids) = AutoSelectCount(g, Cardinality(players))
        BY <1>3, <2>2, <4>2, AutoSelectFits
      <4> QED BY <1>1, <4>1, <4>2
    <3> QED BY <1>3, <2>2, <3>1, <3>2 DEF Fits
  <2> QED BY <2>1, <2>2
<1>6. Starts(g, people, ids)
  BY <1>5, FittingGameStarts
<1>7. round'.game = g /\ round'.selected = ids /\ round'.participants = people
      /\ special' = special
  BY <1>1 DEF BeginRound, specialVars
<1> QED BY <1>6, <1>7 DEF GamesCanStart

\* The special game that is announced can be started.
LEMMA AnnouncedBombStarts ==
    ASSUME TypeOK, RosterInv, GamesCanStart, state = "DISCUSSION", BeginSpecialGame
    PROVE  GamesCanStart'
<1>1. PlayerCountInRange
  BY DEF RosterInv, MatchState, GameState, OverState
<1>2. Cardinality(players) \in Nat /\ Cardinality(players) >= MinPlayers
  BY <1>1, RosterFinite DEF PlayerCountInRange
<1>3. Cardinality(special'.participants) \in 3 .. 5 /\ UNCHANGED round
  BY <1>2, SpecialCountFits DEF BeginSpecialGame, Eligible, roundVars
<1>4. BombStarts(special'.participants)
  BY <1>3, FittingBombStarts
<1> QED BY <1>3, <1>4 DEF GamesCanStart

\* Every step keeps the games startable.
LEMMA GamesCanStartStep == ASSUME TypeOK, RosterInv, GamesCanStart, [Next]_vars PROVE GamesCanStart'
<1> USE IdleFields
<1>1. CASE RosterEvent
  BY <1>1, StartsUnchanged
  DEF RosterEvent, JoinPlayer, LeavePlayer, PlayerDisconnected, PlayerReconnected, roundVars,
      specialVars
<1>2. CASE SetupEvent
  BY <1>2, StartsUnchanged
  DEF SetupEvent, HostStartGame, HostStartRematch, ClearMatch, AcknowledgeReveal, RoleRevealOver,
      EnterGameIntro, GameIntroOver, roundVars, specialVars
<1>3. CASE RoundEvent
  <2>1. ASSUME NEW p, NEW t, SubmitHack(p, t) PROVE GamesCanStart'
    BY <2>1, StartsUnchanged DEF SubmitHack, TypeOK, Round, specialVars
  <2>2. CASE HackWindowOver
    BY <2>2, StartsUnchanged DEF HackWindowOver, NextRoundPhase, TypeOK, Round, specialVars
  <2>3. CASE InstructionsOver \/ CompleteMinigame \/ ResultsOver
    BY <2>3, StartsUnchanged
    DEF InstructionsOver, CompleteMinigame, ResultsOver, NextRoundPhase, specialVars
  <2>4. CASE DiscussionOver
    BY <2>4, AnnouncedBombStarts, StartsUnchanged DEF DiscussionOver, roundVars, specialVars
  <2> QED BY <1>3, <2>1, <2>2, <2>3, <2>4, ChosenGameStarts DEF RoundEvent
<1>4. CASE SpecialEvent
  <2>1. CASE SpecialIntroOver
    BY <2>1, StartsUnchanged DEF SpecialIntroOver, TypeOK, Special, roundVars
  <2>2. CASE CompleteSpecialGame \/ SpecialResultOver
    BY <2>2, StartsUnchanged DEF CompleteSpecialGame, SpecialResultOver, roundVars
  <2> QED BY <1>4, <2>1, <2>2 DEF SpecialEvent
<1>5. CASE AccusationEvent
  BY <1>5, StartsUnchanged
  DEF AccusationEvent, PushButton, SubmitAccusation, AccusationCancelled, SubmitAccusationVote,
      AccusationVoteOver, ResolveAccusationVote, roundVars, specialVars
<1>6. CASE EndEvent
  BY <1>6, StartsUnchanged
  DEF EndEvent, MatchClockExpired, HostAdvance, HostRestartMatch, CloseRoom, RequestRematch,
      ClearMatch, roundVars, specialVars
<1>7. CASE Tick
  BY <1>7, StartsUnchanged DEF Tick, roundVars, specialVars
<1>8. CASE UNCHANGED vars
  BY <1>8, StartsUnchanged DEF vars, roundVars, specialVars
<1> QED BY <1>1, <1>2, <1>3, <1>4, <1>5, <1>6, <1>7, <1>8 DEF Next

\* In no room can the start of a game stop the match: whoever chose the players,
\* the Admin or the timeout, and however many there are, start() of the module
\* does not throw (transitions.ts, proceedToInstructions and handleSpecialGameIntro).
THEOREM GamesStart == Spec => []GamesCanStart
<1>1. Init => GamesCanStart
  BY IdleFields DEF Init, GamesCanStart
<1>2. TypeOK /\ RosterInv /\ GamesCanStart /\ [Next]_vars => GamesCanStart'
  BY GamesCanStartStep
<1> QED BY <1>1, <1>2, TypeCorrect, RosterInvariant, PTL DEF Spec
=============================================================================
