------------------------ MODULE RoomFsmHistoryProofs ------------------------
(***************************************************************************)
(* What a match as a whole keeps to: the Admin rotation and the account of *)
(* the match clock.  Both speak of history variables, which constrain      *)
(* nothing: a step of HNext is one of Next, so that all that RoomFsmProofs *)
(* shows holds here too.                                                   *)
(***************************************************************************)
EXTENDS RoomFsmHistory, RoomFsmProofs

\* From the deal of the roles to the verdict: nobody joins or leaves.
DealtState == {"ROLE_REVEAL", "GAME_INTRO"} \cup InvestigationState \cup SpecialState

\* The queue holds exactly those who have not served in this rotation; before the first
\* turn of a match it is empty.
QueueIsUnserved ==
    state \in DealtState =>
        \/ adminQueue = {} /\ served = {} /\ adminId = NoPlayer
        \/ adminQueue = players \ served /\ served \subseteq players

\* Only a selection, or an accusation that interrupted one, has a turn still to play.
TurnIsPlayed ==
    /\ state \in DealtState \ ({"MINIGAME_SELECT"} \cup AccusationState) => played
    /\ state \in AccusationState /\ accusation.origin # "MINIGAME_SELECT" => played
    /\ played \in BOOLEAN

\* The clock starts with all of its time, and no charge of an earlier match.
NothingSpentYet ==
    /\ state \in {"ROLE_REVEAL", "GAME_INTRO"} => investigated = 0 /\ lastSpecial = "none"
    /\ investigated \in 0 .. ClockTotal

-----------------------------------------------------------------------------
(* The steps of the room, seen from the history variables *)

\* A step of the history specification is one of the room's.
LEMMA HistoryStep == [HNext]_<<vars, history>> => [Next]_vars
BY DEF HNext

\* A match starts in a lobby, with an empty queue, no Admin and no special game behind it.
LEMMA MatchStep ==
    ASSUME TypeOK, PhaseInv, Next, MatchStarts
    PROVE  /\ state \in LobbyState
           /\ adminQueue' = {} /\ adminId' = NoPlayer
           /\ lastSpecial' = "none"
<1>1. HostStartGame \/ HostStartRematch
  BY DEF MatchStarts, Next, RosterEvent, JoinPlayer, LeavePlayer, PlayerDisconnected,
         PlayerReconnected, SetupEvent, AcknowledgeReveal, RoleRevealOver, EnterGameIntro,
         GameIntroOver, RoundEvent, AdminSelectMinigame, AutoSelect, BeginRound, HackWindowPhase,
         SubmitHack, HackWindowOver, InstructionsOver, CompleteMinigame, ResultsOver,
         NextRoundPhase, DiscussionOver, BeginSpecialGame, SpecialEvent, SpecialIntroOver,
         CompleteSpecialGame, SpecialResultOver, AccusationEvent, PushButton, SubmitAccusation,
         AccusationCancelled, ReturnToGameplay, SubmitAccusationVote, AccusationVoteOver,
         ResolveAccusationVote, RejectAccusation, ApproveAccusation, EndEvent, MatchClockExpired,
         HostAdvance, HostRestartMatch, CloseRoom, RequestRematch, Tick, EnterMinigameSelect,
         EnterPhase, phaseVars
<1>2. CASE HostStartGame
  BY <1>2 DEF HostStartGame, AssignRoles, LobbyState, PhaseInv, LobbyIsFresh
<1>3. CASE HostStartRematch
  BY <1>3 DEF HostStartRematch, AssignRoles, ClearMatch, LobbyState
<1> QED BY <1>1, <1>2, <1>3

\* What a step within a match does to the rotation: nothing, or it draws the next Admin,
\* which only the end of the introduction, of DISCUSSION, of the special game and of an
\* accusation that interrupted DISCUSSION do.
DrawsAdmin ==
    /\ AssignNextAdmin
    /\ state \in DealtState \ {"MINIGAME_SELECT"}
    /\ state \in AccusationState => accusation.origin # "MINIGAME_SELECT"
    /\ UNCHANGED players

KeepsAdmin == UNCHANGED <<players, adminVars>>

\* Every step into or within a match that does not start it draws or keeps the Admin.
LEMMA RotationStep ==
    ASSUME TypeOK, PhaseInv, Next, ~MatchStarts, state' \in DealtState
    PROVE  /\ state \in DealtState
           /\ (DrawsAdmin /\ state' = "MINIGAME_SELECT") \/ KeepsAdmin
<1> USE DEF DealtState, InvestigationState, AccusationAllowed, RoundState, AccusationState,
            SpecialState, EnterPhase, EnterMinigameSelect, DrawsAdmin, KeepsAdmin, rosterVars
<1>1. CASE RosterEvent
  BY <1>1 DEF RosterEvent, JoinPlayer, LeavePlayer, PlayerDisconnected, PlayerReconnected,
              LobbyState, phaseVars
<1>2. CASE SetupEvent
  <2>1. ASSUME NEW p \in Player, AcknowledgeReveal(p)
        PROVE  state = "ROLE_REVEAL" /\ KeepsAdmin
    BY <2>1 DEF AcknowledgeReveal, EnterGameIntro
  <2>2. ~(HostStartGame \/ HostStartRematch)
    BY DEF HostStartGame, HostStartRematch, AssignRoles, MatchStarts
  <2> QED BY <1>2, <2>1, <2>2 DEF SetupEvent, RoleRevealOver, EnterGameIntro, GameIntroOver
<1>3. CASE RoundEvent
  BY <1>3 DEF RoundEvent, AdminSelectMinigame, MaySelect, AutoSelect, BeginRound, SubmitHack, MayHack, HackWindowOver,
              InstructionsOver, CompleteMinigame, ResultsOver, NextRoundPhase, DiscussionOver,
              BeginSpecialGame
<1>4. CASE SpecialEvent
  BY <1>4 DEF SpecialEvent, SpecialIntroOver, CompleteSpecialGame, SpecialResultOver
<1>5. CASE AccusationEvent
  <2>1. ASSUME NEW acc, acc.origin = accusation.origin, state = "ACCUSATION_VOTE",
               ResolveAccusationVote(acc)
        PROVE  (DrawsAdmin /\ state' = "MINIGAME_SELECT") \/ KeepsAdmin
    BY <2>1 DEF ResolveAccusationVote, RejectAccusation, ApproveAccusation, ReturnToGameplay
  <2>2. ASSUME NEW p \in Player, NEW v \in {"APPROVE", "REJECT"}, SubmitAccusationVote(p, v)
        PROVE  state = "ACCUSATION_VOTE" /\ ((DrawsAdmin /\ state' = "MINIGAME_SELECT") \/ KeepsAdmin)
    <3> DEFINE acc == IF v = "APPROVE" THEN [accusation EXCEPT !.approve = @ \cup {p}]
                                       ELSE [accusation EXCEPT !.reject = @ \cup {p}]
    <3>1. acc.origin = accusation.origin
      BY DEF TypeOK, Accusation
    <3>2. ResolveAccusationVote(acc) \/ UNCHANGED <<players, adminVars>>
      BY <2>2 DEF SubmitAccusationVote
    <3> QED BY <2>1, <2>2, <3>1, <3>2 DEF SubmitAccusationVote, MayVote
  <2>3. CASE AccusationVoteOver
    BY <2>1, <2>3 DEF AccusationVoteOver
  <2>4. CASE AccusationCancelled
    BY <2>4 DEF AccusationCancelled, ReturnToGameplay
  <2>5. ASSUME NEW p \in Player, PushButton(p)
        PROVE  state \in DealtState /\ KeepsAdmin
    BY <2>5 DEF PushButton, MayPushButton
  <2>6. ASSUME NEW p \in Player, NEW S \in SUBSET Player, SubmitAccusation(p, S)
        PROVE  state \in DealtState /\ KeepsAdmin
    BY <2>6 DEF SubmitAccusation, MayAccuse
  <2> QED BY <1>5, <2>2, <2>3, <2>4, <2>5, <2>6 DEF AccusationEvent, AccusationVoteOver, AccusationCancelled
<1>6. CASE EndEvent
  BY <1>6 DEF EndEvent, MatchClockExpired, HostAdvance, HostRestartMatch, CloseRoom,
              RequestRematch
<1>7. CASE Tick
  BY <1>7 DEF Tick, phaseVars
<1> QED BY <1>1, <1>2, <1>3, <1>4, <1>5, <1>6, <1>7 DEF Next

\* The Admin rotation only moves on where it draws.
LEMMA TurnDraws ==
    ASSUME TypeOK, PhaseInv, Next, TurnStarts
    PROVE  DrawsAdmin /\ ~MatchStarts
<1>1. ~MatchStarts /\ state' \in DealtState
  BY DEF TurnStarts, MatchStarts, DealtState, InvestigationState, AccusationAllowed
<1>2. ~KeepsAdmin
  BY DEF TurnStarts, KeepsAdmin
<1> QED BY <1>1, <1>2, RotationStep

-----------------------------------------------------------------------------
(* The rotation *)

\* Drawing from a queue of those who have not served draws one of them, or refills a
\* queue that is empty because all of them have.
LEMMA DrawIsFair ==
    ASSUME TypeOK, RosterInv, QueueIsUnserved, DrawsAdmin
    PROVE  /\ adminId' \notin served \/ players \subseteq served
           /\ adminId' \in players
           /\ adminQueue' = players \ (IF players \subseteq served THEN {adminId'}
                                       ELSE served \cup {adminId'})
           /\ served \subseteq players
<1>1. state \in DealtState
  BY DEF DrawsAdmin
<1>2. players # {}
  BY <1>1, RosterThere
  DEF RosterInv, MatchState, DealtState, GameState, OverState, InvestigationState,
      AccusationAllowed, RoundState, AccusationState, SpecialState
<1>3. CASE adminQueue = {} /\ served = {}
  BY <1>2, <1>3 DEF DrawsAdmin, AssignNextAdmin, HeadOf, Eligible
<1>4. CASE adminQueue = players \ served /\ served \subseteq players
  <2>1. CASE players \subseteq served
    BY <1>2, <1>4, <2>1 DEF DrawsAdmin, AssignNextAdmin, HeadOf, Eligible
  <2>2. CASE ~(players \subseteq served)
    BY <1>2, <1>4, <2>2 DEF DrawsAdmin, AssignNextAdmin, HeadOf, Eligible
  <2> QED BY <2>1, <2>2
<1> QED BY <1>1, <1>3, <1>4 DEF QueueIsUnserved

\* QueueIsUnserved is kept by every step.
LEMMA QueueStep ==
    ASSUME TypeOK, PhaseInv, RosterInv, QueueIsUnserved, HNext PROVE QueueIsUnserved'
<1> SUFFICES ASSUME state' \in DealtState PROVE QueueIsUnserved'
  BY DEF QueueIsUnserved
<1>0. Next
  BY DEF HNext
<1>1. CASE MatchStarts
  BY <1>0, <1>1, MatchStep DEF HNext, QueueIsUnserved
<1>2. CASE ~MatchStarts /\ TurnStarts
  <2>1. DrawsAdmin
    BY <1>0, <1>2, TurnDraws
  <2>2. players' = players
    BY <2>1 DEF DrawsAdmin
  <2>3. served' = IF players \subseteq served THEN {adminId'} ELSE served \cup {adminId'}
    BY <1>2 DEF HNext
  <2> QED BY <2>1, <2>2, <2>3, DrawIsFair DEF QueueIsUnserved
<1>3. CASE ~MatchStarts /\ ~TurnStarts
  <2>1. state \in DealtState /\ players' = players /\ adminId' = adminId /\ adminQueue' = adminQueue
    BY <1>0, <1>3, RotationStep DEF TurnStarts, KeepsAdmin, DrawsAdmin, adminVars
  <2>2. served' = served
    BY <1>3 DEF HNext
  <2> QED BY <2>1, <2>2 DEF QueueIsUnserved
<1> QED BY <1>1, <1>2, <1>3

\* A turn that starts is of somebody who has not had one in this rotation.
LEMMA FairStep ==
    ASSUME TypeOK, PhaseInv, RosterInv, QueueIsUnserved, Next, TurnStarts
    PROVE  adminId' \notin served \/ players \subseteq served
BY TurnDraws, DrawIsFair

-----------------------------------------------------------------------------
(* Turns and their rounds *)

\* Where a turn may be unplayed.
TurnPending == state = "MINIGAME_SELECT" \/ (state \in AccusationState /\ accusation.origin = "MINIGAME_SELECT")

\* A step within the match out of a state where a turn may be unplayed leads to another
\* one, or begins the round.
LEMMA PendingStep ==
    ASSUME TypeOK, PhaseInv, Next, TurnPending, ~MatchStarts, state' \in DealtState
    PROVE  TurnPending' \/ RoundStarts
<1> USE DEF DealtState, InvestigationState, AccusationAllowed, RoundState, AccusationState,
            SpecialState, EnterPhase, EnterMinigameSelect, TurnPending, blameVars, phaseVars
<1>1. CASE RosterEvent
  BY <1>1 DEF RosterEvent, JoinPlayer, LeavePlayer, PlayerDisconnected, PlayerReconnected
<1>2. CASE SetupEvent
  BY <1>2 DEF SetupEvent, HostStartGame, HostStartRematch, AssignRoles, AcknowledgeReveal,
              RoleRevealOver, EnterGameIntro, GameIntroOver
<1>3. CASE RoundEvent
  <2>1. ASSUME NEW g \in Minigame, NEW ids, BeginRound(g, ids), state = "MINIGAME_SELECT"
        PROVE  RoundStarts
    <3>1. round'.active = TRUE
      BY <2>1 DEF BeginRound
    <3>2. ~round.active
      BY <2>1 DEF PhaseInv, RecordsFollowPhase
    <3> QED BY <3>1, <3>2 DEF RoundStarts
  <2> QED
    BY <1>3, <2>1
    DEF RoundEvent, AdminSelectMinigame, MaySelect, AutoSelect, SubmitHack, MayHack, HackWindowOver,
        InstructionsOver, CompleteMinigame, ResultsOver, NextRoundPhase, DiscussionOver
<1>4. CASE SpecialEvent
  BY <1>4 DEF SpecialEvent, SpecialIntroOver, CompleteSpecialGame, SpecialResultOver
<1>5. CASE AccusationEvent
  <2>1. ASSUME NEW acc, ResolveAccusationVote(acc) PROVE TurnPending'
    BY <2>1, ReturnPhase DEF ResolveAccusationVote, RejectAccusation, ApproveAccusation
  <2>2. ASSUME NEW p \in Player, NEW v \in {"APPROVE", "REJECT"}, SubmitAccusationVote(p, v)
        PROVE  TurnPending'
    <3> DEFINE acc == IF v = "APPROVE" THEN [accusation EXCEPT !.approve = @ \cup {p}]
                                       ELSE [accusation EXCEPT !.reject = @ \cup {p}]
    <3>1. acc.origin = accusation.origin
      BY DEF TypeOK, Accusation
    <3>2. ResolveAccusationVote(acc) \/ (accusation' = acc /\ state' = state)
      BY <2>2 DEF SubmitAccusationVote
    <3>3. CASE ResolveAccusationVote(acc)
      BY <2>1, <3>3
    <3>4. CASE accusation' = acc /\ state' = state
      BY <3>1, <3>4 DEF SubmitAccusationVote
    <3> QED BY <3>2, <3>3, <3>4
  <2>3. CASE AccusationVoteOver
    BY <2>1, <2>3 DEF AccusationVoteOver
  <2>4. CASE AccusationCancelled
    BY <2>4, ReturnPhase DEF AccusationCancelled
  <2>5. ASSUME NEW p \in Player, PushButton(p) PROVE TurnPending'
    <3>1. accusation'.origin = state
      BY <2>5 DEF PushButton, NoAccusation
    <3> QED BY <2>5, <3>1 DEF PushButton, MayPushButton
  <2>6. ASSUME NEW p \in Player, NEW S \in SUBSET Player, SubmitAccusation(p, S)
        PROVE  TurnPending'
    <3>1. accusation'.origin = accusation.origin
      BY <2>6 DEF SubmitAccusation, TypeOK, Accusation
    <3> QED BY <2>6, <3>1 DEF SubmitAccusation, MayAccuse
  <2> QED BY <1>5, <2>2, <2>3, <2>4, <2>5, <2>6 DEF AccusationEvent
<1>6. CASE EndEvent
  BY <1>6 DEF EndEvent, MatchClockExpired, HostAdvance, HostRestartMatch, CloseRoom,
              RequestRematch
<1>7. CASE Tick
  BY <1>7 DEF Tick
<1> QED BY <1>1, <1>2, <1>3, <1>4, <1>5, <1>6, <1>7 DEF Next

\* TurnIsPlayed is kept by every step.
LEMMA PlayedStep == ASSUME TypeOK, PhaseInv, TurnIsPlayed, HNext PROVE TurnIsPlayed'
<1>1. played' = (MatchStarts \/ RoundStarts \/ (played /\ ~TurnStarts)) /\ Next
  BY DEF HNext
<1>2. TurnIsPlayed' <=> played' \in BOOLEAN /\ (state' \in DealtState /\ ~played' => TurnPending')
  <2>1. accusation' \in Accusation
    BY <1>1, TypeStep DEF TypeOK
  <2> QED
    BY <2>1 DEF TurnIsPlayed, TurnPending, DealtState, InvestigationState, AccusationState, Accusation,
       AccusationAllowed, RoundState, SpecialState
<1>3. ASSUME state' \in DealtState, ~played' PROVE TurnPending'
  <2>1. ~MatchStarts /\ ~RoundStarts
    BY <1>1, <1>3
  <2>2. CASE TurnStarts
    BY <2>2 DEF TurnStarts, TurnPending
  <2>3. CASE ~played
    <3>1. state \in DealtState
      BY <1>1, <1>3, <2>1, RotationStep
    <3>2. TurnPending
      BY <2>3, <3>1 DEF TurnIsPlayed, TurnPending, TypeOK, Accusation, AccusationAllowed
    <3> QED BY <1>1, <1>3, <2>1, <3>2, PendingStep
  <2> QED BY <1>1, <1>3, <2>1, <2>2, <2>3 DEF TurnIsPlayed
<1>4. played' \in BOOLEAN
  BY <1>1 DEF TurnIsPlayed
<1> QED BY <1>2, <1>3, <1>4

\* The rotation only moves on from a turn that was played.
LEMMA TurnPlayedStep ==
    ASSUME TypeOK, PhaseInv, TurnIsPlayed, Next, TurnStarts
    PROVE  played
BY TurnDraws DEF DrawsAdmin, TurnIsPlayed

-----------------------------------------------------------------------------
(* The account of the clock *)

\* Nothing the account depends on changes.
AccountStands ==
    /\ UNCHANGED clock
    /\ \/ UNCHANGED lastSpecial
       \/ state \in SpecialState
    /\ state' \in InvestigationState <=> state \in InvestigationState
    /\ state' \in SpecialState <=> state \in SpecialState
    /\ state' \in {"ROLE_REVEAL", "GAME_INTRO"} <=> state \in {"ROLE_REVEAL", "GAME_INTRO"}

\* Within a match only three events and the passing of time touch the clock.
LEMMA AccountStep ==
    ASSUME TypeOK, PhaseInv, Next, ~Tick, ~MatchStarts, state' \in DealtState
    PROVE  AccountStands \/ GameIntroOver \/ SpecialResultOver \/ (DiscussionOver /\ BeginSpecialGame)
<1> USE DEF DealtState, InvestigationState, AccusationAllowed, RoundState, AccusationState,
            SpecialState, EnterPhase, EnterMinigameSelect, AccountStands, specialVars, verdictVars,
            phaseVars
<1>1. CASE RosterEvent
  BY <1>1 DEF RosterEvent, JoinPlayer, LeavePlayer, PlayerDisconnected, PlayerReconnected
<1>2. CASE SetupEvent
  BY <1>2 DEF SetupEvent, HostStartGame, HostStartRematch, AssignRoles, AcknowledgeReveal,
              RoleRevealOver, EnterGameIntro, MatchStarts
<1>3. CASE RoundEvent
  <2>1. ASSUME NEW game, NEW ids, AdminSelectMinigame(game, ids) \/ AutoSelect(game, ids)
        PROVE  AccountStands
    BY <2>1 DEF AdminSelectMinigame, MaySelect, AutoSelect, BeginRound, HackWindowPhase
  <2>2. ASSUME NEW p, NEW t, SubmitHack(p, t) PROVE AccountStands
    BY <2>2 DEF SubmitHack, MayHack, NextRoundPhase
  <2>3. CASE HackWindowOver \/ InstructionsOver
    BY <2>3 DEF HackWindowOver, InstructionsOver, NextRoundPhase
  <2>4. CASE CompleteMinigame \/ ResultsOver
    BY <2>4 DEF CompleteMinigame, ResultsOver, NextRoundPhase
  <2>5. CASE DiscussionOver
    BY <2>5 DEF DiscussionOver
  <2> QED BY <1>3, <2>1, <2>2, <2>3, <2>4, <2>5 DEF RoundEvent
<1>4. CASE SpecialEvent
  BY <1>4 DEF SpecialEvent, SpecialIntroOver, CompleteSpecialGame
<1>5. CASE AccusationEvent
  <2>1. ASSUME NEW acc, ResolveAccusationVote(acc), state = "ACCUSATION_VOTE" PROVE AccountStands
    BY <2>1, ReturnPhase DEF ResolveAccusationVote, RejectAccusation, ApproveAccusation
  <2> QED
    BY <1>5, <2>1, ReturnPhase
    DEF AccusationEvent, PushButton, MayPushButton, SubmitAccusation, MayAccuse, AccusationCancelled, SubmitAccusationVote, MayVote,
        AccusationVoteOver
<1>6. CASE EndEvent
  BY <1>6 DEF EndEvent, MatchClockExpired, HostAdvance, HostRestartMatch, CloseRoom,
              RequestRematch
<1> QED BY <1>1, <1>2, <1>3, <1>4, <1>5, <1>6 DEF Next

AccountInv == NothingSpentYet /\ ClockAccountsForTime

\* The account is kept by every step.
LEMMA AccountInvStep == ASSUME TypeOK, PhaseInv, AccountInv, HNext PROVE AccountInv'
<1> USE DEF AccountInv, NothingSpentYet, ClockAccountsForTime
<1>0. Next
  BY DEF HNext
<1>1. CASE MatchStarts
  <2>1. lastSpecial' = "none" /\ investigated' = 0 /\ state' = "ROLE_REVEAL"
    BY <1>0, <1>1, MatchStep DEF HNext, MatchStarts
  <2> QED
    BY <2>1, ConstantsAssumption
    DEF InvestigationState, AccusationAllowed, RoundState, AccusationState, SpecialState
<1>2. CASE ~MatchStarts /\ Tick
  <2>1. UNCHANGED <<state, lastSpecial>>
    BY <1>2 DEF Tick, phaseVars, specialVars
  <2>2. CASE state \in InvestigationState
    <3>1. clock.status = "running" /\ clock \in Clock
      BY <2>2 DEF PhaseInv, ClockFollowsPhase, InvestigationState, AccusationAllowed, RoundState,
                  AccusationState, TypeOK
    <3>2. clock'.left = AtLeastZero(clock.left - 1)
      BY <1>2, <3>1 DEF Tick, TickMatchClock, Clock
    <3>3. investigated' = Least(investigated + 1, ClockTotal)
      BY <1>2, <2>2 DEF HNext
    <3>4. Charged' = Charged /\ Charged \in Nat
      BY <2>1, ConstantsAssumption DEF Charged
    <3>5. clock.left = AtLeastZero(ClockTotal - investigated - Charged)
      BY <2>2
    <3>6. clock'.left = AtLeastZero(ClockTotal - investigated' - Charged')
      <4> HIDE DEF Charged
      <4> QED BY <3>2, <3>3, <3>4, <3>5, ConstantsAssumption DEF AtLeastZero, Least
    <3>7. investigated' \in 0 .. ClockTotal
      BY <3>3, ConstantsAssumption DEF Least
    <3> QED
      BY <2>1, <2>2, <3>6, <3>7
      DEF InvestigationState, AccusationAllowed, RoundState, AccusationState, SpecialState
  <2>3. CASE state \notin InvestigationState
    <3>1. investigated' = investigated
      BY <1>2, <2>3 DEF HNext
    <3>2. state \in SpecialState => clock' = clock
      BY <1>2 DEF Tick, TickMatchClock, PhaseInv, ClockFollowsPhase, SpecialState
    <3> QED BY <2>1, <2>3, <3>1, <3>2
  <2> QED BY <2>2, <2>3
<1>3. CASE ~MatchStarts /\ ~Tick
  <2>1. investigated' = investigated
    BY <1>3 DEF HNext
  <2>2. CASE state' \notin DealtState
    BY <2>1, <2>2 DEF DealtState
  <2>3. CASE AccountStands
    BY <2>1, <2>3
    DEF AccountStands, Charged, InvestigationState, AccusationAllowed, RoundState, AccusationState,
        SpecialState
  <2>4. CASE GameIntroOver
    <3>1. clock'.left = ClockTotal /\ investigated = 0 /\ lastSpecial' = "none"
      BY <2>4 DEF GameIntroOver, StartMatchClock, specialVars
    <3>2. state' = "MINIGAME_SELECT"
      BY <2>4 DEF GameIntroOver, EnterMinigameSelect, EnterPhase
    <3> QED BY <2>1, <3>1, <3>2, ConstantsAssumption DEF Charged, AtLeastZero, SpecialState
  <2>5. CASE DiscussionOver /\ BeginSpecialGame
    <3>1. lastSpecial = "none"
      BY <2>5 DEF DiscussionOver, BeginSpecialGame, SpecialGameDue, PhaseInv, FirewallIsEarned,
                  EnterMinigameSelect, EnterPhase
    <3>2. clock \in Clock /\ clock.status = "running" /\ state = "DISCUSSION"
      BY <2>5 DEF DiscussionOver, PhaseInv, ClockFollowsPhase, InvestigationState,
                  AccusationAllowed, TypeOK
    <3>3. clock'.remaining = clock.left
      BY <2>5, <3>2 DEF BeginSpecialGame, PauseMatchClock, Clock
    <3>4. clock.left = AtLeastZero(ClockTotal - investigated - 0)
      BY <3>1, <3>2 DEF Charged, InvestigationState, AccusationAllowed
    <3>5. state' = "SPECIAL_GAME_INTRO"
      BY <2>5 DEF BeginSpecialGame, EnterPhase
    <3> QED
      BY <2>1, <3>3, <3>4, <3>5, ConstantsAssumption
      DEF InvestigationState, AccusationAllowed, RoundState, AccusationState, AtLeastZero
  <2>6. CASE SpecialResultOver /\ state' \in DealtState
    <3> DEFINE charged == IF lastSpecial = "failure" THEN ApplyPenalty(clock, FailPenalty) ELSE clock
    <3>1. state' = "MINIGAME_SELECT"
      BY <2>6
      DEF SpecialResultOver, EnterMinigameSelect, EnterPhase, DealtState, InvestigationState,
          AccusationAllowed, RoundState, AccusationState, SpecialState
    <3>2. /\ lastSpecial # "failure" \/ charged.remaining > 0
          /\ clock' = ResumeMatchClock(charged)
          /\ lastSpecial' = lastSpecial
      BY <2>6, <3>1 DEF SpecialResultOver, EnterPhase
    <3>3. clock \in Clock /\ clock.status = "paused" /\ state \in SpecialState
      BY <2>6 DEF SpecialResultOver, PhaseInv, ClockFollowsPhase, SpecialState, TypeOK
    <3>4. charged.remaining = IF lastSpecial = "failure" THEN AtLeastZero(clock.remaining - FailPenalty)
                              ELSE clock.remaining
      BY <3>3 DEF ApplyPenalty, Clock
    <3>5. charged \in Clock /\ charged.status = "paused"
      BY <3>3, ClockTypes, ClockStatuses, ConstantsAssumption
    <3>6. clock'.left = charged.remaining
      BY <3>2, <3>5 DEF ResumeMatchClock, Clock
    <3>7. clock.remaining = AtLeastZero(ClockTotal - investigated)
      BY <3>3
    <3>8. Charged' = IF lastSpecial = "failure" THEN FailPenalty ELSE 0
      BY <3>2 DEF Charged
    <3>9. clock'.left = AtLeastZero(ClockTotal - investigated' - Charged')
      <4> HIDE DEF charged
      <4> QED BY <2>1, <3>2, <3>4, <3>6, <3>7, <3>8, ConstantsAssumption DEF AtLeastZero
    <3> QED BY <2>1, <3>1, <3>9 DEF SpecialState
  <2> QED BY <1>0, <1>3, <2>2, <2>3, <2>4, <2>5, <2>6, AccountStep
<1> QED BY <1>1, <1>2, <1>3

-----------------------------------------------------------------------------
(* The theorems *)

HistoryInv == RosterInv /\ QueueIsUnserved /\ TurnIsPlayed /\ AccountInv

\* What the history specification keeps in every state.
LEMMA HistoryInvariant == HSpec => [](TypeOK /\ PhaseInv /\ HistoryInv)
<1>1. HInit => TypeOK /\ PhaseInv /\ HistoryInv
  <2> SUFFICES ASSUME HInit PROVE TypeOK /\ PhaseInv /\ HistoryInv
    OBVIOUS
  <2>1. TypeOK /\ PhaseInv
    BY TypeInit, PhaseInit DEF HInit
  <2>2. RosterInv
    BY RosterInit DEF HInit
  <2>3. state = "LOBBY" /\ investigated = 0 /\ played = TRUE
    BY DEF HInit, Init
  <2> QED
    BY <2>1, <2>2, <2>3, ConstantsAssumption
    DEF HistoryInv, QueueIsUnserved, TurnIsPlayed, AccountInv, NothingSpentYet,
        ClockAccountsForTime, DealtState, InvestigationState, AccusationAllowed, RoundState,
        AccusationState, SpecialState
<1>2. TypeOK /\ PhaseInv /\ HistoryInv /\ [HNext]_<<vars, history>>
        => (TypeOK /\ PhaseInv /\ HistoryInv)'
  <2> SUFFICES ASSUME TypeOK, PhaseInv, HistoryInv, [HNext]_<<vars, history>>
               PROVE  (TypeOK /\ PhaseInv /\ HistoryInv)'
    OBVIOUS
  <2>1. (TypeOK /\ PhaseInv /\ RosterInv)'
    BY HistoryStep, TypeStep, PhaseStep, RosterInvStep DEF HistoryInv
  <2>2. CASE HNext
    BY <2>1, <2>2, QueueStep, PlayedStep, AccountInvStep DEF HistoryInv
  <2>3. CASE UNCHANGED <<vars, history>>
    BY <2>1, <2>3
    DEF HistoryInv, QueueIsUnserved, TurnIsPlayed, AccountInv, NothingSpentYet,
        ClockAccountsForTime, Charged, vars, history, phaseVars, rosterVars, adminVars,
        specialVars, verdictVars, blameVars
  <2> QED BY <2>2, <2>3
<1> QED BY <1>1, <1>2, PTL DEF HSpec

\* In every execution the time left on the match clock is the total less the time
\* investigated and the one penalty: no sequence of pauses, resumes, accusations and
\* special games gives time back or loses it.
THEOREM TimeIsAccounted == HSpec => []ClockAccountsForTime
BY HistoryInvariant, PTL DEF HistoryInv, AccountInv

\* In every execution nobody is Admin again before every player of the room has been.
THEOREM RotationIsFair == HSpec => AdminRotationFair
<1>1. TypeOK /\ PhaseInv /\ HistoryInv /\ [HNext]_<<vars, history>>
        => [TurnStarts => adminId' \notin served \/ players \subseteq served]_<<vars, history>>
  BY FairStep DEF HNext, HistoryInv
<1> QED BY <1>1, HistoryInvariant, PTL DEF HSpec, AdminRotationFair

\* In every execution the rotation moves on only after the round of the present turn,
\* however often an accusation interrupts the selection.
THEOREM TurnsPlayRounds == HSpec => EveryTurnPlaysARound
<1>1. TypeOK /\ PhaseInv /\ HistoryInv /\ [HNext]_<<vars, history>>
        => [TurnStarts => played]_<<vars, history>>
  BY TurnPlayedStep DEF HNext, HistoryInv
<1> QED BY <1>1, HistoryInvariant, PTL DEF HSpec, EveryTurnPlaysARound
=============================================================================
