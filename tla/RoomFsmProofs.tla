--------------------------- MODULE RoomFsmProofs ---------------------------
(***************************************************************************)
(* Proofs about the room state machine, for every value of its constants.  *)
(* TypeOK is inductive by itself.  The records, the clock and the firewall *)
(* are not: that the special game pauses a running clock needs the clock   *)
(* to run in DISCUSSION, that an accusation's vote is of an open record    *)
(* needs the record to follow the phase, and so on in a circle, so they    *)
(* are proved together as PhaseInv, event group by event group.            *)
(*                                                                         *)
(* The second half is about the play of a match: how a firewall is spent   *)
(* and how a match is won are action properties that follow from PhaseInv; *)
(* the hack budget and the open vote have inductive invariants of their    *)
(* own on top of it.                                                       *)
(***************************************************************************)
EXTENDS RoomFsm, FiniteSetTheorems, TLAPS

\* The operations of the match clock return clocks.
LEMMA ClockTypes ==
    /\ InitMatchClock \in Clock
    /\ \A n \in Nat : StartMatchClock(n) \in Clock
    /\ \A c \in Clock :
          /\ PauseMatchClock(c) \in Clock
          /\ ResumeMatchClock(c) \in Clock
          /\ StopMatchClock(c) \in Clock
          /\ TickMatchClock(c) \in Clock
          /\ \A ms \in Nat : ApplyPenalty(c, ms) \in Clock
<1> USE DEF Clock, ClockStatus, AtLeastZero
<1>1. InitMatchClock \in Clock
  BY DEF InitMatchClock
<1>2. ASSUME NEW n \in Nat PROVE StartMatchClock(n) \in Clock
  BY DEF StartMatchClock
<1>3. ASSUME NEW c \in Clock PROVE PauseMatchClock(c) \in Clock
  BY DEF PauseMatchClock
<1>4. ASSUME NEW c \in Clock PROVE ResumeMatchClock(c) \in Clock
  BY DEF ResumeMatchClock
<1>5. ASSUME NEW c \in Clock PROVE StopMatchClock(c) \in Clock
  BY DEF StopMatchClock
<1>6. ASSUME NEW c \in Clock PROVE TickMatchClock(c) \in Clock
  <2>1. AtLeastZero(c.left - 1) \in Nat
    OBVIOUS
  <2> QED BY <2>1 DEF TickMatchClock
<1>7. ASSUME NEW c \in Clock, NEW ms \in Nat PROVE ApplyPenalty(c, ms) \in Clock
  <2>1. AtLeastZero(c.remaining - ms) \in Nat
    OBVIOUS
  <2>2. c.penalty + ms \in Nat
    OBVIOUS
  <2> HIDE DEF AtLeastZero
  <2> QED BY <2>1, <2>2 DEF ApplyPenalty
<1> QED BY <1>1, <1>2, <1>3, <1>4, <1>5, <1>6, <1>7

\* The idle records are records of their types.
LEMMA IdleTypes ==
    NoRound \in Round /\ NoSpecial \in Special /\ NoAccusation \in Accusation
BY DEF NoRound, Round, NoSpecial, Special, NoAccusation, Accusation, AccusationAllowed

\* The next Admin, if any, and the queue behind are players of the room, and
\* there is one as long as there are players.
LEMMA AdminTypes ==
    ASSUME TypeOK, AssignNextAdmin
    PROVE  /\ adminId' \in players \cup {NoPlayer} /\ adminQueue' \subseteq players
           /\ players # {} => adminId' \in players
BY DEF TypeOK, AssignNextAdmin, HeadOf, Eligible

\* Any part of the roster is finite and has a natural cardinality.
LEMMA RosterFinite ==
    ASSUME TypeOK, NEW S, S \subseteq players
    PROVE  IsFiniteSet(S) /\ Cardinality(S) \in Nat
<1>1. S \subseteq Player
  BY DEF TypeOK
<1> QED BY <1>1, ConstantsAssumption, FS_Subset, FS_CardinalityType

\* A new room is well typed.
LEMMA TypeInit == Init => TypeOK
<1> SUFFICES ASSUME Init PROVE TypeOK
  OBVIOUS
<1>1. clock \in Clock
  BY ClockTypes DEF Init
<1>2. round \in Round /\ special \in Special /\ accusation \in Accusation
  BY IdleTypes DEF Init
<1>3. roundInCycle \in 0..RoundCap /\ cooldown \in 0..AccusationCooldown
  BY ConstantsAssumption DEF Init, RoundCap
<1>4. hacksRemaining \in [Player -> 0..2] /\ hackerCount \in Nat
  BY DEF Init
<1>5. /\ state \in GameState /\ submitted \subseteq Player
      /\ players \subseteq Player /\ connected \subseteq players /\ hackers \subseteq players
      /\ adminId \in Player \cup {NoPlayer} /\ adminQueue \subseteq Player
  BY DEF Init, GameState
<1> QED BY <1>1, <1>2, <1>3, <1>4, <1>5 DEF Init, TypeOK

\* Role assignment deals hackers, charges and a fresh clock of the right types.
LEMMA AssignRolesTypes ==
    ASSUME TypeOK, NEW budget \in [Player -> 0..2], AssignRoles(budget)
    PROVE  /\ state' \in GameState /\ submitted' \subseteq Player
           /\ hackers' \subseteq players
           /\ hackerCount' \in Nat
           /\ hacksRemaining' \in [Player -> 0..2]
           /\ adminId' = NoPlayer /\ adminQueue' = {}
           /\ roundInCycle' \in 0..RoundCap
           /\ specialUsed' = FALSE /\ firewall' = FALSE
           /\ clock' \in Clock
<1>1. PICK H \in SUBSET players :
          /\ hackers' = H
          /\ hackerCount' = Cardinality(H)
          /\ hacksRemaining' = [p \in Player |-> IF p \in H THEN 2
                                                 ELSE IF p \in players THEN 0
                                                 ELSE budget[p]]
  BY DEF AssignRoles
<1>2. hackerCount' \in Nat
  BY <1>1, RosterFinite
<1>3. hacksRemaining' \in [Player -> 0..2]
  BY <1>1
<1>4. clock' \in Clock
  BY ClockTypes DEF AssignRoles
<1>5. roundInCycle' \in 0..RoundCap
  BY ConstantsAssumption DEF AssignRoles, RoundCap
<1> QED BY <1>1, <1>2, <1>3, <1>4, <1>5 DEF AssignRoles, EnterPhase, GameState

\* Joins, leaves and connection changes keep the room well typed.
LEMMA RosterEventType == ASSUME TypeOK, RosterEvent PROVE TypeOK'
<1> USE DEF TypeOK, phaseVars, rosterVars, roleVars, adminVars, roundVars, specialVars,
            verdictVars, blameVars
<1>1. ASSUME NEW p \in Player, JoinPlayer(p) PROVE TypeOK'
  BY <1>1 DEF JoinPlayer
<1>2. ASSUME NEW p \in Player, LeavePlayer(p) PROVE TypeOK'
  BY <1>2 DEF LeavePlayer
<1>3. ASSUME NEW p \in Player, PlayerDisconnected(p) PROVE TypeOK'
  BY <1>3 DEF PlayerDisconnected
<1>4. ASSUME NEW p \in Player, PlayerReconnected(p) PROVE TypeOK'
  BY <1>4 DEF PlayerReconnected
<1> QED BY <1>1, <1>2, <1>3, <1>4 DEF RosterEvent

\* Starting a match, up to the first selection, keeps the room well typed.
LEMMA SetupEventType == ASSUME TypeOK, SetupEvent PROVE TypeOK'
<1> USE DEF TypeOK, phaseVars, rosterVars, roleVars, adminVars, roundVars, specialVars,
            verdictVars, blameVars
<1>1. CASE HostStartGame
  BY <1>1, AssignRolesTypes DEF HostStartGame
<1>2. CASE HostStartRematch
  <2>1. [p \in Player |-> 0] \in [Player -> 0..2]
    OBVIOUS
  <2>2. round' \in Round /\ special' \in Special /\ accusation' \in Accusation
    BY <1>2, IdleTypes DEF HostStartRematch, ClearMatch
  <2>3. cooldown' \in 0..AccusationCooldown
    BY <1>2, ConstantsAssumption DEF HostStartRematch, ClearMatch
  <2> QED BY <1>2, <2>1, <2>2, <2>3, AssignRolesTypes DEF HostStartRematch, ClearMatch
<1>3. ASSUME EnterGameIntro PROVE TypeOK'
  BY <1>3 DEF EnterGameIntro, EnterPhase, GameState
<1>4. ASSUME NEW p \in Player, AcknowledgeReveal(p) PROVE TypeOK'
  BY <1>3, <1>4 DEF AcknowledgeReveal
<1>5. CASE RoleRevealOver
  BY <1>3, <1>5 DEF RoleRevealOver
<1>6. CASE GameIntroOver
  <2>1. clock' \in Clock
    BY <1>6, ClockTypes, ConstantsAssumption DEF GameIntroOver
  <2> QED BY <1>6, <2>1, AdminTypes
          DEF GameIntroOver, EnterMinigameSelect, EnterPhase, GameState
<1> QED BY <1>1, <1>2, <1>4, <1>5, <1>6 DEF SetupEvent

\* A round begun by anybody, on any selection of players, is well typed.
LEMMA BeginRoundType ==
    ASSUME TypeOK, NEW g \in Minigame, NEW ids \in SUBSET Player, BeginRound(g, ids)
    PROVE  TypeOK'
<1>1. roundInCycle' \in 0..RoundCap
  BY ConstantsAssumption DEF BeginRound, TypeOK, RoundCap, Least
<1>2. ExpandParticipants(g, ids) \subseteq Player
  BY DEF ExpandParticipants, Eligible, TypeOK
<1>3. round' \in Round
  <2> HIDE DEF ExpandParticipants
  <2> QED BY <1>2 DEF BeginRound, TypeOK, Round
<1>4. state' \in GameState /\ submitted' = {}
  BY DEF BeginRound, HackWindowPhase, EnterPhase, GameState
<1> QED
  BY <1>1, <1>3, <1>4
  DEF BeginRound, TypeOK, rosterVars, roleVars, adminVars, specialVars, verdictVars, blameVars

\* The events of a normal round keep the room well typed.
LEMMA RoundEventType == ASSUME TypeOK, RoundEvent PROVE TypeOK'
<1> USE DEF TypeOK, phaseVars, rosterVars, roleVars, adminVars, roundVars, specialVars,
            verdictVars, blameVars
<1>1. ASSUME NEW g \in Minigame, NEW ids \in SUBSET Player,
             AdminSelectMinigame(g, ids) \/ AutoSelect(g, ids)
      PROVE  TypeOK'
  BY <1>1, BeginRoundType DEF AdminSelectMinigame, AutoSelect
<1>2. ASSUME NEW p \in Player, NEW t \in Player, SubmitHack(p, t) PROVE TypeOK'
  <2>1. round' \in Round
    BY <1>2 DEF SubmitHack, Round
  <2>2. hacksRemaining' \in [Player -> 0..2]
    BY <1>2 DEF SubmitHack, MayHack
  <2> QED BY <1>2, <2>1, <2>2 DEF SubmitHack
<1>3. CASE HackWindowOver
  <2>1. round' \in Round
    BY <1>3 DEF HackWindowOver, Round
  <2> QED BY <1>3, <2>1 DEF HackWindowOver, NextRoundPhase, EnterPhase, GameState
<1>4. CASE InstructionsOver
  BY <1>4 DEF InstructionsOver, NextRoundPhase, EnterPhase, GameState
<1>5. CASE CompleteMinigame
  BY <1>5 DEF CompleteMinigame, NextRoundPhase, EnterPhase, GameState
<1>6. CASE ResultsOver
  BY <1>6, IdleTypes DEF ResultsOver, NextRoundPhase, EnterPhase, GameState
<1>7. CASE DiscussionOver
  <2>1. CASE BeginSpecialGame
    <3>1. special' \in Special
      BY <2>1 DEF BeginSpecialGame, Eligible, Special
    <3>2. clock' \in Clock
      BY <2>1, ClockTypes DEF BeginSpecialGame
    <3> QED BY <2>1, <3>1, <3>2 DEF BeginSpecialGame, EnterPhase, GameState
  <2>2. CASE /\ EnterMinigameSelect
             /\ UNCHANGED <<rosterVars, roleVars, roundVars, specialVars, firewall, verdictVars,
                            blameVars>>
    BY <2>2, AdminTypes DEF EnterMinigameSelect, EnterPhase, GameState
  <2> QED BY <1>7, <2>1, <2>2 DEF DiscussionOver
<1> QED BY <1>1, <1>2, <1>3, <1>4, <1>5, <1>6, <1>7 DEF RoundEvent

\* The events of the special game keep the room well typed.
LEMMA SpecialEventType == ASSUME TypeOK, SpecialEvent PROVE TypeOK'
<1> USE DEF TypeOK, phaseVars, rosterVars, roleVars, adminVars, roundVars, specialVars,
            verdictVars, blameVars
<1>1. CASE SpecialIntroOver
  <2>1. special' \in Special
    BY <1>1 DEF SpecialIntroOver, Special
  <2> QED BY <1>1, <2>1 DEF SpecialIntroOver, EnterPhase, GameState
<1>2. CASE CompleteSpecialGame
  BY <1>2 DEF CompleteSpecialGame, EnterPhase, GameState
<1>3. CASE SpecialResultOver
  <2> DEFINE charged == IF lastSpecial = "failure" THEN ApplyPenalty(clock, FailPenalty) ELSE clock
  <2>1. charged \in Clock
    BY ClockTypes, ConstantsAssumption
  <2>2. clock' \in Clock
    BY <1>3, <2>1, ClockTypes DEF SpecialResultOver
  <2>3. adminId' \in Player \cup {NoPlayer} /\ adminQueue' \subseteq Player
    BY <1>3, AdminTypes DEF SpecialResultOver, EnterMinigameSelect
  <2>4. state' \in GameState /\ submitted' = {} /\ winner' \in {"none", "crew", "hackers"}
        /\ firewall' \in BOOLEAN
    BY <1>3 DEF SpecialResultOver, EnterMinigameSelect, EnterPhase, GameState
  <2> QED BY <1>3, <2>2, <2>3, <2>4, IdleTypes DEF SpecialResultOver
<1> QED BY <1>1, <1>2, <1>3 DEF SpecialEvent

\* The way back from an accusation leaves phase and Admin well typed.
LEMMA ReturnTypes ==
    ASSUME TypeOK, NEW origin, ReturnToGameplay(origin)
    PROVE  /\ state' \in GameState /\ submitted' = {}
           /\ adminId' \in Player \cup {NoPlayer} /\ adminQueue' \subseteq Player
<1>1. CASE origin = "MINIGAME_SELECT"
  BY <1>1 DEF ReturnToGameplay, EnterPhase, adminVars, TypeOK, GameState
<1>2. CASE origin # "MINIGAME_SELECT"
  BY <1>2, AdminTypes DEF ReturnToGameplay, EnterMinigameSelect, EnterPhase, TypeOK, GameState
<1> QED BY <1>1, <1>2

\* Resolving a vote, either way, keeps the room well typed.
LEMMA ResolveVoteType ==
    ASSUME TypeOK, NEW acc, ResolveAccusationVote(acc)
    PROVE  TypeOK'
<1> USE DEF TypeOK, rosterVars, roleVars, adminVars, roundVars, specialVars, verdictVars
<1>1. CASE RejectAccusation(acc)
  <2>1. cooldown' \in 0..AccusationCooldown
    BY <1>1, ConstantsAssumption DEF RejectAccusation
  <2>2. /\ state' \in GameState /\ submitted' = {}
        /\ adminId' \in Player \cup {NoPlayer} /\ adminQueue' \subseteq Player
    BY <1>1, ReturnTypes DEF RejectAccusation
  <2> QED BY <1>1, <2>1, <2>2, IdleTypes DEF RejectAccusation, ResolveAccusationVote
<1>2. CASE ApproveAccusation(acc)
  BY <1>2, IdleTypes, ClockTypes
  DEF ApproveAccusation, ResolveAccusationVote, EnterPhase, GameState
<1> QED BY <1>1, <1>2 DEF ResolveAccusationVote

\* The events of an accusation keep the room well typed.
LEMMA AccusationEventType == ASSUME TypeOK, AccusationEvent PROVE TypeOK'
<1> USE DEF TypeOK, phaseVars, rosterVars, roleVars, adminVars, roundVars, specialVars,
            verdictVars, blameVars
<1>1. ASSUME NEW p \in Player, PushButton(p) PROVE TypeOK'
  <2>1. accusation' \in Accusation
    BY <1>1 DEF PushButton, MayPushButton, NoAccusation, Accusation, AccusationAllowed
  <2> QED BY <1>1, <2>1 DEF PushButton, EnterPhase, GameState
<1>2. ASSUME NEW p \in Player, NEW S \in SUBSET Player, SubmitAccusation(p, S) PROVE TypeOK'
  <2>1. accusation' \in Accusation
    BY <1>2 DEF SubmitAccusation, Eligible, Accusation
  <2> QED BY <1>2, <2>1 DEF SubmitAccusation, EnterPhase, GameState
<1>3. CASE AccusationCancelled
  BY <1>3, ReturnTypes, IdleTypes DEF AccusationCancelled
<1>4. ASSUME NEW p \in Player, NEW v \in {"APPROVE", "REJECT"}, SubmitAccusationVote(p, v)
      PROVE  TypeOK'
  <2> DEFINE acc == IF v = "APPROVE" THEN [accusation EXCEPT !.approve = @ \cup {p}]
                                     ELSE [accusation EXCEPT !.reject = @ \cup {p}]
  <2>1. acc \in Accusation
    BY DEF Accusation
  <2>2. CASE ResolveAccusationVote(acc)
    BY <2>2, ResolveVoteType
  <2>3. CASE ~ResolveAccusationVote(acc)
    BY <1>4, <2>1, <2>3 DEF SubmitAccusationVote
  <2> QED BY <2>2, <2>3
<1>5. CASE AccusationVoteOver
  BY <1>5, ResolveVoteType DEF AccusationVoteOver
<1> QED BY <1>1, <1>2, <1>3, <1>4, <1>5 DEF AccusationEvent

\* The end of a match and what follows it keep the room well typed.
LEMMA EndEventType == ASSUME TypeOK, EndEvent PROVE TypeOK'
<1> USE DEF TypeOK, phaseVars, rosterVars, roleVars, adminVars, roundVars, specialVars,
            verdictVars, blameVars
<1>1. CASE MatchClockExpired
  BY <1>1, IdleTypes, ClockTypes DEF MatchClockExpired, EnterPhase, GameState
<1>2. CASE HostAdvance
  BY <1>2 DEF HostAdvance, EnterPhase, GameState
<1>3. CASE HostRestartMatch
  <2>1. roundInCycle' \in 0..RoundCap /\ cooldown' \in 0..AccusationCooldown
    BY <1>3, ConstantsAssumption DEF HostRestartMatch, ClearMatch, RoundCap
  <2>2. clock' \in Clock /\ round' \in Round /\ special' \in Special /\ accusation' \in Accusation
    BY <1>3, IdleTypes, ClockTypes DEF HostRestartMatch, ClearMatch
  <2>3. hacksRemaining' \in [Player -> 0..2] /\ hackerCount' \in Nat
    BY <1>3 DEF HostRestartMatch
  <2> QED BY <1>3, <2>1, <2>2, <2>3 DEF HostRestartMatch, ClearMatch, EnterPhase, GameState
<1>4. CASE CloseRoom
  BY <1>4 DEF CloseRoom, EnterPhase, GameState
<1>5. ASSUME NEW p \in Player, RequestRematch(p) PROVE TypeOK'
  BY <1>5 DEF RequestRematch
<1> QED BY <1>1, <1>2, <1>3, <1>4, <1>5 DEF EndEvent

\* Time passing keeps the room well typed.
LEMMA TickType == ASSUME TypeOK, Tick PROVE TypeOK'
<1>1. clock' \in Clock
  BY ClockTypes DEF Tick, TypeOK
<1>2. cooldown' \in 0..AccusationCooldown
  BY ConstantsAssumption DEF Tick, TypeOK, AtLeastZero
<1> QED
  BY <1>1, <1>2
  DEF Tick, TypeOK, phaseVars, rosterVars, roleVars, adminVars, roundVars, specialVars

\* TypeOK is inductive.
LEMMA TypeStep == ASSUME TypeOK, [Next]_vars PROVE TypeOK'
<1>1. ASSUME UNCHANGED vars PROVE TypeOK'
  BY <1>1
  DEF TypeOK, vars, phaseVars, rosterVars, roleVars, adminVars, roundVars, specialVars,
      verdictVars, blameVars
<1> QED
  BY <1>1, RosterEventType, SetupEventType, RoundEventType, SpecialEventType,
     AccusationEventType, EndEventType, TickType
  DEF Next

\* Every state of every execution is well typed: no event, in whatever order,
\* drives a charge count, a clock, a cooldown or a round counter out of range.
THEOREM TypeCorrect == Spec => []TypeOK
<1>1. Init => TypeOK
  BY TypeInit
<1>2. TypeOK /\ [Next]_vars => TypeOK'
  BY TypeStep
<1> QED BY <1>1, <1>2, PTL DEF Spec
-----------------------------------------------------------------------------
(* The records, the clock and the verdict follow the phase.                *)
(*                                                                         *)
(* RecordsFollowPhase and ClockFollowsPhase say nothing of a closed room,  *)
(* and yet a clock expiry can leave it; the conjuncts below carry what has *)
(* to survive the closing, and what a rematch and the special game rely    *)
(* on.  Together with TypeOK the six are inductive.                        *)

\* Also of a closed room: a match that has a winner has no clock to run.
VerdictStopsClock == winner # "none" => clock.status = "stopped"

\* The special game is marked as used before it is announced, and has no
\* earlier outcome: it is the first of the match.
SpecialGameIsLocked ==
    /\ state \in SpecialState => specialUsed
    /\ state \in {"SPECIAL_GAME_INTRO", "SPECIAL_GAME_PLAY"} => lastSpecial = "none"

\* A room that is about to start has no special game behind it.
LobbyIsFresh == state = "LOBBY" => lastSpecial = "none"

PhaseInv ==
    /\ RecordsFollowPhase
    /\ ClockFollowsPhase
    /\ FirewallIsEarned
    /\ VerdictStopsClock
    /\ SpecialGameIsLocked
    /\ LobbyIsFresh

\* The status each operation of the match clock leaves.
LEMMA ClockStatuses ==
    /\ InitMatchClock.status = "pending"
    /\ StartMatchClock(ClockTotal).status = "running"
    /\ \A c \in Clock :
          /\ c.status = "running" => PauseMatchClock(c).status = "paused"
          /\ c.status = "paused" => ResumeMatchClock(c).status = "running"
          /\ StopMatchClock(c).status = "stopped"
          /\ TickMatchClock(c).status = c.status
          /\ \A ms \in Nat : ApplyPenalty(c, ms).status = c.status
BY DEF Clock, InitMatchClock, StartMatchClock, PauseMatchClock, ResumeMatchClock, StopMatchClock,
       TickMatchClock, ApplyPenalty

\* What the idle records say of their own absence.
LEMMA IdleFields ==
    /\ NoRound.active = FALSE /\ NoRound.started = FALSE
    /\ NoSpecial.active = FALSE /\ NoSpecial.started = FALSE
    /\ NoAccusation.initiator = NoPlayer
BY DEF NoRound, NoSpecial, NoAccusation

\* A new room satisfies PhaseInv.
LEMMA PhaseInit == Init => PhaseInv
BY IdleFields, ClockStatuses
DEF Init, PhaseInv, RecordsFollowPhase, ClockFollowsPhase, FirewallIsEarned, VerdictStopsClock,
    SpecialGameIsLocked, LobbyIsFresh, RoundState, SpecialState, AccusationState, OverState,
    InvestigationState, AccusationAllowed

\* Steps that keep to their phase and touch none of the records the phase governs.
LEMMA PhaseUnchanged ==
    ASSUME PhaseInv,
           UNCHANGED <<state, round, special, specialUsed, lastSpecial, firewall, clock, accusation,
                       winner>>
    PROVE  PhaseInv'
BY DEF PhaseInv, RecordsFollowPhase, ClockFollowsPhase, FirewallIsEarned, VerdictStopsClock,
       SpecialGameIsLocked, LobbyIsFresh

\* Starting a match, up to the first selection, keeps PhaseInv.
LEMMA SetupEventPhase == ASSUME TypeOK, PhaseInv, SetupEvent PROVE PhaseInv'
<1> USE DEF PhaseInv, RecordsFollowPhase, ClockFollowsPhase, FirewallIsEarned, VerdictStopsClock,
            SpecialGameIsLocked, LobbyIsFresh, RoundState, SpecialState, AccusationState,
            OverState, InvestigationState, AccusationAllowed, phaseVars, rosterVars, roleVars,
            adminVars, roundVars, specialVars, verdictVars, blameVars
<1>1. CASE HostStartGame
  BY <1>1, ClockStatuses DEF HostStartGame, AssignRoles, EnterPhase
<1>2. CASE HostStartRematch
  BY <1>2, ClockStatuses, IdleFields DEF HostStartRematch, ClearMatch, AssignRoles, EnterPhase
<1>3. ASSUME state = "ROLE_REVEAL", EnterGameIntro PROVE PhaseInv'
  BY <1>3 DEF EnterGameIntro, EnterPhase
<1>4. ASSUME NEW p \in Player, AcknowledgeReveal(p) PROVE PhaseInv'
  BY <1>3, <1>4 DEF AcknowledgeReveal
<1>5. CASE RoleRevealOver
  BY <1>3, <1>5 DEF RoleRevealOver
<1>6. CASE GameIntroOver
  BY <1>6, ClockStatuses DEF GameIntroOver, EnterMinigameSelect, EnterPhase
<1> QED BY <1>1, <1>2, <1>4, <1>5, <1>6 DEF SetupEvent

\* The events of a normal round keep PhaseInv.
LEMMA RoundEventPhase == ASSUME TypeOK, PhaseInv, RoundEvent PROVE PhaseInv'
<1> USE DEF PhaseInv, RecordsFollowPhase, ClockFollowsPhase, FirewallIsEarned, VerdictStopsClock,
            SpecialGameIsLocked, LobbyIsFresh, RoundState, SpecialState, AccusationState,
            OverState, InvestigationState, AccusationAllowed, phaseVars, rosterVars, roleVars,
            adminVars, roundVars, specialVars, verdictVars, blameVars
<1>1. ASSUME NEW g, NEW ids, AdminSelectMinigame(g, ids) \/ AutoSelect(g, ids) PROVE PhaseInv'
  <2>1. state = "MINIGAME_SELECT" /\ BeginRound(g, ids)
    BY <1>1 DEF AdminSelectMinigame, MaySelect, AutoSelect
  <2>2. round'.active = TRUE /\ round'.started = firewall
    BY <2>1 DEF BeginRound
  <2> QED BY <2>1, <2>2 DEF BeginRound, HackWindowPhase, EnterPhase, TypeOK
<1>2. ASSUME NEW p \in Player, NEW t \in Player, SubmitHack(p, t) PROVE PhaseInv'
  <2>1. round'.active = round.active /\ round'.started = round.started
    BY <1>2 DEF SubmitHack, TypeOK, Round
  <2> QED BY <1>2, <2>1 DEF SubmitHack
<1>3. CASE HackWindowOver
  <2>1. round'.active = round.active /\ round'.started = TRUE
    BY <1>3 DEF HackWindowOver, TypeOK, Round
  <2> QED BY <1>3, <2>1 DEF HackWindowOver, NextRoundPhase, EnterPhase
<1>4. CASE InstructionsOver
  BY <1>4 DEF InstructionsOver, NextRoundPhase, EnterPhase
<1>5. CASE CompleteMinigame
  BY <1>5 DEF CompleteMinigame, NextRoundPhase, EnterPhase
<1>6. CASE ResultsOver
  BY <1>6, IdleFields DEF ResultsOver, NextRoundPhase, EnterPhase
<1>7. CASE DiscussionOver
  <2>1. CASE SpecialGameDue /\ BeginSpecialGame
    <3>1. special'.active = TRUE /\ special'.started = FALSE
      BY <2>1 DEF BeginSpecialGame
    <3>2. clock'.status = "paused"
      BY <1>7, <2>1, ClockStatuses DEF DiscussionOver, BeginSpecialGame, TypeOK
    <3>3. state = "DISCUSSION" /\ ~specialUsed
      BY <1>7, <2>1 DEF DiscussionOver, SpecialGameDue
    <3> QED BY <2>1, <3>1, <3>2, <3>3 DEF BeginSpecialGame, EnterPhase
  <2>2. CASE ~SpecialGameDue
    BY <1>7, <2>2 DEF DiscussionOver, EnterMinigameSelect, EnterPhase
  <2> QED BY <1>7, <2>1, <2>2 DEF DiscussionOver
<1> QED BY <1>1, <1>2, <1>3, <1>4, <1>5, <1>6, <1>7 DEF RoundEvent

\* The events of the special game keep PhaseInv.
LEMMA SpecialEventPhase == ASSUME TypeOK, PhaseInv, SpecialEvent PROVE PhaseInv'
<1> USE DEF PhaseInv, RecordsFollowPhase, ClockFollowsPhase, FirewallIsEarned, VerdictStopsClock,
            SpecialGameIsLocked, LobbyIsFresh, RoundState, SpecialState, AccusationState,
            OverState, InvestigationState, AccusationAllowed, phaseVars, rosterVars, roleVars,
            adminVars, roundVars, specialVars, verdictVars, blameVars
<1>1. CASE SpecialIntroOver
  <2>1. special'.active = special.active /\ special'.started = special.active
    BY <1>1 DEF SpecialIntroOver, TypeOK, Special
  <2> QED BY <1>1, <2>1 DEF SpecialIntroOver, EnterPhase
<1>2. CASE CompleteSpecialGame
  BY <1>2 DEF CompleteSpecialGame, EnterPhase
<1>3. CASE SpecialResultOver
  <2> DEFINE charged == IF lastSpecial = "failure" THEN ApplyPenalty(clock, FailPenalty) ELSE clock
  <2>1. charged \in Clock /\ charged.status = "paused"
    <3>1. clock \in Clock /\ clock.status = "paused"
      BY <1>3 DEF SpecialResultOver, TypeOK
    <3>2. /\ ApplyPenalty(clock, FailPenalty) \in Clock
          /\ ApplyPenalty(clock, FailPenalty).status = "paused"
      BY <3>1, ClockTypes, ClockStatuses, ConstantsAssumption
    <3> QED BY <3>1, <3>2
  <2>2. CASE EnterPhase("FINAL_RESULTS")
    <3>1. clock'.status = "stopped" /\ winner' = "hackers" /\ firewall' = firewall
      BY <1>3, <2>1, <2>2, ClockStatuses DEF SpecialResultOver, EnterMinigameSelect, EnterPhase
    <3> QED BY <1>3, <2>2, <3>1, IdleFields DEF SpecialResultOver, EnterPhase
  <2>3. CASE EnterMinigameSelect
    <3>1. /\ clock'.status = "running" /\ winner' = winner
          /\ firewall' = (firewall \/ lastSpecial = "success")
      BY <1>3, <2>1, <2>3, ClockStatuses DEF SpecialResultOver, EnterMinigameSelect, EnterPhase
    <3> QED BY <1>3, <2>3, <3>1, IdleFields DEF SpecialResultOver, EnterMinigameSelect, EnterPhase
  <2> QED BY <1>3, <2>2, <2>3 DEF SpecialResultOver
<1> QED BY <1>1, <1>2, <1>3 DEF SpecialEvent

\* The way back from an accusation leads to MINIGAME_SELECT.
LEMMA ReturnPhase ==
    ASSUME NEW origin, ReturnToGameplay(origin)
    PROVE  state' = "MINIGAME_SELECT"
BY DEF ReturnToGameplay, EnterMinigameSelect, EnterPhase

\* Resolving a vote, either way, keeps PhaseInv.
LEMMA ResolveVotePhase ==
    ASSUME TypeOK, PhaseInv, state = "ACCUSATION_VOTE", NEW acc, ResolveAccusationVote(acc)
    PROVE  PhaseInv'
<1> USE DEF PhaseInv, RecordsFollowPhase, ClockFollowsPhase, FirewallIsEarned, VerdictStopsClock,
            SpecialGameIsLocked, LobbyIsFresh, RoundState, SpecialState, AccusationState,
            OverState, InvestigationState, AccusationAllowed, roundVars, specialVars, verdictVars
<1>1. CASE RejectAccusation(acc)
  BY <1>1, ReturnPhase, IdleFields DEF RejectAccusation, ResolveAccusationVote
<1>2. CASE ApproveAccusation(acc)
  <2>1. clock'.status = "stopped" /\ winner' \in {"crew", "hackers"}
    BY <1>2, ClockStatuses DEF ApproveAccusation, TypeOK
  <2> QED BY <1>2, <2>1, IdleFields DEF ApproveAccusation, ResolveAccusationVote, EnterPhase
<1> QED BY <1>1, <1>2 DEF ResolveAccusationVote

\* The events of an accusation keep PhaseInv.
LEMMA AccusationEventPhase == ASSUME TypeOK, PhaseInv, AccusationEvent PROVE PhaseInv'
<1> USE DEF PhaseInv, RecordsFollowPhase, ClockFollowsPhase, FirewallIsEarned, VerdictStopsClock,
            SpecialGameIsLocked, LobbyIsFresh, RoundState, SpecialState, AccusationState,
            OverState, InvestigationState, AccusationAllowed, roundVars, specialVars, verdictVars
<1>1. ASSUME NEW p \in Player, PushButton(p) PROVE PhaseInv'
  <2>1. accusation'.initiator # NoPlayer
    BY <1>1, ConstantsAssumption DEF PushButton, NoAccusation
  <2> QED BY <1>1, <2>1 DEF PushButton, MayPushButton, EnterPhase
<1>2. ASSUME NEW p \in Player, NEW S \in SUBSET Player, SubmitAccusation(p, S) PROVE PhaseInv'
  <2>1. accusation'.initiator = accusation.initiator
    BY <1>2 DEF SubmitAccusation, TypeOK, Accusation
  <2> QED BY <1>2, <2>1 DEF SubmitAccusation, MayAccuse, EnterPhase
<1>3. CASE AccusationCancelled
  BY <1>3, ReturnPhase, IdleFields DEF AccusationCancelled
<1>4. ASSUME NEW p \in Player, NEW v \in {"APPROVE", "REJECT"}, SubmitAccusationVote(p, v)
      PROVE  PhaseInv'
  <2> DEFINE acc == IF v = "APPROVE" THEN [accusation EXCEPT !.approve = @ \cup {p}]
                                     ELSE [accusation EXCEPT !.reject = @ \cup {p}]
  <2>1. acc.initiator = accusation.initiator
    BY DEF TypeOK, Accusation
  <2>2. CASE ResolveAccusationVote(acc)
    BY <1>4, <2>2, ResolveVotePhase DEF SubmitAccusationVote, MayVote
  <2>3. CASE ~ResolveAccusationVote(acc)
    <3>1. accusation'.initiator = accusation.initiator
      BY <1>4, <2>1, <2>3 DEF SubmitAccusationVote
    <3>2. UNCHANGED <<state, round, special, specialUsed, lastSpecial, firewall, clock, winner>>
      BY <1>4, <2>3 DEF SubmitAccusationVote
    <3> QED BY <3>1, <3>2
  <2> QED BY <2>2, <2>3
<1>5. CASE AccusationVoteOver
  BY <1>5, ResolveVotePhase DEF AccusationVoteOver
<1> QED BY <1>1, <1>2, <1>3, <1>4, <1>5 DEF AccusationEvent

\* The end of a match and what follows it keep PhaseInv.
LEMMA EndEventPhase == ASSUME TypeOK, PhaseInv, EndEvent PROVE PhaseInv'
<1> USE DEF PhaseInv, RecordsFollowPhase, ClockFollowsPhase, FirewallIsEarned, VerdictStopsClock,
            SpecialGameIsLocked, LobbyIsFresh, RoundState, SpecialState, AccusationState,
            OverState, InvestigationState, AccusationAllowed, phaseVars, rosterVars, roleVars,
            adminVars, roundVars, specialVars, verdictVars, blameVars
<1>1. CASE MatchClockExpired
  <2>1. clock'.status = "stopped"
    BY <1>1, ClockStatuses DEF MatchClockExpired, TypeOK
  <2> QED BY <1>1, <2>1, IdleFields DEF MatchClockExpired, EnterPhase
<1>2. CASE HostAdvance
  BY <1>2 DEF HostAdvance, EnterPhase
<1>3. CASE HostRestartMatch
  BY <1>3, IdleFields, ClockStatuses DEF HostRestartMatch, ClearMatch, EnterPhase
<1>4. CASE CloseRoom
  BY <1>4 DEF CloseRoom, EnterPhase
<1>5. ASSUME NEW p \in Player, RequestRematch(p) PROVE PhaseInv'
  BY <1>5, PhaseUnchanged DEF RequestRematch
<1> QED BY <1>1, <1>2, <1>3, <1>4, <1>5 DEF EndEvent

\* PhaseInv is inductive in well-typed rooms.
LEMMA PhaseStep == ASSUME TypeOK, PhaseInv, [Next]_vars PROVE PhaseInv'
<1>1. CASE RosterEvent
  BY <1>1, PhaseUnchanged
  DEF RosterEvent, JoinPlayer, LeavePlayer, PlayerDisconnected, PlayerReconnected, phaseVars,
      roundVars, specialVars, verdictVars, blameVars
<1>2. CASE Tick
  <2>1. clock'.status = clock.status
    BY <1>2, ClockStatuses DEF Tick, TypeOK
  <2> QED
    BY <1>2, <2>1
    DEF Tick, PhaseInv, RecordsFollowPhase, ClockFollowsPhase, FirewallIsEarned,
        VerdictStopsClock, SpecialGameIsLocked, LobbyIsFresh, phaseVars, roundVars, specialVars
<1>3. CASE UNCHANGED vars
  BY <1>3, PhaseUnchanged
  DEF vars, phaseVars, roundVars, specialVars, verdictVars, blameVars
<1> QED
  BY <1>1, <1>2, <1>3, SetupEventPhase, RoundEventPhase, SpecialEventPhase, AccusationEventPhase,
     EndEventPhase
  DEF Next

\* TypeOK and PhaseInv hold in every state.
LEMMA PhaseInvariant == Spec => [](TypeOK /\ PhaseInv)
<1>1. Init => TypeOK /\ PhaseInv
  BY TypeInit, PhaseInit
<1>2. TypeOK /\ PhaseInv /\ [Next]_vars => (TypeOK /\ PhaseInv)'
  BY TypeStep, PhaseStep
<1> QED BY <1>1, <1>2, PTL DEF Spec

\* In every execution the round, special-game and accusation records exist
\* exactly in the phases they belong to, whichever event ended the phase.
THEOREM RecordsCorrect == Spec => []RecordsFollowPhase
BY PhaseInvariant, PTL DEF PhaseInv

\* In every execution the match clock runs, is paused and stops with the
\* phase, and there is a winner exactly when the match is over.
THEOREM ClockCorrect == Spec => []ClockFollowsPhase
BY PhaseInvariant, PTL DEF PhaseInv

\* In every execution a firewall comes from a won special game of this match,
\* and no hack window opens under it.
THEOREM FirewallCorrect == Spec => []FirewallIsEarned
BY PhaseInvariant, PTL DEF PhaseInv

\* Any one step respects a verdict already given.
LEMMA VerdictStep ==
    ASSUME TypeOK, PhaseInv, [Next]_vars, winner # "none"
    PROVE  \/ winner' = winner /\ clock' = clock
           \/ state \in OverState /\ state' \in {"LOBBY", "ROLE_REVEAL"} /\ winner' = "none"
<1>1. clock.status = "stopped" /\ state \in OverState \cup {"ABANDONED"}
  BY DEF PhaseInv, VerdictStopsClock, ClockFollowsPhase
<1>2. CASE RosterEvent
  BY <1>2
  DEF RosterEvent, JoinPlayer, LeavePlayer, PlayerDisconnected, PlayerReconnected, verdictVars
<1>3. CASE SetupEvent
  BY <1>1, <1>3
  DEF SetupEvent, HostStartGame, HostStartRematch, ClearMatch, AssignRoles, EnterPhase,
      AcknowledgeReveal, RoleRevealOver, GameIntroOver, OverState
<1>4. CASE RoundEvent
  BY <1>1, <1>4
  DEF RoundEvent, AdminSelectMinigame, MaySelect, AutoSelect, SubmitHack, MayHack,
      HackWindowOver, InstructionsOver, CompleteMinigame, ResultsOver, DiscussionOver, NextRoundPhase, OverState
<1>5. CASE SpecialEvent
  BY <1>1, <1>5
  DEF SpecialEvent, SpecialIntroOver, CompleteSpecialGame, SpecialResultOver, OverState
<1>6. CASE AccusationEvent
  BY <1>1, <1>6
  DEF AccusationEvent, PushButton, MayPushButton, SubmitAccusation, MayAccuse,
      AccusationCancelled, SubmitAccusationVote, MayVote, AccusationVoteOver, AccusationAllowed, OverState
<1>7. CASE EndEvent
  BY <1>1, <1>7
  DEF EndEvent, MatchClockExpired, HostAdvance, HostRestartMatch, ClearMatch, EnterPhase,
      CloseRoom, RequestRematch, verdictVars, OverState
<1>8. CASE Tick
  BY <1>1, <1>8 DEF Tick, TickMatchClock
<1>9. CASE UNCHANGED vars
  BY <1>9 DEF vars, verdictVars
<1> QED BY <1>2, <1>3, <1>4, <1>5, <1>6, <1>7, <1>8, <1>9 DEF Next

\* In every execution a verdict is final: no event but the host starting over
\* changes the winner or the stopped clock.
THEOREM VerdictIsFinal == Spec => VerdictStands
<1>1. TypeOK /\ PhaseInv /\ [Next]_vars =>
        [winner # "none" =>
          \/ winner' = winner /\ clock' = clock
          \/ state \in OverState /\ state' \in {"LOBBY", "ROLE_REVEAL"} /\ winner' = "none"]_vars
  BY VerdictStep
<1> QED BY <1>1, PhaseInvariant, PTL DEF Spec, VerdictStands

-----------------------------------------------------------------------------
(* The firewall *)

\* A step that takes a firewall away is the start of the round it protects,
\* or of another match.
LEMMA FirewallStep ==
    ASSUME TypeOK, PhaseInv, [Next]_vars, firewall, ~firewall'
    PROVE  \/ state' = "MINIGAME_INSTRUCTIONS" /\ round'.started /\ round'.hacked = {}
           \/ state \in OverState /\ state' \in {"LOBBY", "ROLE_REVEAL"}
<1> USE DEF TypeOK
<1>1. CASE RosterEvent
  BY <1>1 DEF RosterEvent, JoinPlayer, LeavePlayer, PlayerDisconnected, PlayerReconnected
<1>2. CASE SetupEvent
  <2>1. state # "LOBBY"
    BY DEF PhaseInv, LobbyIsFresh, FirewallIsEarned
  <2> QED
    BY <1>2, <2>1
    DEF SetupEvent, HostStartGame, HostStartRematch, AssignRoles, AcknowledgeReveal, EnterGameIntro,
        RoleRevealOver, GameIntroOver, EnterPhase, OverState
<1>3. CASE RoundEvent
  <2>1. ASSUME NEW g, NEW ids, BeginRound(g, ids)
        PROVE  state' = "MINIGAME_INSTRUCTIONS" /\ round'.started /\ round'.hacked = {}
    BY <2>1 DEF BeginRound, HackWindowPhase, EnterPhase
  <2> QED
    BY <1>3, <2>1
    DEF RoundEvent, AdminSelectMinigame, AutoSelect, SubmitHack, HackWindowOver, InstructionsOver,
        CompleteMinigame, ResultsOver, DiscussionOver, BeginSpecialGame, NextRoundPhase
<1>4. CASE SpecialEvent
  BY <1>4
  DEF SpecialEvent, SpecialIntroOver, CompleteSpecialGame, SpecialResultOver
<1>5. CASE AccusationEvent
  BY <1>5
  DEF AccusationEvent, PushButton, SubmitAccusation, AccusationCancelled, SubmitAccusationVote,
      AccusationVoteOver, ResolveAccusationVote
<1>6. CASE EndEvent
  BY <1>6
  DEF EndEvent, MatchClockExpired, HostAdvance, HostRestartMatch, EnterPhase, CloseRoom,
      RequestRematch
<1>7. CASE Tick
  BY <1>7 DEF Tick
<1>8. CASE UNCHANGED vars
  BY <1>8 DEF vars
<1> QED BY <1>1, <1>2, <1>3, <1>4, <1>5, <1>6, <1>7, <1>8 DEF Next

\* In every execution a firewall protects one round, with no hack window and
\* nobody hacked, and is lost in no other way but by starting over.
THEOREM FirewallIsSpentOnce == Spec => FirewallBlocksOneRound
<1>1. TypeOK /\ PhaseInv /\ [Next]_vars =>
        [firewall /\ ~firewall' =>
          \/ state' = "MINIGAME_INSTRUCTIONS" /\ round'.started /\ round'.hacked = {}
          \/ state \in OverState /\ state' \in {"LOBBY", "ROLE_REVEAL"}]_vars
  BY FirewallStep
<1> QED BY <1>1, PhaseInvariant, PTL DEF Spec, FirewallBlocksOneRound

-----------------------------------------------------------------------------
(* The verdict *)

\* What VerdictIsEarned asks of a step that gives a verdict, in two halves.
EarnedByTime ==
    \/ OutOfTime /\ winner' = "hackers"
    \/ /\ state = "SPECIAL_GAME_RESULT" /\ lastSpecial = "failure"
       /\ clock.remaining <= FailPenalty /\ winner' = "hackers"

EarnedByVote ==
    /\ state = "ACCUSATION_VOTE"
    /\ \E late \in SUBSET (accusation.voters \ submitted) :
          /\ Cardinality(late) <= 1
          /\ 2 * Cardinality(accusation.approve \cup late) > Cardinality(accusation.voters)
    /\ winner' = IF accusation.suspects = hackers THEN "crew" ELSE "hackers"

\* A vote that gives a verdict had a strict majority, counting the last vote.
LEMMA VoteStep ==
    ASSUME TypeOK, AccusationEvent, winner = "none", winner' # "none"
    PROVE  EarnedByVote
<1>1. ASSUME NEW acc, ResolveAccusationVote(acc)
      PROVE  /\ StrictMajority(acc)
             /\ winner' = IF acc.suspects = hackers THEN "crew" ELSE "hackers"
  BY <1>1 DEF ResolveAccusationVote, RejectAccusation, ApproveAccusation, verdictVars
<1>2. Cardinality({}) <= 1 /\ \A p : Cardinality({p}) <= 1
  <2>1. Cardinality({}) = 0
    BY FS_EmptySet, Zenon
  <2>2. ASSUME NEW p PROVE Cardinality({p}) = 1
    BY FS_Singleton, Zenon
  <2> QED BY <2>1, <2>2
<1>3. ASSUME NEW p \in Player, NEW v \in {"APPROVE", "REJECT"}, SubmitAccusationVote(p, v)
      PROVE  EarnedByVote
  <2> DEFINE acc == IF v = "APPROVE" THEN [accusation EXCEPT !.approve = @ \cup {p}]
                                     ELSE [accusation EXCEPT !.reject = @ \cup {p}]
             late == IF v = "APPROVE" THEN {p} ELSE {}
  <2>1. state = "ACCUSATION_VOTE" /\ p \in accusation.voters \ submitted
    BY <1>3 DEF SubmitAccusationVote, MayVote
  <2>2. ResolveAccusationVote(acc)
    BY <1>3 DEF SubmitAccusationVote, verdictVars
  <2>3. /\ acc.suspects = accusation.suspects
        /\ acc.voters = accusation.voters
        /\ acc.approve = accusation.approve \cup late
    BY DEF TypeOK, Accusation
  <2>4. late \in SUBSET (accusation.voters \ submitted) /\ Cardinality(late) <= 1
    BY <1>2, <2>1
  <2> HIDE DEF acc, late
  <2> QED BY <1>1, <2>1, <2>2, <2>3, <2>4 DEF StrictMajority, EarnedByVote
<1>4. CASE AccusationVoteOver
  <2>1. state = "ACCUSATION_VOTE" /\ ResolveAccusationVote(accusation)
    BY <1>4 DEF AccusationVoteOver
  <2>2. accusation.approve \cup {} = accusation.approve
    OBVIOUS
  <2> QED BY <1>1, <1>2, <2>1, <2>2 DEF StrictMajority, EarnedByVote
<1> QED
  BY <1>3, <1>4
  DEF AccusationEvent, PushButton, SubmitAccusation, AccusationCancelled, verdictVars

\* A failed special game that gives a verdict cost all the time left.
LEMMA PenaltyStep ==
    ASSUME TypeOK, SpecialEvent, winner = "none", winner' # "none"
    PROVE  EarnedByTime
<1>1. SpecialResultOver
  BY DEF SpecialEvent, SpecialIntroOver, CompleteSpecialGame, verdictVars
<1>2. /\ state = "SPECIAL_GAME_RESULT" /\ lastSpecial = "failure" /\ winner' = "hackers"
      /\ ApplyPenalty(clock, FailPenalty).remaining <= 0
  BY <1>1 DEF SpecialResultOver
<1>3. ApplyPenalty(clock, FailPenalty).remaining = AtLeastZero(clock.remaining - FailPenalty)
  BY DEF ApplyPenalty, TypeOK, Clock
<1>4. clock.remaining \in Nat /\ FailPenalty \in Nat
  BY ConstantsAssumption DEF TypeOK, Clock
<1>5. clock.remaining <= FailPenalty
  BY <1>2, <1>3, <1>4 DEF AtLeastZero
<1> QED BY <1>2, <1>5 DEF EarnedByTime

\* A step that gives a verdict gives it for one of the three reasons.
LEMMA EarnedStep ==
    ASSUME TypeOK, [Next]_vars, winner = "none", winner' # "none"
    PROVE  EarnedByTime \/ EarnedByVote
<1>1. CASE RosterEvent
  BY <1>1
  DEF RosterEvent, JoinPlayer, LeavePlayer, PlayerDisconnected, PlayerReconnected, verdictVars
<1>2. CASE SetupEvent
  BY <1>2
  DEF SetupEvent, HostStartGame, HostStartRematch, ClearMatch, AcknowledgeReveal, EnterGameIntro,
      RoleRevealOver, GameIntroOver, verdictVars
<1>3. CASE RoundEvent
  BY <1>3
  DEF RoundEvent, AdminSelectMinigame, AutoSelect, BeginRound, SubmitHack, HackWindowOver,
      InstructionsOver, CompleteMinigame, ResultsOver, DiscussionOver, BeginSpecialGame,
      NextRoundPhase, verdictVars
<1>4. CASE EndEvent
  BY <1>4
  DEF EndEvent, MatchClockExpired, HostAdvance, HostRestartMatch, ClearMatch, CloseRoom,
      RequestRematch, verdictVars, EarnedByTime, OutOfTime
<1>5. CASE Tick
  BY <1>5 DEF Tick
<1>6. CASE UNCHANGED vars
  BY <1>6 DEF vars, verdictVars
<1> QED BY <1>1, <1>2, <1>3, <1>4, <1>5, <1>6, VoteStep, PenaltyStep DEF Next

\* In every execution a match is won by time, by a penalty that left none, or
\* by a strict majority of a vote, and by the right side.
THEOREM VerdictHasAReason == Spec => VerdictIsEarned
<1>1. TypeOK /\ [Next]_vars =>
        [winner = "none" /\ winner' # "none" =>
          \/ OutOfTime /\ winner' = "hackers"
          \/ /\ state = "SPECIAL_GAME_RESULT" /\ lastSpecial = "failure"
             /\ clock.remaining <= FailPenalty /\ winner' = "hackers"
          \/ /\ state = "ACCUSATION_VOTE"
             /\ \E late \in SUBSET (accusation.voters \ submitted) :
                   /\ Cardinality(late) <= 1
                   /\ 2 * Cardinality(accusation.approve \cup late) > Cardinality(accusation.voters)
             /\ winner' = IF accusation.suspects = hackers THEN "crew" ELSE "hackers"]_vars
  BY EarnedStep DEF EarnedByTime, EarnedByVote
<1> QED BY <1>1, TypeCorrect, PTL DEF Spec, VerdictIsEarned

-----------------------------------------------------------------------------
(* The hacks *)

\* A round that is not there carries no hacks over: with RecordsFollowPhase,
\* no hack outlives its round, and roles only change where there is no round.
HackInv == HackAccounting /\ (~round.active => round = NoRound)

\* Steps that leave round, roles and charges alone keep HackInv.
LEMMA HackUnchanged ==
    ASSUME HackInv, UNCHANGED <<round, hackers, hacksRemaining>>
    PROVE  HackInv'
BY DEF HackInv, HackAccounting

\* Steps that leave or enter no round at all, with roles as they were.
LEMMA HackNoRound ==
    ASSUME HackInv, round' = NoRound, UNCHANGED <<hackers, hacksRemaining>>
    PROVE  HackInv'
BY DEF HackInv, HackAccounting, NoRound

\* Roles are dealt and taken back between rounds, and charges with them.
LEMMA HackRoles ==
    ASSUME round' = NoRound, \A p \in Player : hacksRemaining'[p] > 0 => p \in hackers'
    PROVE  HackInv'
BY DEF HackInv, HackAccounting, NoRound

\* Starting a match deals charges to Hackers only.
LEMMA SetupEventHack == ASSUME TypeOK, PhaseInv, HackInv, SetupEvent PROVE HackInv'
<1>1. ASSUME NEW budget, AssignRoles(budget), \A p \in Player \ players : ~(budget[p] > 0)
      PROVE  \A p \in Player : hacksRemaining'[p] > 0 => p \in hackers'
  <2>1. PICK H \in SUBSET players :
             /\ hackers' = H
             /\ hacksRemaining' = [p \in Player |-> IF p \in H THEN 2
                                                    ELSE IF p \in players THEN 0
                                                    ELSE budget[p]]
    BY <1>1 DEF AssignRoles
  <2> QED BY <1>1, <2>1
<1>2. CASE HostStartGame
  <2>1. round' = NoRound
    BY <1>2
    DEF HostStartGame, PhaseInv, RecordsFollowPhase, RoundState, HackInv
  <2>2. AssignRoles(hacksRemaining)
    BY <1>2 DEF HostStartGame
  <2>3. \A p \in Player \ players : ~(hacksRemaining[p] > 0)
    BY DEF HackInv, HackAccounting, TypeOK
  <2> QED BY <1>1, <2>1, <2>2, <2>3, HackRoles
<1>3. CASE HostStartRematch
  <2> DEFINE none == [p \in Player |-> 0]
  <2>1. round' = NoRound
    BY <1>3 DEF HostStartRematch, ClearMatch
  <2>2. AssignRoles(none)
    BY <1>3 DEF HostStartRematch
  <2>3. \A p \in Player \ players : ~(none[p] > 0)
    OBVIOUS
  <2> HIDE DEF none
  <2> QED BY <1>1, <2>1, <2>2, <2>3, HackRoles
<1>4. CASE ~HostStartGame /\ ~HostStartRematch
  <2>1. UNCHANGED <<round, hackers, hacksRemaining>>
    BY <1>4
    DEF SetupEvent, AcknowledgeReveal, EnterGameIntro, RoleRevealOver, GameIntroOver, roleVars,
        roundVars
  <2> QED BY <2>1, HackUnchanged
<1> QED BY <1>2, <1>3, <1>4

\* One hack adds one target and one used action, and takes one charge.
LEMMA SubmitHackCounts ==
    ASSUME TypeOK, HackInv, NEW p \in Player, NEW t \in Player, SubmitHack(p, t)
    PROVE  HackInv'
<1>1. /\ round.active
      /\ p \in hackers /\ p \notin round.used
      /\ t \in round.participants /\ t \notin round.hacked
      /\ hacksRemaining[p] > 0
      /\ hackers' = hackers
      /\ hacksRemaining' = [hacksRemaining EXCEPT ![p] = @ - 1]
  BY DEF SubmitHack, MayHack
<1>2. /\ round'.active
      /\ round'.participants = round.participants
      /\ round'.hacked = round.hacked \cup {t}
      /\ round'.used = round.used \cup {p}
  BY <1>1 DEF SubmitHack, TypeOK, Round
<1>3. /\ IsFiniteSet(round.hacked) /\ Cardinality(round.hacked) \in Nat
      /\ IsFiniteSet(round.used) /\ Cardinality(round.used) \in Nat
  <2>1. round.hacked \subseteq Player /\ round.used \subseteq Player
    BY DEF TypeOK, Round
  <2> QED BY <2>1, ConstantsAssumption, FS_Subset, FS_CardinalityType
<1>4. Cardinality(round'.hacked) = Cardinality(round'.used)
  <2>1. Cardinality(round.hacked \cup {t}) = Cardinality(round.hacked) + 1
    BY <1>1, <1>3, FS_AddElement
  <2>2. Cardinality(round.used \cup {p}) = Cardinality(round.used) + 1
    BY <1>1, <1>3, FS_AddElement
  <2> QED BY <1>2, <2>1, <2>2 DEF HackInv, HackAccounting
<1>5. hacksRemaining'[p] < 2 /\ \A q \in Player : hacksRemaining'[q] <= hacksRemaining[q]
  BY <1>1 DEF TypeOK
<1>6. \A q \in round'.used : hacksRemaining'[q] < 2
  <2>1. round.used \subseteq Player /\ hacksRemaining' \in [Player -> Int]
    BY <1>1 DEF TypeOK, Round
  <2> QED BY <1>2, <1>5, <2>1 DEF HackInv, HackAccounting, TypeOK
<1>7. \A q \in Player : hacksRemaining'[q] > 0 => q \in hackers'
  BY <1>1, <1>5 DEF HackInv, HackAccounting, TypeOK
<1> QED BY <1>1, <1>2, <1>4, <1>6, <1>7 DEF HackInv, HackAccounting

\* A round begins without hacks, gathers them, and ends with all of them.
LEMMA RoundEventHack == ASSUME TypeOK, PhaseInv, HackInv, RoundEvent PROVE HackInv'
<1>1. ASSUME NEW g, NEW ids, AdminSelectMinigame(g, ids) \/ AutoSelect(g, ids) PROVE HackInv'
  <2>1. BeginRound(g, ids)
    BY <1>1 DEF AdminSelectMinigame, AutoSelect
  <2>2. /\ round'.active /\ round'.hacked = {} /\ round'.used = {}
        /\ UNCHANGED <<hackers, hacksRemaining>>
    BY <2>1 DEF BeginRound, roleVars
  <2> QED BY <2>2 DEF HackInv, HackAccounting
<1>2. ASSUME NEW p \in Player, NEW t \in Player, SubmitHack(p, t) PROVE HackInv'
  BY <1>2, SubmitHackCounts
<1>3. CASE HackWindowOver
  <2>1. /\ round'.active = round.active /\ round'.participants = round.participants
        /\ round'.hacked = round.hacked /\ round'.used = round.used
        /\ round.active /\ UNCHANGED <<hackers, hacksRemaining>>
    BY <1>3 DEF HackWindowOver, NextRoundPhase, TypeOK, Round, roleVars
  <2> QED BY <2>1 DEF HackInv, HackAccounting
<1>4. CASE InstructionsOver \/ CompleteMinigame
  BY <1>4, HackUnchanged DEF InstructionsOver, CompleteMinigame, NextRoundPhase, roleVars
<1>5. CASE ResultsOver
  BY <1>5, HackNoRound DEF ResultsOver, NextRoundPhase, roleVars
<1>6. CASE DiscussionOver
  BY <1>6, HackUnchanged DEF DiscussionOver, BeginSpecialGame, roleVars, roundVars
<1> QED BY <1>1, <1>2, <1>3, <1>4, <1>5, <1>6 DEF RoundEvent

\* HackInv is inductive in rooms whose records follow the phase.
LEMMA HackStep == ASSUME TypeOK, PhaseInv, HackInv, [Next]_vars PROVE HackInv'
<1>1. CASE RosterEvent
  <2>1. ASSUME NEW p \in Player, LeavePlayer(p) PROVE HackInv'
    <3>1. round' = NoRound
      BY <2>1
      DEF LeavePlayer, LobbyState, PhaseInv, RecordsFollowPhase, RoundState, HackInv, roundVars
    <3>2. \A q \in Player : hacksRemaining'[q] > 0 => q \in hackers'
      BY <2>1 DEF LeavePlayer, HackInv, HackAccounting, TypeOK
    <3> QED BY <3>1, <3>2, HackRoles
  <2>2. ASSUME NEW p \in Player, JoinPlayer(p) \/ PlayerDisconnected(p) \/ PlayerReconnected(p)
        PROVE  HackInv'
    BY <2>2, HackUnchanged
    DEF JoinPlayer, PlayerDisconnected, PlayerReconnected, roleVars, roundVars
  <2> QED BY <1>1, <2>1, <2>2 DEF RosterEvent
<1>2. CASE SetupEvent
  BY <1>2, SetupEventHack
<1>3. CASE RoundEvent
  BY <1>3, RoundEventHack
<1>4. CASE SpecialEvent
  BY <1>4, HackUnchanged
  DEF SpecialEvent, SpecialIntroOver, CompleteSpecialGame, SpecialResultOver, roleVars, roundVars
<1>5. CASE AccusationEvent
  BY <1>5, HackUnchanged
  DEF AccusationEvent, PushButton, SubmitAccusation, AccusationCancelled, SubmitAccusationVote,
      AccusationVoteOver, ResolveAccusationVote, roleVars, roundVars
<1>6. CASE EndEvent
  <2>1. CASE MatchClockExpired
    BY <2>1, HackNoRound DEF MatchClockExpired, roleVars
  <2>2. CASE HostRestartMatch
    <3>1. round' = NoRound /\ hacksRemaining' = [p \in Player |-> 0]
      BY <2>2 DEF HostRestartMatch, ClearMatch
    <3> QED BY <3>1, HackRoles
  <2>3. CASE ~MatchClockExpired /\ ~HostRestartMatch
    BY <1>6, <2>3, HackUnchanged
    DEF EndEvent, HostAdvance, CloseRoom, RequestRematch, roleVars, roundVars
  <2> QED BY <2>1, <2>2, <2>3
<1>7. CASE Tick
  BY <1>7, HackUnchanged DEF Tick, roleVars, roundVars
<1>8. CASE UNCHANGED vars
  BY <1>8, HackUnchanged DEF vars, roleVars, roundVars
<1> QED BY <1>1, <1>2, <1>3, <1>4, <1>5, <1>6, <1>7, <1>8 DEF Next

\* In every execution the hacks of a round are of as many Hackers as there are
\* targets, each of them paid for, whatever the interleaving of the Hackers.
THEOREM HacksAreAccounted == Spec => []HackAccounting
<1>1. Init => HackInv
  BY DEF Init, HackInv, HackAccounting, NoRound
<1>2. TypeOK /\ PhaseInv /\ HackInv /\ [Next]_vars => HackInv'
  BY HackStep
<1>3. HackInv => HackAccounting
  BY DEF HackInv
<1> QED BY <1>1, <1>2, <1>3, PhaseInvariant, PTL DEF Spec

-----------------------------------------------------------------------------
(* The vote *)

\* Where the roles of a match are dealt and its players fixed.
MatchState == GameState \ ({"LOBBY", "ABANDONED"} \cup OverState)

\* The number of suspects to name is the number of Hackers there are, and the
\* record an accusation brings to its vote is that of one fresh press.
VoteInv ==
    /\ state \in MatchState => hackerCount = Cardinality(hackers)
    /\ state \in AccusationState => /\ accusation.required = Cardinality(hackers)
                                    /\ accusation.initiator \in players
    /\ state = "ACCUSATION_SELECT" => accusation.approve = {} /\ accusation.reject = {}
    /\ OpenVoteIsUndecided

\* Steps that leave the vote and what it depends on alone keep VoteInv.
LEMMA VoteUnchanged ==
    ASSUME VoteInv, UNCHANGED <<state, submitted, players, hackers, hackerCount, accusation>>
    PROVE  VoteInv'
BY DEF VoteInv, OpenVoteIsUndecided

\* Steps of a match to a phase other than an accusation's keep VoteInv.
LEMMA VoteElsewhere ==
    ASSUME VoteInv, state' \notin AccusationState,
           state' \in MatchState => state \in MatchState, UNCHANGED <<hackers, hackerCount>>
    PROVE  VoteInv'
BY DEF VoteInv, OpenVoteIsUndecided, AccusationState

\* Nobody joins or leaves during a match.
LEMMA RosterEventVote == ASSUME TypeOK, VoteInv, RosterEvent PROVE VoteInv'
<1>1. ASSUME NEW p \in Player, JoinPlayer(p) \/ LeavePlayer(p) PROVE VoteInv'
  <2>1. state' = state /\ state \notin MatchState \cup AccusationState
    BY <1>1
    DEF JoinPlayer, LeavePlayer, LobbyState, phaseVars, MatchState, OverState, AccusationState
  <2> QED BY <2>1 DEF VoteInv, OpenVoteIsUndecided, AccusationState
<1>2. ASSUME NEW p \in Player, PlayerDisconnected(p) \/ PlayerReconnected(p) PROVE VoteInv'
  BY <1>2, VoteUnchanged
  DEF PlayerDisconnected, PlayerReconnected, phaseVars, roleVars, blameVars
<1> QED BY <1>1, <1>2 DEF RosterEvent

\* Roles are dealt together with their number.
LEMMA SetupEventVote == ASSUME TypeOK, VoteInv, SetupEvent PROVE VoteInv'
<1>1. ASSUME NEW budget, AssignRoles(budget) PROVE VoteInv'
  <2>1. state' = "ROLE_REVEAL" /\ hackerCount' = Cardinality(hackers')
    BY <1>1 DEF AssignRoles, EnterPhase
  <2> QED BY <2>1 DEF VoteInv, OpenVoteIsUndecided, AccusationState
<1>2. ASSUME NEW p \in Player, AcknowledgeReveal(p) PROVE VoteInv'
  <2>1. /\ state = "ROLE_REVEAL" /\ state' \in {"ROLE_REVEAL", "GAME_INTRO"}
        /\ UNCHANGED <<hackers, hackerCount>>
    BY <1>2 DEF AcknowledgeReveal, EnterGameIntro, EnterPhase, roleVars
  <2> QED BY <2>1, VoteElsewhere DEF MatchState, GameState, OverState, AccusationState
<1>3. CASE RoleRevealOver \/ GameIntroOver
  <2>1. /\ state \in {"ROLE_REVEAL", "GAME_INTRO"} /\ state' \in {"GAME_INTRO", "MINIGAME_SELECT"}
        /\ UNCHANGED <<hackers, hackerCount>>
    BY <1>3
    DEF RoleRevealOver, GameIntroOver, EnterGameIntro, EnterMinigameSelect, EnterPhase, roleVars
  <2> QED BY <2>1, VoteElsewhere DEF MatchState, GameState, OverState, AccusationState
<1> QED BY <1>1, <1>2, <1>3 DEF SetupEvent, HostStartGame, HostStartRematch

\* Rounds and the special game go from phase to phase of the match.
LEMMA PlayEventVote == ASSUME TypeOK, VoteInv, RoundEvent \/ SpecialEvent PROVE VoteInv'
<1>1. ASSUME NEW g, NEW ids, AdminSelectMinigame(g, ids) \/ AutoSelect(g, ids)
      PROVE  VoteInv'
  <2>1. /\ state = "MINIGAME_SELECT" /\ state' \in {"HACKER_CORRUPTION", "MINIGAME_INSTRUCTIONS"}
        /\ UNCHANGED <<hackers, hackerCount>>
    BY <1>1
    DEF AdminSelectMinigame, MaySelect, AutoSelect, BeginRound, EnterPhase, HackWindowPhase, roleVars
  <2> QED BY <2>1, VoteElsewhere DEF MatchState, GameState, OverState, AccusationState
<1>2. ASSUME NEW p, NEW t, SubmitHack(p, t) PROVE VoteInv'
  BY <1>2, VoteUnchanged DEF SubmitHack, phaseVars, rosterVars, blameVars
<1>3. CASE HackWindowOver \/ InstructionsOver \/ CompleteMinigame \/ ResultsOver
  <2>1. /\ state \in {"HACKER_CORRUPTION", "MINIGAME_INSTRUCTIONS", "MINIGAME_PLAY",
                      "RESULTS_REVEAL"}
        /\ state' \in {"MINIGAME_INSTRUCTIONS", "MINIGAME_PLAY", "RESULTS_REVEAL", "DISCUSSION"}
        /\ UNCHANGED <<hackers, hackerCount>>
    BY <1>3
    DEF HackWindowOver, InstructionsOver, CompleteMinigame, ResultsOver, NextRoundPhase,
        EnterPhase, roleVars
  <2> QED BY <2>1, VoteElsewhere DEF MatchState, GameState, OverState, AccusationState
<1>4. CASE DiscussionOver
  <2>1. /\ state = "DISCUSSION" /\ state' \in {"SPECIAL_GAME_INTRO", "MINIGAME_SELECT"}
        /\ UNCHANGED <<hackers, hackerCount>>
    BY <1>4 DEF DiscussionOver, BeginSpecialGame, EnterMinigameSelect, EnterPhase, roleVars
  <2> QED BY <2>1, VoteElsewhere DEF MatchState, GameState, OverState, AccusationState
<1>5. CASE SpecialEvent
  <2>1. /\ state \in SpecialState
        /\ state' \in {"SPECIAL_GAME_PLAY", "SPECIAL_GAME_RESULT", "FINAL_RESULTS",
                       "MINIGAME_SELECT"}
        /\ UNCHANGED <<hackers, hackerCount>>
    BY <1>5
    DEF SpecialEvent, SpecialIntroOver, CompleteSpecialGame, SpecialResultOver,
        EnterMinigameSelect, EnterPhase, roleVars, SpecialState
  <2> QED
    BY <2>1, VoteElsewhere DEF MatchState, GameState, OverState, AccusationState, SpecialState
<1> QED BY <1>1, <1>2, <1>3, <1>4, <1>5 DEF RoundEvent

\* Resolving a vote leaves the accusation, for the match or for its end.
LEMMA ResolveVote ==
    ASSUME VoteInv, state = "ACCUSATION_VOTE", NEW acc, ResolveAccusationVote(acc)
    PROVE  VoteInv'
<1>1. state' \in {"MINIGAME_SELECT", "FINAL_RESULTS"} /\ UNCHANGED <<hackers, hackerCount>>
  BY DEF ResolveAccusationVote, RejectAccusation, ApproveAccusation, ReturnToGameplay,
         EnterMinigameSelect, EnterPhase, roleVars
<1> QED BY <1>1, VoteElsewhere DEF MatchState, GameState, OverState, AccusationState

\* A press, the suspects and each vote but the last keep the vote open and sound.
LEMMA AccusationEventVote == ASSUME TypeOK, VoteInv, AccusationEvent PROVE VoteInv'
<1> USE DEF MatchState, GameState, OverState, AccusationState
<1>1. ASSUME NEW p \in Player, PushButton(p) PROVE VoteInv'
  <2>1. /\ state \in MatchState /\ p \in players
        /\ accusation' = [NoAccusation EXCEPT !.initiator = p, !.required = hackerCount,
                                              !.origin = state]
        /\ state' = "ACCUSATION_SELECT" /\ UNCHANGED <<players, hackers, hackerCount>>
    BY <1>1 DEF PushButton, MayPushButton, AccusationAllowed, Eligible, EnterPhase, rosterVars, roleVars
  <2>2. /\ accusation'.initiator = p /\ accusation'.required = hackerCount
        /\ accusation'.approve = {} /\ accusation'.reject = {}
    BY <2>1 DEF NoAccusation
  <2> QED BY <2>1, <2>2 DEF VoteInv, OpenVoteIsUndecided
<1>2. ASSUME NEW p \in Player, NEW S \in SUBSET Player, SubmitAccusation(p, S) PROVE VoteInv'
  <2>1. /\ state = "ACCUSATION_SELECT" /\ p = accusation.initiator
        /\ Cardinality(S) = accusation.required
        /\ state' = "ACCUSATION_VOTE" /\ submitted' = {}
        /\ UNCHANGED <<players, hackers, hackerCount>>
    BY <1>2 DEF SubmitAccusation, MayAccuse, EnterPhase, rosterVars, roleVars
  <2>2. /\ accusation'.suspects = S /\ accusation'.voters = players
        /\ accusation'.initiator = accusation.initiator
        /\ accusation'.required = accusation.required
        /\ accusation'.approve = accusation.approve /\ accusation'.reject = accusation.reject
    BY <1>2 DEF SubmitAccusation, Eligible, TypeOK, Accusation
  <2> QED BY <2>1, <2>2 DEF VoteInv, OpenVoteIsUndecided
<1>3. CASE AccusationCancelled
  <2>1. /\ state = "ACCUSATION_SELECT" /\ state' = "MINIGAME_SELECT"
        /\ UNCHANGED <<hackers, hackerCount>>
    BY <1>3 DEF AccusationCancelled, ReturnToGameplay, EnterMinigameSelect, EnterPhase, roleVars
  <2> QED BY <2>1, VoteElsewhere
<1>4. ASSUME NEW p \in Player, NEW v \in {"APPROVE", "REJECT"}, SubmitAccusationVote(p, v)
      PROVE  VoteInv'
  <2> DEFINE acc == IF v = "APPROVE" THEN [accusation EXCEPT !.approve = @ \cup {p}]
                                     ELSE [accusation EXCEPT !.reject = @ \cup {p}]
  <2>1. /\ acc.initiator = accusation.initiator /\ acc.required = accusation.required
        /\ acc.suspects = accusation.suspects /\ acc.voters = accusation.voters
        /\ \/ acc.approve = accusation.approve \cup {p} /\ acc.reject = accusation.reject
           \/ acc.approve = accusation.approve /\ acc.reject = accusation.reject \cup {p}
    BY DEF TypeOK, Accusation
  <2>2. /\ state = "ACCUSATION_VOTE" /\ p \in accusation.voters \ submitted
        /\ \/ ResolveAccusationVote(acc)
           \/ /\ ~(acc.voters \subseteq acc.approve \cup acc.reject)
              /\ accusation' = acc /\ submitted' = submitted \cup {p}
              /\ UNCHANGED <<state, players, hackers, hackerCount>>
    BY <1>4 DEF SubmitAccusationVote, MayVote, rosterVars, roleVars
  <2> HIDE DEF acc
  <2>3. CASE ResolveAccusationVote(acc)
    BY <2>2, <2>3, ResolveVote
  <2>4. CASE ~ResolveAccusationVote(acc)
    BY <2>1, <2>2, <2>4 DEF VoteInv, OpenVoteIsUndecided
  <2> QED BY <2>3, <2>4
<1>5. CASE AccusationVoteOver
  BY <1>5, ResolveVote DEF AccusationVoteOver
<1> QED BY <1>1, <1>2, <1>3, <1>4, <1>5 DEF AccusationEvent

\* VoteInv is inductive in well-typed rooms.
LEMMA VoteInvStep == ASSUME TypeOK, VoteInv, [Next]_vars PROVE VoteInv'
<1>1. CASE EndEvent
  <2>1. ASSUME NEW p, RequestRematch(p) PROVE VoteInv'
    BY <2>1, VoteElsewhere DEF RequestRematch, roleVars, AccusationState
  <2>2. CASE ~(\E p \in Player : RequestRematch(p))
    <3>1. /\ state' \in {"FINAL_RESULTS", "REMATCH_LOBBY", "LOBBY", "ABANDONED"}
      BY <1>1, <2>2
      DEF EndEvent, MatchClockExpired, HostAdvance, HostRestartMatch, CloseRoom, EnterPhase
    <3>2. state' \notin MatchState \cup AccusationState
      BY <3>1 DEF MatchState, OverState, AccusationState
    <3> QED BY <3>2 DEF VoteInv, OpenVoteIsUndecided, AccusationState
  <2> QED BY <2>1, <2>2
<1>2. CASE Tick
  BY <1>2, VoteUnchanged DEF Tick, phaseVars, rosterVars, roleVars
<1>3. CASE UNCHANGED vars
  BY <1>3, VoteUnchanged DEF vars, phaseVars, rosterVars, roleVars, blameVars
<1> QED
  BY <1>1, <1>2, <1>3, RosterEventVote, SetupEventVote, PlayEventVote, AccusationEventVote
  DEF Next

\* In every execution an open vote names as many suspects as there are Hackers,
\* asks the whole roster, and is resolved no later than by its last vote.
THEOREM VotesAreDecided == Spec => []OpenVoteIsUndecided
<1>1. Init => VoteInv
  BY DEF Init, VoteInv, OpenVoteIsUndecided, MatchState, AccusationState
<1>2. TypeOK /\ VoteInv /\ [Next]_vars => VoteInv'
  BY VoteInvStep
<1>3. VoteInv => OpenVoteIsUndecided
  BY DEF VoteInv
<1> QED BY <1>1, <1>2, <1>3, TypeCorrect, PTL DEF Spec

-----------------------------------------------------------------------------
(* The roster of a match, and whose turn it is *)

\* A match keeps the number of players it was started with, and while a game is
\* to be chosen, or an accusation interrupts the choice, there is an Admin.
RosterInv ==
    /\ state \in MatchState => PlayerCountInRange
    /\ \/ state = "MINIGAME_SELECT"
       \/ state \in AccusationState /\ accusation.origin = "MINIGAME_SELECT"
       => adminId \in players

\* A match is never without players.
LEMMA RosterThere == ASSUME PlayerCountInRange PROVE players # {}
<1>1. players = {} => Cardinality(players) = 0
  BY FS_EmptySet
<1> QED BY <1>1, ConstantsAssumption DEF PlayerCountInRange

\* A room with the players of a match has somebody to be its next Admin.
LEMMA NextAdminThere ==
    ASSUME TypeOK, PlayerCountInRange, AssignNextAdmin PROVE adminId' \in players
BY RosterThere, AdminTypes

\* Steps that leave the roster and the turn alone, and interrupt no choice of a
\* game, keep RosterInv.
LEMMA RosterUnchanged ==
    ASSUME RosterInv, UNCHANGED <<players, adminId>>,
           state' \in MatchState => state \in MatchState,
           state' = "MINIGAME_SELECT" => state = "MINIGAME_SELECT",
           state' \in AccusationState => state \in AccusationState /\ accusation'.origin = accusation.origin
    PROVE  RosterInv'
BY DEF RosterInv, PlayerCountInRange

\* Steps that give the turn to the next Admin keep RosterInv.
LEMMA TurnRoster ==
    ASSUME TypeOK, RosterInv, state \in MatchState, EnterMinigameSelect, UNCHANGED players
    PROVE  RosterInv'
<1>1. PlayerCountInRange /\ state' = "MINIGAME_SELECT" /\ adminId' \in players
  BY NextAdminThere DEF RosterInv, EnterMinigameSelect, EnterPhase
<1> QED BY <1>1 DEF RosterInv, PlayerCountInRange, AccusationState

\* The ways back from an accusation keep RosterInv.
LEMMA ReturnRoster ==
    ASSUME TypeOK, RosterInv, state \in AccusationState, UNCHANGED players,
           ReturnToGameplay(accusation.origin)
    PROVE  RosterInv'
<1> USE DEF MatchState, GameState, OverState, AccusationState
<1>1. CASE accusation.origin = "MINIGAME_SELECT"
  <2>1. state' = "MINIGAME_SELECT" /\ UNCHANGED adminId
    BY <1>1 DEF ReturnToGameplay, EnterPhase, adminVars
  <2> QED BY <1>1, <2>1 DEF RosterInv, PlayerCountInRange
<1>2. CASE accusation.origin # "MINIGAME_SELECT"
  BY <1>2, TurnRoster DEF ReturnToGameplay
<1> QED BY <1>1, <1>2

\* A vote resolved goes back to the match or ends it.
LEMMA ResolveRoster ==
    ASSUME TypeOK, RosterInv, state = "ACCUSATION_VOTE", NEW acc, acc.origin = accusation.origin,
           ResolveAccusationVote(acc)
    PROVE  RosterInv'
<1>1. UNCHANGED players
  BY DEF ResolveAccusationVote, rosterVars
<1>2. CASE RejectAccusation(acc)
  BY <1>1, <1>2, ReturnRoster DEF RejectAccusation, AccusationState
<1>3. CASE ApproveAccusation(acc)
  <2>1. state' = "FINAL_RESULTS" /\ UNCHANGED adminId
    BY <1>3 DEF ApproveAccusation, EnterPhase, adminVars
  <2> QED BY <1>1, <2>1, RosterUnchanged DEF MatchState, OverState, AccusationState
<1> QED BY <1>2, <1>3 DEF ResolveAccusationVote

\* Accusations remember whose choice they interrupted.
LEMMA AccusationRoster == ASSUME TypeOK, RosterInv, AccusationEvent PROVE RosterInv'
<1> USE DEF MatchState, GameState, OverState, AccusationState
<1>1. ASSUME NEW p \in Player, PushButton(p) PROVE RosterInv'
  <2>1. /\ state \in AccusationAllowed /\ accusation'.origin = state
        /\ state' = "ACCUSATION_SELECT" /\ UNCHANGED <<players, adminId>>
    BY <1>1 DEF PushButton, MayPushButton, NoAccusation, EnterPhase, rosterVars, adminVars
  <2> QED BY <2>1 DEF RosterInv, PlayerCountInRange, AccusationAllowed
<1>2. ASSUME NEW p \in Player, NEW S \in SUBSET Player, SubmitAccusation(p, S) PROVE RosterInv'
  <2>1. /\ state = "ACCUSATION_SELECT" /\ state' = "ACCUSATION_VOTE"
        /\ accusation'.origin = accusation.origin /\ UNCHANGED <<players, adminId>>
    BY <1>2
    DEF SubmitAccusation, MayAccuse, EnterPhase, rosterVars, adminVars, TypeOK, Accusation
  <2> QED BY <2>1, RosterUnchanged
<1>3. CASE AccusationCancelled
  BY <1>3, ReturnRoster DEF AccusationCancelled, rosterVars
<1>4. ASSUME NEW p \in Player, NEW v \in {"APPROVE", "REJECT"}, SubmitAccusationVote(p, v)
      PROVE  RosterInv'
  <2> DEFINE acc == IF v = "APPROVE" THEN [accusation EXCEPT !.approve = @ \cup {p}]
                                     ELSE [accusation EXCEPT !.reject = @ \cup {p}]
  <2>1. acc.origin = accusation.origin
    BY DEF TypeOK, Accusation
  <2>2. /\ state = "ACCUSATION_VOTE"
        /\ \/ ResolveAccusationVote(acc)
           \/ accusation' = acc /\ UNCHANGED <<state, players, adminId>>
    BY <1>4 DEF SubmitAccusationVote, MayVote, rosterVars, adminVars
  <2> HIDE DEF acc
  <2>3. CASE ResolveAccusationVote(acc)
    BY <2>1, <2>2, <2>3, ResolveRoster
  <2>4. CASE ~ResolveAccusationVote(acc)
    BY <2>1, <2>2, <2>4, RosterUnchanged
  <2> QED BY <2>3, <2>4
<1>5. CASE AccusationVoteOver
  BY <1>5, ResolveRoster DEF AccusationVoteOver
<1> QED BY <1>1, <1>2, <1>3, <1>4, <1>5 DEF AccusationEvent

\* A match starts with as many players as it may have, and its turns go round.
LEMMA SetupRoster == ASSUME TypeOK, RosterInv, SetupEvent PROVE RosterInv'
<1> USE DEF MatchState, GameState, OverState, AccusationState
<1>1. CASE HostStartGame \/ HostStartRematch
  <2>1. PlayerCountInRange /\ UNCHANGED players /\ state' = "ROLE_REVEAL"
    BY <1>1
    DEF HostStartGame, HostStartRematch, MayStartMatch, AssignRoles, EnterPhase, rosterVars
  <2> QED BY <2>1 DEF RosterInv, PlayerCountInRange
<1>2. ASSUME NEW p \in Player, AcknowledgeReveal(p) PROVE RosterInv'
  <2>1. /\ state = "ROLE_REVEAL" /\ state' \in {"ROLE_REVEAL", "GAME_INTRO"}
        /\ UNCHANGED <<players, adminId>>
    BY <1>2
    DEF AcknowledgeReveal, EnterGameIntro, EnterPhase, rosterVars, adminVars
  <2> QED BY <2>1, RosterUnchanged
<1>3. CASE GameIntroOver
  BY <1>3, TurnRoster DEF GameIntroOver, rosterVars
<1>4. CASE RoleRevealOver
  <2>1. /\ state = "ROLE_REVEAL" /\ state' = "GAME_INTRO" /\ UNCHANGED <<players, adminId>>
    BY <1>4 DEF RoleRevealOver, EnterGameIntro, EnterPhase, rosterVars, adminVars
  <2> QED BY <2>1, RosterUnchanged
<1> QED BY <1>1, <1>2, <1>3, <1>4 DEF SetupEvent

\* Rounds and the special game leave the roster alone, and give the turn on.
LEMMA PlayRoster == ASSUME TypeOK, RosterInv, RoundEvent \/ SpecialEvent PROVE RosterInv'
<1> USE DEF MatchState, GameState, OverState, AccusationState
<1>1. ASSUME NEW g, NEW ids, AdminSelectMinigame(g, ids) \/ AutoSelect(g, ids) PROVE RosterInv'
  <2>1. /\ state = "MINIGAME_SELECT"
        /\ state' \in {"HACKER_CORRUPTION", "MINIGAME_INSTRUCTIONS"}
        /\ UNCHANGED <<players, adminId>>
    BY <1>1
    DEF AdminSelectMinigame, MaySelect, AutoSelect, BeginRound, EnterPhase, HackWindowPhase,
        rosterVars, adminVars
  <2> QED BY <2>1, RosterUnchanged
<1>2. ASSUME NEW p, NEW t, SubmitHack(p, t) PROVE RosterInv'
  BY <1>2, RosterUnchanged DEF SubmitHack, phaseVars, rosterVars, adminVars, blameVars
<1>3. CASE HackWindowOver \/ InstructionsOver \/ CompleteMinigame \/ ResultsOver
  <2>1. /\ state \in RoundState
        /\ state' \in RoundState \cup {"DISCUSSION"}
        /\ UNCHANGED <<players, adminId>>
    BY <1>3
    DEF HackWindowOver, InstructionsOver, CompleteMinigame, ResultsOver, NextRoundPhase,
        EnterPhase, rosterVars, adminVars, RoundState
  <2> QED BY <2>1, RosterUnchanged DEF RoundState
<1>4. CASE DiscussionOver
  <2>1. CASE BeginSpecialGame
    <3>1. /\ state = "DISCUSSION" /\ state' = "SPECIAL_GAME_INTRO"
          /\ UNCHANGED <<players, adminId>>
      BY <1>4, <2>1 DEF DiscussionOver, BeginSpecialGame, EnterPhase, rosterVars, adminVars
    <3> QED BY <3>1, RosterUnchanged
  <2>2. CASE ~BeginSpecialGame
    BY <1>4, <2>2, TurnRoster DEF DiscussionOver, rosterVars
  <2> QED BY <2>1, <2>2
<1>5. CASE SpecialIntroOver \/ CompleteSpecialGame
  <2>1. /\ state \in SpecialState /\ state' \in SpecialState /\ UNCHANGED <<players, adminId>>
    BY <1>5
    DEF SpecialIntroOver, CompleteSpecialGame, EnterPhase, rosterVars, adminVars, SpecialState
  <2> QED BY <2>1, RosterUnchanged DEF SpecialState
<1>6. CASE SpecialResultOver
  <2>1. CASE EnterMinigameSelect
    BY <1>6, <2>1, TurnRoster DEF SpecialResultOver, rosterVars
  <2>2. CASE ~EnterMinigameSelect
    <3>1. /\ state = "SPECIAL_GAME_RESULT" /\ state' = "FINAL_RESULTS"
          /\ UNCHANGED <<players, adminId>>
      BY <1>6, <2>2 DEF SpecialResultOver, EnterPhase, rosterVars, adminVars
    <3> QED BY <3>1, RosterUnchanged
  <2> QED BY <2>1, <2>2
<1> QED BY <1>1, <1>2, <1>3, <1>4, <1>5, <1>6 DEF RoundEvent, SpecialEvent

\* RosterInv is inductive in well-typed rooms.
LEMMA RosterInvStep == ASSUME TypeOK, RosterInv, [Next]_vars PROVE RosterInv'
<1> USE DEF MatchState, GameState, OverState, AccusationState
<1>1. CASE RosterEvent
  <2>1. ASSUME NEW p \in Player, JoinPlayer(p) \/ LeavePlayer(p) PROVE RosterInv'
    BY <2>1 DEF JoinPlayer, LeavePlayer, LobbyState, phaseVars, RosterInv
  <2>2. ASSUME NEW p \in Player, PlayerDisconnected(p) \/ PlayerReconnected(p) PROVE RosterInv'
    BY <2>2, RosterUnchanged
    DEF PlayerDisconnected, PlayerReconnected, phaseVars, adminVars, blameVars
  <2> QED BY <1>1, <2>1, <2>2 DEF RosterEvent
<1>2. CASE EndEvent
  <2>1. ASSUME NEW p, RequestRematch(p) PROVE RosterInv'
    BY <2>1, RosterUnchanged DEF RequestRematch, rosterVars, adminVars
  <2>2. CASE ~(\E p \in Player : RequestRematch(p))
    <3>1. state' \in {"FINAL_RESULTS", "REMATCH_LOBBY", "LOBBY", "ABANDONED"}
      BY <1>2, <2>2
      DEF EndEvent, MatchClockExpired, HostAdvance, HostRestartMatch, CloseRoom, EnterPhase
    <3> QED BY <3>1 DEF RosterInv
  <2> QED BY <2>1, <2>2
<1>3. CASE Tick
  BY <1>3, RosterUnchanged DEF Tick, phaseVars, rosterVars, adminVars
<1>4. CASE UNCHANGED vars
  BY <1>4, RosterUnchanged DEF vars, phaseVars, rosterVars, adminVars, blameVars
<1> QED BY <1>1, <1>2, <1>3, <1>4, SetupRoster, PlayRoster, AccusationRoster DEF Next

\* A new room has no match.
LEMMA RosterInit == Init => RosterInv
BY DEF Init, RosterInv, MatchState, AccusationState

\* The players of a match are as many as when it began, and its turns have owners.
LEMMA RosterInvariant == Spec => []RosterInv
<1>1. Init => RosterInv
  BY RosterInit
<1>2. TypeOK /\ RosterInv /\ [Next]_vars => RosterInv'
  BY RosterInvStep
<1> QED BY <1>1, <1>2, TypeCorrect, PTL DEF Spec

\* In every execution, whenever a game is to be chosen the room has an Admin who
\* is one of its players, so that the choice never waits for nobody.
THEOREM TurnsHaveOwners == Spec => []SelectionHasAnAdmin
<1>1. RosterInv => SelectionHasAnAdmin
  BY DEF RosterInv, SelectionHasAnAdmin
<1> QED BY <1>1, RosterInvariant, PTL

-----------------------------------------------------------------------------
(* What the screens rely on *)

\* Every match has a Hacker, and suspects are named when the vote opens and not before.
SuspectsInv ==
    /\ state \in MatchState => hackers # {}
    /\ state = "ACCUSATION_SELECT" => accusation.suspects = {}

\* Roles are never dealt without a Hacker.
LEMMA HackersDealt ==
    ASSUME TypeOK, PlayerCountInRange, NEW budget, AssignRoles(budget) PROVE hackers' # {}
<1> DEFINE n == Cardinality(players)
<1>1. n \in Nat /\ n >= 1
  BY RosterFinite, ConstantsAssumption DEF PlayerCountInRange
<1>2. HackerCountFor(n) >= 1
  BY <1>1, ConstantsAssumption DEF HackerCountFor, Greatest, Least
<1>3. Cardinality(hackers') = Least(HackerCountFor(n), n)
  BY DEF AssignRoles
<1>4. Cardinality(hackers') # 0
  <2> HIDE DEF n
  <2> QED BY <1>1, <1>2, <1>3 DEF Least
<1> QED BY <1>4, FS_EmptySet

\* Steps that deal no roles and open no accusation keep SuspectsInv.
LEMMA SuspectsUnchanged ==
    ASSUME SuspectsInv, state' \in MatchState => state \in MatchState /\ hackers' = hackers,
           state' = "ACCUSATION_SELECT" => state = "ACCUSATION_SELECT" /\ accusation' = accusation
    PROVE  SuspectsInv'
BY DEF SuspectsInv

\* SuspectsInv is inductive in well-typed rooms.
LEMMA SuspectsStep == ASSUME TypeOK, SuspectsInv, [Next]_vars PROVE SuspectsInv'
<1> USE DEF MatchState, GameState, OverState
<1>1. CASE RosterEvent
  BY <1>1, SuspectsUnchanged
  DEF RosterEvent, JoinPlayer, LeavePlayer, PlayerDisconnected, PlayerReconnected, LobbyState,
      phaseVars, roleVars, blameVars
<1>2. CASE SetupEvent
  <2>1. CASE HostStartGame \/ HostStartRematch
    <3>1. PlayerCountInRange /\ \E budget : AssignRoles(budget)
      BY <2>1 DEF HostStartGame, HostStartRematch, MayStartMatch
    <3>2. hackers' # {} /\ state' = "ROLE_REVEAL"
      BY <3>1, HackersDealt DEF AssignRoles, EnterPhase
    <3> QED BY <3>2 DEF SuspectsInv
  <2>2. CASE ~HostStartGame /\ ~HostStartRematch
    BY <1>2, <2>2, SuspectsUnchanged
    DEF SetupEvent, AcknowledgeReveal, RoleRevealOver, EnterGameIntro, GameIntroOver,
        EnterMinigameSelect, EnterPhase, roleVars
  <2> QED BY <2>1, <2>2
<1>3. CASE RoundEvent
  <2>1. ASSUME NEW g, NEW ids, AdminSelectMinigame(g, ids) \/ AutoSelect(g, ids)
        PROVE  SuspectsInv'
    BY <2>1, SuspectsUnchanged
    DEF AdminSelectMinigame, MaySelect, AutoSelect, BeginRound, EnterPhase, HackWindowPhase,
        roleVars
  <2>2. ASSUME NEW p, NEW t, SubmitHack(p, t) PROVE SuspectsInv'
    BY <2>2, SuspectsUnchanged DEF SubmitHack, phaseVars, blameVars
  <2>3. CASE HackWindowOver \/ InstructionsOver \/ CompleteMinigame \/ ResultsOver
    BY <2>3, SuspectsUnchanged
    DEF HackWindowOver, InstructionsOver, CompleteMinigame, ResultsOver, NextRoundPhase,
        EnterPhase, roleVars
  <2>4. CASE DiscussionOver
    BY <2>4, SuspectsUnchanged
    DEF DiscussionOver, BeginSpecialGame, EnterMinigameSelect, EnterPhase, roleVars
  <2> QED BY <1>3, <2>1, <2>2, <2>3, <2>4 DEF RoundEvent
<1>4. CASE SpecialEvent
  BY <1>4, SuspectsUnchanged
  DEF SpecialEvent, SpecialIntroOver, CompleteSpecialGame, SpecialResultOver,
      EnterMinigameSelect, EnterPhase, roleVars
<1>5. CASE AccusationEvent
  <2>1. ASSUME NEW p \in Player, PushButton(p) PROVE SuspectsInv'
    <3>1. state \in MatchState /\ hackers' = hackers /\ accusation'.suspects = {}
      BY <2>1 DEF PushButton, MayPushButton, AccusationAllowed, NoAccusation, roleVars
    <3> QED BY <3>1 DEF SuspectsInv
  <2>2. ASSUME NEW p, NEW S, SubmitAccusation(p, S) PROVE SuspectsInv'
    BY <2>2, SuspectsUnchanged DEF SubmitAccusation, MayAccuse, EnterPhase, roleVars
  <2>3. ASSUME NEW acc, state = "ACCUSATION_VOTE", ResolveAccusationVote(acc) PROVE SuspectsInv'
    BY <2>3, SuspectsUnchanged
    DEF ResolveAccusationVote, RejectAccusation, ApproveAccusation, ReturnToGameplay,
        EnterMinigameSelect, EnterPhase, roleVars
  <2>4. CASE AccusationCancelled
    BY <2>4, SuspectsUnchanged
    DEF AccusationCancelled, ReturnToGameplay, EnterMinigameSelect, EnterPhase, roleVars
  <2>5. ASSUME NEW p, NEW v, SubmitAccusationVote(p, v), ~\E acc : ResolveAccusationVote(acc)
        PROVE  SuspectsInv'
    BY <2>5, SuspectsUnchanged DEF SubmitAccusationVote, MayVote, roleVars
  <2>6. ASSUME NEW p, NEW v, SubmitAccusationVote(p, v) PROVE state = "ACCUSATION_VOTE"
    BY <2>6 DEF SubmitAccusationVote, MayVote
  <2> QED
    BY <1>5, <2>1, <2>2, <2>3, <2>4, <2>5, <2>6 DEF AccusationEvent, AccusationVoteOver
<1>6. CASE EndEvent
  BY <1>6, SuspectsUnchanged
  DEF EndEvent, MatchClockExpired, RequestRematch, HostAdvance, HostRestartMatch, CloseRoom,
      EnterPhase
<1>7. CASE Tick
  BY <1>7, SuspectsUnchanged DEF Tick, phaseVars, roleVars
<1>8. CASE UNCHANGED vars
  BY <1>8, SuspectsUnchanged DEF vars, phaseVars, roleVars, blameVars
<1> QED BY <1>1, <1>2, <1>3, <1>4, <1>5, <1>6, <1>7, <1>8 DEF Next

\* What handlers and screens find of an accusation, in every execution.
LEMMA AccusationInvariant == Spec => [](VoteInv /\ SuspectsInv)
<1>1. Init => VoteInv /\ SuspectsInv
  BY DEF Init, VoteInv, SuspectsInv, OpenVoteIsUndecided, MatchState, AccusationState
<1>2. TypeOK /\ VoteInv /\ SuspectsInv /\ [Next]_vars => (VoteInv /\ SuspectsInv)'
  BY VoteInvStep, SuspectsStep
<1> QED BY <1>1, <1>2, TypeCorrect, PTL DEF Spec
=============================================================================
