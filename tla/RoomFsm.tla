------------------------------ MODULE RoomFsm -------------------------------
(***************************************************************************)
(* The room state machine of the game server                               *)
(* (apps/server/src/fsm/transitions.ts, with its guards, match clock,      *)
(* selectors and rule registries, and the roster operations of             *)
(* fsm/room-lifecycle.ts): one accepted event of handleEvent() is one      *)
(* step.  A rejected event changes nothing and is not a step.              *)
(*                                                                         *)
(* The host's skip event and the phase timer have the same effect in most  *)
(* phases and share an action there.  What the play of a minigame does     *)
(* between start and completion belongs to the modules of the games; here  *)
(* a game in progress may complete at any time.                            *)
(***************************************************************************)
EXTENDS MatchClock, FiniteSets

CONSTANTS
    Player,              \* the identities a room may hand out
    NoPlayer,            \* null in adminId and in an idle accusation
    Minigame,            \* the registered normal minigames
    AudienceGame,        \* those whose other eligible players form an audience
    LimitMin, LimitMax,  \* MINIGAME_PARTICIPANT_LIMITS, per minigame
    MinPlayers, MaxPlayers,
    MinHackers, MaxHackers,
    SpecialMin, SpecialMax,
    AdminMaySelectSelf,
    RoundsPerCycle,
    ClockTotal,          \* matchClockTotalMs, in ticks
    FailPenalty,         \* failPenaltyMs, in ticks
    AccusationCooldown   \* accusationCooldownMs, in ticks

NoGame == "no game"

ASSUME ConstantsAssumption ==
    /\ IsFiniteSet(Player)
    /\ NoPlayer \notin Player
    /\ NoGame \notin Minigame
    /\ Minigame # {}
    /\ AudienceGame \subseteq Minigame
    /\ LimitMin \in [Minigame -> Nat] /\ LimitMax \in [Minigame -> Nat]
    /\ \A g \in Minigame : LimitMin[g] >= 1 /\ LimitMin[g] <= LimitMax[g]
    /\ MinPlayers \in Nat \ {0} /\ MaxPlayers \in Nat /\ MinPlayers <= MaxPlayers
    /\ MinHackers \in Nat \ {0} /\ MaxHackers \in Nat /\ MinHackers <= MaxHackers
    /\ MinHackers <= MinPlayers
    /\ SpecialMin \in Nat /\ SpecialMax \in Nat /\ SpecialMin <= SpecialMax
    /\ AdminMaySelectSelf \in BOOLEAN
    /\ RoundsPerCycle \in Nat \ {0}
    /\ ClockTotal \in Nat \ {0}
    /\ FailPenalty \in Nat
    /\ AccusationCooldown \in Nat

-----------------------------------------------------------------------------
\* The leaf states of the machine.  ROOM_CREATED and ROLE_ASSIGNMENT are left
\* in the step that enters them and are never seen between two events.
GameState ==
    {"LOBBY", "ROLE_REVEAL", "GAME_INTRO", "MINIGAME_SELECT", "HACKER_CORRUPTION",
     "MINIGAME_INSTRUCTIONS", "MINIGAME_PLAY", "RESULTS_REVEAL", "DISCUSSION",
     "ACCUSATION_SELECT", "ACCUSATION_VOTE", "SPECIAL_GAME_INTRO",
     "SPECIAL_GAME_PLAY", "SPECIAL_GAME_RESULT", "FINAL_RESULTS",
     "REMATCH_LOBBY", "ABANDONED"}

\* Where join and leave are accepted.
LobbyState == {"LOBBY", "REMATCH_LOBBY"}

\* ACCUSATION_ALLOWED_STATES
AccusationAllowed == {"DISCUSSION", "MINIGAME_SELECT"}

\* The states of a normal round, an accusation, the special game, and a match over.
RoundState == {"HACKER_CORRUPTION", "MINIGAME_INSTRUCTIONS", "MINIGAME_PLAY", "RESULTS_REVEAL"}
AccusationState == {"ACCUSATION_SELECT", "ACCUSATION_VOTE"}
SpecialState == {"SPECIAL_GAME_INTRO", "SPECIAL_GAME_PLAY", "SPECIAL_GAME_RESULT"}
OverState == {"FINAL_RESULTS", "REMATCH_LOBBY"}

\* Investigation gameplay, the part of a match the match clock measures.
InvestigationState == AccusationAllowed \cup RoundState \cup AccusationState

VARIABLES
    state,           \* room.phase.state
    submitted,       \* room.currentPhaseSubmissions
    players,         \* the keys of room.players
    connected,       \* players whose connectionStatus is not 'disconnected'
    hackers,         \* players whose private role is HACKER
    hackerCount,     \* room.hackerCount
    hacksRemaining,  \* priv.hacksRemaining
    adminId,         \* room.adminId
    adminQueue,      \* the players of room.adminQueue, see AssignNextAdmin
    roundInCycle,    \* room.roundInCycle, see RoundCap
    round,           \* room.currentRound
    special,         \* room.currentSpecialRound
    specialUsed,     \* room.specialGameUsed
    lastSpecial,     \* outcome of the last entry of room.specialRoundHistory
    firewall,        \* room.firewallActive
    clock,           \* room.matchClock
    accusation,      \* room.currentAccusation
    cooldown,        \* accusationCooldownUntil - now, 0 when null or passed
    winner           \* room.winner

phaseVars == <<state, submitted>>
rosterVars == <<players, connected>>
roleVars == <<hackers, hackerCount, hacksRemaining>>
adminVars == <<adminId, adminQueue>>
roundVars == <<round, roundInCycle>>
specialVars == <<special, specialUsed, lastSpecial>>
verdictVars == <<clock, winner>>
blameVars == <<accusation, cooldown>>

vars == <<phaseVars, rosterVars, roleVars, adminVars, roundVars, specialVars,
          firewall, verdictVars, blameVars>>

-----------------------------------------------------------------------------
\* Idle values of the records the code sets to null.
NoRound ==
    [active |-> FALSE, started |-> FALSE, game |-> NoGame, selected |-> {},
     participants |-> {}, hacked |-> {}, used |-> {}]

NoSpecial == [active |-> FALSE, started |-> FALSE, participants |-> {}]

NoAccusation ==
    [initiator |-> NoPlayer, required |-> 0, suspects |-> {}, voters |-> {},
     approve |-> {}, reject |-> {}, origin |-> "DISCUSSION"]

\* Bound: roundInCycle is only compared with RoundsPerCycle, so it is kept
\* exact up to one more than that and then stays there.
RoundCap == RoundsPerCycle + 1

Least(a, b) == IF a <= b THEN a ELSE b
Greatest(a, b) == IF a >= b THEN a ELSE b

\* Nobody is ever eliminated: every match resets alive to TRUE and no handler
\* clears it, so the eligible pools of the selectors are the whole roster.
Eligible == players

-----------------------------------------------------------------------------
(* Phase entry *)

\* Mutant: a phase inherits the submissions of the one before.
EnterPhaseKeepSubmissions(next) == state' = next /\ submitted' = submitted

\* setPhase: a new phase starts with an empty submission record.
EnterPhase(next) == state' = next /\ submitted' = {}

\* Mutant: every turn draws from everybody.
AssignAnyAdmin ==
    \E p \in Eligible : adminId' = p /\ adminQueue' = Eligible \ {p}

\* The head of a shuffled queue may be any player in it; of none it is null.
HeadOf(pool) ==
    \/ pool = {} /\ adminId' = NoPlayer /\ adminQueue' = {}
    \/ \E p \in pool : adminId' = p /\ adminQueue' = pool \ {p}

\* The shuffled queue is kept as the set of players still to serve.  A queue
\* that holds nobody eligible is refilled first.
AssignNextAdmin ==
    LET kept == adminQueue \cap Eligible
    IN  HeadOf(IF kept = {} THEN Eligible ELSE kept)

EnterMinigameSelect == EnterPhase("MINIGAME_SELECT") /\ AssignNextAdmin

-----------------------------------------------------------------------------
(* Roles, and the reset between two matches *)

\* The rule 'placeholder-linear': Math.round(0.25 * n), clamped by the config.
HackerCountFor(n) ==
    Greatest(MinHackers, Least(MaxHackers, Least((n + 2) \div 4, n)))

\* performRoleAssignment and its transition to ROLE_REVEAL.  `budget` is what
\* priv.hacksRemaining holds for ids that are no longer in the room.
AssignRoles(budget) ==
    /\ \E H \in SUBSET players :
          /\ Cardinality(H) = Least(HackerCountFor(Cardinality(players)), Cardinality(players))
          /\ hackers' = H
          /\ hackerCount' = Cardinality(H)
          /\ hacksRemaining' = [p \in Player |-> IF p \in H THEN 2
                                                 ELSE IF p \in players THEN 0
                                                 ELSE budget[p]]
    /\ roundInCycle' = 0
    /\ firewall' = FALSE
    /\ specialUsed' = FALSE
    /\ adminId' = NoPlayer
    /\ adminQueue' = {}
    /\ clock' = InitMatchClock
    /\ EnterPhase("ROLE_REVEAL")

\* Mutant: the history of the special game survives into the next match.
ClearMatchKeepHistory ==
    /\ winner' = "none"
    /\ round' = NoRound
    /\ special' = NoSpecial
    /\ lastSpecial' = lastSpecial
    /\ accusation' = NoAccusation
    /\ cooldown' = 0

\* The part of resetMatchScopedState that AssignRoles does not overwrite.
ClearMatch ==
    /\ winner' = "none"
    /\ round' = NoRound
    /\ special' = NoSpecial
    /\ lastSpecial' = "none"
    /\ accusation' = NoAccusation
    /\ cooldown' = 0

PlayerCountInRange ==
    Cardinality(players) >= MinPlayers /\ Cardinality(players) <= MaxPlayers

\* host:startGame is heard in either lobby, of the right number of players.
MayStartMatch == state \in LobbyState /\ PlayerCountInRange

-----------------------------------------------------------------------------
(* Roster: room-lifecycle.ts and the connection events *)

\* A join mints a fresh id; the model draws it from the ids not in use.
JoinPlayer(p) ==
    /\ state \in LobbyState
    /\ Cardinality(players) < MaxPlayers
    /\ p \notin players
    /\ players' = players \cup {p}
    /\ connected' = connected \cup {p}
    /\ UNCHANGED <<phaseVars, roleVars, adminVars, roundVars, specialVars, firewall,
                   verdictVars, blameVars>>

\* Ids are never reused by the code but are by the model, so leaving also
\* drops what the code keeps under the dead id.
LeavePlayer(p) ==
    /\ state \in LobbyState
    /\ p \in players
    /\ players' = players \ {p}
    /\ connected' = connected \ {p}
    /\ hackers' = hackers \ {p}
    /\ submitted' = submitted \ {p}
    /\ hacksRemaining' = [hacksRemaining EXCEPT ![p] = 0]
    /\ adminQueue' = adminQueue \ {p}
    /\ adminId' = IF adminId = p THEN NoPlayer ELSE adminId
    /\ UNCHANGED <<state, hackerCount, roundVars, specialVars, firewall, verdictVars, blameVars>>

PlayerDisconnected(p) ==
    /\ p \in connected
    /\ connected' = connected \ {p}
    /\ UNCHANGED <<players, phaseVars, roleVars, adminVars, roundVars, specialVars, firewall,
                   verdictVars, blameVars>>

PlayerReconnected(p) ==
    /\ p \in players \ connected
    /\ connected' = connected \cup {p}
    /\ UNCHANGED <<players, phaseVars, roleVars, adminVars, roundVars, specialVars, firewall,
                   verdictVars, blameVars>>

-----------------------------------------------------------------------------
(* Starting a match *)

HostStartGame ==
    /\ state = "LOBBY" /\ MayStartMatch
    /\ AssignRoles(hacksRemaining)
    /\ UNCHANGED <<rosterVars, round, special, lastSpecial, winner, blameVars>>

\* From REMATCH_LOBBY the same event also resets the finished match first.
HostStartRematch ==
    /\ state = "REMATCH_LOBBY" /\ MayStartMatch
    /\ ClearMatch
    /\ AssignRoles([p \in Player |-> 0])
    /\ UNCHANGED rosterVars

EnterGameIntro ==
    /\ EnterPhase("GAME_INTRO")
    /\ UNCHANGED <<rosterVars, roleVars, adminVars, roundVars, specialVars, firewall,
                   verdictVars, blameVars>>

AcknowledgeReveal(p) ==
    /\ state = "ROLE_REVEAL"
    /\ p \in players \ submitted
    /\ LET acked == submitted \cup {p}
       IN  \/ /\ connected # {} /\ connected \subseteq acked
              /\ EnterGameIntro
           \/ /\ connected = {} \/ ~(connected \subseteq acked)
              /\ submitted' = acked
              /\ UNCHANGED <<state, rosterVars, roleVars, adminVars, roundVars, specialVars,
                             firewall, verdictVars, blameVars>>

RoleRevealOver == state = "ROLE_REVEAL" /\ EnterGameIntro

\* The one place the match clock starts.
GameIntroOver ==
    /\ state = "GAME_INTRO"
    /\ clock' = StartMatchClock(ClockTotal)
    /\ EnterMinigameSelect
    /\ UNCHANGED <<rosterVars, roleVars, roundVars, specialVars, firewall, winner, blameVars>>

-----------------------------------------------------------------------------
(* A normal round: selection, hack window, play, results *)

\* The selected players of an audience game are joined by everyone else eligible.
ExpandParticipants(game, selected) ==
    IF game \in AudienceGame THEN selected \cup Eligible ELSE selected

\* Mutant: the hack window opens whatever the firewall.
HackWindowAlways == "HACKER_CORRUPTION"

\* autoAdvance on HACKER_CORRUPTION: under a firewall the hack window never opens.
HackWindowPhase == IF firewall THEN "MINIGAME_INSTRUCTIONS" ELSE "HACKER_CORRUPTION"

\* beginNormalRound, then the transition to HACKER_CORRUPTION.  An active
\* firewall is consumed there, and the module is started at once.
BeginRound(game, selected) ==
    /\ roundInCycle' = Least(roundInCycle + 1, RoundCap)
    /\ round' = [active |-> TRUE, started |-> firewall, game |-> game, selected |-> selected,
                 participants |-> ExpandParticipants(game, selected), hacked |-> {}, used |-> {}]
    /\ firewall' = FALSE
    /\ EnterPhase(HackWindowPhase)
    /\ UNCHANGED <<rosterVars, roleVars, adminVars, specialVars, verdictVars, blameVars>>

\* What handleMinigameSelect demands of the Admin's choice.
MaySelect(game, ids) ==
    /\ state = "MINIGAME_SELECT"
    /\ adminId \in players      \* the sender is the Admin
    /\ Cardinality(ids) >= LimitMin[game] /\ Cardinality(ids) <= LimitMax[game]
    /\ ids \subseteq Eligible
    /\ AdminMaySelectSelf \/ adminId \notin ids
    /\ game \in AudienceGame => ExpandParticipants(game, ids) # ids

AdminSelectMinigame(game, ids) == MaySelect(game, ids) /\ BeginRound(game, ids)

\* Mutant: nobody is left over as the audience.
AutoSelectCountAll(game, n) == Least(Greatest(LimitMin[game], Least(LimitMax[game], n)), n)

\* How many players the selection timeout picks from a pool of n: the limit's
\* range clamped to the pool; when that leaves an audience game without an
\* audience, the first LimitMin - 1 of them, or all but one if that is none.
AutoSelectCount(game, n) ==
    LET taken == Least(Greatest(LimitMin[game], Least(LimitMax[game], n)), n)
        kept == IF LimitMin[game] > 1 THEN LimitMin[game] - 1 ELSE taken - 1
    IN  IF game \in AudienceGame /\ taken > 0 /\ taken = n THEN Least(kept, taken) ELSE taken

\* timer:expired in MINIGAME_SELECT.
AutoSelect(game, ids) ==
    /\ state = "MINIGAME_SELECT"
    /\ ids \subseteq Eligible
    /\ Cardinality(ids) = AutoSelectCount(game, Cardinality(Eligible))
    /\ BeginRound(game, ids)

\* Mutant: a Hacker may hack once per charge rather than once per round.
MayHackAgain(p, target) ==
    /\ state = "HACKER_CORRUPTION"
    /\ round.active
    /\ ~firewall
    /\ p \in hackers
    /\ hacksRemaining[p] > 0
    /\ target \in round.participants
    /\ target \notin round.hacked

\* The open window, a Hacker with a charge left and no action yet this round,
\* and a participant nobody else has hit.
MayHack(p, target) ==
    /\ state = "HACKER_CORRUPTION"
    /\ round.active
    /\ ~firewall
    /\ p \in hackers
    /\ hacksRemaining[p] > 0
    /\ p \notin round.used
    /\ target \in round.participants
    /\ target \notin round.hacked

\* An accepted hack locks its target, spends a charge and uses the Hacker's
\* one action of the round, together.
SubmitHack(p, target) ==
    /\ MayHack(p, target)
    /\ round' = [round EXCEPT !.hacked = @ \cup {target}, !.used = @ \cup {p}]
    /\ hacksRemaining' = [hacksRemaining EXCEPT ![p] = @ - 1]
    /\ UNCHANGED <<phaseVars, rosterVars, hackers, hackerCount, adminVars, roundInCycle,
                   specialVars, firewall, verdictVars, blameVars>>

\* A step of a round that only moves to the next phase.
NextRoundPhase(from, to) ==
    /\ state = from
    /\ round.active
    /\ EnterPhase(to)
    /\ UNCHANGED <<rosterVars, roleVars, adminVars, roundInCycle, specialVars, firewall,
                   verdictVars, blameVars>>

\* proceedToInstructions: the module is started around the fixed participants.
HackWindowOver ==
    /\ NextRoundPhase("HACKER_CORRUPTION", "MINIGAME_INSTRUCTIONS")
    /\ round' = [round EXCEPT !.started = TRUE]

InstructionsOver ==
    NextRoundPhase("MINIGAME_INSTRUCTIONS", "MINIGAME_PLAY") /\ UNCHANGED round

\* completeMinigame, whether the players finished, the time ran out or the
\* host forced the end.  The other accepted actions of a game in progress
\* change only the module's own state.
CompleteMinigame ==
    /\ NextRoundPhase("MINIGAME_PLAY", "RESULTS_REVEAL")
    /\ round.started
    /\ UNCHANGED round

\* Mutant: the round stays on the room after its results.
ResultsOverKeepRound ==
    NextRoundPhase("RESULTS_REVEAL", "DISCUSSION") /\ UNCHANGED round

ResultsOver ==
    /\ NextRoundPhase("RESULTS_REVEAL", "DISCUSSION")
    /\ round' = NoRound

-----------------------------------------------------------------------------
(* The special game *)

\* Mutant: the special game comes back at the end of every round.
SpecialGameDueAgain == roundInCycle >= RoundsPerCycle

\* The rule 'placeholder-end-of-cycle-once'.
SpecialGameDue == ~specialUsed /\ roundInCycle >= RoundsPerCycle

\* The rule 'bomb-protocol-scaling', clamped by the config and by the pool.
SpecialCount(n) ==
    LET scaled == IF n <= 5 THEN 3 ELSE IF n <= 7 THEN 4 ELSE 5
    IN  Least(Greatest(SpecialMin, Least(SpecialMax, Least(scaled, n))), n)

BeginSpecialGame ==
    /\ \E S \in SUBSET Eligible :
          /\ Cardinality(S) = SpecialCount(Cardinality(Eligible))
          /\ special' = [active |-> TRUE, started |-> FALSE, participants |-> S]
    /\ specialUsed' = TRUE
    /\ lastSpecial' = lastSpecial
    /\ clock' = PauseMatchClock(clock)
    /\ EnterPhase("SPECIAL_GAME_INTRO")
    /\ UNCHANGED <<rosterVars, roleVars, adminVars, roundVars, firewall, winner, blameVars>>

\* resolveAfterRoundOrSpecial, as DISCUSSION calls it.
DiscussionOver ==
    /\ state = "DISCUSSION"
    /\ \/ SpecialGameDue /\ BeginSpecialGame
       \/ /\ ~SpecialGameDue
          /\ EnterMinigameSelect
          /\ UNCHANGED <<rosterVars, roleVars, roundVars, specialVars, firewall, verdictVars,
                         blameVars>>

SpecialIntroOver ==
    /\ state = "SPECIAL_GAME_INTRO"
    /\ special' = [special EXCEPT !.started = special.active]
    /\ EnterPhase("SPECIAL_GAME_PLAY")
    /\ UNCHANGED <<rosterVars, roleVars, adminVars, roundVars, specialUsed, lastSpecial,
                   firewall, verdictVars, blameVars>>

CompleteSpecialGame ==
    /\ state = "SPECIAL_GAME_PLAY"
    /\ special.active
    /\ lastSpecial' \in {"success", "failure"}
    /\ EnterPhase("SPECIAL_GAME_RESULT")
    /\ UNCHANGED <<rosterVars, roleVars, adminVars, roundVars, special, specialUsed, firewall,
                   verdictVars, blameVars>>

\* handleSpecialGameResult.  A failure costs FailPenalty and ends the match if
\* that leaves no time; otherwise the clock resumes in a new epoch.  The game
\* has been used by now, so resolveAfterRoundOrSpecial always comes to
\* MINIGAME_SELECT.
SpecialResultOver ==
    /\ state = "SPECIAL_GAME_RESULT"
    /\ special' = NoSpecial
    /\ LET charged == IF lastSpecial = "failure" THEN ApplyPenalty(clock, FailPenalty) ELSE clock
       IN  \/ /\ lastSpecial = "failure" /\ charged.remaining <= 0
              /\ winner' = "hackers"
              /\ clock' = StopMatchClock(charged)
              /\ EnterPhase("FINAL_RESULTS")
              /\ UNCHANGED <<firewall, adminVars>>
           \/ /\ lastSpecial # "failure" \/ charged.remaining > 0
              /\ firewall' = (firewall \/ lastSpecial = "success")
              /\ clock' = ResumeMatchClock(charged)
              /\ EnterMinigameSelect
              /\ winner' = winner
    /\ UNCHANGED <<rosterVars, roleVars, roundVars, specialUsed, lastSpecial, blameVars>>

-----------------------------------------------------------------------------
(* The accusation *)

\* handlePushButton: a press is only accepted from the allowed states, outside
\* the cooldown, by an eligible voter of a match nobody has won.
MayPushButton(p) ==
    /\ state \in AccusationAllowed
    /\ winner = "none"
    /\ cooldown = 0
    /\ p \in Eligible

PushButton(p) ==
    /\ MayPushButton(p)
    /\ accusation' = [NoAccusation EXCEPT !.initiator = p, !.required = hackerCount,
                                          !.origin = state]
    /\ EnterPhase("ACCUSATION_SELECT")
    /\ UNCHANGED <<rosterVars, roleVars, adminVars, roundVars, specialVars, firewall,
                   verdictVars, cooldown>>

\* The initiator names exactly as many as the record requires.
MayAccuse(p, suspects) ==
    /\ state = "ACCUSATION_SELECT"
    /\ p = accusation.initiator
    /\ Cardinality(suspects) = accusation.required
    /\ suspects \subseteq Eligible

\* The voters are fixed when the suspects are locked in.
SubmitAccusation(p, suspects) ==
    /\ MayAccuse(p, suspects)
    /\ accusation' = [accusation EXCEPT !.suspects = suspects, !.voters = Eligible]
    /\ EnterPhase("ACCUSATION_VOTE")
    /\ UNCHANGED <<rosterVars, roleVars, adminVars, roundVars, specialVars, firewall,
                   verdictVars, cooldown>>

\* Mutant: every accusation that comes to nothing costs the Admin the turn.
ReturnToNextAdmin(origin) == EnterMinigameSelect

\* An accusation that interrupted the Admin's choice gives the same Admin the
\* turn back; one that interrupted DISCUSSION goes on to the next Admin.
ReturnToGameplay(origin) ==
    IF origin = "MINIGAME_SELECT"
    THEN EnterPhase("MINIGAME_SELECT") /\ UNCHANGED adminVars
    ELSE EnterMinigameSelect

\* Selection timeout: the accusation is dropped without a cooldown.
AccusationCancelled ==
    /\ state = "ACCUSATION_SELECT"
    /\ accusation' = NoAccusation
    /\ ReturnToGameplay(accusation.origin)
    /\ UNCHANGED <<rosterVars, roleVars, roundVars, specialVars, firewall, verdictVars, cooldown>>

\* Mutant: a tie approves.
HalfOfTheVoters(acc) == 2 * Cardinality(acc.approve) >= Cardinality(acc.voters)

StrictMajority(acc) == 2 * Cardinality(acc.approve) > Cardinality(acc.voters)

RejectAccusation(acc) ==
    /\ ~StrictMajority(acc)
    /\ cooldown' = AccusationCooldown
    /\ accusation' = NoAccusation
    /\ ReturnToGameplay(acc.origin)
    /\ UNCHANGED verdictVars

ApproveAccusation(acc) ==
    /\ StrictMajority(acc)
    /\ winner' = IF acc.suspects = hackers THEN "crew" ELSE "hackers"
    /\ clock' = StopMatchClock(clock)
    /\ accusation' = NoAccusation
    /\ EnterPhase("FINAL_RESULTS")
    /\ UNCHANGED <<adminVars, cooldown>>

ResolveAccusationVote(acc) ==
    /\ RejectAccusation(acc) \/ ApproveAccusation(acc)
    /\ UNCHANGED <<rosterVars, roleVars, roundVars, specialVars, firewall>>

\* One vote per voter of the fixed electorate.
MayVote(p) == state = "ACCUSATION_VOTE" /\ p \in accusation.voters \ submitted

SubmitAccusationVote(p, vote) ==
    /\ MayVote(p)
    /\ LET acc == IF vote = "APPROVE"
                  THEN [accusation EXCEPT !.approve = @ \cup {p}]
                  ELSE [accusation EXCEPT !.reject = @ \cup {p}]
       IN  \/ /\ acc.voters \subseteq acc.approve \cup acc.reject
              /\ ResolveAccusationVote(acc)
           \/ /\ ~(acc.voters \subseteq acc.approve \cup acc.reject)
              /\ accusation' = acc
              /\ submitted' = submitted \cup {p}
              /\ UNCHANGED <<state, rosterVars, roleVars, adminVars, roundVars, specialVars,
                             firewall, verdictVars, cooldown>>

\* Voting timeout, or the host ending the vote early.
AccusationVoteOver ==
    state = "ACCUSATION_VOTE" /\ ResolveAccusationVote(accusation)

-----------------------------------------------------------------------------
(* The end of a match, and events legal in any state *)

\* matchClock:expired, whatever the phase.
MatchClockExpired ==
    /\ clock.status = "running" /\ clock.left = 0
    /\ winner = "none"
    /\ winner' = "hackers"
    /\ clock' = StopMatchClock(clock)
    /\ round' = NoRound
    /\ special' = NoSpecial
    /\ accusation' = NoAccusation
    /\ EnterPhase("FINAL_RESULTS")
    /\ UNCHANGED <<rosterVars, roleVars, adminVars, roundInCycle, specialUsed, lastSpecial,
                   firewall, cooldown>>

RequestRematch(p) ==
    /\ state = "FINAL_RESULTS"
    /\ p \in players \ submitted
    /\ submitted' = submitted \cup {p}
    /\ UNCHANGED <<state, rosterVars, roleVars, adminVars, roundVars, specialVars, firewall,
                   verdictVars, blameVars>>

HostAdvance ==
    /\ state = "FINAL_RESULTS"
    /\ EnterPhase("REMATCH_LOBBY")
    /\ UNCHANGED <<rosterVars, roleVars, adminVars, roundVars, specialVars, firewall,
                   verdictVars, blameVars>>

HostRestartMatch ==
    /\ state \in OverState
    /\ ClearMatch
    /\ hackers' = {}
    /\ hackerCount' = 0
    /\ hacksRemaining' = [p \in Player |-> 0]
    /\ roundInCycle' = 0
    /\ firewall' = FALSE
    /\ specialUsed' = FALSE
    /\ adminId' = NoPlayer
    /\ adminQueue' = {}
    /\ clock' = InitMatchClock
    /\ EnterPhase("LOBBY")
    /\ UNCHANGED rosterVars

\* host:closeRoom and host:graceExpired change the phase and nothing else.
CloseRoom ==
    /\ state # "ABANDONED"
    /\ EnterPhase("ABANDONED")
    /\ UNCHANGED <<rosterVars, roleVars, adminVars, roundVars, specialVars, firewall,
                   verdictVars, blameVars>>

\* Time passes: deps.now() moves towards the deadlines the room holds.
Tick ==
    /\ cooldown > 0 \/ (clock.status = "running" /\ clock.left > 0)
    /\ clock' = TickMatchClock(clock)
    /\ cooldown' = AtLeastZero(cooldown - 1)
    /\ UNCHANGED <<phaseVars, rosterVars, roleVars, adminVars, roundVars, specialVars, firewall,
                   winner, accusation>>

-----------------------------------------------------------------------------
Init ==
    /\ state = "LOBBY" /\ submitted = {}
    /\ players = {} /\ connected = {}
    /\ hackers = {} /\ hackerCount = 0
    /\ hacksRemaining = [p \in Player |-> 0]
    /\ adminId = NoPlayer /\ adminQueue = {}
    /\ roundInCycle = 0 /\ round = NoRound
    /\ special = NoSpecial /\ specialUsed = FALSE /\ lastSpecial = "none"
    /\ firewall = FALSE
    /\ clock = InitMatchClock
    /\ accusation = NoAccusation /\ cooldown = 0
    /\ winner = "none"

RosterEvent ==
    \E p \in Player : JoinPlayer(p) \/ LeavePlayer(p) \/ PlayerDisconnected(p) \/ PlayerReconnected(p)

SetupEvent ==
    \/ HostStartGame \/ HostStartRematch
    \/ \E p \in Player : AcknowledgeReveal(p)
    \/ RoleRevealOver \/ GameIntroOver

RoundEvent ==
    \/ \E g \in Minigame, ids \in SUBSET Player : AdminSelectMinigame(g, ids) \/ AutoSelect(g, ids)
    \/ \E p, t \in Player : SubmitHack(p, t)
    \/ HackWindowOver \/ InstructionsOver \/ CompleteMinigame \/ ResultsOver \/ DiscussionOver

SpecialEvent == SpecialIntroOver \/ CompleteSpecialGame \/ SpecialResultOver

AccusationEvent ==
    \/ \E p \in Player : PushButton(p)
    \/ \E p \in Player, S \in SUBSET Player : SubmitAccusation(p, S)
    \/ AccusationCancelled
    \/ \E p \in Player, v \in {"APPROVE", "REJECT"} : SubmitAccusationVote(p, v)
    \/ AccusationVoteOver

EndEvent ==
    \/ MatchClockExpired \/ HostAdvance \/ HostRestartMatch \/ CloseRoom
    \/ \E p \in Player : RequestRematch(p)

Next ==
    RosterEvent \/ SetupEvent \/ RoundEvent \/ SpecialEvent \/ AccusationEvent \/ EndEvent \/ Tick

Spec == Init /\ [][Next]_vars

-----------------------------------------------------------------------------
(* Properties *)

Round ==
    [active: BOOLEAN, started: BOOLEAN, game: Minigame \cup {NoGame}, selected: SUBSET Player,
     participants: SUBSET Player, hacked: SUBSET Player, used: SUBSET Player]

Special == [active: BOOLEAN, started: BOOLEAN, participants: SUBSET Player]

Accusation ==
    [initiator: Player \cup {NoPlayer}, required: Nat, suspects: SUBSET Player,
     voters: SUBSET Player, approve: SUBSET Player, reject: SUBSET Player,
     origin: AccusationAllowed]

\* Every field of the room holds a value of its type: in particular no count of
\* charges, of remaining time or of cooldown ever goes below zero.
TypeOK ==
    /\ state \in GameState
    /\ submitted \subseteq Player
    /\ players \subseteq Player
    /\ connected \subseteq players
    /\ hackers \subseteq players
    /\ hackerCount \in Nat
    /\ hacksRemaining \in [Player -> 0..2]
    /\ adminId \in Player \cup {NoPlayer}
    /\ adminQueue \subseteq Player
    /\ roundInCycle \in 0..RoundCap
    /\ round \in Round
    /\ special \in Special
    /\ specialUsed \in BOOLEAN
    /\ lastSpecial \in {"none", "success", "failure"}
    /\ firewall \in BOOLEAN
    /\ clock \in Clock
    /\ accusation \in Accusation
    /\ cooldown \in 0..AccusationCooldown
    /\ winner \in {"none", "crew", "hackers"}

\* Of an open room, currentRound exists exactly in the phases of a round,
\* currentSpecialRound in those of the special game and currentAccusation in
\* those of an accusation, whichever handler or cross-cutting event led there;
\* a module is started exactly while its game is explained, played or shown.
RecordsFollowPhase ==
    state # "ABANDONED" =>
        /\ round.active <=> state \in RoundState
        /\ round.started <=> state \in RoundState \ {"HACKER_CORRUPTION"}
        /\ special.active <=> state \in SpecialState
        /\ special.started <=> state \in SpecialState \ {"SPECIAL_GAME_INTRO"}
        /\ accusation.initiator # NoPlayer <=> state \in AccusationState

\* GAMEPLAY_RULES_V1 section 2: the match clock runs exactly during
\* investigation, is paused exactly during the special game, has not started
\* before and is stopped once there is a winner - and there is a winner exactly
\* when the match is over.
ClockFollowsPhase ==
    state # "ABANDONED" =>
        /\ clock.status = "running" <=> state \in InvestigationState
        /\ clock.status = "paused" <=> state \in SpecialState
        /\ clock.status = "stopped" <=> state \in OverState
        /\ winner # "none" <=> state \in OverState

\* Section 7, over the whole hack window and after it: each accepted hack is
\* of one Hacker and hits one participant nobody else hit, every action used
\* has cost a charge, and roles stay as assigned while the match lasts.
HackAccounting ==
    /\ round.used \subseteq hackers
    /\ round.hacked \subseteq round.participants
    /\ Cardinality(round.hacked) = Cardinality(round.used)
    /\ \A p \in round.used : hacksRemaining[p] < 2
    /\ \A p \in Player : hacksRemaining[p] > 0 => p \in hackers

\* A firewall, and only one, is what a won special game of this match leaves,
\* and the special game that earned it is never played again.
FirewallIsEarned ==
    /\ firewall => lastSpecial = "success"
    /\ lastSpecial # "none" => specialUsed
    /\ state = "HACKER_CORRUPTION" => ~firewall

\* A firewall is only given up by the one round it protects, in which no hack
\* window opens and nobody is hacked, or by the start of another match.
FirewallBlocksOneRound ==
    [][firewall /\ ~firewall' =>
          \/ state' = "MINIGAME_INSTRUCTIONS" /\ round'.started /\ round'.hacked = {}
          \/ state \in OverState /\ state' \in {"LOBBY", "ROLE_REVEAL"}]_vars

\* An open vote is over the right number of suspects and a fixed electorate,
\* records one vote per voter, and is not already decided by everyone's vote.
OpenVoteIsUndecided ==
    state = "ACCUSATION_VOTE" =>
        /\ Cardinality(accusation.suspects) = Cardinality(hackers)
        /\ accusation.voters = players
        /\ accusation.approve \cap accusation.reject = {}
        /\ submitted = accusation.approve \cup accusation.reject
        /\ submitted # accusation.voters

\* Whenever a game is to be chosen there is an Admin of the room to choose it,
\* whichever of rotation, accusation and restart led there, and although
\* assignNextAdmin may come up with nobody.
SelectionHasAnAdmin == state = "MINIGAME_SELECT" => adminId \in players

OutOfTime == clock.status = "running" /\ clock.left = 0

\* A match is won in three ways only: the clock ran out, a failed special game
\* cost all the time left, or more than half of the voters (the vote being
\* cast included) approved an accusation - which Crew wins exactly when it
\* names all the Hackers and nobody else.
VerdictIsEarned ==
    [][winner = "none" /\ winner' # "none" =>
          \/ OutOfTime /\ winner' = "hackers"
          \/ /\ state = "SPECIAL_GAME_RESULT" /\ lastSpecial = "failure"
             /\ clock.remaining <= FailPenalty /\ winner' = "hackers"
          \/ /\ state = "ACCUSATION_VOTE"
             /\ \E late \in SUBSET (accusation.voters \ submitted) :
                   /\ Cardinality(late) <= 1
                   /\ 2 * Cardinality(accusation.approve \cup late) > Cardinality(accusation.voters)
             /\ winner' = IF accusation.suspects = hackers THEN "crew" ELSE "hackers"]_vars

\* Once there is a winner nothing overrides it, not even a clock expiry or a
\* vote that was on its way, until the host starts over.
VerdictStands ==
    [][winner # "none" =>
          \/ winner' = winner /\ clock' = clock
          \/ state \in OverState /\ state' \in {"LOBBY", "ROLE_REVEAL"} /\ winner' = "none"]_vars

\* ARCHITECTURE section 3 makes ABANDONED terminal.
AbandonedIsTerminal == [][state = "ABANDONED" => state' = "ABANDONED"]_vars

\* The comment on returnToGameplayAfterAccusation: an accusation that
\* interrupted DISCUSSION and came to nothing goes on as the end of DISCUSSION
\* would, which is the special game when that is due.
AccusationEndsLikeDiscussion ==
    [][SpecialGameDue /\ state \in AccusationState /\ accusation.origin = "DISCUSSION" =>
          state' \in AccusationState \cup {"SPECIAL_GAME_INTRO", "FINAL_RESULTS", "ABANDONED"}]_vars

\* GAMEPLAY_RULES_V1 section 5: a round's selected players fit the limits of
\* its minigame, whoever selected them.
RoundWithinLimits ==
    round.active => /\ Cardinality(round.selected) >= LimitMin[round.game]
                    /\ Cardinality(round.selected) <= LimitMax[round.game]
=============================================================================
