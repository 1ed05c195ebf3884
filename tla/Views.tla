-------------------------------- MODULE Views --------------------------------
(***************************************************************************)
(* What the server shows of a room (apps/server/src/views): the TV's view, *)
(* a player's view and a player's private payload, as functions of the     *)
(* public room and of a record of its secrets.  That they are functions of *)
(* the secrets lets a property ask what they would have been with others.  *)
(* The part of a view that a game builds is in the modules of the games.   *)
(***************************************************************************)
EXTENDS RoomFsm

\* The secrets of a room: RoomPrivateState, the hacks of the round, the votes.
Secrets == [hackers |-> hackers, budget |-> hacksRemaining, hacked |-> round.hacked,
            used |-> round.used, approve |-> accusation.approve, reject |-> accusation.reject]

Role(s, p) == IF p \in s.hackers THEN "HACKER" ELSE "CREW"

\* toPublicSummary, for every player.
Summaries == [p \in players |-> IF p \in connected THEN "connected" ELSE "disconnected"]

\* For the mutants: the roles go out whenever the private state is at hand.
FinalRevealAlways(s) == {<<p, Role(s, p)>> : p \in players}

\* Every role, once there is a winner and until a rematch takes the winner back.
FinalReveal(s) == IF winner = "none" THEN {} ELSE {<<p, Role(s, p)>> : p \in players}

\* What both kinds of view say of the public room.
Common(s) ==
    [phase |-> state, players |-> Summaries, adminId |-> adminId, matchClock |-> clock,
     hackerCount |-> hackerCount, cooldown |-> cooldown, winner |-> winner,
     finalReveal |-> FinalReveal(s)]

NoAccusationView ==
    [shown |-> FALSE, initiator |-> NoPlayer, required |-> 0, suspects |-> {}, voted |-> 0,
     total |-> 0]

\* suspectIds is null until the suspects are locked in, and with it the counts.
Locked == accusation.suspects # {}

AccusationPublicView(s) ==
    IF state \notin AccusationState THEN NoAccusationView
    ELSE [shown |-> TRUE, initiator |-> accusation.initiator, required |-> accusation.required,
          suspects |-> accusation.suspects,
          voted |-> IF Locked THEN Cardinality(s.approve \cup s.reject) ELSE 0,
          total |-> IF Locked THEN Cardinality(accusation.voters) ELSE 0]

\* A game is shown while its module is started, with its results in their phase.
CurrentMinigame ==
    IF round.started THEN [game |-> round.game, reveal |-> state = "RESULTS_REVEAL"]
    ELSE [game |-> NoGame, reveal |-> FALSE]

CurrentSpecialGame ==
    IF special.started
    THEN [participants |-> special.participants, reveal |-> state = "SPECIAL_GAME_RESULT"]
    ELSE [participants |-> {}, reveal |-> FALSE]

TvView(s) ==
    [common |-> Common(s), roundInCycle |-> roundInCycle, firewall |-> firewall,
     minigame |-> CurrentMinigame, special |-> CurrentSpecialGame,
     accusation |-> AccusationPublicView(s)]

-----------------------------------------------------------------------------
\* Nobody is eliminated, so the eligible players are all of them.
AdminSelection(p) ==
    IF p = adminId /\ state = "MINIGAME_SELECT"
    THEN [shown |-> TRUE, games |-> Minigame, eligible |-> Eligible]
    ELSE [shown |-> FALSE, games |-> {}, eligible |-> {}]

NoHackerInfo == [shown |-> FALSE, hacksRemaining |-> 0, canHackNow |-> FALSE, targets |-> {}]

\* The targets are all the participants: who was hacked already stays secret.
HackerInfo(s, p) ==
    LET can == /\ state = "HACKER_CORRUPTION" /\ round.active /\ ~firewall
               /\ s.budget[p] > 0 /\ p \notin s.used
    IN  IF p \notin s.hackers THEN NoHackerInfo
        ELSE [shown |-> TRUE, hacksRemaining |-> s.budget[p], canHackNow |-> can,
              targets |-> IF can THEN round.participants ELSE {}]

\* The initiator chooses among the eligible voters until the suspects are locked.
EligibleSuspects(p) ==
    IF state \in AccusationState /\ p = accusation.initiator /\ ~Locked THEN Eligible ELSE {}

HasVoted(s, p) == state \in AccusationState /\ Locked /\ p \in s.approve \cup s.reject

\* Advisory: the cooldown is shown beside it.
CanPushButton(p) ==
    state \in AccusationAllowed /\ accusation.initiator = NoPlayer /\ p \in Eligible

\* Of the first of the two records that is there.
IsParticipant(p) ==
    p \in (IF round.active THEN round.participants ELSE special.participants)

PlayerView(s, p) ==
    [common |-> Common(s), isParticipant |-> IsParticipant(p),
     minigame |-> IF round.started THEN CurrentMinigame.reveal ELSE CurrentSpecialGame.reveal,
     adminSelection |-> AdminSelection(p), hackerInfo |-> HackerInfo(s, p),
     canPushButton |-> CanPushButton(p), accusation |-> AccusationPublicView(s),
     eligibleSuspects |-> EligibleSuspects(p), hasVoted |-> HasVoted(s, p)]

\* buildPrivatePlayerView, for a player with a role.
PrivateView(s, p) ==
    [role |-> Role(s, p), fellows |-> IF p \in s.hackers THEN s.hackers \ {p} ELSE {}]

-----------------------------------------------------------------------------
(* Properties *)

\* The secrets the room could have as well, of which those in `who` know their
\* own: other roles and charges, another use of the hack window, other votes of
\* those who voted.
Agreeing(own, who, set) == {S \in SUBSET set : S \cap who = own \cap who}

Voted == accusation.approve \cup accusation.reject

Alternatives(who) ==
    LET Hacks == IF state = "HACKER_CORRUPTION"
                 THEN {{}, round.participants} \X Agreeing(round.used, who, players)
                 ELSE {<<round.hacked, round.used>>}
    IN  {[hackers |-> H,
          budget |-> [p \in Player |-> IF p \in who THEN hacksRemaining[p]
                                       ELSE IF p \in H THEN 2 ELSE 0],
          hacked |-> k[1], used |-> k[2], approve |-> A, reject |-> Voted \ A] :
            H \in Agreeing(hackers, who, players), k \in Hacks,
            A \in Agreeing(accusation.approve, who, Voted)}

\* Until there is a winner, nothing that is sent tells a role, a hack or a vote
\* (the comments of build-tv-view.ts, build-player-view.ts and view-utils.ts):
\* the TV's view would be the same with any other secrets, a player's view with
\* any that are their own, and so would a Crew player's private payload.
SecretsStaySecret ==
    winner = "none" =>
        /\ \A s \in Alternatives({}) : TvView(s) = TvView(Secrets)
        /\ \A p \in players : \A s \in Alternatives({p}) :
              /\ PlayerView(s, p) = PlayerView(Secrets, p)
              /\ p \notin hackers => PrivateView(s, p) = PrivateView(Secrets, p)
=============================================================================
