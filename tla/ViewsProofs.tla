----------------------------- MODULE ViewsProofs ------------------------------
(***************************************************************************)
(* The views keep the room's secrets, for every roster, every setting and  *)
(* every state that can be reached: what is sent before there is a winner  *)
(* is the same function of the public room whatever the secrets are.       *)
(*                                                                         *)
(* The screens offer what the handlers accept.  That is shown event by     *)
(* event; the button and the vote need the invariants of RoomFsmProofs,    *)
(* for the screens look at other fields than the handlers do.              *)
(***************************************************************************)
EXTENDS Screens, RoomFsmProofs

\* What an alternative has in common with the room: its ballots are those of the
\* same voters, and what the players in `who` know of themselves.
LEMMA AlternativeFacts ==
    ASSUME players \subseteq Player, NEW who \in SUBSET players, NEW s \in Alternatives(who)
    PROVE  /\ s.approve \cup s.reject = Voted
           /\ \A p \in who : (p \in s.hackers <=> p \in hackers)
           /\ \A p \in who : s.budget[p] = hacksRemaining[p]
           /\ \A p \in who : (p \in s.used <=> p \in round.used)
<1> DEFINE Hacks == IF state = "HACKER_CORRUPTION"
                    THEN {{}, round.participants} \X Agreeing(round.used, who, players)
                    ELSE {<<round.hacked, round.used>>}
<1>1. PICK H \in Agreeing(hackers, who, players), k \in Hacks,
           A \in Agreeing(accusation.approve, who, Voted) :
           s = [hackers |-> H,
                budget |-> [p \in Player |-> IF p \in who THEN hacksRemaining[p]
                                             ELSE IF p \in H THEN 2 ELSE 0],
                hacked |-> k[1], used |-> k[2], approve |-> A, reject |-> Voted \ A]
  BY DEF Alternatives
<1>2. s.approve \cup s.reject = Voted
  <2>1. A \subseteq Voted
    BY DEF Agreeing
  <2> QED BY <1>1, <2>1
<1>3. \A p \in who : (p \in s.hackers <=> p \in hackers)
  <2>1. H \cap who = hackers \cap who
    BY DEF Agreeing
  <2> QED BY <1>1, <2>1
<1>4. \A p \in who : s.budget[p] = hacksRemaining[p]
  BY <1>1
<1>5. \A p \in who : (p \in s.used <=> p \in round.used)
  <2>1. CASE state = "HACKER_CORRUPTION"
    <3>1. k[2] \in Agreeing(round.used, who, players)
      BY <2>1
    <3>2. k[2] \cap who = round.used \cap who
      BY <3>1 DEF Agreeing
    <3> QED BY <1>1, <3>2
  <2>2. CASE state # "HACKER_CORRUPTION"
    <3>1. k[2] = round.used
      BY <2>2
    <3> QED BY <1>1, <3>1
  <2> QED BY <2>1, <2>2
<1> QED BY <1>2, <1>3, <1>4, <1>5

\* The room itself votes as it does.
LEMMA OwnBallots == Secrets.approve \cup Secrets.reject = Voted
BY DEF Secrets, Voted

\* Before there is a winner the part common to all views tells no role.
LEMMA CommonKeepsSecrets == ASSUME winner = "none", NEW s PROVE Common(s) = Common(Secrets)
BY DEF Common, FinalReveal

\* The state of an accusation tells how many have voted, and not what.
LEMMA AccusationKeepsSecrets ==
    ASSUME NEW s, s.approve \cup s.reject = Voted
    PROVE  AccusationPublicView(s) = AccusationPublicView(Secrets)
<1>1. s.approve \cup s.reject = Secrets.approve \cup Secrets.reject
  BY OwnBallots
<1> QED BY <1>1 DEF AccusationPublicView

\* A player's hack panel is made of their own role, charges and action.
LEMMA PanelKeepsSecrets ==
    ASSUME NEW s, NEW p,
           p \in s.hackers <=> p \in hackers,
           s.budget[p] = hacksRemaining[p],
           p \in s.used <=> p \in round.used
    PROVE  HackerInfo(s, p) = HackerInfo(Secrets, p)
<1>1. /\ p \in Secrets.hackers <=> p \in hackers
      /\ Secrets.budget[p] = hacksRemaining[p]
      /\ p \in Secrets.used <=> p \in round.used
  BY DEF Secrets
<1> QED BY <1>1 DEF HackerInfo

\* The private payload of the Crew says no more than that they are Crew.
LEMMA CrewLearnsNothing ==
    ASSUME NEW s, NEW p, p \notin s.hackers, p \notin hackers
    PROVE  PrivateView(s, p) = PrivateView(Secrets, p)
<1>1. p \notin Secrets.hackers
  BY DEF Secrets
<1> QED BY <1>1 DEF PrivateView, Role

\* No view tells a secret before there is a winner.
THEOREM SecretsKept == Spec => []SecretsStaySecret
<1>1. TypeOK => SecretsStaySecret
  <2> SUFFICES ASSUME TypeOK, winner = "none" PROVE
         /\ \A s \in Alternatives({}) : TvView(s) = TvView(Secrets)
         /\ \A p \in players : \A s \in Alternatives({p}) :
               /\ PlayerView(s, p) = PlayerView(Secrets, p)
               /\ p \notin hackers => PrivateView(s, p) = PrivateView(Secrets, p)
    BY DEF SecretsStaySecret
  <2>1. players \subseteq Player
    BY DEF TypeOK
  <2>2. ASSUME NEW s \in Alternatives({}) PROVE TvView(s) = TvView(Secrets)
    <3>1. AccusationPublicView(s) = AccusationPublicView(Secrets)
      BY <2>1, AlternativeFacts, AccusationKeepsSecrets
    <3> QED BY <3>1, CommonKeepsSecrets DEF TvView
  <2>3. ASSUME NEW p \in players, NEW s \in Alternatives({p})
        PROVE  /\ PlayerView(s, p) = PlayerView(Secrets, p)
               /\ p \notin hackers => PrivateView(s, p) = PrivateView(Secrets, p)
    <3>1. /\ s.approve \cup s.reject = Voted
          /\ p \in s.hackers <=> p \in hackers
          /\ s.budget[p] = hacksRemaining[p]
          /\ p \in s.used <=> p \in round.used
      <4>1. {p} \in SUBSET players /\ p \in {p}
        OBVIOUS
      <4> QED BY <2>1, <4>1, AlternativeFacts
    <3>2. /\ AccusationPublicView(s) = AccusationPublicView(Secrets)
          /\ HackerInfo(s, p) = HackerInfo(Secrets, p)
      BY <3>1, AccusationKeepsSecrets, PanelKeepsSecrets
    <3>3. HasVoted(s, p) = HasVoted(Secrets, p)
      BY <3>1, OwnBallots DEF HasVoted
    <3>4. p \notin hackers => PrivateView(s, p) = PrivateView(Secrets, p)
      BY <3>1, CrewLearnsNothing
    <3> QED BY <3>2, <3>3, <3>4, CommonKeepsSecrets DEF PlayerView
  <2> QED BY <2>2, <2>3
<1> QED BY <1>1, TypeCorrect, PTL

-----------------------------------------------------------------------------
(* The screens *)

\* Each part of a phone's screen has events of one type.
LEMMA PartTypes ==
    /\ \A sel : \A e \in AdminMinigameSelect(sel) : e.type = "player:adminSelectMinigame"
    /\ \A info : \A e \in HackerTargetSelect(info) : e.type = "player:submitHack"
    /\ \A p, info, S : \A e \in AccusationSelect(p, info, S) : e.type = "player:submitAccusation"
    /\ \A b : \A e \in AccusationVote(b) : e.type = "player:submitAccusationVote"
    /\ \A e \in PushButtonControl : e.type = "player:pushButton"
BY DEF AdminMinigameSelect, AdminChoice, HackerTargetSelect, Hack, AccusationSelect, Accuse,
       AccusationVote, Vote, PushButtonControl, Simple

\* The part of p's screen an event of each type comes from, and its condition.
LEMMA PhoneParts ==
    ASSUME NEW p, NEW e
    PROVE  LET v == PlayerView(Secrets, p)
               phone == Phone(p, v)
           IN  /\ e.type = "player:adminSelectMinigame" =>
                     (e \in phone <=> /\ state = "MINIGAME_SELECT" /\ p = adminId
                                      /\ e \in AdminMinigameSelect(AdminSelection(p)))
               /\ e.type = "player:submitHack" =>
                     (e \in phone <=> /\ state = "HACKER_CORRUPTION"
                                      /\ e \in HackerTargetSelect(HackerInfo(Secrets, p)))
               /\ e.type = "player:submitAccusation" =>
                     (e \in phone <=> /\ state = "ACCUSATION_SELECT"
                                      /\ e \in AccusationSelect(p, AccusationPublicView(Secrets),
                                                                EligibleSuspects(p)))
               /\ e.type = "player:submitAccusationVote" =>
                     (e \in phone <=> /\ state = "ACCUSATION_VOTE"
                                      /\ e \in AccusationVote(HasVoted(Secrets, p)))
               /\ e.type = "player:pushButton" =>
                     (e \in phone <=> CanPushButton(p) /\ e \in PushButtonControl)
<1> DEFINE v == PlayerView(Secrets, p)
<1>1. /\ v.common.phase = state
      /\ v.adminSelection = AdminSelection(p) /\ v.hackerInfo = HackerInfo(Secrets, p)
      /\ v.accusation = AccusationPublicView(Secrets)
      /\ v.eligibleSuspects = EligibleSuspects(p) /\ v.hasVoted = HasVoted(Secrets, p)
      /\ v.canPushButton = CanPushButton(p)
  BY DEF PlayerView, Common
<1>2. AdminSelection(p).shown <=> p = adminId /\ state = "MINIGAME_SELECT"
  BY DEF AdminSelection
<1> HIDE DEF v
<1>3. Phone(p, v) =
         (CASE state = "MINIGAME_SELECT" /\ AdminSelection(p).shown ->
                   AdminMinigameSelect(AdminSelection(p))
            [] state = "HACKER_CORRUPTION" -> HackerTargetSelect(HackerInfo(Secrets, p))
            [] state = "ACCUSATION_SELECT" ->
                   AccusationSelect(p, AccusationPublicView(Secrets), EligibleSuspects(p))
            [] state = "ACCUSATION_VOTE" -> AccusationVote(HasVoted(Secrets, p))
            [] OTHER -> {})
         \cup (IF CanPushButton(p) THEN PushButtonControl ELSE {})
  BY <1>1 DEF Phone
<1> QED BY <1>2, <1>3, PartTypes DEF v

\* The Admin's choice.
LEMMA SelectOffered ==
    ASSUME TypeOK, NEW p \in players, NEW g \in Minigame, NEW ids \in SUBSET players
    PROVE  LET e == AdminChoice(g, ids)
           IN  Accepted(p, e) <=> e \in Phone(p, PlayerView(Secrets, p)) /\ ~OfferedInVain(e)
<1> DEFINE e == AdminChoice(g, ids)
<1>1. e.type = "player:adminSelectMinigame" /\ e.game = g /\ e.ids = ids
  BY DEF AdminChoice
<1>2. Cardinality(ids) \in Nat /\ LimitMin[g] \in Nat /\ LimitMax[g] \in Nat
  BY RosterFinite, ConstantsAssumption
<1>3. \A g2, ids2 : e = AdminChoice(g2, ids2) => g2 = g /\ ids2 = ids
  BY DEF AdminChoice
<1> HIDE DEF e
<1>4. ASSUME state = "MINIGAME_SELECT", p = adminId
      PROVE  e \in AdminMinigameSelect(AdminSelection(p))
                <=> Cardinality(ids) >= LimitMin[g] /\ Cardinality(ids) <= LimitMax[g]
  <2>1. AdminSelection(p).games = Minigame /\ AdminSelection(p).eligible = players
    BY <1>4 DEF AdminSelection, Eligible
  <2>2. e \in AdminMinigameSelect(AdminSelection(p))
           <=> \E g2 \in Minigame : \E S \in SUBSET players :
                  Cardinality(S) \in LimitMin[g2] .. LimitMax[g2] /\ e = AdminChoice(g2, S)
    BY <2>1 DEF AdminMinigameSelect
  <2>3. e = AdminChoice(g, ids)
    BY DEF e
  <2> QED BY <1>2, <1>3, <2>2, <2>3
<1>5. e \in Phone(p, PlayerView(Secrets, p))
         <=> /\ state = "MINIGAME_SELECT" /\ p = adminId
             /\ Cardinality(ids) >= LimitMin[g] /\ Cardinality(ids) <= LimitMax[g]
  BY <1>1, <1>4, PhoneParts
<1>6. OfferedInVain(e) <=> \/ ~AdminMaySelectSelf /\ adminId \in ids
                           \/ g \in AudienceGame /\ ExpandParticipants(g, ids) = ids
  BY <1>1 DEF OfferedInVain
<1>7. Accepted(p, e) <=> p = adminId /\ MaySelect(g, ids)
  BY <1>1 DEF Accepted
<1> QED BY <1>5, <1>6, <1>7 DEF e, MaySelect, Eligible

\* A Hacker's target.
LEMMA HackOffered ==
    ASSUME TypeOK, NEW p \in players, NEW t \in players
    PROVE  LET e == Hack(t)
           IN  Accepted(p, e) <=> e \in Phone(p, PlayerView(Secrets, p)) /\ ~OfferedInVain(e)
<1> DEFINE e == Hack(t)
<1>1. e.type = "player:submitHack" /\ e.target = t
  BY DEF Hack
<1>2. \A u : e = Hack(u) => u = t
  BY DEF Hack
<1> HIDE DEF e
<1>3. /\ Secrets.hackers = hackers /\ Secrets.budget = hacksRemaining
      /\ Secrets.used = round.used
  BY DEF Secrets
<1>4. ASSUME state = "HACKER_CORRUPTION"
      PROVE  e \in HackerTargetSelect(HackerInfo(Secrets, p))
                <=> /\ round.active /\ ~firewall /\ p \in hackers /\ hacksRemaining[p] > 0
                    /\ p \notin round.used /\ t \in round.participants
  <2> DEFINE can == /\ round.active /\ ~firewall /\ p \in hackers /\ hacksRemaining[p] > 0
                    /\ p \notin round.used
  <2>1. /\ HackerInfo(Secrets, p).canHackNow <=> can
        /\ can => HackerInfo(Secrets, p).targets = round.participants
    BY <1>3, <1>4 DEF HackerInfo, NoHackerInfo
  <2>2. e = Hack(t)
    BY DEF e
  <2> HIDE DEF can
  <2>3. e \in HackerTargetSelect(HackerInfo(Secrets, p)) <=> can /\ t \in round.participants
    BY <1>2, <2>1, <2>2 DEF HackerTargetSelect
  <2> QED BY <2>3 DEF can
<1>5. e \in Phone(p, PlayerView(Secrets, p))
         <=> /\ state = "HACKER_CORRUPTION"
             /\ round.active /\ ~firewall /\ p \in hackers /\ hacksRemaining[p] > 0
             /\ p \notin round.used /\ t \in round.participants
  BY <1>1, <1>4, PhoneParts
<1>6. OfferedInVain(e) <=> t \in round.hacked
  BY <1>1 DEF OfferedInVain
<1>7. Accepted(p, e) <=> MayHack(p, t)
  BY <1>1 DEF Accepted
<1> QED BY <1>5, <1>6, <1>7 DEF e, MayHack

\* The suspects of an accusation.
LEMMA AccuseOffered ==
    ASSUME TypeOK, SuspectsInv, NEW p \in players, NEW S \in SUBSET players
    PROVE  LET e == Accuse(S)
           IN  Accepted(p, e) <=> e \in Phone(p, PlayerView(Secrets, p)) /\ ~OfferedInVain(e)
<1> DEFINE e == Accuse(S)
<1>1. e.type = "player:submitAccusation" /\ e.suspects = S
  BY DEF Accuse
<1>2. \A T : e = Accuse(T) => T = S
  BY DEF Accuse
<1> HIDE DEF e
<1>3. ASSUME state = "ACCUSATION_SELECT"
      PROVE  e \in AccusationSelect(p, AccusationPublicView(Secrets), EligibleSuspects(p))
                <=> p = accusation.initiator /\ Cardinality(S) = accusation.required
  <2> DEFINE info == AccusationPublicView(Secrets)
  <2>1. info.initiator = accusation.initiator /\ info.required = accusation.required
    BY <1>3 DEF AccusationPublicView, AccusationState
  <2>2. p = accusation.initiator => EligibleSuspects(p) = players
    BY <1>3 DEF EligibleSuspects, AccusationState, Locked, SuspectsInv, Eligible
  <2>3. e = Accuse(S)
    BY DEF e
  <2> HIDE DEF info
  <2>4. CASE p = accusation.initiator
    BY <1>2, <2>1, <2>2, <2>3, <2>4 DEF AccusationSelect, info
  <2>5. CASE p # accusation.initiator
    BY <2>1, <2>5 DEF AccusationSelect, info
  <2> QED BY <2>4, <2>5
<1>4. e \in Phone(p, PlayerView(Secrets, p))
         <=> /\ state = "ACCUSATION_SELECT" /\ p = accusation.initiator
             /\ Cardinality(S) = accusation.required
  BY <1>1, <1>3, PhoneParts
<1>5. ~OfferedInVain(e) /\ (Accepted(p, e) <=> MayAccuse(p, S))
  BY <1>1 DEF OfferedInVain, Accepted
<1> QED BY <1>4, <1>5 DEF e, MayAccuse, Eligible

\* A vote: the screen knows that p has voted from the ballots, the handler from the
\* submissions of the phase.
LEMMA VoteOffered ==
    ASSUME TypeOK, VoteInv, SuspectsInv, NEW p \in players, NEW vote \in {"APPROVE", "REJECT"}
    PROVE  LET e == Vote(vote)
           IN  Accepted(p, e) <=> e \in Phone(p, PlayerView(Secrets, p)) /\ ~OfferedInVain(e)
<1> DEFINE e == Vote(vote)
<1>1. e.type = "player:submitAccusationVote"
  BY DEF Vote
<1>2. ASSUME state = "ACCUSATION_VOTE"
      PROVE  e \in AccusationVote(HasVoted(Secrets, p)) <=> p \in accusation.voters \ submitted
  <2>1. /\ Cardinality(accusation.suspects) = Cardinality(hackers)
        /\ accusation.voters = players
        /\ submitted = accusation.approve \cup accusation.reject
        /\ hackers # {} /\ hackers \subseteq players
    BY <1>2
    DEF VoteInv, OpenVoteIsUndecided, SuspectsInv, MatchState, GameState, OverState, TypeOK
  <2>2. accusation.suspects # {}
    <3>1. IsFiniteSet(hackers)
      BY <2>1, RosterFinite
    <3> QED BY <2>1, <3>1, FS_EmptySet
  <2>3. HasVoted(Secrets, p) <=> p \in submitted
    BY <1>2, <2>1, <2>2, OwnBallots DEF HasVoted, Locked, AccusationState, Voted
  <2> QED BY <2>1, <2>3 DEF AccusationVote
<1> HIDE DEF e
<1>3. e \in Phone(p, PlayerView(Secrets, p))
         <=> state = "ACCUSATION_VOTE" /\ p \in accusation.voters \ submitted
  BY <1>1, <1>2, PhoneParts
<1>4. ~OfferedInVain(e) /\ (Accepted(p, e) <=> MayVote(p))
  BY <1>1 DEF OfferedInVain, Accepted
<1> QED BY <1>3, <1>4 DEF e, MayVote

\* The button: the screen looks for an accusation in progress, the handler for a winner
\* and a cooldown.
LEMMA ButtonOffered ==
    ASSUME TypeOK, PhaseInv, NEW p \in players
    PROVE  LET e == Simple("player:pushButton")
           IN  Accepted(p, e) <=> e \in Phone(p, PlayerView(Secrets, p)) /\ ~OfferedInVain(e)
<1> DEFINE e == Simple("player:pushButton")
<1>1. e.type = "player:pushButton" /\ e \in PushButtonControl
  BY DEF Simple, PushButtonControl
<1> HIDE DEF e
<1>2. e \in Phone(p, PlayerView(Secrets, p)) <=> CanPushButton(p)
  BY <1>1, PhoneParts
<1>3. /\ OfferedInVain(e) <=> cooldown > 0
      /\ Accepted(p, e) <=> MayPushButton(p)
  BY <1>1 DEF OfferedInVain, Accepted
<1>4. state \in AccusationAllowed => winner = "none" /\ accusation.initiator = NoPlayer
  BY DEF AccusationAllowed, PhaseInv, RecordsFollowPhase, ClockFollowsPhase, AccusationState,
         OverState
<1>5. ~(cooldown > 0) <=> cooldown = 0
  BY ConstantsAssumption DEF TypeOK
<1> QED BY <1>2, <1>3, <1>4, <1>5 DEF e, CanPushButton, MayPushButton, Eligible

\* The television's two controls.
LEMMA TelevisionOffers ==
    ASSUME TypeOK
    PROVE  LET television == Television(TvView(Secrets))
           IN  /\ MayStartMatch <=> Simple("host:startGame") \in television
               /\ (state = "FINAL_RESULTS") <=> Simple("host:advance") \in television
<1> DEFINE v == TvView(Secrets)
<1>1. v.common.phase = state /\ DOMAIN v.common.players = players
  BY DEF TvView, Common, Summaries
<1>2. Simple("host:startGame") # Simple("host:advance")
  BY DEF Simple
<1>3. Cardinality(players) \in Nat /\ MinPlayers \in Nat /\ MaxPlayers \in Nat
  BY RosterFinite, ConstantsAssumption
<1>4. TvLobby(v) = IF PlayerCountInRange THEN {Simple("host:startGame")} ELSE {}
  BY <1>1, <1>3 DEF TvLobby, PlayerCountInRange
<1> HIDE DEF v
<1>5. Television(v) = CASE state \in LobbyState -> TvLobby(v)
                        [] state = "FINAL_RESULTS" -> TvFinalResults
                        [] OTHER -> {}
  BY <1>1 DEF Television
<1> QED BY <1>2, <1>4, <1>5 DEF v, LobbyState, TvFinalResults, MayStartMatch

\* In every execution handlers, views and screens agree on what may be sent.
THEOREM ScreensAgree == Spec => []ScreensOfferWhatIsAccepted
<1>1. TypeOK /\ PhaseInv /\ VoteInv /\ SuspectsInv => ScreensOfferWhatIsAccepted
  <2> SUFFICES ASSUME TypeOK, PhaseInv, VoteInv, SuspectsInv PROVE ScreensOfferWhatIsAccepted
    OBVIOUS
  <2>1. ASSUME NEW p \in players, NEW e \in PlayerEvent
        PROVE  Accepted(p, e) <=> e \in Phone(p, PlayerView(Secrets, p)) /\ ~OfferedInVain(e)
    <3>1. \/ \E g \in Minigame, ids \in SUBSET players : e = AdminChoice(g, ids)
          \/ \E t \in players : e = Hack(t)
          \/ \E S \in SUBSET players : e = Accuse(S)
          \/ \E vote \in {"APPROVE", "REJECT"} : e = Vote(vote)
          \/ e = Simple("player:pushButton")
      BY DEF PlayerEvent
    <3> QED BY <3>1, SelectOffered, HackOffered, AccuseOffered, VoteOffered, ButtonOffered
  <2> QED BY <2>1, TelevisionOffers DEF ScreensOfferWhatIsAccepted
<1> QED BY <1>1, TypeCorrect, PhaseInvariant, AccusationInvariant, PTL
=============================================================================
