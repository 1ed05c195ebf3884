------------------------------ MODULE Screens ------------------------------
(***************************************************************************)
(* What the phones and the television let their users send in each phase   *)
(* of a match (apps/web/components/gameplay/hacker and the two lobbies):   *)
(* sets of events, as functions of the view they show.  While an event is  *)
(* pending they offer none.  The screens of the games are in GameScreens.  *)
(***************************************************************************)
EXTENDS Views

AdminChoice(game, ids) ==
    [type |-> "player:adminSelectMinigame", game |-> game, ids |-> ids]

Hack(target) == [type |-> "player:submitHack", target |-> target]

Accuse(suspects) == [type |-> "player:submitAccusation", suspects |-> suspects]

Vote(vote) == [type |-> "player:submitAccusationVote", vote |-> vote]

Simple(type) == [type |-> type]

\* A game, then players up to its limit, to be confirmed from its minimum on.
AdminMinigameSelect(selection) ==
    UNION {{AdminChoice(g, ids) :
               ids \in {S \in SUBSET selection.eligible :
                           Cardinality(S) \in LimitMin[g] .. LimitMax[g]}} :
           g \in selection.games}

HackerTargetSelect(info) ==
    IF info.canHackNow THEN {Hack(t) : t \in info.targets} ELSE {}

\* Mutant of AccusationSelect: fewer suspects than required will do.
AccusationSelectSome(p, info, eligible) ==
    IF p # info.initiator THEN {}
    ELSE {Accuse(S) : S \in {T \in SUBSET eligible : Cardinality(T) <= info.required}}

\* The initiator chooses exactly as many as required of those listed; the others wait.
AccusationSelect(p, info, eligible) ==
    IF p # info.initiator THEN {}
    ELSE {Accuse(S) : S \in {T \in SUBSET eligible : Cardinality(T) = info.required}}

AccusationVote(hasVoted) == IF hasVoted THEN {} ELSE {Vote("APPROVE"), Vote("REJECT")}

PushButtonControl == {Simple("player:pushButton")}

\* PlayerLobby, PlayerPhaseRouter: what p's phone offers with the view v.  The phases
\* of the games are left to PlayerMinigameRouter, all others have no control.
Phone(p, v) ==
    LET phase == v.common.phase
    IN  (CASE phase = "MINIGAME_SELECT" /\ v.adminSelection.shown ->
                  AdminMinigameSelect(v.adminSelection)
           [] phase = "HACKER_CORRUPTION" -> HackerTargetSelect(v.hackerInfo)
           [] phase = "ACCUSATION_SELECT" ->
                  AccusationSelect(p, v.accusation, v.eligibleSuspects)
           [] phase = "ACCUSATION_VOTE" -> AccusationVote(v.hasVoted)
           [] OTHER -> {})
        \cup (IF v.canPushButton THEN PushButtonControl ELSE {})

\* The limits are those of the room, by way of GET /rooms/:code.
TvLobby(v) ==
    IF Cardinality(DOMAIN v.common.players) \in MinPlayers .. MaxPlayers
    THEN {Simple("host:startGame")} ELSE {}

TvFinalResults == {Simple("host:advance")}

\* TvPhaseRouter: what the television offers with the view v.
Television(v) ==
    CASE v.common.phase \in LobbyState -> TvLobby(v)
      [] v.common.phase = "FINAL_RESULTS" -> TvFinalResults
      [] OTHER -> {}

-----------------------------------------------------------------------------
(* Properties *)

PlayerEvent ==
    {AdminChoice(g, ids) : g \in Minigame, ids \in SUBSET players}
    \cup {Hack(t) : t \in players} \cup {Accuse(S) : S \in SUBSET players}
    \cup {Vote("APPROVE"), Vote("REJECT"), Simple("player:pushButton")}

\* handleEvent accepts e of the player p.
Accepted(p, e) ==
    CASE e.type = "player:adminSelectMinigame" -> p = adminId /\ MaySelect(e.game, e.ids)
      [] e.type = "player:submitHack" -> MayHack(p, e.target)
      [] e.type = "player:submitAccusation" -> MayAccuse(p, e.suspects)
      [] e.type = "player:submitAccusationVote" -> MayVote(p)
      [] e.type = "player:pushButton" -> MayPushButton(p)

\* What a screen may offer in vain: a target another Hacker took, which nobody may be
\* told; the button during its cooldown, which no screen looks at; a game for the Admin,
\* whom the view lists among the eligible, or without an audience.
OfferedInVain(e) ==
    CASE e.type = "player:submitHack" -> e.target \in round.hacked
      [] e.type = "player:pushButton" -> cooldown > 0
      [] e.type = "player:adminSelectMinigame" ->
             (~AdminMaySelectSelf /\ adminId \in e.ids)
             \/ (e.game \in AudienceGame /\ ExpandParticipants(e.game, e.ids) = e.ids)
      [] OTHER -> FALSE

\* Handlers, views and screens are three pieces of code that repeat each other's rules.
\* They agree in every state of a match: whatever a phone or the television offers is
\* accepted, but for what is offered in vain, and whatever is accepted can be sent.
\* The acknowledgement of a role and the wish for a rematch have no control at all.
ScreensOfferWhatIsAccepted ==
    /\ \A p \in players :
          LET phone == Phone(p, PlayerView(Secrets, p))
          IN  \A e \in PlayerEvent :
                 Accepted(p, e) <=> e \in phone /\ ~OfferedInVain(e)
    /\ LET television == Television(TvView(Secrets))
       IN  /\ MayStartMatch <=> Simple("host:startGame") \in television
           /\ (state = "FINAL_RESULTS") <=> Simple("host:advance") \in television
=============================================================================
