---------------------------- MODULE MinigamePlay ----------------------------
(***************************************************************************)
(* One game of a round or the special game, from its start to its result:  *)
(* what fsm/transitions.ts does around the minigame modules, with each of  *)
(* the modules plugged in.  Players' actions travel over connections that  *)
(* may lose, delay or repeat them; every one carries the phase it was made *)
(* in and the sequence number its client gave it.                          *)
(***************************************************************************)
EXTENDS RankIt, CompleteIt, DrawIt, PredictThem, DescribeIt, DefendIt, BombProtocol

CONSTANTS
    Kinds,        \* the games that may be started
    Seats,        \* per game, the participants of the round
    Hackers,      \* players with the role HACKER
    Hacked,       \* players hacked in this round
    Inputs,       \* per game, what its clients may send: [type, data]
    RecentLimit,  \* actionIds remembered per player (20)
    MaxSends,     \* bound: per game, actions its players send
    MaxInFlight   \* bound: messages under way

\* The participants of a round are in the room, and an action's data is not the sign for
\* none.
ASSUME MinigamesAssumption ==
    /\ IsFiniteSet(Player) /\ RecentLimit \in Nat /\ MaxStrikes \in Nat \ {0}
    /\ Kinds \subseteq {"RANK_IT", "COMPLETE_IT", "DRAW_IT", "PREDICT_THEM",
                        "DESCRIBE_IT", "DEFEND_IT", "BOMB_PROTOCOL"}
    /\ \A kind \in Kinds : Seats[kind] \subseteq Player
    /\ \A kind \in Kinds : \A a \in Inputs[kind] : a.data # NoAnswer
    /\ NoAnswer \notin {"FINISHED", "TIMEOUT"} /\ NoAnswer \notin 1 .. MaxCharacters

VARIABLES
    game,     \* moduleState of the current round or special round
    phase,    \* the room's phase
    phaseId,  \* number of the phase
    wire,     \* player:submitAction messages under way, or repeated later
    sent,     \* per player, the sequence number last used
    lastSeq,  \* per player, the sequence number last applied
    recent,   \* per player, the actionIds last applied
    result,   \* the module's result
    applied   \* history: how often each message was applied

vars == <<game, phase, phaseId, wire, sent, lastSeq, recent, result, applied>>

NoResult == [reason |-> "none", success |-> FALSE]

NoGame == [kind |-> "none", people |-> {}]

Special == game.kind = "BOMB_PROTOCOL"

-----------------------------------------------------------------------------
(* getMinigameModule: the module of the running game *)

ValidateAction(g, p, a) ==
    CASE g.kind = "RANK_IT" -> RankItValid(g, p, a)
      [] g.kind = "COMPLETE_IT" -> CompleteItValid(g, p, a)
      [] g.kind = "DRAW_IT" -> DrawItValid(g, p, a)
      [] g.kind = "PREDICT_THEM" -> PredictThemValid(g, p, a)
      [] g.kind = "DESCRIBE_IT" -> DescribeItValid(g, p, a)
      [] g.kind = "DEFEND_IT" -> DefendItValid(g, p, a)
      [] g.kind = "BOMB_PROTOCOL" -> BombValid(g, p, a)

HandleAction(g, p, a) ==
    CASE g.kind = "RANK_IT" -> RankItAct(g, p, a)
      [] g.kind = "COMPLETE_IT" -> CompleteItAct(g, p, a)
      [] g.kind = "DRAW_IT" -> DrawItAct(g, p, a)
      [] g.kind = "PREDICT_THEM" -> PredictThemAct(g, p, a)
      [] g.kind = "DESCRIBE_IT" -> DescribeItAct(g, p, a)
      [] g.kind = "DEFEND_IT" -> DefendItAct(g, p, a)
      [] g.kind = "BOMB_PROTOCOL" -> BombAct(g, p, a)

\* The other modules have no handleTimeout.
HandleTimeout(g) ==
    CASE g.kind = "PREDICT_THEM" -> PredictThemTimeout(g)
      [] g.kind = "DESCRIBE_IT" -> DescribeItTimeout(g)
      [] g.kind = "DEFEND_IT" -> DefendItTimeout(g)
      [] OTHER -> g

\* Nor internal steps.
InternalStep(g) ==
    CASE g.kind = "PREDICT_THEM" -> <<g.step>>
      [] g.kind = "DESCRIBE_IT" -> DescribeItStep(g)
      [] g.kind = "DEFEND_IT" -> DefendItStep(g)
      [] OTHER -> <<>>

IsComplete(g) ==
    CASE g.kind \in {"RANK_IT", "COMPLETE_IT", "DRAW_IT"} -> g.status = "COMPLETED"
      [] g.kind = "BOMB_PROTOCOL" -> g.status # "ACTIVE"
      [] OTHER -> g.step = "COMPLETED"

Success(g) ==
    CASE g.kind = "RANK_IT" -> RankItSuccess(g)
      [] g.kind = "COMPLETE_IT" -> CompleteItSuccess(g)
      [] g.kind = "DRAW_IT" -> DrawItSuccess(g)
      [] g.kind = "PREDICT_THEM" -> TRUE
      [] g.kind \in {"DESCRIBE_IT", "DEFEND_IT"} -> g.step = "COMPLETED"
      [] g.kind = "BOMB_PROTOCOL" -> g.status = "SUCCESS"

TvView(g, reveal) ==
    CASE g.kind = "RANK_IT" -> RankItTvView(g, reveal)
      [] g.kind = "COMPLETE_IT" -> CompleteItTvView(g, reveal)
      [] g.kind = "DRAW_IT" -> DrawItTvView(g, reveal)
      [] g.kind = "PREDICT_THEM" -> PredictThemTvView(g, reveal)
      [] g.kind = "DESCRIBE_IT" -> DescribeItTvView(g, reveal)
      [] g.kind = "DEFEND_IT" -> DefendItTvView(g, reveal)
      [] g.kind = "BOMB_PROTOCOL" -> BombTvView(g)

ParticipantView(g, p, reveal) ==
    CASE g.kind = "RANK_IT" -> RankItPlayerView(g, p, reveal)
      [] g.kind = "COMPLETE_IT" -> CompleteItPlayerView(g, p, reveal)
      [] g.kind = "DRAW_IT" -> DrawItPlayerView(g, p, reveal)
      [] g.kind = "PREDICT_THEM" -> PredictThemPlayerView(g, p, reveal)
      [] g.kind = "DESCRIBE_IT" -> DescribeItPlayerView(g, p, reveal)
      [] g.kind = "DEFEND_IT" -> DefendItPlayerView(g, p, reveal)
      [] g.kind = "BOMB_PROTOCOL" -> BombPlayerView(g, p)

SpectatorView(g, reveal) ==
    CASE g.kind = "RANK_IT" -> RankItSpectatorView(g, reveal)
      [] g.kind = "COMPLETE_IT" -> CompleteItSpectatorView(g, reveal)
      [] g.kind = "DRAW_IT" -> DrawItSpectatorView(g, reveal)
      [] g.kind = "PREDICT_THEM" -> PredictThemSpectatorView(g, reveal)
      [] g.kind = "DESCRIBE_IT" -> DescribeItSpectatorView(g, reveal)
      [] g.kind = "DEFEND_IT" -> DefendItSpectatorView(g, reveal)
      [] g.kind = "BOMB_PROTOCOL" -> BombSpectatorView(g)

\* buildPlayerView: a participant's own view, or a spectator's.
PlayerView(g, p, reveal) ==
    IF p \in g.people THEN ParticipantView(g, p, reveal) ELSE SpectatorView(g, reveal)

-----------------------------------------------------------------------------
Init ==
    /\ game = NoGame /\ phase = "HACK_WINDOW" /\ phaseId = 0
    /\ wire = {} /\ sent = [p \in Player |-> 0] /\ lastSeq = [p \in Player |-> 0]
    /\ recent = [p \in Player |-> <<>>]
    /\ result = NoResult
    /\ applied = [p \in Player |-> <<>>]

Orders(people) ==
    {order \in [1 .. Cardinality(people) -> people] : {order[i] : i \in DOMAIN order} = people}

\* An order of people; which of them speaks when makes no difference to the games.
SpeakerOrder(people) == CHOOSE order \in Orders(people) : TRUE

Prompts(people) == AssignPromptPair(people, Hackers, Hacked)

\* The modules' start() with what may be drawn for it; each of them throws unless it may.
Starts(kind) ==
    LET people == Seats[kind]
        order == SpeakerOrder(people)
        orders == [p \in people |-> SpeakerOrder(Card)]
        If(allowed, games) == IF allowed THEN games ELSE {}
    IN  CASE kind = "RANK_IT" ->
                If(RankItMayStart(people, orders),
                   {RankItStart(people, Prompts(people), orders)})
          [] kind = "COMPLETE_IT" ->
                If(CompleteItMayStart(people),
                   {CompleteItStart(people, Prompts(people))})
          [] kind = "DRAW_IT" ->
                If(DrawItMayStart(people), {DrawItStart(people, Prompts(people))})
          [] kind = "PREDICT_THEM" ->
                {PredictThemStart(people, selected, Prompts(selected)) :
                    selected \in {some \in SUBSET people : PredictThemMayStart(people, some)}}
          [] kind = "DESCRIBE_IT" ->
                If(DescribeItMayStart(people, order),
                   {DescribeItStart(people, order, Prompts(people))})
          [] kind = "DEFEND_IT" ->
                {DefendItStart(people, order, asks, Prompts(people)) :
                    asks \in {f \in [people -> people] : DefendItMayStart(people, order, f)}}

\* proceedToInstructions, at the end of the hack window.
ProceedToInstructions(kind) ==
    /\ phase = "HACK_WINDOW" /\ kind # "BOMB_PROTOCOL"
    /\ game' \in Starts(kind)
    /\ phase' = "MINIGAME_INSTRUCTIONS" /\ phaseId' = phaseId + 1
    /\ UNCHANGED <<wire, sent, lastSeq, recent, result, applied>>

InstructionsOver ==
    /\ phase = "MINIGAME_INSTRUCTIONS"
    /\ phase' = "PLAY" /\ phaseId' = phaseId + 1
    /\ UNCHANGED <<game, wire, sent, lastSeq, recent, result, applied>>

\* What createBombProtocolConfig may draw; which it is makes no difference to the game.
Solutions ==
    {[symbols |-> SpeakerOrder(Symbol), wire |-> CHOOSE w \in Wire : TRUE,
      code |-> CHOOSE d \in Code : TRUE]}

\* handleSpecialGameIntro: the bomb is made and its game begins.
SpecialIntroOver ==
    /\ phase = "HACK_WINDOW"
    /\ LET people == Seats["BOMB_PROTOCOL"]
       IN  \E operator \in people :
           \E solution \in Solutions :
               LET order == SpeakerOrder(people \ {operator})
                   dealt(n) == Distribute(order, [i \in 1 .. n |-> i])
                   place(p) == CHOOSE i \in DOMAIN order : order[i] = p
                   clues == [p \in people \ {operator} |->
                       [SYMBOLS |-> dealt(Len(solution.symbols))[place(p)],
                        WIRES |-> dealt(2)[place(p)],
                        CODE_SEQUENCE |-> dealt(4)[place(p)]]]
               IN  /\ BombMayStart(people, operator, solution)
                   /\ game' = BombStart(people, operator, solution, clues)
    /\ phase' = "PLAY" /\ phaseId' = phaseId + 1
    /\ UNCHANGED <<wire, sent, lastSeq, recent, result, applied>>

-----------------------------------------------------------------------------
(* The players' connections *)

\* Bound: how many actions all the players send.
MaySend ==
    /\ SumFunction(sent) < MaxSends[game.kind]
    /\ Cardinality(wire) < MaxInFlight

\* player:submitAction from a client that has seen the present phase.
Send(p, a) ==
    /\ phase = "PLAY" /\ MaySend
    /\ sent' = [sent EXCEPT ![p] = @ + 1]
    /\ wire' = wire \cup {[player |-> p, phaseId |-> phaseId, seq |-> sent[p] + 1, action |-> a]}
    /\ applied' = [applied EXCEPT ![p] = Append(@, 0)]
    /\ UNCHANGED <<game, phase, phaseId, lastSeq, recent, result>>

\* The last copy of a message is lost or has been delivered.
Lose(m) ==
    /\ phase = "PLAY" /\ wire' = wire \ {m}
    /\ UNCHANGED <<game, phase, phaseId, sent, lastSeq, recent, result, applied>>

-----------------------------------------------------------------------------
(* handleMinigamePlay and handleSpecialGamePlay *)

\* completeMinigame, completeSpecialGame
Complete(g, reason) ==
    /\ game' = g
    /\ phase' = "RESULTS" /\ phaseId' = phaseId + 1
    /\ result' = [reason |-> reason, success |-> Success(g)]

Stay(g) == game' = g /\ UNCHANGED <<phase, phaseId, result>>

\* An internal step ends: the same phase under a new id, with its own timer.
NewStep(g) == game' = g /\ phaseId' = phaseId + 1 /\ UNCHANGED <<phase, result>>

\* Mutant of IsFresh: the sequence number is not looked at.
IsFreshById(m) ==
    \A i \in DOMAIN recent[m.player] : recent[m.player][i] # m.seq

\* The action was not applied before, and none sent after it was.
IsFresh(m) ==
    /\ \A i \in DOMAIN recent[m.player] : recent[m.player][i] # m.seq
    /\ m.seq > lastSeq[m.player]

\* [...recentIds, actionId].slice(-20)
Remember(ids, id) ==
    LET all == Append(ids, id)
    IN  IF Len(all) > RecentLimit THEN Tail(all) ELSE all

\* A player's action arrives, for the first time or once more, and is applied.  All others
\* are rejected or ignored and change nothing.
Accept(m) ==
    /\ m \in wire /\ phase = "PLAY" /\ m.phaseId = phaseId
    /\ m.player \in game.people
    /\ IsFresh(m)
    /\ ValidateAction(game, m.player, m.action)
    /\ lastSeq' = [lastSeq EXCEPT ![m.player] = m.seq]
    /\ recent' = [recent EXCEPT ![m.player] = Remember(@, m.seq)]
    /\ applied' = [applied EXCEPT ![m.player][m.seq] = @ + 1]
    /\ LET g == HandleAction(game, m.player, m.action)
       IN  IF IsComplete(g) THEN Complete(g, "completed")
           ELSE IF ~Special /\ InternalStep(g) # InternalStep(game) THEN NewStep(g) ELSE Stay(g)
    /\ UNCHANGED <<wire, sent>>

\* Mutant of TimerExpired: only a module with handleTimeout is concerned.
TimerExpiredSteps ==
    /\ phase = "PLAY" /\ HandleTimeout(game) # game
    /\ LET g == HandleTimeout(game)
       IN  IF ~IsComplete(g) THEN NewStep(g) ELSE Complete(g, "timeout")
    /\ UNCHANGED <<wire, sent, lastSeq, recent, applied>>

\* timer:expired of the present phase.  A module without steps, and the special game,
\* end as they are.
TimerExpired ==
    /\ phase = "PLAY"
    /\ LET g == HandleTimeout(game)
       IN  IF ~IsComplete(g) /\ InternalStep(g) # InternalStep(game) THEN NewStep(g)
           ELSE Complete(g, "timeout")
    /\ UNCHANGED <<wire, sent, lastSeq, recent, applied>>

\* host:forceEndMinigame, host:forceEndSpecialGame
HostForceEnd ==
    /\ phase = "PLAY" /\ Complete(game, "forced")
    /\ UNCHANGED <<wire, sent, lastSeq, recent, applied>>

Next ==
    \/ \E kind \in Kinds : ProceedToInstructions(kind)
    \/ InstructionsOver \/ ("BOMB_PROTOCOL" \in Kinds /\ SpecialIntroOver)
    \/ \E p \in game.people : \E a \in Inputs[game.kind] : Send(p, a)
    \/ \E m \in wire : Lose(m) \/ Accept(m)
    \/ TimerExpired \/ HostForceEnd

Spec == Init /\ [][Next]_vars

\* The phase timer service sees to every phase's timer.
FairSpec == Spec /\ WF_vars(TimerExpired)

-----------------------------------------------------------------------------
(* Properties *)

\* Type invariant: the game and the bookkeeping of its messages are of their kinds.
TypeOK ==
    /\ game.kind \in Kinds \cup {"none"} /\ game.people \subseteq Player
    /\ phase \in {"HACK_WINDOW", "MINIGAME_INSTRUCTIONS", "PLAY", "RESULTS"}
    /\ phaseId \in Nat /\ result.success \in BOOLEAN
    /\ \A p \in Player :
          /\ lastSeq[p] \in 0 .. sent[p] /\ Len(recent[p]) <= RecentLimit
    /\ game.kind = "BOMB_PROTOCOL" =>
          game.strikes \in 0 .. MaxStrikes /\ (game.strikes = MaxStrikes => phase = "RESULTS")

\* No action is applied twice, however often and how late its message arrives: only the
\* last few actionIds are remembered, the sequence number must hold for the others.
AppliedOnce == \A p \in Player : \A n \in DOMAIN applied[p] : applied[p][n] <= 1

\* In the games of turns nobody is passed over and nobody has two turns: those before the
\* one on stage are done, each with every step of the turn, those after it have not begun,
\* and a game that succeeded has heard all.
TurnsAreTaken ==
    /\ game.kind = "DESCRIBE_IT" =>
          /\ \A i \in DOMAIN game.order : (game.turns[game.order[i]] # NoAnswer) <=> (i < game.index)
          /\ (game.step = "COMPLETED") <=> (game.index > Len(game.order))
    /\ game.kind = "DEFEND_IT" =>
          /\ \A i \in DOMAIN game.order :
                LET turn == game.turns[game.order[i]]
                IN  /\ TurnOver(game, game.order[i]) <=> (i < game.index)
                    /\ (i < game.index) =>
                           turn.question \in {"FINISHED", "TIMEOUT"} /\ turn.asker # game.order[i]
                    /\ (i > game.index) => turn = NoTurn
          /\ (game.step = "COMPLETED") <=> (game.index > Len(game.order))
    /\ game.kind = "PREDICT_THEM" /\ game.step = "AUDIENCE_VOTE" =>
          \A p \in game.selected : game.given[p] = NoAnswer

Revealed == phase = "RESULTS"

HasAnswers == game.kind \in {"RANK_IT", "COMPLETE_IT", "DRAW_IT", "PREDICT_THEM"}

\* The game as p is asked: in the step of p's group, and p has not answered.
AskedOf(p) ==
    LET g == [game EXCEPT !.given[p] = NoAnswer]
    IN  IF g.kind # "PREDICT_THEM" THEN g
        ELSE [g EXCEPT !.step = IF p \in g.audience THEN "AUDIENCE_VOTE" ELSE "PREDICTION"]

\* The same game, whatever its step, with another of the answers that p could have given
\* when asked, stored as the module stores it.
OtherAnswers(p) ==
    {[game EXCEPT !.given[p] = HandleAction(AskedOf(p), p, a).given[p]] :
        a \in {b \in Inputs[game.kind] : ValidateAction(AskedOf(p), p, b)}}

\* Until the results are shown, what a participant answered makes no difference to what
\* the television, the spectators and the other participants are shown; a vote of
\* PREDICT_THEM's audience makes none while the selected players predict, either.
AnswersAreHidden ==
    (HasAnswers /\ ~Revealed) =>
        \A p \in game.people : game.given[p] # NoAnswer =>
            \A g \in OtherAnswers(p) :
                /\ TvView(g, FALSE) = TvView(game, FALSE)
                /\ \A q \in Player \ {p} : PlayerView(g, q, FALSE) = PlayerView(game, q, FALSE)

HasPrompts == game.kind \notin {"none", "BOMB_PROTOCOL"}

\* Which variant of the prompt a participant has, and so who was hacked, makes no
\* difference to what anybody else is shown, not even with the results; and the bomb's
\* board does not depend on its solution.
PromptsStayPrivate ==
    /\ HasPrompts => \A p \in DOMAIN game.prompts : \A variant \in {"crew", "hacker"} :
          LET g == [game EXCEPT !.prompts[p] = variant]
          IN  /\ TvView(g, Revealed) = TvView(game, Revealed)
              /\ \A q \in Player \ {p} : PlayerView(g, q, Revealed) = PlayerView(game, q, Revealed)
    /\ game.kind = "BOMB_PROTOCOL" => \A wire2 \in Wire : \A code \in Code :
          LET g == [game EXCEPT !.solution.wire = wire2, !.solution.code = code]
          IN  \A q \in Player : PlayerView(g, q, FALSE) = PlayerView(game, q, FALSE)

\* The parts of a turn of DEFEND_IT that are left, the time to prepare counted in.
PartsLeft(step) ==
    CASE step = "PREP" -> 4 [] step = "DEFENCE" -> 3
      [] step = "FOLLOW_UP_QUESTION" -> 2 [] OTHER -> 1

\* The steps a game has yet to go through, each with a timer of its own.
StepsLeft(g) ==
    CASE g.kind = "PREDICT_THEM" -> IF g.step = "AUDIENCE_VOTE" THEN 2 ELSE 1
      [] g.kind = "DESCRIBE_IT" ->
             IF g.step = "THINK" THEN Len(g.order) + 2 - g.index ELSE Len(g.order) + 1 - g.index
      [] g.kind = "DEFEND_IT" -> 3 * (Len(g.order) - g.index) + PartsLeft(g.step)
      [] OTHER -> 1

\* Each timer that is started within a play, by an action or by another timer's end, costs
\* one of the steps the game has left; none is ever given back, and a game with none left
\* is over.  So neither late actions nor timeouts can prolong a game: it outlasts no more
\* timers than it has steps (handleMinigamePlay's comparison of getInternalStep).
TimersRunOut ==
    [][phase = "PLAY" /\ phase' = "PLAY" =>
          StepsLeft(game') \in 1 .. (StepsLeft(game) - (phaseId' - phaseId))]_vars

\* Every game comes to its results, whatever its players do or fail to do: each timeout
\* ends the game or takes it a step further.
PlayEnds == (phase = "PLAY") ~> (phase = "RESULTS")
=============================================================================
