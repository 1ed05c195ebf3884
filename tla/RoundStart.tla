----------------------------- MODULE RoundStart -----------------------------
(***************************************************************************)
(* Where the room state machine meets the games: proceedToInstructions and *)
(* handleSpecialGameIntro call start() of a module on the participants of  *)
(* the record, and start() throws unless they and what is drawn for them   *)
(* suit the game.  An exception leaves the event without effect and, as    *)
(* the event is that of a timer, the match where it is.                    *)
(***************************************************************************)
EXTENDS RoomFsm

CONSTANTS Card, Symbol, Wire, Code   \* what the games are played with

\* Of the modules only the conditions of start() are used: answers and their
\* limits play no part in them.
Rank == INSTANCE RankIt WITH NoAnswer <- NoPlayer
Complete == INSTANCE CompleteIt WITH NoAnswer <- NoPlayer, MaxCharacters <- 80
Draw == INSTANCE DrawIt
    WITH NoAnswer <- NoPlayer, MaxStrokes <- 32, MaxPoints <- 256, MaxAllPoints <- 2048
Predict == INSTANCE PredictThem WITH NoAnswer <- NoPlayer
Describe == INSTANCE DescribeIt WITH NoAnswer <- NoPlayer
Defend == INSTANCE DefendIt WITH NoAnswer <- NoPlayer
Bomb == INSTANCE BombProtocol WITH NoAnswer <- NoPlayer, MaxStrikes <- 3

\* The rows of MINIGAME_PARTICIPANT_LIMITS.
TableRow(g) ==
    CASE g \in {"DRAW_IT", "DEFEND_IT", "PREDICT_THEM"} -> 2 .. 4
      [] g = "DESCRIBE_IT" -> 3 .. 5
      [] g \in {"RANK_IT", "COMPLETE_IT"} -> 2 .. 5

\* The registered games with limits no wider than the table's, and a room of at
\* least as many players as every game and the special game ask for.  The
\* default config has four players at least.
ASSUME StartAssumption ==
    /\ Minigame \subseteq {"RANK_IT", "COMPLETE_IT", "DRAW_IT", "PREDICT_THEM",
                           "DESCRIBE_IT", "DEFEND_IT"}
    /\ AudienceGame = Minigame \cap {"PREDICT_THEM"}
    /\ \A g \in Minigame : LimitMin[g] \in TableRow(g) /\ LimitMax[g] \in TableRow(g)
    /\ \A g \in Minigame : LimitMin[g] <= MinPlayers
    /\ MinPlayers >= 3 /\ SpecialMin >= 3 /\ SpecialMax <= 5
    /\ IsFiniteSet(Card)

\* shuffle: every order of a set.
Shuffled(S) ==
    {order \in [1 .. Cardinality(S) -> S] : {order[i] : i \in DOMAIN order} = S}

\* selectRandomFollowUpAskers: for each participant some other one.
Askers(people) == {asks \in [people -> people] : \A p \in people : asks[p] # p}

\* createBombProtocolConfig
Puzzles == [symbols: Shuffled(Symbol), wire: Wire, code: Code]

\* start() of the game does not throw, whatever is drawn for it.
Starts(g, people, selected) ==
    CASE g = "RANK_IT" ->
             \A orders \in [people -> Shuffled(Card)] : Rank!RankItMayStart(people, orders)
      [] g = "COMPLETE_IT" -> Complete!CompleteItMayStart(people)
      [] g = "DRAW_IT" -> Draw!DrawItMayStart(people)
      [] g = "PREDICT_THEM" -> Predict!PredictThemMayStart(people, selected)
      [] g = "DESCRIBE_IT" ->
             \A order \in Shuffled(people) : Describe!DescribeItMayStart(people, order)
      [] g = "DEFEND_IT" ->
             /\ Askers(people) # {}
             /\ \A order \in Shuffled(people), asks \in Askers(people) :
                   Defend!DefendItMayStart(people, order, asks)

BombStarts(people) ==
    /\ people # {}
    /\ \A operator \in people, puzzle \in Puzzles : Bomb!BombMayStart(people, operator, puzzle)

-----------------------------------------------------------------------------
\* Whoever chose the participants, and from whatever roster, the game that was
\* chosen for them can be started: no round, and no special game, is begun that
\* would stop the match by an exception in its module.
GamesCanStart ==
    /\ round.active => Starts(round.game, round.participants, round.selected)
    /\ special.active => BombStarts(special.participants)
=============================================================================
