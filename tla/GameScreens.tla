---------------------------- MODULE GameScreens ----------------------------
(***************************************************************************)
(* What a phone lets its player send during a game                         *)
(* (apps/web/components/gameplay/hacker/minigames): sets of actions, as    *)
(* functions of the view the game built for the player.  Every draft that  *)
(* can be typed, ordered or drawn counts, as if made in no time; while an  *)
(* action is pending a screen offers nothing.                              *)
(***************************************************************************)
EXTENDS MinigamePlay

\* What is sent as an order is one of cards, and as a drawing one of strokes' lengths.
ASSUME GameScreensAssumption ==
    /\ IsFiniteSet(Card) /\ {MaxCharacters, MaxStrokes, MaxPoints} \subseteq Nat
    /\ NoAnswer # <<>>
    /\ "RANK_IT" \in Kinds => \A a \in Inputs["RANK_IT"] : a.data \in Seq(Card)
    /\ "DRAW_IT" \in Kinds => \A a \in Inputs["DRAW_IT"] : a.data \in Seq(Nat)

Action(type, data) == [type |-> type, data |-> data]

\* Cards are moved up and down from the order the view starts with.
PlayerRankIt(v) ==
    IF v.status = "REVEALED" \/ v.submission # NoAnswer THEN {}
    ELSE {Action("SUBMIT_RANKING", order) : order \in Orders({v.order[i] : i \in DOMAIN v.order})}

\* What fits into the text area, up to one character too many.
Draft == [blanks : 0 .. MaxCharacters, characters : 0 .. MaxCharacters + 1]

\* Mutant of TooLong: the counter leaves one more character.
TooLongByOne(draft) == draft.blanks + draft.characters > MaxCharacters + 1

\* The blanks around a draft count as well, though they are not sent.
TooLong(draft) == draft.blanks + draft.characters > MaxCharacters

PlayerCompleteIt(v) ==
    IF v.status = "REVEALED" \/ v.submission # NoAnswer THEN {}
    ELSE {Action("SUBMIT_TEXT", [draft EXCEPT !.blanks = 0]) :
             draft \in {d \in Draft : d.characters > 0 /\ ~TooLong(d)}}

\* The canvas ends a stroke's growth and takes no further stroke at their limits; it does
\* not count the points of all strokes together.
Canvas == UNION {[1 .. n -> 1 .. MaxPoints] : n \in 0 .. MaxStrokes}

PlayerDrawIt(v) ==
    IF v.status = "REVEALED" \/ v.submission \in {"blank", "submitted"} THEN {}
    ELSE {Action("SUBMIT_DRAWING", strokes) : strokes \in Canvas}

PlayerPredictThem(v) ==
    IF "group" \notin DOMAIN v \/ v.submission # NoAnswer THEN {}
    ELSE CASE v.group = "AUDIENCE" /\ v.step = "AUDIENCE_VOTE" ->
                  {Action("SUBMIT_AUDIENCE_VOTE", choice) : choice \in Choice}
           [] v.group = "SELECTED" /\ v.step # "AUDIENCE_VOTE" ->
                  {Action("SUBMIT_PREDICTION", choice) : choice \in Choice}
           [] OTHER -> {}

PlayerDescribeIt(v) ==
    IF "progress" \in DOMAIN v /\ v.progress.step = "SPEAKING" /\ v.yours
    THEN {Action("FINISH_SPEAKING", "none")} ELSE {}

PlayerDefendIt(v) ==
    IF "progress" \notin DOMAIN v THEN {}
    ELSE CASE v.progress.step = "DEFENCE" /\ v.defence -> {Action("FINISH_DEFENCE", "none")}
           [] v.progress.step = "FOLLOW_UP_QUESTION" /\ v.asks ->
                  {Action("FINISH_FOLLOW_UP_QUESTION", "none")}
           [] v.progress.step = "FOLLOW_UP_RESPONSE" /\ v.responds ->
                  {Action("FINISH_FOLLOW_UP_RESPONSE", "none")}
           [] OTHER -> {}

\* The controls are those of the board in work.
PlayerBombProtocolOperator(v) ==
    IF v.public.status # "ACTIVE" THEN {}
    ELSE CASE v.public.board = "SYMBOLS" -> {Action("PRESS_SYMBOL", s) : s \in Symbol}
           [] v.public.board = "WIRES" -> {Action("CUT_WIRE", w) : w \in Wire}
           [] v.public.board = "CODE_SEQUENCE" -> {Action("SUBMIT_CODE", d) : d \in Code}

\* An analyst has none.
PlayerBombProtocol(v) ==
    IF v.role = "OPERATOR" THEN PlayerBombProtocolOperator(v) ELSE {}

\* PlayerPhaseRouter and PlayerMinigameRouter: the phases of a game show its screen to
\* the participants.
PlayerMinigameRouter(p) ==
    LET v == PlayerView(game, p, phase = "RESULTS")
    IN  IF phase = "HACK_WINDOW" \/ p \notin game.people THEN {}
        ELSE CASE game.kind = "RANK_IT" -> PlayerRankIt(v)
               [] game.kind = "COMPLETE_IT" -> PlayerCompleteIt(v)
               [] game.kind = "DRAW_IT" -> PlayerDrawIt(v)
               [] game.kind = "PREDICT_THEM" -> PlayerPredictThem(v)
               [] game.kind = "DESCRIBE_IT" -> PlayerDescribeIt(v)
               [] game.kind = "DEFEND_IT" -> PlayerDefendIt(v)
               [] game.kind = "BOMB_PROTOCOL" -> PlayerBombProtocol(v)

-----------------------------------------------------------------------------
(* Properties *)

\* A drawing of allowed strokes with more points than the game takes altogether.
TooMuchDrawn(a) == game.kind = "DRAW_IT" /\ ~IsDrawing(a.data)

\* During play a participant's screen and the game's checks agree: what the screen offers
\* is valid, a drawing with too many points excepted, and whatever the player could do to
\* the game by a valid action can be done from the screen.  With the results nothing is
\* offered any more, except that the bomb's board stays live when the time or the host
\* ended it.
GameScreensOfferWhatIsAccepted ==
    \A p \in game.people :
        LET offers == PlayerMinigameRouter(p)
        IN  /\ phase = "PLAY" =>
                  /\ \A a \in offers : ValidateAction(game, p, a) \/ TooMuchDrawn(a)
                  /\ \A a \in Inputs[game.kind] : ValidateAction(game, p, a) =>
                        \E b \in offers : HandleAction(game, p, b) = HandleAction(game, p, a)
            /\ phase = "RESULTS" /\ offers # {} => Special /\ result.reason # "completed"
=============================================================================
