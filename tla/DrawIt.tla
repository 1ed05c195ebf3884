------------------------------- MODULE DrawIt -------------------------------
(***************************************************************************)
(* DRAW_IT (minigames/draw-it.ts): two to four participants each submit a  *)
(* drawing, once.  A drawing is the sequence of its strokes' numbers of    *)
(* points; a blank one has no stroke.                                      *)
(***************************************************************************)
EXTENDS MinigameModule, Functions

CONSTANTS
    MaxStrokes,    \* DRAW_IT_MAX_STROKES
    MaxPoints,     \* DRAW_IT_MAX_POINTS_PER_STROKE
    MaxAllPoints   \* DRAW_IT_MAX_TOTAL_POINTS

IsDrawing(strokes) ==
    /\ Len(strokes) <= MaxStrokes
    /\ \A i \in DOMAIN strokes : strokes[i] \in 1 .. MaxPoints
    /\ SumFunction(strokes) <= MaxAllPoints

DrawItStart(people, prompts) ==
    [kind |-> "DRAW_IT", people |-> people, prompts |-> prompts,
     given |-> Unanswered(people), status |-> "ACTIVE"]

DrawItMayStart(people) == Cardinality(people) \in 2 .. 4

DrawItValid(g, p, a) ==
    /\ a.type = "SUBMIT_DRAWING"
    /\ g.status = "ACTIVE" /\ p \in g.people /\ g.given[p] = NoAnswer
    /\ IsDrawing(a.data)

DrawItAct(g, p, a) ==
    LET given == [g.given EXCEPT ![p] = a.data]
    IN  [g EXCEPT !.given = given, !.status = IF AllIn(given) THEN "COMPLETED" ELSE "ACTIVE"]

DrawItSuccess(g) == AllIn(g.given)

\* Mutant of DrawItTvView: the drawings are shown with what they were to show.
DrawItTvViewPrompts(g, reveal) ==
    IF reveal THEN [status |-> "REVEALED", drawings |-> g.given, prompts |-> g.prompts]
    ELSE [status |-> "ACTIVE", people |-> g.people, submitted |-> SubmittedCount(g.given)]

DrawItTvView(g, reveal) ==
    IF reveal THEN [status |-> "REVEALED", drawings |-> g.given]
    ELSE [status |-> "ACTIVE", people |-> g.people, submitted |-> SubmittedCount(g.given)]

\* Until the reveal a player is shown only whether the own drawing is blank.
DrawItPlayerView(g, p, reveal) ==
    IF reveal THEN DrawItTvView(g, TRUE)
    ELSE [status |-> g.status, prompt |-> g.prompts[p],
          submission |-> CASE g.given[p] = NoAnswer -> "not_submitted"
                           [] g.given[p] = <<>> -> "blank"
                           [] OTHER -> "submitted"]

DrawItSpectatorView(g, reveal) ==
    IF reveal THEN DrawItTvView(g, TRUE) ELSE [status |-> "SPECTATING", people |-> g.people]
=============================================================================
