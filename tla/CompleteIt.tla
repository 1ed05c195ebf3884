----------------------------- MODULE CompleteIt -----------------------------
(***************************************************************************)
(* COMPLETE_IT (minigames/complete-it.ts): every participant completes a   *)
(* sentence, once.  A text is its count of characters and of the blanks    *)
(* around them.                                                            *)
(***************************************************************************)
EXTENDS MinigameModule

CONSTANT MaxCharacters   \* COMPLETE_IT_MAX_CHARACTERS

\* text.trim()
NormalizeAnswer(text) == text.characters

CompleteItStart(people, prompts) ==
    [kind |-> "COMPLETE_IT", people |-> people, prompts |-> prompts,
     given |-> Unanswered(people), status |-> "ACTIVE"]

CompleteItMayStart(people) == people # {}

CompleteItValid(g, p, a) ==
    /\ a.type = "SUBMIT_TEXT"
    /\ g.status = "ACTIVE" /\ p \in g.people /\ g.given[p] = NoAnswer
    /\ NormalizeAnswer(a.data) \in 1 .. MaxCharacters

CompleteItAct(g, p, a) ==
    LET given == [g.given EXCEPT ![p] = NormalizeAnswer(a.data)]
    IN  [g EXCEPT !.given = given, !.status = IF AllIn(given) THEN "COMPLETED" ELSE "ACTIVE"]

CompleteItSuccess(g) == AllIn(g.given)

CompleteItTvView(g, reveal) ==
    IF reveal THEN [status |-> "REVEALED", results |-> g.given]
    ELSE [status |-> "ACTIVE", submitted |-> SubmittedCount(g.given), of |-> Cardinality(g.people)]

CompleteItPlayerView(g, p, reveal) ==
    [status |-> IF reveal THEN "REVEALED" ELSE g.status,
     prompt |-> g.prompts[p], submission |-> g.given[p],
     results |-> IF reveal THEN g.given ELSE <<>>]

CompleteItSpectatorView(g, reveal) ==
    IF reveal THEN CompleteItTvView(g, TRUE) ELSE [status |-> "SPECTATING"]
=============================================================================
