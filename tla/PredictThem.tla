---------------------------- MODULE PredictThem -----------------------------
(***************************************************************************)
(* PREDICT_THEM (minigames/predict-them.ts): the audience votes A or B,    *)
(* then the selected players predict, each by an own prompt.  given holds  *)
(* the audience's votes and the selected players' predictions.             *)
(***************************************************************************)
EXTENDS MinigameModule

Choice == {"A", "B"}

\* selected: the players the Admin chose; everybody else in the round is the audience.
PredictThemStart(people, selected, prompts) ==
    [kind |-> "PREDICT_THEM", people |-> people, selected |-> selected,
     audience |-> people \ selected, prompts |-> prompts,
     given |-> Unanswered(people), step |-> "AUDIENCE_VOTE"]

PredictThemMayStart(people, selected) ==
    /\ Cardinality(people) >= 2 /\ Cardinality(selected) \in 1 .. 4
    /\ selected \subseteq people /\ people \ selected # {}

PredictThemValid(g, p, a) ==
    /\ a.data \in Choice
    /\ \/ a.type = "SUBMIT_AUDIENCE_VOTE" /\ g.step = "AUDIENCE_VOTE" /\ p \in g.audience
       \/ a.type = "SUBMIT_PREDICTION" /\ g.step = "PREDICTION" /\ p \in g.selected
    /\ g.given[p] = NoAnswer

AllOf(players, given) == \A p \in players : given[p] # NoAnswer

PredictThemAct(g, p, a) ==
    LET given == [g.given EXCEPT ![p] = a.data]
    IN  [g EXCEPT !.given = given,
                  !.step = IF a.type = "SUBMIT_AUDIENCE_VOTE"
                           THEN IF AllOf(g.audience, given) THEN "PREDICTION" ELSE "AUDIENCE_VOTE"
                           ELSE IF AllOf(g.selected, given) THEN "COMPLETED" ELSE "PREDICTION"]

PredictThemTimeout(g) ==
    [g EXCEPT !.step = IF @ = "AUDIENCE_VOTE" THEN "PREDICTION" ELSE "COMPLETED"]

Votes(g, choice) == Cardinality({p \in g.audience : g.given[p] = choice})

\* resolveMajority
Majority(g) ==
    CASE Votes(g, "A") > Votes(g, "B") -> "A"
      [] Votes(g, "B") > Votes(g, "A") -> "B"
      [] OTHER -> "TIE"

PredictThemResult(g) ==
    [status |-> "REVEALED", a |-> Votes(g, "A"), b |-> Votes(g, "B"),
     none |-> Cardinality(g.audience) - Votes(g, "A") - Votes(g, "B"),
     majority |-> Majority(g), predictions |-> [p \in g.selected |-> g.given[p]]]

\* Mutant of PredictThemTvView: the votes are shown once the audience has voted.
PredictThemTvViewEarly(g, reveal) ==
    IF reveal THEN PredictThemResult(g)
    ELSE LET players == IF g.step = "AUDIENCE_VOTE" THEN g.audience ELSE g.selected
         IN  [status |-> g.step, of |-> Cardinality(players),
              submitted |-> Cardinality({p \in players : g.given[p] # NoAnswer}),
              majority |-> IF g.step = "AUDIENCE_VOTE" THEN "TIE" ELSE Majority(g)]

PredictThemTvView(g, reveal) ==
    IF reveal THEN PredictThemResult(g)
    ELSE LET players == IF g.step = "AUDIENCE_VOTE" THEN g.audience ELSE g.selected
         IN  [status |-> g.step, of |-> Cardinality(players),
              submitted |-> Cardinality({p \in players : g.given[p] # NoAnswer})]

PredictThemPlayerView(g, p, reveal) ==
    IF reveal THEN PredictThemResult(g)
    ELSE [group |-> IF p \in g.audience THEN "AUDIENCE" ELSE "SELECTED", step |-> g.step,
          prompt |-> IF p \in g.selected /\ g.step = "PREDICTION" THEN g.prompts[p] ELSE "none",
          submission |-> g.given[p]]

PredictThemSpectatorView(g, reveal) ==
    IF reveal THEN PredictThemResult(g) ELSE [status |-> "SPECTATING", step |-> g.step]
=============================================================================
