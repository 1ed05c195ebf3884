----------------------------- MODULE DescribeIt -----------------------------
(***************************************************************************)
(* DESCRIBE_IT (minigames/describe-it.ts): after a time to think, three to *)
(* five participants speak one after the other about a hidden word.        *)
(***************************************************************************)
EXTENDS MinigameModule

DescribeItStart(people, order, prompts) ==
    [kind |-> "DESCRIBE_IT", people |-> people, prompts |-> prompts, step |-> "THINK",
     order |-> order, index |-> 1, turns |-> Unanswered(people)]

\* order has every participant exactly once.
DescribeItMayStart(people, order) ==
    /\ Cardinality(people) \in 3 .. 5
    /\ Len(order) = Cardinality(people) /\ {order[i] : i \in DOMAIN order} = people

Speaks(g, p) == g.step = "SPEAKING" /\ g.index \in DOMAIN g.order /\ g.order[g.index] = p

\* Mutant of AdvanceTurn: whoever times out takes the next speaker's turn along.
AdvanceTurnTwice(g, result) ==
    LET next == g.index + (IF result = "TIMEOUT" THEN 2 ELSE 1)
    IN  [g EXCEPT !.turns[g.order[g.index]] = result, !.index = next,
                  !.step = IF next > Len(g.order) THEN "COMPLETED" ELSE "SPEAKING"]

AdvanceTurn(g, result) ==
    IF g.step = "SPEAKING" /\ g.turns[g.order[g.index]] = NoAnswer
    THEN [g EXCEPT !.turns[g.order[g.index]] = result, !.index = @ + 1,
                   !.step = IF g.index = Len(g.order) THEN "COMPLETED" ELSE "SPEAKING"]
    ELSE g

DescribeItValid(g, p, a) == a.type = "FINISH_SPEAKING" /\ p \in g.people /\ Speaks(g, p)

DescribeItAct(g, p, a) == AdvanceTurn(g, "FINISHED")

DescribeItTimeout(g) ==
    IF g.step = "THINK" THEN [g EXCEPT !.step = "SPEAKING"] ELSE AdvanceTurn(g, "TIMEOUT")

\* getInternalStep: SPEAKING:<index>, or the step.
DescribeItStep(g) == <<g.step, IF g.step = "SPEAKING" THEN g.index ELSE 0>>

DescribeItProgress(g) ==
    [step |-> g.step, people |-> g.people, order |-> g.order, index |-> g.index,
     completed |-> {p \in g.people : g.turns[p] # NoAnswer}]

\* publicReveal: both words, in an order that does not say which is whose.
DescribeItReveal == [status |-> "REVEALED", words |-> {"crew", "hacker"}]

DescribeItTvView(g, reveal) == IF reveal THEN DescribeItReveal ELSE DescribeItProgress(g)

DescribeItPlayerView(g, p, reveal) ==
    IF reveal THEN DescribeItReveal
    ELSE [progress |-> DescribeItProgress(g), word |-> g.prompts[p], yours |-> Speaks(g, p),
          turn |-> IF g.turns[p] # NoAnswer THEN g.turns[p]
                   ELSE IF Speaks(g, p) THEN "CURRENT" ELSE "UPCOMING"]

DescribeItSpectatorView(g, reveal) == DescribeItTvView(g, reveal)
=============================================================================
