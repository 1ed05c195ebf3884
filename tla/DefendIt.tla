------------------------------ MODULE DefendIt ------------------------------
(***************************************************************************)
(* DEFEND_IT (minigames/defend-it.ts): two to four participants defend a   *)
(* statement in turn; another one asks a question and gets a response.     *)
(***************************************************************************)
EXTENDS MinigameModule

NoTurn == [asker |-> NoAnswer, defence |-> "NONE", question |-> "NONE", response |-> "NONE"]

\* asks: for each speaker another participant (selectRandomFollowUpAskers).
DefendItStart(people, order, asks, prompts) ==
    [kind |-> "DEFEND_IT", people |-> people, prompts |-> prompts, step |-> "PREP",
     order |-> order, index |-> 1, asks |-> asks, turns |-> [p \in people |-> NoTurn]]

DefendItMayStart(people, order, asks) ==
    /\ Cardinality(people) \in 2 .. 4
    /\ Len(order) = Cardinality(people) /\ {order[i] : i \in DOMAIN order} = people
    /\ \A p \in people : asks[p] \in people \ {p}

\* The one on stage, in every step between PREP and COMPLETED.
Defends(g, p) == g.step \notin {"PREP", "COMPLETED"} /\ g.order[g.index] = p

Asks(g, p) ==
    /\ g.step \in {"FOLLOW_UP_QUESTION", "FOLLOW_UP_RESPONSE"}
    /\ g.asks[g.order[g.index]] = p

FinishDefence(g, result) ==
    IF g.step = "DEFENCE" /\ g.turns[g.order[g.index]] = NoTurn
    THEN [g EXCEPT !.step = "FOLLOW_UP_QUESTION",
                   !.turns[g.order[g.index]] =
                       [asker |-> g.asks[g.order[g.index]], defence |-> result,
                        question |-> "PENDING", response |-> "PENDING"]]
    ELSE g

FinishQuestion(g, result) ==
    IF g.step = "FOLLOW_UP_QUESTION" /\ g.turns[g.order[g.index]].question = "PENDING"
    THEN [g EXCEPT !.step = "FOLLOW_UP_RESPONSE", !.turns[g.order[g.index]].question = result]
    ELSE g

\* Mutant of FinishResponse: the index wraps round, so that the last response is followed
\* by the first defence again.
FinishResponseWraps(g, result) ==
    IF g.step = "FOLLOW_UP_RESPONSE" /\ g.turns[g.order[g.index]].response = "PENDING"
    THEN [g EXCEPT !.step = "DEFENCE", !.index = (@ % Len(g.order)) + 1,
                   !.turns[g.order[g.index]].response = result]
    ELSE g

FinishResponse(g, result) ==
    IF g.step = "FOLLOW_UP_RESPONSE" /\ g.turns[g.order[g.index]].response = "PENDING"
    THEN [g EXCEPT !.step = IF g.index = Len(g.order) THEN "COMPLETED" ELSE "DEFENCE",
                   !.index = @ + 1, !.turns[g.order[g.index]].response = result]
    ELSE g

DefendItValid(g, p, a) ==
    /\ p \in g.people
    /\ \/ a.type = "FINISH_DEFENCE" /\ g.step = "DEFENCE" /\ Defends(g, p)
       \/ a.type = "FINISH_FOLLOW_UP_QUESTION" /\ g.step = "FOLLOW_UP_QUESTION" /\ Asks(g, p)
       \/ a.type = "FINISH_FOLLOW_UP_RESPONSE" /\ g.step = "FOLLOW_UP_RESPONSE" /\ Defends(g, p)

DefendItAct(g, p, a) ==
    CASE a.type = "FINISH_DEFENCE" -> FinishDefence(g, "FINISHED")
      [] a.type = "FINISH_FOLLOW_UP_QUESTION" -> FinishQuestion(g, "FINISHED")
      [] OTHER -> FinishResponse(g, "FINISHED")

DefendItTimeout(g) ==
    CASE g.step = "PREP" -> [g EXCEPT !.step = "DEFENCE"]
      [] g.step = "DEFENCE" -> FinishDefence(g, "TIMEOUT")
      [] g.step = "FOLLOW_UP_QUESTION" -> FinishQuestion(g, "TIMEOUT")
      [] OTHER -> FinishResponse(g, "TIMEOUT")

DefendItStep(g) == <<g.step, g.index>>

\* A turn is over when its response is.
TurnOver(g, p) == g.turns[p] # NoTurn /\ g.turns[p].response # "PENDING"

DefendItProgress(g) ==
    [step |-> g.step, people |-> g.people, order |-> g.order, index |-> g.index,
     speaker |-> {p \in g.people : Defends(g, p)}, asker |-> {p \in g.people : Asks(g, p)},
     completed |-> {p \in g.people : TurnOver(g, p)}]

\* publicReveal: both statements, in an order that does not say which is whose.
DefendItReveal == [status |-> "REVEALED", statements |-> {"crew", "hacker"}]

DefendItTvView(g, reveal) == IF reveal THEN DefendItReveal ELSE DefendItProgress(g)

DefendItPlayerView(g, p, reveal) ==
    IF reveal THEN DefendItReveal
    ELSE [progress |-> DefendItProgress(g), statement |-> g.prompts[p],
          defence |-> g.step = "DEFENCE" /\ Defends(g, p),
          asks |-> g.step = "FOLLOW_UP_QUESTION" /\ Asks(g, p),
          responds |-> g.step = "FOLLOW_UP_RESPONSE" /\ Defends(g, p),
          turn |-> IF TurnOver(g, p) THEN "COMPLETED"
                   ELSE IF Defends(g, p) THEN "CURRENT" ELSE "UPCOMING"]

DefendItSpectatorView(g, reveal) == DefendItTvView(g, reveal)
=============================================================================
