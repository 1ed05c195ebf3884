------------------------------- MODULE RankIt -------------------------------
(***************************************************************************)
(* RANK_IT (minigames/rank-it.ts): two to five participants each submit an *)
(* order of the same cards, once.                                          *)
(***************************************************************************)
EXTENDS MinigameModule

CONSTANT Card   \* the cards of the round

IsOrder(order) ==
    /\ Len(order) = Cardinality(Card)
    /\ {order[i] : i \in DOMAIN order} = Card

\* orders: each participant's shuffled starting order.
RankItStart(people, prompts, orders) ==
    [kind |-> "RANK_IT", people |-> people, prompts |-> prompts, orders |-> orders,
     given |-> Unanswered(people), status |-> "ACTIVE"]

RankItMayStart(people, orders) ==
    /\ Cardinality(people) \in 2 .. 5
    /\ \A p \in people : IsOrder(orders[p])

RankItValid(g, p, a) ==
    /\ a.type = "SUBMIT_RANKING"
    /\ g.status = "ACTIVE" /\ p \in g.people /\ g.given[p] = NoAnswer
    /\ IsOrder(a.data)

RankItAct(g, p, a) ==
    LET given == [g.given EXCEPT ![p] = a.data]
    IN  [g EXCEPT !.given = given, !.status = IF AllIn(given) THEN "COMPLETED" ELSE "ACTIVE"]

RankItSuccess(g) == AllIn(g.given)

RankItTvView(g, reveal) ==
    IF reveal THEN [status |-> "REVEALED", results |-> g.given]
    ELSE [status |-> "ACTIVE", submitted |-> SubmittedCount(g.given), of |-> Cardinality(g.people)]

RankItPlayerView(g, p, reveal) ==
    [status |-> IF reveal THEN "REVEALED" ELSE g.status,
     prompt |-> g.prompts[p], order |-> g.orders[p], submission |-> g.given[p],
     results |-> IF reveal THEN g.given ELSE <<>>]

RankItSpectatorView(g, reveal) ==
    IF reveal THEN RankItTvView(g, TRUE) ELSE [status |-> "SPECTATING"]
=============================================================================
