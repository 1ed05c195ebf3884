--------------------------- MODULE MinigameModule ---------------------------
(***************************************************************************)
(* What the minigame modules share: the assignment of the two variants of  *)
(* a prompt (minigames/prompt-assignment.ts) and the bookkeeping of games  *)
(* in which every participant answers once.                                *)
(***************************************************************************)
EXTENDS Naturals, Sequences, FiniteSets

CONSTANTS
    Player,    \* players in the room
    NoAnswer   \* a participant who has not answered

\* Being hacked flips the variant the player's role would get.
AssignPromptPair(people, hackers, hacked) ==
    [p \in people |-> IF p \in hackers <=> p \in hacked THEN "crew" ELSE "hacker"]

Unanswered(people) == [p \in people |-> NoAnswer]

AllIn(given) == \A p \in DOMAIN given : given[p] # NoAnswer

SubmittedCount(given) == Cardinality({p \in DOMAIN given : given[p] # NoAnswer})
=============================================================================
