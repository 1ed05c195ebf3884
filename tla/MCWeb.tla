---- MODULE MCWeb ----
EXTENDS WebClient, TLC

Swaps == Permutations(Name) \cup Permutations(User)
====
