---- MODULE MCGateway ----
EXTENDS Gateway, TLC

Swaps == Permutations(Socket) \cup Permutations(Player)
====
