---------------------------- MODULE MCDelivery ----------------------------
EXTENDS OrderDelivery, TLC

Permuted == Permutations(Handlers)
=============================================================================
