----------------------------- MODULE MCPushFeed -----------------------------
(* PushFeed on a small instance: model values and symmetry for TLC. *)
EXTENDS PushFeed, TLC

CONSTANTS p1, p2, w1, w2

SymmetricActors == Permutations({p1, p2}) \cup Permutations({w1, w2})
=============================================================================
