--------------------------- MODULE MC_ChangeFeed ---------------------------
(* ChangeFeed for TLC.  Its properties are invariants, so connections,     *)
(* channels and calls may be permuted.                                     *)
EXTENDS ChangeFeed, TLC

Symmetry == Permutations(Session) \cup Permutations(Channel) \cup Permutations(Call)
=============================================================================
