----------------------------- MODULE MCScoring ------------------------------
(* Model-checking instance of Scoring: requests are interchangeable.       *)
EXTENDS Scoring, TLC

Symmetry == Permutations(Requests)
=============================================================================
