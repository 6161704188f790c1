------------------------------ MODULE MCServer ------------------------------
(* Model-checking instance of Server: symmetry over the interchangeable    *)
(* UUIDs (safety runs only).                                               *)
EXTENDS Server, TLC

Symmetry == Permutations(Fleets) \cup Permutations(Scenarios)
=============================================================================
