------------------------------ MODULE MCEngine ------------------------------
(* Instances of Engine for TLC.                                            *)
EXTENDS Engine, TLC

\* Requests and contexts are interchangeable.
Symmetry == Permutations(Requests) \cup Permutations(Ctxs)
=============================================================================
