--------------------------- MODULE MCExperiments ---------------------------
(* The experiments on a small instance.                                       *)
EXTENDS Experiments, TLC

\* Calls are interchangeable, and so are variant ids.
Symmetric == Permutations(Calls) \cup Permutations(Variants)
=============================================================================
