--------------------------- MODULE MCCostSummary ---------------------------
(* Completions and one summary on a small instance: three services, one of     *)
(* them with a colon in its name, so that a scan has two hashes to read.       *)
EXTENDS CostSummary

CONSTANTS s1, s2, s3

MCServices == {s1, s2, s3}
MCPlain == {s1, s2}
=============================================================================
