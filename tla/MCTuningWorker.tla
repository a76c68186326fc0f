--------------------------- MODULE MCTuningWorker ---------------------------
(* The tuning worker on a small instance. Two retries tell first, middle and   *)
(* last attempt apart; three failed statements are one more than they absorb.  *)
EXTENDS TuningWorker

MCMaxCheckRetries == 2
MCMaxFaults == MCMaxCheckRetries + 1
=============================================================================
