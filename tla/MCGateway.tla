----------------------------- MODULE MCGateway -----------------------------
(* The gateway on a small instance.                                           *)
EXTENDS Gateway, TLC

\* Requests and services are interchangeable; used where no liveness is checked.
Symmetric == Permutations(Requests) \cup Permutations(Services)
=============================================================================
