------------------------- MODULE ExperimentLifecycle -------------------------
(* What the experiment API says of one experiment (ExperimentStatus and the    *)
(* docstrings of ExperimentRunner): draft, then running, then completed with   *)
(* the winner it was concluded with; it can be cancelled at any time.          *)
CONSTANTS Experiments, Winners, None

VARIABLES status, winner   \* functions on Experiments

vars == <<status, winner>>

Init ==
    /\ status = [e \in Experiments |-> "absent"]
    /\ winner = [e \in Experiments |-> None]

Move(e, from, to) ==
    /\ status[e] \in from
    /\ status' = [status EXCEPT ![e] = to]

Create(e) == Move(e, {"absent"}, "draft") /\ UNCHANGED winner
Start(e) == Move(e, {"draft"}, "running") /\ UNCHANGED winner
Cancel(e) == Move(e, {"draft", "running", "completed"}, "cancelled") /\ UNCHANGED winner
Conclude(e, w) ==
    /\ Move(e, {"running"}, "completed")
    /\ winner' = [winner EXCEPT ![e] = w]

Next == \E e \in Experiments :
    Create(e) \/ Start(e) \/ Cancel(e) \/ \E w \in Winners \cup {None} : Conclude(e, w)

Spec == Init /\ [][Next]_vars
=============================================================================
