---------------------------- MODULE TuningWorker ----------------------------
(* The tuning worker (workers/tuning_worker.py): rounds over the experiments   *)
(* that are running, each checked with retries, all in one database session;   *)
(* a nap; and the end when the process is told to stop. Meanwhile API calls    *)
(* change the experiments. An operator named Bad... is a faulty variant of the *)
(* definition after it, for the mutation runs only.                            *)
EXTENDS Integers, FiniteSets, ExperimentStatus

CONSTANTS
    Names,            \* experiments
    MaxCheckRetries,  \* MAX_CHECK_RETRIES
    PollInterval,     \* POLL_INTERVAL, in naps of one second
    MaxFaults,        \* bound: statements the database does not carry out
    MaxKills,         \* bound: SIGKILLs, OOM kills and node losses
    MaxStops,         \* bound: SIGTERMs
    None              \* no experiment

ASSUME ConstantsAssumption ==
    /\ IsFiniteSet(Names) /\ None \notin Names
    /\ MaxCheckRetries \in Nat /\ PollInterval \in Nat
    /\ MaxFaults \in Nat /\ MaxKills \in Nat /\ MaxStops \in Nat

VARIABLES
    status,      \* of each experiment, in the database
    pc,          \* where the worker is
    shutdown,    \* _shutdown
    slept,       \* seconds of the nap that have passed
    session,     \* "clean", or "aborted" by a statement that failed
    cur, todo,   \* exp, and the experiments the loop has yet to come to
    retries,     \* of exp
    selected,    \* history of the round: what the query returned
    checked,     \*   experiments whose results were logged
    failed,      \*   experiments given up ("experiment_check_failed")
    tries,       \*   calls of get_results for each experiment
    throughout,  \*   experiments that have been running since it began
    roundFaults, \*   statements that failed
    faults, kills, stops   \* the failures so far

loopVars == <<session, cur, todo, retries>>
roundLog == <<selected, checked, failed, tries, throughout>>
env == <<kills, stops>>
errors == <<faults, roundFaults>>
vars == <<status, pc, shutdown, slept, loopVars, roundLog, errors, env>>

Running == {e \in Names : status[e] = "running"}

Init ==
    /\ status = [e \in Names |-> "absent"]
    /\ pc = "loop" /\ shutdown = FALSE /\ slept = 0
    /\ session = "clean" /\ cur = None /\ todo = {} /\ retries = 0
    /\ selected = {} /\ checked = {} /\ failed = {}
    /\ tries = [e \in Names |-> 0]
    /\ throughout = {}
    /\ faults = 0 /\ roundFaults = 0 /\ kills = 0 /\ stops = 0

-----------------------------------------------------------------------------
(* Any commit of the API (Experiments!NothingUndone).                          *)
ApiCommits(e) ==
    /\ status' \in {[status EXCEPT ![e] = s] : s \in MayBecome(status[e])}
    /\ throughout' = throughout \cap {x \in Names : status'[x] = "running"}
    /\ UNCHANGED <<pc, shutdown, slept, loopVars, selected, checked, failed, tries, errors, env>>

-----------------------------------------------------------------------------
(* A statement the database does not carry out. If it was sent, the transaction *)
(* of the session is aborted, or its connection gone.                          *)
Fault == faults < MaxFaults /\ faults' = faults + 1 /\ roundFaults' = roundFaults + 1

\* The for loop takes the next experiment; rows come in no particular order.
TurnTo(rest) ==
    /\ IF rest = {} THEN pc' = "nap" /\ cur' = None /\ todo' = {}
       ELSE pc' = "check" /\ cur' \in rest /\ todo' = rest \ {cur'}
    /\ retries' = 0

(* The head of the main loop, and the session of the round.                    *)
BadBeginRound ==
    /\ pc = "loop"
    /\ pc' = IF shutdown THEN "stopped" ELSE "select"
    /\ selected' = {} /\ checked' = {} /\ failed' = {}
    /\ tries' = [e \in Names |-> 0]
    /\ throughout' = Running
    /\ roundFaults' = 0
    /\ UNCHANGED <<status, shutdown, slept, session, cur, todo, retries, faults, env>>

BeginRound ==
    /\ pc = "loop"
    /\ pc' = IF shutdown THEN "stopped" ELSE "select"
    /\ session' = "clean"
    /\ selected' = {} /\ checked' = {} /\ failed' = {}
    /\ tries' = [e \in Names |-> 0]
    /\ throughout' = Running
    /\ roundFaults' = 0
    /\ UNCHANGED <<status, shutdown, slept, cur, todo, retries, faults, env>>

Select ==
    /\ pc = "select"
    /\ selected' = Running
    /\ TurnTo(Running)
    /\ UNCHANGED <<status, shutdown, slept, session, checked, failed, tries, throughout, errors, env>>

\* run_worker logs the exception and goes on with the nap.
SelectRaises ==
    /\ pc = "select"
    /\ Fault
    /\ pc' = "nap"
    /\ UNCHANGED <<status, shutdown, slept, loopVars, roundLog, env>>

(* get_results and what is logged of it.                                       *)
Try == tries' = [tries EXCEPT ![cur] = @ + 1]

BadCheckReturns ==
    /\ pc = "check" /\ session = "clean"
    /\ Try
    /\ checked' = checked \cup {cur}
    /\ TurnTo({})
    /\ UNCHANGED <<status, shutdown, slept, session, selected, failed, throughout, errors, env>>

CheckReturns ==
    /\ pc = "check" /\ session = "clean"
    /\ Try
    /\ checked' = checked \cup {cur}
    /\ TurnTo(todo)
    /\ UNCHANGED <<status, shutdown, slept, session, selected, failed, throughout, errors, env>>

\* In an aborted transaction every statement fails, whatever the retries.
CheckRaises ==
    /\ pc = "check"
    /\ Try
    /\ \/ session = "aborted" /\ UNCHANGED <<session, errors>>
       \/ session = "clean" /\ Fault /\ session' \in {"clean", "aborted"}
    /\ IF retries < MaxCheckRetries
       THEN /\ pc' = "backoff" /\ retries' = retries + 1
            /\ UNCHANGED <<cur, todo, failed>>
       ELSE /\ failed' = failed \cup {cur}
            /\ TurnTo(todo)
    /\ UNCHANGED <<status, shutdown, slept, selected, checked, throughout, env>>

\* The back-off does not look at _shutdown.
Wake ==
    /\ pc = "backoff" /\ pc' = "check"
    /\ UNCHANGED <<status, shutdown, slept, loopVars, roundLog, errors, env>>

(* The nap between rounds, second by second.                                   *)
BadNap ==
    /\ pc = "nap"
    /\ IF slept = PollInterval
       THEN pc' = "select" /\ slept' = 0
       ELSE slept' = slept + 1 /\ UNCHANGED pc
    /\ UNCHANGED <<status, shutdown, loopVars, roundLog, errors, env>>

Nap ==
    /\ pc = "nap"
    /\ IF shutdown \/ slept = PollInterval
       THEN pc' = "loop" /\ slept' = 0
       ELSE slept' = slept + 1 /\ UNCHANGED pc
    /\ UNCHANGED <<status, shutdown, loopVars, roundLog, errors, env>>

-----------------------------------------------------------------------------
(* The world: SIGTERM, a kill at any point, the restart of an ended process.   *)
RequestShutdown ==
    /\ stops < MaxStops /\ pc # "stopped" /\ ~shutdown
    /\ stops' = stops + 1 /\ shutdown' = TRUE
    /\ UNCHANGED <<status, pc, slept, loopVars, roundLog, errors, kills>>

Kill ==
    /\ kills < MaxKills /\ pc # "stopped"
    /\ kills' = kills + 1 /\ pc' = "stopped"
    /\ cur' = None /\ todo' = {} /\ retries' = 0 /\ slept' = 0
    /\ UNCHANGED <<status, shutdown, session, roundLog, errors, stops>>

Restart ==
    /\ pc = "stopped" /\ pc' = "loop"
    /\ shutdown' = FALSE
    /\ UNCHANGED <<status, slept, loopVars, roundLog, errors, env>>

-----------------------------------------------------------------------------
Step ==
    \/ BeginRound \/ Select \/ SelectRaises \/ CheckReturns \/ CheckRaises \/ Wake \/ Nap

Next ==
    \/ Step \/ RequestShutdown \/ Kill \/ Restart
    \/ \E e \in Names : ApiCommits(e)

Spec == Init /\ [][Next]_vars

(* Every await of the worker returns or raises, and Kubernetes restarts a      *)
(* process that ended. Nothing is assumed of API calls, kills and failures.    *)
FairSpec == Spec /\ WF_vars(Step) /\ WF_vars(Restart)

-----------------------------------------------------------------------------
(* Properties.                                                               *)

\* Types, and what each label says about the round.
TypeOK ==
    /\ status \in [Names -> Statuses \cup {"absent"}]
    /\ pc \in {"loop", "select", "check", "backoff", "nap", "stopped"}
    /\ shutdown \in BOOLEAN /\ slept \in 0..PollInterval
    /\ session \in {"clean", "aborted"}
    /\ cur \in Names \cup {None} /\ todo \subseteq Names /\ retries \in 0..MaxCheckRetries
    /\ selected \subseteq Names /\ checked \subseteq Names /\ failed \subseteq Names
    /\ tries \in [Names -> Nat] /\ throughout \subseteq Running
    /\ faults \in 0..MaxFaults /\ roundFaults \in Nat
    /\ kills \in 0..MaxKills /\ stops \in 0..MaxStops
    /\ cur # None <=> pc \in {"check", "backoff"}
    /\ pc \notin {"check", "backoff"} => todo = {} /\ retries = 0

\* A round leaves no selected experiment out, whatever happens to the others: each
\* is checked, or given up after the first attempt and all its own retries
\* (tuning_worker.py:30-69), and none is both.
RoundComplete ==
    /\ pc = "nap" => selected = checked \cup failed
    /\ checked \cap failed = {}
    /\ \A e \in failed : tries[e] = MaxCheckRetries + 1
    /\ \A e \in checked : tries[e] \in 1..(MaxCheckRetries + 1)

\* Failures have their cause in the round they happen in: an aborted transaction is
\* not carried into a later round, and without one MaxCheckRetries errors per
\* experiment are absorbed by its retries.
FailuresHaveCause ==
    /\ session = "aborted" => roundFaults > 0
    /\ session = "clean" => Cardinality(failed) * (MaxCheckRetries + 1) <= roundFaults

\* An experiment that was running all through a round in which the database did
\* its work has been checked, whatever API calls did to the others meanwhile.
NothingOverlooked == pc = "nap" /\ roundFaults = 0 => throughout \subseteq checked

\* An experiment that stays running is checked again and again, in spite of errors,
\* kills and shutdowns before.
KeptChecked == \A e \in Names :
    <>[](status[e] = "running") => []<>(pc = "nap" /\ e \in checked)

\* A worker that was told to stop ends, wherever in a round or a nap it was.
StopsOnRequest == shutdown ~> pc = "stopped"
=============================================================================
