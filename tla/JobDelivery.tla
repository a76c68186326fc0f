---------------------------- MODULE JobDelivery ----------------------------
(* What the scoring queue promises to whoever enqueues a job, with the queue,  *)
(* the workers and the retry counter hidden: a job is run at most              *)
(* MaxRetries + 1 times, it ends either completed or dead, it is dead only     *)
(* after every attempt was used up, and a job that was accepted is never lost  *)
(* without a failure of a worker or of Redis to blame (at most one job each).  *)
EXTENDS Integers

CONSTANTS
    Jobs,        \* the jobs a caller may submit
    MaxRetries   \* re-runs after the first attempt

VARIABLES
    status,      \* [Jobs -> Status]
    attempts,    \* [Jobs -> Nat]: runs started so far
    blame        \* failures that have happened and may have cost a job

vars == <<status, attempts, blame>>

Status == {"absent", "waiting", "running", "done", "dead", "lost"}

Init ==
    /\ status = [j \in Jobs |-> "absent"]
    /\ attempts = [j \in Jobs |-> 0]
    /\ blame = 0

Move(j, from, to) ==
    /\ status[j] = from
    /\ status' = [status EXCEPT ![j] = to]

Submit(j) == Move(j, "absent", "waiting") /\ UNCHANGED <<attempts, blame>>

Take(j) ==
    /\ Move(j, "waiting", "running")
    /\ attempts' = [attempts EXCEPT ![j] = @ + 1]
    /\ UNCHANGED blame

Complete(j) == Move(j, "running", "done") /\ UNCHANGED <<attempts, blame>>

Retry(j) ==
    /\ Move(j, "running", "waiting")
    /\ attempts[j] <= MaxRetries
    /\ UNCHANGED <<attempts, blame>>

Bury(j) ==
    /\ Move(j, "running", "dead")
    /\ attempts[j] = MaxRetries + 1
    /\ UNCHANGED <<attempts, blame>>

\* A failure of a worker or of its Redis connection: it may cost the job it hits
\* (the one running, or the one being taken), cut in after its move took effect
\* (the job was put back or buried although the worker never heard so), or hit
\* no job at all.
Blame == blame' = blame + 1

FailOn(j) ==
    /\ Blame
    /\ \/ status[j] \in {"running", "waiting"} /\ status' = [status EXCEPT ![j] = "lost"]
       \/ Move(j, "running", "waiting") /\ attempts[j] <= MaxRetries
       \/ Move(j, "running", "dead") /\ attempts[j] = MaxRetries + 1
    /\ UNCHANGED attempts

FailIdle == Blame /\ UNCHANGED <<status, attempts>>

Progress(j) == Take(j) \/ Complete(j) \/ Retry(j) \/ Bury(j) \/ FailOn(j)

Next == FailIdle \/ \E j \in Jobs : Submit(j) \/ Progress(j)

\* A submitted job keeps moving: it cannot rest in "waiting" or "running".
Spec == Init /\ [][Next]_vars /\ \A j \in Jobs : WF_vars(Progress(j))

Safety == Init /\ [][Next]_vars
=============================================================================
