--------------------------- MODULE ScoringWorker ---------------------------
(* The scoring queue and its worker processes (workers/scoring_worker.py):     *)
(* jobs pushed on a Redis list, popped before they are processed, re-pushed    *)
(* with a retry count after a failure and dead-lettered when it is used up,    *)
(* while workers are told to shut down, killed, cut off from Redis, restarted. *)
EXTENDS Integers, Sequences, FiniteSets

CONSTANTS
    Jobs,        \* jobs callers may enqueue, one enqueue each
    Workers,     \* worker processes (helm values-prod: 2 replicas)
    MaxRetries,  \* MAX_RETRIES
    MaxScores,   \* bound: individual scores a pipeline run may return
    MaxKills,    \* bound: SIGKILLs, OOM kills and node losses
    MaxFaults,   \* bound: Redis calls that raise
    MaxStops,    \* bound: SIGTERMs
    NoMsg        \* "no message in hand"

Message == [job : Jobs, retry : 0..MaxRetries]

ASSUME ConstantsAssumption ==
    /\ MaxRetries \in Nat
    /\ MaxScores \in Nat
    /\ MaxKills \in Nat
    /\ MaxFaults \in Nat
    /\ MaxStops \in Nat
    /\ NoMsg \notin Message

VARIABLES
    queue,     \* llmops:scoring:queue, oldest message first (LPUSH / BRPOP)
    dlq,       \* llmops:scoring:dlq
    pc,        \* where each worker is
    hand,      \* the message a worker has popped and not yet given away
    todo,      \* scores it still has to submit to the observability backend
    shutdown,  \* _shutdown of each worker process
    rows,      \* score_results rows committed per job
    scores,    \* scores handed to the observability client per job
    enqueued,  \* history: jobs enqueue_scoring_job has pushed
    done,      \* history: jobs whose process_job returned (status="success")
    attempts,  \* history: process_job calls per job
    kills, faults, stops   \* the failures so far

env == <<kills, faults, stops>>
sinks == <<rows, scores>>
history == <<enqueued, done, attempts>>
vars == <<queue, dlq, pc, hand, todo, shutdown, sinks, history, env>>

\* Labels of run_worker, process_job and _handle_job_with_retry.
Idle == {"loop", "brpop"}
Busy == {"score", "commit", "submit", "backoff", "bury"}
Labels == Idle \cup Busy \cup {"exited"}

Init ==
    /\ queue = <<>> /\ dlq = <<>>
    /\ pc = [w \in Workers |-> "loop"]
    /\ hand = [w \in Workers |-> NoMsg]
    /\ todo = [w \in Workers |-> 0]
    /\ shutdown = [w \in Workers |-> FALSE]
    /\ rows = [j \in Jobs |-> 0]
    /\ scores = [j \in Jobs |-> 0]
    /\ enqueued = {} /\ done = {}
    /\ attempts = [j \in Jobs |-> 0]
    /\ kills = 0 /\ faults = 0 /\ stops = 0

-----------------------------------------------------------------------------
(* Where a job is. *)
InList(list, j) == \E i \in DOMAIN list : list[i].job = j
NoRepeat(list) == \A i, k \in DOMAIN list : list[i].job = list[k].job => i = k
Queued(j) == InList(queue, j)
Dead(j) == InList(dlq, j)
Holds(w, j) == pc[w] \in Busy /\ hand[w].job = j
Held(j) == \E w \in Workers : Holds(w, j)
Settled(j) == j \in done \/ Dead(j)
Lost == {j \in enqueued : ~Queued(j) /\ ~Held(j) /\ ~Settled(j)}

-----------------------------------------------------------------------------
(* Building blocks of the worker's steps. An operator named Bad... is a faulty *)
(* variant of the definition after it, for the mutation runs; the              *)
(* specification uses none of them.                                            *)
Goto(w, from, to) == pc[w] = from /\ pc' = [pc EXCEPT ![w] = to]

Drop(w) == hand' = [hand EXCEPT ![w] = NoMsg] /\ todo' = [todo EXCEPT ![w] = 0]

BadNextTry(m) == m
NextTry(m) == [m EXCEPT !.retry = @ + 1]

BadAfterFailureLate(m) == IF m.retry <= MaxRetries THEN "backoff" ELSE "bury"
AfterFailure(m) == IF m.retry < MaxRetries THEN "backoff" ELSE "bury"

-----------------------------------------------------------------------------
(* The caller: enqueue_scoring_job. *)
Enqueue(j) ==
    /\ j \notin enqueued
    /\ enqueued' = enqueued \cup {j}
    /\ queue' = Append(queue, [job |-> j, retry |-> 0])
    /\ UNCHANGED <<dlq, pc, hand, todo, shutdown, sinks, done, attempts, env>>

(* run_worker: the flag is read before the blocking pop, not after it. *)
BadCheckShutdown(w) ==
    /\ Goto(w, "loop", "brpop")
    /\ UNCHANGED <<queue, dlq, hand, todo, shutdown, sinks, history, env>>

CheckShutdown(w) ==
    /\ Goto(w, "loop", IF shutdown[w] THEN "exited" ELSE "brpop")
    /\ UNCHANGED <<queue, dlq, hand, todo, shutdown, sinks, history, env>>

BadBrpopTimeout(w) ==
    /\ Goto(w, "brpop", "loop")
    /\ UNCHANGED <<queue, dlq, hand, todo, shutdown, sinks, history, env>>

BrpopTimeout(w) ==
    /\ queue = <<>>
    /\ Goto(w, "brpop", "loop")
    /\ UNCHANGED <<queue, dlq, hand, todo, shutdown, sinks, history, env>>

BadPopPeeks(w) ==
    /\ queue # <<>>
    /\ Goto(w, "brpop", "score")
    /\ hand' = [hand EXCEPT ![w] = Head(queue)]
    /\ attempts' = [attempts EXCEPT ![Head(queue).job] = @ + 1]
    /\ UNCHANGED <<queue, dlq, todo, shutdown, sinks, enqueued, done, env>>

BadPopThenCheck(w) ==
    /\ queue # <<>>
    /\ Goto(w, "brpop", IF shutdown[w] THEN "exited" ELSE "score")
    /\ queue' = Tail(queue)
    /\ hand' = IF shutdown[w] THEN hand ELSE [hand EXCEPT ![w] = Head(queue)]
    /\ attempts' = [attempts EXCEPT ![Head(queue).job] = @ + 1]
    /\ UNCHANGED <<dlq, todo, shutdown, sinks, enqueued, done, env>>

Pop(w) ==
    /\ queue # <<>>
    /\ Goto(w, "brpop", "score")
    /\ queue' = Tail(queue)
    /\ hand' = [hand EXCEPT ![w] = Head(queue)]
    /\ attempts' = [attempts EXCEPT ![Head(queue).job] = @ + 1]
    /\ UNCHANGED <<dlq, todo, shutdown, sinks, enqueued, done, env>>

(* process_job: run the pipeline, commit one row, submit each score, flush. *)
RunPipeline(w) ==
    /\ Goto(w, "score", "commit")
    /\ \E n \in 0..MaxScores : todo' = [todo EXCEPT ![w] = n]
    /\ UNCHANGED <<queue, dlq, hand, shutdown, sinks, history, env>>

Commit(w) ==
    /\ Goto(w, "commit", "submit")
    /\ rows' = [rows EXCEPT ![hand[w].job] = @ + 1]
    /\ UNCHANGED <<queue, dlq, hand, todo, shutdown, scores, history, env>>

SubmitScore(w) ==
    /\ pc[w] = "submit" /\ todo[w] > 0
    /\ todo' = [todo EXCEPT ![w] = @ - 1]
    /\ scores' = [scores EXCEPT ![hand[w].job] = @ + 1]
    /\ UNCHANGED <<queue, dlq, pc, hand, shutdown, rows, history, env>>

Finish(w) ==
    /\ todo[w] = 0
    /\ Goto(w, "submit", "loop")
    /\ done' = done \cup {hand[w].job}
    /\ Drop(w)
    /\ UNCHANGED <<queue, dlq, shutdown, sinks, enqueued, attempts, env>>

(* process_job raises: building or running the pipeline, the commit (which the *)
(* server may have applied although the client saw an error), the submission   *)
(* of a score or the flush. The handler then backs off, or gives up. A score   *)
(* taken although its submission raised is a SubmitScore before this.          *)
BadRaises(w) ==
    /\ pc[w] \in {"score", "commit", "submit"}
    /\ pc' = [pc EXCEPT ![w] = IF pc[w] = "commit" THEN "submit" ELSE AfterFailure(hand[w])]
    /\ UNCHANGED <<queue, dlq, hand, todo, shutdown, sinks, history, env>>

Raises(w) ==
    /\ pc[w] \in {"score", "commit", "submit"}
    /\ pc' = [pc EXCEPT ![w] = AfterFailure(hand[w])]
    /\ todo' = [todo EXCEPT ![w] = 0]
    /\ \/ UNCHANGED rows
       \/ pc[w] = "commit" /\ rows' = [rows EXCEPT ![hand[w].job] = @ + 1]
    /\ UNCHANGED <<queue, dlq, hand, shutdown, scores, history, env>>

(* _handle_job_with_retry, once the back-off is over or the retries are used. *)
Requeue(w) ==
    /\ Goto(w, "backoff", "loop")
    /\ queue' = Append(queue, NextTry(hand[w]))
    /\ Drop(w)
    /\ UNCHANGED <<dlq, shutdown, sinks, history, env>>

Bury(w) ==
    /\ Goto(w, "bury", "loop")
    /\ dlq' = Append(dlq, hand[w])
    /\ Drop(w)
    /\ UNCHANGED <<queue, shutdown, sinks, history, env>>

(* A Redis call raises: the exception leaves run_worker and the process ends.  *)
(* The server may have applied the command before the connection broke.        *)
RedisRaises(w) ==
    /\ faults < MaxFaults
    /\ faults' = faults + 1
    /\ \/ /\ pc[w] = "brpop"
          /\ queue' = queue \/ (queue # <<>> /\ queue' = Tail(queue))
          /\ UNCHANGED dlq
       \/ /\ pc[w] = "backoff"
          /\ queue' \in {queue, Append(queue, NextTry(hand[w]))}
          /\ UNCHANGED dlq
       \/ /\ pc[w] = "bury"
          /\ dlq' \in {dlq, Append(dlq, hand[w])}
          /\ UNCHANGED queue
    /\ pc' = [pc EXCEPT ![w] = "exited"]
    /\ Drop(w)
    /\ UNCHANGED <<shutdown, sinks, history, kills, stops>>

(* The world: SIGTERM, a kill at any point, the restart of an ended process.   *)
RequestShutdown(w) ==
    /\ stops < MaxStops
    /\ pc[w] # "exited" /\ ~shutdown[w]
    /\ shutdown' = [shutdown EXCEPT ![w] = TRUE]
    /\ stops' = stops + 1
    /\ UNCHANGED <<queue, dlq, pc, hand, todo, sinks, history, kills, faults>>

Kill(w) ==
    /\ kills < MaxKills
    /\ pc[w] # "exited"
    /\ pc' = [pc EXCEPT ![w] = "exited"]
    /\ Drop(w)
    /\ kills' = kills + 1
    /\ UNCHANGED <<queue, dlq, shutdown, sinks, history, faults, stops>>

Restart(w) ==
    /\ Goto(w, "exited", "loop")
    /\ shutdown' = [shutdown EXCEPT ![w] = FALSE]
    /\ UNCHANGED <<queue, dlq, hand, todo, sinks, history, env>>

-----------------------------------------------------------------------------
Step(w) ==
    \/ CheckShutdown(w) \/ BrpopTimeout(w) \/ Pop(w)
    \/ RunPipeline(w) \/ Commit(w) \/ SubmitScore(w) \/ Finish(w)
    \/ Raises(w) \/ Requeue(w) \/ Bury(w)

Next ==
    \/ \E j \in Jobs : Enqueue(j)
    \/ \E w \in Workers :
          Step(w) \/ RedisRaises(w) \/ RequestShutdown(w) \/ Kill(w) \/ Restart(w)

Spec == Init /\ [][Next]_vars

(* A live worker keeps running (its event loop has one coroutine, every await  *)
(* returns or raises) and Kubernetes restarts one that ended.                  *)
FairSpec == Spec /\ \A w \in Workers : WF_vars(Step(w)) /\ WF_vars(Restart(w))

-----------------------------------------------------------------------------
(* Properties.                                                               *)

\* Types. A worker holds a message exactly while it is busy with a job, and has
\* scores left only between the pipeline and the end of process_job.
TypeOK ==
    /\ queue \in Seq(Message) /\ dlq \in Seq(Message)
    /\ pc \in [Workers -> Labels]
    /\ hand \in [Workers -> Message \cup {NoMsg}]
    /\ todo \in [Workers -> 0..MaxScores]
    /\ shutdown \in [Workers -> BOOLEAN]
    /\ rows \in [Jobs -> Nat] /\ scores \in [Jobs -> Nat]
    /\ enqueued \subseteq Jobs /\ done \subseteq Jobs
    /\ attempts \in [Jobs -> Nat]
    /\ kills \in 0..MaxKills /\ faults \in 0..MaxFaults /\ stops \in 0..MaxStops
    /\ \A w \in Workers : hand[w] \in Message <=> pc[w] \in Busy

\* A job is in one place only: one copy in the queue, or in one worker's hands,
\* or one copy in the dead-letter queue, or completed. Two workers never score
\* the same job, and a job that ended never comes back.
OnePlace ==
    /\ NoRepeat(queue) /\ NoRepeat(dlq)
    /\ \A v, w \in Workers, j \in Jobs : Holds(v, j) /\ Holds(w, j) => v = w
    /\ \A j \in Jobs :
           /\ Queued(j) => ~Held(j) /\ ~Dead(j) /\ j \notin done
           /\ Held(j) => ~Dead(j) /\ j \notin done
           /\ Dead(j) => j \notin done
           /\ Queued(j) \/ Held(j) \/ Settled(j) => j \in enqueued

\* The retry count a message carries is the number of attempts that failed: no
\* update is lost on the way through the queue, and a job is dead-lettered only
\* when the first attempt and all MaxRetries retries have been used.
AttemptsCounted ==
    /\ \A i \in DOMAIN queue : attempts[queue[i].job] = queue[i].retry
    /\ \A w \in Workers : pc[w] \in Busy => attempts[hand[w].job] = hand[w].retry + 1
    /\ \A i \in DOMAIN dlq : attempts[dlq[i].job] = MaxRetries + 1

\* Retries after a commit duplicate rows, but a job never leaves more than one
\* row per allowed attempt.
RowsBounded == \A j \in Jobs : rows[j] <= MaxRetries + 1

\* The observability backend never holds a score that no committed row backs,
\* and a job counted as a success has a row.
ScoresBacked == \A j \in Jobs :
    /\ scores[j] <= MaxScores * rows[j]
    /\ j \in done => rows[j] >= 1

\* Every lost job has a kill or a failed Redis call to blame, one each: SIGTERM
\* at any point, failed attempts and full retries lose nothing.
LossBounded == Cardinality(Lost) <= kills + faults

\* README.md:46 promises retries and a dead-letter queue for failed jobs: a job
\* that was started and did not complete is queued, in work or dead-lettered.
FailedJobsKept == \A j \in Jobs : attempts[j] > 0 => j \notin Lost

\* The delivery contract, with queue, workers and retry counter hidden.
StatusOf(j) ==
    CASE j \in done -> "done"
      [] Queued(j) -> "waiting"
      [] Held(j) -> "running"
      [] Dead(j) -> "dead"
      [] j \in Lost -> "lost"
      [] OTHER -> "absent"

Delivery == INSTANCE JobDelivery WITH
    status <- [j \in Jobs |-> StatusOf(j)], blame <- kills + faults

\* Every step of the workers is a step of JobDelivery or changes nothing there.
DeliverySafety == Delivery!Safety

\* ... and no accepted job waits or runs for ever.
DeliverySpec == Delivery!Spec

\* A worker that was told to shut down stops.
ShutdownCompletes == \A w \in Workers : shutdown[w] ~> pc[w] = "exited"
=============================================================================
