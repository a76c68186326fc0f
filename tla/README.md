# LLMOps platform: TLA+ models and proofs

This directory models the parts of the platform in which something can go wrong
that a unit test hardly reaches: queues and retries, API calls that race in the
database, and limits shared through Redis. TLC checks the models on small
instances; TLAPS proves the most important results for every value of the
constants. Paths such as `workers/scoring_worker.py` are relative to
`src/llmops/` in the repository.

## 1. The system and its parts

The platform is a FastAPI service in front of PostgreSQL, Redis, LLM vendors and
an observability backend (Langfuse), with two background workers. The API runs as
several replicas; each request gets a database session of its own
(`db/session.py`, READ COMMITTED, no explicit locks); nothing is shared between
requests but the database and Redis.

| Component | State | Operations | Talks to | Hard behaviours | Correct when | Here |
|---|---|---|---|---|---|---|
| Scoring worker (`workers/scoring_worker.py`) | Redis lists `llmops:scoring:queue` and `:dlq`; table `score_results`; the job in the worker's memory; `_shutdown` | `enqueue_scoring_job`, `run_worker`, `process_job`, `_handle_job_with_retry`, `_request_shutdown` | Redis, database, scoring pipeline, observability | two replicas on one list; pop before processing; crash, SIGTERM, Redis failure at any await; retry after a commit | a job is in one place, is run at most 1+3 times, ends completed or dead-lettered, is lost only to a crash | `ScoringWorker` |
| Prompt store (`core/prompts/manager.py`, `api/v1/prompts.py`) | tables `prompts`, `prompt_versions` | create, create_version, promote, get | database | two callers read the same maximum; failures between statements; rows re-read after the commit | versions are 1..n, immutable, and belong to who was told so | `PromptStore` |
| Experiments (`core/tuning/experiment.py`, `api/v1/tuning.py`) | tables `experiments`, `experiment_trials` | create, start, allocate, record_trial, get_results, conclude, cancel | database | a status is checked on a row read earlier; stale ORM writes; trials arriving during a ranking | nothing comes out of an experiment nobody started; a winner is backed; a key keeps its variant | `Experiments` |
| Rate limiter (`api/middleware/rate_limit.py`) | a Redis sorted set per key | `check`, `rate_limit_dependency` | Redis | requests of several processes overtake each other; Redis fails before or after applying | at most rpm per window; a refusal is the caller's own doing | `RateLimiter` |
| Allocation and parameter space (`core/tuning/ab_test.py`, `parameter_space.py`) | none | allocate, generate variants | - | truncation; bucket and variant index from one hash; a step that never reaches the maximum; floats that drift past it | traffic share and variant are those configured; a grid is complete | `ParameterSpace`, `ExperimentSetup` |
| Tuning worker (`workers/tuning_worker.py`) | `_shutdown` | periodic read of the running experiments | database | one session for all experiments: an aborted transaction fails every retry; no dead-letter queue | every running experiment is looked at each round; stops on SIGTERM | `TuningWorker` |
| Gateway and router (`core/gateway/router.py`, `api/v1/gateway.py`) | none of its own | chat, chat_stream | providers, observability, cost tracker | a stream whose reader goes away; a cost record that fails after a paid answer; the two functions record in different orders, and a stream is recorded after its last chunk | whoever is told that the answer is complete is in the books, each entry is backed by one paid call, traces end | `Gateway` |
| Cost tracking (`core/gateway/cost_tracker.py`, `langfuse_cost_tracker.py`) | Redis hashes per service and per service and model | record, get_summary | Redis, Langfuse | records of concurrent calls; a summary scan during writes; `service_name` missing from generation metadata | totals agree with the records; charged to the right service | `Gateway`, `CostSummary` |
| Scoring pipeline (`core/scoring/`) | none | run scorers in parallel, weighted sum | scorers | a failed scorer is left out without renormalising; all failed gives 0.0 | the aggregate is the weighted mean, failed scorers counting nothing, however nested; scores keep to 0..1 | `Strategies`, `ScoringPipeline` |
| Scoring API (`api/v1/scoring.py`) | tables of pipelines and scores | pipelines, evaluate | database, pipeline, observability | commits before it submits scores; the Langfuse client buffers them, and evaluate does not flush it | answers and submitted scores are backed by one stored row; scores are lost only with a buffer | `Scoring` |
| Observability (`core/observability/`) | external | traces, generations, scores, flush | Langfuse | any call may raise | - | traces and generations in `Gateway`, scores in `ScoringWorker` and `Scoring` |
| Providers (`core/gateway/anthropic.py`, `gemini.py`) | none | format requests, parse responses | vendor SDKs | - | - | not modelled |
| Auth, admin, readiness | none | check one request; the usage summary of `admin.py` | - | - | - | not modelled, but for the summary: `CostSummary` |
| Sessions, repositories, metrics, logging, configuration, deployment | pool of 20+10 connections; counters | - | - | - | - | not modelled |

## 2. How the modules are organised

    JobDelivery  <----- implemented by -----  ScoringWorker    <-- ScoringWorkerProofs
    PromptLedger <----- implemented by -----  PromptStore      <-- PromptStoreProofs
    ExperimentLifecycle <- (unless stale) --  Experiments      <-- ExperimentsProofs
                       ExperimentStatus <---  Experiments
                       ExperimentStatus <---  TuningWorker     <-- TuningWorkerProofs
                         ParameterSpace <---  ExperimentSetup  <-- ExperimentSetupProofs
                                              RateLimiter      <-- RateLimiterProofs
                                Gateway <---  CostSummary      <-- GatewayProofs
          Strategies <- ScoringPipeline <---  Scoring          <-- ScoringProofs

(`A <-- B`: B extends or instantiates A.)

`JobDelivery`, `PromptLedger` and `ExperimentLifecycle` are abstract: what a
component promises to its callers, without its mechanism. A detailed module
instantiates its abstraction with a refinement mapping at its end and states
`...Spec` as a property. `MC...` modules only add symmetry sets and values
of constants for TLC.
`...Proofs` modules hold the theorems.

Three conventions. `call`, `reply`, `done`, `attempts` and the like are history or
session-local state: what a caller remembers, not what is stored. `refresh` labels
model `session.refresh` after a commit. An operator whose name starts with `Bad`
is a faulty variant of the definition it precedes (a dropped guard, an off-by-one,
a forgotten reset): `PROJECT.json` pairs each property with the variant that must
break it, and no specification uses them.

Most components meet only through data the models already treat as arbitrary
input: the scoring worker gets any job, the experiments get any trial, the gateway
any request the limiter let through. They are separate state machines. Three
compositions are not of that kind:

- The router, the trace, the vendor, the observability backend and the cost tracker
  interact step by step and are one module, `Gateway`; `CostSummary` puts a summary of
  all services next to the completions it sums.
- The tuning worker reads what the experiment API writes. Its environment is "any
  commit of the API", the relation `MayBecome` of `ExperimentStatus`, and that the API
  does no more than this is what `Experiments` is checked and proved to do
  (`NothingUndone`): an assumption of one module is a guarantee of the other.
- An evaluation runs strategies in a pipeline in an API call: `Strategies`,
  `ScoringPipeline` and `Scoring` extend one another.

## 3. The models

### ScoringWorker

One action per await of the worker. `Enqueue` is the LPUSH of
`enqueue_scoring_job`; `CheckShutdown` the `while not _shutdown`; `BrpopTimeout`
and `Pop` the two outcomes of BRPOP; `RunPipeline`, `Commit`, `SubmitScore`,
`Finish` are `process_job`; `Raises` is any exception in it, which
`_handle_job_with_retry` catches; `Requeue` is the LPUSH after the back-off and
`Bury` the LPUSH on the dead-letter queue. `RedisRaises` is a Redis call that
fails, applied or not: nothing catches it, so the process ends. `Kill`,
`RequestShutdown` and `Restart` are the world. A job is a model value; a message is
a job and the retry count the payload carries. A pipeline run is the number of
scores it returns: which scorers failed inside it is not visible to the worker.
Two idealisations: the Redis client does not resend a command by itself, and a
message is always valid JSON (an invalid one raises outside the `try`, and the
process ends as in `RedisRaises`).

Runs. `worker` (2 workers, 2 jobs, one retry, one kill, one Redis failure, one
SIGTERM) checks that a job is in one place (`OnePlace`), that the retry count
equals the failed attempts (`AttemptsCounted`), that duplicate rows are bounded
(`RowsBounded`), that scores and successes are backed by rows (`ScoresBacked`), that
each lost job has a failure of its own to blame (`LossBounded`), that every step is a
step of `JobDelivery` and every accepted job ends (`DeliverySpec`), and that a worker told
to stop stops (`ShutdownCompletes`). Two of each actor is where all sharing begins;
one retry has a first and a last attempt, and larger values of every bound are
covered, for the safety properties, by the proofs. `worker_loss` shows the disagreement
with README.md:46: a failed job can be in neither queue.

Fairness. `Step(w)` is weakly fair per worker: the process has one coroutine, so a
live worker takes a step unless all its awaits hang, and each either returns or
raises (BRPOP has a timeout, the back-off is a sleep). `Restart(w)` is weakly
fair because Kubernetes restarts ended processes. Nothing is assumed of kills,
failures, SIGTERMs or callers. `Raises` is part of `Step` and unbounded but for the
retry count, which is why jobs end.

### PromptStore

Each call is a session of its own. `create` is `CreateFlush` (the INSERT of the
prompt, which waits for an uncommitted row of the same name) and `CreateCommit`;
`create_version` is `ReadMax` and then `InsertVersion`, or `InsertConflict` when the
unique constraint `uq_prompt_version` rejects it; `promote` is `LoadVersion` and
`CommitPromote`, which writes only when the value differs from the one loaded. All
answer by `Refresh`. `Fail` ends a call anywhere: rolled back before its commit,
unanswered after it. A template is the identity of the call that wrote it, which
tells apart whatever the properties tell apart.

Runs. `prompt_store` (four calls on two prompts, three environments, one invalid
environment) checks that numbers are 1..n (`Contiguous`), that a caller owns the
number it was told (`OwnVersion`), and that the store is an append-only ledger
(`LedgerSpec`). Four calls allow two racing writers with a promotion and a failed
call around them. `prompt_promoted` shows that a promotion need not change what is
served (README.md:32).

### Experiments

`Create`, `Allocate` and `RecordTrial` are one transaction each; `Load` is the
`_get_experiment` and status check of start, conclude and cancel; `Rank` is
`get_results` inside a conclude that names no winner; `Commit` writes the columns
that differ from the loaded row (`Written`), whatever the row is by then; `Refresh`
answers; `Fail` ends a call anywhere. The identity map of the session makes
`conclude` keep the row it first read, so there is one read per call. Scores are
whole numbers; means are rounded to four decimals as in the code; ties go either
way. The hash of an allocation key is abstracted to the variant it falls on
(`slot`, or none), fixed by the stored variants and traffic.

Runs. `experiments_race` (five calls on one experiment, two in flight at a time) checks
what holds however calls race: `StartedFirst`, `WinnerBacked`, `StickyAllocation`,
`NothingUndone`, and `FreshCallsFollow`: a call that commits on the row it loaded takes a
step of the documented lifecycle (`ExperimentLifecycle`), so that a stale read is the only
thing that can break it. Five calls are a create, a start, two trials and a conclude, the
shortest history in which a ranking has something to choose from; two in flight put any
call into the gap of any other. `experiments_restart` shows what a stale read does: with
two calls in flight a start revives a cancelled experiment, against the docstring of
`start`.

### TuningWorker

One action per await. `BeginRound` opens the session, `Select` is the query for running
experiments (rows come in any order), `CheckReturns` and `CheckRaises` are the two outcomes
of `get_results` with the retry counter, `Wake` the end of a back-off, `Nap` the sleep in
increments, `RequestShutdown`, `Kill` and `Restart` the world, `ApiCommits` any commit of
the API in between. A fault is a statement the database does not carry out: it leaves the
transaction of the session aborted, so that every later check of the round fails too, with
all its retries, or it fails before the statement was sent, in which case a retry helps.
The worker has no dead-letter queue: what it gives up it looks at again next round. The
history variables (`selected`, `checked`, `failed`, `tries`, `throughout`, `roundFaults`)
are about the current round.

Run. `tuning_worker` (2 experiments, 2 retries, naps of 2 seconds, 3 faults, one kill, one
SIGTERM) checks that a round leaves nothing it selected out and gives nothing up early
(`RoundComplete`), that faults do not reach into a later round and are absorbed by the
retries while the transaction lives (`FailuresHaveCause`), that what is running all through
a round without faults is checked whatever the API does (`NothingOverlooked`), that an
experiment that stays running is checked again and again (`KeptChecked`), and that a worker
told to stop stops from wherever it is (`StopsOnRequest`). Three faults are one more than
the retries of one experiment absorb.

Fairness. `Step` and `Restart` are weakly fair, for the reasons given for the scoring
worker; `FairSpec` asks nothing of API calls and faults, which `MaxFaults` bounds.

### ParameterSpace and ExperimentSetup

`ParameterSpace` is the generation of variants as functions: numbers are units of the sixth
decimal, to which the grid rounds; default steps are a fifth of a range, which is why
`Step5` counts fifths. Sums of floats drift, so `Lasts` leaves open whether the maximum itself
is still reached. Random values are rounded to the fourth decimal (`RandomUnit`), which may
put them up to half of that outside a range. `ExperimentSetup` is `ExperimentRunner.create`,
which generates unless variants are given, and `ABTestAllocator.allocate` as the function
`Place` of a key's hash. A grid over a range with a step that does not advance never ends:
such a request is in `hung`. The product of a traffic percentage and 100 may fall just
below a whole number before it is truncated: `Short` names the shares for which it does.

Run. `experiment_setup` (two requests over nine spaces, three strategies, four shares of
eight buckets) checks `VariantsFit` (nothing outside the declaration), `GridComplete` (each
combination once, against a reference that does not iterate), `FairSplit` (the share is met
within one bucket and variants differ by at most one bucket, counted over `Buckets * n`
hashes) and `TrafficNests`: of two experiments with equally many variants the one with more
traffic has all keys of the other, on the variants of the same number. This is the reason why a rerun
with more traffic moves nobody; it also means that simultaneous experiments are
not independent of one another, because the hash is of the key alone. Eight buckets and up
to six variants include numbers of variants that do and do not divide the buckets.

### RateLimiter

`TakeTime` reads the clock; `Execute` is the Redis transaction and the verdict;
`RedisRaises` is a failure, applied or not, after which the request is let through
uncounted; `Tick` advances the clock and expires the key. One key is modelled: keys
share nothing. Times are whole ticks and may coincide, in which case Redis keeps one
member, as for equal `str(now)`. All processes are assumed to read one clock; a
skew between hosts acts as additional delay.

Runs. `rate_limiter` (five requests, limit 2, window 5, delay up to 2) checks
`AdmissionBounded` and `RefusalBacked`. The delay of two ticks is the smallest at
which the bound needs its "less the delay": with the full window TLC finds three
admissions in five ticks, because a late request with a later time has dropped
entries that an overtaken one should still count. Not a disagreement, but
worth knowing: refused requests are recorded as well and count against later ones
(the class calls itself a token bucket, in which they would not), so a caller that
keeps trying may stay refused; `RefusalBacked` counts them.

### Gateway

A request is one completion. `Begin` is everything up to the opening of the trace
(prompt, conversion, provider), which may raise; `ProviderAnswers`, `StreamChunk` and
`StreamEnds` are the vendor, `ProviderRaises` its errors and timeouts, after which it may
or may not have billed; `LogGeneration` and `RecordCost` are the two books, in the order
of `chat` (log, then charge, then answer) or of `chat_stream` (last chunk, charge, log);
`LogRaises` and `RecordRaises` their failures, with the entry made or not. What the client
has is `got`: the chunks, whether they are the whole text (the last chunk carries the finish
reason and, with some vendors, the token counts), and how the call ended; `end = "answer"` is the
response of `chat` or the `[DONE]` line. `Close` is the end of `async with trace`, which also
flushes what the Langfuse client has buffered, so that a logged generation is in Langfuse
before any caller is told how its call ended. `ClientLeaves` cancels the task that serves a stream, at an
await inside the router or while it sends a chunk; in the latter case the generator
stays suspended and `Collect` is Python closing it. The client of a call that is not
streamed cannot do that: its handler runs to its end. `backend` is the configured
observability backend, which also selects the cost tracker: with `langfuse` the
generations are the books and `record` does nothing, with `noop` it is the counters in
Redis. Tokens are reduced to whether a request has seen counts, prices are left out.
Flushing at the end of a trace is taken not to raise, and the API process not to end in the
middle of a request.

`CostSummary` adds one summary of all services. With Redis it is a SCAN and one HGETALL per
key found (`ReadService`, in any order, until `ScanEnds`): SCAN returns what was there all the
time and promises nothing of the rest. A service with a colon in its name has a key of
more than three parts, which the scan takes for a per-model key and leaves out; `Plain`
are the others. With Langfuse it is a number of pages (`PagesEnd`), which hold at
least what was flushed before the first (`Settled`). `SummaryRaises` is a failure of either.

Runs. `gateway` (two requests, three services, two chunks, unlimited failures, one summary)
checks that whoever is told that the answer is complete is in the book of the backend in use,
and that the counters of Redis cover them (`EveryAnswerRecorded`), that the books hold
only billed work, once (`OnlyWorkRecorded`), that each number of a summary is one the service
had while the summary was made (`SummaryWithin`) and, with fairness, that traces end
(`TracesEnd`). Two requests on one service show a lost or doubled count, two services a
charge to the wrong one and a summary that reads one hash before and one after a charge;
the third has a colon in its name; two chunks put a reader's departure between chunks.

`EveryAnswerRecorded` promises less for streams than for `chat`, because the code does:
`chat_stream` hands out every chunk, with the finish reason and the usage, before it records
(router.py:98-109). If the vendor, `record` or `log_generation` raises after the last chunk, or
the reader leaves there, the reader has the whole text, lacks only `[DONE]`, and may be in no
book. The property says that these are the only ones: no answer of `chat`, and no stream that
ran to its end, is left out, and the counters hold every request that is recorded.

`gateway_service` shows that under Langfuse the summary of a service stays empty
(README.md:31), because the service name is not in the generations that are summed.

Fairness. `Step(r)` is weakly fair: the vendor SDKs have timeouts, Redis and Langfuse return
or raise, a reader takes a chunk or leaves, and the event loop closes collected
generators. The departure of readers is not fair, and neither is the arrival of
requests.

### Strategies, ScoringPipeline and Scoring

`Strategies` is what a scorer may return, in whole numbers of the last rounded decimal. `One`
is 1.0, and ten in the run. Rules give the share that pass; the embedding gives a cosine; a
judge's answer is a record of what can be read in it (a JSON object with a number, "nan",
null or no score, or the first number in the text), and `Judge` is `_parse_judge_response`:
clamped in the JSON branch (where NaN comes out as 1.0 and null raises), divided by 10 or 100
in the fallback.

`ScoringPipeline` is the aggregation: `Aggregates` is the weighted sum of
`ScoringPipeline.run`, over the weight of all scorers, rounded (half a unit goes either
way, as floats fall); `Returns` is what one scorer gives, a composite through a pipeline
of its own; `Results` is a run. One level of nesting is modelled. `FlatNum` and `FlatDen` are
the reference: every leaf with its part of the weight of its composite.

`Scoring` is the API. `CreatePipeline` is the validation and the INSERT with its unique name,
`RefreshPipeline` the re-read and the answer; `LoadPipeline`, `RunPipeline`, `CommitScore` and
`SubmitScore` (one score per step, the aggregate last) are `evaluate`; `CommitFails` and
`SubmitFails` raise with or without the effect, `Fail` is any other exception. A submitted
score is in the `buffer` of the Langfuse client (langfuse_backend.py:94), from where `Deliver`
takes it to Langfuse at any later time; `evaluate` answers without a flush, unlike the scoring
worker. `Crash` is the end of the process with scores of a call in its buffer, which are lost,
before the answer or after it. The client is taken to deliver what it has sooner or later
while its process lives, and no property asks for it. The row
also carries what the leaves did, which the code does not store: the reference needs it.

Run. `scoring` (three calls: a creation and two evaluations, or creations of one name, and
five configurations: flat, nested, weights that cancel, a composite naming an unknown
strategy, which creation does not look into, and an unknown strategy, which it rejects)
checks that a name has one owner (`OwnPipeline`), that what was answered is stored once, and
that its scores are all in Langfuse or in the buffer unless a process ended with some of them
there (`AnswersBacked`; that they are in Langfuse for certain would be false), that what was
submitted is stored (`SubmittedBacked`), that the stored aggregate is the flat weighted mean within one rounding unit, half for the composite
and half for the pipeline (`AggregateIsFlat`), and that scores and aggregate stay between 0
and `One` whatever a judge says (`ScoresInRange`). Negative weights, which the API accepts,
are in the instance but outside the last two, which are about non-negative weights; `AggregateIsFlat`
also needs totals to divide by (`Weighable`). For a total that is zero
or negative there is no mean to compare with, and no property says what comes out.

### Bounds

Calls, requests, jobs and versions are bounded by the sets given for them. `MaxRetries`
and `MaxCheckRetries` are the program's constants, as are `PollInterval`, `Count`, `One`,
`RandomUnit` and `Buckets`, which the runs shrink. `MaxScores`, `MaxKills`, `MaxFaults`,
`MaxStops`, `MaxOpen`, `MaxDelay`, `MaxTime` and `MaxChunks` are bounds of the models, named
in their guards. `CHECK_DEADLOCK FALSE` stands in the configurations in which every call
may have been answered, or the clock has run out; the two workers never come to that.
The type invariants of `TuningWorker`, `ExperimentSetup` and `Scoring` are proved and not in
the configurations; those of the other modules are checked as well.

## 4. What is proved

All theorems hold for arbitrary constants under the named assumptions of their
modules, which TLC evaluates on every run; the bounds above are arbitrary numbers in them.
Besides `ConstantsAssumption` (numbers are numbers of the right sign) these are
`RequestsAssumption` of `ExperimentSetup` and `ConfigsAssumption` of `Scoring`, which say
what the API's parsing leaves of a request (lists are lists, bounds two numbers or none,
weights numbers) and, in the latter, a bound of the model: composites hold no composites,
while the code takes any depth; and `ScoresAssumption` of `Strategies` (a cosine
is between 0 and `One`, an exception is not a number). Every invariant that a run checks is
also proved.

**ScoringWorkerProofs.** `TypeCorrect`, `JobInOnePlace`, `RetriesCounted`,
`LossesBounded`, `DuplicatesBounded`, `ScoresAreBacked`, and `WorkersDeliver`, which
says that every step of the workers is a step of `JobDelivery` or a stutter.
`OnePlace` is not inductive without knowing that only enqueued jobs are anywhere
and that a busy worker holds a message, so it is proved together with the types;
`AttemptsCounted` needs it (another copy of the job would count too), the bounds on
rows and losses need both. Losses are counted by cardinalities of a set that
each kill or failure extends by at most one element, with the finite-set theorems
of the library.

**PromptStoreProofs.** `TypeCorrect`, `VersionsContiguous`,
`CallersOwnTheirVersion`, `StoreIsALedger`. Contiguity needs the fact that a call
that has read a maximum will insert at most one above the current one, which the
uniqueness constraint then makes exactly one above; ownership needs that the row a
committed call will re-read carries its text.

**ExperimentsProofs.** `TypeCorrect`, `OnlyStartedExperiments`, `AllocationIsSticky`,
`NothingIsUndone`, `WinnersAreChosen` (a winner was chosen by an accepted conclude, from
trials on record), `WinnersAreBacked`,
`FreshCallsTakeLifecycleSteps`, for any number of calls in flight, and
`TurnsGiveTheLifecycle`, which assumes `MaxOpen = 1` (callers take turns) and a finite set
of calls and proves the refinement of `ExperimentLifecycle`. The invariant behind it: at most
one call is open, and the row a call has loaded is still the row in the table.
`WinnersAreBacked` needs in addition what a call that has ranked carries to its commit
(`SeenInv`: its winner is the best of the trials it read, which stay on record), that the
trials are finitely many, and that a leader is `Best`: the code compares means rounded to
four decimals, so the one it picks may be behind, but by less than a unit of the last one.

**TuningWorkerProofs.** `TypeCorrect`, `RoundsAreComplete`, `FailuresAreCaused`,
`NothingIsOverlooked`. The invariant splits the selected experiments into those done, the
one at hand and those still to come (`Split`), bounds the attempts of each (`Attempts`), and
counts the faults against the attempts they used up, which is what makes a failure in a
live transaction cost `MaxCheckRetries + 1` faults.

**ExperimentSetupProofs.** `TypeCorrect`; for any granularity and any shares
`TrafficIsNested` (of two thresholds the larger belongs to the larger share, also when one
of the products falls short) and `TrafficIsDivided`; for any spaces `GeneratedVariantsFit`
and `GridsAreComplete`. The invariant is that a stored experiment is what its request
generates (`AllMade`), so that the properties are about the generation itself. Traffic is
divided through bijections between intervals of hashes: a variant's share of the buckets is
an interval of quotients (`BucketCount`), and two variants differ by one bucket because
their remainders differ by less than their number (`Balanced`). Grids are complete
because the product of the first k lists is (`CombosAre`): its members take a value of each
list, every choice of values is among them, and none is there twice if no list has a value
twice. The expansion of a range is the minimum and steps from it, wherever the drift ends it
(`ExpansionComplete`). Both generations put the values of the last parameter of a name
under it (`ValueFrom`), as a Python dict does.

**ScoringProofs.** `TypeCorrect`, `PipelinesAreOwned`, `AnswersAreBacked`,
`SubmissionsAreBacked`. The invariant says of each label which scores the client has had,
unless a process ended with some of them, and whether the row is there (`Recorded`), that a caller past its insertion has its pipeline
(`Registered`), and that names are unique; it does not look into the scores. A second
invariant on top of it does: every stored row is a result of the pipeline it names as that
pipeline is stored now (`ComputedAsStored`), which a pipeline that could change under an
evaluation would break. It reduces `ScoresAreInRange` and `AggregatesAreFlat` to facts
about the computation. Scores are in range because a strategy gives one or raises
(`GivesWithin`), and a rounded quotient of a sum by the total weight does not leave the
range if no weight is negative (`SumWithin`, `RoundedWithin`). Flatness is shown scorer by
scorer: multiplied by the product of the composites' weights, the term of one scorer is
within half a unit of the sum of its leaves (`LeafIsClose`, `CompositeIsClose`), these
errors add up to half a unit of the total (`AllIn`), and the rounding of the
aggregate is the other half.

**RateLimiterProofs.** `TypeCorrect`, `AdmissionIsBounded`, `RefusalIsBacked`. The
invariant `Memory` says that an admitted request is forgotten only when nobody still
to be decided can have it in its window, and that every member of the sorted set
belongs to an answered request; the first gives the bound on admissions, the second,
through a surjection from requests to members, the cause of every refusal. With
`MaxDelay = 0` the first is the sliding minute itself.

**GatewayProofs.** `TypeCorrect`, `AnswersAreRecorded`, `OnlyWorkIsRecorded`, for any
finite set of requests, and for a summary next to them `SummariesAreWithin` and
`SummariesOnlyRead` (so the former hold with a summary as well). The invariant `Progress` says
of each label which of the books may and which must hold the request there, because the
two orders of the steps make that different for `chat` and `chat_stream`, and that a caller of
`chat` has no text before its answer; `Counted` ties
the counters of a service to the set of requests charged to it, so that the statements
about numbers become statements about sets, compared with the finite-set theorems. That
totals only grow carries the summary.

Sums, products and other recursive functions. Induction theorems with a predicate as a
parameter are out of the prover's reach, so the proofs that need induction take a set of
numbers, or of subsets of a finite set, in place of the predicate (`Induction`,
`SetInduction`, from the well-foundedness of the order): a set that contains every number
or subset whose predecessors it contains contains them all. With these a recursive function
exists (`FoldExists`, `TableIs`, `KeptIs`), and a sum is a term and the sum of the others
whichever term it is (`SumOfMore`). The models write recursion as recursive functions for
this reason. Lemmas that several proof modules need are repeated in each.

Only model-checked:

- liveness (`DeliverySpec`'s fairness part, `ShutdownCompletes`, `TracesEnd`, `KeptChecked`,
  `StopsOnRequest`), which is beyond the prover, as is ENABLED.

The runs that expect a violation are counterexamples, with nothing to prove about them.

## 5. What is not modelled, and why

- Vendor SDK formatting (`anthropic.py`, `gemini.py`): one request in, one answer out; which
  content part goes where is a matter for tests. Streams, errors and token counts are
  in `Gateway`.
- Texts: prompt rendering and schemas, the texts in which rules, embeddings and judges find
  what `Strategies` takes as given.
- Authentication, admin keys and readiness: each checks one request against the
  configuration and keeps no state.
- Sessions and pool: a session is held during vendor calls, and the pool is 20+10
  connections; a caller that waits for one longer than its timeout gets an error, which is what
  `Fail` and `Fault` stand for. Waiting itself is not modelled, as no caller holds two
  connections.
- Repositories (`db/repositories`): only the tests use them; the application queries the models
  itself.
- Metrics, logging, configuration, migrations, Terraform, Helm and CI: no behaviour that the
  properties could tell apart.
- The end of an API process in the middle of a completion: its books are then as after a failure
  at the same step, but a trace may stay open. (For scores it is modelled: `Crash`.)
- Resent Redis commands and a summary's dates under Langfuse: taken as the client
  libraries promise.
