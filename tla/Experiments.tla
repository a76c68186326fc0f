---------------------------- MODULE Experiments ----------------------------
(* Experiments (core/tuning/experiment.py behind api/v1/tuning.py). API calls, *)
(* each with a database session of its own, check the status of an experiment  *)
(* in one statement and commit their change in a later one, with no lock in    *)
(* between; the ORM writes the columns that differ from what it loaded.        *)
EXTENDS Integers, FiniteSets, Functions, ExperimentStatus

CONSTANTS
    Names,      \* experiment names, unique in table experiments
    Variants,   \* variant ids callers use
    Scores,     \* scores of trials; whole numbers
    Calls,      \* API calls, one per session
    MaxOpen,    \* bound: calls in flight at a time (1: callers take turns)
    None        \* no variant, no winner, no score

ASSUME ConstantsAssumption ==
    /\ Scores \subseteq Nat /\ IsFiniteSet(Scores)
    /\ None \notin Variants \cup Scores
    /\ MaxOpen \in Nat \ {0}

VARIABLES
    exps,    \* [Names -> the row of table experiments]; status "absent": no row
    trials,  \* committed rows of table experiment_trials
    pc,      \* where each call is
    call,    \* what it does, and what it has read so far
    reply    \* its answer

vars == <<exps, trials, pc, call, reply>>

Row == [status : Statuses, winner : Variants \cup {None}, concluded_at : {"null", "set"},
        slot : Variants \cup {None}]
Trial == [by : Calls, exp : Names, variant : Variants, score : Scores \cup {None}]
LoadedCall == [op : {"start", "conclude", "cancel"}, exp : Names, loaded : Row,
               winner : Variants \cup {None}, seen : SUBSET Trial]
Absent == [status |-> "absent", winner |-> None, concluded_at |-> "null", slot |-> None]
NoCall == [op |-> "none"]

Init ==
    /\ exps = [e \in Names |-> Absent]
    /\ trials = {}
    /\ pc = [r \in Calls |-> "idle"]
    /\ call = [r \in Calls |-> NoCall]
    /\ reply = [r \in Calls |-> [status |-> "none"]]

Open == {r \in Calls : pc[r] \notin {"idle", "answered"}}

-----------------------------------------------------------------------------
(* get_results: the mean score of each variant with scored trials, rounded to  *)
(* four decimals, best first. Rows come in no particular order, so ties are    *)
(* broken either way.                                                          *)
ScoresOf(ts, v) == {t \in ts : t.score # None /\ t.variant = v}
Ranked(ts) == {t.variant : t \in {x \in ts : x.score # None}}
Total(ts, v) == SumFunction([t \in ScoresOf(ts, v) |-> t.score])

\* in units of 1/10000, rounded to nearest
AvgScore(ts, v) ==
    LET n == Cardinality(ScoresOf(ts, v)) IN (2 * 10000 * Total(ts, v) + n) \div (2 * n)
Leaders(ts) == {v \in Ranked(ts) : \A w \in Ranked(ts) : AvgScore(ts, v) >= AvgScore(ts, w)}

-----------------------------------------------------------------------------
Begin(r, label, c) ==
    /\ pc[r] = "idle"
    /\ Cardinality(Open) < MaxOpen
    /\ pc' = [pc EXCEPT ![r] = label]
    /\ call' = [call EXCEPT ![r] = c]

\* A call that reads once and answers.
Answer(r, c, a) ==
    /\ Begin(r, "answered", c)
    /\ reply' = [reply EXCEPT ![r] = a]

Goto(r, from, label) ==
    /\ pc[r] = from
    /\ pc' = [pc EXCEPT ![r] = label]

(* create: the variants are given or generated once and stored. "slot" is what *)
(* the stored list and traffic percentage give the key callers allocate with;  *)
(* None when its bucket is outside the traffic. A taken name is refused.       *)
Create(r, e, slot) ==
    LET c == [op |-> "create", exp |-> e] IN
    /\ \/ /\ exps[e] = Absent
          /\ Begin(r, "refresh", c)
          /\ exps' = [exps EXCEPT ![e] =
                 [status |-> "draft", winner |-> None, concluded_at |-> "null", slot |-> slot]]
          /\ UNCHANGED reply
       \/ /\ exps[e] # Absent
          /\ Answer(r, c, [status |-> "400"])
          /\ UNCHANGED exps
    /\ UNCHANGED trials

(* start, conclude and cancel load the row; start and conclude check it. A     *)
(* conclude that names no winner goes on to rank the trials.                   *)
Admits(op) == CASE op = "start" -> {"draft"}
                [] op = "conclude" -> {"running"}
                [] op = "cancel" -> Statuses

BadLoad(r, e, op, w) ==
    LET c == [op |-> op, exp |-> e, loaded |-> exps[e], winner |-> w, seen |-> {}] IN
    /\ exps[e] # Absent
    /\ Begin(r, IF op = "conclude" /\ w = None THEN "rank" ELSE "loaded", c)
    /\ UNCHANGED <<exps, trials, reply>>

Load(r, e, op, w) ==
    LET c == [op |-> op, exp |-> e, loaded |-> exps[e], winner |-> w, seen |-> {}] IN
    /\ \/ /\ exps[e].status \in Admits(op)
          /\ Begin(r, IF op = "conclude" /\ w = None THEN "rank" ELSE "loaded", c)
          /\ UNCHANGED reply
       \/ /\ exps[e].status \notin Admits(op)
          /\ Answer(r, [op |-> op, exp |-> e], [status |-> "400"])
    /\ UNCHANGED <<exps, trials>>

BadRank(r) ==
    LET seen == {t \in trials : t.exp = call[r].exp} IN
    /\ Goto(r, "rank", "loaded")
    /\ \E w \in IF seen = {} THEN {None} ELSE {t.variant : t \in seen} :
           call' = [call EXCEPT ![r].winner = w, ![r].seen = seen]
    /\ UNCHANGED <<exps, trials, reply>>

Rank(r) ==
    LET seen == {t \in trials : t.exp = call[r].exp} IN
    /\ Goto(r, "rank", "loaded")
    /\ \E w \in IF Ranked(seen) = {} THEN {None} ELSE Leaders(seen) :
           call' = [call EXCEPT ![r].winner = w, ![r].seen = seen]
    /\ UNCHANGED <<exps, trials, reply>>

\* UPDATE of the columns whose value differs from the loaded one
BadWritten(row, c) ==
    LET old == c.loaded IN
    CASE c.op = "start" -> [old EXCEPT !.status = "running"]
      [] c.op = "conclude" ->
            [old EXCEPT !.status = "completed", !.concluded_at = "set", !.winner = c.winner]
      [] c.op = "cancel" -> [old EXCEPT !.status = "cancelled"]

Written(row, c) ==
    CASE c.op = "start" -> [row EXCEPT !.status = "running"]
      [] c.op = "conclude" ->
            [row EXCEPT !.status = "completed", !.concluded_at = "set",
                        !.winner = IF c.winner = c.loaded.winner THEN @ ELSE c.winner]
      [] c.op = "cancel" ->
            [row EXCEPT !.status = IF c.loaded.status = "cancelled" THEN @ ELSE "cancelled"]

Commit(r) ==
    /\ Goto(r, "loaded", "refresh")
    /\ exps' = [exps EXCEPT ![call[r].exp] = Written(@, call[r])]
    /\ UNCHANGED <<trials, call, reply>>

(* record_trial inserts a trial; it reads neither the experiment nor its       *)
(* variants, and the table has no foreign key.                                 *)
RecordTrial(r, e, v, s) ==
    /\ Begin(r, "refresh", [op |-> "trial", exp |-> e])
    /\ trials' = trials \cup {[by |-> r, exp |-> e, variant |-> v, score |-> s]}
    /\ UNCHANGED <<exps, reply>>

\* session.refresh after the commit: the answer is the row as it is by then, which
\* the caller need not find as it left it.
Refresh(r) ==
    /\ Goto(r, "refresh", "answered")
    /\ reply' = [reply EXCEPT ![r] = [status |-> "ok"]]
    /\ UNCHANGED <<exps, trials, call>>

(* allocate_variant: None unless the experiment is running when it is read.    *)
BadAllocate(r, e) ==
    LET row == exps[e] IN
    /\ \E v \in Variants :
          Answer(r, [op |-> "allocate", exp |-> e],
              IF row = Absent THEN [status |-> "404"]
              ELSE [status |-> "ok", variant |-> IF row.status = "running" THEN v ELSE None])
    /\ UNCHANGED <<exps, trials>>

Allocate(r, e) ==
    LET row == exps[e] IN
    /\ Answer(r, [op |-> "allocate", exp |-> e],
              IF row = Absent THEN [status |-> "404"]
              ELSE [status |-> "ok", variant |-> IF row.status = "running" THEN row.slot ELSE None])
    /\ UNCHANGED <<exps, trials>>

(* A call that fails or is cut off: rolled back before its commit, unanswered  *)
(* after it. The create endpoint turns any exception into a 400.               *)
Fail(r) ==
    /\ r \in Open
    /\ Goto(r, pc[r], "answered")
    /\ reply' = [reply EXCEPT ![r] = [status |-> IF call[r].op = "create" THEN "400" ELSE "500"]]
    /\ UNCHANGED <<exps, trials, call>>

-----------------------------------------------------------------------------
Next == \E r \in Calls :
    \/ Rank(r) \/ Commit(r) \/ Refresh(r) \/ Fail(r)
    \/ \E e \in Names :
          \/ \E v \in Variants \cup {None} : Create(r, e, v)
          \/ \E op \in {"start", "cancel"} : Load(r, e, op, None)
          \/ \E w \in Variants \cup {None} : Load(r, e, "conclude", w)
          \/ \E v \in Variants, s \in Scores \cup {None} : RecordTrial(r, e, v, s)
          \/ Allocate(r, e)

Spec == Init /\ [][Next]_vars

-----------------------------------------------------------------------------
(* Properties.                                                               *)

\* Types, and what each label says about the call.
TypeOK ==
    /\ exps \in [Names -> {Absent} \cup Row]
    /\ trials \subseteq Trial
    /\ pc \in [Calls -> {"idle", "rank", "loaded", "refresh", "answered"}]
    /\ DOMAIN call = Calls /\ DOMAIN reply = Calls
    /\ \A r \in Calls :
          /\ pc[r] = "idle" => call[r] = NoCall
          /\ pc[r] = "rank" => call[r].op = "conclude"
          /\ pc[r] \in {"rank", "loaded"} =>
                call[r] \in LoadedCall /\ call[r].loaded.status \in Admits(call[r].op)

\* A call of r has committed, as far as anyone can tell: it has come that far, and
\* was not refused.
MayHaveCommitted(r, op, e) ==
    /\ pc[r] \in {"refresh", "answered"} /\ reply[r].status # "400"
    /\ call[r].op = op /\ call[r].exp = e

\* However calls race, nothing comes out of an experiment that was never started:
\* no conclusion, no winner, no allocation. (start and conclude check the status
\* they loaded, which may be out of date when they commit.)
StartedFirst == \A e \in Names :
    \/ /\ exps[e].status # "completed" /\ exps[e].concluded_at = "null" /\ exps[e].winner = None
       /\ \A r \in Calls : call[r].op = "allocate" /\ call[r].exp = e /\ reply[r].status = "ok" =>
             reply[r].variant = None
    \/ \E r \in Calls : MayHaveCommitted(r, "start", e)

\* No variant has a mean that is higher by a unit of the last decimal, to which the
\* means are rounded before they are compared: totals and counts, multiplied out.
Best(ts, v) ==
    LET n(w) == Cardinality(ScoresOf(ts, w)) IN
    /\ ScoresOf(ts, v) # {}
    /\ \A w \in Variants : ScoresOf(ts, w) # {} =>
          10000 * (Total(ts, w) * n(v) - Total(ts, v) * n(w)) < n(w) * n(v)

\* Call r concluded e with the winner that is recorded, having read trials that are
\* on record.
Chose(r, e) ==
    /\ MayHaveCommitted(r, "conclude", e)
    /\ call[r].winner = exps[e].winner
    /\ call[r].seen \subseteq trials

\* A completed experiment is marked concluded, and so is one with a winner, which
\* some conclude chose.
WinnerChosen == \A e \in Names :
    /\ exps[e].status = "completed" => exps[e].concluded_at = "set"
    /\ exps[e].winner # None => exps[e].concluded_at = "set" /\ \E r \in Calls : Chose(r, e)

\* ... and the one that chose was told the winner by its caller, or found that it
\* had the best mean of the trials it read ("auto-picks winner", README.md:251).
Backs(r, e) == Chose(r, e) /\ (call[r].seen # {} => Best(call[r].seen, call[r].winner))

WinnerBacked ==
    WinnerChosen /\ \A e \in Names : exps[e].winner # None => \E r \in Calls : Backs(r, e)

\* Whatever a stale commit writes, it does not undo these: an experiment does not
\* become a draft again or vanish (which is what the tuning worker relies on), keeps
\* its variants, and once concluded stays marked so.
NothingUndone == [][\A e \in Names : exps[e] # exps'[e] =>
    /\ exps'[e].status \in {exps[e].status} \cup MayBecome(exps[e].status)
    /\ exps[e] # Absent => exps'[e].slot = exps[e].slot
    /\ exps[e].concluded_at = "set" => exps'[e].concluded_at = "set"]_vars

\* "the same key always gets the same variant" (core/tuning/ab_test.py:11): two
\* callers that are given a variant of an experiment are given the same one.
StickyAllocation == \A q, r \in Calls :
    /\ call[q].op = "allocate" /\ call[r].op = "allocate" /\ call[q].exp = call[r].exp
    /\ reply[q].status = "ok" /\ reply[r].status = "ok"
    /\ reply[q].variant # None /\ reply[r].variant # None
    => reply[q].variant = reply[r].variant

\* The documented lifecycle, with sessions and calls hidden.
StatusView == [e \in Names |-> exps[e].status]
WinnerView == [e \in Names |-> exps[e].winner]
Lifecycle == INSTANCE ExperimentLifecycle WITH
    Experiments <- Names, Winners <- Variants, status <- StatusView, winner <- WinnerView
LifecycleSpec == Lifecycle!Spec

\* Nobody committed to the experiment since call r loaded it.
Fresh(r) == pc[r] \in {"rank", "loaded"} => call[r].loaded = exps[call[r].exp]

\* Staleness is all that is wrong with the status checks: a call that commits on the
\* row it loaded takes a step of the lifecycle, whatever the others are about to do.
FreshCallsFollow ==
    [][(\A r \in Calls : pc'[r] # pc[r] => Fresh(r)) => [Lifecycle!Next]_(Lifecycle!vars)]_vars

\* core/tuning/experiment.py:71, "Move experiment from DRAFT to RUNNING.": only a
\* draft starts running.
StartsFromDraft == [][\A e \in Names :
    exps'[e].status = "running" => exps[e].status \in {"draft", "running"}]_vars
=============================================================================
