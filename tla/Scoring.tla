------------------------------ MODULE Scoring ------------------------------
(* The scoring API (api/v1/scoring.py): pipelines are created by name and kept *)
(* as they are; an evaluation loads one, runs it, commits a row and then hands *)
(* the scores and the aggregate to the Langfuse client, one by one. The client *)
(* buffers them and sends them on its own; evaluate does not flush it. Any     *)
(* await may raise, after its effect or before, and a process may end with     *)
(* what it buffers.                                                            *)
(* An operator named Bad... is a faulty variant of the definition after it,    *)
(* for the mutation runs only.                                                 *)
EXTENDS ScoringPipeline, FiniteSets

CONSTANTS Calls,    \* requests; a created pipeline has the identity of its call
          Names,    \* names for pipelines
          Configs   \* lists of scorers a caller may ask for

\* Scorers as the API parses them: lists, with a number for a weight. A bound of the
\* model: the scorers inside a composite are no composites.
Parsed(s) == s.weight \in Int /\ (s.strategy = "rule_based" => s.rules \in Nat)

ASSUME ConfigsAssumption == \A scorers \in Configs :
    /\ scorers \in Seq(Range(scorers))
    /\ \A i \in DOMAIN scorers :
          /\ Parsed(scorers[i])
          /\ scorers[i].strategy = "composite" =>
                /\ scorers[i].subs \in Seq(Range(scorers[i].subs))
                /\ \A j \in DOMAIN scorers[i].subs :
                      Parsed(scorers[i].subs[j]) /\ scorers[i].subs[j].strategy # "composite"

VARIABLES
    pipelines,  \* table scoring_pipelines
    rows,       \* table score_results
    buffer,     \* scores in the memory of the Langfuse client, each with its
                \* evaluation and its position
    submitted,  \* scores in Langfuse
    crashed,    \* history: calls whose process ended with scores of theirs buffered
    pc,         \* where each call is
    asked,      \* what it asked for
    run,        \* what the leaves did (history) and the result, in its memory
    reply       \* the answer its caller has

scores == <<buffer, submitted, crashed>>
vars == <<pipelines, rows, scores, pc, asked, run, reply>>

NotAsked == [op |-> "none"]
NotRun == [outs |-> <<>>, result |-> [individual |-> <<>>, aggregate |-> 0]]

Init ==
    /\ pipelines = <<>>
    /\ rows = {} /\ buffer = {} /\ submitted = {} /\ crashed = {}
    /\ pc = [c \in Calls |-> "idle"]
    /\ asked = [c \in Calls |-> NotAsked]
    /\ run = [c \in Calls |-> NotRun]
    /\ reply = [c \in Calls |-> "none"]

Goto(c, label) == pc' = [pc EXCEPT ![c] = label] /\ UNCHANGED reply
Answer(c, a) == pc' = [pc EXCEPT ![c] = "over"] /\ reply' = [reply EXCEPT ![c] = a]

Row(c) == [by |-> c, pipeline |-> asked[c].pipeline, outs |-> run[c].outs, result |-> run[c].result]

\* The scores of call c in the order they are submitted, the aggregate last
Scores(c) == Append(run[c].result.individual, run[c].result.aggregate)
Buffered(c) == {s \in buffer : s.by = c}
Handed(c) == {s \in buffer \cup submitted : s.by = c}

-----------------------------------------------------------------------------
(* create_pipeline: the strategies are looked up (not those inside a           *)
(* composite), then the row is inserted; the name is unique.                   *)
BadTaken(name) == FALSE

Taken(name) == \E p \in DOMAIN pipelines : pipelines[p].name = name

CreatePipeline(c, name, scorers) ==
    /\ pc[c] = "idle"
    /\ asked' = [asked EXCEPT ![c] = [op |-> "create", name |-> name, scorers |-> scorers]]
    /\ IF Unknown(scorers) THEN Answer(c, "400") /\ UNCHANGED pipelines
       ELSE IF Taken(name) THEN Answer(c, "error") /\ UNCHANGED pipelines
       ELSE /\ Goto(c, "refresh")
            /\ pipelines' = [p \in DOMAIN pipelines \cup {c} |->
                   IF p = c THEN [name |-> name, scorers |-> scorers] ELSE pipelines[p]]
    /\ UNCHANGED <<rows, scores, run>>

RefreshPipeline(c) ==
    /\ pc[c] = "refresh"
    /\ Answer(c, "created")
    /\ UNCHANGED <<pipelines, rows, scores, asked, run>>

-----------------------------------------------------------------------------
(* evaluate.                                                                 *)
LoadPipeline(c, p) ==
    /\ pc[c] = "idle"
    /\ asked' = [asked EXCEPT ![c] = [op |-> "evaluate", pipeline |-> p]]
    /\ IF p \in DOMAIN pipelines THEN Goto(c, "run") ELSE Answer(c, "404")
    /\ UNCHANGED <<pipelines, rows, scores, run>>

RunPipeline(c) ==
    /\ pc[c] = "run"
    /\ LET scorers == pipelines[asked[c].pipeline].scorers IN
       \E outs \in AllOutcomes(scorers) : \E result \in Results(scorers, outs) :
          run' = [run EXCEPT ![c] = [outs |-> outs, result |-> result]]
    /\ Goto(c, "commit")
    /\ UNCHANGED <<pipelines, rows, scores, asked>>

CommitScore(c) ==
    /\ pc[c] = "commit"
    /\ rows' = rows \cup {Row(c)}
    /\ Goto(c, "submit")
    /\ UNCHANGED <<pipelines, scores, asked, run>>

BadCommitFails(c) ==
    /\ pc[c] = "commit"
    /\ Goto(c, "submit")
    /\ rows' \in {rows, rows \cup {Row(c)}}
    /\ UNCHANGED <<pipelines, scores, asked, run>>

CommitFails(c) ==
    /\ pc[c] = "commit"
    /\ Answer(c, "error")
    /\ rows' \in {rows, rows \cup {Row(c)}}
    /\ UNCHANGED <<pipelines, scores, asked, run>>

\* create_score: the n-th score is in the client's buffer.
Submit(c, n) == buffer' = buffer \cup {[by |-> c, n |-> n, value |-> Scores(c)[n]]}

SubmitScore(c) ==
    /\ pc[c] = "submit"
    /\ LET n == Cardinality(Handed(c)) + 1 IN
       /\ Submit(c, n)
       /\ IF n = Len(Scores(c)) THEN Answer(c, "result") ELSE Goto(c, "submit")
    /\ UNCHANGED <<pipelines, rows, submitted, crashed, asked, run>>

BadSubmitFails(c) ==
    /\ pc[c] = "submit"
    /\ Answer(c, "result")
    /\ Submit(c, Cardinality(Handed(c)) + 1) \/ UNCHANGED buffer
    /\ UNCHANGED <<pipelines, rows, submitted, crashed, asked, run>>

SubmitFails(c) ==
    /\ pc[c] = "submit"
    /\ Answer(c, "error")
    /\ Submit(c, Cardinality(Handed(c)) + 1) \/ UNCHANGED buffer
    /\ UNCHANGED <<pipelines, rows, submitted, crashed, asked, run>>

(* The client sends what it has, at a time of its own: a thread of it does, or *)
(* a flush that another request asks for.                                      *)
Deliver(c) ==
    /\ Buffered(c) # {}
    /\ buffer' = buffer \ Buffered(c)
    /\ submitted' = submitted \cup Buffered(c)
    /\ UNCHANGED <<pipelines, rows, crashed, pc, asked, run, reply>>

(* The process of the call ends: what it buffers is lost, and the call ends    *)
(* with it if it was still under way. (The end of a process that serves several *)
(* calls is one such step for each; an end that loses no score is, to the      *)
(* caller, Fail, CommitFails or SubmitFails.)                                  *)
Crash(c) ==
    /\ Buffered(c) # {}
    /\ buffer' = buffer \ Buffered(c)
    /\ crashed' = crashed \cup {c}
    /\ IF pc[c] = "over" THEN UNCHANGED <<pc, reply>> ELSE Answer(c, "error")
    /\ UNCHANGED <<pipelines, rows, submitted, asked, run>>

(* Any other exception: of a statement that reads, or of the pipeline.         *)
Fail(c) ==
    /\ pc[c] \in {"refresh", "run"}
    /\ Answer(c, "error")
    /\ UNCHANGED <<pipelines, rows, scores, asked, run>>

-----------------------------------------------------------------------------
Next == \E c \in Calls :
    \/ \E name \in Names, scorers \in Configs : CreatePipeline(c, name, scorers)
    \/ \E p \in Calls : LoadPipeline(c, p)
    \/ RefreshPipeline(c) \/ RunPipeline(c) \/ Fail(c)
    \/ CommitScore(c) \/ CommitFails(c) \/ SubmitScore(c) \/ SubmitFails(c)
    \/ Deliver(c) \/ Crash(c)

Spec == Init /\ [][Next]_vars

-----------------------------------------------------------------------------
(* Properties.                                                               *)
Pipeline == [name : Names, scorers : Configs]

\* Types, and what each label says about the call.
TypeOK ==
    /\ DOMAIN pipelines \subseteq Calls
    /\ \A p \in DOMAIN pipelines : pipelines[p] \in Pipeline /\ asked[p].op = "create"
    /\ \A r \in rows : r.by \in Calls /\ r.pipeline \in DOMAIN pipelines
    /\ \A s \in buffer \cup submitted : s.by \in Calls /\ s.n \in Nat \ {0}
    /\ crashed \subseteq Calls
    /\ pc \in [Calls -> {"idle", "refresh", "run", "commit", "submit", "over"}]
    /\ reply \in [Calls -> {"none", "created", "result", "400", "404", "error"}]
    /\ \A c \in Calls :
          /\ reply[c] = "none" <=> pc[c] # "over"
          /\ pc[c] \in {"run", "commit", "submit"} => asked[c].pipeline \in DOMAIN pipelines

\* A caller that was told its pipeline was created has it under its name for ever,
\* as asked for, and no other pipeline has the name.
OwnPipeline == \A c \in Calls : reply[c] = "created" =>
    /\ c \in DOMAIN pipelines
    /\ pipelines[c] = [name |-> asked[c].name, scorers |-> asked[c].scorers]
    /\ \A p \in DOMAIN pipelines : pipelines[p].name = asked[c].name => p = c

\* An evaluation that was answered is stored, once, as it was answered. That its scores
\* and its aggregate are in Langfuse the answer does not say: each of them is there or
\* in the client's buffer, as long as the process has not ended with some of them
\* buffered; then the rest is lost, and nobody is told.
AnswersBacked == \A c \in Calls : reply[c] = "result" =>
    LET all == {[by |-> c, n |-> n, value |-> Scores(c)[n]] : n \in 1..Len(Scores(c))} IN
    /\ {r \in rows : r.by = c} = {Row(c)}
    /\ Handed(c) \subseteq all
    /\ c \notin crashed => Handed(c) = all

\* Whatever fails: a score in Langfuse is one of a stored evaluation, of which there is
\* one; a failure between the two stores leaves the row, never the scores alone.
SubmittedBacked ==
    /\ \A s \in submitted : \E r \in rows :
          r.by = s.by /\ s.value = Append(r.result.individual, r.result.aggregate)[s.n]
    /\ \A q, r \in rows : q.by = r.by => q = r

\* The stored aggregate is, within one unit of rounding, the weighted mean over all the
\* leaves of the pipeline as stored, whatever its nesting; leaves that raised count 0.
AggregateIsFlat == \A r \in rows :
    LET scorers == pipelines[r.pipeline].scorers
        den == FlatDen(scorers)
    IN  Weighable(scorers) => r.result.aggregate * den - FlatNum(scorers, r.outs) \in (-den)..den

\* Whatever a judge says, and whichever scorers raise, the stored scores and the
\* aggregate are between 0.0 and 1.0, unless a weight is negative: they are compared and
\* averaged across pipelines (experiments, Langfuse) on that scale.
ScoresInRange == \A r \in rows : NonNegative(pipelines[r.pipeline].scorers) =>
    Range(Append(r.result.individual, r.result.aggregate)) \subseteq 0..One
=============================================================================
