--------------------------- MODULE ScoringProofs ---------------------------
(* Proofs about the scoring API, for any set of calls, names and pipelines,    *)
(* whatever the scorers return and wherever a call fails: first what is stored *)
(* and where, then what the stored numbers are.                                *)
EXTENDS Scoring, FiniteSetTheorems, SequenceTheorems, TLAPS

-----------------------------------------------------------------------------
(* The inductive invariant. A pipeline is what its creator asked for; what an  *)
(* evaluation has stored and handed to the client is what it has in memory;    *)
(* while its process lives, the client has or has sent the first of its scores. *)
Own(c) == {r \in rows : r.by = c}
First(c, k) == {[by |-> c, n |-> n, value |-> Scores(c)[n]] : n \in 1..k}

Functional ==
    /\ asked = [c \in Calls |-> asked[c]]
    /\ run = [c \in Calls |-> run[c]]

Registered(c) ==
    /\ pc[c] = "refresh" \/ reply[c] = "created" => c \in DOMAIN pipelines
    /\ c \in DOMAIN pipelines =>
          /\ pc[c] \in {"refresh", "over"}
          /\ pipelines[c] = [name |-> asked[c].name, scorers |-> asked[c].scorers]

NamesUnique == \A p, q \in DOMAIN pipelines : pipelines[p].name = pipelines[q].name => p = q

Recorded(c) ==
    /\ Own(c) \subseteq {Row(c)}
    /\ pc[c] \in {"idle", "refresh", "run", "commit"} => Own(c) = {} /\ Handed(c) = {}
    /\ pc[c] = "submit" \/ reply[c] = "result" \/ Handed(c) # {} => Own(c) = {Row(c)}
    /\ pc[c] = "submit" => \E k \in Nat : Handed(c) = First(c, k)
    /\ reply[c] = "result" => Handed(c) \subseteq First(c, Len(Scores(c)))
    /\ reply[c] = "result" /\ c \notin crashed => Handed(c) = First(c, Len(Scores(c)))
    /\ \A s \in Handed(c) : s.value = Scores(c)[s.n]
    /\ c \in crashed => pc[c] = "over"

IInv ==
    /\ TypeOK /\ Functional /\ NamesUnique
    /\ \A c \in Calls : Registered(c) /\ Recorded(c)

-----------------------------------------------------------------------------
(* Frames.                                                                   *)

\* A step on the scores of call c leaves those of the others where they were handed.
ScoresStep(c) ==
    /\ \A d \in Calls : d # c => Handed(d)' = Handed(d) /\ (d \in crashed' <=> d \in crashed)
    /\ \A s \in buffer' \cup submitted' : s.by \in Calls /\ s.n \in Nat \ {0}
    /\ crashed' \subseteq Calls

LEMMA ScoresStay ==
    ASSUME TypeOK, UNCHANGED scores
    PROVE  \A c \in Calls : ScoresStep(c) /\ Handed(c)' = Handed(c) /\ (c \in crashed' <=> c \in crashed)
BY DEF TypeOK, scores, ScoresStep, Handed

LEMMA SubmitStep ==
    ASSUME TypeOK, NEW c \in Calls, NEW n \in Nat \ {0}, UNCHANGED <<submitted, crashed>>,
           Submit(c, n) \/ UNCHANGED buffer
    PROVE  ScoresStep(c) /\ (c \in crashed' <=> c \in crashed)
<1>1. \A d \in Calls : d # c => Handed(d)' = Handed(d)
      BY DEF Submit, Handed
<1>2. \A s \in buffer' \cup submitted' : s.by \in Calls /\ s.n \in Nat \ {0}
      BY DEF Submit, TypeOK
<1>3. QED BY <1>1, <1>2 DEF ScoresStep, TypeOK

\* A call whose own state, rows and scores stay as they are stays recorded.
LEMMA RecordedStays ==
    ASSUME NEW c \in Calls, Recorded(c),
           pc'[c] = pc[c], reply'[c] = reply[c], asked'[c] = asked[c], run'[c] = run[c],
           Own(c)' = Own(c), Handed(c)' = Handed(c), c \in crashed' <=> c \in crashed
    PROVE  Recorded(c)'
<1>1. Row(c)' = Row(c) /\ Scores(c)' = Scores(c)
      BY DEF Row, Scores
<1>2. \A k : First(c, k)' = First(c, k)
      BY <1>1 DEF First
<1>3. QED BY <1>1, <1>2 DEF Recorded

\* A call that goes on, or ends without a result, without touching what it has stored.
LEMMA RecordedMoves ==
    ASSUME NEW c \in Calls, Recorded(c), pc[c] \in {"idle", "refresh", "run", "commit"},
           pc'[c] \in {"refresh", "run", "commit", "over"}, reply'[c] # "result",
           Own(c)' = Own(c), Handed(c)' = Handed(c), c \in crashed' <=> c \in crashed
    PROVE  Recorded(c)'
<1>1. Own(c)' = {} /\ Handed(c)' = {}
      BY DEF Recorded
<1>2. QED BY <1>1 DEF Recorded

\* A call other than the one that creates a pipeline keeps its own.
LEMMA RegisteredStays ==
    ASSUME NEW c \in Calls, Registered(c), pipelines' = pipelines,
           pc'[c] = pc[c], reply'[c] = reply[c], asked'[c] = asked[c]
    PROVE  Registered(c)'
BY DEF Registered

\* What is appended to one call's rows or scores is not another's.
LEMMA OthersRows ==
    ASSUME NEW c \in Calls, NEW d \in Calls, d # c, rows' \in {rows, rows \cup {Row(c)}}
    PROVE  Own(d)' = Own(d)
BY DEF Own, Row

\* The scores submitted are numbered: their number is that of the last.
LEMMA FirstCounted ==
    ASSUME NEW c \in Calls, NEW k \in Nat
    PROVE  IsFiniteSet(First(c, k)) /\ Cardinality(First(c, k)) = k
<1> DEFINE entry(n) == [by |-> c, n |-> n, value |-> Scores(c)[n]]
<1>1. IsFiniteSet(1..k) /\ Cardinality(1..k) = k
      BY FS_Interval
<1>2. \A m, n \in 1..k : entry(m) = entry(n) => m = n
  <2> SUFFICES ASSUME NEW m \in 1..k, NEW n \in 1..k, entry(m) = entry(n) PROVE m = n
      OBVIOUS
  <2>1. entry(m).n = m /\ entry(n).n = n
        OBVIOUS
  <2>2. QED BY <2>1
<1>3. [n \in 1..k |-> entry(n)] \in Bijection(1..k, First(c, k))
  <2> DEFINE f == [n \in 1..k |-> entry(n)]
  <2>1. f \in [1..k -> First(c, k)]
        BY DEF First
  <2>2. \A m, n \in 1..k : f[m] = f[n] => m = n
    <3> SUFFICES ASSUME NEW m \in 1..k, NEW n \in 1..k, f[m] = f[n] PROVE m = n
        OBVIOUS
    <3>1. f[m] = entry(m) /\ f[n] = entry(n)
          OBVIOUS
    <3> HIDE DEF entry, f
    <3>2. QED BY <3>1, <1>2
  <2>3. \A e \in First(c, k) : \E n \in 1..k : f[n] = e
        BY DEF First
  <2> HIDE DEF f
  <2>4. f \in Injection(1..k, First(c, k))
        BY <2>1, <2>2 DEF Injection, IsInjective
  <2>5. f \in Surjection(1..k, First(c, k))
        BY <2>1, <2>3 DEF Surjection
  <2>6. QED BY <2>4, <2>5 DEF Bijection, f
<1> HIDE DEF entry
<1>4. ExistsBijection(1..k, First(c, k))
      BY <1>3 DEF ExistsBijection
<1>5. IsFiniteSet(First(c, k)) /\ Cardinality(First(c, k)) = Cardinality(1..k)
      BY <1>1, <1>4, FS_Bijection
<1>6. QED BY <1>1, <1>5

-----------------------------------------------------------------------------
(* Steps.                                                                    *)

LEMMA Start == Init => IInv
<1> SUFFICES ASSUME Init PROVE IInv
    OBVIOUS
<1>1. TypeOK
      BY DEF Init, TypeOK
<1>2. Functional /\ NamesUnique
      BY DEF Init, Functional, NamesUnique
<1>3. ASSUME NEW c \in Calls PROVE Registered(c) /\ Recorded(c)
      BY DEF Init, Registered, Recorded, Own, Handed
<1>4. QED BY <1>1, <1>2, <1>3 DEF IInv

\* create_pipeline: the name is taken by nobody, so the names stay unique.
LEMMA CreateKeeps ==
    ASSUME IInv, NEW c \in Calls, NEW name \in Names, NEW scorers \in Configs,
           CreatePipeline(c, name, scorers)
    PROVE  IInv'
<1> USE DEF IInv
<1>1. c \notin DOMAIN pipelines
      BY DEF CreatePipeline, Registered
<1>2. /\ asked' = [asked EXCEPT ![c] = [op |-> "create", name |-> name, scorers |-> scorers]]
      /\ pc[c] = "idle" /\ rows' = rows /\ UNCHANGED scores /\ run' = run
      BY DEF CreatePipeline
<1>3. /\ asked'[c].op = "create" /\ asked'[c].name = name /\ asked'[c].scorers = scorers
      /\ \A d \in Calls : d # c => asked'[d] = asked[d]
      /\ Functional'
      BY <1>2 DEF Functional
<1>4. \A d \in Calls : Own(d)' = Own(d) /\ Handed(d)' = Handed(d) /\ (d \in crashed' <=> d \in crashed)
      BY <1>2, ScoresStay DEF Own
<1>5. \/ pipelines' = pipelines /\ Answer(c, "400")
      \/ pipelines' = pipelines /\ Answer(c, "error")
      \/ /\ ~Taken(name) /\ Goto(c, "refresh")
         /\ pipelines' = [p \in DOMAIN pipelines \cup {c} |->
                IF p = c THEN [name |-> name, scorers |-> scorers] ELSE pipelines[p]]
      BY DEF CreatePipeline
<1>6. /\ \A d \in Calls : d # c => pc'[d] = pc[d] /\ reply'[d] = reply[d]
      /\ pc'[c] \in {"refresh", "over"} /\ reply'[c] \notin {"result", "created"}
      /\ pc'[c] = "refresh" => c \in DOMAIN pipelines'
      BY <1>2, <1>5 DEF Answer, Goto, TypeOK
<1>7. /\ DOMAIN pipelines \subseteq DOMAIN pipelines'
      /\ DOMAIN pipelines' \subseteq DOMAIN pipelines \cup {c}
      /\ \A p \in DOMAIN pipelines : pipelines'[p] = pipelines[p]
      /\ c \in DOMAIN pipelines' => pipelines'[c] = [name |-> name, scorers |-> scorers] /\ ~Taken(name)
      BY <1>1, <1>5
<1>8. TypeOK'
  <2>1. DOMAIN pipelines' \subseteq Calls
        BY <1>7 DEF TypeOK
  <2>2. \A p \in DOMAIN pipelines' : pipelines'[p] \in Pipeline /\ asked'[p].op = "create"
        BY <1>1, <1>3, <1>7 DEF TypeOK, Pipeline
  <2>3. \A r \in rows' : r.by \in Calls /\ r.pipeline \in DOMAIN pipelines'
        BY <1>2, <1>7 DEF TypeOK
  <2>4. crashed' \subseteq Calls /\ \A s \in buffer' \cup submitted' : s.by \in Calls /\ s.n \in Nat \ {0}
        BY <1>2 DEF TypeOK, scores
  <2>5. /\ pc' \in [Calls -> {"idle", "refresh", "run", "commit", "submit", "over"}]
        /\ reply' \in [Calls -> {"none", "created", "result", "400", "404", "error"}]
        /\ \A d \in Calls : reply'[d] = "none" <=> pc'[d] # "over"
        BY <1>2, <1>5 DEF Answer, Goto, TypeOK
  <2>6. \A d \in Calls : pc'[d] \in {"run", "commit", "submit"} => asked'[d].pipeline \in DOMAIN pipelines'
        BY <1>3, <1>6, <1>7 DEF TypeOK
  <2>7. QED BY <2>1, <2>2, <2>3, <2>4, <2>5, <2>6 DEF TypeOK, Pipeline
<1>9. NamesUnique'
      BY <1>1, <1>7 DEF NamesUnique, Taken
<1>10. ASSUME NEW d \in Calls PROVE Registered(d)'
  <2>1. CASE d = c
        BY <1>3, <1>6, <1>7, <2>1 DEF Registered
  <2>2. CASE d # c
        BY <1>3, <1>6, <1>7, <2>2 DEF Registered
  <2>3. QED BY <2>1, <2>2
<1>11. ASSUME NEW d \in Calls PROVE Recorded(d)'
  <2>1. CASE d = c
        BY <1>2, <1>4, <1>6, <2>1, RecordedMoves
  <2>2. CASE d # c
        BY <1>2, <1>3, <1>4, <1>6, <2>2, RecordedStays
  <2>3. QED BY <2>1, <2>2
<1>12. QED BY <1>3, <1>8, <1>9, <1>10, <1>11

\* Any other step of call c: it keeps the pipelines, and of the rest what is not its own.
LEMMA StepKeeps ==
    ASSUME IInv, NEW c \in Calls, pipelines' = pipelines,
           \A d \in Calls : d # c => /\ pc'[d] = pc[d] /\ reply'[d] = reply[d]
                                     /\ asked'[d] = asked[d] /\ run'[d] = run[d],
           pc' \in [Calls -> {"idle", "refresh", "run", "commit", "submit", "over"}],
           reply' \in [Calls -> {"none", "created", "result", "400", "404", "error"}],
           reply'[c] = "none" <=> pc'[c] # "over",
           Functional',
           c \in DOMAIN pipelines => asked'[c] = asked[c],
           pc'[c] \in {"run", "commit", "submit"} => asked'[c].pipeline \in DOMAIN pipelines,
           \/ rows' = rows
           \/ rows' = rows \cup {Row(c)} /\ asked[c].pipeline \in DOMAIN pipelines,
           ScoresStep(c), Registered(c)', Recorded(c)'
    PROVE  IInv'
<1> USE DEF IInv
<1>1. TypeOK'
  <2>1. \A p \in DOMAIN pipelines' : pipelines'[p] \in Pipeline /\ asked'[p].op = "create"
        BY DEF TypeOK
  <2>2. \A r \in rows' : r.by \in Calls /\ r.pipeline \in DOMAIN pipelines'
        BY DEF TypeOK, Row
  <2>3. crashed' \subseteq Calls /\ \A s \in buffer' \cup submitted' : s.by \in Calls /\ s.n \in Nat \ {0}
        BY DEF ScoresStep
  <2>4. \A d \in Calls :
           /\ reply'[d] = "none" <=> pc'[d] # "over"
           /\ pc'[d] \in {"run", "commit", "submit"} => asked'[d].pipeline \in DOMAIN pipelines'
        BY DEF TypeOK
  <2>5. DOMAIN pipelines' \subseteq Calls
        BY DEF TypeOK
  <2>6. QED BY <2>1, <2>2, <2>3, <2>4, <2>5 DEF TypeOK, Pipeline
<1>2. NamesUnique'
      BY DEF NamesUnique
<1>3. ASSUME NEW d \in Calls, d # c PROVE Registered(d)' /\ Recorded(d)'
  <2>1. Own(d)' = Own(d)
        BY <1>3, OthersRows
  <2>2. Handed(d)' = Handed(d) /\ (d \in crashed' <=> d \in crashed)
        BY <1>3 DEF ScoresStep
  <2>3. QED BY <1>3, <2>1, <2>2, RegisteredStays, RecordedStays
<1>4. QED BY <1>1, <1>2, <1>3

LEMMA RefreshKeeps ==
    ASSUME IInv, NEW c \in Calls, RefreshPipeline(c)
    PROVE  IInv'
<1>1. /\ pc[c] = "refresh" /\ pipelines' = pipelines /\ rows' = rows /\ UNCHANGED scores
      /\ asked' = asked /\ run' = run
      /\ pc' = [pc EXCEPT ![c] = "over"] /\ reply' = [reply EXCEPT ![c] = "created"]
      BY DEF RefreshPipeline, Answer
<1>2. pc'[c] = "over" /\ reply'[c] = "created"
      BY <1>1 DEF IInv, TypeOK
<1>3. Registered(c)'
      BY <1>1, <1>2 DEF IInv, Registered
<1>4. Recorded(c)'
      BY <1>1, <1>2, RecordedMoves, ScoresStay DEF IInv, Own
<1>5. Functional'
      BY <1>1 DEF IInv, Functional
<1>6. /\ pc' \in [Calls -> {"idle", "refresh", "run", "commit", "submit", "over"}]
      /\ reply' \in [Calls -> {"none", "created", "result", "400", "404", "error"}]
      /\ \A d \in Calls : d # c => pc'[d] = pc[d] /\ reply'[d] = reply[d]
      BY <1>1 DEF IInv, TypeOK
<1>7. ScoresStep(c)
      BY <1>1, ScoresStay DEF IInv
<1>8. QED BY <1>1, <1>2, <1>3, <1>4, <1>5, <1>6, <1>7, StepKeeps

LEMMA LoadKeeps ==
    ASSUME IInv, NEW c \in Calls, NEW p \in Calls, LoadPipeline(c, p)
    PROVE  IInv'
<1>1. /\ pc[c] = "idle" /\ pipelines' = pipelines /\ rows' = rows /\ UNCHANGED scores
      /\ run' = run
      /\ asked' = [asked EXCEPT ![c] = [op |-> "evaluate", pipeline |-> p]]
      /\ \/ p \in DOMAIN pipelines /\ pc' = [pc EXCEPT ![c] = "run"] /\ reply' = reply
         \/ pc' = [pc EXCEPT ![c] = "over"] /\ reply' = [reply EXCEPT ![c] = "404"]
      BY DEF LoadPipeline, Goto, Answer
<1>2. /\ asked'[c].pipeline = p /\ Functional'
      /\ \A d \in Calls : d # c => asked'[d] = asked[d]
      BY <1>1 DEF IInv, Functional
<1>3. /\ pc' \in [Calls -> {"idle", "refresh", "run", "commit", "submit", "over"}]
      /\ reply' \in [Calls -> {"none", "created", "result", "400", "404", "error"}]
      /\ \A d \in Calls : d # c => pc'[d] = pc[d] /\ reply'[d] = reply[d]
      /\ pc'[c] \in {"run", "over"} /\ reply'[c] \in {"none", "404"}
      /\ pc'[c] = "run" => p \in DOMAIN pipelines
      /\ reply'[c] = "none" <=> pc'[c] # "over"
      BY <1>1 DEF IInv, TypeOK
<1>4. c \notin DOMAIN pipelines
      BY <1>1 DEF IInv, Registered
<1>5. Registered(c)'
      BY <1>1, <1>3, <1>4 DEF Registered
<1>6. Recorded(c)'
      BY <1>1, <1>3, RecordedMoves, ScoresStay DEF IInv, Own
<1>7. ScoresStep(c)
      BY <1>1, ScoresStay DEF IInv
<1>8. QED BY <1>1, <1>2, <1>3, <1>4, <1>5, <1>6, <1>7, StepKeeps

\* The pipeline runs, or the call fails before it has stored anything.
LEMMA RunKeeps ==
    ASSUME IInv, NEW c \in Calls, RunPipeline(c) \/ Fail(c)
    PROVE  IInv'
<1>1. PICK r :
      /\ pc[c] \in {"refresh", "run"} /\ pipelines' = pipelines /\ rows' = rows
      /\ UNCHANGED scores /\ asked' = asked
      /\ run' = [run EXCEPT ![c] = r]
      /\ \/ pc[c] = "run" /\ pc' = [pc EXCEPT ![c] = "commit"] /\ reply' = reply
         \/ pc' = [pc EXCEPT ![c] = "over"] /\ reply' = [reply EXCEPT ![c] = "error"]
  <2>1. CASE RunPipeline(c)
    <3>1. PICK outs, result : run' = [run EXCEPT ![c] = [outs |-> outs, result |-> result]]
          BY <2>1 DEF RunPipeline
    <3>2. QED BY <2>1, <3>1 DEF RunPipeline, Goto
  <2>2. CASE Fail(c)
    <3>1. run' = [run EXCEPT ![c] = run[c]]
          BY <2>2 DEF Fail, IInv, Functional
    <3>2. QED BY <2>2, <3>1 DEF Fail, Answer
  <2>3. QED BY <2>1, <2>2
<1>2. Functional' /\ \A d \in Calls : d # c => run'[d] = run[d]
      BY <1>1 DEF IInv, Functional
<1>3. /\ pc' \in [Calls -> {"idle", "refresh", "run", "commit", "submit", "over"}]
      /\ reply' \in [Calls -> {"none", "created", "result", "400", "404", "error"}]
      /\ \A d \in Calls : d # c => pc'[d] = pc[d] /\ reply'[d] = reply[d]
      /\ pc'[c] \in {"commit", "over"} /\ reply'[c] \in {"none", "error"}
      /\ pc'[c] = "commit" => pc[c] = "run"
      /\ reply'[c] = "none" <=> pc'[c] # "over"
      BY <1>1 DEF IInv, TypeOK
<1>4. Registered(c)'
      BY <1>1, <1>3 DEF IInv, Registered
<1>5. Recorded(c)'
      BY <1>1, <1>3, RecordedMoves, ScoresStay DEF IInv, Own
<1>6. pc'[c] \in {"run", "commit", "submit"} => asked'[c].pipeline \in DOMAIN pipelines
      BY <1>1, <1>3 DEF IInv, TypeOK
<1>7. ScoresStep(c)
      BY <1>1, ScoresStay DEF IInv
<1>8. QED BY <1>1, <1>2, <1>3, <1>4, <1>5, <1>6, <1>7, StepKeeps

\* The commit: the row is stored, and its call goes on; or it fails, with the row or without.
LEMMA CommitKeeps ==
    ASSUME IInv, NEW c \in Calls, CommitScore(c) \/ CommitFails(c)
    PROVE  IInv'
<1>1. /\ pc[c] = "commit" /\ pipelines' = pipelines
      /\ UNCHANGED scores /\ asked' = asked /\ run' = run
      /\ \/ /\ rows' = rows \cup {Row(c)}
            /\ pc' = [pc EXCEPT ![c] = "submit"] /\ reply' = reply
         \/ /\ rows' \in {rows, rows \cup {Row(c)}}
            /\ pc' = [pc EXCEPT ![c] = "over"] /\ reply' = [reply EXCEPT ![c] = "error"]
      BY DEF CommitScore, CommitFails, Goto, Answer
<1>2. Functional'
      BY <1>1 DEF IInv, Functional
<1>3. /\ pc' \in [Calls -> {"idle", "refresh", "run", "commit", "submit", "over"}]
      /\ reply' \in [Calls -> {"none", "created", "result", "400", "404", "error"}]
      /\ \A d \in Calls : d # c => pc'[d] = pc[d] /\ reply'[d] = reply[d]
      /\ pc'[c] \in {"submit", "over"} /\ reply'[c] \in {"none", "error"}
      /\ pc'[c] = "submit" => rows' = rows \cup {Row(c)}
      /\ reply'[c] = "none" <=> pc'[c] # "over"
      BY <1>1 DEF IInv, TypeOK
<1>4. c \notin DOMAIN pipelines /\ asked[c].pipeline \in DOMAIN pipelines
      BY <1>1 DEF IInv, Registered, TypeOK
<1>5. Registered(c)'
      BY <1>1, <1>3, <1>4 DEF Registered
<1>6. Recorded(c)'
  <2>1. Own(c) = {} /\ Handed(c) = {}
        BY <1>1 DEF IInv, Recorded
  <2>2. Row(c)' = Row(c) /\ Handed(c)' = {} /\ c \notin crashed'
        BY <1>1, <2>1, ScoresStay DEF IInv, Recorded, Row
  <2>3. Own(c)' \subseteq {Row(c)} /\ (rows' = rows \cup {Row(c)} => Own(c)' = {Row(c)})
        BY <1>1, <2>1 DEF Own, Row
  <2>4. First(c, 0)' = {}
        BY DEF First
  <2>5. QED BY <1>3, <2>2, <2>3, <2>4 DEF Recorded
<1>7. ScoresStep(c)
      BY <1>1, ScoresStay DEF IInv
<1>8. QED BY <1>1, <1>2, <1>3, <1>4, <1>5, <1>6, <1>7, StepKeeps

\* A score is submitted, or fails to be, with or without the effect: it is the next one.
LEMMA SubmitKeeps ==
    ASSUME IInv, NEW c \in Calls, SubmitScore(c) \/ SubmitFails(c)
    PROVE  IInv'
<1>1. pc[c] = "submit"
      BY DEF SubmitScore, SubmitFails
<1>2. PICK k \in Nat : Handed(c) = First(c, k)
      BY <1>1 DEF IInv, Recorded
<1>3. Cardinality(Handed(c)) + 1 = k + 1
      BY <1>2, FirstCounted
<1>4. /\ pipelines' = pipelines /\ rows' = rows /\ asked' = asked /\ run' = run
      /\ UNCHANGED <<submitted, crashed>>
      /\ \/ Submit(c, k + 1) /\ pc' = [pc EXCEPT ![c] = "submit"] /\ reply' = reply
         \/ /\ Submit(c, k + 1) /\ k + 1 = Len(Scores(c))
            /\ pc' = [pc EXCEPT ![c] = "over"] /\ reply' = [reply EXCEPT ![c] = "result"]
         \/ /\ Submit(c, k + 1) \/ buffer' = buffer
            /\ pc' = [pc EXCEPT ![c] = "over"] /\ reply' = [reply EXCEPT ![c] = "error"]
  <2>1. CASE SubmitScore(c)
        BY <1>3, <2>1 DEF SubmitScore, Goto, Answer
  <2>2. CASE SubmitFails(c)
        BY <1>3, <2>2 DEF SubmitFails, Answer
  <2>3. QED BY <2>1, <2>2
<1>5. Functional'
      BY <1>4 DEF IInv, Functional
<1>6. /\ pc' \in [Calls -> {"idle", "refresh", "run", "commit", "submit", "over"}]
      /\ reply' \in [Calls -> {"none", "created", "result", "400", "404", "error"}]
      /\ \A d \in Calls : d # c => pc'[d] = pc[d] /\ reply'[d] = reply[d]
      /\ pc'[c] \in {"submit", "over"} /\ reply'[c] \in {"none", "result", "error"}
      /\ pc'[c] = "submit" => Submit(c, k + 1)
      /\ reply'[c] = "result" => Submit(c, k + 1) /\ k + 1 = Len(Scores(c))
      /\ reply'[c] = "none" <=> pc'[c] # "over"
      BY <1>1, <1>4 DEF IInv, TypeOK
<1>7. (Submit(c, k + 1) \/ buffer' = buffer) /\ ScoresStep(c) /\ c \notin crashed /\ c \notin crashed'
  <2>1. Submit(c, k + 1) \/ buffer' = buffer
        BY <1>4
  <2>2. c \notin crashed
        BY <1>1 DEF IInv, Recorded
  <2>3. k + 1 \in Nat \ {0}
        OBVIOUS
  <2>4. QED BY <1>4, <2>1, <2>2, <2>3, SubmitStep DEF IInv
<1>8. c \notin DOMAIN pipelines /\ asked[c].pipeline \in DOMAIN pipelines
      BY <1>1 DEF IInv, Registered, TypeOK
<1>9. Registered(c)'
      BY <1>4, <1>6, <1>8 DEF Registered
<1>10. Recorded(c)'
  <2>1. /\ Row(c)' = Row(c) /\ Scores(c)' = Scores(c) /\ Own(c)' = {Row(c)}
        /\ \A n : First(c, n)' = First(c, n)
        BY <1>1, <1>4 DEF IInv, Recorded, Row, Scores, Own, First
  <2>2. Submit(c, k + 1) => Handed(c)' = Handed(c) \cup {[by |-> c, n |-> k + 1, value |-> Scores(c)[k + 1]]}
        BY <1>4 DEF Submit, Handed
  <2>3. First(c, k + 1) = First(c, k) \cup {[by |-> c, n |-> k + 1, value |-> Scores(c)[k + 1]]}
    <3>1. 1..(k + 1) = 1..k \cup {k + 1}
          OBVIOUS
    <3>2. QED BY <3>1 DEF First
  <2>4. Submit(c, k + 1) => Handed(c)' = First(c, k + 1)
        BY <1>2, <2>2, <2>3
  <2>5. buffer' = buffer => Handed(c)' = First(c, k)
        BY <1>2, <1>4 DEF Handed
  <2>6. \A n : \A s \in First(c, n) : s.value = Scores(c)[s.n]
        BY DEF First
  <2>7. \A s \in Handed(c)' : s.value = Scores(c)[s.n]
        BY <1>7, <2>4, <2>5, <2>6
  <2>8. QED BY <1>6, <1>7, <2>1, <2>4, <2>7 DEF Recorded
<1>11. QED BY <1>4, <1>5, <1>6, <1>7, <1>8, <1>9, <1>10, StepKeeps

\* The client sends what it has of one call: it stays handed.
LEMMA DeliverKeeps ==
    ASSUME IInv, NEW c \in Calls, Deliver(c)
    PROVE  IInv'
<1>1. /\ UNCHANGED <<pipelines, rows, crashed, pc, asked, run, reply>>
      /\ buffer' \cup submitted' = buffer \cup submitted
      BY DEF Deliver, Buffered
<1>2. \A d \in Calls : Own(d)' = Own(d) /\ Handed(d)' = Handed(d)
      BY <1>1 DEF Own, Handed
<1>3. TypeOK'
      BY <1>1 DEF IInv, TypeOK, Pipeline
<1>4. Functional' /\ NamesUnique'
      BY <1>1 DEF IInv, Functional, NamesUnique
<1>5. ASSUME NEW d \in Calls PROVE Registered(d)' /\ Recorded(d)'
      BY <1>1, <1>2, RegisteredStays, RecordedStays DEF IInv
<1>6. QED BY <1>3, <1>4, <1>5 DEF IInv

\* A process ends: of its call, which is over then, less is handed.
LEMMA CrashKeeps ==
    ASSUME IInv, NEW c \in Calls, Crash(c)
    PROVE  IInv'
<1>1. /\ UNCHANGED <<pipelines, rows, submitted, asked, run>>
      /\ buffer' = buffer \ Buffered(c) /\ crashed' = crashed \cup {c}
      /\ \/ pc[c] = "over" /\ pc' = pc /\ reply' = reply
         \/ /\ pc[c] # "over"
            /\ pc' = [pc EXCEPT ![c] = "over"] /\ reply' = [reply EXCEPT ![c] = "error"]
      BY DEF Crash, Answer
<1>2. Functional'
      BY <1>1 DEF IInv, Functional
<1>3. /\ pc' \in [Calls -> {"idle", "refresh", "run", "commit", "submit", "over"}]
      /\ reply' \in [Calls -> {"none", "created", "result", "400", "404", "error"}]
      /\ \A d \in Calls : d # c => pc'[d] = pc[d] /\ reply'[d] = reply[d]
      /\ pc'[c] = "over" /\ reply'[c] # "none"
      /\ reply'[c] \in {reply[c], "error"}
      BY <1>1 DEF IInv, TypeOK
<1>4. /\ Own(c)' = Own(c) /\ Row(c)' = Row(c) /\ Scores(c)' = Scores(c)
      /\ \A n : First(c, n)' = First(c, n)
      BY <1>1 DEF Own, Row, Scores, First
<1>5. Handed(c)' \subseteq Handed(c)
      BY <1>1 DEF Handed
<1>6. ScoresStep(c)
  <2>1. \A d \in Calls : d # c => Handed(d)' = Handed(d)
        BY <1>1 DEF Handed, Buffered
  <2>2. QED BY <1>1, <2>1 DEF ScoresStep, IInv, TypeOK
<1>7. Registered(c)'
  <2>1. reply'[c] = "created" => reply[c] = "created"
        BY <1>3
  <2>2. QED BY <1>1, <1>3, <2>1 DEF IInv, Registered
<1>8. Recorded(c)'
  <2>1. reply'[c] = "result" => reply[c] = "result"
        BY <1>3
  <2>2. Recorded(c) /\ c \in crashed'
        BY <1>1 DEF IInv
  <2>3. /\ Own(c)' \subseteq {Row(c)'}
        /\ pc'[c] \in {"idle", "refresh", "run", "commit"} => Own(c)' = {} /\ Handed(c)' = {}
        /\ pc'[c] = "submit" \/ reply'[c] = "result" \/ Handed(c)' # {} => Own(c)' = {Row(c)'}
        BY <1>3, <1>4, <1>5, <2>1, <2>2 DEF Recorded
  <2>4. \A s \in Handed(c)' : s.value = Scores(c)'[s.n]
        BY <1>4, <1>5, <2>2 DEF Recorded
  <2>5. reply'[c] = "result" => Handed(c)' \subseteq First(c, Len(Scores(c)))'
        BY <1>4, <1>5, <2>1, <2>2 DEF Recorded
  <2>6. QED BY <1>3, <2>2, <2>3, <2>4, <2>5 DEF Recorded
<1>9. QED BY <1>1, <1>2, <1>3, <1>6, <1>7, <1>8, StepKeeps

LEMMA StutterKeeps == IInv /\ UNCHANGED vars => IInv'
<1> SUFFICES ASSUME IInv, UNCHANGED vars PROVE IInv'
    OBVIOUS
<1>1. TypeOK' /\ Functional' /\ NamesUnique'
      BY DEF IInv, vars, scores, TypeOK, Functional, NamesUnique, Pipeline
<1>2. ASSUME NEW c \in Calls PROVE Registered(c)' /\ Recorded(c)'
  <2>1. Own(c)' = Own(c) /\ Handed(c)' = Handed(c)
        BY DEF vars, scores, Own, Handed
  <2>2. QED BY <2>1, RegisteredStays, RecordedStays DEF IInv, vars, scores
<1>3. QED BY <1>1, <1>2 DEF IInv

THEOREM Invariance == Spec => []IInv
<1>1. IInv /\ [Next]_vars => IInv'
  <2> SUFFICES ASSUME IInv, Next PROVE IInv'
      BY StutterKeeps
  <2>1. PICK c \in Calls :
           \/ \E name \in Names, scorers \in Configs : CreatePipeline(c, name, scorers)
           \/ \E p \in Calls : LoadPipeline(c, p)
           \/ RefreshPipeline(c) \/ RunPipeline(c) \/ Fail(c)
           \/ CommitScore(c) \/ CommitFails(c) \/ SubmitScore(c) \/ SubmitFails(c)
           \/ Deliver(c) \/ Crash(c)
        BY DEF Next
  <2>2. QED BY <2>1, CreateKeeps, LoadKeeps, RefreshKeeps, RunKeeps, CommitKeeps, SubmitKeeps,
            DeliverKeeps, CrashKeeps
<1>2. QED BY Start, <1>1, PTL DEF Spec

-----------------------------------------------------------------------------
\* The types, and what each label says about the call.
THEOREM TypeCorrect == Spec => []TypeOK
<1>1. IInv => TypeOK
      BY DEF IInv
<1>2. QED BY <1>1, Invariance, PTL

\* However creations race, a name has one owner: the caller that was told so, with the
\* pipeline it asked for.
THEOREM PipelinesAreOwned == Spec => []OwnPipeline
<1>1. IInv => OwnPipeline
      BY DEF IInv, OwnPipeline, Registered, NamesUnique
<1>2. QED BY <1>1, Invariance, PTL

\* An answered evaluation is stored once, as it was answered; its scores and its aggregate
\* are in Langfuse or in the client's buffer, unless its process has ended with some of
\* them buffered, and then what is in Langfuse is of them.
THEOREM AnswersAreBacked == Spec => []AnswersBacked
<1>1. IInv => AnswersBacked
  <2> SUFFICES ASSUME IInv, NEW c \in Calls, reply[c] = "result"
               PROVE  /\ Own(c) = {Row(c)}
                      /\ Handed(c) \subseteq First(c, Len(Scores(c)))
                      /\ c \notin crashed => Handed(c) = First(c, Len(Scores(c)))
      BY Zenon DEF AnswersBacked, Own, First
  <2>1. QED BY DEF IInv, Recorded
<1>2. QED BY <1>1, Invariance, PTL

\* No score is in Langfuse without its evaluation in the database, wherever calls fail.
THEOREM SubmissionsAreBacked == Spec => []SubmittedBacked
<1>1. IInv => SubmittedBacked
  <2> SUFFICES ASSUME IInv PROVE SubmittedBacked
      OBVIOUS
  <2>1. ASSUME NEW s \in submitted
        PROVE \E r \in rows :
           r.by = s.by /\ s.value = Append(r.result.individual, r.result.aggregate)[s.n]
    <3>1. s.by \in Calls /\ s \in Handed(s.by)
          BY DEF IInv, TypeOK, Handed
    <3>2. Own(s.by) = {Row(s.by)} /\ s.value = Scores(s.by)[s.n]
          BY <3>1 DEF IInv, Recorded
    <3>3. /\ Row(s.by) \in rows /\ Row(s.by).by = s.by
          /\ Row(s.by).result = run[s.by].result
          BY <3>2 DEF Own, Row
    <3>4. QED BY <3>2, <3>3 DEF Scores
  <2>2. ASSUME NEW q \in rows, NEW r \in rows, q.by = r.by PROVE q = r
    <3>1. q.by \in Calls /\ q \in Own(q.by) /\ r \in Own(q.by)
          BY <2>2 DEF IInv, TypeOK, Own
    <3>2. QED BY <3>1 DEF IInv, Recorded
  <2>3. QED BY <2>1, <2>2 DEF SubmittedBacked
<1>2. QED BY <1>1, Invariance, PTL

-----------------------------------------------------------------------------
(* Induction, and the sums and folds the community modules define: a set of    *)
(* the numbers, or of the subsets, for which a fact holds stands for it.       *)

\* Over the numbers.
LEMMA Induction ==
    ASSUME NEW Q, 0 \in Q, \A k \in Nat : k \in Q => k + 1 \in Q
    PROVE  Nat \subseteq Q
<1> DEFINE R == OpToRel(<, Nat)
<1>1. ASSUME Nat \ Q # {}
      PROVE  FALSE
  <2>1. PICK k \in Nat \ Q : \A j \in Nat \ Q : <<j, k>> \notin R
    BY <1>1, NatLessThanWellFounded, WFMin
  <2>2. k - 1 \in Nat /\ k - 1 < k
    <3>1. k \in Nat /\ k # 0
      OBVIOUS
    <3> QED
      BY <3>1
  <2>3. <<k - 1, k>> \in R
    BY <2>2 DEF OpToRel
  <2>4. k - 1 \in Q
    BY <2>1, <2>2, <2>3
  <2> QED
    BY <2>2, <2>4
<1> QED
  BY <1>1

\* Over the subsets of a finite set, each after those it has one member more than.
LEMMA SetInduction ==
    ASSUME NEW S, IsFiniteSet(S), NEW Q,
           \A T \in SUBSET S : (\A x \in T : T \ {x} \in Q) => T \in Q
    PROVE  \A T \in SUBSET S : T \in Q
<1> DEFINE R == StrictSubsetOrdering(S)
           B == (SUBSET S) \ Q
<1>1. IsWellFoundedOn(R, SUBSET S)
  BY FS_StrictSubsetOrderingWellFounded, FS_FiniteSubsetsOfFinite
<1>2. ASSUME B # {} PROVE FALSE
  <2> HIDE DEF R
  <2>1. PICK T \in B : \A U \in B : <<U, T>> \notin R
    BY <1>1, <1>2, WFMin
  <2>2. \A x \in T : T \ {x} \notin B
    <3> TAKE x \in T
    <3>1. T \ {x} \in SUBSET T /\ T \ {x} # T /\ T \ {x} \in SUBSET S /\ T \in SUBSET S
      OBVIOUS
    <3>2. <<T \ {x}, T>> \in R
      BY <3>1 DEF R, StrictSubsetOrdering
    <3> QED
      BY <2>1, <3>2
  <2> QED
    BY <2>2
<1> QED
  BY <1>2

\* h is defined by recursion over the subsets of S: c picks the member to take out
\* first, G[s] adds what s owes to it.
IsFold(h, S, base, c, G) ==
    \A s \in SUBSET S : h[s] = IF s = {} THEN base ELSE G[s][h[s \ {c[s]}]]

Foldable(S, V, base, c, G) ==
    /\ IsFiniteSet(S) /\ base \in V /\ G \in [SUBSET S -> [V -> V]]
    /\ \A s \in SUBSET S : s # {} => c[s] \in s

\* Such a function exists: what one for the sets of k members gives is right for one more.
LEMMA FoldExists ==
    ASSUME NEW S, NEW V, NEW base, NEW c, NEW G, Foldable(S, V, base, c, G)
    PROVE  \E h \in [SUBSET S -> V] : IsFold(h, S, base, c, G)
<1> DEFINE size(s) == Cardinality(s)
           Step(h, s) == IF s = {} THEN base ELSE G[s][h[s \ {c[s]}]]
           Upto(h, k) == \A s \in SUBSET S : size(s) <= k => h[s] = Step(h, s)
           Q == {k \in Nat : \E h \in [SUBSET S -> V] : Upto(h, k)}
<1>1. /\ IsFiniteSet(S) /\ base \in V
      /\ \A s \in SUBSET S, v \in V : G[s][v] \in V
  BY DEF Foldable
<1>2. ASSUME NEW s \in SUBSET S
      PROVE  size(s) \in Nat /\ size(s) <= size(S) /\ (s = {} <=> size(s) = 0)
  BY <1>1, FS_Subset, FS_CardinalityType, FS_EmptySet
<1>3. ASSUME NEW s \in SUBSET S, s # {}
      PROVE  /\ c[s] \in s /\ s \ {c[s]} \in SUBSET S
             /\ size(s \ {c[s]}) = size(s) - 1
  <2>1. IsFiniteSet(s) /\ c[s] \in s
    BY <1>1, <1>3, FS_Subset DEF Foldable
  <2> QED
    BY <2>1, FS_RemoveElement
<1> HIDE DEF size
<1>4. 0 \in Q
  <2> DEFINE h == [s \in SUBSET S |-> base]
  <2>1. h \in [SUBSET S -> V] /\ \A s \in SUBSET S : size(s) <= 0 => s = {} /\ h[s] = base
    BY <1>1, <1>2
  <2> HIDE DEF h
  <2> QED
    BY <2>1
<1>5. ASSUME NEW k \in Nat, k \in Q
      PROVE  k + 1 \in Q
  <2>1. PICK g \in [SUBSET S -> V] : Upto(g, k)
    BY <1>5
  <2> DEFINE h == [s \in SUBSET S |-> Step(g, s)]
  <2>2. h \in [SUBSET S -> V]
    <3>1. \A s \in SUBSET S : Step(g, s) \in V
      BY <1>1, <1>3
    <3> HIDE DEF Step
    <3> QED
      BY <3>1
  <2>3. ASSUME NEW s \in SUBSET S, size(s) <= k
        PROVE  h[s] = g[s]
    BY <2>1, <2>3
  <2>4. ASSUME NEW s \in SUBSET S, size(s) <= k + 1
        PROVE  h[s] = Step(h, s)
    <3>1. CASE s = {}
      BY <3>1
    <3>2. CASE s # {}
      <4>1. s \ {c[s]} \in SUBSET S /\ size(s \ {c[s]}) <= k
        BY <1>2, <1>3, <2>4, <3>2
      <4>2. h[s \ {c[s]}] = g[s \ {c[s]}]
        BY <2>3, <4>1
      <4>3. h[s] = G[s][g[s \ {c[s]}]]
        BY <3>2
      <4> HIDE DEF h
      <4> QED
        BY <3>2, <4>2, <4>3
    <3> QED
      BY <3>1, <3>2
  <2> HIDE DEF h, Step
  <2> QED
    BY <2>2, <2>4
<1>6. size(S) \in Q
  <2>1. Nat \subseteq Q
    <3> HIDE DEF Q
    <3> QED
      BY <1>4, <1>5, Induction
  <2>2. size(S) \in Nat
    BY <1>2
  <2> HIDE DEF Q
  <2> QED
    BY <2>1, <2>2
<1>7. PICK h \in [SUBSET S -> V] : Upto(h, size(S))
  BY <1>6
<1> QED
  BY <1>2, <1>7 DEF IsFold

\* The sums of f over the subsets of S, as SumFunction defines them.
Partial(f, S) == CHOOSE h : h = [s \in SUBSET S |-> IF s = {} THEN 0
                  ELSE f[CHOOSE x \in s : TRUE] + h[s \ {CHOOSE x \in s : TRUE}]]

\* Each is a term and the sum of the others, for the term SumFunction takes out.
LEMMA PartialSums ==
    ASSUME NEW S, IsFiniteSet(S), NEW f \in [S -> Int]
    PROVE  /\ Partial(f, S) \in [SUBSET S -> Int]
           /\ Partial(f, S)[{}] = 0
           /\ \A s \in SUBSET S : s # {} => \E x \in s : Partial(f, S)[s] = f[x] + Partial(f, S)[s \ {x}]
<1> DEFINE c == [s \in SUBSET S |-> CHOOSE x \in s : TRUE]
           G == [s \in SUBSET S |-> [v \in Int |-> IF s = {} THEN 0 ELSE f[c[s]] + v]]
           Eq(h) == h = [s \in SUBSET S |-> IF s = {} THEN 0
                            ELSE f[CHOOSE x \in s : TRUE] + h[s \ {CHOOSE x \in s : TRUE}]]
<1>1. \A s \in SUBSET S : s # {} => c[s] \in s
  OBVIOUS
<1>2. G \in [SUBSET S -> [Int -> Int]]
  <2>1. \A s \in SUBSET S : s # {} => f[c[s]] \in Int
    BY <1>1
  <2> HIDE DEF c
  <2> QED
    BY <2>1
<1> HIDE DEF c, G
<1>3. 0 \in Int
  OBVIOUS
<1>4. Foldable(S, Int, 0, c, G)
  BY <1>1, <1>2 DEF Foldable
<1>5. PICK h \in [SUBSET S -> Int] : IsFold(h, S, 0, c, G)
  BY <1>4, FoldExists
<1>6. Eq(h)
  <2>1. ASSUME NEW s \in SUBSET S, s # {}
        PROVE  h[s] = f[CHOOSE x \in s : TRUE] + h[s \ {CHOOSE x \in s : TRUE}]
    <3>1. c[s] = CHOOSE x \in s : TRUE
      BY DEF c
    <3>2. c[s] \in s /\ h[s \ {c[s]}] \in Int /\ h[s] = G[s][h[s \ {c[s]}]]
      BY <1>1, <1>5, <2>1 DEF IsFold
    <3>3. h[s] = f[c[s]] + h[s \ {c[s]}]
      BY <2>1, <3>2 DEF G
    <3> QED
      BY <3>1, <3>3
  <2>2. h[{}] = 0
    BY <1>5 DEF IsFold
  <2> QED
    BY <1>5, <2>1, <2>2
<1>7. Partial(f, S) = CHOOSE g : Eq(g)
  BY DEF Partial
<1>8. Eq(Partial(f, S))
  <2> HIDE DEF Eq
  <2> QED
    BY <1>6, <1>7
<1> DEFINE k == Partial(f, S)
<1>9. \A s \in SUBSET S : k[s] = IF s = {} THEN 0
                            ELSE f[CHOOSE x \in s : TRUE] + k[s \ {CHOOSE x \in s : TRUE}]
  BY <1>8
<1>10. k = [s \in SUBSET S |-> k[s]]
  BY <1>8
<1> HIDE DEF k
<1> DEFINE E == {s \in SUBSET S : k[s] \in Int}
<1>11. ASSUME NEW s \in SUBSET S, \A x \in s : s \ {x} \in E
       PROVE  s \in E
  <2>1. CASE s = {}
    <3>1. k[s] = 0
      BY <1>9, <2>1
    <3> QED
      BY <3>1
  <2>2. CASE s # {}
    <3>1. PICK x \in s : x = CHOOSE y \in s : TRUE
      BY <2>2
    <3>2. k[s \ {x}] \in Int /\ k[s] = f[x] + k[s \ {x}]
      BY <1>9, <1>11, <2>2, <3>1
    <3> QED
      BY <3>2
  <2> QED
    BY <2>1, <2>2
<1>12. \A s \in SUBSET S : s \in E
  <2> HIDE DEF E
  <2> QED
    BY <1>11, SetInduction
<1>13. k \in [SUBSET S -> Int]
  BY <1>10, <1>12 DEF E
<1>14. k[{}] = 0
  BY <1>9
<1>15. ASSUME NEW s \in SUBSET S, s # {}
       PROVE  \E x \in s : k[s] = f[x] + k[s \ {x}]
  BY <1>9, <1>15
<1> QED
  BY <1>13, <1>14, <1>15 DEF k

\* The sum of all is in the table.
LEMMA SumIsPartial ==
    ASSUME NEW f
    PROVE  SumFunction(f) = Partial(f, DOMAIN f)[DOMAIN f]
BY DEF SumFunction, FoldFunction, SumFunctionOnSet, FoldFunctionOnSet, MapThenFoldSet, Partial

\* What a quotient is rounded from.
LEMMA DivBounds ==
    ASSUME NEW x \in Int, NEW d \in Nat \ {0}
    PROVE  (x \div d) \in Int /\ d * (x \div d) <= x /\ x < d * (x \div d) + d
OBVIOUS

\* Products of a natural number keep an order.
LEMMA Monotone ==
    ASSUME NEW x \in Int, NEW y \in Int, NEW k \in Nat
    PROVE  /\ x <= y => k * x <= k * y
           /\ x < y /\ k > 0 => k * x < k * y
OBVIOUS

\* k has the sums of f over the subsets of S, whichever term is taken out of them.
IsTable(k, f, S) ==
    /\ k \in [SUBSET S -> Int] /\ k[{}] = 0
    /\ \A s \in SUBSET S : \A x \in s : k[s] = f[x] + k[s \ {x}]

\* The sums do not depend on the order of the terms.
LEMMA SumFromTable ==
    ASSUME NEW S, IsFiniteSet(S), NEW f \in [S -> Int]
    PROVE  IsTable(Partial(f, S), f, S)
<1> DEFINE k == Partial(f, S)
           E == {s \in SUBSET S : \A x \in s : k[s] = f[x] + k[s \ {x}]}
<1>1. /\ k \in [SUBSET S -> Int] /\ k[{}] = 0
      /\ \A s \in SUBSET S : s # {} => \E x \in s : k[s] = f[x] + k[s \ {x}]
  BY PartialSums
<1> HIDE DEF k
<1>2. \A s \in SUBSET S : k[s] \in Int
  BY <1>1
<1>3. ASSUME NEW s \in SUBSET S, \A x \in s : s \ {x} \in E
      PROVE  s \in E
  <2> SUFFICES ASSUME NEW x \in s
               PROVE  k[s] = f[x] + k[s \ {x}]
    OBVIOUS
  <2>1. PICK y \in s : k[s] = f[y] + k[s \ {y}]
    BY <1>1
  <2>2. CASE x = y
    BY <2>1, <2>2
  <2>3. CASE x # y
    <3>1. k[s \ {y}] = f[x] + k[(s \ {y}) \ {x}]
      <4>1. PICK t \in E : t = s \ {y} /\ x \in t
        BY <1>3, <2>3
      <4>2. k[t] = f[x] + k[t \ {x}]
        BY <4>1
      <4> QED
        BY <4>1, <4>2, Zenon
    <3>2. k[s \ {x}] = f[y] + k[(s \ {x}) \ {y}]
      <4>1. PICK t \in E : t = s \ {x} /\ y \in t
        BY <1>3, <2>3
      <4>2. k[t] = f[y] + k[t \ {y}]
        BY <4>1
      <4> QED
        BY <4>1, <4>2, Zenon
    <3>3. (s \ {y}) \ {x} = (s \ {x}) \ {y}
      OBVIOUS
    <3>4. PICK a \in Int, b \in Int, c \in Int, d \in Int, e \in Int :
              /\ a = k[s \ {y}] /\ b = k[s \ {x}] /\ c = k[(s \ {x}) \ {y}]
              /\ d = f[x] /\ e = f[y]
      <4>1. s \ {y} \in SUBSET S /\ s \ {x} \in SUBSET S /\ (s \ {x}) \ {y} \in SUBSET S
        OBVIOUS
      <4> QED
        BY <1>2, <4>1
    <3>5. k[s] = e + a /\ a = d + c /\ b = e + c
      BY <2>1, <3>1, <3>2, <3>3, <3>4, Zenon
    <3>6. k[s] = d + b
      BY <3>5
    <3> QED
      BY <3>4, <3>6, Zenon
  <2> QED
    BY <2>2, <2>3
<1>4. \A s \in SUBSET S : s \in E
  <2> HIDE DEF E
  <2> QED
    BY <1>3, SetInduction
<1>5. \A s \in SUBSET S : \A x \in s : k[s] = f[x] + k[s \ {x}]
  BY <1>4
<1> QED
  BY <1>1, <1>5 DEF k, IsTable

\* The table of fewer terms agrees with that of all.
LEMMA TableRestricts ==
    ASSUME NEW s, IsFiniteSet(s), NEW g \in [s -> Int], NEW t, t \subseteq s,
           NEW h \in [t -> Int], \A y \in t : h[y] = g[y]
    PROVE  Partial(h, t)[t] = Partial(g, s)[t]
<1>1. IsFiniteSet(t)
  BY FS_Subset
<1>2. PICK k : k = Partial(g, s) /\ IsTable(k, g, s)
  BY SumFromTable
<1>3. PICK l : l = Partial(h, t) /\ IsTable(l, h, t)
  BY <1>1, SumFromTable
<1> USE DEF IsTable
<1> DEFINE E == {u \in SUBSET t : l[u] = k[u]}
<1>4. ASSUME NEW u \in SUBSET t, \A y \in u : u \ {y} \in E
      PROVE  u \in E
  <2>1. CASE u = {}
    BY <1>2, <1>3, <2>1
  <2>2. CASE u # {}
    <3>1. PICK y \in u : u \ {y} \in E
      BY <1>4, <2>2
    <3>2. l[u] = h[y] + l[u \ {y}]
      BY <1>3
    <3>3. k[u] = g[y] + k[u \ {y}]
      BY <1>2
    <3>4. h[y] = g[y] /\ l[u \ {y}] = k[u \ {y}]
      BY <3>1
    <3> QED
      BY <3>2, <3>3, <3>4
  <2> QED
    BY <2>1, <2>2
<1>5. \A u \in SUBSET t : u \in E
  <2> HIDE DEF E
  <2> QED
    BY <1>1, <1>4, SetInduction
<1>6. t \in E
  BY <1>5
<1> QED
  BY <1>2, <1>3, <1>6

\* The sum of f over s.
Sum(f, s) == SumFunction([x \in s |-> f[x]])
Summable(f, s) == IsFiniteSet(s) /\ \A x \in s : f[x] \in Int

\* Nothing sums to nothing.
LEMMA SumOfNone ==
    ASSUME NEW f
    PROVE  Sum(f, {}) = 0
<1> DEFINE g == [x \in {} |-> f[x]]
<1>1. g \in [{} -> Int] /\ DOMAIN g = {}
  OBVIOUS
<1> HIDE DEF g
<1>2. Partial(g, {})[{}] = 0
  BY <1>1, FS_EmptySet, PartialSums
<1>3. Sum(f, {}) = SumFunction(g)
  BY DEF Sum, g
<1> QED
  BY <1>1, <1>2, <1>3, SumIsPartial

\* A sum is a term and the sum of the others, whichever term it is.
LEMMA SumOfMore ==
    ASSUME NEW f, NEW s, Summable(f, s)
    PROVE  /\ Sum(f, s) \in Int
           /\ \A x \in s : Summable(f, s \ {x}) /\ Sum(f, s \ {x}) \in Int
                             /\ Sum(f, s) = f[x] + Sum(f, s \ {x})
<1> DEFINE g == [x \in s |-> f[x]]
<1>1. g \in [s -> Int] /\ DOMAIN g = s /\ IsFiniteSet(s) /\ \A x \in s : g[x] = f[x] /\ f[x] \in Int
  BY DEF Summable
<1> HIDE DEF g
<1>2. PICK k : k = Partial(g, s) /\ IsTable(k, g, s)
  BY <1>1, SumFromTable
<1>3. Sum(f, s) = k[s]
  <2>1. Sum(f, s) = SumFunction(g)
    BY DEF Sum, g
  <2> QED
    BY <1>1, <1>2, <2>1, SumIsPartial
<1>4. k[s] \in Int
  BY <1>2 DEF IsTable
<1>5. ASSUME NEW x \in s
      PROVE  Summable(f, s \ {x}) /\ Sum(f, s \ {x}) = k[s \ {x}]
  <2> DEFINE t == s \ {x}
             h == [y \in t |-> f[y]]
  <2>1. h \in [t -> Int] /\ DOMAIN h = t /\ IsFiniteSet(t) /\ \A y \in t : h[y] = g[y]
    BY <1>1, FS_Subset
  <2>2. t \subseteq s
    OBVIOUS
  <2>3. Sum(f, t) = SumFunction(h)
    BY DEF Sum
  <2>4. Summable(f, t)
    BY <1>1, <2>1 DEF Summable
  <2> HIDE DEF t, h
  <2>5. Partial(h, t)[t] = Partial(g, s)[t]
    BY <1>1, <2>1, <2>2, TableRestricts
  <2>6. Sum(f, t) = k[t]
    BY <1>2, <2>1, <2>3, <2>5, SumIsPartial
  <2> QED
    BY <2>4, <2>6 DEF t
<1>6. ASSUME NEW x \in s
      PROVE  k[s] = f[x] + k[s \ {x}] /\ k[s \ {x}] \in Int
  <2>1. s \ {x} \in SUBSET s /\ s \in SUBSET s
    OBVIOUS
  <2> QED
    BY <1>1, <1>2, <2>1 DEF IsTable
<1> QED
  BY <1>3, <1>4, <1>5, <1>6

-----------------------------------------------------------------------------
(* Scores.                                                                     *)

\* Rounding moves a quotient by half a unit at most.
LEMMA RoundedBounds ==
    ASSUME NEW num \in Int, NEW den \in Nat \ {0}, NEW n \in Rounded(num, den)
    PROVE  n \in Int /\ 2 * (num - n * den) \in (-den)..den
<1>1. num \div den \in Int
  BY DivBounds
<1> QED
  BY <1>1 DEF Rounded

\* Rounding does not leave a range of whole numbers.
LEMMA RoundedWithin ==
    ASSUME NEW num \in Nat, NEW den \in Nat \ {0}, NEW m \in Nat, num <= m * den,
           NEW n \in Rounded(num, den)
    PROVE  n \in 0..m
<1>1. n \in Int /\ 2 * (num - n * den) \in (-den)..den
  BY RoundedBounds
<1>2. PICK p \in Int, q \in Int : p = n * den /\ q = m * den
  BY <1>1
<1>3. 2 * (num - p) <= den /\ 2 * (num - p) >= -den /\ num <= q
  BY <1>1, <1>2
<1>4. CASE n <= -1
  <2>1. den * n <= den * (-1)
    BY <1>1, <1>4, Monotone
  <2>2. p <= -den
    BY <1>1, <1>2, <2>1
  <2> QED
    BY <1>3, <2>2
<1>5. CASE n >= m + 1
  <2>1. den * (m + 1) <= den * n
    BY <1>1, <1>5, Monotone
  <2>2. den * (m + 1) = q + den /\ den * n = p
    BY <1>1, <1>2
  <2>3. q + den <= p
    BY <2>1, <2>2
  <2> QED
    BY <1>3, <2>3
<1> QED
  BY <1>1, <1>4, <1>5

Score == 0..One

\* Whatever the judge says, the score read from it is one, or there is none.
LEMMA JudgeWithin ==
    ASSUME NEW answer \in Answers, NEW n \in Judge(answer)
    PROVE  n \in Score \cup {Raised}
<1> USE ScoresAssumption DEF Score
<1>1. /\ answer.object \in {"number", "nan", "null", "plain", "none"}
      /\ answer.score \in Int /\ answer.number \in Int
  OBVIOUS
<1>2. One \div 2 \in Score
  OBVIOUS
<1>3. \A k \in Int : Clamp(k) \in Score
  BY DEF Clamp
<1>4. ASSUME NEW k \in Int, NEW m \in Scaled(k)
      PROVE  m \in Score
  <2>1. CASE k < 0
    BY <1>2, <1>4, <2>1 DEF Scaled
  <2>2. CASE k \in 0..One
    BY <1>4, <2>2 DEF Scaled
  <2>3. CASE k \in (One + 1)..(10 * One)
    <3>1. m \in Rounded(k, 10)
      BY <1>4, <2>3 DEF Scaled
    <3>2. k \in Nat /\ k <= One * 10
      BY <2>3
    <3> QED
      BY <3>1, <3>2, RoundedWithin
  <2>4. CASE k > 10 * One
    <3>1. PICK n2 \in Rounded(k, 100) : m = Clamp(n2)
      BY <1>4, <2>4 DEF Scaled
    <3>2. n2 \in Int
      BY RoundedBounds
    <3> QED
      BY <1>3, <3>1, <3>2
  <2> QED
    BY <2>1, <2>2, <2>3, <2>4
<1>5. CASE answer.object = "number"
  BY <1>1, <1>3, <1>5 DEF Judge
<1>6. CASE answer.object = "none"
  BY <1>1, <1>4, <1>6 DEF Judge
<1>7. CASE answer.object \in {"nan", "null", "plain"}
  BY <1>2, <1>7 DEF Judge
<1> QED
  BY <1>1, <1>5, <1>6, <1>7

\* A scorer that is no composite gives a score.
LEMMA GivesWithin ==
    ASSUME NEW s, Parsed(s), NEW n \in Gives(s)
    PROVE  n \in Score \cup {Raised}
<1>1. CASE s.strategy = "rule_based"
  <2>1. n \in RuleBased(s.rules) /\ s.rules \in Nat
    BY <1>1 DEF Gives, Parsed
  <2>2. CASE s.rules = 0
    BY <2>1, <2>2, ScoresAssumption DEF RuleBased, Score
  <2>3. CASE s.rules # 0
    <3>1. PICK passed \in 0..s.rules : n \in Rounded(One * passed, s.rules)
      BY <2>1, <2>3 DEF RuleBased
    <3>2. PICK r \in Nat \ {0}, k \in Nat : r = s.rules /\ k = passed /\ k <= r
      BY <2>1, <2>3
    <3>3. One * k <= One * r /\ One * k \in Nat
      BY <3>2, ScoresAssumption, Monotone
    <3>4. n \in Rounded(One * k, r)
      BY <3>1, <3>2
    <3> QED
      BY <3>3, <3>4, ScoresAssumption, RoundedWithin DEF Score
  <2> QED
    BY <2>2, <2>3
<1>2. CASE s.strategy = "embedding"
  BY <1>2, ScoresAssumption DEF Gives, Score
<1>3. CASE s.strategy = "llm_judge"
  <2>1. PICK answer \in Answers : n \in Judge(answer)
    BY <1>3 DEF Gives
  <2> QED
    BY <2>1, JudgeWithin
<1>4. CASE s.strategy \notin {"rule_based", "embedding", "llm_judge"}
  BY <1>4 DEF Gives
<1> QED
  BY <1>1, <1>2, <1>3, <1>4

-----------------------------------------------------------------------------
(* Aggregates.                                                                 *)

\* A list of scorers with numbers for weights
Listed(scorers) == IsFiniteSet(DOMAIN scorers) /\ \A i \in DOMAIN scorers : scorers[i].weight \in Int
Answered(scorers, res) == {i \in DOMAIN scorers : res[i] # Raised}
Weights(scorers) == [i \in DOMAIN scorers |-> scorers[i].weight]
Terms(scorers, res) == [i \in DOMAIN scorers |-> scorers[i].weight * res[i]]

\* The total weight is the sum of the weights.
LEMMA WeightsSum ==
    ASSUME NEW scorers, Listed(scorers)
    PROVE  /\ Summable(Weights(scorers), DOMAIN scorers)
           /\ TotalWeight(scorers) = Sum(Weights(scorers), DOMAIN scorers)
           /\ TotalWeight(scorers) \in Int
<1>1. Summable(Weights(scorers), DOMAIN scorers)
  BY DEF Summable, Listed, Weights
<1>2. [i \in DOMAIN scorers |-> Weights(scorers)[i]] = [i \in DOMAIN scorers |-> scorers[i].weight]
  BY DEF Weights
<1>3. TotalWeight(scorers) = Sum(Weights(scorers), DOMAIN scorers)
  BY <1>2 DEF TotalWeight, Sum
<1> QED
  BY <1>1, <1>3, SumOfMore

\* What the aggregate is rounded from.
LEMMA AggregateIs ==
    ASSUME NEW scorers, Listed(scorers), NEW res,
           \A i \in DOMAIN scorers : res[i] \in Int \cup {Raised}, NEW a \in Aggregates(scorers, res)
    PROVE  /\ Summable(Terms(scorers, res), Answered(scorers, res))
           /\ TotalWeight(scorers) <= 0 => a = 0
           /\ TotalWeight(scorers) > 0 =>
                 a \in Rounded(Sum(Terms(scorers, res), Answered(scorers, res)), TotalWeight(scorers))
<1> DEFINE A == Answered(scorers, res)
           T == Terms(scorers, res)
<1>1. IsFiniteSet(A)
  BY FS_Subset DEF Listed, Answered
<1>2. \A i \in A : T[i] = scorers[i].weight * res[i] /\ T[i] \in Int
  BY DEF Answered, Terms, Listed
<1>3. Summable(T, A)
  BY <1>1, <1>2 DEF Summable
<1>4. [i \in A |-> scorers[i].weight * res[i]] = [i \in A |-> T[i]]
  BY <1>2
<1>5. SumFunction([i \in A |-> scorers[i].weight * res[i]]) = Sum(T, A)
  BY <1>4 DEF Sum
<1>6. TotalWeight(scorers) \in Int
  BY WeightsSum
<1>7. A = {i \in DOMAIN scorers : res[i] # Raised}
  BY DEF Answered
<1> HIDE DEF A, T
<1>8. a \in (IF TotalWeight(scorers) <= 0 THEN {0} ELSE Rounded(Sum(T, A), TotalWeight(scorers)))
  BY <1>5, <1>7 DEF Aggregates
<1> QED
  BY <1>3, <1>6, <1>8 DEF A, T

\* Terms of which each is at most One times its weight, of some of the scorers, are in
\* sum at most One times all the weights.
LEMMA SumWithin ==
    ASSUME NEW S, NEW w, Summable(w, S), \A i \in S : w[i] >= 0,
           NEW A, A \subseteq S, NEW f, Summable(f, A), \A i \in A : f[i] >= 0 /\ f[i] <= One * w[i]
    PROVE  Sum(f, A) \in Nat /\ Sum(f, A) <= One * Sum(w, S)
<1> DEFINE E == {T \in SUBSET S : /\ Summable(w, T) /\ Summable(f, A \cap T)
                                  /\ Sum(f, A \cap T) \in Nat
                                  /\ Sum(f, A \cap T) <= One * Sum(w, T)}
<1>1. ASSUME NEW T \in SUBSET S, \A x \in T : T \ {x} \in E
      PROVE  T \in E
  <2>1. Summable(w, T) /\ Summable(f, A \cap T)
    BY FS_Subset DEF Summable
  <2>2. Sum(w, T) \in Int /\ Sum(f, A \cap T) \in Int
    BY <2>1, SumOfMore
  <2>3. CASE T = {}
    <3>1. A \cap T = {}
      BY <2>3
    <3>2. Sum(f, A \cap T) = 0 /\ Sum(w, T) = 0
      BY <2>3, <3>1, SumOfNone
    <3>3. One * 0 = 0
      BY ScoresAssumption
    <3> QED
      BY <2>1, <3>2, <3>3
  <2>4. CASE T # {}
    <3>1. PICK x \in T : T \ {x} \in E
      BY <1>1, <2>4
    <3>2. PICK a \in Int, b \in Nat, u \in Int :
              a = Sum(w, T \ {x}) /\ b = Sum(f, A \cap (T \ {x})) /\ u = w[x]
      BY <3>1, SumOfMore DEF Summable
    <3>3. Sum(w, T) = u + a /\ u >= 0
      BY <2>1, <3>2, SumOfMore
    <3>4. b <= One * a
      BY <3>1, <3>2
    <3>5. One * (u + a) = One * u + One * a /\ One * u \in Nat /\ One * a \in Int
      BY <3>3, ScoresAssumption
    <3>6. CASE x \in A
      <4>1. (A \cap T) \ {x} = A \cap (T \ {x}) /\ x \in A \cap T
        BY <3>6
      <4>2. Sum(f, A \cap T) = f[x] + b
        BY <2>1, <3>2, <4>1, SumOfMore
      <4>3. x \in A /\ f[x] \in Int
        BY <2>1, <4>1 DEF Summable
      <4>4. f[x] >= 0 /\ f[x] <= One * w[x]
        BY <4>3
      <4>5. PICK v \in Nat : v = f[x] /\ v <= One * u
        BY <3>2, <4>3, <4>4
      <4>6. PICK p \in Int, q \in Int : p = One * u /\ q = One * a
        BY <3>5
      <4>7. v + b \in Nat /\ v + b <= p + q
        BY <3>2, <3>4, <4>5, <4>6
      <4>8. Sum(f, A \cap T) = v + b /\ One * Sum(w, T) = p + q
        BY <3>3, <3>5, <4>2, <4>5, <4>6
      <4> QED
        BY <2>1, <4>7, <4>8
    <3>7. CASE x \notin A
      <4>1. A \cap T = A \cap (T \ {x})
        BY <3>7
      <4>2. PICK p \in Nat, q \in Int : p = One * u /\ q = One * a
        BY <3>5
      <4>3. Sum(f, A \cap T) = b
        BY <3>2, <4>1
      <4>4. b <= p + q
        BY <3>2, <3>4, <4>2
      <4>5. One * Sum(w, T) = p + q
        BY <3>3, <3>5, <4>2
      <4> QED
        BY <2>1, <3>2, <4>3, <4>4, <4>5
    <3> QED
      BY <3>6, <3>7
  <2> QED
    BY <2>3, <2>4
<1>2. \A T \in SUBSET S : T \in E
  <2>1. IsFiniteSet(S)
    BY DEF Summable
  <2> HIDE DEF E
  <2> QED
    BY <1>1, <2>1, SetInduction
<1>3. S \in E /\ A \cap S = A
  BY <1>2
<1> QED
  BY <1>3

\* The aggregate of scores is a score.
LEMMA AggregateWithin ==
    ASSUME NEW scorers, Listed(scorers), \A i \in DOMAIN scorers : scorers[i].weight >= 0,
           NEW res, \A i \in DOMAIN scorers : res[i] \in Score \cup {Raised},
           NEW a \in Aggregates(scorers, res)
    PROVE  a \in Score
<1> DEFINE A == Answered(scorers, res)
           T == Terms(scorers, res)
<1>1. \A i \in DOMAIN scorers : res[i] \in Int \cup {Raised}
  BY ScoresAssumption DEF Score
<1>2. /\ Summable(T, A)
      /\ TotalWeight(scorers) <= 0 => a = 0
      /\ TotalWeight(scorers) > 0 => a \in Rounded(Sum(T, A), TotalWeight(scorers))
  BY <1>1, AggregateIs
<1>3. /\ Summable(Weights(scorers), DOMAIN scorers)
      /\ TotalWeight(scorers) = Sum(Weights(scorers), DOMAIN scorers)
      /\ TotalWeight(scorers) \in Int
  BY WeightsSum
<1>4. ASSUME NEW i \in A
      PROVE  T[i] >= 0 /\ T[i] <= One * Weights(scorers)[i]
  <2>1. i \in DOMAIN scorers /\ res[i] \in Score
    BY DEF Answered
  <2>2. PICK u \in Nat, r \in Score : u = scorers[i].weight /\ r = res[i]
    BY <2>1 DEF Listed
  <2>3. T[i] = u * r /\ Weights(scorers)[i] = u
    BY <2>1, <2>2 DEF Terms, Weights
  <2>4. u * 0 <= u * r /\ u * r <= u * One
    BY <2>2, ScoresAssumption, Monotone DEF Score
  <2>5. u * 0 = 0 /\ u * One = One * u
    BY <2>2, ScoresAssumption
  <2> QED
    BY <2>3, <2>4, <2>5
<1>5. A \subseteq DOMAIN scorers /\ \A i \in DOMAIN scorers : Weights(scorers)[i] >= 0
  BY DEF Answered, Weights
<1> HIDE DEF A, T
<1>6. Sum(T, A) \in Nat /\ Sum(T, A) <= One * TotalWeight(scorers)
  BY <1>2, <1>3, <1>4, <1>5, SumWithin
<1>7. CASE TotalWeight(scorers) <= 0
  BY <1>2, <1>7, ScoresAssumption DEF Score
<1>8. CASE TotalWeight(scorers) > 0
  BY <1>2, <1>3, <1>6, <1>8, ScoresAssumption, RoundedWithin DEF Score
<1> QED
  BY <1>3, <1>7, <1>8

-----------------------------------------------------------------------------
(* What a pipeline returns.                                                    *)

\* A list of scorers as one that asked for it, or the inside of a composite
Usable(scorers) ==
    /\ IsFiniteSet(DOMAIN scorers)
    /\ \A i \in DOMAIN scorers :
          /\ Parsed(scorers[i])
          /\ scorers[i].strategy = "composite" =>
                /\ IsFiniteSet(DOMAIN scorers[i].subs)
                /\ \A j \in DOMAIN scorers[i].subs :
                      Parsed(scorers[i].subs[j]) /\ scorers[i].subs[j].strategy # "composite"

\* A list has finitely many places.
LEMMA ListIsFinite ==
    ASSUME NEW V, NEW l \in Seq(V)
    PROVE  IsFiniteSet(DOMAIN l) /\ Len(l) \in Nat /\ DOMAIN l = 1..Len(l)
<1>1. Len(l) \in Nat /\ DOMAIN l = 1..Len(l)
  OBVIOUS
<1> QED
  BY <1>1, FS_Interval

\* What a caller may ask for is usable.
LEMMA ConfigsUsable ==
    ASSUME NEW scorers \in Configs
    PROVE  Usable(scorers) /\ Len(scorers) \in Nat /\ DOMAIN scorers = 1..Len(scorers)
<1>1. scorers \in Seq(Range(scorers))
  BY ConfigsAssumption
<1>2. IsFiniteSet(DOMAIN scorers) /\ Len(scorers) \in Nat /\ DOMAIN scorers = 1..Len(scorers)
  BY <1>1, ListIsFinite
<1>3. ASSUME NEW i \in DOMAIN scorers, scorers[i].strategy = "composite"
      PROVE  IsFiniteSet(DOMAIN scorers[i].subs)
  <2>1. scorers[i].subs \in Seq(Range(scorers[i].subs))
    BY <1>3, ConfigsAssumption
  <2> QED
    BY <2>1, ListIsFinite
<1>4. \A i \in DOMAIN scorers :
          /\ Parsed(scorers[i])
          /\ scorers[i].strategy = "composite" =>
                \A j \in DOMAIN scorers[i].subs :
                      Parsed(scorers[i].subs[j]) /\ scorers[i].subs[j].strategy # "composite"
  BY ConfigsAssumption
<1> QED
  BY <1>2, <1>3, <1>4 DEF Usable

\* Every scorer has an outcome of its own.
LEMMA ChosenOutcomes ==
    ASSUME NEW scorers, NEW outs \in AllOutcomes(scorers)
    PROVE  DOMAIN outs = DOMAIN scorers /\ \A i \in DOMAIN scorers : outs[i] \in Outcomes(scorers[i])
BY DEF AllOutcomes, Choices

\* A result is that of some values its scorers return.
LEMMA ChosenResults ==
    ASSUME NEW scorers, NEW outs, NEW result \in Results(scorers, outs)
    PROVE  \E res : /\ DOMAIN res = DOMAIN scorers
                    /\ \A i \in DOMAIN scorers : res[i] \in Returns(scorers[i], outs[i])
                    /\ result.individual = Succeeded(res)
                    /\ result.aggregate \in Aggregates(scorers, res)
<1>1. PICK res \in Choices(DOMAIN scorers, LAMBDA i : Returns(scorers[i], outs[i])) :
         \E a \in Aggregates(scorers, res) :
            result = [individual |-> Succeeded(res), aggregate |-> a]
  BY DEF Results
<1>2. /\ DOMAIN res = DOMAIN scorers
      /\ \A i \in DOMAIN scorers : res[i] \in Returns(scorers[i], outs[i])
  BY <1>1 DEF Choices
<1>3. result.individual = Succeeded(res) /\ result.aggregate \in Aggregates(scorers, res)
  BY <1>1
<1> QED
  BY <1>2, <1>3

\* What the leaves of a composite did
LEMMA CompositeOutcomes ==
    ASSUME NEW s, s.strategy = "composite", NEW out \in Outcomes(s)
    PROVE  DOMAIN out = DOMAIN s.subs /\ \A j \in DOMAIN s.subs : out[j] \in Gives(s.subs[j]) \cup {Raised}
BY DEF Outcomes, Choices

\* What a scorer that is no composite did
LEMMA LeafOutcomes ==
    ASSUME NEW s, s.strategy # "composite", NEW out \in Outcomes(s)
    PROVE  DOMAIN out = {1} /\ out[1] \in Gives(s) \cup {Raised}
BY DEF Outcomes

\* The cases of Returns
LEMMA ReturnsCases ==
    ASSUME NEW s, NEW out, NEW v \in Returns(s, out)
    PROVE  /\ s.strategy = "unknown" => v = Raised
           /\ s.strategy = "composite" /\ s.subs = <<>> => v = 0
           /\ s.strategy = "composite" /\ s.subs # <<>> /\ Unknown(s.subs) => v = Raised
           /\ s.strategy = "composite" /\ s.subs # <<>> /\ ~Unknown(s.subs) => v \in Aggregates(s.subs, out)
           /\ s.strategy \notin {"unknown", "composite"} => v = out[1]
<1>1. CASE s.strategy = "unknown"
  BY <1>1 DEF Returns
<1>2. CASE s.strategy = "composite"
  BY <1>2 DEF Returns
<1>3. CASE s.strategy \notin {"unknown", "composite"}
  BY <1>3 DEF Returns
<1> QED
  BY <1>1, <1>2, <1>3

\* A scorer returns a score or raises, a composite included.
LEMMA ReturnsWithin ==
    ASSUME NEW s, Parsed(s),
           s.strategy = "composite" =>
              /\ IsFiniteSet(DOMAIN s.subs)
              /\ \A j \in DOMAIN s.subs : Parsed(s.subs[j]) /\ s.subs[j].weight >= 0,
           NEW out \in Outcomes(s), NEW v \in Returns(s, out)
    PROVE  v \in Score \cup {Raised}
<1>1. CASE s.strategy = "unknown"
  BY <1>1, ReturnsCases
<1>2. CASE s.strategy = "composite"
  <2>1. CASE s.subs = <<>>
    <3>1. v = 0
      BY <1>2, <2>1, ReturnsCases
    <3> QED
      BY <3>1, ScoresAssumption DEF Score
  <2>2. CASE s.subs # <<>> /\ Unknown(s.subs)
    BY <1>2, <2>2, ReturnsCases
  <2>3. CASE s.subs # <<>> /\ ~Unknown(s.subs)
    <3>1. v \in Aggregates(s.subs, out)
      BY <1>2, <2>3, ReturnsCases
    <3>2. ASSUME NEW j \in DOMAIN s.subs
          PROVE  out[j] \in Score \cup {Raised}
      <4>1. out[j] \in Gives(s.subs[j]) \cup {Raised}
        BY <1>2, CompositeOutcomes
      <4>2. Parsed(s.subs[j])
        BY <1>2
      <4> QED
        BY <4>1, <4>2, GivesWithin
    <3>3. Listed(s.subs) /\ \A j \in DOMAIN s.subs : s.subs[j].weight >= 0
      BY <1>2 DEF Listed, Parsed
    <3> QED
      BY <3>1, <3>2, <3>3, AggregateWithin
  <2> QED
    BY <2>1, <2>2, <2>3
<1>3. CASE s.strategy \notin {"unknown", "composite"}
  <2>1. v = out[1] /\ out[1] \in Gives(s) \cup {Raised}
    BY <1>3, ReturnsCases, LeafOutcomes
  <2> QED
    BY <2>1, GivesWithin
<1> QED
  BY <1>1, <1>2, <1>3

Kept(res) ==
    CHOOSE kept : kept = [n \in 0..Len(res) |->
        IF n = 0 THEN <<>>
        ELSE IF res[n] = Raised THEN kept[n - 1] ELSE Append(kept[n - 1], res[n])]

\* The list Succeeded builds, result by result
LEMMA KeptIs ==
    ASSUME NEW res, NEW m \in Nat, Len(res) = m
    PROVE  /\ Succeeded(res) = Kept(res)[m]
           /\ Kept(res)[0] = <<>>
           /\ \A n \in 1..m : Kept(res)[n] = IF res[n] = Raised THEN Kept(res)[n - 1]
                                             ELSE Append(Kept(res)[n - 1], res[n])
<1> DEFINE More(a, n) == IF res[n] = Raised THEN a ELSE Append(a, res[n])
           Step(h, n) == IF n = 0 THEN <<>> ELSE More(h[n - 1], n)
           Upto(h, k) == \A n \in 0..m : n <= k => h[n] = Step(h, n)
           Q == {k \in Nat : \E h : h = [n \in 0..m |-> h[n]] /\ Upto(h, k)}
<1>1. 0 \in Q
  <2> DEFINE h == [n \in 0..m |-> <<>>]
  <2>1. h = [n \in 0..m |-> h[n]] /\ Upto(h, 0)
    OBVIOUS
  <2> QED
    BY <2>1
<1>2. ASSUME NEW k \in Nat, k \in Q
      PROVE  k + 1 \in Q
  <2>1. PICK g : g = [n \in 0..m |-> g[n]] /\ Upto(g, k)
    BY <1>2
  <2> DEFINE h == [n \in 0..m |-> Step(g, n)]
  <2> HIDE DEF More
  <2>2. ASSUME NEW n \in 0..m, n <= k
        PROVE  h[n] = g[n]
    BY <2>1, <2>2
  <2>3. ASSUME NEW n \in 0..m, n <= k + 1
        PROVE  h[n] = Step(h, n)
    <3>1. CASE n = 0
      BY <3>1
    <3>2. CASE n # 0
      <4>1. n - 1 \in 0..m /\ n - 1 <= k
        BY <2>3, <3>2
      <4>2. h[n - 1] = g[n - 1]
        BY <2>2, <4>1
      <4>3. h[n] = More(g[n - 1], n)
        BY <3>2
      <4> HIDE DEF h
      <4> QED
        BY <3>2, <4>2, <4>3
    <3> QED
      BY <3>1, <3>2
  <2>4. h = [n \in 0..m |-> h[n]]
    OBVIOUS
  <2> HIDE DEF h, Step
  <2> QED
    BY <2>3, <2>4
<1>3. m \in Q
  <2> HIDE DEF Q
  <2> QED
    BY <1>1, <1>2, Induction
<1>4. \E h : h = [n \in 0..m |-> Step(h, n)]
  <2>1. PICK h : h = [n \in 0..m |-> h[n]] /\ \A n \in 0..m : n <= m => h[n] = Step(h, n)
    BY <1>3
  <2> HIDE DEF Step
  <2>2. h = [n \in 0..m |-> Step(h, n)]
    BY <2>1
  <2> QED
    BY <2>2
<1>5. Kept(res) = CHOOSE h : h = [n \in 0..m |-> Step(h, n)]
  BY Zenon DEF Kept
<1>6. Kept(res) = [n \in 0..m |-> Step(Kept(res), n)]
  <2> HIDE DEF Step
  <2> QED
    BY <1>4, <1>5
<1>7. Succeeded(res) = Kept(res)[m]
  BY Zenon DEF Succeeded, Kept
<1>8. Kept(res)[0] = <<>>
  BY <1>6
<1>9. \A n \in 1..m : n \in 0..m /\ n # 0
  OBVIOUS
<1> QED
  BY <1>6, <1>7, <1>8, <1>9

\* The scores that are left are scores.
LEMMA SucceededAre ==
    ASSUME NEW V, NEW res, Len(res) \in Nat, \A i \in 1..Len(res) : res[i] \in V \cup {Raised}
    PROVE  Succeeded(res) \in Seq(V)
<1> DEFINE m == Len(res)
           Q == {k \in Nat : k <= m => Kept(res)[k] \in Seq(V)}
<1>1. 0 \in Q
  <2>1. Kept(res)[0] = <<>>
    <3>1. Len(res) = m
      OBVIOUS
    <3> HIDE DEF m, Q
    <3> QED
      BY <3>1, KeptIs
  <2>2. <<>> \in Seq(V)
    OBVIOUS
  <2> QED
    BY <2>1, <2>2
<1>2. ASSUME NEW k \in Nat, k \in Q
      PROVE  k + 1 \in Q
  <2> SUFFICES ASSUME k + 1 <= m
               PROVE  Kept(res)[k + 1] \in Seq(V)
    OBVIOUS
  <2>1. k + 1 \in 1..m /\ (k + 1) - 1 = k
    OBVIOUS
  <2>2. Kept(res)[k] \in Seq(V)
    BY <1>2
  <2>3. Kept(res)[k + 1] = IF res[k + 1] = Raised THEN Kept(res)[k] ELSE Append(Kept(res)[k], res[k + 1])
    BY <2>1, KeptIs
  <2>4. CASE res[k + 1] = Raised
    BY <2>2, <2>3, <2>4
  <2>5. CASE res[k + 1] # Raised
    <3>1. PICK l \in Seq(V), v \in V : l = Kept(res)[k] /\ v = res[k + 1]
      BY <2>1, <2>2, <2>5
    <3>2. Append(l, v) \in Seq(V)
      BY AppendProperties
    <3> QED
      BY <2>3, <2>5, <3>1, <3>2
  <2> QED
    BY <2>4, <2>5
<1>3. m \in Q
  <2> HIDE DEF Q
  <2> QED
    BY <1>1, <1>2, Induction
<1> QED
  BY <1>3, KeptIs

\* All a pipeline returns are scores.
LEMMA ResultsWithin ==
    ASSUME NEW scorers \in Configs, NonNegative(scorers),
           NEW outs \in AllOutcomes(scorers), NEW result \in Results(scorers, outs)
    PROVE  result.individual \in Seq(Score) /\ result.aggregate \in Score
<1>1. Usable(scorers) /\ Len(scorers) \in Nat /\ DOMAIN scorers = 1..Len(scorers)
  BY ConfigsUsable
<1>2. PICK res : /\ DOMAIN res = DOMAIN scorers
                 /\ \A i \in DOMAIN scorers : res[i] \in Returns(scorers[i], outs[i])
                 /\ result.individual = Succeeded(res)
                 /\ result.aggregate \in Aggregates(scorers, res)
  BY ChosenResults
<1>3. ASSUME NEW i \in DOMAIN scorers
      PROVE  res[i] \in Score \cup {Raised}
  <2>1. outs[i] \in Outcomes(scorers[i]) /\ res[i] \in Returns(scorers[i], outs[i])
    BY <1>2, ChosenOutcomes
  <2>2. /\ Parsed(scorers[i])
        /\ scorers[i].strategy = "composite" =>
              /\ IsFiniteSet(DOMAIN scorers[i].subs)
              /\ \A j \in DOMAIN scorers[i].subs :
                    Parsed(scorers[i].subs[j]) /\ scorers[i].subs[j].weight >= 0
    BY <1>1 DEF Usable, NonNegative
  <2> QED
    BY <2>1, <2>2, ReturnsWithin
<1>4. Listed(scorers) /\ \A i \in DOMAIN scorers : scorers[i].weight >= 0
  BY <1>1 DEF Usable, Listed, Parsed, NonNegative
<1>5. result.aggregate \in Score
  BY <1>2, <1>3, <1>4, AggregateWithin
<1>6. Len(res) = Len(scorers)
  BY <1>1, <1>2
<1> QED
  BY <1>1, <1>2, <1>3, <1>5, <1>6, SucceededAre

-----------------------------------------------------------------------------
(* The second invariant: what a call has computed, and what is stored of it,   *)
(* is a result of the pipeline as it is stored.                                *)

Computed(scorers, outs, result) == outs \in AllOutcomes(scorers) /\ result \in Results(scorers, outs)

Stored(r) == Computed(pipelines[r.pipeline].scorers, r.outs, r.result)
InMemory(c) == Computed(pipelines[asked[c].pipeline].scorers, run[c].outs, run[c].result)

Computation ==
    /\ \A r \in rows : Stored(r)
    /\ \A c \in Calls : pc[c] = "commit" => InMemory(c)

\* A pipeline that is there stays as it is.
LEMMA PipelinesStay ==
    ASSUME IInv, [Next]_vars, NEW p \in DOMAIN pipelines
    PROVE  pipelines'[p] = pipelines[p]
<1>1. CASE pipelines' = pipelines
  BY <1>1
<1>2. ASSUME NEW c \in Calls, NEW name \in Names, NEW scorers \in Configs, CreatePipeline(c, name, scorers)
      PROVE  pipelines'[p] = pipelines[p]
  <2>1. c \notin DOMAIN pipelines
    BY <1>2 DEF IInv, CreatePipeline, Registered
  <2> QED
    BY <1>2, <2>1 DEF CreatePipeline
<1> QED
  BY <1>1, <1>2 DEF Next, vars, LoadPipeline, RefreshPipeline, RunPipeline, Fail, CommitScore,
     CommitFails, SubmitScore, SubmitFails, Deliver, Crash

\* A call other than the one that runs its pipeline: its memory stays, and it is about to
\* commit only if it was.
Keeps(c) == pc'[c] = "commit" => pc[c] = "commit" /\ run'[c] = run[c] /\ asked'[c] = asked[c]

\* Steps that neither run a pipeline nor store a row keep the second invariant.
LEMMA ComputationStays ==
    ASSUME IInv, [Next]_vars, Computation, rows' = rows, \A c \in Calls : Keeps(c)
    PROVE  Computation'
<1>1. ASSUME NEW r \in rows'
      PROVE  Stored(r)'
  <2>1. r \in rows /\ pipelines'[r.pipeline] = pipelines[r.pipeline]
    BY PipelinesStay DEF IInv, TypeOK
  <2> QED
    BY <2>1 DEF Computation, Stored
<1>2. ASSUME NEW c \in Calls, pc'[c] = "commit"
      PROVE  InMemory(c)'
  <2>1. pc[c] = "commit" /\ run'[c] = run[c] /\ asked'[c] = asked[c]
    BY <1>2 DEF Keeps
  <2>2. pipelines'[asked[c].pipeline] = pipelines[asked[c].pipeline]
    BY <2>1, PipelinesStay DEF IInv, TypeOK
  <2> QED
    BY <2>1, <2>2 DEF Computation, InMemory
<1> QED
  BY <1>1, <1>2 DEF Computation

\* What a run leaves in memory is a result of the stored pipeline.
LEMMA RunComputes ==
    ASSUME IInv, Computation, NEW c \in Calls, RunPipeline(c)
    PROVE  Computation'
<1>1. /\ pc' = [pc EXCEPT ![c] = "commit"] /\ pipelines' = pipelines /\ rows' = rows /\ asked' = asked
  BY DEF RunPipeline, Goto
<1>2. PICK outs, result :
         /\ Computed(pipelines[asked[c].pipeline].scorers, outs, result)
         /\ run' = [run EXCEPT ![c] = [outs |-> outs, result |-> result]]
  BY DEF RunPipeline, Computed
<1>3. run = [d \in Calls |-> run[d]]
  BY DEF IInv, Functional
<1>4. run'[c].outs = outs /\ run'[c].result = result
  BY <1>2, <1>3
<1>5. ASSUME NEW d \in Calls, pc'[d] = "commit"
      PROVE  InMemory(d)'
  <2>1. CASE d = c
    BY <1>1, <1>2, <1>4, <2>1 DEF InMemory
  <2>2. CASE d # c
    <3>1. pc[d] = "commit" /\ run'[d] = run[d]
      BY <1>1, <1>2, <1>3, <1>5, <2>2 DEF IInv, TypeOK
    <3> QED
      BY <1>1, <3>1 DEF Computation, InMemory
  <2> QED
    BY <2>1, <2>2
<1>6. \A r \in rows' : Stored(r)'
  BY <1>1 DEF Computation, Stored
<1> QED
  BY <1>5, <1>6 DEF Computation

\* The row that is stored, or is lost, is the one in memory.
LEMMA CommitComputed ==
    ASSUME IInv, Computation, NEW c \in Calls, CommitScore(c) \/ CommitFails(c)
    PROVE  Computation'
<1>1. /\ pc[c] = "commit" /\ pipelines' = pipelines /\ run' = run /\ asked' = asked
      /\ rows' \in {rows, rows \cup {Row(c)}}
      /\ pc' \in {[pc EXCEPT ![c] = "submit"], [pc EXCEPT ![c] = "over"]}
  BY DEF CommitScore, CommitFails, Goto, Answer
<1>2. Stored(Row(c))
  BY <1>1 DEF Computation, Row, Stored, InMemory
<1>3. \A d \in Calls : pc'[d] = "commit" => pc[d] = "commit"
  BY <1>1 DEF IInv, TypeOK
<1>4. \A r \in rows' : Stored(r)
  BY <1>1, <1>2 DEF Computation
<1>5. \A r \in rows' : Stored(r)'
  BY <1>1, <1>4 DEF Stored
<1>6. \A d \in Calls : pc'[d] = "commit" => InMemory(d)'
  BY <1>1, <1>3 DEF Computation, InMemory
<1> QED
  BY <1>5, <1>6 DEF Computation

\* The other actions neither store nor compute.
LEMMA OthersKeep ==
    ASSUME IInv, NEW c \in Calls,
           \/ \E name \in Names, scorers \in Configs : CreatePipeline(c, name, scorers)
           \/ \E p \in Calls : LoadPipeline(c, p)
           \/ RefreshPipeline(c) \/ Fail(c) \/ SubmitScore(c) \/ SubmitFails(c) \/ Deliver(c) \/ Crash(c)
    PROVE  rows' = rows /\ \A d \in Calls : Keeps(d)
<1>1. /\ rows' = rows /\ run' = run
      /\ \/ pc' = pc \/ \E l \in {"refresh", "run", "submit", "over"} : pc' = [pc EXCEPT ![c] = l]
  BY DEF CreatePipeline, LoadPipeline, RefreshPipeline, Fail, SubmitScore, SubmitFails,
     Deliver, Crash, Goto, Answer
<1>2. pc[c] # "commit"
  BY DEF IInv, Recorded, Handed, Buffered, CreatePipeline, LoadPipeline, RefreshPipeline, Fail,
     SubmitScore, SubmitFails, Deliver, Crash
<1>3. \A d \in Calls : d # c => asked'[d] = asked[d]
  BY DEF IInv, Functional, CreatePipeline, LoadPipeline, RefreshPipeline, Fail, SubmitScore,
     SubmitFails, Deliver, Crash
<1>4. ASSUME NEW d \in Calls, pc'[d] = "commit"
      PROVE  d # c /\ pc[d] = "commit"
  BY <1>1, <1>2, <1>4 DEF IInv, TypeOK
<1> QED
  BY <1>1, <1>3, <1>4 DEF Keeps

\* Whatever is stored was computed from the pipeline it names, as it is stored now.
THEOREM ComputedAsStored == Spec => []Computation
<1>1. Init => Computation
  BY DEF Init, Computation
<1>2. IInv /\ Computation /\ [Next]_vars => Computation'
  <2> SUFFICES ASSUME IInv, Computation, [Next]_vars
               PROVE  Computation'
    OBVIOUS
  <2>1. CASE UNCHANGED vars
    <3>1. rows' = rows /\ \A c \in Calls : Keeps(c)
      BY <2>1 DEF vars, Keeps
    <3> QED
      BY <3>1, ComputationStays
  <2>2. CASE Next
    <3>1. PICK c \in Calls :
             \/ \/ \E name \in Names, scorers \in Configs : CreatePipeline(c, name, scorers)
                \/ \E p \in Calls : LoadPipeline(c, p)
                \/ RefreshPipeline(c) \/ Fail(c) \/ SubmitScore(c) \/ SubmitFails(c) \/ Deliver(c) \/ Crash(c)
             \/ RunPipeline(c)
             \/ CommitScore(c) \/ CommitFails(c)
      BY <2>2 DEF Next
    <3>2. CASE \/ \E name \in Names, scorers \in Configs : CreatePipeline(c, name, scorers)
               \/ \E p \in Calls : LoadPipeline(c, p)
               \/ RefreshPipeline(c) \/ Fail(c) \/ SubmitScore(c) \/ SubmitFails(c) \/ Deliver(c) \/ Crash(c)
      BY <3>2, OthersKeep, ComputationStays
    <3> QED
      BY <3>1, <3>2, RunComputes, CommitComputed
  <2> QED
    BY <2>1, <2>2
<1> QED
  BY <1>1, <1>2, Invariance, PTL DEF Spec

\* So what is stored are scores.
LEMMA StoredWithin ==
    ASSUME IInv, Computation
    PROVE  ScoresInRange
<1> SUFFICES ASSUME NEW r \in rows, NonNegative(pipelines[r.pipeline].scorers)
             PROVE  Range(Append(r.result.individual, r.result.aggregate)) \subseteq 0..One
  BY DEF ScoresInRange
<1>1. pipelines[r.pipeline].scorers \in Configs
  BY DEF IInv, TypeOK, Pipeline
<1>2. r.result.individual \in Seq(Score) /\ r.result.aggregate \in Score
  BY <1>1, ResultsWithin DEF Computation, Stored, Computed
<1>3. PICK l \in Seq(Score) : l = Append(r.result.individual, r.result.aggregate)
  BY <1>2, AppendProperties
<1>4. \A i \in DOMAIN l : l[i] \in Score
  OBVIOUS
<1>5. Range(l) \subseteq Score
  BY <1>4 DEF Range
<1> QED
  BY <1>3, <1>5 DEF Score

\* Whatever a judge says, and whichever scorers raise: a stored score or aggregate of a
\* pipeline without negative weights is between 0.0 and 1.0.
THEOREM ScoresAreInRange == Spec => []ScoresInRange
BY Invariance, ComputedAsStored, StoredWithin, PTL

-----------------------------------------------------------------------------
(* Products. For what is asked of them the order of the factors is no matter.  *)
Positive == Nat \ {0}

\* The products of f over the subsets of S, as FoldFunction defines them.
Products(f, S) == CHOOSE h : h = [s \in SUBSET S |-> IF s = {} THEN 1
                   ELSE f[CHOOSE x \in s : TRUE] * h[s \ {CHOOSE x \in s : TRUE}]]

\* Each is a factor and the product of the others.
LEMMA ProductsExist ==
    ASSUME NEW S, IsFiniteSet(S), NEW f \in [S -> Positive]
    PROVE  /\ Products(f, S)[{}] = 1
           /\ \A s \in SUBSET S : s # {} => \E x \in s : Products(f, S)[s] = f[x] * Products(f, S)[s \ {x}]
<1> DEFINE c == [s \in SUBSET S |-> CHOOSE x \in s : TRUE]
           G == [s \in SUBSET S |-> [v \in Positive |-> IF s = {} THEN 1 ELSE f[c[s]] * v]]
           Eq(h) == h = [s \in SUBSET S |-> IF s = {} THEN 1
                            ELSE f[CHOOSE x \in s : TRUE] * h[s \ {CHOOSE x \in s : TRUE}]]
<1>1. \A s \in SUBSET S : s # {} => c[s] \in s
  OBVIOUS
<1>2. G \in [SUBSET S -> [Positive -> Positive]]
  <2>1. \A s \in SUBSET S : s # {} => f[c[s]] \in Positive
    BY <1>1
  <2>2. \A a, b \in Positive : a * b \in Positive
    BY DEF Positive
  <2>3. 1 \in Positive
    BY DEF Positive
  <2> HIDE DEF c
  <2> QED
    BY <2>1, <2>2, <2>3
<1> HIDE DEF c, G
<1>3. 1 \in Positive
  BY DEF Positive
<1>4. Foldable(S, Positive, 1, c, G)
  BY <1>1, <1>2, <1>3 DEF Foldable
<1>5. PICK h \in [SUBSET S -> Positive] : IsFold(h, S, 1, c, G)
  BY <1>4, FoldExists
<1>6. Eq(h)
  <2>1. ASSUME NEW s \in SUBSET S, s # {}
        PROVE  h[s] = f[CHOOSE x \in s : TRUE] * h[s \ {CHOOSE x \in s : TRUE}]
    <3>1. c[s] = CHOOSE x \in s : TRUE
      BY DEF c
    <3>2. c[s] \in s /\ h[s \ {c[s]}] \in Positive /\ h[s] = G[s][h[s \ {c[s]}]]
      BY <1>1, <1>5, <2>1 DEF IsFold
    <3>3. h[s] = f[c[s]] * h[s \ {c[s]}]
      BY <2>1, <3>2 DEF G
    <3> QED
      BY <3>1, <3>3
  <2>2. h[{}] = 1
    BY <1>5 DEF IsFold
  <2> QED
    BY <1>5, <2>1, <2>2
<1>7. Products(f, S) = CHOOSE g : Eq(g)
  BY DEF Products
<1>8. Eq(Products(f, S))
  <2> HIDE DEF Eq
  <2> QED
    BY <1>6, <1>7
<1> DEFINE k == Products(f, S)
<1>9. \A s \in SUBSET S : k[s] = IF s = {} THEN 1
                            ELSE f[CHOOSE x \in s : TRUE] * k[s \ {CHOOSE x \in s : TRUE}]
  BY <1>8
<1> HIDE DEF k
<1>10. k[{}] = 1
  BY <1>9
<1>11. ASSUME NEW s \in SUBSET S, s # {}
       PROVE  \E x \in s : k[s] = f[x] * k[s \ {x}]
  BY <1>9, <1>11
<1> QED
  BY <1>10, <1>11 DEF k

\* p is a positive multiple of the members f[i] for i in s.
Multiple(p, f, s) == p \in Positive /\ \A i \in s : \E q \in Positive : p = f[i] * q

\* One more factor
LEMMA MultipleOfMore ==
    ASSUME NEW f, NEW s, NEW x \in s, f[x] \in Positive, NEW p, Multiple(p, f, s \ {x}),
           \A i \in s : f[i] \in Positive
    PROVE  Multiple(f[x] * p, f, s)
<1>1. PICK u \in Positive : u = f[x]
  OBVIOUS
<1>2. p \in Positive
  BY DEF Multiple
<1>3. \A a, b \in Positive : a * b \in Positive
  BY DEF Positive
<1>4. ASSUME NEW i \in s
      PROVE  \E q \in Positive : u * p = f[i] * q
  <2>1. CASE i = x
    BY <1>1, <1>2, <2>1
  <2>2. CASE i # x
    <3>1. PICK q \in Positive : p = f[i] * q
      BY <2>2 DEF Multiple
    <3>2. PICK v \in Positive : v = f[i]
      OBVIOUS
    <3>3. u * (v * q) = v * (u * q)
      BY DEF Positive
    <3> QED
      BY <1>3, <3>1, <3>2, <3>3
  <2> QED
    BY <2>1, <2>2
<1> QED
  BY <1>1, <1>2, <1>3, <1>4 DEF Multiple

\* The product of positive numbers is a multiple of each.
LEMMA ProductIsMultiple ==
    ASSUME NEW S, IsFiniteSet(S), NEW f \in [S -> Positive]
    PROVE  Multiple(FoldFunction(LAMBDA x, y : x * y, 1, f), f, S)
<1> DEFINE k == Products(f, S)
           E == {s \in SUBSET S : Multiple(k[s], f, s)}
<1>1. /\ k[{}] = 1
      /\ \A s \in SUBSET S : s # {} => \E x \in s : k[s] = f[x] * k[s \ {x}]
  BY ProductsExist
<1>2. DOMAIN f = S
  OBVIOUS
<1>3. FoldFunction(LAMBDA x, y : x * y, 1, f) = k[S]
  BY <1>2 DEF FoldFunction, FoldFunctionOnSet, MapThenFoldSet, Products
<1> HIDE DEF k
<1>4. ASSUME NEW s \in SUBSET S, \A x \in s : s \ {x} \in E
      PROVE  s \in E
  <2>1. CASE s = {}
    BY <1>1, <2>1 DEF Multiple, Positive
  <2>2. CASE s # {}
    <3>1. PICK x \in s : k[s] = f[x] * k[s \ {x}]
      BY <1>1, <2>2
    <3>2. Multiple(k[s \ {x}], f, s \ {x})
      BY <1>4
    <3>3. \A i \in s : f[i] \in Positive
      OBVIOUS
    <3>4. Multiple(f[x] * k[s \ {x}], f, s)
      BY <3>2, <3>3, MultipleOfMore
    <3> QED
      BY <3>1, <3>4
  <2> QED
    BY <2>1, <2>2
<1>5. \A s \in SUBSET S : s \in E
  <2> HIDE DEF E
  <2> QED
    BY <1>4, SetInduction
<1>6. S \in E
  BY <1>5
<1> QED
  BY <1>3, <1>6

\* The quotient of a multiple is the other factor.
LEMMA ExactQuotient ==
    ASSUME NEW a \in Positive, NEW b \in Positive, NEW q \in Positive
    PROVE  (a * (b * q)) \div (a * b) = q
<1>1. PICK d \in Positive : d = a * b
  BY DEF Positive
<1>2. a * (b * q) = d * q
  BY <1>1 DEF Positive
<1>3. PICK n \in Nat, m \in Int : n = d * q /\ m = (d * q) \div d
  BY DEF Positive
<1>4. d * m <= n /\ n < d * m + d
  BY <1>3, DivBounds DEF Positive
<1>5. CASE m <= q - 1
  <2>1. d * m <= d * (q - 1)
    BY <1>3, <1>5, Monotone DEF Positive
  <2>2. d * (q - 1) = n - d
    BY <1>3 DEF Positive
  <2>3. d * m + d <= n
    BY <1>3, <2>1, <2>2 DEF Positive
  <2> QED
    BY <1>3, <1>4, <2>3 DEF Positive
<1>6. CASE m >= q + 1
  <2>1. d * (q + 1) <= d * m
    BY <1>3, <1>6, Monotone DEF Positive
  <2>2. d * (q + 1) = n + d
    BY <1>3 DEF Positive
  <2> QED
    BY <1>1, <1>3, <1>4, <2>1, <2>2 DEF Positive
<1>7. m = q
  BY <1>3, <1>5, <1>6 DEF Positive
<1> QED
  BY <1>1, <1>2, <1>3, <1>7

-----------------------------------------------------------------------------
(* Sums over pairs.                                                            *)

\* Sums over disjoint sets add up.
LEMMA SumOfBoth ==
    ASSUME NEW f, NEW A, NEW B, Summable(f, A), Summable(f, B), A \cap B = {}
    PROVE  Summable(f, A \cup B) /\ Sum(f, A \cup B) = Sum(f, A) + Sum(f, B)
<1> DEFINE E == {T \in SUBSET A : Sum(f, T \cup B) = Sum(f, T) + Sum(f, B)}
<1>1. \A T \in SUBSET A : Summable(f, T) /\ Summable(f, T \cup B)
  BY FS_Subset, FS_Union DEF Summable
<1>2. ASSUME NEW T \in SUBSET A, \A x \in T : T \ {x} \in E
      PROVE  T \in E
  <2>1. CASE T = {}
    <3>1. T \cup B = B /\ Sum(f, T) = 0
      BY <2>1, SumOfNone
    <3>2. PICK b \in Int : b = Sum(f, B)
      BY SumOfMore
    <3>3. Sum(f, T \cup B) = b
      BY <3>1, <3>2, Zenon
    <3>4. b = 0 + b
      OBVIOUS
    <3> QED
      BY <3>1, <3>2, <3>3, <3>4, Zenon
  <2>2. CASE T # {}
    <3>1. PICK x \in T : T \ {x} \in E
      BY <1>2, <2>2
    <3>2. (T \cup B) \ {x} = (T \ {x}) \cup B /\ x \in T \cup B
      OBVIOUS
    <3>3. PICK a \in Int, b \in Int, v \in Int : a = Sum(f, T \ {x}) /\ b = Sum(f, B) /\ v = f[x]
      <4>1. Sum(f, T \ {x}) \in Int
        BY <1>1, SumOfMore
      <4>2. Sum(f, B) \in Int
        BY SumOfMore
      <4>3. f[x] \in Int
        BY DEF Summable
      <4> QED
        BY <4>1, <4>2, <4>3
    <3>4. Sum(f, T) = v + a
      <4>1. Summable(f, T)
        BY <1>1
      <4>2. Sum(f, T) = f[x] + Sum(f, T \ {x})
        BY <4>1, SumOfMore
      <4> QED
        BY <3>3, <4>2
    <3>5. Sum(f, T \cup B) = v + Sum(f, (T \ {x}) \cup B)
      <4>1. Sum(f, T \cup B) = f[x] + Sum(f, (T \cup B) \ {x})
        <5>1. Summable(f, T \cup B) /\ x \in T \cup B
          BY <1>1, <3>2
        <5> HIDE DEF E
        <5> QED
          BY <5>1, SumOfMore
      <4> QED
        BY <3>2, <3>3, <4>1, Zenon
    <3>6. Sum(f, (T \ {x}) \cup B) = a + b
      BY <3>1, <3>3
    <3>7. v + (a + b) = (v + a) + b
      OBVIOUS
    <3> QED
      BY <3>3, <3>4, <3>5, <3>6, <3>7
  <2> QED
    BY <2>1, <2>2
<1>3. \A T \in SUBSET A : T \in E
  <2>1. IsFiniteSet(A)
    BY DEF Summable
  <2> HIDE DEF E
  <2> QED
    BY <1>2, <2>1, SetInduction
<1>4. A \in E
  BY <1>3
<1> QED
  BY <1>1, <1>4

PairsOf(x, U) == {<<x, j>> : j \in U}

\* A sum over pairs with the same first member, of terms k times those of g.
LEMMA SumOfRow ==
    ASSUME NEW x, NEW U, NEW g, Summable(g, U), NEW k \in Int, NEW f,
           \A j \in U : f[<<x, j>>] = k * g[j]
    PROVE  Summable(f, PairsOf(x, U)) /\ Sum(f, PairsOf(x, U)) = k * Sum(g, U)
<1> DEFINE E == {T \in SUBSET U : IsFiniteSet(PairsOf(x, T)) /\ Sum(f, PairsOf(x, T)) = k * Sum(g, T)}
<1>1. \A T \in SUBSET U : Summable(g, T)
  BY FS_Subset DEF Summable
<1>2. ASSUME NEW T \in SUBSET U, \A y \in T : T \ {y} \in E
      PROVE  T \in E
  <2>1. CASE T = {}
    <3>1. PairsOf(x, T) = {}
      BY <2>1 DEF PairsOf
    <3>2. Sum(f, PairsOf(x, T)) = 0 /\ Sum(g, T) = 0 /\ IsFiniteSet(PairsOf(x, T))
      BY <2>1, <3>1, SumOfNone, FS_EmptySet
    <3> QED
      BY <3>2
  <2>2. CASE T # {}
    <3>1. PICK y \in T : T \ {y} \in E
      BY <1>2, <2>2
    <3>2. PairsOf(x, T) = PairsOf(x, T \ {y}) \cup {<<x, y>>} /\ <<x, y>> \notin PairsOf(x, T \ {y})
      BY DEF PairsOf
    <3>3. IsFiniteSet(PairsOf(x, T))
      <4>1. IsFiniteSet(PairsOf(x, T \ {y}))
        BY <3>1
      <4>2. IsFiniteSet(PairsOf(x, T \ {y}) \cup {<<x, y>>})
        BY <4>1, FS_AddElement
      <4> QED
        BY <3>2, <4>2, Zenon
    <3>4. PICK u \in Int, a \in Int : u = g[y] /\ a = Sum(g, T \ {y})
      <4>1. Sum(g, T \ {y}) \in Int
        BY <1>1, SumOfMore
      <4>2. g[y] \in Int
        BY DEF Summable
      <4> QED
        BY <4>1, <4>2
    <3>5. Sum(g, T) = u + a
      BY <1>1, <3>4, SumOfMore
    <3>6. \A j \in U : f[<<x, j>>] \in Int
      BY DEF Summable
    <3>7. Summable(f, PairsOf(x, T))
      BY <3>3, <3>6 DEF Summable, PairsOf
    <3>8. PairsOf(x, T) \ {<<x, y>>} = PairsOf(x, T \ {y}) /\ <<x, y>> \in PairsOf(x, T)
      BY <3>2
    <3>9. Sum(f, PairsOf(x, T)) = f[<<x, y>>] + Sum(f, PairsOf(x, T \ {y}))
      <4>1. Sum(f, PairsOf(x, T)) = f[<<x, y>>] + Sum(f, PairsOf(x, T) \ {<<x, y>>})
        BY <3>7, <3>8, SumOfMore
      <4> QED
        BY <3>8, <4>1, Zenon
    <3>10. f[<<x, y>>] = k * u /\ Sum(f, PairsOf(x, T \ {y})) = k * a
      BY <3>1, <3>4
    <3>11. k * u + k * a = k * (u + a)
      OBVIOUS
    <3> QED
      BY <3>3, <3>5, <3>9, <3>10, <3>11
  <2> QED
    BY <2>1, <2>2
<1>3. \A T \in SUBSET U : T \in E
  <2>1. IsFiniteSet(U)
    BY DEF Summable
  <2> HIDE DEF E
  <2> QED
    BY <1>2, <2>1, SetInduction
<1>4. U \in E
  BY <1>3
<1>5. \A j \in U : f[<<x, j>>] \in Int
  BY DEF Summable
<1> QED
  BY <1>4, <1>5 DEF Summable, PairsOf

-----------------------------------------------------------------------------
(* The aggregate of aggregates and the flat weighted mean.                     *)

\* The product of the weights within the composites
Parts(scorers) == FoldFunction(LAMBDA x, y : x * y, 1, [i \in DOMAIN scorers |-> Shares(scorers[i])])

\* The terms of the flat mean, and those of one scorer
Flat(scorers, outs) == [l \in FlatLeaves(scorers, outs) |->
    LET s == scorers[l[1]]
        w == IF s.strategy = "composite" THEN s.weight * s.subs[l[2]].weight ELSE s.weight
    IN  w * outs[l[1]][l[2]] * (FlatDen(scorers) \div (TotalWeight(scorers) * Shares(s)))]
LeavesOf(scorers, outs, x) == {l \in FlatLeaves(scorers, outs) : l[1] = x}

\* The numerator is the sum of the terms.
LEMMA FlatSum ==
    ASSUME NEW scorers, NEW outs
    PROVE  FlatNum(scorers, outs) = Sum(Flat(scorers, outs), FlatLeaves(scorers, outs))
<1>1. Flat(scorers, outs) = [l \in FlatLeaves(scorers, outs) |-> Flat(scorers, outs)[l]]
  BY DEF Flat
<1>2. FlatNum(scorers, outs) = SumFunction(Flat(scorers, outs))
  BY Zenon DEF FlatNum, Flat
<1> QED
  BY <1>1, <1>2, Zenon DEF Sum

\* What the pipeline computed of a pipeline that has a flat mean
Evaluated(scorers, outs, res) ==
    /\ Usable(scorers) /\ Weighable(scorers) /\ outs \in AllOutcomes(scorers)
    /\ \A i \in DOMAIN scorers : res[i] \in Returns(scorers[i], outs[i])

\* What a scorer divides by is positive.
LEMMA SharesPositive ==
    ASSUME NEW scorers, Usable(scorers), Weighable(scorers), NEW i \in DOMAIN scorers
    PROVE  Shares(scorers[i]) \in Positive
<1>1. CASE scorers[i].strategy = "composite" /\ scorers[i].subs # <<>>
  <2>1. TotalWeight(scorers[i].subs) > 0
    BY <1>1 DEF Weighable
  <2>2. Listed(scorers[i].subs)
    BY <1>1 DEF Usable, Listed, Parsed
  <2>3. TotalWeight(scorers[i].subs) \in Int
    BY <2>2, WeightsSum
  <2> QED
    BY <1>1, <2>1, <2>3 DEF Shares, Positive
<1>2. CASE ~ (scorers[i].strategy = "composite" /\ scorers[i].subs # <<>>)
  BY <1>2 DEF Shares, Positive
<1> QED
  BY <1>1, <1>2

\* The denominator has the part of every scorer as a factor.
LEMMA PartsFactor ==
    ASSUME NEW scorers, Usable(scorers), Weighable(scorers)
    PROVE  /\ Parts(scorers) \in Positive /\ TotalWeight(scorers) \in Positive
           /\ FlatDen(scorers) = TotalWeight(scorers) * Parts(scorers)
           /\ \A i \in DOMAIN scorers : \E q \in Positive :
                 /\ Parts(scorers) = Shares(scorers[i]) * q
                 /\ FlatDen(scorers) \div (TotalWeight(scorers) * Shares(scorers[i])) = q
<1> DEFINE f == [i \in DOMAIN scorers |-> Shares(scorers[i])]
<1>1. f \in [DOMAIN scorers -> Positive] /\ IsFiniteSet(DOMAIN scorers)
  BY SharesPositive DEF Usable
<1>2. Parts(scorers) = FoldFunction(LAMBDA x, y : x * y, 1, f)
  BY Zenon DEF Parts
<1>3. \A i \in DOMAIN scorers : f[i] = Shares(scorers[i])
  OBVIOUS
<1> HIDE DEF f
<1>4. Multiple(Parts(scorers), f, DOMAIN scorers)
  BY <1>1, <1>2, ProductIsMultiple
<1>5. TotalWeight(scorers) \in Positive
  <2>1. Listed(scorers)
    BY DEF Usable, Listed, Parsed
  <2>2. TotalWeight(scorers) \in Int
    BY <2>1, WeightsSum
  <2> QED
    BY <2>2 DEF Weighable, Positive
<1>6. FlatDen(scorers) = TotalWeight(scorers) * Parts(scorers)
  BY Zenon DEF FlatDen, Parts
<1>7. ASSUME NEW i \in DOMAIN scorers
      PROVE  \E q \in Positive :
                 /\ Parts(scorers) = Shares(scorers[i]) * q
                 /\ FlatDen(scorers) \div (TotalWeight(scorers) * Shares(scorers[i])) = q
  <2>1. PICK q \in Positive : Parts(scorers) = Shares(scorers[i]) * q
    BY <1>3, <1>4 DEF Multiple
  <2>2. PICK w \in Positive, b \in Positive : w = TotalWeight(scorers) /\ b = Shares(scorers[i])
    BY <1>5, SharesPositive
  <2>3. (w * (b * q)) \div (w * b) = q
    BY ExactQuotient
  <2>4. FlatDen(scorers) \div (TotalWeight(scorers) * Shares(scorers[i])) = q
    BY <1>6, <2>1, <2>2, <2>3, Zenon
  <2> QED
    BY <2>1, <2>4
<1>8. Parts(scorers) \in Positive
  BY <1>4 DEF Multiple
<1> QED
  BY <1>5, <1>6, <1>7, <1>8

\* The leaves of a scorer
Counting(scorers, outs, x) ==
    {j \in DOMAIN outs[x] : /\ outs[x][j] # Raised
                            /\ scorers[x].strategy = "composite" => ~Unknown(scorers[x].subs)}

\* The leaves of a scorer are its leaves that count, paired with its place.
LEMMA LeavesAre ==
    ASSUME NEW scorers, NEW outs, NEW x \in DOMAIN scorers
    PROVE  /\ LeavesOf(scorers, outs, x) = PairsOf(x, Counting(scorers, outs, x))
           /\ \A j \in Counting(scorers, outs, x) : <<x, j>> \in FlatLeaves(scorers, outs)
<1>1. \A l : l \in FlatLeaves(scorers, outs) <=>
         \E i \in DOMAIN scorers : \E j \in Counting(scorers, outs, i) : l = <<i, j>>
  BY DEF FlatLeaves, Counting
<1>2. \A j \in Counting(scorers, outs, x) : <<x, j>> \in FlatLeaves(scorers, outs)
  BY <1>1
<1>3. ASSUME NEW l \in LeavesOf(scorers, outs, x)
      PROVE  l \in PairsOf(x, Counting(scorers, outs, x))
  <2>1. PICK i \in DOMAIN scorers : \E j \in Counting(scorers, outs, i) : l = <<i, j>> /\ l[1] = x
    BY <1>1 DEF LeavesOf
  <2>2. i = x
    BY <2>1
  <2> QED
    BY <2>1, <2>2 DEF PairsOf
<1>4. ASSUME NEW l \in PairsOf(x, Counting(scorers, outs, x))
      PROVE  l \in LeavesOf(scorers, outs, x)
  BY <1>2 DEF PairsOf, LeavesOf
<1> QED
  BY <1>2, <1>3, <1>4

\* The value of a term
LEMMA FlatTerm ==
    ASSUME NEW scorers, NEW outs, NEW x, NEW j, <<x, j>> \in FlatLeaves(scorers, outs),
           NEW q, FlatDen(scorers) \div (TotalWeight(scorers) * Shares(scorers[x])) = q
    PROVE  Flat(scorers, outs)[<<x, j>>] =
              (IF scorers[x].strategy = "composite" THEN scorers[x].weight * scorers[x].subs[j].weight
               ELSE scorers[x].weight) * outs[x][j] * q
<1>1. <<x, j>>[1] = x /\ <<x, j>>[2] = j
  OBVIOUS
<1> QED
  BY <1>1 DEF Flat

\* What a scorer adds to the sum the aggregate is rounded from
Term(scorers, res, x) == IF res[x] = Raised THEN 0 ELSE scorers[x].weight * res[x]

Within(n, m) == n \in Int /\ m \in Int /\ n \in (-m)..m

\* The term of a scorer, in parts, is within half a unit of its leaves.
Close(scorers, outs, res, x) ==
    /\ Summable(Flat(scorers, outs), LeavesOf(scorers, outs, x))
    /\ res[x] \in Int \cup {Raised}
    /\ Within(2 * (Parts(scorers) * Term(scorers, res, x) - Sum(Flat(scorers, outs), LeavesOf(scorers, outs, x))),
              Parts(scorers) * scorers[x].weight)

\* What is not rounded is close.
LEMMA ExactIsClose ==
    ASSUME NEW p \in Positive, NEW w \in Nat, NEW t \in Int
    PROVE  Within(2 * (p * t - p * t), p * w)
<1>1. p * w \in Nat /\ p * t \in Int
  BY DEF Positive
<1>2. PICK a \in Nat, b \in Int : a = p * w /\ b = p * t
  BY <1>1
<1>3. 2 * (b - b) = 0 /\ 0 \in (-a)..a
  OBVIOUS
<1> QED
  BY <1>2, <1>3 DEF Within

\* A rounding error of half a unit of d is one of w * (d * q) when it counts w * q times.
LEMMA RoundedIsClose ==
    ASSUME NEW d \in Positive, NEW q \in Positive, NEW w \in Nat, NEW n \in Int, NEW a \in Rounded(n, d)
    PROVE  Within(2 * ((d * q) * (w * a) - (w * q) * n), (d * q) * w)
<1>1. a \in Int /\ 2 * (n - a * d) \in (-d)..d
  BY RoundedBounds DEF Positive
<1>2. PICK k \in Nat : k = w * q
  BY DEF Positive
<1>3. PICK e \in Int : e = 2 * (n - a * d) /\ -d <= e /\ e <= d
  BY <1>1 DEF Positive
<1>4. k * e <= k * d /\ k * (-d) <= k * e
  BY <1>2, <1>3, Monotone DEF Positive
<1>5. k * (-d) = -(k * d)
  BY DEF Positive
<1>6. (d * q) * w = k * d
  BY <1>2 DEF Positive
<1>7. 2 * ((d * q) * (w * a) - (w * q) * n) = -(k * e)
  <2>1. (d * q) * (w * a) = k * (a * d)
    BY <1>1, <1>2 DEF Positive
  <2>2. PICK z \in Int : z = a * d
    BY <1>1 DEF Positive
  <2>3. 2 * (k * z - k * n) = -(k * (2 * (n - z)))
    OBVIOUS
  <2> QED
    BY <1>2, <1>3, <2>1, <2>2, <2>3
<1>8. PICK u \in Int, v \in Int : u = k * e /\ v = k * d
  BY <1>2, <1>3 DEF Positive
<1>9. v \in Int /\ -u \in Int /\ -u \in (-v)..v
  BY <1>4, <1>5, <1>8
<1> QED
  BY <1>6, <1>7, <1>8, <1>9 DEF Within

\* What a leaf gave is a number or an exception.
LEMMA AnswersAreInt ==
    ASSUME NEW s, Parsed(s), NEW v \in Gives(s) \cup {Raised}
    PROVE  v \in Int \cup {Raised}
<1>1. v \in Score \cup {Raised}
  BY GivesWithin
<1> QED
  BY <1>1, ScoresAssumption DEF Score

\* A scorer without leaves that count and without a term
LEMMA NoneIsClose ==
    ASSUME NEW scorers, NEW outs, NEW res, Evaluated(scorers, outs, res), NEW x \in DOMAIN scorers,
           Counting(scorers, outs, x) = {}, res[x] \in {0, Raised}
    PROVE  Close(scorers, outs, res, x)
<1>1. LeavesOf(scorers, outs, x) = {}
  BY LeavesAre DEF PairsOf
<1>2. Sum(Flat(scorers, outs), LeavesOf(scorers, outs, x)) = 0
  BY <1>1, SumOfNone
<1>3. PICK w \in Nat : w = scorers[x].weight
  BY DEF Evaluated, Usable, Weighable, NonNegative, Parsed
<1>4. Term(scorers, res, x) = 0
  BY <1>3 DEF Term
<1>5. PICK p \in Positive : p = Parts(scorers)
  BY PartsFactor DEF Evaluated
<1>6. p * 0 = 0 /\ 0 \in Int
  BY DEF Positive
<1>7. Within(2 * (p * 0 - p * 0), p * w)
  BY <1>6, ExactIsClose
<1>8. Within(2 * (p * 0 - 0), p * w)
  BY <1>6, <1>7
<1>9. Within(2 * (Parts(scorers) * Term(scorers, res, x) - Sum(Flat(scorers, outs), LeavesOf(scorers, outs, x))),
              Parts(scorers) * scorers[x].weight)
  BY <1>2, <1>3, <1>4, <1>5, <1>8
<1>10. Summable(Flat(scorers, outs), LeavesOf(scorers, outs, x))
  BY <1>1, FS_EmptySet DEF Summable
<1> QED
  BY <1>9, <1>10 DEF Close

\* A scorer that is no composite: its term, in parts
LEMMA LeafIsClose ==
    ASSUME NEW scorers, NEW outs, NEW res, Evaluated(scorers, outs, res), NEW x \in DOMAIN scorers,
           scorers[x].strategy # "composite"
    PROVE  Close(scorers, outs, res, x)
<1> DEFINE out == outs[x]
           U == Counting(scorers, outs, x)
<1>1. /\ outs[x] \in Outcomes(scorers[x]) /\ Parsed(scorers[x])
      /\ res[x] \in Returns(scorers[x], outs[x])
  BY ChosenOutcomes DEF Evaluated, Usable
<1>2. DOMAIN outs[x] = {1} /\ outs[x][1] \in Gives(scorers[x]) \cup {Raised}
  BY <1>1, LeafOutcomes
<1>3. res[x] = outs[x][1]
  <2>1. CASE scorers[x].strategy = "unknown"
    <3>1. res[x] = Raised /\ Gives(scorers[x]) = {}
      BY <1>1, <2>1, ReturnsCases DEF Gives
    <3> QED
      BY <1>2, <3>1
  <2>2. CASE scorers[x].strategy # "unknown"
    BY <1>1, <2>2, ReturnsCases
  <2> QED
    BY <2>1, <2>2
<1>4. CASE outs[x][1] = Raised
  <2>1. Counting(scorers, outs, x) = {}
    BY <1>2, <1>4 DEF Counting
  <2> QED
    BY <1>3, <1>4, <2>1, NoneIsClose
<1>5. CASE outs[x][1] # Raised
  <2>1. Counting(scorers, outs, x) = {1}
    BY <1>2, <1>5 DEF Counting
  <2>2. PICK v \in Int : v = outs[x][1]
    BY <1>1, <1>2, <1>5, AnswersAreInt
  <2>3. PICK w \in Nat : w = scorers[x].weight
    BY DEF Evaluated, Usable, Weighable, NonNegative, Parsed
  <2>4. PICK q \in Positive :
           /\ Parts(scorers) = Shares(scorers[x]) * q
           /\ FlatDen(scorers) \div (TotalWeight(scorers) * Shares(scorers[x])) = q
    BY PartsFactor DEF Evaluated
  <2>5. Parts(scorers) = q
    BY <2>4 DEF Shares, Positive
  <2>6. <<x, 1>> \in FlatLeaves(scorers, outs) /\ LeavesOf(scorers, outs, x) = {<<x, 1>>}
    BY <2>1, LeavesAre DEF PairsOf
  <2>7. Flat(scorers, outs)[<<x, 1>>] = w * v * q
    BY <2>2, <2>3, <2>4, <2>6, FlatTerm
  <2>8. q * (w * v) = w * v * q /\ w * v \in Int /\ w * v * q \in Int
    BY DEF Positive
  <2> DEFINE F == Flat(scorers, outs)
             L == LeavesOf(scorers, outs, x)
             l == <<x, 1>>
  <2>9. Summable(F, L)
    BY <2>6, <2>7, <2>8, FS_Singleton DEF Summable
  <2>10. Sum(F, L) = q * (w * v)
    <3>1. L = {l} /\ F[l] = q * (w * v) /\ F[l] \in Int
      BY <2>6, <2>7, <2>8
    <3>2. L \ {l} = {} /\ l \in L
      BY <3>1
    <3> HIDE DEF F, L, l
    <3>3. Sum(F, L) = F[l] + Sum(F, L \ {l})
      BY <2>9, <3>2, SumOfMore
    <3>4. Sum(F, L \ {l}) = 0
      BY <3>2, SumOfNone
    <3> QED
      BY <3>1, <3>3, <3>4
  <2>11. Term(scorers, res, x) = w * v
    BY <1>3, <1>5, <2>2, <2>3 DEF Term
  <2>12. Within(2 * (q * (w * v) - q * (w * v)), q * w)
    BY <2>8, ExactIsClose
  <2> HIDE DEF F, L, l
  <2>13. Within(2 * (Parts(scorers) * Term(scorers, res, x) - Sum(F, L)), Parts(scorers) * scorers[x].weight)
    BY <2>3, <2>5, <2>10, <2>11, <2>12, Zenon
  <2>14. res[x] \in Int
    BY <1>3, <2>2
  <2> QED
    BY <2>9, <2>13, <2>14 DEF Close, F, L
<1> QED
  BY <1>4, <1>5

\* A composite: its aggregate is rounded from its leaves.
LEMMA CompositeIsClose ==
    ASSUME NEW scorers, NEW outs, NEW res, Evaluated(scorers, outs, res), NEW x \in DOMAIN scorers,
           scorers[x].strategy = "composite"
    PROVE  Close(scorers, outs, res, x)
<1> DEFINE subs == scorers[x].subs
           out == outs[x]
<1>1. /\ outs[x] \in Outcomes(scorers[x])
      /\ res[x] \in Returns(scorers[x], outs[x])
      /\ Listed(subs) /\ \A j \in DOMAIN subs : Parsed(subs[j])
  BY ChosenOutcomes DEF Evaluated, Usable, Listed, Parsed
<1>2. DOMAIN out = DOMAIN subs /\ \A j \in DOMAIN subs : out[j] \in Gives(subs[j]) \cup {Raised}
  BY <1>1, CompositeOutcomes
<1>3. CASE subs = <<>>
  <2>1. Counting(scorers, outs, x) = {} /\ res[x] = 0
    BY <1>1, <1>2, <1>3, ReturnsCases DEF Counting
  <2> QED
    BY <2>1, NoneIsClose
<1>4. CASE subs # <<>> /\ Unknown(subs)
  <2>1. Counting(scorers, outs, x) = {} /\ res[x] = Raised
    BY <1>1, <1>4, ReturnsCases DEF Counting
  <2> QED
    BY <2>1, NoneIsClose
<1>5. CASE subs # <<>> /\ ~ Unknown(subs)
  <2>1. Counting(scorers, outs, x) = Answered(subs, out)
    BY <1>2, <1>5 DEF Counting, Answered
  <2>2. ASSUME NEW j \in DOMAIN subs
        PROVE  out[j] \in Int \cup {Raised}
    <3>1. Parsed(subs[j]) /\ out[j] \in Gives(subs[j]) \cup {Raised}
      BY <1>1, <1>2
    <3> QED
      BY <3>1, AnswersAreInt
  <2>3. res[x] \in Aggregates(subs, out)
    BY <1>1, <1>5, ReturnsCases
  <2>4. PICK q \in Positive :
           /\ Parts(scorers) = Shares(scorers[x]) * q
           /\ FlatDen(scorers) \div (TotalWeight(scorers) * Shares(scorers[x])) = q
    BY PartsFactor DEF Evaluated
  <2>5. PICK d \in Positive : d = TotalWeight(subs) /\ d = Shares(scorers[x])
    BY <1>5, SharesPositive DEF Evaluated, Shares
  <2>6. PICK w \in Nat : w = scorers[x].weight
    BY DEF Evaluated, Usable, Weighable, NonNegative, Parsed
  <2> DEFINE A == Answered(subs, out)
             T == Terms(subs, out)
             F == Flat(scorers, outs)
             L == LeavesOf(scorers, outs, x)
  <2>7. Summable(T, A) /\ res[x] \in Rounded(Sum(T, A), d)
    <3>1. TotalWeight(subs) > 0
      BY <2>5 DEF Positive
    <3> HIDE DEF subs, out
    <3> QED
      BY <1>1, <2>2, <2>3, <2>5, <3>1, AggregateIs
  <2>8. ASSUME NEW j \in A
        PROVE  F[<<x, j>>] = (w * q) * T[j]
    <3>1. <<x, j>> \in FlatLeaves(scorers, outs)
      BY <2>1, LeavesAre
    <3>2. F[<<x, j>>] = w * subs[j].weight * out[j] * q
      BY <1>1, <2>4, <2>6, <3>1, FlatTerm
    <3>3. j \in DOMAIN subs /\ out[j] \in Int
      BY <2>2 DEF Answered
    <3>4. PICK u \in Int, v \in Int : u = subs[j].weight /\ v = out[j]
      BY <1>1, <3>3 DEF Listed
    <3>5. T[j] = u * v
      BY <3>3, <3>4 DEF Terms
    <3>6. w * u * v * q = (w * q) * (u * v)
      BY DEF Positive
    <3> QED
      BY <3>2, <3>4, <3>5, <3>6
  <2>9. L = PairsOf(x, A)
    BY <2>1, LeavesAre
  <2>10. PICK n \in Int : n = Sum(T, A)
    BY <2>7, SumOfMore
  <2>11. w * q \in Int
    BY DEF Positive
  <2> HIDE DEF A, T, F, L
  <2>12. Summable(F, L) /\ Sum(F, L) = (w * q) * n
    BY <2>7, <2>8, <2>9, <2>10, <2>11, SumOfRow
  <2>13. res[x] \in Int
    BY <2>7, <2>10, RoundedBounds DEF Positive
  <2>14. Term(scorers, res, x) = w * res[x]
    BY <2>6, <2>13, ScoresAssumption DEF Term
  <2>15. Within(2 * ((d * q) * (w * res[x]) - (w * q) * n), (d * q) * w)
    BY <2>7, <2>10, RoundedIsClose
  <2>16. Parts(scorers) = d * q
    BY <2>4, <2>5
  <2>17. Within(2 * (Parts(scorers) * Term(scorers, res, x) - Sum(F, L)), Parts(scorers) * scorers[x].weight)
    BY <2>6, <2>12, <2>14, <2>15, <2>16, Zenon
  <2> QED
    BY <2>12, <2>13, <2>17 DEF Close, F, L
<1> QED
  BY <1>3, <1>4, <1>5

\* The leaves of some of the scorers
LeavesIn(scorers, outs, T) == {l \in FlatLeaves(scorers, outs) : l[1] \in T}

\* What the aggregate is rounded from, for the scorers of T, in parts, and their leaves
CloseIn(scorers, outs, res, T) ==
    /\ Summable(Flat(scorers, outs), LeavesIn(scorers, outs, T))
    /\ Within(2 * (Parts(scorers) * Sum(Terms(scorers, res), Answered(scorers, res) \cap T)
                   - Sum(Flat(scorers, outs), LeavesIn(scorers, outs, T))),
              Parts(scorers) * Sum(Weights(scorers), T))

\* Errors add up.
LEMMA WithinAdds ==
    ASSUME NEW p \in Positive, NEW a \in Int, NEW b \in Int, NEW f \in Int, NEW g \in Int,
           NEW w \in Int, NEW u \in Int,
           Within(2 * (p * a - f), p * w), Within(2 * (p * b - g), p * u)
    PROVE  Within(2 * (p * (b + a) - (f + g)), p * (u + w))
<1>1. PICK x \in Int, y \in Int, v \in Int, z \in Int : x = p * a /\ y = p * b /\ v = p * w /\ z = p * u
  BY DEF Positive
<1>2. p * (b + a) = y + x /\ p * (u + w) = z + v
  BY <1>1 DEF Positive
<1>3. /\ -v <= 2 * (x - f) /\ 2 * (x - f) <= v
      /\ -z <= 2 * (y - g) /\ 2 * (y - g) <= z
  BY <1>1 DEF Within
<1>4. 2 * ((y + x) - (f + g)) \in (-(z + v))..(z + v)
  BY <1>3
<1> QED
  BY <1>2, <1>4 DEF Within

\* No scorers: nothing on both sides
LEMMA NoneIn ==
    ASSUME NEW scorers, NEW outs, NEW res, Evaluated(scorers, outs, res)
    PROVE  CloseIn(scorers, outs, res, {})
<1>1. LeavesIn(scorers, outs, {}) = {} /\ Answered(scorers, res) \cap {} = {}
  BY DEF LeavesIn
<1>2. Sum(Flat(scorers, outs), LeavesIn(scorers, outs, {})) = 0
  BY <1>1, SumOfNone, Zenon
<1>3. Sum(Terms(scorers, res), Answered(scorers, res) \cap {}) = 0
  BY <1>1, SumOfNone, Zenon
<1>4. Sum(Weights(scorers), {}) = 0
  BY SumOfNone
<1>5. PICK p \in Positive : p = Parts(scorers)
  BY PartsFactor DEF Evaluated
<1>6. Within(2 * (p * 0 - 0), p * 0)
  BY DEF Within, Positive
<1>7. Summable(Flat(scorers, outs), LeavesIn(scorers, outs, {}))
  BY <1>1, FS_EmptySet DEF Summable
<1> QED
  BY <1>2, <1>3, <1>4, <1>5, <1>6, <1>7, Zenon DEF CloseIn

\* One more scorer, with an error of its own
LEMMA OneMoreIn ==
    ASSUME NEW scorers, NEW outs, NEW res, Evaluated(scorers, outs, res),
           \A x \in DOMAIN scorers : Close(scorers, outs, res, x),
           NEW T \in SUBSET DOMAIN scorers, NEW x \in T, CloseIn(scorers, outs, res, T \ {x})
    PROVE  CloseIn(scorers, outs, res, T)
<1> DEFINE F == Flat(scorers, outs)
           L == LeavesOf(scorers, outs, x)
           M == LeavesIn(scorers, outs, T \ {x})
           N == LeavesIn(scorers, outs, T)
           A == Answered(scorers, res) \cap T
           B == Answered(scorers, res) \cap (T \ {x})
           S == Terms(scorers, res)
           W == Weights(scorers)
           t == Term(scorers, res, x)
<1>1. N = M \cup L /\ M \cap L = {}
  BY DEF LeavesIn, LeavesOf
<1>2. Summable(F, M) /\ Summable(F, L)
  BY DEF CloseIn, Close
<1>3. PICK f \in Int, g \in Int : f = Sum(F, M) /\ g = Sum(F, L)
  BY <1>2, SumOfMore
<1>4. Summable(F, N) /\ Sum(F, N) = f + g
  <2>1. Summable(F, M \cup L) /\ Sum(F, M \cup L) = Sum(F, M) + Sum(F, L)
    <3> HIDE DEF F, L, M
    <3> QED
      BY <1>1, <1>2, SumOfBoth
  <2> HIDE DEF F, L, M, N
  <2> QED
    BY <1>1, <1>3, <2>1, Zenon
<1>5. Summable(W, T)
  <2>1. IsFiniteSet(T)
    BY FS_Subset DEF Evaluated, Usable
  <2>2. \A i \in T : W[i] \in Int
    BY DEF Evaluated, Usable, Parsed, Weights
  <2> QED
    BY <2>1, <2>2 DEF Summable
<1>6. PICK w \in Int, u \in Int : w = Sum(W, T \ {x}) /\ u = scorers[x].weight /\ Sum(W, T) = u + w
  <2>1. W[x] \in Int /\ W[x] = scorers[x].weight
    BY <1>5 DEF Summable, Weights
  <2> HIDE DEF W
  <2>2. Sum(W, T) = W[x] + Sum(W, T \ {x}) /\ Sum(W, T \ {x}) \in Int
    BY <1>5, SumOfMore
  <2> QED
    BY <2>1, <2>2
<1>7. \A i \in DOMAIN scorers : res[i] \in Int \cup {Raised}
  BY DEF Close
<1>8. Summable(S, A) /\ Summable(S, B)
  <2>1. IsFiniteSet(A) /\ IsFiniteSet(B)
    BY FS_Subset DEF Evaluated, Usable
  <2>2. ASSUME NEW i \in A
        PROVE  S[i] \in Int
    <3>1. i \in DOMAIN scorers /\ res[i] \in Int
      BY <1>7 DEF Answered
    <3>2. scorers[i].weight \in Int
      BY <3>1 DEF Evaluated, Usable, Parsed
    <3> QED
      BY <3>1, <3>2 DEF Terms
  <2>3. B \subseteq A
    OBVIOUS
  <2> QED
    BY <2>1, <2>2, <2>3 DEF Summable
<1>9. PICK a \in Int : a = Sum(S, B)
  BY <1>8, SumOfMore
<1>10. t \in Int /\ Sum(S, A) = t + a
  <2>1. CASE res[x] = Raised
    <3>1. A = B /\ t = 0
      BY <2>1 DEF Answered, Term
    <3>2. 0 + a = a /\ 0 \in Int
      OBVIOUS
    <3> HIDE DEF A, B, S, t
    <3> QED
      BY <1>9, <3>1, <3>2, Zenon
  <2>2. CASE res[x] # Raised
    <3>1. x \in A /\ A \ {x} = B /\ S[x] = t /\ S[x] \in Int
      BY <1>8, <2>2 DEF Answered, Term, Terms, Summable
    <3> HIDE DEF A, B, S, t
    <3>2. Sum(S, A) = S[x] + Sum(S, A \ {x})
      BY <1>8, <3>1, SumOfMore
    <3> QED
      BY <1>9, <3>1, <3>2, Zenon
  <2> QED
    BY <2>1, <2>2
<1>11. PICK p \in Positive : p = Parts(scorers)
  BY PartsFactor DEF Evaluated
<1>12. Within(2 * (p * t - g), p * u)
  <2>1. Within(2 * (Parts(scorers) * t - Sum(F, L)), Parts(scorers) * scorers[x].weight)
    BY DEF Close
  <2> QED
    BY <1>3, <1>6, <1>11, <2>1, Zenon
<1>13. Within(2 * (p * a - f), p * w)
  <2>1. Within(2 * (Parts(scorers) * Sum(S, B) - Sum(F, M)), Parts(scorers) * Sum(W, T \ {x}))
    BY DEF CloseIn
  <2> QED
    BY <1>3, <1>6, <1>9, <1>11, <2>1, Zenon
<1> HIDE DEF F, L, M, N, A, B, S, W, t
<1>14. Within(2 * (p * (t + a) - (f + g)), p * (u + w))
  BY <1>10, <1>12, <1>13, WithinAdds
<1>15. Within(2 * (Parts(scorers) * Sum(S, A) - Sum(F, N)), Parts(scorers) * Sum(W, T))
  BY <1>4, <1>6, <1>10, <1>11, <1>14, Zenon
<1> QED
  BY <1>4, <1>15 DEF CloseIn, F, N, A, S, W

\* All the scorers, from none, one at a time
LEMMA AllIn ==
    ASSUME NEW scorers, NEW outs, NEW res, Evaluated(scorers, outs, res)
    PROVE  CloseIn(scorers, outs, res, DOMAIN scorers)
<1> DEFINE D == DOMAIN scorers
           E == {T \in SUBSET D : CloseIn(scorers, outs, res, T)}
<1>1. \A x \in D : Close(scorers, outs, res, x)
  BY LeafIsClose, CompositeIsClose
<1>2. ASSUME NEW T \in SUBSET D, \A x \in T : T \ {x} \in E
      PROVE  T \in E
  <2>1. CASE T = {}
    BY <2>1, NoneIn
  <2>2. CASE T # {}
    <3>1. PICK x \in T : CloseIn(scorers, outs, res, T \ {x})
      BY <1>2, <2>2
    <3> QED
      BY <1>1, <3>1, OneMoreIn
  <2> QED
    BY <2>1, <2>2
<1>3. IsFiniteSet(D)
  BY DEF Evaluated, Usable
<1>4. \A T \in SUBSET D : T \in E
  <2> HIDE DEF D, E
  <2> QED
    BY <1>2, <1>3, SetInduction
<1>5. D \in E
  BY <1>4
<1> QED
  BY <1>5

\* Two roundings of half a unit, of the composites and of the aggregate, are one unit.
LEMMA AggregateIsClose ==
    ASSUME NEW scorers, NEW outs, NEW res, Evaluated(scorers, outs, res), NEW a \in Aggregates(scorers, res)
    PROVE  a * FlatDen(scorers) - FlatNum(scorers, outs) \in (-FlatDen(scorers))..FlatDen(scorers)
<1> DEFINE F == Flat(scorers, outs)
           N == FlatLeaves(scorers, outs)
           S == Terms(scorers, res)
           A == Answered(scorers, res)
           D == DOMAIN scorers
<1>1. CloseIn(scorers, outs, res, D)
  BY AllIn
<1>2. LeavesIn(scorers, outs, D) = N /\ A \cap D = A
  BY DEF LeavesIn, FlatLeaves, Answered
<1>3. Listed(scorers)
  BY DEF Evaluated, Usable, Listed, Parsed
<1>4. TotalWeight(scorers) = Sum(Weights(scorers), D)
  BY <1>3, WeightsSum
<1>5. PICK p \in Positive, w \in Positive :
         p = Parts(scorers) /\ w = TotalWeight(scorers) /\ FlatDen(scorers) = w * p
  BY PartsFactor DEF Evaluated
<1>6. \A i \in DOMAIN scorers : res[i] \in Int \cup {Raised}
  BY LeafIsClose, CompositeIsClose DEF Close
<1>7. Summable(S, A) /\ a \in Rounded(Sum(S, A), w)
  <2>1. TotalWeight(scorers) > 0
    BY <1>5 DEF Positive
  <2> QED
    BY <1>3, <1>5, <1>6, <2>1, AggregateIs
<1>8. PICK n \in Int : n = Sum(S, A)
  BY <1>7, SumOfMore
<1>9. FlatNum(scorers, outs) = Sum(F, N) /\ Summable(F, N)
  BY <1>1, <1>2, FlatSum DEF CloseIn
<1>10. PICK m \in Int : m = Sum(F, N)
  BY <1>9, SumOfMore
<1> HIDE DEF F, N, S, A, D
<1>11. Within(2 * (p * n - m), p * w)
  BY <1>1, <1>2, <1>4, <1>5, <1>8, <1>10, Zenon DEF CloseIn, F, S, A
<1>12. a \in Int /\ 2 * (n - a * w) \in (-w)..w
  BY <1>7, <1>8, RoundedBounds DEF Positive
<1>13. PICK z \in Int : z = a * w
  BY <1>12 DEF Positive
<1>14. p * (2 * (n - z)) <= p * w /\ p * (-w) <= p * (2 * (n - z))
  BY <1>12, <1>13, Monotone DEF Positive
<1>15. PICK x \in Int, y \in Int, v \in Int : x = p * n /\ y = p * z /\ v = p * w
  BY <1>13 DEF Positive
<1>16. p * (2 * (n - z)) = 2 * (x - y) /\ p * (-w) = -v
  BY <1>15 DEF Positive
<1>17. -v <= 2 * (x - y) /\ 2 * (x - y) <= v /\ -v <= 2 * (x - m) /\ 2 * (x - m) <= v
  BY <1>11, <1>14, <1>15, <1>16 DEF Within
<1>18. y - m \in (-v)..v
  BY <1>17
<1>19. a * FlatDen(scorers) = y /\ FlatDen(scorers) = v
  <2>1. w * p = p * w /\ a * (w * p) = p * (a * w)
    BY <1>12 DEF Positive
  <2> QED
    BY <1>5, <1>13, <1>15, <2>1
<1> QED
  BY <1>9, <1>10, <1>18, <1>19

\* So what is stored is close to the flat mean.
LEMMA StoredIsFlat ==
    ASSUME IInv, Computation
    PROVE  AggregateIsFlat
<1> SUFFICES ASSUME NEW r \in rows, Weighable(pipelines[r.pipeline].scorers)
             PROVE  r.result.aggregate * FlatDen(pipelines[r.pipeline].scorers)
                       - FlatNum(pipelines[r.pipeline].scorers, r.outs)
                    \in (-FlatDen(pipelines[r.pipeline].scorers))..FlatDen(pipelines[r.pipeline].scorers)
  BY DEF AggregateIsFlat
<1>1. PICK scorers \in Configs : scorers = pipelines[r.pipeline].scorers
  BY DEF IInv, TypeOK, Pipeline
<1>2. r.outs \in AllOutcomes(scorers) /\ r.result \in Results(scorers, r.outs)
  BY <1>1 DEF Computation, Stored, Computed
<1>3. PICK res : /\ \A i \in DOMAIN scorers : res[i] \in Returns(scorers[i], r.outs[i])
                 /\ r.result.aggregate \in Aggregates(scorers, res)
  BY <1>2, ChosenResults
<1>4. Evaluated(scorers, r.outs, res)
  BY <1>1, <1>2, <1>3, ConfigsUsable DEF Evaluated
<1> QED
  BY <1>1, <1>3, <1>4, AggregateIsClose

\* Nesting changes nothing: a stored aggregate is, within one unit of rounding, the
\* weighted mean over all the leaves of its pipeline, as it is stored.
THEOREM AggregatesAreFlat == Spec => []AggregateIsFlat
BY Invariance, ComputedAsStored, StoredIsFlat, PTL
=============================================================================
