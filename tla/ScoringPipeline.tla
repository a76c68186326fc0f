-------------------------- MODULE ScoringPipeline --------------------------
(* What a scoring pipeline computes (core/scoring/pipeline.py and the          *)
(* composite strategy, which nests one in another). One level of nesting is    *)
(* modelled; the strategies that do not nest are in Strategies, and any of     *)
(* them may also raise. BadAggregates is a faulty variant of Aggregates.       *)
EXTENDS Strategies, Sequences, Functions

Rules(w, rules) == [strategy |-> "rule_based", weight |-> w, rules |-> rules]
Embedding(w) == [strategy |-> "embedding", weight |-> w]
JudgeBy(w) == [strategy |-> "llm_judge", weight |-> w]
Stranger(w) == [strategy |-> "unknown", weight |-> w]
Composite(w, subs) == [strategy |-> "composite", weight |-> w, subs |-> subs]

Unknown(scorers) == \E i \in DOMAIN scorers : scorers[i].strategy = "unknown"
TotalWeight(scorers) == SumFunction([i \in DOMAIN scorers |-> scorers[i].weight])

BadAggregates(scorers, res) ==
    LET ok == {i \in DOMAIN scorers : res[i] # Raised}
        total == SumFunction([i \in ok |-> scorers[i].weight])
    IN  IF total <= 0 THEN {0}
        ELSE Rounded(SumFunction([i \in ok |-> scorers[i].weight * res[i]]), total)

(* The weighted sum of what the scorers returned, over the weight of all of    *)
(* them: those that raised count as nothing.                                   *)
Aggregates(scorers, res) ==
    LET ok == {i \in DOMAIN scorers : res[i] # Raised}
    IN  IF TotalWeight(scorers) <= 0 THEN {0}
        ELSE Rounded(SumFunction([i \in ok |-> scorers[i].weight * res[i]]), TotalWeight(scorers))

\* Choices of a member of S(i) for each i
Choices(I, S(_)) == {f \in [I -> UNION {S(i) : i \in I}] : \A i \in I : f[i] \in S(i)}

(* What the leaves of a scorer may do in one run, and what the scorer then     *)
(* returns. A composite never fails with its scorers; it raises if it names a  *)
(* strategy nobody registered.                                                 *)
Outcomes(s) ==
    IF s.strategy = "composite"
    THEN Choices(DOMAIN s.subs, LAMBDA j : Gives(s.subs[j]) \cup {Raised})
    ELSE [{1} -> Gives(s) \cup {Raised}]

Returns(s, out) ==
    CASE s.strategy = "unknown" -> {Raised}
      [] s.strategy = "composite" ->
            IF s.subs = <<>> THEN {0}
            ELSE IF Unknown(s.subs) THEN {Raised}
            ELSE Aggregates(s.subs, out)
      [] OTHER -> {out[1]}

AllOutcomes(scorers) == Choices(DOMAIN scorers, LAMBDA i : Outcomes(scorers[i]))

Succeeded(res) ==
    LET first[n \in 0..Len(res)] ==
            IF n = 0 THEN <<>>
            ELSE IF res[n] = Raised THEN first[n - 1] ELSE Append(first[n - 1], res[n])
    IN  first[Len(res)]

\* ScoringPipeline(scorers).run(): the scores of those that did not raise, in order,
\* and the aggregate.
Results(scorers, outs) ==
    UNION {{[individual |-> Succeeded(res), aggregate |-> a] : a \in Aggregates(scorers, res)} :
           res \in Choices(DOMAIN scorers, LAMBDA i : Returns(scorers[i], outs[i]))}

-----------------------------------------------------------------------------
(* The reference: a composite counts as its scorers, each with its part of the *)
(* composite's weight.                                                         *)
NonNegative(scorers) == \A i \in DOMAIN scorers :
    /\ scorers[i].weight >= 0
    /\ scorers[i].strategy = "composite" =>
          \A j \in DOMAIN scorers[i].subs : scorers[i].subs[j].weight >= 0

Weighable(scorers) ==
    /\ NonNegative(scorers) /\ TotalWeight(scorers) > 0
    /\ \A i \in DOMAIN scorers : scorers[i].strategy = "composite" =>
          scorers[i].subs = <<>> \/ TotalWeight(scorers[i].subs) > 0

\* The scorers that count, as <<position, position within the composite>>
FlatLeaves(scorers, outs) ==
    {l \in UNION {{i} \X DOMAIN outs[i] : i \in DOMAIN scorers} :
        /\ outs[l[1]][l[2]] # Raised
        /\ scorers[l[1]].strategy = "composite" => ~Unknown(scorers[l[1]].subs)}

\* Numerator and denominator of the flat weighted mean
Shares(s) == IF s.strategy = "composite" /\ s.subs # <<>> THEN TotalWeight(s.subs) ELSE 1

FlatDen(scorers) == TotalWeight(scorers) *
    FoldFunction(LAMBDA x, y : x * y, 1, [i \in DOMAIN scorers |-> Shares(scorers[i])])

FlatNum(scorers, outs) == SumFunction([l \in FlatLeaves(scorers, outs) |->
    LET s == scorers[l[1]]
        w == IF s.strategy = "composite" THEN s.weight * s.subs[l[2]].weight ELSE s.weight
    IN  w * outs[l[1]][l[2]] * (FlatDen(scorers) \div (TotalWeight(scorers) * Shares(s)))])
=============================================================================
