----------------------------- MODULE MCScoring -----------------------------
(* The scoring API on a small instance.                                       *)
EXTENDS Scoring, TLC

(* Unequal weights; a composite of no rules and a judge next to an embedding;  *)
(* weights that cancel and an empty composite; a composite that names an       *)
(* unknown strategy; an unknown strategy at the top.                           *)
MCConfigs == {
    <<Rules(1, 2), Embedding(2)>>,
    <<Embedding(1), Composite(2, <<Rules(1, 0), JudgeBy(2)>>)>>,
    <<Rules(-1, 1), Embedding(1), Composite(0, <<>>)>>,
    <<Embedding(2), Composite(1, <<Stranger(1)>>)>>,
    <<Stranger(1)>>}

Said(object, score, number) == [object |-> object, score |-> score, number |-> number]

\* In the scale asked for and outside; not a number at all; and without a JSON object
\* that can be read, on a scale of 1, 10 and 100
MCAnswers == {
    Said("number", 3, 3), Said("number", 14, 14), Said("number", -4, 4),
    Said("nan", 0, -1), Said("null", 0, -1),
    Said("none", 0, 10), Said("none", 0, 80), Said("none", 0, 9000)}

Symmetric == Permutations(Calls) \cup Permutations(Names)
=============================================================================
