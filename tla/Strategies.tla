----------------------------- MODULE Strategies -----------------------------
(* The scores the strategies give (core/scoring/strategies), in whole numbers  *)
(* of the decimal the pipeline rounds to. Texts are left out: what matters of  *)
(* them is how many rules pass, how similar they are, and what the judge says. *)
(* BadJudge is a faulty variant of Judge, for the mutation runs only.          *)
EXTENDS Integers

CONSTANTS One,           \* the score 1.0 (10000)
          Answers,       \* what a judge may say
          Similarities,  \* the cosines of texts, rounded
          Raised         \* the exception of a scorer, in place of its score

ASSUME ScoresAssumption ==
    /\ One \in Nat \ {0} /\ Similarities \subseteq 0..One /\ Raised \notin Int
    /\ \A answer \in Answers :
          /\ answer.object \in {"number", "nan", "null", "plain", "none"}
          /\ answer.score \in Int /\ answer.number \in Int

\* round(num / den, 4): half a unit goes either way, as the float falls.
Rounded(num, den) == LET q == num \div den IN
    {n \in {q, q + 1} : 2 * (num - n * den) \in (-den)..den}

\* RuleBasedScorer: the share of the rules that pass; without rules a default pass.
RuleBased(rules) == IF rules = 0 THEN {One}
    ELSE UNION {Rounded(One * passed, rules) : passed \in 0..rules}

\* max(0.0, min(1.0, score))
Clamp(score) == IF score < 0 THEN 0 ELSE IF score > One THEN One ELSE score

(* An answer is a record: object says what a JSON object in the text holds as  *)
(* its score ("number", the text "nan", "null", or none: "plain"), or that     *)
(* there is none that can be read ("none"); score is that number; number is    *)
(* the first in the text, without its sign, or -1.                             *)
(* The fallback takes a number above 1 for one of 10, or of 100.               *)
Scaled(number) ==
    CASE number < 0 -> {One \div 2}
      [] number \in 0..One -> {number}
      [] number \in (One + 1)..(10 * One) -> Rounded(number, 10)
      [] OTHER -> {Clamp(n) : n \in Rounded(number, 100)}

BadJudge(answer) ==
    CASE answer.object = "number" -> {answer.score}
      [] answer.object = "nan" -> {One}
      [] answer.object = "null" -> {Raised}
      [] answer.object = "plain" -> {One \div 2}
      [] answer.object = "none" -> Scaled(answer.number)

\* _parse_judge_response: float(null) is a TypeError, which is not caught, and
\* min(1.0, nan) is 1.0.
Judge(answer) ==
    CASE answer.object = "number" -> {Clamp(answer.score)}
      [] answer.object = "nan" -> {One}
      [] answer.object = "null" -> {Raised}
      [] answer.object = "plain" -> {One \div 2}
      [] answer.object = "none" -> Scaled(answer.number)

\* What a scorer that is no composite may return
Gives(s) ==
    CASE s.strategy = "rule_based" -> RuleBased(s.rules)
      [] s.strategy = "embedding" -> Similarities \cup {0}
      [] s.strategy = "llm_judge" -> UNION {Judge(answer) : answer \in Answers}
      [] OTHER -> {}
=============================================================================
