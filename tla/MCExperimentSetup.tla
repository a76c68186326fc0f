------------------------- MODULE MCExperimentSetup -------------------------
(* The set-up of experiments on a small instance.                             *)
EXTENDS ExperimentSetup

Param(name, type, values, bounds, step) ==
    [name |-> name, type |-> type, values |-> values, bounds |-> bounds, step |-> step]

(* Nothing; two lists; a range with a step that meets the maximum, next to a   *)
(* list; a default step, next to a step that does not meet it; a range too     *)
(* narrow for the random decimal; a name used twice; a range that has no end,  *)
(* one that has no beginning, and one without bounds; a range upside down.     *)
MCSpaces == {
    <<>>,
    <<Param("a", "categorical", <<1, 2>>, <<>>, 0), Param("b", "discrete", <<3, 4, 5>>, <<>>, 0)>>,
    <<Param("a", "continuous", <<>>, <<2, 6>>, 2), Param("b", "categorical", <<1, 2>>, <<>>, 0)>>,
    <<Param("a", "continuous", <<>>, <<10, 20>>, 0), Param("b", "continuous", <<>>, <<1, 4>>, 2)>>,
    <<Param("a", "continuous", <<>>, <<11, 12>>, 0)>>,
    <<Param("a", "categorical", <<1, 2>>, <<>>, 0), Param("a", "discrete", <<3, 4>>, <<>>, 0)>>,
    <<Param("a", "continuous", <<>>, <<7, 7>>, 0)>>,
    <<Param("a", "continuous", <<1, 2>>, <<>>, 0), Param("b", "discrete", <<>>, <<0, 4>>, 1)>>,
    <<Param("a", "continuous", <<>>, <<9, 5>>, 1)>>}

MCGiven == {<<>>, << [x \in {"a"} |-> 0], [x \in {"a"} |-> 1], [x \in {"a"} |-> 2] >>}

Symmetric == Permutations(Calls)
=============================================================================
