--------------------------- MODULE ParameterSpace ---------------------------
(* The variants of a parameter space (core/tuning/parameter_space.py).         *)
(* Numbers are whole multiples of the sixth decimal, to which the grid rounds. *)
(* A parameter is a record [name, type, values, bounds, step]: values is       *)
(* empty when there are none, bounds is <<min, max>> or <<>>, step is 0 when   *)
(* there is none, as in the code. An operator named Bad... is a faulty variant *)
(* of the definition after it, for the mutation runs only.                     *)
EXTENDS Integers, SequencesExt

CONSTANTS RandomUnit   \* the decimal random values are rounded to (the fourth)

Listed(p) == p.values # <<>> /\ p.type \in {"categorical", "discrete"}
Continuous(p) == p.type = "continuous" /\ p.bounds # <<>>

\* The step in fifths of a unit: without one, a fifth of the range.
Step5(p) == IF p.step # 0 THEN 5 * p.step ELSE p.bounds[2] - p.bounds[1]

\* while v <= max_value never ends, and the request neither.
Stuck(p) == Continuous(p) /\ p.bounds[1] <= p.bounds[2] /\ Step5(p) <= 0

\* The n-th value, with round(v, 6): half a unit cannot occur in fifths.
GridPoint(p, n) == (2 * (5 * p.bounds[1] + n * Step5(p)) + 5) \div 10

BadLasts(p) == {(5 * (p.bounds[2] - p.bounds[1])) \div Step5(p) + 1}

\* The number of the last value. The additions drift: a last value that should be
\* the maximum itself may come out above it, and is left out.
Lasts(p) ==
    LET width == 5 * (p.bounds[2] - p.bounds[1])
        last == width \div Step5(p)
    IN  IF width < 0 THEN {-1}
        ELSE IF width = last * Step5(p) /\ last > 0 THEN {last - 1, last}
        ELSE {last}

\* _expand_range: what it may return for a range that is not stuck
Expansions(p) ==
    CASE Listed(p) -> {p.values}
      [] Continuous(p) -> {[i \in 1..(last + 1) |-> GridPoint(p, i - 1)] : last \in Lasts(p)}
      [] OTHER -> {<<>>}

Named(space) == {space[i].name : i \in DOMAIN space}

\* dict(zip(param_names, combo)): of parameters with one name the last counts.
ValuesOf(space, combo) == [n \in Named(space) |->
    combo[CHOOSE i \in DOMAIN space :
        space[i].name = n /\ \A j \in DOMAIN space : space[j].name = n => j <= i]]

BadCombos(lists) ==
    IF lists = <<>> THEN <<>>
    ELSE [c \in 1..Min({Len(list) : list \in ToSet(lists)}) |-> [i \in DOMAIN lists |-> lists[i][c]]]

\* The combinations of one more list, which varies fastest
Extended(combos, list) == [x \in 1..(Len(combos) * Len(list)) |->
    Append(combos[(x - 1) \div Len(list) + 1], list[((x - 1) % Len(list)) + 1])]

\* itertools.product, list by list; no list gives one empty combination.
Combos(lists) ==
    LET first[n \in 0..Len(lists)] ==
            IF n = 0 THEN << <<>> >> ELSE Extended(first[n - 1], lists[n])
    IN  first[Len(lists)]

\* Sequences with one member of each set
OneOfEach(sets) == {f \in [DOMAIN sets -> UNION {sets[i] : i \in DOMAIN sets}] :
    \A i \in DOMAIN sets : f[i] \in sets[i]}

GridVariants(space) ==
    LET variants(lists) == [c \in DOMAIN Combos(lists) |-> ValuesOf(space, Combos(lists)[c])]
    IN  {variants(lists) : lists \in OneOfEach([i \in DOMAIN space |-> Expansions(space[i])])}

\* round(random.uniform(min, max), 4): any multiple of the unit within half a unit of
\* the range, which need not have one of its own.
Uniform(p) ==
    LET low == IF p.bounds[1] <= p.bounds[2] THEN p.bounds[1] ELSE p.bounds[2]
        high == IF p.bounds[1] <= p.bounds[2] THEN p.bounds[2] ELSE p.bounds[1]
    IN  {v \in (low - RandomUnit)..(high + RandomUnit) :
            v % RandomUnit = 0 /\ 2 * v \in (2 * low - RandomUnit)..(2 * high + RandomUnit)}

\* What one parameter may get in a random variant; nothing if it has neither values
\* nor a range.
RandomValues(p) == IF Continuous(p) THEN Uniform(p) ELSE ToSet(p.values)

RandomVariant(space) ==
    LET given == {i \in DOMAIN space : RandomValues(space[i]) # {}}
        choices == {f \in [given -> UNION {RandomValues(space[i]) : i \in given}] :
                       \A i \in given : f[i] \in RandomValues(space[i])}
    IN  {[n \in {space[i].name : i \in given} |->
            f[CHOOSE i \in given : space[i].name = n /\ \A j \in given : space[j].name = n => j <= i]] :
            f \in choices}

RandomVariants(space, count) == [1..count -> RandomVariant(space)]
=============================================================================
