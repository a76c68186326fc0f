-------------------------- MODULE ExperimentSetup --------------------------
(* How an experiment divides its traffic: ExperimentRunner.create generates    *)
(* its variants unless they are given, and ABTestAllocator places a key in it  *)
(* by the hash of the key alone. Calls come in any order; an experiment is not *)
(* changed after it was created. An operator named Bad... is a faulty variant  *)
(* of the definition after it, for the mutation runs only.                     *)
EXTENDS ParameterSpace

CONSTANTS
    Calls,      \* create requests
    Spaces,     \* parameter spaces they ask for
    Given,      \* lists of variants they may give themselves, <<>> among them
    Shares,     \* traffic shares they ask for, in buckets
    Buckets,    \* granularity of the traffic share (10000)
    Short,      \* shares whose float product falls short of the whole number
    Count       \* variants of a random experiment (4)

ASSUME ConstantsAssumption ==
    /\ Buckets \in Nat \ {0} /\ RandomUnit \in Nat \ {0} /\ Count \in Nat
    /\ Shares \subseteq Int
    /\ Short \subseteq 1..(Buckets - 1)   \* int(100.0 * 100) is 10000

\* Requests as the API parses them: lists, and bounds that are two numbers if given
ASSUME RequestsAssumption ==
    /\ \A given \in Given : given \in Seq(ToSet(given))
    /\ \A space \in Spaces :
          /\ space \in Seq(ToSet(space))
          /\ \A i \in DOMAIN space :
                /\ space[i].values \in Seq(ToSet(space[i].values))
                /\ space[i].bounds \in {<<>>} \cup (Int \X Int)
                /\ space[i].step \in Int

VARIABLES
    experiments,   \* those created, by call
    hung           \* calls that will never be answered

vars == <<experiments, hung>>

Init == experiments = <<>> /\ hung = {}

\* Field(ge=0.0, le=100.0)
Accepted(share) == share \in 0..Buckets

\* What create stores for the variants of a request
VariantsFor(space, strategy, given) ==
    IF given # <<>> THEN {given}
    ELSE IF strategy = "grid" THEN GridVariants(space)
    ELSE RandomVariants(space, Count)

Create(c, space, strategy, given, share) ==
    /\ c \notin DOMAIN experiments \cup hung
    /\ Accepted(share)
    /\ IF given = <<>> /\ strategy = "grid" /\ \E i \in DOMAIN space : Stuck(space[i])
       THEN hung' = hung \cup {c} /\ UNCHANGED experiments
       ELSE /\ \E variants \in VariantsFor(space, strategy, given) :
                 experiments' = [d \in DOMAIN experiments \cup {c} |->
                     IF d = c THEN [space |-> space, strategy |-> strategy, given |-> given,
                                    share |-> share, variants |-> variants]
                     ELSE experiments[d]]
            /\ UNCHANGED hung

Next == \E c \in Calls, space \in Spaces, strategy \in {"ab_test", "grid", "random"},
           given \in Given, share \in Shares : Create(c, space, strategy, given, share)

Spec == Init /\ [][Next]_vars

-----------------------------------------------------------------------------
(* ABTestAllocator.allocate of a key with hash h in an experiment with n        *)
(* variants: the number of the variant, 0 for none.                             *)
Threshold(share) == IF share \in Short THEN share - 1 ELSE share

BadSpread(h, n, share) ==
    IF n = 0 \/ h % Buckets >= Threshold(share) THEN 0
    ELSE ((h % Buckets) * n) \div Threshold(share) + 1

BadBlocks(h, n, share) ==
    IF n = 0 \/ h % Buckets >= Threshold(share) THEN 0 ELSE ((h % Buckets) * n) \div Buckets + 1

Place(h, n, share) ==
    IF n = 0 \/ h % Buckets >= Threshold(share) THEN 0 ELSE (h % n) + 1

\* Over this many consecutive hashes each bucket meets each variant equally often
\* where they meet at all; a bucket is n of them.
Hashes(n) == 0..(Buckets * n - 1)
Placed(n, share, v) == Cardinality({h \in Hashes(n) : Place(h, n, share) = v})

-----------------------------------------------------------------------------
(* Properties.                                                               *)
Experiment == {experiments[c] : c \in DOMAIN experiments}
Generated == {e \in Experiment : e.given = <<>>}

\* Types; a request that hung has created nothing.
TypeOK ==
    /\ hung \subseteq Calls /\ DOMAIN experiments \subseteq Calls \ hung
    /\ \A c \in DOMAIN experiments : experiments[c].share \in 0..Buckets

\* What the declaration of a parameter admits, in units; random values may leave it by
\* half of the decimal they are rounded to (parameter_space.py:61)
Admits(p, slack, v) ==
    IF Continuous(p)
    THEN \E low, high \in ToSet(p.bounds) : 2 * v \in (2 * low - slack)..(2 * high + slack)
    ELSE v \in ToSet(p.values)

\* No generated variant sets a parameter to anything its declaration does not admit, or
\* a parameter nobody declared, whatever the strategy, the rounding and the drift
\* (parameter_space.py:11-71); a variant of a grid sets all of them.
VariantsFit == \A e \in Generated : \A k \in DOMAIN e.variants :
    LET values == e.variants[k]
        slack == IF e.strategy = "grid" THEN 0 ELSE RandomUnit
    IN  /\ DOMAIN values \subseteq Named(e.space)
        /\ \A n \in DOMAIN values : \E i \in DOMAIN e.space :
              e.space[i].name = n /\ Admits(e.space[i], slack, values[n])
        /\ e.strategy = "grid" => DOMAIN values = Named(e.space)

\* The values a grid must try for a parameter: those listed, or those a step apart
\* below the maximum, which is the only one it may miss
Reference(p) ==
    IF Listed(p) THEN ToSet(p.values)
    ELSE IF Continuous(p)
    THEN {v \in p.bounds[1]..p.bounds[2] : v < p.bounds[2] /\ \E n \in 0..(v - p.bounds[1]) :
            v = p.bounds[1] + n * (IF p.step # 0 THEN p.step ELSE (p.bounds[2] - p.bounds[1]) \div 5)}
    ELSE {}

\* Spaces about which the reference speaks: distinct names and values, steps of whole units
Plain(space) ==
    /\ IsInjective([i \in DOMAIN space |-> space[i].name])
    /\ \A i \in DOMAIN space :
          /\ IsInjective(space[i].values)
          /\ Continuous(space[i]) => space[i].step # 0 \/ Step5(space[i]) % 5 = 0

\* A grid tries each combination of the values it has to try in exactly one variant, and
\* no combination twice (generate_grid_variants); it has no variant only if one
\* parameter expands to nothing.
GridComplete == \A e \in Generated : e.strategy = "grid" /\ Plain(e.space) =>
    /\ IsInjective(e.variants)
    /\ \A f \in OneOfEach([i \in DOMAIN e.space |-> Reference(e.space[i])]) :
          ValuesOf(e.space, f) \in ToSet(e.variants)
    /\ e.variants = <<>> => \E i \in DOMAIN e.space : <<>> \in Expansions(e.space[i])

\* Traffic is divided as asked for, within one bucket: the hashes placed are those of the
\* share, less one bucket at most (ab_test.py:30), all of them at a full share; no
\* variant has more than one bucket more than another, so none is starved unless there
\* are fewer buckets than variants.
FairSplit == \A e \in Experiment :
    LET n == Len(e.variants)
        variants == 1..n
        placed == Cardinality({h \in Hashes(n) : Place(h, n, e.share) # 0})
    IN  n > 0 =>
        /\ placed \in {n * e.share, n * (e.share - 1)}
        /\ e.share = Buckets => placed = Buckets * n
        /\ \A v, w \in variants : Placed(n, e.share, v) - Placed(n, e.share, w) <= n
        /\ e.share > n => \A v \in variants : Placed(n, e.share, v) > 0

\* Of two experiments with equally many variants, the one with more traffic has all the
\* keys of the other, each on the variant of the same number (ab_test.py:26-36): a wider
\* rerun of an experiment moves nobody, and experiments are not independent.
TrafficNests == \A c, d \in DOMAIN experiments :
    LET n == Len(experiments[c].variants) IN
    /\ Len(experiments[d].variants) = n
    /\ experiments[c].share <= experiments[d].share
    => \A h \in Hashes(n) : Place(h, n, experiments[c].share) # 0 =>
          Place(h, n, experiments[d].share) = Place(h, n, experiments[c].share)
=============================================================================
