----------------------- MODULE ExperimentSetupProofs -----------------------
(* What holds of the division of traffic for any granularity, any number of    *)
(* experiments and whatever variants they have, and of the variants that are   *)
(* generated for any parameter spaces.                                         *)
EXTENDS ExperimentSetup, FiniteSetTheorems, SequenceTheorems, TLAPS

USE ConstantsAssumption

-----------------------------------------------------------------------------
(* Steps.                                                                    *)

LEMMA Start == Init => TypeOK
BY DEF Init, TypeOK

\* A create either hangs or adds one experiment, whose share was accepted; those
\* that are there stay as they are.
LEMMA OneMore ==
    ASSUME NEW c \in Calls, NEW space, NEW strategy, NEW given, NEW share \in Shares,
           Create(c, space, strategy, given, share)
    PROVE  /\ c \notin DOMAIN experiments \cup hung
           /\ \/ hung' = hung \cup {c} /\ experiments' = experiments
              \/ /\ hung' = hung
                 /\ DOMAIN experiments' = DOMAIN experiments \cup {c}
                 /\ experiments'[c].share \in 0..Buckets
                 /\ \A d \in DOMAIN experiments : experiments'[d] = experiments[d]
<1>1. CASE hung' = hung \cup {c} /\ experiments' = experiments
      BY <1>1 DEF Create
<1>2. CASE UNCHANGED hung /\ \E variants \in VariantsFor(space, strategy, given) :
                 experiments' = [d \in DOMAIN experiments \cup {c} |->
                     IF d = c THEN [space |-> space, strategy |-> strategy, given |-> given,
                                    share |-> share, variants |-> variants]
                     ELSE experiments[d]]
  <2>1. PICK variants : experiments' = [d \in DOMAIN experiments \cup {c} |->
                     IF d = c THEN [space |-> space, strategy |-> strategy, given |-> given,
                                    share |-> share, variants |-> variants]
                     ELSE experiments[d]]
        BY <1>2
  <2>2. c \notin DOMAIN experiments \cup hung /\ share \in 0..Buckets
        BY DEF Create, Accepted
  <2>3. experiments'[c].share = share
        BY <2>1
  <2>4. DOMAIN experiments' = DOMAIN experiments \cup {c}
        BY <2>1
  <2>5. \A d \in DOMAIN experiments : experiments'[d] = experiments[d]
        BY <2>1, <2>2
  <2>6. QED BY <1>2, <2>2, <2>3, <2>4, <2>5
<1>3. QED BY <1>1, <1>2 DEF Create

LEMMA TypesKept == TypeOK /\ [Next]_vars => TypeOK'
<1> SUFFICES ASSUME TypeOK, [Next]_vars PROVE TypeOK'
    OBVIOUS
<1>1. CASE UNCHANGED vars
      BY <1>1 DEF vars, TypeOK
<1>2. CASE Next
  <2>1. PICK c \in Calls, space \in Spaces, strategy \in {"ab_test", "grid", "random"},
             given \in Given, share \in Shares : Create(c, space, strategy, given, share)
        BY <1>2 DEF Next
  <2>2. c \notin DOMAIN experiments \cup hung
        BY <2>1, OneMore
  <2>3. CASE hung' = hung \cup {c} /\ experiments' = experiments
        BY <2>2, <2>3 DEF TypeOK
  <2>4. CASE /\ hung' = hung
             /\ DOMAIN experiments' = DOMAIN experiments \cup {c}
             /\ experiments'[c].share \in 0..Buckets
             /\ \A d \in DOMAIN experiments : experiments'[d] = experiments[d]
        BY <2>2, <2>4 DEF TypeOK
  <2>5. QED BY <2>1, <2>3, <2>4, OneMore
<1>3. QED BY <1>1, <1>2 DEF Next

-----------------------------------------------------------------------------
(* The allocator.                                                            *)

\* A larger share never has a lower threshold, whatever the float product loses.
LEMMA ThresholdGrows ==
    ASSUME NEW s \in 0..Buckets, NEW t \in 0..Buckets, s <= t
    PROVE  Threshold(s) <= Threshold(t) /\ Threshold(s) \in Int /\ Threshold(t) \in Int
BY DEF Threshold

\* A key placed with a share is placed with a larger one, in the same place.
LEMMA PlaceStays ==
    ASSUME NEW n \in Nat, NEW h \in Hashes(n),
           NEW s \in 0..Buckets, NEW t \in 0..Buckets, s <= t, Place(h, n, s) # 0
    PROVE  Place(h, n, t) = Place(h, n, s)
<1>1. h % Buckets \in Int
      BY DEF Hashes
<1>2. n # 0 /\ h % Buckets < Threshold(s)
      BY <1>1, ThresholdGrows DEF Place
<1>3. h % Buckets < Threshold(t)
      BY <1>1, <1>2, ThresholdGrows
<1>4. QED BY <1>1, <1>2, <1>3, ThresholdGrows DEF Place

-----------------------------------------------------------------------------
(* Arithmetic.                                                               *)

LEMMA Monotone ==
    ASSUME NEW x \in Int, NEW y \in Int, NEW k \in Nat, x <= y
    PROVE  k * x <= k * y
OBVIOUS

LEMMA DivBounds ==
    ASSUME NEW x \in Int, NEW d \in Nat \ {0}
    PROVE  (x \div d) \in Int /\ d * (x \div d) <= x /\ x < d * (x \div d) + d
OBVIOUS

LEMMA DivMod ==
    ASSUME NEW x \in Nat, NEW d \in Nat \ {0}
    PROVE  /\ x \div d \in Nat /\ x % d \in 0..(d - 1)
           /\ x = d * (x \div d) + (x % d)
OBVIOUS

LEMMA DivModUnique ==
    ASSUME NEW d \in Nat \ {0}, NEW q \in Nat, NEW r \in 0..(d - 1)
    PROVE  (d * q + r) \div d = q /\ (d * q + r) % d = r
<1>1. PICK x \in Nat : x = d * q + r
  OBVIOUS
<1>2. PICK p \in Nat, s \in 0..(d - 1) : p = x \div d /\ s = x % d /\ x = d * p + s
  BY DivMod
<1>3. d * (p - q) = r - s
  BY <1>1, <1>2
<1>4. CASE p > q
  <2>1. d * (p - q) >= d
    BY <1>4
  <2> QED
    BY <1>3, <2>1
<1>5. CASE p < q
  <2>1. d * (p - q) <= -d
    BY <1>5
  <2> QED
    BY <1>3, <2>1
<1> QED
  BY <1>1, <1>2, <1>3, <1>4, <1>5

\* A set takes the place of a predicate.
LEMMA Induction ==
    ASSUME NEW Q, 0 \in Q, \A k \in Nat : k \in Q => k + 1 \in Q
    PROVE  Nat \subseteq Q
<1> DEFINE R == OpToRel(<, Nat)
<1>1. ASSUME Nat \ Q # {}
      PROVE  FALSE
  <2>1. PICK k \in Nat \ Q : \A j \in Nat \ Q : <<j, k>> \notin R
    BY <1>1, NatLessThanWellFounded, WFMin
  <2>2. k - 1 \in Nat /\ k - 1 < k
    <3>1. k \in Nat /\ k # 0
      OBVIOUS
    <3> QED
      BY <3>1
  <2>3. <<k - 1, k>> \in R
    BY <2>2 DEF OpToRel
  <2>4. k - 1 \in Q
    BY <2>1, <2>2, <2>3
  <2> QED
    BY <2>2, <2>4
<1> QED
  BY <1>1

-----------------------------------------------------------------------------
(* The division of the hashes: n variants, the first t buckets get traffic.   *)

\* Two multiples of n less than n apart are one.
LEMMA Close ==
    ASSUME NEW n \in Nat \ {0}, NEW j \in Int, NEW k \in Int, n * j - n * k \in (-(n - 1))..(n - 1)
    PROVE  j = k
<1>1. n * (j - k) \in (-(n - 1))..(n - 1)
  OBVIOUS
<1>2. PICK d \in Int : d = j - k
  OBVIOUS
<1>3. CASE d >= 1
  <2>1. n * d >= n
    BY <1>3
  <2> QED
    BY <1>1, <1>2, <2>1
<1>4. CASE d <= -1
  <2>1. n * d <= -n
    BY <1>4
  <2> QED
    BY <1>1, <1>2, <2>1
<1> QED
  BY <1>2, <1>3, <1>4

\* Of the hashes, those whose bucket gets traffic, and those on one variant.
InTraffic(n, t) == {h \in Hashes(n) : h % Buckets < t}
OnVariant(n, t, r) == {h \in InTraffic(n, t) : h % n = r}

LEMMA ThresholdRange ==
    ASSUME NEW share \in 0..Buckets
    PROVE  /\ Threshold(share) \in 0..Buckets
           /\ Threshold(share) \in {share, share - 1}
           /\ share = Buckets => Threshold(share) = Buckets
BY DEF Threshold

LEMMA PlaceIs ==
    ASSUME NEW n \in Nat \ {0}, NEW share \in 0..Buckets
    PROVE  /\ {h \in Hashes(n) : Place(h, n, share) # 0} = InTraffic(n, Threshold(share))
           /\ \A v \in 1..n : {h \in Hashes(n) : Place(h, n, share) = v}
                                   = OnVariant(n, Threshold(share), v - 1)
<1>1. Threshold(share) \in 0..Buckets
  BY ThresholdRange
<1>2. ASSUME NEW h \in Hashes(n)
      PROVE  h \in Nat /\ h % Buckets \in 0..(Buckets - 1) /\ h % n \in 0..(n - 1)
  <2>1. h \in Nat
    BY DEF Hashes
  <2> QED
    BY <2>1, DivMod
<1>3. ASSUME NEW h \in Hashes(n)
      PROVE  /\ Place(h, n, share) # 0 <=> h % Buckets < Threshold(share)
             /\ \A v \in 1..n : Place(h, n, share) = v
                    <=> h % Buckets < Threshold(share) /\ h % n = v - 1
  BY <1>1, <1>2 DEF Place
<1> QED
  BY <1>3 DEF InTraffic, OnVariant

LEMMA HashesFinite ==
    ASSUME NEW n \in Nat \ {0}
    PROVE  /\ Hashes(n) \subseteq Nat /\ IsFiniteSet(Hashes(n)) /\ Buckets * n \in Nat
           /\ \A T \in SUBSET Hashes(n) : IsFiniteSet(T) /\ Cardinality(T) \in Nat
<1>1. Buckets * n \in Nat
  OBVIOUS
<1>2. IsFiniteSet(Hashes(n)) /\ Hashes(n) \subseteq Nat
  <2>1. PICK m \in Int : m = Buckets * n - 1
    BY <1>1
  <2>2. IsFiniteSet(0..m)
    BY FS_Interval
  <2> QED
    BY <2>1, <2>2 DEF Hashes
<1> QED
  BY <1>1, <1>2, FS_Subset, FS_CardinalityType

\* A bucket and a round make a hash.
LEMMA BucketCount ==
    ASSUME NEW n \in Nat \ {0}, NEW t \in 0..Buckets
    PROVE  Cardinality(InTraffic(n, t)) = n * t
<1> DEFINE P == (0..(n - 1)) \X (0..(t - 1))
           f == [p \in P |-> Buckets * p[1] + p[2]]
<1>1. IsFiniteSet(P) /\ Cardinality(P) = n * t
  <2>1. IsFiniteSet(0..(n - 1)) /\ Cardinality(0..(n - 1)) = n
    BY FS_Interval
  <2>2. IsFiniteSet(0..(t - 1)) /\ Cardinality(0..(t - 1)) = t
    BY FS_Interval
  <2> QED
    BY <2>1, <2>2, FS_Product
<1>2. ASSUME NEW p \in P
      PROVE  /\ f[p] = Buckets * p[1] + p[2] /\ p = <<p[1], p[2]>>
             /\ p[1] \in Nat /\ p[1] <= n - 1 /\ p[2] \in 0..(Buckets - 1) /\ p[2] < t
             /\ f[p] \div Buckets = p[1] /\ f[p] % Buckets = p[2]
  <2>1. /\ p[1] \in Nat /\ p[1] <= n - 1 /\ p[2] \in 0..(Buckets - 1) /\ p[2] < t
        /\ f[p] = Buckets * p[1] + p[2] /\ p = <<p[1], p[2]>>
    OBVIOUS
  <2>2. (Buckets * p[1] + p[2]) \div Buckets = p[1] /\ (Buckets * p[1] + p[2]) % Buckets = p[2]
    BY <2>1, DivModUnique
  <2> HIDE DEF f
  <2> QED
    BY <2>1, <2>2
<1>3. ASSUME NEW p \in P
      PROVE  f[p] \in InTraffic(n, t)
  <2>1. PICK q \in Nat, b \in 0..(Buckets - 1) : q = p[1] /\ b = p[2]
    BY <1>2
  <2>2. Buckets * q <= Buckets * (n - 1)
    <3>1. q <= n - 1
      BY <1>2, <2>1
    <3> QED
      BY <3>1, Monotone
  <2>3. Buckets * (n - 1) = Buckets * n - Buckets
    OBVIOUS
  <2>4. Buckets * q + b \in 0..(Buckets * n - 1)
    BY <2>2, <2>3
  <2> HIDE DEF f, P
  <2> QED
    BY <1>2, <2>1, <2>4 DEF InTraffic, Hashes
<1>4. ASSUME NEW h \in InTraffic(n, t)
      PROVE  \E p \in P : f[p] = h
  <2>1. /\ h \in Nat /\ h < Buckets * n /\ h % Buckets < t
    BY DEF InTraffic, Hashes
  <2> HIDE DEF f, P
  <2>a. /\ h \div Buckets \in Nat /\ h % Buckets \in 0..(Buckets - 1)
        /\ h = Buckets * (h \div Buckets) + (h % Buckets)
    BY <2>1, DivMod
  <2>2. PICK q \in Nat, b \in 0..(Buckets - 1) :
            q = h \div Buckets /\ b = h % Buckets /\ h = Buckets * q + b
    BY <2>a
  <2>3. q < n
    <3>1. CASE q >= n
      <4>1. Buckets * n <= Buckets * q
        BY <3>1, Monotone
      <4> QED
        BY <2>1, <2>2, <4>1
    <3> QED
      BY <3>1
  <2>4. <<q, b>> \in P
    BY <2>1, <2>2, <2>3 DEF P
  <2>5. f[<<q, b>>] = h
    BY <2>2, <2>4 DEF f
  <2> QED
    BY <2>4, <2>5
<1> HIDE DEF P
<1>5. f \in [P -> InTraffic(n, t)]
  BY <1>3
<1> HIDE DEF f
<1>6. f \in Bijection(P, InTraffic(n, t))
  <2>1. \A p, q \in P : f[p] = f[q] => p = q
    BY <1>2
  <2>2. f \in Injection(P, InTraffic(n, t))
    BY <1>5, <2>1 DEF Injection, IsInjective
  <2>3. f \in Surjection(P, InTraffic(n, t))
    BY <1>4, <1>5 DEF Surjection
  <2> QED
    BY <2>2, <2>3 DEF Bijection
<1> QED
  BY <1>1, <1>6, FS_Bijection DEF ExistsBijection

\* The hashes of one variant fit among those of another and one more of each bucket:
\* a hash is moved by the distance of the two, where that stays among the hashes its
\* round has traffic for, and stands for its round where it does not, which happens
\* once in a round for a variant.
LEMMA Balanced ==
    ASSUME NEW n \in Nat \ {0}, NEW t \in 0..Buckets, NEW r \in 0..(n - 1), NEW s \in 0..(n - 1)
    PROVE  Cardinality(OnVariant(n, t, r)) - Cardinality(OnVariant(n, t, s)) <= n
<1> DEFINE A == OnVariant(n, t, r)
           S == OnVariant(n, t, s)
           T == S \cup (-n)..(-1)
           q(h) == h \div Buckets
           g(h) == h + (s - r)
           In(h) == Buckets * q(h) <= g(h) /\ g(h) < Buckets * q(h) + t
           f == [h \in A |-> IF In(h) THEN g(h) ELSE -(q(h) + 1)]
<1>1. ASSUME NEW h \in A
      PROVE  /\ h \in Nat /\ h < Buckets * n
             /\ q(h) \in Nat /\ q(h) < n
             /\ Buckets * q(h) <= h /\ h < Buckets * q(h) + t
             /\ Buckets * q(h) \in Nat
             /\ h % n = r
  <2>1. h \in Nat /\ h < Buckets * n /\ h % Buckets < t /\ h % n = r
    BY DEF OnVariant, InTraffic, Hashes
  <2>2. /\ h \div Buckets \in Nat /\ h % Buckets \in 0..(Buckets - 1)
        /\ h = Buckets * (h \div Buckets) + (h % Buckets)
    BY <2>1, DivMod
  <2>3. PICK k \in Nat, b \in 0..(Buckets - 1) :
            k = h \div Buckets /\ b = h % Buckets /\ h = Buckets * k + b
    BY <2>2
  <2>4. k < n
    <3>1. CASE k >= n
      <4>1. Buckets * n <= Buckets * k
        BY <3>1, Monotone
      <4> QED
        BY <2>1, <2>3, <4>1
    <3> QED
      BY <3>1
  <2>5. Buckets * k \in Nat
    OBVIOUS
  <2> QED
    BY <2>1, <2>3, <2>4, <2>5
<1>2. ASSUME NEW h \in A, In(h)
      PROVE  g(h) \in S
  <2>1. PICK k \in Nat : k = q(h)
    BY <1>1
  <2>2. PICK b \in 0..(Buckets - 1) : g(h) = Buckets * k + b /\ b < t
    <3>1. g(h) \in Int /\ Buckets * k <= g(h) /\ g(h) < Buckets * k + t
      BY <1>1, <1>2, <2>1
    <3>2. PICK m \in Int, c \in Int : m = g(h) /\ c = Buckets * k
      BY <3>1
    <3>3. m - c \in 0..(Buckets - 1) /\ m - c < t /\ m = c + (m - c)
      BY <3>1, <3>2
    <3> QED
      BY <3>2, <3>3
  <2>3. g(h) % Buckets = b
    BY <2>2, DivModUnique
  <2>4. g(h) \in Nat /\ g(h) < Buckets * n
    <3>1. Buckets * k <= Buckets * (n - 1)
      BY <1>1, <2>1, Monotone
    <3>2. Buckets * (n - 1) = Buckets * n - Buckets
      OBVIOUS
    <3>3. Buckets * k \in Nat
      OBVIOUS
    <3> QED
      BY <2>2, <3>1, <3>2, <3>3
  <2>5. g(h) % n = s
    <3>1. h \div n \in Nat /\ h = n * (h \div n) + (h % n)
      BY <1>1, DivMod
    <3>2. PICK j \in Nat : h = n * j + r
      BY <1>1, <3>1
    <3>3. g(h) = n * j + s
      BY <3>2
    <3> QED
      BY <3>3, DivModUnique
  <2>6. g(h) \in Hashes(n)
    BY <2>4 DEF Hashes
  <2> QED
    BY <2>2, <2>3, <2>5, <2>6 DEF OnVariant, InTraffic
<1>3. f \in [A -> T]
  <2> SUFFICES ASSUME NEW h \in A, ~ In(h)
               PROVE  -(q(h) + 1) \in (-n)..(-1)
    BY <1>2
  <2> QED
    BY <1>1
<1>4. ASSUME NEW h \in A, NEW i \in A, f[h] = f[i]
      PROVE  h = i
  <2>1. h \in Nat /\ i \in Nat /\ q(h) \in Nat /\ q(i) \in Nat
    BY <1>1
  <2>2. ASSUME NEW j \in A, In(j)
        PROVE  g(j) \in Nat
    BY <1>1, <2>2
  <2>3. CASE In(h) /\ In(i)
    BY <1>4, <2>1, <2>3
  <2>4. CASE In(h) /\ ~ In(i)
    BY <1>4, <2>1, <2>2, <2>4
  <2>5. CASE In(i) /\ ~ In(h)
    BY <1>4, <2>1, <2>2, <2>5
  <2>6. CASE ~ In(h) /\ ~ In(i)
    <3>1. q(h) = q(i)
      BY <1>4, <2>1, <2>6
    <3>2. PICK c \in Nat : c = Buckets * q(h)
      BY <1>1
    <3>3. /\ h \in c..(c + t - 1) /\ g(h) \notin c..(c + t - 1)
          /\ i \in c..(c + t - 1) /\ g(i) \notin c..(c + t - 1)
      BY <1>1, <2>6, <3>1, <3>2
    <3>4. h - i \in (-(n - 1))..(n - 1)
      BY <3>3
    <3>5. /\ h \div n \in Nat /\ h = n * (h \div n) + (h % n)
          /\ i \div n \in Nat /\ i = n * (i \div n) + (i % n)
      BY <1>1, DivMod
    <3>6. PICK j \in Nat, k \in Nat : h = n * j + r /\ i = n * k + r
      BY <1>1, <3>5
    <3>7. j = k
      <4>1. n * j - n * k \in (-(n - 1))..(n - 1)
        BY <3>4, <3>6
      <4> QED
        BY <4>1, Close
    <3> QED
      BY <3>6, <3>7
  <2> QED
    BY <2>3, <2>4, <2>5, <2>6
<1>5. /\ IsFiniteSet(A) /\ Cardinality(A) \in Nat
      /\ IsFiniteSet(S) /\ Cardinality(S) \in Nat
      /\ S \subseteq Nat
  <2>1. A \subseteq Hashes(n) /\ S \subseteq Hashes(n)
    BY DEF OnVariant, InTraffic
  <2> QED
    BY <2>1, HashesFinite
<1>6. IsFiniteSet(T) /\ Cardinality(T) = Cardinality(S) + n
  <2>1. IsFiniteSet((-n)..(-1)) /\ Cardinality((-n)..(-1)) = n
    BY FS_Interval
  <2>2. S \cap (-n)..(-1) = {}
    BY <1>5
  <2>3. Cardinality(S \cap (-n)..(-1)) = 0
    BY <2>2, FS_EmptySet
  <2> HIDE DEF S
  <2>4. /\ IsFiniteSet(S \cup (-n)..(-1))
        /\ Cardinality(S \cup (-n)..(-1)) =
              Cardinality(S) + Cardinality((-n)..(-1)) - Cardinality(S \cap (-n)..(-1))
    BY <1>5, <2>1, FS_Union
  <2> QED
    BY <1>5, <2>1, <2>3, <2>4
<1>7. f \in Injection(A, T)
  BY <1>3, <1>4 DEF Injection, IsInjective
<1>8. Cardinality(A) <= Cardinality(T)
  BY <1>6, <1>7, FS_Injection
<1> QED
  BY <1>5, <1>6, <1>8

\* The parts of FairSplit, for an experiment with n variants and a share of traffic.
LEMMA SplitIsFair ==
    ASSUME NEW n \in Nat \ {0}, NEW share \in 0..Buckets
    PROVE  LET placed == Cardinality({h \in Hashes(n) : Place(h, n, share) # 0}) IN
           /\ placed \in {n * share, n * (share - 1)}
           /\ share = Buckets => placed = Buckets * n
           /\ \A v, w \in 1..n : Placed(n, share, v) - Placed(n, share, w) <= n
           /\ share > n => \A v \in 1..n : Placed(n, share, v) > 0
<1> DEFINE t == Threshold(share)
<1>1. t \in 0..Buckets /\ t \in {share, share - 1} /\ (share = Buckets => t = Buckets)
  BY ThresholdRange
<1>2. Cardinality({h \in Hashes(n) : Place(h, n, share) # 0}) = n * t
  BY <1>1, PlaceIs, BucketCount
<1>3. ASSUME NEW v \in 1..n
      PROVE  Placed(n, share, v) = Cardinality(OnVariant(n, t, v - 1)) /\ v - 1 \in 0..(n - 1)
  <2>1. {h \in Hashes(n) : Place(h, n, share) = v} = OnVariant(n, t, v - 1)
    BY PlaceIs
  <2>2. v - 1 \in 0..(n - 1)
    OBVIOUS
  <2> QED
    BY <2>1, <2>2 DEF Placed
<1>4. ASSUME NEW v \in 1..n, NEW w \in 1..n
      PROVE  Placed(n, share, v) - Placed(n, share, w) <= n
  BY <1>1, <1>3, Balanced
<1>5. ASSUME NEW v \in 1..n, share > n
      PROVE  Placed(n, share, v) > 0
  <2>1. t >= n /\ n <= Buckets
    BY <1>1, <1>5
  <2>2. v - 1 \in OnVariant(n, t, v - 1)
    <3>1. PICK r \in 0..(n - 1) : r = v - 1
      BY <1>3
    <3>2. n <= Buckets * n
      <4>1. n * 1 <= n * Buckets
        BY Monotone
      <4> QED
        BY <4>1
    <3>3. r \in Hashes(n)
      BY <3>2 DEF Hashes
    <3>4. r % n = r
      <4>1. (n * 0 + r) % n = r
        BY DivModUnique
      <4> QED
        BY <4>1
    <3>5. r % Buckets = r
      <4>1. r \in 0..(Buckets - 1)
        BY <2>1
      <4>2. (Buckets * 0 + r) % Buckets = r
        BY <4>1, DivModUnique
      <4> QED
        BY <4>2
    <3>6. r < t
      BY <1>1, <2>1
    <3> QED
      BY <3>1, <3>3, <3>4, <3>5, <3>6 DEF OnVariant, InTraffic
  <2>3. IsFiniteSet(OnVariant(n, t, v - 1)) /\ Cardinality(OnVariant(n, t, v - 1)) \in Nat
    BY HashesFinite DEF OnVariant, InTraffic
  <2>4. Cardinality(OnVariant(n, t, v - 1)) # 0
    BY <2>2, <2>3, FS_EmptySet
  <2> QED
    BY <1>3, <2>3, <2>4
<1> HIDE DEF t
<1> QED
  BY <1>1, <1>2, <1>4, <1>5

-----------------------------------------------------------------------------
(* The combinations of a grid.                                                 *)

Lists(s, m, S) ==
    /\ m \in Nat /\ DOMAIN s = 1..m /\ s = [i \in 1..m |-> s[i]]
    /\ \A i \in 1..m : s[i] \in S

\* A sequence is its length and its members.
LEMMA Listing ==
    ASSUME NEW S, NEW m, NEW s, Lists(s, m, S)
    PROVE  s \in Seq(S) /\ Len(s) = m /\ s \in [1..m -> S]
<1>1. s \in [1..m -> S] /\ m \in Nat /\ DOMAIN s = 1..m
  BY DEF Lists
<1>2. s \in Seq(S)
  BY <1>1
<1>3. Len(s) \in Nat /\ 1..Len(s) = 1..m
  BY <1>1, <1>2, LenProperties
<1>4. Len(s) = m
  <2>1. CASE Len(s) < m
    <3>1. m \in 1..m /\ m \notin 1..Len(s)
      BY <1>1, <1>3, <2>1
    <3> QED
      BY <1>3, <3>1
  <2>2. CASE Len(s) > m
    <3>1. Len(s) \in 1..Len(s) /\ Len(s) \notin 1..m
      BY <1>1, <1>3, <2>2
    <3> QED
      BY <1>3, <3>1
  <2> QED
    BY <1>1, <1>3, <2>1, <2>2
<1> QED
  BY <1>1, <1>2, <1>4

Tuples(k, V) == [1..k -> V]

\* c with a after its k members.
With(c, k, a) == [i \in 1..(k + 1) |-> IF i <= k THEN c[i] ELSE a]

LEMMA WithTyped ==
    ASSUME NEW V, NEW k \in Nat, NEW c \in Tuples(k, V), NEW a \in V
    PROVE  /\ With(c, k, a) \in Tuples(k + 1, V)
           /\ Append(c, a) = With(c, k, a)
           /\ \A i \in 1..k : With(c, k, a)[i] = c[i]
           /\ With(c, k, a)[k + 1] = a
<1>1. /\ With(c, k, a) \in Tuples(k + 1, V)
      /\ \A i \in 1..k : With(c, k, a)[i] = c[i]
      /\ With(c, k, a)[k + 1] = a
  BY DEF With, Tuples
<1>2. c \in Seq(V) /\ Len(c) = k
  <2>1. Lists(c, k, V)
    BY DEF Lists, Tuples
  <2> QED
    BY <2>1, Listing
<1>3. With(c, k, a) \in Seq(V) /\ Len(With(c, k, a)) = k + 1
  <2>1. Lists(With(c, k, a), k + 1, V)
    BY <1>1 DEF Lists, With, Tuples
  <2> QED
    BY <2>1, Listing
<1>4. /\ Append(c, a) \in Seq(V) /\ Len(Append(c, a)) = k + 1
      /\ \A i \in 1..k : Append(c, a)[i] = c[i]
      /\ Append(c, a)[k + 1] = a
  BY <1>2, AppendProperties
<1>5. \A i \in 1..(k + 1) : Append(c, a)[i] = With(c, k, a)[i]
  <2> TAKE i \in 1..(k + 1)
  <2>1. i \in 1..k \/ i = k + 1
    OBVIOUS
  <2> QED
    BY <1>1, <1>4, <2>1
<1>6. Append(c, a) = With(c, k, a)
  BY <1>3, <1>4, <1>5, SeqEqual
<1> QED
  BY <1>1, <1>6

\* Place (a, b) of a table with l columns, row by row.
At(a, b, l) == l * (a - 1) + b

LEMMA PlaceOf ==
    ASSUME NEW m \in Nat, NEW l \in Nat, NEW a \in 1..m, NEW b \in 1..l
    PROVE  /\ At(a, b, l) \in 1..(m * l)
           /\ (At(a, b, l) - 1) \div l + 1 = a /\ ((At(a, b, l) - 1) % l) + 1 = b
<1>1. PICK q \in Nat, r \in 0..(l - 1) : q = a - 1 /\ r = b - 1 /\ q <= m - 1
  OBVIOUS
<1>2. l \in Nat \ {0} /\ At(a, b, l) - 1 = l * q + r /\ l * q \in Nat
  BY <1>1 DEF At
<1>3. (l * q + r) \div l = q /\ (l * q + r) % l = r
  BY <1>2, DivModUnique
<1>4. l * q <= l * (m - 1) /\ l * (m - 1) = m * l - l
  BY <1>1, Monotone
<1>5. At(a, b, l) = l * q + r + 1
  BY <1>1, <1>2 DEF At
<1>6. At(a, b, l) \in 1..(m * l)
  BY <1>2, <1>4, <1>5
<1> QED
  BY <1>1, <1>2, <1>3, <1>6

LEMMA PlacesFilled ==
    ASSUME NEW m \in Nat, NEW l \in Nat, NEW x \in 1..(m * l)
    PROVE  \E a \in 1..m, b \in 1..l : x = At(a, b, l)
<1>1. l # 0
  <2>1. CASE l = 0
    <3>1. m * l = 0
      BY <2>1
    <3> QED
      BY <3>1
  <2> QED
    BY <2>1
<1>2. x - 1 \in Nat /\ x <= m * l
  OBVIOUS
<1>3. /\ (x - 1) \div l \in Nat /\ (x - 1) % l \in 0..(l - 1)
      /\ x - 1 = l * ((x - 1) \div l) + ((x - 1) % l)
  BY <1>1, <1>2, DivMod
<1>4. PICK q \in Nat, r \in 0..(l - 1) : x - 1 = l * q + r
  BY <1>3
<1>5. q < m
  <2>1. CASE q >= m
    <3>1. l * m <= l * q
      BY <2>1, Monotone
    <3>2. l * m = m * l
      OBVIOUS
    <3>3. PICK u \in Nat, v \in Nat : u = l * q /\ v = m * l
      OBVIOUS
    <3> QED
      BY <1>2, <1>4, <3>1, <3>2, <3>3
  <2> QED
    BY <2>1
<1>6. q + 1 \in 1..m /\ r + 1 \in 1..l
  BY <1>5
<1>7. x = At(q + 1, r + 1, l)
  <2>1. (q + 1) - 1 = q
    OBVIOUS
  <2> QED
    BY <1>4, <2>1 DEF At
<1> QED
  BY <1>6, <1>7

\* E has each combination of C with each member of the list, in a place of its own.
Extension(E, C, k, list) ==
    /\ DOMAIN E = 1..(Len(C) * Len(list))
    /\ \A a \in 1..Len(C), b \in 1..Len(list) :
          At(a, b, Len(list)) \in DOMAIN E /\ E[At(a, b, Len(list))] = With(C[a], k, list[b])
    /\ \A x \in DOMAIN E : \E a \in 1..Len(C), b \in 1..Len(list) : x = At(a, b, Len(list))

LEMMA ExtendedIs ==
    ASSUME NEW V, NEW k \in Nat, NEW combos, combos \in Seq(Tuples(k, V)), NEW list, list \in Seq(V)
    PROVE  /\ Extended(combos, list) \in Seq(Tuples(k + 1, V))
           /\ Extension(Extended(combos, list), combos, k, list)
<1> DEFINE E == Extended(combos, list)
<1>1. PICK m \in Nat, l \in Nat : m = Len(combos) /\ l = Len(list)
  BY LenProperties
<1>2. m * l \in Nat
  OBVIOUS
<1>3. /\ DOMAIN E = 1..(m * l) /\ E = [x \in 1..(m * l) |-> E[x]]
      /\ \A x \in 1..(m * l) : E[x] = Append(combos[(x - 1) \div l + 1], list[((x - 1) % l) + 1])
  BY <1>1 DEF Extended
<1> HIDE DEF E
<1>4. /\ \A a \in 1..m : combos[a] \in Tuples(k, V)
      /\ \A b \in 1..l : list[b] \in V
  BY <1>1, LenProperties
<1>5. ASSUME NEW a \in 1..m, NEW b \in 1..l
      PROVE  /\ At(a, b, l) \in 1..(m * l)
             /\ E[At(a, b, l)] = With(combos[a], k, list[b])
             /\ E[At(a, b, l)] \in Tuples(k + 1, V)
  <2>1. /\ At(a, b, l) \in 1..(m * l)
        /\ (At(a, b, l) - 1) \div l + 1 = a /\ ((At(a, b, l) - 1) % l) + 1 = b
    BY PlaceOf
  <2>2. E[At(a, b, l)] = Append(combos[a], list[b])
    <3>1. PICK x \in 1..(m * l) : x = At(a, b, l)
      BY <2>1
    <3>2. E[x] = Append(combos[(x - 1) \div l + 1], list[((x - 1) % l) + 1])
      BY <1>3
    <3> QED
      BY ONLY <2>1, <3>1, <3>2
  <2>3. combos[a] \in Tuples(k, V) /\ list[b] \in V
    BY <1>4
  <2>4. ASSUME NEW c \in Tuples(k, V), NEW v \in V
        PROVE  Append(c, v) = With(c, k, v) /\ With(c, k, v) \in Tuples(k + 1, V)
    BY WithTyped
  <2>5. /\ Append(combos[a], list[b]) = With(combos[a], k, list[b])
        /\ With(combos[a], k, list[b]) \in Tuples(k + 1, V)
    BY <2>3, <2>4
  <2> QED
    BY <2>1, <2>2, <2>5, Zenon
<1>6. \A x \in 1..(m * l) : \E a \in 1..m, b \in 1..l : x = At(a, b, l)
  BY PlacesFilled
<1>7. \A x \in 1..(m * l) : E[x] \in Tuples(k + 1, V)
  BY <1>5, <1>6
<1>8. E \in Seq(Tuples(k + 1, V))
  <2>1. Lists(E, m * l, Tuples(k + 1, V))
    BY <1>2, <1>3, <1>7, Zenon DEF Lists
  <2> QED
    BY <2>1, Listing
<1>9. /\ DOMAIN E = 1..(Len(combos) * Len(list))
      /\ \A a \in 1..Len(combos), b \in 1..Len(list) :
            /\ At(a, b, Len(list)) \in DOMAIN E
            /\ E[At(a, b, Len(list))] = With(combos[a], k, list[b])
      /\ \A x \in DOMAIN E : \E a \in 1..Len(combos), b \in 1..Len(list) : x = At(a, b, Len(list))
  <2>1. DOMAIN E = 1..(Len(combos) * Len(list))
    BY <1>1, <1>3
  <2>2. \A a \in 1..m, b \in 1..l :
            /\ At(a, b, l) \in DOMAIN E
            /\ E[At(a, b, l)] = With(combos[a], k, list[b])
    BY <1>3, <1>5, Zenon
  <2>3. \A x \in DOMAIN E : \E a \in 1..m, b \in 1..l : x = At(a, b, l)
    BY <1>3, <1>6, Zenon
  <2> QED
    BY <1>1, <2>1, <2>2, <2>3, Zenon
<1> QED
  BY <1>8, <1>9, Zenon DEF E, Extension

\* The table Combos builds, list by list.
Table(lists) == CHOOSE h : h = [n \in 0..Len(lists) |->
    IF n = 0 THEN << <<>> >> ELSE Extended(h[n - 1], lists[n])]

LEMMA TableIs ==
    ASSUME NEW lists, NEW m \in Nat, Len(lists) = m
    PROVE  /\ Combos(lists) = Table(lists)[m]
           /\ Table(lists)[0] = << <<>> >>
           /\ \A n \in 1..m : Table(lists)[n] = Extended(Table(lists)[n - 1], lists[n])
<1> DEFINE Step(h, n) == IF n = 0 THEN << <<>> >> ELSE Extended(h[n - 1], lists[n])
           Upto(h, k) == \A n \in 0..m : n <= k => h[n] = Step(h, n)
           Q == {k \in Nat : \E h : h = [n \in 0..m |-> h[n]] /\ Upto(h, k)}
<1>1. 0 \in Q
  <2> DEFINE h == [n \in 0..m |-> << <<>> >>]
  <2>1. h = [n \in 0..m |-> h[n]] /\ Upto(h, 0)
    OBVIOUS
  <2> QED
    BY <2>1
<1>2. ASSUME NEW k \in Nat, k \in Q
      PROVE  k + 1 \in Q
  <2>1. PICK g : g = [n \in 0..m |-> g[n]] /\ Upto(g, k)
    BY <1>2
  <2> DEFINE h == [n \in 0..m |-> Step(g, n)]
  <2>2. ASSUME NEW n \in 0..m, n <= k
        PROVE  h[n] = g[n]
    BY <2>1, <2>2
  <2>3. ASSUME NEW n \in 0..m, n <= k + 1
        PROVE  h[n] = Step(h, n)
    <3>1. CASE n = 0
      BY <3>1
    <3>2. CASE n # 0
      <4>1. n - 1 \in 0..m /\ n - 1 <= k
        BY <2>3, <3>2
      <4>2. h[n - 1] = g[n - 1]
        BY <2>2, <4>1
      <4>3. h[n] = Extended(g[n - 1], lists[n])
        BY <3>2
      <4> HIDE DEF h
      <4> QED
        BY <3>2, <4>2, <4>3
    <3> QED
      BY <3>1, <3>2
  <2>4. h = [n \in 0..m |-> h[n]]
    OBVIOUS
  <2> HIDE DEF h, Step
  <2> QED
    BY <2>3, <2>4
<1>3. m \in Q
  <2> HIDE DEF Q
  <2> QED
    BY <1>1, <1>2, Induction
<1>4. \E h : h = [n \in 0..m |-> Step(h, n)]
  <2> HIDE DEF Step
  <2>1. PICK h : h = [n \in 0..m |-> h[n]] /\ Upto(h, m)
    BY <1>3
  <2>2. \A n \in 0..m : h[n] = Step(h, n)
    BY <2>1
  <2>3. [n \in 0..m |-> h[n]] = [n \in 0..m |-> Step(h, n)]
    BY <2>2, Zenon
  <2>4. h = [n \in 0..m |-> Step(h, n)]
    BY <2>1, <2>3, Zenon
  <2> QED
    BY <2>4, Zenon
<1>5. Table(lists) = [n \in 0..m |-> Step(Table(lists), n)]
  BY <1>4 DEF Table
<1>6. \A n \in 0..m : Table(lists)[n] = Step(Table(lists), n)
  <2> HIDE DEF Step
  <2> QED
    BY <1>5
<1>7. Combos(lists) = Table(lists)[m]
  BY DEF Combos, Table
<1> QED
  BY <1>6, <1>7

\* C is the product of the first k lists.
Members(C, k, lists) == \A x \in DOMAIN C : \A i \in 1..k : C[x][i] \in ToSet(lists[i])
Complete(C, k, lists, V) == \A f \in Tuples(k, V) :
    (\A i \in 1..k : f[i] \in ToSet(lists[i])) => \E x \in DOMAIN C : C[x] = f
Single(C, k, lists) == (\A i \in 1..k : IsInjective(lists[i])) => IsInjective(C)
Product(C, k, lists, V) ==
    C \in Seq(Tuples(k, V)) /\ Members(C, k, lists) /\ Complete(C, k, lists, V) /\ Single(C, k, lists)

LEMMA WithEqual ==
    ASSUME NEW V, NEW k \in Nat, NEW c \in Tuples(k, V), NEW d \in Tuples(k, V), NEW a \in V, NEW b \in V,
           With(c, k, a) = With(d, k, b)
    PROVE  c = d /\ a = b
<1>1. /\ \A i \in 1..k : c[i] = d[i]
      /\ a = b
  <2>1. k + 1 \in 1..(k + 1) /\ ~ (k + 1 <= k) /\ \A i \in 1..k : i \in 1..(k + 1) /\ i <= k
    OBVIOUS
  <2>2. /\ \A i \in 1..(k + 1) : With(c, k, a)[i] = IF i <= k THEN c[i] ELSE a
        /\ \A i \in 1..(k + 1) : With(d, k, b)[i] = IF i <= k THEN d[i] ELSE b
    BY DEF With
  <2> QED
    BY <2>1, <2>2
<1> QED
  BY <1>1 DEF Tuples

LEMMA ProductOfNone ==
    ASSUME NEW lists, NEW V
    PROVE  Product(<< <<>> >>, 0, lists, V)
<1> DEFINE C == << <<>> >>
<1>1. <<>> \in Tuples(0, V)
  BY DEF Tuples
<1>2. \A f \in Tuples(0, V) : f = <<>>
  BY DEF Tuples
<1>3. C \in Seq(Tuples(0, V)) /\ DOMAIN C = {1} /\ C[1] = <<>>
  BY <1>1
<1> HIDE DEF C
<1>4. Members(C, 0, lists)
  BY DEF Members
<1>5. Complete(C, 0, lists, V)
  BY <1>2, <1>3 DEF Complete
<1>6. Single(C, 0, lists)
  BY <1>3 DEF Single, IsInjective
<1> QED
  BY <1>3, <1>4, <1>5, <1>6 DEF Product, C

LEMMA ProductOfOneMore ==
    ASSUME NEW V, NEW lists, NEW k \in Nat, NEW C, Product(C, k, lists, V), lists[k + 1] \in Seq(V)
    PROVE  Product(Extended(C, lists[k + 1]), k + 1, lists, V)
<1> DEFINE list == lists[k + 1]
           E == Extended(C, list)
           l == Len(list)
<1>1. C \in Seq(Tuples(k, V)) /\ Members(C, k, lists) /\ Complete(C, k, lists, V) /\ Single(C, k, lists)
  BY DEF Product
<1>2. /\ DOMAIN C = 1..Len(C) /\ \A a \in 1..Len(C) : C[a] \in Tuples(k, V)
      /\ DOMAIN list = 1..l /\ \A b \in 1..l : list[b] \in V
  BY <1>1, LenProperties
<1>3. /\ E \in Seq(Tuples(k + 1, V))
      /\ \A a \in 1..Len(C), b \in 1..l :
            At(a, b, l) \in DOMAIN E /\ E[At(a, b, l)] = With(C[a], k, list[b])
      /\ \A x \in DOMAIN E : \E a \in 1..Len(C), b \in 1..l : x = At(a, b, l)
  <2>1. E \in Seq(Tuples(k + 1, V)) /\ Extension(E, C, k, list)
    BY <1>1, ExtendedIs
  <2> QED
    BY <2>1, Zenon DEF Extension
<1> HIDE DEF E, list, l
<1>4. ASSUME NEW x \in DOMAIN E
      PROVE  \E a \in 1..Len(C), b \in 1..l : x = At(a, b, l) /\ E[x] = With(C[a], k, list[b])
  BY <1>3
<1>5. Members(E, k + 1, lists)
  <2> SUFFICES ASSUME NEW x \in DOMAIN E, NEW i \in 1..(k + 1)
               PROVE  E[x][i] \in ToSet(lists[i])
    BY DEF Members
  <2>1. PICK a \in 1..Len(C), b \in 1..l : E[x] = With(C[a], k, list[b])
    BY <1>4
  <2>2. PICK c \in Tuples(k, V), v \in V : c = C[a] /\ v = list[b]
    BY <1>2
  <2>3. CASE i \in 1..k
    <3>1. With(c, k, v)[i] = c[i]
      BY <2>3, WithTyped
    <3>2. C[a][i] \in ToSet(lists[i])
      BY <1>1, <1>2, <2>3 DEF Members
    <3> QED
      BY <2>1, <2>2, <3>1, <3>2
  <2>4. CASE i = k + 1
    <3>1. With(c, k, v)[k + 1] = v
      BY WithTyped
    <3>2. list[b] \in ToSet(list)
      BY <1>2 DEF ToSet
    <3> QED
      BY <2>1, <2>2, <2>4, <3>1, <3>2 DEF list
  <2> QED
    BY <2>3, <2>4
<1>6. Complete(E, k + 1, lists, V)
  <2> SUFFICES ASSUME NEW f \in Tuples(k + 1, V), \A i \in 1..(k + 1) : f[i] \in ToSet(lists[i])
               PROVE  \E x \in DOMAIN E : E[x] = f
    BY DEF Complete
  <2> DEFINE g == [i \in 1..k |-> f[i]]
  <2>1. g \in Tuples(k, V) /\ \A i \in 1..k : g[i] = f[i]
    BY DEF Tuples
  <2>2. \A i \in 1..k : g[i] \in ToSet(lists[i])
    BY <2>1
  <2> HIDE DEF g
  <2>3. PICK a \in 1..Len(C) : C[a] = g
    BY <1>1, <1>2, <2>1, <2>2 DEF Complete
  <2>4. PICK b \in 1..l : list[b] = f[k + 1]
    <3>1. f[k + 1] \in ToSet(list)
      BY DEF list
    <3> QED
      BY <1>2, <3>1 DEF ToSet
  <2>5. With(g, k, list[b]) = f
    BY <2>1, <2>4 DEF With, Tuples
  <2> QED
    BY <1>3, <2>3, <2>5
<1>7. Single(E, k + 1, lists)
  <2> SUFFICES ASSUME \A i \in 1..(k + 1) : IsInjective(lists[i]),
                      NEW x \in DOMAIN E, NEW y \in DOMAIN E, E[x] = E[y]
               PROVE  x = y
    BY DEF Single, IsInjective
  <2>1. IsInjective(C) /\ IsInjective(list)
    <3>1. \A i \in 1..k : i \in 1..(k + 1)
      OBVIOUS
    <3>2. k + 1 \in 1..(k + 1)
      OBVIOUS
    <3> QED
      BY <1>1, <3>1, <3>2 DEF Single, list
  <2>2. PICK a \in 1..Len(C), b \in 1..l : x = At(a, b, l) /\ E[x] = With(C[a], k, list[b])
    BY <1>4
  <2>3. PICK c \in 1..Len(C), d \in 1..l : y = At(c, d, l) /\ E[y] = With(C[c], k, list[d])
    BY <1>4
  <2>4. /\ C[a] \in Tuples(k, V) /\ C[c] \in Tuples(k, V) /\ list[b] \in V /\ list[d] \in V
        /\ With(C[a], k, list[b]) = With(C[c], k, list[d])
    BY <1>2, <2>2, <2>3
  <2>5. PICK e \in Tuples(k, V), f \in Tuples(k, V), u \in V, v \in V :
            e = C[a] /\ f = C[c] /\ u = list[b] /\ v = list[d] /\ With(e, k, u) = With(f, k, v)
    BY <2>4
  <2>6. e = f /\ u = v
    BY <2>5, WithEqual
  <2>7. a = c /\ b = d
    BY <1>2, <2>1, <2>5, <2>6 DEF IsInjective
  <2> QED
    BY <2>2, <2>3, <2>7
<1> QED
  BY <1>3, <1>5, <1>6, <1>7 DEF Product, E, list

LEMMA CombosAre ==
    ASSUME NEW V, NEW m \in Nat, NEW lists, Len(lists) = m, \A i \in 1..m : lists[i] \in Seq(V)
    PROVE  Product(Combos(lists), m, lists, V)
<1> DEFINE Q == {k \in Nat : k <= m => Product(Table(lists)[k], k, lists, V)}
<1>1. 0 \in Q
  BY TableIs, ProductOfNone
<1>2. ASSUME NEW k \in Nat, k \in Q
      PROVE  k + 1 \in Q
  <2> SUFFICES ASSUME k + 1 <= m
               PROVE  Product(Table(lists)[k + 1], k + 1, lists, V)
    OBVIOUS
  <2>1. k + 1 \in 1..m /\ k <= m
    OBVIOUS
  <2>2. Product(Table(lists)[k], k, lists, V)
    BY <1>2, <2>1
  <2>3. Table(lists)[k + 1] = Extended(Table(lists)[k], lists[k + 1])
    <3>1. Table(lists)[k + 1] = Extended(Table(lists)[(k + 1) - 1], lists[k + 1])
      BY <2>1, TableIs
    <3>2. (k + 1) - 1 = k
      OBVIOUS
    <3> QED
      BY <3>1, <3>2
  <2>4. lists[k + 1] \in Seq(V)
    BY <2>1
  <2>5. Product(Extended(Table(lists)[k], lists[k + 1]), k + 1, lists, V)
    BY <2>2, <2>4, ProductOfOneMore
  <2> QED
    BY <2>3, <2>5
<1>3. m \in Q
  <2> HIDE DEF Q
  <2> QED
    BY <1>1, <1>2, Induction
<1> QED
  BY <1>3, TableIs

-----------------------------------------------------------------------------
(* The values of one parameter.                                                *)

Typed(p) ==
    /\ p.values \in Seq(ToSet(p.values))
    /\ p.bounds \in {<<>>} \cup (Int \X Int)
    /\ p.step \in Int

LEMMA BoundsAre ==
    ASSUME NEW p, Typed(p), Continuous(p)
    PROVE  /\ p.bounds[1] \in Int /\ p.bounds[2] \in Int /\ p.step \in Int
           /\ ToSet(p.bounds) = {p.bounds[1], p.bounds[2]}
           /\ Step5(p) \in Int
           /\ ~ Listed(p)
<1>1. p.bounds \in Int \X Int /\ p.step \in Int
  BY DEF Typed, Continuous
<1>2. PICK a \in Int, b \in Int : p.bounds = <<a, b>>
  BY <1>1
<1>3. p.bounds[1] = a /\ p.bounds[2] = b
  BY <1>2
<1>4. ToSet(p.bounds) = {a, b}
  BY <1>2 DEF ToSet
<1>5. Step5(p) \in Int
  <2>1. 5 * p.step \in Int /\ b - a \in Int
    BY <1>1
  <2> QED
    BY <1>3, <2>1 DEF Step5
<1>6. ~ Listed(p)
  BY DEF Listed, Continuous
<1> QED
  BY <1>1, <1>3, <1>4, <1>5, <1>6

\* The last value of a range is at the maximum or below, and the next at the maximum or
\* above: width is the range in fifths of a unit, s the step, n the number of a value.
LEMMA LastIs ==
    ASSUME NEW p, Typed(p), Continuous(p), ~ Stuck(p), NEW last \in Lasts(p)
    PROVE  /\ last \in Int /\ last + 1 \in Nat
           /\ p.bounds[1] <= p.bounds[2] => Step5(p) \in Nat \ {0} /\ last >= 0
           /\ p.bounds[1] > p.bounds[2] => last = -1
           /\ \A n \in Nat : n <= last => n * Step5(p) <= 5 * (p.bounds[2] - p.bounds[1])
           /\ \A n \in Nat : n > last =>
                 p.bounds[1] > p.bounds[2] \/ n * Step5(p) >= 5 * (p.bounds[2] - p.bounds[1])
<1>1. PICK a \in Int, b \in Int, s \in Int : a = p.bounds[1] /\ b = p.bounds[2] /\ s = Step5(p)
  BY BoundsAre
<1>2. PICK width \in Int : width = 5 * (b - a)
  OBVIOUS
<1>3. CASE a > b
  <2>1. width < 0
    BY <1>2, <1>3
  <2>2. last = -1
    BY <1>1, <1>2, <2>1 DEF Lasts
  <2> QED
    BY <1>1, <1>3, <2>2
<1>4. CASE a <= b
  <2>1. s \in Nat \ {0} /\ width >= 0
    BY <1>1, <1>2, <1>4 DEF Stuck
  <2>2. PICK q \in Int : q = width \div s /\ s * q <= width /\ width < s * q + s
    BY <2>1, DivBounds
  <2>3. q >= 0
    <3>1. CASE q <= -1
      <4>1. s * q <= s * (-1)
        BY <2>1, <3>1, Monotone
      <4>2. s * (-1) = -s
        BY <2>1
      <4> QED
        BY <2>1, <2>2, <4>1, <4>2
    <3> QED
      BY <3>1
  <2>4. last = q \/ (last = q - 1 /\ q > 0 /\ width = q * s)
    BY <1>1, <1>2, <2>1, <2>2 DEF Lasts
  <2>5. last \in Int /\ last >= 0
    BY <2>3, <2>4
  <2>6. s * last <= width
    <3>1. s * last <= s * q
      BY <2>1, <2>4, <2>5, Monotone
    <3> QED
      BY <2>1, <2>2, <2>5, <3>1
  <2>7. s * (last + 1) >= width
    <3>1. CASE last = q
      <4>1. s * (last + 1) = s * q + s
        BY <2>1, <3>1
      <4> QED
        BY <2>1, <2>2, <4>1
    <3>2. CASE last = q - 1 /\ width = q * s
      <4>1. s * (last + 1) = q * s
        BY <2>1, <3>2
      <4> QED
        BY <3>2, <4>1
    <3> QED
      BY <2>4, <3>1, <3>2
  <2>8. ASSUME NEW n \in Nat, n <= last
        PROVE  n * s <= width
    <3>1. s * n <= s * last
      BY <2>1, <2>5, <2>8, Monotone
    <3>2. n * s = s * n
      OBVIOUS
    <3>3. s * n \in Int /\ s * last \in Int
      BY <2>5
    <3> QED
      BY <2>6, <3>1, <3>2, <3>3
  <2>9. ASSUME NEW n \in Nat, n > last
        PROVE  n * s >= width
    <3>1. s * (last + 1) <= s * n
      BY <2>1, <2>5, <2>9, Monotone
    <3>2. n * s = s * n
      OBVIOUS
    <3>3. s * n \in Int /\ s * (last + 1) \in Int
      BY <2>5
    <3> QED
      BY <2>7, <3>1, <3>2, <3>3
  <2>10. last + 1 \in Nat
    BY <2>5
  <2> QED
    BY <1>1, <1>2, <1>4, <2>1, <2>5, <2>8, <2>9, <2>10
<1> QED
  BY <1>1, <1>3, <1>4

\* A value of a range is within it, whatever the rounding.
LEMMA PointFits ==
    ASSUME NEW p, Typed(p), Continuous(p), ~ Stuck(p), NEW last \in Lasts(p),
           NEW n \in Nat, n <= last
    PROVE  GridPoint(p, n) \in p.bounds[1]..p.bounds[2]
<1>1. PICK a \in Int, b \in Int, s \in Int, t \in Int :
          a = p.bounds[1] /\ b = p.bounds[2] /\ s = Step5(p) /\ t = n * s
  BY BoundsAre
<1>2. a <= b /\ s \in Nat
  BY <1>1, LastIs
<1>3. t <= 5 * (b - a)
  BY <1>1, LastIs
<1>4. t >= 0
  BY <1>1, <1>2
<1>5. PICK x \in Int : x = 2 * (5 * a + t) + 5
  OBVIOUS
<1>6. PICK g \in Int : g = x \div 10 /\ 10 * g <= x /\ x < 10 * g + 10
  BY DivBounds
<1>7. GridPoint(p, n) = g
  BY <1>1, <1>5, <1>6 DEF GridPoint
<1>8. g \in a..b
  BY <1>3, <1>4, <1>5, <1>6
<1> QED
  BY <1>1, <1>7, <1>8

LEMMA ExpansionTyped ==
    ASSUME NEW p, Typed(p), ~ Stuck(p), NEW list \in Expansions(p)
    PROVE  /\ list \in Seq(ToSet(list))
           /\ \A v \in ToSet(list) : Admits(p, 0, v)
<1>1. CASE Listed(p)
  <2>2. ~ Continuous(p)
    BY <1>1 DEF Listed, Continuous
  <2>1. list = p.values
    BY <1>1, <2>2 DEF Expansions
  <2> QED
    BY <2>1, <2>2 DEF Typed, Admits
<1>2. CASE ~ Listed(p) /\ Continuous(p)
  <2>1. PICK last \in Lasts(p) : list = [i \in 1..(last + 1) |-> GridPoint(p, i - 1)]
    BY <1>2 DEF Expansions
  <2>2. PICK m \in Nat : m = last + 1 /\ last \in Int
    BY <1>2, LastIs
  <2>3. /\ DOMAIN list = 1..m /\ list = [i \in 1..m |-> list[i]]
        /\ \A i \in 1..m : list[i] = GridPoint(p, i - 1)
    <3>1. list = [i \in 1..m |-> GridPoint(p, i - 1)]
      BY <2>1, <2>2, Zenon
    <3> QED
      BY <3>1, Zenon
  <2>4. \A i \in 1..m : list[i] \in p.bounds[1]..p.bounds[2]
    <3> TAKE i \in 1..m
    <3>1. i - 1 \in Nat /\ i - 1 <= last
      BY <2>2
    <3> QED
      BY <1>2, <2>3, <3>1, PointFits
  <2>5. Lists(list, m, ToSet(list))
    BY <2>3 DEF Lists, ToSet
  <2>6. ASSUME NEW v \in ToSet(list)
        PROVE  Admits(p, 0, v)
    <3>1. v \in p.bounds[1]..p.bounds[2]
      BY <2>3, <2>4 DEF ToSet
    <3>2. PICK a \in Int, b \in Int : a = p.bounds[1] /\ b = p.bounds[2] /\ a \in ToSet(p.bounds)
                                          /\ b \in ToSet(p.bounds)
      BY <1>2, BoundsAre
    <3>3. 2 * v \in (2 * a - 0)..(2 * b + 0)
      BY <3>1, <3>2
    <3> QED
      BY <1>2, <3>2, <3>3 DEF Admits
  <2> QED
    BY <2>5, <2>6, Listing
<1>3. CASE ~ Listed(p) /\ ~ Continuous(p)
  <2>1. list = <<>>
    BY <1>3 DEF Expansions
  <2>2. ToSet(list) = {}
    BY <2>1 DEF ToSet
  <2> QED
    BY <2>1, <2>2
<1> QED
  BY <1>1, <1>2, <1>3

Unit(p) == IF p.step # 0 THEN p.step ELSE (p.bounds[2] - p.bounds[1]) \div 5

\* A step of whole units is met exactly.
LEMMA PointExact ==
    ASSUME NEW p, Typed(p), Continuous(p), p.step # 0 \/ Step5(p) % 5 = 0
    PROVE  /\ Unit(p) \in Int /\ Step5(p) = 5 * Unit(p)
           /\ \A n \in Nat : GridPoint(p, n) = p.bounds[1] + n * Unit(p)
<1>1. PICK a \in Int, b \in Int, s \in Int, e \in Int :
          a = p.bounds[1] /\ b = p.bounds[2] /\ s = p.step /\ e = Step5(p)
  BY BoundsAre
<1>2. PICK u \in Int : u = Unit(p) /\ e = 5 * u
  <2>1. CASE s # 0
    BY <1>1, <2>1 DEF Unit, Step5
  <2>2. CASE s = 0
    <3>1. e = b - a
      BY <1>1, <2>2 DEF Step5
    <3>2. e % 5 = 0
      BY <1>1, <2>2
    <3>3. PICK q \in Int : q = e \div 5 /\ e = 5 * q
      BY <3>2
    <3> QED
      BY <1>1, <2>2, <3>1, <3>3 DEF Unit
  <2> QED
    BY <2>1, <2>2
<1>3. ASSUME NEW n \in Nat
      PROVE  GridPoint(p, n) = a + n * u
  <2>1. PICK t \in Int : t = n * u
    OBVIOUS
  <2>2. n * e = 5 * t
    BY <1>2, <2>1
  <2>3. GridPoint(p, n) = (2 * (5 * a + 5 * t) + 5) \div 10
    BY <1>1, <2>2 DEF GridPoint
  <2>4. (2 * (5 * a + 5 * t) + 5) \div 10 = a + t
    OBVIOUS
  <2> QED
    BY <2>1, <2>3, <2>4
<1> QED
  BY <1>1, <1>2, <1>3

LEMMA ExpansionComplete ==
    ASSUME NEW p, Typed(p), ~ Stuck(p), NEW list \in Expansions(p), IsInjective(p.values),
           Continuous(p) => p.step # 0 \/ Step5(p) % 5 = 0
    PROVE  IsInjective(list) /\ Reference(p) \subseteq ToSet(list)
<1>1. CASE Listed(p)
  <2>1. ~ Continuous(p)
    BY <1>1 DEF Listed, Continuous
  <2>2. list = p.values
    BY <1>1, <2>1 DEF Expansions
  <2> QED
    BY <1>1, <2>2 DEF Reference
<1>2. CASE ~ Listed(p) /\ Continuous(p)
  <2>1. PICK last \in Lasts(p) : list = [i \in 1..(last + 1) |-> GridPoint(p, i - 1)]
    BY <1>2 DEF Expansions
  <2>2. PICK m \in Nat : m = last + 1 /\ last \in Int
    BY <1>2, LastIs
  <2>3. PICK a \in Int, b \in Int, u \in Int :
            a = p.bounds[1] /\ b = p.bounds[2] /\ u = Unit(p) /\ Step5(p) = 5 * u
    BY <1>2, BoundsAre, PointExact
  <2>4. list = [i \in 1..m |-> GridPoint(p, i - 1)]
    BY <2>1, <2>2, Zenon
  <2>5. DOMAIN list = 1..m /\ \A i \in 1..m : list[i] = GridPoint(p, i - 1)
    BY <2>4, Zenon
  <2>6. ASSUME NEW i \in 1..m
        PROVE  i - 1 \in Nat /\ list[i] = a + (i - 1) * u
    <3>1. PICK n \in Nat : n = i - 1
      OBVIOUS
    <3>2. GridPoint(p, n) = a + n * u
      BY <1>2, <2>3, PointExact
    <3> QED
      BY <2>5, <3>1, <3>2
  <2>7. m > 0 => u > 0
    <3> SUFFICES ASSUME m > 0
                 PROVE  u > 0
      OBVIOUS
    <3>1. a <= b
      BY <1>2, <2>2, <2>3, LastIs
    <3>2. 5 * u > 0
      BY <1>2, <2>3, <3>1, LastIs
    <3> QED
      BY <3>2
  <2>8. IsInjective(list)
    <3> SUFFICES ASSUME NEW i \in 1..m, NEW j \in 1..m, list[i] = list[j]
                 PROVE  i = j
      BY <2>5 DEF IsInjective
    <3>1. PICK k \in Nat, l \in Nat : k = i - 1 /\ l = j - 1
      OBVIOUS
    <3>2. a + k * u = a + l * u
      BY <2>6, <3>1
    <3>3. u > 0
      BY <2>7
    <3>4. (k - l) * u = 0
      BY <3>2
    <3>5. k = l
      BY <3>3, <3>4
    <3> QED
      BY <3>1, <3>5
  <2>9. ASSUME NEW v \in Reference(p)
        PROVE  v \in ToSet(list)
    <3>1. /\ v \in a..b /\ v < b
          /\ \E n \in 0..(v - a) : v = a + n * u
      BY <1>2, <2>3 DEF Reference, Unit
    <3>2. PICK n \in Nat : v = a + n * u
      BY <3>1
    <3>3. n < m
      <4>1. CASE n > last
        <5>1. n * Step5(p) >= 5 * (b - a)
          BY <1>2, <2>3, <3>1, <4>1, LastIs
        <5>2. PICK t \in Int : t = n * u
          OBVIOUS
        <5>3. n * Step5(p) = 5 * t
          BY <2>3, <5>2
        <5> QED
          BY <3>1, <3>2, <5>1, <5>2, <5>3
      <4> QED
        BY <2>2, <4>1
    <3>4. PICK i \in 1..m : i = n + 1
      BY <3>3
    <3>5. list[i] = v
      BY <2>6, <3>2, <3>4
    <3> QED
      BY <2>5, <3>5 DEF ToSet
  <2> QED
    BY <2>8, <2>9
<1>3. CASE ~ Listed(p) /\ ~ Continuous(p)
  <2>1. list = <<>> /\ Reference(p) = {}
    BY <1>3 DEF Expansions, Reference
  <2> QED
    BY <2>1 DEF IsInjective
<1> QED
  BY <1>1, <1>2, <1>3

-----------------------------------------------------------------------------
(* The variants of a space.                                                    *)

SpaceTyped(space) == space \in Seq(ToSet(space)) /\ \A i \in DOMAIN space : Typed(space[i])

LEMMA MaxIndex ==
    ASSUME NEW m \in Nat, NEW T \in SUBSET (1..m), T # {}
    PROVE  \E i \in T : \A j \in T : j <= i
<1> DEFINE Q == {k \in Nat : \A S \in SUBSET (1..k) : S # {} => \E i \in S : \A j \in S : j <= i}
<1>1. 0 \in Q
  <2>1. \A S \in SUBSET (1..0) : S = {}
    OBVIOUS
  <2> QED
    BY <2>1
<1>2. ASSUME NEW k \in Nat, k \in Q
      PROVE  k + 1 \in Q
  <2> SUFFICES ASSUME NEW S \in SUBSET (1..(k + 1)), S # {}
               PROVE  \E i \in S : \A j \in S : j <= i
    OBVIOUS
  <2>1. CASE k + 1 \in S
    BY <2>1
  <2>2. CASE k + 1 \notin S
    <3>1. S \in SUBSET (1..k)
      BY <2>2
    <3> QED
      BY <1>2, <3>1
  <2> QED
    BY <2>1, <2>2
<1>3. m \in Q
  <2> HIDE DEF Q
  <2> QED
    BY <1>1, <1>2, Induction
<1> QED
  BY <1>3

\* The parameter that counts, of those in T with a name.
LastOf(space, T, n) == CHOOSE i \in T : space[i].name = n /\ \A j \in T : space[j].name = n => j <= i

LEMMA LastOfIs ==
    ASSUME NEW space, SpaceTyped(space), NEW T, T \subseteq DOMAIN space,
           NEW n, \E i \in T : space[i].name = n
    PROVE  LastOf(space, T, n) \in T /\ space[LastOf(space, T, n)].name = n
<1> DEFINE S == {i \in T : space[i].name = n}
<1>4. PICK m \in Nat : DOMAIN space = 1..m
  BY LenProperties DEF SpaceTyped
<1>1. S \in SUBSET (1..m) /\ S # {}
  BY <1>4
<1> HIDE DEF S
<1>2. PICK i \in S : \A j \in S : j <= i
  BY <1>1, MaxIndex
<1>3. i \in T /\ space[i].name = n /\ \A j \in T : space[j].name = n => j <= i
  BY <1>2 DEF S
<1> QED
  BY <1>3 DEF LastOf

\* The variants of a grid come from one product of expansions.
FromProduct(space, variants, lists, C, V) ==
    /\ \A i \in DOMAIN space : lists[i] \in Expansions(space[i]) /\ lists[i] \in Seq(V)
    /\ Product(C, Len(space), lists, V)
    /\ DOMAIN C = 1..Len(C) /\ Len(C) \in Nat
    /\ variants = [x \in DOMAIN C |-> ValuesOf(space, C[x])]

LEMMA GridIs ==
    ASSUME NEW space, SpaceTyped(space), \A i \in DOMAIN space : ~ Stuck(space[i]),
           NEW variants \in GridVariants(space)
    PROVE  \E lists, C, V : FromProduct(space, variants, lists, C, V)
<1>1. PICK m \in Nat : m = Len(space) /\ DOMAIN space = 1..m
  BY LenProperties DEF SpaceTyped
<1> DEFINE sets == [i \in DOMAIN space |-> Expansions(space[i])]
<1>2. PICK lists \in OneOfEach(sets) :
          variants = [c \in DOMAIN Combos(lists) |-> ValuesOf(space, Combos(lists)[c])]
  BY DEF GridVariants
<1>3. /\ DOMAIN lists = 1..m /\ lists = [i \in 1..m |-> lists[i]]
      /\ \A i \in 1..m : lists[i] \in Expansions(space[i])
  <2>1. DOMAIN sets = 1..m /\ \A i \in 1..m : sets[i] = Expansions(space[i])
    BY <1>1
  <2> HIDE DEF sets
  <2>2. lists \in [1..m -> UNION {sets[i] : i \in 1..m}] /\ \A i \in 1..m : lists[i] \in sets[i]
    BY <2>1 DEF OneOfEach
  <2> QED
    BY <2>1, <2>2
<1> DEFINE V == UNION {ToSet(lists[i]) : i \in 1..m}
           C == Combos(lists)
<1>4. ASSUME NEW i \in 1..m
      PROVE  lists[i] \in Seq(V)
  <2>1. lists[i] \in Seq(ToSet(lists[i]))
    BY <1>1, <1>3, ExpansionTyped DEF SpaceTyped
  <2>2. ToSet(lists[i]) \subseteq V
    OBVIOUS
  <2>3. PICK s, S : s = lists[i] /\ S = ToSet(lists[i]) /\ s \in Seq(S) /\ S \subseteq V
    BY <2>1, <2>2
  <2>4. s \in Seq(V)
    BY <2>3
  <2> QED
    BY <2>3, <2>4
<1> HIDE DEF V
<1>5. Len(lists) = m
  <2>1. Lists(lists, m, Seq(V))
    BY <1>3, <1>4 DEF Lists
  <2> QED
    BY <2>1, Listing
<1>6. Product(C, m, lists, V)
  BY <1>4, <1>5, CombosAre
<1>7. DOMAIN C = 1..Len(C) /\ Len(C) \in Nat
  BY <1>6, LenProperties DEF Product
<1>8. FromProduct(space, variants, lists, C, V)
  BY <1>1, <1>2, <1>3, <1>4, <1>6, <1>7 DEF FromProduct
<1> QED
  BY <1>8

\* A variant gives every name the value of a parameter of that name.
LEMMA ValueFrom ==
    ASSUME NEW space, SpaceTyped(space), NEW f, NEW n \in Named(space)
    PROVE  LET i == LastOf(space, DOMAIN space, n) IN
           i \in DOMAIN space /\ space[i].name = n /\ ValuesOf(space, f)[n] = f[i]
<1>1. \E i \in DOMAIN space : space[i].name = n
  BY DEF Named
<1>2. PICK T : T = DOMAIN space /\ T \subseteq DOMAIN space /\ \E i \in T : space[i].name = n
  BY <1>1
<1>3. /\ LastOf(space, DOMAIN space, n) \in DOMAIN space
      /\ space[LastOf(space, DOMAIN space, n)].name = n
  BY <1>2, LastOfIs
<1>4. ValuesOf(space, f)[n] = f[LastOf(space, DOMAIN space, n)]
  BY Zenon DEF ValuesOf, LastOf
<1> QED
  BY <1>3, <1>4

\* Names that are all different give every value of a combination a name of its own.
LEMMA ValueAt ==
    ASSUME NEW space, SpaceTyped(space), IsInjective([i \in DOMAIN space |-> space[i].name]),
           NEW f, NEW i \in DOMAIN space
    PROVE  ValuesOf(space, f)[space[i].name] = f[i]
<1>1. space[i].name \in Named(space)
  BY DEF Named
<1>2. PICK j \in DOMAIN space :
          space[j].name = space[i].name /\ ValuesOf(space, f)[space[i].name] = f[j]
  BY <1>1, ValueFrom
<1>3. j = i
  BY <1>2 DEF IsInjective
<1> QED
  BY <1>2, <1>3

LEMMA UniformFits ==
    ASSUME NEW p, Typed(p), Continuous(p), NEW v \in Uniform(p)
    PROVE  Admits(p, RandomUnit, v)
<1>1. PICK a \in Int, b \in Int :
          a = p.bounds[1] /\ b = p.bounds[2] /\ a \in ToSet(p.bounds) /\ b \in ToSet(p.bounds)
  BY BoundsAre
<1>2. PICK low \in {a, b}, high \in {a, b} :
          2 * v \in (2 * low - RandomUnit)..(2 * high + RandomUnit)
  BY <1>1 DEF Uniform
<1> QED
  BY <1>1, <1>2 DEF Admits

LEMMA RandomFits ==
    ASSUME NEW space, SpaceTyped(space), NEW values \in RandomVariant(space)
    PROVE  /\ DOMAIN values \subseteq Named(space)
           /\ \A n \in DOMAIN values : \E i \in DOMAIN space :
                 space[i].name = n /\ Admits(space[i], RandomUnit, values[n])
<1> DEFINE given == {i \in DOMAIN space : RandomValues(space[i]) # {}}
<1>1. PICK f : /\ \A i \in given : f[i] \in RandomValues(space[i])
               /\ values = [n \in {space[i].name : i \in given} |-> f[LastOf(space, given, n)]]
  BY DEF RandomVariant, LastOf
<1>2. given \subseteq DOMAIN space
  OBVIOUS
<1> HIDE DEF given
<1>3. DOMAIN values = {space[i].name : i \in given}
  BY <1>1
<1>4. DOMAIN values \subseteq Named(space)
  BY <1>2, <1>3 DEF Named
<1>5. ASSUME NEW n \in DOMAIN values
      PROVE  \E i \in DOMAIN space : space[i].name = n /\ Admits(space[i], RandomUnit, values[n])
  <2>1. \E i \in given : space[i].name = n
    BY <1>3
  <2>2. PICK i \in given : i = LastOf(space, given, n) /\ space[i].name = n
    BY <1>2, <2>1, LastOfIs
  <2>3. values[n] = f[i]
    BY <1>1, <1>3, <2>2
  <2>4. values[n] \in RandomValues(space[i])
    BY <1>1, <2>3
  <2>5. Admits(space[i], RandomUnit, values[n])
    <3>1. CASE Continuous(space[i])
      <4>1. Typed(space[i]) /\ values[n] \in Uniform(space[i])
        BY <1>2, <2>4, <3>1 DEF SpaceTyped, RandomValues
      <4> QED
        BY <3>1, <4>1, UniformFits
    <3>2. CASE ~ Continuous(space[i])
      BY <2>4, <3>2 DEF RandomValues, Admits
    <3> QED
      BY <3>1, <3>2
  <2> QED
    BY <1>2, <2>2, <2>5
<1> QED
  BY <1>4, <1>5

LEMMA GridFits ==
    ASSUME NEW space, SpaceTyped(space), \A i \in DOMAIN space : ~ Stuck(space[i]),
           NEW variants \in GridVariants(space), NEW k \in DOMAIN variants
    PROVE  /\ DOMAIN variants[k] = Named(space)
           /\ \A n \in DOMAIN variants[k] : \E i \in DOMAIN space :
                 space[i].name = n /\ Admits(space[i], 0, variants[k][n])
<1>5. PICK m \in Nat : m = Len(space) /\ DOMAIN space = 1..m
  BY LenProperties DEF SpaceTyped
<1>1. PICK lists, C, V : FromProduct(space, variants, lists, C, V)
  BY GridIs
<1>2. k \in DOMAIN C /\ variants[k] = ValuesOf(space, C[k])
  BY <1>1 DEF FromProduct
<1>3. DOMAIN variants[k] = Named(space)
  BY <1>2 DEF ValuesOf
<1>4. ASSUME NEW n \in Named(space)
      PROVE  \E i \in DOMAIN space : space[i].name = n /\ Admits(space[i], 0, variants[k][n])
  <2>1. PICK i \in DOMAIN space : space[i].name = n /\ variants[k][n] = C[k][i]
    <3>1. PICK f : f = C[k] /\ variants[k] = ValuesOf(space, f)
      BY <1>2
    <3>2. \E i \in DOMAIN space : space[i].name = n /\ ValuesOf(space, f)[n] = f[i]
      BY ValueFrom
    <3> QED
      BY <3>1, <3>2
  <2>2. i \in 1..Len(space)
    BY <1>5
  <2>3. C[k][i] \in ToSet(lists[i])
    BY <1>1, <1>2, <2>2 DEF FromProduct, Product, Members
  <2>4. lists[i] \in Expansions(space[i]) /\ Typed(space[i]) /\ ~ Stuck(space[i])
    BY <1>1 DEF FromProduct, SpaceTyped
  <2>5. Admits(space[i], 0, C[k][i])
    BY <2>3, <2>4, ExpansionTyped
  <2> QED
    BY <2>1, <2>5
<1> QED
  BY <1>3, <1>4

LEMMA GridIsComplete ==
    ASSUME NEW space, SpaceTyped(space), \A i \in DOMAIN space : ~ Stuck(space[i]), Plain(space),
           NEW variants \in GridVariants(space)
    PROVE  /\ IsInjective(variants)
           /\ \A f \in OneOfEach([i \in DOMAIN space |-> Reference(space[i])]) :
                 ValuesOf(space, f) \in ToSet(variants)
           /\ variants = <<>> => \E i \in DOMAIN space : <<>> \in Expansions(space[i])
<1>1. PICK lists, C, V : FromProduct(space, variants, lists, C, V)
  BY GridIs
<1>2. PICK m \in Nat : m = Len(space) /\ DOMAIN space = 1..m
  BY LenProperties DEF SpaceTyped
<1>3. /\ C \in Seq(Tuples(m, V)) /\ Members(C, m, lists) /\ Complete(C, m, lists, V) /\ Single(C, m, lists)
      /\ DOMAIN C = 1..Len(C) /\ Len(C) \in Nat
  BY <1>1, <1>2 DEF FromProduct, Product
<1>4. DOMAIN variants = DOMAIN C /\ \A x \in DOMAIN C : variants[x] = ValuesOf(space, C[x])
  BY <1>1 DEF FromProduct
<1>5. ASSUME NEW i \in 1..m
      PROVE  /\ lists[i] \in Expansions(space[i]) /\ lists[i] \in Seq(V)
             /\ IsInjective(lists[i]) /\ Reference(space[i]) \subseteq ToSet(lists[i])
  <2>1. lists[i] \in Expansions(space[i]) /\ lists[i] \in Seq(V)
    BY <1>1, <1>2 DEF FromProduct
  <2>2. /\ Typed(space[i]) /\ ~ Stuck(space[i]) /\ IsInjective(space[i].values)
        /\ Continuous(space[i]) => space[i].step # 0 \/ Step5(space[i]) % 5 = 0
    BY <1>2 DEF SpaceTyped, Plain
  <2> QED
    BY <2>1, <2>2, ExpansionComplete
<1>6. ASSUME NEW f
      PROVE  \A i \in 1..m : ValuesOf(space, f)[space[i].name] = f[i]
  BY <1>2, ValueAt DEF Plain
<1>7. IsInjective(variants)
  <2> SUFFICES ASSUME NEW x \in DOMAIN C, NEW y \in DOMAIN C, variants[x] = variants[y]
               PROVE  x = y
    BY <1>4 DEF IsInjective
  <2>1. IsInjective(C)
    BY <1>3, <1>5 DEF Single
  <2>2. C[x] \in Tuples(m, V) /\ C[y] \in Tuples(m, V)
    BY <1>3, LenProperties
  <2>3. ValuesOf(space, C[x]) = ValuesOf(space, C[y])
    BY <1>4
  <2>4. \A i \in 1..m : C[x][i] = C[y][i]
    BY <1>6, <2>3
  <2>5. C[x] = C[y]
    BY <2>2, <2>4 DEF Tuples
  <2> QED
    BY <2>1, <2>5 DEF IsInjective
<1>8. ASSUME NEW f, DOMAIN f = 1..m, f = [i \in 1..m |-> f[i]], \A i \in 1..m : f[i] \in ToSet(lists[i])
      PROVE  \E x \in DOMAIN C : C[x] = f
  <2>1. ASSUME NEW i \in 1..m
        PROVE  f[i] \in V
    <3>1. PICK j \in DOMAIN lists[i] : f[i] = lists[i][j]
      BY <1>8 DEF ToSet
    <3>2. lists[i] \in Seq(V)
      BY <1>5
    <3> QED
      BY <3>1, <3>2, LenProperties
  <2>2. f \in Tuples(m, V)
    BY <1>8, <2>1 DEF Tuples
  <2> QED
    BY <1>3, <1>8, <2>2 DEF Complete
<1>9. ASSUME NEW f \in OneOfEach([i \in DOMAIN space |-> Reference(space[i])])
      PROVE  ValuesOf(space, f) \in ToSet(variants)
  <2> DEFINE sets == [i \in DOMAIN space |-> Reference(space[i])]
  <2>1. DOMAIN sets = 1..m /\ \A i \in 1..m : sets[i] = Reference(space[i])
    BY <1>2
  <2>2. f \in OneOfEach(sets)
    OBVIOUS
  <2> HIDE DEF sets
  <2>3. f \in [1..m -> UNION {sets[i] : i \in 1..m}] /\ \A i \in 1..m : f[i] \in sets[i]
    BY <2>1, <2>2 DEF OneOfEach
  <2>4. DOMAIN f = 1..m /\ f = [i \in 1..m |-> f[i]]
    BY <2>3
  <2>5. \A i \in 1..m : f[i] \in ToSet(lists[i])
    BY <1>5, <2>1, <2>3
  <2>6. PICK x \in DOMAIN C : C[x] = f
    BY <1>8, <2>4, <2>5
  <2> QED
    BY <1>4, <2>6 DEF ToSet
<1>10. ASSUME variants = <<>>
       PROVE  \E i \in DOMAIN space : <<>> \in Expansions(space[i])
  <2>1. DOMAIN C = {}
    BY <1>4, <1>10
  <2>2. PICK i \in 1..m : ToSet(lists[i]) = {}
    <3> SUFFICES ASSUME \A i \in 1..m : ToSet(lists[i]) # {}
                 PROVE  FALSE
      OBVIOUS
    <3> DEFINE f == [i \in 1..m |-> CHOOSE v \in ToSet(lists[i]) : TRUE]
    <3>1. DOMAIN f = 1..m /\ f = [i \in 1..m |-> f[i]] /\ \A i \in 1..m : f[i] \in ToSet(lists[i])
      OBVIOUS
    <3> HIDE DEF f
    <3> QED
      BY <1>8, <2>1, <3>1
  <2>3. lists[i] = <<>>
    <3>1. lists[i] \in Seq(V) /\ DOMAIN lists[i] = {}
      BY <1>5, <2>2 DEF ToSet
    <3>2. PICK s \in Seq(V) : s = lists[i] /\ DOMAIN s = {}
      BY <3>1
    <3>3. Len(s) = 0
      <4>1. Len(s) \in Nat /\ 1..Len(s) = {}
        BY <3>2, LenProperties
      <4>2. CASE Len(s) # 0
        <5>1. 1 \in 1..Len(s)
          BY <4>1, <4>2
        <5> QED
          BY <4>1, <5>1
      <4> QED
        BY <4>2
    <3> QED
      BY <3>2, <3>3, EmptySeq
  <2> QED
    BY <1>2, <1>5, <2>3
<1> QED
  BY <1>7, <1>9, <1>10

-----------------------------------------------------------------------------
(* Every experiment is one that a request asked for.                           *)

Made(e) ==
    /\ e.space \in Spaces /\ e.given \in Given /\ e.share \in 0..Buckets
    /\ e.strategy \in {"ab_test", "grid", "random"}
    /\ e.variants \in VariantsFor(e.space, e.strategy, e.given)
    /\ e.given = <<>> /\ e.strategy = "grid" => \A i \in DOMAIN e.space : ~ Stuck(e.space[i])

AllMade == \A c \in DOMAIN experiments : Made(experiments[c])

LEMMA MadeKept == AllMade /\ [Next]_vars => AllMade'
<1> SUFFICES ASSUME AllMade, [Next]_vars
             PROVE  AllMade'
  OBVIOUS
<1>1. CASE UNCHANGED vars
  BY <1>1 DEF vars, AllMade
<1>2. CASE Next
  <2>1. PICK c \in Calls, space \in Spaces, strategy \in {"ab_test", "grid", "random"},
             given \in Given, share \in Shares : Create(c, space, strategy, given, share)
    BY <1>2 DEF Next
  <2>2. CASE UNCHANGED experiments
    BY <2>2 DEF AllMade
  <2>3. CASE ~ (given = <<>> /\ strategy = "grid" /\ \E i \in DOMAIN space : Stuck(space[i]))
    <3> DEFINE row(variants) == [space |-> space, strategy |-> strategy, given |-> given,
                                 share |-> share, variants |-> variants]
    <3>1. PICK variants \in VariantsFor(space, strategy, given) :
              experiments' = [d \in DOMAIN experiments \cup {c} |->
                                  IF d = c THEN row(variants) ELSE experiments[d]]
      BY <2>1, <2>3 DEF Create
    <3>2. share \in 0..Buckets
      BY <2>1 DEF Create, Accepted
    <3>3. /\ row(variants).space = space /\ row(variants).strategy = strategy
          /\ row(variants).given = given /\ row(variants).share = share
          /\ row(variants).variants = variants
      OBVIOUS
    <3> HIDE DEF row
    <3>4. Made(row(variants))
      BY <2>3, <3>1, <3>2, <3>3 DEF Made
    <3>5. \A d \in DOMAIN experiments' : experiments'[d] = row(variants) \/
                                          (d \in DOMAIN experiments /\ experiments'[d] = experiments[d])
      BY <3>1
    <3> QED
      BY <3>4, <3>5 DEF AllMade, Made
  <2> QED
    BY <2>1, <2>2, <2>3 DEF Create
<1> QED
  BY <1>1, <1>2

LEMMA EverMade == Spec => []AllMade
<1>1. Init => AllMade
  BY DEF Init, AllMade
<1> QED
  BY <1>1, MadeKept, PTL DEF Spec

LEMMA SpacesTyped ==
    ASSUME NEW space \in Spaces
    PROVE  SpaceTyped(space)
BY RequestsAssumption DEF SpaceTyped, Typed

\* The variants are a list.
LEMMA VariantsListed ==
    ASSUME NEW e, Made(e)
    PROVE  Len(e.variants) \in Nat /\ DOMAIN e.variants = 1..Len(e.variants)
<1>1. CASE e.given # <<>>
  <2>1. e.variants = e.given
    BY <1>1 DEF Made, VariantsFor
  <2>2. e.given \in Seq(ToSet(e.given))
    BY RequestsAssumption DEF Made
  <2>3. PICK s : s = e.variants /\ s \in Seq(ToSet(s))
    BY <2>1, <2>2
  <2> QED
    BY <2>3, LenProperties
<1>2. CASE e.given = <<>> /\ e.strategy = "grid"
  <2>1. e.variants \in GridVariants(e.space) /\ SpaceTyped(e.space)
    BY <1>2, SpacesTyped DEF Made, VariantsFor
  <2>2. PICK lists, C, V : FromProduct(e.space, e.variants, lists, C, V)
    BY <1>2, <2>1, GridIs DEF Made
  <2>3. PICK n \in Nat : n = Len(C) /\ DOMAIN C = 1..n
    BY <2>2 DEF FromProduct
  <2>4. e.variants = [x \in 1..n |-> ValuesOf(e.space, C[x])]
    BY <2>2, <2>3 DEF FromProduct
  <2>5. PICK s : s = e.variants /\ s = [x \in 1..n |-> ValuesOf(e.space, C[x])]
    BY <2>4
  <2>6. Lists(s, n, {ValuesOf(e.space, C[x]) : x \in 1..n})
    BY <2>5 DEF Lists
  <2>7. Len(s) = n
    BY <2>6, Listing
  <2> QED
    BY <2>5, <2>7
<1>3. CASE e.given = <<>> /\ e.strategy # "grid"
  <2>1. e.variants \in [1..Count -> RandomVariant(e.space)]
    BY <1>3 DEF Made, VariantsFor, RandomVariants
  <2>2. PICK s : s = e.variants /\ s \in [1..Count -> RandomVariant(e.space)]
    BY <2>1
  <2>3. Lists(s, Count, RandomVariant(e.space))
    BY <2>2 DEF Lists
  <2>4. Len(s) = Count
    BY <2>3, Listing
  <2> QED
    BY <2>2, <2>4
<1> QED
  BY <1>1, <1>2, <1>3

-----------------------------------------------------------------------------
\* The types, and that a request that hung has created nothing.
THEOREM TypeCorrect == Spec => []TypeOK
BY Start, TypesKept, PTL DEF Spec

\* The keys of an experiment are keys of every experiment with as many variants and at
\* least its traffic, on the variants of the same numbers: for any granularity, any
\* shares and whichever of them the float product falls short of.
THEOREM TrafficIsNested == Spec => []TrafficNests
<1>1. TypeOK => TrafficNests
  <2> SUFFICES ASSUME TypeOK,
                      NEW c \in DOMAIN experiments, NEW d \in DOMAIN experiments,
                      NEW n, n = Len(experiments[c].variants),
                      experiments[c].share <= experiments[d].share,
                      NEW h \in Hashes(n), Place(h, n, experiments[c].share) # 0
               PROVE  Place(h, n, experiments[d].share) = Place(h, n, experiments[c].share)
      BY DEF TrafficNests
  <2>1. experiments[c].share \in 0..Buckets /\ experiments[d].share \in 0..Buckets
        BY DEF TypeOK
  <2>2. QED BY <2>1, PlaceStays
<1>2. QED BY <1>1, TypeCorrect, PTL

\* The hashes an experiment places are those of its share, less one bucket at most, all
\* of them at a full share; no variant gets more than one bucket more than another, and
\* none is starved where there are at least as many buckets of traffic as variants: for
\* any number of variants, any granularity and any shares that fall short.
THEOREM TrafficIsDivided == Spec => []FairSplit
<1>1. AllMade => FairSplit
  <2> SUFFICES ASSUME NEW e, Made(e), NEW n, n = Len(e.variants), n > 0
               PROVE  LET placed == Cardinality({h \in Hashes(n) : Place(h, n, e.share) # 0}) IN
                      /\ placed \in {n * e.share, n * (e.share - 1)}
                      /\ e.share = Buckets => placed = Buckets * n
                      /\ \A v, w \in 1..n : Placed(n, e.share, v) - Placed(n, e.share, w) <= n
                      /\ e.share > n => \A v \in 1..n : Placed(n, e.share, v) > 0
    BY Zenon DEF FairSplit, AllMade, Experiment
  <2>1. n \in Nat \ {0}
    BY VariantsListed
  <2>2. e.share \in 0..Buckets
    BY DEF Made
  <2> QED
    BY <2>1, <2>2, SplitIsFair
<1> QED
  BY <1>1, EverMade, PTL

\* No generated variant sets a parameter to anything its declaration does not admit, or
\* one that nobody declared, for any spaces, steps, bounds and lists of values.
THEOREM GeneratedVariantsFit == Spec => []VariantsFit
<1>1. AllMade => VariantsFit
  <2> SUFFICES ASSUME NEW e, Made(e), e.given = <<>>, NEW k \in DOMAIN e.variants
               PROVE  LET values == e.variants[k]
                          slack == IF e.strategy = "grid" THEN 0 ELSE RandomUnit
                      IN  /\ DOMAIN values \subseteq Named(e.space)
                          /\ \A n \in DOMAIN values : \E i \in DOMAIN e.space :
                                e.space[i].name = n /\ Admits(e.space[i], slack, values[n])
                          /\ e.strategy = "grid" => DOMAIN values = Named(e.space)
    BY Zenon DEF VariantsFit, Generated, AllMade, Experiment
  <2>1. SpaceTyped(e.space)
    BY SpacesTyped DEF Made
  <2>2. CASE e.strategy = "grid"
    <3>1. e.variants \in GridVariants(e.space) /\ \A i \in DOMAIN e.space : ~ Stuck(e.space[i])
      BY <2>2 DEF Made, VariantsFor
    <3> QED
      BY <2>1, <2>2, <3>1, GridFits
  <2>3. CASE e.strategy # "grid"
    <3>1. e.variants \in [1..Count -> RandomVariant(e.space)]
      BY <2>3 DEF Made, VariantsFor, RandomVariants
    <3>2. e.variants[k] \in RandomVariant(e.space)
      BY <3>1
    <3> QED
      BY <2>1, <2>3, <3>2, RandomFits
  <2> QED
    BY <2>2, <2>3
<1> QED
  BY <1>1, EverMade, PTL

\* A grid over distinct names and values tries each combination of the values it has to
\* try in exactly one variant, for any number of parameters and values; it is empty
\* only if a parameter expands to nothing.
THEOREM GridsAreComplete == Spec => []GridComplete
<1>1. AllMade => GridComplete
  <2> SUFFICES ASSUME NEW e, Made(e), e.given = <<>>, e.strategy = "grid", Plain(e.space)
               PROVE  /\ IsInjective(e.variants)
                      /\ \A f \in OneOfEach([i \in DOMAIN e.space |-> Reference(e.space[i])]) :
                            ValuesOf(e.space, f) \in ToSet(e.variants)
                      /\ e.variants = <<>> => \E i \in DOMAIN e.space : <<>> \in Expansions(e.space[i])
    BY Zenon DEF GridComplete, Generated, AllMade, Experiment
  <2>1. SpaceTyped(e.space)
    BY SpacesTyped DEF Made
  <2>2. e.variants \in GridVariants(e.space) /\ \A i \in DOMAIN e.space : ~ Stuck(e.space[i])
    BY DEF Made, VariantsFor
  <2> QED
    BY <2>1, <2>2, GridIsComplete
<1> QED
  BY <1>1, EverMade, PTL
=============================================================================
