------------------------- MODULE RateLimiterProofs -------------------------
(* Proofs about RateLimiter: what it admits and what it refuses, for any       *)
(* number of requests, limit, window, delay and Redis failures.                *)
EXTENDS RateLimiter, FiniteSetTheorems, TLAPS

\* Redis drops the key too late to matter, and forgets an admitted request only
\* when no request that is still to be decided can have it in its window; what it
\* remembers comes from requests that were answered.
Memory ==
    /\ \A s \in recorded : s + Window <= expires
    /\ \A r \in Requests : reply[r] = "ok" => stamp[r] \in recorded \/ stamp[r] + Window <= clock
    /\ \A s \in recorded : \E r \in Requests : pc[r] = "answered" /\ stamp[r] = s

IInv == TypeOK /\ Memory

-----------------------------------------------------------------------------
(* Type correctness. *)
LEMMA TypeInit == Init => TypeOK
BY ConstantsAssumption DEF Init, TypeOK

LEMMA RecordType ==
    ASSUME TypeOK, NEW r \in Requests, Record(r)
    PROVE  recorded' \subseteq 0..clock /\ expires' \in Nat
<1>1. clock \in Nat /\ stamp[r] \in Nat /\ stamp[r] <= clock /\ Window \in Nat
    BY ConstantsAssumption DEF TypeOK
<1>2. Kept(r) \subseteq 0..clock
    BY DEF TypeOK, Kept
<1>3. stamp[r] \in 0..clock
    BY <1>1
<1> QED BY <1>1, <1>2, <1>3 DEF Record

LEMMA TypeStep == TypeOK /\ [Next]_vars => TypeOK'
<1> SUFFICES ASSUME TypeOK, [Next]_vars PROVE TypeOK'
    OBVIOUS
<1> USE ConstantsAssumption
<1>1. CASE Tick
    <2>1. clock \in Nat /\ clock' = clock + 1 /\ clock' \in 0..MaxTime
        BY <1>1 DEF TypeOK, Tick
    <2>2. recorded' \subseteq recorded
        BY <1>1 DEF Tick
    <2>3. recorded' \subseteq 0..clock'
        BY <2>1, <2>2 DEF TypeOK
    <2>4. \A r \in Requests : stamp[r] <= clock' /\ (pc[r] = "sent" => clock' <= stamp[r] + MaxDelay)
        BY <1>1, <2>1 DEF TypeOK, Tick
    <2> QED BY <1>1, <2>1, <2>3, <2>4 DEF TypeOK, Tick
<1>2. ASSUME NEW r \in Requests, TakeTime(r) PROVE TypeOK'
    BY <1>2 DEF TypeOK, TakeTime
<1>3. ASSUME NEW r \in Requests, Execute(r) PROVE TypeOK'
    <2>1. recorded' \subseteq 0..clock /\ expires' \in Nat
        BY <1>3, RecordType DEF Execute
    <2>2. Verdict(r) \in {"ok", "429"}
        BY DEF Verdict
    <2> QED BY <1>3, <2>1, <2>2 DEF TypeOK, Execute, Answer
<1>4. ASSUME NEW r \in Requests, RedisRaises(r) PROVE TypeOK'
    <2>1. recorded' \subseteq 0..clock /\ expires' \in Nat
        BY <1>4, RecordType DEF RedisRaises, TypeOK
    <2> QED BY <1>4, <2>1 DEF TypeOK, RedisRaises, Answer
<1>5. CASE UNCHANGED vars
    BY <1>5 DEF TypeOK, vars
<1> QED BY <1>1, <1>2, <1>3, <1>4, <1>5 DEF Next

\* Types hold in every reachable state.
THEOREM TypeCorrect == Spec => []TypeOK
BY TypeInit, TypeStep, PTL DEF Spec

-----------------------------------------------------------------------------
(* The memory of Redis. *)
LEMMA MemoryInit == Init => Memory
BY DEF Init, Memory

\* Running the transaction for r keeps everything that matters.
LEMMA RecordKeepsMemory ==
    ASSUME TypeOK, Memory, NEW r \in Requests, pc[r] = "sent", Record(r),
           UNCHANGED <<clock, stamp>>, NEW a, Answer(r, a)
    PROVE  Memory'
<1> USE ConstantsAssumption
<1>1. stamp[r] \in 0..clock /\ clock \in Nat
    BY DEF TypeOK
<1>2. \A s \in recorded' : s + Window <= expires'
    BY <1>1 DEF TypeOK, Record, Kept
<1>3. \A q \in Requests : reply'[q] = "ok" =>
          stamp'[q] \in recorded' \/ stamp'[q] + Window <= clock'
    <2> SUFFICES ASSUME NEW q \in Requests, reply'[q] = "ok"
                 PROVE  stamp[q] \in recorded' \/ stamp[q] + Window <= clock
        OBVIOUS
    <2>1. CASE q = r
        BY <2>1 DEF Record
    <2>2. CASE q # r
        <3>1. stamp[q] \in recorded \/ stamp[q] + Window <= clock
            BY <2>2 DEF Answer, Memory, TypeOK
        <3> QED BY <1>1, <3>1 DEF Record, Kept, TypeOK
    <2> QED BY <2>1, <2>2
<1>4. \A s \in recorded' : \E q \in Requests : pc'[q] = "answered" /\ stamp'[q] = s
    BY DEF Record, Kept, Memory, Answer, TypeOK
<1> QED BY <1>2, <1>3, <1>4 DEF Memory

LEMMA MemoryStep == TypeOK /\ Memory /\ [Next]_vars => Memory'
<1> SUFFICES ASSUME TypeOK, Memory, [Next]_vars PROVE Memory'
    OBVIOUS
<1> USE ConstantsAssumption
<1>1. CASE Tick
    <2>1. clock' = clock + 1 /\ recorded' \in {{}, recorded} /\ expires' = expires
          /\ UNCHANGED <<pc, stamp, reply>> /\ (recorded' = {} => recorded = {} \/ clock' >= expires)
        BY <1>1 DEF Tick
    <2>2. \A r \in Requests : reply[r] = "ok" =>
              stamp[r] \in recorded' \/ stamp[r] + Window <= clock'
        <3> SUFFICES ASSUME NEW r \in Requests, reply[r] = "ok", stamp[r] \notin recorded'
                     PROVE  stamp[r] + Window <= clock'
            OBVIOUS
        <3>1. stamp[r] \in Nat /\ clock \in Nat /\ expires \in Nat
            BY DEF TypeOK
        <3>2. CASE stamp[r] \in recorded
            BY <2>1, <3>1, <3>2 DEF Memory
        <3>3. CASE stamp[r] \notin recorded
            BY <2>1, <3>1, <3>3 DEF Memory
        <3> QED BY <3>2, <3>3
    <2> QED BY <2>1, <2>2 DEF Memory
<1>2. ASSUME NEW r \in Requests, TakeTime(r) PROVE Memory'
    BY <1>2 DEF TypeOK, TakeTime, Memory
<1>3. ASSUME NEW r \in Requests, Execute(r) PROVE Memory'
    BY <1>3, RecordKeepsMemory DEF Execute, Answer
<1>4. ASSUME NEW r \in Requests, RedisRaises(r) PROVE Memory'
    <2>1. CASE Record(r)
        BY <1>4, <2>1, RecordKeepsMemory DEF RedisRaises, Answer
    <2>2. CASE UNCHANGED <<recorded, expires>>
        BY <1>4, <2>2 DEF RedisRaises, Answer, Memory, TypeOK
    <2> QED BY <1>4, <2>1, <2>2 DEF RedisRaises
<1>5. CASE UNCHANGED vars
    BY <1>5 DEF Memory, vars
<1> QED BY <1>1, <1>2, <1>3, <1>4, <1>5 DEF Next

LEMMA IndInv == Spec => []IInv
<1>1. Init => IInv
    BY TypeInit, MemoryInit DEF IInv
<1>2. IInv /\ [Next]_vars => IInv'
    BY TypeStep, MemoryStep DEF IInv
<1> QED BY <1>1, <1>2, PTL DEF Spec

-----------------------------------------------------------------------------
(* What is admitted. *)
LEMMA KeptFinite ==
    ASSUME TypeOK, NEW r \in Requests
    PROVE  IsFiniteSet(recorded) /\ IsFiniteSet(Kept(r)) /\ Cardinality(Kept(r)) \in Nat
<1>1. IsFiniteSet(0..clock)
    BY FS_Interval, ConstantsAssumption DEF TypeOK
<1>2. IsFiniteSet(recorded)
    BY <1>1, FS_Subset DEF TypeOK
<1>3. IsFiniteSet(Kept(r))
    BY <1>2, FS_Subset DEF Kept
<1> QED BY <1>2, <1>3, FS_CardinalityType

LEMMA OneMore ==
    ASSUME NEW S, NEW x, IsFiniteSet(S)
    PROVE  Cardinality(S \cup {x}) <= Cardinality(S) + 1
<1>1. Cardinality(S) \in Nat
    BY FS_CardinalityType
<1>2. Cardinality(S \cup {x}) = IF x \in S THEN Cardinality(S) ELSE Cardinality(S) + 1
    BY FS_AddElement, Zenon
<1>3. Cardinality(S \cup {x}) \in {Cardinality(S), Cardinality(S) + 1}
    BY <1>2, Zenon
<1> QED BY <1>1, <1>3

\* Admitting r leaves at most Rpm admitted times in any window r falls into: the
\* others are all among the Kept(r) that were counted.
LEMMA AdmitBound ==
    ASSUME IInv, NEW r \in Requests, Execute(r), Verdict(r) = "ok", NEW t \in 0..MaxTime,
           t - (Window - MaxDelay) < stamp[r], stamp[r] <= t
    PROVE  Cardinality(AdmittedIn(t, Window - MaxDelay)') <= Rpm
<1> USE ConstantsAssumption
<1> DEFINE adm == AdmittedIn(t, Window - MaxDelay)'
<1>1. pc[r] = "sent" /\ clock <= stamp[r] + MaxDelay /\ clock \in Nat /\ stamp[r] \in Nat
    BY DEF IInv, TypeOK, Execute, Answer
<1>2. adm \subseteq Kept(r) \cup {stamp[r]}
    <2> SUFFICES ASSUME NEW q \in Requests, q # r, reply[q] = "ok",
                        t - (Window - MaxDelay) < stamp[q], stamp[q] <= t
                 PROVE  stamp[q] \in Kept(r)
        BY DEF AdmittedIn, Execute, Answer, IInv, TypeOK
    <2>1. stamp[q] \in Nat
        BY DEF IInv, TypeOK
    <2>2. stamp[q] + Window > clock
        BY <1>1, <2>1
    <2>3. stamp[q] \in recorded
        BY <1>1, <2>1, <2>2 DEF IInv, Memory
    <2> QED BY <1>1, <2>1, <2>3 DEF Kept
<1>3. Cardinality(Kept(r)) < Rpm
    BY KeptFinite DEF Verdict, IInv
<1>4. IsFiniteSet(Kept(r) \cup {stamp[r]}) /\ Cardinality(Kept(r) \cup {stamp[r]}) <= Rpm
    <2>1. IsFiniteSet(Kept(r)) /\ Cardinality(Kept(r)) \in Nat
        BY KeptFinite DEF IInv
    <2>2. IsFiniteSet(Kept(r) \cup {stamp[r]})
        BY <2>1, FS_AddElement
    <2>3. Cardinality(Kept(r) \cup {stamp[r]}) <= Cardinality(Kept(r)) + 1
        BY <2>1, OneMore
    <2> QED BY <1>3, <2>1, <2>2, <2>3, FS_CardinalityType
<1>5. Cardinality(adm) <= Cardinality(Kept(r) \cup {stamp[r]}) /\ IsFiniteSet(adm)
    BY <1>2, <1>4, FS_Subset
<1> HIDE DEF adm
<1>6. Cardinality(adm) \in Nat /\ Cardinality(Kept(r) \cup {stamp[r]}) \in Nat
    BY <1>4, <1>5, FS_CardinalityType
<1>7. Cardinality(adm) <= Rpm
    BY <1>4, <1>5, <1>6
<1> QED BY <1>7 DEF adm

\* Steps change neither the time nor the verdict of an answered request.
LEMMA AnsweredStays ==
    ASSUME TypeOK, [Next]_vars, NEW q \in Requests, pc[q] = "answered"
    PROVE  pc'[q] = "answered" /\ stamp'[q] = stamp[q] /\ reply'[q] = reply[q]
<1>1. CASE Tick \/ UNCHANGED vars
    BY <1>1 DEF Tick, vars
<1>2. ASSUME NEW r \in Requests, TakeTime(r) \/ Execute(r) \/ RedisRaises(r)
      PROVE  pc'[q] = "answered" /\ stamp'[q] = stamp[q] /\ reply'[q] = reply[q]
    BY <1>2 DEF TakeTime, Execute, RedisRaises, Answer, TypeOK
<1> QED BY <1>1, <1>2 DEF Next

\* Only a transaction answers "ok" or "429".
LEMMA Verdicts ==
    ASSUME TypeOK, [Next]_vars, NEW q \in Requests, reply'[q] \in {"ok", "429"},
           reply'[q] # reply[q]
    PROVE  Execute(q) /\ reply'[q] = Verdict(q)
<1>1. CASE Tick \/ UNCHANGED vars
    BY <1>1 DEF Tick, vars
<1>2. ASSUME NEW r \in Requests, TakeTime(r) \/ RedisRaises(r)
      PROVE  FALSE
    BY <1>2 DEF TakeTime, RedisRaises, Answer, TypeOK
<1>3. ASSUME NEW r \in Requests, Execute(r)
      PROVE  Execute(q) /\ reply'[q] = Verdict(q)
    BY <1>3 DEF Execute, Answer, TypeOK
<1> QED BY <1>1, <1>2, <1>3 DEF Next

\* However requests overtake each other and Redis fails, at most Rpm of them are
\* admitted in any stretch of Window - MaxDelay.
THEOREM AdmissionIsBounded == Spec => []AdmissionBounded
<1> USE ConstantsAssumption
<1>1. Init => AdmissionBounded
    <2> SUFFICES ASSUME Init, NEW t \in 0..MaxTime
                 PROVE  Cardinality(AdmittedIn(t, Window - MaxDelay)) <= Rpm
        BY DEF AdmissionBounded
    <2>1. AdmittedIn(t, Window - MaxDelay) = {}
        BY DEF AdmittedIn, Init
    <2> QED BY <2>1, FS_EmptySet
<1>2. IInv /\ AdmissionBounded /\ [Next]_vars => AdmissionBounded'
    <2> SUFFICES ASSUME IInv, AdmissionBounded, [Next]_vars, NEW t \in 0..MaxTime
                 PROVE  Cardinality(AdmittedIn(t, Window - MaxDelay)') <= Rpm
        BY DEF AdmissionBounded
    <2>0. TypeOK
        BY DEF IInv
    <2>1. CASE \E r \in Requests : /\ reply[r] # "ok" /\ reply'[r] = "ok"
                                   /\ t - (Window - MaxDelay) < stamp'[r] /\ stamp'[r] <= t
        <3>1. PICK r \in Requests : /\ reply[r] # "ok" /\ reply'[r] = "ok"
                                    /\ t - (Window - MaxDelay) < stamp'[r] /\ stamp'[r] <= t
            BY <2>1
        <3>2. Execute(r) /\ Verdict(r) = "ok"
            BY <2>0, <3>1, Verdicts
        <3>3. stamp' = stamp
            BY <3>2 DEF Execute
        <3> QED BY <3>1, <3>2, <3>3, AdmitBound
    <2>2. CASE ~ \E r \in Requests : /\ reply[r] # "ok" /\ reply'[r] = "ok"
                                     /\ t - (Window - MaxDelay) < stamp'[r] /\ stamp'[r] <= t
        <3>1. \A q \in Requests : reply[q] = "ok" => stamp'[q] = stamp[q] /\ reply'[q] = "ok"
            BY <2>0, AnsweredStays DEF TypeOK
        <3>2. AdmittedIn(t, Window - MaxDelay)' = AdmittedIn(t, Window - MaxDelay)
            BY <2>2, <3>1 DEF AdmittedIn
        <3> QED BY <3>2 DEF AdmissionBounded
    <2> QED BY <2>1, <2>2
<1> QED BY <1>1, <1>2, IndInv, PTL DEF Spec

-----------------------------------------------------------------------------
(* What is refused. *)
LEMMA OthersFinite ==
    ASSUME NEW r \in Requests
    PROVE  IsFiniteSet(Others(r)) /\ Cardinality(Others(r)) \in Nat
<1>1. IsFiniteSet(Others(r))
    BY ConstantsAssumption, FS_Subset DEF Others
<1> QED BY <1>1, FS_CardinalityType

\* Every member of the sorted set that is counted against r belongs to another
\* request in r's window, a different one for each.
LEMMA RefuseBound ==
    ASSUME IInv, NEW r \in Requests, pc[r] = "sent", Cardinality(Kept(r)) >= Rpm
    PROVE  Cardinality(Others(r)) >= Rpm
<1> USE ConstantsAssumption
<1> DEFINE S == {q \in Others(r) : stamp[q] \in Kept(r)}
           f == [q \in S |-> stamp[q]]
<1>1. IsFiniteSet(S) /\ Cardinality(S) <= Cardinality(Others(r)) /\ Cardinality(S) \in Nat
    BY OthersFinite, FS_Subset, FS_CardinalityType
<1>2. \A s \in Kept(r) : \E q \in S : f[q] = s
    <2> SUFFICES ASSUME NEW s \in Kept(r) PROVE \E q \in S : stamp[q] = s
        OBVIOUS
    <2>1. PICK q \in Requests : pc[q] = "answered" /\ stamp[q] = s
        BY DEF IInv, Memory, Kept
    <2>2. stamp[q] \in Nat /\ stamp[q] <= clock /\ clock \in Nat /\ clock <= stamp[r] + MaxDelay
          /\ stamp[r] \in Nat
        BY DEF IInv, TypeOK
    <2>3. stamp[r] - Window < stamp[q]
        BY <2>1, <2>2 DEF Kept
    <2>4. q # r /\ stamp[q] <= stamp[r] + MaxDelay
        BY <2>1, <2>2
    <2>5. q \in Others(r)
        BY <2>1, <2>3, <2>4 DEF Others
    <2> QED BY <2>1, <2>5
<1>3. f \in Surjection(S, Kept(r))
    BY <1>2 DEF Surjection
<1> HIDE DEF S, f
<1>4. Cardinality(Kept(r)) <= Cardinality(S)
    BY <1>1, <1>3, FS_Surjection
<1> QED BY <1>1, <1>4, OthersFinite, KeptFinite DEF IInv

\* A caller is refused only after Rpm other requests in its window.
THEOREM RefusalIsBacked == Spec => []RefusalBacked
<1> USE ConstantsAssumption
<1>1. Init => RefusalBacked
    BY DEF Init, RefusalBacked
<1>2. IInv /\ RefusalBacked /\ [Next]_vars => RefusalBacked'
    <2> SUFFICES ASSUME IInv, RefusalBacked, [Next]_vars, NEW r \in Requests, reply'[r] = "429"
                 PROVE  Cardinality(Others(r)') >= Rpm
        BY DEF RefusalBacked
    <2>0. TypeOK
        BY DEF IInv
    <2>1. Cardinality(Others(r)) >= Rpm /\ stamp'[r] = stamp[r]
        <3>1. CASE reply[r] = "429"
            BY <2>0, <3>1, AnsweredStays DEF RefusalBacked, TypeOK
        <3>2. CASE reply[r] # "429"
            <4>1. Execute(r) /\ Verdict(r) = "429"
                BY <2>0, <3>2, Verdicts
            <4>2. pc[r] = "sent" /\ Cardinality(Kept(r)) >= Rpm /\ stamp' = stamp
                BY <4>1 DEF Execute, Answer, Verdict
            <4> QED BY <4>2, RefuseBound
        <3> QED BY <3>1, <3>2
    <2>2. Others(r) \subseteq Others(r)'
        <3>1. \A q \in Requests : pc[q] = "answered" => pc'[q] = "answered" /\ stamp'[q] = stamp[q]
            BY <2>0, AnsweredStays
        <3> QED BY <2>1, <3>1 DEF Others
    <2>3. IsFiniteSet(Others(r)')
        BY FS_Subset DEF Others
    <2>4. Cardinality(Others(r)) <= Cardinality(Others(r)')
        BY <2>2, <2>3, FS_Subset
    <2>5. Cardinality(Others(r)') \in Nat
        BY <2>3, FS_CardinalityType
    <2> QED BY <2>1, <2>4, <2>5, OthersFinite
<1> QED BY <1>1, <1>2, IndInv, PTL DEF Spec
=============================================================================
