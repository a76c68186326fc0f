------------------------- MODULE TuningWorkerProofs -------------------------
(* Safety of the tuning worker, for any number of experiments, retries and     *)
(* failures.                                                                   *)
EXTENDS TuningWorker, FiniteSetTheorems, TLAPS

InLoop == pc \in {"check", "backoff"}

\* The loop splits what the query returned into those it has done with, the one it
\* is at, and those to come.
Split ==
    /\ checked \cap failed = {}
    /\ pc = "nap" => selected = checked \cup failed
    /\ pc = "select" => selected = {} /\ checked = {} /\ failed = {} /\ \A e \in Names : tries[e] = 0
    /\ InLoop => /\ selected = checked \cup failed \cup {cur} \cup todo
                 /\ cur \notin checked \cup failed \cup todo
                 /\ todo \cap (checked \cup failed) = {}

\* The attempts made: none of those to come, those counted of the one it is at.
Attempts ==
    /\ InLoop => tries[cur] = retries /\ \A e \in todo : tries[e] = 0
    /\ \A e \in failed : tries[e] = MaxCheckRetries + 1
    /\ \A e \in checked : tries[e] \in 1..(MaxCheckRetries + 1)

\* Attempts that failed in a session that is still clean took an error each.
Causes ==
    /\ session = "aborted" => roundFaults > 0
    /\ session = "clean" => Cardinality(failed) * (MaxCheckRetries + 1) + retries <= roundFaults

\* Who has been running since the round began was running when the query ran.
Covered == InLoop \/ (pc = "nap" /\ roundFaults = 0) => throughout \subseteq selected

IInv == TypeOK /\ Split /\ Attempts /\ Causes /\ Covered

USE ConstantsAssumption

LEMMA FailedFinite == ASSUME TypeOK PROVE IsFiniteSet(failed) /\ Cardinality(failed) \in Nat
BY FS_Subset, FS_CardinalityType DEF TypeOK

LEMMA InitIInv == Init => IInv
<1> SUFFICES ASSUME Init PROVE IInv
  OBVIOUS
<1>1. TypeOK
  <2>1. status \in [Names -> Statuses \cup {"absent"}] /\ tries \in [Names -> Nat]
    BY DEF Init
  <2>2. slept \in 0..PollInterval /\ retries \in 0..MaxCheckRetries
        /\ faults \in 0..MaxFaults /\ kills \in 0..MaxKills /\ stops \in 0..MaxStops
    BY DEF Init
  <2> QED
    BY <2>1, <2>2 DEF Init, TypeOK
<1>2. Cardinality(failed) = 0
  BY FS_EmptySet DEF Init
<1>3. Causes
  BY <1>2 DEF Init, Causes
<1> QED
  BY <1>1, <1>3 DEF Init, IInv, Split, Attempts, Covered, InLoop

\* Steps that leave the round alone.
LEMMA ApiKeeps ==
    ASSUME IInv, NEW e \in Names, ApiCommits(e)
    PROVE  IInv'
<1>1. PICK s \in MayBecome(status[e]) : status' = [status EXCEPT ![e] = s]
  BY DEF ApiCommits
<1>2. status' \in [Names -> Statuses \cup {"absent"}]
  BY <1>1 DEF IInv, TypeOK, MayBecome, Statuses
<1>3. throughout' \subseteq throughout /\ throughout' \subseteq Running'
  BY DEF ApiCommits, Running
<1>4. UNCHANGED <<pc, shutdown, slept, loopVars, selected, checked, failed, tries, errors, env>>
  BY DEF ApiCommits
<1>5. TypeOK'
  BY <1>2, <1>3, <1>4 DEF IInv, TypeOK, loopVars, errors, env
<1> QED
  BY <1>3, <1>4, <1>5 DEF IInv, Split, Attempts, Causes, Covered, InLoop, loopVars, errors, env

LEMMA WorldKeeps ==
    ASSUME IInv, RequestShutdown \/ Kill \/ Restart
    PROVE  IInv'
<1>1. TypeOK'
  <2>1. CASE RequestShutdown
    BY <2>1 DEF IInv, TypeOK, Running, RequestShutdown, loopVars, roundLog, errors
  <2>2. CASE Kill
    BY <2>2 DEF IInv, TypeOK, Running, Kill, roundLog, errors
  <2>3. CASE Restart
    BY <2>3 DEF IInv, TypeOK, Running, Restart, loopVars, roundLog, errors, env
  <2> QED
    BY <2>1, <2>2, <2>3
<1>2. Cardinality(failed) * (MaxCheckRetries + 1) \in Nat
  BY FailedFinite DEF IInv
<1>3. Causes'
  <2>1. /\ UNCHANGED <<session, failed, roundFaults>>
        /\ retries' \in {0, retries}
    BY DEF RequestShutdown, Kill, Restart, loopVars, roundLog, errors
  <2> QED
    BY <1>2, <2>1 DEF IInv, TypeOK, Causes
<1> QED
  BY <1>1, <1>3
  DEF IInv, Split, Attempts, Covered, InLoop, RequestShutdown, Kill, Restart, loopVars, roundLog, errors

LEMMA QuietStepKeeps ==
    ASSUME IInv, Wake \/ Nap
    PROVE  IInv'
<1>1. TypeOK'
  BY DEF IInv, TypeOK, Running, Wake, Nap, loopVars, roundLog, errors, env
<1> QED
  BY <1>1 DEF IInv, Split, Attempts, Causes, Covered, InLoop, Wake, Nap, loopVars, roundLog, errors

\* The loop turns to the next experiment, or to the nap.
LEMMA Turn ==
    ASSUME NEW rest \in SUBSET Names, TurnTo(rest)
    PROVE  /\ retries' = 0
           /\ \/ rest = {} /\ pc' = "nap" /\ cur' = None /\ todo' = {}
              \/ pc' = "check" /\ cur' \in rest /\ todo' = rest \ {cur'}
BY DEF TurnTo

LEMMA BeginRoundKeeps == ASSUME IInv, BeginRound PROVE IInv'
<1>1. TypeOK'
  BY DEF IInv, TypeOK, Running, BeginRound, env
<1>2. Cardinality(failed') = 0 /\ roundFaults' = 0 /\ session' = "clean" /\ retries' = 0
  BY FS_EmptySet DEF BeginRound, IInv, TypeOK
<1>3. Causes'
  BY <1>2 DEF Causes
<1> QED
  BY <1>1, <1>3 DEF IInv, Split, Attempts, Covered, InLoop, BeginRound

LEMMA SelectKeeps == ASSUME IInv, Select PROVE IInv'
<1>1. Running \subseteq Names /\ UNCHANGED <<status, shutdown, slept, session, checked, failed, tries, throughout, errors, env>>
  BY DEF Running, Select
<1>2. /\ retries' = 0
      /\ \/ Running = {} /\ pc' = "nap" /\ cur' = None /\ todo' = {}
         \/ pc' = "check" /\ cur' \in Running /\ todo' = Running \ {cur'}
  BY <1>1, Turn DEF Select
<1>3. TypeOK'
  BY <1>1, <1>2 DEF IInv, TypeOK, Select, Running, errors, env
<1>4. Split'
  BY <1>1, <1>2 DEF IInv, TypeOK, Split, InLoop, Select
<1>5. Attempts'
  BY <1>1, <1>2 DEF IInv, TypeOK, Split, Attempts, InLoop, Select
<1>6. Causes'
  BY <1>1, <1>2 DEF IInv, TypeOK, Causes, Select, errors
<1>7. Covered'
  BY <1>1 DEF IInv, TypeOK, Covered, Select
<1> QED
  BY <1>3, <1>4, <1>5, <1>6, <1>7 DEF IInv

LEMMA SelectRaisesKeeps == ASSUME IInv, SelectRaises PROVE IInv'
<1>1. TypeOK'
  BY DEF IInv, TypeOK, Running, SelectRaises, Fault, loopVars, roundLog, env
<1>2. Cardinality(failed) * (MaxCheckRetries + 1) \in Nat
  BY FailedFinite DEF IInv
<1>3. Causes'
  BY <1>2 DEF IInv, TypeOK, Causes, SelectRaises, Fault, loopVars, roundLog
<1> QED
  BY <1>1, <1>3 DEF IInv, TypeOK, Split, Attempts, Covered, InLoop, SelectRaises, Fault, loopVars, roundLog

-----------------------------------------------------------------------------
(* The two outcomes of a check: what is done with cur, and the turn to the     *)
(* next one.                                                                   *)
LEMMA InCheck ==
    ASSUME IInv, pc = "check"
    PROVE  /\ cur \in Names /\ todo \in SUBSET Names
           /\ selected = checked \cup failed \cup {cur} \cup todo
           /\ cur \notin checked \cup failed \cup todo
           /\ todo \cap (checked \cup failed) = {}
           /\ tries[cur] = retries /\ \A e \in todo : tries[e] = 0
           /\ retries \in 0..MaxCheckRetries
BY DEF IInv, TypeOK, Split, Attempts, InLoop

LEMMA CheckReturnsKeeps == ASSUME IInv, CheckReturns PROVE IInv'
<1>1. pc = "check" /\ session = "clean" /\ tries' = [tries EXCEPT ![cur] = @ + 1]
      /\ checked' = checked \cup {cur}
      /\ UNCHANGED <<status, shutdown, slept, session, selected, failed, throughout, errors, env>>
  BY DEF CheckReturns, Try
<1>2. /\ retries' = 0
      /\ \/ todo = {} /\ pc' = "nap" /\ cur' = None /\ todo' = {}
         \/ pc' = "check" /\ cur' \in todo /\ todo' = todo \ {cur'}
  BY <1>1, InCheck, Turn DEF CheckReturns
<1>3. tries' \in [Names -> Nat] /\ tries'[cur] = retries + 1
      /\ \A e \in Names \ {cur} : tries'[e] = tries[e]
  BY <1>1, InCheck DEF IInv, TypeOK
<1>4. TypeOK'
  BY <1>1, <1>2, <1>3, InCheck DEF IInv, TypeOK, Running, errors, env
<1>5. Split'
  BY <1>1, <1>2, InCheck DEF IInv, TypeOK, Split, InLoop
<1>6. Attempts'
  BY <1>1, <1>2, <1>3, InCheck DEF IInv, TypeOK, Attempts, InLoop
<1>7. Causes'
  <2>1. Cardinality(failed) * (MaxCheckRetries + 1) \in Nat
    BY FailedFinite DEF IInv
  <2> QED
    BY <1>1, <1>2, <2>1 DEF IInv, TypeOK, Causes, errors
<1>8. Covered'
  BY <1>1 DEF IInv, Covered, InLoop, errors
<1> QED
  BY <1>4, <1>5, <1>6, <1>7, <1>8 DEF IInv

\* A failed check: an error, or the session was aborted by an earlier one.
LEMMA CheckRaisesKeeps == ASSUME IInv, CheckRaises PROVE IInv'
<1>1. pc = "check" /\ tries' = [tries EXCEPT ![cur] = @ + 1]
      /\ UNCHANGED <<status, shutdown, slept, selected, checked, throughout, env>>
  BY DEF CheckRaises, Try
<1>2. \/ session = "aborted" /\ session' = "aborted" /\ faults' = faults /\ roundFaults' = roundFaults
      \/ /\ session = "clean" /\ session' \in {"clean", "aborted"}
         /\ faults < MaxFaults /\ faults' = faults + 1 /\ roundFaults' = roundFaults + 1
  BY DEF CheckRaises, Fault, errors
<1>3. tries' \in [Names -> Nat] /\ tries'[cur] = retries + 1
      /\ \A e \in Names \ {cur} : tries'[e] = tries[e]
  BY <1>1, InCheck DEF IInv, TypeOK
<1>4. Cardinality(failed) * (MaxCheckRetries + 1) \in Nat /\ roundFaults' \in Nat /\ faults' \in 0..MaxFaults
  BY <1>2, FailedFinite DEF IInv, TypeOK
<1>5. Covered'
  BY <1>1, <1>2 DEF IInv, TypeOK, Covered, InLoop
<1>6. CASE retries < MaxCheckRetries
  <2>1. pc' = "backoff" /\ retries' = retries + 1 /\ UNCHANGED <<cur, todo, failed>>
    BY <1>6 DEF CheckRaises
  <2>2. TypeOK'
    BY <1>1, <1>2, <1>3, <1>4, <1>6, <2>1, InCheck DEF IInv, TypeOK, Running, env
  <2>3. Split'
    BY <1>1, <2>1, InCheck DEF IInv, Split, InLoop
  <2>4. Attempts'
    BY <1>1, <1>3, <2>1, InCheck DEF IInv, TypeOK, Attempts, InLoop
  <2>5. Causes'
    BY <1>2, <1>4, <2>1 DEF IInv, TypeOK, Causes
  <2> QED
    BY <1>5, <2>2, <2>3, <2>4, <2>5 DEF IInv
<1>7. CASE ~(retries < MaxCheckRetries)
  <2>1. failed' = failed \cup {cur} /\ retries = MaxCheckRetries
    BY <1>1, <1>7, InCheck DEF CheckRaises
  <2>2. /\ retries' = 0
        /\ \/ todo = {} /\ pc' = "nap" /\ cur' = None /\ todo' = {}
           \/ pc' = "check" /\ cur' \in todo /\ todo' = todo \ {cur'}
    BY <1>1, <1>7, InCheck, Turn DEF CheckRaises
  <2>3. TypeOK'
    BY <1>1, <1>2, <1>3, <1>4, <2>1, <2>2, InCheck DEF IInv, TypeOK, Running, env
  <2>4. Split'
    BY <1>1, <2>1, <2>2, InCheck DEF IInv, TypeOK, Split, InLoop
  <2>5. Attempts'
    BY <1>1, <1>3, <2>1, <2>2, InCheck DEF IInv, TypeOK, Attempts, InLoop
  <2>6. Causes'
    <3>1. Cardinality(failed') = Cardinality(failed) + 1
      BY <1>1, <2>1, InCheck, FailedFinite, FS_AddElement DEF IInv
    <3>2. Cardinality(failed') * (MaxCheckRetries + 1)
             = Cardinality(failed) * (MaxCheckRetries + 1) + (MaxCheckRetries + 1)
      BY <3>1, FailedFinite DEF IInv
    <3> QED
      BY <1>2, <1>4, <2>1, <2>2, <3>2 DEF IInv, TypeOK, Causes
  <2> QED
    BY <1>5, <2>3, <2>4, <2>5, <2>6 DEF IInv
<1> QED
  BY <1>6, <1>7

-----------------------------------------------------------------------------
LEMMA NextKeeps == ASSUME IInv, [Next]_vars PROVE IInv'
<1>1. CASE Step
  BY <1>1, BeginRoundKeeps, SelectKeeps, SelectRaisesKeeps, CheckReturnsKeeps, CheckRaisesKeeps,
     QuietStepKeeps DEF Step
<1>2. CASE UNCHANGED vars
  BY <1>2 DEF IInv, TypeOK, Split, Attempts, Causes, Covered, InLoop, Running, vars, loopVars, roundLog, errors, env
<1> QED
  BY <1>1, <1>2, WorldKeeps, ApiKeeps DEF Next

THEOREM Invariant == Spec => []IInv
BY InitIInv, NextKeeps, PTL DEF Spec

\* Types of the worker and its round.
THEOREM TypeCorrect == Spec => []TypeOK
BY Invariant, PTL DEF IInv

\* For any number of experiments and retries, and whatever fails: a round leaves no
\* selected experiment out, and gives none up before its last attempt.
THEOREM RoundsAreComplete == Spec => []RoundComplete
<1>1. IInv => RoundComplete
  BY DEF IInv, Split, Attempts, RoundComplete
<1> QED
  BY <1>1, Invariant, PTL

\* Errors of one round do not reach into the next, and as long as the session is
\* not aborted the retries of an experiment absorb MaxCheckRetries of them.
THEOREM FailuresAreCaused == Spec => []FailuresHaveCause
<1>1. IInv => FailuresHaveCause
  BY FailedFinite DEF IInv, TypeOK, Causes, FailuresHaveCause
<1> QED
  BY <1>1, Invariant, PTL

\* Whoever runs all through a round without errors is checked in it, however the
\* API's commits fall into the round.
THEOREM NothingIsOverlooked == Spec => []NothingOverlooked
<1>1. ASSUME IInv, pc = "nap", roundFaults = 0
      PROVE  throughout \subseteq checked
  <2>1. throughout \subseteq checked \cup failed /\ session = "clean"
    BY <1>1 DEF IInv, TypeOK, Split, Causes, Covered
  <2>2. Cardinality(failed) * (MaxCheckRetries + 1) <= 0
    BY <1>1, <2>1, FailedFinite DEF IInv, TypeOK, Causes
  <2>3. Cardinality(failed) = 0
    BY <1>1, <2>2, FailedFinite DEF IInv
  <2>4. failed = {}
    BY <1>1, <2>3, FailedFinite, FS_EmptySet DEF IInv
  <2> QED
    BY <2>1, <2>4
<1>2. IInv => NothingOverlooked
  BY <1>1 DEF NothingOverlooked
<1> QED
  BY <1>2, Invariant, PTL
=============================================================================
