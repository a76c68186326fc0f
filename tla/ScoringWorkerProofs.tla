------------------------- MODULE ScoringWorkerProofs -------------------------
(* Proofs about the scoring queue, for any number of jobs, workers, retries,   *)
(* kills, Redis faults and shutdowns.                                          *)
EXTENDS ScoringWorker, FiniteSetTheorems, TLAPS

-----------------------------------------------------------------------------
(* Lists of messages. *)

\* Pushing a message adds its job to the jobs of the list, and no other.
LEMMA AppendJobs ==
    ASSUME NEW list \in Seq(Message), NEW m \in Message, NEW j
    PROVE  InList(Append(list, m), j) <=> (InList(list, j) \/ j = m.job)
<1>1. /\ DOMAIN list = 1..Len(list)
      /\ Len(list) \in Nat
      /\ DOMAIN Append(list, m) = 1..(Len(list) + 1)
      /\ Append(list, m)[Len(list) + 1] = m
      /\ \A i \in 1..Len(list) : Append(list, m)[i] = list[i]
  OBVIOUS
<1>2. ASSUME InList(Append(list, m), j)
      PROVE  InList(list, j) \/ j = m.job
  BY <1>1, <1>2 DEF InList
<1>3. ASSUME InList(list, j)
      PROVE  InList(Append(list, m), j)
  BY <1>1, <1>3 DEF InList
<1>4. ASSUME j = m.job
      PROVE  InList(Append(list, m), j)
  BY <1>1, <1>4 DEF InList
<1> QED
  BY <1>2, <1>3, <1>4

\* Pushing a job that the list does not hold keeps its jobs distinct.
LEMMA AppendNoRepeat ==
    ASSUME NEW list \in Seq(Message), NEW m \in Message,
           NoRepeat(list), ~InList(list, m.job)
    PROVE  NoRepeat(Append(list, m))
BY DEF InList, NoRepeat

\* Popping the head of a list of distinct jobs removes its job, and no other.
LEMMA TailJobs ==
    ASSUME NEW list \in Seq(Message), list # <<>>, NoRepeat(list), NEW j
    PROVE  /\ NoRepeat(Tail(list))
           /\ InList(Tail(list), j) <=> (InList(list, j) /\ j # Head(list).job)
           /\ InList(list, Head(list).job)
<1>1. /\ Len(list) >= 1
      /\ Head(list) = list[1]
      /\ DOMAIN list = 1..Len(list)
      /\ DOMAIN Tail(list) = 1..(Len(list) - 1)
      /\ \A i \in 1..(Len(list) - 1) : Tail(list)[i] = list[i + 1]
  OBVIOUS
<1>2. NoRepeat(Tail(list))
  BY <1>1 DEF NoRepeat
<1>3. InList(list, Head(list).job)
  BY <1>1 DEF InList
<1>4. ASSUME InList(Tail(list), j)
      PROVE  InList(list, j) /\ j # Head(list).job
  <2>1. PICK i \in 1..(Len(list) - 1) : list[i + 1].job = j
    BY <1>1, <1>4 DEF InList
  <2>2. i + 1 \in 1..Len(list) /\ i + 1 # 1 /\ 1 \in 1..Len(list)
    BY <1>1, <2>1
  <2> QED
    BY <1>1, <2>1, <2>2 DEF InList, NoRepeat
<1>5. ASSUME InList(list, j), j # Head(list).job
      PROVE  InList(Tail(list), j)
  <2>1. PICK i \in 1..Len(list) : list[i].job = j
    BY <1>1, <1>5 DEF InList
  <2>2. i # 1 /\ i - 1 \in 1..(Len(list) - 1) /\ (i - 1) + 1 = i
    BY <1>1, <1>5, <2>1
  <2> QED
    BY <1>1, <2>1, <2>2 DEF InList
<1> QED
  BY <1>2, <1>3, <1>4, <1>5

-----------------------------------------------------------------------------
(* Type correctness. A message is re-pushed with its count raised, so the type *)
(* of the queue rests on the count being below MaxRetries during the back-off. *)

RetryLeft == \A w \in Workers :
    /\ pc[w] = "backoff" => hand[w].retry < MaxRetries
    /\ pc[w] = "bury" => hand[w].retry = MaxRetries

TypeInv == TypeOK /\ RetryLeft

LEMMA TypeInvInit == Init => TypeInv
BY ConstantsAssumption DEF Init, TypeInv, TypeOK, RetryLeft, Labels, Idle, Busy

LEMMA PopTypes ==
    ASSUME TypeOK, queue # <<>>
    PROVE  Head(queue) \in Message /\ Tail(queue) \in Seq(Message)
BY DEF TypeOK

LEMMA NextTryType ==
    ASSUME ConstantsAssumption, NEW m \in Message, m.retry < MaxRetries
    PROVE  NextTry(m) \in Message /\ NextTry(m).job = m.job /\ NextTry(m).retry = m.retry + 1
BY DEF Message, NextTry, ConstantsAssumption

LEMMA TypeInvStep == TypeInv /\ [Next]_vars => TypeInv'
<1> SUFFICES ASSUME TypeInv, [Next]_vars
             PROVE  TypeInv'
  OBVIOUS
<1> USE ConstantsAssumption DEF TypeInv, TypeOK, RetryLeft, Labels, Idle, Busy, Message,
        env, sinks, history
<1>1. ASSUME NEW j \in Jobs, Enqueue(j)
      PROVE  TypeInv'
  BY <1>1 DEF Enqueue
<1>2. ASSUME NEW w \in Workers, CheckShutdown(w)
      PROVE  TypeInv'
  BY <1>2 DEF CheckShutdown, Goto
<1>3. ASSUME NEW w \in Workers, BrpopTimeout(w)
      PROVE  TypeInv'
  BY <1>3 DEF BrpopTimeout, Goto
<1>4. ASSUME NEW w \in Workers, Pop(w)
      PROVE  TypeInv'
  <2>1. Head(queue) \in Message /\ Tail(queue) \in Seq(Message)
    BY <1>4, PopTypes DEF Pop
  <2>2. Head(queue).job \in Jobs
    BY <2>1
  <2>3. pc' = [pc EXCEPT ![w] = "score"] /\ hand' = [hand EXCEPT ![w] = Head(queue)]
    BY <1>4 DEF Pop, Goto
  <2>4. RetryLeft'
    BY <2>3
  <2>5. \A v \in Workers : hand'[v] \in Message <=> pc'[v] \in Busy
    BY <2>1, <2>3
  <2>6. hand' \in [Workers -> Message \cup {NoMsg}]
    BY <2>1, <2>3
  <2>7. attempts' \in [Jobs -> Nat]
    <3> DEFINE k == Head(queue).job
    <3>1. k \in Jobs /\ attempts' = [attempts EXCEPT ![k] = @ + 1]
      BY <1>4, <2>2 DEF Pop
    <3> HIDE DEF k
    <3> QED
      BY <3>1
  <2> HIDE DEF Message
  <2> QED
    BY <1>4, <2>1, <2>3, <2>4, <2>5, <2>6, <2>7 DEF Pop
<1>5. ASSUME NEW w \in Workers, RunPipeline(w)
      PROVE  TypeInv'
  BY <1>5 DEF RunPipeline, Goto
<1>6. ASSUME NEW w \in Workers, Commit(w)
      PROVE  TypeInv'
  BY <1>6 DEF Commit, Goto
<1>7. ASSUME NEW w \in Workers, SubmitScore(w)
      PROVE  TypeInv'
  <2>1. hand[w].job \in Jobs /\ todo[w] - 1 \in 0..MaxScores
    BY <1>7 DEF SubmitScore
  <2> QED
    BY <1>7, <2>1 DEF SubmitScore
<1>8. ASSUME NEW w \in Workers, Finish(w)
      PROVE  TypeInv'
  BY <1>8 DEF Finish, Goto, Drop
<1>9. ASSUME NEW w \in Workers, Raises(w)
      PROVE  TypeInv'
  <2> DEFINE next == AfterFailure(hand[w])  k == hand[w].job
  <2>1. /\ pc[w] \in Busy /\ hand[w] \in Message
        /\ k \in Jobs /\ hand[w].retry \in 0..MaxRetries
    BY <1>9 DEF Raises
  <2>2. /\ next \in {"backoff", "bury"}
        /\ next = "backoff" => hand[w].retry < MaxRetries
        /\ next = "bury" => hand[w].retry = MaxRetries
    BY <2>1 DEF AfterFailure
  <2>3. /\ pc' = [pc EXCEPT ![w] = next] /\ todo' = [todo EXCEPT ![w] = 0]
        /\ rows' = rows \/ rows' = [rows EXCEPT ![k] = @ + 1]
        /\ UNCHANGED <<queue, dlq, hand, shutdown, scores, history, env>>
    BY <1>9 DEF Raises
  <2>4. rows' \in [Jobs -> Nat]
    <3>1. rows \in [Jobs -> Nat]
      OBVIOUS
    <3> HIDE DEF TypeInv, TypeOK, k, next
    <3> QED
      BY <2>1, <2>3, <3>1
  <2> HIDE DEF next, k, Message
  <2>5. RetryLeft'
    BY <2>2, <2>3
  <2>6. pc' \in [Workers -> Labels] /\ todo' \in [Workers -> 0..MaxScores]
    BY <2>2, <2>3
  <2>7. \A v \in Workers : hand'[v] \in Message <=> pc'[v] \in Busy
    BY <2>1, <2>2, <2>3
  <2> QED
    BY <2>3, <2>4, <2>5, <2>6, <2>7
<1>10. ASSUME NEW w \in Workers, Requeue(w)
       PROVE  TypeInv'
  <2>1. NextTry(hand[w]) \in Message
    BY <1>10, NextTryType DEF Requeue, Goto
  <2> QED
    BY <1>10, <2>1 DEF Requeue, Goto, Drop
<1>11. ASSUME NEW w \in Workers, Bury(w)
       PROVE  TypeInv'
  BY <1>11 DEF Bury, Goto, Drop
<1>12. ASSUME NEW w \in Workers, RedisRaises(w)
       PROVE  TypeInv'
  <2>1. pc[w] = "backoff" => NextTry(hand[w]) \in Message
    BY NextTryType
  <2>2. queue # <<>> => Tail(queue) \in Seq(Message)
    BY PopTypes
  <2>3. queue' \in Seq(Message) /\ dlq' \in Seq(Message)
    <3> HIDE DEF Message
    <3>1. CASE pc[w] = "brpop"
      BY <1>12, <2>2, <3>1 DEF RedisRaises
    <3>2. CASE pc[w] = "backoff"
      <4>1. Append(queue, NextTry(hand[w])) \in Seq(Message)
        BY <2>1, <3>2
      <4> QED
        BY <1>12, <3>2, <4>1 DEF RedisRaises
    <3>3. CASE pc[w] = "bury"
      <4>1. Append(dlq, hand[w]) \in Seq(Message)
        BY <3>3
      <4> QED
        BY <1>12, <3>3, <4>1 DEF RedisRaises
    <3> QED
      BY <1>12, <3>1, <3>2, <3>3 DEF RedisRaises
  <2>4. pc' = [pc EXCEPT ![w] = "exited"] /\ hand' = [hand EXCEPT ![w] = NoMsg]
    BY <1>12 DEF RedisRaises, Drop
  <2>5. RetryLeft'
    BY <2>4
  <2>6. \A v \in Workers : hand'[v] \in Message <=> pc'[v] \in Busy
    BY <2>4
  <2> HIDE DEF Message
  <2> QED
    BY <1>12, <2>3, <2>4, <2>5, <2>6 DEF RedisRaises, Drop
<1>13. ASSUME NEW w \in Workers, RequestShutdown(w)
       PROVE  TypeInv'
  BY <1>13 DEF RequestShutdown
<1>14. ASSUME NEW w \in Workers, Kill(w)
       PROVE  TypeInv'
  BY <1>14 DEF Kill, Drop
<1>15. ASSUME NEW w \in Workers, Restart(w)
       PROVE  TypeInv'
  BY <1>15 DEF Restart, Goto
<1>16. CASE UNCHANGED vars
  BY <1>16 DEF vars
<1> QED
  BY <1>1, <1>2, <1>3, <1>4, <1>5, <1>6, <1>7, <1>8, <1>9, <1>10, <1>11, <1>12, <1>13,
     <1>14, <1>15, <1>16 DEF Next, Step

\* Every variable of the scoring queue keeps its type: in particular no message
\* is ever pushed with a retry count above MAX_RETRIES.
THEOREM TypeCorrect == Spec => []TypeOK
<1>1. TypeInv => TypeOK
  BY DEF TypeInv
<1> QED
  BY <1>1, TypeInvInit, TypeInvStep, PTL DEF Spec

-----------------------------------------------------------------------------
(* What a step does to the jobs. The steps of the specification fall into      *)
(* eight kinds; the invariants about jobs are proved per kind.                 *)

IsBusy(v) == pc[v] \in Busy
Failures == kills + faults

SameLists == queue' = queue /\ dlq' = dlq
SameHands == hand' = hand /\ \A v \in Workers : IsBusy(v)' <=> IsBusy(v)
SameBooks == enqueued' = enqueued /\ done' = done /\ attempts' = attempts
OthersStay(w) == \A v \in Workers \ {w} : hand'[v] = hand[v] /\ (IsBusy(v)' <=> IsBusy(v))
MayFail == Failures' \in {Failures, Failures + 1}
Fails == Failures' = Failures + 1
NoFail == Failures' = Failures

Quiet == SameLists /\ SameHands /\ SameBooks /\ MayFail

Accepts(j) ==
    /\ j \notin enqueued /\ enqueued' = enqueued \cup {j}
    /\ queue' = Append(queue, [job |-> j, retry |-> 0])
    /\ dlq' = dlq /\ SameHands /\ done' = done /\ attempts' = attempts /\ NoFail

Takes(w) ==
    /\ queue # <<>> /\ queue' = Tail(queue) /\ dlq' = dlq
    /\ ~IsBusy(w) /\ IsBusy(w)' /\ hand'[w] = Head(queue) /\ OthersStay(w)
    /\ enqueued' = enqueued /\ done' = done
    /\ attempts' = [attempts EXCEPT ![Head(queue).job] = @ + 1]
    /\ NoFail

LosesHead ==
    /\ queue # <<>> /\ queue' = Tail(queue) /\ dlq' = dlq
    /\ SameHands /\ SameBooks /\ Fails

Releases(w) ==
    /\ IsBusy(w) /\ ~IsBusy(w)' /\ OthersStay(w)
    /\ enqueued' = enqueued /\ attempts' = attempts

PutsBack(w) ==
    /\ Releases(w) /\ hand[w].retry < MaxRetries
    /\ queue' = Append(queue, NextTry(hand[w])) /\ dlq' = dlq /\ done' = done /\ MayFail

Buries(w) ==
    /\ Releases(w) /\ hand[w].retry = MaxRetries
    /\ dlq' = Append(dlq, hand[w]) /\ queue' = queue /\ done' = done /\ MayFail

Completes(w) ==
    /\ Releases(w) /\ SameLists
    /\ done' = done \cup {hand[w].job} /\ NoFail

Drops(w) == Releases(w) /\ SameLists /\ done' = done /\ Fails

Kinds ==
    \/ Quiet
    \/ LosesHead
    \/ \E j \in Jobs : Accepts(j)
    \/ \E w \in Workers : Takes(w) \/ PutsBack(w) \/ Buries(w) \/ Completes(w) \/ Drops(w)

LEMMA StepKinds == TypeInv /\ [Next]_vars => Kinds
<1> SUFFICES ASSUME TypeInv, [Next]_vars
             PROVE  Kinds
  OBVIOUS
<1> USE DEF TypeInv, TypeOK, IsBusy, Failures, SameLists, SameHands, SameBooks, OthersStay,
        MayFail, Fails, NoFail, env, sinks, history
<1>0. \A w \in Workers : pc[w] \notin Busy => hand[w] = NoMsg
  OBVIOUS
<1>a. Failures \in Nat /\ (kills' = kills /\ faults' = faults => NoFail)
  BY ConstantsAssumption
<1>1. ASSUME NEW j \in Jobs, Enqueue(j)
      PROVE  Kinds
  BY <1>1, <1>a DEF Enqueue, Kinds, Accepts
<1>2. ASSUME NEW w \in Workers, CheckShutdown(w)
      PROVE  Quiet
  BY <1>2 DEF CheckShutdown, Goto, Quiet, Busy
<1>3. ASSUME NEW w \in Workers, BrpopTimeout(w)
      PROVE  Quiet
  BY <1>3 DEF BrpopTimeout, Goto, Quiet, Busy
<1>4. ASSUME NEW w \in Workers, Pop(w)
      PROVE  Takes(w)
  BY <1>4 DEF Pop, Goto, Takes, Busy
<1>5. ASSUME NEW w \in Workers, RunPipeline(w)
      PROVE  Quiet
  BY <1>5 DEF RunPipeline, Goto, Quiet, Busy
<1>6. ASSUME NEW w \in Workers, Commit(w)
      PROVE  Quiet
  BY <1>6 DEF Commit, Goto, Quiet, Busy
<1>7. ASSUME NEW w \in Workers, SubmitScore(w)
      PROVE  Quiet
  BY <1>7 DEF SubmitScore, Quiet
<1>8. ASSUME NEW w \in Workers, Finish(w)
      PROVE  Completes(w)
  BY <1>8 DEF Finish, Goto, Drop, Completes, Releases, Busy
<1>9. ASSUME NEW w \in Workers, Raises(w)
      PROVE  Quiet
  BY <1>9 DEF Raises, AfterFailure, Quiet, Busy
<1>10. ASSUME NEW w \in Workers, Requeue(w)
       PROVE  PutsBack(w)
  BY <1>10 DEF Requeue, Goto, Drop, PutsBack, Releases, Busy, RetryLeft
<1>11. ASSUME NEW w \in Workers, Bury(w)
       PROVE  Buries(w)
  BY <1>11 DEF Bury, Goto, Drop, Buries, Releases, Busy, RetryLeft
<1>12. ASSUME NEW w \in Workers, RedisRaises(w)
       PROVE  Kinds
  <2> USE DEF RedisRaises, Drop, Busy
  <2>1. Fails /\ SameBooks
    BY <1>12, ConstantsAssumption
  <2>2. CASE pc[w] = "brpop"
    <3>1. SameHands
      BY <1>12, <1>0, <2>2
    <3> QED
      BY <1>12, <2>1, <2>2, <3>1 DEF Kinds, Quiet, LosesHead
  <2>3. CASE pc[w] = "backoff"
    <3>1. Releases(w) /\ hand[w].retry < MaxRetries /\ dlq' = dlq
      BY <1>12, <2>3 DEF Releases, RetryLeft
    <3> QED
      BY <1>12, <2>1, <2>3, <3>1 DEF Kinds, PutsBack, Drops
  <2>4. CASE pc[w] = "bury"
    <3>1. Releases(w) /\ hand[w].retry = MaxRetries /\ queue' = queue
      BY <1>12, <2>4 DEF Releases, RetryLeft
    <3> QED
      BY <1>12, <2>1, <2>4, <3>1 DEF Kinds, Buries, Drops
  <2> QED
    BY <1>12, <2>2, <2>3, <2>4
<1>13. ASSUME NEW w \in Workers, RequestShutdown(w)
       PROVE  Quiet
  BY <1>13 DEF RequestShutdown, Quiet
<1>14. ASSUME NEW w \in Workers, Kill(w)
       PROVE  Kinds
  <2>1. Fails /\ SameBooks /\ SameLists
    BY <1>14, ConstantsAssumption DEF Kill
  <2>2. CASE IsBusy(w)
    <3>1. Releases(w)
      BY <1>14, <2>2 DEF Kill, Drop, Releases, Busy
    <3> QED
      BY <2>1, <3>1 DEF Kinds, Drops
  <2>3. CASE ~IsBusy(w)
    <3>1. SameHands
      BY <1>14, <1>0, <2>3 DEF Kill, Drop, Busy
    <3> QED
      BY <2>1, <3>1 DEF Kinds, Quiet
  <2> QED
    BY <2>2, <2>3
<1>15. ASSUME NEW w \in Workers, Restart(w)
       PROVE  Quiet
  BY <1>15 DEF Restart, Goto, Quiet, Busy
<1>16. CASE UNCHANGED vars
  BY <1>16 DEF vars, Quiet, Kinds
<1> QED
  BY <1>1, <1>2, <1>3, <1>4, <1>5, <1>6, <1>7, <1>8, <1>9, <1>10, <1>11, <1>12, <1>13,
     <1>14, <1>15, <1>16 DEF Next, Step, Kinds

-----------------------------------------------------------------------------
(* One place per job. *)

DistinctHands == \A v, w \in Workers, j \in Jobs : Holds(v, j) /\ Holds(w, j) => v = w

Apart(j) ==
    /\ Queued(j) => ~Held(j) /\ ~Dead(j) /\ j \notin done
    /\ Held(j) => ~Dead(j) /\ j \notin done
    /\ Dead(j) => j \notin done
    /\ Queued(j) \/ Held(j) \/ Settled(j) => j \in enqueued

LEMMA OnePlaceParts ==
    OnePlace <=> NoRepeat(queue) /\ NoRepeat(dlq) /\ DistinctHands /\ \A j \in Jobs : Apart(j)
BY DEF OnePlace, DistinctHands, Apart

\* Where each kind of step leaves the jobs.
LEMMA HandsStay ==
    ASSUME SameHands
    PROVE  \A v \in Workers, j \in Jobs : Holds(v, j)' <=> Holds(v, j)
BY DEF SameHands, Holds, IsBusy

LEMMA HandReleased ==
    ASSUME NEW w \in Workers, Releases(w), TypeInv
    PROVE  /\ hand[w] \in Message /\ hand[w].job \in Jobs
           /\ Holds(w, hand[w].job)
           /\ \A j \in Jobs : Holds(w, j) => j = hand[w].job
           /\ \A v \in Workers, j \in Jobs : Holds(v, j)' <=> Holds(v, j) /\ v # w
<1>1. hand[w] \in Message /\ hand[w].job \in Jobs
  BY DEF Releases, IsBusy, TypeInv, TypeOK, Message
<1> QED
  BY <1>1 DEF Releases, OthersStay, Holds, IsBusy

LEMMA HandTaken ==
    ASSUME NEW w \in Workers, Takes(w), TypeInv
    PROVE  /\ Head(queue) \in Message /\ Head(queue).job \in Jobs
           /\ \A j \in Jobs : ~Holds(w, j)
           /\ \A v \in Workers, j \in Jobs :
                  Holds(v, j)' <=> Holds(v, j) \/ (v = w /\ j = Head(queue).job)
<1>1. Head(queue) \in Message /\ Head(queue).job \in Jobs
  BY PopTypes DEF Takes, TypeInv, Message
<1> QED
  BY <1>1 DEF Takes, OthersStay, Holds, IsBusy

LEMMA OnePlaceStep == TypeInv /\ OnePlace /\ Kinds => OnePlace'
<1> SUFFICES ASSUME TypeInv, OnePlace, Kinds
             PROVE  /\ NoRepeat(queue)' /\ NoRepeat(dlq)' /\ DistinctHands'
                    /\ \A j \in Jobs : Apart(j)'
  BY DEF OnePlace, DistinctHands, Apart
<1>0. /\ NoRepeat(queue) /\ NoRepeat(dlq) /\ DistinctHands /\ \A j \in Jobs : Apart(j)
      /\ queue \in Seq(Message) /\ dlq \in Seq(Message)
  BY OnePlaceParts DEF TypeInv, TypeOK
<1>1. CASE Quiet
  BY <1>0, <1>1, HandsStay
     DEF Quiet, SameLists, SameBooks, NoRepeat, DistinctHands, Apart, Queued, Held, Dead, Settled
<1>2. CASE LosesHead
  <2>1. /\ NoRepeat(Tail(queue))
        /\ \A j \in Jobs : InList(Tail(queue), j) => InList(queue, j)
    BY <1>0, <1>2, TailJobs DEF LosesHead
  <2> QED
    BY <1>0, <1>2, <2>1, HandsStay
       DEF LosesHead, SameBooks, NoRepeat, DistinctHands, Apart, Queued, Held, Dead, Settled
<1>3. ASSUME NEW a \in Jobs, Accepts(a)
      PROVE  /\ NoRepeat(queue)' /\ NoRepeat(dlq)' /\ DistinctHands'
             /\ \A j \in Jobs : Apart(j)'
  <2> DEFINE m == [job |-> a, retry |-> 0]
  <2>1. m \in Message /\ m.job = a
    BY ConstantsAssumption DEF Message
  <2>2. ~InList(queue, a)
    BY <1>0, <1>3 DEF Accepts, Apart, Queued
  <2>3. queue' = Append(queue, m)
    BY <1>3 DEF Accepts
  <2> HIDE DEF m
  <2>4. /\ NoRepeat(Append(queue, m))
        /\ \A j \in Jobs : InList(Append(queue, m), j) <=> InList(queue, j) \/ j = a
    BY <1>0, <2>1, <2>2, AppendNoRepeat, AppendJobs
  <2> QED
    BY <1>0, <1>3, <2>3, <2>4, HandsStay
       DEF Accepts, NoRepeat, DistinctHands, Apart, Queued, Held, Dead, Settled
<1>4. ASSUME NEW w \in Workers, Takes(w)
      PROVE  /\ NoRepeat(queue)' /\ NoRepeat(dlq)' /\ DistinctHands'
             /\ \A j \in Jobs : Apart(j)'
  <2>1. /\ NoRepeat(Tail(queue))
        /\ InList(queue, Head(queue).job)
        /\ \A j \in Jobs : InList(Tail(queue), j) <=> InList(queue, j) /\ j # Head(queue).job
    BY <1>0, <1>4, TailJobs DEF Takes
  <2> QED
    BY <1>0, <1>4, <2>1, HandTaken
       DEF Takes, NoRepeat, DistinctHands, Apart, Queued, Held, Dead, Settled
<1>5. ASSUME NEW w \in Workers, PutsBack(w)
      PROVE  /\ NoRepeat(queue)' /\ NoRepeat(dlq)' /\ DistinctHands'
             /\ \A j \in Jobs : Apart(j)'
  <2> DEFINE m == NextTry(hand[w])
  <2>1. m \in Message /\ m.job = hand[w].job
    BY <1>5, HandReleased, NextTryType, ConstantsAssumption DEF PutsBack
  <2>2. ~InList(queue, m.job)
    BY <1>0, <1>5, <2>1, HandReleased DEF PutsBack, Apart, Queued, Held
  <2>3. queue' = Append(queue, m)
    BY <1>5 DEF PutsBack
  <2> HIDE DEF m
  <2>4. /\ NoRepeat(Append(queue, m))
        /\ \A j \in Jobs : InList(Append(queue, m), j) <=> InList(queue, j) \/ j = m.job
    BY <1>0, <2>1, <2>2, AppendNoRepeat, AppendJobs
  <2> QED
    BY <1>0, <1>5, <2>1, <2>3, <2>4, HandReleased
       DEF PutsBack, Releases, NoRepeat, DistinctHands, Apart, Queued, Held, Dead, Settled
<1>6. ASSUME NEW w \in Workers, Buries(w)
      PROVE  /\ NoRepeat(queue)' /\ NoRepeat(dlq)' /\ DistinctHands'
             /\ \A j \in Jobs : Apart(j)'
  <2> DEFINE m == hand[w]
  <2>1. m \in Message
    BY <1>6, HandReleased DEF Buries
  <2>2. ~InList(dlq, m.job)
    BY <1>0, <1>6, HandReleased DEF Buries, Apart, Dead, Held
  <2>4. /\ NoRepeat(Append(dlq, m))
        /\ \A j \in Jobs : InList(Append(dlq, m), j) <=> InList(dlq, j) \/ j = m.job
    BY <1>0, <2>1, <2>2, AppendNoRepeat, AppendJobs
  <2> QED
    BY <1>0, <1>6, <2>1, <2>4, HandReleased
       DEF Buries, Releases, NoRepeat, DistinctHands, Apart, Queued, Held, Dead, Settled
<1>7. ASSUME NEW w \in Workers, Completes(w) \/ Drops(w)
      PROVE  /\ NoRepeat(queue)' /\ NoRepeat(dlq)' /\ DistinctHands'
             /\ \A j \in Jobs : Apart(j)'
  <2>1. Releases(w) /\ SameLists /\ done' \in {done, done \cup {hand[w].job}}
    BY <1>7 DEF Completes, Drops
  <2> QED
    BY <1>0, <2>1, HandReleased
       DEF Releases, SameLists, NoRepeat, DistinctHands, Apart, Queued, Held, Dead, Settled
<1> QED
  BY <1>1, <1>2, <1>3, <1>4, <1>5, <1>6, <1>7 DEF Kinds

\* No job is ever in two places: two copies in a list, two workers' hands, or
\* back in the queue after it was completed or dead-lettered.
THEOREM JobInOnePlace == Spec => []OnePlace
<1>1. Init => TypeInv /\ OnePlace
  BY TypeInvInit DEF Init, OnePlace, NoRepeat, Holds, Held, Queued, Dead, Settled, InList, Busy
<1>2. TypeInv /\ OnePlace /\ [Next]_vars => (TypeInv /\ OnePlace)'
  BY TypeInvStep, StepKinds, OnePlaceStep
<1> QED
  BY <1>1, <1>2, PTL DEF Spec

-----------------------------------------------------------------------------
(* The carried count is the number of failed attempts.                         *)

\* A job nobody enqueued has not been attempted; no job is attempted more often
\* than once and MaxRetries times again.
AttemptsInRange == \A j \in Jobs :
    /\ j \notin enqueued => attempts[j] = 0
    /\ attempts[j] <= MaxRetries + 1

\* AttemptsCounted, said of the lists with explicit indices.
CountedIn(list) == \A i \in 1..Len(list) : attempts[list[i].job] = list[i].retry
CountedInHands == \A v \in Workers : IsBusy(v) => attempts[hand[v].job] = hand[v].retry + 1
SpentIn(list) == \A i \in 1..Len(list) : attempts[list[i].job] = MaxRetries + 1

LEMMA AttemptsCountedParts ==
    ASSUME TypeOK
    PROVE  AttemptsCounted <=> CountedIn(queue) /\ CountedInHands /\ SpentIn(dlq)
<1>1. DOMAIN queue = 1..Len(queue) /\ DOMAIN dlq = 1..Len(dlq)
  BY DEF TypeOK
<1> QED
  BY <1>1 DEF AttemptsCounted, CountedIn, CountedInHands, SpentIn, IsBusy

AttemptsInv == AttemptsInRange /\ CountedIn(queue) /\ CountedInHands /\ SpentIn(dlq)

LEMMA AttemptsStep == TypeInv /\ OnePlace /\ AttemptsInv /\ Kinds => AttemptsInv'
<1> SUFFICES ASSUME TypeInv, OnePlace, AttemptsInv, Kinds
             PROVE  AttemptsInv'
  OBVIOUS
<1> USE DEF AttemptsInv, AttemptsInRange, CountedIn, CountedInHands, SpentIn
<1>0. /\ queue \in Seq(Message) /\ dlq \in Seq(Message) /\ attempts \in [Jobs -> Nat]
      /\ NoRepeat(queue) /\ DistinctHands /\ \A j \in Jobs : Apart(j)
      /\ \A m \in Message : m.job \in Jobs /\ m.retry \in 0..MaxRetries
      /\ MaxRetries \in Nat
  BY OnePlaceParts, ConstantsAssumption DEF TypeInv, TypeOK, Message
<1>1. CASE Quiet
  BY <1>1 DEF Quiet, SameLists, SameHands, SameBooks
<1>2. CASE LosesHead
  BY <1>0, <1>2 DEF LosesHead, SameHands, SameBooks
<1>3. ASSUME NEW a \in Jobs, Accepts(a)
      PROVE  AttemptsInv'
  <2> DEFINE m == [job |-> a, retry |-> 0]
  <2>1. m \in Message /\ m.job = a /\ m.retry = 0
    BY <1>0 DEF Message
  <2>2. queue' = Append(queue, m) /\ attempts' = attempts /\ attempts[a] = 0
    BY <1>3 DEF Accepts
  <2> HIDE DEF m
  <2>3. CountedIn(queue)'
    BY <1>0, <2>1, <2>2
  <2> QED
    BY <1>3, <2>3 DEF Accepts, SameHands
<1>4. ASSUME NEW w \in Workers, Takes(w)
      PROVE  AttemptsInv'
  <2> DEFINE h == Head(queue).job
  <2>1. /\ h \in Jobs /\ attempts' = [attempts EXCEPT ![h] = @ + 1]
        /\ attempts[h] = Head(queue).retry /\ Head(queue).retry \in 0..MaxRetries
        /\ Queued(h) /\ h \in enqueued /\ ~Dead(h) /\ ~Held(h)
    <3>1. InList(queue, h) /\ h \in Jobs
      BY <1>0, <1>4, TailJobs, HandTaken DEF Takes
    <3>2. 1 \in 1..Len(queue) /\ Head(queue) = queue[1]
      BY <1>0, <1>4 DEF Takes
    <3> QED
      BY <1>0, <1>4, <3>1, <3>2 DEF Takes, Queued, Apart
  <2>2. \A i \in 1..Len(Tail(queue)) :
           Tail(queue)[i] = queue[i + 1] /\ i + 1 \in 1..Len(queue) /\ queue[i + 1].job # h
    BY <1>0, <1>4 DEF Takes, NoRepeat
  <2>3. \A i \in 1..Len(dlq) : dlq[i].job # h
    BY <1>0, <2>1 DEF Dead, InList
  <2>4. \A v \in Workers \ {w} : IsBusy(v) => hand[v].job # h
    BY <2>1 DEF Held, Holds, IsBusy
  <2>5. /\ queue' = Tail(queue) /\ dlq' = dlq /\ hand'[w] = Head(queue)
        /\ enqueued' = enqueued /\ OthersStay(w)
    BY <1>4 DEF Takes
  <2>6. \A v \in Workers : IsBusy(v) => hand[v].job \in Jobs
    BY DEF IsBusy, TypeInv, TypeOK, Message
  <2>7. Head(queue).job = h /\ \A i \in 1..Len(queue) : queue[i].job \in Jobs
    BY <1>0
  <2>7a. \A i \in 1..Len(dlq) : dlq[i].job \in Jobs
    BY <1>0
  <2> HIDE DEF h
  <2>8. attempts'[h] = Head(queue).retry + 1 /\ \A j \in Jobs \ {h} : attempts'[j] = attempts[j]
    BY <1>0, <2>1
  <2>9. CountedIn(queue)'
    <3> SUFFICES ASSUME NEW i \in 1..Len(Tail(queue))
                 PROVE  attempts'[Tail(queue)[i].job] = Tail(queue)[i].retry
      BY <2>5
    <3>1. attempts[queue[i + 1].job] = queue[i + 1].retry
      BY <2>2
    <3> QED
      BY <2>2, <2>7, <2>8, <3>1
  <2>10. SpentIn(dlq)'
    BY <2>3, <2>5, <2>7a, <2>8
  <2>11. CountedInHands'
    BY <2>4, <2>5, <2>6, <2>7, <2>8 DEF OthersStay
  <2>12. AttemptsInRange'
    BY <1>0, <2>1, <2>5, <2>8
  <2> QED
    BY <2>9, <2>10, <2>11, <2>12
<1>5. ASSUME NEW w \in Workers, PutsBack(w)
      PROVE  AttemptsInv'
  <2> DEFINE m == NextTry(hand[w])
  <2>1. m \in Message /\ m.job = hand[w].job /\ m.retry = hand[w].retry + 1
    BY <1>5, HandReleased, NextTryType, ConstantsAssumption DEF PutsBack
  <2>2. queue' = Append(queue, m) /\ attempts' = attempts /\ attempts[m.job] = m.retry
    BY <1>5, <2>1 DEF PutsBack, Releases
  <2> HIDE DEF m
  <2>3. CountedIn(queue)'
    BY <1>0, <2>1, <2>2
  <2> QED
    BY <1>5, <2>3 DEF PutsBack, Releases, OthersStay
<1>6. ASSUME NEW w \in Workers, Buries(w)
      PROVE  AttemptsInv'
  <2> DEFINE m == hand[w]
  <2>1. m \in Message
    BY <1>6, HandReleased DEF Buries
  <2>2. dlq' = Append(dlq, m) /\ attempts' = attempts /\ attempts[m.job] = MaxRetries + 1
    BY <1>6 DEF Buries, Releases
  <2> HIDE DEF m
  <2>3. SpentIn(dlq)'
    BY <1>0, <2>1, <2>2
  <2> QED
    BY <1>6, <2>3 DEF Buries, Releases, OthersStay
<1>7. ASSUME NEW w \in Workers, Completes(w) \/ Drops(w)
      PROVE  AttemptsInv'
  BY <1>7 DEF Completes, Drops, Releases, OthersStay, SameLists
<1> QED
  BY <1>1, <1>2, <1>3, <1>4, <1>5, <1>6, <1>7 DEF Kinds

-----------------------------------------------------------------------------
(* Where jobs are, how often they ran: the invariant everything else rests on. *)

JobInv == TypeInv /\ OnePlace /\ AttemptsInv

LEMMA JobInvHolds == Spec => []JobInv
<1>1. Init => JobInv
  <2>1. Init => OnePlace
    BY DEF Init, OnePlace, NoRepeat, Holds, Held, Queued, Dead, Settled, InList, Busy
  <2>2. Init => AttemptsInv
    BY ConstantsAssumption DEF Init, AttemptsInv, AttemptsInRange, CountedIn, CountedInHands,
       SpentIn, IsBusy, Busy
  <2> QED
    BY TypeInvInit, <2>1, <2>2 DEF JobInv
<1>2. JobInv /\ [Next]_vars => JobInv'
  BY TypeInvStep, StepKinds, OnePlaceStep, AttemptsStep DEF JobInv
<1> QED
  BY <1>1, <1>2, PTL DEF Spec

\* The retry count carried through Redis always equals the attempts that failed,
\* and a dead-lettered job has used every attempt.
THEOREM RetriesCounted == Spec => []AttemptsCounted
<1>1. JobInv => AttemptsCounted
  BY AttemptsCountedParts DEF JobInv, AttemptsInv, TypeInv
<1> QED
  BY <1>1, JobInvHolds, PTL

-----------------------------------------------------------------------------
(* What a step does to the places of the jobs: at most one job moves.          *)

SamePlace(j) ==
    /\ (j \in enqueued)' <=> j \in enqueued
    /\ (j \in done)' <=> j \in done
    /\ Queued(j)' <=> Queued(j)
    /\ Held(j)' <=> Held(j)
    /\ Dead(j)' <=> Dead(j)

OnlyMoves(h) == \A j \in Jobs \ {h} : SamePlace(j)
SameAttempts == attempts' = attempts

Arrives(h) == h \notin enqueued /\ Queued(h)' /\ SameAttempts /\ NoFail
Starts(h) == Queued(h) /\ Held(h)' /\ attempts' = [attempts EXCEPT ![h] = @ + 1] /\ NoFail
Vanishes(h) == (Queued(h) \/ Held(h)) /\ h \in Lost' /\ SameAttempts /\ Fails
Returns(h) == Held(h) /\ attempts[h] <= MaxRetries /\ Queued(h)' /\ SameAttempts /\ MayFail
Dies(h) == Held(h) /\ attempts[h] = MaxRetries + 1 /\ Dead(h)' /\ SameAttempts /\ MayFail
Succeeds(h) == Held(h) /\ (h \in done)' /\ SameAttempts /\ NoFail

Moves(h) ==
    /\ OnlyMoves(h)
    /\ Arrives(h) \/ Starts(h) \/ Vanishes(h) \/ Returns(h) \/ Dies(h) \/ Succeeds(h)

NothingMoves == (\A j \in Jobs : SamePlace(j)) /\ SameAttempts /\ MayFail

LEMMA OneJobMoves == JobInv /\ Kinds => NothingMoves \/ \E h \in Jobs : Moves(h)
<1> SUFFICES ASSUME JobInv, Kinds
             PROVE  NothingMoves \/ \E h \in Jobs : Moves(h)
  OBVIOUS
<1> USE DEF Moves, OnlyMoves, SamePlace, SameAttempts, Queued, Dead
<1>0. /\ queue \in Seq(Message) /\ dlq \in Seq(Message) /\ NoRepeat(queue) /\ DistinctHands
      /\ TypeInv /\ \A j \in Jobs : Apart(j)
  BY OnePlaceParts DEF JobInv, TypeInv, TypeOK
<1>a. SameHands => \A j \in Jobs : Held(j)' <=> Held(j)
  BY HandsStay DEF Held
<1>1. CASE Quiet
  BY <1>1, <1>a DEF Quiet, SameLists, SameBooks, NothingMoves
<1>2. CASE LosesHead
  <2>1. PICK h \in Jobs : h = Head(queue).job
    BY <1>0, <1>2, PopTypes DEF LosesHead, TypeInv, Message
  <2>2. InList(queue, h) /\ \A j \in Jobs : InList(queue', j) <=> InList(queue, j) /\ j # h
    BY <1>0, <1>2, <2>1, TailJobs DEF LosesHead
  <2>3. Apart(h)
    BY <1>0
  <2> QED
    BY <1>2, <1>a, <2>1, <2>2, <2>3
       DEF LosesHead, SameBooks, Vanishes, Lost, Settled, Apart
<1>3. ASSUME NEW a \in Jobs, Accepts(a)
      PROVE  Moves(a)
  <2> DEFINE m == [job |-> a, retry |-> 0]
  <2>1. m \in Message /\ m.job = a /\ queue' = Append(queue, m)
    BY <1>3, ConstantsAssumption DEF Message, Accepts
  <2> HIDE DEF m
  <2>2. \A j \in Jobs : InList(queue', j) <=> InList(queue, j) \/ j = a
    BY <1>0, <2>1, AppendJobs
  <2> QED
    BY <1>3, <1>a, <2>2 DEF Accepts, Arrives
<1>4. ASSUME NEW w \in Workers, Takes(w), NEW h \in Jobs, h = Head(queue).job
      PROVE  Moves(h)
  <2>1. InList(queue, Head(queue).job)
        /\ \A j \in Jobs : InList(queue', j) <=> InList(queue, j) /\ j # h
    BY <1>0, <1>4, TailJobs DEF Takes
  <2>2. \A j \in Jobs : Held(j)' <=> Held(j) \/ j = h
    BY <1>0, <1>4, HandTaken DEF Held
  <2> QED
    BY <1>4, <2>1, <2>2 DEF Takes, Starts
<1>5. ASSUME NEW w \in Workers, Releases(w)
      PROVE  /\ hand[w] \in Message /\ hand[w].job \in Jobs /\ Held(hand[w].job)
             /\ attempts[hand[w].job] = hand[w].retry + 1
             /\ \A j \in Jobs : Held(j)' <=> Held(j) /\ j # hand[w].job
  BY <1>0, <1>5, HandReleased
     DEF DistinctHands, JobInv, AttemptsInv, CountedInHands, Releases, Held
<1>6. ASSUME NEW w \in Workers, PutsBack(w), NEW h \in Jobs, h = hand[w].job
      PROVE  Moves(h)
  <2> DEFINE m == NextTry(hand[w])
  <2>1. m \in Message /\ m.job = hand[w].job /\ queue' = Append(queue, m)
    BY <1>5, <1>6, NextTryType, ConstantsAssumption DEF PutsBack
  <2> HIDE DEF m
  <2>2. \A j \in Jobs : InList(queue', j) <=> InList(queue, j) \/ j = hand[w].job
    BY <1>0, <2>1, AppendJobs
  <2>3. attempts[hand[w].job] <= MaxRetries
    BY <1>5, <1>6, ConstantsAssumption DEF PutsBack, Message
  <2> QED
    BY <1>5, <1>6, <2>2, <2>3 DEF PutsBack, Releases, Returns
<1>7. ASSUME NEW w \in Workers, Buries(w), NEW h \in Jobs, h = hand[w].job
      PROVE  Moves(h)
  <2>1. \A j \in Jobs : InList(dlq', j) <=> InList(dlq, j) \/ j = hand[w].job
    BY <1>0, <1>5, <1>7, AppendJobs DEF Buries
  <2> QED
    BY <1>5, <1>7, <2>1 DEF Buries, Releases, Dies
<1>8. ASSUME NEW w \in Workers, Completes(w), NEW h \in Jobs, h = hand[w].job
      PROVE  Moves(h)
  BY <1>5, <1>8 DEF Completes, Releases, SameLists, Succeeds
<1>9. ASSUME NEW w \in Workers, Drops(w), NEW h \in Jobs, h = hand[w].job
      PROVE  Moves(h)
  BY <1>0, <1>5, <1>9 DEF Drops, Releases, SameLists, Vanishes, Lost, Settled, Apart
<1>10. ASSUME NEW w \in Workers, Takes(w) \/ PutsBack(w) \/ Buries(w) \/ Completes(w) \/ Drops(w)
       PROVE  \E h \in Jobs : Moves(h)
  <2>1. Takes(w) => Head(queue).job \in Jobs
    BY <1>0, HandTaken
  <2>2. ~Takes(w) => hand[w].job \in Jobs
    BY <1>5, <1>10 DEF PutsBack, Buries, Completes, Drops
  <2> HIDE DEF Moves
  <2> QED
    BY <1>4, <1>6, <1>7, <1>8, <1>9, <1>10, <2>1, <2>2
<1> HIDE DEF Moves
<1> QED
  BY <1>1, <1>2, <1>3, <1>10 DEF Kinds

-----------------------------------------------------------------------------
(* Losses. *)

LEMMA LostStep ==
    ASSUME JobInv, Kinds
    PROVE  \/ Lost' \subseteq Lost /\ MayFail
           \/ Fails /\ \E j \in Jobs : Lost' \subseteq Lost \cup {j}
<1>1. enqueued' \subseteq Jobs
  BY DEF JobInv, TypeInv, TypeOK, Kinds, Quiet, LosesHead, SameBooks, Accepts, Takes, PutsBack,
     Buries, Completes, Drops, Releases
<1>2. \A j \in Jobs : SamePlace(j) => (j \in Lost' <=> j \in Lost)
  BY DEF SamePlace, Lost, Settled
<1>3. NoFail => MayFail
  BY DEF NoFail, MayFail
<1>4. CASE NothingMoves
  BY <1>1, <1>2, <1>4 DEF NothingMoves, Lost
<1>5. ASSUME NEW h \in Jobs, Moves(h)
      PROVE  \/ Lost' \subseteq Lost /\ MayFail
             \/ Fails /\ Lost' \subseteq Lost \cup {h}
  <2>1. Lost' \subseteq Lost \cup {h}
    BY <1>1, <1>2, <1>5 DEF Moves, OnlyMoves, Lost
  <2>2. CASE Vanishes(h)
    BY <2>1, <2>2 DEF Vanishes
  <2>3. CASE ~Vanishes(h)
    <3>1. h \notin Lost' /\ MayFail
      BY <1>3, <1>5, <2>3
         DEF Moves, Arrives, Starts, Returns, Dies, Succeeds, Lost, Settled
    <3> QED
      BY <2>1, <3>1
  <2> QED
    BY <2>2, <2>3
<1> QED
  BY <1>4, <1>5, OneJobMoves

LossInv == IsFiniteSet(Lost) /\ Cardinality(Lost) <= Failures

\* Every lost job is paid for by a failure of its own: with no kill and no Redis
\* fault, nothing is lost, whatever fails inside process_job and however often
\* workers are told to shut down.
THEOREM LossesBounded == Spec => []LossBounded
<1>1. Init => LossInv
  <2>1. Init => Lost = {} /\ Failures = 0
    BY DEF Init, Lost, Failures
  <2> QED
    BY <2>1, FS_EmptySet DEF LossInv
<1>2. JobInv /\ LossInv /\ [Next]_vars => LossInv'
  <2> SUFFICES ASSUME JobInv, LossInv, [Next]_vars
               PROVE  LossInv'
    OBVIOUS
  <2>1. Failures \in Nat
    BY ConstantsAssumption DEF JobInv, TypeInv, TypeOK, Failures
  <2>2. CASE Lost' \subseteq Lost /\ MayFail
    <3>1. IsFiniteSet(Lost') /\ Cardinality(Lost') <= Cardinality(Lost)
          /\ Cardinality(Lost) \in Nat /\ Cardinality(Lost') \in Nat
      BY <2>2, FS_Subset, FS_CardinalityType DEF LossInv
    <3> QED
      BY <2>1, <2>2, <3>1 DEF LossInv, MayFail
  <2>3. ASSUME Fails, NEW j \in Jobs, Lost' \subseteq Lost \cup {j}
        PROVE  LossInv'
    <3>1. /\ IsFiniteSet(Lost \cup {j})
          /\ Cardinality(Lost \cup {j}) <= Cardinality(Lost) + 1
          /\ Cardinality(Lost) \in Nat
      BY FS_AddElement, FS_CardinalityType DEF LossInv
    <3>2. IsFiniteSet(Lost') /\ Cardinality(Lost') <= Cardinality(Lost \cup {j})
          /\ Cardinality(Lost \cup {j}) \in Nat /\ Cardinality(Lost') \in Nat
      BY <2>3, <3>1, FS_Subset, FS_CardinalityType
    <3> QED
      BY <2>1, <2>3, <3>1, <3>2 DEF LossInv, Fails
  <2> QED
    BY <2>2, <2>3, StepKinds, LostStep DEF JobInv
<1>3. LossInv => LossBounded
  BY DEF LossInv, LossBounded, Failures
<1> QED
  BY <1>1, <1>2, <1>3, JobInvHolds, PTL DEF Spec

-----------------------------------------------------------------------------
(* Rows and scores. A row is paid for by an attempt, and the attempt of a      *)
(* worker that has not reached its commit is still to be spent; the scores of  *)
(* an attempt are paid for by the row it committed first.                      *)

RowsInv ==
    /\ \A j \in Jobs : rows[j] <= attempts[j]
    /\ \A w \in Workers : pc[w] \in {"score", "commit"} =>
           rows[hand[w].job] < attempts[hand[w].job]

ScoresInv ==
    /\ ScoresBacked
    /\ \A w \in Workers : pc[w] = "submit" =>
           /\ scores[hand[w].job] + todo[w] <= MaxScores * rows[hand[w].job]
           /\ rows[hand[w].job] >= 1

\* Workers that hold a message hold different jobs.
LEMMA HandsDiffer ==
    ASSUME JobInv, NEW v \in Workers, NEW w \in Workers, v # w, IsBusy(v), IsBusy(w)
    PROVE  hand[v].job # hand[w].job /\ hand[v].job \in Jobs
BY DEF JobInv, TypeInv, TypeOK, OnePlace, Holds, IsBusy, Message

LEMMA RowsStep == JobInv /\ RowsInv /\ [Next]_vars => RowsInv'
<1> SUFFICES ASSUME JobInv, RowsInv, [Next]_vars
             PROVE  RowsInv'
  OBVIOUS
<1> USE DEF RowsInv, env, sinks, history
<1>0. /\ pc \in [Workers -> Labels] /\ rows \in [Jobs -> Nat] /\ attempts \in [Jobs -> Nat]
      /\ hand \in [Workers -> Message \cup {NoMsg}]
      /\ \A w \in Workers : pc[w] \in Busy => hand[w].job \in Jobs
      /\ \A v, w \in Workers :
            pc[v] \in Busy /\ pc[w] \in Busy /\ v # w => hand[v].job # hand[w].job
  BY HandsDiffer DEF JobInv, TypeInv, TypeOK, IsBusy, Message
<1>1. ASSUME NEW j \in Jobs, Enqueue(j)
      PROVE  RowsInv'
  BY <1>1 DEF Enqueue
<1>2. ASSUME NEW w \in Workers, CheckShutdown(w)
      PROVE  RowsInv'
  BY <1>0, <1>2 DEF CheckShutdown, Goto
<1>3. ASSUME NEW w \in Workers, BrpopTimeout(w)
      PROVE  RowsInv'
  BY <1>0, <1>3 DEF BrpopTimeout, Goto
<1>4. ASSUME NEW w \in Workers, Pop(w)
      PROVE  RowsInv'
  <2> DEFINE h == Head(queue).job
  <2>1. h \in Jobs
    BY <1>4, PopTypes DEF Pop, JobInv, TypeInv, Message
  <2>2. /\ pc' = [pc EXCEPT ![w] = "score"] /\ rows' = rows
        /\ hand' = [hand EXCEPT ![w] = Head(queue)] /\ attempts' = [attempts EXCEPT ![h] = @ + 1]
    BY <1>4 DEF Pop, Goto
  <2>3. hand'[w].job = h
    BY <1>0, <2>2
  <2> HIDE DEF h
  <2>4. attempts'[h] = attempts[h] + 1 /\ \A j \in Jobs \ {h} : attempts'[j] = attempts[j]
    BY <1>0, <2>1, <2>2
  <2>5. \A j \in Jobs : attempts[j] <= attempts'[j] /\ rows[j] \in Nat
        /\ attempts[j] \in Nat /\ attempts'[j] \in Nat
    BY <1>0, <2>1, <2>4
  <2>6. \A v \in Workers \ {w} : pc'[v] = pc[v] /\ hand'[v] = hand[v]
    BY <1>0, <2>2
  <2>7. \A v \in Workers : pc[v] \in {"score", "commit"} => hand[v].job \in Jobs
    BY <1>0 DEF Busy
  <2>8. \A j \in Jobs : rows'[j] <= attempts'[j]
    BY <2>2, <2>5
  <2>9. rows'[hand'[w].job] < attempts'[hand'[w].job]
    BY <2>1, <2>2, <2>3, <2>4, <2>5
  <2>10. \A v \in Workers \ {w} : pc[v] \in {"score", "commit"} =>
            rows[hand[v].job] < attempts'[hand[v].job]
    BY <2>5, <2>7
  <2> QED
    BY <2>2, <2>6, <2>8, <2>9, <2>10
<1>5. ASSUME NEW w \in Workers, RunPipeline(w)
      PROVE  RowsInv'
  BY <1>0, <1>5 DEF RunPipeline, Goto
<1>6. ASSUME NEW w \in Workers, Commit(w)
      PROVE  RowsInv'
  BY <1>0, <1>6 DEF Commit, Goto, Busy
<1>7. ASSUME NEW w \in Workers, SubmitScore(w)
      PROVE  RowsInv'
  BY <1>7 DEF SubmitScore
<1>8. ASSUME NEW w \in Workers, Finish(w)
      PROVE  RowsInv'
  BY <1>0, <1>8 DEF Finish, Goto, Drop
<1>9. ASSUME NEW w \in Workers, Raises(w)
      PROVE  RowsInv'
  <2>1. /\ pc' = [pc EXCEPT ![w] = AfterFailure(hand[w])]
        /\ AfterFailure(hand[w]) \notin {"score", "commit"}
        /\ hand' = hand /\ attempts' = attempts
    BY <1>9 DEF Raises, AfterFailure
  <2>2. CASE rows' = rows
    BY <1>0, <2>1, <2>2
  <2>3. CASE pc[w] = "commit" /\ rows' = [rows EXCEPT ![hand[w].job] = @ + 1]
    BY <1>0, <2>1, <2>3 DEF Busy
  <2> QED
    BY <1>9, <2>2, <2>3 DEF Raises
<1>10. ASSUME NEW w \in Workers, Requeue(w) \/ Bury(w)
       PROVE  RowsInv'
  BY <1>0, <1>10 DEF Requeue, Bury, Goto, Drop
<1>11. ASSUME NEW w \in Workers, RedisRaises(w) \/ Kill(w)
       PROVE  RowsInv'
  BY <1>0, <1>11 DEF RedisRaises, Kill, Drop
<1>12. ASSUME NEW w \in Workers, RequestShutdown(w) \/ Restart(w)
       PROVE  RowsInv'
  BY <1>0, <1>12 DEF RequestShutdown, Restart, Goto
<1>13. CASE UNCHANGED vars
  BY <1>13 DEF vars
<1> QED
  BY <1>1, <1>2, <1>3, <1>4, <1>5, <1>6, <1>7, <1>8, <1>9, <1>10, <1>11, <1>12, <1>13
     DEF Next, Step

\* However attempts fail after their commit, a job leaves at most MAX_RETRIES + 1
\* rows in score_results.
THEOREM DuplicatesBounded == Spec => []RowsBounded
<1>1. Init => RowsInv
  BY DEF Init, RowsInv
<1>2. JobInv /\ RowsInv => RowsBounded
  BY ConstantsAssumption
     DEF JobInv, TypeInv, TypeOK, AttemptsInv, AttemptsInRange, RowsInv, RowsBounded
<1> QED
  BY <1>1, <1>2, RowsStep, JobInvHolds, PTL DEF Spec

LEMMA ScoresStep == JobInv /\ ScoresInv /\ [Next]_vars => ScoresInv'
<1> SUFFICES ASSUME JobInv, ScoresInv, [Next]_vars
             PROVE  ScoresInv'
  OBVIOUS
<1> USE DEF ScoresInv, ScoresBacked, env, sinks, history
<1>0. /\ pc \in [Workers -> Labels] /\ rows \in [Jobs -> Nat] /\ scores \in [Jobs -> Nat]
      /\ todo \in [Workers -> 0..MaxScores] /\ MaxScores \in Nat /\ done \subseteq Jobs
      /\ \A w \in Workers : pc[w] \in Busy => hand[w].job \in Jobs
      /\ \A v, w \in Workers :
            pc[v] \in Busy /\ pc[w] \in Busy /\ v # w => hand[v].job # hand[w].job
  BY HandsDiffer, ConstantsAssumption DEF JobInv, TypeInv, TypeOK, IsBusy, Message
<1>a. /\ hand \in [Workers -> Message \cup {NoMsg}]
      /\ \A n \in Nat : MaxScores * (n + 1) = MaxScores * n + MaxScores /\ MaxScores * n \in Nat
  BY <1>0 DEF JobInv, TypeInv, TypeOK
\* Steps that touch neither rows nor scores, nor the message and the scores left
\* of a worker that keeps submitting.
<1>b. ASSUME sinks' = sinks, done' = done,
             \A v \in Workers : pc'[v] = "submit" =>
                 pc[v] = "submit" /\ hand'[v] = hand[v] /\ todo'[v] = todo[v]
      PROVE  ScoresInv'
  BY <1>b
<1>1. ASSUME NEW j \in Jobs, Enqueue(j)
      PROVE  ScoresInv'
  BY <1>1, <1>b DEF Enqueue
<1>2. ASSUME NEW w \in Workers,
             CheckShutdown(w) \/ BrpopTimeout(w) \/ Pop(w) \/ RunPipeline(w) \/ Restart(w)
      PROVE  ScoresInv'
  <2>1. pc'[w] # "submit" /\ \A v \in Workers \ {w} :
           pc'[v] = pc[v] /\ hand'[v] = hand[v] /\ todo'[v] = todo[v]
    BY <1>0, <1>a, <1>2 DEF CheckShutdown, BrpopTimeout, Pop, RunPipeline, Restart, Goto
  <2> QED
    BY <1>2, <1>b, <2>1 DEF CheckShutdown, BrpopTimeout, Pop, RunPipeline, Restart
<1>3. ASSUME NEW w \in Workers, Requeue(w) \/ Bury(w) \/ RedisRaises(w) \/ Kill(w)
      PROVE  ScoresInv'
  <2>1. pc'[w] # "submit" /\ \A v \in Workers \ {w} :
           pc'[v] = pc[v] /\ hand'[v] = hand[v] /\ todo'[v] = todo[v]
    BY <1>0, <1>a, <1>3 DEF Requeue, Bury, RedisRaises, Kill, Goto, Drop
  <2> QED
    BY <1>3, <1>b, <2>1 DEF Requeue, Bury, RedisRaises, Kill
<1>4. ASSUME NEW w \in Workers, RequestShutdown(w)
      PROVE  ScoresInv'
  BY <1>4, <1>b DEF RequestShutdown
<1>5. ASSUME NEW w \in Workers, Commit(w)
      PROVE  ScoresInv'
  <2> DEFINE k == hand[w].job
  <2>1. /\ k \in Jobs /\ rows' = [rows EXCEPT ![k] = @ + 1] /\ scores' = scores /\ done' = done
        /\ hand' = hand /\ todo' = todo /\ pc' = [pc EXCEPT ![w] = "submit"]
        /\ \A v \in Workers \ {w} : pc[v] = "submit" => hand[v].job # k /\ hand[v].job \in Jobs
    BY <1>0, <1>5 DEF Commit, Goto, Busy
  <2>2. k = hand[w].job
    OBVIOUS
  <2> HIDE DEF k
  <2>3. rows'[k] = rows[k] + 1 /\ \A j \in Jobs \ {k} : rows'[j] = rows[j]
    BY <1>0, <2>1
  <2>4. MaxScores * rows'[k] = MaxScores * rows[k] + MaxScores /\ rows[k] \in Nat
    BY <1>0, <1>a, <2>1, <2>3
  <2>5. scores[k] + todo[w] <= MaxScores * rows'[k] /\ scores[k] <= MaxScores * rows'[k]
    <3>1. scores[k] <= MaxScores * rows[k] /\ todo[w] \in 0..MaxScores /\ scores[k] \in Nat
          /\ MaxScores * rows[k] \in Nat
      BY <1>0, <1>a, <2>1
    <3> HIDE DEF ScoresInv, ScoresBacked
    <3> QED
      BY <1>0, <2>4, <3>1
  <2>6. ScoresBacked'
    <3>1. \A j \in Jobs : scores'[j] <= MaxScores * rows'[j]
      BY <2>1, <2>3, <2>5
    <3>2. \A j \in done' : rows'[j] >= 1
      BY <1>0, <2>1, <2>3, <2>4
    <3> QED
      BY <3>1, <3>2
  <2>7. \A v \in Workers : pc'[v] = "submit" =>
           /\ scores'[hand'[v].job] + todo'[v] <= MaxScores * rows'[hand'[v].job]
           /\ rows'[hand'[v].job] >= 1
    <3> SUFFICES ASSUME NEW v \in Workers, pc'[v] = "submit"
                 PROVE  /\ scores[hand[v].job] + todo[v] <= MaxScores * rows'[hand[v].job]
                        /\ rows'[hand[v].job] >= 1
      BY <2>1
    <3>1. CASE v = w
      BY <2>2, <2>3, <2>4, <2>5, <3>1
    <3>2. CASE v # w
      BY <1>0, <2>1, <2>3, <3>2
    <3> QED
      BY <3>1, <3>2
  <2> QED
    BY <2>6, <2>7
<1>6. ASSUME NEW w \in Workers, SubmitScore(w)
      PROVE  ScoresInv'
  <2> DEFINE k == hand[w].job
  <2>1. /\ k \in Jobs /\ scores' = [scores EXCEPT ![k] = @ + 1] /\ rows' = rows /\ done' = done
        /\ hand' = hand /\ todo' = [todo EXCEPT ![w] = @ - 1] /\ pc' = pc /\ pc[w] = "submit"
        /\ todo[w] \in Nat \ {0}
        /\ \A v \in Workers \ {w} : pc[v] = "submit" => hand[v].job # k /\ hand[v].job \in Jobs
    BY <1>0, <1>6 DEF SubmitScore, Busy
  <2>2. k = hand[w].job
    OBVIOUS
  <2> HIDE DEF k
  <2>3. scores'[k] = scores[k] + 1 /\ \A j \in Jobs \ {k} : scores'[j] = scores[j]
    BY <1>0, <2>1
  <2>4. todo'[w] = todo[w] - 1 /\ \A v \in Workers \ {w} : todo'[v] = todo[v]
    BY <1>0, <2>1
  <2>5. scores[k] + todo[w] <= MaxScores * rows[k] /\ rows[k] >= 1
        /\ scores[k] \in Nat /\ MaxScores * rows[k] \in Nat
    BY <1>0, <1>a, <2>1, <2>2
  <2>6. scores'[k] + todo'[w] <= MaxScores * rows[k] /\ scores'[k] <= MaxScores * rows[k]
    BY <2>1, <2>3, <2>4, <2>5
  <2>7. \A j \in Jobs : scores'[j] <= MaxScores * rows'[j]
    BY <2>1, <2>3, <2>6
  <2>8. \A v \in Workers : pc'[v] = "submit" =>
           /\ scores'[hand'[v].job] + todo'[v] <= MaxScores * rows'[hand'[v].job]
           /\ rows'[hand'[v].job] >= 1
    <3> SUFFICES ASSUME NEW v \in Workers, pc[v] = "submit"
                 PROVE  /\ scores'[hand[v].job] + todo'[v] <= MaxScores * rows[hand[v].job]
                        /\ rows[hand[v].job] >= 1
      BY <2>1
    <3>1. CASE v = w
      BY <2>2, <2>5, <2>6, <3>1
    <3>2. CASE v # w
      BY <2>1, <2>3, <2>4, <3>2
    <3> QED
      BY <3>1, <3>2
  <2> QED
    BY <2>1, <2>7, <2>8
<1>7. ASSUME NEW w \in Workers, Finish(w)
      PROVE  ScoresInv'
  <2>1. /\ pc' = [pc EXCEPT ![w] = "loop"] /\ sinks' = sinks /\ done' = done \cup {hand[w].job}
        /\ pc[w] = "submit"
        /\ \A v \in Workers \ {w} : hand'[v] = hand[v] /\ todo'[v] = todo[v]
    BY <1>0, <1>a, <1>7 DEF Finish, Goto, Drop
  <2> QED
    BY <1>0, <2>1
<1>8. ASSUME NEW w \in Workers, Raises(w)
      PROVE  ScoresInv'
  <2>1. /\ pc' = [pc EXCEPT ![w] = AfterFailure(hand[w])] /\ AfterFailure(hand[w]) # "submit"
        /\ hand' = hand /\ scores' = scores /\ done' = done
        /\ \A v \in Workers \ {w} : todo'[v] = todo[v]
    BY <1>0, <1>8 DEF Raises, AfterFailure
  <2>2. CASE rows' = rows
    BY <1>0, <2>1, <2>2
  <2>3. CASE pc[w] = "commit" /\ rows' = [rows EXCEPT ![hand[w].job] = @ + 1]
    <3> DEFINE k == hand[w].job
    <3>1. k \in Jobs /\ rows' = [rows EXCEPT ![k] = @ + 1]
          /\ \A v \in Workers \ {w} : pc[v] = "submit" => hand[v].job # k /\ hand[v].job \in Jobs
      BY <1>0, <2>3 DEF Busy
    <3> HIDE DEF k
    <3>2. rows'[k] = rows[k] + 1 /\ \A j \in Jobs \ {k} : rows'[j] = rows[j]
      BY <1>0, <3>1
    <3>3. /\ rows[k] \in Nat /\ scores[k] \in Nat /\ scores[k] <= MaxScores * rows[k]
          /\ MaxScores * rows[k] \in Nat /\ MaxScores * rows'[k] = MaxScores * rows[k] + MaxScores
      BY <1>0, <1>a, <3>1, <3>2
    <3>4. scores[k] <= MaxScores * rows'[k] /\ rows'[k] >= 1
      BY <1>0, <3>2, <3>3
    <3>5. ScoresBacked'
      BY <1>0, <2>1, <3>1, <3>2, <3>4
    <3> QED
      BY <1>0, <2>1, <3>1, <3>2, <3>5
  <2> QED
    BY <1>8, <2>2, <2>3 DEF Raises
<1>9. CASE UNCHANGED vars
  BY <1>9, <1>b DEF vars
<1> QED
  BY <1>1, <1>2, <1>3, <1>4, <1>5, <1>6, <1>7, <1>8, <1>9 DEF Next, Step

\* The observability backend never holds scores that no committed row backs, and
\* a job counted as a success has its row.
THEOREM ScoresAreBacked == Spec => []ScoresBacked
<1>1. Init => ScoresInv
  BY ConstantsAssumption DEF Init, ScoresInv, ScoresBacked
<1>2. ScoresInv => ScoresBacked
  BY DEF ScoresInv
<1> QED
  BY <1>1, <1>2, ScoresStep, JobInvHolds, PTL DEF Spec

-----------------------------------------------------------------------------
(* Refinement: the workers implement JobDelivery.                              *)

StatusMap == [j \in Jobs |-> StatusOf(j)]

\* Under the invariant the places of a job exclude each other, so each alone
\* fixes its status.
LEMMA StatusAt ==
    ASSUME JobInv, NEW j \in Jobs
    PROVE  /\ j \in done => StatusOf(j) = "done"
           /\ Queued(j) => StatusOf(j) = "waiting"
           /\ Held(j) => StatusOf(j) = "running"
           /\ Dead(j) => StatusOf(j) = "dead"
           /\ j \in Lost => StatusOf(j) = "lost"
           /\ j \notin enqueued => StatusOf(j) = "absent"
<1>1. Apart(j)
  BY OnePlaceParts DEF JobInv
<1> QED
  BY <1>1 DEF Apart, StatusOf, Lost, Settled

LEMMA StatusStays ==
    ASSUME NEW j \in Jobs, SamePlace(j)
    PROVE  StatusOf(j)' = StatusOf(j)
BY DEF SamePlace, StatusOf, Lost, Settled

LEMMA StatusMoves ==
    ASSUME NEW h \in Jobs, OnlyMoves(h)
    PROVE  StatusMap' = [StatusMap EXCEPT ![h] = StatusOf(h)']
<1>1. \A j \in Jobs \ {h} : StatusOf(j)' = StatusOf(j)
  BY StatusStays DEF OnlyMoves
<1> QED
  BY <1>1 DEF StatusMap

LEMMA StepRefines ==
    ASSUME JobInv, JobInv', Kinds
    PROVE  [Delivery!Next]_Delivery!vars
<1> USE DEF Delivery!vars, Delivery!Next, Delivery!FailIdle, Delivery!Blame, Delivery!Progress,
        NoFail, Fails, MayFail, Failures, SameAttempts
<1>1. CASE NothingMoves
  <2>1. StatusMap' = StatusMap
    BY <1>1, StatusStays DEF NothingMoves, StatusMap
  <2> QED
    BY <1>1, <2>1 DEF NothingMoves, StatusMap
<1>2. ASSUME NEW h \in Jobs, Moves(h)
      PROVE  Delivery!Submit(h) \/ Delivery!Progress(h)
  <2> DEFINE from == StatusOf(h)
             to == StatusOf(h)'
  <2>1. /\ StatusMap' = [StatusMap EXCEPT ![h] = to]
        /\ StatusMap[h] = from
    BY <1>2, StatusMoves DEF Moves, StatusMap
  <2>2. /\ (h \in done)' => to = "done"
        /\ Queued(h)' => to = "waiting"
        /\ Held(h)' => to = "running"
        /\ Dead(h)' => to = "dead"
        /\ h \in Lost' => to = "lost"
    <3>1. Apart(h)'
      BY DEF JobInv, OnePlace, Apart
    <3> QED
      BY <3>1 DEF Apart, StatusOf, Lost, Settled
  <2>3. /\ Queued(h) => from = "waiting"
        /\ Held(h) => from = "running"
        /\ h \notin enqueued => from = "absent"
    BY StatusAt
  <2> USE DEF StatusMap, Delivery!Move
  <2>4. CASE Arrives(h)
    BY <2>1, <2>2, <2>3, <2>4 DEF Arrives, Delivery!Submit
  <2>5. CASE Starts(h)
    BY <2>1, <2>2, <2>3, <2>5 DEF Starts, Delivery!Take
  <2>6. CASE Vanishes(h)
    BY <2>1, <2>2, <2>3, <2>6 DEF Vanishes, Delivery!FailOn
  <2>7. CASE Returns(h)
    BY <2>1, <2>2, <2>3, <2>7 DEF Returns, Delivery!FailOn, Delivery!Retry
  <2>8. CASE Dies(h)
    BY <2>1, <2>2, <2>3, <2>8 DEF Dies, Delivery!FailOn, Delivery!Bury
  <2>9. CASE Succeeds(h)
    BY <2>1, <2>2, <2>3, <2>9 DEF Succeeds, Delivery!Complete
  <2> QED
    BY <1>2, <2>4, <2>5, <2>6, <2>7, <2>8, <2>9 DEF Moves
<1> QED
  BY <1>1, <1>2, OneJobMoves

\* Queue, workers and retry counter implement the delivery contract: a job runs
\* at most MAX_RETRIES + 1 times, dies only when they are used up, never leaves a
\* final state, and is lost only to a failure.
THEOREM WorkersDeliver == Spec => DeliverySafety
<1>1. Init => Delivery!Init
  <2>1. Init => \A j \in Jobs : StatusOf(j) = "absent"
    BY DEF Init, StatusOf, Lost, Queued, Held, Holds, Dead, Settled, InList, Busy
  <2> QED
    BY <2>1 DEF Init, Delivery!Init
<1>2. JobInv /\ JobInv' /\ [Next]_vars => [Delivery!Next]_Delivery!vars
  BY StepRefines, StepKinds DEF JobInv
<1> QED
  BY <1>1, <1>2, JobInvHolds, PTL DEF Spec, DeliverySafety, Delivery!Safety
=============================================================================
