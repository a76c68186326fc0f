---------------------------- MODULE RateLimiter ----------------------------
(* The sliding-window rate limiter (api/middleware/rate_limit.py) for one key. *)
(* A request takes the time, then runs one Redis transaction on the sorted set *)
(* of the key; requests of several API processes reach Redis in any order.     *)
(* When Redis fails the request is let through. An operator named Bad... is a  *)
(* faulty variant of the definition after it, for the mutation runs only.      *)
EXTENDS Integers, FiniteSets

CONSTANTS
    Requests,   \* requests with this key, one check each
    Rpm,        \* requests_per_minute; 0 switches the limiter off
    Window,     \* the minute, in ticks of the clock
    MaxDelay,   \* bound: ticks between taking the time and Redis's answer
    MaxTime     \* bound: the clock

ASSUME ConstantsAssumption ==
    /\ IsFiniteSet(Requests)
    /\ Rpm \in Nat
    /\ Window \in Nat \ {0} /\ MaxDelay \in Nat /\ MaxTime \in Nat

VARIABLES
    clock,      \* time.time(), the same for every process
    recorded,   \* members of the key's sorted set: str(now), so equal times collapse
    expires,    \* when Redis drops the key
    pc,         \* "idle", "sent", "answered"
    stamp,      \* the "now" of each request
    reply       \* "ok", "429", or "unchecked": let through without a count

vars == <<clock, recorded, expires, pc, stamp, reply>>

Init ==
    /\ clock = 0
    /\ recorded = {}
    /\ expires = 0
    /\ pc = [r \in Requests |-> "idle"]
    /\ stamp = [r \in Requests |-> 0]
    /\ reply = [r \in Requests |-> "none"]

-----------------------------------------------------------------------------
\* zremrangebyscore(key, 0, now - 60) leaves these
Kept(r) == {s \in recorded : s > stamp[r] - Window}

BadVerdict(r) == IF Cardinality(Kept(r)) > Rpm THEN "429" ELSE "ok"
BadVerdictAddsFirst(r) == IF Cardinality(Kept(r) \cup {stamp[r]}) >= Rpm THEN "429" ELSE "ok"
\* zcard, before the request's own zadd
Verdict(r) == IF Cardinality(Kept(r)) >= Rpm THEN "429" ELSE "ok"

\* The transaction drops old members, adds the request, and renews the expiry,
\* whatever the verdict will be.
BadRecord(r) ==
    /\ recorded' = Kept(r) \cup {stamp[r] + Window}
    /\ expires' = clock + 2 * Window

Record(r) ==
    /\ recorded' = Kept(r) \cup {stamp[r]}
    /\ expires' = clock + 2 * Window

Answer(r, a) ==
    /\ pc[r] = "sent"
    /\ pc' = [pc EXCEPT ![r] = "answered"]
    /\ reply' = [reply EXCEPT ![r] = a]

(* check, up to the call of Redis; a limiter that is off calls nothing.        *)
TakeTime(r) ==
    /\ pc[r] = "idle"
    /\ pc' = [pc EXCEPT ![r] = IF Rpm > 0 THEN "sent" ELSE "answered"]
    /\ reply' = [reply EXCEPT ![r] = IF Rpm > 0 THEN @ ELSE "unchecked"]
    /\ stamp' = [stamp EXCEPT ![r] = clock]
    /\ UNCHANGED <<clock, recorded, expires>>

(* The pipeline runs in Redis and its answer decides. *)
Execute(r) ==
    /\ Answer(r, Verdict(r))
    /\ Record(r)
    /\ UNCHANGED <<clock, stamp>>

(* The pipeline raises, before or after Redis ran it: rate_limit_dependency    *)
(* lets the request through.                                                   *)
RedisRaises(r) ==
    /\ Answer(r, "unchecked")
    /\ Record(r) \/ UNCHANGED <<recorded, expires>>
    /\ UNCHANGED <<clock, stamp>>

Tick ==
    /\ clock < MaxTime
    /\ \A r \in Requests : pc[r] = "sent" => clock < stamp[r] + MaxDelay
    /\ clock' = clock + 1
    /\ recorded' = IF clock + 1 >= expires THEN {} ELSE recorded
    /\ UNCHANGED <<expires, pc, stamp, reply>>

Next == Tick \/ \E r \in Requests : TakeTime(r) \/ Execute(r) \/ RedisRaises(r)

Spec == Init /\ [][Next]_vars

-----------------------------------------------------------------------------
(* Properties.                                                               *)

\* Types. A request that is on its way to Redis took its time at most MaxDelay ago.
TypeOK ==
    /\ clock \in 0..MaxTime
    /\ recorded \subseteq 0..clock
    /\ expires \in Nat
    /\ pc \in [Requests -> {"idle", "sent", "answered"}]
    /\ stamp \in [Requests -> 0..MaxTime]
    /\ reply \in [Requests -> {"none", "ok", "429", "unchecked"}]
    /\ \A r \in Requests :
          /\ stamp[r] <= clock
          /\ pc[r] = "sent" => clock <= stamp[r] + MaxDelay
          /\ reply[r] = "none" <=> pc[r] # "answered"

\* At most Rpm counted requests are admitted (equal times count once) in any stretch as long as the window less the delay: requests that reach
\* Redis out of order, refused ones, failures in between and the expiry of the
\* key admit no more. With no delay this is the sliding minute.
AdmittedIn(t, length) == {stamp[r] : r \in {q \in Requests :
    reply[q] = "ok" /\ t - length < stamp[q] /\ stamp[q] <= t}}
AdmissionBounded == \A t \in 0..MaxTime : Cardinality(AdmittedIn(t, Window - MaxDelay)) <= Rpm

\* A refusal is always the caller's own doing: Rpm other requests were made in the
\* window before the refused one (or overtook it). A caller that stays below the
\* limit, or waits out the window, is never refused.
Others(r) == {q \in Requests \ {r} :
    pc[q] = "answered" /\ stamp[r] - Window < stamp[q] /\ stamp[q] <= stamp[r] + MaxDelay}
RefusalBacked == \A r \in Requests : reply[r] = "429" => Cardinality(Others(r)) >= Rpm
=============================================================================
