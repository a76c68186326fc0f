---------------------------- MODULE CostSummary ----------------------------
(* The summary of all services (api/v1/admin.py, RedisCostTracker.get_summary, *)
(* LangfuseCostTracker.get_summary) while completions go on: keys are scanned  *)
(* and hashes read one after the other, observations fetched page by page.     *)
(* Of one summary, which only reads. BadScanEnds is a faulty variant of the    *)
(* definition after it, for the mutation runs only.                            *)
EXTENDS Gateway

CONSTANTS Plain   \* services whose name contains no colon

ASSUME PlainAssumption == Plain \subseteq Services

VARIABLES
    scan,     \* where the summary is
    found,    \* total_requests in it; 0 for a service that is not
    atStart   \* history: the totals settled when it began

summaryVars == <<scan, found, atStart>>

Listed == Services \cup {Unknown}
TotalOf(s) ==
    CASE backend = "langfuse" -> LangfuseTotal(s)
      [] backend = "noop" /\ s \in Services -> RedisTotal(s)
      [] OTHER -> 0

\* The totals no later summary may fall short of. The Langfuse client buffers a
\* generation until its trace ends, which flushes it; Redis has a charge at once.
Settled(s) ==
    IF backend = "langfuse"
    THEN Cardinality({g \in generations : g.service = s /\ g.by \notin spans})
    ELSE TotalOf(s)

SummaryInit ==
    /\ scan = "idle"
    /\ found = [s \in Listed |-> 0]
    /\ atStart = [s \in Listed |-> 0]

BeginSummary ==
    /\ scan = "idle" /\ scan' = "reading"
    /\ atStart' = [s \in Listed |-> Settled(s)]
    /\ UNCHANGED found

(* SCAN has returned the key of s, in a batch with others or alone, perhaps    *)
(* again; the key llmops:usage:<s> has three parts; its hash is read.          *)
ReadService(s) ==
    /\ scan = "reading" /\ backend = "noop"
    /\ s \in Plain /\ usage[s].requests > 0 /\ found[s] = 0
    /\ found' = [found EXCEPT ![s] = usage[s].requests]
    /\ UNCHANGED <<scan, atStart>>

\* The cursor is 0 again: every key that was there all the time has been returned;
\* nothing is promised of the others.
BadScanEnds ==
    /\ scan = "reading" /\ backend = "noop"
    /\ scan' = "over"
    /\ UNCHANGED <<found, atStart>>

ScanEnds ==
    /\ scan = "reading" /\ backend = "noop"
    /\ \A s \in Plain : atStart[s] > 0 => found[s] > 0
    /\ scan' = "over"
    /\ UNCHANGED <<found, atStart>>

\* The pages hold what was flushed before the first, and what comes in meanwhile or
\* not; _aggregate counts the observations by their service.
PagesEnd ==
    /\ scan = "reading" /\ backend = "langfuse"
    /\ \E n \in atStart[Unknown]..LangfuseTotal(Unknown) : found' = [found EXCEPT ![Unknown] = n]
    /\ scan' = "over"
    /\ UNCHANGED atStart

\* Redis: the exception is the admin's; Langfuse: an empty summary with an error
SummaryRaises ==
    /\ scan = "reading" /\ scan' = "failed"
    /\ UNCHANGED <<found, atStart>>

SummaryStep ==
    \/ BeginSummary \/ ScanEnds \/ PagesEnd \/ SummaryRaises
    \/ \E s \in Services : ReadService(s)

-----------------------------------------------------------------------------
AllInit == Init /\ SummaryInit

AllNext ==
    \/ Next /\ UNCHANGED summaryVars
    \/ SummaryStep /\ UNCHANGED vars

AllSpec == AllInit /\ [][AllNext]_<<vars, summaryVars>>

FairAllSpec == AllSpec /\ \A r \in Requests : WF_vars(Step(r))

-----------------------------------------------------------------------------
(* Properties.                                                               *)

\* A summary is not of one moment, but each of its numbers is of some moment while it
\* was made: no service whose charges had arrived is missing, and none has more than it
\* is charged by the end, whatever is charged and scanned in between.
SummaryWithin == scan = "over" =>
    \A s \in Plain \cup {Unknown} : found[s] \in atStart[s]..TotalOf(s)
=============================================================================
