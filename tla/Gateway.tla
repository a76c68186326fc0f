------------------------------ MODULE Gateway ------------------------------
(* Completions (api/v1/gateway.py, core/gateway/router.py): a request opens a  *)
(* trace, calls the vendor, and is entered in two books, the generations of    *)
(* the observability backend and the usage counters in Redis. chat logs and    *)
(* then charges before it answers; chat_stream answers chunk by chunk, charges *)
(* and then logs. Either step may fail, and the reader of a stream may leave.  *)
(* An operator named Bad... is a faulty variant of the definition after it,    *)
(* for the mutation runs only.                                                 *)
EXTENDS Integers, FiniteSets

CONSTANTS
    Requests,   \* completions, one call each
    Services,   \* values of X-Service-Name
    Unknown,    \* "unknown", a service no caller names
    MaxChunks   \* bound: chunks of a stream

ASSUME ConstantsAssumption ==
    /\ IsFiniteSet(Requests)
    /\ Unknown \notin Services
    /\ MaxChunks \in Nat

VARIABLES
    backend,      \* settings.observability_backend; never changes
    pc,           \* where each request is
    call,         \* its mode and service, and whether it has seen token counts
    spans,        \* requests whose trace is open in Langfuse
    generations,  \* generations logged in Langfuse
    usage,        \* llmops:usage:<service> in Redis: total_requests, and of
                  \* those the ones with tokens
    got,          \* what the client has: chunks, whether that is the whole
                  \* text, and how its call ended (an answer: the response of
                  \* chat, or [DONE])
    billed,       \* history: requests the vendor has worked for
    charged       \* history: requests entered in Redis

books == <<generations, usage, charged>>
vars == <<backend, pc, call, spans, got, billed, books>>

Backends == {"langfuse", "noop"}
Call == [mode : {"chat", "stream"}, service : Services, metered : BOOLEAN]
Generation == [by : Requests, service : {Unknown}, metered : BOOLEAN]
NoCall == [mode |-> "none"]

Init ==
    /\ backend \in Backends
    /\ pc = [r \in Requests |-> "idle"]
    /\ call = [r \in Requests |-> NoCall]
    /\ spans = {}
    /\ generations = {}
    /\ usage = [s \in Services |-> [requests |-> 0, metered |-> 0]]
    /\ got = [r \in Requests |-> [chunks |-> 0, whole |-> FALSE, end |-> "none"]]
    /\ billed = {} /\ charged = {}

-----------------------------------------------------------------------------
Goto(r, label) == pc' = [pc EXCEPT ![r] = label] /\ UNCHANGED <<spans, got>>

\* Leaving "async with trace": the span ends and is flushed.
Close(r, end) ==
    /\ pc' = [pc EXCEPT ![r] = "over"]
    /\ spans' = spans \ {r}
    /\ got' = [got EXCEPT ![r].whole = @ \/ end = "answer", ![r].end = end]

At(r, label, mode) == pc[r] = label /\ call[r].mode = mode

\* RedisCostTracker.record, one transaction; LangfuseCostTracker.record does nothing
Enter(r) ==
    IF backend = "noop"
    THEN /\ charged' = charged \cup {r}
         /\ usage' = [usage EXCEPT ![call[r].service] =
                [requests |-> @.requests + 1, metered |-> @.metered + IF call[r].metered THEN 1 ELSE 0]]
    ELSE UNCHANGED <<usage, charged>>

\* LangfuseBackend.log_generation: neither caller passes it the service, and
\* _aggregate makes "unknown" of that. The client buffers it; Close flushes it before
\* any caller is told how its call ended.
Log(r) == generations' =
    IF backend = "langfuse"
    THEN generations \cup {[by |-> r, service |-> Unknown, metered |-> call[r].metered]}
    ELSE generations

(* The prompt is resolved, the request converted, the provider looked up; any  *)
(* of these may raise, before the trace is opened.                             *)
Begin(r, mode, s) ==
    /\ pc[r] = "idle"
    /\ call' = [call EXCEPT ![r] = [mode |-> mode, service |-> s, metered |-> FALSE]]
    /\ \/ /\ pc' = [pc EXCEPT ![r] = "provider"]
          /\ spans' = IF backend = "langfuse" THEN spans \cup {r} ELSE spans
          /\ UNCHANGED got
       \/ Close(r, "error")
    /\ UNCHANGED <<backend, billed, books>>

(* The vendor. A call that raises (an error, a timeout) may have been billed;  *)
(* Gemini may answer without token counts.                                     *)
ProviderAnswers(r) ==
    /\ At(r, "provider", "chat")
    /\ Goto(r, "log")
    /\ \E m \in BOOLEAN : call' = [call EXCEPT ![r].metered = m]
    /\ billed' = billed \cup {r}
    /\ UNCHANGED <<backend, books>>

BadProviderRaises(r) ==
    /\ pc[r] = "provider"
    /\ pc' = [pc EXCEPT ![r] = "over"]
    /\ got' = [got EXCEPT ![r].end = "error"]
    /\ billed' \in {billed, billed \cup {r}}
    /\ UNCHANGED <<backend, call, spans, books>>

ProviderRaises(r) ==
    /\ pc[r] = "provider"
    /\ Close(r, "error")
    /\ billed' \in {billed, billed \cup {r}}
    /\ UNCHANGED <<backend, call, books>>

(* A chunk goes to the reader at once. The last one says why the message ends, *)
(* and may carry token counts: with it the reader has the whole text.          *)
StreamChunk(r) ==
    /\ At(r, "provider", "stream")
    /\ got[r].chunks < MaxChunks /\ ~got[r].whole
    /\ \E last, m \in BOOLEAN :
          /\ m => last
          /\ got' = [got EXCEPT ![r].chunks = @ + 1, ![r].whole = last]
          /\ call' = [call EXCEPT ![r].metered = m]
    /\ billed' = billed \cup {r}
    /\ UNCHANGED <<backend, pc, spans, books>>

\* No more chunks: a stream may also end without a last one (Gemini).
BadStreamEnds(r) ==
    /\ At(r, "provider", "stream")
    /\ pc' = [pc EXCEPT ![r] = IF call[r].metered THEN "record" ELSE "log"]
    /\ got' = [got EXCEPT ![r].whole = TRUE]
    /\ billed' = billed \cup {r}
    /\ UNCHANGED <<backend, call, spans, books>>

StreamEnds(r) ==
    /\ At(r, "provider", "stream")
    /\ pc' = [pc EXCEPT ![r] = "record"]
    /\ got' = [got EXCEPT ![r].whole = TRUE]
    /\ billed' = billed \cup {r}
    /\ UNCHANGED <<backend, call, spans, books>>

LogGeneration(r) ==
    /\ \/ At(r, "log", "chat") /\ Goto(r, "record")
       \/ At(r, "log", "stream") /\ Close(r, "answer")
    /\ Log(r)
    /\ UNCHANGED <<backend, call, usage, billed, charged>>

RecordCost(r) ==
    /\ \/ At(r, "record", "chat") /\ Close(r, "answer")
       \/ At(r, "record", "stream") /\ Goto(r, "log")
    /\ Enter(r)
    /\ UNCHANGED <<backend, call, generations, billed>>

(* Either book may raise, after it took the entry or before: the exception     *)
(* leaves the router. The caller of chat gets an error in place of the answer; *)
(* the reader of a stream, who has all of it by then, only misses [DONE].      *)
LogRaises(r) ==
    /\ pc[r] = "log" /\ backend = "langfuse"
    /\ Close(r, "error")
    /\ Log(r) \/ UNCHANGED generations
    /\ UNCHANGED <<backend, call, usage, billed, charged>>

BadRecordRetries(r) ==
    /\ pc[r] = "record" /\ backend = "noop"
    /\ Enter(r) \/ UNCHANGED <<usage, charged>>
    /\ UNCHANGED <<backend, pc, call, spans, got, generations, billed>>

RecordRaises(r) ==
    /\ pc[r] = "record" /\ backend = "noop"
    /\ Close(r, "error")
    /\ Enter(r) \/ UNCHANGED <<usage, charged>>
    /\ UNCHANGED <<backend, call, generations, billed>>

(* The reader of a stream goes away, with a part of the text or the whole of   *)
(* it (many stop at the last chunk), and its task is cancelled: at an await    *)
(* inside the router, which unwinds it (Redis may have run the transaction it  *)
(* waited for), or while a chunk is sent, which leaves the generator suspended *)
(* until it is collected.                                                      *)
ClientLeaves(r) ==
    /\ \/ /\ At(r, "provider", "stream")
          /\ UNCHANGED <<usage, charged>>
          /\ \/ Close(r, "left")
             \/ /\ got[r].chunks > 0
                /\ pc' = [pc EXCEPT ![r] = "abandoned"]
                /\ got' = [got EXCEPT ![r].end = "left"]
                /\ UNCHANGED spans
       \/ /\ At(r, "record", "stream") /\ backend = "noop"
          /\ Close(r, "left")
          /\ Enter(r) \/ UNCHANGED <<usage, charged>>
    /\ UNCHANGED <<backend, call, generations, billed>>

Collect(r) ==
    /\ pc[r] = "abandoned"
    /\ Close(r, "left")
    /\ UNCHANGED <<backend, call, billed, books>>

-----------------------------------------------------------------------------
Step(r) ==
    \/ ProviderAnswers(r) \/ ProviderRaises(r) \/ StreamChunk(r) \/ StreamEnds(r)
    \/ LogGeneration(r) \/ LogRaises(r) \/ RecordCost(r) \/ RecordRaises(r) \/ Collect(r)

Next == \E r \in Requests :
    \/ Step(r) \/ ClientLeaves(r)
    \/ \E mode \in {"chat", "stream"}, s \in Services : Begin(r, mode, s)

Spec == Init /\ [][Next]_vars

(* A vendor call returns, raises or times out, Redis and Langfuse too; a reader *)
(* reads or leaves; and Python closes a generator nobody holds.                *)
FairSpec == Spec /\ \A r \in Requests : WF_vars(Step(r))

-----------------------------------------------------------------------------
(* Properties.                                                               *)

\* Types, and what each label says about the request.
TypeOK ==
    /\ backend \in Backends
    /\ pc \in [Requests -> {"idle", "provider", "log", "record", "abandoned", "over"}]
    /\ DOMAIN call = Requests
    /\ \A r \in Requests : IF pc[r] = "idle" THEN call[r] = NoCall ELSE call[r] \in Call
    /\ spans \subseteq Requests
    /\ generations \subseteq Generation
    /\ usage \in [Services -> [requests : Nat, metered : Nat]]
    /\ got \in [Requests -> [chunks : 0..MaxChunks, whole : BOOLEAN, end : {"none", "answer", "error", "left"}]]
    /\ billed \subseteq Requests /\ charged \subseteq Requests
    /\ \A r \in Requests :
          /\ got[r].end = "none" <=> pc[r] \in {"idle", "provider", "log", "record"}
          /\ pc[r] \in {"idle", "over"} => r \notin spans
          /\ got[r].end = "answer" => got[r].whole

ServedTo(s) == {r \in Requests : got[r].end = "answer" /\ call[r].service = s}
BilledTo(s) == {r \in billed : call[r].service = s}
Logged == {g.by : g \in generations}

Delivered(s) == {r \in Requests : got[r].whole /\ call[r].service = s}
Recorded(r) == IF backend = "langfuse" THEN r \in Logged ELSE r \in charged

(* Whoever is told that the answer is complete, by the response of chat or by  *)
(* [DONE], is in the book of the backend in use, and the counters of Redis     *)
(* cover all that is recorded of what was delivered. The rest is streams only: *)
(* chat_stream hands out the last chunk before it records (router.py:98-109),  *)
(* so that a stream which breaks off there, at a book that raises or a reader  *)
(* who leaves, may have delivered its whole text and be in no book.            *)
EveryAnswerRecorded == \A s \in Services :
    /\ \A r \in Delivered(s) :
          ~Recorded(r) => call[r].mode = "stream" /\ got[r].end # "answer"
    /\ backend = "noop" =>
          Cardinality({r \in Delivered(s) : Recorded(r)}) <= usage[s].requests

\* The books hold only what the vendor worked for, once: no service is charged for
\* more requests than were billed, none is charged twice.
OnlyWorkRecorded ==
    /\ \A s \in Services : usage[s].metered <= usage[s].requests
                           /\ usage[s].requests <= Cardinality(BilledTo(s))
    /\ Logged \subseteq billed
    /\ \A g, h \in generations : g.by = h.by => g = h

\* Every trace is closed, also that of a stream whose reader left.
TracesEnd == \A r \in Requests : r \in spans ~> r \notin spans

\* get_summary(s), the requests in it, of either tracker
RedisTotal(s) == usage[s].requests
LangfuseTotal(s) == Cardinality({g \in generations : g.service = s})
Summary(s) == IF backend = "langfuse" THEN LangfuseTotal(s) ELSE RedisTotal(s)

\* README.md:31, "Per-service, per-model cost tracking in real-time": what a service
\* was served is in its summary.
CostPerService == \A s \in Services : Cardinality(ServedTo(s)) <= Summary(s)
=============================================================================
