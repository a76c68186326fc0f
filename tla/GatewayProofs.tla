--------------------------- MODULE GatewayProofs ---------------------------
(* Proofs about Gateway: what its two books hold, for any number of requests,  *)
(* services and chunks.                                                        *)
EXTENDS CostSummary, FiniteSetTheorems, TLAPS

ChargedTo(s) == {r \in charged : call[r].service = s}

\* How far a request has come says which of the books may hold it: what the
\* labels have to remember for a failure at any of them to be harmless.
Progress(r) ==
    /\ r \in charged \/ r \in Logged => r \in billed
    /\ r \in billed => pc[r] # "idle"
    /\ pc[r] \in {"log", "record"} => r \in billed
    /\ pc[r] \in {"idle", "provider"} => r \notin charged /\ r \notin Logged
    /\ pc[r] = "record" => r \notin charged
    /\ pc[r] = "log" => r \notin Logged
    /\ At(r, "log", "chat") => r \notin charged
    /\ At(r, "record", "stream") => r \notin Logged
    /\ At(r, "record", "chat") /\ backend = "langfuse" => r \in Logged
    /\ At(r, "log", "stream") /\ backend = "noop" => r \in charged
    /\ pc[r] = "idle" => ~got[r].whole
    /\ pc[r] = "abandoned" => got[r].end = "left"
    /\ call[r].mode = "chat" /\ got[r].whole => got[r].end = "answer"
    /\ got[r].end = "answer" /\ backend = "noop" => r \in charged
    /\ got[r].end = "answer" /\ backend = "langfuse" => r \in Logged

LoggedOnce == \A g, h \in generations : g.by = h.by => g = h

\* The counters of a service are those of the requests charged to it.
Counted == \A s \in Services :
    /\ usage[s].requests = Cardinality(ChargedTo(s))
    /\ usage[s].metered <= usage[s].requests

IInv ==
    /\ TypeOK
    /\ \A r \in Requests : Progress(r)
    /\ LoggedOnce
    /\ Counted

-----------------------------------------------------------------------------
(* The helpers of the actions. *)
Frame(r) ==
    /\ \A q \in Requests : q # r => pc'[q] = pc[q] /\ got'[q] = got[q] /\ (q \in spans' <=> q \in spans)
    /\ pc' \in [Requests -> {"idle", "provider", "log", "record", "abandoned", "over"}]
    /\ got' \in [Requests -> [chunks : 0..MaxChunks, whole : BOOLEAN, end : {"none", "answer", "error", "left"}]]
    /\ spans' \subseteq Requests

LEMMA GotoFrame ==
    ASSUME TypeOK, NEW r \in Requests, NEW label \in {"log", "record"}, Goto(r, label),
           pc[r] \in {"provider", "log", "record"}
    PROVE  Frame(r) /\ pc'[r] = label /\ got' = got /\ got'[r].end = "none"
BY DEF TypeOK, Goto, Frame

LEMMA CloseFrame ==
    ASSUME TypeOK, NEW r \in Requests, NEW end \in {"answer", "error", "left"}, Close(r, end)
    PROVE  /\ Frame(r) /\ pc'[r] = "over" /\ got'[r].end = end /\ r \notin spans'
           /\ got'[r].whole = (got[r].whole \/ end = "answer")
<1>1. PICK w \in BOOLEAN : w = (got[r].whole \/ end = "answer")
    OBVIOUS
<1> DEFINE now == [got[r] EXCEPT !.whole = w, !.end = end]
<1>2. /\ now \in [chunks : 0..MaxChunks, whole : BOOLEAN, end : {"none", "answer", "error", "left"}]
      /\ now.end = end /\ now.whole = w
    BY DEF TypeOK
<1>3. got' = [got EXCEPT ![r] = now]
    BY <1>1, Zenon DEF Close
<1> HIDE DEF now
<1>4. pc' = [pc EXCEPT ![r] = "over"] /\ spans' = spans \ {r}
    BY DEF Close
<1>5. Frame(r) /\ got'[r] = now /\ pc'[r] = "over" /\ r \notin spans'
    BY <1>2, <1>3, <1>4 DEF TypeOK, Frame
<1>6. got'[r].end = end /\ got'[r].whole = w
    BY <1>2, <1>5, Zenon
<1> QED BY <1>1, <1>5, <1>6, Zenon

LEMMA ChunkFrame ==
    ASSUME TypeOK, NEW r \in Requests, StreamChunk(r)
    PROVE  Frame(r) /\ pc'[r] = "provider" /\ got'[r].end = "none"
<1>1. PICK last \in BOOLEAN : got' = [got EXCEPT ![r].chunks = @ + 1, ![r].whole = last]
    BY DEF StreamChunk
<1>2. got[r].chunks + 1 \in 0..MaxChunks /\ got[r].end = "none"
    BY ConstantsAssumption DEF StreamChunk, TypeOK, At
<1> DEFINE now == [got[r] EXCEPT !.chunks = @ + 1, !.whole = last]
<1>3. now \in [chunks : 0..MaxChunks, whole : BOOLEAN, end : {"none", "answer", "error", "left"}]
      /\ now.end = "none"
    BY <1>2 DEF TypeOK
<1>4. got' = [got EXCEPT ![r] = now]
    BY <1>1
<1> HIDE DEF now
<1> QED BY <1>3, <1>4 DEF TypeOK, StreamChunk, Frame, At

LEMMA EndsFrame ==
    ASSUME TypeOK, NEW r \in Requests, StreamEnds(r)
    PROVE  Frame(r) /\ pc'[r] = "record" /\ got'[r].end = "none"
BY DEF TypeOK, StreamEnds, Frame, At

LEMMA MeteredCall ==
    ASSUME TypeOK, NEW r \in Requests, call[r] \in Call, NEW m \in BOOLEAN,
           call' = [call EXCEPT ![r].metered = m]
    PROVE  /\ call'[r] \in Call /\ DOMAIN call' = Requests
           /\ \A q \in Requests : q # r => call'[q] = call[q]
<1>1. [call[r] EXCEPT !.metered = m] \in Call
    BY DEF Call
<1> QED BY <1>1 DEF TypeOK

\* Types follow from the frame and what the action does to the rest.
LEMMA TypeFromFrame ==
    ASSUME TypeOK, NEW r \in Requests, Frame(r),
           backend' = backend,
           DOMAIN call' = Requests, \A q \in Requests : q # r => call'[q] = call[q],
           pc'[r] # "idle", call'[r] \in Call,
           generations' \subseteq Generation,
           usage' \in [Services -> [requests : Nat, metered : Nat]],
           billed' \subseteq Requests, charged' \subseteq Requests,
           got'[r].end = "none" <=> pc'[r] \in {"provider", "log", "record"},
           got'[r].end = "answer" => got'[r].whole,
           pc'[r] = "over" => r \notin spans'
    PROVE  TypeOK'
<1>1. \A q \in Requests : IF pc'[q] = "idle" THEN call'[q] = NoCall ELSE call'[q] \in Call
    BY DEF TypeOK, Frame
<1>2. \A q \in Requests : got'[q].end = "none" <=> pc'[q] \in {"idle", "provider", "log", "record"}
    BY DEF TypeOK, Frame
<1>3. \A q \in Requests : pc'[q] \in {"idle", "over"} => q \notin spans'
    BY DEF TypeOK, Frame
<1>4. backend' \in Backends /\ pc' \in [Requests -> {"idle", "provider", "log", "record", "abandoned", "over"}]
      /\ got' \in [Requests -> [chunks : 0..MaxChunks, whole : BOOLEAN, end : {"none", "answer", "error", "left"}]]
      /\ spans' \subseteq Requests
    BY DEF TypeOK, Frame
<1>5. \A q \in Requests : got'[q].end = "answer" => got'[q].whole
    BY DEF TypeOK, Frame
<1> QED BY <1>1, <1>2, <1>3, <1>4, <1>5, Zenon DEF TypeOK

LEMMA EnterType ==
    ASSUME TypeOK, NEW r \in Requests, call[r] \in Call, Enter(r) \/ UNCHANGED <<usage, charged>>
    PROVE  usage' \in [Services -> [requests : Nat, metered : Nat]] /\ charged' \subseteq Requests
<1>1. CASE UNCHANGED <<usage, charged>>
    BY <1>1 DEF TypeOK
<1>2. CASE Enter(r) /\ backend = "noop"
    <2>1. call[r].service \in Services /\ call[r].metered \in BOOLEAN
        BY DEF Call
    <2> DEFINE s == call[r].service
               n == IF call[r].metered THEN 1 ELSE 0
               new == [requests |-> usage[s].requests + 1, metered |-> usage[s].metered + n]
    <2>2. n \in Nat
        OBVIOUS
    <2>3. new \in [requests : Nat, metered : Nat]
        <3> HIDE DEF n
        <3> QED BY <2>1, <2>2 DEF TypeOK
    <2>4. usage' = [usage EXCEPT ![s] = new] /\ charged' = charged \cup {r}
        BY <1>2 DEF Enter
    <2> HIDE DEF new, s
    <2> QED BY <2>3, <2>4 DEF TypeOK
<1>3. CASE Enter(r) /\ backend # "noop"
    BY <1>3 DEF TypeOK, Enter
<1> QED BY <1>1, <1>2, <1>3

LEMMA LogType ==
    ASSUME TypeOK, NEW r \in Requests, call[r] \in Call, Log(r) \/ UNCHANGED generations
    PROVE  generations' \subseteq Generation
BY DEF TypeOK, Log, Generation, Call

-----------------------------------------------------------------------------
(* Type correctness. *)
LEMMA TypeInit == Init => TypeOK
BY ConstantsAssumption DEF Init, TypeOK, NoCall

LEMMA CalledOnce == ASSUME TypeOK, NEW r \in Requests, pc[r] # "idle" PROVE call[r] \in Call
BY DEF TypeOK

LEMMA TypeStep == TypeOK /\ [Next]_vars => TypeOK'
<1> SUFFICES ASSUME TypeOK, [Next]_vars PROVE TypeOK'
    OBVIOUS
<1> USE ConstantsAssumption
<1>1. ASSUME NEW r \in Requests, NEW mode \in {"chat", "stream"}, NEW s \in Services, Begin(r, mode, s)
      PROVE  TypeOK'
    <2>1. [mode |-> mode, service |-> s, metered |-> FALSE] \in Call
        BY DEF Call
    <2>2. call'[r] \in Call /\ DOMAIN call' = Requests
          /\ \A q \in Requests : q # r => call'[q] = call[q]
        BY <1>1, <2>1 DEF Begin, TypeOK
    <2>3. CASE Close(r, "error")
        BY <1>1, <2>2, <2>3, CloseFrame, TypeFromFrame DEF Begin, TypeOK, books
    <2>4. CASE pc' = [pc EXCEPT ![r] = "provider"] /\ spans' \subseteq spans \cup {r} /\ spans \subseteq spans' /\ UNCHANGED got
        <3>1. Frame(r) /\ pc'[r] = "provider" /\ got'[r].end = "none"
            BY <1>1, <2>4 DEF Frame, TypeOK, Begin
        <3> QED BY <1>1, <2>2, <3>1, TypeFromFrame DEF Begin, TypeOK, books
    <2> QED BY <1>1, <2>3, <2>4 DEF Begin
<1>2. ASSUME NEW r \in Requests, ProviderAnswers(r) PROVE TypeOK'
    <2>1. call[r] \in Call
        BY <1>2, CalledOnce DEF ProviderAnswers, At
    <2>2. PICK m \in BOOLEAN : call' = [call EXCEPT ![r].metered = m]
        BY <1>2 DEF ProviderAnswers
    <2>3. call'[r] \in Call /\ DOMAIN call' = Requests
          /\ \A q \in Requests : q # r => call'[q] = call[q]
        BY <2>1, <2>2, MeteredCall
    <2>4. Frame(r) /\ pc'[r] = "log" /\ got'[r].end = "none"
        BY <1>2, GotoFrame DEF ProviderAnswers, At
    <2> QED BY <1>2, <2>3, <2>4, TypeFromFrame DEF ProviderAnswers, TypeOK, books
<1>3. ASSUME NEW r \in Requests, ProviderRaises(r) PROVE TypeOK'
    <2>1. call[r] \in Call
        BY <1>3, CalledOnce DEF ProviderRaises
    <2> QED BY <1>3, <2>1, CloseFrame, TypeFromFrame DEF ProviderRaises, TypeOK, books
<1>4. ASSUME NEW r \in Requests, StreamChunk(r) PROVE TypeOK'
    <2>1. call[r] \in Call
        BY <1>4, CalledOnce DEF StreamChunk, At
    <2>2. PICK m \in BOOLEAN : call' = [call EXCEPT ![r].metered = m]
        BY <1>4 DEF StreamChunk
    <2>3. call'[r] \in Call /\ DOMAIN call' = Requests
          /\ \A q \in Requests : q # r => call'[q] = call[q]
        BY <2>1, <2>2, MeteredCall
    <2>4. Frame(r) /\ pc'[r] = "provider" /\ got'[r].end = "none"
        BY <1>4, ChunkFrame
    <2> QED BY <1>4, <2>3, <2>4, TypeFromFrame DEF StreamChunk, TypeOK, books
<1>5. ASSUME NEW r \in Requests, StreamEnds(r) PROVE TypeOK'
    <2>1. call[r] \in Call
        BY <1>5, CalledOnce DEF StreamEnds, At
    <2>2. Frame(r) /\ pc'[r] = "record" /\ got'[r].end = "none"
        BY <1>5, EndsFrame
    <2> QED BY <1>5, <2>1, <2>2, TypeFromFrame DEF StreamEnds, TypeOK, books
<1>6. ASSUME NEW r \in Requests, LogGeneration(r) \/ LogRaises(r) PROVE TypeOK'
    <2>1. call[r] \in Call /\ pc[r] = "log"
        BY <1>6, CalledOnce DEF LogGeneration, LogRaises, At
    <2>2. generations' \subseteq Generation
        BY <1>6, <2>1, LogType DEF LogGeneration, LogRaises
    <2>3. Frame(r) /\ \/ pc'[r] = "record" /\ got'[r].end = "none"
                      \/ pc'[r] = "over" /\ got'[r].end # "none" /\ r \notin spans'
                         /\ (got'[r].end = "answer" => got'[r].whole)
        <3>1. CASE Goto(r, "record")
            BY <2>1, <3>1, GotoFrame
        <3>2. CASE \E end \in {"answer", "error"} : Close(r, end)
            BY <3>2, CloseFrame
        <3> QED BY <1>6, <3>1, <3>2 DEF LogGeneration, LogRaises
    <2> QED BY <1>6, <2>1, <2>2, <2>3, TypeFromFrame DEF LogGeneration, LogRaises, TypeOK
<1>7. ASSUME NEW r \in Requests, RecordCost(r) \/ RecordRaises(r) PROVE TypeOK'
    <2>1. call[r] \in Call /\ pc[r] = "record"
        BY <1>7, CalledOnce DEF RecordCost, RecordRaises, At
    <2>2. usage' \in [Services -> [requests : Nat, metered : Nat]] /\ charged' \subseteq Requests
        BY <1>7, <2>1, EnterType DEF RecordCost, RecordRaises
    <2>3. Frame(r) /\ \/ pc'[r] = "log" /\ got'[r].end = "none"
                      \/ pc'[r] = "over" /\ got'[r].end # "none" /\ r \notin spans'
                         /\ (got'[r].end = "answer" => got'[r].whole)
        <3>1. CASE Goto(r, "log")
            BY <2>1, <3>1, GotoFrame
        <3>2. CASE \E end \in {"answer", "error"} : Close(r, end)
            BY <3>2, CloseFrame
        <3> QED BY <1>7, <3>1, <3>2 DEF RecordCost, RecordRaises
    <2> QED BY <1>7, <2>1, <2>2, <2>3, TypeFromFrame DEF RecordCost, RecordRaises, TypeOK
<1>8. ASSUME NEW r \in Requests, ClientLeaves(r) PROVE TypeOK'
    <2>1. call[r] \in Call
        BY <1>8, CalledOnce DEF ClientLeaves, At
    <2>2. usage' \in [Services -> [requests : Nat, metered : Nat]] /\ charged' \subseteq Requests
        BY <1>8, <2>1, EnterType DEF ClientLeaves
    <2>3. Frame(r) /\ pc'[r] \in {"over", "abandoned"} /\ got'[r].end = "left"
          /\ (pc'[r] = "over" => r \notin spans')
        <3>1. CASE Close(r, "left")
            BY <3>1, CloseFrame
        <3>2. CASE pc' = [pc EXCEPT ![r] = "abandoned"] /\ got' = [got EXCEPT ![r].end = "left"] /\ UNCHANGED spans
            BY <3>2 DEF TypeOK, Frame
        <3> QED BY <1>8, <3>1, <3>2 DEF ClientLeaves
    <2> QED BY <1>8, <2>1, <2>2, <2>3, TypeFromFrame DEF ClientLeaves, TypeOK
<1>9. ASSUME NEW r \in Requests, Collect(r) PROVE TypeOK'
    <2>1. call[r] \in Call
        BY <1>9, CalledOnce DEF Collect
    <2> QED BY <1>9, <2>1, CloseFrame, TypeFromFrame DEF Collect, TypeOK, books
<1>10. CASE UNCHANGED vars
    BY <1>10 DEF TypeOK, vars, books
<1> QED BY <1>1, <1>2, <1>3, <1>4, <1>5, <1>6, <1>7, <1>8, <1>9, <1>10 DEF Next, Step

\* Types hold in every reachable state.
THEOREM TypeCorrect == Spec => []TypeOK
BY TypeInit, TypeStep, PTL DEF Spec

-----------------------------------------------------------------------------
(* What the steps do to the books. *)

\* A log entry adds the request to the generations, if there are any.
LEMMA LogEffect ==
    ASSUME NEW r \in Requests, Log(r)
    PROVE  Logged' = IF backend = "langfuse" THEN Logged \cup {r} ELSE Logged
<1> DEFINE g == [by |-> r, service |-> Unknown, metered |-> call[r].metered]
<1>1. g.by = r
    OBVIOUS
<1>2. CASE backend = "langfuse"
    <2>1. generations' = generations \cup {g}
        BY <1>2 DEF Log
    <2> HIDE DEF g
    <2> QED BY <1>1, <1>2, <2>1 DEF Logged
<1>3. CASE backend # "langfuse"
    BY <1>3 DEF Log, Logged
<1> QED BY <1>2, <1>3

LEMMA LoggedSame == ASSUME UNCHANGED generations PROVE Logged' = Logged
BY DEF Logged

\* A step of r leaves the progress of the other requests alone.
LEMMA OthersProgress ==
    ASSUME NEW r \in Requests, Frame(r), backend' = backend,
           NEW q \in Requests, q # r, call'[q] = call[q],
           q \in charged' <=> q \in charged, q \in Logged' <=> q \in Logged,
           q \in billed' <=> q \in billed, Progress(q)
    PROVE  Progress(q)'
<1>1. pc'[q] = pc[q] /\ got'[q] = got[q]
    BY DEF Frame
<1> QED BY <1>1 DEF Progress, At

\* Logging a request that is not yet logged keeps the entries apart.
LEMMA LogOnce ==
    ASSUME LoggedOnce, NEW r \in Requests, r \notin Logged, Log(r) \/ UNCHANGED generations
    PROVE  LoggedOnce'
BY DEF LoggedOnce, Logged, Log

-----------------------------------------------------------------------------
(* The counters. *)

\* The counters stay right when nothing is charged and no charged request changes.
LEMMA CountedSame ==
    ASSUME Counted, UNCHANGED <<usage, charged>>,
           \A q \in charged : call'[q].service = call[q].service
    PROVE  Counted'
<1>1. ASSUME NEW s \in Services PROVE ChargedTo(s)' = ChargedTo(s)
    BY DEF ChargedTo
<1> QED BY <1>1 DEF Counted

LEMMA EnterCounts ==
    ASSUME TypeOK, Counted, NEW r \in Requests, call[r] \in Call, r \notin charged,
           UNCHANGED call, Enter(r), backend = "noop"
    PROVE  Counted'
<1> USE ConstantsAssumption
<1> DEFINE n == IF call[r].metered THEN 1 ELSE 0
<1>1. PICK s \in Services : s = call[r].service
    BY DEF Call
<1>2. n \in {0, 1}
    OBVIOUS
<1>3. charged' = charged \cup {r} /\ charged \subseteq Requests
    BY DEF Enter, TypeOK
<1>4. usage' = [usage EXCEPT ![s] = [requests |-> @.requests + 1, metered |-> @.metered + n]]
    BY <1>1 DEF Enter
<1>5. ASSUME NEW t \in Services, t # s
      PROVE  usage'[t] = usage[t] /\ ChargedTo(t)' = ChargedTo(t)
    BY <1>1, <1>3, <1>4, <1>5 DEF TypeOK, ChargedTo
<1>6. ChargedTo(s)' = ChargedTo(s) \cup {r}
    BY <1>1, <1>3 DEF ChargedTo
<1>7. IsFiniteSet(ChargedTo(s)) /\ r \notin ChargedTo(s)
    <2>1. ChargedTo(s) \subseteq Requests
        BY <1>3 DEF ChargedTo
    <2> QED BY <2>1, FS_Subset DEF ChargedTo
<1>8. Cardinality(ChargedTo(s)') = Cardinality(ChargedTo(s)) + 1
    BY <1>6, <1>7, FS_AddElement, Zenon
<1>9. usage'[s].requests = usage[s].requests + 1 /\ usage'[s].metered = usage[s].metered + n
    BY <1>1, <1>4 DEF TypeOK
<1>10. usage[s].requests \in Nat /\ usage[s].metered \in Nat
    BY <1>1 DEF TypeOK
<1>11. usage[s].requests = Cardinality(ChargedTo(s)) /\ usage[s].metered <= usage[s].requests
    BY <1>1 DEF Counted
<1> HIDE DEF n
<1>12. usage'[s].requests = Cardinality(ChargedTo(s)') /\ usage'[s].metered <= usage'[s].requests
    BY <1>2, <1>8, <1>9, <1>10, <1>11
<1>13. ASSUME NEW t \in Services
       PROVE  usage'[t].requests = Cardinality(ChargedTo(t)') /\ usage'[t].metered <= usage'[t].requests
    <2>1. CASE t = s
        BY <1>12, <2>1
    <2>2. CASE t # s
        BY <1>5, <2>2 DEF Counted
    <2> QED BY <2>1, <2>2
<1> QED BY <1>13 DEF Counted

-----------------------------------------------------------------------------
(* The invariant. *)
LEMMA InvInit == Init => IInv
<1> SUFFICES ASSUME Init PROVE IInv
    OBVIOUS
<1>1. TypeOK
    BY TypeInit
<1>2. \A r \in Requests : Progress(r)
    BY DEF Init, Progress, Logged, At
<1>3. LoggedOnce
    BY DEF Init, LoggedOnce
<1>4. Counted
    <2>1. ASSUME NEW s \in Services PROVE ChargedTo(s) = {}
        BY DEF Init, ChargedTo
    <2>2. Cardinality({}) = 0
        BY FS_EmptySet
    <2>3. \A s \in Services : usage[s].requests = 0 /\ usage[s].metered = 0
        BY DEF Init
    <2> QED BY <2>1, <2>2, <2>3 DEF Counted
<1> QED BY <1>1, <1>2, <1>3, <1>4 DEF IInv

\* A step of r keeps the invariant if it keeps the progress of r, the entries apart
\* and the counters right.
LEMMA InvFromStep ==
    ASSUME IInv, TypeOK', NEW r \in Requests, Frame(r), backend' = backend,
           \A q \in Requests : q # r =>
               /\ call'[q] = call[q]
               /\ q \in charged' <=> q \in charged
               /\ q \in Logged' <=> q \in Logged
               /\ q \in billed' <=> q \in billed,
           Progress(r)', LoggedOnce', Counted'
    PROVE  IInv'
<1>1. ASSUME NEW q \in Requests, q # r PROVE Progress(q)'
    BY <1>1, OthersProgress DEF IInv
<1> QED BY <1>1 DEF IInv

LEMMA InvStep == IInv /\ [Next]_vars => IInv'
<1> SUFFICES ASSUME IInv, [Next]_vars PROVE IInv'
    OBVIOUS
<1>1. TypeOK /\ TypeOK'
    BY TypeStep DEF IInv
<1>2. LoggedOnce /\ Counted /\ \A r \in Requests : Progress(r)
    BY DEF IInv
<1> USE <1>1
\* Steps that leave the books alone.
<1>3. ASSUME NEW r \in Requests, NEW mode \in {"chat", "stream"}, NEW s \in Services, Begin(r, mode, s)
      PROVE  IInv'
    <2>1. UNCHANGED <<backend, billed, generations, usage, charged>> /\ Logged' = Logged
        BY <1>3, LoggedSame DEF Begin, books
    <2>2. pc[r] = "idle" /\ r \notin billed /\ r \notin charged /\ r \notin Logged
          /\ ~got[r].whole /\ got[r].end = "none"
        BY <1>2, <1>3 DEF Begin, Progress, TypeOK
    <2>3. \A q \in Requests : q # r => call'[q] = call[q]
        BY <1>3 DEF Begin, TypeOK
    <2>4. Frame(r) /\ pc'[r] \in {"provider", "over"} /\ got'[r].end # "answer" /\ ~got'[r].whole
        <3>1. CASE Close(r, "error")
            BY <2>2, <3>1, CloseFrame
        <3>2. CASE pc' = [pc EXCEPT ![r] = "provider"] /\ spans' \subseteq spans \cup {r} /\ spans \subseteq spans' /\ UNCHANGED got
            BY <1>3, <2>2, <3>2 DEF Frame, TypeOK, Begin
        <3> QED BY <1>3, <3>1, <3>2 DEF Begin
    <2>5. Progress(r)'
        BY <2>1, <2>2, <2>4 DEF Progress, At
    <2>6. Counted'
        <3>1. \A q \in charged : call'[q].service = call[q].service
            BY <2>2, <2>3 DEF TypeOK
        <3> QED BY <1>2, <2>1, <3>1, CountedSame
    <2>7. LoggedOnce'
        BY <1>2, <2>1 DEF LoggedOnce
    <2> QED BY <2>1, <2>3, <2>4, <2>5, <2>6, <2>7, InvFromStep
<1>4. ASSUME NEW r \in Requests,
             ProviderAnswers(r) \/ ProviderRaises(r) \/ StreamChunk(r) \/ StreamEnds(r)
      PROVE  IInv'
    <2>1. UNCHANGED <<backend, generations, usage, charged>> /\ Logged' = Logged
        BY <1>4, LoggedSame DEF ProviderAnswers, ProviderRaises, StreamChunk, StreamEnds, books
    <2>2. pc[r] = "provider" /\ r \notin charged /\ r \notin Logged /\ call[r] \in Call
        BY <1>2, <1>4, CalledOnce DEF ProviderAnswers, ProviderRaises, StreamChunk, StreamEnds, At, Progress
    <2>3. \A q \in Requests : q # r => call'[q] = call[q]
        BY <1>4 DEF ProviderAnswers, ProviderRaises, StreamChunk, StreamEnds, TypeOK
    <2>4. call'[r].mode = call[r].mode /\ call'[r].service = call[r].service
        <3>1. CASE UNCHANGED call
            BY <3>1
        <3>2. ASSUME NEW m, call' = [call EXCEPT ![r].metered = m]
              PROVE  call'[r].mode = call[r].mode /\ call'[r].service = call[r].service
            BY <2>2, <3>2 DEF TypeOK, Call
        <3>3. UNCHANGED call \/ \E m : call' = [call EXCEPT ![r].metered = m]
            BY <1>4 DEF ProviderAnswers, ProviderRaises, StreamChunk, StreamEnds
        <3> QED BY <3>1, <3>2, <3>3
    <2>5. call[r].mode = "chat" => ~got[r].whole
        BY <1>2, <2>2 DEF TypeOK, Progress
    <2>6. /\ Frame(r) /\ got'[r].end # "answer"
          /\ call[r].mode = "chat" => ~got'[r].whole
          /\ billed' \in {billed, billed \cup {r}}
          /\ \/ pc'[r] \in {"over", "provider"}
             \/ pc'[r] = "log" /\ call[r].mode = "chat" /\ r \in billed'
             \/ pc'[r] = "record" /\ call[r].mode = "stream" /\ r \in billed'
        <3>1. CASE ProviderAnswers(r)
            BY <2>5, <3>1, GotoFrame DEF ProviderAnswers, At
        <3>2. CASE ProviderRaises(r)
            BY <2>5, <3>2, CloseFrame DEF ProviderRaises
        <3>3. CASE StreamChunk(r)
            BY <3>3, ChunkFrame DEF StreamChunk, At
        <3>4. CASE StreamEnds(r)
            BY <3>4, EndsFrame DEF StreamEnds, At
        <3> QED BY <1>4, <3>1, <3>2, <3>3, <3>4
    <2>7. Progress(r)'
        <3>1. pc'[r] # "idle"
            BY <2>6
        <3> QED BY <2>1, <2>2, <2>4, <2>6, <3>1 DEF Progress, At
    <2>8. Counted'
        <3>1. \A q \in charged : call'[q].service = call[q].service
            BY <2>3, <2>4 DEF TypeOK
        <3> QED BY <1>2, <2>1, <3>1, CountedSame
    <2>9. LoggedOnce'
        BY <1>2, <2>1 DEF LoggedOnce
    <2> QED BY <2>1, <2>3, <2>6, <2>7, <2>8, <2>9, InvFromStep
\* Steps on the generations.
<1>5. ASSUME NEW r \in Requests, LogGeneration(r) \/ LogRaises(r) PROVE IInv'
    <2>1. UNCHANGED <<backend, call, usage, charged, billed>>
        BY <1>5 DEF LogGeneration, LogRaises
    <2>2. /\ pc[r] = "log" /\ r \notin Logged /\ r \in billed /\ call[r] \in Call
          /\ call[r].mode = "chat" => ~got[r].whole
        BY <1>2, <1>5, CalledOnce DEF LogGeneration, LogRaises, At, Progress, TypeOK
    <2>3. Logged' \in {Logged, Logged \cup {r}}
        BY <1>5, LogEffect, LoggedSame DEF LogGeneration, LogRaises
    <2>4. LoggedOnce'
        BY <1>2, <1>5, <2>2, LogOnce DEF LogGeneration, LogRaises
    <2>5. Counted'
        BY <1>2, <2>1, CountedSame
    <2>6. Frame(r) /\ Progress(r)'
        <3>1. CASE At(r, "log", "chat") /\ Goto(r, "record") /\ Log(r)
            <4>1. Frame(r) /\ pc'[r] = "record" /\ got'[r] = got[r] /\ got'[r].end = "none"
                BY <2>2, <3>1, GotoFrame
            <4>2. r \notin charged /\ call[r].mode = "chat" /\ (backend = "langfuse" => r \in Logged')
                BY <1>2, <3>1, LogEffect DEF Progress, At
            <4> QED BY <2>1, <2>2, <4>1, <4>2 DEF Progress, At
        <3>2. CASE At(r, "log", "stream") /\ Close(r, "answer") /\ Log(r)
            <4>1. Frame(r) /\ pc'[r] = "over" /\ got'[r].end = "answer"
                BY <3>2, CloseFrame
            <4>2. (backend = "noop" => r \in charged) /\ (backend = "langfuse" => r \in Logged')
                BY <1>2, <3>2, LogEffect DEF Progress, At
            <4> QED BY <2>1, <2>2, <4>1, <4>2 DEF Progress, At
        <3>3. CASE Close(r, "error")
            <4>1. Frame(r) /\ pc'[r] = "over" /\ got'[r].end = "error" /\ got'[r].whole = got[r].whole
                BY <2>2, <3>3, CloseFrame DEF TypeOK
            <4> QED BY <2>1, <2>2, <4>1 DEF Progress, At
        <3> QED BY <1>5, <3>1, <3>2, <3>3 DEF LogGeneration, LogRaises
    <2> QED BY <2>1, <2>3, <2>4, <2>5, <2>6, InvFromStep
\* Steps on the counters.
<1>6. ASSUME NEW r \in Requests,
             RecordCost(r) \/ RecordRaises(r) \/ (ClientLeaves(r) /\ pc[r] = "record")
      PROVE  IInv'
    <2>1. UNCHANGED <<backend, call, generations, billed>> /\ Logged' = Logged
        BY <1>6, LoggedSame DEF RecordCost, RecordRaises, ClientLeaves
    <2>2. /\ pc[r] = "record" /\ r \notin charged /\ r \in billed /\ call[r] \in Call
          /\ call[r].mode = "chat" => ~got[r].whole
        BY <1>2, <1>6, CalledOnce DEF RecordCost, RecordRaises, ClientLeaves, At, Progress, TypeOK
    <2>3. UNCHANGED <<usage, charged>> \/ (backend = "noop" /\ Enter(r) /\ charged' = charged \cup {r})
        BY <1>6, <2>2 DEF RecordCost, RecordRaises, ClientLeaves, Enter, At
    <2>4. LoggedOnce'
        BY <1>2, <2>1 DEF LoggedOnce
    <2>5. Counted'
        BY <1>2, <2>1, <2>2, <2>3, CountedSame, EnterCounts
    <2>6. Frame(r) /\ Progress(r)'
        <3>1. CASE At(r, "record", "chat") /\ Close(r, "answer") /\ Enter(r)
            <4>1. Frame(r) /\ pc'[r] = "over" /\ got'[r].end = "answer"
                BY <3>1, CloseFrame
            <4>2. (backend = "noop" => r \in charged') /\ (backend = "langfuse" => r \in Logged)
                BY <1>2, <3>1 DEF Progress, At, Enter
            <4> QED BY <2>1, <2>2, <4>1, <4>2 DEF Progress, At
        <3>2. CASE At(r, "record", "stream") /\ Goto(r, "log") /\ Enter(r)
            <4>1. Frame(r) /\ pc'[r] = "log" /\ got'[r] = got[r] /\ got'[r].end = "none"
                BY <2>2, <3>2, GotoFrame
            <4>2. (backend = "noop" => r \in charged') /\ r \notin Logged /\ call[r].mode = "stream"
                BY <1>2, <3>2 DEF Progress, At, Enter
            <4> QED BY <2>1, <2>2, <4>1, <4>2 DEF Progress, At
        <3>3. CASE \E end \in {"error", "left"} : Close(r, end)
            <4>1. Frame(r) /\ pc'[r] = "over" /\ got'[r].end # "answer" /\ got'[r].whole = got[r].whole
                BY <2>2, <3>3, CloseFrame DEF TypeOK
            <4> QED BY <2>1, <2>2, <4>1 DEF Progress, At
        <3> QED BY <1>6, <3>1, <3>2, <3>3 DEF RecordCost, RecordRaises, ClientLeaves, At
    <2> QED BY <2>1, <2>3, <2>4, <2>5, <2>6, InvFromStep
\* Steps of readers who have left.
<1>7. ASSUME NEW r \in Requests, Collect(r) \/ (ClientLeaves(r) /\ pc[r] # "record") PROVE IInv'
    <2>1. UNCHANGED <<backend, call, generations, billed, usage, charged>> /\ Logged' = Logged
        BY <1>7, LoggedSame DEF Collect, ClientLeaves, At, books
    <2>2. pc[r] # "idle" /\ (call[r].mode = "chat" => ~got[r].whole)
        <3>1. got[r].end # "answer" /\ pc[r] # "idle"
            BY <1>2, <1>7 DEF Collect, ClientLeaves, At, TypeOK, Progress
        <3> QED BY <1>2, <3>1 DEF Progress
    <2>3. Frame(r) /\ pc'[r] \in {"over", "abandoned"} /\ got'[r].end = "left"
          /\ got'[r].whole = got[r].whole
        <3>1. CASE Close(r, "left")
            BY <3>1, CloseFrame DEF TypeOK
        <3>2. CASE pc' = [pc EXCEPT ![r] = "abandoned"] /\ got' = [got EXCEPT ![r].end = "left"] /\ UNCHANGED spans
            BY <3>2 DEF TypeOK, Frame
        <3> QED BY <1>7, <3>1, <3>2 DEF ClientLeaves, Collect, At
    <2>4. Progress(r)'
        BY <1>2, <2>1, <2>2, <2>3 DEF Progress, At
    <2>5. Counted' /\ LoggedOnce'
        BY <1>2, <2>1, CountedSame DEF LoggedOnce
    <2> QED BY <2>1, <2>3, <2>4, <2>5, InvFromStep
<1>8. CASE UNCHANGED vars
    BY <1>2, <1>8 DEF IInv, TypeOK, Progress, At, LoggedOnce, Logged, Counted, ChargedTo, vars, books
<1> QED BY <1>3, <1>4, <1>5, <1>6, <1>7, <1>8 DEF Next, Step

THEOREM Invariant == Spec => []IInv
BY InvInit, InvStep, PTL DEF Spec

-----------------------------------------------------------------------------
(* What follows. *)
LEMMA AnswersFromInv == IInv => EveryAnswerRecorded
<1> SUFFICES ASSUME IInv PROVE EveryAnswerRecorded
    OBVIOUS
<1> USE ConstantsAssumption
<1>1. ASSUME NEW s \in Services, NEW r \in Delivered(s), ~Recorded(r)
      PROVE  call[r].mode = "stream" /\ got[r].end # "answer"
    <2>1. r \in Requests /\ got[r].whole /\ Progress(r)
        BY DEF Delivered, IInv
    <2>2. got[r].end # "answer"
        BY <1>1, <2>1 DEF IInv, TypeOK, Backends, Progress, Recorded
    <2>3. call[r] \in Call
        BY <2>1, CalledOnce DEF IInv, Progress
    <2> QED BY <2>1, <2>2, <2>3 DEF Progress, Call
<1>2. ASSUME backend = "noop", NEW s \in Services
      PROVE  Cardinality({r \in Delivered(s) : Recorded(r)}) <= usage[s].requests
    <2>1. PICK known : known = {r \in Delivered(s) : Recorded(r)}
        OBVIOUS
    <2>2. known \subseteq ChargedTo(s) /\ ChargedTo(s) \subseteq Requests
        BY <1>2, <2>1 DEF IInv, TypeOK, Delivered, Recorded, ChargedTo
    <2>3. IsFiniteSet(ChargedTo(s))
        BY <2>2, FS_Subset
    <2>4. Cardinality(known) <= Cardinality(ChargedTo(s))
        BY <2>2, <2>3, FS_Subset
    <2> QED BY <2>1, <2>4 DEF IInv, Counted
<1> QED BY <1>1, <1>2 DEF EveryAnswerRecorded

LEMMA WorkFromInv == IInv => OnlyWorkRecorded
<1> SUFFICES ASSUME IInv PROVE OnlyWorkRecorded
    OBVIOUS
<1> USE ConstantsAssumption
<1>1. ASSUME NEW s \in Services
      PROVE  usage[s].metered <= usage[s].requests /\ usage[s].requests <= Cardinality(BilledTo(s))
    <2>1. ChargedTo(s) \subseteq BilledTo(s) /\ BilledTo(s) \subseteq Requests
        BY DEF IInv, TypeOK, Progress, BilledTo, ChargedTo
    <2>2. IsFiniteSet(BilledTo(s))
        BY <2>1, FS_Subset
    <2>3. Cardinality(ChargedTo(s)) <= Cardinality(BilledTo(s))
        BY <2>1, <2>2, FS_Subset
    <2> QED BY <2>3 DEF IInv, Counted
<1>2. Logged \subseteq billed
    <2>1. Logged \subseteq Requests
        BY DEF IInv, TypeOK, Logged, Generation
    <2> QED BY <2>1 DEF IInv, Progress
<1> QED BY <1>1, <1>2 DEF IInv, LoggedOnce, OnlyWorkRecorded

\* Whatever fails, and wherever: a caller who is told that the answer is complete, by
\* the response of chat or by [DONE], is in the book of the backend in use; what else
\* was delivered and is in no book is a stream that broke off (LLMRouter.chat_stream).
THEOREM AnswersAreRecorded == Spec => []EveryAnswerRecorded
BY Invariant, AnswersFromInv, PTL

\* A service is charged, and a generation logged, only for work of the vendor, once.
THEOREM OnlyWorkIsRecorded == Spec => []OnlyWorkRecorded
BY Invariant, WorkFromInv, PTL

-----------------------------------------------------------------------------
(* The summary of all services, made while completions go on.                  *)

\* A step adds at most one generation and lowers no counter.
LEMMA BooksGrow ==
    ASSUME TypeOK, [Next]_vars
    PROVE  /\ backend' = backend
           /\ generations' = generations \/ \E g : generations' = generations \cup {g}
           /\ \A s \in Services : usage[s].requests <= usage'[s].requests
<1>1. ASSUME NEW r \in Requests, Enter(r) \/ UNCHANGED <<usage, charged>>
      PROVE  \A s \in Services : usage[s].requests <= usage'[s].requests
  BY <1>1 DEF TypeOK, Enter
<1>2. ASSUME NEW r \in Requests, Log(r)
      PROVE  generations' = generations \/ \E g : generations' = generations \cup {g}
  BY <1>2 DEF Log
<1>3. CASE UNCHANGED vars
  BY <1>3 DEF TypeOK, vars, books
<1>4. ASSUME NEW r \in Requests, NEW mode, NEW s, Begin(r, mode, s)
      PROVE  UNCHANGED <<backend, books>>
  BY <1>4 DEF Begin
<1>5. ASSUME NEW r \in Requests, Step(r) \/ ClientLeaves(r)
      PROVE  /\ backend' = backend
             /\ Log(r) \/ UNCHANGED generations
             /\ Enter(r) \/ UNCHANGED <<usage, charged>>
  BY <1>5 DEF Step, ClientLeaves, ProviderAnswers, ProviderRaises, StreamChunk, StreamEnds,
     LogGeneration, LogRaises, RecordCost, RecordRaises, Collect, books
<1> QED
  BY <1>1, <1>2, <1>3, <1>4, <1>5 DEF Next, books, TypeOK

LEMMA TotalIsNat ==
    ASSUME TypeOK, IsFiniteSet(generations), NEW s \in Listed
    PROVE  TotalOf(s) \in Nat
<1>1. LangfuseTotal(s) \in Nat
  BY FS_Subset, FS_CardinalityType DEF LangfuseTotal
<1> QED
  BY <1>1 DEF TypeOK, Backends, TotalOf, RedisTotal

LEMMA SettledIsNat ==
    ASSUME TypeOK, IsFiniteSet(generations), NEW s \in Listed
    PROVE  Settled(s) \in Nat /\ Settled(s) <= TotalOf(s)
<1>1. CASE backend = "langfuse"
  <2>1. PICK all : all = {g \in generations : g.service = s}
    OBVIOUS
  <2>2. PICK sent : sent = {g \in generations : g.service = s /\ g.by \notin spans}
    OBVIOUS
  <2>3. sent \subseteq all /\ IsFiniteSet(all) /\ IsFiniteSet(sent)
    BY <2>1, <2>2, FS_Subset
  <2>4. Cardinality(sent) \in Nat /\ Cardinality(sent) <= Cardinality(all)
    BY <2>3, FS_Subset, FS_CardinalityType
  <2>5. Settled(s) = Cardinality(sent) /\ TotalOf(s) = Cardinality(all)
    BY <1>1, <2>1, <2>2 DEF Settled, TotalOf, LangfuseTotal
  <2> QED
    BY <2>4, <2>5
<1>2. CASE backend # "langfuse"
  BY <1>2, TotalIsNat DEF Settled
<1> QED
  BY <1>1, <1>2

LEMMA TotalsGrow ==
    ASSUME TypeOK, IsFiniteSet(generations), [Next]_vars, NEW s \in Listed
    PROVE  /\ TotalOf(s) \in Nat /\ TotalOf(s)' \in Nat /\ TotalOf(s) <= TotalOf(s)'
<1>1. TypeOK'
  BY TypeStep
<1>2. IsFiniteSet(generations')
  BY BooksGrow, FS_AddElement
<1>3. PICK old : old = {g \in generations : g.service = s}
  OBVIOUS
<1>4. PICK new : new = {g \in generations' : g.service = s}
  OBVIOUS
<1>5. old \subseteq new /\ IsFiniteSet(old) /\ IsFiniteSet(new)
  BY <1>2, <1>3, <1>4, BooksGrow, FS_Subset
<1>6. Cardinality(old) \in Nat /\ Cardinality(new) \in Nat /\ Cardinality(old) <= Cardinality(new)
  BY <1>5, FS_Subset, FS_CardinalityType
<1>7. LangfuseTotal(s) = Cardinality(old) /\ LangfuseTotal(s)' = Cardinality(new)
  BY <1>3, <1>4 DEF LangfuseTotal
<1>8. s \in Services => RedisTotal(s) \in Nat /\ RedisTotal(s)' \in Nat /\ RedisTotal(s) <= RedisTotal(s)'
  BY <1>1, BooksGrow DEF TypeOK, RedisTotal
<1> QED
  BY <1>1, <1>2, <1>6, <1>7, <1>8, BooksGrow DEF TypeOK, Backends, TotalOf

\* A number is not below the total at the start, and not above the present one; only
\* the services a scan has yet to come to have none.
SummaryInv ==
    /\ IsFiniteSet(generations)
    /\ scan \in {"idle", "reading", "over", "failed"}
    /\ found \in [Listed -> Nat] /\ atStart \in [Listed -> Nat]
    /\ \A s \in Listed : atStart[s] <= TotalOf(s) /\ found[s] <= TotalOf(s)
    /\ scan = "over" => \A s \in Plain \cup {Unknown} : atStart[s] <= found[s]
    /\ \A s \in Listed : found[s] = 0 \/ (scan # "idle" /\ atStart[s] <= found[s])

LEMMA SummaryInvInit == AllInit => TypeOK /\ SummaryInv
<1> SUFFICES ASSUME AllInit PROVE TypeOK /\ SummaryInv
  OBVIOUS
<1>1. TypeOK /\ generations = {} /\ IsFiniteSet(generations)
  BY TypeInit, FS_EmptySet DEF AllInit, Init
<1>2. \A s \in Listed : TotalOf(s) \in Nat
  BY <1>1, TotalIsNat
<1> QED
  BY <1>1, <1>2 DEF AllInit, SummaryInit, SummaryInv

LEMMA SummaryStepKeeps ==
    ASSUME TypeOK, SummaryInv, SummaryStep, UNCHANGED vars
    PROVE  SummaryInv'
<1>1. \A s \in Listed : TotalOf(s) \in Nat /\ TotalOf(s)' = TotalOf(s)
  BY TotalIsNat DEF SummaryInv, vars, books, TotalOf, LangfuseTotal, RedisTotal
<1>2. generations' = generations
  BY DEF vars, books
<1>3. CASE BeginSummary
  <2>1. \A s \in Listed : Settled(s) \in Nat /\ Settled(s) <= TotalOf(s)
    BY SettledIsNat DEF SummaryInv
  <2>2. atStart' = [s \in Listed |-> Settled(s)] /\ scan = "idle" /\ scan' = "reading" /\ UNCHANGED found
    BY <1>3 DEF BeginSummary
  <2>3. atStart' \in [Listed -> Nat] /\ \A s \in Listed : atStart'[s] <= TotalOf(s)
    BY <2>1, <2>2
  <2>4. \A s \in Listed : found[s] = 0
    BY <2>2 DEF SummaryInv
  <2> QED
    BY <1>1, <1>2, <2>2, <2>3, <2>4 DEF SummaryInv
<1>4. ASSUME NEW s \in Services, ReadService(s)
      PROVE  SummaryInv'
  <2>1. s \in Listed /\ backend = "noop" /\ TotalOf(s) = usage[s].requests
    BY <1>4 DEF Listed, ReadService, TotalOf, RedisTotal
  <2>2. found' = [found EXCEPT ![s] = TotalOf(s)] /\ scan = "reading" /\ UNCHANGED <<scan, atStart>>
    BY <1>4, <2>1 DEF ReadService
  <2> QED
    BY <1>1, <1>2, <2>1, <2>2 DEF SummaryInv
<1>5. CASE ScanEnds
  <2>1. Unknown \in Listed /\ TotalOf(Unknown) = 0 /\ Plain \subseteq Listed
    BY <1>5, ConstantsAssumption, PlainAssumption DEF ScanEnds, TotalOf, Listed
  <2>2. \A s \in Plain \cup {Unknown} : atStart[s] <= found[s]
    BY <1>1, <1>5, <2>1 DEF SummaryInv, ScanEnds
  <2> QED
    BY <1>1, <1>2, <1>5, <2>2 DEF SummaryInv, ScanEnds
<1>6. CASE PagesEnd
  <2>1. PICK n \in atStart[Unknown]..LangfuseTotal(Unknown) : found' = [found EXCEPT ![Unknown] = n]
    BY <1>6 DEF PagesEnd
  <2>2. Unknown \in Listed /\ TotalOf(Unknown) = LangfuseTotal(Unknown)
        /\ Plain \subseteq Listed \ {Unknown}
    BY <1>6, ConstantsAssumption, PlainAssumption DEF PagesEnd, TotalOf, Listed
  <2>3. n \in Nat /\ atStart[Unknown] <= n /\ n <= TotalOf(Unknown)
    BY <1>1, <2>1, <2>2 DEF SummaryInv
  <2>4. \A s \in Plain : TotalOf(s) = 0
    <3>1. \A s \in Plain : {g \in generations : g.service = s} = {}
      BY <2>2, ConstantsAssumption, PlainAssumption DEF TypeOK, Generation
    <3> QED
      BY <1>6, <3>1, FS_EmptySet DEF PagesEnd, TotalOf, LangfuseTotal
  <2> QED
    BY <1>1, <1>2, <1>6, <2>1, <2>2, <2>3, <2>4 DEF SummaryInv, PagesEnd
<1>7. CASE SummaryRaises
  BY <1>1, <1>2, <1>7 DEF SummaryInv, SummaryRaises
<1> QED
  BY <1>3, <1>4, <1>5, <1>6, <1>7 DEF SummaryStep

LEMMA SummaryInvStep == TypeOK /\ SummaryInv /\ [AllNext]_<<vars, summaryVars>> => (TypeOK /\ SummaryInv)'
<1> SUFFICES ASSUME TypeOK, SummaryInv, [AllNext]_<<vars, summaryVars>>
             PROVE  (TypeOK /\ SummaryInv)'
  OBVIOUS
<1>1. [Next]_vars
  BY DEF AllNext
<1>2. TypeOK'
  BY <1>1, TypeStep
<1>3. CASE UNCHANGED summaryVars
  <2>1. IsFiniteSet(generations)
    BY DEF SummaryInv
  <2>2. IsFiniteSet(generations')
    BY <1>1, <2>1, BooksGrow, FS_AddElement
  <2>3. ASSUME NEW s \in Listed
        PROVE  TotalOf(s) \in Nat /\ TotalOf(s)' \in Nat /\ TotalOf(s) <= TotalOf(s)'
    BY <1>1, <2>1, TotalsGrow
  <2>4. \A s \in Listed : atStart[s] <= TotalOf(s)' /\ found[s] <= TotalOf(s)'
    BY <2>3 DEF SummaryInv
  <2> QED
    BY <1>2, <1>3, <2>2, <2>4 DEF SummaryInv, summaryVars
<1>4. CASE SummaryStep /\ UNCHANGED vars
  BY <1>2, <1>4, SummaryStepKeeps
<1> QED
  BY <1>3, <1>4 DEF AllNext

\* Of whatever moments its numbers are: a summary misses no service whose charges had
\* arrived when it began, and reports no total it did not have while it was made
\* (RedisCostTracker.get_summary, LangfuseCostTracker.get_summary).
THEOREM SummariesAreWithin == AllSpec => []SummaryWithin
<1>1. TypeOK /\ SummaryInv => SummaryWithin
  <2> SUFFICES ASSUME TypeOK, SummaryInv, scan = "over", NEW s \in Plain \cup {Unknown}
               PROVE  found[s] \in atStart[s]..TotalOf(s)
    BY DEF SummaryWithin
  <2>1. s \in Listed
    BY PlainAssumption DEF Listed
  <2>2. TotalOf(s) \in Nat
    BY <2>1, TotalIsNat DEF SummaryInv
  <2> QED
    BY <2>1, <2>2 DEF SummaryInv
<1> QED
  BY <1>1, SummaryInvInit, SummaryInvStep, PTL DEF AllSpec

\* What is proved of the completions holds while summaries are made.
THEOREM SummariesOnlyRead == AllSpec => Spec
<1>1. AllInit => Init
  BY DEF AllInit
<1>2. [AllNext]_<<vars, summaryVars>> => [Next]_vars
  BY DEF AllNext
<1> QED
  BY <1>1, <1>2, PTL DEF AllSpec, Spec
=============================================================================
