------------------------- MODULE ExperimentsProofs -------------------------
(* Proofs about the experiments, for any number of calls, variants and scores *)
(* and any bound on the calls in flight.                                      *)
EXTENDS Experiments, FiniteSetTheorems, TLAPS

Labels == {"idle", "rank", "loaded", "refresh", "answered"}
Started(e) == \E r \in Calls : MayHaveCommitted(r, "start", e)

\* An experiment that shows a trace of running was started.
RowInv(e) ==
    exps[e].status \in {"running", "completed"} \/ exps[e].concluded_at # "null" \/ exps[e].winner # None
        => Started(e)

CallTyped(r) ==
    /\ pc[r] \in Labels
    /\ pc[r] = "idle" => call[r] = NoCall
    /\ pc[r] = "rank" => call[r].op = "conclude"
    /\ pc[r] \in {"rank", "loaded"} =>
          call[r] \in LoadedCall /\ call[r].loaded.status \in Admits(call[r].op)

\* What a call loaded may be out of date, but not this: the experiment exists, and
\* one that was seen running was started.
CallFits(r) == pc[r] \in {"rank", "loaded"} =>
    /\ exps[call[r].exp] # Absent
    /\ call[r].op = "conclude" => Started(call[r].exp)

AnswerFits(r) == call[r].op = "allocate" =>
    /\ pc[r] = "answered"
    /\ reply[r].status = "ok" =>
          /\ call[r].exp \in Names /\ exps[call[r].exp] # Absent
          /\ reply[r].variant # None =>
                reply[r].variant = exps[call[r].exp].slot /\ Started(call[r].exp)

\* Only an answered call has been refused.
Undecided(r) == pc[r] # "answered" => reply[r].status # "400"

CallInv(r) == CallTyped(r) /\ CallFits(r) /\ AnswerFits(r) /\ Undecided(r)

IsFunction(f) == f = [r \in Calls |-> f[r]]
AreFunctions == IsFunction(pc) /\ IsFunction(call) /\ IsFunction(reply)

TablesTyped == exps \in [Names -> {Absent} \cup Row] /\ trials \subseteq Trial

\* The inductive invariant.
Inv ==
    /\ TablesTyped
    /\ AreFunctions
    /\ \A r \in Calls : CallInv(r)
    /\ \A e \in Names : RowInv(e)

LEMMA InvParts == Inv => TypeOK /\ StartedFirst /\ StickyAllocation
<1> SUFFICES ASSUME Inv
             PROVE  TypeOK /\ StartedFirst /\ StickyAllocation
  OBVIOUS
<1>1. pc \in [Calls -> Labels]
  BY DEF Inv, AreFunctions, IsFunction, CallInv, CallTyped
<1>2. TypeOK
  BY <1>1 DEF Inv, TablesTyped, AreFunctions, IsFunction, CallInv, CallTyped, TypeOK, Labels
<1>3. StartedFirst
  <2> SUFFICES ASSUME NEW e \in Names, ~Started(e)
               PROVE  /\ exps[e].status # "completed" /\ exps[e].concluded_at = "null"
                      /\ exps[e].winner = None
                      /\ \A r \in Calls :
                            call[r].op = "allocate" /\ call[r].exp = e /\ reply[r].status = "ok" =>
                                reply[r].variant = None
    BY DEF StartedFirst, Started
  <2> QED
    BY DEF Inv, RowInv, CallInv, AnswerFits
<1>4. StickyAllocation
  BY DEF Inv, CallInv, AnswerFits, StickyAllocation
<1> QED
  BY <1>2, <1>3, <1>4

-----------------------------------------------------------------------------
(* What a commit writes.                                                       *)

Keeps(row, new) ==
    /\ new.status \in {row.status} \cup MayBecome(row.status)
    /\ row # Absent => new.slot = row.slot
    /\ row.concluded_at = "set" => new.concluded_at = "set"

LEMMA CommitWrites ==
    ASSUME NEW row \in Row, NEW c \in LoadedCall, c.loaded.status \in Admits(c.op)
    PROVE  /\ Written(row, c) \in Row
           /\ Keeps(row, Written(row, c))
           /\ c.op = "cancel" =>
                 /\ Written(row, c).concluded_at = row.concluded_at
                 /\ Written(row, c).winner = row.winner
                 /\ Written(row, c).status \in {row.status, "cancelled"}
<1>1. CASE c.op = "start"
  <2>1. Written(row, c) = [row EXCEPT !.status = "running"]
    BY <1>1 DEF Written
  <2> QED
    BY <1>1, <2>1 DEF Row, Keeps, Statuses, MayBecome
<1>2. CASE c.op = "conclude"
  <2>1. PICK w \in Variants \cup {None} :
           w = IF c.winner = c.loaded.winner THEN row.winner ELSE c.winner
    BY DEF LoadedCall, Row
  <2>2. Written(row, c) = [row EXCEPT !.status = "completed", !.concluded_at = "set", !.winner = w]
    BY <1>2, <2>1 DEF Written, Row
  <2> QED
    BY <1>2, <2>2 DEF Row, Keeps, Statuses, MayBecome
<1>3. CASE c.op = "cancel"
  <2>1. \/ Written(row, c) = [row EXCEPT !.status = "cancelled"]
        \/ Written(row, c) = [row EXCEPT !.status = row.status]
    BY <1>3 DEF Written
  <2> QED
    BY <1>3, <2>1 DEF Row, Keeps, Statuses, MayBecome
<1> QED
  BY <1>1, <1>2, <1>3 DEF LoadedCall

-----------------------------------------------------------------------------
(* A step moves one call r and at most one row.                                *)

Moves(r) ==
    /\ AreFunctions'
    /\ \A q \in Calls \ {r} : pc'[q] = pc[q] /\ call'[q] = call[q] /\ reply'[q] = reply[q]

\* A call that may have committed goes on saying so (a create that fails says no).
Stays(r) == pc[r] \in {"refresh", "answered"} =>
    /\ pc'[r] \in {"refresh", "answered"} /\ call'[r] = call[r]
    /\ call[r].op # "create" /\ reply[r].status # "400" => reply'[r].status # "400"

RowsKept == \A e \in Names : exps[e] # Absent => exps'[e] # Absent /\ Keeps(exps[e], exps'[e])

LEMMA Moved ==
    ASSUME AreFunctions, NEW r \in Calls, NEW label, NEW c, NEW a,
           pc' = [pc EXCEPT ![r] = label], call' = [call EXCEPT ![r] = c],
           reply' = [reply EXCEPT ![r] = a]
    PROVE  Moves(r) /\ pc'[r] = label /\ call'[r] = c /\ reply'[r] = a
BY DEF Moves, AreFunctions, IsFunction

LEMMA StartedStable ==
    ASSUME NEW r \in Calls, Moves(r), Stays(r), NEW e, Started(e)
    PROVE  Started(e)'
BY DEF Moves, Stays, Started, MayHaveCommitted

LEMMA InvKept ==
    ASSUME Inv, NEW r \in Calls, Moves(r), Stays(r), RowsKept, TablesTyped',
           CallInv(r)', \A e \in Names : exps'[e] = exps[e] \/ RowInv(e)'
    PROVE  Inv'
<1>1. ASSUME NEW q \in Calls \ {r}
      PROVE  CallInv(q)'
  <2>1. CallInv(q)
    BY DEF Inv
  <2>2. pc'[q] = pc[q] /\ call'[q] = call[q] /\ reply'[q] = reply[q]
    BY DEF Moves
  <2>3. CallTyped(q)'
    BY <2>1, <2>2 DEF CallInv, CallTyped
  <2>4. CallFits(q)'
    BY <2>1, <2>2, StartedStable DEF CallInv, CallTyped, CallFits, RowsKept, LoadedCall
  <2>5. AnswerFits(q)'
    BY <2>1, <2>2, StartedStable DEF CallInv, AnswerFits, RowsKept, Keeps
  <2>6. Undecided(q)'
    BY <2>1, <2>2 DEF CallInv, Undecided
  <2> QED
    BY <2>3, <2>4, <2>5, <2>6 DEF CallInv
<1>2. ASSUME NEW e \in Names
      PROVE  RowInv(e)'
  BY <1>2, StartedStable DEF Inv, RowInv
<1> QED
  BY <1>1, <1>2 DEF Inv, Moves

\* What the model's tables promise a step that writes no row.
LEMMA SameRows ==
    ASSUME TablesTyped, exps' = exps
    PROVE  RowsKept /\ \A e \in Names : exps'[e] = exps[e]
BY DEF RowsKept, Keeps

LEMMA InvStep == Inv /\ [Next]_vars => Inv'
<1> SUFFICES ASSUME Inv, [Next]_vars
             PROVE  Inv'
  OBVIOUS
<1>1. AreFunctions /\ TablesTyped
  BY DEF Inv
<1>2. \A r \in Calls : CallInv(r)
  BY DEF Inv
<1>3. Absent \notin Row
  BY DEF Absent, Row, Statuses
\* A call that is refused, or answers at once, has an answer and nothing loaded.
<1>4. ASSUME NEW r \in Calls, NEW c, NEW a, Answer(r, c, a), exps' = exps, trials' = trials,
             c.op = "allocate" /\ a.status = "ok" =>
                 /\ c.exp \in Names /\ exps[c.exp] # Absent
                 /\ a.variant # None => a.variant = exps[c.exp].slot /\ Started(c.exp)
      PROVE  Inv'
  <2>1. /\ pc[r] = "idle" /\ Moves(r)
        /\ pc'[r] = "answered" /\ call'[r] = c /\ reply'[r] = a
    BY <1>1, <1>4, Moved DEF Answer, Begin
  <2>2. Stays(r)
    BY <2>1 DEF Stays
  <2>3. c.op = "allocate" /\ a.status = "ok" /\ a.variant # None => Started(c.exp)'
    BY <1>4, <2>1, <2>2, StartedStable
  <2>4. CallInv(r)'
    BY <1>4, <2>1, <2>3 DEF CallInv, CallTyped, CallFits, AnswerFits, Undecided, Labels
  <2> QED
    BY <1>1, <1>4, <2>1, <2>2, <2>4, SameRows, InvKept DEF TablesTyped
<1>5. ASSUME NEW r \in Calls, NEW e \in Names, NEW slot \in Variants \cup {None}, Create(r, e, slot)
      PROVE  Inv'
  <2> DEFINE c == [op |-> "create", exp |-> e]
             new == [status |-> "draft", winner |-> None, concluded_at |-> "null", slot |-> slot]
  <2>1. CASE exps[e] # Absent /\ Answer(r, c, [status |-> "400"]) /\ exps' = exps
    BY <1>4, <1>5, <2>1 DEF Create
  <2>2. CASE exps[e] = Absent /\ Begin(r, "refresh", c) /\ exps' = [exps EXCEPT ![e] = new] /\ reply' = reply
    <3>1. new \in Row /\ new.status = "draft" /\ new.concluded_at = "null" /\ new.winner = None
      BY DEF Row, Statuses
    <3>2. c.op = "create"
      OBVIOUS
    <3> HIDE DEF c, new
    <3>3. reply' = [reply EXCEPT ![r] = reply[r]]
      BY <1>1, <2>2 DEF AreFunctions, IsFunction
    <3>4. pc[r] = "idle" /\ Moves(r) /\ pc'[r] = "refresh" /\ call'[r] = c
      BY <1>1, <2>2, <3>3, Moved DEF Begin
    <3>5. Stays(r)
      BY <3>4 DEF Stays
    <3>6. CallInv(r)'
      BY <1>1, <1>2, <2>2, <3>2, <3>4 DEF IsFunction, CallInv, CallTyped, CallFits, AnswerFits, Undecided, Labels
    <3>7. exps'[e] = new /\ \A f \in Names \ {e} : exps'[f] = exps[f]
      BY <1>1, <2>2 DEF TablesTyped
    <3>8. TablesTyped'
      BY <1>1, <1>5, <2>2, <3>1 DEF TablesTyped, Create
    <3>9. RowsKept
      BY <2>2, <3>7 DEF RowsKept, Keeps
    <3>10. RowInv(e)'
      BY <3>1, <3>7 DEF RowInv
    <3> QED
      BY <3>4, <3>5, <3>6, <3>7, <3>8, <3>9, <3>10, InvKept
  <2> QED
    BY <1>5, <2>1, <2>2 DEF Create
<1>6. ASSUME NEW r \in Calls, NEW e \in Names, NEW op \in {"start", "conclude", "cancel"},
             NEW w \in Variants \cup {None}, op = "conclude" \/ w = None, Load(r, e, op, w)
      PROVE  Inv'
  <2>1. PICK row : row = exps[e]
    OBVIOUS
  <2> DEFINE c == [op |-> op, exp |-> e, loaded |-> row, winner |-> w, seen |-> {}]
  <2>2. c.op = op /\ c.exp = e /\ c.loaded = row
    OBVIOUS
  <2>3. CASE row.status \notin Admits(op) /\ Answer(r, [op |-> op, exp |-> e], [status |-> "400"])
    BY <1>4, <1>6, <2>1, <2>3 DEF Load
  <2>4. CASE /\ row.status \in Admits(op) /\ reply' = reply
             /\ Begin(r, IF op = "conclude" /\ w = None THEN "rank" ELSE "loaded", c)
    <3>1. row \in Row /\ row # Absent
      BY <1>1, <2>1, <2>4 DEF TablesTyped, Absent, Admits, Statuses
    <3>2. c \in LoadedCall
      BY <3>1 DEF LoadedCall
    <3> HIDE DEF c
    <3>3. PICK label \in {"rank", "loaded"} :
             Begin(r, label, c) /\ (label = "rank" => op = "conclude")
      BY <2>4
    <3>4. reply' = [reply EXCEPT ![r] = reply[r]] /\ exps' = exps /\ trials' = trials
      BY <1>1, <1>6, <2>4 DEF AreFunctions, IsFunction, Load
    <3>5. pc[r] = "idle" /\ Moves(r) /\ pc'[r] = label /\ call'[r] = c
      BY <1>1, <3>3, <3>4, Moved DEF Begin
    <3>6. Stays(r)
      BY <3>5 DEF Stays
    <3>7. op = "conclude" => Started(e)'
      <4> SUFFICES ASSUME op = "conclude"
                   PROVE  Started(e)'
        OBVIOUS
      <4>1. exps[e].status = "running"
        BY <2>1, <2>4 DEF Admits
      <4>2. Started(e)
        BY <4>1 DEF Inv, RowInv
      <4> QED
        BY <3>5, <3>6, <4>2, StartedStable
    <3>8. CallTyped(r)'
      BY <2>2, <2>4, <3>2, <3>3, <3>5 DEF CallTyped, Labels
    <3>9. CallFits(r)' /\ AnswerFits(r)'
      BY <2>1, <2>2, <3>1, <3>4, <3>5, <3>7 DEF CallFits, AnswerFits
    <3>10. Undecided(r)'
      BY <1>2, <2>4, <3>5 DEF CallInv, Undecided
    <3> QED
      BY <1>1, <3>4, <3>5, <3>6, <3>8, <3>9, <3>10, SameRows, InvKept DEF TablesTyped, CallInv
  <2> QED
    BY <1>6, <2>1, <2>3, <2>4 DEF Load
<1>7. ASSUME NEW r \in Calls, Rank(r)
      PROVE  Inv'
  <2>1. PICK seen : seen = {t \in trials : t.exp = call[r].exp}
    OBVIOUS
  <2>2. seen \subseteq Trial
    BY <1>1, <2>1 DEF TablesTyped
  <2>3. PICK w \in IF Ranked(seen) = {} THEN {None} ELSE Leaders(seen) :
           call' = [call EXCEPT ![r].winner = w, ![r].seen = seen]
    BY <1>7, <2>1 DEF Rank
  <2>4. w \in Variants \cup {None}
    BY <2>2, <2>3 DEF Leaders, Ranked, Trial
  <2>5. PICK old \in LoadedCall : old = call[r]
    BY <1>2, <1>7 DEF Rank, Goto, CallInv, CallTyped
  <2>6. PICK c : c = [old EXCEPT !.winner = w, !.seen = seen]
    OBVIOUS
  <2>7. c \in LoadedCall /\ c.op = old.op /\ c.exp = old.exp /\ c.loaded = old.loaded
    BY <2>2, <2>4, <2>5, <2>6 DEF LoadedCall
  <2>8. call' = [call EXCEPT ![r] = c]
    BY <1>1, <2>3, <2>5, <2>6 DEF AreFunctions, IsFunction
  <2>9. reply' = [reply EXCEPT ![r] = reply[r]] /\ exps' = exps /\ trials' = trials
    BY <1>1, <1>7 DEF AreFunctions, IsFunction, Rank
  <2>10. pc[r] = "rank" /\ Moves(r) /\ pc'[r] = "loaded" /\ call'[r] = c
    BY <1>1, <1>7, <2>8, <2>9, Moved DEF Rank, Goto
  <2>11. Stays(r)
    BY <2>10 DEF Stays
  <2>12. old.op = "conclude" /\ old.loaded.status \in Admits(old.op)
         /\ exps[old.exp] # Absent /\ Started(old.exp)
    BY <1>2, <2>5, <2>10 DEF CallInv, CallTyped, CallFits
  <2>13. Started(old.exp)'
    BY <2>10, <2>11, <2>12, StartedStable
  <2>14. CallInv(r)'
    BY <1>2, <1>7, <2>7, <2>9, <2>10, <2>12, <2>13 DEF Rank, CallInv, CallTyped, CallFits, AnswerFits, Undecided, Labels
  <2> QED
    BY <1>1, <2>9, <2>10, <2>11, <2>14, SameRows, InvKept DEF TablesTyped
<1>8. ASSUME NEW r \in Calls, Commit(r)
      PROVE  Inv'
  <2>1. PICK c : c = call[r]
    OBVIOUS
  <2>2. /\ pc[r] = "loaded" /\ c \in LoadedCall /\ c.loaded.status \in Admits(c.op)
        /\ exps[c.exp] # Absent /\ (c.op = "conclude" => Started(c.exp))
    BY <1>2, <1>8, <2>1 DEF Commit, Goto, CallInv, CallTyped, CallFits
  <2>3. PICK e \in Names : e = c.exp
    BY <2>2 DEF LoadedCall
  <2>4. PICK row \in Row : row = exps[e]
    BY <1>1, <2>2, <2>3 DEF TablesTyped
  <2>5. PICK new : new = Written(row, c)
    OBVIOUS
  <2>6. new \in Row /\ Keeps(row, new)
        /\ (c.op = "cancel" => new.concluded_at = row.concluded_at /\ new.winner = row.winner
                               /\ new.status \in {row.status, "cancelled"})
    BY <2>2, <2>5, CommitWrites
  <2>7. exps' = [exps EXCEPT ![e] = new] /\ trials' = trials
    BY <1>1, <1>8, <2>1, <2>3, <2>4, <2>5 DEF Commit, TablesTyped
  <2>8. PICK a : reply' = [reply EXCEPT ![r] = a] /\ a.status # "400"
    BY <1>1, <1>2, <1>8, <2>2 DEF AreFunctions, IsFunction, Commit, CallInv, Undecided
  <2>9. Moves(r) /\ pc'[r] = "refresh" /\ call'[r] = c /\ reply'[r].status # "400"
    <3>1. pc' = [pc EXCEPT ![r] = "refresh"] /\ call' = [call EXCEPT ![r] = c]
      BY <1>1, <1>8, <2>1 DEF AreFunctions, IsFunction, Commit, Goto
    <3>2. Moves(r) /\ pc'[r] = "refresh" /\ call'[r] = c /\ reply'[r] = a
      BY <1>1, <2>8, <3>1, Moved
    <3> QED
      BY <2>8, <3>2
  <2>10. Stays(r)
    BY <2>2, <2>9 DEF Stays
  <2>11. CallInv(r)'
    BY <2>2, <2>9 DEF CallInv, CallTyped, CallFits, AnswerFits, Undecided, Labels, LoadedCall
  <2>12. exps'[e] = new /\ \A f \in Names \ {e} : exps'[f] = exps[f]
    BY <1>1, <2>7 DEF TablesTyped
  <2>13. TablesTyped'
    BY <1>1, <2>6, <2>7 DEF TablesTyped
  <2>14. RowsKept
    <3>1. \A f \in Names \ {e} : Keeps(exps[f], exps'[f])
      BY <2>12 DEF Keeps
    <3> QED
      BY <1>3, <2>4, <2>6, <2>12, <3>1 DEF RowsKept
  <2>15. RowInv(e)'
    <3>1. CASE c.op = "start"
      BY <2>1, <2>3, <2>9, <3>1 DEF RowInv, Started, MayHaveCommitted
    <3>2. CASE c.op = "conclude"
      BY <2>2, <2>3, <2>9, <2>10, <3>2, StartedStable DEF RowInv
    <3>3. CASE c.op = "cancel"
      <4> SUFFICES ASSUME new.status \in {"running", "completed"} \/ new.concluded_at # "null"
                          \/ new.winner # None
                   PROVE  Started(e)'
        BY <2>12 DEF RowInv
      <4>1. Started(e)
        BY <2>4, <2>6, <3>3 DEF Inv, RowInv
      <4> QED
        BY <2>9, <2>10, <4>1, StartedStable
    <3> QED
      BY <2>2, <3>1, <3>2, <3>3 DEF LoadedCall
  <2> QED
    BY <2>9, <2>10, <2>11, <2>12, <2>13, <2>14, <2>15, InvKept
<1>9. ASSUME NEW r \in Calls, NEW e \in Names, NEW v \in Variants, NEW s \in Scores \cup {None},
             RecordTrial(r, e, v, s)
      PROVE  Inv'
  <2> DEFINE c == [op |-> "trial", exp |-> e]
  <2>1. c.op = "trial"
    OBVIOUS
  <2>2. reply' = [reply EXCEPT ![r] = reply[r]] /\ exps' = exps /\ Begin(r, "refresh", c)
    BY <1>1, <1>9 DEF AreFunctions, IsFunction, RecordTrial
  <2> HIDE DEF c
  <2>3. pc[r] = "idle" /\ Moves(r) /\ pc'[r] = "refresh" /\ call'[r] = c
    BY <1>1, <2>2, Moved DEF Begin
  <2>4. Stays(r)
    BY <2>3 DEF Stays
  <2>5. CallInv(r)'
    BY <1>1, <1>2, <2>1, <2>2, <2>3 DEF IsFunction, CallInv, CallTyped, CallFits, AnswerFits, Undecided, Labels
  <2>6. TablesTyped'
    BY <1>1, <1>9 DEF TablesTyped, RecordTrial, Trial
  <2> QED
    BY <1>1, <2>2, <2>3, <2>4, <2>5, <2>6, SameRows, InvKept
<1>10. ASSUME NEW r \in Calls, NEW a, r \in Open, reply' = [reply EXCEPT ![r] = a],
              call[r].op # "create" => a.status # "400",
              pc' = [pc EXCEPT ![r] = "answered"], UNCHANGED <<exps, trials, call>>
       PROVE  Inv'
  <2>1. call' = [call EXCEPT ![r] = call[r]]
    BY <1>1, <1>10 DEF AreFunctions, IsFunction
  <2>2. Moves(r) /\ pc'[r] = "answered" /\ call'[r] = call[r] /\ reply'[r] = a
    BY <1>1, <1>10, <2>1, Moved
  <2>3. Stays(r) /\ call[r].op # "allocate"
    BY <1>2, <1>10, <2>2 DEF Stays, Open, CallInv, AnswerFits
  <2>4. CallInv(r)'
    BY <2>2, <2>3 DEF CallInv, CallTyped, CallFits, AnswerFits, Undecided, Labels
  <2> QED
    BY <1>1, <1>10, <2>2, <2>3, <2>4, SameRows, InvKept DEF TablesTyped
<1>11. ASSUME NEW r \in Calls, Refresh(r) \/ Fail(r)
       PROVE  Inv'
  <2>1. r \in Open /\ pc' = [pc EXCEPT ![r] = "answered"] /\ UNCHANGED <<exps, trials, call>>
    BY <1>11 DEF Refresh, Fail, Goto, Open
  <2>2. CASE Refresh(r)
    <3>1. PICK a : a = [status |-> "ok"]
      OBVIOUS
    <3>2. reply' = [reply EXCEPT ![r] = a] /\ a.status # "400"
      BY <2>2, <3>1 DEF Refresh
    <3> QED
      BY <1>10, <2>1, <3>2
  <2>3. CASE Fail(r)
    <3>1. PICK status : status = IF call[r].op = "create" THEN "400" ELSE "500"
      OBVIOUS
    <3>2. PICK a : a = [status |-> status]
      OBVIOUS
    <3>3. a.status = status
      BY <3>2
    <3>4. reply' = [reply EXCEPT ![r] = a]
      BY <2>3, <3>1, <3>2 DEF Fail
    <3> QED
      BY <1>10, <2>1, <3>1, <3>3, <3>4
  <2> QED
    BY <1>11, <2>2, <2>3
<1>12. ASSUME NEW r \in Calls, NEW e \in Names, Allocate(r, e)
       PROVE  Inv'
  <2>1. PICK row \in {Absent} \cup Row : row = exps[e]
    BY <1>1 DEF TablesTyped
  <2> DEFINE c == [op |-> "allocate", exp |-> e]
  <2>2. CASE row = Absent
    BY <1>4, <1>12, <2>1, <2>2 DEF Allocate
  <2>3. CASE row # Absent
    <3>1. PICK v : v = IF row.status = "running" THEN row.slot ELSE None
      OBVIOUS
    <3>2. Answer(r, c, [status |-> "ok", variant |-> v]) /\ exps' = exps /\ trials' = trials
      BY <1>12, <2>1, <2>3, <3>1 DEF Allocate
    <3>3. v # None => v = row.slot /\ Started(e)
      BY <2>1, <3>1 DEF Inv, RowInv
    <3> QED
      BY <1>4, <2>1, <2>3, <3>2, <3>3
  <2> QED
    BY <2>2, <2>3
<1>13. CASE UNCHANGED vars
  BY <1>13 DEF vars, Inv, TablesTyped, AreFunctions, IsFunction, CallInv, CallTyped, CallFits,
     AnswerFits, Undecided, RowInv, Started, MayHaveCommitted
<1> QED
  BY <1>5, <1>6, <1>7, <1>8, <1>9, <1>11, <1>12, <1>13 DEF Next

LEMMA InvInit == Init => Inv
<1> SUFFICES ASSUME Init
             PROVE  Inv
  OBVIOUS
<1>1. TablesTyped
  BY DEF Init, TablesTyped
<1>2. AreFunctions
  BY DEF Init, AreFunctions, IsFunction
<1>3. ASSUME NEW r \in Calls
      PROVE  CallInv(r)
  BY DEF Init, CallInv, CallTyped, CallFits, AnswerFits, Undecided, Labels, NoCall
<1>4. ASSUME NEW e \in Names
      PROVE  RowInv(e)
  BY DEF Init, RowInv, Absent
<1> QED
  BY <1>1, <1>2, <1>3, <1>4 DEF Inv

LEMMA Invariant == Spec => []Inv
BY InvInit, InvStep, PTL DEF Spec

\* The type invariant of the experiments.
THEOREM TypeCorrect == Spec => []TypeOK
BY Invariant, InvParts, PTL

\* However start, conclude and cancel race, no conclusion, winner or allocation
\* comes out of an experiment that nobody started (the status checks of
\* ExperimentRunner.start, conclude and allocate_variant).
THEOREM OnlyStartedExperiments == Spec => []StartedFirst
BY Invariant, InvParts, PTL

\* Two callers with the same key are never given different variants of an
\* experiment (ABTestAllocator over the variants stored by create).
THEOREM AllocationIsSticky == Spec => []StickyAllocation
BY Invariant, InvParts, PTL

LEMMA RowsStepKept ==
    ASSUME Inv, [Next]_vars, NEW e \in Names
    PROVE  Keeps(exps[e], exps'[e])
<1>1. TablesTyped
  BY DEF Inv
<1>2. ASSUME exps' = exps
      PROVE  Keeps(exps[e], exps'[e])
  BY <1>2 DEF Keeps
<1>3. ASSUME NEW r \in Calls, NEW f \in Names, NEW v \in Variants \cup {None}, Create(r, f, v)
      PROVE  Keeps(exps[e], exps'[e])
  <2>1. CASE exps' = exps
    BY <1>2, <2>1
  <2>2. CASE /\ exps[f] = Absent /\ \A g \in Names \ {f} : exps'[g] = exps[g]
             /\ exps'[f].status = "draft"
    BY <2>2 DEF Keeps, MayBecome, Absent
  <2> QED
    BY <1>1, <1>3, <2>1, <2>2 DEF Create, TablesTyped
<1>4. ASSUME NEW r \in Calls, Commit(r)
      PROVE  Keeps(exps[e], exps'[e])
  <2>1. PICK c : c = call[r]
    OBVIOUS
  <2>2. c \in LoadedCall /\ c.loaded.status \in Admits(c.op) /\ exps[c.exp] # Absent
    BY <1>4, <2>1 DEF Inv, CallInv, CallTyped, CallFits, Commit, Goto
  <2>3. CASE e = c.exp
    <3>1. PICK row \in Row : row = exps[e]
      BY <1>1, <2>2, <2>3 DEF TablesTyped
    <3>2. exps'[e] = Written(row, c)
      BY <1>1, <1>4, <2>1, <2>3, <3>1 DEF Commit, TablesTyped
    <3> QED
      BY <2>2, <3>1, <3>2, CommitWrites
  <2>4. CASE e # c.exp
    <3>1. exps'[e] = exps[e]
      BY <1>1, <1>4, <2>1, <2>4 DEF Commit, TablesTyped
    <3> QED
      BY <3>1 DEF Keeps
  <2> QED
    BY <2>3, <2>4
<1> QED
  BY <1>2, <1>3, <1>4
  DEF Next, vars, Load, Rank, RecordTrial, Refresh, Allocate, Fail

\* No commit, however stale what it loaded, turns an experiment back into a draft,
\* changes its variants or takes its conclusion mark away (ExperimentRunner writes
\* only the columns it changed).
THEOREM NothingIsUndone == Spec => NothingUndone
<1>1. Inv /\ [Next]_vars => [\A e \in Names : exps[e] # exps'[e] =>
          /\ exps'[e].status \in {exps[e].status} \cup MayBecome(exps[e].status)
          /\ exps[e] # Absent => exps'[e].slot = exps[e].slot
          /\ exps[e].concluded_at = "set" => exps'[e].concluded_at = "set"]_vars
  BY RowsStepKept DEF Keeps
<1> QED
  BY <1>1, Invariant, PTL DEF Spec, NothingUndone

-----------------------------------------------------------------------------
(* Sums over a finite set. A set takes the place of a predicate in inductions. *)

\* Over the numbers.
LEMMA Induction ==
    ASSUME NEW Q, 0 \in Q, \A k \in Nat : k \in Q => k + 1 \in Q
    PROVE  Nat \subseteq Q
<1> DEFINE R == OpToRel(<, Nat)
<1>1. ASSUME Nat \ Q # {}
      PROVE  FALSE
  <2>1. PICK k \in Nat \ Q : \A j \in Nat \ Q : <<j, k>> \notin R
    BY <1>1, NatLessThanWellFounded, WFMin
  <2>2. k - 1 \in Nat /\ k - 1 < k
    <3>1. k \in Nat /\ k # 0
      OBVIOUS
    <3> QED
      BY <3>1
  <2>3. <<k - 1, k>> \in R
    BY <2>2 DEF OpToRel
  <2>4. k - 1 \in Q
    BY <2>1, <2>2, <2>3
  <2> QED
    BY <2>2, <2>4
<1> QED
  BY <1>1

\* Over the subsets of a finite set, each after those it has one member more than.
LEMMA SetInduction ==
    ASSUME NEW S, IsFiniteSet(S), NEW Q,
           \A T \in SUBSET S : (\A x \in T : T \ {x} \in Q) => T \in Q
    PROVE  \A T \in SUBSET S : T \in Q
<1> DEFINE R == StrictSubsetOrdering(S)
           B == (SUBSET S) \ Q
<1>1. IsWellFoundedOn(R, SUBSET S)
  BY FS_StrictSubsetOrderingWellFounded, FS_FiniteSubsetsOfFinite
<1>2. ASSUME B # {} PROVE FALSE
  <2> HIDE DEF R
  <2>1. PICK T \in B : \A U \in B : <<U, T>> \notin R
    BY <1>1, <1>2, WFMin
  <2>2. \A x \in T : T \ {x} \notin B
    <3> TAKE x \in T
    <3>1. T \ {x} \in SUBSET T /\ T \ {x} # T /\ T \ {x} \in SUBSET S /\ T \in SUBSET S
      OBVIOUS
    <3>2. <<T \ {x}, T>> \in R
      BY <3>1 DEF R, StrictSubsetOrdering
    <3> QED
      BY <2>1, <3>2
  <2> QED
    BY <2>2
<1> QED
  BY <1>2

\* h is defined by recursion over the subsets of S: c picks the member to take out
\* first, G[s] adds what s owes to it.
IsFold(h, S, base, c, G) ==
    \A s \in SUBSET S : h[s] = IF s = {} THEN base ELSE G[s][h[s \ {c[s]}]]

Foldable(S, V, base, c, G) ==
    /\ IsFiniteSet(S) /\ base \in V /\ G \in [SUBSET S -> [V -> V]]
    /\ \A s \in SUBSET S : s # {} => c[s] \in s

\* Such a function exists: what one for the sets of k members gives is right for one more.
LEMMA FoldExists ==
    ASSUME NEW S, NEW V, NEW base, NEW c, NEW G, Foldable(S, V, base, c, G)
    PROVE  \E h \in [SUBSET S -> V] : IsFold(h, S, base, c, G)
<1> DEFINE size(s) == Cardinality(s)
           Step(h, s) == IF s = {} THEN base ELSE G[s][h[s \ {c[s]}]]
           Upto(h, k) == \A s \in SUBSET S : size(s) <= k => h[s] = Step(h, s)
           Q == {k \in Nat : \E h \in [SUBSET S -> V] : Upto(h, k)}
<1>1. /\ IsFiniteSet(S) /\ base \in V
      /\ \A s \in SUBSET S, v \in V : G[s][v] \in V
  BY DEF Foldable
<1>2. ASSUME NEW s \in SUBSET S
      PROVE  size(s) \in Nat /\ size(s) <= size(S) /\ (s = {} <=> size(s) = 0)
  BY <1>1, FS_Subset, FS_CardinalityType, FS_EmptySet
<1>3. ASSUME NEW s \in SUBSET S, s # {}
      PROVE  /\ c[s] \in s /\ s \ {c[s]} \in SUBSET S
             /\ size(s \ {c[s]}) = size(s) - 1
  <2>1. IsFiniteSet(s) /\ c[s] \in s
    BY <1>1, <1>3, FS_Subset DEF Foldable
  <2> QED
    BY <2>1, FS_RemoveElement
<1> HIDE DEF size
<1>4. 0 \in Q
  <2> DEFINE h == [s \in SUBSET S |-> base]
  <2>1. h \in [SUBSET S -> V] /\ \A s \in SUBSET S : size(s) <= 0 => s = {} /\ h[s] = base
    BY <1>1, <1>2
  <2> HIDE DEF h
  <2> QED
    BY <2>1
<1>5. ASSUME NEW k \in Nat, k \in Q
      PROVE  k + 1 \in Q
  <2>1. PICK g \in [SUBSET S -> V] : Upto(g, k)
    BY <1>5
  <2> DEFINE h == [s \in SUBSET S |-> Step(g, s)]
  <2>2. h \in [SUBSET S -> V]
    <3>1. \A s \in SUBSET S : Step(g, s) \in V
      BY <1>1, <1>3
    <3> HIDE DEF Step
    <3> QED
      BY <3>1
  <2>3. ASSUME NEW s \in SUBSET S, size(s) <= k
        PROVE  h[s] = g[s]
    BY <2>1, <2>3
  <2>4. ASSUME NEW s \in SUBSET S, size(s) <= k + 1
        PROVE  h[s] = Step(h, s)
    <3>1. CASE s = {}
      BY <3>1
    <3>2. CASE s # {}
      <4>1. s \ {c[s]} \in SUBSET S /\ size(s \ {c[s]}) <= k
        BY <1>2, <1>3, <2>4, <3>2
      <4>2. h[s \ {c[s]}] = g[s \ {c[s]}]
        BY <2>3, <4>1
      <4>3. h[s] = G[s][g[s \ {c[s]}]]
        BY <3>2
      <4> HIDE DEF h
      <4> QED
        BY <3>2, <4>2, <4>3
    <3> QED
      BY <3>1, <3>2
  <2> HIDE DEF h, Step
  <2> QED
    BY <2>2, <2>4
<1>6. size(S) \in Q
  <2>1. Nat \subseteq Q
    <3> HIDE DEF Q
    <3> QED
      BY <1>4, <1>5, Induction
  <2>2. size(S) \in Nat
    BY <1>2
  <2> HIDE DEF Q
  <2> QED
    BY <2>1, <2>2
<1>7. PICK h \in [SUBSET S -> V] : Upto(h, size(S))
  BY <1>6
<1> QED
  BY <1>2, <1>7 DEF IsFold

\* The sums of f over the subsets of S, as SumFunction defines them.
Partial(f, S) == CHOOSE h : h = [s \in SUBSET S |-> IF s = {} THEN 0
                  ELSE f[CHOOSE x \in s : TRUE] + h[s \ {CHOOSE x \in s : TRUE}]]

LEMMA PartialSums ==
    ASSUME NEW S, IsFiniteSet(S), NEW f \in [S -> Int]
    PROVE  /\ Partial(f, S) \in [SUBSET S -> Int]
           /\ Partial(f, S)[{}] = 0
           /\ \A s \in SUBSET S : s # {} => \E x \in s : Partial(f, S)[s] = f[x] + Partial(f, S)[s \ {x}]
<1> DEFINE c == [s \in SUBSET S |-> CHOOSE x \in s : TRUE]
           G == [s \in SUBSET S |-> [v \in Int |-> IF s = {} THEN 0 ELSE f[c[s]] + v]]
           Eq(h) == h = [s \in SUBSET S |-> IF s = {} THEN 0
                            ELSE f[CHOOSE x \in s : TRUE] + h[s \ {CHOOSE x \in s : TRUE}]]
<1>1. \A s \in SUBSET S : s # {} => c[s] \in s
  OBVIOUS
<1>2. G \in [SUBSET S -> [Int -> Int]]
  <2>1. \A s \in SUBSET S : s # {} => f[c[s]] \in Int
    BY <1>1
  <2> HIDE DEF c
  <2> QED
    BY <2>1
<1> HIDE DEF c, G
<1>3. 0 \in Int
  OBVIOUS
<1>4. Foldable(S, Int, 0, c, G)
  BY <1>1, <1>2 DEF Foldable
<1>5. PICK h \in [SUBSET S -> Int] : IsFold(h, S, 0, c, G)
  BY <1>4, FoldExists
<1>6. Eq(h)
  <2>1. ASSUME NEW s \in SUBSET S, s # {}
        PROVE  h[s] = f[CHOOSE x \in s : TRUE] + h[s \ {CHOOSE x \in s : TRUE}]
    <3>1. c[s] = CHOOSE x \in s : TRUE
      BY DEF c
    <3>2. c[s] \in s /\ h[s \ {c[s]}] \in Int /\ h[s] = G[s][h[s \ {c[s]}]]
      BY <1>1, <1>5, <2>1 DEF IsFold
    <3>3. h[s] = f[c[s]] + h[s \ {c[s]}]
      BY <2>1, <3>2 DEF G
    <3> QED
      BY <3>1, <3>3
  <2>2. h[{}] = 0
    BY <1>5 DEF IsFold
  <2> QED
    BY <1>5, <2>1, <2>2
<1>7. Partial(f, S) = CHOOSE g : Eq(g)
  BY DEF Partial
<1>8. Eq(Partial(f, S))
  <2> HIDE DEF Eq
  <2> QED
    BY <1>6, <1>7
<1> DEFINE k == Partial(f, S)
<1>9. \A s \in SUBSET S : k[s] = IF s = {} THEN 0
                            ELSE f[CHOOSE x \in s : TRUE] + k[s \ {CHOOSE x \in s : TRUE}]
  BY <1>8
<1>10. k = [s \in SUBSET S |-> k[s]]
  BY <1>8
<1> HIDE DEF k
<1> DEFINE E == {s \in SUBSET S : k[s] \in Int}
<1>11. ASSUME NEW s \in SUBSET S, \A x \in s : s \ {x} \in E
       PROVE  s \in E
  <2>1. CASE s = {}
    <3>1. k[s] = 0
      BY <1>9, <2>1
    <3> QED
      BY <3>1
  <2>2. CASE s # {}
    <3>1. PICK x \in s : x = CHOOSE y \in s : TRUE
      BY <2>2
    <3>2. k[s \ {x}] \in Int /\ k[s] = f[x] + k[s \ {x}]
      BY <1>9, <1>11, <2>2, <3>1
    <3> QED
      BY <3>2
  <2> QED
    BY <2>1, <2>2
<1>12. \A s \in SUBSET S : s \in E
  <2> HIDE DEF E
  <2> QED
    BY <1>11, SetInduction
<1>13. k \in [SUBSET S -> Int]
  BY <1>10, <1>12 DEF E
<1>14. k[{}] = 0
  BY <1>9
<1>15. ASSUME NEW s \in SUBSET S, s # {}
       PROVE  \E x \in s : k[s] = f[x] + k[s \ {x}]
  BY <1>9, <1>15
<1> QED
  BY <1>13, <1>14, <1>15 DEF k

LEMMA SumIsPartial ==
    ASSUME NEW f
    PROVE  SumFunction(f) = Partial(f, DOMAIN f)[DOMAIN f]
BY DEF SumFunction, FoldFunction, SumFunctionOnSet, FoldFunctionOnSet, MapThenFoldSet, Partial

\* What a quotient is rounded from.
LEMMA DivBounds ==
    ASSUME NEW x \in Int, NEW d \in Nat \ {0}
    PROVE  (x \div d) \in Int /\ d * (x \div d) <= x /\ x < d * (x \div d) + d
OBVIOUS

LEMMA Monotone ==
    ASSUME NEW x \in Int, NEW y \in Int, NEW k \in Nat
    PROVE  /\ x <= y => k * x <= k * y
           /\ x < y /\ k > 0 => k * x < k * y
OBVIOUS

\* Of two means, that with the higher rounded value is higher, or lower by less than
\* the unit they are rounded to.
LEMMA MeansCompared ==
    ASSUME NEW a \in Int, NEW m \in Nat \ {0}, NEW b \in Int, NEW n \in Nat \ {0},
           (2 * 10000 * a + m) \div (2 * m) >= (2 * 10000 * b + n) \div (2 * n)
    PROVE  10000 * (b * m - a * n) < n * m
<1>1. 2 * m \in Nat \ {0} /\ 2 * n \in Nat \ {0} /\ 2 * 10000 * a + m \in Int /\ 2 * 10000 * b + n \in Int
  OBVIOUS
<1>2. PICK x \in Int, y \in Int, d \in Nat \ {0}, e \in Nat \ {0} :
          x = 2 * 10000 * a + m /\ y = 2 * 10000 * b + n /\ d = 2 * m /\ e = 2 * n
  BY <1>1
<1>3. x \div d >= y \div e
  BY <1>2
<1>4. PICK q \in Int, p \in Int : q = x \div d /\ p = y \div e
  BY DivBounds
<1>5. d * q <= x /\ y < e * p + e
  BY <1>4, DivBounds
<1>6. p <= q
  BY <1>3, <1>4
<1>7. n * (d * q) <= n * x
  BY <1>5, Monotone
<1>8. m * y < m * (e * p + e)
  BY <1>5, Monotone
<1>9. (m * e) * p <= (m * e) * q
  BY <1>6, Monotone
<1>10. PICK t \in Int, u \in Int, v \in Int, r \in Int, s \in Int :
          t = n * m /\ u = a * n /\ v = b * m /\ r = t * p /\ s = t * q
  OBVIOUS
<1>11. n * (d * q) = 2 * s /\ n * x = 20000 * u + t
  BY <1>2, <1>10
<1>12. m * y = 20000 * v + t /\ m * (e * p + e) = 2 * r + 2 * t
  BY <1>2, <1>10
<1>13. (m * e) * p = 2 * r /\ (m * e) * q = 2 * s
  BY <1>2, <1>10
<1>14. 2 * s <= 20000 * u + t /\ 20000 * v + t < 2 * r + 2 * t /\ 2 * r <= 2 * s
  BY <1>7, <1>8, <1>9, <1>11, <1>12, <1>13
<1>15. 10000 * (v - u) < t
  BY <1>14
<1> QED
  BY <1>10, <1>15

\* The total of a variant is a whole number.
LEMMA TotalTyped ==
    ASSUME NEW ts \in SUBSET Trial, IsFiniteSet(ts), NEW v
    PROVE  /\ Total(ts, v) \in Int
           /\ Cardinality(ScoresOf(ts, v)) \in Nat
           /\ ScoresOf(ts, v) # {} => Cardinality(ScoresOf(ts, v)) \in Nat \ {0}
<1> DEFINE S == ScoresOf(ts, v)
           f == [t \in S |-> t.score]
<1>1. IsFiniteSet(S)
  BY FS_Subset DEF ScoresOf
<1>2. f \in [S -> Int] /\ DOMAIN f = S
  <2>1. ASSUME NEW t \in S
        PROVE  t.score \in Int
    <3>1. t \in Trial /\ t.score # None
      BY DEF ScoresOf
    <3>2. t.score \in Scores
      BY <3>1 DEF Trial
    <3>3. t.score \in Nat
      BY <3>2, ConstantsAssumption, Zenon
    <3> QED
      BY <3>3
  <2> HIDE DEF S
  <2> QED
    BY <2>1
<1> HIDE DEF f, S
<1>3. Partial(f, S)[S] \in Int
  <2>1. Partial(f, S) \in [SUBSET S -> Int]
    BY <1>1, <1>2, PartialSums
  <2> QED
    BY <2>1
<1>4. SumFunction(f) \in Int
  BY <1>2, <1>3, SumIsPartial
<1>5. Cardinality(S) \in Nat /\ (S # {} => Cardinality(S) # 0)
  BY <1>1, FS_CardinalityType, FS_EmptySet
<1> QED
  BY <1>4, <1>5 DEF Total, f, S

\* A leader of the rounded means has the best mean.
LEMMA LeadersAreBest ==
    ASSUME NEW ts \in SUBSET Trial, IsFiniteSet(ts), NEW v \in Leaders(ts)
    PROVE  Best(ts, v)
<1>1. ScoresOf(ts, v) # {}
  BY DEF Leaders, Ranked, ScoresOf
<1>2. ASSUME NEW w \in Variants, ScoresOf(ts, w) # {}
      PROVE  10000 * (Total(ts, w) * Cardinality(ScoresOf(ts, v))
                        - Total(ts, v) * Cardinality(ScoresOf(ts, w)))
                < Cardinality(ScoresOf(ts, w)) * Cardinality(ScoresOf(ts, v))
  <2>1. w \in Ranked(ts)
    BY <1>2 DEF Ranked, ScoresOf
  <2>2. AvgScore(ts, v) >= AvgScore(ts, w)
    BY <2>1 DEF Leaders
  <2>3. PICK m \in Nat \ {0}, n \in Nat \ {0}, a \in Int, b \in Int :
            /\ m = Cardinality(ScoresOf(ts, v)) /\ n = Cardinality(ScoresOf(ts, w))
            /\ a = Total(ts, v) /\ b = Total(ts, w)
    BY <1>1, <1>2, TotalTyped
  <2>4. (2 * 10000 * a + m) \div (2 * m) >= (2 * 10000 * b + n) \div (2 * n)
    BY <2>2, <2>3 DEF AvgScore
  <2>5. 10000 * (b * m - a * n) < n * m
    BY <2>4, MeansCompared
  <2> QED
    BY <2>3, <2>5
<1> QED
  BY <1>1, <1>2 DEF Best

-----------------------------------------------------------------------------
(* Where winners come from.                                                    *)

\* What a call that has not committed yet would back a winner with
SeenInv(r) == pc[r] \in {"rank", "loaded"} =>
    /\ call[r].seen \subseteq trials
    /\ call[r].seen # {} /\ call[r].winner # None => Best(call[r].seen, call[r].winner)

WinnerInv == WinnerBacked /\ IsFiniteSet(trials) /\ \A r \in Calls : SeenInv(r)

\* A conclude that may have committed goes on saying so, with its winner.
LEMMA ConcludeStays ==
    ASSUME Inv, [Next]_vars, NEW q \in Calls, pc[q] \in {"refresh", "answered"},
           call[q].op = "conclude", reply[q].status # "400"
    PROVE  pc'[q] \in {"refresh", "answered"} /\ call'[q] = call[q] /\ reply'[q].status # "400"
<1>1. AreFunctions
  BY DEF Inv
<1>2. ASSUME NEW r \in Calls, NEW label, NEW c, Begin(r, label, c)
      PROVE  r # q /\ pc'[q] = pc[q] /\ call'[q] = call[q]
  BY <1>1, <1>2 DEF Begin, AreFunctions, IsFunction
<1>3. ASSUME NEW r \in Calls, NEW label, NEW c, Begin(r, label, c),
             reply' = reply \/ \E a : reply' = [reply EXCEPT ![r] = a]
      PROVE  pc'[q] = pc[q] /\ call'[q] = call[q] /\ reply'[q] = reply[q]
  BY <1>1, <1>2, <1>3 DEF AreFunctions, IsFunction
<1>4. ASSUME NEW r \in Calls, NEW e \in Names, NEW v \in Variants \cup {None}, Create(r, e, v)
      PROVE  pc'[q] = pc[q] /\ call'[q] = call[q] /\ reply'[q] = reply[q]
  BY <1>3, <1>4 DEF Create, Answer
<1>5. ASSUME NEW r \in Calls, NEW e \in Names, NEW op, NEW w, Load(r, e, op, w)
      PROVE  pc'[q] = pc[q] /\ call'[q] = call[q] /\ reply'[q] = reply[q]
  BY <1>3, <1>5 DEF Load, Answer
<1>6. ASSUME NEW r \in Calls, NEW e \in Names, NEW v, NEW s, RecordTrial(r, e, v, s) \/ Allocate(r, e)
      PROVE  pc'[q] = pc[q] /\ call'[q] = call[q] /\ reply'[q] = reply[q]
  BY <1>3, <1>6 DEF RecordTrial, Allocate, Answer
<1>7. ASSUME NEW r \in Calls, Rank(r) \/ Commit(r)
      PROVE  pc'[q] = pc[q] /\ call'[q] = call[q] /\ reply'[q] = reply[q]
  <2>1. r # q
    BY <1>7 DEF Rank, Commit, Goto
  <2>2. CASE Rank(r)
    BY <1>1, <2>1, <2>2 DEF Rank, Goto, AreFunctions, IsFunction
  <2>3. CASE Commit(r)
    BY <1>1, <2>1, <2>3 DEF Commit, Goto, AreFunctions, IsFunction
  <2> QED
    BY <1>7, <2>2, <2>3
<1>8. ASSUME NEW r \in Calls, Refresh(r)
      PROVE  pc'[q] \in {"refresh", "answered"} /\ call'[q] = call[q] /\ reply'[q].status # "400"
  BY <1>1, <1>8 DEF Refresh, Goto, AreFunctions, IsFunction
<1>9. ASSUME NEW r \in Calls, Fail(r)
      PROVE  pc'[q] \in {"refresh", "answered"} /\ call'[q] = call[q] /\ reply'[q].status # "400"
  <2>1. CASE r = q
    BY <1>1, <1>9, <2>1 DEF Fail, Goto, AreFunctions, IsFunction
  <2>2. CASE r # q
    BY <1>1, <1>9, <2>2 DEF Fail, Goto, AreFunctions, IsFunction
  <2> QED
    BY <2>1, <2>2
<1>10. CASE UNCHANGED vars
  BY <1>10 DEF vars
<1> QED
  BY <1>4, <1>5, <1>6, <1>7, <1>8, <1>9, <1>10 DEF Next

\* Trials are only added.
LEMMA TrialsGrow == [Next]_vars => trials \subseteq trials'
BY DEF Next, vars, Create, Load, Rank, Commit, RecordTrial, Refresh, Allocate, Fail

\* Whether a variant is the best is a matter of the trials alone.
LEMMA BestFixed ==
    ASSUME NEW q \in Calls, NEW c, call'[q] = c
    PROVE  Best(call[q].seen, call[q].winner)' <=> Best(c.seen, c.winner)
BY DEF Best, Total, ScoresOf

LEMMA BacksStays ==
    ASSUME Inv, [Next]_vars, NEW q \in Calls, NEW e \in Names, Backs(q, e),
           exps'[e].winner = exps[e].winner
    PROVE  Backs(q, e)'
<1>1. call'[q] = call[q] /\ Chose(q, e)'
  BY ConcludeStays, TrialsGrow DEF Backs, Chose, MayHaveCommitted
<1>2. Best(call[q].seen, call[q].winner)' <=> Best(call[q].seen, call[q].winner)
  BY <1>1, BestFixed
<1> QED
  BY <1>1, <1>2 DEF Backs

\* A row that keeps its winner and its conclusion remains backed.
LEMMA WinnerRowKept ==
    ASSUME Inv, [Next]_vars, WinnerBacked, NEW e \in Names,
           exps'[e].winner = exps[e].winner,
           exps[e].concluded_at = "set" => exps'[e].concluded_at = "set",
           exps'[e].status = "completed" => exps'[e].concluded_at = "set"
    PROVE  /\ exps'[e].status = "completed" => exps'[e].concluded_at = "set"
           /\ exps'[e].winner # None =>
                 exps'[e].concluded_at = "set" /\ \E r \in Calls : Backs(r, e)'
BY BacksStays DEF WinnerBacked, WinnerChosen

LEMMA WinnerStep == Inv /\ WinnerInv /\ [Next]_vars => WinnerInv'
<1> SUFFICES ASSUME Inv, WinnerInv, [Next]_vars
             PROVE  WinnerInv'
  OBVIOUS
<1>1. AreFunctions /\ TablesTyped /\ WinnerBacked
  BY DEF Inv, WinnerInv
<1> DEFINE Backed(e) ==
        /\ exps'[e].status = "completed" => exps'[e].concluded_at = "set"
        /\ exps'[e].winner # None =>
              exps'[e].concluded_at = "set" /\ \E r \in Calls : Backs(r, e)'
<1>2. ASSUME NEW e \in Names, exps'[e] = exps[e]
      PROVE  Backed(e)
  BY <1>1, <1>2, WinnerRowKept DEF WinnerBacked, WinnerChosen
<1>3. ASSUME NEW r \in Calls, NEW e \in Names, NEW v \in Variants \cup {None}, Create(r, e, v),
             NEW f \in Names
      PROVE  Backed(f)
  <2>1. CASE exps'[f] = exps[f]
    BY <1>2, <2>1
  <2>2. CASE exps'[f] # exps[f]
    <3>1. exps'[f].status = "draft" /\ exps'[f].winner = None
      BY <1>1, <1>3, <2>2 DEF Create, TablesTyped
    <3> QED
      BY <3>1
  <2> QED
    BY <2>1, <2>2
<1>4. ASSUME NEW r \in Calls, Commit(r), NEW f \in Names
      PROVE  Backed(f)
  <2>1. PICK c \in LoadedCall : c = call[r] /\ c.loaded.status \in Admits(c.op)
    BY <1>4 DEF Inv, CallInv, CallTyped, Commit, Goto
  <2>2. CASE f # c.exp
    BY <1>1, <1>2, <1>4, <2>1, <2>2 DEF Commit, TablesTyped
  <2>3. CASE f = c.exp
    <3>1. PICK row \in Row : row = exps[f]
      BY <1>1, <1>4, <2>1, <2>3 DEF Inv, CallInv, CallFits, Commit, Goto, TablesTyped
    <3>2. PICK new : new = Written(row, c)
      OBVIOUS
    <3>3. exps'[f] = new
      BY <1>1, <1>4, <2>1, <2>3, <3>1, <3>2 DEF Commit, TablesTyped
    <3>4. new \in Row /\ Keeps(row, new)
      BY <2>1, <3>2, CommitWrites
    <3>5. row.status = "completed" => row.concluded_at = "set"
      BY <1>1, <3>1 DEF WinnerBacked, WinnerChosen
    <3>6. CASE c.op = "start"
      <4>1. new.status = "running" /\ new.winner = row.winner
        BY <3>2, <3>6 DEF Written, Row
      <4> QED
        BY <1>1, <3>1, <3>3, <3>4, <4>1, WinnerRowKept DEF Keeps
    <3>7. CASE c.op = "cancel"
      <4>1. new.winner = row.winner /\ new.status \in {row.status, "cancelled"}
        BY <2>1, <3>2, <3>7, CommitWrites
      <4> QED
        BY <1>1, <3>1, <3>3, <3>4, <3>5, <4>1, WinnerRowKept DEF Keeps
    <3>8. CASE c.op = "conclude"
      <4>1. PICK w : w = IF c.winner = c.loaded.winner THEN row.winner ELSE c.winner
        OBVIOUS
      <4>2. new.concluded_at = "set" /\ new.winner = w
        BY <3>2, <3>8, <4>1 DEF Written, Row
      <4>3. CASE w = row.winner
        BY <1>1, <3>1, <3>3, <3>4, <4>2, <4>3, WinnerRowKept DEF Keeps
      <4>4. CASE w = c.winner
        <5>1. /\ pc'[r] = "refresh" /\ call'[r] = c /\ reply'[r] = reply[r]
              /\ trials' = trials /\ pc[r] = "loaded"
          BY <1>1, <1>4, <2>1 DEF Commit, Goto, AreFunctions, IsFunction
        <5>2. reply[r].status # "400" /\ c.seen \subseteq trials
          BY <2>1, <5>1 DEF Inv, CallInv, Undecided, WinnerInv, SeenInv
        <5>3. Chose(r, f)'
          BY <2>3, <3>3, <3>8, <4>2, <4>4, <5>1, <5>2 DEF Chose, MayHaveCommitted
        <5>4. c.seen # {} /\ c.winner # None => Best(c.seen, c.winner)
          BY <2>1, <5>1 DEF WinnerInv, SeenInv
        <5>5. Best(call[r].seen, call[r].winner)' <=> Best(c.seen, c.winner)
          BY <5>1, BestFixed
        <5>6. new.winner # None => Backs(r, f)'
          BY <4>2, <4>4, <5>1, <5>3, <5>4, <5>5 DEF Backs
        <5> QED
          BY <3>3, <4>2, <5>6
      <4> QED
        BY <4>1, <4>3, <4>4
    <3> QED
      BY <2>1, <3>6, <3>7, <3>8 DEF LoadedCall
  <2> QED
    BY <2>2, <2>3
<1>5. ASSUME exps' = exps
      PROVE  \A e \in Names : Backed(e)
  BY <1>2, <1>5
<1>6. \A e \in Names : Backed(e)
  <2> HIDE DEF Backed
  <2> QED
    BY <1>3, <1>4, <1>5 DEF Next, vars, Load, Rank, RecordTrial, Refresh, Allocate, Fail
<1>7. WinnerBacked'
  BY <1>6 DEF WinnerBacked, WinnerChosen, Backs
<1>8. ASSUME NEW q \in Calls
      PROVE  SeenInv(q)'
  <2>0. SeenInv(q) /\ trials \subseteq trials'
    BY TrialsGrow DEF WinnerInv
  <2>1. ASSUME pc'[q] = pc[q], call'[q] = call[q]
        PROVE  SeenInv(q)'
    BY <2>0, <2>1, BestFixed DEF SeenInv
  <2>2. ASSUME NEW r \in Calls, NEW label, NEW c, Begin(r, label, c),
               label \in {"rank", "loaded"} => c.seen = {}
        PROVE  SeenInv(q)'
    <3>1. CASE r = q
      BY <1>1, <2>2, <3>1 DEF Begin, SeenInv, AreFunctions, IsFunction
    <3>2. CASE r # q
      BY <1>1, <2>1, <2>2, <3>2 DEF Begin, AreFunctions, IsFunction
    <3> QED
      BY <3>1, <3>2
  <2>3. ASSUME NEW r \in Calls, NEW e \in Names, NEW v \in Variants \cup {None}, Create(r, e, v)
        PROVE  SeenInv(q)'
    BY <2>2, <2>3 DEF Create, Answer
  <2>4. ASSUME NEW r \in Calls, NEW e \in Names, NEW op, NEW w, Load(r, e, op, w)
        PROVE  SeenInv(q)'
    <3>1. PICK row : row = exps[e]
      OBVIOUS
    <3> DEFINE c == [op |-> op, exp |-> e, loaded |-> row, winner |-> w, seen |-> {}]
    <3>2. c.seen = {}
      OBVIOUS
    <3> HIDE DEF c
    <3>3. \/ \E label \in {"rank", "loaded"} : Begin(r, label, c)
          \/ Begin(r, "answered", [op |-> op, exp |-> e])
      BY <2>4, <3>1 DEF Load, Answer, c
    <3> QED
      BY <2>2, <3>2, <3>3
  <2>5. ASSUME NEW r \in Calls, NEW e \in Names, NEW v, NEW s, RecordTrial(r, e, v, s) \/ Allocate(r, e)
        PROVE  SeenInv(q)'
    BY <2>2, <2>5 DEF RecordTrial, Allocate, Answer
  <2>6. ASSUME NEW r \in Calls, Commit(r) \/ Refresh(r) \/ Fail(r)
        PROVE  SeenInv(q)'
    <3>1. pc'[r] \in {"refresh", "answered"} /\ call' = call /\ (r # q => pc'[q] = pc[q])
      BY <1>1, <2>6 DEF Commit, Refresh, Fail, Goto, AreFunctions, IsFunction
    <3>2. CASE r = q
      BY <3>1, <3>2 DEF SeenInv
    <3> QED
      BY <2>1, <3>1, <3>2
  <2>7. ASSUME NEW r \in Calls, Rank(r)
        PROVE  SeenInv(q)'
    <3>1. PICK seen : seen = {t \in trials : t.exp = call[r].exp}
      OBVIOUS
    <3>2. PICK w \in IF Ranked(seen) = {} THEN {None} ELSE Leaders(seen) :
              call' = [call EXCEPT ![r].winner = w, ![r].seen = seen]
      BY <2>7, <3>1 DEF Rank
    <3>3. PICK old \in LoadedCall : old = call[r]
      BY <2>7 DEF Inv, Rank, Goto, CallInv, CallTyped
    <3>4. PICK c : c = [old EXCEPT !.winner = w, !.seen = seen]
      OBVIOUS
    <3>5. c.seen = seen /\ c.winner = w /\ seen \subseteq trials
      BY <3>1, <3>3, <3>4 DEF LoadedCall
    <3>9. w # None => Best(seen, w)
      <4>1. seen \in SUBSET Trial /\ IsFiniteSet(seen)
        BY <1>1, <3>5, FS_Subset DEF TablesTyped, WinnerInv
      <4> QED
        BY <3>2, <4>1, LeadersAreBest
    <3>6. call'[r] = c /\ trials' = trials /\ (r # q => pc'[q] = pc[q] /\ call'[q] = call[q])
      BY <1>1, <2>7, <3>2, <3>3, <3>4 DEF Rank, Goto, AreFunctions, IsFunction
    <3>7. CASE r = q
      BY <3>5, <3>6, <3>7, <3>9, BestFixed DEF SeenInv
    <3> QED
      BY <2>1, <3>6, <3>7
  <2>8. CASE UNCHANGED vars
    BY <2>1, <2>8 DEF vars
  <2> QED
    BY <2>3, <2>4, <2>5, <2>6, <2>7, <2>8 DEF Next
<1>9. IsFiniteSet(trials')
  <2>1. trials' = trials \/ \E t : trials' = trials \cup {t}
    BY DEF Next, vars, Create, Load, Rank, Commit, RecordTrial, Refresh, Allocate, Fail
  <2> QED
    BY <2>1, FS_AddElement DEF WinnerInv
<1> QED
  BY <1>7, <1>8, <1>9 DEF WinnerInv

LEMMA WinnerInvariant == Spec => [](WinnerInv)
<1>1. Init => WinnerInv
  BY FS_EmptySet DEF Init, WinnerInv, WinnerBacked, WinnerChosen, SeenInv, Absent
<1> QED
  BY <1>1, WinnerStep, Invariant, PTL DEF Spec

\* Whatever races with it, a recorded winner was chosen by a conclude that was not
\* refused, from trials that are on record, and comes with the mark of a conclusion
\* (ExperimentRunner.conclude writes the three together).
THEOREM WinnersAreChosen == Spec => []WinnerChosen
<1>1. WinnerInv => WinnerChosen
  BY DEF WinnerInv, WinnerBacked
<1> QED
  BY <1>1, WinnerInvariant, PTL

\* And that conclude was told the winner, or found it to have the best mean of the
\* trials it read, up to the decimal the means are rounded to: for any trials, scores
\* and ties, and whatever other conclude commits in between (get_results and
\* ExperimentRunner.conclude).
THEOREM WinnersAreBacked == Spec => []WinnerBacked
<1>1. WinnerInv => WinnerBacked
  BY DEF WinnerInv
<1> QED
  BY <1>1, WinnerInvariant, PTL

-----------------------------------------------------------------------------
(* Callers that take turns see the documented lifecycle: the row a call loaded *)
(* is still the row when it commits.                                           *)

OneOpen == \A q, r \in Open : q = r
AllFresh == \A r \in Calls : Fresh(r)
SerialInv == OneOpen /\ AllFresh

\* With one call in flight at most, a call begins only when none is.
LEMMA BeginsAlone ==
    ASSUME MaxOpen = 1, IsFiniteSet(Calls), Cardinality(Open) < MaxOpen
    PROVE  Open = {}
<1>1. IsFiniteSet(Open)
  BY FS_Subset DEF Open
<1>2. Cardinality(Open) = 0
  BY <1>1, FS_CardinalityType
<1> QED
  BY <1>1, <1>2, FS_EmptySet

LEMMA SerialStep ==
    ASSUME MaxOpen = 1, IsFiniteSet(Calls), Inv, SerialInv, [Next]_vars
    PROVE  SerialInv'
<1>1. AreFunctions /\ TablesTyped
  BY DEF Inv
\* A call that begins is the only one open; it has just loaded the row, if it did.
<1>2. ASSUME NEW r \in Calls, NEW label, NEW c, Begin(r, label, c),
             label \in {"rank", "loaded"} => c.loaded = exps[c.exp] /\ exps' = exps
      PROVE  SerialInv'
  <2>1. Open = {}
    BY <1>2, BeginsAlone DEF Begin
  <2>2. /\ pc'[r] = label /\ call'[r] = c
        /\ \A q \in Calls \ {r} : pc'[q] = pc[q] /\ call'[q] = call[q]
    BY <1>1, <1>2 DEF Begin, AreFunctions, IsFunction
  <2>3. \A q \in Calls \ {r} : pc'[q] \in {"idle", "answered"}
    BY <2>1, <2>2 DEF Open
  <2> QED
    BY <1>2, <2>2, <2>3 DEF SerialInv, OneOpen, AllFresh, Fresh, Open
\* A call that goes on leaves the others closed.
<1>3. ASSUME NEW r \in Calls, r \in Open, \A q \in Calls \ {r} : pc'[q] = pc[q],
             pc'[r] \in {"rank", "loaded"} => call'[r].loaded = exps'[call'[r].exp]
      PROVE  SerialInv'
  <2>1. \A q \in Calls \ {r} : pc'[q] \in {"idle", "answered"}
    BY <1>3 DEF SerialInv, OneOpen, Open
  <2> QED
    BY <1>3, <2>1 DEF SerialInv, OneOpen, AllFresh, Fresh, Open
<1>4. ASSUME NEW r \in Calls, NEW e \in Names, NEW v \in Variants \cup {None}, Create(r, e, v)
      PROVE  SerialInv'
  BY <1>2, <1>4 DEF Create, Answer
<1>5. ASSUME NEW r \in Calls, NEW e \in Names, NEW op, NEW w, Load(r, e, op, w)
      PROVE  SerialInv'
  <2>1. PICK row : row = exps[e]
    OBVIOUS
  <2> DEFINE c == [op |-> op, exp |-> e, loaded |-> row, winner |-> w, seen |-> {}]
  <2>2. c.loaded = row /\ c.exp = e
    OBVIOUS
  <2> HIDE DEF c
  <2>3. /\ exps' = exps
        /\ \/ \E label \in {"rank", "loaded"} : Begin(r, label, c)
           \/ Begin(r, "answered", [op |-> op, exp |-> e])
    BY <1>5, <2>1 DEF Load, Answer, c
  <2> QED
    BY <1>2, <2>1, <2>2, <2>3
<1>6. ASSUME NEW r \in Calls, Rank(r)
      PROVE  SerialInv'
  <2>1. PICK seen : seen = {t \in trials : t.exp = call[r].exp}
    OBVIOUS
  <2>2. PICK w : call' = [call EXCEPT ![r].winner = w, ![r].seen = seen]
    BY <1>6, <2>1 DEF Rank
  <2>3. PICK old \in LoadedCall : old = call[r]
    BY <1>6 DEF Inv, Rank, Goto, CallInv, CallTyped
  <2>4. PICK c : c = [old EXCEPT !.winner = w, !.seen = seen]
    OBVIOUS
  <2>5. c.exp = old.exp /\ c.loaded = old.loaded
    BY <2>3, <2>4 DEF LoadedCall
  <2>6. call'[r] = c /\ exps' = exps
    BY <1>1, <1>6, <2>2, <2>3, <2>4 DEF Rank, AreFunctions, IsFunction
  <2>7. pc[r] = "rank" /\ old.loaded = exps[old.exp] /\ r \in Open
        /\ \A q \in Calls \ {r} : pc'[q] = pc[q]
    BY <1>1, <1>6, <2>3 DEF SerialInv, AllFresh, Fresh, Rank, Goto, Open, AreFunctions, IsFunction
  <2> QED
    BY <1>3, <2>5, <2>6, <2>7
<1>7. ASSUME NEW r \in Calls, Commit(r) \/ Refresh(r) \/ Fail(r)
      PROVE  SerialInv'
  <2>1. /\ r \in Open /\ pc'[r] \in {"refresh", "answered"}
        /\ \A q \in Calls \ {r} : pc'[q] = pc[q]
    BY <1>1, <1>7 DEF Commit, Refresh, Fail, Goto, Open, AreFunctions, IsFunction
  <2> QED
    BY <1>3, <2>1
<1>8. ASSUME NEW r \in Calls, NEW e \in Names, NEW v, NEW s, RecordTrial(r, e, v, s) \/ Allocate(r, e)
      PROVE  SerialInv'
  BY <1>2, <1>8 DEF RecordTrial, Allocate, Answer
<1>9. CASE UNCHANGED vars
  BY <1>9 DEF vars, SerialInv, OneOpen, AllFresh, Fresh, Open
<1> QED
  BY <1>4, <1>5, <1>6, <1>7, <1>8, <1>9 DEF Next

\* A commit on the row it loaded is a step of the lifecycle.
LEMMA CommitIsLegal ==
    ASSUME Inv, NEW r \in Calls, Fresh(r), Commit(r)
    PROVE  [Lifecycle!Next]_(Lifecycle!vars)
<1>1. PICK c \in LoadedCall : c = call[r] /\ c.loaded.status \in Admits(c.op)
  BY DEF Inv, CallInv, CallTyped, Commit, Goto
<1>2. PICK e \in Names : e = c.exp
  BY <1>1 DEF LoadedCall
<1>3. PICK row \in Row : row = exps[e] /\ c.loaded = row
  BY <1>1, <1>2 DEF Fresh, Commit, Goto, LoadedCall
<1>4. PICK new : new = Written(row, c)
  OBVIOUS
<1>5. exps' = [exps EXCEPT ![e] = new]
  BY <1>1, <1>2, <1>3, <1>4 DEF Commit, Inv, TablesTyped
<1>6. /\ StatusView' = [StatusView EXCEPT ![e] = new.status]
      /\ WinnerView' = [WinnerView EXCEPT ![e] = new.winner]
      /\ StatusView[e] = row.status /\ WinnerView[e] = row.winner
  BY <1>3, <1>5 DEF StatusView, WinnerView, Inv, TablesTyped
<1>7. CASE c.op = "start"
  <2>1. row.status = "draft" /\ new.status = "running" /\ new.winner = row.winner
    BY <1>1, <1>3, <1>4, <1>7 DEF Written, Admits, Row
  <2>2. WinnerView' = WinnerView
    BY <1>6, <2>1 DEF WinnerView
  <2>3. Lifecycle!Start(e)
    BY <1>6, <2>1, <2>2 DEF Lifecycle!Start, Lifecycle!Move
  <2> QED
    BY <2>3 DEF Lifecycle!Next
<1>8. CASE c.op = "conclude"
  <2>1. row.status = "running" /\ new.status = "completed" /\ new.winner = c.winner
    BY <1>1, <1>3, <1>4, <1>8 DEF Written, Admits, Row
  <2>2. Lifecycle!Conclude(e, c.winner)
    BY <1>6, <2>1 DEF Lifecycle!Conclude, Lifecycle!Move
  <2>3. c.winner \in Variants \cup {None}
    BY DEF LoadedCall
  <2> QED
    BY <2>2, <2>3 DEF Lifecycle!Next
<1>9. CASE c.op = "cancel"
  <2>1. new.winner = row.winner
    BY <1>1, <1>4, <1>9, CommitWrites
  <2>2. WinnerView' = WinnerView
    BY <1>6, <2>1 DEF WinnerView
  <2>3. CASE row.status = "cancelled"
    <3>1. new.status = row.status
      BY <1>3, <1>4, <1>9, <2>3 DEF Written, Row
    <3>2. StatusView' = StatusView
      BY <1>6, <3>1 DEF StatusView
    <3> QED
      BY <2>2, <3>2 DEF Lifecycle!vars
  <2>4. CASE row.status \in {"draft", "running", "completed"}
    <3>1. new.status = "cancelled"
      BY <1>3, <1>4, <1>9, <2>4 DEF Written, Row
    <3>2. Lifecycle!Cancel(e)
      BY <1>6, <2>2, <2>4, <3>1 DEF Lifecycle!Cancel, Lifecycle!Move
    <3> QED
      BY <3>2 DEF Lifecycle!Next
  <2> QED
    BY <2>3, <2>4 DEF Row, Statuses
<1> QED
  BY <1>7, <1>8, <1>9 DEF LoadedCall

LEMMA LifecycleStep ==
    ASSUME Inv, \A r \in Calls : pc'[r] # pc[r] => Fresh(r), [Next]_vars
    PROVE  [Lifecycle!Next]_(Lifecycle!vars)
<1>1. ASSUME exps' = exps
      PROVE  Lifecycle!vars' = Lifecycle!vars
  BY <1>1 DEF Lifecycle!vars, StatusView, WinnerView
<1>2. ASSUME NEW r \in Calls, NEW e \in Names, NEW v \in Variants \cup {None}, Create(r, e, v)
      PROVE  [Lifecycle!Next]_(Lifecycle!vars)
  <2>1. CASE exps' = exps
    BY <1>1, <2>1
  <2>2. CASE /\ exps[e] = Absent
             /\ exps' = [exps EXCEPT ![e] = [status |-> "draft", winner |-> None,
                                             concluded_at |-> "null", slot |-> v]]
    <3>0. /\ \A f \in Names \ {e} : exps'[f] = exps[f]
          /\ exps'[e].status = "draft" /\ exps'[e].winner = None
          /\ exps[e].status = "absent" /\ exps[e].winner = None
      BY <2>2 DEF Inv, TablesTyped, Absent
    <3>1. /\ StatusView' = [StatusView EXCEPT ![e] = "draft"] /\ WinnerView' = WinnerView
          /\ StatusView[e] = "absent"
      BY <3>0 DEF StatusView, WinnerView
    <3>2. Lifecycle!Create(e)
      BY <3>1 DEF Lifecycle!Create, Lifecycle!Move
    <3> QED
      BY <3>2 DEF Lifecycle!Next
  <2> QED
    BY <1>2, <2>1, <2>2 DEF Create
<1>3. ASSUME NEW r \in Calls, Commit(r)
      PROVE  [Lifecycle!Next]_(Lifecycle!vars)
  <2>1. pc'[r] # pc[r]
    BY <1>3 DEF Commit, Goto, Inv, AreFunctions, IsFunction
  <2> QED
    BY <1>3, <2>1, CommitIsLegal
<1> QED
  BY <1>1, <1>2, <1>3 DEF Next, vars, Load, Rank, RecordTrial, Refresh, Allocate, Fail

\* However calls race, one that commits on the row it loaded (the row nobody has
\* written since its status check) takes a step of the documented lifecycle.
THEOREM FreshCallsTakeLifecycleSteps == Spec => FreshCallsFollow
<1>1. Inv /\ [Next]_vars =>
         [(\A r \in Calls : pc'[r] # pc[r] => Fresh(r)) => [Lifecycle!Next]_(Lifecycle!vars)]_vars
  BY LifecycleStep
<1> QED
  BY <1>1, Invariant, PTL DEF Spec, FreshCallsFollow

\* When at most one call is in flight, the status checks of ExperimentRunner make
\* every experiment go through the documented lifecycle, whatever fails on the way.
THEOREM TurnsGiveTheLifecycle ==
    ASSUME MaxOpen = 1, IsFiniteSet(Calls)
    PROVE  Spec => LifecycleSpec
<1>1. Init => SerialInv
  BY DEF Init, SerialInv, OneOpen, AllFresh, Fresh, Open
<1>2. Inv /\ SerialInv /\ [Next]_vars => SerialInv'
  BY SerialStep
<1>3. Inv /\ SerialInv /\ [Next]_vars => [Lifecycle!Next]_(Lifecycle!vars)
  BY LifecycleStep DEF SerialInv, AllFresh
<1>4. Init => Lifecycle!Init
  BY DEF Init, Lifecycle!Init, StatusView, WinnerView, Absent
<1> QED
  BY <1>1, <1>2, <1>3, <1>4, Invariant, PTL DEF Spec, LifecycleSpec, Lifecycle!Spec
=============================================================================
