------------------------- MODULE PromptStoreProofs -------------------------
(* Proofs about the prompt store, for any number of prompts and calls.        *)
EXTENDS PromptStore, TLAPS

-----------------------------------------------------------------------------
(* The table of versions. *)

\* The rows of a prompt are numbered 1..n, once each, and there is a row exactly
\* when the prompt exists.
Numbered(p) ==
    /\ \E n \in Nat : Versions(p) = 1..n
    /\ \A x, y \in versions[p] : x.version = y.version => x = y
    /\ p \in prompts <=> versions[p] # {}

LEMMA MaxOfRange ==
    ASSUME NEW p, NEW n \in Nat, Versions(p) = 1..n
    PROVE  MaxVersion(p) = n
<1>1. n \in Versions(p) \cup {0} /\ \A k \in Versions(p) : k <= n
  <2>1. n = 0 \/ n \in 1..n
    OBVIOUS
  <2> QED
    BY <2>1
<1>2. ASSUME NEW m \in Versions(p) \cup {0}, \A k \in Versions(p) : k <= m
      PROVE  m = n
  <2>1. m \in Nat /\ m <= n
    OBVIOUS
  <2>2. n <= m
    BY <1>1, <1>2, <2>1
  <2> QED
    BY <2>1, <2>2
<1> QED
  BY <1>1, <1>2 DEF MaxVersion

LEMMA ContiguousParts ==
    (\A p \in Prompts : Numbered(p)) => Contiguous
BY MaxOfRange DEF Numbered, Contiguous

LEMMA RowOfVersion ==
    ASSUME NEW p, NEW v \in Versions(p)
    PROVE  RowOf(p, v) \in versions[p] /\ RowOf(p, v).version = v
BY DEF RowOf, Versions

-----------------------------------------------------------------------------
(* The inductive invariant: the table is numbered, and what a call has read is *)
(* still true in the way its commit needs it.                                  *)

Open == {"flushed", "read", "loaded", "refresh"}

\* A number read before the commit may be taken meanwhile, but every number below
\* it is; a name that was flushed is not committed by anyone else.
CallFits(r) ==
    LET c == call[r] IN
    /\ pc[r] = "flushed" => c.op = "create" /\ c.version = 1 /\ c.prompt \notin prompts
    /\ pc[r] = "read" =>
          /\ c.op = "version" /\ c.prompt \in prompts /\ c.version # 0
          /\ 1..(c.version - 1) \subseteq Versions(c.prompt)
    /\ pc[r] = "loaded" => c.op = "promote" /\ c.version \in Versions(c.prompt)
    /\ pc[r] = "refresh" =>
          /\ c.version \in Versions(c.prompt)
          /\ c.op # "promote" => \E x \in versions[c.prompt] : x.version = c.version /\ x.template = r

OneCreator == \A q, r \in Requests :
    pc[q] = "flushed" /\ pc[r] = "flushed" /\ call[q].prompt = call[r].prompt => q = r

StoreInv ==
    /\ TypeOK
    /\ \A p \in Prompts : Numbered(p)
    /\ \A r \in Requests : CallFits(r)
    /\ OneCreator
    /\ OwnVersion

-----------------------------------------------------------------------------
(* What a step does to the table: nothing, one row appended, or one row's      *)
(* environment changed.                                                        *)

Appends(p, n, r) ==
    /\ n \notin Versions(p) /\ 1..(n - 1) \subseteq Versions(p) /\ n \in Nat \ {0}
    /\ versions' = [versions EXCEPT ![p] = @ \cup {NewRow(r, n)}]
    /\ prompts' = prompts \cup {p}

Relabels(p, v, e) ==
    /\ v \in Versions(p)
    /\ versions' = [versions EXCEPT ![p] =
           (@ \ {RowOf(p, v)}) \cup {[RowOf(p, v) EXCEPT !.env = e]}]
    /\ prompts' = prompts

SameTable == prompts' = prompts /\ versions' = versions

TableStep ==
    \/ SameTable
    \/ \E p \in Prompts, n \in Nat, r \in Requests : Appends(p, n, r)
    \/ \E p \in Prompts, v \in Nat, e \in Envs : Relabels(p, v, e)

\* Rows are never lost, and keep their number and template.
RowsKept == \A p \in Prompts : \A x \in versions[p] : \E y \in versions'[p] :
    y.version = x.version /\ y.template = x.template

LEMMA StepTable == StoreInv /\ [Next]_vars => TableStep
<1> SUFFICES ASSUME StoreInv, [Next]_vars
             PROVE  TableStep
  OBVIOUS
<1> USE DEF StoreInv, TypeOK
<1>1. ASSUME NEW r \in Requests, CreateCommit(r)
      PROVE  TableStep
  <2> DEFINE p == call[r].prompt
  <2>1. p \in Prompts /\ p \notin prompts
    BY <1>1 DEF CreateCommit, Committed, CallFits
  <2>2. Versions(p) = {}
    BY <2>1 DEF Numbered, Versions
  <2>3. Appends(p, 1, r)
    BY <1>1, <2>2 DEF CreateCommit, Appends
  <2> QED
    BY <2>1, <2>3 DEF TableStep
<1>2. ASSUME NEW r \in Requests, InsertVersion(r)
      PROVE  TableStep
  <2> DEFINE p == call[r].prompt
             n == call[r].version
  <2>1. /\ p \in Prompts /\ p \in prompts /\ n \in Nat \ {0}
        /\ 1..(n - 1) \subseteq Versions(p) /\ n \notin Versions(p)
    BY <1>2 DEF InsertVersion, Committed, CallFits
  <2>2. Appends(p, n, r)
    BY <1>2, <2>1 DEF InsertVersion, Appends
  <2> QED
    BY <2>1, <2>2 DEF TableStep
<1>3. ASSUME NEW r \in Requests, CommitPromote(r)
      PROVE  TableStep
  <2> DEFINE c == call[r]
  <2>1. /\ c.prompt \in Prompts /\ c.version \in Nat /\ c.env \in Envs
        /\ c.version \in Versions(c.prompt)
    BY <1>3 DEF CommitPromote, Committed, CallFits
  <2>2. SameTable \/ Relabels(c.prompt, c.version, c.env)
    BY <1>3, <2>1 DEF CommitPromote, SameTable, Relabels
  <2> QED
    BY <2>1, <2>2 DEF TableStep
<1>4. ASSUME NEW r \in Requests, InsertConflict(r) \/ Refresh(r) \/ Fail(r)
      PROVE  TableStep
  BY <1>4 DEF InsertConflict, Refresh, Fail, TableStep, SameTable
<1>5. ASSUME NEW r \in Requests, NEW p \in Prompts,
             \/ CreateFlush(r, p) \/ ReadMax(r, p)
             \/ \E v \in 1..Cardinality(Requests), e \in Inputs : LoadVersion(r, p, v, e)
      PROVE  TableStep
  BY <1>5 DEF CreateFlush, ReadMax, LoadVersion, TableStep, SameTable
<1>6. CASE UNCHANGED vars
  BY <1>6 DEF vars, TableStep, SameTable
<1> QED
  BY <1>1, <1>2, <1>3, <1>4, <1>5, <1>6 DEF Next

LEMMA TableKept ==
    ASSUME TypeOK, \A p \in Prompts : Numbered(p), TableStep
    PROVE  /\ DOMAIN versions' = Prompts
           /\ prompts' \subseteq Prompts /\ prompts \subseteq prompts'
           /\ \A p \in Prompts : versions'[p] \subseteq Row /\ Numbered(p)'
           /\ RowsKept
           /\ \A p \in Prompts : Versions(p) \subseteq Versions(p)'
<1> USE DEF TypeOK
<1>0. DOMAIN versions = Prompts /\ \A p \in Prompts : versions[p] \subseteq Row
  OBVIOUS
<1>1. CASE SameTable
  BY <1>1 DEF SameTable, RowsKept, Numbered, Versions
<1>2. ASSUME NEW p \in Prompts, NEW n \in Nat, NEW r \in Requests, Appends(p, n, r)
      PROVE  /\ DOMAIN versions' = Prompts
             /\ prompts' \subseteq Prompts /\ prompts \subseteq prompts'
             /\ \A q \in Prompts : versions'[q] \subseteq Row /\ Numbered(q)'
             /\ RowsKept
             /\ \A q \in Prompts : Versions(q) \subseteq Versions(q)'
  <2>1. /\ DOMAIN versions' = Prompts
        /\ versions'[p] = versions[p] \cup {NewRow(r, n)}
        /\ \A q \in Prompts \ {p} : versions'[q] = versions[q]
        /\ prompts' = prompts \cup {p}
    BY <1>0, <1>2 DEF Appends
  <2>2. NewRow(r, n) \in Row /\ NewRow(r, n).version = n
    BY DEF NewRow, Row, Envs
  <2>3. Versions(p)' = Versions(p) \cup {n}
    BY <2>1, <2>2 DEF Versions
  <2>4. PICK m \in Nat : Versions(p) = 1..m
    BY DEF Numbered
  <2>5. n = m + 1
    BY <1>2, <2>4 DEF Appends
  <2>6. Versions(p)' = 1..(m + 1)
    BY <2>3, <2>4, <2>5
  <2>7. \A x, y \in versions'[p] : x.version = y.version => x = y
    BY <1>2, <2>1, <2>2 DEF Appends, Numbered, Versions
  <2>8. Numbered(p)'
    BY <2>1, <2>4, <2>6, <2>7 DEF Numbered
  <2>9. \A q \in Prompts \ {p} : Numbered(q)' /\ Versions(q)' = Versions(q)
    BY <2>1 DEF Numbered, Versions
  <2> QED
    BY <1>0, <2>1, <2>2, <2>3, <2>8, <2>9 DEF RowsKept
<1>3. ASSUME NEW p \in Prompts, NEW v \in Nat, NEW e \in Envs, Relabels(p, v, e)
      PROVE  /\ DOMAIN versions' = Prompts
             /\ prompts' \subseteq Prompts /\ prompts \subseteq prompts'
             /\ \A q \in Prompts : versions'[q] \subseteq Row /\ Numbered(q)'
             /\ RowsKept
             /\ \A q \in Prompts : Versions(q) \subseteq Versions(q)'
  <2> DEFINE old == RowOf(p, v)
             new == [old EXCEPT !.env = e]
  <2>1. /\ DOMAIN versions' = Prompts
        /\ versions'[p] = (versions[p] \ {old}) \cup {new}
        /\ \A q \in Prompts \ {p} : versions'[q] = versions[q]
        /\ prompts' = prompts
    BY <1>0, <1>3 DEF Relabels
  <2>2. old \in versions[p] /\ old \in Row
    BY <1>0, <1>3, RowOfVersion DEF Relabels
  <2>3. new \in Row /\ new.version = old.version /\ new.template = old.template
    BY <2>2 DEF Row
  <2> HIDE DEF old, new
  <2>4. Versions(p)' = Versions(p)
    BY <2>1, <2>2, <2>3 DEF Versions
  <2>5. \A x, y \in versions'[p] : x.version = y.version => x = y
    BY <2>1, <2>2, <2>3 DEF Numbered
  <2>6. Numbered(p)'
    BY <2>1, <2>2, <2>4, <2>5 DEF Numbered
  <2>7. \A q \in Prompts \ {p} : Numbered(q)' /\ Versions(q)' = Versions(q)
    BY <2>1 DEF Numbered, Versions
  <2>8. RowsKept
    BY <2>1, <2>2, <2>3 DEF RowsKept
  <2> QED
    BY <1>0, <2>1, <2>3, <2>4, <2>6, <2>7, <2>8
<1> QED
  BY <1>1, <1>2, <1>3 DEF TableStep

-----------------------------------------------------------------------------
(* The calls. Every action moves one call r; the others keep what they know.   *)

Labels == {"idle", "read", "flushed", "loaded", "refresh", "answered"}
Statuses == {"none", "ok", "400", "404", "500"}

CallTyped(r) ==
    /\ pc[r] \in Labels
    /\ pc[r] = "idle" => call[r] = NoCall
    /\ pc[r] \in Open =>
          /\ call[r].op \in Ops /\ call[r].prompt \in Prompts
          /\ call[r].version \in Nat
    /\ pc[r] = "loaded" => {call[r].env, call[r].loaded} \subseteq Envs
    /\ reply[r].status \in Statuses

Owns(r) == reply[r].status = "ok" /\ call[r].op # "promote" =>
    /\ reply[r].row.template = r
    /\ \E x \in versions[call[r].prompt] : x.version = reply[r].row.version /\ x.template = r

\* An answered call's prompt is a prompt, so the table's facts apply to it.
AnswerFits(r) == reply[r].status = "ok" => pc[r] = "answered" /\ call[r].prompt \in Prompts

CallInv(r) == CallTyped(r) /\ CallFits(r) /\ Owns(r) /\ AnswerFits(r)

TableInv ==
    /\ prompts \subseteq Prompts
    /\ DOMAIN versions = Prompts /\ \A p \in Prompts : versions[p] \subseteq Row /\ Numbered(p)

IsFunction(f) == f = [r \in Requests |-> f[r]]
Functions == IsFunction(pc) /\ IsFunction(call) /\ IsFunction(reply)

\* The inductive invariant, split by table and call.
Inv == TableInv /\ Functions /\ OneCreator /\ \A r \in Requests : CallInv(r)

LEMMA InvParts == Inv => StoreInv /\ Contiguous
<1> SUFFICES ASSUME Inv
             PROVE  StoreInv /\ Contiguous
  OBVIOUS
<1>1. pc \in [Requests -> Labels]
  BY DEF Inv, Functions, IsFunction, CallInv, CallTyped
<1>2. TypeOK
  BY <1>1 DEF Inv, TableInv, Functions, IsFunction, CallInv, CallTyped, TypeOK, Labels, Open, Statuses
<1>3. OwnVersion
  BY DEF Inv, CallInv, Owns, OwnVersion
<1> QED
  BY <1>2, <1>3, ContiguousParts DEF Inv, TableInv, CallInv, StoreInv

LEMMA OthersKeep ==
    ASSUME Inv, RowsKept, \A p \in Prompts : Versions(p) \subseteq Versions(p)',
           prompts \subseteq prompts', NEW q \in Requests,
           pc'[q] = pc[q], call'[q] = call[q], reply'[q] = reply[q],
           pc[q] = "flushed" => call[q].prompt \notin prompts'
    PROVE  CallInv(q)'
<1>1. CallInv(q)
  BY DEF Inv
<1>2. CallTyped(q)' /\ AnswerFits(q)'
  BY <1>1 DEF CallInv, CallTyped, AnswerFits
<1>3. pc[q] \in Open => call[q].prompt \in Prompts
  BY <1>1 DEF CallInv, CallTyped
<1>4. CallFits(q)'
  BY <1>1, <1>3 DEF CallInv, CallFits, RowsKept, Open
<1>5. Owns(q)'
  <2> SUFFICES ASSUME reply[q].status = "ok", call[q].op # "promote"
               PROVE  /\ reply[q].row.template = q
                      /\ \E y \in versions'[call[q].prompt] :
                            y.version = reply[q].row.version /\ y.template = q
    BY DEF Owns
  <2>1. call[q].prompt \in Prompts /\ reply[q].row.template = q
    BY <1>1 DEF CallInv, AnswerFits, Owns
  <2>2. PICK x \in versions[call[q].prompt] : x.version = reply[q].row.version /\ x.template = q
    BY <1>1 DEF CallInv, Owns
  <2> QED
    BY <2>1, <2>2 DEF RowsKept
<1> QED
  BY <1>2, <1>4, <1>5 DEF CallInv

\* Only call r moves.
Moves(r) ==
    /\ Functions'
    /\ \A q \in Requests \ {r} : pc'[q] = pc[q] /\ call'[q] = call[q] /\ reply'[q] = reply[q]

LEMMA Moved ==
    ASSUME Functions, NEW r \in Requests, NEW label, NEW c, NEW a,
           pc' = [pc EXCEPT ![r] = label], call' = [call EXCEPT ![r] = c],
           reply' = [reply EXCEPT ![r] = a]
    PROVE  Moves(r)
BY DEF Moves, Functions, IsFunction

LEMMA InvStep == Inv /\ [Next]_vars => Inv'
<1> SUFFICES ASSUME Inv, [Next]_vars
             PROVE  Inv'
  OBVIOUS
<1>0. StoreInv /\ TableStep /\ TypeOK
  BY InvParts, StepTable DEF StoreInv
<1>1. /\ TableInv' /\ RowsKept /\ prompts \subseteq prompts'
      /\ \A p \in Prompts : Versions(p) \subseteq Versions(p)'
  BY <1>0, TableKept DEF Inv, TableInv
\* It remains to follow the call that moves.
<1>2. ASSUME NEW r \in Requests, Moves(r), CallInv(r)',
             \A q \in Requests \ {r} : pc[q] = "flushed" =>
                 /\ call[q].prompt \notin prompts'
                 /\ pc'[r] = "flushed" => call[q].prompt # call'[r].prompt
      PROVE  Inv'
  <2>1. \A q \in Requests : CallInv(q)'
    BY <1>1, <1>2, OthersKeep DEF Moves
  <2>2. OneCreator'
    BY <1>2 DEF Inv, OneCreator, Moves
  <2> QED
    BY <1>1, <1>2, <2>1, <2>2 DEF Inv, Moves
<1>3. ASSUME NEW r \in Requests
      PROVE  /\ CallInv(r)
             /\ call = [call EXCEPT ![r] = call[r]] /\ reply = [reply EXCEPT ![r] = reply[r]]
             /\ \A label : [pc EXCEPT ![r] = label][r] = label
             /\ \A c : [call EXCEPT ![r] = c][r] = c
             /\ \A a : [reply EXCEPT ![r] = a][r] = a
             /\ \A q \in Requests : pc[q] = "flushed" => call[q].prompt \notin prompts
  BY DEF Inv, Functions, IsFunction, CallInv, CallFits
\* A refused call has nothing to keep.
<1>4. ASSUME NEW r \in Requests, NEW from, NEW status \in Statuses \ {"ok"},
             Refuse(r, from, status), call' = call, prompts' = prompts
      PROVE  Inv'
  <2>1. /\ pc' = [pc EXCEPT ![r] = "answered"] /\ reply' = [reply EXCEPT ![r] = Answer(status)]
        /\ call' = [call EXCEPT ![r] = call[r]]
    BY <1>3, <1>4 DEF Refuse
  <2>2. pc'[r] = "answered" /\ reply'[r] = Answer(status)
    BY <1>3, <2>1
  <2>3. CallInv(r)'
    BY <2>2 DEF CallInv, CallTyped, CallFits, Owns, AnswerFits, Answer, Labels, Open, Statuses
  <2>4. Moves(r)
    BY <2>1, Moved DEF Inv
  <2> QED
    BY <1>2, <1>3, <1>4, <2>2, <2>3, <2>4
\* A call that began has an open label and no answer yet.
<1>5. ASSUME NEW r \in Requests, NEW label \in {"flushed", "read", "loaded"}, NEW c,
             Begin(r, label, c), reply' = reply, prompts' = prompts,
             c.op \in Ops, c.prompt \in Prompts, c.version \in Nat,
             label = "loaded" => {c.env, c.loaded} \subseteq Envs,
             CallFits(r)',
             label = "flushed" => \A q \in Requests : pc[q] = "flushed" => call[q].prompt # c.prompt
      PROVE  Inv'
  <2>1. /\ pc' = [pc EXCEPT ![r] = label] /\ call' = [call EXCEPT ![r] = c]
        /\ reply' = [reply EXCEPT ![r] = reply[r]]
        /\ pc[r] = "idle"
    BY <1>3, <1>5 DEF Begin
  <2>2. pc'[r] = label /\ call'[r] = c /\ reply'[r] = reply[r]
    BY <1>3, <2>1
  <2>3. reply[r].status # "ok" /\ reply[r].status \in Statuses
    BY <1>3, <2>1 DEF CallInv, AnswerFits, CallTyped
  <2>4. CallInv(r)'
    BY <1>5, <2>2, <2>3 DEF CallInv, CallTyped, Owns, AnswerFits, Labels, Open
  <2>5. Moves(r)
    BY <2>1, Moved DEF Inv
  <2> QED
    BY <1>2, <1>3, <1>5, <2>2, <2>4, <2>5
\* A call that committed has its row in the table.
<1>6. ASSUME NEW r \in Requests, NEW from \in Open, Committed(r, from, call[r]),
             call[r].version \in Versions(call[r].prompt)',
             call[r].op # "promote" =>
                \E x \in versions'[call[r].prompt] : x.version = call[r].version /\ x.template = r,
             \A q \in Requests \ {r} : pc[q] = "flushed" => call[q].prompt \notin prompts'
      PROVE  Inv'
  <2>1. /\ pc' = [pc EXCEPT ![r] = "refresh"] /\ call' = [call EXCEPT ![r] = call[r]]
        /\ reply' = [reply EXCEPT ![r] = reply[r]] /\ call' = call
        /\ pc[r] \in Open
    BY <1>3, <1>6 DEF Committed
  <2>2. pc'[r] = "refresh" /\ call'[r] = call[r] /\ reply'[r] = reply[r]
    BY <1>3, <2>1
  <2>3. reply[r].status # "ok" /\ reply[r].status \in Statuses
        /\ call[r].op \in Ops /\ call[r].prompt \in Prompts /\ call[r].version \in Nat
    BY <1>3, <2>1 DEF CallInv, AnswerFits, CallTyped, Open
  <2>4. CallTyped(r)' /\ Owns(r)' /\ AnswerFits(r)'
    BY <2>2, <2>3 DEF CallTyped, Owns, AnswerFits, Labels, Open
  <2>5. CallFits(r)'
    BY <1>6, <2>2 DEF CallFits
  <2>6. Moves(r)
    BY <2>1, Moved DEF Inv
  <2> QED
    BY <1>2, <1>6, <2>2, <2>4, <2>5, <2>6 DEF CallInv
<1>7. ASSUME NEW r \in Requests, NEW p \in Prompts, CreateFlush(r, p)
      PROVE  Inv'
  <2>1. CASE Refuse(r, "idle", "400") /\ call' = call
    BY <1>4, <1>7, <2>1 DEF CreateFlush, Statuses
  <2>2. CASE p \notin prompts /\ reply' = reply
             /\ Begin(r, "flushed", [op |-> "create", prompt |-> p, version |-> 1])
    <3> DEFINE c == [op |-> "create", prompt |-> p, version |-> 1]
    <3>1. c.op = "create" /\ c.prompt = p /\ c.version = 1
      OBVIOUS
    <3> HIDE DEF c
    <3>2. pc'[r] = "flushed" /\ call'[r] = c /\ prompts' = prompts
      BY <1>3, <1>7, <2>2 DEF Begin, CreateFlush, c
    <3>3. CallFits(r)'
      BY <2>2, <3>1, <3>2 DEF CallFits
    <3>4. Begin(r, "flushed", c)
      BY <2>2 DEF c
    <3> QED
      BY <1>5, <1>7, <2>2, <3>1, <3>2, <3>3, <3>4 DEF CreateFlush, Ops
  <2> QED
    BY <1>7, <2>1, <2>2 DEF CreateFlush
<1>8. ASSUME NEW r \in Requests, NEW p \in Prompts, ReadMax(r, p)
      PROVE  Inv'
  <2>1. CASE Refuse(r, "idle", "404") /\ call' = call
    BY <1>4, <1>8, <2>1 DEF ReadMax, Statuses
  <2>2. CASE p \in prompts /\ reply' = reply
             /\ Begin(r, "read", [op |-> "version", prompt |-> p, version |-> MaxVersion(p) + 1])
    <3>1. PICK n \in Nat : Versions(p) = 1..n
      BY DEF Inv, TableInv, Numbered
    <3>2. MaxVersion(p) = n
      BY <3>1, MaxOfRange
    <3> DEFINE c == [op |-> "version", prompt |-> p, version |-> n + 1]
    <3>3. c.op = "version" /\ c.prompt = p /\ c.version = n + 1
      OBVIOUS
    <3>4. Begin(r, "read", c)
      BY <2>2, <3>2
    <3> HIDE DEF c
    <3>5. pc'[r] = "read" /\ call'[r] = c /\ prompts' = prompts /\ versions' = versions
      BY <1>3, <1>8, <3>4 DEF Begin, ReadMax
    <3>6. CallFits(r)'
      BY <2>2, <3>1, <3>3, <3>5 DEF CallFits, Versions
    <3> QED
      BY <1>5, <2>2, <3>3, <3>4, <3>5, <3>6 DEF Ops
  <2> QED
    BY <1>8, <2>1, <2>2 DEF ReadMax
<1>9. ASSUME NEW r \in Requests, NEW p \in Prompts, NEW v \in Nat, NEW e \in Inputs,
             LoadVersion(r, p, v, e)
      PROVE  Inv'
  <2>1. CASE Refuse(r, "idle", "400") /\ call' = call
    BY <1>4, <1>9, <2>1 DEF LoadVersion, Statuses
  <2>2. CASE e \in Envs /\ v \in Versions(p) /\ reply' = reply
             /\ Begin(r, "loaded", [op |-> "promote", prompt |-> p, version |-> v,
                                    env |-> e, loaded |-> RowOf(p, v).env])
    <3> DEFINE l == RowOf(p, v).env
               c == [op |-> "promote", prompt |-> p, version |-> v, env |-> e, loaded |-> l]
    <3>1. l \in Envs
      BY <2>2, RowOfVersion DEF Inv, TableInv, Row
    <3>2. Begin(r, "loaded", c)
      BY <2>2
    <3> HIDE DEF l
    <3>3. c.op = "promote" /\ c.prompt = p /\ c.version = v /\ c.env = e /\ c.loaded = l
      OBVIOUS
    <3> HIDE DEF c
    <3>4. pc'[r] = "loaded" /\ call'[r] = c /\ prompts' = prompts /\ versions' = versions
      BY <1>3, <1>9, <3>2 DEF Begin, LoadVersion
    <3>5. CallFits(r)'
      BY <2>2, <3>3, <3>4 DEF CallFits, Versions
    <3> QED
      BY <1>5, <2>2, <3>1, <3>2, <3>3, <3>4, <3>5 DEF Ops
  <2> QED
    BY <1>9, <2>1, <2>2 DEF LoadVersion
<1>10. ASSUME NEW r \in Requests, InsertConflict(r) \/ Fail(r)
       PROVE  Inv'
  BY <1>4, <1>10 DEF InsertConflict, Fail, Statuses
<1>11. ASSUME NEW r \in Requests, CreateCommit(r)
       PROVE  Inv'
  <2> DEFINE p == call[r].prompt
  <2>1. /\ pc[r] = "flushed" /\ p \in Prompts /\ call[r].version = 1
        /\ Committed(r, "flushed", call[r])
    BY <1>3, <1>11 DEF CreateCommit, Committed, CallInv, CallTyped, CallFits, Open
  <2>2. NewRow(r, 1) \in versions'[p] /\ prompts' = prompts \cup {p}
    BY <1>11, <2>1 DEF CreateCommit, Inv, TableInv
  <2>3. NewRow(r, 1).version = 1 /\ NewRow(r, 1).template = r
    BY DEF NewRow
  <2>4. \A q \in Requests \ {r} : pc[q] = "flushed" => call[q].prompt \notin prompts'
    BY <1>3, <2>1, <2>2 DEF Inv, OneCreator
  <2>5. call[r].version \in Versions(call[r].prompt)'
    BY <1>3, <1>11, <2>1, <2>2, <2>3 DEF Versions, CreateCommit, Committed
  <2> QED
    BY <1>6, <2>1, <2>2, <2>3, <2>4, <2>5 DEF Open
<1>12. ASSUME NEW r \in Requests, InsertVersion(r)
       PROVE  Inv'
  <2> DEFINE p == call[r].prompt
             n == call[r].version
  <2>1. pc[r] = "read" /\ p \in Prompts /\ Committed(r, "read", call[r])
    BY <1>3, <1>12 DEF InsertVersion, Committed, CallInv, CallTyped, Open
  <2>2. NewRow(r, n) \in versions'[p] /\ prompts' = prompts
    BY <1>12, <2>1 DEF InsertVersion, Inv, TableInv
  <2>3. NewRow(r, n).version = n /\ NewRow(r, n).template = r
    BY DEF NewRow
  <2>4. call[r].version \in Versions(call[r].prompt)'
    BY <1>3, <1>12, <2>1, <2>2, <2>3 DEF Versions, InsertVersion, Committed
  <2> QED
    BY <1>3, <1>6, <2>1, <2>2, <2>3, <2>4 DEF Open
<1>13. ASSUME NEW r \in Requests, CommitPromote(r)
       PROVE  Inv'
  <2>1. /\ pc[r] = "loaded" /\ call[r].prompt \in Prompts /\ Committed(r, "loaded", call[r])
        /\ call[r].op = "promote" /\ call[r].version \in Versions(call[r].prompt)
        /\ prompts' = prompts
    BY <1>3, <1>13 DEF CommitPromote, Committed, CallInv, CallTyped, CallFits, Open
  <2>2. call'[r] = call[r]
    BY <1>3, <2>1 DEF Committed
  <2>3. call[r].version \in Versions(call[r].prompt)'
    BY <1>1, <2>1, <2>2
  <2> QED
    BY <1>3, <1>6, <2>1, <2>3 DEF Open
<1>14. ASSUME NEW r \in Requests, Refresh(r)
       PROVE  Inv'
  <2> DEFINE p == call[r].prompt
             v == call[r].version
             row == RowOf(p, v)
  <2>1. /\ pc' = [pc EXCEPT ![r] = "answered"] /\ reply' = [reply EXCEPT ![r] = Answered(row)]
        /\ call' = [call EXCEPT ![r] = call[r]] /\ SameTable /\ call' = call
        /\ pc[r] = "refresh" /\ p \in Prompts /\ v \in Versions(p)
        /\ call[r].op # "promote" => \E x \in versions[p] : x.version = v /\ x.template = r
    BY <1>3, <1>14 DEF Refresh, SameTable, CallInv, CallTyped, CallFits, Open
  <2>2. row \in versions[p] /\ row.version = v
    BY <2>1, RowOfVersion
  <2>3. call[r].op # "promote" => row.template = r
    BY <2>1, <2>2 DEF Inv, TableInv, Numbered
  <2>4. pc'[r] = "answered" /\ reply'[r].status = "ok" /\ reply'[r].row = row
    BY <1>3, <2>1 DEF Answered
  <2>5. CallTyped(r)' /\ CallFits(r)' /\ AnswerFits(r)'
    BY <2>1, <2>4 DEF CallTyped, CallFits, AnswerFits, Labels, Open, Statuses
  <2> HIDE DEF row
  <2>6. Owns(r)'
    BY <2>1, <2>2, <2>3, <2>4 DEF Owns, SameTable
  <2>7. Moves(r)
    BY <2>1, Moved DEF Inv
  <2> QED
    BY <1>2, <1>3, <2>1, <2>4, <2>5, <2>6, <2>7 DEF CallInv, SameTable
<1>15. CASE UNCHANGED vars
  BY <1>15 DEF vars, Inv, TableInv, Functions, IsFunction, OneCreator, CallInv, CallTyped,
     CallFits, Owns, AnswerFits, Numbered, Versions
<1> QED
  BY <1>7, <1>8, <1>9, <1>10, <1>11, <1>12, <1>13, <1>14, <1>15 DEF Next

LEMMA InvInit == Init => Inv
<1> SUFFICES ASSUME Init
             PROVE  Inv
  OBVIOUS
<1>1. TableInv
  <2>1. ASSUME NEW p \in Prompts
        PROVE  versions[p] = {} /\ Versions(p) = 1..0 /\ p \notin prompts
    BY <2>1 DEF Init, Versions
  <2> QED
    BY <2>1 DEF Init, TableInv, Numbered
<1>2. Functions
  BY DEF Init, Functions, IsFunction
<1>3. ASSUME NEW r \in Requests
      PROVE  pc[r] = "idle" /\ call[r] = NoCall /\ reply[r].status = "none"
  BY DEF Init, Answer
<1>4. OneCreator
  BY <1>3 DEF OneCreator
<1>5. ASSUME NEW r \in Requests
      PROVE  CallInv(r)
  BY <1>3 DEF CallInv, CallTyped, CallFits, Owns, AnswerFits, Labels, Open, Statuses
<1> QED
  BY <1>1, <1>2, <1>4, <1>5 DEF Inv

LEMMA Invariant == Spec => []Inv
BY InvInit, InvStep, PTL DEF Spec

\* The type invariant of the store.
THEOREM TypeCorrect == Spec => []TypeOK
<1>1. Inv => TypeOK
  BY InvParts DEF StoreInv
<1> QED
  BY <1>1, Invariant, PTL

\* For any number of racing calls, the version numbers of a prompt are 1..n
\* without a gap or a repetition (manager.create_version and uq_prompt_version).
THEOREM VersionsContiguous == Spec => []Contiguous
<1>1. Inv => Contiguous
  BY InvParts
<1> QED
  BY <1>1, Invariant, PTL

\* Whoever is told that it created version n finds its own text there, whatever
\* the other calls do (manager.create, manager.create_version).
THEOREM CallersOwnTheirVersion == Spec => []OwnVersion
<1>1. Inv => OwnVersion
  BY InvParts DEF StoreInv
<1> QED
  BY <1>1, Invariant, PTL

-----------------------------------------------------------------------------
(* The store implements the ledger: appending a row publishes, changing one    *)
(* row's environment promotes, and nothing else touches the table.             *)

LEMMA SizeOfEntries ==
    ASSUME NEW l, NEW n \in Nat, DOMAIN l = 1..n
    PROVE  Ledger!Size(l) = n
<1>1. n \in DOMAIN l \cup {0} /\ \A k \in DOMAIN l : k <= n
  <2>1. n = 0 \/ n \in 1..n
    OBVIOUS
  <2> QED
    BY <2>1
<1>2. ASSUME NEW m \in DOMAIN l \cup {0}, \A k \in DOMAIN l : k <= m
      PROVE  m = n
  <2>1. m \in Nat /\ m <= n
    OBVIOUS
  <2>2. n <= m
    <3>1. CASE n = 0
      BY <2>1, <3>1
    <3>2. CASE n \in DOMAIN l
      BY <1>2, <3>2
    <3> QED
      BY <1>1, <3>1, <3>2
  <2> QED
    BY <2>1, <2>2
<1> QED
  BY <1>1, <1>2 DEF Ledger!Size

\* A row is the only one of its number.
LEMMA RowIsUnique ==
    ASSUME NEW p, Numbered(p), NEW x \in versions[p]
    PROVE  x.version \in Versions(p) /\ RowOf(p, x.version) = x
BY DEF Numbered, Versions, RowOf

LEMMA AppendPublishes ==
    ASSUME Inv, Inv', NEW p \in Prompts, NEW n \in Nat, NEW r \in Requests, Appends(p, n, r)
    PROVE  LedgerView' = [LedgerView EXCEPT ![p] = [v \in Versions(p) \cup {n} |->
               IF v = n THEN [template |-> r, env |-> "draft"] ELSE Entries(p)[v]]]
<1>1. /\ versions'[p] = versions[p] \cup {NewRow(r, n)}
      /\ \A q \in Prompts \ {p} : versions'[q] = versions[q]
  BY DEF Appends, Inv, TableInv
<1>2. /\ NewRow(r, n).version = n /\ NewRow(r, n).template = r
      /\ NewRow(r, n).env = "draft"
  BY DEF NewRow
<1>3. Numbered(p) /\ Numbered(p)'
  BY DEF Inv, TableInv
<1>4. Versions(p)' = Versions(p) \cup {n}
  BY <1>1, <1>2 DEF Versions
<1>5. RowOf(p, n)' = NewRow(r, n)
  BY <1>1, <1>2, <1>3 DEF Numbered, RowOf
<1>6. ASSUME NEW v \in Versions(p)
      PROVE  v # n /\ RowOf(p, v)' = RowOf(p, v)
  <2>1. RowOf(p, v) \in versions[p] /\ RowOf(p, v).version = v
    BY RowOfVersion
  <2>2. RowOf(p, v) \in versions'[p]
    BY <1>1, <2>1
  <2>3. v # n
    BY DEF Appends
  <2>4. PICK x : x = RowOf(p, v)
    OBVIOUS
  <2>5. x \in versions'[p] /\ x.version = v
    BY <2>1, <2>2, <2>4
  <2>6. RowOf(p, v)' = x
    BY <1>3, <2>5 DEF Numbered, RowOf
  <2> QED
    BY <2>3, <2>4, <2>6
<1>7. Entries(p)' = [v \in Versions(p) \cup {n} |->
          IF v = n THEN [template |-> r, env |-> "draft"] ELSE Entries(p)[v]]
  BY <1>2, <1>4, <1>5, <1>6 DEF Entries, Entry
<1>8. \A q \in Prompts \ {p} : Entries(q)' = Entries(q)
  BY <1>1 DEF Entries, Entry, RowOf, Versions
<1> QED
  BY <1>7, <1>8 DEF LedgerView

LEMMA RelabelPromotes ==
    ASSUME Inv, Inv', NEW p \in Prompts, NEW v \in Nat, NEW e \in Envs, Relabels(p, v, e)
    PROVE  LedgerView' = [LedgerView EXCEPT ![p] = [Entries(p) EXCEPT ![v] = [@ EXCEPT !.env = e]]]
<1> DEFINE old == RowOf(p, v)
<1>1. PICK x : x = old
  OBVIOUS
<1>2. x \in versions[p] /\ x.version = v /\ x \in Row
  BY <1>1, RowOfVersion DEF Relabels, Inv, TableInv
<1>3. PICK y : y = [x EXCEPT !.env = e]
  OBVIOUS
<1>4. y.version = v /\ y.template = x.template /\ y.env = e
  BY <1>2, <1>3 DEF Row
<1>5. /\ versions'[p] = (versions[p] \ {x}) \cup {y}
      /\ \A q \in Prompts \ {p} : versions'[q] = versions[q]
  BY <1>1, <1>3 DEF Relabels, Inv, TableInv
<1>6. Numbered(p) /\ Numbered(p)'
  BY DEF Inv, TableInv
<1>7. Versions(p)' = Versions(p)
  BY <1>2, <1>4, <1>5 DEF Versions
<1>8. RowOf(p, v)' = y
  BY <1>4, <1>5, <1>6 DEF Numbered, RowOf
<1>9. ASSUME NEW w \in Versions(p), w # v
      PROVE  RowOf(p, w)' = RowOf(p, w)
  <2>1. PICK z : z = RowOf(p, w)
    OBVIOUS
  <2>2. z \in versions[p] /\ z.version = w
    BY <2>1, RowOfVersion
  <2>3. z \in versions'[p]
    BY <1>2, <1>5, <1>9, <2>2
  <2>4. RowOf(p, w)' = z
    BY <1>6, <2>2, <2>3 DEF Numbered, RowOf
  <2> QED
    BY <2>1, <2>4
<1>10. Entry(p, v)' = [Entry(p, v) EXCEPT !.env = e]
  BY <1>1, <1>4, <1>8 DEF Entry
<1>11. Entries(p)' = [Entries(p) EXCEPT ![v] = [@ EXCEPT !.env = e]]
  BY <1>7, <1>9, <1>10 DEF Entries, Entry
<1>12. \A q \in Prompts \ {p} : Entries(q)' = Entries(q)
  BY <1>5 DEF Entries, Entry, RowOf, Versions
<1> QED
  BY <1>11, <1>12 DEF LedgerView

LEMMA LedgerStep == Inv /\ Inv' /\ TableStep => [Ledger!Next]_LedgerView
<1> SUFFICES ASSUME Inv, Inv', TableStep
             PROVE  [Ledger!Next]_LedgerView
  OBVIOUS
<1>1. CASE SameTable
  BY <1>1 DEF SameTable, LedgerView, Entries, Entry, RowOf, Versions
<1>2. ASSUME NEW p \in Prompts, NEW n \in Nat, NEW r \in Requests, Appends(p, n, r)
      PROVE  Ledger!Next
  <2>1. PICK m \in Nat : Versions(p) = 1..m
    BY DEF Inv, TableInv, Numbered
  <2>2. n = m + 1
    BY <1>2, <2>1 DEF Appends
  <2>3. LedgerView[p] = Entries(p) /\ DOMAIN Entries(p) = Versions(p)
    BY DEF LedgerView, Entries
  <2>4. Ledger!Size(LedgerView[p]) + 1 = n
    BY <2>1, <2>2, <2>3, SizeOfEntries
  <2>5. PICK l : l = LedgerView[p]
    OBVIOUS
  <2>6. LedgerView' = [LedgerView EXCEPT ![p] = [v \in DOMAIN l \cup {n} |->
            IF v = n THEN [template |-> r, env |-> "draft"] ELSE l[v]]]
    BY <1>2, <2>3, <2>5, AppendPublishes
  <2>7. Ledger!Size(l) + 1 = n
    BY <2>4, <2>5
  <2>8. Ledger!Publish(p, r)
    BY <2>5, <2>6, <2>7 DEF Ledger!Publish
  <2> QED
    BY <2>8 DEF Ledger!Next
<1>3. ASSUME NEW p \in Prompts, NEW v \in Nat, NEW e \in Envs, Relabels(p, v, e)
      PROVE  Ledger!Next
  <2>1. LedgerView[p] = Entries(p) /\ DOMAIN Entries(p) = Versions(p) /\ v \in Versions(p)
    BY <1>3 DEF LedgerView, Entries, Relabels
  <2>2. Ledger!Promote(p, v, e)
    BY <1>3, <2>1, RelabelPromotes DEF Ledger!Promote
  <2> QED
    BY <2>1, <2>2 DEF Ledger!Next
<1> QED
  BY <1>1, <1>2, <1>3 DEF TableStep

LEMMA LedgerInit == Init => Ledger!Init
<1> SUFFICES ASSUME Init
             PROVE  LedgerView = [p \in Prompts |->
                        [v \in {} |-> [template |-> "draft", env |-> "draft"]]]
  BY DEF Ledger!Init
<1>1. ASSUME NEW p \in Prompts
      PROVE  Versions(p) = {}
  BY <1>1 DEF Init, Versions
<1>2. ASSUME NEW p \in Prompts
      PROVE  Entries(p) = [v \in {} |-> [template |-> "draft", env |-> "draft"]]
  BY <1>1 DEF Entries
<1> QED
  BY <1>2 DEF LedgerView

\* The store implements the ledger: every history of racing and failing calls is
\* a history of appended drafts and environment changes, in which no committed
\* template is ever rewritten ("Immutable versioned prompt template", db/models/prompt.py:35).
THEOREM StoreIsALedger == Spec => LedgerSpec
<1>1. Inv /\ Inv' /\ [Next]_vars => [Ledger!Next]_LedgerView
  BY LedgerStep, StepTable, InvParts
<1> QED
  BY <1>1, LedgerInit, Invariant, PTL DEF Spec, LedgerSpec, Ledger!Spec
=============================================================================
