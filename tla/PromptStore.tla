---------------------------- MODULE PromptStore ----------------------------
(* The prompt store (core/prompts/manager.py behind api/v1/prompts.py):        *)
(* concurrent API calls, each with a database session of its own, create       *)
(* prompts, add versions and move versions between environments. A call reads  *)
(* first and commits later, at READ COMMITTED, and re-reads the row it answers *)
(* with after its commit. An operator named Bad... is a faulty variant of the  *)
(* definition after it, for the mutation runs only.                            *)
EXTENDS Integers, FiniteSets

CONSTANTS
    Prompts,    \* prompt names callers use
    Requests    \* API calls, one per session; a call's template is its own text

Envs == {"draft", "staging", "production"}
Ops == {"create", "version", "promote"}
Inputs == Envs \cup {"other"}   \* what a promote call may name; "other" is no environment

VARIABLES
    prompts,    \* names with a committed row in table prompts
    versions,   \* [Prompts -> set of rows of table prompt_versions]
    pc,         \* where each call is
    call,       \* what it does, and what it has read so far
    reply       \* its answer: a row, or an error

vars == <<prompts, versions, pc, call, reply>>

Row == [version : Nat, template : Requests, env : Envs]
NoCall == [op |-> "none"]
Answer(status) == [status |-> status]
Answered(row) == [status |-> "ok", row |-> row]

Init ==
    /\ prompts = {}
    /\ versions = [p \in Prompts |-> {}]
    /\ pc = [r \in Requests |-> "idle"]
    /\ call = [r \in Requests |-> NoCall]
    /\ reply = [r \in Requests |-> Answer("none")]

-----------------------------------------------------------------------------
(* Queries. *)
Versions(p) == {row.version : row \in versions[p]}
RowOf(p, v) == CHOOSE row \in versions[p] : row.version = v

\* select(func.max(version)), "or 0" when the prompt has no version
MaxVersion(p) == CHOOSE n \in Versions(p) \cup {0} : \A k \in Versions(p) : k <= n

\* get: the highest version number in an environment; the highest of all
InEnv(p, e) == {row.version : row \in {x \in versions[p] : x.env = e}}
Resolves(p, e, v) == v \in InEnv(p, e) /\ \A k \in InEnv(p, e) : k <= v

-----------------------------------------------------------------------------
Begin(r, label, c) ==
    /\ pc[r] = "idle"
    /\ pc' = [pc EXCEPT ![r] = label]
    /\ call' = [call EXCEPT ![r] = c]

Refuse(r, from, status) ==
    /\ pc[r] = from
    /\ pc' = [pc EXCEPT ![r] = "answered"]
    /\ reply' = [reply EXCEPT ![r] = Answer(status)]

Committed(r, from, c) ==
    /\ pc[r] = from
    /\ pc' = [pc EXCEPT ![r] = "refresh"]
    /\ call' = [call EXCEPT ![r] = c]
    /\ UNCHANGED reply

NewRow(r, n) == [version |-> n, template |-> r, env |-> "draft"]

(* create: the prompt row is flushed first (it waits for an uncommitted row of *)
(* the same name), the first version and the commit follow.                    *)
CreateFlush(r, p) ==
    /\ \A q \in Requests : pc[q] = "flushed" => call[q].prompt # p
    /\ \/ /\ p \notin prompts
          /\ Begin(r, "flushed", [op |-> "create", prompt |-> p, version |-> 1])
          /\ UNCHANGED reply
       \/ /\ p \in prompts
          /\ Refuse(r, "idle", "400")
          /\ UNCHANGED call
    /\ UNCHANGED <<prompts, versions>>

CreateCommit(r) ==
    LET p == call[r].prompt IN
    /\ Committed(r, "flushed", call[r])
    /\ prompts' = prompts \cup {p}
    /\ versions' = [versions EXCEPT ![p] = @ \cup {NewRow(r, 1)}]

(* create_version: read the highest number, insert the next one. The unique    *)
(* constraint uq_prompt_version turns a lost race into an IntegrityError.      *)
ReadMax(r, p) ==
    /\ \/ /\ p \in prompts
          /\ Begin(r, "read", [op |-> "version", prompt |-> p, version |-> MaxVersion(p) + 1])
          /\ UNCHANGED reply
       \/ /\ p \notin prompts
          /\ Refuse(r, "idle", "404")
          /\ UNCHANGED call
    /\ UNCHANGED <<prompts, versions>>

BadInsertVersion(r) ==
    LET p == call[r].prompt
    IN
    /\ Committed(r, "read", call[r])
    /\ versions' = [versions EXCEPT ![p] = @ \cup {NewRow(r, call[r].version)}]
    /\ UNCHANGED prompts

InsertVersion(r) ==
    LET p == call[r].prompt
        n == call[r].version
    IN
    /\ Committed(r, "read", call[r])
    /\ n \notin Versions(p)
    /\ versions' = [versions EXCEPT ![p] = @ \cup {NewRow(r, n)}]
    /\ UNCHANGED prompts

InsertConflict(r) ==
    /\ pc[r] = "read"
    /\ call[r].version \in Versions(call[r].prompt)
    /\ Refuse(r, "read", "500")
    /\ UNCHANGED <<prompts, versions, call>>

(* promote: load the row, assign the environment, commit. The ORM writes the   *)
(* column only when it differs from the value it loaded.                       *)
BadLoadVersion(r, p, v, e) ==
    /\ v \in Versions(p)
    /\ Begin(r, "loaded", [op |-> "promote", prompt |-> p, version |-> v,
                           env |-> e, loaded |-> RowOf(p, v).env])
    /\ UNCHANGED <<prompts, versions, reply>>

LoadVersion(r, p, v, e) ==
    /\ \/ /\ e \in Envs /\ v \in Versions(p)
          /\ Begin(r, "loaded", [op |-> "promote", prompt |-> p, version |-> v,
                                 env |-> e, loaded |-> RowOf(p, v).env])
          /\ UNCHANGED reply
       \/ /\ e \notin Envs \/ v \notin Versions(p)
          /\ Refuse(r, "idle", "400")
          /\ UNCHANGED call
    /\ UNCHANGED <<prompts, versions>>

BadCommitPromote(r) ==
    LET c == call[r]
        old == RowOf(c.prompt, c.version)
    IN
    /\ Committed(r, "loaded", c)
    /\ versions' = [versions EXCEPT ![c.prompt] =
           {x \in @ \ {old} : x.env # c.env} \cup {[old EXCEPT !.env = c.env]}]
    /\ UNCHANGED prompts

CommitPromote(r) ==
    LET c == call[r]
        old == RowOf(c.prompt, c.version)
    IN
    /\ Committed(r, "loaded", c)
    /\ versions' = IF c.env = c.loaded THEN versions
                   ELSE [versions EXCEPT ![c.prompt] =
                            (@ \ {old}) \cup {[old EXCEPT !.env = c.env]}]
    /\ UNCHANGED prompts

(* session.refresh after the commit: the answer is the row as it is by then.   *)
Refresh(r) ==
    /\ pc[r] = "refresh"
    /\ pc' = [pc EXCEPT ![r] = "answered"]
    /\ reply' = [reply EXCEPT ![r] = Answered(RowOf(call[r].prompt, call[r].version))]
    /\ UNCHANGED <<prompts, versions, call>>

(* A call that fails or is cut off before its commit is rolled back by the     *)
(* session; one cut off after it leaves its row without an answer. The create  *)
(* endpoint turns any exception into a 400.                                    *)
Fail(r) ==
    /\ pc[r] \notin {"idle", "answered"}
    /\ Refuse(r, pc[r], IF call[r].op = "create" THEN "400" ELSE "500")
    /\ UNCHANGED <<prompts, versions, call>>

-----------------------------------------------------------------------------
Next == \E r \in Requests :
    \/ CreateCommit(r) \/ InsertVersion(r) \/ InsertConflict(r) \/ CommitPromote(r)
    \/ Refresh(r) \/ Fail(r)
    \/ \E p \in Prompts :
          \/ CreateFlush(r, p) \/ ReadMax(r, p)
          \/ \E v \in 1..Cardinality(Requests), e \in Inputs : LoadVersion(r, p, v, e)

Spec == Init /\ [][Next]_vars

-----------------------------------------------------------------------------
(* Properties.                                                               *)

\* Types, and what each label says about the call.
TypeOK ==
    /\ prompts \subseteq Prompts
    /\ DOMAIN versions = Prompts /\ \A p \in Prompts : versions[p] \subseteq Row
    /\ pc \in [Requests -> {"idle", "flushed", "read", "loaded", "refresh", "answered"}]
    /\ DOMAIN call = Requests /\ DOMAIN reply = Requests
    /\ \A r \in Requests :
          /\ pc[r] = "idle" => call[r] = NoCall
          /\ pc[r] \in {"flushed", "read", "loaded", "refresh"} =>
                /\ call[r].op \in Ops /\ call[r].prompt \in Prompts
                /\ call[r].version \in Nat
          /\ pc[r] = "loaded" => {call[r].env, call[r].loaded} \subseteq Envs
          /\ reply[r].status \in {"none", "ok", "400", "404", "500"}

\* However calls to create_version race, the versions of a prompt are exactly
\* 1, 2, ..., n: no number is used twice, and none is skipped, not even by calls
\* that fail.
Contiguous == \A p \in Prompts :
    /\ Versions(p) = 1..MaxVersion(p)
    /\ \A x, y \in versions[p] : x.version = y.version => x = y
    /\ p \in prompts <=> versions[p] # {}

\* A caller that was told it created version n of a prompt reads its own text
\* there, then and for ever; no two callers are told the same number.
OwnVersion == \A r \in Requests :
    reply[r].status = "ok" /\ call[r].op # "promote" =>
        /\ reply[r].row.template = r
        /\ \E x \in versions[call[r].prompt] : x.version = reply[r].row.version /\ x.template = r

\* The store implements the ledger: numbers only grow, by one, at the end, and a
\* template is immutable once committed (PromptVersionModel: "Immutable").
Entry(p, v) == [template |-> RowOf(p, v).template, env |-> RowOf(p, v).env]
Entries(p) == [v \in Versions(p) |-> Entry(p, v)]
LedgerView == [p \in Prompts |-> Entries(p)]
Ledger == INSTANCE PromptLedger WITH
    Templates <- Requests, Draft <- "draft", ledger <- LedgerView
LedgerSpec == Ledger!Spec

\* README.md:32, "promote to production instantly": once a promotion to production
\* is committed, get(env="production") resolves to the promoted version.
PromotedIsServed == [][\A r \in Requests :
    pc[r] = "loaded" /\ pc'[r] = "refresh" /\ call[r].env = "production" =>
        Resolves(call[r].prompt, "production", call[r].version)']_vars
=============================================================================
