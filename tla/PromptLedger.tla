---------------------------- MODULE PromptLedger ----------------------------
(* What the prompt store promises: each prompt is a ledger of versions 1..n.   *)
(* A version is appended at the end, as a draft; its template never changes    *)
(* again, only its environment does.                                           *)
EXTENDS Integers

CONSTANTS Prompts, Templates, Envs, Draft

VARIABLE ledger   \* [Prompts -> function from 1..n to [template, env]]

Init == ledger = [p \in Prompts |-> [v \in {} |-> [template |-> Draft, env |-> Draft]]]

Size(l) == CHOOSE n \in DOMAIN l \cup {0} : \A k \in DOMAIN l : k <= n

Publish(p, t) ==
    LET l == ledger[p]
        n == Size(l) + 1
    IN  ledger' = [ledger EXCEPT ![p] = [v \in DOMAIN l \cup {n} |->
            IF v = n THEN [template |-> t, env |-> Draft] ELSE l[v]]]

Promote(p, v, e) ==
    /\ v \in DOMAIN ledger[p]
    /\ ledger' = [ledger EXCEPT ![p][v].env = e]

Next == \E p \in Prompts :
    \/ \E t \in Templates : Publish(p, t)
    \/ \E v \in DOMAIN ledger[p], e \in Envs : Promote(p, v, e)

Spec == Init /\ [][Next]_ledger
=============================================================================
