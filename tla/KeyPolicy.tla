------------------------------ MODULE KeyPolicy ------------------------------
(***************************************************************************)
(* What API keys promise, with the check of a request as one atomic step:  *)
(* a key is created once with a scope, is revoked once and for all, and a  *)
(* request is granted a key only at a moment at which the key is live and  *)
(* has the very scope the endpoint asks for.  A grant lasts until the      *)
(* request ends, also past a revocation.                                   *)
(***************************************************************************)
CONSTANTS
    Requests,  \* requests under way
    KeyIds,    \* ids of API keys
    Scopes,    \* VALID_SCOPES
    NoRow,     \* the key was never created
    NoGrant    \* the request was not granted anything (yet)

VARIABLES
    registry,  \* registry[k]: table api_keys
    granted    \* granted[r]: the key and the scope r was granted

vars == <<registry, granted>>

Live(k, s) == registry[k] = [scope |-> s, revoked |-> FALSE]

Init ==
    /\ registry = [k \in KeyIds |-> NoRow]
    /\ granted = [r \in Requests |-> NoGrant]

Create(k, s) ==
    /\ registry[k] = NoRow
    /\ registry' = [registry EXCEPT ![k] = [scope |-> s, revoked |-> FALSE]]
    /\ UNCHANGED granted

Revoke(k, s) ==
    /\ Live(k, s)
    /\ registry' = [registry EXCEPT ![k] = [scope |-> s, revoked |-> TRUE]]
    /\ UNCHANGED granted

Grant(r, k, s) ==
    /\ granted[r] = NoGrant
    /\ Live(k, s)
    /\ granted' = [granted EXCEPT ![r] = [key |-> k, scope |-> s]]
    /\ UNCHANGED registry

(* Requests end one by one, or with the process that serves them.          *)
Release(S) ==
    /\ granted' = [r \in Requests |-> IF r \in S THEN NoGrant ELSE granted[r]]
    /\ UNCHANGED registry

Next ==
    \/ \E k \in KeyIds, s \in Scopes :
         \/ Create(k, s)
         \/ Revoke(k, s)
         \/ \E r \in Requests : Grant(r, k, s)
    \/ \E S \in SUBSET Requests : Release(S)

Spec == Init /\ [][Next]_vars
=============================================================================
