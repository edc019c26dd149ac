------------------------------ MODULE Admission ------------------------------
(***************************************************************************)
(* The way of a request to its handler: ApiKeyAuth looks its key up in a   *)
(* thread, then, for a write, _rate_limit_write counts it on the event     *)
(* loop under the id that the lookup left in request.state, then the body  *)
(* is read and the handler runs.  Meanwhile keys are created and revoked   *)
(* from the command line, clients send again, Postgres goes away and comes *)
(* back and workers restart.  The limiter is the one of RateLimiter, whose *)
(* actions are conjuncts of the actions here.                              *)
(***************************************************************************)
EXTENDS RateLimiter, Sequences

CONSTANTS
    Requests,         \* requests that may be under way at a time
    Unauthenticated,  \* the bucket of a request without api_key_id
    NoRow,            \* no row in api_keys
    NoRequest,        \* nothing under way
    NoGrant           \* see KeyPolicy

VARIABLES
    keys,  \* keys[k]: table api_keys
    req,   \* req[r]: where request r is, and request.state.api_key_id
    dbUp   \* Postgres answers

vars == <<now, served, windows, log, keys, req, dbUp>>

KeyIds == Keys \ {Unauthenticated}
Scopes == {"read", "write"}
Rows == [scope : Scopes, revoked : BOOLEAN]
UnderWay == [step : {"lookup", "limit", "serve"}, worker : Workers, key : KeyIds,
             scope : Scopes, id : Keys]

ASSUME AdmissionAssumption ==
    /\ Unauthenticated \in Keys
    /\ NoRow \notin Rows
    /\ NoRequest \notin UnderWay
    /\ NoGrant \notin [key : Keys, scope : Scopes]

Init ==
    /\ LimiterInit
    /\ keys = [k \in KeyIds |-> NoRow]
    /\ req = [r \in Requests |-> NoRequest]
    /\ dbUp = TRUE

-----------------------------------------------------------------------------
(* Mutant: the dependencies of a write endpoint in the other order. *)
Dependencies_LimitFirst(scope) ==
    IF scope = "write" THEN <<"limit", "lookup", "serve">> ELSE <<"lookup", "serve">>

(* dependencies=[Depends(require("write")), Depends(_rate_limit_write)],   *)
(* in the order of the list; a read endpoint has the first one only.       *)
Dependencies(scope) ==
    IF scope = "write" THEN <<"lookup", "limit", "serve">> ELSE <<"lookup", "serve">>

Following(scope, step) ==
    LET chain == Dependencies(scope)
    IN  chain[1 + CHOOSE i \in DOMAIN chain : chain[i] = step]

At(r, step) == req[r] # NoRequest /\ req[r].step = step

Pass(r, id) ==
    req' = [req EXCEPT ![r].step = Following(req[r].scope, req[r].step), ![r].id = id]

Reply(r) == req' = [req EXCEPT ![r] = NoRequest]

(* The writes under way may all be admitted, so they count for the bound.  *)
WritesUnderWay == {r \in Requests : req[r] # NoRequest /\ req[r].scope = "write"}

(* A request with some key reaches an endpoint; without one it is answered *)
(* 401 and nothing happened.                                               *)
Arrive(r) ==
    /\ req[r] = NoRequest
    /\ \E w \in Workers, k \in KeyIds, s \in Scopes :
         /\ s = "write" => served + Cardinality(WritesUnderWay) < MaxServed
         /\ req' = [req EXCEPT ![r] = [step |-> Head(Dependencies(s)), worker |-> w,
                                       key |-> k, scope |-> s, id |-> Unauthenticated]]
    /\ UNCHANGED <<limiterVars, keys, dbUp>>

(* Mutant: the filter on revoked_at is missing. *)
Found_Revoked(k) == keys[k] # NoRow

(* _lookup_key: the row of the key, unless revoked. *)
Found(k) == keys[k] # NoRow /\ ~keys[k].revoked

(* Mutant: any key of at least the scope's rank will do. *)
ScopeFits_Read(k, scope) == keys[k].scope = scope \/ scope = "read"

(* No key has the scope "admin", which the command line refuses. *)
ScopeFits(k, scope) == keys[k].scope = scope

(* 503 without Postgres, 401 for an unknown or revoked key, 403 for a key  *)
(* of the other scope, else on with the id of the key.                     *)
LookUp(r) ==
    /\ At(r, "lookup")
    /\ IF dbUp /\ Found(req[r].key) /\ ScopeFits(req[r].key, req[r].scope)
       THEN Pass(r, req[r].key)
       ELSE Reply(r)
    /\ UNCHANGED <<limiterVars, keys, dbUp>>

Limit(r) ==
    /\ At(r, "limit")
    /\ \/ Admit(req[r].worker, req[r].id) /\ Pass(r, req[r].id)
       \/ Exceeded(req[r].worker, req[r].id) /\ Reply(r)
    /\ UNCHANGED <<keys, dbUp>>

(* The handler; what it does is the subject of Ingest and Recovery. *)
Serve(r) ==
    /\ At(r, "serve")
    /\ Reply(r)
    /\ UNCHANGED <<limiterVars, keys, dbUp>>

-----------------------------------------------------------------------------
(* python -m agent_reflex.api.auth create *)
Create(k) ==
    /\ dbUp
    /\ keys[k] = NoRow
    /\ \E s \in Scopes : keys' = [keys EXCEPT ![k] = [scope |-> s, revoked |-> FALSE]]
    /\ UNCHANGED <<limiterVars, req, dbUp>>

(* python -m agent_reflex.api.auth revoke: the commit.  The record was     *)
(* read before; a revocation that came between only has its time replaced. *)
Revoke(k) ==
    /\ dbUp
    /\ keys[k] # NoRow
    /\ ~keys[k].revoked
    /\ keys' = [keys EXCEPT ![k].revoked = TRUE]
    /\ UNCHANGED <<limiterVars, req, dbUp>>

Advance == Tick /\ UNCHANGED <<keys, req, dbUp>>

(* A worker restarts: its requests and its windows are gone. *)
RestartWorker(w) ==
    /\ Restart(w)
    /\ req' = [r \in Requests |-> IF req[r] # NoRequest /\ req[r].worker = w
                                  THEN NoRequest ELSE req[r]]
    /\ UNCHANGED <<keys, dbUp>>

Postgres ==
    /\ dbUp' = ~dbUp
    /\ UNCHANGED <<limiterVars, keys, req>>

Handle(r) == LookUp(r) \/ Limit(r) \/ Serve(r)

Next ==
    \/ \E r \in Requests : Arrive(r) \/ Handle(r)
    \/ \E k \in KeyIds : Create(k) \/ Revoke(k)
    \/ Advance
    \/ \E w \in Workers : RestartWorker(w)
    \/ Postgres

(* A lookup ends (the driver's timeout is an exception, hence a 503), the  *)
(* loop gets to every request, and handlers end (see Ingest).              *)
Fairness == \A r \in Requests : WF_vars(Handle(r))

Spec == Init /\ [][Next]_vars /\ Fairness

-----------------------------------------------------------------------------
TypeOK ==
    /\ LimiterTypeOK
    /\ keys \in [KeyIds -> Rows \cup {NoRow}]
    /\ req \in [Requests -> UnderWay \cup {NoRequest}]
    /\ dbUp \in BOOLEAN

(* What the lookup granted to the requests under way.                      *)
Granted ==
    [r \in Requests |-> IF At(r, "limit") \/ At(r, "serve")
                        THEN [key |-> req[r].id, scope |-> req[r].scope]
                        ELSE NoGrant]

Policy == INSTANCE KeyPolicy WITH registry <- keys, granted <- Granted

(* Lookup, limiter and handler are steps of their own, with revocations,   *)
(* restarts and outages in between; still each request is let in as if its *)
(* key had been checked in one step while it was live, under its own id    *)
(* and for the scope of the endpoint (auth.py 67-116).                     *)
PolicySpec == Policy!Spec

(* The limiter counts a write under the key that was looked up, never in   *)
(* the bucket that requests without an id share, and never under a key     *)
(* that may not write: whoever has no write key uses up nobody's limit     *)
(* (api.py 93-101, the dependencies of the write endpoints).               *)
BucketsAreOfWriters ==
    \A w \in Workers, k \in Keys :
        windows[w][k] # {} => k \in KeyIds /\ keys[k] # NoRow /\ keys[k].scope = "write"

(* A revocation takes effect for good: requests let in before it may still *)
(* be served, but from some moment on no request is served with the key,   *)
(* however often clients send it (auth.py 149-160).                        *)
RevocationTakesEffect ==
    \A k \in KeyIds :
        (keys[k] # NoRow /\ keys[k].revoked)
            ~> [](\A r \in Requests : Granted[r] # NoGrant => Granted[r].key # k)
=============================================================================
