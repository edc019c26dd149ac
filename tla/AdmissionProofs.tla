--------------------------- MODULE AdmissionProofs ---------------------------
(***************************************************************************)
(* Theorems about RateLimiter, for every limit, window length, number of   *)
(* keys and of workers, and then about Admission, for every number of      *)
(* requests: the limit holds behind the lookup, its buckets are those of   *)
(* writers, and the three steps of a request implement KeyPolicy.          *)
(***************************************************************************)
EXTENDS Admission, FiniteSetTheorems, TLAPS

(* What is admitted and not yet expired is still in the pruned window: the *)
(* limit is checked against the window, and holds of the log.              *)
LimiterInv ==
    /\ LimiterTypeOK
    /\ \A w \in Workers, k \in Keys :
         /\ IsFiniteSet(log[w][k])
         /\ \A s \in log[w][k] : now - s.time < Window => s \in windows[w][k]
    /\ SlidingLimit

(* A window that is still open holds unexpired writes only. *)
LEMMA OpenWindow ==
    ASSUME LimiterInv, NEW w \in Workers, NEW k \in Keys,
           NEW t \in 0..now, t + Window > now
    PROVE  AdmittedFrom(w, k, t) \subseteq Recent(w, k)
<1> SUFFICES ASSUME NEW s \in AdmittedFrom(w, k, t)
             PROVE  s \in Recent(w, k)
  OBVIOUS
<1>1. s \in log[w][k] /\ t <= s.time
  BY DEF AdmittedFrom
<1>2. s.time \in Nat /\ now \in Nat /\ Window \in Nat
  BY <1>1, LimiterAssumption DEF LimiterInv, LimiterTypeOK, Stamps
<1>3. now - s.time < Window
  BY <1>1, <1>2
<1> QED BY <1>1, <1>3 DEF LimiterInv, Recent

(* The window and the sets it is compared with are finite. *)
LEMMA Finite ==
    ASSUME LimiterInv, NEW w \in Workers, NEW k \in Keys
    PROVE  /\ IsFiniteSet(Recent(w, k))
           /\ \A t \in Nat : IsFiniteSet(AdmittedFrom(w, k, t))
<1>1. Recent(w, k) \subseteq log[w][k]
  BY DEF Recent, LimiterInv, LimiterTypeOK
<1>2. \A t \in Nat : AdmittedFrom(w, k, t) \subseteq log[w][k]
  BY DEF AdmittedFrom
<1> QED BY <1>1, <1>2, FS_Subset DEF LimiterInv

-----------------------------------------------------------------------------
(* A write that is admitted keeps the invariant,                           *)
LEMMA AdmitKeeps ==
    ASSUME LimiterInv, NEW w \in Workers, NEW k \in Keys, Admit(w, k)
    PROVE  LimiterInv'
<1> DEFINE s == Stamp(served, now)
<1>1. /\ s \in Stamps
      /\ s.number = served
      /\ s.time = now
      /\ now \in Nat
      /\ served \in Nat
  BY LimiterAssumption DEF Stamp, Stamps, LimiterInv, LimiterTypeOK
<1>2. /\ windows' = [windows EXCEPT ![w][k] = Recent(w, k) \cup {s}]
      /\ log' = [log EXCEPT ![w][k] = @ \cup {s}]
      /\ served' = served + 1
      /\ served' \in 0..MaxServed
      /\ now' = now
  BY LimiterAssumption DEF Admit, LimiterInv, LimiterTypeOK
<1>3. ASSUME NEW v \in Workers, NEW j \in Keys
      PROVE  \/ /\ v = w /\ j = k
                /\ windows'[v][j] = Recent(w, k) \cup {s}
                /\ log'[v][j] = log[w][k] \cup {s}
             \/ /\ windows'[v][j] = windows[v][j]
                /\ log'[v][j] = log[v][j]
  BY <1>2 DEF LimiterInv, LimiterTypeOK
<1>4. LimiterTypeOK'
  <2>1. /\ windows' \in [Workers -> [Keys -> SUBSET Stamps]]
        /\ log' \in [Workers -> [Keys -> SUBSET Stamps]]
    <3>1. Recent(w, k) \cup {s} \in SUBSET Stamps
      BY <1>1 DEF Recent, LimiterInv, LimiterTypeOK
    <3>2. log[w][k] \cup {s} \in SUBSET Stamps
      BY <1>1 DEF LimiterInv, LimiterTypeOK
    <3> QED BY <1>2, <3>1, <3>2 DEF LimiterInv, LimiterTypeOK
  <2>2. ASSUME NEW v \in Workers, NEW j \in Keys
        PROVE  /\ windows'[v][j] \subseteq log'[v][j]
               /\ \A r \in log'[v][j] : r.number < served' /\ r.time <= now'
    <3>1. \A r \in log[v][j] : r \in Stamps /\ r.number < served /\ r.time <= now
      BY DEF LimiterInv, LimiterTypeOK
    <3>2. Recent(w, k) \subseteq log[w][k] /\ windows[v][j] \subseteq log[v][j]
      BY DEF Recent, LimiterInv, LimiterTypeOK
    <3> QED BY <1>1, <1>2, <1>3, <3>1, <3>2 DEF Stamps
  <2> QED BY <1>2, <2>1, <2>2 DEF LimiterTypeOK, LimiterInv
<1>5. ASSUME NEW v \in Workers, NEW j \in Keys
      PROVE  /\ IsFiniteSet(log'[v][j])
             /\ \A r \in log'[v][j] : now' - r.time < Window => r \in windows'[v][j]
  <2>1. IsFiniteSet(log[v][j])
    BY DEF LimiterInv
  <2>2. IsFiniteSet(log[v][j] \cup {s})
    BY <2>1, FS_AddElement
  <2>3. \A r \in log[v][j] : now - r.time < Window => r \in windows[v][j]
    BY DEF LimiterInv
  <2>4. IsFiniteSet(log'[v][j])
    BY <1>3, <2>1, <2>2
  <2>5. ASSUME NEW r \in log'[v][j], now' - r.time < Window
        PROVE  r \in windows'[v][j]
    <3>1. CASE r \in log[v][j]
      <4>1. r \in windows[v][j] /\ now - r.time < Window
        BY <1>2, <2>3, <2>5, <3>1
      <4> QED BY <1>3, <4>1 DEF Recent
    <3>2. CASE r \notin log[v][j]
      BY <1>3, <2>5, <3>2
    <3> QED BY <3>1, <3>2
  <2> QED BY <2>4, <2>5
<1>6. ASSUME NEW v \in Workers, NEW j \in Keys, NEW t \in 0..now
      PROVE  Cardinality(AdmittedFrom(v, j, t)') <= MaxWrites
  <2>1. Cardinality(AdmittedFrom(v, j, t)) <= MaxWrites
    BY DEF LimiterInv, SlidingLimit
  <2>2. CASE AdmittedFrom(v, j, t)' = AdmittedFrom(v, j, t)
    BY <2>1, <2>2
  <2>3. CASE AdmittedFrom(v, j, t)' # AdmittedFrom(v, j, t)
    <3>1. v = w /\ j = k /\ log'[w][k] = log[w][k] \cup {s}
      BY <1>3, <2>3 DEF AdmittedFrom
    <3>2. AdmittedFrom(w, k, t)' \subseteq AdmittedFrom(w, k, t) \cup {s}
      BY <3>1 DEF AdmittedFrom
    <3>3. t + Window > now
      <4>1. CASE s.time < t + Window
        BY <1>1, <4>1
      <4>2. CASE ~(s.time < t + Window)
        BY <2>3, <3>1, <4>2 DEF AdmittedFrom
      <4> QED BY <4>1, <4>2
    <3>4. AdmittedFrom(w, k, t) \subseteq Recent(w, k)
      BY <3>3, OpenWindow
    <3>5. /\ IsFiniteSet(Recent(w, k))
          /\ IsFiniteSet(AdmittedFrom(w, k, t))
      BY <1>1, Finite
    <3>6. Cardinality(AdmittedFrom(w, k, t)) <= Cardinality(Recent(w, k))
      BY <3>4, <3>5, FS_Subset
    <3>7. /\ IsFiniteSet(AdmittedFrom(w, k, t) \cup {s})
          /\ Cardinality(AdmittedFrom(w, k, t) \cup {s})
               <= Cardinality(AdmittedFrom(w, k, t)) + 1
      <4>1. Cardinality(AdmittedFrom(w, k, t)) \in Nat
        BY <3>5, FS_CardinalityType
      <4>2. \/ Cardinality(AdmittedFrom(w, k, t) \cup {s})
                 = Cardinality(AdmittedFrom(w, k, t))
            \/ Cardinality(AdmittedFrom(w, k, t) \cup {s})
                 = Cardinality(AdmittedFrom(w, k, t)) + 1
        BY <3>5, FS_AddElement
      <4>3. IsFiniteSet(AdmittedFrom(w, k, t) \cup {s})
        BY <3>5, FS_AddElement
      <4> QED BY <4>1, <4>2, <4>3
    <3>8. Cardinality(AdmittedFrom(w, k, t)')
            <= Cardinality(AdmittedFrom(w, k, t) \cup {s})
      BY <3>2, <3>7, FS_Subset
    <3>9. Cardinality(Recent(w, k)) < MaxWrites
      BY DEF Admit
    <3>10. /\ Cardinality(Recent(w, k)) \in Nat
           /\ Cardinality(AdmittedFrom(w, k, t)) \in Nat
           /\ Cardinality(AdmittedFrom(w, k, t) \cup {s}) \in Nat
           /\ Cardinality(AdmittedFrom(w, k, t)') \in Nat
      BY <3>2, <3>5, <3>7, FS_CardinalityType, FS_Subset
    <3> QED BY <3>1, <3>6, <3>7, <3>8, <3>9, <3>10, LimiterAssumption
  <2> QED BY <2>2, <2>3
<1> QED BY <1>2, <1>4, <1>5, <1>6 DEF LimiterInv, SlidingLimit

(* so does the clock,                                                      *)
LEMMA TickKeeps ==
    ASSUME LimiterInv, Tick
    PROVE  LimiterInv'
<1>1. /\ now' = now + 1
      /\ now \in Nat
      /\ now' \in 0..MaxTime
      /\ UNCHANGED <<served, windows, log>>
  BY LimiterAssumption DEF Tick, LimiterInv, LimiterTypeOK
<1>2. \A w \in Workers, k \in Keys : \A s \in log[w][k] :
        s.time \in Nat /\ s.time <= now
  BY DEF LimiterInv, LimiterTypeOK, Stamps
<1>3. LimiterTypeOK'
  BY <1>1, <1>2 DEF LimiterInv, LimiterTypeOK
<1>4. ASSUME NEW w \in Workers, NEW k \in Keys
      PROVE  /\ IsFiniteSet(log'[w][k])
             /\ \A s \in log'[w][k] : now' - s.time < Window => s \in windows'[w][k]
  <2>1. ASSUME NEW s \in log[w][k], now' - s.time < Window
        PROVE  s \in windows[w][k]
    <3>1. now - s.time < Window
      BY <1>1, <1>2, <2>1, LimiterAssumption
    <3> QED BY <3>1 DEF LimiterInv
  <2> QED BY <1>1, <2>1 DEF LimiterInv
<1>5. ASSUME NEW w \in Workers, NEW k \in Keys, NEW t \in 0..now'
      PROVE  Cardinality(AdmittedFrom(w, k, t)') <= MaxWrites
  <2>1. AdmittedFrom(w, k, t)' = AdmittedFrom(w, k, t)
    BY <1>1 DEF AdmittedFrom
  <2>2. CASE t <= now
    BY <1>1, <2>1, <2>2 DEF LimiterInv, SlidingLimit
  <2>3. CASE ~(t <= now)
    <3>1. AdmittedFrom(w, k, t) = {}
      BY <1>1, <1>2, <2>3 DEF AdmittedFrom
    <3> QED BY <2>1, <3>1, FS_EmptySet, LimiterAssumption
  <2> QED BY <2>2, <2>3
<1> QED BY <1>3, <1>4, <1>5 DEF LimiterInv, SlidingLimit

(* and so does a new process, with empty windows and an empty log.         *)
LEMMA RestartKeeps ==
    ASSUME LimiterInv, NEW w \in Workers, Restart(w)
    PROVE  LimiterInv'
<1>1. ASSUME NEW v \in Workers, NEW k \in Keys
      PROVE  \/ windows'[v][k] = {} /\ log'[v][k] = {}
             \/ windows'[v][k] = windows[v][k] /\ log'[v][k] = log[v][k]
  BY DEF Restart, LimiterInv, LimiterTypeOK
<1>2. UNCHANGED <<now, served>>
  BY DEF Restart
<1>3. LimiterTypeOK'
  <2>1. /\ windows' \in [Workers -> [Keys -> SUBSET Stamps]]
        /\ log' \in [Workers -> [Keys -> SUBSET Stamps]]
    BY DEF Restart, LimiterInv, LimiterTypeOK
  <2> QED BY <1>1, <1>2, <2>1 DEF LimiterInv, LimiterTypeOK
<1>4. ASSUME NEW v \in Workers, NEW k \in Keys
      PROVE  /\ IsFiniteSet(log'[v][k])
             /\ \A s \in log'[v][k] : now' - s.time < Window => s \in windows'[v][k]
  BY <1>1, <1>2, FS_EmptySet DEF LimiterInv
<1>5. ASSUME NEW v \in Workers, NEW k \in Keys, NEW t \in 0..now
      PROVE  Cardinality(AdmittedFrom(v, k, t)') <= MaxWrites
  <2>1. \/ AdmittedFrom(v, k, t)' = {}
        \/ AdmittedFrom(v, k, t)' = AdmittedFrom(v, k, t)
    BY <1>1 DEF AdmittedFrom
  <2>2. CASE AdmittedFrom(v, k, t)' = {}
    BY <2>2, FS_EmptySet, LimiterAssumption
  <2>3. CASE AdmittedFrom(v, k, t)' = AdmittedFrom(v, k, t)
    BY <2>3 DEF LimiterInv, SlidingLimit
  <2> QED BY <2>1, <2>2, <2>3
<1> QED BY <1>2, <1>3, <1>4, <1>5 DEF LimiterInv, SlidingLimit

-----------------------------------------------------------------------------
(* The limiter's inductive invariant, with its type correctness.           *)
THEOREM LimiterInductive == LimiterSpec => []LimiterInv
<1>1. LimiterInit => LimiterInv
  <2> SUFFICES ASSUME LimiterInit PROVE LimiterInv
    OBVIOUS
  <2>1. \A w \in Workers, k \in Keys : log[w][k] = {} /\ windows[w][k] = {}
    BY DEF LimiterInit
  <2>2. LimiterTypeOK
    BY <2>1, LimiterAssumption DEF LimiterInit, LimiterTypeOK
  <2>3. \A w \in Workers, k \in Keys, t \in 0..now : AdmittedFrom(w, k, t) = {}
    BY <2>1 DEF AdmittedFrom
  <2>4. IsFiniteSet({}) /\ Cardinality({}) = 0
    BY FS_EmptySet
  <2>5. SlidingLimit
    BY <2>3, <2>4, LimiterAssumption DEF SlidingLimit
  <2> QED BY <2>1, <2>2, <2>4, <2>5 DEF LimiterInv
<1>2. LimiterInv /\ [LimiterNext]_limiterVars => LimiterInv'
  <2> SUFFICES ASSUME LimiterInv, [LimiterNext]_limiterVars PROVE LimiterInv'
    OBVIOUS
  <2>1. CASE UNCHANGED limiterVars
    BY <2>1 DEF limiterVars, LimiterInv, LimiterTypeOK, SlidingLimit, AdmittedFrom
  <2> QED BY <2>1, AdmitKeeps, TickKeeps, RestartKeeps
          DEF LimiterNext, Exceeded
<1> QED BY <1>1, <1>2, PTL DEF LimiterSpec

(* No 60-second window of one process holds more than the limit for a key  *)
(* (RateLimiter!SlidingLimit), for any limit and any arrival pattern.      *)
THEOREM LimitHolds == LimiterSpec => []SlidingLimit
<1>1. LimiterInv => SlidingLimit
  BY DEF LimiterInv
<1> QED BY <1>1, LimiterInductive, PTL

-----------------------------------------------------------------------------
(* Keys are never deleted and keep their scope, so what the lookup found   *)
(* out about the key of a request still holds of it at the later steps.    *)
LookedUp ==
    \A r \in Requests : req[r] # NoRequest =>
        /\ req[r].step = "limit" => req[r].scope = "write"
        /\ req[r].step # "lookup" =>
             /\ req[r].id \in KeyIds
             /\ keys[req[r].id] # NoRow
             /\ keys[req[r].id].scope = req[r].scope

(* The inductive invariant. *)
AdmissionInv ==
    /\ LimiterInv
    /\ TypeOK
    /\ LookedUp
    /\ BucketsAreOfWriters

-----------------------------------------------------------------------------
(* The order of the dependencies of the two kinds of endpoints. *)
LEMMA Chain ==
    /\ Following("write", "lookup") = "limit"
    /\ Following("write", "limit") = "serve"
    /\ Following("read", "lookup") = "serve"
    /\ \A s \in Scopes : Head(Dependencies(s)) = "lookup"
<1>1. Dependencies("write") = <<"lookup", "limit", "serve">>
  BY DEF Dependencies
<1>2. Dependencies("read") = <<"lookup", "serve">>
  BY DEF Dependencies
<1>3. (CHOOSE i \in 1..3 : <<"lookup", "limit", "serve">>[i] = "lookup") = 1
  OBVIOUS
<1>4. (CHOOSE i \in 1..3 : <<"lookup", "limit", "serve">>[i] = "limit") = 2
  OBVIOUS
<1>5. (CHOOSE i \in 1..2 : <<"lookup", "serve">>[i] = "lookup") = 1
  OBVIOUS
<1> QED BY <1>1, <1>2, <1>3, <1>4, <1>5 DEF Following, Scopes

(* Every step is one of the limiter, or leaves it alone.                   *)
LEMMA LimiterStep ==
    ASSUME LimiterInv, TypeOK, [Next]_vars
    PROVE  LimiterInv'
<1>1. CASE UNCHANGED limiterVars
  BY <1>1 DEF limiterVars, LimiterInv, LimiterTypeOK, SlidingLimit, AdmittedFrom
<1>2. ASSUME NEW r \in Requests, Limit(r)
      PROVE  LimiterInv'
  <2>1. req[r].worker \in Workers /\ req[r].id \in Keys
    BY <1>2 DEF Limit, At, TypeOK, UnderWay
  <2>2. CASE Admit(req[r].worker, req[r].id)
    BY <2>1, <2>2, AdmitKeeps
  <2>3. CASE ~Admit(req[r].worker, req[r].id)
    BY <1>1, <1>2, <2>3 DEF Limit, Exceeded
  <2> QED BY <2>2, <2>3
<1>3. ASSUME NEW w \in Workers, RestartWorker(w)
      PROVE  LimiterInv'
  BY <1>3, RestartKeeps DEF RestartWorker
<1>4. CASE Advance
  BY <1>4, TickKeeps DEF Advance
<1> QED BY <1>1, <1>2, <1>3, <1>4
        DEF Next, Arrive, Handle, LookUp, Serve, Create, Revoke, Postgres,
            limiterVars, vars

(* A request that passes its lookup or the limiter.                        *)
LEMMA PassStep ==
    ASSUME TypeOK, LookedUp, NEW r \in Requests, NEW id \in KeyIds,
           \/ At(r, "lookup")
           \/ At(r, "limit") /\ id = req[r].id,
           Pass(r, id)
    PROVE  /\ req' \in [Requests -> UnderWay \cup {NoRequest}]
           /\ req'[r] # NoRequest
           /\ req'[r].id = id
           /\ req'[r].scope = req[r].scope
           /\ req'[r].step \in {"limit", "serve"}
           /\ req'[r].step = "limit" => req'[r].scope = "write"
           /\ At(r, "limit") => req'[r].step = "serve"
           /\ \A o \in Requests \ {r} : req'[o] = req[o]
<1> DEFINE f == Following(req[r].scope, req[r].step)
           n == [req[r] EXCEPT !.step = f, !.id = id]
<1>1. req[r] \in UnderWay
  BY DEF At, TypeOK
<1>2. req[r].scope \in Scopes /\ req[r].step \in {"lookup", "limit"}
  BY <1>1 DEF At, UnderWay
<1>3. /\ f \in {"limit", "serve"}
      /\ f = "limit" => req[r].scope = "write"
      /\ At(r, "limit") => f = "serve"
  <2>1. CASE req[r].step = "lookup"
    BY <1>2, <2>1, Chain DEF Scopes, At
  <2>2. CASE req[r].step = "limit"
    <3>1. req[r].scope = "write"
      BY <2>2 DEF LookedUp, At
    <3> QED BY <2>2, <3>1, Chain
  <2> QED BY <1>2, <2>1, <2>2
<1>4. req' = [req EXCEPT ![r] = n]
  BY DEF Pass
<1>5. n \in UnderWay /\ n.step = f /\ n.id = id /\ n.scope = req[r].scope
  BY <1>1, <1>3 DEF UnderWay, KeyIds
<1>6. n # NoRequest
  BY <1>5, AdmissionAssumption
<1>7. req'[r] = n /\ \A o \in Requests \ {r} : req'[o] = req[o]
  BY <1>4 DEF TypeOK
<1>8. req' \in [Requests -> UnderWay \cup {NoRequest}]
  BY <1>4, <1>5 DEF TypeOK
<1> QED BY <1>3, <1>5, <1>6, <1>7, <1>8

(* A key that exists keeps existing with its scope; rows stay rows.        *)
LEMMA KeysLast ==
    ASSUME TypeOK, [Next]_vars
    PROVE  /\ keys' \in [KeyIds -> Rows \cup {NoRow}]
           /\ \A k \in KeyIds : keys[k] # NoRow =>
                keys'[k] # NoRow /\ keys'[k].scope = keys[k].scope
<1>1. CASE UNCHANGED keys
  BY <1>1 DEF TypeOK
<1>2. ASSUME NEW k \in KeyIds, Create(k)
      PROVE  /\ keys' \in [KeyIds -> Rows \cup {NoRow}]
             /\ \A j \in KeyIds : keys[j] # NoRow =>
                  keys'[j] # NoRow /\ keys'[j].scope = keys[j].scope
  <2>1. PICK s \in Scopes : keys' = [keys EXCEPT ![k] = [scope |-> s, revoked |-> FALSE]]
    BY <1>2 DEF Create
  <2>2. [scope |-> s, revoked |-> FALSE] \in Rows
    BY DEF Rows
  <2> QED BY <1>2, <2>1, <2>2 DEF Create, TypeOK
<1>3. ASSUME NEW k \in KeyIds, Revoke(k)
      PROVE  /\ keys' \in [KeyIds -> Rows \cup {NoRow}]
             /\ \A j \in KeyIds : keys[j] # NoRow =>
                  keys'[j] # NoRow /\ keys'[j].scope = keys[j].scope
  <2> DEFINE row == [keys[k] EXCEPT !.revoked = TRUE]
  <2>1. keys[k] \in Rows /\ keys' = [keys EXCEPT ![k] = row]
    BY <1>3 DEF Revoke, TypeOK
  <2>2. row \in Rows /\ row.scope = keys[k].scope
    BY <2>1 DEF Rows
  <2>3. row # NoRow
    BY <2>2, AdmissionAssumption
  <2> QED BY <2>1, <2>2, <2>3 DEF TypeOK
<1> QED BY <1>1, <1>2, <1>3
        DEF Next, Arrive, Handle, LookUp, Limit, Serve, Advance, RestartWorker,
            Postgres, vars

(* A step that only sets requests free, or takes a new one in.             *)
LEMMA FewerPast ==
    ASSUME TypeOK, LookedUp, [Next]_vars, 
           req' \in [Requests -> UnderWay \cup {NoRequest}],
           \A r \in Requests :
             \/ req'[r] = req[r]
             \/ req'[r] = NoRequest
             \/ req'[r].step = "lookup"
    PROVE  LookedUp'
<1> SUFFICES ASSUME NEW r \in Requests, req'[r] # NoRequest
             PROVE  /\ req'[r].step = "limit" => req'[r].scope = "write"
                    /\ req'[r].step # "lookup" =>
                         /\ req'[r].id \in KeyIds
                         /\ keys'[req'[r].id] # NoRow
                         /\ keys'[req'[r].id].scope = req'[r].scope
  BY DEF LookedUp
<1>1. CASE req'[r].step = "lookup"
  BY <1>1
<1>2. CASE req'[r] = req[r]
  BY <1>2, KeysLast DEF LookedUp
<1> QED BY <1>1, <1>2

(* A request that passes was granted its key by the lookup.                *)
LEMMA PassKeeps ==
    ASSUME TypeOK, LookedUp, [Next]_vars, NEW r \in Requests, NEW id \in KeyIds,
           \/ At(r, "lookup") /\ keys[id] # NoRow /\ keys[id].scope = req[r].scope
           \/ At(r, "limit") /\ id = req[r].id,
           Pass(r, id)
    PROVE  LookedUp' /\ req' \in [Requests -> UnderWay \cup {NoRequest}]
<1>1. keys[id] # NoRow /\ keys[id].scope = req[r].scope
  BY DEF LookedUp, At
<1>2. keys'[id] # NoRow /\ keys'[id].scope = req[r].scope
  BY <1>1, KeysLast
<1>3. /\ req' \in [Requests -> UnderWay \cup {NoRequest}]
      /\ req'[r].id = id
      /\ req'[r].scope = req[r].scope
      /\ req'[r].step = "limit" => req'[r].scope = "write"
      /\ \A o \in Requests \ {r} : req'[o] = req[o]
  BY PassStep
<1>4. ASSUME NEW o \in Requests, o # r, req'[o] # NoRequest
      PROVE  /\ req'[o].step = "limit" => req'[o].scope = "write"
             /\ req'[o].step # "lookup" =>
                  /\ req'[o].id \in KeyIds
                  /\ keys'[req'[o].id] # NoRow
                  /\ keys'[req'[o].id].scope = req'[o].scope
  BY <1>3, <1>4, KeysLast DEF LookedUp
<1> QED BY <1>2, <1>3, <1>4 DEF LookedUp

(* Requests stay in their ranges, and past the lookup hold a key of their  *)
(* scope.                                                                  *)
LEMMA RequestStep ==
    ASSUME TypeOK, LookedUp, [Next]_vars
    PROVE  LookedUp' /\ req' \in [Requests -> UnderWay \cup {NoRequest}]
<1> DEFINE Kept == LookedUp' /\ req' \in [Requests -> UnderWay \cup {NoRequest}]
<1>1. CASE UNCHANGED req
  BY <1>1, FewerPast DEF TypeOK
<1>2. ASSUME NEW r \in Requests, Reply(r)
      PROVE  Kept
  <2>1. req' \in [Requests -> UnderWay \cup {NoRequest}]
    BY <1>2 DEF Reply, TypeOK
  <2>2. \A o \in Requests : req'[o] = req[o] \/ req'[o] = NoRequest
    BY <1>2 DEF Reply, TypeOK
  <2> QED BY <2>1, <2>2, FewerPast
<1>3. ASSUME NEW r \in Requests, Arrive(r)
      PROVE  Kept
  <2>1. PICK w \in Workers, k \in KeyIds, s \in Scopes :
          req' = [req EXCEPT ![r] = [step |-> Head(Dependencies(s)), worker |-> w,
                                     key |-> k, scope |-> s, id |-> Unauthenticated]]
    BY <1>3 DEF Arrive
  <2> DEFINE n == [step |-> "lookup", worker |-> w, key |-> k, scope |-> s,
                   id |-> Unauthenticated]
  <2>2. req' = [req EXCEPT ![r] = n]
    BY <2>1, Chain
  <2>3. n \in UnderWay
    BY AdmissionAssumption DEF UnderWay
  <2>4. req' \in [Requests -> UnderWay \cup {NoRequest}]
    BY <2>2, <2>3 DEF TypeOK
  <2>5. \A o \in Requests : req'[o] = req[o] \/ req'[o].step = "lookup"
    BY <2>2 DEF TypeOK
  <2> QED BY <2>4, <2>5, FewerPast
<1>4. ASSUME NEW r \in Requests, LookUp(r)
      PROVE  Kept
  <2>1. CASE Reply(r)
    BY <2>1, <1>2
  <2>2. CASE ~Reply(r)
    <3>1. /\ At(r, "lookup")
          /\ Found(req[r].key) /\ ScopeFits(req[r].key, req[r].scope)
          /\ Pass(r, req[r].key)
      BY <1>4, <2>2 DEF LookUp
    <3>2. req[r].key \in KeyIds
      BY <3>1 DEF At, TypeOK, UnderWay
    <3> QED BY <3>1, <3>2, PassKeeps DEF Found, ScopeFits
  <2> QED BY <2>1, <2>2
<1>5. ASSUME NEW r \in Requests, Limit(r)
      PROVE  Kept
  <2>1. CASE Reply(r)
    BY <2>1, <1>2
  <2>2. CASE ~Reply(r)
    <3>1. At(r, "limit") /\ Pass(r, req[r].id)
      BY <1>5, <2>2 DEF Limit
    <3>2. req[r].id \in KeyIds
      BY <3>1 DEF At, LookedUp
    <3> QED BY <3>1, <3>2, PassKeeps
  <2> QED BY <2>1, <2>2
<1>6. ASSUME NEW w \in Workers, RestartWorker(w)
      PROVE  Kept
  <2>1. req' \in [Requests -> UnderWay \cup {NoRequest}]
    BY <1>6 DEF RestartWorker, TypeOK
  <2>2. \A o \in Requests : req'[o] = req[o] \/ req'[o] = NoRequest
    BY <1>6 DEF RestartWorker
  <2> QED BY <2>1, <2>2, FewerPast
<1> QED BY <1>1, <1>2, <1>3, <1>4, <1>5, <1>6
        DEF Next, Handle, Serve, Create, Revoke, Advance, Postgres, vars

(* Only the limiter adds to a window, that of the key looked up.           *)
LEMMA BucketStep ==
    ASSUME LimiterInv, TypeOK, LookedUp, BucketsAreOfWriters, [Next]_vars
    PROVE  BucketsAreOfWriters'
<1> SUFFICES ASSUME NEW w \in Workers, NEW k \in Keys, windows'[w][k] # {}
             PROVE  k \in KeyIds /\ keys'[k] # NoRow /\ keys'[k].scope = "write"
  BY DEF BucketsAreOfWriters
<1> SUFFICES k \in KeyIds /\ keys[k] # NoRow /\ keys[k].scope = "write"
  BY KeysLast
<1>1. CASE windows[w][k] # {}
  BY <1>1 DEF BucketsAreOfWriters
<1>2. CASE windows[w][k] = {}
  <2>1. UNCHANGED windows => FALSE
    BY <1>2
  <2>2. ASSUME NEW v \in Workers, Restart(v)
        PROVE  FALSE
    BY <1>2, <2>2 DEF Restart, LimiterInv, LimiterTypeOK
  <2>3. PICK r \in Requests : Limit(r)
    BY <2>1, <2>2
       DEF Next, Arrive, Handle, LookUp, Serve, Create, Revoke, Advance, Tick,
           RestartWorker, Postgres, limiterVars, vars
  <2>4. Admit(req[r].worker, req[r].id)
    BY <2>1, <2>3 DEF Limit, Exceeded, limiterVars
  <2>5. req[r].worker \in Workers /\ req[r].id \in Keys
    BY <2>3 DEF Limit, At, TypeOK, UnderWay
  <2>6. k = req[r].id
    BY <1>2, <2>4, <2>5 DEF Admit, LimiterInv, LimiterTypeOK
  <2> QED BY <2>3, <2>6 DEF Limit, At, LookedUp
<1> QED BY <1>1, <1>2

-----------------------------------------------------------------------------
(* The inductive invariant, which includes Admission!TypeOK.               *)
THEOREM AdmissionInductive == Spec => []AdmissionInv
<1>1. Init => AdmissionInv
  <2> SUFFICES ASSUME Init PROVE AdmissionInv
    OBVIOUS
  <2>1. \A w \in Workers, k \in Keys : log[w][k] = {} /\ windows[w][k] = {}
    BY DEF Init, LimiterInit
  <2>2. LimiterTypeOK
    BY <2>1, LimiterAssumption DEF Init, LimiterInit, LimiterTypeOK
  <2>3. \A w \in Workers, k \in Keys, t \in 0..now : AdmittedFrom(w, k, t) = {}
    BY <2>1 DEF AdmittedFrom
  <2>4. LimiterInv
    BY <2>1, <2>2, <2>3, FS_EmptySet, LimiterAssumption DEF LimiterInv, SlidingLimit
  <2>5. LookedUp /\ BucketsAreOfWriters
    BY <2>1 DEF Init, LookedUp, BucketsAreOfWriters
  <2> QED BY <2>2, <2>4, <2>5 DEF Init, AdmissionInv, TypeOK
<1>2. AdmissionInv /\ [Next]_vars => AdmissionInv'
  <2> SUFFICES ASSUME AdmissionInv, [Next]_vars PROVE AdmissionInv'
    OBVIOUS
  <2>1. LimiterInv /\ TypeOK /\ LookedUp /\ BucketsAreOfWriters
    BY DEF AdmissionInv
  <2>2. LimiterInv'
    BY <2>1, LimiterStep
  <2>3. dbUp' \in BOOLEAN
    BY <2>1 DEF TypeOK, Next, Arrive, Handle, LookUp, Limit, Serve, Create, Revoke,
                Advance, RestartWorker, Postgres, vars
  <2>4. TypeOK'
    BY <2>1, <2>2, <2>3, KeysLast, RequestStep DEF TypeOK, LimiterInv
  <2> QED BY <2>1, <2>2, <2>4, RequestStep, BucketStep DEF AdmissionInv
<1> QED BY <1>1, <1>2, PTL DEF Spec

(* Behind the lookup, with keys created and revoked, outages and restarts, *)
(* no window of 60 seconds of a process holds more writes of a key than    *)
(* the limit (RateLimiter!SlidingLimit).                                   *)
THEOREM LimitHoldsBehindLookup == Spec => []SlidingLimit
<1>1. AdmissionInv => SlidingLimit
  BY DEF AdmissionInv, LimiterInv
<1> QED BY <1>1, AdmissionInductive, PTL

(* A key is refused for the writes of the last window it was granted in    *)
(* this process, and for nothing else (RateLimiter!WindowIsExact).         *)
THEOREM RefusedForGrantedOnly == Spec => []WindowIsExact
<1>1. AdmissionInv => WindowIsExact
  <2> SUFFICES ASSUME AdmissionInv, NEW w \in Workers, NEW k \in Keys
               PROVE  Recent(w, k) = {s \in log[w][k] : s.time + Window > now}
    BY DEF WindowIsExact
  <2>1. \A s \in log[w][k] :
          /\ now - s.time < Window <=> s.time + Window > now
          /\ now - s.time < Window => s \in windows[w][k]
    <3>1. \A s \in log[w][k] : s.time \in Nat
      BY DEF AdmissionInv, LimiterInv, LimiterTypeOK, Stamps
    <3>2. now \in Nat /\ Window \in Nat
      BY LimiterAssumption DEF AdmissionInv, LimiterInv, LimiterTypeOK
    <3> QED BY <3>1, <3>2 DEF AdmissionInv, LimiterInv
  <2>2. windows[w][k] \subseteq log[w][k]
    BY DEF AdmissionInv, LimiterInv, LimiterTypeOK
  <2> QED BY <2>1, <2>2 DEF Recent
<1> QED BY <1>1, AdmissionInductive, PTL

(* Whoever has no write key uses up nobody's limit                         *)
(* (Admission!BucketsAreOfWriters).                                        *)
THEOREM OnlyWritersAreCounted == Spec => []BucketsAreOfWriters
<1>1. AdmissionInv => BucketsAreOfWriters
  BY DEF AdmissionInv
<1> QED BY <1>1, AdmissionInductive, PTL

-----------------------------------------------------------------------------
(* Requests that end, and those that are neither taken in nor let in.      *)
LEMMA ReleaseStep ==
    ASSUME NEW S \in SUBSET Requests, UNCHANGED keys,
           \A r \in S : Granted'[r] = NoGrant,
           \A r \in Requests \ S : Granted'[r] = Granted[r]
    PROVE  Policy!Release(S)
<1>1. Granted' = [r \in Requests |-> IF r \in S THEN NoGrant ELSE Granted[r]]
  BY DEF Granted, At
<1> QED BY <1>1 DEF Policy!Release

(* A lookup that finds a live key of the scope grants it.                  *)
LEMMA LookUpGrants ==
    ASSUME AdmissionInv, NEW r \in Requests, LookUp(r), ~Reply(r)
    PROVE  \E k \in KeyIds, s \in Scopes : Policy!Grant(r, k, s)
<1> DEFINE k == req[r].key
           s == req[r].scope
<1>1. /\ At(r, "lookup") /\ Found(k) /\ ScopeFits(k, s) /\ Pass(r, k)
      /\ UNCHANGED keys
  BY DEF LookUp
<1>2. k \in KeyIds /\ s \in Scopes
  BY <1>1 DEF At, AdmissionInv, TypeOK, UnderWay
<1>3. keys[k] = [scope |-> s, revoked |-> FALSE]
  <2>1. keys[k] \in Rows
    BY <1>1, <1>2 DEF Found, AdmissionInv, TypeOK
  <2> QED BY <1>1, <2>1 DEF Found, ScopeFits, Rows
<1>4. Granted[r] = NoGrant
  BY <1>1 DEF At, Granted
<1>5. /\ req'[r] # NoRequest
      /\ req'[r].step \in {"limit", "serve"}
      /\ req'[r].id = k
      /\ req'[r].scope = s
      /\ \A o \in Requests \ {r} : req'[o] = req[o]
  BY <1>1, <1>2, PassStep DEF AdmissionInv
<1>6. Granted' = [Granted EXCEPT ![r] = [key |-> k, scope |-> s]]
  <2>1. Granted'[r] = [key |-> k, scope |-> s]
    BY <1>5 DEF Granted, At
  <2>2. \A o \in Requests \ {r} : Granted'[o] = Granted[o]
    BY <1>5 DEF Granted, At
  <2> QED BY <2>1, <2>2 DEF Granted
<1>7. Policy!Grant(r, k, s)
  BY <1>1, <1>3, <1>4, <1>6 DEF Policy!Grant, Policy!Live
<1> QED BY <1>2, <1>7

(* Every step of the code is one of KeyPolicy or none.                     *)
LEMMA PolicyStep ==
    ASSUME AdmissionInv, [Next]_vars
    PROVE  [Policy!Next]_(Policy!vars)
<1> DEFINE Policed == [Policy!Next]_(Policy!vars)
<1>1. ASSUME NEW S \in SUBSET Requests, Policy!Release(S)
      PROVE  Policed
  BY <1>1 DEF Policy!Next
<1>2. CASE UNCHANGED <<keys, req>>
  BY <1>2 DEF Policy!vars, Granted, At
<1>3. ASSUME NEW r \in Requests, Reply(r), UNCHANGED keys
      PROVE  Policed
  <2>1. req'[r] = NoRequest /\ \A o \in Requests \ {r} : req'[o] = req[o]
    BY <1>3 DEF Reply, AdmissionInv, TypeOK
  <2>2. Policy!Release({r})
    BY <1>3, <2>1, ReleaseStep DEF Granted, At
  <2> QED BY <1>1, <2>2
<1>4. ASSUME NEW r \in Requests, Arrive(r)
      PROVE  Policed
  <2>1. /\ req[r] = NoRequest
        /\ UNCHANGED keys
        /\ req'[r].step = "lookup"
        /\ \A o \in Requests \ {r} : req'[o] = req[o]
    BY <1>4, Chain DEF Arrive, AdmissionInv, TypeOK
  <2>2. Policy!Release({})
    BY <2>1, ReleaseStep DEF Granted, At
  <2> QED BY <1>1, <2>2
<1>5. ASSUME NEW r \in Requests, LookUp(r)
      PROVE  Policed
  <2>1. CASE Reply(r)
    BY <1>3, <1>5, <2>1 DEF LookUp
  <2>2. CASE ~Reply(r)
    BY <1>5, <2>2, LookUpGrants DEF Policy!Next
  <2> QED BY <2>1, <2>2
<1>6. ASSUME NEW r \in Requests, Limit(r)
      PROVE  Policed
  <2>1. CASE Reply(r)
    BY <1>3, <1>6, <2>1 DEF Limit
  <2>2. CASE ~Reply(r)
    <3>1. At(r, "limit") /\ Pass(r, req[r].id) /\ UNCHANGED keys
      BY <1>6, <2>2 DEF Limit
    <3>2. req[r].id \in KeyIds
      BY <3>1 DEF At, AdmissionInv, LookedUp
    <3>3. /\ req'[r] # NoRequest
          /\ req'[r].step = "serve"
          /\ req'[r].id = req[r].id
          /\ req'[r].scope = req[r].scope
          /\ \A o \in Requests \ {r} : req'[o] = req[o]
      BY <3>1, <3>2, PassStep DEF AdmissionInv
    <3>4. \A o \in Requests : Granted'[o] = Granted[o]
      BY <3>1, <3>3 DEF Granted, At
    <3>5. Policy!Release({})
      BY <3>1, <3>4, ReleaseStep
    <3> QED BY <1>1, <3>5
  <2> QED BY <2>1, <2>2
<1>7. ASSUME NEW k \in KeyIds, Create(k)
      PROVE  Policed
  <2>1. PICK s \in Scopes : keys' = [keys EXCEPT ![k] = [scope |-> s, revoked |-> FALSE]]
    BY <1>7 DEF Create
  <2>2. Policy!Create(k, s)
    BY <1>7, <2>1 DEF Create, Policy!Create, Granted, At
  <2> QED BY <2>2 DEF Policy!Next
<1>8. ASSUME NEW k \in KeyIds, Revoke(k)
      PROVE  Policed
  <2> DEFINE s == keys[k].scope
  <2>1. keys[k] \in Rows /\ ~keys[k].revoked
    BY <1>8 DEF Revoke, AdmissionInv, TypeOK
  <2>2. s \in Scopes /\ keys[k] = [scope |-> s, revoked |-> FALSE]
    BY <2>1 DEF Rows
  <2>3. [keys[k] EXCEPT !.revoked = TRUE] = [scope |-> s, revoked |-> TRUE]
    <3> DEFINE row == [keys[k] EXCEPT !.revoked = TRUE]
    <3>1. row \in Rows /\ row.scope = s /\ row.revoked = TRUE
      BY <2>1 DEF Rows
    <3> HIDE DEF row
    <3>2. row = [scope |-> row.scope, revoked |-> row.revoked]
      BY <3>1 DEF Rows
    <3>3. row = [scope |-> s, revoked |-> TRUE]
      BY <3>1, <3>2
    <3> QED BY <3>3 DEF row
  <2>4. keys' = [keys EXCEPT ![k] = [scope |-> s, revoked |-> TRUE]]
    BY <1>8, <2>3 DEF Revoke
  <2>5. Policy!Revoke(k, s)
    BY <1>8, <2>2, <2>4 DEF Revoke, Policy!Revoke, Policy!Live, Granted, At
  <2> QED BY <2>2, <2>5 DEF Policy!Next
<1>9. ASSUME NEW w \in Workers, RestartWorker(w)
      PROVE  Policed
  <2> DEFINE S == {r \in Requests : req[r] # NoRequest /\ req[r].worker = w}
  <2>1. /\ \A r \in S : req'[r] = NoRequest
        /\ \A r \in Requests \ S : req'[r] = req[r]
        /\ UNCHANGED keys
    BY <1>9 DEF RestartWorker
  <2>2. /\ \A r \in S : Granted'[r] = NoGrant
        /\ \A r \in Requests \ S : Granted'[r] = Granted[r]
    BY <2>1 DEF Granted, At
  <2>3. S \in SUBSET Requests
    OBVIOUS
  <2> HIDE DEF S
  <2>4. Policy!Release(S)
    BY <2>1, <2>2, <2>3, ReleaseStep
  <2> QED BY <1>1, <2>3, <2>4
<1> QED BY <1>2, <1>3, <1>4, <1>5, <1>6, <1>7, <1>8, <1>9
        DEF Next, Handle, Serve, Advance, Postgres, vars

(* Lookup, limiter and handler implement one atomic check of a live key of *)
(* the very scope (Admission!PolicySpec).                                  *)
THEOREM ChecksAsIfAtOnce == Spec => PolicySpec
<1>1. Init => Policy!Init
  BY DEF Init, Policy!Init, Granted, At
<1>2. AdmissionInv /\ [Next]_vars => [Policy!Next]_(Policy!vars)
  BY PolicyStep
<1> QED BY <1>1, <1>2, AdmissionInductive, PTL DEF Spec, PolicySpec, Policy!Spec
=============================================================================
