----------------------------- MODULE RateLimiter -----------------------------
(***************************************************************************)
(* _rate_limit_write, the sliding-window limit on write requests: each     *)
(* worker process keeps, for each API key, the times of the writes it      *)
(* admitted (_rate_windows).  The list is only filtered and counted, so    *)
(* it is a set of stamps here; the number of a stamp tells apart two       *)
(* writes admitted at the same clock reading.                              *)
(***************************************************************************)
EXTENDS Naturals, FiniteSets

CONSTANTS
    Workers,    \* API worker processes
    Keys,       \* ids of API keys
    MaxWrites,  \* _MAX_WRITES_PER_MINUTE
    Window,     \* 60 seconds, in ticks of time.monotonic()
    MaxTime,    \* bound: the last clock reading
    MaxServed   \* bound: writes admitted in a behaviour

ASSUME LimiterAssumption ==
    /\ MaxWrites \in Nat
    /\ Window \in Nat \ {0}
    /\ MaxTime \in Nat
    /\ MaxServed \in Nat

VARIABLES
    now,      \* time.monotonic()
    served,   \* writes admitted so far
    windows,  \* windows[w][k]: _rate_windows of worker w
    log       \* history: every write w admitted for k since it started

limiterVars == <<now, served, windows, log>>

Stamp(n, t) == [number |-> n, time |-> t]
Stamps == [number : Nat, time : Nat]

LimiterInit ==
    /\ now = 0
    /\ served = 0
    /\ windows = [w \in Workers |-> [k \in Keys |-> {}]]
    /\ log = [w \in Workers |-> [k \in Keys |-> {}]]

(* Mutant: an entry that is exactly one window old still counts. *)
Recent_Closed(w, k) == {s \in windows[w][k] : now - s.time <= Window}

Recent(w, k) == {s \in windows[w][k] : now - s.time < Window}

(* Mutant: "len(recent) > limit" refuses. *)
Admit_OffByOne(w, k) ==
    LET s == Stamp(served, now) IN
    /\ served < MaxServed
    /\ Cardinality(Recent(w, k)) <= MaxWrites
    /\ windows' = [windows EXCEPT ![w][k] = Recent(w, k) \cup {s}]
    /\ log' = [log EXCEPT ![w][k] = @ \cup {s}]
    /\ served' = served + 1
    /\ UNCHANGED now

(* The request is within the limit: it is recorded and goes on.            *)
Admit(w, k) ==
    LET s == Stamp(served, now) IN
    /\ served < MaxServed
    /\ Cardinality(Recent(w, k)) < MaxWrites
    /\ windows' = [windows EXCEPT ![w][k] = Recent(w, k) \cup {s}]
    /\ log' = [log EXCEPT ![w][k] = @ \cup {s}]
    /\ served' = served + 1
    /\ UNCHANGED now

(* 429: a refused request leaves no trace in the window.                   *)
Exceeded(w, k) ==
    /\ Cardinality(Recent(w, k)) >= MaxWrites
    /\ UNCHANGED limiterVars

Tick ==
    /\ now < MaxTime
    /\ now' = now + 1
    /\ UNCHANGED <<served, windows, log>>

(* The windows live in the process.                                        *)
Restart(w) ==
    /\ windows' = [windows EXCEPT ![w] = [k \in Keys |-> {}]]
    /\ log' = [log EXCEPT ![w] = [k \in Keys |-> {}]]
    /\ UNCHANGED <<now, served>>

LimiterNext ==
    \/ \E w \in Workers, k \in Keys : Admit(w, k) \/ Exceeded(w, k)
    \/ Tick
    \/ \E w \in Workers : Restart(w)

LimiterSpec == LimiterInit /\ [][LimiterNext]_limiterVars

-----------------------------------------------------------------------------
(* The stamps are distinct, none is in the future, and what the window     *)
(* holds was admitted.                                                     *)
LimiterTypeOK ==
    /\ now \in 0..MaxTime
    /\ served \in 0..MaxServed
    /\ windows \in [Workers -> [Keys -> SUBSET Stamps]]
    /\ log \in [Workers -> [Keys -> SUBSET Stamps]]
    /\ \A w \in Workers, k \in Keys :
         /\ windows[w][k] \subseteq log[w][k]
         /\ \A s \in log[w][k] : s.number < served /\ s.time <= now

(* The writes of key k that w admitted in the window that opens at t.      *)
AdmittedFrom(w, k, t) == {s \in log[w][k] : t <= s.time /\ s.time < t + Window}

(* Whatever the arrival pattern, no window of 60 seconds, wherever it      *)
(* starts, holds more than the limit for one key in one process            *)
(* (api.py 97-101).                                                        *)
SlidingLimit ==
    \A w \in Workers, k \in Keys : \A t \in 0..now :
        Cardinality(AdmittedFrom(w, k, t)) <= MaxWrites

(* The pruned list is exactly what was admitted in the last window: a key  *)
(* is refused for the writes it was granted and for nothing else, refused  *)
(* requests and expired ones included (api.py 97-99).                      *)
WindowIsExact ==
    \A w \in Workers, k \in Keys :
        Cardinality(Recent(w, k))
          = Cardinality({s \in log[w][k] : s.time + Window > now})
=============================================================================
