--------------------------- MODULE SessionsProofs ---------------------------
(***************************************************************************)
(* Theorems about Sessions, for any number of sessions, requests, filters  *)
(* and times, and pages of any size the API grants.                        *)
(***************************************************************************)
EXTENDS Sessions, FiniteSetTheorems, TLAPS

(* How many rows of S come before r in the list. *)
Position(r, S) == Cardinality({q \in S : Precedes(q, r)})

(* All of R are in the list of filter f, at place o or later.              *)
Beyond(f, o, R) ==
    \A r \in R : r \in Select(f) /\ Position(r, Select(f)) >= o

-----------------------------------------------------------------------------
(* The inductive invariant.                                                *)

(* The list is one: no two rows have the same id.                          *)
RowsNumbered ==
    /\ rows \subseteq Row
    /\ IsFiniteSet(rows)
    /\ \A r \in rows : r.id <= Cardinality(rows)
    /\ \A q, r \in rows : q.id = r.id => q = r

Requests ==
    [number : Nat, filter : Filters, offset : Nat, step : {"sent", "counted", "paged"},
     total : Nat, items : SUBSET Row, alone : BOOLEAN, counted : SUBSET Row,
     exact : BOOLEAN]

PageTyped ==
    /\ asked \subseteq Requests
    /\ controls \in Filters
    /\ loads \in Nat
    /\ total \in Nat
    /\ last \in [filter : Filters, offset : Nat, alone : BOOLEAN]
    /\ offset = last.offset

(* A request that never overlapped another one is the only one, and asks   *)
(* what the controls say.                                                  *)
AloneIsLatest ==
    \A q \in asked : q.alone => asked = {q} /\ q.filter = controls

(* The request asks for the page that follows the walk's last one.         *)
Continues(q) ==
    walk # NoWalk /\ q.filter = last.filter /\ q.offset = last.offset + PageSize

Unseen == walk.from \ walk.seen

(* What a walk has not yet shown is behind the page it showed last; and    *)
(* was not asked for in vain by the request that continues it.             *)
WalkGoesOn ==
    walk # NoWalk /\ total > 0 => Beyond(last.filter, last.offset + PageSize, Unseen)

AsksForUnseen(q) ==
    q.alone /\ Continues(q) /\ q.step \in {"sent", "counted"} =>
        Beyond(q.filter, q.offset, Unseen)

(* A page holds every row of R that is not behind it, and all of R if it   *)
(* is the last one.                                                        *)
Shows(q, R) ==
    /\ q.total > 0 => Beyond(q.filter, q.offset + PageSize, R \ q.items)
    /\ q.exact /\ q.offset + PageSize >= q.total => R \subseteq q.items

RequestInv(q) ==
    /\ q.step = "sent" => q.total = 0 /\ q.counted = {} /\ ~q.exact
    /\ q.offset = 0 => q.counted \subseteq Select(q.filter)
    /\ AsksForUnseen(q)
    /\ q.step = "paged" =>
         /\ q.offset = 0 => Shows(q, q.counted)
         /\ q.alone /\ Continues(q) => Shows(q, Unseen)

SessionsInv ==
    /\ RowsNumbered
    /\ PageTyped
    /\ AloneIsLatest
    /\ WalkGoesOn
    /\ \A q \in asked : RequestInv(q)
    /\ WalkMissesNothing
    /\ QuietPageMatchesControls

-----------------------------------------------------------------------------
(* The order of the list.                                                  *)

(* Ids and times are numbers.                                              *)
LEMMA RowNumbers ==
    ASSUME NEW r \in Row
    PROVE  r.id \in Nat /\ r.created \in Nat /\ r.agent \in Agents
<1>1. MaxRows \in Nat /\ Times \subseteq Nat
  BY SessionsAssumption
<1>2. r.id \in 1..MaxRows /\ r.created \in Times /\ r.agent \in Agents
  BY DEF Row
<1>3. r.id \in Nat
  BY <1>1, <1>2
<1>4. r.created \in Nat
  BY <1>1, <1>2
<1> QED BY <1>2, <1>3, <1>4

(* Rows with different ids are ordered one way or the other, never both.   *)
LEMMA ListOrder ==
    ASSUME RowsNumbered, NEW q \in rows, NEW r \in rows, q # r
    PROVE  /\ Precedes(q, r) \/ Precedes(r, q)
           /\ ~(Precedes(q, r) /\ Precedes(r, q))
           /\ ~Precedes(q, q)
<1>1. /\ q.id \in Int /\ r.id \in Int /\ q.id # r.id
      /\ q.created \in Int /\ r.created \in Int
  BY RowNumbers DEF RowsNumbered
<1> QED BY <1>1 DEF Precedes

(* With the ids to break ties the database has one order to choose, and a  *)
(* row's rank in it is the number of rows before it.                       *)
LEMMA RankIsPosition ==
    ASSUME RowsNumbered, NEW S \in SUBSET rows, NEW rank \in Rankings(S), NEW r \in S
    PROVE  /\ rank[r] = Position(r, S)
           /\ rank[r] \in Nat /\ rank[r] < Cardinality(S) /\ Cardinality(S) \in Nat
<1> DEFINE n == Cardinality(S)
           Pred == {q \in S : Precedes(q, r)}
<1>0. IsFiniteSet(S) /\ n \in Nat
  BY FS_Subset, FS_CardinalityType DEF RowsNumbered
<1>1. /\ rank \in [S -> 0..(n - 1)]
      /\ \A q, p \in S : q # p => rank[q] # rank[p] /\ (Precedes(q, p) => rank[q] < rank[p])
  BY DEF Rankings
<1>2. \A q \in S : rank[q] \in 0..(n - 1)
  BY <1>1
<1>3. \A q \in S : Precedes(q, r) <=> rank[q] < rank[r]
  <2> SUFFICES ASSUME NEW q \in S PROVE Precedes(q, r) <=> rank[q] < rank[r]
    OBVIOUS
  <2>0. rank[q] \in Int /\ rank[r] \in Int
    BY <1>0, <1>2
  <2>1. CASE q = r
    <3>1. ~Precedes(r, r)
      <4>1. r.created \in Int /\ r.id \in Int
        BY RowNumbers DEF RowsNumbered
      <4> QED BY <4>1 DEF Precedes
    <3> QED BY <2>0, <2>1, <3>1
  <2>2. CASE q # r
    <3>1. /\ Precedes(q, r) \/ Precedes(r, q)
          /\ Precedes(q, r) => rank[q] < rank[r]
          /\ Precedes(r, q) => rank[r] < rank[q]
      BY <1>1, <2>2, ListOrder
    <3> QED BY <2>0, <3>1
  <2> QED BY <2>1, <2>2
<1>4. \A k \in 0..(n - 1) : \E q \in S : rank[q] = k
  <2>1. rank \in Injection(S, 0..(n - 1))
    BY <1>1 DEF Injection, IsInjective
  <2>2. IsFiniteSet(0..(n - 1)) /\ Cardinality(0..(n - 1)) = n
    <3> HIDE DEF n
    <3>1. 0 \in Int /\ n - 1 \in Int
      BY <1>0
    <3> QED BY <1>0, <3>1, FS_Interval
  <2>3. rank \in Surjection(S, 0..(n - 1))
    BY <2>1, <2>2, FS_Injection
  <2> QED BY <2>3 DEF Surjection
<1>5. Cardinality(Pred) = rank[r]
  <2> DEFINE below == [q \in Pred |-> rank[q]]
             T == 0..(rank[r] - 1)
  <2>0. rank[r] \in 0..(n - 1) /\ rank[r] \in Int
    BY <1>0, <1>2
  <2>1. below \in [Pred -> T]
    BY <1>0, <1>2, <1>3, <2>0
  <2>2. \A q, p \in Pred : below[q] = below[p] => q = p
    BY <1>1
  <2>3. \A t \in T : \E q \in Pred : below[q] = t
    <3> SUFFICES ASSUME NEW t \in T PROVE \E q \in Pred : below[q] = t
      OBVIOUS
    <3>1. t \in 0..(n - 1) /\ t < rank[r]
      BY <1>0, <2>0
    <3>2. PICK q \in S : rank[q] = t
      BY <1>4, <3>1
    <3>3. q \in Pred
      BY <1>3, <3>1, <3>2
    <3> QED BY <3>2, <3>3
  <2> HIDE DEF below, Pred
  <2>4. below \in Bijection(Pred, T)
    BY <2>1, <2>2, <2>3 DEF Bijection, Injection, Surjection, IsInjective
  <2>5. ExistsBijection(Pred, T)
    BY <2>4 DEF ExistsBijection
  <2>6. IsFiniteSet(Pred)
    BY <1>0, FS_Subset DEF Pred
  <2>7. Cardinality(T) = Cardinality(Pred)
    BY <2>5, <2>6, FS_Bijection
  <2>8. Cardinality(T) = rank[r]
    BY <2>0, FS_Interval
  <2> QED BY <2>7, <2>8
<1> QED BY <1>0, <1>2, <1>5 DEF Position

(* The rows that a filter selects are rows.                                *)
LEMMA SelectFinite ==
    ASSUME RowsNumbered, NEW f
    PROVE  /\ Select(f) \in SUBSET rows /\ Select(f) \in SUBSET Row
           /\ IsFiniteSet(Select(f)) /\ Cardinality(Select(f)) \in Nat
<1>1. Select(f) \in SUBSET rows /\ Select(f) \in SUBSET Row
  BY DEF Select, RowsNumbered
<1>2. IsFiniteSet(Select(f))
  BY <1>1, FS_Subset DEF RowsNumbered
<1> QED BY <1>1, <1>2, FS_CardinalityType

(* A position is a number, and it grows with the list.                     *)
LEMMA PositionGrows ==
    ASSUME NEW S, NEW T \in SUBSET S, IsFiniteSet(S), NEW r
    PROVE  /\ Position(r, S) \in Nat /\ Position(r, T) \in Nat
           /\ Position(r, T) <= Position(r, S)
<1> DEFINE P == {q \in S : Precedes(q, r)}
           Q == {q \in T : Precedes(q, r)}
<1>1. P \in SUBSET S /\ Q \in SUBSET P
  OBVIOUS
<1> HIDE DEF P, Q
<1>2. IsFiniteSet(P)
  BY <1>1, FS_Subset
<1>3. IsFiniteSet(Q) /\ Cardinality(Q) <= Cardinality(P)
  BY <1>1, <1>2, FS_Subset
<1>4. Cardinality(P) \in Nat /\ Cardinality(Q) \in Nat
  BY <1>2, <1>3, FS_CardinalityType
<1> QED BY <1>3, <1>4 DEF P, Q, Position

(* The page has as many rows as the walk goes on by.                       *)
LEMMA LimitIsPageSize == Limit = PageSize /\ PageSize \in Nat /\ PageSize > 0
BY SessionsAssumption, PageFits DEF Limit

(* A page shows what of R is not behind it.                                *)
LEMMA PageShows ==
    ASSUME RowsNumbered, NEW f, NEW o \in Nat, NEW rank \in Rankings(Select(f)),
           NEW R, Beyond(f, o, R), NEW q, q.filter = f, q.offset = o, q.total \in Nat,
           q.items = {r \in Select(f) : o <= rank[r] /\ rank[r] < o + Limit},
           q.exact => q.total = Cardinality(Select(f))
    PROVE  Shows(q, R)
<1>1. /\ \A r \in R : /\ r \in Select(f) /\ rank[r] = Position(r, Select(f))
                      /\ rank[r] \in Nat /\ rank[r] < Cardinality(Select(f))
                      /\ rank[r] >= o
      /\ Cardinality(Select(f)) \in Nat
  BY RankIsPosition, SelectFinite DEF Beyond
<1>2. Beyond(f, o + PageSize, R \ q.items)
  BY <1>1, LimitIsPageSize DEF Beyond
<1>3. q.exact /\ q.offset + PageSize >= q.total => R \subseteq q.items
  BY <1>1, LimitIsPageSize
<1> QED BY <1>2, <1>3 DEF Shows

-----------------------------------------------------------------------------
(* The steps.                                                              *)

(* What is known of a request depends on the rows and the walk alone.      *)
LEMMA RequestKept ==
    ASSUME NEW q, UNCHANGED <<rows, history>>, RequestInv(q)
    PROVE  RequestInv(q)'
<1>1. rows' = rows /\ last' = last /\ walk' = walk
  BY DEF history
<1> QED BY <1>1 DEF RequestInv, AsksForUnseen, Shows, Continues, Unseen, Beyond, Select

(* So does what is known of the walk, but for the total.                   *)
LEMMA WalkKept ==
    ASSUME UNCHANGED <<rows, total, history>>, WalkGoesOn, WalkMissesNothing
    PROVE  WalkGoesOn' /\ WalkMissesNothing'
<1>1. rows' = rows /\ last' = last /\ walk' = walk /\ total' = total
  BY DEF history
<1> QED BY <1>1 DEF WalkGoesOn, WalkMissesNothing, Unseen, Beyond, Select

(* A request is sent.                                                      *)
LEMMA LoadStep ==
    ASSUME SessionsInv, NEW f \in Filters, NEW o \in Nat, Load(f, o), controls' = f,
           o = last.offset + PageSize => total > 0
    PROVE  SessionsInv'
<1> DEFINE new == Request(loads, f, o, asked = {})
<1>1. /\ asked' = {[q EXCEPT !.alone = FALSE] : q \in asked} \cup {new}
      /\ loads' = loads + 1 /\ error' = FALSE
      /\ UNCHANGED <<rows, total, offset, history>>
  BY DEF Load
<1>2. rows' = rows /\ total' = total /\ offset' = offset /\ last' = last /\ walk' = walk
  BY <1>1 DEF history
<1>3. new \in Requests /\ new.filter = f /\ new.offset = o
  BY DEF Request, Requests, SessionsInv, PageTyped
<1>4. ASSUME NEW q \in asked
      PROVE  [q EXCEPT !.alone = FALSE] \in Requests /\ ~[q EXCEPT !.alone = FALSE].alone
  BY DEF Requests, SessionsInv, PageTyped
<1>5. RowsNumbered'
  BY <1>2 DEF SessionsInv, RowsNumbered
<1>6. PageTyped'
  <2>1. asked' \subseteq Requests
    BY <1>1, <1>3, <1>4
  <2>2. loads' \in Nat
    BY <1>1 DEF SessionsInv, PageTyped
  <2> QED BY <1>2, <2>1, <2>2 DEF SessionsInv, PageTyped
<1>7. AloneIsLatest'
  <2> SUFFICES ASSUME NEW p \in asked', p.alone
               PROVE  asked' = {p} /\ p.filter = controls'
    BY DEF AloneIsLatest
  <2>1. p = new
    BY <1>1, <1>4
  <2>2. asked = {}
    BY <2>1 DEF Request
  <2> QED BY <1>1, <1>3, <2>1, <2>2
<1>8. WalkGoesOn' /\ WalkMissesNothing'
  BY <1>1, WalkKept DEF SessionsInv
<1>9. ASSUME NEW q \in asked
      PROVE  RequestInv([q EXCEPT !.alone = FALSE])
  <2> DEFINE p == [q EXCEPT !.alone = FALSE]
  <2>1. RequestInv(q) /\ q \in Requests
    BY DEF SessionsInv, PageTyped
  <2>2. /\ p.filter = q.filter /\ p.offset = q.offset /\ p.step = q.step
        /\ p.total = q.total /\ p.items = q.items /\ p.counted = q.counted
        /\ p.exact = q.exact /\ ~p.alone
    BY <2>1 DEF Requests
  <2> HIDE DEF p
  <2>3. AsksForUnseen(p)
    BY <2>2 DEF AsksForUnseen
  <2>4. Shows(q, q.counted) => Shows(p, p.counted)
    BY <2>2 DEF Shows
  <2>5. RequestInv(p)
    BY <2>1, <2>2, <2>3, <2>4 DEF RequestInv
  <2> QED BY <2>5 DEF p
<1>10. RequestInv(new)
  <2>1. /\ new.step = "sent" /\ new.total = 0 /\ new.counted = {} /\ ~new.exact
    BY DEF Request
  <2>2. AsksForUnseen(new)
    <3> SUFFICES ASSUME Continues(new) PROVE Beyond(f, o, Unseen)
      BY <1>3 DEF AsksForUnseen
    <3>1. walk # NoWalk /\ f = last.filter /\ o = last.offset + PageSize
      BY <1>3 DEF Continues
    <3>2. Beyond(last.filter, last.offset + PageSize, Unseen)
      BY <3>1 DEF SessionsInv, WalkGoesOn
    <3> QED BY <3>1, <3>2
  <2> QED BY <2>1, <2>2 DEF RequestInv
<1>11. \A p \in asked' : RequestInv(p)'
  <2> SUFFICES ASSUME NEW p \in asked' PROVE RequestInv(p)'
    OBVIOUS
  <2>1. RequestInv(p)
    BY <1>1, <1>9, <1>10
  <2> QED BY <1>1, <2>1, RequestKept
<1>12. QuietPageMatchesControls'
  BY <1>1 DEF QuietPageMatchesControls
<1> QED BY <1>5, <1>6, <1>7, <1>8, <1>11, <1>12 DEF SessionsInv

(* The handler of a request gets on.                                       *)
LEMMA HandlerStep ==
    ASSUME SessionsInv, NEW q \in asked, NEW p \in Requests,
           asked' = (asked \ {q}) \cup {p}, UNCHANGED <<rows, page, loads, history>>,
           p.alone = q.alone, p.filter = q.filter, RequestInv(p)
    PROVE  SessionsInv'
<1>1. /\ rows' = rows /\ total' = total /\ offset' = offset /\ last' = last /\ walk' = walk
      /\ controls' = controls /\ loads' = loads
      /\ UNCHANGED <<rows, total, history>> /\ UNCHANGED <<rows, history>>
  BY DEF history, page
<1>2. RowsNumbered'
  BY <1>1 DEF SessionsInv, RowsNumbered
<1>3. PageTyped'
  BY <1>1 DEF SessionsInv, PageTyped
<1>4. AloneIsLatest'
  <2> SUFFICES ASSUME NEW a \in asked', a.alone
               PROVE  asked' = {a} /\ a.filter = controls'
    BY DEF AloneIsLatest
  <2>1. AloneIsLatest
    BY DEF SessionsInv
  <2>2. CASE a = p
    <3>1. asked = {q} /\ q.filter = controls
      BY <2>1, <2>2 DEF AloneIsLatest
    <3> QED BY <1>1, <2>2, <3>1
  <2>3. CASE a \in asked \ {q}
    <3>1. asked = {a}
      BY <2>1, <2>3 DEF AloneIsLatest
    <3> QED BY <2>3, <3>1
  <2> QED BY <2>2, <2>3
<1>5. WalkGoesOn' /\ WalkMissesNothing'
  BY <1>1, WalkKept DEF SessionsInv
<1>6. \A a \in asked' : RequestInv(a)'
  <2> SUFFICES ASSUME NEW a \in asked' PROVE RequestInv(a)'
    OBVIOUS
  <2>1. RequestInv(a)
    BY DEF SessionsInv
  <2> QED BY <1>1, <2>1, RequestKept
<1>7. QuietPageMatchesControls'
  <2>1. asked' # {}
    OBVIOUS
  <2> QED BY <2>1 DEF QuietPageMatchesControls
<1> QED BY <1>2, <1>3, <1>4, <1>5, <1>6, <1>7 DEF SessionsInv

(* Only one request can have been alone.                                   *)
LEMMA OthersAreNotAlone ==
    ASSUME AloneIsLatest, NEW q \in asked, NEW p \in asked \ {q}
    PROVE  ~p.alone /\ ~q.alone
BY DEF AloneIsLatest

(* query.count()                                                           *)
LEMMA CountStep ==
    ASSUME SessionsInv, NEW q \in asked, Count(q)
    PROVE  SessionsInv'
<1> DEFINE S == Select(q.filter)
           p == [q EXCEPT !.step = "counted", !.total = Cardinality(S),
                          !.counted = IF q.offset = 0 THEN S ELSE {}]
<1>1. /\ q \in Requests /\ RequestInv(q) /\ q.step = "sent"
      /\ asked' = (asked \ {q}) \cup {p} /\ UNCHANGED <<rows, page, loads, history>>
  BY DEF Count, SessionsInv, PageTyped
<1>2. S \in SUBSET Row /\ Cardinality(S) \in Nat
  BY SelectFinite DEF SessionsInv
<1> HIDE DEF S
<1>3. /\ p \in Requests /\ p.alone = q.alone /\ p.filter = q.filter /\ p.offset = q.offset
      /\ p.step = "counted" /\ p.counted = IF q.offset = 0 THEN S ELSE {}
  BY <1>1, <1>2 DEF Requests
<1> HIDE DEF p
<1>4. AsksForUnseen(p)
  BY <1>1, <1>3 DEF RequestInv, AsksForUnseen, Continues
<1>5. RequestInv(p)
  BY <1>3, <1>4 DEF RequestInv, S
<1> QED BY <1>1, <1>3, <1>5, HandlerStep

(* The page is read.                                                       *)
LEMMA ReadPageStep ==
    ASSUME SessionsInv, NEW q \in asked, ReadPage(q)
    PROVE  SessionsInv'
<1> DEFINE S == Select(q.filter)
<1>1. /\ q \in Requests /\ RequestInv(q) /\ q.step = "counted"
      /\ UNCHANGED <<rows, page, loads, history>> /\ RowsNumbered
  BY DEF ReadPage, SessionsInv, PageTyped
<1>2. q.offset \in Nat /\ Offset(q.offset) = q.offset
  BY <1>1 DEF Requests, Offset
<1>3. PICK rank \in Rankings(S) :
        asked' = (asked \ {q}) \cup
          {[q EXCEPT !.step = "paged", !.exact = q.total = Cardinality(S),
                     !.items = {r \in S : Offset(q.offset) <= rank[r]
                                           /\ rank[r] < Offset(q.offset) + Limit}]}
  BY DEF ReadPage
<1> DEFINE shown == {r \in S : q.offset <= rank[r] /\ rank[r] < q.offset + Limit}
           p == [q EXCEPT !.step = "paged", !.exact = q.total = Cardinality(S), !.items = shown]
<1>4. asked' = (asked \ {q}) \cup {p}
  <2>1. shown = {r \in S : Offset(q.offset) <= rank[r] /\ rank[r] < Offset(q.offset) + Limit}
    BY <1>2
  <2> HIDE DEF shown
  <2> QED BY <1>3, <2>1
<1>5. shown \in SUBSET Row
  BY <1>1, SelectFinite
<1> HIDE DEF shown
<1>6. /\ p \in Requests /\ p.alone = q.alone /\ p.filter = q.filter /\ p.offset = q.offset
      /\ p.step = "paged" /\ p.counted = q.counted /\ p.total = q.total /\ p.items = shown
      /\ p.exact <=> q.total = Cardinality(S)
  BY <1>1, <1>5 DEF Requests
<1> HIDE DEF p
<1>7. q.total \in Nat
  BY <1>1 DEF Requests
<1>8. ASSUME NEW R, Beyond(q.filter, q.offset, R)
      PROVE  Shows(p, R)
  BY <1>1, <1>2, <1>6, <1>7, <1>8, PageShows DEF shown
<1>9. q.offset = 0 => Shows(p, p.counted)
  <2> SUFFICES ASSUME q.offset = 0 PROVE Beyond(q.filter, q.offset, q.counted)
    BY <1>6, <1>8
  <2>1. q.counted \subseteq S
    BY <1>1 DEF RequestInv
  <2>2. \A r \in q.counted : Position(r, S) \in Nat
    BY <1>1, SelectFinite, PositionGrows
  <2> QED BY <2>1, <2>2 DEF Beyond
<1>10. p.alone /\ Continues(p) => Shows(p, Unseen)
  <2> SUFFICES ASSUME p.alone, Continues(p) PROVE Beyond(q.filter, q.offset, Unseen)
    BY <1>8
  <2> QED BY <1>1, <1>6 DEF RequestInv, AsksForUnseen, Continues
<1>11. RequestInv(p)
  <2>1. p.offset = 0 => p.counted \subseteq Select(p.filter)
    BY <1>1, <1>6 DEF RequestInv
  <2>2. AsksForUnseen(p)
    BY <1>6 DEF AsksForUnseen
  <2> QED BY <1>6, <1>9, <1>10, <2>1, <2>2 DEF RequestInv
<1> QED BY <1>1, <1>4, <1>6, <1>11, HandlerStep

(* The answer is empty.                                                    *)
LEMMA AnswerEmptyStep ==
    ASSUME SessionsInv, NEW q \in asked, AnswerEmpty(q)
    PROVE  SessionsInv'
<1> DEFINE p == [q EXCEPT !.step = "paged"]
<1>1. /\ q \in Requests /\ RequestInv(q) /\ q.step = "sent"
      /\ asked' = (asked \ {q}) \cup {p} /\ UNCHANGED <<rows, page, loads, history>>
  BY DEF AnswerEmpty, SessionsInv, PageTyped
<1>2. /\ p \in Requests /\ p.alone = q.alone /\ p.filter = q.filter /\ p.step = "paged"
      /\ p.total = q.total /\ p.counted = q.counted /\ p.exact = q.exact
  BY <1>1 DEF Requests
<1> HIDE DEF p
<1>3. p.total = 0 /\ p.counted = {} /\ ~p.exact
  BY <1>1, <1>2 DEF RequestInv
<1>4. AsksForUnseen(p) /\ \A R : Shows(p, R)
  BY <1>2, <1>3 DEF AsksForUnseen, Shows
<1>5. RequestInv(p)
  BY <1>2, <1>3, <1>4 DEF RequestInv
<1> QED BY <1>1, <1>2, <1>5, HandlerStep

(* A request fails.                                                        *)
LEMMA FailStep ==
    ASSUME SessionsInv, NEW q \in asked, Fail(q)
    PROVE  SessionsInv'
<1>1. /\ asked' = asked \ {q} /\ error' = TRUE /\ rows' = rows /\ total' = total
      /\ offset' = offset /\ last' = last /\ walk' = walk /\ controls' = controls
      /\ loads' = loads /\ UNCHANGED <<rows, total, history>> /\ UNCHANGED <<rows, history>>
  BY DEF Fail, history
<1>2. RowsNumbered' /\ PageTyped'
  BY <1>1 DEF SessionsInv, RowsNumbered, PageTyped
<1>3. AloneIsLatest'
  BY <1>1 DEF SessionsInv, AloneIsLatest
<1>4. WalkGoesOn' /\ WalkMissesNothing'
  BY <1>1, WalkKept DEF SessionsInv
<1>5. \A a \in asked' : RequestInv(a)'
  BY <1>1, RequestKept DEF SessionsInv
<1>6. QuietPageMatchesControls'
  BY <1>1 DEF QuietPageMatchesControls
<1> QED BY <1>2, <1>3, <1>4, <1>5, <1>6 DEF SessionsInv

(* An answer is applied.                                                   *)
LEMMA ArriveStep ==
    ASSUME SessionsInv, NEW q \in asked, Arrive(q)
    PROVE  SessionsInv'
<1>1. /\ q \in Requests /\ RequestInv(q) /\ q.step = "paged"
      /\ asked' = asked \ {q} /\ rows' = rows /\ total' = q.total /\ offset' = q.offset
      /\ last' = [filter |-> q.filter, offset |-> q.offset, alone |-> q.alone]
      /\ walk' = Extended(q) /\ controls' = controls /\ loads' = loads
  BY DEF Arrive, SessionsInv, PageTyped
<1>2. RowsNumbered'
  BY <1>1 DEF SessionsInv, RowsNumbered
<1>3. PageTyped'
  BY <1>1 DEF SessionsInv, PageTyped, Requests
<1>4. AloneIsLatest'
  BY <1>1 DEF SessionsInv, AloneIsLatest
<1>5. q.alone => asked' = {} /\ q.filter = controls
  BY <1>1 DEF SessionsInv, AloneIsLatest
<1>6. ASSUME walk' # NoWalk
      PROVE  /\ q.alone
             /\ Shows(q, walk'.from \ (walk'.seen \ q.items))
             /\ q.items \subseteq walk'.seen
             /\ walk'.complete = (q.exact /\ q.offset + PageSize >= q.total)
  <2>1. q.alone
    BY <1>1, <1>6 DEF Extended
  <2>2. CASE q.offset = 0
    <3>1. walk' = [from |-> q.counted, seen |-> q.items,
                   complete |-> q.exact /\ q.offset + PageSize >= q.total]
      BY <1>1, <2>1, <2>2 DEF Extended
    <3>2. Shows(q, q.counted)
      BY <1>1, <2>2 DEF RequestInv
    <3>3. walk'.from \ (walk'.seen \ q.items) = q.counted
      BY <3>1
    <3> QED BY <2>1, <3>1, <3>2, <3>3
  <2>3. CASE q.offset # 0
    <3>1. /\ walk # NoWalk /\ q.filter = last.filter /\ q.offset = last.offset + PageSize
          /\ walk' = [from |-> walk.from, seen |-> walk.seen \cup q.items,
                      complete |-> q.exact /\ q.offset + PageSize >= q.total]
      BY <1>1, <1>6, <2>1, <2>3 DEF Extended
    <3>2. Shows(q, Unseen)
      BY <1>1, <2>1, <3>1 DEF RequestInv, Continues
    <3>3. \A r \in walk'.from \ (walk'.seen \ q.items) : r \in Unseen \/ r \in q.items
      BY <3>1 DEF Unseen
    <3>4. Shows(q, walk'.from \ (walk'.seen \ q.items))
      BY <3>2, <3>3 DEF Shows, Beyond
    <3> QED BY <2>1, <3>1, <3>4
  <2> QED BY <2>2, <2>3
<1>7. WalkGoesOn'
  <2> SUFFICES ASSUME walk' # NoWalk, total' > 0
               PROVE  \A r \in walk'.from \ walk'.seen :
                        r \in Select(q.filter)
                        /\ Position(r, Select(q.filter)) >= q.offset + PageSize
    BY <1>1 DEF WalkGoesOn, Beyond, Unseen, Select
  <2>1. Beyond(q.filter, q.offset + PageSize, (walk'.from \ (walk'.seen \ q.items)) \ q.items)
    BY <1>1, <1>6 DEF Shows
  <2>2. \A r \in walk'.from \ walk'.seen :
          r \in (walk'.from \ (walk'.seen \ q.items)) \ q.items
    BY <1>6
  <2> QED BY <2>1, <2>2 DEF Beyond
<1>8. WalkMissesNothing'
  <2> SUFFICES ASSUME walk' # NoWalk, walk'.complete PROVE walk'.from \subseteq walk'.seen
    BY DEF WalkMissesNothing
  <2>1. walk'.from \ (walk'.seen \ q.items) \subseteq q.items
    BY <1>6 DEF Shows
  <2> QED BY <1>6, <2>1
<1>9. \A a \in asked' : RequestInv(a)'
  <2> SUFFICES ASSUME NEW a \in asked' PROVE RequestInv(a)'
    OBVIOUS
  <2>1. ~a.alone /\ RequestInv(a)
    BY <1>1, OthersAreNotAlone DEF SessionsInv
  <2>2. Select(a.filter)' = Select(a.filter)
    BY <1>1 DEF Select
  <2>3. Shows(a, a.counted) => Shows(a, a.counted)'
    BY <2>2 DEF Shows, Beyond
  <2> QED BY <2>1, <2>2, <2>3 DEF RequestInv, AsksForUnseen
<1>10. QuietPageMatchesControls'
  BY <1>1, <1>5 DEF QuietPageMatchesControls
<1> QED BY <1>2, <1>3, <1>4, <1>7, <1>8, <1>9, <1>10 DEF SessionsInv

(* A session is committed: what was behind a page stays behind it.         *)
LEMMA InsertStep ==
    ASSUME SessionsInv, Insert
    PROVE  SessionsInv'
<1>1. /\ Cardinality(rows) < MaxRows
      /\ \E t \in Times, a \in Agents :
           rows' = rows \cup {[id |-> Cardinality(rows) + 1, created |-> t, agent |-> a]}
      /\ asked' = asked /\ total' = total /\ offset' = offset /\ last' = last /\ walk' = walk
      /\ controls' = controls /\ loads' = loads /\ error' = error
  BY DEF Insert, page, history
<1>2. RowsNumbered'
  <2>0. RowsNumbered /\ Cardinality(rows) \in Nat /\ MaxRows \in Nat
    BY FS_CardinalityType, SessionsAssumption DEF SessionsInv, RowsNumbered
  <2>1. PICK t \in Times, a \in Agents :
          rows' = rows \cup {[id |-> Cardinality(rows) + 1, created |-> t, agent |-> a]}
    BY <1>1
  <2> DEFINE new == [id |-> Cardinality(rows) + 1, created |-> t, agent |-> a]
  <2>2. new \in Row /\ new.id = Cardinality(rows) + 1
    BY <1>1, <2>0 DEF Row
  <2> HIDE DEF new
  <2>3. \A r \in rows : r.id \in Nat /\ r.id <= Cardinality(rows)
    BY <2>0, RowNumbers DEF RowsNumbered
  <2>4. new \notin rows
    BY <2>0, <2>2, <2>3
  <2>5. rows' = rows \cup {new}
    BY <2>1 DEF new
  <2>6. IsFiniteSet(rows') /\ Cardinality(rows') = Cardinality(rows) + 1
    BY <2>0, <2>4, <2>5, FS_AddElement DEF RowsNumbered
  <2>7. rows' \subseteq Row
    BY <2>0, <2>2, <2>5 DEF RowsNumbered
  <2>8. \A r \in rows' : r.id <= Cardinality(rows')
    BY <2>0, <2>2, <2>3, <2>5, <2>6
  <2>9. \A q, r \in rows' : q.id = r.id => q = r
    BY <2>0, <2>2, <2>3, <2>5 DEF RowsNumbered
  <2> QED BY <2>6, <2>7, <2>8, <2>9 DEF RowsNumbered
<1>3. ASSUME NEW f
      PROVE  /\ Select(f) \subseteq Select(f)'
             /\ \A r : /\ Position(r, Select(f)) \in Nat /\ Position(r, Select(f)') \in Nat
                       /\ Position(r, Select(f)) <= Position(r, Select(f)')
  <2>1. Select(f) \in SUBSET Select(f)'
    BY <1>1 DEF Select
  <2>2. Select(f)' \in SUBSET rows'
    BY DEF Select
  <2>3. IsFiniteSet(Select(f)')
    BY <1>2, <2>2, FS_Subset DEF RowsNumbered
  <2> QED BY <2>1, <2>3, PositionGrows
<1>4. ASSUME NEW f, NEW o \in Nat, NEW R, Beyond(f, o, R)
      PROVE  \A r \in R : r \in Select(f)' /\ Position(r, Select(f)') >= o
  <2> SUFFICES ASSUME NEW r \in R PROVE r \in Select(f)' /\ Position(r, Select(f)') >= o
    OBVIOUS
  <2>1. r \in Select(f) /\ Position(r, Select(f)) >= o
    BY <1>4 DEF Beyond
  <2> QED BY <1>3, <2>1
<1>5. PageTyped' /\ AloneIsLatest' /\ WalkMissesNothing' /\ QuietPageMatchesControls'
  BY <1>1 DEF SessionsInv, PageTyped, AloneIsLatest, WalkMissesNothing,
              QuietPageMatchesControls
<1>6. WalkGoesOn'
  <2> SUFFICES ASSUME walk # NoWalk, total > 0
               PROVE  Beyond(last.filter, last.offset + PageSize, Unseen)'
    BY <1>1 DEF WalkGoesOn
  <2>1. Beyond(last.filter, last.offset + PageSize, Unseen)
    BY DEF SessionsInv, WalkGoesOn
  <2>2. last.offset + PageSize \in Nat
    BY LimitIsPageSize DEF SessionsInv, PageTyped
  <2>3. PICK f, o, R : f = last.filter /\ o = last.offset + PageSize /\ R = Unseen
    OBVIOUS
  <2>4. \A r \in R : r \in Select(f)' /\ Position(r, Select(f)') >= o
    BY <1>4, <2>1, <2>2, <2>3
  <2>5. Select(last.filter)' = Select(f)' /\ Unseen' = R /\ (last.offset + PageSize)' = o
    BY <1>1, <2>3 DEF Select, Unseen
  <2> QED BY <2>4, <2>5 DEF Beyond
<1>7. ASSUME NEW q \in asked
      PROVE  RequestInv(q)'
  <2>1. /\ q \in Requests /\ RequestInv(q) /\ q.offset \in Nat
        /\ q.offset + PageSize \in Nat
    BY LimitIsPageSize DEF SessionsInv, PageTyped, Requests
  <2>2. Unseen' = Unseen /\ (Continues(q)' <=> Continues(q))
    BY <1>1 DEF Unseen, Continues
  <2>3. AsksForUnseen(q)'
    <3> SUFFICES ASSUME q.alone, Continues(q), q.step \in {"sent", "counted"}
                 PROVE  Beyond(q.filter, q.offset, Unseen)'
      BY <2>2 DEF AsksForUnseen
    <3>1. Beyond(q.filter, q.offset, Unseen)
      BY <2>1 DEF RequestInv, AsksForUnseen
    <3> QED BY <1>4, <2>1, <2>2, <3>1 DEF Beyond
  <2>4. ASSUME NEW R, Shows(q, R)
        PROVE  /\ q.total > 0 => \A r \in R \ q.items :
                    /\ r \in Select(q.filter)'
                    /\ Position(r, Select(q.filter)') >= q.offset + PageSize
               /\ q.exact /\ q.offset + PageSize >= q.total => R \subseteq q.items
    BY <1>4, <2>1, <2>4 DEF Shows
  <2>5. q.offset = 0 => q.counted \subseteq Select(q.filter)'
    BY <1>3, <2>1 DEF RequestInv
  <2>6. q.step = "paged" /\ q.offset = 0 => Shows(q, q.counted)'
    BY <2>1, <2>4 DEF RequestInv, Shows, Beyond
  <2>7. q.step = "paged" /\ q.alone /\ Continues(q)' => Shows(q, Unseen)'
    BY <2>1, <2>2, <2>4 DEF RequestInv, Shows, Beyond
  <2> QED BY <2>1, <2>3, <2>5, <2>6, <2>7 DEF RequestInv
<1> QED BY <1>1, <1>2, <1>5, <1>6, <1>7 DEF SessionsInv

(* Pages are numbered from zero.                                           *)
LEMMA PageNumber ==
    ASSUME NEW o \in Nat, NEW n \in Nat, n > 0
    PROVE  o \div n \in Nat
OBVIOUS

(* At the start nothing is stored, and the first page is asked for.        *)
LEMMA SessionsStart ==
    ASSUME Init
    PROVE  SessionsInv
<1> DEFINE first == Request(0, controls, 0, TRUE)
<1>1. /\ asked = {first} /\ rows = {} /\ controls \in Filters /\ total = 0 /\ offset = 0
      /\ loads = 1 /\ walk = NoWalk
      /\ last = [filter |-> controls, offset |-> 0, alone |-> TRUE]
  BY DEF Init
<1>2. /\ first \in Requests /\ first.filter = controls /\ first.step = "sent"
      /\ first.total = 0 /\ first.counted = {} /\ ~first.exact
  BY <1>1 DEF Request, Requests
<1> HIDE DEF first
<1>3. RowsNumbered
  BY <1>1, FS_EmptySet DEF RowsNumbered
<1>4. PageTyped
  BY <1>1, <1>2 DEF PageTyped
<1>5. AloneIsLatest
  BY <1>1, <1>2 DEF AloneIsLatest
<1>6. WalkGoesOn /\ WalkMissesNothing
  BY <1>1 DEF WalkGoesOn, WalkMissesNothing
<1>7. RequestInv(first)
  BY <1>1, <1>2 DEF RequestInv, AsksForUnseen, Continues
<1>8. QuietPageMatchesControls
  BY <1>1 DEF QuietPageMatchesControls
<1> QED BY <1>1, <1>3, <1>4, <1>5, <1>6, <1>7, <1>8 DEF SessionsInv

(* The invariant holds in every state: whatever a walk has not shown yet   *)
(* is behind the page shown last, however rows arrive, and is what the     *)
(* request that continues it asked for.                                    *)
THEOREM SessionsInductive == Spec => []SessionsInv
<1>1. Init => SessionsInv
  BY SessionsStart
<1>2. SessionsInv /\ [Next]_vars => SessionsInv'
  <2> SUFFICES ASSUME SessionsInv, [Next]_vars PROVE SessionsInv'
    OBVIOUS
  <2>0. /\ controls \in Filters /\ total \in Nat /\ offset \in Nat /\ last.offset = offset
        /\ PageSize \in Nat /\ PageSize > 0
    BY LimitIsPageSize DEF SessionsInv, PageTyped
  <2>1. CASE Edit
    <3>1. PICK f \in Filters : controls' = f /\ Load(f, 0)
      BY <2>1 DEF Edit
    <3> QED BY <2>0, <3>1, LoadStep
  <2>2. CASE Apply
    <3>1. Load(controls, 0) /\ controls' = controls
      BY <2>2 DEF Apply
    <3>2. PICK f \in Filters : f = controls
      BY <2>0
    <3> QED BY <2>0, <3>1, <3>2, LoadStep
  <2>3. ASSUME Previous \/ NextPage \/ Retry
        PROVE  \E f \in Filters, o \in Nat :
                 /\ Load(f, o) /\ controls' = f
                 /\ o = last.offset + PageSize => total > 0
    <3>1. Page \in Nat
      BY <2>0, PageNumber DEF Page
    <3>2. CASE Retry
      <4>1. Load(controls, offset) /\ controls' = controls
        BY <3>2 DEF Retry
      <4> QED BY <2>0, <4>1
    <3>3. CASE Previous
      <4>1. Page - 1 \in Nat
        BY <3>1, <3>3 DEF Previous
      <4>2. (Page - 1) * PageSize \in Nat
        BY <2>0, <4>1
      <4>3. total > PageSize /\ Load(controls, (Page - 1) * PageSize) /\ controls' = controls
        BY <3>3 DEF Previous, Turn
      <4> QED BY <2>0, <4>2, <4>3
    <3>4. CASE NextPage
      <4>2. (Page + 1) * PageSize \in Nat
        BY <2>0, <3>1
      <4>3. total > PageSize /\ Load(controls, (Page + 1) * PageSize) /\ controls' = controls
        BY <3>4 DEF NextPage, Turn
      <4> QED BY <2>0, <4>2, <4>3
    <3> QED BY <2>3, <3>2, <3>3, <3>4
  <2>4. CASE Previous \/ NextPage \/ Retry
    BY <2>3, <2>4, LoadStep
  <2>5. CASE \E q \in asked : Count(q) \/ ReadPage(q) \/ AnswerEmpty(q) \/ Arrive(q) \/ Fail(q)
    BY <2>5, CountStep, ReadPageStep, AnswerEmptyStep, ArriveStep, FailStep
  <2>6. CASE Insert
    BY <2>6, InsertStep
  <2>7. CASE UNCHANGED vars
    <3>1. /\ rows' = rows /\ asked' = asked /\ total' = total /\ offset' = offset
          /\ last' = last /\ walk' = walk /\ controls' = controls /\ loads' = loads
          /\ error' = error /\ UNCHANGED <<rows, total, history>>
          /\ UNCHANGED <<rows, history>>
      BY <2>7 DEF vars, page, history
    <3>2. RowsNumbered' /\ PageTyped' /\ AloneIsLatest' /\ QuietPageMatchesControls'
      BY <3>1 DEF SessionsInv, RowsNumbered, PageTyped, AloneIsLatest,
                  QuietPageMatchesControls
    <3>3. WalkGoesOn' /\ WalkMissesNothing'
      BY <3>1, WalkKept DEF SessionsInv
    <3>4. \A q \in asked' : RequestInv(q)'
      BY <3>1, RequestKept DEF SessionsInv
    <3> QED BY <3>2, <3>3, <3>4 DEF SessionsInv
  <2> QED BY <2>1, <2>2, <2>4, <2>5, <2>6, <2>7 DEF Next
<1> QED BY <1>1, <1>2, PTL DEF Spec

(* What else keeps the variables in their ranges: counts and offsets of    *)
(* answers and requests do not exceed the sessions there are.              *)
InRange ==
    /\ Cardinality(rows) <= MaxRows
    /\ \A q \in asked : q.total <= MaxRows /\ q.offset <= MaxRows
    /\ total <= MaxRows /\ offset <= MaxRows
    /\ items \in (SUBSET Row) \cup {NoItems}
    /\ loading \in BOOLEAN /\ error \in BOOLEAN
    /\ loads \in 1..MaxLoads
    /\ walk = NoWalk \/ walk.seen \cup walk.from \subseteq Row

LEMMA Division ==
    ASSUME NEW a \in Nat, NEW n \in Nat \ {0}
    PROVE  a \div n \in Nat /\ (a \div n) * n <= a
OBVIOUS

(* The previous page is not behind this one, and the next one, where there *)
(* is one, begins within the total.                                        *)
LEMMA PageBefore ==
    ASSUME NEW o \in Nat, NEW n \in Nat \ {0}, o \div n # 0
    PROVE  ((o \div n) - 1) * n \in Nat /\ ((o \div n) - 1) * n <= o
<1> DEFINE d == o \div n
<1>1. d \in Nat /\ d * n <= o /\ d # 0
  BY Division
<1> HIDE DEF d
<1>2. (d - 1) * n = d * n - n /\ d * n \in Nat /\ d - 1 \in Nat
  BY <1>1
<1>3. (d - 1) * n \in Nat /\ (d - 1) * n <= o
  BY <1>1, <1>2
<1> QED BY <1>3 DEF d

LEMMA PageAfter ==
    ASSUME NEW p \in Nat, NEW t \in Nat, NEW n \in Nat \ {0}, p < (t + n - 1) \div n
    PROVE  p * n \in Nat /\ p * n <= t
<1> DEFINE d == (t + n - 1) \div n
<1>1. d \in Nat /\ d * n <= t + n - 1 /\ p < d
  <2>1. t + n - 1 \in Nat
    OBVIOUS
  <2> QED BY <2>1, Division
<1> HIDE DEF d
<1>2. PICK e \in Nat : d = p + 1 + e
  <2>1. d - p - 1 \in Nat /\ d = p + 1 + (d - p - 1)
    BY <1>1
  <2> QED BY <2>1
<1>3. d * n = p * n + n + e * n /\ e * n \in Nat /\ p * n \in Nat
  BY <1>2
<1> QED BY <1>1, <1>3

LEMMA LoadInRange ==
    ASSUME SessionsInv, InRange, NEW f \in Filters, NEW o \in Nat, Load(f, o), o <= MaxRows
    PROVE  InRange'
<1> DEFINE new == Request(loads, f, o, asked = {})
<1>1. /\ asked' = {[q EXCEPT !.alone = FALSE] : q \in asked} \cup {new}
      /\ loads < MaxLoads /\ loads' = loads + 1 /\ error' = FALSE /\ loading' = TRUE
      /\ rows' = rows /\ items' = items /\ total' = total /\ offset' = offset /\ walk' = walk
  BY DEF Load, history
<1>2. new.total <= MaxRows /\ new.offset <= MaxRows
  BY SessionsAssumption DEF Request
<1>3. ASSUME NEW q \in asked
      PROVE  /\ [q EXCEPT !.alone = FALSE].total <= MaxRows
             /\ [q EXCEPT !.alone = FALSE].offset <= MaxRows
  <2>1. q \in Requests
    BY DEF SessionsInv, PageTyped
  <2>2. [q EXCEPT !.alone = FALSE].total = q.total /\ [q EXCEPT !.alone = FALSE].offset = q.offset
    BY <2>1 DEF Requests
  <2> QED BY <2>2 DEF InRange
<1> HIDE DEF new
<1>4. \A q \in asked' : q.total <= MaxRows /\ q.offset <= MaxRows
  BY <1>1, <1>2, <1>3
<1>5. loads' \in 1..MaxLoads
  BY <1>1, SessionsAssumption DEF InRange
<1> QED BY <1>1, <1>4, <1>5 DEF InRange

LEMMA HandlerInRange ==
    ASSUME SessionsInv, InRange, NEW q \in asked, Count(q) \/ ReadPage(q) \/ AnswerEmpty(q)
    PROVE  InRange'
<1>1. q \in Requests /\ q.total <= MaxRows /\ q.offset <= MaxRows
  BY DEF SessionsInv, PageTyped, InRange
<1>2. UNCHANGED <<rows, page, loads, walk>>
  BY DEF Count, ReadPage, AnswerEmpty, history
<1>3. \E p : asked' = (asked \ {q}) \cup {p} /\ p.total <= MaxRows /\ p.offset <= MaxRows
  <2>1. CASE Count(q)
    <3> DEFINE S == Select(q.filter)
               p == [q EXCEPT !.step = "counted", !.total = Cardinality(S),
                              !.counted = IF q.offset = 0 THEN S ELSE {}]
    <3>1. asked' = (asked \ {q}) \cup {p}
      BY <2>1 DEF Count
    <3>2. IsFiniteSet(rows) /\ S \subseteq rows /\ Cardinality(S) \in Nat
      BY SelectFinite DEF SessionsInv, RowsNumbered
    <3>3. Cardinality(S) <= MaxRows
      <4>1. Cardinality(S) <= Cardinality(rows) /\ Cardinality(rows) \in Nat
        BY <3>2, FS_Subset, FS_CardinalityType
      <4> HIDE DEF S
      <4> QED BY <3>2, <4>1, SessionsAssumption DEF InRange
    <3> HIDE DEF S
    <3>4. p.total = Cardinality(S) /\ p.offset = q.offset
      BY <1>1 DEF Requests
    <3> QED BY <1>1, <3>1, <3>3, <3>4
  <2>2. CASE ReadPage(q)
    <3>1. PICK exact, shown :
            asked' = (asked \ {q}) \cup {[q EXCEPT !.step = "paged", !.exact = exact, !.items = shown]}
      BY <2>2 DEF ReadPage
    <3> DEFINE p == [q EXCEPT !.step = "paged", !.exact = exact, !.items = shown]
    <3>2. p.total = q.total /\ p.offset = q.offset
      BY <1>1 DEF Requests
    <3> QED BY <1>1, <3>1, <3>2
  <2>3. CASE AnswerEmpty(q)
    <3> DEFINE p == [q EXCEPT !.step = "paged"]
    <3>1. asked' = (asked \ {q}) \cup {p}
      BY <2>3 DEF AnswerEmpty
    <3>2. p.total = q.total /\ p.offset = q.offset
      BY <1>1 DEF Requests
    <3> QED BY <1>1, <3>1, <3>2
  <2> QED BY <2>1, <2>2, <2>3
<1> QED BY <1>2, <1>3 DEF InRange, page

LEMMA AnswerInRange ==
    ASSUME SessionsInv, InRange, NEW q \in asked, Arrive(q) \/ Fail(q)
    PROVE  InRange'
<1>1. q \in Requests /\ q.total <= MaxRows /\ q.offset <= MaxRows
  BY DEF SessionsInv, PageTyped, InRange
<1>2. asked' \subseteq asked /\ rows' = rows /\ loads' = loads
  BY DEF Arrive, Fail
<1>3. /\ total' <= MaxRows /\ offset' <= MaxRows
      /\ items' \in (SUBSET Row) \cup {NoItems}
      /\ loading' \in BOOLEAN /\ error' \in BOOLEAN
  <2>1. CASE Arrive(q)
    <3>1. total' = q.total /\ offset' = q.offset /\ items' = q.items /\ q.items \in SUBSET Row
          /\ loading' = FALSE /\ error' = error
      BY <1>1, <2>1 DEF Arrive, Requests
    <3> QED BY <1>1, <3>1 DEF InRange
  <2>2. CASE Fail(q)
    BY <2>2 DEF Fail, InRange
  <2> QED BY <2>1, <2>2
<1>4. walk' = NoWalk \/ walk'.seen \cup walk'.from \subseteq Row
  <2>1. CASE Arrive(q)
    <3>1. q.items \subseteq Row /\ q.counted \subseteq Row /\ walk' = Extended(q)
      BY <1>1, <2>1 DEF Arrive, Requests
    <3> QED BY <3>1 DEF Extended, InRange
  <2>2. CASE Fail(q)
    BY <2>2 DEF Fail, InRange, history
  <2> QED BY <2>1, <2>2
<1> QED BY <1>2, <1>3, <1>4 DEF InRange

LEMMA RangeStep ==
    ASSUME SessionsInv, InRange, [Next]_vars
    PROVE  InRange'
<1>0. /\ controls \in Filters /\ total \in Nat /\ offset \in Nat /\ MaxRows \in Nat
      /\ PageSize \in Nat \ {0} /\ total <= MaxRows /\ offset <= MaxRows
  BY LimitIsPageSize, SessionsAssumption DEF SessionsInv, PageTyped, InRange
<1>1. CASE Edit
  <2>1. PICK f \in Filters : Load(f, 0)
    BY <1>1 DEF Edit
  <2> QED BY <1>0, <2>1, LoadInRange
<1>2. CASE Apply
  <2>1. Load(controls, 0)
    BY <1>2 DEF Apply
  <2> QED BY <1>0, <2>1, LoadInRange
<1>3. CASE Previous
  <2>1. (Page - 1) * PageSize \in Nat /\ (Page - 1) * PageSize <= offset
    BY <1>0, <1>3, PageBefore DEF Previous, Page
  <2>2. Load(controls, (Page - 1) * PageSize)
    BY <1>3 DEF Previous, Turn
  <2>3. (Page - 1) * PageSize <= MaxRows
    BY <1>0, <2>1
  <2> QED BY <1>0, <2>1, <2>2, <2>3, LoadInRange
<1>4. CASE NextPage
  <2>1. Page + 1 \in Nat /\ Page + 1 < (total + PageSize - 1) \div PageSize
    BY <1>0, <1>4, Division DEF NextPage, Page, Pages
  <2>2. (Page + 1) * PageSize \in Nat /\ (Page + 1) * PageSize <= total
    BY <1>0, <2>1, PageAfter
  <2>3. Load(controls, (Page + 1) * PageSize)
    BY <1>4 DEF NextPage, Turn
  <2>4. (Page + 1) * PageSize <= MaxRows
    BY <1>0, <2>2
  <2> QED BY <1>0, <2>2, <2>3, <2>4, LoadInRange
<1>5. CASE Retry
  <2>1. Load(controls, offset)
    BY <1>5 DEF Retry
  <2> QED BY <1>0, <2>1, LoadInRange
<1>6. CASE \E q \in asked : Count(q) \/ ReadPage(q) \/ AnswerEmpty(q) \/ Arrive(q) \/ Fail(q)
  BY <1>6, HandlerInRange, AnswerInRange
<1>7. CASE Insert
  <2>1. /\ Cardinality(rows) < MaxRows /\ Cardinality(rows) \in Nat /\ IsFiniteSet(rows)
        /\ \E x : rows' = rows \cup {x}
    BY <1>7, FS_CardinalityType DEF Insert, SessionsInv, RowsNumbered
  <2>2. Cardinality(rows') <= MaxRows
    <3>1. PICK x : rows' = rows \cup {x}
      BY <2>1
    <3>2. Cardinality(rows') = IF x \in rows THEN Cardinality(rows) ELSE Cardinality(rows) + 1
      BY <2>1, <3>1, FS_AddElement
    <3> QED BY <1>0, <2>1, <3>2
  <2> QED BY <1>7, <2>2 DEF Insert, InRange, page, history
<1>8. CASE UNCHANGED vars
  BY <1>8 DEF vars, page, history, InRange
<1> QED BY <1>1, <1>2, <1>3, <1>4, <1>5, <1>6, <1>7, <1>8 DEF Next

(* Every variable keeps its range: counts and offsets never exceed the     *)
(* number of sessions, in whatever order answers arrive (list_sessions,    *)
(* SessionsPage).                                                          *)
THEOREM SessionsTypeCorrect == Spec => []TypeOK
<1>1. Init => InRange
  <2> SUFFICES ASSUME Init PROVE InRange
    OBVIOUS
  <2>1. /\ Cardinality(rows) = 0 /\ total = 0 /\ offset = 0 /\ items = NoItems
        /\ loading = TRUE /\ error = FALSE /\ loads = 1 /\ walk = NoWalk
    BY FS_EmptySet DEF Init
  <2>2. \A q \in asked : q.total = 0 /\ q.offset = 0
    BY DEF Init, Request
  <2>3. 0 <= MaxRows /\ loads \in 1..MaxLoads
    BY <2>1, SessionsAssumption
  <2>4. loading \in BOOLEAN /\ error \in BOOLEAN
    BY <2>1
  <2>5. \A q \in asked : q.total <= MaxRows /\ q.offset <= MaxRows
    BY <2>2, <2>3
  <2>6. items \in (SUBSET Row) \cup {NoItems} /\ walk = NoWalk
    BY DEF Init
  <2>7. Cardinality(rows) <= MaxRows /\ total <= MaxRows /\ offset <= MaxRows
    BY <2>1, <2>3
  <2> QED BY <2>3, <2>4, <2>5, <2>6, <2>7, Zenon DEF InRange
<1>2. SessionsInv /\ InRange /\ [Next]_vars => InRange'
  BY RangeStep
<1>3. SessionsInv /\ InRange => TypeOK
  <2> SUFFICES ASSUME SessionsInv, InRange PROVE TypeOK
    OBVIOUS
  <2>1. rows \subseteq Row /\ controls \in Filters /\ last.filter \in Filters
    BY DEF SessionsInv, RowsNumbered, PageTyped
  <2>2. total \in 0..MaxRows /\ offset \in 0..MaxRows
    <3>1. total \in Nat /\ offset \in Nat /\ total <= MaxRows /\ offset <= MaxRows
          /\ MaxRows \in Nat
      BY SessionsAssumption DEF SessionsInv, PageTyped, InRange
    <3> QED BY <3>1
  <2>3. \A q \in asked : q.filter \in Filters /\ q.items \in SUBSET Row
    BY DEF SessionsInv, PageTyped, Requests
  <2> QED BY <2>1, <2>2, <2>3 DEF TypeOK, InRange
<1> QED BY <1>1, <1>2, <1>3, SessionsInductive, PTL DEF Spec

(* A user who pages through to the end, one request at a time, has seen    *)
(* every session that was stored when he began, unless one is committed    *)
(* between the count and the page of the last request: rows only ever push *)
(* others to later places (list_sessions, SessionsPage).                   *)
THEOREM WalksAreComplete == Spec => []WalkMissesNothing
<1>1. SessionsInv => WalkMissesNothing
  BY DEF SessionsInv
<1> QED BY <1>1, SessionsInductive, PTL

(* Unless requests overlap the page shows what the controls ask for.       *)
THEOREM QuietPagesMatch == Spec => []QuietPageMatchesControls
<1>1. SessionsInv => QuietPageMatchesControls
  BY DEF SessionsInv
<1> QED BY <1>1, SessionsInductive, PTL
=============================================================================
