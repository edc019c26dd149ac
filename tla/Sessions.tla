------------------------------ MODULE Sessions ------------------------------
(***************************************************************************)
(* The session list: GET /traces with list_sessions, whose count and page  *)
(* are two statements of a READ COMMITTED transaction, and the page        *)
(* Sessions of the dashboard, which may have several requests outstanding  *)
(* and applies whatever answer arrives.  Ingestion inserts rows meanwhile; *)
(* a row's time is taken before its commit, by the clock of its worker, so *)
(* times repeat and rows turn up anywhere in the list.                     *)
(***************************************************************************)
EXTENDS Integers, FiniteSets

CONSTANTS
    Agents,    \* agent ids of the sessions
    Times,     \* created_at
    Filters,   \* settings of the controls
    Matching,  \* Filters -> SUBSET Agents, the WHERE clause
    Degraded,  \* some worker runs without _db
    PageSize,  \* PAGE_SIZE
    MaxLimit,  \* the API's bound on limit
    MaxRows,   \* bound: sessions ingested
    MaxLoads,  \* bound: requests sent
    NoItems,   \* items is null
    NoWalk     \* the pages shown are not in sequence

ASSUME SessionsAssumption ==
    /\ Times \subseteq Nat
    /\ Matching \in [Filters -> SUBSET Agents]
    /\ Degraded \in BOOLEAN
    /\ {PageSize, MaxLimit} \subseteq Nat \ {0}
    /\ MaxRows \in Nat
    /\ MaxLoads \in Nat \ {0}

(* The page asks for 20 sessions, the API gives up to 200. *)
ASSUME PageFits == PageSize <= MaxLimit

VARIABLES
    rows,      \* table sessions, as committed
    controls,  \* the filters shown in the form
    items,     \* the rows shown
    total,     \* the number of sessions shown in the header
    offset,    \* of the page shown
    loading,   \* the spinner is shown
    error,     \* an error is shown
    loads,     \* requests sent
    asked,     \* requests that are not answered yet
    last,      \* history: the request whose answer was applied last
    walk       \* history: the pages shown in sequence since the first one

page == <<controls, items, total, offset, loading, error>>
history == <<last, walk>>
vars == <<rows, page, loads, asked, history>>

Row == [id : 1..MaxRows, created : Times, agent : Agents]

(* A request: what was asked, how far the handler is, its two results, and *)
(* as history whether any other request was outstanding meanwhile, the     *)
(* rows counted, and whether the count still held when the page was read.  *)
Request(n, f, o, alone) ==
    [number |-> n, filter |-> f, offset |-> o, step |-> "sent", total |-> 0,
     items |-> {}, alone |-> alone, counted |-> {}, exact |-> FALSE]

Select(f) == {r \in rows : r.agent \in Matching[f]}

(* Mutant: ORDER BY created_at DESC alone. *)
Precedes_NoTieBreak(q, r) == q.created > r.created

(* ORDER BY created_at DESC, id DESC *)
Precedes(q, r) ==
    \/ q.created > r.created
    \/ q.created = r.created /\ q.id > r.id

(* The orders in which the database may return the rows of S.              *)
Rankings(S) ==
    {rank \in [S -> 0..(Cardinality(S) - 1)] :
        \A q, r \in S : q # r => /\ rank[q] # rank[r]
                                 /\ Precedes(q, r) => rank[q] < rank[r]}

Limit == IF PageSize > MaxLimit THEN MaxLimit ELSE PageSize
Offset(o) == IF o < 0 THEN 0 ELSE o

-----------------------------------------------------------------------------
(* load(): the requests that are out know nothing of each other.           *)
Load(f, o) ==
    /\ loads < MaxLoads
    /\ loads' = loads + 1
    /\ loading' = TRUE
    /\ error' = FALSE
    /\ asked' = {[q EXCEPT !.alone = FALSE] : q \in asked}
                  \cup {Request(loads, f, o, asked = {})}
    /\ UNCHANGED <<rows, items, total, offset, history>>

Init ==
    /\ rows = {}
    /\ controls \in Filters
    /\ items = NoItems
    /\ total = 0
    /\ offset = 0
    /\ loading = TRUE
    /\ error = FALSE
    /\ loads = 1
    /\ asked = {Request(0, controls, 0, TRUE)}
    /\ last = [filter |-> controls, offset |-> 0, alone |-> TRUE]
    /\ walk = NoWalk

Page == offset \div PageSize
Pages == (total + PageSize - 1) \div PageSize

(* Mutant: the effect does not depend on the controls. *)
Edit_NoReload ==
    /\ \E f \in Filters \ {controls} : controls' = f
    /\ UNCHANGED <<rows, items, total, offset, loading, error, loads, asked, history>>

(* A control changes, and the effect loads the first page.                 *)
Edit ==
    \E f \in Filters \ {controls} :
        /\ controls' = f
        /\ Load(f, 0)

Apply == Load(controls, 0) /\ UNCHANGED controls

(* Previous and Next are not disabled while an answer is outstanding.      *)
Turn(p) ==
    /\ total > PageSize
    /\ Load(controls, p * PageSize)
    /\ UNCHANGED controls

Previous == Page # 0 /\ Turn(Page - 1)
NextPage == Page + 1 < Pages /\ Turn(Page + 1)
Retry == error /\ Load(controls, offset) /\ UNCHANGED controls

-----------------------------------------------------------------------------
(* query.count() *)
Count(q) ==
    /\ q.step = "sent"
    /\ asked' = (asked \ {q}) \cup
         {[q EXCEPT !.step = "counted", !.total = Cardinality(Select(q.filter)),
                    !.counted = IF q.offset = 0 THEN Select(q.filter) ELSE {}]}
    /\ UNCHANGED <<rows, page, loads, history>>

(* query.order_by(...).offset(...).limit(...): another statement. *)
ReadPage(q) ==
    LET S == Select(q.filter)
        from == Offset(q.offset)
    IN  /\ q.step = "counted"
        /\ \E rank \in Rankings(S) :
             asked' = (asked \ {q}) \cup
               {[q EXCEPT !.step = "paged", !.exact = q.total = Cardinality(S),
                          !.items = {r \in S : from <= rank[r] /\ rank[r] < from + Limit}]}
        /\ UNCHANGED <<rows, page, loads, history>>

(* A worker without _db answers with an empty list. *)
AnswerEmpty(q) ==
    /\ Degraded
    /\ q.step = "sent"
    /\ asked' = (asked \ {q}) \cup {[q EXCEPT !.step = "paged"]}
    /\ UNCHANGED <<rows, page, loads, history>>

(* The first page begins a walk, the next one continues it, if each was    *)
(* asked for when the one before had been applied.                         *)
Extended(q) ==
    LET complete == q.exact /\ q.offset + PageSize >= q.total
    IN  IF ~q.alone THEN NoWalk
        ELSE IF q.offset = 0
        THEN [from |-> q.counted, seen |-> q.items, complete |-> complete]
        ELSE IF walk # NoWalk /\ q.filter = last.filter /\ q.offset = last.offset + PageSize
        THEN [from |-> walk.from, seen |-> walk.seen \cup q.items, complete |-> complete]
        ELSE NoWalk

(* The answer is applied, whatever the controls say by now. *)
Arrive(q) ==
    /\ q.step = "paged"
    /\ asked' = asked \ {q}
    /\ items' = q.items
    /\ total' = q.total
    /\ offset' = q.offset
    /\ loading' = FALSE
    /\ last' = [filter |-> q.filter, offset |-> q.offset, alone |-> q.alone]
    /\ walk' = Extended(q)
    /\ UNCHANGED <<rows, controls, error, loads>>

(* The request fails: the old page stays, below the error. *)
Fail(q) ==
    /\ asked' = asked \ {q}
    /\ loading' = FALSE
    /\ error' = TRUE
    /\ UNCHANGED <<rows, controls, items, total, offset, loads, history>>

(* A session is committed (see Ingest). *)
Insert ==
    /\ Cardinality(rows) < MaxRows
    /\ \E t \in Times, a \in Agents :
         rows' = rows \cup {[id |-> Cardinality(rows) + 1, created |-> t, agent |-> a]}
    /\ UNCHANGED <<page, loads, asked, history>>

Next ==
    \/ Edit
    \/ Apply
    \/ Previous
    \/ NextPage
    \/ Retry
    \/ \E q \in asked : Count(q) \/ ReadPage(q) \/ AnswerEmpty(q) \/ Arrive(q) \/ Fail(q)
    \/ Insert

Spec == Init /\ [][Next]_vars

-----------------------------------------------------------------------------
TypeOK ==
    /\ rows \subseteq Row
    /\ controls \in Filters
    /\ items \in (SUBSET Row) \cup {NoItems}
    /\ total \in 0..MaxRows
    /\ offset \in 0..MaxRows
    /\ loading \in BOOLEAN
    /\ error \in BOOLEAN
    /\ loads \in 1..MaxLoads
    /\ \A q \in asked : q.filter \in Filters /\ q.items \in SUBSET Row
    /\ last.filter \in Filters
    /\ walk = NoWalk \/ walk.seen \cup walk.from \subseteq Row

(* Who pages from the first to the last page, one request at a time, is    *)
(* shown every session that was there when he began, however many are      *)
(* ingested meanwhile, with equal times and late commits; unless one is    *)
(* committed between the count and the page of the very last request,      *)
(* whose total then ends the walk too early (repository.py 245-252,        *)
(* SessionsPage.tsx 198).                                                  *)
WalkMissesNothing ==
    walk # NoWalk /\ walk.complete => walk.from \subseteq walk.seen

(* As long as no two requests overlap, the page shows what the controls    *)
(* ask for (SessionsPage.tsx 57-61).                                       *)
QuietPageMatchesControls ==
    asked = {} /\ ~error /\ last.alone => last.filter = controls
=============================================================================
