-------------------------- MODULE GraphBuildProofs --------------------------
(***************************************************************************)
(* Theorems about GraphBuild, for traces of any size, with any times, step *)
(* indexes, parents and feeds.                                             *)
(***************************************************************************)
EXTENDS GraphBuild, FiniteSetTheorems, TLAPS

(* A strict total order of S. *)
Orders(R, S) ==
    /\ \A i, j \in S : <<i, j>> \in R => <<j, i>> \notin R
    /\ \A i, j, k \in S : <<i, j>> \in R /\ <<j, k>> \in R => <<i, k>> \in R
    /\ \A i, j \in S : i = j \/ <<i, j>> \in R \/ <<j, i>> \in R

(* The order numbers the elements by how many come before.                 *)
LEMMA Ranks ==
    ASSUME NEW S, IsFiniteSet(S), NEW R, Orders(R, S)
    PROVE  LET rank == [i \in S |-> Cardinality({j \in S : <<j, i>> \in R})]
           IN  /\ rank \in [S -> 0..(Cardinality(S) - 1)]
               /\ \A i, j \in S : <<i, j>> \in R => rank[i] < rank[j]
<1> DEFINE Pred(i) == {j \in S : <<j, i>> \in R}
           rank == [i \in S |-> Cardinality(Pred(i))]
<1>1. ASSUME NEW i \in S
      PROVE  /\ IsFiniteSet(Pred(i)) /\ Cardinality(Pred(i)) \in Nat
             /\ Cardinality(Pred(i)) <= Cardinality(S) - 1 /\ Cardinality(S) \in Nat
  <2>1. /\ IsFiniteSet(S \ {i}) /\ Cardinality(S \ {i}) = Cardinality(S) - 1
        /\ Cardinality(S) \in Nat
    BY FS_RemoveElement, FS_CardinalityType
  <2>2. Pred(i) \subseteq S \ {i}
    BY DEF Orders
  <2> HIDE DEF Pred
  <2>3. IsFiniteSet(Pred(i)) /\ Cardinality(Pred(i)) <= Cardinality(S \ {i})
    BY <2>1, <2>2, FS_Subset
  <2>4. Cardinality(Pred(i)) \in Nat
    BY <2>3, FS_CardinalityType
  <2> QED BY <2>1, <2>3, <2>4
<1>2. ASSUME NEW i \in S, NEW j \in S, <<i, j>> \in R
      PROVE  Cardinality(Pred(i)) < Cardinality(Pred(j))
  <2>1. Pred(i) \cup {i} \subseteq Pred(j) /\ i \notin Pred(i)
    BY <1>2 DEF Orders
  <2>2. /\ IsFiniteSet(Pred(i)) /\ Cardinality(Pred(i)) \in Nat
        /\ IsFiniteSet(Pred(j)) /\ Cardinality(Pred(j)) \in Nat
    BY <1>1
  <2> HIDE DEF Pred
  <2>3. Cardinality(Pred(i) \cup {i}) = Cardinality(Pred(i)) + 1
    BY <2>1, <2>2, FS_AddElement
  <2>4. Cardinality(Pred(i) \cup {i}) <= Cardinality(Pred(j))
    BY <2>1, <2>2, FS_Subset
  <2> QED BY <2>2, <2>3, <2>4
<1> HIDE DEF Pred
<1>3. rank \in [S -> 0..(Cardinality(S) - 1)]
  BY <1>1
<1>4. \A i, j \in S : <<i, j>> \in R => rank[i] < rank[j]
  BY <1>2
<1> QED BY <1>3, <1>4 DEF Pred

(* sorted() returns every element once, in order.                          *)
LEMMA InOrderSorts ==
    ASSUME NEW S, IsFiniteSet(S), NEW R, Orders(R, S), NEW o, o = InOrder(S, R)
    PROVE  /\ Cardinality(S) \in Nat
           /\ o \in [1..Cardinality(S) -> S]
           /\ ToSet(o) = S /\ IsInjective(o)
           /\ \A a, b \in DOMAIN o : a < b => <<o[a], o[b]>> \in R
<1> DEFINE n == Cardinality(S)
           rank == [i \in S |-> Cardinality({j \in S : <<j, i>> \in R})]
<1>0. n \in Nat
  BY FS_CardinalityType
<1>1. /\ rank \in [S -> 0..(n - 1)]
      /\ \A i, j \in S : <<i, j>> \in R => rank[i] < rank[j]
  BY Ranks
<1>2. /\ \A i \in S : rank[i] = Cardinality({j \in S : <<j, i>> \in R})
      /\ o = [k \in 1..n |->
               CHOOSE i \in S : Cardinality({j \in S : <<j, i>> \in R}) = k - 1]
  BY DEF InOrder
<1> HIDE DEF rank
<1>3. \A i, j \in S : rank[i] = rank[j] => i = j
  <2> SUFFICES ASSUME NEW i \in S, NEW j \in S, rank[i] = rank[j], i # j
               PROVE  FALSE
    OBVIOUS
  <2>1. rank[i] \in Int /\ rank[j] \in Int
    BY <1>0, <1>1
  <2>2. rank[i] < rank[j] \/ rank[j] < rank[i]
    BY <1>1 DEF Orders
  <2> QED BY <2>1, <2>2
<1>4. \A k \in 0..(n - 1) : \E i \in S : rank[i] = k
  <2>1. rank \in Injection(S, 0..(n - 1))
    BY <1>1, <1>3 DEF Injection, IsInjective
  <2>2. IsFiniteSet(0..(n - 1)) /\ Cardinality(0..(n - 1)) = n
    BY <1>0, FS_Interval
  <2>3. rank \in Surjection(S, 0..(n - 1))
    BY <2>1, <2>2, FS_Injection
  <2> QED BY <2>3 DEF Surjection
<1>5. ASSUME NEW k \in 1..n
      PROVE  o[k] \in S /\ rank[o[k]] = k - 1
  <2>1. k - 1 \in 0..(n - 1)
    BY <1>0
  <2>2. \E i \in S : Cardinality({j \in S : <<j, i>> \in R}) = k - 1
    BY <1>2, <1>4, <2>1
  <2>3. o[k] = CHOOSE i \in S : Cardinality({j \in S : <<j, i>> \in R}) = k - 1
    BY <1>2
  <2>4. o[k] \in S /\ Cardinality({j \in S : <<j, o[k]>> \in R}) = k - 1
    BY <2>2, <2>3
  <2> QED BY <1>2, <2>4
<1>6. o \in [1..n -> S] /\ DOMAIN o = 1..n
  BY <1>2, <1>5
<1>7. ASSUME NEW i \in S
      PROVE  i \in ToSet(o)
  <2>1. rank[i] + 1 \in 1..n /\ rank[i] \in Nat /\ rank[i] + 1 - 1 = rank[i]
    BY <1>0, <1>1
  <2>2. o[rank[i] + 1] = i
    BY <1>3, <1>5, <2>1
  <2> QED BY <1>6, <2>1, <2>2 DEF ToSet
<1>8. ToSet(o) = S
  BY <1>6, <1>7 DEF ToSet
<1>9. IsInjective(o)
  <2> SUFFICES ASSUME NEW a \in 1..n, NEW b \in 1..n, o[a] = o[b] PROVE a = b
    BY <1>6 DEF IsInjective
  <2>1. a - 1 = b - 1
    BY <1>5
  <2> QED BY <1>0, <2>1
<1>10. ASSUME NEW a \in 1..n, NEW b \in 1..n, a < b
       PROVE  <<o[a], o[b]>> \in R
  <2>1. rank[o[a]] < rank[o[b]] /\ o[a] \in S /\ o[b] \in S
    BY <1>0, <1>5, <1>10
  <2>2. rank[o[a]] \in Int /\ rank[o[b]] \in Int
    BY <1>0, <1>1, <2>1
  <2>3. ~(rank[o[b]] < rank[o[a]]) /\ o[a] # o[b]
    BY <2>1, <2>2
  <2> QED BY <1>1, <2>1, <2>3 DEF Orders
<1> QED BY <1>0, <1>6, <1>8, <1>9, <1>10

(* Its result is a sequence.                                               *)
LEMMA SortedIsSeq ==
    ASSUME NEW S, IsFiniteSet(S), S # {}, NEW R, Orders(R, S), NEW o, o = InOrder(S, R)
    PROVE  o \in Seq(S) /\ o # <<>> /\ ToSet(o) = S /\ IsInjective(o)
<1>1. /\ Cardinality(S) \in Nat /\ o \in [1..Cardinality(S) -> S]
      /\ ToSet(o) = S /\ IsInjective(o)
  BY InOrderSorts
<1>2. o \in Seq(S)
  BY <1>1
<1>3. o # <<>>
  BY <1>1 DEF ToSet
<1> QED BY <1>1, <1>2, <1>3

-----------------------------------------------------------------------------
(* Taking the first of a sequence without repetition, and appending.       *)
LEMMA HeadAndTail ==
    ASSUME NEW S, NEW s \in Seq(S), s # <<>>, IsInjective(s)
    PROVE  /\ Head(s) \in S /\ Head(s) \in ToSet(s)
           /\ Tail(s) \in Seq(S) /\ IsInjective(Tail(s))
           /\ ToSet(Tail(s)) = ToSet(s) \ {Head(s)}
           /\ Len(s) > 1 <=> Tail(s) # <<>>
<1>1. /\ Head(s) = s[1] /\ 1 \in DOMAIN s /\ Tail(s) \in Seq(S)
      /\ DOMAIN s = 1..Len(s) /\ Len(s) \in Nat /\ Len(s) > 0
      /\ DOMAIN Tail(s) = 1..(Len(s) - 1)
      /\ \A k \in 1..(Len(s) - 1) : Tail(s)[k] = s[k + 1]
  OBVIOUS
<1>2. IsInjective(Tail(s))
  <2> SUFFICES ASSUME NEW a \in 1..(Len(s) - 1), NEW b \in 1..(Len(s) - 1),
                      Tail(s)[a] = Tail(s)[b]
               PROVE  a = b
    BY <1>1 DEF IsInjective
  <2>1. s[a + 1] = s[b + 1] /\ a + 1 \in DOMAIN s /\ b + 1 \in DOMAIN s
    BY <1>1
  <2>2. a + 1 = b + 1
    BY <2>1 DEF IsInjective
  <2> QED BY <2>2
<1>3. ASSUME NEW x
      PROVE  x \in ToSet(Tail(s)) <=> x \in ToSet(s) \ {Head(s)}
  <2>1. ASSUME x \in ToSet(Tail(s)) PROVE x \in ToSet(s) \ {Head(s)}
    <3>1. PICK k \in 1..(Len(s) - 1) : x = Tail(s)[k]
      BY <1>1, <2>1 DEF ToSet
    <3>2. x = s[k + 1] /\ k + 1 \in DOMAIN s /\ k + 1 # 1
      BY <1>1, <3>1
    <3> QED BY <1>1, <3>2 DEF ToSet, IsInjective
  <2>2. ASSUME x \in ToSet(s) \ {Head(s)} PROVE x \in ToSet(Tail(s))
    <3>1. PICK k \in 1..Len(s) : x = s[k]
      BY <1>1, <2>2 DEF ToSet
    <3>2. k # 1
      BY <1>1, <2>2, <3>1
    <3>3. k - 1 \in 1..(Len(s) - 1) /\ (k - 1) + 1 = k
      BY <1>1, <3>2
    <3>4. x = Tail(s)[k - 1]
      BY <1>1, <3>1, <3>3
    <3> QED BY <1>1, <3>3, <3>4 DEF ToSet
  <2> QED BY <2>1, <2>2
<1>4. Len(s) > 1 <=> Tail(s) # <<>>
  <2>1. Len(Tail(s)) = Len(s) - 1 /\ (Tail(s) = <<>> <=> Len(Tail(s)) = 0)
    BY <1>1
  <2> QED BY <1>1, <2>1
<1>5. Head(s) \in S /\ Head(s) \in ToSet(s)
  BY <1>1 DEF ToSet
<1>6. ToSet(Tail(s)) = ToSet(s) \ {Head(s)}
  BY <1>3
<1> QED BY <1>1, <1>2, <1>4, <1>5, <1>6

(* A new element at the end keeps a sequence free of repetitions.          *)
LEMMA Appended ==
    ASSUME NEW S, NEW s \in Seq(S), IsInjective(s), NEW x \in S, x \notin ToSet(s)
    PROVE  /\ Append(s, x) \in Seq(S) /\ IsInjective(Append(s, x))
           /\ ToSet(Append(s, x)) = ToSet(s) \cup {x}
<1> DEFINE t == Append(s, x)
<1>1. /\ t \in Seq(S) /\ Len(s) \in Nat /\ DOMAIN s = 1..Len(s)
      /\ DOMAIN t = 1..(Len(s) + 1) /\ t[Len(s) + 1] = x
      /\ \A k \in 1..Len(s) : t[k] = s[k]
  OBVIOUS
<1> HIDE DEF t
<1>2. \A k \in DOMAIN t : k = Len(s) + 1 \/ k \in DOMAIN s
  BY <1>1
<1>3. IsInjective(t)
  BY <1>1, <1>2 DEF IsInjective, ToSet
<1>4. ToSet(t) = ToSet(s) \cup {x}
  <2>1. Len(s) + 1 \in DOMAIN t /\ DOMAIN s \subseteq DOMAIN t
    BY <1>1
  <2> QED BY <1>1, <1>2, <2>1 DEF ToSet
<1> QED BY <1>1, <1>3, <1>4 DEF t
-----------------------------------------------------------------------------
(* The spans of a trace are numbered, and their times and indexes numbers. *)
LEMMA TraceFacts ==
    ASSUME spans \in Traces
    PROVE  /\ \E n \in Nat \ {0} : Spans = 1..n
           /\ IsFiniteSet(Spans) /\ Spans # {} /\ Spans \subseteq Nat
           /\ \A i \in Spans : /\ StartTime(i) \in Nat
                               /\ spans.index[i] \in Nat \cup {NoIndex}
<1>0. PICK n \in 1..MaxSpans :
        spans \in [start : [1..n -> Times \cup {Unreadable}],
                  parent : {q \in [1..n -> 1..n \cup {NoParent, Elsewhere}] :
                              \A i \in 1..n : q[i] # i},
                  index : [1..n -> Indexes \cup {NoIndex}],
                  feeds : Feedings(n)]
  BY DEF Traces
<1>1. /\ spans.start \in [1..n -> Times \cup {Unreadable}]
      /\ spans.index \in [1..n -> Indexes \cup {NoIndex}]
  BY <1>0
<1>2. n \in Nat \ {0}
  BY GraphAssumption
<1>3. Spans = 1..n
  BY <1>1 DEF Spans
<1>4. IsFiniteSet(1..n)
  BY <1>2, FS_Interval
<1>5. \A i \in Spans : StartTime(i) \in Nat /\ spans.index[i] \in Nat \cup {NoIndex}
  BY <1>1, <1>3, GraphAssumption DEF StartTime
<1>6. 1 \in 1..n /\ 1..n \subseteq Nat
  BY <1>2
<1>7. IsFiniteSet(Spans) /\ Spans # {} /\ Spans \subseteq Nat
  BY <1>3, <1>4, <1>6
<1>8. \E m \in Nat \ {0} : Spans = 1..m
  BY <1>2, <1>3
<1> QED BY <1>5, <1>7, <1>8

(* R orders S by the number f, equals by the number g.                     *)
ByTwoKeys(R, S, f, g) ==
    /\ \A i \in S : f[i] \in Nat /\ g[i] \in Nat
    /\ \A i, j \in S : g[i] = g[j] => i = j
    /\ \A i, j \in S : <<i, j>> \in R <=> f[i] < f[j] \/ (f[i] = f[j] /\ g[i] < g[j])

(* Two numbers compared in turn order the elements they tell apart.        *)
LEMMA TwoKeysOrder ==
    ASSUME NEW S, NEW f, NEW g, NEW R, ByTwoKeys(R, S, f, g)
    PROVE  Orders(R, S)
<1> USE DEF ByTwoKeys
<1>1. ASSUME NEW i \in S, NEW j \in S, <<i, j>> \in R
      PROVE  <<j, i>> \notin R
  <2>1. f[i] \in Nat /\ f[j] \in Nat /\ g[i] \in Nat /\ g[j] \in Nat
    OBVIOUS
  <2>2. f[i] < f[j] \/ (f[i] = f[j] /\ g[i] < g[j])
    BY <1>1
  <2>3. ~(f[j] < f[i] \/ (f[j] = f[i] /\ g[j] < g[i]))
    BY <2>1, <2>2
  <2> QED BY <2>3
<1>2. ASSUME NEW i \in S, NEW j \in S, NEW k \in S, <<i, j>> \in R, <<j, k>> \in R
      PROVE  <<i, k>> \in R
  <2>1. /\ f[i] \in Nat /\ f[j] \in Nat /\ f[k] \in Nat
        /\ g[i] \in Nat /\ g[j] \in Nat /\ g[k] \in Nat
    OBVIOUS
  <2>2. /\ f[i] < f[j] \/ (f[i] = f[j] /\ g[i] < g[j])
        /\ f[j] < f[k] \/ (f[j] = f[k] /\ g[j] < g[k])
    BY <1>2
  <2>3. f[i] < f[k] \/ (f[i] = f[k] /\ g[i] < g[k])
    BY <2>1, <2>2
  <2> QED BY <2>3
<1>3. ASSUME NEW i \in S, NEW j \in S, i # j
      PROVE  <<i, j>> \in R \/ <<j, i>> \in R
  <2>1. f[i] \in Nat /\ f[j] \in Nat /\ g[i] \in Nat /\ g[j] \in Nat /\ g[i] # g[j]
    BY <1>3
  <2>2. \/ f[i] < f[j] \/ (f[i] = f[j] /\ g[i] < g[j])
        \/ f[j] < f[i] \/ (f[j] = f[i] /\ g[j] < g[i])
    BY <2>1
  <2> QED BY <2>2
<1> QED BY <1>1, <1>2, <1>3 DEF Orders

(* The first pass, and the second, go over every span once.                *)
LEMMA SpansByStart ==
    ASSUME spans \in Traces
    PROVE  /\ ByStart \in Seq(Spans) /\ ByStart # <<>>
           /\ ToSet(ByStart) = Spans /\ IsInjective(ByStart)
<1> DEFINE S == Spans
           start == [i \in S |-> StartTime(i)]
<1>1. IsFiniteSet(S) /\ S # {} /\ S \subseteq Nat
  BY TraceFacts
<1>2. \A i \in S : start[i] \in Nat
  BY TraceFacts
<1> DEFINE own == [i \in S |-> i]
<1>3. \A i, j \in S : <<i, j>> \in StartsBefore <=>
          start[i] < start[j] \/ (start[i] = start[j] /\ own[i] < own[j])
  BY DEF StartsBefore
<1>4. \A i \in S : own[i] = i /\ own[i] \in Nat
  BY <1>1
<1> HIDE DEF S, start, own
<1>5. Orders(StartsBefore, S)
  <2>1. ByTwoKeys(StartsBefore, S, start, own)
    BY <1>2, <1>3, <1>4 DEF ByTwoKeys
  <2> QED BY <2>1, TwoKeysOrder
<1> QED BY <1>1, <1>5, SortedIsSeq DEF ByStart, S

(* The nodes by step index, ties in the order of insertion.                *)
LEMMA NodesByIndex ==
    ASSUME NEW S, NEW s \in Seq(S), IsInjective(s), IsFiniteSet(S), NEW idx \in [S -> Nat],
           NEW o, o = ByIndex(s, idx)
    PROVE  /\ \A a \in DOMAIN o : o[a] \in ToSet(s)
           /\ DOMAIN o \subseteq Nat
           /\ \A a, b \in DOMAIN o : a < b => o[a] # o[b] /\ idx[o[a]] <= idx[o[b]]
<1> DEFINE T == ToSet(s)
           R == IndexedBefore(s, idx)
<1>1. DOMAIN s = 1..Len(s) /\ Len(s) \in Nat /\ \A a \in DOMAIN s : s[a] \in S
  OBVIOUS
<1>2. T \subseteq S /\ IsFiniteSet(T)
  <2>1. T \subseteq S
    BY <1>1 DEF ToSet
  <2> QED BY <2>1, FS_Subset
<1>3. \A i \in T : idx[i] \in Nat
  BY <1>2
<1> DEFINE place == [i \in T |-> CHOOSE a \in DOMAIN s : s[a] = i]
<1>4. \A i \in T : place[i] \in 1..Len(s) /\ s[place[i]] = i
  BY <1>1 DEF ToSet
<1>5. \A a \in DOMAIN s : s[a] \in T /\ place[s[a]] = a
  BY <1>1, <1>4 DEF ToSet, IsInjective
<1> HIDE DEF place, T
<1>6. \A i, j \in T : (\E a, b \in DOMAIN s : a < b /\ <<i, j>> = <<s[a], s[b]>>)
                        <=> place[i] < place[j]
  BY <1>1, <1>4, <1>5
<1>7. \A i, j \in T : <<i, j>> \in R <=>
          idx[i] < idx[j] \/ (idx[i] = idx[j] /\ place[i] < place[j])
  BY <1>6 DEF IndexedBefore, T
<1>8. \A i \in T : place[i] \in Nat
  BY <1>1, <1>4
<1> HIDE DEF R
<1>9. Orders(R, T)
  <2>1. \A i, j \in T : place[i] = place[j] => i = j
    BY <1>4
  <2>2. \A i \in T : idx[i] \in Nat /\ place[i] \in Nat
    BY <1>3, <1>8
  <2>3. ByTwoKeys(R, T, idx, place)
    BY <1>7, <2>1, <2>2 DEF ByTwoKeys
  <2> QED BY <2>3, TwoKeysOrder
<1>10. o = InOrder(T, R)
  BY DEF ByIndex, T, R
<1>11. /\ Cardinality(T) \in Nat /\ o \in [1..Cardinality(T) -> T]
       /\ \A a, b \in DOMAIN o : a < b => <<o[a], o[b]>> \in R
  BY <1>2, <1>9, <1>10, InOrderSorts
<1>12. DOMAIN o \subseteq Nat /\ \A a \in DOMAIN o : o[a] \in T
  <2>1. DOMAIN o = 1..Cardinality(T) /\ \A a \in 1..Cardinality(T) : o[a] \in T
    BY <1>11
  <2> QED BY <1>11, <2>1
<1>13. ASSUME NEW a \in DOMAIN o, NEW b \in DOMAIN o, a < b
       PROVE  o[a] # o[b] /\ idx[o[a]] <= idx[o[b]]
  <2>1. <<o[a], o[b]>> \in R /\ o[a] \in T /\ o[b] \in T
    BY <1>11, <1>12, <1>13
  <2>2. o[a] # o[b]
    BY <1>9, <2>1 DEF Orders
  <2>3. idx[o[a]] < idx[o[b]] \/ idx[o[a]] = idx[o[b]]
    BY <1>7, <2>1
  <2>4. idx[o[a]] \in Nat /\ idx[o[b]] \in Nat
    BY <1>3, <2>1
  <2> QED BY <2>2, <2>3, <2>4
<1> QED BY <1>12, <1>13 DEF T

-----------------------------------------------------------------------------
(* The inductive invariant.  A link is kept once its child's turn came in  *)
(* the second pass, which starts with all nodes in the graph; until the    *)
(* inference there are no edges but the parent links.  A link made in the  *)
(* first pass is retyped when its child's turn comes in the second.        *)

Linked(i) == spans.parent[i] \in Spans => <<spans.parent[i], i>> \in DOMAIN edges

OnlyData == \A e \in DOMAIN edges : edges[e] = "data_dependency"

OnlyParents == \A e \in DOMAIN edges : spans.parent[e[2]] = e[1]

Passes ==
    /\ nodes \in Seq(Spans)
    /\ pc \in {"add", "relink"} => todo \in Seq(Spans) /\ todo # <<>> /\ IsInjective(todo)
    /\ pc = "add" => /\ ToSet(todo) \cup ToSet(nodes) = Spans
                     /\ ToSet(todo) \cap ToSet(nodes) = {}
    /\ pc # "add" => ToSet(nodes) = Spans
    /\ pc = "relink" => \A i \in Spans \ ToSet(todo) : Linked(i)
    /\ pc \notin {"add", "relink"} => \A i \in Spans : Linked(i)
    /\ pc \in {"add", "relink", "infer"} => OnlyParents
    /\ pc = "relink" => \A e \in DOMAIN edges :
                          e[2] \in ToSet(todo) \/ edges[e] = "data_dependency"
    /\ pc \notin {"add", "relink"} => OnlyData
    /\ pc \in {"load", "done"} => stored = [index |-> index, edges |-> edges]

GraphInv == TypeOK /\ Passes /\ EdgesAreJustified /\ RoundTrip

(* One edge more.                                                          *)
LEMMA AddedEdge ==
    ASSUME TypeOK, NEW u \in Spans, NEW v \in Spans, NEW type \in Types,
           NEW es, es = Add(edges, u, v, type)
    PROVE  /\ DOMAIN es = DOMAIN edges \cup {<<u, v>>}
           /\ DOMAIN es \subseteq Spans \X Spans
           /\ es \in [DOMAIN es -> Types]
BY DEF Add, TypeOK

(* The inferred edges lead forward.                                        *)
LEMMA InferredForward ==
    ASSUME TypeOK, nodes \in Seq(Spans), NEW e \in Feeders(ByIndex(nodes, index))
    PROVE  /\ e \in Spans \X Spans /\ e \in spans.feeds /\ e[1] # e[2]
           /\ index[e[1]] <= index[e[2]]
<1>1. IsFiniteSet(Spans)
  BY TraceFacts DEF TypeOK
<1>2. PICK o : o = ByIndex(nodes, index)
  OBVIOUS
<1>3. /\ \A a \in DOMAIN o : o[a] \in ToSet(nodes)
      /\ \A a, b \in DOMAIN o : a < b => o[a] # o[b] /\ index[o[a]] <= index[o[b]]
  BY <1>1, <1>2, NodesByIndex DEF TypeOK
<1>4. PICK a \in DOMAIN o, b \in DOMAIN o : a < b /\ e = <<o[a], o[b]>>
  BY <1>2 DEF Feeders
<1>5. e \in spans.feeds
  BY DEF Feeders
<1>6. o[a] \in Spans /\ o[b] \in Spans
  BY <1>3 DEF TypeOK
<1> QED BY <1>3, <1>4, <1>5, <1>6

(* add_step for the next span keeps the invariant.                         *)
LEMMA AddInv == GraphInv /\ AddStep => GraphInv'
<1> SUFFICES ASSUME TypeOK, Passes, EdgesAreJustified, RoundTrip, AddStep
             PROVE  GraphInv'
  BY DEF GraphInv
<1> DEFINE i == Head(todo)
           p == spans.parent[i]
<1>1. /\ pc = "add" /\ UNCHANGED <<spans, stored, loaded>>
      /\ nodes' = Append(nodes, i)
      /\ index' = [index EXCEPT ![i] =
                     IF spans.index[i] = NoIndex THEN Len(nodes) + 1 ELSE spans.index[i]]
      /\ edges' = IF p \in ToSet(nodes) THEN Add(edges, p, i, "control_flow") ELSE edges
      /\ \/ Len(todo) > 1 /\ todo' = Tail(todo) /\ pc' = pc
         \/ ~(Len(todo) > 1) /\ todo' = ByStart /\ pc' = "relink"
  BY DEF AddStep
<1>2. /\ i \in Spans /\ i \in ToSet(todo)
      /\ Tail(todo) \in Seq(Spans) /\ IsInjective(Tail(todo))
      /\ ToSet(Tail(todo)) = ToSet(todo) \ {i}
      /\ Len(todo) > 1 <=> Tail(todo) # <<>>
  BY <1>1, HeadAndTail DEF Passes
<1>3. /\ nodes' \in Seq(Spans) /\ IsInjective(nodes')
      /\ ToSet(nodes') = ToSet(nodes) \cup {i}
  BY <1>1, <1>2, Appended DEF Passes, TypeOK
<1>4. Spans' = Spans
  BY <1>1 DEF Spans
<1>5. index' \in [Spans -> Nat]
  <2>1. spans.index[i] \in Nat \cup {NoIndex}
    BY <1>2, TraceFacts DEF TypeOK
  <2>2. Len(nodes) \in Nat
    BY DEF Passes
  <2> HIDE DEF i
  <2> QED BY <1>1, <1>2, <2>1, <2>2 DEF TypeOK
<1>6. /\ DOMAIN edges' \subseteq Spans \X Spans
      /\ edges' \in [DOMAIN edges' -> Types]
      /\ \A e \in DOMAIN edges' : spans.parent[e[2]] = e[1]
  <2>1. CASE p \in ToSet(nodes)
    <3>1. p \in Spans /\ "control_flow" \in Types
      BY <2>1 DEF TypeOK, Types
    <3>2. /\ DOMAIN edges' = DOMAIN edges \cup {<<p, i>>}
          /\ DOMAIN edges' \subseteq Spans \X Spans
          /\ edges' \in [DOMAIN edges' -> Types]
      BY <1>1, <1>2, <2>1, <3>1, AddedEdge
    <3>3. \A e \in DOMAIN edges' : e \in DOMAIN edges \/ e = <<p, i>>
      BY <3>2
    <3>4. \A e \in DOMAIN edges' : spans.parent[e[2]] = e[1]
      BY <1>1, <3>3 DEF Passes, OnlyParents
    <3> QED BY <3>2, <3>4
  <2>2. CASE p \notin ToSet(nodes)
    BY <1>1, <2>2 DEF Passes, OnlyParents, TypeOK
  <2> QED BY <2>1, <2>2
<1>7. TypeOK'
  <2>1. pc' \in {"add", "relink", "infer", "save", "load", "done"}
    BY <1>1
  <2>2. ToSet(nodes') \subseteq Spans
    BY <1>2, <1>3 DEF TypeOK
  <2> QED BY <1>1, <1>3, <1>4, <1>5, <1>6, <2>1, <2>2 DEF TypeOK
<1>8. Passes'
  <2>1. OnlyParents' /\ nodes' \in Seq(Spans')
    BY <1>1, <1>3, <1>4, <1>6 DEF OnlyParents
  <2>2. CASE Len(todo) > 1
    <3>1. /\ todo' \in Seq(Spans) /\ todo' # <<>> /\ IsInjective(todo')
          /\ ToSet(todo') = ToSet(todo) \ {i} /\ pc' = "add"
      BY <1>1, <1>2, <2>2
    <3>2. ToSet(todo') \cup ToSet(nodes') = Spans /\ ToSet(todo') \cap ToSet(nodes') = {}
      BY <1>1, <1>2, <1>3, <3>1 DEF Passes
    <3> QED BY <1>4, <2>1, <3>1, <3>2 DEF Passes
  <2>3. CASE ~(Len(todo) > 1)
    <3>1. /\ todo' \in Seq(Spans) /\ todo' # <<>> /\ IsInjective(todo')
          /\ ToSet(todo') = Spans /\ pc' = "relink"
      BY <1>1, <2>3, SpansByStart DEF TypeOK
    <3>2. ToSet(Tail(todo)) = {}
      BY <1>2, <2>3 DEF ToSet
    <3>3. ToSet(nodes') = Spans
      BY <1>1, <1>2, <1>3, <3>2 DEF Passes
    <3>4. \A e \in DOMAIN edges' : e[2] \in ToSet(todo')
      BY <1>6, <3>1
    <3> QED BY <1>4, <2>1, <3>1, <3>3, <3>4 DEF Passes
  <2> QED BY <2>2, <2>3
<1>9. EdgesAreJustified'
  BY <1>1, <1>6 DEF EdgesAreJustified
<1>10. RoundTrip'
  BY <1>1 DEF RoundTrip
<1> QED BY <1>7, <1>8, <1>9, <1>10 DEF GraphInv

(* So does the second pass over the parents,                               *)
LEMMA RelinkInv == GraphInv /\ Relink => GraphInv'
<1> SUFFICES ASSUME TypeOK, Passes, EdgesAreJustified, RoundTrip, Relink
             PROVE  GraphInv'
  BY DEF GraphInv
<1> DEFINE i == Head(todo)
           p == spans.parent[i]
<1>1. /\ pc = "relink" /\ UNCHANGED <<spans, nodes, index, stored, loaded>>
      /\ edges' = IF p \in ToSet(nodes) THEN Add(edges, p, i, "data_dependency") ELSE edges
      /\ todo' = Tail(todo)
      /\ pc' = IF Len(todo) > 1 THEN pc ELSE "infer"
  BY DEF Relink
<1>2. /\ i \in Spans /\ i \in ToSet(todo)
      /\ Tail(todo) \in Seq(Spans) /\ IsInjective(Tail(todo))
      /\ ToSet(Tail(todo)) = ToSet(todo) \ {i}
      /\ Len(todo) > 1 <=> Tail(todo) # <<>>
  BY <1>1, HeadAndTail DEF Passes
<1>3. Spans' = Spans /\ ToSet(nodes) = Spans
  BY <1>1 DEF Spans, Passes
<1>4. /\ DOMAIN edges' \subseteq Spans \X Spans
      /\ edges' \in [DOMAIN edges' -> Types]
      /\ \A e \in DOMAIN edges' : spans.parent[e[2]] = e[1]
      /\ DOMAIN edges \subseteq DOMAIN edges'
      /\ p \in Spans => <<p, i>> \in DOMAIN edges'
  <2>1. CASE p \in Spans
    <3>1. "data_dependency" \in Types
      BY DEF Types
    <3>2. /\ DOMAIN edges' = DOMAIN edges \cup {<<p, i>>}
          /\ DOMAIN edges' \subseteq Spans \X Spans
          /\ edges' \in [DOMAIN edges' -> Types]
      <4>1. edges' = Add(edges, p, i, "data_dependency")
        BY <1>1, <1>3, <2>1
      <4> QED BY <1>2, <2>1, <3>1, <4>1, AddedEdge
    <3>3. \A e \in DOMAIN edges' : e \in DOMAIN edges \/ e = <<p, i>>
      BY <3>2
    <3>4. \A e \in DOMAIN edges' : spans.parent[e[2]] = e[1]
      BY <1>1, <3>3 DEF Passes, OnlyParents
    <3> QED BY <3>2, <3>4
  <2>2. CASE p \notin Spans
    BY <1>1, <1>3, <2>2 DEF Passes, OnlyParents, TypeOK
  <2> QED BY <2>1, <2>2
<1>5. ASSUME NEW e \in DOMAIN edges'
       PROVE  e[2] \in ToSet(todo) \ {i} \/ edges'[e] = "data_dependency"
  <2>1. /\ e \in DOMAIN edges => e \in Spans \X Spans /\ e[1] = spans.parent[e[2]]
        /\ e \in DOMAIN edges => e[2] \in ToSet(todo) \/ edges[e] = "data_dependency"
    BY <1>1 DEF Passes, OnlyParents, TypeOK
  <2>2. e \in DOMAIN edges /\ e[2] = i => p \in Spans /\ e = <<p, i>>
    <3> SUFFICES ASSUME e \in DOMAIN edges, e[2] = i
                 PROVE  p \in Spans /\ e = <<p, i>>
      OBVIOUS
    <3>1. e \in Spans \X Spans /\ e[1] = p
      BY <2>1
    <3> QED BY <3>1
  <2>3. CASE p \in Spans
    <3>1. edges' = Add(edges, p, i, "data_dependency")
      BY <1>1, <1>3, <2>3
    <3>2. /\ e \in DOMAIN edges \/ e = <<p, i>>
          /\ edges'[e] = IF e = <<p, i>> THEN "data_dependency" ELSE edges[e]
      BY <3>1 DEF Add
    <3> QED BY <2>1, <2>2, <3>2
  <2>4. CASE p \notin Spans
    BY <1>1, <1>3, <2>1, <2>2, <2>4
  <2> QED BY <2>3, <2>4
<1>6. TypeOK'
  BY <1>1, <1>3, <1>4 DEF TypeOK
<1>7. Passes'
  <2>1. OnlyParents' /\ nodes' \in Seq(Spans') /\ ToSet(nodes') = Spans'
    BY <1>1, <1>3, <1>4 DEF OnlyParents, Passes
  <2>2. \A j \in Spans \ ToSet(todo') : Linked(j)'
    BY <1>1, <1>2, <1>3, <1>4 DEF Passes, Linked
  <2>3. \A e \in DOMAIN edges' : e[2] \in ToSet(todo') \/ edges'[e] = "data_dependency"
    BY <1>1, <1>2, <1>5
  <2>4. CASE Len(todo) > 1
    BY <1>1, <1>2, <1>3, <2>1, <2>2, <2>3, <2>4 DEF Passes
  <2>5. CASE ~(Len(todo) > 1)
    <3>1. ToSet(todo') = {}
      BY <1>1, <1>2, <2>5 DEF ToSet
    <3>2. OnlyData'
      BY <2>3, <3>1 DEF OnlyData
    <3> QED BY <1>1, <1>3, <2>1, <2>2, <2>5, <3>1, <3>2 DEF Passes
  <2> QED BY <2>4, <2>5
<1>8. EdgesAreJustified'
  BY <1>1, <1>4 DEF EdgesAreJustified
<1>9. RoundTrip'
  BY <1>1 DEF RoundTrip
<1> QED BY <1>6, <1>7, <1>8, <1>9 DEF GraphInv

(* so do the inferred edges, which point forward,                          *)
LEMMA InferInv == GraphInv /\ InferDataDependencies => GraphInv'
<1> SUFFICES ASSUME TypeOK, Passes, EdgesAreJustified, RoundTrip, InferDataDependencies
             PROVE  GraphInv'
  BY DEF GraphInv
<1> DEFINE inferred == Feeders(ByIndex(nodes, index))
<1>1. /\ pc = "infer" /\ pc' = "save" /\ UNCHANGED <<spans, todo, nodes, index, stored, loaded>>
      /\ edges' = [e \in DOMAIN edges \cup inferred |->
                     IF e \in inferred THEN "data_dependency" ELSE edges[e]]
  BY DEF InferDataDependencies
<1>2. \A e \in inferred : /\ e \in Spans \X Spans /\ e \in spans.feeds /\ e[1] # e[2]
                          /\ index[e[1]] <= index[e[2]]
  BY InferredForward DEF Passes
<1> HIDE DEF inferred
<1>3. Spans' = Spans /\ DOMAIN edges' = DOMAIN edges \cup inferred
  BY <1>1 DEF Spans
<1>4. TypeOK'
  <2>1. edges' \in [DOMAIN edges' -> Types]
    BY <1>1 DEF Types, TypeOK
  <2>2. DOMAIN edges' \subseteq Spans \X Spans
    BY <1>2, <1>3 DEF TypeOK
  <2> QED BY <1>1, <1>3, <2>1, <2>2 DEF TypeOK
<1>5. Passes'
  <2>1. OnlyData'
    BY <1>1, <1>3 DEF OnlyData, Passes
  <2> QED BY <1>1, <1>3, <2>1 DEF Passes, Linked
<1>6. EdgesAreJustified'
  BY <1>1, <1>2, <1>3 DEF EdgesAreJustified
<1>7. RoundTrip'
  BY <1>1 DEF RoundTrip
<1> QED BY <1>4, <1>5, <1>6, <1>7 DEF GraphInv

(* and so does reading the graph back, in any order of its rows.           *)
LEMMA LoadInv == GraphInv /\ Load => GraphInv'
<1> SUFFICES ASSUME TypeOK, Passes, EdgesAreJustified, Load
             PROVE  GraphInv'
  BY DEF GraphInv
<1>1. PICK order \in {o \in [Spans -> Spans] : ToSet(o) = Spans},
           parentFirst \in SUBSET (Spans \X Spans) :
        /\ \A e \in parentFirst : spans.parent[e[2]] = e[1]
        /\ \A a, b \in Spans :
             a < b => stored.index[order[a]] <= stored.index[order[b]]
        /\ loaded' = [nodes |-> order,
                      edges |-> [e \in parentFirst \cup DOMAIN stored.edges |->
                                  IF e \in DOMAIN stored.edges
                                  THEN "data_dependency" ELSE "control_flow"]]
  BY DEF Load
<1>2. pc = "load" /\ pc' = "done" /\ UNCHANGED <<spans, todo, nodes, index, edges, stored>>
  BY DEF Load
<1>3. Spans' = Spans /\ stored.index = index /\ stored.edges = edges /\ ToSet(nodes) = Spans
  BY <1>2 DEF Spans, Passes
<1>4. parentFirst \subseteq DOMAIN edges
  <2> SUFFICES ASSUME NEW e \in parentFirst PROVE e \in DOMAIN edges
    OBVIOUS
  <2>1. e \in Spans \X Spans /\ spans.parent[e[2]] = e[1]
    BY <1>1
  <2>2. e = <<spans.parent[e[2]], e[2]>> /\ e[2] \in Spans /\ spans.parent[e[2]] \in Spans
    BY <2>1
  <2> QED BY <1>2, <2>2 DEF Passes, Linked
<1>5. RoundTrip'
  <2>1. /\ loaded'.nodes = order
        /\ loaded'.edges = [e \in parentFirst \cup DOMAIN edges |->
                              IF e \in DOMAIN edges
                              THEN "data_dependency" ELSE "control_flow"]
    BY <1>1, <1>3
  <2>2. loaded'.edges = [e \in DOMAIN edges |-> "data_dependency"]
    <3>1. parentFirst \cup DOMAIN edges = DOMAIN edges
      BY <1>4
    <3> QED BY <2>1, <3>1
  <2>3. edges = [e \in DOMAIN edges |-> edges[e]]
        /\ \A e \in DOMAIN edges : edges[e] = "data_dependency"
    <3>1. edges = [e \in DOMAIN edges |-> edges[e]]
      BY DEF TypeOK
    <3> QED BY <1>2, <3>1 DEF Passes, OnlyData
  <2>4. loaded'.edges = edges'
    BY <1>2, <2>2, <2>3
  <2> QED BY <1>1, <1>2, <1>3, <2>1, <2>4 DEF RoundTrip
<1>6. TypeOK' /\ Passes' /\ EdgesAreJustified'
  BY <1>2, <1>3 DEF TypeOK, Passes, Linked, OnlyData, EdgesAreJustified
<1> QED BY <1>5, <1>6 DEF GraphInv

(* Every reachable state satisfies the inductive invariant.                *)
THEOREM GraphInductive == Spec => []GraphInv
<1>1. Init => GraphInv
  <2> SUFFICES ASSUME Init PROVE GraphInv
    OBVIOUS
  <2>1. /\ spans \in Traces /\ pc = "add" /\ todo = ByStart /\ nodes = <<>>
        /\ index = [i \in Spans |-> 0] /\ DOMAIN edges = {}
    BY DEF Init, Empty
  <2>2. ToSet(nodes) = {} /\ IsInjective(nodes) /\ nodes \in Seq(Spans)
    BY <2>1 DEF ToSet, IsInjective
  <2>3. TypeOK
    BY <2>1, <2>2 DEF TypeOK
  <2>4. Passes
    BY <2>1, <2>2, SpansByStart DEF Passes, OnlyParents
  <2> QED BY <2>1, <2>3, <2>4 DEF GraphInv, EdgesAreJustified, RoundTrip
<1>2. GraphInv /\ [Next]_vars => GraphInv'
  <2> SUFFICES ASSUME GraphInv, [Next]_vars PROVE GraphInv'
    OBVIOUS
  <2>1. CASE Save
    <3>1. Spans' = Spans
      BY <2>1 DEF Save, Spans
    <3> QED BY <2>1, <3>1
            DEF Save, GraphInv, TypeOK, Passes, Linked, OnlyParents, OnlyData, EdgesAreJustified, RoundTrip
  <2>2. CASE UNCHANGED vars
    <3>1. Spans' = Spans
      BY <2>2 DEF vars, Spans
    <3> QED BY <2>2, <3>1
            DEF vars, GraphInv, TypeOK, Passes, Linked, OnlyParents, OnlyData, EdgesAreJustified, RoundTrip
  <2> QED BY <2>1, <2>2, AddInv, RelinkInv, InferInv, LoadInv DEF Next
<1> QED BY <1>1, <1>2, PTL DEF Spec

(* No parent link inside an export is lost, whatever the order of its      *)
(* spans (GraphBuild!ParentLinksAreKept).                                  *)
THEOREM NoLinkIsLost == Spec => []ParentLinksAreKept
<1>1. GraphInv => ParentLinksAreKept
  BY DEF GraphInv, Passes, ParentLinksAreKept, Built, Linked
<1> QED BY <1>1, GraphInductive, PTL

(* Every edge is a parent link or a forward feed                           *)
(* (GraphBuild!EdgesAreJustified).                                         *)
THEOREM NoEdgeIsInvented == Spec => []EdgesAreJustified
<1>1. GraphInv => EdgesAreJustified
  BY DEF GraphInv
<1> QED BY <1>1, GraphInductive, PTL

(* Storing a graph and reading it back keeps its nodes and links           *)
(* (GraphBuild!RoundTrip).                                                 *)
THEOREM StoredGraphIsTheGraph == Spec => []RoundTrip
<1>1. GraphInv => RoundTrip
  BY DEF GraphInv
<1> QED BY <1>1, GraphInductive, PTL
=============================================================================
