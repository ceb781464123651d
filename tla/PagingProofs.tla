---------------------------- MODULE PagingProofs ----------------------------
(***************************************************************************)
(* Proofs about TaskTable and Exports, for any rows, sort orders, page     *)
(* sizes and changes between the pages.                                    *)
(***************************************************************************)
EXTENDS TaskTable, Exports, FiniteSetTheorems, TLAPS

-----------------------------------------------------------------------------
(* A finite set in a strict total order.                                   *)

StrictOrder(set, order) ==
  /\ IsFiniteSet(set)
  /\ \A x \in set : <<x, x>> \notin order
  /\ \A x, y \in set : x # y => <<x, y>> \in order \/ <<y, x>> \in order
  /\ \A x, y, z \in set : <<x, y>> \in order /\ <<y, z>> \in order => <<x, z>> \in order

Below(set, order, x) == {y \in set : <<y, x>> \in order}
Rank(set, order, x) == Cardinality(Below(set, order, x))

\* What is further up has more below it.
LEMMA RankGrows ==
  ASSUME NEW set, NEW order, StrictOrder(set, order), NEW x \in set, NEW y \in set, <<x, y>> \in order
  PROVE  Rank(set, order, x) \in Nat /\ Rank(set, order, y) \in Nat /\ Rank(set, order, x) < Rank(set, order, y)
<1>. DEFINE Bx == Below(set, order, x)  By == Below(set, order, y)
<1>1. Bx \subseteq By /\ x \in By /\ x \notin Bx
  BY DEF StrictOrder, Below
<1>2. IsFiniteSet(By)
  <2>1. By \in SUBSET set
    BY DEF Below
  <2>. QED BY <2>1, FS_Subset DEF StrictOrder
<1>3. Cardinality(Bx) <= Cardinality(By) /\ IsFiniteSet(Bx) /\ (Cardinality(By) = Cardinality(Bx) => By = Bx)
  <2>1. Bx \in SUBSET By
    BY <1>1
  <2>. QED BY <1>2, <2>1, FS_Subset
<1>4. Cardinality(Bx) \in Nat /\ Cardinality(By) \in Nat
  BY <1>2, <1>3, FS_CardinalityType
<1>5. Cardinality(Bx) # Cardinality(By)
  BY <1>1, <1>3
<1>6. Cardinality(Bx) < Cardinality(By)
  <2>. HIDE DEF Bx, By
  <2>. QED BY <1>3, <1>4, <1>5
<1>. QED BY <1>4, <1>6 DEF Rank

\* Ranks are the numbers below the size of the set, each the rank of one.
LEMMA Ranks ==
  ASSUME NEW set, NEW order, StrictOrder(set, order)
  PROVE  /\ Cardinality(set) \in Nat
         /\ \A x \in set : Rank(set, order, x) \in 0 .. Cardinality(set) - 1
         /\ \A k \in 0 .. Cardinality(set) - 1 : \E x \in set : Rank(set, order, x) = k
<1>. DEFINE n == Cardinality(set)
            rank == [x \in set |-> Rank(set, order, x)]
<1>1. n \in Nat
  BY FS_CardinalityType DEF StrictOrder
<1>2. ASSUME NEW x \in set PROVE Rank(set, order, x) \in 0 .. n - 1
  <2>1. Below(set, order, x) \in SUBSET set /\ Below(set, order, x) # set
    BY DEF Below, StrictOrder
  <2>2. IsFiniteSet(set)
    BY DEF StrictOrder
  <2>3. /\ IsFiniteSet(Below(set, order, x))
        /\ Cardinality(Below(set, order, x)) <= n /\ Cardinality(Below(set, order, x)) # n
    BY <2>1, <2>2, FS_Subset
  <2>4. Cardinality(Below(set, order, x)) \in Nat
    BY <2>3, FS_CardinalityType
  <2>. HIDE DEF n
  <2>. QED BY <1>1, <2>3, <2>4 DEF Rank
<1>3. \A x, y \in set : rank[x] = rank[y] => x = y
  <2>. SUFFICES ASSUME NEW x \in set, NEW y \in set, x # y PROVE rank[x] # rank[y]
    OBVIOUS
  <2>1. CASE <<x, y>> \in order
    BY <2>1, RankGrows
  <2>2. CASE <<y, x>> \in order
    BY <2>2, RankGrows
  <2>. QED BY <2>1, <2>2 DEF StrictOrder
<1>4. rank \in Injection(set, 0 .. n - 1)
  <2>1. rank \in [set -> 0 .. n - 1]
    BY <1>2
  <2>. QED BY <1>3, <2>1 DEF Injection, IsInjective
<1>5. IsFiniteSet(0 .. n - 1) /\ Cardinality(0 .. n - 1) = n
  <2>1. 0 \in Int /\ n - 1 \in Int /\ (IF 0 > n - 1 THEN 0 ELSE n - 1 - 0 + 1) = n
    BY <1>1
  <2>. QED BY <2>1, FS_Interval
<1>6. rank \in Surjection(set, 0 .. n - 1)
  <2>1. /\ IsFiniteSet(set) /\ Cardinality(set) <= Cardinality(0 .. n - 1)
        /\ Cardinality(set) = Cardinality(0 .. n - 1) <=> rank \in Surjection(set, 0 .. n - 1)
    <3>. DEFINE below == 0 .. n - 1
    <3>1. rank \in Injection(set, below) /\ IsFiniteSet(below)
      BY <1>4, <1>5
    <3>2. /\ IsFiniteSet(set) /\ Cardinality(set) <= Cardinality(below)
          /\ Cardinality(set) = Cardinality(below) <=> rank \in Surjection(set, below)
      <4>. HIDE DEF rank, below
      <4>. QED BY ONLY <3>1, FS_Injection
    <3>. QED BY <3>2
  <2>. QED BY <1>5, <2>1
<1>7. \A k \in 0 .. n - 1 : \E x \in set : rank[x] = k
  BY <1>6 DEF Surjection
<1>. QED BY <1>1, <1>2, <1>7

\* Every nonempty part of it has a first element.
LEMMA FirstElement ==
  ASSUME NEW set, NEW order, StrictOrder(set, order), set # {}
  PROVE  \E x \in set : \A y \in set : y # x => <<x, y>> \in order
<1>1. Cardinality(set) \in Nat /\ Cardinality(set) # 0
  BY FS_EmptySet, FS_CardinalityType DEF StrictOrder
<1>2. PICK x \in set : Rank(set, order, x) = 0
  <2>1. 0 \in 0 .. Cardinality(set) - 1
    BY <1>1
  <2>. QED BY <2>1, Ranks
<1>3. Below(set, order, x) = {}
  <2>1. Below(set, order, x) \in SUBSET set
    BY DEF Below
  <2>2. IsFiniteSet(Below(set, order, x))
    BY <2>1, FS_Subset DEF StrictOrder
  <2>. QED BY <1>2, <2>2, FS_EmptySet DEF Rank
<1>4. ASSUME NEW y \in set, y # x PROVE <<x, y>> \in order
  BY <1>3, <1>4 DEF Below, StrictOrder
<1>. QED BY <1>4

\* Arranged lists all of the set, in its order.
LEMMA ArrangedInOrder ==
  ASSUME NEW set, NEW order, StrictOrder(set, order)
  PROVE  /\ Cardinality(set) \in Nat
         /\ Arranged(set, order) \in [1 .. Cardinality(set) -> set]
         /\ \A x \in set : \E k \in 1 .. Cardinality(set) : Arranged(set, order)[k] = x
         /\ \A k, l \in 1 .. Cardinality(set) :
              k < l => <<Arranged(set, order)[k], Arranged(set, order)[l]>> \in order
<1>. DEFINE n == Cardinality(set)
            a == Arranged(set, order)
            at(k) == CHOOSE x \in set : Cardinality({y \in set : <<y, x>> \in order}) = k - 1
<1>1. n \in Nat
  BY Ranks
<1>0. a = [k \in 1 .. n |-> at(k)]
  BY DEF Arranged
<1>2. ASSUME NEW k \in 1 .. n
      PROVE  a[k] \in set /\ Rank(set, order, a[k]) = k - 1
  <2>1. k - 1 \in 0 .. n - 1
    BY <1>1
  <2>2. \E x \in set : Cardinality({y \in set : <<y, x>> \in order}) = k - 1
    BY <2>1, Ranks DEF Rank, Below
  <2>3. a[k] = at(k)
    <3>. HIDE DEF at, a
    <3>. QED BY <1>0
  <2>. QED BY <2>2, <2>3 DEF Rank, Below
<1>3. a \in [1 .. n -> set]
  <2>. HIDE DEF a, at
  <2>. QED BY <1>0, <1>2
<1>4. \A x, y \in set : Rank(set, order, x) = Rank(set, order, y) => x = y
  <2>. SUFFICES ASSUME NEW x \in set, NEW y \in set, x # y
                PROVE  Rank(set, order, x) # Rank(set, order, y)
    OBVIOUS
  <2>1. CASE <<x, y>> \in order
    BY <2>1, RankGrows
  <2>2. CASE <<y, x>> \in order
    BY <2>2, RankGrows
  <2>. QED BY <2>1, <2>2 DEF StrictOrder
<1>5. ASSUME NEW x \in set PROVE \E k \in 1 .. n : a[k] = x
  <2>1. Rank(set, order, x) \in 0 .. n - 1
    BY Ranks
  <2>. DEFINE k == Rank(set, order, x) + 1
  <2>2. k \in 1 .. n /\ k - 1 = Rank(set, order, x)
    BY <1>1, <2>1
  <2>3. a[k] = x
    BY <1>2, <1>4, <2>2
  <2>. QED BY <2>2, <2>3
<1>6. ASSUME NEW k \in 1 .. n, NEW l \in 1 .. n, k < l PROVE <<a[k], a[l]>> \in order
  <2>1. a[k] \in set /\ a[l] \in set /\ Rank(set, order, a[k]) = k - 1 /\ Rank(set, order, a[l]) = l - 1
    BY <1>2
  <2>2. a[k] # a[l]
    BY <1>6, <2>1
  <2>3. CASE <<a[l], a[k]>> \in order
    <3>1. Rank(set, order, a[l]) < Rank(set, order, a[k])
      BY <2>1, <2>3, RankGrows
    <3>. QED BY <1>6, <2>1, <3>1
  <2>. QED BY <2>1, <2>2, <2>3 DEF StrictOrder
<1>. QED BY <1>1, <1>3, <1>5, <1>6

-----------------------------------------------------------------------------
(* The order of the rows.                                                  *)

Values == [Column -> Int \cup {Null}]
TaskRow == [uid : TaskSet, values : Values]

AgreeBefore(spec, a, b, i) ==
  \A j \in 1 .. i - 1 : a.values[spec[j].column] = b.values[spec[j].column]

\* a is before b by the column in place i of a sort order, or by its uid.
FirstAt(spec, a, b, i) ==
  IF i > Len(spec) THEN a.uid < b.uid
  ELSE LET x == a.values[spec[i].column]
           y == b.values[spec[i].column]
       IN  y # Null /\ (x = Null \/ IF spec[i].descending THEN x > y ELSE x < y)

\* Of some numbers one is the least.
LEMMA LeastIndex ==
  ASSUME NEW n \in Nat, NEW set \in SUBSET (1 .. n), set # {}
  PROVE  \E k \in set : \A j \in set : k <= j
<1>. DEFINE order == {p \in set \X set : p[1] < p[2]}
<1>1. IsFiniteSet(1 .. n)
  BY FS_Interval, 1 \in Int
<1>2. IsFiniteSet(set)
  BY <1>1, FS_Subset
<1>3. StrictOrder(set, order)
  BY <1>2 DEF StrictOrder
<1>4. PICK k \in set : \A j \in set : j # k => <<k, j>> \in order
  <2>. HIDE DEF order
  <2>. QED BY <1>3, FirstElement
<1>5. ASSUME NEW j \in set PROVE k <= j
  <2>1. k \in Int /\ j \in Int
    OBVIOUS
  <2>2. j # k => k < j
    BY <1>4
  <2>. QED BY <2>1, <2>2
<1>. QED BY <1>5

\* The values of a row.
LEMMA RowCells ==
  ASSUME NEW spec \in SortSpecs, NEW a \in TaskRow
  PROVE  /\ Len(spec) \in Nat /\ a.uid \in Int /\ Null \notin Int
         /\ \A i \in 1 .. Len(spec) :
              a.values[spec[i].column] \in Int \cup {Null} /\ spec[i].descending \in BOOLEAN
<1>1. spec \in Seq([column : Column, descending : BOOLEAN]) /\ TaskSet \subseteq Int /\ Null \notin Int
  BY TableAssumption
<1>2. a.uid \in TaskSet /\ a.values \in Values
  BY DEF TaskRow
<1>3. Len(spec) \in Nat
  BY <1>1
<1>4. ASSUME NEW i \in 1 .. Len(spec)
      PROVE  a.values[spec[i].column] \in Int \cup {Null} /\ spec[i].descending \in BOOLEAN
  <2>. DEFINE Sort == [column : Column, descending : BOOLEAN]
  <2>1. spec[i] \in Sort
    <3>1. spec \in Seq(Sort)
      BY <1>1
    <3>. HIDE DEF Sort
    <3>. QED BY <3>1
  <2>. QED BY <1>2, <2>1 DEF Values
<1>. QED BY <1>1, <1>2, <1>3, <1>4

\* A row precedes another if it is first at the first place where they differ.
LEMMA PrecedesBy ==
  ASSUME NEW spec \in SortSpecs, NEW a \in TaskRow, NEW b \in TaskRow
  PROVE  Precedes(spec, a, b) <=>
           \E i \in 1 .. Len(spec) + 1 : AgreeBefore(spec, a, b, i) /\ FirstAt(spec, a, b, i)
<1>. DEFINE n == Len(spec)
            differs == {i \in 1 .. n : a.values[spec[i].column] # b.values[spec[i].column]}
            least(i) == \A j \in differs : i <= j
<1>1. /\ n \in Nat /\ a.uid \in Int /\ b.uid \in Int /\ Null \notin Int
      /\ \A i \in 1 .. n : /\ a.values[spec[i].column] \in Int \cup {Null} /\ spec[i].descending \in BOOLEAN
                           /\ b.values[spec[i].column] \in Int \cup {Null}
  BY RowCells
<1>2. CASE differs = {}
  <2>1. Precedes(spec, a, b) <=> a.uid < b.uid
    BY <1>2 DEF Precedes
  <2>2. \A i \in 1 .. n : a.values[spec[i].column] = b.values[spec[i].column]
    BY <1>2
  <2>3. AgreeBefore(spec, a, b, n + 1) /\ (FirstAt(spec, a, b, n + 1) <=> a.uid < b.uid)
    <3>1. n + 1 \in 1 .. n + 1 /\ n + 1 > n /\ 1 .. n + 1 - 1 = 1 .. n
      BY <1>1
    <3>. QED BY <2>2, <3>1 DEF AgreeBefore, FirstAt
  <2>4. \A i \in 1 .. n : ~FirstAt(spec, a, b, i)
    BY <1>1, <2>2 DEF FirstAt
  <2>5. \A i \in 1 .. n + 1 : i \in 1 .. n \/ i = n + 1
    BY <1>1
  <2>6. n + 1 \in 1 .. n + 1
    BY <1>1
  <2>. QED BY <2>1, <2>3, <2>4, <2>5, <2>6
<1>3. CASE differs # {}
  <2>1. PICK k \in differs : least(k)
    <3>1. differs \in SUBSET (1 .. n)
      OBVIOUS
    <3>. HIDE DEF differs
    <3>. QED BY <1>1, <1>3, <3>1, LeastIndex
  <2>. DEFINE i0 == CHOOSE i \in differs : least(i)
              x == a.values[spec[k].column]
              y == b.values[spec[k].column]
  <2>2. i0 = k
    <3>1. i0 \in differs /\ least(i0)
      <4>. HIDE DEF least
      <4>. QED BY <2>1
    <3>2. i0 <= k /\ k <= i0 /\ i0 \in Int /\ k \in Int
      <4>1. differs \subseteq Int
        BY <1>1
      <4>. HIDE DEF i0, differs
      <4>. QED BY <2>1, <3>1, <4>1
    <3>. HIDE DEF i0
    <3>. QED BY <3>2
  <2>3. Precedes(spec, a, b) <=>
          IF x = Null \/ y = Null THEN x = Null ELSE IF spec[k].descending THEN x > y ELSE x < y
    <3>1. Precedes(spec, a, b) <=>
            IF differs = {} THEN a.uid < b.uid
            ELSE IF a.values[spec[i0].column] = Null \/ b.values[spec[i0].column] = Null
                 THEN a.values[spec[i0].column] = Null
                 ELSE IF spec[i0].descending THEN a.values[spec[i0].column] > b.values[spec[i0].column]
                      ELSE a.values[spec[i0].column] < b.values[spec[i0].column]
      BY DEF Precedes
    <3>. HIDE DEF i0, differs
    <3>. QED BY <1>3, <2>2, <3>1
  <2>4. k \in 1 .. n /\ x # y /\ k \in 1 .. n + 1 /\ k <= n
    BY <1>1, <2>1
  <2>5. FirstAt(spec, a, b, k) <=>
          IF x = Null \/ y = Null THEN x = Null ELSE IF spec[k].descending THEN x > y ELSE x < y
    <3>1. FirstAt(spec, a, b, k) <=> y # Null /\ (x = Null \/ IF spec[k].descending THEN x > y ELSE x < y)
      BY <1>1, <2>4 DEF FirstAt
    <3>. HIDE DEF x, y
    <3>. QED BY <2>4, <3>1
  <2>6. ASSUME NEW j \in 1 .. n, j < k PROVE a.values[spec[j].column] = b.values[spec[j].column]
    BY <1>1, <2>1, <2>4, <2>6
  <2>7. AgreeBefore(spec, a, b, k)
    <3>1. \A j \in 1 .. k - 1 : j \in 1 .. n /\ j < k
      BY <1>1, <2>4
    <3>. QED BY <2>6, <3>1 DEF AgreeBefore
  <2>8. ASSUME NEW i \in 1 .. n + 1, AgreeBefore(spec, a, b, i), FirstAt(spec, a, b, i) PROVE i = k
    <3>1. CASE i < k
      <4>1. i \in 1 .. n
        BY <1>1, <2>4, <3>1
      <4>2. a.values[spec[i].column] = b.values[spec[i].column] /\ i <= n
        BY <1>1, <2>6, <3>1, <4>1
      <4>. QED BY <1>1, <2>8, <4>1, <4>2 DEF FirstAt
    <3>2. CASE i > k
      <4>1. k \in 1 .. i - 1
        BY <1>1, <2>4, <3>2
      <4>. QED BY <2>4, <2>8, <4>1 DEF AgreeBefore
    <3>. QED BY <1>1, <2>4, <3>1, <3>2
  <2>. QED BY <2>3, <2>4, <2>5, <2>7, <2>8
<1>. QED BY <1>2, <1>3

\* No row precedes itself.
LEMMA NotBeforeItself ==
  ASSUME NEW spec \in SortSpecs, NEW a \in TaskRow
  PROVE  ~Precedes(spec, a, a)
<1>1. /\ Len(spec) \in Nat /\ a.uid \in Int /\ Null \notin Int
      /\ \A i \in 1 .. Len(spec) : a.values[spec[i].column] \in Int \cup {Null} /\ spec[i].descending \in BOOLEAN
  BY RowCells
<1>2. ASSUME NEW i \in 1 .. Len(spec) + 1 PROVE ~FirstAt(spec, a, a, i)
  <2>1. CASE i > Len(spec)
    BY <1>1, <2>1 DEF FirstAt
  <2>2. CASE i \in 1 .. Len(spec)
    BY <1>1, <2>2 DEF FirstAt
  <2>. QED BY <1>1, <2>1, <2>2
<1>. QED BY <1>2, PrecedesBy

\* What is first at a place in one direction or the other.
LEMMA FirstAtOrder ==
  ASSUME NEW spec \in SortSpecs, NEW a \in TaskRow, NEW b \in TaskRow, NEW i \in 1 .. Len(spec)
  PROVE  FirstAt(spec, a, b, i) \/ FirstAt(spec, b, a, i) \/ a.values[spec[i].column] = b.values[spec[i].column]
<1>. DEFINE x == a.values[spec[i].column]
            y == b.values[spec[i].column]
<1>1. x \in Int \cup {Null} /\ y \in Int \cup {Null} /\ Null \notin Int /\ spec[i].descending \in BOOLEAN /\ Len(spec) \in Nat
  BY RowCells
<1>2. FirstAt(spec, a, b, i) <=> y # Null /\ (x = Null \/ IF spec[i].descending THEN x > y ELSE x < y)
  BY <1>1 DEF FirstAt
<1>3. FirstAt(spec, b, a, i) <=> x # Null /\ (y = Null \/ IF spec[i].descending THEN y > x ELSE y < x)
  BY <1>1 DEF FirstAt
<1>4. FirstAt(spec, a, b, i) \/ FirstAt(spec, b, a, i) \/ x = y
  <2>. HIDE DEF x, y
  <2>1. CASE x = Null \/ y = Null
    BY <1>1, <1>2, <1>3, <2>1
  <2>2. CASE x \in Int /\ y \in Int /\ x # y
    <3>1. x < y \/ y < x
      BY <2>2
    <3>. QED BY <1>1, <1>2, <1>3, <2>2, <3>1
  <2>. QED BY <1>1, <2>1, <2>2
<1>. QED BY <1>4

\* Of the rows of two tasks one precedes the other.
LEMMA OneIsFirst ==
  ASSUME NEW spec \in SortSpecs, NEW a \in TaskRow, NEW b \in TaskRow, a.uid # b.uid
  PROVE  Precedes(spec, a, b) \/ Precedes(spec, b, a)
<1>. DEFINE n == Len(spec)
            differs == {i \in 1 .. n : a.values[spec[i].column] # b.values[spec[i].column]}
<1>1. n \in Nat /\ a.uid \in Int /\ b.uid \in Int
  BY RowCells
<1>2. CASE differs = {}
  <2>1. AgreeBefore(spec, a, b, n + 1) /\ AgreeBefore(spec, b, a, n + 1)
    <3>1. 1 .. n + 1 - 1 = 1 .. n
      BY <1>1
    <3>. QED BY <1>2, <3>1 DEF AgreeBefore
  <2>2. FirstAt(spec, a, b, n + 1) \/ FirstAt(spec, b, a, n + 1)
    BY <1>1 DEF FirstAt
  <2>3. n + 1 \in 1 .. n + 1
    BY <1>1
  <2>. HIDE DEF n
  <2>. QED BY <2>1, <2>2, <2>3, PrecedesBy DEF n
<1>3. CASE differs # {}
  <2>1. PICK k \in differs : \A j \in differs : j # k => k < j
    <3>1. differs \in SUBSET (1 .. n)
      OBVIOUS
    <3>2. PICK i \in differs : \A j \in differs : i <= j
      <4>. HIDE DEF differs
      <4>. QED BY <1>1, <1>3, <3>1, LeastIndex
    <3>3. \A j \in differs : j # i => i < j
      <4>. HIDE DEF differs
      <4>. QED BY <1>1, <3>1, <3>2
    <3>. QED BY <3>3
  <2>2. AgreeBefore(spec, a, b, k) /\ AgreeBefore(spec, b, a, k)
    <3>1. \A j \in 1 .. k - 1 : j \in 1 .. n /\ j < k /\ ~(k < j) /\ j # k
      BY <1>1, <2>1
    <3>2. \A j \in 1 .. k - 1 : a.values[spec[j].column] = b.values[spec[j].column]
      BY <2>1, <3>1
    <3>. QED BY <3>2 DEF AgreeBefore
  <2>3. FirstAt(spec, a, b, k) \/ FirstAt(spec, b, a, k)
    BY <2>1, FirstAtOrder
  <2>4. k \in 1 .. n + 1
    BY <1>1, <2>1
  <2>. HIDE DEF n
  <2>. QED BY <2>2, <2>3, <2>4, PrecedesBy DEF n
<1>. QED BY <1>2, <1>3

\* What is first at a place is before what comes after.
LEMMA FirstAtChain ==
  ASSUME NEW spec \in SortSpecs, NEW a \in TaskRow, NEW b \in TaskRow, NEW c \in TaskRow,
         NEW i \in 1 .. Len(spec) + 1, FirstAt(spec, a, b, i), FirstAt(spec, b, c, i)
  PROVE  FirstAt(spec, a, c, i)
<1>1. Len(spec) \in Nat /\ a.uid \in Int /\ b.uid \in Int /\ c.uid \in Int
  BY RowCells
<1>2. CASE i > Len(spec)
  BY <1>1, <1>2 DEF FirstAt
<1>3. CASE i \in 1 .. Len(spec)
  <2>. DEFINE x == a.values[spec[i].column]
              y == b.values[spec[i].column]
              z == c.values[spec[i].column]
  <2>1. /\ x \in Int \cup {Null} /\ y \in Int \cup {Null} /\ z \in Int \cup {Null}
        /\ Null \notin Int /\ spec[i].descending \in BOOLEAN
    BY <1>3, RowCells
  <2>2. FirstAt(spec, a, b, i) <=> y # Null /\ (x = Null \/ IF spec[i].descending THEN x > y ELSE x < y)
    BY <1>1, <1>3 DEF FirstAt
  <2>3. FirstAt(spec, b, c, i) <=> z # Null /\ (y = Null \/ IF spec[i].descending THEN y > z ELSE y < z)
    BY <1>1, <1>3 DEF FirstAt
  <2>4. FirstAt(spec, a, c, i) <=> z # Null /\ (x = Null \/ IF spec[i].descending THEN x > z ELSE x < z)
    BY <1>1, <1>3 DEF FirstAt
  <2>. HIDE DEF x, y, z
  <2>. QED BY <2>1, <2>2, <2>3, <2>4
<1>. QED BY <1>1, <1>2, <1>3

\* Preceding is transitive.
LEMMA PrecedesChain ==
  ASSUME NEW spec \in SortSpecs, NEW a \in TaskRow, NEW b \in TaskRow, NEW c \in TaskRow,
         Precedes(spec, a, b), Precedes(spec, b, c)
  PROVE  Precedes(spec, a, c)
<1>1. Len(spec) \in Nat
  BY RowCells
<1>2. PICK i \in 1 .. Len(spec) + 1 : AgreeBefore(spec, a, b, i) /\ FirstAt(spec, a, b, i)
  BY PrecedesBy
<1>3. PICK k \in 1 .. Len(spec) + 1 : AgreeBefore(spec, b, c, k) /\ FirstAt(spec, b, c, k)
  BY PrecedesBy
<1>4. i \in Nat /\ k \in Nat
  BY <1>1
<1>5. CASE i < k
  <2>1. AgreeBefore(spec, a, c, i)
    <3>1. \A j \in 1 .. i - 1 : j \in 1 .. k - 1
      BY <1>4, <1>5
    <3>. QED BY <1>2, <1>3, <3>1 DEF AgreeBefore
  <2>2. b.values[spec[i].column] = c.values[spec[i].column] /\ i \in 1 .. Len(spec) /\ ~(i > Len(spec))
    <3>1. i \in 1 .. k - 1 /\ i \in 1 .. Len(spec) /\ ~(i > Len(spec))
      BY <1>1, <1>4, <1>5
    <3>. QED BY <1>3, <3>1 DEF AgreeBefore
  <2>3. FirstAt(spec, a, c, i)
    BY <1>2, <2>2 DEF FirstAt
  <2>. QED BY <2>1, <2>3, PrecedesBy
<1>6. CASE i = k
  <2>1. AgreeBefore(spec, a, c, i)
    BY <1>2, <1>3, <1>6 DEF AgreeBefore
  <2>2. FirstAt(spec, a, c, i)
    BY <1>2, <1>3, <1>6, FirstAtChain
  <2>. QED BY <2>1, <2>2, PrecedesBy
<1>7. CASE k < i
  <2>1. AgreeBefore(spec, a, c, k)
    <3>1. \A j \in 1 .. k - 1 : j \in 1 .. i - 1
      BY <1>4, <1>7
    <3>. QED BY <1>2, <1>3, <3>1 DEF AgreeBefore
  <2>2. a.values[spec[k].column] = b.values[spec[k].column] /\ k \in 1 .. Len(spec) /\ ~(k > Len(spec))
    <3>1. k \in 1 .. i - 1 /\ k \in 1 .. Len(spec) /\ ~(k > Len(spec))
      BY <1>1, <1>4, <1>7
    <3>. QED BY <1>2, <3>1 DEF AgreeBefore
  <2>3. FirstAt(spec, a, c, k)
    BY <1>3, <2>2 DEF FirstAt
  <2>. QED BY <2>1, <2>3, PrecedesBy
<1>. QED BY <1>4, <1>5, <1>6, <1>7

\* The rows behind a cursor are those it precedes.
LEMMA AfterIsBehind ==
  ASSUME NEW spec \in SortSpecs, NEW row \in TaskRow, NEW last \in TaskRow
  PROVE  After(spec, row, last) <=> Precedes(spec, last, row)
<1>1. Len(spec) \in Nat /\ row.uid \in Int /\ last.uid \in Int
  BY RowCells
<1>2. ASSUME NEW i \in 1 .. Len(spec) + 1
      PROVE  (IF i > Len(spec) THEN row.uid > last.uid
              ELSE LET v == last.values[spec[i].column]
                       e == row.values[spec[i].column]
                   IN  e # Null /\ (v = Null \/ IF spec[i].descending THEN e < v ELSE e > v))
             <=> FirstAt(spec, last, row, i)
  <2>1. CASE i > Len(spec)
    BY <1>1, <2>1 DEF FirstAt
  <2>2. CASE i \in 1 .. Len(spec)
    <3>. DEFINE v == last.values[spec[i].column]
                e == row.values[spec[i].column]
    <3>1. v \in Int \cup {Null} /\ e \in Int \cup {Null} /\ Null \notin Int /\ spec[i].descending \in BOOLEAN /\ ~(i > Len(spec))
      BY <1>1, <2>2, RowCells
    <3>2. FirstAt(spec, last, row, i) <=> e # Null /\ (v = Null \/ IF spec[i].descending THEN v > e ELSE v < e)
      BY <3>1 DEF FirstAt
    <3>3. (e # Null /\ (v = Null \/ IF spec[i].descending THEN e < v ELSE e > v)) <=> FirstAt(spec, last, row, i)
      <4>. HIDE DEF v, e
      <4>. QED BY <3>1, <3>2
    <3>. QED BY <3>1, <3>3
  <2>. QED BY <1>1, <2>1, <2>2
<1>3. ASSUME NEW i \in 1 .. Len(spec) + 1
      PROVE  (\A j \in 1 .. i - 1 : row.values[spec[j].column] = last.values[spec[j].column]) <=> AgreeBefore(spec, last, row, i)
  BY DEF AgreeBefore
<1>. QED BY <1>2, <1>3, PrecedesBy DEF After

-----------------------------------------------------------------------------
(* Lists of rows.                                                          *)

Cursor == TaskRow \cup {None}
Rows == Seq(TaskRow)
Distinct(rows) == \A i, j \in DOMAIN rows : i # j => rows[i].uid # rows[j].uid
Holds(rows, row) == \E i \in DOMAIN rows : rows[i] = row

\* The rows of different tasks are in a strict order.
LEMMA RowOrder ==
  ASSUME NEW spec \in SortSpecs, NEW rows \in SUBSET TaskRow, IsFiniteSet(rows),
         \A a, b \in rows : a # b => a.uid # b.uid
  PROVE  StrictOrder(rows, {p \in rows \X rows : Precedes(spec, p[1], p[2])})
<1>. DEFINE order == {p \in rows \X rows : Precedes(spec, p[1], p[2])}
<1>1. \A a, b \in rows : <<a, b>> \in order <=> Precedes(spec, a, b)
  OBVIOUS
<1>2. \A a \in rows : ~Precedes(spec, a, a)
  BY NotBeforeItself
<1>3. \A a, b \in rows : a # b => Precedes(spec, a, b) \/ Precedes(spec, b, a)
  BY OneIsFirst
<1>4. \A a, b, c \in rows : Precedes(spec, a, b) /\ Precedes(spec, b, c) => Precedes(spec, a, c)
  BY PrecedesChain
<1>. HIDE DEF order
<1>5. StrictOrder(rows, order)
  BY <1>1, <1>2, <1>3, <1>4 DEF StrictOrder
<1>. QED BY <1>5 DEF order

\* Ordered lists all the rows, each behind those that precede it.
LEMMA OrderedRows ==
  ASSUME NEW spec \in SortSpecs, NEW rows \in SUBSET TaskRow, IsFiniteSet(rows),
         \A a, b \in rows : a # b => a.uid # b.uid
  PROVE  LET list == Ordered(spec, rows)
         IN  /\ list \in Rows /\ Distinct(list)
             /\ \A i \in DOMAIN list : list[i] \in rows
             /\ \A row \in rows : Holds(list, row)
             /\ \A i, j \in DOMAIN list : i < j => Precedes(spec, list[i], list[j])
<1>. DEFINE order == {p \in rows \X rows : Precedes(spec, p[1], p[2])}
            list == Ordered(spec, rows)
            n == Cardinality(rows)
<1>1. StrictOrder(rows, order)
  BY RowOrder
<1>2. /\ n \in Nat /\ list \in [1 .. n -> rows]
      /\ \A row \in rows : \E k \in 1 .. n : list[k] = row
      /\ \A k, l \in 1 .. n : k < l => <<list[k], list[l]>> \in order
  <2>. HIDE DEF order
  <2>1. list = Arranged(rows, order)
    BY DEF Ordered, order
  <2>. QED BY <1>1, <2>1, ArrangedInOrder
<1>. HIDE DEF list, n
<1>3. DOMAIN list = 1 .. n
  BY <1>2
<1>4. \A k, l \in 1 .. n : k < l => Precedes(spec, list[k], list[l])
  BY <1>2
<1>. HIDE DEF order
<1>5. list \in Rows
  BY <1>2 DEF Rows
<1>6. ASSUME NEW k \in 1 .. n, NEW l \in 1 .. n, k < l PROVE list[k].uid # list[l].uid
  <2>1. list[k] \in rows /\ list[l] \in rows
    BY <1>2
  <2>2. list[k] # list[l]
    <3>1. ~Precedes(spec, list[k], list[k])
      BY <2>1, NotBeforeItself
    <3>. QED BY <1>4, <1>6, <3>1
  <2>. QED BY <2>1, <2>2
<1>7. Distinct(list)
  <2>1. \A k, l \in 1 .. n : k # l => k < l \/ l < k
    BY <1>2
  <2>. QED BY <1>3, <1>6, <2>1 DEF Distinct
<1>8. (\A i \in DOMAIN list : list[i] \in rows) /\ \A row \in rows : Holds(list, row)
  BY <1>2, <1>3 DEF Holds
<1>. QED BY <1>3, <1>4, <1>5, <1>7, <1>8 DEF list

\* Kept leaves the order as it is.
LEMMA KeptInOrder ==
  ASSUME NEW list \in Rows, NEW indexes \in SUBSET DOMAIN list
  PROVE  LET kept == Kept(list, indexes)
         IN  /\ kept \in Rows
             /\ \A k \in DOMAIN kept : \E i \in indexes : kept[k] = list[i]
             /\ \A k, l \in DOMAIN kept : k < l => \E i, j \in indexes : i < j /\ kept[k] = list[i] /\ kept[l] = list[j]
             /\ \A i \in indexes : Holds(kept, list[i])
<1>. DEFINE order == {p \in indexes \X indexes : p[1] < p[2]}
            index == Arranged(indexes, order)
            n == Cardinality(indexes)
            kept == Kept(list, indexes)
<1>1. Len(list) \in Nat /\ DOMAIN list = 1 .. Len(list) /\ \A i \in DOMAIN list : list[i] \in TaskRow
  BY DEF Rows
<1>2. StrictOrder(indexes, order)
  <2>1. IsFiniteSet(indexes)
    <3>1. IsFiniteSet(1 .. Len(list))
      BY <1>1, FS_Interval, 1 \in Int
    <3>2. indexes \in SUBSET (1 .. Len(list))
      BY <1>1
    <3>. QED BY <3>1, <3>2, FS_Subset
  <2>2. indexes \subseteq Int
    BY <1>1
  <2>. QED BY <2>1, <2>2 DEF StrictOrder
<1>3. /\ n \in Nat /\ index \in [1 .. n -> indexes]
      /\ \A i \in indexes : \E k \in 1 .. n : index[k] = i
      /\ \A k, l \in 1 .. n : k < l => <<index[k], index[l]>> \in order
  <2>. HIDE DEF order
  <2>. QED BY <1>2, ArrangedInOrder
<1>4. kept = [k \in 1 .. n |-> list[index[k]]]
  BY DEF Kept
<1>. HIDE DEF index, n, kept
<1>5. \A k, l \in 1 .. n : k < l => index[k] < index[l]
  BY <1>3
<1>6. DOMAIN kept = 1 .. n /\ \A k \in 1 .. n : kept[k] = list[index[k]] /\ index[k] \in indexes
  BY <1>3, <1>4
<1>7. kept \in Rows
  <2>1. \A k \in 1 .. n : list[index[k]] \in TaskRow
    BY <1>1, <1>6
  <2>. QED BY <1>3, <1>4, <2>1 DEF Rows
<1>8. \A i \in indexes : Holds(kept, list[i])
  BY <1>3, <1>6 DEF Holds
<1>. QED BY <1>5, <1>6, <1>7, <1>8 DEF kept

-----------------------------------------------------------------------------
(* A page of listTasks.                                                    *)

Stored == [TaskSet -> Values \cup {None}]
RowOf(st, u) == [uid |-> u, values |-> st[u]]

\* What a page holds of the tasks stored when it was read: those behind the
\* cursor, up to the next cursor, in order.
PageOf(st, spec, cursor, page) ==
  /\ page.rows \in Rows /\ page.cursor \in Cursor /\ Distinct(page.rows)
  /\ \A i, j \in DOMAIN page.rows : i < j => Precedes(spec, page.rows[i], page.rows[j])
  /\ \A i \in DOMAIN page.rows :
       /\ st[page.rows[i].uid] = page.rows[i].values
       /\ cursor # None => Precedes(spec, cursor, page.rows[i])
       /\ page.cursor # None => ~Precedes(spec, page.cursor, page.rows[i])
  /\ page.cursor # None => page.rows # <<>>
  /\ \A u \in TaskSet : st[u] # None =>
       \/ cursor # None /\ ~Precedes(spec, cursor, RowOf(st, u))
       \/ Holds(page.rows, RowOf(st, u))
       \/ page.cursor # None /\ Precedes(spec, page.cursor, RowOf(st, u))

\* The rows of the tasks there are.
LEMMA StoredRows ==
  ASSUME NEW st \in Stored
  PROVE  LET rows == {RowOf(st, u) : u \in {v \in TaskSet : st[v] # None}}
         IN  /\ rows \in SUBSET TaskRow /\ IsFiniteSet(rows)
             /\ \A a, b \in rows : a # b => a.uid # b.uid
             /\ \A a \in rows : st[a.uid] = a.values
<1>. DEFINE there == {v \in TaskSet : st[v] # None}
            rows == {RowOf(st, u) : u \in there}
<1>1. \A u \in there : st[u] \in Values
  BY DEF Stored
<1>2. rows \in SUBSET TaskRow
  BY <1>1 DEF RowOf, TaskRow
<1>3. IsFiniteSet(rows)
  <2>1. IsFiniteSet(there)
    BY FS_Subset, TableAssumption
  <2>. DEFINE f == [u \in there |-> RowOf(st, u)]
  <2>2. f \in Surjection(there, rows)
    BY DEF Surjection
  <2>. HIDE DEF f, there, rows
  <2>. QED BY <2>1, <2>2, FS_Surjection
<1>4. \A a \in rows : a.uid \in there /\ a = RowOf(st, a.uid) /\ st[a.uid] = a.values
  BY DEF RowOf
<1>. HIDE DEF rows, there
<1>5. \A a, b \in rows : a # b => a.uid # b.uid
  BY <1>4
<1>. QED BY <1>2, <1>3, <1>4, <1>5 DEF rows, there

\* listTasks cuts its pages right.
LEMMA ListTasksPage ==
  ASSUME NEW spec \in SortSpecs, NEW cursor \in Cursor, stored_tasks \in Stored
  PROVE  PageOf(stored_tasks, spec, cursor, ListTasks(spec, cursor))
<1>. DEFINE st == stored_tasks
            rows == {RowOf(st, u) : u \in {v \in TaskSet : st[v] # None}}
            behind == {row \in rows : cursor = None \/ After(spec, row, cursor)}
            all == Ordered(spec, behind)
            more == Len(all) > PageLimit
            list == IF Len(all) <= PageLimit THEN all ELSE SubSeq(all, 1, PageLimit)
            next == IF Len(all) > PageLimit THEN list[PageLimit] ELSE None
            page == ListTasks(spec, cursor)
<1>1. page = [rows |-> list, cursor |-> next]
  BY DEF ListTasks, RowOf
<1>2. /\ rows \in SUBSET TaskRow /\ IsFiniteSet(rows)
      /\ \A a, b \in rows : a # b => a.uid # b.uid
      /\ \A a \in rows : st[a.uid] = a.values
  BY StoredRows
<1>3. /\ \A u \in TaskSet : st[u] # None => RowOf(st, u) \in rows
      /\ behind \subseteq rows
      /\ \A a \in rows : a \in behind <=> cursor = None \/ Precedes(spec, cursor, a)
  <2>1. \A u \in TaskSet : st[u] # None => RowOf(st, u) \in rows
    OBVIOUS
  <2>2. \A a \in rows : cursor # None => (After(spec, a, cursor) <=> Precedes(spec, cursor, a))
    <3>. HIDE DEF rows, st
    <3>. QED BY <1>2, AfterIsBehind DEF Cursor
  <2>. HIDE DEF rows
  <2>. QED BY <2>1, <2>2
<1>. HIDE DEF rows
<1>4. behind \in SUBSET TaskRow /\ IsFiniteSet(behind) /\ \A a, b \in behind : a # b => a.uid # b.uid
  BY <1>2, FS_Subset
<1>5. /\ all \in Rows /\ Distinct(all)
      /\ \A i \in DOMAIN all : all[i] \in behind
      /\ \A row \in behind : Holds(all, row)
      /\ \A i, j \in DOMAIN all : i < j => Precedes(spec, all[i], all[j])
  <2>. HIDE DEF behind
  <2>. QED BY <1>4, OrderedRows
<1>. HIDE DEF behind, all, page
<1>6. Len(all) \in Nat /\ DOMAIN all = 1 .. Len(all) /\ PageLimit \in Nat /\ PageLimit >= 1
  BY <1>5, TableAssumption DEF Rows
<1>7. /\ list \in Rows /\ DOMAIN list = 1 .. (IF more THEN PageLimit ELSE Len(all))
      /\ \A i \in DOMAIN list : i \in DOMAIN all /\ list[i] = all[i]
  <2>1. CASE more
    <3>1. SubSeq(all, 1, PageLimit) = [i \in 1 .. PageLimit |-> all[i]]
      BY <1>6
    <3>2. \A i \in 1 .. PageLimit : i \in DOMAIN all /\ all[i] \in TaskRow
      BY <1>5, <1>6, <2>1 DEF Rows
    <3>3. ~(Len(all) <= PageLimit) /\ list = [i \in 1 .. PageLimit |-> all[i]]
      BY <1>6, <2>1, <3>1
    <3>. HIDE DEF list
    <3>4. list \in Rows
      BY <1>6, <3>2, <3>3 DEF Rows
    <3>. QED BY <2>1, <3>2, <3>3, <3>4
  <2>2. CASE ~more
    <3>1. list = all
      <4>1. Len(all) <= PageLimit
        BY <1>6, <2>2
      <4>. QED BY <4>1, Zenon
    <3>. QED BY <1>5, <1>6, <2>2, <3>1
  <2>. QED BY <2>1, <2>2
<1>8. more => /\ PageLimit \in DOMAIN list /\ next = all[PageLimit] /\ PageLimit \in DOMAIN all
              /\ \A i \in DOMAIN list : i = PageLimit \/ i < PageLimit
              /\ \A i \in DOMAIN all : i \in DOMAIN list \/ PageLimit < i
  <2>. SUFFICES ASSUME more
                PROVE  /\ PageLimit \in DOMAIN list /\ next = all[PageLimit] /\ PageLimit \in DOMAIN all
                       /\ \A i \in DOMAIN list : i = PageLimit \/ i < PageLimit
                       /\ \A i \in DOMAIN all : i \in DOMAIN list \/ PageLimit < i
    OBVIOUS
  <2>1. DOMAIN list = 1 .. PageLimit /\ next = list[PageLimit]
    BY <1>6, <1>7
  <2>2. PageLimit \in DOMAIN list
    BY <1>6, <2>1
  <2>3. \A i \in 1 .. Len(all) : i \in 1 .. PageLimit \/ PageLimit < i
    BY <1>6
  <2>4. \A i \in 1 .. PageLimit : i = PageLimit \/ i < PageLimit
    BY <1>6
  <2>. HIDE DEF list, next
  <2>. QED BY <1>6, <1>7, <2>1, <2>2, <2>3, <2>4
<1>9. ~more => next = None /\ list = all
  <2>1. Len(all) <= PageLimit <=> ~more
    BY <1>6
  <2>. QED BY <2>1, Zenon
<1>. HIDE DEF list, next, more
<1>10. page.rows = list /\ page.cursor = next
  BY <1>1
<1>11. \A i \in DOMAIN all : all[i] \in TaskRow /\ all[i] \in rows /\ (cursor = None \/ Precedes(spec, cursor, all[i]))
  BY <1>2, <1>3, <1>5
<1>12. None \notin TaskRow
  BY TableAssumption DEF TaskRow, Values
<1>13. Distinct(list) /\ next \in Cursor /\ (next # None <=> more) /\ (more => list # <<>>)
  BY <1>5, <1>7, <1>8, <1>9, <1>11, <1>12 DEF Distinct, Cursor
<1>14. \A i, j \in DOMAIN list : i < j => Precedes(spec, list[i], list[j])
  BY <1>5, <1>7
<1>15. ASSUME NEW i \in DOMAIN list
       PROVE  /\ st[list[i].uid] = list[i].values
              /\ cursor # None => Precedes(spec, cursor, list[i])
              /\ next # None => ~Precedes(spec, next, list[i])
  <2>1. list[i] = all[i] /\ i \in DOMAIN all /\ list[i] \in TaskRow
    BY <1>7, <1>11
  <2>2. ASSUME next # None PROVE ~Precedes(spec, next, list[i])
    <3>1. more /\ next = all[PageLimit] /\ PageLimit \in DOMAIN all
      BY <1>8, <1>13, <2>2
    <3>2. next \in TaskRow /\ ~Precedes(spec, next, next)
      BY <1>11, <3>1, NotBeforeItself
    <3>3. CASE i = PageLimit
      BY <2>1, <3>1, <3>2, <3>3
    <3>4. CASE i < PageLimit
      <4>1. Precedes(spec, list[i], next)
        BY <1>5, <2>1, <3>1, <3>4
      <4>. QED BY <2>1, <3>2, <4>1, PrecedesChain, NotBeforeItself
    <3>. QED BY <1>8, <3>1, <3>3, <3>4
  <2>. QED BY <1>2, <1>11, <2>1, <2>2
<1>16. ASSUME NEW u \in TaskSet, st[u] # None
       PROVE  \/ cursor # None /\ ~Precedes(spec, cursor, RowOf(st, u))
              \/ Holds(list, RowOf(st, u))
              \/ next # None /\ Precedes(spec, next, RowOf(st, u))
  <2>. DEFINE row == RowOf(st, u)
  <2>. SUFFICES ASSUME cursor = None \/ Precedes(spec, cursor, row)
                PROVE  Holds(list, row) \/ (next # None /\ Precedes(spec, next, row))
    OBVIOUS
  <2>1. row \in behind
    BY <1>3, <1>16
  <2>. HIDE DEF row
  <2>2. PICK i \in DOMAIN all : all[i] = row
    BY <1>5, <2>1 DEF Holds
  <2>3. CASE i \in DOMAIN list
    BY <1>7, <2>2, <2>3 DEF Holds
  <2>4. CASE more /\ PageLimit < i
    BY <1>5, <1>8, <1>13, <2>2, <2>4
  <2>. QED BY <1>8, <1>9, <2>3, <2>4
<1>. HIDE DEF st
<1>17. PageOf(st, spec, cursor, page)
  BY <1>7, <1>10, <1>13, <1>14, <1>15, <1>16 DEF PageOf
<1>. QED BY <1>17 DEF st, page

-----------------------------------------------------------------------------
(* What is known of the screen.                                            *)

Fields ==
  {"view", "back", "next", "rows", "grid", "rendered", "allIdentity", "allCursor", "allComplete",
   "generation", "loads", "editing", "edits", "deferredReload", "deferredSorts", "touched", "left"}
LoadFields == {"phase", "generation", "identity", "cursor", "first", "refreshing", "page"}

View == [sorts : SortSpecs, all : BOOLEAN, cursor : Cursor]

LoadType(load) ==
  /\ load.phase \in {"asked", "answered", "drawing", "sorting"} /\ load.generation \in Nat
  /\ load.phase # "sorting" =>
       DOMAIN load = LoadFields /\ load.identity \in View /\ load.cursor \in Cursor
  /\ load.phase \in {"answered", "drawing"} =>
       load.page.rows \in Rows /\ load.page.cursor \in Cursor /\ Distinct(load.page.rows)

ScreenType(s) ==
  /\ DOMAIN s = Fields
  /\ s.view \in View /\ (s.view.all => s.view.cursor = None)
  /\ s.back \in Seq(Cursor) /\ s.next \in Cursor
  /\ s.rows \in Rows /\ Distinct(s.rows) /\ s.grid \in Rows \cup {None}
  /\ s.rendered \in View \cup {None} /\ s.allIdentity \in View \cup {None}
  /\ s.allCursor \in Cursor /\ s.allComplete \in BOOLEAN /\ s.left \in BOOLEAN
  /\ s.generation \in Nat /\ s.deferredSorts \in SortSpecs \cup {None}
  /\ s.editing \in BOOLEAN /\ s.deferredReload \in BOOLEAN

\* The tasks that must be shown: they are there and nobody has changed them.
Still(touched, st) == {u \in TaskSet \ touched : st[u] # None}

\* Rows in order, and with a row all that must be shown before it.
RowsTrue(rows, touched, st, spec) ==
  /\ \A i, j \in DOMAIN rows :
       i < j /\ rows[i].uid \notin touched /\ rows[j].uid \notin touched => Precedes(spec, rows[i], rows[j])
  /\ \A i \in DOMAIN rows : rows[i].uid \notin touched =>
       /\ st[rows[i].uid] = rows[i].values
       /\ \A u \in Still(touched, st) : Precedes(spec, RowOf(st, u), rows[i]) => Holds(rows, RowOf(st, u))

\* Every task that must be shown is, up to a row.
UpTo(rows, touched, st, spec, cursor) ==
  \A u \in Still(touched, st) :
    cursor = None \/ ~Precedes(spec, cursor, RowOf(st, u)) => Holds(rows, RowOf(st, u))

\* What remains true of a page while tasks are changed.
PageTrue(page, touched, st, spec, cursor) ==
  /\ \A i, j \in DOMAIN page.rows : i < j => Precedes(spec, page.rows[i], page.rows[j])
  /\ \A i \in DOMAIN page.rows :
       /\ page.rows[i].uid \notin touched => st[page.rows[i].uid] = page.rows[i].values
       /\ cursor # None => Precedes(spec, cursor, page.rows[i])
       /\ page.cursor # None => ~Precedes(spec, page.cursor, page.rows[i])
  /\ page.cursor # None => page.rows # <<>>
  /\ \A u \in Still(touched, st) :
       \/ cursor # None /\ ~Precedes(spec, cursor, RowOf(st, u))
       \/ Holds(page.rows, RowOf(st, u))
       \/ page.cursor # None /\ Precedes(spec, page.cursor, RowOf(st, u))

\* A load under way in a view of all rows.
LoadTrue(s, st, load) ==
  /\ ~s.allComplete
  /\ load.refreshing => s.rendered = s.allIdentity
  /\ load.phase \in {"asked", "answered"} =>
       /\ load.cursor = s.allCursor
       /\ load.first <=> load.cursor = None
       /\ load.first => s.rows = <<>>
       /\ ~load.first /\ ~load.refreshing => s.grid = s.rows
  /\ load.phase = "answered" => PageTrue(load.page, s.touched, st, s.view.sorts, load.cursor)
  /\ load.phase = "drawing" =>
       /\ s.grid = s.rows /\ UpTo(s.rows, s.touched, st, s.view.sorts, load.page.cursor)
       /\ load.page.cursor # None => s.rows # <<>>

\* The view of all rows, as long as it was not left.
AllTrue(s, st) ==
  /\ s.view.all /\ s.allIdentity = s.view
  /\ RowsTrue(s.rows, s.touched, st, s.view.sorts)
  /\ s.allCursor # None => s.rows # <<>> /\ ~s.allComplete /\ UpTo(s.rows, s.touched, st, s.view.sorts, s.allCursor)
  /\ s.allComplete => s.grid = s.rows /\ UpTo(s.rows, s.touched, st, s.view.sorts, None)
  /\ s.rendered # s.allIdentity /\ s.rows # <<>> => s.grid = s.rows
  /\ \A load \in s.loads : load.generation = s.generation /\ load.phase # "sorting" => LoadTrue(s, st, load)

\* One load at most is of the present generation, and asks for what is viewed.
LoadsTrue(s) ==
  /\ \A load \in s.loads : LoadType(load) /\ load.generation <= s.generation
  /\ \A load \in s.loads : load.phase \in {"drawing", "sorting"} => s.grid # None
  /\ \A load, other \in s.loads :
       load.generation = s.generation /\ other.generation = s.generation => load = other
  /\ \A load \in s.loads : load.generation = s.generation /\ load.phase # "sorting" =>
       load.identity = s.view /\ (s.view.all => ~s.left /\ s.allIdentity # None)

\* A view of all rows that was left and is viewed again before it is loaded
\* waits for an edit to end.
WillLoad(s) == s.view.all /\ s.left /\ ~s.allComplete => s.deferredReload \/ s.deferredSorts # None

ScreenKnown(s, st) ==
  /\ ScreenType(s) /\ (s.grid = None => s.rendered = None) /\ LoadsTrue(s)
  /\ s.allIdentity # None /\ ~s.left => AllTrue(s, st)

ScreenTrue(s, st) == ScreenKnown(s, st) /\ WillLoad(s)

\* What is edited is shown, and a load that waits for an edit waits for one.
EditTrue(s) ==
  /\ s.editing => s.grid # None
  /\ s.view.all /\ s.left /\ ~s.allComplete => s.editing

TableInv == stored_tasks \in Stored /\ ScreenTrue(screen, stored_tasks) /\ EditTrue(screen)

-----------------------------------------------------------------------------
(* Pages, lists and changes of tasks.                                      *)

\* A page that was just read is true.
LEMMA PageOfIsTrue ==
  ASSUME NEW st, NEW spec, NEW cursor, NEW page, NEW touched, PageOf(st, spec, cursor, page)
  PROVE  PageTrue(page, touched, st, spec, cursor)
BY DEF PageOf, PageTrue, Still

\* The row of a task that must be shown.
LEMMA StillRow ==
  ASSUME NEW st \in Stored, NEW touched, NEW u \in Still(touched, st)
  PROVE  RowOf(st, u) \in TaskRow /\ RowOf(st, u).uid = u /\ RowOf(st, u).values = st[u] /\ u \notin touched
<1>1. u \in TaskSet /\ st[u] \in Values /\ u \notin touched
  BY DEF Still, Stored
<1>. QED BY <1>1 DEF RowOf, TaskRow

\* A row that nobody has changed is the row of its task.
LEMMA RowIsStill ==
  ASSUME NEW st \in Stored, NEW touched, NEW row \in TaskRow, row.uid \notin touched, st[row.uid] = row.values
  PROVE  row.uid \in Still(touched, st) /\ row = RowOf(st, row.uid)
<1>1. row.uid \in TaskSet /\ row.values \in Values /\ row = [uid |-> row.uid, values |-> row.values]
  BY DEF TaskRow
<1>2. row.values # None
  BY <1>1, TableAssumption DEF Values
<1>. QED BY <1>1, <1>2 DEF Still, RowOf

\* The places of a list of rows.
LEMMA RowsIndexes ==
  ASSUME NEW rows \in Rows
  PROVE  /\ Len(rows) \in Nat /\ DOMAIN rows = 1 .. Len(rows) /\ DOMAIN rows \subseteq Nat
         /\ \A i \in DOMAIN rows : rows[i] \in TaskRow /\ rows[i].uid \in TaskSet
<1>1. Len(rows) \in Nat /\ DOMAIN rows = 1 .. Len(rows) /\ \A i \in DOMAIN rows : rows[i] \in TaskRow
  BY DEF Rows
<1>. QED BY <1>1 DEF TaskRow

\* The first page begins the list.
LEMMA FirstPage ==
  ASSUME NEW st \in Stored, NEW spec \in SortSpecs, NEW touched, NEW page,
         page.rows \in Rows, page.cursor \in Cursor,
         PageTrue(page, touched, st, spec, None)
  PROVE  /\ RowsTrue(page.rows, touched, st, spec)
         /\ UpTo(page.rows, touched, st, spec, page.cursor)
<1>. DEFINE rows == page.rows
<1>0. \A i \in DOMAIN rows : rows[i] \in TaskRow
  BY DEF Rows
<1>1. UpTo(rows, touched, st, spec, page.cursor)
  BY DEF UpTo, PageTrue
<1>2. ASSUME NEW i \in DOMAIN rows, rows[i].uid \notin touched, NEW u \in Still(touched, st),
             Precedes(spec, RowOf(st, u), rows[i])
      PROVE  Holds(rows, RowOf(st, u))
  <2>1. Holds(rows, RowOf(st, u)) \/ (page.cursor # None /\ Precedes(spec, page.cursor, RowOf(st, u)))
    BY DEF PageTrue
  <2>2. RowOf(st, u) \in TaskRow
    BY StillRow
  <2>3. page.cursor # None => ~Precedes(spec, page.cursor, rows[i])
    BY DEF PageTrue
  <2>4. ASSUME page.cursor # None, Precedes(spec, page.cursor, RowOf(st, u)) PROVE FALSE
    <3>1. page.cursor \in TaskRow
      BY <2>4 DEF Cursor
    <3>2. Precedes(spec, page.cursor, rows[i])
      BY <1>0, <1>2, <2>2, <2>4, <3>1, PrecedesChain
    <3>. QED BY <2>3, <2>4, <3>2
  <2>. QED BY <2>1, <2>4
<1>3. RowsTrue(rows, touched, st, spec)
  <2>1. \A i, j \in DOMAIN rows : i < j => Precedes(spec, rows[i], rows[j])
    BY DEF PageTrue
  <2>2. \A i \in DOMAIN rows : rows[i].uid \notin touched => st[rows[i].uid] = rows[i].values
    BY DEF PageTrue
  <2>. HIDE DEF rows
  <2>. QED BY <1>2, <2>1, <2>2 DEF RowsTrue
<1>. QED BY <1>1, <1>3

\* Where the elements of two lists are in the list of both.
LEMMA Joined ==
  ASSUME NEW rows \in Rows, NEW fresh \in Rows
  PROVE  LET both == rows \o fresh
         IN  /\ both \in Rows
             /\ \A i \in DOMAIN rows : i \in DOMAIN both /\ both[i] = rows[i]
             /\ \A i \in DOMAIN fresh : Len(rows) + i \in DOMAIN both /\ both[Len(rows) + i] = fresh[i]
             /\ \A k \in DOMAIN both : k \in DOMAIN rows \/ k - Len(rows) \in DOMAIN fresh
             /\ \A k \in DOMAIN both : k \in DOMAIN rows =>
                  k \in Nat /\ \A l \in DOMAIN both : l - Len(rows) \in DOMAIN fresh => k < l
             /\ \A k \in DOMAIN both : k - Len(rows) \in DOMAIN fresh => both[k] = fresh[k - Len(rows)]
             /\ rows # <<>> => both # <<>>
<1>. DEFINE both == rows \o fresh
<1>1. /\ Len(rows) \in Nat /\ Len(fresh) \in Nat
      /\ DOMAIN rows = 1 .. Len(rows) /\ DOMAIN fresh = 1 .. Len(fresh)
      /\ \A i \in DOMAIN rows : rows[i] \in TaskRow
      /\ \A i \in DOMAIN fresh : fresh[i] \in TaskRow
  BY DEF Rows
<1>10. both \in Rows /\ Len(both) = Len(rows) + Len(fresh)
  BY DEF Rows
<1>2. \A i \in 1 .. Len(rows) + Len(fresh) : both[i] = IF i <= Len(rows) THEN rows[i] ELSE fresh[i - Len(rows)]
  BY DEF Rows
<1>. HIDE DEF both
<1>3. DOMAIN both = 1 .. Len(rows) + Len(fresh)
  BY <1>10, RowsIndexes
<1>4. \A i \in DOMAIN rows : i \in DOMAIN both /\ both[i] = rows[i]
  BY <1>1, <1>2, <1>3
<1>5. \A i \in DOMAIN fresh : Len(rows) + i \in DOMAIN both /\ both[Len(rows) + i] = fresh[i]
  BY <1>1, <1>2, <1>3
<1>6. \A k \in DOMAIN both : k \in DOMAIN rows \/ k - Len(rows) \in DOMAIN fresh
  BY <1>1, <1>3
<1>7. \A k \in DOMAIN both : k \in DOMAIN rows =>
        k \in Nat /\ \A l \in DOMAIN both : l - Len(rows) \in DOMAIN fresh => k < l
  BY <1>1, <1>3
<1>8. ASSUME NEW k \in DOMAIN both, k - Len(rows) \in DOMAIN fresh
      PROVE  both[k] = fresh[k - Len(rows)]
  <2>1. Len(rows) + (k - Len(rows)) = k
    BY <1>1, <1>3
  <2>. QED BY <1>5, <1>8, <2>1
<1>11. rows # <<>> => both # <<>>
  <2>. SUFFICES ASSUME rows # <<>> PROVE both # <<>>
    OBVIOUS
  <2>1. Len(rows) # 0
    BY DEF Rows
  <2>2. 1 \in DOMAIN both
    BY <1>1, <1>3, <2>1
  <2>. QED BY <2>2
<1>. QED BY <1>4, <1>5, <1>6, <1>7, <1>8, <1>10, <1>11 DEF both

\* The indexes of a page that is appended: rows that are not there yet.
Fresh(list, rows) == {i \in DOMAIN list : \A j \in DOMAIN rows : rows[j].uid # list[i].uid}

\* A list that goes on without tasks it has already has no task twice.
LEMMA JoinedDistinct ==
  ASSUME NEW rows \in Rows, NEW list \in Rows, Distinct(rows), Distinct(list)
  PROVE  Distinct(rows \o Kept(list, Fresh(list, rows)))
<1>. DEFINE fresh == Kept(list, Fresh(list, rows))
            both == rows \o fresh
<1>0. Fresh(list, rows) \in SUBSET DOMAIN list
  BY DEF Fresh
<1>1. /\ fresh \in Rows
      /\ \A k \in DOMAIN fresh : \E i \in Fresh(list, rows) : fresh[k] = list[i]
      /\ \A k, l \in DOMAIN fresh : k < l =>
           \E i, j \in Fresh(list, rows) : i < j /\ fresh[k] = list[i] /\ fresh[l] = list[j]
  BY <1>0, KeptInOrder
<1>. HIDE DEF fresh
<1>2. DOMAIN fresh \subseteq Nat /\ DOMAIN list \subseteq Nat
  BY <1>1, RowsIndexes
<1>3. /\ \A i \in DOMAIN rows : i \in DOMAIN both /\ both[i] = rows[i]
      /\ \A k \in DOMAIN both : k \in DOMAIN rows \/ k - Len(rows) \in DOMAIN fresh
      /\ \A k \in DOMAIN both : k - Len(rows) \in DOMAIN fresh => both[k] = fresh[k - Len(rows)]
      /\ both \in Rows
  BY <1>1, Joined
<1>. HIDE DEF both
<1>4. \A k \in DOMAIN fresh, j \in DOMAIN rows : rows[j].uid # fresh[k].uid
  BY <1>1 DEF Fresh
<1>5. ASSUME NEW k \in DOMAIN fresh, NEW l \in DOMAIN fresh, k # l PROVE fresh[k].uid # fresh[l].uid
  <2>1. k < l \/ l < k
    BY <1>2, <1>5
  <2>2. ASSUME NEW i \in Fresh(list, rows), NEW j \in Fresh(list, rows), i < j PROVE list[i].uid # list[j].uid
    <3>1. i \in DOMAIN list /\ j \in DOMAIN list /\ i # j
      BY <1>0, <1>2, <2>2
    <3>. QED BY <3>1 DEF Distinct
  <2>. QED BY <1>1, <2>1, <2>2
<1>6. ASSUME NEW k \in DOMAIN both, NEW l \in DOMAIN both, k # l PROVE both[k].uid # both[l].uid
  <2>1. k - Len(rows) # l - Len(rows)
    <3>1. Len(rows) \in Nat /\ k \in Nat /\ l \in Nat
      BY <1>3 DEF Rows
    <3>. QED BY <1>6, <3>1
  <2>2. CASE k \in DOMAIN rows /\ l \in DOMAIN rows
    BY <1>3, <1>6, <2>2 DEF Distinct
  <2>3. CASE k \in DOMAIN rows /\ l - Len(rows) \in DOMAIN fresh
    BY <1>3, <1>4, <2>3
  <2>4. CASE k - Len(rows) \in DOMAIN fresh /\ l \in DOMAIN rows
    BY <1>3, <1>4, <2>4
  <2>5. CASE k - Len(rows) \in DOMAIN fresh /\ l - Len(rows) \in DOMAIN fresh
    BY <1>3, <1>5, <2>1, <2>5
  <2>. QED BY <1>3, <2>2, <2>3, <2>4, <2>5
<1>7. Distinct(both)
  BY <1>6 DEF Distinct
<1>. QED BY <1>7 DEF both, fresh

\* The next page goes on with the list.
LEMMA NextOfList ==
  ASSUME NEW st \in Stored, NEW spec \in SortSpecs, NEW touched, NEW page, NEW rows \in Rows, NEW cursor \in TaskRow,
         page.rows \in Rows, page.cursor \in Cursor, Distinct(rows), Distinct(page.rows),
         RowsTrue(rows, touched, st, spec), UpTo(rows, touched, st, spec, cursor),
         PageTrue(page, touched, st, spec, cursor)
  PROVE  LET both == rows \o Kept(page.rows, Fresh(page.rows, rows))
         IN  /\ RowsTrue(both, touched, st, spec)
             /\ UpTo(both, touched, st, spec, page.cursor) /\ UpTo(both, touched, st, spec, cursor)
<1>. DEFINE list == page.rows
            indexes == Fresh(list, rows)
            fresh == Kept(list, indexes)
            both == rows \o fresh
<1>0. indexes \in SUBSET DOMAIN list /\ list \in Rows /\ cursor # None
  BY TableAssumption DEF Fresh, TaskRow, Values
<1>1. /\ fresh \in Rows
      /\ \A k \in DOMAIN fresh : \E i \in indexes : fresh[k] = list[i]
      /\ \A k, l \in DOMAIN fresh : k < l => \E i, j \in indexes : i < j /\ fresh[k] = list[i] /\ fresh[l] = list[j]
      /\ \A i \in indexes : Holds(fresh, list[i])
  <2>. HIDE DEF list, indexes
  <2>. QED BY <1>0, KeptInOrder
<1>2. /\ \A i \in DOMAIN list : list[i] \in TaskRow
      /\ \A i \in DOMAIN rows : rows[i] \in TaskRow
      /\ DOMAIN fresh \subseteq Nat /\ Len(rows) \in Nat
  BY <1>0, <1>1 DEF Rows
<1>. HIDE DEF fresh
<1>3. /\ both \in Rows
      /\ \A i \in DOMAIN rows : i \in DOMAIN both /\ both[i] = rows[i]
      /\ \A i \in DOMAIN fresh : Len(rows) + i \in DOMAIN both /\ both[Len(rows) + i] = fresh[i]
      /\ \A k \in DOMAIN both : k \in DOMAIN rows \/ k - Len(rows) \in DOMAIN fresh
      /\ \A k \in DOMAIN both : k \in DOMAIN rows =>
           k \in Nat /\ \A l \in DOMAIN both : l - Len(rows) \in DOMAIN fresh => k < l
      /\ \A k \in DOMAIN both : k - Len(rows) \in DOMAIN fresh => both[k] = fresh[k - Len(rows)]
  BY <1>1, Joined
<1>. HIDE DEF both
<1>4. /\ \A i, j \in DOMAIN list : i < j => Precedes(spec, list[i], list[j])
      /\ \A i \in DOMAIN list :
           /\ list[i].uid \notin touched => st[list[i].uid] = list[i].values
           /\ Precedes(spec, cursor, list[i])
           /\ page.cursor # None => ~Precedes(spec, page.cursor, list[i])
      /\ \A u \in Still(touched, st) :
           \/ ~Precedes(spec, cursor, RowOf(st, u))
           \/ Holds(list, RowOf(st, u))
           \/ page.cursor # None /\ Precedes(spec, page.cursor, RowOf(st, u))
  BY <1>0 DEF PageTrue
<1>5. /\ \A i, j \in DOMAIN rows :
           i < j /\ rows[i].uid \notin touched /\ rows[j].uid \notin touched => Precedes(spec, rows[i], rows[j])
      /\ \A i \in DOMAIN rows : rows[i].uid \notin touched =>
           /\ st[rows[i].uid] = rows[i].values
           /\ \A u \in Still(touched, st) : Precedes(spec, RowOf(st, u), rows[i]) => Holds(rows, RowOf(st, u))
  BY DEF RowsTrue
<1>6. \A row : Holds(rows, row) \/ Holds(fresh, row) => Holds(both, row)
  BY <1>3 DEF Holds
<1>7. \A u \in Still(touched, st) : ~Precedes(spec, cursor, RowOf(st, u)) => Holds(rows, RowOf(st, u))
  BY DEF UpTo
<1>8. ASSUME NEW u \in Still(touched, st)
      PROVE  Holds(both, RowOf(st, u)) \/ (page.cursor # None /\ Precedes(spec, page.cursor, RowOf(st, u)))
  <2>. DEFINE row == RowOf(st, u)
  <2>1. row \in TaskRow /\ row.uid = u /\ row.values = st[u] /\ u \notin touched
    BY StillRow
  <2>2. CASE ~Precedes(spec, cursor, row)
    BY <1>6, <1>7, <2>2
  <2>3. CASE Holds(list, row)
    <3>1. PICK i \in DOMAIN list : list[i] = row
      BY <2>3 DEF Holds
    <3>2. CASE i \in indexes
      BY <1>1, <1>6, <3>1, <3>2
    <3>3. CASE i \notin indexes
      <4>1. PICK j \in DOMAIN rows : rows[j].uid = u
        <5>1. \E j \in DOMAIN rows : rows[j].uid = list[i].uid
          BY <3>3 DEF Fresh
        <5>. QED BY <2>1, <3>1, <5>1
      <4>2. st[rows[j].uid] = rows[j].values /\ rows[j].uid \notin touched /\ rows[j] \in TaskRow
        BY <1>2, <1>5, <2>1, <4>1
      <4>3. rows[j] = row
        BY <4>1, <4>2, RowIsStill
      <4>. QED BY <1>6, <4>3 DEF Holds
    <3>. QED BY <3>2, <3>3
  <2>. QED BY <1>4, <2>2, <2>3
<1>9. UpTo(both, touched, st, spec, page.cursor)
  BY <1>8 DEF UpTo
<1>10. UpTo(both, touched, st, spec, cursor)
  BY <1>0, <1>6, <1>7 DEF UpTo
<1>11. ASSUME NEW k \in DOMAIN fresh, fresh[k].uid \notin touched
       PROVE  /\ fresh[k] \in TaskRow /\ st[fresh[k].uid] = fresh[k].values
              /\ \A u \in Still(touched, st) : Precedes(spec, RowOf(st, u), fresh[k]) => Holds(both, RowOf(st, u))
  <2>1. PICK i \in indexes : fresh[k] = list[i]
    BY <1>1
  <2>2. i \in DOMAIN list /\ fresh[k] \in TaskRow
    BY <1>0, <1>2, <2>1
  <2>3. ASSUME NEW u \in Still(touched, st), Precedes(spec, RowOf(st, u), fresh[k])
        PROVE  Holds(both, RowOf(st, u))
    <3>1. RowOf(st, u) \in TaskRow
      BY StillRow
    <3>2. ASSUME page.cursor # None, Precedes(spec, page.cursor, RowOf(st, u)) PROVE FALSE
      <4>1. page.cursor \in TaskRow
        BY <3>2 DEF Cursor
      <4>2. Precedes(spec, page.cursor, fresh[k])
        BY <2>2, <2>3, <3>1, <3>2, <4>1, PrecedesChain
      <4>. QED BY <1>4, <2>1, <2>2, <3>2, <4>2
    <3>. QED BY <1>8, <3>2
  <2>. QED BY <1>4, <1>11, <2>1, <2>2, <2>3
<1>12. ASSUME NEW i \in DOMAIN rows, NEW k \in DOMAIN fresh, rows[i].uid \notin touched, fresh[k].uid \notin touched
       PROVE  Precedes(spec, rows[i], fresh[k])
  <2>1. fresh[k] \in TaskRow /\ st[fresh[k].uid] = fresh[k].values
    BY <1>11, <1>12
  <2>2. rows[i].uid # fresh[k].uid /\ rows[i] \in TaskRow
    BY <1>1, <1>2 DEF Fresh
  <2>3. fresh[k].uid \in Still(touched, st) /\ fresh[k] = RowOf(st, fresh[k].uid)
    BY <1>12, <2>1, RowIsStill
  <2>4. ~Holds(rows, fresh[k])
    BY <1>1 DEF Holds, Fresh
  <2>5. ~Precedes(spec, fresh[k], rows[i])
    BY <1>5, <1>12, <2>3, <2>4
  <2>. QED BY <2>1, <2>2, <2>5, OneIsFirst
<1>13. ASSUME NEW k \in DOMAIN fresh, NEW l \in DOMAIN fresh, k < l
       PROVE  Precedes(spec, fresh[k], fresh[l])
  BY <1>0, <1>1, <1>4, <1>13
<1>14. ASSUME NEW k \in DOMAIN both, NEW l \in DOMAIN both, k < l, both[k].uid \notin touched, both[l].uid \notin touched
       PROVE  Precedes(spec, both[k], both[l])
  <2>0. k \in Nat /\ l \in Nat
    BY <1>3 DEF Rows
  <2>1. CASE k \in DOMAIN rows /\ l \in DOMAIN rows
    BY <1>3, <1>5, <1>14, <2>1
  <2>2. CASE k \in DOMAIN rows /\ l - Len(rows) \in DOMAIN fresh
    BY <1>3, <1>12, <1>14, <2>2
  <2>3. CASE l \in DOMAIN rows /\ k - Len(rows) \in DOMAIN fresh
    <3>1. l < k
      BY <1>3, <2>3
    <3>. QED BY <1>14, <2>0, <3>1
  <2>4. CASE k - Len(rows) \in DOMAIN fresh /\ l - Len(rows) \in DOMAIN fresh
    <3>1. k - Len(rows) < l - Len(rows)
      BY <1>2, <1>14, <2>0
    <3>. QED BY <1>3, <1>13, <2>4, <3>1
  <2>. QED BY <1>3, <2>1, <2>2, <2>3, <2>4
<1>15. ASSUME NEW k \in DOMAIN both, both[k].uid \notin touched
       PROVE  /\ st[both[k].uid] = both[k].values
              /\ \A u \in Still(touched, st) : Precedes(spec, RowOf(st, u), both[k]) => Holds(both, RowOf(st, u))
  <2>1. CASE k \in DOMAIN rows
    BY <1>3, <1>5, <1>6, <1>15, <2>1
  <2>2. CASE k - Len(rows) \in DOMAIN fresh
    BY <1>3, <1>11, <1>15, <2>2
  <2>. QED BY <1>3, <2>1, <2>2
<1>16. RowsTrue(both, touched, st, spec)
  BY <1>14, <1>15 DEF RowsTrue
<1>. QED BY <1>9, <1>10, <1>16 DEF both, fresh

\* What is left of a list, and of the tasks, when one of them changes: its row
\* may take other values, and need not be shown any more.
Changes(rows, new, u) ==
  /\ DOMAIN new = DOMAIN rows
  /\ \A i \in DOMAIN rows : new[i].uid = rows[i].uid /\ (rows[i].uid # u => new[i] = rows[i])

\* A list is true after the change if it was before.
LEMMA RowsChanged ==
  ASSUME NEW st, NEW next, NEW spec, NEW touched, NEW u \in TaskSet, NEW rows \in Rows, NEW new \in Rows,
         \A v \in TaskSet : v # u => next[v] = st[v], Changes(rows, new, u)
  PROVE  /\ RowsTrue(rows, touched, st, spec) => RowsTrue(new, touched \cup {u}, next, spec)
         /\ \A cursor : UpTo(rows, touched, st, spec, cursor) => UpTo(new, touched \cup {u}, next, spec, cursor)
         /\ Distinct(rows) => Distinct(new)
<1>1. \A v \in Still(touched \cup {u}, next) :
        v \in Still(touched, st) /\ v # u /\ RowOf(next, v) = RowOf(st, v) /\ RowOf(st, v).uid = v
  BY DEF Still, RowOf
<1>2. ASSUME NEW v \in Still(touched \cup {u}, next), Holds(rows, RowOf(st, v)) PROVE Holds(new, RowOf(next, v))
  <2>1. PICK i \in DOMAIN rows : rows[i] = RowOf(st, v)
    BY <1>2 DEF Holds
  <2>2. rows[i].uid # u /\ new[i] = rows[i] /\ i \in DOMAIN new
    BY <1>1, <2>1 DEF Changes
  <2>. QED BY <1>1, <2>1, <2>2 DEF Holds
<1>3. ASSUME NEW cursor, UpTo(rows, touched, st, spec, cursor) PROVE UpTo(new, touched \cup {u}, next, spec, cursor)
  BY <1>1, <1>2, <1>3 DEF UpTo
<1>4. Distinct(rows) => Distinct(new)
  BY DEF Distinct, Changes
<1>5. ASSUME RowsTrue(rows, touched, st, spec) PROVE RowsTrue(new, touched \cup {u}, next, spec)
  <2>1. \A i \in DOMAIN new : i \in DOMAIN rows /\ rows[i] \in TaskRow
    BY DEF Changes, Rows
  <2>2. ASSUME NEW i \in DOMAIN new, new[i].uid \notin touched \cup {u}
        PROVE  /\ new[i] = rows[i] /\ rows[i].uid \notin touched /\ rows[i].uid # u /\ rows[i].uid \in TaskSet
    BY <2>1, <2>2 DEF Changes, TaskRow
  <2>3. ASSUME NEW i \in DOMAIN new, new[i].uid \notin touched \cup {u}
        PROVE  /\ next[new[i].uid] = new[i].values
               /\ \A v \in Still(touched \cup {u}, next) :
                    Precedes(spec, RowOf(next, v), new[i]) => Holds(new, RowOf(next, v))
    <3>1. new[i] = rows[i] /\ rows[i].uid \notin touched /\ rows[i].uid # u /\ rows[i].uid \in TaskSet
      BY <2>2, <2>3
    <3>2. /\ st[rows[i].uid] = rows[i].values
          /\ \A v \in Still(touched, st) : Precedes(spec, RowOf(st, v), rows[i]) => Holds(rows, RowOf(st, v))
      BY <1>5, <2>1, <3>1 DEF RowsTrue
    <3>3. \A v \in Still(touched \cup {u}, next) :
            Precedes(spec, RowOf(next, v), new[i]) => Holds(new, RowOf(next, v))
      BY <1>1, <1>2, <3>1, <3>2
    <3>. QED BY <3>1, <3>2, <3>3
  <2>4. \A i, j \in DOMAIN new :
          i < j /\ new[i].uid \notin touched \cup {u} /\ new[j].uid \notin touched \cup {u} => Precedes(spec, new[i], new[j])
    BY <1>5, <2>1, <2>2 DEF RowsTrue
  <2>. QED BY <2>3, <2>4 DEF RowsTrue
<1>. QED BY <1>3, <1>4, <1>5

\* And so is a page that is not shown yet.
LEMMA PageChanged ==
  ASSUME NEW st, NEW next, NEW spec, NEW touched, NEW u \in TaskSet, NEW page, page.rows \in Rows, NEW cursor,
         \A v \in TaskSet : v # u => next[v] = st[v], PageTrue(page, touched, st, spec, cursor)
  PROVE  PageTrue(page, touched \cup {u}, next, spec, cursor)
<1>1. \A v \in Still(touched \cup {u}, next) :
        v \in Still(touched, st) /\ v # u /\ RowOf(next, v) = RowOf(st, v) /\ RowOf(st, v).uid = v
  BY DEF Still, RowOf
<1>2. \A i \in DOMAIN page.rows : page.rows[i].uid \in TaskSet
  BY RowsIndexes
<1>3. \A i \in DOMAIN page.rows : page.rows[i].uid \notin touched \cup {u} => next[page.rows[i].uid] = page.rows[i].values
  BY <1>2 DEF PageTrue
<1>4. \A v \in Still(touched \cup {u}, next) :
        \/ cursor # None /\ ~Precedes(spec, cursor, RowOf(next, v))
        \/ Holds(page.rows, RowOf(next, v))
        \/ page.cursor # None /\ Precedes(spec, page.cursor, RowOf(next, v))
  BY <1>1 DEF PageTrue
<1>. QED BY <1>3, <1>4 DEF PageTrue

\* All rows, sorted in another order, are all rows in that order.
LEMMA AllRowsSorted ==
  ASSUME NEW st \in Stored, NEW spec \in SortSpecs, NEW sorts \in SortSpecs, NEW touched, NEW rows \in Rows, Distinct(rows)
  PROVE  LET sorted == Ordered(sorts, Range(rows))
         IN  /\ sorted \in Rows /\ Distinct(sorted)
             /\ RowsTrue(rows, touched, st, spec) /\ UpTo(rows, touched, st, spec, None) =>
                  RowsTrue(sorted, touched, st, sorts) /\ UpTo(sorted, touched, st, sorts, None)
<1>. DEFINE set == Range(rows)
            sorted == Ordered(sorts, set)
<1>1. Len(rows) \in Nat /\ DOMAIN rows = 1 .. Len(rows) /\ \A i \in DOMAIN rows : rows[i] \in TaskRow
  BY DEF Rows
<1>2. set \in SUBSET TaskRow /\ \A row : row \in set <=> Holds(rows, row)
  BY <1>1 DEF Range, Holds
<1>3. IsFiniteSet(set)
  <2>1. IsFiniteSet(DOMAIN rows)
    BY <1>1, FS_Interval, 1 \in Int
  <2>2. rows \in Surjection(DOMAIN rows, set)
    <3>1. rows \in [DOMAIN rows -> set]
      <4>1. rows = [i \in DOMAIN rows |-> rows[i]]
        BY DEF Rows
      <4>2. \A i \in DOMAIN rows : rows[i] \in set
        BY DEF Range
      <4>. HIDE DEF set
      <4>. QED BY <4>1, <4>2
    <3>. QED BY <3>1 DEF Surjection, Range
  <2>. HIDE DEF set
  <2>. QED BY <2>1, <2>2, FS_Surjection
<1>4. \A a, b \in set : a # b => a.uid # b.uid
  BY <1>2 DEF Holds, Distinct
<1>. HIDE DEF set
<1>5. /\ sorted \in Rows /\ Distinct(sorted)
      /\ \A i \in DOMAIN sorted : sorted[i] \in set
      /\ \A row \in set : Holds(sorted, row)
      /\ \A i, j \in DOMAIN sorted : i < j => Precedes(sorts, sorted[i], sorted[j])
  BY <1>2, <1>3, <1>4, OrderedRows
<1>. HIDE DEF sorted
<1>6. ASSUME RowsTrue(rows, touched, st, spec), UpTo(rows, touched, st, spec, None)
      PROVE  RowsTrue(sorted, touched, st, sorts) /\ UpTo(sorted, touched, st, sorts, None)
  <2>1. \A u \in Still(touched, st) : Holds(sorted, RowOf(st, u))
    BY <1>2, <1>5, <1>6 DEF UpTo
  <2>2. \A i \in DOMAIN sorted : sorted[i].uid \notin touched => st[sorted[i].uid] = sorted[i].values
    BY <1>2, <1>5, <1>6 DEF RowsTrue, Holds
  <2>. QED BY <1>5, <2>1, <2>2 DEF RowsTrue, UpTo
<1>. QED BY <1>5, <1>6 DEF sorted, set

-----------------------------------------------------------------------------
(* What the operations do to the screen.                                   *)

\* Some fields are what they were.
Same(s, t, fields) == DOMAIN t = Fields /\ \A f \in fields : t[f] = s[f]

\* A view, without the fields that tell it from no other.
LEMMA ViewIdentity ==
  ASSUME NEW view \in View
  PROVE  Identity(view) = view
BY DEF Identity, View

\* No view of all rows is None.
LEMMA AllIsSome ==
  ASSUME NEW view \in View, view.all, view.cursor = None
  PROVE  view # None
<1>1. view = [sorts |-> view.sorts, all |-> view.all, cursor |-> None] /\ view.sorts \in SortSpecs
  BY DEF View
<1>2. view.all \in BOOLEAN
  BY DEF View
<1>. QED BY <1>1, <1>2, TableAssumption

\* None is no row and no list of rows.
LEMMA NoneIsNoRow == None \notin TaskRow /\ None \notin Rows
BY TableAssumption DEF TaskRow, Values, Rows

\* cancelLoad changes the generation.
LEMMA CancelFields ==
  ASSUME NEW s, DOMAIN s = Fields
  PROVE  Same(s, CancelLoad(s), Fields \ {"generation"}) /\ CancelLoad(s).generation = s.generation + 1
BY DEF CancelLoad, Same, Fields

\* The view that is loaded: the one shown, with sorts that were put off.
Deferred(s) ==
  IF s.deferredSorts = None THEN s.view ELSE [sorts |-> s.deferredSorts, all |-> s.view.all, cursor |-> None]

Continues(s, resume) ==
  Deferred(s).all /\ resume /\ s.allIdentity = Deferred(s) /\ s.rows # <<>> /\ s.allCursor # None

NewLoad(s, resume) ==
  [phase |-> "asked", generation |-> s.generation + 1, identity |-> Deferred(s),
   cursor |-> IF ~Deferred(s).all THEN Deferred(s).cursor
              ELSE IF resume /\ s.allIdentity = Deferred(s) THEN s.allCursor ELSE None,
   first |-> ~Continues(s, resume),
   refreshing |-> Deferred(s).all /\ s.grid # None /\ s.rendered = Deferred(s), page |-> None]

\* loadPage while a cell is edited.
LEMMA LoadPagePutOff ==
  ASSUME NEW s, DOMAIN s = Fields, s.editing, NEW resume
  PROVE  LET t == LoadPage(s, resume)
         IN  /\ Same(s, t, Fields \ {"generation", "deferredReload"})
             /\ t.generation = s.generation + 1 /\ t.deferredReload = TRUE
<1>. DEFINE c == CancelLoad(s)
            t == LoadPage(s, resume)
<1>1. t = [c EXCEPT !.deferredReload = TRUE]
  BY DEF LoadPage
<1>2. Same(s, c, Fields \ {"generation"}) /\ c.generation = s.generation + 1
  BY CancelFields
<1>. HIDE DEF c, t
<1>. QED BY <1>1, <1>2 DEF Same, Fields, t

\* loadPage otherwise.
LEMMA LoadPageFields ==
  ASSUME NEW s, DOMAIN s = Fields, ~s.editing, s.view \in View, s.deferredSorts \in SortSpecs \cup {None}, NEW resume
  PROVE  LET t == LoadPage(s, resume)
         IN  /\ Same(s, t, {"next", "grid", "rendered", "editing", "edits"})
             /\ t.view = Deferred(s) /\ (t.back = s.back \/ t.back = <<>>)
             /\ t.generation = s.generation + 1
             /\ t.deferredReload = FALSE /\ t.deferredSorts = None
             /\ t.loads = s.loads \cup {NewLoad(s, resume)}
             /\ IF ~Deferred(s).all \/ Continues(s, resume)
                THEN Same(s, t, {"rows", "allIdentity", "allCursor", "allComplete", "touched", "left"})
                ELSE /\ t.allIdentity = Deferred(s) /\ t.allCursor = None /\ t.allComplete = FALSE
                     /\ t.rows = <<>> /\ t.touched = {} /\ t.left = FALSE
<1>. DEFINE c == CancelLoad(s)
            d == IF c.deferredSorts = None THEN [c EXCEPT !.deferredReload = FALSE]
                 ELSE [c EXCEPT !.deferredReload = FALSE, !.deferredSorts = None, !.back = <<>>,
                         !.view = [@ EXCEPT !.sorts = c.deferredSorts, !.cursor = None]]
            started == [d EXCEPT !.loads = @ \cup {NewLoad(s, resume)}]
            t == LoadPage(s, resume)
<1>1. Same(s, c, Fields \ {"generation"}) /\ c.generation = s.generation + 1
  BY CancelFields
<1>2. c.view \in View /\ c.deferredSorts = s.deferredSorts /\ c.view = s.view
  BY <1>1 DEF Same, Fields
<1>. HIDE DEF c
<1>3. /\ Same(s, d, {"next", "grid", "rendered", "editing", "edits", "rows", "allIdentity", "allCursor",
                     "allComplete", "touched", "left", "loads"})
      /\ d.view = Deferred(s) /\ (d.back = s.back \/ d.back = <<>>)
      /\ d.generation = s.generation + 1 /\ d.deferredReload = FALSE /\ d.deferredSorts = None
  <2>1. CASE c.deferredSorts = None
    <3>1. d = [c EXCEPT !.deferredReload = FALSE]
      BY <2>1
    <3>. HIDE DEF d
    <3>. QED BY <1>1, <1>2, <2>1, <3>1 DEF Same, Fields, Deferred
  <2>2. CASE c.deferredSorts # None
    <3>. DEFINE view == [c.view EXCEPT !.sorts = c.deferredSorts, !.cursor = None]
    <3>1. view = [sorts |-> s.deferredSorts, all |-> s.view.all, cursor |-> None]
      <4>1. c.view = [sorts |-> s.view.sorts, all |-> s.view.all, cursor |-> s.view.cursor]
        BY <1>2 DEF View
      <4>2. view = [[sorts |-> s.view.sorts, all |-> s.view.all, cursor |-> s.view.cursor]
                      EXCEPT !.sorts = s.deferredSorts, !.cursor = None]
        BY <1>2, <4>1
      <4>. HIDE DEF view
      <4>. QED BY <4>2
    <3>2. view = Deferred(s)
      BY <1>2, <2>2, <3>1 DEF Deferred
    <3>3. d = [c EXCEPT !.deferredReload = FALSE, !.deferredSorts = None, !.back = <<>>, !.view = view]
      BY <2>2
    <3>. HIDE DEF d, view
    <3>. QED BY <1>1, <3>2, <3>3 DEF Same, Fields
  <2>. QED BY <2>1, <2>2
<1>4. Deferred(s) \in View
  BY DEF Deferred, View, Cursor
<1>5. Identity(d.view) = Deferred(s)
  <2>. HIDE DEF d
  <2>. QED BY <1>3, <1>4, ViewIdentity
<1>6. t = IF ~d.view.all THEN started
          ELSE IF Continues(s, resume) THEN [started EXCEPT !.allIdentity = Deferred(s)]
          ELSE [started EXCEPT !.allIdentity = Deferred(s), !.allCursor = None, !.allComplete = FALSE,
                  !.rows = <<>>, !.touched = {}, !.left = FALSE]
  <2>. DEFINE identity == Identity(d.view)
              all == d.view.all
              cursor == IF ~all THEN d.view.cursor
                        ELSE IF resume /\ d.allIdentity = identity THEN d.allCursor ELSE None
              continuing == all /\ resume /\ d.allIdentity = identity /\ d.rows # <<>> /\ cursor # None
              load == [phase |-> "asked", generation |-> d.generation, identity |-> identity, cursor |-> cursor,
                       first |-> ~continuing, refreshing |-> all /\ d.grid # None /\ d.rendered = identity,
                       page |-> None]
              begun == [d EXCEPT !.loads = @ \cup {load}]
  <2>1. t = IF ~all THEN begun
            ELSE IF continuing THEN [begun EXCEPT !.allIdentity = identity]
            ELSE [begun EXCEPT !.allIdentity = identity, !.allCursor = None, !.allComplete = FALSE,
                    !.rows = <<>>, !.touched = {}, !.left = FALSE]
    BY DEF LoadPage, c
  <2>2. continuing <=> Continues(s, resume)
    <3>. HIDE DEF d
    <3>. QED BY <1>3, <1>5 DEF Continues, Same
  <2>3. load = NewLoad(s, resume)
    <3>1. cursor = IF ~Deferred(s).all THEN Deferred(s).cursor
                   ELSE IF resume /\ s.allIdentity = Deferred(s) THEN s.allCursor ELSE None
      <4>. HIDE DEF d
      <4>. QED BY <1>3, <1>5 DEF Same
    <3>2. (all /\ d.grid # None /\ d.rendered = identity) = (Deferred(s).all /\ s.grid # None /\ s.rendered = Deferred(s))
      <4>. HIDE DEF d
      <4>. QED BY <1>3, <1>5 DEF Same
    <3>3. (~continuing) = (~Continues(s, resume))
      BY <2>2
    <3>. HIDE DEF d, continuing, cursor
    <3>. QED BY <1>3, <1>5, <3>1, <3>2, <3>3 DEF NewLoad
  <2>. HIDE DEF d, load, continuing, t
  <2>. QED BY <1>5, <2>1, <2>2, <2>3
<1>. HIDE DEF d
<1>7. Same(d, started, Fields \ {"loads"}) /\ started.loads = s.loads \cup {NewLoad(s, resume)}
  BY <1>3 DEF Same, Fields
<1>. HIDE DEF started, t
<1>8. CASE ~Deferred(s).all
  <2>1. t = started
    BY <1>3, <1>6, <1>8
  <2>. QED BY <1>3, <1>7, <1>8, <2>1 DEF Same, Fields, t
<1>9. CASE Deferred(s).all /\ Continues(s, resume)
  <2>1. t = [started EXCEPT !.allIdentity = Deferred(s)]
    BY <1>3, <1>6, <1>9
  <2>2. s.allIdentity = Deferred(s)
    BY <1>9 DEF Continues
  <2>. QED BY <1>3, <1>7, <1>9, <2>1, <2>2 DEF Same, Fields, t
<1>10. CASE Deferred(s).all /\ ~Continues(s, resume)
  <2>1. t = [started EXCEPT !.allIdentity = Deferred(s), !.allCursor = None, !.allComplete = FALSE,
                  !.rows = <<>>, !.touched = {}, !.left = FALSE]
    BY <1>3, <1>6, <1>10
  <2>. QED BY <1>3, <1>7, <1>10, <2>1 DEF Same, Fields, t
<1>. QED BY <1>8, <1>9, <1>10

\* What is known remains known when loads are dropped or left behind, and
\* when an edit begins or ends.
LEMMA KnownStays ==
  ASSUME NEW s, NEW t, NEW st, ScreenKnown(s, st),
         Same(s, t, Fields \ {"generation", "loads", "deferredReload", "deferredSorts", "editing", "edits"}),
         t.loads \subseteq s.loads, t.generation \in Nat, t.generation >= s.generation,
         t.editing \in BOOLEAN, t.deferredReload \in BOOLEAN, t.deferredSorts \in SortSpecs \cup {None}
  PROVE  ScreenKnown(t, st)
<1>1. /\ t.view = s.view /\ t.back = s.back /\ t.next = s.next /\ t.rows = s.rows /\ t.grid = s.grid
      /\ t.rendered = s.rendered /\ t.allIdentity = s.allIdentity /\ t.allCursor = s.allCursor
      /\ t.allComplete = s.allComplete /\ t.touched = s.touched /\ t.left = s.left /\ DOMAIN t = Fields
  BY DEF Same, Fields
<1>2. ScreenType(t) /\ (t.grid = None => t.rendered = None)
  BY <1>1 DEF ScreenKnown, ScreenType
<1>3. s.generation \in Nat /\ \A load \in s.loads : load.generation <= s.generation /\ load.generation \in Nat
  BY DEF ScreenKnown, ScreenType, LoadsTrue, LoadType
<1>4. \A load \in t.loads : load \in s.loads /\ load.generation <= t.generation
                              /\ (load.generation = t.generation => load.generation = s.generation)
  BY <1>3
<1>5. LoadsTrue(t)
  BY <1>1, <1>4 DEF ScreenKnown, LoadsTrue
<1>6. ASSUME t.allIdentity # None, ~t.left PROVE AllTrue(t, st)
  <2>1. AllTrue(s, st)
    BY <1>1, <1>6 DEF ScreenKnown
  <2>2. \A load : LoadTrue(s, st, load) => LoadTrue(t, st, load)
    BY <1>1 DEF LoadTrue
  <2>. QED BY <1>1, <1>4, <2>1, <2>2 DEF AllTrue
<1>. QED BY <1>2, <1>5, <1>6 DEF ScreenKnown

\* So does what was put off.
LEMMA LessLoads ==
  ASSUME NEW s, NEW t, NEW st, ScreenTrue(s, st),
         Same(s, t, Fields \ {"generation", "loads", "deferredReload", "editing", "edits"}),
         t.loads \subseteq s.loads, t.generation \in Nat, t.generation >= s.generation,
         t.editing \in BOOLEAN, t.deferredReload \in BOOLEAN, s.deferredReload => t.deferredReload
  PROVE  ScreenTrue(t, st) /\ (s.editing = t.editing /\ EditTrue(s) => EditTrue(t))
<1>1. /\ t.view = s.view /\ t.left = s.left /\ t.allComplete = s.allComplete /\ t.deferredSorts = s.deferredSorts
      /\ t.grid = s.grid
  BY DEF Same, Fields
<1>2. Same(s, t, Fields \ {"generation", "loads", "deferredReload", "deferredSorts", "editing", "edits"})
  BY DEF Same
<1>3. s.deferredSorts \in SortSpecs \cup {None} /\ ScreenKnown(s, st)
  BY DEF ScreenTrue, ScreenKnown, ScreenType
<1>4. ScreenKnown(t, st)
  BY <1>1, <1>2, <1>3, KnownStays
<1>. QED BY <1>1, <1>4 DEF ScreenTrue, WillLoad, EditTrue

\* loadPage begins a load, or goes on with one if it is asked to.
LEMMA LoadPageTrue ==
  ASSUME NEW s, NEW st, ScreenType(s), s.grid = None => s.rendered = None, ~s.editing,
         \A load \in s.loads : /\ LoadType(load) /\ load.generation <= s.generation
                               /\ load.phase \in {"drawing", "sorting"} => s.grid # None,
         s.allIdentity # None /\ ~s.view.all => s.left,
         NEW resume,
         resume => s.view.all /\ ~s.left /\ (s.allIdentity # None => AllTrue(s, st))
  PROVE  /\ ScreenTrue(LoadPage(s, resume), st) /\ EditTrue(LoadPage(s, resume))
         /\ LoadPage(s, resume).editing = FALSE
<1>. DEFINE t == LoadPage(s, resume)
            load == NewLoad(s, resume)
            view == Deferred(s)
<1>1. /\ DOMAIN s = Fields /\ s.view \in View /\ s.deferredSorts \in SortSpecs \cup {None}
      /\ s.generation \in Nat /\ s.editing = FALSE /\ s.allCursor \in Cursor /\ s.back \in Seq(Cursor)
      /\ (s.view.all => s.view.cursor = None)
  BY DEF ScreenType
<1>2. /\ Same(s, t, {"next", "grid", "rendered", "editing", "edits"})
      /\ t.view = view /\ (t.back = s.back \/ t.back = <<>>)
      /\ t.generation = s.generation + 1
      /\ t.deferredReload = FALSE /\ t.deferredSorts = None
      /\ t.loads = s.loads \cup {load}
      /\ IF ~view.all \/ Continues(s, resume)
         THEN Same(s, t, {"rows", "allIdentity", "allCursor", "allComplete", "touched", "left"})
         ELSE /\ t.allIdentity = view /\ t.allCursor = None /\ t.allComplete = FALSE
              /\ t.rows = <<>> /\ t.touched = {} /\ t.left = FALSE
  BY <1>1, LoadPageFields
<1>. HIDE DEF t
<1>3. /\ DOMAIN t = Fields /\ t.next = s.next /\ t.grid = s.grid /\ t.rendered = s.rendered
      /\ t.editing = FALSE
      /\ ~view.all \/ Continues(s, resume) =>
           /\ t.rows = s.rows /\ t.allIdentity = s.allIdentity /\ t.allCursor = s.allCursor
           /\ t.allComplete = s.allComplete /\ t.touched = s.touched /\ t.left = s.left
  BY <1>1, <1>2 DEF Same
<1>4. /\ view \in View /\ view.all = s.view.all /\ (view.all => view.cursor = None)
      /\ None \in Cursor
  BY <1>1 DEF Deferred, View, Cursor
<1>5. /\ load.phase = "asked" /\ load.generation = t.generation /\ load.identity = view
      /\ DOMAIN load = LoadFields
      /\ load.cursor = (IF ~view.all THEN view.cursor
                        ELSE IF resume /\ s.allIdentity = view THEN s.allCursor ELSE None)
      /\ load.first = ~Continues(s, resume)
      /\ load.refreshing = (view.all /\ s.grid # None /\ s.rendered = view)
  BY <1>2 DEF NewLoad, LoadFields
<1>. HIDE DEF load
<1>6. LoadType(load)
  <2>1. load.cursor \in Cursor
    <3>. HIDE DEF view
    <3>. QED BY <1>1, <1>4, <1>5 DEF View
  <2>2. load.generation \in Nat
    BY <1>1, <1>2, <1>5
  <2>. HIDE DEF view
  <2>. QED BY <1>4, <1>5, <2>1, <2>2 DEF LoadType
<1>. HIDE DEF view
<1>7. ScreenType(t)
  <2>1. <<>> \in Rows /\ Distinct(<<>>) /\ <<>> \in Seq(Cursor)
    BY DEF Rows, Distinct
  <2>2. t.rows \in Rows /\ Distinct(t.rows) /\ t.allIdentity \in View \cup {None} /\ t.allCursor \in Cursor
        /\ t.allComplete \in BOOLEAN /\ t.left \in BOOLEAN
    BY <1>2, <1>3, <1>4, <2>1 DEF ScreenType
  <2>3. t.next \in Cursor /\ t.grid \in Rows \cup {None} /\ t.rendered \in View \cup {None}
    BY <1>3 DEF ScreenType
  <2>4. t.generation \in Nat
    BY <1>1, <1>2
  <2>5. t.back \in Seq(Cursor)
    BY <1>1, <1>2, <2>1
  <2>. QED BY <1>2, <1>3, <1>4, <2>2, <2>3, <2>4, <2>5 DEF ScreenType
<1>8. \A other \in s.loads : other.generation <= t.generation /\ other.generation # t.generation
  BY <1>1, <1>2 DEF LoadType
<1>9. view.all => t.left = FALSE /\ t.allIdentity = view /\ t.allIdentity # None
  <2>. SUFFICES ASSUME view.all PROVE t.left = FALSE /\ t.allIdentity = view /\ t.allIdentity # None
    OBVIOUS
  <2>1. view # None
    BY <1>4, AllIsSome
  <2>2. CASE Continues(s, resume)
    <3>1. resume /\ s.allIdentity = view /\ ~s.left /\ s.left \in BOOLEAN
      BY <2>2 DEF Continues, ScreenType, view
    <3>. QED BY <1>3, <2>1, <2>2, <3>1
  <2>. QED BY <1>2, <2>1, <2>2
<1>10. LoadsTrue(t)
  <2>1. \A other \in t.loads : LoadType(other) /\ other.generation <= t.generation
    BY <1>2, <1>5, <1>6, <1>7, <1>8 DEF ScreenType
  <2>2. \A other \in t.loads : other.phase \in {"drawing", "sorting"} => t.grid # None
    BY <1>2, <1>3, <1>5
  <2>3. \A other \in t.loads : other.generation = t.generation => other = load
    BY <1>2, <1>8
  <2>. QED BY <1>2, <1>5, <1>9, <2>1, <2>2, <2>3 DEF LoadsTrue
<1>11. WillLoad(t) /\ EditTrue(t)
  BY <1>2, <1>3, <1>9 DEF WillLoad, EditTrue
<1>12. ASSUME t.allIdentity # None, ~t.left PROVE AllTrue(t, st)
  <2>1. view.all
    BY <1>3, <1>4, <1>12
  <2>2. t.allIdentity = view /\ t.view = view /\ view # None
    BY <1>2, <1>9, <2>1
  <2>3. \A other \in t.loads : other.generation = t.generation => other = load
    BY <1>2, <1>8
  <2>4. CASE Continues(s, resume)
    <3>1. /\ resume /\ s.allIdentity = view /\ s.rows # <<>> /\ s.allCursor # None
      BY <2>4 DEF Continues, view
    <3>2. AllTrue(s, st) /\ s.view = view
      BY <2>2, <3>1 DEF AllTrue
    <3>3. LoadTrue(t, st, load)
      <4>1. load.cursor = t.allCursor /\ load.cursor # None /\ load.first = FALSE
        BY <1>3, <1>5, <2>1, <2>4, <3>1
      <4>2. t.allComplete = FALSE
        BY <1>3, <2>4, <3>1, <3>2 DEF AllTrue, ScreenType
      <4>3. load.refreshing => t.rendered = t.allIdentity
        BY <1>3, <1>5, <2>2
      <4>4. ~load.refreshing => t.grid = t.rows
        <5>. SUFFICES ASSUME ~load.refreshing PROVE s.grid = s.rows
          BY <1>3, <2>4
        <5>1. s.rendered # view
          BY <1>5, <2>1, <2>2
        <5>. QED BY <3>1, <3>2, <5>1 DEF AllTrue
      <4>. QED BY <1>5, <4>1, <4>2, <4>3, <4>4 DEF LoadTrue
    <3>4. /\ t.rows = s.rows /\ t.touched = s.touched /\ t.allCursor = s.allCursor /\ t.allComplete = s.allComplete
      BY <1>3, <2>4
    <3>. QED BY <1>3, <2>1, <2>2, <2>3, <3>2, <3>3, <3>4 DEF AllTrue
  <2>5. CASE ~Continues(s, resume)
    <3>1. t.allCursor = None /\ t.allComplete = FALSE /\ t.rows = <<>>
      BY <1>2, <2>1, <2>5
    <3>2. load.cursor = None
      <4>. SUFFICES ASSUME resume, s.allIdentity = view PROVE s.allCursor = None
        BY <1>5, <2>1
      <4>1. AllTrue(s, st)
        BY <2>2
      <4>2. s.rows = <<>> \/ s.allCursor = None
        BY <2>1, <2>5 DEF Continues, view
      <4>. QED BY <4>1, <4>2 DEF AllTrue
    <3>3. LoadTrue(t, st, load)
      BY <1>3, <1>5, <2>2, <2>5, <3>1, <3>2 DEF LoadTrue
    <3>4. RowsTrue(t.rows, t.touched, st, t.view.sorts)
      BY <3>1 DEF RowsTrue
    <3>. QED BY <2>1, <2>2, <2>3, <3>1, <3>3, <3>4 DEF AllTrue
  <2>. QED BY <2>4, <2>5
<1>13. t.grid = None => t.rendered = None
  BY <1>3
<1>. QED BY <1>3, <1>7, <1>10, <1>11, <1>12, <1>13 DEF ScreenTrue, ScreenKnown, t

\* changeSorts while nothing is edited.
LEMMA ChangeSortsTrue ==
  ASSUME NEW s, NEW st \in Stored, ScreenKnown(s, st), ~s.editing, NEW sorts \in SortSpecs
  PROVE  /\ ScreenTrue(ChangeSorts(s, sorts), st) /\ EditTrue(ChangeSorts(s, sorts))
         /\ ChangeSorts(s, sorts).editing = FALSE
<1>. DEFINE local == s.view.all /\ s.allComplete /\ s.allIdentity = Identity(s.view)
            view == [sorts |-> sorts, all |-> s.view.all, cursor |-> None]
            c == [CancelLoad(s) EXCEPT !.view = [@ EXCEPT !.sorts = sorts, !.cursor = None], !.back = <<>>]
            sorted == Ordered(sorts, Range(s.rows))
            sorting == [phase |-> "sorting", generation |-> c.generation]
            t == ChangeSorts(s, sorts)
<1>1. /\ ScreenType(s) /\ DOMAIN s = Fields /\ s.view \in View /\ s.generation \in Nat /\ s.rows \in Rows
      /\ Distinct(s.rows) /\ s.editing = FALSE
  BY DEF ScreenKnown, ScreenType
<1>2. /\ Same(s, c, Fields \ {"generation", "view", "back"}) /\ c.generation = s.generation + 1
      /\ c.view = view /\ c.back = <<>>
  <2>. DEFINE d == CancelLoad(s)
  <2>1. Same(s, d, Fields \ {"generation"}) /\ d.generation = s.generation + 1
    BY <1>1, CancelFields
  <2>2. d.view = s.view
    BY <2>1 DEF Same, Fields
  <2>. DEFINE changed == [d.view EXCEPT !.sorts = sorts, !.cursor = None]
  <2>3. changed = view
    <3>1. s.view = [sorts |-> s.view.sorts, all |-> s.view.all, cursor |-> s.view.cursor]
      BY <1>1 DEF View
    <3>2. changed = [[sorts |-> s.view.sorts, all |-> s.view.all, cursor |-> s.view.cursor]
                       EXCEPT !.sorts = sorts, !.cursor = None]
      BY <2>2, <3>1
    <3>. HIDE DEF changed
    <3>. QED BY <3>2
  <2>4. c = [d EXCEPT !.view = changed, !.back = <<>>]
    OBVIOUS
  <2>. HIDE DEF c, d, changed, view
  <2>. QED BY <2>1, <2>3, <2>4 DEF Same, Fields
<1>3. view \in View /\ view.all = s.view.all /\ view.cursor = None /\ view.sorts = sorts
  BY <1>1 DEF View, Cursor
<1>4. t = IF ~local THEN LoadPage(c, FALSE)
          ELSE [c EXCEPT !.allIdentity = Identity(c.view), !.rows = sorted, !.grid = sorted,
                  !.loads = @ \cup {sorting}]
  BY <1>1 DEF ChangeSorts
<1>. HIDE DEF c, view
<1>5. /\ DOMAIN c = Fields /\ c.next = s.next /\ c.rows = s.rows /\ c.grid = s.grid
      /\ c.rendered = s.rendered /\ c.allIdentity = s.allIdentity /\ c.allCursor = s.allCursor
      /\ c.allComplete = s.allComplete /\ c.deferredSorts = s.deferredSorts /\ c.touched = s.touched
      /\ c.left = s.left /\ c.loads = s.loads /\ c.editing = s.editing /\ c.deferredReload = s.deferredReload
  BY <1>2 DEF Same, Fields
<1>6. ScreenType(c)
  <2>1. c.generation \in Nat /\ c.back \in Seq(Cursor)
    BY <1>1, <1>2
  <2>. QED BY <1>1, <1>2, <1>3, <1>5, <2>1 DEF ScreenType
<1>7. /\ c.grid = None => c.rendered = None
      /\ \A load \in c.loads : /\ LoadType(load) /\ load.generation <= s.generation
                               /\ load.phase \in {"drawing", "sorting"} => c.grid # None
  BY <1>5 DEF ScreenKnown, LoadsTrue
<1>8. \A load \in c.loads : load.generation <= c.generation /\ load.generation # c.generation
  BY <1>1, <1>2, <1>7 DEF LoadType
<1>9. CASE ~local
  <2>1. c.allIdentity # None /\ ~c.view.all => c.left
    BY <1>2, <1>3, <1>5 DEF ScreenKnown, AllTrue
  <2>2. t = LoadPage(c, FALSE)
    BY <1>4, <1>9
  <2>3. ~c.editing
    BY <1>1, <1>5
  <2>. HIDE DEF t
  <2>4. ScreenTrue(LoadPage(c, FALSE), st) /\ EditTrue(LoadPage(c, FALSE)) /\ LoadPage(c, FALSE).editing = FALSE
    BY <1>6, <1>7, <1>8, <2>1, <2>3, LoadPageTrue
  <2>. QED BY <2>2, <2>4 DEF t
<1>10. CASE local
  <2>1. t = [c EXCEPT !.allIdentity = view, !.rows = sorted, !.grid = sorted, !.loads = @ \cup {sorting}]
    BY <1>2, <1>3, <1>4, <1>10, ViewIdentity
  <2>. HIDE DEF t, sorted
  <2>2. /\ Same(c, t, Fields \ {"allIdentity", "rows", "grid", "loads"})
        /\ t.allIdentity = view /\ t.rows = sorted /\ t.grid = sorted /\ t.loads = c.loads \cup {sorting}
    BY <1>5, <2>1 DEF Same, Fields
  <2>3. /\ DOMAIN t = Fields /\ t.view = view /\ t.back = <<>> /\ t.next = s.next
        /\ t.rendered = s.rendered /\ t.allCursor = s.allCursor /\ t.generation = c.generation
        /\ t.allComplete = s.allComplete /\ t.deferredSorts = s.deferredSorts /\ t.touched = s.touched
        /\ t.left = s.left /\ t.editing = s.editing /\ t.deferredReload = s.deferredReload
    BY <1>2, <1>5, <2>2 DEF Same, Fields
  <2>4. /\ sorted \in Rows /\ Distinct(sorted)
        /\ RowsTrue(s.rows, s.touched, st, s.view.sorts) /\ UpTo(s.rows, s.touched, st, s.view.sorts, None) =>
             RowsTrue(sorted, s.touched, st, sorts) /\ UpTo(sorted, s.touched, st, sorts, None)
    BY <1>1, AllRowsSorted DEF View, sorted
  <2>5. sorting.phase = "sorting" /\ sorting.generation = t.generation /\ LoadType(sorting)
    BY <1>1, <1>2, <2>3 DEF LoadType
  <2>. HIDE DEF sorting
  <2>6. ScreenType(t)
    <3>1. /\ t.view \in View /\ (t.view.all => t.view.cursor = None) /\ t.allIdentity \in View \cup {None}
          /\ t.back \in Seq(Cursor) /\ t.rows \in Rows /\ Distinct(t.rows) /\ t.grid \in Rows \cup {None}
      BY <1>3, <2>2, <2>3, <2>4
    <3>2. t.generation \in Nat
      BY <1>6, <2>3 DEF ScreenType
    <3>. QED BY <1>1, <2>3, <3>1, <3>2 DEF ScreenType
  <2>7. t.grid # None
    BY <2>2, <2>4, NoneIsNoRow
  <2>8. LoadsTrue(t)
    <3>1. \A load \in t.loads : LoadType(load) /\ load.generation <= t.generation
      BY <1>7, <1>8, <2>2, <2>3, <2>5, <2>6 DEF ScreenType
    <3>2. \A load \in t.loads : load.generation = t.generation => load = sorting
      BY <1>8, <2>2, <2>3
    <3>. QED BY <2>5, <2>7, <3>1, <3>2 DEF LoadsTrue
  <2>9. t.allComplete /\ WillLoad(t) /\ EditTrue(t)
    BY <1>10, <2>3, <2>7 DEF WillLoad, EditTrue
  <2>10. ASSUME ~t.left PROVE AllTrue(t, st)
    <3>1. s.allIdentity # None
      <4>1. s.allIdentity = s.view /\ (s.view.all => s.view.cursor = None)
        BY <1>1, <1>10, ViewIdentity DEF ScreenType
      <4>. QED BY <1>1, <1>10, <4>1, AllIsSome
    <3>2. AllTrue(s, st)
      BY <2>3, <2>10, <3>1 DEF ScreenKnown
    <3>3. /\ RowsTrue(sorted, s.touched, st, sorts) /\ UpTo(sorted, s.touched, st, sorts, None)
          /\ s.allCursor = None
      BY <1>10, <2>4, <3>2 DEF AllTrue
    <3>4. \A load \in t.loads : load.generation = t.generation => load.phase = "sorting"
      BY <1>8, <2>2, <2>3, <2>5
    <3>. QED BY <1>3, <1>10, <2>2, <2>3, <3>3, <3>4 DEF AllTrue
  <2>11. t.editing = FALSE
    BY <1>1, <2>3
  <2>. QED BY <2>6, <2>7, <2>8, <2>9, <2>10, <2>11 DEF ScreenTrue, ScreenKnown, t
<1>. QED BY <1>9, <1>10

\* flushDeferred when an edit has ended.
LEMMA FlushDeferredTrue ==
  ASSUME NEW s, NEW st \in Stored, ScreenTrue(s, st), ~s.editing
  PROVE  /\ ScreenTrue(FlushDeferred(s), st) /\ EditTrue(FlushDeferred(s))
         /\ FlushDeferred(s).editing = FALSE
<1>1. /\ ScreenKnown(s, st) /\ ScreenType(s) /\ DOMAIN s = Fields /\ s.editing = FALSE
      /\ s.deferredSorts \in SortSpecs \cup {None} /\ s.generation \in Nat
  BY DEF ScreenTrue, ScreenKnown, ScreenType
<1>. DEFINE t == FlushDeferred(s)
<1>2. CASE s.deferredSorts # None
  <2>. DEFINE d == [s EXCEPT !.deferredSorts = None, !.deferredReload = FALSE]
  <2>1. t = ChangeSorts(d, s.deferredSorts)
    BY <1>2 DEF FlushDeferred
  <2>2. /\ Same(s, d, Fields \ {"deferredSorts", "deferredReload"})
        /\ d.deferredSorts = None /\ d.deferredReload = FALSE
    BY <1>1 DEF Same, Fields
  <2>. HIDE DEF d, t
  <2>3. d.editing = FALSE /\ d.loads = s.loads /\ d.generation = s.generation
    BY <1>1, <2>2 DEF Same, Fields
  <2>4. Same(s, d, Fields \ {"generation", "loads", "deferredReload", "deferredSorts", "editing", "edits"})
    BY <2>2 DEF Same
  <2>5. ScreenKnown(d, st)
    <3>1. /\ d.loads \subseteq s.loads /\ d.generation \in Nat /\ d.generation >= s.generation
      BY <1>1, <2>3
    <3>2. d.editing \in BOOLEAN /\ d.deferredReload \in BOOLEAN
      BY <2>2, <2>3
    <3>3. d.deferredSorts \in SortSpecs \cup {None}
      BY <1>1, <2>2, <2>3
    <3>. QED BY <1>1, <2>4, <3>1, <3>2, <3>3, KnownStays
  <2>6. s.deferredSorts \in SortSpecs
    BY <1>1, <1>2
  <2>7. /\ ScreenTrue(ChangeSorts(d, s.deferredSorts), st) /\ EditTrue(ChangeSorts(d, s.deferredSorts))
        /\ ChangeSorts(d, s.deferredSorts).editing = FALSE
    BY <2>3, <2>5, <2>6, ChangeSortsTrue
  <2>. QED BY <2>1, <2>7 DEF t
<1>3. CASE s.deferredSorts = None /\ s.deferredReload
  <2>. DEFINE d == [s EXCEPT !.deferredReload = FALSE]
  <2>1. t = LoadPage(d, FALSE)
    BY <1>3 DEF FlushDeferred
  <2>2. Same(s, d, Fields \ {"deferredReload"}) /\ d.deferredReload = FALSE
    BY <1>1 DEF Same, Fields
  <2>. HIDE DEF d, t
  <2>3. d.editing = FALSE /\ d.loads = s.loads /\ d.generation = s.generation /\ d.deferredSorts = s.deferredSorts
    BY <1>1, <2>2 DEF Same, Fields
  <2>4. Same(s, d, Fields \ {"generation", "loads", "deferredReload", "deferredSorts", "editing", "edits"})
    BY <2>2 DEF Same
  <2>5. ScreenKnown(d, st)
    <3>1. /\ d.loads \subseteq s.loads /\ d.generation \in Nat /\ d.generation >= s.generation
      BY <1>1, <2>3
    <3>2. d.editing \in BOOLEAN /\ d.deferredReload \in BOOLEAN
      BY <2>2, <2>3
    <3>3. d.deferredSorts \in SortSpecs \cup {None}
      BY <1>1, <2>2, <2>3
    <3>. QED BY <1>1, <2>4, <3>1, <3>2, <3>3, KnownStays
  <2>6. /\ ScreenType(d) /\ (d.grid = None => d.rendered = None) /\ (d.allIdentity # None /\ ~d.view.all => d.left)
        /\ \A load \in d.loads : /\ LoadType(load) /\ load.generation <= d.generation
                                 /\ load.phase \in {"drawing", "sorting"} => d.grid # None
    BY <2>5 DEF ScreenKnown, LoadsTrue, AllTrue
  <2>7. ScreenTrue(LoadPage(d, FALSE), st) /\ EditTrue(LoadPage(d, FALSE)) /\ LoadPage(d, FALSE).editing = FALSE
    BY <2>3, <2>6, LoadPageTrue
  <2>. QED BY <2>1, <2>7 DEF t
<1>4. CASE s.deferredSorts = None /\ ~s.deferredReload
  <2>1. t = s
    BY <1>4 DEF FlushDeferred
  <2>2. EditTrue(s)
    BY <1>4 DEF ScreenTrue, WillLoad, EditTrue
  <2>. HIDE DEF t
  <2>. QED BY <1>1, <2>1, <2>2 DEF t
<1>. QED BY <1>2, <1>3, <1>4

-----------------------------------------------------------------------------
(* What is known remains known, action by action.                          *)

\* loadPage, while a cell is edited or not.
LEMMA LoadPageKeeps ==
  ASSUME NEW s, NEW st, ScreenTrue(s, st), EditTrue(s),
         NEW resume, resume => s.view.all /\ ~s.allComplete
  PROVE  ScreenTrue(LoadPage(s, resume), st) /\ EditTrue(LoadPage(s, resume))
<1>. DEFINE t == LoadPage(s, resume)
<1>1. ScreenType(s) /\ DOMAIN s = Fields /\ s.generation \in Nat /\ s.editing \in BOOLEAN
  BY DEF ScreenTrue, ScreenKnown, ScreenType
<1>2. CASE s.editing
  <2>1. /\ Same(s, t, Fields \ {"generation", "deferredReload"})
        /\ t.generation = s.generation + 1 /\ t.deferredReload = TRUE
    BY <1>1, <1>2, LoadPagePutOff
  <2>. HIDE DEF t
  <2>2. Same(s, t, Fields \ {"generation", "loads", "deferredReload", "editing", "edits"})
    BY <2>1 DEF Same
  <2>3. t.loads = s.loads /\ t.editing = s.editing
    BY <2>1 DEF Same, Fields
  <2>4. t.generation \in Nat /\ t.generation >= s.generation
    BY <1>1, <2>1
  <2>5. t.loads \subseteq s.loads /\ t.editing \in BOOLEAN /\ t.deferredReload \in BOOLEAN /\ t.deferredReload
    BY <1>1, <2>1, <2>3
  <2>6. ScreenTrue(t, st) /\ EditTrue(t)
    BY <2>2, <2>3, <2>4, <2>5, LessLoads
  <2>. QED BY <2>6 DEF t
<1>3. CASE ~s.editing
  <2>1. s.allIdentity # None /\ ~s.view.all => s.left
    BY DEF ScreenTrue, ScreenKnown, AllTrue
  <2>2. resume => s.view.all /\ ~s.left /\ (s.allIdentity # None => AllTrue(s, st))
    BY <1>3 DEF ScreenTrue, ScreenKnown, EditTrue
  <2>3. /\ s.grid = None => s.rendered = None
        /\ \A load \in s.loads : /\ LoadType(load) /\ load.generation <= s.generation
                                 /\ load.phase \in {"drawing", "sorting"} => s.grid # None
    BY DEF ScreenTrue, ScreenKnown, LoadsTrue
  <2>. QED BY <1>1, <1>3, <2>1, <2>2, <2>3, LoadPageTrue
<1>. QED BY <1>1, <1>2, <1>3

\* loadPage when another page or size is asked for.
LEMMA OtherPageTrue ==
  ASSUME NEW s, NEW v, NEW st, ScreenKnown(s, st), Same(s, v, Fields \ {"view", "back", "left"}),
         v.view \in View, v.view.all => v.view.cursor = None, v.back \in Seq(Cursor), v.left \in BOOLEAN,
         s.allIdentity # None => v.left, s.editing => s.grid # None
  PROVE  ScreenTrue(LoadPage(v, FALSE), st) /\ EditTrue(LoadPage(v, FALSE))
<1>1. /\ DOMAIN v = Fields /\ v.next = s.next /\ v.rows = s.rows /\ v.grid = s.grid
      /\ v.rendered = s.rendered /\ v.allIdentity = s.allIdentity /\ v.allCursor = s.allCursor
      /\ v.allComplete = s.allComplete /\ v.deferredSorts = s.deferredSorts /\ v.touched = s.touched
      /\ v.loads = s.loads /\ v.generation = s.generation /\ v.editing = s.editing
      /\ v.deferredReload = s.deferredReload
  BY DEF Same, Fields
<1>2. ScreenType(v)
  BY <1>1 DEF ScreenKnown, ScreenType
<1>3. /\ v.grid = None => v.rendered = None
      /\ \A load \in v.loads : /\ LoadType(load) /\ load.generation <= v.generation
                               /\ load.phase \in {"drawing", "sorting"} => v.grid # None
  BY <1>1 DEF ScreenKnown, LoadsTrue
<1>4. CASE ~v.editing
  BY <1>1, <1>2, <1>3, <1>4, LoadPageTrue
<1>5. CASE v.editing
  <2>. DEFINE t == LoadPage(v, FALSE)
  <2>1. /\ Same(v, t, Fields \ {"generation", "deferredReload"})
        /\ t.generation = v.generation + 1 /\ t.deferredReload = TRUE
    BY <1>1, <1>5, LoadPagePutOff
  <2>. HIDE DEF t
  <2>2. /\ t.view = v.view /\ t.back = v.back /\ t.next = v.next /\ t.rows = v.rows /\ t.grid = v.grid
        /\ t.rendered = v.rendered /\ t.allIdentity = v.allIdentity /\ t.allCursor = v.allCursor
        /\ t.allComplete = v.allComplete /\ t.deferredSorts = v.deferredSorts /\ t.touched = v.touched
        /\ t.left = v.left /\ t.loads = v.loads /\ t.editing = v.editing /\ DOMAIN t = Fields
    BY <2>1 DEF Same, Fields
  <2>3. v.generation \in Nat /\ t.generation \in Nat
    BY <1>2, <2>1 DEF ScreenType
  <2>4. ScreenType(t)
    BY <1>2, <2>1, <2>2, <2>3 DEF ScreenType
  <2>5. \A load \in t.loads : load.generation <= t.generation /\ load.generation # t.generation
    BY <1>3, <2>1, <2>2, <2>3 DEF LoadType
  <2>6. LoadsTrue(t)
    BY <1>3, <2>2, <2>5 DEF LoadsTrue
  <2>7. WillLoad(t) /\ EditTrue(t)
    BY <1>1, <1>5, <2>1, <2>2 DEF WillLoad, EditTrue
  <2>8. (t.grid = None => t.rendered = None) /\ (t.allIdentity # None => t.left)
    BY <1>1, <1>3, <2>2
  <2>9. ScreenTrue(t, st) /\ EditTrue(t)
    BY <2>4, <2>6, <2>7, <2>8 DEF ScreenTrue, ScreenKnown
  <2>. QED BY <2>9 DEF t
<1>. QED BY <1>4, <1>5

\* What the browser shows next is known if its screen is.
LEMMA Shown ==
  ASSUME TableInv, NEW t, Shows(t), ScreenTrue(t, stored_tasks), EditTrue(t)
  PROVE  TableInv'
BY DEF TableInv, Shows

\* The view of all rows was left if another is viewed.
LEMMA LeftAllRows ==
  ASSUME NEW s, NEW st, ScreenKnown(s, st), ~s.view.all, s.allIdentity # None
  PROVE  s.left
BY DEF ScreenKnown, AllTrue

\* Refreshing, resuming and cancelling a load.
LEMMA LoadingKeeps ==
  ASSUME TableInv, RefreshPage \/ RetryLoading \/ CancelLoading
  PROVE  TableInv'
<1>0. ScreenTrue(screen, stored_tasks) /\ EditTrue(screen)
  BY DEF TableInv
<1>1. CASE RefreshPage
  <2>1. Shows(LoadPage(screen, FALSE))
    BY <1>1 DEF RefreshPage
  <2>. QED BY <1>0, <2>1, LoadPageKeeps, Shown
<1>2. CASE RetryLoading
  <2>1. Shows(LoadPage(screen, TRUE)) /\ screen.view.all /\ ~screen.allComplete
    BY <1>2 DEF RetryLoading
  <2>. QED BY <1>0, <2>1, LoadPageKeeps, Shown
<1>3. CASE CancelLoading
  <2>. DEFINE t == CancelLoad(screen)
  <2>0. /\ DOMAIN screen = Fields /\ screen.generation \in Nat /\ screen.editing \in BOOLEAN
        /\ screen.deferredReload \in BOOLEAN
    BY <1>0 DEF ScreenTrue, ScreenKnown, ScreenType
  <2>1. Same(screen, t, Fields \ {"generation"}) /\ t.generation = screen.generation + 1
    BY <2>0, CancelFields
  <2>2. Shows(t)
    BY <1>3 DEF CancelLoading
  <2>. HIDE DEF t
  <2>3. t.loads = screen.loads /\ t.editing = screen.editing /\ t.deferredReload = screen.deferredReload
    BY <2>1 DEF Same, Fields
  <2>4. Same(screen, t, Fields \ {"generation", "loads", "deferredReload", "editing", "edits"})
    BY <2>1 DEF Same
  <2>5. t.generation \in Nat /\ t.generation >= screen.generation
    BY <2>0, <2>1
  <2>6. ScreenTrue(t, stored_tasks) /\ EditTrue(t)
    BY <1>0, <2>0, <2>3, <2>4, <2>5, LessLoads
  <2>. QED BY <2>2, <2>6, Shown
<1>. QED BY <1>1, <1>2, <1>3

\* Another page or size of page.
LEMMA PagingKeeps ==
  ASSUME TableInv, SetPageSize \/ NextPage \/ PreviousPage
  PROVE  TableInv'
<1>0. /\ ScreenKnown(screen, stored_tasks) /\ DOMAIN screen = Fields /\ screen.view \in View
      /\ screen.back \in Seq(Cursor) /\ screen.next \in Cursor /\ screen.left \in BOOLEAN
      /\ (screen.editing => screen.grid # None)
  BY DEF TableInv, EditTrue, ScreenTrue, ScreenKnown, ScreenType
<1>1. CASE SetPageSize
  <2>. DEFINE v == [screen EXCEPT !.view = [@ EXCEPT !.all = ~@, !.cursor = None], !.back = <<>>,
                       !.left = @ \/ screen.view.all]
  <2>1. Shows(LoadPage(v, FALSE))
    BY <1>1 DEF SetPageSize
  <2>2. v.left = (screen.left \/ screen.view.all)
    BY <1>0 DEF Fields
  <2>3. v.view \in View /\ v.view.cursor = None
    BY <1>0 DEF View, Cursor, Fields
  <2>4. v.back = <<>>
    BY <1>0 DEF Fields
  <2>5. DOMAIN v = Fields /\ \A f \in Fields \ {"view", "back", "left"} : v[f] = screen[f]
    BY <1>0 DEF Fields
  <2>. HIDE DEF v
  <2>6. Same(screen, v, Fields \ {"view", "back", "left"})
    BY <2>5 DEF Same
  <2>7. screen.allIdentity # None => v.left
    BY <1>0, <2>2, LeftAllRows
  <2>8. v.back \in Seq(Cursor)
    BY <2>4
  <2>9. v.left \in BOOLEAN
    BY <2>2
  <2>10. ScreenTrue(LoadPage(v, FALSE), stored_tasks) /\ EditTrue(LoadPage(v, FALSE))
    BY <1>0, <2>3, <2>6, <2>7, <2>8, <2>9, OtherPageTrue
  <2>. QED BY <2>1, <2>10, Shown
<1>2. CASE NextPage
  <2>. DEFINE view == [screen.view EXCEPT !.cursor = screen.next]
              v == [screen EXCEPT !.back = Append(@, screen.view.cursor), !.view.cursor = screen.next]
  <2>1. Shows(LoadPage(v, FALSE)) /\ ~screen.view.all
    BY <1>2 DEF NextPage
  <2>2. /\ Same(screen, v, Fields \ {"view", "back", "left"}) /\ v.view = view
        /\ v.back = Append(screen.back, screen.view.cursor) /\ v.left = screen.left
    BY <1>0 DEF Same, Fields
  <2>3. view \in View /\ view.all = screen.view.all /\ screen.view.cursor \in Cursor
    BY <1>0 DEF View
  <2>. HIDE DEF v, view
  <2>4. screen.allIdentity # None => v.left
    BY <1>0, <2>1, <2>2, LeftAllRows
  <2>5. v.back \in Seq(Cursor)
    BY <1>0, <2>2, <2>3
  <2>7. ScreenTrue(LoadPage(v, FALSE), stored_tasks) /\ EditTrue(LoadPage(v, FALSE))
    BY <1>0, <2>1, <2>2, <2>3, <2>4, <2>5, OtherPageTrue
  <2>. QED BY <2>1, <2>7, Shown
<1>3. CASE PreviousPage
  <2>. DEFINE last == screen.back[Len(screen.back)]
              view == [screen.view EXCEPT !.cursor = last]
              v == [screen EXCEPT !.view.cursor = screen.back[Len(screen.back)],
                       !.back = SubSeq(@, 1, Len(@) - 1)]
  <2>1. Shows(LoadPage(v, FALSE)) /\ ~screen.view.all /\ screen.back # <<>>
    BY <1>3 DEF PreviousPage
  <2>2. /\ Same(screen, v, Fields \ {"view", "back", "left"}) /\ v.view = view
        /\ v.back = SubSeq(screen.back, 1, Len(screen.back) - 1) /\ v.left = screen.left
    BY <1>0 DEF Same, Fields
  <2>3. Len(screen.back) \in Nat /\ Len(screen.back) >= 1 /\ last \in Cursor
    BY <1>0, <2>1
  <2>. HIDE DEF v, last
  <2>4. view \in View /\ view.all = screen.view.all
    BY <1>0, <2>3 DEF View
  <2>. HIDE DEF view
  <2>5. screen.allIdentity # None => v.left
    BY <1>0, <2>1, <2>2, LeftAllRows
  <2>6. v.back \in Seq(Cursor)
    BY <1>0, <2>2, <2>3
  <2>7. ScreenTrue(LoadPage(v, FALSE), stored_tasks) /\ EditTrue(LoadPage(v, FALSE))
    BY <1>0, <2>1, <2>2, <2>4, <2>5, <2>6, OtherPageTrue
  <2>. QED BY <2>1, <2>7, Shown
<1>. QED BY <1>1, <1>2, <1>3

\* Sorting, and an edit that begins.
LEMMA EditingKeeps ==
  ASSUME TableInv, (\E sorts \in SortSpecs : PressSort(sorts)) \/ BeginEdit
  PROVE  TableInv'
<1>0. /\ ScreenTrue(screen, stored_tasks) /\ EditTrue(screen) /\ ScreenKnown(screen, stored_tasks)
      /\ DOMAIN screen = Fields /\ screen.generation \in Nat /\ screen.editing \in BOOLEAN
      /\ screen.deferredReload \in BOOLEAN /\ stored_tasks \in Stored
      /\ screen.deferredSorts \in SortSpecs \cup {None}
  BY DEF TableInv, ScreenTrue, ScreenKnown, ScreenType
<1>1. ASSUME NEW sorts \in SortSpecs, PressSort(sorts) PROVE TableInv'
  <2>1. Shows(ChangeSorts(screen, sorts))
    BY <1>1 DEF PressSort
  <2>2. CASE ~screen.editing
    <3>1. ScreenTrue(ChangeSorts(screen, sorts), stored_tasks) /\ EditTrue(ChangeSorts(screen, sorts))
      BY <1>0, <2>2, ChangeSortsTrue
    <3>. QED BY <2>1, <3>1, Shown
  <2>3. CASE screen.editing
    <3>. DEFINE t == [screen EXCEPT !.deferredSorts = sorts]
    <3>1. Shows(t)
      BY <2>1, <2>3 DEF ChangeSorts
    <3>2. Same(screen, t, Fields \ {"deferredSorts"}) /\ t.deferredSorts = sorts
      BY <1>0 DEF Same, Fields
    <3>. HIDE DEF t
    <3>3. /\ t.loads = screen.loads /\ t.editing = screen.editing /\ t.deferredReload = screen.deferredReload
          /\ t.generation = screen.generation /\ t.grid = screen.grid
      BY <3>2 DEF Same, Fields
    <3>4. Same(screen, t, Fields \ {"generation", "loads", "deferredReload", "deferredSorts", "editing", "edits"})
      BY <3>2 DEF Same
    <3>5. /\ t.loads \subseteq screen.loads /\ t.generation \in Nat /\ t.generation >= screen.generation
          /\ t.deferredSorts \in SortSpecs \cup {None}
      BY <1>0, <3>2, <3>3
    <3>6. t.editing \in BOOLEAN /\ t.deferredReload \in BOOLEAN
      BY <1>0, <3>3
    <3>7. ScreenKnown(t, stored_tasks)
      BY <1>0, <3>4, <3>5, <3>6, KnownStays
    <3>8. sorts # None
      BY TableAssumption
    <3>9. WillLoad(t) /\ EditTrue(t)
      BY <1>0, <2>3, <3>2, <3>3, <3>8 DEF WillLoad, EditTrue
    <3>. QED BY <3>1, <3>7, <3>9, Shown DEF ScreenTrue
  <2>. QED BY <1>0, <2>2, <2>3
<1>2. CASE BeginEdit
  <2>. DEFINE t == [screen EXCEPT !.editing = TRUE, !.edits = @ + 1]
  <2>1. Shows(t) /\ screen.grid # None
    BY <1>2 DEF BeginEdit
  <2>2. Same(screen, t, Fields \ {"editing", "edits"}) /\ t.editing = TRUE
    BY <1>0 DEF Same, Fields
  <2>. HIDE DEF t
  <2>3. /\ t.loads = screen.loads /\ t.deferredReload = screen.deferredReload /\ t.generation = screen.generation
        /\ t.grid = screen.grid
    BY <2>2 DEF Same, Fields
  <2>4. Same(screen, t, Fields \ {"generation", "loads", "deferredReload", "editing", "edits"})
    BY <2>2 DEF Same
  <2>5. t.loads \subseteq screen.loads /\ t.generation \in Nat /\ t.generation >= screen.generation
    BY <1>0, <2>3
  <2>6. t.editing \in BOOLEAN /\ t.deferredReload \in BOOLEAN /\ (screen.deferredReload => t.deferredReload)
    BY <1>0, <2>2, <2>3
  <2>7. ScreenTrue(t, stored_tasks)
    BY <1>0, <2>4, <2>5, <2>6, LessLoads
  <2>8. EditTrue(t)
    BY <2>1, <2>2, <2>3 DEF EditTrue
  <2>. QED BY <2>1, <2>7, <2>8, Shown
<1>. QED BY <1>1, <1>2

\* An edit is discarded, and what it put off follows.
LEMMA EndingKeeps ==
  ASSUME TableInv, EndEdit
  PROVE  TableInv' /\ screen'.editing = FALSE
<1>0. /\ ScreenTrue(screen, stored_tasks) /\ DOMAIN screen = Fields /\ screen.generation \in Nat
      /\ screen.editing \in BOOLEAN /\ screen.deferredReload \in BOOLEAN /\ stored_tasks \in Stored
  BY DEF TableInv, ScreenTrue, ScreenKnown, ScreenType
<1>. DEFINE d == [screen EXCEPT !.editing = FALSE]
<1>1. Shows(FlushDeferred(d))
  BY DEF EndEdit
<1>2. Same(screen, d, Fields \ {"editing"}) /\ d.editing = FALSE
  BY <1>0 DEF Same, Fields
<1>. HIDE DEF d
<1>3. /\ d.loads = screen.loads /\ d.deferredReload = screen.deferredReload /\ d.generation = screen.generation
  BY <1>2 DEF Same, Fields
<1>4. Same(screen, d, Fields \ {"generation", "loads", "deferredReload", "editing", "edits"})
  BY <1>2 DEF Same
<1>5. d.loads \subseteq screen.loads /\ d.generation \in Nat /\ d.generation >= screen.generation
  BY <1>0, <1>3
<1>6. d.editing \in BOOLEAN /\ d.deferredReload \in BOOLEAN /\ (screen.deferredReload => d.deferredReload)
  BY <1>0, <1>2, <1>3
<1>7. ScreenTrue(d, stored_tasks)
  BY <1>0, <1>4, <1>5, <1>6, LessLoads
<1>8. /\ ScreenTrue(FlushDeferred(d), stored_tasks) /\ EditTrue(FlushDeferred(d))
      /\ FlushDeferred(d).editing = FALSE
  BY <1>0, <1>2, <1>7, FlushDeferredTrue
<1>9. TableInv'
  BY <1>1, <1>8, Shown
<1>. QED BY <1>1, <1>8, <1>9 DEF Shows


\* A load leaves the table's loads.
LEMMA WithoutFields ==
  ASSUME DOMAIN screen = Fields, NEW load
  PROVE  Same(screen, Without(load), Fields \ {"loads"}) /\ Without(load).loads = screen.loads \ {load}
BY DEF Without, Same, Fields

\* Nothing else is known of the table without a load.
LEMMA WithoutKnown ==
  ASSUME TableInv, NEW load
  PROVE  /\ ScreenTrue(Without(load), stored_tasks) /\ EditTrue(Without(load))
         /\ DOMAIN Without(load) = Fields
<1>0. /\ ScreenTrue(screen, stored_tasks) /\ EditTrue(screen) /\ DOMAIN screen = Fields
      /\ screen.generation \in Nat /\ screen.editing \in BOOLEAN /\ screen.deferredReload \in BOOLEAN
  BY DEF TableInv, ScreenTrue, ScreenKnown, ScreenType
<1>. DEFINE t == Without(load)
<1>1. Same(screen, t, Fields \ {"loads"}) /\ t.loads = screen.loads \ {load}
  BY <1>0, WithoutFields
<1>. HIDE DEF t
<1>2. /\ t.editing = screen.editing /\ t.deferredReload = screen.deferredReload /\ t.generation = screen.generation
  BY <1>1 DEF Same, Fields
<1>3. Same(screen, t, Fields \ {"generation", "loads", "deferredReload", "editing", "edits"})
  BY <1>1 DEF Same
<1>4. t.loads \subseteq screen.loads /\ t.generation \in Nat /\ t.generation >= screen.generation
  BY <1>0, <1>1, <1>2
<1>5. t.editing \in BOOLEAN /\ t.deferredReload \in BOOLEAN
  BY <1>0, <1>2
<1>6. ScreenTrue(t, stored_tasks) /\ EditTrue(t)
  BY <1>0, <1>2, <1>3, <1>4, <1>5, LessLoads
<1>. QED BY <1>1, <1>6 DEF Same, t

\* A load that fails, or whose answer is dropped.
LEMMA DroppingKeeps ==
  ASSUME TableInv, NEW load \in screen.loads, FailLoad(load) \/ DropAnswer(load)
  PROVE  TableInv'
<1>. DEFINE w == Without(load)
            t == [w EXCEPT !.deferredReload = TRUE]
<1>0. ScreenTrue(w, stored_tasks) /\ EditTrue(w) /\ DOMAIN w = Fields
  BY WithoutKnown
<1>1. Shows(w) \/ Shows(t)
  BY DEF FailLoad, DropAnswer
<1>. HIDE DEF w
<1>2. Same(w, t, Fields \ {"deferredReload"}) /\ t.deferredReload = TRUE
  BY <1>0 DEF Same, Fields
<1>. HIDE DEF t
<1>3. /\ t.loads = w.loads /\ t.editing = w.editing /\ t.generation = w.generation
  BY <1>2 DEF Same, Fields
<1>4. Same(w, t, Fields \ {"generation", "loads", "deferredReload", "editing", "edits"})
  BY <1>2 DEF Same
<1>5. w.generation \in Nat /\ w.editing \in BOOLEAN
  BY <1>0 DEF ScreenTrue, ScreenKnown, ScreenType
<1>6. t.loads \subseteq w.loads /\ t.generation \in Nat /\ t.generation >= w.generation
  BY <1>3, <1>5
<1>7. t.editing \in BOOLEAN /\ t.deferredReload \in BOOLEAN /\ t.deferredReload
  BY <1>2, <1>3, <1>5
<1>8. ScreenTrue(t, stored_tasks) /\ EditTrue(t)
  BY <1>0, <1>3, <1>4, <1>6, <1>7, LessLoads
<1>. QED BY <1>0, <1>1, <1>8, Shown

\* Another load takes the place of one, of its generation.
LEMMA LoadReplaced ==
  ASSUME NEW s, NEW load \in s.loads, NEW next, NEW t, NEW st, ScreenTrue(s, st), EditTrue(s),
         Same(s, t, Fields \ {"loads"}), t.loads = (s.loads \ {load}) \cup {next},
         LoadType(next), next.generation = load.generation, load.phase # "sorting", next.phase # "sorting",
         next.phase = "drawing" => s.grid # None, next.identity = load.identity,
         load.generation = s.generation /\ s.allIdentity # None /\ ~s.left /\ LoadTrue(s, st, load) => LoadTrue(s, st, next)
  PROVE  ScreenTrue(t, st) /\ EditTrue(t)
<1>1. /\ t.view = s.view /\ t.back = s.back /\ t.next = s.next /\ t.rows = s.rows /\ t.grid = s.grid
      /\ t.rendered = s.rendered /\ t.allIdentity = s.allIdentity /\ t.allCursor = s.allCursor
      /\ t.allComplete = s.allComplete /\ t.touched = s.touched /\ t.left = s.left /\ DOMAIN t = Fields
      /\ t.deferredSorts = s.deferredSorts /\ t.generation = s.generation /\ t.editing = s.editing
      /\ t.deferredReload = s.deferredReload
  BY DEF Same, Fields
<1>2. ScreenType(t) /\ (t.grid = None => t.rendered = None) /\ WillLoad(t) /\ EditTrue(t)
  BY <1>1 DEF ScreenTrue, ScreenKnown, ScreenType, WillLoad, EditTrue
<1>3. LoadsTrue(s)
  BY DEF ScreenTrue, ScreenKnown
<1>4. LoadsTrue(t)
  <2>1. \A other \in t.loads : LoadType(other) /\ other.generation <= t.generation
    BY <1>1, <1>3 DEF LoadsTrue
  <2>2. \A other \in t.loads : other.phase \in {"drawing", "sorting"} => t.grid # None
    BY <1>1, <1>3 DEF LoadsTrue
  <2>3. \A one, other \in t.loads : one.generation = t.generation /\ other.generation = t.generation => one = other
    BY <1>1, <1>3 DEF LoadsTrue
  <2>4. \A other \in t.loads : other.generation = t.generation /\ other.phase # "sorting" =>
          other.identity = t.view /\ (t.view.all => ~t.left /\ t.allIdentity # None)
    BY <1>1, <1>3 DEF LoadsTrue
  <2>. QED BY <2>1, <2>2, <2>3, <2>4 DEF LoadsTrue
<1>5. ASSUME t.allIdentity # None, ~t.left PROVE AllTrue(t, st)
  <2>1. AllTrue(s, st)
    BY <1>1, <1>5 DEF ScreenTrue, ScreenKnown
  <2>2. \A other : LoadTrue(s, st, other) => LoadTrue(t, st, other)
    BY <1>1 DEF LoadTrue
  <2>3. \A other \in t.loads : other.generation = t.generation /\ other.phase # "sorting" => LoadTrue(t, st, other)
    BY <1>1, <1>5, <2>1, <2>2 DEF AllTrue
  <2>. QED BY <1>1, <2>1, <2>3 DEF AllTrue
<1>. QED BY <1>2, <1>4, <1>5 DEF ScreenTrue, ScreenKnown

\* A request is answered with what is stored.
LEMMA ServingKeeps ==
  ASSUME TableInv, NEW load \in screen.loads, Serve(load)
  PROVE  TableInv'
<1>. DEFINE w == Without(load)
            page == ListTasks(load.identity.sorts, load.cursor)
            next == [load EXCEPT !.phase = "answered", !.page = page]
            t == [w EXCEPT !.loads = @ \cup {next}]
<1>0. /\ ScreenTrue(screen, stored_tasks) /\ EditTrue(screen) /\ DOMAIN screen = Fields
      /\ stored_tasks \in Stored /\ LoadsTrue(screen) /\ LoadType(load)
  BY DEF TableInv, ScreenTrue, ScreenKnown, ScreenType, LoadsTrue
<1>1. Shows(t) /\ load.phase = "asked"
  BY DEF Serve
<1>2. Same(screen, w, Fields \ {"loads"}) /\ w.loads = screen.loads \ {load}
  BY <1>0, WithoutFields
<1>3. DOMAIN load = LoadFields /\ load.identity \in View /\ load.cursor \in Cursor /\ load.identity.sorts \in SortSpecs
  BY <1>0, <1>1 DEF LoadType, View
<1>4. PageOf(stored_tasks, load.identity.sorts, load.cursor, page)
  BY <1>0, <1>3, ListTasksPage
<1>. HIDE DEF page, w
<1>5. /\ next.phase = "answered" /\ next.page = page /\ next.generation = load.generation
      /\ next.identity = load.identity /\ next.cursor = load.cursor /\ next.first = load.first
      /\ next.refreshing = load.refreshing /\ DOMAIN next = LoadFields
  BY <1>3 DEF LoadFields
<1>. HIDE DEF next
<1>6. Same(screen, t, Fields \ {"loads"}) /\ t.loads = (screen.loads \ {load}) \cup {next}
  BY <1>2 DEF Same, Fields
<1>. HIDE DEF t
<1>7. LoadType(next)
  BY <1>0, <1>3, <1>4, <1>5 DEF LoadType, PageOf
<1>8. ASSUME load.generation = screen.generation, screen.allIdentity # None, ~screen.left,
             LoadTrue(screen, stored_tasks, load)
      PROVE  LoadTrue(screen, stored_tasks, next)
  <2>1. load.identity = screen.view
    BY <1>0, <1>1, <1>8 DEF LoadsTrue
  <2>2. PageTrue(next.page, screen.touched, stored_tasks, screen.view.sorts, next.cursor)
    BY <1>4, <1>5, <2>1, PageOfIsTrue
  <2>. QED BY <1>1, <1>5, <1>8, <2>2 DEF LoadTrue
<1>9. ScreenTrue(t, stored_tasks) /\ EditTrue(t)
  BY <1>0, <1>1, <1>5, <1>6, <1>7, <1>8, LoadReplaced
<1>. QED BY <1>1, <1>9, Shown

\* After its page a load goes on, or is complete.
LEMMA GoOnTrue ==
  ASSUME NEW s, NEW st, NEW load, ScreenType(s), s.grid = None => s.rendered = None,
         LoadType(load), load.phase \in {"answered", "drawing"},
         load.generation = s.generation, load.identity = s.view,
         \A other \in s.loads : /\ LoadType(other) /\ other.generation <= s.generation /\ other.generation # s.generation
                                /\ other.phase \in {"drawing", "sorting"} => s.grid # None,
         ~s.view.all /\ s.allIdentity # None => s.left, s.editing => s.grid # None,
         s.view.all =>
           /\ ~s.left /\ s.allIdentity = s.view /\ s.allIdentity # None
           /\ RowsTrue(s.rows, s.touched, st, s.view.sorts)
           /\ UpTo(s.rows, s.touched, st, s.view.sorts, load.page.cursor)
           /\ load.page.cursor # None => s.rows # <<>>
           /\ load.page.cursor = None => s.grid = s.rows
           /\ load.refreshing => s.rendered = s.allIdentity
           /\ ~load.refreshing => s.grid = s.rows
  PROVE  ScreenTrue(GoOn(s, load), st) /\ EditTrue(GoOn(s, load))
<1>. DEFINE cursor == load.page.cursor
            received == [s EXCEPT !.next = cursor]
            next == [load EXCEPT !.phase = "asked", !.first = FALSE, !.page = None, !.cursor = cursor]
            loads == IF ~(cursor # None) THEN received.loads ELSE received.loads \cup {next}
            gone == [received EXCEPT !.allCursor = cursor, !.allComplete = ~(cursor # None), !.loads = loads]
            t == GoOn(s, load)
<1>0. /\ DOMAIN s = Fields /\ cursor \in Cursor /\ s.view \in View /\ DOMAIN load = LoadFields
      /\ s.view.all \in BOOLEAN
  BY DEF ScreenType, LoadType, View
<1>1. t = IF ~s.view.all THEN received ELSE gone
  BY DEF GoOn
<1>2. Same(s, received, Fields \ {"next"}) /\ received.next = cursor
  BY <1>0 DEF Same, Fields
<1>3. CASE ~s.view.all
  <2>1. t = received
    BY <1>1, <1>3
  <2>. HIDE DEF t, received, cursor
  <2>2. /\ t.view = s.view /\ t.back = s.back /\ t.next = cursor /\ t.rows = s.rows /\ t.grid = s.grid
        /\ t.rendered = s.rendered /\ t.allIdentity = s.allIdentity /\ t.allCursor = s.allCursor
        /\ t.allComplete = s.allComplete /\ t.touched = s.touched /\ t.left = s.left /\ DOMAIN t = Fields
        /\ t.deferredSorts = s.deferredSorts /\ t.generation = s.generation /\ t.editing = s.editing
        /\ t.deferredReload = s.deferredReload /\ t.loads = s.loads
    BY <1>2, <2>1 DEF Same, Fields
  <2>3. ScreenType(t)
    BY <1>0, <2>2 DEF ScreenType
  <2>4. LoadsTrue(t)
    BY <2>2 DEF LoadsTrue
  <2>5. WillLoad(t) /\ EditTrue(t)
    BY <1>3, <2>2 DEF WillLoad, EditTrue
  <2>6. (t.grid = None => t.rendered = None) /\ (t.allIdentity # None => t.left)
    BY <1>3, <2>2
  <2>7. ScreenTrue(t, st) /\ EditTrue(t)
    BY <2>3, <2>4, <2>5, <2>6 DEF ScreenTrue, ScreenKnown
  <2>. QED BY <2>7 DEF t
<1>4. CASE s.view.all
  <2>1. t = gone
    BY <1>1, <1>4
  <2>2. received.loads = s.loads /\ DOMAIN received = Fields
    BY <1>2 DEF Same, Fields
  <2>3. /\ next.phase = "asked" /\ next.first = FALSE /\ next.cursor = cursor /\ next.identity = load.identity
        /\ next.generation = load.generation /\ next.refreshing = load.refreshing /\ DOMAIN next = LoadFields
    BY <1>0 DEF LoadFields
  <2>. HIDE DEF next, cursor
  <2>4. loads = IF cursor = None THEN s.loads ELSE s.loads \cup {next}
    BY <2>2
  <2>. HIDE DEF loads, received
  <2>5. gone.allCursor = cursor /\ gone.loads = loads /\ DOMAIN gone = Fields
    BY <2>2 DEF Fields
  <2>6. gone.allComplete = (cursor = None)
    <3>1. gone.allComplete = ~(cursor # None)
      BY <2>2 DEF Fields
    <3>. HIDE DEF gone
    <3>. QED BY <3>1
  <2>7. \A f \in Fields \ {"allCursor", "allComplete", "loads"} : gone[f] = received[f]
    BY <2>2 DEF Fields
  <2>. HIDE DEF gone, t
  <2>8. /\ t.view = s.view /\ t.back = s.back /\ t.next = cursor /\ t.rows = s.rows /\ t.grid = s.grid
        /\ t.rendered = s.rendered /\ t.allIdentity = s.allIdentity
        /\ t.touched = s.touched /\ t.left = s.left /\ DOMAIN t = Fields
        /\ t.deferredSorts = s.deferredSorts /\ t.generation = s.generation /\ t.editing = s.editing
        /\ t.deferredReload = s.deferredReload
    BY <1>2, <2>1, <2>5, <2>7 DEF Same, Fields
  <2>9. t.allCursor = cursor /\ t.loads = loads /\ t.allComplete = (cursor = None)
    BY <2>1, <2>5, <2>6
  <2>10. LoadType(next)
    BY <1>0, <2>3 DEF LoadType
  <2>11. ScreenType(t)
    <3>1. t.allComplete \in BOOLEAN
      BY <2>9
    <3>. QED BY <1>0, <2>8, <2>9, <3>1 DEF ScreenType
  <2>12. LoadsTrue(t)
    <3>1. \A other \in t.loads : other \in s.loads \/ other = next
      BY <2>4, <2>9
    <3>2. next.generation = t.generation /\ next.identity = t.view /\ t.generation <= t.generation
      BY <2>3, <2>8, <2>11 DEF ScreenType
    <3>. QED BY <1>4, <2>3, <2>8, <2>10, <3>1, <3>2 DEF LoadsTrue
  <2>13. WillLoad(t) /\ EditTrue(t)
    BY <1>4, <2>8 DEF WillLoad, EditTrue
  <2>14. cursor # None => LoadTrue(t, st, next)
    BY <1>4, <2>3, <2>8, <2>9 DEF LoadTrue, cursor
  <2>15. AllTrue(t, st)
    <3>1. \A other \in t.loads : other.generation = t.generation => cursor # None /\ other = next
      BY <2>4, <2>8, <2>9
    <3>2. t.view.all /\ t.allIdentity = t.view /\ RowsTrue(t.rows, t.touched, st, t.view.sorts)
      BY <1>4, <2>8
    <3>3. UpTo(t.rows, t.touched, st, t.view.sorts, cursor)
      BY <1>4, <2>8 DEF cursor
    <3>4. cursor # None => t.rows # <<>>
      BY <1>4, <2>8 DEF cursor
    <3>5. cursor = None => t.grid = t.rows
      BY <1>4, <2>8 DEF cursor
    <3>6. t.rendered # t.allIdentity => t.grid = t.rows
      BY <1>4, <2>8
    <3>. QED BY <2>9, <2>14, <3>1, <3>2, <3>3, <3>4, <3>5, <3>6 DEF AllTrue
  <2>16. t.grid = None => t.rendered = None
    BY <2>8
  <2>17. ScreenTrue(t, st) /\ EditTrue(t)
    BY <2>11, <2>12, <2>13, <2>15, <2>16 DEF ScreenTrue, ScreenKnown
  <2>. QED BY <2>17 DEF t
<1>. QED BY <1>0, <1>3, <1>4

\* The rows are drawn, and the load goes on.
LEMMA DrawingKeeps ==
  ASSUME TableInv, NEW load \in screen.loads, FinishDrawing(load)
  PROVE  TableInv'
<1>. DEFINE w == Without(load)
            s == [w EXCEPT !.rendered = load.identity]
<1>0. /\ ScreenTrue(screen, stored_tasks) /\ EditTrue(screen) /\ ScreenType(screen) /\ DOMAIN screen = Fields
      /\ LoadsTrue(screen) /\ LoadType(load)
  BY DEF TableInv, ScreenTrue, ScreenKnown, ScreenType, LoadsTrue
<1>1. ScreenTrue(w, stored_tasks) /\ EditTrue(w)
  BY WithoutKnown
<1>2. CASE load.generation # screen.generation
  <2>1. Shows(w)
    BY <1>2 DEF FinishDrawing
  <2>. QED BY <1>1, <2>1, Shown
<1>3. CASE load.generation = screen.generation
  <2>1. Shows(GoOn(s, load)) /\ load.phase = "drawing"
    BY <1>3 DEF FinishDrawing
  <2>2. Same(screen, w, Fields \ {"loads"}) /\ w.loads = screen.loads \ {load}
    BY <1>0, WithoutFields
  <2>3. load.identity = screen.view /\ screen.grid # None /\ (screen.view.all => ~screen.left /\ screen.allIdentity # None)
    BY <1>0, <1>3, <2>1 DEF LoadsTrue
  <2>. HIDE DEF w
  <2>4. Same(screen, s, Fields \ {"loads", "rendered"}) /\ s.loads = screen.loads \ {load} /\ s.rendered = screen.view
    BY <2>2, <2>3 DEF Same, Fields
  <2>. HIDE DEF s
  <2>5. /\ s.view = screen.view /\ s.back = screen.back /\ s.next = screen.next /\ s.rows = screen.rows
        /\ s.grid = screen.grid /\ s.allIdentity = screen.allIdentity /\ s.allCursor = screen.allCursor
        /\ s.allComplete = screen.allComplete /\ s.touched = screen.touched /\ s.left = screen.left
        /\ DOMAIN s = Fields /\ s.deferredSorts = screen.deferredSorts /\ s.generation = screen.generation
        /\ s.editing = screen.editing /\ s.deferredReload = screen.deferredReload
    BY <2>4 DEF Same, Fields
  <2>6. ScreenType(s)
    BY <1>0, <2>4, <2>5 DEF ScreenType
  <2>7. \A other \in s.loads : /\ LoadType(other) /\ other.generation <= s.generation /\ other.generation # s.generation
                               /\ other.phase \in {"drawing", "sorting"} => s.grid # None
    BY <1>0, <1>3, <2>4, <2>5 DEF LoadsTrue
  <2>8. ~s.view.all /\ s.allIdentity # None => s.left
    BY <1>0, <2>5, LeftAllRows DEF ScreenTrue
  <2>9. ASSUME s.view.all
        PROVE  /\ ~s.left /\ s.allIdentity = s.view /\ s.allIdentity # None
               /\ RowsTrue(s.rows, s.touched, stored_tasks, s.view.sorts)
               /\ UpTo(s.rows, s.touched, stored_tasks, s.view.sorts, load.page.cursor)
               /\ load.page.cursor # None => s.rows # <<>>
               /\ s.grid = s.rows /\ s.rendered = s.allIdentity
    <3>1. AllTrue(screen, stored_tasks) /\ ~screen.left /\ screen.allIdentity # None
      BY <1>0, <2>3, <2>5, <2>9 DEF ScreenTrue, ScreenKnown
    <3>2. LoadTrue(screen, stored_tasks, load)
      BY <1>3, <2>1, <3>1 DEF AllTrue
    <3>3. /\ screen.grid = screen.rows
          /\ UpTo(screen.rows, screen.touched, stored_tasks, screen.view.sorts, load.page.cursor)
          /\ load.page.cursor # None => screen.rows # <<>>
      BY <2>1, <3>2 DEF LoadTrue
    <3>4. screen.allIdentity = screen.view /\ RowsTrue(screen.rows, screen.touched, stored_tasks, screen.view.sorts)
      BY <3>1 DEF AllTrue
    <3>. QED BY <2>4, <2>5, <3>1, <3>3, <3>4
  <2>10. s.grid # None /\ load.generation = s.generation /\ load.identity = s.view /\ load.phase \in {"answered", "drawing"}
    BY <1>3, <2>1, <2>3, <2>5
  <2>11. ScreenTrue(GoOn(s, load), stored_tasks) /\ EditTrue(GoOn(s, load))
    BY <1>0, <2>6, <2>7, <2>8, <2>9, <2>10, GoOnTrue
  <2>. QED BY <2>1, <2>11, Shown
<1>. QED BY <1>2, <1>3

\* The rows that were sorted are drawn.
LEMMA SortingKeeps ==
  ASSUME TableInv, NEW load \in screen.loads, FinishSorting(load)
  PROVE  TableInv'
<1>. DEFINE w == Without(load)
            t == [w EXCEPT !.rendered = screen.allIdentity]
<1>0. /\ ScreenTrue(screen, stored_tasks) /\ EditTrue(screen) /\ ScreenType(screen) /\ DOMAIN screen = Fields
      /\ LoadsTrue(screen)
  BY DEF TableInv, ScreenTrue, ScreenKnown, ScreenType
<1>1. ScreenTrue(w, stored_tasks) /\ EditTrue(w)
  BY WithoutKnown
<1>2. CASE load.generation # screen.generation
  <2>1. Shows(w)
    BY <1>2 DEF FinishSorting
  <2>. QED BY <1>1, <2>1, Shown
<1>3. CASE load.generation = screen.generation
  <2>1. Shows(t) /\ load.phase = "sorting"
    BY <1>3 DEF FinishSorting
  <2>2. Same(screen, w, Fields \ {"loads"}) /\ w.loads = screen.loads \ {load}
    BY <1>0, WithoutFields
  <2>3. w.grid # None
    BY <1>0, <2>1, <2>2 DEF LoadsTrue, Same, Fields
  <2>4. \A other \in w.loads : other.generation # w.generation
    BY <1>0, <1>3, <2>2 DEF LoadsTrue, Same, Fields
  <2>. HIDE DEF w
  <2>5. DOMAIN w = Fields /\ w.allIdentity = screen.allIdentity
    BY <2>2 DEF Same, Fields
  <2>6. Same(w, t, Fields \ {"rendered"}) /\ t.rendered = w.allIdentity
    BY <2>5 DEF Same, Fields
  <2>. HIDE DEF t
  <2>7. /\ t.view = w.view /\ t.back = w.back /\ t.next = w.next /\ t.rows = w.rows
        /\ t.grid = w.grid /\ t.allIdentity = w.allIdentity /\ t.allCursor = w.allCursor
        /\ t.allComplete = w.allComplete /\ t.touched = w.touched /\ t.left = w.left
        /\ DOMAIN t = Fields /\ t.deferredSorts = w.deferredSorts /\ t.generation = w.generation
        /\ t.editing = w.editing /\ t.deferredReload = w.deferredReload /\ t.loads = w.loads
    BY <2>6 DEF Same, Fields
  <2>8. ScreenType(t) /\ t.grid # None
    BY <1>1, <2>3, <2>6, <2>7 DEF ScreenTrue, ScreenKnown, ScreenType
  <2>9. LoadsTrue(t) /\ WillLoad(t) /\ EditTrue(t)
    BY <1>1, <2>7 DEF ScreenTrue, ScreenKnown, LoadsTrue, WillLoad, EditTrue
  <2>10. t.allIdentity # None /\ ~t.left => AllTrue(t, stored_tasks)
    BY <1>1, <2>4, <2>6, <2>7 DEF ScreenTrue, ScreenKnown, AllTrue
  <2>11. ScreenTrue(t, stored_tasks)
    BY <2>8, <2>9, <2>10 DEF ScreenTrue, ScreenKnown
  <2>. QED BY <2>1, <2>9, <2>11, Shown
<1>. QED BY <1>2, <1>3

\* The rows of an answer are stored, and drawn or not.
LEMMA AnswerKeeps ==
  ASSUME TableInv, NEW load \in screen.loads, ShowAnswer(load)
  PROVE  TableInv'
<1>. DEFINE w == Without(load)
            list == load.page.rows
            cursor == load.page.cursor
            fresh == Kept(list, Fresh(list, screen.rows))
            append == ~load.first /\ load.identity.all
            rows == IF append THEN screen.rows \o fresh ELSE list
            stored == [w EXCEPT !.rows = rows]
            grid == IF append /\ ~load.refreshing THEN screen.grid \o fresh ELSE rows
            drawing == [load EXCEPT !.phase = "drawing"]
            t == [stored EXCEPT !.grid = grid, !.loads = @ \cup {drawing}]
            touched == screen.touched
            spec == screen.view.sorts
            st == stored_tasks
<1>0. /\ ScreenTrue(screen, st) /\ EditTrue(screen) /\ ScreenType(screen) /\ DOMAIN screen = Fields
      /\ LoadsTrue(screen) /\ LoadType(load) /\ st \in Stored /\ screen.rows \in Rows /\ Distinct(screen.rows)
      /\ screen.view \in View
  BY DEF TableInv, ScreenTrue, ScreenKnown, ScreenType, LoadsTrue
<1>1. load.phase = "answered" /\ load.generation = screen.generation /\ load.identity = screen.view
  <2>1. load.phase = "answered" /\ load.generation = screen.generation
    BY DEF ShowAnswer, Current
  <2>. QED BY <1>0, <2>1 DEF LoadsTrue
<1>2. /\ list \in Rows /\ cursor \in Cursor /\ Distinct(list) /\ DOMAIN load = LoadFields /\ load.cursor \in Cursor
      /\ screen.view.all \in BOOLEAN /\ spec \in SortSpecs
  BY <1>0, <1>1 DEF LoadType, View
<1>3. Same(screen, w, Fields \ {"loads"}) /\ w.loads = screen.loads \ {load}
  BY <1>0, WithoutFields
<1>4. DOMAIN w = Fields /\ w.rows = screen.rows /\ w.grid = screen.grid
  BY <1>3 DEF Same, Fields
<1>5. Shows(IF load.refreshing /\ cursor # None THEN GoOn(stored, load) ELSE t)
  <2>1. fresh = Kept(list, {i \in DOMAIN list : \A j \in DOMAIN screen.rows : screen.rows[j].uid # list[i].uid})
    BY DEF Fresh
  <2>2. stored.rows = rows /\ stored.grid = screen.grid
    <3>. HIDE DEF w, rows
    <3>. QED BY <1>4 DEF Fields
  <2>3. ASSUME ~(load.refreshing /\ cursor # None) PROVE Shows(t)
    <3>1. Shows([stored EXCEPT !.grid = IF append /\ ~load.refreshing THEN @ \o fresh ELSE stored.rows,
                       !.loads = @ \cup {drawing}])
      BY <2>3 DEF ShowAnswer, Fresh
    <3>2. [stored EXCEPT !.grid = IF append /\ ~load.refreshing THEN @ \o fresh ELSE stored.rows,
                       !.loads = @ \cup {drawing}] = t
      <4>. HIDE DEF stored, append, fresh, drawing, rows
      <4>. QED BY <2>2
    <3>. QED BY <3>1, <3>2
  <2>4. ASSUME load.refreshing /\ cursor # None PROVE Shows(GoOn(stored, load))
    BY <2>4 DEF ShowAnswer, Fresh
  <2>. QED BY <2>3, <2>4
<1>6. screen.view.all => /\ ~screen.left /\ screen.allIdentity # None /\ AllTrue(screen, st)
                         /\ LoadTrue(screen, st, load)
  <2>. SUFFICES ASSUME screen.view.all PROVE /\ ~screen.left /\ screen.allIdentity # None /\ AllTrue(screen, st)
                                             /\ LoadTrue(screen, st, load)
    OBVIOUS
  <2>1. ~screen.left /\ screen.allIdentity # None
    BY <1>0, <1>1 DEF LoadsTrue
  <2>2. AllTrue(screen, st)
    BY <1>0, <2>1 DEF ScreenTrue, ScreenKnown
  <2>. QED BY <1>1, <2>1, <2>2 DEF AllTrue
<1>7. rows \in Rows /\ Distinct(rows) /\ (cursor # None /\ screen.view.all => rows # <<>>)
  <2>1. CASE append
    <3>1. fresh \in Rows
      <4>1. Fresh(list, screen.rows) \in SUBSET DOMAIN list
        BY DEF Fresh
      <4>. QED BY <1>2, <4>1, KeptInOrder
    <3>2. Distinct(screen.rows \o fresh)
      BY <1>0, <1>2, JoinedDistinct
    <3>3. rows = screen.rows \o fresh
      BY <2>1
    <3>. HIDE DEF fresh
    <3>4. screen.rows \o fresh \in Rows /\ (screen.rows # <<>> => screen.rows \o fresh # <<>>)
      BY <1>0, <3>1, Joined
    <3>5. screen.rows # <<>>
      <4>1. AllTrue(screen, st) /\ LoadTrue(screen, st, load)
        BY <1>1, <1>6, <2>1
      <4>2. screen.allCursor # None
        BY <1>1, <2>1, <4>1 DEF LoadTrue
      <4>. QED BY <4>1, <4>2 DEF AllTrue
    <3>. HIDE DEF rows
    <3>. QED BY <3>2, <3>3, <3>4, <3>5
  <2>2. CASE ~append
    <3>1. rows = list
      BY <2>2
    <3>2. ASSUME cursor # None, screen.view.all PROVE list # <<>>
      <4>1. PageTrue(load.page, touched, st, spec, load.cursor)
        BY <1>1, <1>6, <3>2 DEF LoadTrue
      <4>. QED BY <3>2, <4>1 DEF PageTrue
    <3>. HIDE DEF rows
    <3>. QED BY <1>2, <3>1, <3>2
  <2>. QED BY <2>1, <2>2
<1>8. screen.view.all => /\ RowsTrue(rows, touched, st, spec) /\ UpTo(rows, touched, st, spec, cursor)
                         /\ screen.allCursor # None => rows # <<>> /\ UpTo(rows, touched, st, spec, screen.allCursor)
  <2>. SUFFICES ASSUME screen.view.all
                PROVE  /\ RowsTrue(rows, touched, st, spec) /\ UpTo(rows, touched, st, spec, cursor)
                       /\ screen.allCursor # None => rows # <<>> /\ UpTo(rows, touched, st, spec, screen.allCursor)
    OBVIOUS
  <2>1. /\ AllTrue(screen, st) /\ PageTrue(load.page, touched, st, spec, load.cursor)
        /\ load.cursor = screen.allCursor /\ (load.first <=> load.cursor = None)
    BY <1>1, <1>6 DEF LoadTrue
  <2>2. CASE load.first
    <3>1. rows = list /\ screen.allCursor = None /\ load.cursor = None
      BY <2>1, <2>2
    <3>2. RowsTrue(list, touched, st, spec) /\ UpTo(list, touched, st, spec, cursor)
      BY <1>0, <1>2, <2>1, <3>1, FirstPage
    <3>. HIDE DEF rows
    <3>. QED BY <3>1, <3>2
  <2>3. CASE ~load.first
    <3>1. rows = screen.rows \o fresh
      BY <1>1, <2>3
    <3>2. load.cursor \in TaskRow /\ screen.allCursor # None
      BY <1>2, <2>1, <2>3 DEF Cursor
    <3>3. /\ RowsTrue(screen.rows, touched, st, spec) /\ UpTo(screen.rows, touched, st, spec, load.cursor)
          /\ screen.rows # <<>>
      BY <2>1, <3>2 DEF AllTrue
    <3>4. /\ RowsTrue(screen.rows \o fresh, touched, st, spec)
          /\ UpTo(screen.rows \o fresh, touched, st, spec, cursor)
          /\ UpTo(screen.rows \o fresh, touched, st, spec, load.cursor)
      BY <1>0, <1>2, <2>1, <3>2, <3>3, NextOfList
    <3>5. rows # <<>>
      <4>1. fresh \in Rows
        <5>1. Fresh(list, screen.rows) \in SUBSET DOMAIN list
          BY DEF Fresh
        <5>. QED BY <1>2, <5>1, KeptInOrder
      <4>. HIDE DEF fresh
      <4>. QED BY <1>0, <3>1, <3>3, <4>1, Joined
    <3>. HIDE DEF rows, fresh
    <3>. QED BY <2>1, <3>1, <3>4, <3>5
  <2>. QED BY <2>2, <2>3
<1>9. grid = rows
  <2>. SUFFICES ASSUME append, ~load.refreshing PROVE screen.grid = screen.rows
    OBVIOUS
  <2>1. LoadTrue(screen, st, load) /\ ~load.first
    BY <1>1, <1>6
  <2>. QED BY <1>1, <2>1 DEF LoadTrue
<1>. HIDE DEF w, rows, grid
<1>10. /\ Same(screen, stored, Fields \ {"loads", "rows"}) /\ stored.rows = rows
       /\ stored.loads = screen.loads \ {load}
  BY <1>3, <1>4 DEF Same, Fields
<1>. HIDE DEF stored
<1>11. /\ stored.view = screen.view /\ stored.back = screen.back /\ stored.next = screen.next
       /\ stored.grid = screen.grid /\ stored.allIdentity = screen.allIdentity /\ stored.allCursor = screen.allCursor
       /\ stored.allComplete = screen.allComplete /\ stored.touched = touched /\ stored.left = screen.left
       /\ DOMAIN stored = Fields /\ stored.deferredSorts = screen.deferredSorts
       /\ stored.generation = screen.generation /\ stored.editing = screen.editing
       /\ stored.deferredReload = screen.deferredReload /\ stored.rendered = screen.rendered
  BY <1>10 DEF Same, Fields
<1>12. ScreenType(stored)
  BY <1>0, <1>7, <1>10, <1>11 DEF ScreenType
<1>13. \A other \in stored.loads :
         /\ LoadType(other) /\ other.generation <= screen.generation /\ other.generation # screen.generation
         /\ other.phase \in {"drawing", "sorting"} => screen.grid # None
  BY <1>0, <1>1, <1>10 DEF LoadsTrue
<1>14. ~screen.view.all /\ screen.allIdentity # None => screen.left
  BY <1>0, LeftAllRows DEF ScreenTrue
<1>15. CASE load.refreshing /\ cursor # None
  <2>1. Shows(GoOn(stored, load))
    BY <1>5, <1>15
  <2>2. ASSUME screen.view.all
        PROVE  /\ ~screen.left /\ screen.allIdentity = screen.view /\ screen.allIdentity # None
               /\ screen.rendered = screen.allIdentity
    BY <1>6, <1>15, <2>2 DEF LoadTrue, AllTrue
  <2>3. stored.grid = None => stored.rendered = None
    BY <1>0, <1>11 DEF ScreenTrue, ScreenKnown
  <2>4. ScreenTrue(GoOn(stored, load), st) /\ EditTrue(GoOn(stored, load))
    <3>1. \A other \in stored.loads :
            /\ LoadType(other) /\ other.generation <= stored.generation /\ other.generation # stored.generation
            /\ other.phase \in {"drawing", "sorting"} => stored.grid # None
      BY <1>11, <1>13
    <3>2. ~stored.view.all /\ stored.allIdentity # None => stored.left
      BY <1>11, <1>14
    <3>3. stored.view.all =>
           /\ ~stored.left /\ stored.allIdentity = stored.view /\ stored.allIdentity # None
           /\ RowsTrue(stored.rows, stored.touched, st, stored.view.sorts)
           /\ UpTo(stored.rows, stored.touched, st, stored.view.sorts, load.page.cursor)
           /\ load.page.cursor # None => stored.rows # <<>>
           /\ load.page.cursor = None => stored.grid = stored.rows
           /\ load.refreshing => stored.rendered = stored.allIdentity
           /\ ~load.refreshing => stored.grid = stored.rows
      BY <1>7, <1>8, <1>10, <1>11, <1>15, <2>2
    <3>4. load.generation = stored.generation /\ load.identity = stored.view /\ load.phase \in {"answered", "drawing"}
      BY <1>1, <1>11
    <3>. HIDE DEF st
    <3>5. ~stored.editing
      BY <1>11 DEF ShowAnswer, Undisturbed
    <3>. QED BY <1>0, <1>12, <2>3, <3>1, <3>2, <3>3, <3>4, <3>5, GoOnTrue
  <2>. QED BY <2>1, <2>4, Shown
<1>16. CASE ~(load.refreshing /\ cursor # None)
  <2>1. Shows(t)
    BY <1>5, <1>16
  <2>2. /\ drawing.phase = "drawing" /\ drawing.generation = load.generation /\ drawing.identity = load.identity
        /\ drawing.cursor = load.cursor /\ drawing.page = load.page /\ drawing.refreshing = load.refreshing
        /\ DOMAIN drawing = LoadFields
    BY <1>2 DEF LoadFields
  <2>. HIDE DEF drawing
  <2>3. Same(stored, t, Fields \ {"grid", "loads"}) /\ t.grid = rows /\ t.loads = stored.loads \cup {drawing}
    BY <1>9, <1>11 DEF Same, Fields
  <2>. HIDE DEF t
  <2>4. /\ t.view = screen.view /\ t.back = screen.back /\ t.next = screen.next /\ t.rows = rows
        /\ t.allIdentity = screen.allIdentity /\ t.allCursor = screen.allCursor
        /\ t.allComplete = screen.allComplete /\ t.touched = touched /\ t.left = screen.left
        /\ DOMAIN t = Fields /\ t.deferredSorts = screen.deferredSorts
        /\ t.generation = screen.generation /\ t.editing = screen.editing
        /\ t.deferredReload = screen.deferredReload /\ t.rendered = screen.rendered
    BY <1>10, <1>11, <2>3 DEF Same, Fields
  <2>5. ScreenType(t)
    BY <1>0, <1>7, <2>3, <2>4 DEF ScreenType
  <2>6. t.grid # None
    BY <1>7, <2>3, NoneIsNoRow
  <2>7. LoadType(drawing)
    BY <1>0, <1>1, <2>2 DEF LoadType
  <2>8. LoadsTrue(t)
    <3>1. \A other \in t.loads : other \in stored.loads \/ other = drawing
      BY <2>3
    <3>2. /\ drawing.generation = t.generation /\ drawing.generation <= t.generation /\ drawing.identity = t.view
          /\ (t.view.all => ~t.left /\ t.allIdentity # None)
      BY <1>1, <1>6, <2>2, <2>4, <2>5 DEF ScreenType
    <3>. QED BY <1>13, <2>4, <2>6, <2>7, <3>1, <3>2 DEF LoadsTrue
  <2>9. WillLoad(t) /\ EditTrue(t)
    BY <1>0, <2>4, <2>6 DEF ScreenTrue, WillLoad, EditTrue
  <2>10. ASSUME t.allIdentity # None, ~t.left PROVE AllTrue(t, st)
    <3>1. screen.view.all
      BY <1>14, <2>4, <2>10
    <3>2. AllTrue(screen, st) /\ LoadTrue(screen, st, load)
      BY <1>6, <3>1
    <3>3. ~screen.allComplete /\ screen.allIdentity = screen.view /\ (load.refreshing => screen.rendered = screen.allIdentity)
      BY <3>2 DEF AllTrue, LoadTrue
    <3>4. LoadTrue(t, st, drawing)
      BY <1>7, <1>8, <2>2, <2>3, <2>4, <3>1, <3>3 DEF LoadTrue
    <3>5. \A other \in t.loads : other.generation = t.generation => other = drawing
      BY <1>13, <2>3, <2>4
    <3>. QED BY <1>8, <2>3, <2>4, <3>1, <3>3, <3>4, <3>5 DEF AllTrue
  <2>11. ScreenTrue(t, st)
    BY <2>5, <2>6, <2>8, <2>9, <2>10 DEF ScreenTrue, ScreenKnown
  <2>. QED BY <2>1, <2>9, <2>11, Shown
<1>. QED BY <1>15, <1>16

\* Somebody changes a task: its row need not be right any more.
LEMMA TaskChanged ==
  ASSUME NEW s, NEW t, NEW st, NEW next, NEW u \in TaskSet, ScreenTrue(s, st),
         \A v \in TaskSet : v # u => next[v] = st[v],
         Same(s, t, Fields \ {"rows", "grid", "touched", "editing"}), t.touched = s.touched \cup {u},
         t.rows \in Rows, Changes(s.rows, t.rows, u), t.grid \in Rows \cup {None},
         s.grid = s.rows => t.grid = t.rows, s.grid = None <=> t.grid = None, t.editing \in BOOLEAN
  PROVE  ScreenTrue(t, next)
<1>1. /\ t.view = s.view /\ t.back = s.back /\ t.next = s.next
      /\ t.rendered = s.rendered /\ t.allIdentity = s.allIdentity /\ t.allCursor = s.allCursor
      /\ t.allComplete = s.allComplete /\ t.left = s.left /\ DOMAIN t = Fields /\ t.loads = s.loads
      /\ t.deferredSorts = s.deferredSorts /\ t.generation = s.generation /\ t.deferredReload = s.deferredReload
  BY DEF Same, Fields
<1>2. ScreenType(s) /\ s.rows \in Rows /\ Distinct(s.rows) /\ LoadsTrue(s)
  BY DEF ScreenTrue, ScreenKnown, ScreenType
<1>. DEFINE spec == s.view.sorts
<1>. HIDE DEF spec
<1>3. /\ RowsTrue(s.rows, s.touched, st, spec) => RowsTrue(t.rows, t.touched, next, spec)
      /\ \A cursor : UpTo(s.rows, s.touched, st, spec, cursor) => UpTo(t.rows, t.touched, next, spec, cursor)
      /\ Distinct(t.rows)
  <2>. DEFINE rows == s.rows
              new == t.rows
              touched == s.touched
  <2>1. rows \in Rows /\ new \in Rows /\ Changes(rows, new, u) /\ Distinct(rows)
    BY <1>2
  <2>2. t.touched = touched \cup {u}
    OBVIOUS
  <2>. HIDE DEF rows, new, touched
  <2>3. /\ RowsTrue(rows, touched, st, spec) => RowsTrue(new, touched \cup {u}, next, spec)
        /\ \A cursor : UpTo(rows, touched, st, spec, cursor) => UpTo(new, touched \cup {u}, next, spec, cursor)
        /\ Distinct(rows) => Distinct(new)
    BY <2>1, RowsChanged
  <2>. QED BY <2>1, <2>2, <2>3 DEF rows, new, touched
<1>. USE DEF spec
<1>4. s.rows = <<>> <=> t.rows = <<>>
  <2>1. DOMAIN s.rows = DOMAIN t.rows
    BY DEF Changes
  <2>. QED BY <1>2, <2>1 DEF Rows
<1>5. ScreenType(t)
  BY <1>1, <1>2, <1>3 DEF ScreenType
<1>6. LoadsTrue(t) /\ WillLoad(t) /\ (t.grid = None => t.rendered = None)
  BY <1>1 DEF ScreenTrue, ScreenKnown, LoadsTrue, WillLoad
<1>7. ASSUME t.allIdentity # None, ~t.left PROVE AllTrue(t, next)
  <2>1. AllTrue(s, st)
    BY <1>1, <1>7 DEF ScreenTrue, ScreenKnown
  <2>2. ASSUME NEW load \in t.loads, load.generation = t.generation, load.phase # "sorting"
        PROVE  LoadTrue(t, next, load)
    <3>1. LoadTrue(s, st, load)
      BY <1>1, <2>1, <2>2 DEF AllTrue
    <3>2. load.phase = "answered" => PageTrue(load.page, t.touched, next, spec, load.cursor)
      <4>. SUFFICES ASSUME load.phase = "answered" PROVE PageTrue(load.page, t.touched, next, spec, load.cursor)
        OBVIOUS
      <4>1. PageTrue(load.page, s.touched, st, spec, load.cursor)
        BY <3>1 DEF LoadTrue
      <4>2. load.page.rows \in Rows
        BY <1>1, <1>2, <2>2 DEF LoadsTrue, LoadType
      <4>. HIDE DEF spec
      <4>. QED BY <4>1, <4>2, PageChanged
    <3>. QED BY <1>1, <1>3, <1>4, <3>1, <3>2 DEF LoadTrue
  <2>. QED BY <1>1, <1>3, <1>4, <2>1, <2>2 DEF AllTrue
<1>. QED BY <1>5, <1>6, <1>7 DEF ScreenTrue, ScreenKnown

\* Values that a task may have.
LEMMA InitialValues ==
  ASSUME NEW v \in {Initial[w] : w \in TaskSet}
  PROVE  v \in Values
BY TableAssumption DEF Values

\* What is stored, when one task changes.
LEMMA StoredChanged ==
  ASSUME NEW st \in Stored, NEW u \in TaskSet, NEW v \in Values \cup {None}
  PROVE  [st EXCEPT ![u] = v] \in Stored /\ \A w \in TaskSet : w # u => [st EXCEPT ![u] = v][w] = st[w]
BY DEF Stored

\* Somebody else changes or deletes a task.
LEMMA UpdatingKeeps ==
  ASSUME TableInv, NEW u \in TaskSet, UpdateTask(u)
  PROVE  TableInv'
<1>. DEFINE t == [screen EXCEPT !.touched = @ \cup {u}]
<1>0. /\ ScreenTrue(screen, stored_tasks) /\ EditTrue(screen) /\ DOMAIN screen = Fields
      /\ stored_tasks \in Stored /\ screen.rows \in Rows /\ screen.grid \in Rows \cup {None}
      /\ screen.editing \in BOOLEAN
  BY DEF TableInv, ScreenTrue, ScreenKnown, ScreenType
<1>1. PICK v \in {Initial[w] : w \in TaskSet} \cup {None} : stored_tasks' = [stored_tasks EXCEPT ![u] = v]
  BY DEF UpdateTask
<1>2. stored_tasks' \in Stored /\ \A w \in TaskSet : w # u => stored_tasks'[w] = stored_tasks[w]
  <2>1. v \in Values \cup {None}
    BY InitialValues
  <2>. DEFINE new == [stored_tasks EXCEPT ![u] = v]
  <2>2. new \in Stored
    BY <1>0, <2>1, StoredChanged
  <2>3. \A w \in TaskSet : w # u => new[w] = stored_tasks[w]
    BY <1>0, <2>1, StoredChanged
  <2>4. stored_tasks' = new
    BY <1>1
  <2>. HIDE DEF new
  <2>. QED BY <2>2, <2>3, <2>4
<1>3. screen' = t
  BY DEF UpdateTask
<1>4. Same(screen, t, Fields \ {"touched"}) /\ t.touched = screen.touched \cup {u}
  BY <1>0 DEF Same, Fields
<1>. HIDE DEF t
<1>5. Same(screen, t, Fields \ {"rows", "grid", "touched", "editing"})
  BY <1>4 DEF Same
<1>6. /\ t.rows = screen.rows /\ t.grid = screen.grid /\ t.editing = screen.editing /\ t.view = screen.view
      /\ t.left = screen.left /\ t.allComplete = screen.allComplete
  BY <1>4 DEF Same, Fields
<1>7. Changes(screen.rows, t.rows, u)
  BY <1>6 DEF Changes
<1>8. ScreenTrue(t, stored_tasks')
  BY <1>0, <1>2, <1>4, <1>5, <1>6, <1>7, TaskChanged
<1>9. EditTrue(t)
  BY <1>0, <1>6 DEF EditTrue
<1>. QED BY <1>2, <1>3, <1>8, <1>9 DEF TableInv

\* An edit is saved, and what it put off follows.
LEMMA SavingKeeps ==
  ASSUME TableInv, NEW u \in TaskSet, SaveEdit(u)
  PROVE  TableInv' /\ screen'.editing = FALSE
<1>0. /\ ScreenTrue(screen, stored_tasks) /\ EditTrue(screen) /\ DOMAIN screen = Fields
      /\ stored_tasks \in Stored /\ screen.rows \in Rows /\ screen.grid \in Rows \cup {None}
  BY DEF TableInv, ScreenTrue, ScreenKnown, ScreenType
<1>. DEFINE saved(v, rows) == [i \in DOMAIN rows |-> IF rows[i].uid = u THEN [uid |-> u, values |-> v] ELSE rows[i]]
            d(v) == [screen EXCEPT !.editing = FALSE, !.rows = saved(v, @), !.grid = saved(v, @),
                                   !.touched = @ \cup {u}]
<1>1. PICK v \in {Initial[w] : w \in TaskSet} :
        stored_tasks' = [stored_tasks EXCEPT ![u] = v] /\ screen' = FlushDeferred(d(v))
  BY DEF SaveEdit
<1>2. stored_tasks' \in Stored /\ \A w \in TaskSet : w # u => stored_tasks'[w] = stored_tasks[w]
  <2>1. v \in Values \cup {None}
    BY InitialValues
  <2>. DEFINE new == [stored_tasks EXCEPT ![u] = v]
  <2>2. new \in Stored
    BY <1>0, <2>1, StoredChanged
  <2>3. \A w \in TaskSet : w # u => new[w] = stored_tasks[w]
    BY <1>0, <2>1, StoredChanged
  <2>4. stored_tasks' = new
    BY <1>1
  <2>. HIDE DEF new
  <2>. QED BY <2>2, <2>3, <2>4
<1>3. v \in Values /\ screen.grid \in Rows
  BY <1>0, <1>1, InitialValues DEF SaveEdit, EditTrue
<1>. DEFINE rows == saved(v, screen.rows)
            grid == saved(v, screen.grid)
            t == d(v)
<1>4. ASSUME NEW list \in Rows
      PROVE  saved(v, list) \in Rows /\ Changes(list, saved(v, list), u)
  <2>1. /\ Len(list) \in Nat /\ DOMAIN list = 1 .. Len(list)
        /\ \A i \in DOMAIN list : list[i] \in TaskRow
    BY RowsIndexes
  <2>. DEFINE new == saved(v, list)
              row == [uid |-> u, values |-> v]
  <2>2. row \in TaskRow /\ row.uid = u
    BY <1>3 DEF TaskRow
  <2>. HIDE DEF row
  <2>3. new = [i \in 1 .. Len(list) |-> IF list[i].uid = u THEN row ELSE list[i]]
    BY <2>1 DEF row
  <2>. HIDE DEF new
  <2>4. \A i \in DOMAIN list : new[i] \in TaskRow /\ new[i].uid = list[i].uid /\ (list[i].uid # u => new[i] = list[i])
    BY <2>1, <2>2, <2>3
  <2>5. new \in Rows
    BY <2>1, <2>2, <2>3 DEF Rows
  <2>6. Changes(list, new, u)
    BY <2>1, <2>3, <2>4 DEF Changes
  <2>. QED BY <2>5, <2>6 DEF new
<1>5. rows \in Rows /\ grid \in Rows /\ Changes(screen.rows, rows, u) /\ (screen.grid = screen.rows => grid = rows)
  BY <1>0, <1>3, <1>4
<1>6. t = [screen EXCEPT !.editing = FALSE, !.rows = rows, !.grid = grid, !.touched = @ \cup {u}]
  OBVIOUS
<1>. HIDE DEF rows, grid, d
<1>7. /\ Same(screen, t, Fields \ {"rows", "grid", "touched", "editing"}) /\ t.rows = rows /\ t.grid = grid
      /\ t.touched = screen.touched \cup {u} /\ t.editing = FALSE
  BY <1>0, <1>6 DEF Same, Fields
<1>. HIDE DEF t
<1>8. grid # None /\ screen.grid # None
  BY <1>3, <1>5, NoneIsNoRow
<1>9. t.editing \in BOOLEAN
  BY <1>7
<1>10. ScreenTrue(t, stored_tasks')
  BY <1>0, <1>2, <1>5, <1>7, <1>8, <1>9, TaskChanged
<1>11. /\ ScreenTrue(FlushDeferred(t), stored_tasks') /\ EditTrue(FlushDeferred(t))
       /\ FlushDeferred(t).editing = FALSE
  BY <1>2, <1>7, <1>10, FlushDeferredTrue
<1>12. screen' = FlushDeferred(t)
  BY <1>1 DEF t
<1>. QED BY <1>2, <1>11, <1>12 DEF TableInv

-----------------------------------------------------------------------------
(* The theorems of the table.                                              *)

\* The screen opens with what is known of it.
LEMMA OpeningIsTrue == TableInit => TableInv
<1>. SUFFICES ASSUME TableInit PROVE TableInv
  OBVIOUS
<1>1. PICK spec \in SortSpecs, all \in BOOLEAN : screen = LoadPage(NewScreen(spec, all), FALSE)
  BY DEF TableInit
<1>. DEFINE s == NewScreen(spec, all)
<1>2. /\ DOMAIN s = Fields /\ s.view = [sorts |-> spec, all |-> all, cursor |-> None] /\ s.back = <<>>
      /\ s.next = None /\ s.rows = <<>> /\ s.grid = None /\ s.rendered = None
      /\ s.allIdentity = None /\ s.allCursor = None /\ s.generation = 0 /\ s.loads = {}
      /\ s.deferredSorts = None
  BY DEF NewScreen, Fields
<1>3. s.allComplete = FALSE /\ s.editing = FALSE /\ s.deferredReload = FALSE /\ s.left = FALSE
  BY DEF NewScreen
<1>. HIDE DEF s
<1>4. s.view \in View /\ s.view.cursor = None
  BY <1>2 DEF View, Cursor
<1>5. s.rows \in Rows /\ Distinct(s.rows) /\ s.back \in Seq(Cursor)
  BY <1>2 DEF Rows, Distinct
<1>6. ScreenType(s)
  <2>1. /\ s.next \in Cursor /\ s.allCursor \in Cursor /\ s.generation \in Nat
        /\ s.grid \in Rows \cup {None} /\ s.rendered \in View \cup {None}
        /\ s.allIdentity \in View \cup {None} /\ s.deferredSorts \in SortSpecs \cup {None}
    BY <1>2 DEF Cursor
  <2>2. s.allComplete \in BOOLEAN /\ s.editing \in BOOLEAN /\ s.deferredReload \in BOOLEAN /\ s.left \in BOOLEAN
    BY <1>3
  <2>. QED BY <1>2, <1>4, <1>5, <2>1, <2>2 DEF ScreenType
<1>7. ScreenTrue(LoadPage(s, FALSE), stored_tasks) /\ EditTrue(LoadPage(s, FALSE))
  BY <1>2, <1>3, <1>6, LoadPageTrue
<1>8. stored_tasks \in Stored
  BY TableAssumption DEF TableInit, Stored, Values
<1>. QED BY <1>1, <1>7, <1>8 DEF TableInv, s

\* Every step keeps what is known.
LEMMA TableStep == TableInv /\ [TableNext]_tableVars => TableInv'
<1>. SUFFICES ASSUME TableInv, [TableNext]_tableVars PROVE TableInv'
  OBVIOUS
<1>1. CASE UNCHANGED tableVars
  BY <1>1 DEF TableInv, tableVars
<1>2. CASE RefreshPage \/ RetryLoading \/ CancelLoading
  BY <1>2, LoadingKeeps
<1>3. CASE SetPageSize \/ NextPage \/ PreviousPage
  BY <1>3, PagingKeeps
<1>4. CASE (\E sorts \in SortSpecs : PressSort(sorts)) \/ BeginEdit \/ EndEdit
  BY <1>4, EditingKeeps, EndingKeeps
<1>5. ASSUME NEW load \in screen.loads,
             Serve(load) \/ FailLoad(load) \/ DropAnswer(load) \/ ShowAnswer(load)
               \/ FinishDrawing(load) \/ FinishSorting(load)
      PROVE  TableInv'
  BY <1>5, ServingKeeps, DroppingKeeps, AnswerKeeps, DrawingKeeps, SortingKeeps
<1>6. ASSUME NEW u \in TaskSet, UpdateTask(u) \/ SaveEdit(u) PROVE TableInv'
  BY <1>6, UpdatingKeeps, SavingKeeps
<1>. QED BY <1>1, <1>2, <1>3, <1>4, <1>5, <1>6 DEF TableNext

\* What is known of the table is true in every state: the rows of a view of all
\* rows are the first of the view's order, up to the cursor its load goes on
\* behind, and one load at most is of the present generation.  (main.ts:583)
THEOREM TableIsKnown == TableSpec => []TableInv
<1>. QED BY OpeningIsTrue, TableStep, PTL DEF TableSpec

\* A table that is known shows all rows, if it says so.
LEMMA KnownShowsAll == TableInv => AllRowsAreShown
<1>. SUFFICES ASSUME TableInv, SaysAllLoaded, ~screen.left PROVE ShowsAllRows
  BY DEF AllRowsAreShown
<1>. DEFINE rows == screen.rows
<1>1. ScreenKnown(screen, stored_tasks) /\ ScreenType(screen) /\ rows \in Rows /\ Distinct(rows)
  BY DEF TableInv, ScreenTrue, ScreenKnown, ScreenType
<1>2. screen.allIdentity # None
  <2>1. screen.view \in View
    BY <1>1 DEF ScreenType
  <2>2. Identity(screen.view) = screen.view
    BY <2>1, ViewIdentity
  <2>. QED BY <1>1, <2>1, <2>2, AllIsSome DEF SaysAllLoaded, ScreenType
<1>3. AllTrue(screen, stored_tasks) /\ screen.allComplete
  BY <1>1, <1>2 DEF ScreenKnown, SaysAllLoaded
<1>4. /\ screen.grid = rows /\ UpTo(rows, screen.touched, stored_tasks, screen.view.sorts, None)
      /\ RowsTrue(rows, screen.touched, stored_tasks, screen.view.sorts)
  BY <1>3 DEF AllTrue
<1>5. DOMAIN rows = 1 .. Len(rows) /\ DOMAIN rows \subseteq Nat
  BY <1>1, RowsIndexes
<1>. HIDE DEF rows
<1>6. ASSUME NEW i \in 1 .. Len(rows), NEW j \in 1 .. Len(rows), i < j PROVE rows[i].uid # rows[j].uid
  <2>1. i # j
    BY <1>5, <1>6
  <2>. QED BY <1>1, <1>5, <2>1 DEF Distinct
<1>7. ASSUME NEW i \in 1 .. Len(rows), NEW j \in 1 .. Len(rows), i < j,
             rows[i].uid \notin screen.touched, rows[j].uid \notin screen.touched
      PROVE  Precedes(screen.view.sorts, rows[i], rows[j])
  BY <1>4, <1>5, <1>7 DEF RowsTrue
<1>8. ASSUME NEW u \in TaskSet \ screen.touched, stored_tasks[u] # None
      PROVE  \E i \in 1 .. Len(rows) : rows[i] = [uid |-> u, values |-> stored_tasks[u]]
  <2>1. u \in Still(screen.touched, stored_tasks)
    BY <1>8 DEF Still
  <2>2. Holds(rows, RowOf(stored_tasks, u))
    BY <1>4, <2>1 DEF UpTo
  <2>. QED BY <1>5, <2>2 DEF Holds, RowOf
<1>. QED BY <1>4, <1>6, <1>7, <1>8 DEF ShowsAllRows, rows

\* "All rows loaded" is true, for any tasks, sort orders and sizes of a page,
\* but for the view of all rows that was left and is not loaded again yet: there
\* the code says so over one page (LoadedIsWhole).  (main.ts:652)
THEOREM AllRowsShown == TableSpec => []AllRowsAreShown
<1>. QED BY TableIsKnown, KnownShowsAll, PTL

-----------------------------------------------------------------------------
(* What is edited stays.                                                   *)

RowsStay(s) == s.rows = screen.rows /\ s.grid = screen.grid

\* No load takes rows away while a cell is edited.
LEMMA LoadPageStays ==
  ASSUME NEW s, DOMAIN s = Fields, s.editing, RowsStay(s), NEW resume
  PROVE  RowsStay(LoadPage(s, resume))
<1>. DEFINE t == LoadPage(s, resume)
<1>1. Same(s, t, Fields \ {"generation", "deferredReload"})
  BY LoadPagePutOff
<1>. HIDE DEF t
<1>2. t.rows = s.rows /\ t.grid = s.grid
  BY <1>1 DEF Same, Fields
<1>. QED BY <1>2 DEF RowsStay, t

\* A load that goes on changes no row.
LEMMA GoOnStays ==
  ASSUME NEW s, DOMAIN s = Fields, RowsStay(s), NEW load
  PROVE  RowsStay(GoOn(s, load))
<1>. DEFINE received == [s EXCEPT !.next = load.page.cursor]
            more == load.page.cursor # None
            loads == IF ~more THEN received.loads
                     ELSE received.loads \cup {[load EXCEPT !.phase = "asked", !.first = FALSE, !.page = None,
                                                  !.cursor = load.page.cursor]}
            t == [received EXCEPT !.allCursor = load.page.cursor, !.allComplete = ~more, !.loads = loads]
<1>1. DOMAIN received = Fields /\ received.rows = s.rows /\ received.grid = s.grid
  BY DEF Fields
<1>. HIDE DEF loads, more
<1>2. GoOn(s, load) = IF ~load.identity.all THEN received ELSE t
  BY DEF GoOn, loads, more
<1>. HIDE DEF received
<1>3. t.rows = s.rows /\ t.grid = s.grid
  BY <1>1 DEF Fields
<1>. HIDE DEF t
<1>. QED BY <1>1, <1>2, <1>3 DEF RowsStay

\* A step while a cell is edited changes no row, unless the edit ends.
LEMMA EditedRowsStep ==
  ASSUME TableInv, [TableNext]_tableVars, screen.editing, screen'.editing
  PROVE  screen'.rows = screen.rows /\ screen'.grid = screen.grid
<1>0. /\ ScreenTrue(screen, stored_tasks) /\ DOMAIN screen = Fields /\ stored_tasks \in Stored
      /\ RowsStay(screen)
  BY DEF TableInv, ScreenTrue, ScreenKnown, ScreenType, RowsStay
<1>. SUFFICES RowsStay(screen')
  BY DEF RowsStay
<1>1. CASE UNCHANGED tableVars
  BY <1>0, <1>1 DEF tableVars
<1>2. CASE RefreshPage \/ RetryLoading
  BY <1>0, <1>2, LoadPageStays DEF RefreshPage, RetryLoading, Shows
<1>3. CASE CancelLoading
  <2>. DEFINE t == CancelLoad(screen)
  <2>1. Same(screen, t, Fields \ {"generation"})
    BY <1>0, CancelFields
  <2>2. screen' = t
    BY <1>3 DEF CancelLoading, Shows
  <2>. HIDE DEF t
  <2>. QED BY <2>1, <2>2 DEF Same, Fields, RowsStay
<1>4. CASE SetPageSize
  <2>. DEFINE v == [screen EXCEPT !.view = [@ EXCEPT !.all = ~@, !.cursor = None], !.back = <<>>,
                       !.left = @ \/ screen.view.all]
  <2>1. DOMAIN v = Fields /\ v.editing = screen.editing /\ RowsStay(v)
    BY <1>0 DEF Fields, RowsStay
  <2>2. screen' = LoadPage(v, FALSE)
    BY <1>4 DEF SetPageSize, Shows
  <2>. HIDE DEF v
  <2>. QED BY <2>1, <2>2, LoadPageStays
<1>5. CASE NextPage
  <2>. DEFINE v == [screen EXCEPT !.back = Append(@, screen.view.cursor), !.view.cursor = screen.next]
  <2>1. DOMAIN v = Fields /\ v.editing = screen.editing /\ RowsStay(v)
    BY <1>0 DEF Fields, RowsStay
  <2>2. screen' = LoadPage(v, FALSE)
    BY <1>5 DEF NextPage, Shows
  <2>. HIDE DEF v
  <2>. QED BY <2>1, <2>2, LoadPageStays
<1>6. CASE PreviousPage
  <2>. DEFINE v == [screen EXCEPT !.view.cursor = screen.back[Len(screen.back)],
                       !.back = SubSeq(@, 1, Len(@) - 1)]
  <2>1. DOMAIN v = Fields /\ v.editing = screen.editing /\ RowsStay(v)
    BY <1>0 DEF Fields, RowsStay
  <2>2. screen' = LoadPage(v, FALSE)
    BY <1>6 DEF PreviousPage, Shows
  <2>. HIDE DEF v
  <2>. QED BY <2>1, <2>2, LoadPageStays
<1>7. ASSUME NEW sorts \in SortSpecs, PressSort(sorts) PROVE RowsStay(screen')
  <2>1. screen' = [screen EXCEPT !.deferredSorts = sorts]
    BY <1>7 DEF PressSort, Shows, ChangeSorts
  <2>. QED BY <1>0, <2>1 DEF Fields, RowsStay
<1>8. CASE BeginEdit
  BY <1>8 DEF BeginEdit
<1>9. CASE EndEdit
  BY <1>9, EndingKeeps
<1>10. ASSUME NEW u \in TaskSet, SaveEdit(u) PROVE FALSE
  BY <1>10, SavingKeeps
<1>11. ASSUME NEW u \in TaskSet, UpdateTask(u) PROVE RowsStay(screen')
  <2>1. screen' = [screen EXCEPT !.touched = @ \cup {u}]
    BY <1>11 DEF UpdateTask
  <2>. QED BY <1>0, <2>1 DEF Fields, RowsStay
<1>12. ASSUME NEW load \in screen.loads,
              Serve(load) \/ FailLoad(load) \/ DropAnswer(load) \/ FinishDrawing(load) \/ FinishSorting(load)
       PROVE  RowsStay(screen')
  <2>. DEFINE w == Without(load)
  <2>1. DOMAIN w = Fields /\ RowsStay(w)
    BY <1>0 DEF Without, Fields, RowsStay
  <2>2. CASE FailLoad(load)
    BY <2>1, <2>2 DEF FailLoad, Shows
  <2>. HIDE DEF w
  <2>3. ASSUME NEW loads PROVE RowsStay([w EXCEPT !.loads = loads])
    BY <2>1 DEF Fields, RowsStay
  <2>4. CASE Serve(load)
    BY <2>3, <2>4 DEF Serve, Shows, w
  <2>5. ASSUME NEW x PROVE RowsStay([w EXCEPT !.deferredReload = x]) /\ RowsStay([w EXCEPT !.rendered = x])
    BY <2>1 DEF Fields, RowsStay
  <2>6. CASE DropAnswer(load)
    BY <2>1, <2>5, <2>6 DEF DropAnswer, Shows, w
  <2>7. CASE FinishSorting(load)
    BY <2>1, <2>5, <2>7 DEF FinishSorting, Shows, w
  <2>8. CASE FinishDrawing(load)
    <3>. DEFINE d == [w EXCEPT !.rendered = load.identity]
    <3>1. DOMAIN d = Fields /\ RowsStay(d)
      BY <2>1, <2>5
    <3>2. screen' = w \/ screen' = GoOn(d, load)
      BY <2>8 DEF FinishDrawing, Shows, w
    <3>. HIDE DEF d
    <3>. QED BY <2>1, <3>1, <3>2, GoOnStays
  <2>. QED BY <1>12, <2>2, <2>4, <2>6, <2>7, <2>8
<1>13. ASSUME NEW load \in screen.loads, ShowAnswer(load) PROVE FALSE
  BY <1>13 DEF ShowAnswer, Undisturbed
<1>. QED BY <1>1, <1>2, <1>3, <1>4, <1>5, <1>6, <1>7, <1>8, <1>9, <1>10, <1>11, <1>12, <1>13 DEF TableNext

\* No load, sort or deferred refresh takes rows away under an editor.
\* (main.ts:697)
THEOREM RowsStayUnderEdit == TableSpec => EditedRowsStay
<1>1. TableInv /\ [TableNext]_tableVars =>
        [screen.editing /\ screen'.editing => screen'.rows = screen.rows /\ screen'.grid = screen.grid]_tableVars
  BY EditedRowsStep
<1>. QED BY <1>1, TableIsKnown, PTL DEF TableSpec, EditedRowsStay

-----------------------------------------------------------------------------
(* The types of the table, and how often it is loaded.                     *)

\* Edits that were saved or discarded.
Ended(s) == IF s.editing THEN s.edits - 1 ELSE s.edits

\* Loads and sorts of an administrator end with the last generation allowed,
\* but a sort may pass it by one; an edit that ends adds two at most.
Spent(s) ==
  /\ s.edits \in 0 .. MaxEdits /\ (s.editing => s.edits > 0)
  /\ s.generation \in 1 .. MaxLoads + 1 + 2 * Ended(s)
  /\ s.touched \subseteq TaskSet

\* A change of the screen that begins n generations at most, and no edit.
Begins(s, t, n) ==
  /\ t.edits = s.edits /\ t.editing = s.editing /\ t.touched \in {s.touched, {}}
  /\ t.generation \in s.generation .. s.generation + n

\* What a load needs of the screen.
Loadable(s) ==
  /\ DOMAIN s = Fields /\ s.generation \in Nat /\ s.view \in View
  /\ s.deferredSorts \in SortSpecs \cup {None}

\* One generation after one at most are two at most.
LEMMA BeginsOnce ==
  ASSUME NEW s, NEW c, NEW t, s.generation \in Nat, Begins(c, t, 1),
         c.edits = s.edits, c.editing = s.editing, c.touched = s.touched,
         c.generation \in s.generation .. s.generation + 1
  PROVE  Begins(s, t, 2)
<1>1. t.generation \in s.generation .. s.generation + 2
  BY DEF Begins
<1>. QED BY <1>1 DEF Begins

\* loadPage begins one, though it may be put off,
LEMMA LoadPageBegins ==
  ASSUME NEW s, Loadable(s), NEW resume
  PROVE  Begins(s, LoadPage(s, resume), 1)
<1>. DEFINE t == LoadPage(s, resume)
<1>. USE DEF Loadable
<1>1. CASE s.editing
  <2>1. Same(s, t, Fields \ {"generation", "deferredReload"}) /\ t.generation = s.generation + 1
    BY <1>1, LoadPagePutOff
  <2>. HIDE DEF t
  <2>2. t.edits = s.edits /\ t.editing = s.editing /\ t.touched = s.touched
    BY <2>1 DEF Same, Fields
  <2>3. t.generation \in s.generation .. s.generation + 1
    BY <2>1
  <2>. QED BY <2>2, <2>3 DEF Begins, t
<1>2. CASE ~s.editing
  <2>1. /\ Same(s, t, {"next", "grid", "rendered", "editing", "edits"}) /\ t.generation = s.generation + 1
        /\ Same(s, t, {"rows", "allIdentity", "allCursor", "allComplete", "touched", "left"}) \/ t.touched = {}
    BY <1>2, LoadPageFields
  <2>. HIDE DEF t
  <2>2. t.edits = s.edits /\ t.editing = s.editing /\ t.touched \in {s.touched, {}}
    BY <2>1 DEF Same
  <2>3. t.generation \in s.generation .. s.generation + 1
    BY <2>1
  <2>. QED BY <2>2, <2>3 DEF Begins, t
<1>. QED BY <1>1, <1>2

\* changeSorts one, and one more if the rows are loaded anew,
LEMMA ChangeSortsBegins ==
  ASSUME NEW s, Loadable(s), NEW sorts \in SortSpecs
  PROVE  Begins(s, ChangeSorts(s, sorts), 2)
<1>. DEFINE c == [CancelLoad(s) EXCEPT !.view = [@ EXCEPT !.sorts = sorts, !.cursor = None], !.back = <<>>]
            sorted == Ordered(sorts, Range(s.rows))
            sorting == [phase |-> "sorting", generation |-> c.generation]
            t == ChangeSorts(s, sorts)
<1>1. /\ DOMAIN s = Fields /\ s.view \in View /\ s.generation \in Nat
      /\ s.deferredSorts \in SortSpecs \cup {None}
  BY DEF Loadable
<1>2. CASE s.editing
  <2>. DEFINE d == [s EXCEPT !.deferredSorts = sorts]
  <2>1. t = d
    BY <1>2 DEF ChangeSorts
  <2>. HIDE DEF t
  <2>2. d.edits = s.edits /\ d.editing = s.editing /\ d.touched = s.touched /\ d.generation = s.generation
    BY <1>1 DEF Fields
  <2>. HIDE DEF d
  <2>3. Begins(s, d, 2)
    BY <1>1, <2>2 DEF Begins
  <2>. QED BY <2>1, <2>3 DEF t
<1>3. CASE ~s.editing
  <2>1. DOMAIN c = Fields /\ c.edits = s.edits /\ c.editing = s.editing /\ c.touched = s.touched
    BY <1>1 DEF CancelLoad, Fields
  <2>2. c.deferredSorts = s.deferredSorts /\ c.generation = s.generation + 1
    BY <1>1 DEF CancelLoad, Fields
  <2>3. c.view \in View
    BY <1>1 DEF CancelLoad, Fields, View, Cursor
  <2>4. \/ t = LoadPage(c, FALSE)
        \/ t = [c EXCEPT !.allIdentity = Identity(c.view), !.rows = sorted, !.grid = sorted,
                         !.loads = @ \cup {sorting}]
    BY <1>3 DEF ChangeSorts
  <2>. DEFINE identity == Identity(c.view)
              d == [c EXCEPT !.allIdentity = identity, !.rows = sorted, !.grid = sorted, !.loads = @ \cup {sorting}]
  <2>. HIDE DEF c, sorted, sorting, identity, t
  <2>5. CASE t = LoadPage(c, FALSE)
    <3>1. c.generation \in Nat /\ c.generation \in s.generation .. s.generation + 1
      BY <1>1, <2>2
    <3>2. Begins(c, LoadPage(c, FALSE), 1)
      BY <1>1, <2>1, <2>2, <2>3, <3>1, LoadPageBegins DEF Loadable
    <3>. QED BY <1>1, <2>1, <2>5, <3>1, <3>2, BeginsOnce DEF t
  <2>6. CASE t = d
    <3>1. d.edits = c.edits /\ d.editing = c.editing /\ d.touched = c.touched /\ d.generation = c.generation
      BY <2>1 DEF Fields
    <3>. HIDE DEF d
    <3>. QED BY <1>1, <2>1, <2>2, <2>6, <3>1 DEF Begins, t
  <2>. QED BY <2>4, <2>5, <2>6 DEF identity
<1>. QED BY <1>2, <1>3

\* and so does flushDeferred.
LEMMA FlushDeferredBegins ==
  ASSUME NEW s, Loadable(s)
  PROVE  Begins(s, FlushDeferred(s), 2)
<1>1. /\ DOMAIN s = Fields /\ s.view \in View /\ s.generation \in Nat
      /\ s.deferredSorts \in SortSpecs \cup {None}
  BY DEF Loadable
<1>2. CASE s.deferredSorts # None
  <2>. DEFINE d == [s EXCEPT !.deferredSorts = None, !.deferredReload = FALSE]
  <2>1. FlushDeferred(s) = ChangeSorts(d, s.deferredSorts)
    BY <1>2 DEF FlushDeferred
  <2>2. /\ Same(s, d, Fields \ {"deferredSorts", "deferredReload"})
        /\ d.deferredSorts = None /\ d.deferredReload = FALSE
    BY <1>1 DEF Same, Fields
  <2>. HIDE DEF d
  <2>3. d.edits = s.edits /\ d.editing = s.editing /\ d.touched = s.touched /\ d.generation = s.generation
    BY <2>2 DEF Same, Fields
  <2>4. Loadable(d)
    BY <1>1, <2>2 DEF Loadable, Same, Fields
  <2>5. Begins(d, ChangeSorts(d, s.deferredSorts), 2)
    BY <1>1, <1>2, <2>4, ChangeSortsBegins
  <2>. QED BY <2>1, <2>3, <2>5 DEF Begins
<1>3. CASE s.deferredSorts = None /\ s.deferredReload
  <2>. DEFINE d == [s EXCEPT !.deferredReload = FALSE]
  <2>1. FlushDeferred(s) = LoadPage(d, FALSE)
    BY <1>3 DEF FlushDeferred
  <2>2. /\ DOMAIN d = Fields /\ d.view = s.view /\ d.deferredSorts = s.deferredSorts
        /\ d.edits = s.edits /\ d.editing = s.editing /\ d.touched = s.touched /\ d.generation = s.generation
    BY <1>1 DEF Fields
  <2>. HIDE DEF d
  <2>3. Begins(d, LoadPage(d, FALSE), 1)
    BY <1>1, <2>2, LoadPageBegins DEF Loadable
  <2>4. d.generation \in s.generation .. s.generation + 1
    BY <1>1, <2>2
  <2>. QED BY <1>1, <2>1, <2>2, <2>3, <2>4, BeginsOnce
<1>4. CASE s.deferredSorts = None /\ ~s.deferredReload
  <2>1. FlushDeferred(s) = s
    BY <1>4 DEF FlushDeferred
  <2>2. Begins(s, s, 2)
    BY <1>1 DEF Begins
  <2>. QED BY <2>1, <2>2
<1>. QED BY <1>2, <1>3, <1>4

\* A load that goes on begins none.
LEMMA GoOnBegins ==
  ASSUME NEW s, DOMAIN s = Fields, s.generation \in Nat, NEW load
  PROVE  Begins(s, GoOn(s, load), 0)
<1>. DEFINE received == [s EXCEPT !.next = load.page.cursor]
            more == load.page.cursor # None
            loads == IF ~more THEN received.loads
                     ELSE received.loads \cup {[load EXCEPT !.phase = "asked", !.first = FALSE, !.page = None,
                                                  !.cursor = load.page.cursor]}
            t == [received EXCEPT !.allCursor = load.page.cursor, !.allComplete = ~more, !.loads = loads]
<1>1. /\ DOMAIN received = Fields /\ received.edits = s.edits /\ received.editing = s.editing
      /\ received.touched = s.touched /\ received.generation = s.generation
  BY DEF Fields
<1>. HIDE DEF loads, more
<1>2. GoOn(s, load) = IF ~load.identity.all THEN received ELSE t
  BY DEF GoOn, loads, more
<1>. HIDE DEF received
<1>3. t.edits = s.edits /\ t.editing = s.editing /\ t.touched = s.touched /\ t.generation = s.generation
  BY <1>1 DEF Fields
<1>. HIDE DEF t
<1>4. LET g == GoOn(s, load)
      IN  g.edits = s.edits /\ g.editing = s.editing /\ g.touched = s.touched /\ g.generation = s.generation
  BY <1>1, <1>2, <1>3
<1>. QED BY <1>4 DEF Begins

\* What is spent on a load or a sort,
LEMMA SpentOnLoad ==
  ASSUME NEW s, NEW t, Spent(s), Begins(s, t, 2), s.generation < MaxLoads \/ t.generation = s.generation
  PROVE  Spent(t)
<1>1. MaxLoads \in Nat /\ MaxEdits \in Nat /\ s.edits \in Nat /\ Ended(s) \in Nat
  BY TableAssumption DEF Spent, Ended
<1>2. Ended(t) = Ended(s)
  BY DEF Begins, Ended
<1>3. s.generation \in Nat /\ t.generation \in Nat /\ s.generation <= t.generation /\ t.generation <= s.generation + 2
  BY <1>1 DEF Spent, Begins
<1>4. t.generation \in 1 .. MaxLoads + 1 + 2 * Ended(s)
  BY <1>1, <1>3 DEF Spent
<1>5. t.touched \subseteq TaskSet /\ t.edits = s.edits /\ t.editing = s.editing
  BY DEF Spent, Begins
<1>. QED BY <1>2, <1>4, <1>5 DEF Spent

\* and when an edit ends.
LEMMA SpentOnEdit ==
  ASSUME NEW s, NEW d, NEW t, Spent(s), s.editing,
         d.edits = s.edits, d.editing = FALSE, d.generation = s.generation, d.touched \subseteq TaskSet,
         Begins(d, t, 2)
  PROVE  Spent(t)
<1>1. MaxLoads \in Nat /\ MaxEdits \in Nat /\ s.edits \in Nat /\ s.edits > 0
  BY TableAssumption DEF Spent
<1>2. Ended(s) = s.edits - 1 /\ Ended(t) = s.edits
  BY DEF Begins, Ended
<1>3. /\ s.generation \in Nat /\ t.generation \in Nat /\ s.generation <= t.generation
      /\ t.generation <= s.generation + 2
  BY <1>1, <1>2 DEF Spent, Begins
<1>4. t.generation \in 1 .. MaxLoads + 1 + 2 * Ended(t)
  BY <1>1, <1>2, <1>3 DEF Spent
<1>5. t.touched \subseteq TaskSet /\ t.edits = s.edits /\ t.editing = FALSE
  BY DEF Begins
<1>. QED BY <1>4, <1>5 DEF Spent

\* The screen opens with one load,
LEMMA OpeningIsSpent ==
  ASSUME TableInit, MaxLoads > 0
  PROVE  Spent(screen)
<1>1. PICK spec \in SortSpecs, all \in BOOLEAN : screen = LoadPage(NewScreen(spec, all), FALSE)
  BY DEF TableInit
<1>. DEFINE s == NewScreen(spec, all)
<1>2. /\ DOMAIN s = Fields /\ s.view \in View /\ s.deferredSorts = None /\ s.generation = 0
      /\ s.edits = 0 /\ s.editing = FALSE /\ s.touched = {}
  BY DEF NewScreen, Fields, View, Cursor
<1>3. screen = LoadPage(s, FALSE)
  BY <1>1
<1>. HIDE DEF s
<1>4. screen.generation = 1 /\ screen.editing = FALSE /\ screen.edits = 0
  <2>. DEFINE t == LoadPage(s, FALSE)
  <2>1. Same(s, t, {"next", "grid", "rendered", "editing", "edits"}) /\ t.generation = s.generation + 1
    BY <1>2, LoadPageFields
  <2>. HIDE DEF t
  <2>2. t.editing = s.editing /\ t.edits = s.edits
    BY <2>1 DEF Same
  <2>3. screen = t
    BY <1>3 DEF t
  <2>. QED BY <1>2, <2>1, <2>2, <2>3
<1>5. Begins(s, screen, 1)
  <2>1. Loadable(s)
    BY <1>2 DEF Loadable
  <2>. QED BY <1>3, <2>1, LoadPageBegins
<1>6. screen.touched = {}
  BY <1>2, <1>5 DEF Begins
<1>7. MaxLoads \in Nat /\ MaxEdits \in Nat
  BY TableAssumption
<1>. QED BY <1>4, <1>6, <1>7 DEF Spent, Ended

\* and every step spends what it may.
LEMMA TableSpends ==
  ASSUME TableInv, Spent(screen), [TableNext]_tableVars
  PROVE  Spent(screen')
<1>0. /\ ScreenType(screen) /\ DOMAIN screen = Fields /\ screen.view \in View /\ screen.generation \in Nat
      /\ screen.deferredSorts \in SortSpecs \cup {None} /\ Loadable(screen)
  BY DEF TableInv, ScreenTrue, ScreenKnown, ScreenType, Loadable
<1>1. CASE UNCHANGED tableVars
  BY <1>1 DEF tableVars
<1>2. ASSUME NEW v, DOMAIN v = Fields, v.view \in View, v.deferredSorts = screen.deferredSorts,
             v.edits = screen.edits, v.editing = screen.editing, v.touched = screen.touched,
             v.generation = screen.generation, NEW resume,
             screen.generation < MaxLoads, screen' = LoadPage(v, resume)
      PROVE  Spent(screen')
  <2>1. Begins(v, LoadPage(v, resume), 1)
    BY <1>0, <1>2, LoadPageBegins DEF Loadable
  <2>2. v.generation \in screen.generation .. screen.generation + 1
    BY <1>0, <1>2
  <2>3. Begins(screen, screen', 2)
    BY <1>0, <1>2, <2>1, <2>2, BeginsOnce
  <2>. QED BY <1>2, <2>3, SpentOnLoad
<1>3. CASE RefreshPage \/ RetryLoading
  BY <1>0, <1>2, <1>3 DEF RefreshPage, RetryLoading, MayLoad, Shows
<1>4. CASE CancelLoading
  <2>1. screen.generation < MaxLoads /\ screen' = CancelLoad(screen)
    BY <1>4 DEF CancelLoading, MayLoad, Shows
  <2>2. Same(screen, screen', Fields \ {"generation"}) /\ screen'.generation = screen.generation + 1
    BY <1>0, <2>1, CancelFields
  <2>3. screen'.edits = screen.edits /\ screen'.editing = screen.editing /\ screen'.touched = screen.touched
    BY <2>2 DEF Same, Fields
  <2>4. screen'.generation \in screen.generation .. screen.generation + 2
    BY <1>0, <2>2
  <2>5. Begins(screen, screen', 2)
    BY <2>3, <2>4 DEF Begins
  <2>. QED BY <2>1, <2>5, SpentOnLoad
<1>5. CASE SetPageSize
  <2>. DEFINE v == [screen EXCEPT !.view = [@ EXCEPT !.all = ~@, !.cursor = None], !.back = <<>>,
                       !.left = @ \/ screen.view.all]
  <2>1. v.view \in View
    BY <1>0 DEF View, Cursor, Fields
  <2>2. /\ DOMAIN v = Fields /\ v.deferredSorts = screen.deferredSorts
        /\ v.edits = screen.edits /\ v.editing = screen.editing /\ v.touched = screen.touched
        /\ v.generation = screen.generation
    BY <1>0 DEF Fields
  <2>3. screen.generation < MaxLoads /\ screen' = LoadPage(v, FALSE)
    BY <1>5 DEF SetPageSize, MayLoad, Shows
  <2>. HIDE DEF v
  <2>. QED BY <1>2, <2>1, <2>2, <2>3
<1>6. CASE NextPage
  <2>. DEFINE v == [screen EXCEPT !.back = Append(@, screen.view.cursor), !.view.cursor = screen.next]
  <2>1. v.view \in View
    BY <1>0 DEF ScreenType, View, Fields
  <2>2. /\ DOMAIN v = Fields /\ v.deferredSorts = screen.deferredSorts
        /\ v.edits = screen.edits /\ v.editing = screen.editing /\ v.touched = screen.touched
        /\ v.generation = screen.generation
    BY <1>0 DEF Fields
  <2>3. screen.generation < MaxLoads /\ screen' = LoadPage(v, FALSE)
    BY <1>6 DEF NextPage, MayLoad, Shows
  <2>. HIDE DEF v
  <2>. QED BY <1>2, <2>1, <2>2, <2>3
<1>7. CASE PreviousPage
  <2>. DEFINE last == screen.back[Len(screen.back)]
              v == [screen EXCEPT !.view.cursor = screen.back[Len(screen.back)],
                       !.back = SubSeq(@, 1, Len(@) - 1)]
  <2>1. screen.back # <<>> /\ screen.generation < MaxLoads /\ screen' = LoadPage(v, FALSE)
    BY <1>7 DEF PreviousPage, MayLoad, Shows
  <2>2. last \in Cursor
    <3>1. screen.back \in Seq(Cursor)
      BY <1>0 DEF ScreenType
    <3>. QED BY <2>1, <3>1
  <2>3. v.view = [screen.view EXCEPT !.cursor = last]
    BY <1>0 DEF Fields
  <2>4. /\ DOMAIN v = Fields /\ v.deferredSorts = screen.deferredSorts
        /\ v.edits = screen.edits /\ v.editing = screen.editing /\ v.touched = screen.touched
        /\ v.generation = screen.generation
    BY <1>0 DEF Fields
  <2>. HIDE DEF v, last
  <2>5. v.view \in View
    BY <1>0, <2>2, <2>3 DEF View
  <2>. QED BY <1>2, <2>1, <2>4, <2>5
<1>8. ASSUME NEW sorts \in SortSpecs, PressSort(sorts) PROVE Spent(screen')
  <2>1. screen.generation < MaxLoads /\ screen' = ChangeSorts(screen, sorts)
    BY <1>8 DEF PressSort, MayLoad, Shows
  <2>2. Begins(screen, screen', 2)
    BY <1>0, <2>1, ChangeSortsBegins
  <2>. QED BY <2>1, <2>2, SpentOnLoad
<1>9. CASE BeginEdit
  <2>. DEFINE t == [screen EXCEPT !.editing = TRUE, !.edits = @ + 1]
  <2>1. screen' = t /\ ~screen.editing /\ screen.edits < MaxEdits
    BY <1>9 DEF BeginEdit, Shows
  <2>2. /\ t.editing = TRUE /\ t.edits = screen.edits + 1
        /\ t.generation = screen.generation /\ t.touched = screen.touched
    BY <1>0 DEF Fields
  <2>. HIDE DEF t
  <2>3. MaxEdits \in Nat /\ screen.edits \in Nat
    BY TableAssumption DEF Spent
  <2>4. Ended(t) = Ended(screen) /\ t.edits \in 0 .. MaxEdits /\ t.edits > 0
    BY <2>1, <2>2, <2>3 DEF Ended
  <2>. QED BY <2>1, <2>2, <2>4 DEF Spent
<1>10. CASE EndEdit
  <2>. DEFINE d == [screen EXCEPT !.editing = FALSE]
  <2>1. screen.editing /\ screen' = FlushDeferred(d)
    BY <1>10 DEF EndEdit, Shows
  <2>2. Same(screen, d, Fields \ {"editing"}) /\ d.editing = FALSE
    BY <1>0 DEF Same, Fields
  <2>. HIDE DEF d
  <2>3. d.edits = screen.edits /\ d.generation = screen.generation /\ d.touched = screen.touched
    BY <2>2 DEF Same, Fields
  <2>4. Loadable(d)
    BY <1>0, <2>2 DEF Loadable, Same, Fields
  <2>5. Begins(d, screen', 2) /\ d.touched \subseteq TaskSet
    BY <2>1, <2>3, <2>4, FlushDeferredBegins DEF Spent
  <2>. QED BY <2>1, <2>2, <2>3, <2>5, SpentOnEdit
<1>11. ASSUME NEW u \in TaskSet, UpdateTask(u) PROVE Spent(screen')
  <2>. DEFINE t == [screen EXCEPT !.touched = @ \cup {u}]
  <2>1. screen' = t
    BY <1>11 DEF UpdateTask
  <2>2. /\ t.editing = screen.editing /\ t.edits = screen.edits /\ t.generation = screen.generation
        /\ t.touched = screen.touched \cup {u}
    BY <1>0 DEF Fields
  <2>. HIDE DEF t
  <2>3. Ended(t) = Ended(screen) /\ t.touched \subseteq TaskSet
    BY <2>2 DEF Ended, Spent
  <2>. QED BY <2>1, <2>2, <2>3 DEF Spent
<1>12. ASSUME NEW t, t.edits = screen.edits, t.editing = screen.editing, t.touched = screen.touched,
              t.generation = screen.generation
       PROVE  Spent(t)
  <2>1. Ended(t) = Ended(screen)
    BY <1>12 DEF Ended
  <2>. QED BY <1>12, <2>1 DEF Spent
<1>13. ASSUME NEW load \in screen.loads,
              Serve(load) \/ FailLoad(load) \/ DropAnswer(load) \/ FinishSorting(load)
       PROVE  Spent(screen')
  <2>. DEFINE w == Without(load)
  <2>1. /\ DOMAIN w = Fields /\ w.edits = screen.edits /\ w.editing = screen.editing
        /\ w.touched = screen.touched /\ w.generation = screen.generation
    BY <1>0 DEF Without, Fields
  <2>. HIDE DEF w
  <2>2. ASSUME NEW x
        PROVE  \A t \in {w, [w EXCEPT !.loads = x], [w EXCEPT !.deferredReload = x], [w EXCEPT !.rendered = x]} :
                 /\ t.edits = screen.edits /\ t.editing = screen.editing
                 /\ t.touched = screen.touched /\ t.generation = screen.generation
    BY <2>1 DEF Fields
  <2>3. \E x : screen' \in {w, [w EXCEPT !.loads = x], [w EXCEPT !.deferredReload = x], [w EXCEPT !.rendered = x]}
    <3>1. CASE Serve(load)
      BY <3>1 DEF Serve, Shows, w
    <3>2. CASE FailLoad(load)
      BY <3>2 DEF FailLoad, Shows, w
    <3>3. CASE DropAnswer(load)
      BY <3>3 DEF DropAnswer, Shows, w
    <3>4. CASE FinishSorting(load)
      BY <3>4 DEF FinishSorting, Shows, w
    <3>. QED BY <1>13, <3>1, <3>2, <3>3, <3>4
  <2>. QED BY <1>12, <2>2, <2>3
<1>14. ASSUME NEW s, DOMAIN s = Fields, s.edits = screen.edits, s.editing = screen.editing,
              s.touched = screen.touched, s.generation = screen.generation, NEW load
       PROVE  Spent(GoOn(s, load))
  <2>1. Begins(s, GoOn(s, load), 0)
    BY <1>0, <1>14, GoOnBegins
  <2>2. GoOn(s, load).generation = screen.generation
    BY <1>0, <1>14, <2>1 DEF Begins
  <2>3. Begins(screen, GoOn(s, load), 2)
    BY <1>0, <1>14, <2>1, <2>2 DEF Begins
  <2>. QED BY <2>2, <2>3, SpentOnLoad
<1>15. ASSUME NEW load \in screen.loads, FinishDrawing(load) PROVE Spent(screen')
  <2>. DEFINE w == Without(load)
              d == [w EXCEPT !.rendered = load.identity]
  <2>1. screen' = w \/ screen' = GoOn(d, load)
    BY <1>15 DEF FinishDrawing, Shows
  <2>2. /\ DOMAIN w = Fields /\ w.edits = screen.edits /\ w.editing = screen.editing
        /\ w.touched = screen.touched /\ w.generation = screen.generation
    BY <1>0 DEF Without, Fields
  <2>. HIDE DEF w
  <2>3. /\ DOMAIN d = Fields /\ d.edits = screen.edits /\ d.editing = screen.editing
        /\ d.touched = screen.touched /\ d.generation = screen.generation
    BY <2>2 DEF Fields
  <2>. HIDE DEF d
  <2>. QED BY <1>12, <1>14, <2>1, <2>2, <2>3
<1>16. ASSUME NEW load \in screen.loads, ShowAnswer(load) PROVE Spent(screen')
  <2>1. \E x, y, z :
          \/ screen' = GoOn([Without(load) EXCEPT !.rows = x], load)
          \/ screen' = [[Without(load) EXCEPT !.rows = x] EXCEPT !.grid = y, !.loads = z]
    BY <1>16 DEF ShowAnswer, Shows
  <2>2. PICK x, y, z :
          \/ screen' = GoOn([Without(load) EXCEPT !.rows = x], load)
          \/ screen' = [[Without(load) EXCEPT !.rows = x] EXCEPT !.grid = y, !.loads = z]
    BY <2>1
  <2>. DEFINE s == [Without(load) EXCEPT !.rows = x]
              d == [s EXCEPT !.grid = y, !.loads = z]
  <2>3. /\ DOMAIN s = Fields /\ s.edits = screen.edits /\ s.editing = screen.editing
        /\ s.touched = screen.touched /\ s.generation = screen.generation
    BY <1>0 DEF Without, Fields
  <2>. HIDE DEF s
  <2>4. /\ d.edits = screen.edits /\ d.editing = screen.editing
        /\ d.touched = screen.touched /\ d.generation = screen.generation
    BY <2>3 DEF Fields
  <2>5. screen' = GoOn(s, load) \/ screen' = d
    BY <2>2 DEF s
  <2>. HIDE DEF d
  <2>. QED BY <1>12, <1>14, <2>3, <2>4, <2>5
<1>17. ASSUME NEW u \in TaskSet, SaveEdit(u) PROVE Spent(screen')
  <2>1. PICK x, y : screen.editing /\
          screen' = FlushDeferred([screen EXCEPT !.editing = FALSE, !.rows = x, !.grid = y, !.touched = @ \cup {u}])
    BY <1>17 DEF SaveEdit
  <2>. DEFINE d == [screen EXCEPT !.editing = FALSE, !.rows = x, !.grid = y, !.touched = @ \cup {u}]
  <2>2. /\ DOMAIN d = Fields /\ d.edits = screen.edits /\ d.editing = FALSE /\ d.generation = screen.generation
        /\ d.touched = screen.touched \cup {u} /\ d.view = screen.view
        /\ d.deferredSorts = screen.deferredSorts
    BY <1>0 DEF Fields
  <2>3. screen' = FlushDeferred(d)
    BY <2>1
  <2>. HIDE DEF d
  <2>4. Loadable(d) /\ d.touched \subseteq TaskSet
    BY <1>0, <2>2 DEF Loadable, Spent
  <2>5. Begins(d, screen', 2)
    BY <2>3, <2>4, FlushDeferredBegins
  <2>. QED BY <2>1, <2>2, <2>4, <2>5, SpentOnEdit
<1>. QED BY <1>1, <1>3, <1>4, <1>5, <1>6, <1>7, <1>8, <1>9, <1>10, <1>11, <1>13, <1>15, <1>16, <1>17 DEF TableNext

\* The table has its type, for any tasks and sort orders; and it is loaded and
\* sorted no oftener than its administrator asks: a sort counts for two loads
\* at most, and so does an edit, which may have put off both.  (main.ts:603)
THEOREM TableTypes == ASSUME MaxLoads > 0 PROVE TableSpec => []TableTypeOK
<1>1. TableInit => TableInv /\ Spent(screen)
  BY OpeningIsTrue, OpeningIsSpent
<1>2. TableInv /\ Spent(screen) /\ [TableNext]_tableVars => TableInv' /\ Spent(screen)'
  BY TableStep, TableSpends
<1>3. TableInv /\ Spent(screen) => TableTypeOK
  <2>. SUFFICES ASSUME TableInv, Spent(screen) PROVE TableTypeOK
    OBVIOUS
  <2>1. ScreenType(screen) /\ LoadsTrue(screen) /\ stored_tasks \in Stored
    BY DEF TableInv, ScreenTrue, ScreenKnown
  <2>2. MaxLoads \in Nat /\ MaxEdits \in Nat /\ screen.edits \in 0 .. MaxEdits
    BY TableAssumption DEF Spent
  <2>3. Ended(screen) \in 0 .. MaxEdits /\ screen.generation \in 1 .. MaxLoads + 1 + 2 * Ended(screen)
    BY <2>2 DEF Spent, Ended
  <2>4. screen.generation \in 1 .. 2 * (MaxLoads + MaxEdits)
    BY <2>2, <2>3
  <2>5. screen.view.sorts \in SortSpecs /\ screen.view.all \in BOOLEAN /\ screen.editing \in BOOLEAN
    BY <2>1 DEF ScreenType, View
  <2>6. \A load \in screen.loads : load.generation <= screen.generation
    BY <2>1 DEF LoadsTrue
  <2>7. stored_tasks \in [TaskSet -> [Column -> Int \cup {Null}] \cup {None}]
    BY <2>1 DEF Stored, Values
  <2>. QED BY <2>4, <2>5, <2>6, <2>7 DEF TableTypeOK, Spent
<1>. QED BY <1>1, <1>2, <1>3, PTL DEF TableSpec

-----------------------------------------------------------------------------
(* What is known of a download.                                            *)

Spot == Int \X Int
DownloadFields == {"phase", "kind", "pages", "cursor", "began", "raced"}
SelectionFields == {"history", "order", "left", "expired"}
Pages == Seq(SUBSET Spot)

RowsType ==
  /\ attempts \in [ExportTask -> 0 .. MaxAttempts] /\ records \in SUBSET Place
  /\ DOMAIN selection = SelectionFields /\ selection.expired \in BOOLEAN
  /\ selection.order \in Seq(ExportTask) /\ selection.left \in SUBSET (0 .. Len(selection.order) - 1)

DownloadType ==
  /\ DOMAIN download = DownloadFields /\ download.raced \in BOOLEAN
  /\ download.phase \in {"ready", "asking", "checked", "done", "failed"} /\ download.kind \in {"tasks", "file"}
  /\ download.pages \in Pages /\ download.cursor \in Spot /\ download.began \in SUBSET Spot
  /\ download.phase = "ready" => download.cursor = Start(download.kind).cursor /\ download.pages = <<>>
  /\ download.phase = "checked" => download.kind = "tasks"
  /\ download.kind = "file" => download.cursor[1] \in Table

IsReceived(pages, p) == \E i \in DOMAIN pages : p \in pages[i]

Loading == download.phase \in {"asking", "checked"}

\* The pages are in order, and the cursor is behind them.
PagesOrdered ==
  /\ \A i, j \in DOMAIN download.pages : i < j =>
       \A p \in download.pages[i], q \in download.pages[j] : Before(p, q)
  /\ Loading => \A i \in DOMAIN download.pages : \A p \in download.pages[i] : ~Before(download.cursor, p)

\* A row that was there when the download began is there.  An operation that
\* is not expired has all of its items.
BeganStays ==
  /\ download.phase = "ready" => download.began = {}
  /\ download.phase # "ready" /\ download.kind = "file" => download.began \subseteq records
  /\ download.phase # "ready" /\ download.kind = "tasks" /\ ~selection.expired =>
       download.began \subseteq SelectedRows
  /\ download.phase = "checked" /\ ~download.raced => ~selection.expired

\* It is on a page, or behind the cursor.
BeganIsReceived ==
  ~download.raced => \A p \in download.began :
    /\ Loading => IsReceived(download.pages, p) \/ Before(download.cursor, p)
    /\ download.phase = "done" => IsReceived(download.pages, p)

DownloadInv == RowsType /\ DownloadType /\ PagesOrdered /\ BeganStays /\ BeganIsReceived

\* The order of places.
LEMMA SpotOrder ==
  /\ \A p \in Spot : ~Before(p, p)
  /\ \A p, q \in Spot : p # q => Before(p, q) \/ Before(q, p)
  /\ \A p, q, r \in Spot : Before(p, q) /\ Before(q, r) => Before(p, r)
  /\ \A p, q, r \in Spot : ~Before(q, p) /\ Before(q, r) => Before(p, r)
<1>1. \A p \in Spot : p[1] \in Int /\ p[2] \in Int /\ p = <<p[1], p[2]>>
  BY DEF Spot
<1>2. \A p \in Spot : ~Before(p, p)
  BY <1>1 DEF Before
<1>3. \A p, q, r \in Spot : Before(p, q) /\ Before(q, r) => Before(p, r)
  BY <1>1 DEF Before
<1>4. ASSUME NEW p \in Spot, NEW q \in Spot, p # q PROVE Before(p, q) \/ Before(q, p)
  <2>1. p[1] # q[1] \/ p[2] # q[2]
    BY <1>1, <1>4
  <2>. QED BY <1>1, <2>1 DEF Before
<1>5. ASSUME NEW p \in Spot, NEW q \in Spot, NEW r \in Spot, ~Before(q, p), Before(q, r) PROVE Before(p, r)
  BY <1>3, <1>4, <1>5
<1>. QED BY <1>2, <1>3, <1>4, <1>5

\* A page is the first rows of those found: no more than fit, and all unless
\* it is full.
LEMMA PageIsFirst ==
  ASSUME NEW found \in SUBSET Spot, IsFiniteSet(found)
  PROVE  /\ Page(found) \in SUBSET found
         /\ \A p \in Page(found), q \in found \ Page(found) : Before(p, q)
         /\ Cardinality(Page(found)) # PageRows => Page(found) = found
         /\ Cardinality(Page(found)) = PageRows =>
              LastOf(Page(found)) \in Page(found) /\ \A q \in Page(found) : ~Before(LastOf(Page(found)), q)
<1>. DEFINE order == {x \in found \X found : Before(x[1], x[2])}
            rank(p) == Rank(found, order, p)
            page == Page(found)
<1>0. /\ \A p \in found : ~Before(p, p)
      /\ \A p, q \in found : p # q => Before(p, q) \/ Before(q, p)
      /\ \A p, q, r \in found : Before(p, q) /\ Before(q, r) => Before(p, r)
  BY SpotOrder
<1>1. \A p, q \in found : <<p, q>> \in order <=> Before(p, q)
  OBVIOUS
<1>2. StrictOrder(found, order)
  <2>. HIDE DEF order
  <2>. QED BY <1>0, <1>1 DEF StrictOrder
<1>3. ASSUME NEW p \in found PROVE rank(p) = Cardinality({q \in found : Before(q, p)})
  <2>1. Below(found, order, p) = {q \in found : Before(q, p)}
    <3>. HIDE DEF order
    <3>. QED BY <1>1 DEF Below
  <2>. QED BY <2>1 DEF Rank
<1>. DEFINE n == Cardinality(found)
<1>4. /\ n \in Nat /\ \A p \in found : rank(p) \in 0 .. n - 1
      /\ \A k \in 0 .. n - 1 : \E p \in found : rank(p) = k
  <2>. HIDE DEF order
  <2>. QED BY <1>2, Ranks
<1>5. \A p, q \in found : Before(p, q) => rank(p) < rank(q)
  <2>. HIDE DEF order
  <2>. QED BY <1>1, <1>2, RankGrows
<1>6. page = {p \in found : rank(p) < PageRows} /\ PageRows \in Nat \ {0}
  BY <1>3, ExportAssumption DEF Page
<1>. HIDE DEF order, rank, page, n
<1>7. page \in SUBSET found
  BY <1>6
<1>8. ASSUME NEW p \in page, NEW q \in found \ page PROVE Before(p, q)
  <2>1. p \in found /\ q \in found /\ p # q
    BY <1>6, <1>8
  <2>2. rank(p) \in Int /\ rank(q) \in Int /\ rank(p) < PageRows /\ ~(rank(q) < PageRows)
    BY <1>4, <1>6, <1>8
  <2>3. ~Before(q, p)
    <3>. SUFFICES ASSUME Before(q, p) PROVE FALSE
      OBVIOUS
    <3>1. rank(q) < rank(p)
      BY <1>5, <2>1
    <3>. QED BY <1>6, <2>2, <3>1
  <2>. QED BY <1>0, <2>1, <2>3
<1>9. ASSUME page # found PROVE Cardinality(page) = PageRows
  <2>1. PICK z \in found : ~(rank(z) < PageRows)
    BY <1>6, <1>9
  <2>2. PageRows <= n - 1
    BY <1>4, <1>6, <2>1
  <2>. DEFINE of == [p \in page |-> rank(p)]
              places == 0 .. PageRows - 1
  <2>3. of \in [page -> places]
    BY <1>4, <1>6
  <2>4. \A p, q \in page : p # q => of[p] # of[q]
    <3>. SUFFICES ASSUME NEW p \in page, NEW q \in page, p # q PROVE of[p] # of[q]
      OBVIOUS
    <3>1. p \in found /\ q \in found
      BY <1>7
    <3>2. rank(p) \in Int /\ rank(q) \in Int /\ (rank(p) < rank(q) \/ rank(q) < rank(p))
      BY <1>0, <1>4, <1>5, <3>1
    <3>. QED BY <3>2
  <2>5. \A k \in places : \E p \in page : of[p] = k
    <3>. SUFFICES ASSUME NEW k \in places PROVE \E p \in page : of[p] = k
      OBVIOUS
    <3>1. k \in 0 .. n - 1 /\ k < PageRows
      BY <1>4, <1>6, <2>2
    <3>2. PICK p \in found : rank(p) = k
      BY <1>4, <3>1
    <3>3. p \in page
      BY <1>6, <3>1, <3>2
    <3>. QED BY <3>2, <3>3
  <2>6. IsFiniteSet(places) /\ Cardinality(places) = PageRows
    <3>1. 0 \in Int /\ PageRows - 1 \in Int /\ (IF 0 > PageRows - 1 THEN 0 ELSE PageRows - 1 - 0 + 1) = PageRows
      BY <1>6
    <3>. QED BY <3>1, FS_Interval
  <2>7. IsFiniteSet(page)
    BY <1>7, FS_Subset
  <2>. HIDE DEF of, places
  <2>8. of \in Bijection(page, places)
    BY <2>3, <2>4, <2>5 DEF Bijection, Injection, Surjection, IsInjective
  <2>9. Cardinality(page) = Cardinality(places)
    BY <2>7, <2>8, FS_Bijection DEF ExistsBijection
  <2>. QED BY <2>6, <2>9
<1>10. ASSUME Cardinality(page) = PageRows
       PROVE  LastOf(page) \in page /\ \A q \in page : ~Before(LastOf(page), q)
  <2>1. page # {}
    BY <1>6, <1>10, FS_EmptySet
  <2>. DEFINE back == {x \in page \X page : Before(x[2], x[1])}
  <2>2. \A p, q \in page : <<p, q>> \in back <=> Before(q, p)
    OBVIOUS
  <2>3. IsFiniteSet(page)
    BY <1>7, FS_Subset
  <2>. HIDE DEF back
  <2>4. StrictOrder(page, back)
    BY <1>0, <1>7, <2>2, <2>3 DEF StrictOrder
  <2>5. PICK p \in page : \A q \in page : q # p => <<p, q>> \in back
    BY <2>1, <2>4, FirstElement
  <2>6. \A q \in page : ~Before(p, q)
    <3>. SUFFICES ASSUME NEW q \in page, Before(p, q) PROVE FALSE
      OBVIOUS
    <3>1. q # p
      BY <1>0, <1>7
    <3>2. Before(q, p)
      BY <2>2, <2>5, <3>1
    <3>. QED BY <1>0, <1>7, <3>2
  <2>. QED BY <2>6 DEF LastOf
<1>. QED BY <1>7, <1>8, <1>9, <1>10 DEF page

\* There are finitely many rows, each at its place.
LEMMA RowsAreFinite ==
  ASSUME RowsType
  PROVE  /\ SelectedRows \in SUBSET Spot /\ IsFiniteSet(SelectedRows)
         /\ records \in SUBSET Spot /\ IsFiniteSet(records)
         /\ \A p \in records : p[1] \in Table /\ p[2] > 0
         /\ \A p \in SelectedRows : p[1] >= 0
<1>. DEFINE items == 0 .. Len(selection.order) - 1
            places == 0 .. MaxAttempts
            rowids == 1 .. MaxRowid
<1>0. Len(selection.order) \in Nat /\ MaxAttempts \in Nat /\ MaxRowid \in Nat /\ TableCount \in Nat
  BY ExportAssumption DEF RowsType
<1>1. IsFiniteSet(items) /\ IsFiniteSet(places)
  BY <1>0, FS_Interval
<1>2. IsFiniteSet(rowids) /\ IsFiniteSet(Table)
  BY <1>0, FS_Interval DEF Table
<1>3. \A p \in items \X places : p \in Spot /\ p[1] >= 0
  BY <1>0 DEF Spot
<1>4. selection.left \subseteq items
  BY DEF RowsType
<1>5. 1 .. MaxAttempts \subseteq places /\ {0} \subseteq places
  BY <1>0
<1>. HIDE DEF items, places
<1>6. IsFiniteSet(items \X places)
  BY <1>1, FS_Product
<1>7. SelectedRows \in SUBSET (items \X places)
  BY <1>4, <1>5 DEF SelectedRows
<1>8. SelectedRows \in SUBSET Spot /\ IsFiniteSet(SelectedRows) /\ \A p \in SelectedRows : p[1] >= 0
  BY <1>3, <1>6, <1>7, FS_Subset
<1>9. Place \in SUBSET Spot /\ \A p \in Place : p[1] \in Table /\ p[2] > 0
  BY <1>0 DEF Place, Spot, Table
<1>. HIDE DEF rowids
<1>10. IsFiniteSet(Table \X rowids)
  BY <1>2, FS_Product
<1>11. records \in SUBSET (Table \X rowids) /\ Place = Table \X rowids
  BY DEF RowsType, Place, rowids
<1>12. IsFiniteSet(records)
  BY <1>10, <1>11, FS_Subset
<1>. QED BY <1>8, <1>9, <1>11, <1>12

\* A page more.
LEMMA PageAppended ==
  ASSUME NEW pages \in Pages, NEW page \in SUBSET Spot
  PROVE  LET all == Append(pages, page)
             last == Len(pages) + 1
         IN  /\ all \in Pages /\ last \in DOMAIN all /\ all[last] = page
             /\ \A i \in DOMAIN pages : i \in DOMAIN all /\ all[i] = pages[i] /\ pages[i] \in SUBSET Spot
             /\ \A i \in DOMAIN all : i \in Nat /\ i <= last /\ (i = last \/ i \in DOMAIN pages)
<1>. DEFINE all == Append(pages, page)
<1>1. /\ Len(pages) \in Nat /\ DOMAIN pages = 1 .. Len(pages)
      /\ all \in Pages /\ DOMAIN all = 1 .. Len(pages) + 1
      /\ \A i \in 1 .. Len(pages) : all[i] = pages[i] /\ pages[i] \in SUBSET Spot
      /\ all[Len(pages) + 1] = page
  BY DEF Pages
<1>. HIDE DEF all
<1>2. \A i \in DOMAIN all : i \in Nat /\ i <= Len(pages) + 1 /\ (i = Len(pages) + 1 \/ i \in DOMAIN pages)
  BY <1>1
<1>3. Len(pages) + 1 \in DOMAIN all
  BY <1>1
<1>. QED BY <1>1, <1>2, <1>3 DEF all

\* What a page must do: to be behind the cursor, to leave nothing out before
\* the next cursor, and to be behind it itself.
LEMMA ReceivingKeeps ==
  ASSUME DownloadInv, Loading, NEW page \in SUBSET Spot, \A p \in page : Before(download.cursor, p),
         NEW next \in {"asking", "done"}, NEW cursor \in Spot, Received(page, next, cursor),
         next = "asking" => \A p \in page : ~Before(cursor, p),
         ~Before(cursor, download.cursor),
         download.kind = "file" => cursor[1] \in Table,
         ~download.raced => \A p \in download.began : Before(download.cursor, p) =>
           p \in page \/ (next = "asking" /\ Before(cursor, p)),
         UNCHANGED <<attempts, records, selection>>
  PROVE  DownloadInv'
<1>1. /\ RowsType /\ DownloadType /\ PagesOrdered /\ BeganStays /\ BeganIsReceived
      /\ DOMAIN download = DownloadFields
  BY DEF DownloadInv, DownloadType
<1>2. /\ DOMAIN download' = DownloadFields /\ download'.pages = Append(download.pages, page)
      /\ download'.phase = next /\ download'.cursor = cursor /\ download'.kind = download.kind
      /\ download'.began = download.began /\ download'.raced = download.raced
  BY <1>1 DEF Received, DownloadFields
<1>. DEFINE pages == download.pages
            all == Append(pages, page)
            last == Len(pages) + 1
<1>3. pages \in Pages /\ download.cursor \in Spot /\ download.began \in SUBSET Spot
  BY <1>1 DEF DownloadType
<1>4. /\ all \in Pages /\ last \in DOMAIN all /\ all[last] = page
      /\ \A i \in DOMAIN pages : i \in DOMAIN all /\ all[i] = pages[i] /\ pages[i] \in SUBSET Spot
      /\ \A i \in DOMAIN all : i \in Nat /\ i <= last /\ (i = last \/ i \in DOMAIN pages)
  BY <1>3, PageAppended
<1>5. download'.pages = all
  BY <1>2
<1>6. /\ \A i, j \in DOMAIN pages : i < j => \A p \in pages[i], q \in pages[j] : Before(p, q)
      /\ \A i \in DOMAIN pages : \A p \in pages[i] : ~Before(download.cursor, p)
  BY <1>1 DEF PagesOrdered
<1>7. \A p : IsReceived(pages, p) \/ p \in page => IsReceived(all, p)
  <2>. HIDE DEF pages, all, last
  <2>. QED BY <1>4 DEF IsReceived
<1>. HIDE DEF pages, all, last
<1>8. RowsType'
  BY <1>1 DEF RowsType
<1>9. DownloadType'
  BY <1>1, <1>2, <1>4, <1>5 DEF DownloadType
<1>10. ASSUME NEW i \in DOMAIN all, NEW j \in DOMAIN all, i < j, NEW p \in all[i], NEW q \in all[j]
       PROVE  Before(p, q)
  <2>1. i \in DOMAIN pages
    BY <1>4, <1>10
  <2>2. CASE j \in DOMAIN pages
    BY <1>4, <1>6, <1>10, <2>1, <2>2
  <2>3. CASE j = last
    <3>1. ~Before(download.cursor, p) /\ Before(download.cursor, q) /\ p \in Spot /\ q \in Spot
      BY <1>4, <1>6, <1>10, <2>1, <2>3
    <3>. QED BY <1>3, <3>1, SpotOrder
  <2>. QED BY <1>4, <2>2, <2>3
<1>11. ASSUME next = "asking", NEW i \in DOMAIN all, NEW p \in all[i] PROVE ~Before(cursor, p)
  <2>1. CASE i = last
    BY <1>4, <1>11, <2>1
  <2>2. CASE i \in DOMAIN pages
    <3>1. ~Before(download.cursor, p) /\ p \in Spot
      BY <1>4, <1>6, <1>11, <2>2
    <3>. QED BY <1>3, <3>1, SpotOrder
  <2>. QED BY <1>4, <2>1, <2>2
<1>12. PagesOrdered'
  BY <1>2, <1>5, <1>10, <1>11 DEF PagesOrdered, Loading
<1>13. SelectedRows' = SelectedRows
  BY DEF SelectedRows
<1>14. BeganStays'
  BY <1>1, <1>2, <1>13 DEF BeganStays, Loading
<1>15. BeganIsReceived'
  <2>. SUFFICES ASSUME ~download.raced, NEW p \in download.began
                PROVE  IsReceived(all, p) \/ (next = "asking" /\ Before(cursor, p))
    BY <1>2, <1>5 DEF BeganIsReceived, Loading
  <2>1. IsReceived(pages, p) \/ Before(download.cursor, p)
    BY <1>1 DEF BeganIsReceived, pages
  <2>. QED BY <1>7, <2>1
<1>. QED BY <1>8, <1>9, <1>12, <1>14, <1>15 DEF DownloadInv

\* The last row of a page is behind the cursor before it.
LEMMA CursorAdvances ==
  ASSUME NEW cursor \in Spot, NEW p \in Spot, Before(cursor, p)
  PROVE  ~Before(p, cursor)
BY SpotOrder

\* A page of an export of tasks.
LEMMA ExportPageKeeps ==
  ASSUME DownloadInv, ExportPage
  PROVE  DownloadInv'
<1>. DEFINE found == RowsBehind(SelectedRows)
            page == Page(found)
<1>1. /\ RowsType /\ download.phase = "checked" /\ download.kind = "tasks" /\ download.cursor \in Spot
      /\ download.began \in SUBSET Spot
  BY DEF DownloadInv, DownloadType, ExportPage
<1>2. /\ SelectedRows \in SUBSET Spot /\ IsFiniteSet(SelectedRows)
  BY <1>1, RowsAreFinite
<1>3. /\ found \in SUBSET Spot /\ found \in SUBSET SelectedRows
      /\ \A p \in SelectedRows : p \in found <=> Before(download.cursor, p)
  BY <1>2 DEF RowsBehind
<1>4. IsFiniteSet(found)
  BY <1>2, <1>3, FS_Subset
<1>5. ~download.raced => download.began \subseteq SelectedRows
  BY <1>1 DEF DownloadInv, BeganStays
<1>. HIDE DEF found
<1>6. /\ page \in SUBSET found
      /\ \A p \in page, q \in found \ page : Before(p, q)
      /\ Cardinality(page) # PageRows => page = found
      /\ Cardinality(page) = PageRows => LastOf(page) \in page /\ \A q \in page : ~Before(LastOf(page), q)
  BY <1>3, <1>4, PageIsFirst
<1>7. /\ IF Cardinality(page) = PageRows THEN Received(page, "asking", LastOf(page))
         ELSE Received(page, "done", download.cursor)
      /\ UNCHANGED <<attempts, records, selection>>
  BY DEF ExportPage, found
<1>. HIDE DEF page
<1>8. Loading /\ page \in SUBSET Spot /\ \A p \in page : Before(download.cursor, p)
  BY <1>1, <1>3, <1>6 DEF Loading
<1>9. CASE Cardinality(page) = PageRows
  <2>. DEFINE cursor == LastOf(page)
  <2>1. cursor \in page /\ cursor \in Spot /\ \A q \in page : ~Before(cursor, q)
    BY <1>6, <1>8, <1>9
  <2>2. Received(page, "asking", cursor)
    BY <1>7, <1>9
  <2>. HIDE DEF cursor
  <2>3. ~Before(cursor, download.cursor)
    BY <1>1, <1>8, <2>1, CursorAdvances
  <2>4. ~download.raced => \A p \in download.began : Before(download.cursor, p) => p \in page \/ Before(cursor, p)
    BY <1>3, <1>5, <1>6, <2>1
  <2>. QED BY <1>1, <1>7, <1>8, <2>1, <2>2, <2>3, <2>4, ReceivingKeeps
<1>10. CASE Cardinality(page) # PageRows
  <2>1. Received(page, "done", download.cursor)
    BY <1>7, <1>10
  <2>2. ~Before(download.cursor, download.cursor)
    BY <1>1, SpotOrder
  <2>3. ~download.raced => \A p \in download.began : Before(download.cursor, p) => p \in page
    BY <1>3, <1>5, <1>6, <1>10
  <2>. QED BY <1>1, <1>7, <1>8, <2>1, <2>2, <2>3, ReceivingKeeps
<1>. QED BY <1>9, <1>10

\* A page of a portable file.
LEMMA PortablePageKeeps ==
  ASSUME DownloadInv, PortablePage
  PROVE  DownloadInv'
<1>. DEFINE table == download.cursor[1]
            found == RowsBehind({p \in records : p[1] = table})
            page == Page(found)
<1>1. /\ RowsType /\ download.phase = "asking" /\ download.kind = "file" /\ download.cursor \in Spot
      /\ download.began \in SUBSET records /\ table \in Table
  BY DEF DownloadInv, DownloadType, BeganStays, PortablePage
<1>2. /\ records \in SUBSET Spot /\ IsFiniteSet(records) /\ \A p \in records : p[1] \in Table /\ p[2] > 0
  BY <1>1, RowsAreFinite
<1>3. /\ found \in SUBSET Spot /\ found \in SUBSET records
      /\ \A p \in records : p \in found <=> p[1] = table /\ Before(download.cursor, p)
  BY <1>2 DEF RowsBehind
<1>4. IsFiniteSet(found)
  BY <1>2, <1>3, FS_Subset
<1>. HIDE DEF found
<1>6. /\ page \in SUBSET found
      /\ \A p \in page, q \in found \ page : Before(p, q)
      /\ Cardinality(page) # PageRows => page = found
      /\ Cardinality(page) = PageRows => LastOf(page) \in page /\ \A q \in page : ~Before(LastOf(page), q)
  BY <1>3, <1>4, PageIsFirst
<1>7. /\ IF Cardinality(page) = PageRows THEN Received(page, "asking", LastOf(page))
         ELSE IF table < TableCount THEN Received(page, "asking", <<table + 1, 0>>)
         ELSE Received(page, "done", download.cursor)
      /\ UNCHANGED <<attempts, records, selection>>
  BY DEF PortablePage, found
<1>. HIDE DEF page
<1>8. Loading /\ page \in SUBSET Spot /\ \A p \in page : Before(download.cursor, p)
  BY <1>1, <1>3, <1>6 DEF Loading
<1>9. \A p \in records : Before(download.cursor, p) => p \in found \/ p[1] > table
  BY <1>3 DEF Before
<1>10. TableCount \in Nat /\ Table = 1 .. TableCount
  BY ExportAssumption DEF Table
<1>11. CASE Cardinality(page) = PageRows
  <2>. DEFINE cursor == LastOf(page)
  <2>1. cursor \in page /\ cursor \in Spot /\ cursor[1] = table /\ \A q \in page : ~Before(cursor, q)
    BY <1>3, <1>6, <1>8, <1>11
  <2>2. Received(page, "asking", cursor)
    BY <1>7, <1>11
  <2>. HIDE DEF cursor
  <2>3. ~Before(cursor, download.cursor)
    BY <1>1, <1>8, <2>1, CursorAdvances
  <2>4. \A p \in download.began : Before(download.cursor, p) => p \in page \/ Before(cursor, p)
    <3>. SUFFICES ASSUME NEW p \in download.began, Before(download.cursor, p), p \notin page PROVE Before(cursor, p)
      OBVIOUS
    <3>1. p \in found \/ p[1] > table
      BY <1>1, <1>9
    <3>. QED BY <1>6, <2>1, <3>1 DEF Before
  <2>. HIDE DEF table
  <2>5. cursor[1] \in Table
    BY <1>1, <2>1
  <2>. QED BY <1>1, <1>7, <1>8, <2>1, <2>2, <2>3, <2>4, <2>5, ReceivingKeeps
<1>12. CASE Cardinality(page) # PageRows /\ table < TableCount
  <2>. DEFINE cursor == <<table + 1, 0>>
  <2>1. table \in Int /\ cursor \in Spot /\ cursor[1] \in Table
    BY <1>1, <1>10, <1>12 DEF Spot
  <2>2. Received(page, "asking", cursor)
    BY <1>7, <1>12
  <2>3. ~Before(cursor, download.cursor)
    BY <2>1 DEF Before
  <2>4. \A p \in page : ~Before(cursor, p)
    <3>. SUFFICES ASSUME NEW p \in page PROVE ~Before(cursor, p)
      OBVIOUS
    <3>1. p[1] = table
      BY <1>3, <1>6
    <3>. QED BY <2>1, <3>1 DEF Before
  <2>5. ASSUME NEW p \in download.began, Before(download.cursor, p) PROVE p \in page \/ Before(cursor, p)
    <3>1. p \in found \/ p[1] > table
      BY <1>1, <1>9, <2>5
    <3>2. p[1] \in Int /\ p[2] > 0
      BY <1>1, <1>2, <1>10
    <3>3. p[1] > table => Before(cursor, p)
      BY <2>1, <3>2 DEF Before
    <3>. QED BY <1>6, <1>12, <3>1, <3>3
  <2>. HIDE DEF table, cursor
  <2>. QED BY <1>1, <1>7, <1>8, <2>1, <2>2, <2>3, <2>4, <2>5, ReceivingKeeps
<1>13. CASE Cardinality(page) # PageRows /\ ~(table < TableCount)
  <2>1. Received(page, "done", download.cursor)
    BY <1>7, <1>13
  <2>2. ~Before(download.cursor, download.cursor)
    BY <1>1, SpotOrder
  <2>3. ASSUME NEW p \in download.began, Before(download.cursor, p) PROVE p \in page
    <3>1. p \in found \/ p[1] > table
      BY <1>1, <1>9, <2>3
    <3>2. p[1] \in Table
      BY <1>1, <1>2
    <3>3. ~(p[1] > table)
      BY <1>1, <1>10, <1>13, <3>2
    <3>. QED BY <1>6, <1>13, <3>1, <3>3
  <2>. QED BY <1>1, <1>7, <1>8, <2>1, <2>2, <2>3, ReceivingKeeps
<1>. QED BY <1>11, <1>12, <1>13

\* A download begins with the rows that are there.
LEMMA CreatingKeeps ==
  ASSUME DownloadInv,
         CreateFile \/ \E order \in Orders, history \in BOOLEAN : CreateExport(order, history)
  PROVE  DownloadInv'
<1>1. RowsType /\ DownloadType /\ PagesOrdered /\ DOMAIN download = DownloadFields
  BY DEF DownloadInv, DownloadType
<1>. DEFINE started(began) == [download EXCEPT !.phase = "asking", !.began = began]
<1>2. ASSUME NEW began PROVE
        /\ DOMAIN started(began) = DownloadFields /\ started(began).phase = "asking"
        /\ started(began).began = began /\ started(began).pages = download.pages
        /\ started(began).cursor = download.cursor /\ started(began).kind = download.kind
        /\ started(began).raced = download.raced
  BY <1>1 DEF DownloadFields
<1>. HIDE DEF started
<1>3. ASSUME NEW began \in SUBSET Spot, download' = started(began), download.phase = "ready",
             RowsType', \A p \in began : Before(download.cursor, p),
             download.kind = "file" => began \subseteq records',
             download.kind = "tasks" => began \subseteq SelectedRows'
      PROVE  DownloadInv'
  <2>1. download.pages = <<>>
    BY <1>1, <1>3 DEF DownloadType
  <2>2. DownloadType'
    BY <1>1, <1>2, <1>3 DEF DownloadType
  <2>3. PagesOrdered'
    BY <1>2, <1>3, <2>1 DEF PagesOrdered
  <2>4. BeganStays'
    BY <1>2, <1>3 DEF BeganStays
  <2>5. BeganIsReceived'
    BY <1>2, <1>3 DEF BeganIsReceived
  <2>. QED BY <1>3, <2>2, <2>3, <2>4, <2>5 DEF DownloadInv
<1>4. CASE CreateFile
  <2>1. download.phase = "ready" /\ download.kind = "file" /\ download' = started(records)
    BY <1>4 DEF CreateFile, started
  <2>2. UNCHANGED <<attempts, records, selection>>
    BY <1>4 DEF CreateFile
  <2>3. download.cursor = <<1, 0>>
    BY <1>1, <2>1 DEF DownloadType, Start
  <2>4. /\ records \in SUBSET Spot /\ \A p \in records : p[1] \in Table /\ p[2] > 0
    BY <1>1, RowsAreFinite
  <2>5. \A p \in records : Before(download.cursor, p)
    BY <2>3, <2>4 DEF Before, Table
  <2>6. RowsType'
    BY <1>1, <2>2 DEF RowsType
  <2>. QED BY <1>3, <2>1, <2>2, <2>4, <2>5, <2>6
<1>5. ASSUME NEW order \in Orders, NEW history \in BOOLEAN, CreateExport(order, history)
      PROVE  DownloadInv'
  <2>1. /\ download.phase = "ready" /\ download.kind = "tasks" /\ download' = started(SelectedRows')
        /\ UNCHANGED <<attempts, records>>
        /\ selection' = [history |-> history, order |-> order, left |-> 0 .. Len(order) - 1, expired |-> FALSE]
    BY <1>5 DEF CreateExport, started
  <2>2. order \in Seq(ExportTask)
    <3>1. PICK n \in 0 .. Cardinality(ExportTask) : order \in [1 .. n -> ExportTask]
      BY DEF Orders
    <3>2. n \in Nat
      BY FS_CardinalityType, ExportAssumption
    <3>. QED BY <3>1, <3>2
  <2>3. /\ DOMAIN selection' = SelectionFields /\ selection'.order = order
        /\ selection'.left = 0 .. Len(order) - 1 /\ selection'.expired = FALSE
    BY <2>1 DEF SelectionFields
  <2>4. RowsType'
    BY <1>1, <2>1, <2>2, <2>3 DEF RowsType
  <2>5. (/\ SelectedRows \in SUBSET Spot /\ \A p \in SelectedRows : p[1] >= 0)'
    BY <2>4, RowsAreFinite, PTL
  <2>6. download.cursor = <<-1, 0>>
    BY <1>1, <2>1 DEF DownloadType, Start
  <2>7. \A p \in SelectedRows' : Before(download.cursor, p)
    <3>. SUFFICES ASSUME NEW p \in SelectedRows' PROVE Before(download.cursor, p)
      OBVIOUS
    <3>1. p[1] \in Int /\ p[1] >= 0
      BY <2>5 DEF Spot
    <3>. QED BY <2>6, <3>1 DEF Before
  <2>. QED BY <1>3, <2>1, <2>4, <2>5, <2>7
<1>. QED BY <1>4, <1>5

\* The operation is read, or a request fails.
LEMMA CheckingKeeps ==
  ASSUME DownloadInv, CheckExport \/ FailPage
  PROVE  DownloadInv'
<1>1. RowsType /\ DownloadType /\ PagesOrdered /\ BeganStays /\ BeganIsReceived /\ DOMAIN download = DownloadFields
  BY DEF DownloadInv, DownloadType
<1>2. PICK next \in {"checked", "failed"} :
        /\ download' = [download EXCEPT !.phase = next] /\ Loading
        /\ next = "checked" => ~selection.expired /\ download.kind = "tasks"
        /\ UNCHANGED <<attempts, records, selection>>
  BY DEF CheckExport, FailPage, Loading
<1>3. /\ DOMAIN download' = DownloadFields /\ download'.phase = next
      /\ download'.began = download.began /\ download'.pages = download.pages
      /\ download'.cursor = download.cursor /\ download'.kind = download.kind
      /\ download'.raced = download.raced
  BY <1>1, <1>2 DEF DownloadFields
<1>4. RowsType' /\ SelectedRows' = SelectedRows
  BY <1>1, <1>2 DEF RowsType, SelectedRows
<1>5. DownloadType'
  BY <1>1, <1>2, <1>3 DEF DownloadType
<1>6. PagesOrdered'
  BY <1>1, <1>2, <1>3 DEF PagesOrdered, Loading
<1>7. BeganStays'
  BY <1>1, <1>2, <1>3, <1>4 DEF BeganStays, Loading
<1>8. BeganIsReceived'
  BY <1>1, <1>2, <1>3 DEF BeganIsReceived, Loading
<1>. QED BY <1>4, <1>5, <1>6, <1>7, <1>8 DEF DownloadInv

\* What others do to the rows; the download is as it was, but for its history.
LEMMA OthersKeep ==
  ASSUME DownloadInv, RowsType', DOMAIN download' = DownloadFields,
         download'.phase = download.phase, download'.kind = download.kind, download'.pages = download.pages,
         download'.cursor = download.cursor, download'.began \in SUBSET download.began,
         download'.raced \in BOOLEAN, download.raced => download'.raced, BeganStays'
  PROVE  DownloadInv'
<1>1. DownloadType /\ PagesOrdered /\ BeganIsReceived
  BY DEF DownloadInv
<1>2. DownloadType'
  BY <1>1 DEF DownloadType
<1>3. PagesOrdered' /\ Loading' = Loading
  BY <1>1 DEF PagesOrdered, Loading
<1>4. BeganIsReceived'
  BY <1>1, <1>3 DEF BeganIsReceived
<1>. QED BY <1>2, <1>3, <1>4 DEF DownloadInv

\* Leases, and an operation that expires and is pruned.
LEMMA PruningKeeps ==
  ASSUME DownloadInv,
         (\E t \in ExportTask : Lease(t)) \/ ExpireExport \/ \E items \in SUBSET selection.left : PruneItems(items)
  PROVE  DownloadInv'
<1>1. /\ RowsType /\ DownloadType /\ BeganStays /\ DOMAIN download = DownloadFields
      /\ DOMAIN selection = SelectionFields /\ download.raced \in BOOLEAN
  BY DEF DownloadInv, DownloadType, RowsType
<1>2. ASSUME NEW t \in ExportTask, Lease(t) PROVE DownloadInv'
  <2>1. /\ attempts' = [attempts EXCEPT ![t] = @ + 1] /\ attempts[t] < MaxAttempts
        /\ UNCHANGED <<records, selection, download>>
    BY <1>2 DEF Lease
  <2>2. /\ attempts' \in [ExportTask -> 0 .. MaxAttempts]
        /\ \A u \in ExportTask : attempts[u] \in Int /\ attempts'[u] \in Int /\ attempts[u] <= attempts'[u]
    BY <1>1, <2>1, ExportAssumption DEF RowsType
  <2>3. RowsType'
    BY <1>1, <2>1, <2>2 DEF RowsType
  <2>4. SelectedRows \subseteq SelectedRows'
    <3>1. ASSUME NEW p \in selection.left \X (1 .. MaxAttempts), p[2] <= attempts[selection.order[p[1] + 1]]
          PROVE  p[2] <= attempts'[selection.order[p[1] + 1]]
      <4>1. p[1] + 1 \in 1 .. Len(selection.order) /\ p[2] \in Int
        BY <1>1, ExportAssumption DEF RowsType
      <4>2. selection.order[p[1] + 1] \in ExportTask
        BY <1>1, <4>1 DEF RowsType
      <4>. QED BY <2>2, <3>1, <4>1, <4>2
    <3>2. CASE selection.history
      BY <2>1, <3>1, <3>2 DEF SelectedRows
    <3>3. CASE ~selection.history
      BY <2>1, <3>3 DEF SelectedRows
    <3>. QED BY <3>2, <3>3
  <2>5. BeganStays'
    BY <1>1, <2>1, <2>4 DEF BeganStays
  <2>. QED BY <1>1, <2>1, <2>3, <2>5, OthersKeep
<1>3. CASE ExpireExport
  <2>1. /\ selection' = [selection EXCEPT !.expired = TRUE]
        /\ download' = [download EXCEPT !.raced = @ \/ download.phase = "checked"]
        /\ UNCHANGED <<attempts, records>>
    BY <1>3 DEF ExpireExport
  <2>2. /\ DOMAIN download' = DownloadFields /\ download'.phase = download.phase
        /\ download'.began = download.began /\ download'.pages = download.pages
        /\ download'.cursor = download.cursor /\ download'.kind = download.kind
    BY <1>1, <2>1 DEF DownloadFields
  <2>3. download'.raced = (download.raced \/ download.phase = "checked")
    BY <1>1, <2>1 DEF DownloadFields
  <2>4. /\ DOMAIN selection' = SelectionFields /\ selection'.order = selection.order
        /\ selection'.left = selection.left /\ selection'.expired = TRUE
    BY <1>1, <2>1 DEF SelectionFields
  <2>5. RowsType'
    BY <1>1, <2>1, <2>4 DEF RowsType
  <2>6. BeganStays'
    BY <1>1, <2>1, <2>2, <2>3, <2>4 DEF BeganStays
  <2>7. download'.raced \in BOOLEAN /\ (download.raced => download'.raced)
    BY <1>1, <2>3
  <2>. QED BY <2>2, <2>5, <2>6, <2>7, OthersKeep
<1>4. ASSUME NEW items \in SUBSET selection.left, PruneItems(items) PROVE DownloadInv'
  <2>1. /\ selection' = [selection EXCEPT !.left = @ \ items] /\ selection.expired
        /\ UNCHANGED <<attempts, records, download>>
    BY <1>4 DEF PruneItems
  <2>2. /\ DOMAIN selection' = SelectionFields /\ selection'.order = selection.order
        /\ selection'.left = selection.left \ items /\ selection'.expired = selection.expired
    BY <1>1, <2>1 DEF SelectionFields
  <2>3. RowsType'
    BY <1>1, <2>1, <2>2 DEF RowsType
  <2>4. BeganStays'
    BY <1>1, <2>1, <2>2 DEF BeganStays
  <2>. QED BY <1>1, <2>1, <2>3, <2>4, OthersKeep
<1>. QED BY <1>2, <1>3, <1>4

\* Rows that are inserted and deleted.
LEMMA WritingKeeps ==
  ASSUME DownloadInv,
         (\E table \in Table, rowid \in 1 .. MaxRowid : InsertRow(table, rowid)) \/ \E p \in records : DeleteRow(p)
  PROVE  DownloadInv'
<1>1. /\ RowsType /\ DownloadType /\ BeganStays /\ DOMAIN download = DownloadFields
      /\ download.raced \in BOOLEAN
  BY DEF DownloadInv, DownloadType
<1>2. ASSUME NEW table \in Table, NEW rowid \in 1 .. MaxRowid, InsertRow(table, rowid) PROVE DownloadInv'
  <2>1. /\ records' = records \cup {<<table, rowid>>} /\ download.kind = "file"
        /\ UNCHANGED <<attempts, selection, download>>
    BY <1>2 DEF InsertRow
  <2>2. RowsType'
    BY <1>1, <2>1 DEF RowsType, Place
  <2>3. BeganStays'
    BY <1>1, <2>1 DEF BeganStays, DownloadType
  <2>. QED BY <1>1, <2>1, <2>2, <2>3, OthersKeep
<1>3. ASSUME NEW p \in records, DeleteRow(p) PROVE DownloadInv'
  <2>1. /\ records' = records \ {p} /\ download' = [download EXCEPT !.began = @ \ {p}] /\ download.kind = "file"
        /\ UNCHANGED <<attempts, selection>>
    BY <1>3 DEF DeleteRow
  <2>2. /\ DOMAIN download' = DownloadFields /\ download'.phase = download.phase
        /\ download'.began = download.began \ {p} /\ download'.pages = download.pages
        /\ download'.cursor = download.cursor /\ download'.kind = download.kind
        /\ download'.raced = download.raced
    BY <1>1, <2>1 DEF DownloadFields
  <2>3. RowsType'
    BY <1>1, <2>1 DEF RowsType
  <2>4. BeganStays'
    BY <1>1, <2>1, <2>2 DEF BeganStays, DownloadType
  <2>. QED BY <1>1, <2>2, <2>3, <2>4, OthersKeep
<1>. QED BY <1>2, <1>3

\* A download that has not begun.
LEMMA DownloadRests == ExportInit => DownloadInv
<1>. SUFFICES ASSUME ExportInit PROVE DownloadInv
  OBVIOUS
<1>1. PICK kind \in {"tasks", "file"} : download = Start(kind)
  BY DEF ExportInit
<1>2. /\ DOMAIN download = DownloadFields /\ download.phase = "ready" /\ download.kind = kind
      /\ download.pages = <<>> /\ download.began = {}
      /\ download.cursor = IF kind = "tasks" THEN <<-1, 0>> ELSE <<1, 0>>
  BY <1>1 DEF Start, DownloadFields
<1>3. download.raced = FALSE
  BY <1>1 DEF Start
<1>4. /\ DOMAIN selection = SelectionFields /\ selection.order = <<>> /\ selection.left = {}
      /\ selection.expired = TRUE
  BY DEF ExportInit, SelectionFields
<1>5. attempts \in [ExportTask -> 0 .. MaxAttempts] /\ records \in SUBSET Place
  BY ExportAssumption DEF ExportInit
<1>6. RowsType
  <2>1. selection.order \in Seq(ExportTask) /\ selection.left \in SUBSET (0 .. Len(selection.order) - 1)
    BY <1>4
  <2>2. selection.expired \in BOOLEAN
    BY <1>4
  <2>. QED BY <1>4, <1>5, <2>1, <2>2 DEF RowsType
<1>7. /\ download.cursor \in Spot /\ (kind = "file" => download.cursor[1] \in Table)
      /\ download.cursor = Start(kind).cursor
  BY <1>1, <1>2, ExportAssumption DEF Spot, Table
<1>8. DownloadType
  <2>1. download.pages \in Pages /\ download.began \in SUBSET Spot
    BY <1>2 DEF Pages
  <2>2. download.raced \in BOOLEAN
    BY <1>3
  <2>. QED BY <1>2, <1>7, <2>1, <2>2 DEF DownloadType
<1>. QED BY <1>2, <1>3, <1>6, <1>8 DEF DownloadInv, PagesOrdered, Loading, BeganStays, BeganIsReceived

\* What is known of a download is true in every state: its pages end at its
\* cursor, and a row that was there when it began is on a page or behind it.
\* (transfer.ts:304)
THEOREM DownloadIsKnown == ExportSpec => []DownloadInv
<1>1. DownloadInv /\ [ExportNext]_exportVars => DownloadInv'
  <2>. SUFFICES ASSUME DownloadInv, [ExportNext]_exportVars PROVE DownloadInv'
    OBVIOUS
  <2>1. CASE UNCHANGED exportVars
    BY <2>1 DEF DownloadInv, RowsType, DownloadType, PagesOrdered, BeganStays, BeganIsReceived, Loading,
                SelectedRows, exportVars
  <2>2. CASE CreateFile \/ \E order \in Orders, history \in BOOLEAN : CreateExport(order, history)
    BY <2>2, CreatingKeeps
  <2>3. CASE CheckExport \/ FailPage
    BY <2>3, CheckingKeeps
  <2>4. CASE ExportPage
    BY <2>4, ExportPageKeeps
  <2>5. CASE PortablePage
    BY <2>5, PortablePageKeeps
  <2>6. CASE (\E t \in ExportTask : Lease(t)) \/ ExpireExport \/ \E items \in SUBSET selection.left : PruneItems(items)
    BY <2>6, PruningKeeps
  <2>7. CASE \/ \E table \in Table, rowid \in 1 .. MaxRowid : InsertRow(table, rowid)
             \/ \E p \in records : DeleteRow(p)
    BY <2>7, WritingKeeps
  <2>. QED BY <2>1, <2>2, <2>3, <2>4, <2>5, <2>6, <2>7 DEF ExportNext
<1>. QED BY <1>1, DownloadRests, PTL DEF ExportSpec

\* A finished export holds every row that was there from beginning to end, once
\* and in order, for any rows and sizes of a page.
\* (operations.ts:743, portable.ts:57)
THEOREM ExportsWhole == ExportSpec => []ExportsAreWhole
<1>1. DownloadInv => ExportsAreWhole
  BY DEF DownloadInv, PagesOrdered, BeganIsReceived, IsReceived, ExportsAreWhole
<1>. QED BY <1>1, DownloadIsKnown, PTL
=============================================================================
