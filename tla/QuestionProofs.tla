--------------------------- MODULE QuestionProofs ---------------------------
(***************************************************************************)
(* What the list operators of Question return, for lists of any length:    *)
(* sorting, LIMIT, filters, removal of duplicates and sums.  An order is   *)
(* given as the set of its pairs, since a fact about it is cited for many  *)
(* orders.                                                                 *)
(***************************************************************************)
EXTENDS Question, FiniteSetTheorems, FunctionTheorems, SequenceTheorems, TLAPS

-----------------------------------------------------------------------------
LEMMA FirstNumbers ==
  \A n \in Nat : IsFiniteSet(1..n) /\ Cardinality(1..n) = n
<1> QED
  BY FS_Interval

LEMMA FunctionIsList ==
  ASSUME NEW S, NEW n \in Nat, NEW f \in [1..n -> S]
  PROVE  f \in Seq(S) /\ Len(f) = n /\ DOMAIN f = 1..n
<1> QED
  OBVIOUS

LEMMA FewElements ==
  /\ \A a, b : IsFiniteSet({a, b})
  /\ \A a, b, c : IsFiniteSet({a, b, c})
  /\ \A a, b, c, d : IsFiniteSet({a, b, c, d})
<1>1. \A a, b : IsFiniteSet({a, b})
  <2> TAKE a, b
  <2>1. IsFiniteSet({a} \cup {b})
    BY FS_Singleton, FS_Union
  <2>2. {a, b} = {a} \cup {b}
    OBVIOUS
  <2> QED
    BY <2>1, <2>2
<1>2. \A a, b, c : IsFiniteSet({a, b, c})
  <2> TAKE a, b, c
  <2>1. IsFiniteSet({a, b} \cup {c})
    BY <1>1, FS_AddElement
  <2>2. {a, b, c} = {a, b} \cup {c}
    OBVIOUS
  <2> QED
    BY <2>1, <2>2
<1>3. \A a, b, c, d : IsFiniteSet({a, b, c, d})
  <2> TAKE a, b, c, d
  <2>1. IsFiniteSet({a, b, c} \cup {d})
    BY <1>2, FS_AddElement
  <2>2. {a, b, c, d} = {a, b, c} \cup {d}
    OBVIOUS
  <2> QED
    BY <2>1, <2>2
<1> QED
  BY <1>1, <1>2, <1>3

-----------------------------------------------------------------------------
(***************************************************************************)
(* Sorting                                                                 *)
(***************************************************************************)

(* A strict total order of S, as a set of pairs. *)
Orders(R, S) ==
  /\ \A x \in S : <<x, x>> \notin R
  /\ \A x, y, z \in S : <<x, y>> \in R /\ <<y, z>> \in R => <<x, z>> \in R
  /\ \A x, y \in S : x # y => <<x, y>> \in R \/ <<y, x>> \in R

Below(R, S, x) == {y \in S : <<y, x>> \in R}

(* How many rows come before a row: different rows have different numbers, *)
(* which are those from 0 to the number of rows less one.                  *)
LEMMA RanksIncrease ==
  ASSUME NEW S, IsFiniteSet(S), NEW R, Orders(R, S),
         NEW x \in S, NEW y \in S, <<x, y>> \in R
  PROVE  Cardinality(Below(R, S, x)) < Cardinality(Below(R, S, y))
<1>1. Below(R, S, x) \cup {x} \in SUBSET Below(R, S, y)
  BY DEF Orders, Below
<1>2. x \notin Below(R, S, x) /\ Below(R, S, x) \in SUBSET S /\ Below(R, S, y) \in SUBSET S
  BY DEF Orders, Below
<1>3. IsFiniteSet(Below(R, S, x)) /\ IsFiniteSet(Below(R, S, y))
  BY <1>2, FS_Subset
<1>4. Cardinality(Below(R, S, x) \cup {x}) = Cardinality(Below(R, S, x)) + 1
  BY <1>2, <1>3, FS_AddElement
<1>5. Cardinality(Below(R, S, x) \cup {x}) <= Cardinality(Below(R, S, y))
  BY <1>1, <1>3, FS_Subset
<1> QED
  BY <1>3, <1>4, <1>5, FS_CardinalityType

LEMMA RankOfRow ==
  ASSUME NEW S, IsFiniteSet(S), NEW R, Orders(R, S), NEW x \in S
  PROVE  Cardinality(Below(R, S, x)) \in 0..(Cardinality(S) - 1)
<1>1. Below(R, S, x) \in SUBSET (S \ {x})
  BY DEF Orders, Below
<1>2. IsFiniteSet(S \ {x}) /\ Cardinality(S \ {x}) = Cardinality(S) - 1
  BY FS_RemoveElement
<1>3. IsFiniteSet(Below(R, S, x)) /\ Cardinality(Below(R, S, x)) <= Cardinality(S) - 1
  BY <1>1, <1>2, FS_Subset
<1> QED
  BY <1>3, FS_CardinalityType

LEMMA RowOfRank ==
  ASSUME NEW S, IsFiniteSet(S), NEW R, Orders(R, S), NEW n \in 1..Cardinality(S)
  PROVE  \E x \in S : Cardinality(Below(R, S, x)) = n - 1
<1> DEFINE T == 0..(Cardinality(S) - 1)
           rank == [x \in S |-> Cardinality(Below(R, S, x))]
<1>1. rank \in [S -> T]
  BY RankOfRow
<1>2. \A x, y \in S : rank[x] = rank[y] => x = y
  <2> SUFFICES ASSUME NEW x \in S, NEW y \in S, x # y PROVE rank[x] # rank[y]
    OBVIOUS
  <2>1. <<x, y>> \in R \/ <<y, x>> \in R
    BY DEF Orders
  <2>2. Cardinality(Below(R, S, x)) \in Int /\ Cardinality(Below(R, S, y)) \in Int
    BY RankOfRow
  <2> QED
    BY <2>1, <2>2, RanksIncrease
<1>3. rank \in Injection(S, T)
  BY <1>1, <1>2, Fun_IsInj
<1>4. Cardinality(S) \in Nat
  BY FS_CardinalityType
<1>5. IsFiniteSet(T) /\ Cardinality(T) = Cardinality(S)
  <2>1. \A m \in Nat : IsFiniteSet(0..(m - 1)) /\ Cardinality(0..(m - 1)) = m
    BY FS_Interval
  <2> QED
    BY <1>4, <2>1
<1>6. rank \in Surjection(S, T)
  BY <1>3, <1>5, FS_Injection
<1>7. n - 1 \in T
  BY <1>4
<1> QED
  BY <1>6, <1>7 DEF Surjection

(* A finite set of integers that is not empty has a greatest and a least   *)
(* element.                                                                *)
LEMMA GreatestExists ==
  ASSUME NEW S \in SUBSET Int, IsFiniteSet(S), S # {}
  PROVE  (\E x \in S : \A y \in S : y <= x) /\ (\E x \in S : \A y \in S : x <= y)
<1>1. Cardinality(S) \in Nat /\ 1 \in 1..Cardinality(S)
  BY FS_CardinalityType, FS_EmptySet
<1>2. ASSUME NEW R, Orders(R, S) PROVE \E x \in S : \A y \in S : <<y, x>> \notin R
  <2>1. PICK x \in S : Cardinality(Below(R, S, x)) = 1 - 1
    BY <1>1, <1>2, RowOfRank
  <2>2. IsFiniteSet(Below(R, S, x))
    BY FS_Subset DEF Below
  <2>3. Below(R, S, x) = {}
    BY <2>1, <2>2, FS_EmptySet
  <2> QED
    BY <2>3 DEF Below
<1>3. \E x \in S : \A y \in S : y <= x
  <2> DEFINE R == {p \in S \X S : p[1] > p[2]}
  <2>1. Orders(R, S) /\ \A x, y \in S : <<y, x>> \in R <=> y > x
    BY DEF Orders
  <2> HIDE DEF R
  <2>2. PICK x \in S : \A y \in S : <<y, x>> \notin R
    BY <1>2, <2>1
  <2>3. \A y \in S : ~(y > x)
    BY <2>1, <2>2
  <2> QED
    BY <2>3
<1>4. \E x \in S : \A y \in S : x <= y
  <2> DEFINE R == {p \in S \X S : p[1] < p[2]}
  <2>1. Orders(R, S) /\ \A x, y \in S : <<y, x>> \in R <=> y < x
    BY DEF Orders
  <2> HIDE DEF R
  <2>2. PICK x \in S : \A y \in S : <<y, x>> \notin R
    BY <1>2, <2>1
  <2>3. \A y \in S : ~(y < x)
    BY <2>1, <2>2
  <2> QED
    BY <2>3
<1> QED
  BY <1>3, <1>4

(* A list of S in its order. *)
SortedBy(f, R, S) ==
  /\ f \in [1..Cardinality(S) -> S]
  /\ \A n \in 1..Cardinality(S) : Cardinality(Below(R, S, f[n])) = n - 1

(* A sorted list has each row once, each before those it precedes.         *)
LEMMA SortedList ==
  ASSUME NEW S, IsFiniteSet(S), NEW R, Orders(R, S), NEW f, SortedBy(f, R, S)
  PROVE  /\ f \in Seq(S) /\ Len(f) = Cardinality(S) /\ Len(f) \in Nat
         /\ DOMAIN f = 1..Cardinality(S)
         /\ \A i, j \in DOMAIN f : <<f[i], f[j]>> \in R <=> i < j
         /\ \A i, j \in DOMAIN f : f[i] = f[j] => i = j
         /\ ToSet(f) = S
<1> DEFINE N == Cardinality(S)
<1>1. N \in Nat
  BY FS_CardinalityType
<1>2. f \in [1..N -> S] /\ f \in Seq(S) /\ Len(f) = N /\ DOMAIN f = 1..N
  BY <1>1 DEF SortedBy
<1>3. \A i, j \in 1..N : f[i] = f[j] => i = j
  BY <1>1 DEF SortedBy
<1>4. ASSUME NEW i \in 1..N, NEW j \in 1..N PROVE <<f[i], f[j]>> \in R <=> i < j
  <2>1. <<f[i], f[j]>> \in R => i < j
    <3>1. f[i] \in S /\ f[j] \in S
      BY <1>2
    <3>2. <<f[i], f[j]>> \in R => Cardinality(Below(R, S, f[i])) < Cardinality(Below(R, S, f[j]))
      BY <3>1, RanksIncrease
    <3> QED
      BY <3>2, <1>1 DEF SortedBy
  <2>2. <<f[j], f[i]>> \in R => j < i
    <3>1. f[i] \in S /\ f[j] \in S
      BY <1>2
    <3>2. <<f[j], f[i]>> \in R => Cardinality(Below(R, S, f[j])) < Cardinality(Below(R, S, f[i]))
      BY <3>1, RanksIncrease
    <3> QED
      BY <3>2, <1>1 DEF SortedBy
  <2>3. i < j => f[i] # f[j]
    BY <1>1, <1>3
  <2>4. f[i] # f[j] => <<f[i], f[j]>> \in R \/ <<f[j], f[i]>> \in R
    BY <1>2 DEF Orders
  <2> QED
    BY <1>1, <2>1, <2>2, <2>3, <2>4
<1>5. ToSet(f) = S
  <2>1. \A x \in S : Cardinality(Below(R, S, x)) + 1 \in 1..N
    BY <1>1, RankOfRow
  <2>2. ASSUME NEW x \in S PROVE \E n \in 1..N : f[n] = x
    <3> DEFINE n == Cardinality(Below(R, S, x)) + 1
    <3>1. n \in 1..N
      BY <2>1
    <3>2. Cardinality(Below(R, S, f[n])) = Cardinality(Below(R, S, x))
      <4>1. Cardinality(Below(R, S, f[n])) = n - 1
        BY <3>1 DEF SortedBy
      <4>2. Cardinality(Below(R, S, x)) \in Int
        BY RankOfRow
      <4> QED
        BY <4>1, <4>2
    <3>3. f[n] \in S
      BY <3>1, <1>2
    <3>4. ~(<<f[n], x>> \in R) /\ ~(<<x, f[n]>> \in R)
      <4>1. Cardinality(Below(R, S, x)) \in Int
        BY RankOfRow
      <4> QED
        BY <3>2, <3>3, <4>1, RanksIncrease
    <3> QED
      BY <3>1, <3>3, <3>4 DEF Orders
  <2> QED
    BY <1>2, <2>2 DEF ToSet
<1> QED
  BY <1>1, <1>2, <1>3, <1>4, <1>5

(* LIMIT keeps the rows that fewer than the limit precede.                 *)
LEMMA FirstRows ==
  ASSUME NEW S, IsFiniteSet(S), NEW R, Orders(R, S), NEW f, SortedBy(f, R, S), NEW n \in Nat
  PROVE  /\ FirstN(f, n) \in Seq(S)
         /\ Len(FirstN(f, n)) = (IF n < Cardinality(S) THEN n ELSE Cardinality(S))
         /\ DOMAIN FirstN(f, n) = 1..Len(FirstN(f, n))
         /\ \A i \in DOMAIN FirstN(f, n) : i \in DOMAIN f /\ FirstN(f, n)[i] = f[i]
         /\ ToSet(FirstN(f, n)) = {x \in S : Cardinality(Below(R, S, x)) < n}
<1> DEFINE N == Cardinality(S)
           m == IF n < N THEN n ELSE N
           g == FirstN(f, n)
<1>1. N \in Nat /\ m \in 0..N /\ m <= n
  BY FS_CardinalityType
<1>2. f \in Seq(S) /\ Len(f) = N /\ DOMAIN f = 1..N
  BY SortedList
<1>3. g = SubSeq(f, 1, m)
  BY <1>2 DEF FirstN
<1>4. g \in Seq(S) /\ Len(g) = m /\ DOMAIN g = 1..m /\ \A i \in 1..m : g[i] = f[i]
  <2> HIDE DEF m, N
  <2>1. \A i \in 1..m : f[i] \in S
    BY <1>1, <1>2
  <2>2. /\ SubSeq(f, 1, m) \in Seq(S)
        /\ Len(SubSeq(f, 1, m)) = m
        /\ \A i \in 1..m : SubSeq(f, 1, m)[i] = f[i]
    BY <1>1, <1>2
  <2> QED
    BY <1>1, <1>3, <2>2
<1>5. ToSet(g) = {x \in S : Cardinality(Below(R, S, x)) < n}
  <2>1. ToSet(f) = S
    BY SortedList
  <2>2. \A i \in 1..N : Cardinality(Below(R, S, f[i])) = i - 1
    BY DEF SortedBy
  <2>3. \A i \in 1..N : i \in 1..m <=> Cardinality(Below(R, S, f[i])) < n
    BY <1>1, <2>2
  <2>4. 1..m \subseteq 1..N
    BY <1>1
  <2> HIDE DEF m, N
  <2> QED
    BY <1>2, <1>4, <2>1, <2>3, <2>4 DEF ToSet
<1> QED
  BY <1>1, <1>2, <1>4, <1>5

(* What LIMIT keeps precedes what it leaves out, and it leaves nothing out *)
(* while there is room.                                                    *)
LEMMA TopRows ==
  ASSUME NEW S, IsFiniteSet(S), NEW R, Orders(R, S), NEW f, SortedBy(f, R, S), NEW n \in Nat,
         NEW top, top = ToSet(FirstN(f, n))
  PROVE  /\ top \in SUBSET S /\ IsFiniteSet(top)
         /\ Cardinality(top) = Len(FirstN(f, n))
         /\ Cardinality(top) = (IF n < Cardinality(S) THEN n ELSE Cardinality(S))
         /\ \A x \in top, y \in S \ top : <<x, y>> \in R
<1> DEFINE g == FirstN(f, n)
<1>1. /\ g \in Seq(S) /\ DOMAIN g = 1..Len(g)
      /\ Len(g) = (IF n < Cardinality(S) THEN n ELSE Cardinality(S))
      /\ \A i \in DOMAIN g : i \in DOMAIN f /\ g[i] = f[i]
      /\ top = {x \in S : Cardinality(Below(R, S, x)) < n}
  BY FirstRows
<1>2. \A i, j \in DOMAIN f : f[i] = f[j] => i = j
  BY SortedList
<1> HIDE DEF g
<1>3. top \in SUBSET S /\ IsFiniteSet(top)
  BY <1>1, FS_Subset
<1>4. Cardinality(top) = Len(g)
  <2>1. Len(g) \in Nat
    BY <1>1
  <2>2. g \in Bijection(1..Len(g), top)
    <3>1. g \in [1..Len(g) -> top]
      BY <1>1 DEF ToSet, g
    <3>2. \A x \in top : \E i \in 1..Len(g) : g[i] = x
      BY <1>1 DEF ToSet, g
    <3> QED
      BY <1>1, <1>2, <3>1, <3>2, Fun_IsBij DEF Surjection
  <2>3. IsFiniteSet(1..Len(g)) /\ Cardinality(1..Len(g)) = Len(g)
    BY <2>1, FirstNumbers
  <2> QED
    BY <2>2, <2>3, FS_Bijection DEF ExistsBijection
<1>5. ASSUME NEW x \in top, NEW y \in S \ top PROVE <<x, y>> \in R
  <2>1. /\ x \in S /\ y \in S /\ x # y
        /\ Cardinality(Below(R, S, x)) < n /\ ~(Cardinality(Below(R, S, y)) < n)
    BY <1>1
  <2>2. Cardinality(Below(R, S, x)) \in Int /\ Cardinality(Below(R, S, y)) \in Int
    BY <2>1, RankOfRow
  <2>3. <<y, x>> \in R => Cardinality(Below(R, S, y)) < Cardinality(Below(R, S, x))
    BY <2>1, RanksIncrease
  <2> QED
    BY <2>1, <2>2, <2>3 DEF Orders
<1> QED
  BY <1>1, <1>3, <1>4, <1>5 DEF g

(* Rows with ids of their own. *)
Identified(S) ==
  /\ IsFiniteSet(S)
  /\ \A x \in S : x.id \in Int
  /\ \A x, y \in S : x.id = y.id => x = y

LEMMA SubsetIdentified ==
  ASSUME NEW S, Identified(S), NEW T \in SUBSET S
  PROVE  Identified(T)
<1> QED
  BY FS_Subset DEF Identified

(* LIMIT of a sorted list consists of rows that were sorted. *)
LEMMA LimitedRows ==
  ASSUME NEW S, IsFiniteSet(S), NEW R, Orders(R, S), NEW f, SortedBy(f, R, S), NEW n \in Nat,
         NEW rows, rows = FirstN(f, n)
  PROVE  /\ rows \in Seq(S)
         /\ \A i \in DOMAIN rows : rows[i] \in S
         /\ \A i, j \in DOMAIN rows : rows[i] = rows[j] => i = j
<1>1. /\ rows \in Seq(S)
      /\ \A i \in DOMAIN rows : i \in DOMAIN f /\ rows[i] = f[i]
  BY FirstRows
<1>2. /\ f \in Seq(S) /\ \A i, j \in DOMAIN f : f[i] = f[j] => i = j
  BY SortedList
<1>3. \A i \in DOMAIN f : f[i] \in S
  BY <1>2
<1> QED
  BY <1>1, <1>2, <1>3

-----------------------------------------------------------------------------
(***************************************************************************)
(* Parts of a list                                                         *)
(***************************************************************************)

(* The chosen positions come in their own order, each once, whatever list  *)
(* they are positions of.                                                  *)
LEMMA PositionsInOrder ==
  ASSUME NEW N \in Nat, NEW P \in SUBSET (1..N)
  PROVE  /\ IsFiniteSet(P) /\ Cardinality(P) \in Nat
         /\ \E at \in [1..Cardinality(P) -> P] :
              /\ \A list : Picked(list, P) = [n \in 1..Cardinality(P) |-> list[at[n]]]
              /\ \A m, n \in 1..Cardinality(P) : at[m] < at[n] <=> m < n
              /\ \A i \in P : \E n \in 1..Cardinality(P) : at[n] = i
              /\ \A n \in 1..Cardinality(P) : Cardinality({y \in P : y < at[n]}) = n - 1
<1> DEFINE R == {p \in P \X P : p[1] < p[2]}
           at == [n \in 1..Cardinality(P) |->
                    CHOOSE x \in P : Cardinality({y \in P : y < x}) = n - 1]
<1>1. P \in SUBSET Nat
  OBVIOUS
<1>2. IsFiniteSet(P) /\ Cardinality(P) \in Nat
  <2>1. IsFiniteSet(1..N)
    BY FS_Interval
  <2> QED
    BY <1>1, <2>1, FS_Subset, FS_CardinalityType
<1>3. Orders(R, P)
  BY <1>1 DEF Orders
<1>4. \A x \in P : Below(R, P, x) = {y \in P : y < x}
  BY DEF Below
<1>5. SortedBy(at, R, P)
  <2>1. \A n \in 1..Cardinality(P) : \E x \in P : Cardinality({y \in P : y < x}) = n - 1
    <3> TAKE n \in 1..Cardinality(P)
    <3> HIDE DEF R
    <3>1. PICK x \in P : Cardinality(Below(R, P, x)) = n - 1
      BY <1>2, <1>3, RowOfRank
    <3> QED
      BY <1>4, <3>1
  <2>2. \A n \in 1..Cardinality(P) :
          at[n] \in P /\ Cardinality({y \in P : y < at[n]}) = n - 1
    BY <2>1
  <2> HIDE DEF at, R
  <2>3. at \in [1..Cardinality(P) -> P]
    BY <2>2 DEF at
  <2> QED
    BY <1>4, <2>2, <2>3 DEF SortedBy
<1>6. ASSUME NEW list PROVE Picked(list, P) = [n \in 1..Cardinality(P) |-> list[at[n]]]
  BY DEF Picked, Ordered
<1>7. /\ \A m, n \in DOMAIN at : <<at[m], at[n]>> \in R <=> m < n
      /\ ToSet(at) = P
  <2> HIDE DEF at, R
  <2> QED
    BY <1>2, <1>3, <1>5, SortedList
<1>8. at \in [1..Cardinality(P) -> P]
  BY <1>5 DEF SortedBy
<1> HIDE DEF at
<1>9. \A m, n \in 1..Cardinality(P) : at[m] < at[n] <=> m < n
  BY <1>7, <1>8
<1>10. \A i \in P : \E n \in 1..Cardinality(P) : at[n] = i
  BY <1>7, <1>8 DEF ToSet
<1>11. \A n \in 1..Cardinality(P) : Cardinality({y \in P : y < at[n]}) = n - 1
  BY <1>4, <1>5, <1>8 DEF SortedBy
<1> QED
  BY <1>2, <1>6, <1>8, <1>9, <1>10, <1>11

LEMMA PickedPositions ==
  ASSUME NEW T, NEW list \in Seq(T), NEW P \in SUBSET (DOMAIN list)
  PROVE  /\ IsFiniteSet(P) /\ Cardinality(P) \in Nat
         /\ \E at \in [1..Cardinality(P) -> P] :
              /\ Picked(list, P) = [n \in 1..Cardinality(P) |-> list[at[n]]]
              /\ \A m, n \in 1..Cardinality(P) : at[m] < at[n] <=> m < n
              /\ \A i \in P : \E n \in 1..Cardinality(P) : at[n] = i
<1>1. Len(list) \in Nat /\ P \in SUBSET (1..Len(list))
  BY LenProperties
<1>2. IsFiniteSet(P) /\ Cardinality(P) \in Nat
  BY <1>1, PositionsInOrder
<1>3. PICK at \in [1..Cardinality(P) -> P] :
        /\ \A l : Picked(l, P) = [n \in 1..Cardinality(P) |-> l[at[n]]]
        /\ \A m, n \in 1..Cardinality(P) : at[m] < at[n] <=> m < n
        /\ \A i \in P : \E n \in 1..Cardinality(P) : at[n] = i
  BY <1>1, PositionsInOrder
<1>4. Picked(list, P) = [n \in 1..Cardinality(P) |-> list[at[n]]]
  BY <1>3
<1> QED
  BY <1>2, <1>3, <1>4

LEMMA PickedList ==
  ASSUME NEW T, NEW list \in Seq(T), NEW P \in SUBSET (DOMAIN list)
  PROVE  /\ IsFiniteSet(P) /\ Cardinality(P) \in Nat
         /\ Picked(list, P) \in Seq(T)
         /\ Len(Picked(list, P)) = Cardinality(P)
         /\ DOMAIN Picked(list, P) = 1..Cardinality(P)
         /\ ToSet(Picked(list, P)) = {list[i] : i \in P}
<1>1. IsFiniteSet(P) /\ Cardinality(P) \in Nat
  BY PickedPositions
<1>2. PICK at \in [1..Cardinality(P) -> P] :
        /\ Picked(list, P) = [n \in 1..Cardinality(P) |-> list[at[n]]]
        /\ \A i \in P : \E n \in 1..Cardinality(P) : at[n] = i
  BY PickedPositions
<1>3. \A i \in P : list[i] \in T
  BY LenProperties
<1>4. Picked(list, P) \in [1..Cardinality(P) -> T]
  BY <1>2, <1>3
<1>5. /\ Picked(list, P) \in Seq(T) /\ Len(Picked(list, P)) = Cardinality(P)
      /\ DOMAIN Picked(list, P) = 1..Cardinality(P)
  BY <1>1, <1>4
<1>6. ToSet(Picked(list, P)) = {list[i] : i \in P}
  BY <1>2 DEF ToSet
<1> QED
  BY <1>1, <1>5, <1>6

-----------------------------------------------------------------------------
(* The elements of a finite set as a list: each once. *)
LEMMA SetListed ==
  ASSUME NEW S, IsFiniteSet(S), NEW list, list = SetToSeq(S)
  PROVE  /\ list \in Seq(S) /\ DOMAIN list = 1..Len(list) /\ Len(list) \in Nat
         /\ Len(list) = Cardinality(S)
         /\ \A x \in S : \E i \in DOMAIN list : list[i] = x
         /\ \A i, j \in DOMAIN list : list[i] = list[j] => i = j
<1>1. Cardinality(S) \in Nat /\ ExistsBijection(1..Cardinality(S), S)
  BY FS_CardinalityType
<1>2. PICK f \in Bijection(1..Cardinality(S), S) : TRUE
  BY <1>1 DEF ExistsBijection
<1>3. f \in [1..Cardinality(S) -> S] /\ IsInjective(f)
  BY <1>2 DEF Bijection, Injection
<1>4. list \in [1..Cardinality(S) -> S] /\ IsInjective(list)
  BY <1>3 DEF SetToSeq
<1>5. list \in Seq(S) /\ Len(list) = Cardinality(S) /\ DOMAIN list = 1..Cardinality(S)
  BY <1>1, <1>4
<1>6. list \in Surjection(1..Cardinality(S), S)
  <2>1. list \in Injection(1..Cardinality(S), S)
    BY <1>4 DEF Injection
  <2>2. IsFiniteSet(1..Cardinality(S)) /\ Cardinality(1..Cardinality(S)) = Cardinality(S)
    BY <1>1, FirstNumbers
  <2> QED
    BY <2>1, <2>2, FS_Injection
<1> QED
  BY <1>1, <1>4, <1>5, <1>6 DEF Surjection, IsInjective

(* A set of numbers that is not empty has a least one. *)
LEMMA LeastExists ==
  ASSUME NEW P \in SUBSET Nat, P # {}
  PROVE  \E m \in P : \A n \in P : m <= n
<1>1. PICK m \in P : \A n \in P : <<n, m>> \notin OpToRel(<, Nat)
  BY NatLessThanWellFounded, WFMin
<1>2. \A n \in P : ~(n < m)
  BY <1>1 DEF OpToRel
<1> QED
  BY <1>2

(* Removing repetitions keeps every element, once, in the order of its     *)
(* first occurrence.                                                       *)
LEMMA DedupList ==
  ASSUME NEW T, NEW list \in Seq(T)
  PROVE  /\ Dedup(list) \in Seq(T) /\ DOMAIN Dedup(list) = 1..Len(Dedup(list))
         /\ ToSet(Dedup(list)) = ToSet(list)
         /\ \A m, n \in DOMAIN Dedup(list) : Dedup(list)[m] = Dedup(list)[n] => m = n
         /\ \A m, n \in DOMAIN Dedup(list) : m < n =>
              \E i \in DOMAIN list : /\ list[i] = Dedup(list)[m]
                                     /\ \A j \in 1..i : list[j] # Dedup(list)[n]
<1> DEFINE P == {i \in DOMAIN list : \A j \in 1..(i - 1) : list[j] # list[i]}
           d == Dedup(list)
<1>1. P \in SUBSET (DOMAIN list) /\ DOMAIN list = 1..Len(list) /\ Len(list) \in Nat
  BY LenProperties
<1>2. d = Picked(list, P)
  BY DEF Dedup
<1>3. /\ d \in Seq(T) /\ DOMAIN d = 1..Len(d) /\ ToSet(d) = {list[i] : i \in P}
      /\ Len(d) = Cardinality(P)
  <2> HIDE DEF P, d
  <2>1. /\ Picked(list, P) \in Seq(T) /\ DOMAIN Picked(list, P) = 1..Cardinality(P)
        /\ Len(Picked(list, P)) = Cardinality(P) /\ ToSet(Picked(list, P)) = {list[i] : i \in P}
    BY <1>1, PickedList
  <2> QED
    BY <1>2, <2>1
<1>4. ASSUME NEW i \in DOMAIN list PROVE \E j \in P : list[j] = list[i]
  <2> DEFINE Q == {j \in DOMAIN list : list[j] = list[i]}
  <2>1. Q \in SUBSET Nat /\ Q # {}
    BY <1>1
  <2>2. PICK m \in Q : \A n \in Q : m <= n
    BY <2>1, LeastExists
  <2>3. m \in P
    BY <1>1, <2>2
  <2> QED
    BY <2>2, <2>3
<1> HIDE DEF P, d
<1>5. ToSet(d) = ToSet(list)
  BY <1>1, <1>3, <1>4 DEF ToSet
<1>6. \A i, j \in P : list[i] = list[j] => i = j
  BY <1>1 DEF P
<1>7. PICK at \in [1..Cardinality(P) -> P] :
        /\ d = [n \in 1..Cardinality(P) |-> list[at[n]]]
        /\ \A m, n \in 1..Cardinality(P) : at[m] < at[n] <=> m < n
  BY <1>1, <1>2, PickedPositions
<1>8. \A m, n \in DOMAIN d : d[m] = d[n] => m = n
  BY <1>1, <1>3, <1>6, <1>7
<1>9. ASSUME NEW m \in DOMAIN d, NEW n \in DOMAIN d, m < n
      PROVE  \E i \in DOMAIN list : list[i] = d[m] /\ \A j \in 1..i : list[j] # d[n]
  <2>0. m \in 1..Cardinality(P) /\ n \in 1..Cardinality(P)
    BY <1>3
  <2>1. at[m] \in DOMAIN list /\ list[at[m]] = d[m] /\ at[m] < at[n] /\ at[n] \in P /\ list[at[n]] = d[n]
    BY <2>0, <1>1, <1>7, <1>9
  <2>2. \A j \in 1..at[m] : list[j] # d[n]
    BY <1>1, <2>1 DEF P
  <2> QED
    BY <2>1, <2>2
<1> QED
  BY <1>3, <1>5, <1>8, <1>9 DEF d

-----------------------------------------------------------------------------
(***************************************************************************)
(* Folds.  A fold is a function of the sets of positions, chosen for the   *)
(* equation it satisfies; these lemmas show that there is one, and what    *)
(* its values on the prefixes of a list are.  The step of a fold is given  *)
(* as a function G of what was accumulated and the position.               *)
(***************************************************************************)

Iterates(g, S, D, base, G, last) ==
  /\ g \in [SUBSET S -> D]
  /\ \A s \in SUBSET S :
       g[s] = IF s = {} THEN base ELSE G[<<g[s \ {last[s]}], last[s]>>]

LEMMA IteratedExists ==
  ASSUME NEW S, IsFiniteSet(S), NEW D, NEW base \in D, NEW G \in [D \X S -> D],
         NEW last, \A s \in SUBSET S : s # {} => last[s] \in s
  PROVE  \E g : Iterates(g, S, D, base, G, last)
<1> DEFINE Small(k) == {s \in SUBSET S : Cardinality(s) <= k}
           Fits(g, k) == \A s \in Small(k) :
             g[s] = IF s = {} THEN base ELSE G[<<g[s \ {last[s]}], last[s]>>]
           Bad == {k \in Nat : ~\E g \in [Small(k) -> D] : Fits(g, k)}
<1>1. \A s \in SUBSET S : IsFiniteSet(s) /\ Cardinality(s) \in Nat
  BY FS_Subset, FS_CardinalityType
<1>2. 0 \notin Bad
  <2> DEFINE g == [s \in Small(0) |-> base]
  <2>1. g \in [Small(0) -> D]
    OBVIOUS
  <2>2. \A s \in Small(0) : s = {}
    BY <1>1, FS_EmptySet
  <2>3. Fits(g, 0)
    BY <2>2
  <2> QED
    BY <2>1, <2>3
<1>3. ASSUME NEW k \in Nat, k > 0, k - 1 \notin Bad PROVE k \notin Bad
  <2>1. k - 1 \in Nat
    BY <1>3
  <2>2. PICK g \in [Small(k - 1) -> D] : Fits(g, k - 1)
    BY <1>3, <2>1
  <2>3. ASSUME NEW s \in Small(k), s # {}
        PROVE  last[s] \in s /\ last[s] \in S /\ s \ {last[s]} \in Small(k - 1)
    <3>1. last[s] \in s /\ s \in SUBSET S /\ Cardinality(s) <= k
      BY <2>3
    <3>2. Cardinality(s \ {last[s]}) = Cardinality(s) - 1
      BY <1>1, <3>1, FS_RemoveElement
    <3>3. Cardinality(s) \in Nat
      BY <1>1, <3>1
    <3> QED
      BY <3>1, <3>2, <3>3
  <2>4. Small(k - 1) \in SUBSET Small(k)
    BY <1>1
  <2> DEFINE h == [s \in Small(k) |->
                     IF s = {} THEN base ELSE G[<<g[s \ {last[s]}], last[s]>>]]
  <2> HIDE DEF Small
  <2>5. h \in [Small(k) -> D]
    BY <2>3
  <2>6. \A s \in Small(k - 1) : h[s] = g[s]
    BY <2>2, <2>4
  <2>7. Fits(h, k)
    BY <2>3, <2>6
  <2> QED
    BY <2>5, <2>7
<1>4. Bad = {}
  <2> SUFFICES ASSUME Bad # {} PROVE FALSE
    OBVIOUS
  <2>1. Bad \in SUBSET Nat
    OBVIOUS
  <2> HIDE DEF Bad
  <2>2. PICK m \in Bad : \A k \in Bad : m <= k
    BY <2>1, LeastExists
  <2>3. m \in Nat /\ m > 0
    BY <1>2, <2>1, <2>2
  <2>4. m - 1 \notin Bad
    BY <2>2, <2>3
  <2> QED
    BY <1>3, <2>2, <2>3, <2>4
<1>5. Cardinality(S) \in Nat /\ Small(Cardinality(S)) = SUBSET S
  <2>1. \A s \in SUBSET S : Cardinality(s) <= Cardinality(S)
    BY FS_Subset
  <2> QED
    BY <2>1, FS_CardinalityType
<1>6. \E g \in [Small(Cardinality(S)) -> D] : Fits(g, Cardinality(S))
  BY <1>4, <1>5
<1> QED
  BY <1>5, <1>6 DEF Iterates

LEMMA LastOfPrefix ==
  ASSUME NEW i \in Nat, i > 0
  PROVE  Max(1..i) = i /\ (1..i) \ {i} = 1..(i - 1) /\ 1..i # {}
<1>1. i \in 1..i /\ \A y \in 1..i : i >= y
  OBVIOUS
<1>2. \A x \in 1..i : (\A y \in 1..i : x >= y) => x = i
  OBVIOUS
<1> QED
  BY <1>1, <1>2 DEF Max

LEMMA LastIsElement ==
  \A n \in Nat : \A s \in SUBSET (1..n) : s # {} => Max(s) \in s
<1> SUFFICES ASSUME NEW n \in Nat, NEW s \in SUBSET (1..n), s # {} PROVE Max(s) \in s
  OBVIOUS
<1>1. IsFiniteSet(s)
  BY FirstNumbers, FS_Subset
<1>2. s \in SUBSET Int
  OBVIOUS
<1>3. PICK x \in s : \A y \in s : y <= x
  BY <1>1, <1>2, GreatestExists
<1>4. \A y \in s : x >= y
  BY <1>2, <1>3
<1> QED
  BY <1>4 DEF Max

(* What was accumulated after each position of a list. *)
Accumulates(F, n, D, base, G) ==
  F \in [0..n -> D] /\ F[0] = base /\ \A i \in 1..n : F[i] = G[<<F[i - 1], i>>]

Unfolds(h, n, D, base, G) ==
  /\ base \in D /\ G \in [D \X (1..n) -> D]
  /\ h[{}] = base
  /\ \A s \in SUBSET (1..n) : s # {} /\ h[s \ {Max(s)}] \in D =>
       h[s] = G[<<h[s \ {Max(s)}], Max(s)>>]

LEMMA Unrolled ==
  ASSUME NEW n \in Nat, NEW D, NEW base, NEW G, NEW h, Unfolds(h, n, D, base, G)
  PROVE  \E F : Accumulates(F, n, D, base, G) /\ F[n] = h[1..n]
<1> DEFINE F == [i \in 0..n |-> h[1..i]]
           Bad == {i \in 0..n : F[i] \notin D}
<1>0. base \in D /\ G \in [D \X (1..n) -> D]
  BY DEF Unfolds
<1>1. F[0] = base
  <2>1. 1..0 = {}
    OBVIOUS
  <2> QED
    BY <2>1 DEF Unfolds
<1>2. ASSUME NEW i \in 1..n, F[i - 1] \in D PROVE F[i] = G[<<F[i - 1], i>>] /\ F[i] \in D
  <2>1. 1..i \in SUBSET (1..n) /\ i \in Nat /\ i > 0 /\ i - 1 \in 0..n /\ i \in 0..n
    OBVIOUS
  <2>2. Max(1..i) = i /\ (1..i) \ {i} = 1..(i - 1) /\ 1..i # {}
    BY <2>1, LastOfPrefix
  <2>3. F[i] = h[1..i] /\ F[i - 1] = h[1..(i - 1)]
    BY <2>1
  <2>4. h[1..i] = G[<<h[1..(i - 1)], i>>]
    BY <1>2, <2>1, <2>2, <2>3 DEF Unfolds
  <2> QED
    BY <1>0, <1>2, <2>3, <2>4
<1>3. Bad = {}
  <2> SUFFICES ASSUME Bad # {} PROVE FALSE
    OBVIOUS
  <2>1. Bad \in SUBSET Nat
    OBVIOUS
  <2>2. PICK m \in Bad : \A k \in Bad : m <= k
    BY <2>1, LeastExists
  <2>3. m \in 0..n /\ m # 0 /\ F[m] \notin D
    BY <1>0, <1>1, <2>2
  <2>4. m \in 1..n /\ m - 1 \in 0..n /\ m - 1 \notin Bad
    BY <2>2, <2>3
  <2>5. F[m - 1] \in D
    BY <2>4
  <2> QED
    BY <1>2, <2>3, <2>4, <2>5
<1>4. \A i \in 0..n : F[i] \in D
  BY <1>3
<1>5. \A i \in 1..n : F[i] = G[<<F[i - 1], i>>]
  <2> TAKE i \in 1..n
  <2>1. i - 1 \in 0..n
    OBVIOUS
  <2> QED
    BY <1>2, <1>4, <2>1
<1>6. F \in [0..n -> D]
  BY <1>4
<1>7. F[n] = h[1..n]
  OBVIOUS
<1> HIDE DEF F
<1> QED
  BY <1>1, <1>5, <1>6, <1>7 DEF Accumulates

(* A sum is that of all but the last number and the last number. *)
LEMMA SumSteps ==
  ASSUME NEW list \in Seq(Int)
  PROVE  \E F \in [0..Len(list) -> Int] :
           /\ F[0] = 0 /\ SumOf(list) = F[Len(list)]
           /\ \A i \in 1..Len(list) : F[i] = F[i - 1] + list[i]
<1> DEFINE n == Len(list)
           Sums(g) == g = [s \in SUBSET (DOMAIN list) |->
                             IF s = {} THEN 0 ELSE g[s \ {Max(s)}] + list[Max(s)]]
           h == CHOOSE g : Sums(g)
           G == [p \in Int \X (1..n) |-> p[1] + list[p[2]]]
           last == [s \in SUBSET (1..n) |-> Max(s)]
<1>1. n \in Nat /\ DOMAIN list = 1..n /\ \A i \in 1..n : list[i] \in Int
  BY LenProperties
<1>2. SumOf(list) = h[1..n]
  BY <1>1 DEF SumOf, FoldLeft, MapThenFoldSet
<1>3. G \in [Int \X (1..n) -> Int] /\ \A a \in Int, i \in 1..n : G[<<a, i>>] = a + list[i]
  BY <1>1
<1>4. \A s \in SUBSET (1..n) : last[s] = Max(s) /\ (s # {} => last[s] \in s)
  BY <1>1, LastIsElement
<1> HIDE DEF G, last
<1>5. Sums(h)
  <2>1. IsFiniteSet(1..n) /\ 0 \in Int
    BY <1>1, FirstNumbers
  <2>2. PICK g : Iterates(g, 1..n, Int, 0, G, last)
    BY <1>3, <1>4, <2>1, IteratedExists
  <2>3. g \in [SUBSET (1..n) -> Int]
    BY <2>2 DEF Iterates
  <2>4. ASSUME NEW s \in SUBSET (1..n)
        PROVE  g[s] = IF s = {} THEN 0 ELSE g[s \ {Max(s)}] + list[Max(s)]
    <3>1. g[s] = IF s = {} THEN 0 ELSE G[<<g[s \ {last[s]}], last[s]>>]
      BY <2>2 DEF Iterates
    <3>2. s # {} => last[s] \in 1..n /\ last[s] = Max(s) /\ g[s \ {last[s]}] \in Int
      BY <1>4, <2>3
    <3> QED
      BY <1>3, <3>1, <3>2
  <2>5. Sums(g)
    BY <1>1, <2>3, <2>4
  <2> QED
    BY <2>5
<1> HIDE DEF h
<1>6. h[{}] = 0 /\ \A s \in SUBSET (1..n) : s # {} => h[s] = h[s \ {Max(s)}] + list[Max(s)]
  BY <1>1, <1>5
<1>7. \A s \in SUBSET (1..n) : s # {} /\ h[s \ {Max(s)}] \in Int =>
        h[s] = G[<<h[s \ {Max(s)}], Max(s)>>]
  <2> SUFFICES ASSUME NEW s \in SUBSET (1..n), s # {}, h[s \ {Max(s)}] \in Int
               PROVE  h[s] = G[<<h[s \ {Max(s)}], Max(s)>>]
    OBVIOUS
  <2>1. Max(s) \in 1..n
    BY <1>4
  <2> QED
    BY <1>3, <1>6, <2>1
<1>a. PICK F : Accumulates(F, n, Int, 0, G) /\ F[n] = h[1..n]
  <2>1. n \in Nat /\ 0 \in Int /\ G \in [Int \X (1..n) -> Int]
    BY <1>1, <1>3
  <2>2. Unfolds(h, n, Int, 0, G)
    BY <1>6, <1>7, <2>1 DEF Unfolds
  <2> HIDE DEF n
  <2> QED
    BY <2>1, <2>2, Unrolled
<1>8. /\ F \in [0..n -> Int] /\ F[0] = 0 /\ F[n] = h[1..n]
      /\ \A i \in 1..n : F[i] = G[<<F[i - 1], i>>]
  BY <1>a DEF Accumulates
<1>9. \A i \in 1..n : F[i] = F[i - 1] + list[i]
  <2> TAKE i \in 1..n
  <2>1. i - 1 \in 0..n
    BY <1>1
  <2> QED
    BY <1>3, <1>8, <2>1
<1> QED
  BY <1>2, <1>8, <1>9

-----------------------------------------------------------------------------
(***************************************************************************)
(* Sums                                                                    *)
(***************************************************************************)

LEMMA SumOfThree ==
  ASSUME NEW list \in Seq(Int), Len(list) = 3
  PROVE  SumOf(list) = list[1] + list[2] + list[3]
<1>1. PICK F \in [0..3 -> Int] :
        F[0] = 0 /\ SumOf(list) = F[3] /\ \A i \in 1..3 : F[i] = F[i - 1] + list[i]
  BY SumSteps
<1>2. list[1] \in Int /\ list[2] \in Int /\ list[3] \in Int
  <2>1. \A i \in 1..3 : list[i] \in Int
    BY LenProperties
  <2> QED
    BY <2>1
<1>3. F[1] = F[0] + list[1] /\ F[2] = F[1] + list[2] /\ F[3] = F[2] + list[3]
  <2>1. \A i \in {1, 2, 3} : F[i] = F[i - 1] + list[i]
    BY <1>1
  <2> QED
    BY <2>1
<1> QED
  BY <1>1, <1>2, <1>3

LEMMA SumStepsTo ==
  ASSUME NEW n \in Nat, NEW list \in [1..n -> Int]
  PROVE  \E F \in [0..n -> Int] :
           F[0] = 0 /\ SumOf(list) = F[n] /\ \A i \in 1..n : F[i] = F[i - 1] + list[i]
<1>1. list \in Seq(Int) /\ Len(list) = n
  BY FunctionIsList
<1>2. PICK m : m = Len(list)
  OBVIOUS
<1>3. \E F \in [0..m -> Int] :
        F[0] = 0 /\ SumOf(list) = F[m] /\ \A i \in 1..m : F[i] = F[i - 1] + list[i]
  BY <1>1, <1>2, SumSteps, Zenon
<1> QED
  BY <1>1, <1>2, <1>3

LEMMA SumOfSums ==
  ASSUME NEW n \in Nat, NEW u \in [1..n -> Int], NEW v \in [1..n -> Int],
         NEW w \in [1..n -> Int], \A i \in 1..n : w[i] = u[i] + v[i]
  PROVE  SumOf(w) = SumOf(u) + SumOf(v)
<1>2. PICK U \in [0..n -> Int] :
        U[0] = 0 /\ SumOf(u) = U[n] /\ \A i \in 1..n : U[i] = U[i - 1] + u[i]
  BY SumStepsTo
<1>3. PICK V \in [0..n -> Int] :
        V[0] = 0 /\ SumOf(v) = V[n] /\ \A i \in 1..n : V[i] = V[i - 1] + v[i]
  BY SumStepsTo
<1>4. PICK W \in [0..n -> Int] :
        W[0] = 0 /\ SumOf(w) = W[n] /\ \A i \in 1..n : W[i] = W[i - 1] + w[i]
  BY SumStepsTo
<1> DEFINE Bad == {i \in 0..n : W[i] # U[i] + V[i]}
<1>5. 0 \notin Bad
  BY <1>2, <1>3, <1>4
<1>6. ASSUME NEW i \in 1..n, i - 1 \notin Bad PROVE i \notin Bad
  <2>1. i - 1 \in 0..n /\ i \in 0..n
    OBVIOUS
  <2>2. W[i - 1] = U[i - 1] + V[i - 1]
    BY <1>6, <2>1
  <2>3. /\ W[i] = W[i - 1] + w[i] /\ U[i] = U[i - 1] + u[i] /\ V[i] = V[i - 1] + v[i]
        /\ w[i] = u[i] + v[i]
    BY <1>2, <1>3, <1>4
  <2>4. /\ U[i - 1] \in Int /\ V[i - 1] \in Int /\ u[i] \in Int /\ v[i] \in Int
    BY <2>1
  <2>5. W[i] = U[i] + V[i]
    BY <2>2, <2>3, <2>4
  <2> QED
    BY <2>5
<1>7. Bad = {}
  <2> SUFFICES ASSUME Bad # {} PROVE FALSE
    OBVIOUS
  <2>1. Bad \in SUBSET Nat /\ Bad \in SUBSET (0..n)
    OBVIOUS
  <2> HIDE DEF Bad
  <2>2. PICK m \in Bad : \A k \in Bad : m <= k
    BY <2>1, LeastExists
  <2>3. m \in 1..n
    BY <1>5, <2>1, <2>2
  <2>4. m - 1 \notin Bad
    BY <2>1, <2>2, <2>3
  <2> QED
    BY <1>6, <2>2, <2>3, <2>4
<1>8. n \in 0..n
  OBVIOUS
<1> QED
  BY <1>2, <1>3, <1>4, <1>7, <1>8

(* The sum of some of the numbers is that of all, the others as zeros.     *)
LEMMA SumOfPicked ==
  ASSUME NEW n \in Nat, NEW v \in [1..n -> Int], NEW P \in SUBSET (1..n)
  PROVE  SumOf(Picked(v, P)) = SumOf([i \in 1..n |-> IF i \in P THEN v[i] ELSE 0])
<1> DEFINE w == [i \in 1..n |-> IF i \in P THEN v[i] ELSE 0]
           c == Cardinality(P)
           Before(i) == {y \in P : y < i}
<1>1. IsFiniteSet(P) /\ c \in Nat
  BY PositionsInOrder
<1>a. \A y \in P : y \in Nat /\ y >= 1 /\ y < n + 1
  OBVIOUS
<1>b. PICK at \in [1..c -> P] :
        /\ \A list : Picked(list, P) = [k \in 1..c |-> list[at[k]]]
        /\ \A j, k \in 1..c : at[j] < at[k] <=> j < k
        /\ \A i \in P : \E k \in 1..c : at[k] = i
        /\ \A k \in 1..c : Cardinality({y \in P : y < at[k]}) = k - 1
  BY PositionsInOrder
<1>2. /\ \A list : Picked(list, P) = [k \in 1..c |-> list[at[k]]]
      /\ \A i \in P : \E k \in 1..c : at[k] = i
      /\ \A k \in 1..c : Cardinality(Before(at[k])) = k - 1
  BY <1>b
<1>3. PICK list : list = Picked(v, P) /\ list = [k \in 1..c |-> v[at[k]]]
  BY <1>2
<1>4. list \in [1..c -> Int]
  <2>1. \A k \in 1..c : at[k] \in 1..n
    BY <1>2
  <2> QED
    BY <1>3, <2>1
<1>5. w \in [1..n -> Int]
  OBVIOUS
<1>6. PICK F \in [0..c -> Int] :
        F[0] = 0 /\ SumOf(list) = F[c] /\ \A k \in 1..c : F[k] = F[k - 1] + list[k]
  <2> HIDE DEF c
  <2> QED
    BY <1>1, <1>4, SumStepsTo
<1>7. PICK W \in [0..n -> Int] :
        W[0] = 0 /\ SumOf(w) = W[n] /\ \A i \in 1..n : W[i] = W[i - 1] + w[i]
  <2> HIDE DEF w
  <2> QED
    BY <1>5, SumStepsTo
<1>8. \A i \in 0..n : /\ IsFiniteSet(Before(i + 1)) /\ Cardinality(Before(i + 1)) \in 0..c
                       /\ Cardinality(Before(i + 1)) \in Nat
  <2> TAKE i \in 0..n
  <2>1. Before(i + 1) \in SUBSET P
    OBVIOUS
  <2> HIDE DEF Before
  <2> QED
    BY <1>1, <2>1, FS_Subset, FS_CardinalityType
<1> DEFINE Bad == {i \in 0..n : W[i] # F[Cardinality(Before(i + 1))]}
<1>9. 0 \notin Bad
  <2>1. Before(0 + 1) = {}
    <3>1. \A y \in P : ~(y < 0 + 1)
      BY <1>a
    <3> QED
      BY <3>1
  <2> HIDE DEF Before
  <2> QED
    BY <1>6, <1>7, <2>1, FS_EmptySet
<1>10. ASSUME NEW i \in 1..n, i - 1 \notin Bad PROVE i \notin Bad
  <2>1. i - 1 \in 0..n /\ i \in 0..n /\ (i - 1) + 1 = i
    OBVIOUS
  <2>2. W[i - 1] = F[Cardinality(Before(i))]
    <3>1. W[i - 1] = F[Cardinality(Before((i - 1) + 1))]
      BY <1>10, <2>1
    <3> QED
      BY <2>1, <3>1
  <2>3. W[i] = W[i - 1] + w[i] /\ W[i - 1] \in Int
    BY <1>7, <2>1
  <2>4. CASE i \notin P
    <3>1. Before(i + 1) = Before(i)
      <4>1. \A y \in P : y < i + 1 <=> y < i
        BY <1>a, <2>4
      <4> QED
        BY <4>1
    <3>2. w[i] = 0
      BY <2>4
    <3> HIDE DEF Before, w
    <3>3. W[i] = W[i - 1]
      BY <2>3, <3>2
    <3> QED
      BY <2>2, <3>1, <3>3
  <2>5. CASE i \in P
    <3>1. PICK k \in 1..c : at[k] = i
      BY <1>2, <2>5
    <3>2. Cardinality(Before(i)) = k - 1
      BY <1>2, <3>1
    <3>3. Before(i + 1) = Before(i) \cup {i} /\ i \notin Before(i)
      <4>1. \A y \in P : y < i + 1 <=> y < i \/ y = i
        BY <1>a
      <4>2. ~(i < i)
        OBVIOUS
      <4>3. Before(i + 1) = Before(i) \cup {i}
        BY <2>5, <4>1
      <4>4. i \notin Before(i)
        BY <4>2
      <4> QED
        BY <4>3, <4>4
    <3>4. w[i] = list[k]
      BY <1>3, <2>5, <3>1
    <3>5. IsFiniteSet(Before(i))
      BY <1>8, <2>1
    <3> HIDE DEF Before, w
    <3>6. Cardinality(Before(i + 1)) = k
      <4>1. Cardinality(Before(i + 1)) = Cardinality(Before(i)) + 1
        BY <3>3, <3>5, FS_AddElement
      <4> QED
        BY <3>1, <3>2, <4>1
    <3>7. F[k] = F[k - 1] + list[k]
      BY <1>6, <3>1
    <3> QED
      BY <2>2, <2>3, <3>2, <3>4, <3>6, <3>7
  <2> QED
    BY <2>4, <2>5
<1>11. Bad = {}
  <2> SUFFICES ASSUME Bad # {} PROVE FALSE
    OBVIOUS
  <2>1. Bad \in SUBSET Nat /\ Bad \in SUBSET (0..n)
    OBVIOUS
  <2> HIDE DEF Bad
  <2>2. PICK m \in Bad : \A k \in Bad : m <= k
    BY <2>1, LeastExists
  <2>3. m \in 1..n
    BY <1>9, <2>1, <2>2
  <2>4. m - 1 \notin Bad
    BY <2>1, <2>2, <2>3
  <2> QED
    BY <1>10, <2>2, <2>3, <2>4
<1>12. W[n] = F[c]
  <2>1. Before(n + 1) = P
    BY <1>a
  <2>2. n \in 0..n
    OBVIOUS
  <2> QED
    BY <1>11, <2>1, <2>2
<1> QED
  BY <1>3, <1>6, <1>7, <1>12

(* The values of a function of three arguments, added up in any order.     *)
Together(f) == SumOf([i \in 1..3 |-> f[SetToSeq(DOMAIN f)[i]]])

Three(S, a, b, c) == S = {a, b, c} /\ a # b /\ b # c /\ a # c

LEMMA SummedUp ==
  ASSUME NEW S, NEW f, f \in [S -> Int], NEW a, NEW b, NEW c, Three(S, a, b, c)
  PROVE  Together(f) = f[a] + f[b] + f[c]
<1>0. f \in [{a, b, c} -> Int] /\ a # b /\ b # c /\ a # c
  BY DEF Three
<1>1. IsFiniteSet({a, b, c}) /\ Cardinality({a, b, c}) = 3
  <2>1. IsFiniteSet({a}) /\ Cardinality({a}) = 1
    BY FS_Singleton
  <2>2. IsFiniteSet({a} \cup {b}) /\ Cardinality({a} \cup {b}) = 2
    <3>1. b \notin {a}
      BY <1>0
    <3> QED
      BY <2>1, <3>1, FS_AddElement
  <2>3. IsFiniteSet(({a} \cup {b}) \cup {c}) /\ Cardinality(({a} \cup {b}) \cup {c}) = 3
    <3>1. PICK T : T = {a} \cup {b}
      OBVIOUS
    <3>2. c \notin T /\ IsFiniteSet(T) /\ Cardinality(T) = 2
      BY <1>0, <2>2, <3>1
    <3>3. IsFiniteSet(T \cup {c}) /\ Cardinality(T \cup {c}) = 3
      BY <3>2, FS_AddElement
    <3> QED
      BY <3>1, <3>3
  <2>4. {a, b, c} = ({a} \cup {b}) \cup {c}
    OBVIOUS
  <2> QED
    BY <2>3, <2>4
<1>2. PICK s : s = SetToSeq({a, b, c})
  OBVIOUS
<1>3. /\ s \in Seq({a, b, c}) /\ DOMAIN s = 1..3
      /\ \A i, j \in DOMAIN s : s[i] = s[j] => i = j
  BY <1>1, <1>2, SetListed
<1>4. /\ s[1] \in {a, b, c} /\ s[2] \in {a, b, c} /\ s[3] \in {a, b, c}
      /\ s[1] # s[2] /\ s[2] # s[3] /\ s[1] # s[3]
  <2>1. 1 \in DOMAIN s /\ 2 \in DOMAIN s /\ 3 \in DOMAIN s
    BY <1>3
  <2>2. \A i \in DOMAIN s : s[i] \in {a, b, c}
    <3>1. Len(s) = 3
      BY <1>3, LenProperties
    <3> QED
      BY <1>3, <3>1, ElementOfSeq
  <2> QED
    BY <1>3, <2>1, <2>2
<1>5. PICK list : list = [i \in 1..3 |-> f[s[i]]]
  OBVIOUS
<1>6. list \in [1..3 -> Int]
  BY <1>0, <1>3, <1>4, <1>5
<1>7. SumOf(list) = list[1] + list[2] + list[3]
  <2>1. list \in Seq(Int) /\ Len(list) = 3
    BY <1>6, FunctionIsList
  <2> QED
    BY <2>1, SumOfThree
<1>8. list[1] = f[s[1]] /\ list[2] = f[s[2]] /\ list[3] = f[s[3]]
  BY <1>5
<1>9. f[a] \in Int /\ f[b] \in Int /\ f[c] \in Int
  BY <1>0
<1>10. DOMAIN f = {a, b, c}
  BY <1>0
<1>11. Together(f) = SumOf(list)
  BY <1>2, <1>5, <1>10, Zenon DEF Together
<1> QED
  BY <1>4, <1>7, <1>8, <1>9, <1>11

(* The elements of a finite set by kind. *)
LEMMA PartsAddUp ==
  ASSUME NEW D, IsFiniteSet(D), NEW A, NEW B, D = A \cup B, A \cap B = {}
  PROVE  /\ IsFiniteSet(A) /\ IsFiniteSet(B) /\ Cardinality(A) \in Nat /\ Cardinality(B) \in Nat
         /\ Cardinality(D) = Cardinality(A) + Cardinality(B)
<1>1. IsFiniteSet(A) /\ IsFiniteSet(B)
  BY FS_Subset
<1>2. Cardinality(A) \in Nat /\ Cardinality(B) \in Nat
  BY <1>1, FS_CardinalityType
<1>3. Cardinality(A \cup B) = Cardinality(A) + Cardinality(B) - Cardinality(A \cap B)
  BY <1>1, FS_Union
<1>4. Cardinality(A \cap B) = 0
  BY FS_EmptySet
<1> QED
  BY <1>1, <1>2, <1>3, <1>4

ThreeParts(D, A, B, C) ==
  /\ D = A \cup B \cup C
  /\ A \cap B = {} /\ A \cap C = {} /\ B \cap C = {}

LEMMA ThreePartsAddUp ==
  ASSUME NEW D, IsFiniteSet(D), NEW A, NEW B, NEW C, ThreeParts(D, A, B, C)
  PROVE  /\ Cardinality(A) \in Nat /\ Cardinality(B) \in Nat /\ Cardinality(C) \in Nat
         /\ Cardinality(D) = Cardinality(A) + Cardinality(B) + Cardinality(C)
<1>1. PICK E : E = B \cup C
  OBVIOUS
<1>2. D = A \cup E /\ A \cap E = {} /\ B \cap C = {}
  BY <1>1 DEF ThreeParts
<1>3. /\ IsFiniteSet(E) /\ Cardinality(A) \in Nat
      /\ Cardinality(D) = Cardinality(A) + Cardinality(E)
  BY <1>2, PartsAddUp
<1>4. /\ Cardinality(B) \in Nat /\ Cardinality(C) \in Nat
      /\ Cardinality(E) = Cardinality(B) + Cardinality(C)
  BY <1>1, <1>2, <1>3, PartsAddUp
<1> QED
  BY <1>3, <1>4

=============================================================================
