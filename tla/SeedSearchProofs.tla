-------------------------- MODULE SeedSearchProofs --------------------------
(***************************************************************************)
(* Proofs about SeedSearch, for any articles, boxes, similarities, floor,  *)
(* window and number of boxes of the seed.                                 *)
(***************************************************************************)
EXTENDS SeedSearch, QuestionProofs

-----------------------------------------------------------------------------
(***************************************************************************)
(* The searches                                                            *)
(***************************************************************************)

LEMMA NearestArticlesIsSorted ==
  ASSUME NEW S, Identified(S), \A x \in S : x.sim \in Int
  PROVE  \E R : /\ Orders(R, S) /\ SortedBy(NearestArticles(S), R, S)
               /\ \A x, y \in S : <<x, y>> \in R => x.sim >= y.sim
<1> DEFINE Before(x, y) == x.sim > y.sim \/ (x.sim = y.sim /\ x.id < y.id)
           R == {p \in S \X S : Before(p[1], p[2])}
           Earlier(x) == {y \in S : Before(y, x)}
           f == NearestArticles(S)
<1>1. /\ Orders(R, S)
      /\ \A x, y \in S : <<x, y>> \in R => x.sim >= y.sim
  BY DEF Orders, Identified
<1>2. \A x \in S : Below(R, S, x) = Earlier(x)
  BY DEF Below
<1>3. f = [n \in 1..Cardinality(S) |-> CHOOSE x \in S : Cardinality(Earlier(x)) = n - 1]
  BY DEF NearestArticles, ByScore, Ordered
<1> HIDE DEF R, Earlier, f
<1>4. \A n \in 1..Cardinality(S) : \E x \in S : Cardinality(Below(R, S, x)) = n - 1
  BY <1>1, RowOfRank DEF Identified
<1>5. \A n \in 1..Cardinality(S) : f[n] \in S /\ Cardinality(Earlier(f[n])) = n - 1
  BY <1>2, <1>3, <1>4
<1>6. SortedBy(f, R, S)
  BY <1>2, <1>3, <1>5 DEF SortedBy
<1> QED
  BY <1>1, <1>6 DEF f

LEMMA NearestBoxesIsSorted ==
  ASSUME NEW S, Identified(S), NEW s, \A x \in S : x.sim[s] \in Int
  PROVE  \E R : /\ Orders(R, S) /\ SortedBy(NearestBoxes(S, s), R, S)
               /\ \A x, y \in S : <<x, y>> \in R => x.sim[s] >= y.sim[s]
<1> DEFINE Before(x, y) == x.sim[s] > y.sim[s] \/ (x.sim[s] = y.sim[s] /\ x.id < y.id)
           R == {p \in S \X S : Before(p[1], p[2])}
           Earlier(x) == {y \in S : Before(y, x)}
           f == NearestBoxes(S, s)
<1>1. /\ Orders(R, S)
      /\ \A x, y \in S : <<x, y>> \in R => x.sim[s] >= y.sim[s]
  BY DEF Orders, Identified
<1>2. \A x \in S : Below(R, S, x) = Earlier(x)
  BY DEF Below
<1>3. f = [n \in 1..Cardinality(S) |-> CHOOSE x \in S : Cardinality(Earlier(x)) = n - 1]
  BY DEF NearestBoxes, ByScore, Ordered
<1> HIDE DEF R, Earlier, f
<1>4. \A n \in 1..Cardinality(S) : \E x \in S : Cardinality(Below(R, S, x)) = n - 1
  BY <1>1, RowOfRank DEF Identified
<1>5. \A n \in 1..Cardinality(S) : f[n] \in S /\ Cardinality(Earlier(f[n])) = n - 1
  BY <1>2, <1>3, <1>4
<1>6. SortedBy(f, R, S)
  BY <1>2, <1>3, <1>5 DEF SortedBy
<1> QED
  BY <1>1, <1>6 DEF f

(* What the database and the command line guarantee of a search: different *)
(* rows have different ids, a box belongs to an article and can be         *)
(* compared with every embedded box of the seed, a seed that is found is   *)
(* an article, and --months and --top are numbers when they are given.     *)
OptionalNumber(o) == o = <<>> \/ \E n \in Nat : o = <<n>>

SearchAsked(q) ==
  /\ q.command \in {"search", "insights"}
  /\ q.k \in Nat /\ q.floor \in Int /\ q.seedBoxes \in Nat /\ q.exclusive \in BOOLEAN
  /\ OptionalNumber(q.months) /\ OptionalNumber(q.top)
  /\ q.seed \in {"none", "missing", "found"}
  /\ q.seed = "found" => \E a \in q.articles : a.id = Seed
  /\ Identified(q.articles) /\ \A a \in q.articles : a.at \in Int /\ a.sim \in Int
  /\ Identified(q.boxes)
  /\ \A b \in q.boxes : /\ \E a \in q.articles : a.id = b.article
                        /\ \A s \in 1..q.seedBoxes : b.sim[s] \in Int

LEMMA RowIsArticle ==
  ASSUME NEW q, SearchAsked(q), NEW a \in q.articles
  PROVE  RowOf(q, a.id) = a
<1>1. RowOf(q, a.id) \in q.articles /\ RowOf(q, a.id).id = a.id
  BY DEF RowOf
<1> QED
  BY <1>1 DEF SearchAsked, Identified

LEMMA ThreeRows ==
  ASSUME NEW a1, NEW a2, NEW a3, a1.id = 1, a2.id = 2, a3.id = 3,
         a1.at \in Int, a2.at \in Int, a3.at \in Int,
         a1.sim \in Int, a2.sim \in Int, a3.sim \in Int
  PROVE  Identified({a1, a2, a3}) /\ \A a \in {a1, a2, a3} : a.at \in Int /\ a.sim \in Int
<1>1. IsFiniteSet({a1, a2, a3})
  BY FewElements
<1> QED
  BY <1>1 DEF Identified

LEMMA AskedNumbers ==
  /\ \A t \in {Undated, 11} \cup {Undated, 6, 7, 9, 10, 11} \cup {3, 10, 12} : t \in Int
  /\ \A n \in {0, 2} \cup 0..3 : n \in Int
  /\ 2 \in Nat /\ 2 \in Int /\ 3 \in Int
<1>1. Undated \in Int
  BY DEF Undated
<1> QED
  BY <1>1

(* The searches that are model-checked are such searches. *)
LEMMA AskedSearch == AskSearch \/ AskRelated => SearchAsked(question')
<1> DEFINE q == question'
<1>1. ASSUME AskSearch PROVE SearchAsked(q)
  <2>1. PICK seed \in {"none", "found", "missing"}, text \in {"nothing", "query", "statement", "broken file"},
             months \in {<<>>, <<1>>}, exclusive \in BOOLEAN, floor \in {0, 2},
             at1 \in {Undated, 11}, at2 \in {Undated, 6, 7, 9, 10, 11}, at3 \in {3, 10, 12},
             s \in 0..3 :
          q = SearchQuestion("search", seed, text, months, exclusive, floor, at2,
            {Row(1, at1, 3, TRUE), Row(2, at2, s, TRUE), Row(3, at3, 2, s # 1)}, {}, <<>>)
    BY <1>1, Zenon DEF AskSearch
  <2> DEFINE a1 == Row(1, at1, 3, TRUE)
             a2 == Row(2, at2, s, TRUE)
             a3 == Row(3, at3, 2, s # 1)
  <2> HIDE DEF q
  <2>2. /\ q.command = "search" /\ q.seed = seed /\ q.k = 2 /\ q.floor = floor
        /\ q.seedBoxes = 2 /\ q.exclusive = exclusive /\ q.months = months /\ q.top = <<>>
        /\ q.articles = {a1, a2, a3} /\ q.boxes = {}
    BY <2>1, Zenon DEF SearchQuestion
  <2>3. /\ a1.id = 1 /\ a1.at = at1 /\ a1.sim = 3
        /\ a2.id = 2 /\ a2.at = at2 /\ a2.sim = s
        /\ a3.id = 3 /\ a3.at = at3 /\ a3.sim = 2
    BY Zenon DEF Row
  <2>4. at1 \in Int /\ at2 \in Int /\ at3 \in Int
    BY AskedNumbers, Zenon
  <2>5. s \in Int /\ floor \in Int /\ 3 \in Int /\ 2 \in Int /\ 2 \in Nat /\ IsFiniteSet({})
    BY AskedNumbers, FS_EmptySet, Zenon
  <2> HIDE DEF a1, a2, a3
  <2>6. a1 \in q.articles
    BY <2>2, Zenon
  <2>7. Identified(q.articles) /\ \A a \in q.articles : a.at \in Int /\ a.sim \in Int
    <3>1. Identified({a1, a2, a3}) /\ \A a \in {a1, a2, a3} : a.at \in Int /\ a.sim \in Int
      BY <2>3, <2>4, <2>5, ThreeRows, Zenon
    <3> QED
      BY <2>2, <3>1, Zenon
  <2>8. Identified(q.boxes)
    BY <2>2, <2>5 DEF Identified
  <2>9. \E a \in q.articles : a.id = Seed
    BY <2>3, <2>6, Zenon DEF Seed
  <2>10. OptionalNumber(q.months) /\ OptionalNumber(q.top)
    BY <2>2 DEF OptionalNumber
  <2>11. /\ q.command \in {"search", "insights"} /\ q.exclusive \in BOOLEAN
         /\ q.seed \in {"none", "missing", "found"}
    BY <2>2, Zenon
  <2>12. q.k \in Nat /\ q.floor \in Int /\ q.seedBoxes \in Nat /\ \A b \in q.boxes : FALSE
    BY <2>2, <2>5, Zenon
  <2> QED
    BY <2>7, <2>8, <2>9, <2>10, <2>11, <2>12, Zenon DEF SearchAsked
<1>2. ASSUME AskRelated PROVE SearchAsked(q)
  <2>1. PICK exclusive \in BOOLEAN, floor \in {0, 2}, at \in {7, 10, 11},
             x1 \in {2, 3}, x2 \in {2, 3}, s1 \in BoxSims, s2 \in BoxSims, s3 \in BoxSims,
             top \in {<<>>, <<1>>} :
          q = SearchQuestion("insights", "found", "nothing", <<1>>, exclusive, floor, at,
            {Row(1, 11, 0, TRUE), Row(2, at, 0, TRUE), Row(3, 8, 0, TRUE)},
            {[id |-> 1, article |-> x1, sim |-> s1], [id |-> 2, article |-> x2, sim |-> s2],
             [id |-> 3, article |-> 3, sim |-> s3], [id |-> 4, article |-> 1, sim |-> <<9, 9>>]},
            top)
    BY <1>2, Zenon DEF AskRelated
  <2> DEFINE a1 == Row(1, 11, 0, TRUE)
             a2 == Row(2, at, 0, TRUE)
             a3 == Row(3, 8, 0, TRUE)
             b1 == [id |-> 1, article |-> x1, sim |-> s1]
             b2 == [id |-> 2, article |-> x2, sim |-> s2]
             b3 == [id |-> 3, article |-> 3, sim |-> s3]
             b4 == [id |-> 4, article |-> 1, sim |-> <<9, 9>>]
  <2> HIDE DEF q
  <2>2. /\ q.command = "insights" /\ q.seed = "found" /\ q.k = 2 /\ q.floor = floor
        /\ q.seedBoxes = 2 /\ q.exclusive = exclusive /\ q.months = <<1>> /\ q.top = top
        /\ q.articles = {a1, a2, a3} /\ q.boxes = {b1, b2, b3, b4}
    BY <2>1, Zenon DEF SearchQuestion
  <2>3. /\ a1.id = 1 /\ a1.at = 11 /\ a1.sim = 0
        /\ a2.id = 2 /\ a2.at = at /\ a2.sim = 0
        /\ a3.id = 3 /\ a3.at = 8 /\ a3.sim = 0
    BY Zenon DEF Row
  <2>4. /\ b1.id = 1 /\ b1.article = x1 /\ b1.sim = s1
        /\ b2.id = 2 /\ b2.article = x2 /\ b2.sim = s2
        /\ b3.id = 3 /\ b3.article = 3 /\ b3.sim = s3
        /\ b4.id = 4 /\ b4.article = 1 /\ b4.sim = <<9, 9>>
    OBVIOUS
  <2>5. \A s \in BoxSims : s[1] \in Int /\ s[2] \in Int
    BY DEF BoxSims
  <2>6. IsFiniteSet({a1, a2, a3}) /\ IsFiniteSet({b1, b2, b3, b4})
    BY FewElements
  <2> HIDE DEF a1, a2, a3, b1, b2, b3, b4
  <2>7. /\ \A a \in q.articles : a = a1 \/ a = a2 \/ a = a3
        /\ \A b \in q.boxes : b = b1 \/ b = b2 \/ b = b3 \/ b = b4
        /\ a1 \in q.articles /\ a2 \in q.articles /\ a3 \in q.articles
    BY <2>2
  <2>8. Identified(q.articles) /\ \A a \in q.articles : a.at \in Int /\ a.sim \in Int
    <3>1. IsFiniteSet(q.articles)
      BY <2>2, <2>6
    <3> QED
      BY <2>3, <2>7, <3>1 DEF Identified
  <2>9. Identified(q.boxes)
    <3>1. IsFiniteSet(q.boxes)
      BY <2>2, <2>6
    <3> QED
      BY <2>4, <2>7, <3>1 DEF Identified
  <2>10. ASSUME NEW b \in q.boxes
         PROVE  /\ \E a \in q.articles : a.id = b.article
                /\ \A s \in 1..q.seedBoxes : b.sim[s] \in Int
    <3>1. \E a \in q.articles : a.id = b.article
      BY <2>3, <2>4, <2>7
    <3>2. b.sim[1] \in Int /\ b.sim[2] \in Int
      <4>1. b.sim \in BoxSims \/ b.sim = <<9, 9>>
        BY <2>4, <2>7
      <4>2. <<9, 9>>[1] \in Int /\ <<9, 9>>[2] \in Int
        OBVIOUS
      <4> QED
        BY <2>5, <4>1, <4>2, Zenon
    <3>3. \A s \in 1..q.seedBoxes : s = 1 \/ s = 2
      BY <2>2
    <3> QED
      BY <3>1, <3>2, <3>3
  <2>11. \E a \in q.articles : a.id = Seed
    BY <2>3, <2>7 DEF Seed
  <2>12. OptionalNumber(q.months) /\ OptionalNumber(q.top)
    BY <2>2 DEF OptionalNumber
  <2> QED
    BY <2>2, <2>8, <2>9, <2>10, <2>11, <2>12 DEF SearchAsked
<1> QED
  BY <1>1, <1>2 DEF q

(* What a search returns: of the k nearest rows of the window those that   *)
(* reach the floor.                                                        *)
InWindow(q, exclude) == {a \in q.articles : BuildFilters(q, Window(q), exclude, a)}

LEMMA SearchHits ==
  ASSUME NEW q, SearchAsked(q), NEW exclude,
         NEW A, A = InWindow(q, exclude),
         NEW top, top = ToSet(FirstN(NearestArticles(A), q.k)),
         NEW hits, hits = ToSet(RunSearch(q, exclude))
  PROVE  /\ A \in SUBSET q.articles /\ IsFiniteSet(A)
         /\ top \in SUBSET A /\ IsFiniteSet(top)
         /\ Cardinality(top) = (IF q.k < Cardinality(A) THEN q.k ELSE Cardinality(A))
         /\ \A x \in top, y \in A \ top : x.sim >= y.sim
         /\ hits = {x \in top : x.sim >= q.floor}
<1>1. A \in SUBSET q.articles
  BY DEF InWindow
<1>2. Identified(A) /\ IsFiniteSet(A) /\ \A x \in A : x.sim \in Int
  BY <1>1, SubsetIdentified DEF SearchAsked, Identified
<1>3. PICK R : /\ Orders(R, A) /\ SortedBy(NearestArticles(A), R, A)
               /\ \A x, y \in A : <<x, y>> \in R => x.sim >= y.sim
  BY <1>2, NearestArticlesIsSorted
<1>4. q.k \in Nat
  BY DEF SearchAsked
<1>5. /\ top \in SUBSET A /\ IsFiniteSet(top)
      /\ Cardinality(top) = (IF q.k < Cardinality(A) THEN q.k ELSE Cardinality(A))
      /\ \A x \in top, y \in A \ top : <<x, y>> \in R
  BY <1>2, <1>3, <1>4, TopRows
<1>6. \A x \in top, y \in A \ top : x.sim >= y.sim
  BY <1>3, <1>5
<1>7. PICK list : list = FirstN(NearestArticles(A), q.k)
  OBVIOUS
<1>8. list \in Seq(A)
  BY <1>2, <1>3, <1>4, <1>7, LimitedRows
<1>9. PICK P : P = {i \in DOMAIN list : list[i].sim >= q.floor}
  OBVIOUS
<1>10. RunSearch(q, exclude) = Picked(list, P)
  BY <1>7, <1>9, Zenon DEF RunSearch, Filtered, Positions, InWindow
<1>11. hits = {list[i] : i \in P}
  <2>1. P \in SUBSET (DOMAIN list)
    BY <1>9
  <2> QED
    BY <1>8, <1>10, <2>1, PickedList
<1>12. hits = {x \in top : x.sim >= q.floor}
  BY <1>7, <1>9, <1>11 DEF ToSet
<1> QED
  BY <1>1, <1>2, <1>5, <1>6, <1>12

(* For any articles, window, k and floor: although the search cuts off at  *)
(* k before it applies the similarity floor, no article of the window that *)
(* reaches the floor is left out for a less similar one or while there is  *)
(* room.                                                                   *)
THEOREM SearchFloorLosesNothing == SearchAsked(question) => FloorLosesNothing
<1> DEFINE q == question
           exclude == IF HasSeed(q) /\ q.text # "statement" THEN Seed ELSE 0
           good == {a \in q.articles : a.sim >= q.floor /\ BuildFilters(q, Window(q), exclude, a)}
           hits == ToSet(Search(q))
<1> SUFFICES ASSUME SearchAsked(q)
             PROVE  /\ hits \subseteq good
                    /\ Cardinality(hits) < q.k => hits = good
                    /\ \A h \in hits, a \in good \ hits : a.sim <= h.sim
  BY Zenon DEF FloorLosesNothing
<1> DEFINE A == InWindow(q, exclude)
           top == ToSet(FirstN(NearestArticles(A), q.k))
<1>1. hits = ToSet(RunSearch(q, exclude))
  BY DEF Search
<1>2. good = {a \in A : a.sim >= q.floor}
  BY DEF InWindow
<1>3. \A a \in A : a.sim \in Int
  BY DEF InWindow, SearchAsked
<1>4. q.floor \in Int /\ q.k \in Nat
  BY DEF SearchAsked
<1> HIDE DEF q, exclude, good, hits, A, top
<1>5. /\ A \in SUBSET q.articles /\ IsFiniteSet(A)
      /\ top \in SUBSET A /\ IsFiniteSet(top)
      /\ Cardinality(top) = (IF q.k < Cardinality(A) THEN q.k ELSE Cardinality(A))
      /\ \A x \in top, y \in A \ top : x.sim >= y.sim
      /\ hits = {x \in top : x.sim >= q.floor}
  BY <1>1, SearchHits DEF A, top
<1>6. hits \subseteq good
  BY <1>2, <1>5
<1>7. \A h \in hits, a \in good \ hits : a.sim <= h.sim
  BY <1>2, <1>3, <1>5
<1>8. ASSUME Cardinality(hits) < q.k, NEW g \in good \ hits PROVE FALSE
  <2>1. g \in A /\ g.sim >= q.floor /\ g \notin top
    BY <1>2, <1>5, <1>8
  <2>2. \A x \in top : x.sim >= q.floor
    BY <1>3, <1>4, <1>5, <2>1
  <2>3. hits = top
    BY <1>5, <2>2
  <2>4. Cardinality(top) = Cardinality(A)
    <3>1. Cardinality(top) = (IF q.k < Cardinality(A) THEN q.k ELSE Cardinality(A))
      BY <1>5
    <3>2. ~(Cardinality(top) = q.k)
      <4>1. Cardinality(top) < q.k
        BY <1>8, <2>3
      <4> QED
        BY <1>4, <4>1
    <3> QED
      BY <3>1, <3>2, Zenon
  <2>5. top = A
    BY <1>5, <2>4, FS_Subset
  <2> QED
    BY <2>1, <2>5
<1> QED
  BY <1>6, <1>7, <1>8

-----------------------------------------------------------------------------
(***************************************************************************)
(* The consolidation of the hits                                           *)
(***************************************************************************)

Hits(X) == [article : X, sim : Int]
Entries(X) == [article : X, id : X, best : Int, matched : Nat, sum : Int]

(* An entry raised by a hit, field by field. *)
LEMMA RaisedEntry ==
  ASSUME NEW X, NEW r \in Entries(X), NEW hit \in Hits(X)
  PROVE  [r EXCEPT !.matched = @ + 1, !.sum = @ + hit.sim,
                   !.best = IF hit.sim > @ THEN hit.sim ELSE @]
           = [article |-> r.article, id |-> r.id,
              best |-> IF hit.sim > r.best THEN hit.sim ELSE r.best,
              matched |-> r.matched + 1, sum |-> r.sum + hit.sim]
<1> DEFINE r1 == [r EXCEPT !.matched = @ + 1]
           r2 == [r1 EXCEPT !.sum = @ + hit.sim]
           r3 == [r2 EXCEPT !.best = IF hit.sim > @ THEN hit.sim ELSE @]
<1>1. r1 = [article |-> r.article, id |-> r.id, best |-> r.best,
            matched |-> r.matched + 1, sum |-> r.sum]
  BY DEF Entries
<1>2. r2 = [article |-> r.article, id |-> r.id, best |-> r.best,
            matched |-> r.matched + 1, sum |-> r.sum + hit.sim]
  <2> HIDE DEF r1
  <2> QED
    BY <1>1
<1>3. r3 = [article |-> r.article, id |-> r.id,
            best |-> IF hit.sim > r.best THEN hit.sim ELSE r.best,
            matched |-> r.matched + 1, sum |-> r.sum + hit.sim]
  <2> HIDE DEF r2
  <2> QED
    BY <1>2
<1>4. [r EXCEPT !.matched = @ + 1, !.sum = @ + hit.sim,
                !.best = IF hit.sim > @ THEN hit.sim ELSE @] = r3
  BY Zenon
<1> QED
  BY <1>3, <1>4

LEMMA MergeType ==
  ASSUME NEW X, NEW agg \in SUBSET Entries(X), NEW hit \in Hits(X)
  PROVE  Merge(agg, hit) \in SUBSET Entries(X)
<1> DEFINE old == {r \in agg : r.article = hit.article}
           new == [article |-> hit.article, id |-> hit.article, best |-> hit.sim,
                   matched |-> 1, sum |-> hit.sim]
           Raised(r) == [r EXCEPT !.matched = @ + 1, !.sum = @ + hit.sim,
                                  !.best = IF hit.sim > @ THEN hit.sim ELSE @]
<1>1. hit.article \in X /\ hit.sim \in Int
  BY DEF Hits
<1>2. new \in Entries(X)
  BY <1>1 DEF Entries
<1>3. ASSUME NEW r \in Entries(X) PROVE Raised(r) \in Entries(X)
  <2> DEFINE best == IF hit.sim > r.best THEN hit.sim ELSE r.best
  <2>1. /\ r.article \in X /\ r.id \in X
        /\ r.best \in Int /\ r.matched \in Nat /\ r.sum \in Int
    BY DEF Entries
  <2>2. Raised(r) = [article |-> r.article, id |-> r.id, best |-> best,
                     matched |-> r.matched + 1, sum |-> r.sum + hit.sim]
    BY RaisedEntry, Zenon
  <2>3. /\ best \in Int
        /\ r.matched + 1 \in Nat /\ r.sum + hit.sim \in Int
    BY <1>1, <2>1
  <2> QED
    BY <2>1, <2>2, <2>3 DEF Entries
<1>4. Merge(agg, hit) = (agg \ old) \cup IF old = {} THEN {new} ELSE {Raised(r) : r \in old}
  BY DEF Merge
<1> HIDE DEF new, Raised
<1>5. {Raised(r) : r \in old} \in SUBSET Entries(X)
  BY <1>3
<1> QED
  BY <1>2, <1>4, <1>5

(* The hits of one box of the seed are merged one after the other. *)
MergesEach(F, acc, list, X) ==
  /\ F \in [0..Len(list) -> SUBSET Entries(X)] /\ F[0] = acc
  /\ \A i \in 1..Len(list) : F[i] = Merge(F[i - 1], list[i])

LEMMA MergeSteps ==
  ASSUME NEW X, NEW acc \in SUBSET Entries(X), NEW list \in Seq(Hits(X))
  PROVE  \E F : MergesEach(F, acc, list, X) /\ FoldLeft(Merge, acc, list) = F[Len(list)]
<1> DEFINE n == Len(list)
           D == SUBSET Entries(X)
           Merged(g) == g = [s \in SUBSET (DOMAIN list) |->
                               IF s = {} THEN acc ELSE Merge(g[s \ {Max(s)}], list[Max(s)])]
           h == CHOOSE g : Merged(g)
           G == [p \in D \X (1..n) |-> Merge(p[1], list[p[2]])]
           last == [s \in SUBSET (1..n) |-> Max(s)]
<1>1. n \in Nat /\ DOMAIN list = 1..n /\ \A i \in 1..n : list[i] \in Hits(X)
  BY LenProperties
<1>2. FoldLeft(Merge, acc, list) = h[1..n]
  BY <1>1 DEF FoldLeft, MapThenFoldSet
<1>3. G \in [D \X (1..n) -> D] /\ \A a \in D, i \in 1..n : G[<<a, i>>] = Merge(a, list[i])
  BY <1>1, MergeType
<1>4. \A s \in SUBSET (1..n) : last[s] = Max(s) /\ (s # {} => last[s] \in s)
  BY <1>1, LastIsElement
<1> HIDE DEF G, last, D
<1>5. Merged(h)
  <2>1. IsFiniteSet(1..n) /\ acc \in D
    BY <1>1, FirstNumbers DEF D
  <2>2. PICK g : Iterates(g, 1..n, D, acc, G, last)
    BY <1>3, <1>4, <2>1, IteratedExists
  <2>3. g \in [SUBSET (1..n) -> D]
    BY <2>2 DEF Iterates
  <2>4. ASSUME NEW s \in SUBSET (1..n)
        PROVE  g[s] = IF s = {} THEN acc ELSE Merge(g[s \ {Max(s)}], list[Max(s)])
    <3>1. g[s] = IF s = {} THEN acc ELSE G[<<g[s \ {last[s]}], last[s]>>]
      BY <2>2 DEF Iterates
    <3>2. s # {} => last[s] \in 1..n /\ last[s] = Max(s) /\ g[s \ {last[s]}] \in D
      BY <1>4, <2>3
    <3> QED
      BY <1>3, <3>1, <3>2
  <2>5. Merged(g)
    BY <1>1, <2>3, <2>4
  <2> QED
    BY <2>5
<1> HIDE DEF h
<1>6. h[{}] = acc /\ \A s \in SUBSET (1..n) : s # {} => h[s] = Merge(h[s \ {Max(s)}], list[Max(s)])
  BY <1>1, <1>5
<1>7. Unfolds(h, n, D, acc, G)
  <2>1. ASSUME NEW s \in SUBSET (1..n), s # {}, h[s \ {Max(s)}] \in D
        PROVE  h[s] = G[<<h[s \ {Max(s)}], Max(s)>>]
    <3>1. Max(s) \in 1..n
      BY <1>4, <2>1
    <3> QED
      BY <1>3, <1>6, <2>1, <3>1
  <2> QED
    BY <1>3, <1>6, <2>1 DEF Unfolds, D
<1>8. PICK F : Accumulates(F, n, D, acc, G) /\ F[n] = h[1..n]
  <2> HIDE DEF n
  <2> QED
    BY <1>1, <1>7, Unrolled
<1>9. F \in [0..n -> D] /\ F[0] = acc /\ \A i \in 1..n : F[i] = G[<<F[i - 1], i>>]
  BY <1>8 DEF Accumulates
<1>10. ASSUME NEW i \in 1..n PROVE F[i] = Merge(F[i - 1], list[i])
  <2>1. i - 1 \in 0..n
    BY <1>1
  <2> QED
    BY <1>3, <1>9, <2>1
<1> QED
  BY <1>2, <1>8, <1>9, <1>10 DEF MergesEach, D

LEMMA BestListed ==
  ASSUME NEW X, NEW hits \in Seq(Hits(X)), NEW list, list = SetToSeq(BestForSeed(hits))
  PROVE  /\ list \in Seq(Hits(X)) /\ DOMAIN list = 1..Len(list) /\ Len(list) \in Nat
         /\ \A i \in DOMAIN list : list[i] \in BestForSeed(hits)
         /\ \A h \in BestForSeed(hits) : \E i \in DOMAIN list : list[i] = h
         /\ \A i, j \in DOMAIN list : list[i] = list[j] => i = j
<1> DEFINE S == BestForSeed(hits)
<1>1. ToSet(hits) \in SUBSET Hits(X)
  BY LenProperties DEF ToSet
<1>2. IsFiniteSet(ToSet(hits))
  <2>1. hits \in Surjection(1..Len(hits), ToSet(hits)) /\ IsFiniteSet(1..Len(hits))
    BY LenProperties, FirstNumbers DEF ToSet, Surjection
  <2> QED
    BY <2>1, FS_Surjection
<1>3. S \in SUBSET ToSet(hits)
  BY DEF BestForSeed
<1>4. IsFiniteSet(S)
  BY <1>2, <1>3, FS_Subset
<1> HIDE DEF S
<1>5. /\ list \in Seq(S) /\ DOMAIN list = 1..Len(list) /\ Len(list) \in Nat
      /\ \A x \in S : \E i \in DOMAIN list : list[i] = x
      /\ \A i, j \in DOMAIN list : list[i] = list[j] => i = j
  BY <1>4, SetListed DEF S
<1>6. \A i \in DOMAIN list : list[i] \in S
  BY <1>5
<1>7. list \in Seq(Hits(X))
  BY <1>1, <1>3, <1>5, <1>6
<1> QED
  BY <1>5, <1>6, <1>7 DEF S


(* What RunInsightSearch returns for a box of the seed are hits of articles *)
(* that the options select and the window holds, the seed left out.         *)
LEMMA RelatedHits ==
  ASSUME NEW q, SearchAsked(q), NEW X, X = {a.id : a \in InWindow(q, Seed)},
         NEW s \in 1..q.seedBoxes
  PROVE  RunInsightSearch(q, Seed, s) \in Seq(Hits(X))
<1> DEFINE rows == {b \in q.boxes : BuildFilters(q, Window(q), Seed, RowOf(q, b.article))}
           list == FirstN(NearestBoxes(rows, s), q.k)
           P == {i \in DOMAIN list : list[i].sim[s] >= q.floor}
           hits == Picked(list, P)
<1>1. rows \in SUBSET q.boxes /\ Identified(rows) /\ IsFiniteSet(rows)
  BY SubsetIdentified DEF SearchAsked, Identified
<1>2. ASSUME NEW b \in rows PROVE b.article \in X /\ b.sim[s] \in Int
  <2>1. PICK a \in q.articles : a.id = b.article
    BY <1>1 DEF SearchAsked
  <2>2. RowOf(q, b.article) = a
    BY <2>1, RowIsArticle
  <2>3. a \in InWindow(q, Seed)
    BY <2>1, <2>2 DEF InWindow
  <2>4. b.sim[s] \in Int
    BY <1>1 DEF SearchAsked
  <2> QED
    BY <2>1, <2>3, <2>4
<1>3. RunInsightSearch(q, Seed, s) =
        [i \in DOMAIN hits |-> [article |-> hits[i].article, sim |-> hits[i].sim[s]]]
  BY Zenon DEF RunInsightSearch, Filtered, Positions
<1>4. q.k \in Nat
  BY DEF SearchAsked
<1> HIDE DEF rows, list, P, hits
<1>5. PICK R : Orders(R, rows) /\ SortedBy(NearestBoxes(rows, s), R, rows)
  <2>1. \A x \in rows : x.sim[s] \in Int
    BY <1>2
  <2> QED
    BY <1>1, <2>1, NearestBoxesIsSorted
<1>6. list \in Seq(rows)
  BY <1>1, <1>4, <1>5, LimitedRows DEF list
<1>7. P \in SUBSET (DOMAIN list)
  BY DEF P
<1>8. hits \in Seq(rows)
  BY <1>6, <1>7, PickedList DEF hits
<1>9. Len(hits) \in Nat /\ DOMAIN hits = 1..Len(hits) /\ \A i \in DOMAIN hits : hits[i] \in rows
  BY <1>8, LenProperties
<1>10. \A i \in DOMAIN hits : [article |-> hits[i].article, sim |-> hits[i].sim[s]] \in Hits(X)
  BY <1>2, <1>9 DEF Hits
<1>11. RunInsightSearch(q, Seed, s) \in [1..Len(hits) -> Hits(X)]
  BY <1>3, <1>9, <1>10
<1> QED
  BY <1>9, <1>11

(* The groups of hits are merged one after the other. *)
GroupsEach(E, groups, X) ==
  /\ E \in [0..Len(groups) -> SUBSET Entries(X)] /\ E[0] = {}
  /\ \A i \in 1..Len(groups) : E[i] = MergeGroup(E[i - 1], groups[i])

LEMMA GroupType ==
  ASSUME NEW X, NEW agg \in SUBSET Entries(X), NEW hits \in Seq(Hits(X))
  PROVE  MergeGroup(agg, hits) \in SUBSET Entries(X)
<1>1. PICK list : list = SetToSeq(BestForSeed(hits))
  OBVIOUS
<1>2. list \in Seq(Hits(X)) /\ Len(list) \in Nat
  BY <1>1, BestListed
<1>3. PICK F : MergesEach(F, agg, list, X) /\ FoldLeft(Merge, agg, list) = F[Len(list)]
  BY <1>2, MergeSteps
<1>4. F[Len(list)] \in SUBSET Entries(X)
  BY <1>2, <1>3 DEF MergesEach
<1> QED
  BY <1>1, <1>3, <1>4 DEF MergeGroup

LEMMA GroupSteps ==
  ASSUME NEW X, NEW groups \in Seq(Seq(Hits(X)))
  PROVE  \E E : GroupsEach(E, groups, X) /\ Aggregate(groups) = E[Len(groups)]
<1> DEFINE n == Len(groups)
           D == SUBSET Entries(X)
           Merged(g) == g = [s \in SUBSET (DOMAIN groups) |->
                               IF s = {} THEN {} ELSE MergeGroup(g[s \ {Max(s)}], groups[Max(s)])]
           h == CHOOSE g : Merged(g)
           G == [p \in D \X (1..n) |-> MergeGroup(p[1], groups[p[2]])]
           last == [s \in SUBSET (1..n) |-> Max(s)]
<1>1. n \in Nat /\ DOMAIN groups = 1..n /\ \A i \in 1..n : groups[i] \in Seq(Hits(X))
  BY LenProperties
<1>2. Aggregate(groups) = h[1..n]
  BY <1>1 DEF Aggregate, FoldLeft, MapThenFoldSet
<1>3. G \in [D \X (1..n) -> D] /\ \A a \in D, i \in 1..n : G[<<a, i>>] = MergeGroup(a, groups[i])
  BY <1>1, GroupType
<1>4. \A s \in SUBSET (1..n) : last[s] = Max(s) /\ (s # {} => last[s] \in s)
  BY <1>1, LastIsElement
<1>a. {} \in D
  OBVIOUS
<1> HIDE DEF G, last, D
<1>5. Merged(h)
  <2>1. IsFiniteSet(1..n)
    BY <1>1, FirstNumbers
  <2>2. PICK g : Iterates(g, 1..n, D, {}, G, last)
    BY <1>a, <1>3, <1>4, <2>1, IteratedExists
  <2>3. g \in [SUBSET (1..n) -> D]
    BY <2>2 DEF Iterates
  <2>4. ASSUME NEW s \in SUBSET (1..n)
        PROVE  g[s] = IF s = {} THEN {} ELSE MergeGroup(g[s \ {Max(s)}], groups[Max(s)])
    <3>1. g[s] = IF s = {} THEN {} ELSE G[<<g[s \ {last[s]}], last[s]>>]
      BY <2>2 DEF Iterates
    <3>2. s # {} => last[s] \in 1..n /\ last[s] = Max(s) /\ g[s \ {last[s]}] \in D
      BY <1>4, <2>3
    <3> QED
      BY <1>3, <3>1, <3>2
  <2>5. Merged(g)
    BY <1>1, <2>3, <2>4
  <2> QED
    BY <2>5
<1> HIDE DEF h
<1>6. /\ h[{}] = {}
      /\ \A s \in SUBSET (1..n) : s # {} => h[s] = MergeGroup(h[s \ {Max(s)}], groups[Max(s)])
  BY <1>1, <1>5
<1>7. Unfolds(h, n, D, {}, G)
  <2>1. ASSUME NEW s \in SUBSET (1..n), s # {}, h[s \ {Max(s)}] \in D
        PROVE  h[s] = G[<<h[s \ {Max(s)}], Max(s)>>]
    <3>1. Max(s) \in 1..n
      BY <1>4, <2>1
    <3> QED
      BY <1>3, <1>6, <2>1, <3>1
  <2> QED
    BY <1>a, <1>3, <1>6, <2>1 DEF Unfolds
<1>8. PICK E : Accumulates(E, n, D, {}, G) /\ E[n] = h[1..n]
  <2> HIDE DEF n
  <2> QED
    BY <1>1, <1>7, Unrolled
<1>9. E \in [0..n -> D] /\ E[0] = {} /\ \A i \in 1..n : E[i] = G[<<E[i - 1], i>>]
  BY <1>8 DEF Accumulates
<1>10. ASSUME NEW i \in 1..n PROVE E[i] = MergeGroup(E[i - 1], groups[i])
  <2>1. i - 1 \in 0..n
    BY <1>1
  <2> QED
    BY <1>3, <1>9, <2>1
<1> QED
  BY <1>2, <1>8, <1>9, <1>10 DEF GroupsEach, D


(* What merging the hits B, one of each article, makes of the entries agg:  *)
(* an entry of its own for every article, raised by its hit when there is   *)
(* one.                                                                     *)
Keyed(agg) ==
  /\ \A r \in agg : r.id = r.article
  /\ \A r, o \in agg : r.article = o.article => r = o

Raised(r, old, h) ==
  /\ r.matched = old.matched + 1 /\ r.sum = old.sum + h.sim
  /\ r.best = IF h.sim > old.best THEN h.sim ELSE old.best

Opened(r, h) == r.matched = 1 /\ r.sum = h.sim /\ r.best = h.sim

Counted(r, agg, h) ==
  \/ \E old \in agg : old.article = r.article /\ Raised(r, old, h)
  \/ (\A old \in agg : old.article # r.article) /\ Opened(r, h)

Adds(N, agg, B, X) ==
  /\ N \in SUBSET Entries(X) /\ Keyed(N)
  /\ \A r \in N : \/ r \in agg /\ \A h \in B : h.article # r.article
                  \/ \E h \in B : h.article = r.article /\ Counted(r, agg, h)
  /\ \A o \in agg : \E r \in N : r.article = o.article
  /\ \A h \in B : \E r \in N : r.article = h.article

LEMMA MergeEntry ==
  ASSUME NEW X, NEW N \in SUBSET Entries(X), Keyed(N), NEW hit \in Hits(X)
  PROVE  /\ Merge(N, hit) \in SUBSET Entries(X)
         /\ \A r \in Merge(N, hit) :
              \/ r \in N /\ r.article # hit.article
              \/ r.article = hit.article /\ r.id = hit.article /\ Counted(r, N, hit)
         /\ \A r \in N : r.article # hit.article => r \in Merge(N, hit)
         /\ \E r \in Merge(N, hit) : r.article = hit.article
         /\ \A r, o \in Merge(N, hit) : r.article = hit.article /\ o.article = hit.article => r = o
<1> DEFINE old == {r \in N : r.article = hit.article}
           new == [article |-> hit.article, id |-> hit.article, best |-> hit.sim,
                   matched |-> 1, sum |-> hit.sim]
           Up(r) == [r EXCEPT !.matched = @ + 1, !.sum = @ + hit.sim,
                              !.best = IF hit.sim > @ THEN hit.sim ELSE @]
           M == Merge(N, hit)
<1>1. M \in SUBSET Entries(X)
  BY MergeType
<1>2. M = (N \ old) \cup IF old = {} THEN {new} ELSE {Up(r) : r \in old}
  BY DEF Merge
<1>3. new.article = hit.article /\ new.id = hit.article /\ Opened(new, hit)
  BY DEF Opened
<1>4. ASSUME NEW r \in Entries(X)
      PROVE  Up(r).article = r.article /\ Up(r).id = r.id /\ Raised(Up(r), r, hit)
  <2>1. Up(r) = [article |-> r.article, id |-> r.id,
                 best |-> IF hit.sim > r.best THEN hit.sim ELSE r.best,
                 matched |-> r.matched + 1, sum |-> r.sum + hit.sim]
    BY RaisedEntry, Zenon
  <2> HIDE DEF Up
  <2> QED
    BY <2>1 DEF Raised
<1> HIDE DEF new, Up, M
<1>5. CASE old = {}
  <2>1. M = N \cup {new} /\ \A r \in N : r.article # hit.article
    BY <1>2, <1>5
  <2>2. Counted(new, N, hit)
    BY <1>3, <2>1 DEF Counted
  <2> QED
    BY <1>1, <1>3, <2>1, <2>2 DEF M
<1>6. CASE old # {}
  <2>1. PICK o \in N : o.article = hit.article
    BY <1>6
  <2>2. old = {o}
    BY <2>1 DEF Keyed
  <2>3. M = (N \ {o}) \cup {Up(o)}
    BY <1>2, <2>2
  <2>4. Up(o).article = hit.article /\ Up(o).id = hit.article /\ Raised(Up(o), o, hit)
    BY <1>4, <2>1 DEF Keyed
  <2>5. Counted(Up(o), N, hit)
    BY <2>1, <2>4 DEF Counted
  <2>6. \A r \in N : r.article = hit.article => r = o
    BY <2>1 DEF Keyed
  <2> QED
    BY <1>1, <2>1, <2>3, <2>4, <2>5, <2>6 DEF M
<1> QED
  BY <1>5, <1>6

LEMMA MergeAdds ==
  ASSUME NEW X, NEW agg \in SUBSET Entries(X), Keyed(agg), NEW B, NEW N, Adds(N, agg, B, X),
         NEW hit \in Hits(X), \A h \in B : h.article # hit.article
  PROVE  Adds(Merge(N, hit), agg, B \cup {hit}, X)
<1>1. N \in SUBSET Entries(X) /\ Keyed(N)
  BY DEF Adds
<1> DEFINE M == Merge(N, hit)
           C == B \cup {hit}
<1>2. /\ M \in SUBSET Entries(X)
      /\ \A r \in M : \/ r \in N /\ r.article # hit.article
                      \/ r.article = hit.article /\ r.id = hit.article /\ Counted(r, N, hit)
      /\ \A r \in N : r.article # hit.article => r \in M
      /\ \E r \in M : r.article = hit.article
      /\ \A r, o \in M : r.article = hit.article /\ o.article = hit.article => r = o
  BY <1>1, MergeEntry
<1> HIDE DEF M
<1>3. Keyed(M)
  BY <1>1, <1>2 DEF Keyed
<1>4. \A o \in N : o.article = hit.article => o \in agg
  BY DEF Adds
<1>5. \A o \in agg : o.article = hit.article => o \in N
  <2> TAKE o \in agg
  <2> HAVE o.article = hit.article
  <2>1. PICK r \in N : r.article = o.article
    BY DEF Adds
  <2>2. r \in agg
    BY <1>4, <2>1
  <2>3. r = o
    BY <2>1, <2>2 DEF Keyed
  <2> QED
    BY <2>1, <2>3
<1>6. ASSUME NEW r \in M
      PROVE  \/ r \in agg /\ \A h \in C : h.article # r.article
             \/ \E h \in C : h.article = r.article /\ Counted(r, agg, h)
  <2>1. CASE r \in N /\ r.article # hit.article
    <3>1. \/ r \in agg /\ \A h \in B : h.article # r.article
          \/ \E h \in B : h.article = r.article /\ Counted(r, agg, h)
      BY <2>1 DEF Adds
    <3> QED
      BY <2>1, <3>1
  <2>2. CASE r.article = hit.article /\ Counted(r, N, hit)
    <3>1. Counted(r, agg, hit)
      BY <1>4, <1>5, <2>2 DEF Counted
    <3> QED
      BY <2>2, <3>1
  <2> QED
    BY <1>2, <2>1, <2>2
<1>7. \A o \in agg : \E r \in M : r.article = o.article
  BY <1>2 DEF Adds
<1>8. \A h \in C : \E r \in M : r.article = h.article
  BY <1>2 DEF Adds
<1>9. Adds(M, agg, C, X)
  BY <1>2, <1>3, <1>6, <1>7, <1>8 DEF Adds
<1> QED
  BY <1>9 DEF M


LEMMA OneBestEach ==
  ASSUME NEW X, NEW hits \in Seq(Hits(X))
  PROVE  /\ BestForSeed(hits) \in SUBSET Hits(X)
         /\ \A g, h \in BestForSeed(hits) : g.article = h.article => g = h
<1>1. BestForSeed(hits) \in SUBSET Hits(X)
  BY LenProperties DEF BestForSeed, ToSet
<1>2. ASSUME NEW g \in BestForSeed(hits), NEW h \in BestForSeed(hits), g.article = h.article
      PROVE  g = h
  <2>1. g.sim \in Int /\ h.sim \in Int
    BY <1>1 DEF Hits
  <2>2. g.sim <= h.sim /\ h.sim <= g.sim
    BY <1>2 DEF BestForSeed
  <2>3. g.sim = h.sim
    BY <2>1, <2>2
  <2> QED
    BY <1>1, <1>2, <2>3 DEF Hits
<1> QED
  BY <1>1, <1>2

LEMMA GroupAdds ==
  ASSUME NEW X, NEW agg \in SUBSET Entries(X), Keyed(agg), NEW hits \in Seq(Hits(X))
  PROVE  Adds(MergeGroup(agg, hits), agg, BestForSeed(hits), X)
<1>1. PICK list : list = SetToSeq(BestForSeed(hits))
  OBVIOUS
<1> DEFINE n == Len(list)
           B == BestForSeed(hits)
           Done(j) == {list[k] : k \in 1..j}
<1>2. /\ list \in Seq(Hits(X)) /\ DOMAIN list = 1..n /\ n \in Nat
      /\ \A i \in DOMAIN list : list[i] \in B
      /\ \A h \in B : \E i \in DOMAIN list : list[i] = h
      /\ \A i, j \in DOMAIN list : list[i] = list[j] => i = j
  BY <1>1, BestListed
<1>3. PICK F : MergesEach(F, agg, list, X) /\ FoldLeft(Merge, agg, list) = F[n]
  BY <1>2, MergeSteps
<1>4. F[0] = agg /\ \A i \in 1..n : F[i] = Merge(F[i - 1], list[i])
  BY <1>3 DEF MergesEach
<1>5. B \in SUBSET Hits(X) /\ \A g, h \in B : g.article = h.article => g = h
  BY OneBestEach
<1>6. Done(n) = B
  BY <1>2
<1>7. MergeGroup(agg, hits) = F[n]
  BY <1>1, <1>3 DEF MergeGroup
<1> HIDE DEF B, n
<1> DEFINE Bad == {j \in 0..n : ~Adds(F[j], agg, Done(j), X)}
<1>8. Bad = {}
  <2> SUFFICES ASSUME Bad # {} PROVE FALSE
    OBVIOUS
  <2>1. Bad \in SUBSET Nat
    BY <1>2
  <2>2. PICK m \in Bad : \A j \in Bad : m <= j
    BY <2>1, LeastExists
  <2>3. m # 0
    <3>1. Done(0) = {}
      OBVIOUS
    <3>2. Adds(agg, agg, {}, X)
      BY DEF Adds
    <3> QED
      BY <1>4, <2>2, <3>1, <3>2
  <2>4. m \in 1..n /\ m - 1 \in 0..n /\ m - 1 \notin Bad
    <3>1. n \in Nat /\ m \in 0..n
      BY <1>2
    <3>2. m \in 1..n /\ m - 1 \in 0..n /\ ~(m <= m - 1)
      BY <2>3, <3>1
    <3> HIDE DEF Bad
    <3> QED
      BY <2>2, <3>2
  <2>5. Adds(F[m - 1], agg, Done(m - 1), X)
    BY <2>4
  <2>6. list[m] \in Hits(X) /\ \A h \in Done(m - 1) : h.article # list[m].article
    <3>1. list[m] \in B
      BY <1>2, <2>4
    <3>2. ASSUME NEW k \in 1..(m - 1), list[k].article = list[m].article PROVE FALSE
      <4>1. k \in 1..n /\ k # m
        BY <1>2, <2>4
      <4>2. list[k] \in B
        BY <1>2, <4>1
      <4>3. list[k] = list[m]
        BY <1>5, <3>1, <3>2, <4>2
      <4> QED
        BY <1>2, <2>4, <4>1, <4>3
    <3> QED
      BY <1>5, <3>1, <3>2
  <2>7. PICK N : N = F[m - 1]
    OBVIOUS
  <2>8. PICK D : D = Done(m - 1)
    OBVIOUS
  <2>9. Adds(Merge(N, list[m]), agg, D \cup {list[m]}, X)
    <3>1. Adds(N, agg, D, X)
      BY <2>5, <2>7, <2>8
    <3>2. \A h \in D : h.article # list[m].article
      BY <2>6, <2>8
    <3> QED
      BY <2>6, <3>1, <3>2, MergeAdds
  <2>10. Done(m) = D \cup {list[m]}
    <3>1. 1..m = (1..(m - 1)) \cup {m}
      BY <1>2, <2>4
    <3> QED
      BY <2>8, <3>1
  <2>11. F[m] = Merge(N, list[m])
    BY <1>4, <2>4, <2>7
  <2>12. Adds(F[m], agg, Done(m), X)
    BY <2>9, <2>10, <2>11, Zenon
  <2> QED
    BY <2>2, <2>12
<1>9. Adds(F[n], agg, Done(n), X)
  <2>1. n \in 0..n
    BY <1>2
  <2> HIDE DEF Done
  <2> QED
    BY <1>8, <2>1
<1> QED
  BY <1>6, <1>7, <1>9, Zenon DEF B

(* Which boxes of the seed found an article, and the best similarity each  *)
(* found it with.                                                          *)
FoundBy(groups, s, a) == \E h \in ToSet(groups[s]) : h.article = a

BestOf(groups, s, a) ==
  CHOOSE m \in {h.sim : h \in ToSet(groups[s])} :
    \E h \in ToSet(groups[s]) : /\ h.article = a /\ h.sim = m
                                /\ \A o \in ToSet(groups[s]) : o.article = a => o.sim <= m

LEMMA BestIsHit ==
  ASSUME NEW X, NEW groups, NEW s, groups[s] \in Seq(Hits(X)),
         NEW a, FoundBy(groups, s, a)
  PROVE  /\ BestOf(groups, s, a) \in Int
         /\ \E h \in BestForSeed(groups[s]) : h.article = a
         /\ \A h \in BestForSeed(groups[s]) : h.article = a => h.sim = BestOf(groups, s, a)
<1> DEFINE H == ToSet(groups[s])
           A == {h \in H : h.article = a}
           sims == {h.sim : h \in A}
           Best(m) == \E h \in H : /\ h.article = a /\ h.sim = m
                                   /\ \A o \in H : o.article = a => o.sim <= m
<1>1. H \in SUBSET Hits(X) /\ IsFiniteSet(H)
  <2>1. groups[s] \in Surjection(1..Len(groups[s]), H) /\ IsFiniteSet(1..Len(groups[s]))
    BY LenProperties, FirstNumbers DEF ToSet, Surjection
  <2>2. IsFiniteSet(H)
    BY <2>1, FS_Surjection
  <2> QED
    BY <2>2, LenProperties DEF ToSet
<1>2. A \in SUBSET H /\ A # {}
  BY DEF FoundBy
<1>3. IsFiniteSet(sims) /\ sims \in SUBSET Int /\ sims # {}
  <2>1. IsFiniteSet(A)
    BY <1>1, <1>2, FS_Subset
  <2>2. [h \in A |-> h.sim] \in Surjection(A, sims)
    BY DEF Surjection
  <2>3. IsFiniteSet(sims)
    BY <2>1, <2>2, FS_Surjection
  <2> QED
    BY <1>1, <1>2, <2>3 DEF Hits
<1>4. PICK m \in sims : \A y \in sims : y <= m
  BY <1>3, GreatestExists
<1>5. m \in {h.sim : h \in H} /\ Best(m)
  BY <1>4
<1>6. BestOf(groups, s, a) \in {h.sim : h \in H} /\ Best(BestOf(groups, s, a))
  <2> HIDE DEF H
  <2>1. BestOf(groups, s, a) = CHOOSE x \in {h.sim : h \in H} : Best(x)
    BY Zenon DEF BestOf, H
  <2> HIDE DEF Best
  <2> QED
    BY <1>5, <2>1
<1> HIDE DEF H
<1>7. PICK h \in H : /\ h.article = a /\ h.sim = BestOf(groups, s, a)
                     /\ \A o \in H : o.article = a => o.sim <= BestOf(groups, s, a)
  BY <1>6
<1>8. h \in BestForSeed(groups[s]) /\ h.sim \in Int
  BY <1>1, <1>7 DEF BestForSeed, H, Hits
<1>9. \A g \in BestForSeed(groups[s]) : g.article = a => g = h
  BY <1>7, <1>8, OneBestEach
<1> QED
  BY <1>7, <1>8, <1>9


(* The tally after the first i boxes of the seed: P is the running sum of   *)
(* the best similarities of each article, an article no box found has no    *)
(* entry.                                                                   *)
Similarities(groups, a) ==
  [s \in DOMAIN groups |-> IF FoundBy(groups, s, a) THEN BestOf(groups, s, a) ELSE 0]

FindersUpTo(groups, i, a) == {s \in 1..i : FoundBy(groups, s, a)}

RunningSums(P, groups, X) ==
  \A a \in X : /\ P[a] \in [0..Len(groups) -> Int] /\ P[a][0] = 0
               /\ SumOf(Similarities(groups, a)) = P[a][Len(groups)]
               /\ \A i \in 1..Len(groups) : P[a][i] = P[a][i - 1] + Similarities(groups, a)[i]

Tallied(E, groups, i, P, X) ==
  /\ E \in SUBSET Entries(X) /\ Keyed(E)
  /\ \A r \in E : /\ r.matched = Cardinality(FindersUpTo(groups, i, r.article))
                  /\ r.sum = P[r.article][i]
                  /\ FindersUpTo(groups, i, r.article) # {}
  /\ \A a \in X : (\A r \in E : r.article # a) => FindersUpTo(groups, i, a) = {} /\ P[a][i] = 0
  /\ \A s \in 1..i : \A h \in BestForSeed(groups[s]) :
       \E r \in E : r.article = h.article /\ h.sim <= r.best

LEMMA RunningSumsExist ==
  ASSUME NEW X, NEW groups \in Seq(Seq(Hits(X)))
  PROVE  \E P : RunningSums(P, groups, X)
<1> DEFINE Sums(a, G) == /\ G \in [0..Len(groups) -> Int] /\ G[0] = 0
                         /\ SumOf(Similarities(groups, a)) = G[Len(groups)]
                         /\ \A i \in 1..Len(groups) :
                              G[i] = G[i - 1] + Similarities(groups, a)[i]
           P == [a \in X |-> CHOOSE G : Sums(a, G)]
<1>1. ASSUME NEW a \in X PROVE \E G : Sums(a, G)
  <2>1. PICK list : list = Similarities(groups, a)
    OBVIOUS
  <2>2. /\ DOMAIN groups = 1..Len(groups) /\ Len(groups) \in Nat
        /\ \A s \in DOMAIN groups : groups[s] \in Seq(Hits(X))
    BY LenProperties
  <2>3. \A s \in DOMAIN groups : FoundBy(groups, s, a) => BestOf(groups, s, a) \in Int
    BY <2>2, BestIsHit
  <2>4. list \in [1..Len(groups) -> Int]
    BY <2>1, <2>2, <2>3 DEF Similarities
  <2>5. list \in Seq(Int) /\ Len(list) = Len(groups)
    BY <2>2, <2>4, FunctionIsList
  <2>6. \E G \in [0..Len(list) -> Int] :
          /\ G[0] = 0 /\ SumOf(list) = G[Len(list)]
          /\ \A i \in 1..Len(list) : G[i] = G[i - 1] + list[i]
    BY <2>5, SumSteps
  <2> QED
    BY <2>1, <2>5, <2>6
<1> HIDE DEF Sums
<1>2. \A a \in X : Sums(a, P[a])
  BY <1>1
<1>3. RunningSums(P, groups, X)
  BY <1>2 DEF Sums, RunningSums
<1> QED
  BY <1>3

LEMMA FindersGrow ==
  ASSUME NEW groups, NEW a, NEW i \in Nat \ {0}
  PROVE  /\ FoundBy(groups, i, a) =>
              Cardinality(FindersUpTo(groups, i, a)) = Cardinality(FindersUpTo(groups, i - 1, a)) + 1
         /\ ~FoundBy(groups, i, a) => FindersUpTo(groups, i, a) = FindersUpTo(groups, i - 1, a)
         /\ FoundBy(groups, i, a) => FindersUpTo(groups, i, a) # {}
<1>1. 1..i = (1..(i - 1)) \cup {i} /\ i \notin 1..(i - 1)
  OBVIOUS
<1>2. ~FoundBy(groups, i, a) => FindersUpTo(groups, i, a) = FindersUpTo(groups, i - 1, a)
  BY <1>1 DEF FindersUpTo
<1>3. FoundBy(groups, i, a) =>
        FindersUpTo(groups, i, a) = FindersUpTo(groups, i - 1, a) \cup {i}
  BY <1>1 DEF FindersUpTo
<1>4. IsFiniteSet(FindersUpTo(groups, i - 1, a)) /\ i \notin FindersUpTo(groups, i - 1, a)
  <2>1. IsFiniteSet(1..(i - 1))
    BY FirstNumbers
  <2> QED
    BY <1>1, <2>1, FS_Subset DEF FindersUpTo
<1>5. Cardinality(FindersUpTo(groups, i - 1, a) \cup {i})
        = Cardinality(FindersUpTo(groups, i - 1, a)) + 1
  BY <1>4, FS_AddElement
<1> QED
  BY <1>2, <1>3, <1>5

LEMMA TallyStep ==
  ASSUME NEW X, NEW groups \in Seq(Seq(Hits(X))), NEW P, RunningSums(P, groups, X),
         NEW i \in 1..Len(groups), NEW E, Tallied(E, groups, i - 1, P, X)
  PROVE  Tallied(MergeGroup(E, groups[i]), groups, i, P, X)
<1> DEFINE N == MergeGroup(E, groups[i])
           B == BestForSeed(groups[i])
<1>1. /\ Len(groups) \in Nat /\ DOMAIN groups = 1..Len(groups) /\ groups[i] \in Seq(Hits(X))
      /\ i \in Nat \ {0}
  BY LenProperties
<1>2. E \in SUBSET Entries(X) /\ Keyed(E)
  BY DEF Tallied
<1>3. Adds(N, E, B, X)
  BY <1>1, <1>2, GroupAdds
<1>4. B \in SUBSET Hits(X) /\ \A g, h \in B : g.article = h.article => g = h
  BY <1>1, OneBestEach
<1>5. ASSUME NEW a
      PROVE  /\ FoundBy(groups, i, a) <=> \E h \in B : h.article = a
             /\ FoundBy(groups, i, a) => BestOf(groups, i, a) \in Int
             /\ \A h \in B : h.article = a => h.sim = BestOf(groups, i, a)
  <2>1. \A h \in B : h \in ToSet(groups[i])
    BY DEF BestForSeed
  <2>2. (\E h \in B : h.article = a) => FoundBy(groups, i, a)
    BY <2>1 DEF FoundBy
  <2>3. FoundBy(groups, i, a) =>
          /\ BestOf(groups, i, a) \in Int
          /\ \E h \in B : h.article = a
          /\ \A h \in B : h.article = a => h.sim = BestOf(groups, i, a)
    <3> HAVE FoundBy(groups, i, a)
    <3>1. groups[i] \in Seq(Hits(X))
      BY <1>1
    <3> QED
      BY <3>1, BestIsHit
  <2> QED
    BY <2>2, <2>3
<1> HIDE DEF N, B
<1>6. ASSUME NEW a \in X
      PROVE  /\ P[a][i - 1] \in Int
             /\ FoundBy(groups, i, a) => P[a][i] = P[a][i - 1] + BestOf(groups, i, a)
             /\ ~FoundBy(groups, i, a) => P[a][i] = P[a][i - 1]
  <2>1. P[a] \in [0..Len(groups) -> Int] /\ P[a][i] = P[a][i - 1] + Similarities(groups, a)[i]
    BY DEF RunningSums
  <2>2. P[a][i - 1] \in Int
    <3>1. i - 1 \in 0..Len(groups)
      BY <1>1
    <3> QED
      BY <2>1, <3>1
  <2>3. Similarities(groups, a)[i] = IF FoundBy(groups, i, a) THEN BestOf(groups, i, a) ELSE 0
    BY <1>1 DEF Similarities
  <2> QED
    BY <2>1, <2>2, <2>3
<1>7. N \in SUBSET Entries(X) /\ Keyed(N) /\ \A r \in N : r.article \in X
  BY <1>3 DEF Adds, Entries
<1>8. ASSUME NEW a \in X, \A r \in E : r.article # a
      PROVE  FindersUpTo(groups, i - 1, a) = {} /\ P[a][i - 1] = 0
  BY <1>8 DEF Tallied
<1>9. ASSUME NEW r \in N
      PROVE  /\ r.matched = Cardinality(FindersUpTo(groups, i, r.article))
             /\ r.sum = P[r.article][i]
             /\ FindersUpTo(groups, i, r.article) # {}
  <2>1. PICK a \in X : a = r.article
    BY <1>7
  <2>2. /\ FoundBy(groups, i, a) =>
             Cardinality(FindersUpTo(groups, i, a)) = Cardinality(FindersUpTo(groups, i - 1, a)) + 1
        /\ ~FoundBy(groups, i, a) => FindersUpTo(groups, i, a) = FindersUpTo(groups, i - 1, a)
        /\ FoundBy(groups, i, a) => FindersUpTo(groups, i, a) # {}
    BY <1>1, FindersGrow
  <2>3. CASE r \in E /\ \A h \in B : h.article # a
    <3>1. /\ r.matched = Cardinality(FindersUpTo(groups, i - 1, a))
          /\ r.sum = P[a][i - 1]
          /\ FindersUpTo(groups, i - 1, a) # {}
      BY <2>1, <2>3 DEF Tallied
    <3>2. ~FoundBy(groups, i, a)
      BY <1>5, <2>3
    <3> QED
      BY <1>6, <2>1, <2>2, <3>1, <3>2
  <2>4. CASE \E h \in B : h.article = a /\ Counted(r, E, h)
    <3>1. PICK h \in B : h.article = a /\ Counted(r, E, h)
      BY <2>4
    <3>2. FoundBy(groups, i, a) /\ h.sim = BestOf(groups, i, a)
      BY <1>5, <3>1
    <3>3. CASE \E old \in E : old.article = a /\ Raised(r, old, h)
      <4>1. PICK old \in E : old.article = a /\ Raised(r, old, h)
        BY <3>3
      <4>2. /\ old.matched = Cardinality(FindersUpTo(groups, i - 1, a))
            /\ old.sum = P[a][i - 1]
        BY <4>1 DEF Tallied
      <4>3. r.matched = old.matched + 1 /\ r.sum = old.sum + h.sim
        BY <4>1 DEF Raised
      <4> QED
        BY <1>6, <2>1, <2>2, <3>2, <4>2, <4>3
    <3>4. CASE (\A old \in E : old.article # a) /\ Opened(r, h)
      <4>1. FindersUpTo(groups, i - 1, a) = {} /\ P[a][i - 1] = 0
        BY <1>8, <3>4
      <4>2. Cardinality(FindersUpTo(groups, i - 1, a)) = 0
        BY <4>1, FS_EmptySet
      <4>3. r.matched = 1 /\ r.sum = h.sim /\ h.sim \in Int
        BY <1>4, <3>4 DEF Opened, Hits
      <4> QED
        BY <1>6, <2>1, <2>2, <3>2, <4>1, <4>2, <4>3
    <3> QED
      BY <2>1, <3>1, <3>3, <3>4 DEF Counted
  <2> QED
    BY <1>3, <2>1, <2>3, <2>4 DEF Adds
<1>10. ASSUME NEW a \in X, \A r \in N : r.article # a
       PROVE  FindersUpTo(groups, i, a) = {} /\ P[a][i] = 0
  <2>1. (\A r \in E : r.article # a) /\ ~FoundBy(groups, i, a)
    BY <1>3, <1>5, <1>10 DEF Adds
  <2>2. FindersUpTo(groups, i, a) = FindersUpTo(groups, i - 1, a)
    BY <1>1, <2>1, FindersGrow
  <2> QED
    BY <1>6, <1>8, <2>1, <2>2
<1>11. ASSUME NEW r \in N, NEW h \in B, h.article = r.article PROVE h.sim <= r.best
  <2>1. PICK g \in B : g.article = r.article /\ Counted(r, E, g)
    BY <1>3, <1>11 DEF Adds
  <2>2. g = h /\ h.sim \in Int
    BY <1>4, <1>11, <2>1 DEF Hits
  <2>3. \A old \in E : old.best \in Int
    BY <1>2 DEF Entries
  <2> QED
    BY <2>1, <2>2, <2>3 DEF Counted, Raised, Opened
<1>12. ASSUME NEW r \in N, NEW old \in E, old.article = r.article PROVE old.best <= r.best
  <2>1. old.best \in Int
    BY <1>2 DEF Entries
  <2>2. CASE r \in E
    BY <1>2, <1>12, <2>1, <2>2 DEF Keyed
  <2>3. CASE \E g \in B : g.article = r.article /\ Counted(r, E, g)
    <3>1. PICK g \in B : g.article = r.article /\ Counted(r, E, g)
      BY <2>3
    <3>2. Raised(r, old, g)
      BY <1>2, <1>12, <3>1 DEF Counted, Keyed
    <3>3. g.sim \in Int
      BY <1>4 DEF Hits
    <3> QED
      BY <2>1, <3>2, <3>3 DEF Raised
  <2> QED
    BY <1>3, <2>2, <2>3 DEF Adds
<1>13. ASSUME NEW s \in 1..i, NEW h \in BestForSeed(groups[s])
       PROVE  \E r \in N : r.article = h.article /\ h.sim <= r.best
  <2>1. CASE s = i
    <3>1. h \in B
      BY <2>1 DEF B
    <3>2. PICK r \in N : r.article = h.article
      BY <1>3, <3>1 DEF Adds
    <3> QED
      BY <1>11, <3>1, <3>2
  <2>2. CASE s # i
    <3>1. s \in 1..(i - 1)
      BY <1>1, <2>2
    <3>2. PICK old \in E : old.article = h.article /\ h.sim <= old.best
      BY <3>1 DEF Tallied
    <3>3. PICK r \in N : r.article = old.article
      BY <1>3 DEF Adds
    <3>4. old.best <= r.best
      BY <1>12, <3>3
    <3>5. h.sim \in Int /\ old.best \in Int /\ r.best \in Int
      <4>1. s \in 1..Len(groups)
        BY <1>1
      <4>2. groups[s] \in Seq(Hits(X))
        BY <1>1, <4>1, LenProperties
      <4>3. h \in Hits(X)
        BY <4>2, OneBestEach
      <4> QED
        BY <1>2, <1>7, <4>3 DEF Hits, Entries
    <3> QED
      BY <3>2, <3>3, <3>4, <3>5
  <2> QED
    BY <2>1, <2>2
<1> QED
  BY <1>7, <1>9, <1>10, <1>13 DEF Tallied, N


(* The tally of all the groups. *)
LEMMA AllTallied ==
  ASSUME NEW X, NEW groups \in Seq(Seq(Hits(X))), NEW P, RunningSums(P, groups, X)
  PROVE  Tallied(Aggregate(groups), groups, Len(groups), P, X)
<1> DEFINE n == Len(groups)
<1>1. n \in Nat
  BY LenProperties
<1>2. PICK E : GroupsEach(E, groups, X) /\ Aggregate(groups) = E[n]
  BY GroupSteps
<1>3. E[0] = {} /\ \A i \in 1..n : E[i] = MergeGroup(E[i - 1], groups[i])
  BY <1>2 DEF GroupsEach
<1>4. Tallied({}, groups, 0, P, X)
  BY DEF Tallied, Keyed, FindersUpTo, RunningSums
<1> DEFINE Bad == {j \in 0..n : ~Tallied(E[j], groups, j, P, X)}
<1>5. Bad = {}
  <2> SUFFICES ASSUME Bad # {} PROVE FALSE
    OBVIOUS
  <2>1. Bad \in SUBSET Nat
    BY <1>1
  <2>2. PICK m \in Bad : \A j \in Bad : m <= j
    BY <2>1, LeastExists
  <2>3. m # 0
    BY <1>3, <1>4, <2>2
  <2>4. m \in 1..n /\ m - 1 \in 0..n /\ m - 1 \notin Bad
    <3>1. m \in 0..n
      OBVIOUS
    <3>2. m \in 1..n /\ m - 1 \in 0..n /\ ~(m <= m - 1)
      BY <1>1, <2>3, <3>1
    <3> HIDE DEF Bad
    <3> QED
      BY <2>2, <3>2
  <2>5. PICK N : N = E[m - 1]
    OBVIOUS
  <2>6. Tallied(N, groups, m - 1, P, X)
    BY <2>4, <2>5
  <2>7. Tallied(MergeGroup(N, groups[m]), groups, m, P, X)
    BY <2>4, <2>6, TallyStep
  <2>8. E[m] = MergeGroup(N, groups[m])
    BY <1>3, <2>4, <2>5
  <2> QED
    BY <2>2, <2>7, <2>8
<1>6. n \in 0..n
  BY <1>1
<1> QED
  BY <1>2, <1>5, <1>6

LEMMA BestRankedIsSorted ==
  ASSUME NEW S, Identified(S), NEW X, S \in SUBSET Entries(X)
  PROVE  \E R : /\ Orders(R, S) /\ SortedBy(BestRanked(S), R, S)
               /\ \A x, y \in S : x.best > y.best => <<x, y>> \in R
<1> DEFINE Before(x, y) ==
             \/ x.best > y.best
             \/ x.best = y.best /\ \/ x.matched > y.matched
                                   \/ x.matched = y.matched /\ \/ x.sum > y.sum
                                                               \/ x.sum = y.sum /\ x.id < y.id
           R == {p \in S \X S : Before(p[1], p[2])}
           Earlier(x) == {y \in S : Before(y, x)}
           f == BestRanked(S)
<1>1. \A x \in S : x.best \in Int /\ x.matched \in Int /\ x.sum \in Int /\ x.id \in Int
  BY DEF Entries, Identified
<1>2. /\ \A x \in S : ~Before(x, x)
      /\ \A x, y \in S : x # y => Before(x, y) \/ Before(y, x)
  BY <1>1 DEF Identified
<1>3. ASSUME NEW x \in S, NEW y \in S, NEW z \in S, Before(x, y), Before(y, z)
      PROVE  Before(x, z)
  BY <1>1, <1>3
<1>4. \A x, y \in S : x.best > y.best => Before(x, y)
  OBVIOUS
<1> HIDE DEF Before
<1>5. /\ Orders(R, S)
      /\ \A x, y \in S : x.best > y.best => <<x, y>> \in R
  BY <1>2, <1>3, <1>4 DEF Orders
<1>6. \A x \in S : Below(R, S, x) = Earlier(x)
  BY DEF Below
<1>7. f = [n \in 1..Cardinality(S) |-> CHOOSE x \in S : Cardinality(Earlier(x)) = n - 1]
  BY DEF BestRanked, Ordered, Before
<1> HIDE DEF R, Earlier, f
<1>8. \A n \in 1..Cardinality(S) : \E x \in S : Cardinality(Below(R, S, x)) = n - 1
  BY <1>5, RowOfRank DEF Identified
<1>9. \A n \in 1..Cardinality(S) : f[n] \in S /\ Cardinality(Earlier(f[n])) = n - 1
  BY <1>6, <1>7, <1>8
<1>10. SortedBy(f, R, S)
  BY <1>6, <1>7, <1>9 DEF SortedBy
<1> QED
  BY <1>5, <1>10 DEF f

(* The consolidated list: an entry of the aggregate at each place, the     *)
(* whole aggregate without --top, and before an entry every better one.    *)
BestOnes(arts, S, top) ==
  /\ \A i \in DOMAIN arts : arts[i] \in S
  /\ top = <<>> => \A r \in S : \E i \in DOMAIN arts : arts[i] = r
  /\ \A i \in DOMAIN arts, r \in S : r.best > arts[i].best =>
       \E j \in 1..(i - 1) : arts[j] = r

LEMMA RankedEntries ==
  ASSUME NEW q, OptionalNumber(q.top), NEW X, NEW S, Identified(S), S \in SUBSET Entries(X),
         NEW ranked, ranked = BestRanked(S),
         NEW arts, arts = (IF q.top = <<>> THEN ranked ELSE FirstN(ranked, q.top[1]))
  PROVE  BestOnes(arts, S, q.top)
<1>1. IsFiniteSet(S)
  BY DEF Identified
<1>2. PICK R : /\ Orders(R, S) /\ SortedBy(ranked, R, S)
               /\ \A x, y \in S : x.best > y.best => <<x, y>> \in R
  BY BestRankedIsSorted
<1>3. /\ ranked \in Seq(S) /\ DOMAIN ranked = 1..Len(ranked) /\ Len(ranked) \in Nat
      /\ \A i, j \in DOMAIN ranked : <<ranked[i], ranked[j]>> \in R <=> i < j
      /\ ToSet(ranked) = S
  BY <1>1, <1>2, SortedList
<1>4. /\ \A i \in DOMAIN arts : i \in DOMAIN ranked /\ arts[i] = ranked[i]
      /\ DOMAIN arts = 1..Len(arts) /\ Len(arts) \in Nat
  <2>1. CASE q.top = <<>>
    BY <1>3, <2>1
  <2>2. CASE q.top # <<>>
    <3>1. q.top[1] \in Nat
      BY <2>2 DEF OptionalNumber
    <3>2. PICK n \in Nat : n = q.top[1]
      BY <3>1
    <3>3. arts = FirstN(ranked, n)
      BY <2>2, <3>2
    <3>4. /\ FirstN(ranked, n) \in Seq(S)
          /\ DOMAIN FirstN(ranked, n) = 1..Len(FirstN(ranked, n))
          /\ \A i \in DOMAIN FirstN(ranked, n) :
               i \in DOMAIN ranked /\ FirstN(ranked, n)[i] = ranked[i]
      BY <1>1, <1>2, FirstRows
    <3> QED
      BY <3>3, <3>4, LenProperties
  <2> QED
    BY <2>1, <2>2
<1>5. \A i \in DOMAIN ranked : ranked[i] \in S
  BY <1>3
<1>6. \A r \in S : \E i \in DOMAIN ranked : ranked[i] = r
  BY <1>3 DEF ToSet
<1>7. q.top = <<>> => arts = ranked
  OBVIOUS
<1>8. ASSUME NEW i \in DOMAIN arts, NEW r \in S, r.best > arts[i].best
      PROVE  \E j \in 1..(i - 1) : arts[j] = r
  <2>1. PICK j \in DOMAIN ranked : ranked[j] = r
    BY <1>6
  <2>2. i \in DOMAIN ranked /\ arts[i] = ranked[i] /\ ranked[i] \in S
    BY <1>4, <1>5
  <2>3. <<ranked[j], ranked[i]>> \in R
    BY <1>2, <1>8, <2>1, <2>2
  <2>4. j < i
    BY <1>3, <2>1, <2>2, <2>3
  <2>5. j \in 1..(i - 1) /\ j \in DOMAIN arts
    BY <1>3, <1>4, <2>2, <2>4
  <2>6. arts[j] = r
    BY <1>4, <2>1, <2>5
  <2> QED
    BY <2>5, <2>6
<1>9. \A i \in DOMAIN arts : arts[i] \in S
  BY <1>4, <1>5
<1>10. q.top = <<>> => \A r \in S : \E i \in DOMAIN arts : arts[i] = r
  BY <1>6, <1>7
<1> QED
  BY <1>8, <1>9, <1>10, Zenon DEF BestOnes

(* What the consolidation starts from and what it leaves to be ranked. *)
LEMMA RelatedEntries ==
  ASSUME NEW q, SearchAsked(q), NEW X, X = {a.id : a \in InWindow(q, Seed)},
         NEW groups, groups = SearchByInsights(q)
  PROVE  /\ groups \in Seq(Seq(Hits(X)))
         /\ DOMAIN groups = 1..q.seedBoxes /\ Len(groups) = q.seedBoxes
         /\ Aggregate(groups) \in SUBSET Entries(X) /\ Identified(Aggregate(groups))
<1>1. q.seedBoxes \in Nat
  BY DEF SearchAsked
<1>2. groups \in [1..q.seedBoxes -> Seq(Hits(X))]
  <2>1. \A s \in 1..q.seedBoxes : RunInsightSearch(q, Seed, s) \in Seq(Hits(X))
    BY RelatedHits
  <2>2. groups = [s \in 1..q.seedBoxes |-> RunInsightSearch(q, Seed, s)]
    BY DEF SearchByInsights
  <2> QED
    BY <2>1, <2>2
<1>3. /\ groups \in Seq(Seq(Hits(X)))
      /\ DOMAIN groups = 1..q.seedBoxes /\ Len(groups) = q.seedBoxes
  <2>1. PICK n \in Nat : n = q.seedBoxes
    BY <1>1
  <2>2. groups \in [1..n -> Seq(Hits(X))]
    BY <1>2, <2>1
  <2> QED
    BY <2>1, <2>2
<1>4. PICK P : RunningSums(P, groups, X)
  BY <1>3, RunningSumsExist
<1>5. PICK S : S = Aggregate(groups)
  OBVIOUS
<1>6. S \in SUBSET Entries(X) /\ Keyed(S)
  <2>1. Tallied(S, groups, Len(groups), P, X)
    BY <1>3, <1>4, <1>5, AllTallied
  <2> QED
    BY <2>1 DEF Tallied
<1>7. X \in SUBSET Int /\ IsFiniteSet(X)
  <2>1. Identified(InWindow(q, Seed))
    <3>1. InWindow(q, Seed) \in SUBSET q.articles /\ Identified(q.articles)
      BY DEF InWindow, SearchAsked
    <3> QED
      BY <3>1, SubsetIdentified
  <2>2. [a \in InWindow(q, Seed) |-> a.id] \in Surjection(InWindow(q, Seed), X)
    BY DEF Surjection
  <2>3. IsFiniteSet(X)
    BY <2>1, <2>2, FS_Surjection DEF Identified
  <2> QED
    BY <2>1, <2>3 DEF Identified
<1>8. \A r \in S : r.article \in X /\ r.id = r.article
  BY <1>6 DEF Entries, Keyed
<1>9. IsFiniteSet(S)
  <2>1. [r \in S |-> r.article] \in Injection(S, X)
    BY <1>6, <1>8 DEF Injection, IsInjective, Keyed
  <2> QED
    BY <1>7, <2>1, FS_Injection
<1>10. Identified(S)
  BY <1>6, <1>7, <1>8, <1>9 DEF Identified, Keyed
<1> QED
  BY <1>3, <1>5, <1>6, <1>10

(* Every search and every retrieval of related articles that are           *)
(* model-checked, and more: for any stored rows, options and number of     *)
(* boxes of the seed, the consolidated list has an entry for exactly the   *)
(* articles the seed's boxes found, each counted once per box that found   *)
(* it and with the sum of its best similarities, and nothing is listed     *)
(* before an article with a better similarity.                             *)
THEOREM RelatedArticlesAreConsolidatedOnce == SearchAsked(question) => ConsolidatedOnce
<1> DEFINE q == question
           groups == SearchByInsights(q)
           arts == RelatedArticles(q)
           X == {a.id : a \in InWindow(q, Seed)}
           found == UNION {{h.article : h \in ToSet(groups[s])} : s \in DOMAIN groups}
           Finders(a) == {s \in DOMAIN groups : FoundBy(groups, s, a)}
<1> SUFFICES ASSUME SearchAsked(question)
             PROVE  /\ q.top = <<>> => {arts[i].article : i \in DOMAIN arts} = found
                    /\ \A i \in DOMAIN arts :
                         LET a == arts[i].article
                         IN /\ arts[i].matched = Cardinality(Finders(a))
                            /\ arts[i].sum = SumOf([s \in DOMAIN groups |->
                                 IF s \in Finders(a) THEN BestOf(groups, s, a) ELSE 0])
                            /\ \A b \in found, s \in 1..q.seedBoxes :
                                 s \in Finders(b) /\ BestOf(groups, s, b) > arts[i].best
                                   => \E j \in 1..(i - 1) : arts[j].article = b
  BY Zenon DEF ConsolidatedOnce, FoundBy, BestOf
<1> DEFINE n == Len(groups)
           S == Aggregate(groups)
<1>1. /\ groups \in Seq(Seq(Hits(X)))
      /\ DOMAIN groups = 1..n /\ n = q.seedBoxes /\ n \in Nat
      /\ S \in SUBSET Entries(X) /\ Identified(S)
  BY RelatedEntries DEF SearchAsked
<1>2. PICK P : RunningSums(P, groups, X)
  BY <1>1, RunningSumsExist
<1>3. Tallied(S, groups, n, P, X)
  BY <1>1, <1>2, AllTallied
<1>4. OptionalNumber(q.top)
  BY DEF SearchAsked
<1>5. arts = IF q.top = <<>> THEN BestRanked(S) ELSE FirstN(BestRanked(S), q.top[1])
  BY Zenon DEF RelatedArticles, Consolidate
<1> HIDE DEF q, groups, arts, X, n, S
<1>6. BestOnes(arts, S, q.top)
  <2>1. PICK ranked : ranked = BestRanked(S)
    OBVIOUS
  <2>2. arts = IF q.top = <<>> THEN ranked ELSE FirstN(ranked, q.top[1])
    BY <1>5, <2>1
  <2>3. Identified(S) /\ S \in SUBSET Entries(X)
    BY <1>1
  <2> QED
    BY <1>4, <2>1, <2>2, <2>3, RankedEntries
<1>7. \A a : Finders(a) = FindersUpTo(groups, n, a)
  BY <1>1 DEF FindersUpTo
<1>8. ASSUME NEW s \in DOMAIN groups, NEW a, FoundBy(groups, s, a)
      PROVE  /\ a \in X /\ BestOf(groups, s, a) \in Int
             /\ \E r \in S : r.article = a /\ BestOf(groups, s, a) <= r.best
  <2>1. groups[s] \in Seq(Hits(X))
    BY <1>1, LenProperties
  <2>2. /\ BestOf(groups, s, a) \in Int
        /\ \E h \in BestForSeed(groups[s]) : h.article = a
        /\ \A h \in BestForSeed(groups[s]) : h.article = a => h.sim = BestOf(groups, s, a)
    BY <1>8, <2>1, BestIsHit
  <2>3. PICK h \in BestForSeed(groups[s]) : h.article = a /\ h.sim = BestOf(groups, s, a)
    BY <2>2
  <2>4. PICK r \in S : r.article = h.article /\ h.sim <= r.best
    BY <1>1, <1>3, <2>3 DEF Tallied
  <2>5. r.article \in X
    BY <1>1 DEF Entries
  <2> QED
    BY <2>2, <2>3, <2>4, <2>5
<1>9. \A a : a \in found <=> \E s \in DOMAIN groups : FoundBy(groups, s, a)
  BY DEF FoundBy
<1>10. \A a : (\E r \in S : r.article = a) <=> a \in found
  <2> TAKE a
  <2>1. (\E r \in S : r.article = a) => a \in found
    <3> HAVE \E r \in S : r.article = a
    <3>1. PICK s : s \in FindersUpTo(groups, n, a)
      BY <1>3 DEF Tallied
    <3>2. s \in Finders(a)
      BY <1>7, <3>1
    <3> QED
      BY <1>9, <3>2
  <2>2. a \in found => \E r \in S : r.article = a
    BY <1>8, <1>9
  <2> QED
    BY <2>1, <2>2
<1> HIDE DEF found
<1>11. q.top = <<>> => {arts[i].article : i \in DOMAIN arts} = found
  <2> HAVE q.top = <<>>
  <2>1. \A r \in S : \E i \in DOMAIN arts : arts[i] = r
    BY <1>6 DEF BestOnes
  <2>2. \A i \in DOMAIN arts : arts[i].article \in found
    BY <1>6, <1>10 DEF BestOnes
  <2>3. \A a \in found : \E i \in DOMAIN arts : arts[i].article = a
    BY <1>10, <2>1
  <2> QED
    BY <2>2, <2>3
<1>12. ASSUME NEW i \in DOMAIN arts, NEW a, a = arts[i].article
       PROVE  /\ arts[i].matched = Cardinality(Finders(a))
              /\ arts[i].sum = SumOf([s \in DOMAIN groups |->
                   IF s \in Finders(a) THEN BestOf(groups, s, a) ELSE 0])
              /\ \A b \in found, s \in 1..q.seedBoxes :
                   s \in Finders(b) /\ BestOf(groups, s, b) > arts[i].best
                     => \E j \in 1..(i - 1) : arts[j].article = b
  <2>1. arts[i] \in S /\ arts[i].article \in X /\ arts[i].best \in Int
    BY <1>1, <1>6 DEF Entries, BestOnes
  <2>2. arts[i].matched = Cardinality(Finders(a))
    BY <1>3, <1>7, <1>12, <2>1 DEF Tallied
  <2>3. arts[i].sum = P[a][n]
    BY <1>3, <1>12, <2>1 DEF Tallied
  <2>4. SumOf(Similarities(groups, a)) = P[a][n]
    BY <1>2, <1>12, <2>1 DEF RunningSums, n
  <2>5. Similarities(groups, a) = [s \in DOMAIN groups |->
          IF s \in Finders(a) THEN BestOf(groups, s, a) ELSE 0]
    BY DEF Similarities
  <2>6. ASSUME NEW b \in found, NEW s \in 1..q.seedBoxes, s \in Finders(b),
               BestOf(groups, s, b) > arts[i].best
        PROVE  \E j \in 1..(i - 1) : arts[j].article = b
    <3>1. PICK r \in S : r.article = b /\ BestOf(groups, s, b) <= r.best
      BY <1>8, <2>6
    <3>2. BestOf(groups, s, b) \in Int /\ r.best \in Int
      BY <1>1, <1>8, <2>6 DEF Entries
    <3>3. r.best > arts[i].best
      BY <2>1, <2>6, <3>1, <3>2
    <3>4. PICK j \in 1..(i - 1) : arts[j] = r
      BY <1>6, <3>3 DEF BestOnes
    <3> QED
      BY <3>1, <3>4
  <2> HIDE DEF Finders
  <2> QED
    BY <2>2, <2>3, <2>4, <2>5, <2>6
<1> HIDE DEF Finders
<1> QED
  BY <1>11, <1>12

(* For any stored rows and options: an exclusively anchored search returns *)
(* nothing that was published when the seed was or later, and nothing from *)
(* before the months asked for; nor does the list of related articles.     *)
THEOREM SearchesDoNotLookAhead == SearchAsked(question) => NoLookAhead
<1> DEFINE q == question
           seed == RowOf(q, Seed)
           Past(id) == /\ RowOf(q, id).at < seed.at
                       /\ q.months # <<>> => RowOf(q, id).at >= seed.at - Month * q.months[1]
<1> SUFFICES ASSUME SearchAsked(question), Served, Anchored(question), question.exclusive
             PROVE  \A id \in IF q.command = "search"
                              THEN {Search(q)[i].id : i \in DOMAIN Search(q)}
                              ELSE {RelatedArticles(q)[i].article : i \in DOMAIN RelatedArticles(q)} :
                      Past(id)
  BY Zenon DEF NoLookAhead
<1>1. seed \in q.articles /\ seed.at \in Int /\ q.exclusive = TRUE
  <2>1. q.seed = "found"
    BY DEF Served, Refused, Anchored, HasSeed, SearchAsked
  <2>2. PICK a \in q.articles : a.id = Seed
    BY <2>1 DEF SearchAsked
  <2>3. seed = a
    BY <2>2, RowIsArticle
  <2> QED
    BY <2>3 DEF SearchAsked
<1>2. Window(q) = [since |-> IF q.months = <<>> THEN <<>> ELSE <<seed.at - Month * q.months[1]>>,
                   until |-> <<[at |-> seed.at, dateOnly |-> FALSE]>>]
  BY <1>1 DEF Window, SeedWindow
<1>3. ASSUME NEW exclude, NEW a \in InWindow(q, exclude) PROVE Past(a.id)
  <2>1. a \in q.articles /\ a.at \in Int
    BY DEF InWindow, SearchAsked
  <2>2. RowOf(q, a.id) = a
    BY <2>1, RowIsArticle
  <2>3. BuildFilters(q, Window(q), exclude, a)
    BY DEF InWindow
  <2>4. a.at < seed.at
    BY <1>1, <1>2, <2>3 DEF BuildFilters
  <2>5. q.months # <<>> => a.at >= seed.at - Month * q.months[1]
    <3> HAVE q.months # <<>>
    <3>1. Window(q).since = <<seed.at - Month * q.months[1]>>
      BY <1>2
    <3>2. Window(q).since # <<>> /\ Window(q).since[1] = seed.at - Month * q.months[1]
      BY <3>1
    <3> QED
      BY <2>3, <3>2 DEF BuildFilters
  <2> QED
    BY <2>2, <2>4, <2>5
<1> HIDE DEF Past, seed
<1>4. CASE q.command = "search"
  <2>1. PICK exclude : Search(q) = RunSearch(q, exclude)
    BY DEF Search
  <2>2. ToSet(RunSearch(q, exclude)) \in SUBSET InWindow(q, exclude)
    <3>1. PICK A : A = InWindow(q, exclude)
      OBVIOUS
    <3>2. PICK top : top = ToSet(FirstN(NearestArticles(A), q.k))
      OBVIOUS
    <3>3. PICK hits : hits = ToSet(RunSearch(q, exclude))
      OBVIOUS
    <3>4. top \in SUBSET A /\ hits = {x \in top : x.sim >= q.floor}
      BY <3>1, <3>2, <3>3, SearchHits
    <3> QED
      BY <3>1, <3>3, <3>4
  <2>3. \A i \in DOMAIN Search(q) : Search(q)[i] \in InWindow(q, exclude)
    BY <2>1, <2>2 DEF ToSet
  <2> QED
    BY <1>3, <1>4, <2>3
<1>5. CASE q.command # "search"
  <2>1. PICK X : X = {a.id : a \in InWindow(q, Seed)}
    OBVIOUS
  <2>2. PICK S : S = Aggregate(SearchByInsights(q))
    OBVIOUS
  <2>3. S \in SUBSET Entries(X) /\ Identified(S)
    BY <2>1, <2>2, RelatedEntries
  <2>4. PICK ranked : ranked = BestRanked(S)
    OBVIOUS
  <2>5. PICK arts : arts = RelatedArticles(q)
    OBVIOUS
  <2>6. arts = IF q.top = <<>> THEN ranked ELSE FirstN(ranked, q.top[1])
    BY <2>2, <2>4, <2>5, Zenon DEF RelatedArticles, Consolidate
  <2>7. OptionalNumber(q.top)
    BY DEF SearchAsked
  <2>8. \A i \in DOMAIN arts : arts[i] \in S
    BY <2>3, <2>4, <2>6, <2>7, RankedEntries DEF BestOnes
  <2>9. \A i \in DOMAIN arts : arts[i].article \in X
    BY <2>3, <2>8 DEF Entries
  <2>10. \A id \in X : Past(id)
    BY <1>3, <2>1
  <2> QED
    BY <1>5, <2>5, <2>9, <2>10
<1> QED
  BY <1>4, <1>5

=============================================================================
