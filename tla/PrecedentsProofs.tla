-------------------------- MODULE PrecedentsProofs --------------------------
(***************************************************************************)
(* Proofs about Precedents, for any articles, boxes, similarities,         *)
(* thresholds and limits.                                                  *)
(***************************************************************************)
EXTENDS Precedents, QuestionProofs

-----------------------------------------------------------------------------
(***************************************************************************)
(* The orders of the precedent queries                                     *)
(***************************************************************************)

LEMMA NearestIsSorted ==
  ASSUME NEW S, Identified(S), \A x \in S : x.near \in Int
  PROVE  \E R : /\ Orders(R, S) /\ SortedBy(Nearest(S), R, S)
               /\ \A x, y \in S : <<x, y>> \in R => x.near >= y.near
<1> DEFINE Nearer(x, y) == x.near > y.near
           Before(x, y) == Nearer(x, y) \/ (~Nearer(y, x) /\ x.id < y.id)
           R == {p \in S \X S : Before(p[1], p[2])}
           Earlier(x) == {y \in S : Before(y, x)}
           f == Nearest(S)
<1>1. /\ Orders(R, S)
      /\ \A x, y \in S : <<x, y>> \in R => x.near >= y.near
  BY DEF Orders, Identified
<1>2. \A x \in S : Below(R, S, x) = Earlier(x)
  BY DEF Below
<1>3. f = [n \in 1..Cardinality(S) |-> CHOOSE x \in S : Cardinality(Earlier(x)) = n - 1]
  BY DEF Nearest, Ranked, Ordered
<1> HIDE DEF R, Earlier, f
<1>4. \A n \in 1..Cardinality(S) : \E x \in S : Cardinality(Below(R, S, x)) = n - 1
  BY <1>1, RowOfRank DEF Identified
<1>5. \A n \in 1..Cardinality(S) : f[n] \in S /\ Cardinality(Earlier(f[n])) = n - 1
  BY <1>2, <1>3, <1>4
<1>6. SortedBy(f, R, S)
  BY <1>2, <1>3, <1>5 DEF SortedBy
<1> QED
  BY <1>1, <1>6 DEF f

LEMMA NearestToIsSorted ==
  ASSUME NEW S, Identified(S), NEW t, \A x \in S : x.sim[t] \in Int
  PROVE  \E R : /\ Orders(R, S) /\ SortedBy(NearestTo(t, S), R, S)
               /\ \A x, y \in S : <<x, y>> \in R => x.sim[t] >= y.sim[t]
<1> DEFINE Nearer(x, y) == x.sim[t] > y.sim[t]
           Before(x, y) == Nearer(x, y) \/ (~Nearer(y, x) /\ x.id < y.id)
           R == {p \in S \X S : Before(p[1], p[2])}
           Earlier(x) == {y \in S : Before(y, x)}
           f == NearestTo(t, S)
<1>1. /\ Orders(R, S)
      /\ \A x, y \in S : <<x, y>> \in R => x.sim[t] >= y.sim[t]
  BY DEF Orders, Identified
<1>2. \A x \in S : Below(R, S, x) = Earlier(x)
  BY DEF Below
<1>3. f = [n \in 1..Cardinality(S) |-> CHOOSE x \in S : Cardinality(Earlier(x)) = n - 1]
  BY DEF NearestTo, Ranked, Ordered
<1> HIDE DEF R, Earlier, f
<1>4. \A n \in 1..Cardinality(S) : \E x \in S : Cardinality(Below(R, S, x)) = n - 1
  BY <1>1, RowOfRank DEF Identified
<1>5. \A n \in 1..Cardinality(S) : f[n] \in S /\ Cardinality(Earlier(f[n])) = n - 1
  BY <1>2, <1>3, <1>4
<1>6. SortedBy(f, R, S)
  BY <1>2, <1>3, <1>5 DEF SortedBy
<1> QED
  BY <1>1, <1>6 DEF f

LEMMA BestFirstIsSorted ==
  ASSUME NEW S, Identified(S), \A x \in S : x.sim \in Int
  PROVE  \E R : /\ Orders(R, S) /\ SortedBy(BestFirst(S), R, S)
               /\ \A x, y \in S : <<x, y>> \in R => x.sim >= y.sim
<1> DEFINE Nearer(x, y) == x.sim > y.sim
           Before(x, y) == Nearer(x, y) \/ (~Nearer(y, x) /\ x.id < y.id)
           R == {p \in S \X S : Before(p[1], p[2])}
           Earlier(x) == {y \in S : Before(y, x)}
           f == BestFirst(S)
<1>1. /\ Orders(R, S)
      /\ \A x, y \in S : <<x, y>> \in R => x.sim >= y.sim
  BY DEF Orders, Identified
<1>2. \A x \in S : Below(R, S, x) = Earlier(x)
  BY DEF Below
<1>3. f = [n \in 1..Cardinality(S) |-> CHOOSE x \in S : Cardinality(Earlier(x)) = n - 1]
  BY DEF BestFirst, Ranked, Ordered
<1> HIDE DEF R, Earlier, f
<1>4. \A n \in 1..Cardinality(S) : \E x \in S : Cardinality(Below(R, S, x)) = n - 1
  BY <1>1, RowOfRank DEF Identified
<1>5. \A n \in 1..Cardinality(S) : f[n] \in S /\ Cardinality(Earlier(f[n])) = n - 1
  BY <1>2, <1>3, <1>4
<1>6. SortedBy(f, R, S)
  BY <1>2, <1>3, <1>5 DEF SortedBy
<1> QED
  BY <1>1, <1>6 DEF f

(* The order of the company's boxes, as a set of pairs. *)
NewerPairs(q, S) ==
  {p \in S \X S :
     \/ ArticleOf(q, p[1]).at > ArticleOf(q, p[2]).at
     \/ /\ ArticleOf(q, p[1]).at = ArticleOf(q, p[2]).at
        /\ p[1].index < p[2].index \/ (p[1].index = p[2].index /\ p[1].id < p[2].id)}

LEMMA NewestFirstIsSorted ==
  ASSUME NEW S, Identified(S), NEW q, \A x \in S : x.index \in Int /\ ArticleOf(q, x).at \in Int
  PROVE  Orders(NewerPairs(q, S), S) /\ SortedBy(NewestFirst(q, S), NewerPairs(q, S), S)
<1> DEFINE Newer(x, y) == \/ ArticleOf(q, x).at > ArticleOf(q, y).at
                          \/ ArticleOf(q, x).at = ArticleOf(q, y).at /\ x.index < y.index
           Before(x, y) == Newer(x, y) \/ (~Newer(y, x) /\ x.id < y.id)
           R == NewerPairs(q, S)
           Earlier(x) == {y \in S : Before(y, x)}
           f == NewestFirst(q, S)
<1>0. \A x, y \in S : <<x, y>> \in R <=> Before(x, y)
  <2> TAKE x, y \in S
  <2>1. <<x, y>> \in R <=>
          \/ ArticleOf(q, x).at > ArticleOf(q, y).at
          \/ /\ ArticleOf(q, x).at = ArticleOf(q, y).at
             /\ x.index < y.index \/ (x.index = y.index /\ x.id < y.id)
    BY DEF NewerPairs
  <2>2. x.index \in Int /\ y.index \in Int /\ ArticleOf(q, x).at \in Int /\ ArticleOf(q, y).at \in Int
    OBVIOUS
  <2> QED
    BY <2>1, <2>2
<1>1. Orders(R, S)
  <2> HIDE DEF R
  <2> QED
    BY <1>0 DEF Orders, Identified
<1>2. \A x \in S : Below(R, S, x) = Earlier(x)
  <2> HIDE DEF R
  <2> QED
    BY <1>0 DEF Below
<1>3. f = [n \in 1..Cardinality(S) |-> CHOOSE x \in S : Cardinality(Earlier(x)) = n - 1]
  BY DEF NewestFirst, Ranked, Ordered
<1> HIDE DEF R, Earlier, f
<1>4. \A n \in 1..Cardinality(S) : \E x \in S : Cardinality(Below(R, S, x)) = n - 1
  BY <1>1, RowOfRank DEF Identified
<1>5. \A n \in 1..Cardinality(S) : f[n] \in S /\ Cardinality(Earlier(f[n])) = n - 1
  BY <1>2, <1>3, <1>4
<1>6. SortedBy(f, R, S)
  BY <1>2, <1>3, <1>5 DEF SortedBy
<1> QED
  BY <1>1, <1>6 DEF f, R

(* A set has one list in a given order.                                    *)
LEMMA SortedIsUnique ==
  ASSUME NEW S, IsFiniteSet(S), NEW R, Orders(R, S),
         NEW f, SortedBy(f, R, S), NEW g, SortedBy(g, R, S)
  PROVE  f = g
<1>1. f \in [1..Cardinality(S) -> S] /\ g \in [1..Cardinality(S) -> S]
  BY DEF SortedBy
<1>2. ASSUME NEW n \in 1..Cardinality(S) PROVE f[n] = g[n]
  <2>1. f[n] \in S /\ g[n] \in S
    BY <1>1
  <2>2. Cardinality(Below(R, S, f[n])) = Cardinality(Below(R, S, g[n]))
    BY DEF SortedBy
  <2>3. Cardinality(Below(R, S, f[n])) \in Int
    BY <2>1, RankOfRow
  <2>4. <<f[n], g[n]>> \notin R /\ <<g[n], f[n]>> \notin R
    BY <2>1, <2>2, <2>3, RanksIncrease
  <2> QED
    BY <2>1, <2>4 DEF Orders
<1>3. PICK P : P = 1..Cardinality(S)
  OBVIOUS
<1>4. f \in [P -> S] /\ g \in [P -> S] /\ \A n \in P : f[n] = g[n]
  BY <1>1, <1>2, <1>3
<1> QED
  BY <1>4

-----------------------------------------------------------------------------
(***************************************************************************)
(* The questions of Precedents                                             *)
(***************************************************************************)

(* What the database and the settings guarantee of a retrieval: different  *)
(* rows have different ids, a box belongs to an article, and a box can be  *)
(* compared with every embedded box of the target.                         *)
PrecedentOptions ==
  {"mode", "at", "lookback", "realNewsOnly", "known", "targetBoxes", "k", "limit", "historyLimit",
   "threshold", "hybridBoxThreshold", "hybridArticleThreshold", "articles", "boxes"}

PrecedentQuestion(q) ==
  /\ PrecedentOptions \subseteq DOMAIN q
  /\ q.mode \in Modes
  /\ q.at \in Int /\ q.lookback \in Nat
  /\ q.k \in Nat /\ q.limit \in Nat /\ q.historyLimit \in Nat
  /\ q.threshold \in Int /\ q.hybridBoxThreshold \in Int /\ q.hybridArticleThreshold \in Int
  /\ IsFiniteSet(q.targetBoxes)
  /\ Identified(q.articles) /\ \A a \in q.articles : a.at \in Int /\ a.near \in Int
  /\ Identified(q.boxes)
  /\ \A b \in q.boxes :
       /\ \E a \in q.articles : a.id = b.article
       /\ b.index \in Int /\ b.near \in Int /\ b.text \in BOOLEAN
       /\ \A t \in q.targetBoxes : b.sim[t] \in Int

(* The questions that are model-checked are such questions. *)
LEMMA AskedPrecedentQuestion == AskPrecedents => PrecedentQuestion(question')
<1> SUFFICES ASSUME AskPrecedents PROVE PrecedentQuestion(question')
  OBVIOUS
<1> DEFINE q == question'
<1>1. PICK when \in {<<3, 4>>, <<3, 5>>, <<3, 10>>, <<3, 11>>, <<0, 4>>},
           label \in {"act", "other"}, near \in {1, 3}, same \in BOOLEAN, realNewsOnly \in BOOLEAN,
           s1 \in Sims, s2 \in Sims, s3 \in {<<2, 0>>, <<3, 2>>}, mode \in Modes, limit \in {1, 2},
           known \in {{"published", "vector", "ticker"}, {"published"}, {"vector", "ticker"}} :
        q = [of |-> "precedents", mode |-> mode, at |-> 11, lookback |-> when[1],
             realNewsOnly |-> realNewsOnly,
             known |-> known, targetBoxes |-> {1, 2}, k |-> limit, limit |-> limit,
             historyLimit |-> limit, threshold |-> 1,
             hybridBoxThreshold |-> 0, hybridArticleThreshold |-> 2,
             articles |-> {Article(Target, 11, "act", 9, TRUE), Article(1, when[2], label, near, same),
                           Article(2, 8, "real news", 2, TRUE)},
             boxes |-> {Box(1, 1, 1, s1, "KEEP", TRUE), Box(2, 1, 2, s2, "DROP", TRUE),
                        Box(3, 2, 1, s3, "none", near = 1), Box(4, Target, 1, <<9, 9>>, "KEEP", TRUE)}]
  BY Zenon DEF AskPrecedents
<1> DEFINE a0 == Article(Target, 11, "act", 9, TRUE)
           a1 == Article(1, when[2], label, near, same)
           a2 == Article(2, 8, "real news", 2, TRUE)
           b1 == Box(1, 1, 1, s1, "KEEP", TRUE)
           b2 == Box(2, 1, 2, s2, "DROP", TRUE)
           b3 == Box(3, 2, 1, s3, "none", near = 1)
           b4 == Box(4, Target, 1, <<9, 9>>, "KEEP", TRUE)
<1> HIDE DEF q
<1>2. /\ q.mode = mode /\ q.at = 11 /\ q.lookback = when[1] /\ q.targetBoxes = {1, 2}
      /\ q.k = limit /\ q.limit = limit /\ q.historyLimit = limit
      /\ q.threshold = 1 /\ q.hybridBoxThreshold = 0 /\ q.hybridArticleThreshold = 2
      /\ q.articles = {a0, a1, a2} /\ q.boxes = {b1, b2, b3, b4}
  BY <1>1, Zenon
<1>3. /\ a0.id = 0 /\ a0.at = 11 /\ a0.near = 9
      /\ a1.id = 1 /\ a1.at = when[2] /\ a1.near = near
      /\ a2.id = 2 /\ a2.at = 8 /\ a2.near = 2
  BY DEF Article, Target
<1>4. /\ \A s \in Sims : s[1] \in Int /\ s[2] \in Int
      /\ s3[1] \in Int /\ s3[2] \in Int
      /\ when[1] \in Nat /\ when[2] \in Int /\ near \in Int /\ limit \in Nat
  BY DEF Sims
<1>5. /\ b1.id = 1 /\ b1.article = 1 /\ b1.index = 1 /\ b1.near = s1[1] /\ b1.sim = s1
      /\ b2.id = 2 /\ b2.article = 1 /\ b2.index = 2 /\ b2.near = s2[1] /\ b2.sim = s2
      /\ b3.id = 3 /\ b3.article = 2 /\ b3.index = 1 /\ b3.near = s3[1] /\ b3.sim = s3
      /\ b4.id = 4 /\ b4.article = 0 /\ b4.index = 1 /\ b4.near = 9 /\ b4.sim = <<9, 9>>
      /\ b1.text \in BOOLEAN /\ b2.text \in BOOLEAN /\ b4.text \in BOOLEAN
  BY DEF Box, Target
<1>6. b3.text \in BOOLEAN
  <2>1. b3.text = (near = 1)
    BY Zenon DEF Box
  <2> QED
    BY <2>1, Zenon
<1>7. IsFiniteSet({a0, a1, a2}) /\ IsFiniteSet({b1, b2, b3, b4}) /\ IsFiniteSet({1, 2})
  BY FewElements
<1> HIDE DEF a0, a1, a2, b1, b2, b3, b4
<1>8. /\ \A a \in q.articles : a = a0 \/ a = a1 \/ a = a2
      /\ \A b \in q.boxes : b = b1 \/ b = b2 \/ b = b3 \/ b = b4
      /\ a0 \in q.articles /\ a1 \in q.articles /\ a2 \in q.articles
  BY <1>2
<1>9. Identified(q.articles) /\ \A a \in q.articles : a.at \in Int /\ a.near \in Int
  <2>1. IsFiniteSet(q.articles)
    BY <1>2, <1>7
  <2> QED
    BY <1>3, <1>4, <1>8, <2>1 DEF Identified
<1>10. Identified(q.boxes)
  <2>1. IsFiniteSet(q.boxes)
    BY <1>2, <1>7
  <2> QED
    BY <1>5, <1>8, <2>1 DEF Identified
<1>11. ASSUME NEW b \in q.boxes
       PROVE  /\ \E a \in q.articles : a.id = b.article
              /\ b.index \in Int /\ b.near \in Int /\ b.text \in BOOLEAN
              /\ \A t \in {1, 2} : b.sim[t] \in Int
  <2>1. b.index \in Int /\ b.near \in Int /\ b.sim[1] \in Int /\ b.sim[2] \in Int
    BY <1>4, <1>5, <1>8
  <2>2. \E a \in q.articles : a.id = b.article
    BY <1>3, <1>5, <1>8
  <2>3. b.text \in BOOLEAN
    BY <1>5, <1>6, <1>8, Zenon
  <2> QED
    BY <2>1, <2>2, <2>3
<1>12. IsFiniteSet(q.targetBoxes)
  BY <1>2, <1>7
<1>0. PrecedentOptions \subseteq DOMAIN q
  <2>1. DOMAIN q = PrecedentOptions \cup {"of"}
    BY <1>1 DEF PrecedentOptions
  <2> QED
    BY <2>1
<1>13. PrecedentQuestion(q)
  BY <1>0, <1>2, <1>4, <1>9, <1>10, <1>11, <1>12 DEF PrecedentQuestion
<1> QED
  BY <1>13 DEF q

LEMMA ArticleOfBox ==
  ASSUME NEW q, PrecedentQuestion(q), NEW b \in q.boxes
  PROVE  /\ ArticleOf(q, b) \in q.articles /\ ArticleOf(q, b).id = b.article
         /\ \A a \in q.articles : a.id = b.article => a = ArticleOf(q, b)
<1>1. \E a \in q.articles : a.id = b.article
  BY DEF PrecedentQuestion
<1>2. ArticleOf(q, b) \in q.articles /\ ArticleOf(q, b).id = b.article
  BY <1>1 DEF ArticleOf
<1> QED
  BY <1>2 DEF PrecedentQuestion, Identified

-----------------------------------------------------------------------------
(***************************************************************************)
(* The rows an insight mode retrieves                                      *)
(***************************************************************************)

(* What one box of the target finds are the nearest of its rows.           *)
LEMMA FoundByBox ==
  ASSUME NEW q, PrecedentQuestion(q), NEW src, NEW threshold, NEW within,
         NEW limit \in Nat, NEW t \in q.targetBoxes,
         NEW A, A = Admissible(q, src, threshold, within, t),
         NEW F, F = ToSet(FirstN(NearestTo(t, A), limit))
  PROVE  /\ IsFiniteSet(A) /\ A \in SUBSET q.boxes /\ F \in SUBSET A /\ IsFiniteSet(F)
         /\ Cardinality(F) = (IF limit < Cardinality(A) THEN limit ELSE Cardinality(A))
         /\ \A x \in F, y \in A \ F : x.sim[t] >= y.sim[t]
<1>1. A \in SUBSET q.boxes
  BY DEF Admissible
<1>2. Identified(A)
  BY <1>1, SubsetIdentified DEF PrecedentQuestion
<1>3. \A x \in A : x.sim[t] \in Int
  BY <1>1 DEF PrecedentQuestion
<1>4. PICK R : /\ Orders(R, A) /\ SortedBy(NearestTo(t, A), R, A)
               /\ \A x, y \in A : <<x, y>> \in R => x.sim[t] >= y.sim[t]
  BY <1>2, <1>3, NearestToIsSorted
<1>5. IsFiniteSet(A)
  BY <1>2 DEF Identified
<1>6. /\ F \in SUBSET A /\ IsFiniteSet(F)
      /\ Cardinality(F) = (IF limit < Cardinality(A) THEN limit ELSE Cardinality(A))
      /\ \A x \in F, y \in A \ F : <<x, y>> \in R
  BY <1>4, <1>5, TopRows
<1> QED
  BY <1>1, <1>4, <1>5, <1>6

(* The union has one hit per row that was found, with its best similarity. *)
OneHitEach(W, found, U, B, hit) ==
  /\ hit \in Bijection(U, B)
  /\ \A b \in U :
       /\ hit[b].id = b.id /\ hit[b].article = b.article /\ hit[b].text = b.text
       /\ \E t \in W : b \in found[t] /\ hit[b].sim = b.sim[t]
       /\ \A t \in W : b \in found[t] => b.sim[t] <= hit[b].sim

LEMMA UnionOfFound ==
  ASSUME NEW q, PrecedentQuestion(q), NEW found \in [q.targetBoxes -> SUBSET q.boxes],
         NEW U, U = UNION {found[t] : t \in q.targetBoxes},
         NEW B, B = BestHits(found)
  PROVE  /\ Identified(B) /\ \A h \in B : h.sim \in Int
         /\ U \in SUBSET q.boxes
         /\ \E hit : OneHitEach(q.targetBoxes, found, U, B, hit)
<1> DEFINE SimsOf(b) == {b.sim[t] : t \in {u \in q.targetBoxes : b \in found[u]}}
           BestSim(b) == CHOOSE s \in SimsOf(b) : \A t \in q.targetBoxes : b \in found[t] => b.sim[t] <= s
           hit == [b \in U |-> [id |-> b.id, article |-> b.article, text |-> b.text,
                                sim |-> BestSim(b)]]
<1>1. U \in SUBSET q.boxes
  OBVIOUS
<1>2. B = {hit[b] : b \in U}
  <2>1. DOMAIN found = q.targetBoxes
    OBVIOUS
  <2>2. B = {[id |-> b.id, article |-> b.article, text |-> b.text, sim |-> BestSim(b)] : b \in U}
    BY <2>1, Zenon DEF BestHits
  <2> QED
    BY <2>2, Zenon
<1>3. ASSUME NEW b \in U
      PROVE  /\ \E t \in q.targetBoxes : b \in found[t] /\ BestSim(b) = b.sim[t]
             /\ \A t \in q.targetBoxes : b \in found[t] => b.sim[t] <= BestSim(b)
  <2> DEFINE W == {u \in q.targetBoxes : b \in found[u]}
             sim == [t \in W |-> b.sim[t]]
  <2>1. W # {}
    BY <1>3
  <2>2. SimsOf(b) # {} /\ SimsOf(b) \in SUBSET Int
    BY <1>1, <2>1 DEF PrecedentQuestion
  <2>3. IsFiniteSet(SimsOf(b))
    <3>1. IsFiniteSet(W)
      BY FS_Subset DEF PrecedentQuestion
    <3>2. sim \in Surjection(W, SimsOf(b))
      BY DEF Surjection
    <3> QED
      BY <3>1, <3>2, FS_Surjection
  <2>4. \E s \in SimsOf(b) : \A r \in SimsOf(b) : r <= s
    BY <2>2, <2>3, GreatestExists
  <2>5. \E s \in SimsOf(b) : \A t \in q.targetBoxes : b \in found[t] => b.sim[t] <= s
    BY <2>4
  <2> QED
    BY <2>5
<1> HIDE DEF BestSim
<1>4. \A b \in U : /\ hit[b].id = b.id /\ hit[b].article = b.article /\ hit[b].text = b.text
                   /\ hit[b].sim = BestSim(b)
  OBVIOUS
<1> HIDE DEF hit
<1>5. hit \in Bijection(U, B)
  <2>1. hit \in [U -> B]
    BY <1>2 DEF hit
  <2>2. \A b, c \in U : hit[b] = hit[c] => b = c
    BY <1>1, <1>4 DEF PrecedentQuestion, Identified
  <2>3. \A h \in B : \E b \in U : hit[b] = h
    BY <1>2
  <2> QED
    BY <2>1, <2>2, <2>3, Fun_IsBij DEF Surjection
<1>6. Identified(B) /\ \A h \in B : h.sim \in Int
  <2>1. IsFiniteSet(B)
    <3>1. IsFiniteSet(U)
      BY <1>1, FS_Subset DEF PrecedentQuestion, Identified
    <3> QED
      BY <1>5, <3>1, FS_Bijection DEF ExistsBijection
  <2>2. \A h \in B : h.id \in Int /\ h.sim \in Int
    BY <1>1, <1>2, <1>3, <1>4 DEF PrecedentQuestion, Identified
  <2>3. \A g, h \in B : g.id = h.id => g = h
    BY <1>1, <1>2, <1>4 DEF PrecedentQuestion, Identified
  <2> QED
    BY <2>1, <2>2, <2>3 DEF Identified
<1>7. \A b \in U :
        /\ hit[b].id = b.id /\ hit[b].article = b.article /\ hit[b].text = b.text
        /\ \E t \in q.targetBoxes : b \in found[t] /\ hit[b].sim = b.sim[t]
        /\ \A t \in q.targetBoxes : b \in found[t] => b.sim[t] <= hit[b].sim
  BY <1>3, <1>4
<1>8. OneHitEach(q.targetBoxes, found, U, B, hit)
  BY <1>5, <1>7, Zenon DEF OneHitEach
<1> QED
  BY <1>1, <1>6, <1>8, Zenon

(* The hits are the best of the union, each once, the best first.          *)
LEMMA InsightHits ==
  ASSUME NEW q, PrecedentQuestion(q), NEW limit \in Nat,
         NEW found \in [q.targetBoxes -> SUBSET q.boxes],
         NEW B, B = BestHits(found),
         NEW H, H = FirstN(BestFirst(B), limit)
  PROVE  /\ H \in Seq(B) /\ DOMAIN H = 1..Len(H)
         /\ IsFiniteSet(B) /\ ToSet(H) \in SUBSET B /\ Cardinality(ToSet(H)) = Len(H)
         /\ Len(H) = (IF limit < Cardinality(B) THEN limit ELSE Cardinality(B))
         /\ \A i, j \in DOMAIN H : i < j => H[i].sim >= H[j].sim
         /\ \A i, j \in DOMAIN H : H[i] = H[j] => i = j
         /\ \A g \in ToSet(H), h \in B \ ToSet(H) : g.sim >= h.sim
<1>2. Identified(B) /\ \A h \in B : h.sim \in Int
  <2>1. PICK U : U = UNION {found[t] : t \in q.targetBoxes}
    OBVIOUS
  <2> QED
    BY <2>1, UnionOfFound
<1>3. PICK R : /\ Orders(R, B) /\ SortedBy(BestFirst(B), R, B)
               /\ \A x, y \in B : <<x, y>> \in R => x.sim >= y.sim
  BY <1>2, BestFirstIsSorted
<1>4. IsFiniteSet(B)
  BY <1>2 DEF Identified
<1>6. /\ H \in Seq(B) /\ DOMAIN H = 1..Len(H)
      /\ Len(H) = (IF limit < Cardinality(B) THEN limit ELSE Cardinality(B))
      /\ \A i \in DOMAIN H : i \in DOMAIN BestFirst(B) /\ H[i] = BestFirst(B)[i]
  BY <1>3, <1>4, FirstRows
<1>7. /\ \A i, j \in DOMAIN BestFirst(B) : <<BestFirst(B)[i], BestFirst(B)[j]>> \in R <=> i < j
      /\ \A i, j \in DOMAIN BestFirst(B) : BestFirst(B)[i] = BestFirst(B)[j] => i = j
  BY <1>3, <1>4, SortedList
<1>8. /\ ToSet(H) \in SUBSET B /\ Cardinality(ToSet(H)) = Len(H)
      /\ \A g \in ToSet(H), h \in B \ ToSet(H) : <<g, h>> \in R
  BY <1>3, <1>4, TopRows
<1>9. \A i \in DOMAIN H : H[i] \in B
  BY <1>6
<1>10. ASSUME NEW i \in DOMAIN H, NEW j \in DOMAIN H, i < j PROVE H[i].sim >= H[j].sim
  <2>1. <<H[i], H[j]>> \in R
    BY <1>6, <1>7, <1>10
  <2> QED
    BY <1>3, <1>9, <2>1
<1>11. \A i, j \in DOMAIN H : H[i] = H[j] => i = j
  BY <1>6, <1>7
<1>12. \A g \in ToSet(H), h \in B \ ToSet(H) : g.sim >= h.sim
  BY <1>3, <1>8
<1> QED
  BY <1>4, <1>6, <1>8, <1>10, <1>11, <1>12

(* Rows become articles: each once, in the order of their first rows.      *)
GroupedByArticle(rows, G) ==
  /\ DOMAIN G = 1..Len(G) /\ DOMAIN rows = 1..Len(rows)
  /\ {G[i].article : i \in DOMAIN G} = {rows[i].article : i \in DOMAIN rows}
  /\ \A i, j \in DOMAIN G : G[i].article = G[j].article => i = j
  /\ \A i, j \in DOMAIN G : i < j =>
       \E m \in DOMAIN rows : /\ rows[m].article = G[i].article
                              /\ \A n \in 1..m : rows[n].article # G[j].article
  /\ \A x : (\E i \in DOMAIN G : Contains(G[i].excerpts, x)) <=>
              \E m \in DOMAIN rows : rows[m].text /\ rows[m].id = x

LEMMA GroupedRows ==
  ASSUME NEW T, NEW rows \in Seq(T), NEW G, G = Grouped(rows)
  PROVE  GroupedByArticle(rows, G)
<1> DEFINE W == {rows[i].article : i \in DOMAIN rows}
           arts == [i \in DOMAIN rows |-> rows[i].article]
           order == Dedup(arts)
           positions(a) == {i \in DOMAIN rows : rows[i].article = a /\ rows[i].text}
           excerpts(a) == Picked(rows, positions(a))
<1>1. DOMAIN rows = 1..Len(rows) /\ Len(rows) \in Nat
  BY LenProperties
<1>2. /\ arts \in Seq(W) /\ DOMAIN arts = DOMAIN rows /\ ToSet(arts) = W
      /\ \A i \in DOMAIN rows : arts[i] = rows[i].article /\ rows[i].article \in W
      /\ \A a \in W : \E i \in DOMAIN rows : rows[i].article = a
  BY <1>1 DEF ToSet
<1>3. G = [i \in DOMAIN order |->
             [article |-> order[i],
              excerpts |-> [j \in DOMAIN excerpts(order[i]) |-> excerpts(order[i])[j].id]]]
  BY Zenon DEF Grouped, Filtered, Positions
<1>4. W = {rows[i].article : i \in DOMAIN rows}
  OBVIOUS
<1> HIDE DEF order, arts, W, excerpts
<1>5. /\ order \in Seq(W) /\ DOMAIN order = 1..Len(order) /\ ToSet(order) = W
      /\ \A m, n \in DOMAIN order : order[m] = order[n] => m = n
      /\ \A m, n \in DOMAIN order : m < n =>
           \E i \in DOMAIN arts : /\ arts[i] = order[m]
                                  /\ \A j \in 1..i : arts[j] # order[n]
  BY <1>2, DedupList DEF order
<1>6. DOMAIN G = DOMAIN order /\ \A i \in DOMAIN G : G[i].article = order[i]
  BY <1>3
<1>f. \A i \in DOMAIN G :
        G[i].excerpts = [j \in DOMAIN excerpts(order[i]) |-> excerpts(order[i])[j].id]
  BY <1>3
<1>e. \A a : /\ excerpts(a) \in Seq(T) /\ DOMAIN excerpts(a) = 1..Len(excerpts(a))
             /\ Len(excerpts(a)) \in Nat /\ ToSet(excerpts(a)) = {rows[i] : i \in positions(a)}
  <2> TAKE a
  <2>1. positions(a) \in SUBSET (DOMAIN rows)
    OBVIOUS
  <2> HIDE DEF positions
  <2> QED
    BY <2>1, PickedList DEF excerpts
<1>7. DOMAIN G = 1..Len(G)
  <2>1. Len(order) \in Nat
    BY <1>5
  <2> QED
    BY <1>5, <1>3, <2>1
<1>8. {G[i].article : i \in DOMAIN G} = W
  BY <1>5, <1>6 DEF ToSet
<1>9. \A i, j \in DOMAIN G : G[i].article = G[j].article => i = j
  BY <1>5, <1>6
<1>10. ASSUME NEW i \in DOMAIN G, NEW j \in DOMAIN G, i < j
       PROVE  \E m \in DOMAIN rows : /\ rows[m].article = G[i].article
                                     /\ \A n \in 1..m : rows[n].article # G[j].article
  <2>1. PICK m \in DOMAIN arts : arts[m] = order[i] /\ \A n \in 1..m : arts[n] # order[j]
    BY <1>5, <1>6, <1>10
  <2>2. 1..m \subseteq DOMAIN rows
    BY <1>1, <1>2, <2>1
  <2> QED
    BY <1>2, <1>6, <2>1, <2>2
<1>11. ASSUME NEW x
       PROVE  (\E i \in DOMAIN G : Contains(G[i].excerpts, x)) <=>
                 \E m \in DOMAIN rows : rows[m].text /\ rows[m].id = x
  <2>1. ASSUME NEW i \in DOMAIN G
        PROVE  Contains(G[i].excerpts, x) <=>
                 \E m \in DOMAIN rows : rows[m].text /\ rows[m].id = x /\ rows[m].article = G[i].article
    <3> DEFINE E == excerpts(order[i])
    <3>1. G[i].excerpts = [j \in 1..Len(E) |-> E[j].id] /\ Len(E) \in Nat
      BY <1>6, <1>f, <1>e, <2>1
    <3>2. Len(G[i].excerpts) = Len(E)
      BY <3>1
    <3>3. Contains(G[i].excerpts, x) <=> \E j \in 1..Len(E) : E[j].id = x
      BY <3>1, <3>2 DEF Contains
    <3>4. (\E j \in 1..Len(E) : E[j].id = x) <=> \E e \in ToSet(E) : e.id = x
      BY <1>e DEF ToSet
    <3>5. (\E e \in ToSet(E) : e.id = x) <=> \E m \in positions(order[i]) : rows[m].id = x
      BY <1>e
    <3> QED
      BY <1>6, <3>3, <3>4, <3>5
  <2>2. \A m \in DOMAIN rows : \E i \in DOMAIN G : G[i].article = rows[m].article
    BY <1>2, <1>8
  <2> QED
    BY <2>1, <2>2
<1> QED
  BY <1>1, <1>4, <1>7, <1>8, <1>9, <1>10, <1>11 DEF GroupedByArticle

-----------------------------------------------------------------------------
(***************************************************************************)
(* What an insight mode shows                                              *)
(***************************************************************************)

ModeSource(q) == INSIGHT_SOURCES[q.mode]

Within(q) == IF ModeSource(q).hybrid THEN ArticleNeighbors(q, q.hybridArticleThreshold)
                                     ELSE Everywhere(q)

ModeHits(q) == RankedInsightHits(q, ModeSource(q), BoxThreshold(q, ModeSource(q)), q.limit, Within(q))

FoundFor(q) ==
  [t \in q.targetBoxes |->
     ToSet(FirstN(NearestTo(t, Admissible(q, ModeSource(q), BoxThreshold(q, ModeSource(q)),
                                          Within(q), t)), q.limit))]

LEMMA HitsOfMode ==
  ASSUME NEW q, PrecedentQuestion(q), q.mode \in InsightModes
  PROVE  /\ RankedPrecedentHits(q, ModeSource(q), BoxThreshold(q, ModeSource(q)), q.limit,
                                q.hybridArticleThreshold) = ModeHits(q)
         /\ GatherPrecedents(q) = Grouped(ModeHits(q))
         /\ FoundFor(q) \in [q.targetBoxes -> SUBSET q.boxes]
         /\ ModeHits(q) = (IF "published" \in q.known
                          THEN FirstN(BestFirst(BestHits(FoundFor(q))), q.limit) ELSE <<>>)
<1>1. q.mode # "tickerHistory" /\ q.mode # "tickerRelevant" /\ q.mode # "article"
  BY DEF InsightModes, INSIGHT_SOURCES
<1>3. RankedPrecedentHits(q, ModeSource(q), BoxThreshold(q, ModeSource(q)), q.limit,
                          q.hybridArticleThreshold) = ModeHits(q)
  BY Zenon DEF RankedPrecedentHits, ModeHits, Within
<1>4. GatherPrecedents(q) = Grouped(ModeHits(q))
  <2>1. GatherPrecedents(q) =
          InsightsSimilarity(q, ModeSource(q), BoxThreshold(q, ModeSource(q)), q.limit, Within(q))
    BY <1>1 DEF GatherPrecedents, ModeSource, Within
  <2> QED
    BY <2>1, Zenon DEF InsightsSimilarity, ModeHits
<1>5. FoundFor(q) \in [q.targetBoxes -> SUBSET q.boxes]
  <2>1. q.limit \in Nat
    BY DEF PrecedentQuestion
  <2>2. ASSUME NEW t \in q.targetBoxes
        PROVE  ToSet(FirstN(NearestTo(t, Admissible(q, ModeSource(q), BoxThreshold(q, ModeSource(q)),
                                                    Within(q), t)), q.limit)) \in SUBSET q.boxes
    BY <2>1, FoundByBox
  <2> QED
    BY <2>2 DEF FoundFor
<1>6. ModeHits(q) = (IF "published" \in q.known
                     THEN FirstN(BestFirst(BestHits(FoundFor(q))), q.limit) ELSE <<>>)
  BY Zenon DEF ModeHits, RankedInsightHits, FoundFor
<1> QED
  BY <1>3, <1>4, <1>5, <1>6

LEMMA HitsAreRows ==
  ASSUME NEW q, PrecedentQuestion(q), q.mode \in InsightModes
  PROVE  \E B : ModeHits(q) \in Seq(B)
<1>1. CASE "published" \in q.known
  <2>1. PICK found : found = FoundFor(q)
    OBVIOUS
  <2>2. PICK B : B = BestHits(found)
    OBVIOUS
  <2>3. ModeHits(q) = FirstN(BestFirst(B), q.limit) /\ found \in [q.targetBoxes -> SUBSET q.boxes]
    BY <1>1, <2>1, <2>2, HitsOfMode
  <2>4. q.limit \in Nat
    BY DEF PrecedentQuestion
  <2>5. ModeHits(q) \in Seq(B)
    BY <2>2, <2>3, <2>4, InsightHits
  <2> QED
    BY <2>5
<1>2. CASE "published" \notin q.known
  <2>1. ModeHits(q) = <<>>
    BY <1>2, HitsOfMode
  <2>2. ModeHits(q) \in Seq({})
    BY <2>1
  <2> QED
    BY <2>2
<1> QED
  BY <1>1, <1>2

-----------------------------------------------------------------------------
(***************************************************************************)
(* Nothing depends on what is later than the target                        *)
(***************************************************************************)

(* The corpus as it was is a corpus, with the same articles to precede the *)
(* target.                                                                 *)
SameSettings(q, r) ==
  /\ r.mode = q.mode /\ r.at = q.at /\ r.lookback = q.lookback
  /\ r.realNewsOnly = q.realNewsOnly /\ r.known = q.known /\ r.targetBoxes = q.targetBoxes
  /\ r.k = q.k /\ r.limit = q.limit /\ r.historyLimit = q.historyLimit
  /\ r.threshold = q.threshold /\ r.hybridBoxThreshold = q.hybridBoxThreshold
  /\ r.hybridArticleThreshold = q.hybridArticleThreshold

LEMMA AsOfQuestion ==
  ASSUME NEW q, PrecedentQuestion(q), NEW r, r = AsOf(q)
  PROVE  /\ PrecedentQuestion(r) /\ SameSettings(q, r)
         /\ r.articles = {a \in q.articles : InWindow(q, a)}
         /\ r.boxes = {b \in q.boxes : InWindow(q, ArticleOf(q, b))}
         /\ \A b \in r.boxes : ArticleOf(r, b) = ArticleOf(q, b)
         /\ \A a : Precedes(r, a) <=> Precedes(q, a)
         /\ \A a : Precedes(q, a) => InWindow(q, a)
<1>1. PrecedentOptions \subseteq DOMAIN q
  BY DEF PrecedentQuestion
<1>2. /\ DOMAIN r = DOMAIN q
      /\ r.articles = {a \in q.articles : InWindow(q, a)}
      /\ r.boxes = {b \in q.boxes : InWindow(q, ArticleOf(q, b))}
      /\ \A f \in PrecedentOptions \ {"articles", "boxes"} : r[f] = q[f]
  BY <1>1 DEF AsOf, PrecedentOptions
<1>3. SameSettings(q, r)
  BY <1>2 DEF SameSettings, PrecedentOptions
<1>4. \A a : Precedes(r, a) <=> Precedes(q, a)
  <2>1. r.at = q.at /\ r.lookback = q.lookback /\ r.realNewsOnly = q.realNewsOnly
    BY <1>3 DEF SameSettings
  <2> QED
    BY <2>1 DEF Precedes
<1>5. \A a : Precedes(q, a) => InWindow(q, a)
  BY DEF Precedes, InWindow
<1>6. ASSUME NEW b \in r.boxes
      PROVE  /\ b \in q.boxes /\ ArticleOf(q, b) \in r.articles
             /\ ArticleOf(r, b) = ArticleOf(q, b) /\ ArticleOf(q, b).id = b.article
  <2>1. b \in q.boxes /\ InWindow(q, ArticleOf(q, b))
    BY <1>2
  <2>2. PICK d : d = ArticleOf(q, b)
    OBVIOUS
  <2>3. d \in q.articles /\ d.id = b.article /\ \A a \in q.articles : a.id = b.article => a = d
    BY <2>1, <2>2, ArticleOfBox
  <2>4. d \in r.articles /\ \A a \in r.articles : a \in q.articles
    BY <1>2, <2>1, <2>2, <2>3
  <2>5. ArticleOf(r, b) \in r.articles /\ ArticleOf(r, b).id = b.article
    BY <2>3, <2>4 DEF ArticleOf
  <2>6. ArticleOf(r, b) = d
    BY <2>3, <2>4, <2>5
  <2> QED
    BY <2>1, <2>2, <2>3, <2>4, <2>6
<1>7. PrecedentQuestion(r)
  <2>1. r.articles \in SUBSET q.articles /\ r.boxes \in SUBSET q.boxes
    BY <1>2
  <2>2. Identified(q.articles) /\ Identified(q.boxes)
    BY DEF PrecedentQuestion
  <2>3. Identified(r.articles) /\ Identified(r.boxes)
    BY <2>1, <2>2, SubsetIdentified
  <2>4. \A a \in r.articles : a.at \in Int /\ a.near \in Int
    BY <2>1 DEF PrecedentQuestion
  <2>5. \A b \in r.boxes : \E a \in r.articles : a.id = b.article
    BY <1>6
  <2>6. \A b \in r.boxes : /\ b.index \in Int /\ b.near \in Int /\ b.text \in BOOLEAN
                           /\ \A t \in q.targetBoxes : b.sim[t] \in Int
    BY <2>1 DEF PrecedentQuestion
  <2>7. /\ PrecedentOptions \subseteq DOMAIN r
        /\ r.mode \in Modes /\ r.at \in Int /\ r.lookback \in Nat
        /\ r.k \in Nat /\ r.limit \in Nat /\ r.historyLimit \in Nat
        /\ r.threshold \in Int /\ r.hybridBoxThreshold \in Int /\ r.hybridArticleThreshold \in Int
        /\ IsFiniteSet(r.targetBoxes) /\ r.targetBoxes = q.targetBoxes
    BY <1>1, <1>2, <1>3 DEF PrecedentQuestion, SameSettings
  <2> QED
    BY <2>3, <2>4, <2>5, <2>6, <2>7 DEF PrecedentQuestion
<1> QED
  BY <1>2, <1>3, <1>4, <1>5, <1>6, <1>7

(* So every query finds the same rows.                                     *)
LEMMA AsOfRows ==
  ASSUME NEW q, PrecedentQuestion(q), NEW r, r = AsOf(q)
  PROVE  /\ {a \in r.articles : Precedes(r, a)} = {a \in q.articles : Precedes(q, a)}
         /\ \A threshold : ArticleNeighbors(r, threshold) = ArticleNeighbors(q, threshold)
         /\ OfTicker(r) = OfTicker(q)
<1>1. /\ r.articles = {a \in q.articles : InWindow(q, a)}
      /\ r.boxes = {b \in q.boxes : InWindow(q, ArticleOf(q, b))}
      /\ \A b \in r.boxes : ArticleOf(r, b) = ArticleOf(q, b)
      /\ \A a : Precedes(r, a) <=> Precedes(q, a)
      /\ \A a : Precedes(q, a) => InWindow(q, a)
      /\ r.known = q.known
  BY AsOfQuestion DEF SameSettings
<1>2. {a \in r.articles : Precedes(r, a)} = {a \in q.articles : Precedes(q, a)}
  BY <1>1
<1>3. ASSUME NEW threshold
      PROVE  ArticleNeighbors(r, threshold) = ArticleNeighbors(q, threshold)
  <2>1. {x \in r.articles : Precedes(r, x) /\ x.near > threshold} =
        {x \in q.articles : Precedes(q, x) /\ x.near > threshold}
    BY <1>1
  <2> QED
    BY <1>1, <2>1, Zenon DEF ArticleNeighbors
<1>4. OfTicker(r) = OfTicker(q)
  <2>1. \A b \in r.boxes : (ArticleOf(r, b).sameTicker /\ Precedes(r, ArticleOf(r, b))) <=>
                             (ArticleOf(q, b).sameTicker /\ Precedes(q, ArticleOf(q, b)))
    BY <1>1
  <2>2. ASSUME NEW b PROVE b \in OfTicker(r) <=> b \in OfTicker(q)
    <3>1. b \in OfTicker(r) <=>
            b \in r.boxes /\ ArticleOf(r, b).sameTicker /\ Precedes(r, ArticleOf(r, b))
      BY Zenon DEF OfTicker
    <3>2. b \in OfTicker(q) <=>
            b \in q.boxes /\ ArticleOf(q, b).sameTicker /\ Precedes(q, ArticleOf(q, b))
      BY Zenon DEF OfTicker
    <3>3. b \in r.boxes <=> b \in q.boxes /\ InWindow(q, ArticleOf(q, b))
      BY <1>1
    <3>4. Precedes(q, ArticleOf(q, b)) => InWindow(q, ArticleOf(q, b))
      BY <1>1
    <3> QED
      BY <2>1, <3>1, <3>2, <3>3, <3>4
  <2> QED
    BY <2>2
<1> QED
  BY <1>2, <1>3, <1>4

LEMMA AsOfHits ==
  ASSUME NEW q, PrecedentQuestion(q), q.mode \in InsightModes, NEW r, r = AsOf(q)
  PROVE  ModeHits(r) = ModeHits(q)
<1>1. /\ PrecedentQuestion(r) /\ SameSettings(q, r)
      /\ r.articles = {a \in q.articles : InWindow(q, a)}
      /\ r.boxes = {b \in q.boxes : InWindow(q, ArticleOf(q, b))}
      /\ \A b \in r.boxes : ArticleOf(r, b) = ArticleOf(q, b)
      /\ \A a : Precedes(r, a) <=> Precedes(q, a)
      /\ \A a : Precedes(q, a) => InWindow(q, a)
  BY AsOfQuestion
<1>2. PICK src : src = ModeSource(q)
  OBVIOUS
<1>3. ModeSource(r) = src /\ BoxThreshold(r, src) = BoxThreshold(q, src)
  BY <1>1, <1>2 DEF SameSettings, ModeSource, BoxThreshold
<1>4. PICK floor : floor = BoxThreshold(q, src)
  OBVIOUS
<1>5. ASSUME NEW b \in q.boxes, Precedes(q, ArticleOf(q, b))
      PROVE  b.article \in Within(r) <=> b.article \in Within(q)
  <2>1. CASE src.hybrid
    <3>1. Within(r) = ArticleNeighbors(r, r.hybridArticleThreshold)
      BY <1>3, <2>1 DEF Within
    <3>2. Within(q) = ArticleNeighbors(q, q.hybridArticleThreshold)
      BY <1>2, <2>1 DEF Within
    <3>3. r.hybridArticleThreshold = q.hybridArticleThreshold
      BY <1>1 DEF SameSettings
    <3> QED
      BY <3>1, <3>2, <3>3, AsOfRows
  <2>2. CASE ~src.hybrid
    <3>1. Within(r) = Everywhere(r) /\ Within(q) = Everywhere(q)
      BY <1>2, <1>3, <2>2 DEF Within
    <3>2. PICK d : d = ArticleOf(q, b)
      OBVIOUS
    <3>3. d \in q.articles /\ d.id = b.article
      BY <3>2, ArticleOfBox
    <3>4. d \in r.articles
      BY <1>1, <1>5, <3>2, <3>3
    <3> QED
      BY <3>1, <3>3, <3>4 DEF Everywhere
  <2> QED
    BY <2>1, <2>2
<1>6. ASSUME NEW t
      PROVE  Admissible(r, src, floor, Within(r), t) = Admissible(q, src, floor, Within(q), t)
  <2>1. ASSUME NEW b
        PROVE  b \in Admissible(r, src, floor, Within(r), t) <=>
                 b \in Admissible(q, src, floor, Within(q), t)
    <3>1. b \in Admissible(r, src, floor, Within(r), t) <=>
            /\ b \in r.boxes /\ b.article \in Within(r) /\ Precedes(r, ArticleOf(r, b))
            /\ b.sim[t] > floor /\ ~(src.drop /\ b.label = "DROP")
      BY Zenon DEF Admissible
    <3>2. b \in Admissible(q, src, floor, Within(q), t) <=>
            /\ b \in q.boxes /\ b.article \in Within(q) /\ Precedes(q, ArticleOf(q, b))
            /\ b.sim[t] > floor /\ ~(src.drop /\ b.label = "DROP")
      BY Zenon DEF Admissible
    <3>3. b \in r.boxes <=> b \in q.boxes /\ InWindow(q, ArticleOf(q, b))
      BY <1>1
    <3>4. b \in r.boxes => (Precedes(r, ArticleOf(r, b)) <=> Precedes(q, ArticleOf(q, b)))
      BY <1>1
    <3>5. Precedes(q, ArticleOf(q, b)) => InWindow(q, ArticleOf(q, b))
      BY <1>1
    <3> QED
      BY <1>5, <3>1, <3>2, <3>3, <3>4, <3>5, Zenon
  <2> QED
    BY <2>1
<1>7. FoundFor(r) = FoundFor(q)
  <2>1. r.targetBoxes = q.targetBoxes /\ r.limit = q.limit
    BY <1>1 DEF SameSettings
  <2>2. FoundFor(q) = [t \in q.targetBoxes |->
          ToSet(FirstN(NearestTo(t, Admissible(q, src, floor, Within(q), t)), q.limit))]
    BY <1>2, <1>4 DEF FoundFor
  <2>3. FoundFor(r) = [t \in q.targetBoxes |->
          ToSet(FirstN(NearestTo(t, Admissible(r, src, floor, Within(r), t)), q.limit))]
    BY <1>3, <1>4, <2>1 DEF FoundFor
  <2>4. \A t \in q.targetBoxes :
          ToSet(FirstN(NearestTo(t, Admissible(r, src, floor, Within(r), t)), q.limit)) =
          ToSet(FirstN(NearestTo(t, Admissible(q, src, floor, Within(q), t)), q.limit))
    BY <1>6
  <2> QED
    BY <2>2, <2>3, <2>4
<1>8. r.mode = q.mode /\ r.known = q.known /\ r.limit = q.limit
  BY <1>1 DEF SameSettings
<1>9. ModeHits(q) = (IF "published" \in q.known
                     THEN FirstN(BestFirst(BestHits(FoundFor(q))), q.limit) ELSE <<>>)
  BY HitsOfMode
<1>10. ModeHits(r) = (IF "published" \in q.known
                      THEN FirstN(BestFirst(BestHits(FoundFor(q))), q.limit) ELSE <<>>)
  <2>1. ModeHits(r) = (IF "published" \in r.known
                       THEN FirstN(BestFirst(BestHits(FoundFor(r))), r.limit) ELSE <<>>)
    BY <1>1, <1>8, HitsOfMode
  <2> QED
    BY <1>7, <1>8, <2>1
<1> QED
  BY <1>9, <1>10

LEMMA AsOfTicker ==
  ASSUME NEW q, PrecedentQuestion(q), NEW r, r = AsOf(q)
  PROVE  TickerInsights(r) = TickerInsights(q) /\ TickerRelevantInsights(r) = TickerRelevantInsights(q)
<1>1. /\ PrecedentQuestion(r) /\ r.known = q.known /\ r.historyLimit = q.historyLimit
      /\ \A b \in r.boxes : ArticleOf(r, b) = ArticleOf(q, b)
  BY AsOfQuestion DEF SameSettings
<1>2. PICK S : S = OfTicker(q)
  OBVIOUS
<1>3. S = OfTicker(r)
  BY <1>2, AsOfRows
<1>4. S \in SUBSET q.boxes /\ S \in SUBSET r.boxes
  BY <1>2, <1>3 DEF OfTicker
<1>5. Identified(S) /\ IsFiniteSet(S)
  BY <1>4, SubsetIdentified DEF PrecedentQuestion, Identified
<1>6. \A x \in S : x.index \in Int /\ ArticleOf(q, x).at \in Int /\ ArticleOf(r, x) = ArticleOf(q, x)
  BY <1>1, <1>4, ArticleOfBox DEF PrecedentQuestion
<1>7. NewerPairs(r, S) = NewerPairs(q, S)
  BY <1>6 DEF NewerPairs
<1>8. Orders(NewerPairs(q, S), S) /\ SortedBy(NewestFirst(q, S), NewerPairs(q, S), S)
  BY <1>5, <1>6, NewestFirstIsSorted
<1>9. SortedBy(NewestFirst(r, S), NewerPairs(q, S), S)
  BY <1>5, <1>6, <1>7, NewestFirstIsSorted
<1>10. NewestFirst(r, S) = NewestFirst(q, S)
  BY <1>5, <1>8, <1>9, SortedIsUnique
<1> QED
  BY <1>1, <1>2, <1>3, <1>10 DEF TickerInsights, TickerRelevantInsights

AppearsOnce(shown) ==
  \A i, j \in DOMAIN shown : shown[j].article = shown[i].article => i = j

LEMMA ShownOnce ==
  ASSUME NEW q, PrecedentQuestion(q)
  PROVE  AppearsOnce(GatherPrecedents(q))
<1>1. ASSUME NEW T, NEW rows \in Seq(T) PROVE AppearsOnce(Grouped(rows))
  <2>1. PICK G : G = Grouped(rows)
    OBVIOUS
  <2>2. GroupedByArticle(rows, G)
    BY <2>1, GroupedRows
  <2>3. \A i, j \in DOMAIN G : G[i].article = G[j].article => i = j
    BY <2>2, Zenon DEF GroupedByArticle
  <2> QED
    BY <2>1, <2>3 DEF AppearsOnce
<1>2. AppearsOnce(<<>>)
  BY DEF AppearsOnce
<1>3. CASE q.mode \in InsightModes
  <2>1. PICK B : ModeHits(q) \in Seq(B)
    BY <1>3, HitsAreRows
  <2> QED
    BY <1>1, <1>3, <2>1, HitsOfMode
<1>4. CASE q.mode \in {"tickerHistory", "tickerRelevant"}
  <2>1. PICK S : S = OfTicker(q)
    OBVIOUS
  <2>2. S \in SUBSET q.boxes
    BY <2>1 DEF OfTicker
  <2>3. Identified(S) /\ IsFiniteSet(S) /\ q.historyLimit \in Nat
    BY <2>2, SubsetIdentified DEF PrecedentQuestion, Identified
  <2>4. \A x \in S : x.near \in Int /\ x.index \in Int /\ ArticleOf(q, x).at \in Int
    BY <2>2, ArticleOfBox DEF PrecedentQuestion
  <2>5. FirstN(NewestFirst(q, S), q.historyLimit) \in Seq(S)
    BY <2>3, <2>4, NewestFirstIsSorted, LimitedRows
  <2>6. FirstN(Nearest(S), q.historyLimit) \in Seq(S)
    BY <2>3, <2>4, NearestIsSorted, LimitedRows
  <2>7. AppearsOnce(TickerInsights(q)) /\ AppearsOnce(TickerRelevantInsights(q))
    BY <1>1, <1>2, <2>1, <2>5, <2>6 DEF TickerInsights, TickerRelevantInsights
  <2> QED
    BY <1>4, <2>7 DEF GatherPrecedents
<1>5. CASE q.mode = "article"
  <2>1. PICK found : found = ArticleSimilarity(q)
    OBVIOUS
  <2>2. PICK S : S = {a \in q.articles : Precedes(q, a)}
    OBVIOUS
  <2>3. S \in SUBSET q.articles
    BY <2>2
  <2>4. Identified(S) /\ IsFiniteSet(S) /\ q.k \in Nat /\ \A a \in S : a.near \in Int
    BY <2>3, SubsetIdentified DEF PrecedentQuestion, Identified
  <2>5. PICK R : Orders(R, S) /\ SortedBy(Nearest(S), R, S)
    BY <2>4, NearestIsSorted
  <2>6. /\ \A i \in DOMAIN found : found[i] \in S
        /\ \A i, j \in DOMAIN found : found[i] = found[j] => i = j
    <3>1. CASE found = FirstN(Nearest(S), q.k)
      BY <2>4, <2>5, <3>1, LimitedRows
    <3>2. CASE found = <<>>
      BY <3>2
    <3> QED
      BY <2>1, <2>2, <3>1, <3>2 DEF ArticleSimilarity
  <2>7. \A i, j \in DOMAIN found : found[i].id = found[j].id => i = j
    BY <2>4, <2>6 DEF Identified
  <2>8. GatherPrecedents(q) = [i \in DOMAIN found |-> [article |-> found[i].id, excerpts |-> <<>>]]
    BY <1>5, <2>1 DEF GatherPrecedents
  <2> QED
    BY <2>7, <2>8 DEF AppearsOnce
<1>6. q.mode \in Modes
  BY DEF PrecedentQuestion
<1> QED
  BY <1>3, <1>4, <1>5, <1>6 DEF Modes

(* Whatever the mode, the settings and the stored rows, the analyst is     *)
(* shown what he would be shown if nothing but the earlier articles of the *)
(* lookback and their boxes were stored: no cut-off, prefilter or order    *)
(* depends on the target itself or on anything later.  No article is shown *)
(* twice.                                                                  *)
THEOREM NoPrecedentFromTheFuture == PrecedentQuestion(question) => PrecedentsArePast
<1> DEFINE q == question
<1> SUFFICES ASSUME PrecedentQuestion(q)
             PROVE  GatherPrecedents(q) = GatherPrecedents(AsOf(q)) /\ AppearsOnce(GatherPrecedents(q))
  BY DEF PrecedentsArePast, AppearsOnce
<1> HIDE DEF q
<1>1. PICK r : r = AsOf(q)
  OBVIOUS
<1>2. PrecedentQuestion(r) /\ r.mode = q.mode /\ r.known = q.known /\ r.k = q.k
  BY <1>1, AsOfQuestion DEF SameSettings
<1>3. CASE q.mode \in InsightModes
  <2>1. GatherPrecedents(q) = Grouped(ModeHits(q)) /\ GatherPrecedents(r) = Grouped(ModeHits(r))
    BY <1>2, <1>3, HitsOfMode
  <2>2. ModeHits(r) = ModeHits(q)
    BY <1>1, <1>3, AsOfHits
  <2> QED
    BY <1>1, <2>1, <2>2, ShownOnce
<1>4. CASE q.mode = "tickerHistory"
  <2>1. GatherPrecedents(q) = TickerInsights(q) /\ GatherPrecedents(r) = TickerInsights(r)
    BY <1>2, <1>4 DEF GatherPrecedents
  <2> QED
    BY <1>1, <2>1, AsOfTicker, ShownOnce
<1>5. CASE q.mode = "tickerRelevant"
  <2>1. /\ GatherPrecedents(q) = TickerRelevantInsights(q)
        /\ GatherPrecedents(r) = TickerRelevantInsights(r)
    BY <1>2, <1>5 DEF GatherPrecedents
  <2> QED
    BY <1>1, <2>1, AsOfTicker, ShownOnce
<1>6. CASE q.mode = "article"
  <2>1. ArticleSimilarity(r) = ArticleSimilarity(q)
    <3>1. {a \in r.articles : Precedes(r, a)} = {a \in q.articles : Precedes(q, a)}
      BY <1>1, AsOfRows
    <3> QED
      BY <1>2, <3>1, Zenon DEF ArticleSimilarity
  <2>2. GatherPrecedents(r) = GatherPrecedents(q)
    BY <1>2, <1>6, <2>1 DEF GatherPrecedents
  <2> QED
    BY <1>1, <2>2, ShownOnce
<1>7. q.mode \in Modes
  BY DEF PrecedentQuestion
<1> QED
  BY <1>3, <1>4, <1>5, <1>6, <1>7 DEF Modes

-----------------------------------------------------------------------------
(***************************************************************************)
(* The best of the whole corpus                                            *)
(***************************************************************************)

(* The rows A[t] each box t of the target may retrieve from C: all that    *)
(* are near enough to t.                                                   *)
NearEnough(W, C, A) ==
  /\ IsFiniteSet(C) /\ A \in [W -> SUBSET C]
  /\ \A c \in C : \A t \in W : c.sim[t] \in Int
  /\ \A c \in C : \E t \in W : c \in A[t]
  /\ \A c \in C : \A t, u \in W : c \in A[u] /\ c.sim[t] >= c.sim[u] => c \in A[t]

(* Of each A[t] the nearest are kept, as many as the limit. *)
NearestKept(W, A, F, L) ==
  \A t \in W :
    /\ F[t] \in SUBSET A[t]
    /\ Cardinality(F[t]) = (IF L < Cardinality(A[t]) THEN L ELSE Cardinality(A[t]))
    /\ \A x \in F[t], y \in A[t] \ F[t] : x.sim[t] >= y.sim[t]

(* The best of the hits remain, as many as the limit. *)
BestKept(B, S, L) ==
  /\ S \in SUBSET B
  /\ Cardinality(S) = (IF L < Cardinality(B) THEN L ELSE Cardinality(B))
  /\ \A g \in S, h \in B \ S : g.sim >= h.sim

NothingNearer(W, C, hit, S, L, taken) ==
  /\ Cardinality(taken) = Cardinality(S)
  /\ Cardinality(S) = (IF Cardinality(C) < L THEN Cardinality(C) ELSE L)
  /\ \A b \in taken : \A t \in W : b.sim[t] <= hit[b].sim
  /\ \A b \in taken, c \in C \ taken : \A t \in W : c.sim[t] <= hit[b].sim

(* Then nothing in any A[t] is nearer to any box of the target than the    *)
(* rows that remain: a row left out of F[t] is preceded by as many rows as *)
(* the limit, which all remain before a worse row does.                    *)
LEMMA BestOfUnion ==
  ASSUME NEW W, NEW C, NEW A, NEW F, NEW L \in Nat,
         NearEnough(W, C, A), NearestKept(W, A, F, L),
         NEW U, U = UNION {F[t] : t \in W}, NEW B, NEW hit, OneHitEach(W, F, U, B, hit),
         NEW S, BestKept(B, S, L),
         NEW taken, taken = {b \in U : hit[b] \in S}
  PROVE  NothingNearer(W, C, hit, S, L, taken)
<1>a. /\ IsFiniteSet(C) /\ A \in [W -> SUBSET C]
      /\ \A c \in C : \A t \in W : c.sim[t] \in Int
      /\ \A c \in C : \E t \in W : c \in A[t]
  BY DEF NearEnough
<1>b. \A t \in W :
        /\ F[t] \in SUBSET A[t]
        /\ Cardinality(F[t]) = (IF L < Cardinality(A[t]) THEN L ELSE Cardinality(A[t]))
  BY DEF NearestKept
<1>c. /\ hit \in Bijection(U, B)
      /\ \A b \in U : \E t \in W : b \in F[t] /\ hit[b].sim = b.sim[t]
      /\ \A b \in U : \A t \in W : b \in F[t] => b.sim[t] <= hit[b].sim
  BY DEF OneHitEach
<1>d. /\ S \in SUBSET B
      /\ Cardinality(S) = (IF L < Cardinality(B) THEN L ELSE Cardinality(B))
      /\ \A g \in S, h \in B \ S : g.sim >= h.sim
  BY DEF BestKept
<1>1. /\ U \in SUBSET C /\ IsFiniteSet(U) /\ taken \in SUBSET U /\ IsFiniteSet(taken)
      /\ \A t \in W : IsFiniteSet(A[t]) /\ IsFiniteSet(F[t])
  <2>1. U \in SUBSET C /\ taken \in SUBSET U
    BY <1>a, <1>b
  <2> QED
    BY <1>a, <1>b, <2>1, FS_Subset
<1>2. /\ Cardinality(C) \in Nat /\ Cardinality(U) \in Nat /\ Cardinality(taken) \in Nat
      /\ \A t \in W : Cardinality(A[t]) \in Nat /\ Cardinality(F[t]) \in Nat
  <2>1. \A t \in W : Cardinality(A[t]) \in Nat
    BY <1>1, FS_CardinalityType
  <2>2. \A t \in W : Cardinality(F[t]) \in Nat
    BY <1>1, FS_CardinalityType
  <2> QED
    BY <1>1, <1>a, <2>1, <2>2, FS_CardinalityType
<1>3. IsFiniteSet(B) /\ Cardinality(B) = Cardinality(U)
  BY <1>1, <1>c, FS_Bijection DEF ExistsBijection
<1>4. Cardinality(taken) = Cardinality(S)
  <2> DEFINE g == [b \in taken |-> hit[b]]
  <2>1. g \in Bijection(taken, S)
    <3>1. g \in [taken -> S]
      BY <1>c DEF Bijection, Injection
    <3>2. \A b, c \in taken : g[b] = g[c] => b = c
      BY <1>c DEF Bijection, Injection, IsInjective
    <3>3. \A h \in S : \E b \in taken : g[b] = h
      BY <1>c, <1>d DEF Bijection, Surjection
    <3> HIDE DEF g
    <3> QED
      BY <3>1, <3>2, <3>3, Fun_IsBij DEF Surjection
  <2> QED
    BY <1>1, <2>1, FS_Bijection DEF ExistsBijection
<1>5. Cardinality(U) <= Cardinality(C) /\ \A t \in W : Cardinality(F[t]) <= Cardinality(U)
  <2>1. \A t \in W : F[t] \in SUBSET U
    OBVIOUS
  <2>2. Cardinality(U) <= Cardinality(C)
    BY <1>1, <1>a, FS_Subset
  <2>3. \A t \in W : Cardinality(F[t]) <= Cardinality(U)
    BY <1>1, <2>1, FS_Subset
  <2> QED
    BY <2>2, <2>3
<1>6. ASSUME NEW t \in W, Cardinality(F[t]) # L PROVE F[t] = A[t]
  <2>1. Cardinality(F[t]) = Cardinality(A[t])
    BY <1>6, <1>b
  <2> QED
    BY <1>1, <1>b, <2>1, FS_Subset
<1>7. Cardinality(S) = (IF Cardinality(C) < L THEN Cardinality(C) ELSE L)
  <2>1. CASE Cardinality(U) < L
    <3>1. ASSUME NEW t \in W PROVE F[t] = A[t]
      <4>1. /\ Cardinality(F[t]) \in Nat /\ Cardinality(U) \in Nat
            /\ Cardinality(F[t]) <= Cardinality(U)
        BY <1>2, <1>5
      <4>2. Cardinality(F[t]) # L
        BY <2>1, <4>1
      <4> QED
        BY <1>6, <4>2
    <3>2. U = C
      BY <1>1, <1>a, <3>1
    <3>3. Cardinality(U) = Cardinality(C)
      BY <3>2
    <3> QED
      BY <1>2, <1>d, <1>3, <2>1, <3>3
  <2>2. CASE ~(Cardinality(U) < L)
    BY <1>2, <1>d, <1>3, <1>5, <2>2
  <2> QED
    BY <2>1, <2>2
<1>8. \A b \in U : hit[b] \in B /\ hit[b].sim \in Int
  BY <1>1, <1>a, <1>b, <1>c DEF Bijection, Injection
<1>9. ASSUME NEW b \in taken, NEW t \in W, NEW c \in A[t], c.sim[t] > hit[b].sim
      PROVE  c \in F[t]
  <2> SUFFICES ASSUME c \notin F[t] PROVE FALSE
    OBVIOUS
  <2>1. Cardinality(F[t]) = L
    BY <1>6, <1>9
  <2>2. ASSUME NEW x \in F[t] PROVE hit[x].sim > hit[b].sim /\ x \in taken
    <3>1. x \in U /\ x \in C /\ c \in C
      BY <1>1, <1>a, <1>b
    <3>2. hit[x].sim >= x.sim[t] /\ x.sim[t] >= c.sim[t]
      BY <1>9, <1>c, <3>1 DEF NearestKept
    <3>3. hit[x].sim > hit[b].sim
      BY <1>1, <1>a, <1>8, <1>9, <3>1, <3>2
    <3>4. hit[x] \in S
      BY <1>1, <1>d, <1>8, <3>1, <3>3
    <3> QED
      BY <3>1, <3>3, <3>4
  <2>3. F[t] \cup {b} \in SUBSET taken /\ b \notin F[t]
    <3>1. hit[b].sim \in Int
      BY <1>1, <1>8, <1>9
    <3> QED
      BY <1>9, <2>2, <3>1
  <2>4. Cardinality(F[t] \cup {b}) = L + 1
    BY <1>1, <2>1, <2>3, FS_AddElement
  <2>5. Cardinality(F[t] \cup {b}) <= Cardinality(taken)
    BY <1>1, <2>3, FS_Subset
  <2>6. Cardinality(taken) <= L
    BY <1>2, <1>d, <1>3, <1>4
  <2> QED
    BY <1>2, <2>4, <2>5, <2>6
<1>10. ASSUME NEW c \in C, NEW t \in W, NEW b \in taken, c.sim[t] > hit[b].sim
       PROVE  \E u \in W : c \in F[u] /\ c.sim[u] > hit[b].sim /\ c \in taken
  <2>1. PICK v \in W : c \in A[v]
    BY <1>a
  <2>2. \E u \in W : c \in A[u] /\ c.sim[u] > hit[b].sim
    <3>1. CASE c.sim[t] >= c.sim[v]
      BY <1>10, <2>1, <3>1 DEF NearEnough
    <3>2. CASE ~(c.sim[t] >= c.sim[v])
      <4>1. c.sim[v] \in Int /\ c.sim[t] \in Int /\ hit[b].sim \in Int
        BY <1>1, <1>a, <1>8
      <4> QED
        BY <1>10, <2>1, <3>2, <4>1
    <3> QED
      BY <3>1, <3>2
  <2>3. PICK u \in W : c \in A[u] /\ c.sim[u] > hit[b].sim
    BY <2>2
  <2>4. c \in F[u]
    BY <1>9, <2>3
  <2>5. c \in U /\ hit[c].sim >= c.sim[u]
    BY <2>4, <1>c
  <2>6. hit[c].sim > hit[b].sim
    BY <1>1, <1>a, <1>8, <2>3, <2>5
  <2>7. hit[c] \in S
    BY <1>1, <1>d, <1>8, <2>5, <2>6
  <2> QED
    BY <2>3, <2>4, <2>5, <2>7
<1>11. ASSUME NEW b \in taken, NEW t \in W PROVE b.sim[t] <= hit[b].sim
  <2>1. b.sim[t] \in Int /\ hit[b].sim \in Int /\ b \in C
    BY <1>1, <1>a, <1>8
  <2>2. b.sim[t] > hit[b].sim => \E u \in W : b \in F[u] /\ b.sim[u] > hit[b].sim
    BY <1>10, <2>1
  <2>3. \A u \in W : b \in F[u] => b.sim[u] <= hit[b].sim /\ b.sim[u] \in Int
    BY <1>1, <1>a, <1>c, <2>1
  <2> QED
    BY <2>1, <2>2, <2>3
<1>12. ASSUME NEW b \in taken, NEW c \in C \ taken, NEW t \in W PROVE c.sim[t] <= hit[b].sim
  <2>1. c.sim[t] \in Int /\ hit[b].sim \in Int
    BY <1>1, <1>a, <1>8
  <2> QED
    BY <1>10, <2>1
<1> QED
  BY <1>4, <1>7, <1>11, <1>12 DEF NothingNearer

LEMMA MaxSimIsGreatest ==
  ASSUME NEW q, PrecedentQuestion(q), NEW b \in q.boxes, q.targetBoxes # {}
  PROVE  /\ MaxSim(q, b) \in Int
         /\ \E t \in q.targetBoxes : MaxSim(q, b) = b.sim[t]
         /\ \A t \in q.targetBoxes : b.sim[t] <= MaxSim(q, b)
<1> DEFINE W == q.targetBoxes
           V == {b.sim[t] : t \in W}
           sim == [t \in W |-> b.sim[t]]
<1>1. IsFiniteSet(W) /\ \A t \in W : b.sim[t] \in Int
  BY DEF PrecedentQuestion
<1>2. V \in SUBSET Int /\ V # {}
  BY <1>1
<1>3. IsFiniteSet(V)
  <2>1. sim \in Surjection(W, V)
    BY DEF Surjection
  <2> QED
    BY <1>1, <2>1, FS_Surjection
<1>4. \E s \in V : \A r \in V : r <= s
  BY <1>2, <1>3, GreatestExists
<1>5. \E s \in V : \A t \in W : b.sim[t] <= s
  BY <1>4
<1>6. MaxSim(q, b) = CHOOSE s \in V : \A t \in W : b.sim[t] <= s
  BY Zenon DEF MaxSim
<1> QED
  BY <1>1, <1>5, <1>6

(* The rows the target's boxes may retrieve are the candidates.            *)
LEMMA CandidateRows ==
  ASSUME NEW q, PrecedentQuestion(q), q.mode \in InsightModes, "published" \in q.known,
         NEW A, A = [t \in q.targetBoxes |->
           Admissible(q, ModeSource(q), BoxThreshold(q, ModeSource(q)), Within(q), t)]
  PROVE  /\ Candidates(q) \in SUBSET q.boxes
         /\ NearEnough(q.targetBoxes, Candidates(q), A)
<1> DEFINE src == ModeSource(q)
           floor == BoxThreshold(q, src)
           Fit(b) == /\ b.article \in Within(q) /\ Precedes(q, ArticleOf(q, b))
                     /\ ~(src.drop /\ b.label = "DROP")
           C == Candidates(q)
<1>1. floor \in Int
  BY DEF PrecedentQuestion, BoxThreshold
<1>2. \A t \in q.targetBoxes : A[t] = {b \in q.boxes : Fit(b) /\ b.sim[t] > floor}
  BY DEF Admissible
<1>3. ASSUME NEW b \in q.boxes
      PROVE  Fit(b) <=>
               /\ \E a \in q.articles :
                    /\ a.id = b.article /\ Precedes(q, a)
                    /\ src.hybrid => "vector" \in q.known /\ a.near > q.hybridArticleThreshold
               /\ src.drop => b.label # "DROP"
  <2>1. PICK d : d = ArticleOf(q, b)
    OBVIOUS
  <2>2. d \in q.articles /\ d.id = b.article /\ \A a \in q.articles : a.id = b.article => a = d
    BY <2>1, ArticleOfBox
  <2>3. \A a \in q.articles : a.id = d.id => a = d
    BY <2>2
  <2>4. b.article \in Within(q) /\ Precedes(q, d) <=>
          /\ Precedes(q, d)
          /\ src.hybrid => "vector" \in q.known /\ d.near > q.hybridArticleThreshold
    <3>1. CASE src.hybrid
      <4>1. Within(q) = ArticleNeighbors(q, q.hybridArticleThreshold)
        BY <3>1 DEF Within
      <4> QED
        BY <2>2, <3>1, <4>1 DEF ArticleNeighbors
    <3>2. CASE ~src.hybrid
      <4>1. Within(q) = Everywhere(q)
        BY <3>2 DEF Within
      <4> QED
        BY <2>2, <3>2, <4>1 DEF Everywhere
    <3> QED
      BY <3>1, <3>2
  <2> HIDE DEF src
  <2> QED
    BY <2>1, <2>2, <2>4
<1>4. C = {b \in q.boxes : Fit(b) /\ \E t \in q.targetBoxes : b.sim[t] > floor}
  <2>1. C = {b \in q.boxes :
               /\ "published" \in q.known
               /\ \E a \in q.articles :
                    /\ a.id = b.article /\ Precedes(q, a)
                    /\ src.hybrid => "vector" \in q.known /\ a.near > q.hybridArticleThreshold
               /\ \E t \in q.targetBoxes : b.sim[t] > floor
               /\ src.drop => b.label # "DROP"}
    BY Zenon DEF Candidates, ModeSource
  <2> HIDE DEF src, floor, Fit, C
  <2> QED
    BY <1>3, <2>1
<1>5. \A b \in q.boxes : \A t \in q.targetBoxes : b.sim[t] \in Int
  BY DEF PrecedentQuestion
<1> HIDE DEF src, floor, Fit, C
<1>6. C \in SUBSET q.boxes /\ \A c \in C : \E t \in q.targetBoxes : c \in A[t]
  BY <1>2, <1>4
<1>7. A \in [q.targetBoxes -> SUBSET C]
  BY <1>2, <1>4
<1>8. ASSUME NEW c \in C, NEW t \in q.targetBoxes, NEW u \in q.targetBoxes,
             c \in A[u], c.sim[t] >= c.sim[u]
      PROVE  c \in A[t]
  <2>1. c \in q.boxes /\ Fit(c) /\ c.sim[u] > floor
    BY <1>2, <1>8
  <2>2. c.sim[t] \in Int /\ c.sim[u] \in Int
    BY <1>5, <2>1
  <2>3. c.sim[t] > floor
    BY <1>1, <1>8, <2>1, <2>2
  <2> QED
    BY <1>2, <2>1, <2>3
<1>9. IsFiniteSet(C)
  BY <1>6, FS_Subset DEF PrecedentQuestion, Identified
<1>10. NearEnough(q.targetBoxes, C, A)
  BY <1>5, <1>6, <1>7, <1>8, <1>9 DEF NearEnough
<1> QED
  BY <1>6, <1>10 DEF C

(* A hit carries the identity of its row and the row's greatest similarity. *)
HitOf(q, h, b) ==
  h.id = b.id /\ h.article = b.article /\ h.text = b.text /\ h.sim = MaxSim(q, b)

TheBest(q, hits, C, taken) ==
  /\ Len(hits) = Cardinality(taken)
  /\ Len(hits) = (IF Cardinality(C) < q.limit THEN Cardinality(C) ELSE q.limit)
  /\ \A b \in taken, c \in C \ taken : MaxSim(q, c) <= MaxSim(q, b)
  /\ \A i \in DOMAIN hits : \E b \in taken : HitOf(q, hits[i], b)
  /\ \A b \in taken : \E i \in DOMAIN hits : HitOf(q, hits[i], b)
  /\ \A i, j \in DOMAIN hits : i < j => hits[i].sim >= hits[j].sim
  /\ \A b \in C : MaxSim(q, b) \in Int

LEMMA HitsAreTheBest ==
  ASSUME NEW q, PrecedentQuestion(q), q.mode \in InsightModes,
         NEW hits, hits = ModeHits(q), NEW C, C = Candidates(q),
         NEW taken, taken = {b \in C : \E i \in DOMAIN hits : hits[i].id = b.id}
  PROVE  TheBest(q, hits, C, taken)
<1>1. CASE "published" \in q.known
  <2> DEFINE W == q.targetBoxes
             L == q.limit
  <2>1. L \in Nat
    BY DEF PrecedentQuestion
  <2>2. PICK A : A = [t \in W |->
          Admissible(q, ModeSource(q), BoxThreshold(q, ModeSource(q)), Within(q), t)]
    OBVIOUS
  <2>3. C \in SUBSET q.boxes /\ NearEnough(W, C, A)
    BY <1>1, <2>2, CandidateRows
  <2>4. PICK F : F = FoundFor(q)
    OBVIOUS
  <2>5. F \in [W -> SUBSET q.boxes] /\ hits = FirstN(BestFirst(BestHits(F)), L)
    BY <1>1, <2>4, HitsOfMode
  <2>6. NearestKept(W, A, F, L)
    <3> SUFFICES ASSUME NEW t \in W
          PROVE  /\ F[t] \in SUBSET A[t]
                 /\ Cardinality(F[t]) = (IF L < Cardinality(A[t]) THEN L ELSE Cardinality(A[t]))
                 /\ \A x \in F[t], y \in A[t] \ F[t] : x.sim[t] >= y.sim[t]
      BY DEF NearestKept
    <3>1. A[t] = Admissible(q, ModeSource(q), BoxThreshold(q, ModeSource(q)), Within(q), t)
      BY <2>2
    <3>2. F[t] = ToSet(FirstN(NearestTo(t, A[t]), L))
      BY <2>4, <3>1 DEF FoundFor
    <3>3. PICK At, Ft : At = A[t] /\ Ft = F[t]
      OBVIOUS
    <3> QED
      BY <2>1, <3>1, <3>2, <3>3, FoundByBox
  <2>8. PICK U : U = UNION {F[t] : t \in W}
    OBVIOUS
  <2>9. PICK B : B = BestHits(F)
    OBVIOUS
  <2>10. PICK hit : OneHitEach(W, F, U, B, hit)
    BY <2>5, <2>8, <2>9, UnionOfFound
  <2>11. /\ hit \in Bijection(U, B)
         /\ \A b \in U :
              /\ hit[b].id = b.id /\ hit[b].article = b.article /\ hit[b].text = b.text
              /\ \E t \in W : b \in F[t] /\ hit[b].sim = b.sim[t]
    BY <2>10 DEF OneHitEach
  <2>12. PICK S : S = ToSet(hits)
    OBVIOUS
  <2>13. /\ S \in SUBSET B /\ Cardinality(S) = Len(hits)
         /\ Len(hits) = (IF L < Cardinality(B) THEN L ELSE Cardinality(B))
         /\ \A g \in S, h \in B \ S : g.sim >= h.sim
         /\ \A i, j \in DOMAIN hits : i < j => hits[i].sim >= hits[j].sim
    BY <2>1, <2>5, <2>9, <2>12, InsightHits
  <2>14. IsFiniteSet(C) /\ \A c \in C : \A t \in W : c.sim[t] \in Int
    BY <2>3 DEF NearEnough
  <2>15. U \in SUBSET C
    <3>1. \A t \in W : A[t] \in SUBSET C
      BY <2>3 DEF NearEnough
    <3>2. \A t \in W : F[t] \in SUBSET A[t]
      BY <2>6 DEF NearestKept
    <3>3. \A t \in W : F[t] \in SUBSET C
      BY <3>1, <3>2
    <3> HIDE DEF W
    <3> QED
      BY <2>8, <3>3
  <2>16. hit \in [U -> B] /\ \A h \in B : \E b \in U : hit[b] = h
    BY <2>11 DEF Bijection, Injection, Surjection
  <2>17. \A b, c \in C : b.id = c.id => b = c
    BY <2>3 DEF PrecedentQuestion, Identified
  <2>18. \A h : h \in S <=> \E i \in DOMAIN hits : hits[i] = h
    BY <2>12 DEF ToSet
  <2>19. taken = {b \in U : hit[b] \in S}
    <3>1. ASSUME NEW b \in taken PROVE b \in U /\ hit[b] \in S
      <4>1. PICK i \in DOMAIN hits : hits[i].id = b.id
        OBVIOUS
      <4>2. PICK u \in U : hit[u] = hits[i]
        BY <2>13, <2>16, <2>18
      <4>3. u = b
        BY <2>11, <2>15, <2>17, <4>1, <4>2
      <4> QED
        BY <2>18, <4>2, <4>3
    <3>2. ASSUME NEW b \in U, hit[b] \in S PROVE b \in taken
      <4>1. PICK i \in DOMAIN hits : hits[i] = hit[b]
        BY <2>18, <3>2
      <4> QED
        BY <2>11, <2>15, <4>1
    <3>3. taken \in SUBSET U
      BY <3>1
    <3> QED
      BY <3>1, <3>2, <3>3
  <2>20. /\ Cardinality(taken) = Cardinality(S)
         /\ Cardinality(S) = (IF Cardinality(C) < L THEN Cardinality(C) ELSE L)
         /\ \A b \in taken : \A t \in W : b.sim[t] <= hit[b].sim
         /\ \A b \in taken, c \in C \ taken : \A t \in W : c.sim[t] <= hit[b].sim
    <3>1. BestKept(B, S, L)
      BY <2>13 DEF BestKept
    <3>2. NearEnough(W, C, A) /\ L \in Nat
      BY <2>1, <2>3
    <3> HIDE DEF W, L
    <3>3. NothingNearer(W, C, hit, S, L, taken)
      BY <2>6, <2>8, <2>10, <2>19, <3>1, <3>2, BestOfUnion
    <3> QED
      BY <3>3 DEF NothingNearer
  <2>21. \A b \in C : /\ MaxSim(q, b) \in Int
                      /\ \E t \in W : MaxSim(q, b) = b.sim[t]
                      /\ \A t \in W : b.sim[t] <= MaxSim(q, b)
    <3> TAKE b \in C
    <3>1. W # {} /\ b \in q.boxes
      BY <2>3 DEF NearEnough
    <3> QED
      BY <3>1, MaxSimIsGreatest
  <2>22. ASSUME NEW b \in taken PROVE b \in U /\ hit[b] \in S /\ HitOf(q, hit[b], b)
    <3>1. b \in U /\ hit[b] \in S /\ b \in C
      BY <2>15, <2>19
    <3>2. PICK t \in W : b \in F[t] /\ hit[b].sim = b.sim[t]
      BY <2>11, <3>1
    <3>3. PICK u \in W : MaxSim(q, b) = b.sim[u]
      BY <2>21, <3>1
    <3>4. hit[b].sim <= MaxSim(q, b) /\ MaxSim(q, b) <= hit[b].sim
      BY <2>20, <2>21, <3>1, <3>2, <3>3
    <3>5. hit[b].sim = MaxSim(q, b)
      BY <2>14, <2>21, <3>1, <3>2, <3>4
    <3> QED
      BY <2>11, <3>1, <3>5 DEF HitOf
  <2>23. \A b \in taken, c \in C \ taken : MaxSim(q, c) <= MaxSim(q, b)
    BY <2>20, <2>21, <2>22 DEF HitOf
  <2>24. \A b \in taken : \E i \in DOMAIN hits : HitOf(q, hits[i], b)
    BY <2>18, <2>22
  <2>25. ASSUME NEW i \in DOMAIN hits PROVE \E b \in taken : HitOf(q, hits[i], b)
    <3>1. hits[i] \in S
      BY <2>18
    <3>2. PICK b \in U : hit[b] = hits[i]
      BY <2>13, <2>16, <3>1
    <3>3. b \in taken
      BY <2>19, <3>1, <3>2
    <3> QED
      BY <2>22, <3>2, <3>3
  <2> QED
    BY <2>13, <2>20, <2>21, <2>23, <2>24, <2>25 DEF TheBest
<1>2. CASE "published" \notin q.known
  <2>1. C = {} /\ taken = {}
    BY <1>2 DEF Candidates
  <2>2. hits = <<>>
    BY <1>2, HitsOfMode
  <2>3. Cardinality({}) = 0 /\ Len(hits) = 0 /\ DOMAIN hits = {} /\ q.limit \in Nat
    BY <2>2, FS_EmptySet DEF PrecedentQuestion
  <2> QED
    BY <2>1, <2>3 DEF TheBest
<1> QED
  BY <1>1, <1>2

(* For any corpus, thresholds and limit: although every box of the target  *)
(* asks for its own nearest rows and the union is cut off again, the       *)
(* analyst is shown the limit of candidates, none left out is nearer than  *)
(* one shown, articles come in the order of their best box, and an excerpt *)
(* is shown for exactly the boxes taken that have a text.                  *)
THEOREM InsightModesShowTheBest == PrecedentQuestion(question) => PrecedentsAreTheBest
<1> DEFINE q == question
           shown == GatherPrecedents(q)
           hits == RankedPrecedentHits(q, INSIGHT_SOURCES[q.mode],
                     BoxThreshold(q, INSIGHT_SOURCES[q.mode]), q.limit, q.hybridArticleThreshold)
           taken == {b \in Candidates(q) : \E i \in DOMAIN hits : hits[i].id = b.id}
           Best(a) == {b \in taken : b.article = a /\ \A c \in taken :
                         c.article = a => MaxSim(q, c) <= MaxSim(q, b)}
<1> SUFFICES ASSUME PrecedentQuestion(q), q.mode \in InsightModes
    PROVE  /\ Len(hits) = Cardinality(taken)
           /\ Len(hits) = IF Cardinality(Candidates(q)) < q.limit THEN Cardinality(Candidates(q))
                                                                  ELSE q.limit
           /\ \A b \in taken, c \in Candidates(q) \ taken : MaxSim(q, c) <= MaxSim(q, b)
           /\ {shown[i].article : i \in DOMAIN shown} = {b.article : b \in taken}
           /\ \A i, j \in DOMAIN shown : i < j =>
                \A x \in Best(shown[i].article), y \in Best(shown[j].article) :
                  MaxSim(q, x) >= MaxSim(q, y)
           /\ \A b \in taken : b.text <=>
                \E i \in DOMAIN shown : Contains(shown[i].excerpts, b.id)
  BY Zenon DEF PrecedentsAreTheBest
<1>1. hits = ModeHits(q) /\ shown = Grouped(hits)
  BY HitsOfMode, Zenon DEF ModeSource
<1>2. \E B : hits \in Seq(B)
  BY <1>1, HitsAreRows
<1>3. taken = {b \in Candidates(q) : \E i \in DOMAIN hits : hits[i].id = b.id}
  OBVIOUS
<1>4. /\ \A a : \A b \in Best(a) : b \in taken /\ b.article = a
      /\ \A a : \A b \in Best(a) : \A c \in taken : c.article = a => MaxSim(q, c) <= MaxSim(q, b)
  OBVIOUS
<1> HIDE DEF q, shown, hits, taken, Best
<1>5. /\ Len(hits) = Cardinality(taken)
      /\ Len(hits) = (IF Cardinality(Candidates(q)) < q.limit THEN Cardinality(Candidates(q))
                                                              ELSE q.limit)
      /\ \A b \in taken, c \in Candidates(q) \ taken : MaxSim(q, c) <= MaxSim(q, b)
      /\ \A i \in DOMAIN hits : \E b \in taken : HitOf(q, hits[i], b)
      /\ \A b \in taken : \E i \in DOMAIN hits : HitOf(q, hits[i], b)
      /\ \A i, j \in DOMAIN hits : i < j => hits[i].sim >= hits[j].sim
      /\ \A b \in Candidates(q) : MaxSim(q, b) \in Int
  <2>1. PICK C : C = Candidates(q)
    OBVIOUS
  <2>2. TheBest(q, hits, C, taken)
    BY <1>1, <1>3, <2>1, HitsAreTheBest
  <2> QED
    BY <2>1, <2>2 DEF TheBest
<1>6. /\ DOMAIN hits = 1..Len(hits)
      /\ {shown[i].article : i \in DOMAIN shown} = {hits[i].article : i \in DOMAIN hits}
      /\ \A i, j \in DOMAIN shown : i < j =>
           \E m \in DOMAIN hits : /\ hits[m].article = shown[i].article
                                  /\ \A n \in 1..m : hits[n].article # shown[j].article
      /\ \A x : (\E i \in DOMAIN shown : Contains(shown[i].excerpts, x)) <=>
                  \E m \in DOMAIN hits : hits[m].text /\ hits[m].id = x
  <2>1. GroupedByArticle(hits, shown)
    BY <1>1, <1>2, GroupedRows
  <2> QED
    BY <2>1 DEF GroupedByArticle
<1>7. {shown[i].article : i \in DOMAIN shown} = {b.article : b \in taken}
  <2>1. \A i \in DOMAIN hits : \E b \in taken : hits[i].article = b.article
    BY <1>5 DEF HitOf
  <2>2. \A b \in taken : \E i \in DOMAIN hits : hits[i].article = b.article
    BY <1>5 DEF HitOf
  <2>3. {shown[i].article : i \in DOMAIN shown} = {hits[i].article : i \in DOMAIN hits}
    BY <1>6
  <2>4. {hits[i].article : i \in DOMAIN hits} = {b.article : b \in taken}
    BY <2>1, <2>2
  <2> QED
    BY <2>3, <2>4, Zenon
<1>8. ASSUME NEW i \in DOMAIN shown, NEW j \in DOMAIN shown, i < j,
             NEW x \in Best(shown[i].article), NEW y \in Best(shown[j].article)
      PROVE  MaxSim(q, x) >= MaxSim(q, y)
  <2>1. PICK m \in DOMAIN hits : /\ hits[m].article = shown[i].article
                                 /\ \A n \in 1..m : hits[n].article # shown[j].article
    BY <1>6, <1>8
  <2>2. PICK u \in taken : HitOf(q, hits[m], u)
    BY <1>5
  <2>3. x \in taken /\ y \in taken /\ y.article = shown[j].article
    BY <1>4
  <2>4. PICK n \in DOMAIN hits : HitOf(q, hits[n], y)
    BY <1>5, <2>3
  <2>5. m < n
    BY <1>6, <2>1, <2>3, <2>4 DEF HitOf
  <2>6. MaxSim(q, u) >= MaxSim(q, y)
    BY <1>5, <2>2, <2>4, <2>5 DEF HitOf
  <2>7. MaxSim(q, u) <= MaxSim(q, x)
    BY <1>4, <2>1, <2>2 DEF HitOf
  <2>8. MaxSim(q, u) \in Int /\ MaxSim(q, x) \in Int /\ MaxSim(q, y) \in Int
    BY <1>3, <1>5, <2>2, <2>3
  <2> QED
    BY <2>6, <2>7, <2>8
<1>9. ASSUME NEW b \in taken
      PROVE  b.text <=> \E i \in DOMAIN shown : Contains(shown[i].excerpts, b.id)
  <2>1. (\E i \in DOMAIN shown : Contains(shown[i].excerpts, b.id)) <=>
          \E m \in DOMAIN hits : hits[m].text /\ hits[m].id = b.id
    BY <1>6
  <2>2. PICK n \in DOMAIN hits : HitOf(q, hits[n], b)
    BY <1>5
  <2>3. ASSUME NEW m \in DOMAIN hits, hits[m].id = b.id PROVE hits[m].text = b.text
    <3>1. PICK c \in taken : HitOf(q, hits[m], c)
      BY <1>5
    <3>2. c \in q.boxes /\ b \in q.boxes
      BY <1>3 DEF Candidates
    <3>3. c = b
      BY <2>3, <3>1, <3>2 DEF HitOf, PrecedentQuestion, Identified
    <3> QED
      BY <3>1, <3>3 DEF HitOf
  <2>4. b.text \in BOOLEAN /\ hits[n].text = b.text /\ hits[n].id = b.id
    BY <1>3, <2>2 DEF HitOf, PrecedentQuestion, Candidates
  <2> QED
    BY <2>1, <2>3, <2>4
<1> QED
  BY <1>5, <1>7, <1>8, <1>9

-----------------------------------------------------------------------------
(***************************************************************************)
(* What the evaluation and production have in common                       *)
(***************************************************************************)

LEMMA OfEveryLabelQuestion ==
  ASSUME NEW q, PrecedentQuestion(q), NEW r, r = OfEveryLabel(q)
  PROVE  /\ PrecedentQuestion(r) /\ r.mode = q.mode /\ r.limit = q.limit
         /\ r.hybridArticleThreshold = q.hybridArticleThreshold
         /\ r.articles = q.articles /\ r.boxes = q.boxes
         /\ ModeSource(r) = ModeSource(q)
         /\ \A src : BoxThreshold(r, src) = BoxThreshold(q, src)
         /\ \A b : MaxSim(r, b) = MaxSim(q, b)
         /\ Candidates(q) \in SUBSET Candidates(r)
<1>1. PrecedentOptions \subseteq DOMAIN q
  BY DEF PrecedentQuestion
<1>2. /\ DOMAIN r = DOMAIN q /\ ~r.realNewsOnly
      /\ \A f \in PrecedentOptions \ {"realNewsOnly"} : r[f] = q[f]
  BY <1>1 DEF OfEveryLabel, PrecedentOptions
<1>3. /\ r.mode = q.mode /\ r.at = q.at /\ r.lookback = q.lookback
      /\ r.known = q.known /\ r.targetBoxes = q.targetBoxes
      /\ r.k = q.k /\ r.limit = q.limit /\ r.historyLimit = q.historyLimit
      /\ r.threshold = q.threshold /\ r.hybridBoxThreshold = q.hybridBoxThreshold
      /\ r.hybridArticleThreshold = q.hybridArticleThreshold
      /\ r.articles = q.articles /\ r.boxes = q.boxes
  BY <1>2 DEF PrecedentOptions
<1>4. PrecedentQuestion(r)
  BY <1>1, <1>2, <1>3 DEF PrecedentQuestion
<1>5. ModeSource(r) = ModeSource(q) /\ \A src : BoxThreshold(r, src) = BoxThreshold(q, src)
  BY <1>3 DEF ModeSource, BoxThreshold
<1>6. \A b : MaxSim(r, b) = MaxSim(q, b)
  BY <1>3 DEF MaxSim
<1>7. \A a : Precedes(q, a) => Precedes(r, a)
  BY <1>2, <1>3 DEF Precedes
<1>8. Candidates(q) \in SUBSET Candidates(r)
  <2>1. ASSUME NEW b \in Candidates(q) PROVE b \in Candidates(r)
    <3> DEFINE src == ModeSource(q)
    <3>1. /\ b \in q.boxes /\ "published" \in q.known
          /\ \E a \in q.articles :
               /\ a.id = b.article /\ Precedes(q, a)
               /\ src.hybrid => "vector" \in q.known /\ a.near > q.hybridArticleThreshold
          /\ \E t \in q.targetBoxes : b.sim[t] > BoxThreshold(q, src)
          /\ src.drop => b.label # "DROP"
      BY DEF Candidates, ModeSource
    <3>2. /\ b \in r.boxes /\ "published" \in r.known
          /\ \E a \in r.articles :
               /\ a.id = b.article /\ Precedes(r, a)
               /\ ModeSource(r).hybrid => "vector" \in r.known /\ a.near > r.hybridArticleThreshold
          /\ \E t \in r.targetBoxes : b.sim[t] > BoxThreshold(r, ModeSource(r))
          /\ ModeSource(r).drop => b.label # "DROP"
      <4> HIDE DEF src
      <4>1. ModeSource(r) = src /\ BoxThreshold(r, src) = BoxThreshold(q, src)
        BY <1>5 DEF src
      <4> QED
        BY <1>3, <1>7, <3>1, <4>1
    <3> QED
      BY <3>2 DEF Candidates, ModeSource
  <2> QED
    BY <2>1
<1> QED
  BY <1>3, <1>4, <1>5, <1>6, <1>8

(* The articles shown are those of the boxes taken, and so are the         *)
(* articles the evaluation counts.                                         *)
Taken(q) == {b \in Candidates(q) : \E i \in DOMAIN ModeHits(q) : ModeHits(q)[i].id = b.id}

LEMMA ArticlesTaken ==
  ASSUME NEW q, PrecedentQuestion(q), q.mode \in InsightModes
  PROVE  /\ {ModeHits(q)[i].article : i \in DOMAIN ModeHits(q)} = {b.article : b \in Taken(q)}
         /\ {GatherPrecedents(q)[i].article : i \in DOMAIN GatherPrecedents(q)} =
              {b.article : b \in Taken(q)}
         /\ IsFiniteSet(Taken(q)) /\ Taken(q) \in SUBSET Candidates(q)
         /\ IsFiniteSet(Candidates(q))
         /\ \A b \in Candidates(q) : MaxSim(q, b) \in Int
         /\ Cardinality(Taken(q)) = (IF Cardinality(Candidates(q)) < q.limit
                                     THEN Cardinality(Candidates(q)) ELSE q.limit)
         /\ \A b \in Taken(q), c \in Candidates(q) \ Taken(q) : MaxSim(q, c) <= MaxSim(q, b)
<1>1. PICK hits : hits = ModeHits(q)
  OBVIOUS
<1>2. PICK C : C = Candidates(q)
  OBVIOUS
<1>3. PICK taken : taken = Taken(q)
  OBVIOUS
<1>4. taken = {b \in C : \E i \in DOMAIN hits : hits[i].id = b.id}
  BY <1>1, <1>2, <1>3 DEF Taken
<1>5. TheBest(q, hits, C, taken)
  BY <1>1, <1>2, <1>4, HitsAreTheBest
<1>6. {hits[i].article : i \in DOMAIN hits} = {b.article : b \in taken}
  <2>1. \A i \in DOMAIN hits : \E b \in taken : hits[i].article = b.article
    BY <1>5 DEF TheBest, HitOf
  <2>2. \A b \in taken : \E i \in DOMAIN hits : hits[i].article = b.article
    BY <1>5 DEF TheBest, HitOf
  <2> QED
    BY <2>1, <2>2
<1>7. PICK G : G = GatherPrecedents(q)
  OBVIOUS
<1>8. {G[i].article : i \in DOMAIN G} = {hits[i].article : i \in DOMAIN hits}
  <2>1. PICK B : hits \in Seq(B)
    BY <1>1, HitsAreRows
  <2>2. G = Grouped(hits)
    BY <1>1, <1>7, HitsOfMode
  <2>3. GroupedByArticle(hits, G)
    BY <2>1, <2>2, GroupedRows
  <2> QED
    BY <2>3, Zenon DEF GroupedByArticle
<1>9. C \in SUBSET q.boxes /\ IsFiniteSet(q.boxes)
  BY <1>2 DEF Candidates, PrecedentQuestion, Identified
<1>10. IsFiniteSet(C) /\ IsFiniteSet(taken) /\ taken \in SUBSET C
  BY <1>4, <1>9, FS_Subset
<1>11. /\ \A b \in C : MaxSim(q, b) \in Int
       /\ Cardinality(taken) = (IF Cardinality(C) < q.limit THEN Cardinality(C) ELSE q.limit)
       /\ \A b \in taken, c \in C \ taken : MaxSim(q, c) <= MaxSim(q, b)
  BY <1>5 DEF TheBest
<1> QED
  BY <1>1, <1>2, <1>3, <1>6, <1>7, <1>8, <1>10, <1>11

(* For any boxes, thresholds and limits: with realNewsOnly off the cluster *)
(* evaluation retrieves exactly the articles production shows; with it on, *)
(* and no two boxes equally near, every actionable article the evaluation  *)
(* retrieves is shown - at most as many rows are nearer to the target      *)
(* among the actionable ones as among all.                                 *)
THEOREM RetrievalIsEvaluatedAsProduced == PrecedentQuestion(question) => EvaluatedAsProduced
<1> DEFINE q == question
           Shown(x) == {GatherPrecedents(x)[i].article : i \in DOMAIN GatherPrecedents(x)}
<1> SUFFICES ASSUME PrecedentQuestion(q), q.mode \in InsightModes
    PROVE  /\ RetrievedArticleIds(q) = Shown(OfEveryLabel(q))
           /\ (\A b, c \in Candidates(OfEveryLabel(q)) : MaxSim(q, b) = MaxSim(q, c) => b = c) =>
                \A a \in q.articles :
                  IsActionable(a) /\ a.id \in RetrievedArticleIds(q) => a.id \in Shown(q)
  BY Zenon DEF EvaluatedAsProduced
<1> HIDE DEF q
<1>1. PICK r : r = OfEveryLabel(q)
  OBVIOUS
<1>2. /\ PrecedentQuestion(r) /\ r.mode = q.mode /\ r.limit = q.limit
      /\ r.hybridArticleThreshold = q.hybridArticleThreshold
      /\ r.articles = q.articles /\ r.boxes = q.boxes
      /\ ModeSource(r) = ModeSource(q)
      /\ \A src : BoxThreshold(r, src) = BoxThreshold(q, src)
      /\ \A b : MaxSim(r, b) = MaxSim(q, b)
      /\ Candidates(q) \in SUBSET Candidates(r)
  BY <1>1, OfEveryLabelQuestion
<1>3. RetrievedArticleIds(q) = {ModeHits(r)[i].article : i \in DOMAIN ModeHits(r)}
  <2>1. PICK hits : hits = RankedPrecedentHits(r, ModeSource(q), BoxThreshold(q, ModeSource(q)), q.limit,
                                               q.hybridArticleThreshold)
    OBVIOUS
  <2>2. RetrievedArticleIds(q) = {hits[i].article : i \in DOMAIN hits}
    BY <1>1, <2>1, Zenon DEF RetrievedArticleIds, ModeSource
  <2>3. hits = RankedPrecedentHits(r, ModeSource(r), BoxThreshold(r, ModeSource(r)), r.limit,
                                   r.hybridArticleThreshold)
    BY <1>2, <2>1
  <2>4. hits = ModeHits(r)
    BY <1>2, <2>3, HitsOfMode
  <2> QED
    BY <2>2, <2>4
<1>4. RetrievedArticleIds(q) = {b.article : b \in Taken(r)} /\ Shown(r) = {b.article : b \in Taken(r)}
  BY <1>2, <1>3, ArticlesTaken
<1>5. Shown(q) = {b.article : b \in Taken(q)}
  BY ArticlesTaken
<1>6. ASSUME \A b, c \in Candidates(r) : MaxSim(q, b) = MaxSim(q, c) => b = c,
             NEW a \in q.articles, IsActionable(a), a.id \in RetrievedArticleIds(q)
      PROVE  a.id \in Shown(q)
  <2>1. PICK b \in Taken(r) : b.article = a.id
    BY <1>4, <1>6
  <2>2. b \in Candidates(r)
    BY <1>2, <2>1, ArticlesTaken
  <2>3. b \in Candidates(q)
    <3> DEFINE src == ModeSource(q)
    <3>1. /\ b \in r.boxes /\ "published" \in r.known
          /\ \E d \in r.articles :
               /\ d.id = b.article /\ Precedes(r, d)
               /\ ModeSource(r).hybrid => "vector" \in r.known /\ d.near > r.hybridArticleThreshold
          /\ \E t \in r.targetBoxes : b.sim[t] > BoxThreshold(r, ModeSource(r))
          /\ ModeSource(r).drop => b.label # "DROP"
      BY <2>2 DEF Candidates, ModeSource
    <3>2. r.known = q.known /\ r.at = q.at /\ r.lookback = q.lookback /\ r.targetBoxes = q.targetBoxes
      BY <1>1 DEF OfEveryLabel, PrecedentQuestion, PrecedentOptions
    <3>3. Precedes(r, a) => Precedes(q, a)
      BY <1>6, <3>2 DEF Precedes
    <3>4. \A d \in q.articles : d.id = b.article => d = a
      BY <2>1 DEF PrecedentQuestion, Identified
    <3>5. /\ b \in q.boxes /\ "published" \in q.known
          /\ \E d \in q.articles :
               /\ d.id = b.article /\ Precedes(q, d)
               /\ src.hybrid => "vector" \in q.known /\ d.near > q.hybridArticleThreshold
          /\ \E t \in q.targetBoxes : b.sim[t] > BoxThreshold(q, src)
          /\ src.drop => b.label # "DROP"
      <4> HIDE DEF src
      <4>1. ModeSource(r) = src /\ BoxThreshold(r, src) = BoxThreshold(q, src)
        BY <1>2 DEF src
      <4> QED
        BY <1>2, <3>1, <3>2, <3>3, <3>4, <4>1
    <3> QED
      BY <3>5 DEF Candidates, ModeSource
  <2>4. b \in Taken(q)
    <3> SUFFICES ASSUME b \notin Taken(q) PROVE FALSE
      OBVIOUS
    <3>1. PICK P, T, C, D : P = Taken(q) /\ T = Taken(r) /\ C = Candidates(q) /\ D = Candidates(r)
      OBVIOUS
    <3>2. /\ IsFiniteSet(P) /\ P \in SUBSET C /\ IsFiniteSet(C)
          /\ Cardinality(P) = (IF Cardinality(C) < q.limit THEN Cardinality(C) ELSE q.limit)
          /\ \A x \in P, y \in C \ P : MaxSim(q, y) <= MaxSim(q, x)
      BY <3>1, ArticlesTaken
    <3>3. /\ IsFiniteSet(T) /\ T \in SUBSET D
          /\ Cardinality(T) = (IF Cardinality(D) < r.limit THEN Cardinality(D) ELSE r.limit)
          /\ \A x \in D : MaxSim(r, x) \in Int
          /\ \A x \in T, y \in D \ T : MaxSim(r, y) <= MaxSim(r, x)
          /\ IsFiniteSet(D)
      BY <1>2, <3>1, ArticlesTaken
    <3>4. b \in T /\ b \in C /\ b \notin P /\ C \in SUBSET D /\ r.limit = q.limit /\ q.limit \in Nat
      BY <1>2, <2>1, <2>3, <3>1 DEF PrecedentQuestion
    <3>5. P \in SUBSET T
      <4> SUFFICES ASSUME NEW x \in P, x \notin T PROVE FALSE
        OBVIOUS
      <4>1. x \in D /\ b \in D
        BY <3>2, <3>4
      <4>2. MaxSim(q, b) <= MaxSim(q, x)
        BY <3>2, <3>4
      <4>3. MaxSim(q, x) <= MaxSim(q, b) /\ MaxSim(q, x) \in Int /\ MaxSim(q, b) \in Int
        BY <1>2, <3>3, <3>4, <4>1
      <4>4. MaxSim(q, x) = MaxSim(q, b)
        BY <4>2, <4>3
      <4> QED
        BY <1>6, <3>1, <3>4, <4>1, <4>4
    <3>6. Cardinality(P) = q.limit
      <4>1. Cardinality(P) \in Nat /\ Cardinality(C) \in Nat
        BY <3>2, FS_CardinalityType
      <4>2. Cardinality(P) # Cardinality(C)
        BY <3>2, <3>4, FS_Subset
      <4> QED
        BY <3>2, <4>1, <4>2
    <3>7. Cardinality(P \cup {b}) = q.limit + 1
      BY <3>2, <3>4, <3>6, FS_AddElement
    <3>8. P \cup {b} \in SUBSET T
      BY <3>4, <3>5
    <3>9. Cardinality(P \cup {b}) <= Cardinality(T)
      BY <3>3, <3>8, FS_Subset
    <3>10. Cardinality(T) <= q.limit /\ Cardinality(T) \in Nat
      <4>1. Cardinality(T) \in Nat /\ Cardinality(D) \in Nat
        BY <3>3, FS_CardinalityType
      <4> QED
        BY <3>3, <3>4, <4>1
    <3> QED
      BY <3>4, <3>7, <3>9, <3>10
  <2> QED
    BY <1>5, <2>1, <2>4
<1> QED
  BY <1>1, <1>4, <1>6

=============================================================================
