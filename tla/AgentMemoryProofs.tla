-------------------------- MODULE AgentMemoryProofs --------------------------
(***************************************************************************)
(* The agent's memory keeps its types, every message in one place and the  *)
(* conversation in order; recall returns the best matches, and each result *)
(* is counted once; for any number of callers, any sizes and any vectors.  *)
(***************************************************************************)
EXTENDS AgentMemory, TLAPS, FiniteSetTheorems

Text == Seq(1..MaxSaid)
Pcs == {"idle", "short_term", "embedding", "long_term", "episodic"}
CallRec == [op : Ops, pc : Pcs, n : Nat, digest : Text,
            vec : Vectors \union {<<>>}, id : Ids]
EntryRec == [id : Ids, content : Text, embedding : Vectors, access_count : Nat]
BufferOps == {"add_message", "clear", "consolidate"}

(***************************************************************************)
(* Sums.                                                                   *)
(***************************************************************************)

\* Induction over the natural numbers, for sets.
LEMMA SetInduction ==
    ASSUME NEW S, 0 \in S, \A n \in Nat : n \in S => n + 1 \in S
    PROVE  Nat \subseteq S
<1> DEFINE T == Nat \ S
           R == OpToRel(<, Nat)
<1>1. SUFFICES ASSUME T # {} PROVE FALSE
  OBVIOUS
<1>2. IsWellFoundedOn(R, Nat)
  BY NatLessThanWellFounded
<1>3. \A x, y \in Nat : y < x => <<y, x>> \in R
  BY DEF OpToRel
<1>4. T \subseteq Nat
  OBVIOUS
<1> HIDE DEF R
<1>5. PICK x \in T : \A y \in T : ~(<<y, x>> \in R)
  BY Zenon, <1>1, <1>2, <1>4, WFMin
<1>6. x \in Nat /\ x # 0 /\ x - 1 \in Nat
  BY <1>4
<1>7. x - 1 \in S
  <2>1. x - 1 < x /\ <<x - 1, x>> \in R
    BY <1>3, <1>6
  <2>2. x - 1 \notin T
    BY <1>5, <2>1
  <2> QED BY <1>6, <2>2
<1>8. (x - 1) + 1 \in S
  BY <1>6, <1>7
<1> QED
  BY <1>6, <1>8

\* s holds the sums of the first elements of f.
SumsUp(f, n, s) == s[0] = 0 /\ \A i \in 1..n : s[i] = s[i - 1] + f[i]
PartialSums(f, n, s) == s \in [0..n -> Int] /\ SumsUp(f, n, s)

\* There are such sums.
LEMMA SumsExist ==
    ASSUME NEW n \in Nat, NEW f, \A i \in 1..n : f[i] \in Int
    PROVE  \E s : PartialSums(f, n, s)
<1> DEFINE S == {m \in Nat : m <= n => \E s : PartialSums(f, m, s)}
<1>1. 0 \in S
  <2> DEFINE s == [i \in 0..0 |-> 0]
  <2>1. PartialSums(f, 0, s)
    BY DEF PartialSums, SumsUp
  <2> QED
    BY <2>1
<1>2. ASSUME NEW m \in Nat, m \in S, m + 1 <= n PROVE \E s : PartialSums(f, m + 1, s)
  <2>1. PICK s : PartialSums(f, m, s)
    BY <1>2
  <2> DEFINE t == [i \in 0..(m + 1) |-> IF i = m + 1 THEN s[m] + f[m + 1] ELSE s[i]]
  <2>2. s[m] \in Int /\ f[m + 1] \in Int
    BY <1>2, <2>1 DEF PartialSums, SumsUp
  <2>3. t \in [0..(m + 1) -> Int] /\ t[0] = 0
    BY <2>1, <2>2 DEF PartialSums, SumsUp
  <2>4. ASSUME NEW i \in 1..(m + 1) PROVE t[i] = t[i - 1] + f[i]
    <3>1. CASE i = m + 1
      BY <3>1
    <3>2. CASE i \in 1..m
      BY <2>1, <3>2 DEF PartialSums, SumsUp
    <3> QED
      BY <3>1, <3>2
  <2>5. PartialSums(f, m + 1, t)
    BY Zenon, <2>3, <2>4 DEF PartialSums, SumsUp
  <2> QED
    BY <2>5
<1>3. \A m \in Nat : m \in S => m + 1 \in S
  BY <1>2
<1> HIDE DEF S
<1>4. n \in S
  BY <1>1, <1>3, SetInduction
<1> QED
  BY <1>4 DEF S

\* Two sequences of such sums agree.
LEMMA SumsUnique ==
    ASSUME NEW n \in Nat, NEW f, NEW s, NEW t, SumsUp(f, n, s), SumsUp(f, n, t)
    PROVE  \A i \in 0..n : s[i] = t[i]
<1> DEFINE S == {m \in Nat : m <= n => s[m] = t[m]}
<1>1. 0 \in S
  BY DEF SumsUp
<1>2. ASSUME NEW m \in Nat, m \in S PROVE m + 1 \in S
  <2>1. CASE m + 1 <= n
    <3>1. m + 1 \in 1..n /\ (m + 1) - 1 = m /\ s[m] = t[m]
      BY <1>2, <2>1
    <3> QED
      BY <3>1 DEF SumsUp
  <2>2. CASE ~(m + 1 <= n)
    BY <2>2
  <2> QED
    BY <2>1, <2>2
<1> HIDE DEF S
<1>3. Nat \subseteq S
  BY <1>1, <1>2, SetInduction
<1> QED
  BY <1>3 DEF S

\* Total is the last of them.
LEMMA TotalIs ==
    ASSUME NEW n \in Nat, NEW f, Len(f) = n, NEW s, PartialSums(f, n, s)
    PROVE  Total(f) = s[n] /\ Total(f) \in Int
<1> DEFINE P(g) == g = [i \in 0..n |-> IF i = 0 THEN 0 ELSE g[i - 1] + f[i]]
           t == CHOOSE g : P(g)
<1>1. Total(f) = t[n]
  BY Zenon DEF Total
<1>2. P(s)
  <2>1. s = [i \in 0..n |-> s[i]]
    BY DEF PartialSums, SumsUp
  <2>2. ASSUME NEW i \in 0..n PROVE s[i] = IF i = 0 THEN 0 ELSE s[i - 1] + f[i]
    BY DEF PartialSums, SumsUp
  <2> QED
    BY Zenon, <2>1, <2>2
<1>3. P(t)
  <2> HIDE DEF P
  <2> QED
    BY <1>2
<1> HIDE DEF t
<1>4. t[0] = 0 /\ \A i \in 1..n : t[i] = t[i - 1] + f[i]
  <2>1. \A i \in 0..n : t[i] = IF i = 0 THEN 0 ELSE t[i - 1] + f[i]
    BY <1>3
  <2> QED
    BY <2>1
<1>5. \A i \in 0..n : s[i] = t[i]
  <2>1. SumsUp(f, n, s) /\ SumsUp(f, n, t)
    BY <1>4 DEF PartialSums, SumsUp
  <2> QED
    BY <2>1, SumsUnique
<1> QED
  BY <1>1, <1>5 DEF PartialSums, SumsUp

\* What the other lemmas use of these sums.
LEMMA SumsOf ==
    ASSUME NEW n \in Nat, NEW f \in [1..n -> Int]
    PROVE  /\ Total(f) \in Int /\ \E s : PartialSums(f, n, s)
           /\ \A s : PartialSums(f, n, s) => Total(f) = s[n]
<1>1. Len(f) = n
  OBVIOUS
<1>2. \A i \in 1..n : f[i] \in Int
  OBVIOUS
<1>3. \E s : PartialSums(f, n, s)
  BY <1>2, SumsExist
<1> QED
  BY <1>1, <1>3, TotalIs

\* A sum of numbers that are not negative is not negative.
LEMMA TotalNat ==
    ASSUME NEW n \in Nat, NEW f \in [1..n -> Int], \A i \in 1..n : f[i] >= 0
    PROVE  Total(f) \in Nat
<1>1. PICK s : PartialSums(f, n, s)
  BY SumsOf
<1> DEFINE S == {m \in Nat : m <= n => s[m] >= 0}
<1>2. 0 \in S
  BY <1>1 DEF PartialSums, SumsUp
<1>3. ASSUME NEW m \in Nat, m \in S PROVE m + 1 \in S
  <2>1. CASE m + 1 <= n
    <3>1. m + 1 \in 1..n /\ (m + 1) - 1 = m /\ s[m] >= 0 /\ m \in 0..n
      BY <1>3, <2>1
    <3>2. s[m + 1] = s[m] + f[m + 1] /\ s[m] \in Int /\ f[m + 1] \in Int /\ f[m + 1] >= 0
      BY <1>1, <3>1 DEF PartialSums, SumsUp
    <3> QED
      BY <3>1, <3>2
  <2>2. CASE ~(m + 1 <= n)
    BY <2>2
  <2> QED
    BY <2>1, <2>2
<1>4. n \in S
  <2> HIDE DEF S
  <2> QED
    BY Zenon, <1>2, <1>3, SetInduction
<1>5. Total(f) = s[n] /\ Total(f) \in Int
  BY <1>1, SumsOf
<1> QED
  BY <1>4, <1>5

\* Sums are additive.
LEMMA TotalAdds ==
    ASSUME NEW n \in Nat, NEW f \in [1..n -> Int], NEW g \in [1..n -> Int],
           NEW h \in [1..n -> Int], \A i \in 1..n : h[i] = f[i] + g[i]
    PROVE  Total(h) = Total(f) + Total(g)
<1>1. PICK s : PartialSums(f, n, s)
  BY Zenon, SumsOf
<1>2. PICK t : PartialSums(g, n, t)
  BY SumsOf
<1> DEFINE u == [i \in 0..n |-> s[i] + t[i]]
<1>3. u \in [0..n -> Int] /\ u[0] = 0
  BY <1>1, <1>2 DEF PartialSums, SumsUp
<1>4. ASSUME NEW i \in 1..n PROVE u[i] = u[i - 1] + h[i]
  <2>1. i \in 0..n /\ i - 1 \in 0..n
    OBVIOUS
  <2>2. s[i] = s[i - 1] + f[i] /\ t[i] = t[i - 1] + g[i]
    BY Zenon, <1>1, <1>2 DEF PartialSums, SumsUp
  <2>3. s[i - 1] \in Int /\ t[i - 1] \in Int /\ f[i] \in Int /\ g[i] \in Int
    BY <1>1, <1>2, <2>1 DEF PartialSums
  <2> QED
    BY <2>1, <2>2, <2>3
<1>5. u[n] = s[n] + t[n]
  OBVIOUS
<1>6. PartialSums(h, n, u)
  <2> HIDE DEF u
  <2> QED
    BY <1>3, <1>4 DEF PartialSums, SumsUp
<1> HIDE DEF u
<1> QED
  BY Zenon, <1>1, <1>2, <1>5, <1>6, SumsOf

\* A sum with one term.
LEMMA TotalOfOne ==
    ASSUME NEW n \in Nat, NEW f \in [1..n -> Int], NEW k \in 1..n,
           \A i \in 1..n : i # k => f[i] = 0
    PROVE  Total(f) = f[k]
<1> DEFINE s == [i \in 0..n |-> IF i < k THEN 0 ELSE f[k]]
<1>1. s \in [0..n -> Int] /\ s[0] = 0 /\ s[n] = f[k]
  OBVIOUS
<1>2. ASSUME NEW i \in 1..n PROVE s[i] = s[i - 1] + f[i]
  <2>1. i \in 0..n /\ i - 1 \in 0..n /\ f[k] \in Int
    OBVIOUS
  <2>2. s[i] = (IF i < k THEN 0 ELSE f[k]) /\ s[i - 1] = IF i - 1 < k THEN 0 ELSE f[k]
    BY <2>1
  <2> QED
    BY <2>1, <2>2
<1>3. PartialSums(f, n, s)
  BY <1>1, <1>2 DEF PartialSums, SumsUp
<1> HIDE DEF s
<1> QED
  BY <1>1, <1>3, SumsOf

\* A function that is 0 everywhere sums to 0.
LEMMA TotalOfNone ==
    ASSUME NEW n \in Nat, NEW f \in [1..n -> Int], \A i \in 1..n : f[i] = 0
    PROVE  Total(f) = 0
<1> DEFINE s == [i \in 0..n |-> 0]
<1>1. PartialSums(f, n, s) /\ s[n] = 0
  BY DEF PartialSums, SumsUp
<1> HIDE DEF s
<1> QED
  BY <1>1, SumsOf

\* A sum that counts the elements of a set.
LEMMA TotalCounts ==
    ASSUME NEW n \in Nat, NEW A \in SUBSET (1..n), NEW f \in [1..n -> Int],
           \A i \in 1..n : f[i] = IF i \in A THEN 1 ELSE 0
    PROVE  Total(f) = Cardinality(A)
<1> DEFINE B(i) == A \intersect (1..i)
           s == [i \in 0..n |-> Cardinality(B(i))]
<1>1. \A i \in 0..n : IsFiniteSet(B(i)) /\ Cardinality(B(i)) \in Nat
  <2>1. ASSUME NEW i \in 0..n PROVE IsFiniteSet(B(i))
    <3>1. IsFiniteSet(1..n) /\ B(i) \in SUBSET (1..n)
      BY FS_Interval
    <3> QED
      BY <3>1, FS_Subset
  <2> QED
    BY <2>1, FS_CardinalityType
<1>2. B(0) = {} /\ B(n) = A
  <2>1. 1..0 = {}
    OBVIOUS
  <2> QED
    BY Zenon, <2>1
<1>3. ASSUME NEW i \in 1..n PROVE Cardinality(B(i)) = Cardinality(B(i - 1)) + f[i]
  <2>1. i - 1 \in 0..n /\ i \in 0..n
    OBVIOUS
  <2>2. i \notin B(i - 1)
    BY <2>1
  <2>3. CASE i \in A
    <3>1. B(i) = B(i - 1) \union {i}
      BY <2>1, <2>3
    <3>2. IsFiniteSet(B(i - 1))
      BY <1>1, <2>1
    <3> HIDE DEF B
    <3>3. Cardinality(B(i - 1) \union {i}) = Cardinality(B(i - 1)) + 1
      BY Zenon, <2>2, <3>2, FS_AddElement
    <3> QED
      BY <2>3, <3>1, <3>3
  <2>4. CASE i \notin A
    <3>1. B(i) = B(i - 1)
      BY <2>1, <2>4
    <3>2. Cardinality(B(i - 1)) \in Nat
      BY Zenon, <1>1, <2>1
    <3> HIDE DEF B
    <3> QED
      BY <2>4, <3>1, <3>2
  <2> QED
    BY <2>3, <2>4
<1>4. Cardinality(B(0)) = 0
  BY <1>2, FS_EmptySet
<1> HIDE DEF B
<1>5. PartialSums(f, n, s) /\ s[n] = Cardinality(A)
  <2>1. s \in [0..n -> Int] /\ s[0] = 0 /\ s[n] = Cardinality(A)
    BY <1>1, <1>2, <1>4
  <2>2. ASSUME NEW i \in 1..n PROVE s[i] = s[i - 1] + f[i]
    <3>1. i - 1 \in 0..n /\ i \in 0..n
      OBVIOUS
    <3> QED
      BY <1>3, <3>1
  <2> QED
    BY Zenon, <2>1, <2>2 DEF PartialSums, SumsUp
<1> HIDE DEF s
<1> QED
  BY <1>5, SumsOf

\* A sum with a term more.
LEMMA TotalAppended ==
    ASSUME NEW n \in Nat, NEW f \in [1..n -> Int], NEW g \in [1..(n + 1) -> Int],
           \A i \in 1..n : g[i] = f[i]
    PROVE  Total(g) = Total(f) + g[n + 1]
<1>1. PICK s : PartialSums(g, n + 1, s)
  <2>1. n + 1 \in Nat
    OBVIOUS
  <2> QED
    BY <2>1, SumsOf
<1> DEFINE t == [i \in 0..n |-> s[i]]
<1>2. PartialSums(f, n, t) /\ t[n] = s[n]
  <2>1. t \in [0..n -> Int] /\ t[0] = 0 /\ t[n] = s[n]
    BY <1>1 DEF PartialSums, SumsUp
  <2>2. ASSUME NEW i \in 1..n PROVE t[i] = t[i - 1] + f[i]
    <3>1. i \in 0..n /\ i - 1 \in 0..n /\ i \in 1..(n + 1)
      OBVIOUS
    <3> QED
      BY <1>1, <3>1 DEF PartialSums, SumsUp
  <2> QED
    BY Zenon, <2>1, <2>2 DEF PartialSums, SumsUp
<1>3. s[n + 1] = s[n] + g[n + 1]
  <2>1. n + 1 \in 1..(n + 1) /\ (n + 1) - 1 = n
    OBVIOUS
  <2> QED
    BY <1>1, <2>1 DEF PartialSums, SumsUp
<1>4. Total(g) = s[n + 1]
  <2>1. n + 1 \in Nat
    OBVIOUS
  <2> QED
    BY <1>1, <2>1, SumsOf
<1>5. Total(f) = t[n]
  <2> HIDE DEF t
  <2> QED
    BY <1>2, SumsOf
<1> QED
  BY <1>2, <1>3, <1>4, <1>5

(***************************************************************************)
(* Scores are fractions, in their order.                                   *)
(***************************************************************************)
Fraction == [num : Int, den : Nat \ {0}]

\* A square is not negative.
LEMMA Squares == \A x \in Int : x * x \in Int /\ x * x >= 0
<1>1. ASSUME NEW x \in Int PROVE x * x \in Int /\ x * x >= 0
  <2>1. CASE x >= 0
    BY <2>1
  <2>2. CASE x < 0
    BY <2>2
  <2> QED
    BY <2>1, <2>2
<1> QED
  BY <1>1

\* Natural numbers are closed under products.
LEMMA Products ==
    ASSUME NEW x \in Nat, NEW y \in Nat
    PROVE  x * y \in Nat
OBVIOUS

\* A dot product of integer vectors is an integer, of a vector with itself
\* not negative.
LEMMA DotType ==
    ASSUME NEW a \in Seq(Int), NEW b \in Seq(Int), Len(a) = Len(b)
    PROVE  Dot(a, b) \in Int /\ Dot(a, a) \in Nat
<1> DEFINE n == Len(a)
           f == [i \in 1..n |-> a[i] * b[i]]
           g == [i \in 1..n |-> a[i] * a[i]]
<1>1. n \in Nat /\ \A i \in 1..n : a[i] \in Int /\ b[i] \in Int
  OBVIOUS
<1>2. f \in [1..n -> Int] /\ g \in [1..n -> Int] /\ \A i \in 1..n : g[i] >= 0
  BY <1>1, Squares
<1>3. Dot(a, b) = Total(f) /\ Dot(a, a) = Total(g)
  BY DEF Dot
<1> HIDE DEF f, g, n
<1>4. Total(f) \in Int
  BY <1>1, <1>2, SumsOf
<1>5. Total(g) \in Nat
  BY Zenon, <1>1, <1>2, TotalNat
<1> QED
  BY <1>3, <1>4, <1>5

\* A similarity is a fraction with a positive denominator.
LEMMA ScoreType ==
    ASSUME NEW a \in Seq(Int), NEW b \in Seq(Int)
    PROVE  cosine_similarity(a, b) \in Fraction
<1>1. CASE Len(a) # Len(b) \/ Len(a) = 0
  BY <1>1 DEF cosine_similarity, Fraction
<1>2. CASE ~(Len(a) # Len(b) \/ Len(a) = 0)
  <2> DEFINE dot == Dot(a, b)
             norms == Dot(a, a) * Dot(b, b)
             m == IF dot < 0 THEN -(dot * dot) ELSE dot * dot
  <2>1. dot \in Int /\ Dot(a, a) \in Nat /\ Dot(b, b) \in Nat
    BY <1>2, DotType
  <2>2. norms \in Nat /\ dot * dot \in Int
    BY <2>1, Products, Squares
  <2>3. m \in Int
    BY <2>2
  <2>4. cosine_similarity(a, b) = IF norms = 0 THEN [num |-> 0, den |-> 1]
                                  ELSE [num |-> m, den |-> norms]
    BY <1>2 DEF cosine_similarity
  <2> HIDE DEF norms, m
  <2> QED
    BY <2>2, <2>3, <2>4 DEF Fraction
<1> QED
  BY <1>1, <1>2

\* Scaling both sides by a positive number keeps their order.
LEMMA Scaled ==
    ASSUME NEW x \in Int, NEW y \in Int, NEW d \in Nat \ {0}
    PROVE  x * d >= y * d <=> x >= y
OBVIOUS

\* AtLeast is a total preorder.
LEMMA ScoresCompare ==
    /\ \A s, t \in Fraction : AtLeast(s, t) \/ AtLeast(t, s)
    /\ \A s, t, u \in Fraction : AtLeast(s, t) /\ AtLeast(t, u) => AtLeast(s, u)
<1>1. ASSUME NEW s \in Fraction, NEW t \in Fraction PROVE AtLeast(s, t) \/ AtLeast(t, s)
  <2>1. s.num * t.den \in Int /\ t.num * s.den \in Int
    BY DEF Fraction
  <2> QED
    BY <2>1 DEF AtLeast
<1>2. ASSUME NEW s \in Fraction, NEW t \in Fraction, NEW u \in Fraction,
             AtLeast(s, t), AtLeast(t, u)
      PROVE  AtLeast(s, u)
  <2> DEFINE a == s.num  b == s.den  c == t.num  d == t.den  e == u.num  f == u.den
  <2>1. /\ a \in Int /\ c \in Int /\ e \in Int
        /\ b \in Nat \ {0} /\ d \in Nat \ {0} /\ f \in Nat \ {0}
    BY DEF Fraction
  <2>2. a * d >= c * b /\ c * f >= e * d
    BY <1>2 DEF AtLeast
  <2> HIDE DEF a, b, c, d, e, f
  <2>3. a * d \in Int /\ c * b \in Int /\ c * f \in Int /\ e * d \in Int /\ a * f \in Int /\ e * b \in Int
    BY <2>1
  <2>4. (a * d) * f >= (c * b) * f /\ (c * f) * b >= (e * d) * b
    BY <2>1, <2>2, <2>3, Scaled
  <2>5. (a * d) * f = (a * f) * d /\ (c * b) * f = (c * f) * b /\ (e * d) * b = (e * b) * d
    BY <2>1
  <2>6. (a * f) * d >= (e * b) * d
    <3>1. (a * d) * f \in Int /\ (c * b) * f \in Int /\ (e * d) * b \in Int
      BY <2>1, <2>3
    <3> QED
      BY <2>4, <2>5, <3>1
  <2>7. a * f >= e * b
    BY <2>1, <2>3, <2>6, Scaled
  <2> QED
    BY <2>7 DEF AtLeast, a, b, e, f
<1> QED
  BY <1>1, <1>2

(***************************************************************************)
(* Ranks.                                                                  *)
(***************************************************************************)

\* pred gives the elements before each one, in a strict total order.
Orders(H, pred) ==
    /\ pred \in [H -> SUBSET H]
    /\ \A i \in H : i \notin pred[i]
    /\ \A i, j \in H : i \in pred[j] => pred[i] \subseteq pred[j]
    /\ \A i, j \in H : i # j => i \in pred[j] \/ j \in pred[i]

\* rank numbers the elements in that order.
Numbers(H, pred, rank) ==
    /\ Cardinality(H) \in Nat
    /\ \A i \in H : rank[i] \in 1..Cardinality(H)
    /\ \A i, j \in H : rank[i] < rank[j] <=> i \in pred[j]
    /\ \A k \in 1..Cardinality(H) : \E i \in H : rank[i] = k

\* In a finite set in which pred gives the elements before each one, in a
\* strict total order, counting them numbers the elements from 1.
LEMMA Ranks ==
    ASSUME NEW H, IsFiniteSet(H), NEW pred, Orders(H, pred),
           NEW rank, rank = [i \in H |-> 1 + Cardinality(pred[i])]
    PROVE  Numbers(H, pred, rank)
<1>0. /\ pred \in [H -> SUBSET H]
      /\ \A i \in H : i \notin pred[i]
      /\ \A i, j \in H : i \in pred[j] => pred[i] \subseteq pred[j]
      /\ \A i, j \in H : i # j => i \in pred[j] \/ j \in pred[i]
  BY DEF Orders
<1> DEFINE n == Cardinality(H)
<1>1. n \in Nat
  BY FS_CardinalityType
<1>2. \A i \in H : IsFiniteSet(pred[i]) /\ Cardinality(pred[i]) \in Nat
  <2>1. ASSUME NEW i \in H PROVE IsFiniteSet(pred[i])
    <3>1. pred[i] \in SUBSET H
      BY <1>0
    <3> QED
      BY <3>1, FS_Subset
  <2> QED
    BY <2>1, FS_CardinalityType
<1>3. ASSUME NEW i \in H PROVE rank[i] \in 1..n
  <2>1. IsFiniteSet(H \ {i}) /\ Cardinality(H \ {i}) = n - 1
    BY FS_RemoveElement
  <2>2. pred[i] \in SUBSET (H \ {i})
    BY <1>0
  <2>3. Cardinality(pred[i]) <= n - 1
    BY <2>1, <2>2, FS_Subset
  <2> QED
    BY <1>1, <1>2, <2>3
<1>4. ASSUME NEW i \in H, NEW j \in H, i \in pred[j] PROVE rank[i] < rank[j]
  <2>1. IsFiniteSet(pred[j]) /\ IsFiniteSet(pred[i])
    BY <1>2
  <2>2. pred[i] \union {i} \in SUBSET pred[j] /\ i \notin pred[i]
    BY <1>0, <1>4
  <2>3. Cardinality(pred[i] \union {i}) = Cardinality(pred[i]) + 1
    BY Zenon, <2>1, <2>2, FS_AddElement
  <2>4. Cardinality(pred[i] \union {i}) <= Cardinality(pred[j])
    BY <2>1, <2>2, FS_Subset
  <2> QED
    BY <1>2, <2>3, <2>4
<1>5. \A i, j \in H : rank[i] < rank[j] <=> i \in pred[j]
  <2>1. ASSUME NEW i \in H, NEW j \in H, rank[i] < rank[j] PROVE i \in pred[j]
    <3>1. rank[i] \in Int /\ rank[j] \in Int
      BY <1>1, <1>3
    <3>2. i # j /\ j \notin pred[i]
      BY <1>4, <2>1, <3>1
    <3> QED
      BY <1>0, <3>2
  <2> QED
    BY <1>4, <2>1
<1>6. \A i, j \in H : rank[i] = rank[j] => i = j
  <2>1. ASSUME NEW i \in H, NEW j \in H, i # j PROVE rank[i] # rank[j]
    <3>1. rank[i] \in Int /\ rank[j] \in Int
      BY <1>1, <1>3
    <3>2. rank[i] < rank[j] \/ rank[j] < rank[i]
      BY <1>0, <1>4, <2>1
    <3> QED
      BY <3>1, <3>2
  <2> QED
    BY <2>1
<1>7. \A k \in 1..n : \E i \in H : rank[i] = k
  <2>1. rank \in Injection(H, 1..n)
    BY <1>3, <1>6 DEF Injection, IsInjective
  <2>2. IsFiniteSet(1..n) /\ Cardinality(1..n) = n
    BY <1>1, FS_Interval
  <2>3. rank \in Surjection(H, 1..n)
    BY <2>1, <2>2, FS_Injection
  <2> QED
    BY <2>3 DEF Surjection
<1> QED
  BY <1>1, <1>3, <1>5, <1>7 DEF Numbers

(***************************************************************************)
(* The search.                                                             *)
(***************************************************************************)
Score(v, i) == cosine_similarity(v, entries[i].embedding)
Hits(v) == {i \in DOMAIN entries : AtLeast(Score(v, i), MinScore)}

\* i is returned before j when both match.
Precedes(v, i, j) ==
    \/ ~AtLeast(Score(v, j), Score(v, i))
    \/ AtLeast(Score(v, i), Score(v, j)) /\ i < j

Searched(v, limit, results, size) ==
    /\ size <= limit /\ DOMAIN results = 1..size /\ Len(results) = size
    /\ \A k \in 1..size : results[k] \in Hits(v)
    /\ \A k, m \in 1..size : k < m =>
          results[k] # results[m] /\ AtLeast(Score(v, results[k]), Score(v, results[m]))
    /\ \A i \in Hits(v) \ Range(results) :
          size = limit /\ \A k \in 1..size : AtLeast(Score(v, results[k]), Score(v, i))

\* A search returns matching entries, no entry twice, the best ones first, and
\* leaves out only worse ones and only when it returns limit.
LEMMA SearchResults ==
    ASSUME entries \in Seq(EntryRec), NEW v \in Vectors, NEW limit \in Nat,
           NEW results, results = query(v, limit)
    PROVE  \E size \in Nat : Searched(v, limit, results, size)
<1> DEFINE H == Hits(v)
           n == Cardinality(H)
           pred == [i \in H |-> {j \in H : Precedes(v, j, i)}]
           rank == [i \in H |-> 1 + Cardinality(pred[i])]
           size == IF n < limit THEN n ELSE limit
<1>1. IsFiniteSet(H) /\ H \subseteq Nat
  <2>1. Len(entries) \in Int /\ 1 \in Int /\ DOMAIN entries = 1..Len(entries)
    OBVIOUS
  <2>2. IsFiniteSet(1..Len(entries)) /\ H \in SUBSET (1..Len(entries))
    BY <2>1, FS_Interval DEF Hits
  <2> QED
    BY <2>2, FS_Subset
<1>2. \A i \in H : Score(v, i) \in Fraction
  <2>1. ASSUME NEW i \in H PROVE Score(v, i) \in Fraction
    <3>1. entries[i] \in EntryRec
      BY DEF Hits
    <3>2. entries[i].embedding \in Seq(Int) /\ v \in Seq(Int)
      BY <3>1, MemoryAssumption DEF EntryRec
    <3> QED
      BY <3>2, ScoreType DEF Score
  <2> QED
    BY <2>1
<1>3. /\ \A i, j \in H : AtLeast(Score(v, i), Score(v, j)) \/ AtLeast(Score(v, j), Score(v, i))
      /\ \A i, j, k \in H : AtLeast(Score(v, i), Score(v, j)) /\ AtLeast(Score(v, j), Score(v, k))
                            => AtLeast(Score(v, i), Score(v, k))
  BY <1>2, ScoresCompare
<1> HIDE DEF H
<1>4. /\ \A i \in H : ~Precedes(v, i, i)
      /\ \A i, j, k \in H : Precedes(v, i, j) /\ Precedes(v, j, k) => Precedes(v, i, k)
      /\ \A i, j \in H : i # j => Precedes(v, i, j) \/ Precedes(v, j, i)
      /\ \A i, j \in H : Precedes(v, i, j) => AtLeast(Score(v, i), Score(v, j))
  <2>1. \A i \in H : i \in Int
    BY <1>1
  <2>2. \A i, j \in H : Precedes(v, i, j) => AtLeast(Score(v, i), Score(v, j))
    BY <1>3 DEF Precedes
  <2>3. \A i \in H : ~Precedes(v, i, i)
    BY <1>3, <2>1 DEF Precedes
  <2>4. \A i, j \in H : i # j => Precedes(v, i, j) \/ Precedes(v, j, i)
    BY <1>3, <2>1 DEF Precedes
  <2>5. ASSUME NEW i \in H, NEW j \in H, NEW k \in H, Precedes(v, i, j), Precedes(v, j, k)
        PROVE  Precedes(v, i, k)
    <3>1. AtLeast(Score(v, i), Score(v, j)) /\ AtLeast(Score(v, j), Score(v, k))
      BY <2>2, <2>5
    <3>2. CASE ~AtLeast(Score(v, k), Score(v, i))
      BY <3>2 DEF Precedes
    <3>3. CASE AtLeast(Score(v, k), Score(v, i))
      <4>1. AtLeast(Score(v, j), Score(v, i)) /\ AtLeast(Score(v, k), Score(v, j))
        BY <1>3, <3>1, <3>3
      <4>2. i < j /\ j < k
        BY <2>5, <4>1 DEF Precedes
      <4>3. i < k
        BY <2>1, <4>2
      <4> QED
        BY <1>3, <3>1, <4>3 DEF Precedes
    <3> QED
      BY <3>2, <3>3
  <2> QED
    BY <2>2, <2>3, <2>4, <2>5
<1>5. /\ pred \in [H -> SUBSET H]
      /\ \A i \in H : i \notin pred[i]
      /\ \A i, j \in H : i \in pred[j] => pred[i] \subseteq pred[j]
      /\ \A i, j \in H : i # j => i \in pred[j] \/ j \in pred[i]
      /\ \A i, j \in H : i \in pred[j] => AtLeast(Score(v, i), Score(v, j))
  BY <1>4
<1>6. results = [k \in 1..size |-> CHOOSE i \in H : rank[i] = k]
  <2> DEFINE sc == [i \in DOMAIN entries |-> cosine_similarity(v, entries[i].embedding)]
             hits == {i \in DOMAIN entries : AtLeast(sc[i], MinScore)}
             Before(i, j) == ~AtLeast(sc[j], sc[i]) \/ (AtLeast(sc[i], sc[j]) /\ i < j)
             ranked == [i \in hits |-> 1 + Cardinality({j \in hits : Before(j, i)})]
  <2>1. results = [k \in 1..(IF Cardinality(hits) < limit THEN Cardinality(hits) ELSE limit)
                     |-> CHOOSE i \in hits : ranked[i] = k]
    BY Zenon DEF query
  <2>2. \A i \in DOMAIN entries : sc[i] = Score(v, i)
    BY DEF Score
  <2> HIDE DEF sc
  <2>3. hits = H
    BY <2>2 DEF H, Hits
  <2>4. H \subseteq DOMAIN entries
    BY DEF H, Hits
  <2> HIDE DEF hits
  <2>5. ASSUME NEW i \in H PROVE {j \in hits : Before(j, i)} = pred[i]
    BY <2>2, <2>3, <2>4 DEF Precedes
  <2> HIDE DEF Before, pred
  <2>6. ranked = rank
    BY Zenon, <2>3, <2>5
  <2> HIDE DEF ranked, rank
  <2> QED
    BY <2>1, <2>3, <2>6
<1> HIDE DEF pred
<1>7. /\ n \in Nat
      /\ \A i \in H : rank[i] \in 1..n
      /\ \A i, j \in H : rank[i] < rank[j] <=> i \in pred[j]
      /\ \A k \in 1..n : \E i \in H : rank[i] = k
  <2>1. Orders(H, pred)
    BY <1>5 DEF Orders
  <2>2. rank = [i \in H |-> 1 + Cardinality(pred[i])]
    OBVIOUS
  <2> HIDE DEF rank
  <2>3. Numbers(H, pred, rank)
    BY Zenon, <1>1, <2>1, <2>2, Ranks
  <2> QED
    BY <2>3 DEF Numbers
<1> HIDE DEF rank, n
<1>8. size \in Nat /\ size <= limit /\ size <= n
  BY <1>7
<1>9. \A k \in 1..size : results[k] \in H /\ rank[results[k]] = k
  <2>1. ASSUME NEW k \in 1..size PROVE results[k] \in H /\ rank[results[k]] = k
    <3>1. \E i \in H : rank[i] = k
      BY <1>7, <1>8
    <3>2. results[k] = CHOOSE i \in H : rank[i] = k
      BY <1>6
    <3> QED
      BY <3>1, <3>2
  <2> QED
    BY <2>1
<1>10. DOMAIN results = 1..size /\ Len(results) = size
  <2> HIDE DEF size
  <2> QED
    BY <1>6, <1>8
<1>11. ASSUME NEW k \in 1..size, NEW m \in 1..size, k < m
       PROVE  results[k] # results[m] /\ AtLeast(Score(v, results[k]), Score(v, results[m]))
  <2>1. results[k] \in H /\ results[m] \in H /\ rank[results[k]] = k /\ rank[results[m]] = m
    BY <1>9
  <2>2. results[k] \in pred[results[m]]
    BY <1>7, <1>11, <2>1
  <2> QED
    BY <1>5, <2>1, <2>2
<1>12. ASSUME NEW i \in H \ Range(results)
       PROVE  size = limit /\ \A k \in 1..size : AtLeast(Score(v, results[k]), Score(v, i))
  <2>1. rank[i] \in 1..n
    BY <1>7
  <2>2. ~(rank[i] <= size)
    <3>1. ASSUME rank[i] <= size PROVE FALSE
      <4>1. rank[i] \in 1..size
        BY <1>8, <2>1, <3>1
      <4>2. results[rank[i]] \in Range(results)
        BY <1>10, <4>1 DEF Range
      <4>3. results[rank[i]] = CHOOSE j \in H : rank[j] = rank[i]
        BY <1>6, <4>1
      <4>4. results[rank[i]] \in H /\ rank[results[rank[i]]] = rank[i]
        BY <1>9, <4>1
      <4>5. results[rank[i]] # i
        BY <4>2
      <4>6. i \in pred[results[rank[i]]] \/ results[rank[i]] \in pred[i]
        BY <1>5, <4>4, <4>5
      <4>7. rank[i] < rank[i]
        BY <1>7, <4>4, <4>6
      <4> QED
        BY <1>7, <2>1, <4>7
    <3> QED
      BY <3>1
  <2>3. size = limit
    BY <1>7, <1>8, <2>1, <2>2
  <2>4. ASSUME NEW k \in 1..size PROVE AtLeast(Score(v, results[k]), Score(v, i))
    <3>1. results[k] \in H /\ rank[results[k]] < rank[i]
      BY <1>7, <1>8, <1>9, <2>1, <2>2
    <3> QED
      BY <1>5, <1>7, <3>1
  <2> QED
    BY <2>3, <2>4
<1> HIDE DEF size
<1>13. Searched(v, limit, results, size)
  BY ZenonT(30), <1>8, <1>9, <1>10, <1>11, <1>12 DEF H, Searched
<1> QED
  BY <1>8, <1>13

\* What RecallsBest says holds in every state with well-typed entries.
LEMMA BestFirst == entries \in Seq(EntryRec) => RecallsBest
<1> SUFFICES ASSUME entries \in Seq(EntryRec), NEW v \in Vectors, NEW limit \in 0..MaxEntries
             PROVE  LET results == query(v, limit)
                        Sc(i) == cosine_similarity(v, entries[i].embedding)
                        rest == {i \in DOMAIN entries \ Range(results) : AtLeast(Sc(i), MinScore)}
                    IN  /\ Len(results) <= limit /\ (rest # {} => Len(results) = limit)
                        /\ \A r \in DOMAIN results : AtLeast(Sc(results[r]), MinScore)
                        /\ \A q, r \in DOMAIN results : q < r =>
                              results[q] # results[r] /\ AtLeast(Sc(results[q]), Sc(results[r]))
                        /\ \A r \in DOMAIN results, i \in rest : AtLeast(Sc(results[r]), Sc(i))
  BY DEF RecallsBest
<1> DEFINE results == query(v, limit)
           rest == {i \in DOMAIN entries \ Range(results) : AtLeast(Score(v, i), MinScore)}
<1>1. limit \in Nat
  OBVIOUS
<1> HIDE DEF results
<1>2. PICK size \in Nat : Searched(v, limit, results, size)
  BY <1>1, SearchResults DEF results
<1>3. rest = Hits(v) \ Range(results)
  BY DEF Hits
<1> HIDE DEF rest
<1>4. /\ Len(results) <= limit /\ (rest # {} => Len(results) = limit)
      /\ \A r \in DOMAIN results : AtLeast(Score(v, results[r]), MinScore)
      /\ \A q, r \in DOMAIN results : q < r =>
            results[q] # results[r] /\ AtLeast(Score(v, results[q]), Score(v, results[r]))
      /\ \A r \in DOMAIN results, i \in rest : AtLeast(Score(v, results[r]), Score(v, i))
  BY <1>2, <1>3 DEF Hits, Searched
<1> QED
  BY <1>4 DEF Score, results, rest

(***************************************************************************)
(* The invariant of the calls.                                             *)
(***************************************************************************)

\* What a call is doing fits the place where it waits; a consolidation that
\* is past the lock has it, and it alone has taken messages out.
Coherent(c) ==
    LET r == call[c]
    IN  /\ c \in Range(queue) <=> r.op \in BufferOps
        /\ r.pc = "idle" <=> r.op = "none"
        /\ r.pc = "short_term" => r.op \in BufferOps
        /\ r.op \in {"add_message", "clear"} => r.pc = "short_term"
        /\ r.pc = "episodic" => r.op = "record_episode"
        /\ r.op = "consolidate" /\ r.pc # "short_term" => Holds(c)
        /\ r.digest # <<>> => r.op = "consolidate" /\ r.pc # "short_term"
        /\ r.pc = "long_term" => r.vec \in Vectors
        /\ Increasing(r.digest)

CallsInv ==
    /\ call \in [Callers -> CallRec] /\ queue \in Seq(Callers)
    /\ \A i, j \in DOMAIN queue : queue[i] = queue[j] => i = j
    /\ \A c \in Callers : Coherent(c)

(***************************************************************************)
(* The lock's queue.                                                       *)
(***************************************************************************)

\* Whoever holds the lock is the only one who does.
LEMMA HolderFirst ==
    ASSUME CallsInv, NEW c \in Callers
    PROVE  Holds(c) <=> queue # <<>> /\ queue[1] = c
BY DEF CallsInv, Holds

\* Taking a caller out of the queue removes it and nobody else, keeps the
\* others' places apart and, when it was not first, the holder.
LEMMA LeavesQueue ==
    ASSUME CallsInv, NEW c \in Callers, Leaves(c)
    PROVE  /\ queue' \in Seq(Callers)
           /\ \A i, j \in DOMAIN queue' : queue'[i] = queue'[j] => i = j
           /\ Range(queue') = Range(queue) \ {c}
           /\ \A d \in Callers \ {c} : Holds(d) => Holds(d)'
<1>1. queue \in Seq(Callers) /\ \A i, j \in DOMAIN queue : queue[i] = queue[j] => i = j
  BY DEF CallsInv
<1>2. CASE c \notin Range(queue)
  BY <1>1, <1>2 DEF Leaves, Range, Holds
<1>3. CASE c \in Range(queue)
  <2> DEFINE n == Len(queue)
  <2>1. PICK i \in 1..n : /\ queue[i] = c
                          /\ queue' = [j \in 1..(n - 1) |->
                                         IF j < i THEN queue[j] ELSE queue[j + 1]]
    <3> DEFINE i == CHOOSE i \in DOMAIN queue : queue[i] = c
    <3>1. i \in DOMAIN queue /\ queue[i] = c
      BY <1>3 DEF Range
    <3>2. DOMAIN queue = 1..n
      BY <1>1
    <3>3. queue' = [j \in 1..(n - 1) |-> IF j < i THEN queue[j] ELSE queue[j + 1]]
      BY <1>3 DEF Leaves
    <3> QED
      BY <3>1, <3>2, <3>3
  <2>2. n \in Nat /\ n >= 1 /\ DOMAIN queue = 1..n /\ \A j \in 1..n : queue[j] \in Callers
    BY <1>1, <2>1
  <2>3. \A j \in 1..(n - 1) : queue'[j] = IF j < i THEN queue[j] ELSE queue[j + 1]
    BY <2>1, <2>2
  <2>4. /\ queue' \in Seq(Callers) /\ Len(queue') = n - 1 /\ DOMAIN queue' = 1..(n - 1)
    <3>1. \A j \in 1..(n - 1) : (IF j < i THEN queue[j] ELSE queue[j + 1]) \in Callers
      BY <2>2
    <3> QED
      BY <2>1, <2>2, <3>1
  <2>5. ASSUME NEW j \in 1..(n - 1), NEW k \in 1..(n - 1), queue'[j] = queue'[k] PROVE j = k
    <3> DEFINE at(x) == IF x < i THEN x ELSE x + 1
    <3>1. \A x \in 1..(n - 1) : at(x) \in 1..n /\ queue'[x] = queue[at(x)]
      BY <2>2, <2>3
    <3>2. at(j) = at(k)
      <4> HIDE DEF at
      <4> QED
        BY <1>1, <2>2, <2>5, <3>1
    <3> QED
      BY <2>2, <3>2
  <2>6. Range(queue') = Range(queue) \ {c}
    <3>1. ASSUME NEW j \in 1..(n - 1) PROVE queue'[j] \in Range(queue) \ {c}
      BY <1>1, <2>1, <2>2, <2>3 DEF Range
    <3>2. ASSUME NEW d \in Range(queue) \ {c} PROVE \E j \in 1..(n - 1) : queue'[j] = d
      <4>1. PICK k \in 1..n : queue[k] = d
        BY <2>2 DEF Range
      <4>2. CASE k < i
        BY <2>1, <2>2, <2>3, <4>1, <4>2
      <4>3. CASE k > i
        <5>1. k - 1 \in 1..(n - 1) /\ ~(k - 1 < i) /\ (k - 1) + 1 = k
          BY <2>1, <2>2, <4>1, <4>3
        <5> QED
          BY Zenon, <2>3, <4>1, <5>1
      <4> QED
        BY <2>1, <4>1, <4>2, <4>3
    <3> QED
      BY Zenon, <2>4, <3>1, <3>2 DEF Range
  <2>7. ASSUME NEW d \in Callers \ {c}, Holds(d) PROVE Holds(d)'
    <3>1. queue[1] = d /\ i # 1
      BY <2>1, <2>7, HolderFirst
    <3>2. n - 1 >= 1 /\ 1 \in 1..(n - 1) /\ 1 < i
      BY <2>1, <2>2, <3>1
    <3> QED
      BY <2>3, <2>4, <3>1, <3>2 DEF Holds
  <2> QED
    BY <2>4, <2>5, <2>6, <2>7
<1> QED
  BY <1>2, <1>3

\* Joining the queue at its end.
LEMMA JoinsQueue ==
    ASSUME CallsInv, NEW c \in Callers, c \notin Range(queue), queue' = Append(queue, c)
    PROVE  /\ queue' \in Seq(Callers)
           /\ \A i, j \in DOMAIN queue' : queue'[i] = queue'[j] => i = j
           /\ Range(queue') = Range(queue) \union {c}
           /\ \A d \in Callers : Holds(d) => Holds(d)'
<1>1. queue \in Seq(Callers) /\ \A i, j \in DOMAIN queue : queue[i] = queue[j] => i = j
  BY DEF CallsInv
<1> DEFINE n == Len(queue)
<1>2. /\ n \in Nat /\ DOMAIN queue = 1..n /\ queue' \in Seq(Callers) /\ DOMAIN queue' = 1..(n + 1)
      /\ queue'[n + 1] = c /\ \A i \in 1..n : queue'[i] = queue[i]
  BY <1>1
<1>3. \A i \in 1..n : queue[i] # c
  BY <1>2 DEF Range
<1>4. \A i, j \in 1..(n + 1) : queue'[i] = queue'[j] => i = j
  BY <1>1, <1>2, <1>3
<1>5. Range(queue') = Range(queue) \union {c}
  BY <1>2 DEF Range
<1>6. \A d \in Callers : Holds(d) => Holds(d)'
  BY <1>1, <1>2 DEF Holds
<1> QED
  BY <1>2, <1>4, <1>5, <1>6

(***************************************************************************)
(* The calls.                                                              *)
(***************************************************************************)

\* An idle caller has the type of a call.
LEMMA NoCallRec == NoCall \in CallRec
<1>1. <<>> \in Text /\ <<>> \in Ids /\ 0 \in Nat
  BY DEF Text, Ids
<1> QED
  BY <1>1 DEF NoCall, Called, CallRec, Ops, Pcs

\* A call just made has the type of a call.
LEMMA CalledRec ==
    ASSUME NEW op \in Ops, NEW pc \in Pcs, NEW n \in Nat, NEW id \in Ids
    PROVE  Called(op, pc, n, id) \in CallRec
<1>1. <<>> \in Text
  BY DEF Text
<1> QED
  BY <1>1 DEF Called, CallRec

\* A part of a call's record has its type.
LEMMA RecTypes ==
    ASSUME CallsInv, NEW c \in Callers
    PROVE  /\ call[c] \in CallRec
           /\ call[c].op \in Ops /\ call[c].pc \in Pcs /\ call[c].n \in Nat
           /\ call[c].digest \in Text /\ call[c].id \in Ids
           /\ call[c].vec \in Vectors \union {<<>>}
BY DEF CallsInv, CallRec

\* The new time id is an id.
LEMMA UuidType ==
    ASSUME now \in 0..MaxNow
    PROVE  uuid_v4_placeholder \in Ids
<1>1. ASSUME NEW n \in Nat, NEW v \in Nat \ {0} PROVE n % v \in 0..n /\ n \div v \in 0..n
  OBVIOUS
<1>2. 16 * VersionBit \in Nat \ {0} /\ now \in Nat /\ 0..now \subseteq 0..MaxNow
  BY MemoryAssumption
<1>3. now % VersionBit \in 0..MaxNow /\ now \div (16 * VersionBit) \in 0..MaxNow
  BY <1>1, <1>2, MemoryAssumption
<1> QED
  BY <1>3 DEF uuid_v4_placeholder, Ids

\* Only one caller can have messages in hand: it holds the lock.
LEMMA OneDigest ==
    ASSUME CallsInv, NEW c \in Callers, NEW d \in Callers, Holds(c), c # d
    PROVE  call[d].digest = <<>>
BY DEF CallsInv, Coherent, Holds

\* A call that returns.
LEMMA ReturnCalls ==
    ASSUME CallsInv, NEW c \in Callers, Return(c)
    PROVE  CallsInv'
<1>1. call' = [call EXCEPT ![c] = NoCall] /\ Leaves(c) /\ call \in [Callers -> CallRec]
  BY DEF Return, CallsInv
<1>2. call' \in [Callers -> CallRec] /\ call'[c] = NoCall
      /\ \A d \in Callers \ {c} : call'[d] = call[d]
  BY <1>1, NoCallRec
<1>3. Coherent(c)'
  <2>1. c \notin Range(queue')
    BY <1>1, LeavesQueue
  <2>2. Increasing(<<>>)
    BY DEF Increasing
  <2> QED
    BY <1>2, <2>1, <2>2 DEF Coherent, NoCall, Called, BufferOps
<1>4. ASSUME NEW d \in Callers \ {c} PROVE Coherent(d)'
  <2>1. Coherent(d) /\ call'[d] = call[d]
    BY <1>2 DEF CallsInv
  <2>2. (d \in Range(queue') <=> d \in Range(queue)) /\ (Holds(d) => Holds(d)')
    BY <1>1, LeavesQueue
  <2> QED
    BY <2>1, <2>2 DEF Coherent, Increasing
<1> QED
  BY <1>1, <1>2, <1>3, <1>4, LeavesQueue DEF CallsInv

\* A call that starts at the buffer's lock.
LEMMA AskCalls ==
    ASSUME CallsInv, NEW c \in Callers, call[c].pc = "idle",
           NEW op \in BufferOps, NEW n \in Nat, AskShortTerm(c, op, n)
    PROVE  CallsInv'
<1> DEFINE r == Called(op, "short_term", n, <<>>)
<1>1. call' = [call EXCEPT ![c] = r] /\ queue' = Append(queue, c) /\ call \in [Callers -> CallRec]
  BY DEF AskShortTerm, CallsInv
<1>2. r \in CallRec
  BY CalledRec DEF BufferOps, Ops, Pcs, Ids
<1>3. call' \in [Callers -> CallRec] /\ call'[c] = r
      /\ \A d \in Callers \ {c} : call'[d] = call[d]
  BY <1>1, <1>2
<1>4. c \notin Range(queue)
  BY DEF CallsInv, Coherent, BufferOps
<1>5. Coherent(c)'
  <2>1. c \in Range(queue')
    BY <1>1, <1>4, JoinsQueue
  <2>2. Increasing(<<>>)
    BY DEF Increasing
  <2> QED
    BY <1>3, <2>1, <2>2 DEF Coherent, Called, BufferOps
<1>6. ASSUME NEW d \in Callers \ {c} PROVE Coherent(d)'
  <2>1. Coherent(d) /\ call'[d] = call[d]
    BY <1>3 DEF CallsInv
  <2>2. (d \in Range(queue') <=> d \in Range(queue)) /\ (Holds(d) => Holds(d)')
    BY <1>1, <1>4, JoinsQueue
  <2> QED
    BY <2>1, <2>2 DEF Coherent, Increasing
<1> QED
  BY <1>1, <1>3, <1>4, <1>5, <1>6, JoinsQueue DEF CallsInv

\* A call moves on, or starts away from the buffer's lock.
LEMMA MoveCalls ==
    ASSUME CallsInv, NEW c \in Callers, NEW r \in CallRec,
           call' = [call EXCEPT ![c] = r], UNCHANGED queue, Coherent(c)'
    PROVE  CallsInv'
<1>1. call \in [Callers -> CallRec]
  BY DEF CallsInv
<1>2. call' \in [Callers -> CallRec] /\ \A d \in Callers \ {c} : call'[d] = call[d]
  BY ZenonT(30), <1>1
<1>3. ASSUME NEW d \in Callers \ {c} PROVE Coherent(d)'
  <2>1. Coherent(d) /\ call'[d] = call[d]
    BY <1>2 DEF CallsInv
  <2> QED
    BY <2>1 DEF Coherent, Holds, Increasing
<1> QED
  BY <1>2, <1>3 DEF CallsInv

\* A call that starts with an embedding or at the episodes.
LEMMA StartCalls ==
    ASSUME CallsInv, NEW c \in Callers, call[c].pc = "idle",
           NEW op \in Ops \ (BufferOps \union {"none"}), NEW pc \in {"embedding", "episodic"},
           pc = "episodic" => op = "record_episode", NEW n \in Nat, NEW id \in Ids,
           call' = [call EXCEPT ![c] = Called(op, pc, n, id)], UNCHANGED queue
    PROVE  CallsInv'
<1> DEFINE r == Called(op, pc, n, id)
<1>1. r \in CallRec
  BY CalledRec DEF Pcs
<1>2. call'[c] = r
  BY DEF CallsInv
<1>3. c \notin Range(queue)
  BY DEF CallsInv, Coherent, BufferOps
<1>4. Increasing(<<>>)
  BY DEF Increasing
<1>5. Coherent(c)'
  BY <1>2, <1>3, <1>4 DEF Coherent, Called, BufferOps
<1> QED
  BY Zenon, <1>1, <1>5, MoveCalls

\* A segment of a sequence.
LEMMA Segment ==
    ASSUME NEW S, NEW s \in Seq(S), NEW a \in 1..(Len(s) + 1), NEW b \in 0..Len(s), a <= b + 1
    PROVE  /\ SubSeq(s, a, b) \in Seq(S) /\ DOMAIN SubSeq(s, a, b) = 1..(b - a + 1)
           /\ \A i \in 1..(b - a + 1) : SubSeq(s, a, b)[i] = s[i + a - 1]
OBVIOUS

\* A segment of a text is a text.
LEMMA SegmentText ==
    ASSUME NEW s \in Text, NEW a \in 1..(Len(s) + 1), NEW b \in 0..Len(s), a <= b + 1
    PROVE  /\ SubSeq(s, a, b) \in Text /\ DOMAIN SubSeq(s, a, b) = 1..(b - a + 1)
           /\ \A i \in 1..(b - a + 1) : SubSeq(s, a, b)[i] = s[i + a - 1]
<1> DEFINE S == 1..MaxSaid
<1>1. s \in Seq(S) /\ Text = Seq(S)
  BY DEF Text
<1> HIDE DEF S
<1> QED
  BY <1>1, Segment

\* truncate_older hands the older messages, in order, to the consolidation
\* that holds the lock.
LEMMA TruncateCalls ==
    ASSUME CallsInv, messages \in Text, Increasing(messages),
           NEW c \in Callers, TruncateOlder(c)
    PROVE  CallsInv'
<1> DEFINE split == Len(messages) - call[c].n
           older == SubSeq(messages, 1, split)
           r == [call[c] EXCEPT !.pc = "embedding", !.digest = older]
<1>1. Len(messages) \in Nat /\ split \in 1..Len(messages) /\ call[c] \in CallRec
  BY RecTypes DEF TruncateOlder, Text
<1>2. older \in Text /\ DOMAIN older = 1..split /\ \A i \in 1..split : older[i] = messages[i]
  <2>1. split \in 0..Len(messages) /\ 1 \in 1..(Len(messages) + 1) /\ 1 <= split + 1
    BY <1>1
  <2>2. /\ older \in Text /\ DOMAIN older = 1..(split - 1 + 1)
        /\ \A i \in 1..(split - 1 + 1) : older[i] = messages[i + 1 - 1]
    BY <2>1, SegmentText
  <2> QED
    BY <1>1, <2>2
<1>3. r \in CallRec
  BY Zenon, <1>1, <1>2 DEF CallRec, Pcs
<1>4. call' = [call EXCEPT ![c] = r] /\ UNCHANGED queue
  BY DEF TruncateOlder, CallsInv, CallRec
<1>5. r.op = "consolidate" /\ r.pc = "embedding" /\ r.digest = older /\ call'[c] = r
  BY <1>1, <1>4 DEF TruncateOlder, CallsInv, CallRec
<1>6. Increasing(older)
  BY <1>1, <1>2 DEF Increasing, Text
<1>7. Holds(c) /\ Holds(c)' /\ c \in Range(queue')
  BY <1>4 DEF TruncateOlder, Holds, CallsInv, Coherent, BufferOps
<1>8. Coherent(c)'
  BY <1>5, <1>6, <1>7 DEF Coherent, BufferOps
<1> QED
  BY Zenon, <1>3, <1>4, <1>8, MoveCalls

\* An embedding that arrives takes its call on and moves no message.
LEMMA AnswerCalls ==
    ASSUME CallsInv, now \in 0..MaxNow, NEW c \in Callers, EmbeddingAnswer(c)
    PROVE  /\ CallsInv'
           /\ \A d \in Callers : call'[d].digest = call[d].digest /\ call'[d].op = call[d].op
<1>1. PICK v \in Vectors :
          call' = [call EXCEPT ![c] = [@ EXCEPT !.pc = "long_term", !.vec = v,
                       !.id = IF call[c].op = "recall" THEN <<>>
                              ELSE uuid_v4_placeholder]]
  BY Zenon DEF EmbeddingAnswer
<1> DEFINE id == IF call[c].op = "recall" THEN <<>> ELSE uuid_v4_placeholder
           r == [call[c] EXCEPT !.pc = "long_term", !.vec = v, !.id = id]
<1>2. call[c] \in CallRec /\ id \in Ids
  BY RecTypes, UuidType DEF Ids
<1>3. r \in CallRec
  BY Zenon, <1>2 DEF CallRec, Pcs
<1>4. call' = [call EXCEPT ![c] = r] /\ UNCHANGED queue
  BY Zenon, <1>1 DEF EmbeddingAnswer, CallsInv
<1>5. /\ call'[c] = r /\ r.op = call[c].op /\ r.digest = call[c].digest /\ r.pc = "long_term"
      /\ r.vec = v /\ \A d \in Callers \ {c} : call'[d] = call[d]
  BY <1>2, <1>4 DEF CallsInv, CallRec
<1>6. Coherent(c)'
  BY <1>4, <1>5 DEF EmbeddingAnswer, Holds, CallsInv, Coherent, BufferOps, Increasing
<1> QED
  BY Zenon, <1>3, <1>4, <1>5, <1>6, MoveCalls

(***************************************************************************)
(* The stores.                                                             *)
(***************************************************************************)
\* The stores have their types; the messages that ever entered the buffer and
\* those that wait to are at most MaxSaid.
StoreInv ==
    /\ messages \in Text /\ episodes \in Seq(Ids) /\ now \in 0..MaxNow
    /\ entries \in Seq(EntryRec) /\ recalled \in Seq(Nat) /\ Len(recalled) = Len(entries)
    /\ said \in Nat /\ said + Pending("add_message") <= MaxSaid
    /\ lost \subseteq 1..MaxSaid /\ cleared \subseteq 1..MaxSaid

\* The positions of a sequence.
LEMMA Positions == ASSUME NEW S, NEW s \in Seq(S) PROVE DOMAIN s = 1..Len(s) /\ Len(s) \in Nat
OBVIOUS

\* A function on the first positions is a sequence.
LEMMA Tabulated ==
    ASSUME NEW S, NEW n \in Nat, NEW f \in [1..n -> S]
    PROVE  f \in Seq(S) /\ Len(f) = n
OBVIOUS

\* Positions past a split, counted from the split and from the start.
LEMMA PastSplit ==
    ASSUME NEW n \in Nat, NEW m \in 1..n,
           NEW i \in 1..(n - m), NEW j \in 1..(n - m), i < j
    PROVE  i + m \in 1..n /\ j + m \in 1..n /\ i + m < j + m
OBVIOUS

\* Sums as the access counts need them.
LEMMA Sums ==
    ASSUME NEW a \in Nat, NEW t \in Nat
    PROVE  (a + t) - 1 = (a - 1) + t /\ a + 0 = a /\ 0 + 0 = 0
OBVIOUS

\* What appending to a sequence does.
LEMMA Appended ==
    ASSUME NEW S, NEW s \in Seq(S), NEW e \in S
    PROVE  /\ Append(s, e) \in Seq(S) /\ Len(Append(s, e)) = Len(s) + 1
           /\ DOMAIN s = 1..Len(s) /\ DOMAIN Append(s, e) = 1..(Len(s) + 1) /\ Len(s) \in Nat
           /\ \A i \in 1..Len(s) : Append(s, e)[i] = s[i]
           /\ Append(s, e)[Len(s) + 1] = e
OBVIOUS

\* What a step leaves of StoreInv that does not write the stores.
LEMMA StoreKept ==
    ASSUME StoreInv, Pending("add_message")' <= Pending("add_message"),
           Pending("add_message") \in Nat, Pending("add_message")' \in Nat,
           UNCHANGED <<messages, entries, episodes, now, said, cleared, recalled>>,
           lost' \subseteq 1..MaxSaid
    PROVE  StoreInv'
<1>1. said' + Pending("add_message")' <= MaxSaid
  BY MemoryAssumption DEF StoreInv
<1> QED
  BY <1>1 DEF StoreInv

\* The number of pending calls of add_message is a number; it shrinks when
\* fewer callers are at it.
LEMMA PendingType ==
    /\ Pending("add_message") \in Nat
    /\ Pending("add_message")' \in Nat
<1> DEFINE P == {c \in Callers : call[c].op = "add_message"}
           Q == {c \in Callers : call'[c].op = "add_message"}
<1>1. IsFiniteSet(Callers) /\ P \in SUBSET Callers /\ Q \in SUBSET Callers
  BY MemoryAssumption
<1>2. IsFiniteSet(P) /\ IsFiniteSet(Q)
  BY <1>1, FS_Subset
<1>3. Cardinality(P) \in Nat /\ Cardinality(Q) \in Nat
  BY <1>2, FS_CardinalityType
<1>4. Pending("add_message") = Cardinality(P) /\ Pending("add_message")' = Cardinality(Q)
  BY DEF Pending
<1> QED
  BY <1>3, <1>4

\* While no caller asks to add a message, no more of them wait.
LEMMA PendingShrinks ==
    ASSUME \A c \in Callers : call'[c].op = "add_message" => call[c].op = "add_message"
    PROVE  Pending("add_message")' <= Pending("add_message")
<1> DEFINE P == {c \in Callers : call[c].op = "add_message"}
           Q == {c \in Callers : call'[c].op = "add_message"}
<1>1. IsFiniteSet(Callers) /\ P \in SUBSET Callers /\ Q \in SUBSET P
  BY MemoryAssumption
<1>2. IsFiniteSet(P)
  BY <1>1, FS_Subset
<1>3. Cardinality(Q) <= Cardinality(P)
  BY <1>1, <1>2, FS_Subset
<1>4. Pending("add_message") = Cardinality(P) /\ Pending("add_message")' = Cardinality(Q)
  BY DEF Pending
<1> QED
  BY <1>3, <1>4

\* While no message enters the buffer or asks to, the bound on them is kept.
LEMMA SaidKept ==
    ASSUME StoreInv, said' = said, Pending("add_message")' <= Pending("add_message")
    PROVE  said' + Pending("add_message")' <= MaxSaid
<1>1. said \in Nat /\ said + Pending("add_message") <= MaxSaid /\ MaxSaid \in Nat
  BY MemoryAssumption DEF StoreInv
<1> QED
  BY <1>1, PendingType

\* A step of one caller adds at most one message that waits, and takes one
\* away when it was the one that waited.
LEMMA PendingGrows ==
    ASSUME NEW c \in Callers, \A d \in Callers \ {c} : call'[d].op = call[d].op
    PROVE  /\ Pending("add_message")' <= Pending("add_message") + 1
           /\ call[c].op = "add_message" /\ call'[c].op # "add_message"
              => Pending("add_message")' = Pending("add_message") - 1
<1> DEFINE P == {d \in Callers : call[d].op = "add_message"}
           Q == {d \in Callers : call'[d].op = "add_message"}
<1>1. IsFiniteSet(Callers) /\ P \in SUBSET Callers
  BY MemoryAssumption
<1>2. IsFiniteSet(P)
  BY <1>1, FS_Subset
<1>3. /\ IsFiniteSet(P \union {c})
      /\ Cardinality(P \union {c}) = IF c \in P THEN Cardinality(P) ELSE Cardinality(P) + 1
  BY <1>2, FS_AddElement
<1>4. Q \in SUBSET (P \union {c})
  OBVIOUS
<1>5. Cardinality(Q) <= Cardinality(P \union {c}) /\ Cardinality(P) \in Nat /\ Cardinality(Q) \in Nat
  <2>1. IsFiniteSet(Q) /\ Cardinality(Q) <= Cardinality(P \union {c})
    BY <1>3, <1>4, FS_Subset
  <2> QED
    BY <1>2, <2>1, FS_CardinalityType
<1>6. Cardinality(P \ {c}) = IF c \in P THEN Cardinality(P) - 1 ELSE Cardinality(P)
  BY Zenon, <1>2, FS_RemoveElement
<1>7. ASSUME call[c].op = "add_message", call'[c].op # "add_message"
      PROVE  Q = P \ {c} /\ c \in P
  BY <1>7
<1>8. Pending("add_message") = Cardinality(P) /\ Pending("add_message")' = Cardinality(Q)
  BY DEF Pending
<1>9. Cardinality(Q) <= Cardinality(P) + 1
  BY <1>3, <1>5
<1>10. call[c].op = "add_message" /\ call'[c].op # "add_message"
       => Cardinality(Q) = Cardinality(P) - 1
  BY Zenon, <1>6, <1>7
<1> QED
  BY <1>8, <1>9, <1>10

\* Once a call has returned, it is at nothing.
LEMMA ReturnOps ==
    ASSUME CallsInv, NEW c \in Callers, Return(c)
    PROVE  /\ call'[c].op = "none" /\ call'[c].digest = <<>>
           /\ \A d \in Callers \ {c} : call'[d] = call[d]
           /\ \A d \in Callers : call'[d].op = "add_message" => call[d].op = "add_message"
<1>1. call' = [call EXCEPT ![c] = NoCall] /\ call \in [Callers -> CallRec]
  BY DEF Return, CallsInv
<1>2. call'[c] = NoCall /\ \A d \in Callers \ {c} : call'[d] = call[d]
  BY <1>1
<1>3. NoCall.op = "none" /\ NoCall.digest = <<>>
  BY DEF NoCall, Called
<1>4. ASSUME NEW d \in Callers, call'[d].op = "add_message" PROVE call[d].op = "add_message"
  <2>1. d # c
    BY ZenonT(30), <1>2, <1>3, <1>4
  <2> QED
    BY <1>2, <1>4, <2>1
<1> QED
  BY <1>2, <1>3, <1>4

\* What a recall touches keeps its type.
Times(results, k) == Cardinality({r \in DOMAIN results : EntryOf(entries[results[r]].id) = k})

\* touch_entry leaves all of an entry but its access count, which grows by the
\* number of results that resolve to it.
LEMMA TouchType ==
    ASSUME entries \in Seq(EntryRec), NEW results, NEW size \in Nat, DOMAIN results = 1..size
    PROVE  /\ touch_entry(results) \in Seq(EntryRec)
           /\ Len(touch_entry(results)) = Len(entries)
           /\ \A k \in DOMAIN entries :
                 /\ touch_entry(results)[k].content = entries[k].content
                 /\ touch_entry(results)[k].id = entries[k].id
                 /\ touch_entry(results)[k].embedding = entries[k].embedding
                 /\ touch_entry(results)[k].access_count = entries[k].access_count + Times(results, k)
           /\ \A k \in DOMAIN entries : Times(results, k) \in Nat
<1> DEFINE times(k) == Times(results, k)
           e(k) == [entries[k] EXCEPT !.access_count = @ + times(k)]
<1>1. IsFiniteSet(1..size)
  BY FS_Interval
<1>2. ASSUME NEW k \in DOMAIN entries PROVE times(k) \in Nat
  <2>1. {r \in DOMAIN results : EntryOf(entries[results[r]].id) = k} \in SUBSET (1..size)
    OBVIOUS
  <2> QED
    BY <1>1, <2>1, FS_Subset, FS_CardinalityType DEF Times
<1>3. ASSUME NEW k \in DOMAIN entries
      PROVE  /\ e(k) \in EntryRec /\ e(k).content = entries[k].content /\ e(k).id = entries[k].id
             /\ e(k).embedding = entries[k].embedding
             /\ e(k).access_count = entries[k].access_count + times(k)
  <2>1. entries[k] \in EntryRec /\ times(k) \in Nat
    BY <1>2, <1>3
  <2>2. ASSUME NEW r \in EntryRec, NEW n \in Nat
        PROVE  LET s == [r EXCEPT !.access_count = @ + n]
               IN  /\ s \in EntryRec /\ s.content = r.content /\ s.id = r.id
                   /\ s.embedding = r.embedding /\ s.access_count = r.access_count + n
    BY DEF EntryRec
  <2> QED
    BY <2>1, <2>2
<1>4. touch_entry(results) = [k \in DOMAIN entries |-> e(k)]
  BY DEF touch_entry, Times
<1>5. DOMAIN entries = 1..Len(entries) /\ Len(entries) \in Nat
  OBVIOUS
<1> HIDE DEF e
<1>6. [k \in DOMAIN entries |-> e(k)] \in Seq(EntryRec) /\ Len([k \in DOMAIN entries |-> e(k)]) = Len(entries)
  BY <1>3, <1>5
<1> QED
  BY <1>2, <1>3, <1>4, <1>6

(***************************************************************************)
(* Where the messages are.                                                 *)
(***************************************************************************)

\* The digests in hand and those stored, as membership.
LEMMA InHandIs ==
    \A x : /\ x \in InHand <=> \E c \in Callers : x \in Range(call[c].digest)
           /\ x \in InHand' <=> \E c \in Callers : x \in Range(call'[c].digest)
BY DEF InHand

\* Membership in Stored, before and after a step.
LEMMA StoredIs ==
    \A x : /\ x \in Stored <=> \E i \in DOMAIN entries : x \in Range(entries[i].content)
           /\ x \in Stored' <=> \E i \in DOMAIN entries' : x \in Range(entries'[i].content)
BY DEF Stored

\* Messages are numbers.
LEMMA PlacesType ==
    ASSUME CallsInv, StoreInv
    PROVE  /\ Range(messages) \subseteq 1..MaxSaid /\ InHand \subseteq 1..MaxSaid
           /\ Stored \subseteq 1..MaxSaid
           /\ MaxSaid \in Nat
<1>1. ASSUME NEW s \in Text PROVE Range(s) \subseteq 1..MaxSaid
  <2> DEFINE S == 1..MaxSaid
  <2>1. s \in Seq(S)
    BY DEF Text
  <2> HIDE DEF S
  <2>2. Range(s) \subseteq S
    BY <2>1 DEF Range
  <2> QED
    BY <2>2 DEF S
<1>2. Range(messages) \subseteq 1..MaxSaid
  BY <1>1 DEF StoreInv
<1>3. ASSUME NEW x \in InHand PROVE x \in 1..MaxSaid
  <2>1. PICK c \in Callers : x \in Range(call[c].digest)
    BY <1>3, InHandIs
  <2> QED
    BY <1>1, <2>1, RecTypes
<1>4. ASSUME NEW x \in Stored PROVE x \in 1..MaxSaid
  <2>1. PICK i \in DOMAIN entries : x \in Range(entries[i].content)
    BY <1>4, StoredIs
  <2>2. entries[i] \in EntryRec
    BY DEF StoreInv
  <2>3. entries[i].content \in Text
    BY <2>2 DEF EntryRec
  <2> QED
    BY <1>1, <2>1, <2>3
<1> QED
  BY <1>2, <1>3, <1>4, MemoryAssumption

\* A step that moves no message.
LEMMA PlacesKept ==
    ASSUME MessagesAccounted, ConversationOrdered,
           UNCHANGED <<messages, said, lost, cleared>>,
           \A c \in Callers : call'[c].digest = call[c].digest,
           DOMAIN entries' = DOMAIN entries,
           \A i \in DOMAIN entries : entries'[i].content = entries[i].content
    PROVE  MessagesAccounted' /\ ConversationOrdered'
<1>1. InHand' = InHand
  BY Zenon, InHandIs
<1>2. Stored' = Stored
  BY Zenon, StoredIs
<1>3. MessagesAccounted'
  BY <1>1, <1>2 DEF MessagesAccounted, AllBelow
<1>4. ConversationOrdered'
  BY Zenon, <1>1, <1>2 DEF ConversationOrdered, AllBelow, Increasing
<1> QED
  BY <1>3, <1>4

\* A call that returns gives up what it has in hand: all there is, or nothing.
LEMMA HandEmptied ==
    ASSUME CallsInv, NEW c \in Callers, Return(c)
    PROVE  /\ InHand = InHand' \union Range(call[c].digest)
           /\ Range(call[c].digest) = {} \/ InHand' = {}
           /\ call[c].digest = <<>> => \A d \in Callers : call'[d].digest = call[d].digest
<1>1. call'[c].digest = <<>> /\ \A d \in Callers \ {c} : call'[d] = call[d]
  BY ReturnOps
<1>2. Range(<<>>) = {}
  BY DEF Range
<1>3. InHand = InHand' \union Range(call[c].digest)
  <2>1. ASSUME NEW x \in InHand PROVE x \in InHand' \union Range(call[c].digest)
    BY <1>1, <2>1, InHandIs
  <2>2. ASSUME NEW x \in InHand' PROVE x \in InHand
    BY <1>1, <1>2, <2>2, InHandIs
  <2>3. ASSUME NEW x \in Range(call[c].digest) PROVE x \in InHand
    BY <2>3, InHandIs
  <2> QED
    BY <2>1, <2>2, <2>3
<1>4. CASE call[c].digest = <<>>
  BY <1>1, <1>2, <1>3, <1>4
<1>5. CASE call[c].digest # <<>>
  <2>1. Holds(c)
    BY <1>5 DEF CallsInv, Coherent
  <2>2. \A d \in Callers : call'[d].digest = <<>>
    BY <1>1, <2>1, OneDigest
  <2>3. InHand' = {}
    BY <1>2, <2>2, InHandIs
  <2> QED
    BY ZenonT(30), <1>3, <1>5, <2>3
<1> QED
  BY <1>4, <1>5

\* add_message: the new message is after all others.
LEMMA AddPlaces ==
    ASSUME CallsInv, StoreInv, MessagesAccounted, ConversationOrdered,
           NEW c \in Callers, AddMessage(c)
    PROVE  MessagesAccounted' /\ ConversationOrdered'
<1>1. /\ call[c].digest = <<>> /\ Return(c) /\ said \in Nat /\ messages \in Text
      /\ UNCHANGED <<entries, lost, cleared>>
  BY DEF CallsInv, Coherent, AddMessage, StoreInv
<1>2. InHand' = InHand /\ Stored' = Stored
  <2>1. Range(<<>>) = {}
    BY DEF Range
  <2> QED
    BY Zenon, <1>1, <2>1, HandEmptied, StoredIs
<1> DEFINE n == Len(messages)
<1>3. /\ n \in Nat /\ DOMAIN messages = 1..n /\ DOMAIN messages' = 1..(n + 1)
      /\ messages'[n + 1] = said + 1 /\ \A i \in 1..n : messages'[i] = messages[i]
      /\ said' = said + 1
  BY <1>1 DEF AddMessage, Text
<1>4. Range(messages') = Range(messages) \union {said + 1}
  BY <1>3 DEF Range
<1>5. Range(messages) \union InHand \union Stored \union lost \union cleared = 1..said
  BY DEF MessagesAccounted
<1>6. MessagesAccounted'
  <2>1. 1..said' = (1..said) \union {said + 1}
    BY <1>1, <1>3
  <2>2. 1..said' = Range(messages') \union InHand' \union Stored' \union lost' \union cleared'
    BY ZenonT(30), <1>1, <1>2, <1>4, <1>5, <2>1
  <2>3. AllBelow(Stored' \union InHand' \union lost' \union cleared', Range(messages'))
    <3>1. AllBelow(Stored \union InHand \union lost \union cleared, Range(messages))
      BY DEF MessagesAccounted
    <3>2. \A x \in Stored \union InHand \union lost \union cleared : x < said + 1
      BY <1>1, <1>5
    <3> QED
      BY ZenonT(30), <1>1, <1>2, <1>4, <3>1, <3>2 DEF AllBelow
  <2> QED
    BY <1>1, <1>2, <2>2, <2>3 DEF MessagesAccounted
<1>7. Increasing(messages')
  <2>1. Increasing(messages) /\ \A i \in 1..n : messages[i] \in 1..said
    BY <1>3, <1>5 DEF ConversationOrdered, Range
  <2>2. ASSUME NEW i \in 1..(n + 1), NEW j \in 1..(n + 1), i < j
        PROVE  messages'[i] < messages'[j]
    <3>1. i \in 1..n /\ messages'[i] = messages[i] /\ messages[i] \in 1..said
      BY <1>3, <2>1, <2>2
    <3>2. CASE j = n + 1
      <4>1. messages'[j] = said + 1 /\ said \in Nat
        BY <1>1, <1>3, <3>2
      <4> QED
        BY <3>1, <4>1
    <3>3. CASE j \in 1..n
      BY ZenonT(30), <1>3, <2>1, <2>2, <3>1, <3>3 DEF Increasing
    <3> QED
      BY <1>3, <3>2, <3>3
  <2> QED
    BY <1>3, <2>2 DEF Increasing
<1>8. ConversationOrdered'
  BY Zenon, <1>1, <1>2, <1>7 DEF ConversationOrdered
<1> QED
  BY ZenonT(30), <1>6, <1>8

\* clear: the whole buffer joins the cleared messages.
LEMMA ClearPlaces ==
    ASSUME CallsInv, StoreInv, MessagesAccounted, ConversationOrdered,
           NEW c \in Callers, Clear(c)
    PROVE  MessagesAccounted' /\ ConversationOrdered'
<1>1. /\ call[c].digest = <<>> /\ Return(c) /\ messages' = <<>>
      /\ cleared' = cleared \union Range(messages) /\ UNCHANGED <<entries, lost, said>>
  BY DEF CallsInv, Coherent, Clear
<1>2. Range(messages') = {} /\ Range(<<>>) = {}
  BY <1>1 DEF Range
<1>3. InHand' = InHand /\ Stored' = Stored
  BY ZenonT(30), <1>1, <1>2, HandEmptied, StoredIs
<1>4. Range(messages) \intersect (Stored \union InHand \union lost \union cleared) = {}
  BY PlacesType DEF MessagesAccounted, AllBelow
<1>5. MessagesAccounted'
  BY <1>1, <1>2, <1>3, <1>4 DEF MessagesAccounted, AllBelow
<1>6. Increasing(messages')
  BY <1>1 DEF Increasing
<1>7. ConversationOrdered'
  BY <1>1, <1>3, <1>6 DEF ConversationOrdered
<1> QED
  BY <1>5, <1>7

\* consolidate, first half: the older part of the buffer is in hand, where
\* nothing was before.
LEMMA TruncatePlaces ==
    ASSUME CallsInv, StoreInv, MessagesAccounted, ConversationOrdered,
           NEW c \in Callers, TruncateOlder(c)
    PROVE  MessagesAccounted' /\ ConversationOrdered' /\ messages' \in Text
<1> DEFINE n == Len(messages)
           split == n - call[c].n
           older == SubSeq(messages, 1, split)
           newer == SubSeq(messages, split + 1, n)
<1>1. n \in Nat /\ split \in 1..n /\ messages \in Text /\ DOMAIN messages = 1..n
  <2>1. messages \in Text /\ call[c].n \in Nat /\ n > call[c].n
    BY RecTypes DEF TruncateOlder, StoreInv
  <2>2. n \in Nat /\ DOMAIN messages = 1..n
    BY <2>1 DEF Text
  <2> QED
    BY <2>1, <2>2
<1>2. DOMAIN older = 1..split /\ \A i \in 1..split : older[i] = messages[i]
  <2>1. split \in 0..n /\ 1 \in 1..(n + 1) /\ 1 <= split + 1
    BY <1>1
  <2>2. /\ DOMAIN older = 1..(split - 1 + 1)
        /\ \A i \in 1..(split - 1 + 1) : older[i] = messages[i + 1 - 1]
    BY <1>1, <2>1, SegmentText
  <2> QED
    BY <1>1, <2>2
<1>3. /\ newer \in Text /\ DOMAIN newer = 1..(n - split)
      /\ \A i \in 1..(n - split) : newer[i] = messages[i + split]
  <2>1. split + 1 \in 1..(n + 1) /\ n \in 0..n /\ split + 1 <= n + 1
    BY <1>1
  <2>2. /\ newer \in Text /\ DOMAIN newer = 1..(n - (split + 1) + 1)
        /\ \A i \in 1..(n - (split + 1) + 1) : newer[i] = messages[i + (split + 1) - 1]
    BY ZenonT(30), <1>1, <2>1, SegmentText
  <2>3. n - (split + 1) + 1 = n - split /\ \A i \in Int : i + (split + 1) - 1 = i + split
    BY <1>1
  <2>4. DOMAIN newer = 1..(n - split)
    BY <2>2, <2>3
  <2>5. ASSUME NEW i \in 1..(n - split) PROVE newer[i] = messages[i + split]
    <3>1. i \in Int /\ i \in 1..(n - (split + 1) + 1)
      BY <2>3
    <3> QED
      BY Zenon, <2>2, <2>3, <3>1
  <2> QED
    BY Zenon, <2>2, <2>4, <2>5
<1>4. /\ call'[c].digest = older /\ messages' = newer
      /\ UNCHANGED <<entries, said, lost, cleared>>
      /\ \A d \in Callers \ {c} : call'[d] = call[d] /\ call[d].digest = <<>>
      /\ call[c].digest = <<>>
  <2>1. call[c].digest = <<>> /\ Holds(c)
    BY DEF TruncateOlder, CallsInv, Coherent
  <2>2. /\ call' = [call EXCEPT ![c] = [@ EXCEPT !.pc = "embedding", !.digest = older]]
        /\ messages' = newer /\ UNCHANGED <<entries, said, lost, cleared>>
    BY DEF TruncateOlder
  <2>3. call'[c].digest = older /\ \A d \in Callers \ {c} : call'[d] = call[d]
    BY <2>2 DEF CallsInv, CallRec
  <2> QED
    BY Zenon, <2>1, <2>2, <2>3, OneDigest
<1> HIDE DEF older, newer
<1>5. InHand = {} /\ InHand' = Range(older) /\ Stored' = Stored
  <2>1. Range(<<>>) = {}
    BY DEF Range
  <2>2. InHand = {}
    BY <1>4, <2>1, InHandIs
  <2>3. \A x : x \in InHand' <=> x \in Range(older)
    BY <1>4, <2>1, InHandIs
  <2> QED
    BY ZenonT(30), <1>4, <2>2, <2>3, StoredIs
<1>6. Range(messages) = Range(older) \union Range(newer)
  <2>1. ASSUME NEW i \in 1..n PROVE messages[i] \in Range(older) \union Range(newer)
    <3>1. CASE i <= split
      BY <1>1, <1>2, <3>1 DEF Range
    <3>2. CASE i > split
      <4>1. i - split \in 1..(n - split) /\ (i - split) + split = i
        BY <1>1, <3>2
      <4> QED
        BY <1>3, <4>1 DEF Range
    <3>3. i <= split \/ i > split
      BY <1>1
    <3> QED
      BY ZenonT(30), <3>1, <3>2, <3>3
  <2>2. ASSUME NEW i \in 1..split PROVE older[i] \in Range(messages)
    <3>1. i \in 1..n
      BY <1>1
    <3> QED
      BY <1>1, <1>2, <3>1 DEF Range
  <2>3. ASSUME NEW i \in 1..(n - split) PROVE newer[i] \in Range(messages)
    <3>1. i + split \in 1..n /\ newer[i] = messages[i + split]
      BY <1>1, <1>3
    <3> QED
      BY ZenonT(30), <1>1, <3>1 DEF Range
  <2>4. Range(messages) \subseteq Range(older) \union Range(newer)
    BY <1>1, <2>1 DEF Range
  <2>5. ASSUME NEW x \in Range(older) PROVE x \in Range(messages)
    <3>1. PICK i \in 1..split : x = older[i]
      BY <1>2 DEF Range
    <3> QED
      BY <2>2, <3>1
  <2>6. ASSUME NEW x \in Range(newer) PROVE x \in Range(messages)
    <3>1. PICK i \in 1..(n - split) : x = newer[i]
      BY Zenon, <1>3 DEF Range
    <3> QED
      BY <2>3, <3>1
  <2> QED
    BY Zenon, <2>4, <2>5, <2>6
<1>7. AllBelow(Range(older), Range(newer)) /\ Increasing(newer)
  <2>1. Increasing(messages)
    BY DEF ConversationOrdered
  <2>2. ASSUME NEW i \in 1..split, NEW j \in 1..(n - split) PROVE older[i] < newer[j]
    <3>1. i \in 1..n /\ j + split \in 1..n /\ i < j + split
      BY <1>1
    <3> QED
      BY ZenonT(30), <1>1, <1>2, <1>3, <2>1, <3>1 DEF Increasing
  <2>3. ASSUME NEW i \in 1..(n - split), NEW j \in 1..(n - split), i < j PROVE newer[i] < newer[j]
    <3>1. i + split \in 1..n /\ j + split \in 1..n /\ i + split < j + split
      BY Zenon, <1>1, <2>3, PastSplit
    <3> QED
      BY Zenon, <1>1, <1>3, <2>1, <3>1 DEF Increasing
  <2> QED
    BY <1>2, <1>3, <2>2, <2>3 DEF AllBelow, Increasing, Range
<1>8. Range(messages) \intersect (Stored \union lost \union cleared) = {}
  BY PlacesType DEF MessagesAccounted, AllBelow
<1>9. MessagesAccounted'
  BY Zenon, <1>4, <1>5, <1>6, <1>7, <1>8 DEF MessagesAccounted, AllBelow
<1>10. AllBelow(Stored', InHand')
  BY ZenonT(30), <1>4, <1>5, <1>6 DEF MessagesAccounted, AllBelow
<1>11. ConversationOrdered'
  BY <1>4, <1>7, <1>10 DEF ConversationOrdered
<1> QED
  BY <1>3, <1>4, <1>9, <1>11

\* A call that fails or is dropped loses what it has in hand.
LEMMA LosePlaces ==
    ASSUME CallsInv, StoreInv, MessagesAccounted, ConversationOrdered,
           NEW c \in Callers, EmbeddingFailed(c) \/ Drop(c)
    PROVE  MessagesAccounted' /\ ConversationOrdered'
<1> DEFINE D == Range(call[c].digest)
<1>1. Return(c) /\ lost' = lost \union D /\ UNCHANGED <<messages, entries, said, cleared>>
  BY DEF EmbeddingFailed, Drop
<1>2. InHand = InHand' \union D /\ (D = {} \/ InHand' = {})
  BY <1>1, HandEmptied
<1>3. Stored' = Stored
  BY ZenonT(30), <1>1, StoredIs
<1> HIDE DEF D
<1>4. MessagesAccounted'
  BY <1>1, <1>2, <1>3 DEF MessagesAccounted, AllBelow
<1>5. ConversationOrdered'
  BY ZenonT(30), <1>1, <1>2, <1>3 DEF ConversationOrdered, AllBelow
<1> QED
  BY <1>4, <1>5

\* An entry is added at the end, with its counts; the others stay.
LEMMA InsertEffect ==
    ASSUME CallsInv, StoreInv, NEW c \in Callers, Insert(c)
    PROVE  LET n == Len(entries)
           IN  /\ n \in Nat /\ DOMAIN entries = 1..n /\ DOMAIN entries' = 1..(n + 1)
               /\ Len(entries') = n + 1
               /\ \A i \in 1..n : entries'[i] = entries[i] /\ recalled'[i] = recalled[i]
               /\ entries'[n + 1].content = call[c].digest
               /\ entries'[n + 1].access_count = 1 /\ recalled'[n + 1] = 0
<1> DEFINE n == Len(entries)
           e == [id |-> call[c].id, content |-> call[c].digest,
                 embedding |-> call[c].vec, access_count |-> 1]
<1>1. e \in EntryRec
  <2>1. call[c].id \in Ids /\ call[c].digest \in Text
    BY ZenonT(30), RecTypes
  <2>2. call[c].vec \in Vectors
    BY DEF Insert, CallsInv, Coherent
  <2> QED
    BY <2>1, <2>2 DEF EntryRec
<1>2. entries' = Append(entries, e) /\ recalled' = Append(recalled, 0)
  BY DEF Insert
<1>3. entries \in Seq(EntryRec) /\ recalled \in Seq(Nat) /\ Len(recalled) = n
  BY DEF StoreInv
<1>4. e.content = call[c].digest /\ e.access_count = 1
  OBVIOUS
<1> HIDE DEF e
<1>5. /\ n \in Nat /\ DOMAIN entries = 1..n /\ DOMAIN entries' = 1..(n + 1)
      /\ Len(entries') = n + 1 /\ entries'[n + 1] = e
      /\ \A i \in 1..n : entries'[i] = entries[i]
  BY <1>1, <1>2, <1>3, Appended
<1>6. recalled'[n + 1] = 0 /\ \A i \in 1..n : recalled'[i] = recalled[i]
  BY <1>2, <1>3, Appended
<1> QED
  BY <1>4, <1>5, <1>6

\* consolidate, second half, and remember_fact: what is in hand is stored.
LEMMA InsertPlaces ==
    ASSUME CallsInv, StoreInv, MessagesAccounted, ConversationOrdered,
           NEW c \in Callers, Insert(c)
    PROVE  MessagesAccounted' /\ ConversationOrdered'
<1> DEFINE D == Range(call[c].digest)
           n == Len(entries)
<1>1. Return(c) /\ UNCHANGED <<messages, said, lost, cleared>>
  BY DEF Insert
<1>2. InHand = InHand' \union D /\ (D = {} \/ InHand' = {})
  BY ZenonT(30), <1>1, HandEmptied
<1>3. /\ n \in Nat /\ DOMAIN entries = 1..n /\ DOMAIN entries' = 1..(n + 1)
      /\ \A i \in 1..n : entries'[i] = entries[i]
      /\ entries'[n + 1].content = call[c].digest
  BY InsertEffect
<1>4. Stored' = Stored \union D
  <2>1. ASSUME NEW x \in Stored' PROVE x \in Stored \union D
    <3>1. PICK i \in 1..(n + 1) : x \in Range(entries'[i].content)
      BY Zenon, <1>3, <2>1, StoredIs
    <3>2. CASE i = n + 1
      BY Zenon, <1>3, <3>1, <3>2
    <3>3. CASE i \in 1..n
      BY Zenon, <1>3, <3>1, <3>3, StoredIs
    <3>4. i = n + 1 \/ i \in 1..n
      BY <1>3
    <3> QED
      BY Zenon, <3>2, <3>3, <3>4
  <2>2. ASSUME NEW x \in Stored \union D PROVE x \in Stored'
    BY <1>3, <2>2, StoredIs
  <2> QED
    BY <2>1, <2>2
<1>5. Increasing(call[c].digest)
  BY Zenon DEF CallsInv, Coherent
<1>6. MessagesAccounted'
  <2> HIDE DEF D
  <2> QED
    BY Zenon, <1>1, <1>2, <1>4 DEF MessagesAccounted, AllBelow
<1>7. AllBelow(Stored', InHand')
  <2> HIDE DEF D
  <2> QED
    BY <1>2, <1>4 DEF ConversationOrdered, AllBelow
<1>8. ASSUME NEW i \in 1..(n + 1)
      PROVE  /\ Increasing(entries'[i].content)
             /\ \A j \in 1..(n + 1) :
                   i < j => AllBelow(Range(entries'[i].content), Range(entries'[j].content))
  <2>1. CASE i = n + 1
    BY <1>3, <1>5, <2>1
  <2>2. CASE i \in 1..n
    <3>1. Increasing(entries'[i].content)
      BY Zenon, <1>3, <2>2 DEF ConversationOrdered
    <3>2. ASSUME NEW j \in 1..n, i < j
          PROVE  AllBelow(Range(entries'[i].content), Range(entries'[j].content))
      BY Zenon, <1>3, <2>2, <3>2 DEF ConversationOrdered
    <3>3. AllBelow(Range(entries'[i].content), Range(entries'[n + 1].content))
      <4>1. Range(entries'[i].content) \subseteq Stored /\ D \subseteq InHand
        BY <1>2, <1>3, <2>2, StoredIs
      <4> QED
        BY ZenonT(30), <1>3, <4>1 DEF ConversationOrdered, AllBelow
    <3> QED
      BY <1>3, <3>1, <3>2, <3>3
  <2>3. i = n + 1 \/ i \in 1..n
    BY <1>3
  <2> QED
    BY <2>1, <2>2, <2>3
<1>9. ConversationOrdered'
  BY Zenon, <1>1, <1>3, <1>7, <1>8 DEF ConversationOrdered
<1> QED
  BY <1>6, <1>9

(***************************************************************************)
(* The invariant and its steps.                                            *)
(***************************************************************************)
MemoryInv == CallsInv /\ StoreInv /\ MessagesAccounted /\ ConversationOrdered

\* The invariant holds of an AgentMemorySystem that was just made.
LEMMA MemoryInit == Init => MemoryInv
<1> SUFFICES ASSUME Init PROVE MemoryInv
  OBVIOUS
<1>1. /\ call = [c \in Callers |-> NoCall] /\ messages = <<>> /\ queue = <<>> /\ entries = <<>>
      /\ episodes = <<>> /\ now = 0 /\ said = 0 /\ lost = {} /\ cleared = {} /\ recalled = <<>>
  BY DEF Init
<1>2. \A c \in Callers : call[c] = NoCall /\ call[c].digest = <<>> /\ call[c].op = "none"
                         /\ call[c].pc = "idle"
  BY <1>1 DEF NoCall, Called
<1>3. Range(<<>>) = {} /\ Increasing(<<>>)
  BY DEF Range, Increasing
<1>4. CallsInv
  <2>1. call \in [Callers -> CallRec]
    BY ZenonT(30), <1>1, NoCallRec
  <2>2. \A c \in Callers : Coherent(c)
    BY <1>1, <1>2, <1>3 DEF Coherent, BufferOps
  <2>3. queue \in Seq(Callers) /\ \A i, j \in DOMAIN queue : queue[i] = queue[j] => i = j
    BY <1>1
  <2> QED
    BY <2>1, <2>2, <2>3 DEF CallsInv
<1>5. Pending("add_message") = 0
  <2>1. {c \in Callers : call[c].op = "add_message"} = {}
    BY <1>2
  <2> QED
    BY Zenon, <2>1, FS_EmptySet DEF Pending
<1>6. StoreInv
  BY <1>1, <1>5, MemoryAssumption DEF StoreInv, Text
<1>7. InHand = {} /\ Stored = {}
  <2>1. InHand = {}
    BY <1>2, <1>3, InHandIs
  <2>2. DOMAIN entries = {}
    BY <1>1
  <2>3. Stored = {}
    BY <2>2, StoredIs
  <2> QED
    BY <2>1, <2>3
<1>8. MessagesAccounted
  BY <1>1, <1>3, <1>7 DEF MessagesAccounted, AllBelow
<1>9. ConversationOrdered
  BY <1>1, <1>3, <1>7 DEF ConversationOrdered, AllBelow
<1> QED
  BY <1>4, <1>6, <1>8, <1>9 DEF MemoryInv

\* A step that only starts or moves a call.
LEMMA OnlyCalls ==
    ASSUME MemoryInv, CallsInv',
           UNCHANGED <<messages, entries, episodes, now, said, lost, cleared, recalled>>,
           \A c \in Callers : call'[c].digest = call[c].digest,
           Pending("add_message")' <= Pending("add_message") \/ said + Pending("add_message")' <= MaxSaid
    PROVE  MemoryInv'
<1>1. StoreInv'
  <2>1. CASE Pending("add_message")' <= Pending("add_message")
    BY <2>1, PendingType, StoreKept DEF MemoryInv, StoreInv
  <2>2. CASE said + Pending("add_message")' <= MaxSaid
    BY <2>2 DEF MemoryInv, StoreInv
  <2> QED
    BY ZenonT(30), <2>1, <2>2
<1>2. MessagesAccounted' /\ ConversationOrdered'
  BY PlacesKept DEF MemoryInv
<1> QED
  BY <1>1, <1>2 DEF MemoryInv

\* A call that starts has nothing in hand.
LEMMA StartOps ==
    ASSUME CallsInv, NEW c \in Callers, call[c].pc = "idle", NEW op, NEW pc, NEW n, NEW id,
           call' = [call EXCEPT ![c] = Called(op, pc, n, id)]
    PROVE  /\ \A d \in Callers : call'[d].digest = call[d].digest
           /\ \A d \in Callers \ {c} : call'[d].op = call[d].op
           /\ call'[c].op = op
<1>1. call[c].digest = <<>>
  BY Zenon DEF CallsInv, Coherent
<1>2. call'[c] = Called(op, pc, n, id) /\ \A d \in Callers \ {c} : call'[d] = call[d]
  BY DEF CallsInv
<1>3. call'[c].digest = <<>> /\ call'[c].op = op
  BY <1>2 DEF Called
<1> QED
  BY <1>1, <1>2, <1>3

\* A caller that asks for the buffer's lock keeps the invariant.
LEMMA AskInv ==
    ASSUME MemoryInv, NEW c \in Callers, call[c].pc = "idle",
           NEW op \in BufferOps, NEW n \in Nat, AskShortTerm(c, op, n),
           op = "add_message" => said + Pending("add_message") < MaxSaid
    PROVE  MemoryInv'
<1>1. CallsInv /\ StoreInv /\ CallsInv'
  BY AskCalls DEF MemoryInv
<1>2. /\ \A d \in Callers : call'[d].digest = call[d].digest
      /\ \A d \in Callers \ {c} : call'[d].op = call[d].op
      /\ call'[c].op = op
  BY ZenonT(30), <1>1, StartOps DEF AskShortTerm
<1>3. CASE op = "add_message"
  <2>1. Pending("add_message")' <= Pending("add_message") + 1
    BY ZenonT(30), <1>2, PendingGrows
  <2>2. said \in Nat /\ MaxSaid \in Nat
    BY <1>1, MemoryAssumption DEF StoreInv
  <2>3. said + Pending("add_message")' <= MaxSaid
    BY <1>3, <2>1, <2>2, PendingType
  <2> QED
    BY Zenon, <1>1, <1>2, <2>3, OnlyCalls DEF AskShortTerm
<1>4. CASE op # "add_message"
  <2>1. Pending("add_message")' <= Pending("add_message")
    BY <1>2, <1>4, PendingShrinks
  <2> QED
    BY ZenonT(30), <1>1, <1>2, <2>1, OnlyCalls DEF AskShortTerm
<1> QED
  BY <1>3, <1>4

\* A call that needs no lock on the buffer keeps the invariant as it starts.
LEMMA StartInv ==
    ASSUME MemoryInv, NEW c \in Callers, call[c].pc = "idle",
           NEW op \in Ops \ (BufferOps \union {"none"}), NEW pc \in {"embedding", "episodic"},
           pc = "episodic" => op = "record_episode", NEW n \in Nat, NEW id \in Ids,
           call' = [call EXCEPT ![c] = Called(op, pc, n, id)],
           UNCHANGED <<messages, queue, entries, episodes, now, said, lost, cleared, recalled>>
    PROVE  MemoryInv'
<1>1. CallsInv /\ CallsInv'
  BY Zenon, StartCalls DEF MemoryInv
<1>2. /\ \A d \in Callers : call'[d].digest = call[d].digest
      /\ \A d \in Callers \ {c} : call'[d].op = call[d].op
      /\ call'[c].op = op
  BY ZenonT(30), <1>1, StartOps
<1>3. Pending("add_message")' <= Pending("add_message")
  BY <1>2, PendingShrinks DEF BufferOps
<1> QED
  BY <1>1, <1>2, <1>3, OnlyCalls

\* Starting any method keeps the invariant.
LEMMA CallsStep ==
    ASSUME MemoryInv, NEW c \in Callers, Calls(c)
    PROVE  MemoryInv'
<1>1. CASE CallAddMessage(c)
  BY <1>1, AskInv DEF CallAddMessage, BufferOps
<1>2. CASE CallClear(c)
  BY <1>2, AskInv DEF CallClear, BufferOps
<1>3. CASE CallConsolidate(c)
  <2>1. PICK keep \in Keeps : AskShortTerm(c, "consolidate", keep)
    BY <1>3 DEF CallConsolidate
  <2>2. keep \in Nat /\ call[c].pc = "idle" /\ "consolidate" \in BufferOps
    BY <1>3, MemoryAssumption DEF CallConsolidate, BufferOps
  <2> QED
    BY <2>1, <2>2, AskInv
<1>4. <<>> \in Ids /\ uuid_v4_placeholder \in Ids
  BY UuidType DEF Ids, MemoryInv, StoreInv
<1>5. {"remember_fact", "recall", "record_episode"} \subseteq Ops \ (BufferOps \union {"none"})
  BY DEF Ops, BufferOps
<1>6. CASE CallRememberFact(c)
  BY Zenon, <1>4, <1>5, <1>6, StartInv DEF CallRememberFact
<1>7. CASE CallRecall(c)
  <2>1. PICK limit \in Limits : call' = [call EXCEPT ![c] = Called("recall", "embedding", limit, <<>>)]
    BY Zenon, <1>7 DEF CallRecall
  <2>2. limit \in Nat
    BY MemoryAssumption
  <2> QED
    BY ZenonT(30), <1>4, <1>5, <1>7, <2>1, <2>2, StartInv DEF CallRecall
<1>8. CASE CallRecordEpisode(c)
  BY ZenonT(30), <1>4, <1>5, <1>8, StartInv DEF CallRecordEpisode
<1> QED
  BY ZenonT(30), <1>1, <1>2, <1>3, <1>6, <1>7, <1>8 DEF Calls

\* A return that touches no store.
LEMMA ReturnInv ==
    ASSUME MemoryInv, NEW c \in Callers, Return(c), call[c].digest = <<>>,
           UNCHANGED <<messages, entries, episodes, now, said, lost, cleared, recalled>>
    PROVE  MemoryInv'
<1>1. CallsInv /\ CallsInv'
  BY ReturnCalls DEF MemoryInv
<1>2. Pending("add_message")' <= Pending("add_message")
  BY ZenonT(30), <1>1, ReturnOps, PendingShrinks
<1>3. \A d \in Callers : call'[d].digest = call[d].digest
  BY <1>1, HandEmptied
<1> QED
  BY ZenonT(30), <1>1, <1>2, <1>3, OnlyCalls

\* The steps that write the buffer and return keep the invariant.
LEMMA BufferInv ==
    ASSUME MemoryInv, NEW c \in Callers, AddMessage(c) \/ Clear(c) \/ ConsolidateNothing(c)
    PROVE  MemoryInv'
<1>1. CallsInv /\ StoreInv /\ MessagesAccounted /\ ConversationOrdered
  BY ZenonT(30) DEF MemoryInv
<1>2. Return(c)
  BY DEF AddMessage, Clear, ConsolidateNothing
<1>3. CallsInv'
  BY Zenon, <1>1, <1>2, ReturnCalls
<1>4. Pending("add_message")' <= Pending("add_message") /\ call'[c].op = "none"
      /\ \A d \in Callers \ {c} : call'[d] = call[d]
  BY Zenon, <1>1, <1>2, ReturnOps, PendingShrinks
<1>5. CASE AddMessage(c)
  <2>1. Pending("add_message")' = Pending("add_message") - 1
    BY <1>4, <1>5, PendingGrows DEF AddMessage
  <2>2. /\ said \in Nat /\ said + Pending("add_message") <= MaxSaid /\ MaxSaid \in Nat
        /\ messages \in Text
    BY <1>1, MemoryAssumption DEF StoreInv
  <2>3. said' = said + 1 /\ said' \in Nat /\ said' + Pending("add_message")' <= MaxSaid
    <3>1. said' = said + 1
      BY <1>5 DEF AddMessage
    <3>2. Pending("add_message") \in Nat
      BY PendingType
    <3> QED
      BY <2>1, <2>2, <3>1, <3>2
  <2>4. messages' \in Text
    <3> DEFINE S == 1..MaxSaid
    <3>1. said + 1 \in S
      BY <2>2, <2>3, PendingType
    <3>2. messages' = Append(messages, said + 1) /\ messages \in Seq(S)
      BY <1>5, <2>2 DEF AddMessage, Text
    <3> HIDE DEF S
    <3>3. messages' \in Seq(S)
      BY <3>1, <3>2
    <3> QED
      BY <3>3 DEF Text, S
  <2>5. StoreInv'
    BY <1>1, <1>5, <2>3, <2>4 DEF StoreInv, AddMessage
  <2> QED
    BY ZenonT(30), <1>1, <1>3, <1>5, <2>5, AddPlaces DEF MemoryInv
<1>6. CASE Clear(c)
  <2>1. messages' \in Text /\ cleared' \subseteq 1..MaxSaid
    <3>1. messages' = <<>> /\ cleared' = cleared \union Range(messages)
      BY <1>6 DEF Clear
    <3>2. cleared \subseteq 1..MaxSaid /\ Range(messages) \subseteq 1..MaxSaid
      BY <1>1, PlacesType DEF StoreInv
    <3>3. messages' \in Text
      BY <3>1 DEF Text
    <3> QED
      BY ZenonT(30), <3>1, <3>2, <3>3
  <2>2. said' + Pending("add_message")' <= MaxSaid
    <3>1. said' = said
      BY Zenon, <1>6 DEF Clear
    <3> QED
      BY ZenonT(30), <1>1, <1>4, <3>1, SaidKept
  <2>3. StoreInv'
    BY ZenonT(30), <1>1, <1>6, <2>1, <2>2 DEF StoreInv, Clear
  <2> QED
    BY <1>1, <1>3, <1>6, <2>3, ClearPlaces DEF MemoryInv
<1>7. CASE ConsolidateNothing(c)
  <2>1. call[c].digest = <<>>
    BY Zenon, <1>1, <1>7 DEF ConsolidateNothing, CallsInv, Coherent
  <2> QED
    BY <1>2, <1>7, <2>1, ReturnInv DEF ConsolidateNothing
<1> QED
  BY <1>5, <1>6, <1>7

\* The steps that take a call on to its next await keep the invariant.
LEMMA MovesInv ==
    ASSUME MemoryInv, NEW c \in Callers, TruncateOlder(c) \/ EmbeddingAnswer(c)
    PROVE  MemoryInv'
<1>1. CallsInv /\ StoreInv /\ MessagesAccounted /\ ConversationOrdered
  BY DEF MemoryInv
<1>2. CASE TruncateOlder(c)
  <2>1. CallsInv'
    BY <1>1, <1>2, TruncateCalls DEF StoreInv, ConversationOrdered
  <2>2. MessagesAccounted' /\ ConversationOrdered' /\ messages' \in Text
    BY <1>1, <1>2, TruncatePlaces
  <2>3. \A d \in Callers : call'[d].op = call[d].op
    BY <1>1, <1>2 DEF TruncateOlder, CallsInv, CallRec
  <2>4. said' + Pending("add_message")' <= MaxSaid
    <3>1. said' = said
      BY <1>2 DEF TruncateOlder
    <3>2. Pending("add_message")' <= Pending("add_message")
      BY <2>3, PendingShrinks
    <3> QED
      BY <1>1, <3>1, <3>2, SaidKept
  <2>5. StoreInv'
    BY <1>1, <1>2, <2>2, <2>4 DEF StoreInv, TruncateOlder
  <2> QED
    BY <2>1, <2>2, <2>5 DEF MemoryInv
<1>3. CASE EmbeddingAnswer(c)
  <2>1. CallsInv' /\ \A d \in Callers : call'[d].digest = call[d].digest /\ call'[d].op = call[d].op
    BY <1>1, <1>3, AnswerCalls DEF StoreInv
  <2>2. Pending("add_message")' <= Pending("add_message")
    BY <2>1, PendingShrinks
  <2> QED
    BY ZenonT(30), <1>3, <2>1, <2>2, OnlyCalls DEF EmbeddingAnswer
<1> QED
  BY <1>2, <1>3

\* The steps that end a call past its embedding, and the ways to fail, keep
\* the invariant.
LEMMA StoresInv ==
    ASSUME MemoryInv, NEW c \in Callers,
           Insert(c) \/ Recall(c) \/ RecordEpisode(c) \/ EmbeddingFailed(c) \/ Drop(c)
    PROVE  MemoryInv'
<1>1. CallsInv /\ StoreInv /\ MessagesAccounted /\ ConversationOrdered
  BY ZenonT(30) DEF MemoryInv
<1>2. Return(c) /\ UNCHANGED <<messages, now, said, cleared>>
  BY DEF Insert, Recall, RecordEpisode, EmbeddingFailed, Drop
<1>3. CallsInv'
  BY <1>1, <1>2, ReturnCalls
<1>4. said' + Pending("add_message")' <= MaxSaid
  <2>1. Pending("add_message")' <= Pending("add_message")
    BY ZenonT(30), <1>1, <1>2, ReturnOps, PendingShrinks
  <2> QED
    BY Zenon, <1>1, <1>2, <2>1, SaidKept
<1>5. call[c].id \in Ids /\ call[c].digest \in Text /\ call[c].n \in Nat
  BY <1>1, RecTypes
<1>6. CASE Insert(c)
  <2> DEFINE e == [id |-> call[c].id, content |-> call[c].digest,
                   embedding |-> call[c].vec, access_count |-> 1]
  <2>1. call[c].vec \in Vectors
    BY ZenonT(30), <1>1, <1>6 DEF Insert, CallsInv, Coherent
  <2>2. e \in EntryRec
    BY <1>5, <2>1 DEF EntryRec
  <2>3. entries' = Append(entries, e) /\ recalled' = Append(recalled, 0)
        /\ UNCHANGED <<lost, episodes>>
    BY Zenon, <1>6 DEF Insert
  <2> HIDE DEF e
  <2>4. entries' \in Seq(EntryRec) /\ recalled' \in Seq(Nat) /\ Len(recalled') = Len(entries')
    BY <1>1, <2>2, <2>3 DEF StoreInv
  <2>5. StoreInv'
    BY Zenon, <1>1, <1>2, <1>4, <2>3, <2>4 DEF StoreInv
  <2> QED
    BY <1>1, <1>3, <1>6, <2>5, InsertPlaces DEF MemoryInv
<1>7. CASE Recall(c)
  <2> DEFINE results == query(call[c].vec, call[c].n)
  <2>1. /\ entries' = touch_entry(results) /\ UNCHANGED <<lost, episodes>>
        /\ recalled' = [i \in DOMAIN recalled |->
                           IF i \in Range(results) THEN recalled[i] + 1 ELSE recalled[i]]
    BY Zenon, <1>7 DEF Recall
  <2>2. entries \in Seq(EntryRec) /\ recalled \in Seq(Nat) /\ Len(recalled) = Len(entries)
    BY ZenonT(30), <1>1 DEF StoreInv
  <2>3. PICK size \in Nat : DOMAIN results = 1..size
    <3>1. call[c].vec \in Vectors
      BY Zenon, <1>1, <1>7 DEF Recall, CallsInv, Coherent
    <3>2. results = query(call[c].vec, call[c].n)
      OBVIOUS
    <3> HIDE DEF results
    <3>3. PICK size \in Nat : Searched(call[c].vec, call[c].n, results, size)
      BY ZenonT(30), <1>5, <2>2, <3>1, <3>2, SearchResults
    <3> QED
      BY <3>3 DEF Searched
  <2> HIDE DEF results
  <2>4. /\ entries' \in Seq(EntryRec) /\ Len(entries') = Len(entries)
        /\ \A k \in DOMAIN entries : entries'[k].content = entries[k].content
    BY ZenonT(30), <2>1, <2>2, <2>3, TouchType
  <2>5. recalled' \in Seq(Nat) /\ Len(recalled') = Len(recalled)
    <3> DEFINE f(i) == IF i \in Range(results) THEN recalled[i] + 1 ELSE recalled[i]
               n == Len(recalled)
    <3>1. n \in Nat /\ DOMAIN recalled = 1..n /\ \A i \in 1..n : f(i) \in Nat
      BY <2>2
    <3>2. recalled' = [i \in 1..n |-> f(i)]
      BY <2>1, <3>1
    <3> HIDE DEF f, n
    <3>3. recalled' \in Seq(Nat) /\ Len(recalled') = n
      <4>1. recalled' \in [1..n -> Nat]
        BY Zenon, <3>1, <3>2
      <4> QED
        BY Zenon, <3>1, <4>1, Tabulated
    <3> QED
      BY <3>3 DEF n
  <2>6. StoreInv'
    BY ZenonT(30), <1>1, <1>2, <1>4, <2>1, <2>2, <2>4, <2>5 DEF StoreInv
  <2>7. call[c].digest = <<>>
    BY ZenonT(30), <1>1, <1>7 DEF Recall, CallsInv, Coherent
  <2>8. \A d \in Callers : call'[d].digest = call[d].digest
    BY ZenonT(30), <1>1, <1>2, <2>7, HandEmptied
  <2>9. DOMAIN entries' = DOMAIN entries
    <3>1. DOMAIN entries' = 1..Len(entries')
      BY Zenon, <2>4, Positions
    <3>2. DOMAIN entries = 1..Len(entries)
      BY Zenon, <2>2, Positions
    <3> QED
      BY ZenonT(30), <2>4, <3>1, <3>2
  <2>10. MessagesAccounted' /\ ConversationOrdered'
    BY ZenonT(30), <1>1, <1>2, <2>1, <2>4, <2>8, <2>9, PlacesKept
  <2> QED
    BY Zenon, <1>3, <2>6, <2>10 DEF MemoryInv
<1>8. CASE RecordEpisode(c)
  <2>1. episodes' \in Seq(Ids) /\ UNCHANGED <<entries, lost, recalled>>
    <3>1. episodes' = Append(episodes, call[c].id) /\ UNCHANGED <<entries, lost, recalled>>
      BY <1>8 DEF RecordEpisode
    <3>2. episodes \in Seq(Ids)
      BY <1>1 DEF StoreInv
    <3> QED
      BY ZenonT(30), <1>5, <3>1, <3>2, Appended
  <2>2. StoreInv'
    <3>1. entries' \in Seq(EntryRec) /\ recalled' \in Seq(Nat) /\ Len(recalled') = Len(entries')
      BY ZenonT(30), <1>1, <2>1 DEF StoreInv
    <3> QED
      BY ZenonT(30), <1>1, <1>2, <1>4, <2>1, <3>1 DEF StoreInv
  <2>3. call[c].digest = <<>>
    BY Zenon, <1>1, <1>8 DEF RecordEpisode, CallsInv, Coherent
  <2>4. \A d \in Callers : call'[d].digest = call[d].digest
    BY ZenonT(30), <1>1, <1>2, <2>3, HandEmptied
  <2>5. MessagesAccounted' /\ ConversationOrdered'
    BY ZenonT(30), <1>1, <1>2, <2>1, <2>4, PlacesKept
  <2> QED
    BY Zenon, <1>3, <2>2, <2>5 DEF MemoryInv
<1>9. CASE EmbeddingFailed(c) \/ Drop(c)
  <2>1. lost' = lost \union Range(call[c].digest) /\ UNCHANGED <<entries, episodes, recalled>>
    BY ZenonT(30), <1>9 DEF EmbeddingFailed, Drop
  <2>2. Range(call[c].digest) \subseteq InHand
    BY InHandIs
  <2>3. lost' \subseteq 1..MaxSaid
    BY ZenonT(30), <1>1, <2>1, <2>2, PlacesType DEF StoreInv
  <2>4. StoreInv'
    BY <1>1, <1>2, <1>4, <2>1, <2>3 DEF StoreInv
  <2> QED
    BY ZenonT(30), <1>1, <1>3, <1>9, <2>4, LosePlaces DEF MemoryInv
<1> QED
  BY Zenon, <1>6, <1>7, <1>8, <1>9

\* The clock changes nothing else.
LEMMA TickInv ==
    ASSUME MemoryInv, Tick \/ UNCHANGED vars
    PROVE  MemoryInv'
<1>1. UNCHANGED <<messages, queue, entries, episodes, call, said, lost, cleared, recalled>>
  BY DEF Tick, vars
<1>2. now' \in 0..MaxNow
  BY MemoryAssumption DEF Tick, vars, MemoryInv, StoreInv
<1>3. CallsInv'
  BY ZenonT(30), <1>1 DEF MemoryInv, CallsInv, Coherent, Holds, Increasing
<1>4. StoreInv'
  BY <1>1, <1>2 DEF MemoryInv, StoreInv, Pending
<1>5. MessagesAccounted' /\ ConversationOrdered'
  BY <1>1, PlacesKept DEF MemoryInv
<1> QED
  BY <1>3, <1>4, <1>5 DEF MemoryInv

\* The invariant is inductive.
LEMMA MemoryNext == MemoryInv /\ [Next]_vars => MemoryInv'
BY CallsStep, BufferInv, MovesInv, StoresInv, TickInv DEF Next, BufferStep

\* The inductive invariant holds.
LEMMA MemoryAlways == Spec => []MemoryInv
BY MemoryInit, MemoryNext, PTL DEF Spec

\* The memory keeps its types; the callers at the buffer's lock are those in
\* its queue, and only its holder has messages in hand.
THEOREM MemoryTypeCorrect == Spec => []TypeOK
<1>1. MemoryInv => TypeOK
  <2> SUFFICES ASSUME MemoryInv PROVE TypeOK
    OBVIOUS
  <2>1. CallsInv /\ StoreInv
    BY DEF MemoryInv
  <2>2. /\ messages \in Seq(1..MaxSaid) /\ queue \in Seq(Callers)
        /\ DOMAIN recalled = DOMAIN entries
        /\ episodes \in Seq(Ids) /\ now \in 0..MaxNow
        /\ lost \subseteq 1..MaxSaid /\ cleared \subseteq 1..MaxSaid
    BY <2>1 DEF StoreInv, CallsInv, Text
  <2>3. said \in 0..MaxSaid
    BY <2>1, PendingType, MemoryAssumption DEF StoreInv
  <2>4. ASSUME NEW i \in DOMAIN entries
        PROVE  entries[i].id \in Ids /\ entries[i].content \in Seq(1..MaxSaid)
               /\ entries[i].embedding \in Vectors /\ entries[i].access_count \in Nat
    <3>1. entries[i] \in EntryRec
      BY <2>1 DEF StoreInv
    <3> QED
      BY <3>1 DEF EntryRec, Text
  <2>5. ASSUME NEW c \in Callers
        PROVE  /\ call[c].op \in Ops /\ call[c].n \in Nat /\ call[c].id \in Ids
               /\ call[c].pc \in {"idle", "short_term", "embedding", "long_term", "episodic"}
               /\ call[c].vec \in Vectors \union {<<>>} /\ call[c].digest \in Seq(1..MaxSaid)
               /\ (c \in Range(queue)) <=>
                     (call[c].op \in {"add_message", "clear", "consolidate"})
               /\ call[c].digest # <<>> => Holds(c)
    <3>1. /\ call[c].op \in Ops /\ call[c].n \in Nat /\ call[c].id \in Ids
          /\ call[c].pc \in {"idle", "short_term", "embedding", "long_term", "episodic"}
          /\ call[c].vec \in Vectors \union {<<>>} /\ call[c].digest \in Seq(1..MaxSaid)
      BY ZenonT(30), <2>1, RecTypes DEF Pcs, Text
    <3>2. /\ (c \in Range(queue)) <=>
                (call[c].op \in {"add_message", "clear", "consolidate"})
          /\ call[c].digest # <<>> => Holds(c)
      BY <2>1 DEF CallsInv, Coherent, BufferOps
    <3> QED
      BY <3>1, <3>2
  <2> QED
    BY <2>2, <2>3, <2>4, <2>5 DEF TypeOK
<1> QED
  BY <1>1, MemoryAlways, PTL

\* However calls overlap, fail or are dropped, every message is in exactly one
\* place.
THEOREM MessagesNeverVanish == Spec => []MessagesAccounted
<1>1. MemoryInv => MessagesAccounted
  BY DEF MemoryInv
<1> QED
  BY <1>1, MemoryAlways, PTL

\* Consolidations do not overtake each other: the long-term memory, the running
\* consolidation and the buffer tell the conversation in order.
THEOREM ConversationStaysOrdered == Spec => []ConversationOrdered
<1>1. MemoryInv => ConversationOrdered
  BY DEF MemoryInv
<1> QED
  BY <1>1, MemoryAlways, PTL

(***************************************************************************)
(* Access counts.                                                          *)
(***************************************************************************)
Accesses(id) == [j \in DOMAIN entries |->
                    IF entries[j].id = id THEN entries[j].access_count - 1 ELSE 0]
Returns(id) == [j \in DOMAIN entries |-> IF entries[j].id = id THEN recalled[j] ELSE 0]

\* Of the entries with an id, the accesses are the returns.
CountInv == \A id \in Ids : Total(Accesses(id)) = Total(Returns(id))

\* A nonempty set of natural numbers has a least element.
LEMMA LeastExists ==
    ASSUME NEW S \in SUBSET Nat, S # {}
    PROVE  \E x \in S : \A y \in S : x <= y
<1> DEFINE R == OpToRel(<, Nat)
<1>1. IsWellFoundedOn(R, Nat)
  BY NatLessThanWellFounded
<1>2. \A x, y \in Nat : y < x => <<y, x>> \in R
  BY DEF OpToRel
<1> HIDE DEF R
<1>3. PICK x \in S : \A y \in S : ~(<<y, x>> \in R)
  BY ZenonT(30), <1>1, WFMin
<1>4. ASSUME NEW y \in S PROVE x <= y
  <2>1. x \in Nat /\ y \in Nat
    OBVIOUS
  <2>2. ~(y < x)
    BY ZenonT(30), <1>2, <1>3, <2>1
  <2> QED
    BY <2>1, <2>2
<1> QED
  BY <1>4

\* The entry that is touched for an id has it.
LEMMA EntryOfHasId ==
    ASSUME entries \in Seq(EntryRec), NEW i \in DOMAIN entries
    PROVE  /\ EntryOf(entries[i].id) \in DOMAIN entries
           /\ entries[EntryOf(entries[i].id)].id = entries[i].id
<1> DEFINE S == {j \in DOMAIN entries : entries[j].id = entries[i].id}
<1>1. S \in SUBSET Nat /\ S # {}
  OBVIOUS
<1>2. EntryOf(entries[i].id) = CHOOSE x \in S : \A y \in S : x <= y
  BY DEF EntryOf, MinOf
<1>3. \E x \in S : \A y \in S : x <= y
  <2> HIDE DEF S
  <2> QED
    BY <1>1, LeastExists
<1>4. EntryOf(entries[i].id) \in S
  BY <1>2, <1>3
<1> QED
  BY <1>4

\* The functions that are summed.
LEMMA CountTypes ==
    ASSUME StoreInv, NEW id
    PROVE  /\ Len(entries) \in Nat /\ DOMAIN entries = 1..Len(entries)
           /\ Accesses(id) \in [1..Len(entries) -> Int] /\ Returns(id) \in [1..Len(entries) -> Int]
<1>1. /\ Len(entries) \in Nat /\ DOMAIN entries = 1..Len(entries)
      /\ DOMAIN recalled = 1..Len(entries)
  BY DEF StoreInv
<1>2. ASSUME NEW j \in DOMAIN entries PROVE entries[j].access_count \in Nat /\ recalled[j] \in Nat
  <2>1. entries[j] \in EntryRec /\ recalled[j] \in Nat
    BY <1>1 DEF StoreInv
  <2> QED
    BY <2>1 DEF EntryRec
<1> QED
  BY <1>1, <1>2 DEF Accesses, Returns

\* The same after a step.
LEMMA CountTypesNext ==
    ASSUME StoreInv', NEW id
    PROVE  /\ Accesses(id)' \in [1..Len(entries') -> Int]
           /\ Returns(id)' \in [1..Len(entries') -> Int]
<1>1. /\ Len(entries') \in Nat /\ DOMAIN entries' = 1..Len(entries')
      /\ DOMAIN recalled' = 1..Len(entries')
  BY DEF StoreInv
<1>2. ASSUME NEW j \in DOMAIN entries' PROVE entries'[j].access_count \in Nat /\ recalled'[j] \in Nat
  <2>1. entries'[j] \in EntryRec /\ recalled'[j] \in Nat
    BY <1>1 DEF StoreInv
  <2> QED
    BY <2>1 DEF EntryRec
<1> QED
  BY <1>1, <1>2 DEF Accesses, Returns

\* A new entry counts for nothing.
LEMMA InsertCounts ==
    ASSUME CallsInv, StoreInv, StoreInv', CountInv, NEW c \in Callers, Insert(c)
    PROVE  CountInv'
<1> DEFINE n == Len(entries)
<1> SUFFICES ASSUME NEW id \in Ids PROVE Total(Accesses(id)') = Total(Returns(id)')
  BY DEF CountInv
<1>1. /\ n \in Nat /\ DOMAIN entries = 1..n /\ Accesses(id) \in [1..n -> Int]
      /\ Returns(id) \in [1..n -> Int]
  BY CountTypes
<1>2. /\ DOMAIN entries' = 1..(n + 1) /\ Len(entries') = n + 1
      /\ \A i \in 1..n : entries'[i] = entries[i] /\ recalled'[i] = recalled[i]
      /\ entries'[n + 1].access_count = 1 /\ recalled'[n + 1] = 0
  BY InsertEffect
<1>3. Accesses(id)' \in [1..(n + 1) -> Int] /\ Returns(id)' \in [1..(n + 1) -> Int]
  BY Zenon, <1>2, CountTypesNext
<1>4. \A i \in 1..n : Accesses(id)'[i] = Accesses(id)[i] /\ Returns(id)'[i] = Returns(id)[i]
  <2> SUFFICES ASSUME NEW i \in 1..n
               PROVE  Accesses(id)'[i] = Accesses(id)[i] /\ Returns(id)'[i] = Returns(id)[i]
    OBVIOUS
  <2>1. i \in 1..(n + 1)
    BY <1>1
  <2>2. entries'[i] = entries[i] /\ recalled'[i] = recalled[i]
    BY ZenonT(30), <1>2
  <2> QED
    BY ZenonT(30), <1>1, <1>2, <2>1, <2>2 DEF Accesses, Returns
<1>5. Accesses(id)'[n + 1] = 0 /\ Returns(id)'[n + 1] = 0
  BY <1>1, <1>2 DEF Accesses, Returns
<1> DEFINE a == Accesses(id)  b == Accesses(id)'  p == Returns(id)  q == Returns(id)'
<1> HIDE DEF a, b, p, q, n
<1>6. /\ n \in Nat /\ a \in [1..n -> Int] /\ p \in [1..n -> Int]
      /\ b \in [1..(n + 1) -> Int] /\ q \in [1..(n + 1) -> Int]
      /\ (\A i \in 1..n : b[i] = a[i]) /\ (\A i \in 1..n : q[i] = p[i])
      /\ b[n + 1] = 0 /\ q[n + 1] = 0 /\ Total(a) = Total(p)
  BY <1>1, <1>3, <1>4, <1>5 DEF a, b, p, q, CountInv
<1>7. Total(b) = Total(a) + b[n + 1] /\ Total(q) = Total(p) + q[n + 1]
  BY ZenonT(30), <1>6, TotalAppended
<1>8. Total(b) = Total(q)
  BY <1>6, <1>7
<1> QED
  BY <1>8 DEF b, q

\* What a recall does to the entries.
Touched(results, e, size) ==
    /\ DOMAIN results = 1..size /\ \A k \in 1..size : results[k] \in DOMAIN entries
    /\ \A k, m \in 1..size : k < m => results[k] # results[m]
    /\ DOMAIN e = DOMAIN entries /\ Len(e) = Len(entries)
    /\ \A j \in DOMAIN entries :
          /\ e[j].id = entries[j].id
          /\ e[j].access_count = entries[j].access_count + Times(results, j)
          /\ Times(results, j) \in Nat

\* recall touches, for each of its results, one entry with the same id.
LEMMA RecallEffect ==
    ASSUME entries \in Seq(EntryRec), NEW v \in Vectors, NEW limit \in Nat,
           NEW results, results = query(v, limit), NEW e, e = touch_entry(results)
    PROVE  \E size \in Nat : Touched(results, e, size)
<1>1. PICK size \in Nat : Searched(v, limit, results, size)
  BY Zenon, SearchResults
<1>2. /\ DOMAIN results = 1..size /\ \A k \in 1..size : results[k] \in DOMAIN entries
      /\ \A k, m \in 1..size : k < m => results[k] # results[m]
  BY ZenonT(30), <1>1 DEF Hits, Searched
<1>3. e \in Seq(EntryRec) /\ Len(e) = Len(entries)
  BY <1>2, TouchType
<1>4. DOMAIN e = DOMAIN entries
  <2>1. DOMAIN e = 1..Len(e)
    BY <1>3
  <2>2. DOMAIN entries = 1..Len(entries)
    OBVIOUS
  <2> QED
    BY <1>3, <2>1, <2>2
<1>5. \A j \in DOMAIN entries :
          /\ e[j].id = entries[j].id
          /\ e[j].access_count = entries[j].access_count + Times(results, j)
          /\ Times(results, j) \in Nat
  BY Zenon, <1>2, TouchType
<1>6. Touched(results, e, size)
  BY ZenonT(30), <1>2, <1>3, <1>4, <1>5 DEF Touched
<1> QED
  BY <1>6

\* A recall adds as many accesses to the entries with an id as it returns
\* entries with that id.
LEMMA RecallCounts ==
    ASSUME StoreInv, StoreInv', CountInv, NEW v \in Vectors, NEW limit \in Nat,
           NEW results, results = query(v, limit), entries' = touch_entry(results),
           recalled' = [i \in DOMAIN recalled |->
                           IF i \in Range(results) THEN recalled[i] + 1 ELSE recalled[i]]
    PROVE  CountInv'
<1> DEFINE n == Len(entries)
<1> SUFFICES ASSUME NEW id \in Ids PROVE Total(Accesses(id)') = Total(Returns(id)')
  BY DEF CountInv
<1>0. entries \in Seq(EntryRec) /\ recalled \in Seq(Nat) /\ Len(recalled) = n
  BY DEF StoreInv
<1>1. /\ n \in Nat /\ DOMAIN entries = 1..n /\ Accesses(id) \in [1..n -> Int]
      /\ Returns(id) \in [1..n -> Int]
  BY CountTypes
<1>2. PICK size \in Nat : Touched(results, entries', size)
  <2> DEFINE e == entries'
  <2>1. e = touch_entry(results)
    OBVIOUS
  <2> HIDE DEF e
  <2>2. \E size \in Nat : Touched(results, e, size)
    BY ZenonT(30), <1>0, <2>1, RecallEffect
  <2> QED
    BY <2>2 DEF e
<1>3. /\ DOMAIN results = 1..size /\ \A k \in 1..size : results[k] \in 1..n
      /\ \A k, m \in 1..size : k < m => results[k] # results[m]
  BY Zenon, <1>1, <1>2 DEF Touched
<1> DEFINE idOf(r) == entries[results[r]].id
           times(k) == Times(results, k)
           Tw == {j \in 1..n : entries[j].id = id}
           Rid == {r \in 1..size : idOf(r) = id}
           T == [j \in 1..n |-> IF j \in Tw THEN times(j) ELSE 0]
           U == [j \in 1..n |-> IF j \in Tw \intersect Range(results) THEN 1 ELSE 0]
<1>4. \A k \in 1..n : times(k) \in Nat
  BY ZenonT(30), <1>1, <1>2 DEF Touched
<1>5. \A j \in 1..n : /\ entries'[j].id = entries[j].id
                      /\ entries'[j].access_count = entries[j].access_count + times(j)
                      /\ recalled'[j] = IF j \in Range(results) THEN recalled[j] + 1 ELSE recalled[j]
  <2>1. \A j \in 1..n : recalled'[j] = IF j \in Range(results) THEN recalled[j] + 1 ELSE recalled[j]
    BY <1>0, <1>1
  <2> QED
    BY ZenonT(30), <1>1, <1>2, <2>1 DEF Touched
<1>6. DOMAIN entries' = 1..n /\ Len(entries') = n
  BY Zenon, <1>1, <1>2 DEF Touched
<1>7. Accesses(id)' \in [1..n -> Int] /\ Returns(id)' \in [1..n -> Int]
  BY ZenonT(30), <1>6, CountTypesNext
<1>8. \A j \in 1..n : entries[j].access_count \in Nat /\ recalled[j] \in Nat
  <2>1. \A j \in 1..n : entries[j] \in EntryRec /\ recalled[j] \in Nat
    BY <1>0, <1>1
  <2> QED
    BY <2>1 DEF EntryRec
<1> HIDE DEF times, n
<1>9. /\ T \in [1..n -> Int] /\ U \in [1..n -> Int]
      /\ \A j \in 1..n : Accesses(id)'[j] = Accesses(id)[j] + T[j]
      /\ \A j \in 1..n : Returns(id)'[j] = Returns(id)[j] + U[j]
  <2>1. T \in [1..n -> Int] /\ U \in [1..n -> Int]
    BY <1>4
  <2>2. ASSUME NEW j \in 1..n
        PROVE  /\ Accesses(id)'[j] = Accesses(id)[j] + T[j]
               /\ Returns(id)'[j] = Returns(id)[j] + U[j]
    <3>1. /\ Accesses(id)[j] = IF entries[j].id = id THEN entries[j].access_count - 1 ELSE 0
          /\ Returns(id)[j] = IF entries[j].id = id THEN recalled[j] ELSE 0
      BY ZenonT(30), <1>1 DEF Accesses, Returns
    <3>2. /\ Accesses(id)'[j] = IF entries'[j].id = id THEN entries'[j].access_count - 1 ELSE 0
          /\ Returns(id)'[j] = IF entries'[j].id = id THEN recalled'[j] ELSE 0
      BY <1>6 DEF Accesses, Returns
    <3>3. j \in Tw <=> entries[j].id = id
      OBVIOUS
    <3>4. Accesses(id)'[j] = Accesses(id)[j] + T[j]
      <4>1. T[j] = IF j \in Tw THEN times(j) ELSE 0
        BY Zenon
      <4>2. /\ entries'[j].id = entries[j].id /\ times(j) \in Nat
            /\ entries'[j].access_count = entries[j].access_count + times(j)
            /\ entries[j].access_count \in Nat
        BY Zenon, <1>4, <1>5, <1>8
      <4> HIDE DEF T, Tw
      <4>3. CASE entries[j].id = id
        <5>1. /\ Accesses(id)'[j] = (entries[j].access_count + times(j)) - 1
              /\ Accesses(id)[j] = entries[j].access_count - 1 /\ T[j] = times(j)
          BY ZenonT(30), <3>1, <3>2, <3>3, <4>1, <4>2, <4>3
        <5> QED
          <6>1. (entries[j].access_count + times(j)) - 1 = (entries[j].access_count - 1) + times(j)
            BY Zenon, <4>2, Sums
          <6> QED
            BY Zenon, <5>1, <6>1
      <4>4. CASE entries[j].id # id
        <5>1. Accesses(id)'[j] = 0 /\ Accesses(id)[j] = 0 /\ T[j] = 0
          BY ZenonT(30), <3>1, <3>2, <3>3, <4>1, <4>2, <4>4
        <5> QED
          BY ZenonT(30), <4>2, <5>1, Sums
      <4> QED
        BY Zenon, <4>3, <4>4
    <3>5. Returns(id)'[j] = Returns(id)[j] + U[j]
      <4>1. U[j] = IF j \in Tw /\ j \in Range(results) THEN 1 ELSE 0
        BY Zenon
      <4>2. /\ entries'[j].id = entries[j].id /\ recalled[j] \in Nat
            /\ recalled'[j] = IF j \in Range(results) THEN recalled[j] + 1 ELSE recalled[j]
        BY Zenon, <1>5, <1>8
      <4> HIDE DEF U, Tw
      <4>3. CASE entries[j].id = id
        <5>1. Returns(id)'[j] = recalled'[j] /\ Returns(id)[j] = recalled[j]
          BY ZenonT(30), <3>1, <3>2, <4>2, <4>3
        <5>2. CASE j \in Range(results)
          BY ZenonT(30), <3>3, <4>1, <4>2, <4>3, <5>1, <5>2
        <5>3. CASE j \notin Range(results)
          <6>1. recalled'[j] = recalled[j] /\ U[j] = 0
            BY Zenon, <4>1, <4>2, <5>3
          <6> QED
            BY ZenonT(30), <4>2, <5>1, <6>1, Sums
        <5> QED
          BY Zenon, <5>2, <5>3
      <4>4. CASE entries[j].id # id
        <5>1. Returns(id)'[j] = 0 /\ Returns(id)[j] = 0 /\ U[j] = 0
          BY ZenonT(30), <3>1, <3>2, <3>3, <4>1, <4>2, <4>4
        <5> QED
          BY Zenon, <4>2, <5>1, Sums
      <4> QED
        BY Zenon, <4>3, <4>4
    <3> QED
      BY Zenon, <3>4, <3>5
  <2> QED
    BY <2>1, <2>2
<1>10. T \in [1..n -> Int] /\ U \in [1..n -> Int] /\ n \in Nat
  BY ZenonT(30), <1>1, <1>9
<1>11. Total(U) = Cardinality(Tw \intersect Range(results))
  <2> DEFINE A == Tw \intersect Range(results)
  <2>1. A \in SUBSET (1..n) /\ \A j \in 1..n : U[j] = IF j \in A THEN 1 ELSE 0
    OBVIOUS
  <2> HIDE DEF A, U
  <2>2. Total(U) = Cardinality(A)
    BY Zenon, <1>10, <2>1, TotalCounts
  <2> QED
    BY <2>2 DEF A
<1>12. Cardinality(Rid) = Cardinality(Tw \intersect Range(results))
  <2> DEFINE A == Tw \intersect Range(results)
             b == [r \in Rid |-> results[r]]
  <2>1. b \in [Rid -> A]
    <3>1. ASSUME NEW r \in Rid PROVE results[r] \in A
      BY ZenonT(30), <1>3 DEF Range
    <3> QED
      BY Zenon, <3>1
  <2>2. \A r, s \in Rid : b[r] = b[s] => r = s
    BY <1>3
  <2>3. \A a \in A : \E r \in Rid : b[r] = a
    BY <1>3 DEF Range
  <2>4. IsFiniteSet(1..size)
    BY FS_Interval
  <2>5. Rid \in SUBSET (1..size)
    BY Zenon
  <2>6. IsFiniteSet(Rid)
    BY Zenon, <2>4, <2>5, FS_Subset
  <2> HIDE DEF b, A, Rid
  <2>7. ExistsBijection(Rid, A)
    BY Zenon, <2>1, <2>2, <2>3 DEF ExistsBijection, Bijection, Injection, Surjection, IsInjective
  <2>8. Cardinality(A) = Cardinality(Rid)
    BY Zenon, <2>6, <2>7, FS_Bijection
  <2> QED
    BY Zenon, <2>8 DEF A
<1>13. \A r \in 1..size : EntryOf(idOf(r)) \in 1..n /\ entries[EntryOf(idOf(r))].id = idOf(r)
  BY Zenon, <1>0, <1>1, <1>3, EntryOfHasId
<1>14. Total(T) = Cardinality(Rid)
  <2>1. CASE Tw = {}
    <3>1. \A j \in 1..n : T[j] = 0
      BY Zenon, <2>1
    <3>2. Total(T) = 0
      <4> HIDE DEF T
      <4> QED
        BY Zenon, <1>10, <3>1, TotalOfNone
    <3>3. Rid = {}
      BY ZenonT(30), <1>3, <2>1
    <3> QED
      BY Zenon, <3>2, <3>3, FS_EmptySet
  <2>2. CASE Tw # {}
    <3> DEFINE k == EntryOf(id)
    <3>1. k \in Tw
      <4>1. PICK j \in 1..n : entries[j].id = id
        BY Zenon, <2>2
      <4> QED
        BY ZenonT(30), <1>0, <1>1, <4>1, EntryOfHasId
    <3>2. {r \in 1..size : EntryOf(idOf(r)) = k} = Rid
      BY ZenonT(30), <1>13, <3>1
    <3>3. ASSUME NEW j \in Tw, j # k PROVE {r \in 1..size : EntryOf(idOf(r)) = j} = {}
      BY <1>13, <3>3
    <3>4. T[k] = Cardinality(Rid)
      BY ZenonT(30), <1>3, <3>1, <3>2 DEF times, Times
    <3>5. ASSUME NEW j \in 1..n, j # k PROVE T[j] = 0
      <4>1. CASE j \in Tw
        <5>1. times(j) = Cardinality({})
          BY Zenon, <1>3, <3>3, <3>5, <4>1 DEF times, Times
        <5> QED
          BY <4>1, <5>1, FS_EmptySet
      <4> QED
        BY <4>1
    <3>6. k \in 1..n /\ \A j \in 1..n : j # k => T[j] = 0
      BY Zenon, <3>1, <3>5
    <3> HIDE DEF T, k
    <3>7. Total(T) = T[k]
      BY Zenon, <1>10, <3>6, TotalOfOne
    <3> QED
      BY <3>4, <3>7
  <2> QED
    BY Zenon, <2>1, <2>2
<1> DEFINE a == Accesses(id)  b == Accesses(id)'  p == Returns(id)  q == Returns(id)'
<1> HIDE DEF a, b, p, q, T, U
<1>15. /\ a \in [1..n -> Int] /\ b \in [1..n -> Int] /\ \A j \in 1..n : b[j] = a[j] + T[j]
  BY ZenonT(30), <1>1, <1>7, <1>9 DEF a, b
<1>16. /\ p \in [1..n -> Int] /\ q \in [1..n -> Int] /\ \A j \in 1..n : q[j] = p[j] + U[j]
  BY <1>1, <1>7, <1>9 DEF p, q
<1>17. Total(b) = Total(a) + Total(T)
  BY Zenon, <1>10, <1>15, TotalAdds
<1>18. Total(q) = Total(p) + Total(U)
  BY Zenon, <1>10, <1>16, TotalAdds
<1>19. Total(a) = Total(p)
  BY Zenon DEF a, p, CountInv
<1>20. Total(b) = Total(q)
  BY ZenonT(30), <1>11, <1>12, <1>14, <1>17, <1>18, <1>19
<1> QED
  BY <1>20 DEF b, q

\* A step that writes no entry.
LEMMA CountsKept ==
    ASSUME CountInv, UNCHANGED <<entries, recalled>>
    PROVE  CountInv'
BY DEF CountInv, Accesses, Returns

\* An empty store has nothing to count.
LEMMA CountInit == Init => CountInv
<1> SUFFICES ASSUME Init, NEW id \in Ids PROVE Total(Accesses(id)) = Total(Returns(id))
  BY DEF CountInv
<1>1. entries = <<>>
  BY DEF Init
<1>2. Accesses(id) = Returns(id)
  BY <1>1 DEF Accesses, Returns
<1> QED
  BY <1>2

\* Every step keeps the counts equal.
LEMMA CountNext == MemoryInv /\ MemoryInv' /\ CountInv /\ [Next]_vars => CountInv'
<1> SUFFICES ASSUME MemoryInv, MemoryInv', CountInv, [Next]_vars PROVE CountInv'
  OBVIOUS
<1>1. CallsInv /\ StoreInv /\ StoreInv'
  BY DEF MemoryInv
<1>2. CASE UNCHANGED <<entries, recalled>>
  BY <1>2, CountsKept
<1>3. ASSUME NEW c \in Callers, Insert(c) PROVE CountInv'
  BY Zenon, <1>1, <1>3, InsertCounts
<1>4. ASSUME NEW c \in Callers, Recall(c) PROVE CountInv'
  <2> DEFINE v == call[c].vec
             limit == call[c].n
             results == query(v, limit)
  <2>1. v \in Vectors /\ limit \in Nat
    BY ZenonT(30), <1>1, <1>4, RecTypes DEF Recall, CallsInv, Coherent
  <2>2. /\ entries' = touch_entry(results)
        /\ recalled' = [i \in DOMAIN recalled |->
                           IF i \in Range(results) THEN recalled[i] + 1 ELSE recalled[i]]
    BY Zenon, <1>4 DEF Recall
  <2>3. results = query(v, limit)
    OBVIOUS
  <2> HIDE DEF v, limit, results
  <2> QED
    BY ZenonT(30), <1>1, <2>1, <2>2, <2>3, RecallCounts
<1>5. [Next]_vars => \/ UNCHANGED <<entries, recalled>>
                     \/ \E c \in Callers : Insert(c) \/ Recall(c)
  BY ZenonT(30) DEF Next, vars, Calls, BufferStep, CallAddMessage, CallClear, CallConsolidate,
         CallRememberFact, CallRecall, CallRecordEpisode, AskShortTerm, AddMessage, Clear,
         ConsolidateNothing, TruncateOlder, RecordEpisode, EmbeddingAnswer, EmbeddingFailed,
         Drop, Tick
<1> QED
  BY <1>2, <1>3, <1>4, <1>5

\* Each result of a recall is counted once among the entries with its id.
THEOREM AccessesAreCounted == Spec => []AccessesCounted
<1>1. Spec => [](MemoryInv /\ CountInv)
  BY MemoryInit, MemoryNext, CountInit, CountNext, PTL DEF Spec
<1>2. MemoryInv /\ CountInv => AccessesCounted
  <2> SUFFICES ASSUME MemoryInv, CountInv, NEW i \in DOMAIN entries
               PROVE  LET OfTwins(f) == [j \in DOMAIN entries |->
                              IF entries[j].id = entries[i].id THEN f[j] ELSE 0]
                      IN  Total(OfTwins([j \in DOMAIN entries |-> entries[j].access_count - 1]))
                              = Total(OfTwins(recalled))
    BY DEF AccessesCounted
  <2> DEFINE id == entries[i].id
             acc == [j \in DOMAIN entries |-> entries[j].access_count - 1]
  <2>1. [j \in DOMAIN entries |-> IF entries[j].id = id THEN acc[j] ELSE 0] = Accesses(id)
    BY DEF Accesses
  <2>2. [j \in DOMAIN entries |-> IF entries[j].id = id THEN recalled[j] ELSE 0] = Returns(id)
    BY DEF Returns
  <2>3. id \in Ids
    <3>1. entries[i] \in EntryRec
      BY DEF MemoryInv, StoreInv
    <3> QED
      BY <3>1 DEF EntryRec
  <2>4. Total(Accesses(id)) = Total(Returns(id))
    BY <2>3 DEF CountInv
  <2> QED
    BY ZenonT(30), <2>1, <2>2, <2>4
<1> QED
  BY <1>1, <1>2, PTL

\* What recall returns, for any vector and limit, are the best matches in
\* order, in every reachable store.
THEOREM RecallReturnsBest == Spec => []RecallsBest
<1>1. MemoryInv => RecallsBest
  BY BestFirst DEF MemoryInv, StoreInv
<1> QED
  BY <1>1, MemoryAlways, PTL
=============================================================================
