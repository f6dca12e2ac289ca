----------------------------- MODULE RecordsProofs -----------------------------
(***************************************************************************)
(* Proofs about the records that are made of what was done, for any texts, *)
(* policies, evidence, plans and edits: the redaction cascade with its     *)
(* receipts; then, each by an inductive invariant of its own, the file     *)
(* that must not exist yet, the attestation of a snapshot, and the sealed  *)
(* evidence of a run.                                                      *)
(***************************************************************************)
EXTENDS Records, RedactionCascade, FiniteSetTheorems, SequenceTheorems, TLAPS

\* A set of natural numbers that is not empty has a least member.
LEMMA SmallestNat ==
  ASSUME NEW T \in SUBSET Nat, T # {}
  PROVE  \E x \in T : \A y \in T : x <= y
<1> DEFINE R == OpToRel(<, Nat)
<1>1. \A x, y \in Nat : x < y => <<x, y>> \in R
  BY DEF OpToRel
<1>2. IsWellFoundedOn(R, Nat)
  BY NatLessThanWellFounded
<1>h. HIDE DEF R
<1>3. PICK x \in T : \A y \in T : ~ (<<y, x>> \in R)
  BY <1>2, WFMin
<1>4. \A y \in T : x <= y
  <2> TAKE y \in T
  <2>1. x \in Nat /\ y \in Nat
    OBVIOUS
  <2>2. ~ (y < x)
    BY <1>1, <1>3, <2>1
  <2>3. QED
    BY <2>1, <2>2
<1>5. QED
  BY <1>4

\* Induction, with the set of the numbers that have the property.
LEMMA NatSetInduction ==
  ASSUME NEW S, 0 \in S, \A n \in Nat : n \in S => n + 1 \in S
  PROVE  \A n \in Nat : n \in S
<1> DEFINE T == Nat \ S
<1>1. SUFFICES ASSUME T # {} PROVE FALSE
  OBVIOUS
<1>2. PICK x \in T : \A y \in T : x <= y
  BY <1>1, SmallestNat
<1>3. x # 0 /\ x \in Nat
  OBVIOUS
<1>4. x - 1 \in Nat /\ x - 1 \in S
  BY <1>2, <1>3
<1>5. QED
  BY <1>3, <1>4

\* In a finite set a relation that is a strict order leaves some member without
\* a predecessor.
LEMMA FiniteMinimum ==
  ASSUME NEW T, IsFiniteSet(T), T # {}, NEW R,
         \A c \in T : <<c, c>> \notin R,
         \A c, d, e \in T : <<c, d>> \in R /\ <<d, e>> \in R => <<c, e>> \in R
  PROVE  \E c \in T : \A d \in T : <<d, c>> \notin R
<1> DEFINE Pred(c) == {d \in T : <<d, c>> \in R}
           size(c) == Cardinality(Pred(c))
<1>1. ASSUME NEW c \in T PROVE IsFiniteSet(Pred(c)) /\ size(c) \in Nat
  BY FS_Subset, FS_CardinalityType
<1>2. ASSUME NEW c \in T, NEW d \in T, <<d, c>> \in R PROVE size(d) < size(c)
  <2>1. Pred(d) \subseteq Pred(c) \ {d} /\ d \in Pred(c)
    BY <1>2
  <2>2. /\ IsFiniteSet(Pred(c) \ {d})
        /\ Cardinality(Pred(c) \ {d}) = size(c) - 1
    BY <1>1, <2>1, FS_RemoveElement
  <2>3. size(d) <= Cardinality(Pred(c) \ {d})
    BY <2>1, <2>2, FS_Subset
  <2>4. size(c) \in Nat /\ size(d) \in Nat
    BY <1>1
  <2>5. QED
    BY <2>2, <2>3, <2>4
<1>h. HIDE DEF size
<1> DEFINE Sizes == {n \in Nat : \E c \in T : n = size(c)}
<1>3. PICK n \in Sizes : \A m \in Sizes : n <= m
  <2>1. Sizes \in SUBSET Nat /\ Sizes # {}
    BY <1>1
  <2>2. QED
    BY <2>1, SmallestNat
<1>4. PICK c \in T : n = size(c)
  OBVIOUS
<1>5. ASSUME NEW d \in T, <<d, c>> \in R PROVE FALSE
  <2>1. size(d) < size(c) /\ size(d) \in Nat /\ size(c) \in Nat
    BY <1>1, <1>2, <1>5
  <2>2. QED
    BY <1>3, <1>4, <2>1
<1>6. QED
  BY <1>5

\* Where no member of a finite set is blocked by an endless descent of others,
\* there is such a set as Greedy speaks of.
LEMMA GreedyExists ==
  ASSUME NEW S, IsFiniteSet(S), NEW Blocks,
         \A T \in SUBSET S : T # {} => \E c \in T : \A d \in T : <<d, c>> \notin Blocks
  PROVE  /\ Greedy(S, Blocks) \in SUBSET S
         /\ \A c \in S : c \in Greedy(S, Blocks) <=>
              \A d \in Greedy(S, Blocks) : <<d, c>> \notin Blocks
<1> DEFINE Kept(D, K) == /\ K \in SUBSET D
                         /\ \A c \in D : c \in K <=> \A d \in K : <<d, c>> \notin Blocks
           Done == {D \in SUBSET S : /\ \A c \in D : \A d \in S : <<d, c>> \in Blocks => d \in D
                                     /\ \E K \in SUBSET D : Kept(D, K)}
           left(D) == Cardinality(S \ D)
<1>1. ASSUME NEW D \in SUBSET S
      PROVE  /\ IsFiniteSet(S \ D) /\ left(D) \in Nat
             /\ \A c \in S \ D : left(D \cup {c}) = left(D) - 1
  <2>1. IsFiniteSet(S \ D) /\ left(D) \in Nat
    BY FS_Subset, FS_CardinalityType
  <2>2. ASSUME NEW c \in S \ D PROVE left(D \cup {c}) = left(D) - 1
    <3>1. S \ (D \cup {c}) = (S \ D) \ {c}
      OBVIOUS
    <3>2. Cardinality((S \ D) \ {c}) = Cardinality(S \ D) - 1
      BY <2>1, FS_RemoveElement
    <3>3. QED
      BY <3>1, <3>2
  <2>3. QED
    BY <2>1, <2>2
<1>2. {} \in Done
  OBVIOUS
<1>h. HIDE DEF left
<1> DEFINE Sizes == {n \in Nat : \E D \in Done : n = left(D)}
<1>4. PICK n \in Sizes : \A m \in Sizes : n <= m
  <2>1. Sizes \in SUBSET Nat /\ Sizes # {}
    BY <1>1, <1>2
  <2>2. QED
    BY <2>1, SmallestNat
<1>5. PICK D \in Done : n = left(D)
  OBVIOUS
<1>6. S \ D = {}
  <2>1. SUFFICES ASSUME S \ D # {} PROVE FALSE
    OBVIOUS
  <2>2. PICK c \in S \ D : \A d \in S \ D : <<d, c>> \notin Blocks
    BY <2>1
  <2>3. PICK K \in SUBSET D : Kept(D, K)
    OBVIOUS
  <2>4. \A e \in D : <<c, e>> \notin Blocks
    BY <2>2
  <2>5. D \cup {c} \in SUBSET S
        /\ \A e \in D \cup {c} : \A d \in S : <<d, e>> \in Blocks => d \in D \cup {c}
    BY <2>2
  <2>s. D \cup {c} \notin Done
    <3>1. left(D \cup {c}) = n - 1 /\ left(D \cup {c}) \in Nat
      BY <1>1, <1>5, <2>2, <2>5
    <3>2. QED
      BY <1>4, <3>1
  <2>6. CASE \A d \in K : <<d, c>> \notin Blocks
    <3>1. <<c, c>> \notin Blocks
      BY <2>2
    <3>2. Kept(D \cup {c}, K \cup {c})
      BY <2>2, <2>3, <2>4, <2>6, <3>1
    <3>3. QED
      BY <2>5, <2>s, <3>2
  <2>7. CASE \E d \in K : <<d, c>> \in Blocks
    <3>2. Kept(D \cup {c}, K)
      BY <2>2, <2>3, <2>4, <2>7
    <3>3. QED
      BY <2>5, <2>s, <3>2
  <2>8. QED
    BY <2>6, <2>7
<1>7. D = S
  BY <1>6
<1>8. \E K \in SUBSET S : Kept(S, K)
  BY <1>7
<1>9. QED
  BY <1>8 DEF Greedy

\* Of the accepted spans that are still ahead, the nearest one.
LEMMA NearestIs ==
  ASSUME NEW A, NEW n \in Nat, \A c \in A : c.start \in Nat, Ahead(A, n) # {}
  PROVE  /\ Nearest(A, n) \in A /\ n <= Nearest(A, n).start
         /\ \A d \in A : n <= d.start => Nearest(A, n).start <= d.start
<1> DEFINE Starts == {i \in Nat : \E c \in Ahead(A, n) : i = c.start}
<1>1. Starts \in SUBSET Nat /\ Starts # {}
  BY DEF Ahead
<1>2. PICK i \in Starts : \A k \in Starts : i <= k
  BY <1>1, SmallestNat
<1>3. \E c \in Ahead(A, n) : \A d \in Ahead(A, n) : c.start <= d.start
  BY <1>2 DEF Ahead
<1>4. Nearest(A, n) \in Ahead(A, n) /\ \A d \in Ahead(A, n) : Nearest(A, n).start <= d.start
  BY <1>3 DEF Nearest
<1>5. QED
  BY <1>4 DEF Ahead

\* What is written from each cursor on.
Writes(w, text, p, A) ==
  \A n \in 0..Len(text) :
    w[n] = IF Ahead(A, n) = {} THEN SubSeq(text, n + 1, Len(text))
           ELSE SubSeq(text, n + 1, Nearest(A, n).start)
                  \o Replacement(p, Nearest(A, n)) \o w[Nearest(A, n).end]

\* There is a recursive function such as Rendered defines.
LEMMA WrittenIs ==
  ASSUME NEW text \in Seq(STRING), NEW p, NEW A,
         \A c \in A : c.start \in Nat /\ c.end \in Nat /\ c.start < c.end /\ c.end <= Len(text)
  PROVE  \E w : Rendered(text, p, A) = w[0] /\ Writes(w, text, p, A)
<1> DEFINE L == Len(text)
           Step(n, rest) == SubSeq(text, n + 1, Nearest(A, n).start) \o Replacement(p, Nearest(A, n)) \o rest
           At(w, n) == IF Ahead(A, n) = {} THEN SubSeq(text, n + 1, L)
                       ELSE Step(n, w[Nearest(A, n).end])
           written[n \in 0..L] ==
             IF Ahead(A, n) = {} THEN SubSeq(text, n + 1, Len(text))
             ELSE LET c == Nearest(A, n)
                  IN  SubSeq(text, n + 1, c.start) \o Replacement(p, c) \o written[c.end]
           Good == {k \in Nat : k <= L => \E w : \A n \in (L - k)..L : w[n] = At(w, n)}
<1>1. Rendered(text, p, A) = written[0]
  BY DEF Rendered
<1>2. L \in Nat
  OBVIOUS
<1>3. ASSUME NEW n \in 0..L, Ahead(A, n) # {}
      PROVE  Nearest(A, n).end \in n+1..L
  BY <1>2, <1>3, NearestIs
<1>4. 0 \in Good
  <2> DEFINE w == [n \in {L} |-> SubSeq(text, n + 1, L)]
  <2>1. Ahead(A, L) = {}
    BY <1>2 DEF Ahead
  <2>2. \A n \in (L - 0)..L : w[n] = At(w, n)
    BY <1>2, <2>1
  <2>3. QED
    BY <2>2
<1> HIDE DEF Step, At, L
<1>5. ASSUME NEW k \in Good PROVE k + 1 \in Good
  <2>1. SUFFICES ASSUME k + 1 <= L PROVE \E w : \A n \in (L - (k + 1))..L : w[n] = At(w, n)
    OBVIOUS
  <2>2. PICK v : \A n \in (L - k)..L : v[n] = At(v, n)
    BY <1>2, <2>1
  <2> DEFINE m == L - (k + 1)
             w == [n \in 0..L |-> IF n = m THEN At(v, m) ELSE v[n]]
  <2>3. m \in 0..L /\ k \in Nat /\ m + 1 = L - k
    BY <1>2, <2>1
  <2>4. ASSUME NEW n \in m..L PROVE w[n] = At(w, n)
    <3>1. n \in 0..L
      BY <2>3, <1>2
    <3>2. Ahead(A, n) # {} => Nearest(A, n).end \in m+1..L
      BY <1>2, <1>3, <2>3, <3>1
    <3>3. Ahead(A, n) # {} => w[Nearest(A, n).end] = v[Nearest(A, n).end]
      BY <1>2, <2>3, <3>2
    <3>4. At(w, n) = At(v, n)
      BY <3>3 DEF At
    <3>5. CASE n = m
      BY <3>1, <3>4, <3>5
    <3>6. CASE n # m
      <4>1. n \in (L - k)..L
        BY <1>2, <2>3, <3>6
      <4>2. v[n] = At(v, n)
        BY <2>2, <4>1
      <4>3. w[n] = v[n]
        BY <3>1, <3>6
      <4>4. QED
        BY <3>4, <4>2, <4>3
    <3>7. QED
      BY <3>5, <3>6
  <2>5. QED
    BY <2>4
<1>6. \A k \in Nat : k \in Good
  BY <1>4, <1>5, NatSetInduction
<1>7. PICK v : \A n \in 0..L : v[n] = At(v, n)
  BY <1>2, <1>6
<1> DEFINE w == [n \in 0..L |-> v[n]]
<1>8. \A n \in 0..L : At(w, n) = At(v, n)
  <2> SUFFICES ASSUME NEW n \in 0..L PROVE At(w, n) = At(v, n)
    OBVIOUS
  <2>1. Ahead(A, n) # {} => w[Nearest(A, n).end] = v[Nearest(A, n).end]
    BY <1>2, <1>3
  <2>2. QED
    BY <2>1 DEF At
<1>9. w = [n \in 0..L |-> At(w, n)]
  BY <1>7, <1>8
<1>10. written = [n \in 0..L |-> At(written, n)]
  BY <1>9 DEF Step, At, L
<1>11. \A n \in 0..L : written[n] = At(written, n)
  BY <1>10
<1>12. QED
  BY <1>1, <1>11 DEF Writes, Step, At, L


\* The pieces of one code unit more are so many places more.
LEMMA PlaceIs ==
  ASSUME NEW s, NEW n \in Nat, \A i \in 1..n : Len(Piece(s, i)) \in Nat
  PROVE  /\ Place(s, 0) = 0
         /\ \A i \in 0..n : Place(s, i) \in Nat
         /\ \A i \in 1..n : Place(s, i) = Place(s, i - 1) + Len(Piece(s, i))
<1> DEFINE len(i) == Len(Piece(s, i))
           unit(i) == {i} \X (1..len(i))
           units(i) == UNION {unit(j) : j \in 1..i}
           Good == {i \in Nat : i <= n => IsFiniteSet(units(i))}
<1>1. units(0) = {} /\ IsFiniteSet({}) /\ Cardinality({}) = 0
  BY FS_EmptySet
<1>2. ASSUME NEW i \in 1..n PROVE len(i) \in Nat /\ IsFiniteSet(unit(i)) /\ Cardinality(unit(i)) = len(i)
  <2>0. len(i) \in Nat
    OBVIOUS
  <2> HIDE DEF len
  <2>1. IsFiniteSet(1..len(i)) /\ Cardinality(1..len(i)) = len(i)
    BY <2>0, FS_Interval
  <2>2. IsFiniteSet({i}) /\ Cardinality({i}) = 1
    BY FS_Singleton
  <2>3. IsFiniteSet(unit(i)) /\ Cardinality(unit(i)) = 1 * len(i)
    BY ZenonT(40), <2>1, <2>2, FS_Product
  <2>4. QED
    BY <2>0, <2>3
<1>3. ASSUME NEW i \in Nat, i + 1 <= n
      PROVE  units(i + 1) = units(i) \cup unit(i + 1) /\ units(i) \cap unit(i + 1) = {}
  <2>1. 1..(i + 1) = (1..i) \cup {i + 1} /\ i + 1 \notin 1..i
    OBVIOUS
  <2>2. units(i + 1) = units(i) \cup unit(i + 1)
    BY <2>1
  <2>3. \A x \in units(i) : x[1] \in 1..i
    OBVIOUS
  <2>4. \A x \in unit(i + 1) : x[1] = i + 1
    OBVIOUS
  <2>5. QED
    BY <2>1, <2>2, <2>3, <2>4
<1> HIDE DEF units, unit, len
<1>4. ASSUME NEW i \in Good PROVE i + 1 \in Good
  <2>1. SUFFICES ASSUME i + 1 <= n PROVE IsFiniteSet(units(i + 1))
    OBVIOUS
  <2>2. IsFiniteSet(units(i)) /\ i + 1 \in 1..n
    BY <2>1
  <2>3. IsFiniteSet(unit(i + 1))
    BY <1>2, <2>2
  <2>4. IsFiniteSet(units(i) \cup unit(i + 1))
    BY <2>2, <2>3, FS_Union
  <2>5. QED
    BY <1>3, <2>1, <2>4
<1>5. 0 \in Good
  BY <1>1
<1>6. \A i \in Nat : i \in Good
  BY <1>4, <1>5, NatSetInduction
<1>7. ASSUME NEW i \in 0..n PROVE IsFiniteSet(units(i)) /\ Cardinality(units(i)) \in Nat
  BY <1>6, FS_CardinalityType
<1>8. ASSUME NEW i \in Nat, i + 1 <= n
      PROVE  Cardinality(units(i + 1)) = Cardinality(units(i)) + len(i + 1)
  <2>1. i \in 0..n /\ i + 1 \in 1..n
    BY <1>8
  <2>2. IsFiniteSet(units(i)) /\ IsFiniteSet(unit(i + 1)) /\ Cardinality(units(i)) \in Nat
        /\ Cardinality(unit(i + 1)) = len(i + 1) /\ len(i + 1) \in Nat
    BY <1>2, <1>7, <2>1
  <2>3. Cardinality(units(i) \cup unit(i + 1))
          = Cardinality(units(i)) + Cardinality(unit(i + 1)) - Cardinality(units(i) \cap unit(i + 1))
    BY <2>2, FS_Union
  <2>4. units(i + 1) = units(i) \cup unit(i + 1) /\ units(i) \cap unit(i + 1) = {}
    BY <1>3, <1>8
  <2>5. Cardinality(units(i) \cap unit(i + 1)) = 0
    BY <1>1, <2>4
  <2>6. Cardinality(units(i + 1)) = Cardinality(units(i) \cup unit(i + 1))
    BY <2>4
  <2>7. QED
    BY <2>2, <2>3, <2>5, <2>6
<1>9. \A i \in 0..n : Place(s, i) = Cardinality(units(i))
  BY DEF Place, units, unit, len
<1>10. \A i \in 1..n : i - 1 \in Nat /\ (i - 1) + 1 = i /\ i - 1 \in 0..n /\ i \in 0..n
  OBVIOUS
<1>11. ASSUME NEW i \in 1..n PROVE Place(s, i) = Place(s, i - 1) + Len(Piece(s, i))
  <2>1. Cardinality(units((i - 1) + 1)) = Cardinality(units(i - 1)) + len((i - 1) + 1)
    BY <1>8, <1>10
  <2>2. QED
    BY <2>1, <1>9, <1>10 DEF len
<1>12. Place(s, 0) = 0 /\ \A i \in 0..n : Place(s, i) \in Nat
  <2>1. 0 \in 0..n
    OBVIOUS
  <2>2. \A i \in 0..n : Cardinality(units(i)) \in Nat
    BY <1>7
  <2>3. QED
    BY <1>1, <1>9, <2>1, <2>2
<1>13. QED
  BY <1>11, <1>12


\* A number that grows by the same at every step, and one that never falls.
LEMMA Ramp ==
  ASSUME NEW place, NEW d \in Nat, NEW n \in Nat, NEW m \in Nat, d \in {0, 1}, place[n] \in Nat,
         \A i \in (n + 1)..m : place[i] = place[i - 1] + d
  PROVE  \A i \in n..m : place[i] = place[n] + (IF d = 0 THEN 0 ELSE i - n)
<1> DEFINE Good == {k \in Nat : n + k <= m => place[n + k] = place[n] + (IF d = 0 THEN 0 ELSE k)}
<1>1. 0 \in Good
  OBVIOUS
<1>2. ASSUME NEW k \in Good PROVE k + 1 \in Good
  <2>1. SUFFICES ASSUME n + (k + 1) <= m
                 PROVE  place[n + (k + 1)] = place[n] + (IF d = 0 THEN 0 ELSE k + 1)
    OBVIOUS
  <2>2. n + (k + 1) \in (n + 1)..m /\ (n + (k + 1)) - 1 = n + k
    BY <2>1
  <2>3. place[n + k] = place[n] + (IF d = 0 THEN 0 ELSE k)
    BY <2>1
  <2>4. QED
    BY <2>2, <2>3
<1>3. \A k \in Nat : k \in Good
  BY <1>1, <1>2, NatSetInduction
<1>4. QED
  <2> SUFFICES ASSUME NEW i \in n..m PROVE place[i] = place[n] + (IF d = 0 THEN 0 ELSE i - n)
    OBVIOUS
  <2>1. i - n \in Good /\ n + (i - n) = i
    BY <1>3
  <2>2. QED
    BY <2>1

\* Places that never fall from one character to the next never fall.
LEMMA NeverFalls ==
  ASSUME NEW place, NEW n \in Nat, NEW m \in Nat, \A i \in n..m : place[i] \in Nat,
         \A i \in (n + 1)..m : place[i - 1] <= place[i]
  PROVE  \A i, k \in n..m : i <= k => place[i] <= place[k]
<1> SUFFICES ASSUME NEW i \in n..m PROVE \A k \in n..m : i <= k => place[i] <= place[k]
  OBVIOUS
<1> DEFINE Good == {k \in Nat : i + k <= m => place[i] <= place[i + k]}
<1>1. 0 \in Good
  OBVIOUS
<1>2. ASSUME NEW k \in Good PROVE k + 1 \in Good
  <2>1. SUFFICES ASSUME i + (k + 1) <= m PROVE place[i] <= place[i + (k + 1)]
    OBVIOUS
  <2>2. i + (k + 1) \in (n + 1)..m /\ (i + (k + 1)) - 1 = i + k
    BY <2>1
  <2>3. place[i] <= place[i + k] /\ place[i] \in Nat /\ place[i + k] \in Nat /\ place[i + (k + 1)] \in Nat
    BY <2>1
  <2>4. QED
    BY <2>2, <2>3
<1>3. \A k \in Nat : k \in Good
  BY <1>1, <1>2, NatSetInduction
<1>4. ASSUME NEW k \in n..m, i <= k PROVE place[i] <= place[k]
  <2>1. k - i \in Good /\ i + (k - i) = k
    BY <1>3, <1>4
  <2>2. QED
    BY <2>1
<1>5. QED
  BY <1>4

\* Spans that replacements may be written for: inside the text, and apart.
Apart(text, A) ==
  /\ A \subseteq Candidate
  /\ \A c \in A : c.start < c.end /\ c.end <= Len(text)
  /\ \A c, d \in A : Overlaps(c, d) => c = d

\* What stands for a span is a text.
LEMMA ReplacementType ==
  ASSUME NEW p \in Policies, NEW c \in Candidate
  PROVE  Replacement(p, c) \in Seq(STRING)
<1>1. CASE \E r \in p.rules : r.id = c.source
  BY <1>1, CascadeAssumption DEF Replacement
<1>2. CASE ~ \E r \in p.rules : r.id = c.source
  BY <1>2, CascadeAssumption DEF Replacement, Candidate
<1>3. QED
  BY <1>1, <1>2

\* The pieces, where nothing covers a cursor: the code units up to the next span,
\* its replacement, and nothing for the rest of it.
LEMMA PiecesAre ==
  ASSUME NEW s, s.text \in Seq(STRING), s.policy \in Policies, Apart(s.text, s.accepted)
  PROVE  /\ \A i \in 1..Len(s.text) : Piece(s, i) \in Seq(STRING) /\ Len(Piece(s, i)) \in Nat
         /\ \A i \in 1..Len(s.text) :
              (\A x \in s.accepted : ~ (x.start < i /\ i <= x.end)) => Piece(s, i) = <<s.text[i]>>
         /\ \A c \in s.accepted :
              /\ Piece(s, c.start + 1) = Replacement(s.policy, c)
              /\ \A i \in (c.start + 2)..c.end : Piece(s, i) = <<>>
<1> DEFINE L == Len(s.text)
           A == s.accepted
<1>1. A \subseteq Candidate /\ L \in Nat
  BY DEF Apart
<1>2. \A c \in A : c.start \in Nat /\ c.end \in Nat /\ c.start < c.end /\ c.end <= L
  BY <1>1 DEF Candidate, Apart
<1>3. \A c, d \in A : c.start < d.end /\ d.start < c.end => c = d
  BY DEF Apart, Overlaps
<1>4. ASSUME NEW c \in A, NEW n, n = c.start PROVE (CHOOSE x \in A : x.start = n) = c
  <2>1. \E x \in A : x.start = n
    BY <1>4
  <2>2. \A x \in A : x.start = n => x = c
    BY <1>2, <1>3, <1>4
  <2>3. QED
    BY <2>1, <2>2
<1>5. ASSUME NEW c \in A PROVE Piece(s, c.start + 1) = Replacement(s.policy, c)
  <2>1. (c.start + 1) - 1 = c.start
    BY <1>2
  <2>2. (CHOOSE x \in A : x.start = (c.start + 1) - 1) = c
    BY <1>4, <2>1
  <2>3. QED
    BY <2>1, <2>2 DEF Piece
<1>6. ASSUME NEW c \in A, NEW i \in (c.start + 2)..c.end PROVE Piece(s, i) = <<>>
  <2>1. c.start < i /\ i <= c.end
    BY <1>2
  <2>2. ~ \E x \in A : x.start = i - 1
    BY <1>2, <1>3, <2>1
  <2>3. QED
    BY <2>1, <2>2 DEF Piece
<1>7. ASSUME NEW i \in 1..L, \A x \in A : ~ (x.start < i /\ i <= x.end)
      PROVE  Piece(s, i) = <<s.text[i]>>
  <2>1. ~ \E x \in A : x.start = i - 1
    BY <1>2, <1>7
  <2>2. QED
    BY <1>7, <2>1 DEF Piece
<1>8. ASSUME NEW i \in 1..L PROVE Piece(s, i) \in Seq(STRING)
  <2>1. CASE \E x \in A : x.start = i - 1
    <3>1. PICK c \in A : c.start = i - 1
      BY <2>1
    <3>2. c.start + 1 = i
      BY <3>1
    <3>3. Piece(s, i) = Replacement(s.policy, c)
      BY <1>5, <3>2
    <3>4. QED
      BY <1>1, <3>3, ReplacementType
  <2>2. CASE ~ (\E x \in A : x.start = i - 1) /\ \E x \in A : x.start < i /\ i <= x.end
    <3>1. Piece(s, i) = <<>>
      BY <2>2 DEF Piece
    <3>2. QED
      BY <3>1
  <2>3. CASE \A x \in A : ~ (x.start < i /\ i <= x.end)
    <3>1. Piece(s, i) = <<s.text[i]>>
      BY <1>7, <2>3
    <3>2. s.text[i] \in STRING
      OBVIOUS
    <3>3. QED
      BY <3>1, <3>2
  <2>4. QED
    BY <2>1, <2>2, <2>3
<1>9. QED
  BY <1>5, <1>6, <1>7, <1>8

\* What is written for spans that lie apart: each character's own piece, at the
\* place all the pieces before it take up.
LEMMA RenderedIs ==
  ASSUME NEW s, s.text \in Seq(STRING), s.policy \in Policies, Apart(s.text, s.accepted)
  PROVE  LET out == Rendered(s.text, s.policy, s.accepted)
         IN  /\ out \in Seq(STRING)
             /\ Len(out) = Place(s, Len(s.text))
             /\ \A i \in 1..Len(s.text) : \A n \in 1..Len(Piece(s, i)) :
                  out[Place(s, i - 1) + n] = Piece(s, i)[n]
<1> DEFINE L == Len(s.text)
           A == s.accepted
           place == [i \in 0..L |-> Place(s, i)]
           P(i) == Piece(s, i)
<1>1. A \subseteq Candidate /\ L \in Nat
  BY DEF Apart
<1>2. \A c \in A : c.start \in Nat /\ c.end \in Nat /\ c.start < c.end /\ c.end <= L
  BY <1>1 DEF Candidate, Apart
<1>3. \A c, d \in A : c.start < d.end /\ d.start < c.end => c = d
  BY DEF Apart, Overlaps
<1>4. PICK w : Rendered(s.text, s.policy, A) = w[0] /\ Writes(w, s.text, s.policy, A)
  BY <1>2, WrittenIs
<1>5. \A i \in 1..L : P(i) \in Seq(STRING) /\ Len(P(i)) \in Nat
  BY PiecesAre
<1>6. /\ place[0] = 0
      /\ \A i \in 0..L : place[i] \in Nat
      /\ \A i \in 1..L : place[i] = place[i - 1] + Len(P(i))
  <2>1. /\ Place(s, 0) = 0
        /\ \A i \in 0..L : Place(s, i) \in Nat
        /\ \A i \in 1..L : Place(s, i) = Place(s, i - 1) + Len(P(i))
    BY <1>1, <1>5, PlaceIs
  <2>2. \A i \in 1..L : i \in 0..L /\ i - 1 \in 0..L
    BY <1>1
  <2>3. QED
    BY <1>1, <2>1, <2>2
<1> HIDE DEF place, P, L
<1>7. \A i, k \in 0..L : i <= k => place[i] <= place[k]
  <2>1. \A i \in (0 + 1)..L : place[i - 1] <= place[i]
    BY <1>1, <1>5, <1>6
  <2>2. QED
    BY <1>1, <1>6, <2>1, NeverFalls
<1> DEFINE Free(n) == \A x \in A : ~ (x.start < n /\ n < x.end)
           Right(n) == /\ w[n] \in Seq(STRING)
                       /\ Len(w[n]) = place[L] - place[n]
                       /\ \A i \in (n + 1)..L : \A k \in 1..Len(P(i)) :
                            w[n][place[i - 1] - place[n] + k] = P(i)[k]
           Good == {k \in Nat : \A m \in 0..k : m <= L /\ Free(L - m) => Right(L - m)}
<1>8. ASSUME NEW n \in 0..L, NEW m \in n..L, \A i \in (n + 1)..m : P(i) = <<s.text[i]>>
      PROVE  \A i \in n..m : place[i] = place[n] + (i - n)
  <2>1. ASSUME NEW i \in (n + 1)..m PROVE place[i] = place[i - 1] + 1
    <3>1. Len(P(i)) = 1 /\ i \in 1..L
      BY <1>1, <1>8
    <3>2. QED
      BY <1>6, <3>1
  <2>2. place[n] \in Nat /\ n \in Nat /\ m \in Nat
    BY <1>1, <1>6
  <2>3. \A i \in n..m : place[i] = place[n] + (IF 1 = 0 THEN 0 ELSE i - n)
    BY ZenonT(40), <2>1, <2>2, Ramp
  <2>4. QED
    BY <2>3
<1>9. ASSUME NEW n \in 0..L, Free(n), Ahead(A, n) = {} PROVE Right(n)
  <2>1. \A i \in (n + 1)..L : \A x \in A : ~ (x.start < i /\ i <= x.end)
    BY <1>1, <1>2, <1>9 DEF Ahead
  <2>2. \A i \in (n + 1)..L : P(i) = <<s.text[i]>>
    BY <1>1, <2>1, PiecesAre DEF P, L
  <2>3. \A i \in n..L : place[i] = place[n] + (i - n)
    <3>1. L \in n..L
      BY <1>1
    <3>2. QED
      BY <1>8, <2>2, <3>1
  <2>4. w[n] = SubSeq(s.text, n + 1, L)
    BY <1>4, <1>9 DEF Writes, L
  <2>5. /\ w[n] \in Seq(STRING) /\ Len(w[n]) = L - n
        /\ \A j \in 1..(L - n) : w[n][j] = s.text[n + j]
    BY <1>1, <2>4 DEF L
  <2>6. Len(w[n]) = place[L] - place[n]
    <3>1. place[L] = place[n] + (L - n) /\ place[n] \in Nat
      BY <1>1, <1>6, <2>3
    <3>2. QED
      BY <1>1, <2>5, <3>1
  <2>7. ASSUME NEW i \in (n + 1)..L, NEW k \in 1..Len(P(i))
        PROVE  w[n][place[i - 1] - place[n] + k] = P(i)[k]
    <3>1. P(i) = <<s.text[i]>> /\ k = 1
      <4>1. P(i) = <<s.text[i]>>
        BY <2>2
      <4>2. QED
        BY <4>1
    <3>2. place[i - 1] - place[n] + k = i - n
      <4>1. i - 1 \in n..L /\ place[n] \in Nat
        BY <1>1, <1>6
      <4>2. place[i - 1] = place[n] + ((i - 1) - n)
        BY <2>3, <4>1
      <4>3. QED
        BY <1>1, <3>1, <4>1, <4>2
    <3>3. w[n][i - n] = s.text[i]
      BY <1>1, <2>5
    <3>4. QED
      BY <3>1, <3>2, <3>3
  <2>8. QED
    BY <2>5, <2>6, <2>7
<1>10. ASSUME NEW n \in 0..L, Free(n), Ahead(A, n) # {},
              \A m \in (n + 1)..L : Free(m) => Right(m)
       PROVE  Right(n)
  <2> DEFINE c == Nearest(A, n)
             R == Replacement(s.policy, c)
             a == c.start
             e == c.end
             u == SubSeq(s.text, n + 1, a)
  <2>1. c \in A /\ n <= a /\ \A d \in A : n <= d.start => a <= d.start
    BY <1>2, <1>10, NearestIs
  <2>2. a \in n..L /\ e \in (a + 1)..L /\ a + 1 \in 1..L /\ e \in (n + 1)..L /\ a \in Nat /\ e \in Nat
    BY <1>1, <1>2, <2>1
  <2>3. R \in Seq(STRING)
    BY <1>1, <2>1, ReplacementType
  <2>4. Free(e)
    BY <1>2, <1>3, <2>1
  <2>5. Right(e)
    BY <1>10, <2>2, <2>4
  <2>6. \A i \in (n + 1)..a : P(i) = <<s.text[i]>>
    <3>1. ASSUME NEW i \in (n + 1)..a, NEW x \in A PROVE ~ (x.start < i /\ i <= x.end)
      <4>1. i \in Nat /\ n < i /\ i <= a /\ n \in Nat /\ a \in Nat /\ x.start \in Nat /\ x.end \in Nat
        BY <1>1, <1>2, <2>2
      <4>2. ~ (x.start < n /\ n < x.end)
        BY <1>10
      <4>3. n <= x.start => a <= x.start
        BY <2>1
      <4> HIDE DEF a
      <4> QED
        BY <4>1, <4>2, <4>3
    <3>2. QED
      BY <1>1, <2>2, <3>1, PiecesAre DEF P, L
  <2>7. \A i \in n..a : place[i] = place[n] + (i - n)
    BY <1>8, <2>2, <2>6
  <2>8. P(a + 1) = R /\ \A i \in (a + 2)..e : P(i) = <<>>
    BY <2>1, PiecesAre DEF P
  <2>9. place[a + 1] = place[a] + Len(R)
    <3>1. (a + 1) - 1 = a
      BY <2>2
    <3>2. QED
      BY <1>6, <2>2, <2>8, <3>1
  <2>10. place[e] = place[a + 1]
    <3>1. ASSUME NEW i \in ((a + 1) + 1)..e PROVE place[i] = place[i - 1] + 0
      <4>1. i \in (a + 2)..e /\ i \in 1..L /\ i - 1 \in 0..L
        BY <1>1, <2>2
      <4>2. Len(P(i)) = 0
        BY <2>8, <4>1
      <4>3. QED
        BY <1>6, <4>1, <4>2
    <3>2. place[a + 1] \in Nat /\ a + 1 \in Nat /\ e \in Nat /\ e \in (a + 1)..e
      BY SMTT(30), <1>1, <1>6, <2>2
    <3>3. \A i \in (a + 1)..e : place[i] = place[a + 1] + (IF 0 = 0 THEN 0 ELSE i - (a + 1))
      BY <3>1, <3>2, Ramp
    <3>4. place[e] = place[a + 1] + 0
      BY <3>2, <3>3
    <3>5. QED
      BY <3>2, <3>4
  <2>11. w[n] = (u \o R) \o w[e]
    BY <1>4, <1>10 DEF Writes, L
  <2>12. /\ u \in Seq(STRING) /\ Len(u) = a - n
         /\ \A j \in 1..(a - n) : u[j] = s.text[n + j]
    BY SMTT(30), <1>1, <2>2 DEF L
  <2> HIDE DEF c, R, a, e, u
  <2>13. /\ u \o R \in Seq(STRING) /\ Len(u \o R) = (a - n) + Len(R) /\ Len(R) \in Nat
         /\ \A j \in 1..(a - n) : (u \o R)[j] = s.text[n + j]
         /\ \A j \in 1..Len(R) : (u \o R)[(a - n) + j] = R[j]
    <3>1. Len(R) \in Nat /\ a - n \in Nat
      BY <1>1, <2>2, <2>3
    <3>2. /\ u \o R \in Seq(STRING) /\ Len(u \o R) = Len(u) + Len(R)
          /\ \A j \in 1..(Len(u) + Len(R)) : (u \o R)[j] = IF j <= Len(u) THEN u[j] ELSE R[j - Len(u)]
      BY <2>3, <2>12, ConcatProperties
    <3>3. \A j \in 1..(a - n) : j \in 1..(Len(u) + Len(R)) /\ j <= Len(u)
      BY <2>12, <3>1
    <3>4. \A j \in 1..Len(R) : /\ (a - n) + j \in 1..(Len(u) + Len(R)) /\ ~ ((a - n) + j <= Len(u))
                              /\ ((a - n) + j) - Len(u) = j
      BY <2>12, <3>1
    <3>5. QED
      BY <2>12, <3>1, <3>2, <3>3, <3>4
  <2>14. w[e] \in Seq(STRING) /\ Len(w[e]) = place[L] - place[e] /\ Len(w[e]) \in Nat
    BY <2>5
  <2>15. (a - n) + Len(R) = place[e] - place[n]
    <3>1. place[a] = place[n] + (a - n) /\ place[n] \in Nat
      <4>1. a \in n..a
        BY <2>2
      <4>2. QED
        BY <1>6, <2>7, <4>1
    <3>2. QED
      BY <1>1, <2>2, <2>9, <2>10, <2>13, <3>1
  <2>16. /\ w[n] \in Seq(STRING) /\ Len(w[n]) = place[L] - place[n]
         /\ \A j \in 1..(place[e] - place[n]) : w[n][j] = (u \o R)[j]
         /\ \A j \in 1..(place[L] - place[e]) : w[n][(place[e] - place[n]) + j] = w[e][j]
    <3> DEFINE v == u \o R
    <3>1. v \in Seq(STRING) /\ Len(v) = place[e] - place[n] /\ Len(v) \in Nat
      BY <1>1, <2>2, <2>13, <2>15
    <3> HIDE DEF v
    <3>2. /\ v \o w[e] \in Seq(STRING) /\ Len(v \o w[e]) = Len(v) + Len(w[e])
          /\ \A j \in 1..(Len(v) + Len(w[e])) :
               (v \o w[e])[j] = IF j <= Len(v) THEN v[j] ELSE w[e][j - Len(v)]
      BY <2>14, <3>1, ConcatProperties
    <3>3. w[n] = v \o w[e]
      BY <2>11 DEF v
    <3>4. place[n] \in Nat /\ place[e] \in Nat /\ place[L] \in Nat
      BY <1>1, <1>6, <2>2
    <3>5. \A j \in 1..Len(v) : j \in 1..(Len(v) + Len(w[e])) /\ j <= Len(v)
      BY <2>14, <3>1
    <3>6. \A j \in 1..Len(w[e]) : /\ Len(v) + j \in 1..(Len(v) + Len(w[e])) /\ ~ (Len(v) + j <= Len(v))
                                 /\ (Len(v) + j) - Len(v) = j
      BY <2>14, <3>1
    <3>7. \A j \in 1..Len(v) : w[n][j] = v[j]
      BY <3>2, <3>3, <3>5
    <3>8. \A j \in 1..Len(w[e]) : w[n][Len(v) + j] = w[e][j]
      BY <3>2, <3>3, <3>6
    <3>9. Len(w[n]) = place[L] - place[n]
      BY SMTT(30), <2>14, <3>1, <3>2, <3>3, <3>4
    <3>10. w[n] \in Seq(STRING)
      BY <3>2, <3>3
    <3>11. v = u \o R
      BY DEF v
    <3>12. QED
      BY <2>14, <3>1, <3>7, <3>8, <3>9, <3>10, <3>11
  <2>17. ASSUME NEW i \in (n + 1)..L, NEW k \in 1..Len(P(i))
         PROVE  w[n][place[i - 1] - place[n] + k] = P(i)[k]
    <3>1. CASE i <= a
      <4>1. P(i) = <<s.text[i]>> /\ k = 1
        <5>1. i \in (n + 1)..a
          BY <1>1, <2>2, <3>1
        <5>2. P(i) = <<s.text[i]>>
          BY <2>6, <5>1
        <5>3. QED
          BY <5>2
      <4>2. place[i - 1] - place[n] + k = i - n
        <5>1. i - 1 \in n..a /\ place[n] \in Nat
          BY <1>1, <1>6, <2>2, <3>1
        <5>2. place[i - 1] = place[n] + ((i - 1) - n)
          BY <2>7, <5>1
        <5>3. QED
          BY <1>1, <4>1, <5>1, <5>2
      <4>3. w[n][i - n] = s.text[i]
        <5>1. i - n \in 1..(a - n) /\ i - n \in 1..(place[e] - place[n]) /\ n + (i - n) = i
          BY SMTT(30), <1>1, <2>2, <2>13, <2>15, <3>1
        <5>2. QED
          BY <2>13, <2>16, <5>1
      <4>4. QED
        BY <4>1, <4>2, <4>3
    <3>2. CASE i = a + 1
      <4>1. P(i) = R /\ i - 1 = a /\ k \in 1..Len(R)
        BY <2>2, <2>8, <3>2
      <4>2. place[i - 1] - place[n] + k = (a - n) + k
        <5>1. place[a] = place[n] + (a - n) /\ place[n] \in Nat
          BY <1>1, <1>6, <2>2, <2>7
        <5>2. place[i - 1] = place[a] /\ a \in Nat /\ n \in Nat /\ k \in Nat
          BY <1>1, <2>2, <2>13, <4>1
        <5>3. QED
          BY <5>1, <5>2
      <4>3. (a - n) + k \in 1..(place[e] - place[n])
        BY SMTT(30), <2>2, <2>13, <2>15, <4>1
      <4>4. QED
        BY <2>13, <2>16, <4>1, <4>2, <4>3
    <3>3. CASE i \in (a + 2)..e
      <4>1. P(i) = <<>>
        BY <2>8, <3>3
      <4>2. QED
        BY <4>1
    <3>4. CASE i > e
      <4> DEFINE j == place[i - 1] - place[e] + k
      <4>1. i - 1 \in 0..L /\ i \in 1..L /\ e \in 0..L /\ L \in 0..L /\ n \in 0..L /\ i \in (e + 1)..L
            /\ e <= i - 1 /\ i <= L
        BY <1>1, <2>2, <3>4
      <4>2. place[e] <= place[i - 1] /\ place[i] <= place[L] /\ place[i] = place[i - 1] + Len(P(i))
        BY <1>6, <1>7, <4>1
      <4>3. place[e] \in Nat /\ place[i - 1] \in Nat /\ place[L] \in Nat /\ place[n] \in Nat
            /\ Len(P(i)) \in Nat
        BY <1>5, <1>6, <4>1
      <4>4. j \in 1..(place[L] - place[e])
        <5>1. k \in 1..Len(P(i))
          OBVIOUS
        <5>2. QED
          BY SMTT(30), <4>2, <4>3, <5>1
      <4>5. place[i - 1] - place[n] + k = (place[e] - place[n]) + j
        BY SMTT(30), <4>3
      <4>6. w[e][j] = P(i)[k]
        BY <2>5, <4>1
      <4>7. QED
        BY <2>16, <4>4, <4>5, <4>6
    <3>5. QED
      BY <1>1, <2>2, <3>1, <3>2, <3>3, <3>4
  <2>18. QED
    BY <2>16, <2>17
<1>11. ASSUME NEW n \in 0..L, Free(n), \A m \in (n + 1)..L : Free(m) => Right(m)
       PROVE  Right(n)
  BY <1>9, <1>10, <1>11
<1> HIDE DEF Right, Free
<1>12. 0 \in Good
  <2>1. L \in 0..L /\ \A m \in (L + 1)..L : FALSE
    BY <1>1
  <2>2. Free(L) => Right(L)
    BY <1>11, <2>1
  <2>3. QED
    BY <1>1, <2>2
<1>13. ASSUME NEW k \in Good PROVE k + 1 \in Good
  <2>1. SUFFICES ASSUME NEW m \in 0..(k + 1), m <= L, Free(L - m) PROVE Right(L - m)
    OBVIOUS
  <2>2. CASE m \in 0..k
    BY <2>1, <2>2
  <2>3. CASE m = k + 1
    <3>1. ASSUME NEW j \in ((L - m) + 1)..L, Free(j) PROVE Right(j)
      <4>1. L - j \in 0..k /\ L - j <= L /\ L - (L - j) = j
        BY <1>1, <2>1, <2>3
      <4>2. QED
        BY <3>1, <4>1
    <3>2. L - m \in 0..L
      BY <1>1, <2>1
    <3>3. QED
      BY <1>11, <2>1, <3>1, <3>2
  <2>4. QED
    BY <2>2, <2>3
<1>14. \A k \in Nat : k \in Good
  BY <1>12, <1>13, NatSetInduction
<1>15. Right(0)
  <2>1. L \in Good /\ L \in 0..L /\ L - L = 0
    BY <1>1, <1>14
  <2>2. Free(0)
    BY <1>2 DEF Free
  <2>3. QED
    BY <2>1, <2>2
<1>16. QED
  <2>1. /\ w[0] \in Seq(STRING)
        /\ Len(w[0]) = place[L]
        /\ \A i \in 1..L : \A k \in 1..Len(P(i)) : w[0][place[i - 1] + k] = P(i)[k]
    <3>1. \A i \in 1..L : place[i - 1] \in Nat
      BY <1>1, <1>6
    <3>2. QED
      BY SMTT(30), <1>1, <1>6, <1>15, <3>1 DEF Right
  <2>2. L \in 0..L /\ \A i \in 1..L : i - 1 \in 0..L
    BY <1>1
  <2>3. QED
    BY <1>4, <2>1, <2>2 DEF place, P, L

\* The order of the candidates, written out.
LEMMA BeforeIs ==
  ASSUME NEW c \in Candidate, NEW d \in Candidate
  PROVE  Before(c, d) <=>
           \/ c.priority > d.priority
           \/ /\ c.priority = d.priority
              /\ \/ c.end - c.start > d.end - d.start
                 \/ /\ c.end - c.start = d.end - d.start
                    /\ \/ c.start < d.start
                       \/ /\ c.start = d.start
                          /\ \/ c.source < d.source
                             \/ c.source = d.source /\ c.category < d.category
<1>1. /\ c.priority \in Nat /\ c.start \in Nat /\ c.end \in Nat /\ c.source \in Nat /\ c.category \in Nat
      /\ d.priority \in Nat /\ d.start \in Nat /\ d.end \in Nat /\ d.source \in Nat /\ d.category \in Nat
  BY CascadeAssumption DEF Candidate
<1>2. /\ Key(c)[1] = -c.priority /\ Key(c)[2] = c.start - c.end /\ Key(c)[3] = c.start
      /\ Key(c)[4] = c.source /\ Key(c)[5] = c.category
      /\ Key(d)[1] = -d.priority /\ Key(d)[2] = d.start - d.end /\ Key(d)[3] = d.start
      /\ Key(d)[4] = d.source /\ Key(d)[5] = d.category /\ DOMAIN Key(c) = 1..5
  BY DEF Key
<1>3. Before(c, d) <=> \E i \in 1..5 : Key(c)[i] < Key(d)[i] /\ \A k \in 1..(i - 1) : Key(c)[k] = Key(d)[k]
  BY <1>2 DEF Before
<1> DEFINE same(k) == Key(c)[k] = Key(d)[k]
           less(k) == Key(c)[k] < Key(d)[k]
<1>4. (\E i \in 1..5 : less(i) /\ \A k \in 1..(i - 1) : same(k))
        <=> \/ less(1)
            \/ less(2) /\ same(1)
            \/ less(3) /\ same(1) /\ same(2)
            \/ less(4) /\ same(1) /\ same(2) /\ same(3)
            \/ less(5) /\ same(1) /\ same(2) /\ same(3) /\ same(4)
  <2> HIDE DEF same, less
  <2>1. 1..5 = {1, 2, 3, 4, 5} /\ 1..(1 - 1) = {} /\ 1..(2 - 1) = {1} /\ 1..(3 - 1) = {1, 2}
        /\ 1..(4 - 1) = {1, 2, 3} /\ 1..(5 - 1) = {1, 2, 3, 4}
    OBVIOUS
  <2> DEFINE first(i) == less(i) /\ \A k \in 1..(i - 1) : same(k)
  <2>2. /\ first(1) <=> less(1)
        /\ first(2) <=> (less(2) /\ same(1))
        /\ first(3) <=> (less(3) /\ same(1) /\ same(2))
        /\ first(4) <=> (less(4) /\ same(1) /\ same(2) /\ same(3))
        /\ first(5) <=> (less(5) /\ same(1) /\ same(2) /\ same(3) /\ same(4))
    BY <2>1
  <2> HIDE DEF first
  <2>3. (\E i \in 1..5 : first(i)) <=> first(1) \/ first(2) \/ first(3) \/ first(4) \/ first(5)
    BY <2>1
  <2>4. QED
    BY <2>2, <2>3 DEF first
<1>5. QED
  BY <1>1, <1>2, <1>3, <1>4

\* It is a strict order, and total.
LEMMA BeforeOrders ==
  /\ \A c \in Candidate : ~ Before(c, c)
  /\ \A c, d, e \in Candidate : Before(c, d) /\ Before(d, e) => Before(c, e)
  /\ \A c, d \in Candidate : c # d => Before(c, d) \/ Before(d, c)
  /\ \A c, d \in Candidate :
       Before(c, d) => \/ c.priority > d.priority
                       \/ c.priority = d.priority /\ c.end - c.start >= d.end - d.start
<1>1. \A c \in Candidate : /\ c.priority \in Nat /\ c.start \in Nat /\ c.end \in Nat
                           /\ c.source \in Nat /\ c.category \in Nat
  BY CascadeAssumption DEF Candidate
<1>2. ASSUME NEW c \in Candidate PROVE ~ Before(c, c)
  BY <1>1, BeforeIs
<1>3. ASSUME NEW c \in Candidate, NEW d \in Candidate, NEW e \in Candidate, Before(c, d), Before(d, e)
      PROVE  Before(c, e)
  <2>3. QED
    BY <1>1, <1>3, BeforeIs
<1>4. ASSUME NEW c \in Candidate, NEW d \in Candidate, c # d PROVE Before(c, d) \/ Before(d, c)
  <2>1. \/ c.priority # d.priority \/ c.start # d.start \/ c.end # d.end \/ c.source # d.source
        \/ c.category # d.category
    BY <1>4 DEF Candidate
  <2>2. QED
    BY <1>1, <2>1, BeforeIs
<1>5. ASSUME NEW c \in Candidate, NEW d \in Candidate, Before(c, d)
      PROVE  \/ c.priority > d.priority
             \/ c.priority = d.priority /\ c.end - c.start >= d.end - d.start
  BY <1>1, <1>5, BeforeIs
<1>6. QED
  BY <1>2, <1>3, <1>4, <1>5

\* The image of a finite set is finite.
LEMMA FiniteImage ==
  ASSUME NEW S, IsFiniteSet(S), NEW f, NEW T, \A y \in T : \E x \in S : y = f[x]
  PROVE  IsFiniteSet(T)
<1> DEFINE U == {x \in S : f[x] \in T}
           g == [x \in U |-> f[x]]
<1>1. IsFiniteSet(U)
  BY FS_Subset
<1>2. g \in Surjection(U, T)
  BY DEF Surjection
<1>3. QED
  BY <1>1, <1>2, FS_Surjection

\* Candidates are resolved: what is accepted is apart, every other one loses to
\* one that is, by precedence, and something is accepted where there is anything.
LEMMA ResolveIs ==
  ASSUME NEW C \in SUBSET Candidate, IsFiniteSet(C), \A c \in C : c.start < c.end
  PROVE  /\ Resolve(C) \subseteq C
         /\ \A c, d \in Resolve(C) : Overlaps(c, d) => c = d
         /\ \A c \in C \ Resolve(C) : \E d \in Resolve(C) :
              /\ Overlaps(c, d)
              /\ \/ d.priority > c.priority
                 \/ d.priority = c.priority /\ d.end - d.start >= c.end - c.start
         /\ Resolve(C) = {} => C = {}
<1> DEFINE Blocks == {q \in C \X C : Before(q[1], q[2]) /\ Overlaps(q[1], q[2])}
           Order == {q \in C \X C : Before(q[1], q[2])}
           K == Resolve(C)
<1>1. ASSUME NEW T \in SUBSET C, T # {} PROVE \E c \in T : \A d \in T : <<d, c>> \notin Blocks
  <2>1. IsFiniteSet(T)
    BY FS_Subset
  <2>2. \A c, d \in T : <<c, d>> \in Order <=> Before(c, d)
    OBVIOUS
  <2>3. \A c, d \in T : <<c, d>> \in Blocks => Before(c, d)
    OBVIOUS
  <2>4. \A c \in T : c \in Candidate
    OBVIOUS
  <2> HIDE DEF Order, Blocks
  <2>5. \A c \in T : <<c, c>> \notin Order
    BY <2>2, <2>4, BeforeOrders
  <2>6. \A c, d, e \in T : <<c, d>> \in Order /\ <<d, e>> \in Order => <<c, e>> \in Order
    BY <2>2, <2>4, BeforeOrders
  <2>7. PICK c \in T : \A d \in T : <<d, c>> \notin Order
    BY <1>1, <2>1, <2>5, <2>6, FiniteMinimum
  <2>8. QED
    BY <2>2, <2>3, <2>7
<1>2. K \in SUBSET C /\ \A c \in C : c \in K <=> \A d \in K : <<d, c>> \notin Blocks
  <2>1. K = Greedy(C, Blocks)
    BY DEF Resolve
  <2> HIDE DEF K, Blocks
  <2>2. QED
    BY <1>1, <2>1, GreedyExists
<1>3. \A c, d \in C : <<c, d>> \in Blocks <=> Before(c, d) /\ Overlaps(c, d)
  OBVIOUS
<1> HIDE DEF Blocks, K
<1>4. \A c \in C : c \in K <=> \A d \in K : ~ (Before(d, c) /\ Overlaps(d, c))
  BY <1>2, <1>3
<1>5. \A c, d \in C : Overlaps(c, d) => Overlaps(d, c)
  BY DEF Overlaps
<1>6. \A c, d \in K : Overlaps(c, d) => c = d
  <2> SUFFICES ASSUME NEW c \in K, NEW d \in K, Overlaps(c, d), c # d PROVE FALSE
    OBVIOUS
  <2>1. c \in C /\ d \in C
    BY <1>2
  <2>2. Before(c, d) \/ Before(d, c)
    BY <2>1, BeforeOrders
  <2>3. QED
    BY <1>4, <1>5, <2>1, <2>2
<1>7. ASSUME NEW c \in C \ K
      PROVE  \E d \in K : /\ Overlaps(c, d)
                          /\ \/ d.priority > c.priority
                             \/ d.priority = c.priority /\ d.end - d.start >= c.end - c.start
  <2>1. PICK d \in K : Before(d, c) /\ Overlaps(d, c)
    BY <1>4
  <2>2. d \in C
    BY <1>2
  <2>3. Overlaps(c, d)
    BY <1>5, <2>1, <2>2
  <2>4. \/ d.priority > c.priority
        \/ d.priority = c.priority /\ d.end - d.start >= c.end - c.start
    BY <2>1, <2>2, BeforeOrders
  <2>5. QED
    BY <2>3, <2>4
<1>8. K = {} => C = {}
  BY <1>4
<1>9. QED
  BY <1>2, <1>6, <1>7, <1>8 DEF K

\* A pattern's matches are matches, and there is one where there is any.
LEMMA MatchesAre ==
  ASSUME NEW text \in Seq(STRING), NEW pattern \in Seq(STRING), Len(pattern) > 0
  PROVE  /\ Matches(text, pattern) \subseteq 0..Len(text)
         /\ \A i \in Matches(text, pattern) : MatchesAt(text, pattern, i)
         /\ Matches(text, pattern) = {} => \A i \in 0..Len(text) : ~ MatchesAt(text, pattern, i)
<1> DEFINE S == {i \in 0..Len(text) : MatchesAt(text, pattern, i)}
           Blocks == {q \in S \X S : q[1] < q[2] /\ q[2] < q[1] + Len(pattern)}
           K == Matches(text, pattern)
<1>1. Len(text) \in Nat
  OBVIOUS
<1>2. IsFiniteSet(0..Len(text)) /\ S \subseteq 0..Len(text)
  BY <1>1, FS_Interval
<1>3. IsFiniteSet(S)
  BY <1>2, FS_Subset
<1>4. ASSUME NEW T \in SUBSET S, T # {} PROVE \E c \in T : \A d \in T : <<d, c>> \notin Blocks
  <2>1. \A c \in T : c \in Nat
    BY <1>1
  <2>2. \A c, d \in T : <<c, d>> \in Blocks => c < d
    OBVIOUS
  <2> HIDE DEF S, Blocks
  <2>3. PICK c \in T : \A d \in T : c <= d
    <3>1. T \in SUBSET Nat
      BY <2>1
    <3>2. QED
      BY <1>4, <3>1, SmallestNat
  <2>4. \A d \in T : <<d, c>> \notin Blocks
    BY <2>1, <2>2, <2>3
  <2>5. QED
    BY <2>4
<1>5. K \in SUBSET S /\ \A c \in S : c \in K <=> \A d \in K : <<d, c>> \notin Blocks
  <2>1. K = Greedy(S, Blocks)
    BY DEF Matches
  <2> HIDE DEF K, S, Blocks
  <2>2. QED
    BY <1>3, <1>4, <2>1, GreedyExists
<1> HIDE DEF Blocks, K
<1>6. K = {} => S = {}
  BY <1>5
<1>7. K \subseteq 0..Len(text) /\ \A i \in K : MatchesAt(text, pattern, i)
  BY <1>5
<1>8. S = {} => \A i \in 0..Len(text) : ~ MatchesAt(text, pattern, i)
  OBVIOUS
<1>9. QED
  BY <1>6, <1>7, <1>8 DEF K

\* What the rules of a policy propose.
LEMMA RuleCandidatesAre ==
  ASSUME NEW text \in Seq(STRING), NEW p \in Policies
  PROVE  /\ RuleCandidates(text, p) \in SUBSET Candidate
         /\ IsFiniteSet(RuleCandidates(text, p))
         /\ \A c \in RuleCandidates(text, p) : c.start < c.end /\ c.end <= Len(text)
         /\ RuleCandidates(text, p) = {} =>
              \A r \in p.rules : \A i \in 0..Len(text) : ~ MatchesAt(text, r.pattern, i)
<1> DEFINE Span(r, i) == [start |-> i, end |-> i + Len(r.pattern), priority |-> r.priority,
                          source |-> r.id, category |-> r.category]
           Of(r) == {Span(r, i) : i \in Matches(text, r.pattern)}
           C == RuleCandidates(text, p)
<1>1. C = UNION {Of(r) : r \in p.rules}
  BY DEF RuleCandidates
<1>2. ASSUME NEW r \in p.rules
      PROVE  /\ Len(text) \in Nat /\ Len(r.pattern) \in Nat /\ Len(r.pattern) > 0
             /\ r.priority \in Nat /\ r.id \in Nat /\ r.category \in Categories
             /\ Matches(text, r.pattern) \subseteq 0..Len(text)
             /\ \A i \in Matches(text, r.pattern) : i + Len(r.pattern) <= Len(text)
             /\ Matches(text, r.pattern) = {} => \A i \in 0..Len(text) : ~ MatchesAt(text, r.pattern, i)
  <2>1. /\ r.pattern \in Seq(STRING) /\ Len(r.pattern) > 0
        /\ r.priority \in Nat /\ r.id \in Nat /\ r.category \in Categories
    BY CascadeAssumption
  <2> DEFINE M == Matches(text, r.pattern)
  <2>2. /\ M \subseteq 0..Len(text) /\ \A i \in M : MatchesAt(text, r.pattern, i)
        /\ M = {} => \A i \in 0..Len(text) : ~ MatchesAt(text, r.pattern, i)
    BY <2>1, MatchesAre
  <2>3. \A i \in M : i + Len(r.pattern) <= Len(text)
    BY <2>2 DEF MatchesAt
  <2>4. Len(text) \in Nat /\ Len(r.pattern) \in Nat
    BY <2>1
  <2>5. QED
    BY <2>1, <2>2, <2>3, <2>4
<1>3. ASSUME NEW r \in p.rules, NEW i \in Matches(text, r.pattern)
      PROVE  /\ Span(r, i) \in Candidate /\ Span(r, i).start < Span(r, i).end
             /\ Span(r, i).end <= Len(text)
  <2>1. i \in Nat
    BY <1>2
  <2>2. QED
    BY <1>2, <2>1 DEF Candidate
<1>4. ASSUME NEW r \in p.rules PROVE IsFiniteSet(Of(r))
  <2>1. IsFiniteSet(0..Len(text))
    BY FS_Interval
  <2>2. IsFiniteSet(Matches(text, r.pattern))
    BY <1>2, <2>1, FS_Subset
  <2> DEFINE f == [i \in Matches(text, r.pattern) |-> Span(r, i)]
  <2>3. \A y \in Of(r) : \E i \in Matches(text, r.pattern) : y = f[i]
    OBVIOUS
  <2> HIDE DEF f, Of
  <2>4. QED
    BY <2>2, <2>3, FiniteImage
<1> HIDE DEF Span, C
<1>5. IsFiniteSet({Of(r) : r \in p.rules})
  <2> DEFINE f == [r \in p.rules |-> Of(r)]
             T == {Of(r) : r \in p.rules}
  <2>1. \A y \in T : \E r \in p.rules : y = f[r]
    OBVIOUS
  <2>2. IsFiniteSet(p.rules)
    BY CascadeAssumption
  <2> HIDE DEF f, T
  <2>3. IsFiniteSet(T)
    BY <2>1, <2>2, FiniteImage
  <2>4. QED
    BY <2>3 DEF T
<1>6. IsFiniteSet(C)
  <2> DEFINE T == {Of(r) : r \in p.rules}
  <2>1. \A y \in T : IsFiniteSet(y)
    BY <1>4
  <2>2. IsFiniteSet(UNION T)
    BY <1>5, <2>1, FS_UNION
  <2>3. QED
    BY <1>1, <2>2
<1>7. \A c \in C : \E r \in p.rules : \E i \in Matches(text, r.pattern) : c = Span(r, i)
  BY <1>1
<1>8. C \in SUBSET Candidate /\ \A c \in C : c.start < c.end /\ c.end <= Len(text)
  BY <1>3, <1>7
<1>9. ASSUME C = {}, NEW r \in p.rules PROVE \A i \in 0..Len(text) : ~ MatchesAt(text, r.pattern, i)
  <2>1. \A i \in Matches(text, r.pattern) : Span(r, i) \in Of(r)
    OBVIOUS
  <2>2. Of(r) \subseteq C
    BY <1>1
  <2>3. Matches(text, r.pattern) = {}
    BY <1>9, <2>1, <2>2
  <2>4. QED
    BY <1>2, <2>3
<1>10. QED
  BY <1>6, <1>8, <1>9 DEF C

\* What a policy's classifiers propose, once every one has answered validly.
LEMMA ClassifierCandidatesAre ==
  ASSUME NEW text \in Seq(STRING), NEW p \in Policies, NEW answers,
         \A k \in p.classifiers : answers[k.id] \in Answers /\ \A s \in answers[k.id] : SpanIsValid(text, s)
  PROVE  /\ ClassifierCandidates(answers, p) \in SUBSET Candidate
         /\ IsFiniteSet(ClassifierCandidates(answers, p))
         /\ \A c \in ClassifierCandidates(answers, p) : c.start < c.end /\ c.end <= Len(text)
<1> DEFINE Span(k, s) == [start |-> s.start, end |-> s.end, priority |-> k.priority,
                          source |-> k.id, category |-> s.category]
           Of(k) == {Span(k, s) : s \in answers[k.id]}
           C == ClassifierCandidates(answers, p)
<1>1. C = UNION {Of(k) : k \in p.classifiers}
  BY DEF ClassifierCandidates
<1>2. ASSUME NEW k \in p.classifiers, NEW s \in answers[k.id]
      PROVE  /\ Span(k, s) \in Candidate /\ Span(k, s).start < Span(k, s).end
             /\ Span(k, s).end <= Len(text)
  <2>1. s.start \in Int /\ s.end \in Int /\ s.category \in Categories
    BY CascadeAssumption
  <2>2. 0 <= s.start /\ s.start < s.end /\ s.end <= Len(text)
    BY DEF SpanIsValid
  <2>3. k.priority \in Nat /\ k.id \in Nat
    BY CascadeAssumption
  <2>4. QED
    BY <2>1, <2>2, <2>3 DEF Candidate
<1>3. ASSUME NEW k \in p.classifiers PROVE IsFiniteSet(Of(k))
  <2>1. IsFiniteSet(answers[k.id])
    BY CascadeAssumption
  <2> DEFINE f == [s \in answers[k.id] |-> Span(k, s)]
  <2>2. \A y \in Of(k) : \E s \in answers[k.id] : y = f[s]
    OBVIOUS
  <2> HIDE DEF f, Of
  <2>3. QED
    BY <2>1, <2>2, FiniteImage
<1> HIDE DEF Span, C
<1>4. IsFiniteSet({Of(k) : k \in p.classifiers})
  <2> DEFINE f == [k \in p.classifiers |-> Of(k)]
             T == {Of(k) : k \in p.classifiers}
  <2>1. \A y \in T : \E k \in p.classifiers : y = f[k]
    OBVIOUS
  <2>2. IsFiniteSet(p.classifiers)
    BY CascadeAssumption
  <2> HIDE DEF f, T
  <2>3. IsFiniteSet(T)
    BY <2>1, <2>2, FiniteImage
  <2>4. QED
    BY <2>3 DEF T
<1>5. IsFiniteSet(C)
  <2> DEFINE T == {Of(k) : k \in p.classifiers}
  <2>1. \A y \in T : IsFiniteSet(y)
    BY <1>3
  <2>2. IsFiniteSet(UNION T)
    BY <1>4, <2>1, FS_UNION
  <2>3. QED
    BY <1>1, <2>2
<1>6. \A c \in C : \E k \in p.classifiers : \E s \in answers[k.id] : c = Span(k, s)
  BY <1>1
<1>7. C \in SUBSET Candidate /\ \A c \in C : c.start < c.end /\ c.end <= Len(text)
  BY <1>2, <1>6
<1>8. QED
  BY <1>5, <1>7 DEF C

Began == {"classifying", "digesting", "done"}

CandidatesOf(s) == RuleCandidates(s.text, s.policy) \cup ClassifierCandidates(s.answers, s.policy)

\* What is known of a job by itself: a cascade ("redact") or a rescan ("verify").
Sound(s, kind) ==
  /\ s.phase \in {"idle"} \cup Began \cup Errors
  /\ s.phase \in Began =>
       /\ s = [phase |-> s.phase, text |-> s.text, policy |-> s.policy,
               answers |-> s.answers, accepted |-> s.accepted]
       /\ s.text \in Seq(STRING) /\ s.policy \in Policies
       /\ DOMAIN s.answers \subseteq {k.id : k \in s.policy.classifiers}
       /\ s.answers \in [DOMAIN s.answers -> Answers]
       /\ s.phase # "classifying" =>
            /\ DOMAIN s.answers = {k.id : k \in s.policy.classifiers}
            /\ \A k \in DOMAIN s.answers : \A x \in s.answers[k] : SpanIsValid(s.text, x)
       /\ s.accepted = IF s.phase = "done" /\ kind = "redact" THEN Resolve(CandidatesOf(s)) ELSE {}
       /\ kind = "redact" => s.phase # "digesting"
       /\ s.phase # "classifying" /\ kind = "verify" => Resolve(CandidatesOf(s)) = {}

\* What is known of a cascade, its rescan and its output together.
Linked(s, t, out) ==
  /\ s.phase = "done" => out = Rendered(s.text, s.policy, s.accepted)
  /\ t.phase \in Began => s.phase = "done" /\ t.text = out
  /\ t.phase = "done" => SamePolicy(s.policy, t.policy)

Issued(r) ==
  \E c \in Calls :
    /\ r.result = c /\ r.rescan = c
    /\ scan[<<c, "redact">>].phase = "done" /\ scan[<<c, "verify">>].phase = "done"
    /\ r.policy = scan[<<c, "redact">>].policy.id /\ r.policy = scan[<<c, "verify">>].policy.id

\* Each job is what its phase says of it by itself, a rescan is of its
\* cascade's output under the same policy, and a receipt is of a pair whose
\* rescan is done.
CascadeInv ==
  /\ shared \in Policies /\ aborted \in [Calls -> BOOLEAN] /\ output \in [Calls -> Seq(STRING)]
  /\ scan = [j \in Jobs |-> scan[j]]
  /\ \A c \in Calls : \A kind \in {"redact", "verify"} : Sound(scan[<<c, kind>>], kind)
  /\ \A c \in Calls : Linked(scan[<<c, "redact">>], scan[<<c, "verify">>], output[c])
  /\ \A r \in receipts : Issued(r)

\* Nothing has begun.
LEMMA CascadeInit == Init => CascadeInv
<1> SUFFICES ASSUME Init PROVE CascadeInv
  OBVIOUS
<1>1. \A c \in Calls : \A kind \in {"redact", "verify"} :
        scan[<<c, kind>>] = Idle /\ scan[<<c, kind>>].phase = "idle"
  BY DEF Init, Idle, Jobs
<1>2. \A c \in Calls : \A kind \in {"redact", "verify"} : Sound(scan[<<c, kind>>], kind)
  BY ZenonT(40), <1>1 DEF Sound, Began
<1>3. \A c \in Calls : Linked(scan[<<c, "redact">>], scan[<<c, "verify">>], output[c])
  BY <1>1 DEF Linked, Began
<1>4. scan = [j \in Jobs |-> scan[j]]
  BY DEF Init
<1>5. shared \in Policies /\ aborted \in [Calls -> BOOLEAN] /\ output \in [Calls -> Seq(STRING)]
  BY DEF Init
<1>6. \A r \in receipts : Issued(r)
  BY DEF Init
<1>7. QED
  BY <1>2, <1>3, <1>4, <1>5, <1>6 DEF CascadeInv

\* A job that is not done goes on, and writes an output if it is a cascade.
LEMMA JobStep ==
  ASSUME CascadeInv, NEW c \in Calls, NEW kind \in {"redact", "verify"}, NEW x, NEW out \in Seq(STRING),
         scan[<<c, kind>>].phase # "done",
         scan' = [scan EXCEPT ![<<c, kind>>] = x],
         output' = [output EXCEPT ![c] = out],
         UNCHANGED <<shared, aborted, receipts>>,
         Sound(x, kind),
         Linked(IF kind = "redact" THEN x ELSE scan[<<c, "redact">>],
                IF kind = "verify" THEN x ELSE scan[<<c, "verify">>], out)
  PROVE  CascadeInv'
<1>1. \A d \in Calls : \A k \in {"redact", "verify"} :
        scan'[<<d, k>>] = IF d = c /\ k = kind THEN x ELSE scan[<<d, k>>]
  BY DEF CascadeInv, Jobs
<1>2. \A d \in Calls : output'[d] = IF d = c THEN out ELSE output[d]
  BY DEF CascadeInv
<1>3. \A d \in Calls : \A k \in {"redact", "verify"} : Sound(scan'[<<d, k>>], k)
  BY <1>1 DEF CascadeInv
<1>4. \A d \in Calls : Linked(scan'[<<d, "redact">>], scan'[<<d, "verify">>], output'[d])
  <2> SUFFICES ASSUME NEW d \in Calls
               PROVE  Linked(scan'[<<d, "redact">>], scan'[<<d, "verify">>], output'[d])
    OBVIOUS
  <2>1. CASE d = c
    <3>1. scan'[<<d, "redact">>] = IF kind = "redact" THEN x ELSE scan[<<c, "redact">>]
      BY <1>1, <2>1
    <3>2. scan'[<<d, "verify">>] = IF kind = "verify" THEN x ELSE scan[<<c, "verify">>]
      BY <1>1, <2>1
    <3>3. output'[d] = out
      BY <1>2, <2>1
    <3>4. QED
      BY <3>1, <3>2, <3>3
  <2>2. CASE d # c
    BY <1>1, <1>2, <2>2 DEF CascadeInv
  <2>3. QED
    BY <2>1, <2>2
<1>5. \A r \in receipts' : Issued(r)'
  <2> SUFFICES ASSUME NEW r \in receipts' PROVE Issued(r)'
    OBVIOUS
  <2>1. Issued(r)
    BY DEF CascadeInv
  <2>2. PICK d \in Calls :
          /\ r.result = d /\ r.rescan = d
          /\ scan[<<d, "redact">>].phase = "done" /\ scan[<<d, "verify">>].phase = "done"
          /\ r.policy = scan[<<d, "redact">>].policy.id /\ r.policy = scan[<<d, "verify">>].policy.id
    BY <2>1 DEF Issued
  <2>3. scan'[<<d, "redact">>] = scan[<<d, "redact">>] /\ scan'[<<d, "verify">>] = scan[<<d, "verify">>]
    BY <1>1, <2>2
  <2>4. QED
    BY <2>2, <2>3 DEF Issued
<1>6. scan' = [j \in Jobs |-> scan'[j]]
  BY DEF CascadeInv
<1>7. shared' \in Policies /\ aborted' \in [Calls -> BOOLEAN] /\ output' \in [Calls -> Seq(STRING)]
  BY DEF CascadeInv
<1>8. QED
  BY <1>3, <1>4, <1>5, <1>6, <1>7 DEF CascadeInv

\* It ends with an error.
LEMMA EndStep ==
  ASSUME CascadeInv, NEW c \in Calls, NEW kind \in {"redact", "verify"}, NEW error \in Errors,
         scan[<<c, kind>>].phase # "done", End(<<c, kind>>, error),
         UNCHANGED <<shared, aborted, output, receipts>>
  PROVE  CascadeInv'
<1> DEFINE x == [phase |-> error]
<1>1. x.phase \notin Began /\ x.phase # "done"
  BY DEF Errors, Began
<1>2. Sound(x, kind)
  BY <1>1 DEF Sound
<1>3. Linked(scan[<<c, "redact">>], scan[<<c, "verify">>], output[c])
  BY DEF CascadeInv
<1>4. Linked(IF kind = "redact" THEN x ELSE scan[<<c, "redact">>],
             IF kind = "verify" THEN x ELSE scan[<<c, "verify">>], output[c])
  <2>1. CASE kind = "redact"
    BY <1>1, <1>3, <2>1 DEF Linked, Began
  <2>2. CASE kind = "verify"
    BY <1>1, <1>3, <2>2 DEF Linked, Began
  <2>3. QED
    BY <2>1, <2>2
<1>5. output[c] \in Seq(STRING) /\ output' = [output EXCEPT ![c] = output[c]]
  BY DEF CascadeInv
<1>6. scan' = [scan EXCEPT ![<<c, kind>>] = x]
  BY DEF End
<1> HIDE DEF x
<1>7. QED
  BY <1>2, <1>4, <1>5, <1>6, JobStep

\* Each action.
LEMMA BeginStep ==
  ASSUME CascadeInv, NEW c \in Calls, NEW kind \in {"redact", "verify"}, NEW text \in Seq(STRING),
         Begin(<<c, kind>>, text),
         kind = "verify" => scan[<<c, "redact">>].phase = "done" /\ text = output[c]
  PROVE  CascadeInv'
<1> DEFINE x == [phase |-> "classifying", text |-> text, policy |-> shared,
                 answers |-> <<>>, accepted |-> {}]
<1>1. scan[<<c, kind>>].phase = "idle" /\ UNCHANGED <<shared, aborted, output, receipts>>
  BY DEF Begin
<1>2. \/ \E error \in Errors : End(<<c, kind>>, error)
      \/ scan' = [scan EXCEPT ![<<c, kind>>] = x]
  BY DEF Begin, Errors
<1>3. CASE \E error \in Errors : End(<<c, kind>>, error)
  BY <1>1, <1>3, EndStep
<1>4. CASE scan' = [scan EXCEPT ![<<c, kind>>] = x]
  <2>1. x.phase = "classifying" /\ x.text = text
    OBVIOUS
  <2>2. Sound(x, kind)
    <3>1. <<>> \in [DOMAIN <<>> -> Answers] /\ DOMAIN <<>> = {}
      OBVIOUS
    <3>2. shared \in Policies
      BY DEF CascadeInv
    <3>3. QED
      BY <3>1, <3>2 DEF Sound, Began
  <2> HIDE DEF x
  <2>3. Linked(scan[<<c, "redact">>], scan[<<c, "verify">>], output[c])
    BY DEF CascadeInv
  <2>4. Linked(IF kind = "redact" THEN x ELSE scan[<<c, "redact">>],
               IF kind = "verify" THEN x ELSE scan[<<c, "verify">>], output[c])
    <3>1. CASE kind = "redact"
      BY <1>1, <2>1, <2>3, <3>1 DEF Linked, Began
    <3>2. CASE kind = "verify"
      BY <2>1, <2>3, <3>2 DEF Linked, Began
    <3>3. QED
      BY <3>1, <3>2
  <2>5. output[c] \in Seq(STRING) /\ output' = [output EXCEPT ![c] = output[c]]
    BY <1>1 DEF CascadeInv
  <2>6. QED
    BY <1>1, <1>4, <2>2, <2>4, <2>5, JobStep
<1>5. QED
  BY <1>2, <1>3, <1>4

\* A classifier's answer, good or bad, leaves the rest of its job alone.
LEMMA AnswerStep ==
  ASSUME CascadeInv, NEW c \in Calls, NEW kind \in {"redact", "verify"}, NEW k, NEW spans \in Answers,
         Answer(<<c, kind>>, k, spans)
  PROVE  CascadeInv'
<1> DEFINE s == scan[<<c, kind>>]
           answers == [i \in DOMAIN s.answers \cup {k} |-> IF i = k THEN spans ELSE s.answers[i]]
           x == [s EXCEPT !.answers = answers]
<1>1. /\ s.phase = "classifying" /\ k \in {q.id : q \in s.policy.classifiers}
      /\ scan' = [scan EXCEPT ![<<c, kind>>] = x] /\ UNCHANGED <<shared, aborted, output, receipts>>
  BY DEF Answer, Unanswered
<1>2. Sound(s, kind)
  BY DEF CascadeInv
<1>3. s = [phase |-> "classifying", text |-> s.text, policy |-> s.policy,
           answers |-> s.answers, accepted |-> {}]
      /\ s.text \in Seq(STRING) /\ s.policy \in Policies
      /\ DOMAIN s.answers \subseteq {q.id : q \in s.policy.classifiers}
      /\ s.answers \in [DOMAIN s.answers -> Answers]
  BY <1>1, <1>2 DEF Sound, Began
<1>4. x = [phase |-> "classifying", text |-> s.text, policy |-> s.policy,
           answers |-> answers, accepted |-> {}]
  <2>1. s = [phase |-> "classifying", text |-> s.text, policy |-> s.policy,
             answers |-> s.answers, accepted |-> {}]
    BY <1>3
  <2> HIDE DEF answers
  <2>2. QED
    BY <2>1
<1>5. /\ DOMAIN answers \subseteq {q.id : q \in s.policy.classifiers}
      /\ answers \in [DOMAIN answers -> Answers]
  BY <1>1, <1>3
<1> HIDE DEF s, answers, x
<1>6. x.phase = "classifying" /\ x.text = s.text /\ Sound(x, kind)
  BY <1>3, <1>4, <1>5 DEF Sound, Began
<1>7. Linked(scan[<<c, "redact">>], scan[<<c, "verify">>], output[c])
  BY DEF CascadeInv
<1>8. Linked(IF kind = "redact" THEN x ELSE scan[<<c, "redact">>],
             IF kind = "verify" THEN x ELSE scan[<<c, "verify">>], output[c])
  <2>1. CASE kind = "redact"
    BY <1>1, <1>6, <1>7, <2>1 DEF Linked, Began, s
  <2>2. CASE kind = "verify"
    BY <1>1, <1>6, <1>7, <2>2 DEF Linked, Began, s
  <2>3. QED
    BY <2>1, <2>2
<1>9. output[c] \in Seq(STRING) /\ output' = [output EXCEPT ![c] = output[c]]
  BY <1>1 DEF CascadeInv
<1>10. scan[<<c, kind>>].phase # "done"
  BY <1>1 DEF s
<1>11. QED
  BY <1>1, <1>6, <1>8, <1>9, <1>10, JobStep

\* A job whose classifiers have all answered usably.
LEMMA UsableIs ==
  ASSUME CascadeInv, NEW c \in Calls, NEW kind \in {"redact", "verify"}, Usable(<<c, kind>>)
  PROVE  LET s == scan[<<c, kind>>]
         IN  /\ s = [phase |-> "classifying", text |-> s.text, policy |-> s.policy,
                     answers |-> s.answers, accepted |-> {}]
             /\ s.phase = "classifying" /\ s.text \in Seq(STRING) /\ s.policy \in Policies
             /\ DOMAIN s.answers = {k.id : k \in s.policy.classifiers}
             /\ s.answers \in [DOMAIN s.answers -> Answers]
             /\ \A k \in DOMAIN s.answers : \A x \in s.answers[k] : SpanIsValid(s.text, x)
             /\ Candidates(<<c, kind>>) = CandidatesOf(s)
<1> DEFINE s == scan[<<c, kind>>]
<1>1. s.phase = "classifying" /\ Unanswered(<<c, kind>>) = {} /\ ~ Invalid(<<c, kind>>)
  BY DEF Usable, Answered
<1>2. Sound(s, kind)
  BY DEF CascadeInv
<1>3. /\ s = [phase |-> "classifying", text |-> s.text, policy |-> s.policy,
              answers |-> s.answers, accepted |-> {}]
      /\ s.text \in Seq(STRING) /\ s.policy \in Policies
      /\ DOMAIN s.answers \subseteq {q.id : q \in s.policy.classifiers}
      /\ s.answers \in [DOMAIN s.answers -> Answers]
  BY <1>1, <1>2 DEF Sound, Began
<1>4. DOMAIN s.answers = {k.id : k \in s.policy.classifiers}
  BY <1>1, <1>3 DEF Unanswered
<1>5. \A k \in DOMAIN s.answers : \A x \in s.answers[k] : SpanIsValid(s.text, x)
  BY <1>1 DEF Invalid
<1>6. Candidates(<<c, kind>>) = CandidatesOf(s)
  BY DEF Candidates, CandidatesOf, CascadePolicy
<1>7. QED
  BY <1>1, <1>3, <1>4, <1>5, <1>6

\* Its candidates can be resolved.
LEMMA CandidatesAre ==
  ASSUME NEW s, s.text \in Seq(STRING), s.policy \in Policies,
         DOMAIN s.answers = {k.id : k \in s.policy.classifiers},
         s.answers \in [DOMAIN s.answers -> Answers],
         \A k \in DOMAIN s.answers : \A x \in s.answers[k] : SpanIsValid(s.text, x)
  PROVE  /\ CandidatesOf(s) \in SUBSET Candidate /\ IsFiniteSet(CandidatesOf(s))
         /\ \A d \in CandidatesOf(s) : d.start < d.end /\ d.end <= Len(s.text)
         /\ Apart(s.text, Resolve(CandidatesOf(s)))
<1> DEFINE R == RuleCandidates(s.text, s.policy)
           K == ClassifierCandidates(s.answers, s.policy)
<1>1. R \in SUBSET Candidate /\ IsFiniteSet(R) /\ \A d \in R : d.start < d.end /\ d.end <= Len(s.text)
  BY RuleCandidatesAre
<1>2. \A k \in s.policy.classifiers :
        s.answers[k.id] \in Answers /\ \A x \in s.answers[k.id] : SpanIsValid(s.text, x)
  OBVIOUS
<1>3. K \in SUBSET Candidate /\ IsFiniteSet(K) /\ \A d \in K : d.start < d.end /\ d.end <= Len(s.text)
  BY <1>2, ClassifierCandidatesAre
<1> HIDE DEF R, K
<1>4. CandidatesOf(s) = R \cup K
  BY DEF CandidatesOf, R, K
<1>5. /\ CandidatesOf(s) \in SUBSET Candidate /\ IsFiniteSet(CandidatesOf(s))
      /\ \A d \in CandidatesOf(s) : d.start < d.end /\ d.end <= Len(s.text)
  <2>1. IsFiniteSet(R \cup K)
    BY <1>1, <1>3, FS_Union
  <2>2. QED
    BY <1>1, <1>3, <1>4, <2>1
<1>6. Apart(s.text, Resolve(CandidatesOf(s)))
  BY <1>5, ResolveIs DEF Apart
<1>7. QED
  BY <1>5, <1>6

\* The cascade settles on the winners and writes the output.
LEMMA RewriteStep ==
  ASSUME CascadeInv, NEW c \in Calls, Rewrite(c)
  PROVE  CascadeInv'
<1> DEFINE s == scan[<<c, "redact">>]
           accepted == Resolve(CandidatesOf(s))
           x == [s EXCEPT !.phase = "done", !.accepted = accepted]
           out == Rendered(s.text, s.policy, accepted)
<1>1. /\ s = [phase |-> "classifying", text |-> s.text, policy |-> s.policy,
              answers |-> s.answers, accepted |-> {}]
      /\ s.phase = "classifying" /\ s.text \in Seq(STRING) /\ s.policy \in Policies
      /\ DOMAIN s.answers = {k.id : k \in s.policy.classifiers}
      /\ s.answers \in [DOMAIN s.answers -> Answers]
      /\ \A k \in DOMAIN s.answers : \A y \in s.answers[k] : SpanIsValid(s.text, y)
      /\ Candidates(<<c, "redact">>) = CandidatesOf(s)
  BY UsableIs DEF Rewrite
<1>2. /\ scan' = [scan EXCEPT ![<<c, "redact">>] = x]
      /\ output' = [output EXCEPT ![c] = out]
      /\ UNCHANGED <<shared, aborted, receipts>>
  BY <1>1 DEF Rewrite
<1>3. Apart(s.text, accepted)
  BY <1>1, CandidatesAre
<1> HIDE DEF accepted
<1>4. x = [phase |-> "done", text |-> s.text, policy |-> s.policy,
           answers |-> s.answers, accepted |-> accepted]
  <2>1. s = [phase |-> "classifying", text |-> s.text, policy |-> s.policy,
             answers |-> s.answers, accepted |-> {}]
    BY <1>1
  <2> DEFINE y == [s EXCEPT !.phase = "done"]
  <2>2. y = [phase |-> "done", text |-> s.text, policy |-> s.policy,
             answers |-> s.answers, accepted |-> {}]
    BY <2>1
  <2> HIDE DEF y
  <2>3. [y EXCEPT !.accepted = accepted]
          = [phase |-> "done", text |-> s.text, policy |-> s.policy,
             answers |-> s.answers, accepted |-> accepted]
    BY <2>2
  <2>4. x = [y EXCEPT !.accepted = accepted]
    BY DEF y
  <2>5. QED
    BY <2>3, <2>4
<1>5. out \in Seq(STRING)
  <2>1. x.text \in Seq(STRING) /\ x.policy \in Policies /\ Apart(x.text, x.accepted)
    BY <1>1, <1>3, <1>4
  <2>2. Rendered(x.text, x.policy, x.accepted) \in Seq(STRING)
    BY <2>1, RenderedIs
  <2>3. QED
    BY <1>4, <2>2
<1>6. CandidatesOf(x) = CandidatesOf(s)
  BY <1>4 DEF CandidatesOf
<1>7. Sound(x, "redact")
  BY <1>1, <1>4, <1>6 DEF Sound, Began, accepted
<1>8. Linked(s, scan[<<c, "verify">>], output[c])
  BY DEF CascadeInv
<1>9. Linked(x, scan[<<c, "verify">>], out)
  BY <1>1, <1>4, <1>8 DEF Linked, Began
<1>10. scan[<<c, "redact">>].phase # "done"
  BY <1>1
<1> HIDE DEF x, out
<1>11. QED
  BY <1>2, <1>5, <1>7, <1>9, <1>10, JobStep

\* The rescan settles, and is done only if it found nothing.
LEMMA RescanStep ==
  ASSUME CascadeInv, NEW c \in Calls, Rescan(c)
  PROVE  CascadeInv'
<1> DEFINE s == scan[<<c, "verify">>]
           x == [s EXCEPT !.phase = "digesting"]
<1>1. /\ s = [phase |-> "classifying", text |-> s.text, policy |-> s.policy,
              answers |-> s.answers, accepted |-> {}]
      /\ s.phase = "classifying" /\ s.text \in Seq(STRING) /\ s.policy \in Policies
      /\ DOMAIN s.answers = {k.id : k \in s.policy.classifiers}
      /\ s.answers \in [DOMAIN s.answers -> Answers]
      /\ \A k \in DOMAIN s.answers : \A y \in s.answers[k] : SpanIsValid(s.text, y)
      /\ Candidates(<<c, "verify">>) = CandidatesOf(s)
  BY UsableIs DEF Rescan
<1>2. UNCHANGED <<shared, aborted, output, receipts>>
  BY DEF Rescan
<1>3. CASE Clean(<<c, "verify">>)
  <2>1. scan' = [scan EXCEPT ![<<c, "verify">>] = x] /\ Resolve(CandidatesOf(s)) = {}
    BY <1>1, <1>3 DEF Rescan, Clean
  <2>2. x = [phase |-> "digesting", text |-> s.text, policy |-> s.policy,
             answers |-> s.answers, accepted |-> {}]
    <3>1. s = [phase |-> "classifying", text |-> s.text, policy |-> s.policy,
               answers |-> s.answers, accepted |-> {}]
      BY <1>1
    <3>2. QED
      BY <3>1
  <2>3. CandidatesOf(x) = CandidatesOf(s)
    BY <2>2 DEF CandidatesOf
  <2>4. Sound(x, "verify")
    BY <1>1, <2>1, <2>2, <2>3 DEF Sound, Began
  <2>5. Linked(scan[<<c, "redact">>], s, output[c])
    BY DEF CascadeInv
  <2>6. Linked(scan[<<c, "redact">>], x, output[c])
    BY <1>1, <2>2, <2>5 DEF Linked, Began
  <2>7. output[c] \in Seq(STRING) /\ output' = [output EXCEPT ![c] = output[c]]
    BY <1>2 DEF CascadeInv
  <2>8. scan[<<c, "verify">>].phase # "done"
    BY <1>1
  <2> HIDE DEF x
  <2>9. QED
    BY <1>2, <2>1, <2>4, <2>6, <2>7, <2>8, JobStep
<1>4. CASE ~ Clean(<<c, "verify">>)
  <2>1. End(<<c, "verify">>, "invalid_policy") /\ "invalid_policy" \in Errors
    BY <1>4 DEF Rescan, Errors
  <2>2. QED
    BY <1>1, <1>2, <2>1, EndStep
<1>5. QED
  BY <1>3, <1>4

\* A rescan begins, of the output it is given.
LEMMA PairStep ==
  ASSUME CascadeInv, NEW c \in Calls, Pair(c)
  PROVE  CascadeInv'
<1> DEFINE s == scan[<<c, "verify">>]
           r == scan[<<c, "redact">>]
           x == [s EXCEPT !.phase = "done"]
<1>1. s.phase = "digesting" /\ UNCHANGED <<shared, aborted, output, receipts>>
  BY DEF Pair
<1>2. Sound(s, "verify") /\ Linked(r, s, output[c])
  BY DEF CascadeInv
<1>3. CASE SamePolicy(r.policy, s.policy)
  <2>1. scan' = [scan EXCEPT ![<<c, "verify">>] = x]
    BY <1>3 DEF Pair
  <2>2. s = [phase |-> "digesting", text |-> s.text, policy |-> s.policy,
             answers |-> s.answers, accepted |-> {}]
    BY <1>1, <1>2 DEF Sound, Began
  <2>3. x = [phase |-> "done", text |-> s.text, policy |-> s.policy,
             answers |-> s.answers, accepted |-> {}]
    BY <2>2
  <2>4. CandidatesOf(x) = CandidatesOf(s)
    BY <2>3 DEF CandidatesOf
  <2>5. Sound(x, "verify")
    BY <1>1, <1>2, <2>3, <2>4 DEF Sound, Began
  <2>6. Linked(r, x, output[c])
    BY <1>1, <1>2, <1>3, <2>3 DEF Linked, Began
  <2>7. output[c] \in Seq(STRING) /\ output' = [output EXCEPT ![c] = output[c]]
    BY <1>1 DEF CascadeInv
  <2>8. scan[<<c, "verify">>].phase # "done"
    BY <1>1
  <2> HIDE DEF x
  <2>9. QED
    BY <1>1, <2>1, <2>5, <2>6, <2>7, <2>8, JobStep
<1>4. CASE ~ SamePolicy(r.policy, s.policy)
  <2>1. End(<<c, "verify">>, "invalid_redaction_result") /\ "invalid_redaction_result" \in Errors
    BY <1>4 DEF Pair, Errors
  <2>2. QED
    BY <1>1, <2>1, EndStep
<1>5. QED
  BY <1>3, <1>4

\* A receipt is issued, a caller aborts, the owner changes the policy: no job is
\* touched.
LEMMA OtherStep ==
  ASSUME CascadeInv, UNCHANGED <<scan, output>>, shared' \in Policies, aborted' \in [Calls -> BOOLEAN],
         \A r \in receipts' : r \in receipts \/ Issued(r)
  PROVE  CascadeInv'
<1>1. \A r \in receipts' : Issued(r)'
  BY DEF CascadeInv, Issued
<1>2. /\ output' \in [Calls -> Seq(STRING)]
      /\ scan' = [j \in Jobs |-> scan'[j]]
      /\ \A c \in Calls : \A kind \in {"redact", "verify"} : Sound(scan'[<<c, kind>>], kind)
      /\ \A c \in Calls : Linked(scan'[<<c, "redact">>], scan'[<<c, "verify">>], output'[c])
  BY DEF CascadeInv
<1>3. QED
  BY <1>1, <1>2 DEF CascadeInv

LEMMA CascadeStep == CascadeInv /\ [Next]_vars => CascadeInv'
<1> SUFFICES ASSUME CascadeInv, [Next]_vars PROVE CascadeInv'
  OBVIOUS
<1>1. ASSUME NEW c \in Calls, NEW text \in Texts, Redact(c, text) PROVE CascadeInv'
  BY <1>1, BeginStep, CascadeAssumption DEF Redact
<1>2. ASSUME NEW c \in Calls, Verify(c) PROVE CascadeInv'
  <2>1. output[c] \in Seq(STRING)
    BY DEF CascadeInv
  <2>2. QED
    BY <1>2, <2>1, BeginStep DEF Verify
<1>3. ASSUME NEW c \in Calls, VerifyForged(c) PROVE CascadeInv'
  BY <1>3, EndStep DEF VerifyForged, Errors
<1>4. ASSUME NEW c \in Calls, Abort(c) PROVE CascadeInv'
  <2>1. shared' \in Policies /\ aborted' \in [Calls -> BOOLEAN]
    BY <1>4 DEF Abort, CascadeInv
  <2>2. QED
    BY <1>4, <2>1, OtherStep DEF Abort
<1>5. ASSUME NEW c \in Calls, NEW d \in Calls, NEW p \in Policies, Issue(c, d, p.id) PROVE CascadeInv'
  <2>1. Issued([result |-> c, rescan |-> d, policy |-> p.id])
    BY <1>5 DEF Issue, Issued
  <2>2. shared' \in Policies /\ aborted' \in [Calls -> BOOLEAN]
    BY <1>5 DEF Issue, CascadeInv
  <2>3. QED
    BY <1>5, <2>1, <2>2, OtherStep DEF Issue
<1>6. ASSUME NEW c \in Calls, NEW kind \in {"redact", "verify"}, ClassifierFails(<<c, kind>>)
      PROVE  CascadeInv'
  <2>1. \E error \in Errors : End(<<c, kind>>, error)
    BY <1>6 DEF ClassifierFails, Errors
  <2>2. QED
    BY <1>6, <2>1, EndStep DEF ClassifierFails
<1>7. ASSUME NEW c \in Calls, NEW kind \in {"redact", "verify"}, Reject(<<c, kind>>)
      PROVE  CascadeInv'
  <2>1. \E error \in Errors : End(<<c, kind>>, error)
    BY <1>7 DEF Reject, Errors
  <2>2. QED
    BY <1>7, <2>1, EndStep DEF Reject, Answered
<1>8. CASE OwnerChanges
  <2>1. shared' \in Policies /\ aborted' \in [Calls -> BOOLEAN]
    BY <1>8 DEF OwnerChanges, CascadeInv
  <2>2. QED
    BY <1>8, <2>1, OtherStep DEF OwnerChanges
<1>9. CASE UNCHANGED vars
  <2>1. shared' \in Policies /\ aborted' \in [Calls -> BOOLEAN]
    BY <1>9 DEF vars, CascadeInv
  <2>2. QED
    BY <1>9, <2>1, OtherStep DEF vars
<1>10. ASSUME NEW c \in Calls,
              \/ \E text \in Texts : Redact(c, text)
              \/ Verify(c) \/ VerifyForged(c) \/ Rewrite(c) \/ Rescan(c) \/ Pair(c) \/ Abort(c)
              \/ \E d \in Calls : \E p \in Policies : Issue(c, d, p.id)
       PROVE  CascadeInv'
  BY <1>1, <1>2, <1>3, <1>4, <1>5, <1>10, RewriteStep, RescanStep, PairStep
<1>11. ASSUME NEW j \in Jobs,
              \/ ClassifierFails(j) \/ Reject(j)
              \/ \E k \in UNION {{q.id : q \in p.classifiers} : p \in Policies} :
                   \E spans \in Answers : Answer(j, k, spans)
       PROVE  CascadeInv'
  <2>1. PICK c \in Calls, kind \in {"redact", "verify"} : j = <<c, kind>>
    BY DEF Jobs
  <2>2. CASE ClassifierFails(j) \/ Reject(j)
    BY <1>6, <1>7, <2>1, <2>2
  <2>3. ASSUME NEW k, NEW spans \in Answers, Answer(j, k, spans) PROVE CascadeInv'
    BY <2>1, <2>3, AnswerStep
  <2>4. QED
    BY <1>11, <2>2, <2>3
<1>12. QED
  BY <1>8, <1>9, <1>10, <1>11 DEF Next

\* The invariant, of every behaviour.
LEMMA CascadeAlways == Spec => []CascadeInv
  BY CascadeInit, CascadeStep, PTL DEF Spec

\* What is known of a cascade that is done.
LEMMA RedactedIs ==
  ASSUME CascadeInv, NEW c \in Calls, Redacted(c)
  PROVE  LET s == scan[<<c, "redact">>]
         IN  /\ s.text \in Seq(STRING) /\ s.policy \in Policies
             /\ CandidatesOf(s) \in SUBSET Candidate /\ IsFiniteSet(CandidatesOf(s))
             /\ \A d \in CandidatesOf(s) : d.start < d.end /\ d.end <= Len(s.text)
             /\ s.accepted = Resolve(CandidatesOf(s)) /\ Apart(s.text, s.accepted)
             /\ output[c] = Rendered(s.text, s.policy, s.accepted)
<1> DEFINE s == scan[<<c, "redact">>]
<1>1. Sound(s, "redact") /\ Linked(s, scan[<<c, "verify">>], output[c]) /\ s.phase = "done"
  BY DEF CascadeInv, Redacted
<1>2. /\ s.text \in Seq(STRING) /\ s.policy \in Policies
      /\ DOMAIN s.answers = {k.id : k \in s.policy.classifiers}
      /\ s.answers \in [DOMAIN s.answers -> Answers]
      /\ \A k \in DOMAIN s.answers : \A x \in s.answers[k] : SpanIsValid(s.text, x)
      /\ s.accepted = Resolve(CandidatesOf(s))
  BY <1>1 DEF Sound, Began
<1>3. /\ CandidatesOf(s) \in SUBSET Candidate /\ IsFiniteSet(CandidatesOf(s))
      /\ \A d \in CandidatesOf(s) : d.start < d.end /\ d.end <= Len(s.text)
      /\ Apart(s.text, Resolve(CandidatesOf(s)))
  BY <1>2, CandidatesAre
<1>4. output[c] = Rendered(s.text, s.policy, s.accepted)
  BY <1>1 DEF Linked
<1>5. QED
  BY <1>2, <1>3, <1>4

LEMMA CascadeTypes == CascadeInv => TypeOK
<1> SUFFICES ASSUME CascadeInv PROVE TypeOK
  OBVIOUS
<1>1. ASSUME NEW c \in Calls, NEW kind \in {"redact", "verify"} PROVE ScanOK(scan[<<c, kind>>])
  <2> DEFINE s == scan[<<c, kind>>]
  <2>1. Sound(s, kind)
    BY DEF CascadeInv
  <2>2. s.phase \in {"idle", "classifying", "digesting", "done"} \cup Errors
    BY <2>1 DEF Sound, Began
  <2>3. ASSUME s.phase \in Began
        PROVE  /\ s.policy \in Policies
               /\ DOMAIN s.answers \subseteq {k.id : k \in s.policy.classifiers}
               /\ \A k \in DOMAIN s.answers : s.answers[k] \in Answers
    BY <2>1, <2>3 DEF Sound
  <2>4. ASSUME s.phase \in Began, NEW d \in s.accepted
        PROVE  d \in Candidate /\ d.start < d.end /\ d.end <= Len(s.text)
    <3>1. s.phase = "done" /\ kind = "redact"
      BY <2>1, <2>4 DEF Sound
    <3>2. Apart(s.text, s.accepted)
      BY <3>1, RedactedIs DEF Redacted
    <3>3. QED
      BY <2>4, <3>2 DEF Apart
  <2>5. QED
    BY <2>2, <2>3, <2>4 DEF ScanOK, Began
<1>2. ASSUME NEW j \in Jobs PROVE ScanOK(scan[j])
  <2>1. PICK c \in Calls, kind \in {"redact", "verify"} : j = <<c, kind>>
    BY DEF Jobs
  <2>2. QED
    BY <1>1, <2>1
<1>3. \A c \in Calls : scan[<<c, "verify">>].phase \in {"classifying", "digesting", "done"}
                         => scan[<<c, "verify">>].text = output[c]
  BY DEF CascadeInv, Linked, Began
<1>4. DOMAIN scan = Jobs /\ shared \in Policies /\ aborted \in [Calls -> BOOLEAN]
  BY DEF CascadeInv
<1>5. QED
  BY <1>2, <1>3, <1>4 DEF TypeOK

LEMMA CascadeIsExact == CascadeInv => RedactionIsExact
<1> SUFFICES ASSUME CascadeInv PROVE RedactionIsExact
  OBVIOUS
<1>1. WinnersByPrecedence
  <2> SUFFICES ASSUME NEW c \in Calls, Redacted(c)
               PROVE  LET s == scan[<<c, "redact">>]
                          all == RuleCandidates(s.text, s.policy) \cup ClassifierCandidates(s.answers, s.policy)
                      IN  /\ s.accepted \subseteq all
                          /\ \A x, y \in s.accepted : Overlaps(x, y) => x = y
                          /\ \A x \in all \ s.accepted : \E y \in s.accepted :
                               /\ Overlaps(x, y)
                               /\ \/ y.priority > x.priority
                                  \/ y.priority = x.priority /\ y.end - y.start >= x.end - x.start
    BY DEF WinnersByPrecedence
  <2> DEFINE s == scan[<<c, "redact">>]
             C == CandidatesOf(s)
             K == s.accepted
  <2>1. C \in SUBSET Candidate /\ IsFiniteSet(C) /\ (\A d \in C : d.start < d.end) /\ K = Resolve(C)
    BY RedactedIs
  <2>2. C = RuleCandidates(s.text, s.policy) \cup ClassifierCandidates(s.answers, s.policy)
    BY DEF CandidatesOf
  <2> HIDE DEF C, K
  <2>3. /\ K \subseteq C
        /\ \A x, y \in K : Overlaps(x, y) => x = y
        /\ \A x \in C \ K : \E y \in K :
             /\ Overlaps(x, y)
             /\ \/ y.priority > x.priority
                \/ y.priority = x.priority /\ y.end - y.start >= x.end - x.start
    BY <2>1, ResolveIs
  <2>4. QED
    BY <2>2, <2>3 DEF K
<1>2. OnlySpansAreReplaced
  <2> SUFFICES ASSUME NEW c \in Calls, Redacted(c)
               PROVE  LET s == scan[<<c, "redact">>]
                      IN  /\ Len(output[c]) = Place(s, Len(s.text))
                          /\ \A i \in 1..Len(s.text) : \A n \in 1..Len(Piece(s, i)) :
                               output[c][Place(s, i - 1) + n] = Piece(s, i)[n]
    BY DEF OnlySpansAreReplaced
  <2> DEFINE s == scan[<<c, "redact">>]
  <2>1. /\ s.text \in Seq(STRING) /\ s.policy \in Policies /\ Apart(s.text, s.accepted)
        /\ output[c] = Rendered(s.text, s.policy, s.accepted)
    BY RedactedIs
  <2> HIDE DEF s
  <2>2. /\ Len(output[c]) = Place(s, Len(s.text))
        /\ \A i \in 1..Len(s.text) : \A n \in 1..Len(Piece(s, i)) :
             output[c][Place(s, i - 1) + n] = Piece(s, i)[n]
    BY <2>1, RenderedIs
  <2>3. QED
    BY <2>2 DEF s
<1>3. OutputIsDetermined
  <2> SUFFICES ASSUME NEW c \in Calls, NEW d \in Calls, Redacted(c), Redacted(d),
                      scan[<<c, "redact">>].text = scan[<<d, "redact">>].text,
                      scan[<<c, "redact">>].policy = scan[<<d, "redact">>].policy,
                      scan[<<c, "redact">>].answers = scan[<<d, "redact">>].answers
               PROVE  output[c] = output[d]
    BY DEF OutputIsDetermined
  <2>1. CandidatesOf(scan[<<c, "redact">>]) = CandidatesOf(scan[<<d, "redact">>])
    BY DEF CandidatesOf
  <2>2. QED
    BY <2>1, RedactedIs
<1>4. QED
  BY <1>1, <1>2, <1>3, CascadeTypes DEF RedactionIsExact

LEMMA CascadeVouches == CascadeInv => VouchedForByRescan
<1> SUFFICES ASSUME CascadeInv PROVE VouchedForByRescan
  OBVIOUS
<1>1. RescannedIsClean
  <2> SUFFICES ASSUME NEW c \in Calls, scan[<<c, "verify">>].phase = "done",
                      NEW r \in scan[<<c, "verify">>].policy.rules
               PROVE  \A i \in 0..Len(output[c]) : ~ MatchesAt(output[c], r.pattern, i)
    BY DEF RescannedIsClean
  <2> DEFINE s == scan[<<c, "verify">>]
  <2>1. Sound(s, "verify") /\ Linked(scan[<<c, "redact">>], s, output[c])
    BY DEF CascadeInv
  <2>2. /\ s.text \in Seq(STRING) /\ s.policy \in Policies
        /\ DOMAIN s.answers = {k.id : k \in s.policy.classifiers}
        /\ s.answers \in [DOMAIN s.answers -> Answers]
        /\ \A k \in DOMAIN s.answers : \A x \in s.answers[k] : SpanIsValid(s.text, x)
        /\ Resolve(CandidatesOf(s)) = {} /\ s.text = output[c]
    BY <2>1 DEF Sound, Linked, Began
  <2>3. CandidatesOf(s) \in SUBSET Candidate /\ IsFiniteSet(CandidatesOf(s))
        /\ \A d \in CandidatesOf(s) : d.start < d.end
    BY <2>2, CandidatesAre
  <2>4. CandidatesOf(s) = {}
    BY <2>2, <2>3, ResolveIs
  <2>5. RuleCandidates(s.text, s.policy) = {}
    BY <2>4 DEF CandidatesOf
  <2>6. \A i \in 0..Len(s.text) : ~ MatchesAt(s.text, r.pattern, i)
    BY <2>2, <2>5, RuleCandidatesAre
  <2>7. QED
    BY <2>2, <2>6
<1>2. ReceiptsArePaired
  <2> SUFFICES ASSUME NEW r \in receipts
               PROVE  LET s == scan[<<r.result, "redact">>]
                          t == scan[<<r.rescan, "verify">>]
                      IN  /\ s.phase = "done" /\ t.phase = "done"
                          /\ t.text = output[r.result] /\ r.result = r.rescan
                          /\ s.policy.id = r.policy /\ t.policy.id = r.policy
                          /\ Sources(s.policy) = Sources(t.policy)
    BY DEF ReceiptsArePaired
  <2>1. Issued(r)
    BY DEF CascadeInv
  <2>2. PICK c \in Calls :
          /\ r.result = c /\ r.rescan = c
          /\ scan[<<c, "redact">>].phase = "done" /\ scan[<<c, "verify">>].phase = "done"
          /\ r.policy = scan[<<c, "redact">>].policy.id /\ r.policy = scan[<<c, "verify">>].policy.id
    BY <2>1 DEF Issued
  <2>3. Linked(scan[<<c, "redact">>], scan[<<c, "verify">>], output[c])
    BY DEF CascadeInv
  <2>4. /\ scan[<<c, "verify">>].text = output[c]
        /\ Sources(scan[<<c, "redact">>].policy) = Sources(scan[<<c, "verify">>].policy)
    BY <2>2, <2>3 DEF Linked, Began, SamePolicy
  <2>5. QED
    BY <2>2, <2>4
<1>3. QED
  BY <1>1, <1>2 DEF VouchedForByRescan

\* For all texts, policies and answers: what a cascade returns is the text but
\* for the spans that won, by precedence, whatever the order of the answers and
\* whoever changes the policy object meanwhile (redactWithCascade).
THEOREM RedactionExact == Spec => []RedactionIsExact
  BY CascadeAlways, CascadeIsExact, PTL

\* A receipt is of an output that its own policy's rescan found clean, whatever
\* spans lost to an overlap and whatever the replacements made of their
\* neighbourhood (verifyRedactionResult, issuePrivacyDecisionReceipt).
THEOREM VouchedFor == Spec => []VouchedForByRescan
  BY CascadeAlways, CascadeVouches, PTL


-------------------------------------------------------------------------------
(* One file. *)

Writers == Keepers \cup Askers

\* Who has created the file at the path, unless others took it away.
Owner(w) == step[w] \in {"write", "finish", "sync", "close"} \/ answer[w] = "created"

\* Who has passed the sync has the whole content in the file; and while nobody
\* else meddles, whoever has created the file is one, and the file at the path
\* is that one's.
FileInv ==
  /\ File!TypeOK
  /\ \A w \in Writers :
       /\ step[w] = "open" => content[w] = "absent"
       /\ step[w] = "sync" => content[w] = "whole"
       /\ w \in synced => step[w] \notin {"open", "write", "finish"}
       /\ (step[w] = "close" /\ ~failure[w]) \/ answer[w] = "created" => w \in synced
  /\ meddling = 0 =>
       /\ \A v, w \in Writers : Owner(v) /\ Owner(w) => v = w
       /\ \A w \in Writers : Owner(w) /\ (\E v \in Writers : step[v] # "dead") => entry = w

LEMMA FileBegins == RecordsInit => FileInv
BY RecordsAssumption DEF RecordsInit, File!Init, FileInv, File!TypeOK, File!Steps, File!WriterAssumption, Owner, Writers

LEMMA FileActs == FileInv /\ File!Next => FileInv'
<1> SUFFICES ASSUME FileInv, File!Next PROVE FileInv'
  OBVIOUS
<1> USE RecordsAssumption DEF File!WriterAssumption, File!TypeOK, File!Steps, File!Go, File!Tell, File!Fill, File!Break, Writers
<1>1. ASSUME NEW w \in Writers, File!Open(w) PROVE FileInv'
  <2>1. CASE entry = Vacant /\ File!Go(w, "write") /\ entry' = w /\ File!Fill(w, "empty") /\ UNCHANGED <<answer, failure, synced, meddling>>
    <3>1. File!TypeOK'
      BY <1>1, <2>1 DEF FileInv, File!Open
    <3>2. ASSUME meddling = 0, NEW v \in Writers, Owner(v)' PROVE v = w
      BY <1>1, <2>1, <3>2 DEF FileInv, File!Open, Owner
    <3> QED
      BY <1>1, <2>1, <3>1, <3>2 DEF FileInv, File!Open
  <2>2. CASE File!Go(w, "over") /\ (File!Tell(w, "exists") \/ File!Tell(w, "failed")) /\ UNCHANGED <<entry, content, failure, synced, meddling>>
    BY <1>1, <2>2 DEF FileInv, File!Open, Owner
  <2> QED
    BY <1>1, <2>1, <2>2 DEF File!Open
<1>2. ASSUME NEW w \in Writers, File!Write(w) PROVE FileInv'
  <2>1. \A v \in Writers : Owner(v)' => Owner(v)
    BY <1>2 DEF FileInv, File!Write, Owner
  <2>2. File!TypeOK'
    <3>1. CASE step[w] = "write" /\ File!Go(w, "finish") /\ File!Fill(w, "part") /\ UNCHANGED failure
      BY <1>2, <3>1 DEF FileInv, File!Write
    <3>2. CASE step[w] = "finish" /\ File!Go(w, "sync") /\ File!Fill(w, "whole") /\ UNCHANGED failure
      BY <1>2, <3>2 DEF FileInv, File!Write
    <3>3. CASE File!Break(w) /\ UNCHANGED content
      BY <1>2, <3>3 DEF FileInv, File!Write
    <3> QED
      BY <1>2, <3>1, <3>2, <3>3 DEF File!Write
  <2>3. \A v \in Writers :
          /\ step'[v] = "open" => content'[v] = "absent"
          /\ step'[v] = "sync" => content'[v] = "whole"
          /\ v \in synced => step'[v] \notin {"open", "write", "finish"}
          /\ (step'[v] = "close" /\ ~failure'[v]) \/ answer[v] = "created" => v \in synced
    BY <1>2 DEF FileInv, File!Write
  <2> QED
    BY <1>2, <2>1, <2>2, <2>3 DEF FileInv, File!Write
<1>3. ASSUME NEW w \in Writers, File!Sync(w) PROVE FileInv'
  <2>1. \A v \in Writers : Owner(v)' => Owner(v)
    BY <1>3 DEF FileInv, File!Sync, Owner
  <2>2. File!TypeOK'
    <3>1. CASE File!Go(w, "close") /\ synced' = synced \cup {w} /\ UNCHANGED failure
      BY <1>3, <3>1 DEF FileInv, File!Sync
    <3>2. CASE File!Break(w) /\ UNCHANGED synced
      BY <1>3, <3>2 DEF FileInv, File!Sync
    <3> QED
      BY <1>3, <3>1, <3>2 DEF File!Sync
  <2>3. \A v \in Writers :
          /\ step'[v] = "open" => content'[v] = "absent"
          /\ step'[v] = "sync" => content'[v] = "whole"
          /\ v \in synced' => step'[v] \notin {"open", "write", "finish"}
          /\ (step'[v] = "close" /\ ~failure'[v]) \/ answer[v] = "created" => v \in synced'
    BY <1>3 DEF FileInv, File!Sync
  <2> QED
    BY <1>3, <2>1, <2>2, <2>3 DEF FileInv, File!Sync
<1>4. ASSUME NEW w \in Writers, File!Close(w) PROVE FileInv'
  BY <1>4 DEF FileInv, File!Close, Owner
<1>5. ASSUME NEW w \in Writers, File!Dies(w) PROVE FileInv'
  BY <1>5 DEF FileInv, File!Dies, Owner
<1>6. CASE File!Meddle
  BY <1>6 DEF FileInv, File!Meddle, Owner
<1>7. CASE File!PowerLoss
  <2>1. PICK lost \in SUBSET {w \in Writers \ synced : content[w] # "absent"} :
          content' = [w \in Writers |-> IF w \in lost THEN "empty" ELSE content[w]]
    BY <1>7 DEF File!PowerLoss
  <2>2. \A w \in Writers : step'[w] = "dead" /\ (w \in synced => content'[w] = content[w])
    BY <1>7, <2>1 DEF File!PowerLoss
  <2>3. \A w \in Writers : content'[w] \in {"absent", "empty", "part", "whole"}
    BY <2>1 DEF FileInv
  <2>4. UNCHANGED <<failure, answer, synced, meddling>> /\ step' \in [Writers -> {"dead"}] /\ entry' \in {entry, Vacant}
    BY <1>7 DEF File!PowerLoss
  <2>5. content' \in [Writers -> {"absent", "empty", "part", "whole"}]
    BY <2>1, <2>3
  <2>6. File!TypeOK'
    BY <2>2, <2>4, <2>5 DEF FileInv
  <2>7. \A w \in Writers : Owner(w)' => Owner(w)
    BY <2>2, <2>4 DEF Owner
  <2> QED
    BY <2>2, <2>4, <2>6, <2>7 DEF FileInv
<1> QED
  BY <1>1, <1>2, <1>3, <1>4, <1>5, <1>6, <1>7 DEF File!Next, File!WriterStep

LEMMA FileStays == FileInv /\ UNCHANGED fileVars => FileInv'
BY DEF FileInv, fileVars, Owner, File!TypeOK

LEMMA FileStep == [RecordsNext]_recordsVars => [File!Next]_(File!vars) /\ (File!Next \/ UNCHANGED fileVars)
BY DEF RecordsNext, recordsVars, fileVars, File!vars

LEMMA FileAlways == RecordsSpec => []FileInv
<1>1. FileInv /\ [RecordsNext]_recordsVars => FileInv'
  BY FileStep, FileActs, FileStays
<1> QED
  BY FileBegins, <1>1, PTL DEF RecordsSpec

LEMMA FileSound == FileInv => File!TypeOK /\ File!CreatedIsWhole /\ File!OneCreator
BY DEF FileInv, File!TypeOK, File!CreatedIsWhole, File!OneCreator, Owner, Writers

\* No step of a writer but its own opening of a vacant path changes what is
\* there.
LEMMA FileClobbers ==
  FileInv /\ [RecordsNext]_recordsVars =>
    [\A w \in Writers :
       step'[w] # step[w] /\ step'[w] # "dead" /\ entry' # entry =>
         entry = Vacant /\ entry' = w /\ content[w] = "absent"]_(File!vars)
<1> SUFFICES ASSUME FileInv, File!Next, NEW w \in Writers, step'[w] # step[w], step'[w] # "dead", entry' # entry
             PROVE entry = Vacant /\ entry' = w /\ content[w] = "absent"
  BY FileStep
<1>0. step \in [Writers -> File!Steps]
  BY DEF FileInv, File!TypeOK, Writers
<1>1. ASSUME NEW v \in Writers, File!Open(v) PROVE entry = Vacant /\ entry' = w /\ content[w] = "absent"
  BY <1>0, <1>1 DEF File!Open, File!Go, FileInv, File!Steps
<1>2. ~File!Meddle
  BY DEF File!Meddle
<1>3. ~File!PowerLoss
  BY DEF File!PowerLoss, Writers
<1>4. \A v \in Writers : ~File!Write(v) /\ ~File!Sync(v) /\ ~File!Close(v) /\ ~File!Dies(v)
  BY DEF File!Write, File!Sync, File!Close, File!Dies
<1> QED
  BY <1>1, <1>2, <1>3, <1>4 DEF File!Next, File!WriterStep, Writers

\* For any number of writers, wherever they fail, die or lose power: a file that
\* is said to be created is whole, is said so to one writer, and was made over
\* nothing (issueCapabilitySnapshotChallengeFile and the evidence file: open
\* exclusively, write, sync, close).
THEOREM Created == RecordsSpec => CreatedIsOwn
<1>1. FileInv /\ [RecordsNext]_recordsVars =>
    [\A w \in Keepers \cup Askers :
       step'[w] # step[w] /\ step'[w] # "dead" /\ entry' # entry =>
         entry = Vacant /\ entry' = w /\ content[w] = "absent"]_(File!vars)
  BY FileClobbers DEF Writers
<1> QED
  BY FileAlways, FileSound, <1>1, PTL DEF CreatedIsOwn, File!NothingIsClobbered, RecordsSpec

-------------------------------------------------------------------------------
(* The attestation. *)

\* What is wrong with what is held: nothing of it was, if it is verified.
Wrong == Attestation!Incoherences(held) \cup Attestation!Mismatches(held) \cup Attestation!Lapses(held, clock)

\* The statement is of what was issued, which was coherent; what is verified
\* has nothing wrong with it at this moment, and what is refused has what it is
\* refused for.
AttestationInv ==
  /\ Attestation!TypeOK
  /\ held \in Attestation!Evidence
  /\ attestationAt = "issuing" => held = issued
  /\ statement # Attestation!NoStatement => statement = Attestation!Statement(issued) /\ Attestation!Incoherences(issued) = {}
  /\ attestationAt \in {"signed", "verified"} => statement # Attestation!NoStatement
  /\ attestationAt = "verified" => Wrong = {}
  /\ attestationAt = "refused" /\ statement # Attestation!NoStatement => refusal \in Wrong

\* What is found wrong is one of the codes of its kind, and never that nothing
\* is.
LEMMA CodesAre ==
  ASSUME NEW e, NEW t
  PROVE  /\ Attestation!Incoherences(e) \subseteq Attestation!Codes
         /\ Attestation!Mismatches(e) \subseteq Attestation!Codes
         /\ Attestation!Lapses(e, t) \subseteq Attestation!TimeCodes
         /\ "none" \notin Attestation!Codes \cup Attestation!TimeCodes
<1>1. Attestation!Incoherences(e) \subseteq Attestation!Codes
  BY DEF Attestation!Incoherences, Attestation!Codes, Attestation!DateErrors
<1>2. Attestation!Mismatches(e) \subseteq Attestation!Codes
  BY DEF Attestation!Mismatches, Attestation!Codes
<1>3. Attestation!Lapses(e, t) \subseteq Attestation!TimeCodes
  BY DEF Attestation!Lapses, Attestation!TimeCodes
<1> QED
  BY <1>1, <1>2, <1>3 DEF Attestation!Codes, Attestation!TimeCodes

\* A statement is never taken for the absence of one.
LEMMA StatementIsOne ==
  ASSUME NEW e
  PROVE  Attestation!Statement(e) # Attestation!NoStatement
<1>1. DOMAIN Attestation!Statement(e) = {"subject", "fabric", "profile", "policy", "audience", "scope", "challenge"}
  BY DEF Attestation!Statement
<1>2. DOMAIN Attestation!NoStatement = {}
  BY DEF Attestation!NoStatement
<1> QED
  BY <1>1, <1>2

\* Evidence is of seven pieces.
LEMMA EvidenceIs ==
  ASSUME NEW e \in Attestation!Evidence
  PROVE  DOMAIN e = {"fabric", "snapshot", "bindings", "report", "profile", "policy", "challenge"}
BY DEF Attestation!Evidence

LEMMA AttestationBegins == RecordsInit => AttestationInv
<1> SUFFICES ASSUME RecordsInit PROVE AttestationInv
  OBVIOUS
<1>1. held \in Attestation!Evidence
  BY RecordsAssumption DEF RecordsInit, Attestation!Init, Attestation!AttestationAssumption
<1> QED
  BY <1>1, EvidenceIs, RecordsAssumption
  DEF AttestationInv, RecordsInit, Attestation!Init, Attestation!TypeOK, Attestation!AttestationAssumption,
      Attestation!Codes, Attestation!TimeCodes

LEMMA AttestationActs == AttestationInv /\ Attestation!Next => AttestationInv'
<1> SUFFICES ASSUME AttestationInv, Attestation!Next PROVE AttestationInv'
  OBVIOUS
<1>0. /\ EvidenceSets \subseteq Attestation!Evidence /\ MaxTime \in Nat /\ MaxExchanges \in Nat
      /\ held \in Attestation!Evidence /\ Attestation!TypeOK
  BY RecordsAssumption DEF Attestation!AttestationAssumption, AttestationInv
<1>1. CASE Attestation!Issue
  <2>1. CASE Attestation!Incoherences(held) = {} /\ attestationAt' = "signed" /\ statement' = Attestation!Statement(held) /\ UNCHANGED refusal
    BY <1>0, <1>1, <2>1, StatementIsOne DEF AttestationInv, Attestation!Issue, Attestation!TypeOK
  <2>2. CASE attestationAt' = "refused" /\ refusal' \in Attestation!Incoherences(held) /\ UNCHANGED statement
    BY <1>0, <1>1, <2>2, CodesAre DEF AttestationInv, Attestation!Issue, Attestation!TypeOK
  <2> QED
    BY <1>1, <2>1, <2>2 DEF Attestation!Issue
<1>2. CASE Attestation!Exchange
  <2>1. PICK e \in EvidenceSets, piece \in DOMAIN held : held' = [held EXCEPT ![piece] = e[piece]]
    BY <1>2 DEF Attestation!Exchange
  <2>2. e \in Attestation!Evidence
    BY <1>0
  <2>3. held' \in Attestation!Evidence
    BY <1>0, <2>1, <2>2, EvidenceIs DEF Attestation!Evidence
  <2> QED
    BY <1>0, <1>2, <2>3, EvidenceIs DEF AttestationInv, Attestation!Exchange, Attestation!TypeOK
<1>3. CASE Attestation!Relist
  <2>1. held' = [held EXCEPT !.fabric = [held.fabric EXCEPT !.listing = 1 - held.fabric.listing]]
    BY <1>0, <1>3 DEF Attestation!Relist, Attestation!Evidence
  <2>2. [held.fabric EXCEPT !.listing = 1 - held.fabric.listing] \in [targets : SUBSET Targets, preference : Nat, listing : {0, 1}]
    BY <1>0 DEF Attestation!Evidence
  <2>3. held' \in Attestation!Evidence
    BY SMTT(30), <1>0, <2>1, <2>2 DEF Attestation!Evidence
  <2> QED
    BY <1>0, <1>3, <2>3, EvidenceIs DEF AttestationInv, Attestation!Relist, Attestation!TypeOK
<1>4. CASE Attestation!Tick
  BY <1>0, <1>4 DEF AttestationInv, Attestation!Tick, Attestation!TypeOK
<1>5. CASE Attestation!Verify
  <2>0. (Attestation!Incoherences(held) = Attestation!Incoherences(held)')
     /\ (Attestation!Mismatches(held) = Attestation!Mismatches(held)')
     /\ (Attestation!Lapses(held, clock) = Attestation!Lapses(held, clock)')
    BY <1>5 DEF Attestation!Verify, Attestation!Mismatches, Attestation!Incoherences, Attestation!Lapses
  <2>1. Wrong' = Wrong
    BY <2>0 DEF Wrong
  <2>2. CASE Wrong = {} /\ attestationAt' = "verified" /\ UNCHANGED refusal
    BY <1>0, <1>5, <2>1, <2>2 DEF AttestationInv, Attestation!Verify, Attestation!TypeOK
  <2>3. CASE attestationAt' = "refused" /\ refusal' \in Wrong
    <3>1. refusal' \in Attestation!Codes \cup Attestation!TimeCodes /\ refusal' # "none"
      BY <2>3, CodesAre DEF Wrong
    <3> QED
      BY <1>0, <1>5, <2>1, <2>3, <3>1 DEF AttestationInv, Attestation!Verify, Attestation!TypeOK
  <2> QED
    BY <1>5, <2>2, <2>3 DEF Attestation!Verify, Wrong
<1> QED
  BY <1>1, <1>2, <1>3, <1>4, <1>5 DEF Attestation!Next

LEMMA AttestationStays == AttestationInv /\ UNCHANGED attestationVars => AttestationInv'
<1> SUFFICES ASSUME AttestationInv, UNCHANGED attestationVars PROVE AttestationInv'
  OBVIOUS
<1>1. (Attestation!Incoherences(held) = Attestation!Incoherences(held)')
     /\ (Attestation!Mismatches(held) = Attestation!Mismatches(held)')
     /\ (Attestation!Lapses(held, clock) = Attestation!Lapses(held, clock)')
  BY DEF attestationVars, Attestation!Mismatches, Attestation!Incoherences, Attestation!Lapses
<1>2. Wrong' = Wrong
  BY <1>1 DEF Wrong
<1> QED
  BY <1>2 DEF AttestationInv, attestationVars, Attestation!TypeOK

LEMMA AttestationAlways == RecordsSpec => []AttestationInv
<1>1. AttestationInv /\ [RecordsNext]_recordsVars => AttestationInv'
  BY AttestationActs, AttestationStays DEF RecordsNext, recordsVars, attestationVars
<1> QED
  BY AttestationBegins, <1>1, PTL DEF RecordsSpec

\* What it means that no incoherence was found.
LEMMA CoherentMeans ==
  ASSUME NEW e, Attestation!Incoherences(e) = {}
  PROVE  /\ e.challenge.audience = e.policy.audience
         /\ e.report.qualified
         /\ e.snapshot.offers # {} /\ e.snapshot.offers = e.report.results
         /\ e.snapshot.binding = e.bindings.digest /\ e.report.binding = e.bindings.digest
         /\ e.snapshot.targets \subseteq e.fabric.targets
         /\ \A s \in e.snapshot.offers : s[1] \in e.snapshot.healthy
         /\ \A s \in e.report.results : e.report.kind[s] = e.bindings.kind[s]
         /\ e.snapshot.expires - e.snapshot.observed <= e.policy.ttl
         /\ e.snapshot.observed \in (e.challenge.issued - e.policy.skew)..(e.challenge.expires + e.policy.skew - 1)
<1>1. DEFINE C(c, code) == IF c THEN {} ELSE {code}
<1>2. /\ C(e.challenge.audience = e.policy.audience, "audience_mismatch") = {}
      /\ C(e.report.qualified, "qualification_required") = {}
      /\ C(Attestation!ScopesMatch(e) /\ \A s \in e.snapshot.offers : s[1] \in e.snapshot.healthy, "target_scope_mismatch") = {}
      /\ C(e.snapshot.binding = e.bindings.digest, "snapshot_binding_mismatch") = {}
      /\ C(e.report.binding = e.bindings.digest, "report_binding_mismatch") = {}
      /\ C(e.snapshot.targets \subseteq e.fabric.targets, "fabric_target_mismatch") = {}
      /\ C(\A s \in e.report.results : e.report.kind[s] = e.bindings.kind[s], "operation_binding_mismatch") = {}
      /\ Attestation!DateErrors(e) = {}
  BY DEF Attestation!Incoherences
<1>3. C(e.snapshot.expires - e.snapshot.observed <= e.policy.ttl, "snapshot_ttl_exceeded") = {}
      /\ C(e.snapshot.observed \in (e.challenge.issued - e.policy.skew)..(e.challenge.expires + e.policy.skew - 1), "snapshot_outside_challenge") = {}
  BY <1>2 DEF Attestation!DateErrors
<1> QED
  BY <1>2, <1>3 DEF Attestation!ScopesMatch

\* What matches the statement is, piece by piece, what the statement was made
\* of.
LEMMA MatchedMeans ==
  ASSUME NEW e, Attestation!Mismatches(e) = {}, NEW f, statement = Attestation!Statement(f)
  PROVE  /\ e.snapshot = f.snapshot /\ e.bindings = f.bindings /\ e.report = f.report
         /\ e.profile = f.profile /\ e.policy = f.policy
         /\ e.fabric.targets = f.fabric.targets /\ e.fabric.preference = f.fabric.preference
         /\ e.challenge.value = f.challenge.value /\ e.challenge.issued = f.challenge.issued
         /\ e.challenge.expires = f.challenge.expires
<1>1. /\ statement.subject = Attestation!Statement(e).subject
      /\ statement.challenge = Attestation!Statement(e).challenge
      /\ statement.policy = Attestation!Statement(e).policy
      /\ <<statement.fabric, statement.profile, statement.scope>> =
           <<Attestation!Statement(e).fabric, Attestation!Statement(e).profile, Attestation!Statement(e).scope>>
  BY DEF Attestation!Mismatches
<1>2. /\ <<e.snapshot, e.bindings, e.report>> = <<f.snapshot, f.bindings, f.report>>
      /\ Attestation!Lease(e.challenge) = Attestation!Lease(f.challenge)
      /\ e.policy = f.policy /\ e.profile = f.profile
      /\ Attestation!FabricDigest(e.fabric) = Attestation!FabricDigest(f.fabric)
  BY <1>1 DEF Attestation!Statement
<1> QED
  BY <1>2 DEF Attestation!Lease, Attestation!FabricDigest

\* The content a signature covers: all of six pieces, and the targets and the
\* preference of the fabric, whose lists may be in another order.
LEMMA SameIsSame ==
  ASSUME NEW e \in Attestation!Evidence, NEW f \in Attestation!Evidence
  PROVE  Attestation!SameContent(e, f) <=>
           /\ e.snapshot = f.snapshot /\ e.bindings = f.bindings /\ e.report = f.report
           /\ e.profile = f.profile /\ e.policy = f.policy /\ e.challenge = f.challenge
           /\ e.fabric.targets = f.fabric.targets /\ e.fabric.preference = f.fabric.preference
<1> DEFINE Unlisted(g) == [fabric |-> [targets |-> g.fabric.targets, preference |-> g.fabric.preference, listing |-> 0],
                           snapshot |-> g.snapshot, bindings |-> g.bindings, report |-> g.report,
                           profile |-> g.profile, policy |-> g.policy, challenge |-> g.challenge]
<1>1. ASSUME NEW g \in Attestation!Evidence PROVE [g EXCEPT !.fabric.listing = 0] = Unlisted(g)
  <2>1. [g.fabric EXCEPT !.listing = 0] = [targets |-> g.fabric.targets, preference |-> g.fabric.preference, listing |-> 0]
    BY DEF Attestation!Evidence
  <2> QED
    BY <2>1 DEF Attestation!Evidence
<1>2. Attestation!SameContent(e, f) <=> Unlisted(e) = Unlisted(f)
  BY <1>1 DEF Attestation!SameContent
<1>3. Unlisted(e) = Unlisted(f) =>
        /\ e.snapshot = f.snapshot /\ e.bindings = f.bindings /\ e.report = f.report
        /\ e.profile = f.profile /\ e.policy = f.policy /\ e.challenge = f.challenge
        /\ Unlisted(e).fabric = Unlisted(f).fabric
  OBVIOUS
<1>4. Unlisted(e).fabric = Unlisted(f).fabric =>
        e.fabric.targets = f.fabric.targets /\ e.fabric.preference = f.fabric.preference
  OBVIOUS
<1> QED
  BY <1>2, <1>3, <1>4

\* What is not late is within the lease and the snapshot's lifetime, with the
\* skew.
LEMMA InTimeMeans ==
  ASSUME NEW e, NEW t, Attestation!Lapses(e, t) = {}
  PROVE  t < e.challenge.expires + e.policy.skew /\ t < e.snapshot.expires + e.policy.skew
BY DEF Attestation!Lapses

LEMMA VerifiedIsIssued == AttestationInv => Attestation!VerifiedAsIssued
<1> SUFFICES ASSUME AttestationInv, attestationAt = "verified" PROVE Attestation!SameContent(held, issued)
  BY DEF Attestation!VerifiedAsIssued
<1>1. /\ held \in Attestation!Evidence /\ issued \in Attestation!Evidence
      /\ statement = Attestation!Statement(issued) /\ Attestation!Incoherences(issued) = {}
      /\ Attestation!Incoherences(held) = {} /\ Attestation!Mismatches(held) = {}
  BY RecordsAssumption DEF AttestationInv, Attestation!TypeOK, Attestation!AttestationAssumption, Wrong
<1>2. held.challenge.audience = held.policy.audience /\ issued.challenge.audience = issued.policy.audience
  BY <1>1, CoherentMeans
<1>3. /\ held.snapshot = issued.snapshot /\ held.bindings = issued.bindings /\ held.report = issued.report
      /\ held.profile = issued.profile /\ held.policy = issued.policy
      /\ held.fabric.targets = issued.fabric.targets /\ held.fabric.preference = issued.fabric.preference
      /\ held.challenge.value = issued.challenge.value /\ held.challenge.issued = issued.challenge.issued
      /\ held.challenge.expires = issued.challenge.expires
  BY <1>1, MatchedMeans
<1>4. held.challenge \in [value : Nat, audience : Nat, issued : Nat, expires : Nat]
      /\ issued.challenge \in [value : Nat, audience : Nat, issued : Nat, expires : Nat]
  BY <1>1 DEF Attestation!Evidence
<1>5. held.challenge = issued.challenge
  BY <1>2, <1>3, <1>4
<1> QED
  BY <1>1, <1>3, <1>5, SameIsSame

\* Evidence of the same content is as coherent and has the same statement.
LEMMA SameIsAsGood ==
  ASSUME NEW e \in Attestation!Evidence, NEW f \in Attestation!Evidence, Attestation!SameContent(e, f)
  PROVE  Attestation!Incoherences(e) = Attestation!Incoherences(f) /\ Attestation!Statement(e) = Attestation!Statement(f)
<1>1. /\ e.snapshot = f.snapshot /\ e.bindings = f.bindings /\ e.report = f.report
      /\ e.profile = f.profile /\ e.policy = f.policy /\ e.challenge = f.challenge
      /\ e.fabric.targets = f.fabric.targets /\ e.fabric.preference = f.fabric.preference
  BY SameIsSame
<1>2. Attestation!ScopesMatch(e) = Attestation!ScopesMatch(f) /\ Attestation!DateErrors(e) = Attestation!DateErrors(f)
      /\ Attestation!FabricDigest(e.fabric) = Attestation!FabricDigest(f.fabric)
      /\ Attestation!Lease(e.challenge) = Attestation!Lease(f.challenge)
  BY <1>1 DEF Attestation!ScopesMatch, Attestation!DateErrors, Attestation!FabricDigest, Attestation!Lease
<1> QED
  BY <1>1, <1>2 DEF Attestation!Incoherences, Attestation!Statement

LEMMA IssuedIsTaken == AttestationInv => Attestation!IssuedIsVerified
<1> SUFFICES ASSUME AttestationInv, attestationAt = "refused", statement # Attestation!NoStatement,
                    Attestation!SameContent(held, issued)
             PROVE  refusal \in Attestation!TimeCodes
  BY DEF Attestation!IssuedIsVerified
<1>1. /\ held \in Attestation!Evidence /\ issued \in Attestation!Evidence
      /\ statement = Attestation!Statement(issued) /\ Attestation!Incoherences(issued) = {}
      /\ refusal \in Wrong
  BY RecordsAssumption DEF AttestationInv, Attestation!TypeOK, Attestation!AttestationAssumption
<1>2. Attestation!Incoherences(held) = {} /\ statement = Attestation!Statement(held)
  BY <1>1, SameIsAsGood
<1>3. Attestation!Mismatches(held) = {}
  BY <1>2 DEF Attestation!Mismatches
<1> QED
  BY <1>1, <1>2, <1>3, CodesAre DEF Wrong

LEMMA OffersAreGood == AttestationInv => Attestation!OfferedIsQualified /\ Attestation!AskedForAndFresh
<1> SUFFICES ASSUME AttestationInv, attestationAt = "verified"
             PROVE  Attestation!OfferedIsQualified /\ Attestation!AskedForAndFresh
  BY DEF Attestation!OfferedIsQualified, Attestation!AskedForAndFresh
<1>1. /\ held \in Attestation!Evidence /\ issued \in EvidenceSets /\ clock \in Nat
      /\ Attestation!Incoherences(held) = {} /\ Attestation!Lapses(held, clock) = {}
  BY RecordsAssumption DEF AttestationInv, Attestation!TypeOK, Attestation!AttestationAssumption, Wrong
<1>2. held.snapshot = issued.snapshot
  BY <1>1, RecordsAssumption, VerifiedIsIssued, SameIsSame DEF Attestation!VerifiedAsIssued, Attestation!AttestationAssumption
<1>3. held.snapshot.healthy \subseteq held.snapshot.targets
  BY <1>1, <1>2, RecordsAssumption DEF Attestation!AttestationAssumption
<1>4. Attestation!OfferedIsQualified
  BY <1>1, <1>3, CoherentMeans DEF Attestation!OfferedIsQualified
<1>5. /\ held.challenge.expires \in Nat /\ held.challenge.issued \in Nat /\ held.policy.skew \in Nat
      /\ held.policy.ttl \in Nat /\ held.snapshot.observed \in Nat /\ held.snapshot.expires \in Nat
  BY <1>1 DEF Attestation!Evidence
<1>6. /\ held.snapshot.expires - held.snapshot.observed <= held.policy.ttl
      /\ held.snapshot.observed >= held.challenge.issued - held.policy.skew
      /\ clock < held.challenge.expires + held.policy.skew /\ clock < held.snapshot.expires + held.policy.skew
  BY <1>1, <1>5, CoherentMeans, InTimeMeans
<1>7. Attestation!AskedForAndFresh
  BY <1>1, <1>5, <1>6 DEF Attestation!AskedForAndFresh
<1> QED
  BY <1>4, <1>7

\* For any evidence, policies, clocks and holders: of all seven pieces only the
\* issuer's own are verified, in any order of their lists, in time, with every
\* offer qualified; and what was issued is refused for its time alone
\* (createCapabilitySnapshotAttestationStatement,
\* verifyCapabilitySnapshotAttestationSemantics).
THEOREM AttestationHolds == RecordsSpec => []AttestationIsSound
<1>1. AttestationInv => AttestationIsSound
  BY VerifiedIsIssued, IssuedIsTaken, OffersAreGood DEF AttestationIsSound, AttestationInv
<1> QED
  BY AttestationAlways, <1>1, PTL

-------------------------------------------------------------------------------
(* The evidence of a run. *)

\* A size is the same size whichever module counts it.
LEMMA PlacementSizes == \A X : Placement!Cardinality(X) = Cardinality(X)
BY DEF Placement!Cardinality, Cardinality, Placement!IsFiniteSet, IsFiniteSet

\* How many events before the k-th completed a stage.
DoneBefore(k) == Cardinality(Placement!CompletedBefore(k))

\* How many events before the k-th have completed a stage.
LEMMA DoneBeforeCounts ==
  ASSUME NEW k \in Nat, k > 0
  PROVE  /\ DoneBefore(k) \in Nat
         /\ DoneBefore(k + 1) = DoneBefore(k) + (IF trace[k].status = "completed" THEN 1 ELSE 0)
         /\ \A j \in 1..k : DoneBefore(j) <= DoneBefore(k)
<1>1. ASSUME NEW j \in Nat PROVE IsFiniteSet(Placement!CompletedBefore(j))
  <2>1. IsFiniteSet(1..(j - 1))
    BY FS_Interval
  <2>2. Placement!CompletedBefore(j) \in SUBSET (1..(j - 1))
    BY DEF Placement!CompletedBefore
  <2> QED
    BY <2>1, <2>2, FS_Subset
<1>2. DoneBefore(k) \in Nat
  BY <1>1, FS_CardinalityType DEF DoneBefore
<1>3. ASSUME trace[k].status = "completed" PROVE DoneBefore(k + 1) = DoneBefore(k) + 1
  <2>1. Placement!CompletedBefore(k + 1) = Placement!CompletedBefore(k) \cup {k}
    BY <1>3 DEF Placement!CompletedBefore
  <2>2. k \notin Placement!CompletedBefore(k)
    BY DEF Placement!CompletedBefore
  <2> QED
    BY <1>1, <2>1, <2>2, FS_AddElement DEF DoneBefore
<1>4. ASSUME trace[k].status # "completed" PROVE DoneBefore(k + 1) = DoneBefore(k)
  <2>1. Placement!CompletedBefore(k + 1) = Placement!CompletedBefore(k)
    BY <1>4 DEF Placement!CompletedBefore
  <2> QED
    BY <2>1 DEF DoneBefore
<1>5. ASSUME NEW j \in 1..k PROVE DoneBefore(j) <= DoneBefore(k)
  <2>1. Placement!CompletedBefore(j) \in SUBSET Placement!CompletedBefore(k)
    BY DEF Placement!CompletedBefore
  <2> QED
    BY <1>1, <2>1, FS_Subset DEF DoneBefore
<1> QED
  BY <1>2, <1>3, <1>4, <1>5

\* A plan is not empty, names no stage twice, and has a candidate for every
\* stage.
LEMMA PlansAre ==
  ASSUME NEW p \in RunPlans
  PROVE  /\ p \in Seq([stage : StageIds, candidates : Seq(Targets) \ {<<>>}]) /\ Len(p) > 0
         /\ \A i \in 1..Len(p) : /\ p[i].stage \in StageIds /\ p[i].candidates \in Seq(Targets)
                                 /\ Len(p[i].candidates) > 0
         /\ \A i, j \in 1..Len(p) : p[i].stage = p[j].stage => i = j
<1>1. p \in Seq([stage : StageIds, candidates : Seq(Targets) \ {<<>>}]) /\ p # <<>>
  BY RecordsAssumption DEF Placement!EvidenceAssumption
<1>2. Len(p) > 0 /\ DOMAIN p = 1..Len(p)
  BY <1>1, EmptySeq, LenProperties
<1>3. \A i \in 1..Len(p) : p[i] \in [stage : StageIds, candidates : Seq(Targets) \ {<<>>}]
  BY <1>1, ElementOfSeq
<1>4. \A i \in 1..Len(p) : Len(p[i].candidates) > 0
  BY <1>3, EmptySeq, LenProperties
<1>5. \A i, j \in 1..Len(p) : p[i].stage = p[j].stage => i = j
  BY <1>2, RecordsAssumption DEF Placement!EvidenceAssumption
<1> QED
  BY <1>1, <1>2, <1>3, <1>4, <1>5

\* What can be projected cuts the trace into one telling for each stage of the
\* plan, each ending in that stage's placement.
LEMMA ProjectedTells ==
  ASSUME Placement!TypeOK, Placement!Projectable
  PROVE  \E ends \in [0..Len(plan) -> 0..Len(trace)] :
           /\ ends[0] = 0 /\ ends[Len(plan)] = Len(trace)
           /\ \A i \in DOMAIN plan :
                /\ Placement!TellsOf(trace, plan[i], ends[i - 1], ends[i])
                /\ Placement!Placements[i] = trace[ends[i]]
                /\ Placement!Placements[i].target = stages[i].target
<1> DEFINE n == Len(plan)
           T == Len(trace)
           c == [i \in 1..n |-> CHOOSE k : Placement!Completed(i) = {k}]
           ends == [i \in 0..n |-> IF i = 0 THEN 0 ELSE c[i]]
<1>1. /\ plan \in RunPlans /\ trace \in Seq(Placement!Event) /\ n \in Nat /\ T \in Nat
      /\ DOMAIN plan = 1..n /\ DOMAIN trace = 1..T /\ DOMAIN stages = 1..n /\ n > 0
      /\ \A k \in 1..T : trace[k] \in Placement!Event
  <2>1. stages \in Seq([stage : StageIds, target : Targets]) /\ Len(stages) = n
    BY DEF Placement!TypeOK, Placement!Projectable, Placement!Coherent
  <2>2. plan \in RunPlans /\ trace \in Seq(Placement!Event)
    BY DEF Placement!TypeOK
  <2> QED
    BY <2>1, <2>2, PlansAre
<1>2. /\ \A i \in 1..n : stages[i].stage = plan[i].stage
      /\ \A i, j \in 1..n : plan[i].stage = plan[j].stage => i = j
      /\ \A k \in 1..T : \E i \in 1..n :
           /\ plan[i].stage = trace[k].stage /\ trace[k].attempt \in DOMAIN plan[i].candidates
           /\ plan[i].candidates[trace[k].attempt] = trace[k].target
      /\ \A k \in 1..T : trace[k].status # "adapter_failed" /\ Placement!InTurn(k)
  BY <1>1, PlansAre DEF Placement!Projectable, Placement!Coherent, Placement!Valid
<1>3. ASSUME NEW i \in 1..n
      PROVE  Placement!Completed(i) = {c[i]}
  <2>1. Cardinality(Placement!Completed(i)) = 1
    BY <1>1, PlacementSizes DEF Placement!Projectable
  <2>2. Placement!Completed(i) \in SUBSET (1..T)
    BY <1>1 DEF Placement!Completed
  <2>3. IsFiniteSet(Placement!Completed(i))
    <3>1. IsFiniteSet(1..T)
      BY <1>1, FS_Interval
    <3> QED
      BY <2>2, <3>1, FS_Subset
  <2>4. \E k : Placement!Completed(i) = {k}
    BY <2>1, <2>3, FS_Singleton
  <2> QED
    BY <2>4
<1>4. ASSUME NEW i \in 1..n
      PROVE  /\ c[i] \in 1..T /\ trace[c[i]].stage = plan[i].stage
             /\ trace[c[i]].target = stages[i].target /\ trace[c[i]].status = "completed"
  <2>1. c[i] \in Placement!Completed(i)
    BY <1>3
  <2> HIDE DEF c
  <2> QED
    BY <2>1, <1>1, <1>2 DEF Placement!Completed
<1>5. ASSUME NEW k \in 1..T
      PROVE  /\ DoneBefore(k) \in Nat /\ 1 + DoneBefore(k) \in 1..n
             /\ trace[k].stage = plan[1 + DoneBefore(k)].stage
             /\ trace[k].attempt = 1 + Cardinality(Placement!AttemptsBefore(k))
  <2>1. k \in Nat /\ k > 0
    BY <1>1
  <2>2. DoneBefore(k) \in Nat
    BY <2>1, DoneBeforeCounts
  <2>3. Placement!Cardinality(Placement!CompletedBefore(k)) = DoneBefore(k)
    BY PlacementSizes DEF DoneBefore
  <2>4. PICK i \in 1..n : stages[i].stage = trace[k].stage /\ i = 1 + DoneBefore(k)
    <3>1. \E i \in DOMAIN stages :
            stages[i].stage = trace[k].stage /\ i = 1 + Placement!Cardinality(Placement!CompletedBefore(k))
      BY <1>2 DEF Placement!InTurn
    <3> QED
      BY <2>3, <3>1, <1>1
  <2>5. trace[k].attempt = 1 + Cardinality(Placement!AttemptsBefore(k))
    BY <1>2, PlacementSizes DEF Placement!InTurn
  <2> QED
    BY <2>2, <2>4, <2>5, <1>2
<1> HIDE DEF c
<1>6. ASSUME NEW i \in 1..n PROVE DoneBefore(c[i]) = i - 1
  <2>1. plan[1 + DoneBefore(c[i])].stage = plan[i].stage /\ 1 + DoneBefore(c[i]) \in 1..n /\ DoneBefore(c[i]) \in Nat
    BY <1>4, <1>5
  <2>2. 1 + DoneBefore(c[i]) = i
    BY <2>1, <1>2
  <2> QED
    BY <2>1, <2>2
<1>7. ASSUME NEW i \in 1..n, NEW k \in 1..T, k > c[i] PROVE DoneBefore(k) >= i
  <2>1. c[i] \in Nat /\ c[i] > 0 /\ c[i] + 1 \in 1..k /\ k \in Nat /\ k > 0
    BY <1>4, <1>1, <1>7
  <2>2. DoneBefore(c[i] + 1) = DoneBefore(c[i]) + 1
    BY <2>1, <1>4, DoneBeforeCounts
  <2>3. DoneBefore(c[i] + 1) <= DoneBefore(k)
    BY <2>1, DoneBeforeCounts
  <2> QED
    BY <1>5, <1>6, <2>2, <2>3
<1>8. ASSUME NEW i \in 1..n, NEW k \in 1..c[i] PROVE DoneBefore(k) <= i - 1
  <2>1. c[i] \in Nat /\ c[i] > 0
    BY <1>4, <1>1
  <2> QED
    BY <2>1, <1>6, DoneBeforeCounts
<1>9. /\ ends[0] = 0
      /\ \A i \in 1..n : ends[i] = c[i] /\ i - 1 \in 0..n
      /\ ends \in [0..n -> 0..T]
  BY <1>1, <1>4
<1> HIDE DEF ends
<1>10. ASSUME NEW i \in 1..n PROVE ends[i - 1] < ends[i] /\ ends[i - 1] \in Nat /\ ends[i] \in 1..T
  <2>1. CASE i = 1
    BY <2>1, <1>4, <1>9, <1>1
  <2>2. CASE i # 1
    <3>1. i - 1 \in 1..n
      BY <2>2, <1>1
    <3>2. c[i - 1] \in 1..T /\ c[i] \in 1..T /\ DoneBefore(c[i - 1]) = i - 2 /\ DoneBefore(c[i]) = i - 1
      BY <3>1, <1>4, <1>6
    <3>3. ~(c[i - 1] > c[i])
      BY <3>2, <1>7
    <3>4. c[i - 1] # c[i]
      BY <3>2
    <3> QED
      BY <3>1, <3>2, <3>3, <3>4, <1>9, <1>1
  <2> QED
    BY <2>1, <2>2
<1>11. ASSUME NEW i \in 1..n, NEW k \in (ends[i - 1] + 1)..ends[i]
       PROVE  k \in 1..T /\ DoneBefore(k) = i - 1 /\ trace[k].stage = plan[i].stage
  <2>1. k \in 1..T /\ k \in 1..c[i]
    BY <1>9, <1>10, <1>1
  <2>2. DoneBefore(k) <= i - 1 /\ DoneBefore(k) \in Nat
    BY <2>1, <1>8, <1>5
  <2>3. DoneBefore(k) >= i - 1
    <3>1. CASE i = 1
      BY <3>1, <2>2
    <3>2. CASE i # 1
      <4>1. i - 1 \in 1..n /\ ends[i - 1] = c[i - 1]
        BY <3>2, <1>1, <1>9
      <4>2. k > c[i - 1]
        BY <4>1, <1>4, <1>1
      <4> QED
        BY <4>1, <4>2, <2>1, <1>7
    <3> QED
      BY <3>1, <3>2
  <2>4. DoneBefore(k) = i - 1
    BY <2>2, <2>3
  <2> QED
    BY <2>1, <2>4, <1>5
<1>12. ASSUME NEW i \in 1..n, NEW k \in (ends[i - 1] + 1)..ends[i]
       PROVE  trace[k].status = IF k = ends[i] THEN "completed" ELSE "retryable_pre_output_status"
  <2>0. k \in 1..T /\ k \in Nat /\ k > 0
    BY <1>11, <1>1
  <2>1. CASE k = ends[i]
    BY <2>1, <1>4, <1>9
  <2>2. CASE k # ends[i]
    <3>1. k + 1 \in (ends[i - 1] + 1)..ends[i]
      BY <2>2, <1>10, <1>1
    <3>2. DoneBefore(k + 1) = DoneBefore(k) /\ DoneBefore(k) \in Nat
      BY <3>1, <1>11, <1>5
    <3>3. trace[k].status # "completed"
      <4>1. DoneBefore(k + 1) = DoneBefore(k) + (IF trace[k].status = "completed" THEN 1 ELSE 0)
        BY <2>0, DoneBeforeCounts
      <4> QED
        BY <3>2, <4>1
    <3>4. trace[k].status \in Placement!Statuses
      BY <2>0, <1>1 DEF Placement!Event
    <3> QED
      BY <2>0, <2>2, <3>3, <3>4, <1>2 DEF Placement!Statuses
  <2> QED
    BY <2>1, <2>2
<1>13. ASSUME NEW i \in 1..n, NEW k \in (ends[i - 1] + 1)..ends[i]
       PROVE  trace[k].attempt = k - ends[i - 1]
  <2>0. k \in 1..T /\ ends[i - 1] \in Nat /\ ends[i] \in 1..T /\ k \in Int
    BY <1>11, <1>10, <1>1
  <2>1. ASSUME NEW j \in 1..(k - 1)
        PROVE  trace[j].stage = trace[k].stage <=> j \in (ends[i - 1] + 1)..(k - 1)
    <3>1. CASE j > ends[i - 1]
      <4>1. j \in (ends[i - 1] + 1)..ends[i]
        BY <2>0, <3>1
      <4> QED
        BY <4>1, <3>1, <1>11, <2>0
    <3>2. CASE j <= ends[i - 1]
      <4>1. i - 1 \in 1..n /\ ends[i - 1] = c[i - 1]
        <5>1. i # 1
          BY <3>2, <1>9, <2>0
        <5> QED
          BY <5>1, <1>9, <1>1
      <4>2. j \in 1..c[i - 1] /\ j \in 1..T
        BY <4>1, <3>2, <2>0
      <4>3. DoneBefore(j) <= (i - 1) - 1
        BY <4>1, <4>2, <1>8
      <4>4. DoneBefore(j) \in Nat /\ 1 + DoneBefore(j) \in 1..n /\ trace[j].stage = plan[1 + DoneBefore(j)].stage
        BY <4>2, <1>5
      <4>5. 1 + DoneBefore(j) # i
        BY <4>3, <4>4
      <4>6. trace[j].stage # plan[i].stage
        BY <4>4, <4>5, <1>2
      <4> QED
        BY <4>6, <3>2, <1>11, <2>0
    <3> QED
      BY <3>1, <3>2, <2>0
  <2>2. Placement!AttemptsBefore(k) = (ends[i - 1] + 1)..(k - 1)
    BY <2>0, <2>1 DEF Placement!AttemptsBefore
  <2>3. Cardinality((ends[i - 1] + 1)..(k - 1)) = IF ends[i - 1] + 1 > k - 1 THEN 0 ELSE (k - 1) - (ends[i - 1] + 1) + 1
    <3>1. ends[i - 1] + 1 \in Int /\ k - 1 \in Int
      BY <2>0
    <3> QED
      BY <3>1, FS_Interval
  <2>4. trace[k].attempt = 1 + Cardinality((ends[i - 1] + 1)..(k - 1))
    BY <2>0, <2>2, <1>5
  <2> QED
    BY <2>0, <2>3, <2>4
<1>14. ASSUME NEW i \in 1..n, NEW k \in (ends[i - 1] + 1)..ends[i]
       PROVE  /\ k - ends[i - 1] \in DOMAIN plan[i].candidates
              /\ trace[k] = [stage |-> plan[i].stage, target |-> plan[i].candidates[k - ends[i - 1]],
                             attempt |-> k - ends[i - 1],
                             status |-> IF k = ends[i] THEN "completed" ELSE "retryable_pre_output_status"]
  <2>1. k \in 1..T /\ trace[k].stage = plan[i].stage
    BY <1>11
  <2>2. PICK j \in 1..n : /\ plan[j].stage = trace[k].stage /\ trace[k].attempt \in DOMAIN plan[j].candidates
                          /\ plan[j].candidates[trace[k].attempt] = trace[k].target
    BY <2>1, <1>2
  <2>3. j = i
    BY <2>1, <2>2, <1>2
  <2>4. trace[k] \in Placement!Event
    BY <2>1, <1>1
  <2>5. /\ trace[k].target = plan[i].candidates[k - ends[i - 1]] /\ k - ends[i - 1] \in DOMAIN plan[i].candidates
        /\ trace[k].attempt = k - ends[i - 1]
    BY <2>2, <2>3, <1>13
  <2>6. trace[k].status = IF k = ends[i] THEN "completed" ELSE "retryable_pre_output_status"
    BY <1>12
  <2>7. trace[k] = [stage |-> trace[k].stage, target |-> trace[k].target, attempt |-> trace[k].attempt, status |-> trace[k].status]
    BY <2>4 DEF Placement!Event
  <2> QED
    BY <2>1, <2>5, <2>6, <2>7
<1>15. ASSUME NEW i \in 1..n PROVE Placement!TellsOf(trace, plan[i], ends[i - 1], ends[i])
  <2>1. ends[i - 1] < ends[i] /\ ends[i - 1] \in Nat /\ ends[i] \in Nat
    BY <1>10, <1>1
  <2>2. ends[i] - ends[i - 1] \in DOMAIN plan[i].candidates
    <3>1. ends[i] \in (ends[i - 1] + 1)..ends[i]
      BY <2>1
    <3> QED
      BY <3>1, <1>14
  <2>3. ASSUME NEW m \in 1..(ends[i] - ends[i - 1])
        PROVE  trace[ends[i - 1] + m] =
                 [stage |-> plan[i].stage, target |-> plan[i].candidates[m], attempt |-> m,
                  status |-> IF m = ends[i] - ends[i - 1] THEN "completed" ELSE "retryable_pre_output_status"]
    <3> DEFINE k == ends[i - 1] + m
    <3>1. k \in (ends[i - 1] + 1)..ends[i] /\ k - ends[i - 1] = m /\ (k = ends[i] <=> m = ends[i] - ends[i - 1])
      BY <2>1
    <3> HIDE DEF k
    <3>2. trace[k] = [stage |-> plan[i].stage, target |-> plan[i].candidates[m], attempt |-> m,
                  status |-> IF m = ends[i] - ends[i - 1] THEN "completed" ELSE "retryable_pre_output_status"]
      BY <3>1, <1>14
    <3> QED
      BY <3>2 DEF k
  <2> QED
    BY <2>2, <2>3 DEF Placement!TellsOf
<1>16. ends[n] = T
  <2>1. n \in 1..n /\ ends[n] = c[n] /\ c[n] \in 1..T
    BY <1>1, <1>4, <1>9
  <2>2. T \in 1..T
    BY <1>1, <2>1
  <2>3. ~(T > c[n])
    BY <2>1, <2>2, <1>7, <1>5, <1>1
  <2> QED
    BY <2>1, <2>3, <1>1
<1>17. ASSUME NEW i \in 1..n
       PROVE  Placement!Placements[i] = trace[ends[i]] /\ Placement!Placements[i].target = stages[i].target
  <2>1. c[i] \in Int
    BY <1>4, <1>1
  <2>2. Placement!Max({c[i]}) = c[i]
    BY <2>1 DEF Placement!Max
  <2>3. Placement!Placements[i] = trace[Placement!Max(Placement!Completed(i))]
    BY <1>1 DEF Placement!Placements
  <2> QED
    <3>1. Placement!Placements[i] = trace[c[i]]
      BY <2>2, <2>3, <1>3
    <3> QED
      BY <3>1, <1>4, <1>9
<1> QED
  BY <1>1, <1>9, <1>15, <1>16, <1>17

\* The events that completed a stage, and those of stage s.
Ended == {k \in DOMAIN trace : trace[k].status = "completed"}
Tried(s) == {k \in DOMAIN trace : trace[k].stage = s}

\* What an unedited run has written: its stages are those before its turn, each
\* completed by one event, and every event is of one of those or of the stage in
\* turn, in turn itself, and after as many completions and attempts as it says.
HonestRun ==
  /\ together /\ turn = Len(stages) + 1
  /\ at # "running" => turn = Len(plan) + 1
  /\ \A i \in DOMAIN stages :
       stages[i].stage = plan[i].stage /\ \E k \in DOMAIN trace : Placement!Completed(i) = {k}
  /\ \A k \in DOMAIN trace : \E i \in DOMAIN plan :
       /\ i <= turn /\ i = 1 + Cardinality(Placement!CompletedBefore(k))
       /\ trace[k].stage = plan[i].stage
       /\ trace[k].attempt \in DOMAIN plan[i].candidates
       /\ trace[k].target = plan[i].candidates[trace[k].attempt]
       /\ trace[k].attempt = 1 + Cardinality(Placement!AttemptsBefore(k))
       /\ trace[k].status # "adapter_failed" /\ (i = turn => trace[k].status # "completed")
  /\ Cardinality(Ended) = turn - 1
  /\ at = "running" => Cardinality(Tried(plan[turn].stage)) = try - 1

\* What is sealed could be projected and what is refused could not; and a
\* result nobody edited is that of a run.
PlacementInv ==
  /\ Placement!TypeOK
  /\ at = "running" => turn \in DOMAIN plan
  /\ at = "sealed" => Placement!Projectable /\ evidence = [placements |-> Placement!Placements, trace |-> trace]
  /\ at = "refused" => ~Placement!Projectable
  /\ edits = 0 /\ at # "failed" => HonestRun

LEMMA PlacementBegins == RecordsInit => PlacementInv
<1> SUFFICES ASSUME RecordsInit PROVE PlacementInv
  OBVIOUS
<1>1. /\ plan \in RunPlans /\ at = "running" /\ turn = 1 /\ try = 1 /\ stages = <<>> /\ trace = <<>>
      /\ together = TRUE /\ edits = 0 /\ evidence = Placement!Nothing
  BY DEF RecordsInit, Placement!Init
<1>2. /\ Len(plan) \in Nat /\ Len(plan) > 0 /\ DOMAIN plan = 1..Len(plan) /\ 1 \in 1..Len(plan)
      /\ plan[1].candidates \in Seq(Targets) /\ Len(plan[1].candidates) > 0
  BY <1>1, PlansAre, LenProperties
<1>3. Placement!TypeOK
  <2>1. trace \in Seq(Placement!Event) /\ stages \in Seq([stage : StageIds, target : Targets])
    BY <1>1
  <2>2. try \in DOMAIN plan[turn].candidates
    BY <1>1, <1>2
  <2>3. edits \in 0..MaxEdits
    BY <1>1, RecordsAssumption DEF Placement!EvidenceAssumption
  <2> QED
    BY <1>1, <1>2, <2>1, <2>2, <2>3 DEF Placement!TypeOK
<1>4. DOMAIN trace = {} /\ DOMAIN stages = {} /\ Len(stages) = 0
  BY <1>1
<1>5. Ended = {} /\ Tried(plan[turn].stage) = {}
  BY <1>4 DEF Ended, Tried
<1>6. HonestRun
  BY <1>1, <1>4, <1>5, FS_EmptySet DEF HonestRun
<1> QED
  BY <1>1, <1>2, <1>3, <1>6 DEF PlacementInv

\* What an appended event changes in the counts.
LEMMA AppendedEvent ==
  ASSUME NEW T \in Nat, trace \in Seq(Placement!Event), Len(trace) = T, NEW e \in Placement!Event,
         trace' = Append(trace, e)
  PROVE  /\ trace' \in Seq(Placement!Event)
         /\ DOMAIN trace = 1..T /\ DOMAIN trace' = 1..(T + 1)
         /\ trace'[T + 1] = e /\ \A k \in 1..T : trace'[k] = trace[k]
         /\ \A k \in 1..T : /\ Placement!CompletedBefore(k)' = Placement!CompletedBefore(k)
                            /\ Placement!AttemptsBefore(k)' = Placement!AttemptsBefore(k)
         /\ Placement!CompletedBefore(T + 1)' = Ended
         /\ Placement!AttemptsBefore(T + 1)' = Tried(e.stage)
         /\ Ended' = Ended \cup (IF e.status = "completed" THEN {T + 1} ELSE {})
         /\ \A x : Tried(x)' = Tried(x) \cup (IF e.stage = x THEN {T + 1} ELSE {})
         /\ IsFiniteSet(Ended) /\ T + 1 \notin Ended
         /\ \A x : IsFiniteSet(Tried(x)) /\ T + 1 \notin Tried(x)
<1>1. /\ trace' \in Seq(Placement!Event) /\ DOMAIN trace = 1..T /\ DOMAIN trace' = 1..(T + 1)
      /\ trace'[T + 1] = e /\ \A k \in 1..T : trace'[k] = trace[k]
  BY AppendProperties, LenProperties
<1>2. ASSUME NEW k \in 1..T
      PROVE  Placement!CompletedBefore(k)' = Placement!CompletedBefore(k) /\ Placement!AttemptsBefore(k)' = Placement!AttemptsBefore(k)
  BY <1>1 DEF Placement!CompletedBefore, Placement!AttemptsBefore
<1>3. Placement!CompletedBefore(T + 1)' = Ended /\ Placement!AttemptsBefore(T + 1)' = Tried(e.stage)
  <2>1. (T + 1) - 1 = T
    OBVIOUS
  <2> QED
    BY <1>1, <2>1 DEF Placement!CompletedBefore, Placement!AttemptsBefore, Ended, Tried
<1>4. Ended' = Ended \cup (IF e.status = "completed" THEN {T + 1} ELSE {})
  BY <1>1 DEF Ended
<1>5. \A x : Tried(x)' = Tried(x) \cup (IF e.stage = x THEN {T + 1} ELSE {})
  BY <1>1 DEF Tried
<1>6. IsFiniteSet(1..T)
  BY FS_Interval
<1>7. Ended \in SUBSET (1..T) /\ \A x : Tried(x) \in SUBSET (1..T)
  BY <1>1 DEF Ended, Tried
<1>8. IsFiniteSet(Ended) /\ \A x : IsFiniteSet(Tried(x))
  BY <1>6, <1>7, FS_Subset
<1>9. T + 1 \notin Ended /\ \A x : T + 1 \notin Tried(x)
  BY <1>7
<1> QED
  BY <1>1, <1>2, <1>3, <1>4, <1>5, <1>8, <1>9

\* While a run is under way, its turn is in the plan and its try among the
\* candidates.
LEMMA RunningIs ==
  ASSUME PlacementInv, at = "running"
  PROVE  /\ plan \in RunPlans /\ DOMAIN plan = 1..Len(plan) /\ Len(plan) \in Nat /\ turn \in 1..Len(plan)
         /\ try \in DOMAIN plan[turn].candidates /\ try \in 1..Len(plan[turn].candidates)
         /\ Len(plan[turn].candidates) \in Nat /\ Len(trace) \in Nat
         /\ trace \in Seq(Placement!Event) /\ stages \in Seq([stage : StageIds, target : Targets])
         /\ \A i, j \in DOMAIN plan : plan[i].stage = plan[j].stage => i = j
         /\ \A i \in DOMAIN plan : plan[i].candidates \in Seq(Targets) /\ Len(plan[i].candidates) > 0
         /\ [stage |-> plan[turn].stage, target |-> plan[turn].candidates[try]] \in [stage : StageIds, target : Targets]
         /\ \A status \in Placement!Statuses : Placement!Entry(status) \in Placement!Event
         /\ \A status : Placement!Entry(status).stage = plan[turn].stage /\ Placement!Entry(status).status = status
         /\ \A status : Placement!Entry(status).attempt = try /\ Placement!Entry(status).target = plan[turn].candidates[try]
         /\ edits \in 0..MaxEdits /\ evidence = Placement!Nothing
<1>1. plan \in RunPlans /\ turn \in DOMAIN plan /\ try \in DOMAIN plan[turn].candidates
      /\ trace \in Seq(Placement!Event) /\ stages \in Seq([stage : StageIds, target : Targets]) /\ edits \in 0..MaxEdits
      /\ evidence = Placement!Nothing
  BY DEF PlacementInv, Placement!TypeOK
<1>2. DOMAIN plan = 1..Len(plan) /\ Len(plan) \in Nat
  BY <1>1, PlansAre, LenProperties
<1>3. \A i \in DOMAIN plan : plan[i].stage \in StageIds /\ plan[i].candidates \in Seq(Targets) /\ Len(plan[i].candidates) > 0
  BY <1>1, <1>2, PlansAre
<1>4. \A i, j \in DOMAIN plan : plan[i].stage = plan[j].stage => i = j
  BY <1>1, <1>2, PlansAre
<1>5. try \in 1..Len(plan[turn].candidates) /\ Len(plan[turn].candidates) \in Nat /\ try \in Nat
      /\ plan[turn].candidates[try] \in Targets
  BY <1>1, <1>3, LenProperties, ElementOfSeq
<1>6. \A status \in Placement!Statuses : Placement!Entry(status) \in Placement!Event
  BY <1>1, <1>3, <1>5 DEF Placement!Entry, Placement!Event
<1>7. \A status : /\ Placement!Entry(status).stage = plan[turn].stage /\ Placement!Entry(status).status = status
                  /\ Placement!Entry(status).attempt = try /\ Placement!Entry(status).target = plan[turn].candidates[try]
  BY DEF Placement!Entry
<1>8. [stage |-> plan[turn].stage, target |-> plan[turn].candidates[try]] \in [stage : StageIds, target : Targets]
  BY <1>1, <1>3, <1>5
<1> QED
  BY <1>1, <1>2, <1>3, <1>4, <1>5, <1>6, <1>7, <1>8, LenProperties

LEMMA CompleteStep == PlacementInv /\ Placement!Complete => PlacementInv'
<1> SUFFICES ASSUME PlacementInv, Placement!Complete PROVE PlacementInv'
  OBVIOUS
<1> DEFINE e == Placement!Entry("completed")
           s == [stage |-> plan[turn].stage, target |-> plan[turn].candidates[try]]
<1>1. /\ at = "running" /\ trace' = Append(trace, e) /\ stages' = Append(stages, s)
      /\ UNCHANGED <<plan, together, edits, evidence>>
  BY DEF Placement!Complete
<1>t. turn' = turn + 1 /\ try' = 1
  BY DEF Placement!Complete
<1>a. at' = (IF turn = Len(plan) THEN "returned" ELSE "running")
  BY DEF Placement!Complete
<1>0. PICK T \in Nat : Len(trace) = T
  BY <1>1, RunningIs
<1>n. /\ DOMAIN plan = 1..Len(plan) /\ Len(plan) \in Nat /\ turn \in 1..Len(plan) /\ turn \in Nat /\ T \in Nat /\ Len(trace) = T
      /\ try \in Nat
  BY <1>0, <1>1, RunningIs
<1>p. /\ plan \in RunPlans /\ try \in DOMAIN plan[turn].candidates
      /\ \A i, j \in DOMAIN plan : plan[i].stage = plan[j].stage => i = j
      /\ \A i \in DOMAIN plan : plan[i].candidates \in Seq(Targets) /\ Len(plan[i].candidates) > 0
  BY <1>1, RunningIs
<1>s. /\ trace \in Seq(Placement!Event) /\ stages \in Seq([stage : StageIds, target : Targets])
      /\ s \in [stage : StageIds, target : Targets] /\ edits \in 0..MaxEdits /\ evidence = Placement!Nothing
  BY <1>1, RunningIs
<1>e. /\ e \in Placement!Event /\ e.stage = plan[turn].stage /\ e.status = "completed"
      /\ e.attempt = try /\ e.target = plan[turn].candidates[try]
  BY <1>1, RunningIs DEF Placement!Statuses
<1>c. s.stage = plan[turn].stage /\ s.target = plan[turn].candidates[try]
  OBVIOUS
<1> HIDE DEF e, s
<1>3. /\ trace' \in Seq(Placement!Event)
      /\ DOMAIN trace = 1..T /\ DOMAIN trace' = 1..(T + 1)
      /\ trace'[T + 1] = e /\ \A k \in 1..T : trace'[k] = trace[k]
  BY <1>1, <1>n, <1>s, <1>e, AppendedEvent
<1>b. /\ \A k \in 1..T : /\ Placement!CompletedBefore(k)' = Placement!CompletedBefore(k)
                         /\ Placement!AttemptsBefore(k)' = Placement!AttemptsBefore(k)
      /\ Placement!CompletedBefore(T + 1)' = Ended
      /\ Placement!AttemptsBefore(T + 1)' = Tried(plan[turn].stage)
  <2>1. \A k \in 1..T : /\ Placement!CompletedBefore(k)' = Placement!CompletedBefore(k)
                        /\ Placement!AttemptsBefore(k)' = Placement!AttemptsBefore(k)
    BY <1>1, <1>n, <1>s, <1>e, AppendedEvent
  <2>2. Placement!CompletedBefore(T + 1)' = Ended
    BY <1>1, <1>n, <1>s, <1>e, AppendedEvent
  <2>3. Placement!AttemptsBefore(T + 1)' = Tried(e.stage)
    BY <1>1, <1>n, <1>s, <1>e, AppendedEvent
  <2>4. e.stage = plan[turn].stage
    BY <1>e
  <2> QED
    BY <2>1, <2>2, <2>3, <2>4
<1>d. Ended' = Ended \cup {T + 1} /\ IsFiniteSet(Ended) /\ T + 1 \notin Ended
  <2>1. Ended' = Ended \cup (IF e.status = "completed" THEN {T + 1} ELSE {}) /\ IsFiniteSet(Ended) /\ T + 1 \notin Ended
    BY <1>1, <1>n, <1>s, <1>e, AppendedEvent
  <2> QED
    BY <2>1, <1>e
<1>4. /\ stages' \in Seq([stage : StageIds, target : Targets]) /\ Len(stages) \in Nat
      /\ DOMAIN stages = 1..Len(stages) /\ DOMAIN stages' = 1..(Len(stages) + 1) /\ Len(stages') = Len(stages) + 1
      /\ stages'[Len(stages) + 1] = s /\ \A i \in 1..Len(stages) : stages'[i] = stages[i]
  BY <1>1, <1>s, AppendProperties, LenProperties
<1>5. at' = "running" => turn' \in DOMAIN plan'
  <2>1. at' = "running" => turn # Len(plan)
    BY <1>a
  <2> QED
    <3>1. at' = "running" => turn' \in 1..Len(plan)
      <4>1. turn \in 1..Len(plan) /\ Len(plan) \in Nat
        BY <1>n
      <4> QED
        BY <2>1, <4>1, <1>t
    <3> QED
      BY <3>1, <1>1, <1>n
<1>6. at' = "running" => try' \in DOMAIN plan'[turn'].candidates
  BY <1>1, <1>t, <1>p, <1>5, LenProperties
<1>7. Placement!TypeOK'
  <2>1. at' \in {"running", "returned"} /\ turn' \in 1..(Len(plan') + 1)
    <3>1. at' \in {"running", "returned"}
      BY <1>a
    <3> QED
      BY <3>1, <1>1, <1>t, <1>n
  <2> QED
    BY <2>1, <1>1, <1>p, <1>s, <1>3, <1>4, <1>6 DEF Placement!TypeOK
<1>8. ASSUME edits = 0 PROVE HonestRun'
  <2>1. HonestRun
    BY <1>1, <1>8 DEF PlacementInv
  <2>2. together' /\ turn' = Len(stages') + 1 /\ (at' # "running" => turn' = Len(plan') + 1)
    <3>1. at' # "running" => turn = Len(plan)
      BY <1>a
    <3> QED
      BY <3>1, <1>1, <1>t, <1>n, <1>4, <2>1 DEF HonestRun
  <2>3. turn = Len(stages) + 1
    BY <2>1 DEF HonestRun
  <2>4. ASSUME NEW k \in 1..T
        PROVE  \E i \in DOMAIN plan :
                 /\ i <= turn /\ i = 1 + Cardinality(Placement!CompletedBefore(k))
                 /\ trace[k].stage = plan[i].stage
                 /\ trace[k].attempt \in DOMAIN plan[i].candidates
                 /\ trace[k].target = plan[i].candidates[trace[k].attempt]
                 /\ trace[k].attempt = 1 + Cardinality(Placement!AttemptsBefore(k))
                 /\ trace[k].status # "adapter_failed" /\ (i = turn => trace[k].status # "completed")
    BY <1>3, <2>1 DEF HonestRun
  <2>5. ASSUME NEW i \in DOMAIN stages'
        PROVE  stages'[i].stage = plan[i].stage /\ \E k \in DOMAIN trace' : Placement!Completed(i)' = {k}
    <3>1. CASE i \in 1..Len(stages)
      <4>1. stages'[i] = stages[i] /\ stages[i].stage = plan[i].stage /\ i \in DOMAIN plan /\ i # turn
        BY <3>1, <1>n, <1>4, <2>1, <2>3 DEF HonestRun
      <4>2. PICK k \in DOMAIN trace : Placement!Completed(i) = {k}
        BY <3>1, <1>4, <2>1 DEF HonestRun
      <4>3. e.stage # stages[i].stage
        BY <4>1, <1>e, <1>p, <1>n
      <4>4. Placement!Completed(i)' = Placement!Completed(i)
        BY <4>1, <4>3, <1>n, <1>3 DEF Placement!Completed
      <4> QED
        BY <4>1, <4>2, <4>4, <1>3, <1>n
    <3>2. CASE i = Len(stages) + 1
      <4>1. stages'[i] = s /\ i = turn
        BY <3>2, <1>4, <2>3
      <4>2. s.stage = plan[turn].stage /\ s.target = plan[turn].candidates[try]
        BY <1>c
      <4>3. ASSUME NEW k \in 1..T, trace[k].stage = plan[turn].stage PROVE trace[k].status # "completed"
        BY <4>3, <2>4, <1>p, <1>n
      <4>4. Placement!Completed(i)' = {T + 1}
        BY <4>1, <4>2, <4>3, <1>e, <1>n, <1>3 DEF Placement!Completed
      <4> QED
        <5>1. T + 1 \in DOMAIN trace'
          BY <1>n, <1>3
        <5> QED
          BY <4>1, <4>2, <4>4, <5>1
    <3> QED
      BY <3>1, <3>2, <1>4
  <2>6. ASSUME NEW k \in DOMAIN trace'
        PROVE  \E i \in DOMAIN plan' :
                 /\ i <= turn' /\ i = 1 + Cardinality(Placement!CompletedBefore(k)')
                 /\ trace'[k].stage = plan'[i].stage
                 /\ trace'[k].attempt \in DOMAIN plan'[i].candidates
                 /\ trace'[k].target = plan'[i].candidates[trace'[k].attempt]
                 /\ trace'[k].attempt = 1 + Cardinality(Placement!AttemptsBefore(k)')
                 /\ trace'[k].status # "adapter_failed" /\ (i = turn' => trace'[k].status # "completed")
    <3>1. CASE k \in 1..T
      <4>1. PICK i \in DOMAIN plan :
                 /\ i <= turn /\ i = 1 + Cardinality(Placement!CompletedBefore(k))
                 /\ trace[k].stage = plan[i].stage
                 /\ trace[k].attempt \in DOMAIN plan[i].candidates
                 /\ trace[k].target = plan[i].candidates[trace[k].attempt]
                 /\ trace[k].attempt = 1 + Cardinality(Placement!AttemptsBefore(k))
                 /\ trace[k].status # "adapter_failed"
        BY <3>1, <2>4
      <4>2. i <= turn' /\ i # turn'
        BY <4>1, <1>t, <1>n
      <4> QED
        BY <3>1, <4>1, <4>2, <1>1, <1>3, <1>b
    <3>2. CASE k = T + 1
      <4>1. turn = 1 + Cardinality(Placement!CompletedBefore(k)')
        <5>1. Cardinality(Ended) = turn - 1
          BY <2>1 DEF HonestRun
        <5>2. Placement!CompletedBefore(k)' = Ended
          BY <3>2, <1>b
        <5> QED
          BY <5>1, <5>2, <1>n
      <4>2. try = 1 + Cardinality(Placement!AttemptsBefore(k)')
        <5>1. Cardinality(Tried(plan[turn].stage)) = try - 1
          BY <1>1, <2>1 DEF HonestRun
        <5>2. Placement!AttemptsBefore(k)' = Tried(plan[turn].stage)
          BY <3>2, <1>b
        <5> QED
          BY <5>1, <5>2, <1>n
      <4>3. trace'[k].stage = plan[turn].stage /\ trace'[k].attempt = try /\ trace'[k].target = plan[turn].candidates[try]
            /\ trace'[k].status = "completed"
        BY <3>2, <1>e, <1>3
      <4>4. turn <= turn' /\ turn # turn'
        BY <1>t, <1>n
      <4> QED
        BY <4>1, <4>2, <4>3, <4>4, <1>1, <1>n, <1>p
    <3> QED
      BY <3>1, <3>2, <1>n, <1>3
  <2>7. Cardinality(Ended') = turn' - 1
    <3>1. Cardinality(Ended') = Cardinality(Ended) + 1
      BY <1>d, FS_AddElement
    <3> QED
      BY <3>1, <1>t, <1>n, <2>1 DEF HonestRun
  <2>8. ASSUME at' = "running" PROVE Cardinality(Tried(plan[turn].stage)') = try' - 1
    <3>1. turn' \in DOMAIN plan /\ turn' = turn + 1
      BY <2>8, <1>1, <1>t, <1>5
    <3>2. e.stage # plan[turn'].stage
      BY <3>1, <1>e, <1>p, <1>n
    <3>3. \A k \in 1..T : trace[k].stage # plan[turn'].stage
      BY <3>1, <2>4, <1>p, <1>n
    <3>4. ASSUME NEW k \in DOMAIN trace' PROVE trace'[k].stage # plan'[turn'].stage
      BY <3>2, <3>3, <1>1, <1>n, <1>3
    <3>5. Tried(plan[turn].stage)' = {}
      BY <3>4 DEF Tried
    <3> QED
      BY <3>5, <1>t, FS_EmptySet
  <2> QED
    BY <2>2, <2>5, <2>6, <2>7, <2>8, <1>1 DEF HonestRun
<1> QED
  <2>1. at' \in {"running", "returned"}
    BY <1>a
  <2> QED
    BY <2>1, <1>1, <1>5, <1>7, <1>8 DEF PlacementInv

LEMMA RefusalStep == PlacementInv /\ Placement!Refusal => PlacementInv'
<1> SUFFICES ASSUME PlacementInv, Placement!Refusal PROVE PlacementInv'
  OBVIOUS
<1> DEFINE e == Placement!Entry("retryable_pre_output_status")
<1>1. /\ at = "running" /\ trace' = Append(trace, e)
      /\ UNCHANGED <<plan, turn, stages, together, edits, evidence>>
  BY DEF Placement!Refusal
<1>t. \/ try < Len(plan[turn].candidates) /\ try' = try + 1 /\ at' = "running"
      \/ at' = "failed" /\ try' = try
  BY <1>1 DEF Placement!Refusal
<1>0. PICK T \in Nat : Len(trace) = T
  BY <1>1, RunningIs
<1>n. /\ DOMAIN plan = 1..Len(plan) /\ Len(plan) \in Nat /\ turn \in 1..Len(plan) /\ turn \in Nat /\ T \in Nat /\ Len(trace) = T
      /\ try \in Nat
  BY <1>0, <1>1, RunningIs
<1>p. /\ plan \in RunPlans /\ try \in 1..Len(plan[turn].candidates)
      /\ \A i, j \in DOMAIN plan : plan[i].stage = plan[j].stage => i = j
      /\ \A i \in DOMAIN plan : plan[i].candidates \in Seq(Targets) /\ Len(plan[i].candidates) > 0
  BY <1>1, RunningIs
<1>s. /\ trace \in Seq(Placement!Event) /\ stages \in Seq([stage : StageIds, target : Targets])
      /\ edits \in 0..MaxEdits /\ evidence = Placement!Nothing
  BY <1>1, RunningIs
<1>e. /\ e \in Placement!Event /\ e.stage = plan[turn].stage /\ e.status = "retryable_pre_output_status"
      /\ e.attempt = try /\ e.target = plan[turn].candidates[try]
  BY <1>1, RunningIs DEF Placement!Statuses
<1> HIDE DEF e
<1>3. /\ trace' \in Seq(Placement!Event)
      /\ DOMAIN trace = 1..T /\ DOMAIN trace' = 1..(T + 1)
      /\ trace'[T + 1] = e /\ \A k \in 1..T : trace'[k] = trace[k]
  BY <1>1, <1>n, <1>s, <1>e, AppendedEvent
<1>b. /\ \A k \in 1..T : /\ Placement!CompletedBefore(k)' = Placement!CompletedBefore(k)
                         /\ Placement!AttemptsBefore(k)' = Placement!AttemptsBefore(k)
      /\ Placement!CompletedBefore(T + 1)' = Ended
      /\ Placement!AttemptsBefore(T + 1)' = Tried(plan[turn].stage)
  <2>1. \A k \in 1..T : /\ Placement!CompletedBefore(k)' = Placement!CompletedBefore(k)
                        /\ Placement!AttemptsBefore(k)' = Placement!AttemptsBefore(k)
    BY <1>1, <1>n, <1>s, <1>e, AppendedEvent
  <2>2. Placement!CompletedBefore(T + 1)' = Ended
    BY <1>1, <1>n, <1>s, <1>e, AppendedEvent
  <2>3. Placement!AttemptsBefore(T + 1)' = Tried(e.stage)
    BY <1>1, <1>n, <1>s, <1>e, AppendedEvent
  <2>4. e.stage = plan[turn].stage
    BY <1>e
  <2> QED
    BY <2>1, <2>2, <2>3, <2>4
<1>d. Ended' = Ended
  <2>1. Ended' = Ended \cup (IF e.status = "completed" THEN {T + 1} ELSE {})
    BY <1>1, <1>n, <1>s, <1>e, AppendedEvent
  <2> QED
    BY <2>1, <1>e
<1>x. /\ IsFiniteSet(Tried(plan[turn].stage)) /\ T + 1 \notin Tried(plan[turn].stage)
      /\ Tried(plan[turn].stage)' = Tried(plan[turn].stage) \cup {T + 1}
  <2>1. /\ IsFiniteSet(Tried(plan[turn].stage)) /\ T + 1 \notin Tried(plan[turn].stage)
    BY <1>1, <1>n, <1>s, <1>e, AppendedEvent
  <2>2. \A x : Tried(x)' = Tried(x) \cup (IF e.stage = x THEN {T + 1} ELSE {})
    BY <1>1, <1>n, <1>s, <1>e, AppendedEvent
  <2>3. PICK x : x = plan[turn].stage
    OBVIOUS
  <2>4. Tried(x)' = Tried(x) \cup {T + 1}
    BY <2>2, <2>3, <1>e
  <2>5. Tried(x)' = Tried(plan[turn].stage)'
    BY <2>3, <1>1
  <2> QED
    BY <2>1, <2>3, <2>4, <2>5
<1>6. at' = "running" => try' \in DOMAIN plan'[turn'].candidates
  <2>1. DOMAIN plan[turn].candidates = 1..Len(plan[turn].candidates) /\ Len(plan[turn].candidates) \in Nat
    BY <1>p, <1>n, LenProperties
  <2>2. at' = "running" => try' \in 1..Len(plan[turn].candidates)
    BY <2>1, <1>t, <1>p
  <2> QED
    BY <2>1, <2>2, <1>1
<1>7. Placement!TypeOK'
  <2>1. at' \in {"running", "failed"} /\ turn' \in 1..(Len(plan') + 1)
    <3>1. at' \in {"running", "failed"}
      BY <1>t
    <3> QED
      BY <3>1, <1>1, <1>n
  <2> QED
    BY <2>1, <1>1, <1>p, <1>s, <1>3, <1>6 DEF Placement!TypeOK
<1>8. ASSUME edits = 0, at' = "running" PROVE HonestRun'
  <2>1. HonestRun
    BY <1>1, <1>8 DEF PlacementInv
  <2>2. together' /\ turn' = Len(stages') + 1
    BY <1>1, <2>1 DEF HonestRun
  <2>3. turn = Len(stages) + 1
    BY <2>1 DEF HonestRun
  <2>5. ASSUME NEW i \in DOMAIN stages'
        PROVE  stages'[i].stage = plan[i].stage /\ \E k \in DOMAIN trace' : Placement!Completed(i)' = {k}
    <3>1. stages'[i].stage = plan[i].stage
      BY <1>1, <2>1 DEF HonestRun
    <3>2. PICK k \in DOMAIN trace : Placement!Completed(i) = {k}
      BY <1>1, <2>1 DEF HonestRun
    <3>3. Placement!Completed(i)' = Placement!Completed(i)
      BY <1>1, <1>e, <1>n, <1>3 DEF Placement!Completed
    <3>4. k \in DOMAIN trace'
      BY <3>2, <1>3, <1>n
    <3> QED
      BY <3>1, <3>2, <3>3, <3>4
  <2>6. ASSUME NEW k \in DOMAIN trace'
        PROVE  \E i \in DOMAIN plan' :
                 /\ i <= turn' /\ i = 1 + Cardinality(Placement!CompletedBefore(k)')
                 /\ trace'[k].stage = plan'[i].stage
                 /\ trace'[k].attempt \in DOMAIN plan'[i].candidates
                 /\ trace'[k].target = plan'[i].candidates[trace'[k].attempt]
                 /\ trace'[k].attempt = 1 + Cardinality(Placement!AttemptsBefore(k)')
                 /\ trace'[k].status # "adapter_failed" /\ (i = turn' => trace'[k].status # "completed")
    <3>1. CASE k \in 1..T
      <4>1. PICK i \in DOMAIN plan :
                 /\ i <= turn /\ i = 1 + Cardinality(Placement!CompletedBefore(k))
                 /\ trace[k].stage = plan[i].stage
                 /\ trace[k].attempt \in DOMAIN plan[i].candidates
                 /\ trace[k].target = plan[i].candidates[trace[k].attempt]
                 /\ trace[k].attempt = 1 + Cardinality(Placement!AttemptsBefore(k))
                 /\ trace[k].status # "adapter_failed" /\ (i = turn => trace[k].status # "completed")
        BY <3>1, <1>3, <2>1 DEF HonestRun
      <4> QED
        BY <3>1, <4>1, <1>1, <1>3, <1>b
    <3>2. CASE k = T + 1
      <4>1. turn = 1 + Cardinality(Placement!CompletedBefore(k)')
        <5>1. Cardinality(Ended) = turn - 1
          BY <2>1 DEF HonestRun
        <5>2. Placement!CompletedBefore(k)' = Ended
          BY <3>2, <1>b
        <5> QED
          BY <5>1, <5>2, <1>n
      <4>2. try = 1 + Cardinality(Placement!AttemptsBefore(k)')
        <5>1. Cardinality(Tried(plan[turn].stage)) = try - 1
          BY <1>1, <2>1 DEF HonestRun
        <5>2. Placement!AttemptsBefore(k)' = Tried(plan[turn].stage)
          BY <3>2, <1>b
        <5> QED
          BY <5>1, <5>2, <1>n
      <4>3. trace'[k].stage = plan[turn].stage /\ trace'[k].attempt = try /\ trace'[k].target = plan[turn].candidates[try]
            /\ trace'[k].status = "retryable_pre_output_status"
        BY <3>2, <1>e, <1>3
      <4>4. try \in DOMAIN plan[turn].candidates
        BY <1>1, RunningIs
      <4>5. turn <= turn'
        BY <1>1, <1>n
      <4> QED
        BY <4>1, <4>2, <4>3, <4>4, <4>5, <1>1, <1>n, <1>p
    <3> QED
      BY <3>1, <3>2, <1>n, <1>3
  <2>7. Cardinality(Ended') = turn' - 1
    BY <1>1, <1>d, <2>1 DEF HonestRun
  <2>8. Cardinality(Tried(plan[turn].stage)') = try' - 1
    <3>1. Cardinality(Tried(plan[turn].stage)') = Cardinality(Tried(plan[turn].stage)) + 1
      BY <1>x, FS_AddElement
    <3>2. Cardinality(Tried(plan[turn].stage)) = try - 1
      BY <1>1, <2>1 DEF HonestRun
    <3>3. try' = try + 1
      BY <1>8, <1>t
    <3> QED
      BY <3>1, <3>2, <3>3, <1>n
  <2> QED
    BY <2>2, <2>5, <2>6, <2>7, <2>8, <1>1, <1>8 DEF HonestRun
<1> QED
  <2>1. at' \in {"running", "failed"} /\ turn' \in DOMAIN plan'
    BY <1>t, <1>1, <1>n
  <2> QED
    BY <2>1, <1>1, <1>7, <1>8 DEF PlacementInv

LEMMA FailureStep == PlacementInv /\ Placement!Failure => PlacementInv'
<1> SUFFICES ASSUME PlacementInv, Placement!Failure PROVE PlacementInv'
  OBVIOUS
<1>1. /\ at = "running" /\ trace' = Append(trace, Placement!Entry("adapter_failed")) /\ at' = "failed"
      /\ UNCHANGED <<plan, turn, try, stages, together, edits, evidence>>
  BY DEF Placement!Failure
<1>2. trace' \in Seq(Placement!Event)
  BY <1>1, RunningIs, AppendProperties DEF Placement!Statuses
<1>3. Placement!TypeOK'
  BY <1>1, <1>2, RunningIs DEF PlacementInv, Placement!TypeOK
<1> QED
  BY <1>1, <1>3 DEF PlacementInv

\* A sequence with an item removed or inserted is one of the same items.
LEMMA SpliceTypes ==
  ASSUME NEW S, NEW s \in Seq(S), NEW i \in DOMAIN s, NEW x \in S
  PROVE  Placement!RemoveAt(s, i) \in Seq(S) /\ Placement!InsertAt(s, i, x) \in Seq(S)
<1>1. i \in 1..Len(s) /\ Len(s) \in Nat
  BY LenProperties
<1>2. SubSeq(s, 1, i - 1) \in Seq(S) /\ SubSeq(s, i + 1, Len(s)) \in Seq(S) /\ SubSeq(s, i, Len(s)) \in Seq(S)
  BY <1>1, SubSeqProperties
<1>3. <<x>> \in Seq(S)
  OBVIOUS
<1>4. SubSeq(s, 1, i - 1) \o SubSeq(s, i + 1, Len(s)) \in Seq(S)
  BY <1>2, ConcatProperties
<1>5. SubSeq(s, 1, i - 1) \o <<x>> \in Seq(S)
  BY <1>2, <1>3, ConcatProperties
<1>6. SubSeq(s, 1, i - 1) \o <<x>> \o SubSeq(s, i, Len(s)) \in Seq(S)
  BY <1>2, <1>5, ConcatProperties
<1> QED
  BY <1>4, <1>6 DEF Placement!RemoveAt, Placement!InsertAt

LEMMA EditStep == PlacementInv /\ Placement!Edit => PlacementInv'
<1> SUFFICES ASSUME PlacementInv, Placement!Edit PROVE PlacementInv'
  OBVIOUS
<1>1. /\ at = "returned" /\ edits < MaxEdits /\ edits' = edits + 1
      /\ UNCHANGED <<plan, at, turn, try, evidence>>
  BY DEF Placement!Edit
<1>2. trace \in Seq(Placement!Event) /\ stages \in Seq([stage : StageIds, target : Targets]) /\ edits \in 0..MaxEdits
      /\ MaxEdits \in Nat
  BY RecordsAssumption DEF PlacementInv, Placement!TypeOK, Placement!EvidenceAssumption
<1>3. \A i \in DOMAIN trace : trace[i] \in Placement!Event
  BY <1>2
<1>4. trace' \in Seq(Placement!Event)
  <2>1. ASSUME NEW i \in DOMAIN trace, trace' = Placement!RemoveAt(trace, i) PROVE trace' \in Seq(Placement!Event)
    BY <2>1, <1>2, <1>3, SpliceTypes
  <2>2. ASSUME NEW i \in DOMAIN trace, NEW j \in DOMAIN trace, trace' = Placement!InsertAt(trace, j, trace[i])
        PROVE  trace' \in Seq(Placement!Event)
    BY <2>2, <1>2, <1>3, SpliceTypes
  <2>3. ASSUME NEW i \in DOMAIN trace, NEW t \in Targets, NEW n \in 1..2,
               trace' = [trace EXCEPT ![i].target = t, ![i].attempt = n]
        PROVE  trace' \in Seq(Placement!Event)
    <3> DEFINE one == [trace[i] EXCEPT !.target = t]
               ev == [one EXCEPT !.attempt = n]
    <3>1. one \in Placement!Event
      BY <1>3 DEF Placement!Event
    <3> HIDE DEF one
    <3>2. ev \in Placement!Event
      BY <3>1 DEF Placement!Event
    <3>3. trace' = [trace EXCEPT ![i] = ev]
      BY <2>3, <1>2 DEF one
    <3> HIDE DEF ev
    <3> QED
      BY <3>2, <3>3, <1>2, ExceptSeq
  <2>4. ASSUME NEW i \in DOMAIN trace, NEW x \in Placement!Statuses, trace' = [trace EXCEPT ![i].status = x]
        PROVE  trace' \in Seq(Placement!Event)
    <3> DEFINE ev == [trace[i] EXCEPT !.status = x]
    <3>1. ev \in Placement!Event
      BY <1>3 DEF Placement!Event
    <3>2. trace' = [trace EXCEPT ![i] = ev]
      BY <2>4
    <3> HIDE DEF ev
    <3> QED
      BY <3>1, <3>2, <1>2, ExceptSeq
  <2> QED
    BY <2>1, <2>2, <2>3, <2>4, <1>2 DEF Placement!Edit
<1>5. stages' \in Seq([stage : StageIds, target : Targets])
  <2> DEFINE Done == [stage : StageIds, target : Targets]
  <2>1. \A i \in DOMAIN stages : stages[i] \in Done
    BY <1>2, ElementOfSeq, LenProperties
  <2>2. ASSUME NEW i \in DOMAIN stages, NEW t \in Targets, stages' = [stages EXCEPT ![i].target = t]
        PROVE  stages' \in Seq(Done)
    <3> DEFINE x == [stages[i] EXCEPT !.target = t]
    <3>1. x \in Done
      BY <2>1
    <3>2. stages' = [stages EXCEPT ![i] = x]
      BY <2>2
    <3> HIDE DEF x, Done
    <3> QED
      BY <3>1, <3>2, <1>2, ExceptSeq DEF Done
  <2>3. ASSUME NEW i \in DOMAIN stages, stages' = Placement!RemoveAt(stages, i) PROVE stages' \in Seq(Done)
    BY <2>1, <2>3, <1>2, SpliceTypes
  <2> QED
    BY <2>2, <2>3, <1>2 DEF Placement!Edit
<1>6. edits' \in 0..MaxEdits /\ edits' # 0
  BY <1>1, <1>2
<1> QED
  BY <1>1, <1>4, <1>5, <1>6 DEF PlacementInv, Placement!TypeOK

\* What is counted of a run depends on its plan, stages and trace only.
LEMMA SameRun ==
  ASSUME UNCHANGED <<plan, stages, trace, together>>
  PROVE  /\ (Placement!Projectable <=> Placement!Projectable') /\ Placement!Placements' = Placement!Placements
         /\ \A i : Placement!Completed(i)' = Placement!Completed(i)
         /\ \A k : /\ Placement!CompletedBefore(k)' = Placement!CompletedBefore(k)
                   /\ Placement!AttemptsBefore(k)' = Placement!AttemptsBefore(k)
         /\ Ended' = Ended /\ \A x : Tried(x)' = Tried(x)
<1>1. \A i : Placement!Completed(i)' = Placement!Completed(i)
  BY DEF Placement!Completed
<1>2. \A k : /\ Placement!CompletedBefore(k)' = Placement!CompletedBefore(k)
             /\ Placement!AttemptsBefore(k)' = Placement!AttemptsBefore(k)
  BY DEF Placement!CompletedBefore, Placement!AttemptsBefore
<1>3. \A k : Placement!InTurn(k) <=> Placement!InTurn(k)'
  BY <1>2 DEF Placement!InTurn
<1>4. Placement!Valid <=> Placement!Valid'
  BY <1>3 DEF Placement!Valid
<1>5. Placement!Coherent <=> Placement!Coherent'
  BY DEF Placement!Coherent
<1>6. Placement!Projectable <=> Placement!Projectable'
  BY <1>1, <1>4, <1>5 DEF Placement!Projectable
<1>7. Placement!Placements' = Placement!Placements
  BY <1>1 DEF Placement!Placements
<1>8. Ended' = Ended /\ \A x : Tried(x)' = Tried(x)
  BY DEF Ended, Tried
<1> QED
  BY <1>1, <1>2, <1>6, <1>7, <1>8

\* A run that is over stays what it was.
LEMMA HonestStays ==
  ASSUME HonestRun, UNCHANGED <<plan, turn, try, stages, trace, together>>, at' = at \/ (at = "returned" /\ at' = "refused")
  PROVE  HonestRun'
BY SameRun DEF HonestRun

LEMMA CreateStep == PlacementInv /\ Placement!Create => PlacementInv'
<1> SUFFICES ASSUME PlacementInv, Placement!Create PROVE PlacementInv'
  OBVIOUS
<1>1. at = "returned" /\ UNCHANGED <<plan, turn, try, stages, trace, together, edits>>
  BY DEF Placement!Create
<1>2. evidence = Placement!Nothing /\ Placement!TypeOK
  BY <1>1 DEF PlacementInv, Placement!TypeOK
<1>3. CASE Placement!Projectable /\ at' = "sealed" /\ evidence' = [placements |-> Placement!Placements, trace |-> trace]
  <2>1. trace # <<>>
    BY <1>3 DEF Placement!Projectable, Placement!Valid
  <2>2. evidence'.trace # Placement!Nothing.trace
    BY <1>3, <2>1 DEF Placement!Nothing
  <2>3. evidence' # Placement!Nothing
    BY <2>2
  <2>4. Placement!TypeOK'
    BY <1>1, <1>2, <1>3, <2>3 DEF Placement!TypeOK
  <2>5. Placement!Projectable' /\ evidence' = [placements |-> Placement!Placements', trace |-> trace']
    BY <1>1, <1>3, SameRun
  <2>6. edits = 0 => HonestRun
    BY <1>1 DEF PlacementInv
  <2>7. edits = 0 => HonestRun'
    BY <1>1, <1>3, <2>6, SameRun DEF HonestRun
  <2> QED
    BY <1>1, <1>3, <2>4, <2>5, <2>7 DEF PlacementInv
<1>4. CASE ~Placement!Projectable /\ at' = "refused" /\ UNCHANGED evidence
  <2>1. Placement!TypeOK'
    BY <1>1, <1>2, <1>4 DEF Placement!TypeOK
  <2>2. edits = 0 => HonestRun'
    BY <1>1, <1>4, HonestStays DEF PlacementInv
  <2>3. ~Placement!Projectable'
    BY <1>1, <1>4, SameRun
  <2> QED
    BY <1>1, <1>4, <2>1, <2>2, <2>3 DEF PlacementInv
<1> QED
  BY <1>1, <1>3, <1>4 DEF Placement!Create

LEMMA PlacementStays == PlacementInv /\ UNCHANGED placementVars => PlacementInv'
<1> SUFFICES ASSUME PlacementInv, UNCHANGED placementVars PROVE PlacementInv'
  OBVIOUS
<1>1. UNCHANGED <<plan, at, turn, try, stages, trace, together, edits, evidence>>
  BY DEF placementVars
<1>2. Placement!TypeOK'
  BY <1>1 DEF PlacementInv, Placement!TypeOK
<1>3. edits = 0 /\ at # "failed" => HonestRun'
  BY <1>1, HonestStays DEF PlacementInv
<1> QED
  BY <1>1, <1>2, <1>3, SameRun DEF PlacementInv

LEMMA PlacementAlways == RecordsSpec => []PlacementInv
<1>1. PlacementInv /\ [RecordsNext]_recordsVars => PlacementInv'
  BY CompleteStep, RefusalStep, FailureStep, EditStep, CreateStep, PlacementStays
  DEF RecordsNext, recordsVars, placementVars, Placement!Next
<1> QED
  BY PlacementBegins, <1>1, PTL DEF RecordsSpec

LEMMA SealedTells == PlacementInv => Placement!SealedIsARun
<1> SUFFICES ASSUME PlacementInv, at = "sealed" PROVE Placement!SealedIsARun
  BY DEF Placement!SealedIsARun
<1>1. /\ Placement!TypeOK /\ Placement!Projectable
      /\ evidence.trace = trace /\ evidence.placements = Placement!Placements
  BY DEF PlacementInv
<1>2. together
  BY <1>1 DEF Placement!Projectable, Placement!Coherent
<1> QED
  BY <1>1, <1>2, ProjectedTells DEF Placement!SealedIsARun

LEMMA HonestIsTaken == PlacementInv => Placement!HonestIsSealed
<1> SUFFICES ASSUME PlacementInv PROVE Placement!HonestIsSealed
  OBVIOUS
<1>a. /\ plan \in RunPlans /\ trace \in Seq(Placement!Event) /\ MaxPlacements \in Nat /\ MaxTrace \in Nat /\ MaxAttempts \in Nat
  BY RecordsAssumption DEF PlacementInv, Placement!TypeOK, Placement!EvidenceAssumption
<1>b. Len(plan) \in Nat /\ Len(trace) \in Nat /\ \A k \in DOMAIN trace : trace[k].attempt \in Nat
  <2>1. \A k \in DOMAIN trace : trace[k] \in Placement!Event
    BY <1>a, LenProperties, ElementOfSeq
  <2> QED
    BY <1>a, <2>1, PlansAre, LenProperties DEF Placement!Event
<1> SUFFICES ASSUME at = "refused", edits = 0,
                    Len(plan) <= MaxPlacements, Len(trace) <= MaxTrace,
                    \A k \in DOMAIN trace : trace[k].attempt <= MaxAttempts
             PROVE  FALSE
  BY <1>a, <1>b DEF Placement!HonestIsSealed
<1>1. HonestRun /\ Placement!TypeOK
  BY DEF PlacementInv
<1>2. /\ plan \in RunPlans /\ trace \in Seq(Placement!Event) /\ stages \in Seq([stage : StageIds, target : Targets])
      /\ MaxPlacements \in Nat /\ MaxTrace \in Nat /\ MaxAttempts \in Nat
  BY <1>1, RecordsAssumption DEF Placement!TypeOK, Placement!EvidenceAssumption
<1>3. /\ Len(plan) \in Nat /\ Len(plan) > 0 /\ DOMAIN plan = 1..Len(plan) /\ Len(stages) \in Nat /\ Len(trace) \in Nat
      /\ DOMAIN stages = 1..Len(stages) /\ DOMAIN trace = 1..Len(trace)
  BY <1>2, PlansAre, LenProperties
<1>4. Len(stages) = Len(plan)
  <2>1. turn = Len(stages) + 1 /\ turn = Len(plan) + 1
    BY <1>1 DEF HonestRun
  <2>2. Len(stages) + 1 = Len(plan) + 1 /\ Len(stages) \in Nat /\ Len(plan) \in Nat
    BY <2>1, <1>3
  <2> QED
    BY <2>2
<1>5. Placement!Coherent
  BY <1>1, <1>4 DEF HonestRun, Placement!Coherent
<1>6. ASSUME NEW i \in DOMAIN stages PROVE Placement!Cardinality(Placement!Completed(i)) = 1
  <2>1. PICK k : Placement!Completed(i) = {k}
    BY <1>1 DEF HonestRun
  <2> QED
    BY <2>1, FS_Singleton, PlacementSizes
<1>7. Len(trace) \in 1..MaxTrace
  <2>1. PICK k \in DOMAIN trace : Placement!Completed(1) = {k}
    BY <1>1, <1>3, <1>4 DEF HonestRun
  <2> QED
    BY <2>1, <1>2, <1>3
<1>8. Len(stages) \in 1..MaxPlacements
  BY <1>2, <1>3, <1>4
<1>9. \A i, j \in DOMAIN stages : stages[i].stage = stages[j].stage => i = j
  <2>1. \A i \in DOMAIN stages : stages[i].stage = plan[i].stage
    BY <1>1 DEF HonestRun
  <2>2. \A i, j \in 1..Len(plan) : plan[i].stage = plan[j].stage => i = j
    BY <1>2, PlansAre
  <2> QED
    BY <2>1, <2>2, <1>3, <1>4
<1>10. ASSUME NEW k \in DOMAIN trace
       PROVE  trace[k].status # "adapter_failed" /\ trace[k].attempt \in 1..MaxAttempts /\ Placement!InTurn(k)
  <2>1. PICK i \in DOMAIN plan :
          /\ i = 1 + Cardinality(Placement!CompletedBefore(k)) /\ trace[k].stage = plan[i].stage
          /\ trace[k].attempt \in DOMAIN plan[i].candidates /\ trace[k].attempt = 1 + Cardinality(Placement!AttemptsBefore(k))
          /\ trace[k].status # "adapter_failed"
    BY <1>1 DEF HonestRun
  <2>2. plan[i].candidates \in Seq(Targets)
    BY <1>2, <1>3, PlansAre
  <2>3. trace[k].attempt \in 1..MaxAttempts
    BY <2>1, <2>2, <1>2, LenProperties
  <2>4. stages[i].stage = trace[k].stage /\ i \in DOMAIN stages
    BY <2>1, <1>1, <1>3, <1>4 DEF HonestRun
  <2>5. Placement!InTurn(k)
    BY <2>1, <2>4, PlacementSizes DEF Placement!InTurn
  <2> QED
    BY <2>1, <2>3, <2>5
<1>11. Placement!Valid
  BY <1>7, <1>8, <1>9, <1>10 DEF Placement!Valid
<1>12. Placement!Projectable
  BY <1>5, <1>6, <1>11 DEF Placement!Projectable
<1> QED
  BY <1>12 DEF PlacementInv

\* For any plans and any trace edits after the run: what is sealed tells, stage
\* by stage, a run that the executor can have made of the plan; and an unedited
\* result can be projected and is sealed as it is
\* (createExecutionPlacementEvidence).
THEOREM SealedRuns == RecordsSpec => []SealedIsARun
<1>1. PlacementInv => SealedIsARun
  BY SealedTells, HonestIsTaken DEF SealedIsARun, PlacementInv
<1> QED
  BY PlacementAlways, <1>1, PTL
===============================================================================
