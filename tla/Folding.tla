------------------------------ MODULE Folding ------------------------------
(***************************************************************************)
(* Induction, finite sets and sorting, as the proofs of the components     *)
(* need them.  The folds of the community modules are recursive functions  *)
(* over the subsets of their domain; here such functions are shown to      *)
(* exist and to compute what their names promise: step by step, as a sum,  *)
(* or as a count; and so are functions that go from a number to the next.  *)
(***************************************************************************)
EXTENDS FiniteSetsExt, FiniteSetTheorems, Sorting, TLAPS

(* Induction, as a statement about a set of numbers.                       *)
LEMMA SetInduction ==
  ASSUME NEW S, 0 \in S, \A n \in Nat : n \in S => n + 1 \in S
  PROVE  Nat \subseteq S
<1>1. SUFFICES ASSUME Nat \ S # {} PROVE FALSE
  OBVIOUS
<1>2. PICK x \in Nat \ S : \A y \in Nat \ S : ~ (<<y, x>> \in OpToRel(<, Nat))
  BY <1>1, NatLessThanWellFounded, WFMin
<1>3. x - 1 \in Nat \ S
  <2>1. x # 0 /\ x \in Nat
    OBVIOUS
  <2>2. x - 1 \in Nat /\ (x - 1) + 1 = x
    BY <2>1
  <2>3. x - 1 \notin S
    BY <2>2
  <2>4. QED
    BY <2>2, <2>3
<1>4. <<x - 1, x>> \in OpToRel(<, Nat)
  BY <1>3 DEF OpToRel
<1>5. QED
  BY <1>2, <1>3, <1>4

(* G is defined over the subsets of D by removing one member after the     *)
(* other.                                                                  *)
Iterates(G, D, V, base, pick, step) ==
  /\ G \in [SUBSET D -> V]
  /\ \A s \in SUBSET D : G[s] = IF s = {} THEN base ELSE step[pick[s]][G[s \ {pick[s]}]]

(* Over a finite set such a function exists.                               *)
LEMMA IterExists ==
  ASSUME NEW D, IsFiniteSet(D), NEW V, NEW base \in V, NEW pick, NEW step,
         \A s \in SUBSET D : s # {} => pick[s] \in s,
         \A d \in D, v \in V : step[d][v] \in V
  PROVE  \E G : Iterates(G, D, V, base, pick, step)
<1> DEFINE Good(G, n) == \A s \in SUBSET D : Cardinality(s) <= n =>
              G[s] = IF s = {} THEN base ELSE step[pick[s]][G[s \ {pick[s]}]]
           Lengths == {n \in Nat : \E G \in [SUBSET D -> V] : Good(G, n)}
<1>1. \A s \in SUBSET D : IsFiniteSet(s) /\ Cardinality(s) \in Nat /\ Cardinality(s) <= Cardinality(D)
  BY FS_Subset, FS_CardinalityType
<1>2. 0 \in Lengths
  <2>1. [s \in SUBSET D |-> base] \in [SUBSET D -> V]
    OBVIOUS
  <2>2. Good([s \in SUBSET D |-> base], 0)
    BY <1>1, FS_EmptySet
  <2>3. QED
    BY <2>1, <2>2
<1>3. ASSUME NEW n \in Nat, n \in Lengths PROVE n + 1 \in Lengths
  <2>1. PICK G \in [SUBSET D -> V] : Good(G, n)
    BY <1>3
  <2> DEFINE H == [s \in SUBSET D |-> IF Cardinality(s) <= n THEN G[s]
                                      ELSE IF s = {} THEN base ELSE step[pick[s]][G[s \ {pick[s]}]]]
  <2>2. \A s \in SUBSET D : s # {} => /\ pick[s] \in D /\ s \ {pick[s]} \in SUBSET D
                                      /\ Cardinality(s \ {pick[s]}) = Cardinality(s) - 1
    BY <1>1, FS_RemoveElement
  <2>3. H \in [SUBSET D -> V]
    <3>1. \A s \in SUBSET D : G[s] \in V
      OBVIOUS
    <3>2. \A s \in SUBSET D : s # {} => step[pick[s]][G[s \ {pick[s]}]] \in V
      BY <2>2, <3>1
    <3>3. QED
      BY <3>1, <3>2
  <2>4. ASSUME NEW s \in SUBSET D, Cardinality(s) <= n + 1
        PROVE  H[s] = IF s = {} THEN base ELSE step[pick[s]][H[s \ {pick[s]}]]
    <3>1. CASE s = {}
      <4>1. Cardinality(s) <= n
        BY <3>1, FS_EmptySet
      <4>2. H[s] = G[s] /\ G[s] = base
        BY <2>1, <3>1, <4>1
      <4>3. QED
        BY <3>1, <4>2
    <3>2. CASE s # {}
      <4>1. Cardinality(s \ {pick[s]}) <= n /\ s \ {pick[s]} \in SUBSET D
        BY <1>1, <2>2, <2>4, <3>2
      <4>2. H[s \ {pick[s]}] = G[s \ {pick[s]}]
        BY <4>1
      <4>3. H[s] = step[pick[s]][G[s \ {pick[s]}]]
        BY <2>1, <3>2
      <4>4. QED
        BY <3>2, <4>2, <4>3
    <3>3. QED
      BY <3>1, <3>2
  <2>5. Good(H, n + 1)
    BY <2>4
  <2>6. \E K \in [SUBSET D -> V] : Good(K, n + 1)
    <3> HIDE DEF H, Good
    <3>1. QED
      BY <2>3, <2>5
  <2>7. QED
    <3> HIDE DEF Good
    <3>1. n + 1 \in Nat
      OBVIOUS
    <3>2. QED
      BY <2>6, <3>1
<1>4. Nat \subseteq Lengths
  <2> HIDE DEF Lengths
  <2>1. QED
    BY <1>2, <1>3, SetInduction
<1>5. PICK G \in [SUBSET D -> V] : Good(G, Cardinality(D))
  BY <1>4, FS_CardinalityType
<1>6. QED
  BY <1>1, <1>5 DEF Iterates

(* Adding up naturals in any order: H is the sum over each subset of D.    *)
Adding(H, D, f) ==
  \A s \in SUBSET D :
    H[s] = IF s = {} THEN 0 ELSE f[CHOOSE x \in s : TRUE] + H[s \ {CHOOSE x \in s : TRUE}]

LEMMA SumExists ==
  ASSUME NEW D, IsFiniteSet(D), NEW f \in [D -> Nat]
  PROVE  \E G \in [SUBSET D -> Nat] : Adding(G, D, f)
<1> DEFINE Good(G, n) == \A s \in SUBSET D : Cardinality(s) <= n =>
              G[s] = IF s = {} THEN 0
                     ELSE f[CHOOSE x \in s : TRUE] + G[s \ {CHOOSE x \in s : TRUE}]
           Lengths == {n \in Nat : \E G \in [SUBSET D -> Nat] : Good(G, n)}
<1>1. \A s \in SUBSET D : IsFiniteSet(s) /\ Cardinality(s) \in Nat /\ Cardinality(s) <= Cardinality(D)
  BY FS_Subset, FS_CardinalityType
<1>2. 0 \in Lengths
  <2>1. [s \in SUBSET D |-> 0] \in [SUBSET D -> Nat]
    OBVIOUS
  <2>2. Good([s \in SUBSET D |-> 0], 0)
    BY <1>1, FS_EmptySet
  <2>3. QED
    BY <2>1, <2>2
<1>3. ASSUME NEW n \in Nat, n \in Lengths PROVE n + 1 \in Lengths
  <2>1. PICK G \in [SUBSET D -> Nat] : Good(G, n)
    BY <1>3
  <2> DEFINE pick(s) == CHOOSE x \in s : TRUE
             H == [s \in SUBSET D |-> IF Cardinality(s) <= n THEN G[s]
                                      ELSE IF s = {} THEN 0 ELSE f[pick(s)] + G[s \ {pick(s)}]]
  <2>2. \A s \in SUBSET D : s # {} => /\ pick(s) \in D /\ s \ {pick(s)} \in SUBSET D
                                      /\ Cardinality(s \ {pick(s)}) = Cardinality(s) - 1
    <3> SUFFICES ASSUME NEW s \in SUBSET D, s # {}
                 PROVE  /\ pick(s) \in D /\ s \ {pick(s)} \in SUBSET D
                        /\ Cardinality(s \ {pick(s)}) = Cardinality(s) - 1
      OBVIOUS
    <3>1. pick(s) \in s
      OBVIOUS
    <3> HIDE DEF pick
    <3>2. QED
      BY <1>1, <3>1, FS_RemoveElement
  <2> HIDE DEF pick
  <2>3. H \in [SUBSET D -> Nat]
    <3>1. \A s \in SUBSET D : G[s] \in Nat
      OBVIOUS
    <3>2. ASSUME NEW s \in SUBSET D, s # {} PROVE f[pick(s)] + G[s \ {pick(s)}] \in Nat
      <4>1. f[pick(s)] \in Nat /\ G[s \ {pick(s)}] \in Nat
        BY <2>2, <3>1, <3>2
      <4>2. QED
        BY <4>1
    <3>3. QED
      BY <3>1, <3>2
  <2>4. ASSUME NEW s \in SUBSET D, Cardinality(s) <= n + 1
        PROVE  H[s] = IF s = {} THEN 0 ELSE f[pick(s)] + H[s \ {pick(s)}]
    <3>1. CASE s = {}
      <4>1. Cardinality(s) <= n
        BY <3>1, FS_EmptySet
      <4>2. H[s] = G[s] /\ G[s] = 0
        BY <2>1, <3>1, <4>1
      <4>3. QED
        BY <3>1, <4>2
    <3>2. CASE s # {}
      <4>1. Cardinality(s \ {pick(s)}) <= n /\ s \ {pick(s)} \in SUBSET D
        BY <1>1, <2>2, <2>4, <3>2
      <4>2. H[s \ {pick(s)}] = G[s \ {pick(s)}]
        BY <4>1
      <4>3. H[s] = f[pick(s)] + G[s \ {pick(s)}]
        BY <2>1, <3>2 DEF pick
      <4>4. QED
        BY <3>2, <4>2, <4>3
    <3>3. QED
      BY <3>1, <3>2
  <2>5. Good(H, n + 1)
    <3> HIDE DEF H
    <3>1. QED
      BY <2>4 DEF pick
  <2>6. \E K \in [SUBSET D -> Nat] : Good(K, n + 1)
    <3> HIDE DEF H, Good
    <3>1. QED
      BY <2>3, <2>5
  <2>7. QED
    <3> HIDE DEF Good
    <3>1. n + 1 \in Nat
      OBVIOUS
    <3>2. QED
      BY <2>6, <3>1
<1>4. Nat \subseteq Lengths
  <2> HIDE DEF Lengths
  <2>1. QED
    BY <1>2, <1>3, SetInduction
<1>5. PICK G \in [SUBSET D -> Nat] : Good(G, Cardinality(D))
  BY <1>4, FS_CardinalityType
<1>6. QED
  BY <1>1, <1>5 DEF Adding

LEMMA AddingZero ==
  ASSUME NEW D, IsFiniteSet(D), NEW f \in [D -> Nat], NEW H, Adding(H, D, f)
  PROVE  H[D] \in Nat /\ (H[D] = 0 => \A d \in D : f[d] = 0)
<1> DEFINE Fine(s) == H[s] \in Nat /\ (H[s] = 0 => \A d \in s : f[d] = 0)
           S == {n \in Nat : \A s \in SUBSET D : Cardinality(s) = n => Fine(s)}
<1>1. \A s \in SUBSET D : IsFiniteSet(s) /\ Cardinality(s) \in Nat
  BY FS_Subset, FS_CardinalityType
<1>2. ASSUME NEW s \in SUBSET D, s = {} PROVE Fine(s)
  BY <1>2 DEF Adding
<1>3. ASSUME NEW s \in SUBSET D, NEW x \in s, x = CHOOSE y \in s : TRUE, Fine(s \ {x})
      PROVE  Fine(s)
  <2>1. H[s] = f[x] + H[s \ {x}]
    BY <1>3 DEF Adding
  <2>2. f[x] \in Nat /\ H[s \ {x}] \in Nat
    BY <1>3
  <2>3. H[s] \in Nat /\ (H[s] = 0 => f[x] = 0 /\ H[s \ {x}] = 0)
    BY <2>1, <2>2
  <2>4. H[s \ {x}] = 0 => \A d \in s \ {x} : f[d] = 0
    BY <1>3
  <2>5. QED
    BY <2>3, <2>4
<1>4. 0 \in S
  <2> HIDE DEF Fine
  <2>1. QED
    BY <1>1, <1>2, FS_EmptySet
<1>5. ASSUME NEW n \in Nat, n \in S PROVE n + 1 \in S
  <2> HIDE DEF Fine
  <2>1. ASSUME NEW s \in SUBSET D, Cardinality(s) = n + 1 PROVE Fine(s)
    <3>1. IsFiniteSet(s) /\ s # {}
      BY <1>1, <2>1, FS_EmptySet
    <3>2. PICK x : x = CHOOSE y \in s : TRUE
      OBVIOUS
    <3>3. x \in s
      BY <3>1, <3>2
    <3>4. s \ {x} \in SUBSET D /\ Cardinality(s \ {x}) = n
      <4>1. Cardinality(s \ {x}) = Cardinality(s) - 1
        BY <3>1, <3>3, FS_RemoveElement
      <4>2. QED
        BY <2>1, <4>1
    <3>5. Fine(s \ {x})
      BY <1>5, <3>4
    <3>6. QED
      BY <1>3, <3>2, <3>3, <3>5
  <2>2. QED
    BY <2>1
<1>6. Nat \subseteq S
  <2> HIDE DEF S
  <2>1. QED
    BY <1>4, <1>5, SetInduction
<1>7. Fine(D)
  <2> HIDE DEF Fine
  <2>1. QED
    BY <1>1, <1>6
<1>8. QED
  BY <1>7

Sum(f) == FoldFunction(+, 0, f)

LEMMA SumAdds ==
  ASSUME NEW D, IsFiniteSet(D), NEW f \in [D -> Nat]
  PROVE  \E H : Adding(H, D, f) /\ Sum(f) = H[D]
<1> DEFINE body(H) == [s \in SUBSET D |-> IF s = {} THEN 0
                         ELSE f[CHOOSE x \in s : TRUE] + H[s \ {CHOOSE x \in s : TRUE}]]
           H == CHOOSE iter : iter = body(iter)
<1>1. PICK G \in [SUBSET D -> Nat] : Adding(G, D, f)
  BY SumExists
<1>2. G = body(G)
  BY <1>1 DEF Adding
<1>3. Sum(f) = H[D]
  <2>1. DOMAIN f = D
    OBVIOUS
  <2>2. QED
    BY <2>1 DEF Sum, FoldFunction, FoldFunctionOnSet, MapThenFoldSet
<1> HIDE DEF body
<1>4. H = body(H)
  BY <1>2
<1> HIDE DEF H
<1>5. Adding(H, D, f)
  BY <1>4 DEF body, Adding
<1>6. QED
  BY <1>3, <1>5

(* A sum of naturals that is zero is a sum of zeros.                       *)
LEMMA SumZero ==
  ASSUME NEW D, IsFiniteSet(D), NEW f \in [D -> Nat]
  PROVE  Sum(f) \in Nat /\ (Sum(f) = 0 => \A d \in D : f[d] = 0)
<1>1. PICK H : Adding(H, D, f) /\ Sum(f) = H[D]
  BY SumAdds
<1>2. QED
  BY <1>1, AddingZero

(* A sum of counts counts the union.                                       *)
LEMMA AddingCounts ==
  ASSUME NEW N, IsFiniteSet(N), NEW q, NEW D, IsFiniteSet(D), NEW f,
         \A d \in D : f[d] = Cardinality({n \in N : q[n] = d}),
         NEW H, Adding(H, D, f)
  PROVE  H[D] = Cardinality({n \in N : q[n] \in D})
<1> DEFINE In(s) == {n \in N : q[n] \in s}
           Fine(s) == H[s] = Cardinality(In(s))
           S == {n \in Nat : \A s \in SUBSET D : Cardinality(s) = n => Fine(s)}
<1>1. \A s \in SUBSET D : IsFiniteSet(s) /\ Cardinality(s) \in Nat
  BY FS_Subset, FS_CardinalityType
<1>2. \A s : IsFiniteSet(In(s)) /\ Cardinality(In(s)) \in Nat
  <2>1. ASSUME NEW s PROVE IsFiniteSet(In(s)) /\ Cardinality(In(s)) \in Nat
    BY FS_Subset, FS_CardinalityType
  <2>2. QED
    BY <2>1
<1>3. Fine({})
  <2>1. H[{}] = 0
    BY DEF Adding
  <2>2. In({}) = {}
    OBVIOUS
  <2>3. QED
    BY <2>1, <2>2, FS_EmptySet
<1>4. ASSUME NEW s \in SUBSET D, NEW x \in s, x = CHOOSE y \in s : TRUE, Fine(s \ {x})
      PROVE  Fine(s)
  <2>1. H[s] = f[x] + H[s \ {x}]
    BY <1>4 DEF Adding
  <2> DEFINE A == {n \in N : q[n] = x}
             B == In(s \ {x})
  <2>2. f[x] = Cardinality(A) /\ H[s \ {x}] = Cardinality(B)
    BY <1>4
  <2>3. IsFiniteSet(A) /\ IsFiniteSet(B) /\ A \cap B = {} /\ A \cup B = In(s)
    <3>1. IsFiniteSet(A)
      BY FS_Subset
    <3>2. A \cap B = {} /\ A \cup B = In(s)
      OBVIOUS
    <3>3. QED
      BY <1>2, <3>1, <3>2
  <2> HIDE DEF A, B, In
  <2>4. Cardinality(A \cup B) = Cardinality(A) + Cardinality(B)
    <3>1. Cardinality(A \cup B) = Cardinality(A) + Cardinality(B) - Cardinality(A \cap B)
      BY <2>3, FS_Union
    <3>2. Cardinality(A \cap B) = 0
      BY <2>3, FS_EmptySet
    <3>3. Cardinality(A) \in Nat /\ Cardinality(B) \in Nat
      BY <2>3, FS_CardinalityType
    <3>4. QED
      BY <3>1, <3>2, <3>3
  <2>5. QED
    BY <2>1, <2>2, <2>3, <2>4
<1> HIDE DEF Fine
<1>5. 0 \in S
  <2>1. \A s \in SUBSET D : Cardinality(s) = 0 => s = {}
    BY <1>1, FS_EmptySet
  <2>2. QED
    BY <1>3, <2>1
<1>6. ASSUME NEW n \in Nat, n \in S PROVE n + 1 \in S
  <2>1. ASSUME NEW s \in SUBSET D, Cardinality(s) = n + 1 PROVE Fine(s)
    <3>1. IsFiniteSet(s) /\ s # {}
      BY <1>1, <2>1, FS_EmptySet
    <3>2. PICK x : x = CHOOSE y \in s : TRUE
      OBVIOUS
    <3>3. x \in s
      BY <3>1, <3>2
    <3>4. s \ {x} \in SUBSET D /\ Cardinality(s \ {x}) = n
      <4>1. Cardinality(s \ {x}) = Cardinality(s) - 1
        BY <3>1, <3>3, FS_RemoveElement
      <4>2. QED
        BY <2>1, <4>1
    <3>5. Fine(s \ {x})
      BY <1>6, <3>4
    <3>6. QED
      BY <1>4, <3>2, <3>3, <3>5
  <2>2. QED
    BY <2>1
<1>7. Nat \subseteq S
  <2> HIDE DEF S
  <2>1. QED
    BY <1>5, <1>6, SetInduction
<1>8. Fine(D)
  BY <1>1, <1>7
<1>9. QED
  BY <1>8 DEF Fine

(* Adding up over a set, in the order of the community modules.            *)
SumOver(f, D) == MapThenSumSet(LAMBDA x : f[x], D)

LEMMA SumOverAdds ==
  ASSUME NEW D, IsFiniteSet(D), NEW f, \A d \in D : f[d] \in Nat
  PROVE  \E H : Adding(H, D, f) /\ SumOver(f, D) = H[D]
<1> DEFINE body(H) == [s \in SUBSET D |-> IF s = {} THEN 0
                         ELSE f[CHOOSE x \in s : TRUE] + H[s \ {CHOOSE x \in s : TRUE}]]
           H == CHOOSE iter : iter = body(iter)
           g == [d \in D |-> f[d]]
<1>1. PICK G \in [SUBSET D -> Nat] : Adding(G, D, g)
  <2>1. g \in [D -> Nat]
    OBVIOUS
  <2> HIDE DEF g
  <2>2. QED
    BY <2>1, SumExists
<1>2. Adding(G, D, f)
  <2> SUFFICES ASSUME NEW s \in SUBSET D
               PROVE  G[s] = IF s = {} THEN 0 ELSE f[CHOOSE x \in s : TRUE]
                                                     + G[s \ {CHOOSE x \in s : TRUE}]
    BY DEF Adding
  <2>1. PICK x : x = CHOOSE y \in s : TRUE
    OBVIOUS
  <2>2. G[s] = IF s = {} THEN 0 ELSE g[x] + G[s \ {x}]
    BY <1>1, <2>1 DEF Adding
  <2>3. s # {} => x \in D
    BY <2>1
  <2>4. s # {} => g[x] = f[x]
    BY <2>3
  <2> HIDE DEF g
  <2>5. G[s] = IF s = {} THEN 0 ELSE f[x] + G[s \ {x}]
    BY <2>2, <2>4
  <2>6. QED
    BY <2>1, <2>5
<1>3. G = body(G)
  BY <1>2 DEF Adding
<1>4. SumOver(f, D) = H[D]
  BY DEF SumOver, MapThenSumSet, MapThenFoldSet
<1> HIDE DEF body
<1>5. H = body(H)
  BY <1>3
<1> HIDE DEF H
<1>6. Adding(H, D, f)
  BY <1>5 DEF body, Adding
<1>7. QED
  BY <1>4, <1>6

(* How many members of N are given d by q, and one of D.                   *)
CountAt(N, q, d) == Cardinality({n \in N : q[n] = d})
CountIn(N, q, D) == Cardinality({n \in N : q[n] \in D})

LEMMA SumOverCounts ==
  ASSUME NEW N, IsFiniteSet(N), NEW q, NEW D, IsFiniteSet(D), NEW f,
         \A d \in D : f[d] = CountAt(N, q, d)
  PROVE  SumOver(f, D) = CountIn(N, q, D)
<1>1. \A d \in D : f[d] \in Nat
  <2> SUFFICES ASSUME NEW d \in D PROVE CountAt(N, q, d) \in Nat
    OBVIOUS
  <2>1. QED
    BY FS_Subset, FS_CardinalityType DEF CountAt
<1>2. PICK H : Adding(H, D, f) /\ SumOver(f, D) = H[D]
  BY <1>1, SumOverAdds
<1>3. QED
  BY <1>2, AddingCounts DEF CountAt, CountIn

LEMMA SumCounts ==
  ASSUME NEW N, IsFiniteSet(N), NEW q, NEW D, IsFiniteSet(D), NEW f \in [D -> Nat],
         \A d \in D : f[d] = CountAt(N, q, d)
  PROVE  Sum(f) = CountIn(N, q, D)
<1>1. PICK H : Adding(H, D, f) /\ Sum(f) = H[D]
  BY SumAdds
<1>2. QED
  BY <1>1, AddingCounts DEF CountAt, CountIn

(* The values of a function over a finite set are finitely many.           *)
LEMMA ImageFinite ==
  ASSUME NEW S, IsFiniteSet(S), NEW f
  PROVE  IsFiniteSet({f[x] : x \in S})
<1> DEFINE T == {f[x] : x \in S}
           g == [x \in S |-> f[x]]
<1>1. g \in Surjection(S, T)
  BY DEF Surjection
<1> HIDE DEF g
<1>2. IsFiniteSet(T)
  BY <1>1, FS_Surjection
<1>3. QED
  BY <1>2

(* The folds of a sequence take its positions from the last one down.      *)
LEMMA MaxOfInterval ==
  ASSUME NEW n \in Nat \ {0} PROVE Max(1..n) = n
BY DEF Max

(* Max of a set of positions is the last of them.                          *)
LEMMA MaxOfSet ==
  ASSUME NEW n \in Nat, NEW s \in SUBSET (1..n), s # {}
  PROVE  Max(s) \in s /\ \A y \in s : Max(s) >= y
<1> DEFINE S == {k \in Nat : \A t \in SUBSET (1..k) : t # {} => \E m \in t : \A y \in t : m >= y}
<1>1. 0 \in S
  <2>1. 1..0 = {}
    OBVIOUS
  <2>2. QED
    BY <2>1
<1>2. ASSUME NEW k \in Nat, k \in S PROVE k + 1 \in S
  <2>1. SUFFICES ASSUME NEW t \in SUBSET (1..(k + 1)), t # {}
                 PROVE  \E m \in t : \A y \in t : m >= y
    OBVIOUS
  <2>2. CASE k + 1 \in t
    BY <2>2
  <2>3. CASE k + 1 \notin t
    <3>1. t \in SUBSET (1..k)
      BY <2>3
    <3>2. QED
      BY <1>2, <2>1, <3>1
  <2>4. QED
    BY <2>2, <2>3
<1>3. Nat \subseteq S
  <2> HIDE DEF S
  <2>1. QED
    BY <1>1, <1>2, SetInduction
<1>4. \E m \in s : \A y \in s : m >= y
  BY <1>3
<1>5. QED
  BY <1>4 DEF Max

LEMMA MaxMember ==
  ASSUME NEW n \in Nat, NEW s \in SUBSET (1..n), s # {}
  PROVE  Max(s) \in s
BY MaxOfSet

(* min() of a set of numbers is one of them.                               *)
LEMMA MinRight ==
  ASSUME NEW T \in SUBSET Nat, T # {}
  PROVE  Min(T) \in T
<1>1. PICK m \in T : \A x \in T : ~ (<<x, m>> \in OpToRel(<, Nat))
  BY NatLessThanWellFounded, WFMin
<1>2. ASSUME NEW x \in T PROVE m <= x
  <2>1. x \in Nat /\ m \in Nat
    OBVIOUS
  <2>2. x < m => <<x, m>> \in OpToRel(<, Nat)
    BY <2>1 DEF OpToRel
  <2>3. ~ (x < m)
    BY <1>1, <2>2
  <2>4. QED
    BY <2>1, <2>3
<1>3. QED
  BY <1>2 DEF Min

(* g goes from each number to the next one.                                *)
Counting(g, n, V, base, step) ==
  /\ g \in [0..n -> V]
  /\ g[0] = base /\ \A k \in 1..n : g[k] = step[k][g[k - 1]]

(* Such a function exists.                                                 *)
LEMMA CountExists ==
  ASSUME NEW V, NEW n \in Nat, NEW base \in V, NEW step,
         \A k \in 1..n, v \in V : step[k][v] \in V
  PROVE  \E g : Counting(g, n, V, base, step)
<1> DEFINE Good(g, m) == g[0] = base /\ \A k \in 1..m : g[k] = step[k][g[k - 1]]
           S == {m \in Nat : m <= n => \E g \in [0..n -> V] : Good(g, m)}
<1>1. 0 \in S
  <2>1. [k \in 0..n |-> base] \in [0..n -> V] /\ Good([k \in 0..n |-> base], 0)
    OBVIOUS
  <2>2. QED
    BY <2>1
<1>2. ASSUME NEW m \in Nat, m \in S PROVE m + 1 \in S
  <2>1. SUFFICES ASSUME m + 1 <= n PROVE \E g \in [0..n -> V] : Good(g, m + 1)
    OBVIOUS
  <2>2. PICK g \in [0..n -> V] : Good(g, m)
    BY <1>2, <2>1
  <2> DEFINE h == [g EXCEPT ![m + 1] = step[m + 1][g[m]]]
  <2>3. m \in 0..n /\ m + 1 \in 1..n /\ g[m] \in V
    BY <2>1
  <2>4. h \in [0..n -> V]
    BY <2>3
  <2>5. \A k \in 0..m : h[k] = g[k]
    BY <2>1
  <2>6. h[m + 1] = step[m + 1][h[m]]
    BY <2>3, <2>5
  <2>7. ASSUME NEW k \in 1..(m + 1) PROVE h[k] = step[k][h[k - 1]]
    <3>1. CASE k = m + 1
      BY <2>6, <3>1
    <3>2. CASE k # m + 1
      <4>1. k \in 1..m /\ k \in 0..m /\ k - 1 \in 0..m
        BY <3>2
      <4>2. QED
        BY <2>2, <2>5, <4>1
    <3>3. QED
      BY <3>1, <3>2
  <2>8. h[0] = base
    BY <2>2, <2>5
  <2> HIDE DEF h
  <2>9. QED
    BY <2>4, <2>7, <2>8
<1>3. Nat \subseteq S
  <2> HIDE DEF S
  <2>1. QED
    BY <1>1, <1>2, SetInduction
<1>4. n \in S
  BY <1>3
<1>5. PICK g \in [0..n -> V] : Good(g, n)
  BY <1>4
<1>6. QED
  BY <1>5 DEF Counting

-----------------------------------------------------------------------------
(* Sorting.                                                                *)

(* The order of the keys.                                                  *)
Ordered(s, key) ==
  /\ IsInjective(s)
  /\ \A i, j \in DOMAIN s : i < j => NotAfter(key[s[i]], key[s[j]])

(* Among finitely many keys there is a last one.                           *)
LEMMA LastKey ==
  ASSUME NEW S, IsFiniteSet(S), S # {}, NEW key \in [S -> Int \X Int]
  PROVE  \E m \in S : \A x \in S : NotAfter(key[x], key[m])
<1> DEFINE Fine(T) == \E m \in T : \A x \in T : NotAfter(key[x], key[m])
           N == {n \in Nat : \A T \in SUBSET S : Cardinality(T) = n + 1 => Fine(T)}
<1>1. \A T \in SUBSET S : IsFiniteSet(T) /\ Cardinality(T) \in Nat
  BY FS_Subset, FS_CardinalityType
<1>2. ASSUME NEW T \in SUBSET S, NEW x \in T, T \ {x} = {} \/ Fine(T \ {x}) PROVE Fine(T)
  <2>1. CASE T = {x}
    BY <2>1 DEF NotAfter
  <2>2. CASE Fine(T \ {x})
    <3>1. PICK m \in T \ {x} : \A y \in T \ {x} : NotAfter(key[y], key[m])
      BY <2>2
    <3>2. /\ key[m][1] \in Int /\ key[m][2] \in Int /\ key[x][1] \in Int /\ key[x][2] \in Int
          /\ \A y \in T : key[y][1] \in Int /\ key[y][2] \in Int
      OBVIOUS
    <3>3. CASE NotAfter(key[x], key[m])
      BY <3>1, <3>3
    <3>4. CASE ~ NotAfter(key[x], key[m])
      <4>1. \A y \in T : NotAfter(key[y], key[x])
        BY <3>1, <3>2, <3>4 DEF NotAfter
      <4>2. QED
        BY <4>1
    <3>5. QED
      BY <3>3, <3>4
  <2>3. QED
    BY <1>2, <2>1, <2>2
<1> HIDE DEF Fine
<1>3. 0 \in N
  <2>1. ASSUME NEW T \in SUBSET S, Cardinality(T) = 1 PROVE Fine(T)
    <3>1. PICK x : T = {x}
      BY <1>1, <2>1, FS_Singleton
    <3>2. QED
      BY <1>2, <3>1
  <2>2. QED
    BY <2>1
<1>4. ASSUME NEW n \in Nat, n \in N PROVE n + 1 \in N
  <2>1. ASSUME NEW T \in SUBSET S, Cardinality(T) = n + 2 PROVE Fine(T)
    <3>1. PICK x : x \in T
      BY <1>1, <2>1, FS_EmptySet
    <3>2. Cardinality(T \ {x}) = n + 1
      BY <1>1, <2>1, <3>1, FS_RemoveElement
    <3>3. Fine(T \ {x})
      BY <1>4, <3>2
    <3>4. QED
      BY <1>2, <3>1, <3>3
  <2>2. QED
    BY <2>1
<1>5. Nat \subseteq N
  <2> HIDE DEF N
  <2>1. QED
    BY <1>3, <1>4, SetInduction
<1>6. Cardinality(S) \in Nat \ {0}
  BY <1>1, FS_EmptySet
<1>7. Cardinality(S) - 1 \in N
  BY <1>5, <1>6
<1>8. Fine(S)
  BY <1>6, <1>7
<1>9. QED
  BY <1>8 DEF Fine

(* sorted() returns the members of a set in the order of their keys, and   *)
(* those with the same key in some order.                                  *)
LEMMA SortedRight ==
  ASSUME NEW S, IsFiniteSet(S), NEW key \in [S -> Int \X Int]
  PROVE  Sorted(S, key) \in [1..Cardinality(S) -> S] /\ Ordered(Sorted(S, key), key)
<1> DEFINE Fine(T) == \E s \in [1..Cardinality(T) -> T] : Ordered(s, key)
           N == {n \in Nat : \A T \in SUBSET S : Cardinality(T) = n => Fine(T)}
<1>1. \A T \in SUBSET S : IsFiniteSet(T) /\ Cardinality(T) \in Nat
  BY FS_Subset, FS_CardinalityType
<1>2. 0 \in N
  <2>1. ASSUME NEW T \in SUBSET S, Cardinality(T) = 0 PROVE Fine(T)
    <3>1. <<>> \in [1..Cardinality(T) -> T] /\ Ordered(<<>>, key)
      BY <2>1 DEF Ordered, IsInjective
    <3>2. QED
      BY <3>1
  <2>2. QED
    BY <2>1
<1>3. ASSUME NEW n \in Nat, n \in N PROVE n + 1 \in N
  <2>1. ASSUME NEW T \in SUBSET S, Cardinality(T) = n + 1 PROVE Fine(T)
    <3>1. PICK m \in T : \A x \in T : NotAfter(key[x], key[m])
      <4>1. T # {}
        BY <1>1, <2>1, FS_EmptySet
      <4>2. \E m \in T : \A x \in T : NotAfter([y \in T |-> key[y]][x], [y \in T |-> key[y]][m])
        <5>1. [y \in T |-> key[y]] \in [T -> Int \X Int]
          OBVIOUS
        <5>2. QED
          BY <1>1, <4>1, <5>1, LastKey
      <4>3. QED
        BY <4>2
    <3>2. Cardinality(T \ {m}) = n
      <4>1. Cardinality(T \ {m}) = Cardinality(T) - 1
        BY <1>1, FS_RemoveElement
      <4>2. QED
        BY <2>1, <4>1
    <3>3. PICK s \in [1..n -> T \ {m}] : Ordered(s, key)
      BY <1>3, <3>2
    <3> DEFINE q == [i \in 1..(n + 1) |-> IF i = n + 1 THEN m ELSE s[i]]
    <3>4. /\ q \in [1..(n + 1) -> T] /\ q[n + 1] = m
          /\ \A i \in 1..(n + 1) : i # n + 1 => i \in 1..n /\ q[i] = s[i] /\ q[i] \in T \ {m}
      OBVIOUS
    <3> HIDE DEF q
    <3>5. IsInjective(q)
      BY <3>3, <3>4 DEF Ordered, IsInjective
    <3>6. ASSUME NEW i \in DOMAIN q, NEW j \in DOMAIN q, i < j PROVE NotAfter(key[q[i]], key[q[j]])
      <4>1. CASE j = n + 1
        BY <3>1, <3>4, <4>1
      <4>2. CASE j # n + 1
        <5>1. i \in 1..n /\ j \in 1..n
          BY <3>4, <3>6, <4>2
        <5>2. QED
          BY <3>3, <3>4, <3>6, <5>1 DEF Ordered
      <4>3. QED
        BY <4>1, <4>2
    <3>7. QED
      BY <2>1, <3>4, <3>5, <3>6 DEF Ordered
  <2>2. QED
    BY <2>1
<1>4. Nat \subseteq N
  <2> HIDE DEF N
  <2>1. QED
    BY <1>2, <1>3, SetInduction
<1>5. Fine(S)
  BY <1>1, <1>4
<1>6. QED
  BY <1>5 DEF Sorted, Ordered

(* Sorting loses nothing.                                                  *)
LEMMA SortedAll ==
  ASSUME NEW S, IsFiniteSet(S), NEW key \in [S -> Int \X Int], NEW x \in S
  PROVE  \E i \in 1..Cardinality(S) : Sorted(S, key)[i] = x
<1> DEFINE s == Sorted(S, key)
           n == Cardinality(S)
<1>1. n \in Nat /\ s \in [1..n -> S] /\ IsInjective(s)
  BY SortedRight, FS_CardinalityType DEF Ordered
<1> HIDE DEF s
<1>2. SUFFICES ASSUME \A i \in 1..n : s[i] # x PROVE FALSE
  BY DEF s
<1>3. s \in [1..n -> S \ {x}]
  BY <1>1, <1>2
<1>4. Cardinality(S \ {x}) = n - 1 /\ IsFiniteSet(S \ {x})
  BY FS_RemoveElement, FS_Subset
<1>5. IsFiniteSet(1..n) /\ Cardinality(1..n) = n
  BY <1>1, FS_Interval
<1>6. s \in Injection(1..n, S \ {x})
  BY <1>1, <1>3 DEF IsInjective, Injection
<1>7. Cardinality(1..n) <= Cardinality(S \ {x})
  <2> HIDE DEF n
  <2>1. QED
    BY <1>4, <1>6, FS_Injection
<1>8. QED
  BY <1>1, <1>4, <1>5, <1>7

=============================================================================
