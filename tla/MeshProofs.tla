----------------------------- MODULE MeshProofs -----------------------------
(***************************************************************************)
(* Proofs about the mesh scheduler for any nodes, layers and capacities:   *)
(* water-filling, plans, the allocator's books and pipelines under each of *)
(* its operations, joins, routes, and the invariants of the scheduler.     *)
(***************************************************************************)
EXTENDS MeshScheduler, FiniteSetTheorems, SequenceTheorems, TLAPS

(* What the inductions start from: a set of naturals that is not empty has *)
(* a least element.                                                        *)
LEMMA LeastElement == \A T \in SUBSET Nat : T # {} => \E x \in T : \A y \in T : x <= y
<1> SUFFICES ASSUME NEW T \in SUBSET Nat, T # {} PROVE \E x \in T : \A y \in T : x <= y
  OBVIOUS
<1>1. \E x \in T : \A y \in T : ~(<<y, x>> \in OpToRel(<, Nat))
  BY NatLessThanWellFounded, WFMin
<1>2. \A x, y \in Nat : <<y, x>> \in OpToRel(<, Nat) <=> y < x
  BY DEF OpToRel
<1>3. PICK x \in T : \A y \in T : ~(y < x)
  BY <1>1, <1>2
<1> QED BY <1>3

KeepOne(S, kept, x) == IF x \in S THEN Append(kept, x) ELSE kept
Keep == INSTANCE FoldLemmas WITH Op <- KeepOne

\* The elements of a list, and whether none is there twice.
ElementsOf(seq) == {seq[i] : i \in DOMAIN seq}
NoRepeats(seq) == \A i, j \in DOMAIN seq : seq[i] = seq[j] => i = j

LEMMA AtPosition ==
  ASSUME NEW X, NEW seq \in Seq(X)
  PROVE  /\ DOMAIN seq = 1..Len(seq) /\ Len(seq) \in Nat
         /\ \A i \in DOMAIN seq : seq[i] \in X
         /\ ElementsOf(seq) \in SUBSET X
<1>1. DOMAIN seq = 1..Len(seq) /\ Len(seq) \in Nat
  BY LenProperties
<1>2. \A i \in DOMAIN seq : seq[i] \in X
  BY <1>1, ElementOfSeq
<1> QED BY <1>1, <1>2 DEF ElementsOf

(* Appending and joining lists.                                            *)
LEMMA Appended ==
  ASSUME NEW X, NEW seq \in Seq(X), NEW x \in X
  PROVE  /\ Append(seq, x) \in Seq(X)
         /\ ElementsOf(Append(seq, x)) = ElementsOf(seq) \cup {x}
         /\ NoRepeats(seq) /\ x \notin ElementsOf(seq) => NoRepeats(Append(seq, x))
<1>0. PICK new : new = Append(seq, x)
  OBVIOUS
<1>1. PICK n \in Nat : n = Len(seq) /\ DOMAIN seq = 1..n
  BY AtPosition
<1>2. /\ new \in Seq(X) /\ DOMAIN new = 1..(n + 1) /\ new[n + 1] = x
      /\ \A i \in 1..n : new[i] = seq[i]
  BY <1>0, <1>1, AppendProperties, LenProperties
<1>3. \A i : i \in 1..(n + 1) <=> i \in 1..n \/ i = n + 1
  BY <1>1
<1>4. ElementsOf(new) = ElementsOf(seq) \cup {x}
  BY <1>1, <1>2, <1>3 DEF ElementsOf
<1>5. NoRepeats(seq) /\ x \notin ElementsOf(seq) => NoRepeats(new)
  BY <1>1, <1>2, <1>3 DEF ElementsOf, NoRepeats
<1> QED BY <1>0, <1>2, <1>4, <1>5

LEMMA ConcatFacts ==
  ASSUME NEW X, NEW s \in Seq(X), NEW t \in Seq(X)
  PROVE  /\ s \o t \in Seq(X) /\ ElementsOf(s \o t) = ElementsOf(s) \cup ElementsOf(t)
         /\ NoRepeats(s) /\ NoRepeats(t) /\ ElementsOf(s) \cap ElementsOf(t) = {} => NoRepeats(s \o t)
<1>0. PICK new : new = s \o t
  OBVIOUS
<1>1. PICK m \in Nat : m = Len(s) /\ DOMAIN s = 1..m
  BY AtPosition
<1>2. PICK n \in Nat : n = Len(t) /\ DOMAIN t = 1..n
  BY AtPosition
<1>3. /\ new \in Seq(X) /\ DOMAIN new = 1..(m + n)
      /\ \A i \in 1..(m + n) : new[i] = IF i <= m THEN s[i] ELSE t[i - m]
  BY <1>0, <1>1, <1>2, ConcatProperties, LenProperties
<1>4. \A i \in 1..m : i \in 1..(m + n) /\ new[i] = s[i]
  BY <1>1, <1>2, <1>3
<1>5. ASSUME NEW i \in 1..n PROVE i + m \in 1..(m + n) /\ new[i + m] = t[i]
  <2>1. i + m \in 1..(m + n) /\ ~(i + m <= m) /\ (i + m) - m = i
    BY <1>1, <1>2
  <2> QED BY <1>3, <2>1
<1>6. \A i \in 1..(m + n) : \/ i \in 1..m /\ new[i] = s[i]
                            \/ i - m \in 1..n /\ new[i] = t[i - m]
  BY <1>1, <1>2, <1>3
<1>7. ElementsOf(new) = ElementsOf(s) \cup ElementsOf(t)
  <2>1. \A x : x \in ElementsOf(new) => x \in ElementsOf(s) \cup ElementsOf(t)
    BY <1>1, <1>2, <1>3, <1>6 DEF ElementsOf
  <2>2. \A x : x \in ElementsOf(s) => x \in ElementsOf(new)
    BY <1>1, <1>3, <1>4 DEF ElementsOf
  <2>3. \A x : x \in ElementsOf(t) => x \in ElementsOf(new)
    <3> SUFFICES ASSUME NEW i \in 1..n PROVE t[i] \in ElementsOf(new)
      BY <1>2 DEF ElementsOf
    <3>1. i + m \in DOMAIN new /\ new[i + m] = t[i]
      BY <1>3, <1>5
    <3> QED BY <3>1 DEF ElementsOf
  <2> QED BY <2>1, <2>2, <2>3
<1>8. ASSUME NoRepeats(s), NoRepeats(t), ElementsOf(s) \cap ElementsOf(t) = {}
      PROVE  NoRepeats(new)
  <2>1. \A i \in 1..m : s[i] \in ElementsOf(s)
    BY <1>1 DEF ElementsOf
  <2>2. \A i \in 1..n : t[i] \in ElementsOf(t)
    BY <1>2 DEF ElementsOf
  <2> SUFFICES ASSUME NEW i \in 1..(m + n), NEW j \in 1..(m + n), new[i] = new[j] PROVE i = j
    BY <1>3 DEF NoRepeats
  <2>3. CASE i \in 1..m /\ j \in 1..m
    BY <1>1, <1>4, <1>8, <2>3 DEF NoRepeats
  <2>4. CASE i - m \in 1..n /\ new[i] = t[i - m] /\ j - m \in 1..n /\ new[j] = t[j - m]
    <3>1. i - m = j - m
      BY <1>2, <1>8, <2>4 DEF NoRepeats
    <3> QED BY <1>1, <3>1
  <2>5. CASE i \in 1..m /\ new[i] = s[i] /\ j - m \in 1..n /\ new[j] = t[j - m]
    BY <1>8, <2>1, <2>2, <2>5
  <2>6. CASE j \in 1..m /\ new[j] = s[j] /\ i - m \in 1..n /\ new[i] = t[i - m]
    BY <1>8, <2>1, <2>2, <2>6
  <2> QED BY <1>6, <2>3, <2>4, <2>5, <2>6
<1> QED BY <1>0, <1>3, <1>7, <1>8

(* A filtered list has the elements that pass, still without repeats.      *)
LEMMA SelectedFacts ==
  ASSUME NEW X, NEW seq \in Seq(X), NEW S
  PROVE  /\ Selected(seq, S) \in Seq(X)
         /\ ElementsOf(Selected(seq, S)) = ElementsOf(seq) \cap S
         /\ NoRepeats(seq) => NoRepeats(Selected(seq, S))
<1>1. PICK n \in Nat : n = Len(seq) /\ DOMAIN seq = 1..n
  BY AtPosition
<1> DEFINE Upto(k) == {seq[i] : i \in 1..k}
           Good(kept, k) == /\ ElementsOf(kept) = Upto(k) \cap S
                            /\ NoRepeats(seq) => NoRepeats(kept)
           A == [k \in 0..n |-> {kept \in Seq(X) : Good(kept, k)}]
           empty == << >>
<1>2. empty \in A[0]
  <2>1. empty \in Seq(X) /\ DOMAIN empty = {}
    BY EmptySeq
  <2>2. Upto(0) = {} /\ ElementsOf(empty) = {} /\ NoRepeats(empty)
    BY <2>1 DEF ElementsOf, NoRepeats
  <2> QED BY <1>1, <2>1, <2>2
<1>3. ASSUME NEW k \in 1..n, NEW kept \in A[k - 1]
      PROVE  KeepOne(S, kept, seq[k]) \in A[k]
  <2>1. k - 1 \in 0..n /\ k \in 0..n
    BY <1>1
  <2>2. PICK old \in Seq(X) : old = kept /\ Good(old, k - 1)
    BY <2>1
  <2>3. PICK x \in X : x = seq[k]
    BY <1>1, AtPosition
  <2>4. Upto(k) = Upto(k - 1) \cup {x}
    <3>1. \A i : i \in 1..k <=> i \in 1..(k - 1) \/ i = k
      BY <1>1
    <3> QED BY <2>3, <3>1
  <2>5. NoRepeats(seq) => x \notin Upto(k - 1)
    <3> SUFFICES ASSUME NoRepeats(seq), NEW i \in 1..(k - 1), seq[i] = x PROVE FALSE
      OBVIOUS
    <3>1. i \in 1..n /\ k \in 1..n /\ i # k
      BY <1>1
    <3> QED BY <1>1, <2>3, <3>1 DEF NoRepeats
  <2>6. CASE x \in S
    <3>1. PICK new : new = Append(old, x)
      OBVIOUS
    <3>2. /\ new \in Seq(X) /\ ElementsOf(new) = ElementsOf(old) \cup {x}
          /\ NoRepeats(old) /\ x \notin ElementsOf(old) => NoRepeats(new)
      <4> HIDE DEF Good, A, Upto
      <4>1. new \in Seq(X)
        BY <3>1, Appended
      <4>2. ElementsOf(new) = ElementsOf(old) \cup {x}
        BY <3>1, Appended
      <4>3. NoRepeats(old) /\ x \notin ElementsOf(old) => NoRepeats(new)
        BY <3>1, Appended
      <4> QED BY <4>1, <4>2, <4>3
    <3>3. Good(new, k)
      <4> HIDE DEF Upto
      <4> QED BY <2>2, <2>4, <2>5, <2>6, <3>2
    <3>4. new = KeepOne(S, kept, seq[k])
      BY <2>2, <2>3, <2>6, <3>1 DEF KeepOne
    <3> HIDE DEF Good
    <3> QED BY <2>1, <3>2, <3>3, <3>4
  <2>7. CASE x \notin S
    <3>1. Good(old, k)
      <4> HIDE DEF Upto
      <4> QED BY <2>2, <2>4, <2>7
    <3>2. kept = KeepOne(S, kept, seq[k])
      BY <2>3, <2>7 DEF KeepOne
    <3> HIDE DEF Good
    <3> QED BY <2>1, <2>2, <3>1, <3>2
  <2> QED BY <2>6, <2>7
<1>4. Keep!Fold(S, empty, seq) \in A[n]
  <2> HIDE DEF A, empty
  <2> QED BY <1>1, <1>2, <1>3, LeastElement, Keep!FoldLeftAlong DEF Keep!WellOrdered
<1>5. Keep!Fold(S, empty, seq) = Selected(seq, S)
  BY Zenon DEF Keep!Fold, Selected, KeepOne, FoldLeft, MapThenFoldSet,
               Keep!MapThenFoldSet, Max, Keep!Max
<1>6. Selected(seq, S) \in Seq(X) /\ Good(Selected(seq, S), n)
  <2> HIDE DEF Good
  <2> QED BY <1>1, <1>4, <1>5
<1>7. Upto(n) = ElementsOf(seq)
  BY <1>1 DEF ElementsOf
<1> QED BY <1>6, <1>7
-----------------------------------------------------------------------------
(* Finite sets and sums.                                                   *)


(* A set of subsets that has the empty one, and with every subset those    *)
(* with one element more, has the whole of a finite set.                   *)
LEMMA Growing ==
  ASSUME NEW S, IsFiniteSet(S), NEW P, {} \in P,
         \A A \in SUBSET S : \A x \in S \ A : A \in P => A \cup {x} \in P
  PROVE  S \in P
<1> DEFINE T == {n \in Nat : \E A \in SUBSET S : Cardinality(A) = n /\ A \notin P}
<1>1. \A A \in SUBSET S : IsFiniteSet(A) /\ Cardinality(A) \in Nat
  BY FS_Subset, FS_CardinalityType
<1> SUFFICES ASSUME T # {} PROVE FALSE
  BY <1>1
<1>2. PICK n \in T : \A k \in T : n <= k
  <2>1. T \in SUBSET Nat
    OBVIOUS
  <2> HIDE DEF T
  <2> QED BY <2>1, LeastElement
<1>3. PICK A \in SUBSET S : Cardinality(A) = n /\ A \notin P
  BY <1>2
<1>4. PICK x : x \in A
  BY <1>3
<1>5. PICK B : B = A \ {x}
  OBVIOUS
<1>6. B \in SUBSET S /\ x \in S \ B /\ A = B \cup {x}
  BY <1>3, <1>4, <1>5
<1>7. IsFiniteSet(A) /\ Cardinality(A) \in Nat /\ Cardinality(B) \in Nat
  BY <1>1, <1>3, <1>6
<1>8. Cardinality(B) = n - 1
  BY <1>3, <1>4, <1>5, <1>7, FS_RemoveElement
<1>9. n - 1 \in Nat /\ n - 1 \notin T
  BY <1>2, <1>7, <1>8
<1>10. B \in P
  BY <1>6, <1>8, <1>9
<1> QED BY <1>3, <1>6, <1>10

\* The recursion behind SumOf, over the subsets of S in K.
Chosen(A) == CHOOSE x \in A : TRUE
SumsOn(g, f, S, K) ==
  \A A \in SUBSET S : A \in K => g[A] = IF A = {} THEN 0 ELSE f[Chosen(A)] + g[A \ {Chosen(A)}]

LEMMA ChosenIn == \A A : A # {} => Chosen(A) \in A
  BY DEF Chosen

(* The recursion has a solution.                                           *)
LEMMA SumsExist ==
  ASSUME NEW f, NEW S, IsFiniteSet(S)
  PROVE  \E g : DOMAIN g = SUBSET S /\ SumsOn(g, f, S, SUBSET S)
<1> DEFINE Small(n) == {A \in SUBSET S : Cardinality(A) <= n}
           T == {n \in Nat : ~ \E g : DOMAIN g = SUBSET S /\ SumsOn(g, f, S, Small(n))}
<1>1. \A A \in SUBSET S : IsFiniteSet(A) /\ Cardinality(A) \in Nat
  BY FS_Subset, FS_CardinalityType
<1>2. \A A \in SUBSET S : Cardinality(A) <= Cardinality(S)
  BY FS_Subset
<1>3. SUFFICES ASSUME T # {} PROVE FALSE
  <2>1. Cardinality(S) \in Nat /\ Cardinality(S) \notin T
    BY <1>1, <1>3
  <2>2. PICK g : DOMAIN g = SUBSET S /\ SumsOn(g, f, S, Small(Cardinality(S)))
    BY <2>1
  <2>3. SumsOn(g, f, S, SUBSET S)
    BY <1>2, <2>2 DEF SumsOn
  <2> QED BY <2>2, <2>3
<1>4. PICK n \in T : \A k \in T : n <= k
  <2>1. T \in SUBSET Nat
    OBVIOUS
  <2> HIDE DEF T
  <2> QED BY <1>3, <2>1, LeastElement
<1>5. n # 0
  <2> DEFINE g == [A \in SUBSET S |-> 0]
  <2>1. \A A \in Small(0) : A = {}
    BY <1>1, FS_EmptySet
  <2>2. DOMAIN g = SUBSET S /\ SumsOn(g, f, S, Small(0))
    BY <2>1 DEF SumsOn
  <2> QED BY <2>2
<1>6. n - 1 \in Nat /\ n - 1 \notin T
  <2>1. n \in Nat /\ n - 1 \in Nat /\ ~(n <= n - 1)
    BY <1>4, <1>5
  <2> HIDE DEF T
  <2> QED BY <1>4, <2>1
<1>7. PICK g : DOMAIN g = SUBSET S /\ SumsOn(g, f, S, Small(n - 1))
  BY <1>6
<1> DEFINE h == [A \in SUBSET S |-> IF A = {} \/ A \in Small(n - 1) THEN g[A]
                                    ELSE f[Chosen(A)] + g[A \ {Chosen(A)}]]
<1>8. ASSUME NEW A \in SUBSET S, A \in Small(n)
      PROVE  h[A] = IF A = {} THEN 0 ELSE f[Chosen(A)] + h[A \ {Chosen(A)}]
  <2>0. {} \in Small(n - 1)
    BY <1>6, FS_EmptySet
  <2>1. CASE A = {}
    BY <1>7, <2>0, <2>1 DEF SumsOn
  <2>2. CASE A # {}
    <3>1. PICK B \in SUBSET S : B = A \ {Chosen(A)}
      OBVIOUS
    <3>2. Cardinality(B) = Cardinality(A) - 1
      BY <1>1, <2>2, <3>1, ChosenIn, FS_RemoveElement
    <3>3. B \in Small(n - 1)
      BY <1>1, <1>4, <1>8, <3>2
    <3>4. h[B] = g[B]
      BY <3>3
    <3>5. CASE A \in Small(n - 1)
      <4>1. h[A] = g[A]
        BY <3>5
      <4> QED BY <1>7, <2>2, <3>1, <3>4, <3>5, <4>1 DEF SumsOn
    <3>6. CASE A \notin Small(n - 1)
      BY <2>2, <3>1, <3>4, <3>6
    <3> QED BY <3>5, <3>6
  <2> QED BY <2>1, <2>2
<1>9. DOMAIN h = SUBSET S /\ SumsOn(h, f, S, Small(n))
  <2>1. DOMAIN h = SUBSET S
    OBVIOUS
  <2> HIDE DEF h
  <2> QED BY <1>8, <2>1 DEF SumsOn
<1> QED BY <1>4, <1>9

(* Induction over the size of subsets.                                     *)
LEMMA BySize ==
  ASSUME NEW S, IsFiniteSet(S), NEW P,
         \A A \in SUBSET S :
           (\A B \in SUBSET S : Cardinality(B) < Cardinality(A) => B \in P) => A \in P
  PROVE  \A A \in SUBSET S : A \in P
<1> DEFINE T == {n \in Nat : \E A \in SUBSET S : Cardinality(A) = n /\ A \notin P}
<1>1. \A A \in SUBSET S : Cardinality(A) \in Nat
  BY FS_Subset, FS_CardinalityType
<1> SUFFICES ASSUME T # {} PROVE FALSE
  BY <1>1
<1>2. PICK n \in T : \A k \in T : n <= k
  <2>1. T \in SUBSET Nat
    OBVIOUS
  <2> HIDE DEF T
  <2> QED BY <2>1, LeastElement
<1>3. PICK A \in SUBSET S : Cardinality(A) = n /\ A \notin P
  BY <1>2
<1>4. ASSUME NEW B \in SUBSET S, Cardinality(B) < Cardinality(A) PROVE B \in P
  <2>1. Cardinality(B) \in Nat /\ ~(n <= Cardinality(B))
    BY <1>1, <1>2, <1>3, <1>4
  <2>2. Cardinality(B) \notin T
    <3> HIDE DEF T
    <3> QED BY <1>2, <2>1
  <2> QED BY <2>1, <2>2
<1> QED BY <1>3, <1>4

LEMMA Removed ==
  ASSUME NEW S, IsFiniteSet(S), NEW A \in SUBSET S, NEW x \in A
  PROVE  A \ {x} \in SUBSET S /\ Cardinality(A \ {x}) < Cardinality(A)
<1>1. IsFiniteSet(A) /\ Cardinality(A) \in Nat
  BY FS_Subset, FS_CardinalityType
<1>2. Cardinality(A \ {x}) = Cardinality(A) - 1
  BY <1>1, FS_RemoveElement
<1> QED BY <1>1, <1>2

LEMMA SumSolves ==
  ASSUME NEW f, NEW S, IsFiniteSet(S)
  PROVE  \E g : SumsOn(g, f, S, SUBSET S) /\ SumOf(f, S) = g[S]
<1>1. PICK g : /\ SumOf(f, S) = g[S]
               /\ g = CHOOSE i : i = [A \in SUBSET S |->
                        IF A = {} THEN 0 ELSE f[CHOOSE x \in A : TRUE] + i[A \ {CHOOSE x \in A : TRUE}]]
  BY Zenon DEF SumOf, MapThenSumSet, MapThenFoldSet
<1>2. \E i : i = [A \in SUBSET S |->
                    IF A = {} THEN 0 ELSE f[CHOOSE x \in A : TRUE] + i[A \ {CHOOSE x \in A : TRUE}]]
  <2>1. PICK i : DOMAIN i = SUBSET S /\ SumsOn(i, f, S, SUBSET S)
    BY SumsExist
  <2> DEFINE k == [A \in SUBSET S |-> i[A]]
  <2>2. k = [A \in SUBSET S |->
               IF A = {} THEN 0 ELSE f[Chosen(A)] + k[A \ {Chosen(A)}]]
    BY <2>1 DEF SumsOn
  <2>3. k = [A \in SUBSET S |->
               IF A = {} THEN 0 ELSE f[CHOOSE x \in A : TRUE] + k[A \ {CHOOSE x \in A : TRUE}]]
    BY <2>2, Zenon DEF Chosen
  <2> QED BY <2>3
<1>3. g = [A \in SUBSET S |->
             IF A = {} THEN 0 ELSE f[CHOOSE x \in A : TRUE] + g[A \ {CHOOSE x \in A : TRUE}]]
  BY <1>1, <1>2, Zenon
<1>4. g = [A \in SUBSET S |-> IF A = {} THEN 0 ELSE f[Chosen(A)] + g[A \ {Chosen(A)}]]
  BY <1>3, Zenon DEF Chosen
<1>5. SumsOn(g, f, S, SUBSET S)
  <2> SUFFICES ASSUME NEW A \in SUBSET S
               PROVE  g[A] = IF A = {} THEN 0 ELSE f[Chosen(A)] + g[A \ {Chosen(A)}]
    BY DEF SumsOn
  <2> QED BY <1>4
<1> QED BY <1>1, <1>5

(* Solutions agree where both are defined.                                 *)
LEMMA SumsAgree ==
  ASSUME NEW f, NEW S, IsFiniteSet(S), NEW T \in SUBSET S,
         NEW g, SumsOn(g, f, S, SUBSET S), NEW h, SumsOn(h, f, T, SUBSET T)
  PROVE  h[T] = g[T]
<1> DEFINE P == {A \in SUBSET T : h[A] = g[A]}
<1>1. IsFiniteSet(T)
  BY FS_Subset
<1>2. ASSUME NEW A \in SUBSET T,
             \A B \in SUBSET T : Cardinality(B) < Cardinality(A) => B \in P
      PROVE  A \in P
  <2>1. CASE A = {}
    BY <2>1 DEF SumsOn
  <2>2. CASE A # {}
    <3>1. PICK B : B = A \ {Chosen(A)}
      OBVIOUS
    <3>2. B \in SUBSET T /\ Cardinality(B) < Cardinality(A)
      BY <1>1, <2>2, <3>1, ChosenIn, Removed
    <3>3. h[B] = g[B]
      BY <1>2, <3>2
    <3> QED BY <2>2, <3>1, <3>3 DEF SumsOn
  <2> QED BY <2>1, <2>2
<1> HIDE DEF P
<1>3. T \in P
  BY <1>1, <1>2, BySize
<1> QED BY <1>3 DEF P

(* A sum of integers is one, and may be taken in any order.                *)
LEMMA SumTake ==
  ASSUME NEW S, IsFiniteSet(S), NEW f, \A x \in S : f[x] \in Int
  PROVE  /\ SumOf(f, {}) = 0
         /\ \A A \in SUBSET S :
              /\ SumOf(f, A) \in Int
              /\ \A x \in A : SumOf(f, A) = f[x] + SumOf(f, A \ {x})
<1>1. PICK g : SumsOn(g, f, S, SUBSET S)
  BY SumsExist
<1>2. \A A \in SUBSET S : SumOf(f, A) = g[A]
  <2> TAKE A \in SUBSET S
  <2>1. IsFiniteSet(A)
    BY FS_Subset
  <2>2. PICK h : SumsOn(h, f, A, SUBSET A) /\ SumOf(f, A) = h[A]
    BY <2>1, SumSolves
  <2> QED BY <1>1, <2>2, SumsAgree
<1> DEFINE P == {A \in SUBSET S : g[A] \in Int /\ \A x \in A : g[A] = f[x] + g[A \ {x}]}
<1>3. ASSUME NEW A \in SUBSET S,
             \A B \in SUBSET S : Cardinality(B) < Cardinality(A) => B \in P
      PROVE  A \in P
  <2>1. CASE A = {}
    <3>1. g[A] = 0
      BY <1>1, <2>1 DEF SumsOn
    <3> QED BY <2>1, <3>1
  <2>2. CASE A # {}
    <3>1. PICK c : c = Chosen(A)
      OBVIOUS
    <3>2. c \in A /\ f[c] \in Int
      BY <2>2, <3>1, ChosenIn
    <3>3. g[A] = f[c] + g[A \ {c}]
      BY <1>1, <2>2, <3>1 DEF SumsOn
    <3>4. ASSUME NEW x \in A PROVE A \ {x} \in P
      BY <1>3, <3>4, Removed
    <3>5. g[A] \in Int
      <4>1. A \ {c} \in P
        BY <3>2, <3>4
      <4>2. g[A \ {c}] \in Int
        BY <4>1
      <4> HIDE DEF P
      <4> QED BY <3>2, <3>3, <4>2
    <3>6. ASSUME NEW x \in A PROVE g[A] = f[x] + g[A \ {x}]
      <4>1. CASE x = c
        BY <3>3, <4>1
      <4>2. CASE x # c
        <5>1. PICK m \in Int : m = g[(A \ {c}) \ {x}]
          <6>1. (A \ {c}) \ {x} = (A \ {x}) \ {c}
            OBVIOUS
          <6>2. A \ {c} \in SUBSET S /\ x \in A \ {c}
            BY <4>2
          <6>3. (A \ {c}) \ {x} \in SUBSET S /\ Cardinality((A \ {c}) \ {x}) < Cardinality(A \ {c})
            BY <6>2, Removed
          <6>4. Cardinality(A \ {c}) < Cardinality(A)
            BY <3>2, Removed
          <6>5. Cardinality(A) \in Nat /\ Cardinality(A \ {c}) \in Nat
                /\ Cardinality((A \ {c}) \ {x}) \in Nat
            BY <6>2, <6>3, FS_Subset, FS_CardinalityType
          <6>6. Cardinality((A \ {c}) \ {x}) < Cardinality(A)
            BY <6>3, <6>4, <6>5
          <6>7. (A \ {c}) \ {x} \in P
            BY <1>3, <6>3, <6>6
          <6> QED BY <6>7
        <5>2. g[A \ {c}] = f[x] + m
          <6>1. A \ {c} \in P /\ x \in A \ {c}
            BY <3>2, <3>4, <4>2
          <6> QED BY <5>1, <6>1
        <5>3. g[A \ {x}] = f[c] + m
          <6>1. A \ {x} \in P /\ c \in A \ {x}
            BY <3>2, <3>4, <4>2
          <6>2. (A \ {c}) \ {x} = (A \ {x}) \ {c}
            OBVIOUS
          <6>3. m = g[(A \ {x}) \ {c}]
            BY <5>1, <6>2
          <6> QED BY <6>1, <6>3
        <5>4. f[x] \in Int
          OBVIOUS
        <5> HIDE DEF P
        <5> QED BY <3>2, <3>3, <5>1, <5>2, <5>3, <5>4
      <4> QED BY <4>1, <4>2
    <3> QED BY <3>5, <3>6
  <2> QED BY <2>1, <2>2
<1> HIDE DEF P
<1>4. \A A \in SUBSET S : A \in P
  BY <1>3, BySize
<1>5. SumOf(f, {}) = 0
  BY <1>1, <1>2 DEF SumsOn
<1> QED BY <1>2, <1>4, <1>5 DEF P

LEMMA SumWithout ==
  ASSUME NEW S, IsFiniteSet(S), NEW f, \A y \in S : f[y] \in Int, NEW x \in S
  PROVE  SumOf(f, S) = f[x] + SumOf(f, S \ {x})
<1>1. S \in SUBSET S
  OBVIOUS
<1> QED BY <1>1, SumTake

LEMMA SumAdd ==
  ASSUME NEW S, IsFiniteSet(S), NEW f, \A y \in S : f[y] \in Int, NEW x, x \notin S, f[x] \in Int
  PROVE  SumOf(f, S \cup {x}) = f[x] + SumOf(f, S)
<1> DEFINE T == S \cup {x}
<1>1. IsFiniteSet(T) /\ \A y \in T : f[y] \in Int
  BY FS_AddElement
<1>2. x \in T /\ T \ {x} = S
  OBVIOUS
<1> HIDE DEF T
<1>3. SumOf(f, T) = f[x] + SumOf(f, T \ {x})
  BY <1>1, <1>2, SumWithout
<1> QED BY <1>2, <1>3 DEF T

LEMMA SumInt ==
  ASSUME NEW S, IsFiniteSet(S), NEW f, \A y \in S : f[y] \in Int
  PROVE  SumOf(f, S) \in Int /\ SumOf(f, {}) = 0
  BY SumTake

(* The sum depends on the values at the members only.                      *)
LEMMA SumSame ==
  ASSUME NEW S, IsFiniteSet(S), NEW f, \A y \in S : f[y] \in Int, NEW g, \A y \in S : f[y] = g[y]
  PROVE  SumOf(f, S) = SumOf(g, S)
<1> DEFINE P == {A \in SUBSET S : SumOf(f, A) = SumOf(g, A)}
<1>1. \A y \in S : g[y] \in Int
  OBVIOUS
<1>2. {} \in P
  BY <1>1, SumInt
<1>3. ASSUME NEW A \in SUBSET S, NEW x \in S \ A, A \in P PROVE A \cup {x} \in P
  <2>1. IsFiniteSet(A)
    BY FS_Subset
  <2>2. SumOf(f, A \cup {x}) = f[x] + SumOf(f, A) /\ SumOf(g, A \cup {x}) = g[x] + SumOf(g, A)
    BY <1>1, <2>1, SumAdd
  <2> QED BY <1>3, <2>2
<1> HIDE DEF P
<1>4. S \in P
  BY <1>2, <1>3, Growing
<1> QED BY <1>4 DEF P

LEMMA SumAtMost ==
  ASSUME NEW S, IsFiniteSet(S), NEW f, NEW g,
         \A y \in S : f[y] \in Int /\ g[y] \in Int /\ f[y] <= g[y]
  PROVE  SumOf(f, S) <= SumOf(g, S)
<1> DEFINE P == {A \in SUBSET S : SumOf(f, A) <= SumOf(g, A)}
<1>1. {} \in P
  BY SumInt
<1>2. ASSUME NEW A \in SUBSET S, NEW x \in S \ A, A \in P PROVE A \cup {x} \in P
  <2>1. IsFiniteSet(A)
    BY FS_Subset
  <2>2. SumOf(f, A \cup {x}) = f[x] + SumOf(f, A) /\ SumOf(g, A \cup {x}) = g[x] + SumOf(g, A)
    BY <2>1, SumAdd
  <2>3. SumOf(f, A) \in Int /\ SumOf(g, A) \in Int /\ f[x] \in Int /\ g[x] \in Int /\ f[x] <= g[x]
    BY <2>1, SumInt
  <2> QED BY <1>2, <2>2, <2>3
<1> HIDE DEF P
<1>3. S \in P
  BY <1>1, <1>2, Growing
<1> QED BY <1>3 DEF P

LEMMA SumNat ==
  ASSUME NEW S, IsFiniteSet(S), NEW f, \A y \in S : f[y] \in Nat
  PROVE  SumOf(f, S) \in Nat
<1> DEFINE P == {A \in SUBSET S : SumOf(f, A) \in Nat}
<1>1. {} \in P
  BY SumInt
<1>2. ASSUME NEW A \in SUBSET S, NEW x \in S \ A, A \in P PROVE A \cup {x} \in P
  <2>1. IsFiniteSet(A)
    BY FS_Subset
  <2>2. SumOf(f, A \cup {x}) = f[x] + SumOf(f, A)
    BY <2>1, SumAdd
  <2>3. f[x] \in Nat
    OBVIOUS
  <2> QED BY <1>2, <2>2, <2>3
<1> HIDE DEF P
<1>3. S \in P
  BY <1>1, <1>2, Growing
<1> QED BY <1>3 DEF P

LEMMA SumUnion ==
  ASSUME NEW S, IsFiniteSet(S), NEW T, IsFiniteSet(T), S \cap T = {},
         NEW f, \A y \in S \cup T : f[y] \in Int
  PROVE  SumOf(f, S \cup T) = SumOf(f, S) + SumOf(f, T)
<1> DEFINE P == {A \in SUBSET S : SumOf(f, A \cup T) = SumOf(f, A) + SumOf(f, T)}
<1>0. SumOf(f, T) \in Int
  BY SumInt
<1>1. {} \in P
  <2>1. SumOf(f, {}) = 0
    BY SumInt
  <2>2. {} \cup T = T
    OBVIOUS
  <2> QED BY <1>0, <2>1, <2>2
<1>2. ASSUME NEW A \in SUBSET S, NEW x \in S \ A, A \in P PROVE A \cup {x} \in P
  <2>1. IsFiniteSet(A) /\ IsFiniteSet(A \cup T)
    BY FS_Subset, FS_Union
  <2>2. (A \cup {x}) \cup T = (A \cup T) \cup {x} /\ x \notin A \cup T
    OBVIOUS
  <2>3. SumOf(f, A \cup {x}) = f[x] + SumOf(f, A)
    BY <2>1, SumAdd
  <2>4. SumOf(f, (A \cup T) \cup {x}) = f[x] + SumOf(f, A \cup T)
    BY <2>1, <2>2, SumAdd
  <2>5. PICK a \in Int, b \in Int, t \in Int : a = SumOf(f, A) /\ b = f[x] /\ t = SumOf(f, T)
    BY <1>0, <2>1, SumInt
  <2>6. SumOf(f, A \cup T) = a + t
    BY <1>2, <2>5
  <2>7. b + (a + t) = (b + a) + t
    OBVIOUS
  <2>8. SumOf(f, (A \cup {x}) \cup T) = SumOf(f, A \cup {x}) + SumOf(f, T)
    BY <2>2, <2>3, <2>4, <2>5, <2>6, <2>7
  <2> QED BY <2>8
<1> HIDE DEF P
<1>3. S \in P
  BY <1>1, <1>2, Growing
<1> QED BY <1>3 DEF P

LEMMA SumTimes ==
  ASSUME NEW S, IsFiniteSet(S), NEW f, NEW g, NEW c \in Int,
         \A y \in S : f[y] \in Int /\ g[y] = c * f[y]
  PROVE  SumOf(g, S) = c * SumOf(f, S)
<1> DEFINE P == {A \in SUBSET S : SumOf(g, A) = c * SumOf(f, A)}
<1>0. \A y \in S : g[y] \in Int
  OBVIOUS
<1>1. {} \in P
  <2>1. SumOf(f, {}) = 0 /\ SumOf(g, {}) = 0
    BY <1>0, SumInt
  <2> QED BY <2>1
<1>2. ASSUME NEW A \in SUBSET S, NEW x \in S \ A, A \in P PROVE A \cup {x} \in P
  <2>1. IsFiniteSet(A)
    BY FS_Subset
  <2>2. SumOf(f, A \cup {x}) = f[x] + SumOf(f, A) /\ SumOf(g, A \cup {x}) = g[x] + SumOf(g, A)
    BY <1>0, <2>1, SumAdd
  <2>3. PICK a \in Int, b \in Int : a = f[x] /\ b = SumOf(f, A)
    BY <2>1, SumInt
  <2>4. c * (a + b) = c * a + c * b
    OBVIOUS
  <2>5. g[x] = c * a /\ SumOf(g, A) = c * b
    BY <1>2, <2>3
  <2>6. SumOf(g, A \cup {x}) = c * SumOf(f, A \cup {x})
    BY <2>2, <2>3, <2>4, <2>5
  <2> QED BY <2>6
<1> HIDE DEF P
<1>3. S \in P
  BY <1>1, <1>2, Growing
<1> QED BY <1>3 DEF P

LEMMA SumPlus ==
  ASSUME NEW S, IsFiniteSet(S), NEW f, NEW g, NEW h,
         \A y \in S : f[y] \in Int /\ g[y] \in Int /\ h[y] = f[y] + g[y]
  PROVE  SumOf(h, S) = SumOf(f, S) + SumOf(g, S)
<1> DEFINE P == {A \in SUBSET S : SumOf(h, A) = SumOf(f, A) + SumOf(g, A)}
<1>0. \A y \in S : h[y] \in Int
  OBVIOUS
<1>1. {} \in P
  <2>1. SumOf(f, {}) = 0 /\ SumOf(g, {}) = 0 /\ SumOf(h, {}) = 0
    BY <1>0, SumInt
  <2> QED BY <2>1
<1>2. ASSUME NEW A \in SUBSET S, NEW x \in S \ A, A \in P PROVE A \cup {x} \in P
  <2>1. IsFiniteSet(A)
    BY FS_Subset
  <2>2. /\ SumOf(f, A \cup {x}) = f[x] + SumOf(f, A) /\ SumOf(g, A \cup {x}) = g[x] + SumOf(g, A)
        /\ SumOf(h, A \cup {x}) = h[x] + SumOf(h, A)
    BY <1>0, <2>1, SumAdd
  <2>3. PICK a \in Int, b \in Int, c \in Int, d \in Int :
          a = f[x] /\ b = SumOf(f, A) /\ c = g[x] /\ d = SumOf(g, A)
    BY <2>1, SumInt
  <2>4. h[x] = a + c /\ SumOf(h, A) = b + d
    BY <1>2, <2>3
  <2>5. SumOf(h, A \cup {x}) = SumOf(f, A \cup {x}) + SumOf(g, A \cup {x})
    BY <2>2, <2>3, <2>4
  <2> QED BY <2>5
<1> HIDE DEF P
<1>3. S \in P
  BY <1>1, <1>2, Growing
<1> QED BY <1>3 DEF P

\* A sum of zeros and ones counts the ones.
LEMMA SumOnes ==
  ASSUME NEW S, IsFiniteSet(S), NEW f, \A y \in S : f[y] \in {0, 1}
  PROVE  SumOf(f, S) = Cardinality({y \in S : f[y] = 1})
<1> DEFINE Ones(A) == {y \in A : f[y] = 1}
           P == {A \in SUBSET S : SumOf(f, A) = Cardinality(Ones(A))}
<1>0. \A y \in S : f[y] \in Int
  OBVIOUS
<1>1. {} \in P
  <2>1. SumOf(f, {}) = 0 /\ Cardinality({}) = 0
    BY <1>0, SumInt, FS_EmptySet
  <2>2. Ones({}) = {}
    OBVIOUS
  <2> QED BY <2>1, <2>2
<1>2. ASSUME NEW A \in SUBSET S, NEW x \in S \ A, A \in P PROVE A \cup {x} \in P
  <2>1. IsFiniteSet(A)
    BY FS_Subset
  <2>2. IsFiniteSet(Ones(A)) /\ Cardinality(Ones(A)) \in Nat /\ x \notin Ones(A)
    <3>1. Ones(A) \in SUBSET A
      OBVIOUS
    <3> QED BY <2>1, <3>1, FS_Subset, FS_CardinalityType
  <2>3. SumOf(f, A \cup {x}) = f[x] + SumOf(f, A)
    BY <1>0, <2>1, SumAdd
  <2>4. SumOf(f, A) = Cardinality(Ones(A))
    BY <1>2
  <2>5. CASE f[x] = 1
    <3>1. Ones(A \cup {x}) = Ones(A) \cup {x}
      BY <2>5
    <3>2. Cardinality(Ones(A) \cup {x}) = Cardinality(Ones(A)) + 1
      BY <2>2, FS_AddElement
    <3>3. SumOf(f, A \cup {x}) = Cardinality(Ones(A \cup {x}))
      BY <2>2, <2>3, <2>4, <2>5, <3>1, <3>2
    <3> QED BY <3>3
  <2>6. CASE f[x] = 0
    <3>1. Ones(A \cup {x}) = Ones(A)
      BY <2>6
    <3>2. SumOf(f, A \cup {x}) = Cardinality(Ones(A \cup {x}))
      BY <2>2, <2>3, <2>4, <2>6, <3>1
    <3> QED BY <3>2
  <2> QED BY <2>5, <2>6
<1> HIDE DEF P
<1>3. S \in P
  BY <1>1, <1>2, Growing
<1> QED BY <1>3 DEF P
-----------------------------------------------------------------------------
(* Water-filling (adjust_pipeline_layers).                                 *)

LEMMA TimesMono ==
  ASSUME NEW a \in Int, NEW b \in Int, NEW k \in Int, a <= b, 0 <= k
  PROVE  a * k <= b * k
<1>1. (b - a) * k >= 0
  OBVIOUS
<1>2. (b - a) * k = b * k - a * k
  OBVIOUS
<1> QED BY <1>1, <1>2

LEMMA TimesCancel ==
  ASSUME NEW a \in Int, NEW b \in Int, NEW k \in Int, 0 < k, a * k <= b * k
  PROVE  a <= b
<1> SUFFICES ASSUME b + 1 <= a PROVE FALSE
  OBVIOUS
<1>1. (b + 1) * k <= a * k
  BY TimesMono
<1>2. (b + 1) * k = b * k + k
  OBVIOUS
<1>3. a * k \in Int /\ b * k \in Int
  OBVIOUS
<1> QED BY <1>1, <1>2, <1>3

LEMMA TimesNext ==
  ASSUME NEW x \in Int, NEW d \in Int
  PROVE  x * d + d = d * (x + 1) /\ x * d + d \in Int
  OBVIOUS

(* A stage below the level does not need more than what is left.           *)
LEMMA FullFits ==
  ASSUME NEW c \in Int, NEW d \in Int, NEW n \in Int, NEW p \in Int,
         0 < d, 0 <= n, p <= d, c * d <= n * p
  PROVE  c <= n
<1>1. p * n <= d * n
  BY TimesMono
<1>2. c * d <= n * d
  <2>1. p * n = n * p /\ d * n = n * d /\ c * d \in Int /\ n * p \in Int /\ n * d \in Int
    OBVIOUS
  <2> QED BY <1>1, <2>1
<1> QED BY <1>2, TimesCancel

(* Filling one more stage that is below the level does not lower it.       *)
LEMMA LevelRises ==
  ASSUME NEW c \in Int, NEW p \in Int, NEW cj \in Int, NEW pj \in Int, NEW n \in Int, NEW d \in Int,
         0 < d, 0 <= p, pj <= d, c * d <= n * p, cj * d <= n * pj
  PROVE  c * (d - pj) <= (n - cj) * p
<1>1. (c * d) * (d - pj) <= (n * p) * (d - pj)
  BY TimesMono
<1>2. (cj * d) * p <= (n * pj) * p
  BY TimesMono
<1>3. (c * (d - pj)) * d = (c * d) * (d - pj)
  OBVIOUS
<1>4. ((n - cj) * p) * d = (n * p) * d - (cj * d) * p
  OBVIOUS
<1>5. (n * p) * (d - pj) = (n * p) * d - (n * pj) * p
  OBVIOUS
<1>6. (c * (d - pj)) * d <= ((n - cj) * p) * d
  <2>1. /\ (c * d) * (d - pj) \in Int /\ (n * p) * (d - pj) \in Int /\ (cj * d) * p \in Int
        /\ (n * pj) * p \in Int /\ (n * p) * d \in Int /\ (c * (d - pj)) * d \in Int
        /\ ((n - cj) * p) * d \in Int
    OBVIOUS
  <2> QED BY <1>1, <1>2, <1>3, <1>4, <1>5, <2>1
<1>7. c * (d - pj) \in Int /\ (n - cj) * p \in Int
  OBVIOUS
<1> QED BY <1>6, <1>7, TimesCancel

\* Some set of full stages is consistent with the level it leads to.
LEMMA WaterLevel ==
  ASSUME NEW I, IsFiniteSet(I), NEW L \in Nat, NEW cap, NEW pw,
         \A i \in I : cap[i] \in Int /\ pw[i] \in Nat \ {0}
  PROVE  \E S \in SUBSET I :
           /\ L - SumOf(cap, S) >= 0
           /\ \A i \in S : cap[i] * SumOf(pw, I \ S) <= (L - SumOf(cap, S)) * pw[i]
           /\ \A i \in I \ S : cap[i] * SumOf(pw, I \ S) > (L - SumOf(cap, S)) * pw[i]
<1> DEFINE Num(S) == L - SumOf(cap, S)
           Den(S) == SumOf(pw, I \ S)
           Full(S) == Num(S) >= 0 /\ \A i \in S : cap[i] * Den(S) <= Num(S) * pw[i]
           T == {n \in Nat : \E S \in SUBSET I : Full(S) /\ Cardinality(I \ S) = n}
<1>1. \A S \in SUBSET I : /\ IsFiniteSet(S) /\ IsFiniteSet(I \ S) /\ Cardinality(I \ S) \in Nat
                          /\ Num(S) \in Int /\ Den(S) \in Nat
  <2> SUFFICES ASSUME NEW S \in SUBSET I
               PROVE  /\ IsFiniteSet(S) /\ IsFiniteSet(I \ S) /\ Cardinality(I \ S) \in Nat
                      /\ Num(S) \in Int /\ Den(S) \in Nat
    OBVIOUS
  <2>1. IsFiniteSet(S) /\ IsFiniteSet(I \ S)
    BY FS_Subset
  <2>2. Cardinality(I \ S) \in Nat
    BY <2>1, FS_CardinalityType
  <2>3. SumOf(cap, S) \in Int
    BY <2>1, SumInt
  <2>4. SumOf(pw, I \ S) \in Nat
    <3>1. \A y \in I \ S : pw[y] \in Nat
      OBVIOUS
    <3> QED BY <2>1, <3>1, SumNat
  <2> QED BY <2>1, <2>2, <2>3, <2>4
<1>2. T \in SUBSET Nat /\ T # {}
  <2>1. SumOf(cap, {}) = 0
    BY SumInt
  <2>2. Full({})
    BY <2>1
  <2>3. Cardinality(I \ {}) \in T
    BY <1>1, <2>2
  <2> QED BY <2>3
<1>3. PICK n \in T : \A k \in T : n <= k
  <2> HIDE DEF T
  <2> QED BY <1>2, LeastElement
<1>4. PICK S \in SUBSET I : Full(S) /\ Cardinality(I \ S) = n
  BY <1>3
<1>5. ASSUME NEW j \in I \ S, cap[j] * Den(S) <= Num(S) * pw[j]
      PROVE  FALSE
  <2>1. PICK R : R = S \cup {j}
    OBVIOUS
  <2>2. R \in SUBSET I /\ I \ R = (I \ S) \ {j}
    BY <2>1
  <2>3. Num(R) = Num(S) - cap[j]
    <3>1. SumOf(cap, R) = cap[j] + SumOf(cap, S)
      <4>1. \A y \in S : cap[y] \in Int
        OBVIOUS
      <4> QED BY <1>1, <2>1, <4>1, SumAdd
    <3>2. SumOf(cap, S) \in Int
      BY <1>1, SumInt
    <3> QED BY <3>1, <3>2
  <2>4. Den(R) = Den(S) - pw[j]
    <3>1. \A y \in I \ S : pw[y] \in Int
      OBVIOUS
    <3>2. SumOf(pw, I \ S) = pw[j] + SumOf(pw, (I \ S) \ {j})
      BY <1>1, <3>1, SumWithout
    <3>3. SumOf(pw, (I \ S) \ {j}) \in Nat
      BY <1>1, <2>2
    <3>4. PICK x \in Nat : x = SumOf(pw, (I \ S) \ {j})
      BY <3>3
    <3>5. PICK y \in Int : y = pw[j]
      OBVIOUS
    <3>6. Den(S) = y + x /\ Den(R) = x
      BY <2>2, <3>2, <3>4, <3>5
    <3> HIDE DEF Den
    <3> QED BY <3>5, <3>6
  <2>5. /\ Num(S) \in Int /\ Den(S) \in Int /\ 0 < Den(S) /\ pw[j] <= Den(S) /\ 0 <= Num(S)
        /\ cap[j] \in Int /\ pw[j] \in Int /\ 0 < pw[j]
    <3>1. Den(S) \in Nat /\ Den(R) \in Nat /\ Num(S) \in Int
      BY <1>1, <2>2
    <3>2. 0 <= Num(S)
      BY <1>4, <3>1
    <3>3. cap[j] \in Int /\ pw[j] \in Nat \ {0}
      OBVIOUS
    <3> HIDE DEF Den, Num
    <3> QED BY <2>4, <3>1, <3>2, <3>3
  <2>6. 0 <= Num(S) - cap[j]
    <3> HIDE DEF Den, Num
    <3>1. cap[j] <= Num(S)
      BY <1>5, <2>5, FullFits
    <3> QED BY <2>5, <3>1
  <2>7. ASSUME NEW i \in R PROVE cap[i] * Den(R) <= Num(R) * pw[i]
    <3>1. cap[i] * Den(S) <= Num(S) * pw[i]
      BY <1>4, <1>5, <2>1
    <3>2. cap[i] \in Int /\ pw[i] \in Int /\ 0 <= pw[i]
      BY <2>2
    <3> HIDE DEF Den, Num
    <3>3. cap[i] * (Den(S) - pw[j]) <= (Num(S) - cap[j]) * pw[i]
      BY <1>5, <2>5, <3>1, <3>2, LevelRises
    <3> QED BY <2>3, <2>4, <3>3
  <2>8. Full(R)
    BY <2>3, <2>6, <2>7
  <2>9. Cardinality(I \ R) = n - 1 /\ n - 1 \in Nat
    <3>1. j \in I \ S /\ Cardinality((I \ S) \ {j}) = Cardinality(I \ S) - 1
      BY <1>1, FS_RemoveElement
    <3>2. Cardinality((I \ S) \ {j}) \in Nat
      BY <1>1, <2>2
    <3> QED BY <1>4, <2>2, <3>1, <3>2
  <2>10. n - 1 \in T
    BY <2>2, <2>8, <2>9
  <2>11. n \in Nat
    BY <1>2, <1>3
  <2>12. n <= n - 1
    <3> HIDE DEF T
    <3> QED BY <1>3, <2>10
  <2> QED BY <2>11, <2>12
<1>6. \A i \in I \ S : cap[i] * Den(S) > Num(S) * pw[i]
  <2> SUFFICES ASSUME NEW i \in I \ S PROVE cap[i] * Den(S) > Num(S) * pw[i]
    OBVIOUS
  <2>1. ~(cap[i] * Den(S) <= Num(S) * pw[i])
    BY <1>5
  <2>2. cap[i] \in Int /\ pw[i] \in Int /\ Den(S) \in Int /\ Num(S) \in Int
    <3>1. cap[i] \in Int /\ pw[i] \in Int
      OBVIOUS
    <3>2. Den(S) \in Nat /\ Num(S) \in Int
      BY <1>1
    <3> HIDE DEF Den, Num
    <3> QED BY <3>1, <3>2
  <2> HIDE DEF Den, Num
  <2>3. cap[i] * Den(S) \in Int /\ Num(S) * pw[i] \in Int
    BY <2>2
  <2> QED BY <2>1, <2>3
<1> QED BY <1>4, <1>6

LEMMA Division ==
  ASSUME NEW a \in Int, NEW d \in Nat \ {0}
  PROVE  /\ a \div d \in Int /\ a % d \in Nat /\ (a \div d) * d <= a /\ a < (a \div d) * d + d
         /\ 0 <= a => 0 <= a \div d
  OBVIOUS

LEMMA DivMono ==
  ASSUME NEW a \in Int, NEW b \in Int, NEW d \in Nat \ {0}, a <= b
  PROVE  a \div d <= b \div d
<1>1. PICK x \in Int : x = a \div d /\ x * d <= a
  BY Division
<1>2. PICK y \in Int : y = b \div d /\ b < y * d + d
  BY Division
<1> SUFFICES ASSUME y + 1 <= x PROVE FALSE
  BY <1>1, <1>2
<1>3. (y + 1) * d <= x * d
  BY TimesMono
<1>4. (y + 1) * d = y * d + d
  OBVIOUS
<1>5. y * d \in Int /\ x * d \in Int
  OBVIOUS
<1> QED BY <1>1, <1>2, <1>3, <1>4, <1>5

\* Any node has room for the embedding, or as much for the LM head: no stage of a
\* pipeline has a negative capacity. (adjust_pipeline_layers raises ValueError for a
\* stage whose capacity is not positive; a bootstrap that raises is not modelled.)
NodesHold == \A n \in Node : Capacity(n, TRUE, FALSE) >= 0

LEMMA Capacities ==
  ASSUME NEW n \in Node
  PROVE  /\ \A x, y \in BOOLEAN : Capacity(n, x, y) \in Int
         /\ NodesHold => \A y \in BOOLEAN : Capacity(n, FALSE, y) >= 0
<1>1. PICK m \in Nat : m = Mem[n]
  BY MeshAssumption
<1>2. LayerSize \in Nat \ {0} /\ EmbedSize \in Nat
  BY MeshAssumption
<1>3. ASSUME NEW x \in BOOLEAN, NEW y \in BOOLEAN
      PROVE  \E e \in Int : e <= m /\ Capacity(n, x, y) = e \div LayerSize
                            /\ (~x => m - EmbedSize <= e) /\ (x /\ ~y => e = m - EmbedSize)
  <2>1. PICK u \in Int : u = (IF x THEN EmbedSize ELSE 0) /\ 0 <= u
    BY <1>2
  <2>2. PICK v \in Int : /\ v = (IF y /\ ~(x /\ TieEmbedding) THEN EmbedSize ELSE 0)
                        /\ 0 <= v /\ v <= EmbedSize
    BY <1>2
  <2>3. PICK e : e = m - u - v
    OBVIOUS
  <2>4. e \in Int /\ e <= m
    BY <2>1, <2>2, <2>3
  <2>5. Capacity(n, x, y) = e \div LayerSize
    BY <1>1, <2>1, <2>2, <2>3 DEF Capacity
  <2>6. ~x => m - EmbedSize <= e
    <3> SUFFICES ASSUME ~x PROVE m - EmbedSize <= e
      OBVIOUS
    <3>1. u = 0
      BY <2>1
    <3> QED BY <1>2, <2>2, <2>3, <3>1
  <2>7. x /\ ~y => e = m - EmbedSize
    <3> SUFFICES ASSUME x, ~y PROVE e = m - EmbedSize
      OBVIOUS
    <3>1. u = EmbedSize /\ v = 0
      BY <2>1, <2>2
    <3> QED BY <1>2, <2>3, <3>1
  <2> QED BY <2>4, <2>5, <2>6, <2>7
<1>4. ASSUME NEW x \in BOOLEAN, NEW y \in BOOLEAN PROVE Capacity(n, x, y) \in Int
  <2>0. PICK d \in Nat \ {0} : d = LayerSize
    BY <1>2
  <2>1. PICK e \in Int : Capacity(n, x, y) = e \div LayerSize
    BY <1>3
  <2>2. e \div d \in Int
    BY Division
  <2> QED BY <2>0, <2>1, <2>2
<1>5. ASSUME NodesHold, NEW y \in BOOLEAN PROVE Capacity(n, FALSE, y) >= 0
  <2>1. PICK e \in Int : Capacity(n, FALSE, y) = e \div LayerSize /\ m - EmbedSize <= e
    BY <1>3
  <2>2. Capacity(n, TRUE, FALSE) = (m - EmbedSize) \div LayerSize
    <3>1. PICK f \in Int : Capacity(n, TRUE, FALSE) = f \div LayerSize /\ f = m - EmbedSize
      BY <1>3
    <3> QED BY <3>1
  <2>3. (m - EmbedSize) \div LayerSize <= e \div LayerSize
    BY <1>2, <2>1, DivMono
  <2>4. Capacity(n, TRUE, FALSE) >= 0
    BY <1>5 DEF NodesHold
  <2>5. e \div LayerSize \in Int /\ (m - EmbedSize) \div LayerSize \in Int
    BY <1>2, Division
  <2>6. PICK a : a = Capacity(n, TRUE, FALSE)
    OBVIOUS
  <2>7. PICK b : b = Capacity(n, FALSE, y)
    OBVIOUS
  <2>8. a \in Int /\ b \in Int /\ a <= b /\ a >= 0
    BY <2>1, <2>2, <2>3, <2>4, <2>5, <2>6, <2>7
  <2>9. b >= 0
    BY <2>8
  <2> QED BY <2>7, <2>9, Zenon
<1> QED BY <1>4, <1>5

LEMMA StageCaps ==
  ASSUME NEW pl \in Seq(Node), NEW i \in DOMAIN pl
  PROVE  StageCap(pl, i) \in Int /\ (NodesHold => StageCap(pl, i) \in Nat)
<1>1. PICK n \in Node : n = pl[i]
  BY ElementOfSeq, LenProperties
<1>2. CASE i = 1
  <2>1. StageCap(pl, i) = Capacity(n, TRUE, FALSE)
    BY <1>1, <1>2 DEF StageCap
  <2>2. PICK c \in Int : c = Capacity(n, TRUE, FALSE)
    BY Capacities, Zenon
  <2>3. NodesHold => c >= 0
    BY <2>2, Zenon DEF NodesHold
  <2>4. c >= 0 => c \in Nat
    OBVIOUS
  <2> QED BY <2>1, <2>2, <2>3, <2>4, Zenon
<1>3. CASE i # 1
  <2>1. PICK y \in BOOLEAN : y = (i = Len(pl))
    OBVIOUS
  <2>2. StageCap(pl, i) = Capacity(n, FALSE, y)
    BY <1>1, <1>3, <2>1 DEF StageCap
  <2>3. PICK c \in Int : c = Capacity(n, FALSE, y) /\ (NodesHold => c >= 0)
    BY Capacities, Zenon
  <2>4. c >= 0 => c \in Nat
    OBVIOUS
  <2> QED BY <2>2, <2>3, <2>4, Zenon
<1> QED BY <1>2, <1>3

LEMMA Positions ==
  ASSUME NEW pl \in Seq(Node)
  PROVE  /\ DOMAIN pl = 1..Len(pl) /\ Len(pl) \in Nat /\ IsFiniteSet(DOMAIN pl)
         /\ \A i \in DOMAIN pl : pl[i] \in Node /\ Power[pl[i]] \in Nat \ {0}
<1>1. DOMAIN pl = 1..Len(pl) /\ Len(pl) \in Nat
  BY LenProperties
<1>2. IsFiniteSet(1..Len(pl))
  BY <1>1, FS_Interval
<1>3. \A i \in DOMAIN pl : pl[i] \in Node
  BY <1>1, ElementOfSeq
<1> QED BY <1>1, <1>2, <1>3, MeshAssumption

(* The water level exists, so Saturated is a set of full stages.           *)
LEMMA LevelExists ==
  ASSUME NEW pl \in Seq(Node), NEW S, S = Saturated(pl)
  PROVE  S \in SUBSET DOMAIN pl /\ AtLevel(pl, S, LeftOver(pl, S), OpenPower(pl, S))
<1> DEFINE cap == [i \in DOMAIN pl |-> StageCap(pl, i)]
           pw == [i \in DOMAIN pl |-> Power[pl[i]]]
<1>1. \A i \in DOMAIN pl : cap[i] \in Int /\ pw[i] \in Nat \ {0}
  BY StageCaps, Positions
<1>2. NumLayers \in Nat
  BY MeshAssumption
<1>3. PICK R \in SUBSET DOMAIN pl :
         /\ NumLayers - SumOf(cap, R) >= 0
         /\ \A i \in R : cap[i] * SumOf(pw, DOMAIN pl \ R) <= (NumLayers - SumOf(cap, R)) * pw[i]
         /\ \A i \in DOMAIN pl \ R :
               cap[i] * SumOf(pw, DOMAIN pl \ R) > (NumLayers - SumOf(cap, R)) * pw[i]
  <2> HIDE DEF cap, pw
  <2> QED BY <1>1, <1>2, Positions, WaterLevel
<1>4. \A i \in DOMAIN pl : cap[i] = StageCap(pl, i) /\ pw[i] = Power[pl[i]]
  OBVIOUS
<1>5. LeftOver(pl, R) = NumLayers - SumOf(cap, R) /\ OpenPower(pl, R) = SumOf(pw, DOMAIN pl \ R)
  BY DEF LeftOver, OpenPower
<1>6. AtLevel(pl, R, LeftOver(pl, R), OpenPower(pl, R))
  <2> HIDE DEF cap, pw
  <2> QED BY <1>3, <1>4, <1>5 DEF AtLevel
<1>7. \E Q \in SUBSET DOMAIN pl : AtLevel(pl, Q, LeftOver(pl, Q), OpenPower(pl, Q))
  BY <1>6
<1> QED BY <1>7 DEF Saturated

Share == [floor : Nat, rest : Nat, full : BOOLEAN]
Floors(share) == [i \in DOMAIN share |-> share[i].floor]

Open(share) == {i \in DOMAIN share : ~share[i].full}
Caps(pl) == [i \in DOMAIN pl |-> StageCap(pl, i)]

(* The floors of the shares do not exceed the layers there are, and when   *)
(* the stages hold the model, one layer more for each stage that is not    *)
(* full would be enough.                                                   *)
LEMMA SharesFit ==
  ASSUME NodesHold, NEW pl \in Seq(Node), NEW share, share = StageShares(pl, Saturated(pl))
  PROVE  /\ share \in [DOMAIN pl -> Share]
         /\ SumOf(Floors(share), DOMAIN pl) <= NumLayers
         /\ SumOf(Caps(pl), DOMAIN pl) >= NumLayers =>
              NumLayers - SumOf(Floors(share), DOMAIN pl) <= Cardinality(Open(share))
<1>1. PICK S \in SUBSET DOMAIN pl : S = Saturated(pl) /\ AtLevel(pl, S, LeftOver(pl, S), OpenPower(pl, S))
  BY LevelExists
<1> DEFINE I == DOMAIN pl
           cap == [i \in I |-> StageCap(pl, i)]
           pw == [i \in I |-> Power[pl[i]]]
<1>2. IsFiniteSet(I) /\ IsFiniteSet(S) /\ IsFiniteSet(I \ S)
  BY Positions, FS_Subset
<1>3. \A i \in I : cap[i] = StageCap(pl, i) /\ cap[i] \in Nat /\ pw[i] = Power[pl[i]] /\ pw[i] \in Nat \ {0}
  BY StageCaps, Positions
<1>4. PICK num : num = LeftOver(pl, S)
  OBVIOUS
<1>5. PICK den : den = OpenPower(pl, S)
  OBVIOUS
<1>6. num = NumLayers - SumOf(cap, S) /\ den = SumOf(pw, I \ S)
  BY <1>4, <1>5 DEF LeftOver, OpenPower
<1>6a. cap = Caps(pl)
  BY DEF Caps
<1> HIDE DEF cap, pw
<1>7. SumOf(cap, S) \in Nat /\ NumLayers \in Nat
  <2>1. \A y \in S : cap[y] \in Nat
    BY <1>3
  <2> QED BY <1>2, <2>1, SumNat, MeshAssumption
<1>8. num \in Nat
  <2>1. num >= 0
    BY <1>1, <1>4, <1>5 DEF AtLevel
  <2> QED BY <1>6, <1>7, <2>1
<1>9. den \in Nat
  <2>1. \A y \in I \ S : pw[y] \in Nat
    BY <1>3
  <2> QED BY <1>2, <1>6, <2>1, SumNat
<1>10. ASSUME NEW i \in I \ S PROVE den \in Nat \ {0}
  <2>1. \A y \in I \ S : pw[y] \in Int
    BY <1>3
  <2>2. SumOf(pw, I \ S) = pw[i] + SumOf(pw, (I \ S) \ {i})
    <3>1. PICK J : J = I \ S
      OBVIOUS
    <3>2. IsFiniteSet(J) /\ i \in J /\ \A y \in J : pw[y] \in Int
      BY <1>2, <2>1, <3>1
    <3>3. SumOf(pw, J) = pw[i] + SumOf(pw, J \ {i})
      BY <3>2, SumWithout
    <3> QED BY <3>1, <3>3, Zenon
  <2>3. SumOf(pw, (I \ S) \ {i}) \in Nat
    <3>1. IsFiniteSet((I \ S) \ {i})
      BY <1>2, FS_Subset
    <3>2. \A y \in (I \ S) \ {i} : pw[y] \in Nat
      BY <1>3
    <3> QED BY <3>1, <3>2, SumNat
  <2>4. pw[i] \in Nat \ {0}
    BY <1>3
  <2> QED BY <1>6, <2>2, <2>3, <2>4
<1>11. share = [i \in I |-> IF i \in S THEN [floor |-> cap[i], rest |-> 0, full |-> TRUE]
                            ELSE [floor |-> (num * pw[i]) \div den,
                                  rest |-> (num * pw[i]) % den, full |-> FALSE]]
  BY <1>1, <1>3, <1>4, <1>5 DEF StageShares, Shares
<1>12. ASSUME NEW i \in I \ S
       PROVE  /\ (num * pw[i]) \div den \in Nat /\ (num * pw[i]) % den \in Nat
              /\ ((num * pw[i]) \div den) * den <= num * pw[i]
  <2>1. PICK a \in Nat : a = num * pw[i]
    BY <1>3, <1>8
  <2>2. PICK d \in Nat \ {0} : d = den
    BY <1>10
  <2>3. a \div d \in Int /\ a % d \in Nat /\ (a \div d) * d <= a /\ 0 <= a \div d
    BY Division
  <2> QED BY <2>1, <2>2, <2>3
<1>13. \A i \in I : share[i] \in Share
  BY <1>3, <1>11, <1>12 DEF Share
<1>14. share \in [I -> Share]
  BY <1>11, <1>13
<1>15. PICK g : g = Floors(share)
  OBVIOUS
<1>16. /\ \A i \in S : g[i] = cap[i]
       /\ \A i \in I \ S : g[i] = (num * pw[i]) \div den
       /\ \A i \in I : g[i] \in Nat
  BY <1>11, <1>13, <1>14, <1>15 DEF Floors, Share
<1>17. SumOf(g, I) = SumOf(g, S) + SumOf(g, I \ S)
  <2>1. S \cap (I \ S) = {} /\ S \cup (I \ S) = I
    OBVIOUS
  <2> QED BY <1>2, <1>16, <2>1, SumUnion
<1>18. SumOf(g, S) = SumOf(cap, S)
  <2>1. \A y \in S : g[y] \in Int /\ g[y] = cap[y]
    BY <1>3, <1>16
  <2> QED BY <1>2, <2>1, SumSame
<1>19. SumOf(g, I \ S) \in Nat
  BY <1>2, <1>16, SumNat
<1>20. SumOf(g, I \ S) <= num
  <2>1. CASE I \ S = {}
    <3>1. SumOf(g, {}) = 0
      BY <1>2, <1>16, SumInt
    <3>2. SumOf(g, I \ S) = 0
      BY <2>1, <3>1, Zenon
    <3> QED BY <1>8, <3>2
  <2>2. CASE I \ S # {}
    <3>1. den \in Nat \ {0}
      BY <1>10, <2>2
    <3> DEFINE u == [i \in I \ S |-> den * g[i]]
               v == [i \in I \ S |-> num * pw[i]]
    <3>2. \A i \in I \ S : g[i] \in Int /\ pw[i] \in Int
      BY <1>3, <1>16
    <3>3. ASSUME NEW i \in I \ S
          PROVE  u[i] \in Int /\ v[i] \in Int /\ u[i] <= v[i] /\ u[i] = den * g[i] /\ v[i] = num * pw[i]
      <4>1. PICK x \in Nat : x = g[i] /\ x * den <= num * pw[i]
        BY <1>12, <1>16
      <4>2. PICK y \in Nat : y = num * pw[i]
        BY <1>3, <1>8
      <4>3. x * den = den * x /\ den * x \in Int
        BY <3>1
      <4> QED BY <4>1, <4>2, <4>3
    <3> HIDE DEF u, v
    <3>4. SumOf(u, I \ S) <= SumOf(v, I \ S)
      BY <1>2, <3>3, SumAtMost
    <3>5. SumOf(u, I \ S) = den * SumOf(g, I \ S)
      BY <1>2, <1>9, <3>2, <3>3, SumTimes
    <3>6. SumOf(v, I \ S) = num * SumOf(pw, I \ S)
      BY <1>2, <1>8, <3>2, <3>3, SumTimes
    <3>7. PICK x \in Nat : x = SumOf(g, I \ S)
      BY <1>19
    <3>8. den * x <= num * den
      BY <1>6, <3>4, <3>5, <3>6, <3>7
    <3>9. x * den <= num * den
      BY <3>1, <3>8
    <3> QED BY <1>8, <3>1, <3>7, <3>9, TimesCancel
  <2> QED BY <2>1, <2>2
<1>21. SumOf(g, I) <= NumLayers
  BY <1>6, <1>7, <1>8, <1>17, <1>18, <1>19, <1>20
<1>22. Open(share) = I \ S
  BY <1>1, <1>11, <1>14 DEF Open
<1>23. ASSUME SumOf(cap, I) >= NumLayers
       PROVE  NumLayers - SumOf(g, I) <= Cardinality(I \ S)
  <2>0. Cardinality(I \ S) \in Nat
    BY <1>2, FS_CardinalityType
  <2>1. CASE I \ S = {}
    <3>1. S = I
      BY <1>1, <2>1
    <3>2. SumOf(g, I) = SumOf(cap, I)
      BY <1>18, <3>1, Zenon
    <3>3. SumOf(cap, I) \in Nat
      BY <1>7, <3>1, Zenon
    <3> QED BY <1>7, <1>23, <2>0, <3>2, <3>3
  <2>2. CASE I \ S # {}
    <3>1. den \in Nat \ {0}
      BY <1>10, <2>2
    <3> DEFINE one == [i \in I \ S |-> 1]
               h == [i \in I \ S |-> g[i] + 1]
               u == [i \in I \ S |-> den * h[i]]
               v == [i \in I \ S |-> num * pw[i]]
    <3>2. \A i \in I \ S : g[i] \in Int /\ pw[i] \in Int /\ one[i] \in Int /\ one[i] \in {0, 1}
      BY <1>3, <1>16
    <3>3. \A i \in I \ S : h[i] = g[i] + one[i] /\ h[i] = g[i] + 1 /\ h[i] \in Int
      BY <3>2
    <3>4. {i \in I \ S : one[i] = 1} = I \ S
      OBVIOUS
    <3> HIDE DEF one, h
    <3>5. ASSUME NEW i \in I \ S
          PROVE  u[i] \in Int /\ v[i] \in Int /\ v[i] <= u[i] /\ u[i] = den * h[i] /\ v[i] = num * pw[i]
      <4>1. PICK a \in Nat : a = num * pw[i]
        BY <1>3, <1>8
      <4>2. PICK d \in Nat \ {0} : d = den
        BY <3>1
      <4>3. a \div d \in Int /\ a < (a \div d) * d + d
        BY Division
      <4>4. PICK x \in Int : x = a \div d /\ h[i] = x + 1
        BY <1>16, <3>3, <4>1, <4>2, <4>3
      <4>5. a <= d * (x + 1) /\ d * (x + 1) \in Int
        <5>1. x * d + d = d * (x + 1) /\ x * d + d \in Int
          BY <4>4, TimesNext
        <5>2. a < x * d + d
          BY <4>3, <4>4
        <5> QED BY <5>1, <5>2
      <4> QED BY <4>1, <4>2, <4>4, <4>5
    <3> HIDE DEF u, v
    <3>6. SumOf(v, I \ S) <= SumOf(u, I \ S)
      BY <1>2, <3>5, SumAtMost
    <3>7. SumOf(u, I \ S) = den * SumOf(h, I \ S)
      BY <1>2, <1>9, <3>3, <3>5, SumTimes
    <3>8. SumOf(v, I \ S) = num * SumOf(pw, I \ S)
      BY <1>2, <1>8, <3>2, <3>5, SumTimes
    <3>9. SumOf(h, I \ S) = SumOf(g, I \ S) + SumOf(one, I \ S)
      <4>1. PICK J : J = I \ S
        OBVIOUS
      <4>2. \A y \in J : g[y] \in Int /\ one[y] \in Int /\ h[y] = g[y] + one[y]
        BY <3>2, <3>3, <4>1
      <4> QED BY <1>2, <4>1, <4>2, SumPlus, Zenon
    <3>10. SumOf(one, I \ S) = Cardinality(I \ S)
      <4>1. SumOf(one, I \ S) = Cardinality({i \in I \ S : one[i] = 1})
        BY <1>2, <3>2, SumOnes
      <4> QED BY <3>4, <4>1, Zenon
    <3>11. PICK x \in Nat : x = SumOf(g, I \ S) + Cardinality(I \ S) /\ x = SumOf(h, I \ S)
      BY <1>19, <2>0, <3>9, <3>10
    <3>12. num * den <= den * x
      BY <1>6, <3>6, <3>7, <3>8, <3>11
    <3>13. num * den <= x * den
      BY <3>1, <3>12
    <3>14. num <= x
      BY <1>8, <3>1, <3>11, <3>13, TimesCancel
    <3>15. PICK y \in Nat, z \in Nat, k \in Nat :
             y = SumOf(cap, S) /\ z = SumOf(g, I \ S) /\ k = Cardinality(I \ S)
      BY <1>7, <1>19, <2>0
    <3>16. num = NumLayers - y /\ SumOf(g, I) = y + z /\ num <= z + k /\ NumLayers \in Nat
      BY <1>6, <1>7, <1>17, <1>18, <3>11, <3>14, <3>15
    <3>17. NumLayers - (y + z) <= k
      BY <3>15, <3>16
    <3> QED BY <3>15, <3>16, <3>17
  <2> QED BY <2>1, <2>2
<1> QED BY <1>6a, <1>14, <1>15, <1>21, <1>22, <1>23

(* Rounding up hands out no more than the layers that remain, and all of   *)
(* them when there are as many stages that are not full.                   *)
LEMMA RoundedUp ==
  ASSUME NEW I \in SUBSET Int, IsFiniteSet(I), NEW share \in [I -> Share],
         SumOf(Floors(share), I) <= NumLayers
  PROVE  /\ RoundUp(share) \in [I -> Nat]
         /\ SumOf(RoundUp(share), I) <= NumLayers
         /\ NumLayers - SumOf(Floors(share), I) <= Cardinality(Open(share)) =>
              SumOf(RoundUp(share), I) = NumLayers
<1> DEFINE Ahead(i) == {j \in I : /\ ~share[j].full
                                  /\ \/ share[j].rest > share[i].rest
                                     \/ share[j].rest = share[i].rest /\ j < i}
<1>1. PICK g : g = Floors(share)
  OBVIOUS
<1>2. \A i \in I : g[i] = share[i].floor /\ g[i] \in Nat /\ share[i].rest \in Nat /\ share[i].full \in BOOLEAN
  BY <1>1 DEF Floors, Share
<1>3. PICK remaining : remaining = NumLayers - SumOf(g, I)
  OBVIOUS
<1>4. remaining \in Nat /\ SumOf(g, I) \in Nat /\ NumLayers \in Nat
  <2>1. SumOf(g, I) \in Nat
    BY <1>2, SumNat
  <2>2. NumLayers \in Nat
    BY MeshAssumption
  <2> QED BY <1>1, <1>3, <2>1, <2>2
<1> DEFINE Up == {i \in I : ~share[i].full /\ Cardinality(Ahead(i)) < remaining}
           up == [i \in I |-> IF i \in Up THEN 1 ELSE 0]
<1>5. \A i \in I : IsFiniteSet(Ahead(i)) /\ Cardinality(Ahead(i)) \in Nat
  BY FS_Subset, FS_CardinalityType
<1>6. ASSUME NEW i \in I, NEW j \in I, j \in Ahead(i)
      PROVE  Cardinality(Ahead(j)) < Cardinality(Ahead(i))
  <2>1. j \notin Ahead(j)
    BY <1>2
  <2>2. Ahead(j) \subseteq Ahead(i)
    <3> SUFFICES ASSUME NEW k \in Ahead(j) PROVE k \in Ahead(i)
      OBVIOUS
    <3>1. k \in I /\ ~share[k].full /\ k \in Int /\ i \in Int /\ j \in Int
      OBVIOUS
    <3>2. share[k].rest \in Nat /\ share[j].rest \in Nat /\ share[i].rest \in Nat
      BY <1>2, <3>1
    <3>3. share[k].rest > share[j].rest \/ (share[k].rest = share[j].rest /\ k < j)
      OBVIOUS
    <3>4. share[j].rest > share[i].rest \/ (share[j].rest = share[i].rest /\ j < i)
      BY <1>6
    <3>5. share[k].rest > share[i].rest \/ (share[k].rest = share[i].rest /\ k < i)
      BY <3>1, <3>2, <3>3, <3>4
    <3> QED BY <3>1, <3>5
  <2> HIDE DEF Ahead
  <2>3. Ahead(j) \in SUBSET Ahead(i) /\ Ahead(j) # Ahead(i)
    BY <1>6, <2>1, <2>2
  <2>4. IsFiniteSet(Ahead(i)) /\ Cardinality(Ahead(i)) \in Nat /\ Cardinality(Ahead(j)) \in Nat
    BY <1>5
  <2>5. /\ Cardinality(Ahead(j)) <= Cardinality(Ahead(i))
        /\ Cardinality(Ahead(i)) = Cardinality(Ahead(j)) => Ahead(i) = Ahead(j)
    BY <2>3, <2>4, FS_Subset
  <2> QED BY <2>3, <2>4, <2>5
<1>7. \A i, j \in Up : i # j => j \in Ahead(i) \/ i \in Ahead(j)
  <2> SUFFICES ASSUME NEW i \in Up, NEW j \in Up, i # j PROVE j \in Ahead(i) \/ i \in Ahead(j)
    OBVIOUS
  <2>1. i \in I /\ j \in I /\ ~share[i].full /\ ~share[j].full /\ i \in Int /\ j \in Int
    OBVIOUS
  <2>2. share[j].rest \in Nat /\ share[i].rest \in Nat
    BY <1>2, <2>1
  <2> QED BY <2>1, <2>2
<1>8. IsFiniteSet(Up) /\ Cardinality(Up) \in Nat
  <2>1. Up \in SUBSET I
    OBVIOUS
  <2> HIDE DEF Up
  <2> QED BY <2>1, FS_Subset, FS_CardinalityType
<1>9. Cardinality(Up) <= remaining
  <2> SUFFICES ASSUME remaining < Cardinality(Up) PROVE FALSE
    BY <1>4, <1>8
  <2>1. PICK T : T = 0 .. remaining - 1
    OBVIOUS
  <2>2. IsFiniteSet(T) /\ Cardinality(T) = remaining
    BY <1>4, <2>1, FS_Interval
  <2>3. PICK f : f = [i \in Up |-> Cardinality(Ahead(i))]
    OBVIOUS
  <2>4. f \in [Up -> T]
    <3>1. \A i \in Up : i \in I /\ Cardinality(Ahead(i)) < remaining
      OBVIOUS
    <3> HIDE DEF Up, Ahead
    <3>2. ASSUME NEW i \in Up PROVE f[i] \in T
      <4>1. PICK k \in Nat : k = Cardinality(Ahead(i)) /\ k < remaining
        BY <1>5, <3>1
      <4> QED BY <1>4, <2>1, <2>3, <4>1
    <3> QED BY <2>3, <3>2
  <2>5. \A i \in Up : i \in I
    OBVIOUS
  <2> HIDE DEF Up, Ahead
  <2>6. PICK i \in Up, j \in Up : i # j /\ f[i] = f[j]
    BY <1>8, <2>2, <2>4, FS_PigeonHole
  <2>7. Cardinality(Ahead(i)) = Cardinality(Ahead(j)) /\ i \in I /\ j \in I
    BY <2>3, <2>5, <2>6
  <2>8. Cardinality(Ahead(i)) \in Nat
    BY <1>5, <2>7
  <2> QED BY <1>6, <1>7, <2>6, <2>7, <2>8
<1>9a. ASSUME remaining <= Cardinality(Open(share)) PROVE Cardinality(Up) = remaining
  <2> SUFFICES ASSUME Cardinality(Up) < remaining PROVE FALSE
    BY <1>4, <1>8, <1>9
  <2>1. PICK O : O = Open(share)
    OBVIOUS
  <2>2. /\ O \in SUBSET I /\ \A i \in I : Ahead(i) \in SUBSET O
        /\ Up \in SUBSET O /\ \A i \in O : i \in Up <=> Cardinality(Ahead(i)) < remaining
    BY <2>1 DEF Open
  <2>3. PICK W : W = {Cardinality(Ahead(i)) : i \in O \ Up}
    OBVIOUS
  <2> HIDE DEF Ahead, Up
  <2>4. W # {}
    <3>1. O # Up
      BY <1>4, <1>8, <1>9a, <2>1
    <3> QED BY <2>2, <2>3, <3>1
  <2>5. W \in SUBSET Nat
    BY <1>5, <2>2, <2>3
  <2>6. PICK w \in W : \A x \in W : w <= x
    BY <2>4, <2>5, LeastElement
  <2>7. PICK i \in O \ Up : w = Cardinality(Ahead(i))
    BY <2>3, <2>6
  <2>8. Ahead(i) \in SUBSET Up
    <3> SUFFICES ASSUME NEW j \in Ahead(i), j \notin Up PROVE FALSE
      OBVIOUS
    <3>1. i \in I /\ j \in O /\ j \in I
      BY <2>2, <2>7
    <3>2. Cardinality(Ahead(j)) < Cardinality(Ahead(i))
      BY <1>6, <3>1
    <3>3. Cardinality(Ahead(j)) \in W
      BY <2>3, <3>1
    <3>4. PICK x \in W : x = Cardinality(Ahead(j))
      BY <3>3
    <3>5. x \in Nat /\ w \in Nat /\ x < w /\ w <= x
      BY <2>5, <2>6, <2>7, <3>2, <3>4
    <3> QED BY <3>5
  <2>9. Cardinality(Ahead(i)) <= Cardinality(Up)
    BY <1>8, <2>8, FS_Subset
  <2>10. i \in O /\ Cardinality(Ahead(i)) \in Nat
    BY <2>5, <2>6, <2>7
  <2>11. Cardinality(Ahead(i)) < remaining
    BY <1>4, <1>8, <2>9, <2>10
  <2> QED BY <2>2, <2>7, <2>10, <2>11
<1>10. RoundUp(share) = [i \in I |-> g[i] + up[i]]
  <2>1. DOMAIN share = I
    OBVIOUS
  <2>2. remaining = NumLayers - SumOf([i \in I |-> share[i].floor], I)
    BY <1>1, <1>3, <2>1 DEF Floors
  <2>3. \A i \in I : up[i] = IF ~share[i].full /\ Cardinality(Ahead(i)) < remaining THEN 1 ELSE 0
    OBVIOUS
  <2>4. \A i \in I : g[i] = share[i].floor
    BY <1>2
  <2>5. PICK p : p = up
    OBVIOUS
  <2>6. \A i \in I : p[i] = IF ~share[i].full /\ Cardinality(Ahead(i)) < remaining THEN 1 ELSE 0
    BY <2>3, <2>5
  <2>7. RoundUp(share) = [i \in I |-> share[i].floor
                            + (IF ~share[i].full /\ Cardinality(Ahead(i)) < remaining THEN 1 ELSE 0)]
    BY <2>1, <2>2, Zenon DEF RoundUp
  <2> HIDE DEF up, Up, Ahead
  <2>8. RoundUp(share) = [i \in I |-> g[i] + p[i]]
    BY <2>4, <2>6, <2>7
  <2> QED BY <2>5, <2>8
<1>11. PICK p : p = up
  OBVIOUS
<1>12. Up \in SUBSET I /\ \A i \in I : p[i] = IF i \in Up THEN 1 ELSE 0
  <2>1. Up \in SUBSET I
    OBVIOUS
  <2> HIDE DEF Up
  <2> QED BY <1>11, <2>1
<1> HIDE DEF up, Up
<1>13. PICK c : c = RoundUp(share)
  OBVIOUS
<1>14. \A i \in I : /\ c[i] = g[i] + p[i] /\ g[i] \in Int /\ p[i] \in {0, 1} /\ p[i] \in Int
                   /\ c[i] \in Nat
  BY <1>2, <1>10, <1>11, <1>12, <1>13
<1>15. SumOf(c, I) = SumOf(g, I) + SumOf(p, I)
  <2>1. \A y \in I : g[y] \in Int /\ p[y] \in Int /\ c[y] = g[y] + p[y]
    BY <1>14
  <2> QED BY <2>1, SumPlus, Zenon
<1>16. SumOf(p, I) = Cardinality(Up)
  <2>1. PICK U : U = {i \in I : p[i] = 1}
    OBVIOUS
  <2>2. \A i : i \in U <=> i \in Up
    <3>1. PICK W : W = Up
      OBVIOUS
    <3>2. W \in SUBSET I /\ \A i \in I : p[i] = IF i \in W THEN 1 ELSE 0
      BY <1>12, <3>1
    <3>3. ASSUME NEW i PROVE i \in U <=> i \in W
      <4>1. CASE i \in I /\ i \in W
        BY <2>1, <3>2, <4>1
      <4>2. CASE i \in I /\ i \notin W
        BY <2>1, <3>2, <4>2
      <4>3. CASE i \notin I
        BY <2>1, <3>2, <4>3
      <4> QED BY <4>1, <4>2, <4>3
    <3> QED BY <3>1, <3>3, Zenon
  <2>3. U = Up
    BY <2>2
  <2>4. \A y \in I : p[y] \in {0, 1}
    BY <1>14
  <2>5. SumOf(p, I) = Cardinality(U)
    BY <2>1, <2>4, SumOnes
  <2> QED BY <2>3, <2>5
<1>17. c \in [I -> Nat]
  BY <1>10, <1>13, <1>14
<1>18. SumOf(c, I) <= NumLayers
  BY <1>3, <1>4, <1>8, <1>9, <1>15, <1>16
<1>19. ASSUME NumLayers - SumOf(Floors(share), I) <= Cardinality(Open(share))
       PROVE  SumOf(c, I) = NumLayers
  <2>1. Cardinality(Up) = remaining
    BY <1>1, <1>3, <1>9a, <1>19
  <2> QED BY <1>3, <1>4, <1>15, <1>16, <2>1
<1> QED BY <1>13, <1>17, <1>18, <1>19

(* Each stage of a pipeline gets a number of layers, together no more than *)
(* there are, and all of them when the stages hold the model.              *)
LEMMA CountsFit ==
  ASSUME NodesHold, NEW pl \in Seq(Node)
  PROVE  /\ StageCounts(pl) \in [DOMAIN pl -> Nat]
         /\ SumOf(StageCounts(pl), DOMAIN pl) <= NumLayers
         /\ SumOf(Caps(pl), DOMAIN pl) >= NumLayers =>
              SumOf(StageCounts(pl), DOMAIN pl) = NumLayers
<1>1. PICK share : share = StageShares(pl, Saturated(pl))
  OBVIOUS
<1>2. /\ share \in [DOMAIN pl -> Share] /\ SumOf(Floors(share), DOMAIN pl) <= NumLayers
      /\ SumOf(Caps(pl), DOMAIN pl) >= NumLayers =>
           NumLayers - SumOf(Floors(share), DOMAIN pl) <= Cardinality(Open(share))
  BY <1>1, SharesFit
<1>3. DOMAIN pl \in SUBSET Int /\ IsFiniteSet(DOMAIN pl)
  BY Positions
<1> QED BY <1>1, <1>2, <1>3, RoundedUp DEF StageCounts

\* The ranges a node can have: they hold a layer and end where the model does.
Span == {r \in RangeOfLayers : r[1] < r[2]}

(* A laid-out stage has layers of the model, or none.                      *)
LEMMA LayoutFits ==
  ASSUME NodesHold, NEW pl \in Seq(Node), NEW lay, lay = Layout(pl, StageCounts(pl))
  PROVE  /\ DOMAIN lay = DOMAIN pl
         /\ \A i \in DOMAIN pl :
              /\ lay[i].n = pl[i] /\ lay[i].range[1] \in Int /\ lay[i].range[2] \in Int
              /\ lay[i].range[1] < lay[i].range[2] => lay[i].range \in Span
<1>1. PICK c : c = StageCounts(pl)
  OBVIOUS
<1>2. c \in [DOMAIN pl -> Nat] /\ SumOf(c, DOMAIN pl) <= NumLayers
  BY <1>1, CountsFit
<1>3. DOMAIN pl = 1..Len(pl) /\ Len(pl) \in Nat /\ IsFiniteSet(DOMAIN pl)
  BY Positions
<1>4. ASSUME NEW k \in 0..Len(pl)
      PROVE  SumOf(c, 1..k) \in Nat /\ SumOf(c, 1..k) <= NumLayers
  <2>1. IsFiniteSet(1..k) /\ IsFiniteSet(k + 1 .. Len(pl))
    BY <1>3, FS_Interval
  <2>2. (1..k) \cap (k + 1 .. Len(pl)) = {} /\ (1..k) \cup (k + 1 .. Len(pl)) = 1..Len(pl)
    BY <1>3
  <2>3. \A y \in (1..k) \cup (k + 1 .. Len(pl)) : c[y] \in Nat
    BY <1>2, <1>3, <2>2
  <2>4. SumOf(c, 1..Len(pl)) = SumOf(c, 1..k) + SumOf(c, k + 1 .. Len(pl))
    <3>1. SumOf(c, (1..k) \cup (k + 1 .. Len(pl))) = SumOf(c, 1..k) + SumOf(c, k + 1 .. Len(pl))
      <4>1. \A y \in (1..k) \cup (k + 1 .. Len(pl)) : c[y] \in Int
        BY <2>3
      <4> QED BY <2>1, <2>2, <4>1, SumUnion, Zenon
    <3> QED BY <2>2, <3>1, Zenon
  <2>5. SumOf(c, 1..k) \in Nat /\ SumOf(c, k + 1 .. Len(pl)) \in Nat
    BY <2>1, <2>3, SumNat
  <2>6. SumOf(c, 1..Len(pl)) <= NumLayers /\ NumLayers \in Nat
    BY <1>2, <1>3, MeshAssumption
  <2> QED BY <2>4, <2>5, <2>6
<1>5. lay = [i \in DOMAIN pl |-> [n |-> pl[i], range |-> <<SumOf(c, 1 .. i - 1), SumOf(c, 1 .. i)>>]]
  BY <1>1 DEF Layout
<1>6. ASSUME NEW i \in DOMAIN pl
      PROVE  /\ lay[i].n = pl[i] /\ lay[i].range[1] \in Int /\ lay[i].range[2] \in Int
             /\ lay[i].range[1] < lay[i].range[2] => lay[i].range \in Span
  <2>1. i \in 0..Len(pl) /\ i - 1 \in 0..Len(pl)
    BY <1>3
  <2>2. PICK s \in Nat, e \in Nat : s = SumOf(c, 1 .. i - 1) /\ e = SumOf(c, 1 .. i) /\ e <= NumLayers
    BY <1>4, <2>1
  <2>3. lay[i].n = pl[i] /\ lay[i].range = <<s, e>>
    BY <1>5, <2>2
  <2>4. s < e => <<s, e>> \in Span
    <3> SUFFICES ASSUME s < e PROVE <<s, e>> \in Span
      OBVIOUS
    <3>1. NumLayers \in Nat
      BY MeshAssumption
    <3>2. s \in Layer /\ e \in 1..NumLayers
      BY <2>2, <3>1 DEF Layer
    <3>3. <<s, e>> \in RangeOfLayers
      BY <3>2 DEF RangeOfLayers
    <3> QED BY <3>3 DEF Span
  <2> QED BY <2>3, <2>4
<1> QED BY <1>5, <1>6
-----------------------------------------------------------------------------
(* Plans.                                                                  *)

\* Larger ratios come before smaller ones: transitivity.
LEMMA RatioTransitive ==
  ASSUME NEW X \in Int, NEW Y \in Int, NEW Z \in Int,
         NEW s \in Nat \ {0}, NEW t \in Nat \ {0}, NEW r \in Nat \ {0},
         X * t >= Y * s, Y * r >= Z * t
  PROVE  X * r >= Z * s
<1>1. (Y * s) * r <= (X * t) * r
  BY TimesMono
<1>2. (Z * t) * s <= (Y * r) * s
  BY TimesMono
<1>3. (Y * s) * r = (Y * r) * s /\ (X * t) * r = (X * r) * t /\ (Z * t) * s = (Z * s) * t
  OBVIOUS
<1>4. X * r \in Int /\ Z * s \in Int /\ (X * r) * t \in Int /\ (Z * s) * t \in Int /\ (Y * r) * s \in Int
  OBVIOUS
<1>5. (Z * s) * t <= (X * r) * t
  BY <1>1, <1>2, <1>3, <1>4
<1>6. Z * s <= X * r
  BY <1>4, <1>5, TimesCancel
<1> QED BY <1>4, <1>6

\* u = <<pipelines, stages>> is at least as good as v.
Beats(u, v) ==
  \/ (u[1] * u[1]) * v[2] > (v[1] * v[1]) * u[2]
  \/ (u[1] * u[1]) * v[2] = (v[1] * v[1]) * u[2] /\ u[1] <= v[1]

LEMMA BeatsOrders ==
  ASSUME NEW N \in Nat
  PROVE  /\ \A u, v \in (1..N) \X (1..N) : Beats(u, v) \/ Beats(v, u)
         /\ \A u \in (1..N) \X (1..N) : Beats(u, u)
         /\ \A u, v, w \in (1..N) \X (1..N) : Beats(u, v) /\ Beats(v, w) => Beats(u, w)
<1>1. ASSUME NEW u \in (1..N) \X (1..N), NEW v \in (1..N) \X (1..N)
      PROVE  /\ u[1] \in Int /\ u[1] * u[1] \in Int /\ u[2] \in Nat \ {0}
             /\ (u[1] * u[1]) * v[2] \in Int /\ (v[1] * v[1]) * u[2] \in Int
  <2>1. PICK k \in 1..N, s \in 1..N : k = u[1] /\ s = u[2]
    OBVIOUS
  <2>2. PICK j \in 1..N, t \in 1..N : j = v[1] /\ t = v[2]
    OBVIOUS
  <2>3. k * k \in Int /\ (k * k) * t \in Int /\ (j * j) * s \in Int /\ s \in Nat \ {0} /\ k \in Int
    OBVIOUS
  <2> QED BY <2>1, <2>2, <2>3
<1>2. \A u, v \in (1..N) \X (1..N) : Beats(u, v) \/ Beats(v, u)
  BY <1>1 DEF Beats
<1>3. \A u \in (1..N) \X (1..N) : Beats(u, u)
  BY <1>1 DEF Beats
<1>4. ASSUME NEW u \in (1..N) \X (1..N), NEW v \in (1..N) \X (1..N), NEW w \in (1..N) \X (1..N),
             Beats(u, v), Beats(v, w)
      PROVE  Beats(u, w)
  <2>1. PICK X \in Int, s \in Nat \ {0} : X = u[1] * u[1] /\ s = u[2]
    BY <1>1
  <2>2. PICK Y \in Int, t \in Nat \ {0} : Y = v[1] * v[1] /\ t = v[2]
    BY <1>1
  <2>3. PICK Z \in Int, r \in Nat \ {0} : Z = w[1] * w[1] /\ r = w[2]
    BY <1>1
  <2>4. u[1] \in Int /\ v[1] \in Int /\ w[1] \in Int
    BY <1>1
  <2>5. /\ X * t \in Int /\ Y * s \in Int /\ Y * r \in Int /\ Z * t \in Int /\ X * r \in Int /\ Z * s \in Int
    OBVIOUS
  <2>6. X * t > Y * s \/ (X * t = Y * s /\ u[1] <= v[1])
    BY <1>4, <2>1, <2>2 DEF Beats
  <2>7. Y * r > Z * t \/ (Y * r = Z * t /\ v[1] <= w[1])
    BY <1>4, <2>2, <2>3 DEF Beats
  <2>8. X * t >= Y * s /\ Y * r >= Z * t
    BY <2>5, <2>6, <2>7
  <2>9. X * r >= Z * s
    BY <2>8, RatioTransitive
  <2>10. X * r > Z * s \/ (X * r = Z * s /\ u[1] <= w[1])
    <3>1. CASE X * r > Z * s
      BY <3>1
    <3>2. CASE X * r = Z * s
      <4>1. Z * s >= X * r
        BY <2>5, <3>2
      <4>2. Y * s >= X * t
        BY <2>8, <4>1, RatioTransitive
      <4>3. Z * t >= Y * r
        BY <2>8, <4>1, RatioTransitive
      <4>4. u[1] <= v[1] /\ v[1] <= w[1]
        BY <2>5, <2>6, <2>7, <4>2, <4>3
      <4> QED BY <2>4, <3>2, <4>4
    <3> QED BY <2>5, <2>9, <3>1, <3>2
  <2> QED BY <2>1, <2>2, <2>3, <2>10 DEF Beats
<1> QED BY <1>2, <1>3, <1>4

(* Among finitely many kinds of plan one is best.                          *)
LEMMA BestExists ==
  ASSUME NEW N \in Nat, NEW P, P # {}, \A p \in P : p[1] \in 1..N /\ Stages(p[2]) \in 1..N
  PROVE  Best(P) # {}
<1> DEFINE Key(p) == <<p[1], Stages(p[2])>>
           Q == (1..N) \X (1..N)
           K == {Key(p) : p \in P}
           F == {A \in SUBSET K : A = {} \/ \E b \in A : \A c \in A : Beats(b, c)}
<1>1. IsFiniteSet(Q)
  <2>1. IsFiniteSet(1..N)
    BY FS_Interval
  <2> QED BY <2>1, FS_Product
<1>2. K \in SUBSET Q /\ K # {}
  <2>1. \A p \in P : Key(p) \in Q
    OBVIOUS
  <2> HIDE DEF Key, Q
  <2> QED BY <2>1
<1>3. IsFiniteSet(K)
  <2> HIDE DEF K, Q
  <2> QED BY <1>1, <1>2, FS_Subset
<1>4. /\ \A u, v \in K : Beats(u, v) \/ Beats(v, u)
      /\ \A u \in K : Beats(u, u)
      /\ \A u, v, w \in K : Beats(u, v) /\ Beats(v, w) => Beats(u, w)
  <2> HIDE DEF K
  <2> QED BY <1>2, BeatsOrders
<1>5. {} \in F
  OBVIOUS
<1>6. ASSUME NEW A \in SUBSET K, NEW x \in K \ A, A \in F PROVE A \cup {x} \in F
  <2> HIDE DEF K
  <2>1. CASE A = {}
    BY <1>4, <2>1
  <2>2. CASE A # {}
    <3>1. PICK b \in A : \A c \in A : Beats(b, c)
      BY <1>6, <2>2
    <3>2. CASE Beats(b, x)
      BY <3>1, <3>2
    <3>3. CASE Beats(x, b)
      <4>1. \A c \in A : Beats(x, c)
        BY <1>4, <3>1, <3>3
      <4> QED BY <1>4, <4>1
    <3> QED BY <1>4, <3>2, <3>3
  <2> QED BY <2>1, <2>2
<1>7. K \in F
  <2> HIDE DEF K, F
  <2> QED BY <1>3, <1>5, <1>6, Growing
<1>8. PICK b \in K : \A c \in K : Beats(b, c)
  BY <1>2, <1>7
<1>9. PICK p \in P : b = Key(p)
  BY <1>8
<1>10. p \in Best(P)
  <2> SUFFICES ASSUME NEW q \in P
               PROVE  LET score == p[1] * p[1] * Stages(q[2]) - q[1] * q[1] * Stages(p[2])
                      IN score > 0 \/ (score = 0 /\ p[1] <= q[1])
    BY Zenon DEF Best
  <2>1. Beats(Key(p), Key(q))
    BY <1>8, <1>9
  <2>2. PICK k \in Int, s \in Int : k = p[1] /\ s = Stages(p[2])
    OBVIOUS
  <2>3. PICK j \in Int, t \in Int : j = q[1] /\ t = Stages(q[2])
    OBVIOUS
  <2>4. (k * k) * t > (j * j) * s \/ ((k * k) * t = (j * j) * s /\ k <= j)
    BY <2>1, <2>2, <2>3 DEF Beats
  <2>5. (k * k) * t \in Int /\ (j * j) * s \in Int
    OBVIOUS
  <2>6. (k * k) * t - (j * j) * s > 0 \/ ((k * k) * t - (j * j) * s = 0 /\ k <= j)
    BY <2>4, <2>5
  <2> QED BY <2>2, <2>3, <2>6
<1> QED BY <1>10

(* The pipelines of an assignment partition the nodes it assigns.          *)
LEMMA PipelineFacts ==
  ASSUME NEW a, a.nodes \in Seq(Node), NoRepeats(a.nodes),
         NEW f, DOMAIN f = DOMAIN a.nodes, NEW j
  PROVE  /\ PipelineOf(a, f, j) \in Seq(Node) /\ NoRepeats(PipelineOf(a, f, j))
         /\ ElementsOf(PipelineOf(a, f, j)) = {a.nodes[i] : i \in {i \in DOMAIN f : f[i] = j}}
<1>1. PICK n \in Nat : n = Len(a.nodes) /\ DOMAIN a.nodes = 1..n
  BY AtPosition
<1> DEFINE ids == [i \in DOMAIN a.nodes |-> i]
<1>2. ids \in Seq(1..n) /\ ElementsOf(ids) = 1..n /\ NoRepeats(ids)
  <2>1. ids \in [1..n -> 1..n]
    BY <1>1
  <2>2. ids \in Seq(1..n)
    BY <2>1, SeqDef
  <2> QED BY <1>1, <2>2 DEF ElementsOf, NoRepeats
<1>3. PICK at : at = Selected(ids, {i \in DOMAIN f : f[i] = j})
  OBVIOUS
<1>4. /\ at \in Seq(1..n) /\ NoRepeats(at)
      /\ ElementsOf(at) = (1..n) \cap {i \in DOMAIN f : f[i] = j}
  <2> HIDE DEF ids
  <2> QED BY <1>2, <1>3, SelectedFacts
<1>5. PICK m \in Nat : m = Len(at) /\ DOMAIN at = 1..m /\ \A x \in 1..m : at[x] \in 1..n
  BY <1>4, AtPosition
<1>6. PICK pl : pl = PipelineOf(a, f, j)
  OBVIOUS
<1>7. pl = [x \in 1..m |-> a.nodes[at[x]]]
  BY <1>3, <1>5, <1>6 DEF PipelineOf
<1>8. \A x \in 1..m : a.nodes[at[x]] \in Node
  BY <1>1, <1>5, AtPosition
<1>9. pl \in Seq(Node)
  <2>1. pl \in [1..m -> Node]
    BY <1>7, <1>8
  <2> QED BY <2>1, SeqDef
<1>10. NoRepeats(pl)
  <2> SUFFICES ASSUME NEW x \in 1..m, NEW y \in 1..m, pl[x] = pl[y] PROVE x = y
    BY <1>7 DEF NoRepeats
  <2>1. a.nodes[at[x]] = a.nodes[at[y]] /\ at[x] \in 1..n /\ at[y] \in 1..n
    BY <1>5, <1>7
  <2>2. at[x] = at[y]
    BY <1>1, <2>1 DEF NoRepeats
  <2> QED BY <1>4, <1>5, <2>2 DEF NoRepeats
<1>11. ElementsOf(pl) = {a.nodes[i] : i \in {i \in DOMAIN f : f[i] = j}}
  <2>1. \A x \in 1..m : at[x] \in {i \in DOMAIN f : f[i] = j}
    BY <1>4, <1>5 DEF ElementsOf
  <2>2. \A i \in {i \in DOMAIN f : f[i] = j} : \E x \in 1..m : at[x] = i
    BY <1>1, <1>4, <1>5 DEF ElementsOf
  <2>3. DOMAIN pl = 1..m /\ \A x \in 1..m : pl[x] = a.nodes[at[x]]
    BY <1>7
  <2>4. \A z : z \in ElementsOf(pl) => z \in {a.nodes[i] : i \in {i \in DOMAIN f : f[i] = j}}
    BY <2>1, <2>3 DEF ElementsOf
  <2>5. \A i \in {i \in DOMAIN f : f[i] = j} : a.nodes[i] \in ElementsOf(pl)
    BY <2>2, <2>3 DEF ElementsOf
  <2> QED BY <2>4, <2>5
<1> QED BY <1>6, <1>9, <1>10, <1>11

LEMMA PlanKinds ==
  ASSUME NEW a, a.nodes \in Seq(Node), NoRepeats(a.nodes), NEW p \in Plans(a)
  PROVE  /\ p[1] \in 1..Len(a.nodes) /\ DOMAIN p[2] = DOMAIN a.nodes
         /\ Stages(p[2]) \in 1..Len(a.nodes) /\ Closes(PipelineOf(a, p[2], 1))
<1>1. PICK n \in Nat : n = Len(a.nodes) /\ DOMAIN a.nodes = 1..n
  BY AtPosition
<1>a. PICK k \in 1..n : p \in {<<k, f>> : f \in Assignments(a, k)}
  BY <1>1 DEF Plans
<1>2. PICK f \in Assignments(a, k) : p = <<k, f>>
  BY <1>a
<1>3. f \in [1..n -> 0..k] /\ \A j \in 1..k : Closes(PipelineOf(a, f, j))
  BY <1>1, <1>2, Zenon DEF Assignments
<1>4. DOMAIN f = 1..n
  BY <1>3
<1>5. PICK pl : pl = PipelineOf(a, f, 1)
  OBVIOUS
<1>6. pl # <<>>
  <2>1. 1 \in 1..k
    BY <1>2
  <2>2. Closes(pl)
    BY <1>3, <1>5, <2>1
  <2> QED BY <2>2, Zenon DEF Closes
<1>7. pl \in Seq(Node) /\ ElementsOf(pl) = {a.nodes[i] : i \in {i \in DOMAIN f : f[i] = 1}}
  BY <1>1, <1>4, <1>5, PipelineFacts
<1>8. PICK i \in 1..n : f[i] = 1
  <2>1. Len(pl) \in Nat /\ Len(pl) # 0 /\ DOMAIN pl = 1..Len(pl)
    BY <1>6, <1>7, AtPosition, EmptySeq
  <2>2. pl[1] \in ElementsOf(pl)
    BY <2>1 DEF ElementsOf
  <2> QED BY <1>4, <1>7, <2>2
<1> DEFINE I == {x \in DOMAIN f : f[x] # 0}
<1>9. I \in SUBSET (1..n) /\ i \in I
  BY <1>4, <1>8
<1> HIDE DEF I
<1>10. IsFiniteSet(1..n) /\ Cardinality(1..n) = n
  BY FS_Interval
<1>11. IsFiniteSet(I) /\ Cardinality(I) <= n
  BY <1>9, <1>10, FS_Subset
<1>12. Cardinality(I) \in Nat /\ Cardinality(I) # 0
  BY <1>9, <1>11, FS_EmptySet, FS_CardinalityType
<1>13. Stages(f) \in 1..n
  BY <1>11, <1>12 DEF Stages, I
<1>14. Closes(PipelineOf(a, f, 1))
  <2>1. 1 \in 1..k
    BY <1>2
  <2> QED BY <1>3, <2>1, Zenon
<1> QED BY <1>1, <1>2, <1>4, <1>13, <1>14

(* Among assignments one skips the earlier nodes: up to each position in   *)
(* turn, one of them is not preceded there.                                *)
LEMMA FirstExists ==
  ASSUME NEW N \in Nat, NEW P, P # {}, \A p \in P : DOMAIN p[2] = 1..N
  PROVE  FirstFound(P) # {}
<1> DEFINE SkipsAt(f, g, i) == /\ f[i] = 0 /\ g[i] # 0
                               /\ \A h \in 1..N : h < i => f[h] = g[h]
           Ahead(p, i) == \A q \in P, h \in 1..N : h <= i => ~SkipsAt(q[2], p[2], h)
           Bad == {i \in 0..N : ~\E p \in P : Ahead(p, i)}
<1>1. Bad = {}
  <2> SUFFICES ASSUME Bad # {} PROVE FALSE
    OBVIOUS
  <2>1. Bad \in SUBSET Nat
    OBVIOUS
  <2>2. PICK i \in Bad : \A y \in Bad : i <= y
    BY <2>1, LeastElement
  <2>3. i # 0
    <3>1. \A p \in P : Ahead(p, 0)
      OBVIOUS
    <3> QED BY <2>2, <3>1
  <2>4. i \in 1..N /\ i - 1 \in 0..N /\ i - 1 \notin Bad
    <3>1. i \in 0..N
      BY <2>2
    <3>2. i \in 1..N /\ i - 1 \in 0..N /\ ~(i <= i - 1)
      BY <2>3, <3>1
    <3> HIDE DEF Bad
    <3> QED BY <2>2, <3>2
  <2>5. PICK p \in P : Ahead(p, i - 1)
    BY <2>4
  <2>6. \A h \in 1..N : h <= i => h <= i - 1 \/ h = i
    BY <2>4
  <2>7. ~Ahead(p, i)
    BY <2>2
  <2> HIDE DEF SkipsAt
  <2>8. PICK q \in P : SkipsAt(q[2], p[2], i)
    BY <2>4, <2>5, <2>6, <2>7
  <2>9. ASSUME NEW r \in P, NEW h \in 1..N, h <= i, SkipsAt(r[2], q[2], h)
        PROVE  FALSE
    <3>1. CASE h = i
      BY <2>8, <2>9, <3>1 DEF SkipsAt
    <3>2. CASE h <= i - 1
      <4>1. \A x \in 1..N : x <= h => x < i
        BY <2>4, <3>2
      <4>2. \A x \in 1..N : x <= h => q[2][x] = p[2][x]
        BY <2>8, <4>1 DEF SkipsAt
      <4>3. \A x \in 1..N : x < h => x <= h
        OBVIOUS
      <4>4. h <= h
        OBVIOUS
      <4>5. SkipsAt(r[2], p[2], h)
        BY <2>9, <4>2, <4>3, <4>4 DEF SkipsAt
      <4> QED BY <2>5, <3>2, <4>5
    <3> QED BY <2>6, <2>9, <3>1, <3>2
  <2>10. Ahead(q, i)
    BY <2>9
  <2> QED BY <2>2, <2>10
<1>2. PICK p \in P : Ahead(p, N)
  <2>1. N \notin Bad
    <3> HIDE DEF Bad
    <3> QED BY <1>1
  <2>2. N \in 0..N
    OBVIOUS
  <2> HIDE DEF Ahead
  <2> QED BY <2>1, <2>2
<1>3. \A q \in P : ~SkipsSooner(q[2], p[2])
  BY <1>2 DEF SkipsSooner
<1> QED BY <1>3 DEF FirstFound

\* A list of pipelines of listed nodes, no node twice.
IsPlan(nodes, pls) ==
  /\ pls \in Seq(Seq(Node))
  /\ \A j \in DOMAIN pls : NoRepeats(pls[j]) /\ ElementsOf(pls[j]) \subseteq ElementsOf(nodes)
  /\ \A j, k \in DOMAIN pls : j # k => ElementsOf(pls[j]) \cap ElementsOf(pls[k]) = {}

LEMMA BestPlanFacts ==
  ASSUME NEW a, a.nodes \in Seq(Node), NoRepeats(a.nodes)
  PROVE  /\ IsPlan(a.nodes, BestPlan(a))
         /\ BestPlan(a) # <<>> => Closes(BestPlan(a)[1])
<1>1. CASE Plans(a) = {}
  <2>1. PICK e : e = BestPlan(a)
    OBVIOUS
  <2>2. e = <<>>
    BY <1>1, <2>1, Zenon DEF BestPlan
  <2>3. e \in Seq(Seq(Node)) /\ DOMAIN e = {}
    BY <2>2, EmptySeq
  <2> QED BY <2>1, <2>2, <2>3 DEF IsPlan
<1>2. CASE Plans(a) # {}
  <2>1. Len(a.nodes) \in Nat
    BY AtPosition
  <2>2. \A p \in Plans(a) : p[1] \in 1..Len(a.nodes) /\ Stages(p[2]) \in 1..Len(a.nodes)
    BY PlanKinds
  <2>3. Best(Plans(a)) # {}
    BY <1>2, <2>1, <2>2, BestExists
  <2>4. PICK p : p = CHOOSE q \in FirstFound(Best(Plans(a))) : TRUE
    OBVIOUS
  <2>a. \A q \in Best(Plans(a)) : q \in Plans(a)
    BY Zenon DEF Best
  <2>b. \A q \in Best(Plans(a)) : DOMAIN q[2] = 1..Len(a.nodes)
    BY <2>1, <2>a, PlanKinds, AtPosition
  <2>c. FirstFound(Best(Plans(a))) # {}
    BY <2>1, <2>3, <2>b, FirstExists
  <2>5. p \in FirstFound(Best(Plans(a)))
    BY <2>4, <2>c, Zenon
  <2>6. p \in Plans(a)
    BY <2>5, <2>a, Zenon DEF FirstFound
  <2>7. PICK k \in Nat : k = p[1] /\ DOMAIN p[2] = DOMAIN a.nodes
    BY <2>1, <2>6, PlanKinds
  <2>8. PICK pls : pls = BestPlan(a)
    OBVIOUS
  <2>9. pls = PipelinesOf(a, p)
    BY <1>2, <2>4, <2>8, Zenon DEF BestPlan
  <2>10. pls = [j \in 1..k |-> PipelineOf(a, p[2], j)]
    BY <2>7, <2>9 DEF PipelinesOf
  <2>11. ASSUME NEW j \in 1..k
         PROVE  /\ pls[j] \in Seq(Node) /\ NoRepeats(pls[j])
                /\ ElementsOf(pls[j]) = {a.nodes[i] : i \in {i \in DOMAIN a.nodes : p[2][i] = j}}
    <3>1. pls[j] = PipelineOf(a, p[2], j)
      BY <2>10
    <3>2. /\ PipelineOf(a, p[2], j) \in Seq(Node) /\ NoRepeats(PipelineOf(a, p[2], j))
          /\ ElementsOf(PipelineOf(a, p[2], j)) =
               {a.nodes[i] : i \in {i \in DOMAIN p[2] : p[2][i] = j}}
      BY <2>7, PipelineFacts
    <3> QED BY <2>7, <3>1, <3>2, Zenon
  <2>12. pls \in Seq(Seq(Node)) /\ DOMAIN pls = 1..k
    <3>1. pls \in [1..k -> Seq(Node)]
      BY <2>10, <2>11
    <3> QED BY <3>1, SeqDef
  <2>13. \A j \in 1..k : ElementsOf(pls[j]) \subseteq ElementsOf(a.nodes)
    <3>1. \A i \in DOMAIN a.nodes : a.nodes[i] \in ElementsOf(a.nodes)
      BY DEF ElementsOf
    <3> SUFFICES ASSUME NEW j \in 1..k, NEW z, z \in ElementsOf(pls[j])
                 PROVE  z \in ElementsOf(a.nodes)
      OBVIOUS
    <3>2. PICK i \in DOMAIN a.nodes : p[2][i] = j /\ z = a.nodes[i]
      BY <2>11
    <3> QED BY <3>1, <3>2
  <2>14. ASSUME NEW j \in 1..k, NEW m \in 1..k, j # m
         PROVE  ElementsOf(pls[j]) \cap ElementsOf(pls[m]) = {}
    <3> SUFFICES ASSUME NEW z, z \in ElementsOf(pls[j]), z \in ElementsOf(pls[m]) PROVE FALSE
      OBVIOUS
    <3>1. PICK i \in DOMAIN a.nodes : p[2][i] = j /\ z = a.nodes[i]
      BY <2>11
    <3>2. PICK h \in DOMAIN a.nodes : p[2][h] = m /\ z = a.nodes[h]
      BY <2>11
    <3>3. i = h
      BY <3>1, <3>2 DEF NoRepeats
    <3> QED BY <2>14, <3>1, <3>2, <3>3
  <2>15. Closes(pls[1])
    <3>1. p[1] \in 1..Len(a.nodes) /\ Closes(PipelineOf(a, p[2], 1))
      BY <2>6, PlanKinds
    <3>2. 1 \in 1..k
      BY <2>1, <2>7, <3>1
    <3> QED BY <2>10, <3>1, <3>2
  <2> QED BY <2>8, <2>11, <2>12, <2>13, <2>14, <2>15 DEF IsPlan
<1> QED BY <1>1, <1>2
-----------------------------------------------------------------------------
(* The books of the allocator.                                             *)

\* Where the allocations of alc put layer l, and the load that gives it.
HostsIn(alc, l) == {n \in Node : l \in Layers(alc[n])}
LoadIn(alc, l) == SumOf([n \in HostsIn(alc, l) |-> KvPerLayer(n, alc[n])], HostsIn(alc, l))

Ranges == Span \cup {NoRange}

LEMMA SpanFacts ==
  /\ NumLayers \in Nat \ {0} /\ NoRange \notin Span
  /\ \A r \in Span : /\ r = <<r[1], r[2]>> /\ r[1] \in Layer /\ r[2] \in 1..NumLayers
                     /\ r[1] \in Nat /\ r[2] \in Nat /\ r[1] < r[2]
                     /\ Layers(r) = r[1] .. r[2] - 1
  /\ \A s, e \in Int : 0 <= s /\ s < e /\ e <= NumLayers => <<s, e>> \in Span
  /\ Layers(NoRange) = {}
<1>1. NumLayers \in Nat \ {0}
  BY MeshAssumption
<1>2. ASSUME NEW r \in Span
      PROVE  /\ r = <<r[1], r[2]>> /\ r[1] \in Layer /\ r[2] \in 1..NumLayers
             /\ r[1] \in Nat /\ r[2] \in Nat /\ r[1] < r[2] /\ r # NoRange
  <2>1. PICK s \in Layer, e \in 1..NumLayers : r = <<s, e>> /\ r[1] < r[2]
    BY DEF Span, RangeOfLayers
  <2> QED BY <1>1, <2>1 DEF Layer, NoRange
<1>3. ASSUME NEW s \in Int, NEW e \in Int, 0 <= s, s < e, e <= NumLayers
      PROVE  <<s, e>> \in Span
  <2>1. s \in Layer /\ e \in 1..NumLayers
    BY <1>1, <1>3 DEF Layer
  <2>2. <<s, e>> \in RangeOfLayers
    BY <2>1 DEF RangeOfLayers
  <2> QED BY <1>3, <2>2 DEF Span
<1>4. \A r \in Span : Layers(r) = r[1] .. r[2] - 1
  BY <1>2 DEF Layers
<1>5. Layers(NoRange) = {}
  BY DEF Layers
<1> QED BY <1>1, <1>2, <1>3, <1>4, <1>5

LEMMA KvNat ==
  ASSUME NEW n \in Node, NEW r \in Span
  PROVE  KvPerLayer(n, r) \in Nat
<1>1. PICK d \in Nat \ {0} : d = r[2] - r[1]
  BY SpanFacts
<1>2. PICK m \in Nat : m = KvMem[n]
  BY MeshAssumption
<1>3. m \div d \in Int /\ 0 <= m \div d
  BY Division
<1> QED BY <1>1, <1>2, <1>3 DEF KvPerLayer

LEMMA HostsTypes ==
  ASSUME NEW alc \in [Node -> Ranges], NEW l
  PROVE  /\ IsFiniteSet(HostsIn(alc, l)) /\ HostsIn(alc, l) \subseteq Node
         /\ \A n \in HostsIn(alc, l) : alc[n] \in Span /\ KvPerLayer(n, alc[n]) \in Nat
         /\ LoadIn(alc, l) \in Nat
<1>1. PICK H : H = HostsIn(alc, l)
  OBVIOUS
<1>2. H \in SUBSET Node
  BY <1>1 DEF HostsIn
<1>3. IsFiniteSet(H)
  BY <1>2, FS_Subset, MeshAssumption
<1>4. \A n \in H : alc[n] \in Span
  BY <1>1, SpanFacts DEF HostsIn, Ranges
<1>5. \A n \in H : KvPerLayer(n, alc[n]) \in Nat
  BY <1>2, <1>4, KvNat
<1>6. PICK kv : kv = [n \in H |-> KvPerLayer(n, alc[n])]
  OBVIOUS
<1>7. \A n \in H : kv[n] \in Nat
  BY <1>5, <1>6
<1>8. SumOf(kv, H) \in Nat
  BY <1>3, <1>7, SumNat
<1> QED BY <1>1, <1>2, <1>3, <1>4, <1>5, <1>6, <1>8 DEF LoadIn

Given(alc, n, r) == [alc EXCEPT ![n] = r]

(* Giving a range to a node that has none, or taking it away again.        *)
LEMMA RangeAdded ==
  ASSUME NEW alc \in [Node -> Ranges], NEW n \in Node, alc[n] = NoRange, NEW r \in Span,
         NEW l
  PROVE  /\ n \notin HostsIn(alc, l)
         /\ HostsIn(Given(alc, n, r), l) =
              IF l \in Layers(r) THEN HostsIn(alc, l) \cup {n} ELSE HostsIn(alc, l)
         /\ LoadIn(Given(alc, n, r), l) =
              IF l \in Layers(r) THEN LoadIn(alc, l) + KvPerLayer(n, r) ELSE LoadIn(alc, l)
<1>0. PICK new : new = Given(alc, n, r)
  OBVIOUS
<1>1. new \in [Node -> Ranges] /\ new[n] = r /\ \A m \in Node : m # n => new[m] = alc[m]
  BY <1>0 DEF Ranges, Given
<1>2. PICK H : H = HostsIn(alc, l)
  OBVIOUS
<1>3. PICK G : G = HostsIn(new, l)
  OBVIOUS
<1>4. n \notin H
  BY <1>2, SpanFacts DEF HostsIn
<1>5. G = IF l \in Layers(r) THEN H \cup {n} ELSE H
  <2>1. ASSUME NEW m \in Node PROVE m \in G <=> m \in H \/ (m = n /\ l \in Layers(r))
    <3>1. CASE m = n
      BY <1>1, <1>3, <1>4, <3>1 DEF HostsIn
    <3>2. CASE m # n
      BY <1>1, <1>2, <1>3, <3>2 DEF HostsIn
    <3> QED BY <3>1, <3>2
  <2>2. G \subseteq Node /\ H \subseteq Node
    BY <1>2, <1>3 DEF HostsIn
  <2> QED BY <2>1, <2>2
<1>6. PICK kv : kv = [m \in H |-> KvPerLayer(m, alc[m])]
  OBVIOUS
<1>7. PICK kw : kw = [m \in G |-> KvPerLayer(m, new[m])]
  OBVIOUS
<1>8. /\ IsFiniteSet(H) /\ H \subseteq Node /\ IsFiniteSet(G) /\ G \subseteq Node
      /\ \A m \in H : KvPerLayer(m, alc[m]) \in Nat
      /\ \A m \in G : KvPerLayer(m, new[m]) \in Nat
  BY <1>1, <1>2, <1>3, HostsTypes
<1>9. \A m \in H : m \in G /\ kw[m] = kv[m] /\ kv[m] \in Int
  BY <1>1, <1>4, <1>5, <1>6, <1>7, <1>8
<1>10. LoadIn(alc, l) = SumOf(kv, H) /\ LoadIn(new, l) = SumOf(kw, G)
  BY <1>2, <1>3, <1>6, <1>7 DEF LoadIn
<1>11. SumOf(kv, H) = SumOf(kw, H)
  BY <1>8, <1>9, SumSame
<1>12. SumOf(kw, G) = IF l \in Layers(r) THEN SumOf(kv, H) + KvPerLayer(n, r) ELSE SumOf(kv, H)
  <2>1. CASE l \in Layers(r)
    <3>1. G = H \cup {n}
      BY <1>5, <2>1
    <3>2. kw[n] = KvPerLayer(n, r) /\ kw[n] \in Int
      BY <1>1, <1>7, <1>8, <3>1
    <3>3. \A y \in H : kw[y] \in Int
      BY <1>9
    <3>4. SumOf(kw, H \cup {n}) = kw[n] + SumOf(kw, H)
      BY <1>4, <1>8, <3>2, <3>3, SumAdd
    <3>5. SumOf(kw, H) \in Int
      BY <1>8, <3>3, SumInt
    <3>6. PICK x \in Int, y \in Int : x = kw[n] /\ y = SumOf(kw, H)
      BY <3>2, <3>5
    <3>7. SumOf(kw, G) = x + y
      BY <3>1, <3>4, <3>6, Zenon
    <3>8. x + y = y + x
      OBVIOUS
    <3>9. SumOf(kw, G) = SumOf(kv, H) + KvPerLayer(n, r)
      BY <1>11, <3>2, <3>6, <3>7, <3>8
    <3> QED BY <2>1, <3>9
  <2>2. CASE l \notin Layers(r)
    <3>1. G = H
      BY <1>5, <2>2
    <3> QED BY <1>11, <2>2, <3>1
  <2> QED BY <2>1, <2>2
<1> QED BY <1>0, <1>2, <1>3, <1>4, <1>5, <1>10, <1>12

LEMMA RangeDropped ==
  ASSUME NEW alc \in [Node -> Ranges], NEW n \in Node, NEW r \in Span, alc[n] = r, NEW l
  PROVE  /\ HostsIn(Given(alc, n, NoRange), l) =
              IF l \in Layers(r) THEN HostsIn(alc, l) \ {n} ELSE HostsIn(alc, l)
         /\ LoadIn(Given(alc, n, NoRange), l) =
              IF l \in Layers(r) THEN LoadIn(alc, l) - KvPerLayer(n, r) ELSE LoadIn(alc, l)
<1>0. PICK new : new = Given(alc, n, NoRange)
  OBVIOUS
<1>1. new \in [Node -> Ranges] /\ new[n] = NoRange
  BY <1>0 DEF Ranges, Given
<1>1a. Given(new, n, r) = alc
  BY <1>0 DEF Ranges, Given
<1>2. /\ n \notin HostsIn(new, l)
      /\ HostsIn(Given(new, n, r), l) =
              IF l \in Layers(r) THEN HostsIn(new, l) \cup {n} ELSE HostsIn(new, l)
      /\ LoadIn(Given(new, n, r), l) =
              IF l \in Layers(r) THEN LoadIn(new, l) + KvPerLayer(n, r) ELSE LoadIn(new, l)
  BY <1>1, RangeAdded
<1>3. PICK x \in Nat : x = LoadIn(new, l)
  BY <1>1, HostsTypes
<1>4. PICK y \in Nat : y = KvPerLayer(n, r)
  BY KvNat
<1>5. CASE l \in Layers(r)
  <2>1. HostsIn(alc, l) = HostsIn(new, l) \cup {n} /\ LoadIn(alc, l) = x + y
    BY <1>1a, <1>2, <1>3, <1>4, <1>5
  <2>2. HostsIn(new, l) = HostsIn(alc, l) \ {n} /\ x = LoadIn(alc, l) - y
    BY <1>2, <2>1
  <2> QED BY <1>0, <1>3, <1>4, <1>5, <2>2
<1>6. CASE l \notin Layers(r)
  BY <1>0, <1>1a, <1>2, <1>6
<1> QED BY <1>5, <1>6

\* No node is assigned layers by hand, and what `manual` can then be.
NoneManual == \A n \in Node : Manual[n] = NoRange
Manuals == IF NoneManual THEN {FALSE} ELSE BOOLEAN

LEMMA ManualKinds ==
  /\ FALSE \in Manuals /\ Manuals \subseteq BOOLEAN
  /\ \A n \in Node : (Manual[n] # NoRange) \in Manuals
  /\ NoneManual => \A m \in Manuals : ~m
<1>1. CASE NoneManual
  <2>1. Manuals = {FALSE}
    BY <1>1, Zenon DEF Manuals
  <2>2. \A n \in Node : (Manual[n] # NoRange) = FALSE
    BY <1>1, Zenon DEF NoneManual
  <2> QED BY <2>1, <2>2, Zenon
<1>2. CASE ~NoneManual
  <2>1. Manuals = BOOLEAN
    BY <1>2, Zenon DEF Manuals
  <2>2. \A n \in Node : (Manual[n] # NoRange) \in BOOLEAN
    BY Zenon
  <2> QED BY <1>2, <2>1, <2>2, Zenon
<1> QED BY <1>1, <1>2

\* What an allocator is made of, when node_id_to_node holds listed objects only.
Obj == [range : Ranges, active : BOOLEAN, manual : Manuals]
Alloc == [nodes : Seq(Node), objs : [Node -> [listed : Obj, second : Obj]],
          entry : [Node -> {"none", "listed"}], allocation : [Node -> Ranges],
          hosts : [Layer -> SUBSET Node], load : [Layer -> Nat]]

\* The list, node_id_to_node and node_allocation agree ...
Agreed(a) ==
  /\ NoRepeats(a.nodes)
  /\ \A n \in Node : a.entry[n] = "listed" <=> n \in ElementsOf(a.nodes)
  /\ \A n \in Node : a.allocation[n] # NoRange =>
                       a.entry[n] = "listed" /\ a.allocation[n] = a.objs[n].listed.range

\* ... and the layers' hosts and loads are what the allocations amount to.
Balanced(a) ==
  \A l \in Layer : a.hosts[l] = HostsIn(a.allocation, l) /\ a.load[l] = LoadIn(a.allocation, l)

Books(a) == a \in Alloc /\ Agreed(a) /\ Balanced(a)

\* From a to b nothing changes but node n's range and flags.
Touches(a, b, n) ==
  /\ b.nodes = a.nodes /\ b.entry = a.entry
  /\ \A m \in Node \ {n} : b.allocation[m] = a.allocation[m] /\ b.objs[m] = a.objs[m]

LEMMA AllocTypes ==
  ASSUME NEW a \in Alloc
  PROVE  /\ a.nodes \in Seq(Node) /\ a.objs \in [Node -> [listed : Obj, second : Obj]]
         /\ a.entry \in [Node -> {"none", "listed"}] /\ a.allocation \in [Node -> Ranges]
         /\ a.hosts \in [Layer -> SUBSET Node] /\ a.load \in [Layer -> Nat]
         /\ \A n \in Node : /\ a.objs[n].listed \in Obj /\ a.objs[n].listed.range \in Ranges
                            /\ a.objs[n].second \in Obj /\ a.objs[n].second.range \in Ranges
BY DEF Alloc, Obj

LEMMA NotManual ==
  ASSUME NoneManual, NEW a, Books(a), NEW n \in Node
  PROVE  ~IsManual(a, n)
<1>1. a.objs[n].listed \in Obj
  BY AllocTypes DEF Books
<1>2. a.objs[n].listed.manual \in Manuals
  BY <1>1 DEF Obj
<1> QED BY <1>2, ManualKinds, Zenon DEF IsManual

(* allocate: the books stay balanced when the node had no range.           *)
LEMMA AllocateBooks ==
  ASSUME NEW a, Books(a), NEW n \in Node, a.entry[n] = "listed", a.allocation[n] = NoRange,
         NEW r \in Span
  PROVE  /\ Books(allocate(a, n, "listed", r)) /\ Touches(a, allocate(a, n, "listed", r), n)
         /\ allocate(a, n, "listed", r).objs[n].listed.range = r
         /\ allocate(a, n, "listed", r).allocation[n] = r
<1>0. PICK b : b = allocate(a, n, "listed", r)
  OBVIOUS
<1>1. a \in Alloc /\ Agreed(a) /\ Balanced(a) /\ r \in Ranges
  BY DEF Books, Ranges
<1>2. PICK kv \in Nat : kv = KvPerLayer(n, r)
  BY KvNat
<1>3. PICK obj : obj = [a.objs[n].listed EXCEPT !.range = r]
  OBVIOUS
<1>4. obj \in Obj /\ obj.range = r
  <2>1. a.objs[n].listed \in Obj
    BY <1>1, AllocTypes
  <2> QED BY <1>1, <1>3, <2>1 DEF Obj
<1>5. PICK hosts : hosts = [l \in Layer |-> IF l \in Layers(r) THEN a.hosts[l] \cup {n} ELSE a.hosts[l]]
  OBVIOUS
<1>6. PICK load : load = [l \in Layer |-> IF l \in Layers(r) THEN a.load[l] + kv ELSE a.load[l]]
  OBVIOUS
<1>7. PICK objs : objs = [a.objs EXCEPT ![n] = [@ EXCEPT !.listed = obj]]
  OBVIOUS
<1>8. /\ hosts \in [Layer -> SUBSET Node] /\ load \in [Layer -> Nat]
      /\ objs \in [Node -> [listed : Obj, second : Obj]]
      /\ objs[n].listed = obj /\ \A m \in Node \ {n} : objs[m] = a.objs[m]
  <2>1. hosts \in [Layer -> SUBSET Node]
    BY <1>1, <1>5, AllocTypes
  <2>2. load \in [Layer -> Nat]
    BY <1>1, <1>6, AllocTypes
  <2>3. /\ objs \in [Node -> [listed : Obj, second : Obj]]
        /\ objs[n].listed = obj /\ \A m \in Node \ {n} : objs[m] = a.objs[m]
    BY <1>1, <1>4, <1>7, AllocTypes
  <2> QED BY <2>1, <2>2, <2>3
<1>9. b = [a EXCEPT !.objs = objs, !.allocation = [a.allocation EXCEPT ![n] = r],
                    !.hosts = hosts, !.load = load]
  <2>1. [a EXCEPT !.entry[n] = "listed"] = a
    BY <1>1, AllocTypes DEF Alloc
  <2>2. [a EXCEPT !.objs[n]["listed"].range = r] = [a EXCEPT !.objs = objs]
    BY <1>3, <1>7
  <2>3. b = [a EXCEPT !.objs[n]["listed"].range = r, !.allocation = [a.allocation EXCEPT ![n] = r],
                      !.hosts = hosts, !.load = load]
    BY <1>0, <1>2, <1>5, <1>6, <2>1 DEF allocate
  <2> QED BY <2>2, <2>3
<1>10. PICK alc \in [Node -> Ranges] : alc = [a.allocation EXCEPT ![n] = r]
  BY <1>1, AllocTypes
<1>11. /\ b.nodes = a.nodes /\ b.entry = a.entry /\ b.objs = objs /\ b.allocation = alc
       /\ b.hosts = hosts /\ b.load = load /\ b \in Alloc
  BY <1>1, <1>8, <1>9, <1>10 DEF Alloc
<1>12. alc[n] = r /\ \A m \in Node \ {n} : alc[m] = a.allocation[m]
  BY <1>1, <1>10, AllocTypes
<1>13. Touches(a, b, n) /\ b.objs[n].listed.range = r
  BY <1>4, <1>8, <1>11, <1>12 DEF Touches
<1>14. Agreed(b)
  BY <1>1, <1>4, <1>8, <1>11, <1>12 DEF Agreed
<1>15. Balanced(b)
  <2> SUFFICES ASSUME NEW l \in Layer
               PROVE  hosts[l] = HostsIn(alc, l) /\ load[l] = LoadIn(alc, l)
    BY <1>11 DEF Balanced
  <2>1. PICK old \in [Node -> Ranges] : old = a.allocation
    BY <1>1, AllocTypes
  <2>2. old[n] = NoRange /\ alc = Given(old, n, r)
    BY <1>10, <2>1 DEF Given
  <2>4. /\ HostsIn(Given(old, n, r), l) = IF l \in Layers(r) THEN HostsIn(old, l) \cup {n} ELSE HostsIn(old, l)
        /\ LoadIn(Given(old, n, r), l) = IF l \in Layers(r) THEN LoadIn(old, l) + KvPerLayer(n, r) ELSE LoadIn(old, l)
    BY <2>2, RangeAdded
  <2>3. a.hosts[l] = HostsIn(a.allocation, l) /\ a.load[l] = LoadIn(a.allocation, l)
    BY <1>1 DEF Balanced
  <2> QED BY <1>2, <1>5, <1>6, <2>1, <2>2, <2>3, <2>4
<1> QED BY <1>0, <1>11, <1>12, <1>13, <1>14, <1>15 DEF Books

(* deallocate, of a node with a range or without one.                      *)
LEMMA DeallocateBooks ==
  ASSUME NEW a, Books(a), NEW n \in Node
  PROVE  /\ Books(deallocate(a, n, "listed")) /\ Touches(a, deallocate(a, n, "listed"), n)
         /\ deallocate(a, n, "listed").allocation[n] = NoRange
         /\ deallocate(a, n, "listed").objs[n].listed.range = NoRange
<1>0. PICK b : b = deallocate(a, n, "listed")
  OBVIOUS
<1>1. a \in Alloc /\ Agreed(a) /\ Balanced(a)
  BY DEF Books
<1>2. PICK r \in Ranges : r = a.objs[n].listed.range
  BY <1>1, AllocTypes
<1>3. PICK old \in [Node -> Ranges] : old = a.allocation
  BY <1>1, AllocTypes
<1>4. old[n] # NoRange => old[n] = r
  BY <1>1, <1>2, <1>3 DEF Agreed
<1>5. CASE r = NoRange
  <2>1. b = a
    BY <1>0, <1>2, <1>5 DEF deallocate
  <2>2. Touches(a, a, n)
    BY DEF Touches
  <2> QED BY <1>0, <1>2, <1>3, <1>4, <1>5, <2>1, <2>2
<1>6. CASE r \in Span
  <2>0. r # NoRange
    BY <1>6, SpanFacts
  <2>1. PICK kv \in Nat : kv = KvPerLayer(n, r)
    BY <1>6, KvNat
  <2>2. PICK alc : alc = Given(old, n, NoRange)
    OBVIOUS
  <2>3. alc \in [Node -> Ranges] /\ alc[n] = NoRange /\ \A m \in Node \ {n} : alc[m] = old[m]
    BY <2>2 DEF Given, Ranges
  <2>4. PICK hosts : hosts = [l \in Layer |-> IF l \in Layers(r) /\ n \in a.hosts[l]
                                              THEN a.hosts[l] \ {n} ELSE a.hosts[l]]
    OBVIOUS
  <2>5. PICK load : load = [l \in Layer |-> IF l \in Layers(r) /\ n \in a.hosts[l]
                                            THEN a.load[l] - kv ELSE a.load[l]]
    OBVIOUS
  <2>6. PICK obj : obj = [a.objs[n].listed EXCEPT !.range = NoRange, !.active = FALSE]
    OBVIOUS
  <2>7. obj \in Obj /\ obj.range = NoRange
    <3>1. a.objs[n].listed \in Obj
      BY <1>1, AllocTypes
    <3> QED BY <2>6, <3>1 DEF Obj, Ranges
  <2>8. PICK objs : objs = [a.objs EXCEPT ![n] = [@ EXCEPT !.listed = obj]]
    OBVIOUS
  <2>9. /\ objs \in [Node -> [listed : Obj, second : Obj]]
        /\ objs[n].listed = obj /\ \A m \in Node \ {n} : objs[m] = a.objs[m]
    <3>1. a.objs \in [Node -> [listed : Obj, second : Obj]]
      BY <1>1, AllocTypes
    <3> QED BY <2>7, <2>8, <3>1
  <2>10. b = [a EXCEPT !.objs = objs, !.allocation = alc, !.hosts = hosts, !.load = load]
    <3>1. b = [a EXCEPT !.allocation = [a.allocation EXCEPT ![n] = NoRange], !.hosts = hosts,
                        !.load = load, !.objs[n]["listed"] = [@ EXCEPT !.range = NoRange, !.active = FALSE]]
      BY <1>0, <1>2, <2>0, <2>1, <2>4, <2>5 DEF deallocate
    <3>2. alc = [a.allocation EXCEPT ![n] = NoRange]
      BY <1>3, <2>2 DEF Given
    <3>3. [a EXCEPT !.objs[n]["listed"] = [@ EXCEPT !.range = NoRange, !.active = FALSE]]
            = [a EXCEPT !.objs = objs]
      BY <2>6, <2>8
    <3> QED BY <1>1, <3>1, <3>2, <3>3 DEF Alloc
  <2>11. ASSUME NEW l \in Layer
         PROVE  hosts[l] = HostsIn(alc, l) /\ load[l] = LoadIn(alc, l)
    <3>1. a.hosts[l] = HostsIn(old, l) /\ a.load[l] = LoadIn(old, l)
      BY <1>1, <1>3 DEF Balanced
    <3>2. CASE old[n] = NoRange
      <4>1. alc = old
        BY <1>3, <2>2, <3>2 DEF Given
      <4>2. n \notin HostsIn(old, l)
        BY <3>2, SpanFacts DEF HostsIn
      <4> QED BY <2>4, <2>5, <3>1, <4>1, <4>2
    <3>3. CASE old[n] = r
      <4>1. /\ HostsIn(Given(old, n, NoRange), l) =
                 IF l \in Layers(r) THEN HostsIn(old, l) \ {n} ELSE HostsIn(old, l)
            /\ LoadIn(Given(old, n, NoRange), l) =
                 IF l \in Layers(r) THEN LoadIn(old, l) - KvPerLayer(n, r) ELSE LoadIn(old, l)
        BY <1>6, <3>3, RangeDropped
      <4>2. n \in HostsIn(old, l) <=> l \in Layers(r)
        BY <3>3 DEF HostsIn
      <4> QED BY <2>1, <2>2, <2>4, <2>5, <3>1, <4>1, <4>2
    <3> QED BY <1>4, <3>2, <3>3
  <2>12. hosts \in [Layer -> SUBSET Node] /\ load \in [Layer -> Nat]
    <3>1. DOMAIN hosts = Layer /\ hosts = [l \in Layer |-> hosts[l]]
      BY <2>4
    <3>2. DOMAIN load = Layer /\ load = [l \in Layer |-> load[l]]
      BY <2>5
    <3>3. \A l \in Layer : HostsIn(alc, l) \in SUBSET Node /\ LoadIn(alc, l) \in Nat
      BY <2>3, HostsTypes
    <3> QED BY <2>11, <3>1, <3>2, <3>3
  <2>13. /\ b.nodes = a.nodes /\ b.entry = a.entry /\ b.objs = objs /\ b.allocation = alc
         /\ b.hosts = hosts /\ b.load = load /\ b \in Alloc
    BY <1>1, <2>3, <2>9, <2>10, <2>12 DEF Alloc
  <2>14. Touches(a, b, n)
    BY <1>3, <2>3, <2>9, <2>13 DEF Touches
  <2>15. Agreed(b)
    BY <1>1, <1>3, <2>3, <2>9, <2>13 DEF Agreed
  <2>16. Balanced(b)
    BY <2>11, <2>13 DEF Balanced
  <2> QED BY <1>0, <2>3, <2>7, <2>9, <2>13, <2>14, <2>15, <2>16 DEF Books
<1> QED BY <1>5, <1>6 DEF Ranges

(* declare adds a node to the list and to the registry.                    *)
LEMMA DeclareBooks ==
  ASSUME NEW a, Books(a), NEW n \in Node, a.entry[n] = "none", NEW obj \in Obj
  PROVE  /\ Books(declare(a, n, obj))
         /\ declare(a, n, obj).entry = [a.entry EXCEPT ![n] = "listed"]
         /\ declare(a, n, obj).allocation = a.allocation /\ a.allocation[n] = NoRange
<1>0. PICK b : b = declare(a, n, obj)
  OBVIOUS
<1>1. a \in Alloc /\ Agreed(a) /\ Balanced(a)
  BY DEF Books
<1>2. PICK B : B = {m \in Node : BaseCapacity(m) >= BaseCapacity(n)}
  OBVIOUS
<1>3. PICK A : A = {m \in Node : BaseCapacity(m) < BaseCapacity(n)}
  OBVIOUS
<1>4. B \cup A = Node /\ B \cap A = {}
  <2>1. BaseCapacity(n) \in Int /\ \A m \in Node : BaseCapacity(m) \in Int
    BY Capacities, Zenon DEF BaseCapacity
  <2>2. \A x, y \in Int : (x >= y \/ x < y) /\ ~(x >= y /\ x < y)
    OBVIOUS
  <2>3. \A m \in Node : (m \in B \/ m \in A) /\ ~(m \in B /\ m \in A)
    BY <1>2, <1>3, <2>1, <2>2
  <2>4. B \subseteq Node /\ A \subseteq Node
    BY <1>2, <1>3
  <2> QED BY <2>3, <2>4
<1>5. PICK old \in Seq(Node) : old = a.nodes
  BY <1>1, AllocTypes
<1>6. PICK s \in Seq(Node) : s = Selected(old, B)
  BY SelectedFacts
<1>7. PICK t \in Seq(Node) : t = Selected(old, A)
  BY SelectedFacts
<1>8. NoRepeats(old) /\ n \notin ElementsOf(old) /\ ElementsOf(old) \subseteq Node
  BY <1>1, <1>5, AtPosition DEF Agreed
<1>9. ElementsOf(s) = ElementsOf(old) \cap B /\ NoRepeats(s)
  BY <1>6, <1>8, SelectedFacts
<1>10. ElementsOf(t) = ElementsOf(old) \cap A /\ NoRepeats(t)
  BY <1>7, <1>8, SelectedFacts
<1>11. PICK one : one = <<n>>
  OBVIOUS
<1>12. one \in Seq(Node) /\ ElementsOf(one) = {n} /\ NoRepeats(one)
  <2>1. one \in Seq(Node) /\ DOMAIN one = {1} /\ one[1] = n
    BY <1>11
  <2> QED BY <2>1 DEF ElementsOf, NoRepeats
<1>13. PICK u \in Seq(Node) : u = s \o one
  BY <1>12, ConcatFacts
<1>14. ElementsOf(u) = ElementsOf(s) \cup {n} /\ NoRepeats(u)
  <2>1. ElementsOf(s) \cap ElementsOf(one) = {}
    BY <1>8, <1>9, <1>12
  <2>2. /\ ElementsOf(s \o one) = ElementsOf(s) \cup ElementsOf(one)
        /\ NoRepeats(s) /\ NoRepeats(one) /\ ElementsOf(s) \cap ElementsOf(one) = {} => NoRepeats(s \o one)
    BY <1>12, ConcatFacts
  <2> QED BY <1>9, <1>12, <1>13, <2>1, <2>2
<1>15. PICK new \in Seq(Node) : new = u \o t
  BY ConcatFacts
<1>16. ElementsOf(new) = ElementsOf(old) \cup {n} /\ NoRepeats(new)
  <2>1. ElementsOf(u) \cap ElementsOf(t) = {}
    BY <1>4, <1>8, <1>9, <1>10, <1>14
  <2>2. /\ ElementsOf(u \o t) = ElementsOf(u) \cup ElementsOf(t)
        /\ NoRepeats(u) /\ NoRepeats(t) /\ ElementsOf(u) \cap ElementsOf(t) = {} => NoRepeats(u \o t)
    BY ConcatFacts
  <2>3. ElementsOf(new) = ElementsOf(u) \cup ElementsOf(t) /\ NoRepeats(new)
    BY <1>10, <1>14, <1>15, <2>1, <2>2
  <2> QED BY <1>4, <1>8, <1>9, <1>10, <1>14, <2>3
<1>17. PICK objs : objs = [a.objs EXCEPT ![n] = [@ EXCEPT !.listed = obj]]
  OBVIOUS
<1>18. /\ objs \in [Node -> [listed : Obj, second : Obj]]
       /\ \A m \in Node \ {n} : objs[m] = a.objs[m]
  <2>1. a.objs \in [Node -> [listed : Obj, second : Obj]]
    BY <1>1, AllocTypes
  <2> QED BY <1>17, <2>1
<1>19. b = [a EXCEPT !.nodes = new, !.objs = objs, !.entry = [a.entry EXCEPT ![n] = "listed"]]
  <2>1. b = [a EXCEPT !.nodes = new, !.objs[n].listed = obj, !.entry[n] = "listed"]
    BY <1>0, <1>2, <1>3, <1>5, <1>6, <1>7, <1>11, <1>13, <1>15 DEF declare
  <2>2. [a EXCEPT !.nodes = new, !.objs[n].listed = obj] = [a EXCEPT !.nodes = new, !.objs = objs]
    BY <1>1, <1>17 DEF Alloc
  <2> QED BY <1>1, <2>1, <2>2 DEF Alloc
<1>20. PICK entry \in [Node -> {"none", "listed"}] : entry = [a.entry EXCEPT ![n] = "listed"]
  BY <1>1, AllocTypes
<1>21. /\ b.nodes = new /\ b.entry = entry /\ b.objs = objs /\ b.allocation = a.allocation
       /\ b.hosts = a.hosts /\ b.load = a.load /\ b \in Alloc
  BY <1>1, <1>15, <1>18, <1>19, <1>20 DEF Alloc
<1>22. a.allocation[n] = NoRange
  BY <1>1 DEF Agreed
<1>23. entry[n] = "listed" /\ \A m \in Node \ {n} : entry[m] = a.entry[m]
  BY <1>1, <1>20, AllocTypes
<1>24. Agreed(b)
  <2>1. NoRepeats(b.nodes)
    BY <1>16, <1>21
  <2>2. \A m \in Node : b.entry[m] = "listed" <=> m \in ElementsOf(b.nodes)
    <3>1. \A m \in Node : a.entry[m] = "listed" <=> m \in ElementsOf(old)
      BY <1>1, <1>5 DEF Agreed
    <3> QED BY <1>16, <1>21, <1>23, <3>1
  <2>3. ASSUME NEW m \in Node, b.allocation[m] # NoRange
        PROVE  b.entry[m] = "listed" /\ b.allocation[m] = b.objs[m].listed.range
    <3>1. m # n /\ a.allocation[m] # NoRange
      BY <1>21, <1>22, <2>3
    <3>2. a.entry[m] = "listed" /\ a.allocation[m] = a.objs[m].listed.range
      BY <1>1, <3>1 DEF Agreed
    <3>3. b.entry[m] = a.entry[m] /\ b.objs[m] = a.objs[m]
      BY <1>18, <1>21, <1>23, <3>1
    <3> QED BY <1>21, <3>2, <3>3
  <2> QED BY <2>1, <2>2, <2>3 DEF Agreed
<1>25. Balanced(b)
  BY <1>1, <1>21 DEF Balanced
<1> QED BY <1>0, <1>20, <1>21, <1>22, <1>24, <1>25 DEF Books

(* leave takes the node out of the list and of the registry.               *)
LEMMA LeaveBooks ==
  ASSUME NEW a, Books(a), NEW n \in Node, a.entry[n] = "listed"
  PROVE  /\ Books(leave(a, n)) /\ leave(a, n).entry = [a.entry EXCEPT ![n] = "none"]
<1>0. PICK d : d = leave(a, n)
  OBVIOUS
<1>1. PICK b : b = deallocate(a, n, "listed")
  OBVIOUS
<1>2. Books(b) /\ Touches(a, b, n) /\ b.allocation[n] = NoRange
  BY <1>1, DeallocateBooks
<1>3. b \in Alloc /\ Agreed(b) /\ Balanced(b) /\ b.entry = a.entry
  BY <1>2 DEF Books, Touches
<1>4. PICK old \in Seq(Node) : old = b.nodes
  BY <1>3, AllocTypes
<1>5. PICK new \in Seq(Node) : new = Selected(old, Node \ {n})
  BY SelectedFacts
<1>6. NoRepeats(new) /\ ElementsOf(new) = ElementsOf(old) \cap (Node \ {n})
  <2>1. NoRepeats(old)
    BY <1>3, <1>4 DEF Agreed
  <2> QED BY <1>5, <2>1, SelectedFacts
<1>7. PICK both : both = [listed |-> NewNode, second |-> NewNode]
  OBVIOUS
<1>8. PICK objs : objs = [b.objs EXCEPT ![n] = both]
  OBVIOUS
<1>9. /\ objs \in [Node -> [listed : Obj, second : Obj]]
      /\ \A m \in Node \ {n} : objs[m] = b.objs[m]
  <2>1. b.objs \in [Node -> [listed : Obj, second : Obj]]
    BY <1>3, AllocTypes
  <2>2. NewNode \in Obj
    BY ManualKinds DEF NewNode, Obj, Ranges
  <2>3. both \in [listed : Obj, second : Obj]
    BY <1>7, <2>2
  <2> QED BY <1>8, <2>1, <2>3
<1>10. PICK entry : entry = [b.entry EXCEPT ![n] = "none"]
  OBVIOUS
<1>11. entry \in [Node -> {"none", "listed"}] /\ entry[n] = "none" /\ \A m \in Node \ {n} : entry[m] = b.entry[m]
  <2>1. b.entry \in [Node -> {"none", "listed"}]
    BY <1>3, AllocTypes
  <2> QED BY <1>10, <2>1
<1>12. d = [b EXCEPT !.entry = entry, !.nodes = new, !.objs = objs]
  <2>1. d = [b EXCEPT !.entry[n] = "none", !.nodes = Selected(@, Node \ {n}), !.objs[n] = both]
    BY <1>0, <1>1, <1>7 DEF leave
  <2> QED BY <1>3, <1>4, <1>5, <1>8, <1>10, <2>1 DEF Alloc
<1>13. /\ d.nodes = new /\ d.entry = entry /\ d.objs = objs /\ d.allocation = b.allocation
       /\ d.hosts = b.hosts /\ d.load = b.load /\ d \in Alloc
  BY <1>3, <1>9, <1>11, <1>12 DEF Alloc
<1>14. Agreed(d)
  <2>1. NoRepeats(d.nodes)
    BY <1>6, <1>13
  <2>2. \A m \in Node : d.entry[m] = "listed" <=> m \in ElementsOf(d.nodes)
    <3>1. \A m \in Node : b.entry[m] = "listed" <=> m \in ElementsOf(old)
      BY <1>3, <1>4 DEF Agreed
    <3> QED BY <1>6, <1>11, <1>13, <3>1
  <2>3. ASSUME NEW m \in Node, d.allocation[m] # NoRange
        PROVE  d.entry[m] = "listed" /\ d.allocation[m] = d.objs[m].listed.range
    <3>1. m # n /\ b.allocation[m] # NoRange
      BY <1>2, <1>13, <2>3
    <3>2. b.entry[m] = "listed" /\ b.allocation[m] = b.objs[m].listed.range
      BY <1>3, <3>1 DEF Agreed
    <3>3. d.entry[m] = b.entry[m] /\ d.objs[m] = b.objs[m]
      BY <1>9, <1>11, <1>13, <3>1
    <3> QED BY <1>13, <3>2, <3>3
  <2> QED BY <2>1, <2>2, <2>3 DEF Agreed
<1>15. Balanced(d)
  BY <1>3, <1>13 DEF Balanced
<1> QED BY <1>0, <1>3, <1>10, <1>13, <1>14, <1>15 DEF Books

(* The lightest layer exists.                                              *)
LEMMA LightestFacts ==
  ASSUME NEW a, a.load \in [Layer -> Nat]
  PROVE  LightestLayer(a) \in Layer
<1>1. 0 \in Layer /\ Layer \subseteq Nat
  BY MeshAssumption DEF Layer
<1>2. PICK load \in [Layer -> Nat] : load = a.load
  OBVIOUS
<1>3. PICK V : V = {load[l] : l \in Layer}
  OBVIOUS
<1>4. V \in SUBSET Nat /\ V # {}
  BY <1>1, <1>3
<1>5. PICK v \in V : \A w \in V : v <= w
  BY <1>4, LeastElement
<1>6. PICK T : T = {l \in Layer : load[l] = v}
  OBVIOUS
<1>7. T \in SUBSET Nat /\ T # {}
  BY <1>1, <1>3, <1>6
<1>8. PICK l \in T : \A k \in T : l <= k
  BY <1>7, LeastElement
<1>9. ASSUME NEW k \in Layer
      PROVE  load[l] < load[k] \/ (load[l] = load[k] /\ l <= k)
  <2>1. load[l] = v /\ load[k] \in V /\ v \in Nat /\ load[k] \in Nat
    BY <1>3, <1>4, <1>6
  <2>2. v <= load[k]
    BY <1>5, <2>1
  <2>3. CASE load[k] = v
    BY <1>6, <1>8, <2>1, <2>3
  <2>4. CASE load[k] # v
    BY <2>1, <2>2, <2>4
  <2> QED BY <2>3, <2>4
<1>10. \E x \in Layer : \A k \in Layer : a.load[x] < a.load[k] \/ (a.load[x] = a.load[k] /\ x <= k)
  BY <1>2, <1>6, <1>9
<1> QED BY <1>10, Zenon DEF LightestLayer

(* The end of a range that begins with layer s.                            *)
LEMMA EndLayerInt ==
  ASSUME NEW n \in Node, NEW s \in Layer
  PROVE  EndLayer(n, s) \in Int /\ EndLayer(n, s) <= NumLayers
<1>1. PICK e : e = EndLayer(n, s)
  OBVIOUS
<1>2. NumLayers \in Nat /\ s \in Nat
  BY MeshAssumption DEF Layer
<1>3. (s = 0) \in BOOLEAN
  OBVIOUS
<1>4. PICK c \in Int : c = Capacity(n, s = 0, FALSE)
  BY <1>3, Capacities, Zenon
<1>5. PICK h \in Int : h = Capacity(n, s = 0, TRUE)
  BY <1>3, Capacities, Zenon
<1> DEFINE Upto(x) == IF s + x < NumLayers THEN s + x ELSE NumLayers
<1>6. e = IF Upto(c) = NumLayers THEN Upto(h) ELSE Upto(c)
  BY <1>1, <1>4, <1>5, Zenon DEF EndLayer
<1>7. \A x \in Int : Upto(x) \in Int /\ Upto(x) <= NumLayers
  BY <1>2
<1> QED BY <1>1, <1>6, <1>7

(* A range that join gives and allocate accepts is a range of layers.      *)
LEMMA JoinRangeFacts ==
  ASSUME NEW a, Books(a), NEW n \in Node
  PROVE  /\ LightestLayer(a) \in Layer
         /\ ~join_raises(a, n) => JoinRange(a, n) \in Span
<1>1. PICK s \in Layer : s = LightestLayer(a)
  BY AllocTypes, LightestFacts DEF Books
<1>2. PICK e : e = EndLayer(n, s)
  OBVIOUS
<1>3. NumLayers \in Nat /\ s \in Nat /\ 0 <= s
  BY MeshAssumption DEF Layer
<1>4. e \in Int /\ e <= NumLayers
  BY <1>2, EndLayerInt
<1>5. JoinRange(a, n) = <<s, e>>
  BY <1>1, <1>2 DEF JoinRange
<1>6. ASSUME ~join_raises(a, n) PROVE <<s, e>> \in Span
  <2>1. ~(e <= s)
    BY <1>5, <1>6 DEF join_raises
  <2> QED BY <1>3, <1>4, <2>1, SpanFacts
<1> QED BY <1>1, <1>5, <1>6
-----------------------------------------------------------------------------
(* Pipelines.                                                              *)

(* When a chain of allocations leads through the layers.                   *)

\* Where the allocations that begin with layer l end.
EndsFrom(alc, l) == {alc[n][2] : n \in {m \in Node : alc[m] # NoRange /\ alc[m][1] = l}}

\* K contains the end of the model, and the begin of an allocation whose end it
\* contains.
ClosedBack(alc, K) ==
  /\ NumLayers \in K
  /\ \A l \in 0..NumLayers : \A e \in EndsFrom(alc, l) :
       e > l /\ e <= NumLayers /\ e \in K => l \in K

\* The first layer is in all such sets: a characterization without recursion.
Piped(alc) == \A K \in SUBSET (0..NumLayers) : ClosedBack(alc, K) => 0 \in K

\* One unfolding of the recursion of has_full_pipeline.
EntryEnds(a, l) ==
  {EntryObject(a, n).range[2] : n \in {m \in Registered(a) : /\ a.allocation[m] # NoRange
                                                            /\ a.allocation[m][1] = l
                                                            /\ EntryObject(a, m).range # NoRange}}
ReachFrom(a, g, l) ==
  l = NumLayers \/ \E e \in EntryEnds(a, l) : e > l /\ e <= NumLayers /\ g[e]

LEMMA ReachChosen ==
  ASSUME NEW a
  PROVE  has_full_pipeline(a) =
           (CHOOSE g : g = [l \in 0..NumLayers |->
              l = NumLayers \/ \E e \in EntryEnds(a, l) : e > l /\ e <= NumLayers /\ g[e]])[0]
  BY SMT DEF has_full_pipeline, EntryEnds

LEMMA EndsAgree ==
  ASSUME NEW a, Books(a), NEW l
  PROVE  EntryEnds(a, l) = EndsFrom(a.allocation, l)
<1>1. \A m \in Node : a.allocation[m] # NoRange =>
        m \in Registered(a) /\ EntryObject(a, m).range = a.allocation[m]
  BY DEF Books, Agreed, Registered, EntryObject
<1>2. Registered(a) \subseteq Node
  BY DEF Registered
<1> QED BY <1>1, <1>2 DEF EndsFrom, EntryEnds

(* The recursion has a solution: what is in all the sets.                  *)
LEMMA ReachExists ==
  ASSUME NEW a, Books(a)
  PROVE  \E g : g = [l \in 0..NumLayers |-> ReachFrom(a, g, l)]
<1>0. PICK N \in Nat : N = NumLayers
  BY MeshAssumption
<1>00. PICK alc \in [Node -> Ranges] : alc = a.allocation
  BY AllocTypes DEF Books
<1>1. PICK In : In = {l \in 0..N : \A K \in SUBSET (0..N) : ClosedBack(alc, K) => l \in K}
  OBVIOUS
<1>2. \A l \in 0..N : \A e \in EndsFrom(alc, l) : e \in Int
  BY SpanFacts DEF EndsFrom, Ranges
<1>3. ASSUME NEW l \in 0..N,
             l = N \/ \E e \in EndsFrom(alc, l) : e > l /\ e <= N /\ e \in In
      PROVE  l \in In
  <2> SUFFICES ASSUME NEW K \in SUBSET (0..N), ClosedBack(alc, K) PROVE l \in K
    BY <1>1
  <2> QED BY <1>0, <1>1, <1>3 DEF ClosedBack
<1>4. ASSUME NEW l \in 0..N, l \in In, l # N,
             \A e \in EndsFrom(alc, l) : ~(e > l /\ e <= N /\ e \in In)
      PROVE  FALSE
  <2>1. PICK K \in SUBSET (0..N) : K = In \ {l}
    BY <1>1
  <2>2. N \in K
    <3>1. N \in 0..N /\ N \in In
      BY <1>0, <1>3
    <3> QED BY <1>4, <2>1, <3>1
  <2>3. ASSUME NEW k \in 0..N, NEW e \in EndsFrom(alc, k), e > k, e <= N, e \in K
        PROVE  k \in K
    <3>1. k \in In
      BY <1>3, <2>1, <2>3
    <3>2. k # l
      BY <1>4, <2>1, <2>3
    <3> QED BY <2>1, <3>1, <3>2
  <2>4. ClosedBack(alc, K)
    BY <1>0, <2>2, <2>3 DEF ClosedBack
  <2> QED BY <1>1, <1>4, <2>1, <2>4
<1>5. PICK g : g = [l \in 0..N |-> l \in In]
  OBVIOUS
<1>6. ASSUME NEW l \in 0..N PROVE (l \in In) <=> ReachFrom(a, g, l)
  <2>1. \A e \in EndsFrom(alc, l) : e > l /\ e <= N => e \in 0..N
    BY <1>0, <1>2
  <2>2. \A e \in 0..N : g[e] <=> e \in In
    BY <1>5
  <2>3. ReachFrom(a, g, l) <=> (l = N \/ \E e \in EndsFrom(alc, l) : e > l /\ e <= N /\ e \in In)
    BY <1>0, <1>00, <2>1, <2>2, EndsAgree, Zenon DEF ReachFrom
  <2> QED BY <1>3, <1>4, <2>3
<1>7. \A l \in 0..N : (l \in In) = ReachFrom(a, g, l)
  BY <1>6 DEF ReachFrom
<1>8. g = [l \in 0..N |-> ReachFrom(a, g, l)]
  BY <1>5, <1>7, Zenon
<1> QED BY <1>0, <1>8

(* has_full_pipeline, for an allocator whose books are in order.           *)
LEMMA PipelineReached ==
  ASSUME NEW a, Books(a)
  PROVE  has_full_pipeline(a) <=> Piped(a.allocation)
<1>0. PICK N \in Nat : N = NumLayers
  BY MeshAssumption
<1>1. PICK alc \in [Node -> Ranges] : alc = a.allocation
  BY AllocTypes DEF Books
<1>2. \A l : EntryEnds(a, l) = EndsFrom(alc, l)
  BY <1>1, EndsAgree
<1>3. has_full_pipeline(a) = (CHOOSE g : g = [l \in 0..NumLayers |-> ReachFrom(a, g, l)])[0]
  BY ReachChosen, Zenon DEF ReachFrom
<1>4. \E g : g = [l \in 0..NumLayers |-> ReachFrom(a, g, l)]
  BY ReachExists
<1>5. PICK reach : /\ has_full_pipeline(a) = reach[0]
                   /\ reach = [l \in 0..NumLayers |-> ReachFrom(a, reach, l)]
  BY <1>3, <1>4, Zenon
<1>6. \A l \in 0..N : reach[l] = ReachFrom(a, reach, l)
  BY <1>0, <1>5
<1>7. PICK R : R = {l \in 0..N : reach[l]}
  OBVIOUS
<1>8. \A l \in 0..N : \A e \in EndsFrom(alc, l) : e \in Int
  BY SpanFacts DEF EndsFrom, Ranges
<1>9. \A l \in 0..N : l \in R <=> (l = N \/ \E e \in EndsFrom(alc, l) : e > l /\ e <= N /\ e \in R)
  <2> SUFFICES ASSUME NEW l \in 0..N
               PROVE  l \in R <=> (l = N \/ \E e \in EndsFrom(alc, l) : e > l /\ e <= N /\ e \in R)
    OBVIOUS
  <2>1. \A e \in EndsFrom(alc, l) : e > l /\ e <= N => e \in 0..N
    BY <1>0, <1>8
  <2>2. l \in R <=> ReachFrom(a, reach, l)
    BY <1>6, <1>7, Zenon
  <2>3. \A e \in 0..N : e \in R <=> reach[e]
    BY <1>7, Zenon
  <2> QED BY <1>0, <1>2, <2>1, <2>2, <2>3, Zenon DEF ReachFrom
<1>10. ASSUME Piped(alc) PROVE 0 \in R
  <2>1. R \in SUBSET (0..N)
    BY <1>7
  <2>2. ClosedBack(alc, R)
    <3>1. N \in 0..N
      BY <1>0
    <3> QED BY <1>0, <1>9, <3>1 DEF ClosedBack
  <2> QED BY <1>0, <1>10, <2>1, <2>2 DEF Piped
<1>11. ASSUME 0 \in R, NEW K \in SUBSET (0..N), ClosedBack(alc, K) PROVE 0 \in K
  <2> DEFINE T == {d \in 0..N : N - d \in R /\ N - d \notin K}
  <2>1. SUFFICES ASSUME T # {} PROVE FALSE
    <3>1. N \in 0..N /\ N - N = 0 /\ N \notin T
      BY <1>0, <2>1
    <3> QED BY <1>11, <3>1
  <2>2. PICK d \in T : \A e \in T : d <= e
    <3>1. T \in SUBSET Nat
      BY <1>0
    <3> HIDE DEF T
    <3> QED BY <2>1, <3>1, LeastElement
  <2>3. PICK l \in 0..N : l = N - d /\ d \in 0..N /\ l \in R /\ l \notin K
    BY <1>0, <2>2
  <2>4. l # N
    BY <1>0, <1>11, <2>3 DEF ClosedBack
  <2>5. PICK e \in EndsFrom(alc, l) : e > l /\ e <= N /\ e \in R
    BY <1>9, <2>3, <2>4
  <2>6. e \in 0..N /\ N - e \in 0..N /\ N - (N - e) = e /\ ~(d <= N - e)
    BY <1>0, <1>8, <2>3, <2>5
  <2>7. N - e \notin T
    <3> HIDE DEF T
    <3> QED BY <2>2, <2>6
  <2>8. e \in K
    BY <2>5, <2>6, <2>7
  <2> QED BY <1>0, <1>11, <2>3, <2>5, <2>8 DEF ClosedBack
<1>12. 0 \in R <=> has_full_pipeline(a)
  <2>1. 0 \in 0..N
    BY <1>0
  <2> QED BY <1>5, <1>7, <2>1, Zenon
<1>13. 0 \in R <=> Piped(alc)
  <2>1. ASSUME 0 \in R PROVE Piped(alc)
    BY <1>0, <1>11, <2>1 DEF Piped
  <2> QED BY <1>10, <2>1
<1> QED BY <1>1, <1>12, <1>13, Zenon

(* More allocations do not break a pipeline.                               *)
LEMMA PipedGrows ==
  ASSUME NEW old, NEW new, Piped(old), \A n \in Node : old[n] # NoRange => new[n] = old[n]
  PROVE  Piped(new)
<1>1. \A l : EndsFrom(old, l) \subseteq EndsFrom(new, l)
  BY DEF EndsFrom
<1> QED BY <1>1 DEF Piped, ClosedBack

(* Adjacent allocations, from the first layer to the last.                 *)
LEMMA LadderPiped ==
  ASSUME NEW alc \in [Node -> Ranges], NEW len \in Nat, NEW at \in [0..len -> Nat],
         at[0] = 0, at[len] = NumLayers,
         \A i \in 1..len : at[i - 1] <= at[i],
         \A i \in 1..len : at[i - 1] < at[i] => \E n \in Node : alc[n] = <<at[i - 1], at[i]>>
  PROVE  Piped(alc)
<1>0. PICK N \in Nat : N = NumLayers
  BY MeshAssumption
<1> SUFFICES ASSUME NEW K \in SUBSET (0..N), ClosedBack(alc, K) PROVE 0 \in K
  BY <1>0 DEF Piped
<1> DEFINE T == {d \in 0..len : ~(at[len - d] \in K)}
<1>1. SUFFICES ASSUME T # {} PROVE FALSE
  <2>1. T = {}
    BY <1>1
  <2>2. len \in 0..len /\ len - len = 0
    OBVIOUS
  <2>3. at[len - len] \in K
    BY <2>1, <2>2
  <2> QED BY <2>2, <2>3
<1>2. PICK d \in T : \A e \in T : d <= e
  <2>1. T \in SUBSET Nat
    OBVIOUS
  <2> HIDE DEF T
  <2> QED BY <1>1, <2>1, LeastElement
<1>3. d \in 0..len /\ at[len - d] \notin K
  BY <1>2
<1>4. d # 0
  <2>1. len - 0 = len
    OBVIOUS
  <2> QED BY <1>0, <1>3, <2>1 DEF ClosedBack
<1>5. PICK i \in 1..len : i - 1 = len - d /\ i = len - (d - 1) /\ d - 1 \in 0..len /\ ~(d <= d - 1)
  <2>1. len - (d - 1) \in 1..len /\ (len - (d - 1)) - 1 = len - d /\ d - 1 \in 0..len /\ ~(d <= d - 1)
    BY <1>3, <1>4
  <2> QED BY <2>1
<1>6. at[i] \in K
  <2>1. d - 1 \notin T
    <3> HIDE DEF T
    <3> QED BY <1>2, <1>5
  <2> QED BY <1>5, <2>1
<1>7. at[i - 1] \in Nat /\ at[i] \in Nat /\ at[i - 1] \notin K /\ at[i - 1] <= at[i] /\ at[i] \in 0..N
  <2>1. i \in 0..len /\ i - 1 \in 0..len
    OBVIOUS
  <2> QED BY <1>3, <1>5, <1>6, <2>1
<1>8. at[i - 1] < at[i]
  BY <1>6, <1>7
<1>9. PICK n \in Node : alc[n] = <<at[i - 1], at[i]>>
  BY <1>8
<1>10. PICK s, e \in Nat : s = at[i - 1] /\ e = at[i] /\ s \in 0..N /\ s < e /\ e <= N /\ alc[n] = <<s, e>>
  BY <1>7, <1>8, <1>9
<1>11. alc[n] # NoRange /\ alc[n][1] = s /\ alc[n][2] = e
  BY <1>10 DEF NoRange
<1>12. e \in EndsFrom(alc, s)
  BY <1>11 DEF EndsFrom
<1>13. s \in K
  BY <1>0, <1>6, <1>10, <1>12 DEF ClosedBack
<1> QED BY <1>7, <1>10, <1>13

AfterOne(ctx, r, n) == After(r, n)
AfterFold == INSTANCE FoldLemmas WITH Op <- AfterOne

LEMMA HeadCosts ==
  ASSUME NEW n \in Node
  PROVE  /\ Capacity(n, FALSE, FALSE) \in Int /\ Capacity(n, FALSE, TRUE) \in Int
         /\ Capacity(n, TRUE, FALSE) \in Int
         /\ Capacity(n, FALSE, TRUE) <= Capacity(n, FALSE, FALSE)
<1>1. /\ Capacity(n, FALSE, FALSE) \in Int /\ Capacity(n, FALSE, TRUE) \in Int
      /\ Capacity(n, TRUE, FALSE) \in Int
  BY Capacities
<1>2. PICK m \in Int, d \in Nat \ {0}, e \in Nat : m = Mem[n] /\ d = LayerSize /\ e = EmbedSize
  BY MeshAssumption
<1>3. Capacity(n, FALSE, TRUE) = (m - e) \div d /\ Capacity(n, FALSE, FALSE) = m \div d
  BY <1>2 DEF Capacity
<1>4. (m - e) \div d <= m \div d
  <2>1. m - e \in Int /\ m - e <= m
    BY <1>2
  <2> QED BY <2>1, DivMono
<1> QED BY <1>1, <1>3, <1>4

(* A pipeline that closes holds the model.                                 *)
LEMMA ClosedHolds ==
  ASSUME NEW pl \in Seq(Node), Closes(pl)
  PROVE  SumOf(Caps(pl), DOMAIN pl) >= NumLayers
<1>0. PICK N \in Nat : N = NumLayers
  BY MeshAssumption
<1>1. PICK len \in Nat : len = Len(pl) /\ DOMAIN pl = 1..len /\ len >= 1
  <2>1. Len(pl) \in Nat /\ DOMAIN pl = 1..Len(pl)
    BY AtPosition
  <2>2. pl # << >>
    BY DEF Closes
  <2>3. Len(pl) \in Nat \ {0}
    BY <2>2, EmptySeq
  <2>4. Len(pl) >= 1
    BY <2>3
  <2> QED BY <2>1, <2>4
<1>2. PICK c : c = Caps(pl)
  OBVIOUS
<1>3. \A i \in 1..len : c[i] = StageCap(pl, i) /\ c[i] \in Int /\ pl[i] \in Node
  BY <1>1, <1>2, StageCaps, AtPosition DEF Caps
<1>4. PICK tail \in Seq(Node) : tail = Tail(pl) /\ Len(tail) = len - 1 /\ \A i \in 1..(len - 1) : tail[i] = pl[i + 1]
  <2>1. pl # << >>
    BY DEF Closes
  <2>2. PICK tail : tail = Tail(pl)
    OBVIOUS
  <2>3. /\ tail \in Seq(Node) /\ Len(tail) = len - 1
        /\ \A i \in 1..Len(tail) : tail[i] = pl[i + 1]
    BY <1>1, <2>1, <2>2, HeadTailProperties
  <2> QED BY <2>2, <2>3
<1>5. Head(pl) = pl[1]
  OBVIOUS
<1>6. PICK base \in Int : base = N - Capacity(pl[1], TRUE, FALSE)
  <2>1. pl[1] \in Node
    BY <1>1, <1>3
  <2>2. PICK cap \in Int : cap = Capacity(pl[1], TRUE, FALSE)
    BY <2>1, HeadCosts
  <2>3. N - cap \in Int
    OBVIOUS
  <2> QED BY <2>2, <2>3
<1> DEFINE sum(k) == SumOf(c, 1..k)
<1>7. ASSUME NEW k \in 1..len
      PROVE  sum(k) \in Int /\ sum(k - 1) \in Int /\ sum(k) = sum(k - 1) + c[k]
  <2>1. PICK S : S = 1..k
    OBVIOUS
  <2>2. IsFiniteSet(S) /\ k \in S /\ S \ {k} = 1..(k - 1) /\ \A y \in S : c[y] \in Int
    <3>1. IsFiniteSet(S)
      BY <2>1, FS_Interval
    <3>2. k \in S /\ S \ {k} = 1..(k - 1)
      BY <1>1, <2>1
    <3>3. S \subseteq 1..len
      BY <1>1, <2>1
    <3> QED BY <1>3, <3>1, <3>2, <3>3
  <2>3. SumOf(c, S) = c[k] + SumOf(c, S \ {k}) /\ SumOf(c, S) \in Int /\ SumOf(c, S \ {k}) \in Int
    <3>1. IsFiniteSet(S \ {k}) /\ \A y \in S \ {k} : c[y] \in Int
      BY <2>2, FS_Subset
    <3> QED BY <2>2, <3>1, SumInt, SumWithout
  <2>4. c[k] \in Int
    BY <1>3
  <2>5. sum(k) = SumOf(c, S) /\ sum(k - 1) = SumOf(c, S \ {k})
    BY <2>1, <2>2, Zenon
  <2> QED BY <2>3, <2>4, <2>5
<1>8. sum(0) = 0
  <2>1. SumOf(c, {}) = 0
    BY SumInt, FS_EmptySet
  <2>2. 1..0 = {}
    OBVIOUS
  <2> QED BY <2>1, <2>2, Zenon
<1> HIDE DEF sum
<1> DEFINE A == [k \in 0..(len - 1) |->
                   {r \in Int : /\ k < len - 1 => r >= N - sum(k + 1)
                                /\ k = len - 1 => r > 0 \/ r >= N - sum(len)}]
<1>9. base \in A[0]
  <2>1. sum(1) = c[1] /\ 1 \in 1..len
    <3>1. 1 \in 1..len /\ 1 - 1 = 0
      BY <1>1
    <3> QED BY <1>3, <1>7, <1>8, <3>1
  <2>2. c[1] = Capacity(pl[1], TRUE, FALSE)
    BY <1>3, <2>1 DEF StageCap
  <2>3. base >= N - sum(1)
    <3>1. base = N - sum(1)
      BY <1>6, <2>1, <2>2
    <3> QED BY <3>1
  <2>4. 0 = len - 1 => len = 1
    OBVIOUS
  <2>5. 0 + 1 = 1 /\ 0 \in 0..(len - 1)
    BY <1>1
  <2> QED BY <2>3, <2>4, <2>5
<1>10. ASSUME NEW k \in 1..Len(tail), NEW r \in A[k - 1]
       PROVE  AfterOne(0, r, tail[k]) \in A[k]
  <2>1. k \in 1..(len - 1) /\ k - 1 \in 0..(len - 1) /\ k \in 0..(len - 1) /\ k + 1 \in 1..len
    BY <1>1, <1>4
  <2>2. PICK n \in Node : n = pl[k + 1] /\ tail[k] = n
    BY <1>3, <1>4, <2>1
  <2>3. r \in Int /\ r >= N - sum(k)
    <3>1. k - 1 < len - 1 /\ (k - 1) + 1 = k
      BY <1>1, <2>1
    <3> QED BY <2>1, <3>1
  <2> HIDE DEF A
  <2>4. PICK full \in Int, last \in Int :
          full = Capacity(n, FALSE, FALSE) /\ last = Capacity(n, FALSE, TRUE) /\ last <= full
    BY HeadCosts
  <2>5. PICK q : q = After(r, n)
    OBVIOUS
  <2>6. q = IF r - full <= 0 THEN r - last ELSE r - full
    BY <2>4, <2>5 DEF After, BaseCapacity
  <2>8. c[k + 1] = IF k = len - 1 THEN last ELSE full
    <3>1. c[k + 1] = StageCap(pl, k + 1) /\ k + 1 # 1
      BY <1>3, <2>1
    <3>2. StageCap(pl, k + 1) = Capacity(n, FALSE, k + 1 = len)
      BY <1>1, <2>2, <3>1 DEF StageCap
    <3>3. CASE k = len - 1
      <4>1. (k + 1 = len) = TRUE
        BY <1>1, <3>3
      <4> QED BY <2>4, <3>1, <3>2, <3>3, <4>1
    <3>4. CASE k # len - 1
      <4>1. (k + 1 = len) = FALSE
        BY <1>1, <2>1, <3>4
      <4> QED BY <2>4, <3>1, <3>2, <3>4, <4>1
    <3> QED BY <3>3, <3>4
  <2>9. PICK s \in Int, t \in Int : s = sum(k) /\ t = sum(k + 1) /\ t = s + c[k + 1]
    <3>1. (k + 1) - 1 = k
      BY <2>1
    <3> QED BY <1>7, <2>1, <3>1
  <2>10. q \in Int /\ q >= N - (s + full) /\ (q > 0 \/ q >= N - (s + last))
    <3>0. last <= full
      BY <2>4
    <3>1. PICK x \in Int : x = r /\ x >= N - s
      BY <2>3, <2>9
    <3>2. N \in Int /\ q = IF x - full <= 0 THEN x - last ELSE x - full
      BY <2>6, <3>1
    <3>3. CASE x - full <= 0
      <4>1. x - last \in Int /\ x - last >= N - (s + full) /\ x - last >= N - (s + last)
        BY <3>0, <3>1, <3>2
      <4> QED BY <3>2, <3>3, <4>1
    <3>4. CASE ~(x - full <= 0)
      <4>1. x - full \in Int /\ x - full >= N - (s + full) /\ x - full > 0
        BY <3>1, <3>2, <3>4
      <4> QED BY <3>2, <3>4, <4>1
    <3> QED BY <3>3, <3>4
  <2>11. (k < len - 1 => t = s + full) /\ (k = len - 1 => t = s + last)
    <3>1. k \in Int /\ len - 1 \in Int
      BY <2>1
    <3>2. k < len - 1 => k # len - 1
      BY <3>1
    <3> QED BY <2>8, <2>9, <3>2, Zenon
  <2>12. k = len - 1 => t = sum(len)
    BY <1>1, <2>9
  <2>13. q \in A[k]
    BY <2>1, <2>9, <2>10, <2>11, <2>12 DEF A
  <2> QED BY <2>2, <2>5, <2>13 DEF AfterOne
<1>11. AfterFold!Fold(0, base, tail) \in A[len - 1]
  <2> HIDE DEF A
  <2> QED BY <1>4, <1>9, <1>10, LeastElement, AfterFold!FoldLeftAlong DEF AfterFold!WellOrdered
<1>12. AfterFold!Fold(0, base, tail) = FoldLeft(After, base, tail)
  BY Zenon DEF AfterFold!Fold, AfterOne, FoldLeft, MapThenFoldSet,
               AfterFold!MapThenFoldSet, Max, AfterFold!Max
<1>13. Residual(pl) = AfterFold!Fold(0, base, tail)
  BY <1>0, <1>4, <1>5, <1>6, <1>12 DEF Residual
<1>14. PICK r : r \in A[len - 1] /\ r <= 0
  BY <1>11, <1>13 DEF Closes
<1>15. len - 1 \in 0..(len - 1) /\ len \in 1..len
  BY <1>1
<1>16. r \in Int /\ r >= N - sum(len) /\ sum(len) \in Int
  BY <1>7, <1>14, <1>15
<1>17. sum(len) >= N
  BY <1>14, <1>16
<1> QED BY <1>0, <1>1, <1>2, <1>17 DEF sum
-----------------------------------------------------------------------------
(* The folds of the allocator.                                             *)

LeftOne(ctx, b, n) == JoinLeftOver(b, n)
LeftFold == INSTANCE FoldLemmas WITH Op <- LeftOne
ClearOne(ctx, b, n) == deallocate(b, n, "listed")
ClearFold == INSTANCE FoldLemmas WITH Op <- ClearOne
ClearEach(ctx, b, pl) == ClearStages(b, pl)
ClearPlanFold == INSTANCE FoldLemmas WITH Op <- ClearEach
LayOne(ctx, b, s) == LayStage(b, s)
LayFold == INSTANCE FoldLemmas WITH Op <- LayOne
LayEach(ctx, b, pl) == LayStages(b, pl)
LayPlanFold == INSTANCE FoldLemmas WITH Op <- LayEach

\* b has the nodes of a, and its books are in order.
Kept(a, b) == Books(b) /\ b.nodes = a.nodes /\ b.entry = a.entry

LEMMA InElements ==
  ASSUME NEW X, NEW seq \in Seq(X)
  PROVE  seq \in Seq(ElementsOf(seq))
<1>1. PICK n \in Nat : n = Len(seq) /\ DOMAIN seq = 1..n
  BY AtPosition
<1>2. seq = [i \in 1..n |-> seq[i]]
  BY <1>1
<1>3. \A i \in 1..n : seq[i] \in ElementsOf(seq)
  BY <1>1 DEF ElementsOf
<1>4. PICK E : E = ElementsOf(seq)
  OBVIOUS
<1>5. seq \in [1..n -> E]
  BY <1>2, <1>3, <1>4
<1> QED BY <1>1, <1>4, <1>5, SeqDef

(* A node that joins in JoinLeftOver.                                      *)
LEMMA JoinBooks ==
  ASSUME NEW a, Books(a), NEW n \in Node, a.entry[n] = "listed", a.allocation[n] = NoRange,
         ~join_raises(a, n)
  PROVE  Books(join(a, n, "listed")) /\ Touches(a, join(a, n, "listed"), n)
<1>1. PICK r \in Span : r = JoinRange(a, n)
  BY JoinRangeFacts
<1>2. Books(allocate(a, n, "listed", r)) /\ Touches(a, allocate(a, n, "listed", r), n)
  BY AllocateBooks
<1> QED BY <1>1, <1>2 DEF join

\* No allocation of a is taken back or changed in b.
Grown(a, b) == \A n \in Node : a.allocation[n] # NoRange => b.allocation[n] = a.allocation[n]

LEMMA LeftOverBooks ==
  ASSUME NEW a, Books(a)
  PROVE  Kept(a, allocate_left_over_nodes(a)) /\ Grown(a, allocate_left_over_nodes(a))
<1>1. PICK seq \in Seq(Node) : seq = a.nodes
  BY AllocTypes DEF Books
<1>2. PICK X : X = ElementsOf(seq)
  OBVIOUS
<1>3. X \subseteq Node /\ seq \in Seq(X) /\ \A n \in X : a.entry[n] = "listed"
  BY <1>1, <1>2, AtPosition, InElements DEF Books, Agreed
<1>4. PICK A : A = {b \in Alloc : Kept(a, b) /\ Grown(a, b)}
  OBVIOUS
<1>5. a \in A
  BY <1>4 DEF Kept, Books, Grown
<1>6. ASSUME NEW b \in A, NEW n \in X
      PROVE  LeftOne(a, b, n) \in A
  <2>1. Kept(a, b) /\ Books(b) /\ b.entry[n] = "listed" /\ n \in Node
    BY <1>3, <1>4 DEF Kept
  <2>2. CASE b.allocation[n] # NoRange \/ join_raises(b, n)
    BY <2>2 DEF LeftOne, JoinLeftOver
  <2>3. CASE b.allocation[n] = NoRange /\ ~join_raises(b, n)
    <3>1. PICK c : c = join(b, n, "listed")
      OBVIOUS
    <3>2. Books(c) /\ Touches(b, c, n)
      BY <2>1, <2>3, <3>1, JoinBooks
    <3>3. c \in A
      BY <1>4, <2>1, <2>3, <3>2 DEF Kept, Touches, Books, Grown
    <3> QED BY <2>3, <3>1, <3>3 DEF LeftOne, JoinLeftOver
  <2> QED BY <2>2, <2>3
<1>7. LeftFold!Fold(a, a, seq) \in A
  BY <1>3, <1>5, <1>6, LeastElement, LeftFold!FoldLeftIn DEF LeftFold!WellOrdered
<1>8. LeftFold!Fold(a, a, seq) = FoldLeft(JoinLeftOver, a, seq)
  BY Zenon DEF LeftFold!Fold, LeftOne, FoldLeft, MapThenFoldSet,
               LeftFold!MapThenFoldSet, Max, LeftFold!Max
<1>9. allocate_left_over_nodes(a) \in A
  BY <1>1, <1>7, <1>8 DEF allocate_left_over_nodes
<1> QED BY <1>4, <1>9

(* After ClearStages the pipeline's nodes have no range, and no node has   *)
(* got one.                                                                *)
LEMMA ClearStagesBooks ==
  ASSUME NEW a, Books(a), NEW pl \in Seq(Node)
  PROVE  /\ Kept(a, ClearStages(a, pl))
         /\ \A n \in Node : n \in ElementsOf(pl) \/ a.allocation[n] = NoRange =>
                              ClearStages(a, pl).allocation[n] = NoRange
<1>1. PICK len \in Nat : len = Len(pl) /\ DOMAIN pl = 1..len
  BY AtPosition
<1> DEFINE Cleared(b, k) ==
             \A n \in Node : n \in {pl[i] : i \in 1..k} \/ a.allocation[n] = NoRange =>
                               b.allocation[n] = NoRange
           A == [k \in 0..len |-> {b \in Alloc : Kept(a, b) /\ Cleared(b, k)}]
<1>2. a \in A[0]
  <2>1. Kept(a, a) /\ a \in Alloc
    BY DEF Kept, Books
  <2>2. Cleared(a, 0)
    OBVIOUS
  <2> QED BY <1>1, <2>1, <2>2
<1>3. ASSUME NEW k \in 1..len, NEW b \in A[k - 1]
      PROVE  ClearOne(a, b, pl[k]) \in A[k]
  <2>1. k - 1 \in 0..len /\ k \in 0..len
    BY <1>1
  <2>2. b \in Alloc /\ Kept(a, b) /\ Cleared(b, k - 1)
    BY <2>1
  <2>3. PICK n \in Node : n = pl[k]
    BY <1>1, AtPosition
  <2>4. PICK c : c = deallocate(b, n, "listed")
    OBVIOUS
  <2>5. Books(c) /\ Touches(b, c, n) /\ c.allocation[n] = NoRange
    BY <2>2, <2>4, DeallocateBooks DEF Kept
  <2>6. Kept(a, c) /\ c \in Alloc
    BY <2>2, <2>5 DEF Kept, Touches, Books
  <2>7. Cleared(c, k)
    <3> SUFFICES ASSUME NEW m \in Node, m \in {pl[i] : i \in 1..k} \/ a.allocation[m] = NoRange
                 PROVE  c.allocation[m] = NoRange
      OBVIOUS
    <3>1. CASE m = n
      BY <2>5, <3>1
    <3>2. CASE m # n
      <4>1. \A i \in 1..k : i = k \/ i \in 1..(k - 1)
        BY <1>1
      <4>2. m \in {pl[i] : i \in 1..(k - 1)} \/ a.allocation[m] = NoRange
        BY <2>3, <3>2, <4>1
      <4>3. b.allocation[m] = NoRange
        BY <2>2, <4>2
      <4> QED BY <2>5, <3>2, <4>3 DEF Touches
    <3> QED BY <3>1, <3>2
  <2>8. ClearOne(a, b, pl[k]) = c
    BY <2>3, <2>4 DEF ClearOne
  <2> HIDE DEF Cleared
  <2> QED BY <2>1, <2>6, <2>7, <2>8
<1>4. ClearFold!Fold(a, a, pl) \in A[len]
  <2> HIDE DEF A
  <2> QED BY <1>1, <1>2, <1>3, LeastElement, ClearFold!FoldLeftAlong DEF ClearFold!WellOrdered
<1>5. ClearFold!Fold(a, a, pl) = ClearStages(a, pl)
  BY Zenon DEF ClearFold!Fold, ClearStages, ClearOne, FoldLeft, MapThenFoldSet,
               ClearFold!MapThenFoldSet, Max, ClearFold!Max
<1>6. Kept(a, ClearStages(a, pl)) /\ Cleared(ClearStages(a, pl), len)
  <2> HIDE DEF Cleared
  <2> QED BY <1>1, <1>4, <1>5
<1>7. {pl[i] : i \in 1..len} = ElementsOf(pl)
  BY <1>1 DEF ElementsOf
<1> QED BY <1>6, <1>7

LEMMA ClearPlanBooks ==
  ASSUME NEW a, Books(a), NEW pls \in Seq(Seq(Node))
  PROVE  /\ Kept(a, ClearPlan(a, pls))
         /\ \A j \in DOMAIN pls : \A n \in ElementsOf(pls[j]) :
              ClearPlan(a, pls).allocation[n] = NoRange
         /\ pls = <<>> => ClearPlan(a, pls) = a
<1>1. PICK len \in Nat : len = Len(pls) /\ DOMAIN pls = 1..len
  BY AtPosition
<1>2. \A j \in 1..len : pls[j] \in Seq(Node) /\ ElementsOf(pls[j]) \subseteq Node
  BY <1>1, AtPosition
<1> DEFINE Cleared(b, k) ==
             /\ \A j \in 1..k : \A n \in ElementsOf(pls[j]) : b.allocation[n] = NoRange
             /\ k = 0 => b = a
           A == [k \in 0..len |-> {b \in Alloc : Kept(a, b) /\ Cleared(b, k)}]
<1>3. a \in A[0]
  <2>1. Kept(a, a) /\ a \in Alloc
    BY DEF Kept, Books
  <2>2. Cleared(a, 0)
    OBVIOUS
  <2> QED BY <1>1, <2>1, <2>2
<1>4. ASSUME NEW k \in 1..len, NEW b \in A[k - 1]
      PROVE  ClearEach(a, b, pls[k]) \in A[k]
  <2>1. k - 1 \in 0..len /\ k \in 0..len
    BY <1>1
  <2>2. b \in Alloc /\ Kept(a, b) /\ Cleared(b, k - 1)
    BY <2>1
  <2>3. PICK pl \in Seq(Node) : pl = pls[k]
    BY <1>2
  <2>4. PICK c : c = ClearStages(b, pl)
    OBVIOUS
  <2>5. /\ Kept(b, c)
        /\ \A n \in Node : n \in ElementsOf(pl) \/ b.allocation[n] = NoRange => c.allocation[n] = NoRange
    BY <2>2, <2>4, ClearStagesBooks DEF Kept
  <2>6. Kept(a, c) /\ c \in Alloc
    BY <2>2, <2>5 DEF Kept, Books
  <2>7. Cleared(c, k)
    <3> SUFFICES ASSUME NEW j \in 1..k, NEW n \in ElementsOf(pls[j]) PROVE c.allocation[n] = NoRange
      BY <1>1
    <3>1. j \in 1..len /\ n \in Node /\ (j = k \/ j \in 1..(k - 1))
      BY <1>1, <1>2
    <3> QED BY <2>2, <2>3, <2>5, <3>1
  <2>8. ClearEach(a, b, pls[k]) = c
    BY <2>3, <2>4 DEF ClearEach
  <2> HIDE DEF Cleared
  <2> QED BY <2>1, <2>6, <2>7, <2>8
<1>5. ClearPlanFold!Fold(a, a, pls) \in A[len]
  <2> HIDE DEF A
  <2> QED BY <1>1, <1>3, <1>4, LeastElement, ClearPlanFold!FoldLeftAlong
             DEF ClearPlanFold!WellOrdered
<1>6. ClearPlanFold!Fold(a, a, pls) = ClearPlan(a, pls)
  BY Zenon DEF ClearPlanFold!Fold, ClearPlan, ClearEach, FoldLeft, MapThenFoldSet,
               ClearPlanFold!MapThenFoldSet, Max, ClearPlanFold!Max
<1>7. Kept(a, ClearPlan(a, pls)) /\ Cleared(ClearPlan(a, pls), len)
  <2> HIDE DEF Cleared
  <2> QED BY <1>1, <1>5, <1>6
<1>8. pls = <<>> => len = 0
  BY <1>1
<1> QED BY <1>1, <1>7, <1>8

(* The stages of a pipeline that holds the model, when each has its range. *)
LEMMA LaidPiped ==
  ASSUME NodesHold, NEW pl \in Seq(Node), SumOf(Caps(pl), DOMAIN pl) >= NumLayers,
         NEW lay, lay = Layout(pl, StageCounts(pl)), NEW alc \in [Node -> Ranges],
         \A i \in DOMAIN pl : lay[i].range[1] < lay[i].range[2] => alc[pl[i]] = lay[i].range
  PROVE  Piped(alc)
<1>1. PICK c : c = StageCounts(pl)
  OBVIOUS
<1>2. c \in [DOMAIN pl -> Nat] /\ SumOf(c, DOMAIN pl) = NumLayers
  BY <1>1, CountsFit
<1>3. PICK len \in Nat : len = Len(pl) /\ DOMAIN pl = 1..len
  BY AtPosition
<1> DEFINE at == [k \in 0..len |-> SumOf(c, 1..k)]
<1>4. ASSUME NEW k \in 0..len PROVE SumOf(c, 1..k) \in Nat
  <2>1. IsFiniteSet(1..k) /\ \A y \in 1..k : y \in 1..len
    BY <1>3, FS_Interval
  <2>2. \A y \in 1..k : c[y] \in Nat
    BY <1>2, <1>3, <2>1
  <2> QED BY <2>1, <2>2, SumNat
<1>5. at \in [0..len -> Nat]
  BY <1>4
<1>6. at[0] = 0
  <2>1. SumOf(c, {}) = 0
    BY SumInt, FS_EmptySet
  <2>2. 1..0 = {} /\ 0 \in 0..len
    OBVIOUS
  <2> QED BY <2>1, <2>2, Zenon
<1>7. at[len] = NumLayers
  BY <1>2, <1>3
<1>8. ASSUME NEW i \in 1..len
      PROVE  /\ i \in 0..len /\ i - 1 \in 0..len /\ at[i - 1] <= at[i]
             /\ lay[i].range = <<at[i - 1], at[i]>>
  <2>1. i \in 0..len /\ i - 1 \in 0..len
    BY <1>3
  <2>2. PICK S : S = 1..i
    OBVIOUS
  <2>3. IsFiniteSet(S) /\ i \in S /\ S \ {i} = 1..(i - 1) /\ S \subseteq 1..len
    <3>1. IsFiniteSet(1..i)
      <4>1. i \in Int /\ 1 \in Int
        OBVIOUS
      <4> QED BY <4>1, FS_Interval
    <3> QED BY <1>3, <2>2, <3>1
  <2>4. \A y \in S : c[y] \in Nat /\ c[y] \in Int
    BY <1>2, <1>3, <2>3
  <2>5. SumOf(c, S) = c[i] + SumOf(c, S \ {i})
    BY <2>3, <2>4, SumWithout
  <2>6. PICK s \in Nat, e \in Nat : s = SumOf(c, 1 .. i - 1) /\ e = SumOf(c, 1 .. i)
    BY <1>4, <2>1
  <2>7. s <= e
    <3>1. e = c[i] + s /\ c[i] \in Nat
      BY <2>2, <2>3, <2>4, <2>5, <2>6
    <3> QED BY <3>1
  <2>8. at[i - 1] = s /\ at[i] = e
    BY <2>1, <2>6
  <2>9. lay[i].range = <<SumOf(c, 1 .. i - 1), SumOf(c, 1 .. i)>>
    BY <1>1, <1>3 DEF Layout
  <2> QED BY <2>1, <2>6, <2>7, <2>8, <2>9
<1> HIDE DEF at
<1>9. ASSUME NEW i \in 1..len, at[i - 1] < at[i]
      PROVE  \E n \in Node : alc[n] = <<at[i - 1], at[i]>>
  <2>1. pl[i] \in Node
    BY <1>3, AtPosition
  <2>2. PICK s, e : s = at[i - 1] /\ e = at[i] /\ lay[i].range = <<s, e>> /\ s < e
    BY <1>8, <1>9
  <2>3. alc[pl[i]] = <<s, e>>
    BY <1>3, <2>2
  <2> QED BY <2>1, <2>2, <2>3
<1> QED BY <1>5, <1>6, <1>7, <1>8, <1>9, LadderPiped

(* LayStages gives ranges to the pipeline's nodes, which had none, and to  *)
(* no other; a pipeline that closes becomes a full one.                    *)
LEMMA LayStagesBooks ==
  ASSUME NodesHold, NEW a, Books(a), NEW pl \in Seq(Node), NoRepeats(pl),
         \A n \in ElementsOf(pl) : a.entry[n] = "listed" /\ a.allocation[n] = NoRange
  PROVE  /\ Kept(a, LayStages(a, pl))
         /\ \A n \in Node \ ElementsOf(pl) : LayStages(a, pl).allocation[n] = a.allocation[n]
         /\ Closes(pl) => Piped(LayStages(a, pl).allocation)
<1>1. PICK len \in Nat : len = Len(pl) /\ DOMAIN pl = 1..len
  BY AtPosition
<1>2. PICK lay : lay = Layout(pl, StageCounts(pl))
  OBVIOUS
<1>3. /\ DOMAIN lay = 1..len
      /\ \A i \in 1..len :
              /\ lay[i].n = pl[i] /\ lay[i].range[1] \in Int /\ lay[i].range[2] \in Int
              /\ lay[i].range[1] < lay[i].range[2] => lay[i].range \in Span
  <2>1. /\ DOMAIN lay = DOMAIN pl
        /\ \A i \in DOMAIN pl :
              /\ lay[i].n = pl[i] /\ lay[i].range[1] \in Int /\ lay[i].range[2] \in Int
              /\ lay[i].range[1] < lay[i].range[2] => lay[i].range \in Span
    BY <1>2, LayoutFits, Zenon
  <2> QED BY <1>1, <2>1, Zenon
<1>4. PICK X : X = ElementsOf(lay)
  OBVIOUS
<1>5. lay \in Seq(X) /\ Len(lay) = len
  <2>1. lay = [i \in 1..len |-> lay[i]]
    BY <1>1, <1>2, <1>3 DEF Layout
  <2>2. \A i \in 1..len : lay[i] \in X
    BY <1>3, <1>4 DEF ElementsOf
  <2>3. lay \in [1..len -> X]
    BY <2>1, <2>2
  <2>4. lay \in Seq(X)
    BY <1>1, <2>3, SeqDef
  <2> QED BY <1>3, <2>4, LenProperties
<1> DEFINE Ready(b, k) ==
             /\ \A i \in 1..len : i > k => b.allocation[pl[i]] = NoRange
             /\ \A n \in Node \ ElementsOf(pl) : b.allocation[n] = a.allocation[n]
             /\ \A i \in 1..k : lay[i].range[1] < lay[i].range[2] =>
                                 b.allocation[pl[i]] = lay[i].range
           A == [k \in 0..len |-> {b \in Alloc : Kept(a, b) /\ Ready(b, k)}]
<1>6. \A i \in 1..len : pl[i] \in Node /\ pl[i] \in ElementsOf(pl)
  BY <1>1, AtPosition DEF ElementsOf
<1>7. a \in A[0]
  <2>1. Kept(a, a) /\ a \in Alloc
    BY DEF Kept, Books
  <2>2. Ready(a, 0)
    BY <1>6
  <2> HIDE DEF Ready
  <2> QED BY <1>1, <2>1, <2>2
<1>8. ASSUME NEW k \in 1..len, NEW b \in A[k - 1]
      PROVE  LayOne(a, b, lay[k]) \in A[k]
  <2>1. k - 1 \in 0..len /\ k \in 0..len
    BY <1>1
  <2>2. b \in Alloc /\ Kept(a, b) /\ Ready(b, k - 1)
    BY <2>1
  <2>3. PICK n \in Node : n = pl[k]
    BY <1>6
  <2>4. PICK r : r = lay[k].range
    OBVIOUS
  <2>5. lay[k].n = n /\ r[1] \in Int /\ r[2] \in Int /\ (r[1] < r[2] => r \in Span)
    BY <1>3, <2>3, <2>4
  <2>6. CASE r[2] <= r[1]
    <3>1. LayOne(a, b, lay[k]) = b
      BY <2>4, <2>6 DEF LayOne, LayStage
    <3>2. Ready(b, k)
      <4>1. \A i \in 1..len : i > k => i > k - 1
        BY <1>1
      <4>2. \A i \in 1..k : i = k \/ i \in 1..(k - 1)
        BY <1>1
      <4>3. ~(lay[k].range[1] < lay[k].range[2])
        BY <2>4, <2>5, <2>6
      <4> QED BY <2>2, <4>1, <4>2, <4>3
    <3> HIDE DEF Ready
    <3> QED BY <2>1, <2>2, <3>1, <3>2
  <2>7. CASE r[1] < r[2]
    <3>0. PICK c : c = allocate(b, n, "listed", r)
      OBVIOUS
    <3>1. LayOne(a, b, lay[k]) = c
      <4>1. ~(r[2] <= r[1])
        BY <2>5, <2>7
      <4> QED BY <2>4, <2>5, <3>0, <4>1 DEF LayOne, LayStage
    <3>2. b.entry[n] = "listed" /\ b.allocation[n] = NoRange /\ r \in Span /\ Books(b)
      <4>1. k > k - 1
        BY <1>1
      <4> QED BY <1>6, <2>2, <2>3, <2>5, <2>7, <4>1 DEF Kept
    <3>3. Books(c) /\ Touches(b, c, n) /\ c.allocation[n] = r
      BY <3>0, <3>2, AllocateBooks
    <3>4. Kept(a, c) /\ c \in Alloc
      BY <2>2, <3>3 DEF Kept, Touches, Books
    <3>5. Ready(c, k)
      <4>1. ASSUME NEW i \in 1..len, i > k
            PROVE  c.allocation[pl[i]] = NoRange
        <5>1. i > k - 1 /\ i # k
          BY <1>1, <4>1
        <5>2. pl[i] # n
          BY <1>1, <2>3, <5>1 DEF NoRepeats
        <5> QED BY <1>6, <2>2, <3>3, <5>1, <5>2 DEF Touches
      <4>2. ASSUME NEW m \in Node \ ElementsOf(pl)
            PROVE  c.allocation[m] = a.allocation[m]
        <5>1. m # n
          BY <1>6, <2>3
        <5> QED BY <2>2, <3>3, <5>1 DEF Touches
      <4>3. ASSUME NEW i \in 1..k, lay[i].range[1] < lay[i].range[2]
            PROVE  c.allocation[pl[i]] = lay[i].range
        <5>1. CASE i = k
          BY <2>3, <2>4, <3>3, <5>1
        <5>2. CASE i # k
          <6>1. i \in 1..(k - 1) /\ i \in 1..len
            BY <1>1, <5>2
          <6>2. pl[i] # n
            BY <1>1, <2>3, <5>2, <6>1 DEF NoRepeats
          <6> QED BY <1>6, <2>2, <3>3, <4>3, <6>1, <6>2 DEF Touches
        <5> QED BY <5>1, <5>2
      <4> QED BY <4>1, <4>2, <4>3
    <3> HIDE DEF Ready
    <3> QED BY <2>1, <3>1, <3>4, <3>5
  <2> QED BY <2>5, <2>6, <2>7
<1>9. LayFold!Fold(a, a, lay) \in A[len]
  <2> HIDE DEF A
  <2> QED BY <1>5, <1>7, <1>8, LeastElement, LayFold!FoldLeftAlong DEF LayFold!WellOrdered
<1>10. LayFold!Fold(a, a, lay) = FoldLeft(LayStage, a, lay)
  BY Zenon DEF LayFold!Fold, LayOne, FoldLeft, MapThenFoldSet,
               LayFold!MapThenFoldSet, Max, LayFold!Max
<1>11. LayStages(a, pl) \in A[len]
  BY <1>2, <1>9, <1>10 DEF LayStages
<1>12. Kept(a, LayStages(a, pl)) /\ Ready(LayStages(a, pl), len)
  <2> HIDE DEF Ready
  <2> QED BY <1>1, <1>11
<1>13. ASSUME Closes(pl) PROVE Piped(LayStages(a, pl).allocation)
  <2>1. PICK alc \in [Node -> Ranges] : alc = LayStages(a, pl).allocation
    BY <1>12, AllocTypes DEF Kept, Books
  <2>2. \A i \in DOMAIN pl : lay[i].range[1] < lay[i].range[2] => alc[pl[i]] = lay[i].range
    BY <1>1, <1>12, <2>1
  <2>3. SumOf(Caps(pl), DOMAIN pl) >= NumLayers
    BY <1>13, ClosedHolds
  <2> QED BY <1>2, <2>1, <2>2, <2>3, LaidPiped
<1> QED BY <1>12, <1>13

LEMMA LayPlanBooks ==
  ASSUME NodesHold, NEW a, Books(a), NEW pls, IsPlan(a.nodes, pls),
         \A j \in DOMAIN pls : \A n \in ElementsOf(pls[j]) : a.allocation[n] = NoRange
  PROVE  /\ Kept(a, LayPlan(a, pls))
         /\ pls # <<>> /\ Closes(pls[1]) => Piped(LayPlan(a, pls).allocation)
<1>0. pls \in Seq(Seq(Node))
  BY DEF IsPlan
<1>1. PICK len \in Nat : len = Len(pls) /\ DOMAIN pls = 1..len
  BY <1>0, AtPosition
<1>2. \A j \in 1..len : /\ pls[j] \in Seq(Node) /\ ElementsOf(pls[j]) \subseteq Node /\ NoRepeats(pls[j])
                        /\ \A n \in ElementsOf(pls[j]) : a.entry[n] = "listed" /\ a.allocation[n] = NoRange
  <2>1. \A n \in Node : a.entry[n] = "listed" <=> n \in ElementsOf(a.nodes)
    BY DEF Books, Agreed
  <2> SUFFICES ASSUME NEW j \in 1..len
               PROVE  /\ pls[j] \in Seq(Node) /\ ElementsOf(pls[j]) \subseteq Node /\ NoRepeats(pls[j])
                      /\ \A n \in ElementsOf(pls[j]) : a.entry[n] = "listed" /\ a.allocation[n] = NoRange
    OBVIOUS
  <2>2. pls[j] \in Seq(Node)
    BY <1>0, <1>1, AtPosition
  <2>3. ElementsOf(pls[j]) \subseteq Node
    BY <2>2, AtPosition
  <2>4. NoRepeats(pls[j]) /\ ElementsOf(pls[j]) \subseteq ElementsOf(a.nodes)
    BY <1>1 DEF IsPlan
  <2> QED BY <1>1, <2>1, <2>2, <2>3, <2>4
<1> DEFINE Ready(b, k) ==
             /\ \A j \in 1..len : j > k => \A n \in ElementsOf(pls[j]) : b.allocation[n] = NoRange
             /\ k >= 1 /\ Closes(pls[1]) => Piped(b.allocation)
           A == [k \in 0..len |-> {b \in Alloc : Kept(a, b) /\ Ready(b, k)}]
<1>3. a \in A[0]
  <2>1. Kept(a, a) /\ a \in Alloc
    BY DEF Kept, Books
  <2>2. Ready(a, 0)
    BY <1>2
  <2> HIDE DEF Ready
  <2> QED BY <1>1, <2>1, <2>2
<1>4. ASSUME NEW k \in 1..len, NEW b \in A[k - 1]
      PROVE  LayEach(a, b, pls[k]) \in A[k]
  <2>1. k - 1 \in 0..len /\ k \in 0..len /\ k > k - 1
    BY <1>1
  <2>2. b \in Alloc /\ Kept(a, b) /\ Ready(b, k - 1)
    BY <2>1
  <2>3. PICK pl \in Seq(Node) : pl = pls[k]
    BY <1>2
  <2>4. PICK c : c = LayStages(b, pl)
    OBVIOUS
  <2>5. NoRepeats(pl) /\ \A n \in ElementsOf(pl) : b.entry[n] = "listed" /\ b.allocation[n] = NoRange
    BY <1>2, <2>1, <2>2, <2>3 DEF Kept
  <2>6. Books(b)
    BY <2>2 DEF Kept
  <2>7. /\ Kept(b, c) /\ \A n \in Node \ ElementsOf(pl) : c.allocation[n] = b.allocation[n]
        /\ Closes(pl) => Piped(c.allocation)
    BY <2>4, <2>5, <2>6, LayStagesBooks, Zenon
  <2>8. Kept(a, c) /\ c \in Alloc
    BY <2>2, <2>7 DEF Kept, Books
  <2>9. Ready(c, k)
    <3>1. ASSUME NEW j \in 1..len, j > k, NEW n \in ElementsOf(pls[j])
          PROVE  c.allocation[n] = NoRange
      <4>1. j > k - 1 /\ j # k
        BY <1>1, <3>1
      <4>2. ElementsOf(pls[j]) \cap ElementsOf(pls[k]) = {}
        BY <1>1, <4>1 DEF IsPlan
      <4>3. n \in Node \ ElementsOf(pl)
        BY <1>2, <2>3, <4>2
      <4> QED BY <2>2, <2>7, <4>1, <4>3
    <3>2. ASSUME Closes(pls[1]) PROVE Piped(c.allocation)
      <4>1. CASE k = 1
        BY <2>3, <2>7, <3>2, <4>1
      <4>2. CASE k # 1
        <5>1. k - 1 >= 1
          BY <1>1, <4>2
        <5>2. Piped(b.allocation)
          BY <2>2, <3>2, <5>1
        <5>3. \A n \in Node : b.allocation[n] # NoRange => c.allocation[n] = b.allocation[n]
          BY <2>5, <2>7
        <5> QED BY <5>2, <5>3, PipedGrows
      <4> QED BY <4>1, <4>2
    <3> QED BY <3>1, <3>2
  <2>10. LayEach(a, b, pls[k]) = c
    BY <2>3, <2>4 DEF LayEach
  <2> HIDE DEF Ready
  <2> QED BY <2>1, <2>8, <2>9, <2>10
<1>5. LayPlanFold!Fold(a, a, pls) \in A[len]
  <2> HIDE DEF A
  <2> QED BY <1>0, <1>1, <1>3, <1>4, LeastElement, LayPlanFold!FoldLeftAlong
             DEF LayPlanFold!WellOrdered
<1>6. LayPlanFold!Fold(a, a, pls) = FoldLeft(LayStages, a, pls)
  BY Zenon DEF LayPlanFold!Fold, LayEach, FoldLeft, MapThenFoldSet,
               LayPlanFold!MapThenFoldSet, Max, LayPlanFold!Max
<1>7. PICK c : c = FoldLeft(LayStages, a, pls)
  OBVIOUS
<1>8. Kept(a, c) /\ (len >= 1 /\ Closes(pls[1]) => Piped(c.allocation))
  <2>1. Kept(a, c) /\ Ready(c, len)
    <3> HIDE DEF Ready
    <3> QED BY <1>1, <1>5, <1>6, <1>7
  <2> QED BY <2>1
<1>9. PICK d : d = allocate_left_over_nodes(c)
  OBVIOUS
<1>10. Kept(a, d) /\ Grown(c, d)
  BY <1>8, <1>9, LeftOverBooks DEF Kept
<1>11. ASSUME pls # <<>>, Closes(pls[1]) PROVE Piped(d.allocation)
  <2>1. len >= 1
    <3>1. Len(pls) \in Nat \ {0}
      BY <1>0, <1>11, EmptySeq
    <3> QED BY <1>1, <3>1
  <2>2. Piped(c.allocation)
    BY <1>8, <1>11, <2>1
  <2> QED BY <1>10, <2>2, PipedGrows DEF Grown
<1>12. Kept(a, a)
  BY DEF Kept
<1> QED BY <1>7, <1>9, <1>10, <1>11, <1>12 DEF LayPlan

(* A plan is applied, or there is none: either way the books are in order. *)
LEMMA ApplyPlanBooks ==
  ASSUME NodesHold, NEW a, Books(a), NEW pls, IsPlan(a.nodes, pls)
  PROVE  /\ Kept(a, ApplyPlan(a, pls))
         /\ pls # <<>> /\ Closes(pls[1]) => Piped(ApplyPlan(a, pls).allocation)
         /\ pls = <<>> => ApplyPlan(a, pls) = a
<1>1. pls \in Seq(Seq(Node))
  BY DEF IsPlan
<1>2. PICK c : c = ClearPlan(a, pls)
  OBVIOUS
<1>3. Kept(a, c) /\ \A j \in DOMAIN pls : \A n \in ElementsOf(pls[j]) : c.allocation[n] = NoRange
  BY <1>1, <1>2, ClearPlanBooks
<1>4. Books(c) /\ IsPlan(c.nodes, pls)
  BY <1>3 DEF Kept
<1>5. /\ Kept(c, LayPlan(c, pls))
      /\ pls # <<>> /\ Closes(pls[1]) => Piped(LayPlan(c, pls).allocation)
  BY <1>3, <1>4, LayPlanBooks, Zenon
<1>6. pls = <<>> => ApplyPlan(a, pls) = a
  BY <1>1, ClearPlanBooks DEF ApplyPlan, LayPlan
<1> QED BY <1>2, <1>3, <1>5, <1>6 DEF ApplyPlan, Kept

\* What a bootstrap or a leave makes of the allocator and the bootstrap flag.
Outcome(o) == o.boot \in BOOLEAN /\ Books(o.a)

LEMMA BootstrapBooks ==
  ASSUME NodesHold, NEW a, Books(a)
  PROVE  /\ Outcome(Bootstrap(a)) /\ Kept(a, Bootstrap(a).a)
         /\ Outcome(Rebalanced(a)) /\ Kept(a, Rebalanced(a).a)
         /\ has_full_pipeline(a) => has_full_pipeline(Bootstrap(a).a)
         /\ Bootstrap(a).boot => has_full_pipeline(Bootstrap(a).a)
         /\ Rebalanced(a).boot => has_full_pipeline(Rebalanced(a).a)
<1>1. ASSUME NEW b, Books(b)
      PROVE  /\ Outcome(Bootstrap(b)) /\ Kept(b, Bootstrap(b).a)
             /\ has_full_pipeline(b) => has_full_pipeline(Bootstrap(b).a)
             /\ Bootstrap(b).boot => has_full_pipeline(Bootstrap(b).a)
  <2>1. b.nodes \in Seq(Node) /\ NoRepeats(b.nodes)
    BY <1>1, AllocTypes DEF Books, Agreed
  <2>2. PICK p : p = BestPlan(b)
    OBVIOUS
  <2>3. IsPlan(b.nodes, p) /\ (p # <<>> => Closes(p[1]))
    BY <2>1, <2>2, BestPlanFacts
  <2>4. PICK c : c = ApplyPlan(b, p)
    OBVIOUS
  <2>5. /\ Kept(b, c) /\ (p # <<>> /\ Closes(p[1]) => Piped(c.allocation))
        /\ p = <<>> => c = b
    BY <1>1, <2>3, <2>4, ApplyPlanBooks, Zenon
  <2>6. Bootstrap(b) = [a |-> c, boot |-> p # <<>> /\ has_full_pipeline(c)]
    BY <2>2, <2>4, Zenon DEF Bootstrap, Booted, Checked
  <2>7. (p # <<>> /\ has_full_pipeline(c)) \in BOOLEAN
    BY Zenon
  <2>8. /\ Bootstrap(b).a = c /\ Bootstrap(b).boot \in BOOLEAN
        /\ Bootstrap(b).boot => has_full_pipeline(c)
    <3>1. PICK t \in BOOLEAN : t = (p # <<>> /\ has_full_pipeline(c))
      BY <2>7
    <3>2. Bootstrap(b) = [a |-> c, boot |-> t]
      BY <2>6, <3>1, Zenon
    <3>3. Bootstrap(b).a = c /\ Bootstrap(b).boot = t
      BY <3>2
    <3>4. t => has_full_pipeline(c)
      BY <3>1, Zenon
    <3> QED BY <3>1, <3>3, <3>4, Zenon
  <2>9. ASSUME has_full_pipeline(b) PROVE has_full_pipeline(c)
    <3>1. CASE p = <<>>
      BY <2>5, <2>9, <3>1
    <3>2. CASE p # <<>>
      <4>1. Books(c) /\ Piped(c.allocation)
        BY <2>3, <2>5, <3>2 DEF Kept
      <4> QED BY <4>1, PipelineReached
    <3> QED BY <3>1, <3>2
  <2> QED BY <2>5, <2>8, <2>9 DEF Outcome, Kept
<1>2. PICK c : c = ClearAll(a)
  OBVIOUS
<1>3. Kept(a, c)
  <2>1. a.nodes \in Seq(Node)
    BY AllocTypes DEF Books
  <2> QED BY <1>2, <2>1, ClearStagesBooks DEF ClearAll
<1>4. Books(c) /\ Rebalanced(a) = Bootstrap(c)
  BY <1>2, <1>3 DEF Kept, Rebalanced
<1>5. /\ Outcome(Bootstrap(c)) /\ Kept(c, Bootstrap(c).a)
      /\ Bootstrap(c).boot => has_full_pipeline(Bootstrap(c).a)
  BY <1>1, <1>4
<1> QED BY <1>1, <1>3, <1>4, <1>5 DEF Kept
-----------------------------------------------------------------------------
(* Truncation.                                                             *)

LEMMA ReallocateBooks ==
  ASSUME NEW a, Books(a), NEW n \in Node, a.entry[n] = "listed", NEW r \in Span
  PROVE  /\ Books(reallocate(a, n, "listed", r)) /\ Touches(a, reallocate(a, n, "listed", r), n)
         /\ RangeIn(reallocate(a, n, "listed", r), n) = r
<1>1. PICK b : b = deallocate(a, n, "listed")
  OBVIOUS
<1>2. Books(b) /\ Touches(a, b, n) /\ b.allocation[n] = NoRange /\ b.entry[n] = "listed"
  BY <1>1, DeallocateBooks DEF Touches
<1>3. PICK c : c = allocate(b, n, "listed", r)
  OBVIOUS
<1>4. Books(c) /\ Touches(b, c, n) /\ c.objs[n].listed.range = r
  BY <1>2, <1>3, AllocateBooks
<1>5. Touches(a, c, n)
  BY <1>2, <1>4 DEF Touches
<1>6. reallocate(a, n, "listed", r) = c
  BY <1>1, <1>3 DEF reallocate
<1> QED BY <1>4, <1>5, <1>6 DEF RangeIn

\* Every node on the path p has a range that begins no later than the path needs
\* it and ends after some layer the path needs it for.
OnPath(b, p) ==
  \A l \in Layer :
    /\ RangeIn(b, p[l]) \in Span /\ RangeIn(b, p[l])[1] <= l
    /\ \E k \in Layer : p[k] = p[l] /\ k < RangeIn(b, p[l])[2]

\* What the cuts keep.
Walked(a, p, b) == Kept(a, b) /\ OnPath(b, p)

\* A cut of n changes n's range to r only.
LEMMA CutWalked ==
  ASSUME NEW a, NEW p \in [Layer -> Node], NEW b, Walked(a, p, b),
         NEW n \in Node, b.entry[n] = "listed", NEW r \in Span,
         \A l \in Layer : p[l] = n => r[1] <= l /\ \E k \in Layer : p[k] = n /\ k < r[2]
  PROVE  Walked(a, p, reallocate(b, n, "listed", r))
<1>1. PICK c : c = reallocate(b, n, "listed", r)
  OBVIOUS
<1>2. Books(c) /\ Touches(b, c, n) /\ RangeIn(c, n) = r
  BY <1>1, ReallocateBooks DEF Walked, Kept
<1>3. Kept(a, c)
  BY <1>2 DEF Walked, Kept, Touches
<1>4. \A m \in Node \ {n} : RangeIn(c, m) = RangeIn(b, m)
  BY <1>2 DEF Touches, RangeIn
<1>5. OnPath(c, p)
  <2> SUFFICES ASSUME NEW l \in Layer
               PROVE  /\ RangeIn(c, p[l]) \in Span /\ RangeIn(c, p[l])[1] <= l
                      /\ \E k \in Layer : p[k] = p[l] /\ k < RangeIn(c, p[l])[2]
    BY DEF OnPath
  <2>1. CASE p[l] = n
    BY <1>2, <2>1
  <2>2. CASE p[l] # n
    <3>1. RangeIn(c, p[l]) = RangeIn(b, p[l])
      BY <1>4, <2>2
    <3>2. /\ RangeIn(b, p[l]) \in Span /\ RangeIn(b, p[l])[1] <= l
          /\ \E k \in Layer : p[k] = p[l] /\ k < RangeIn(b, p[l])[2]
      BY DEF Walked, OnPath
    <3> QED BY <3>1, <3>2
  <2> QED BY <2>1, <2>2
<1> QED BY <1>1, <1>3, <1>5 DEF Walked

LEMMA LeastLayer ==
  ASSUME NEW S \in SUBSET Layer, S # {}
  PROVE  LET least == CHOOSE l \in S : \A k \in S : l <= k
         IN least \in S /\ \A k \in S : least <= k
<1>1. Layer \subseteq Nat
  BY DEF Layer
<1>2. S \in SUBSET Nat
  BY <1>1
<1>3. \E l \in S : \A k \in S : l <= k
  BY <1>2, LeastElement
<1> QED BY <1>3, Zenon

LEMMA TailWalked ==
  ASSUME NEW a, NEW p \in [Layer -> Node], NEW b, Walked(a, p, b),
         NEW n \in Node, b.entry[n] = "listed"
  PROVE  Walked(a, p, TailCut(b, p, n))
<1>1. PICK left : left = {l \in Layer \ {0} : /\ p[l - 1] = n /\ p[l] # n
                                              /\ l \in Layers(RangeIn(b, n))}
  OBVIOUS
<1>2. CASE left = {}
  BY <1>1, <1>2 DEF TailCut
<1>3. CASE left # {}
  <2>1. PICK cut : cut = CHOOSE l \in left : \A k \in left : l <= k
    OBVIOUS
  <2>2. cut \in left
    BY <1>1, <1>3, <2>1, LeastLayer
  <2>3. /\ cut \in Layer /\ cut # 0 /\ p[cut - 1] = n /\ NumLayers \in Nat
        /\ cut \in Nat /\ cut <= NumLayers /\ cut - 1 \in Layer
    BY <1>1, <2>2, MeshAssumption DEF Layer
  <2>4. PICK old \in Span : old = RangeIn(b, n)
    BY <2>3 DEF Walked, OnPath
  <2>5. \A l \in Layer : p[l] = n => old[1] <= l
    BY <2>4 DEF Walked, OnPath
  <2>6. old[1] \in Nat /\ old[1] < cut
    BY <2>3, <2>4, <2>5, SpanFacts
  <2>7. PICK r : r = <<old[1], cut>>
    OBVIOUS
  <2>8. r \in Span /\ r[1] = old[1] /\ r[2] = cut
    BY <2>3, <2>6, <2>7, SpanFacts
  <2>9. ASSUME NEW l \in Layer, p[l] = n
        PROVE  r[1] <= l /\ \E k \in Layer : p[k] = n /\ k < r[2]
    <3>1. cut - 1 < cut
      BY <2>3
    <3> QED BY <2>3, <2>5, <2>8, <2>9, <3>1
  <2>10. Walked(a, p, reallocate(b, n, "listed", r))
    BY <2>8, <2>9, CutWalked
  <2>11. TailCut(b, p, n) = reallocate(b, n, "listed", r)
    BY <1>1, <1>3, <2>1, <2>4, <2>7 DEF TailCut
  <2> QED BY <2>10, <2>11
<1> QED BY <1>2, <1>3

LEMMA HeadWalked ==
  ASSUME NEW a, NEW p \in [Layer -> Node], NEW b, Walked(a, p, b),
         NEW n \in Node, b.entry[n] = "listed"
  PROVE  Walked(a, p, HeadCut(b, p, n))
<1>1. PICK used : used = {l \in Layer : p[l] = n}
  OBVIOUS
<1>2. PICK first : first = CHOOSE l \in used : \A k \in used : l <= k
  OBVIOUS
<1>3. CASE used = {} \/ first <= RangeIn(b, n)[1]
  BY <1>1, <1>2, <1>3 DEF HeadCut
<1>4. CASE used # {} /\ ~(first <= RangeIn(b, n)[1])
  <2>1. first \in used /\ \A k \in used : first <= k
    BY <1>1, <1>2, <1>4, LeastLayer
  <2>2. first \in Layer /\ p[first] = n /\ first \in Nat /\ NumLayers \in Nat
    BY <1>1, <2>1, MeshAssumption DEF Layer
  <2>3. PICK old \in Span : old = RangeIn(b, n)
    BY <2>2 DEF Walked, OnPath
  <2>4. PICK k \in Layer : p[k] = n /\ k < old[2]
    BY <2>2, <2>3 DEF Walked, OnPath
  <2>5. first <= k /\ k \in Nat
    BY <1>1, <2>1, <2>4 DEF Layer
  <2>6. old[2] \in Nat /\ old[2] <= NumLayers
    BY <2>3, SpanFacts
  <2>7. PICK r : r = <<first, old[2]>>
    OBVIOUS
  <2>8. r \in Span /\ r[1] = first /\ r[2] = old[2]
    <3>1. first < old[2]
      BY <2>2, <2>4, <2>5, <2>6
    <3> QED BY <2>2, <2>6, <2>7, <3>1, SpanFacts
  <2>9. \A l \in Layer : p[l] = n => r[1] <= l /\ \E j \in Layer : p[j] = n /\ j < r[2]
    BY <1>1, <2>1, <2>4, <2>8
  <2>10. Walked(a, p, reallocate(b, n, "listed", r))
    BY <2>8, <2>9, CutWalked
  <2>11. HeadCut(b, p, n) = reallocate(b, n, "listed", r)
    BY <1>1, <1>2, <1>4, <2>3, <2>7 DEF HeadCut
  <2> QED BY <2>10, <2>11
<1> QED BY <1>3, <1>4

TailOne(p, b, n) == TailCut(b, p, n)
TailFold == INSTANCE FoldLemmas WITH Op <- TailOne
HeadOne(p, b, n) == HeadCut(b, p, n)
HeadFold == INSTANCE FoldLemmas WITH Op <- HeadOne

LEMMA TruncationBooks ==
  ASSUME NEW a, Books(a), NEW c \in Truncations(a)
  PROVE  Kept(a, c)
<1>1. PICK seq \in Seq(Node) : seq = a.nodes
  BY AllocTypes DEF Books
<1>2. PICK X : X = ElementsOf(seq)
  OBVIOUS
<1>3. X \subseteq Node /\ seq \in Seq(X) /\ \A n \in X : a.entry[n] = "listed"
  BY <1>1, <1>2, AtPosition, InElements DEF Books, Agreed
<1>4. Kept(a, a)
  BY DEF Kept
<1>5. ASSUME NEW p \in HostPaths(a),
             c = FoldLeft(LAMBDA b, n : HeadCut(b, p, n), FoldLeft(LAMBDA b, n : TailCut(b, p, n), a, seq), seq)
      PROVE  Kept(a, c)
  <2>1. p \in [Layer -> Node] /\ \A l \in Layer : l \in Layers(RangeIn(a, p[l])) /\ p[l] \in Node
    <3>1. p \in [Layer -> Listed(a)] /\ \A l \in Layer : l \in Layers(RangeIn(a, p[l]))
      BY DEF HostPaths
    <3>2. Listed(a) = X
      BY <1>1, <1>2 DEF Listed, ElementsOf
    <3> QED BY <1>3, <3>1, <3>2
  <2>2. PICK A : A = {b \in Alloc : Walked(a, p, b)}
    OBVIOUS
  <2>3. a \in A
    <3>1. ASSUME NEW l \in Layer
          PROVE  /\ RangeIn(a, p[l]) \in Span /\ RangeIn(a, p[l])[1] <= l
                 /\ \E k \in Layer : p[k] = p[l] /\ k < RangeIn(a, p[l])[2]
      <4>1. PICK r \in Ranges : r = RangeIn(a, p[l])
        BY <2>1, AllocTypes DEF Books, RangeIn
      <4>2. l \in Layers(r) /\ r # NoRange
        BY <2>1, <4>1, SpanFacts
      <4>3. r \in Span
        BY <4>2 DEF Ranges
      <4>4. r[1] \in Nat /\ r[2] \in Nat /\ l \in r[1] .. r[2] - 1
        BY <4>2, <4>3, SpanFacts
      <4>5. r[1] <= l /\ l < r[2]
        BY <4>4
      <4> QED BY <4>1, <4>3, <4>5
    <3> QED BY <1>4, <2>2, <3>1 DEF Walked, OnPath, Books
  <2>4. ASSUME NEW b \in A, NEW n \in X
        PROVE  TailOne(p, b, n) \in A /\ HeadOne(p, b, n) \in A
    <3>1. Walked(a, p, b) /\ n \in Node /\ b.entry[n] = "listed"
      BY <1>3, <2>2 DEF Walked, Kept
    <3>2. Walked(a, p, TailCut(b, p, n)) /\ Walked(a, p, HeadCut(b, p, n))
      BY <2>1, <3>1, TailWalked, HeadWalked
    <3>3. \A d : Walked(a, p, d) => d \in Alloc
      BY DEF Walked, Kept, Books
    <3> QED BY <2>2, <3>2, <3>3 DEF TailOne, HeadOne
  <2>5. PICK t : t = TailFold!Fold(p, a, seq)
    OBVIOUS
  <2>6. t \in A
    BY <1>3, <2>3, <2>4, <2>5, LeastElement, TailFold!FoldLeftIn DEF TailFold!WellOrdered
  <2>7. t = FoldLeft(LAMBDA b, n : TailCut(b, p, n), a, seq)
    BY <2>5, Zenon DEF TailFold!Fold, TailOne, FoldLeft, MapThenFoldSet,
                       TailFold!MapThenFoldSet, Max, TailFold!Max
  <2>8. HeadFold!Fold(p, t, seq) \in A
    BY <1>3, <2>4, <2>6, LeastElement, HeadFold!FoldLeftIn DEF HeadFold!WellOrdered
  <2>9. HeadFold!Fold(p, t, seq) = FoldLeft(LAMBDA b, n : HeadCut(b, p, n), t, seq)
    BY Zenon DEF HeadFold!Fold, HeadOne, FoldLeft, MapThenFoldSet,
                 HeadFold!MapThenFoldSet, Max, HeadFold!Max
  <2>10. c = HeadFold!Fold(p, t, seq)
    BY <1>5, <2>7, <2>9, Zenon
  <2>11. c \in A
    BY <2>8, <2>10
  <2> QED BY <2>2, <2>11 DEF Walked
<1>6. CASE c = a
  BY <1>4, <1>6
<1>7. CASE c # a
  <2>1. PICK p \in HostPaths(a) :
          c = FoldLeft(LAMBDA b, n : HeadCut(b, p, n), FoldLeft(LAMBDA b, n : TailCut(b, p, n), a, seq), seq)
    BY <1>1, <1>7, Zenon DEF Truncations
  <2> QED BY <1>5, <2>1, Zenon
<1> QED BY <1>6, <1>7

\* A pipeline stands if the mesh counts as bootstrapped, or no node is left.
Serving(o) == o.boot => has_full_pipeline(o.a) \/ o.a.nodes = <<>>

(* Every outcome of a departure leaves the books in order, and the node out *)
(* of them.                                                                *)
LEMMA LeaveOutcomesBooks ==
  ASSUME NodesHold, NEW a, Books(a), NEW b \in BOOLEAN, NEW n \in Node, a.entry[n] = "listed",
         NEW o \in LeaveOutcomes(a, b, n)
  PROVE  /\ Outcome(o) /\ o.a.entry = [a.entry EXCEPT ![n] = "none"]
         /\ NoneManual => Serving(o)
<1>1. PICK c : c = leave(a, n)
  OBVIOUS
<1>2. Books(c) /\ c.entry = [a.entry EXCEPT ![n] = "none"]
  BY <1>1, LeaveBooks
<1>3. CASE has_full_pipeline(c) \/ c.nodes = <<>> \/ \E m \in Listed(c) : IsManual(c, m)
  <2>1. o = [a |-> c, boot |-> b]
    BY <1>1, <1>3, Zenon DEF LeaveOutcomes
  <2>2. o.a = c /\ o.boot = b
    BY <2>1
  <2>3. ASSUME NoneManual PROVE has_full_pipeline(c) \/ c.nodes = <<>>
    <3>1. \A m \in Listed(c) : m \in Node
      BY <1>2, AllocTypes, AtPosition DEF Books, Listed
    <3> QED BY <1>2, <1>3, <2>3, <3>1, NotManual, Zenon
  <2>4. NoneManual => Serving(o)
    BY <2>2, <2>3, Zenon DEF Serving
  <2> QED BY <1>2, <2>2, <2>4 DEF Outcome
<1>4. CASE ~(has_full_pipeline(c) \/ c.nodes = <<>> \/ \E m \in Listed(c) : IsManual(c, m))
  <2>1. PICK d \in Truncations(c) :
          o = IF has_full_pipeline(d) THEN [a |-> d, boot |-> b] ELSE Rebalanced(d)
    BY <1>1, <1>4, Zenon DEF LeaveOutcomes
  <2>2. Kept(c, d)
    BY <1>2, TruncationBooks
  <2>3. CASE has_full_pipeline(d)
    <3>1. o = [a |-> d, boot |-> b]
      BY <2>1, <2>3, Zenon
    <3>2. o.a = d /\ o.boot = b
      BY <3>1
    <3>3. Serving(o)
      BY <2>3, <3>2 DEF Serving
    <3> QED BY <1>2, <2>2, <3>2, <3>3 DEF Outcome, Kept
  <2>4. CASE ~has_full_pipeline(d)
    <3>1. o = Rebalanced(d)
      BY <2>1, <2>4, Zenon
    <3>2. Books(d)
      BY <2>2 DEF Kept
    <3>3. Outcome(Rebalanced(d)) /\ Kept(d, Rebalanced(d).a)
      BY <3>2, BootstrapBooks, Zenon
    <3>4. Serving(o)
      BY <3>1, <3>2, BootstrapBooks, Zenon DEF Serving
    <3> QED BY <1>2, <2>2, <3>1, <3>3, <3>4 DEF Kept
  <2> QED BY <2>3, <2>4
<1> QED BY <1>3, <1>4
-----------------------------------------------------------------------------
(* Joins.                                                                  *)

\* An entry of _pending_joins; a manual node brings its range.
JoinEntry == {j \in [id : Node, obj : Obj] : j.obj.manual => j.obj.range \in Span}

\* The entries are of different nodes, and the scheduler knows none of them.
FreshJoins(entry, q) ==
  /\ q \in Seq(JoinEntry)
  /\ \A i, j \in DOMAIN q : q[i].id = q[j].id => i = j
  /\ \A i \in DOMAIN q : entry[q[i].id] = "none"

(* The join of a node that is not known yet.                               *)
LEMMA JoinedBooks ==
  ASSUME Books(alloc), boot \in BOOLEAN, NEW j \in JoinEntry, alloc.entry[j.id] = "none"
  PROVE  /\ Books(Joined(alloc, boot, j).a)
         /\ Joined(alloc, boot, j).boot \in BOOLEAN /\ Joined(alloc, boot, j).raised \in BOOLEAN
         /\ Joined(alloc, boot, j).a.entry = [alloc.entry EXCEPT ![j.id] = "listed"]
         /\ Grown(alloc, Joined(alloc, boot, j).a)
         /\ ~j.obj.manual => Joined(alloc, boot, j).boot = boot
<1>1. PICK n \in Node : n = j.id
  BY DEF JoinEntry
<1>2. PICK obj \in Obj : obj = j.obj
  BY DEF JoinEntry
<1>3. PICK s : s = Joined(alloc, boot, j)
  OBVIOUS
<1>4. PICK d : d = declare(alloc, n, obj)
  OBVIOUS
<1>5. PICK m : m = allocate(d, n, "listed", obj.range)
  OBVIOUS
<1>6. /\ Books(d) /\ d.entry = [alloc.entry EXCEPT ![n] = "listed"]
      /\ d.allocation = alloc.allocation /\ alloc.allocation[n] = NoRange
  BY <1>1, <1>4, DeclareBooks
<1>7. d.entry[n] = "listed" /\ d.allocation[n] = NoRange /\ d \in Alloc
  BY <1>6, AllocTypes DEF Books
<1> DEFINE Result(x, y, raised) == [a |-> x, boot |-> y, raised |-> raised]
<1>8. s = IF obj.manual THEN Result(m, boot \/ has_full_pipeline(m), FALSE)
          ELSE IF ~boot THEN Result(d, boot, FALSE)
          ELSE IF join_raises(d, n) THEN Result(d, boot, TRUE)
          ELSE Result(join(d, n, "listed"), boot, FALSE)
  <2>1. ~(alloc.entry[j.id] # "none")
    OBVIOUS
  <2> QED BY <1>1, <1>2, <1>3, <1>4, <1>5, <2>1, Zenon DEF Joined
<1>9. CASE obj.manual
  <2>1. obj.range \in Span
    BY <1>2, <1>9 DEF JoinEntry
  <2>2. Books(m) /\ Touches(d, m, n)
    BY <1>5, <1>6, <1>7, <2>1, AllocateBooks
  <2>3. PICK t \in BOOLEAN : t = (boot \/ has_full_pipeline(m))
    BY Zenon
  <2>4. s = Result(m, t, FALSE)
    BY <1>8, <1>9, <2>3, Zenon
  <2>5. s.a = m /\ s.boot = t /\ s.raised = FALSE
    BY <2>4
  <2>6. Grown(alloc, m) /\ m.entry = d.entry
    BY <1>6, <2>2 DEF Grown, Touches
  <2> QED BY <1>1, <1>2, <1>3, <1>6, <1>9, <2>2, <2>3, <2>5, <2>6, Zenon
<1>10. CASE ~obj.manual /\ (~boot \/ join_raises(d, n))
  <2>1. s.a = d /\ s.boot = boot /\ s.raised \in BOOLEAN
    BY <1>8, <1>10
  <2>2. Grown(alloc, d)
    BY <1>6 DEF Grown
  <2> QED BY <1>1, <1>3, <1>6, <2>1, <2>2, Zenon
<1>11. CASE ~obj.manual /\ boot /\ ~join_raises(d, n)
  <2>1. PICK x : x = join(d, n, "listed")
    OBVIOUS
  <2>2. Books(x) /\ Touches(d, x, n)
    BY <1>6, <1>7, <1>11, <2>1, JoinBooks
  <2>3. s.a = x /\ s.boot = boot /\ s.raised = FALSE
    BY <1>8, <1>11, <2>1
  <2>4. Grown(alloc, x) /\ x.entry = d.entry
    BY <1>6, <2>2 DEF Grown, Touches
  <2> QED BY <1>1, <1>3, <1>6, <2>2, <2>3, <2>4, Zenon
<1>12. obj.manual \in BOOLEAN
  BY ManualKinds DEF Obj
<1> QED BY <1>9, <1>10, <1>11, <1>12, Zenon
-----------------------------------------------------------------------------
(* The inductive invariant.                                                *)

LeaveEntry == [id : Node]
UpdateEntry == [id : Node, active : BOOLEAN]

\* Where the event thread can be when no bootstraps overlap.
EventStates == {"loop", "joins", "manual", "boot", "dead"}

\* The scheduler: its books are in order, and the pending joins are of nodes that
\* it does not know.
SchedulerInOrder ==
  /\ Books(alloc) /\ boot \in BOOLEAN
  /\ main \in {"waiting", "done"} /\ event \in EventStates
  /\ FreshJoins(alloc.entry, joins)
  /\ leaves \in Seq(LeaveEntry) /\ updates \in Seq(UpdateEntry)

WorkersInOrder ==
  /\ node \in [Node -> {"off", "joining", "loading", "ready", "waiting"}]
  /\ told \in [Node -> Ranges] /\ rejoining \in SUBSET Node

MeshInv == SchedulerInOrder /\ WorkersInOrder

\* The faults that the invariant does not survive do not happen.
Orderly == "restart" \notin Faults /\ "overlap" \notin Faults

LEMMA EmptyBooks == Books(EmptyAllocator)
<1>1. PICK a : a = EmptyAllocator
  OBVIOUS
<1>2. /\ a.nodes = <<>> /\ a.objs = [n \in Node |-> [listed |-> NewNode, second |-> NewNode]]
      /\ a.entry = [n \in Node |-> "none"] /\ a.allocation = [n \in Node |-> NoRange]
      /\ a.hosts = [l \in Layer |-> {}] /\ a.load = [l \in Layer |-> 0]
      /\ a = [nodes |-> a.nodes, objs |-> a.objs, entry |-> a.entry, allocation |-> a.allocation,
              hosts |-> a.hosts, load |-> a.load]
  BY <1>1 DEF EmptyAllocator
<1>3. NewNode \in Obj
  BY ManualKinds DEF NewNode, Obj, Ranges
<1>4. a.objs \in [Node -> [listed : Obj, second : Obj]]
  BY <1>2, <1>3
<1>5. a.allocation \in [Node -> Ranges]
  BY <1>2 DEF Ranges
<1>6. a.nodes \in Seq(Node) /\ DOMAIN a.nodes = {}
  BY <1>2, EmptySeq
<1>7. a \in Alloc
  <2>1. a.entry \in [Node -> {"none", "listed"}]
    BY <1>2
  <2>2. a.hosts \in [Layer -> SUBSET Node]
    BY <1>2
  <2>3. a.load \in [Layer -> Nat]
    BY <1>2
  <2> QED BY <1>2, <1>4, <1>5, <1>6, <2>1, <2>2, <2>3 DEF Alloc
<1>8. Agreed(a)
  BY <1>2, <1>6 DEF Agreed, NoRepeats, ElementsOf
<1>9. ASSUME NEW l \in Layer
      PROVE  a.hosts[l] = HostsIn(a.allocation, l) /\ a.load[l] = LoadIn(a.allocation, l)
  <2>1. HostsIn(a.allocation, l) = {}
    BY <1>2, SpanFacts DEF HostsIn
  <2>2. PICK f : f = [n \in {} |-> KvPerLayer(n, a.allocation[n])]
    OBVIOUS
  <2>3. LoadIn(a.allocation, l) = SumOf(f, {})
    BY <2>1, <2>2 DEF LoadIn
  <2>4. SumOf(f, {}) = 0
    BY FS_EmptySet, SumInt
  <2> QED BY <1>2, <2>1, <2>3, <2>4
<1> QED BY <1>1, <1>7, <1>8, <1>9 DEF Books, Balanced

LEMMA MeshInit == Init => MeshInv
<1> SUFFICES ASSUME Init PROVE MeshInv
  OBVIOUS
<1>1. /\ alloc = EmptyAllocator /\ boot = FALSE /\ main = "waiting"
      /\ joins = <<>> /\ leaves = <<>> /\ updates = <<>> /\ event = "loop"
      /\ node = [n \in Node |-> "off"] /\ told = [n \in Node |-> NoRange] /\ rejoining = {}
  BY DEF Init
<1>2. Books(alloc)
  BY <1>1, EmptyBooks
<1>3. FreshJoins(alloc.entry, joins)
  BY <1>1, EmptySeq DEF FreshJoins
<1>4. leaves \in Seq(LeaveEntry) /\ updates \in Seq(UpdateEntry)
  BY <1>1, EmptySeq
<1>5. WorkersInOrder
  BY <1>1 DEF WorkersInOrder, Ranges
<1> QED BY <1>1, <1>2, <1>3, <1>4, <1>5 DEF MeshInv, SchedulerInOrder, EventStates

(* A join of a node that the scheduler does not know and that is not in    *)
(* the queue.                                                              *)
LEMMA JoinQueued ==
  ASSUME FreshJoins(alloc.entry, joins), NEW n \in Node, ~InQueue(joins, n), alloc.entry[n] = "none",
         NEW obj \in Obj, obj.manual => obj.range \in Span, Join(n, obj)
  PROVE  FreshJoins(alloc.entry, joins')
<1>1. PICK q \in Seq(JoinEntry) : q = joins
  BY DEF FreshJoins
<1>2. PICK j : j = [id |-> n, obj |-> obj]
  OBVIOUS
<1>3. j \in JoinEntry /\ j.id = n
  BY <1>2 DEF JoinEntry
<1>4. PICK new : new = joins'
  OBVIOUS
<1>5. PICK len \in Nat : len = Len(q) /\ DOMAIN q = 1..len
  BY AtPosition
<1>6. /\ new \in Seq(JoinEntry) /\ DOMAIN new = 1..(len + 1) /\ new[len + 1] = j
      /\ \A i \in 1..len : new[i] = q[i]
  <2>1. new = Append(q, j)
    BY <1>1, <1>2, <1>4 DEF Join
  <2> QED BY <1>3, <1>5, <2>1, AppendProperties, LenProperties
<1>7. \A i \in 1..(len + 1) : i \in 1..len \/ i = len + 1
  BY <1>5
<1>8. \A i \in 1..len : q[i].id # n /\ alloc.entry[q[i].id] = "none"
  BY <1>1, <1>5 DEF InQueue, FreshJoins
<1>9. \A i, k \in 1..len : q[i].id = q[k].id => i = k
  BY <1>1, <1>5 DEF FreshJoins
<1>10. \A i, k \in DOMAIN new : new[i].id = new[k].id => i = k
  BY <1>3, <1>6, <1>7, <1>8, <1>9
<1>11. \A i \in DOMAIN new : alloc.entry[new[i].id] = "none"
  BY <1>3, <1>6, <1>7, <1>8
<1> QED BY <1>4, <1>6, <1>10, <1>11 DEF FreshJoins

LEMMA EntryKinds ==
  ASSUME Books(alloc), NEW n \in Node
  PROVE  /\ n \in Registered(alloc) <=> alloc.entry[n] = "listed"
         /\ n \notin Registered(alloc) <=> alloc.entry[n] = "none"
         /\ n \in Listed(alloc) <=> alloc.entry[n] = "listed"
         /\ LayerAllocationOf(n) \in Ranges
<1>1. alloc \in Alloc /\ alloc.entry[n] \in {"none", "listed"} /\ alloc.allocation[n] \in Ranges
  BY AllocTypes DEF Books
<1>2. Listed(alloc) = ElementsOf(alloc.nodes)
  BY DEF Listed, ElementsOf
<1>3. n \in Listed(alloc) <=> alloc.entry[n] = "listed"
  BY <1>2 DEF Books, Agreed
<1>4. n \in Registered(alloc) <=> alloc.entry[n] # "none"
  BY DEF Registered
<1>5. LayerAllocationOf(n) \in Ranges
  BY <1>1 DEF LayerAllocationOf, Ranges
<1> QED BY <1>1, <1>3, <1>4, <1>5

(* The steps of the worker nodes.                                          *)
LEMMA WorkerSteps ==
  ASSUME MeshInv, Orderly, NEW n \in Node,
         \/ Start(n) \/ JoinAnswered(n) \/ JoinGivesUp(n) \/ Loaded(n) \/ Update(n)
         \/ Rejoin(n) \/ RejoinAnswered(n) \/ Crash(n) \/ Leave(n)
  PROVE  MeshInv'
<1>1. SchedulerInOrder /\ WorkersInOrder /\ Books(alloc)
  BY DEF MeshInv, SchedulerInOrder
<1>2. alloc' = alloc /\ boot' = boot /\ main' = main /\ event' = event
  BY DEF Start, JoinAnswered, JoinGivesUp, Loaded, Update, Rejoin, RejoinAnswered, Crash, Leave, Stop,
         allocating
<1>3. /\ n \in Registered(alloc) <=> alloc.entry[n] = "listed"
      /\ n \notin Registered(alloc) <=> alloc.entry[n] = "none"
      /\ LayerAllocationOf(n) \in Ranges
  BY <1>1, EntryKinds
<1>4. /\ node \in [Node -> {"off", "joining", "loading", "ready", "waiting"}]
      /\ told \in [Node -> Ranges] /\ rejoining \in SUBSET Node
  BY <1>1 DEF WorkersInOrder
<1>5. Manual[n] \in Ranges /\ (Manual[n] # NoRange => Manual[n] \in Span)
  BY SchedulerAssumption DEF Ranges, Span
<1>6. SchedulerInOrder'
  <2>1. FreshJoins(alloc.entry, joins')
    <3>0. FreshJoins(alloc.entry, joins)
      BY <1>1 DEF SchedulerInOrder
    <3>1. CASE Start(n)
      <4>1. alloc.entry[n] = "none" /\ ~InQueue(joins, n)
        BY <1>3, <3>1 DEF Start, Orderly
      <4>2. PICK obj : obj = [range |-> Manual[n], active |-> FALSE, manual |-> Manual[n] # NoRange]
        OBVIOUS
      <4>3. obj \in Obj /\ (obj.manual => obj.range \in Span) /\ Join(n, obj)
        <5>1. (Manual[n] # NoRange) \in Manuals
          BY ManualKinds, Zenon
        <5>2. obj \in Obj
          BY <1>5, <4>2, <5>1 DEF Obj
        <5> QED BY <1>5, <3>1, <4>2, <5>2 DEF Start
      <4> QED BY <3>0, <4>1, <4>3, JoinQueued
    <3>2. CASE Rejoin(n)
      <4>1. alloc.entry[n] = "none" /\ ~InQueue(joins, n)
        BY <1>3, <3>2 DEF Rejoin
      <4>2. PICK obj : obj = [range |-> told[n], active |-> node[n] = "ready", manual |-> FALSE]
        OBVIOUS
      <4>3. obj \in Obj /\ (obj.manual => obj.range \in Span) /\ Join(n, obj)
        BY <1>4, <3>2, <4>2, ManualKinds DEF Rejoin, Obj
      <4> QED BY <3>0, <4>1, <4>3, JoinQueued
    <3>3. CASE ~Start(n) /\ ~Rejoin(n)
      <4>1. joins' = joins
        BY <3>3 DEF JoinAnswered, JoinGivesUp, Loaded, Update, RejoinAnswered, Crash, Leave, Stop, queues
      <4> QED BY <3>0, <4>1
    <3> QED BY <3>1, <3>2, <3>3
  <2>2. leaves' \in Seq(LeaveEntry)
    <3>0. leaves \in Seq(LeaveEntry)
      BY <1>1 DEF SchedulerInOrder
    <3>1. CASE Leave(n)
      <4>1. [id |-> n] \in LeaveEntry
        BY DEF LeaveEntry
      <4> QED BY <3>0, <3>1, <4>1, AppendProperties DEF Leave
    <3>2. CASE ~Leave(n)
      <4>1. leaves' = leaves
        BY <3>2 DEF Start, JoinAnswered, JoinGivesUp, Loaded, Update, Rejoin, RejoinAnswered, Crash, queues
      <4> QED BY <3>0, <4>1
    <3> QED BY <3>1, <3>2
  <2>3. updates' \in Seq(UpdateEntry)
    <3>0. updates \in Seq(UpdateEntry)
      BY <1>1 DEF SchedulerInOrder
    <3>1. CASE Update(n)
      <4>1. [id |-> n, active |-> node[n] = "ready"] \in UpdateEntry
        BY DEF UpdateEntry
      <4> QED BY <3>0, <3>1, <4>1, AppendProperties DEF Update
    <3>2. CASE ~Update(n)
      <4>1. updates' = updates
        BY <3>2 DEF Start, JoinAnswered, JoinGivesUp, Loaded, Rejoin, RejoinAnswered, Crash, Leave, Stop, queues
      <4> QED BY <3>0, <4>1
    <3> QED BY <3>1, <3>2
  <2>4. Books(alloc') /\ boot' \in BOOLEAN /\ main' \in {"waiting", "done"} /\ event' \in EventStates
    BY <1>1, <1>2 DEF SchedulerInOrder
  <2> QED BY <1>2, <2>1, <2>2, <2>3, <2>4 DEF SchedulerInOrder
<1>7. WorkersInOrder'
  <2>1. CASE Start(n)
    BY <1>4, <1>5, <2>1 DEF Start, WorkersInOrder
  <2>2. CASE JoinAnswered(n)
    BY <1>3, <1>4, <2>2 DEF JoinAnswered, WorkersInOrder
  <2>3. CASE JoinGivesUp(n)
    BY <1>4, <2>3 DEF JoinGivesUp, WorkersInOrder
  <2>4. CASE Loaded(n)
    BY <1>4, <2>4 DEF Loaded, WorkersInOrder
  <2>5. CASE Update(n)
    BY <1>3, <1>4, <2>5 DEF Update, Adopt, WorkersInOrder
  <2>6. CASE Rejoin(n)
    BY <1>4, <2>6 DEF Rejoin, WorkersInOrder
  <2>7. CASE RejoinAnswered(n)
    BY <1>3, <1>4, <2>7 DEF RejoinAnswered, Adopt, WorkersInOrder
  <2>8. CASE Crash(n)
    BY <1>4, <2>8 DEF Crash, Stop, WorkersInOrder, Ranges
  <2>9. CASE Leave(n)
    BY <1>4, <2>9 DEF Leave, Stop, WorkersInOrder, Ranges
  <2> QED BY <2>1, <2>2, <2>3, <2>4, <2>5, <2>6, <2>7, <2>8, <2>9
<1> QED BY <1>6, <1>7, Zenon DEF MeshInv

(* What the scheduler's own steps leave alone, and how a new allocator that *)
(* knows no more nodes keeps the invariant.                                *)
LEMMA Installed ==
  ASSUME MeshInv, UNCHANGED workers, Books(alloc'), boot' \in BOOLEAN,
         main' \in {"waiting", "done"}, event' \in EventStates,
         FreshJoins(alloc'.entry, joins'), leaves' \in Seq(LeaveEntry), updates' \in Seq(UpdateEntry)
  PROVE  MeshInv'
<1>1. WorkersInOrder'
  BY DEF MeshInv, WorkersInOrder, workers
<1>2. SchedulerInOrder'
  BY DEF SchedulerInOrder
<1> QED BY <1>1, <1>2, Zenon DEF MeshInv

LEMMA FewerKnown ==
  ASSUME NEW old \in [Node -> {"none", "listed"}], NEW new, NEW n \in Node, NEW q,
         FreshJoins(old, q), new = old \/ new = [old EXCEPT ![n] = "none"]
  PROVE  FreshJoins(new, q)
<1>1. ASSUME NEW i \in DOMAIN q PROVE q[i].id \in Node
  BY AtPosition DEF FreshJoins, JoinEntry
<1> QED BY <1>1 DEF FreshJoins

LEMMA UpdateStep ==
  ASSUME MeshInv, ProcessUpdate
  PROVE  MeshInv' /\ alloc'.allocation = alloc.allocation /\ boot' = boot
<1>1. SchedulerInOrder
  BY DEF MeshInv
<1>2. /\ Books(alloc) /\ boot \in BOOLEAN /\ main \in {"waiting", "done"}
      /\ FreshJoins(alloc.entry, joins) /\ leaves \in Seq(LeaveEntry) /\ updates \in Seq(UpdateEntry)
  BY <1>1 DEF SchedulerInOrder
<1>0. /\ updates # <<>> /\ updates' = Tail(updates) /\ event = "loop" /\ event' = event
      /\ joins' = joins /\ leaves' = leaves /\ boot' = boot /\ main' = main /\ UNCHANGED workers
  BY Zenon DEF ProcessUpdate
<1>3. PICK u : u = Head(updates)
  OBVIOUS
<1>4. u.id \in Node /\ u.active \in BOOLEAN /\ updates' \in Seq(UpdateEntry)
  <2>1. u \in UpdateEntry /\ updates' \in Seq(UpdateEntry)
    BY <1>0, <1>2, <1>3, HeadTailProperties
  <2> QED BY <2>1 DEF UpdateEntry
<1>5. PICK n \in Node : n = u.id
  BY <1>4
<1>6. Books(alloc') /\ alloc'.entry = alloc.entry /\ alloc'.allocation = alloc.allocation
  <2>1. CASE n \notin Registered(alloc)
    BY <1>2, <1>3, <1>5, <2>1 DEF ProcessUpdate
  <2>2. CASE n \in Registered(alloc)
    <3>1. alloc.entry[n] = "listed"
      BY <1>2, <2>2, EntryKinds
    <3>2. PICK b : b = [alloc EXCEPT !.objs[n]["listed"].active = u.active]
      OBVIOUS
    <3>3. alloc' = b
      BY <1>3, <1>5, <2>2, <3>1, <3>2 DEF ProcessUpdate
    <3>4. PICK a : a = alloc
      OBVIOUS
    <3>5. a \in Alloc /\ Agreed(a) /\ Balanced(a)
      BY <1>2, <3>4 DEF Books
    <3>6. PICK obj : obj = [a.objs[n].listed EXCEPT !.active = u.active]
      OBVIOUS
    <3>7. obj \in Obj /\ obj.range = a.objs[n].listed.range
      <4>1. a.objs[n].listed \in Obj
        BY <3>5, AllocTypes
      <4> QED BY <1>4, <3>6, <4>1 DEF Obj
    <3>8. PICK objs : objs = [a.objs EXCEPT ![n] = [@ EXCEPT !.listed = obj]]
      OBVIOUS
    <3>9. /\ objs \in [Node -> [listed : Obj, second : Obj]]
          /\ objs[n].listed = obj /\ \A m \in Node \ {n} : objs[m] = a.objs[m]
      <4>1. a.objs \in [Node -> [listed : Obj, second : Obj]]
        BY <3>5, AllocTypes
      <4> QED BY <3>7, <3>8, <4>1
    <3>10. b = [a EXCEPT !.objs = objs]
      BY <3>2, <3>4, <3>6, <3>8
    <3>11. /\ b.nodes = a.nodes /\ b.entry = a.entry /\ b.objs = objs /\ b.allocation = a.allocation
           /\ b.hosts = a.hosts /\ b.load = a.load /\ b \in Alloc
      BY <3>5, <3>9, <3>10 DEF Alloc
    <3>12. \A m \in Node : b.objs[m].listed.range = a.objs[m].listed.range
      BY <3>7, <3>9, <3>11
    <3>13. Agreed(b)
      BY <3>5, <3>11, <3>12 DEF Agreed
    <3>14. Balanced(b)
      BY <3>5, <3>11 DEF Balanced
    <3> QED BY <3>3, <3>4, <3>11, <3>13, <3>14 DEF Books
  <2> QED BY <2>1, <2>2
<1>7. FreshJoins(alloc'.entry, joins')
  BY <1>0, <1>2, <1>6
<1>8. event' \in EventStates
  BY <1>0 DEF EventStates
<1> QED BY <1>0, <1>2, <1>4, <1>6, <1>7, <1>8, Installed, Zenon

(* The entries after the first are of other nodes.                         *)
LEMMA RestOfJoins ==
  ASSUME NEW old \in [Node -> {"none", "listed"}], NEW q, FreshJoins(old, q), q # <<>>
  PROVE  /\ Head(q) \in JoinEntry /\ old[Head(q).id] = "none"
         /\ FreshJoins([old EXCEPT ![Head(q).id] = "listed"], Tail(q))
<1>1. PICK len \in Nat : len = Len(q) /\ DOMAIN q = 1..len
  BY AtPosition DEF FreshJoins
<1>2. PICK t : t = Tail(q)
  OBVIOUS
<1>3. q \in Seq(JoinEntry) /\ len # 0
  BY <1>1, EmptySeq DEF FreshJoins
<1>4. /\ Head(q) = q[1] /\ t \in Seq(JoinEntry) /\ Len(t) = len - 1
      /\ \A i \in 1..(len - 1) : t[i] = q[i + 1]
  BY <1>1, <1>2, <1>3, HeadTailProperties
<1>5. DOMAIN t = 1..(len - 1) /\ 1 \in 1..len /\ \A i \in 1..(len - 1) : i + 1 \in 1..len /\ i + 1 # 1
  BY <1>1, <1>3, <1>4, LenProperties
<1>6. PICK n : n = Head(q).id
  OBVIOUS
<1>7. Head(q) \in JoinEntry /\ n \in Node /\ old[n] = "none"
  BY <1>1, <1>3, <1>4, <1>5, <1>6, AtPosition DEF FreshJoins, JoinEntry
<1>8. ASSUME NEW i \in DOMAIN t, NEW k \in DOMAIN t, t[i].id = t[k].id PROVE i = k
  <2>1. q[i + 1].id = q[k + 1].id /\ i + 1 \in DOMAIN q /\ k + 1 \in DOMAIN q
    BY <1>1, <1>4, <1>5, <1>8
  <2>2. i + 1 = k + 1
    BY <2>1 DEF FreshJoins
  <2> QED BY <1>5, <2>2
<1>9. ASSUME NEW i \in DOMAIN t PROVE [old EXCEPT ![n] = "listed"][t[i].id] = "none"
  <2>1. t[i] = q[i + 1] /\ i + 1 \in DOMAIN q /\ 1 \in DOMAIN q /\ i + 1 # 1 /\ q[1].id = n
    BY <1>1, <1>4, <1>5, <1>6
  <2>2. t[i].id # n /\ old[t[i].id] = "none"
    BY <2>1 DEF FreshJoins
  <2>3. t[i].id \in Node
    BY <1>4, AtPosition DEF JoinEntry
  <2> QED BY <2>2, <2>3
<1> QED BY <1>2, <1>4, <1>6, <1>7, <1>8, <1>9 DEF FreshJoins

LEMMA JoinSteps ==
  ASSUME MeshInv, ProcessJoin \/ JoinRaises \/ JoinsDone
  PROVE  /\ MeshInv'
         /\ Grown(alloc, alloc')
         /\ boot' # boot => joins # <<>> /\ Head(joins) \in JoinEntry /\ Head(joins).obj.manual
<1>1. /\ Books(alloc) /\ boot \in BOOLEAN /\ main \in {"waiting", "done"} /\ event \in EventStates
      /\ FreshJoins(alloc.entry, joins) /\ leaves \in Seq(LeaveEntry) /\ updates \in Seq(UpdateEntry)
  BY Zenon DEF MeshInv, SchedulerInOrder
<1>2. /\ main' = main /\ leaves' = leaves /\ updates' = updates /\ UNCHANGED workers
  BY Zenon DEF ProcessJoin, JoinRaises, JoinsDone, allocating, queues
<1>3. event' \in EventStates
  <2>1. CASE ProcessJoin
    <3>1. event' \in {"manual", "joins", event}
      BY <2>1 DEF ProcessJoin
    <3> QED BY <1>1, <3>1 DEF EventStates
  <2>2. CASE JoinRaises
    BY <2>2, Zenon DEF JoinRaises, EventStates
  <2>3. CASE JoinsDone
    <3>1. event' = "boot" \/ event' = "loop"
      BY <2>3, Zenon DEF JoinsDone
    <3> QED BY <3>1, Zenon DEF EventStates
  <2> QED BY <2>1, <2>2, <2>3
<1>4. CASE JoinsDone
  <2>1. alloc' = alloc /\ boot' = boot /\ joins' = joins
    BY <1>4, Zenon DEF JoinsDone, allocating, queues
  <2>2. Grown(alloc, alloc')
    BY <2>1 DEF Grown
  <2>3. Books(alloc') /\ boot' \in BOOLEAN /\ FreshJoins(alloc'.entry, joins')
    BY <1>1, <2>1
  <2>4. MeshInv'
    BY <1>1, <1>2, <1>3, <2>3, Installed, Zenon
  <2> QED BY <2>1, <2>2, <2>4, Zenon
<1>5. CASE ProcessJoin \/ JoinRaises
  <2>1. PICK j : j = Head(joins)
    OBVIOUS
  <2>2. PICK s : s = Joined(alloc, boot, j)
    OBVIOUS
  <2>3. joins # <<>> /\ joins' = Tail(joins) /\ alloc' = s.a /\ boot' = s.boot
    BY <1>5, <2>1, <2>2, Zenon DEF ProcessJoin, JoinRaises, Install
  <2>4. alloc.entry \in [Node -> {"none", "listed"}]
    BY <1>1, AllocTypes DEF Books
  <2>5. /\ j \in JoinEntry /\ alloc.entry[j.id] = "none"
        /\ FreshJoins([alloc.entry EXCEPT ![j.id] = "listed"], joins')
    BY <1>1, <2>1, <2>3, <2>4, RestOfJoins
  <2>6. /\ Books(s.a) /\ s.boot \in BOOLEAN /\ s.a.entry = [alloc.entry EXCEPT ![j.id] = "listed"]
        /\ Grown(alloc, s.a) /\ (~j.obj.manual => s.boot = boot)
    BY <1>1, <2>2, <2>5, JoinedBooks, Zenon
  <2>7. Books(alloc') /\ boot' \in BOOLEAN /\ FreshJoins(alloc'.entry, joins')
    BY <2>3, <2>5, <2>6, Zenon
  <2>8. MeshInv'
    BY <1>1, <1>2, <1>3, <2>7, Installed, Zenon
  <2> QED BY <2>1, <2>3, <2>5, <2>6, <2>8, Zenon
<1> QED BY <1>4, <1>5

(* A departure or an eviction.                                             *)
LEMMA LeaveSteps ==
  ASSUME MeshInv, NodesHold, NEW n \in Node,
         \/ ProcessLeave /\ n = Head(leaves).id
         \/ HeartbeatTimeout(n)
         \/ SilentTimeout(n)
  PROVE  MeshInv'
<1>1. SchedulerInOrder
  BY DEF MeshInv
<1>2. /\ Books(alloc) /\ boot \in BOOLEAN /\ main \in {"waiting", "done"}
      /\ FreshJoins(alloc.entry, joins) /\ leaves \in Seq(LeaveEntry) /\ updates \in Seq(UpdateEntry)
  BY <1>1 DEF SchedulerInOrder
<1>3. alloc.entry \in [Node -> {"none", "listed"}]
  BY <1>2, AllocTypes DEF Books
<1>4. ASSUME alloc.entry[n] = "listed", NEW o \in LeaveOutcomes(alloc, boot, n), Install(o)
      PROVE  /\ Books(alloc') /\ boot' \in BOOLEAN
             /\ alloc'.entry = [alloc.entry EXCEPT ![n] = "none"]
  <2>1. Outcome(o) /\ o.a.entry = [alloc.entry EXCEPT ![n] = "none"]
    <3>1. PICK a : a = alloc
      OBVIOUS
    <3>2. PICK b \in BOOLEAN : b = boot
      BY <1>2
    <3>3. Books(a) /\ a.entry[n] = "listed" /\ o \in LeaveOutcomes(a, b, n)
      BY <1>2, <1>4, <3>1, <3>2
    <3>4. Outcome(o) /\ o.a.entry = [a.entry EXCEPT ![n] = "none"]
      BY <3>3, LeaveOutcomesBooks, Zenon
    <3> QED BY <3>1, <3>4
  <2> QED BY <1>4, <2>1 DEF Install, Outcome
<1>5. /\ Books(alloc') /\ boot' \in BOOLEAN
      /\ alloc'.entry = alloc.entry \/ alloc'.entry = [alloc.entry EXCEPT ![n] = "none"]
  <2>1. CASE ProcessLeave /\ n = Head(leaves).id
    <3>1. CASE n \in Registered(alloc)
      <4>1. alloc.entry[n] = "listed"
        BY <1>2, <3>1, EntryKinds
      <4>2. PICK o \in LeaveOutcomes(alloc, boot, n) : Install(o)
        BY <2>1, <3>1, Zenon DEF ProcessLeave
      <4> QED BY <1>4, <4>1, <4>2, Zenon
    <3>2. CASE n \notin Registered(alloc)
      BY <1>2, <2>1, <3>2, Zenon DEF ProcessLeave
    <3> QED BY <3>1, <3>2
  <2>2. CASE HeartbeatTimeout(n) \/ SilentTimeout(n)
    <3>1. n \in Listed(alloc)
      BY <2>2, Zenon DEF HeartbeatTimeout, SilentTimeout, Overdue
    <3>2. alloc.entry[n] = "listed"
      BY <1>2, <3>1, EntryKinds
    <3>3. PICK o \in LeaveOutcomes(alloc, boot, n) : Install(o)
      BY <2>2, Zenon DEF HeartbeatTimeout, SilentTimeout
    <3> QED BY <1>4, <3>2, <3>3, Zenon
  <2> QED BY <2>1, <2>2
<1>6. /\ node' = node /\ told' = told /\ rejoining' = rejoining /\ main' = main
      /\ event' = "loop" /\ joins' = joins /\ updates' = updates
  BY Zenon DEF ProcessLeave, HeartbeatTimeout, SilentTimeout, Overdue, queues, workers
<1>7. leaves' \in Seq(LeaveEntry)
  <2>1. CASE ProcessLeave
    <3>1. leaves # <<>> /\ leaves' = Tail(leaves)
      BY <2>1, Zenon DEF ProcessLeave
    <3> QED BY <1>2, <3>1, HeadTailProperties
  <2>2. CASE HeartbeatTimeout(n) \/ SilentTimeout(n)
    <3>1. leaves' = leaves
      BY <2>2, Zenon DEF HeartbeatTimeout, SilentTimeout, queues
    <3> QED BY <1>2, <3>1
  <2> QED BY <2>1, <2>2
<1>8. FreshJoins(alloc'.entry, joins')
  <2>1. PICK new : new = alloc'.entry
    OBVIOUS
  <2>2. PICK old \in [Node -> {"none", "listed"}] : old = alloc.entry
    BY <1>3
  <2>3. new = old \/ new = [old EXCEPT ![n] = "none"]
    BY <1>5, <2>1, <2>2
  <2>4. FreshJoins(old, joins)
    BY <1>2, <2>2
  <2>5. FreshJoins(new, joins)
    BY <2>3, <2>4, FewerKnown
  <2> QED BY <1>6, <2>1, <2>5
<1>9. WorkersInOrder'
  BY <1>6 DEF MeshInv, WorkersInOrder
<1>10. SchedulerInOrder'
  BY <1>2, <1>5, <1>6, <1>7, <1>8 DEF SchedulerInOrder, EventStates
<1> QED BY <1>9, <1>10, Zenon DEF MeshInv

(* The bootstraps of the event thread and of the main thread, and the      *)
(* steps that change no books.                                             *)
LEMMA BootSteps ==
  ASSUME MeshInv, NodesHold, Orderly,
         \/ EventBoots \/ EventPlans \/ EventApplies
         \/ MainBoots \/ MainPlans \/ MainApplies \/ MainSeesBoot
         \/ DispatchDp \/ DispatchRr
  PROVE  MeshInv'
<1>1. SchedulerInOrder
  BY DEF MeshInv
<1>2. /\ Books(alloc) /\ boot \in BOOLEAN /\ main \in {"waiting", "done"} /\ event \in EventStates
      /\ FreshJoins(alloc.entry, joins) /\ leaves \in Seq(LeaveEntry) /\ updates \in Seq(UpdateEntry)
  BY <1>1 DEF SchedulerInOrder
<1>3. PICK o : o = Bootstrap(alloc)
  OBVIOUS
<1>4. o.boot \in BOOLEAN /\ Books(o.a) /\ o.a.entry = alloc.entry
  BY <1>2, <1>3, BootstrapBooks, Zenon DEF Outcome, Kept
<1>5. ~MainPlans /\ ~MainApplies /\ ~EventPlans /\ ~EventApplies
  BY <1>2 DEF MainPlans, MainApplies, EventPlans, EventApplies, Orderly, EventStates
<1>6. CASE EventBoots
  <2>1. PICK t \in BOOLEAN : t = (boot \/ o.boot)
    BY Zenon
  <2>2. alloc' = [o EXCEPT !.boot = boot \/ @].a /\ boot' = [o EXCEPT !.boot = boot \/ @].boot
    BY <1>3, <1>6, Zenon DEF EventBoots, Install
  <2>3. o.boot \in BOOLEAN /\ DOMAIN o = {"a", "boot"}
    <3>1. o = [a |-> ApplyPlan(alloc, BestPlan(alloc)),
               boot |-> BestPlan(alloc) # <<>> /\ has_full_pipeline(ApplyPlan(alloc, BestPlan(alloc)))]
      BY <1>3, Zenon DEF Bootstrap, Booted, Checked
    <3>2. PICK x, y : o = [a |-> x, boot |-> y]
      BY <3>1, Zenon
    <3> QED BY <1>4, <3>2
  <2>4. alloc' = o.a /\ boot' \in BOOLEAN
    BY <1>2, <2>2, <2>3
  <2>5. /\ event' = "loop" /\ main' = main /\ joins' = joins /\ leaves' = leaves /\ updates' = updates
        /\ UNCHANGED workers
    BY <1>6 DEF EventBoots, queues
  <2>6. Books(alloc') /\ FreshJoins(alloc'.entry, joins')
    BY <1>2, <1>4, <2>4, <2>5
  <2>7. event' \in EventStates
    BY <2>5 DEF EventStates
  <2> QED BY <1>2, <2>4, <2>5, <2>6, <2>7, Installed, Zenon
<1>7. CASE MainBoots
  <2>1. alloc' = o.a /\ boot' = o.boot /\ main' \in {"waiting", "done"} /\ event' = event
        /\ joins' = joins /\ leaves' = leaves /\ updates' = updates /\ UNCHANGED workers
    BY <1>3, <1>7 DEF MainBoots, Install, queues
  <2>2. Books(alloc') /\ boot' \in BOOLEAN /\ FreshJoins(alloc'.entry, joins')
    BY <1>2, <1>4, <2>1
  <2> QED BY <1>2, <2>1, <2>2, Installed, Zenon
<1>8. CASE MainSeesBoot \/ DispatchDp \/ DispatchRr
  <2>1. alloc' = alloc /\ boot' = boot /\ main' \in {"waiting", "done"} /\ event' = event
        /\ joins' = joins /\ leaves' = leaves /\ updates' = updates /\ UNCHANGED workers
    BY <1>2, <1>8 DEF MainSeesBoot, DispatchDp, DispatchRr, allocating, queues
  <2>2. Books(alloc') /\ boot' \in BOOLEAN /\ FreshJoins(alloc'.entry, joins')
    BY <1>2, <2>1
  <2> QED BY <1>2, <2>1, <2>2, Installed, Zenon
<1> QED BY <1>5, <1>6, <1>7, <1>8

(* A pipeline stands while the scheduler counts as bootstrapped, unless the *)
(* last node has just left.                                                *)
LEMMA PipelineStands ==
  ASSUME MeshInv, NodesHold, Orderly, NoneManual, boot => has_full_pipeline(alloc), [Next]_vars
  PROVE  boot' => has_full_pipeline(alloc') \/ alloc'.nodes = <<>>
<1>1. /\ Books(alloc) /\ boot \in BOOLEAN /\ main \in {"waiting", "done"} /\ event \in EventStates
      /\ FreshJoins(alloc.entry, joins) /\ leaves \in Seq(LeaveEntry)
  BY Zenon DEF MeshInv, SchedulerInOrder
<1>2. CASE alloc' = alloc /\ boot' = boot
  BY <1>2
<1>3. CASE UNCHANGED vars
  BY <1>2, <1>3, Zenon DEF vars
<1>4. ASSUME NEW n \in Node,
             \/ Start(n) \/ JoinAnswered(n) \/ JoinGivesUp(n) \/ Loaded(n) \/ Update(n)
             \/ Rejoin(n) \/ RejoinAnswered(n) \/ Crash(n) \/ Leave(n)
      PROVE  alloc' = alloc /\ boot' = boot
  BY <1>4, Zenon DEF Start, JoinAnswered, JoinGivesUp, Loaded, Update, Rejoin, RejoinAnswered, Crash,
              Leave, Stop, allocating
<1>5. ASSUME NEW n \in Node, n \in Registered(alloc) \/ n \in Listed(alloc),
             NEW o \in LeaveOutcomes(alloc, boot, n), Install(o)
      PROVE  boot' => has_full_pipeline(alloc') \/ alloc'.nodes = <<>>
  <2>1. alloc.entry[n] = "listed"
    BY <1>1, <1>5, EntryKinds
  <2>2. Serving(o)
    <3>1. PICK a : a = alloc
      OBVIOUS
    <3>2. PICK b \in BOOLEAN : b = boot
      BY <1>1
    <3>3. Books(a) /\ a.entry[n] = "listed" /\ o \in LeaveOutcomes(a, b, n)
      BY <1>1, <1>5, <2>1, <3>1, <3>2
    <3> QED BY <3>3, LeaveOutcomesBooks, Zenon
  <2> QED BY <1>5, <2>2, Zenon DEF Install, Serving
<1>6. ASSUME NEW n \in Node, HeartbeatTimeout(n) \/ SilentTimeout(n)
      PROVE  boot' => has_full_pipeline(alloc') \/ alloc'.nodes = <<>>
  <2>1. n \in Listed(alloc)
    BY <1>6, Zenon DEF HeartbeatTimeout, SilentTimeout, Overdue
  <2>2. PICK o \in LeaveOutcomes(alloc, boot, n) : Install(o)
    BY <1>6, Zenon DEF HeartbeatTimeout, SilentTimeout
  <2> QED BY <1>5, <2>1, <2>2, Zenon
<1>7. CASE ProcessLeave
  <2>1. leaves # <<>>
    BY <1>7, Zenon DEF ProcessLeave
  <2>2. Head(leaves) \in LeaveEntry
    BY <1>1, <2>1, HeadTailProperties
  <2>3. PICK n \in Node : n = Head(leaves).id
    BY <2>2 DEF LeaveEntry
  <2>4. CASE n \in Registered(alloc)
    <3>1. PICK o \in LeaveOutcomes(alloc, boot, n) : Install(o)
      BY <1>7, <2>3, <2>4, Zenon DEF ProcessLeave
    <3> QED BY <1>5, <2>4, <3>1, Zenon
  <2>5. CASE n \notin Registered(alloc)
    BY <1>2, <1>7, <2>3, <2>5, Zenon DEF ProcessLeave
  <2> QED BY <2>4, <2>5
<1>8. CASE ProcessUpdate
  <2>1. alloc'.allocation = alloc.allocation /\ boot' = boot /\ Books(alloc')
    BY <1>8, UpdateStep, Zenon DEF MeshInv, SchedulerInOrder
  <2>2. has_full_pipeline(alloc) <=> Piped(alloc.allocation)
    BY <1>1, PipelineReached
  <2>3. has_full_pipeline(alloc') <=> Piped(alloc'.allocation)
    BY <2>1, PipelineReached
  <2> QED BY <2>1, <2>2, <2>3
<1>9. CASE ProcessJoin \/ JoinRaises \/ JoinsDone
  <2>1. MeshInv' /\ Grown(alloc, alloc')
    BY <1>9, JoinSteps, Zenon
  <2>2. boot' = boot
    <3>1. SUFFICES ASSUME boot' # boot PROVE FALSE
      OBVIOUS
    <3>2. Head(joins) \in JoinEntry /\ Head(joins).obj.manual
      BY <1>9, <3>1, JoinSteps, Zenon
    <3>3. Head(joins).obj.manual \in Manuals
      BY <3>2 DEF JoinEntry, Obj
    <3> QED BY <3>2, <3>3 DEF Manuals
  <2>3. Books(alloc')
    BY <2>1, Zenon DEF MeshInv, SchedulerInOrder
  <2>4. ASSUME boot PROVE has_full_pipeline(alloc')
    <3>1. Piped(alloc.allocation)
      BY <1>1, <2>4, PipelineReached
    <3>2. Piped(alloc'.allocation)
      BY <2>1, <2>3, <3>1, PipedGrows DEF Grown
    <3> QED BY <2>3, <3>2, PipelineReached
  <2> QED BY <2>2, <2>4
<1>10. PICK o : o = Bootstrap(alloc)
  OBVIOUS
<1>11. /\ o.boot \in BOOLEAN /\ (o.boot => has_full_pipeline(o.a))
       /\ has_full_pipeline(alloc) => has_full_pipeline(o.a)
  BY <1>1, <1>10, BootstrapBooks, Zenon DEF Outcome
<1>12. CASE EventBoots
  <2>1. alloc' = [o EXCEPT !.boot = boot \/ @].a /\ boot' = [o EXCEPT !.boot = boot \/ @].boot
    BY <1>10, <1>12, Zenon DEF EventBoots, Install
  <2>2. PICK x, y : o = [a |-> x, boot |-> y]
    BY <1>10, Zenon DEF Bootstrap, Booted, Checked
  <2>3. alloc' = o.a /\ boot' = (boot \/ o.boot)
    BY <1>1, <1>11, <2>1, <2>2
  <2> QED BY <1>11, <2>3, Zenon
<1>13. CASE MainBoots
  BY <1>10, <1>11, <1>13, Zenon DEF MainBoots, Install
<1>14. ~MainPlans /\ ~MainApplies /\ ~EventPlans /\ ~EventApplies
  BY <1>1 DEF MainPlans, MainApplies, EventPlans, EventApplies, Orderly, EventStates
<1>15. CASE MainSeesBoot \/ DispatchDp \/ DispatchRr
  BY <1>2, <1>15, Zenon DEF MainSeesBoot, DispatchDp, DispatchRr, allocating
<1> QED BY <1>2, <1>3, <1>4, <1>6, <1>7, <1>8, <1>9, <1>12, <1>13, <1>14, <1>15, Zenon DEF Next

LEMMA MeshNext ==
  ASSUME MeshInv, NodesHold, Orderly, [Next]_vars
  PROVE  MeshInv'
<1>1. CASE UNCHANGED vars
  <2>1. /\ alloc' = alloc /\ boot' = boot /\ main' = main /\ event' = event /\ joins' = joins
        /\ leaves' = leaves /\ updates' = updates /\ node' = node /\ told' = told /\ rejoining' = rejoining
    BY <1>1 DEF vars
  <2>2. SchedulerInOrder' /\ WorkersInOrder'
    BY <2>1 DEF MeshInv, SchedulerInOrder, WorkersInOrder
  <2> QED BY <2>2, Zenon DEF MeshInv
<1>2. ASSUME NEW n \in Node,
             \/ Start(n) \/ JoinAnswered(n) \/ JoinGivesUp(n) \/ Loaded(n) \/ Update(n)
             \/ Rejoin(n) \/ RejoinAnswered(n) \/ Crash(n) \/ Leave(n)
      PROVE  MeshInv'
  BY <1>2, WorkerSteps, Zenon
<1>3. ASSUME NEW n \in Node, HeartbeatTimeout(n) \/ SilentTimeout(n)
      PROVE  MeshInv'
  BY <1>3, LeaveSteps, Zenon
<1>4. CASE ProcessLeave
  <2>1. leaves \in Seq(LeaveEntry) /\ leaves # <<>>
    BY <1>4, Zenon DEF MeshInv, SchedulerInOrder, ProcessLeave
  <2>0. Head(leaves) \in LeaveEntry
    BY <2>1, HeadTailProperties
  <2>2. PICK n \in Node : n = Head(leaves).id
    BY <2>0 DEF LeaveEntry
  <2> QED BY <1>4, <2>2, LeaveSteps, Zenon
<1>5. CASE ProcessUpdate
  BY <1>5, UpdateStep, Zenon
<1>6. CASE ProcessJoin \/ JoinRaises \/ JoinsDone
  BY <1>6, JoinSteps, Zenon
<1>7. CASE \/ EventBoots \/ EventPlans \/ EventApplies
           \/ MainBoots \/ MainPlans \/ MainApplies \/ MainSeesBoot
           \/ DispatchDp \/ DispatchRr
  BY <1>7, BootSteps, Zenon
<1> QED BY <1>1, <1>2, <1>3, <1>4, <1>5, <1>6, <1>7, Zenon DEF Next
-----------------------------------------------------------------------------
(* What dynamic-programming routing returns.                               *)

(* The arithmetic of latencies, of which Inf is the largest.               *)
LEMMA CostFacts ==
  /\ \A x, y \in Cost : Plus(x, y) \in Cost
  /\ \A x \in Cost : ~Less(x, x) /\ ~Less(Inf, x) /\ (~Less(x, Inf) => x = Inf)
  /\ \A x, y, z \in Cost : ~Less(x, y) /\ ~Less(y, z) => ~Less(x, z)
  /\ \A x, y, z \in Cost : ~Less(x, y) => ~Less(Plus(x, z), Plus(y, z))
<1>1. \A x, y \in Cost : Plus(x, y) \in Cost
  BY DEF Cost, Inf, Plus
<1>2. \A x \in Cost : ~Less(x, x) /\ ~Less(Inf, x) /\ (~Less(x, Inf) => x = Inf)
  BY DEF Cost, Inf, Less
<1>3. \A x, y, z \in Cost : ~Less(x, y) /\ ~Less(y, z) => ~Less(x, z)
  BY DEF Cost, Inf, Less
<1>4. \A x, y, z \in Cost : ~Less(x, y) => ~Less(Plus(x, z), Plus(y, z))
  BY DEF Cost, Inf, Less, Plus
<1> QED BY <1>1, <1>2, <1>3, <1>4

LEMMA LatencyFacts ==
  ASSUME NEW c \in Latencies, NEW m \in Node, NEW n \in Node
  PROVE  c.layer[n] \in Cost /\ c.rtt[m][n] \in Cost
<1>1. c.layer \in [Node -> Cost] /\ c.rtt[m] \in [Node -> Cost]
  BY LatencyAssumption
<1> QED BY <1>1

(* Among entries there is a cheapest one.                                  *)
LEMMA CheapestIn ==
  ASSUME NEW E, E # {}, \A e \in E : e.cost \in Cost
  PROVE  Cheapest(E) \in E /\ \A f \in E : ~Less(f.cost, Cheapest(E).cost)
<1>1. \E e \in E : \A f \in E : ~Less(f.cost, e.cost)
  <2>1. CASE \A e \in E : e.cost = Inf
    BY <2>1 DEF Less
  <2>2. CASE \E e \in E : e.cost # Inf
    <3>1. PICK T : T = {e.cost : e \in {x \in E : x.cost # Inf}}
      OBVIOUS
    <3>2. T \in SUBSET Nat /\ T # {}
      BY <2>2, <3>1 DEF Cost
    <3>3. PICK t \in T : \A u \in T : t <= u
      BY <3>2, LeastElement
    <3>4. PICK e \in E : e.cost = t /\ e.cost # Inf
      BY <3>1, <3>3
    <3>5. ASSUME NEW f \in E PROVE ~Less(f.cost, e.cost)
      <4>1. CASE f.cost = Inf
        BY <4>1 DEF Less
      <4>2. CASE f.cost # Inf
        <5>1. f.cost \in T /\ t \in Nat
          BY <3>1, <3>2, <3>3, <4>2
        <5>2. f.cost \in Nat /\ t <= f.cost
          BY <3>2, <3>3, <5>1
        <5> QED BY <3>4, <5>1, <5>2 DEF Less
      <4> QED BY <4>1, <4>2
    <3> QED BY <3>4, <3>5
  <2> QED BY <2>1, <2>2
<1> QED BY <1>1 DEF Cheapest

(* The nodes that routing goes by have their ranges in the books.          *)
LEMMA RangedFacts ==
  ASSUME NEW a, Books(a), NEW n, n \in Ranged(a)
  PROVE  /\ n \in Node /\ HasRange(a, n) /\ RangeIn(a, n) \in Span
         /\ RangeIn(a, n)[1] \in Layer /\ RangeIn(a, n)[2] \in 1..NumLayers
         /\ RangeIn(a, n)[1] < RangeIn(a, n)[2]
<1>1. n \in Node /\ HasRange(a, n)
  BY DEF Ranged
<1>2. a.objs[n].listed.range \in Ranges
  BY <1>1, AllocTypes DEF Books
<1>3. RangeIn(a, n) \in Span
  BY <1>1, <1>2, Zenon DEF HasRange, RangeIn, Ranges
<1> QED BY <1>1, <1>3, SpanFacts

RelaxOne(ctx, best, l) == Relaxed(ctx[1], ctx[2], best, l)
Relax == INSTANCE FoldLemmas WITH Op <- RelaxOne

LEMMA RelaxFolds ==
  ASSUME NEW x
  PROVE  Relaxations(x[1], x[2]) = Relax!Fold(x, Heads(x[1], x[2]), [k \in 1..NumLayers |-> k - 1])
BY Zenon DEF Relaxations, Relax!Fold, RelaxOne, FoldLeft, MapThenFoldSet, Relax!MapThenFoldSet, Max,
             Relax!Max

\* The steps of f after lo and up to hi leave n alone.
Rests(f, lo, hi, n) == \A k \in Nat : lo < k /\ k <= hi => f[k][n] = f[k - 1][n]

(* What does not change from step to step does not change.                 *)
LEMMA Unchanged ==
  ASSUME NEW f, NEW lo \in Nat, NEW hi \in Nat, NEW n, Rests(f, lo, hi, n)
  PROVE  \A k \in Nat : lo <= k /\ k <= hi => f[k][n] = f[lo][n]
<1> DEFINE T == {k \in Nat : lo <= k /\ k <= hi /\ f[k][n] # f[lo][n]}
<1> SUFFICES ASSUME T # {} PROVE FALSE
  OBVIOUS
<1>1. T \in SUBSET Nat
  OBVIOUS
<1>2. PICK k \in T : \A j \in T : k <= j
  BY <1>1, LeastElement
<1>3. k \in Nat /\ lo <= k /\ k <= hi /\ k # lo /\ f[k][n] # f[lo][n]
  BY <1>2
<1>4. lo < k /\ k - 1 \in Nat /\ lo <= k - 1 /\ k - 1 <= hi /\ ~(k <= k - 1)
  BY <1>3
<1>5. k - 1 \notin T
  <2> HIDE DEF T
  <2> QED BY <1>2, <1>4
<1> QED BY <1>3, <1>4, <1>5 DEF Rests

\* The entries among which that of a node n with a range is the cheapest.
Ways(a, c, best, n) ==
  {Heads(a, c)[n]} \cup
    {Extended(c, best[j], j, n) : j \in Reached(a, best, RangeIn(a, n)[1])}

(* The relaxation ends in a fixed point: an entry is settled before any    *)
(* that it is extended to is computed.                                     *)
LEMMA RelaxationsSettled ==
  ASSUME NEW a, Books(a), NEW c, NEW best, best = Relaxations(a, c), NEW n \in Node
  PROVE  best[n] = IF n \in Ranged(a) THEN Cheapest(Ways(a, c, best, n)) ELSE Heads(a, c)[n]
<1>0. PICK N \in Nat \ {0} : N = NumLayers
  BY SpanFacts
<1>1. PICK heads : heads = Heads(a, c)
  OBVIOUS
<1>2. PICK seq : seq = [k \in 1..N |-> k - 1]
  OBVIOUS
<1>3. seq \in Seq(Nat) /\ Len(seq) = N
  BY <1>0, <1>2
<1>4. PICK x : x = <<a, c>>
  OBVIOUS
<1>5. x[1] = a /\ x[2] = c
  BY <1>4
<1>6. best = Relax!Fold(x, heads, seq)
  BY <1>0, <1>1, <1>2, <1>5, RelaxFolds
<1>7. PICK f : Relax!Run(f, x, heads, seq)
  BY <1>3, LeastElement, Relax!FoldLeftSteps DEF Relax!WellOrdered
<1>8. /\ f[0] = heads /\ f[N] = best
      /\ \A k \in 1..N : f[k] = Relaxed(a, c, f[k - 1], k - 1)
  <2>1. /\ f[0] = heads /\ f[N] = best
        /\ \A k \in 1..N : f[k] = RelaxOne(x, f[k - 1], seq[k])
    BY <1>3, <1>6, <1>7 DEF Relax!Run
  <2> QED BY <1>2, <1>5, <2>1 DEF RelaxOne
<1>9. ASSUME NEW m \in Node, NEW k \in 1..N
      PROVE  f[k][m] = IF m \in Ranged(a) /\ RangeIn(a, m)[1] = k - 1
                       THEN Cheapest({f[k - 1][m]} \cup
                              {Extended(c, f[k - 1][j], j, m) : j \in Reached(a, f[k - 1], k - 1)})
                       ELSE f[k - 1][m]
  <2>1. m \in Ranged(a) <=> HasRange(a, m)
    BY DEF Ranged
  <2>2. PICK g : g = f[k - 1]
    OBVIOUS
  <2>3. PICK l : l = k - 1
    OBVIOUS
  <2>4. f[k] = Relaxed(a, c, g, l)
    BY <1>8, <2>2, <2>3
  <2>5. f[k][m] = IF HasRange(a, m) /\ RangeIn(a, m)[1] = l
                  THEN Cheapest({g[m]} \cup {Extended(c, g[j], j, m) : j \in Reached(a, g, l)})
                  ELSE g[m]
    BY <2>4 DEF Relaxed
  <2> QED BY <2>1, <2>2, <2>3, <2>5, Zenon
<1>10. CASE n \notin Ranged(a)
  <2>1. Rests(f, 0, N, n)
    <3>1. ASSUME NEW k \in Nat, 0 < k /\ k <= N PROVE f[k][n] = f[k - 1][n]
      <4>1. k \in 1..N
        BY <1>0, <3>1
      <4> QED BY <1>9, <1>10, <4>1
    <3> QED BY <3>1 DEF Rests
  <2>2. 0 \in Nat /\ N \in Nat /\ 0 <= N /\ N <= N
    BY <1>0
  <2>3. f[N][n] = f[0][n]
    BY <2>1, <2>2, Unchanged
  <2> QED BY <1>1, <1>8, <1>10, <2>3
<1>11. ASSUME NEW m \in Ranged(a), NEW s, s = RangeIn(a, m)[1]
       PROVE  /\ s \in 0 .. N - 1 /\ f[s][m] = heads[m]
              /\ \A k \in s + 1 .. N : f[k][m] = best[m]
  <2>1. m \in Node /\ s \in 0 .. N - 1
    BY <1>0, <1>11, RangedFacts DEF Layer
  <2>2. \A k \in 1..N : k - 1 # s => f[k][m] = f[k - 1][m]
    BY <1>9, <1>11, <2>1
  <2>3. f[s][m] = f[0][m]
    <3>1. ASSUME NEW k \in Nat, 0 < k /\ k <= s PROVE f[k][m] = f[k - 1][m]
      <4>1. k \in 1..N /\ k - 1 # s
        BY <1>0, <2>1, <3>1
      <4> QED BY <2>2, <4>1
    <3>2. 0 \in Nat /\ s \in Nat /\ 0 <= s /\ s <= s
      BY <2>1
    <3>3. Rests(f, 0, s, m)
      BY <3>1 DEF Rests
    <3> QED BY <3>2, <3>3, Unchanged
  <2>4. \A k \in s + 1 .. N : f[k][m] = f[s + 1][m]
    <3>0. PICK lo \in Nat : lo = s + 1
      BY <2>1
    <3>1. ASSUME NEW k \in Nat, lo < k /\ k <= N PROVE f[k][m] = f[k - 1][m]
      <4>1. k \in 1..N /\ k - 1 # s
        BY <1>0, <2>1, <3>0, <3>1
      <4> QED BY <2>2, <4>1
    <3>2. N \in Nat /\ \A k \in lo .. N : k \in Nat /\ lo <= k /\ k <= N
      BY <1>0
    <3>3. \A k \in Nat : lo <= k /\ k <= N => f[k][m] = f[lo][m]
      <4>1. Rests(f, lo, N, m)
        BY <3>1 DEF Rests
      <4> QED BY <3>2, <4>1, Unchanged
    <3> QED BY <3>0, <3>2, <3>3
  <2>5. N \in s + 1 .. N
    BY <1>0, <2>1
  <2> QED BY <1>8, <2>1, <2>3, <2>4, <2>5
<1>12. CASE n \in Ranged(a)
  <2>1. PICK s : s = RangeIn(a, n)[1]
    OBVIOUS
  <2>2. /\ s \in 0 .. N - 1 /\ f[s][n] = heads[n]
        /\ \A k \in s + 1 .. N : f[k][n] = best[n]
    BY <1>11, <1>12, <2>1
  <2>3. s + 1 \in 1..N /\ s + 1 \in s + 1 .. N /\ (s + 1) - 1 = s
    BY <1>0, <2>2
  <2>4. best[n] = Cheapest({heads[n]} \cup {Extended(c, f[s][j], j, n) : j \in Reached(a, f[s], s)})
    BY <1>9, <1>12, <2>1, <2>2, <2>3
  <2>5. ASSUME NEW j \in Active(a), RangeIn(a, j)[2] = s PROVE f[s][j] = best[j]
    <3>1. j \in Ranged(a)
      BY DEF Active
    <3>2. PICK t : t = RangeIn(a, j)[1]
      OBVIOUS
    <3>3. t \in Nat /\ t < s
      BY <2>5, <3>1, <3>2, RangedFacts DEF Layer
    <3>4. s \in t + 1 .. N
      BY <1>0, <2>2, <3>3
    <3> QED BY <1>11, <3>1, <3>2, <3>4
  <2>6. Reached(a, f[s], s) = Reached(a, best, s)
    BY <2>5 DEF Reached
  <2>7. \A j \in Reached(a, best, s) : f[s][j] = best[j]
    BY <2>5 DEF Reached
  <2>8. {Extended(c, f[s][j], j, n) : j \in Reached(a, f[s], s)}
          = {Extended(c, best[j], j, n) : j \in Reached(a, best, s)}
    BY <2>6, <2>7
  <2> QED BY <1>1, <1>12, <2>1, <2>4, <2>8 DEF Ways
<1> QED BY <1>10, <1>12
(* The chains of adjacent ranges.                                          *)

\* One unfolding of the recursion of Chains.
ChainsFrom(a, S, g, k) ==
  IF k = NumLayers THEN {<<>>}
  ELSE UNION {{<<n>> \o c : c \in g[RangeIn(a, n)[2]]} :
                n \in {m \in S : RangeIn(a, m)[1] = k}}

\* c runs through adjacent ranges from layer k to the last.
Runs(a, c, S, k) ==
  /\ c \in Seq(S)
  /\ IF c = <<>> THEN k = NumLayers
     ELSE /\ RangeIn(a, c[1])[1] = k /\ RangeIn(a, c[Len(c)])[2] = NumLayers
          /\ \A i \in 1 .. Len(c) - 1 : RangeIn(a, c[i])[2] = RangeIn(a, c[i + 1])[1]

LEMMA ChainsAgree ==
  ASSUME NEW a, NEW S, \A n \in S : RangeIn(a, n) \in Span, NEW g, NEW h, NEW k \in 0..NumLayers,
         \A j \in 0..NumLayers : j > k => g[j] = h[j]
  PROVE  ChainsFrom(a, S, g, k) = ChainsFrom(a, S, h, k)
<1>1. CASE k = NumLayers
  BY <1>1 DEF ChainsFrom
<1>2. CASE k # NumLayers
  <2>1. PICK M : M = {m \in S : RangeIn(a, m)[1] = k}
    OBVIOUS
  <2>2. ASSUME NEW n \in M PROVE g[RangeIn(a, n)[2]] = h[RangeIn(a, n)[2]]
    <3>1. PICK r \in Span : r = RangeIn(a, n)
      BY <2>1
    <3>2. r[1] = k /\ r[1] < r[2] /\ r[2] \in 0..NumLayers
      BY <2>1, <3>1, SpanFacts
    <3> QED BY <3>1, <3>2
  <2> DEFINE G(n) == {<<n>> \o c : c \in g[RangeIn(a, n)[2]]}
             H(n) == {<<n>> \o c : c \in h[RangeIn(a, n)[2]]}
  <2>3. ChainsFrom(a, S, g, k) = UNION {G(n) : n \in M}
    BY <1>2, <2>1 DEF ChainsFrom
  <2>4. ChainsFrom(a, S, h, k) = UNION {H(n) : n \in M}
    BY <1>2, <2>1 DEF ChainsFrom
  <2>5. \A n \in M : G(n) = H(n)
    BY <2>2
  <2> HIDE DEF G, H
  <2>6. UNION {G(n) : n \in M} = UNION {H(n) : n \in M}
    BY <2>5
  <2> QED BY <2>3, <2>4, <2>6
<1> QED BY <1>1, <1>2

(* The recursion has a solution.                                           *)
LEMMA ChainsExist ==
  ASSUME NEW a, NEW S, \A n \in S : RangeIn(a, n) \in Span
  PROVE  \E g : g = [k \in 0..NumLayers |-> ChainsFrom(a, S, g, k)]
<1>0. PICK N \in Nat : N = NumLayers
  BY MeshAssumption
<1> DEFINE Solves(g, d) == /\ DOMAIN g = 0..N /\ g = [k \in 0..N |-> g[k]]
                           /\ \A k \in 0..N : k + d >= N => g[k] = ChainsFrom(a, S, g, k)
           T == {d \in Nat : ~ \E g : Solves(g, d)}
<1>1. SUFFICES ASSUME T # {} PROVE FALSE
  <2>1. PICK g : Solves(g, N)
    BY <1>1
  <2>2. \A k \in 0..N : g[k] = ChainsFrom(a, S, g, k)
    <3>1. \A k \in 0..N : k + N >= N
      BY <1>0
    <3> QED BY <2>1, <3>1
  <2> QED BY <1>0, <2>1, <2>2
<1>2. PICK d \in T : \A e \in T : d <= e
  <2>1. T \in SUBSET Nat
    OBVIOUS
  <2> HIDE DEF T
  <2> QED BY <1>1, <2>1, LeastElement
<1>3. d # 0
  <2>1. PICK g : g = [k \in 0..N |-> {<<>>}]
    OBVIOUS
  <2>2. ASSUME NEW k \in 0..N, k + 0 >= N PROVE g[k] = ChainsFrom(a, S, g, k)
    <3>1. k = N
      BY <2>2
    <3> QED BY <1>0, <2>1, <3>1 DEF ChainsFrom
  <2>3. Solves(g, 0)
    BY <2>1, <2>2
  <2> QED BY <2>3
<1>4. d \in Nat /\ d - 1 \in Nat /\ d - 1 \notin T
  <2>1. d \in Nat /\ d - 1 \in Nat /\ ~(d <= d - 1)
    BY <1>2, <1>3
  <2> HIDE DEF T
  <2> QED BY <1>2, <2>1
<1>5. PICK g : Solves(g, d - 1)
  BY <1>4
<1>6. PICK h : h = [k \in 0..N |-> IF k + d = N THEN ChainsFrom(a, S, g, k) ELSE g[k]]
  OBVIOUS
<1>7. ASSUME NEW k \in 0..N, k + d >= N PROVE h[k] = ChainsFrom(a, S, h, k)
  <2>1. \A j \in 0..N : j > k => g[j] = h[j]
    <3>1. \A j \in 0..N : j > k => j + d # N
      BY <1>4, <1>7
    <3> QED BY <1>6, <3>1
  <2>2. ChainsFrom(a, S, g, k) = ChainsFrom(a, S, h, k)
    BY <1>0, <2>1, ChainsAgree
  <2>3. h[k] = ChainsFrom(a, S, g, k)
    <3>1. CASE k + d = N
      BY <1>6, <3>1
    <3>2. CASE k + d # N
      <4>0. \A x, y, z \in Int : x + y >= z /\ x + y # z => x + (y - 1) >= z
        OBVIOUS
      <4>1. k + (d - 1) >= N
        <5>1. k \in Int /\ d \in Int /\ N \in Int
          BY <1>0, <1>4
        <5> HIDE DEF T, Solves
        <5> QED BY <1>7, <3>2, <4>0, <5>1
      <4> QED BY <1>5, <1>6, <3>2, <4>1
    <3> QED BY <3>1, <3>2
  <2> QED BY <2>2, <2>3
<1>8. Solves(h, d)
  BY <1>6, <1>7
<1> QED BY <1>2, <1>8

LEMMA ChainsRun ==
  ASSUME NEW a, NEW S, \A n \in S : RangeIn(a, n) \in Span, NEW c \in Chains(a, S, 0)
  PROVE  Runs(a, c, S, 0)
<1>0. PICK N \in Nat : N = NumLayers
  BY MeshAssumption
<1>1. PICK from : /\ Chains(a, S, 0) = from[0]
                  /\ from = CHOOSE g : g = [k \in 0..NumLayers |-> ChainsFrom(a, S, g, k)]
  BY Zenon DEF Chains, ChainsFrom
<1>2. \E g : g = [k \in 0..NumLayers |-> ChainsFrom(a, S, g, k)]
  BY ChainsExist
<1>3. from = [k \in 0..NumLayers |-> ChainsFrom(a, S, from, k)]
  BY <1>1, <1>2, Zenon
<1>3a. \A k \in 0..NumLayers : from[k] = ChainsFrom(a, S, from, k)
  BY <1>3
<1> DEFINE T == {d \in 0..N : ~ \A e \in from[N - d] : Runs(a, e, S, N - d)}
<1>4. SUFFICES ASSUME T # {} PROVE FALSE
  <2>0. N \notin T
    <3> HIDE DEF T
    <3> QED BY <1>4
  <2>1. N \in 0..N /\ N - N = 0
    OBVIOUS
  <2>2. \A e \in from[N - N] : Runs(a, e, S, N - N)
    BY <2>0, <2>1
  <2> HIDE DEF T
  <2> QED BY <1>1, <2>1, <2>2
<1>5. PICK d \in T : \A e \in T : d <= e
  <2>1. T \in SUBSET Nat
    OBVIOUS
  <2> HIDE DEF T
  <2> QED BY <1>4, <2>1, LeastElement
<1>6. PICK k \in 0..N : k = N - d /\ d \in 0..N
  BY <1>5
<1>7. ASSUME NEW j \in 0..N, j > k PROVE \A e \in from[j] : Runs(a, e, S, j)
  <2>1. N - j \in 0..N /\ ~(d <= N - j) /\ N - (N - j) = j
    BY <1>6, <1>7
  <2>2. N - j \notin T
    <3> HIDE DEF T
    <3> QED BY <1>5, <2>1
  <2> QED BY <2>1, <2>2
<1>8. ASSUME NEW w \in from[k] PROVE Runs(a, w, S, k)
  <2>1. CASE k = N
    <3>1. w = <<>>
      BY <1>0, <1>3a, <2>1 DEF ChainsFrom
    <3>2. w \in Seq(S)
      BY <3>1, EmptySeq
    <3> QED BY <1>0, <2>1, <3>1, <3>2 DEF Runs
  <2>2. CASE k # N
    <3>1. from[k] = UNION {{<<n>> \o e : e \in from[RangeIn(a, n)[2]]} :
                             n \in {m \in S : RangeIn(a, m)[1] = k}}
      BY <1>0, <1>3a, <2>2 DEF ChainsFrom
    <3>2. PICK n \in {m \in S : RangeIn(a, m)[1] = k} :
               w \in {<<n>> \o e : e \in from[RangeIn(a, n)[2]]}
      BY <3>1
    <3>3. PICK r \in Span : r = RangeIn(a, n)
      BY <3>2
    <3>4. n \in S /\ r[1] = k /\ r[2] \in 0..N /\ r[2] > k
      BY <1>0, <3>2, <3>3, SpanFacts
    <3>5. PICK j \in 0..N : j = r[2] /\ j > k
      BY <3>4
    <3>6. PICK e \in from[j] : w = <<n>> \o e
      BY <3>2, <3>3, <3>5
    <3>7. Runs(a, e, S, j)
      BY <1>7, <3>5, <3>6
    <3>8. PICK len \in Nat : len = Len(e) /\ e \in Seq(S)
      BY <3>7, LenProperties DEF Runs
    <3>9. <<n>> \in Seq(S) /\ Len(<<n>>) = 1 /\ <<n>>[1] = n
      BY <3>4
    <3>10. PICK one \in Seq(S) : one = <<n>> /\ Len(one) = 1 /\ one[1] = n
      BY <3>9
    <3>11. /\ w \in Seq(S) /\ Len(w) = 1 + len
           /\ \A i \in 1..(1 + len) : w[i] = IF i <= 1 THEN one[i] ELSE e[i - 1]
      BY <3>6, <3>8, <3>10, ConcatProperties
    <3>12. w[1] = n /\ \A i \in 1..len : w[i + 1] = e[i]
      <4>1. w[1] = n
        BY <3>8, <3>10, <3>11
      <4>2. ASSUME NEW i \in 1..len PROVE w[i + 1] = e[i]
        <5>1. i + 1 \in 1..(1 + len) /\ ~(i + 1 <= 1) /\ (i + 1) - 1 = i
          BY <3>8
        <5> QED BY <3>11, <5>1
      <4> QED BY <4>1, <4>2
    <3>13. w # <<>>
      BY <3>8, <3>11, EmptySeq
    <3>14. RangeIn(a, w[1])[1] = k
      BY <3>3, <3>4, <3>12
    <3>15. CASE e = <<>>
      <4>1. len = 0 /\ j = NumLayers
        BY <3>7, <3>8, <3>15, EmptySeq DEF Runs
      <4>2. RangeIn(a, w[Len(w)])[2] = NumLayers
        <5>1. w[Len(w)] = n
          BY <3>11, <3>12, <4>1
        <5> QED BY <3>3, <3>5, <4>1, <5>1
      <4>3. \A i \in 1 .. Len(w) - 1 : FALSE
        BY <3>11, <4>1
      <4> QED BY <3>11, <3>13, <3>14, <4>2, <4>3 DEF Runs
    <3>16. CASE e # <<>>
      <4>1. /\ RangeIn(a, e[1])[1] = j /\ RangeIn(a, e[len])[2] = NumLayers
            /\ \A i \in 1 .. len - 1 : RangeIn(a, e[i])[2] = RangeIn(a, e[i + 1])[1]
        BY <3>7, <3>8, <3>16 DEF Runs
      <4>2. len # 0 /\ len \in 1..len
        BY <3>8, <3>16, EmptySeq
      <4>3. w[Len(w)] = e[len]
        <5>1. Len(w) = len + 1
          BY <3>8, <3>11
        <5> QED BY <3>12, <4>2, <5>1
      <4>4. ASSUME NEW i \in 1 .. Len(w) - 1
            PROVE  RangeIn(a, w[i])[2] = RangeIn(a, w[i + 1])[1]
        <5>1. i \in 1..len /\ w[i + 1] = e[i]
          BY <3>8, <3>11, <3>12
        <5>2. CASE i = 1
          BY <3>3, <3>5, <3>12, <4>1, <5>1, <5>2
        <5>3. CASE i # 1
          <6>1. PICK m \in 1..(len - 1) : m = i - 1
            BY <3>8, <5>1, <5>3
          <6>2. m \in 1..len /\ m + 1 = i
            BY <3>8, <5>1, <6>1
          <6>3. w[i] = e[m]
            BY <3>12, <6>2
          <6> QED BY <4>1, <5>1, <6>1, <6>2, <6>3
        <5> QED BY <5>2, <5>3
      <4> QED BY <3>11, <3>13, <3>14, <4>1, <4>3, <4>4 DEF Runs
    <3> QED BY <3>15, <3>16
  <2> QED BY <2>1, <2>2
<1> QED BY <1>5, <1>6, <1>8

(* The cost of a path.                                                     *)
WayOne(c, w, n) == Onward(c, w, n)
WayFold == INSTANCE FoldLemmas WITH Op <- WayOne

Way(c, p) == WayFold!Fold(c, [at |-> Head(p), cost |-> c.layer[Head(p)]], Tail(p))

LEMMA CostIsWay ==
  ASSUME NEW c, NEW p, p # <<>>
  PROVE  CostOf(c, p) = Way(c, p).cost
BY Zenon DEF CostOf, Way, WayFold!Fold, WayOne, FoldLeft, MapThenFoldSet, WayFold!MapThenFoldSet,
             Max, WayFold!Max

LEMMA WayStarts ==
  ASSUME NEW c, NEW n \in Node
  PROVE  Way(c, <<n>>) = [at |-> n, cost |-> c.layer[n]]
<1>1. PICK p : p = <<n>>
  OBVIOUS
<1>2. Head(p) = n /\ Tail(p) = <<>>
  BY <1>1
<1>3. PICK t : t = Tail(p)
  OBVIOUS
<1>4. t \in Seq(Node) /\ Len(t) = 0
  BY <1>2, <1>3, EmptySeq
<1>5. PICK base : base = [at |-> Head(p), cost |-> c.layer[Head(p)]]
  OBVIOUS
<1>6. PICK f : WayFold!Run(f, c, base, t)
  BY <1>4, LeastElement, WayFold!FoldLeftSteps DEF WayFold!WellOrdered
<1>7. WayFold!Fold(c, base, t) = base
  BY <1>4, <1>6 DEF WayFold!Run
<1> QED BY <1>1, <1>2, <1>3, <1>5, <1>7 DEF Way

LEMMA WayGoesOn ==
  ASSUME NEW c, NEW p \in Seq(Node), p # <<>>, NEW n \in Node
  PROVE  Way(c, Append(p, n)) = Onward(c, Way(c, p), n)
<1>1. PICK q : q = Append(p, n)
  OBVIOUS
<1>2. Tail(p) \in Seq(Node) /\ Head(q) = Head(p) /\ Tail(q) = Append(Tail(p), n)
  <2>1. PICK len \in Nat : len = Len(p) /\ DOMAIN p = 1..len /\ len # 0
    BY AtPosition, EmptySeq
  <2>2. PICK t : t = Tail(p)
    OBVIOUS
  <2>3. t \in Seq(Node) /\ Len(t) = len - 1 /\ \A i \in 1..(len - 1) : t[i] = p[i + 1]
    BY <2>1, <2>2, HeadTailProperties
  <2>4. /\ q \in Seq(Node) /\ q # <<>> /\ Len(q) = len + 1 /\ q[len + 1] = n
        /\ \A i \in 1..len : q[i] = p[i]
    BY <1>1, <2>1, AppendProperties
  <2>5. PICK u : u = Tail(q)
    OBVIOUS
  <2>6. u \in Seq(Node) /\ Len(u) = len /\ \A i \in 1..len : u[i] = q[i + 1]
    BY <2>1, <2>4, <2>5, HeadTailProperties
  <2>7. PICK v : v = Append(t, n)
    OBVIOUS
  <2>8. /\ v \in Seq(Node) /\ Len(v) = (len - 1) + 1 /\ v[(len - 1) + 1] = n
        /\ \A i \in 1..(len - 1) : v[i] = t[i]
    BY <2>3, <2>7, AppendProperties
  <2>9. Len(v) = len /\ v[len] = n
    BY <2>1, <2>8
  <2>10. ASSUME NEW i \in 1..len PROVE u[i] = v[i]
    <3>1. CASE i = len
      BY <2>1, <2>4, <2>6, <2>9, <3>1
    <3>2. CASE i # len
      <4>1. i \in 1..(len - 1) /\ i + 1 \in 1..len
        BY <2>1, <3>2
      <4> QED BY <2>3, <2>4, <2>6, <2>8, <4>1
    <3> QED BY <3>1, <3>2
  <2>11. u = v
    BY <2>6, <2>8, <2>9, <2>10, SeqEqual
  <2>12. Head(q) = q[1] /\ Head(p) = p[1] /\ 1 \in 1..len
    BY <2>1, <2>4
  <2> QED BY <2>2, <2>3, <2>4, <2>5, <2>7, <2>11, <2>12
<1>3. PICK base : base = [at |-> Head(p), cost |-> c.layer[Head(p)]]
  OBVIOUS
<1>4. PICK t \in Seq(Node) : t = Tail(p)
  BY <1>2
<1>5. WayFold!Fold(c, base, Append(t, n)) = WayOne(c, WayFold!Fold(c, base, t), n)
  BY LeastElement, WayFold!FoldLeftAppend DEF WayFold!WellOrdered
<1> QED BY <1>1, <1>2, <1>3, <1>4, <1>5 DEF Way, WayOne

\* p runs through adjacent ranges from layer 0 to those of n.
Leads(a, p, n) ==
  /\ p \in Seq(Ranged(a)) /\ p # <<>>
  /\ RangeIn(a, p[1])[1] = 0 /\ p[Len(p)] = n
  /\ \A i \in 1 .. Len(p) - 1 : RangeIn(a, p[i])[2] = RangeIn(a, p[i + 1])[1]

\* Unless n has not been reached, its entry has a path to it at its cost.
Sound(a, c, n, e) ==
  /\ e.cost \in Cost
  /\ e.cost # Inf => Leads(a, e.path, n) /\ Way(c, e.path) = [at |-> n, cost |-> e.cost]

LEMMA HeadsSound ==
  ASSUME NEW a, NEW c \in Latencies, NEW n \in Node
  PROVE  Sound(a, c, n, Heads(a, c)[n])
<1>1. PICK e : e = Heads(a, c)[n]
  OBVIOUS
<1>2. Inf \in Cost /\ c.layer[n] \in Cost
  BY LatencyFacts DEF Cost
<1>3. CASE n \in Active(a) /\ RangeIn(a, n)[1] = 0
  <2>1. e.cost = c.layer[n] /\ e.path = <<n>>
    BY <1>1, <1>3 DEF Heads
  <2>2. Leads(a, <<n>>, n)
    <3>1. n \in Ranged(a)
      BY <1>3 DEF Active
    <3>0. <<n>> \in Seq(Ranged(a)) /\ Len(<<n>>) = 1 /\ <<n>>[1] = n
      BY <3>1
    <3>2. PICK p \in Seq(Ranged(a)) : p = <<n>> /\ Len(p) = 1 /\ p[1] = n
      BY <3>0
    <3>3. p # <<>> /\ \A i \in 1 .. Len(p) - 1 : FALSE
      BY <3>2
    <3> QED BY <1>3, <3>2, <3>3 DEF Leads
  <2>3. Way(c, <<n>>) = [at |-> n, cost |-> e.cost]
    BY <2>1, WayStarts
  <2> QED BY <1>1, <1>2, <2>1, <2>2, <2>3 DEF Sound
<1>4. CASE ~(n \in Active(a) /\ RangeIn(a, n)[1] = 0)
  <2>1. e.cost = Inf
    BY <1>1, <1>4 DEF Heads
  <2> QED BY <1>1, <1>2, <2>1 DEF Sound
<1> QED BY <1>3, <1>4

LEMMA ExtendedSound ==
  ASSUME NEW a, NEW c \in Latencies, NEW j \in Ranged(a), NEW n \in Ranged(a), NEW e,
         Sound(a, c, j, e), e.cost # Inf, RangeIn(a, j)[2] = RangeIn(a, n)[1]
  PROVE  Sound(a, c, n, Extended(c, e, j, n))
<1>1. j \in Node /\ n \in Node /\ Ranged(a) \subseteq Node
  BY DEF Ranged
<1>2. PICK x : x = Extended(c, e, j, n)
  OBVIOUS
<1>3. x.cost = Plus(Plus(e.cost, c.rtt[j][n]), c.layer[n]) /\ x.path = Append(e.path, n)
  BY <1>2 DEF Extended
<1>4. e.cost \in Cost /\ Leads(a, e.path, j) /\ Way(c, e.path) = [at |-> j, cost |-> e.cost]
  BY DEF Sound
<1>5. x.cost \in Cost
  BY <1>1, <1>3, <1>4, LatencyFacts, CostFacts
<1>6. PICK p : p = e.path
  OBVIOUS
<1>7. /\ p \in Seq(Ranged(a)) /\ p # <<>> /\ RangeIn(a, p[1])[1] = 0 /\ p[Len(p)] = j
      /\ \A i \in 1 .. Len(p) - 1 : RangeIn(a, p[i])[2] = RangeIn(a, p[i + 1])[1]
  BY <1>4, <1>6 DEF Leads
<1>8. Leads(a, Append(p, n), n)
  <2>1. PICK len \in Nat : len = Len(p) /\ len # 0
    BY <1>7, AtPosition, EmptySeq
  <2>2. PICK q : q = Append(p, n)
    OBVIOUS
  <2>3. /\ q \in Seq(Ranged(a)) /\ q # <<>> /\ Len(q) = len + 1 /\ q[len + 1] = n
        /\ \A i \in 1..len : q[i] = p[i]
    BY <1>7, <2>1, <2>2, AppendProperties
  <2>4. q[1] = p[1] /\ q[len] = j
    BY <1>7, <2>1, <2>3
  <2>5. ASSUME NEW i \in 1 .. Len(q) - 1
        PROVE  RangeIn(a, q[i])[2] = RangeIn(a, q[i + 1])[1]
    <3>1. CASE i = len
      BY <2>3, <2>4, <3>1
    <3>2. CASE i # len
      <4>1. i \in 1 .. len - 1 /\ i \in 1..len /\ i + 1 \in 1..len
        BY <2>1, <2>3, <3>2
      <4>2. q[i] = p[i] /\ q[i + 1] = p[i + 1]
        BY <2>3, <4>1
      <4> QED BY <1>7, <2>1, <4>1, <4>2
    <3> QED BY <3>1, <3>2
  <2> QED BY <1>7, <2>2, <2>3, <2>4, <2>5 DEF Leads
<1>9. Way(c, Append(p, n)) = [at |-> n, cost |-> x.cost]
  <2>1. p \in Seq(Node)
    BY <1>1, <1>7
  <2>2. Way(c, Append(p, n)) = Onward(c, Way(c, p), n)
    BY <1>1, <1>7, <2>1, WayGoesOn
  <2>3. Way(c, p).at = j /\ Way(c, p).cost = e.cost
    BY <1>4, <1>6
  <2> QED BY <1>3, <2>2, <2>3 DEF Onward
<1> QED BY <1>2, <1>3, <1>5, <1>6, <1>8, <1>9 DEF Sound

(* Every entry that the relaxation ends with is sound and a cheapest one   *)
(* of its ways.                                                            *)
LEMMA EntriesSound ==
  ASSUME NEW a, Books(a), NEW c \in Latencies, NEW best, best = Relaxations(a, c)
  PROVE  /\ \A n \in Node : Sound(a, c, n, best[n])
         /\ \A n \in Ranged(a) : \A e \in Ways(a, c, best, n) : ~Less(e.cost, best[n].cost)
<1> DEFINE T == {s \in Nat : \E n \in Ranged(a) : RangeIn(a, n)[1] = s /\ ~Sound(a, c, n, best[n])}
<1>1. ASSUME NEW n \in Ranged(a),
             \A j \in Ranged(a) : RangeIn(a, j)[1] < RangeIn(a, n)[1] => Sound(a, c, j, best[j])
      PROVE  /\ Sound(a, c, n, best[n])
             /\ \A e \in Ways(a, c, best, n) : ~Less(e.cost, best[n].cost)
  <2>1. n \in Node
    BY RangedFacts
  <2>2. ASSUME NEW e \in Ways(a, c, best, n) PROVE Sound(a, c, n, e)
    <3>1. CASE e = Heads(a, c)[n]
      BY <2>1, <3>1, HeadsSound
    <3>2. CASE e # Heads(a, c)[n]
      <4>1. PICK j \in Reached(a, best, RangeIn(a, n)[1]) : e = Extended(c, best[j], j, n)
        BY <2>2, <3>2 DEF Ways
      <4>2. j \in Ranged(a) /\ RangeIn(a, j)[2] = RangeIn(a, n)[1] /\ best[j].cost # Inf
        BY <4>1 DEF Reached, Active
      <4>3. RangeIn(a, j)[1] < RangeIn(a, n)[1]
        BY <4>2, RangedFacts
      <4>4. Sound(a, c, j, best[j])
        BY <1>1, <4>2, <4>3
      <4> QED BY <4>1, <4>2, <4>4, ExtendedSound
    <3> QED BY <3>1, <3>2
  <2>3. PICK E : E = Ways(a, c, best, n)
    OBVIOUS
  <2>4. E # {} /\ \A e \in E : e.cost \in Cost
    BY <2>2, <2>3 DEF Sound, Ways
  <2>5. Cheapest(E) \in E /\ \A e \in E : ~Less(e.cost, Cheapest(E).cost)
    BY <2>4, CheapestIn
  <2>6. best[n] = Cheapest(E)
    BY <2>1, <2>3, RelaxationsSettled
  <2> QED BY <2>2, <2>3, <2>5, <2>6
<1>2. T = {}
  <2> SUFFICES ASSUME T # {} PROVE FALSE
    OBVIOUS
  <2>1. T \in SUBSET Nat
    OBVIOUS
  <2>2. PICK s \in T : \A t \in T : s <= t
    <3> HIDE DEF T
    <3> QED BY <2>1, LeastElement
  <2>3. PICK n \in Ranged(a) : RangeIn(a, n)[1] = s /\ ~Sound(a, c, n, best[n])
    BY <2>2
  <2>4. ASSUME NEW j \in Ranged(a), RangeIn(a, j)[1] < RangeIn(a, n)[1]
        PROVE  Sound(a, c, j, best[j])
    <3>1. PICK t : t = RangeIn(a, j)[1]
      OBVIOUS
    <3>2. t \in Nat /\ t < s /\ s \in Nat
      BY <2>2, <2>3, <2>4, <3>1, RangedFacts DEF Layer
    <3>3. ~(s <= t)
      BY <3>2
    <3>4. t \notin T
      <4> HIDE DEF T
      <4> QED BY <2>2, <3>3
    <3> QED BY <3>1, <3>2, <3>4
  <2> QED BY <1>1, <2>3, <2>4
<1>3. ASSUME NEW n \in Ranged(a) PROVE Sound(a, c, n, best[n])
  <2>1. PICK s : s = RangeIn(a, n)[1]
    OBVIOUS
  <2>2. s \in Nat
    BY <2>1, RangedFacts DEF Layer
  <2>3. s \notin T
    <3> HIDE DEF T
    <3> QED BY <1>2
  <2> QED BY <2>1, <2>2, <2>3
<1>4. ASSUME NEW n \in Node PROVE Sound(a, c, n, best[n])
  <2>1. CASE n \in Ranged(a)
    BY <1>3, <2>1
  <2>2. CASE n \notin Ranged(a)
    BY <2>2, HeadsSound, RelaxationsSettled
  <2> QED BY <2>1, <2>2
<1> QED BY <1>1, <1>3, <1>4

(* No chain of active nodes is cheaper than the entry of its last node.    *)
LEMMA ChainNotCheaper ==
  ASSUME NEW a, Books(a), NEW c \in Latencies, NEW best, best = Relaxations(a, c),
         NEW q \in Chains(a, Active(a), 0)
  PROVE  /\ q \in Seq(Active(a)) /\ q # <<>> /\ RangeIn(a, q[Len(q)])[2] = NumLayers
         /\ CostOf(c, q) \in Cost /\ ~Less(CostOf(c, q), best[q[Len(q)]].cost)
<1>1. PICK S : S = Active(a)
  OBVIOUS
<1>2. S \subseteq Ranged(a) /\ Ranged(a) \subseteq Node
  BY <1>1 DEF Active, Ranged
<1>3. Runs(a, q, S, 0)
  <2>1. \A n \in S : RangeIn(a, n) \in Span
    BY <1>2, RangedFacts
  <2> QED BY <1>1, <2>1, ChainsRun
<1>4. /\ q \in Seq(S) /\ q # <<>>
      /\ RangeIn(a, q[1])[1] = 0 /\ RangeIn(a, q[Len(q)])[2] = NumLayers
      /\ \A i \in 1 .. Len(q) - 1 : RangeIn(a, q[i])[2] = RangeIn(a, q[i + 1])[1]
  BY <1>3, SpanFacts DEF Runs
<1>5. PICK len \in Nat : len = Len(q) /\ len # 0 /\ \A i \in 1..len : q[i] \in S
  BY <1>4, AtPosition, EmptySeq
<1>6. PICK t : t = Tail(q)
  OBVIOUS
<1>7. /\ t \in Seq(Node) /\ Len(t) = len - 1 /\ Head(q) = q[1]
      /\ \A k \in 1..(len - 1) : t[k] = q[k + 1]
  <2>1. t \in Seq(S)
    BY <1>4, <1>6, HeadTailProperties
  <2>2. t \in Seq(Node)
    BY <1>2, <2>1
  <2> QED BY <1>4, <1>5, <1>6, <2>2, HeadTailProperties
<1>8. PICK base : base = [at |-> q[1], cost |-> c.layer[q[1]]]
  OBVIOUS
<1>9. PICK g : WayFold!Run(g, c, base, t)
  BY <1>7, LeastElement, WayFold!FoldLeftSteps DEF WayFold!WellOrdered
<1>10. /\ g[0] = base /\ g[len - 1] = Way(c, q)
       /\ \A k \in 1..(len - 1) : g[k] = Onward(c, g[k - 1], q[k + 1])
  BY <1>6, <1>7, <1>8, <1>9 DEF WayFold!Run, Way, WayOne
<1> DEFINE Fits(k) == /\ g[k].at = q[k + 1] /\ g[k].cost \in Cost
                      /\ ~Less(g[k].cost, best[q[k + 1]].cost)
           T == {k \in Nat : k <= len - 1 /\ ~Fits(k)}
<1>11. ASSUME NEW i \in 1..len
       PROVE  q[i] \in Active(a) /\ q[i] \in Ranged(a) /\ q[i] \in Node /\ best[q[i]].cost \in Cost
  <2>1. q[i] \in Active(a) /\ q[i] \in Ranged(a) /\ q[i] \in Node
    BY <1>1, <1>2, <1>5
  <2> QED BY <2>1, EntriesSound DEF Sound
<1>12. Fits(0)
  <2>1. PICK n : n = q[1]
    OBVIOUS
  <2>2. n \in Active(a) /\ n \in Ranged(a) /\ n \in Node /\ RangeIn(a, n)[1] = 0
    BY <1>4, <1>5, <1>11, <2>1
  <2>3. Heads(a, c)[n].cost = c.layer[n]
    BY <2>2 DEF Heads
  <2>4. Heads(a, c)[n] \in Ways(a, c, best, n)
    BY DEF Ways
  <2>5. ~Less(c.layer[n], best[n].cost)
    BY <2>2, <2>3, <2>4, EntriesSound
  <2>6. c.layer[n] \in Cost
    BY <2>2, LatencyFacts
  <2>7. q[0 + 1] = n
    BY <2>1
  <2>8. g[0].at = n /\ g[0].cost = c.layer[n]
    BY <1>8, <1>10, <2>1
  <2>9. g[0].cost \in Cost /\ ~Less(g[0].cost, best[n].cost)
    BY <2>5, <2>6, <2>8
  <2> QED BY <2>7, <2>8, <2>9
<1>13. ASSUME NEW k \in 1..(len - 1), Fits(k - 1) PROVE Fits(k)
  <2>1. PICK j, n, w : j = q[k] /\ n = q[k + 1] /\ w = g[k - 1]
    OBVIOUS
  <2>2. k \in 1..len /\ k + 1 \in 1..len /\ (k - 1) + 1 = k
    BY <1>5
  <2>3. /\ j \in Active(a) /\ j \in Node /\ best[j].cost \in Cost
        /\ n \in Ranged(a) /\ n \in Node /\ best[n].cost \in Cost
    BY <1>11, <2>1, <2>2
  <2>4. w.at = j /\ w.cost \in Cost /\ ~Less(w.cost, best[j].cost)
    BY <1>13, <2>1, <2>2
  <2>5. g[k].at = n /\ g[k].cost = Plus(Plus(w.cost, c.rtt[j][n]), c.layer[n])
    <3>1. g[k] = Onward(c, w, n)
      BY <1>10, <2>1
    <3> QED BY <2>4, <3>1 DEF Onward
  <2>6. c.rtt[j][n] \in Cost /\ c.layer[n] \in Cost /\ Plus(w.cost, c.rtt[j][n]) \in Cost
    BY <2>3, <2>4, LatencyFacts, CostFacts
  <2>7. g[k].cost \in Cost
    BY <2>5, <2>6, CostFacts
  <2>8. CASE best[j].cost = Inf
    <3>1. w.cost = Inf
      BY <2>4, <2>8, CostFacts
    <3>2. g[k].cost = Inf
      BY <2>5, <3>1 DEF Plus
    <3> QED BY <2>1, <2>3, <2>5, <2>7, <3>2, CostFacts
  <2>9. CASE best[j].cost # Inf
    <3>1. RangeIn(a, j)[2] = RangeIn(a, n)[1]
      <4>1. k \in 1 .. Len(q) - 1
        BY <1>5
      <4> QED BY <1>4, <2>1, <4>1
    <3>2. j \in Reached(a, best, RangeIn(a, n)[1])
      BY <2>3, <2>9, <3>1 DEF Reached
    <3>3. PICK e : e = Extended(c, best[j], j, n)
      OBVIOUS
    <3>4. e \in Ways(a, c, best, n)
      BY <3>2, <3>3 DEF Ways
    <3>5. ~Less(e.cost, best[n].cost)
      BY <2>3, <3>4, EntriesSound
    <3>6. e.cost = Plus(Plus(best[j].cost, c.rtt[j][n]), c.layer[n])
      BY <3>3 DEF Extended
    <3>7. Plus(best[j].cost, c.rtt[j][n]) \in Cost
      BY <2>3, <2>6, CostFacts
    <3>8. ~Less(Plus(w.cost, c.rtt[j][n]), Plus(best[j].cost, c.rtt[j][n]))
      BY <2>3, <2>4, <2>6, CostFacts
    <3>9. ~Less(g[k].cost, e.cost) /\ e.cost \in Cost
      <4>1. PICK x \in Cost, y \in Cost, z \in Cost :
              x = Plus(w.cost, c.rtt[j][n]) /\ y = Plus(best[j].cost, c.rtt[j][n]) /\ z = c.layer[n]
        BY <2>6, <3>7
      <4>2. ~Less(x, y)
        BY <3>8, <4>1
      <4>3. ~Less(Plus(x, z), Plus(y, z)) /\ Plus(y, z) \in Cost
        BY <4>2, CostFacts
      <4>4. g[k].cost = Plus(x, z) /\ e.cost = Plus(y, z)
        BY <2>5, <3>6, <4>1
      <4> QED BY <4>3, <4>4
    <3>10. ~Less(g[k].cost, best[n].cost)
      BY <2>3, <2>7, <3>5, <3>9, CostFacts
    <3> QED BY <2>1, <2>5, <2>7, <3>10
  <2> QED BY <2>8, <2>9
<1> HIDE DEF Fits
<1>14. T = {}
  <2> SUFFICES ASSUME T # {} PROVE FALSE
    OBVIOUS
  <2>1. T \in SUBSET Nat
    OBVIOUS
  <2>2. PICK k \in T : \A i \in T : k <= i
    <3> HIDE DEF T
    <3> QED BY <2>1, LeastElement
  <2>3. k \in Nat /\ k <= len - 1 /\ ~Fits(k)
    BY <2>2
  <2>4. k # 0
    BY <1>12, <2>3
  <2>5. k \in 1..(len - 1) /\ k - 1 \in Nat /\ k - 1 <= len - 1 /\ ~(k <= k - 1)
    BY <1>5, <2>3, <2>4
  <2>6. k - 1 \notin T
    <3> HIDE DEF T
    <3> QED BY <2>2, <2>5
  <2>7. Fits(k - 1)
    BY <2>5, <2>6
  <2> QED BY <1>13, <2>3, <2>5, <2>7
<1>15. Fits(len - 1)
  <2>1. len - 1 \in Nat /\ len - 1 <= len - 1
    BY <1>5
  <2>2. len - 1 \notin T
    <3> HIDE DEF T
    <3> QED BY <1>14
  <2> QED BY <2>1, <2>2
<1>16. CostOf(c, q) = g[len - 1].cost
  BY <1>4, <1>10, CostIsWay
<1>17. CostOf(c, q) \in Cost /\ ~Less(CostOf(c, q), best[q[len]].cost)
  <2>1. (len - 1) + 1 = len
    BY <1>5
  <2> QED BY <1>15, <1>16, <2>1 DEF Fits
<1> QED BY <1>1, <1>4, <1>5, <1>17

(* A route of dynamic-programming routing, if there is one, goes through   *)
(* adjacent ranges from layer 0 to the last, and no chain of active nodes  *)
(* is cheaper.                                                             *)
LEMMA DpPathFacts ==
  ASSUME NEW a, Books(a), NEW c \in Latencies, NEW p, p = find_optimal_path(a, c)
  PROVE  /\ p = <<>> \/ Covers(a, p)
         /\ Shortest(a, c, p)
<1>1. PICK best : best = Relaxations(a, c)
  OBVIOUS
<1>2. PICK ends : ends = Reached(a, best, NumLayers)
  OBVIOUS
<1>3. p = IF ends = {} THEN <<>> ELSE Cheapest({best[n] : n \in ends}).path
  BY <1>1, <1>2 DEF find_optimal_path, ShortestPath, Terminal
<1>4. ASSUME NEW n \in ends
      PROVE  /\ n \in Node /\ n \in Ranged(a) /\ RangeIn(a, n)[2] = NumLayers
             /\ Sound(a, c, n, best[n]) /\ best[n].cost # Inf
  <2>1. n \in Ranged(a) /\ RangeIn(a, n)[2] = NumLayers /\ best[n].cost # Inf
    BY <1>2 DEF Reached, Active
  <2>2. n \in Node
    BY <2>1 DEF Ranged
  <2> QED BY <1>1, <2>1, <2>2, EntriesSound
<1>5. ASSUME NEW q \in Chains(a, Active(a), 0)
      PROVE  /\ CostOf(c, q) \in Cost
             /\ \/ CostOf(c, q) = Inf
                \/ \E m \in ends : ~Less(CostOf(c, q), best[m].cost)
  <2>1. /\ q \in Seq(Active(a)) /\ q # <<>> /\ RangeIn(a, q[Len(q)])[2] = NumLayers
        /\ CostOf(c, q) \in Cost /\ ~Less(CostOf(c, q), best[q[Len(q)]].cost)
    BY <1>1, ChainNotCheaper
  <2>2. PICK m : m = q[Len(q)]
    OBVIOUS
  <2>3. m \in Active(a)
    <3>1. Len(q) \in DOMAIN q
      BY <2>1, AtPosition, EmptySeq
    <3> QED BY <2>1, <2>2, <3>1, AtPosition
  <2>4. CASE best[m].cost = Inf
    BY <2>1, <2>2, <2>4, CostFacts
  <2>5. CASE best[m].cost # Inf
    BY <1>2, <2>1, <2>2, <2>3, <2>5 DEF Reached
  <2> QED BY <2>1, <2>4, <2>5
<1>6. CASE ends = {}
  <2>1. p = <<>>
    BY <1>3, <1>6
  <2>2. CostOf(c, p) = Inf
    BY <2>1 DEF CostOf
  <2>3. \A q \in Chains(a, Active(a), 0) : ~Less(CostOf(c, q), CostOf(c, p))
    BY <1>5, <1>6, <2>2 DEF Less
  <2> QED BY <2>1, <2>3 DEF Shortest
<1>7. CASE ends # {}
  <2>1. PICK E : E = {best[n] : n \in ends}
    OBVIOUS
  <2>2. E # {} /\ \A e \in E : e.cost \in Cost
    BY <1>4, <1>7, <2>1 DEF Sound
  <2>3. PICK e \in E : p = e.path /\ \A f \in E : ~Less(f.cost, e.cost)
    BY <1>3, <1>7, <2>1, <2>2, CheapestIn
  <2>4. PICK n \in ends : e = best[n]
    BY <2>1
  <2>5. Leads(a, p, n) /\ Way(c, p) = [at |-> n, cost |-> e.cost] /\ e.cost \in Cost
    BY <1>4, <2>3, <2>4 DEF Sound
  <2>6. Covers(a, p)
    <3>1. /\ p \in Seq(Ranged(a)) /\ RangeIn(a, p[1])[1] = 0 /\ p[Len(p)] = n
          /\ \A i \in 1 .. Len(p) - 1 : RangeIn(a, p[i])[2] = RangeIn(a, p[i + 1])[1]
      BY <2>5 DEF Leads
    <3>2. \A i \in DOMAIN p : HasRange(a, p[i])
      BY <3>1, AtPosition DEF Ranged
    <3> QED BY <1>4, <3>1, <3>2 DEF Covers
  <2>7. CostOf(c, p) = e.cost
    <3>1. p # <<>>
      BY <2>5 DEF Leads
    <3> QED BY <2>5, <3>1, CostIsWay
  <2>8. ASSUME NEW q \in Chains(a, Active(a), 0) PROVE ~Less(CostOf(c, q), CostOf(c, p))
    <3>1. CASE CostOf(c, q) = Inf
      BY <2>5, <2>7, <3>1, CostFacts
    <3>2. ASSUME NEW m \in ends, ~Less(CostOf(c, q), best[m].cost)
          PROVE  ~Less(CostOf(c, q), CostOf(c, p))
      <4>1. best[m] \in E /\ best[m].cost \in Cost
        BY <2>1, <2>2
      <4>2. ~Less(best[m].cost, e.cost)
        BY <2>3, <4>1
      <4> QED BY <1>5, <2>5, <2>7, <3>2, <4>1, <4>2, CostFacts
    <3> QED BY <1>5, <3>1, <3>2
  <2> QED BY <2>6, <2>8 DEF Shortest
<1> QED BY <1>6, <1>7

-----------------------------------------------------------------------------
(* The theorems.                                                           *)

(* The inductive invariant: the books of the allocator balance, and the    *)
(* pending joins are of different nodes that the scheduler does not know.  *)
THEOREM MeshInvariant ==
  ASSUME NodesHold, Orderly
  PROVE  Spec => []MeshInv
<1>1. Init => MeshInv
  BY MeshInit
<1>2. MeshInv /\ [Next]_vars => MeshInv'
  BY MeshNext
<1> QED BY <1>1, <1>2, PTL DEF Spec

(* The list, the map and the allocations of the allocator, the loads of    *)
(* the layers and the states of the threads and nodes keep their types;    *)
(* no current_kv_size falls below zero.                                    *)
THEOREM MeshTypes ==
  ASSUME NodesHold, Orderly
  PROVE  Spec => []TypeOK
<1>1. ASSUME MeshInv PROVE TypeOK
  <2>1. SchedulerInOrder /\ WorkersInOrder /\ Books(alloc)
    BY <1>1 DEF MeshInv, SchedulerInOrder
  <2>2. PICK a \in Alloc : a = alloc
    BY <2>1 DEF Books
  <2>3. /\ a.nodes \in Seq(Node) /\ a.entry \in [Node -> {"none", "listed"}]
        /\ a.allocation \in [Node -> Ranges] /\ a.load \in [Layer -> Nat]
    BY AllocTypes
  <2>4. Listed(alloc) \subseteq Node
    BY <2>2, <2>3 DEF Listed
  <2>5. Ranges \subseteq RangeOfLayers \cup {NoRange}
    BY DEF Ranges, Span
  <2>6. /\ node \in [Node -> {"off", "joining", "loading", "ready", "waiting"}]
        /\ told \in [Node -> Ranges] /\ rejoining \in SUBSET Node
    BY <2>1 DEF WorkersInOrder
  <2>7. /\ boot \in BOOLEAN /\ event \in EventStates /\ main \in {"waiting", "done"}
    BY <2>1 DEF SchedulerInOrder
  <2>8. \A n \in Node : /\ alloc.allocation[n] \in RangeOfLayers \cup {NoRange}
                        /\ alloc.entry[n] \in {"none", "listed", "second"}
    BY <2>2, <2>3, <2>5
  <2>9. \A n \in Node : /\ told[n] \in RangeOfLayers \cup {NoRange}
                        /\ node[n] \in {"off", "joining", "loading", "ready", "waiting"}
    BY <2>5, <2>6
  <2>10. \A l \in Layer : alloc.load[l] \in Nat
    BY <2>2, <2>3
  <2> QED BY <2>4, <2>6, <2>7, <2>8, <2>9, <2>10 DEF TypeOK, EventStates
<1> QED BY <1>1, MeshInvariant, PTL

(* A list without repetitions is as long as the set of its elements.       *)
LEMMA NoRepeatsCount ==
  ASSUME NEW S, NEW seq \in Seq(S), NoRepeats(seq)
  PROVE  Cardinality(ElementsOf(seq)) = Len(seq)
<1>1. PICK len \in Nat : len = Len(seq) /\ DOMAIN seq = 1..len
  BY AtPosition
<1>2. PICK E : E = ElementsOf(seq)
  OBVIOUS
<1>3. PICK f : f = [i \in 1..len |-> seq[i]]
  OBVIOUS
<1>4. f \in [1..len -> E]
  BY <1>1, <1>2, <1>3 DEF ElementsOf
<1>5. \A i, j \in 1..len : f[i] = f[j] => i = j
  BY <1>1, <1>3 DEF NoRepeats
<1>6. \A x \in E : \E i \in 1..len : f[i] = x
  BY <1>1, <1>2, <1>3 DEF ElementsOf
<1>7. f \in Bijection(1..len, E)
  BY <1>4, <1>5, <1>6 DEF Bijection, Injection, Surjection, IsInjective
<1>8. ExistsBijection(1..len, E)
  BY <1>7 DEF ExistsBijection
<1> QED BY <1>1, <1>2, <1>8, FS_CountingElements

(* "Ensure Scheduler and allocator share the same node list to avoid       *)
(* divergence": whatever joins, departures, evictions and rebalances come, *)
(* the list names each registered node once, and node_allocation holds the *)
(* range of the object in the list.                                        *)
THEOREM BooksAgree ==
  ASSUME NodesHold, Orderly
  PROVE  Spec => []NodesAgree
<1>1. ASSUME MeshInv PROVE NodesAgree
  <2>1. Books(alloc)
    BY <1>1 DEF MeshInv, SchedulerInOrder
  <2>2. PICK a \in Alloc : a = alloc
    BY <2>1 DEF Books
  <2>3. a.nodes \in Seq(Node) /\ a.entry \in [Node -> {"none", "listed"}]
    BY AllocTypes
  <2>4. Agreed(a)
    BY <2>1, <2>2 DEF Books
  <2>5. Listed(alloc) = ElementsOf(a.nodes)
    BY <2>2 DEF Listed, ElementsOf
  <2>6. Len(alloc.nodes) = Cardinality(Listed(alloc))
    BY <2>2, <2>3, <2>4, <2>5, NoRepeatsCount DEF Agreed
  <2>7. Registered(alloc) \subseteq Node /\ Listed(alloc) \subseteq Node
    BY <2>3, <2>5 DEF Registered, ElementsOf
  <2>8. \A n \in Node : n \in Registered(alloc) <=> n \in Listed(alloc)
    BY <2>1, EntryKinds
  <2>9. \A n \in Node : alloc.entry[n] # "second"
    BY <2>2, <2>3
  <2>10. ASSUME NEW n \in Node, alloc.allocation[n] # NoRange
         PROVE  n \in Registered(alloc) /\ alloc.allocation[n] = RangeIn(alloc, n)
    <3>1. a.entry[n] = "listed" /\ a.allocation[n] = a.objs[n].listed.range
      BY <2>2, <2>4, <2>10 DEF Agreed
    <3> QED BY <2>2, <3>1 DEF Registered, RangeIn
  <2>11. Listed(alloc) = Registered(alloc)
    BY <2>7, <2>8
  <2> QED BY <2>6, <2>9, <2>10, <2>11 DEF NodesAgree
<1> QED BY <1>1, MeshInvariant, PTL

(* "Avoid double counting loads": after any history the hosts and the      *)
(* current_kv_size of a layer, which the next join goes by, are what the   *)
(* current allocations amount to.                                          *)
THEOREM LoadsAreTrue ==
  ASSUME NodesHold, Orderly
  PROVE  Spec => []LoadsMatch
<1>1. ASSUME MeshInv PROVE LoadsMatch
  <2>1. Balanced(alloc)
    BY <1>1 DEF MeshInv, SchedulerInOrder, Books
  <2>2. ASSUME NEW l \in Layer
        PROVE  /\ alloc.hosts[l] = Hosts(l)
               /\ alloc.load[l] = SumOf([n \in Hosts(l) |-> KvPerLayer(n, alloc.allocation[n])], Hosts(l))
    <3>1. alloc.hosts[l] = HostsIn(alloc.allocation, l) /\ alloc.load[l] = LoadIn(alloc.allocation, l)
      BY <2>1 DEF Balanced
    <3>2. HostsIn(alloc.allocation, l) = Hosts(l)
      BY Zenon DEF HostsIn, Hosts
    <3> QED BY <3>1, <3>2, Zenon DEF LoadIn
  <2> QED BY <2>2, Zenon DEF LoadsMatch
<1> QED BY <1>1, MeshInvariant, PTL

(* "During bootstrap (no full pipeline yet), only declare nodes": while the *)
(* scheduler counts as bootstrapped its allocations form a full pipeline,  *)
(* whatever joins, departures and evictions come.  No node is manual, and  *)
(* a bootstrapped mesh is never left without a node: the last departure    *)
(* clears no flag.                                                         *)
THEOREM BootedServes ==
  ASSUME NodesHold, Orderly, NoneManual
  PROVE  Spec /\ [](boot => alloc.nodes # <<>>) => []BootstrappedHasPipeline
<1>1. Init => BootstrappedHasPipeline
  <2>1. Init => ~boot
    BY DEF Init
  <2> QED BY <2>1, Zenon DEF BootstrappedHasPipeline
<1>2. MeshInv /\ BootstrappedHasPipeline /\ [Next]_vars /\ (boot => alloc.nodes # <<>>)'
        => BootstrappedHasPipeline'
  <2> SUFFICES ASSUME MeshInv, BootstrappedHasPipeline, [Next]_vars, boot' => alloc'.nodes # <<>>
               PROVE  boot' => has_full_pipeline(alloc')
    BY Zenon DEF BootstrappedHasPipeline
  <2>1. boot => has_full_pipeline(alloc)
    BY Zenon DEF BootstrappedHasPipeline
  <2>2. boot' => has_full_pipeline(alloc') \/ alloc'.nodes = <<>>
    BY <2>1, PipelineStands
  <2> QED BY <2>2, Zenon
<1> QED BY <1>1, <1>2, MeshInvariant, PTL DEF Spec

(* What a step leaves of the last routing table, if it makes no new one.   *)
LEMMA RouteSteps ==
  ASSUME MeshInv, Routing = "dp", [Next]_vars
  PROVE  \/ route' = route
         \/ (route'.covers <=> TRUE) /\ (route'.shortest <=> TRUE)
<1>1. CASE DispatchDp
  <2>1. Books(alloc)
    BY Zenon DEF MeshInv, SchedulerInOrder
  <2>2a. PICK c \in Latencies :
           \E p : p = find_optimal_path(alloc, c) /\ Routed(p, Shortest(alloc, c, p))
    BY <1>1, Zenon DEF DispatchDp
  <2>2. PICK p : /\ p = find_optimal_path(alloc, c)
                 /\ Routed(p, Shortest(alloc, c, p))
    BY <2>2a
  <2>3. (p = <<>> \/ Covers(alloc, p)) /\ Shortest(alloc, c, p)
    BY <2>1, <2>2, DpPathFacts
  <2>4. PICK kept, served :
          route' = [covers |-> p = <<>> \/ Covers(alloc, p), kept |-> kept, served |-> served,
                    shortest |-> Shortest(alloc, c, p)]
    BY <2>2, Zenon DEF Routed
  <2>5. route'.covers = (p = <<>> \/ Covers(alloc, p)) /\ route'.shortest = Shortest(alloc, c, p)
    BY <2>4, Zenon
  <2> QED BY <2>3, <2>5, Zenon
<1>2. ~DispatchRr
  BY DEF DispatchRr
<1>3. CASE UNCHANGED vars
  BY <1>3, Zenon DEF vars
<1>4. ASSUME NEW n \in Node,
             \/ Start(n) \/ JoinAnswered(n) \/ JoinGivesUp(n) \/ Loaded(n) \/ Update(n)
             \/ Rejoin(n) \/ RejoinAnswered(n) \/ Crash(n) \/ Leave(n)
             \/ HeartbeatTimeout(n) \/ SilentTimeout(n)
      PROVE  route' = route
  BY <1>4, Zenon DEF Start, JoinAnswered, JoinGivesUp, Loaded, Update, Rejoin, RejoinAnswered, Crash,
              Leave, Stop, HeartbeatTimeout, SilentTimeout, routing
<1>5. ASSUME ProcessUpdate \/ ProcessJoin \/ JoinRaises \/ JoinsDone \/ ProcessLeave
      PROVE  route' = route
  BY <1>5, Zenon DEF ProcessUpdate, ProcessJoin, JoinRaises, JoinsDone, ProcessLeave, routing
<1>6. ASSUME \/ EventBoots \/ EventPlans \/ EventApplies
             \/ MainBoots \/ MainPlans \/ MainApplies \/ MainSeesBoot
      PROVE  route' = route
  BY <1>6, Zenon DEF EventBoots, EventPlans, EventApplies, MainBoots, MainPlans, MainApplies,
              MainSeesBoot, routing
<1> QED BY <1>1, <1>2, <1>3, <1>4, <1>5, <1>6, Zenon DEF Next

(* Every table of dynamic-programming routing "exactly cover[s] [0,        *)
(* num_layers)" by the scheduler's books, however the allocations have     *)
(* changed before it is made: the relaxation of find_optimal_path goes     *)
(* back from the last layer through adjacent ranges to layer 0.            *)
THEOREM DpRoutesCover ==
  ASSUME NodesHold, Orderly, Routing = "dp"
  PROVE  Spec => []RoutesCover
<1>1. Init => RoutesCover
  <2>1. NoRoute.covers = TRUE
    BY DEF NoRoute
  <2> QED BY <2>1, Zenon DEF Init, RoutesCover
<1>2. MeshInv /\ RoutesCover /\ [Next]_vars => RoutesCover'
  BY RouteSteps, Zenon DEF RoutesCover
<1> QED BY <1>1, <1>2, MeshInvariant, PTL DEF Spec

(* "A minimum-latency node sequence": whatever the latencies are when the  *)
(* table is made, the relaxation of find_optimal_path returns one that no  *)
(* chain of active nodes undercuts, and none only when all are Inf.        *)
THEOREM DpRoutesShortest ==
  ASSUME NodesHold, Orderly, Routing = "dp"
  PROVE  Spec => []RoutesShortest
<1>1. Init => RoutesShortest
  <2>1. NoRoute.shortest = TRUE
    BY DEF NoRoute
  <2> QED BY <2>1, Zenon DEF Init, RoutesShortest
<1>2. MeshInv /\ RoutesShortest /\ [Next]_vars => RoutesShortest'
  BY RouteSteps, Zenon DEF RoutesShortest
<1> QED BY <1>1, <1>2, MeshInvariant, PTL DEF Spec
=============================================================================
