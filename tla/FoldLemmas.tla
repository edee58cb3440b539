----------------------------- MODULE FoldLemmas -----------------------------
(***************************************************************************)
(* What a left fold computes, for every operation Op, which takes besides  *)
(* the result so far and an element a value that stays the same (ctx).     *)
(* The facts are stated over a constant operator, so a module that needs   *)
(* them for one of its operations instantiates this one with it and cites  *)
(* the instance.  Max and Fold spell out Max of FiniteSetsExt and FoldLeft *)
(* of SequencesExt, and WellOrdered is a hypothesis that each module that  *)
(* cites an instance discharges with the library's induction theorems, so  *)
(* that an instance brings in this module and no more.  Induction is by a  *)
(* least counterexample, which needs no schema.                            *)
(***************************************************************************)
EXTENDS Integers, Sequences, Folds

CONSTANT Op(_, _, _)

Max(S) == CHOOSE x \in S : \A y \in S : x >= y

Fold(ctx, base, seq) ==
  MapThenFoldSet(LAMBDA x, acc : Op(ctx, acc, x), base, LAMBDA i : seq[i],
                 LAMBDA S : Max(S), DOMAIN seq)

\* A set of naturals that is not empty has a least element.
WellOrdered == \A T \in SUBSET Nat : T # {} => \E x \in T : \A y \in T : x <= y

(* Sequences as functions.                                                 *)
LEMMA SeqFacts ==
  ASSUME NEW X, NEW seq \in Seq(X)
  PROVE  /\ Len(seq) \in Nat /\ DOMAIN seq = 1..Len(seq)
         /\ \A k \in 1..Len(seq) : seq[k] \in X
  OBVIOUS

LEMMA AppendFacts ==
  ASSUME NEW X, NEW seq \in Seq(X), NEW x \in X
  PROVE  /\ Append(seq, x) \in Seq(X) /\ Len(Append(seq, x)) = Len(seq) + 1
         /\ Append(seq, x)[Len(seq) + 1] = x
         /\ \A i \in 1..Len(seq) : Append(seq, x)[i] = seq[i]
  OBVIOUS

(* Max of a finite set of positions.                                       *)
LEMMA MaxOfPositions ==
  ASSUME WellOrdered, NEW n \in Nat, NEW s \in SUBSET (1..n), s # {}
  PROVE  Max(s) \in s /\ \A y \in s : y <= Max(s)
<1> DEFINE T == {t \in Nat : n - t \in s}
<1>1. \A y \in s : y \in Nat /\ n - y \in T
  OBVIOUS
<1>2. PICK t \in T : \A u \in T : t <= u
  BY <1>1 DEF WellOrdered
<1> DEFINE x == n - t
<1>3. x \in s /\ x \in Nat
  BY <1>1, <1>2
<1>4. \A y \in s : x >= y
  <2> SUFFICES ASSUME NEW y \in s PROVE n - t >= y
    OBVIOUS
  <2>1. t <= n - y /\ y \in Nat /\ t \in Nat
    BY <1>1, <1>2
  <2> QED BY <2>1
<1> HIDE DEF x
<1>5. \E m \in s : \A y \in s : m >= y
  BY <1>3, <1>4
<1>6. Max(s) \in s /\ \A y \in s : Max(s) >= y
  BY <1>5 DEF Max
<1> QED BY <1>6
-----------------------------------------------------------------------------
\* The recursion behind FoldLeft, over sets of positions.
Solves(g, ctx, base, seq, n) ==
  g = [s \in SUBSET (1..n) |->
         IF s = {} THEN base ELSE Op(ctx, g[s \ {Max(s)}], seq[Max(s)])]

(* The recursion has a solution.                                           *)
LEMMA SolutionExists ==
  ASSUME WellOrdered, NEW ctx, NEW base, NEW seq, NEW n \in Nat
  PROVE  \E g : Solves(g, ctx, base, seq, n)
<1> DEFINE T == {k \in Nat : ~ \E g : Solves(g, ctx, base, seq, k)}
<1> SUFFICES ASSUME T # {} PROVE FALSE
  OBVIOUS
<1>1. PICK k \in T : \A j \in T : k <= j
  BY DEF WellOrdered
<1>2. k # 0
  <2> DEFINE g0 == [s \in SUBSET (1..0) |-> base]
  <2>1. \A s \in SUBSET (1..0) : s = {}
    OBVIOUS
  <2>2. Solves(g0, ctx, base, seq, 0)
    BY <2>1 DEF Solves
  <2> QED BY <2>2
<1>3. PICK g : Solves(g, ctx, base, seq, k - 1)
  BY <1>1, <1>2
<1> DEFINE h == [s \in SUBSET (1..k) |->
                   IF s \in SUBSET (1..(k - 1)) THEN g[s] ELSE Op(ctx, g[s \ {k}], seq[k])]
<1>4. ASSUME NEW s \in SUBSET (1..k)
      PROVE  h[s] = IF s = {} THEN base ELSE Op(ctx, h[s \ {Max(s)}], seq[Max(s)])
  <2>1. CASE s = {}
    <3>1. s \in SUBSET (1..(k - 1)) /\ h[s] = g[s]
      BY <2>1
    <3>2. g[s] = base
      BY <1>3, <2>1, <3>1 DEF Solves
    <3> QED BY <2>1, <3>1, <3>2
  <2>2. CASE s # {} /\ s \in SUBSET (1..(k - 1))
    <3>1. Max(s) \in s
      BY <2>2, MaxOfPositions
    <3>2. s \ {Max(s)} \in SUBSET (1..(k - 1)) /\ s \ {Max(s)} \in SUBSET (1..k)
      BY <2>2
    <3>3. h[s] = g[s] /\ h[s \ {Max(s)}] = g[s \ {Max(s)}]
      BY <2>2, <3>2
    <3>4. g[s] = Op(ctx, g[s \ {Max(s)}], seq[Max(s)])
      BY <1>3, <2>2 DEF Solves
    <3> QED BY <2>2, <3>3, <3>4
  <2>3. CASE s \notin SUBSET (1..(k - 1))
    <3>1. k \in s /\ s # {}
      BY <2>3
    <3>2. Max(s) = k
      <4>1. Max(s) \in s /\ \A y \in s : y <= Max(s)
        BY <3>1, MaxOfPositions
      <4>2. Max(s) \in 1..k /\ k <= Max(s) /\ k \in Nat
        BY <3>1, <4>1
      <4> QED BY <4>2
    <3>3. s \ {k} \in SUBSET (1..(k - 1)) /\ s \ {k} \in SUBSET (1..k)
      BY <3>1
    <3>4. h[s] = Op(ctx, g[s \ {k}], seq[k]) /\ h[s \ {k}] = g[s \ {k}]
      BY <2>3, <3>3
    <3> QED BY <3>1, <3>2, <3>4
  <2> QED BY <2>1, <2>2, <2>3
<1>5. Solves(h, ctx, base, seq, k)
  <2> HIDE DEF h
  <2>1. DOMAIN h = SUBSET (1..k) /\ h = [s \in DOMAIN h |-> h[s]]
    BY DEF h
  <2> QED BY <1>4, <2>1 DEF Solves
<1> QED BY <1>1, <1>5
-----------------------------------------------------------------------------
\* f is what a fold has computed after each element, from base on.
Run(f, ctx, base, seq) ==
  /\ DOMAIN f = 0..Len(seq)
  /\ f[0] = base
  /\ f[Len(seq)] = Fold(ctx, base, seq)
  /\ \A k \in 1..Len(seq) : f[k] = Op(ctx, f[k - 1], seq[k])

(* A left fold goes through the sequence from base, one application of Op  *)
(* per element.                                                            *)
THEOREM FoldLeftSteps ==
  ASSUME WellOrdered, NEW ctx, NEW base, NEW X, NEW seq \in Seq(X)
  PROVE  \E f : Run(f, ctx, base, seq)
<1>1. DOMAIN seq = 1..Len(seq) /\ Len(seq) \in Nat
  BY SeqFacts
<1>2. PICK g : /\ Fold(ctx, base, seq) = g[DOMAIN seq]
               /\ g = CHOOSE i : i = [s \in SUBSET (DOMAIN seq) |->
                        IF s = {} THEN base ELSE Op(ctx, i[s \ {Max(s)}], seq[Max(s)])]
  BY DEF Fold, MapThenFoldSet
<1>3. \E i : i = [s \in SUBSET (DOMAIN seq) |->
                    IF s = {} THEN base ELSE Op(ctx, i[s \ {Max(s)}], seq[Max(s)])]
  <2>1. PICK i : Solves(i, ctx, base, seq, Len(seq))
    BY <1>1, SolutionExists
  <2> QED BY <1>1, <2>1 DEF Solves
<1>4. g = [s \in SUBSET (DOMAIN seq) |->
             IF s = {} THEN base ELSE Op(ctx, g[s \ {Max(s)}], seq[Max(s)])]
  BY <1>2, <1>3
<1> DEFINE f == [k \in 0..Len(seq) |-> g[1..k]]
<1>5. f[0] = base
  BY <1>1, <1>4
<1>6. f[Len(seq)] = Fold(ctx, base, seq)
  BY <1>1, <1>2
<1>7. ASSUME NEW k \in 1..Len(seq)
      PROVE  f[k] = Op(ctx, f[k - 1], seq[k])
  <2>1. 1..k \in SUBSET (DOMAIN seq) /\ 1..k # {}
    <3>1. k \in Nat /\ 1 <= k /\ k <= Len(seq)
      BY <1>1
    <3>2. k \in 1..k
      BY <3>1
    <3>3. \A y \in 1..k : y \in 1..Len(seq)
      BY <1>1, <3>1
    <3> QED BY <1>1, <3>2, <3>3
  <2>2. Max(1..k) = k
    <3>1. Max(1..k) \in 1..k /\ \A y \in 1..k : y <= Max(1..k)
      BY <1>1, <2>1, MaxOfPositions
    <3> QED BY <1>1, <3>1
  <2>3. (1..k) \ {k} = 1..(k - 1)
    BY <1>1
  <2>4. g[1..k] = Op(ctx, g[(1..k) \ {Max(1..k)}], seq[Max(1..k)])
    BY <1>4, <2>1
  <2>5. f[k] = g[1..k] /\ f[k - 1] = g[1..(k - 1)]
    BY <1>1
  <2> QED BY <2>2, <2>3, <2>4, <2>5
<1> HIDE DEF f
<1>8. DOMAIN f = 0..Len(seq)
  BY DEF f
<1> QED BY <1>5, <1>6, <1>7, <1>8 DEF Run

(* The induction principle of folds: when the result is in A[0] before the *)
(* first element, and each element takes it from A[k - 1] to A[k], then    *)
(* the whole sequence takes it to A[Len(seq)].                             *)
LEMMA FoldLeftAlong ==
  ASSUME WellOrdered, NEW ctx, NEW A, NEW X, NEW seq \in Seq(X), NEW base \in A[0],
         \A k \in 1..Len(seq) : \A a \in A[k - 1] : Op(ctx, a, seq[k]) \in A[k]
  PROVE  Fold(ctx, base, seq) \in A[Len(seq)]
<1>0. PICK f : Run(f, ctx, base, seq)
  BY FoldLeftSteps
<1>1. /\ f[0] = base
      /\ f[Len(seq)] = Fold(ctx, base, seq)
      /\ \A k \in 1..Len(seq) : f[k] = Op(ctx, f[k - 1], seq[k])
  BY <1>0 DEF Run
<1>2. Len(seq) \in Nat
  BY SeqFacts
<1> DEFINE T == {k \in 0..Len(seq) : f[k] \notin A[k]}
<1> SUFFICES ASSUME T # {} PROVE FALSE
  BY <1>1, <1>2
<1>3. T \in SUBSET Nat
  OBVIOUS
<1>4. PICK k \in T : \A j \in T : k <= j
  BY <1>3 DEF WellOrdered
<1>5. k # 0 /\ k \in 1..Len(seq)
  BY <1>1, <1>4
<1>6. f[k - 1] \in A[k - 1]
  BY <1>2, <1>4, <1>5
<1> QED BY <1>1, <1>4, <1>5, <1>6

(* In particular, a fold stays in a set that Op does not leave.            *)
THEOREM FoldLeftIn ==
  ASSUME WellOrdered, NEW ctx, NEW A, NEW X, NEW base \in A, NEW seq \in Seq(X),
         \A a \in A, x \in X : Op(ctx, a, x) \in A
  PROVE  Fold(ctx, base, seq) \in A
<1> DEFINE B == [k \in 0..Len(seq) |-> A]
<1>1. Len(seq) \in Nat /\ \A k \in 1..Len(seq) : seq[k] \in X
  BY SeqFacts
<1>2. \A k \in 0..Len(seq) : B[k] = A
  OBVIOUS
<1> HIDE DEF B
<1>3. base \in B[0] /\ B[Len(seq)] = A
  BY <1>1, <1>2
<1>4. \A k \in 1..Len(seq) : \A a \in B[k - 1] : Op(ctx, a, seq[k]) \in B[k]
  BY <1>1, <1>2
<1>5. Fold(ctx, base, seq) \in B[Len(seq)]
  BY <1>3, <1>4, FoldLeftAlong
<1> QED BY <1>3, <1>5

(* A fold over one more element is one more application of Op.             *)
THEOREM FoldLeftAppend ==
  ASSUME WellOrdered, NEW ctx, NEW base, NEW X, NEW seq \in Seq(X), NEW x \in X
  PROVE  Fold(ctx, base, Append(seq, x)) = Op(ctx, Fold(ctx, base, seq), x)
<1>1. PICK n \in Nat : n = Len(seq)
  BY SeqFacts
<1>2. PICK new : new = Append(seq, x)
  OBVIOUS
<1>3. /\ new \in Seq(X) /\ Len(new) = n + 1 /\ new[n + 1] = x
      /\ \A i \in 1..n : new[i] = seq[i]
  BY <1>1, <1>2, AppendFacts
<1>4. PICK f : Run(f, ctx, base, seq)
  BY FoldLeftSteps
<1>5. PICK g : Run(g, ctx, base, new)
  BY <1>3, FoldLeftSteps
<1>6. /\ f[0] = base /\ f[n] = Fold(ctx, base, seq)
      /\ \A k \in 1..n : f[k] = Op(ctx, f[k - 1], seq[k])
  BY <1>1, <1>4 DEF Run
<1>7. /\ g[0] = base /\ g[n + 1] = Fold(ctx, base, new)
      /\ \A k \in 1..(n + 1) : g[k] = Op(ctx, g[k - 1], new[k])
  BY <1>3, <1>5 DEF Run
<1>8. f[n] = g[n]
  <2> DEFINE T == {k \in 0..n : f[k] # g[k]}
  <2> SUFFICES ASSUME T # {} PROVE FALSE
    BY <1>1
  <2>1. T \in SUBSET Nat
    OBVIOUS
  <2>2. PICK k \in T : \A j \in T : k <= j
    BY <2>1 DEF WellOrdered
  <2>3. k # 0 /\ k \in 1..n /\ k \in 1..(n + 1)
    BY <1>6, <1>7, <2>2
  <2>4. f[k - 1] = g[k - 1]
    BY <2>2, <2>3
  <2> QED BY <1>3, <1>6, <1>7, <2>2, <2>3, <2>4
<1>9. n + 1 \in 1..(n + 1) /\ (n + 1) - 1 = n
  OBVIOUS
<1>10. g[n + 1] = Op(ctx, g[n], x)
  BY <1>3, <1>7, <1>9
<1> QED BY <1>2, <1>6, <1>7, <1>8, <1>10
=============================================================================
