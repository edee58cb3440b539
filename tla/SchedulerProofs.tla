--------------------------- MODULE SchedulerProofs --------------------------
(***************************************************************************)
(* What the operators of BatchScheduler and of KVPoolOps do to a peer's    *)
(* queue, running requests and cache memory, for every number of requests  *)
(* and blocks: the lemmas ExecutorProofs rests on.  A shard here has an    *)
(* attention layer (NeedsBlocks).                                          *)
(***************************************************************************)
EXTENDS BatchScheduler, SequenceTheorems, FiniteSetTheorems, TLAPS

(* What the inductions start from: a set of naturals that is not empty has *)
(* a least element.                                                        *)
LEMMA LeastElement == \A T \in SUBSET Nat : T # {} => \E x \in T : \A y \in T : x <= y
<1> SUFFICES ASSUME NEW T \in SUBSET Nat, T # {} PROVE \E x \in T : \A y \in T : x <= y
  OBVIOUS
<1>1. \E x \in T : \A y \in T : ~(<<y, x>> \in OpToRel(<, Nat))
  BY NatLessThanWellFounded, WFMin
<1>2. \A x, y \in Nat : <<y, x>> \in OpToRel(<, Nat) <=> y < x
  BY DEF OpToRel
<1>3. PICK x \in T : \A y \in T : ~(y < x)
  BY <1>1, <1>2
<1> QED BY <1>3

KeepOne(S, kept, x) == IF x \in S THEN Append(kept, x) ELSE kept
Keep == INSTANCE FoldLemmas WITH Op <- KeepOne

\* kept is what is left of the first k elements of seq when those not in S go.
IsKept(X, kept, seq, S, k) ==
  /\ kept \in Seq(X) /\ Len(kept) <= k
  /\ \A a \in 1..Len(kept) : kept[a] \in S /\ \E i \in 1..k : kept[a] = seq[i]
  /\ \A i \in 1..k : seq[i] \in S => \E a \in 1..Len(kept) : kept[a] = seq[i]
  /\ \A a, b \in 1..Len(kept) : a # b =>
       \E i, j \in 1..k : i # j /\ kept[a] = seq[i] /\ kept[b] = seq[j]
  /\ (\E i \in 1..k : seq[i] \notin S) => Len(kept) < k

LEMMA KeepStep ==
  ASSUME NEW X, NEW seq \in Seq(X), NEW S, NEW k \in 1..Len(seq), NEW kept,
         IsKept(X, kept, seq, S, k - 1)
  PROVE  IsKept(X, KeepOne(S, kept, seq[k]), seq, S, k)
<1>1. Len(seq) \in Nat /\ k \in Nat /\ k >= 1 /\ seq[k] \in X
  BY LenProperties, ElementOfSeq
<1>2. PICK n \in Nat : n = Len(kept) /\ n <= k - 1 /\ kept \in Seq(X)
  BY LenProperties DEF IsKept
<1>3. PICK x \in X : x = seq[k]
  BY <1>1
<1>4. \A i \in 1..k : i \in 1..(k - 1) \/ i = k
  BY <1>1
<1>5. k \in 1..k /\ \A i \in 1..(k - 1) : i \in 1..k /\ i # k
  BY <1>1
<1>a. /\ \A a \in 1..n : kept[a] \in S /\ \E i \in 1..(k - 1) : kept[a] = seq[i]
      /\ \A a, b \in 1..n : a # b =>
           \E i, j \in 1..(k - 1) : i # j /\ kept[a] = seq[i] /\ kept[b] = seq[j]
  BY <1>2 DEF IsKept
<1>6. CASE x \in S
  <2>1. PICK new : new = Append(kept, x)
    OBVIOUS
  <2>2. /\ new \in Seq(X) /\ Len(new) = n + 1 /\ new[n + 1] = x
        /\ \A a \in 1..n : new[a] = kept[a]
    BY <1>2, <2>1, AppendProperties
  <2>3. \A a \in 1..(n + 1) : a \in 1..n \/ a = n + 1
    BY <1>2
  <2>4. n + 1 \in 1..(n + 1) /\ \A a \in 1..n : a \in 1..(n + 1)
    BY <1>2
  <2>5. \A a \in 1..(n + 1) : new[a] \in S /\ \E i \in 1..k : new[a] = seq[i]
    <3> SUFFICES ASSUME NEW a \in 1..(n + 1)
                 PROVE  new[a] \in S /\ \E i \in 1..k : new[a] = seq[i]
      OBVIOUS
    <3>1. CASE a \in 1..n
      <4>1. kept[a] \in S /\ new[a] = kept[a]
        BY <1>a, <2>2, <3>1
      <4>2. PICK i \in 1..(k - 1) : kept[a] = seq[i]
        BY <1>a, <3>1
      <4> QED BY <1>5, <4>1, <4>2
    <3>2. CASE a = n + 1
      BY <1>3, <1>5, <1>6, <2>2, <3>2
    <3> QED BY <2>3, <3>1, <3>2
  <2>6. ASSUME NEW i \in 1..k, seq[i] \in S PROVE \E a \in 1..(n + 1) : new[a] = seq[i]
    <3>1. CASE i = k
      BY <1>3, <2>2, <2>4, <3>1
    <3>2. CASE i # k
      <4>1. i \in 1..(k - 1)
        BY <1>4, <3>2
      <4>2. PICK a \in 1..n : kept[a] = seq[i]
        BY <1>2, <2>6, <4>1 DEF IsKept
      <4> QED BY <2>2, <2>4, <4>2
    <3> QED BY <3>1, <3>2
  <2>7. \A a, b \in 1..(n + 1) : a # b =>
          \E i, j \in 1..k : i # j /\ new[a] = seq[i] /\ new[b] = seq[j]
    <3> SUFFICES ASSUME NEW a \in 1..(n + 1), NEW b \in 1..(n + 1), a # b
                 PROVE  \E i, j \in 1..k : i # j /\ new[a] = seq[i] /\ new[b] = seq[j]
      OBVIOUS
    <3>1. CASE a \in 1..n /\ b \in 1..n
      <4>1. PICK i \in 1..(k - 1), j \in 1..(k - 1) : i # j /\ kept[a] = seq[i] /\ kept[b] = seq[j]
        BY <1>a, <3>1
      <4> QED BY <1>5, <2>2, <3>1, <4>1
    <3>2. CASE a \in 1..n /\ b = n + 1
      <4>1. PICK i \in 1..(k - 1) : kept[a] = seq[i]
        BY <1>2, <3>2 DEF IsKept
      <4> QED BY <1>3, <1>5, <2>2, <3>2, <4>1
    <3>3. CASE a = n + 1 /\ b \in 1..n
      <4>1. PICK i \in 1..(k - 1) : kept[b] = seq[i]
        BY <1>2, <3>3 DEF IsKept
      <4> QED BY <1>3, <1>5, <2>2, <3>3, <4>1
    <3> QED BY <2>3, <3>1, <3>2, <3>3
  <2>8. (\E i \in 1..k : seq[i] \notin S) => n + 1 < k
    <3> SUFFICES ASSUME NEW i \in 1..k, seq[i] \notin S PROVE n + 1 < k
      OBVIOUS
    <3>1. i \in 1..(k - 1)
      BY <1>3, <1>4, <1>6
    <3>2. n < k - 1
      BY <1>2, <3>1 DEF IsKept
    <3> QED BY <1>1, <1>2, <3>2
  <2>9. n + 1 <= k
    BY <1>1, <1>2
  <2>10. IsKept(X, new, seq, S, k)
    BY <2>2, <2>5, <2>6, <2>7, <2>8, <2>9 DEF IsKept
  <2> QED BY <1>3, <1>6, <2>1, <2>10 DEF KeepOne
<1>7. CASE x \notin S
  <2>1. \A a \in 1..n : kept[a] \in S /\ \E i \in 1..k : kept[a] = seq[i]
    BY <1>2, <1>5 DEF IsKept
  <2>2. \A i \in 1..k : seq[i] \in S => \E a \in 1..n : kept[a] = seq[i]
    BY <1>2, <1>3, <1>4, <1>7 DEF IsKept
  <2>3. \A a, b \in 1..n : a # b =>
          \E i, j \in 1..k : i # j /\ kept[a] = seq[i] /\ kept[b] = seq[j]
    BY <1>2, <1>5 DEF IsKept
  <2>4. n < k /\ n <= k
    BY <1>1, <1>2
  <2>5. IsKept(X, kept, seq, S, k)
    BY <1>2, <2>1, <2>2, <2>3, <2>4 DEF IsKept
  <2> QED BY <1>3, <1>7, <2>5 DEF KeepOne
<1> QED BY <1>6, <1>7

LEMMA SelectedFacts ==
  ASSUME NEW X, NEW seq \in Seq(X), NEW S
  PROVE  IsKept(X, Selected(seq, S), seq, S, Len(seq))
<1> DEFINE A == [k \in 0..Len(seq) |-> {kept \in Seq(X) : IsKept(X, kept, seq, S, k)}]
           empty == << >>
<1>1. Len(seq) \in Nat
  BY LenProperties
<1>2. empty \in A[0]
  <2>1. IsKept(X, << >>, seq, S, 0)
    BY EmptySeq DEF IsKept
  <2> QED BY <1>1, <2>1, EmptySeq
<1>3. ASSUME NEW k \in 1..Len(seq), NEW a \in A[k - 1]
      PROVE  KeepOne(S, a, seq[k]) \in A[k]
  <2>1. k - 1 \in 0..Len(seq) /\ k \in 0..Len(seq)
    BY <1>1
  <2>2. IsKept(X, a, seq, S, k - 1)
    BY <2>1
  <2>3. IsKept(X, KeepOne(S, a, seq[k]), seq, S, k)
    BY <2>2, KeepStep
  <2>4. KeepOne(S, a, seq[k]) \in Seq(X)
    BY <2>3 DEF IsKept
  <2> QED BY <2>1, <2>3, <2>4
<1>4. Keep!Fold(S, empty, seq) \in A[Len(seq)]
  <2> HIDE DEF A, empty
  <2> QED BY <1>2, <1>3, LeastElement, Keep!FoldLeftAlong DEF Keep!WellOrdered
<1>5. Keep!Fold(S, empty, seq) = Selected(seq, S)
  BY Zenon DEF Keep!Fold, Selected, KeepOne, FoldLeft, MapThenFoldSet,
               Keep!MapThenFoldSet, Max, Keep!Max
<1>6. Len(seq) \in 0..Len(seq)
  BY <1>1
<1> QED BY <1>4, <1>5, <1>6
-----------------------------------------------------------------------------
(* Lists of requests.                                                      *)

ReqRec == [rid : Request, status : {"prefill", "decode"}, prompt_len : Nat, total : Nat,
           out : Nat, max_new : Nat, ready : BOOLEAN, abort : BOOLEAN]

\* What a peer holds: the first peer requests of kind "initial", which know the
\* length of their prompt, and the others of kind "intermediate".
Entry(k) ==
  {q \in ReqRec : k = "initial" /\ q.status = "prefill" => q.total = q.prompt_len}

Distinct(reqs) == \A i, j \in DOMAIN reqs : reqs[i].rid = reqs[j].rid => i = j
ReadyIn(reqs, r) == \E i \in DOMAIN reqs : reqs[i].rid = r /\ reqs[i].ready

LEMMA ListFacts ==
  ASSUME NEW X, NEW reqs \in Seq(X)
  PROVE  /\ Len(reqs) \in Nat /\ DOMAIN reqs = 1..Len(reqs)
         /\ \A i \in 1..Len(reqs) : reqs[i] \in X
         /\ \A x : x \in Range(reqs) <=> \E i \in 1..Len(reqs) : reqs[i] = x
  BY LenProperties, ElementOfSeq DEF Range

\* q with one of its flags changed; on is what it says when it is ready.
IsFlagged(k, q, on, new) ==
  new \in Entry(k) /\ new.rid = q.rid /\ new.status = q.status /\ (new.ready <=> on)

LEMMA FlagFacts ==
  ASSUME NEW k, NEW q \in Entry(k)
  PROVE  /\ IsFlagged(k, q, TRUE, [q EXCEPT !.ready = TRUE])
         /\ IsFlagged(k, q, FALSE, [q EXCEPT !.ready = FALSE])
         /\ IsFlagged(k, q, q.ready, [q EXCEPT !.abort = TRUE])
  BY DEF IsFlagged, Entry, ReqRec

IsWithout(k, reqs, rid, new) ==
  /\ new \in Seq(Entry(k)) /\ Len(new) <= Len(reqs)
  /\ rid \in Ids(reqs) => Len(new) < Len(reqs)
  /\ \A r : r \in Ids(new) <=> r \in Ids(reqs) /\ r # rid
  /\ \A r : ReadyIn(new, r) => ReadyIn(reqs, r) /\ r # rid
  /\ Distinct(reqs) => Distinct(new)

LEMMA WithoutFacts ==
  ASSUME NEW k, NEW reqs \in Seq(Entry(k)), NEW rid
  PROVE  IsWithout(k, reqs, rid, Without(reqs, rid))
<1>1. PICK S : S = {q \in Range(reqs) : q.rid # rid}
  OBVIOUS
<1>2. PICK new : new = Without(reqs, rid)
  OBVIOUS
<1>3. PICK n \in Nat : n = Len(reqs) /\ DOMAIN reqs = 1..n
  BY ListFacts
<1>4. IsKept(Entry(k), new, reqs, S, n)
  BY <1>1, <1>2, <1>3, SelectedFacts DEF Without
<1>5. PICK m \in Nat : m = Len(new) /\ DOMAIN new = 1..m
  BY <1>4, ListFacts DEF IsKept
<1>6. \A i \in 1..n : reqs[i] \in S <=> reqs[i].rid # rid
  BY <1>1, <1>3, ListFacts
<1>7. \A a \in 1..m : \E i \in 1..n : new[a] = reqs[i] /\ reqs[i].rid # rid
  BY <1>4, <1>5, <1>6 DEF IsKept
<1>8. \A i \in 1..n : reqs[i].rid # rid => \E a \in 1..m : new[a] = reqs[i]
  BY <1>4, <1>5, <1>6 DEF IsKept
<1>9. new \in Seq(Entry(k)) /\ Len(new) <= Len(reqs)
  BY <1>3, <1>4 DEF IsKept
<1>10. rid \in Ids(reqs) => Len(new) < Len(reqs)
  BY <1>3, <1>4, <1>6 DEF IsKept, Ids
<1>11. \A r : r \in Ids(new) <=> r \in Ids(reqs) /\ r # rid
  <2> TAKE r
  <2>1. r \in Ids(new) <=> \E a \in 1..m : new[a].rid = r
    BY <1>5 DEF Ids
  <2>2. r \in Ids(reqs) <=> \E i \in 1..n : reqs[i].rid = r
    BY <1>3 DEF Ids
  <2>3. ASSUME r \in Ids(new) PROVE r \in Ids(reqs) /\ r # rid
    BY <1>7, <2>1, <2>2, <2>3
  <2>4. ASSUME r \in Ids(reqs), r # rid PROVE r \in Ids(new)
    BY <1>8, <2>1, <2>2, <2>4
  <2> QED BY <2>3, <2>4
<1>12. \A r : ReadyIn(new, r) => ReadyIn(reqs, r) /\ r # rid
  BY <1>3, <1>5, <1>7 DEF ReadyIn
<1>13. Distinct(reqs) => Distinct(new)
  <2> SUFFICES ASSUME Distinct(reqs), NEW a \in 1..m, NEW b \in 1..m,
                      new[a].rid = new[b].rid, a # b
               PROVE  FALSE
    BY <1>5 DEF Distinct
  <2>1. PICK i \in 1..n, j \in 1..n : i # j /\ new[a] = reqs[i] /\ new[b] = reqs[j]
    BY <1>4, <1>5 DEF IsKept
  <2> QED BY <1>3, <2>1 DEF Distinct
<1> QED BY <1>2, <1>9, <1>10, <1>11, <1>12, <1>13 DEF IsWithout

IsAppended(k, reqs, q, new) ==
  /\ new \in Seq(Entry(k)) /\ Len(new) = Len(reqs) + 1
  /\ \A r : r \in Ids(new) <=> r \in Ids(reqs) \/ r = q.rid
  /\ \A r : ReadyIn(new, r) => ReadyIn(reqs, r) \/ r = q.rid
  /\ Distinct(reqs) /\ q.rid \notin Ids(reqs) => Distinct(new)

LEMMA AppendedFacts ==
  ASSUME NEW k, NEW reqs \in Seq(Entry(k)), NEW q \in Entry(k)
  PROVE  IsAppended(k, reqs, q, Append(reqs, q))
<1>1. PICK new : new = Append(reqs, q)
  OBVIOUS
<1>2. PICK n \in Nat : n = Len(reqs) /\ DOMAIN reqs = 1..n
  BY ListFacts
<1>3. /\ new \in Seq(Entry(k)) /\ Len(new) = n + 1 /\ DOMAIN new = 1..(n + 1)
      /\ new[n + 1] = q /\ \A i \in 1..n : new[i] = reqs[i]
  BY <1>1, <1>2, AppendProperties, LenProperties
<1>4. /\ n + 1 \in 1..(n + 1) /\ \A i \in 1..n : i \in 1..(n + 1)
      /\ \A i \in 1..(n + 1) : i \in 1..n \/ i = n + 1
  OBVIOUS
<1>5. \A r : r \in Ids(new) <=> r \in Ids(reqs) \/ r = q.rid
  BY <1>2, <1>3, <1>4 DEF Ids
<1>6. \A r : ReadyIn(new, r) => ReadyIn(reqs, r) \/ r = q.rid
  BY <1>2, <1>3, <1>4 DEF ReadyIn
<1>7. Distinct(reqs) /\ q.rid \notin Ids(reqs) => Distinct(new)
  BY <1>2, <1>3, <1>4 DEF Distinct, Ids
<1> QED BY <1>1, <1>2, <1>3, <1>5, <1>6, <1>7 DEF IsAppended

\* new is reqs with some flags changed; the requests rids are not ready.
IsMarked(k, reqs, rids, new) ==
  /\ new \in Seq(Entry(k)) /\ Len(new) = Len(reqs) /\ Ids(new) = Ids(reqs)
  /\ \A r : ReadyIn(new, r) => ReadyIn(reqs, r) /\ r \notin rids
  /\ Distinct(reqs) => Distinct(new)

LEMMA MarkedFacts ==
  ASSUME NEW k, NEW reqs \in Seq(Entry(k)), NEW rids, NEW new, DOMAIN new = DOMAIN reqs,
         new = [i \in DOMAIN new |-> new[i]],
         \A i \in DOMAIN reqs : new[i] \in Entry(k) /\ new[i].rid = reqs[i].rid,
         \A i \in DOMAIN reqs : new[i].ready => reqs[i].ready /\ reqs[i].rid \notin rids
  PROVE  IsMarked(k, reqs, rids, new)
<1>1. PICK n \in Nat : n = Len(reqs) /\ DOMAIN reqs = 1..n
  BY ListFacts
<1>2. new \in [1..n -> Entry(k)]
  BY <1>1
<1>3. new \in Seq(Entry(k))
  BY <1>2, SeqDef
<1>4. Len(new) = n
  BY <1>2, <1>3, LenProperties
<1>5. Ids(new) = Ids(reqs)
  BY DEF Ids
<1>6. \A r : ReadyIn(new, r) => ReadyIn(reqs, r) /\ r \notin rids
  BY DEF ReadyIn
<1>7. Distinct(reqs) => Distinct(new)
  BY DEF Distinct
<1> QED BY <1>1, <1>3, <1>4, <1>5, <1>6, <1>7 DEF IsMarked

LEMMA SetAbortFacts ==
  ASSUME NEW k, NEW reqs \in Seq(Entry(k)), NEW rids
  PROVE  IsMarked(k, reqs, {}, SetAbort(reqs, rids))
<1>1. PICK new : new = SetAbort(reqs, rids)
  OBVIOUS
<1>2. DOMAIN new = DOMAIN reqs /\ new = [i \in DOMAIN new |-> new[i]]
  BY <1>1 DEF SetAbort
<1>3. \A i \in DOMAIN reqs : reqs[i] \in Entry(k)
  BY ListFacts
<1>4. ASSUME NEW i \in DOMAIN reqs
      PROVE  /\ new[i] \in Entry(k) /\ new[i].rid = reqs[i].rid
             /\ new[i].ready => reqs[i].ready
  <2>1. CASE reqs[i].rid \in rids
    <3>1. new[i] = [reqs[i] EXCEPT !.abort = TRUE]
      BY <1>1, <2>1 DEF SetAbort
    <3>2. PICK q \in Entry(k) : q = reqs[i]
      BY <1>3
    <3>3. IsFlagged(k, q, q.ready, [q EXCEPT !.abort = TRUE])
      BY FlagFacts
    <3>4. IsFlagged(k, reqs[i], reqs[i].ready, new[i])
      BY <3>1, <3>2, <3>3, Zenon
    <3> QED BY <2>1, <3>4, Zenon DEF IsFlagged
  <2>2. CASE reqs[i].rid \notin rids
    BY <1>1, <1>3, <2>2 DEF SetAbort
  <2> QED BY <2>1, <2>2
<1>5. IsMarked(k, reqs, {}, new)
  BY <1>2, <1>4, MarkedFacts
<1> QED BY <1>1, <1>5

LEMMA ClearReadyFacts ==
  ASSUME NEW k, NEW reqs \in Seq(Entry(k)), NEW rids
  PROVE  IsMarked(k, reqs, rids, ClearReady(reqs, rids))
<1>1. PICK new : new = ClearReady(reqs, rids)
  OBVIOUS
<1>2. DOMAIN new = DOMAIN reqs /\ new = [i \in DOMAIN new |-> new[i]]
  BY <1>1 DEF ClearReady
<1>3. \A i \in DOMAIN reqs : reqs[i] \in Entry(k)
  BY ListFacts
<1>4. ASSUME NEW i \in DOMAIN reqs
      PROVE  /\ new[i] \in Entry(k) /\ new[i].rid = reqs[i].rid
             /\ new[i].ready => reqs[i].ready /\ reqs[i].rid \notin rids
  <2>1. CASE reqs[i].rid \in rids
    <3>1. new[i] = [reqs[i] EXCEPT !.ready = FALSE]
      BY <1>1, <2>1 DEF ClearReady
    <3>2. PICK q \in Entry(k) : q = reqs[i]
      BY <1>3
    <3>3. IsFlagged(k, q, FALSE, [q EXCEPT !.ready = FALSE])
      BY FlagFacts
    <3>4. IsFlagged(k, reqs[i], FALSE, new[i])
      BY <3>1, <3>2, <3>3, Zenon
    <3> QED BY <2>1, <3>4, Zenon DEF IsFlagged
  <2>2. CASE reqs[i].rid \notin rids
    BY <1>1, <1>3, <2>2 DEF ClearReady
  <2> QED BY <2>1, <2>2
<1>5. IsMarked(k, reqs, rids, new)
  BY <1>2, <1>4, MarkedFacts
<1> QED BY <1>1, <1>5
-----------------------------------------------------------------------------
(* The cache memory.                                                       *)

Pool == [free_blocks : Int, context : [Request -> Nat \cup {Absent}],
         free_slots : Int, slotted : SUBSET Request]

\* The blocks of a request's context.
Held(pool, r) == IF pool.context[r] = Absent THEN 0 ELSE BlocksFor(pool.context[r])

\* The counts of pool stand for B blocks: there are sets of blocks, of the sizes
\* pool says, such that none is in two of them.
Backs(pool, B, tables, free) ==
  /\ tables \in [Request -> SUBSET (1..B)] /\ free \in SUBSET (1..B)
  /\ \A r, q \in Request : r # q => tables[r] \cap tables[q] = {}
  /\ \A r \in Request : tables[r] \cap free = {} /\ Cardinality(tables[r]) = Held(pool, r)
  /\ pool.free_blocks = Cardinality(free)

Backed(pool, B) == \E tables, free : Backs(pool, B, tables, free)

LEMMA BackedBounds ==
  ASSUME NEW B \in Nat, NEW pool, Backed(pool, B)
  PROVE  pool.free_blocks \in 0..B
<1>1. PICK tables, free : Backs(pool, B, tables, free)
  BY DEF Backed
<1>2. IsFiniteSet(1..B) /\ Cardinality(1..B) = B
  BY FS_Interval
<1>3. free \in SUBSET (1..B) /\ pool.free_blocks = Cardinality(free)
  BY <1>1 DEF Backs
<1>4. IsFiniteSet(free) /\ Cardinality(free) <= B
  BY <1>2, <1>3, FS_Subset
<1>5. Cardinality(free) \in Nat
  BY <1>4, FS_CardinalityType
<1> QED BY <1>3, <1>4, <1>5

(* A finite set has subsets of every smaller size.                         *)
LEMMA SubsetOfSize ==
  ASSUME NEW F, IsFiniteSet(F), NEW n \in Nat, n <= Cardinality(F)
  PROVE  \E S \in SUBSET F : Cardinality(S) = n
<1>1. PICK m \in Nat : m = Cardinality(F)
  BY FS_CardinalityType
<1>2. PICK f \in Bijection(1..m, F) : TRUE
  BY <1>1, FS_CardinalityType DEF ExistsBijection
<1>3. f \in [1..m -> F] /\ \A i, j \in 1..m : f[i] = f[j] => i = j
  BY <1>2 DEF Bijection, Injection, IsInjective
<1>4. \A i \in 1..n : i \in 1..m
  BY <1>1
<1>5. PICK S : S = {x \in F : \E i \in 1..n : x = f[i]}
  OBVIOUS
<1>6. PICK g : g = [i \in 1..n |-> f[i]]
  OBVIOUS
<1>7. g \in Surjection(1..n, S) /\ g \in Injection(1..n, S)
  BY <1>3, <1>4, <1>5, <1>6 DEF Surjection, Injection, IsInjective
<1>8. IsFiniteSet(1..n) /\ Cardinality(1..n) = n
  BY FS_Interval
<1>9. Cardinality(S) = n
  BY <1>7, <1>8, FS_Surjection
<1> QED BY <1>5, <1>9

LEMMA BlocksForNat ==
  ASSUME NEW n \in Nat
  PROVE  BlocksFor(n) \in Nat
  BY BlockSizeAssumption DEF BlocksFor

(* One more token needs a block exactly when the last one is full.         *)
LEMMA BlocksForNext ==
  ASSUME NEW n \in Nat
  PROVE  BlocksFor(n + 1) = BlocksFor(n) + (IF n % BlockSize = 0 THEN 1 ELSE 0)
<1> DEFINE q == n \div BlockSize
           m == n % BlockSize
           b == BlockSize
<1>1. b \in Nat /\ b > 0 /\ q \in Nat /\ m \in 0..(b - 1) /\ n = b * q + m
  BY BlockSizeAssumption
<1> HIDE DEF q, m, b
<1>2. ASSUME NEW a \in Nat, NEW d \in Nat, b * d <= a, a < b * d + b
      PROVE  a \div b = d
  <2> DEFINE e == a \div b
  <2>1. e \in Nat /\ b * e <= a /\ a < b * e + b
    BY <1>1
  <2> HIDE DEF e
  <2>2. d + 1 <= e => b * (d + 1) <= b * e
    BY <1>1, <2>1
  <2>3. e + 1 <= d => b * (e + 1) <= b * d
    BY <1>1, <2>1
  <2>4. b * (d + 1) = b * d + b /\ b * (e + 1) = b * e + b
    BY <1>1, <2>1
  <2>5. b * e \in Nat /\ b * d \in Nat
    BY <1>1, <2>1
  <2>6. ~(d + 1 <= e) /\ ~(e + 1 <= d)
    BY <1>1, <1>2, <2>1, <2>2, <2>3, <2>4, <2>5
  <2> QED BY <2>1, <2>6 DEF e
<1>3. b * q \in Nat /\ b * (q + 1) = b * q + b
  BY <1>1
<1>4. (n + b) \div b = q + 1
  BY <1>1, <1>2, <1>3
<1>5. m = 0 => (n + b - 1) \div b = q
  BY <1>1, <1>2, <1>3
<1>6. m # 0 => (n + b - 1) \div b = q + 1
  BY <1>1, <1>2, <1>3
<1>7. BlocksFor(n) = (n + b - 1) \div b /\ BlocksFor(n + 1) = (n + 1 + b - 1) \div b
  BY DEF BlocksFor, b
<1>8. n + 1 + b - 1 = n + b
  BY <1>1
<1>9. m = 0 \/ m # 0
  OBVIOUS
<1>10. BlocksFor(n + 1) = BlocksFor(n) + (IF m = 0 THEN 1 ELSE 0)
  BY <1>1, <1>4, <1>5, <1>6, <1>7, <1>8
<1> QED BY <1>10 DEF m

(* A table that gives way to another one: the blocks of new are its own or *)
(* free ones, and what it leaves is free.                                  *)
LEMMA BackedChange ==
  ASSUME NEW B \in Nat, NEW pool, NEW tables, NEW free, Backs(pool, B, tables, free),
         NEW r \in Request, NEW new, NEW table, NEW rest,
         table \subseteq tables[r] \cup free, rest \subseteq (tables[r] \cup free) \ table,
         Cardinality(table) = Held(new, r), Cardinality(rest) = new.free_blocks,
         \A q \in Request : q # r => new.context[q] = pool.context[q]
  PROVE  Backed(new, B)
<1>1. PICK others : others = [tables EXCEPT ![r] = table]
  OBVIOUS
<1>2. /\ tables \in [Request -> SUBSET (1..B)] /\ free \in SUBSET (1..B)
      /\ \A p, q \in Request : p # q => tables[p] \cap tables[q] = {}
      /\ \A q \in Request : tables[q] \cap free = {} /\ Cardinality(tables[q]) = Held(pool, q)
  BY DEF Backs
<1>3. tables[r] \in SUBSET (1..B)
  BY <1>2
<1>4. others \in [Request -> SUBSET (1..B)] /\ rest \in SUBSET (1..B)
  BY <1>1, <1>2, <1>3
<1>5. others[r] = table /\ \A q \in Request : q # r => others[q] = tables[q]
  BY <1>1, <1>2
<1>6. \A q \in Request : q # r => tables[q] \cap (tables[r] \cup free) = {}
  BY <1>2
<1>7. \A p, q \in Request : p # q => others[p] \cap others[q] = {}
  BY <1>2, <1>5, <1>6
<1>8. \A q \in Request : others[q] \cap rest = {}
  BY <1>5, <1>6
<1>9. \A q \in Request : q # r => Held(new, q) = Held(pool, q)
  BY DEF Held
<1>10. \A q \in Request : Cardinality(others[q]) = Held(new, q)
  BY <1>2, <1>5, <1>9
<1>11. Backs(new, B, others, rest)
  BY <1>4, <1>7, <1>8, <1>10 DEF Backs
<1> QED BY <1>11 DEF Backed

LEMMA BackingSizes ==
  ASSUME NEW B \in Nat, NEW pool, NEW tables, NEW free, Backs(pool, B, tables, free),
         NEW r \in Request
  PROVE  /\ IsFiniteSet(free) /\ Cardinality(free) \in Nat /\ Cardinality(free) = pool.free_blocks
         /\ IsFiniteSet(tables[r]) /\ Cardinality(tables[r]) \in Nat
         /\ Cardinality(tables[r]) = Held(pool, r) /\ tables[r] \cap free = {}
<1>1. IsFiniteSet(1..B)
  BY FS_Interval
<1>2. free \in SUBSET (1..B) /\ tables[r] \in SUBSET (1..B)
  BY DEF Backs
<1>3. IsFiniteSet(free) /\ IsFiniteSet(tables[r])
  BY <1>1, <1>2, FS_Subset
<1> QED BY <1>3, FS_CardinalityType DEF Backs

(* allocate_request of a request without a table.                          *)
LEMMA AllocateBacked ==
  ASSUME NeedsBlocks, NEW B \in Nat, NEW pool \in Pool, Backed(pool, B),
         NEW r \in Request, NEW n \in Nat, NEW new,
         new = allocate_request(pool, r, n), pool.context[r] = Absent, can_allocate(pool, n)
  PROVE  /\ new \in Pool /\ Backed(new, B) /\ new.context = [pool.context EXCEPT ![r] = n]
<1>1. PICK k \in Nat : k = BlocksFor(n)
  BY BlocksForNat
<1>2. /\ pool.free_blocks \in Int /\ pool.context \in [Request -> Nat \cup {Absent}]
      /\ pool.free_slots \in Int /\ pool.slotted \in SUBSET Request
  BY DEF Pool
<1>3. new = Commit(pool, r, n)
  BY DEF allocate_request
<1>4. /\ new.free_blocks = pool.free_blocks - k
      /\ new.context = [pool.context EXCEPT ![r] = n]
  BY <1>1, <1>3 DEF Commit
<1>5. new \in Pool
  <2>1. PICK c : c = new.context
    OBVIOUS
  <2>2. c \in [Request -> Nat \cup {Absent}]
    BY <1>2, <1>4, <2>1
  <2>3. PICK b \in Int : b = new.free_blocks
    BY <1>1, <1>2, <1>4
  <2>4. PICK s \in Int : s = new.free_slots
    BY <1>2, <1>3 DEF Commit
  <2>5. PICK h \in SUBSET Request : h = new.slotted
    BY <1>2, <1>3 DEF Commit
  <2>6. new = [free_blocks |-> b, context |-> c, free_slots |-> s, slotted |-> h]
    BY <1>3, <2>1, <2>3, <2>4, <2>5 DEF Commit
  <2> QED BY <2>2, <2>6 DEF Pool
<1>6. Backed(new, B)
  <2>1. PICK tables, free : Backs(pool, B, tables, free)
    BY DEF Backed
  <2>2. /\ IsFiniteSet(free) /\ Cardinality(free) \in Nat /\ Cardinality(free) = pool.free_blocks
        /\ tables[r] \cap free = {}
    BY <2>1, BackingSizes
  <2>3. k <= Cardinality(free)
    BY <1>1, <1>2, <2>2 DEF can_allocate
  <2>4. PICK table \in SUBSET free : Cardinality(table) = k
    BY <2>2, <2>3, SubsetOfSize
  <2>5. free \cap table = table
    OBVIOUS
  <2>6. Cardinality(free \ table) = Cardinality(free) - k
    BY <2>2, <2>4, <2>5, FS_Difference
  <2>7. new.context[r] = n /\ \A q \in Request : q # r => new.context[q] = pool.context[q]
    BY <1>2, <1>4
  <2>8. Held(new, r) = k
    BY <1>1, <2>7 DEF Held, Absent
  <2>9. PICK rest : rest = free \ table
    OBVIOUS
  <2>10. /\ table \subseteq tables[r] \cup free /\ rest \subseteq (tables[r] \cup free) \ table
         /\ Cardinality(table) = Held(new, r) /\ Cardinality(rest) = new.free_blocks
    BY <1>4, <2>2, <2>4, <2>6, <2>8, <2>9
  <2> QED BY <2>1, <2>7, <2>10, BackedChange
<1> QED BY <1>4, <1>5, <1>6

LEMMA FreeBacked ==
  ASSUME NEW B \in Nat, NEW pool \in Pool, Backed(pool, B),
         NEW r \in Request, NEW new, new = free_request(pool, r)
  PROVE  /\ new \in Pool /\ Backed(new, B)
         /\ new.context = [pool.context EXCEPT ![r] = Absent]
<1>1. /\ pool.free_blocks \in Int /\ pool.context \in [Request -> Nat \cup {Absent}]
      /\ pool.free_slots \in Int /\ pool.slotted \in SUBSET Request
  BY DEF Pool
<1>2. pool.context[r] \in Nat \cup {Absent}
  BY <1>1
<1>3. PICK k \in Nat : k = Held(pool, r)
  BY <1>2, BlocksForNat DEF Held
<1>4. /\ new.free_blocks = pool.free_blocks + k
      /\ new.context = [pool.context EXCEPT ![r] = Absent]
  BY <1>3 DEF free_request, Held
<1>5. new \in Pool
  <2>1. PICK c : c = new.context
    OBVIOUS
  <2>2. c \in [Request -> Nat \cup {Absent}]
    BY <1>1, <1>4, <2>1
  <2>3. PICK b \in Int : b = new.free_blocks
    BY <1>1, <1>3, <1>4
  <2>4. PICK s \in Int : s = new.free_slots
    BY <1>1 DEF free_request
  <2>5. PICK h \in SUBSET Request : h = new.slotted
    BY <1>1 DEF free_request
  <2>6. new = [free_blocks |-> b, context |-> c, free_slots |-> s, slotted |-> h]
    BY <2>1, <2>3, <2>4, <2>5 DEF free_request
  <2> QED BY <2>2, <2>6 DEF Pool
<1>6. Backed(new, B)
  <2>1. PICK tables, free : Backs(pool, B, tables, free)
    BY DEF Backed
  <2>2. /\ IsFiniteSet(free) /\ Cardinality(free) \in Nat /\ Cardinality(free) = pool.free_blocks
        /\ IsFiniteSet(tables[r]) /\ Cardinality(tables[r]) = k /\ tables[r] \cap free = {}
    BY <1>3, <2>1, BackingSizes
  <2>3. PICK rest : rest = tables[r] \cup free
    OBVIOUS
  <2>4. Cardinality(tables[r] \cap free) = 0
    BY <2>2, FS_EmptySet
  <2>5. Cardinality(rest) = k + Cardinality(free)
    BY <1>3, <2>2, <2>3, <2>4, FS_Union
  <2>6. new.context[r] = Absent /\ \A q \in Request : q # r => new.context[q] = pool.context[q]
    BY <1>1, <1>4
  <2>7. Held(new, r) = 0
    BY <2>6 DEF Held
  <2>8. PICK table : table = {}
    OBVIOUS
  <2>9. Cardinality(table) = 0
    BY <2>8, FS_EmptySet
  <2>10. /\ table \subseteq tables[r] \cup free /\ rest \subseteq (tables[r] \cup free) \ table
         /\ Cardinality(table) = Held(new, r) /\ Cardinality(rest) = new.free_blocks
    BY <1>1, <1>3, <1>4, <2>2, <2>3, <2>5, <2>7, <2>8, <2>9
  <2> QED BY <2>1, <2>6, <2>10, BackedChange
<1> QED BY <1>4, <1>5, <1>6

LEMMA AppendBacked ==
  ASSUME NeedsBlocks, NEW B \in Nat, NEW pool \in Pool, Backed(pool, B),
         NEW r \in Request, NEW new, new = append_slot(pool, r)
  PROVE  /\ new \in Pool /\ Backed(new, B)
         /\ \A q \in Request : new.context[q] = Absent <=> pool.context[q] = Absent
<1>1. /\ pool.free_blocks \in Int /\ pool.context \in [Request -> Nat \cup {Absent}]
      /\ pool.free_slots \in Int /\ pool.slotted \in SUBSET Request
  BY DEF Pool
<1>2. CASE ~append_ok(pool, r)
  BY <1>2 DEF append_slot
<1>3. CASE append_ok(pool, r)
  <2>1. PICK c \in Nat : c = pool.context[r]
    BY <1>1, <1>3 DEF append_ok
  <2>2. PICK m \in Nat : m = IF c % BlockSize = 0 THEN 1 ELSE 0
    OBVIOUS
  <2>3. /\ new.free_blocks = pool.free_blocks - m
        /\ new.context = [pool.context EXCEPT ![r] = c + 1]
        /\ new.free_slots = pool.free_slots /\ new.slotted = pool.slotted
    BY <1>3, <2>1, <2>2 DEF append_slot
  <2>4. new.context[r] = c + 1 /\ \A q \in Request : q # r => new.context[q] = pool.context[q]
    BY <1>1, <2>3
  <2>5. new \in Pool
    <3>1. PICK d : d = new.context
      OBVIOUS
    <3>2. d \in [Request -> Nat \cup {Absent}]
      BY <1>1, <2>3, <3>1
    <3>3. PICK b \in Int : b = new.free_blocks
      BY <1>1, <2>2, <2>3
    <3>4. new = [free_blocks |-> b, context |-> d, free_slots |-> pool.free_slots,
                 slotted |-> pool.slotted]
      BY <1>3, <3>1, <3>3 DEF append_slot
    <3> QED BY <1>1, <3>2, <3>4 DEF Pool
  <2>6. Backed(new, B)
    <3>1. PICK tables, free : Backs(pool, B, tables, free)
      BY DEF Backed
    <3>2. /\ IsFiniteSet(free) /\ Cardinality(free) \in Nat /\ Cardinality(free) = pool.free_blocks
          /\ IsFiniteSet(tables[r]) /\ Cardinality(tables[r]) \in Nat
          /\ Cardinality(tables[r]) = Held(pool, r) /\ tables[r] \cap free = {}
      BY <3>1, BackingSizes
    <3>3. Held(pool, r) = BlocksFor(c) /\ Held(new, r) = BlocksFor(c + 1)
      BY <2>1, <2>4 DEF Held, Absent
    <3>4. Held(new, r) = Held(pool, r) + m
      BY <2>1, <2>2, <3>3, BlocksForNext
    <3>5. CASE m = 0
      BY <1>1, <2>3, <2>4, <3>1, <3>2, <3>4, <3>5, BackedChange
    <3>6. CASE m = 1
      <4>1. pool.free_blocks > 0
        BY <1>3, <2>1, <2>2, <3>6 DEF append_ok
      <4>2. free # {}
        BY <3>2, <4>1, FS_EmptySet
      <4>3. PICK x : x \in free
        BY <4>2
      <4>4. PICK table : table = tables[r] \cup {x}
        OBVIOUS
      <4>5. PICK rest : rest = free \ {x}
        OBVIOUS
      <4>6. x \notin tables[r]
        BY <3>2, <4>3
      <4>7. Cardinality(table) = Cardinality(tables[r]) + 1
        BY <3>2, <4>4, <4>6, FS_AddElement
      <4>8. Cardinality(rest) = Cardinality(free) - 1
        BY <3>2, <4>3, <4>5, FS_RemoveElement
      <4>9. /\ table \subseteq tables[r] \cup free /\ rest \subseteq (tables[r] \cup free) \ table
        BY <3>2, <4>3, <4>4, <4>5
      <4>10. Cardinality(table) = Held(new, r) /\ Cardinality(rest) = new.free_blocks
        BY <2>3, <3>2, <3>4, <3>6, <4>7, <4>8
      <4> QED BY <2>4, <3>1, <4>9, <4>10, BackedChange
    <3> QED BY <2>2, <3>5, <3>6
  <2>7. \A q \in Request : new.context[q] = Absent <=> pool.context[q] = Absent
    <3>1. c # -1 /\ c + 1 # -1
      OBVIOUS
    <3>2. new.context[r] # Absent /\ pool.context[r] # Absent
      BY <2>1, <2>4, <3>1 DEF Absent
    <3> QED BY <2>4, <3>2
  <2> QED BY <2>5, <2>6, <2>7
<1> QED BY <1>2, <1>3
-----------------------------------------------------------------------------
(* A peer's scheduler.                                                     *)

Sched(k) == [wait : Seq(Entry(k)), running : Seq(Entry(k)), pool : Pool,
             metric : Nat, reported : Nat]

\* What every operation preserves at a peer with B blocks: in particular that
\* exactly the running requests hold cache memory.
Good(k, B, s) ==
  /\ s \in Sched(k) /\ Backed(s.pool, B)
  /\ Distinct(s.running) /\ Len(s.running) <= MaxBatchSize
  /\ \A r \in Request : s.pool.context[r] # Absent <=> r \in Ids(s.running)

\* No request has two steps pending at the peer.
Sound(s) == Distinct(s.wait) /\ \A r \in Ids(s.wait) : ~ReadyIn(s.running, r)

\* No queued request is running.
Apart(s) == \A r \in Ids(s.wait) : r \notin Ids(s.running)

\* t is s after steps that leave the queue alone and make only requests of C ready.
Keeps(s, t, C) ==
  /\ t.wait = s.wait
  /\ \A r : r \in Ids(t.running) => r \in Ids(s.running)
  /\ \A r : ReadyIn(t.running, r) => ReadyIn(s.running, r) \/ r \in C

LEMMA SchedTypes ==
  ASSUME NEW k, NEW s \in Sched(k)
  PROVE  /\ s.wait \in Seq(Entry(k)) /\ s.running \in Seq(Entry(k)) /\ s.pool \in Pool
         /\ s.metric \in Nat /\ s.reported \in Nat
  BY DEF Sched

LEMMA IdsType ==
  ASSUME NEW k, NEW reqs \in Seq(Entry(k))
  PROVE  \A r \in Ids(reqs) : r \in Request
<1>1. \A i \in DOMAIN reqs : reqs[i].rid \in Request
  BY ListFacts DEF Entry, ReqRec
<1> QED BY <1>1 DEF Ids

LEMMA KeepsSound ==
  ASSUME NEW s, NEW t, NEW C, Keeps(s, t, C), Sound(s), \A r \in C : r \notin Ids(s.wait)
  PROVE  Sound(t)
  BY DEF Keeps, Sound

LEMMA KeepsApart ==
  ASSUME NEW s, NEW t, NEW C, Keeps(s, t, C), Apart(s)
  PROVE  Apart(t)
  BY DEF Keeps, Apart

\* A running request is replaced by q, its next step.
Renew(s, q) == [s EXCEPT !.running = Append(Without(s.running, q.rid), q)]

LEMMA RenewGood ==
  ASSUME NEW k, NEW B \in Nat, NEW s, Good(k, B, s), NEW q \in Entry(k),
         q.rid \in Ids(s.running)
  PROVE  Good(k, B, Renew(s, q)) /\ Keeps(s, Renew(s, q), {q.rid})
<1>0. PICK t : t = Renew(s, q)
  OBVIOUS
<1>1. s \in Sched(k) /\ s.running \in Seq(Entry(k))
  BY SchedTypes DEF Good
<1>2. PICK rest : rest = Without(s.running, q.rid)
  OBVIOUS
<1>3. IsWithout(k, s.running, q.rid, rest)
  BY <1>1, <1>2, WithoutFacts
<1>4. PICK new : new = Append(rest, q)
  OBVIOUS
<1>5. IsAppended(k, rest, q, new)
  BY <1>3, <1>4, AppendedFacts DEF IsWithout
<1>6. t = [s EXCEPT !.running = new]
  BY <1>0, <1>2, <1>4 DEF Renew
<1>7. new \in Seq(Entry(k)) /\ t \in Sched(k)
  BY <1>1, <1>5, <1>6 DEF Sched, IsAppended
<1>8. t.running = new /\ t.wait = s.wait /\ t.pool = s.pool
  BY <1>1, <1>6 DEF Sched
<1>9. \A r : r \in Ids(new) <=> r \in Ids(s.running)
  BY <1>3, <1>5 DEF IsWithout, IsAppended
<1>10. \A r : ReadyIn(new, r) => ReadyIn(s.running, r) \/ r \in {q.rid}
  BY <1>3, <1>5 DEF IsWithout, IsAppended
<1>11. Distinct(new)
  BY <1>3, <1>5 DEF IsWithout, IsAppended, Good
<1>12. Len(new) <= MaxBatchSize
  <2>1. Len(s.running) \in Nat /\ Len(rest) \in Nat /\ Len(new) \in Nat
    BY <1>1, <1>3, <1>7, LenProperties DEF IsWithout
  <2>2. Len(rest) < Len(s.running) /\ Len(new) = Len(rest) + 1 /\ Len(s.running) <= MaxBatchSize
    BY <1>3, <1>5 DEF IsWithout, IsAppended, Good
  <2> QED BY <2>1, <2>2, BatchAssumption
<1>13. Keeps(s, t, {q.rid})
  BY <1>8, <1>9, <1>10 DEF Keeps
<1> QED BY <1>0, <1>7, <1>8, <1>9, <1>11, <1>12, <1>13 DEF Good

\* q joins the queue.
Enlist(s, q) == [s EXCEPT !.wait = Append(s.wait, q)]

IsEnlisted(k, B, s, q, t) ==
  Good(k, B, t) /\ t.running = s.running /\ IsAppended(k, s.wait, q, t.wait)

LEMMA QueueGood ==
  ASSUME NEW k, NEW B \in Nat, NEW s, Good(k, B, s), NEW q \in Entry(k)
  PROVE  IsEnlisted(k, B, s, q, Enlist(s, q))
<1>0. PICK t : t = Enlist(s, q)
  OBVIOUS
<1>1. s \in Sched(k) /\ s.wait \in Seq(Entry(k))
  BY SchedTypes DEF Good
<1>2. PICK new : new = Append(s.wait, q)
  OBVIOUS
<1>3. IsAppended(k, s.wait, q, new)
  BY <1>1, <1>2, AppendedFacts
<1>4. t \in Sched(k) /\ t.wait = new /\ t.running = s.running /\ t.pool = s.pool
  BY <1>0, <1>1, <1>2, <1>3 DEF Sched, IsAppended, Enlist
<1>5. Good(k, B, t)
  BY <1>4 DEF Good
<1> QED BY <1>0, <1>3, <1>4, <1>5 DEF IsEnlisted

(* A request leaves the running ones and its memory is returned.           *)
LEMMA LetGoGood ==
  ASSUME NEW k, NEW B \in Nat, NEW s, Good(k, B, s), NEW r \in Request, NEW m \in Nat, NEW t,
         t = [wait |-> s.wait, running |-> Without(s.running, r),
              pool |-> free_request(s.pool, r), metric |-> m, reported |-> s.reported]
  PROVE  Good(k, B, t) /\ Keeps(s, t, {}) /\ r \notin Ids(t.running)
<1>1. /\ s \in Sched(k) /\ s.running \in Seq(Entry(k)) /\ s.wait \in Seq(Entry(k))
      /\ s.pool \in Pool /\ s.reported \in Nat
  BY SchedTypes DEF Good
<1>2. PICK new : new = Without(s.running, r)
  OBVIOUS
<1>3. IsWithout(k, s.running, r, new)
  BY <1>1, <1>2, WithoutFacts
<1>4. PICK pool : pool = free_request(s.pool, r)
  OBVIOUS
<1>5. pool \in Pool /\ Backed(pool, B) /\ pool.context = [s.pool.context EXCEPT ![r] = Absent]
  BY <1>1, <1>4, FreeBacked DEF Good
<1>6. t = [wait |-> s.wait, running |-> new, pool |-> pool, metric |-> m, reported |-> s.reported]
  BY <1>2, <1>4
<1>7. t \in Sched(k) /\ t.wait = s.wait /\ t.running = new /\ t.pool = pool
  BY <1>1, <1>3, <1>5, <1>6 DEF Sched, IsWithout
<1>8. \A q : q \in Ids(new) <=> q \in Ids(s.running) /\ q # r
  BY <1>3 DEF IsWithout
<1>9. s.pool.context \in [Request -> Nat \cup {Absent}]
  BY <1>1 DEF Pool
<1>10. \A q \in Request : pool.context[q] # Absent <=> q \in Ids(new)
  BY <1>5, <1>8, <1>9 DEF Good
<1>11. Keeps(s, t, {})
  BY <1>3, <1>7 DEF Keeps, IsWithout
<1>12. Len(new) <= MaxBatchSize
  <2>1. Len(s.running) \in Nat /\ Len(new) \in Nat
    BY <1>1, <1>3, LenProperties DEF IsWithout
  <2>2. Len(new) <= Len(s.running) /\ Len(s.running) <= MaxBatchSize
    BY <1>3 DEF IsWithout, Good
  <2> QED BY <2>1, <2>2, BatchAssumption
<1>13. Distinct(new)
  BY <1>3 DEF IsWithout, Good
<1> QED BY <1>5, <1>7, <1>8, <1>10, <1>11, <1>12, <1>13 DEF Good

(* Only flags of running requests change.                                  *)
LEMMA MarkGood ==
  ASSUME NEW k, NEW B \in Nat, NEW s, Good(k, B, s), NEW rids, NEW new,
         IsMarked(k, s.running, rids, new), NEW t, t = [s EXCEPT !.running = new]
  PROVE  /\ Good(k, B, t) /\ Keeps(s, t, {}) /\ t.running = new
         /\ \A r \in rids : ~ReadyIn(t.running, r)
<1>1. s \in Sched(k) /\ s.running \in Seq(Entry(k))
  BY SchedTypes DEF Good
<1>2. t \in Sched(k) /\ t.wait = s.wait /\ t.running = new /\ t.pool = s.pool
  BY <1>1 DEF Sched, IsMarked
<1>3. Keeps(s, t, {})
  BY <1>2 DEF Keeps, IsMarked
<1> QED BY <1>2, <1>3 DEF Good, IsMarked

\* Only memory of requests that have some changes.
SamePresence(pool, new) == \A r \in Request : new.context[r] = Absent <=> pool.context[r] = Absent

WithPool(s, pool) == [s EXCEPT !.pool = pool]

IsWithPool(k, B, s, t) == Good(k, B, t) /\ t.wait = s.wait /\ t.running = s.running

LEMMA GrowGood ==
  ASSUME NEW k, NEW B \in Nat, NEW s, Good(k, B, s), NEW pool \in Pool, Backed(pool, B),
         SamePresence(s.pool, pool)
  PROVE  IsWithPool(k, B, s, WithPool(s, pool))
<1>0. PICK t : t = WithPool(s, pool)
  OBVIOUS
<1>1. s \in Sched(k)
  BY DEF Good
<1>2. t \in Sched(k) /\ t.wait = s.wait /\ t.running = s.running /\ t.pool = pool
  BY <1>0, <1>1 DEF Sched, WithPool
<1>3. Good(k, B, t)
  BY <1>2 DEF Good, SamePresence
<1> QED BY <1>0, <1>2, <1>3 DEF IsWithPool
-----------------------------------------------------------------------------
(* Admission.                                                              *)

SoFar(reqs, i) == {reqs[j].rid : j \in 1..i}

\* t is s after the loop of admit_requests has seen the first i requests of the
\* queue W.
Admitted(k, B, s, t, W, i) ==
  /\ Good(k, B, t)
  /\ \A r : r \in Ids(t.wait) => r \in SoFar(W, i)
  /\ \A r : r \in Ids(t.running) => r \in Ids(s.running) \/ r \in SoFar(W, i)
  /\ \A r : ReadyIn(t.running, r) => ReadyIn(s.running, r) \/ r \in SoFar(W, i)
  /\ Distinct(W) =>
       /\ Distinct(t.wait)
       /\ \A r \in Ids(t.wait) : r \in Ids(t.running) => r \in Ids(s.running)
       /\ \A r \in Ids(t.wait) : ReadyIn(t.running, r) => ReadyIn(s.running, r)

LEMMA AdmitStep ==
  ASSUME NeedsBlocks, NEW k, NEW B \in Nat, NEW s, NEW W \in Seq(Entry(k)),
         NEW i \in 1..Len(W), NEW t, Admitted(k, B, s, t, W, i - 1)
  PROVE  Admitted(k, B, s, AdmitOne(t, W[i]), W, i)
<1>1. PICK n \in Nat : n = Len(W) /\ DOMAIN W = 1..n
  BY ListFacts
<1>2. i \in 1..n /\ i \in Nat /\ i \in 1..i
  BY <1>1
<1>3. PICK q \in Entry(k) : q = W[i]
  BY <1>1, <1>2, ListFacts
<1>4. PICK u : u = AdmitOne(t, q)
  OBVIOUS
<1>5. PICK S : S = SoFar(W, i)
  OBVIOUS
<1>6. PICK R : R = SoFar(W, i - 1)
  OBVIOUS
<1>7. \A r : r \in S <=> r \in R \/ r = q.rid
  <2>1. \A j : j \in 1..i <=> j \in 1..(i - 1) \/ j = i
    BY <1>2
  <2> QED BY <1>3, <1>5, <1>6, <2>1 DEF SoFar
<1>8. Distinct(W) => q.rid \notin R
  <2>1. \A j \in 1..(i - 1) : j \in 1..n /\ j # i
    BY <1>1, <1>2
  <2>2. ASSUME Distinct(W), q.rid \in R PROVE FALSE
    <3>1. PICK j \in 1..(i - 1) : W[j].rid = q.rid
      BY <1>6, <2>2 DEF SoFar
    <3> QED BY <1>1, <1>2, <1>3, <2>1, <2>2, <3>1 DEF Distinct
  <2> QED BY <2>2
<1>9. /\ Good(k, B, t)
      /\ \A r : r \in Ids(t.wait) => r \in R
      /\ \A r : r \in Ids(t.running) => r \in Ids(s.running) \/ r \in R
      /\ \A r : ReadyIn(t.running, r) => ReadyIn(s.running, r) \/ r \in R
      /\ Distinct(W) =>
           /\ Distinct(t.wait)
           /\ \A r \in Ids(t.wait) : r \in Ids(t.running) => r \in Ids(s.running)
           /\ \A r \in Ids(t.wait) : ReadyIn(t.running, r) => ReadyIn(s.running, r)
  BY <1>6 DEF Admitted
<1>10. q.rid \in Request /\ q.total \in Nat
  BY DEF Entry, ReqRec
<1>11. CASE Len(t.running) >= MaxBatchSize
  <2>1. u = [t EXCEPT !.wait = Append(t.wait, q)]
    BY <1>4, <1>11 DEF AdmitOne
  <2>2. Good(k, B, u) /\ u.running = t.running /\ IsAppended(k, t.wait, q, u.wait)
    <3>1. Good(k, B, t)
      BY <1>9
    <3>2. IsEnlisted(k, B, t, q, Enlist(t, q))
      BY <3>1, QueueGood
    <3> QED BY <2>1, <3>2 DEF IsEnlisted, Enlist
  <2>3. \A r : r \in Ids(u.wait) <=> r \in Ids(t.wait) \/ r = q.rid
    BY <2>2 DEF IsAppended
  <2>4. Distinct(W) => Distinct(u.wait)
    BY <1>8, <1>9, <2>2 DEF IsAppended
  <2>5. Distinct(W) =>
           /\ \A r \in Ids(u.wait) : r \in Ids(u.running) => r \in Ids(s.running)
           /\ \A r \in Ids(u.wait) : ReadyIn(u.running, r) => ReadyIn(s.running, r)
    BY <1>8, <1>9, <2>2, <2>3
  <2>6. Admitted(k, B, s, u, W, i)
    BY <1>5, <1>7, <1>9, <2>2, <2>3, <2>4, <2>5 DEF Admitted
  <2> QED BY <1>3, <1>4, <2>6
<1>12. CASE /\ ~(Len(t.running) >= MaxBatchSize)
            /\ \/ q.rid \in Ids(t.running)
               \/ ~has_request(t.pool, q.rid) /\ ~allocate_ok(t.pool, q.rid, q.total)
  <2>1. u = t
    BY <1>4, <1>12 DEF AdmitOne
  <2>2. Admitted(k, B, s, u, W, i)
    BY <1>5, <1>7, <1>9, <2>1 DEF Admitted
  <2> QED BY <1>3, <1>4, <2>2
<1>13. CASE /\ ~(Len(t.running) >= MaxBatchSize)
            /\ q.rid \notin Ids(t.running)
            /\ has_request(t.pool, q.rid) \/ allocate_ok(t.pool, q.rid, q.total)
  <2>1. t \in Sched(k) /\ t.running \in Seq(Entry(k)) /\ t.pool \in Pool
    BY <1>9, SchedTypes DEF Good
  <2>2. t.pool.context[q.rid] = Absent
    BY <1>9, <1>10, <1>13 DEF Good
  <2>3. ~has_request(t.pool, q.rid) /\ can_allocate(t.pool, q.total)
    BY <1>13, <2>2 DEF has_request, allocate_ok
  <2>4. PICK pool : pool = allocate_request(t.pool, q.rid, q.total)
    OBVIOUS
  <2>5. PICK new : new = Append(t.running, q)
    OBVIOUS
  <2>6. /\ pool \in Pool /\ Backed(pool, B)
        /\ pool.context = [t.pool.context EXCEPT ![q.rid] = q.total]
    BY <1>9, <1>10, <2>1, <2>2, <2>3, <2>4, AllocateBacked DEF Good
  <2>7. IsAppended(k, t.running, q, new)
    BY <2>1, <2>5, AppendedFacts
  <2>8. u = [t EXCEPT !.pool = pool, !.running = new]
    BY <1>4, <1>13, <2>3, <2>4, <2>5 DEF AdmitOne
  <2>9. /\ u \in Sched(k) /\ u.wait = t.wait /\ u.running = new /\ u.pool = pool
    BY <2>1, <2>6, <2>7, <2>8 DEF Sched, IsAppended
  <2>10. \A r : r \in Ids(new) <=> r \in Ids(t.running) \/ r = q.rid
    BY <2>7 DEF IsAppended
  <2>11. t.pool.context \in [Request -> Nat \cup {Absent}]
    BY <2>1 DEF Pool
  <2>12. q.total # Absent
    BY <1>10 DEF Absent
  <2>13. \A r \in Request : pool.context[r] # Absent <=> r \in Ids(new)
    BY <1>9, <1>10, <2>6, <2>10, <2>11, <2>12 DEF Good
  <2>14. Len(new) <= MaxBatchSize
    <3>1. Len(t.running) \in Nat /\ Len(new) = Len(t.running) + 1
      BY <2>1, <2>7, LenProperties DEF IsAppended
    <3> QED BY <1>13, <3>1, BatchAssumption
  <2>15. Good(k, B, u)
    BY <1>9, <1>13, <2>6, <2>7, <2>9, <2>13, <2>14 DEF Good, IsAppended
  <2>16. \A r : ReadyIn(new, r) => ReadyIn(t.running, r) \/ r = q.rid
    BY <2>7 DEF IsAppended
  <2>17. Distinct(W) =>
           /\ Distinct(u.wait)
           /\ \A r \in Ids(u.wait) : r \in Ids(u.running) => r \in Ids(s.running)
           /\ \A r \in Ids(u.wait) : ReadyIn(u.running, r) => ReadyIn(s.running, r)
    BY <1>8, <1>9, <2>9, <2>10, <2>16
  <2>18. Admitted(k, B, s, u, W, i)
    BY <1>5, <1>7, <1>9, <2>9, <2>10, <2>15, <2>16, <2>17 DEF Admitted
  <2> QED BY <1>3, <1>4, <2>18
<1> QED BY <1>11, <1>12, <1>13

AdmitEach(none, s, q) == AdmitOne(s, q)
Admission == INSTANCE FoldLemmas WITH Op <- AdmitEach

\* t is s after steps that move requests from the queue to the running ones.
Moves(s, t) ==
  /\ \A r : r \in Ids(t.wait) => r \in Ids(s.wait)
  /\ \A r : r \in Ids(t.running) => r \in Ids(s.running) \/ r \in Ids(s.wait)
  /\ \A r : ReadyIn(t.running, r) => ReadyIn(s.running, r) \/ r \in Ids(s.wait)
  /\ Sound(s) => Sound(t)
  /\ Sound(s) /\ Apart(s) => Apart(t)

LEMMA AdmitGood ==
  ASSUME NeedsBlocks, NEW k, NEW B \in Nat, NEW s, Good(k, B, s)
  PROVE  Good(k, B, admit_requests(s)) /\ Moves(s, admit_requests(s))
<1>1. PICK W : W = s.wait
  OBVIOUS
<1>2. s \in Sched(k) /\ W \in Seq(Entry(k))
  BY <1>1, SchedTypes DEF Good
<1>3. PICK n \in Nat : n = Len(W) /\ DOMAIN W = 1..n
  BY <1>2, ListFacts
<1>4. PICK base : base = [s EXCEPT !.wait = << >>]
  OBVIOUS
<1> DEFINE A == [i \in 0..n |-> {t \in Sched(k) : Admitted(k, B, s, t, W, i)}]
<1>5. base \in A[0]
  <2>0. PICK e : e = << >>
    OBVIOUS
  <2>1. e \in Seq(Entry(k)) /\ DOMAIN e = {}
    <3>1. e \in Seq(Entry(k)) /\ Len(e) = 0
      BY <2>0, EmptySeq
    <3>2. DOMAIN e = 1..0
      BY <3>1, LenProperties
    <3> QED BY <3>1, <3>2
  <2>2. base = [s EXCEPT !.wait = e]
    BY <1>4, <2>0
  <2>3. base \in Sched(k) /\ base.wait = e /\ base.running = s.running /\ base.pool = s.pool
    BY <1>2, <2>1, <2>2 DEF Sched
  <2>4. Good(k, B, base)
    BY <2>3 DEF Good
  <2>5. Ids(e) = {} /\ Distinct(e)
    BY <2>1 DEF Ids, Distinct
  <2>6. Admitted(k, B, s, base, W, 0)
    BY <2>3, <2>4, <2>5 DEF Admitted
  <2> QED BY <2>3, <2>6
<1>6. ASSUME NEW i \in 1..n, NEW t \in A[i - 1]
      PROVE  AdmitEach(0, t, W[i]) \in A[i]
  <2>1. i - 1 \in 0..n /\ i \in 0..n
    BY <1>3
  <2>2. Admitted(k, B, s, t, W, i - 1)
    BY <2>1
  <2>3. Admitted(k, B, s, AdmitOne(t, W[i]), W, i)
    BY <1>2, <1>3, <2>2, AdmitStep
  <2>4. AdmitOne(t, W[i]) \in Sched(k)
    BY <2>3 DEF Admitted, Good
  <2> QED BY <2>1, <2>3, <2>4 DEF AdmitEach
<1>7. PICK t : t = Admission!Fold(0, base, W)
  OBVIOUS
<1>8. t \in A[n]
  <2> HIDE DEF A
  <2> QED BY <1>2, <1>3, <1>5, <1>6, <1>7, LeastElement, Admission!FoldLeftAlong
             DEF Admission!WellOrdered
<1>9. n \in 0..n
  BY <1>3
<1>10. Admitted(k, B, s, t, W, n)
  BY <1>8, <1>9
<1>11. Admission!Fold(0, base, W) = FoldLeft(AdmitOne, base, W)
  BY Zenon DEF Admission!Fold, AdmitEach, FoldLeft, MapThenFoldSet,
               Admission!MapThenFoldSet, Max, Admission!Max
<1>12. PICK u : u = admit_requests(s)
  OBVIOUS
<1>13. u = ReportRunning(t)
  BY <1>1, <1>4, <1>7, <1>11, <1>12 DEF admit_requests
<1>14. t \in Sched(k) /\ t.running \in Seq(Entry(k)) /\ Good(k, B, t)
  BY <1>10, SchedTypes DEF Admitted, Good
<1>15. u \in Sched(k) /\ u.wait = t.wait /\ u.running = t.running /\ u.pool = t.pool
  <2>1. PICK m \in Nat : m = Len(t.running)
    BY <1>14, LenProperties
  <2>2. u = t \/ u = [t EXCEPT !.metric = m, !.reported = m]
    BY <1>13, <2>1 DEF ReportRunning
  <2> QED BY <1>14, <2>2 DEF Sched
<1>16. Good(k, B, u)
  BY <1>14, <1>15 DEF Good
<1>17. SoFar(W, n) = Ids(s.wait)
  BY <1>1, <1>3 DEF SoFar, Ids
<1>18. Admitted(k, B, s, t, W, n) /\ SoFar(W, n) = Ids(s.wait)
  BY <1>10, <1>17
<1>19. /\ \A r : r \in Ids(u.wait) => r \in Ids(s.wait)
       /\ \A r : r \in Ids(u.running) => r \in Ids(s.running) \/ r \in Ids(s.wait)
       /\ \A r : ReadyIn(u.running, r) => ReadyIn(s.running, r) \/ r \in Ids(s.wait)
       /\ Distinct(W) =>
            /\ Distinct(u.wait)
            /\ \A r \in Ids(u.wait) : r \in Ids(u.running) => r \in Ids(s.running)
            /\ \A r \in Ids(u.wait) : ReadyIn(u.running, r) => ReadyIn(s.running, r)
  BY <1>15, <1>18 DEF Admitted
<1>20. Sound(s) => Sound(u)
  BY <1>1, <1>19 DEF Sound
<1>21. Sound(s) /\ Apart(s) => Apart(u)
  BY <1>1, <1>19 DEF Sound, Apart
<1>22. Moves(s, u)
  BY <1>19, <1>20, <1>21 DEF Moves
<1> QED BY <1>12, <1>16, <1>22
-----------------------------------------------------------------------------
(* The batch of an iteration.                                              *)

\* L is a list of ready requests, each of which is once among the running ones.
Drawn(k, s, L) ==
  /\ L \in Seq(Entry(k)) /\ Distinct(L)
  /\ \A a \in DOMAIN L : L[a].ready /\ \E i \in DOMAIN s.running : L[a] = s.running[i]

\* Every request of L has status st.
AllAre(L, st) == \A a \in DOMAIN L : L[a].status = st

LEMMA DrawnAreReady ==
  ASSUME NEW k, NEW s, NEW L, Drawn(k, s, L)
  PROVE  \A r \in Ids(L) : r \in Ids(s.running) /\ ReadyIn(s.running, r)
  BY DEF Drawn, Ids, ReadyIn

(* A part of a list of running requests that have something in common.     *)
LEMMA PartFacts ==
  ASSUME NEW k, NEW reqs \in Seq(Entry(k)), Distinct(reqs), NEW S, NEW new,
         new = Selected(reqs, S)
  PROVE  /\ new \in Seq(Entry(k)) /\ Distinct(new)
         /\ \A a \in DOMAIN new : new[a] \in S /\ \E i \in DOMAIN reqs : new[a] = reqs[i]
         /\ \A i \in DOMAIN reqs : reqs[i] \in S => \E a \in DOMAIN new : new[a] = reqs[i]
<1>1. PICK n \in Nat : n = Len(reqs) /\ DOMAIN reqs = 1..n
  BY ListFacts
<1>2. IsKept(Entry(k), new, reqs, S, n)
  BY <1>1, SelectedFacts
<1>3. PICK m \in Nat : m = Len(new) /\ DOMAIN new = 1..m
  BY <1>2, ListFacts DEF IsKept
<1>4. \A a, b \in 1..m : a # b =>
        \E i, j \in 1..n : i # j /\ new[a] = reqs[i] /\ new[b] = reqs[j]
  BY <1>2, <1>3 DEF IsKept
<1>5. Distinct(new)
  <2> SUFFICES ASSUME NEW a \in 1..m, NEW b \in 1..m, new[a].rid = new[b].rid, a # b
               PROVE  FALSE
    BY <1>3 DEF Distinct
  <2>1. PICK i \in 1..n, j \in 1..n : i # j /\ new[a] = reqs[i] /\ new[b] = reqs[j]
    BY <1>4
  <2> QED BY <1>1, <2>1 DEF Distinct
<1>6. new \in Seq(Entry(k))
  BY <1>2 DEF IsKept
<1>7. \A a \in 1..m : new[a] \in S /\ \E i \in 1..n : new[a] = reqs[i]
  BY <1>2, <1>3 DEF IsKept
<1>8. \A i \in 1..n : reqs[i] \in S => \E a \in 1..m : new[a] = reqs[i]
  BY <1>2, <1>3 DEF IsKept
<1>9. \A a \in DOMAIN new : new[a] \in S /\ \E i \in DOMAIN reqs : new[a] = reqs[i]
  BY <1>1, <1>3, <1>7, Zenon
<1>10. \A i \in DOMAIN reqs : reqs[i] \in S => \E a \in DOMAIN new : new[a] = reqs[i]
  BY <1>1, <1>3, <1>8, Zenon
<1> QED BY <1>5, <1>6, <1>9, <1>10, Zenon

LEMMA ReadyList ==
  ASSUME NEW k, NEW B, NEW s, Good(k, B, s), NEW st
  PROVE  Drawn(k, s, Ready(s, st)) /\ AllAre(Ready(s, st), st)
<1>1. PICK reqs : reqs = s.running
  OBVIOUS
<1>2. reqs \in Seq(Entry(k)) /\ Distinct(reqs)
  BY <1>1, SchedTypes DEF Good
<1>3. PICK S : S = {q \in Range(reqs) : q.ready /\ q.status = st}
  OBVIOUS
<1>4. PICK new : new = Selected(reqs, S)
  OBVIOUS
<1>5. /\ new \in Seq(Entry(k)) /\ Distinct(new)
      /\ \A a \in DOMAIN new : new[a] \in S /\ \E i \in DOMAIN reqs : new[a] = reqs[i]
  BY <1>2, <1>4, PartFacts
<1>6. \A x \in S : x.ready /\ x.status = st
  BY <1>3
<1>7. Drawn(k, s, new) /\ AllAre(new, st)
  BY <1>1, <1>5, <1>6 DEF Drawn, AllAre
<1> QED BY <1>1, <1>3, <1>4, <1>7 DEF Ready

LEMMA ConcatDrawn ==
  ASSUME NEW k, NEW s, Distinct(s.running), NEW L, NEW M, Drawn(k, s, L), Drawn(k, s, M),
         AllAre(L, "prefill"), AllAre(M, "decode")
  PROVE  Drawn(k, s, L \o M)
<1>1. L \in Seq(Entry(k)) /\ M \in Seq(Entry(k))
  BY DEF Drawn
<1>2. PICK n \in Nat : n = Len(L) /\ DOMAIN L = 1..n
  BY <1>1, ListFacts
<1>3. PICK m \in Nat : m = Len(M) /\ DOMAIN M = 1..m
  BY <1>1, ListFacts
<1>4. PICK new : new = L \o M
  OBVIOUS
<1>5. /\ new \in Seq(Entry(k)) /\ Len(new) = n + m
      /\ \A a \in 1..(n + m) : new[a] = IF a <= n THEN L[a] ELSE M[a - n]
  BY <1>1, <1>2, <1>3, <1>4, ConcatProperties
<1>6. DOMAIN new = 1..(n + m)
  BY <1>5, LenProperties
<1>7. \A a \in 1..(n + m) : a \in 1..n \/ (a - n \in 1..m /\ ~(a <= n))
  OBVIOUS
<1>8. \A a \in 1..(n + m) : \/ a \in 1..n /\ new[a] = L[a]
                            \/ a - n \in 1..m /\ new[a] = M[a - n]
  BY <1>5, <1>7
<1>9. \A a \in 1..(n + m) : new[a].ready /\ \E i \in DOMAIN s.running : new[a] = s.running[i]
  <2>1. \A a \in 1..n : L[a].ready /\ \E i \in DOMAIN s.running : L[a] = s.running[i]
    BY <1>2 DEF Drawn
  <2>2. \A a \in 1..m : M[a].ready /\ \E i \in DOMAIN s.running : M[a] = s.running[i]
    BY <1>3 DEF Drawn
  <2> TAKE a \in 1..(n + m)
  <2>3. CASE a \in 1..n /\ new[a] = L[a]
    <3>1. PICK q : q = new[a]
      OBVIOUS
    <3>2. q.ready /\ \E i \in DOMAIN s.running : q = s.running[i]
      BY <2>1, <2>3, <3>1
    <3> QED BY <3>1, <3>2
  <2>4. CASE a - n \in 1..m /\ new[a] = M[a - n]
    <3>1. PICK q : q = new[a]
      OBVIOUS
    <3>2. q.ready /\ \E i \in DOMAIN s.running : q = s.running[i]
      BY <2>2, <2>4, <3>1
    <3> QED BY <3>1, <3>2
  <2> QED BY <1>8, <2>3, <2>4
<1>10. ASSUME NEW a \in 1..n, NEW b \in 1..m, L[a].rid = M[b].rid
       PROVE  FALSE
  <2>1. PICK i \in DOMAIN s.running, j \in DOMAIN s.running :
          L[a] = s.running[i] /\ M[b] = s.running[j]
    BY <1>2, <1>3 DEF Drawn
  <2>2. L[a] = M[b]
    BY <1>10, <2>1 DEF Distinct
  <2>3. L[a].status = "prefill" /\ M[b].status = "decode"
    BY <1>2, <1>3 DEF AllAre
  <2> QED BY <2>2, <2>3
<1>11. \A a, b \in 1..n : L[a].rid = L[b].rid => a = b
  BY <1>2 DEF Drawn, Distinct
<1>12. \A a, b \in 1..m : M[a].rid = M[b].rid => a = b
  BY <1>3 DEF Drawn, Distinct
<1>13. ASSUME NEW a \in 1..(n + m), NEW b \in 1..(n + m), new[a].rid = new[b].rid
       PROVE  a = b
  <2>1. CASE a \in 1..n /\ new[a] = L[a] /\ b \in 1..n /\ new[b] = L[b]
    BY <1>11, <1>13, <2>1
  <2>2. CASE a \in 1..n /\ new[a] = L[a] /\ b - n \in 1..m /\ new[b] = M[b - n]
    BY <1>10, <1>13, <2>2
  <2>3. CASE a - n \in 1..m /\ new[a] = M[a - n] /\ b \in 1..n /\ new[b] = L[b]
    BY <1>10, <1>13, <2>3
  <2>4. CASE a - n \in 1..m /\ new[a] = M[a - n] /\ b - n \in 1..m /\ new[b] = M[b - n]
    <3>1. a - n = b - n
      BY <1>12, <1>13, <2>4
    <3> QED BY <3>1
  <2> QED BY <1>8, <2>1, <2>2, <2>3, <2>4
<1>14. Distinct(new)
  BY <1>6, <1>13 DEF Distinct
<1> QED BY <1>4, <1>5, <1>6, <1>9, <1>14 DEF Drawn

AddCost(none, n, q) == n + Cost(q)
Costs == INSTANCE FoldLemmas WITH Op <- AddCost

LEMMA CostNat ==
  ASSUME NEW k, NEW q \in Entry(k)
  PROVE  Cost(q) \in Nat
  BY DEF Cost, Entry, ReqRec

LEMMA TokensFacts ==
  ASSUME NEW k, NEW L \in Seq(Entry(k))
  PROVE  /\ Tokens(L) \in Nat
         /\ \A q \in Entry(k) : Tokens(Append(L, q)) = Tokens(L) + Cost(q)
<1>1. \A M : Costs!Fold(0, 0, M) = Tokens(M)
  BY Zenon DEF Costs!Fold, Tokens, AddCost, FoldLeft, MapThenFoldSet,
               Costs!MapThenFoldSet, Max, Costs!Max
<1>2. \A n \in Nat, q \in Entry(k) : AddCost(0, n, q) \in Nat
  BY CostNat DEF AddCost
<1>3. Costs!Fold(0, 0, L) \in Nat
  BY <1>2, LeastElement, Costs!FoldLeftIn DEF Costs!WellOrdered
<1>4. \A q \in Entry(k) : Costs!Fold(0, 0, Append(L, q)) = AddCost(0, Costs!Fold(0, 0, L), q)
  BY LeastElement, Costs!FoldLeftAppend DEF Costs!WellOrdered
<1>5. \A q \in Entry(k) : Tokens(Append(L, q)) = AddCost(0, Tokens(L), q)
  BY <1>1, <1>4
<1> QED BY <1>1, <1>3, <1>5 DEF AddCost

LEMMA MicroBatchSizeType == MicroBatchSize \in Nat /\ MicroBatchSize >= 1
<1>1. MaxBatchSize \div MicroBatchRatio \in Nat
  BY BatchAssumption
<1> QED BY <1>1 DEF MicroBatchSize

ConsiderEach(none, batch, q) == Consider(batch, q)
Forming == INSTANCE FoldLemmas WITH Op <- ConsiderEach

\* batch is what form_batch has chosen among the first i candidates of L.
Chosen(k, L, batch, i) ==
  /\ batch \in Seq(Entry(k)) /\ Distinct(batch)
  /\ \A a \in DOMAIN batch : \E j \in 1..i : batch[a] = L[j]
  /\ Len(batch) <= MicroBatchSize /\ Tokens(batch) <= MaxTokens

LEMMA ChooseStep ==
  ASSUME NEW k, NEW L \in Seq(Entry(k)), Distinct(L), NEW i \in 1..Len(L), NEW batch,
         Chosen(k, L, batch, i - 1)
  PROVE  Chosen(k, L, Consider(batch, L[i]), i)
<1>1. PICK n \in Nat : n = Len(L) /\ DOMAIN L = 1..n
  BY ListFacts
<1>2. i \in 1..n /\ i \in 1..i /\ \A j \in 1..(i - 1) : j \in 1..i /\ j \in 1..n /\ j # i
  BY <1>1
<1>3. PICK q \in Entry(k) : q = L[i]
  BY <1>1, <1>2, ListFacts
<1>4. PICK new : new = Consider(batch, q)
  OBVIOUS
<1>5. PICK m \in Nat : m = Len(batch) /\ DOMAIN batch = 1..m /\ batch \in Seq(Entry(k))
  BY ListFacts DEF Chosen
<1>6. /\ \A a \in 1..m : \E j \in 1..(i - 1) : batch[a] = L[j]
      /\ m <= MicroBatchSize /\ Tokens(batch) <= MaxTokens /\ Distinct(batch)
  BY <1>5 DEF Chosen
<1>7. CASE Len(batch) >= MicroBatchSize \/ Cost(q) + Tokens(batch) > MaxTokens
  <2>1. new = batch
    BY <1>4, <1>7 DEF Consider
  <2>2. \A a \in 1..m : \E j \in 1..i : batch[a] = L[j]
    BY <1>2, <1>6
  <2>3. Chosen(k, L, batch, i)
    BY <1>5, <1>6, <2>2 DEF Chosen
  <2> QED BY <1>3, <1>4, <2>1, <2>3
<1>8. CASE ~(Len(batch) >= MicroBatchSize \/ Cost(q) + Tokens(batch) > MaxTokens)
  <2>1. new = Append(batch, q)
    BY <1>4, <1>8 DEF Consider
  <2>2. IsAppended(k, batch, q, new)
    BY <1>5, <2>1, AppendedFacts
  <2>3. /\ new \in Seq(Entry(k)) /\ Len(new) = m + 1 /\ DOMAIN new = 1..(m + 1)
        /\ new[m + 1] = q /\ \A a \in 1..m : new[a] = batch[a]
    BY <1>5, <2>1, AppendProperties, LenProperties
  <2>4. q.rid \notin Ids(batch)
    <3> SUFFICES ASSUME NEW a \in 1..m, batch[a].rid = q.rid PROVE FALSE
      BY <1>5 DEF Ids
    <3>1. PICK j \in 1..(i - 1) : batch[a] = L[j]
      BY <1>6
    <3> QED BY <1>1, <1>2, <1>3, <3>1 DEF Distinct
  <2>5. Distinct(new)
    BY <1>6, <2>2, <2>4 DEF IsAppended
  <2>6. \A a \in 1..(m + 1) : a \in 1..m \/ a = m + 1
    OBVIOUS
  <2>7. \A a \in 1..(m + 1) : \E j \in 1..i : new[a] = L[j]
    <3> TAKE a \in 1..(m + 1)
    <3>1. CASE a \in 1..m
      BY <1>2, <1>6, <2>3, <3>1
    <3>2. CASE a = m + 1
      BY <1>2, <1>3, <2>3, <3>2
    <3> QED BY <2>6, <3>1, <3>2
  <2>8. m + 1 <= MicroBatchSize
    BY <1>5, <1>8, MicroBatchSizeType
  <2>9. Tokens(batch) \in Nat /\ Cost(q) \in Nat /\ Tokens(new) = Tokens(batch) + Cost(q)
    BY <1>5, <2>1, TokensFacts, CostNat
  <2>10. Tokens(new) <= MaxTokens
    BY <1>8, <2>9, BatchAssumption
  <2>11. Chosen(k, L, new, i)
    BY <2>3, <2>5, <2>7, <2>8, <2>10 DEF Chosen
  <2> QED BY <1>3, <1>4, <2>11
<1> QED BY <1>7, <1>8

(* The batch has distinct ready requests and keeps both limits.            *)
LEMMA BatchFacts ==
  ASSUME NEW k, NEW B, NEW s, Good(k, B, s)
  PROVE  /\ Drawn(k, s, Batch(s))
         /\ Len(Batch(s)) <= MicroBatchSize /\ Tokens(Batch(s)) <= MaxTokens
<1>1. PICK L : L = Ready(s, "prefill") \o Ready(s, "decode")
  OBVIOUS
<1>2. /\ Drawn(k, s, Ready(s, "prefill")) /\ AllAre(Ready(s, "prefill"), "prefill")
      /\ Drawn(k, s, Ready(s, "decode")) /\ AllAre(Ready(s, "decode"), "decode")
  BY ReadyList
<1>3. Distinct(s.running)
  BY DEF Good
<1>4. Drawn(k, s, L)
  BY <1>1, <1>2, <1>3, ConcatDrawn
<1>5. L \in Seq(Entry(k)) /\ Distinct(L)
  BY <1>4 DEF Drawn
<1>6. PICK n \in Nat : n = Len(L) /\ DOMAIN L = 1..n
  BY <1>5, ListFacts
<1>7. PICK e : e = << >>
  OBVIOUS
<1> DEFINE A == [i \in 0..n |-> {b \in Seq(Entry(k)) : Chosen(k, L, b, i)}]
<1>8. e \in A[0]
  <2>1. e \in Seq(Entry(k)) /\ Len(e) = 0
    BY <1>7, EmptySeq
  <2>2. DOMAIN e = 1..0
    BY <2>1, LenProperties
  <2>3. Distinct(e) /\ \A a \in DOMAIN e : \E j \in 1..0 : e[a] = L[j]
    BY <2>2 DEF Distinct
  <2>4. Tokens(e) <= MaxTokens
    <3>1. Costs!Fold(0, 0, e) = Tokens(e)
      BY Zenon DEF Costs!Fold, Tokens, AddCost, FoldLeft, MapThenFoldSet,
                   Costs!MapThenFoldSet, Max, Costs!Max
    <3>2. PICK f : Costs!Run(f, 0, 0, e)
      BY <2>1, LeastElement, Costs!FoldLeftSteps DEF Costs!WellOrdered
    <3>3. Tokens(e) = 0
      BY <2>1, <3>1, <3>2 DEF Costs!Run
    <3> QED BY <3>3, BatchAssumption
  <2>5. 0 <= MicroBatchSize
    BY MicroBatchSizeType
  <2>6. Chosen(k, L, e, 0)
    BY <2>1, <2>3, <2>4, <2>5 DEF Chosen
  <2> QED BY <2>1, <2>6
<1>9. ASSUME NEW i \in 1..n, NEW b \in A[i - 1]
      PROVE  ConsiderEach(0, b, L[i]) \in A[i]
  <2>1. i - 1 \in 0..n /\ i \in 0..n
    BY <1>6
  <2>2. Chosen(k, L, b, i - 1)
    BY <2>1
  <2>3. Chosen(k, L, Consider(b, L[i]), i)
    BY <1>5, <1>6, <2>2, ChooseStep
  <2>4. Consider(b, L[i]) \in Seq(Entry(k))
    BY <2>3 DEF Chosen
  <2> QED BY <2>1, <2>3, <2>4 DEF ConsiderEach
<1>10. PICK b : b = Forming!Fold(0, e, L)
  OBVIOUS
<1>11. b \in A[n]
  <2> HIDE DEF A
  <2> QED BY <1>5, <1>6, <1>8, <1>9, <1>10, LeastElement, Forming!FoldLeftAlong
             DEF Forming!WellOrdered
<1>12. Chosen(k, L, b, n)
  <2>1. n \in 0..n
    BY <1>6
  <2> QED BY <1>11, <2>1
<1>13. Forming!Fold(0, e, L) = FoldLeft(Consider, e, L)
  BY Zenon DEF Forming!Fold, ConsiderEach, FoldLeft, MapThenFoldSet,
               Forming!MapThenFoldSet, Max, Forming!Max
<1>14. b = Batch(s)
  BY <1>1, <1>7, <1>10, <1>13 DEF Batch
<1>15. Drawn(k, s, b)
  <2>1. \A a \in DOMAIN b : \E j \in DOMAIN L : b[a] = L[j]
    BY <1>6, <1>12 DEF Chosen
  <2>2. \A j \in DOMAIN L : L[j].ready /\ \E i \in DOMAIN s.running : L[j] = s.running[i]
    BY <1>4 DEF Drawn
  <2>3. \A a \in DOMAIN b : b[a].ready /\ \E i \in DOMAIN s.running : b[a] = s.running[i]
    BY <2>1, <2>2, Zenon
  <2> QED BY <1>12, <2>3 DEF Drawn, Chosen
<1> QED BY <1>12, <1>14, <1>15 DEF Chosen
-----------------------------------------------------------------------------
(* The operations of a peer's scheduler.                                   *)

LEMMA MovesTransitive ==
  ASSUME NEW s, NEW t, NEW u, Moves(s, t), Moves(t, u)
  PROVE  Moves(s, u)
<1>1. /\ \A r : r \in Ids(u.wait) => r \in Ids(s.wait)
      /\ \A r : r \in Ids(u.running) => r \in Ids(s.running) \/ r \in Ids(s.wait)
      /\ \A r : ReadyIn(u.running, r) => ReadyIn(s.running, r) \/ r \in Ids(s.wait)
  BY DEF Moves
<1>2. Sound(s) => Sound(u)
  BY DEF Moves
<1>3. Sound(s) /\ Apart(s) => Apart(u)
  BY DEF Moves
<1> QED BY <1>1, <1>2, <1>3 DEF Moves

LEMMA KeepsMoves ==
  ASSUME NEW s, NEW t, Keeps(s, t, {})
  PROVE  Moves(s, t)
<1>1. Sound(s) => Sound(t)
  BY KeepsSound
<1>2. Apart(s) => Apart(t)
  BY KeepsApart
<1> QED BY <1>1, <1>2 DEF Moves, Keeps

LEMMA TimeoutGood ==
  ASSUME NEW k, NEW B \in Nat, NEW s, Good(k, B, s), NEW rids
  PROVE  /\ Good(k, B, get_timed_out_requests(s, rids))
         /\ Keeps(s, get_timed_out_requests(s, rids), {})
<1>1. s.running \in Seq(Entry(k))
  BY SchedTypes DEF Good
<1>2. PICK new : new = SetAbort(s.running, rids)
  OBVIOUS
<1>3. IsMarked(k, s.running, {}, new)
  BY <1>1, <1>2, SetAbortFacts
<1>4. PICK t : t = [s EXCEPT !.running = new]
  OBVIOUS
<1>5. Good(k, B, t) /\ Keeps(s, t, {})
  BY <1>3, <1>4, MarkGood
<1>6. t = get_timed_out_requests(s, rids)
  BY <1>2, <1>4 DEF get_timed_out_requests
<1> QED BY <1>5, <1>6

LEMMA CancelGood ==
  ASSUME NEW k, NEW B \in Nat, NEW s, Good(k, B, s), NEW r
  PROVE  Good(k, B, cancel_request(s, r)) /\ Keeps(s, cancel_request(s, r), {})
<1>1. cancel_request(s, r) = get_timed_out_requests(s, {r})
  BY DEF cancel_request, get_timed_out_requests
<1> QED BY <1>1, TimeoutGood

(* form_batch leaves the requests of its batch not ready.                  *)
LEMMA FormGood ==
  ASSUME NEW k, NEW B \in Nat, NEW s, Good(k, B, s)
  PROVE  /\ Good(k, B, form_batch(s)) /\ Keeps(s, form_batch(s), {})
         /\ \A r \in Ids(Batch(s)) : ~ReadyIn(form_batch(s).running, r)
<1>1. s.running \in Seq(Entry(k))
  BY SchedTypes DEF Good
<1>2. PICK rids : rids = Ids(Batch(s))
  OBVIOUS
<1>3. PICK new : new = ClearReady(s.running, rids)
  OBVIOUS
<1>4. IsMarked(k, s.running, rids, new)
  BY <1>1, <1>3, ClearReadyFacts
<1>5. PICK t : t = [s EXCEPT !.running = new]
  OBVIOUS
<1>6. Good(k, B, t) /\ Keeps(s, t, {}) /\ \A r \in rids : ~ReadyIn(t.running, r)
  BY <1>4, <1>5, MarkGood
<1>7. t = form_batch(s)
  BY <1>2, <1>3, <1>5 DEF form_batch
<1> QED BY <1>2, <1>6, <1>7

(* enque_request of a running request's next step.                         *)
LEMMA EnqueDecode ==
  ASSUME NEW k, NEW B \in Nat, NEW s, Good(k, B, s), NEW q \in Entry(k),
         q.status = "decode", q.rid \in Ids(s.running)
  PROVE  Good(k, B, enque_request(s, q)) /\ Keeps(s, enque_request(s, q), {q.rid})
<1>1. PICK ready : ready = [q EXCEPT !.ready = TRUE]
  OBVIOUS
<1>2. IsFlagged(k, q, TRUE, ready)
  BY <1>1, FlagFacts
<1>3. ready \in Entry(k) /\ ready.rid = q.rid
  BY <1>2 DEF IsFlagged
<1>4. Good(k, B, Renew(s, ready)) /\ Keeps(s, Renew(s, ready), {q.rid})
  BY <1>3, RenewGood
<1>5. enque_request(s, q) = Renew(s, ready)
  BY <1>1, <1>3 DEF enque_request, Renew
<1> QED BY <1>4, <1>5

(* enque_request of a request that is to be admitted.                      *)
LEMMA EnquePrefill ==
  ASSUME NEW k, NEW B \in Nat, NEW s, Good(k, B, s), NEW q \in Entry(k), q.status = "prefill"
  PROVE  /\ Good(k, B, enque_request(s, q)) /\ enque_request(s, q).running = s.running
         /\ \A r : r \in Ids(enque_request(s, q).wait) <=> r \in Ids(s.wait) \/ r = q.rid
         /\ Distinct(s.wait) /\ q.rid \notin Ids(s.wait) => Distinct(enque_request(s, q).wait)
<1>1. PICK ready : ready = [q EXCEPT !.ready = TRUE]
  OBVIOUS
<1>2. IsFlagged(k, q, TRUE, ready)
  BY <1>1, FlagFacts
<1>3. ready \in Entry(k) /\ ready.rid = q.rid
  BY <1>2 DEF IsFlagged
<1>4. PICK t : t = Enlist(s, ready)
  OBVIOUS
<1>5. IsEnlisted(k, B, s, ready, t)
  BY <1>3, <1>4, QueueGood
<1>6. enque_request(s, q) = t
  BY <1>1, <1>4 DEF enque_request, Enlist
<1> QED BY <1>3, <1>5, <1>6 DEF IsEnlisted, IsAppended
-----------------------------------------------------------------------------
(* What the steps that are pending at a peer are: a request of status st   *)
(* and length n is queued, or it is ready.                                 *)

Has(reqs, r, st, n) ==
  \E i \in DOMAIN reqs : reqs[i].rid = r /\ reqs[i].status = st /\ reqs[i].total = n

HasReady(reqs, r, st, n) ==
  \E i \in DOMAIN reqs : /\ reqs[i].rid = r /\ reqs[i].ready
                         /\ reqs[i].status = st /\ reqs[i].total = n

IsTask(q, r, st, n) == q.rid = r /\ q.status = st /\ q.total = n

\* What is ready in new is ready in reqs, and is not of the requests rids.
OnlyReady(reqs, rids, new) ==
  \A r, st, n : HasReady(new, r, st, n) => HasReady(reqs, r, st, n) /\ r \notin rids

LEMMA WithoutTasks ==
  ASSUME NEW k, NEW reqs \in Seq(Entry(k)), NEW rid
  PROVE  OnlyReady(reqs, {rid}, Without(reqs, rid))
<1>1. PICK S : S = {q \in Range(reqs) : q.rid # rid}
  OBVIOUS
<1>2. PICK new : new = Without(reqs, rid)
  OBVIOUS
<1>3. PICK n \in Nat : n = Len(reqs) /\ DOMAIN reqs = 1..n
  BY ListFacts
<1>4. IsKept(Entry(k), new, reqs, S, n)
  BY <1>1, <1>2, <1>3, SelectedFacts DEF Without
<1>5. PICK m \in Nat : m = Len(new) /\ DOMAIN new = 1..m
  BY <1>4, ListFacts DEF IsKept
<1>6. \A i \in 1..n : reqs[i] \in S => reqs[i].rid # rid
  BY <1>1
<1>7. \A a \in 1..m : \E i \in 1..n : new[a] = reqs[i] /\ reqs[i].rid # rid
  BY <1>4, <1>5, <1>6 DEF IsKept
<1>8. OnlyReady(reqs, {rid}, new)
  BY <1>3, <1>5, <1>7 DEF OnlyReady, HasReady
<1> QED BY <1>2, <1>8

LEMMA AppendTasks ==
  ASSUME NEW k, NEW reqs \in Seq(Entry(k)), NEW q \in Entry(k)
  PROVE  \A r, st, n :
           /\ Has(Append(reqs, q), r, st, n) => Has(reqs, r, st, n) \/ IsTask(q, r, st, n)
           /\ HasReady(Append(reqs, q), r, st, n) =>
                HasReady(reqs, r, st, n) \/ IsTask(q, r, st, n)
<1>1. PICK new : new = Append(reqs, q)
  OBVIOUS
<1>2. PICK m \in Nat : m = Len(reqs) /\ DOMAIN reqs = 1..m
  BY ListFacts
<1>3. /\ new \in Seq(Entry(k)) /\ DOMAIN new = 1..(m + 1)
      /\ new[m + 1] = q /\ \A i \in 1..m : new[i] = reqs[i]
  BY <1>1, <1>2, AppendProperties, LenProperties
<1>4. \A i \in 1..(m + 1) : i \in 1..m \/ i = m + 1
  OBVIOUS
<1>5. \A r, st, n : Has(new, r, st, n) => Has(reqs, r, st, n) \/ IsTask(q, r, st, n)
  BY <1>2, <1>3, <1>4 DEF Has, IsTask
<1>6. \A r, st, n : HasReady(new, r, st, n) => HasReady(reqs, r, st, n) \/ IsTask(q, r, st, n)
  BY <1>2, <1>3, <1>4 DEF HasReady, IsTask
<1> QED BY <1>1, <1>5, <1>6

LEMMA SetAbortTasks ==
  ASSUME NEW k, NEW reqs \in Seq(Entry(k)), NEW rids
  PROVE  OnlyReady(reqs, {}, SetAbort(reqs, rids))
<1>1. PICK new : new = SetAbort(reqs, rids)
  OBVIOUS
<1>2. DOMAIN new = DOMAIN reqs
  BY <1>1 DEF SetAbort
<1>3. ASSUME NEW i \in DOMAIN reqs
      PROVE  /\ new[i].rid = reqs[i].rid /\ new[i].status = reqs[i].status
             /\ new[i].total = reqs[i].total /\ new[i].ready = reqs[i].ready
  <2>1. PICK q \in Entry(k) : q = reqs[i]
    BY ListFacts
  <2>2. new[i] = q \/ new[i] = [q EXCEPT !.abort = TRUE]
    BY <1>1, <2>1 DEF SetAbort
  <2>3. PICK e : e = [q EXCEPT !.abort = TRUE]
    OBVIOUS
  <2>4. e.rid = q.rid /\ e.status = q.status /\ e.total = q.total /\ e.ready = q.ready
    BY <2>3 DEF Entry, ReqRec
  <2> QED BY <2>1, <2>2, <2>3, <2>4
<1>4. OnlyReady(reqs, {}, new)
  BY <1>2, <1>3 DEF OnlyReady, HasReady
<1> QED BY <1>1, <1>4

LEMMA ClearReadyTasks ==
  ASSUME NEW k, NEW reqs \in Seq(Entry(k)), NEW rids
  PROVE  OnlyReady(reqs, rids, ClearReady(reqs, rids))
<1>1. PICK new : new = ClearReady(reqs, rids)
  OBVIOUS
<1>2. DOMAIN new = DOMAIN reqs
  BY <1>1 DEF ClearReady
<1>3. ASSUME NEW i \in DOMAIN reqs, new[i].ready
      PROVE  new[i] = reqs[i] /\ reqs[i].rid \notin rids
  <2>1. PICK q \in Entry(k) : q = reqs[i]
    BY ListFacts
  <2>2. new[i] = IF q.rid \in rids THEN [q EXCEPT !.ready = FALSE] ELSE q
    BY <1>1, <2>1 DEF ClearReady
  <2>3. PICK e : e = [q EXCEPT !.ready = FALSE]
    OBVIOUS
  <2>4. ~e.ready
    BY <2>3 DEF Entry, ReqRec
  <2> QED BY <1>3, <2>1, <2>2, <2>3, <2>4
<1>4. OnlyReady(reqs, rids, new)
  BY <1>2, <1>3 DEF OnlyReady, HasReady
<1> QED BY <1>1, <1>4

\* A queued request of r has length n.
HasLength(reqs, r, n) == \E st : Has(reqs, r, st, n)

\* What becomes of r from s to t when queued requests are admitted: if it is
\* admitted it gets a context of its length, else its context does not change.
Admits(s, t, r) ==
  /\ t.pool.context[r] # s.pool.context[r] =>
       s.pool.context[r] = Absent /\ HasLength(s.wait, r, t.pool.context[r])
  /\ \A st, n : Has(t.wait, r, st, n) => Has(s.wait, r, st, n)
  /\ \A st, n : HasReady(t.running, r, st, n) =>
       HasReady(s.running, r, st, n) \/ (Has(s.wait, r, st, n) /\ t.pool.context[r] = n)

\* Request r is among the first i of the queue W, with this status and length.
Seen(W, i, r, st, n) == \E j \in 1..i : IsTask(W[j], r, st, n)

SeenLength(W, i, r, n) == \E st : Seen(W, i, r, st, n)

\* Admits after the first i requests of the queue W.
AdmitsSoFar(s, t, W, i, r) ==
  /\ t.pool.context[r] # s.pool.context[r] =>
       s.pool.context[r] = Absent /\ SeenLength(W, i, r, t.pool.context[r])
  /\ \A st, n : Has(t.wait, r, st, n) => Seen(W, i, r, st, n)
  /\ \A st, n : HasReady(t.running, r, st, n) =>
       HasReady(s.running, r, st, n) \/ (Seen(W, i, r, st, n) /\ t.pool.context[r] = n)

LEMMA SeenMore ==
  ASSUME NEW k, NEW W \in Seq(Entry(k)), NEW i \in 1..Len(W), NEW q, q = W[i]
  PROVE  /\ \A r, st, n : Seen(W, i - 1, r, st, n) => Seen(W, i, r, st, n) /\ n # Absent
         /\ \A r, n : SeenLength(W, i - 1, r, n) => SeenLength(W, i, r, n)
         /\ \A r, st, n : IsTask(q, r, st, n) => Seen(W, i, r, st, n)
         /\ Seen(W, i, q.rid, q.status, q.total) /\ SeenLength(W, i, q.rid, q.total)
<1>1. PICK m \in Nat : m = Len(W) /\ DOMAIN W = 1..m /\ \A j \in 1..m : W[j] \in Entry(k)
  BY ListFacts
<1>2. i \in 1..m /\ i \in 1..i /\ \A j \in 1..(i - 1) : j \in 1..i /\ j \in 1..m
  BY <1>1
<1>3. \A e \in Entry(k) : e.total # Absent
  BY DEF Entry, ReqRec, Absent
<1>4. \A r, st, n : Seen(W, i - 1, r, st, n) => Seen(W, i, r, st, n) /\ n # Absent
  <2> TAKE r, st, n
  <2> HAVE Seen(W, i - 1, r, st, n)
  <2>1. PICK j \in 1..(i - 1) : IsTask(W[j], r, st, n)
    BY DEF Seen
  <2>2. n = W[j].total
    BY <2>1 DEF IsTask
  <2> QED BY <1>1, <1>2, <1>3, <2>1, <2>2 DEF Seen
<1>5. \A r, st, n : IsTask(q, r, st, n) => Seen(W, i, r, st, n)
  BY <1>2 DEF Seen
<1>6. Seen(W, i, q.rid, q.status, q.total)
  BY <1>5 DEF IsTask
<1> QED BY <1>4, <1>5, <1>6 DEF SeenLength

LEMMA AdmitOneTasks ==
  ASSUME NeedsBlocks, NEW k, NEW B \in Nat, NEW s, NEW W \in Seq(Entry(k)),
         NEW i \in 1..Len(W), NEW t, Good(k, B, t),
         NEW r \in Request, AdmitsSoFar(s, t, W, i - 1, r)
  PROVE  AdmitsSoFar(s, AdmitOne(t, W[i]), W, i, r)
<1>1. PICK m \in Nat : m = Len(W) /\ DOMAIN W = 1..m
  BY ListFacts
<1>2. i \in 1..m /\ i \in Nat /\ i \in 1..i /\ \A j \in 1..(i - 1) : j \in 1..i
  BY <1>1
<1>3. PICK q \in Entry(k) : q = W[i]
  BY <1>1, <1>2, ListFacts
<1>4. PICK u : u = AdmitOne(t, q)
  OBVIOUS
<1>5. q.rid \in Request /\ q.total \in Nat
  BY DEF Entry, ReqRec
<1>6. t \in Sched(k) /\ t.running \in Seq(Entry(k)) /\ t.wait \in Seq(Entry(k)) /\ t.pool \in Pool
  BY SchedTypes DEF Good
<1>7. /\ \A st, n : Seen(W, i - 1, r, st, n) => Seen(W, i, r, st, n) /\ n # Absent
      /\ \A n : SeenLength(W, i - 1, r, n) => SeenLength(W, i, r, n)
      /\ \A st, n : IsTask(q, r, st, n) => Seen(W, i, r, st, n)
      /\ Seen(W, i, q.rid, q.status, q.total) /\ SeenLength(W, i, q.rid, q.total)
  BY <1>3, SeenMore
<1>8. CASE Len(t.running) >= MaxBatchSize
  <2>1. u = [t EXCEPT !.wait = Append(t.wait, q)]
    BY <1>4, <1>8 DEF AdmitOne
  <2>2. u.wait = Append(t.wait, q) /\ u.running = t.running /\ u.pool = t.pool
    BY <1>6, <2>1 DEF Sched
  <2>3. \A st, n : Has(u.wait, r, st, n) => Has(t.wait, r, st, n) \/ IsTask(q, r, st, n)
    BY <1>6, <2>2, AppendTasks
  <2>4. AdmitsSoFar(s, u, W, i, r)
    BY <1>7, <2>2, <2>3 DEF AdmitsSoFar
  <2> QED BY <1>3, <1>4, <2>4
<1>9. CASE /\ ~(Len(t.running) >= MaxBatchSize)
           /\ \/ q.rid \in Ids(t.running)
              \/ ~has_request(t.pool, q.rid) /\ ~allocate_ok(t.pool, q.rid, q.total)
  <2>1. u = t
    BY <1>4, <1>9 DEF AdmitOne
  <2>2. AdmitsSoFar(s, u, W, i, r)
    BY <1>7, <2>1 DEF AdmitsSoFar
  <2> QED BY <1>3, <1>4, <2>2
<1>10. CASE /\ ~(Len(t.running) >= MaxBatchSize)
            /\ q.rid \notin Ids(t.running)
            /\ has_request(t.pool, q.rid) \/ allocate_ok(t.pool, q.rid, q.total)
  <2>1. t.pool.context[q.rid] = Absent
    BY <1>5, <1>10 DEF Good
  <2>2. ~has_request(t.pool, q.rid) /\ can_allocate(t.pool, q.total)
    BY <1>10, <2>1 DEF has_request, allocate_ok
  <2>3. PICK pool : pool = allocate_request(t.pool, q.rid, q.total)
    OBVIOUS
  <2>4. pool.context = [t.pool.context EXCEPT ![q.rid] = q.total]
    BY <1>5, <1>6, <2>1, <2>2, <2>3, AllocateBacked DEF Good
  <2>5. u = [t EXCEPT !.pool = pool, !.running = Append(t.running, q)]
    BY <1>4, <1>10, <2>2, <2>3 DEF AdmitOne
  <2>6. u.wait = t.wait /\ u.running = Append(t.running, q) /\ u.pool = pool
    BY <1>6, <2>5 DEF Sched
  <2>7. \A st, n : HasReady(u.running, r, st, n) =>
          HasReady(t.running, r, st, n) \/ IsTask(q, r, st, n)
    BY <1>6, <2>6, AppendTasks
  <2>8. u.pool.context[r] = IF r = q.rid THEN q.total ELSE t.pool.context[r]
    BY <1>6, <2>4, <2>6 DEF Pool
  <2>9. /\ t.pool.context[r] # s.pool.context[r] =>
             s.pool.context[r] = Absent /\ SeenLength(W, i - 1, r, t.pool.context[r])
        /\ \A st, n : Has(t.wait, r, st, n) => Seen(W, i - 1, r, st, n)
        /\ \A st, n : HasReady(t.running, r, st, n) =>
             HasReady(s.running, r, st, n) \/ (Seen(W, i - 1, r, st, n) /\ t.pool.context[r] = n)
    BY DEF AdmitsSoFar
  <2>10. CASE r = q.rid
    <3>1. t.pool.context[r] = Absent /\ u.pool.context[r] = q.total
      BY <2>1, <2>8, <2>10
    <3>2. s.pool.context[r] = Absent
      BY <2>9, <3>1
    <3>3. \A st, n : HasReady(t.running, r, st, n) => HasReady(s.running, r, st, n)
      BY <1>7, <2>9, <3>1
    <3>4. \A st, n : IsTask(q, r, st, n) => n = q.total
      BY DEF IsTask
    <3>5. AdmitsSoFar(s, u, W, i, r)
      BY <1>7, <2>6, <2>7, <2>9, <2>10, <3>1, <3>2, <3>3, <3>4 DEF AdmitsSoFar
    <3> QED BY <1>3, <1>4, <3>5
  <2>11. CASE r # q.rid
    <3>1. u.pool.context[r] = t.pool.context[r] /\ \A st, n : ~IsTask(q, r, st, n)
      BY <2>8, <2>11 DEF IsTask
    <3>2. AdmitsSoFar(s, u, W, i, r)
      BY <1>7, <2>6, <2>7, <2>9, <3>1 DEF AdmitsSoFar
    <3> QED BY <1>3, <1>4, <3>2
  <2> QED BY <2>10, <2>11
<1> QED BY <1>8, <1>9, <1>10

LEMMA AdmitTasks ==
  ASSUME NeedsBlocks, NEW k, NEW B \in Nat, NEW s, Good(k, B, s), NEW r \in Request
  PROVE  Admits(s, admit_requests(s), r)
<1>1. PICK W : W = s.wait
  OBVIOUS
<1>2. s \in Sched(k) /\ W \in Seq(Entry(k))
  BY <1>1, SchedTypes DEF Good
<1>3. PICK n \in Nat : n = Len(W) /\ DOMAIN W = 1..n
  BY <1>2, ListFacts
<1>4. PICK base : base = [s EXCEPT !.wait = << >>]
  OBVIOUS
<1> DEFINE A == [i \in 0..n |->
                   {t \in Sched(k) : Admitted(k, B, s, t, W, i) /\ AdmitsSoFar(s, t, W, i, r)}]
<1>5. base \in A[0]
  <2>0. PICK e : e = << >>
    OBVIOUS
  <2>1. e \in Seq(Entry(k)) /\ DOMAIN e = {}
    <3>1. e \in Seq(Entry(k)) /\ Len(e) = 0
      BY <2>0, EmptySeq
    <3>2. DOMAIN e = 1..0
      BY <3>1, LenProperties
    <3> QED BY <3>1, <3>2
  <2>2. base = [s EXCEPT !.wait = e]
    BY <1>4, <2>0
  <2>3. base \in Sched(k) /\ base.wait = e /\ base.running = s.running /\ base.pool = s.pool
    BY <1>2, <2>1, <2>2 DEF Sched
  <2>4. Good(k, B, base)
    BY <2>3 DEF Good
  <2>5. Ids(e) = {} /\ Distinct(e) /\ \A st, m : ~Has(e, r, st, m)
    BY <2>1 DEF Ids, Distinct, Has
  <2>6. Admitted(k, B, s, base, W, 0)
    BY <2>3, <2>4, <2>5 DEF Admitted
  <2>7. AdmitsSoFar(s, base, W, 0, r)
    BY <2>3, <2>5 DEF AdmitsSoFar
  <2> QED BY <2>3, <2>6, <2>7
<1>6. ASSUME NEW i \in 1..n, NEW t \in A[i - 1]
      PROVE  AdmitEach(0, t, W[i]) \in A[i]
  <2>1. i - 1 \in 0..n /\ i \in 0..n
    BY <1>3
  <2>2. Admitted(k, B, s, t, W, i - 1) /\ AdmitsSoFar(s, t, W, i - 1, r)
    BY <2>1
  <2>3. Admitted(k, B, s, AdmitOne(t, W[i]), W, i)
    BY <1>2, <1>3, <2>2, AdmitStep
  <2>4. AdmitsSoFar(s, AdmitOne(t, W[i]), W, i, r)
    <3>1. Good(k, B, t)
      BY <2>2 DEF Admitted
    <3> QED BY <1>2, <1>3, <2>2, <3>1, AdmitOneTasks
  <2>5. AdmitOne(t, W[i]) \in Sched(k)
    BY <2>3 DEF Admitted, Good
  <2> QED BY <2>1, <2>3, <2>4, <2>5 DEF AdmitEach
<1>7. PICK t : t = Admission!Fold(0, base, W)
  OBVIOUS
<1>8. t \in A[n]
  <2> HIDE DEF A
  <2> QED BY <1>2, <1>3, <1>5, <1>6, <1>7, LeastElement, Admission!FoldLeftAlong
             DEF Admission!WellOrdered
<1>9. n \in 0..n
  BY <1>3
<1>10. t \in Sched(k) /\ AdmitsSoFar(s, t, W, n, r)
  BY <1>8, <1>9
<1>11. Admission!Fold(0, base, W) = FoldLeft(AdmitOne, base, W)
  BY Zenon DEF Admission!Fold, AdmitEach, FoldLeft, MapThenFoldSet,
               Admission!MapThenFoldSet, Max, Admission!Max
<1>12. PICK u : u = admit_requests(s)
  OBVIOUS
<1>13. u = ReportRunning(t)
  BY <1>1, <1>4, <1>7, <1>11, <1>12 DEF admit_requests
<1>14. u.wait = t.wait /\ u.running = t.running /\ u.pool = t.pool
  <2>1. PICK m : m = Len(t.running)
    OBVIOUS
  <2>2. u = t \/ u = [t EXCEPT !.metric = m, !.reported = m]
    BY <1>13, <2>1 DEF ReportRunning
  <2> QED BY <1>10, <2>2 DEF Sched
<1>15. /\ \A st, m : Seen(W, n, r, st, m) => Has(s.wait, r, st, m)
       /\ \A m : SeenLength(W, n, r, m) => HasLength(s.wait, r, m)
  BY <1>1, <1>3 DEF IsTask, Has, Seen, SeenLength, HasLength
<1>16. Admits(s, u, r)
  BY <1>10, <1>14, <1>15 DEF AdmitsSoFar, Admits
<1> QED BY <1>12, <1>16

\* t is s but that requests rids are no longer ready.
Unreadied(s, rids, t) ==
  t.wait = s.wait /\ t.pool = s.pool /\ OnlyReady(s.running, rids, t.running)

LEMMA TimeoutTasks ==
  ASSUME NEW k, NEW s \in Sched(k), NEW rids
  PROVE  Unreadied(s, {}, get_timed_out_requests(s, rids))
<1>1. s.running \in Seq(Entry(k))
  BY SchedTypes
<1>2. PICK new : new = SetAbort(s.running, rids)
  OBVIOUS
<1>3. OnlyReady(s.running, {}, new)
  BY <1>1, <1>2, SetAbortTasks
<1>4. PICK t : t = [s EXCEPT !.running = new]
  OBVIOUS
<1>5. t.wait = s.wait /\ t.pool = s.pool /\ t.running = new
  BY <1>4 DEF Sched
<1>6. t = get_timed_out_requests(s, rids)
  BY <1>2, <1>4 DEF get_timed_out_requests
<1> QED BY <1>3, <1>5, <1>6 DEF Unreadied

LEMMA CancelTasks ==
  ASSUME NEW k, NEW s \in Sched(k), NEW r
  PROVE  Unreadied(s, {}, cancel_request(s, r))
<1>1. cancel_request(s, r) = get_timed_out_requests(s, {r})
  BY DEF cancel_request, get_timed_out_requests
<1> QED BY <1>1, TimeoutTasks

LEMMA FormTasks ==
  ASSUME NEW k, NEW s \in Sched(k)
  PROVE  Unreadied(s, Ids(Batch(s)), form_batch(s))
<1>1. s.running \in Seq(Entry(k))
  BY SchedTypes
<1>2. PICK rids : rids = Ids(Batch(s))
  OBVIOUS
<1>3. PICK new : new = ClearReady(s.running, rids)
  OBVIOUS
<1>4. OnlyReady(s.running, rids, new)
  BY <1>1, <1>3, ClearReadyTasks
<1>5. PICK t : t = [s EXCEPT !.running = new]
  OBVIOUS
<1>6. t.wait = s.wait /\ t.pool = s.pool /\ t.running = new
  BY <1>5 DEF Sched
<1>7. t = form_batch(s)
  BY <1>2, <1>3, <1>5 DEF form_batch
<1> QED BY <1>2, <1>4, <1>6, <1>7 DEF Unreadied

\* What becomes of r from s to t when the step q is enqueued.
Enqueues(s, q, t, r) ==
  /\ t.pool = s.pool
  /\ \A st, n : Has(t.wait, r, st, n) =>
       Has(s.wait, r, st, n) \/ (q.status # "decode" /\ IsTask(q, r, st, n))
  /\ \A st, n : HasReady(t.running, r, st, n) =>
       HasReady(s.running, r, st, n) \/ (q.status = "decode" /\ IsTask(q, r, st, n))

LEMMA EnqueTasks ==
  ASSUME NEW k, NEW s \in Sched(k), NEW q \in Entry(k), NEW r
  PROVE  Enqueues(s, q, enque_request(s, q), r)
<1>1. s.wait \in Seq(Entry(k)) /\ s.running \in Seq(Entry(k))
  BY SchedTypes
<1>2. PICK ready : ready = [q EXCEPT !.ready = TRUE]
  OBVIOUS
<1>3. /\ ready \in Entry(k)
      /\ ready.rid = q.rid /\ ready.status = q.status /\ ready.total = q.total
  BY <1>2 DEF Entry, ReqRec
<1>4. \A st, n : IsTask(ready, r, st, n) => IsTask(q, r, st, n)
  BY <1>3 DEF IsTask
<1>5. PICK t : t = enque_request(s, q)
  OBVIOUS
<1>6. CASE q.status = "decode"
  <2>1. PICK kept : kept = Without(s.running, q.rid)
    OBVIOUS
  <2>2. kept \in Seq(Entry(k)) /\ OnlyReady(s.running, {q.rid}, kept)
    BY <1>1, <2>1, WithoutFacts, WithoutTasks DEF IsWithout
  <2>3. PICK new : new = Append(kept, ready)
    OBVIOUS
  <2>4. t = [s EXCEPT !.running = new]
    BY <1>2, <1>5, <1>6, <2>1, <2>3 DEF enque_request
  <2>5. t.wait = s.wait /\ t.pool = s.pool /\ t.running = new
    BY <2>4 DEF Sched
  <2>6. \A st, n : HasReady(new, r, st, n) => HasReady(kept, r, st, n) \/ IsTask(ready, r, st, n)
    BY <1>3, <2>2, <2>3, AppendTasks
  <2>7. \A st, n : HasReady(kept, r, st, n) => HasReady(s.running, r, st, n)
    BY <2>2 DEF OnlyReady
  <2>8. Enqueues(s, q, t, r)
    BY <1>4, <1>6, <2>5, <2>6, <2>7 DEF Enqueues
  <2> QED BY <1>5, <2>8
<1>7. CASE q.status # "decode"
  <2>1. PICK new : new = Append(s.wait, ready)
    OBVIOUS
  <2>2. t = [s EXCEPT !.wait = new]
    BY <1>2, <1>5, <1>7, <2>1 DEF enque_request
  <2>3. t.wait = new /\ t.pool = s.pool /\ t.running = s.running
    BY <2>2 DEF Sched
  <2>4. \A st, n : Has(new, r, st, n) => Has(s.wait, r, st, n) \/ IsTask(ready, r, st, n)
    BY <1>1, <1>3, <2>1, AppendTasks
  <2>5. Enqueues(s, q, t, r)
    BY <1>4, <1>7, <2>3, <2>4 DEF Enqueues
  <2> QED BY <1>5, <2>5
<1> QED BY <1>6, <1>7

(* The requests of a batch are ready where it was drawn.                   *)
LEMMA DrawnTasks ==
  ASSUME NEW k, NEW s, NEW L, Drawn(k, s, L), NEW a \in DOMAIN L
  PROVE  HasReady(s.running, L[a].rid, L[a].status, L[a].total)
  BY DEF Drawn, HasReady
=============================================================================
