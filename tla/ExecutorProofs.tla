--------------------------- MODULE ExecutorProofs ---------------------------
(***************************************************************************)
(* Proofs about a pipeline of executors, for every number of peers and of  *)
(* requests, every amount of memory and all the failures of FaultKind.     *)
(* The shards have an attention layer (NeedsBlocks).  ExecInv says that    *)
(* each peer is sound and each request at one place; AllInv adds that the  *)
(* peers' contexts are the ones the step at that place is ready for.       *)
(***************************************************************************)
EXTENDS Executor, SchedulerProofs

(* Where the requests are.  A set of pairs <<p, r>> says that a step of r  *)
(* is pending at peer p, a function ff gives the messages to each peer.    *)

InMessage(ff, r) == \E q \in Peer : \E i \in DOMAIN ff[q] : r \in Ids(ff[q][i])

Started(P, ff, r) == (\E p \in Peer : <<p, r>> \in P) \/ InMessage(ff, r)

\* Each request is at one place.
Single(P, ff) ==
  /\ \A p, q \in Peer : \A r : <<p, r>> \in P /\ <<q, r>> \in P => p = q
  /\ \A p \in Peer : \A r : <<p, r>> \in P => ~InMessage(ff, r)
  /\ \A p, q \in Peer : \A i \in DOMAIN ff[p], j \in DOMAIN ff[q] : \A r :
       r \in Ids(ff[p][i]) /\ r \in Ids(ff[q][j]) => p = q /\ i = j

\* Requests only moved from (P, ff) to (Q, gg).
Follows(P, ff, Q, gg) ==
  /\ Single(P, ff) => Single(Q, gg)
  /\ \A r : Started(Q, gg, r) => Started(P, ff, r)

LEMMA FollowsTransitive ==
  ASSUME NEW P, NEW ff, NEW Q, NEW gg, NEW R, NEW hh,
         Follows(P, ff, Q, gg), Follows(Q, gg, R, hh)
  PROVE  Follows(P, ff, R, hh)
  BY DEF Follows

LEMMA FewerPending ==
  ASSUME NEW P, NEW ff, NEW Q, \A p \in Peer : \A r : <<p, r>> \in Q => <<p, r>> \in P
  PROVE  Follows(P, ff, Q, ff)
  BY DEF Follows, Single, Started

(* A peer takes a message off its queue, or the message is lost.           *)
LEMMA TakeMessage ==
  ASSUME NEW P, NEW X, NEW ff, DOMAIN ff = Peer, NEW p \in Peer, ff[p] \in Seq(X), ff[p] # << >>,
         NEW Q, \A q \in Peer : \A r : <<q, r>> \in Q <=>
                  <<q, r>> \in P \/ (q = p /\ r \in Ids(Head(ff[p]))),
         NEW gg, gg = [ff EXCEPT ![p] = Tail(ff[p])]
  PROVE  Follows(P, ff, Q, gg)
<1>1. PICK n \in Nat : n = Len(ff[p]) /\ DOMAIN ff[p] = 1..n /\ n >= 1
  BY ListFacts, EmptySeq
<1>2. PICK rest : rest = Tail(ff[p])
  OBVIOUS
<1>3. /\ Head(ff[p]) = ff[p][1]
      /\ DOMAIN rest = 1..(n - 1)
      /\ \A i \in 1..(n - 1) : rest[i] = ff[p][i + 1]
  BY <1>1, <1>2, HeadTailProperties, LenProperties
<1>4. \A i \in 1..(n - 1) : i + 1 \in 1..n /\ i + 1 # 1
  BY <1>1
<1>5. gg[p] = rest /\ \A q \in Peer : q # p => gg[q] = ff[q]
  BY <1>2
<1>6. 1 \in DOMAIN ff[p]
  BY <1>1
\* Where a message of gg was before.
<1>7. PICK old : old = [q \in Peer |-> [i \in DOMAIN gg[q] |-> IF q = p THEN i + 1 ELSE i]]
  OBVIOUS
<1>8. \A q \in Peer : \A i \in DOMAIN gg[q] :
         /\ old[q][i] \in DOMAIN ff[q] /\ gg[q][i] = ff[q][old[q][i]]
         /\ q = p => old[q][i] # 1
  <2> TAKE q \in Peer
  <2> TAKE i \in DOMAIN gg[q]
  <2>1. CASE q = p
    BY <1>1, <1>3, <1>4, <1>5, <1>7, <2>1
  <2>2. CASE q # p
    BY <1>5, <1>7, <2>2
  <2> QED BY <2>1, <2>2
<1>9. \A q \in Peer : \A i, j \in DOMAIN gg[q] : old[q][i] = old[q][j] => i = j
  <2> TAKE q \in Peer
  <2> TAKE i, j \in DOMAIN gg[q]
  <2>1. CASE q = p
    <3>1. i \in Nat /\ j \in Nat /\ old[q][i] = i + 1 /\ old[q][j] = j + 1
      BY <1>3, <1>5, <1>7, <2>1
    <3> QED BY <3>1
  <2>2. CASE q # p
    BY <1>7, <2>2
  <2> QED BY <2>1, <2>2
<1>10. \A r : InMessage(gg, r) => InMessage(ff, r)
  BY <1>8 DEF InMessage
<1>11. \A r : r \in Ids(Head(ff[p])) => InMessage(ff, r)
  BY <1>3, <1>6 DEF InMessage
<1>12. \A r : Started(Q, gg, r) => Started(P, ff, r)
  BY <1>10, <1>11 DEF Started
<1>13. ASSUME Single(P, ff) PROVE Single(Q, gg)
  <2>1. \A q1, q2 \in Peer : \A r : <<q1, r>> \in Q /\ <<q2, r>> \in Q => q1 = q2
    BY <1>11, <1>13 DEF Single
  <2>2. \A r : r \in Ids(Head(ff[p])) => ~InMessage(gg, r)
    <3> SUFFICES ASSUME NEW r, r \in Ids(ff[p][1]), NEW q \in Peer, NEW i \in DOMAIN gg[q],
                        r \in Ids(gg[q][i])
                 PROVE  FALSE
      BY <1>3 DEF InMessage
    <3>1. old[q][i] \in DOMAIN ff[q] /\ r \in Ids(ff[q][old[q][i]]) /\ (q = p => old[q][i] # 1)
      BY <1>8
    <3> QED BY <1>6, <1>13, <3>1 DEF Single
  <2>3. \A q \in Peer : \A r : <<q, r>> \in Q => ~InMessage(gg, r)
    BY <1>10, <1>13, <2>2 DEF Single
  <2>4. \A q1, q2 \in Peer : \A i \in DOMAIN gg[q1], j \in DOMAIN gg[q2] : \A r :
          r \in Ids(gg[q1][i]) /\ r \in Ids(gg[q2][j]) => q1 = q2 /\ i = j
    <3> TAKE q1, q2 \in Peer
    <3> TAKE i \in DOMAIN gg[q1], j \in DOMAIN gg[q2]
    <3> TAKE r
    <3> HAVE r \in Ids(gg[q1][i]) /\ r \in Ids(gg[q2][j])
    <3>1. /\ old[q1][i] \in DOMAIN ff[q1] /\ r \in Ids(ff[q1][old[q1][i]])
          /\ old[q2][j] \in DOMAIN ff[q2] /\ r \in Ids(ff[q2][old[q2][j]])
      BY <1>8
    <3>2. q1 = q2 /\ old[q1][i] = old[q2][j]
      BY <1>13, <3>1 DEF Single
    <3> QED BY <1>9, <3>2
  <2> QED BY <2>1, <2>3, <2>4, Zenon DEF Single
<1> QED BY <1>12, <1>13 DEF Follows

(* A peer sends a message with requests that are pending there.            *)
LEMMA PutMessage ==
  ASSUME NEW P, NEW X, NEW ff, DOMAIN ff = Peer, NEW p \in Peer, NEW n \in Peer,
         ff[n] \in Seq(X), NEW m \in X, \A r \in Ids(m) : <<p, r>> \in P,
         NEW Q, \A q \in Peer : \A r : <<q, r>> \in Q =>
                  <<q, r>> \in P /\ ~(q = p /\ r \in Ids(m)),
         NEW gg, gg = [ff EXCEPT ![n] = Append(ff[n], m)]
  PROVE  Follows(P, ff, Q, gg)
<1>1. PICK k \in Nat : k = Len(ff[n]) /\ DOMAIN ff[n] = 1..k
  BY ListFacts
<1>2. PICK new : new = Append(ff[n], m)
  OBVIOUS
<1>3. /\ DOMAIN new = 1..(k + 1) /\ new[k + 1] = m
      /\ \A i \in 1..k : new[i] = ff[n][i]
  BY <1>1, <1>2, AppendProperties, LenProperties
<1>4. \A i \in 1..(k + 1) : i \in 1..k \/ i = k + 1
  BY <1>1
<1>5. gg[n] = new /\ \A q \in Peer : q # n => gg[q] = ff[q]
  BY <1>2
<1>6. \A q \in Peer : \A i \in DOMAIN gg[q] :
        \/ i \in DOMAIN ff[q] /\ gg[q][i] = ff[q][i]
        \/ q = n /\ i = k + 1 /\ gg[q][i] = m
  <2> TAKE q \in Peer
  <2> TAKE i \in DOMAIN gg[q]
  <2>1. CASE q = n
    BY <1>1, <1>3, <1>4, <1>5, <2>1
  <2>2. CASE q # n
    BY <1>5, <2>2
  <2> QED BY <2>1, <2>2
<1>7. \A r : InMessage(gg, r) => InMessage(ff, r) \/ r \in Ids(m)
  BY <1>6 DEF InMessage
<1>8. \A r : Started(Q, gg, r) => Started(P, ff, r)
  BY <1>7 DEF Started
<1>9. ASSUME Single(P, ff) PROVE Single(Q, gg)
  <2>1. \A q1, q2 \in Peer : \A r : <<q1, r>> \in Q /\ <<q2, r>> \in Q => q1 = q2
    BY <1>9 DEF Single
  <2>2. \A q \in Peer : \A r : <<q, r>> \in Q => ~InMessage(gg, r)
    <3> SUFFICES ASSUME NEW q \in Peer, NEW r, <<q, r>> \in Q, InMessage(gg, r) PROVE FALSE
      OBVIOUS
    <3>1. <<q, r>> \in P /\ ~(q = p /\ r \in Ids(m))
      OBVIOUS
    <3>2. r \in Ids(m)
      BY <1>7, <1>9, <3>1 DEF Single
    <3>3. <<p, r>> \in P
      BY <3>2
    <3> QED BY <1>9, <3>1, <3>2, <3>3 DEF Single
  <2>3. \A r \in Ids(m) : ~InMessage(ff, r)
    BY <1>9 DEF Single
  <2>4. \A q1, q2 \in Peer : \A i \in DOMAIN gg[q1], j \in DOMAIN gg[q2] : \A r :
          r \in Ids(gg[q1][i]) /\ r \in Ids(gg[q2][j]) => q1 = q2 /\ i = j
    <3> TAKE q1, q2 \in Peer
    <3> TAKE i \in DOMAIN gg[q1], j \in DOMAIN gg[q2]
    <3> TAKE r
    <3> HAVE r \in Ids(gg[q1][i]) /\ r \in Ids(gg[q2][j])
    <3>1. CASE r \in Ids(m)
      <4>1. \A q \in Peer : \A h \in DOMAIN ff[q] : r \notin Ids(ff[q][h])
        BY <2>3, <3>1 DEF InMessage
      <4> QED BY <1>6, <4>1
    <3>2. CASE r \notin Ids(m)
      <4>1. /\ i \in DOMAIN ff[q1] /\ r \in Ids(ff[q1][i])
            /\ j \in DOMAIN ff[q2] /\ r \in Ids(ff[q2][j])
        BY <1>6, <3>2
      <4> QED BY <1>9, <4>1 DEF Single
    <3> QED BY <3>1, <3>2
  <2> QED BY <2>1, <2>2, <2>4, Zenon DEF Single
<1> QED BY <1>8, <1>9 DEF Follows
-----------------------------------------------------------------------------
(* What handling a message does to a peer's view.                          *)

ClientState == {"idle", "waiting", "done", "error", "gone"}

ViewRec(k) == [s : Sched(k), finished : Seq(Request), dead : BOOLEAN,
               client : [Request -> ClientState],
               received : [Request -> Nat], text : [Request -> Nat]]

\* w is v after tokens for requests of C: a client gets its last token when its
\* request leaves the running ones.
Handled(k, B, v, w, C) ==
  /\ w \in ViewRec(k) /\ Good(k, B, w.s) /\ Keeps(v.s, w.s, C)
  /\ \A r \in Request : \/ w.client[r] = v.client[r]
                        \/ /\ v.client[r] = "waiting" /\ w.client[r] = "done"
                           /\ r \in Ids(v.s.running) /\ r \notin Ids(w.s.running)

LEMMA ViewTypes ==
  ASSUME NEW k, NEW v \in ViewRec(k)
  PROVE  /\ v.s \in Sched(k) /\ v.finished \in Seq(Request) /\ v.dead \in BOOLEAN
         /\ v.client \in [Request -> ClientState]
         /\ v.received \in [Request -> Nat] /\ v.text \in [Request -> Nat]
  BY DEF ViewRec

LEMMA RunningFacts ==
  ASSUME NEW k, NEW s \in Sched(k), NEW r \in Ids(s.running)
  PROVE  get_running_request(s, r) \in Entry(k) /\ get_running_request(s, r).rid = r
<1>1. s.running \in Seq(Entry(k))
  BY SchedTypes
<1>2. \E i \in DOMAIN s.running : s.running[i].rid = r
  BY DEF Ids
<1>3. PICK j : j = CHOOSE i \in DOMAIN s.running : s.running[i].rid = r
  OBVIOUS
<1>4. j \in DOMAIN s.running /\ s.running[j].rid = r
  BY <1>2, <1>3
<1>5. s.running[j] \in Entry(k)
  BY <1>1, <1>4, ListFacts
<1>6. get_running_request(s, r) = s.running[j]
  BY <1>3, Zenon DEF get_running_request
<1> QED BY <1>4, <1>5, <1>6

LEMMA CommitFacts ==
  ASSUME NEW k, NEW q \in Entry(k)
  PROVE  /\ CommitNewToken(q) \in Entry(k) /\ CommitNewToken(q).rid = q.rid
         /\ CommitNewToken(q).status = "decode"
<1>1. PICK out \in Nat : out = q.out + 1
  BY DEF Entry, ReqRec
<1>2. PICK total \in Nat : total = q.total + 1
  BY DEF Entry, ReqRec
<1>3. PICK new : new = [q EXCEPT !.out = out, !.total = total, !.status = "decode"]
  OBVIOUS
<1>4. new \in Entry(k) /\ new.rid = q.rid /\ new.status = "decode"
  BY <1>3 DEF Entry, ReqRec
<1>5. CommitNewToken(q) = new
  BY <1>1, <1>2, <1>3 DEF CommitNewToken
<1> QED BY <1>4, <1>5

(* Requests that a peer lets go of.                                        *)

\* t is s when requests of C may have been let go of.
Loses(s, t, C) ==
  /\ t.wait = s.wait /\ OnlyReady(s.running, {}, t.running)
  /\ \A r \in Request : /\ t.pool.context[r] # Absent => t.pool.context[r] = s.pool.context[r]
                        /\ r \notin C => t.pool.context[r] = s.pool.context[r]

\* All requests of C have been let go of.
Drops(s, t, C) == Loses(s, t, C) /\ \A r \in C : t.pool.context[r] = Absent

LEMMA LosesSelf ==
  ASSUME NEW s
  PROVE  Drops(s, s, {})
  BY DEF Drops, Loses, OnlyReady

LEMMA LosesTransitive ==
  ASSUME NEW s, NEW t, NEW u, NEW C, NEW D, Loses(s, t, C), Loses(t, u, D)
  PROVE  Loses(s, u, C \cup D)
<1>1. OnlyReady(s.running, {}, u.running)
  BY DEF Loses, OnlyReady
<1> QED BY <1>1 DEF Loses

LEMMA DropsTransitive ==
  ASSUME NEW s, NEW t, NEW u, NEW C, NEW D, Drops(s, t, C), Drops(t, u, D),
         \A r \in C : r \in Request
  PROVE  Drops(s, u, C \cup D)
<1>1. Loses(s, u, C \cup D)
  BY LosesTransitive DEF Drops
<1>2. \A r \in C : u.pool.context[r] = Absent
  <2>1. \A r \in C : t.pool.context[r] = Absent
    BY DEF Drops
  <2>2. \A r \in Request : u.pool.context[r] # Absent => u.pool.context[r] = t.pool.context[r]
    BY DEF Drops, Loses
  <2> QED BY <2>1, <2>2, Zenon
<1>3. \A r \in D : u.pool.context[r] = Absent
  BY DEF Drops
<1> QED BY <1>1, <1>2, <1>3 DEF Drops

LEMMA LosesOne ==
  ASSUME NEW s, NEW t, NEW r \in Request, t.wait = s.wait, NEW c,
         OnlyReady(s.running, {}, t.running),
         s.pool.context \in [Request -> Nat \cup {Absent}],
         c = [s.pool.context EXCEPT ![r] = Absent], t.pool.context = c
  PROVE  Drops(s, t, {r})
<1>1. PICK b \in [Request -> Nat \cup {Absent}] : b = s.pool.context
  OBVIOUS
<1>2. c[r] = Absent /\ \A q \in Request : q # r => c[q] = b[q]
  BY <1>1
<1>3. \A q \in Request : (c[q] # Absent => c[q] = b[q]) /\ (q \notin {r} => c[q] = b[q])
  BY <1>2, Zenon
<1>4. Loses(s, t, {r})
  BY <1>1, <1>3 DEF Loses
<1> QED BY <1>2, <1>4 DEF Drops

(* Releasing and evicting a request, in either order.                      *)
LEMMA ReleaseEvict ==
  ASSUME NEW k, NEW B \in Nat, NEW s, Good(k, B, s), NEW r \in Request, NEW t,
         t = Release(evict_request(s, r), r) \/ t = evict_request(Release(s, r), r)
  PROVE  /\ Good(k, B, t) /\ Keeps(s, t, {}) /\ r \notin Ids(t.running)
         /\ Drops(s, t, {r})
<1>1. s \in Sched(k) /\ s.running \in Seq(Entry(k))
  BY SchedTypes DEF Good
<1>2. PICK new : new = Without(s.running, r)
  OBVIOUS
<1>3. IsWithout(k, s.running, r, new)
  BY <1>1, <1>2, WithoutFacts
<1>4. PICK m \in Nat : m = Len(new)
  BY <1>3, LenProperties DEF IsWithout
<1>5. PICK pool : pool = free_request(s.pool, r)
  OBVIOUS
<1>6. s = [wait |-> s.wait, running |-> s.running, pool |-> s.pool,
           metric |-> s.metric, reported |-> s.reported]
  BY <1>1 DEF Sched
<1>7. t = [wait |-> s.wait, running |-> new, pool |-> pool, metric |-> m, reported |-> s.reported]
  <2>1. CASE t = Release(evict_request(s, r), r)
    <3>1. PICK e : e = evict_request(s, r)
      OBVIOUS
    <3>2. e = [s EXCEPT !.running = new, !.metric = m]
      BY <1>2, <1>4, <3>1 DEF evict_request
    <3>3. e = [wait |-> s.wait, running |-> new, pool |-> s.pool, metric |-> m,
               reported |-> s.reported]
      BY <1>6, <3>2
    <3>4. t = [e EXCEPT !.pool = free_request(e.pool, r)]
      BY <2>1, <3>1 DEF Release
    <3>5. t = [e EXCEPT !.pool = pool]
      BY <1>5, <3>3, <3>4
    <3> QED BY <3>3, <3>5
  <2>2. CASE t = evict_request(Release(s, r), r)
    <3>1. PICK e : e = Release(s, r)
      OBVIOUS
    <3>2. e = [s EXCEPT !.pool = pool]
      BY <1>5, <3>1 DEF Release
    <3>3. e = [wait |-> s.wait, running |-> s.running, pool |-> pool, metric |-> s.metric,
               reported |-> s.reported]
      BY <1>6, <3>2
    <3>4. t = [e EXCEPT !.running = Without(e.running, r), !.metric = Len(Without(e.running, r))]
      BY <2>2, <3>1 DEF evict_request
    <3>5. e.running = s.running
      BY <3>3
    <3>6. t = [e EXCEPT !.running = new, !.metric = m]
      BY <1>2, <1>4, <3>4, <3>5
    <3> QED BY <3>3, <3>6
  <2> QED BY <2>1, <2>2
<1>8. OnlyReady(s.running, {r}, t.running)
  <2>1. OnlyReady(s.running, {r}, new)
    BY <1>1, <1>2, WithoutTasks
  <2>2. t.running = new
    BY <1>7
  <2> QED BY <2>1, <2>2
<1>10. Drops(s, t, {r})
  <2>1. PICK c : c = [s.pool.context EXCEPT ![r] = Absent]
    OBVIOUS
  <2>2. t.pool = pool /\ t.wait = s.wait
    BY <1>7
  <2>3. pool.context = c
    BY <1>5, <2>1 DEF free_request
  <2>4. s.pool.context \in [Request -> Nat \cup {Absent}]
    BY SchedTypes DEF Good, Pool
  <2>5. OnlyReady(s.running, {}, t.running) /\ t.pool.context = c
    BY <1>8, <2>2, <2>3 DEF OnlyReady
  <2> QED BY <2>1, <2>2, <2>4, <2>5, LosesOne, Zenon
<1>9. Good(k, B, t) /\ Keeps(s, t, {}) /\ r \notin Ids(t.running)
  BY <1>2, <1>5, <1>7, LetGoGood
<1> QED BY <1>9, <1>10

LEMMA ReleaseOnly ==
  ASSUME NEW k, NEW B \in Nat, NEW s, Good(k, B, s), NEW r \in Request, r \notin Ids(s.running)
  PROVE  Good(k, B, Release(s, r)) /\ Keeps(s, Release(s, r), {})
<1>1. s \in Sched(k) /\ s.pool \in Pool /\ Backed(s.pool, B)
  BY SchedTypes DEF Good
<1>2. PICK pool : pool = free_request(s.pool, r)
  OBVIOUS
<1>3. pool \in Pool /\ Backed(pool, B) /\ pool.context = [s.pool.context EXCEPT ![r] = Absent]
  BY <1>1, <1>2, FreeBacked
<1>4. s.pool.context[r] = Absent
  BY DEF Good
<1>5. SamePresence(s.pool, pool)
  BY <1>1, <1>3, <1>4 DEF Pool, SamePresence
<1>6. IsWithPool(k, B, s, WithPool(s, pool))
  BY <1>3, <1>5, GrowGood
<1>7. WithPool(s, pool) = Release(s, r)
  BY <1>2 DEF Release, WithPool
<1> QED BY <1>6, <1>7 DEF Keeps, IsWithPool

LEMMA KeepsSelf ==
  ASSUME NEW s, NEW C
  PROVE  Keeps(s, s, C)
  BY DEF Keeps

LEMMA KeepsMore ==
  ASSUME NEW s, NEW t, NEW C, NEW D, Keeps(s, t, C), \A r \in C : r \in D
  PROVE  Keeps(s, t, D)
  BY DEF Keeps

\* The view of a peer with another scheduler and another finished list.
Changed(v, s, fin) == [v EXCEPT !.s = s, !.finished = fin]

IsChanged(k, v, s, fin, w) ==
  /\ w \in ViewRec(k) /\ w.s = s /\ w.finished = fin /\ w.dead = v.dead
  /\ w.client = v.client /\ w.received = v.received /\ w.text = v.text

LEMMA ViewChange ==
  ASSUME NEW k, NEW v \in ViewRec(k), NEW s \in Sched(k), NEW fin \in Seq(Request)
  PROVE  IsChanged(k, v, s, fin, Changed(v, s, fin))
  BY DEF ViewRec, Changed, IsChanged

(* The HTTP server's part of a token.                                      *)
IsTold(k, v, r, last, w) ==
  /\ w \in ViewRec(k) /\ w.s = v.s /\ w.finished = v.finished /\ w.dead = v.dead
  /\ \A q \in Request : \/ w.client[q] = v.client[q]
                        \/ q = r /\ last /\ v.client[q] = "waiting" /\ w.client[q] = "done"

LEMMA HttpTokenFacts ==
  ASSUME NEW k, NEW v \in ViewRec(k), NEW r \in Request, NEW eos, NEW last
  PROVE  IsTold(k, v, r, last, HandleHttpToken(v, r, eos, last))
<1>0. PICK w : w = HandleHttpToken(v, r, eos, last)
  OBVIOUS
<1>1. CASE v.client[r] # "waiting"
  <2>1. w = v
    BY <1>0, <1>1 DEF HandleHttpToken
  <2> QED BY <1>0, <2>1, Zenon DEF IsTold
<1>2. CASE v.client[r] = "waiting"
  <2>1. /\ v.client \in [Request -> ClientState]
        /\ v.received \in [Request -> Nat] /\ v.text \in [Request -> Nat]
    BY ViewTypes
  <2>2. \A f \in [Request -> Nat] : CountToken(f, r) \in [Request -> Nat]
    BY DEF CountToken
  <2>3. PICK rec \in [Request -> Nat] : rec = IF eos THEN v.received ELSE CountToken(v.received, r)
    BY <2>1, <2>2
  <2>4. PICK txt \in [Request -> Nat] : txt = IF last THEN v.text ELSE CountToken(v.text, r)
    BY <2>1, <2>2
  <2>5. PICK cl \in [Request -> ClientState] :
          cl = IF last THEN [v.client EXCEPT ![r] = "done"] ELSE v.client
    BY <2>1 DEF ClientState
  <2>6. w = [v EXCEPT !.received = rec, !.text = txt, !.client = cl]
    BY <1>0, <1>2, <2>3, <2>4, <2>5 DEF HandleHttpToken
  <2>7. /\ w \in ViewRec(k) /\ w.s = v.s /\ w.client = cl
        /\ w.finished = v.finished /\ w.dead = v.dead
    BY <2>6 DEF ViewRec
  <2>8. \A q \in Request : w.client[q] = v.client[q] \/ (q = r /\ last /\ w.client[q] = "done")
    BY <2>1, <2>5, <2>7
  <2>9. \A q \in Request : \/ w.client[q] = v.client[q]
                           \/ q = r /\ last /\ v.client[q] = "waiting" /\ w.client[q] = "done"
    BY <1>2, <2>8, Zenon
  <2>10. IsTold(k, v, r, last, w)
    BY <2>7, <2>9, Zenon DEF IsTold
  <2> QED BY <1>0, <2>10, Zenon
<1> QED BY <1>1, <1>2

LEMMA TokenHandled ==
  ASSUME NeedsBlocks, NEW k, NEW B \in Nat, NEW v \in ViewRec(k), Good(k, B, v.s),
         NEW r \in Request, NEW eos
  PROVE  Handled(k, B, v, HandleToken(v, r, eos), {r})
<1>1. PICK w : w = HandleToken(v, r, eos)
  OBVIOUS
<1>2. CASE r \notin Ids(v.s.running) \/ ~has_request(v.s.pool, r)
  <2>1. w = v
    BY <1>1, <1>2 DEF HandleToken
  <2> QED BY <1>1, <2>1, KeepsSelf DEF Handled
<1>3. CASE r \in Ids(v.s.running) /\ has_request(v.s.pool, r)
  <2>1. v.s \in Sched(k) /\ v.finished \in Seq(Request)
    BY ViewTypes
  <2>2. PICK q \in Entry(k) : q = CommitNewToken(get_running_request(v.s, r)) /\ q.rid = r
                             /\ q.status = "decode"
    BY <1>3, <2>1, RunningFacts, CommitFacts
  <2>4. PICK s : s = IF is_done(q, eos) THEN Release(evict_request(v.s, r), r)
                     ELSE enque_request(v.s, q)
    OBVIOUS
  <2>5. PICK fin : fin = IF is_done(q, eos) /\ FirstPeer # LastPeer THEN Append(v.finished, r)
                         ELSE v.finished
    OBVIOUS
  <2>6. PICK u : u = Changed(v, s, fin)
    OBVIOUS
  <2>7. w = HandleHttpToken(u, r, eos, eos \/ q.out >= q.max_new)
    BY <1>1, <1>3, <2>2, <2>4, <2>5, <2>6 DEF HandleToken, Changed
  <2>8. Good(k, B, s) /\ Keeps(v.s, s, {r}) /\ (is_done(q, eos) => r \notin Ids(s.running))
    <3>1. CASE is_done(q, eos)
      <4>1. Good(k, B, s) /\ Keeps(v.s, s, {}) /\ r \notin Ids(s.running)
        BY <2>4, <3>1, ReleaseEvict
      <4> QED BY <4>1, KeepsMore
    <3>2. CASE ~is_done(q, eos)
      BY <1>3, <2>2, <2>4, <3>2, EnqueDecode
    <3> QED BY <3>1, <3>2
  <2>9. (eos \/ q.out >= q.max_new) => r \notin Ids(s.running)
    BY <2>8 DEF is_done
  <2>10. fin \in Seq(Request)
    BY <2>1, <2>5, AppendProperties
  <2>11. IsChanged(k, v, s, fin, u)
    <3>1. s \in Sched(k)
      BY <2>8 DEF Good
    <3> QED BY <2>6, <2>10, <3>1, ViewChange
  <2>12. IsTold(k, u, r, eos \/ q.out >= q.max_new, w)
    <3>1. u \in ViewRec(k)
      BY <2>11 DEF IsChanged
    <3> QED BY <2>7, <3>1, HttpTokenFacts
  <2>13. Handled(k, B, v, w, {r})
    BY <1>3, <2>8, <2>9, <2>11, <2>12 DEF Handled, IsTold, IsChanged
  <2> QED BY <1>1, <2>13
<1> QED BY <1>2, <1>3

LEMMA HandledTransitive ==
  ASSUME NEW k, NEW B, NEW u, NEW v, NEW w, NEW C, Handled(k, B, u, v, C), Handled(k, B, v, w, C)
  PROVE  Handled(k, B, u, w, C)
<1>1. Keeps(u.s, w.s, C)
  BY DEF Handled, Keeps
<1>2. \A r : r \in Ids(w.s.running) => r \in Ids(v.s.running)
  BY DEF Handled, Keeps
<1>3. \A r : r \in Ids(v.s.running) => r \in Ids(u.s.running)
  BY DEF Handled, Keeps
<1> QED BY <1>1, <1>2, <1>3 DEF Handled

LEMMA HandledMore ==
  ASSUME NEW k, NEW B, NEW v, NEW w, NEW C, NEW D, Handled(k, B, v, w, C), \A r \in C : r \in D
  PROVE  Handled(k, B, v, w, D)
  BY KeepsMore DEF Handled

TokenEach(eos, v, m) == HandleToken(v, m.rid, m.rid \in eos)
TokenFold == INSTANCE FoldLemmas WITH Op <- TokenEach

(* A message of tokens, or a batch that a single node has computed.        *)
LEMMA TokensHandled ==
  ASSUME NeedsBlocks, NEW k, NEW B \in Nat, NEW v \in ViewRec(k), Good(k, B, v.s),
         NEW X, NEW msg \in Seq(X), \A i \in DOMAIN msg : msg[i].rid \in Request, NEW eos
  PROVE  Handled(k, B, v, HandleTokens(v, msg, eos), Ids(msg))
<1>1. PICK C : C = Ids(msg)
  OBVIOUS
<1> DEFINE Y == {x \in X : x.rid \in C}
           A == {w \in ViewRec(k) : Handled(k, B, v, w, C)}
<1>2. \A r \in C : r \in Request
  BY <1>1 DEF Ids
<1>3. msg \in Seq(Y)
  <2>1. PICK n \in Nat : n = Len(msg) /\ DOMAIN msg = 1..n /\ \A i \in 1..n : msg[i] \in X
    BY ListFacts
  <2>2. \A i \in 1..n : msg[i].rid \in C
    BY <1>1, <2>1 DEF Ids
  <2>3. \A i \in 1..n : msg[i] \in Y
    BY <2>1, <2>2
  <2> HIDE DEF Y
  <2>4. msg = [i \in 1..n |-> msg[i]]
    BY <2>1, SeqDef
  <2>5. msg \in [1..n -> Y]
    BY <2>3, <2>4
  <2> QED BY <2>5, SeqDef
<1>4. v \in A
  BY KeepsSelf DEF Handled
<1>5. ASSUME NEW w \in A, NEW x \in Y
      PROVE  TokenEach(eos, w, x) \in A
  <2>1. PICK r \in Request : r = x.rid /\ r \in C
    BY <1>2
  <2>3. PICK y : y = TokenEach(eos, w, x)
    OBVIOUS
  <2>4. y = HandleToken(w, r, x.rid \in eos)
    BY <2>1, <2>3 DEF TokenEach
  <2>5. w \in ViewRec(k) /\ Good(k, B, w.s) /\ Handled(k, B, v, w, C)
    BY DEF Handled
  <2>6. Handled(k, B, w, y, {r})
    BY <2>4, <2>5, TokenHandled
  <2>7. Handled(k, B, w, y, C)
    BY <2>1, <2>6, HandledMore
  <2>8. Handled(k, B, v, y, C)
    BY <2>5, <2>7, HandledTransitive
  <2>9. y \in ViewRec(k)
    BY <2>8 DEF Handled
  <2> QED BY <2>3, <2>8, <2>9
<1>6. TokenFold!Fold(eos, v, msg) \in A
  <2> HIDE DEF A, Y
  <2> QED BY <1>3, <1>4, <1>5, LeastElement, TokenFold!FoldLeftIn DEF TokenFold!WellOrdered
<1>7. TokenFold!Fold(eos, v, msg) = HandleTokens(v, msg, eos)
  BY Zenon DEF TokenFold!Fold, TokenEach, HandleTokens, FoldLeft, MapThenFoldSet,
               TokenFold!MapThenFoldSet, Max, TokenFold!Max
<1> QED BY <1>1, <1>6, <1>7

Msg == [rid : Request, status : {"prefill", "decode"}, pos : Nat]

\* r has a step pending in the scheduler s.
PendingIn(s, r) == r \in Ids(s.wait) \/ ReadyIn(s.running, r)

\* w is v after the first i requests of a message of another peer.
Staged(k, B, v, msg, w, i) ==
  /\ w \in ViewRec(k) /\ Good(k, B, w.s)
  /\ w.client = v.client /\ w.received = v.received /\ w.text = v.text
  /\ \A r : PendingIn(w.s, r) => PendingIn(v.s, r) \/ r \in SoFar(msg, i)
  /\ /\ Sound(v.s) /\ Distinct(msg)
     /\ \A r \in Ids(msg) : ~PendingIn(v.s, r)
     => Sound(w.s)

LEMMA ProtoFacts ==
  ASSUME NEW m \in Msg
  PROVE  /\ proto_to_request(m) \in Entry("intermediate") /\ proto_to_request(m).rid = m.rid
         /\ proto_to_request(m).status = m.status
  BY DEF Msg, proto_to_request, Entry, ReqRec

\* t is s with the step of request r enqueued.
IsEnqueued(k, B, s, r, t) ==
  /\ Good(k, B, t) /\ \A q : PendingIn(t, q) => PendingIn(s, q) \/ q = r
  /\ Sound(s) /\ ~PendingIn(s, r) => Sound(t)

LEMMA EnqueGood ==
  ASSUME NEW k, NEW B \in Nat, NEW s, Good(k, B, s), NEW q \in Entry(k), ~enque_raises(s, q)
  PROVE  IsEnqueued(k, B, s, q.rid, enque_request(s, q))
<1>1. PICK t : t = enque_request(s, q)
  OBVIOUS
<1>2. CASE q.status = "decode"
  <2>1. Good(k, B, t) /\ Keeps(s, t, {q.rid})
    BY <1>1, <1>2, EnqueDecode DEF enque_raises
  <2>2. Sound(s) /\ ~PendingIn(s, q.rid) => Sound(t)
    BY <2>1, KeepsSound DEF PendingIn
  <2>3. \A r : PendingIn(t, r) => PendingIn(s, r) \/ r = q.rid
    BY <2>1 DEF Keeps, PendingIn
  <2> QED BY <1>1, <2>1, <2>2, <2>3 DEF IsEnqueued
<1>3. CASE q.status = "prefill"
  <2>1. /\ Good(k, B, t) /\ t.running = s.running
        /\ \A r : r \in Ids(t.wait) <=> r \in Ids(s.wait) \/ r = q.rid
        /\ Distinct(s.wait) /\ q.rid \notin Ids(s.wait) => Distinct(t.wait)
    BY <1>1, <1>3, EnquePrefill
  <2>2. Sound(s) /\ ~PendingIn(s, q.rid) => Sound(t)
    BY <2>1 DEF Sound, PendingIn
  <2>3. \A r : PendingIn(t, r) => PendingIn(s, r) \/ r = q.rid
    BY <2>1 DEF PendingIn
  <2> QED BY <1>1, <2>1, <2>2, <2>3 DEF IsEnqueued
<1>4. q.status \in {"prefill", "decode"}
  BY DEF Entry, ReqRec
<1> QED BY <1>2, <1>3, <1>4

LEMMA DeadView ==
  ASSUME NEW k, NEW v \in ViewRec(k), NEW w, w = [v EXCEPT !.dead = TRUE]
  PROVE  /\ w \in ViewRec(k) /\ w.s = v.s /\ w.finished = v.finished
         /\ w.client = v.client /\ w.received = v.received /\ w.text = v.text
  BY DEF ViewRec

LEMMA StageStep ==
  ASSUME NEW B \in Nat, NEW v, NEW msg \in Seq(Msg), NEW i \in 1..Len(msg), NEW w,
         Staged("intermediate", B, v, msg, w, i - 1)
  PROVE  Staged("intermediate", B, v, msg, HandleStage(w, msg[i]), i)
<1> DEFINE k == "intermediate"
<1>1. PICK n \in Nat : n = Len(msg) /\ DOMAIN msg = 1..n
  BY ListFacts
<1>2. i \in 1..n /\ i \in 1..i /\ \A j : j \in 1..i <=> j \in 1..(i - 1) \/ j = i
  BY <1>1
<1>3. PICK m \in Msg : m = msg[i]
  BY <1>1, <1>2, ListFacts
<1>4. PICK S : S = SoFar(msg, i)
  OBVIOUS
<1>5. PICK R : R = SoFar(msg, i - 1)
  OBVIOUS
<1>6. \A r : r \in S <=> r \in R \/ r = m.rid
  BY <1>2, <1>3, <1>4, <1>5 DEF SoFar
<1>7. Distinct(msg) => m.rid \notin R
  <2>1. ASSUME Distinct(msg), m.rid \in R PROVE FALSE
    <3>1. PICK j \in 1..(i - 1) : msg[j].rid = m.rid
      BY <1>5, <2>1 DEF SoFar
    <3>2. j \in 1..n /\ j # i
      BY <1>1, <1>2
    <3> QED BY <1>1, <1>2, <1>3, <2>1, <3>1, <3>2 DEF Distinct
  <2> QED BY <2>1
<1>8. m.rid \in Ids(msg)
  BY <1>1, <1>2, <1>3 DEF Ids
<1> HIDE DEF k
<1>9. /\ w \in ViewRec(k) /\ Good(k, B, w.s)
      /\ w.client = v.client /\ w.received = v.received /\ w.text = v.text
      /\ \A r : PendingIn(w.s, r) => PendingIn(v.s, r) \/ r \in R
      /\ Sound(v.s) /\ Distinct(msg) /\ (\A r \in Ids(msg) : ~PendingIn(v.s, r)) => Sound(w.s)
  BY <1>5 DEF Staged, k
<1>10. PICK req : req = proto_to_request(m)
  OBVIOUS
<1>11. req \in Entry(k) /\ req.rid = m.rid
  BY <1>10, ProtoFacts DEF k
<1>12. PICK y : y = HandleStage(w, m)
  OBVIOUS
<1>13. CASE w.dead \/ enque_raises(w.s, req)
  <2>1. y = [w EXCEPT !.dead = TRUE]
    BY <1>10, <1>12, <1>13 DEF HandleStage
  <2>2. /\ y \in ViewRec(k) /\ y.s = w.s
        /\ y.client = w.client /\ y.received = w.received /\ y.text = w.text
    BY <1>9, <2>1, DeadView
  <2>3. Staged(k, B, v, msg, y, i)
    BY <1>4, <1>6, <1>9, <2>2 DEF Staged
  <2> QED BY <1>3, <1>12, <2>3 DEF k
<1>14. CASE ~(w.dead \/ enque_raises(w.s, req))
  <2>1. PICK t : t = enque_request(w.s, req)
    OBVIOUS
  <2>2. IsEnqueued(k, B, w.s, m.rid, t)
    <3>1. Good(k, B, w.s) /\ ~enque_raises(w.s, req)
      BY <1>9, <1>14
    <3>2. IsEnqueued(k, B, w.s, req.rid, t)
      BY <1>11, <2>1, <3>1, EnqueGood
    <3> QED BY <1>11, <3>2
  <2>3. w.finished \in Seq(Request) /\ t \in Sched(k)
    BY <1>9, <2>2, ViewTypes DEF IsEnqueued, Good
  <2>4. y = [w EXCEPT !.s = t]
    BY <1>10, <1>12, <1>14, <2>1 DEF HandleStage
  <2>5. y = Changed(w, t, w.finished)
    BY <1>9, <2>4 DEF Changed, ViewRec
  <2>6. IsChanged(k, w, t, w.finished, y)
    BY <1>9, <2>3, <2>5, ViewChange
  <2>7. Sound(v.s) /\ Distinct(msg) /\ (\A r \in Ids(msg) : ~PendingIn(v.s, r)) => Sound(t)
    BY <1>7, <1>8, <1>9, <2>2 DEF IsEnqueued
  <2>8. \A r : PendingIn(t, r) => PendingIn(v.s, r) \/ r \in S
    BY <1>6, <1>9, <2>2 DEF IsEnqueued
  <2>9. Good(k, B, t)
    BY <2>2 DEF IsEnqueued
  <2>10. Staged(k, B, v, msg, y, i)
    BY <1>4, <1>9, <2>6, <2>7, <2>8, <2>9 DEF Staged, IsChanged
  <2> QED BY <1>3, <1>12, <2>10 DEF k
<1> QED BY <1>13, <1>14

StageEach(none, v, m) == HandleStage(v, m)
StageFold == INSTANCE FoldLemmas WITH Op <- StageEach

LEMMA StagesHandled ==
  ASSUME NEW B \in Nat, NEW v \in ViewRec("intermediate"), Good("intermediate", B, v.s),
         NEW msg \in Seq(Msg)
  PROVE  Staged("intermediate", B, v, msg, FoldLeft(HandleStage, v, msg), Len(msg))
<1>1. PICK n \in Nat : n = Len(msg)
  BY LenProperties
<1>2. PICK k : k = "intermediate"
  OBVIOUS
<1> DEFINE A == [i \in 0..n |-> {w \in ViewRec(k) : Staged(k, B, v, msg, w, i)}]
<1>3. v \in A[0]
  <2>1. Staged(k, B, v, msg, v, 0)
    BY <1>2 DEF Staged
  <2> QED BY <1>2, <2>1
<1>4. ASSUME NEW i \in 1..n, NEW w \in A[i - 1]
      PROVE  StageEach(0, w, msg[i]) \in A[i]
  <2>1. i - 1 \in 0..n /\ i \in 0..n
    BY <1>1
  <2>2. Staged(k, B, v, msg, w, i - 1)
    BY <2>1
  <2>3. Staged(k, B, v, msg, HandleStage(w, msg[i]), i)
    BY <1>1, <1>2, <2>2, StageStep
  <2>4. HandleStage(w, msg[i]) \in ViewRec(k)
    BY <2>3 DEF Staged
  <2> QED BY <2>1, <2>3, <2>4 DEF StageEach
<1>5. StageFold!Fold(0, v, msg) \in A[n]
  <2> HIDE DEF A
  <2> QED BY <1>1, <1>3, <1>4, LeastElement, StageFold!FoldLeftAlong DEF StageFold!WellOrdered
<1>6. StageFold!Fold(0, v, msg) = FoldLeft(HandleStage, v, msg)
  BY Zenon DEF StageFold!Fold, StageEach, FoldLeft, MapThenFoldSet,
               StageFold!MapThenFoldSet, Max, StageFold!Max
<1>7. n \in 0..n
  BY <1>1
<1>8. Staged(k, B, v, msg, StageFold!Fold(0, v, msg), n)
  BY <1>5, <1>7
<1> QED BY <1>1, <1>2, <1>6, <1>8

\* w is v after requests were let go; no client is told.
LetGo(k, B, v, w) ==
  /\ w \in ViewRec(k) /\ Good(k, B, w.s) /\ Keeps(v.s, w.s, {})
  /\ w.client = v.client /\ w.received = v.received /\ w.text = v.text

LEMMA AbortHandled ==
  ASSUME NEW k, NEW B \in Nat, NEW v \in ViewRec(k), Good(k, B, v.s), NEW p, NEW r \in Request
  PROVE  LetGo(k, B, v, HandleAbort(p, v, r))
<1>1. PICK y : y = HandleAbort(p, v, r)
  OBVIOUS
<1>2. PICK s : s = Release(v.s, r)
  OBVIOUS
<1>3. PICK w : w = [v EXCEPT !.s = s]
  OBVIOUS
<1>4. v.finished \in Seq(Request)
  BY ViewTypes
<1>5. CASE v.dead
  <2>1. y = v
    BY <1>1, <1>5 DEF HandleAbort
  <2> QED BY <1>1, <2>1, KeepsSelf DEF LetGo
<1>6. CASE ~v.dead /\ r \notin Ids(v.s.running)
  <2>1. Good(k, B, s) /\ Keeps(v.s, s, {})
    BY <1>2, <1>6, ReleaseOnly
  <2>2. s \in Sched(k)
    BY <2>1 DEF Good
  <2>3. w = Changed(v, s, v.finished)
    BY <1>3 DEF Changed, ViewRec
  <2>4. IsChanged(k, v, s, v.finished, w)
    BY <1>4, <2>2, <2>3, ViewChange
  <2>5. y = [w EXCEPT !.dead = TRUE]
    BY <1>1, <1>2, <1>3, <1>6 DEF HandleAbort
  <2>6. w \in ViewRec(k)
    BY <2>4 DEF IsChanged
  <2>7. /\ y \in ViewRec(k) /\ y.s = w.s
        /\ y.client = w.client /\ y.received = w.received /\ y.text = w.text
    BY <2>5, <2>6, DeadView
  <2> QED BY <1>1, <2>1, <2>4, <2>7 DEF LetGo, IsChanged
<1>7. CASE ~v.dead /\ r \in Ids(v.s.running)
  <2>1. PICK t : t = evict_request(s, r)
    OBVIOUS
  <2>2. Good(k, B, t) /\ Keeps(v.s, t, {})
    BY <1>2, <2>1, ReleaseEvict
  <2>3. t \in Sched(k)
    BY <2>2 DEF Good
  <2>4. PICK fin : fin = IF p # LastPeer THEN Append(v.finished, r) ELSE v.finished
    OBVIOUS
  <2>5. fin \in Seq(Request)
    BY <1>4, <2>4, AppendProperties
  <2>6. w.s = s /\ w.finished = v.finished
    BY <1>3 DEF ViewRec
  <2>7. y = [w EXCEPT !.s = evict_request(w.s, r),
                      !.finished = IF p # LastPeer THEN Append(w.finished, r) ELSE w.finished]
    BY <1>1, <1>2, <1>3, <1>7 DEF HandleAbort
  <2>8. y = [w EXCEPT !.s = t, !.finished = fin]
    BY <2>1, <2>4, <2>6, <2>7
  <2>9. y = Changed(v, t, fin)
    BY <1>3, <2>8 DEF Changed, ViewRec
  <2>10. IsChanged(k, v, t, fin, y)
    BY <2>3, <2>5, <2>9, ViewChange
  <2> QED BY <1>1, <2>2, <2>10 DEF LetGo, IsChanged
<1> QED BY <1>5, <1>6, <1>7

LEMMA LetGoTransitive ==
  ASSUME NEW k, NEW B, NEW u, NEW v, NEW w, LetGo(k, B, u, v), LetGo(k, B, v, w)
  PROVE  LetGo(k, B, u, w)
  BY DEF LetGo, Keeps

AbortEach(p, v, r) == HandleAbort(p, v, r)
AbortFold == INSTANCE FoldLemmas WITH Op <- AbortEach

Aborted(p, v, rids) == FoldLeft(LAMBDA w, r : HandleAbort(p, w, r), v, rids)

LEMMA AbortsHandled ==
  ASSUME NEW k, NEW B \in Nat, NEW v \in ViewRec(k), Good(k, B, v.s), NEW p,
         NEW rids \in Seq(Request)
  PROVE  LetGo(k, B, v, Aborted(p, v, rids))
<1> DEFINE A == {w \in ViewRec(k) : LetGo(k, B, v, w)}
<1>1. v \in A
  BY KeepsSelf DEF LetGo
<1>2. ASSUME NEW w \in A, NEW r \in Request
      PROVE  AbortEach(p, w, r) \in A
  <2>1. PICK y : y = AbortEach(p, w, r)
    OBVIOUS
  <2>2. w \in ViewRec(k) /\ Good(k, B, w.s) /\ LetGo(k, B, v, w)
    BY DEF LetGo
  <2>3. LetGo(k, B, w, y)
    BY <2>1, <2>2, AbortHandled DEF AbortEach
  <2>4. LetGo(k, B, v, y)
    BY <2>2, <2>3, LetGoTransitive
  <2>5. y \in ViewRec(k)
    BY <2>4 DEF LetGo
  <2> QED BY <2>1, <2>4, <2>5
<1>3. AbortFold!Fold(p, v, rids) \in A
  <2> HIDE DEF A
  <2> QED BY <1>1, <1>2, LeastElement, AbortFold!FoldLeftIn DEF AbortFold!WellOrdered
<1>4. AbortFold!Fold(p, v, rids) = Aborted(p, v, rids)
  BY Zenon DEF Aborted, AbortFold!Fold, AbortEach, FoldLeft, MapThenFoldSet,
               AbortFold!MapThenFoldSet, Max, AbortFold!Max
<1>5. LetGo(k, B, v, AbortFold!Fold(p, v, rids))
  BY <1>3
<1> QED BY <1>4, <1>5

FreeEach(none, s, q) == ReleaseAndEvict(s, q.rid)
FreeFold == INSTANCE FoldLemmas WITH Op <- FreeEach

LEMMA FreeOne ==
  ASSUME NEW k, NEW B \in Nat, NEW s, Good(k, B, s), NEW r \in Request
  PROVE  Good(k, B, ReleaseAndEvict(s, r)) /\ Keeps(s, ReleaseAndEvict(s, r), {})
<1>1. PICK t : t = ReleaseAndEvict(s, r)
  OBVIOUS
<1>2. CASE r \in Ids(s.running)
  <2>1. t = evict_request(Release(s, r), r)
    BY <1>1, <1>2 DEF ReleaseAndEvict
  <2>2. Good(k, B, t) /\ Keeps(s, t, {})
    BY <2>1, ReleaseEvict
  <2> QED BY <1>1, <2>2
<1>3. CASE r \notin Ids(s.running)
  <2>1. t = Release(s, r)
    BY <1>1, <1>3 DEF ReleaseAndEvict
  <2> QED BY <1>1, <1>3, <2>1, ReleaseOnly
<1> QED BY <1>2, <1>3

LEMMA BatchReleased ==
  ASSUME NEW k, NEW B \in Nat, NEW v \in ViewRec(k), Good(k, B, v.s),
         NEW batch \in Seq(Entry(k))
  PROVE  LetGo(k, B, v, ReleaseBatch(v, batch))
<1> DEFINE A == {t \in Sched(k) : Good(k, B, t) /\ Keeps(v.s, t, {})}
<1>1. v.s \in A
  BY KeepsSelf, ViewTypes
<1>2. ASSUME NEW t \in A, NEW q \in Entry(k)
      PROVE  FreeEach(0, t, q) \in A
  <2>1. q.rid \in Request
    BY DEF Entry, ReqRec
  <2>2. PICK u : u = FreeEach(0, t, q)
    OBVIOUS
  <2>3. Good(k, B, u) /\ Keeps(t, u, {})
    BY <2>1, <2>2, FreeOne DEF FreeEach
  <2>4. Keeps(v.s, u, {})
    BY <2>3 DEF Keeps
  <2> QED BY <2>2, <2>3, <2>4 DEF Good
<1>3. PICK t : t = FreeFold!Fold(0, v.s, batch)
  OBVIOUS
<1>4. t \in A
  <2> HIDE DEF A
  <2> QED BY <1>1, <1>2, <1>3, LeastElement, FreeFold!FoldLeftIn DEF FreeFold!WellOrdered
<1>5. t = FoldLeft(LAMBDA s, q : ReleaseAndEvict(s, q.rid), v.s, batch)
  BY <1>3, Zenon DEF FreeFold!Fold, FreeEach, FoldLeft, MapThenFoldSet,
               FreeFold!MapThenFoldSet, Max, FreeFold!Max
<1>6. PICK w : w = ReleaseBatch(v, batch)
  OBVIOUS
<1>7. w = [v EXCEPT !.s = t]
  BY <1>5, <1>6 DEF ReleaseBatch
<1>8. w = Changed(v, t, v.finished)
  BY <1>7 DEF Changed, ViewRec
<1>9. v.finished \in Seq(Request)
  BY ViewTypes
<1>10. IsChanged(k, v, t, v.finished, w)
  BY <1>4, <1>8, <1>9, ViewChange
<1> QED BY <1>4, <1>6, <1>10 DEF LetGo, IsChanged

GrowEach(none, g, q) ==
  [ok |-> g.ok /\ append_ok(g.pool, q.rid), pool |-> append_slot(g.pool, q.rid)]
GrowFold == INSTANCE FoldLemmas WITH Op <- GrowEach

LEMMA GrowFacts ==
  ASSUME NeedsBlocks, NEW k, NEW B \in Nat, NEW pool \in Pool, Backed(pool, B),
         NEW batch \in Seq(Entry(k)), Distinct(batch)
  PROVE  /\ Grow(pool, batch).pool \in Pool /\ Backed(Grow(pool, batch).pool, B)
         /\ SamePresence(pool, Grow(pool, batch).pool)
<1>1. PICK reqs : reqs = Decodes(batch)
  OBVIOUS
<1>2. reqs \in Seq(Entry(k))
  BY <1>1, PartFacts DEF Decodes
<1> DEFINE G == [ok : BOOLEAN, pool : Pool]
           A == {g \in G : Backed(g.pool, B) /\ SamePresence(pool, g.pool)}
<1>3. PICK base : base = [ok |-> TRUE, pool |-> pool]
  OBVIOUS
<1>4. base \in A
  BY <1>3 DEF SamePresence
<1>5. ASSUME NEW g \in A, NEW q \in Entry(k)
      PROVE  GrowEach(0, g, q) \in A
  <2>1. PICK r \in Request : r = q.rid
    BY DEF Entry, ReqRec
  <2>2. PICK new : new = append_slot(g.pool, r)
    OBVIOUS
  <2>3. new \in Pool /\ Backed(new, B)
        /\ \A p \in Request : new.context[p] = Absent <=> g.pool.context[p] = Absent
    BY <2>2, AppendBacked
  <2>4. SamePresence(pool, new)
    BY <2>3 DEF SamePresence
  <2>5. PICK ok \in BOOLEAN : GrowEach(0, g, q) = [ok |-> ok, pool |-> new]
    <3>1. (g.ok /\ append_ok(g.pool, q.rid)) \in BOOLEAN
      BY Zenon
    <3> QED BY <2>1, <2>2, <3>1 DEF GrowEach
  <2> QED BY <2>3, <2>4, <2>5
<1>6. PICK g : g = GrowFold!Fold(0, base, reqs)
  OBVIOUS
<1>7. g \in A
  <2> HIDE DEF A
  <2> QED BY <1>2, <1>4, <1>5, <1>6, LeastElement, GrowFold!FoldLeftIn DEF GrowFold!WellOrdered
<1>8. g = Grow(pool, batch)
  BY <1>1, <1>3, <1>6, Zenon DEF GrowFold!Fold, Grow, GrowEach, FoldLeft, MapThenFoldSet,
                                 GrowFold!MapThenFoldSet, Max, GrowFold!Max
<1> QED BY <1>7, <1>8
-----------------------------------------------------------------------------
(* The inductive invariant.                                                *)

\* The kind of requests a peer has.
K(p) == IF p = FirstPeer THEN "initial" ELSE "intermediate"

HttpMsg == [kind : {"new", "abort"}, rid : Request, len : Nat, max_new : Nat]

AnySched == Sched("initial") \cup Sched("intermediate")

TypesInv ==
  /\ sched \in [Peer -> AnySched]
  /\ finished \in [Peer -> Seq(Request)] /\ alive \in [Peer -> BOOLEAN]
  /\ forward \in [Peer -> Seq(Seq(Msg))] /\ aborts \in [Peer -> SUBSET Seq(Request)]
  /\ http_in \in Seq(HttpMsg)
  /\ client \in [Request -> ClientState]
  /\ received \in [Request -> Nat] /\ text \in [Request -> Nat] /\ timed_out \in SUBSET Request

PeersInv == \A p \in Peer : Good(K(p), PeerBlocks[p], sched[p]) /\ Sound(sched[p])

\* No message has two steps of one request.
MessagesInv == \A p \in Peer : \A i \in DOMAIN forward[p] : Distinct(forward[p][i])

Pending == {x \in Peer \X Request : PendingIn(sched[x[1]], x[2])}

PlacesInv == Single(Pending, forward)

\* Nothing is known of r in the pipeline but what earlier steps left at the
\* other peers.
Unstarted(r) == ~Started(Pending, forward, r) /\ r \notin Ids(sched[FirstPeer].running)

\* No request is started, and no client starts over.
Undisturbed ==
  \A r \in Request : /\ Unstarted(r) => Unstarted(r)'
                     /\ client'[r] = "idle" => client[r] = "idle"

\* The first peer has not taken r yet.
Fresh(r) ==
  client[r] = "idle" \/ \E i \in DOMAIN http_in : http_in[i].kind = "new" /\ http_in[i].rid = r

\* A request that the first peer has not taken yet is nowhere else.  h is what
\* the HTTP server has sent it.
NewIn(h) ==
  \A i \in DOMAIN h : h[i].kind = "new" =>
    /\ client[h[i].rid] \in {"waiting", "gone"} /\ Unstarted(h[i].rid)
    /\ \A j \in DOMAIN h : h[j].kind = "new" /\ h[j].rid = h[i].rid => i = j

NewInv == NewIn(http_in)

IdleInv == \A r \in Request : client[r] = "idle" => Unstarted(r)

\* A request that is answered is not at the first peer.
Gone(s, r) == r \notin Ids(s.wait) /\ r \notin Ids(s.running)

FirstInv ==
  /\ Apart(sched[FirstPeer])
  /\ \A r \in Request : client[r] \in {"done", "error"} => Gone(sched[FirstPeer], r)

ExecInv ==
  TypesInv /\ PeersInv /\ MessagesInv /\ PlacesInv /\ NewInv /\ IdleInv /\ FirstInv

LEMMA FirstIsPeer == FirstPeer \in Peer
  BY PipelineAssumption DEF FirstPeer, Peer

LEMMA BlocksType == \A p \in Peer : PeerBlocks[p] \in Nat
  BY PipelineAssumption DEF Peer

LEMMA PendingIsPending ==
  ASSUME NEW p \in Peer, NEW r
  PROVE  <<p, r>> \in Pending <=> r \in Request /\ PendingIn(sched[p], r)
  BY DEF Pending

(* A request that has not started is not at the first peer.                *)
LEMMA UnstartedGone ==
  ASSUME NEW r \in Request, Unstarted(r)
  PROVE  Gone(sched[FirstPeer], r)
<1>1. <<FirstPeer, r>> \notin Pending
  BY FirstIsPeer DEF Unstarted, Started
<1> QED BY <1>1, FirstIsPeer, PendingIsPending DEF Unstarted, Gone, PendingIn

\* What a step of peer p does to its scheduler s, as the clients c see it.
Allowed(p, s, t, c, d) ==
  /\ Good(K(p), PeerBlocks[p], t) /\ Sound(t)
  /\ p = FirstPeer => Apart(t) /\ \A r : Gone(s, r) => Gone(t, r)
  /\ \A r \in Request : \/ d[r] = c[r]
                         \/ /\ p = FirstPeer /\ c[r] = "waiting" /\ d[r] = "done"
                            /\ ~Gone(s, r) /\ Gone(t, r)

LEMMA PeerStep ==
  ASSUME ExecInv, NEW p \in Peer, NEW t, sched' = [sched EXCEPT ![p] = t],
         Allowed(p, sched[p], t, client, client'), http_in' \in Seq(HttpMsg), NewIn(http_in'),
         Follows(Pending, forward, Pending', forward')
  PROVE  PeersInv' /\ PlacesInv' /\ NewInv' /\ IdleInv' /\ FirstInv' /\ Undisturbed
<1>1. /\ DOMAIN sched = Peer /\ PeersInv /\ PlacesInv /\ NewInv /\ IdleInv /\ FirstInv
      /\ http_in \in Seq(HttpMsg)
  BY DEF ExecInv, TypesInv
<1>2. sched'[p] = t /\ \A q \in Peer : q # p => sched'[q] = sched[q]
  BY <1>1
<1>3. PeersInv'
  BY <1>1, <1>2 DEF PeersInv, Allowed
<1>4. PlacesInv'
  BY <1>1 DEF Follows, PlacesInv
<1>5. PICK s : s = sched[FirstPeer]
  OBVIOUS
<1>6. PICK u : u = sched'[FirstPeer]
  OBVIOUS
<1>7. \A r : Gone(s, r) => Gone(u, r)
  BY <1>2, <1>5, <1>6, FirstIsPeer DEF Allowed
<1>8. Apart(u)
  BY <1>1, <1>2, <1>5, <1>6, FirstIsPeer DEF Allowed, FirstInv
<1>9. \A r \in Request : \/ client'[r] = client[r]
                         \/ /\ client[r] = "waiting" /\ client'[r] = "done"
                            /\ ~Gone(s, r) /\ Gone(u, r)
  BY <1>2, <1>5, <1>6 DEF Allowed
<1>10. \A r \in Request : Unstarted(r) => Unstarted(r)' /\ client'[r] = client[r]
  <2> TAKE r \in Request
  <2> HAVE Unstarted(r)
  <2>1. Gone(s, r)
    BY <1>5, UnstartedGone
  <2>2. r \notin Ids(sched'[FirstPeer].running)
    BY <1>6, <1>7, <2>1 DEF Gone
  <2>3. ~Started(Pending', forward', r)
    BY DEF Follows, Unstarted
  <2> QED BY <1>9, <2>1, <2>2, <2>3 DEF Unstarted
<1>11. \A r \in Request : client'[r] = "idle" => client[r] = "idle"
  BY <1>9
<1>12. IdleInv'
  BY <1>1, <1>10, <1>11 DEF IdleInv
<1>13. NewInv'
  <2>0. PICK h \in Seq(HttpMsg) : h = http_in'
    OBVIOUS
  <2>1. \A i \in DOMAIN h : h[i].rid \in Request
    <3>1. \A i \in DOMAIN h : h[i] \in HttpMsg
      BY ListFacts
    <3>2. \A m \in HttpMsg : m.rid \in Request
      BY DEF HttpMsg
    <3> QED BY <3>1, <3>2
  <2> SUFFICES ASSUME NEW i \in DOMAIN h, h[i].kind = "new"
               PROVE  /\ client'[h[i].rid] \in {"waiting", "gone"} /\ Unstarted(h[i].rid)'
                      /\ \A j \in DOMAIN h : h[j].kind = "new" /\ h[j].rid = h[i].rid => i = j
    BY <2>0 DEF NewInv, NewIn
  <2>2. PICK r \in Request : r = h[i].rid
    BY <2>1
  <2>3. /\ client[r] \in {"waiting", "gone"} /\ Unstarted(r)
        /\ \A j \in DOMAIN h : h[j].kind = "new" /\ h[j].rid = r => i = j
    BY <2>0, <2>2 DEF NewIn
  <2>4. client'[r] \in {"waiting", "gone"} /\ Unstarted(r)'
    BY <1>10, <2>3
  <2> QED BY <2>2, <2>3, <2>4
<1>14. \A r \in Request : client'[r] \in {"done", "error"} => Gone(u, r)
  BY <1>1, <1>5, <1>7, <1>9 DEF FirstInv
<1>15. FirstInv'
  BY <1>6, <1>8, <1>14 DEF FirstInv
<1>16. Undisturbed
  BY <1>10, <1>11 DEF Undisturbed
<1> QED BY <1>3, <1>4, <1>12, <1>13, <1>15, <1>16

(* Nothing changes at a peer.                                              *)
LEMMA AllowedSelf ==
  ASSUME ExecInv, NEW p \in Peer
  PROVE  Allowed(p, sched[p], sched[p], client, client)
  BY DEF ExecInv, PeersInv, FirstInv, Allowed

(* What a peer's handlers and iterations do is allowed.                    *)
LEMMA AllowedHandled ==
  ASSUME ExecInv, NEW p \in Peer, NEW v, Moves(sched[p], v.s), v.client = client,
         NEW w, NEW C, Handled(K(p), PeerBlocks[p], v, w, C),
         \A r \in C : r \notin Ids(v.s.wait), w.client = client \/ p = FirstPeer
  PROVE  Allowed(p, sched[p], w.s, client, w.client)
<1>1. /\ Sound(sched[p]) /\ (p = FirstPeer => Apart(sched[p]))
  BY DEF ExecInv, PeersInv, FirstInv
<1>2. /\ Good(K(p), PeerBlocks[p], w.s) /\ Keeps(v.s, w.s, C)
      /\ \A r \in Request : \/ w.client[r] = v.client[r]
                            \/ /\ v.client[r] = "waiting" /\ w.client[r] = "done"
                               /\ r \in Ids(v.s.running) /\ r \notin Ids(w.s.running)
  BY DEF Handled
<1>3. Sound(v.s) /\ (p = FirstPeer => Apart(v.s))
  BY <1>1 DEF Moves
<1>4. Sound(w.s)
  BY <1>2, <1>3, KeepsSound
<1>5. p = FirstPeer => Apart(w.s)
  BY <1>2, <1>3, KeepsApart
<1>6. \A r : Gone(sched[p], r) => Gone(v.s, r)
  BY DEF Moves, Gone
<1>7. \A r : Gone(v.s, r) => Gone(w.s, r)
  BY <1>2 DEF Keeps, Gone
<1>8. ASSUME p = FirstPeer, NEW r \in Ids(v.s.running), r \notin Ids(w.s.running)
      PROVE  ~Gone(sched[p], r) /\ Gone(w.s, r)
  <2>1. r \notin Ids(v.s.wait)
    BY <1>3, <1>8 DEF Apart
  <2>2. w.s.wait = v.s.wait
    BY <1>2 DEF Keeps
  <2> QED BY <1>6, <1>8, <2>1, <2>2 DEF Gone
<1>9. \A r \in Request : \/ w.client[r] = client[r]
                         \/ /\ p = FirstPeer /\ client[r] = "waiting" /\ w.client[r] = "done"
                            /\ ~Gone(sched[p], r) /\ Gone(w.s, r)
  <2>1. CASE w.client = client
    BY <2>1
  <2>2. CASE p = FirstPeer
    BY <1>2, <1>8, <2>2, Zenon
  <2> QED BY <2>1, <2>2, Zenon
<1> QED BY <1>2, <1>4, <1>5, <1>6, <1>7, <1>9 DEF Allowed

LEMMA LetGoHandled ==
  ASSUME NEW k, NEW B, NEW v, NEW w, LetGo(k, B, v, w)
  PROVE  Handled(k, B, v, w, {})
<1>1. \A r \in Request : w.client[r] = v.client[r]
  BY DEF LetGo
<1> QED BY <1>1, Zenon DEF LetGo, Handled

LEMMA ViewFacts ==
  ASSUME ExecInv, NEW p \in Peer
  PROVE  /\ View(p) \in ViewRec(K(p)) /\ View(p).s = sched[p] /\ View(p).client = client
         /\ Good(K(p), PeerBlocks[p], View(p).s)
<1>1. Good(K(p), PeerBlocks[p], sched[p])
  BY DEF ExecInv, PeersInv
<1>2. sched[p] \in Sched(K(p))
  BY <1>1 DEF Good
<1>3. /\ finished[p] \in Seq(Request) /\ client \in [Request -> ClientState]
      /\ received \in [Request -> Nat] /\ text \in [Request -> Nat]
  BY DEF ExecInv, TypesInv
<1>4. PICK k : k = K(p)
  OBVIOUS
<1>5. View(p) \in ViewRec(k) /\ View(p).s = sched[p] /\ View(p).client = client
  BY <1>2, <1>3, <1>4 DEF View, ViewRec
<1> QED BY <1>1, <1>4, <1>5

LEMMA InstallTypes ==
  ASSUME TypesInv, NEW p \in Peer, NEW v \in ViewRec(K(p)), Install(p, v)
  PROVE  /\ sched' \in [Peer -> AnySched] /\ sched' = [sched EXCEPT ![p] = v.s]
         /\ finished' \in [Peer -> Seq(Request)] /\ alive' \in [Peer -> BOOLEAN]
         /\ client' = v.client /\ client' \in [Request -> ClientState]
         /\ received' \in [Request -> Nat] /\ text' \in [Request -> Nat]
<1>1. /\ v.finished \in Seq(Request) /\ v.dead \in BOOLEAN
      /\ v.client \in [Request -> ClientState]
      /\ v.received \in [Request -> Nat] /\ v.text \in [Request -> Nat]
      /\ v.s \in Sched(K(p))
  BY ViewTypes
<1>2. /\ sched \in [Peer -> AnySched] /\ finished \in [Peer -> Seq(Request)] /\ alive \in [Peer -> BOOLEAN]
  BY DEF TypesInv
<1>3. PICK a \in BOOLEAN : a = ~v.dead
  BY <1>1
<1>4. alive' = [alive EXCEPT ![p] = a]
  BY <1>3 DEF Install
<1>5. alive' \in [Peer -> BOOLEAN]
  BY <1>2, <1>4
<1>6. v.s \in AnySched
  BY <1>1 DEF K, AnySched
<1> QED BY <1>1, <1>2, <1>5, <1>6 DEF Install

(* The steps pending after one at peer p.                                  *)
LEMMA NewPending ==
  ASSUME DOMAIN sched = Peer, NEW p \in Peer, NEW t, sched' = [sched EXCEPT ![p] = t]
  PROVE  \A q \in Peer : \A r :
           /\ q = p => (<<q, r>> \in Pending' <=> r \in Request /\ PendingIn(t, r))
           /\ q # p => (<<q, r>> \in Pending' <=> <<q, r>> \in Pending)
<1>1. sched'[p] = t /\ \A q \in Peer : q # p => sched'[q] = sched[q]
  OBVIOUS
<1> QED BY <1>1 DEF Pending

(* A peer takes a message, or the message is lost.                         *)
LEMMA MessageTaken ==
  ASSUME TypesInv, MessagesInv, NEW p \in Peer, forward[p] # << >>,
         forward' = [forward EXCEPT ![p] = Tail(forward[p])]
  PROVE  /\ forward' \in [Peer -> Seq(Seq(Msg))] /\ MessagesInv'
         /\ Head(forward[p]) \in Seq(Msg) /\ Distinct(Head(forward[p]))
         /\ \A r \in Ids(Head(forward[p])) : r \in Request /\ InMessage(forward, r)
<1>1. forward \in [Peer -> Seq(Seq(Msg))]
  BY DEF TypesInv
<1>2. PICK L \in Seq(Seq(Msg)) : L = forward[p]
  BY <1>1
<1>3. PICK n \in Nat : n = Len(L) /\ DOMAIN L = 1..n /\ n >= 1
  BY <1>2, ListFacts, EmptySeq
<1>4. PICK rest \in Seq(Seq(Msg)) : rest = Tail(L)
  BY <1>2, HeadTailProperties
<1>5. /\ Head(L) = L[1] /\ DOMAIN rest = 1..(n - 1)
      /\ \A i \in 1..(n - 1) : rest[i] = L[i + 1]
  BY <1>2, <1>3, <1>4, HeadTailProperties, LenProperties
<1>6. \A i \in 1..(n - 1) : i + 1 \in 1..n
  BY <1>3
<1>7. 1 \in 1..n
  BY <1>3
<1>8. \A i \in 1..n : Distinct(L[i])
  BY <1>2, <1>3 DEF MessagesInv
<1>9. \A i \in DOMAIN rest : Distinct(rest[i])
  BY <1>5, <1>6, <1>8
<1>10. forward' = [forward EXCEPT ![p] = rest]
  BY <1>2, <1>4
<1>11. forward' \in [Peer -> Seq(Seq(Msg))] /\ forward'[p] = rest
       /\ \A q \in Peer : q # p => forward'[q] = forward[q]
  BY <1>1, <1>10
<1>12. MessagesInv'
  BY <1>9, <1>11 DEF MessagesInv
<1>13. L[1] \in Seq(Msg) /\ Distinct(L[1])
  BY <1>3, <1>7, <1>8, ListFacts
<1>14. \A r \in Ids(L[1]) : InMessage(forward, r)
  BY <1>2, <1>3, <1>7 DEF InMessage
<1>15. \A r \in Ids(L[1]) : r \in Request
  <2>1. \A i \in DOMAIN L[1] : L[1][i] \in Msg
    BY <1>13, ListFacts
  <2>2. \A m \in Msg : m.rid \in Request
    BY DEF Msg
  <2> QED BY <2>1, <2>2 DEF Ids
<1> QED BY <1>2, <1>5, <1>11, <1>12, <1>13, <1>14, <1>15
-----------------------------------------------------------------------------
(* The scheduling half of an iteration.                                    *)

Messages(ff) ==
  ff \in [Peer -> Seq(Seq(Msg))] /\ \A p \in Peer : \A i \in DOMAIN ff[p] : Distinct(ff[p][i])

LEMMA OutgoingFacts ==
  ASSUME NEW k, NEW p, NEW L \in Seq(Entry(k)), Distinct(L)
  PROVE  /\ Outgoing(p, L) \in Seq(Msg) /\ Distinct(Outgoing(p, L))
         /\ Ids(Outgoing(p, L)) = Ids(L)
<1>1. PICK n \in Nat : n = Len(L) /\ DOMAIN L = 1..n /\ \A i \in 1..n : L[i] \in Entry(k)
  BY ListFacts
<1>2. PICK m : m = Outgoing(p, L)
  OBVIOUS
<1>3. DOMAIN m = 1..n /\ m = [i \in 1..n |-> m[i]]
  BY <1>1, <1>2 DEF Outgoing
<1>4. \A i \in 1..n : m[i] = [rid |-> L[i].rid,
                              status |-> IF p = LastPeer THEN "decode" ELSE L[i].status,
                              pos |-> L[i].total]
  BY <1>1, <1>2 DEF Outgoing
<1>5. \A q \in Entry(k) : q.rid \in Request /\ q.status \in {"prefill", "decode"} /\ q.total \in Nat
  BY DEF Entry, ReqRec
<1>6. \A i \in 1..n : m[i] \in Msg /\ m[i].rid = L[i].rid
  <2> TAKE i \in 1..n
  <2>1. PICK q \in Entry(k) : q = L[i]
    BY <1>1
  <2>2. PICK st \in {"prefill", "decode"} : st = IF p = LastPeer THEN "decode" ELSE q.status
    BY <1>5
  <2>3. m[i] = [rid |-> q.rid, status |-> st, pos |-> q.total]
    BY <1>4, <2>1, <2>2
  <2> QED BY <1>5, <2>1, <2>3 DEF Msg
<1>7. m \in Seq(Msg)
  <2>1. m \in [1..n -> Msg]
    BY <1>3, <1>6
  <2> QED BY <2>1, SeqDef
<1>8. Distinct(m)
  BY <1>1, <1>3, <1>6 DEF Distinct
<1>9. \A r : r \in Ids(m) <=> r \in Ids(L)
  BY <1>1, <1>3, <1>6 DEF Ids
<1> QED BY <1>2, <1>7, <1>8, <1>9

(* Requests that are pending at a peer are sent on; with one peer there is *)
(* nobody to send them to.                                                 *)
LEMMA SendFacts ==
  ASSUME NEW k, NEW P, NEW ff, Messages(ff), NEW p \in Peer, NEW L \in Seq(Entry(k)), Distinct(L),
         \A r \in Ids(L) : <<p, r>> \in P,
         NEW Q, \A q \in Peer : \A r : <<q, r>> \in Q =>
                  <<q, r>> \in P /\ ~(q = p /\ r \in Ids(L))
  PROVE  Messages(Send(ff, p, L)) /\ Follows(P, ff, Q, Send(ff, p, L))
<1>1. PICK gg : gg = Send(ff, p, L)
  OBVIOUS
<1>2. CASE gg = ff
  BY <1>1, <1>2, FewerPending
<1>3. CASE gg # ff
  <2>1. PICK n : n = (p % NumPeers) + 1
    OBVIOUS
  <2>2. n \in Peer
    BY <2>1, PipelineAssumption DEF Peer
  <2>3. PICK m \in Seq(Msg) : m = Outgoing(p, L) /\ Distinct(m) /\ Ids(m) = Ids(L)
    BY OutgoingFacts
  <2>4. gg = [ff EXCEPT ![n] = Append(ff[n], m)]
    BY <1>1, <1>3, <2>1, <2>3 DEF Send
  <2>5. DOMAIN ff = Peer /\ ff[n] \in Seq(Seq(Msg))
    BY <2>2 DEF Messages
  <2>6. \A r \in Ids(m) : <<p, r>> \in P
    BY <2>3
  <2>7. \A q \in Peer : \A r : <<q, r>> \in Q => <<q, r>> \in P /\ ~(q = p /\ r \in Ids(m))
    BY <2>3
  <2>8. PICK X : X = Seq(Msg)
    OBVIOUS
  <2>9. m \in X /\ ff[n] \in Seq(X)
    BY <2>3, <2>5, <2>8
  <2>10. Follows(P, ff, Q, gg)
    BY <2>2, <2>4, <2>5, <2>6, <2>7, <2>9, PutMessage
  <2>11. PICK j \in Nat : j = Len(ff[n]) /\ DOMAIN ff[n] = 1..j
    BY <2>5, ListFacts
  <2>12. PICK new : new = Append(ff[n], m)
    OBVIOUS
  <2>13. /\ new \in Seq(X) /\ DOMAIN new = 1..(j + 1) /\ new[j + 1] = m
         /\ \A i \in 1..j : new[i] = ff[n][i]
    BY <2>9, <2>11, <2>12, AppendProperties, LenProperties
  <2>14. \A i \in 1..(j + 1) : i \in 1..j \/ i = j + 1
    BY <2>11
  <2>15. \A i \in DOMAIN new : Distinct(new[i])
    BY <2>2, <2>3, <2>11, <2>13, <2>14 DEF Messages
  <2>16. gg \in [Peer -> Seq(Seq(Msg))] /\ gg[n] = new /\ \A q \in Peer : q # n => gg[q] = ff[q]
    BY <2>2, <2>4, <2>8, <2>12, <2>13 DEF Messages
  <2>17. Messages(gg)
    BY <2>15, <2>16 DEF Messages
  <2> QED BY <1>1, <2>10, <2>17
<1> QED BY <1>2, <1>3

(* The prefills and the decodes of a batch.                                *)
LEMMA PartsFacts ==
  ASSUME NEW k, NEW batch \in Seq(Entry(k)), Distinct(batch)
  PROVE  /\ Prefills(batch) \in Seq(Entry(k)) /\ Distinct(Prefills(batch))
         /\ Decodes(batch) \in Seq(Entry(k)) /\ Distinct(Decodes(batch))
         /\ \A r \in Ids(Prefills(batch)) : r \in Ids(batch) /\ r \notin Ids(Decodes(batch))
         /\ \A r \in Ids(Decodes(batch)) : r \in Ids(batch)
<1>1. PICK pre : pre = Prefills(batch)
  OBVIOUS
<1>2. PICK dec : dec = Decodes(batch)
  OBVIOUS
<1>3. PICK S : S = {q \in Range(batch) : q.status = "prefill"}
  OBVIOUS
<1>4. PICK T : T = {q \in Range(batch) : q.status = "decode"}
  OBVIOUS
<1>5. pre = Selected(batch, S) /\ dec = Selected(batch, T)
  BY <1>1, <1>2, <1>3, <1>4 DEF Prefills, Decodes
<1>6. /\ pre \in Seq(Entry(k)) /\ Distinct(pre)
      /\ \A a \in DOMAIN pre : pre[a] \in S /\ \E i \in DOMAIN batch : pre[a] = batch[i]
  BY <1>5, PartFacts
<1>7. /\ dec \in Seq(Entry(k)) /\ Distinct(dec)
      /\ \A a \in DOMAIN dec : dec[a] \in T /\ \E i \in DOMAIN batch : dec[a] = batch[i]
  BY <1>5, PartFacts
<1>8. \A r \in Ids(pre) : \E i \in DOMAIN batch : batch[i].rid = r /\ batch[i].status = "prefill"
  BY <1>3, <1>6 DEF Ids
<1>9. \A r \in Ids(dec) : \E i \in DOMAIN batch : batch[i].rid = r /\ batch[i].status = "decode"
  BY <1>4, <1>7 DEF Ids
<1>10. \A r \in Ids(pre) : r \in Ids(batch) /\ r \notin Ids(dec)
  <2> TAKE r \in Ids(pre)
  <2>1. PICK i \in DOMAIN batch : batch[i].rid = r /\ batch[i].status = "prefill"
    BY <1>8
  <2>2. r \notin Ids(dec)
    <3> SUFFICES ASSUME r \in Ids(dec) PROVE FALSE
      OBVIOUS
    <3>1. PICK j \in DOMAIN batch : batch[j].rid = r /\ batch[j].status = "decode"
      BY <1>9
    <3> QED BY <2>1, <3>1 DEF Distinct
  <2> QED BY <2>1, <2>2 DEF Ids
<1>11. \A r \in Ids(dec) : r \in Ids(batch)
  BY <1>9 DEF Ids
<1> QED BY <1>1, <1>2, <1>6, <1>7, <1>10, <1>11

LEMMA ConcatIds ==
  ASSUME NEW X, NEW L \in Seq(X), NEW M \in Seq(X)
  PROVE  L \o M \in Seq(X) /\ \A r \in Ids(L \o M) : r \in Ids(L) \/ r \in Ids(M)
<1>1. PICK n \in Nat : n = Len(L) /\ DOMAIN L = 1..n
  BY ListFacts
<1>2. PICK m \in Nat : m = Len(M) /\ DOMAIN M = 1..m
  BY ListFacts
<1>3. PICK new : new = L \o M
  OBVIOUS
<1>4. /\ new \in Seq(X) /\ DOMAIN new = 1..(n + m)
      /\ \A a \in 1..(n + m) : new[a] = IF a <= n THEN L[a] ELSE M[a - n]
  <2>1. new \in Seq(X) /\ Len(new) = n + m
        /\ \A a \in 1..(n + m) : new[a] = IF a <= n THEN L[a] ELSE M[a - n]
    BY <1>1, <1>2, <1>3, ConcatProperties
  <2> QED BY <2>1, LenProperties
<1>5. \A a \in 1..(n + m) : (a \in 1..n /\ new[a] = L[a]) \/ (a - n \in 1..m /\ new[a] = M[a - n])
  <2> TAKE a \in 1..(n + m)
  <2>1. CASE a <= n
    BY <1>4, <2>1
  <2>2. CASE ~(a <= n)
    BY <1>4, <2>2
  <2> QED BY <2>1, <2>2
<1>6. \A a \in 1..n : L[a].rid \in Ids(L)
  BY <1>1 DEF Ids
<1>7. \A a \in 1..m : M[a].rid \in Ids(M)
  BY <1>2 DEF Ids
<1>8. \A r \in Ids(new) : r \in Ids(L) \/ r \in Ids(M)
  <2> TAKE r \in Ids(new)
  <2>1. PICK a \in 1..(n + m) : r = new[a].rid
    BY <1>4 DEF Ids
  <2> QED BY <1>5, <1>6, <1>7, <2>1
<1> QED BY <1>3, <1>4, <1>8

\* The steps that a single node makes ready as soon as it has computed L.
Renewed(L) == IF FirstPeer = LastPeer THEN Ids(L) ELSE {}

LEMMA LocallyFacts ==
  ASSUME NeedsBlocks, NEW k, NEW B \in Nat, NEW v \in ViewRec(k), Good(k, B, v.s),
         NEW L \in Seq(Entry(k)), NEW eos
  PROVE  /\ Handled(k, B, v, Locally(v, L, eos), Renewed(L))
         /\ FirstPeer # LastPeer => Locally(v, L, eos) = v
<1>1. CASE FirstPeer = LastPeer
  <2>1. \A i \in DOMAIN L : L[i].rid \in Request
    BY IdsType DEF Ids
  <2>2. Handled(k, B, v, HandleTokens(v, L, eos), Ids(L))
    BY <2>1, TokensHandled
  <2> QED BY <1>1, <2>2 DEF Locally, Renewed
<1>2. CASE FirstPeer # LastPeer
  <2>1. Locally(v, L, eos) = v /\ Renewed(L) = {}
    BY <1>2 DEF Locally, Renewed
  <2>2. Handled(k, B, v, v, {})
    BY KeepsSelf DEF Handled
  <2> QED BY <2>1, <2>2
<1> QED BY <1>1, <1>2

(* The state of a peer after the admissions and the timeout check.         *)
LEMMA ScheduledFacts ==
  ASSUME NeedsBlocks, ExecInv, NEW p \in Peer, NEW rids
  PROVE  /\ Good(K(p), PeerBlocks[p], Scheduled(p, rids)) /\ Moves(sched[p], Scheduled(p, rids))
         /\ Sound(Scheduled(p, rids))
<1>1. PICK B \in Nat : B = PeerBlocks[p]
  BY BlocksType
<1>2. PICK k : k = K(p)
  OBVIOUS
<1>3. Good(k, B, sched[p]) /\ Sound(sched[p])
  BY <1>1, <1>2 DEF ExecInv, PeersInv
<1>4. PICK s1 : s1 = admit_requests(sched[p])
  OBVIOUS
<1>5. Good(k, B, s1) /\ Moves(sched[p], s1)
  BY <1>3, <1>4, AdmitGood
<1>6. PICK s2 : s2 = get_timed_out_requests(s1, rids)
  OBVIOUS
<1>7. Good(k, B, s2) /\ Moves(s1, s2)
  BY <1>5, <1>6, TimeoutGood, KeepsMoves
<1>8. PICK s3 : s3 = admit_requests(s2)
  OBVIOUS
<1>9. Good(k, B, s3) /\ Moves(s2, s3)
  BY <1>7, <1>8, AdmitGood
<1>10. Moves(sched[p], s3)
  BY <1>5, <1>7, <1>9, MovesTransitive
<1>11. s3 = Scheduled(p, rids)
  BY <1>4, <1>6, <1>8 DEF Scheduled
<1> QED BY <1>1, <1>2, <1>3, <1>9, <1>10, <1>11 DEF Moves

\* What an iteration starts from and what it is about to process.
IsIteration(p, batch, v) ==
  /\ batch \in Seq(Entry(K(p))) /\ Distinct(batch)
  /\ v \in ViewRec(K(p)) /\ Good(K(p), PeerBlocks[p], v.s)
  /\ Moves(sched[p], v.s) /\ v.client = client
  /\ \A r \in Ids(batch) : r \in Request /\ PendingIn(sched[p], r) /\ ~PendingIn(v.s, r)

LEMMA IterationFacts ==
  ASSUME NeedsBlocks, ExecInv, NEW p \in Peer, NEW rids
  PROVE  IsIteration(p, Iteration(p, rids).batch, Iteration(p, rids).view)
<1>1. PICK B \in Nat : B = PeerBlocks[p]
  BY BlocksType
<1>2. PICK k : k = K(p)
  OBVIOUS
<1>3. PICK s : s = Scheduled(p, rids)
  OBVIOUS
<1>4. Good(k, B, s) /\ Moves(sched[p], s) /\ Sound(s)
  BY <1>1, <1>2, <1>3, ScheduledFacts
<1>5. PICK batch : batch = Batch(s)
  OBVIOUS
<1>6. Drawn(k, s, batch)
  BY <1>4, <1>5, BatchFacts
<1>7. batch \in Seq(Entry(k)) /\ Distinct(batch)
  BY <1>6 DEF Drawn
<1>8. PICK f : f = form_batch(s)
  OBVIOUS
<1>9. Good(k, B, f) /\ Keeps(s, f, {}) /\ \A r \in Ids(batch) : ~ReadyIn(f.running, r)
  BY <1>4, <1>5, <1>8, FormGood
<1>10. PICK pool : pool = Grow(s.pool, batch).pool
  OBVIOUS
<1>11. s.pool \in Pool /\ Backed(s.pool, B) /\ s \in Sched(k) /\ s.running \in Seq(Entry(k))
  BY <1>4, SchedTypes DEF Good
<1>12. pool \in Pool /\ Backed(pool, B) /\ SamePresence(s.pool, pool)
  BY <1>7, <1>10, <1>11, GrowFacts
<1>13. f.pool = s.pool
  BY <1>8, <1>11 DEF form_batch, Sched
<1>14. PICK t : t = WithPool(f, pool)
  OBVIOUS
<1>15. Good(k, B, t) /\ t.wait = f.wait /\ t.running = f.running
  <2>1. IsWithPool(k, B, f, t)
    BY <1>9, <1>12, <1>13, <1>14, GrowGood
  <2> QED BY <2>1 DEF IsWithPool
<1>16. Keeps(s, t, {}) /\ \A r \in Ids(batch) : ~ReadyIn(t.running, r)
  BY <1>9, <1>15 DEF Keeps
<1>17. Moves(sched[p], t)
  BY <1>4, <1>16, KeepsMoves, MovesTransitive
<1>18. PICK fin : fin = FlushedBatch(p)
  OBVIOUS
<1>19. fin \in Seq(Request)
  <2>1. finished[p] \in Seq(Request)
    BY DEF ExecInv, TypesInv
  <2>2. << >> \in Seq(Request)
    BY EmptySeq
  <2> QED BY <1>18, <2>1, <2>2 DEF FlushedBatch
<1>20. View(p) \in ViewRec(k) /\ View(p).client = client
  BY <1>2, ViewFacts
<1>21. PICK v : v = Changed(View(p), t, fin)
  OBVIOUS
<1>22. v \in ViewRec(k) /\ v.s = t /\ v.client = client
  <2>1. t \in Sched(k)
    BY <1>15 DEF Good
  <2>2. IsChanged(k, View(p), t, fin, v)
    BY <1>19, <1>20, <1>21, <2>1, ViewChange
  <2> QED BY <1>20, <2>2 DEF IsChanged
<1>23. Iteration(p, rids).batch = batch /\ Iteration(p, rids).view = v
  BY <1>3, <1>5, <1>8, <1>10, <1>14, <1>18, <1>21, Zenon DEF Iteration, Changed, WithPool
<1>24. \A r \in Ids(batch) : r \in Request /\ PendingIn(sched[p], r) /\ ~PendingIn(t, r)
  <2> TAKE r \in Ids(batch)
  <2>1. r \in Ids(s.running) /\ ReadyIn(s.running, r)
    BY <1>6, DrawnAreReady
  <2>2. r \notin Ids(s.wait)
    BY <1>4, <2>1 DEF Sound
  <2>3. r \notin Ids(t.wait)
    BY <1>16, <2>2 DEF Keeps
  <2>4. PendingIn(sched[p], r)
    BY <1>4, <2>1 DEF Moves, PendingIn
  <2>5. r \in Request
    BY <1>7, IdsType
  <2> QED BY <1>16, <2>3, <2>4, <2>5 DEF PendingIn
<1> QED BY <1>1, <1>2, <1>7, <1>15, <1>17, <1>22, <1>23, <1>24 DEF IsIteration

LEMMA BeforeBatchTypes ==
  ASSUME ExecInv, NEW p \in Peer, NEW rids \in Overdue(p), BeforeBatch(p, rids)
  PROVE  /\ aborts' \in [Peer -> SUBSET Seq(Request)] /\ timed_out' \in SUBSET Request
         /\ http_in' = http_in /\ http_in' \in Seq(HttpMsg) /\ NewIn(http_in')
<1>1. /\ aborts \in [Peer -> SUBSET Seq(Request)] /\ timed_out \in SUBSET Request
      /\ finished[p] \in Seq(Request) /\ http_in \in Seq(HttpMsg) /\ NewIn(http_in)
  BY DEF ExecInv, TypesInv, NewInv
<1>2. aborts' \in [Peer -> SUBSET Seq(Request)]
  BY <1>1 DEF BeforeBatch, Flush
<1>3. \A r \in rids : r \in Request
  <2>1. Good(K(p), PeerBlocks[p], sched[p])
    BY DEF ExecInv, PeersInv
  <2>2. PICK k : k = K(p)
    OBVIOUS
  <2>3. sched[p].running \in Seq(Entry(k))
    BY <2>1, <2>2, SchedTypes DEF Good
  <2>4. \A r \in Ids(sched[p].running) : r \in Request
    BY <2>3, IdsType
  <2>5. \A r \in rids : r \in Ids(sched[p].running)
    BY DEF Overdue
  <2> QED BY <2>4, <2>5
<1>4. timed_out' \in SUBSET Request
  BY <1>1, <1>3 DEF BeforeBatch
<1> QED BY <1>1, <1>2, <1>4 DEF BeforeBatch
-----------------------------------------------------------------------------
(* Each action preserves the invariant.                                    *)

(* A step of one peer.                                                     *)
LEMMA InstallStep ==
  ASSUME ExecInv, NEW p \in Peer, NEW w \in ViewRec(K(p)), Install(p, w),
         Allowed(p, sched[p], w.s, client, w.client),
         http_in' \in Seq(HttpMsg), NewIn(http_in'),
         aborts' \in [Peer -> SUBSET Seq(Request)], timed_out' \in SUBSET Request,
         Messages(forward'), Follows(Pending, forward, Pending', forward')
  PROVE  ExecInv' /\ Undisturbed
<1>1. TypesInv
  BY DEF ExecInv
<1>3. /\ sched' \in [Peer -> AnySched] /\ sched' = [sched EXCEPT ![p] = w.s]
      /\ finished' \in [Peer -> Seq(Request)] /\ alive' \in [Peer -> BOOLEAN]
      /\ client' = w.client /\ client' \in [Request -> ClientState]
      /\ received' \in [Request -> Nat] /\ text' \in [Request -> Nat]
  BY <1>1, InstallTypes
<1>4. forward' \in [Peer -> Seq(Seq(Msg))] /\ MessagesInv'
  BY DEF Messages, MessagesInv
<1>5. TypesInv'
  BY <1>3, <1>4 DEF TypesInv
<1>6. PICK t : t = w.s
  OBVIOUS
<1>7. sched' = [sched EXCEPT ![p] = t] /\ Allowed(p, sched[p], t, client, client')
  BY <1>3, <1>6
<1>8. PeersInv' /\ PlacesInv' /\ NewInv' /\ IdleInv' /\ FirstInv' /\ Undisturbed
  BY <1>7, PeerStep
<1> QED BY <1>4, <1>5, <1>8 DEF ExecInv

(* The pending steps of a peer stay where they are.                        *)
LEMMA PendingStays ==
  ASSUME ExecInv, NEW p \in Peer, NEW t, sched' = [sched EXCEPT ![p] = t], forward' = forward,
         \A r : PendingIn(t, r) => PendingIn(sched[p], r)
  PROVE  Messages(forward') /\ Follows(Pending, forward, Pending', forward')
<1>1. DOMAIN sched = Peer /\ Messages(forward)
  BY DEF ExecInv, TypesInv, MessagesInv, Messages
<1>2. \A q \in Peer : \A r :
        /\ q = p => (<<q, r>> \in Pending' <=> r \in Request /\ PendingIn(t, r))
        /\ q # p => (<<q, r>> \in Pending' <=> <<q, r>> \in Pending)
  BY <1>1, NewPending, Zenon
<1>3. \A q \in Peer : \A r : <<q, r>> \in Pending' => <<q, r>> \in Pending
  BY <1>2, PendingIsPending
<1>4. PICK Q : Q = Pending'
  OBVIOUS
<1>5. Follows(Pending, forward, Q, forward)
  BY <1>3, <1>4, FewerPending
<1> QED BY <1>1, <1>4, <1>5

(* The requests of a batch that has been computed stay where they are:     *)
(* they are released, or a single node has made their next steps ready.    *)
LEMMA BatchStays ==
  ASSUME ExecInv, NEW p \in Peer, NEW batch, NEW v, IsIteration(p, batch, v), NEW t,
         sched' = [sched EXCEPT ![p] = t], NEW C, Keeps(v.s, t, C), \A r \in C : r \in Ids(batch),
         forward' = forward
  PROVE  Messages(forward') /\ Follows(Pending, forward, Pending', forward')
<1>1. \A r : PendingIn(t, r) => PendingIn(v.s, r) \/ r \in C
  BY DEF Keeps, PendingIn
<1>2. \A r : PendingIn(v.s, r) => PendingIn(sched[p], r)
  BY DEF IsIteration, Moves, PendingIn
<1>3. \A r : PendingIn(t, r) => PendingIn(sched[p], r)
  BY <1>1, <1>2 DEF IsIteration
<1> QED BY <1>3, PendingStays

(* The requests of a batch move to messages for the next peer.             *)
LEMMA BatchMoves ==
  ASSUME ExecInv, NEW p \in Peer, NEW batch, NEW v, IsIteration(p, batch, v), NEW t,
         sched' = [sched EXCEPT ![p] = t], Keeps(v.s, t, {}),
         NEW L \in Seq(Entry(K(p))), NEW M \in Seq(Entry(K(p))), Distinct(L), Distinct(M),
         \A r \in Ids(L) : r \in Ids(batch) /\ r \notin Ids(M), \A r \in Ids(M) : r \in Ids(batch),
         forward' = Send(Send(forward, p, L), p, M)
  PROVE  Messages(forward') /\ Follows(Pending, forward, Pending', forward')
<1>1. DOMAIN sched = Peer /\ Messages(forward)
  BY DEF ExecInv, TypesInv, MessagesInv, Messages
<1>2. PICK k : k = K(p)
  OBVIOUS
<1>3. \A r : PendingIn(t, r) => PendingIn(v.s, r)
  BY DEF Keeps, PendingIn
<1>4. \A r : PendingIn(t, r) => PendingIn(sched[p], r) /\ r \notin Ids(batch)
  BY <1>3 DEF IsIteration, Moves, PendingIn
<1>5. \A r \in Ids(batch) : <<p, r>> \in Pending
  BY PendingIsPending DEF IsIteration
<1>6. \A q \in Peer : \A r :
        /\ q = p => (<<q, r>> \in Pending' <=> r \in Request /\ PendingIn(t, r))
        /\ q # p => (<<q, r>> \in Pending' <=> <<q, r>> \in Pending)
  BY <1>1, NewPending, Zenon
<1>7. \A q \in Peer : \A r : <<q, r>> \in Pending' =>
        <<q, r>> \in Pending /\ ~(q = p /\ r \in Ids(batch))
  BY <1>4, <1>6, PendingIsPending
<1>8. PICK P : P = {x \in Pending : ~(x[1] = p /\ x[2] \in Ids(L))}
  OBVIOUS
<1>9. \A q \in Peer : \A r : <<q, r>> \in P <=> <<q, r>> \in Pending /\ ~(q = p /\ r \in Ids(L))
  BY <1>8
<1>10. PICK ff : ff = Send(forward, p, L)
  OBVIOUS
<1>11. Messages(ff) /\ Follows(Pending, forward, P, ff)
  BY <1>1, <1>2, <1>5, <1>9, <1>10, SendFacts
<1>12. PICK Q : Q = Pending'
  OBVIOUS
<1>13. \A r \in Ids(M) : <<p, r>> \in P
  BY <1>5, <1>9
<1>14. \A q \in Peer : \A r : <<q, r>> \in Q => <<q, r>> \in P /\ ~(q = p /\ r \in Ids(M))
  BY <1>7, <1>9, <1>12
<1>15. PICK gg : gg = Send(ff, p, M)
  OBVIOUS
<1>16. Messages(gg) /\ Follows(P, ff, Q, gg)
  BY <1>2, <1>11, <1>13, <1>14, <1>15, SendFacts
<1>17. Follows(Pending, forward, Q, gg)
  BY <1>11, <1>16, FollowsTransitive
<1> QED BY <1>10, <1>12, <1>15, <1>16, <1>17

(* Whatever the requests of a batch do, the rest of an iteration is the    *)
(* same.                                                                   *)
LEMMA RunStep ==
  ASSUME ExecInv, NEW p \in Peer, NEW rids \in Overdue(p), BeforeBatch(p, rids),
         NEW batch, NEW v, IsIteration(p, batch, v), NEW w, NEW C,
         Handled(K(p), PeerBlocks[p], v, w, C), \A r \in C : r \in Ids(batch),
         w.client = client \/ p = FirstPeer, Install(p, w),
         Messages(forward') /\ Follows(Pending, forward, Pending', forward')
  PROVE  ExecInv' /\ Undisturbed
<1>1. \A r \in C : r \notin Ids(v.s.wait)
  BY DEF IsIteration, PendingIn
<1>2. Allowed(p, sched[p], w.s, client, w.client)
  BY <1>1, AllowedHandled DEF IsIteration
<1>3. w \in ViewRec(K(p))
  BY DEF Handled
<1>4. /\ aborts' \in [Peer -> SUBSET Seq(Request)] /\ timed_out' \in SUBSET Request
      /\ http_in' = http_in /\ http_in' \in Seq(HttpMsg) /\ NewIn(http_in')
  BY BeforeBatchTypes
<1> QED BY <1>2, <1>3, <1>4, InstallStep

LEMMA RunBatchStep ==
  ASSUME NeedsBlocks, ExecInv, NEW p \in Peer, RunBatch(p)
  PROVE  ExecInv' /\ Undisturbed
<1>1. PICK rids \in Overdue(p) :
        /\ BeforeBatch(p, rids)
        /\ \E eos \in NewTokens(Iteration(p, rids).batch) :
             Install(p, Locally(Iteration(p, rids).view, Prefills(Iteration(p, rids).batch)
                                                     \o Decodes(Iteration(p, rids).batch), eos))
        /\ forward' = Send(Send(forward, p, Prefills(Iteration(p, rids).batch)), p,
                           Decodes(Iteration(p, rids).batch))
  BY Zenon DEF RunBatch
<1>2. PICK batch : batch = Iteration(p, rids).batch
  OBVIOUS
<1>3. PICK v : v = Iteration(p, rids).view
  OBVIOUS
<1>4. IsIteration(p, batch, v)
  BY <1>2, <1>3, IterationFacts
<1>5. PICK pre : pre = Prefills(batch)
  OBVIOUS
<1>6. PICK dec : dec = Decodes(batch)
  OBVIOUS
<1>7. PICK k : k = K(p)
  OBVIOUS
<1>8. /\ batch \in Seq(Entry(k)) /\ Distinct(batch) /\ v \in ViewRec(k)
      /\ Good(k, PeerBlocks[p], v.s) /\ v.client = client
  BY <1>4, <1>7 DEF IsIteration
<1>9. /\ pre \in Seq(Entry(k)) /\ Distinct(pre) /\ dec \in Seq(Entry(k)) /\ Distinct(dec)
      /\ \A r \in Ids(pre) : r \in Ids(batch) /\ r \notin Ids(dec)
      /\ \A r \in Ids(dec) : r \in Ids(batch)
  BY <1>5, <1>6, <1>8, PartsFacts
<1>10. PICK L : L = pre \o dec
  OBVIOUS
<1>11. L \in Seq(Entry(k)) /\ \A r \in Ids(L) : r \in Ids(batch)
  BY <1>9, <1>10, ConcatIds
<1>12. PICK eos : Install(p, Locally(v, L, eos))
  BY <1>1, <1>2, <1>3, <1>5, <1>6, <1>10
<1>13. PICK w : w = Locally(v, L, eos)
  OBVIOUS
<1>14. PICK C : C = Renewed(L)
  OBVIOUS
<1>15. Handled(k, PeerBlocks[p], v, w, C) /\ (FirstPeer # LastPeer => w = v)
  BY <1>8, <1>11, <1>13, <1>14, BlocksType, LocallyFacts
<1>16. \A r \in C : r \in Ids(batch)
  BY <1>11, <1>14 DEF Renewed
<1>17. sched' = [sched EXCEPT ![p] = w.s]
  BY <1>12, <1>13 DEF Install
<1>18. forward' = Send(Send(forward, p, pre), p, dec)
  BY <1>1, <1>2, <1>5, <1>6
<1>19. Messages(forward') /\ Follows(Pending, forward, Pending', forward')
  <2>1. PICK t : t = w.s
    OBVIOUS
  <2>2. sched' = [sched EXCEPT ![p] = t] /\ Keeps(v.s, t, C)
    BY <1>15, <1>17, <2>1 DEF Handled
  <2>3. CASE FirstPeer = LastPeer
    <3>1. forward' = forward
      BY <1>18, <2>3 DEF Send
    <3> QED BY <1>4, <1>16, <2>2, <3>1, BatchStays
  <2>4. CASE FirstPeer # LastPeer
    <3>1. Keeps(v.s, t, {})
      BY <1>15, <2>1, <2>4, KeepsSelf
    <3> QED BY <1>4, <1>7, <1>9, <1>18, <2>2, <3>1, BatchMoves
  <2> QED BY <2>3, <2>4
<1>20. w.client = client \/ p = FirstPeer
  <2>1. CASE FirstPeer = LastPeer
    BY <2>1 DEF FirstPeer, LastPeer, Peer
  <2>2. CASE FirstPeer # LastPeer
    BY <1>8, <1>15, <2>2
  <2> QED BY <2>1, <2>2
<1>21. Install(p, w)
  BY <1>12, <1>13
<1> QED BY <1>1, <1>4, <1>7, <1>15, <1>16, <1>19, <1>20, <1>21, RunStep

LEMMA RunFailsStep ==
  ASSUME NeedsBlocks, ExecInv, NEW p \in Peer, RunFails(p)
  PROVE  ExecInv' /\ Undisturbed
<1>1. PICK rids \in Overdue(p) :
        /\ BeforeBatch(p, rids)
        /\ Install(p, ReleaseBatch(Iteration(p, rids).view, Iteration(p, rids).batch))
        /\ forward' = forward
  BY Zenon DEF RunFails
<1>2. PICK batch : batch = Iteration(p, rids).batch
  OBVIOUS
<1>3. PICK v : v = Iteration(p, rids).view
  OBVIOUS
<1>4. IsIteration(p, batch, v)
  BY <1>2, <1>3, IterationFacts
<1>5. PICK k : k = K(p)
  OBVIOUS
<1>6. /\ batch \in Seq(Entry(k)) /\ v \in ViewRec(k) /\ Good(k, PeerBlocks[p], v.s)
      /\ v.client = client
  BY <1>4, <1>5 DEF IsIteration
<1>7. PICK w : w = ReleaseBatch(v, batch)
  OBVIOUS
<1>8. LetGo(k, PeerBlocks[p], v, w)
  BY <1>6, <1>7, BlocksType, BatchReleased
<1>9. Handled(k, PeerBlocks[p], v, w, {}) /\ w.client = client
  BY <1>6, <1>8, LetGoHandled DEF LetGo
<1>10. Install(p, w)
  BY <1>1, <1>2, <1>3, <1>7
<1>11. PICK t : t = w.s
  OBVIOUS
<1>12. sched' = [sched EXCEPT ![p] = t] /\ Keeps(v.s, t, {})
  BY <1>8, <1>10, <1>11 DEF Install, LetGo
<1>13. Messages(forward') /\ Follows(Pending, forward, Pending', forward')
  <2>1. PICK C : C = {}
    OBVIOUS
  <2>2. Keeps(v.s, t, C) /\ \A r \in C : r \in Ids(batch)
    BY <1>12, <2>1
  <2>3. sched' = [sched EXCEPT ![p] = t] /\ forward' = forward
    BY <1>1, <1>12
  <2> QED BY <1>4, <2>2, <2>3, BatchStays
<1> QED BY <1>1, <1>4, <1>5, <1>9, <1>10, <1>13, RunStep

(* The prefills are dispatched, and the whole batch is released.           *)
LEMMA RunHalfFailsStep ==
  ASSUME NeedsBlocks, ExecInv, NEW p \in Peer, RunHalfFails(p)
  PROVE  ExecInv' /\ Undisturbed
<1>1. PICK rids \in Overdue(p) :
        /\ BeforeBatch(p, rids)
        /\ \E eos \in NewTokens(Prefills(Iteration(p, rids).batch)) :
             Install(p, ReleaseBatch(Locally(Iteration(p, rids).view,
                                             Prefills(Iteration(p, rids).batch), eos),
                                     Iteration(p, rids).batch))
        /\ forward' = Send(forward, p, Prefills(Iteration(p, rids).batch))
  BY Zenon DEF RunHalfFails
<1>2. PICK batch : batch = Iteration(p, rids).batch
  OBVIOUS
<1>3. PICK v : v = Iteration(p, rids).view
  OBVIOUS
<1>4. IsIteration(p, batch, v)
  BY <1>2, <1>3, IterationFacts
<1>5. PICK L : L = Prefills(batch)
  OBVIOUS
<1>6. PICK k : k = K(p)
  OBVIOUS
<1>7. /\ batch \in Seq(Entry(k)) /\ Distinct(batch) /\ v \in ViewRec(k)
      /\ Good(k, PeerBlocks[p], v.s) /\ v.client = client
  BY <1>4, <1>6 DEF IsIteration
<1>8. L \in Seq(Entry(k)) /\ Distinct(L) /\ \A r \in Ids(L) : r \in Ids(batch)
  BY <1>5, <1>7, PartsFacts
<1>9. PICK eos : Install(p, ReleaseBatch(Locally(v, L, eos), batch))
  BY <1>1, <1>2, <1>3, <1>5
<1>10. PICK u : u = Locally(v, L, eos)
  OBVIOUS
<1>11. PICK C : C = Renewed(L)
  OBVIOUS
<1>12. PICK B \in Nat : B = PeerBlocks[p]
  BY BlocksType
<1>13. Handled(k, B, v, u, C) /\ (FirstPeer # LastPeer => u = v)
  BY <1>7, <1>8, <1>10, <1>11, <1>12, LocallyFacts
<1>14. \A r \in C : r \in Ids(batch)
  BY <1>8, <1>11 DEF Renewed
<1>15. PICK w : w = ReleaseBatch(u, batch)
  OBVIOUS
<1>16. u \in ViewRec(k) /\ Good(k, B, u.s)
  BY <1>13 DEF Handled
<1>17. LetGo(k, B, u, w)
  BY <1>7, <1>15, <1>16, BatchReleased
<1>18. Handled(k, B, v, w, C)
  <2>1. Handled(k, B, u, w, {})
    BY <1>17, LetGoHandled
  <2>2. Handled(k, B, u, w, C)
    BY <2>1, HandledMore
  <2> QED BY <1>13, <2>2, HandledTransitive
<1>19. sched' = [sched EXCEPT ![p] = w.s]
  BY <1>9, <1>10, <1>15 DEF Install
<1>20. forward' = Send(forward, p, L)
  BY <1>1, <1>2, <1>5
<1>21. Messages(forward') /\ Follows(Pending, forward, Pending', forward')
  <2>1. PICK t : t = w.s
    OBVIOUS
  <2>2. sched' = [sched EXCEPT ![p] = t] /\ Keeps(v.s, t, C)
    BY <1>18, <1>19, <2>1 DEF Handled
  <2>3. CASE FirstPeer = LastPeer
    <3>1. forward' = forward
      BY <1>20, <2>3 DEF Send
    <3> QED BY <1>4, <1>14, <2>2, <3>1, BatchStays
  <2>4. CASE FirstPeer # LastPeer
    <3>1. Keeps(v.s, t, {})
      BY <1>13, <1>17, <2>1, <2>4 DEF LetGo
    <3>2. PICK M \in Seq(Entry(k)) : M = << >> /\ Distinct(M) /\ Ids(M) = {}
      <4>1. PICK M \in Seq(Entry(k)) : M = << >> /\ Len(M) = 0
        BY EmptySeq
      <4>2. DOMAIN M = {}
        BY <4>1, LenProperties
      <4> QED BY <4>1, <4>2 DEF Distinct, Ids
    <3>3. forward' = Send(Send(forward, p, L), p, M)
      BY <1>20, <3>2 DEF Send
    <3> QED BY <1>4, <1>6, <1>8, <2>2, <3>1, <3>2, <3>3, BatchMoves
  <2> QED BY <2>3, <2>4
<1>22. w.client = client \/ p = FirstPeer
  <2>1. CASE FirstPeer = LastPeer
    BY <2>1 DEF FirstPeer, LastPeer, Peer
  <2>2. CASE FirstPeer # LastPeer
    BY <1>7, <1>13, <1>17, <2>2 DEF LetGo
  <2> QED BY <2>1, <2>2
<1>23. Install(p, w)
  BY <1>9, <1>10, <1>15
<1> QED BY <1>1, <1>4, <1>6, <1>12, <1>14, <1>18, <1>21, <1>22, <1>23, RunStep

(* A peer that takes a message from its queue: the requests of the message *)
(* become pending there.                                                   *)
LEMMA TakePending ==
  ASSUME ExecInv, NEW p \in Peer, forward[p] # << >>,
         forward' = [forward EXCEPT ![p] = Tail(forward[p])],
         NEW t, sched' = [sched EXCEPT ![p] = t],
         \A r : PendingIn(t, r) => PendingIn(sched[p], r) \/ r \in Ids(Head(forward[p]))
  PROVE  Messages(forward') /\ Follows(Pending, forward, Pending', forward')
<1>1. TypesInv /\ MessagesInv /\ DOMAIN sched = Peer /\ forward \in [Peer -> Seq(Seq(Msg))]
  BY DEF ExecInv, TypesInv
<1>2. PICK C : C = Ids(Head(forward[p]))
  OBVIOUS
<1>3. Messages(forward') /\ \A r \in C : r \in Request
  BY <1>1, <1>2, MessageTaken DEF Messages, MessagesInv
<1>4. PICK Q : Q = {x \in Peer \X Request : x \in Pending \/ (x[1] = p /\ x[2] \in C)}
  OBVIOUS
<1>5. \A q \in Peer : \A r : <<q, r>> \in Q <=> <<q, r>> \in Pending \/ (q = p /\ r \in C)
  BY <1>3, <1>4 DEF Pending
<1>6. PICK X : X = Seq(Msg)
  OBVIOUS
<1>7. DOMAIN forward = Peer /\ forward[p] \in Seq(X)
  BY <1>1, <1>6
<1>8. PICK gg : gg = forward'
  OBVIOUS
<1>9. Follows(Pending, forward, Q, gg)
  BY <1>2, <1>5, <1>7, <1>8, TakeMessage
<1>10. \A q \in Peer : \A r :
        /\ q = p => (<<q, r>> \in Pending' <=> r \in Request /\ PendingIn(t, r))
        /\ q # p => (<<q, r>> \in Pending' <=> <<q, r>> \in Pending)
  BY <1>1, NewPending, Zenon
<1>11. \A q \in Peer : \A r : <<q, r>> \in Pending' => <<q, r>> \in Q
  BY <1>2, <1>5, <1>10, PendingIsPending
<1>12. PICK R : R = Pending'
  OBVIOUS
<1>13. Follows(Q, gg, R, gg)
  BY <1>11, <1>12, FewerPending
<1>14. Follows(Pending, forward, R, gg)
  BY <1>9, <1>13, FollowsTransitive
<1> QED BY <1>3, <1>8, <1>12, <1>14

(* What is unchanged when a peer takes a message.                          *)
LEMMA KeptTypes ==
  ASSUME ExecInv, UNCHANGED http_in
  PROVE  http_in' \in Seq(HttpMsg) /\ NewIn(http_in')
  BY DEF ExecInv, TypesInv, NewInv

LEMMA RecvForwardStep ==
  ASSUME NeedsBlocks, ExecInv, NEW p \in Peer, RecvForward(p)
  PROVE  ExecInv' /\ Undisturbed
<1>1. TypesInv /\ MessagesInv /\ PlacesInv /\ Sound(sched[p])
  BY DEF ExecInv, PeersInv
<1>2. forward[p] # << >> /\ forward' = [forward EXCEPT ![p] = Tail(forward[p])]
  BY DEF RecvForward
<1>3. PICK msg : msg = Head(forward[p])
  OBVIOUS
<1>4. /\ msg \in Seq(Msg) /\ Distinct(msg)
      /\ \A r \in Ids(msg) : r \in Request /\ InMessage(forward, r)
  BY <1>1, <1>2, <1>3, MessageTaken
<1>5. \A r \in Ids(msg) : ~PendingIn(sched[p], r)
  BY <1>1, <1>4, PendingIsPending DEF PlacesInv, Single
<1>6. PICK v : v = View(p)
  OBVIOUS
<1>7. PICK B \in Nat : B = PeerBlocks[p]
  BY BlocksType
<1>8. v \in ViewRec(K(p)) /\ v.s = sched[p] /\ v.client = client /\ Good(K(p), B, v.s)
  BY <1>6, <1>7, ViewFacts
<1>9. \E w \in ViewRec(K(p)) :
        /\ Install(p, w) /\ Allowed(p, sched[p], w.s, client, w.client)
        /\ \A r : PendingIn(w.s, r) => PendingIn(sched[p], r) \/ r \in Ids(msg)
  <2>1. CASE p = FirstPeer
    <3>1. PICK eos : Install(p, HandleTokens(v, msg, eos))
      BY <1>3, <1>6, <2>1 DEF RecvForward
    <3>2. PICK w : w = HandleTokens(v, msg, eos)
      OBVIOUS
    <3>3. \A i \in DOMAIN msg : msg[i].rid \in Request
      BY <1>4 DEF Ids
    <3>4. PICK k : k = K(p)
      OBVIOUS
    <3>5. Handled(k, B, v, w, Ids(msg))
      BY <1>4, <1>8, <3>2, <3>3, <3>4, TokensHandled
    <3>6. Moves(sched[p], v.s)
      BY <1>8, KeepsSelf, KeepsMoves
    <3>7. \A r \in Ids(msg) : r \notin Ids(v.s.wait)
      BY <1>5, <1>8 DEF PendingIn
    <3>8. Allowed(p, sched[p], w.s, client, w.client)
      BY <1>7, <1>8, <2>1, <3>4, <3>5, <3>6, <3>7, AllowedHandled
    <3>9. \A r : PendingIn(w.s, r) => PendingIn(sched[p], r) \/ r \in Ids(msg)
      BY <1>8, <3>5 DEF Handled, Keeps, PendingIn
    <3>10. w \in ViewRec(K(p)) /\ Install(p, w)
      BY <3>1, <3>2, <3>4, <3>5 DEF Handled
    <3> QED BY <3>8, <3>9, <3>10
  <2>2. CASE p # FirstPeer
    <3>1. PICK k : k = "intermediate"
      OBVIOUS
    <3>2. K(p) = k
      BY <2>2, <3>1 DEF K
    <3>3. PICK w : w = FoldLeft(HandleStage, v, msg)
      OBVIOUS
    <3>4. Install(p, w)
      BY <1>3, <1>6, <2>2, <3>3 DEF RecvForward
    <3>5. Staged(k, B, v, msg, w, Len(msg))
      BY <1>4, <1>8, <3>1, <3>2, <3>3, StagesHandled
    <3>6. \A r : r \in SoFar(msg, Len(msg)) => r \in Ids(msg)
      BY <1>4, ListFacts DEF SoFar, Ids
    <3>7. /\ w \in ViewRec(k) /\ Good(k, B, w.s) /\ w.client = client
          /\ \A r : PendingIn(w.s, r) => PendingIn(sched[p], r) \/ r \in Ids(msg)
          /\ Sound(w.s)
      BY <1>1, <1>4, <1>5, <1>8, <3>5, <3>6 DEF Staged
    <3>8. Allowed(p, sched[p], w.s, client, w.client)
      BY <1>7, <2>2, <3>2, <3>7, Zenon DEF Allowed
    <3> QED BY <3>2, <3>4, <3>7, <3>8
  <2> QED BY <2>1, <2>2
<1>10. PICK w \in ViewRec(K(p)) :
        /\ Install(p, w) /\ Allowed(p, sched[p], w.s, client, w.client)
        /\ \A r : PendingIn(w.s, r) => PendingIn(sched[p], r) \/ r \in Ids(msg)
  BY <1>9
<1>11. PICK t : t = w.s
  OBVIOUS
<1>12. sched' = [sched EXCEPT ![p] = t]
  BY <1>10, <1>11 DEF Install
<1>13. \A r : PendingIn(t, r) => PendingIn(sched[p], r) \/ r \in Ids(Head(forward[p]))
  BY <1>3, <1>10, <1>11
<1>14. Messages(forward') /\ Follows(Pending, forward, Pending', forward')
  BY <1>2, <1>12, <1>13, TakePending
<1>15. aborts' \in [Peer -> SUBSET Seq(Request)] /\ timed_out' \in SUBSET Request
  BY <1>1 DEF RecvForward, TypesInv
<1>16. http_in' \in Seq(HttpMsg) /\ NewIn(http_in')
  BY KeptTypes DEF RecvForward
<1> QED BY <1>10, <1>14, <1>15, <1>16, InstallStep

LEMMA RecvAbortStep ==
  ASSUME ExecInv, NEW p \in Peer, RecvAbort(p)
  PROVE  ExecInv' /\ Undisturbed
<1>1. TypesInv /\ aborts \in [Peer -> SUBSET Seq(Request)]
  BY DEF ExecInv, TypesInv
<1>2. PICK rids \in aborts[p] :
        /\ aborts' = [aborts EXCEPT ![p] = @ \ {rids}]
        /\ Install(p, Aborted(p, View(p), rids))
  BY Zenon DEF RecvAbort, Aborted
<1>3. rids \in Seq(Request) /\ aborts' \in [Peer -> SUBSET Seq(Request)]
  BY <1>1, <1>2
<1>4. PICK v : v = View(p)
  OBVIOUS
<1>5. PICK B \in Nat : B = PeerBlocks[p]
  BY BlocksType
<1>6. PICK k : k = K(p)
  OBVIOUS
<1>7. v \in ViewRec(k) /\ v.s = sched[p] /\ v.client = client /\ Good(k, B, v.s)
  BY <1>4, <1>5, <1>6, ViewFacts
<1>8. PICK w : w = Aborted(p, v, rids)
  OBVIOUS
<1>9. LetGo(k, B, v, w)
  BY <1>3, <1>7, <1>8, AbortsHandled
<1>10. Install(p, w)
  BY <1>2, <1>4, <1>8
<1>11. w \in ViewRec(k) /\ w.client = client /\ Keeps(sched[p], w.s, {})
  BY <1>7, <1>9 DEF LetGo
<1>12. Allowed(p, sched[p], w.s, client, w.client)
  <2>1. Handled(k, B, v, w, {})
    BY <1>9, LetGoHandled
  <2>2. Moves(sched[p], v.s)
    BY <1>7, KeepsSelf, KeepsMoves
  <2>3. PICK C : C = {}
    OBVIOUS
  <2>4. Handled(K(p), PeerBlocks[p], v, w, C) /\ \A r \in C : r \notin Ids(v.s.wait)
    BY <1>5, <1>6, <2>1, <2>3
  <2> QED BY <1>7, <1>11, <2>2, <2>4, AllowedHandled
<1>13. PICK t : t = w.s
  OBVIOUS
<1>14. sched' = [sched EXCEPT ![p] = t]
  BY <1>10, <1>13 DEF Install
<1>15. \A r : PendingIn(t, r) => PendingIn(sched[p], r)
  BY <1>11, <1>13 DEF Keeps, PendingIn
<1>16. forward' = forward /\ http_in' = http_in /\ timed_out' = timed_out
  BY Zenon DEF RecvAbort
<1>17. Messages(forward') /\ Follows(Pending, forward, Pending', forward')
  BY <1>14, <1>15, <1>16, PendingStays
<1>18. timed_out' \in SUBSET Request
  BY <1>1, <1>16 DEF TypesInv
<1>19. http_in' \in Seq(HttpMsg) /\ NewIn(http_in')
  BY <1>16, KeptTypes
<1> QED BY <1>3, <1>6, <1>10, <1>11, <1>12, <1>17, <1>18, <1>19, InstallStep

LEMMA LoseStep ==
  ASSUME ExecInv, NEW p \in Peer, Lose(p)
  PROVE  ExecInv' /\ Undisturbed
<1>1. TypesInv
  BY DEF ExecInv
<1>2. UNCHANGED <<sched, finished, alive, http_in, client, received, text, timed_out>>
  BY DEF Lose
<1>3. PICK t : t = sched[p]
  OBVIOUS
<1>4. sched' = [sched EXCEPT ![p] = t]
  BY <1>1, <1>2, <1>3 DEF TypesInv
<1>5. \A r : PendingIn(t, r) => PendingIn(sched[p], r)
  BY <1>3
<1>6. /\ Messages(forward') /\ Follows(Pending, forward, Pending', forward')
      /\ aborts' \in [Peer -> SUBSET Seq(Request)]
  <2>1. CASE forward[p] # << >> /\ forward' = [forward EXCEPT ![p] = Tail(forward[p])]
             /\ aborts' = aborts
    <3>1. \A r : PendingIn(t, r) => PendingIn(sched[p], r) \/ r \in Ids(Head(forward[p]))
      BY <1>5
    <3>2. Messages(forward') /\ Follows(Pending, forward, Pending', forward')
      BY <1>4, <2>1, <3>1, TakePending
    <3> QED BY <1>1, <2>1, <3>2 DEF TypesInv
  <2>2. CASE (\E rids \in aborts[p] : aborts' = [aborts EXCEPT ![p] = @ \ {rids}])
             /\ forward' = forward
    <3>1. Messages(forward') /\ Follows(Pending, forward, Pending', forward')
      BY <1>4, <1>5, <2>2, PendingStays
    <3> QED BY <1>1, <2>2, <3>1 DEF TypesInv
  <2> QED BY <2>1, <2>2 DEF Lose
<1>7. http_in' \in Seq(HttpMsg) /\ NewIn(http_in')
  BY <1>2, KeptTypes
<1>8. Allowed(p, sched[p], t, client, client')
  BY <1>2, <1>3, AllowedSelf
<1>9. PeersInv' /\ PlacesInv' /\ NewInv' /\ IdleInv' /\ FirstInv' /\ Undisturbed
  BY <1>4, <1>6, <1>7, <1>8, PeerStep
<1>10. TypesInv' /\ MessagesInv'
  BY <1>1, <1>2, <1>6 DEF TypesInv, Messages, MessagesInv
<1> QED BY <1>9, <1>10 DEF ExecInv

LEMMA PairMax ==
  ASSUME NEW a \in Int, NEW b \in Int
  PROVE  Max({a, b}) \in Int /\ Max({a, b}) >= a /\ Max({a, b}) >= b
<1>1. \E x \in {a, b} : \A y \in {a, b} : x >= y
  OBVIOUS
<1>2. Max({a, b}) \in {a, b} /\ \A y \in {a, b} : Max({a, b}) >= y
  BY <1>1, Zenon DEF Max
<1> QED BY <1>2

LEMMA PairMin ==
  ASSUME NEW a \in Int, NEW b \in Int
  PROVE  Min({a, b}) \in {a, b}
<1>1. \E x \in {a, b} : \A y \in {a, b} : x =< y
  OBVIOUS
<1> QED BY <1>1, Zenon DEF Min

LEMMA InitialRequestFacts ==
  ASSUME NEW m \in HttpMsg
  PROVE  /\ InitialRequest(m) \in Entry("initial") /\ InitialRequest(m).rid = m.rid
         /\ InitialRequest(m).status = "prefill"
<1>1. m.rid \in Request /\ m.len \in Nat /\ m.max_new \in Nat
  BY DEF HttpMsg
<1>2. KeptPrompt(m.len) \in Nat
  <2>1. PICK a \in Int : a = MaxSeqLen - 10
    BY PipelineAssumption
  <2>2. Max({5, a}) \in Int /\ Max({5, a}) >= 5
    <3>1. PICK f \in Int : f = 5
      OBVIOUS
    <3>2. Max({f, a}) \in Int /\ Max({f, a}) >= f
      BY PairMax
    <3> QED BY <3>1, <3>2
  <2>3. PICK b \in Nat : b = Max({5, a})
    BY <2>2
  <2>4. Min({m.len, b}) \in {m.len, b}
    BY <1>1, PairMin
  <2> QED BY <1>1, <2>1, <2>3, <2>4 DEF KeptPrompt
<1>3. PICK len \in Nat : len = KeptPrompt(m.len)
  BY <1>2
<1>4. AllowedNew(len, m.max_new) \in Nat
  <2>1. PICK a \in Int : a = MaxSeqLen - len
    BY PipelineAssumption
  <2>2. Max({0, a}) \in Nat
    BY PairMax
  <2> QED BY <1>1, <2>1, <2>2 DEF AllowedNew
<1>5. PICK new \in Nat : new = AllowedNew(len, m.max_new)
  BY <1>4
<1>6. InitialRequest(m) =
        [rid |-> m.rid, status |-> "prefill", prompt_len |-> len, total |-> len, out |-> 0,
         max_new |-> new, ready |-> FALSE, abort |-> FALSE]
  BY <1>3, <1>5 DEF InitialRequest
<1> QED BY <1>1, <1>6 DEF Entry, ReqRec

(* What is left when the first peer takes a message of the HTTP server.    *)
IsTaken(m, h) ==
  /\ m \in HttpMsg /\ h \in Seq(HttpMsg) /\ NewIn(h)
  /\ m.kind = "new" =>
       /\ client[m.rid] \in {"waiting", "gone"} /\ Unstarted(m.rid)
       /\ \A i \in DOMAIN h : h[i].kind = "new" => h[i].rid # m.rid

LEMMA HttpTaken ==
  ASSUME ExecInv, http_in # << >>
  PROVE  IsTaken(Head(http_in), Tail(http_in))
<1>1. PICK L \in Seq(HttpMsg) : L = http_in
  BY DEF ExecInv, TypesInv
<1>2. NewIn(L)
  BY <1>1 DEF ExecInv, NewInv
<1>3. PICK n \in Nat : n = Len(L) /\ DOMAIN L = 1..n /\ n >= 1 /\ \A i \in 1..n : L[i] \in HttpMsg
  BY <1>1, ListFacts, EmptySeq
<1>4. PICK h \in Seq(HttpMsg) : h = Tail(L)
  BY <1>1, HeadTailProperties
<1>5. PICK m : m = Head(L)
  OBVIOUS
<1>6. /\ m = L[1] /\ DOMAIN h = 1..(n - 1)
      /\ \A i \in 1..(n - 1) : h[i] = L[i + 1]
  BY <1>1, <1>3, <1>4, <1>5, HeadTailProperties, LenProperties
<1>7. \A i \in 1..(n - 1) : i + 1 \in 1..n /\ i + 1 # 1
  BY <1>3
<1>8. \A i, j \in 1..(n - 1) : i + 1 = j + 1 => i = j
  OBVIOUS
<1>9. 1 \in 1..n
  BY <1>3
<1>10. \A i \in 1..n : L[i].kind = "new" =>
         /\ client[L[i].rid] \in {"waiting", "gone"} /\ Unstarted(L[i].rid)
         /\ \A j \in 1..n : L[j].kind = "new" /\ L[j].rid = L[i].rid => i = j
  BY <1>2, <1>3 DEF NewIn
<1>11. NewIn(h)
  <2> SUFFICES ASSUME NEW i \in 1..(n - 1), h[i].kind = "new"
               PROVE  /\ client[h[i].rid] \in {"waiting", "gone"} /\ Unstarted(h[i].rid)
                      /\ \A j \in 1..(n - 1) : h[j].kind = "new" /\ h[j].rid = h[i].rid => i = j
    BY <1>6 DEF NewIn
  <2>1. PICK a \in 1..n : a = i + 1 /\ h[i] = L[a]
    BY <1>6, <1>7
  <2>2. client[h[i].rid] \in {"waiting", "gone"} /\ Unstarted(h[i].rid)
    BY <1>10, <2>1
  <2>3. ASSUME NEW j \in 1..(n - 1), h[j].kind = "new", h[j].rid = h[i].rid
        PROVE  i = j
    <3>1. PICK b \in 1..n : b = j + 1 /\ h[j] = L[b]
      BY <1>6, <1>7
    <3>2. a = b
      BY <1>10, <2>1, <2>3, <3>1
    <3> QED BY <1>8, <2>1, <3>1, <3>2
  <2> QED BY <2>2, <2>3
<1>12. ASSUME m.kind = "new"
       PROVE  /\ client[m.rid] \in {"waiting", "gone"} /\ Unstarted(m.rid)
              /\ \A i \in DOMAIN h : h[i].kind = "new" => h[i].rid # m.rid
  <2>1. /\ client[m.rid] \in {"waiting", "gone"} /\ Unstarted(m.rid)
        /\ \A j \in 1..n : L[j].kind = "new" /\ L[j].rid = m.rid => 1 = j
    BY <1>6, <1>9, <1>10, <1>12
  <2>2. ASSUME NEW i \in 1..(n - 1), h[i].kind = "new", h[i].rid = m.rid
        PROVE  FALSE
    <3>1. PICK b \in 1..n : b = i + 1 /\ h[i] = L[b] /\ b # 1
      BY <1>6, <1>7
    <3> QED BY <2>1, <2>2, <3>1
  <2> QED BY <1>6, <2>1, <2>2
<1>13. m \in HttpMsg
  BY <1>3, <1>6, <1>9
<1> QED BY <1>1, <1>4, <1>5, <1>11, <1>12, <1>13 DEF IsTaken

(* One more request starts.                                                *)
LEMMA OneMore ==
  ASSUME NEW P, NEW ff, Single(P, ff), NEW p \in Peer, NEW new, ~Started(P, ff, new),
         NEW Q, \A q \in Peer : \A r : <<q, r>> \in Q => <<q, r>> \in P \/ (q = p /\ r = new)
  PROVE  Single(Q, ff) /\ \A r : r # new /\ Started(Q, ff, r) => Started(P, ff, r)
<1>1. (\A q \in Peer : <<q, new>> \notin P) /\ ~InMessage(ff, new)
  BY DEF Started
<1>2. \A q1, q2 \in Peer : \A r : <<q1, r>> \in Q /\ <<q2, r>> \in Q => q1 = q2
  BY <1>1 DEF Single
<1>3. \A q \in Peer : \A r : <<q, r>> \in Q => ~InMessage(ff, r)
  BY <1>1 DEF Single
<1>4. Single(Q, ff)
  BY <1>2, <1>3, Zenon DEF Single
<1>5. \A r : r # new /\ Started(Q, ff, r) => Started(P, ff, r)
  BY DEF Started
<1> QED BY <1>4, <1>5

(* A new request joins the queue of the first peer.                        *)
LEMMA AcceptStep ==
  ASSUME ExecInv, NEW m, NEW h, IsTaken(m, h), m.kind = "new", http_in' = h,
         sched' = [sched EXCEPT ![FirstPeer] = enque_request(@, InitialRequest(m))],
         UNCHANGED <<finished, alive, forward, aborts, client, received, text, timed_out>>
  PROVE  ExecInv' /\ \A a : a # m.rid /\ Unstarted(a) => Unstarted(a)'
<1>1. PICK p \in Peer : p = FirstPeer
  BY FirstIsPeer
<1>2. PICK k : k = "initial" /\ k = K(p)
  BY <1>1 DEF K
<1>3. /\ TypesInv /\ MessagesInv /\ PeersInv /\ PlacesInv /\ IdleInv /\ FirstInv
      /\ sched \in [Peer -> AnySched]
  BY DEF ExecInv, TypesInv
<1>4. PICK B \in Nat : B = PeerBlocks[p]
  BY BlocksType
<1>5. PICK s : s = sched[p]
  OBVIOUS
<1>6. /\ Good(k, B, s) /\ Sound(s) /\ Apart(s)
      /\ \A q \in Request : client[q] \in {"done", "error"} => Gone(s, q)
  BY <1>1, <1>2, <1>3, <1>4, <1>5 DEF PeersInv, FirstInv
<1>7. m \in HttpMsg
  BY DEF IsTaken
<1>8. PICK r \in Request : r = m.rid
  BY <1>7 DEF HttpMsg
<1>9. PICK q \in Entry(k) : q = InitialRequest(m) /\ q.rid = r /\ q.status = "prefill"
  BY <1>2, <1>7, <1>8, InitialRequestFacts
<1>10. PICK t : t = enque_request(s, q)
  OBVIOUS
<1>11. /\ Good(k, B, t) /\ t.running = s.running
       /\ \A a : a \in Ids(t.wait) <=> a \in Ids(s.wait) \/ a = r
  <2>1. /\ Good(k, B, t) /\ t.running = s.running
        /\ \A a : a \in Ids(t.wait) <=> a \in Ids(s.wait) \/ a = q.rid
    <3>1. Good(k, B, s) /\ q.status = "prefill"
      BY <1>6, <1>9
    <3> QED BY <1>10, <3>1, EnquePrefill
  <2> QED BY <1>9, <2>1
<1>12. client[r] \in {"waiting", "gone"} /\ Unstarted(r)
       /\ \A i \in DOMAIN h : h[i].kind = "new" => h[i].rid # r
  BY <1>8 DEF IsTaken
<1>13. Gone(s, r) /\ ~PendingIn(s, r)
  <2>1. <<p, r>> \notin Pending
    BY <1>12 DEF Unstarted, Started
  <2> QED BY <1>1, <1>5, <1>12, <2>1, UnstartedGone, PendingIsPending
<1>14. Sound(t) /\ \A a : PendingIn(t, a) => PendingIn(s, a) \/ a = r
  <2>1. ~enque_raises(s, q)
    BY <1>9 DEF enque_raises
  <2>2. IsEnqueued(k, B, s, q.rid, t)
    BY <1>6, <1>10, <2>1, EnqueGood
  <2> QED BY <1>6, <1>9, <1>13, <2>2 DEF IsEnqueued
<1>15. sched' = [sched EXCEPT ![p] = t]
  BY <1>1, <1>5, <1>9, <1>10
<1>16. t \in AnySched
  BY <1>2, <1>11 DEF Good, AnySched
<1>17. /\ sched' \in [Peer -> AnySched] /\ sched'[p] = t
       /\ \A a \in Peer : a # p => sched'[a] = sched[a]
  BY <1>3, <1>15, <1>16
<1>18. TypesInv' /\ MessagesInv'
  <2>1. h \in Seq(HttpMsg)
    BY DEF IsTaken
  <2> QED BY <1>3, <1>17, <2>1 DEF TypesInv, MessagesInv
<1>19. PeersInv'
  BY <1>2, <1>3, <1>4, <1>11, <1>14, <1>17 DEF PeersInv
<1>20. \A a \in Peer : \A b :
        /\ a = p => (<<a, b>> \in Pending' <=> b \in Request /\ PendingIn(t, b))
        /\ a # p => (<<a, b>> \in Pending' <=> <<a, b>> \in Pending)
  <2>1. DOMAIN sched = Peer
    BY <1>3
  <2> QED BY <1>15, <2>1, NewPending, Zenon
<1>21. PICK Q : Q = Pending'
  OBVIOUS
<1>22. \A a \in Peer : \A b : <<a, b>> \in Q => <<a, b>> \in Pending \/ (a = p /\ b = r)
  BY <1>5, <1>14, <1>20, <1>21, PendingIsPending
<1>23. Single(Q, forward) /\ \A a : a # r /\ Started(Q, forward, a) => Started(Pending, forward, a)
  <2>1. Single(Pending, forward) /\ ~Started(Pending, forward, r)
    BY <1>3, <1>12 DEF PlacesInv, Unstarted
  <2> QED BY <1>22, <2>1, OneMore
<1>24. PlacesInv'
  BY <1>21, <1>23 DEF PlacesInv
<1>25. \A a : a # r /\ Unstarted(a) => Unstarted(a)'
  BY <1>1, <1>5, <1>11, <1>17, <1>21, <1>23 DEF Unstarted
<1>26. IdleInv'
  BY <1>3, <1>12, <1>25 DEF IdleInv
<1>27. NewInv'
  <2>1. NewIn(h)
    BY DEF IsTaken
  <2> SUFFICES ASSUME NEW i \in DOMAIN h, h[i].kind = "new"
               PROVE  /\ client[h[i].rid] \in {"waiting", "gone"} /\ Unstarted(h[i].rid)'
                      /\ \A j \in DOMAIN h : h[j].kind = "new" /\ h[j].rid = h[i].rid => i = j
    BY DEF NewInv, NewIn
  <2>2. PICK a : a = h[i].rid
    OBVIOUS
  <2>3. /\ client[a] \in {"waiting", "gone"} /\ Unstarted(a)
        /\ \A j \in DOMAIN h : h[j].kind = "new" /\ h[j].rid = a => i = j
    BY <2>1, <2>2 DEF NewIn
  <2>4. Unstarted(a)'
    BY <1>12, <1>25, <2>2, <2>3
  <2> QED BY <2>2, <2>3, <2>4
<1>28. Apart(t)
  BY <1>6, <1>11, <1>13 DEF Apart, Gone
<1>29. \A a \in Request : client[a] \in {"done", "error"} => Gone(t, a)
  <2> TAKE a \in Request
  <2> HAVE client[a] \in {"done", "error"}
  <2>1. Gone(s, a) /\ a # r
    BY <1>6, <1>12
  <2> QED BY <1>11, <2>1 DEF Gone
<1>30. FirstInv'
  BY <1>1, <1>17, <1>28, <1>29 DEF FirstInv
<1> QED BY <1>8, <1>18, <1>19, <1>24, <1>25, <1>26, <1>27, <1>30 DEF ExecInv

(* A request is refused: its client is told.                               *)
LEMMA RefuseStep ==
  ASSUME ExecInv, NEW m, NEW h, IsTaken(m, h), m.kind = "new", http_in' = h,
         client' = NotifyError(client, m.rid),
         UNCHANGED <<sched, finished, alive, forward, aborts, received, text, timed_out>>
  PROVE  ExecInv' /\ Undisturbed
<1>1. /\ TypesInv /\ MessagesInv /\ PeersInv /\ PlacesInv /\ IdleInv /\ FirstInv
      /\ client \in [Request -> ClientState]
  BY DEF ExecInv, TypesInv
<1>2. m \in HttpMsg /\ h \in Seq(HttpMsg) /\ NewIn(h)
  BY DEF IsTaken
<1>3. PICK r \in Request : r = m.rid
  BY <1>2 DEF HttpMsg
<1>4. Unstarted(r) /\ \A i \in DOMAIN h : h[i].kind = "new" => h[i].rid # r
  BY <1>3 DEF IsTaken
<1>5. /\ client' \in [Request -> ClientState]
      /\ \A a \in Request : a # r => client'[a] = client[a]
      /\ client'[r] = client[r] \/ (client[r] = "waiting" /\ client'[r] = "error")
  BY <1>1, <1>3 DEF NotifyError, ClientState
<1>6. TypesInv' /\ MessagesInv' /\ PeersInv'
  BY <1>1, <1>2, <1>5 DEF TypesInv, MessagesInv, PeersInv
<1>7. Pending' = Pending
  BY DEF Pending
<1>8. PlacesInv' /\ \A a : Unstarted(a) => Unstarted(a)'
  BY <1>1, <1>7 DEF PlacesInv, Unstarted
<1>9. \A a \in Request : client'[a] = "idle" => client[a] = "idle"
  BY <1>5
<1>10. IdleInv'
  BY <1>1, <1>8, <1>9 DEF IdleInv
<1>14. Undisturbed
  BY <1>8, <1>9 DEF Undisturbed
<1>11. NewInv'
  <2> SUFFICES ASSUME NEW i \in DOMAIN h, h[i].kind = "new"
               PROVE  /\ client'[h[i].rid] \in {"waiting", "gone"} /\ Unstarted(h[i].rid)'
                      /\ \A j \in DOMAIN h : h[j].kind = "new" /\ h[j].rid = h[i].rid => i = j
    BY DEF NewInv, NewIn
  <2>1. h[i] \in HttpMsg
    BY <1>2, ListFacts
  <2>2. PICK a \in Request : a = h[i].rid
    BY <2>1 DEF HttpMsg
  <2>3. /\ client[a] \in {"waiting", "gone"} /\ Unstarted(a)
        /\ \A j \in DOMAIN h : h[j].kind = "new" /\ h[j].rid = a => i = j
    BY <1>2, <2>2 DEF NewIn
  <2>4. client'[a] \in {"waiting", "gone"} /\ Unstarted(a)'
    BY <1>4, <1>5, <1>8, <2>2, <2>3
  <2> QED BY <2>2, <2>3, <2>4
<1>12. \A a \in Request : client'[a] \in {"done", "error"} => Gone(sched[FirstPeer], a)
  <2>1. Gone(sched[FirstPeer], r)
    BY <1>4, UnstartedGone
  <2> QED BY <1>1, <1>5, <2>1 DEF FirstInv
<1>13. FirstInv'
  BY <1>1, <1>12 DEF FirstInv
<1> QED BY <1>6, <1>8, <1>10, <1>11, <1>13, <1>14 DEF ExecInv

(* A client cancels its request, which is running or not.                  *)
LEMMA CancelStep ==
  ASSUME ExecInv, NEW m, NEW h, IsTaken(m, h), http_in' = h, NEW t,
         t = sched[FirstPeer] \/ t = cancel_request(sched[FirstPeer], m.rid),
         sched' = [sched EXCEPT ![FirstPeer] = t],
         UNCHANGED <<finished, alive, forward, aborts, client, received, text, timed_out>>
  PROVE  ExecInv' /\ Undisturbed
<1>1. PICK p \in Peer : p = FirstPeer
  BY FirstIsPeer
<1>2. PICK k : k = K(p)
  OBVIOUS
<1>3. TypesInv /\ MessagesInv /\ PeersInv /\ FirstInv /\ sched \in [Peer -> AnySched]
  BY DEF ExecInv, TypesInv
<1>4. PICK B \in Nat : B = PeerBlocks[p]
  BY BlocksType
<1>5. PICK s : s = sched[p]
  OBVIOUS
<1>6. Good(k, B, s) /\ Sound(s) /\ Apart(s)
  BY <1>1, <1>2, <1>3, <1>4, <1>5 DEF PeersInv, FirstInv
<1>7. Good(k, B, t) /\ Keeps(s, t, {})
  <2>1. CASE t = s
    BY <1>6, <2>1, KeepsSelf
  <2>2. CASE t = cancel_request(s, m.rid)
    BY <1>6, <2>2, CancelGood
  <2> QED BY <1>1, <1>5, <2>1, <2>2
<1>8. Moves(s, t)
  BY <1>7, KeepsMoves
<1>9. Allowed(p, s, t, client, client')
  <2>1. Sound(t) /\ Apart(t) /\ \A r : Gone(s, r) => Gone(t, r)
    BY <1>6, <1>8 DEF Moves, Gone
  <2> QED BY <1>2, <1>4, <1>7, <2>1 DEF Allowed
<1>10. sched' = [sched EXCEPT ![p] = t] /\ Allowed(p, sched[p], t, client, client')
  BY <1>1, <1>5, <1>9
<1>11. \A r : PendingIn(t, r) => PendingIn(sched[p], r)
  BY <1>5, <1>7 DEF Keeps, PendingIn
<1>12. Messages(forward') /\ Follows(Pending, forward, Pending', forward')
  BY <1>10, <1>11, PendingStays
<1>13. http_in' \in Seq(HttpMsg) /\ NewIn(http_in')
  BY DEF IsTaken
<1>14. PeersInv' /\ PlacesInv' /\ NewInv' /\ IdleInv' /\ FirstInv' /\ Undisturbed
  BY <1>10, <1>12, <1>13, PeerStep
<1>15. t \in AnySched
  BY <1>1, <1>2, <1>7 DEF Good, AnySched, K
<1>16. sched' \in [Peer -> AnySched]
  BY <1>3, <1>10, <1>15
<1>17. TypesInv' /\ MessagesInv'
  BY <1>3, <1>13, <1>16 DEF TypesInv, MessagesInv
<1> QED BY <1>14, <1>17 DEF ExecInv

LEMMA HeadIsIn ==
  ASSUME NEW X, NEW L \in Seq(X), L # << >>
  PROVE  1 \in DOMAIN L /\ L[1] = Head(L)
<1>1. DOMAIN L = 1..Len(L) /\ Len(L) \in Nat /\ Len(L) >= 1
  BY ListFacts, EmptySeq
<1> QED BY <1>1, HeadTailProperties

LEMMA RecvHttpStep ==
  ASSUME ExecInv, RecvHttp
  PROVE  ExecInv' /\ \A a \in Request : Unstarted(a) /\ ~Fresh(a) => Unstarted(a)'
<1>1. http_in # << >> /\ UNCHANGED <<finished, alive, forward, aborts, received, text, timed_out>>
  BY DEF RecvHttp
<1>2. PICK m : m = Head(http_in)
  OBVIOUS
<1>3. PICK h : h = Tail(http_in)
  OBVIOUS
<1>4. IsTaken(m, h) /\ http_in' = h
  BY <1>1, <1>2, <1>3, HttpTaken DEF RecvHttp
<1>5. CASE /\ m.kind = "new" /\ client' = client
           /\ sched' = [sched EXCEPT ![FirstPeer] = enque_request(@, InitialRequest(m))]
  <2>1. Fresh(m.rid)
    BY <1>1, <1>2, <1>5, HeadIsIn DEF Fresh, ExecInv, TypesInv
  <2> QED BY <1>1, <1>4, <1>5, <2>1, AcceptStep
<1>6. CASE m.kind = "new" /\ client' = NotifyError(client, m.rid) /\ sched' = sched
  BY <1>1, <1>4, <1>6, RefuseStep DEF Undisturbed
<1>7. CASE /\ client' = client
           /\ sched' = [sched EXCEPT ![FirstPeer] = cancel_request(@, m.rid)]
  <2>1. PICK t : t = cancel_request(sched[FirstPeer], m.rid)
    OBVIOUS
  <2> QED BY <1>1, <1>4, <1>7, <2>1, CancelStep DEF Undisturbed
<1>8. CASE client' = client /\ sched' = sched
  <2>1. PICK t : t = sched[FirstPeer]
    OBVIOUS
  <2>2. sched' = [sched EXCEPT ![FirstPeer] = t]
    BY <1>8, <2>1, FirstIsPeer DEF ExecInv, TypesInv
  <2> QED BY <1>1, <1>4, <1>8, <2>1, <2>2, CancelStep DEF Undisturbed
<1> QED BY <1>2, <1>5, <1>6, <1>7, <1>8, Zenon DEF RecvHttp

(* The HTTP server sends a message about request r, whose client is then   *)
(* told to be in state c.                                                  *)
LEMMA HttpSent ==
  ASSUME ExecInv, NEW r \in Request, NEW c \in {"waiting", "gone"},
         NEW m \in HttpMsg, m.rid = r, http_in' = Append(http_in, m),
         client' = [client EXCEPT ![r] = c],
         m.kind = "new" => client[r] = "idle",
         UNCHANGED <<sched, finished, alive, forward, aborts, received, text, timed_out>>
  PROVE  ExecInv' /\ Undisturbed
<1>1. /\ TypesInv /\ MessagesInv /\ PeersInv /\ PlacesInv /\ IdleInv /\ FirstInv
      /\ client \in [Request -> ClientState]
  BY DEF ExecInv, TypesInv
<1>2. PICK L \in Seq(HttpMsg) : L = http_in /\ NewIn(L)
  BY DEF ExecInv, TypesInv, NewInv
<1>3. PICK n \in Nat : n = Len(L) /\ DOMAIN L = 1..n /\ \A i \in 1..n : L[i] \in HttpMsg
  BY ListFacts
<1>4. PICK h : h = Append(L, m)
  OBVIOUS
<1>5. /\ h \in Seq(HttpMsg) /\ DOMAIN h = 1..(n + 1) /\ h[n + 1] = m
      /\ \A i \in 1..n : h[i] = L[i]
  BY <1>3, <1>4, AppendProperties, LenProperties
<1>6. \A i \in 1..(n + 1) : i \in 1..n \/ i = n + 1
  BY <1>3
<1>7. /\ client' \in [Request -> ClientState] /\ client'[r] \in {"waiting", "gone"}
      /\ \A a \in Request : a # r => client'[a] = client[a]
  BY <1>1 DEF ClientState
<1>8. http_in' = h
  BY <1>2, <1>4
<1>9. TypesInv' /\ MessagesInv' /\ PeersInv'
  BY <1>1, <1>5, <1>7, <1>8 DEF TypesInv, MessagesInv, PeersInv
<1>10. Pending' = Pending
  BY DEF Pending
<1>11. PlacesInv' /\ \A a : Unstarted(a) => Unstarted(a)'
  BY <1>1, <1>10 DEF PlacesInv, Unstarted
<1>17. Undisturbed
  BY <1>7, <1>11 DEF Undisturbed
<1>12. IdleInv'
  BY <1>1, <1>7, <1>11 DEF IdleInv
<1>13. FirstInv'
  BY <1>1, <1>7 DEF FirstInv
<1>14. \A i \in 1..n : L[i].kind = "new" =>
         /\ L[i].rid \in Request /\ client[L[i].rid] \in {"waiting", "gone"} /\ Unstarted(L[i].rid)
         /\ \A j \in 1..n : L[j].kind = "new" /\ L[j].rid = L[i].rid => i = j
  <2>1. \A a \in HttpMsg : a.rid \in Request
    BY DEF HttpMsg
  <2> QED BY <1>2, <1>3, <2>1 DEF NewIn
\* A request that is submitted was not submitted before.
<1>15. m.kind = "new" => Unstarted(r) /\ \A i \in 1..n : L[i].kind = "new" => L[i].rid # r
  BY <1>1, <1>14 DEF IdleInv
<1>16. NewInv'
  <2> SUFFICES ASSUME NEW i \in 1..(n + 1), h[i].kind = "new"
               PROVE  /\ client'[h[i].rid] \in {"waiting", "gone"} /\ Unstarted(h[i].rid)'
                      /\ \A j \in 1..(n + 1) : h[j].kind = "new" /\ h[j].rid = h[i].rid => i = j
    BY <1>5, <1>8 DEF NewInv, NewIn
  <2>1. PICK a : a = h[i].rid
    OBVIOUS
  <2>2. CASE i \in 1..n
    <3>1. /\ a \in Request /\ client[a] \in {"waiting", "gone"} /\ Unstarted(a)
          /\ \A j \in 1..n : L[j].kind = "new" /\ L[j].rid = a => i = j
      BY <1>5, <1>14, <2>1, <2>2
    <3>2. client'[a] \in {"waiting", "gone"} /\ Unstarted(a)'
      BY <1>7, <1>11, <3>1
    <3>3. m.kind = "new" => r # a
      BY <1>5, <1>15, <2>1, <2>2
    <3>4. \A j \in 1..(n + 1) : h[j].kind = "new" /\ h[j].rid = a => i = j
      BY <1>5, <1>6, <3>1, <3>3
    <3> QED BY <2>1, <3>2, <3>4
  <2>3. CASE i = n + 1
    <3>1. a = r /\ m.kind = "new"
      BY <1>5, <2>1, <2>3
    <3>2. client'[a] \in {"waiting", "gone"} /\ Unstarted(a)'
      BY <1>7, <1>11, <1>15, <3>1
    <3>3. \A j \in 1..(n + 1) : h[j].kind = "new" /\ h[j].rid = a => i = j
      BY <1>5, <1>6, <1>15, <2>3, <3>1
    <3> QED BY <2>1, <3>2, <3>3
  <2> QED BY <1>6, <2>2, <2>3
<1> QED BY <1>9, <1>11, <1>12, <1>13, <1>16, <1>17 DEF ExecInv

LEMMA SubmitStep ==
  ASSUME ExecInv, NEW r \in Request, NEW n \in PromptLens, NEW k \in MaxNews, Submit(r, n, k)
  PROVE  ExecInv' /\ Undisturbed
<1>1. PICK m : m = [kind |-> "new", rid |-> r, len |-> n, max_new |-> k]
  OBVIOUS
<1>2. m \in HttpMsg /\ m.rid = r
  BY <1>1, PipelineAssumption DEF HttpMsg
<1>3. PICK c \in {"waiting", "gone"} : c = "waiting"
  OBVIOUS
<1>4. /\ http_in' = Append(http_in, m) /\ client' = [client EXCEPT ![r] = c] /\ client[r] = "idle"
      /\ UNCHANGED <<sched, finished, alive, forward, aborts, received, text, timed_out>>
  BY <1>1, <1>3 DEF Submit
<1> QED BY <1>2, <1>4, HttpSent

LEMMA DisconnectStep ==
  ASSUME ExecInv, NEW r \in Request, Disconnect(r)
  PROVE  ExecInv' /\ Undisturbed
<1>1. PICK m : m = [kind |-> "abort", rid |-> r, len |-> 0, max_new |-> 0]
  OBVIOUS
<1>2. m \in HttpMsg /\ m.rid = r /\ m.kind # "new"
  BY <1>1 DEF HttpMsg
<1>3. PICK c \in {"waiting", "gone"} : c = "gone"
  OBVIOUS
<1>4. /\ http_in' = Append(http_in, m) /\ client' = [client EXCEPT ![r] = c]
      /\ UNCHANGED <<sched, finished, alive, forward, aborts, received, text, timed_out>>
  BY <1>1, <1>3 DEF Disconnect
<1> QED BY <1>2, <1>4, HttpSent
-----------------------------------------------------------------------------
(* A scheduler starts with nothing queued or running and all its blocks.   *)
LEMMA NewSchedulerFacts ==
  ASSUME NeedsBlocks, NEW k, NEW B \in Nat
  PROVE  /\ Good(k, B, NewScheduler(B, 0)) /\ Sound(NewScheduler(B, 0))
         /\ Apart(NewScheduler(B, 0)) /\ \A r : Gone(NewScheduler(B, 0), r)
<1>1. PICK e \in Seq(Entry(k)) : e = << >> /\ Len(e) = 0
  BY EmptySeq
<1>2. DOMAIN e = {}
  BY <1>1, LenProperties
<1>3. Ids(e) = {} /\ Distinct(e) /\ \A r : ~ReadyIn(e, r)
  BY <1>2 DEF Ids, Distinct, ReadyIn
<1>4. PICK pool : pool = EmptyPool(B, 0)
  OBVIOUS
<1>5. pool = [free_blocks |-> B, context |-> [r \in Request |-> Absent],
              free_slots |-> 0, slotted |-> {}]
  BY <1>4 DEF EmptyPool
<1>6. pool \in Pool /\ pool.free_blocks = B /\ \A r \in Request : pool.context[r] = Absent
  BY <1>5 DEF Pool
<1>7. Backed(pool, B)
  <2>1. PICK tables : tables = [r \in Request |-> {}]
    OBVIOUS
  <2>2. PICK free : free = 1..B
    OBVIOUS
  <2>3. Cardinality(free) = B
    BY <2>2, FS_Interval
  <2>4. \A r \in Request : tables[r] = {} /\ Cardinality(tables[r]) = Held(pool, r)
    BY <1>6, <2>1, FS_EmptySet DEF Held
  <2>5. tables \in [Request -> SUBSET (1..B)] /\ free \in SUBSET (1..B)
    BY <2>1, <2>2
  <2>6. \A r, q \in Request : r # q => tables[r] \cap tables[q] = {}
    BY <2>4
  <2>7. \A r \in Request : tables[r] \cap free = {}
    BY <2>4
  <2>8. Backs(pool, B, tables, free)
    BY <1>6, <2>3, <2>4, <2>5, <2>6, <2>7 DEF Backs
  <2> QED BY <2>8 DEF Backed
<1>8. PICK s : s = NewScheduler(B, 0)
  OBVIOUS
<1>9. s = [wait |-> e, running |-> e, pool |-> pool, metric |-> 0, reported |-> 0]
  BY <1>1, <1>4, <1>8 DEF NewScheduler
<1>10. s \in Sched(k) /\ s.wait = e /\ s.running = e /\ s.pool = pool
  BY <1>6, <1>9 DEF Sched
<1>11. Len(e) <= MaxBatchSize
  BY <1>1, BatchAssumption
<1>12. Good(k, B, s) /\ Sound(s) /\ Apart(s) /\ \A r : Gone(s, r)
  BY <1>3, <1>6, <1>7, <1>10, <1>11 DEF Good, Sound, Apart, Gone
<1> QED BY <1>8, <1>12

LEMMA ExecInit ==
  ASSUME NeedsBlocks, Init
  PROVE  ExecInv /\ \A p \in Peer : DOMAIN forward[p] = {} /\ \A r : Gone(sched[p], r)
<1>1. \A p \in Peer : sched[p] = NewScheduler(PeerBlocks[p], 0)
  BY DEF Init
<1>2. \A p \in Peer : /\ Good(K(p), PeerBlocks[p], sched[p]) /\ Sound(sched[p])
                      /\ Apart(sched[p]) /\ \A r : Gone(sched[p], r)
  <2> TAKE p \in Peer
  <2>1. PICK B \in Nat : B = PeerBlocks[p]
    BY BlocksType
  <2>2. sched[p] = NewScheduler(B, 0)
    BY <1>1, <2>1
  <2>3. PICK k : k = K(p)
    OBVIOUS
  <2>4. Good(k, B, sched[p]) /\ Sound(sched[p]) /\ Apart(sched[p]) /\ \A r : Gone(sched[p], r)
    BY <2>2, NewSchedulerFacts
  <2> QED BY <2>1, <2>3, <2>4
<1>3. \A p \in Peer : sched[p] \in AnySched
  BY <1>2 DEF Good, AnySched, K
<1>4. TypesInv
  <2>1. sched \in [Peer -> AnySched]
    BY <1>3 DEF Init
  <2>2. << >> \in Seq(Request) /\ << >> \in Seq(Seq(Msg)) /\ << >> \in Seq(HttpMsg)
    BY EmptySeq
  <2> QED BY <2>1, <2>2 DEF Init, TypesInv, ClientState
<1>5. \A p \in Peer : DOMAIN forward[p] = {}
  <2>1. PICK e \in Seq(Msg) : e = << >> /\ Len(e) = 0
    BY EmptySeq
  <2>2. DOMAIN e = {}
    BY <2>1, LenProperties
  <2> QED BY <2>1, <2>2 DEF Init
<1>6. MessagesInv /\ \A r : ~InMessage(forward, r)
  BY <1>5 DEF MessagesInv, InMessage
<1>7. \A p \in Peer : \A r : <<p, r>> \notin Pending
  <2>1. \A p \in Peer : \A r : ~PendingIn(sched[p], r)
    <3> TAKE p \in Peer
    <3> TAKE r
    <3>1. r \notin Ids(sched[p].wait) /\ r \notin Ids(sched[p].running)
      BY <1>2 DEF Gone
    <3> QED BY <3>1 DEF PendingIn, ReadyIn, Ids
  <2> QED BY <2>1, PendingIsPending
<1>8. PlacesInv
  BY <1>5, <1>7 DEF PlacesInv, Single
<1>9. \A r : Unstarted(r)
  <2>1. \A r : ~Started(Pending, forward, r)
    BY <1>6, <1>7 DEF Started
  <2>2. \A r : r \notin Ids(sched[FirstPeer].running)
    BY <1>2, FirstIsPeer DEF Gone
  <2> QED BY <2>1, <2>2 DEF Unstarted
<1>10. NewInv
  <2>1. PICK e \in Seq(HttpMsg) : e = << >> /\ Len(e) = 0
    BY EmptySeq
  <2>2. DOMAIN http_in = {}
    BY <2>1, LenProperties DEF Init
  <2> QED BY <2>2 DEF NewInv, NewIn
<1>11. ExecInv
  BY <1>2, <1>4, <1>6, <1>8, <1>9, <1>10, FirstIsPeer DEF ExecInv, PeersInv, IdleInv, FirstInv
<1> QED BY <1>2, <1>5, <1>11

LEMMA ExecStep ==
  ASSUME NeedsBlocks, ExecInv, [Next]_vars
  PROVE  ExecInv'
<1>1. CASE UNCHANGED vars
  BY <1>1 DEF vars, ExecInv, TypesInv, PeersInv, MessagesInv, Pending, PlacesInv, Unstarted,
              NewIn, NewInv, IdleInv, FirstInv
<1>2. CASE \E r \in Request : \E n \in PromptLens, k \in MaxNews : Submit(r, n, k)
  BY <1>2, SubmitStep
<1>3. CASE \E r \in Request : Disconnect(r)
  BY <1>3, DisconnectStep
<1>4. CASE RecvHttp
  BY <1>4, RecvHttpStep
<1>5. CASE \E p \in Peer : RecvForward(p)
  BY <1>5, RecvForwardStep
<1>6. CASE \E p \in Peer : RecvAbort(p)
  BY <1>6, RecvAbortStep
<1>7. CASE \E p \in Peer : Lose(p)
  BY <1>7, LoseStep
<1>8. CASE \E p \in Peer : RunBatch(p)
  BY <1>8, RunBatchStep
<1>9. CASE \E p \in Peer : RunFails(p)
  BY <1>9, RunFailsStep
<1>10. CASE \E p \in Peer : RunHalfFails(p)
  BY <1>10, RunHalfFailsStep
<1> QED BY <1>1, <1>2, <1>3, <1>4, <1>5, <1>6, <1>7, <1>8, <1>9, <1>10 DEF Next

(* Whatever is cancelled, lost, timed out or fails, the steps of a         *)
(* pipeline of executors keep the inductive invariant: each peer's memory  *)
(* is held by its running requests, and each request is at one place.      *)
THEOREM ExecInvariant ==
  ASSUME NeedsBlocks
  PROVE  Spec => []ExecInv
<1>1. Init => ExecInv
  BY ExecInit
<1>2. ExecInv /\ [Next]_vars => ExecInv'
  BY ExecStep
<1> QED BY <1>1, <1>2, PTL DEF Spec

(* No peer hands out more blocks than it has or runs more requests than    *)
(* max_batch_size, and the messages are about requests.                    *)
THEOREM ExecutorTypes ==
  ASSUME NeedsBlocks
  PROVE  Spec => []TypeOK
<1>1. ASSUME ExecInv PROVE TypeOK
  <2>1. /\ TypesInv /\ PeersInv /\ finished \in [Peer -> Seq(Request)]
        /\ forward \in [Peer -> Seq(Seq(Msg))] /\ aborts \in [Peer -> SUBSET Seq(Request)]
    BY <1>1 DEF ExecInv, TypesInv
  <2>2. ASSUME NEW p \in Peer
        PROVE  /\ sched[p].pool.free_blocks \in 0..PeerBlocks[p]
               /\ Ids(sched[p].running) \cup Queued(p) \subseteq Request
               /\ Len(sched[p].running) <= MaxBatchSize
    <3>1. PICK k : k = K(p)
      OBVIOUS
    <3>2. PICK B \in Nat : B = PeerBlocks[p]
      BY BlocksType
    <3>3. Good(k, B, sched[p])
      BY <2>1, <3>1, <3>2 DEF PeersInv
    <3>4. sched[p].wait \in Seq(Entry(k)) /\ sched[p].running \in Seq(Entry(k))
      BY <3>3, SchedTypes DEF Good
    <3>5. Backed(sched[p].pool, B) /\ Len(sched[p].running) <= MaxBatchSize
      BY <3>3 DEF Good
    <3>6. sched[p].pool.free_blocks \in 0..B
      BY <3>5, BackedBounds
    <3>7. (\A r \in Ids(sched[p].running) : r \in Request) /\ \A r \in Ids(sched[p].wait) : r \in Request
      BY <3>4, IdsType
    <3> QED BY <3>2, <3>5, <3>6, <3>7 DEF Queued
  <2>3. \A rids \in Seq(Request) : Range(rids) \subseteq Request
    BY ListFacts
  <2>4. \A msg \in Seq(Msg) : Ids(msg) \subseteq Request
    <3>1. \A m \in Msg : m.rid \in Request
      BY DEF Msg
    <3> TAKE msg \in Seq(Msg)
    <3>2. \A i \in DOMAIN msg : msg[i] \in Msg
      BY ListFacts
    <3> QED BY <3>1, <3>2 DEF Ids
  <2>5. ASSUME NEW p \in Peer
        PROVE  /\ Range(finished[p]) \subseteq Request
               /\ \A rids \in aborts[p] : Range(rids) \subseteq Request
               /\ \A i \in DOMAIN forward[p] : Ids(forward[p][i]) \subseteq Request
    <3>1. \A i \in DOMAIN forward[p] : forward[p][i] \in Seq(Msg)
      BY <2>1, ListFacts
    <3>2. finished[p] \in Seq(Request) /\ \A rids \in aborts[p] : rids \in Seq(Request)
      BY <2>1
    <3> QED BY <2>3, <2>4, <3>1, <3>2
  <2> QED BY <2>1, <2>2, <2>5, Zenon DEF TypeOK, TypesInv, ClientState
<1> QED BY <1>1, ExecInvariant, PTL

(* "Running Requests: inflight requests with KV-cache residency": at every *)
(* peer exactly the running requests hold cache memory.                    *)
THEOREM ResidencyHolds ==
  ASSUME NeedsBlocks
  PROVE  Spec => []ResidencyMatches
<1>1. ASSUME ExecInv PROVE ResidencyMatches
  <2> SUFFICES ASSUME NEW p \in Peer PROVE Resident(p) = Ids(sched[p].running)
    BY DEF ResidencyMatches
  <2>1. PICK k : k = K(p)
    OBVIOUS
  <2>2. PICK s : s = sched[p]
    OBVIOUS
  <2>3. Good(k, PeerBlocks[p], s)
    BY <1>1, <2>1, <2>2 DEF ExecInv, PeersInv
  <2>4. s.running \in Seq(Entry(k)) /\ \A r \in Request : s.pool.context[r] # Absent <=> r \in Ids(s.running)
    BY <2>3, SchedTypes DEF Good
  <2>5. \A r \in Ids(s.running) : r \in Request
    BY <2>4, IdsType
  <2> QED BY <2>2, <2>4, <2>5 DEF Resident, has_request
<1> QED BY <1>1, ExecInvariant, PTL

(* When a client has its final answer, the first peer has let go of the    *)
(* request: it is neither queued, running nor resident there.              *)
THEOREM AnsweredIsReleased ==
  ASSUME NeedsBlocks
  PROVE  Spec => []DoneIsReleased
<1>1. ASSUME ExecInv, ResidencyMatches PROVE DoneIsReleased
  <2> SUFFICES ASSUME NEW r \in Request, client[r] \in {"done", "error"}
               PROVE  r \notin Resident(FirstPeer) \cup Queued(FirstPeer)
                                \cup Ids(sched[FirstPeer].running)
    BY DEF DoneIsReleased
  <2>1. Gone(sched[FirstPeer], r)
    BY <1>1 DEF ExecInv, FirstInv
  <2>2. Resident(FirstPeer) = Ids(sched[FirstPeer].running)
    BY <1>1, FirstIsPeer DEF ResidencyMatches
  <2> QED BY <2>1, <2>2 DEF Gone, Queued
<1> QED BY <1>1, ExecInvariant, ResidencyHolds, PTL

(* Two steps of one request are never pending at once: it is queued or     *)
(* ready at one peer, or in one forward message.                           *)
THEOREM StepsAreSequential ==
  ASSUME NeedsBlocks
  PROVE  Spec => []OneStepAtATime
<1>1. ASSUME ExecInv PROVE OneStepAtATime
  <2> SUFFICES ASSUME NEW r \in Request PROVE Cardinality(Places(r)) <= 1
    BY DEF OneStepAtATime
  <2>1. Single(Pending, forward)
    BY <1>1 DEF ExecInv, PlacesInv
  <2>2. \A x \in Places(r) : \E p \in Peer :
          \/ x = <<p, 0>> /\ <<p, r>> \in Pending
          \/ \E i \in DOMAIN forward[p] : x = <<p, i>> /\ r \in Ids(forward[p][i])
    <3>1. \A p \in Peer : (\/ r \in Queued(p)
                           \/ \E i \in DOMAIN sched[p].running :
                                sched[p].running[i].rid = r /\ sched[p].running[i].ready)
                          => <<p, r>> \in Pending
      BY PendingIsPending DEF Queued, PendingIn, ReadyIn
    <3> QED BY <3>1 DEF Places
  <2>3. \A x, y \in Places(r) : x = y
    <3> SUFFICES ASSUME NEW x \in Places(r), NEW y \in Places(r) PROVE x = y
      OBVIOUS
    <3>1. PICK p \in Peer : \/ x = <<p, 0>> /\ <<p, r>> \in Pending
                            \/ \E i \in DOMAIN forward[p] : x = <<p, i>> /\ r \in Ids(forward[p][i])
      BY <2>2
    <3>2. PICK q \in Peer : \/ y = <<q, 0>> /\ <<q, r>> \in Pending
                            \/ \E i \in DOMAIN forward[q] : y = <<q, i>> /\ r \in Ids(forward[q][i])
      BY <2>2
    <3> QED BY <2>1, <3>1, <3>2 DEF Single, InMessage
  <2>4. CASE Places(r) = {}
    BY <2>4, FS_EmptySet
  <2>5. CASE Places(r) # {}
    <3>1. PICK x : x \in Places(r)
      BY <2>5
    <3>2. Places(r) = {x}
      BY <2>3, <3>1
    <3>3. Cardinality({x}) = 1
      BY FS_Singleton
    <3> QED BY <3>2, <3>3
  <2> QED BY <2>4, <2>5
<1> QED BY <1>1, ExecInvariant, PTL

AddTrueCost(none, n, q) == n + (IF q.status = "prefill" THEN q.total ELSE 1)
TrueCosts == INSTANCE FoldLemmas WITH Op <- AddTrueCost

(* At the first peer the scheduler counts all the tokens of a batch.       *)
LEMMA CountsAreTrue ==
  ASSUME NEW L \in Seq(Entry("initial"))
  PROVE  TrueTokens(L) = Tokens(L)
<1>1. PICK k : k = "initial"
  OBVIOUS
<1>2. PICK n \in Nat : n = Len(L) /\ \A i \in 1..n : L[i] \in Entry(k)
  BY <1>1, ListFacts
<1>3. Costs!Fold(0, 0, L) = Tokens(L)
  BY Zenon DEF Costs!Fold, Tokens, AddCost, FoldLeft, MapThenFoldSet,
               Costs!MapThenFoldSet, Max, Costs!Max
<1>4. TrueCosts!Fold(0, 0, L) = TrueTokens(L)
  BY Zenon DEF TrueCosts!Fold, TrueTokens, AddTrueCost, FoldLeft, MapThenFoldSet,
               TrueCosts!MapThenFoldSet, Max, TrueCosts!Max
<1>5. PICK f : Costs!Run(f, 0, 0, L)
  BY <1>1, LeastElement, Costs!FoldLeftSteps DEF Costs!WellOrdered
<1>6. /\ f[0] = 0 /\ f[n] = Tokens(L)
      /\ \A i \in 1..n : f[i] = AddCost(0, f[i - 1], L[i])
  BY <1>2, <1>3, <1>5 DEF Costs!Run
<1>7. \A q \in Entry(k) : (IF q.status = "prefill" THEN q.total ELSE 1) = Cost(q)
  BY <1>1 DEF Entry, Cost
<1>8. \A i \in 1..n : \A a : AddTrueCost(0, a, L[i]) = AddCost(0, a, L[i])
  BY <1>2, <1>7 DEF AddTrueCost, AddCost
<1> DEFINE A == [i \in 0..n |-> {f[i]}]
<1>9. \A i \in 1..n : i \in 0..n /\ i - 1 \in 0..n
  BY <1>2
<1>10. 0 \in A[0] /\ 0 \in 0..n /\ n \in 0..n
  BY <1>2, <1>6
<1>11. \A i \in 1..n : \A a \in A[i - 1] : AddTrueCost(0, a, L[i]) \in A[i]
  BY <1>6, <1>8, <1>9
<1>12. A[n] = {f[n]}
  BY <1>10
<1> HIDE DEF A
<1>13. TrueCosts!Fold(0, 0, L) \in A[n]
  BY <1>1, <1>2, <1>10, <1>11, LeastElement, TrueCosts!FoldLeftAlong DEF TrueCosts!WellOrdered
<1> QED BY <1>4, <1>6, <1>12, <1>13

(* A single node's batches hold at most max_num_tokens_per_batch tokens    *)
(* and micro_batch_size requests.  Another peer of a pipeline has no       *)
(* prompt lengths to count with.                                           *)
THEOREM BatchesFit ==
  ASSUME NeedsBlocks, NumPeers = 1
  PROVE  Spec => []BatchFits
<1>1. ASSUME ExecInv PROVE BatchFits
  <2> SUFFICES ASSUME NEW p \in Peer, NEW batch, batch = Batch(Scheduled(p, {}))
               PROVE  TrueTokens(batch) <= MaxTokens /\ Len(batch) <= MicroBatchSize
    BY Zenon DEF BatchFits
  <2>1. K(p) = "initial"
    BY DEF Peer, FirstPeer, K
  <2>2. PICK k : k = "initial"
    OBVIOUS
  <2>3. Good(k, PeerBlocks[p], Scheduled(p, {}))
    BY <1>1, <2>1, <2>2, ScheduledFacts
  <2>4. /\ Drawn(k, Scheduled(p, {}), batch)
        /\ Len(batch) <= MicroBatchSize /\ Tokens(batch) <= MaxTokens
    BY <2>3, BatchFacts
  <2>5. batch \in Seq(Entry("initial"))
    BY <2>2, <2>4 DEF Drawn
  <2> QED BY <2>4, <2>5, CountsAreTrue
<1> QED BY <1>1, ExecInvariant, PTL
-----------------------------------------------------------------------------
(* How far the caches of the peers have come for one request.  c gives the *)
(* context that each peer holds for it.                                    *)

Context == [Peer -> Nat \cup {Absent}]

Contexts(sc, r) == [p \in Peer |-> sc[p].pool.context[r]]

\* No batch fails between its prefills and its decodes: no request is then
\* released at a peer whose prefill is on its way to the next ones.
Steady == "half_error" \notin Faults

\* The prefill of a prompt of n tokens has passed the peers before p.
PrefillAt(c, p, n) ==
  \A q \in Peer : /\ c[q] # Absent => q < p /\ c[q] = n
                  /\ Steady /\ FirstPeer < q /\ q < p => c[q] # Absent

\* A decode step that adds a token to contexts of length k has passed the peers before p.
Level(c, p, k) == \A q \in Peer : c[q] # Absent => c[q] = IF q < p THEN k + 1 ELSE k

DecodeAt(c, p) ==
  /\ \E k \in Nat : Level(c, p, k)
  /\ Steady => \A q \in Peer : q # FirstPeer => c[q] # Absent

StepAt(c, p, st, n) == IF st = "prefill" THEN PrefillAt(c, p, n) ELSE DecodeAt(c, p)

\* ContextsInStep for one request.
InStep(c) ==
  \A p, q \in Peer : p < q /\ c[p] # Absent /\ c[q] # Absent => c[p] - c[q] \in {0, 1}

\* The peer after p in the ring, and how p's prefills are labelled there.
After(p) == (p % NumPeers) + 1
Label(p, st) == IF p = LastPeer THEN "decode" ELSE st

LEMMA PeerRange ==
  /\ NumPeers \in Nat /\ NumPeers >= 1
  /\ \A p \in Peer : p \in Nat /\ 1 <= p /\ p <= NumPeers
  /\ \A p \in Nat : 1 <= p /\ p <= NumPeers => p \in Peer
  /\ FirstPeer = 1 /\ LastPeer = NumPeers
  BY PipelineAssumption DEF Peer, FirstPeer, LastPeer

LEMMA AfterFacts ==
  ASSUME NEW p \in Peer
  PROVE  /\ After(p) \in Peer
         /\ p = LastPeer => After(p) = FirstPeer
         /\ p # LastPeer => After(p) = p + 1 /\ After(p) # FirstPeer
<1>1. NumPeers \in Nat /\ NumPeers >= 1 /\ p \in Nat /\ 1 <= p /\ p <= NumPeers
  BY PeerRange
<1>2. CASE p = NumPeers
  <2>1. p % NumPeers = 0
    BY <1>1, <1>2
  <2> QED BY <1>1, <1>2, <2>1, PeerRange DEF After
<1>3. CASE p # NumPeers
  <2>1. p % NumPeers = p
    BY <1>1, <1>3
  <2>2. After(p) = p + 1 /\ p + 1 <= NumPeers /\ p + 1 # 1
    BY <1>1, <1>3, <2>1 DEF After
  <2> QED BY <1>1, <1>3, <2>2, PeerRange
<1> QED BY <1>2, <1>3

(* Contexts that a prefill or a decode step finds are in step.             *)
LEMMA LevelInStep ==
  ASSUME NEW c \in Context, NEW p \in Nat, NEW st, NEW n \in Nat, StepAt(c, p, st, n)
  PROVE  InStep(c)
<1>1. CASE PrefillAt(c, p, n)
  <2>1. \A q \in Peer : c[q] # Absent => c[q] = n
    BY <1>1 DEF PrefillAt
  <2> QED BY <2>1 DEF InStep
<1>2. CASE DecodeAt(c, p)
  <2>1. PICK k \in Nat : Level(c, p, k)
    BY <1>2 DEF DecodeAt
  <2>2. \A q \in Peer : c[q] # Absent => c[q] = IF q < p THEN k + 1 ELSE k
    BY <2>1 DEF Level
  <2>3. ASSUME NEW a \in Peer, NEW b \in Peer, a < b, c[a] # Absent, c[b] # Absent
        PROVE  c[a] - c[b] \in {0, 1}
    <3>1. a \in Nat /\ b \in Nat /\ (b < p => a < p)
      BY <2>3, PeerRange
    <3> QED BY <2>2, <2>3, <3>1
  <2> QED BY <2>3 DEF InStep
<1> QED BY <1>1, <1>2 DEF StepAt

(* A peer that has computed a step hands it to the next one.               *)
LEMMA PrefillPasses ==
  ASSUME NEW c \in Context, NEW p \in Peer, NEW n \in Nat, PrefillAt(c, p + 1, n)
  PROVE  StepAt(c, After(p), Label(p, "prefill"), n)
<1>1. \A q \in Peer : /\ c[q] # Absent => q < p + 1 /\ c[q] = n
                      /\ Steady /\ FirstPeer < q /\ q < p + 1 => c[q] # Absent
  BY DEF PrefillAt
<1>2. CASE p # LastPeer
  BY <1>2, AfterFacts DEF Label, StepAt
<1>3. CASE p = LastPeer
  <2>1. \A q \in Peer : q \in Nat /\ ~(q < FirstPeer) /\ q < p + 1 /\ (q # FirstPeer => FirstPeer < q)
    BY <1>3, PeerRange
  <2>2. Level(c, FirstPeer, n)
    BY <1>1, <2>1 DEF Level
  <2>3. Steady => \A q \in Peer : q # FirstPeer => c[q] # Absent
    BY <1>1, <2>1
  <2>4. DecodeAt(c, FirstPeer)
    BY <2>2, <2>3 DEF DecodeAt
  <2> QED BY <1>3, <2>4, AfterFacts DEF Label, StepAt
<1> QED BY <1>2, <1>3

LEMMA DecodePasses ==
  ASSUME NEW c \in Context, NEW p \in Peer, DecodeAt(c, p), c[p] # Absent,
         NEW d, d = [c EXCEPT ![p] = c[p] + 1]
  PROVE  DecodeAt(d, After(p)) /\ d \in Context
<1>1. PICK k \in Nat : Level(c, p, k)
  BY DEF DecodeAt
<1>2. \A q \in Peer : c[q] # Absent => c[q] = IF q < p THEN k + 1 ELSE k
  BY <1>1 DEF Level
<1>3. p \in Nat /\ ~(p < p)
  BY PeerRange
<1>4. c[p] = k
  BY <1>2, <1>3
<1>5. d \in Context /\ d[p] = k + 1 /\ \A q \in Peer : q # p => d[q] = c[q]
  BY <1>4 DEF Context
<1>6. k + 1 # Absent
  BY DEF Absent
<1>7. Steady => \A q \in Peer : q # FirstPeer => d[q] # Absent
  BY <1>5, <1>6 DEF DecodeAt
<1>8. CASE p # LastPeer
  <2>1. After(p) = p + 1
    BY <1>8, AfterFacts
  <2>2. \A q \in Peer : q \in Nat /\ (q < p + 1 <=> q < p \/ q = p)
    BY <1>3, PeerRange
  <2>3. Level(d, p + 1, k)
    BY <1>2, <1>5, <2>2 DEF Level
  <2> QED BY <1>5, <1>7, <2>1, <2>3 DEF DecodeAt
<1>9. CASE p = LastPeer
  <2>1. After(p) = FirstPeer
    BY <1>9, AfterFacts
  <2>2. \A q \in Peer : ~(q < FirstPeer) /\ (q = p \/ q < p)
    BY <1>9, PeerRange
  <2>3. Level(d, FirstPeer, k + 1)
    BY <1>2, <1>5, <2>2 DEF Level
  <2>4. k + 1 \in Nat
    OBVIOUS
  <2> QED BY <1>5, <1>7, <2>1, <2>3, <2>4 DEF DecodeAt
<1> QED BY <1>8, <1>9

(* A peer gets a context for a prefill that has come to it.                *)
LEMMA PrefillComes ==
  ASSUME NEW c \in Context, NEW p \in Peer, NEW n \in Nat, PrefillAt(c, p, n),
         NEW d, d = [c EXCEPT ![p] = n]
  PROVE  PrefillAt(d, p + 1, n) /\ d \in Context
<1>1. \A q \in Peer : /\ c[q] # Absent => q < p /\ c[q] = n
                      /\ Steady /\ FirstPeer < q /\ q < p => c[q] # Absent
  BY DEF PrefillAt
<1>2. d \in Context /\ d[p] = n /\ \A q \in Peer : q # p => d[q] = c[q]
  BY DEF Context
<1>3. n # Absent
  BY DEF Absent
<1>4. p \in Nat /\ \A q \in Peer : q \in Nat /\ (q < p + 1 <=> q < p \/ q = p)
  BY PeerRange
<1> QED BY <1>1, <1>2, <1>3, <1>4 DEF PrefillAt

(* A peer lets go of the request.                                          *)
LEMMA ContextLost ==
  ASSUME NEW c \in Context, NEW p \in Peer, NEW d, d = [c EXCEPT ![p] = Absent]
  PROVE  /\ d \in Context
         /\ InStep(c) => InStep(d)
         /\ ~Steady \/ p = FirstPeer => \A q, st, n : StepAt(c, q, st, n) => StepAt(d, q, st, n)
<1>1. d \in Context /\ d[p] = Absent /\ \A q \in Peer : q # p => d[q] = c[q]
  BY DEF Context
<1>2. InStep(c) => InStep(d)
  BY <1>1 DEF InStep
<1>3. ASSUME ~Steady \/ p = FirstPeer, NEW q, NEW n, PrefillAt(c, q, n)
      PROVE  PrefillAt(d, q, n)
  <2>1. \A a \in Peer : ~(a < a)
    BY PeerRange
  <2> QED BY <1>1, <1>3, <2>1 DEF PrefillAt
<1>4. ASSUME ~Steady \/ p = FirstPeer, NEW q, DecodeAt(c, q)
      PROVE  DecodeAt(d, q)
  <2>1. PICK k \in Nat : Level(c, q, k)
    BY <1>4 DEF DecodeAt
  <2>2. Level(d, q, k)
    BY <1>1, <2>1 DEF Level
  <2> QED BY <1>1, <1>4, <2>2 DEF DecodeAt
<1> QED BY <1>1, <1>2, <1>3, <1>4 DEF StepAt

-----------------------------------------------------------------------------
\* A message of the queue has a step of request r, with status st and position n.
Carries(queue, r, st, n) ==
  \E i \in DOMAIN queue : \E j \in DOMAIN queue[i] :
    queue[i][j].rid = r /\ queue[i][j].status = st /\ queue[i][j].pos = n

\* Peer p is ready for the steps of r that are pending there, when the contexts are c.
AtPeer(c, s, p, r) ==
  /\ \A st, n : Has(s.wait, r, st, n) => st = "prefill" /\ PrefillAt(c, p, n)
  /\ \A st, n : HasReady(s.running, r, st, n) =>
       IF st = "prefill" THEN PrefillAt(c, p + 1, n) ELSE DecodeAt(c, p)

InQueue(c, queue, p, r) ==
  \A st, n : Carries(queue, r, st, n) => StepAt(c, p, st, n) /\ (st = "prefill" => p # FirstPeer)

Levelled(sc, ff, r) ==
  /\ InStep(Contexts(sc, r))
  /\ \A p \in Peer : /\ AtPeer(Contexts(sc, r), sc[p], p, r)
                     /\ InQueue(Contexts(sc, r), ff[p], p, r)

FewerCarried(ff, gg, r) ==
  \A p \in Peer : \A st, n : Carries(gg[p], r, st, n) => Carries(ff[p], r, st, n)

\* No step of r becomes pending from s to t.
FewerTasks(s, t, r) ==
  \A st, n : /\ Has(t.wait, r, st, n) => Has(s.wait, r, st, n)
             /\ HasReady(t.running, r, st, n) => HasReady(s.running, r, st, n)

Quiet(s, t, r) == t.pool.context[r] = s.pool.context[r] /\ FewerTasks(s, t, r)

\* No step of r is pending at a peer or in a message.
Resting(sc, ff, r) ==
  \A p \in Peer : \A st, n : /\ ~Has(sc[p].wait, r, st, n) /\ ~HasReady(sc[p].running, r, st, n)
                             /\ ~Carries(ff[p], r, st, n)

LEMMA ContextsType ==
  ASSUME NEW sc \in [Peer -> AnySched], NEW r \in Request
  PROVE  Contexts(sc, r) \in Context /\ \A p \in Peer : Contexts(sc, r)[p] = sc[p].pool.context[r]
<1>1. \A p \in Peer : sc[p].pool.context[r] \in Nat \cup {Absent}
  BY DEF AnySched, Sched, Pool
<1> QED BY <1>1 DEF Contexts, Context

Update(f, p, x) == [f EXCEPT ![p] = x]

LEMMA ContextsChange ==
  ASSUME NEW sc \in [Peer -> AnySched], NEW r \in Request, NEW p \in Peer, NEW t
  PROVE  Contexts(Update(sc, p, t), r) = Update(Contexts(sc, r), p, t.pool.context[r])
<1>1. PICK d : d = [sc EXCEPT ![p] = t]
  OBVIOUS
<1>2. d[p] = t /\ \A q \in Peer : q # p => d[q] = sc[q]
  BY <1>1
<1>3. PICK x : x = t.pool.context[r]
  OBVIOUS
<1>4. \A q \in Peer : d[q].pool.context[r] = IF q = p THEN x ELSE sc[q].pool.context[r]
  BY <1>2, <1>3
<1>5. Contexts(d, r) = [Contexts(sc, r) EXCEPT ![p] = x]
  BY <1>4 DEF Contexts
<1> QED BY <1>1, <1>3, <1>5 DEF Update

(* The step of a peer that request r has no part in.                       *)
LEMMA QuietStep ==
  ASSUME NEW sc \in [Peer -> AnySched], NEW ff, NEW r \in Request, Levelled(sc, ff, r),
         NEW p \in Peer, NEW t, Quiet(sc[p], t, r), NEW gg, FewerCarried(ff, gg, r)
  PROVE  Levelled(Update(sc, p, t), gg, r)
<1>1. PICK c : c = Contexts(sc, r)
  OBVIOUS
<1>2. PICK d : d = Update(sc, p, t)
  OBVIOUS
<1>3. d[p] = t /\ \A q \in Peer : q # p => d[q] = sc[q]
  BY <1>2 DEF Update
<1>4. Contexts(d, r) = c
  <2>1. PICK x : x = t.pool.context[r]
    OBVIOUS
  <2>2. c \in Context /\ c[p] = x
    BY <1>1, <2>1, ContextsType DEF Quiet
  <2>3. Contexts(d, r) = Update(c, p, x)
    BY <1>1, <1>2, <2>1, ContextsChange
  <2>4. Update(c, p, x) = c
    BY <2>2 DEF Context, Update
  <2> QED BY <2>3, <2>4
<1>5. InStep(c) /\ \A q \in Peer : AtPeer(c, sc[q], q, r) /\ InQueue(c, ff[q], q, r)
  BY <1>1 DEF Levelled
<1>6. \A q \in Peer : InQueue(c, gg[q], q, r)
  BY <1>5 DEF InQueue, FewerCarried
<1>7. AtPeer(c, t, p, r)
  BY <1>5 DEF AtPeer, Quiet, FewerTasks
<1>8. \A q \in Peer : AtPeer(c, d[q], q, r)
  BY <1>3, <1>5, <1>7
<1> QED BY <1>2, <1>4, <1>5, <1>6, <1>8 DEF Levelled

(* The step of the peer that request r is at.                              *)
LEMMA ActiveStep ==
  ASSUME NEW sc \in [Peer -> AnySched], NEW r \in Request, NEW p \in Peer, NEW t, NEW gg, NEW d,
         d = Update(Contexts(sc, r), p, t.pool.context[r]),
         \A q \in Peer : q # p => ~PendingIn(sc[q], r),
         InStep(d), AtPeer(d, t, p, r), \A q \in Peer : InQueue(d, gg[q], q, r)
  PROVE  Levelled(Update(sc, p, t), gg, r)
<1>1. PICK e : e = Update(sc, p, t)
  OBVIOUS
<1>2. e[p] = t /\ \A q \in Peer : q # p => e[q] = sc[q]
  BY <1>1 DEF Update
<1>3. Contexts(e, r) = d
  BY <1>1, ContextsChange
<1>4. \A q \in Peer : AtPeer(d, e[q], q, r)
  <2> TAKE q \in Peer
  <2>1. CASE q = p
    BY <1>2, <2>1
  <2>2. CASE q # p
    <3>1. ~PendingIn(e[q], r)
      BY <1>2, <2>2
    <3>2. \A st, n : ~Has(e[q].wait, r, st, n) /\ ~HasReady(e[q].running, r, st, n)
      BY <3>1 DEF PendingIn, Ids, ReadyIn, Has, HasReady
    <3> QED BY <3>2 DEF AtPeer
  <2> QED BY <2>1, <2>2
<1> QED BY <1>1, <1>3, <1>4 DEF Levelled

(* A peer lets go of request r.                                            *)
LEMMA LossStep ==
  ASSUME NEW sc \in [Peer -> AnySched], NEW ff, NEW r \in Request, Levelled(sc, ff, r),
         NEW p \in Peer, NEW t, t.pool.context[r] \in {sc[p].pool.context[r], Absent},
         FewerTasks(sc[p], t, r), NEW gg, FewerCarried(ff, gg, r),
         \/ ~Steady \/ p = FirstPeer
         \/ Resting(Update(sc, p, t), gg, r)
  PROVE  Levelled(Update(sc, p, t), gg, r)
<1>1. CASE t.pool.context[r] = sc[p].pool.context[r]
  BY <1>1, QuietStep DEF Quiet
<1>2. CASE t.pool.context[r] = Absent
  <2>1. PICK c : c = Contexts(sc, r)
    OBVIOUS
  <2>2. PICK e : e = Update(sc, p, t)
    OBVIOUS
  <2>3. e[p] = t /\ \A q \in Peer : q # p => e[q] = sc[q]
    BY <2>2 DEF Update
  <2>4. PICK d : d = [c EXCEPT ![p] = Absent]
    OBVIOUS
  <2>5. Contexts(e, r) = d
    <3>1. Contexts(e, r) = Update(c, p, t.pool.context[r])
      BY <2>1, <2>2, ContextsChange
    <3> QED BY <1>2, <2>4, <3>1 DEF Update
  <2>6. c \in Context
    BY <2>1, ContextsType
  <2>7. InStep(c) /\ \A q \in Peer : AtPeer(c, sc[q], q, r) /\ InQueue(c, ff[q], q, r)
    BY <2>1 DEF Levelled
  <2>8. InStep(d) /\ (~Steady \/ p = FirstPeer =>
                        \A q, st, n : StepAt(c, q, st, n) => StepAt(d, q, st, n))
    BY <2>4, <2>6, <2>7, ContextLost
  <2>9. CASE Resting(e, gg, r)
    BY <2>2, <2>5, <2>8, <2>9 DEF Resting, Levelled, AtPeer, InQueue
  <2>10. CASE ~Steady \/ p = FirstPeer
    <3>1. \A q, st, n : StepAt(c, q, st, n) => StepAt(d, q, st, n)
      BY <2>8, <2>10
    <3>2. /\ \A q, n : PrefillAt(c, q, n) => PrefillAt(d, q, n)
          /\ \A q : DecodeAt(c, q) => DecodeAt(d, q)
      <4>1. \A q, n : PrefillAt(c, q, n) => PrefillAt(d, q, n)
        BY <3>1, Zenon DEF StepAt
      <4>2. \A q : StepAt(c, q, "decode", 0) => StepAt(d, q, "decode", 0)
        BY <3>1
      <4>3. \A q : DecodeAt(c, q) => DecodeAt(d, q)
        BY <4>2 DEF StepAt
      <4> QED BY <4>1, <4>3
    <3>3. \A q \in Peer : AtPeer(d, sc[q], q, r)
      BY <2>7, <3>2 DEF AtPeer
    <3>4. \A q \in Peer : InQueue(d, gg[q], q, r)
      BY <2>7, <3>1 DEF InQueue, FewerCarried
    <3>5. AtPeer(d, t, p, r)
      BY <3>3 DEF AtPeer, FewerTasks
    <3>6. \A q \in Peer : AtPeer(d, e[q], q, r)
      BY <2>3, <3>3, <3>5
    <3> QED BY <2>2, <2>5, <2>8, <3>4, <3>6 DEF Levelled
  <2> QED BY <2>2, <2>9, <2>10
<1> QED BY <1>1, <1>2

\* Steps are pending at the peers for which their contexts are ready.
LevelInv == \A r \in Request : Levelled(sched, forward, r)

(* A request with a step pending at a peer is nowhere else.                *)
LEMMA AloneAtPeer ==
  ASSUME ExecInv, NEW p \in Peer, NEW r \in Request, PendingIn(sched[p], r)
  PROVE  /\ \A q \in Peer : q # p => ~PendingIn(sched[q], r)
         /\ ~InMessage(forward, r) /\ \A q \in Peer : \A st, n : ~Carries(forward[q], r, st, n)
<1>1. <<p, r>> \in Pending /\ Single(Pending, forward)
  BY PendingIsPending DEF ExecInv, PlacesInv
<1>2. \A q \in Peer : q # p => <<q, r>> \notin Pending
  BY <1>1 DEF Single
<1>3. \A q \in Peer : q # p => ~PendingIn(sched[q], r)
  BY <1>2, PendingIsPending
<1>4. ~InMessage(forward, r)
  BY <1>1 DEF Single
<1>5. \A q \in Peer : \A st, n : ~Carries(forward[q], r, st, n)
  BY <1>4 DEF InMessage, Ids, Carries
<1> QED BY <1>3, <1>4, <1>5

LEMMA AdmitsTransitive ==
  ASSUME NEW k, NEW B \in Nat, NEW s, Good(k, B, s), NEW t, NEW u, NEW v, NEW r \in Request,
         Admits(s, t, r), Unreadied(t, {}, u), Admits(u, v, r)
  PROVE  Admits(s, v, r)
<1>1. s \in Sched(k) /\ s.wait \in Seq(Entry(k))
  BY SchedTypes DEF Good
<1>2. \A st, n : Has(s.wait, r, st, n) => n # Absent
  <2>1. \A i \in DOMAIN s.wait : s.wait[i].total \in Nat
    BY <1>1, ListFacts DEF Entry, ReqRec
  <2> QED BY <2>1 DEF Has, Absent
<1>3. /\ t.pool.context[r] # s.pool.context[r] =>
           s.pool.context[r] = Absent /\ HasLength(s.wait, r, t.pool.context[r])
      /\ \A st, n : Has(t.wait, r, st, n) => Has(s.wait, r, st, n)
      /\ \A st, n : HasReady(t.running, r, st, n) =>
           HasReady(s.running, r, st, n) \/ (Has(s.wait, r, st, n) /\ t.pool.context[r] = n)
  BY DEF Admits
<1>4. /\ u.wait = t.wait /\ u.pool = t.pool
      /\ \A st, n : HasReady(u.running, r, st, n) => HasReady(t.running, r, st, n)
  BY DEF Unreadied, OnlyReady
<1>5. /\ v.pool.context[r] # u.pool.context[r] =>
           u.pool.context[r] = Absent /\ HasLength(u.wait, r, v.pool.context[r])
      /\ \A st, n : Has(v.wait, r, st, n) => Has(u.wait, r, st, n)
      /\ \A st, n : HasReady(v.running, r, st, n) =>
           HasReady(u.running, r, st, n) \/ (Has(u.wait, r, st, n) /\ v.pool.context[r] = n)
  BY DEF Admits
<1>6. t.pool.context[r] # Absent => v.pool.context[r] = t.pool.context[r]
  BY <1>4, <1>5
<1>7. \A n : HasLength(s.wait, r, n) => n # Absent
  BY <1>2 DEF HasLength
<1>8. \A n : HasLength(u.wait, r, n) => HasLength(s.wait, r, n)
  BY <1>3, <1>4 DEF HasLength
<1>9. v.pool.context[r] # s.pool.context[r] =>
        s.pool.context[r] = Absent /\ HasLength(s.wait, r, v.pool.context[r])
  BY <1>3, <1>4, <1>5, <1>6, <1>7, <1>8
<1>10. \A st, n : Has(v.wait, r, st, n) => Has(s.wait, r, st, n)
  BY <1>3, <1>4, <1>5
<1>11. ASSUME NEW st, NEW n, HasReady(v.running, r, st, n)
       PROVE  HasReady(s.running, r, st, n) \/ (Has(s.wait, r, st, n) /\ v.pool.context[r] = n)
  <2>1. CASE HasReady(u.running, r, st, n)
    BY <1>2, <1>3, <1>4, <1>6, <2>1
  <2>2. CASE Has(u.wait, r, st, n) /\ v.pool.context[r] = n
    BY <1>3, <1>4, <2>2
  <2> QED BY <1>5, <1>11, <2>1, <2>2
<1> QED BY <1>9, <1>10, <1>11 DEF Admits

LEMMA ScheduledTasks ==
  ASSUME NeedsBlocks, ExecInv, NEW p \in Peer, NEW rids, NEW r \in Request
  PROVE  Admits(sched[p], Scheduled(p, rids), r)
<1>1. PICK B \in Nat : B = PeerBlocks[p]
  BY BlocksType
<1>2. PICK k : k = K(p)
  OBVIOUS
<1>3. Good(k, B, sched[p])
  BY <1>1, <1>2 DEF ExecInv, PeersInv
<1>4. PICK s1 : s1 = admit_requests(sched[p])
  OBVIOUS
<1>5. Good(k, B, s1) /\ Admits(sched[p], s1, r) /\ s1 \in Sched(k)
  <2>1. Good(k, B, s1)
    BY <1>3, <1>4, AdmitGood
  <2> QED BY <1>3, <1>4, <2>1, AdmitTasks DEF Good
<1>6. PICK s2 : s2 = get_timed_out_requests(s1, rids)
  OBVIOUS
<1>7. Good(k, B, s2) /\ Unreadied(s1, {}, s2)
  BY <1>5, <1>6, TimeoutGood, TimeoutTasks
<1>8. PICK s3 : s3 = admit_requests(s2)
  OBVIOUS
<1>9. Admits(s2, s3, r)
  BY <1>7, <1>8, AdmitTasks
<1>10. Admits(sched[p], s3, r)
  BY <1>3, <1>5, <1>7, <1>9, AdmitsTransitive
<1> QED BY <1>4, <1>6, <1>8, <1>10 DEF Scheduled

-----------------------------------------------------------------------------
LEMMA LosesQuiet ==
  ASSUME NEW s, NEW t, NEW C, Loses(s, t, C), NEW r \in Request
  PROVE  /\ FewerTasks(s, t, r) /\ t.pool.context[r] \in {s.pool.context[r], Absent}
         /\ r \notin C => Quiet(s, t, r)
<1>1. FewerTasks(s, t, r)
  BY DEF Loses, OnlyReady, FewerTasks
<1> QED BY <1>1 DEF Loses, Quiet

LEMMA ReleaseDrops ==
  ASSUME NEW k, NEW B \in Nat, NEW s, Good(k, B, s), NEW r \in Request
  PROVE  Drops(s, Release(s, r), {r})
<1>1. PICK t : t = Release(s, r)
  OBVIOUS
<1>2. PICK c : c = [s.pool.context EXCEPT ![r] = Absent]
  OBVIOUS
<1>3. s \in Sched(k) /\ s.pool.context \in [Request -> Nat \cup {Absent}]
  BY SchedTypes DEF Good, Pool
<1>4. PICK pool : pool = free_request(s.pool, r)
  OBVIOUS
<1>5. t = [s EXCEPT !.pool = pool]
  BY <1>1, <1>4 DEF Release
<1>6. t.wait = s.wait /\ t.running = s.running /\ t.pool = pool
  BY <1>3, <1>5 DEF Sched
<1>7. pool.context = c
  BY <1>2, <1>4 DEF free_request
<1>8. OnlyReady(s.running, {}, t.running) /\ t.pool.context = c
  BY <1>6, <1>7 DEF OnlyReady
<1>9. Drops(s, t, {r})
  BY <1>2, <1>3, <1>6, <1>8, LosesOne, Zenon
<1> QED BY <1>1, <1>9

LEMMA FreeOneDrops ==
  ASSUME NEW k, NEW B \in Nat, NEW s, Good(k, B, s), NEW r \in Request
  PROVE  Drops(s, ReleaseAndEvict(s, r), {r})
<1>1. PICK t : t = ReleaseAndEvict(s, r)
  OBVIOUS
<1>2. CASE r \in Ids(s.running)
  <2>1. t = evict_request(Release(s, r), r)
    BY <1>1, <1>2 DEF ReleaseAndEvict
  <2>2. Drops(s, t, {r})
    BY <2>1, ReleaseEvict
  <2> QED BY <1>1, <2>2
<1>3. CASE r \notin Ids(s.running)
  <2>1. t = Release(s, r)
    BY <1>1, <1>3 DEF ReleaseAndEvict
  <2> QED BY <1>1, <2>1, ReleaseDrops
<1> QED BY <1>2, <1>3

LEMMA SoFarFacts ==
  ASSUME NEW X, NEW reqs \in Seq(X)
  PROVE  /\ SoFar(reqs, 0) = {} /\ SoFar(reqs, Len(reqs)) = Ids(reqs)
         /\ \A i \in 1..Len(reqs) : SoFar(reqs, i) = SoFar(reqs, i - 1) \cup {reqs[i].rid}
<1>1. PICK n \in Nat : n = Len(reqs) /\ DOMAIN reqs = 1..n
  BY ListFacts
<1>2. SoFar(reqs, 0) = {}
  BY DEF SoFar
<1>3. SoFar(reqs, n) = Ids(reqs)
  BY <1>1 DEF SoFar, Ids
<1>4. ASSUME NEW i \in 1..n
      PROVE  SoFar(reqs, i) = SoFar(reqs, i - 1) \cup {reqs[i].rid}
  <2>1. \A j : j \in 1..i <=> j \in 1..(i - 1) \/ j = i
    BY <1>1
  <2> QED BY <2>1 DEF SoFar
<1> QED BY <1>1, <1>2, <1>3, <1>4

(* A batch that fails is let go of.                                        *)
LEMMA BatchDropped ==
  ASSUME NEW k, NEW B \in Nat, NEW v \in ViewRec(k), Good(k, B, v.s),
         NEW batch \in Seq(Entry(k)), NEW w, w = ReleaseBatch(v, batch)
  PROVE  Drops(v.s, w.s, Ids(batch)) /\ w.finished = v.finished /\ w.dead = v.dead
<1>1. PICK n \in Nat : n = Len(batch) /\ \A i \in 1..n : batch[i] \in Entry(k)
  BY ListFacts
<1> DEFINE A == [i \in 0..n |->
                   {t \in Sched(k) : Good(k, B, t) /\ Drops(v.s, t, SoFar(batch, i))}]
<1>2. v.s \in A[0]
  <2>1. SoFar(batch, 0) = {}
    BY SoFarFacts
  <2>2. Drops(v.s, v.s, SoFar(batch, 0))
    BY <2>1, LosesSelf
  <2> QED BY <1>1, <2>2, ViewTypes
<1>3. ASSUME NEW i \in 1..n, NEW t \in A[i - 1]
      PROVE  FreeEach(0, t, batch[i]) \in A[i]
  <2>1. i - 1 \in 0..n /\ i \in 0..n
    BY <1>1
  <2>2. PICK C : C = SoFar(batch, i - 1)
    OBVIOUS
  <2>3. Good(k, B, t) /\ Drops(v.s, t, C)
    BY <2>1, <2>2
  <2>4. PICK r \in Request : r = batch[i].rid
    BY <1>1 DEF Entry, ReqRec
  <2>5. PICK u : u = ReleaseAndEvict(t, r)
    OBVIOUS
  <2>6. Good(k, B, u) /\ Drops(t, u, {r}) /\ u \in Sched(k)
    BY <2>3, <2>5, FreeOne, FreeOneDrops DEF Good
  <2>7. \A q \in C : q \in Request
    <3>1. \A j \in 1..(i - 1) : j \in 1..n
      BY <1>1
    <3> QED BY <1>1, <2>2, <3>1 DEF SoFar, Entry, ReqRec
  <2>8. Drops(v.s, u, C \cup {r})
    BY <2>3, <2>6, <2>7, DropsTransitive
  <2>9. SoFar(batch, i) = C \cup {r}
    BY <1>1, <2>2, <2>4, SoFarFacts
  <2> QED BY <2>1, <2>4, <2>5, <2>6, <2>8, <2>9 DEF FreeEach
<1>4. PICK t : t = FreeFold!Fold(0, v.s, batch)
  OBVIOUS
<1>5. t \in A[n]
  <2> HIDE DEF A
  <2> QED BY <1>1, <1>2, <1>3, <1>4, LeastElement, FreeFold!FoldLeftAlong
             DEF FreeFold!WellOrdered
<1>6. t = FoldLeft(LAMBDA s, q : ReleaseAndEvict(s, q.rid), v.s, batch)
  BY <1>4, Zenon DEF FreeFold!Fold, FreeEach, FoldLeft, MapThenFoldSet,
               FreeFold!MapThenFoldSet, Max, FreeFold!Max
<1>7. n \in 0..n /\ SoFar(batch, n) = Ids(batch)
  BY <1>1, SoFarFacts
<1>8. t \in Sched(k) /\ Drops(v.s, t, Ids(batch))
  BY <1>5, <1>7
<1>9. w = [v EXCEPT !.s = t]
  BY <1>6 DEF ReleaseBatch
<1>10. w.s = t /\ w.finished = v.finished /\ w.dead = v.dead
  BY <1>9 DEF ViewRec
<1> QED BY <1>8, <1>10

-----------------------------------------------------------------------------
Injective(rids) == \A i, j \in DOMAIN rids : rids[i] = rids[j] => i = j

\* The first i of a list of request ids.
FirstOf(rids, i) == {rids[j] : j \in 1..i}

LEMMA FirstOfFacts ==
  ASSUME NEW X, NEW rids \in Seq(X)
  PROVE  /\ FirstOf(rids, 0) = {} /\ FirstOf(rids, Len(rids)) = Range(rids)
         /\ \A i \in 1..Len(rids) : /\ FirstOf(rids, i) = FirstOf(rids, i - 1) \cup {rids[i]}
                                    /\ Injective(rids) => rids[i] \notin FirstOf(rids, i - 1)
<1>1. PICK n \in Nat : n = Len(rids) /\ DOMAIN rids = 1..n
  BY ListFacts
<1>2. FirstOf(rids, 0) = {}
  BY DEF FirstOf
<1>3. FirstOf(rids, n) = Range(rids)
  BY <1>1 DEF FirstOf, Range
<1>4. ASSUME NEW i \in 1..n
      PROVE  /\ FirstOf(rids, i) = FirstOf(rids, i - 1) \cup {rids[i]}
             /\ Injective(rids) => rids[i] \notin FirstOf(rids, i - 1)
  <2>1. \A j : j \in 1..i <=> j \in 1..(i - 1) \/ j = i
    BY <1>1
  <2>2. \A j \in 1..(i - 1) : j \in 1..n /\ j # i
    BY <1>1
  <2>3. FirstOf(rids, i) = FirstOf(rids, i - 1) \cup {rids[i]}
    BY <2>1 DEF FirstOf
  <2> QED BY <1>1, <2>2, <2>3 DEF FirstOf, Injective
<1> QED BY <1>1, <1>2, <1>3, <1>4


LEMMA AbortLoses ==
  ASSUME NEW k, NEW B \in Nat, NEW v \in ViewRec(k), Good(k, B, v.s), NEW p, NEW r \in Request,
         NEW y, y = HandleAbort(p, v, r)
  PROVE  Loses(v.s, y.s, {r}) /\ (y.dead => v.dead \/ r \notin Ids(v.s.running))
<1>1. PICK s : s = Release(v.s, r)
  OBVIOUS
<1>2. PICK w : w = [v EXCEPT !.s = s]
  OBVIOUS
<1>3. CASE v.dead
  <2>1. y = v
    BY <1>3 DEF HandleAbort
  <2>2. Loses(v.s, y.s, {})
    BY <2>1, LosesSelf DEF Drops
  <2> QED BY <1>3, <2>2 DEF Loses
<1>4. CASE ~v.dead /\ r \notin Ids(v.s.running)
  <2>1. y = [w EXCEPT !.dead = TRUE]
    BY <1>1, <1>2, <1>4 DEF HandleAbort
  <2>2. y.s = s
    BY <1>2, <2>1 DEF ViewRec
  <2>3. Drops(v.s, s, {r})
    BY <1>1, ReleaseDrops
  <2> QED BY <1>4, <2>2, <2>3 DEF Drops
<1>5. CASE ~v.dead /\ r \in Ids(v.s.running)
  <2>1. PICK t : t = evict_request(s, r)
    OBVIOUS
  <2>2. Drops(v.s, t, {r})
    BY <1>1, <2>1, ReleaseEvict
  <2>3. PICK fin : fin = IF p # LastPeer THEN Append(v.finished, r) ELSE v.finished
    OBVIOUS
  <2>4. w.s = s /\ w.finished = v.finished
    BY <1>2 DEF ViewRec
  <2>5. y = [w EXCEPT !.s = evict_request(w.s, r),
                      !.finished = IF p # LastPeer THEN Append(w.finished, r) ELSE w.finished]
    BY <1>1, <1>2, <1>5 DEF HandleAbort
  <2>6. y = [w EXCEPT !.s = t, !.finished = fin]
    BY <2>1, <2>3, <2>4, <2>5
  <2>7. y.s = t /\ y.dead = v.dead
    BY <1>2, <2>6 DEF ViewRec
  <2> QED BY <1>5, <2>2, <2>7 DEF Drops
<1> QED BY <1>3, <1>4, <1>5

\* No request of rids raises an exception when it is aborted.
Abortable(v, rids) ==
  /\ Injective(rids) /\ ~v.dead
  /\ \A r \in Range(rids) : v.s.pool.context[r] # Absent

LEMMA AbortsLose ==
  ASSUME NEW k, NEW B \in Nat, NEW v \in ViewRec(k), Good(k, B, v.s), NEW p,
         NEW rids \in Seq(Request), NEW y, y = Aborted(p, v, rids)
  PROVE  Loses(v.s, y.s, Range(rids)) /\ (Abortable(v, rids) => ~y.dead)
<1>1. PICK n \in Nat : n = Len(rids) /\ \A i \in 1..n : rids[i] \in Request
  BY ListFacts
<1> DEFINE A == [i \in 0..n |->
                   {w \in ViewRec(k) : /\ Good(k, B, w.s) /\ Loses(v.s, w.s, FirstOf(rids, i))
                                       /\ Abortable(v, rids) => ~w.dead}]
<1>2. v \in A[0]
  <2>1. FirstOf(rids, 0) = {}
    BY FirstOfFacts
  <2>2. Loses(v.s, v.s, FirstOf(rids, 0))
    BY <2>1, LosesSelf DEF Drops
  <2> QED BY <1>1, <2>2 DEF Abortable
<1>3. ASSUME NEW i \in 1..n, NEW w \in A[i - 1]
      PROVE  AbortEach(p, w, rids[i]) \in A[i]
  <2>1. i - 1 \in 0..n /\ i \in 0..n
    BY <1>1
  <2>2. PICK C : C = FirstOf(rids, i - 1)
    OBVIOUS
  <2>3. /\ w \in ViewRec(k) /\ Good(k, B, w.s) /\ Loses(v.s, w.s, C)
        /\ Abortable(v, rids) => ~w.dead
    BY <2>1, <2>2
  <2>4. PICK r \in Request : r = rids[i]
    BY <1>1
  <2>5. PICK u : u = HandleAbort(p, w, r)
    OBVIOUS
  <2>6. LetGo(k, B, w, u) /\ Loses(w.s, u.s, {r}) /\ (u.dead => w.dead \/ r \notin Ids(w.s.running))
    BY <2>3, <2>5, AbortHandled, AbortLoses
  <2>7. Loses(v.s, u.s, C \cup {r})
    BY <2>3, <2>6, LosesTransitive
  <2>8. FirstOf(rids, i) = C \cup {r} /\ (Injective(rids) => r \notin C)
    BY <1>1, <2>2, <2>4, FirstOfFacts
  <2>9. Abortable(v, rids) => ~u.dead
    <3>1. SUFFICES ASSUME Abortable(v, rids)
                   PROVE  r \in Ids(w.s.running)
      BY <2>3, <2>6
    <3>2. r \in Range(rids) /\ r \notin C
      <4>1. i \in DOMAIN rids
        BY <1>1, ListFacts
      <4> QED BY <2>4, <2>8, <3>1, <4>1 DEF Range, Abortable
    <3>3. w.s.pool.context[r] = v.s.pool.context[r]
      BY <2>3, <3>2 DEF Loses
    <3>4. w.s.pool.context[r] # Absent
      BY <3>1, <3>2, <3>3 DEF Abortable
    <3> QED BY <2>3, <3>4 DEF Good
  <2>10. u \in ViewRec(k) /\ Good(k, B, u.s)
    BY <2>6 DEF LetGo
  <2> QED BY <2>1, <2>4, <2>5, <2>7, <2>8, <2>9, <2>10 DEF AbortEach
<1>4. PICK w : w = AbortFold!Fold(p, v, rids)
  OBVIOUS
<1>5. w \in A[n]
  <2> HIDE DEF A
  <2> QED BY <1>1, <1>2, <1>3, <1>4, LeastElement, AbortFold!FoldLeftAlong
             DEF AbortFold!WellOrdered
<1>6. w = Aborted(p, v, rids)
  BY <1>4, Zenon DEF Aborted, AbortFold!Fold, AbortEach, FoldLeft, MapThenFoldSet,
               AbortFold!MapThenFoldSet, Max, AbortFold!Max
<1>7. n \in 0..n /\ FirstOf(rids, n) = Range(rids)
  BY <1>1, FirstOfFacts
<1> QED BY <1>5, <1>6, <1>7

-----------------------------------------------------------------------------
(* What a token does to the steps, the contexts and the finished list.     *)

\* Only decode steps of requests C become ready.
MoreReady(reqs, C, new) ==
  \A r, st, n : HasReady(new, r, st, n) => HasReady(reqs, r, st, n) \/ (r \in C /\ st = "decode")

\* The requests that a peer has finished are not running there.
Closed(v) == Injective(v.finished) /\ \A r \in Range(v.finished) : r \notin Ids(v.s.running)

Finishes(v, w, C) ==
  /\ \A r \in Range(w.finished) : r \in Range(v.finished) \/ (r \in C /\ r \in Ids(v.s.running))
  /\ Closed(v) => Closed(w)
  /\ FirstPeer = LastPeer => w.finished = v.finished

Advances(s, t, C) ==
  /\ MoreReady(s.running, C, t.running)
  /\ \A r \in Request : /\ t.pool.context[r] # Absent => t.pool.context[r] = s.pool.context[r]
                        /\ r \notin C => t.pool.context[r] = s.pool.context[r]

Answers(v, w, C) == w.dead = v.dead /\ Advances(v.s, w.s, C) /\ Finishes(v, w, C)

LEMMA AnswersSelf ==
  ASSUME NEW v, NEW C
  PROVE  Answers(v, v, C)
  BY DEF Answers, Advances, Finishes, MoreReady

LEMMA AnswersMore ==
  ASSUME NEW v, NEW w, NEW C, NEW D, Answers(v, w, C), \A r \in C : r \in D
  PROVE  Answers(v, w, D)
<1>1. MoreReady(v.s.running, D, w.s.running)
  BY DEF Answers, Advances, MoreReady
<1>2. Advances(v.s, w.s, D)
  BY <1>1 DEF Answers, Advances
<1>3. Finishes(v, w, D)
  BY DEF Answers, Finishes
<1> QED BY <1>2, <1>3 DEF Answers

LEMMA AnswersTransitive ==
  ASSUME NEW u, NEW v, NEW w, NEW C, Answers(u, v, C), Answers(v, w, C),
         \A r \in Ids(v.s.running) : r \in Ids(u.s.running)
  PROVE  Answers(u, w, C)
<1>1. MoreReady(u.s.running, C, w.s.running)
  BY DEF Answers, Advances, MoreReady
<1>2. Advances(u.s, w.s, C)
  BY <1>1 DEF Answers, Advances
<1>3. Finishes(u, w, C)
  BY DEF Answers, Finishes
<1> QED BY <1>2, <1>3 DEF Answers

LEMMA InRange ==
  ASSUME NEW X, NEW f \in Seq(X), NEW x \in X
  PROVE  /\ \A y \in Range(Append(f, x)) : y \in Range(f) \/ y = x
         /\ Injective(f) /\ x \notin Range(f) => Injective(Append(f, x))
<1>1. PICK n \in Nat : n = Len(f) /\ DOMAIN f = 1..n
  BY ListFacts
<1>2. PICK g : g = Append(f, x)
  OBVIOUS
<1>3. /\ g \in Seq(X) /\ Len(g) = n + 1 /\ g[n + 1] = x
      /\ \A i \in 1..n : g[i] = f[i]
  BY <1>1, <1>2, AppendProperties
<1>4. DOMAIN g = 1..(n + 1)
  BY <1>3, LenProperties
<1>5. \A i \in 1..(n + 1) : i \in 1..n \/ i = n + 1
  BY <1>1
<1>6. \A y \in Range(g) : y \in Range(f) \/ y = x
  BY <1>1, <1>3, <1>4, <1>5 DEF Range
<1>7. ASSUME Injective(f), x \notin Range(f)
      PROVE  Injective(g)
  <2>1. \A i \in 1..n : f[i] # x
    BY <1>1, <1>7 DEF Range
  <2>2. \A i, j \in 1..n : f[i] = f[j] => i = j
    BY <1>1, <1>7 DEF Injective
  <2>3. ASSUME NEW i \in 1..(n + 1), NEW j \in 1..(n + 1), g[i] = g[j]
        PROVE  i = j
    BY <1>3, <1>5, <2>1, <2>2, <2>3
  <2> QED BY <1>4, <2>3 DEF Injective
<1> QED BY <1>2, <1>6, <1>7

(* A request that is done leaves the running ones, and the list grows.     *)
LEMMA DoneFinishes ==
  ASSUME NEW v, v.finished \in Seq(Request), NEW r \in Request, r \in Ids(v.s.running),
         NEW w, w.finished = IF FirstPeer # LastPeer THEN Append(v.finished, r) ELSE v.finished,
         r \notin Ids(w.s.running), \A q \in Ids(w.s.running) : q \in Ids(v.s.running)
  PROVE  Finishes(v, w, {r})
<1>1. CASE FirstPeer = LastPeer
  <2>1. w.finished = v.finished
    BY <1>1
  <2> QED BY <2>1 DEF Finishes, Closed
<1>2. CASE FirstPeer # LastPeer
  <2>1. PICK f \in Seq(Request) : f = v.finished
    OBVIOUS
  <2>2. PICK g : g = Append(f, r)
    OBVIOUS
  <2>3. w.finished = g
    BY <1>2, <2>1, <2>2
  <2>4. /\ \A y \in Range(g) : y \in Range(f) \/ y = r
        /\ Injective(f) /\ r \notin Range(f) => Injective(g)
    BY <2>2, InRange
  <2>5. Closed(v) => Closed(w)
    BY <2>1, <2>3, <2>4 DEF Closed
  <2> QED BY <1>2, <2>1, <2>3, <2>4, <2>5 DEF Finishes
<1> QED BY <1>1, <1>2

LEMMA TokenAnswers ==
  ASSUME NeedsBlocks, NEW k, NEW B \in Nat, NEW v \in ViewRec(k), Good(k, B, v.s),
         NEW r \in Request, NEW eos, NEW w, w = HandleToken(v, r, eos)
  PROVE  Answers(v, w, {r})
<1>1. CASE r \notin Ids(v.s.running) \/ ~has_request(v.s.pool, r)
  <2>1. w = v
    BY <1>1 DEF HandleToken
  <2> QED BY <2>1, AnswersSelf
<1>2. CASE r \in Ids(v.s.running) /\ has_request(v.s.pool, r)
  <2>1. v.s \in Sched(k) /\ v.finished \in Seq(Request)
    BY ViewTypes
  <2>2. PICK q \in Entry(k) : q = CommitNewToken(get_running_request(v.s, r)) /\ q.rid = r
                             /\ q.status = "decode"
    BY <1>2, <2>1, RunningFacts, CommitFacts
  <2>3. PICK s : s = IF is_done(q, eos) THEN Release(evict_request(v.s, r), r)
                     ELSE enque_request(v.s, q)
    OBVIOUS
  <2>4. PICK fin : fin = IF is_done(q, eos) /\ FirstPeer # LastPeer THEN Append(v.finished, r)
                         ELSE v.finished
    OBVIOUS
  <2>5. PICK u : u = Changed(v, s, fin)
    OBVIOUS
  <2>6. w = HandleHttpToken(u, r, eos, eos \/ q.out >= q.max_new)
    BY <1>2, <2>2, <2>3, <2>4, <2>5 DEF HandleToken, Changed
  <2>7. fin \in Seq(Request)
    BY <2>1, <2>4, AppendProperties
  <2>8. s \in Sched(k) /\ \A x \in Ids(s.running) : x \in Ids(v.s.running)
    <3>1. CASE is_done(q, eos)
      <4>1. s = Release(evict_request(v.s, r), r)
        BY <2>3, <3>1
      <4>2. Good(k, B, s) /\ Keeps(v.s, s, {})
        BY <4>1, ReleaseEvict
      <4> QED BY <4>2 DEF Good, Keeps
    <3>2. CASE ~is_done(q, eos)
      <4>1. s = enque_request(v.s, q)
        BY <2>3, <3>2
      <4>2. Good(k, B, s) /\ Keeps(v.s, s, {q.rid})
        BY <1>2, <2>2, <4>1, EnqueDecode
      <4> QED BY <4>2 DEF Good, Keeps
    <3> QED BY <3>1, <3>2
  <2>9. IsChanged(k, v, s, fin, u)
    BY <2>5, <2>7, <2>8, ViewChange
  <2>10. IsTold(k, u, r, eos \/ q.out >= q.max_new, w)
    <3>1. u \in ViewRec(k)
      BY <2>9 DEF IsChanged
    <3> QED BY <2>6, <3>1, HttpTokenFacts
  <2>11. w.s = s /\ w.finished = fin /\ w.dead = v.dead
    BY <2>9, <2>10 DEF IsChanged, IsTold
  <2>12. CASE is_done(q, eos)
    <3>1. s = Release(evict_request(v.s, r), r)
      BY <2>3, <2>12
    <3>2. Drops(v.s, s, {r}) /\ r \notin Ids(s.running)
      BY <3>1, ReleaseEvict
    <3>3. Advances(v.s, s, {r})
      BY <3>2 DEF Drops, Loses, Advances, OnlyReady, MoreReady
    <3>4. fin = IF FirstPeer # LastPeer THEN Append(v.finished, r) ELSE v.finished
      BY <2>4, <2>12
    <3>5. Finishes(v, w, {r})
      BY <1>2, <2>1, <2>8, <2>11, <3>2, <3>4, DoneFinishes
    <3> QED BY <2>11, <3>3, <3>5 DEF Answers
  <2>13. CASE ~is_done(q, eos)
    <3>1. s = enque_request(v.s, q) /\ fin = v.finished
      BY <2>3, <2>4, <2>13
    <3>2. \A x : Enqueues(v.s, q, s, x)
      BY <2>1, <3>1, EnqueTasks
    <3>3. MoreReady(v.s.running, {r}, s.running)
      BY <2>2, <3>2 DEF Enqueues, IsTask, MoreReady
    <3>4. s.pool = v.s.pool
      BY <3>2 DEF Enqueues
    <3>5. Advances(v.s, s, {r})
      BY <3>3, <3>4 DEF Advances
    <3>6. Finishes(v, w, {r})
      BY <2>8, <2>11, <3>1 DEF Finishes, Closed
    <3> QED BY <2>11, <3>5, <3>6 DEF Answers
  <2> QED BY <2>12, <2>13
<1> QED BY <1>1, <1>2

LEMMA TokensAnswer ==
  ASSUME NeedsBlocks, NEW k, NEW B \in Nat, NEW v \in ViewRec(k), Good(k, B, v.s),
         NEW X, NEW msg \in Seq(X), \A i \in DOMAIN msg : msg[i].rid \in Request, NEW eos
  PROVE  Answers(v, HandleTokens(v, msg, eos), Ids(msg))
<1>1. PICK C : C = Ids(msg)
  OBVIOUS
<1>2. PICK n \in Nat : n = Len(msg) /\ DOMAIN msg = 1..n
  BY ListFacts
<1> DEFINE S == {w \in ViewRec(k) : Handled(k, B, v, w, C) /\ Answers(v, w, C)}
           A == [i \in 0..n |-> S]
<1>4. v \in A[0]
  <2>1. Handled(k, B, v, v, C)
    BY KeepsSelf DEF Handled
  <2> QED BY <1>2, <2>1, AnswersSelf
<1>5. ASSUME NEW i \in 1..n, NEW w \in A[i - 1]
      PROVE  TokenEach(eos, w, msg[i]) \in A[i]
  <2>1. i - 1 \in 0..n /\ i \in 0..n
    BY <1>2
  <2>2. PICK r \in Request : r = msg[i].rid /\ r \in C
    BY <1>1, <1>2 DEF Ids
  <2>3. PICK e : e = (msg[i].rid \in eos)
    OBVIOUS
  <2>4. PICK y : y = HandleToken(w, r, e)
    OBVIOUS
  <2>5. w \in ViewRec(k) /\ Good(k, B, w.s) /\ Handled(k, B, v, w, C) /\ Answers(v, w, C)
    BY <2>1 DEF Handled
  <2>6. Handled(k, B, w, y, {r}) /\ Answers(w, y, {r})
    BY <2>4, <2>5, TokenHandled, TokenAnswers
  <2>7. Handled(k, B, w, y, C) /\ Answers(w, y, C)
    BY <2>2, <2>6, HandledMore, AnswersMore
  <2>8. \A x \in Ids(w.s.running) : x \in Ids(v.s.running)
    BY <2>5 DEF Handled, Keeps
  <2>9. Handled(k, B, v, y, C) /\ Answers(v, y, C)
    BY <2>5, <2>7, <2>8, HandledTransitive, AnswersTransitive
  <2>10. y \in ViewRec(k)
    BY <2>9 DEF Handled
  <2>11. y = TokenEach(eos, w, msg[i])
    BY <2>2, <2>3, <2>4, Zenon DEF TokenEach
  <2> QED BY <2>1, <2>9, <2>10, <2>11
<1>6. PICK y : y = TokenFold!Fold(eos, v, msg)
  OBVIOUS
<1>7. y \in A[n]
  <2> HIDE DEF A, S
  <2> QED BY <1>2, <1>4, <1>5, <1>6, LeastElement, TokenFold!FoldLeftAlong
             DEF TokenFold!WellOrdered
<1>8. y = HandleTokens(v, msg, eos)
  BY <1>6, Zenon DEF TokenFold!Fold, TokenEach, HandleTokens, FoldLeft, MapThenFoldSet,
               TokenFold!MapThenFoldSet, Max, TokenFold!Max
<1>9. n \in 0..n
  BY <1>2
<1> QED BY <1>1, <1>7, <1>8, <1>9

-----------------------------------------------------------------------------
(* What a message of another peer does to the steps of request r.          *)

IsStep(m, r, st, n) == m.rid = r /\ m.status = st /\ m.pos = n

\* One of the first i steps of a message.
Arrived(msg, i, r, st, n) == \E j \in 1..i : IsStep(msg[j], r, st, n)

Arrives(s, t, msg, i, r) ==
  /\ t.pool = s.pool
  /\ \A st, n : Has(t.wait, r, st, n) =>
       Has(s.wait, r, st, n) \/ (st = "prefill" /\ Arrived(msg, i, r, st, n))
  /\ \A st, n : HasReady(t.running, r, st, n) =>
       HasReady(s.running, r, st, n) \/ (st = "decode" /\ Arrived(msg, i, r, st, n))

\* No step of the message raises an exception.
Welcome(v, msg) ==
  /\ ~v.dead
  /\ \A j \in DOMAIN msg : msg[j].status = "decode" => v.s.pool.context[msg[j].rid] # Absent

LEMMA ArrivesSelf ==
  ASSUME NEW s, NEW msg, NEW r
  PROVE  Arrives(s, s, msg, 0, r)
  BY DEF Arrives

LEMMA ArrivedMore ==
  ASSUME NEW X, NEW msg \in Seq(X), NEW i \in 1..Len(msg), NEW m, m = msg[i], NEW r
  PROVE  /\ \A st, n : Arrived(msg, i - 1, r, st, n) => Arrived(msg, i, r, st, n)
         /\ \A st, n : IsStep(m, r, st, n) => Arrived(msg, i, r, st, n)
<1>1. Len(msg) \in Nat
  BY LenProperties
<1>2. i \in 1..i /\ \A j \in 1..(i - 1) : j \in 1..i
  BY <1>1
<1> QED BY <1>2 DEF Arrived

LEMMA ArrivesNoMore ==
  ASSUME NEW X, NEW msg \in Seq(X), NEW i \in 1..Len(msg), NEW r, NEW s, NEW t,
         Arrives(s, t, msg, i - 1, r)
  PROVE  Arrives(s, t, msg, i, r)
<1>1. PICK m : m = msg[i]
  OBVIOUS
<1>2. \A st, n : Arrived(msg, i - 1, r, st, n) => Arrived(msg, i, r, st, n)
  BY <1>1, ArrivedMore
<1> QED BY <1>2 DEF Arrives

LEMMA ArrivesOneMore ==
  ASSUME NEW msg \in Seq(Msg), NEW i \in 1..Len(msg), NEW r, NEW s, NEW t,
         Arrives(s, t, msg, i - 1, r), NEW q, q = proto_to_request(msg[i]),
         NEW u, Enqueues(t, q, u, r)
  PROVE  Arrives(s, u, msg, i, r)
<1>1. PICK m \in Msg : m = msg[i]
  BY ListFacts
<1>2. /\ \A st, n : Arrived(msg, i - 1, r, st, n) => Arrived(msg, i, r, st, n)
      /\ \A st, n : IsStep(m, r, st, n) => Arrived(msg, i, r, st, n)
  BY <1>1, ArrivedMore
<1>3. q.rid = m.rid /\ q.status = m.status /\ q.total = m.pos
  BY <1>1 DEF proto_to_request
<1>4. \A st, n : IsTask(q, r, st, n) => Arrived(msg, i, r, st, n) /\ st = q.status
  BY <1>2, <1>3 DEF IsTask, IsStep
<1>5. q.status # "decode" => q.status = "prefill"
  BY <1>3 DEF Msg
<1>6. u.pool = s.pool
  BY DEF Arrives, Enqueues
<1>7. ASSUME NEW st, NEW n, Has(u.wait, r, st, n)
      PROVE  Has(s.wait, r, st, n) \/ (st = "prefill" /\ Arrived(msg, i, r, st, n))
  BY <1>2, <1>4, <1>5, <1>7 DEF Arrives, Enqueues
<1>8. ASSUME NEW st, NEW n, HasReady(u.running, r, st, n)
      PROVE  HasReady(s.running, r, st, n) \/ (st = "decode" /\ Arrived(msg, i, r, st, n))
  BY <1>2, <1>4, <1>8 DEF Arrives, Enqueues
<1> QED BY <1>6, <1>7, <1>8 DEF Arrives

LEMMA StageArrives ==
  ASSUME NEW B \in Nat, NEW v, NEW msg \in Seq(Msg), NEW i \in 1..Len(msg), NEW r, NEW w,
         w \in ViewRec("intermediate"), Good("intermediate", B, w.s),
         Arrives(v.s, w.s, msg, i - 1, r), NEW y, y = HandleStage(w, msg[i])
  PROVE  /\ Arrives(v.s, y.s, msg, i, r)
         /\ y.dead => w.dead \/ ~Welcome(v, msg)
<1>1. PICK m \in Msg : m = msg[i] /\ i \in DOMAIN msg
  BY ListFacts
<1>2. PICK q : q = proto_to_request(m)
  OBVIOUS
<1>3. q \in Entry("intermediate") /\ q.rid = m.rid /\ q.status = m.status
  BY <1>2, ProtoFacts
<1>4. CASE w.dead \/ enque_raises(w.s, q)
  <2>1. y = [w EXCEPT !.dead = TRUE]
    BY <1>1, <1>2, <1>4 DEF HandleStage
  <2>2. y.s = w.s
    BY <2>1, DeadView
  <2>3. Arrives(v.s, y.s, msg, i, r)
    BY <2>2, ArrivesNoMore
  <2>4. ASSUME Welcome(v, msg), ~w.dead PROVE FALSE
    <3>1. m.status = "decode" /\ m.rid \notin Ids(w.s.running)
      BY <1>3, <1>4, <2>4 DEF enque_raises
    <3>2. v.s.pool.context[m.rid] # Absent
      BY <1>1, <2>4, <3>1 DEF Welcome
    <3>3. w.s.pool.context[m.rid] # Absent
      BY <3>2 DEF Arrives
    <3>4. m.rid \in Request
      BY DEF Msg
    <3> QED BY <3>1, <3>3, <3>4 DEF Good
  <2> QED BY <2>2, <2>3, <2>4
<1>5. CASE ~(w.dead \/ enque_raises(w.s, q))
  <2>1. PICK t : t = enque_request(w.s, q)
    OBVIOUS
  <2>2. y = [w EXCEPT !.s = t]
    BY <1>1, <1>2, <1>5, <2>1 DEF HandleStage
  <2>3. y.s = t /\ y.dead = w.dead
    BY <2>2 DEF ViewRec
  <2>4. Enqueues(w.s, q, t, r)
    <3>1. w.s \in Sched("intermediate")
      BY DEF Good
    <3> QED BY <1>3, <2>1, <3>1, EnqueTasks
  <2>5. Arrives(v.s, t, msg, i, r)
    BY <1>1, <1>2, <2>4, ArrivesOneMore
  <2> QED BY <2>3, <2>5
<1> QED BY <1>4, <1>5

LEMMA StageFinishes ==
  ASSUME NEW k, NEW w \in ViewRec(k), NEW m
  PROVE  HandleStage(w, m).finished = w.finished
  BY DEF HandleStage, ViewRec

LEMMA StagesArrive ==
  ASSUME NEW B \in Nat, NEW v \in ViewRec("intermediate"), Good("intermediate", B, v.s),
         NEW msg \in Seq(Msg), NEW r, NEW y, y = FoldLeft(HandleStage, v, msg)
  PROVE  /\ Arrives(v.s, y.s, msg, Len(msg), r) /\ y.finished = v.finished
         /\ Welcome(v, msg) => ~y.dead
<1>1. PICK n \in Nat : n = Len(msg)
  BY LenProperties
<1>2. PICK k : k = "intermediate"
  OBVIOUS
<1> DEFINE A == [i \in 0..n |->
                   {w \in ViewRec(k) : /\ Staged(k, B, v, msg, w, i)
                                       /\ Arrives(v.s, w.s, msg, i, r) /\ w.finished = v.finished
                                       /\ Welcome(v, msg) => ~w.dead}]
<1>3. v \in A[0]
  <2>1. Staged(k, B, v, msg, v, 0)
    BY <1>2 DEF Staged
  <2>2. Welcome(v, msg) => ~v.dead
    BY DEF Welcome
  <2> QED BY <1>1, <1>2, <2>1, <2>2, ArrivesSelf
<1>4. ASSUME NEW i \in 1..n, NEW w \in A[i - 1]
      PROVE  StageEach(0, w, msg[i]) \in A[i]
  <2>1. i - 1 \in 0..n /\ i \in 0..n
    BY <1>1
  <2>2. PICK u : u = HandleStage(w, msg[i])
    OBVIOUS
  <2>3. /\ w \in ViewRec(k) /\ Staged(k, B, v, msg, w, i - 1) /\ Arrives(v.s, w.s, msg, i - 1, r)
        /\ w.finished = v.finished /\ (Welcome(v, msg) => ~w.dead)
    BY <2>1
  <2>4. Staged(k, B, v, msg, u, i)
    BY <1>1, <1>2, <2>2, <2>3, StageStep
  <2>5. /\ w \in ViewRec("intermediate") /\ Good("intermediate", B, w.s)
        /\ Arrives(v.s, w.s, msg, i - 1, r) /\ i \in 1..Len(msg)
    BY <1>1, <1>2, <2>3 DEF Staged
  <2>6. Arrives(v.s, u.s, msg, i, r) /\ (u.dead => w.dead \/ ~Welcome(v, msg))
    BY <2>2, <2>5, StageArrives
  <2>11. u.finished = w.finished
    BY <2>2, <2>5, StageFinishes
  <2>7. u \in ViewRec(k)
    BY <2>4 DEF Staged
  <2>8. u.finished = v.finished /\ (Welcome(v, msg) => ~u.dead) /\ Arrives(v.s, u.s, msg, i, r)
    BY <2>3, <2>6, <2>11
  <2>9. u \in A[i]
    BY <2>1, <2>4, <2>7, <2>8
  <2>10. u = StageEach(0, w, msg[i])
    BY <2>2 DEF StageEach
  <2> HIDE DEF A
  <2> QED BY <2>9, <2>10
<1>5. PICK w : w = StageFold!Fold(0, v, msg)
  OBVIOUS
<1>6. w \in A[n]
  <2> HIDE DEF A
  <2> QED BY <1>1, <1>3, <1>4, <1>5, LeastElement, StageFold!FoldLeftAlong
             DEF StageFold!WellOrdered
<1>7. w = y
  BY <1>5, Zenon DEF StageFold!Fold, StageEach, FoldLeft, MapThenFoldSet,
               StageFold!MapThenFoldSet, Max, StageFold!Max
<1>8. n \in 0..n
  BY <1>1
<1> QED BY <1>1, <1>6, <1>7, <1>8
-----------------------------------------------------------------------------
\* g is what becomes of the memory when decodes C have been given a token each.
Grown(pool, g, C) ==
  \A r \in Request : /\ r \notin C => g.pool.context[r] = pool.context[r]
                     /\ r \in C /\ g.ok => g.pool.context[r] = pool.context[r] + 1

LEMMA SlotAppended ==
  ASSUME NeedsBlocks, NEW pool \in Pool, NEW r \in Request, NEW new, new = append_slot(pool, r)
  PROVE  /\ \A q \in Request : q # r => new.context[q] = pool.context[q]
         /\ append_ok(pool, r) => new.context[r] = pool.context[r] + 1
<1>1. PICK c \in [Request -> Nat \cup {Absent}] : c = pool.context
  BY DEF Pool
<1>2. CASE append_ok(pool, r)
  <2>1. new.context = [c EXCEPT ![r] = c[r] + 1]
    BY <1>1, <1>2 DEF append_slot
  <2>2. PICK d : d = new.context
    OBVIOUS
  <2>3. d[r] = c[r] + 1 /\ \A q \in Request : q # r => d[q] = c[q]
    BY <2>1, <2>2
  <2> QED BY <1>1, <2>2, <2>3
<1>3. CASE ~append_ok(pool, r)
  <2>1. new = pool
    BY <1>3 DEF append_slot
  <2> QED BY <1>3, <2>1
<1> QED BY <1>2, <1>3

LEMMA DecodesGrown ==
  ASSUME NeedsBlocks, NEW k, NEW B \in Nat, NEW pool \in Pool, Backed(pool, B),
         NEW batch \in Seq(Entry(k)), Distinct(batch), NEW g, g = Grow(pool, batch)
  PROVE  Grown(pool, g, Ids(Decodes(batch)))
<1>1. PICK reqs \in Seq(Entry(k)) : reqs = Decodes(batch) /\ Distinct(reqs)
  BY PartsFacts
<1>2. PICK n \in Nat : n = Len(reqs) /\ DOMAIN reqs = 1..n /\ \A i \in 1..n : reqs[i] \in Entry(k)
  BY <1>1, ListFacts
<1> DEFINE G == [ok : BOOLEAN, pool : Pool]
           A == [i \in 0..n |->
                   {f \in G : Backed(f.pool, B) /\ Grown(pool, f, SoFar(reqs, i))}]
<1>3. PICK base : base = [ok |-> TRUE, pool |-> pool]
  OBVIOUS
<1>4. base \in A[0]
  <2>1. SoFar(reqs, 0) = {}
    BY <1>1, SoFarFacts
  <2>2. Grown(pool, base, SoFar(reqs, 0))
    BY <1>3, <2>1 DEF Grown
  <2>3. base \in G /\ base.pool = pool
    BY <1>3
  <2>4. 0 \in 0..n
    BY <1>2
  <2> HIDE DEF G
  <2> QED BY <2>2, <2>3, <2>4
<1>5. ASSUME NEW i \in 1..n, NEW f \in A[i - 1]
      PROVE  GrowEach(0, f, reqs[i]) \in A[i]
  <2>1. i - 1 \in 0..n /\ i \in 0..n
    BY <1>2
  <2>2. PICK C : C = SoFar(reqs, i - 1)
    OBVIOUS
  <2>3. f \in G /\ Backed(f.pool, B) /\ Grown(pool, f, C)
    BY <2>1, <2>2
  <2>4. PICK r \in Request : r = reqs[i].rid
    BY <1>2 DEF Entry, ReqRec
  <2>5. PICK new : new = append_slot(f.pool, r)
    OBVIOUS
  <2>6. new \in Pool /\ Backed(new, B)
    BY <2>3, <2>5, AppendBacked
  <2>7. /\ \A q \in Request : q # r => new.context[q] = f.pool.context[q]
        /\ append_ok(f.pool, r) => new.context[r] = f.pool.context[r] + 1
    BY <2>3, <2>5, SlotAppended
  <2>8. r \notin C
    <3>1. \A j \in 1..(i - 1) : j \in 1..n /\ j # i
      BY <1>2
    <3> QED BY <1>1, <1>2, <2>2, <2>4, <3>1 DEF SoFar, Distinct
  <2>9. PICK ok : ok = (f.ok /\ append_ok(f.pool, r))
    OBVIOUS
  <2>10. PICK h : h = [ok |-> ok, pool |-> new]
    OBVIOUS
  <2>11. h = GrowEach(0, f, reqs[i])
    BY <2>4, <2>5, <2>9, <2>10, Zenon DEF GrowEach
  <2>12. h.ok <=> f.ok /\ append_ok(f.pool, r)
    BY <2>9, <2>10, Zenon
  <2>13. h.pool = new /\ h \in G
    <3>1. ok \in BOOLEAN
      BY <2>9, Zenon
    <3> QED BY <2>6, <2>10, <3>1
  <2>14. Grown(pool, h, C \cup {r})
    BY <2>3, <2>7, <2>8, <2>12, <2>13 DEF Grown
  <2>15. SoFar(reqs, i) = C \cup {r}
    BY <1>1, <1>2, <2>2, <2>4, SoFarFacts
  <2> QED BY <2>1, <2>6, <2>11, <2>13, <2>14, <2>15
<1>6. PICK f : f = GrowFold!Fold(0, base, reqs)
  OBVIOUS
<1>7. f \in A[n]
  <2> HIDE DEF A
  <2> QED BY <1>1, <1>2, <1>4, <1>5, <1>6, LeastElement, GrowFold!FoldLeftAlong
             DEF GrowFold!WellOrdered
<1>8. f = g
  BY <1>1, <1>3, <1>6, Zenon DEF GrowFold!Fold, Grow, GrowEach, FoldLeft, MapThenFoldSet,
                                 GrowFold!MapThenFoldSet, Max, GrowFold!Max
<1>9. n \in 0..n /\ SoFar(reqs, n) = Ids(reqs)
  BY <1>1, <1>2, SoFarFacts
<1> QED BY <1>1, <1>7, <1>8, <1>9

-----------------------------------------------------------------------------
(* What an iteration puts on the wire.                                     *)

\* A step of the list L as peer p sends it.
Sent(p, L, r, st, n) ==
  \E a \in DOMAIN L : L[a].rid = r /\ st = Label(p, L[a].status) /\ n = L[a].total

LEMMA SendTasks ==
  ASSUME NEW k, NEW ff, Messages(ff), NEW p \in Peer, NEW L \in Seq(Entry(k)), Distinct(L),
         NEW gg, gg = Send(ff, p, L), NEW q \in Peer, NEW r, NEW st, NEW n,
         Carries(gg[q], r, st, n)
  PROVE  Carries(ff[q], r, st, n) \/ (q = After(p) /\ Sent(p, L, r, st, n))
<1>1. CASE gg = ff
  BY <1>1
<1>2. CASE gg # ff
  <2>1. PICK x \in Peer : x = After(p)
    BY AfterFacts
  <2>2. PICK m \in Seq(Msg) : m = Outgoing(p, L)
    BY OutgoingFacts
  <2>3. PICK X : X = Seq(Msg)
    OBVIOUS
  <2>4. ff \in [Peer -> Seq(X)]
    BY <2>3 DEF Messages
  <2>5. PICK new : new = Append(ff[x], m)
    OBVIOUS
  <2>6. gg = [ff EXCEPT ![x] = new]
    BY <1>2, <2>1, <2>2, <2>5 DEF Send, After
  <2>7. gg[x] = new /\ \A y \in Peer : y # x => gg[y] = ff[y]
    BY <2>4, <2>6
  <2>8. CASE q # x
    BY <2>7, <2>8
  <2>9. CASE q = x
    <3>1. PICK j \in Nat : j = Len(ff[x]) /\ DOMAIN ff[x] = 1..j
      BY <2>4, ListFacts
    <3>2. DOMAIN new = 1..(j + 1) /\ new[j + 1] = m /\ \A i \in 1..j : new[i] = ff[x][i]
      BY <2>2, <2>3, <2>4, <2>5, <3>1, AppendProperties, LenProperties
    <3>3. PICK i \in DOMAIN new : \E b \in DOMAIN new[i] :
            new[i][b].rid = r /\ new[i][b].status = st /\ new[i][b].pos = n
      BY <2>7, <2>9 DEF Carries
    <3>4. i \in 1..j \/ i = j + 1
      BY <3>1, <3>2, <3>3
    <3>5. CASE i \in 1..j
      BY <2>9, <3>1, <3>2, <3>3, <3>5 DEF Carries
    <3>6. CASE i = j + 1
      <4>1. PICK b \in DOMAIN m : m[b].rid = r /\ m[b].status = st /\ m[b].pos = n
        BY <3>2, <3>3, <3>6
      <4>2. b \in DOMAIN L /\ m[b] = [rid |-> L[b].rid,
                                      status |-> IF p = LastPeer THEN "decode" ELSE L[b].status,
                                      pos |-> L[b].total]
        BY <2>2, <4>1 DEF Outgoing
      <4>3. Sent(p, L, r, st, n)
        BY <4>1, <4>2 DEF Sent, Label
      <4> QED BY <2>1, <2>9, <4>3
    <3> QED BY <3>4, <3>5, <3>6
  <2> QED BY <2>8, <2>9
<1> QED BY <1>1, <1>2

(* What is sent of a batch was ready.                                      *)
LEMMA PartTasks ==
  ASSUME NEW k, NEW s, NEW batch, Drawn(k, s, batch), NEW p
  PROVE  /\ \A r, st, n : Sent(p, Prefills(batch), r, st, n) =>
                            st = Label(p, "prefill") /\ HasReady(s.running, r, "prefill", n)
         /\ \A r, st, n : Sent(p, Decodes(batch), r, st, n) =>
                            st = "decode" /\ HasReady(s.running, r, "decode", n)
         /\ \A r \in Ids(batch) : r \in Ids(Prefills(batch)) \/ r \in Ids(Decodes(batch))
<1>1. batch \in Seq(Entry(k)) /\ Distinct(batch)
  BY DEF Drawn
<1>2. PICK S : S = {q \in Range(batch) : q.status = "prefill"}
  OBVIOUS
<1>3. PICK D : D = {q \in Range(batch) : q.status = "decode"}
  OBVIOUS
<1>4. PICK L : L = Prefills(batch)
  OBVIOUS
<1>5. PICK M : M = Decodes(batch)
  OBVIOUS
<1>6. /\ \A a \in DOMAIN L : L[a] \in S /\ \E i \in DOMAIN batch : L[a] = batch[i]
      /\ \A i \in DOMAIN batch : batch[i] \in S => \E a \in DOMAIN L : L[a] = batch[i]
  <2>1. L = Selected(batch, S)
    BY <1>2, <1>4 DEF Prefills
  <2> QED BY <1>1, <2>1, PartFacts
<1>7. /\ \A a \in DOMAIN M : M[a] \in D /\ \E i \in DOMAIN batch : M[a] = batch[i]
      /\ \A i \in DOMAIN batch : batch[i] \in D => \E a \in DOMAIN M : M[a] = batch[i]
  <2>1. M = Selected(batch, D)
    BY <1>3, <1>5 DEF Decodes
  <2> QED BY <1>1, <2>1, PartFacts
<1>8. \A i \in DOMAIN batch : HasReady(s.running, batch[i].rid, batch[i].status, batch[i].total)
  BY DrawnTasks
<1>9. ASSUME NEW r, NEW st, NEW n, Sent(p, L, r, st, n)
      PROVE  st = Label(p, "prefill") /\ HasReady(s.running, r, "prefill", n)
  <2>1. PICK a \in DOMAIN L : L[a].rid = r /\ st = Label(p, L[a].status) /\ n = L[a].total
    BY <1>9 DEF Sent
  <2>2. L[a].status = "prefill"
    BY <1>2, <1>6
  <2>3. PICK i \in DOMAIN batch : L[a] = batch[i]
    BY <1>6
  <2>4. HasReady(s.running, L[a].rid, L[a].status, L[a].total)
    BY <1>8, <2>3
  <2> QED BY <2>1, <2>2, <2>4
<1>10. ASSUME NEW r, NEW st, NEW n, Sent(p, M, r, st, n)
       PROVE  st = "decode" /\ HasReady(s.running, r, "decode", n)
  <2>1. PICK a \in DOMAIN M : M[a].rid = r /\ st = Label(p, M[a].status) /\ n = M[a].total
    BY <1>10 DEF Sent
  <2>2. M[a].status = "decode"
    BY <1>3, <1>7
  <2>3. PICK i \in DOMAIN batch : M[a] = batch[i]
    BY <1>7
  <2>4. HasReady(s.running, M[a].rid, M[a].status, M[a].total)
    BY <1>8, <2>3
  <2> QED BY <2>1, <2>2, <2>4 DEF Label
<1>11. ASSUME NEW r \in Ids(batch)
       PROVE  r \in Ids(L) \/ r \in Ids(M)
  <2>1. PICK i \in DOMAIN batch : batch[i].rid = r
    BY DEF Ids
  <2>2. batch[i] \in Entry(k) /\ batch[i] \in Range(batch)
    BY <1>1, ListFacts
  <2>3. batch[i].status \in {"prefill", "decode"}
    BY <2>2 DEF Entry, ReqRec
  <2>4. batch[i] \in S \/ batch[i] \in D
    BY <1>2, <1>3, <2>2, <2>3
  <2> QED BY <1>6, <1>7, <2>1, <2>4 DEF Ids
<1> QED BY <1>4, <1>5, <1>9, <1>10, <1>11

\* What an iteration does to the scheduler a, in which its batch is chosen.
Computes(p, a, it) ==
  /\ Drawn(K(p), a, it.batch)
  /\ it.view.s.wait = a.wait /\ OnlyReady(a.running, Ids(it.batch), it.view.s.running)
  /\ \A r \in Request :
       /\ r \notin Ids(Decodes(it.batch)) => it.view.s.pool.context[r] = a.pool.context[r]
       /\ r \in Ids(Decodes(it.batch)) /\ it.ok =>
            it.view.s.pool.context[r] = a.pool.context[r] + 1
  /\ it.view.finished = FlushedBatch(p) /\ it.view.dead = FALSE

LEMMA IterationComputes ==
  ASSUME NeedsBlocks, ExecInv, NEW p \in Peer, NEW rids, NEW a, a = Scheduled(p, rids)
  PROVE  Computes(p, a, Iteration(p, rids))
<1>1. PICK B \in Nat : B = PeerBlocks[p]
  BY BlocksType
<1>2. PICK k : k = K(p)
  OBVIOUS
<1>3. Good(k, B, a)
  BY <1>1, <1>2, ScheduledFacts
<1>4. PICK batch : batch = Batch(a)
  OBVIOUS
<1>5. Drawn(k, a, batch)
  BY <1>3, <1>4, BatchFacts
<1>6. batch \in Seq(Entry(k)) /\ Distinct(batch)
  BY <1>5 DEF Drawn
<1>7. PICK f : f = form_batch(a)
  OBVIOUS
<1>8. Good(k, B, f)
  BY <1>3, <1>7, FormGood
<1>9. a.pool \in Pool /\ Backed(a.pool, B) /\ a \in Sched(k)
  BY <1>3, SchedTypes DEF Good
<1>10. Unreadied(a, Ids(batch), f)
  BY <1>4, <1>7, <1>9, FormTasks
<1>11. PICK g : g = Grow(a.pool, batch)
  OBVIOUS
<1>12. Grown(a.pool, g, Ids(Decodes(batch)))
  BY <1>6, <1>9, <1>11, DecodesGrown
<1>13. PICK pool : pool = g.pool
  OBVIOUS
<1>14. PICK t : t = WithPool(f, pool)
  OBVIOUS
<1>15. t.wait = f.wait /\ t.running = f.running /\ t.pool = pool
  <2>1. f \in Sched(k)
    BY <1>8 DEF Good
  <2> QED BY <1>14, <2>1 DEF WithPool, Sched
<1>16. PICK fin : fin = FlushedBatch(p)
  OBVIOUS
<1>17. PICK v : v = Changed(View(p), t, fin)
  OBVIOUS
<1>18. v.s = t /\ v.finished = fin /\ v.dead = FALSE
  BY <1>17 DEF Changed, View
<1>19. PICK it : it = Iteration(p, rids)
  OBVIOUS
<1>20. it = [batch |-> batch, ok |-> g.ok, view |-> v]
  BY <1>4, <1>7, <1>11, <1>13, <1>14, <1>16, <1>17, <1>19, Zenon
  DEF Iteration, Changed, WithPool
<1>21. it.batch = batch /\ it.ok = g.ok /\ it.view = v
  BY <1>20, Zenon
<1>22. \A r \in Request :
         /\ r \notin Ids(Decodes(batch)) => t.pool.context[r] = a.pool.context[r]
         /\ r \in Ids(Decodes(batch)) /\ g.ok => t.pool.context[r] = a.pool.context[r] + 1
  BY <1>12, <1>13, <1>15 DEF Grown
<1>23. t.wait = a.wait /\ OnlyReady(a.running, Ids(batch), t.running)
  BY <1>10, <1>15 DEF Unreadied
<1> QED BY <1>2, <1>5, <1>16, <1>18, <1>19, <1>21, <1>22, <1>23, Zenon DEF Computes

-----------------------------------------------------------------------------
(* The iterations keep the contexts level.                                 *)

LEMMA HasFacts ==
  ASSUME NEW k, NEW s \in Sched(k), NEW r
  PROVE  /\ \A st, n : Has(s.wait, r, st, n) => r \in Ids(s.wait) /\ n \in Nat
         /\ \A st, n : HasReady(s.running, r, st, n) => /\ r \in Ids(s.running) /\ n \in Nat
                                                        /\ ReadyIn(s.running, r)
         /\ r \in Ids(s.wait) => \E st, n : Has(s.wait, r, st, n)
<1>1. s.wait \in Seq(Entry(k)) /\ s.running \in Seq(Entry(k))
  BY SchedTypes
<1>2. \A i \in DOMAIN s.wait : s.wait[i].total \in Nat
  BY <1>1, ListFacts DEF Entry, ReqRec
<1>3. \A i \in DOMAIN s.running : s.running[i].total \in Nat
  BY <1>1, ListFacts DEF Entry, ReqRec
<1>4. \A st, n : Has(s.wait, r, st, n) => r \in Ids(s.wait) /\ n \in Nat
  BY <1>2 DEF Has, Ids
<1>5. \A st, n : HasReady(s.running, r, st, n) => /\ r \in Ids(s.running) /\ n \in Nat
                                                  /\ ReadyIn(s.running, r)
  BY <1>3 DEF HasReady, Ids, ReadyIn
<1>6. r \in Ids(s.wait) => \E st, n : Has(s.wait, r, st, n)
  BY DEF Has, Ids
<1> QED BY <1>4, <1>5, <1>6

(* A queued request has no context at its peer.                            *)
LEMMA LevelApart ==
  ASSUME ExecInv, LevelInv, NEW p \in Peer
  PROVE  Apart(sched[p])
<1>1. PICK k : k = K(p)
  OBVIOUS
<1>2. PICK s : s = sched[p]
  OBVIOUS
<1>3. s \in Sched(k) /\ \A r \in Request : s.pool.context[r] # Absent <=> r \in Ids(s.running)
  BY <1>1, <1>2 DEF ExecInv, PeersInv, Good
<1>4. ASSUME NEW r \in Ids(s.wait), r \in Ids(s.running)
      PROVE  FALSE
  <2>1. r \in Request
    BY <1>3, IdsType, SchedTypes
  <2>2. PICK st, n : Has(s.wait, r, st, n)
    BY <1>3, HasFacts
  <2>3. PICK c : c = Contexts(sched, r)
    OBVIOUS
  <2>4. AtPeer(c, s, p, r)
    BY <1>2, <2>1, <2>3 DEF LevelInv, Levelled
  <2>5. PrefillAt(c, p, n)
    BY <2>2, <2>4 DEF AtPeer
  <2>6. c[p] = s.pool.context[r]
    BY <1>2, <2>1, <2>3, ContextsType DEF ExecInv, TypesInv
  <2>7. c[p] # Absent
    BY <1>3, <1>4, <2>1, <2>6
  <2>8. p < p /\ p \in Nat
    BY <2>5, <2>7, PeerRange DEF PrefillAt
  <2> QED BY <2>8
<1> QED BY <1>2, <1>4 DEF Apart

(* The admissions and the timeout check.                                   *)
LEMMA AdmittedLevel ==
  ASSUME NeedsBlocks, ExecInv, LevelInv, NEW p \in Peer, NEW rids, NEW r \in Request,
         NEW a, a = Scheduled(p, rids)
  PROVE  Levelled(Update(sched, p, a), forward, r)
<1>1. PICK B \in Nat : B = PeerBlocks[p]
  BY BlocksType
<1>2. PICK k : k = K(p)
  OBVIOUS
<1>3. PICK s : s = sched[p]
  OBVIOUS
<1>4. Good(k, B, s) /\ s \in Sched(k) /\ Sound(s) /\ sched \in [Peer -> AnySched]
  BY <1>1, <1>2, <1>3 DEF ExecInv, PeersInv, TypesInv, Good
<1>5. Good(k, B, a) /\ Moves(s, a) /\ a \in Sched(k)
  BY <1>1, <1>2, <1>3, ScheduledFacts DEF Good
<1>6. Admits(s, a, r)
  BY <1>3, ScheduledTasks
<1>7. Apart(a)
  BY <1>3, <1>4, <1>5, LevelApart DEF Moves
<1>8. PICK c \in Context : c = Contexts(sched, r) /\ c[p] = s.pool.context[r]
  BY <1>3, <1>4, ContextsType
<1>9. Levelled(sched, forward, r) /\ AtPeer(c, s, p, r)
  BY <1>3, <1>8 DEF LevelInv, Levelled
<1>10. p \in Nat /\ ~(p < p)
  BY PeerRange
<1>11. /\ \A st, n : Has(a.wait, r, st, n) => Has(s.wait, r, st, n)
       /\ \A st, n : HasReady(a.running, r, st, n) =>
            HasReady(s.running, r, st, n) \/ (Has(s.wait, r, st, n) /\ a.pool.context[r] = n)
  BY <1>6 DEF Admits
<1>12. \A st, n : Has(s.wait, r, st, n) => st = "prefill" /\ PrefillAt(c, p, n) /\ n \in Nat
  BY <1>4, <1>9, HasFacts DEF AtPeer
<1>13. CASE a.pool.context[r] = s.pool.context[r]
  <2>1. ASSUME NEW st, NEW n, Has(s.wait, r, st, n), a.pool.context[r] = n
        PROVE  FALSE
    <3>1. PrefillAt(c, p, n) /\ n \in Nat /\ c[p] = n
      BY <1>8, <1>12, <1>13, <2>1
    <3>2. n # Absent
      BY <3>1 DEF Absent
    <3> QED BY <1>10, <3>1, <3>2 DEF PrefillAt
  <2>2. FewerTasks(s, a, r)
    BY <1>11, <2>1 DEF FewerTasks
  <2>3. Quiet(s, a, r)
    BY <1>13, <2>2 DEF Quiet
  <2>4. FewerCarried(forward, forward, r)
    BY DEF FewerCarried
  <2> QED BY <1>3, <1>4, <1>9, <2>3, <2>4, QuietStep
<1>14. CASE a.pool.context[r] # s.pool.context[r]
  <2>1. PICK n : n = a.pool.context[r]
    OBVIOUS
  <2>2. PICK st0 : Has(s.wait, r, st0, n)
    BY <1>6, <1>14, <2>1 DEF Admits, HasLength
  <2>3. s.pool.context[r] = Absent
    BY <1>6, <1>14 DEF Admits
  <2>4. n \in Nat /\ PrefillAt(c, p, n) /\ r \in Ids(s.wait)
    BY <1>4, <1>12, <2>2, HasFacts
  <2>5. /\ \A q \in Peer : q # p => ~PendingIn(sched[q], r)
        /\ \A q \in Peer : \A st, m : ~Carries(forward[q], r, st, m)
    BY <1>3, <2>4, AloneAtPeer DEF PendingIn
  <2>6. PICK d : d = [c EXCEPT ![p] = n]
    OBVIOUS
  <2>7. PrefillAt(d, p + 1, n) /\ d \in Context
    BY <2>4, <2>6, PrefillComes
  <2>8. InStep(d)
    <3>1. p + 1 \in Nat
      BY <1>10
    <3>2. StepAt(d, p + 1, "prefill", n)
      BY <2>7 DEF StepAt
    <3> QED BY <2>4, <2>7, <3>1, <3>2, LevelInStep
  <2>9. r \in Ids(a.running) /\ r \notin Ids(s.running)
    <3>1. n # Absent
      BY <2>4 DEF Absent
    <3> QED BY <1>4, <1>5, <2>1, <2>3, <3>1 DEF Good
  <2>10. \A st, m : ~Has(a.wait, r, st, m)
    BY <1>5, <1>7, <2>9, HasFacts DEF Apart
  <2>11. \A st, m : ~HasReady(s.running, r, st, m)
    BY <1>4, <2>9, HasFacts
  <2>12. \A st, m : HasReady(a.running, r, st, m) => st = "prefill" /\ m = n
    BY <1>11, <1>12, <2>1, <2>11
  <2>13. AtPeer(d, a, p, r)
    BY <2>7, <2>10, <2>12 DEF AtPeer
  <2>14. \A q \in Peer : InQueue(d, forward[q], q, r)
    BY <2>5 DEF InQueue
  <2>15. d = Update(Contexts(sched, r), p, a.pool.context[r])
    BY <1>8, <2>1, <2>6 DEF Update
  <2> QED BY <1>4, <2>5, <2>8, <2>13, <2>14, <2>15, ActiveStep
<1> QED BY <1>13, <1>14

\* The peers when peer p has admitted requests to its scheduler a: what an iteration
\* starts from.
Starts(p, a, e) ==
  /\ a \in AnySched /\ Good(K(p), PeerBlocks[p], a) /\ e = Update(sched, p, a)
  /\ e \in [Peer -> AnySched] /\ e[p] = a /\ \A q \in Peer : q # p => e[q] = sched[q]
  /\ \A r \in Request : Levelled(e, forward, r)

LEMMA IterationStarts ==
  ASSUME NeedsBlocks, ExecInv, LevelInv, NEW p \in Peer, NEW rids, NEW a, a = Scheduled(p, rids),
         NEW e, e = Update(sched, p, a)
  PROVE  Starts(p, a, e)
<1>1. Good(K(p), PeerBlocks[p], a)
  BY ScheduledFacts
<1>2. a \in AnySched
  BY <1>1 DEF Good, K, AnySched
<1>3. \A r \in Request : Levelled(e, forward, r)
  BY AdmittedLevel
<1>4. sched \in [Peer -> AnySched]
  BY DEF ExecInv, TypesInv
<1>5. e \in [Peer -> AnySched] /\ e[p] = a /\ \A q \in Peer : q # p => e[q] = sched[q]
  BY <1>2, <1>4 DEF Update
<1> QED BY <1>1, <1>2, <1>3, <1>5 DEF Starts

LEMMA UpdateTwice ==
  ASSUME NEW f, NEW p, NEW x, NEW y
  PROVE  Update(Update(f, p, x), p, y) = Update(f, p, y)
  BY DEF Update

(* What an iteration computes leaves the other requests alone.             *)
LEMMA ComputesQuiet ==
  ASSUME NEW p \in Peer, NEW a, NEW it, Computes(p, a, it), NEW r \in Request
  PROVE  /\ FewerTasks(a, it.view.s, r)
         /\ r \notin Ids(it.batch) => Quiet(a, it.view.s, r)
<1>1. FewerTasks(a, it.view.s, r)
  BY DEF Computes, OnlyReady, FewerTasks
<1>2. PICK batch : batch = it.batch
  OBVIOUS
<1>3. \A q \in Ids(Decodes(batch)) : q \in Ids(batch)
  <2>1. batch \in Seq(Entry(K(p))) /\ Distinct(batch)
    BY <1>2 DEF Computes, Drawn
  <2> QED BY <2>1, PartsFacts
<1>4. r \notin Ids(it.batch) => it.view.s.pool.context[r] = a.pool.context[r]
  BY <1>2, <1>3 DEF Computes
<1> QED BY <1>1, <1>4 DEF Quiet

-----------------------------------------------------------------------------
\* r is in the batch of it, and nowhere else.
Drafted(p, e, it, r) ==
  /\ \A q \in Peer : q # p => ~PendingIn(e[q], r)
  /\ \A q \in Peer : \A st, n : ~Carries(forward[q], r, st, n)
  /\ \A st, n : ~Has(it.view.s.wait, r, st, n) /\ ~HasReady(it.view.s.running, r, st, n)

LEMMA BatchDrafted ==
  ASSUME ExecInv, NEW p \in Peer, NEW a, NEW e, Starts(p, a, e), NEW it,
         IsIteration(p, it.batch, it.view), NEW r \in Ids(it.batch)
  PROVE  r \in Request /\ Drafted(p, e, it, r)
<1>1. r \in Request /\ PendingIn(sched[p], r) /\ ~PendingIn(it.view.s, r)
  BY DEF IsIteration
<1>2. /\ \A q \in Peer : q # p => ~PendingIn(sched[q], r)
      /\ \A q \in Peer : \A st, n : ~Carries(forward[q], r, st, n)
  BY <1>1, AloneAtPeer
<1>3. \A q \in Peer : q # p => ~PendingIn(e[q], r)
  BY <1>2 DEF Starts
<1>4. \A st, n : ~Has(it.view.s.wait, r, st, n) /\ ~HasReady(it.view.s.running, r, st, n)
  BY <1>1 DEF PendingIn, Ids, ReadyIn, Has, HasReady
<1> QED BY <1>1, <1>2, <1>3, <1>4 DEF Drafted

\* How a step of r that goes from peer p to gg[q] is labelled, for contexts d.
Handed(p, d, gg, r) ==
  \A q \in Peer : \A st, n : Carries(gg[q], r, st, n) =>
    q = After(p) /\ StepAt(d, q, st, n) /\ (st = "prefill" => q # FirstPeer)

(* The requests of a batch whose steps are handed on.                      *)
LEMMA HandedLevel ==
  ASSUME NEW p \in Peer, NEW a, NEW e, Starts(p, a, e), NEW it, NEW r \in Request,
         Drafted(p, e, it, r), NEW t, FewerTasks(it.view.s, t, r),
         NEW d, d = Update(Contexts(e, r), p, t.pool.context[r]), InStep(d),
         NEW gg, Handed(p, d, gg, r)
  PROVE  Levelled(Update(e, p, t), gg, r)
<1>1. \A st, n : ~Has(t.wait, r, st, n) /\ ~HasReady(t.running, r, st, n)
  BY DEF Drafted, FewerTasks
<1>2. AtPeer(d, t, p, r)
  BY <1>1 DEF AtPeer
<1>3. \A q \in Peer : InQueue(d, gg[q], q, r)
  BY DEF InQueue, Handed
<1>4. \A q \in Peer : q # p => ~PendingIn(e[q], r)
  BY DEF Drafted
<1> QED BY <1>2, <1>3, <1>4, ActiveStep DEF Starts

\* The prefills L of a batch are on the wire in gg, and the decodes M if both is TRUE.
Wired(p, gg, L, M) ==
  \A q \in Peer : \A r, st, n : Carries(gg[q], r, st, n) =>
    Carries(forward[q], r, st, n) \/ (q = After(p) /\ (Sent(p, L, r, st, n) \/ Sent(p, M, r, st, n)))

LEMMA SendWired ==
  ASSUME NEW k, Messages(forward), NEW p \in Peer,
         NEW L \in Seq(Entry(k)), NEW M \in Seq(Entry(k)), Distinct(L), Distinct(M),
         NEW gg, gg = Send(forward, p, L) \/ gg = Send(Send(forward, p, L), p, M)
  PROVE  Wired(p, gg, L, M)
<1>1. PICK ff : ff = Send(forward, p, L)
  OBVIOUS
<1>2. Messages(ff)
  <2>1. PICK P : P = {p} \X Ids(L)
    OBVIOUS
  <2>2. PICK Q : Q = {x \in P : FALSE}
    OBVIOUS
  <2>3. \A r \in Ids(L) : <<p, r>> \in P
    BY <2>1
  <2>4. \A q \in Peer : \A r : <<q, r>> \in Q => <<q, r>> \in P /\ ~(q = p /\ r \in Ids(L))
    BY <2>2
  <2> QED BY <1>1, <2>3, <2>4, SendFacts
<1>3. \A q \in Peer : \A r, st, n : Carries(ff[q], r, st, n) =>
        Carries(forward[q], r, st, n) \/ (q = After(p) /\ Sent(p, L, r, st, n))
  BY <1>1, SendTasks
<1>4. CASE gg = ff
  BY <1>3, <1>4 DEF Wired
<1>5. CASE gg = Send(ff, p, M)
  <2>1. \A q \in Peer : \A r, st, n : Carries(gg[q], r, st, n) =>
          Carries(ff[q], r, st, n) \/ (q = After(p) /\ Sent(p, M, r, st, n))
    BY <1>2, <1>5, SendTasks
  <2> QED BY <1>3, <2>1 DEF Wired
<1> QED BY <1>1, <1>4, <1>5

LEMMA SentIds ==
  ASSUME NEW p, NEW L, NEW r, NEW st, NEW n, Sent(p, L, r, st, n)
  PROVE  r \in Ids(L)
  BY DEF Sent, Ids

LEMMA WiredFewer ==
  ASSUME NEW p, NEW gg, NEW L, NEW M, Wired(p, gg, L, M), NEW r, r \notin Ids(L), r \notin Ids(M)
  PROVE  FewerCarried(forward, gg, r)
  BY SentIds DEF Wired, FewerCarried

(* A prefill that has been computed and is on the wire.                    *)
LEMMA PrefillHanded ==
  ASSUME NEW p \in Peer, NEW a, NEW e, Starts(p, a, e), NEW it, Computes(p, a, it),
         NEW L, NEW M, L = Prefills(it.batch), M = Decodes(it.batch),
         NEW gg, Wired(p, gg, L, M), NEW r \in Request, r \in Ids(L), r \notin Ids(M),
         Drafted(p, e, it, r), NEW c, c = Contexts(e, r)
  PROVE  Handed(p, c, gg, r) /\ InStep(c)
<1>1. /\ \A st, n : Sent(p, L, r, st, n) =>
           st = Label(p, "prefill") /\ HasReady(a.running, r, "prefill", n)
      /\ Drawn(K(p), a, it.batch)
  BY PartTasks DEF Computes
<1>2. AtPeer(c, a, p, r) /\ c \in Context
  BY ContextsType DEF Starts, Levelled
<1>3. \A n : HasReady(a.running, r, "prefill", n) => PrefillAt(c, p + 1, n) /\ n \in Nat
  <2>1. a \in Sched(K(p))
    BY DEF Starts, Good
  <2>2. \A n : HasReady(a.running, r, "prefill", n) => n \in Nat
    BY <2>1, HasFacts
  <2> QED BY <1>2, <2>2 DEF AtPeer
<1>4. InStep(c)
  BY DEF Starts, Levelled
<1>5. ASSUME NEW q \in Peer, NEW st, NEW n, Carries(gg[q], r, st, n)
      PROVE  q = After(p) /\ StepAt(c, q, st, n) /\ (st = "prefill" => q # FirstPeer)
  <2>1. q = After(p) /\ Sent(p, L, r, st, n)
    BY <1>5, SentIds DEF Wired, Drafted
  <2>2. st = Label(p, "prefill") /\ n \in Nat /\ PrefillAt(c, p + 1, n)
    BY <1>1, <1>3, <2>1
  <2>3. StepAt(c, After(p), st, n)
    BY <1>2, <2>2, PrefillPasses
  <2>4. st = "prefill" => p # LastPeer
    BY <2>2 DEF Label
  <2> QED BY <2>1, <2>3, <2>4, AfterFacts
<1> QED BY <1>4, <1>5 DEF Handed

(* A decode step that has been computed and is on the wire.                *)
LEMMA DecodeHanded ==
  ASSUME NEW p \in Peer, NEW a, NEW e, Starts(p, a, e), NEW it, Computes(p, a, it), it.ok,
         NEW L, NEW M, L = Prefills(it.batch), M = Decodes(it.batch),
         NEW gg, Wired(p, gg, L, M), NEW r \in Request, r \notin Ids(L), r \in Ids(M),
         Drafted(p, e, it, r),
         NEW d, d = Update(Contexts(e, r), p, it.view.s.pool.context[r])
  PROVE  Handed(p, d, gg, r) /\ InStep(d)
<1>1. PICK c \in Context : c = Contexts(e, r) /\ c[p] = a.pool.context[r]
  BY ContextsType DEF Starts
<1>2. AtPeer(c, a, p, r)
  BY <1>1 DEF Starts, Levelled
<1>3. PICK n0 : HasReady(a.running, r, "decode", n0)
  <2>1. PICK i \in DOMAIN M : M[i].rid = r
    BY DEF Ids
  <2>2. Sent(p, M, r, Label(p, M[i].status), M[i].total)
    BY <2>1 DEF Sent
  <2> QED BY <2>2, PartTasks DEF Computes
<1>4. DecodeAt(c, p)
  BY <1>2, <1>3 DEF AtPeer
<1>5. c[p] # Absent
  <2>1. a \in Sched(K(p)) /\ \A q \in Request : a.pool.context[q] # Absent <=> q \in Ids(a.running)
    BY DEF Starts, Good
  <2>2. r \in Ids(a.running)
    BY <1>3, <2>1, HasFacts
  <2> QED BY <1>1, <2>1, <2>2
<1>6. d = [c EXCEPT ![p] = c[p] + 1]
  <2>1. it.view.s.pool.context[r] = a.pool.context[r] + 1
    BY DEF Computes
  <2> QED BY <1>1, <2>1 DEF Update
<1>7. DecodeAt(d, After(p)) /\ d \in Context
  BY <1>4, <1>5, <1>6, DecodePasses
<1>8. InStep(d)
  <2>1. StepAt(d, After(p), "decode", 0) /\ After(p) \in Nat
    BY <1>7, AfterFacts, PeerRange DEF StepAt
  <2> QED BY <1>7, <2>1, LevelInStep
<1>9. ASSUME NEW q \in Peer, NEW st, NEW n, Carries(gg[q], r, st, n)
      PROVE  q = After(p) /\ StepAt(d, q, st, n) /\ (st = "prefill" => q # FirstPeer)
  <2>1. q = After(p) /\ Sent(p, M, r, st, n)
    BY <1>9, SentIds DEF Wired, Drafted
  <2>2. st = "decode"
    BY <2>1, PartTasks DEF Computes
  <2> QED BY <1>7, <2>1, <2>2 DEF StepAt
<1> QED BY <1>8, <1>9 DEF Handed

-----------------------------------------------------------------------------
(* The contexts after an iteration of a peer.                              *)

\* What is known of an iteration it that starts from the peers e.
Iterates(p, a, e, it) ==
  Starts(p, a, e) /\ Computes(p, a, it) /\ IsIteration(p, it.batch, it.view)

LEMMA IterationIterates ==
  ASSUME NeedsBlocks, ExecInv, LevelInv, NEW p \in Peer, NEW rids, NEW a, a = Scheduled(p, rids),
         NEW e, e = Update(sched, p, a), NEW it, it = Iteration(p, rids)
  PROVE  Iterates(p, a, e, it)
  BY IterationStarts, IterationComputes, IterationFacts DEF Iterates

LEMMA QuietTransitive ==
  ASSUME NEW s, NEW t, NEW u, NEW r, FewerTasks(s, t, r), FewerTasks(t, u, r)
  PROVE  /\ FewerTasks(s, u, r)
         /\ Quiet(s, t, r) /\ Quiet(t, u, r) => Quiet(s, u, r)
  BY DEF Quiet, FewerTasks

(* A request that is not in the batch.                                     *)
LEMMA BystanderLevel ==
  ASSUME NEW p \in Peer, NEW a, NEW e, Starts(p, a, e), NEW r \in Request,
         NEW t, Quiet(a, t, r), NEW gg, FewerCarried(forward, gg, r)
  PROVE  Levelled(Update(e, p, t), gg, r)
  BY QuietStep DEF Starts

(* A batch that is computed and dispatched.                                *)
LEMMA BatchLevel ==
  ASSUME ExecInv, NEW p \in Peer, NEW a, NEW e, NEW it, Iterates(p, a, e, it), it.ok,
         NEW L, NEW M, L = Prefills(it.batch), M = Decodes(it.batch),
         NEW gg, Wired(p, gg, L, M), NEW t, t = it.view.s, NEW r \in Request
  PROVE  Levelled(Update(e, p, t), gg, r)
<1>1. Starts(p, a, e) /\ Computes(p, a, it) /\ IsIteration(p, it.batch, it.view)
  BY DEF Iterates
<1>2. /\ \A q \in Ids(L) : q \in Ids(it.batch) /\ q \notin Ids(M)
      /\ \A q \in Ids(M) : q \in Ids(it.batch)
  BY <1>1, PartsFacts DEF IsIteration
<1>3. FewerTasks(it.view.s, t, r)
  BY DEF FewerTasks
<1>4. CASE r \notin Ids(it.batch)
  <2>1. Quiet(a, t, r)
    BY <1>1, <1>4, ComputesQuiet
  <2>2. FewerCarried(forward, gg, r)
    BY <1>2, <1>4, WiredFewer
  <2> QED BY <1>1, <2>1, <2>2, BystanderLevel
<1>5. CASE r \in Ids(L)
  <2>1. r \notin Ids(M) /\ Drafted(p, e, it, r)
    BY <1>1, <1>2, <1>5, BatchDrafted
  <2>2. PICK c : c = Contexts(e, r)
    OBVIOUS
  <2>3. Handed(p, c, gg, r) /\ InStep(c)
    BY <1>1, <1>5, <2>1, <2>2, PrefillHanded
  <2>4. c = Update(Contexts(e, r), p, t.pool.context[r])
    <3>1. c \in Context /\ c[p] = a.pool.context[r]
      BY <1>1, <2>2, ContextsType DEF Starts
    <3>2. t.pool.context[r] = a.pool.context[r]
      BY <1>1, <2>1 DEF Computes
    <3> QED BY <2>2, <3>1, <3>2 DEF Update, Context
  <2> QED BY <1>1, <1>3, <2>1, <2>3, <2>4, HandedLevel
<1>6. CASE r \in Ids(M) /\ r \notin Ids(L)
  <2>1. Drafted(p, e, it, r)
    BY <1>1, <1>2, <1>6, BatchDrafted
  <2>2. PICK d : d = Update(Contexts(e, r), p, it.view.s.pool.context[r])
    OBVIOUS
  <2>3. Handed(p, d, gg, r) /\ InStep(d)
    BY <1>1, <1>6, <2>1, <2>2, DecodeHanded
  <2> QED BY <1>1, <1>3, <2>1, <2>2, <2>3, HandedLevel
<1>7. \A q \in Ids(it.batch) : q \in Ids(L) \/ q \in Ids(M)
  BY <1>1, PartTasks DEF Computes
<1> QED BY <1>4, <1>5, <1>6, <1>7

(* A batch that fails before anything is dispatched.                       *)
LEMMA FailedLevel ==
  ASSUME ExecInv, NEW p \in Peer, NEW a, NEW e, NEW it, Iterates(p, a, e, it),
         NEW t, Drops(it.view.s, t, Ids(it.batch)), NEW r \in Request
  PROVE  Levelled(Update(e, p, t), forward, r)
<1>1. Starts(p, a, e) /\ Computes(p, a, it) /\ IsIteration(p, it.batch, it.view)
  BY DEF Iterates
<1>2. FewerTasks(it.view.s, t, r) /\ (r \notin Ids(it.batch) => Quiet(it.view.s, t, r))
  BY LosesQuiet DEF Drops
<1>3. FewerTasks(a, it.view.s, r) /\ (r \notin Ids(it.batch) => Quiet(a, it.view.s, r))
  BY <1>1, ComputesQuiet
<1>4. FewerTasks(a, t, r) /\ (r \notin Ids(it.batch) => Quiet(a, t, r))
  BY <1>2, <1>3, QuietTransitive
<1>5. FewerCarried(forward, forward, r)
  BY DEF FewerCarried
<1>6. CASE r \notin Ids(it.batch)
  BY <1>1, <1>4, <1>5, <1>6, BystanderLevel
<1>7. CASE r \in Ids(it.batch)
  <2>1. Drafted(p, e, it, r)
    BY <1>1, <1>7, BatchDrafted
  <2>2. t.pool.context[r] = Absent
    BY <1>7 DEF Drops
  <2>3. \A q \in Peer : Update(e, p, t)[q] = IF q = p THEN t ELSE e[q]
    BY <1>1 DEF Starts, Update
  <2>4. Resting(Update(e, p, t), forward, r)
    <3>1. \A st, n : ~Has(t.wait, r, st, n) /\ ~HasReady(t.running, r, st, n)
      BY <1>2, <2>1 DEF Drafted, FewerTasks
    <3>2. \A q \in Peer : q # p => ~PendingIn(e[q], r)
      BY <2>1 DEF Drafted
    <3>3. \A q \in Peer : q # p =>
            \A st, n : ~Has(e[q].wait, r, st, n) /\ ~HasReady(e[q].running, r, st, n)
      BY <3>2 DEF PendingIn, Ids, ReadyIn, Has, HasReady
    <3> QED BY <2>1, <2>3, <3>1, <3>3 DEF Resting, Drafted
  <2> QED BY <1>1, <1>4, <1>5, <2>2, <2>4, LossStep DEF Starts
<1> QED BY <1>6, <1>7

(* A batch that fails when its prefills are dispatched.                    *)
LEMMA HalfFailedLevel ==
  ASSUME ExecInv, ~Steady, NEW p \in Peer, NEW a, NEW e, NEW it, Iterates(p, a, e, it),
         NEW L, NEW M, L = Prefills(it.batch), M = Decodes(it.batch),
         NEW gg, Wired(p, gg, L, M), Wired(p, gg, L, L),
         NEW t, Drops(it.view.s, t, Ids(it.batch)), NEW r \in Request
  PROVE  Levelled(Update(e, p, t), gg, r)
<1>1. Starts(p, a, e) /\ Computes(p, a, it) /\ IsIteration(p, it.batch, it.view)
  BY DEF Iterates
<1>2. FewerTasks(it.view.s, t, r) /\ (r \notin Ids(it.batch) => Quiet(it.view.s, t, r))
  BY LosesQuiet DEF Drops
<1>3. FewerTasks(a, it.view.s, r) /\ (r \notin Ids(it.batch) => Quiet(a, it.view.s, r))
  BY <1>1, ComputesQuiet
<1>4. FewerTasks(a, t, r) /\ (r \notin Ids(it.batch) => Quiet(a, t, r))
  BY <1>2, <1>3, QuietTransitive
<1>5. /\ \A q \in Ids(L) : q \in Ids(it.batch) /\ q \notin Ids(M)
  BY <1>1, PartsFacts DEF IsIteration
<1>6. r \notin Ids(L) => FewerCarried(forward, gg, r)
  BY WiredFewer
<1>7. CASE r \notin Ids(it.batch)
  BY <1>1, <1>4, <1>5, <1>6, <1>7, BystanderLevel
<1>8. CASE r \in Ids(it.batch) /\ r \notin Ids(L)
  <2>1. t.pool.context[r] = Absent
    BY <1>8 DEF Drops
  <2> QED BY <1>1, <1>4, <1>6, <1>8, <2>1, LossStep DEF Starts
<1>9. CASE r \in Ids(L)
  <2>1. r \notin Ids(M) /\ Drafted(p, e, it, r) /\ t.pool.context[r] = Absent
    BY <1>1, <1>5, <1>9, BatchDrafted DEF Drops
  <2>2. PICK c \in Context : c = Contexts(e, r)
    BY <1>1, ContextsType DEF Starts
  <2>3. Handed(p, c, gg, r) /\ InStep(c)
    BY <1>1, <1>9, <2>1, <2>2, PrefillHanded
  <2>4. PICK d : d = [c EXCEPT ![p] = Absent]
    OBVIOUS
  <2>5. InStep(d) /\ \A q, st, n : StepAt(c, q, st, n) => StepAt(d, q, st, n)
    BY <2>3, <2>4, ContextLost
  <2>6. Handed(p, d, gg, r)
    BY <2>3, <2>5 DEF Handed
  <2>7. d = Update(Contexts(e, r), p, t.pool.context[r])
    BY <2>1, <2>2, <2>4 DEF Update
  <2> QED BY <1>1, <1>2, <2>1, <2>5, <2>6, <2>7, HandedLevel
<1> QED BY <1>7, <1>8, <1>9

-----------------------------------------------------------------------------
\* What RunBatch, RunFails and RunHalfFails have in common.
Running(p, it, w) ==
  \E a, e : /\ Iterates(p, a, e, it) /\ e = Update(sched, p, a)
            /\ it.view \in ViewRec(K(p)) /\ Good(K(p), PeerBlocks[p], it.view.s)
            /\ it.batch \in Seq(Entry(K(p)))
            /\ sched' = Update(sched, p, w.s) /\ sched' = Update(e, p, w.s)
            /\ \A r \in Request : ~PendingIn(sched[p], r) =>
                 /\ r \notin Ids(it.batch)
                 /\ it.view.s.pool.context[r] = sched[p].pool.context[r]

LEMMA RunningFrom ==
  ASSUME NeedsBlocks, ExecInv, LevelInv, NEW p \in Peer, NEW rids,
         NEW it, it = Iteration(p, rids), NEW w, Install(p, w)
  PROVE  Running(p, it, w)
<1>1. PICK a : a = Scheduled(p, rids)
  OBVIOUS
<1>2. PICK e : e = Update(sched, p, a)
  OBVIOUS
<1>3. Iterates(p, a, e, it)
  BY <1>1, <1>2, IterationIterates
<1>4. sched' = Update(sched, p, w.s)
  BY DEF Install, Update
<1>5. PICK t : t = w.s
  OBVIOUS
<1>6. sched' = Update(e, p, w.s)
  BY <1>2, <1>4, <1>5, UpdateTwice
<1>7. /\ it.view \in ViewRec(K(p)) /\ Good(K(p), PeerBlocks[p], it.view.s)
      /\ it.batch \in Seq(Entry(K(p)))
  BY <1>3 DEF Iterates, IsIteration
<1>8. ASSUME NEW r \in Request, ~PendingIn(sched[p], r)
      PROVE  r \notin Ids(it.batch) /\ it.view.s.pool.context[r] = sched[p].pool.context[r]
  <2>1. r \notin Ids(it.batch)
    BY <1>3, <1>8 DEF Iterates, IsIteration
  <2>2. it.view.s.pool.context[r] = a.pool.context[r]
    BY <1>3, <2>1, ComputesQuiet DEF Iterates, Quiet
  <2>3. \A n : ~HasLength(sched[p].wait, r, n)
    BY <1>8 DEF PendingIn, HasLength, Has, Ids
  <2>4. a.pool.context[r] = sched[p].pool.context[r]
    BY <1>1, <2>3, ScheduledTasks DEF Admits
  <2> QED BY <2>1, <2>2, <2>4
<1> QED BY <1>2, <1>3, <1>4, <1>6, <1>7, <1>8 DEF Running

\* A request that is not started keeps its contexts.
Calm ==
  \A r \in Request : ~Started(Pending, forward, r) =>
    \A p \in Peer : sched'[p].pool.context[r] = sched[p].pool.context[r]

LEMMA NotStarted ==
  ASSUME NEW r \in Request, ~Started(Pending, forward, r)
  PROVE  ~InMessage(forward, r) /\ \A p \in Peer : ~PendingIn(sched[p], r)
  BY PendingIsPending DEF Started

LEMMA CalmAt ==
  ASSUME ExecInv, NEW p \in Peer, NEW t, sched' = Update(sched, p, t),
         \A r \in Request : ~Started(Pending, forward, r) =>
           t.pool.context[r] = sched[p].pool.context[r]
  PROVE  Calm
<1>1. sched'[p] = t /\ \A q \in Peer : q # p => sched'[q] = sched[q]
  BY DEF ExecInv, TypesInv, Update
<1> QED BY <1>1 DEF Calm

\* What every iteration does, whether or not its batch fails.
Ran(p) ==
  /\ alive' = [alive EXCEPT ![p] = TRUE] /\ finished' = [finished EXCEPT ![p] = FlushedBatch(p)]
  /\ aborts' = Flush(p) /\ http_in' = http_in

LEMMA RunningRan ==
  ASSUME NEW p \in Peer, NEW rids, BeforeBatch(p, rids), NEW it, NEW w, Running(p, it, w),
         Install(p, w), w.finished = it.view.finished, w.dead = it.view.dead
  PROVE  Ran(p)
<1>1. it.view.finished = FlushedBatch(p) /\ it.view.dead = FALSE
  BY DEF Running, Iterates, Computes
<1>2. ~w.dead = TRUE
  BY <1>1, Zenon
<1>3. alive' = [alive EXCEPT ![p] = TRUE]
  BY <1>2, Zenon DEF Install
<1>4. finished' = [finished EXCEPT ![p] = FlushedBatch(p)]
  BY <1>1 DEF Install
<1>5. aborts' = Flush(p) /\ http_in' = http_in
  BY Zenon DEF BeforeBatch
<1> QED BY <1>3, <1>4, <1>5, Zenon DEF Ran

LEMMA RunningCalm ==
  ASSUME ExecInv, NEW p \in Peer, NEW it, NEW w, Running(p, it, w),
         w.s = it.view.s \/ Drops(it.view.s, w.s, Ids(it.batch))
  PROVE  Calm
<1>1. PICK t : t = w.s
  OBVIOUS
<1>2. /\ sched' = Update(sched, p, t)
      /\ \A r \in Request : ~PendingIn(sched[p], r) =>
           /\ r \notin Ids(it.batch)
           /\ it.view.s.pool.context[r] = sched[p].pool.context[r]
  BY <1>1 DEF Running
<1>3. \A r \in Request : r \notin Ids(it.batch) => t.pool.context[r] = it.view.s.pool.context[r]
  BY <1>1 DEF Drops, Loses
<1>4. \A r \in Request : ~Started(Pending, forward, r) =>
        t.pool.context[r] = sched[p].pool.context[r]
  BY <1>2, <1>3, NotStarted
<1> QED BY <1>2, <1>4, CalmAt

\* The batch of it is on the wire in gg, all of it or only its prefills.
LEMMA BatchWired ==
  ASSUME ExecInv, NEW p \in Peer, NEW batch \in Seq(Entry(K(p))), Distinct(batch),
         NEW L, NEW M, L = Prefills(batch), M = Decodes(batch), NEW gg
  PROVE  /\ gg = Send(Send(forward, p, L), p, M) => Wired(p, gg, L, M)
         /\ gg = Send(forward, p, L) => Wired(p, gg, L, M) /\ Wired(p, gg, L, L)
<1>1. PICK k : k = K(p)
  OBVIOUS
<1>2. L \in Seq(Entry(k)) /\ M \in Seq(Entry(k)) /\ Distinct(L) /\ Distinct(M)
  BY <1>1, PartsFacts
<1>3. Messages(forward)
  BY DEF ExecInv, TypesInv, MessagesInv, Messages
<1> QED BY <1>2, <1>3, SendWired

LEMMA RunBatchLevel ==
  ASSUME NeedsBlocks, ExecInv, LevelInv, FirstPeer # LastPeer, NEW p \in Peer, RunBatch(p)
  PROVE  LevelInv' /\ Calm /\ Ran(p)
<1>1. PICK rids \in Overdue(p) :
        /\ Iteration(p, rids).ok /\ BeforeBatch(p, rids)
        /\ \E eos \in NewTokens(Iteration(p, rids).batch) :
             Install(p, Locally(Iteration(p, rids).view, Prefills(Iteration(p, rids).batch)
                                                     \o Decodes(Iteration(p, rids).batch), eos))
        /\ forward' = Send(Send(forward, p, Prefills(Iteration(p, rids).batch)), p,
                           Decodes(Iteration(p, rids).batch))
  BY Zenon DEF RunBatch
<1>2. PICK it : it = Iteration(p, rids)
  OBVIOUS
<1>3. PICK L : L = Prefills(it.batch)
  OBVIOUS
<1>4. PICK M : M = Decodes(it.batch)
  OBVIOUS
<1>5. PICK gg : gg = forward'
  OBVIOUS
<1>6. it.ok /\ gg = Send(Send(forward, p, L), p, M) /\ Install(p, it.view)
  BY <1>1, <1>2, <1>3, <1>4, <1>5 DEF Locally
<1>7. Running(p, it, it.view)
  BY <1>2, <1>6, RunningFrom
<1>8. PICK a, e : Iterates(p, a, e, it) /\ sched' = Update(e, p, it.view.s)
  BY <1>7 DEF Running
<1>9. Wired(p, gg, L, M)
  <2>1. it.batch \in Seq(Entry(K(p))) /\ Distinct(it.batch)
    BY <1>8 DEF Iterates, IsIteration
  <2> QED BY <1>3, <1>4, <1>6, <2>1, BatchWired
<1>10. \A r \in Request : Levelled(sched', forward', r)
  BY <1>3, <1>4, <1>5, <1>6, <1>8, <1>9, BatchLevel
<1>11. Calm
  BY <1>7, RunningCalm
<1>12. Ran(p)
  BY <1>1, <1>6, <1>7, RunningRan
<1> QED BY <1>10, <1>11, <1>12 DEF LevelInv

LEMMA RunFailsLevel ==
  ASSUME NeedsBlocks, ExecInv, LevelInv, NEW p \in Peer, RunFails(p)
  PROVE  LevelInv' /\ Calm /\ Ran(p)
<1>1. PICK rids \in Overdue(p) :
        /\ BeforeBatch(p, rids)
        /\ Install(p, ReleaseBatch(Iteration(p, rids).view, Iteration(p, rids).batch))
        /\ forward' = forward
  BY Zenon DEF RunFails
<1>2. PICK it : it = Iteration(p, rids)
  OBVIOUS
<1>3. PICK w : w = ReleaseBatch(it.view, it.batch)
  OBVIOUS
<1>4. Install(p, w)
  BY <1>1, <1>2, <1>3
<1>5. Running(p, it, w)
  BY <1>2, <1>4, RunningFrom
<1>6. PICK a, e : /\ Iterates(p, a, e, it) /\ sched' = Update(e, p, w.s)
                  /\ it.view \in ViewRec(K(p)) /\ Good(K(p), PeerBlocks[p], it.view.s)
                  /\ it.batch \in Seq(Entry(K(p)))
  BY <1>5 DEF Running
<1>7. PICK v : v = it.view
  OBVIOUS
<1>8. PICK batch : batch = it.batch
  OBVIOUS
<1>9. PICK k : k = K(p)
  OBVIOUS
<1>10. Drops(v.s, w.s, Ids(batch)) /\ w.finished = v.finished /\ w.dead = v.dead
  BY <1>3, <1>6, <1>7, <1>8, <1>9, BlocksType, BatchDropped
<1>11. Drops(it.view.s, w.s, Ids(it.batch))
  BY <1>7, <1>8, <1>10
<1>12. \A r \in Request : Levelled(sched', forward', r)
  BY <1>1, <1>6, <1>11, FailedLevel
<1>13. Calm
  BY <1>5, <1>11, RunningCalm
<1>14. Ran(p)
  BY <1>1, <1>4, <1>5, <1>7, <1>10, RunningRan
<1> QED BY <1>12, <1>13, <1>14 DEF LevelInv

LEMMA RunHalfFailsLevel ==
  ASSUME NeedsBlocks, ExecInv, LevelInv, FirstPeer # LastPeer, NEW p \in Peer, RunHalfFails(p)
  PROVE  LevelInv' /\ Calm /\ Ran(p)
<1>1. PICK rids \in Overdue(p) :
        /\ BeforeBatch(p, rids)
        /\ \E eos \in NewTokens(Prefills(Iteration(p, rids).batch)) :
             Install(p, ReleaseBatch(Locally(Iteration(p, rids).view,
                                             Prefills(Iteration(p, rids).batch), eos),
                                     Iteration(p, rids).batch))
        /\ forward' = Send(forward, p, Prefills(Iteration(p, rids).batch))
  BY Zenon DEF RunHalfFails
<1>2. PICK it : it = Iteration(p, rids)
  OBVIOUS
<1>3. PICK L : L = Prefills(it.batch)
  OBVIOUS
<1>4. PICK M : M = Decodes(it.batch)
  OBVIOUS
<1>5. PICK gg : gg = forward'
  OBVIOUS
<1>6. PICK w : w = ReleaseBatch(it.view, it.batch)
  OBVIOUS
<1>7. gg = Send(forward, p, L) /\ Install(p, w)
  BY <1>1, <1>2, <1>3, <1>5, <1>6 DEF Locally
<1>8. Running(p, it, w)
  BY <1>2, <1>7, RunningFrom
<1>9. PICK a, e : /\ Iterates(p, a, e, it) /\ sched' = Update(e, p, w.s)
                  /\ it.view \in ViewRec(K(p)) /\ Good(K(p), PeerBlocks[p], it.view.s)
                  /\ it.batch \in Seq(Entry(K(p)))
  BY <1>8 DEF Running
<1>10. /\ Drops(it.view.s, w.s, Ids(it.batch))
       /\ w.finished = it.view.finished /\ w.dead = it.view.dead
  <2>1. PICK v : v = it.view
    OBVIOUS
  <2>2. PICK batch : batch = it.batch
    OBVIOUS
  <2>3. PICK k : k = K(p)
    OBVIOUS
  <2>4. Drops(v.s, w.s, Ids(batch)) /\ w.finished = v.finished /\ w.dead = v.dead
    BY <1>6, <1>9, <2>1, <2>2, <2>3, BlocksType, BatchDropped
  <2> QED BY <2>1, <2>2, <2>4
<1>11. Wired(p, gg, L, M) /\ Wired(p, gg, L, L)
  <2>1. it.batch \in Seq(Entry(K(p))) /\ Distinct(it.batch)
    BY <1>9 DEF Iterates, IsIteration
  <2> QED BY <1>3, <1>4, <1>7, <2>1, BatchWired
<1>12. ~Steady
  BY DEF RunHalfFails, Steady
<1>13. \A r \in Request : Levelled(sched', forward', r)
  BY <1>3, <1>4, <1>5, <1>9, <1>10, <1>11, <1>12, HalfFailedLevel
<1>14. Calm
  BY <1>8, <1>10, RunningCalm
<1>15. Ran(p)
  BY <1>1, <1>7, <1>8, <1>10, RunningRan
<1> QED BY <1>13, <1>14, <1>15 DEF LevelInv

-----------------------------------------------------------------------------
(* The contexts when a message is taken.                                   *)

\* What taking message msg from peer p's queue does to the steps of request r.
Taken(p, msg, gg, r) ==
  /\ FewerCarried(forward, gg, r)
  /\ \A st, n : Arrived(msg, Len(msg), r, st, n) => r \in Ids(msg) /\ Carries(forward[p], r, st, n)
  /\ r \in Ids(msg) => /\ \E st, n : Arrived(msg, Len(msg), r, st, n)
                       /\ \A q \in Peer : ~PendingIn(sched[q], r)
                       /\ \A q \in Peer : \A st, n : ~Carries(gg[q], r, st, n)

LEMMA TailFacts ==
  ASSUME NEW X, NEW L \in Seq(X), L # << >>, NEW rest, rest = Tail(L)
  PROVE  /\ 1 \in DOMAIN L /\ L[1] = Head(L)
         /\ \A i \in DOMAIN rest : i + 1 \in DOMAIN L /\ i + 1 # 1 /\ rest[i] = L[i + 1]
<1>2. PICK n \in Nat : n = Len(L) /\ DOMAIN L = 1..n /\ n >= 1
  BY ListFacts, EmptySeq
<1>3. /\ rest \in Seq(X) /\ Head(L) = L[1] /\ DOMAIN rest = 1..(n - 1)
      /\ \A i \in 1..(n - 1) : rest[i] = L[i + 1]
  BY <1>2, HeadTailProperties, LenProperties
<1>4. \A i \in 1..(n - 1) : i + 1 \in 1..n /\ i + 1 # 1
  BY <1>2
<1>5. 1 \in 1..n
  BY <1>2
<1> QED BY <1>2, <1>3, <1>4, <1>5

LEMMA MessageIsTaken ==
  ASSUME ExecInv, NEW p \in Peer, forward[p] # << >>, NEW msg, msg = Head(forward[p]),
         NEW gg, gg = [forward EXCEPT ![p] = Tail(forward[p])], NEW r \in Request
  PROVE  Taken(p, msg, gg, r)
<1>1. PICK L \in Seq(Seq(Msg)) : L = forward[p] /\ L # << >>
  BY DEF ExecInv, TypesInv
<1>2. PICK rest : rest = Tail(L)
  OBVIOUS
<1>3. /\ 1 \in DOMAIN L /\ L[1] = msg
      /\ \A i \in DOMAIN rest : i + 1 \in DOMAIN L /\ i + 1 # 1 /\ rest[i] = L[i + 1]
  BY <1>1, <1>2, TailFacts
<1>4. gg[p] = rest /\ \A q \in Peer : q # p => gg[q] = forward[q]
  BY <1>1, <1>2 DEF ExecInv, TypesInv
<1>5. DOMAIN msg = 1..Len(msg)
  <2>1. L \in Seq(Seq(Msg))
    OBVIOUS
  <2>2. msg \in Seq(Msg)
    BY <1>3, <2>1, ListFacts
  <2> QED BY <2>2, ListFacts
<1>6. FewerCarried(forward, gg, r)
  <2>1. \A st, n : Carries(rest, r, st, n) => Carries(L, r, st, n)
    BY <1>3 DEF Carries
  <2> QED BY <1>1, <1>4, <2>1 DEF FewerCarried
<1>7. \A st, n : Arrived(msg, Len(msg), r, st, n) => r \in Ids(msg) /\ Carries(forward[p], r, st, n)
  BY <1>1, <1>3, <1>5 DEF Arrived, IsStep, Carries, Ids
<1>8. ASSUME r \in Ids(msg)
      PROVE  \E st, n : Arrived(msg, Len(msg), r, st, n)
  <2>1. PICK j \in DOMAIN msg : msg[j].rid = r
    BY <1>8 DEF Ids
  <2>2. Arrived(msg, Len(msg), r, msg[j].status, msg[j].pos)
    BY <1>5, <2>1 DEF Arrived, IsStep
  <2> QED BY <2>2
<1>9. Single(Pending, forward)
  BY DEF ExecInv, PlacesInv
<1>10. ASSUME r \in Ids(msg)
       PROVE  \A q \in Peer : ~PendingIn(sched[q], r)
  <2>1. InMessage(forward, r)
    BY <1>1, <1>3, <1>10 DEF InMessage
  <2> QED BY <1>9, <2>1, PendingIsPending DEF Single
<1>11. ASSUME r \in Ids(msg), NEW q \in Peer, NEW st, NEW n, Carries(gg[q], r, st, n)
       PROVE  FALSE
  <2>1. PICK i \in DOMAIN gg[q] : r \in Ids(gg[q][i])
    BY <1>11 DEF Carries, Ids
  <2>2. \A a, b \in Peer : \A x \in DOMAIN forward[a], y \in DOMAIN forward[b] :
          r \in Ids(forward[a][x]) /\ r \in Ids(forward[b][y]) => a = b /\ x = y
    BY <1>9 DEF Single
  <2>3. CASE q = p
    <3>1. i + 1 \in DOMAIN L /\ i + 1 # 1 /\ r \in Ids(L[i + 1])
      BY <1>3, <1>4, <2>1, <2>3
    <3> QED BY <1>1, <1>3, <1>11, <2>2, <3>1
  <2>4. CASE q # p
    <3>1. i \in DOMAIN forward[q] /\ r \in Ids(forward[q][i])
      BY <1>4, <2>1, <2>4
    <3> QED BY <1>1, <1>3, <1>11, <2>2, <2>4, <3>1
  <2> QED BY <2>3, <2>4
<1> QED BY <1>6, <1>7, <1>8, <1>10, <1>11 DEF Taken

(* Nothing is taken from a scheduler with no step of r.                    *)
LEMMA NotPending ==
  ASSUME NEW s, NEW r, ~PendingIn(s, r)
  PROVE  \A st, n : ~Has(s.wait, r, st, n) /\ ~HasReady(s.running, r, st, n)
  BY DEF PendingIn, Ids, ReadyIn, Has, HasReady

(* The steps of a message that the first peer takes are decodes.           *)
LEMMA DecodesComeBack ==
  ASSUME ExecInv, LevelInv, NEW msg \in Seq(Msg), NEW gg, NEW r \in Request,
         Taken(FirstPeer, msg, gg, r), r \in Ids(msg)
  PROVE  DecodeAt(Contexts(sched, r), FirstPeer)
<1>1. PICK st, n : Arrived(msg, Len(msg), r, st, n)
  BY DEF Taken
<1>2. Carries(forward[FirstPeer], r, st, n)
  BY <1>1 DEF Taken
<1>3. InQueue(Contexts(sched, r), forward[FirstPeer], FirstPeer, r)
  BY FirstIsPeer DEF LevelInv, Levelled
<1>4. StepAt(Contexts(sched, r), FirstPeer, st, n) /\ st # "prefill"
  BY <1>2, <1>3 DEF InQueue
<1> QED BY <1>4 DEF StepAt

LEMMA FirstTakesLevel ==
  ASSUME ExecInv, LevelInv, NEW msg \in Seq(Msg), NEW gg, NEW r \in Request,
         Taken(FirstPeer, msg, gg, r), NEW t, Advances(sched[FirstPeer], t, Ids(msg)),
         t.wait = sched[FirstPeer].wait
  PROVE  Levelled(Update(sched, FirstPeer, t), gg, r)
<1>1. PICK s : s = sched[FirstPeer]
  OBVIOUS
<1>2. sched \in [Peer -> AnySched] /\ Levelled(sched, forward, r)
  BY DEF ExecInv, TypesInv, LevelInv
<1>3. /\ t.pool.context[r] # Absent => t.pool.context[r] = s.pool.context[r]
      /\ r \notin Ids(msg) => t.pool.context[r] = s.pool.context[r]
      /\ \A st, n : HasReady(t.running, r, st, n) =>
           HasReady(s.running, r, st, n) \/ (r \in Ids(msg) /\ st = "decode")
  BY <1>1 DEF Advances, MoreReady
<1>4. CASE r \notin Ids(msg)
  <2>1. Quiet(s, t, r)
    BY <1>1, <1>3, <1>4 DEF Quiet, FewerTasks
  <2> QED BY <1>1, <1>2, <2>1, QuietStep, FirstIsPeer DEF Taken
<1>5. CASE r \in Ids(msg)
  <2>1. PICK c \in Context : c = Contexts(sched, r) /\ c[FirstPeer] = s.pool.context[r]
    BY <1>1, <1>2, ContextsType, FirstIsPeer
  <2>2. DecodeAt(c, FirstPeer) /\ InStep(c)
    BY <1>2, <1>5, <2>1, DecodesComeBack DEF Levelled
  <2>3. PICK d : d = Update(c, FirstPeer, t.pool.context[r])
    OBVIOUS
  <2>4. DecodeAt(d, FirstPeer) /\ InStep(d)
    <3>1. CASE t.pool.context[r] = Absent
      <4>1. d = [c EXCEPT ![FirstPeer] = Absent]
        BY <2>3, <3>1 DEF Update
      <4>2. InStep(d) /\ \A q, st, n : StepAt(c, q, st, n) => StepAt(d, q, st, n)
        BY <2>2, <4>1, ContextLost, FirstIsPeer
      <4>3. StepAt(d, FirstPeer, "decode", 0)
        BY <2>2, <4>2 DEF StepAt
      <4> QED BY <4>2, <4>3 DEF StepAt
    <3>2. CASE t.pool.context[r] # Absent
      <4>1. d = c
        BY <1>3, <2>1, <2>3, <3>2 DEF Update, Context
      <4> QED BY <2>2, <4>1
    <3> QED BY <3>1, <3>2
  <2>5. \A q \in Peer : ~PendingIn(sched[q], r) /\ \A st, n : ~Carries(gg[q], r, st, n)
    BY <1>5 DEF Taken
  <2>6. AtPeer(d, t, FirstPeer, r)
    <3>1. \A st, n : ~Has(t.wait, r, st, n) /\ ~HasReady(s.running, r, st, n)
      BY <1>1, <2>5, NotPending, FirstIsPeer
    <3>2. \A st, n : HasReady(t.running, r, st, n) => st = "decode"
      BY <1>3, <3>1
    <3> QED BY <2>4, <3>1, <3>2 DEF AtPeer
  <2>7. \A q \in Peer : InQueue(d, gg[q], q, r)
    BY <2>5 DEF InQueue
  <2> QED BY <1>2, <2>1, <2>3, <2>4, <2>5, <2>6, <2>7, ActiveStep, FirstIsPeer
<1> QED BY <1>4, <1>5

LEMMA StageTakesLevel ==
  ASSUME ExecInv, LevelInv, NEW p \in Peer, NEW msg \in Seq(Msg), NEW gg, NEW r \in Request,
         Taken(p, msg, gg, r), NEW t, Arrives(sched[p], t, msg, Len(msg), r)
  PROVE  Levelled(Update(sched, p, t), gg, r)
<1>1. PICK s : s = sched[p]
  OBVIOUS
<1>2. sched \in [Peer -> AnySched] /\ Levelled(sched, forward, r)
  BY DEF ExecInv, TypesInv, LevelInv
<1>3. /\ t.pool = s.pool
      /\ \A st, n : Has(t.wait, r, st, n) =>
           Has(s.wait, r, st, n) \/ (st = "prefill" /\ Arrived(msg, Len(msg), r, st, n))
      /\ \A st, n : HasReady(t.running, r, st, n) =>
           HasReady(s.running, r, st, n) \/ (st = "decode" /\ Arrived(msg, Len(msg), r, st, n))
  BY <1>1 DEF Arrives
<1>4. CASE r \notin Ids(msg)
  <2>1. \A st, n : ~Arrived(msg, Len(msg), r, st, n)
    BY <1>4 DEF Taken
  <2>2. Quiet(s, t, r)
    BY <1>3, <2>1 DEF Quiet, FewerTasks
  <2> QED BY <1>1, <1>2, <2>2, QuietStep DEF Taken
<1>5. CASE r \in Ids(msg)
  <2>1. PICK c \in Context : c = Contexts(sched, r) /\ c[p] = s.pool.context[r]
    BY <1>1, <1>2, ContextsType
  <2>2. InStep(c) /\ InQueue(c, forward[p], p, r)
    BY <1>2, <2>1 DEF Levelled
  <2>3. c = Update(c, p, t.pool.context[r])
    BY <1>3, <2>1 DEF Update, Context
  <2>4. \A q \in Peer : ~PendingIn(sched[q], r) /\ \A st, n : ~Carries(gg[q], r, st, n)
    BY <1>5 DEF Taken
  <2>5. \A st, n : ~Has(s.wait, r, st, n) /\ ~HasReady(s.running, r, st, n)
    BY <1>1, <2>4, NotPending
  <2>6. \A st, n : Arrived(msg, Len(msg), r, st, n) => StepAt(c, p, st, n)
    BY <2>2 DEF Taken, InQueue
  <2>7. AtPeer(c, t, p, r)
    BY <1>3, <2>5, <2>6 DEF AtPeer, StepAt
  <2>8. \A q \in Peer : InQueue(c, gg[q], q, r)
    BY <2>4 DEF InQueue
  <2> QED BY <1>2, <2>1, <2>2, <2>3, <2>4, <2>7, <2>8, ActiveStep
<1> QED BY <1>4, <1>5

\* What the first peer does with the tokens of message msg.
Answered(msg, w) ==
  /\ Install(FirstPeer, w) /\ w \in ViewRec(K(FirstPeer))
  /\ Keeps(sched[FirstPeer], w.s, Ids(msg)) /\ Answers(View(FirstPeer), w, Ids(msg))

LEMMA FirstReceives ==
  ASSUME NeedsBlocks, ExecInv, RecvForward(FirstPeer), NEW msg \in Seq(Msg),
         msg = Head(forward[FirstPeer])
  PROVE  \E w : Answered(msg, w)
<1>1. PICK p \in Peer : p = FirstPeer
  BY FirstIsPeer
<1>2. PICK v : v = View(p)
  OBVIOUS
<1>3. PICK B \in Nat : B = PeerBlocks[p]
  BY BlocksType
<1>4. PICK k : k = K(p)
  OBVIOUS
<1>5. v \in ViewRec(k) /\ v.s = sched[p] /\ Good(k, B, v.s)
  BY <1>2, <1>3, <1>4, ViewFacts
<1>6. PICK eos : Install(p, HandleTokens(v, msg, eos))
  BY <1>1, <1>2 DEF RecvForward
<1>7. PICK w : w = HandleTokens(v, msg, eos)
  OBVIOUS
<1>8. \A i \in DOMAIN msg : msg[i].rid \in Request
  <2>1. \A m \in Msg : m.rid \in Request
    BY DEF Msg
  <2> QED BY <2>1, ListFacts
<1>9. Handled(k, B, v, w, Ids(msg)) /\ Answers(v, w, Ids(msg))
  BY <1>5, <1>7, <1>8, TokensHandled, TokensAnswer
<1>10. w \in ViewRec(k) /\ Keeps(v.s, w.s, Ids(msg))
  BY <1>9 DEF Handled
<1> QED BY <1>1, <1>2, <1>4, <1>5, <1>6, <1>7, <1>9, <1>10 DEF Answered

\* What another peer does with the steps of message msg.
Joined(p, msg, w) ==
  /\ Install(p, w) /\ \A r \in Request : Arrives(sched[p], w.s, msg, Len(msg), r)
  /\ w.finished = finished[p] /\ w.dead \in BOOLEAN
  /\ Welcome(View(p), msg) => ~w.dead

LEMMA StageReceives ==
  ASSUME ExecInv, NEW p \in Peer, p # FirstPeer, RecvForward(p), NEW msg \in Seq(Msg),
         msg = Head(forward[p])
  PROVE  \E w : Joined(p, msg, w)
<1>1. PICK v : v = View(p)
  OBVIOUS
<1>2. PICK B \in Nat : B = PeerBlocks[p]
  BY BlocksType
<1>3. PICK k : k = "intermediate" /\ k = K(p)
  BY DEF K
<1>4. v \in ViewRec(k) /\ v.s = sched[p] /\ Good(k, B, v.s) /\ v.finished = finished[p]
  BY <1>1, <1>2, <1>3, ViewFacts DEF View
<1>5. PICK w : w = FoldLeft(HandleStage, v, msg)
  OBVIOUS
<1>6. Install(p, w)
  BY <1>1, <1>5 DEF RecvForward
<1>7. /\ \A r : Arrives(v.s, w.s, msg, Len(msg), r)
      /\ w.finished = v.finished /\ (Welcome(v, msg) => ~w.dead)
  BY <1>3, <1>4, <1>5, StagesArrive
<1>8. w.dead \in BOOLEAN
  <2>1. Staged(k, B, v, msg, w, Len(msg))
    BY <1>3, <1>4, <1>5, StagesHandled
  <2>2. w \in ViewRec(k)
    BY <2>1 DEF Staged
  <2> QED BY <2>2, ViewTypes
<1> QED BY <1>1, <1>4, <1>6, <1>7, <1>8 DEF Joined

LEMMA RecvForwardLevel ==
  ASSUME NeedsBlocks, ExecInv, LevelInv, NEW p \in Peer, RecvForward(p)
  PROVE  LevelInv' /\ Calm
<1>1. forward[p] # << >> /\ forward' = [forward EXCEPT ![p] = Tail(forward[p])]
  BY DEF RecvForward
<1>2. PICK msg : msg = Head(forward[p])
  OBVIOUS
<1>3. msg \in Seq(Msg) /\ \A r \in Ids(msg) : r \in Request /\ InMessage(forward, r)
  BY <1>1, <1>2, MessageTaken DEF ExecInv
<1>4. PICK gg : gg = forward'
  OBVIOUS
<1>5. \A r \in Request : Taken(p, msg, gg, r)
  BY <1>1, <1>2, <1>4, MessageIsTaken
<1>6. CASE p = FirstPeer
  <2>1. PICK w : Answered(msg, w)
    BY <1>2, <1>3, <1>6, FirstReceives
  <2>2. PICK t : t = w.s
    OBVIOUS
  <2>3. Advances(sched[FirstPeer], t, Ids(msg)) /\ t.wait = sched[FirstPeer].wait
    <3>1. View(FirstPeer).s = sched[FirstPeer]
      BY ViewFacts, FirstIsPeer
    <3> QED BY <2>1, <2>2, <3>1 DEF Answered, Keeps, Answers
  <2>4. sched' = Update(sched, FirstPeer, t)
    BY <2>1, <2>2 DEF Answered, Install, Update
  <2>5. \A r \in Request : Levelled(sched', gg, r)
    BY <1>3, <1>5, <1>6, <2>3, <2>4, FirstTakesLevel
  <2>6. \A r \in Request : ~Started(Pending, forward, r) =>
          t.pool.context[r] = sched[p].pool.context[r]
    BY <1>3, <1>6, <2>3, NotStarted DEF Advances
  <2>7. Calm
    BY <1>6, <2>4, <2>6, CalmAt
  <2> QED BY <1>4, <2>5, <2>7 DEF LevelInv
<1>7. CASE p # FirstPeer
  <2>1. PICK w : Joined(p, msg, w)
    BY <1>2, <1>3, <1>7, StageReceives
  <2>2. PICK t : t = w.s
    OBVIOUS
  <2>3. \A r \in Request : Arrives(sched[p], t, msg, Len(msg), r)
    BY <2>1, <2>2 DEF Joined
  <2>4. sched' = Update(sched, p, t)
    BY <2>1, <2>2 DEF Joined, Install, Update
  <2>5. \A r \in Request : Levelled(sched', gg, r)
    BY <1>3, <1>5, <2>3, <2>4, StageTakesLevel
  <2>6. \A r \in Request : t.pool.context[r] = sched[p].pool.context[r]
    BY <2>3 DEF Arrives
  <2>7. Calm
    BY <2>4, <2>6, CalmAt
  <2> QED BY <1>4, <2>5, <2>7 DEF LevelInv
<1> QED BY <1>6, <1>7

-----------------------------------------------------------------------------
(* The requests that the first peer has finished: the other peers, which   *)
(* are about to be told, still have them.                                  *)

\* Nothing more will be computed for these requests.
Over == {r \in Request : Unstarted(r) /\ ~Fresh(r)}

InMemory == {x \in Peer \X Request : sched[x[1]].pool.context[x[2]] # Absent}

\* The lists that peer q is to be told of, fin and later the ones in lists, have
\* requests of X that q holds, each of them once.
Told(fin, lists, X, H, q) ==
  /\ \A r \in Range(fin) : <<q, r>> \in H /\ \A rids \in lists : r \notin Range(rids)
  /\ \A rids \in lists :
       /\ Injective(rids)
       /\ \A r \in Range(rids) : /\ r \in X /\ <<q, r>> \in H
                                 /\ \A other \in lists : r \in Range(other) => other = rids

Doom(fin, ab, X, H) ==
  /\ ab[FirstPeer] = {} /\ Injective(fin) /\ \A r \in Range(fin) : r \in X
  /\ \A q \in Peer : q # FirstPeer => Told(fin, ab[q], X, H, q)

\* Requests that are over stay over, and their contexts stay.
Lasting(X, H, Y, J) ==
  /\ \A r \in X : r \in Y
  /\ \A q \in Peer : \A r \in X : <<q, r>> \in H => <<q, r>> \in J

LEMMA ToldMore ==
  ASSUME NEW fin, NEW lists, NEW X, NEW H, NEW q \in Peer, Told(fin, lists, X, H, q),
         \A r \in Range(fin) : r \in X,
         NEW Y, NEW J, Lasting(X, H, Y, J), NEW fewer, \A rids \in fewer : rids \in lists
  PROVE  Told(fin, fewer, Y, J, q)
  BY Zenon DEF Told, Lasting

(* Lists may be lost.                                                      *)
LEMMA DoomMore ==
  ASSUME NEW fin, NEW ab, NEW X, NEW H, Doom(fin, ab, X, H), NEW Y, NEW J, Lasting(X, H, Y, J),
         NEW ac, \A q \in Peer : \A rids \in ac[q] : rids \in ab[q]
  PROVE  Doom(fin, ac, Y, J)
<1>1. ac[FirstPeer] = {}
  BY FirstIsPeer DEF Doom
<1>2. \A q \in Peer : q # FirstPeer => Told(fin, ac[q], Y, J, q)
  BY ToldMore DEF Doom
<1> QED BY <1>1, <1>2 DEF Doom, Lasting

(* The finished list is sent.                                              *)
LEMMA DoomFlush ==
  ASSUME NEW fin, NEW ab, NEW X, NEW H, Doom(fin, ab, X, H), NEW none, Range(none) = {},
         Injective(none), NEW ac,
         \A q \in Peer : \/ \A rids \in ac[q] : rids \in ab[q]
                         \/ q # FirstPeer /\ \A rids \in ac[q] : rids \in ab[q] \/ rids = fin
  PROVE  Doom(none, ac, X, H)
<1>1. ac[FirstPeer] = {}
  BY FirstIsPeer DEF Doom
<1>2. ASSUME NEW q \in Peer, q # FirstPeer
      PROVE  Told(none, ac[q], X, H, q)
  <2>1. Told(fin, ab[q], X, H, q) /\ Injective(fin) /\ \A r \in Range(fin) : r \in X
    BY <1>2 DEF Doom
  <2>2. \A rids \in ac[q] : rids \in ab[q] \/ rids = fin
    OBVIOUS
  <2>3. ASSUME NEW rids \in ac[q]
        PROVE  /\ Injective(rids)
               /\ \A r \in Range(rids) : /\ r \in X /\ <<q, r>> \in H
                                         /\ \A other \in ac[q] : r \in Range(other) => other = rids
    <3>1. CASE rids = fin
      BY <2>1, <2>2, <3>1, Zenon DEF Told
    <3>2. CASE rids \in ab[q]
      BY <2>1, <2>2, <3>2, Zenon DEF Told
    <3> QED BY <2>2, <3>1, <3>2
  <2> QED BY <2>3, Zenon DEF Told
<1> QED BY <1>1, <1>2 DEF Doom

(* Requests that are finished join the list.                               *)
LEMMA DoomFinish ==
  ASSUME NEW fin, NEW ab, NEW X, NEW H, Doom(fin, ab, X, H), NEW Y, NEW J, Lasting(X, H, Y, J),
         NEW fin2, Injective(fin2),
         \A r \in Range(fin2) : \/ r \in Range(fin)
                                \/ /\ r \in Y /\ r \notin X
                                   /\ \A q \in Peer : q # FirstPeer => <<q, r>> \in J
  PROVE  Doom(fin2, ab, Y, J)
<1>1. /\ ab[FirstPeer] = {} /\ \A r \in Range(fin) : r \in X
      /\ \A q \in Peer : q # FirstPeer => Told(fin, ab[q], X, H, q)
  BY DEF Doom
<1>2. \A r \in Range(fin2) : r \in Y
  BY <1>1 DEF Lasting
<1>3. ASSUME NEW q \in Peer, q # FirstPeer
      PROVE  Told(fin2, ab[q], Y, J, q)
  <2>1. Told(fin, ab[q], Y, J, q) /\ Told(fin, ab[q], X, H, q)
    BY <1>1, <1>3, ToldMore
  <2>2. \A rids \in ab[q] : \A r \in Range(rids) : r \in X
    BY <2>1 DEF Told
  <2>3. \A r \in Range(fin2) : <<q, r>> \in J /\ \A rids \in ab[q] : r \notin Range(rids)
    BY <1>3, <2>1, <2>2, Zenon DEF Told
  <2> QED BY <2>1, <2>3, Zenon DEF Told
<1> QED BY <1>1, <1>2, <1>3 DEF Doom

(* A peer is told.                                                         *)
LEMMA DoomTold ==
  ASSUME NEW fin, NEW ab, NEW X, NEW H, Doom(fin, ab, X, H), NEW p \in Peer, NEW rids \in ab[p],
         NEW Y, NEW J, \A r \in X : r \in Y,
         \A q \in Peer : \A r \in X : <<q, r>> \in H => <<q, r>> \in J \/ (q = p /\ r \in Range(rids)),
         NEW ac, \A q \in Peer : q # p => ac[q] = ab[q], ac[p] = ab[p] \ {rids}
  PROVE  Doom(fin, ac, Y, J)
<1>1. /\ ab[FirstPeer] = {} /\ Injective(fin) /\ \A r \in Range(fin) : r \in X
      /\ \A q \in Peer : q # FirstPeer => Told(fin, ab[q], X, H, q)
  BY DEF Doom
<1>2. p # FirstPeer /\ ac[FirstPeer] = {}
  BY <1>1, FirstIsPeer
<1>3. ASSUME NEW q \in Peer, q # FirstPeer
      PROVE  Told(fin, ac[q], Y, J, q)
  <2>1. Told(fin, ab[q], X, H, q)
    BY <1>1, <1>3
  <2>2. CASE q # p
    <3>1. ac[q] = ab[q] /\ \A r \in X : <<q, r>> \in H => <<q, r>> \in J
      BY <2>2
    <3> QED BY <1>1, <2>1, <3>1, Zenon DEF Told
  <2>3. CASE q = p
    <3>1. /\ \A r \in X : <<q, r>> \in H => <<q, r>> \in J \/ r \in Range(rids)
          /\ \A l \in ac[q] : l \in ab[q] /\ l # rids
      BY <2>3
    <3>2. /\ \A r \in Range(fin) : r \notin Range(rids)
          /\ \A l \in ac[q] : \A r \in Range(l) : r \notin Range(rids)
      BY <2>1, <2>3, <3>1, Zenon DEF Told
    <3> QED BY <1>1, <2>1, <3>1, <3>2, Zenon DEF Told
  <2> QED BY <2>2, <2>3
<1> QED BY <1>1, <1>2, <1>3 DEF Doom

-----------------------------------------------------------------------------
\* A request that the first peer has not taken has no context anywhere.
FreshInv ==
  \A r \in Request : Fresh(r) => \A p \in Peer : sched[p].pool.context[r] = Absent

DoomInv == Steady => Doom(finished[FirstPeer], aborts, Over, InMemory)

PipeInv == LevelInv /\ FreshInv /\ DoomInv

\* No request is new to the first peer that was not new before.
NoneFresh == \A r \in Request : Fresh(r)' => Fresh(r)

\* What is over stays over.
Lasts == Lasting(Over, InMemory, Over', InMemory')

LEMMA FreshUnstarted ==
  ASSUME ExecInv, NEW r \in Request, Fresh(r)
  PROVE  Unstarted(r) /\ ~Started(Pending, forward, r)
  BY DEF ExecInv, IdleInv, NewInv, NewIn, Fresh, Unstarted

LEMMA SameQueueFresh ==
  ASSUME Undisturbed, http_in' = http_in
  PROVE  NoneFresh
  BY DEF Undisturbed, NoneFresh, Fresh

LEMMA InMemoryIs ==
  ASSUME NEW p \in Peer, NEW r \in Request
  PROVE  /\ <<p, r>> \in InMemory <=> sched[p].pool.context[r] # Absent
         /\ <<p, r>> \in InMemory' <=> sched'[p].pool.context[r] # Absent
  BY DEF InMemory

LEMMA OverIs ==
  ASSUME NEW r
  PROVE  /\ r \in Over <=> r \in Request /\ Unstarted(r) /\ ~Fresh(r)
         /\ r \in Over' <=> r \in Request /\ Unstarted(r)' /\ ~Fresh(r)'
  BY DEF Over

(* A step in which no request is aborted.                                  *)
LEMMA CalmKeeps ==
  ASSUME ExecInv, FreshInv, \A r \in Request : Unstarted(r) /\ ~Fresh(r) => Unstarted(r)',
         Calm, NoneFresh
  PROVE  FreshInv' /\ Lasts
<1>1. \A r \in Request : ~Started(Pending, forward, r) =>
        \A p \in Peer : sched'[p].pool.context[r] = sched[p].pool.context[r]
  BY DEF Calm
<1>2. \A r \in Request : Fresh(r)' => \A p \in Peer : sched'[p].pool.context[r] = Absent
  BY <1>1, FreshUnstarted DEF FreshInv, NoneFresh
<1>3. FreshInv'
  BY <1>2 DEF FreshInv
<1>4. \A r \in Over : r \in Over'
  BY OverIs DEF NoneFresh
<1>5. ASSUME NEW p \in Peer, NEW r \in Over, <<p, r>> \in InMemory
      PROVE  <<p, r>> \in InMemory'
  <2>1. r \in Request /\ ~Started(Pending, forward, r)
    BY OverIs DEF Unstarted
  <2> QED BY <1>1, <1>5, <2>1, InMemoryIs
<1> QED BY <1>3, <1>4, <1>5 DEF Lasts, Lasting

LEMMA UndisturbedOver ==
  ASSUME Undisturbed
  PROVE  \A r \in Request : Unstarted(r) /\ ~Fresh(r) => Unstarted(r)'
  BY DEF Undisturbed

LEMMA EmptyList == Range(<< >>) = {} /\ Injective(<< >>)
<1>1. PICK e \in Seq({}) : e = << >> /\ Len(e) = 0
  BY EmptySeq
<1>2. DOMAIN e = {}
  BY <1>1, LenProperties
<1> QED BY <1>1, <1>2 DEF Range, Injective

(* An iteration sends the finished list.                                   *)
LEMMA RanKeeps ==
  ASSUME ExecInv, FreshInv, DoomInv, Undisturbed, Calm, NEW p \in Peer, Ran(p)
  PROVE  FreshInv' /\ DoomInv' /\ (NoPeerDies => NoPeerDies')
<1>1. /\ finished \in [Peer -> Seq(Request)] /\ alive \in [Peer -> BOOLEAN]
      /\ aborts \in [Peer -> SUBSET Seq(Request)]
  BY DEF ExecInv, TypesInv
<1>2. /\ alive' = [alive EXCEPT ![p] = TRUE]
      /\ finished' = [finished EXCEPT ![p] = FlushedBatch(p)]
      /\ aborts' = Flush(p) /\ http_in' = http_in
  BY Zenon DEF Ran
<1>3. FreshInv' /\ Lasts
  BY <1>2, CalmKeeps, SameQueueFresh, UndisturbedOver
<1>4. ASSUME Steady
      PROVE  Doom(finished[FirstPeer], aborts, Over, InMemory)'
  <2>1. Doom(finished[FirstPeer], aborts, Over, InMemory)
    BY <1>4 DEF DoomInv
  <2>2. PICK ac : ac = aborts'
    OBVIOUS
  <2>3. PICK fin : fin = finished'[FirstPeer]
    OBVIOUS
  <2>4. Doom(fin, ac, Over, InMemory)
    <3>1. CASE p = FirstPeer
      <4>1. fin = << >>
        BY <1>1, <1>2, <2>3, <3>1 DEF FlushedBatch
      <4>2. \A q \in Peer : \/ \A rids \in ac[q] : rids \in aborts[q]
                            \/ q # FirstPeer /\ \A rids \in ac[q] : rids \in aborts[q] \/ rids = finished[FirstPeer]
        BY <1>2, <2>2, <3>1 DEF Flush
      <4> QED BY <2>1, <4>1, <4>2, EmptyList, DoomFlush
    <3>2. CASE p # FirstPeer
      <4>1. fin = finished[FirstPeer]
        BY <1>1, <1>2, <2>3, <3>2, FirstIsPeer
      <4>2. \A q \in Peer : ac[q] = aborts[q]
        BY <1>2, <2>2, <3>2 DEF Flush
      <4>3. Lasting(Over, InMemory, Over, InMemory)
        BY DEF Lasting
      <4> QED BY <2>1, <4>1, <4>2, <4>3, DoomMore
    <3> QED BY <3>1, <3>2
  <2>5. Doom(fin, ac, Over', InMemory')
    BY <1>3, <2>4, DoomMore DEF Lasts
  <2> QED BY <2>2, <2>3, <2>5
<1>5. DoomInv'
  BY <1>4 DEF DoomInv, Steady
<1>6. NoPeerDies => NoPeerDies'
  BY <1>1, <1>2 DEF NoPeerDies
<1> QED BY <1>3, <1>5, <1>6

(* Lists are lost, or nothing happens to them.                             *)
LEMMA DoomKept ==
  ASSUME DoomInv, Lasts, finished'[FirstPeer] = finished[FirstPeer],
         \A q \in Peer : \A rids \in aborts'[q] : rids \in aborts[q]
  PROVE  DoomInv'
<1>1. ASSUME Steady
      PROVE  Doom(finished[FirstPeer], aborts, Over, InMemory)'
  <2>1. Doom(finished[FirstPeer], aborts, Over, InMemory)
    BY <1>1 DEF DoomInv
  <2> QED BY <2>1, DoomMore DEF Lasts
<1> QED BY <1>1 DEF DoomInv, Steady

-----------------------------------------------------------------------------
LEMMA ViewIs ==
  ASSUME ExecInv, NEW p \in Peer
  PROVE  View(p).s = sched[p] /\ View(p).finished = finished[p] /\ View(p).dead = FALSE
  BY DEF View

(* A request whose token finishes it.                                      *)
LEMMA FinishedIsOver ==
  ASSUME ExecInv, LevelInv, NEW msg \in Seq(Msg), NEW r \in Request, r \in Ids(msg),
         InMessage(forward, r), Taken(FirstPeer, msg, forward', r), NoneFresh,
         NEW t, sched' = Update(sched, FirstPeer, t), t.wait = sched[FirstPeer].wait,
         r \notin Ids(t.running)
  PROVE  /\ r \in Over' /\ r \notin Over
         /\ Steady => \A q \in Peer : q # FirstPeer => <<q, r>> \in InMemory'
<1>1. sched \in [Peer -> AnySched] /\ FirstPeer \in Peer
  BY FirstIsPeer DEF ExecInv, TypesInv
<1>2. sched'[FirstPeer] = t /\ \A q \in Peer : q # FirstPeer => sched'[q] = sched[q]
  BY <1>1 DEF Update
<1>3. \A q \in Peer : ~PendingIn(sched[q], r) /\ \A st, n : ~Carries(forward'[q], r, st, n)
  BY DEF Taken
<1>4. \A q \in Peer : ~PendingIn(sched'[q], r)
  <2>1. ~PendingIn(t, r)
    BY <1>1, <1>3 DEF PendingIn, ReadyIn, Ids
  <2> QED BY <1>2, <1>3, <2>1
<1>5. ~InMessage(forward', r)
  <2>1. PICK gg : gg = forward'
    OBVIOUS
  <2>2. ASSUME InMessage(gg, r)
        PROVE  FALSE
    <3>1. PICK q \in Peer : \E i \in DOMAIN gg[q] : r \in Ids(gg[q][i])
      BY <2>2 DEF InMessage
    <3>2. PICK i \in DOMAIN gg[q] : r \in Ids(gg[q][i])
      BY <3>1
    <3>3. PICK j \in DOMAIN gg[q][i] : gg[q][i][j].rid = r
      BY <3>2 DEF Ids
    <3>4. Carries(gg[q], r, gg[q][i][j].status, gg[q][i][j].pos)
      BY <3>3 DEF Carries
    <3> QED BY <1>3, <2>1, <3>4
  <2> QED BY <2>1, <2>2
<1>6. Unstarted(r)'
  <2>1. \A q \in Peer : <<q, r>> \notin Pending'
    BY <1>4 DEF Pending
  <2>2. r \notin Ids(sched'[FirstPeer].running)
    BY <1>2
  <2> QED BY <1>5, <2>1, <2>2 DEF Unstarted, Started
<1>7. Started(Pending, forward, r)
  BY DEF Started
<1>8. ~Fresh(r)'
  BY <1>7, FreshUnstarted DEF NoneFresh
<1>9. r \in Over' /\ r \notin Over
  BY <1>6, <1>7, <1>8, OverIs DEF Unstarted
<1>10. ASSUME Steady, NEW q \in Peer, q # FirstPeer
       PROVE  <<q, r>> \in InMemory'
  <2>1. DecodeAt(Contexts(sched, r), FirstPeer)
    BY DecodesComeBack
  <2>2. Contexts(sched, r)[q] # Absent
    BY <1>10, <2>1 DEF DecodeAt
  <2>3. sched'[q].pool.context[r] # Absent
    BY <1>2, <1>10, <2>2 DEF Contexts
  <2> QED BY <2>3, InMemoryIs
<1> QED BY <1>9, <1>10

LEMMA FirstKeeps ==
  ASSUME NeedsBlocks, ExecInv, PipeInv, RecvForward(FirstPeer), Lasts, NoneFresh
  PROVE  DoomInv' /\ (NoPeerDies => NoPeerDies')
<1>1. PICK p \in Peer : p = FirstPeer
  BY FirstIsPeer
<1>2. /\ finished \in [Peer -> Seq(Request)] /\ alive \in [Peer -> BOOLEAN] /\ LevelInv
  BY DEF ExecInv, TypesInv, PipeInv
<1>3. /\ forward[p] # << >> /\ forward' = [forward EXCEPT ![p] = Tail(forward[p])]
      /\ aborts' = aborts
  BY <1>1 DEF RecvForward
<1>4. PICK msg : msg = Head(forward[p])
  OBVIOUS
<1>5. msg \in Seq(Msg) /\ \A r \in Ids(msg) : r \in Request /\ InMessage(forward, r)
  BY <1>3, <1>4, MessageTaken DEF ExecInv
<1>6. \A r \in Request : Taken(p, msg, forward', r)
  BY <1>3, <1>4, MessageIsTaken
<1>7. PICK w : Answered(msg, w)
  BY <1>1, <1>4, <1>5, FirstReceives
<1>8. PICK v : v = View(p)
  OBVIOUS
<1>9. v.s = sched[p] /\ v.finished = finished[p] /\ v.dead = FALSE
  BY <1>8, ViewIs
<1>10. /\ Install(p, w) /\ Keeps(sched[p], w.s, Ids(msg)) /\ Answers(v, w, Ids(msg))
  BY <1>1, <1>7, <1>8 DEF Answered
<1>11. /\ sched' = Update(sched, p, w.s) /\ finished' = [finished EXCEPT ![p] = w.finished]
       /\ alive' = [alive EXCEPT ![p] = ~w.dead]
  BY <1>10 DEF Install, Update
<1>12. w.dead = FALSE /\ Finishes(v, w, Ids(msg))
  BY <1>9, <1>10 DEF Answers
<1>13. NoPeerDies => NoPeerDies'
  <2>1. ~w.dead = TRUE
    BY <1>12, Zenon
  <2>2. alive' = [alive EXCEPT ![p] = TRUE]
    BY <1>11, <2>1, Zenon
  <2> QED BY <1>2, <2>2 DEF NoPeerDies
<1>14. finished'[FirstPeer] = w.finished
  BY <1>1, <1>2, <1>11
<1>15. ASSUME Steady
       PROVE  Doom(finished[FirstPeer], aborts, Over, InMemory)'
  <2>1. Doom(finished[p], aborts, Over, InMemory)
    BY <1>1, <1>15 DEF PipeInv, DoomInv
  <2>2. Closed(v)
    <3>1. Injective(finished[p]) /\ \A r \in Range(finished[p]) : r \in Over
      BY <2>1 DEF Doom
    <3>2. \A r \in Over : r \notin Ids(sched[p].running)
      BY <1>1, OverIs DEF Unstarted
    <3> QED BY <1>9, <3>1, <3>2 DEF Closed
  <2>3. Closed(w)
    BY <1>12, <2>2 DEF Finishes
  <2>4. \A r \in Range(w.finished) : \/ r \in Range(finished[p])
                                     \/ r \in Ids(msg) /\ r \notin Ids(w.s.running)
    BY <1>9, <1>12, <2>3 DEF Finishes, Closed
  <2>5. PICK t : t = w.s
    OBVIOUS
  <2>6. sched' = Update(sched, p, t) /\ t.wait = sched[p].wait
    BY <1>10, <1>11, <2>5 DEF Keeps
  <2>7. \A r \in Ids(msg) : r \notin Ids(t.running) =>
          /\ r \in Over' /\ r \notin Over
          /\ \A q \in Peer : q # FirstPeer => <<q, r>> \in InMemory'
    BY <1>1, <1>2, <1>5, <1>6, <1>15, <2>6, FinishedIsOver
  <2>8. Injective(w.finished)
    BY <2>3 DEF Closed
  <2>9. PICK fin2 : fin2 = w.finished
    OBVIOUS
  <2>10. \A r \in Range(fin2) :
           \/ r \in Range(finished[p])
           \/ /\ r \in Over' /\ r \notin Over
              /\ \A q \in Peer : q # FirstPeer => <<q, r>> \in InMemory'
    BY <2>4, <2>5, <2>7, <2>9
  <2>11. Doom(fin2, aborts, Over', InMemory')
    BY <2>1, <2>8, <2>9, <2>10, DoomFinish DEF Lasts
  <2> QED BY <1>3, <1>14, <2>9, <2>11
<1>16. DoomInv'
  BY <1>15 DEF DoomInv, Steady
<1> QED BY <1>13, <1>16

(* The decode steps of a message find their requests running.              *)
LEMMA StageWelcome ==
  ASSUME Steady, ExecInv, LevelInv, NEW p \in Peer, p # FirstPeer, NEW msg \in Seq(Msg),
         \A r \in Request : Taken(p, msg, forward', r)
  PROVE  Welcome(View(p), msg)
<1>1. View(p).s = sched[p] /\ View(p).dead = FALSE
  BY ViewIs
<1>2. ASSUME NEW j \in DOMAIN msg, msg[j].status = "decode"
      PROVE  sched[p].pool.context[msg[j].rid] # Absent
  <2>1. msg[j] \in Msg /\ DOMAIN msg = 1..Len(msg)
    BY ListFacts
  <2>2. PICK r \in Request : r = msg[j].rid
    BY <2>1 DEF Msg
  <2>3. PICK n : n = msg[j].pos
    OBVIOUS
  <2>4. Arrived(msg, Len(msg), r, "decode", n)
    BY <1>2, <2>1, <2>2, <2>3 DEF Arrived, IsStep
  <2>5. Carries(forward[p], r, "decode", n)
    BY <2>4 DEF Taken
  <2>6. InQueue(Contexts(sched, r), forward[p], p, r)
    BY DEF LevelInv, Levelled
  <2>7. DecodeAt(Contexts(sched, r), p)
    BY <2>5, <2>6 DEF InQueue, StepAt
  <2> QED BY <2>2, <2>7 DEF DecodeAt, Contexts
<1> QED BY <1>1, <1>2, Zenon DEF Welcome

LEMMA StageKeeps ==
  ASSUME ExecInv, PipeInv, NEW p \in Peer, p # FirstPeer, RecvForward(p), Lasts
  PROVE  DoomInv' /\ (Steady /\ NoPeerDies => NoPeerDies')
<1>1. /\ finished \in [Peer -> Seq(Request)] /\ alive \in [Peer -> BOOLEAN] /\ LevelInv /\ DoomInv
  BY DEF ExecInv, TypesInv, PipeInv
<1>2. /\ forward[p] # << >> /\ forward' = [forward EXCEPT ![p] = Tail(forward[p])]
      /\ aborts' = aborts
  BY DEF RecvForward
<1>3. PICK msg : msg = Head(forward[p])
  OBVIOUS
<1>4. msg \in Seq(Msg)
  BY <1>2, <1>3, MessageTaken DEF ExecInv
<1>5. \A r \in Request : Taken(p, msg, forward', r)
  BY <1>2, <1>3, MessageIsTaken
<1>6. PICK w : Joined(p, msg, w)
  BY <1>3, <1>4, StageReceives
<1>7. finished' = [finished EXCEPT ![p] = finished[p]] /\ alive' = [alive EXCEPT ![p] = ~w.dead]
  BY <1>6 DEF Joined, Install
<1>8. DoomInv'
  <2>1. finished'[FirstPeer] = finished[FirstPeer]
    BY <1>1, <1>7
  <2> QED BY <1>1, <1>2, <2>1, DoomKept
<1>9. ASSUME Steady, NoPeerDies
      PROVE  NoPeerDies'
  <2>1. ~w.dead = TRUE
    BY <1>1, <1>4, <1>5, <1>6, <1>9, StageWelcome, Zenon DEF Joined
  <2>2. alive' = [alive EXCEPT ![p] = TRUE]
    BY <1>7, <2>1, Zenon
  <2> QED BY <1>1, <1>9, <2>2 DEF NoPeerDies
<1> QED BY <1>8, <1>9

LEMMA RecvForwardPipe ==
  ASSUME NeedsBlocks, ExecInv, PipeInv, NEW p \in Peer, RecvForward(p)
  PROVE  PipeInv' /\ (Steady /\ NoPeerDies => NoPeerDies')
<1>1. LevelInv /\ FreshInv
  BY DEF PipeInv
<1>2. LevelInv' /\ Calm
  BY <1>1, RecvForwardLevel
<1>3. Undisturbed
  BY RecvForwardStep
<1>4. NoneFresh
  BY <1>3, SameQueueFresh DEF RecvForward
<1>5. FreshInv' /\ Lasts
  BY <1>1, <1>2, <1>3, <1>4, CalmKeeps, UndisturbedOver
<1>6. DoomInv' /\ (Steady /\ NoPeerDies => NoPeerDies')
  BY <1>4, <1>5, FirstKeeps, StageKeeps
<1> QED BY <1>2, <1>5, <1>6 DEF PipeInv

LEMMA RunPipe ==
  ASSUME NeedsBlocks, ExecInv, PipeInv, FirstPeer # LastPeer, NEW p \in Peer,
         RunBatch(p) \/ RunFails(p) \/ RunHalfFails(p)
  PROVE  PipeInv' /\ (NoPeerDies => NoPeerDies')
<1>1. LevelInv /\ FreshInv /\ DoomInv
  BY DEF PipeInv
<1>2. LevelInv' /\ Calm /\ Ran(p)
  BY <1>1, RunBatchLevel, RunFailsLevel, RunHalfFailsLevel
<1>3. Undisturbed
  BY RunBatchStep, RunFailsStep, RunHalfFailsStep
<1>4. FreshInv' /\ DoomInv' /\ (NoPeerDies => NoPeerDies')
  BY <1>1, <1>2, <1>3, RanKeeps
<1> QED BY <1>2, <1>4 DEF PipeInv

-----------------------------------------------------------------------------
LEMMA SameQueues ==
  ASSUME NEW ff, NEW r
  PROVE  FewerCarried(ff, ff, r)
  BY DEF FewerCarried

LEMMA CarriedIsInMessage ==
  ASSUME NEW ff, NEW r, ~InMessage(ff, r)
  PROVE  \A q \in Peer : \A st, n : ~Carries(ff[q], r, st, n)
  BY DEF InMessage, Carries, Ids

(* A peer aborts requests.                                                 *)
LEMMA AbortLevel ==
  ASSUME ExecInv, LevelInv, NEW p \in Peer, NEW t, NEW C, Loses(sched[p], t, C),
         NEW r \in Request, Steady /\ r \in C => ~Started(Pending, forward, r)
  PROVE  Levelled(Update(sched, p, t), forward, r)
<1>1. sched \in [Peer -> AnySched] /\ Levelled(sched, forward, r) /\ FewerCarried(forward, forward, r)
  BY SameQueues DEF ExecInv, TypesInv, LevelInv
<1>2. /\ FewerTasks(sched[p], t, r) /\ t.pool.context[r] \in {sched[p].pool.context[r], Absent}
      /\ r \notin C => Quiet(sched[p], t, r)
  BY LosesQuiet
<1>3. CASE r \notin C
  BY <1>1, <1>2, <1>3, QuietStep
<1>4. CASE ~Steady
  BY <1>1, <1>2, <1>4, LossStep
<1>5. CASE ~Started(Pending, forward, r)
  <2>1. ~InMessage(forward, r) /\ \A q \in Peer : ~PendingIn(sched[q], r)
    BY <1>5, NotStarted
  <2>2. \A q \in Peer : \A st, n : /\ ~Has(sched[q].wait, r, st, n)
                                   /\ ~HasReady(sched[q].running, r, st, n)
    BY <2>1, NotPending
  <2>3. \A st, n : ~Has(t.wait, r, st, n) /\ ~HasReady(t.running, r, st, n)
    BY <1>2, <2>2 DEF FewerTasks
  <2>4. \A q \in Peer : Update(sched, p, t)[q] = IF q = p THEN t ELSE sched[q]
    BY <1>1 DEF Update
  <2>5. \A q \in Peer : \A st, n : ~Carries(forward[q], r, st, n)
    BY <2>1, CarriedIsInMessage
  <2>6. Resting(Update(sched, p, t), forward, r)
    BY <2>2, <2>3, <2>4, <2>5 DEF Resting
  <2> QED BY <1>1, <1>2, <2>6, LossStep
<1> QED BY <1>3, <1>4, <1>5

LEMMA RecvAbortPipe ==
  ASSUME ExecInv, PipeInv, NEW p \in Peer, RecvAbort(p)
  PROVE  PipeInv' /\ (Steady /\ NoPeerDies => NoPeerDies')
<1>1. /\ finished \in [Peer -> Seq(Request)] /\ alive \in [Peer -> BOOLEAN]
      /\ aborts \in [Peer -> SUBSET Seq(Request)] /\ sched \in [Peer -> AnySched]
      /\ LevelInv /\ FreshInv /\ DoomInv
  BY DEF ExecInv, TypesInv, PipeInv
<1>2. PICK rids \in aborts[p] :
        /\ aborts' = [aborts EXCEPT ![p] = @ \ {rids}]
        /\ Install(p, Aborted(p, View(p), rids))
  BY Zenon DEF RecvAbort, Aborted
<1>3. rids \in Seq(Request) /\ forward' = forward /\ http_in' = http_in
  BY <1>1, <1>2, Zenon DEF RecvAbort
<1>4. PICK v : v = View(p)
  OBVIOUS
<1>5. PICK B \in Nat : B = PeerBlocks[p]
  BY BlocksType
<1>6. PICK k : k = K(p)
  OBVIOUS
<1>7. v \in ViewRec(k) /\ v.s = sched[p] /\ Good(k, B, v.s) /\ v.dead = FALSE
  BY <1>4, <1>5, <1>6, ViewFacts, ViewIs
<1>8. PICK w : w = Aborted(p, v, rids)
  OBVIOUS
<1>9. Loses(v.s, w.s, Range(rids)) /\ (Abortable(v, rids) => ~w.dead)
  BY <1>3, <1>7, <1>8, AbortsLose
<1>10. PICK t : t = w.s
  OBVIOUS
<1>11. /\ sched' = Update(sched, p, t) /\ finished' = [finished EXCEPT ![p] = w.finished]
       /\ alive' = [alive EXCEPT ![p] = ~w.dead]
  BY <1>2, <1>4, <1>8, <1>10 DEF Install, Update
<1>12. PICK C : C = Range(rids)
  OBVIOUS
<1>13. Loses(sched[p], t, C)
  BY <1>7, <1>9, <1>10, <1>12
<1>14. Undisturbed /\ NoneFresh
  BY <1>3, RecvAbortStep, SameQueueFresh
<1>15. sched'[p] = t /\ \A q \in Peer : q # p => sched'[q] = sched[q]
  BY <1>1, <1>11 DEF Update
<1>16. \A r \in Request :
         /\ t.pool.context[r] # Absent => t.pool.context[r] = sched[p].pool.context[r]
         /\ r \notin C => t.pool.context[r] = sched[p].pool.context[r]
  BY <1>13 DEF Loses
<1>17. FreshInv'
  <2>1. ASSUME NEW r \in Request, Fresh(r)', NEW q \in Peer
        PROVE  sched'[q].pool.context[r] = Absent
    <3>1. sched[q].pool.context[r] = Absent /\ sched[p].pool.context[r] = Absent
      BY <1>1, <1>14, <2>1 DEF FreshInv, NoneFresh
    <3>2. t.pool.context[r] = Absent
      BY <1>16, <3>1
    <3> QED BY <1>15, <3>1, <3>2
  <2> QED BY <2>1, Zenon DEF FreshInv
<1>18. ASSUME Steady
       PROVE  /\ p # FirstPeer /\ Injective(rids)
              /\ \A r \in Range(rids) : r \in Over /\ <<p, r>> \in InMemory
  <2>1. Doom(finished[FirstPeer], aborts, Over, InMemory)
    BY <1>1, <1>18 DEF DoomInv
  <2>2. p # FirstPeer
    BY <2>1 DEF Doom
  <2>3. Told(finished[FirstPeer], aborts[p], Over, InMemory, p)
    BY <2>1, <2>2 DEF Doom
  <2> QED BY <2>2, <2>3 DEF Told
<1>19. LevelInv'
  <2>1. \A r \in Request : Steady /\ r \in C => ~Started(Pending, forward, r)
    BY <1>12, <1>18, OverIs DEF Unstarted
  <2>2. \A r \in Request : Levelled(sched', forward', r)
    BY <1>1, <1>3, <1>11, <1>13, <2>1, AbortLevel
  <2> QED BY <2>2 DEF LevelInv
<1>20. ASSUME Steady
       PROVE  Doom(finished[FirstPeer], aborts, Over, InMemory)'
  <2>1. Doom(finished[FirstPeer], aborts, Over, InMemory) /\ p # FirstPeer
    BY <1>1, <1>18, <1>20 DEF DoomInv
  <2>2. finished'[FirstPeer] = finished[FirstPeer]
    BY <1>1, <1>11, <2>1, FirstIsPeer
  <2>3. \A r \in Over : r \in Over'
    BY <1>14, OverIs DEF Undisturbed, NoneFresh
  <2>4. \A q \in Peer : \A r \in Over : <<q, r>> \in InMemory =>
          <<q, r>> \in InMemory' \/ (q = p /\ r \in Range(rids))
    BY <1>12, <1>15, <1>16, InMemoryIs, OverIs
  <2>5. PICK ac : ac = aborts'
    OBVIOUS
  <2>6. ac[p] = aborts[p] \ {rids} /\ \A q \in Peer : q # p => ac[q] = aborts[q]
    BY <1>1, <1>2, <2>5
  <2>7. Doom(finished[FirstPeer], ac, Over', InMemory')
    BY <2>1, <2>3, <2>4, <2>6, DoomTold
  <2> QED BY <2>2, <2>5, <2>7
<1>21. DoomInv'
  BY <1>20 DEF DoomInv, Steady
<1>22. ASSUME Steady, NoPeerDies
       PROVE  NoPeerDies'
  <2>1. \A r \in Range(rids) : v.s.pool.context[r] # Absent
    BY <1>7, <1>18, <1>22, InMemoryIs, OverIs
  <2>2. Abortable(v, rids)
    BY <1>7, <1>18, <1>22, <2>1, Zenon DEF Abortable
  <2>3. ~w.dead = TRUE
    BY <1>9, <2>2, Zenon
  <2>4. alive' = [alive EXCEPT ![p] = TRUE]
    BY <1>11, <2>3, Zenon
  <2> QED BY <1>1, <1>22, <2>4 DEF NoPeerDies
<1> QED BY <1>17, <1>19, <1>21, <1>22 DEF PipeInv

(* No request's steps change.                                              *)
LEMMA SameLevel ==
  ASSUME ExecInv, LevelInv, NEW p \in Peer, NEW t, sched' = Update(sched, p, t),
         \A r \in Request : Quiet(sched[p], t, r) /\ FewerCarried(forward, forward', r)
  PROVE  LevelInv' /\ Calm
<1>1. sched \in [Peer -> AnySched] /\ \A r \in Request : Levelled(sched, forward, r)
  BY DEF ExecInv, TypesInv, LevelInv
<1>2. PICK gg : gg = forward'
  OBVIOUS
<1>3. \A r \in Request : Levelled(Update(sched, p, t), gg, r)
  BY <1>1, <1>2, QuietStep
<1>4. Calm
  BY CalmAt DEF Quiet
<1> QED BY <1>2, <1>3, <1>4 DEF LevelInv

LEMMA UnchangedLevel ==
  ASSUME ExecInv, LevelInv, sched' = sched,
         \A r \in Request : FewerCarried(forward, forward', r)
  PROVE  LevelInv' /\ Calm
<1>1. PICK p \in Peer : p = FirstPeer
  BY FirstIsPeer
<1>2. PICK t : t = sched[p]
  OBVIOUS
<1>3. sched' = Update(sched, p, t)
  BY <1>2 DEF ExecInv, TypesInv, Update
<1>4. \A r \in Request : Quiet(sched[p], t, r)
  BY <1>2 DEF Quiet, FewerTasks
<1> QED BY <1>3, <1>4, SameLevel

LEMMA LosePipe ==
  ASSUME ExecInv, PipeInv, NEW p \in Peer, Lose(p)
  PROVE  PipeInv' /\ (NoPeerDies => NoPeerDies')
<1>1. /\ UNCHANGED <<sched, finished, alive, http_in>> /\ LevelInv /\ FreshInv /\ DoomInv
      /\ aborts \in [Peer -> SUBSET Seq(Request)]
  BY DEF Lose, PipeInv, ExecInv, TypesInv
<1>2. /\ \A r \in Request : FewerCarried(forward, forward', r)
      /\ \A q \in Peer : \A rids \in aborts'[q] : rids \in aborts[q]
  <2>1. CASE forward[p] # << >> /\ forward' = [forward EXCEPT ![p] = Tail(forward[p])]
             /\ aborts' = aborts
    <3>1. PICK msg : msg = Head(forward[p])
      OBVIOUS
    <3>2. PICK gg : gg = forward'
      OBVIOUS
    <3>3. \A r \in Request : Taken(p, msg, gg, r)
      BY <2>1, <3>1, <3>2, MessageIsTaken
    <3> QED BY <2>1, <3>2, <3>3 DEF Taken
  <2>2. CASE (\E rids \in aborts[p] : aborts' = [aborts EXCEPT ![p] = @ \ {rids}])
             /\ forward' = forward
    BY <1>1, <2>2, SameQueues
  <2> QED BY <2>1, <2>2 DEF Lose
<1>3. LevelInv' /\ Calm
  BY <1>1, <1>2, UnchangedLevel
<1>4. Undisturbed /\ NoneFresh
  BY <1>1, LoseStep, SameQueueFresh
<1>5. FreshInv' /\ Lasts
  BY <1>1, <1>3, <1>4, CalmKeeps, UndisturbedOver
<1>6. DoomInv'
  BY <1>1, <1>2, <1>5, DoomKept
<1> QED BY <1>1, <1>3, <1>5, <1>6 DEF PipeInv, NoPeerDies

-----------------------------------------------------------------------------
(* The HTTP server and the first peer.                                     *)

LEMMA HttpTail ==
  ASSUME ExecInv, http_in # << >>, http_in' = Tail(http_in),
         \A r \in Request : client'[r] = "idle" => client[r] = "idle"
  PROVE  NoneFresh
<1>1. PICK L \in Seq(HttpMsg) : L = http_in /\ L # << >>
  BY DEF ExecInv, TypesInv
<1>2. PICK rest : rest = Tail(L)
  OBVIOUS
<1>3. \A i \in DOMAIN rest : i + 1 \in DOMAIN L /\ rest[i] = L[i + 1]
  BY <1>1, <1>2, TailFacts
<1>4. ASSUME NEW r \in Request, Fresh(r)'
      PROVE  Fresh(r)
  <2>1. CASE client'[r] = "idle"
    BY <2>1 DEF Fresh
  <2>2. CASE \E i \in DOMAIN rest : rest[i].kind = "new" /\ rest[i].rid = r
    BY <1>1, <1>3, <2>2 DEF Fresh
  <2> QED BY <1>1, <1>2, <1>4, <2>1, <2>2 DEF Fresh
<1> QED BY <1>4 DEF NoneFresh

(* A new request is level with its empty contexts.                         *)
LEMMA NewLevel ==
  ASSUME ExecInv, NEW r \in Request, ~Started(Pending, forward, r),
         \A q \in Peer : sched[q].pool.context[r] = Absent,
         NEW t, NEW s, s = sched[FirstPeer], NEW m, Enqueues(s, m, t, r), m.status = "prefill"
  PROVE  Levelled(Update(sched, FirstPeer, t), forward, r)
<1>1. sched \in [Peer -> AnySched] /\ FirstPeer \in Peer
  BY FirstIsPeer DEF ExecInv, TypesInv
<1>2. PICK c \in Context : c = Contexts(sched, r) /\ \A q \in Peer : c[q] = Absent
  BY <1>1, ContextsType
<1>3. ~InMessage(forward, r) /\ \A q \in Peer : ~PendingIn(sched[q], r)
  BY NotStarted
<1>4. \A st, n : ~Has(s.wait, r, st, n) /\ ~HasReady(s.running, r, st, n)
  BY <1>1, <1>3, NotPending
<1>5. \A st, n : (Has(t.wait, r, st, n) => st = "prefill") /\ ~HasReady(t.running, r, st, n)
  BY <1>4 DEF Enqueues, IsTask
<1>6. c = Update(Contexts(sched, r), FirstPeer, t.pool.context[r])
  BY <1>1, <1>2 DEF Enqueues, Update, Context
<1>7. InStep(c)
  BY <1>2 DEF InStep
<1>8. \A n : PrefillAt(c, FirstPeer, n)
  <2>1. \A q \in Peer : ~(FirstPeer < q /\ q < FirstPeer)
    BY PeerRange
  <2> QED BY <1>2, <2>1 DEF PrefillAt
<1>9. AtPeer(c, t, FirstPeer, r)
  BY <1>5, <1>8 DEF AtPeer
<1>10. \A q \in Peer : InQueue(c, forward[q], q, r)
  BY <1>3, CarriedIsInMessage DEF InQueue
<1> QED BY <1>1, <1>3, <1>6, <1>7, <1>9, <1>10, ActiveStep

LEMMA AcceptLevel ==
  ASSUME ExecInv, LevelInv, FreshInv, NEW m, m \in HttpMsg, Fresh(m.rid), forward' = forward,
         sched' = [sched EXCEPT ![FirstPeer] = enque_request(@, InitialRequest(m))]
  PROVE  LevelInv' /\ Calm
<1>1. PICK p \in Peer : p = FirstPeer
  BY FirstIsPeer
<1>2. PICK k : k = "initial" /\ k = K(p)
  BY <1>1 DEF K
<1>3. PICK s : s = sched[p]
  OBVIOUS
<1>4. s \in Sched(k)
  BY <1>2, <1>3 DEF ExecInv, PeersInv, Good
<1>5. PICK new \in Request : new = m.rid
  BY DEF HttpMsg
<1>6. PICK q \in Entry(k) : q = InitialRequest(m) /\ q.rid = new /\ q.status = "prefill"
  BY <1>2, <1>5, InitialRequestFacts
<1>7. PICK t : t = enque_request(s, q)
  OBVIOUS
<1>8. \A r \in Request : Enqueues(s, q, t, r)
  BY <1>4, <1>7, EnqueTasks
<1>9. sched' = Update(sched, p, t)
  BY <1>1, <1>3, <1>6, <1>7 DEF Update
<1>10. \A r \in Request : t.pool.context[r] = s.pool.context[r]
  BY <1>8 DEF Enqueues
<1>11. Calm
  BY <1>3, <1>9, <1>10, CalmAt
<1>12. sched \in [Peer -> AnySched]
  BY DEF ExecInv, TypesInv
<1>13. ASSUME NEW r \in Request
       PROVE  Levelled(Update(sched, p, t), forward, r)
  <2>1. Enqueues(s, q, t, r)
    BY <1>8
  <2>2. CASE r = new
    <3>1. ~Started(Pending, forward, r) /\ \A b \in Peer : sched[b].pool.context[r] = Absent
      BY <1>5, <2>2, FreshUnstarted DEF FreshInv
    <3> QED BY <1>1, <1>3, <1>6, <2>1, <3>1, NewLevel
  <2>3. CASE r # new
    <3>1. Quiet(s, t, r)
      BY <1>6, <2>1, <2>3 DEF Enqueues, IsTask, Quiet, FewerTasks
    <3>2. Levelled(sched, forward, r)
      BY DEF LevelInv
    <3> QED BY <1>3, <1>12, <3>1, <3>2, SameQueues, QuietStep
  <2> QED BY <2>2, <2>3
<1>14. \A r \in Request : Levelled(sched', forward', r)
  BY <1>9, <1>13
<1> QED BY <1>11, <1>14 DEF LevelInv

LEMMA CancelLevel ==
  ASSUME ExecInv, LevelInv, NEW rid, forward' = forward,
         sched' = [sched EXCEPT ![FirstPeer] = cancel_request(@, rid)]
  PROVE  LevelInv' /\ Calm
<1>1. PICK p \in Peer : p = FirstPeer
  BY FirstIsPeer
<1>2. PICK s : s = sched[p]
  OBVIOUS
<1>3. PICK k : k = K(p)
  OBVIOUS
<1>4. s \in Sched(k)
  BY <1>2, <1>3 DEF ExecInv, PeersInv, Good
<1>5. PICK t : t = cancel_request(s, rid)
  OBVIOUS
<1>6. Unreadied(s, {}, t)
  BY <1>4, <1>5, CancelTasks
<1>7. sched' = Update(sched, p, t)
  BY <1>1, <1>2, <1>5 DEF Update
<1>8. \A r \in Request : Quiet(sched[p], t, r)
  BY <1>2, <1>6 DEF Unreadied, OnlyReady, Quiet, FewerTasks
<1> QED BY <1>7, <1>8, SameLevel, SameQueues

LEMMA RecvHttpPipe ==
  ASSUME ExecInv, PipeInv, RecvHttp
  PROVE  PipeInv' /\ (NoPeerDies => NoPeerDies')
<1>1. /\ http_in # << >> /\ http_in' = Tail(http_in)
      /\ UNCHANGED <<finished, alive, forward, aborts>> /\ LevelInv /\ FreshInv /\ DoomInv
      /\ client \in [Request -> ClientState]
  BY DEF RecvHttp, PipeInv, ExecInv, TypesInv
<1>2. PICK m : m = Head(http_in)
  OBVIOUS
<1>3. m \in HttpMsg /\ (m.kind = "new" => Fresh(m.rid))
  <2>1. http_in \in Seq(HttpMsg)
    BY DEF ExecInv, TypesInv
  <2>2. 1 \in DOMAIN http_in /\ http_in[1] = m
    BY <1>1, <1>2, <2>1, HeadIsIn
  <2>3. m \in HttpMsg
    BY <2>1, <2>2, ListFacts
  <2> QED BY <2>2, <2>3 DEF Fresh
<1>4. \/ /\ m.kind = "new" /\ client' = client
         /\ sched' = [sched EXCEPT ![FirstPeer] = enque_request(@, InitialRequest(m))]
      \/ client' = NotifyError(client, m.rid) /\ sched' = sched
      \/ client' = client /\ sched' = [sched EXCEPT ![FirstPeer] = cancel_request(@, m.rid)]
      \/ client' = client /\ sched' = sched
  BY <1>2, Zenon DEF RecvHttp
<1>5. \A r \in Request : FewerCarried(forward, forward', r)
  BY <1>1, SameQueues
<1>6. LevelInv' /\ Calm
  <2>1. CASE /\ m.kind = "new"
             /\ sched' = [sched EXCEPT ![FirstPeer] = enque_request(@, InitialRequest(m))]
    BY <1>1, <1>3, <2>1, AcceptLevel
  <2>2. CASE sched' = sched
    BY <1>1, <1>5, <2>2, UnchangedLevel
  <2>3. CASE sched' = [sched EXCEPT ![FirstPeer] = cancel_request(@, m.rid)]
    <3>1. PICK rid : rid = m.rid
      OBVIOUS
    <3> QED BY <1>1, <2>3, <3>1, CancelLevel
  <2> QED BY <1>4, <2>1, <2>2, <2>3
<1>7. \A r \in Request : client'[r] = "idle" => client[r] = "idle"
  <2>1. CASE client' = client
    BY <2>1
  <2>2. CASE client' = NotifyError(client, m.rid)
    BY <1>1, <2>2 DEF NotifyError
  <2> QED BY <1>4, <2>1, <2>2
<1>8. NoneFresh
  BY <1>1, <1>7, HttpTail
<1>9. FreshInv' /\ Lasts
  BY <1>1, <1>6, <1>8, CalmKeeps, RecvHttpStep
<1>10. DoomInv'
  BY <1>1, <1>9, DoomKept
<1> QED BY <1>1, <1>6, <1>9, <1>10 DEF PipeInv, NoPeerDies

LEMMA ClientPipe ==
  ASSUME ExecInv, PipeInv, NEW r \in Request,
         Disconnect(r) \/ \E n \in PromptLens, k \in MaxNews : Submit(r, n, k)
  PROVE  PipeInv' /\ (NoPeerDies => NoPeerDies')
<1>1. UNCHANGED <<sched, finished, alive, forward, aborts>> /\ LevelInv /\ FreshInv /\ DoomInv
  BY DEF Submit, Disconnect, PipeInv
<1>2. \A a \in Request : FewerCarried(forward, forward', a)
  BY <1>1, SameQueues
<1>3. LevelInv' /\ Calm
  BY <1>1, <1>2, UnchangedLevel
<1>4. Undisturbed
  BY SubmitStep, DisconnectStep
<1>5. PICK m \in HttpMsg : /\ http_in' = Append(http_in, m)
                           /\ m.kind = "new" => m.rid = r /\ client[r] = "idle"
  <2>1. CASE Disconnect(r)
    <3>1. PICK m : m = [kind |-> "abort", rid |-> r, len |-> 0, max_new |-> 0]
      OBVIOUS
    <3>2. m \in HttpMsg /\ m.kind # "new"
      BY <3>1 DEF HttpMsg
    <3>3. http_in' = Append(http_in, m)
      BY <2>1, <3>1, Zenon DEF Disconnect
    <3> QED BY <3>2, <3>3
  <2>2. CASE \E n \in PromptLens, k \in MaxNews : Submit(r, n, k)
    <3>1. PICK n \in PromptLens, k \in MaxNews : Submit(r, n, k)
      BY <2>2
    <3>2. PICK m : m = [kind |-> "new", rid |-> r, len |-> n, max_new |-> k]
      OBVIOUS
    <3>3. m \in HttpMsg /\ m.rid = r
      BY <3>2, PipelineAssumption DEF HttpMsg
    <3>4. http_in' = Append(http_in, m) /\ client[r] = "idle"
      BY <3>1, <3>2, Zenon DEF Submit
    <3> QED BY <3>3, <3>4
  <2> QED BY <2>1, <2>2
<1>6. NoneFresh
  <2>1. PICK L \in Seq(HttpMsg) : L = http_in
    BY DEF ExecInv, TypesInv
  <2>2. PICK n \in Nat : n = Len(L) /\ DOMAIN L = 1..n
    BY ListFacts
  <2>3. PICK h : h = Append(L, m)
    OBVIOUS
  <2>5. DOMAIN h = 1..(n + 1) /\ h[n + 1] = m /\ \A i \in 1..n : h[i] = L[i]
    BY <1>5, <2>2, <2>3, AppendProperties, LenProperties
  <2>6. \A i \in 1..(n + 1) : i \in 1..n \/ i = n + 1
    BY <2>2
  <2>7. ASSUME NEW a \in Request, Fresh(a)'
        PROVE  Fresh(a)
    <3>1. CASE client'[a] = "idle"
      BY <1>4, <3>1 DEF Undisturbed, Fresh
    <3>2. CASE \E i \in DOMAIN h : h[i].kind = "new" /\ h[i].rid = a
      <4>1. PICK i \in 1..(n + 1) : h[i].kind = "new" /\ h[i].rid = a
        BY <2>5, <3>2
      <4>2. CASE i = n + 1
        BY <1>5, <2>5, <4>1, <4>2 DEF Fresh
      <4>3. CASE i \in 1..n
        BY <2>1, <2>2, <2>5, <4>1, <4>3 DEF Fresh
      <4> QED BY <2>6, <4>2, <4>3
    <3> QED BY <1>5, <2>1, <2>3, <2>7, <3>1, <3>2 DEF Fresh
  <2> QED BY <2>7 DEF NoneFresh
<1>7. FreshInv' /\ Lasts
  BY <1>1, <1>3, <1>4, <1>6, CalmKeeps, UndisturbedOver
<1>8. DoomInv'
  BY <1>1, <1>7, DoomKept
<1> QED BY <1>1, <1>3, <1>7, <1>8 DEF PipeInv, NoPeerDies

-----------------------------------------------------------------------------
(* The pipeline invariant holds at first and is kept by every step.        *)
LEMMA PipeInit ==
  ASSUME NeedsBlocks, Init
  PROVE  PipeInv /\ NoPeerDies /\ aborts[FirstPeer] = {}
<1>1. ExecInv /\ \A p \in Peer : DOMAIN forward[p] = {} /\ \A r : Gone(sched[p], r)
  BY ExecInit
<1>2. \A p \in Peer : \A r \in Request : sched[p].pool.context[r] = Absent
  BY <1>1 DEF ExecInv, PeersInv, Good, Gone
<1>3. ASSUME NEW r \in Request
      PROVE  Levelled(sched, forward, r)
  <2>1. PICK c : c = Contexts(sched, r)
    OBVIOUS
  <2>2. \A q \in Peer : c[q] = Absent
    BY <1>2, <2>1 DEF Contexts
  <2>3. InStep(c)
    BY <2>2 DEF InStep
  <2>4. \A p \in Peer : \A st, n : ~Has(sched[p].wait, r, st, n) /\ ~HasReady(sched[p].running, r, st, n)
    <3>1. ASSUME NEW p \in Peer
          PROVE  ~PendingIn(sched[p], r)
      <4>1. r \notin Ids(sched[p].wait) /\ r \notin Ids(sched[p].running)
        BY <1>1 DEF Gone
      <4> QED BY <4>1 DEF PendingIn, ReadyIn, Ids
    <3> QED BY <3>1, NotPending
  <2>5. \A p \in Peer : \A st, n : ~Carries(forward[p], r, st, n)
    BY <1>1 DEF Carries
  <2>6. \A p \in Peer : AtPeer(c, sched[p], p, r)
    BY <2>4 DEF AtPeer
  <2>7. \A p \in Peer : InQueue(c, forward[p], p, r)
    BY <2>5 DEF InQueue
  <2> QED BY <2>1, <2>3, <2>6, <2>7 DEF Levelled
<1>4. /\ finished[FirstPeer] = << >> /\ \A q \in Peer : aborts[q] = {} /\ alive[q] = TRUE
  BY FirstIsPeer DEF Init
<1>5. PICK fin : fin = finished[FirstPeer]
  OBVIOUS
<1>6. Injective(fin) /\ Range(fin) = {}
  BY <1>4, <1>5, EmptyList
<1>7. \A q \in Peer : Told(fin, aborts[q], Over, InMemory, q)
  BY <1>4, <1>6 DEF Told
<1>8. DoomInv
  BY <1>4, <1>5, <1>6, <1>7, FirstIsPeer DEF DoomInv, Doom
<1>9. FreshInv
  BY <1>2 DEF FreshInv
<1>10. LevelInv
  BY <1>3 DEF LevelInv
<1> QED BY <1>4, <1>8, <1>9, <1>10, FirstIsPeer DEF PipeInv, NoPeerDies

LEMMA PipeStutters ==
  ASSUME ExecInv, PipeInv, UNCHANGED vars
  PROVE  PipeInv' /\ (NoPeerDies => NoPeerDies')
<1>1. /\ UNCHANGED <<sched, finished, alive, forward, aborts, http_in, client>>
      /\ LevelInv /\ FreshInv /\ DoomInv
  BY DEF vars, PipeInv
<1>2. \A r \in Request : FewerCarried(forward, forward', r)
  BY <1>1, SameQueues
<1>3. LevelInv' /\ Calm
  BY <1>1, <1>2, UnchangedLevel
<1>4. NoneFresh /\ \A r \in Request : Unstarted(r) /\ ~Fresh(r) => Unstarted(r)'
  BY <1>1 DEF NoneFresh, Fresh, Unstarted, Pending
<1>5. FreshInv' /\ Lasts
  BY <1>1, <1>3, <1>4, CalmKeeps
<1>6. DoomInv'
  BY <1>1, <1>5, DoomKept
<1> QED BY <1>1, <1>3, <1>5, <1>6 DEF PipeInv, NoPeerDies

LEMMA PipeStep ==
  ASSUME NeedsBlocks, ExecInv, PipeInv, FirstPeer # LastPeer, [Next]_vars
  PROVE  PipeInv' /\ (Steady /\ NoPeerDies => NoPeerDies')
<1>1. CASE UNCHANGED vars
  BY <1>1, PipeStutters
<1>2. CASE \E r \in Request : \/ \E n \in PromptLens, k \in MaxNews : Submit(r, n, k)
                              \/ Disconnect(r)
  BY <1>2, ClientPipe
<1>3. CASE RecvHttp
  BY <1>3, RecvHttpPipe
<1>4. CASE \E p \in Peer : RecvForward(p)
  BY <1>4, RecvForwardPipe
<1>5. CASE \E p \in Peer : RecvAbort(p)
  BY <1>5, RecvAbortPipe
<1>6. CASE \E p \in Peer : Lose(p)
  BY <1>6, LosePipe
<1>7. CASE \E p \in Peer : RunBatch(p) \/ RunFails(p) \/ RunHalfFails(p)
  BY <1>7, RunPipe
<1> QED BY <1>1, <1>2, <1>3, <1>4, <1>5, <1>6, <1>7 DEF Next
-----------------------------------------------------------------------------
(* A single node has nobody to tell.                                       *)
AloneInv == NoPeerDies /\ aborts[FirstPeer] = {}

LEMMA Survives ==
  ASSUME ExecInv, NEW p \in Peer, NEW w, Install(p, w), w.dead = FALSE
  PROVE  NoPeerDies => NoPeerDies'
<1>1. ~w.dead = TRUE
  BY Zenon
<1>2. alive \in [Peer -> BOOLEAN]
  BY DEF ExecInv, TypesInv
<1>3. alive' = [alive EXCEPT ![p] = TRUE]
  BY <1>1, Zenon DEF Install
<1> QED BY <1>2, <1>3 DEF NoPeerDies

LEMMA AloneFlush ==
  ASSUME FirstPeer = LastPeer, NEW p \in Peer, NEW rids, BeforeBatch(p, rids)
  PROVE  aborts'[FirstPeer] = aborts[FirstPeer]
BY FirstIsPeer DEF BeforeBatch, Flush

\* The tokens of the steps L of the batch of it, handled at once.
LEMMA AloneTokens ==
  ASSUME NeedsBlocks, ExecInv, NEW p \in Peer, NEW rids, NEW it, it = Iteration(p, rids),
         NEW L \in Seq(Entry(K(p))), NEW eos, NEW w, w = Locally(it.view, L, eos)
  PROVE  w.dead = FALSE /\ w \in ViewRec(K(p)) /\ Good(K(p), PeerBlocks[p], w.s)
<1>1. PICK v : v = it.view
  OBVIOUS
<1>2. PICK k : k = K(p)
  OBVIOUS
<1>3. PICK B \in Nat : B = PeerBlocks[p]
  BY BlocksType
<1>4. v \in ViewRec(k) /\ Good(k, B, v.s)
  BY <1>1, <1>2, <1>3, IterationFacts DEF IsIteration
<1>5. v.dead = FALSE
  <2>1. PICK a : a = Scheduled(p, rids)
    OBVIOUS
  <2>2. Computes(p, a, it)
    BY <2>1, IterationComputes
  <2> QED BY <1>1, <2>2 DEF Computes
<1>6. w = Locally(v, L, eos) /\ L \in Seq(Entry(k))
  BY <1>1, <1>2
<1>7. w \in ViewRec(k) /\ Good(k, B, w.s)
  BY <1>4, <1>6, LocallyFacts DEF Handled
<1>8. w.dead = FALSE
  <2>1. CASE FirstPeer # LastPeer
    BY <1>5, <1>6, <2>1 DEF Locally
  <2>2. CASE FirstPeer = LastPeer
    <3>1. PICK X : X = Entry(k)
      OBVIOUS
    <3>2. \A i \in DOMAIN L : L[i].rid \in Request
      <4>1. \A q \in X : q.rid \in Request
        BY <3>1 DEF Entry, ReqRec
      <4> QED BY <1>6, <3>1, <4>1, ListFacts
    <3>3. Answers(v, HandleTokens(v, L, eos), Ids(L))
      BY <1>4, <1>6, <3>1, <3>2, TokensAnswer
    <3>4. w = HandleTokens(v, L, eos)
      BY <1>6, <2>2 DEF Locally
    <3> QED BY <1>5, <3>3, <3>4 DEF Answers
  <2> QED BY <2>1, <2>2
<1> QED BY <1>2, <1>3, <1>7, <1>8

LEMMA AloneRuns ==
  ASSUME NeedsBlocks, ExecInv, FirstPeer = LastPeer, NEW p \in Peer,
         RunBatch(p) \/ RunFails(p) \/ RunHalfFails(p)
  PROVE  aborts'[FirstPeer] = aborts[FirstPeer] /\ (NoPeerDies => NoPeerDies')
<1>1. ASSUME RunBatch(p)
      PROVE  \E rids, w : BeforeBatch(p, rids) /\ Install(p, w) /\ w.dead = FALSE
  <2>1. PICK rids \in Overdue(p) :
          /\ BeforeBatch(p, rids)
          /\ \E eos \in NewTokens(Iteration(p, rids).batch) :
               Install(p, Locally(Iteration(p, rids).view, Prefills(Iteration(p, rids).batch)
                                                       \o Decodes(Iteration(p, rids).batch), eos))
    BY <1>1, Zenon DEF RunBatch
  <2>2. PICK it : it = Iteration(p, rids)
    OBVIOUS
  <2>3. PICK batch : batch = it.batch
    OBVIOUS
  <2>4. PICK k : k = K(p)
    OBVIOUS
  <2>5. batch \in Seq(Entry(k)) /\ Distinct(batch)
    BY <2>2, <2>3, <2>4, IterationFacts DEF IsIteration
  <2>6. PICK pre : pre = Prefills(batch)
    OBVIOUS
  <2>7. PICK dec : dec = Decodes(batch)
    OBVIOUS
  <2>8. pre \in Seq(Entry(k)) /\ dec \in Seq(Entry(k))
    BY <2>5, <2>6, <2>7, PartsFacts
  <2>9. PICK L : L = pre \o dec
    OBVIOUS
  <2>10. L \in Seq(Entry(K(p)))
    BY <2>4, <2>8, <2>9, ConcatIds
  <2>11. PICK eos : Install(p, Locally(it.view, L, eos))
    BY <2>1, <2>2, <2>3, <2>6, <2>7, <2>9
  <2>12. PICK w : w = Locally(it.view, L, eos)
    OBVIOUS
  <2>13. w.dead = FALSE
    BY <2>2, <2>10, <2>12, AloneTokens
  <2> QED BY <2>1, <2>11, <2>12, <2>13
<1>2. ASSUME RunHalfFails(p)
      PROVE  \E rids, w : BeforeBatch(p, rids) /\ Install(p, w) /\ w.dead = FALSE
  <2>1. PICK rids \in Overdue(p) :
          /\ BeforeBatch(p, rids)
          /\ \E eos \in NewTokens(Prefills(Iteration(p, rids).batch)) :
               Install(p, ReleaseBatch(Locally(Iteration(p, rids).view,
                                               Prefills(Iteration(p, rids).batch), eos),
                                       Iteration(p, rids).batch))
    BY <1>2, Zenon DEF RunHalfFails
  <2>2. PICK it : it = Iteration(p, rids)
    OBVIOUS
  <2>3. PICK batch : batch = it.batch
    OBVIOUS
  <2>4. PICK k : k = K(p)
    OBVIOUS
  <2>5. batch \in Seq(Entry(k)) /\ Distinct(batch)
    BY <2>2, <2>3, <2>4, IterationFacts DEF IsIteration
  <2>6. PICK L : L = Prefills(batch)
    OBVIOUS
  <2>7. L \in Seq(Entry(k))
    BY <2>5, <2>6, PartsFacts
  <2>8. PICK eos : Install(p, ReleaseBatch(Locally(it.view, L, eos), batch))
    BY <2>1, <2>2, <2>3, <2>6
  <2>9. PICK v : v = Locally(it.view, L, eos)
    OBVIOUS
  <2>10. PICK B \in Nat : B = PeerBlocks[p]
    BY BlocksType
  <2>11. v.dead = FALSE /\ v \in ViewRec(k) /\ Good(k, B, v.s)
    BY <2>2, <2>4, <2>7, <2>9, <2>10, AloneTokens
  <2>12. PICK w : w = ReleaseBatch(v, batch)
    OBVIOUS
  <2>13. w.dead = FALSE
    BY <2>5, <2>11, <2>12, BatchDropped
  <2> QED BY <2>1, <2>8, <2>9, <2>12, <2>13
<1>3. ASSUME NEW rids, NEW w, BeforeBatch(p, rids), Install(p, w), w.dead = FALSE
      PROVE  aborts'[FirstPeer] = aborts[FirstPeer] /\ (NoPeerDies => NoPeerDies')
  BY <1>3, AloneFlush, Survives
<1>4. ASSUME RunFails(p)
      PROVE  \E rids, w : BeforeBatch(p, rids) /\ Install(p, w) /\ w.dead = FALSE
  <2>1. PICK rids \in Overdue(p) :
          /\ BeforeBatch(p, rids)
          /\ Install(p, ReleaseBatch(Iteration(p, rids).view, Iteration(p, rids).batch))
    BY <1>4, Zenon DEF RunFails
  <2>2. PICK it : it = Iteration(p, rids)
    OBVIOUS
  <2>3. PICK k : k = K(p)
    OBVIOUS
  <2>4. PICK B \in Nat : B = PeerBlocks[p]
    BY BlocksType
  <2>5. PICK v : v = it.view
    OBVIOUS
  <2>6. PICK batch : batch = it.batch
    OBVIOUS
  <2>7. v \in ViewRec(k) /\ Good(k, B, v.s) /\ batch \in Seq(Entry(k))
    BY <2>2, <2>3, <2>4, <2>5, <2>6, IterationFacts DEF IsIteration
  <2>8. v.dead = FALSE
    <3>1. PICK a : a = Scheduled(p, rids)
      OBVIOUS
    <3>2. Computes(p, a, it)
      BY <2>2, <3>1, IterationComputes
    <3> QED BY <2>5, <3>2 DEF Computes
  <2>9. PICK w : w = ReleaseBatch(v, batch)
    OBVIOUS
  <2>10. w.dead = FALSE
    BY <2>7, <2>8, <2>9, BatchDropped
  <2> QED BY <2>1, <2>2, <2>5, <2>6, <2>9, <2>10
<1> QED BY <1>1, <1>2, <1>3, <1>4

LEMMA AloneStep ==
  ASSUME NeedsBlocks, ExecInv, AloneInv, FirstPeer = LastPeer, [Next]_vars
  PROVE  AloneInv'
<1>1. \A p \in Peer : p = FirstPeer
  BY DEF Peer, FirstPeer, LastPeer
<1>2. aborts \in [Peer -> SUBSET Seq(Request)] /\ aborts[FirstPeer] = {} /\ NoPeerDies
  BY DEF ExecInv, TypesInv, AloneInv
<1>3. CASE UNCHANGED vars
  BY <1>2, <1>3 DEF vars, AloneInv, NoPeerDies
<1>4. CASE \E r \in Request : \/ \E n \in PromptLens, k \in MaxNews : Submit(r, n, k)
                              \/ Disconnect(r)
  <2>1. UNCHANGED <<alive, aborts>>
    BY <1>4 DEF Submit, Disconnect
  <2> QED BY <1>2, <2>1 DEF AloneInv, NoPeerDies
<1>5. CASE RecvHttp
  <2>1. UNCHANGED <<alive, aborts>>
    BY <1>5 DEF RecvHttp
  <2> QED BY <1>2, <2>1 DEF AloneInv, NoPeerDies
<1>6. CASE \E p \in Peer : RecvForward(p)
  <2>1. RecvForward(FirstPeer)
    BY <1>1, <1>6
  <2>2. PICK p \in Peer : p = FirstPeer
    BY FirstIsPeer
  <2>3. /\ forward[p] # << >> /\ forward' = [forward EXCEPT ![p] = Tail(forward[p])]
        /\ aborts' = aborts
    BY <2>1, <2>2 DEF RecvForward
  <2>4. PICK msg : msg = Head(forward[p])
    OBVIOUS
  <2>5. msg \in Seq(Msg) /\ msg = Head(forward[FirstPeer])
    BY <2>2, <2>3, <2>4, MessageTaken DEF ExecInv
  <2>6. PICK w : Answered(msg, w)
    BY <2>1, <2>5, FirstReceives
  <2>7. Install(FirstPeer, w) /\ w.dead = FALSE
    BY <2>6, FirstIsPeer, ViewIs DEF Answered, Answers
  <2>8. NoPeerDies'
    BY <1>2, <2>7, FirstIsPeer, Survives
  <2> QED BY <1>2, <2>3, <2>8 DEF AloneInv
<1>7. CASE \E p \in Peer : RecvAbort(p)
  BY <1>1, <1>2, <1>7 DEF RecvAbort
<1>8. CASE \E p \in Peer : Lose(p)
  <2>1. PICK p \in Peer : Lose(p)
    BY <1>8
  <2>2. alive' = alive /\ aborts' = aborts
    BY <1>1, <1>2, <2>1 DEF Lose
  <2> QED BY <1>2, <2>2 DEF AloneInv, NoPeerDies
<1>9. CASE \E p \in Peer : RunBatch(p) \/ RunFails(p) \/ RunHalfFails(p)
  <2>1. aborts'[FirstPeer] = aborts[FirstPeer] /\ (NoPeerDies => NoPeerDies')
    BY <1>9, AloneRuns
  <2> QED BY <1>2, <2>1 DEF AloneInv
<1> QED BY <1>3, <1>4, <1>5, <1>6, <1>7, <1>8, <1>9 DEF Next

-----------------------------------------------------------------------------
(* What every reachable state of the pipeline satisfies.                   *)
AllInv ==
  /\ ExecInv
  /\ FirstPeer # LastPeer => PipeInv /\ (Steady => NoPeerDies)
  /\ FirstPeer = LastPeer => AloneInv

LEMMA AllInvariant ==
  ASSUME NeedsBlocks
  PROVE  Spec => []AllInv
<1>1. Init => AllInv
  BY ExecInit, PipeInit DEF AllInv, AloneInv
<1>2. AllInv /\ [Next]_vars => AllInv'
  <2> SUFFICES ASSUME AllInv, [Next]_vars PROVE AllInv'
    OBVIOUS
  <2>1. ExecInv'
    BY ExecStep DEF AllInv
  <2>2. CASE FirstPeer # LastPeer
    <3>1. PipeInv' /\ (Steady => NoPeerDies')
      BY <2>2, PipeStep DEF AllInv
    <3> QED BY <2>1, <2>2, <3>1 DEF AllInv, Steady
  <2>3. CASE FirstPeer = LastPeer
    <3>1. AloneInv'
      BY <2>3, AloneStep DEF AllInv
    <3> QED BY <2>1, <2>3, <3>1 DEF AllInv
  <2> QED BY <2>2, <2>3
<1> QED BY <1>1, <1>2, PTL DEF Spec

(* The KV caches of the peers advance together: at two peers that both hold *)
(* a request, the earlier one is level with the later one or one token     *)
(* ahead, whatever is cancelled, aborted, lost, timed out or fails.        *)
THEOREM CachesAdvanceTogether ==
  ASSUME NeedsBlocks
  PROVE  Spec => []ContextsInStep
<1>1. ASSUME AllInv PROVE ContextsInStep
  <2> SUFFICES ASSUME NEW p \in Peer, NEW q \in Peer, NEW r \in Resident(p) \cap Resident(q), p < q
               PROVE  sched[p].pool.context[r] - sched[q].pool.context[r] \in {0, 1}
    BY DEF ContextsInStep
  <2>1. r \in Request /\ sched[p].pool.context[r] # Absent /\ sched[q].pool.context[r] # Absent
    BY DEF Resident, has_request
  <2>2. FirstPeer # LastPeer
    BY PeerRange
  <2>3. PICK c : c = Contexts(sched, r)
    OBVIOUS
  <2>4. InStep(c)
    BY <1>1, <2>1, <2>2, <2>3 DEF AllInv, PipeInv, LevelInv, Levelled
  <2>5. c[p] = sched[p].pool.context[r] /\ c[q] = sched[q].pool.context[r]
    BY <2>3 DEF Contexts
  <2> QED BY <2>1, <2>4, <2>5 DEF InStep
<1> QED BY <1>1, AllInvariant, PTL

(* No exception leaves a run_loop: a decode step finds its request running *)
(* and so does an abort message.  The hypothesis leaves out a batch that   *)
(* fails, in a pipeline, between its prefills and its decodes: its         *)
(* requests are released although their prefill is on its way, so that     *)
(* what comes back is for a request that a peer no longer has.             *)
THEOREM NoExceptionEscapes ==
  ASSUME NeedsBlocks, NumPeers = 1 \/ "half_error" \notin Faults
  PROVE  Spec => []NoPeerDies
<1>1. ASSUME AllInv PROVE NoPeerDies
  BY <1>1 DEF AllInv, AloneInv, Steady, FirstPeer, LastPeer
<1> QED BY <1>1, AllInvariant, PTL
=============================================================================
