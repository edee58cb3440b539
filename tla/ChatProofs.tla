------------------------------ MODULE ChatProofs ----------------------------
(***************************************************************************)
(* Proofs about the chat page.  A conversation, for any formats, texts and *)
(* bounds: the status says whether a request runs, and every answer is the *)
(* text of its own request, wherever chunks cut it.  At the end, the page  *)
(* around it, for any bounds: its dialog and its list of messages.         *)
(*                                                                         *)
(* A body is a sequence of pieces, two per line.  The first part says what *)
(* the client has of the text after any number of pieces; that is the only *)
(* induction (over the lines of a buffer).  The second part is the         *)
(* inductive invariant: where the request that runs is in its body, and    *)
(* that the last message is its question or what has been read so far.     *)
(***************************************************************************)
EXTENDS ChatService, AlertDialog, MessageView, SequenceTheorems, WellFoundedInduction, TLAPS

(* What the inductions start from: a set of naturals that is not empty has *)
(* a least element.                                                        *)
LEMMA LeastElement == \A T \in SUBSET Nat : T # {} => \E x \in T : \A y \in T : x <= y
<1> SUFFICES ASSUME NEW T \in SUBSET Nat, T # {} PROVE \E x \in T : \A y \in T : x <= y
  OBVIOUS
<1>1. \E x \in T : \A y \in T : ~(<<y, x>> \in OpToRel(<, Nat))
  BY NatLessThanWellFounded, WFMin
<1>2. \A x, y \in Nat : <<y, x>> \in OpToRel(<, Nat) <=> y < x
  BY DEF OpToRel
<1>3. PICK x \in T : \A y \in T : ~(y < x)
  BY <1>1, <1>2
<1> QED BY <1>3

Text == Seq(Token)
Line == Token \cup {"blank"}
Piece == [tok : Line, last : BOOLEAN]

\* Pieces of a body.
Size(out) == 2 * (Len(out) + 2)

\* Tokens of the text in its first h lines.
Count(out, h) == IF h = 0 THEN 0 ELSE IF h - 1 > Len(out) THEN Len(out) ELSE h - 1

\* What is left and what is in the buffer after h lines, and half a line when b is 1.
LeftAt(out, h, b)   == SubSeq(Body(out), 2 * h + b + 1, Size(out))
BufferAt(out, h, b) == SubSeq(Body(out), 2 * h + 1, 2 * h + b)
-----------------------------------------------------------------------------
(* Bodies.                                                                 *)

LEMMA LinesFacts ==
    ASSUME NEW out \in Text
    PROVE  /\ Lines(out) \in Seq(Line) /\ Len(Lines(out)) = Len(out) + 2
           /\ Lines(out)[1] = "blank" /\ Lines(out)[Len(out) + 2] = "blank"
           /\ \A i \in 1..Len(out) : Lines(out)[i + 1] = out[i]
<1>1. out \in Seq(Line) /\ Len(out) \in Nat
  BY SeqMonotonic, LenProperties DEF Text, Line
<1> DEFINE blank == <<"blank">>
<1>2. blank \in Seq(Line) /\ Len(blank) = 1 /\ blank[1] = "blank"
  BY DEF Line
<1> HIDE DEF blank
<1> DEFINE head == blank \o out
<1>3. /\ head \in Seq(Line) /\ Len(head) = 1 + Len(out)
      /\ \A i \in 1..(1 + Len(out)) : head[i] = IF i <= 1 THEN blank[i] ELSE out[i - 1]
  <2>1. /\ head \in Seq(Line) /\ Len(head) = Len(blank) + Len(out)
        /\ \A i \in 1..(Len(blank) + Len(out)) :
             head[i] = IF i <= Len(blank) THEN blank[i] ELSE out[i - Len(blank)]
    BY <1>1, <1>2, ConcatProperties, Zenon
  <2> QED BY <1>2, <2>1
<1> HIDE DEF head
<1> DEFINE n == Len(out)
<1>4. /\ head \o blank \in Seq(Line) /\ Len(head \o blank) = 1 + n + 1
      /\ \A i \in 1..(1 + n + 1) :
           (head \o blank)[i] = IF i <= 1 + n THEN head[i] ELSE blank[i - (1 + n)]
  <2> DEFINE w == head \o blank
  <2>1. /\ w \in Seq(Line) /\ Len(w) = Len(head) + Len(blank)
        /\ \A i \in 1..(Len(head) + Len(blank)) :
             w[i] = IF i <= Len(head) THEN head[i] ELSE blank[i - Len(head)]
    BY <1>2, <1>3, ConcatProperties, Zenon
  <2> HIDE DEF w
  <2> QED BY <1>2, <1>3, <2>1 DEF w
<1>5. Lines(out) = head \o blank
  BY DEF Lines, head, blank
<1>6. n \in Nat
  BY <1>1
<1>7. Lines(out) \in Seq(Line) /\ Len(Lines(out)) = n + 2
  BY <1>4, <1>5, <1>6
<1>8. Lines(out)[1] = "blank"
  BY <1>2, <1>3, <1>4, <1>5, <1>6
<1>9. Lines(out)[n + 2] = "blank"
  BY <1>2, <1>4, <1>5, <1>6
<1>10. \A i \in 1..n : Lines(out)[i + 1] = out[i]
  BY <1>3, <1>4, <1>5, <1>6
<1> QED BY <1>7, <1>8, <1>9, <1>10

LEMMA BodyFacts ==
    ASSUME NEW out \in Text
    PROVE  /\ Len(out) \in Nat /\ Size(out) \in Nat
           /\ Body(out) \in Seq(Piece) /\ Len(Body(out)) = Size(out)
           /\ \A j \in 1..(Len(out) + 2) :
                /\ Body(out)[2 * j] = [tok |-> Lines(out)[j], last |-> TRUE]
                /\ Body(out)[2 * j - 1] = [tok |-> Lines(out)[j], last |-> FALSE]
<1> DEFINE n == Len(out)
<1>1. n \in Nat /\ Size(out) \in Nat /\ Size(out) = 2 * (n + 2)
  BY LenProperties DEF Text, Size
<1>2. Lines(out) \in Seq(Line) /\ Len(Lines(out)) = n + 2
  BY LinesFacts
<1>3. \A j \in 1..(n + 2) : Lines(out)[j] \in Line
  BY <1>1, <1>2, ElementOfSeq
<1>4. Body(out) = [i \in 1..Size(out) |->
                     [tok |-> Lines(out)[(i + 1) \div 2], last |-> i % 2 = 0]]
  BY <1>1, <1>2 DEF Body
<1> HIDE DEF n
<1>5. \A i \in 1..Size(out) : (i + 1) \div 2 \in 1..(n + 2)
  BY <1>1
<1>6. Body(out) \in [1..Size(out) -> Piece]
  BY <1>3, <1>4, <1>5 DEF Piece
<1>7. Body(out) \in Seq(Piece) /\ Len(Body(out)) = Size(out)
  BY <1>1, <1>6, SeqDef, LenProperties
<1>8. ASSUME NEW j \in 1..(n + 2)
      PROVE  /\ 2 * j \in 1..Size(out) /\ 2 * j - 1 \in 1..Size(out)
             /\ (2 * j + 1) \div 2 = j /\ (2 * j - 1 + 1) \div 2 = j
             /\ (2 * j) % 2 = 0 /\ (2 * j - 1) % 2 # 0
  BY <1>1
<1>9. \A j \in 1..(n + 2) :
         /\ Body(out)[2 * j] = [tok |-> Lines(out)[j], last |-> TRUE]
         /\ Body(out)[2 * j - 1] = [tok |-> Lines(out)[j], last |-> FALSE]
  BY <1>4, <1>8
<1> QED BY <1>1, <1>7, <1>9 DEF n
-----------------------------------------------------------------------------
(* Slices.                                                                 *)

LEMMA SliceFacts ==
    ASSUME NEW S, NEW s \in Seq(S), NEW m \in Nat, NEW n \in Nat, m + n <= Len(s)
    PROVE  /\ Len(SubSeq(s, m + 1, Len(s))) = Len(s) - m
           /\ SubSeq(SubSeq(s, m + 1, Len(s)), 1, n) = SubSeq(s, m + 1, m + n)
           /\ SubSeq(SubSeq(s, m + 1, Len(s)), n + 1, Len(s) - m) = SubSeq(s, m + n + 1, Len(s))
<1> DEFINE z == Len(s)
           tail == SubSeq(s, m + 1, z)
<1>1. z \in Nat /\ \A i \in 1..z : s[i] \in S
  BY LenProperties, ElementOfSeq
<1>2. /\ tail \in Seq(S) /\ Len(tail) = z - m
      /\ \A i \in 1..(z - m) : tail[i] = s[m + i]
  <2>1. \A i \in (m + 1)..z : s[i] \in S
    BY <1>1
  <2>2. /\ tail \in Seq(S) /\ Len(tail) = (IF m + 1 <= z THEN z - (m + 1) + 1 ELSE 0)
        /\ \A i \in 1..(z - (m + 1) + 1) : tail[i] = s[m + 1 + i - 1]
    BY <1>1, <2>1, SubSeqProperties
  <2> QED BY <1>1, <2>2
<1> HIDE DEF z, tail
<1>3. m + n <= z
  BY DEF z
<1>4. SubSeq(tail, 1, n) = SubSeq(s, m + 1, m + n)
  <2> DEFINE a == SubSeq(tail, 1, n)
             b == SubSeq(s, m + 1, m + n)
  <2>1. /\ a \in Seq(S) /\ Len(a) = n /\ \A i \in 1..n : a[i] = tail[i]
    <3>1. \A i \in 1..n : tail[i] \in S
      BY <1>1, <1>2, <1>3
    <3>2. /\ a \in Seq(S) /\ Len(a) = (IF 1 <= n THEN n - 1 + 1 ELSE 0)
          /\ \A i \in 1..(n - 1 + 1) : a[i] = tail[1 + i - 1]
      BY <3>1, SubSeqProperties
    <3> QED BY <3>2
  <2>2. /\ b \in Seq(S) /\ Len(b) = n /\ \A i \in 1..n : b[i] = s[m + i]
    <3>1. \A i \in (m + 1)..(m + n) : s[i] \in S
      BY <1>1, <1>3
    <3>2. /\ b \in Seq(S) /\ Len(b) = (IF m + 1 <= m + n THEN m + n - (m + 1) + 1 ELSE 0)
          /\ \A i \in 1..(m + n - (m + 1) + 1) : b[i] = s[m + 1 + i - 1]
      BY <3>1, SubSeqProperties
    <3> HIDE DEF b
    <3>3. m + n - (m + 1) + 1 = n /\ (m + 1 <= m + n <=> 1 <= n)
      OBVIOUS
    <3>4. \A i \in 1..n : m + 1 + i - 1 = m + i
      OBVIOUS
    <3>5. Len(b) = n
      BY <3>2, <3>3
    <3>6. \A i \in 1..n : b[i] = s[m + 1 + i - 1]
      BY <3>2, <3>3
    <3> QED BY <3>2, <3>4, <3>5, <3>6
  <2> HIDE DEF a, b
  <2>3. \A i \in 1..n : i \in 1..(z - m)
    BY <1>1, <1>3
  <2>4. \A i \in 1..n : a[i] = b[i]
    BY <1>2, <2>1, <2>2, <2>3
  <2>5. a = b
    BY <2>1, <2>2, <2>4, SeqEqual
  <2> QED BY <2>5 DEF a, b
<1>5. SubSeq(tail, n + 1, z - m) = SubSeq(s, m + n + 1, z)
  <2> DEFINE a == SubSeq(tail, n + 1, z - m)
             b == SubSeq(s, m + n + 1, z)
             k == z - m - n
  <2>0. k \in Nat /\ k = z - m - n
    BY <1>1, <1>3
  <2> HIDE DEF k
  <2>1. /\ a \in Seq(S) /\ Len(a) = k /\ \A i \in 1..k : a[i] = tail[n + i]
    <3>1. \A i \in (n + 1)..(z - m) : tail[i] \in S
      BY <1>1, <1>2, <1>3
    <3>2. /\ a \in Seq(S) /\ Len(a) = (IF n + 1 <= z - m THEN z - m - (n + 1) + 1 ELSE 0)
          /\ \A i \in 1..(z - m - (n + 1) + 1) : a[i] = tail[n + 1 + i - 1]
      BY <1>1, <3>1, SubSeqProperties
    <3> HIDE DEF a
    <3> QED BY <1>1, <2>0, <3>2
  <2>2. /\ b \in Seq(S) /\ Len(b) = k /\ \A i \in 1..k : b[i] = s[m + n + i]
    <3>1. \A i \in (m + n + 1)..z : s[i] \in S
      BY <1>1, <1>3
    <3>2. /\ b \in Seq(S) /\ Len(b) = (IF m + n + 1 <= z THEN z - (m + n + 1) + 1 ELSE 0)
          /\ \A i \in 1..(z - (m + n + 1) + 1) : b[i] = s[m + n + 1 + i - 1]
      BY <1>1, <3>1, SubSeqProperties
    <3> HIDE DEF b
    <3> QED BY <1>1, <2>0, <3>2
  <2> HIDE DEF a, b
  <2>3. ASSUME NEW i \in 1..k PROVE a[i] = b[i]
    <3>1. PICK j \in 1..(z - m) : j = n + i /\ m + j = m + n + i
      BY <1>1, <2>0
    <3>2. tail[j] = s[m + j]
      BY <1>2
    <3>3. a[i] = tail[j] /\ b[i] = s[m + j]
      BY <2>1, <2>2, <3>1
    <3> QED BY <3>2, <3>3
  <2>4. \A i \in 1..k : a[i] = b[i]
    BY <2>3
  <2>5. a = b
    BY <2>1, <2>2, <2>4, SeqEqual
  <2> QED BY <2>5 DEF a, b
<1> QED BY <1>2, <1>4, <1>5 DEF z, tail

LEMMA SliceAppend ==
    ASSUME NEW S, NEW s \in Seq(S), NEW m \in Nat, NEW x \in Nat, m <= x, x < Len(s)
    PROVE  Append(SubSeq(s, m + 1, x), s[x + 1]) = SubSeq(s, m + 1, x + 1)
<1>1. Len(s) \in Nat /\ \A i \in 1..Len(s) : s[i] \in S
  BY LenProperties, ElementOfSeq
<1> DEFINE a == SubSeq(s, m + 1, x)
           b == SubSeq(s, m + 1, x + 1)
           c == Append(a, s[x + 1])
           k == x - m
<1>0. k \in Nat /\ k = x - m
  OBVIOUS
<1> HIDE DEF k
<1>2. a \in Seq(S) /\ Len(a) = k /\ \A i \in 1..k : a[i] = s[m + i]
  <2>1. \A i \in (m + 1)..x : s[i] \in S
    BY <1>1
  <2>2. /\ a \in Seq(S) /\ Len(a) = (IF m + 1 <= x THEN x - (m + 1) + 1 ELSE 0)
        /\ \A i \in 1..(x - (m + 1) + 1) : a[i] = s[m + 1 + i - 1]
    BY <2>1, SubSeqProperties
  <2> HIDE DEF a
  <2> QED BY <1>0, <2>2
<1>3. b \in Seq(S) /\ Len(b) = k + 1 /\ \A i \in 1..(k + 1) : b[i] = s[m + i]
  <2>1. \A i \in (m + 1)..(x + 1) : s[i] \in S
    BY <1>1
  <2>2. /\ b \in Seq(S) /\ Len(b) = (IF m + 1 <= x + 1 THEN x + 1 - (m + 1) + 1 ELSE 0)
        /\ \A i \in 1..(x + 1 - (m + 1) + 1) : b[i] = s[m + 1 + i - 1]
    BY <2>1, SubSeqProperties
  <2> HIDE DEF b
  <2> QED BY <1>0, <2>2
<1> HIDE DEF a, b
<1>4. s[x + 1] \in S
  BY <1>1
<1>5. c \in Seq(S) /\ Len(c) = k + 1 /\ c[k + 1] = s[x + 1] /\ \A i \in 1..k : c[i] = a[i]
  BY <1>2, <1>4, AppendProperties
<1> HIDE DEF c
<1>6. \A i \in 1..(k + 1) : c[i] = b[i]
  <2>1. b[k + 1] = s[x + 1]
    <3>1. k + 1 \in 1..(k + 1) /\ m + (k + 1) = x + 1
      BY <1>0
    <3> QED BY <1>3, <3>1
  <2>2. ASSUME NEW i \in 1..k PROVE c[i] = b[i]
    <3>1. i \in 1..(k + 1)
      BY <1>0
    <3> QED BY <1>2, <1>3, <1>5, <3>1
  <2>3. \A i \in 1..(k + 1) : i = k + 1 \/ i \in 1..k
    BY <1>0
  <2> QED BY <1>5, <2>1, <2>2, <2>3
<1>7. c = b
  BY <1>3, <1>5, <1>6, SeqEqual
<1> QED BY <1>7 DEF a, b, c
-----------------------------------------------------------------------------
(* What the lines of a buffer carry: the tokens between its two places.    *)

Take == INSTANCE FoldLemmas WITH Op <- TakeLine

LEMMA CountFacts ==
    ASSUME NEW out \in Text, NEW h \in Nat
    PROVE  Count(out, h) \in 0..Len(out) /\ Count(out, h) <= Count(out, h + 1)
<1>1. Len(out) \in Nat
  BY LenProperties DEF Text
<1> QED BY <1>1 DEF Count

LEMMA DeltasFacts ==
    ASSUME NEW out \in Text, NEW h \in Nat, NEW e \in Nat, 2 * h < e, e <= Size(out)
    PROVE  Deltas(SubSeq(Body(out), 2 * h + 1, e))
             = SubSeq(out, Count(out, h) + 1, Count(out, e \div 2))
<1> DEFINE n == Len(out)
           buffer == SubSeq(Body(out), 2 * h + 1, e)
           K == e - 2 * h
           c0 == Count(out, h)
           A == [k \in 0..K |-> {SubSeq(out, c0 + 1, Count(out, h + k \div 2))}]
           idx == [i \in DOMAIN buffer |-> i]
<1>1. /\ n \in Nat /\ Size(out) \in Nat /\ Size(out) = 2 * (n + 2)
      /\ Body(out) \in Seq(Piece) /\ Len(Body(out)) = Size(out)
  BY BodyFacts DEF Size
<1>2. K \in Nat /\ K >= 1 /\ e = 2 * h + K
  OBVIOUS
<1> HIDE DEF n, K
<1>3. /\ buffer \in Seq(Piece) /\ Len(buffer) = K /\ DOMAIN buffer = 1..K
      /\ \A i \in 1..K : buffer[i] = Body(out)[2 * h + i]
  <2>1. \A i \in (2 * h + 1)..e : Body(out)[i] \in Piece
    BY <1>1, ElementOfSeq
  <2>2. /\ buffer \in Seq(Piece)
        /\ Len(buffer) = (IF 2 * h + 1 <= e THEN e - (2 * h + 1) + 1 ELSE 0)
        /\ \A i \in 1..(e - (2 * h + 1) + 1) : buffer[i] = Body(out)[2 * h + 1 + i - 1]
    BY <2>1, SubSeqProperties
  <2> HIDE DEF buffer
  <2>4. 2 * h + 1 <= e /\ e - (2 * h + 1) + 1 = K /\ \A i \in 1..K : 2 * h + 1 + i - 1 = 2 * h + i
    BY <1>2
  <2>3. Len(buffer) = K /\ \A i \in 1..K : buffer[i] = Body(out)[2 * h + i]
    BY <2>2, <2>4
  <2> QED BY <2>2, <2>3, LenProperties
<1> HIDE DEF buffer
<1>4. idx \in Seq(Nat) /\ Len(idx) = K /\ \A i \in 1..K : idx[i] = i
  <2>1. idx \in [1..K -> Nat]
    BY <1>3
  <2>2. idx \in Seq(Nat)
    BY <1>2, <2>1, SeqDef
  <2>3. DOMAIN idx = 1..K /\ \A i \in 1..K : idx[i] = i
    BY <1>3
  <2> HIDE DEF idx
  <2> QED BY <1>2, <2>2, <2>3, LenProperties
<1> HIDE DEF idx
<1>5. c0 \in Nat /\ c0 <= n
  <2>1. c0 \in 0..n
    BY CountFacts DEF n
  <2> HIDE DEF c0
  <2> QED BY <1>1, <2>1
<1>6. \A k \in 0..K : A[k] = {SubSeq(out, c0 + 1, Count(out, h + k \div 2))}
  OBVIOUS
<1> HIDE DEF A
<1>7. << >> \in A[0]
  <2>1. h + 0 \div 2 = h
    OBVIOUS
  <2>2. SubSeq(out, c0 + 1, c0) = << >>
    BY <1>5, SubSeqEmpty
  <2>3. 0 \in 0..K
    BY <1>2
  <2>4. A[0] = {SubSeq(out, c0 + 1, Count(out, h + 0 \div 2))}
    BY <1>6, <2>3
  <2> QED BY <2>1, <2>2, <2>4
<1> HIDE DEF c0
<1>8. ASSUME NEW k \in 1..K, NEW a \in A[k - 1]
      PROVE  TakeLine(buffer, a, k) \in A[k]
  <2>1. a = SubSeq(out, c0 + 1, Count(out, h + (k - 1) \div 2))
    <3>1. k - 1 \in 0..K
      BY <1>2
    <3> HIDE DEF c0
    <3> QED BY <1>6, <3>1
  <2>0. k \in 0..K
    BY <1>2
  <2>2. CASE k % 2 = 1
    <3> DEFINE j == (k + 1) \div 2
    <3>1. /\ j \in Nat /\ k = 2 * j - 1 /\ h + j \in 1..(n + 2) /\ 2 * h + k = 2 * (h + j) - 1
          /\ (k - 1) \div 2 = k \div 2
      BY <1>1, <1>2, <2>2
    <3> HIDE DEF j
    <3>2. buffer[k] = [tok |-> Lines(out)[h + j], last |-> FALSE]
      <4>1. buffer[k] = Body(out)[2 * (h + j) - 1]
        BY <1>3, <3>1
      <4>2. h + j \in 1..(Len(out) + 2)
        BY <3>1 DEF n
      <4> QED BY <4>1, <4>2, BodyFacts
    <3>3. TakeLine(buffer, a, k) = a
      BY <3>2 DEF TakeLine, IsWhole
    <3>4. a \in A[k]
      BY <1>6, <2>0, <2>1, <3>1
    <3> QED BY <3>3, <3>4
  <2>3. CASE k % 2 = 0
    <3> DEFINE j == k \div 2
    <3>1. /\ j \in Nat /\ j >= 1 /\ k = 2 * j /\ h + j \in 1..(n + 2)
          /\ 2 * h + k = 2 * (h + j) /\ 2 * h + (k - 1) = 2 * (h + j) - 1
          /\ k - 1 \in 1..K /\ k > 1 /\ (k - 1) \div 2 = j - 1 /\ k \div 2 = j
      BY <1>1, <1>2, <2>3
    <3> HIDE DEF j
    <3> DEFINE tok == Lines(out)[h + j]
    <3>2. buffer[k] = [tok |-> tok, last |-> TRUE] /\ buffer[k - 1] = [tok |-> tok, last |-> FALSE]
      <4>1. buffer[k] = Body(out)[2 * (h + j)] /\ buffer[k - 1] = Body(out)[2 * (h + j) - 1]
        BY <1>3, <3>1
      <4>2. h + j \in 1..(Len(out) + 2)
        BY <3>1 DEF n
      <4> QED BY <4>1, <4>2, BodyFacts
    <3> HIDE DEF tok
    <3>3. TakeLine(buffer, a, k) = IF tok # "blank" THEN Append(a, tok) ELSE a
      <4>1. IsWhole(buffer, k)
        BY <3>1, <3>2 DEF IsWhole
      <4> QED BY <3>2, <4>1 DEF TakeLine
    <3>4. CASE h + j = 1 \/ h + j = n + 2
      <4>1. tok = "blank"
        BY <3>4, LinesFacts DEF tok, n
      <4>2. Count(out, h + (j - 1)) = Count(out, h + j)
        BY <1>1, <3>1, <3>4 DEF Count, n
      <4>3. A[k] = {SubSeq(out, c0 + 1, Count(out, h + j))}
        BY <1>6, <2>0, <3>1
      <4>4. a = SubSeq(out, c0 + 1, Count(out, h + (j - 1)))
        BY <2>1, <3>1
      <4> QED BY <3>3, <4>1, <4>2, <4>3, <4>4
    <3>5. CASE ~(h + j = 1 \/ h + j = n + 2)
      <4> DEFINE x == h + j - 2
      <4>1. /\ x \in Nat /\ x < n /\ x + 1 \in 1..n /\ (x + 1) + 1 = h + j
            /\ h + (j - 1) = x + 1 /\ h + j = x + 2
        BY <1>1, <3>1, <3>5
      <4>2. Count(out, x + 1) = x /\ Count(out, x + 2) = x + 1 /\ c0 <= x
        BY <1>1, <3>1, <3>5, <4>1 DEF Count, n, c0
      <4> HIDE DEF x
      <4>3. tok = out[x + 1]
        BY <4>1, LinesFacts DEF tok, n
      <4>4. tok \in Token
        BY <1>1, <4>1, <4>3, ElementOfSeq DEF Text, n
      <4>5. tok # "blank"
        BY <4>4 DEF Token
      <4>6. Append(SubSeq(out, c0 + 1, x), out[x + 1]) = SubSeq(out, c0 + 1, x + 1)
        BY <1>5, <4>1, <4>2, SliceAppend DEF Text, n
      <4>7. a = SubSeq(out, c0 + 1, x)
        BY <2>1, <3>1, <4>1, <4>2
      <4>8. TakeLine(buffer, a, k) = SubSeq(out, c0 + 1, x + 1)
        BY <3>3, <4>3, <4>5, <4>6, <4>7
      <4>9. A[k] = {SubSeq(out, c0 + 1, x + 1)}
        BY <1>6, <3>1, <4>1, <4>2
      <4> QED BY <4>8, <4>9
    <3> QED BY <3>4, <3>5
  <2>4. k % 2 = 0 \/ k % 2 = 1
    BY <1>2
  <2> QED BY <2>2, <2>3, <2>4
<1> DEFINE empty == << >>
<1>9. empty \in A[0] /\ \A k \in 1..Len(idx) : \A a \in A[k - 1] : TakeLine(buffer, a, idx[k]) \in A[k]
  BY <1>4, <1>7, <1>8
<1> HIDE DEF empty
<1>10. Take!Fold(buffer, empty, idx) \in A[Len(idx)]
  BY <1>4, <1>9, LeastElement, Take!FoldLeftAlong DEF Take!WellOrdered
<1>11. Take!Fold(buffer, empty, idx) = Deltas(buffer)
  BY Zenon DEF Take!Fold, Deltas, FoldLeft, MapThenFoldSet, Take!MapThenFoldSet,
               Max, Take!Max, empty, idx
<1>12. Deltas(buffer) \in A[K]
  BY <1>4, <1>10, <1>11
<1>13. Deltas(buffer) = SubSeq(out, c0 + 1, Count(out, h + K \div 2))
  <2>1. K \in 0..K
    BY <1>2
  <2>2. A[K] = {SubSeq(out, c0 + 1, Count(out, h + K \div 2))}
    BY <1>6, <2>1
  <2> QED BY <1>12, <2>2
<1>14. h + K \div 2 = e \div 2
  BY <1>2
<1> QED BY <1>13, <1>14 DEF buffer, c0

LEMMA CountGrows ==
    ASSUME NEW out \in Text, NEW h \in Nat, NEW g \in Nat, h <= g
    PROVE  /\ Count(out, h) \in Nat /\ Count(out, g) \in Nat /\ Len(out) \in Nat
           /\ Count(out, h) <= Count(out, g) /\ Count(out, g) <= Len(out)
<1>1. Len(out) \in Nat
  BY LenProperties DEF Text
<1> QED BY <1>1 DEF Count

(* A chunk of n pieces takes the loop from one place of the body to a      *)
(* later one: the lines it completes are the text between the two, and     *)
(* what it leaves in the buffer is the half line at the second.            *)
\* Pieces of the rest of a body have been taken to a later place, deltas with them.
Moved(out, h, b, n, buffer) ==
    \E g \in Nat, c \in {0, 1} :
      /\ h <= g /\ 2 * g + c <= Size(out)
      /\ Deltas(buffer) = SubSeq(out, Count(out, h) + 1, Count(out, g))
      /\ Rest(buffer) = BufferAt(out, g, c)
      /\ SubSeq(LeftAt(out, h, b), n + 1, Len(LeftAt(out, h, b))) = LeftAt(out, g, c)

LEMMA ChunkFacts ==
    ASSUME NEW out \in Text, NEW h \in Nat, NEW b \in {0, 1}, 2 * h + b <= Size(out),
           NEW n \in 1..Len(LeftAt(out, h, b)),
           NEW buffer, buffer = BufferAt(out, h, b) \o SubSeq(LeftAt(out, h, b), 1, n)
    PROVE  Moved(out, h, b, n, buffer)
<1> USE DEF Moved
<1> DEFINE body == Body(out)
           z == Len(body)
           m == 2 * h + b
           e == m + n
<1>1. body \in Seq(Piece) /\ z \in Nat /\ z = Size(out) /\ m \in Nat /\ m <= z /\ Len(out) \in Nat
  BY BodyFacts
<1> HIDE DEF body, z, m
<1>2. LeftAt(out, h, b) = SubSeq(body, m + 1, z) /\ BufferAt(out, h, b) = SubSeq(body, 2 * h + 1, m)
  BY <1>1 DEF LeftAt, BufferAt, body, m
<1>3. Len(SubSeq(body, m + 1, z)) = z - m
  BY <1>1, SliceFacts DEF z
<1>4. n \in Nat /\ n >= 1 /\ m + n <= z
  BY <1>1, <1>2, <1>3
<1>5. /\ SubSeq(SubSeq(body, m + 1, z), 1, n) = SubSeq(body, m + 1, e)
      /\ SubSeq(SubSeq(body, m + 1, z), n + 1, z - m) = SubSeq(body, e + 1, z)
  BY <1>1, <1>4, SliceFacts DEF z
<1> HIDE DEF e
<1>6. e \in Nat /\ e <= z /\ m < e /\ 2 * h < e /\ 2 * h <= m
  <2>1. 2 * h <= m
    BY DEF m
  <2> QED BY <1>1, <1>4, <2>1 DEF e
<1>7. buffer = SubSeq(body, 2 * h + 1, e)
  <2> DEFINE a == 2 * h + 1
  <2>0. PICK x \in Nat : x = 2 * h
    OBVIOUS
  <2>1. a \in 1..(z + 1) /\ m \in (a - 1)..z /\ e \in m..z
    <3>1. a = x + 1 /\ x < e /\ x <= m
      BY <1>6, <2>0
    <3> HIDE DEF a
    <3> QED BY <1>1, <1>6, <2>0, <3>1
  <2> HIDE DEF a
  <2>2. SubSeq(body, a, m) \o SubSeq(body, m + 1, e) = SubSeq(body, a, e)
    BY <1>1, <2>1, ConcatAdjacentSubSeq DEF z
  <2> QED BY <1>2, <1>5, <2>2 DEF a
<1> DEFINE g == e \div 2
           c == e % 2
<1>8. g \in Nat /\ c \in {0, 1} /\ e = 2 * g + c /\ h <= g
  BY <1>6
<1> HIDE DEF g, c
<1>9. Deltas(buffer) = SubSeq(out, Count(out, h) + 1, Count(out, g))
  <2>1. e \in Nat /\ e <= Size(out) /\ 2 * h < e
    BY <1>1, <1>6
  <2>2. Deltas(SubSeq(Body(out), 2 * h + 1, e)) = SubSeq(out, Count(out, h) + 1, Count(out, e \div 2))
    BY <2>1, DeltasFacts
  <2> QED BY <1>7, <2>2 DEF body, g
<1>10. SubSeq(LeftAt(out, h, b), n + 1, Len(LeftAt(out, h, b))) = LeftAt(out, g, c)
  BY <1>1, <1>2, <1>3, <1>5, <1>8 DEF LeftAt, body
<1>11. Rest(buffer) = BufferAt(out, g, c)
  <2> DEFINE k == e - 2 * h
  <2>0. k \in Nat /\ k >= 1 /\ 2 * h + k = e
    BY <1>6
  <2>1. Len(buffer) = k /\ buffer[k] = body[e]
    <3> DEFINE a == 2 * h + 1
    <3>1. \A i \in a..e : body[i] \in Piece
      BY <1>1, <1>6, ElementOfSeq DEF z
    <3>2. a \in Int /\ e \in Int /\ a <= e /\ e - a + 1 = k /\ a + k - 1 = e /\ k \in 1..k
      BY <1>6
    <3>3. buffer = SubSeq(body, a, e)
      BY <1>7
    <3> HIDE DEF a, k
    <3> DEFINE part == SubSeq(body, a, e)
    <3>4. /\ Len(part) = (IF a <= e THEN e - a + 1 ELSE 0)
          /\ \A i \in 1..(e - a + 1) : part[i] = body[a + i - 1]
      BY <3>1, <3>2, SubSeqProperties
    <3> HIDE DEF part
    <3>5. Len(part) = k /\ part[k] = body[e]
      BY <3>2, <3>4
    <3> QED BY <3>3, <3>5 DEF part
  <2> HIDE DEF k
  <2>2. CASE c = 0
    <3>1. g \in 1..(Len(out) + 2) /\ e = 2 * g
      BY <1>1, <1>6, <1>8, <2>2 DEF Size
    <3>2. body[e].last
      <4>1. body[2 * g] = [tok |-> Lines(out)[g], last |-> TRUE]
        BY <3>1, BodyFacts DEF body
      <4> QED BY <3>1, <4>1
    <3>3. Rest(buffer) = << >>
      BY <2>1, <3>2 DEF Rest
    <3>4. BufferAt(out, g, c) = << >>
      BY <1>8, <2>2, SubSeqEmpty DEF BufferAt
    <3> QED BY <3>3, <3>4
  <2>3. CASE c = 1
    <3>1. g + 1 \in 1..(Len(out) + 2) /\ e = 2 * (g + 1) - 1 /\ e = 2 * g + 1
      BY <1>1, <1>6, <1>8, <2>3 DEF Size
    <3>2. ~body[e].last
      <4>1. body[2 * (g + 1) - 1] = [tok |-> Lines(out)[g + 1], last |-> FALSE]
        BY <3>1, BodyFacts DEF body
      <4> QED BY <3>1, <4>1
    <3>3. Rest(buffer) = <<body[e]>>
      BY <2>1, <3>2 DEF Rest
    <3>4. BufferAt(out, g, c) = SubSeq(body, e, e)
      BY <2>3, <3>1 DEF BufferAt, body
    <3>5. SubSeq(body, e, e) = <<body[e]>>
      <4>1. e \in 1..Len(body)
        BY <1>1, <1>6 DEF z
      <4>2. SubSeq(body, e, e) = SubSeq(body, e, e - 1) \o <<body[e]>>
        BY <1>1, <4>1, SubSeqRecursiveSecond
      <4>3. SubSeq(body, e, e - 1) = << >>
        BY <1>6, SubSeqEmpty
      <4>4. body[e] \in Piece
        BY <1>1, <4>1, ElementOfSeq
      <4>5. <<body[e]>> \in Seq(Piece)
        BY <4>4
      <4>6. << >> \o <<body[e]>> = <<body[e]>>
        BY <4>5, ConcatEmptySeq
      <4> QED BY <4>2, <4>3, <4>6
    <3> QED BY <3>3, <3>4, <3>5
  <2> QED BY <1>8, <2>2, <2>3
<1> QED BY <1>1, <1>6, <1>8, <1>9, <1>10, <1>11

(* At the end of a body all of the text has been read.                     *)
LEMMA EndFacts ==
    ASSUME NEW out \in Text, NEW h \in Nat, NEW b \in {0, 1}, 2 * h + b <= Size(out),
           LeftAt(out, h, b) = << >>
    PROVE  SubSeq(out, 1, Count(out, h)) = out
<1>1. Body(out) \in Seq(Piece) /\ Len(Body(out)) = Size(out) /\ Size(out) \in Nat /\ Len(out) \in Nat
  BY BodyFacts
<1>2. Len(LeftAt(out, h, b)) = Size(out) - (2 * h + b)
  <2> DEFINE m == 2 * h + b
  <2>1. m \in Nat /\ m + 0 <= Len(Body(out))
    BY <1>1
  <2> HIDE DEF m
  <2>2. Len(SubSeq(Body(out), m + 1, Len(Body(out)))) = Len(Body(out)) - m
    BY <1>1, <2>1, SliceFacts
  <2> QED BY <1>1, <2>2 DEF LeftAt, m
<1>3. Size(out) - (2 * h + b) = 0
  BY <1>2
<1>4. h = Len(out) + 2
  BY <1>1, <1>3 DEF Size
<1>5. Count(out, h) = Len(out)
  BY <1>1, <1>4 DEF Count
<1> QED BY <1>5, SubSeqFull DEF Text
-----------------------------------------------------------------------------
(* The inductive invariant.                                                *)

\* Everything the client may take out of a text.
Maps(text) == {parseGenerationGpt(text), parseGenerationQwen(text), [think |-> << >>, content |-> text]}
Shown == {<< >>} \cup UNION {{map.think, map.content} : map \in UNION {Maps(text) : text \in Text}}

Msg == [role : {"user", "assistant"}, req : Nat, st : {"done", "thinking", "generating"},
        raw : Text, thinking : Shown, content : Shown]
Request == [phase : {"fetching", "reading", "over"}, left : Seq(Piece), buffer : Seq(Piece),
            out : Text, asked : Seq({"user", "assistant"} \X Nat),
            how : {"none", "ended", "stopped", "failed"}]

ChatTypes ==
    /\ status \in {"closed", "opened", "generating", "error"}
    /\ messages \in Seq(Msg) /\ requests \in Seq(Request)
    /\ reader \in Nat /\ format \in Format

\* The first k messages, as a request tells of them.
IdsTo(list, k) == [i \in 1..k |-> <<list[i].role, list[i].req>>]

\* Only the newest request runs; the status and the reader tell of it.
OneRuns ==
    /\ \A r \in DOMAIN requests : Live(r) =>
         /\ r = Len(requests) /\ requests[r].how = "none"
         /\ status \in {"opened", "generating"}
         /\ requests[r].phase = "reading" => reader = r
    /\ status \in {"opened", "generating"} => \E r \in DOMAIN requests : Live(r)

\* An answer comes after a user's message and the messages its request knew
\* of. One whose request is over is a part of that request's text.
PlacedAt(i) ==
    /\ messages[i].req \in DOMAIN requests
    /\ messages[i].st # "done" => Live(messages[i].req) /\ messages[i].role = "assistant"
    /\ messages[i].role = "assistant" =>
         /\ i > 1 /\ messages[i - 1].role = "user"
         /\ requests[messages[i].req].asked = IdsTo(messages, i - 1)
         /\ Live(messages[i].req) => i = Len(messages)

KeptAt(i) ==
    messages[i].role = "assistant" /\ ~Live(messages[i].req) =>
      LET r == requests[messages[i].req]
      IN  /\ \E c \in 0..Len(r.out) : messages[i].raw = SubSeq(r.out, 1, c)
          /\ r.how = "ended" => messages[i].raw = r.out

Placed == \A i \in DOMAIN messages : PlacedAt(i)
Kept   == \A i \in DOMAIN messages : KeptAt(i)

\* A request that is being read is at some place of its body.
IsAt(r, h, b) ==
    /\ 2 * h + b <= Size(r.out)
    /\ r.left = LeftAt(r.out, h, b) /\ r.buffer = BufferAt(r.out, h, b)

\* The last message is what the running request asked about, as long as no
\* text came, and then the text up to its place.
Follows(r) ==
    LET last == messages[Len(messages)]
    IN  /\ messages # << >>
        /\ \/ /\ last.role = "user" /\ status = "opened"
              /\ requests[r].asked = IdsTo(messages, Len(messages))
              /\ requests[r].phase = "fetching" => requests[r].buffer = << >>
              /\ requests[r].phase = "reading" =>
                   \E h \in 0..(Len(requests[r].out) + 2), b \in {0, 1} :
                     IsAt(requests[r], h, b) /\ Count(requests[r].out, h) = 0
           \/ /\ last.role = "assistant" /\ status = "generating" /\ last.req = r
              /\ requests[r].phase = "reading"
              /\ \E h \in 0..(Len(requests[r].out) + 2), b \in {0, 1} :
                   /\ IsAt(requests[r], h, b)
                   /\ last.raw = SubSeq(requests[r].out, 1, Count(requests[r].out, h))

Current == \A r \in DOMAIN requests : Live(r) => Follows(r)

ChatInv == ChatTypes /\ OneRuns /\ Placed /\ Kept /\ Current
-----------------------------------------------------------------------------
(* The lists of messages and of requests after one of them has changed.    *)

LEMMA ParseShown ==
    ASSUME NEW raw \in Text
    PROVE  Parse(raw).think \in Shown /\ Parse(raw).content \in Shown
<1>1. Parse(raw) \in Maps(raw)
  BY DEF Parse, Maps
<1> QED BY <1>1 DEF Shown

LEMMA WithRawFacts ==
    ASSUME NEW m \in Msg, NEW raw \in Text
    PROVE  /\ WithRaw(m, raw) \in Msg /\ WithRaw(m, raw).role = m.role
           /\ WithRaw(m, raw).req = m.req /\ WithRaw(m, raw).raw = raw
<1>1. WithRaw(m, raw) = Parsed(m, raw, Parse(raw))
  BY DEF WithRaw
<1> DEFINE map == Parse(raw)
<1>2. map.think \in Shown /\ map.content \in Shown
  BY ParseShown
<1> HIDE DEF map
<1>3. /\ Parsed(m, raw, map) \in Msg /\ Parsed(m, raw, map).role = m.role
      /\ Parsed(m, raw, map).req = m.req /\ Parsed(m, raw, map).raw = raw
  BY <1>2 DEF Parsed, Msg
<1> QED BY <1>1, <1>3 DEF map

LEMMA CloseLastFacts ==
    ASSUME NEW list \in Seq(Msg), list # << >>
    PROVE  /\ CloseLast(list) \in Seq(Msg) /\ Len(CloseLast(list)) = Len(list)
           /\ \A i \in 1..Len(list) :
                /\ CloseLast(list)[i].role = list[i].role /\ CloseLast(list)[i].req = list[i].req
                /\ CloseLast(list)[i].raw = list[i].raw
                /\ CloseLast(list)[i].st = IF i = Len(list) THEN "done" ELSE list[i].st
<1> DEFINE n == Len(list)
           done == [list[n] EXCEPT !.st = "done"]
<1>1. n \in Nat /\ n \in 1..n /\ list[n] \in Msg
  BY EmptySeq, LenProperties, ElementOfSeq
<1>2. CloseLast(list) = [list EXCEPT ![n] = done]
  BY DEF CloseLast
<1>3. /\ done \in Msg /\ done.role = list[n].role /\ done.req = list[n].req
      /\ done.raw = list[n].raw /\ done.st = "done"
  BY <1>1 DEF Msg
<1> HIDE DEF done
<1>4. /\ [list EXCEPT ![n] = done] \in Seq(Msg) /\ Len([list EXCEPT ![n] = done]) = n
      /\ \A j \in 1..n : [list EXCEPT ![n] = done][j] = IF j = n THEN done ELSE list[j]
  BY <1>1, <1>3, ExceptSeq
<1> QED BY <1>2, <1>3, <1>4

LEMMA IdsFacts ==
    ASSUME NEW list \in Seq(Msg), NEW k \in 0..Len(list)
    PROVE  Ids(SubSeq(list, 1, k)) = IdsTo(list, k) /\ Ids(list) = IdsTo(list, Len(list))
<1>1. Len(list) \in Nat /\ DOMAIN list = 1..Len(list) /\ \A i \in 1..Len(list) : list[i] \in Msg
  BY LenProperties, ElementOfSeq
<1> DEFINE part == SubSeq(list, 1, k)
<1>2. part \in Seq(Msg) /\ Len(part) = k /\ \A i \in 1..k : part[i] = list[i]
  <2>1. \A i \in 1..k : list[i] \in Msg
    BY <1>1
  <2>2. /\ part \in Seq(Msg) /\ Len(part) = (IF 1 <= k THEN k - 1 + 1 ELSE 0)
        /\ \A i \in 1..(k - 1 + 1) : part[i] = list[1 + i - 1]
    BY <1>1, <2>1, SubSeqProperties
  <2> HIDE DEF part
  <2> QED BY <1>1, <2>2
<1>3. DOMAIN part = 1..k
  BY <1>2, LenProperties
<1> HIDE DEF part
<1>4. Ids(part) = IdsTo(list, k)
  BY <1>2, <1>3 DEF Ids, IdsTo
<1> QED BY <1>1, <1>4 DEF part, Ids, IdsTo

(* A change of request r that keeps what it asked and what its text is.    *)
LEMMA OverFacts ==
    ASSUME requests \in Seq(Request), NEW r \in DOMAIN requests,
           NEW how \in {"ended", "stopped", "failed"}, Over(r, how)
    PROVE  /\ requests' \in Seq(Request) /\ DOMAIN requests' = DOMAIN requests
           /\ requests'[r].phase = "over" /\ requests'[r].how = how
           /\ requests'[r].out = requests[r].out /\ requests'[r].asked = requests[r].asked
           /\ \A s \in DOMAIN requests : s # r => requests'[s] = requests[s]
<1>1. DOMAIN requests = 1..Len(requests) /\ requests[r] \in Request
  BY LenProperties, ElementOfSeq
<1> DEFINE done == [requests[r] EXCEPT !.phase = "over", !.left = << >>,
                                       !.buffer = << >>, !.how = how]
<1>2. << >> \in Seq(Piece)
  BY EmptySeq
<1>3. /\ done \in Request /\ done.phase = "over" /\ done.how = how
      /\ done.out = requests[r].out /\ done.asked = requests[r].asked
  BY <1>1, <1>2 DEF Request
<1>4. requests' = [requests EXCEPT ![r] = done]
  BY DEF Over
<1> HIDE DEF done
<1>5. requests' \in Seq(Request) /\ DOMAIN requests' = DOMAIN requests
  BY <1>1, <1>3, <1>4, ExceptSeq
<1> QED BY <1>1, <1>3, <1>4, <1>5
-----------------------------------------------------------------------------
(* Each kind of step.                                                      *)

LEMMA ListFacts ==
    ASSUME ChatTypes
    PROVE  /\ Len(messages) \in Nat /\ DOMAIN messages = 1..Len(messages)
           /\ \A i \in 1..Len(messages) : messages[i] \in Msg
           /\ messages # << >> => Len(messages) >= 1
           /\ Len(requests) \in Nat /\ DOMAIN requests = 1..Len(requests)
           /\ \A r \in 1..Len(requests) : requests[r] \in Request
  BY LenProperties, ElementOfSeq, EmptySeq DEF ChatTypes

(* A request ends, in one of the ways it can (onClose and onError).        *)
LEMMA OverKeeps ==
    ASSUME ChatInv, NEW r \in DOMAIN requests, Live(r),
           NEW how \in {"ended", "stopped", "failed"}, Over(r, how),
           how = "ended" => requests[r].phase = "reading" /\ requests[r].left = << >>,
           messages' = CloseLast(messages), status' \in {"closed", "error"},
           reader' \in Nat, format' = format
    PROVE  ChatInv'
<1> USE DEF ChatInv
<1> DEFINE n == Len(messages)
<1>1. /\ n \in Nat /\ DOMAIN messages = 1..n /\ \A i \in 1..n : messages[i] \in Msg
      /\ Len(requests) \in Nat /\ DOMAIN requests = 1..Len(requests)
      /\ \A s \in 1..Len(requests) : requests[s] \in Request
      /\ messages # << >> => n >= 1
  BY ListFacts
<1>2. /\ requests' \in Seq(Request) /\ DOMAIN requests' = DOMAIN requests
      /\ requests'[r].phase = "over" /\ requests'[r].how = how
      /\ requests'[r].out = requests[r].out /\ requests'[r].asked = requests[r].asked
      /\ \A s \in DOMAIN requests : s # r => requests'[s] = requests[s]
  BY OverFacts DEF ChatTypes
<1>3. Follows(r) /\ messages # << >>
  BY DEF Current, Follows
<1>4. /\ messages' \in Seq(Msg) /\ Len(messages') = n /\ DOMAIN messages' = 1..n
      /\ \A i \in 1..n :
           /\ messages'[i].role = messages[i].role /\ messages'[i].req = messages[i].req
           /\ messages'[i].raw = messages[i].raw
           /\ messages'[i].st = IF i = n THEN "done" ELSE messages[i].st
  BY <1>3, CloseLastFacts, LenProperties DEF ChatTypes
<1>5. r = Len(requests) /\ \A s \in DOMAIN requests : Live(s) => s = r
  BY DEF OneRuns
<1>6. \A s \in DOMAIN requests : requests'[s].phase = "over"
  BY <1>2, <1>5 DEF Live
<1>7. ChatTypes'
  BY <1>2, <1>4 DEF ChatTypes
<1>8. OneRuns'
  BY <1>2, <1>6 DEF OneRuns, Live
<1>9. \A s \in DOMAIN requests : requests'[s].asked = requests[s].asked /\ requests'[s].out = requests[s].out
  BY <1>2
<1>10. \A k \in 0..n : IdsTo(messages', k) = IdsTo(messages, k)
  <2> SUFFICES ASSUME NEW k \in 0..n PROVE IdsTo(messages', k) = IdsTo(messages, k)
    OBVIOUS
  <2>1. \A i \in 1..k : i \in 1..n
    BY <1>1
  <2> QED BY <1>4, <2>1 DEF IdsTo
<1>11. ASSUME NEW i \in 1..n PROVE PlacedAt(i)'
  <2>0. PlacedAt(i)
    BY <1>1 DEF Placed
  <2>1. messages'[i].req = messages[i].req /\ messages[i].req \in DOMAIN requests
    BY <1>4, <2>0 DEF PlacedAt
  <2>2. messages'[i].st = "done"
    <3>1. CASE i = n
      BY <1>4, <3>1
    <3>2. CASE i # n
      BY <1>4, <2>0, <3>2 DEF PlacedAt
    <3> QED BY <3>1, <3>2
  <2>3. ASSUME messages[i].role = "assistant"
        PROVE  /\ i > 1 /\ messages'[i - 1].role = "user"
               /\ requests'[messages'[i].req].asked = IdsTo(messages', i - 1)
    <3>1. /\ i > 1 /\ messages[i - 1].role = "user"
          /\ requests[messages[i].req].asked = IdsTo(messages, i - 1)
      BY <2>0, <2>3 DEF PlacedAt
    <3>2. i - 1 \in 1..n /\ i - 1 \in 0..n
      BY <1>1, <3>1
    <3> QED BY <1>4, <1>9, <1>10, <2>1, <3>1, <3>2
  <2> QED BY <1>2, <1>4, <1>6, <2>1, <2>2, <2>3 DEF PlacedAt, Live
<1>12. ASSUME NEW i \in 1..n PROVE KeptAt(i)'
  <2> DEFINE s == messages[i].req
             out == requests[s].out
  <2>0. PlacedAt(i) /\ KeptAt(i) /\ s \in DOMAIN requests
    BY <1>1 DEF Placed, PlacedAt, Kept
  <2>1. ASSUME messages[i].role = "assistant"
        PROVE  /\ \E c \in 0..Len(out) : messages[i].raw = SubSeq(out, 1, c)
               /\ requests'[s].how = "ended" => messages[i].raw = out
    <3>1. CASE ~Live(s)
      <4>1. s # r
        BY <3>1
      <4> QED BY <1>2, <2>0, <2>1, <3>1, <4>1 DEF KeptAt
    <3>2. CASE Live(s)
      <4>1. s = r /\ i = n
        BY <1>5, <2>0, <2>1, <3>2 DEF PlacedAt
      <4>2. PICK h \in 0..(Len(requests[r].out) + 2), b \in {0, 1} :
              /\ IsAt(requests[r], h, b)
              /\ messages[n].raw = SubSeq(requests[r].out, 1, Count(requests[r].out, h))
        BY <1>3, <2>1, <4>1 DEF Follows
      <4>3. requests[r].out \in Text /\ h \in Nat
        BY <1>1 DEF Request
      <4>4. Count(requests[r].out, h) \in 0..Len(requests[r].out)
        BY <4>3, CountFacts
      <4>5. how = "ended" => messages[n].raw = requests[r].out
        BY <4>2, <4>3, EndFacts DEF IsAt
      <4> QED BY <1>2, <4>1, <4>2, <4>4, <4>5
    <3> QED BY <3>1, <3>2
  <2>2. /\ messages'[i].role = messages[i].role /\ messages'[i].req = s
        /\ messages'[i].raw = messages[i].raw /\ requests'[s].out = out
    BY <1>4, <1>9, <2>0
  <2> HIDE DEF s, out
  <2> QED BY <2>1, <2>2 DEF KeptAt
<1>13. Current'
  BY <1>2, <1>6 DEF Current, Live
<1>14. Placed' /\ Kept'
  BY <1>4, <1>11, <1>12 DEF Placed, Kept
<1> QED BY <1>7, <1>8, <1>13, <1>14

(* A request is made while none runs, about messages of before, perhaps    *)
(* with a new one of the user at the end.                                  *)
LEMMA ConnectKeeps ==
    ASSUME ChatInv, status \notin {"opened", "generating"}, format' = format,
           NEW list \in Seq(Msg), list # << >>, list[Len(list)].role = "user", Connect(list),
           \A i \in 1..Len(list) :
              \/ i \in 1..Len(messages) /\ list[i] = messages[i]
              \/ i = Len(list) /\ list[i] = Message("user", Len(requests) + 1)
    PROVE  ChatInv'
<1> USE DEF ChatInv
<1>0. PICK R \in Nat : R = Len(requests)
  BY ListFacts
<1> DEFINE n == Len(list)
           new == [phase |-> "fetching", left |-> << >>, buffer |-> << >>,
                   out |-> << >>, asked |-> Ids(list), how |-> "none"]
<1>1. /\ Len(messages) \in Nat /\ DOMAIN messages = 1..Len(messages)
      /\ R \in Nat /\ DOMAIN requests = 1..R
      /\ \A s \in 1..R : requests[s] \in Request
  BY <1>0, ListFacts
<1>2. n \in Nat /\ n >= 1 /\ DOMAIN list = 1..n /\ \A i \in 1..n : list[i] \in Msg
  BY LenProperties, ElementOfSeq, EmptySeq
<1>3. requests' = Append(requests, new) /\ messages' = list /\ status' = "opened" /\ reader' = reader
  BY DEF Connect
<1>4. Ids(list) = IdsTo(list, n)
  <2>1. 0 \in 0..n
    <3> HIDE DEF n
    <3> QED BY <1>2
  <2> QED BY <2>1, IdsFacts
<1>5. new \in Request
  <2> DEFINE Id == {"user", "assistant"} \X Nat
  <2>1. \A i \in 1..n : <<list[i].role, list[i].req>> \in Id
    BY <1>2 DEF Msg
  <2> HIDE DEF Id
  <2>2. IdsTo(list, n) \in [1..n -> Id]
    BY <2>1 DEF IdsTo
  <2>3. IdsTo(list, n) \in Seq(Id)
    <3> HIDE DEF n
    <3> QED BY <1>2, <2>2, SeqDef
  <2>4. << >> \in Seq(Piece) /\ << >> \in Text
    BY EmptySeq DEF Text
  <2> QED BY <1>4, <2>3, <2>4 DEF Request, Id
<1>6. /\ new.phase = "fetching" /\ new.buffer = << >> /\ new.asked = IdsTo(list, n)
      /\ new.how = "none"
  BY <1>4
<1> HIDE DEF new, n
<1>7. /\ requests' \in Seq(Request) /\ Len(requests') = R + 1 /\ DOMAIN requests' = 1..(R + 1)
      /\ requests'[R + 1] = new /\ \A s \in 1..R : requests'[s] = requests[s]
  BY <1>0, <1>1, <1>3, <1>5, AppendProperties, LenProperties DEF ChatTypes
<1>8. \A s \in 1..R : requests[s].phase = "over" /\ requests'[s].phase = "over"
  BY <1>1, <1>7 DEF OneRuns, Live
<1>9. \A s \in 1..(R + 1) : s \in 1..R \/ s = R + 1
  BY <1>1
<1>10. ChatTypes'
  BY <1>3, <1>7 DEF ChatTypes
<1>11. OneRuns'
  <2>1. \A s \in DOMAIN requests' : requests'[s].phase # "over" => s = R + 1
    BY <1>7, <1>8, <1>9
  <2>2. R + 1 \in DOMAIN requests'
    BY <1>1, <1>7
  <2> QED BY <1>3, <1>6, <1>7, <2>1, <2>2 DEF OneRuns, Live
<1>12. \A i \in 1..n :
         \/ i \in 1..Len(messages) /\ list[i] = messages[i]
         \/ i = n /\ list[i] = Message("user", R + 1)
  BY <1>0 DEF n
<1>13. ASSUME NEW i \in 1..n PROVE PlacedAt(i)' /\ KeptAt(i)'
  <2>1. CASE i \in 1..Len(messages) /\ list[i] = messages[i]
    <3>1. PlacedAt(i) /\ KeptAt(i)
      BY <1>1, <2>1 DEF Placed, Kept
    <3> DEFINE s == messages[i].req
    <3>2. s \in 1..R /\ requests[s].phase = "over" /\ requests'[s] = requests[s] /\ s \in DOMAIN requests'
      <4>1. s \in DOMAIN requests
        BY <3>1 DEF PlacedAt
      <4> HIDE DEF s
      <4>2. s \in 1..R /\ s \in 1..(R + 1)
        BY <1>1, <4>1
      <4> QED BY <1>7, <1>8, <4>2
    <3>3. messages[i].st = "done"
      BY <3>1, <3>2 DEF PlacedAt, Live
    <3>4. ASSUME messages[i].role = "assistant"
          PROVE  /\ i > 1 /\ list[i - 1].role = "user"
                 /\ requests[s].asked = IdsTo(list, i - 1)
      <4>1. /\ i > 1 /\ messages[i - 1].role = "user"
            /\ requests[s].asked = IdsTo(messages, i - 1)
        BY <3>1, <3>4 DEF PlacedAt
      <4>2. \A j \in 1..(i - 1) : j \in 1..n /\ j # n
        BY <1>2
      <4>3. \A j \in 1..(i - 1) : list[j] = messages[j]
        BY <1>12, <4>2
      <4>4. IdsTo(list, i - 1) = IdsTo(messages, i - 1)
        BY <4>3 DEF IdsTo
      <4>5. i - 1 \in 1..(i - 1)
        BY <4>1
      <4> QED BY <4>1, <4>3, <4>4, <4>5
    <3> HIDE DEF s
    <3>5. messages'[i] = messages[i]
      BY <1>3, <2>1
    <3>6. PlacedAt(i)'
      BY <1>3, <2>1, <3>2, <3>3, <3>4, <3>5 DEF PlacedAt, Live, s
    <3>7. KeptAt(i)'
      BY <3>1, <3>2, <3>5 DEF KeptAt, Live, s
    <3> QED BY <3>6, <3>7
  <2>2. CASE i = n /\ list[i] = Message("user", R + 1)
    <3>1. messages'[i].role = "user" /\ messages'[i].st = "done" /\ messages'[i].req = R + 1
      BY <1>3, <2>2 DEF Message
    <3>2. R + 1 \in DOMAIN requests'
      BY <1>1, <1>7
    <3> QED BY <3>1, <3>2 DEF PlacedAt, KeptAt
  <2> QED BY <1>12, <2>1, <2>2
<1>14. Placed' /\ Kept'
  BY <1>2, <1>3, <1>13 DEF Placed, Kept
<1>15. Current'
  <2>1. Follows(R + 1)'
    BY <1>2, <1>3, <1>6, <1>7 DEF Follows, n
  <2>2. \A s \in DOMAIN requests' : requests'[s].phase # "over" => s = R + 1
    BY <1>7, <1>8, <1>9
  <2>3. ASSUME NEW s \in DOMAIN requests', requests'[s].phase # "over" PROVE Follows(s)'
    <3>1. s = R + 1
      BY <2>2, <2>3
    <3> QED BY <2>1, <3>1
  <2> QED BY <2>3 DEF Current, Live
<1> QED BY <1>10, <1>11, <1>14, <1>15

(* The answer to a request starts.                                         *)
LEMMA RespondsKeeps ==
    ASSUME ChatInv, NEW r \in DOMAIN requests, Responds(r)
    PROVE  ChatInv'
<1> USE DEF ChatInv
<1>1. /\ Len(messages) \in Nat /\ DOMAIN messages = 1..Len(messages)
      /\ Len(requests) \in Nat /\ DOMAIN requests = 1..Len(requests)
      /\ r \in Nat /\ requests[r] \in Request
  BY ListFacts
<1>2. PICK out \in Outputs[format] :
        requests' = [requests EXCEPT ![r] = [@ EXCEPT !.phase = "reading", !.out = out,
                                                      !.left = Body(out)]]
  BY DEF Responds
<1>3. out \in Text
  BY ChatAssumption DEF ChatTypes, Text
<1>4. Body(out) \in Seq(Piece) /\ Len(Body(out)) = Size(out) /\ Size(out) \in Nat /\ Len(out) \in Nat
  BY <1>3, BodyFacts
<1>5. /\ requests[r].phase = "fetching" /\ reader' = r
      /\ status' = status /\ messages' = messages /\ format' = format
  BY DEF Responds, Client, World
<1> DEFINE new == [requests[r] EXCEPT !.phase = "reading", !.out = out, !.left = Body(out)]
<1>6. /\ new \in Request /\ new.phase = "reading" /\ new.out = out /\ new.left = Body(out)
      /\ new.buffer = requests[r].buffer /\ new.asked = requests[r].asked
      /\ new.how = requests[r].how
  BY <1>1, <1>3, <1>4 DEF Request
<1>7. requests' = [requests EXCEPT ![r] = new]
  BY <1>2
<1> HIDE DEF new
<1>8. requests' \in Seq(Request) /\ Len(requests') = Len(requests) /\ DOMAIN requests' = DOMAIN requests
      /\ requests'[r] = new /\ \A s \in DOMAIN requests : s # r => requests'[s] = requests[s]
  BY <1>1, <1>6, <1>7, ExceptSeq, LenProperties DEF ChatTypes
<1>9. \A s \in DOMAIN requests :
        /\ requests'[s].asked = requests[s].asked /\ requests'[s].how = requests[s].how
        /\ requests'[s].phase # "over" <=> Live(s)
        /\ ~Live(s) => requests'[s] = requests[s]
  BY <1>5, <1>6, <1>8 DEF Live
<1>10. r = Len(requests) /\ \A s \in DOMAIN requests : Live(s) => s = r
  BY <1>5 DEF OneRuns, Live
<1>11. ChatTypes'
  BY <1>1, <1>5, <1>8 DEF ChatTypes
<1>12. OneRuns'
  BY <1>5, <1>8, <1>9, <1>10 DEF OneRuns, Live
<1>13. ASSUME NEW i \in DOMAIN messages PROVE PlacedAt(i)' /\ KeptAt(i)'
  <2>1. PlacedAt(i) /\ KeptAt(i) /\ messages[i].req \in DOMAIN requests
    BY DEF Placed, Kept, PlacedAt
  <2>2. PlacedAt(i)'
    BY <1>5, <1>8, <1>9, <2>1 DEF PlacedAt, Live, IdsTo
  <2>3. KeptAt(i)'
    BY <1>5, <1>8, <1>9, <2>1 DEF KeptAt, Live
  <2> QED BY <2>2, <2>3
<1>14. Placed' /\ Kept'
  BY <1>5, <1>13 DEF Placed, Kept
<1>15. Follows(r) /\ requests[r].buffer = << >>
  BY <1>5 DEF Current, Follows, Live
<1>16. IsAt(new, 0, 0) /\ Count(out, 0) = 0
  <2>1. SubSeq(Body(out), 1, Size(out)) = Body(out)
    BY <1>4, SubSeqFull
  <2>2. SubSeq(Body(out), 1, 0) = << >>
    BY SubSeqEmpty
  <2>3. 2 * 0 + 0 + 1 = 1 /\ 2 * 0 + 1 = 1 /\ 2 * 0 + 0 = 0
    OBVIOUS
  <2> QED BY <1>4, <1>6, <1>15, <2>1, <2>2, <2>3 DEF IsAt, LeftAt, BufferAt, Count
<1>17. ASSUME NEW s \in DOMAIN requests, requests'[s].phase # "over" PROVE Follows(s)'
  <2>1. s = r
    BY <1>9, <1>10, <1>17
  <2>2. 0 \in 0..(Len(out) + 2)
    BY <1>4
  <2>3. \E h \in 0..(Len(new.out) + 2), b \in {0, 1} : IsAt(new, h, b) /\ Count(new.out, h) = 0
    BY <1>6, <1>16, <2>2
  <2>4. /\ messages # << >> /\ messages[Len(messages)].role = "user" /\ status = "opened"
        /\ requests[r].asked = IdsTo(messages, Len(messages))
    BY <1>5, <1>15 DEF Follows
  <2>5. IdsTo(messages', Len(messages')) = IdsTo(messages, Len(messages))
    BY <1>5
  <2> QED BY <1>5, <1>6, <1>8, <2>1, <2>3, <2>4, <2>5 DEF Follows, IsAt
<1>18. Current'
  BY <1>8, <1>17 DEF Current, Live
<1> QED BY <1>11, <1>12, <1>14, <1>18

LEMMA PlaceTypes ==
    ASSUME NEW out \in Text, NEW g \in Nat, NEW c \in {0, 1}, 2 * g + c <= Size(out)
    PROVE  /\ LeftAt(out, g, c) \in Seq(Piece) /\ BufferAt(out, g, c) \in Seq(Piece)
           /\ g \in 0..(Len(out) + 2)
<1>1. /\ Body(out) \in Seq(Piece) /\ Len(Body(out)) = Size(out) /\ Size(out) \in Nat
      /\ Len(out) \in Nat
  BY BodyFacts
<1>2. \A i \in 1..Size(out) : Body(out)[i] \in Piece
  BY <1>1, ElementOfSeq
<1> DEFINE a == 2 * g + 1
           m == 2 * g + c
<1>3. a \in Int /\ a >= 1 /\ m \in Int /\ m >= 0 /\ m <= Size(out)
  OBVIOUS
<1> HIDE DEF a, m
<1>4. /\ \A i \in (m + 1)..Size(out) : Body(out)[i] \in Piece
      /\ \A i \in a..m : Body(out)[i] \in Piece
  BY <1>1, <1>2, <1>3
<1>5. SubSeq(Body(out), m + 1, Size(out)) \in Seq(Piece) /\ SubSeq(Body(out), a, m) \in Seq(Piece)
  BY <1>1, <1>3, <1>4, SubSeqProperties
<1>6. g <= Len(out) + 2
  BY <1>1 DEF Size
<1> QED BY <1>1, <1>5, <1>6 DEF LeftAt, BufferAt, a, m

Sliced(out, h, g, deltas) ==
    /\ deltas \in Text /\ (deltas = << >> => Count(out, h) = Count(out, g))
    /\ SubSeq(out, 1, Count(out, h)) \o deltas = SubSeq(out, 1, Count(out, g))

LEMMA TextSlice ==
    ASSUME NEW out \in Text, NEW h \in Nat, NEW g \in Nat, h <= g,
           NEW deltas, deltas = SubSeq(out, Count(out, h) + 1, Count(out, g))
    PROVE  Sliced(out, h, g, deltas)
<1> USE DEF Sliced
<1> DEFINE x == Count(out, h)
           y == Count(out, g)
<1>1. x \in Nat /\ y \in Nat /\ Len(out) \in Nat /\ x <= y /\ y <= Len(out)
  BY CountGrows
<1> HIDE DEF x, y
<1>2. \A i \in (x + 1)..y : out[i] \in Token
  BY <1>1, ElementOfSeq DEF Text
<1> DEFINE part == SubSeq(out, x + 1, y)
<1>3. part \in Text /\ Len(part) = (IF x + 1 <= y THEN y - (x + 1) + 1 ELSE 0)
  BY <1>1, <1>2, SubSeqProperties DEF Text
<1>4. SubSeq(out, 1, x) \o part = SubSeq(out, 1, y)
  <2>1. 1 \in 1..(Len(out) + 1) /\ x \in (1 - 1)..Len(out) /\ y \in x..Len(out)
    BY <1>1
  <2> QED BY <2>1, ConcatAdjacentSubSeq DEF Text
<1> HIDE DEF part
<1>5. part = << >> => x = y
  <2>1. part = << >> => Len(part) = 0
    OBVIOUS
  <2> QED BY <1>1, <1>3, <2>1
<1> QED BY <1>3, <1>4, <1>5 DEF part, x, y

\* more is list after text was added to it.
Added(list, n, r, deltas, more) ==
    /\ more \in Seq(Msg)
    /\ list[n].role = "assistant" =>
         /\ Len(more) = n /\ \A i \in 1..n : i # n => more[i] = list[i]
         /\ more[n].role = "assistant" /\ more[n].req = list[n].req
         /\ more[n].raw = list[n].raw \o deltas
    /\ list[n].role # "assistant" =>
         /\ Len(more) = n + 1 /\ \A i \in 1..n : more[i] = list[i]
         /\ more[n + 1].role = "assistant" /\ more[n + 1].req = r
         /\ more[n + 1].raw = deltas

LEMMA AddDeltasFacts ==
    ASSUME NEW list \in Seq(Msg), list # << >>, NEW r \in Nat, NEW deltas \in Text,
           NEW n, n = Len(list), NEW more, more = AddDeltas(list, r, deltas)
    PROVE  Added(list, n, r, deltas, more)
<1> USE DEF Added
<1>1. n \in Nat /\ n \in 1..n /\ list[n] \in Msg
  BY EmptySeq, LenProperties, ElementOfSeq
<1>2. CASE list[n].role = "assistant"
  <2> DEFINE raw == list[n].raw \o deltas
             w == WithRaw(list[n], raw)
  <2>1. raw \in Text
    BY <1>1, ConcatProperties DEF Msg, Text
  <2> HIDE DEF raw
  <2>2. w \in Msg /\ w.role = list[n].role /\ w.req = list[n].req /\ w.raw = raw
    BY <1>1, <2>1, WithRawFacts
  <2>3. more = [list EXCEPT ![n] = w]
    BY <1>2 DEF AddDeltas, raw
  <2> HIDE DEF w
  <2>4. /\ [list EXCEPT ![n] = w] \in Seq(Msg) /\ Len([list EXCEPT ![n] = w]) = n
        /\ \A j \in 1..n : [list EXCEPT ![n] = w][j] = IF j = n THEN w ELSE list[j]
    BY <1>1, <2>2, ExceptSeq
  <2>5. /\ more \in Seq(Msg) /\ Len(more) = n /\ more[n] = w
        /\ \A i \in 1..n : i # n => more[i] = list[i]
    BY <1>1, <2>3, <2>4
  <2> QED BY <1>2, <2>2, <2>5 DEF raw
<1>3. CASE list[n].role # "assistant"
  <2> DEFINE w == WithRaw(Message("assistant", r), deltas)
  <2>1. Message("assistant", r) \in Msg
    BY EmptySeq DEF Message, Msg, Shown, Text
  <2>2. Message("assistant", r).role = "assistant" /\ Message("assistant", r).req = r
    BY DEF Message
  <2>3. w \in Msg /\ w.role = "assistant" /\ w.req = r /\ w.raw = deltas
    BY <2>1, <2>2, WithRawFacts
  <2>4. more = Append(list, w)
    BY <1>3 DEF AddDeltas
  <2> HIDE DEF w
  <2>5. /\ more \in Seq(Msg) /\ Len(more) = n + 1 /\ more[n + 1] = w
        /\ \A i \in 1..n : more[i] = list[i]
    BY <2>3, <2>4, AppendProperties
  <2> QED BY <1>3, <2>3, <2>5
<1> QED BY <1>2, <1>3

(* A chunk: the text grows by what its lines carry.                        *)
LEMMA ChunkKeeps ==
    ASSUME ChatInv, NEW r \in DOMAIN requests, Chunk(r)
    PROVE  ChatInv'
<1> USE DEF ChatInv
<1>0. PICK N \in Nat : N = Len(messages)
  BY ListFacts
<1>1. /\ DOMAIN messages = 1..N /\ \A i \in 1..N : messages[i] \in Msg
      /\ Len(requests) \in Nat /\ DOMAIN requests = 1..Len(requests)
      /\ r \in Nat /\ requests[r] \in Request
  BY <1>0, ListFacts
<1>a. PICK n \in 1..Len(requests[r].left) :
        \E buffer \in {requests[r].buffer \o SubSeq(requests[r].left, 1, n)} :
          /\ OnMessages(r, Deltas(buffer))
          /\ requests' = [requests EXCEPT ![r] =
             [@ EXCEPT !.buffer = Rest(buffer),
                       !.left = SubSeq(requests[r].left, n + 1, Len(requests[r].left))]]
  BY DEF Chunk
<1>2. PICK buffer, deltas :
        /\ buffer = requests[r].buffer \o SubSeq(requests[r].left, 1, n)
        /\ deltas = Deltas(buffer) /\ OnMessages(r, deltas)
        /\ requests' = [requests EXCEPT ![r] =
             [@ EXCEPT !.buffer = Rest(buffer),
                       !.left = SubSeq(requests[r].left, n + 1, Len(requests[r].left))]]
  BY <1>a
<1>3. requests[r].phase = "reading" /\ Live(r) /\ reader' = reader /\ format' = format
  BY DEF Chunk, Live, Client, World
<1>4. Follows(r) /\ messages # << >> /\ N >= 1
  BY <1>0, <1>3, ListFacts DEF Current, Follows
<1>5. PICK out \in Text : out = requests[r].out
  BY <1>1 DEF Request
<1>6. PICK h \in 0..(Len(out) + 2), b \in {0, 1} :
        /\ IsAt(requests[r], h, b)
        /\ messages[N].role = "user" => Count(out, h) = 0
        /\ messages[N].role = "assistant" => messages[N].raw = SubSeq(out, 1, Count(out, h))
  BY <1>0, <1>3, <1>4, <1>5 DEF Follows
<1>7. /\ h \in Nat /\ 2 * h + b <= Size(out)
      /\ requests[r].left = LeftAt(out, h, b) /\ requests[r].buffer = BufferAt(out, h, b)
  BY <1>5, <1>6 DEF IsAt
<1>8. PICK g \in Nat, c \in {0, 1} :
        /\ h <= g /\ 2 * g + c <= Size(out)
        /\ deltas = SubSeq(out, Count(out, h) + 1, Count(out, g))
        /\ Rest(buffer) = BufferAt(out, g, c)
        /\ SubSeq(LeftAt(out, h, b), n + 1, Len(LeftAt(out, h, b))) = LeftAt(out, g, c)
  <2>1. n \in 1..Len(LeftAt(out, h, b))
    BY <1>a, <1>7
  <2>2. buffer = BufferAt(out, h, b) \o SubSeq(LeftAt(out, h, b), 1, n)
    BY <1>2, <1>7
  <2>3. Moved(out, h, b, n, buffer)
    BY <1>7, <2>1, <2>2, ChunkFacts, Zenon
  <2> QED BY <1>2, <2>3 DEF Moved
<1>9. /\ LeftAt(out, g, c) \in Seq(Piece) /\ BufferAt(out, g, c) \in Seq(Piece)
      /\ g \in 0..(Len(out) + 2)
  BY <1>8, PlaceTypes
<1> DEFINE new == [requests[r] EXCEPT !.buffer = BufferAt(out, g, c), !.left = LeftAt(out, g, c)]
<1>10. requests' = [requests EXCEPT ![r] = new]
  <2>2. /\ Rest(buffer) = BufferAt(out, g, c)
        /\ SubSeq(requests[r].left, n + 1, Len(requests[r].left)) = LeftAt(out, g, c)
    BY <1>7, <1>8
  <2> QED BY <1>2, <2>2, Zenon
<1>11. OnMessages(r, deltas)
  BY <1>2
<1>12. /\ new \in Request /\ new.phase = "reading" /\ new.out = out /\ new.asked = requests[r].asked
       /\ new.how = requests[r].how /\ new.left = LeftAt(out, g, c) /\ new.buffer = BufferAt(out, g, c)
  BY <1>1, <1>3, <1>5, <1>9 DEF Request
<1> HIDE DEF new
<1>13. requests' \in Seq(Request) /\ Len(requests') = Len(requests) /\ DOMAIN requests' = DOMAIN requests
       /\ requests'[r] = new /\ \A s \in DOMAIN requests : s # r => requests'[s] = requests[s]
  BY <1>1, <1>10, <1>12, ExceptSeq, LenProperties DEF ChatTypes
<1>14. \A s \in DOMAIN requests :
         /\ requests'[s].phase = requests[s].phase /\ requests'[s].asked = requests[s].asked
         /\ requests'[s].how = requests[s].how
         /\ requests'[s].phase # "over" <=> Live(s)
         /\ ~Live(s) => requests'[s] = requests[s]
  BY <1>3, <1>12, <1>13 DEF Live
<1>15. r = Len(requests) /\ \A s \in DOMAIN requests : Live(s) => s = r
  BY <1>3 DEF OneRuns
<1>16. IsAt(new, g, c)
  BY <1>8, <1>12 DEF IsAt
<1>17. /\ deltas \in Text /\ (deltas = << >> => Count(out, h) = Count(out, g))
       /\ SubSeq(out, 1, Count(out, h)) \o deltas = SubSeq(out, 1, Count(out, g))
  <2>1. Sliced(out, h, g, deltas)
    BY <1>7, <1>8, TextSlice, Zenon
  <2> QED BY <2>1 DEF Sliced
<1>18. messages[N].role \in {"user", "assistant"}
  BY <1>1, <1>4 DEF Msg
<1>19. CASE deltas = << >>
  <2>1. status' = status /\ messages' = messages
    BY <1>11, <1>19 DEF OnMessages
  <2>2. ChatTypes'
    BY <1>3, <1>13, <2>1 DEF ChatTypes
  <2>3. OneRuns'
    BY <1>3, <1>13, <1>14, <2>1 DEF OneRuns, Live
  <2>4. ASSUME NEW i \in 1..N PROVE PlacedAt(i)' /\ KeptAt(i)'
    <3>1. PlacedAt(i) /\ KeptAt(i) /\ messages[i].req \in DOMAIN requests
      BY <1>1 DEF Placed, Kept, PlacedAt
    <3>2. PlacedAt(i)'
      BY <1>13, <1>14, <2>1, <3>1 DEF PlacedAt, Live, IdsTo
    <3>3. KeptAt(i)'
      BY <1>13, <1>14, <2>1, <3>1 DEF KeptAt, Live
    <3> QED BY <3>2, <3>3
  <2>5. Follows(r)'
    <3>1. Count(out, g) = Count(out, h)
      BY <1>17, <1>19
    <3> QED BY <1>0, <1>3, <1>4, <1>6, <1>9, <1>12, <1>13, <1>16, <2>1, <3>1 DEF Follows
  <2>6. Current'
    BY <1>13, <1>14, <1>15, <2>5 DEF Current, Live
  <2> QED BY <1>1, <2>1, <2>2, <2>3, <2>4, <2>6 DEF Placed, Kept
<1>20. CASE deltas # << >>
  <2>1. status' = "generating" /\ messages' = AddDeltas(messages, r, deltas)
    BY <1>11, <1>20 DEF OnMessages
  <2>2. /\ messages' \in Seq(Msg)
        /\ messages[N].role = "assistant" =>
             /\ Len(messages') = N /\ \A i \in 1..N : i # N => messages'[i] = messages[i]
             /\ messages'[N].role = "assistant" /\ messages'[N].req = messages[N].req
             /\ messages'[N].raw = messages[N].raw \o deltas
        /\ messages[N].role # "assistant" =>
             /\ Len(messages') = N + 1 /\ \A i \in 1..N : messages'[i] = messages[i]
             /\ messages'[N + 1].role = "assistant" /\ messages'[N + 1].req = r
             /\ messages'[N + 1].raw = deltas
    <3>1. messages \in Seq(Msg) /\ messages # << >> /\ r \in Nat /\ deltas \in Text
      BY <1>1, <1>4, <1>17 DEF ChatTypes
    <3>2. Added(messages, N, r, deltas, messages')
      BY <1>0, <2>1, <3>1, AddDeltasFacts, Zenon
    <3> QED BY <3>2 DEF Added
  <2>3. PICK Z \in Nat : Z = Len(messages')
    BY <2>2, LenProperties
  <2>4. DOMAIN messages' = 1..Z
    BY <2>2, <2>3, LenProperties
  <2>5. Z >= 1 /\ Z - 1 \in 0..N /\ \A i \in 1..Z : i # Z => i \in 1..N /\ messages'[i] = messages[i]
    BY <1>4, <1>18, <2>2, <2>3
  <2>6. /\ messages'[Z].role = "assistant" /\ messages'[Z].req = r
        /\ messages'[Z].raw = SubSeq(out, 1, Count(out, g))
    <3>1. CASE messages[N].role = "assistant"
      <4>1. messages[N].req = r
        BY <1>0, <1>4, <3>1 DEF Follows
      <4> QED BY <1>6, <1>17, <2>2, <2>3, <3>1, <4>1
    <3>2. CASE messages[N].role = "user"
      <4>1. Count(out, h) = 0
        BY <1>6, <3>2
      <4>2. SubSeq(out, 1, 0) = << >>
        BY SubSeqEmpty
      <4>3. << >> \o deltas = deltas
        BY <1>17, ConcatEmptySeq DEF Text
      <4> QED BY <1>17, <2>2, <2>3, <3>2, <4>1, <4>2, <4>3
    <3> QED BY <1>18, <3>1, <3>2
  <2>7. Z > 1 /\ messages'[Z - 1].role = "user" /\ requests[r].asked = IdsTo(messages', Z - 1)
    <3>0. \A k \in 0..(Z - 1) : IdsTo(messages', k) = IdsTo(messages, k)
      <4> SUFFICES ASSUME NEW k \in 0..(Z - 1) PROVE IdsTo(messages', k) = IdsTo(messages, k)
        OBVIOUS
      <4>1. \A i \in 1..k : i \in 1..Z /\ i # Z
        BY <2>5
      <4> QED BY <2>5, <4>1 DEF IdsTo
    <3>1. CASE messages[N].role = "assistant"
      <4>1. Z = N /\ messages[N].req = r /\ PlacedAt(N)
        BY <1>0, <1>1, <1>4, <2>2, <2>3, <3>1 DEF Follows, Placed
      <4>2. N > 1 /\ messages[N - 1].role = "user" /\ requests[r].asked = IdsTo(messages, N - 1)
        BY <3>1, <4>1 DEF PlacedAt
      <4>3. messages'[Z - 1] = messages[N - 1]
        BY <2>5, <4>1, <4>2
      <4> QED BY <3>0, <4>1, <4>2, <4>3
    <3>2. CASE messages[N].role = "user"
      <4>1. Z = N + 1 /\ messages'[N] = messages[N]
        BY <1>4, <2>2, <2>3, <3>2
      <4>2. requests[r].asked = IdsTo(messages, N)
        BY <1>0, <1>4, <3>2 DEF Follows
      <4>3. Z > 1 /\ Z - 1 = N /\ N \in 0..(Z - 1)
        BY <1>4, <4>1
      <4> QED BY <3>0, <3>2, <4>1, <4>2, <4>3
    <3> QED BY <1>18, <3>1, <3>2
  <2>8. ChatTypes'
    BY <1>3, <1>13, <2>1, <2>2 DEF ChatTypes
  <2>9. OneRuns'
    <3>1. \A s \in DOMAIN requests' : requests'[s].phase # "over" =>
             s = Len(requests') /\ requests'[s].how = "none"
             /\ (requests'[s].phase = "reading" => reader' = s)
      BY <1>3, <1>13, <1>14 DEF OneRuns
    <3>2. \E s \in DOMAIN requests' : requests'[s].phase # "over"
      BY <1>3, <1>13, <1>14
    <3> QED BY <2>1, <3>1, <3>2 DEF OneRuns, Live
  <2>10. ASSUME NEW i \in 1..Z PROVE PlacedAt(i)' /\ KeptAt(i)'
    <3>1. CASE i = Z
      <4>1. r \in DOMAIN requests' /\ requests'[r].phase # "over"
            /\ requests'[r].asked = requests[r].asked
        BY <1>3, <1>13, <1>14
      <4> QED BY <2>3, <2>6, <2>7, <3>1, <4>1 DEF PlacedAt, KeptAt, Live
    <3>2. CASE i # Z
      <4>1. i \in 1..N /\ messages'[i] = messages[i]
        BY <2>5, <3>2
      <4>2. PlacedAt(i) /\ KeptAt(i) /\ messages[i].req \in DOMAIN requests
        BY <1>1, <4>1 DEF Placed, Kept, PlacedAt
      <4>3. ~(messages[i].role = "assistant" /\ Live(messages[i].req))
        <5>1. SUFFICES ASSUME messages[i].role = "assistant", Live(messages[i].req) PROVE FALSE
          OBVIOUS
        <5>2. i = N
          BY <1>0, <4>2, <5>1 DEF PlacedAt
        <5> QED BY <2>2, <2>3, <3>2, <5>1, <5>2
      <4>4. messages[i].role = "assistant" =>
              i > 1 /\ messages'[i - 1] = messages[i - 1] /\ IdsTo(messages', i - 1) = IdsTo(messages, i - 1)
        <5> SUFFICES ASSUME messages[i].role = "assistant"
                     PROVE  /\ i > 1 /\ messages'[i - 1] = messages[i - 1]
                            /\ IdsTo(messages', i - 1) = IdsTo(messages, i - 1)
          OBVIOUS
        <5>1. i > 1
          BY <4>2 DEF PlacedAt
        <5>2. \A j \in 1..(i - 1) : j \in 1..Z /\ j # Z
          BY <2>5
        <5>3. \A j \in 1..(i - 1) : messages'[j] = messages[j]
          BY <2>5, <5>2
        <5>4. i - 1 \in 1..(i - 1)
          BY <5>1
        <5> QED BY <5>1, <5>3, <5>4 DEF IdsTo
      <4>5. PlacedAt(i)'
        BY <1>13, <1>14, <4>1, <4>2, <4>3, <4>4 DEF PlacedAt, Live
      <4>6. KeptAt(i)'
        BY <1>14, <4>1, <4>2, <4>3 DEF KeptAt, Live
      <4> QED BY <4>5, <4>6
    <3> QED BY <3>1, <3>2
  <2>11. Follows(r)'
    <3>1. messages' # << >>
      BY <2>3, <2>5
    <3> QED BY <1>9, <1>12, <1>13, <1>16, <2>1, <2>3, <2>6, <3>1 DEF Follows
  <2>12. Current'
    BY <1>13, <1>14, <1>15, <2>11 DEF Current, Live
  <2> QED BY <2>4, <2>8, <2>9, <2>10, <2>12 DEF Placed, Kept
<1> QED BY <1>19, <1>20

LEMMA InitKeeps == Init => ChatInv
  BY EmptySeq DEF Init, ChatInv, ChatTypes, OneRuns, Placed, Kept, Current

(* Steps that leave the conversation and its requests alone.               *)
LEMMA IdleKeeps ==
    ASSUME ChatInv, UNCHANGED <<status, messages, requests, reader, format>>
    PROVE  ChatInv'
<1> USE DEF ChatInv
<1>1. ChatTypes' /\ OneRuns'
  BY DEF ChatTypes, OneRuns, Live
<1>2. ASSUME NEW i \in DOMAIN messages PROVE PlacedAt(i)' /\ KeptAt(i)'
  BY DEF Placed, Kept, PlacedAt, KeptAt, Live
<1>3. ASSUME NEW r \in DOMAIN requests, Live(r) PROVE Follows(r)'
  BY <1>3 DEF Current, Follows, Live
<1> QED BY <1>1, <1>2, <1>3 DEF Placed, Kept, Current, Live

LEMMA SendKeeps ==
    ASSUME ChatInv, Send PROVE ChatInv'
<1> USE DEF ChatInv
<1> DEFINE m == Message("user", Len(requests) + 1)
           list == Append(messages, m)
<1>1. m \in Msg /\ m.role = "user"
  BY ListFacts, EmptySeq DEF Message, Msg, Shown, Text
<1>2. status \notin {"opened", "generating"} /\ format' = format /\ Connect(list)
  BY DEF Send, Generate, CanGenerate, World
<1>3. messages \in Seq(Msg) /\ Len(messages) \in Nat
  BY ListFacts DEF ChatTypes
<1> HIDE DEF m
<1>4. /\ list \in Seq(Msg) /\ Len(list) = Len(messages) + 1 /\ list[Len(messages) + 1] = m
      /\ \A i \in 1..Len(messages) : list[i] = messages[i]
  BY <1>1, <1>3, AppendProperties
<1> HIDE DEF list
<1>5. list # << >> /\ list[Len(list)].role = "user"
  BY <1>1, <1>3, <1>4, EmptySeq
<1>6. \A i \in 1..Len(list) :
        \/ i \in 1..Len(messages) /\ list[i] = messages[i]
        \/ i = Len(list) /\ list[i] = Message("user", Len(requests) + 1)
  BY <1>3, <1>4 DEF m
<1> QED BY <1>2, <1>4, <1>5, <1>6, ConnectKeeps

LEMMA RegenerateKeeps ==
    ASSUME ChatInv, Regenerate PROVE ChatInv'
<1> USE DEF ChatInv
<1>1. status \notin {"opened", "generating"} /\ format' = format
  BY DEF Regenerate, CanGenerate, World
<1>2. PICK i \in DOMAIN messages : messages[i].role = "assistant" /\ Connect(Before(i))
  BY DEF Regenerate, ShowRegenerate
<1>3. /\ messages \in Seq(Msg) /\ Len(messages) \in Nat /\ i \in 1..Len(messages)
      /\ \A j \in 1..Len(messages) : messages[j] \in Msg
  BY ListFacts DEF ChatTypes
<1>4. i > 1 /\ messages[i - 1].role = "user"
  BY <1>2 DEF Placed, PlacedAt
<1> DEFINE list == SubSeq(messages, 1, i - 1)
<1>5. Connect(list)
  BY <1>2 DEF Before
<1>6. PICK k \in Nat : k = i - 1 /\ k >= 1 /\ k \in 1..Len(messages)
  BY <1>3, <1>4
<1>7. list = SubSeq(messages, 1, k)
  BY <1>6
<1> HIDE DEF list
<1>8. list \in Seq(Msg) /\ Len(list) = k /\ \A j \in 1..k : list[j] = messages[j]
  <2>1. \A j \in 1..k : messages[j] \in Msg
    BY <1>3, <1>6
  <2> QED BY <1>3, <1>6, <1>7, <2>1, SubSeqProperties
<1>9. list # << >> /\ list[Len(list)].role = "user"
  BY <1>4, <1>6, <1>8, EmptySeq
<1>10. \A j \in 1..Len(list) :
        \/ j \in 1..Len(messages) /\ list[j] = messages[j]
        \/ j = Len(list) /\ list[j] = Message("user", Len(requests) + 1)
  BY <1>3, <1>6, <1>8
<1> QED BY <1>1, <1>5, <1>8, <1>9, <1>10, ConnectKeeps

(* The reader the variable holds is the one of the request that generates. *)
LEMMA StopKeeps ==
    ASSUME ChatInv, Stop PROVE ChatInv'
<1> USE DEF ChatInv
<1>1. /\ status = "generating" /\ Over(reader, "stopped") /\ reader' = 0 /\ status' = "closed"
      /\ messages' = CloseLast(messages) /\ format' = format
  BY DEF Stop, Disconnect, OnClose, World
<1>2. PICK r \in DOMAIN requests : Live(r)
  BY <1>1 DEF OneRuns
<1>3. requests[r].phase = "reading"
  BY <1>1, <1>2 DEF Current, Follows
<1>4. reader = r
  BY <1>2, <1>3 DEF OneRuns
<1>5. Over(r, "stopped")
  BY <1>1, <1>4
<1> QED BY <1>1, <1>2, <1>5, OverKeeps

LEMMA ClearKeeps ==
    ASSUME ChatInv, Clear PROVE ChatInv'
<1> USE DEF ChatInv
<1>1. /\ status \notin {"opened", "generating"} /\ messages' = << >> /\ status' = status
      /\ requests' = requests /\ reader' = reader /\ format' = format
  BY DEF Clear, ClearEnabled, World
<1>2. \A r \in DOMAIN requests : ~Live(r)
  BY <1>1 DEF OneRuns
<1>3. DOMAIN messages' = {} /\ messages' \in Seq(Msg)
  BY <1>1, EmptySeq
<1>4. ChatTypes'
  BY <1>1, <1>3 DEF ChatTypes
<1>5. OneRuns' /\ Current'
  BY <1>1, <1>2 DEF OneRuns, Current, Live
<1> QED BY <1>3, <1>4, <1>5 DEF Placed, Kept

LEMMA EndsKeeps ==
    ASSUME ChatInv, NEW r \in DOMAIN requests, Refused(r) \/ Done(r) \/ Breaks(r)
    PROVE  ChatInv'
<1>1. Live(r) /\ reader \in Nat
  BY DEF Refused, Done, Breaks, Live, ChatInv, ChatTypes
<1>2. CASE Refused(r)
  <2>1. /\ Over(r, "failed") /\ messages' = CloseLast(messages) /\ status' = "error"
        /\ reader' = reader /\ format' = format
    BY <1>2 DEF Refused, OnError, Client, World
  <2> QED BY <1>1, <2>1, OverKeeps
<1>3. CASE Done(r)
  <2>1. /\ Over(r, "ended") /\ messages' = CloseLast(messages) /\ status' = "closed"
        /\ reader' = reader /\ format' = format
        /\ requests[r].phase = "reading" /\ requests[r].left = << >>
    BY <1>3 DEF Done, OnClose, Client, World
  <2> QED BY <1>1, <2>1, OverKeeps
<1>4. CASE Breaks(r)
  <2>1. /\ Over(r, "failed") /\ messages' = CloseLast(messages) /\ status' = "error"
        /\ reader' = reader /\ format' = format
    BY <1>4 DEF Breaks, OnError, Client, World
  <2> QED BY <1>1, <2>1, OverKeeps
<1> QED BY <1>2, <1>3, <1>4

LEMMA NextKeeps == ChatInv /\ [Next]_vars => ChatInv'
<1> SUFFICES ASSUME ChatInv, [Next]_vars PROVE ChatInv'
  OBVIOUS
<1>1. CASE Type \/ ClusterChanges \/ UNCHANGED vars
  <2>1. UNCHANGED <<status, messages, requests, reader, format>>
    BY <1>1 DEF Type, ClusterChanges, vars, World
  <2> QED BY <2>1, IdleKeeps
<1>2. CASE Send
  BY <1>2, SendKeeps
<1>3. CASE Regenerate
  BY <1>3, RegenerateKeeps
<1>4. CASE Stop
  BY <1>4, StopKeeps
<1>5. CASE Clear
  BY <1>5, ClearKeeps
<1>6. CASE Answers
  BY <1>6, RespondsKeeps, EndsKeeps DEF Answers
<1>7. CASE Reads
  BY <1>7, ChunkKeeps, EndsKeeps DEF Reads
<1>8. CASE Fails
  BY <1>8, EndsKeeps DEF Fails
<1> QED BY <1>1, <1>2, <1>3, <1>4, <1>5, <1>6, <1>7, <1>8 DEF Next

(* The inductive invariant holds in every state: at most one request runs   *)
(* and the status says so, what a request's messages are worth agrees with *)
(* what the callbacks of the event stream have delivered, whatever way the *)
(* body is cut into chunks and whenever the user sends, stops, clears or   *)
(* regenerates (services/chat.tsx).                                        *)
THEOREM ChatInvariant == Spec => []ChatInv
  BY InitKeeps, NextKeeps, PTL DEF Spec

-----------------------------------------------------------------------------
(* The status says whether a request runs: StatusMatchesStream of          *)
(* ChatService, for every set of texts and any number of requests. The     *)
(* guards of generate and clear and the buttons of the page rely on it     *)
(* (services/chat.tsx).                                                    *)
THEOREM StatusMatches == Spec => []StatusMatchesStream
<1>1. ChatInv => StatusMatchesStream
  <2> SUFFICES ASSUME ChatInv PROVE StatusMatchesStream
    OBVIOUS
  <2> USE DEF ChatInv
  <2>1. status \in {"opened", "generating"} <=> \E r \in DOMAIN requests : Live(r)
    BY DEF OneRuns
  <2>2. \A r, s \in DOMAIN requests : Live(r) /\ Live(s) => r = s
    BY DEF OneRuns
  <2>3. ASSUME NEW i \in DOMAIN messages, messages[i].st # "done"
        PROVE  /\ status = "generating" /\ i = Len(messages)
               /\ messages[i].role = "assistant" /\ Live(messages[i].req)
    <3>1. /\ messages[i].req \in DOMAIN requests /\ Live(messages[i].req)
          /\ messages[i].role = "assistant" /\ i = Len(messages)
      BY <2>3 DEF Placed, PlacedAt
    <3>2. status = "generating"
      BY <3>1 DEF Current, Follows
    <3> QED BY <3>1, <3>2
  <2> QED BY <2>1, <2>2, <2>3 DEF StatusMatchesStream
<1> QED BY <1>1, ChatInvariant, PTL

(* Every answer stands right after the messages its request was made with, *)
(* and holds the text generated for it, in order, without a gap and to the *)
(* end unless it was stopped or failed: AnswersItsQuestion of ChatService, *)
(* for every text and every way the network cuts it into chunks            *)
(* (processLines and onMessage of services/chat.tsx).                      *)
THEOREM AnswersBelong == Spec => []AnswersItsQuestion
<1>1. ChatInv => AnswersItsQuestion
  <2> SUFFICES ASSUME ChatInv, NEW i \in DOMAIN messages, messages[i].role = "assistant"
               PROVE  /\ requests[messages[i].req].asked = Ids(SubSeq(messages, 1, i - 1))
                      /\ IsPrefix(messages[i].raw, requests[messages[i].req].out)
                      /\ requests[messages[i].req].how = "ended"
                           => messages[i].raw = requests[messages[i].req].out
    BY DEF AnswersItsQuestion
  <2> USE DEF ChatInv
  <2>1. PICK s \in DOMAIN requests : s = messages[i].req
    BY DEF Placed, PlacedAt
  <2>2. /\ requests[s].asked = IdsTo(messages, i - 1) /\ i > 1
        /\ Live(s) => i = Len(messages)
    BY <2>1 DEF Placed, PlacedAt
  <2>3. messages \in Seq(Msg) /\ Len(messages) \in Nat /\ i \in 1..Len(messages)
    BY ListFacts DEF ChatTypes
  <2>4. requests[s].asked = Ids(SubSeq(messages, 1, i - 1))
    <3>1. i - 1 \in 0..Len(messages)
      BY <2>2, <2>3
    <3> QED BY <2>2, <2>3, <3>1, IdsFacts
  <2>5. PICK out \in Text : out = requests[s].out
    BY ListFacts DEF Request
  <2>6. Len(out) \in Nat
    BY LenProperties DEF Text
  <2>7. \E c \in 0..Len(out) : messages[i].raw = SubSeq(out, 1, c)
    <3>1. CASE ~Live(s)
      BY <2>1, <2>5, <3>1 DEF Kept, KeptAt
    <3>2. CASE Live(s)
      <4>1. Follows(s) /\ i = Len(messages)
        BY <2>2, <3>2 DEF Current
      <4>2. PICK h \in 0..(Len(out) + 2) : messages[i].raw = SubSeq(out, 1, Count(out, h))
        BY <2>5, <4>1 DEF Follows
      <4>3. Count(out, h) \in 0..Len(out)
        BY <2>6 DEF Count
      <4> QED BY <4>2, <4>3
    <3> QED BY <3>1, <3>2
  <2>8. IsPrefix(messages[i].raw, out)
    <3>1. PICK c \in 0..Len(out) : messages[i].raw = SubSeq(out, 1, c)
      BY <2>7
    <3> DEFINE part == SubSeq(out, 1, c)
    <3>2. part \in Text /\ Len(part) = c
      <4>1. \A j \in 1..c : out[j] \in Token
        BY <2>6, ElementOfSeq DEF Text
      <4> QED BY <2>6, <4>1, SubSeqProperties DEF Text
    <3> HIDE DEF part
    <3>3. messages[i].raw = part /\ Len(part) <= Len(out) /\ part = SubSeq(out, 1, Len(part))
      BY <2>6, <3>1, <3>2 DEF part
    <3> QED BY <3>3 DEF IsPrefix
  <2>9. requests[s].how = "ended" => messages[i].raw = out
    <3>1. CASE ~Live(s)
      BY <2>1, <2>5, <3>1 DEF Kept, KeptAt
    <3>2. CASE Live(s)
      BY <3>2 DEF OneRuns
    <3> QED BY <3>1, <3>2
  <2> QED BY <2>1, <2>4, <2>5, <2>8, <2>9
<1> QED BY <1>1, ChatInvariant, PTL
-----------------------------------------------------------------------------
(* The page around the conversation, ChatView: the dialog waits for its    *)
(* handler, and the list takes a user to have scrolled up only for a       *)
(* reason. What the list does in the end is liveness and is left to TLC.   *)
View == INSTANCE ChatView

DialogTypes ==
    /\ open \in BOOLEAN /\ loading \in BOOLEAN
    /\ pending \in {"none", "action", "validating", "submit", "invalid"}

(* The dialog is loading exactly while a handler of its caller runs, and   *)
(* is open then: dismissals, results that keep it open, errors and invalid *)
(* forms leave no loading behind (alert-dialog.tsx, pipeHandlers).         *)
THEOREM DialogAlwaysWaits == View!Spec => []DialogWaits
<1>1. View!Init => DialogTypes /\ DialogWaits
  BY DEF View!Init, View!DialogInit, DialogTypes, DialogWaits
<1>2. DialogTypes /\ DialogWaits /\ [View!Next]_(View!vars) => (DialogTypes /\ DialogWaits)'
  <2> SUFFICES ASSUME DialogTypes, DialogWaits, [View!Next]_(View!vars)
               PROVE  (DialogTypes /\ DialogWaits)'
    OBVIOUS
  <2> USE DEF DialogTypes, DialogWaits
  <2>1. CASE UNCHANGED View!dialogVars
    BY <2>1 DEF View!dialogVars
  <2>2. CASE View!Open \/ View!Dismiss \/ View!Act
    <3>1. UNCHANGED <<loading, pending>> /\ open' \in BOOLEAN /\ (loading => open')
      BY <2>2, Zenon DEF View!Open, View!Dismiss, View!Act, View!Closes
    <3> QED BY <3>1, Zenon
  <2>3. CASE View!ActLater \/ View!Submit \/ View!Validates
    BY <2>3 DEF View!ActLater, View!Submit, View!Validates
  <2>4. CASE View!ActEnds \/ View!SubmitEnds
    BY <2>4 DEF View!ActEnds, View!SubmitEnds, View!Settles, View!Closes
  <2>5. CASE View!InvalidEnds
    BY <2>5 DEF View!InvalidEnds
  <2>6. UNCHANGED View!dialogVars \/ View!DialogNext
    BY DEF View!Next, View!Dialog, View!Stream, View!Renders, View!Gestures, View!vars
  <2> QED BY <2>1, <2>2, <2>3, <2>4, <2>5, <2>6 DEF View!DialogNext, View!HandlerEnds
<1> QED BY <1>1, <1>2, PTL DEF View!Spec
-----------------------------------------------------------------------------
(* Unless the user or a cut moves it up the position only grows, so the one *)
(* that the last event saw is not above the present one.                   *)
UpInv ==
    /\ top \in Nat /\ prev \in Nat
    /\ userUp \in BOOLEAN /\ raised \in BOOLEAN
    /\ ~raised => prev <= top

(* One step of the list: it keeps UpInv and does what StopsOnlyWhenMoved   *)
(* allows.                                                                 *)
LEMMA UpStep ==
    ASSUME UpInv, [View!Next]_(View!vars)
    PROVE  UpInv' /\ (~userUp /\ userUp' => View!ScrollUp \/ raised)
<1> USE DEF UpInv
<1>1. CASE UNCHANGED View!viewVars
  <2>1. UNCHANGED <<top, prev, userUp, raised>>
    BY <1>1, Zenon DEF View!viewVars
  <2> QED BY <2>1
<1>2. CASE View!Grow
  <2>1. UNCHANGED <<top, prev, raised>>
    BY <1>2, Zenon DEF View!Grow
  <2>2. userUp' \in BOOLEAN /\ (~userUp => ~userUp')
    BY <1>2, Zenon DEF View!Grow, View!MessagesEffect, View!ScrollToBottom
  <2> QED BY <2>1, <2>2
<1>3. CASE View!Cut
  <2>1. prev' = prev /\ (raised' <=> raised \/ top' < top) /\ raised' \in BOOLEAN
    BY <1>3 DEF View!Cut
  <2>2. max' \in Nat /\ top' = (IF top > max' THEN max' ELSE top)
    BY <1>3 DEF View!Cut
  <2>3. userUp' \in BOOLEAN /\ (~userUp => ~userUp')
    BY <1>3, Zenon DEF View!Cut, View!MessagesEffect, View!ScrollToBottom
  <2> QED BY <2>1, <2>2, <2>3
<1>4. CASE View!Frame \/ View!Timeout
  <2>1. UNCHANGED <<top, prev, userUp, raised>>
    BY <1>4, Zenon DEF View!Frame, View!Timeout
  <2> QED BY <2>1
<1>5. CASE View!Animate
  <2>1. UNCHANGED <<prev, userUp, raised>>
    BY <1>5, Zenon DEF View!Animate
  <2>2. top' \in {top, top + 1}
    BY <1>5 DEF View!Animate
  <2> QED BY <2>1, <2>2
<1>6. CASE View!OnScroll
  <2>1. top' = top /\ prev' = top /\ raised' = FALSE
    BY <1>6, Zenon DEF View!OnScroll
  <2>2. userUp' \in BOOLEAN /\ (~userUp /\ userUp' => top < prev)
    BY <1>6, Zenon DEF View!OnScroll
  <2>3. (prev <= top => ~(top < prev)) /\ top' \in Nat /\ prev' \in Nat /\ prev' <= top'
    BY <2>1
  <2> QED BY <2>1, <2>2, <2>3, Zenon
<1>7. ASSUME NEW p \in Nat, View!MovesTo(p), prev' = prev
      PROVE  top' \in Nat /\ prev' \in Nat /\ raised' \in BOOLEAN /\ (~raised' => prev' <= top')
  <2>1. top' = p /\ (raised' <=> raised \/ p < top) /\ raised' \in BOOLEAN
    BY <1>7, Zenon DEF View!MovesTo
  <2>2. ~(p < top) => (prev <= top => prev' <= top')
    BY <1>7, <2>1
  <2> QED BY <1>7, <2>1, <2>2, Zenon
<1>8. CASE View!ScrollUp
  <2>1. prev' = prev /\ userUp' = TRUE
    BY <1>8, Zenon DEF View!ScrollUp
  <2>2. \E p \in Nat : View!MovesTo(p)
    BY <1>8 DEF View!ScrollUp
  <2> QED BY <1>7, <1>8, <2>1, <2>2, Zenon
<1>9. CASE View!ScrollDown \/ View!ScrollOtherwise
  <2>1. prev' = prev /\ userUp' = userUp
    BY <1>9, Zenon DEF View!ScrollDown, View!ScrollOtherwise
  <2>2. \E p \in Nat : View!MovesTo(p)
    BY <1>9 DEF View!ScrollDown, View!ScrollOtherwise
  <2> QED BY <1>7, <2>1, <2>2, Zenon
<1>10. CASE View!ClickBottom
  <2>1. UNCHANGED <<top, prev, raised>> /\ userUp' = FALSE
    BY <1>10, Zenon DEF View!ClickBottom, View!ScrollToBottom
  <2> QED BY <2>1
<1> QED BY <1>1, <1>2, <1>3, <1>4, <1>5, <1>6, <1>8, <1>9, <1>10
        DEF View!Next, View!Dialog, View!Stream, View!Renders, View!Gestures, View!Browser, View!UserScrolls, View!vars

(* The list stops following only in a step in which the user scrolls up,   *)
(* or on a report of a position that he or a cut has moved up since the    *)
(* last report, whichever frames, timers and scroll events of its own are  *)
(* due (onScroll of chat-messages.tsx).                                    *)
THEOREM FollowsUnlessMoved == View!Spec => StopsOnlyWhenMoved
<1>1. View!Init => UpInv
  <2> SUFFICES ASSUME View!Init PROVE UpInv
    OBVIOUS
  <2>1. top = 0 /\ prev = 0
    BY DEF View!Init, View!ViewInit
  <2>2. userUp \in BOOLEAN /\ raised \in BOOLEAN
    BY Zenon DEF View!Init, View!ViewInit
  <2> QED BY <2>1, <2>2 DEF UpInv
<1>2. UpInv /\ [View!Next]_(View!vars) =>
        UpInv' /\ [~userUp /\ userUp' => ScrollUp \/ raised]_viewVars
  <2>1. View!ScrollUp <=> ScrollUp
    BY DEF View!ScrollUp, ScrollUp, View!Gesture, Gesture, View!MovesTo, MovesTo, View!Still, Still
  <2>2. View!viewVars = viewVars
    BY DEF View!viewVars, viewVars
  <2> QED BY <2>1, <2>2, UpStep
<1> QED BY <1>1, <1>2, PTL DEF View!Spec, StopsOnlyWhenMoved
=============================================================================
