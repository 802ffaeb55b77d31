--------------------------- MODULE SequenceLemmas ---------------------------
(***************************************************************************)
(* What cutting a sequence and inserting into it returns: facts about      *)
(* sequences that the proofs about the components cite.                    *)
(***************************************************************************)
EXTENDS Integers, SequencesExt, SequenceTheorems, TLAPS

(* A function on 1 .. n is a sequence of length n.                         *)
LEMMA FunctionIsSeq ==
  ASSUME NEW S, NEW n \in Nat, NEW f \in [1 .. n -> S]
  PROVE  f \in Seq(S) /\ Len(f) = n /\ DOMAIN f = 1 .. n
  OBVIOUS

(* What is left of a sequence without its first k elements.                *)
LEMMA DropPrefix ==
  ASSUME NEW S, NEW s \in Seq(S), NEW k \in 0 .. Len(s)
  PROVE  LET t == SubSeq(s, k + 1, Len(s)) IN
         /\ t \in Seq(S) /\ Len(t) = Len(s) - k
         /\ DOMAIN t = 1 .. (Len(s) - k)
         /\ \A i \in 1 .. (Len(s) - k) : t[i] = s[k + i]
<1> DEFINE t == SubSeq(s, k + 1, Len(s))
<1>1. Len(s) \in Nat
  BY LenProperties
<1>2. \A i \in k + 1 .. Len(s) : s[i] \in S
  BY <1>1, ElementOfSeq
<1>3. /\ t \in Seq(S)
      /\ Len(t) = IF k + 1 <= Len(s) THEN Len(s) - (k + 1) + 1 ELSE 0
      /\ \A i \in 1 .. Len(s) - (k + 1) + 1 : t[i] = s[(k + 1) + i - 1]
  BY <1>1, <1>2, SubSeqProperties
<1>4. Len(t) = Len(s) - k
  BY <1>1, <1>3
<1>5. \A i \in 1 .. (Len(s) - k) : t[i] = s[k + i]
  BY <1>1, <1>3
<1>6. QED
  BY <1>3, <1>4, <1>5, LenProperties

(* The first k elements of a sequence.                                     *)
LEMMA TakePrefix ==
  ASSUME NEW S, NEW s \in Seq(S), NEW k \in 0 .. Len(s)
  PROVE  LET t == SubSeq(s, 1, k) IN
         /\ t \in Seq(S) /\ Len(t) = k
         /\ DOMAIN t = 1 .. k
         /\ \A i \in 1 .. k : t[i] = s[i]
<1> DEFINE t == SubSeq(s, 1, k)
<1>1. Len(s) \in Nat
  BY LenProperties
<1>2. \A i \in 1 .. k : s[i] \in S
  BY <1>1, ElementOfSeq
<1>3. /\ t \in Seq(S)
      /\ Len(t) = IF 1 <= k THEN k - 1 + 1 ELSE 0
      /\ \A i \in 1 .. k - 1 + 1 : t[i] = s[1 + i - 1]
  BY <1>1, <1>2, SubSeqProperties
<1>4. Len(t) = k
  BY <1>1, <1>3
<1>5. \A i \in 1 .. k : t[i] = s[i]
  BY <1>1, <1>3
<1>6. QED
  BY <1>3, <1>4, <1>5, LenProperties

(* A sequence with e put in at position p: what was there moves up by one. *)
LEMMA InsertAtProperties ==
  ASSUME NEW S, NEW s \in Seq(S), NEW p \in 1 .. Len(s) + 1, NEW e \in S
  PROVE  /\ InsertAt(s, p, e) \in Seq(S) /\ Len(InsertAt(s, p, e)) = Len(s) + 1
         /\ DOMAIN InsertAt(s, p, e) = 1 .. Len(s) + 1
         /\ \A i \in 1 .. Len(s) + 1 :
              InsertAt(s, p, e)[i] =
                IF i < p THEN s[i] ELSE IF i = p THEN e ELSE s[i - 1]
<1> DEFINE u == SubSeq(s, 1, p - 1)
           v == SubSeq(s, p, Len(s))
           t == u \o <<e>> \o v
<1>1. Len(s) \in Nat
  BY LenProperties
<1>2. /\ u \in Seq(S) /\ Len(u) = p - 1
      /\ \A i \in 1 .. (p - 1) : u[i] = s[i]
  BY <1>1, TakePrefix
<1>3. /\ v \in Seq(S) /\ Len(v) = Len(s) - (p - 1)
      /\ \A i \in 1 .. (Len(s) - (p - 1)) : v[i] = s[(p - 1) + i]
  <2>1. p = (p - 1) + 1 /\ p - 1 \in 0 .. Len(s)
    BY <1>1
  <2>2. QED
    BY <1>1, <2>1, DropPrefix
<1>4. <<e>> \in Seq(S) /\ Len(<<e>>) = 1 /\ <<e>>[1] = e
  OBVIOUS
<1>5. /\ u \o <<e>> \in Seq(S) /\ Len(u \o <<e>>) = p
      /\ \A i \in 1 .. p : (u \o <<e>>)[i] = IF i < p THEN s[i] ELSE e
  <2>1. /\ u \o <<e>> \in Seq(S) /\ Len(u \o <<e>>) = Len(u) + Len(<<e>>)
        /\ \A i \in 1 .. Len(u) + Len(<<e>>) :
             (u \o <<e>>)[i] = IF i <= Len(u) THEN u[i] ELSE <<e>>[i - Len(u)]
    BY <1>2, <1>4, ConcatProperties
  <2>2. QED
    BY <1>1, <1>2, <1>4, <2>1
<1>6. /\ t \in Seq(S) /\ Len(t) = Len(s) + 1
      /\ \A i \in 1 .. (Len(s) + 1) :
           t[i] = IF i <= p THEN (u \o <<e>>)[i] ELSE v[i - p]
  <2>1. /\ t \in Seq(S) /\ Len(t) = Len(u \o <<e>>) + Len(v)
        /\ \A i \in 1 .. Len(u \o <<e>>) + Len(v) :
             t[i] = IF i <= Len(u \o <<e>>) THEN (u \o <<e>>)[i]
                                            ELSE v[i - Len(u \o <<e>>)]
    BY <1>3, <1>5, ConcatProperties
  <2> HIDE DEF t, u, v
  <2>2. p \in Int /\ Len(u \o <<e>>) = p /\ p + Len(v) = Len(s) + 1
    BY <1>1, <1>3, <1>5
  <2>3. QED
    BY <2>1, <2>2
<1>7. ASSUME NEW i \in 1 .. (Len(s) + 1), i > p
      PROVE  v[i - p] = s[i - 1]
  <2> HIDE DEF v
  <2>1. i - p \in 1 .. (Len(s) - (p - 1)) /\ (p - 1) + (i - p) = i - 1
    BY <1>1, <1>7
  <2>2. QED
    BY <1>3, <2>1
<1>8. ASSUME NEW i \in 1 .. (Len(s) + 1)
      PROVE  t[i] = IF i < p THEN s[i] ELSE IF i = p THEN e ELSE s[i - 1]
  <2> HIDE DEF t, u, v
  <2>1. p \in Int /\ i \in Int
    BY <1>1
  <2>2. CASE i <= p
    <3>1. i \in 1 .. p
      BY <2>1, <2>2
    <3>2. QED
      BY <1>5, <1>6, <2>1, <2>2, <3>1
  <2>3. CASE i > p
    <3>1. ~ (i <= p) /\ ~ (i < p) /\ i # p
      BY <2>1, <2>3
    <3>2. t[i] = v[i - p]
      BY <1>6, <3>1
    <3>3. v[i - p] = s[i - 1]
      BY <1>7, <2>3
    <3>4. QED
      BY <3>1, <3>2, <3>3
  <2>4. QED
    BY <2>1, <2>2, <2>3
<1>9. DOMAIN t = 1 .. (Len(s) + 1)
  <2> HIDE DEF t
  <2>1. QED
    BY <1>6, LenProperties
<1>10. InsertAt(s, p, e) = t
  BY DEF InsertAt
<1> HIDE DEF t
<1>11. QED
  BY <1>6, <1>8, <1>9, <1>10

(* The two parts of a sequence that was put together of them.              *)
LEMMA PartsOfConcat ==
  ASSUME NEW S, NEW u \in Seq(S), NEW v \in Seq(S)
  PROVE  LET t == u \o v IN
         /\ t \in Seq(S) /\ Len(t) = Len(u) + Len(v)
         /\ SubSeq(t, 1, Len(u)) = u
         /\ SubSeq(t, Len(u) + 1, Len(t)) = v
<1> DEFINE t == u \o v
<1>1. Len(u) \in Nat /\ Len(v) \in Nat
  BY LenProperties
<1>2. /\ t \in Seq(S) /\ Len(t) = Len(u) + Len(v)
      /\ \A i \in 1 .. Len(u) + Len(v) :
           t[i] = IF i <= Len(u) THEN u[i] ELSE v[i - Len(u)]
  BY ConcatProperties
<1> HIDE DEF t
<1>3. SubSeq(t, 1, Len(u)) = u
  <2> DEFINE f == SubSeq(t, 1, Len(u))
  <2>1. Len(u) \in 0 .. Len(t)
    BY <1>1, <1>2
  <2>2. /\ f \in Seq(S) /\ Len(f) = Len(u)
        /\ \A i \in 1 .. Len(u) : f[i] = t[i]
    BY <1>2, <2>1, TakePrefix
  <2> HIDE DEF f
  <2>3. \A i \in 1 .. Len(f) : f[i] = u[i]
    BY <1>1, <1>2, <2>2
  <2>4. f = u
    BY <2>2, <2>3, SeqEqual
  <2>5. QED
    BY <2>4 DEF f
<1>4. SubSeq(t, Len(u) + 1, Len(t)) = v
  <2> DEFINE f == SubSeq(t, Len(u) + 1, Len(t))
  <2>1. Len(u) \in 0 .. Len(t)
    BY <1>1, <1>2
  <2>2. /\ f \in Seq(S) /\ Len(f) = Len(t) - Len(u)
        /\ \A i \in 1 .. Len(t) - Len(u) : f[i] = t[Len(u) + i]
    BY <1>2, <2>1, DropPrefix
  <2> HIDE DEF f
  <2>3. \A i \in 1 .. Len(f) : f[i] = v[i]
    <3>1. SUFFICES ASSUME NEW i \in 1 .. Len(f) PROVE f[i] = v[i]
      OBVIOUS
    <3>2. i \in 1 .. Len(v) /\ i \in Nat
      BY <1>1, <1>2, <2>2
    <3>3. Len(u) + i \in 1 .. Len(u) + Len(v) /\ ~ (Len(u) + i <= Len(u))
      BY <1>1, <3>2
    <3>4. t[Len(u) + i] = v[(Len(u) + i) - Len(u)] /\ (Len(u) + i) - Len(u) = i
      BY <1>1, <1>2, <3>2, <3>3
    <3>5. QED
      BY <1>1, <1>2, <2>2, <3>2, <3>4
  <2>4. Len(f) = Len(v)
    BY <1>1, <1>2, <2>2
  <2>5. f = v
    BY <2>2, <2>3, <2>4, SeqEqual
  <2>6. QED
    BY <2>5 DEF f
<1>5. QED
  BY <1>2, <1>3, <1>4 DEF t

(* A sequence cut in two, and put together again.                          *)
LEMMA CutInTwo ==
  ASSUME NEW S, NEW s \in Seq(S), NEW k \in 0 .. Len(s)
  PROVE  /\ SubSeq(s, 1, k) \in Seq(S) /\ Len(SubSeq(s, 1, k)) = k
         /\ SubSeq(s, k + 1, Len(s)) \in Seq(S)
         /\ SubSeq(s, 1, k) \o SubSeq(s, k + 1, Len(s)) = s
<1>1. Len(s) \in Nat
  BY LenProperties
<1>2. SubSeq(s, 1, k) \o SubSeq(s, k + 1, Len(s)) = SubSeq(s, 1, Len(s))
  <2>1. 1 \in 1 .. Len(s) + 1 /\ k \in 1 - 1 .. Len(s) /\ Len(s) \in k .. Len(s)
    BY <1>1
  <2>2. QED
    BY <2>1, ConcatAdjacentSubSeq
<1>3. QED
  BY <1>2, SubSeqFull, TakePrefix, DropPrefix

(* The element before a cut is the last of one part or the first of the    *)
(* other.                                                                  *)
LEMMA MoveCut ==
  ASSUME NEW S, NEW s \in Seq(S), NEW k \in 1 .. Len(s)
  PROVE  /\ s[k] \in S
         /\ SubSeq(s, 1, k) = Append(SubSeq(s, 1, k - 1), s[k])
         /\ SubSeq(s, k, Len(s)) = <<s[k]>> \o SubSeq(s, k + 1, Len(s))
<1>1. Len(s) \in Nat /\ k - 1 \in 0 .. Len(s) /\ s[k] \in S
  BY LenProperties, ElementOfSeq
<1>2. SubSeq(s, 1, k) = SubSeq(s, 1, k - 1) \o <<s[k]>>
  <2>1. 1 \in 1 .. Len(s) /\ k \in 1 .. Len(s)
    BY <1>1
  <2>2. QED
    BY <2>1, SubSeqRecursiveSecond
<1>3. SubSeq(s, 1, k - 1) \in Seq(S)
  BY <1>1, TakePrefix
<1>4. SubSeq(s, k, Len(s)) = <<s[k]>> \o SubSeq(s, k + 1, Len(s))
  <2>1. Len(s) \in k .. Len(s)
    BY <1>1
  <2>2. QED
    BY <2>1, SubSeqRecursiveFirst
<1>5. QED
  BY <1>1, <1>2, <1>3, <1>4, AppendIsConcat

(* A sequence without its element at position p is shorter by one.         *)
LEMMA RemoveAtType ==
  ASSUME NEW S, NEW s \in Seq(S), NEW p \in 1 .. Len(s)
  PROVE  RemoveAt(s, p) \in Seq(S) /\ Len(RemoveAt(s, p)) = Len(s) - 1
<1>1. Len(s) \in Nat /\ p - 1 \in 0 .. Len(s) /\ p \in 0 .. Len(s)
  BY LenProperties
<1>2. SubSeq(s, 1, p - 1) \in Seq(S) /\ Len(SubSeq(s, 1, p - 1)) = p - 1
  BY <1>1, TakePrefix
<1>3. /\ SubSeq(s, p + 1, Len(s)) \in Seq(S)
      /\ Len(SubSeq(s, p + 1, Len(s))) = Len(s) - p
  BY <1>1, DropPrefix
<1> DEFINE u == SubSeq(s, 1, p - 1)
           v == SubSeq(s, p + 1, Len(s))
<1>4. u \o v \in Seq(S) /\ Len(u \o v) = Len(u) + Len(v)
  BY <1>2, <1>3, ConcatProperties
<1>5. RemoveAt(s, p) = u \o v
  BY DEF RemoveAt
<1> HIDE DEF u, v
<1>6. Len(u) = p - 1 /\ Len(v) = Len(s) - p
  BY <1>2, <1>3 DEF u, v
<1>7. QED
  BY <1>1, <1>4, <1>5, <1>6

(* Tuples and what they are with one more element.                         *)
LEMMA AppendToOne ==
  ASSUME NEW x, NEW e
  PROVE  Append(<<x>>, e) = <<x, e>>
<1> DEFINE S == {x, e}
<1>1. /\ <<x>> \in Seq(S) /\ Len(<<x>>) = 1
      /\ <<x, e>> \in Seq(S) /\ Len(<<x, e>>) = 2
  OBVIOUS
<1>2. /\ Append(<<x>>, e) \in Seq(S) /\ Len(Append(<<x>>, e)) = 2
      /\ \A i \in 1 .. 1 : Append(<<x>>, e)[i] = <<x>>[i]
      /\ Append(<<x>>, e)[2] = e
  BY <1>1, AppendProperties
<1>3. \A i \in 1 .. 2 : Append(<<x>>, e)[i] = <<x, e>>[i]
  BY <1>2
<1>4. QED
  BY <1>1, <1>2, <1>3, SeqEqual

LEMMA AppendToTwo ==
  ASSUME NEW x, NEW y, NEW e
  PROVE  Append(<<x, y>>, e) = <<x, y, e>>
<1> DEFINE S == {x, y, e}
<1>1. /\ <<x, y>> \in Seq(S) /\ Len(<<x, y>>) = 2
      /\ <<x, y, e>> \in Seq(S) /\ Len(<<x, y, e>>) = 3
  OBVIOUS
<1>2. /\ Append(<<x, y>>, e) \in Seq(S) /\ Len(Append(<<x, y>>, e)) = 3
      /\ \A i \in 1 .. 2 : Append(<<x, y>>, e)[i] = <<x, y>>[i]
      /\ Append(<<x, y>>, e)[3] = e
  BY <1>1, AppendProperties
<1>3. \A i \in 1 .. 3 : Append(<<x, y>>, e)[i] = <<x, y, e>>[i]
  BY <1>2
<1>4. QED
  BY <1>1, <1>2, <1>3, SeqEqual

LEMMA AppendToThree ==
  ASSUME NEW x, NEW y, NEW z, NEW e
  PROVE  Append(<<x, y, z>>, e) = <<x, y, z, e>>
<1> DEFINE S == {x, y, z, e}
<1>1. /\ <<x, y, z>> \in Seq(S) /\ Len(<<x, y, z>>) = 3
      /\ <<x, y, z, e>> \in Seq(S) /\ Len(<<x, y, z, e>>) = 4
  OBVIOUS
<1>2. /\ Append(<<x, y, z>>, e) \in Seq(S) /\ Len(Append(<<x, y, z>>, e)) = 4
      /\ \A i \in 1 .. 3 : Append(<<x, y, z>>, e)[i] = <<x, y, z>>[i]
      /\ Append(<<x, y, z>>, e)[4] = e
  BY <1>1, AppendProperties
<1>3. \A i \in 1 .. 4 : Append(<<x, y, z>>, e)[i] = <<x, y, z, e>>[i]
  BY <1>2
<1>4. QED
  BY <1>1, <1>2, <1>3, SeqEqual

LEMMA FrontOfAppend ==
  ASSUME NEW S, NEW s \in Seq(S), NEW e \in S
  PROVE  Front(Append(s, e)) = s
<1> DEFINE t == Append(s, e)
<1>1. /\ t \in Seq(S) /\ Len(t) = Len(s) + 1 /\ Len(s) \in Nat
      /\ \A i \in 1 .. Len(s) : t[i] = s[i]
  BY AppendProperties, LenProperties
<1> HIDE DEF t
<1>2. Front(t) = SubSeq(t, 1, Len(s))
  BY <1>1 DEF Front
<1>3. Len(s) \in 0 .. Len(t)
  BY <1>1
<1>4. /\ Front(t) \in Seq(S) /\ Len(Front(t)) = Len(s)
      /\ \A i \in 1 .. Len(s) : Front(t)[i] = s[i]
  BY <1>1, <1>2, <1>3, TakePrefix
<1>5. Front(t) = s
  BY <1>1, <1>4, SeqEqual
<1>6. QED
  BY <1>5 DEF t

(* Two sequences that agree from a to b have the same part there.          *)
LEMMA SameCut ==
  ASSUME NEW S, NEW s, NEW t, NEW a \in Int, NEW b \in Int,
         \A i \in a .. b : s[i] \in S /\ t[i] = s[i]
  PROVE  SubSeq(t, a, b) = SubSeq(s, a, b)
<1> DEFINE u == SubSeq(s, a, b)
           v == SubSeq(t, a, b)
<1>1. /\ u \in Seq(S) /\ Len(u) = IF a <= b THEN b - a + 1 ELSE 0
      /\ \A i \in 1 .. b - a + 1 : u[i] = s[a + i - 1]
  BY SubSeqProperties
<1>2. /\ v \in Seq(S) /\ Len(v) = IF a <= b THEN b - a + 1 ELSE 0
      /\ \A i \in 1 .. b - a + 1 : v[i] = t[a + i - 1]
  <2>1. \A i \in a .. b : t[i] \in S
    OBVIOUS
  <2>2. QED
    BY <2>1, SubSeqProperties
<1> HIDE DEF u, v
<1>3. \A i \in 1 .. Len(u) : u[i] = v[i]
  <2>1. TAKE i \in 1 .. Len(u)
  <2>2. i \in 1 .. b - a + 1 /\ a + i - 1 \in a .. b
    BY <1>1
  <2>3. QED
    BY <1>1, <1>2, <2>2
<1>4. u = v
  BY <1>1, <1>2, <1>3, SeqEqual
<1>5. QED
  BY <1>4 DEF u, v

(* A part of a part, which may be empty.                                   *)
LEMMA CutOfCut ==
  ASSUME NEW S, NEW s, NEW a \in Int, NEW b \in Int, \A i \in a .. b : s[i] \in S,
         NEW i \in Nat \ {0}, NEW j \in Int, j <= b - a + 1
  PROVE  SubSeq(SubSeq(s, a, b), i, j) = SubSeq(s, a + i - 1, a + j - 1)
<1> DEFINE t == SubSeq(s, a, b)
           u == SubSeq(t, i, j)
           v == SubSeq(s, a + i - 1, a + j - 1)
<1>1. \A k \in 1 .. b - a + 1 : t[k] = s[a + k - 1]
  BY SubSeqProperties
<1> HIDE DEF t
<1>2. \A k \in i .. j : t[k] \in S /\ k \in 1 .. b - a + 1
  <2>1. TAKE k \in i .. j
  <2>2. k \in 1 .. b - a + 1 /\ a + k - 1 \in a .. b
    OBVIOUS
  <2>3. QED
    BY <1>1, <2>2
<1>3. /\ u \in Seq(S) /\ Len(u) = IF i <= j THEN j - i + 1 ELSE 0
      /\ \A k \in 1 .. j - i + 1 : u[k] = t[i + k - 1]
  BY <1>2, SubSeqProperties
<1>4. \A k \in a + i - 1 .. a + j - 1 : s[k] \in S
  OBVIOUS
<1>5. /\ v \in Seq(S) /\ Len(v) = IF i <= j THEN j - i + 1 ELSE 0
      /\ \A k \in 1 .. j - i + 1 : v[k] = s[a + i - 1 + k - 1]
  <2>1. /\ a + i - 1 \in Int /\ a + j - 1 \in Int
        /\ (a + i - 1 <= a + j - 1) <=> (i <= j)
        /\ (a + j - 1) - (a + i - 1) + 1 = j - i + 1
    OBVIOUS
  <2>2. /\ v \in Seq(S)
        /\ Len(v) = IF a + i - 1 <= a + j - 1 THEN (a + j - 1) - (a + i - 1) + 1 ELSE 0
        /\ \A k \in 1 .. (a + j - 1) - (a + i - 1) + 1 : v[k] = s[(a + i - 1) + k - 1]
    BY <1>4, <2>1, SubSeqProperties
  <2> HIDE DEF v
  <2>3. QED
    BY <2>1, <2>2
<1> HIDE DEF u, v
<1>6. ASSUME NEW k \in 1 .. Len(u) PROVE u[k] = v[k]
  <2>1. k \in 1 .. j - i + 1 /\ i + k - 1 \in i .. j
    BY <1>3
  <2>2. i + k - 1 \in 1 .. b - a + 1 /\ a + (i + k - 1) - 1 = a + i - 1 + k - 1
    BY <1>2, <2>1
  <2>3. QED
    BY <1>1, <1>3, <1>5, <2>1, <2>2
<1>7. u = v
  BY <1>3, <1>5, <1>6, SeqEqual
<1>8. QED
  BY <1>7 DEF t, u, v

(* The rest of a sequence, and what is put behind it.                      *)
LEMMA CutOfAppend ==
  ASSUME NEW S, NEW s \in Seq(S), NEW e \in S, NEW k \in 0 .. Len(s)
  PROVE  SubSeq(Append(s, e), k + 1, Len(s) + 1)
           = Append(SubSeq(s, k + 1, Len(s)), e)
<1> DEFINE r == SubSeq(s, k + 1, Len(s))
           t == Append(s, e)
           u == SubSeq(t, k + 1, Len(s) + 1)
           v == Append(r, e)
<1>1. Len(s) \in Nat
  BY LenProperties
<1>2. /\ r \in Seq(S) /\ Len(r) = Len(s) - k
      /\ \A i \in 1 .. (Len(s) - k) : r[i] = s[k + i]
  BY DropPrefix
<1>3. /\ t \in Seq(S) /\ Len(t) = Len(s) + 1
      /\ \A i \in 1 .. Len(s) : t[i] = s[i]
      /\ t[Len(s) + 1] = e
  BY AppendProperties
<1> HIDE DEF r, t
<1>4. /\ u \in Seq(S) /\ Len(u) = Len(s) + 1 - k
      /\ \A i \in 1 .. (Len(s) + 1 - k) : u[i] = t[k + i]
  <2>1. k \in 0 .. Len(t)
    BY <1>1, <1>3
  <2>2. LET w == SubSeq(t, k + 1, Len(t)) IN
        /\ w \in Seq(S) /\ Len(w) = Len(t) - k
        /\ \A i \in 1 .. (Len(t) - k) : w[i] = t[k + i]
    BY <1>3, <2>1, DropPrefix
  <2>3. QED
    BY <1>3, <2>2
<1>5. /\ v \in Seq(S) /\ Len(v) = Len(s) - k + 1
      /\ \A i \in 1 .. Len(r) : v[i] = r[i]
      /\ v[Len(r) + 1] = e
  BY <1>2, AppendProperties
<1> HIDE DEF u, v
<1>6. ASSUME NEW i \in 1 .. Len(u) PROVE u[i] = v[i]
  <2>1. CASE i = Len(s) - k + 1
    <3>1. k + i = Len(s) + 1 /\ i \in 1 .. (Len(s) + 1 - k) /\ i = Len(r) + 1
      BY <1>1, <1>2, <1>4, <2>1
    <3>2. QED
      BY <1>3, <1>4, <1>5, <3>1
  <2>2. CASE i # Len(s) - k + 1
    <3>1. i \in 1 .. (Len(s) - k) /\ k + i \in 1 .. Len(s) /\ i \in 1 .. (Len(s) + 1 - k)
      BY <1>1, <1>4, <2>2
    <3>2. QED
      BY <1>2, <1>3, <1>4, <1>5, <3>1
  <2>3. QED
    BY <2>1, <2>2
<1>7. u = v
  <2>1. Len(u) = Len(v)
    BY <1>1, <1>4, <1>5
  <2>2. QED
    BY <1>4, <1>5, <1>6, <2>1, SeqEqual
<1>8. QED
  BY <1>7 DEF r, t, u, v
(* A cut up to the end, and its last element.                              *)
LEMMA CutAtLast ==
  ASSUME NEW S, NEW s \in Seq(S), NEW k \in 1 .. Len(s)
  PROVE  /\ SubSeq(s, k, Len(s)) = Append(SubSeq(s, k, Len(s) - 1), s[Len(s)])
         /\ SubSeq(s, k, Len(s) - 1) \in Seq(S)
<1>1. Len(s) \in Nat /\ Len(s) \in 1 .. Len(s) /\ s[Len(s)] \in S
  BY LenProperties, ElementOfSeq
<1>2. SubSeq(s, k, Len(s)) = SubSeq(s, k, Len(s) - 1) \o <<s[Len(s)]>>
  <2>1. k \in 1 .. Len(s) /\ Len(s) \in k .. Len(s)
    BY <1>1
  <2>2. QED
    BY <2>1, SubSeqRecursiveSecond
<1>3. SubSeq(s, k, Len(s) - 1) \in Seq(S)
  <2>1. \A i \in k .. Len(s) - 1 : s[i] \in S
    BY <1>1, ElementOfSeq
  <2>2. k \in Int /\ Len(s) - 1 \in Int
    BY <1>1
  <2>3. QED
    BY <2>1, <2>2, SubSeqProperties
<1>4. QED
  BY <1>1, <1>2, <1>3, AppendIsConcat

(* The elements before the last one, with the one before them.             *)
LEMMA ShiftedCut ==
  ASSUME NEW S, NEW s \in Seq(S), NEW k \in 1 .. Len(s), k < Len(s)
  PROVE  <<s[k]>> \o Front(SubSeq(s, k + 1, Len(s))) = SubSeq(s, k, Len(s) - 1)
<1>1. Len(s) \in Nat /\ k + 1 \in 1 .. Len(s) /\ s[Len(s)] \in S
  BY LenProperties, ElementOfSeq
<1> DEFINE r == SubSeq(s, k + 1, Len(s) - 1)
<1>2. SubSeq(s, k + 1, Len(s)) = Append(r, s[Len(s)]) /\ r \in Seq(S)
  BY <1>1, CutAtLast
<1> HIDE DEF r
<1>3. Front(SubSeq(s, k + 1, Len(s))) = r
  <2>1. Front(Append(r, s[Len(s)])) = r
    BY <1>1, <1>2, FrontOfAppend
  <2>2. QED
    BY <1>2, <2>1
<1>4. SubSeq(s, k, Len(s) - 1) = <<s[k]>> \o r
  <2>1. k \in 1 .. Len(s) /\ Len(s) - 1 \in k .. Len(s)
    BY <1>1
  <2>2. QED
    BY <2>1, SubSeqRecursiveFirst DEF r
<1>5. QED
  BY <1>3, <1>4
=============================================================================
