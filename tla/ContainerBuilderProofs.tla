----------------------- MODULE ContainerBuilderProofs -----------------------
(***************************************************************************)
(* Proofs about ContainerBuilder, for every finite set of part identifiers *)
(* and every set of blobs and source containers: the list of parts stays   *)
(* in order, no root signature of the client escapes the validator, what   *)
(* is laid out is valid, digests are earned, the builder is a table of its *)
(* parts, no call reorders them and Load adds exactly what it reads.       *)
(***************************************************************************)
EXTENDS ContainerBuilder, SequenceTheorems, FiniteSetTheorems, TLAPS

-----------------------------------------------------------------------------
(* The list operations of AddPart and RemovePart.                          *)

\* Inserting before the last element moves that one alone.
LEMMA InsertBeforeLast ==
  ASSUME NEW S, NEW s \in Seq(S), NEW p \in S, Len(s) # 0
  PROVE  LET n == Len(s)
             r == InsertAt(s, n, p)
         IN  /\ r \in Seq(S) /\ Len(r) = n + 1
             /\ \A j \in 1 .. n - 1 : r[j] = s[j]
             /\ r[n] = p /\ r[n + 1] = s[n]
<1>. DEFINE n == Len(s)
            r == InsertAt(s, n, p)
            a == SubSeq(s, 1, n - 1)
            z == SubSeq(s, n, n)
<1>1. n \in Nat \ {0} /\ \A j \in 1 .. n : s[j] \in S
  BY EmptySeq, ElementOfSeq, LenProperties
<1>2. /\ a \in Seq(S) /\ Len(a) = n - 1
      /\ \A j \in 1 .. n - 1 : a[j] = s[j]
  <2>1. \A j \in 1 .. n - 1 : s[j] \in S
    BY <1>1
  <2>2. 1 \in Int /\ n - 1 \in Int
    BY <1>1
  <2>3. /\ a \in Seq(S) /\ Len(a) = IF 1 <= n - 1 THEN n - 1 - 1 + 1 ELSE 0
        /\ \A j \in 1 .. n - 1 - 1 + 1 : a[j] = s[1 + j - 1]
    BY <2>1, <2>2, SubSeqProperties
  <2>. HIDE DEF a, n
  <2>. QED  BY <1>1, <2>3
<1>3. z \in Seq(S) /\ Len(z) = 1 /\ z[1] = s[n]
  <2>1. \A j \in n .. n : s[j] \in S
    BY <1>1
  <2>2. /\ z \in Seq(S) /\ Len(z) = IF n <= n THEN n - n + 1 ELSE 0
        /\ \A j \in 1 .. n - n + 1 : z[j] = s[n + j - 1]
    BY <2>1, <1>1, SubSeqProperties
  <2>. QED  BY <1>1, <2>2
<1>4. <<p>> \in Seq(S) /\ Len(<<p>>) = 1 /\ <<p>>[1] = p
  OBVIOUS
<1>. DEFINE b == a \o <<p>>
<1>7. r = b \o z
  BY DEF InsertAt
<1>. HIDE DEF a, z, r, n
<1>5. /\ b \in Seq(S) /\ Len(b) = n
      /\ \A j \in 1 .. n : b[j] = IF j <= n - 1 THEN a[j] ELSE <<p>>[j - (n - 1)]
  <2>1. /\ b \in Seq(S) /\ Len(b) = Len(a) + Len(<<p>>)
        /\ \A j \in 1 .. Len(a) + Len(<<p>>) :
             b[j] = IF j <= Len(a) THEN a[j] ELSE <<p>>[j - Len(a)]
    BY <1>2, <1>4, ConcatProperties
  <2>. QED  BY <2>1, <1>1, <1>2, <1>4
<1>. HIDE DEF b
<1>6. /\ r \in Seq(S) /\ Len(r) = n + 1
      /\ \A j \in 1 .. n + 1 : r[j] = IF j <= n THEN b[j] ELSE z[j - n]
  <2>. DEFINE c == b \o z
  <2>1. /\ c \in Seq(S) /\ Len(c) = Len(b) + Len(z)
        /\ \A j \in 1 .. Len(b) + Len(z) :
             c[j] = IF j <= Len(b) THEN b[j] ELSE z[j - Len(b)]
    BY <1>3, <1>5, ConcatProperties
  <2>2. r = c
    BY <1>7
  <2>. HIDE DEF c
  <2>. QED  BY <2>1, <2>2, <1>3, <1>5
<1>8. ASSUME NEW j \in 1 .. n - 1
      PROVE  r[j] = s[j]
  <2>1. j \in 1 .. n + 1 /\ j \in 1 .. n /\ j <= n /\ j <= n - 1
    BY <1>1
  <2>2. r[j] = b[j] /\ b[j] = a[j]
    BY <2>1, <1>5, <1>6
  <2>. QED  BY <2>2, <1>2
<1>9. r[n] = p
  <2>1. r[n] = b[n] /\ b[n] = <<p>>[n - (n - 1)]
    BY <1>1, <1>5, <1>6
  <2>2. n - (n - 1) = 1
    BY <1>1
  <2>. QED  BY <2>1, <2>2, <1>4
<1>10. r[n + 1] = s[n]
  <2>1. r[n + 1] = z[n + 1 - n]
    BY <1>1, <1>6
  <2>2. n + 1 - n = 1
    BY <1>1
  <2>. QED  BY <2>1, <2>2, <1>3
<1>. QED  BY <1>6, <1>8, <1>9, <1>10 DEF n, r

\* Removing an element closes the gap.
LEMMA RemoveClosesGap ==
  ASSUME NEW S, NEW s \in Seq(S), NEW k \in 1 .. Len(s)
  PROVE  LET r == RemoveAt(s, k)
         IN  /\ r \in Seq(S) /\ Len(r) = Len(s) - 1
             /\ \A j \in 1 .. Len(s) - 1 : r[j] = IF j < k THEN s[j] ELSE s[j + 1]
<1>. DEFINE n == Len(s)
            a == SubSeq(s, 1, k - 1)
            z == SubSeq(s, k + 1, n)
            r == a \o z
<1>1. n \in Nat /\ k \in Int /\ 1 <= k /\ k <= n /\ \A j \in 1 .. n : s[j] \in S
  BY ElementOfSeq, LenProperties
<1>2. /\ a \in Seq(S) /\ Len(a) = k - 1
      /\ \A j \in 1 .. k - 1 : a[j] = s[j]
  <2>1. \A j \in 1 .. k - 1 : s[j] \in S
    BY <1>1
  <2>2. 1 \in Int /\ k - 1 \in Int
    BY <1>1
  <2>3. /\ a \in Seq(S) /\ Len(a) = IF 1 <= k - 1 THEN k - 1 - 1 + 1 ELSE 0
        /\ \A j \in 1 .. k - 1 - 1 + 1 : a[j] = s[1 + j - 1]
    BY <2>1, <2>2, SubSeqProperties
  <2>. QED  BY <1>1, <2>3
<1>3. /\ z \in Seq(S) /\ Len(z) = n - k
      /\ \A j \in 1 .. n - k : z[j] = s[j + k]
  <2>1. \A j \in k + 1 .. n : s[j] \in S
    BY <1>1
  <2>2. k + 1 \in Int /\ n \in Int
    BY <1>1
  <2>3. /\ z \in Seq(S) /\ Len(z) = IF k + 1 <= n THEN n - (k + 1) + 1 ELSE 0
        /\ \A j \in 1 .. n - (k + 1) + 1 : z[j] = s[k + 1 + j - 1]
    BY <2>1, <2>2, SubSeqProperties
  <2>. QED  BY <1>1, <2>3
<1>. HIDE DEF n, a, z
<1>4. /\ r \in Seq(S) /\ Len(r) = Len(a) + Len(z)
      /\ \A j \in 1 .. Len(a) + Len(z) : r[j] = IF j <= Len(a) THEN a[j] ELSE z[j - Len(a)]
  BY <1>2, <1>3, ConcatProperties
<1>5. RemoveAt(s, k) = r
  BY DEF RemoveAt, n, a, z
<1>. HIDE DEF r
<1>6. Len(r) = n - 1
  BY <1>1, <1>2, <1>3, <1>4
<1>7. ASSUME NEW j \in 1 .. n - 1
      PROVE  r[j] = IF j < k THEN s[j] ELSE s[j + 1]
  <2>1. r[j] = IF j <= k - 1 THEN a[j] ELSE z[j - (k - 1)]
    BY <1>1, <1>2, <1>3, <1>4
  <2>2. CASE j < k
    BY <2>1, <2>2, <1>1, <1>2
  <2>3. CASE ~(j < k)
    <3>1. j - (k - 1) \in 1 .. n - k /\ j - (k - 1) + k = j + 1
      BY <2>3, <1>1
    <3>. QED  BY <2>1, <2>3, <3>1, <1>1, <1>3
  <2>. QED  BY <2>2, <2>3
<1>. QED  BY <1>4, <1>5, <1>6, <1>7 DEF n

-----------------------------------------------------------------------------
(* Types of the variables the theorems are about.                          *)

Plain == [fourCC : FourCCs, blob : Blobs]

PartsTyped ==
  /\ parts \in Seq(Part)
  /\ hasPrivate \in BOOLEAN /\ requireValidation \in BOOLEAN
  /\ loading # 0 => container.parts \in Seq(Plain)
  /\ result # None => result.container.parts \in Seq(Plain)

\* What is laid out are the parts.
LEMMA LaidParts ==
  ASSUME NEW S, S \in {Part, Plain}, NEW ps \in Seq(S), NEW digest
  PROVE  /\ Laid(ps, digest).parts \in Seq(Plain)
         /\ Laid(ps, digest).digest = digest
         /\ DOMAIN Laid(ps, digest).parts = DOMAIN ps
         /\ \A k \in DOMAIN ps : /\ Laid(ps, digest).parts[k].fourCC = ps[k].fourCC
                                 /\ Laid(ps, digest).parts[k].blob = ps[k].blob
<1>1. DOMAIN ps = 1 .. Len(ps) /\ Len(ps) \in Nat /\ \A k \in 1 .. Len(ps) : ps[k] \in S
  BY ElementOfSeq, LenProperties
<1>2. \A k \in 1 .. Len(ps) : ps[k].fourCC \in FourCCs /\ ps[k].blob \in Blobs
  BY <1>1 DEF Part, Plain
<1>. DEFINE e(k) == [fourCC |-> ps[k].fourCC, blob |-> ps[k].blob]
            q == [k \in DOMAIN ps |-> e(k)]
<1>3. q \in Seq(Plain)
  <2>1. \A k \in 1 .. Len(ps) : e(k) \in Plain
    BY <1>2 DEF Plain
  <2>. HIDE DEF e
  <2>2. [k \in 1 .. Len(ps) |-> e(k)] \in Seq(Plain)
    BY <1>1, <2>1, IsASeq
  <2>. QED  BY <1>1, <2>2
<1>4. Laid(ps, digest).parts = q /\ Laid(ps, digest).digest = digest
  BY DEF Laid
<1>. QED  BY <1>3, <1>4

\* What AddToList does to an ordered list: the new part is the last, or the one
\* before the private data.
LEMMA InsertedParts ==
  ASSUME PartsTyped, PartsInOrder, NEW p \in Part
  PROVE  LET n == Len(parts)
             r == Inserted(parts, p)
         IN  /\ r \in Seq(Part) /\ Len(r) = n + 1
             /\ \/ /\ ~hasPrivate
                   /\ r[n + 1] = p /\ \A j \in 1 .. n : r[j] = parts[j]
                \/ /\ hasPrivate /\ n > 0
                   /\ r[n] = p /\ r[n + 1] = parts[n]
                   /\ \A j \in 1 .. n - 1 : r[j] = parts[j]
<1>. DEFINE n == Len(parts)
            r == Inserted(parts, p)
<1>1. parts \in Seq(Part) /\ Len(parts) \in Nat /\ DOMAIN parts = 1 .. Len(parts)
  BY LenProperties DEF PartsTyped
<1>2. CASE ~hasPrivate
  <2>1. r = Append(parts, p)
    BY <1>2 DEF Inserted
  <2>2. /\ r \in Seq(Part) /\ Len(r) = n + 1
        /\ r[n + 1] = p /\ \A j \in 1 .. n : r[j] = parts[j]
    BY <1>1, <2>1, AppendProperties
  <2>. QED  BY <1>1, <1>2, <2>2
<1>3. CASE hasPrivate
  <2>1. PICK k \in 1 .. Len(parts) : parts[k].fourCC = PRIV
    BY <1>1, <1>3 DEF PartsInOrder, HasPart
  <2>2. parts # <<>> /\ Len(parts) > 0
    BY <2>1, <1>1, EmptySeq
  <2>3. r = InsertAt(parts, n, p)
    BY <1>3 DEF Inserted
  <2>4. parts \in Seq(Part) /\ p \in Part /\ Len(parts) # 0 /\ n = Len(parts)
    BY <1>1, <2>2
  <2>5. /\ r \in Seq(Part) /\ Len(r) = n + 1
        /\ \A j \in 1 .. n - 1 : r[j] = parts[j]
        /\ r[n] = p /\ r[n + 1] = parts[n]
    <3>. DEFINE m == Len(parts)
                x == InsertAt(parts, m, p)
    <3>1. /\ x \in Seq(Part) /\ Len(x) = m + 1
          /\ \A j \in 1 .. m - 1 : x[j] = parts[j]
          /\ x[m] = p /\ x[m + 1] = parts[m]
      BY <2>4, InsertBeforeLast
    <3>2. r = x /\ n = m
      BY <2>3, <2>4
    <3>. HIDE DEF m, x
    <3>. QED  BY <3>1, <3>2
  <2>. QED  BY <1>1, <1>3, <2>2, <2>5
<1>. QED  BY <1>2, <1>3

\* Adding a part with a new identifier keeps the list in order.
LEMMA AddKeepsOrder ==
  ASSUME PartsTyped, PartsInOrder, NEW p \in Part, IsNew(p.fourCC), AddToList(p)
  PROVE  parts' \in Seq(Part) /\ hasPrivate' \in BOOLEAN /\ PartsInOrder'
<1>. DEFINE n == Len(parts)
<1>1. n \in Nat /\ DOMAIN parts = 1 .. n
  BY LenProperties DEF PartsTyped
<1>2. \A k \in 1 .. n : parts[k].fourCC # p.fourCC
  BY <1>1 DEF IsNew, HasPart
<1>3. \A j, k \in 1 .. n : parts[j].fourCC = parts[k].fourCC => j = k
  BY <1>1 DEF PartsInOrder
<1>4. /\ parts' \in Seq(Part) /\ Len(parts') = n + 1
      /\ \/ /\ ~hasPrivate
            /\ parts'[n + 1] = p /\ \A j \in 1 .. n : parts'[j] = parts[j]
         \/ /\ hasPrivate /\ n > 0
            /\ parts'[n] = p /\ parts'[n + 1] = parts[n]
            /\ \A j \in 1 .. n - 1 : parts'[j] = parts[j]
  BY InsertedParts DEF AddToList
<1>5. DOMAIN parts' = 1 .. n + 1
  BY <1>1, <1>4, LenProperties
<1>6. hasPrivate' \in BOOLEAN /\ (hasPrivate' <=> hasPrivate \/ p.fourCC = PRIV)
  BY DEF AddToList, PartsTyped
<1>7. hasPrivate <=> \E k \in 1 .. n : parts[k].fourCC = PRIV
  BY <1>1 DEF PartsInOrder, HasPart
<1>8. hasPrivate => parts[n].fourCC = PRIV
  BY DEF PartsInOrder, Last
<1>. HIDE DEF n
<1>9. \A j, k \in 1 .. n + 1 : parts'[j].fourCC = parts'[k].fourCC => j = k
  <2>1. CASE ~hasPrivate
    <3>1. parts'[n + 1] = p /\ \A j \in 1 .. n : parts'[j] = parts[j]
      BY <1>4, <2>1
    <3>2. \A j \in 1 .. n + 1 : j \in 1 .. n \/ j = n + 1
      BY <1>1
    <3>. QED  BY <1>2, <1>3, <3>1, <3>2
  <2>2. CASE hasPrivate
    <3>1. /\ n > 0 /\ parts'[n] = p /\ parts'[n + 1] = parts[n]
          /\ \A j \in 1 .. n - 1 : parts'[j] = parts[j]
      BY <1>4, <2>2
    <3>2. \A j \in 1 .. n + 1 : j \in 1 .. n - 1 \/ j = n \/ j = n + 1
      BY <1>1
    <3>3. n \in 1 .. n /\ \A j \in 1 .. n - 1 : j \in 1 .. n /\ j # n
      BY <1>1, <3>1
    <3>. QED  BY <1>2, <1>3, <3>1, <3>2, <3>3
  <2>. QED  BY <2>1, <2>2
<1>10. hasPrivate' <=> \E k \in 1 .. n + 1 : parts'[k].fourCC = PRIV
  <2>1. CASE ~hasPrivate
    <3>1. parts'[n + 1] = p /\ \A j \in 1 .. n : parts'[j] = parts[j]
      BY <1>4, <2>1
    <3>2. n + 1 \in 1 .. n + 1 /\ \A j \in 1 .. n + 1 : j \in 1 .. n \/ j = n + 1
      BY <1>1
    <3>. QED  BY <1>6, <1>7, <2>1, <3>1, <3>2
  <2>2. CASE hasPrivate
    <3>1. parts'[n + 1] = parts[n]
      BY <1>4, <2>2
    <3>2. n + 1 \in 1 .. n + 1
      BY <1>1
    <3>. QED  BY <1>6, <1>8, <2>2, <3>1, <3>2
  <2>. QED  BY <2>1, <2>2
<1>11. hasPrivate' => parts'[n + 1].fourCC = PRIV
  BY <1>4, <1>6, <1>8
<1>. QED  BY <1>4, <1>5, <1>6, <1>9, <1>10, <1>11 DEF PartsInOrder, HasPart, Last

\* RemovePart keeps the list in order, and the flag in step with it.
LEMMA RemoveKeepsOrder ==
  ASSUME PartsTyped, PartsInOrder, RemovePart
  PROVE  parts' \in Seq(Part) /\ hasPrivate' \in BOOLEAN /\ PartsInOrder'
<1>. DEFINE n == Len(parts)
<1>1. n \in Nat /\ DOMAIN parts = 1 .. n /\ parts \in Seq(Part)
  BY LenProperties DEF PartsTyped
<1>2. CASE UNCHANGED <<parts, hasPrivate>>
  BY <1>1, <1>2 DEF PartsTyped, PartsInOrder, HasPart, Last
<1>3. CASE \E f \in FourCCs : \E k \in DOMAIN parts :
             /\ parts[k].fourCC = f
             /\ parts' = RemoveAt(parts, k)
             /\ hasPrivate' = FlagAfter(f)
  <2>1. PICK f \in FourCCs, k \in 1 .. n :
             /\ parts[k].fourCC = f
             /\ parts' = RemoveAt(parts, k)
             /\ hasPrivate' = FlagAfter(f)
    BY <1>1, <1>3
  <2>2. /\ parts' \in Seq(Part) /\ Len(parts') = n - 1
        /\ \A j \in 1 .. n - 1 : parts'[j] = IF j < k THEN parts[j] ELSE parts[j + 1]
    BY <1>1, <2>1, RemoveClosesGap
  <2>3. DOMAIN parts' = 1 .. n - 1
    BY <2>2, LenProperties
  <2>4. \A i, j \in 1 .. n : parts[i].fourCC = parts[j].fourCC => i = j
    BY <1>1 DEF PartsInOrder
  <2>5. hasPrivate <=> \E j \in 1 .. n : parts[j].fourCC = PRIV
    BY <1>1 DEF PartsInOrder, HasPart
  <2>6. hasPrivate => parts[n].fourCC = PRIV
    BY DEF PartsInOrder, Last
  <2>7. hasPrivate' \in BOOLEAN /\ (hasPrivate' <=> hasPrivate /\ f # PRIV)
    BY <2>1 DEF FlagAfter, PartsTyped
  <2>. DEFINE at(j) == IF j < k THEN j ELSE j + 1
  <2>8. \A j \in 1 .. n - 1 : at(j) \in 1 .. n /\ at(j) # k /\ parts'[j] = parts[at(j)]
    BY <1>1, <2>2
  <2>9. \A i, j \in 1 .. n - 1 : at(i) = at(j) => i = j
    BY <1>1
  <2>10. \A i \in 1 .. n : i # k => \E j \in 1 .. n - 1 : at(j) = i
    <3>1. ASSUME NEW i \in 1 .. n, i # k
          PROVE  \E j \in 1 .. n - 1 : at(j) = i
      <4>1. CASE i < k
        BY <1>1, <3>1, <4>1
      <4>2. CASE i > k
        <5>1. i - 1 \in 1 .. n - 1 /\ at(i - 1) = i
          BY <1>1, <3>1, <4>2
        <5>. QED  BY <5>1
      <4>. QED  BY <1>1, <3>1, <4>1, <4>2
    <3>. QED  BY <3>1
  <2>11. hasPrivate' => n - 1 \in 1 .. n - 1 /\ at(n - 1) = n
    <3>1. ASSUME hasPrivate'
          PROVE  k < n
      <4>1. parts[n].fourCC = PRIV /\ parts[k].fourCC # PRIV
        BY <2>1, <2>6, <2>7, <3>1
      <4>2. k # n
        BY <4>1
      <4>3. n \in Nat /\ k \in 1 .. n
        BY <1>1, <2>1
      <4>. HIDE DEF n
      <4>. QED  BY <4>2, <4>3
    <3>2. n \in Nat /\ k \in 1 .. n
      BY <1>1, <2>1
    <3>. HIDE DEF n
    <3>. QED  BY <3>1, <3>2
  <2>. HIDE DEF at, n
  <2>12. \A i, j \in 1 .. n - 1 : parts'[i].fourCC = parts'[j].fourCC => i = j
    BY <2>4, <2>8, <2>9
  <2>13. hasPrivate' <=> \E j \in 1 .. n - 1 : parts'[j].fourCC = PRIV
    <3>1. ASSUME hasPrivate'
          PROVE  \E j \in 1 .. n - 1 : parts'[j].fourCC = PRIV
      BY <2>6, <2>7, <2>8, <2>11, <3>1
    <3>2. ASSUME NEW j \in 1 .. n - 1, parts'[j].fourCC = PRIV
          PROVE  hasPrivate'
      BY <2>1, <2>4, <2>5, <2>7, <2>8, <3>2
    <3>. QED  BY <3>1, <3>2
  <2>14. hasPrivate' => parts'[n - 1].fourCC = PRIV
    BY <2>6, <2>7, <2>8, <2>11
  <2>15. Len(parts') = n - 1
    BY <2>2 DEF n
  <2>. QED  BY <2>2, <2>3, <2>7, <2>12, <2>13, <2>14, <2>15 DEF PartsInOrder, HasPart, Last
<1>. QED  BY <1>2, <1>3 DEF RemovePart, Fails

-----------------------------------------------------------------------------
(* The list stays in order.                                                *)

IInv == PartsTyped /\ PartsInOrder

LEMMA InitOrder == Init => IInv
<1>. SUFFICES ASSUME Init PROVE IInv
  OBVIOUS
<1>1. parts = <<>> /\ hasPrivate = FALSE /\ requireValidation = FALSE /\ loading = 0
      /\ result = None
  BY DEF Init, NewBuilder
<1>2. parts \in Seq(Part) /\ DOMAIN parts = {}
  BY <1>1
<1>. QED  BY <1>1, <1>2 DEF IInv, PartsTyped, PartsInOrder, HasPart

\* An empty list is in order.
LEMMA EmptyInOrder ==
  ASSUME parts' = <<>>, hasPrivate' = FALSE
  PROVE  parts' \in Seq(Part) /\ hasPrivate' \in BOOLEAN /\ PartsInOrder'
<1>1. parts' \in Seq(Part) /\ DOMAIN parts' = {}
  OBVIOUS
<1>. QED  BY <1>1 DEF PartsInOrder, HasPart

\* A container given to Load has well-typed parts.
LEMMA SourceParts ==
  ASSUME NEW s \in Sources
  PROVE  Laid(s.parts, s.digest).parts \in Seq(Plain)
<1>1. s.parts \in Seq(Plain)
  BY BuilderAssumption DEF Plain
<1>. QED  BY <1>1, LaidParts

LEMMA StepOrder == IInv /\ [Next]_vars => IInv'
<1>. SUFFICES ASSUME IInv, [Next]_vars PROVE IInv'
  OBVIOUS
<1>. USE DEF IInv
<1>1. CASE Renew
  <2>1. /\ parts' = <<>> /\ hasPrivate' = FALSE /\ requireValidation' = FALSE
        /\ result' = None /\ loading' = 0
    BY <1>1 DEF Renew, Idle
  <2>. QED  BY <2>1, EmptyInOrder DEF PartsTyped
<1>2. ASSUME NEW hr, Fails(hr)
      PROVE  IInv'
  BY <1>2 DEF Fails, PartsTyped, PartsInOrder, HasPart
<1>3. CASE Load
  <2>1. CASE \E hr \in {"E_INVALIDARG"} : Fails(hr)
    BY <2>1, <1>2
  <2>2. CASE \E s \in Sources : container' = Laid(s.parts, s.digest) /\ result' = None
             /\ UNCHANGED <<parts, requireValidation, hasPrivate>>
    <3>1. container'.parts \in Seq(Plain)
      BY <2>2, SourceParts
    <3>. QED  BY <2>2, <3>1 DEF PartsTyped, PartsInOrder, HasPart
  <2>. QED  BY <1>3, <2>1, <2>2 DEF Load
<1>4. CASE Reload
  <2>1. /\ parts' = <<>> /\ hasPrivate' = FALSE /\ requireValidation' = FALSE
        /\ result' = None /\ container' = result.container /\ result # None
    BY <1>4 DEF Reload
  <2>. QED  BY <2>1, EmptyInOrder DEF PartsTyped
<1>5. CASE LoadPart
  <2>. DEFINE c == container.parts[loading]
              p == [fourCC |-> c.fourCC, blob |-> c.blob, pinned |-> TRUE]
  <2>1. container.parts \in Seq(Plain) /\ UNCHANGED <<container, requireValidation, result>>
    BY <1>5 DEF LoadPart, Idle, PartsTyped
  <2>2. p \in Part
    <3>1. c \in Plain
      BY <1>5, <2>1, ElementOfSeq, LenProperties DEF LoadPart
    <3>. QED  BY <3>1 DEF Plain, Part
  <2>3. CASE IsNew(c.fourCC) /\ AddToList(p)
    <3>1. IsNew(p.fourCC)
      BY <2>3
    <3>. HIDE DEF p
    <3>. QED  BY <2>1, <2>2, <2>3, <3>1, AddKeepsOrder DEF PartsTyped
  <2>4. CASE UNCHANGED <<parts, hasPrivate>>
    BY <2>1, <2>4 DEF PartsTyped, PartsInOrder, HasPart
  <2>. QED  BY <1>5, <2>3, <2>4 DEF LoadPart, LoadFails
<1>6. CASE LoadDone
  BY <1>6 DEF LoadDone, PartsTyped, PartsInOrder, HasPart
<1>7. CASE AddPart
  <2>1. CASE \E hr \in {"E_INVALIDARG", "DXC_E_DUPLICATE_PART"} : Fails(hr)
    BY <2>1, <1>2
  <2>2. ASSUME NEW f \in FourCCs, NEW b \in Blobs, IsNew(f),
               AddToList([fourCC |-> f, blob |-> b, pinned |-> FALSE]),
               requireValidation' = NeedsValidation(f),
               result' = None, UNCHANGED <<container, loading>>
        PROVE  IInv'
    <3>. DEFINE p == [fourCC |-> f, blob |-> b, pinned |-> FALSE]
    <3>1. p \in Part /\ IsNew(p.fourCC) /\ AddToList(p)
      BY <2>2 DEF Part
    <3>2. requireValidation' \in BOOLEAN
      BY <2>2 DEF NeedsValidation, PartsTyped
    <3>. HIDE DEF p
    <3>. QED  BY <2>2, <3>1, <3>2, AddKeepsOrder DEF PartsTyped
  <2>. QED  BY <1>7, <2>1, <2>2 DEF AddPart
<1>8. CASE RemovePart
  <2>1. CASE \E hr \in {"E_INVALIDARG", "DXC_E_MISSING_PART"} : Fails(hr)
    BY <2>1, <1>2
  <2>2. CASE result' = None /\ UNCHANGED <<container, requireValidation, loading>>
    BY <1>8, <2>2, RemoveKeepsOrder DEF PartsTyped
  <2>. QED  BY <1>8, <2>1, <2>2 DEF RemovePart
<1>9. CASE SerializeContainer
  <2>1. CASE Fails("E_FAIL")
    BY <2>1, <1>2
  <2>2. ASSUME NEW d, NEW st, result' = [container |-> Laid(parts, d), status |-> st],
               UNCHANGED <<parts, container, requireValidation, hasPrivate, loading>>
        PROVE  IInv'
    <3>1. result'.container.parts \in Seq(Plain)
      BY <2>2, LaidParts DEF PartsTyped
    <3>. QED  BY <2>2, <3>1 DEF PartsTyped, PartsInOrder, HasPart
  <2>. QED  BY <1>9, <2>1, <2>2 DEF SerializeContainer
<1>10. CASE UNCHANGED vars
  BY <1>10 DEF vars, PartsTyped, PartsInOrder, HasPart
<1>. QED  BY <1>1, <1>3, <1>4, <1>5, <1>6, <1>7, <1>8, <1>9, <1>10 DEF Next

\* Whatever is loaded, added and removed in whatever order, AddPart's
\* insertion before the last part finds private data there: m_HasPrivateData
\* is right, and no identifier occurs twice.
THEOREM OrderInvariant == Spec => []PartsInOrder
<1>1. IInv => PartsInOrder
  BY DEF IInv
<1>. QED  BY <1>1, InitOrder, StepOrder, PTL DEF Spec

-----------------------------------------------------------------------------
(* No root signature of the client escapes the validator.                  *)

\* A root signature that does not come from the loaded container has set the
\* flag.
ClientChecked ==
  \A k \in DOMAIN parts :
    parts[k].fourCC = RTS0 /\ ~parts[k].pinned => requireValidation

\* A result lasts no longer than the list and the flag it was made from.
ResultFits ==
  /\ loading # 0 => result = None
  /\ result # None /\ result.status = "S_OK" /\ requireValidation =>
       Verdict(result.container.parts) = "S_OK"

RInv == IInv /\ ClientChecked /\ ResultFits

\* The elements of the list after AddPart are those before it and the new one.
LEMMA AddedElements ==
  ASSUME PartsTyped, PartsInOrder, NEW p \in Part, AddToList(p)
  PROVE  \A k \in DOMAIN parts' :
           parts'[k] = p \/ \E j \in DOMAIN parts : parts'[k] = parts[j]
<1>. DEFINE n == Len(parts)
<1>1. n \in Nat /\ DOMAIN parts = 1 .. n
  BY LenProperties DEF PartsTyped
<1>2. /\ parts' \in Seq(Part) /\ Len(parts') = n + 1
      /\ \/ /\ ~hasPrivate
            /\ parts'[n + 1] = p /\ \A j \in 1 .. n : parts'[j] = parts[j]
         \/ /\ hasPrivate /\ n > 0
            /\ parts'[n] = p /\ parts'[n + 1] = parts[n]
            /\ \A j \in 1 .. n - 1 : parts'[j] = parts[j]
  BY InsertedParts DEF AddToList
<1>3. DOMAIN parts' = 1 .. n + 1
  BY <1>1, <1>2, LenProperties
<1>. HIDE DEF n
<1>4. \A k \in 1 .. n + 1 : (k \in 1 .. n - 1 /\ k \in 1 .. n) \/ k = n \/ k = n + 1
  BY <1>1
<1>5. \A k \in 1 .. n + 1 : k = n => n > 0
  BY <1>1
<1>6. n > 0 => n \in 1 .. n
  BY <1>1
<1>. QED  BY <1>1, <1>2, <1>3, <1>4, <1>5, <1>6

\* The elements of the list after RemovePart were there before it.
LEMMA RemovedElements ==
  ASSUME IInv, NEW k \in DOMAIN parts, parts' = RemoveAt(parts, k), NEW i \in DOMAIN parts'
  PROVE  \E j \in DOMAIN parts : parts'[i] = parts[j]
<1>. DEFINE n == Len(parts)
<1>1. n \in Nat /\ DOMAIN parts = 1 .. n /\ parts \in Seq(Part)
  BY LenProperties DEF IInv, PartsTyped
<1>2. /\ parts' \in Seq(Part) /\ Len(parts') = n - 1
      /\ \A j \in 1 .. n - 1 : parts'[j] = IF j < k THEN parts[j] ELSE parts[j + 1]
  BY <1>1, RemoveClosesGap
<1>3. i \in 1 .. n - 1
  BY <1>2, LenProperties
<1>. HIDE DEF n
<1>4. i \in 1 .. n /\ i + 1 \in 1 .. n
  BY <1>1, <1>3
<1>. QED  BY <1>1, <1>2, <1>3, <1>4

\* The validator reads identifiers and blobs, which the layout keeps.
LEMMA VerdictOfLaid ==
  ASSUME IInv, NEW d
  PROVE  Verdict(Laid(parts, d).parts) = Verdict(parts)
<1>. DEFINE q == Laid(parts, d).parts
<1>1. /\ DOMAIN q = DOMAIN parts
      /\ \A k \in DOMAIN parts : q[k].fourCC = parts[k].fourCC /\ q[k].blob = parts[k].blob
  BY LaidParts DEF IInv, PartsTyped
<1>2. \A j, k \in DOMAIN parts : parts[j].fourCC = parts[k].fourCC => j = k
  BY DEF IInv, PartsInOrder
<1>. HIDE DEF q
<1>3. ASSUME NEW f
      PROVE  HasPart(q, f) = HasPart(parts, f) /\ BlobOf(q, f) = BlobOf(parts, f)
  <2>1. HasPart(q, f) = HasPart(parts, f)
    BY <1>1 DEF HasPart
  <2>2. CASE ~HasPart(parts, f)
    BY <2>1, <2>2 DEF BlobOf
  <2>3. CASE HasPart(parts, f)
    <3>. DEFINE i == CHOOSE k \in DOMAIN q : q[k].fourCC = f
                j == CHOOSE k \in DOMAIN parts : parts[k].fourCC = f
    <3>1. i \in DOMAIN q /\ q[i].fourCC = f
      BY <2>1, <2>3 DEF HasPart
    <3>2. j \in DOMAIN parts /\ parts[j].fourCC = f
      BY <2>3 DEF HasPart
    <3>3. BlobOf(q, f) = q[i].blob /\ BlobOf(parts, f) = parts[j].blob
      BY <2>1, <2>3 DEF BlobOf
    <3>. HIDE DEF i, j
    <3>. QED  BY <1>1, <1>2, <2>1, <3>1, <3>2, <3>3
  <2>. QED  BY <2>2, <2>3
<1>. QED  BY <1>3 DEF Verdict, q

LEMMA StepChecked == RInv /\ [Next]_vars => RInv'
<1>. SUFFICES ASSUME RInv, [Next]_vars PROVE RInv'
  OBVIOUS
<1>1. IInv /\ IInv'
  BY StepOrder DEF RInv
<1>2. ClientChecked'
  <2>1. ASSUME NEW hr, Fails(hr)
        PROVE  ClientChecked'
    BY <2>1 DEF Fails, RInv, ClientChecked
  <2>2. CASE UNCHANGED <<parts, requireValidation>>
    BY <2>2 DEF RInv, ClientChecked
  <2>3. CASE parts' = <<>>
    <3>1. DOMAIN parts' = {}
      BY <2>3
    <3>. QED  BY <3>1 DEF ClientChecked
  <2>4. CASE LoadPart
    <3>1. CASE UNCHANGED <<parts, hasPrivate>>
      BY <2>4, <3>1 DEF LoadPart, RInv, ClientChecked
    <3>2. CASE AddToList([fourCC |-> container.parts[loading].fourCC,
                          blob |-> container.parts[loading].blob, pinned |-> TRUE])
      <4>. DEFINE p == [fourCC |-> container.parts[loading].fourCC,
                        blob |-> container.parts[loading].blob, pinned |-> TRUE]
      <4>1. p \in Part /\ p.pinned /\ AddToList(p) /\ UNCHANGED requireValidation
        <5>1. container.parts \in Seq(Plain) /\ loading \in DOMAIN container.parts
          BY <1>1, <2>4 DEF LoadPart, Idle, IInv, PartsTyped
        <5>2. container.parts[loading] \in Plain
          BY <5>1, ElementOfSeq, LenProperties
        <5>. QED  BY <2>4, <3>2, <5>2 DEF LoadPart, Plain, Part
      <4>. HIDE DEF p
      <4>2. \A k \in DOMAIN parts' :
              parts'[k] = p \/ \E j \in DOMAIN parts : parts'[k] = parts[j]
        BY <1>1, <4>1, AddedElements DEF IInv
      <4>. QED  BY <4>1, <4>2 DEF RInv, ClientChecked
    <3>. QED  BY <2>4, <3>1, <3>2 DEF LoadPart, LoadFails
  <2>5. ASSUME NEW f \in FourCCs, NEW b \in Blobs,
               AddToList([fourCC |-> f, blob |-> b, pinned |-> FALSE]),
               requireValidation' = NeedsValidation(f)
        PROVE  ClientChecked'
    <3>. DEFINE p == [fourCC |-> f, blob |-> b, pinned |-> FALSE]
    <3>1. p \in Part /\ p.fourCC = f /\ AddToList(p)
      BY <2>5 DEF Part
    <3>. HIDE DEF p
    <3>2. \A k \in DOMAIN parts' :
            parts'[k] = p \/ \E j \in DOMAIN parts : parts'[k] = parts[j]
      BY <1>1, <3>1, AddedElements DEF IInv
    <3>3. requireValidation' <=> requireValidation \/ f = RTS0
      BY <2>5, <1>1 DEF NeedsValidation, IInv, PartsTyped
    <3>. QED  BY <3>1, <3>2, <3>3 DEF RInv, ClientChecked
  <2>6. ASSUME NEW k \in DOMAIN parts, parts' = RemoveAt(parts, k),
               UNCHANGED requireValidation
        PROVE  ClientChecked'
    <3>1. \A i \in DOMAIN parts' : \E j \in DOMAIN parts : parts'[i] = parts[j]
      BY <1>1, <2>6, RemovedElements
    <3>. QED  BY <2>6, <3>1 DEF RInv, ClientChecked
  <2>7. CASE Renew
    BY <2>3, <2>7 DEF Renew
  <2>8. CASE Load
    BY <2>1, <2>2, <2>8 DEF Load
  <2>9. CASE Reload
    BY <2>3, <2>9 DEF Reload
  <2>10. CASE LoadDone
    BY <2>2, <2>10 DEF LoadDone
  <2>11. CASE AddPart
    BY <2>1, <2>5, <2>11 DEF AddPart
  <2>12. CASE RemovePart
    BY <2>1, <2>6, <2>12 DEF RemovePart
  <2>13. CASE SerializeContainer
    BY <2>1, <2>2, <2>13 DEF SerializeContainer
  <2>14. CASE UNCHANGED vars
    BY <2>2, <2>14 DEF vars
  <2>. QED  BY <2>4, <2>7, <2>8, <2>9, <2>10, <2>11, <2>12, <2>13, <2>14 DEF Next
<1>3. ResultFits'
  <2>1. CASE result' = None
    BY <2>1 DEF ResultFits
  <2>2. CASE LoadPart \/ LoadDone
    <3>1. result = None
      BY <2>2 DEF LoadPart, LoadDone, Idle, RInv, ResultFits
    <3>. QED  BY <2>1, <2>2, <3>1 DEF LoadPart, LoadDone
  <2>3. CASE UNCHANGED vars
    BY <2>3 DEF vars, RInv, ResultFits
  <2>4. CASE SerializeContainer
    <3>1. CASE Fails("E_FAIL")
      BY <2>1, <3>1 DEF Fails
    <3>2. ASSUME NEW st, st = IF requireValidation THEN Verdict(parts) ELSE "S_OK",
                 result' = [container |-> Laid(parts, HashAndUpdate(st)), status |-> st],
                 UNCHANGED <<requireValidation, loading>>
          PROVE  ResultFits'
      <4>1. result'.status = st /\ Verdict(result'.container.parts) = Verdict(parts)
        BY <1>1, <3>2, VerdictOfLaid
      <4>2. loading' = 0
        BY <2>4 DEF SerializeContainer, Idle, Fails
      <4>. QED  BY <3>2, <4>1, <4>2 DEF ResultFits
    <3>. QED  BY <2>4, <3>1, <3>2 DEF SerializeContainer
  <2>. QED  BY <2>1, <2>2, <2>3, <2>4
            DEF Next, Renew, Load, Reload, AddPart, RemovePart, Fails
<1>. QED  BY <1>1, <1>2, <1>3 DEF RInv

\* SerializeContainer accepts no container holding a root signature that came
\* in through AddPart unless the validator has accepted it with the shader in
\* that very container.
THEOREM RootSignatureSafety == Spec => []RootSignatureChecked
<1>1. Init => RInv
  <2>1. ASSUME Init PROVE ClientChecked /\ ResultFits
    <3>1. DOMAIN parts = {} /\ result = None
      BY <2>1 DEF Init, NewBuilder
    <3>. QED  BY <3>1 DEF ClientChecked, ResultFits
  <2>. QED  BY <2>1, InitOrder DEF RInv
<1>2. RInv => RootSignatureChecked
  BY DEF RInv, ClientChecked, ResultFits, RootSignatureChecked
<1>. QED  BY <1>1, <1>2, StepChecked, PTL DEF Spec
-----------------------------------------------------------------------------
(* Induction over the naturals, for a set rather than an operator.          *)

LEMMA EveryNatural ==
  ASSUME NEW T, 0 \in T, \A n \in Nat : n \in T => n + 1 \in T
  PROVE  Nat \subseteq T
<1>. DEFINE F == Nat \ T
<1>. SUFFICES ASSUME F # {} PROVE FALSE
  OBVIOUS
<1>1. PICK x \in F : \A y \in F : ~(<<y, x>> \in OpToRel(<, Nat))
  BY NatLessThanWellFounded, WFMin
<1>2. x \in Nat /\ x \notin T /\ x # 0
  OBVIOUS
<1>3. x - 1 \in Nat /\ x - 1 < x /\ (x - 1) + 1 = x
  BY <1>2
<1>4. x - 1 \notin T
  BY <1>2, <1>3
<1>5. <<x - 1, x>> \in OpToRel(<, Nat)
  BY <1>2, <1>3 DEF OpToRel
<1>. QED  BY <1>1, <1>3, <1>4, <1>5

-----------------------------------------------------------------------------
(* Sums in any order.  Weight says what an element adds.                    *)

Pick(s) == CHOOSE x \in s : TRUE
Adds(g, w, D) ==
  g = [s \in SUBSET D |-> IF s = {} THEN 0 ELSE w[Pick(s)] + g[s \ {Pick(s)}]]

LEMMA PickFact == \A s : s # {} => Pick(s) \in s
BY DEF Pick

\* There is a function that adds up the weights of every subset.
LEMMA SumExists ==
  ASSUME NEW D, IsFiniteSet(D), NEW w
  PROVE  \E g : Adds(g, w, D)
<1>. DEFINE F(g, s) == IF s = {} THEN 0 ELSE w[Pick(s)] + g[s \ {Pick(s)}]
            Upto(g, n) == \A s \in SUBSET D : Cardinality(s) <= n => g[s] = F(g, s)
            T == {n \in Nat : \E g : Upto(g, n)}
<1>1. \A s \in SUBSET D : IsFiniteSet(s) /\ Cardinality(s) \in Nat
  BY FS_Subset, FS_CardinalityType
<1>2. \A s \in SUBSET D : s # {} =>
        /\ s \ {Pick(s)} \in SUBSET D
        /\ Cardinality(s \ {Pick(s)}) = Cardinality(s) - 1
  <2>. TAKE s \in SUBSET D
  <2>1. s # {} => Pick(s) \in s
    BY PickFact
  <2>. QED  BY <1>1, <2>1, FS_RemoveElement
<1>3. \A s \in SUBSET D : Cardinality(s) = 0 <=> s = {}
  BY <1>1, FS_EmptySet
<1>4. 0 \in T
  <2>. DEFINE g0 == [s \in SUBSET D |-> 0]
  <2>1. Upto(g0, 0)
    <3>. SUFFICES ASSUME NEW s \in SUBSET D, Cardinality(s) <= 0 PROVE g0[s] = F(g0, s)
      OBVIOUS
    <3>1. s = {}
      BY <1>1, <1>3
    <3>. QED  BY <3>1
  <2>. QED  BY <2>1
<1>5. ASSUME NEW n \in Nat, n \in T PROVE n + 1 \in T
  <2>1. PICK g : Upto(g, n)
    BY <1>5
  <2>. DEFINE h == [s \in SUBSET D |-> IF Cardinality(s) <= n THEN g[s] ELSE F(g, s)]
  <2>2. ASSUME NEW s \in SUBSET D, Cardinality(s) <= n + 1 PROVE h[s] = F(h, s)
    <3>1. h[s] = F(g, s)
      BY <2>1
    <3>2. CASE s = {}
      BY <3>1, <3>2
    <3>3. CASE s # {}
      <4>. DEFINE r == s \ {Pick(s)}
      <4>1. r \in SUBSET D /\ Cardinality(r) = Cardinality(s) - 1 /\ Cardinality(s) \in Nat
        BY <1>1, <1>2, <3>3
      <4>2. Cardinality(r) <= n
        BY <2>2, <4>1
      <4>3. h[r] = g[r]
        BY <4>1, <4>2
      <4>. HIDE DEF r, h
      <4>4. F(g, s) = w[Pick(s)] + g[r] /\ F(h, s) = w[Pick(s)] + h[r]
        BY <3>3 DEF r
      <4>. QED  BY <3>1, <4>3, <4>4
    <3>. QED  BY <3>2, <3>3
  <2>. HIDE DEF h, F
  <2>3. Upto(h, n + 1)
    BY <2>2
  <2>. QED  BY <2>3
<1>. HIDE DEF T
<1>6. Nat \subseteq T
  BY <1>4, <1>5, EveryNatural
<1>7. Cardinality(D) \in T
  BY <1>1, <1>6
<1>8. PICK g : Upto(g, Cardinality(D))
  BY <1>7 DEF T
<1>9. \A s \in SUBSET D : g[s] = F(g, s)
  <2>. TAKE s \in SUBSET D
  <2>1. Cardinality(s) <= Cardinality(D)
    BY FS_Subset
  <2>. HIDE DEF F
  <2>. QED  BY <1>8, <2>1
<1>. DEFINE h == [s \in SUBSET D |-> g[s]]
<1>10. \A s \in SUBSET D : h[s] = F(h, s)
  <2>. TAKE s \in SUBSET D
  <2>1. s # {} => h[s \ {Pick(s)}] = g[s \ {Pick(s)}]
    BY <1>2
  <2>2. h[s] = g[s] /\ g[s] = F(g, s)
    BY <1>9
  <2>. HIDE DEF h
  <2>. QED  BY <2>1, <2>2
<1>11. h = [s \in SUBSET D |-> F(h, s)]
  <2>1. h = [s \in SUBSET D |-> h[s]]
    OBVIOUS
  <2>. HIDE DEF h, F
  <2>. QED  BY <1>10, <2>1
<1>. QED  BY <1>11 DEF Adds

\* It does not depend on the order.
LEMMA SumAnyOrder ==
  ASSUME NEW D, IsFiniteSet(D), NEW w \in [D -> Nat], NEW g, Adds(g, w, D)
  PROVE  /\ \A s \in SUBSET D : g[s] \in Nat
         /\ g[{}] = 0
         /\ \A s \in SUBSET D : \A x \in s : g[s] = w[x] + g[s \ {x}]
<1>. DEFINE Good(s) == g[s] \in Nat /\ \A x \in s : g[s] = w[x] + g[s \ {x}]
            N == {n \in Nat : \A s \in SUBSET D : Cardinality(s) <= n => Good(s)}
<1>1. \A s \in SUBSET D : IsFiniteSet(s) /\ Cardinality(s) \in Nat
  BY FS_Subset, FS_CardinalityType
<1>2. \A s \in SUBSET D : Cardinality(s) = 0 <=> s = {}
  BY <1>1, FS_EmptySet
<1>3. /\ g[{}] = 0
      /\ \A s \in SUBSET D : s # {} => Pick(s) \in s /\ g[s] = w[Pick(s)] + g[s \ {Pick(s)}]
  BY PickFact DEF Adds
<1>4. \A s \in SUBSET D : \A x \in s :
        s \ {x} \in SUBSET D /\ Cardinality(s \ {x}) = Cardinality(s) - 1
  BY <1>1, FS_RemoveElement
<1>5. 0 \in N
  <2>. SUFFICES ASSUME NEW s \in SUBSET D, Cardinality(s) <= 0 PROVE Good(s)
    OBVIOUS
  <2>1. s = {}
    BY <1>1, <1>2
  <2>. QED  BY <1>3, <2>1
<1>6. ASSUME NEW n \in Nat, n \in N PROVE n + 1 \in N
  <2>1. \A s \in SUBSET D : Cardinality(s) <= n => Good(s)
    BY <1>6
  <2>. SUFFICES ASSUME NEW s \in SUBSET D, Cardinality(s) <= n + 1 PROVE Good(s)
    OBVIOUS
  <2>2. CASE s = {}
    BY <1>3, <2>2
  <2>3. CASE s # {}
    <3>. DEFINE y == Pick(s)
    <3>1. y \in s /\ g[s] = w[y] + g[s \ {y}]
      BY <1>3, <2>3
    <3>. HIDE DEF y
    <3>2. ASSUME NEW x \in s
          PROVE  s \ {x} \in SUBSET D /\ Good(s \ {x})
      <4>1. s \ {x} \in SUBSET D /\ Cardinality(s \ {x}) <= n
        BY <1>1, <1>4
      <4>. HIDE DEF Good
      <4>. QED  BY <2>1, <4>1
    <3>3. \A x \in s : w[x] \in Nat /\ g[s \ {x}] \in Nat
      BY <3>2
    <3>4. g[s] \in Nat
      BY <3>1, <3>3
    <3>5. ASSUME NEW x \in s PROVE g[s] = w[x] + g[s \ {x}]
      <4>1. CASE x = y
        BY <3>1, <4>1
      <4>2. CASE x # y
        <5>. DEFINE r == s \ {x, y}
        <5>1. (s \ {x}) \ {y} = r /\ (s \ {y}) \ {x} = r /\ y \in s \ {x} /\ x \in s \ {y}
          BY <3>1, <4>2
        <5>2. g[s \ {y}] = w[x] + g[r]
          BY <3>1, <3>2, <5>1
        <5>3. g[s \ {x}] = w[y] + g[r]
          BY <3>2, <5>1
        <5>4. r \in SUBSET D /\ g[r] \in Nat
          <6>1. r \in SUBSET D /\ Cardinality(r) <= n
            <7>1. Cardinality(r) = Cardinality(s \ {y}) - 1 /\ Cardinality(s \ {y}) = Cardinality(s) - 1
              BY <1>4, <3>1, <5>1
            <7>2. r \in SUBSET D
              OBVIOUS
            <7>. QED  BY <1>1, <7>1, <7>2
          <6>. QED  BY <2>1, <6>1
        <5>. HIDE DEF r
        <5>. QED  BY <3>1, <3>3, <5>2, <5>3, <5>4
      <4>. QED  BY <4>1, <4>2
    <3>. QED  BY <3>4, <3>5
  <2>. QED  BY <2>2, <2>3
<1>. HIDE DEF N
<1>7. Nat \subseteq N
  BY <1>5, <1>6, EveryNatural
<1>8. \A s \in SUBSET D : Good(s)
  <2>. TAKE s \in SUBSET D
  <2>1. Cardinality(s) \in N /\ Cardinality(s) <= Cardinality(s)
    BY <1>1, <1>7
  <2>. QED  BY <2>1 DEF N
<1>. QED  BY <1>3, <1>8

-----------------------------------------------------------------------------
(* Where the parts of a laid out container are.                             *)

\* Each part begins where the one before it ends, the first behind the table.
Positions(pos, ps) ==
  /\ pos \in [1 .. Len(ps) + 1 -> Nat]
  /\ pos[1] = TableEnd(Len(ps))
  /\ \A k \in 1 .. Len(ps) : pos[k + 1] = pos[k] + Extent(ps, k)

SumOf(g, ps, D) ==
  g = [s \in SUBSET D |->
         IF s = {} THEN 0
         ELSE SizeOf[ps[CHOOSE x \in s : TRUE].blob] + g[s \ {CHOOSE x \in s : TRUE}]]
LEMMA SumIsIter ==
  ASSUME NEW ps, NEW D
  PROVE  MapThenSumSet(LAMBDA k : SizeOf[ps[k].blob], D) = (CHOOSE g : SumOf(g, ps, D))[D]
BY DEF MapThenSumSet, MapThenFoldSet, SumOf

\* The size of the container is where its last part ends.
LEMMA SizeIsEnd ==
  ASSUME NEW S, S \in {Part, Plain}, NEW ps \in Seq(S)
  PROVE  \E pos : Positions(pos, ps) /\ ContainerSize(ps) = pos[Len(ps) + 1]
<1>. DEFINE n == Len(ps)
            D == 1 .. n
            w == [k \in D |-> SizeOf[ps[k].blob]]
<1>1. n \in Nat /\ DOMAIN ps = D /\ IsFiniteSet(D)
  BY LenProperties, FS_Interval
<1>2. \A k \in D : SizeOf[ps[k].blob] \in Nat
  <2>1. \A k \in D : ps[k] \in S
    BY ElementOfSeq
  <2>2. \A k \in D : ps[k].blob \in Blobs
    BY <2>1 DEF Part, Plain
  <2>. QED  BY <2>2, BuilderAssumption
<1>3. w \in [D -> Nat] /\ \A k \in D : w[k] = SizeOf[ps[k].blob]
  BY <1>2
<1>. HIDE DEF w, n
<1>4. \A s \in SUBSET D : s # {} => Pick(s) \in D
  BY PickFact
<1>5. \A g : SumOf(g, ps, D) <=> Adds(g, w, D)
  <2>. TAKE g
  <2>. DEFINE A == [s \in SUBSET D |-> IF s = {} THEN 0 ELSE SizeOf[ps[Pick(s)].blob] + g[s \ {Pick(s)}]]
              B == [s \in SUBSET D |-> IF s = {} THEN 0 ELSE w[Pick(s)] + g[s \ {Pick(s)}]]
  <2>1. A = B
    BY <1>3, <1>4
  <2>2. SumOf(g, ps, D) <=> g = A
    BY DEF SumOf, Pick
  <2>3. Adds(g, w, D) <=> g = B
    BY DEF Adds
  <2>. QED  BY <2>1, <2>2, <2>3
<1>6. PICK g : Adds(g, w, D) /\ MapThenSumSet(LAMBDA k : SizeOf[ps[k].blob], D) = g[D]
  <2>1. \E g : SumOf(g, ps, D)
    BY <1>1, <1>5, SumExists
  <2>2. SumOf(CHOOSE g : SumOf(g, ps, D), ps, D)
    BY <2>1
  <2>. QED  BY <1>5, <2>2, SumIsIter
<1>7. /\ \A s \in SUBSET D : g[s] \in Nat
      /\ g[{}] = 0
      /\ \A s \in SUBSET D : \A x \in s : g[s] = w[x] + g[s \ {x}]
  <2>1. IsFiniteSet(D) /\ w \in [D -> Nat] /\ Adds(g, w, D)
    BY <1>1, <1>3, <1>6
  <2>. HIDE DEF D
  <2>. QED  BY <2>1, SumAnyOrder
<1>. DEFINE pos == [k \in 1 .. n + 1 |-> TableEnd(n) + g[1 .. k - 1] + 8 * (k - 1)]
<1>8. TableEnd(n) \in Nat
  BY <1>1 DEF TableEnd, HeaderSize, OffsetSize
<1>9. \A k \in 1 .. n + 1 : pos[k] = TableEnd(n) + g[1 .. k - 1] + 8 * (k - 1) /\ pos[k] \in Nat
  <2>. TAKE k \in 1 .. n + 1
  <2>1. 1 .. k - 1 \in SUBSET D
    BY <1>1
  <2>2. g[1 .. k - 1] \in Nat /\ 8 * (k - 1) \in Nat
    BY <1>1, <1>7, <2>1
  <2>. HIDE DEF D
  <2>. QED  BY <1>8, <2>2
<1>10. pos \in [1 .. n + 1 -> Nat]
  BY <1>9
<1>. HIDE DEF pos
<1>11. pos[1] = TableEnd(n)
  <2>1. 1 .. 1 - 1 = {} /\ 1 \in 1 .. n + 1
    BY <1>1
  <2>. QED  BY <1>7, <1>8, <1>9, <2>1
<1>12. ASSUME NEW k \in D PROVE pos[k + 1] = pos[k] + Extent(ps, k)
  <2>1. k \in 1 .. n + 1 /\ k + 1 \in 1 .. n + 1 /\ (k + 1) - 1 = k /\ k \in 1 .. k /\ k \in Nat
    BY <1>1
  <2>2. 1 .. k \in SUBSET D /\ (1 .. k) \ {k} = 1 .. k - 1 /\ 1 .. k - 1 \in SUBSET D
    BY <1>1
  <2>3. g[1 .. k] = w[k] + g[1 .. k - 1]
    <3>. DEFINE s == 1 .. k
    <3>1. s \in SUBSET D /\ k \in s /\ s \ {k} = 1 .. k - 1
      BY <2>1, <2>2
    <3>. HIDE DEF s, D
    <3>2. g[s] = w[k] + g[s \ {k}]
      BY <1>7, <3>1
    <3>3. g[s] = w[k] + g[1 .. k - 1]
      BY <3>1, <3>2
    <3>. QED  BY <3>3 DEF s
  <2>4. pos[k + 1] = TableEnd(n) + g[1 .. k] + 8 * k
    BY <1>9, <2>1
  <2>5. pos[k] = TableEnd(n) + g[1 .. k - 1] + 8 * (k - 1)
    BY <1>9, <2>1
  <2>6. Extent(ps, k) = 8 + w[k] /\ w[k] \in Nat
    BY <1>2, <1>3 DEF Extent, PartHeaderSize
  <2>7. g[1 .. k] \in Nat /\ g[1 .. k - 1] \in Nat
    BY <1>7, <2>2
  <2>8. PICK u \in Nat : u = g[1 .. k]
    BY <2>7
  <2>9. PICK v \in Nat : v = g[1 .. k - 1]
    BY <2>7
  <2>10. PICK t \in Nat : t = TableEnd(n)
    BY <1>8
  <2>11. PICK x \in Nat : x = w[k]
    BY <2>6
  <2>12. t + u + 8 * k = (t + v + 8 * (k - 1)) + (8 + x)
    <3>1. u = x + v
      BY <2>3, <2>8, <2>9, <2>11
    <3>. QED  BY <2>1, <3>1
  <2>. HIDE DEF D
  <2>. QED  BY <2>4, <2>5, <2>6, <2>8, <2>9, <2>10, <2>11, <2>12, Zenon
<1>13. Positions(pos, ps)
  BY <1>10, <1>11, <1>12 DEF Positions, n
<1>14. ContainerSize(ps) = pos[n + 1]
  <2>1. ContainerSize(ps) = g[D] + 32 + 4 * n + 8 * n
    BY <1>1, <1>6 DEF ContainerSize, HeaderSize, OffsetSize, PartHeaderSize, n
  <2>2. n + 1 \in 1 .. n + 1 /\ (n + 1) - 1 = n
    BY <1>1
  <2>3. pos[n + 1] = TableEnd(n) + g[D] + 8 * n /\ g[D] \in Nat
    BY <1>7, <1>9, <2>2
  <2>. HIDE DEF D
  <2>. QED  BY <1>1, <2>1, <2>3 DEF TableEnd, HeaderSize, OffsetSize
<1>. QED  BY <1>13, <1>14 DEF n

\* A function computed from one place to the next agrees with the positions.
SameSteps(n, m, pos, f, e) ==
  /\ n \in Nat /\ m \in Nat /\ m <= n + 1 /\ pos \in [1 .. n + 1 -> Nat]
  /\ m >= 1 => f[1] = pos[1]
  /\ \A k \in 1 .. n : pos[k + 1] = pos[k] + e[k]
  /\ \A k \in 1 .. n : k + 1 <= m => f[k + 1] = f[k] + e[k]
LEMMA SamePositions ==
  ASSUME NEW n, NEW m, NEW pos, NEW f, NEW e, SameSteps(n, m, pos, f, e)
  PROVE  \A k \in 1 .. m : f[k] = pos[k]
<1>. USE DEF SameSteps
<1>. DEFINE T == {j \in Nat : j + 1 <= m => f[j + 1] = pos[j + 1]}
<1>1. 0 \in T
  OBVIOUS
<1>2. ASSUME NEW j \in Nat, j \in T PROVE j + 1 \in T
  <2>. SUFFICES ASSUME (j + 1) + 1 <= m PROVE f[(j + 1) + 1] = pos[(j + 1) + 1]
    OBVIOUS
  <2>1. j + 1 \in 1 .. n /\ j + 1 <= m
    OBVIOUS
  <2>2. f[j + 1] = pos[j + 1]
    BY <1>2, <2>1
  <2>. QED  BY <2>1, <2>2
<1>. HIDE DEF T
<1>3. Nat \subseteq T
  BY <1>1, <1>2, EveryNatural
<1>4. ASSUME NEW k \in 1 .. m PROVE f[k] = pos[k]
  <2>1. k - 1 \in Nat /\ (k - 1) + 1 = k /\ k <= m
    OBVIOUS
  <2>2. k - 1 \in T
    BY <1>3, <2>1
  <2>. QED  BY <2>1, <2>2 DEF T
<1>. QED  BY <1>4

OffsetsOf(off, ps) ==
  off = [k \in 1 .. Len(ps) |->
           IF k = 1 THEN TableEnd(Len(ps)) ELSE off[k - 1] + Extent(ps, k - 1)]
BeginsOf(b, n, qs) ==
  b = [k \in 1 .. n + 1 |-> IF k = 1 THEN TableEnd(n) ELSE b[k - 1] + Extent(qs, k - 1)]

\* The positions are numbers that grow.
LEMMA PositionsGrow ==
  ASSUME NEW S, S \in {Part, Plain}, NEW ps \in Seq(S), NEW pos, Positions(pos, ps)
  PROVE  /\ \A k \in 1 .. Len(ps) : Extent(ps, k) \in Nat /\ Extent(ps, k) >= PartHeaderSize
         /\ \A k \in 1 .. Len(ps) + 1 : pos[k] <= pos[Len(ps) + 1]
<1>. DEFINE n == Len(ps)
<1>1. n \in Nat
  BY LenProperties
<1>2. \A k \in 1 .. n : Extent(ps, k) \in Nat /\ Extent(ps, k) >= PartHeaderSize
  <2>. TAKE k \in 1 .. n
  <2>1. ps[k] \in Part \/ ps[k] \in Plain
    BY ElementOfSeq
  <2>2. ps[k].blob \in Blobs
    BY <2>1 DEF Part, Plain
  <2>3. SizeOf[ps[k].blob] \in Nat
    BY <2>2, BuilderAssumption
  <2>. QED  BY <2>3 DEF Extent, PartHeaderSize
<1>3. /\ pos \in [1 .. n + 1 -> Nat]
      /\ \A k \in 1 .. n : pos[k + 1] = pos[k] + Extent(ps, k)
  BY DEF Positions
<1>. HIDE DEF n
<1>. DEFINE T == {j \in Nat : j <= n => pos[n + 1 - j] <= pos[n + 1]}
<1>4. 0 \in T
  <2>1. n + 1 - 0 = n + 1 /\ n + 1 \in 1 .. n + 1
    BY <1>1
  <2>2. pos[n + 1] \in Nat
    BY <1>3, <2>1
  <2>. QED  BY <2>1, <2>2
<1>5. ASSUME NEW j \in Nat, j \in T PROVE j + 1 \in T
  <2>. SUFFICES ASSUME j + 1 <= n PROVE pos[n + 1 - (j + 1)] <= pos[n + 1]
    OBVIOUS
  <2>. DEFINE k == n - j
  <2>1. k \in 1 .. n /\ n + 1 - (j + 1) = k /\ n + 1 - j = k + 1 /\ j <= n
    BY <1>1
  <2>2. pos[k + 1] <= pos[n + 1]
    BY <1>5, <2>1
  <2>3. k \in 1 .. n + 1 /\ k + 1 \in 1 .. n + 1 /\ n + 1 \in 1 .. n + 1
    BY <1>1, <2>1
  <2>4. pos[k] \in Nat /\ pos[k + 1] \in Nat /\ pos[n + 1] \in Nat
    BY <1>3, <2>3
  <2>5. pos[k + 1] = pos[k] + Extent(ps, k) /\ Extent(ps, k) \in Nat
    BY <1>2, <1>3, <2>1
  <2>. HIDE DEF k
  <2>6. pos[k] <= pos[n + 1]
    BY <2>2, <2>4, <2>5
  <2>. QED  BY <2>1, <2>6
<1>. HIDE DEF T
<1>6. Nat \subseteq T
  BY <1>4, <1>5, EveryNatural
<1>7. ASSUME NEW k \in 1 .. n + 1 PROVE pos[k] <= pos[n + 1]
  <2>1. n + 1 - k \in Nat /\ n + 1 - k <= n /\ n + 1 - (n + 1 - k) = k
    BY <1>1
  <2>2. n + 1 - k \in T
    BY <1>6, <2>1
  <2>. QED  BY <2>1, <2>2 DEF T
<1>. QED  BY <1>2, <1>7 DEF n

\* The offset table holds the positions of the parts.
LEMMA LaidPositions ==
  ASSUME NEW S, S \in {Part, Plain}, NEW ps \in Seq(S), NEW d
  PROVE  \E pos : /\ Positions(pos, ps)
                  /\ Laid(ps, d).size = pos[Len(ps) + 1]
                  /\ Laid(ps, d).offsets = [k \in 1 .. Len(ps) |-> pos[k]]
<1>. DEFINE n == Len(ps)
            off == CHOOSE f : OffsetsOf(f, ps)
<1>1. n \in Nat /\ DOMAIN ps = 1 .. n
  BY LenProperties
<1>2. PICK pos : Positions(pos, ps) /\ ContainerSize(ps) = pos[n + 1]
  BY SizeIsEnd
<1>3. /\ pos \in [1 .. n + 1 -> Nat] /\ pos[1] = TableEnd(n)
      /\ \A k \in 1 .. n : pos[k + 1] = pos[k] + Extent(ps, k)
  BY <1>2 DEF Positions
<1>. DEFINE f == [k \in 1 .. n |-> pos[k]]
            e == [k \in 1 .. n |-> Extent(ps, k)]
<1>4. OffsetsOf(f, ps)
  <2>1. ASSUME NEW k \in 1 .. n
        PROVE  pos[k] = IF k = 1 THEN TableEnd(n) ELSE f[k - 1] + Extent(ps, k - 1)
    <3>1. CASE k = 1
      BY <1>3, <3>1
    <3>2. CASE k # 1
      <4>1. k - 1 \in 1 .. n /\ (k - 1) + 1 = k
        BY <1>1, <3>2
      <4>2. f[k - 1] = pos[k - 1]
        BY <4>1
      <4>. HIDE DEF f
      <4>. QED  BY <1>3, <3>2, <4>1, <4>2
    <3>. QED  BY <3>1, <3>2
  <2>2. f = [k \in 1 .. n |-> IF k = 1 THEN TableEnd(n) ELSE f[k - 1] + Extent(ps, k - 1)]
    BY <2>1
  <2>. HIDE DEF f
  <2>. QED  BY <2>2 DEF OffsetsOf
<1>. HIDE DEF f
<1>5. OffsetsOf(off, ps)
  BY <1>4
<1>. HIDE DEF off
<1>6. /\ n >= 1 => off[1] = pos[1]
      /\ \A k \in 1 .. n : k + 1 <= n => off[k + 1] = off[k] + Extent(ps, k)
  <2>1. \A k \in 1 .. n : off[k] = IF k = 1 THEN TableEnd(n) ELSE off[k - 1] + Extent(ps, k - 1)
    BY <1>5 DEF OffsetsOf
  <2>2. n >= 1 => off[1] = pos[1]
    BY <1>1, <1>3, <2>1
  <2>3. ASSUME NEW k \in 1 .. n, k + 1 <= n PROVE off[k + 1] = off[k] + Extent(ps, k)
    <3>1. k + 1 \in 1 .. n /\ k + 1 # 1 /\ (k + 1) - 1 = k
      BY <1>1, <2>3
    <3>. HIDE DEF n
    <3>. QED  BY <2>1, <3>1
  <2>. QED  BY <2>2, <2>3
<1>7. \A k \in 1 .. n : e[k] = Extent(ps, k)
  OBVIOUS
<1>. HIDE DEF e, n
<1>8. \A k \in 1 .. n : off[k] = pos[k]
  <2>1. n \in Nat /\ n <= n + 1 /\ pos \in [1 .. n + 1 -> Nat]
    BY <1>1, <1>3
  <2>2. \A k \in 1 .. n : pos[k + 1] = pos[k] + e[k]
    BY <1>3, <1>7
  <2>3. \A k \in 1 .. n : k + 1 <= n => off[k + 1] = off[k] + e[k]
    BY <1>6, <1>7
  <2>4. n >= 1 => off[1] = pos[1]
    BY <1>6
  <2>5. SameSteps(n, n, pos, off, e)
    BY <2>1, <2>2, <2>3, <2>4 DEF SameSteps
  <2>. QED  BY <2>5, SamePositions
<1>9. Offsets(ps) = [k \in DOMAIN ps |-> off[k]]
  BY DEF Offsets, OffsetsOf, off
<1>10. Offsets(ps) = [k \in 1 .. n |-> pos[k]]
  BY <1>1, <1>8, <1>9
<1>11. Laid(ps, d).size = ContainerSize(ps) /\ Laid(ps, d).offsets = Offsets(ps)
  BY DEF Laid
<1>. QED  BY <1>2, <1>10, <1>11 DEF n

\* Types of a container.
LEMMA LaidTyped ==
  ASSUME NEW S, S \in {Part, Plain}, NEW ps \in Seq(S), NEW d \in Digests
  PROVE  Laid(ps, d) \in Layouts
<1>. DEFINE n == Len(ps)
<1>1. n \in Nat
  BY LenProperties
<1>2. PICK pos : /\ Positions(pos, ps)
                 /\ Laid(ps, d).size = pos[n + 1]
                 /\ Laid(ps, d).offsets = [k \in 1 .. n |-> pos[k]]
  BY LaidPositions
<1>3. pos \in [1 .. n + 1 -> Nat]
  BY <1>2 DEF Positions
<1>4. pos[n + 1] \in Nat
  BY <1>1, <1>3
<1>. DEFINE e(k) == pos[k]
<1>5. [k \in 1 .. n |-> e(k)] \in Seq(Nat)
  <2>1. \A k \in 1 .. n : e(k) \in Nat
    BY <1>1, <1>3
  <2>. HIDE DEF e, n
  <2>. QED  BY <1>1, <2>1, IsASeq
<1>6. Laid(ps, d).parts \in Seq([fourCC : FourCCs, blob : Blobs])
  BY LaidParts DEF Plain
<1>7. Laid(ps, d) = [size |-> Laid(ps, d).size, offsets |-> Laid(ps, d).offsets,
                     parts |-> Laid(ps, d).parts, digest |-> d]
  BY DEF Laid
<1>8. Laid(ps, d).size \in Nat /\ Laid(ps, d).offsets \in Seq(Nat)
  BY <1>2, <1>4, <1>5
<1>. HIDE DEF n
<1>9. ASSUME NEW z \in Nat, NEW o \in Seq(Nat), NEW q \in Seq([fourCC : FourCCs, blob : Blobs])
      PROVE  [size |-> z, offsets |-> o, parts |-> q, digest |-> d] \in Layouts
  BY DEF Layouts
<1>. QED  BY <1>6, <1>7, <1>8, <1>9

\* A container that was laid out is valid unless it is too large.
LEMMA LaidValid ==
  ASSUME NEW S, S \in {Part, Plain}, NEW ps \in Seq(S), NEW d, Laid(ps, d).size <= MaxSize
  PROVE  IsValid(Laid(ps, d))
<1>. DEFINE n == Len(ps)
            c == Laid(ps, d)
            b == CHOOSE f : BeginsOf(f, n, c.parts)
<1>1. n \in Nat /\ DOMAIN ps = 1 .. n
  BY LenProperties
<1>2. PICK pos : /\ Positions(pos, ps)
                 /\ c.size = pos[n + 1]
                 /\ c.offsets = [k \in 1 .. n |-> pos[k]]
  BY LaidPositions
<1>3. /\ pos \in [1 .. n + 1 -> Nat] /\ pos[1] = TableEnd(n)
      /\ \A k \in 1 .. n : pos[k + 1] = pos[k] + Extent(ps, k)
  BY <1>2 DEF Positions
<1>4. /\ \A k \in 1 .. n : Extent(ps, k) \in Nat /\ Extent(ps, k) >= PartHeaderSize
      /\ \A k \in 1 .. n + 1 : pos[k] <= pos[n + 1]
  BY <1>2, PositionsGrow
<1>5. \A k \in 1 .. n : Extent(c.parts, k) = Extent(ps, k)
  BY <1>1, LaidParts DEF Extent
<1>6. Len(c.offsets) = n
  <2>. DEFINE e(k) == pos[k]
  <2>1. \A k \in 1 .. n : e(k) \in Nat
    BY <1>1, <1>3
  <2>. HIDE DEF e, n, c
  <2>2. [k \in 1 .. n |-> e(k)] \in Seq(Nat)
    BY <1>1, <2>1, IsASeq
  <2>3. c.offsets \in Seq(Nat) /\ DOMAIN c.offsets = 1 .. n
    BY <1>2, <2>2 DEF e
  <2>4. Len(c.offsets) \in Nat /\ DOMAIN c.offsets = 1 .. Len(c.offsets)
    BY <2>3, LenProperties
  <2>. QED  BY <1>1, <2>3, <2>4
<1>7. IsValid(c) <=>
        /\ c.size <= MaxSize
        /\ TableEnd(n) <= c.size
        /\ \A k \in 1 .. n : /\ c.offsets[k] <= c.size - PartHeaderSize
                             /\ c.offsets[k] = b[k]
                             /\ c.offsets[k] + Extent(c.parts, k) <= c.size
        /\ b[n + 1] = c.size
  <2>. HIDE DEF n, c
  <2>. QED  BY <1>6 DEF IsValid, BeginsOf
<1>. HIDE DEF c, n
<1>8. BeginsOf(pos, n, c.parts)
  <2>1. ASSUME NEW k \in 1 .. n + 1
        PROVE  pos[k] = IF k = 1 THEN TableEnd(n) ELSE pos[k - 1] + Extent(c.parts, k - 1)
    <3>1. CASE k = 1
      BY <1>3, <3>1
    <3>2. CASE k # 1
      <4>1. k - 1 \in 1 .. n /\ (k - 1) + 1 = k
        BY <1>1, <3>2
      <4>. QED  BY <1>3, <1>5, <3>2, <4>1
    <3>. QED  BY <3>1, <3>2
  <2>2. pos = [k \in 1 .. n + 1 |-> pos[k]]
    BY <1>3
  <2>. QED  BY <2>1, <2>2 DEF BeginsOf
<1>9. BeginsOf(b, n, c.parts)
  BY <1>8
<1>. HIDE DEF b
<1>10. \A k \in 1 .. n + 1 : b[k] = pos[k]
  <2>. DEFINE e == [k \in 1 .. n |-> Extent(ps, k)]
  <2>1. \A k \in 1 .. n : e[k] = Extent(ps, k)
    OBVIOUS
  <2>2. \A k \in 1 .. n + 1 : b[k] = IF k = 1 THEN TableEnd(n) ELSE b[k - 1] + Extent(c.parts, k - 1)
    BY <1>9 DEF BeginsOf
  <2>. HIDE DEF e
  <2>3. b[1] = pos[1]
    BY <1>1, <1>3, <2>2
  <2>4. ASSUME NEW k \in 1 .. n PROVE b[k + 1] = b[k] + e[k]
    <3>1. k + 1 \in 1 .. n + 1 /\ k + 1 # 1 /\ (k + 1) - 1 = k
      BY <1>1
    <3>. QED  BY <1>5, <2>1, <2>2, <3>1
  <2>5. \A k \in 1 .. n : pos[k + 1] = pos[k] + e[k]
    BY <1>3, <2>1
  <2>6. n + 1 \in Nat /\ n + 1 <= n + 1
    BY <1>1
  <2>7. n + 1 >= 1 => b[1] = pos[1]
    BY <2>3
  <2>8. \A k \in 1 .. n : k + 1 <= n + 1 => b[k + 1] = b[k] + e[k]
    BY <2>4
  <2>9. n \in Nat /\ pos \in [1 .. n + 1 -> Nat]
    BY <1>1, <1>3
  <2>10. SameSteps(n, n + 1, pos, b, e)
    BY <2>5, <2>6, <2>7, <2>8, <2>9 DEF SameSteps
  <2>. QED  BY <2>10, SamePositions
<1>11. ASSUME NEW k \in 1 .. n
       PROVE  /\ c.offsets[k] <= c.size - PartHeaderSize
              /\ c.offsets[k] = b[k]
              /\ c.offsets[k] + Extent(c.parts, k) <= c.size
  <2>1. k \in 1 .. n + 1 /\ k + 1 \in 1 .. n + 1 /\ n + 1 \in 1 .. n + 1
    BY <1>1
  <2>2. c.offsets[k] = pos[k] /\ b[k] = pos[k]
    BY <1>2, <1>10, <2>1
  <2>3. pos[k + 1] = pos[k] + Extent(ps, k) /\ pos[k + 1] <= pos[n + 1]
    BY <1>3, <1>4, <2>1
  <2>4. pos[k] \in Nat /\ pos[n + 1] \in Nat /\ Extent(ps, k) \in Nat /\ Extent(ps, k) >= PartHeaderSize
    BY <1>3, <1>4, <2>1
  <2>5. pos[k] + Extent(ps, k) <= pos[n + 1] /\ pos[k] <= pos[n + 1] - PartHeaderSize
    BY <2>3, <2>4 DEF PartHeaderSize
  <2>. QED  BY <1>2, <1>5, <2>2, <2>5
<1>12. 1 \in 1 .. n + 1 /\ n + 1 \in 1 .. n + 1
  BY <1>1
<1>13. TableEnd(n) <= c.size
  BY <1>2, <1>3, <1>4, <1>12
<1>14. b[n + 1] = c.size
  BY <1>2, <1>10, <1>12
<1>15. c.size <= MaxSize
  BY DEF c
<1>. QED  BY <1>7, <1>11, <1>13, <1>14, <1>15 DEF c

-----------------------------------------------------------------------------
(* Types, the result and the digest.                                        *)

\* A result lasts as long as the parts and the hash function it was made from.
ResultLaid ==
  result # None =>
    /\ loading = 0
    /\ result.container = Laid(parts, HashAndUpdate(result.status))

\* The hash function is the loaded container's, once that is loaded.
DigestFollows ==
  /\ hashFunction # "none" => container # None /\ container.digest = hashFunction
  /\ loading = 0 /\ container # None /\ before # None => hashFunction = container.digest

LInv == IInv /\ TypeOK /\ ResultLaid /\ DigestFollows

Returned == [container : Layouts,
             status : {"S_OK", "DXC_E_MISSING_PART", "DXC_E_INCORRECT_ROOT_SIGNATURE"}]

\* When identifiers do not repeat there are no more parts than identifiers.
LEMMA PartsBounded ==
  ASSUME NEW ps \in Seq(Part), \A j, k \in DOMAIN ps : ps[j].fourCC = ps[k].fourCC => j = k
  PROVE  Len(ps) <= Cardinality(FourCCs)
<1>. DEFINE D == 1 .. Len(ps)
            f == [k \in D |-> ps[k].fourCC]
<1>1. Len(ps) \in Nat /\ DOMAIN ps = D
  BY LenProperties
<1>2. \A k \in D : ps[k].fourCC \in FourCCs
  <2>. TAKE k \in D
  <2>1. ps[k] \in Part
    BY ElementOfSeq
  <2>. QED  BY <2>1 DEF Part
<1>3. \A j, k \in D : f[j] = f[k] => j = k
  BY <1>1
<1>4. f \in [D -> FourCCs]
  BY <1>2
<1>. HIDE DEF f
<1>5. f \in Injection(D, FourCCs)
  BY <1>3, <1>4, Zenon DEF Injection, IsInjective
<1>6. IsFiniteSet(FourCCs)
  BY BuilderAssumption
<1>7. IsFiniteSet(D) /\ Cardinality(D) = Len(ps)
  BY <1>1, FS_Interval
<1>8. Cardinality(D) <= Cardinality(FourCCs)
  BY <1>5, <1>6, <1>7, FS_Injection
<1>. QED  BY <1>7, <1>8

\* The builder's list, now and after a step.
LEMMA ListBounded == IInv => parts \in Seq(Part) /\ Len(parts) <= Cardinality(FourCCs)
<1>. SUFFICES ASSUME IInv PROVE parts \in Seq(Part) /\ Len(parts) <= Cardinality(FourCCs)
  OBVIOUS
<1>1. parts \in Seq(Part) /\ \A j, k \in DOMAIN parts : parts[j].fourCC = parts[k].fourCC => j = k
  BY DEF IInv, PartsTyped, PartsInOrder
<1>. QED  BY <1>1, PartsBounded

LEMMA ListBoundedNext == IInv' => parts' \in Seq(Part) /\ Len(parts') <= Cardinality(FourCCs)
<1>. SUFFICES ASSUME IInv' PROVE parts' \in Seq(Part) /\ Len(parts') <= Cardinality(FourCCs)
  OBVIOUS
<1>1. parts' \in Seq(Part) /\ \A j, k \in DOMAIN parts' : parts'[j].fourCC = parts'[k].fourCC => j = k
  BY DEF IInv, PartsTyped, PartsInOrder, Part
<1>. QED  BY <1>1, PartsBounded

LEMMA Verdicts ==
  ASSUME NEW ps
  PROVE  Verdict(ps) \in {"S_OK", "DXC_E_MISSING_PART", "DXC_E_INCORRECT_ROOT_SIGNATURE"}
BY DEF Verdict

LEMMA SourceTyped ==
  ASSUME NEW s \in Sources
  PROVE  Laid(s.parts, s.digest) \in Layouts /\ Laid(s.parts, s.digest) # None
<1>1. s.parts \in Seq(Plain) /\ s.digest \in Digests /\ None \notin Layouts
  BY BuilderAssumption DEF Plain
<1>. QED  BY <1>1, LaidTyped

LEMMA InitLaid == Init => LInv
<1>. SUFFICES ASSUME Init PROVE LInv
  OBVIOUS
<1>1. IInv
  BY InitOrder
<1>2. parts \in Seq(Part) /\ Len(parts) <= Cardinality(FourCCs)
  BY <1>1, ListBounded
<1>3. before \in Seq(Part)
  BY DEF Init, NewBuilder
<1>4. TypeOK
  BY <1>2, <1>3 DEF Init, NewBuilder, TypeOK, Digests
<1>5. ResultLaid /\ DigestFollows
  BY DEF Init, NewBuilder, ResultLaid, DigestFollows
<1>. QED  BY <1>1, <1>4, <1>5 DEF LInv

LEMMA StepLaid == LInv /\ [Next]_vars => LInv'
<1>. SUFFICES ASSUME LInv, [Next]_vars PROVE LInv'
  OBVIOUS
<1>1. IInv /\ IInv' /\ TypeOK /\ ResultLaid /\ DigestFollows
  BY StepOrder DEF LInv
<1>2. parts' \in Seq(Part) /\ Len(parts') <= Cardinality(FourCCs)
  BY <1>1, ListBoundedNext
<1>3. requireValidation' \in BOOLEAN /\ hasPrivate' \in BOOLEAN
  BY <1>1 DEF IInv, PartsTyped
<1>4. /\ before \in Seq(Part) \cup {None} /\ container \in Layouts \cup {None}
      /\ hashFunction \in Digests /\ loading \in Nat /\ (loading # 0 => container # None)
      /\ result \in Returned \cup {None}
      /\ ret \in {"S_OK", "E_INVALIDARG", "E_OUTOFMEMORY", "E_FAIL",
                  "DXC_E_DUPLICATE_PART", "DXC_E_MISSING_PART"}
  BY <1>1 DEF TypeOK, Returned
<1>5. parts \in Seq(Part) /\ <<>> \in Seq(Part) /\ "none" \in Digests /\ None \notin Layouts
  BY <1>1, BuilderAssumption DEF TypeOK, Digests
<1>6. ASSUME /\ before' \in Seq(Part) \cup {None} /\ container' \in Layouts \cup {None}
             /\ hashFunction' \in Digests /\ loading' \in Nat /\ (loading' # 0 => container' # None)
             /\ result' \in Returned \cup {None}
             /\ ret' \in {"S_OK", "E_INVALIDARG", "E_OUTOFMEMORY", "E_FAIL",
                          "DXC_E_DUPLICATE_PART", "DXC_E_MISSING_PART"},
             ResultLaid', DigestFollows'
      PROVE  LInv'
  <2>1. TypeOK'
    BY <1>2, <1>3, <1>6 DEF TypeOK, Returned, Layouts, Digests, Part
  <2>. QED  BY <1>1, <1>6, <2>1 DEF LInv
<1>7. ASSUME result' = None PROVE ResultLaid'
  BY <1>7 DEF ResultLaid
<1>8. ASSUME NEW hr \in {"E_INVALIDARG", "E_FAIL", "DXC_E_DUPLICATE_PART", "DXC_E_MISSING_PART"},
             Fails(hr)
      PROVE  LInv'
  <2>1. ret' = hr /\ result' = None
        /\ UNCHANGED <<container, hashFunction, loading, before>>
    BY <1>8 DEF Fails
  <2>2. DigestFollows'
    BY <1>1, <2>1 DEF DigestFollows
  <2>. QED  BY <1>4, <1>6, <1>7, <2>1, <2>2
<1>9. CASE Renew
  <2>1. /\ container' = None /\ hashFunction' = "none" /\ before' = <<>> /\ result' = None
        /\ ret' = "S_OK" /\ loading' = loading /\ loading = 0
    BY <1>9 DEF Renew, Idle
  <2>2. DigestFollows'
    BY <2>1 DEF DigestFollows
  <2>. QED  BY <1>4, <1>5, <1>6, <1>7, <2>1, <2>2
<1>10. CASE Load
  <2>1. CASE Fails("E_INVALIDARG")
    BY <1>8, <2>1
  <2>2. CASE /\ container = None
             /\ \E s \in Sources : container' = Laid(s.parts, s.digest)
             /\ loading' = 1 /\ before' = parts /\ result' = None
             /\ UNCHANGED <<hashFunction, ret>>
    <3>1. container' \in Layouts /\ container' # None
      BY <2>2, SourceTyped
    <3>2. hashFunction = "none"
      BY <1>1, <2>2 DEF DigestFollows
    <3>3. DigestFollows'
      BY <2>2, <3>2 DEF DigestFollows
    <3>4. loading' \in Nat
      BY <2>2
    <3>. QED  BY <1>4, <1>5, <1>6, <1>7, <2>2, <3>1, <3>3, <3>4
  <2>. QED  BY <1>10, <2>1, <2>2 DEF Load
<1>11. CASE Reload
  <2>1. /\ result # None /\ container' = result.container /\ loading' = 1 /\ result' = None
        /\ before' = <<>> /\ hashFunction' = "none" /\ ret' = ret
    BY <1>11 DEF Reload
  <2>2. container' \in Layouts
    BY <1>4, <2>1 DEF Returned
  <2>3. DigestFollows'
    BY <2>1 DEF DigestFollows
  <2>4. loading' \in Nat /\ container' # None
    BY <1>5, <2>1, <2>2
  <2>. QED  BY <1>4, <1>5, <1>6, <1>7, <2>1, <2>2, <2>3, <2>4
<1>12. CASE LoadPart
  <2>1. /\ loading # 0 /\ UNCHANGED <<container, hashFunction, result>>
        /\ \/ loading' = loading + 1 /\ UNCHANGED <<before, ret>>
           \/ /\ loading' = 0 /\ before' = None
              /\ ret' \in {"DXC_E_DUPLICATE_PART", "E_OUTOFMEMORY"}
    BY <1>12 DEF LoadPart, LoadFails, Idle
  <2>2. result' = None
    BY <1>1, <2>1 DEF ResultLaid
  <2>3. loading' \in Nat /\ container' # None
    BY <1>4, <2>1
  <2>4. DigestFollows'
    BY <1>1, <1>4, <2>1 DEF DigestFollows
  <2>5. /\ before' \in Seq(Part) \cup {None}
        /\ ret' \in {"S_OK", "E_INVALIDARG", "E_OUTOFMEMORY", "E_FAIL",
                     "DXC_E_DUPLICATE_PART", "DXC_E_MISSING_PART"}
    BY <1>4, <2>1
  <2>. QED  BY <1>4, <1>6, <1>7, <2>1, <2>2, <2>3, <2>4, <2>5
<1>13. CASE LoadDone
  <2>1. /\ loading # 0 /\ UNCHANGED <<container, result>>
        /\ hashFunction' = container.digest /\ loading' = 0 /\ before' = <<>> /\ ret' = "S_OK"
    BY <1>13 DEF LoadDone, Idle
  <2>2. result' = None
    BY <1>1, <2>1 DEF ResultLaid
  <2>3. container \in Layouts /\ hashFunction' \in Digests
    BY <1>4, <2>1 DEF Layouts
  <2>4. DigestFollows'
    BY <1>4, <2>1 DEF DigestFollows
  <2>. QED  BY <1>4, <1>5, <1>6, <1>7, <2>1, <2>2, <2>3, <2>4
<1>14. CASE AddPart
  <2>1. CASE \E hr \in {"E_INVALIDARG", "DXC_E_DUPLICATE_PART"} : Fails(hr)
    BY <1>8, <2>1
  <2>2. CASE ret' = "S_OK" /\ result' = None /\ UNCHANGED <<container, hashFunction, loading, before>>
    <3>1. DigestFollows'
      BY <1>1, <2>2 DEF DigestFollows
    <3>. QED  BY <1>4, <1>6, <1>7, <2>2, <3>1
  <2>. QED  BY <1>14, <2>1, <2>2 DEF AddPart
<1>15. CASE RemovePart
  <2>1. CASE \E hr \in {"E_INVALIDARG", "DXC_E_MISSING_PART"} : Fails(hr)
    BY <1>8, <2>1
  <2>2. CASE ret' = "S_OK" /\ result' = None /\ UNCHANGED <<container, hashFunction, loading, before>>
    <3>1. DigestFollows'
      BY <1>1, <2>2 DEF DigestFollows
    <3>. QED  BY <1>4, <1>6, <1>7, <2>2, <3>1
  <2>. QED  BY <1>15, <2>1, <2>2 DEF RemovePart
<1>16. CASE SerializeContainer
  <2>1. CASE Fails("E_FAIL")
    BY <1>8, <2>1
  <2>2. ASSUME NEW st, st = IF requireValidation THEN Verdict(parts) ELSE "S_OK",
               result' = [container |-> Laid(parts, HashAndUpdate(st)), status |-> st],
               ret' = "S_OK",
               UNCHANGED <<parts, container, hashFunction, loading, before>>, Idle
        PROVE  LInv'
    <3>1. st \in {"S_OK", "DXC_E_MISSING_PART", "DXC_E_INCORRECT_ROOT_SIGNATURE"}
      BY <2>2, Verdicts
    <3>2. HashAndUpdate(st) \in Digests
      BY <1>4, <1>5 DEF HashAndUpdate
    <3>3. Laid(parts, HashAndUpdate(st)) \in Layouts
      BY <1>5, <3>2, LaidTyped
    <3>4. result' \in Returned
      BY <2>2, <3>1, <3>3 DEF Returned
    <3>5. Laid(parts, HashAndUpdate(st))' = Laid(parts, HashAndUpdate(st))
      BY <2>2 DEF HashAndUpdate
    <3>6. ResultLaid'
      <4>1. result'.status = st /\ result'.container = Laid(parts, HashAndUpdate(st))
        BY <2>2
      <4>2. (Laid(parts, HashAndUpdate(result.status)))' = Laid(parts, HashAndUpdate(st))
        BY <2>2, <4>1 DEF HashAndUpdate, Laid, ContainerSize, Offsets, Extent, MapThenSumSet, MapThenFoldSet
      <4>. QED  BY <2>2, <4>1, <4>2 DEF ResultLaid, Idle
    <3>7. DigestFollows'
      BY <1>1, <2>2 DEF DigestFollows
    <3>. QED  BY <1>4, <1>6, <2>2, <3>4, <3>6, <3>7
  <2>. QED  BY <1>16, <2>1, <2>2 DEF SerializeContainer
<1>17. CASE UNCHANGED vars
  <2>1. UNCHANGED <<parts, container, hashFunction, loading, before, result, ret>>
    BY <1>17 DEF vars
  <2>2. DigestFollows'
    BY <1>1, <2>1 DEF DigestFollows
  <2>3. ResultLaid'
    <3>1. (Laid(parts, HashAndUpdate(result.status)))' = Laid(parts, HashAndUpdate(result.status))
      BY <2>1 DEF HashAndUpdate, Laid, ContainerSize, Offsets, Extent, MapThenSumSet, MapThenFoldSet
    <3>. QED  BY <1>1, <2>1, <3>1 DEF ResultLaid
  <2>. QED  BY <1>4, <1>6, <2>1, <2>2, <2>3
<1>. QED  BY <1>9, <1>10, <1>11, <1>12, <1>13, <1>14, <1>15, <1>16, <1>17 DEF Next

LEMMA LaidInvariance == Spec => []LInv
BY InitLaid, StepLaid, PTL DEF Spec

\* A digest appears only on an accepted container and is that of the loaded one.
THEOREM DigestCorrect == Spec => []DigestEarned
<1>1. ASSUME LInv PROVE DigestEarned
  <2>. SUFFICES ASSUME result # None
       PROVE  /\ result.container.digest # "none" =>
                   /\ result.status = "S_OK"
                   /\ container # None /\ container.digest = result.container.digest
              /\ result.status = "S_OK" /\ container # None /\ before # None =>
                   result.container.digest = container.digest
    BY DEF DigestEarned
  <2>1. loading = 0 /\ result.container.digest = HashAndUpdate(result.status)
    BY <1>1 DEF LInv, ResultLaid, Laid
  <2>2. DigestFollows
    BY <1>1 DEF LInv
  <2>. QED  BY <2>1, <2>2 DEF DigestFollows, HashAndUpdate
<1>. QED  BY <1>1, LaidInvariance, PTL

\* Offsets of the parts behind parts of aligned sizes are aligned.
LEMMA PositionsAligned ==
  ASSUME NEW S, S \in {Part, Plain}, NEW ps \in Seq(S), NEW pos, Positions(pos, ps),
         \A k \in 1 .. Len(ps) : k < Len(ps) => SizeOf[ps[k].blob] % 4 = 0
  PROVE  \A k \in 1 .. Len(ps) : pos[k] % 4 = 0
<1>. DEFINE n == Len(ps)
            T == {j \in Nat : j + 1 <= n => pos[j + 1] % 4 = 0}
<1>1. n \in Nat
  BY LenProperties
<1>2. \A k \in 1 .. n : SizeOf[ps[k].blob] \in Nat
  <2>. TAKE k \in 1 .. n
  <2>1. ps[k] \in Part \/ ps[k] \in Plain
    BY ElementOfSeq
  <2>2. ps[k].blob \in Blobs
    BY <2>1 DEF Part, Plain
  <2>. QED  BY <2>2, BuilderAssumption
<1>3. /\ pos \in [1 .. n + 1 -> Nat] /\ pos[1] = TableEnd(n)
      /\ \A k \in 1 .. n : pos[k + 1] = pos[k] + Extent(ps, k)
  BY DEF Positions
<1>. HIDE DEF n
<1>4. 0 \in T
  <2>1. pos[1] = 32 + 4 * n
    BY <1>3 DEF TableEnd, HeaderSize, OffsetSize
  <2>2. (32 + 4 * n) % 4 = 0
    BY <1>1
  <2>. QED  BY <2>1, <2>2
<1>5. ASSUME NEW j \in Nat, j \in T PROVE j + 1 \in T
  <2>. SUFFICES ASSUME (j + 1) + 1 <= n PROVE pos[(j + 1) + 1] % 4 = 0
    OBVIOUS
  <2>1. j + 1 \in 1 .. n /\ j + 1 \in 1 .. n + 1 /\ j + 1 < n
    BY <1>1
  <2>2. PICK a \in Nat : a = pos[j + 1]
    BY <1>3, <2>1
  <2>3. PICK b \in Nat : b = SizeOf[ps[j + 1].blob]
    BY <1>2, <2>1
  <2>4. a % 4 = 0 /\ b % 4 = 0
    BY <1>5, <2>1, <2>2, <2>3 DEF n
  <2>5. pos[(j + 1) + 1] = a + (8 + b)
    BY <1>3, <2>1, <2>2, <2>3 DEF Extent, PartHeaderSize
  <2>6. (a + (8 + b)) % 4 = 0
    BY <2>4
  <2>. QED  BY <2>5, <2>6
<1>. HIDE DEF T
<1>6. Nat \subseteq T
  BY <1>4, <1>5, EveryNatural
<1>7. ASSUME NEW k \in 1 .. n PROVE pos[k] % 4 = 0
  <2>1. k - 1 \in Nat /\ (k - 1) + 1 = k /\ k <= n
    BY <1>1
  <2>2. k - 1 \in T
    BY <1>6, <2>1
  <2>. QED  BY <2>1, <2>2 DEF T
<1>. QED  BY <1>7 DEF n

\* Every container that SerializeContainer returns satisfies what
\* IsValidDxilContainer asks, whatever was loaded, added and removed before, and
\* its parts are aligned when the sizes of those in front are.
THEOREM LayoutCorrect == Spec => []OutputValid
<1>1. ASSUME LInv PROVE OutputValid
  <2>0. TypeOK /\ IInv /\ parts \in Seq(Part)
    BY <1>1 DEF LInv, TypeOK
  <2>. SUFFICES ASSUME result # None
       PROVE  LET c == result.container
              IN  /\ c.size <= MaxSize => IsValid(c)
                  /\ (\A k \in DOMAIN c.parts : c.parts[k].fourCC # PRIV => SizeOf[c.parts[k].blob] % 4 = 0)
                       => \A k \in DOMAIN c.offsets : c.offsets[k] % 4 = 0
    BY <2>0 DEF OutputValid
  <2>. DEFINE d == HashAndUpdate(result.status)
              c == Laid(parts, d)
  <2>1. result.container = c
    BY <1>1 DEF LInv, ResultLaid
  <2>. HIDE DEF d
  <2>2. c.size <= MaxSize => IsValid(c)
    BY <2>0, LaidValid
  <2>3. ASSUME \A k \in DOMAIN c.parts : c.parts[k].fourCC # PRIV => SizeOf[c.parts[k].blob] % 4 = 0,
               NEW k \in DOMAIN c.offsets
        PROVE  c.offsets[k] % 4 = 0
    <3>1. PICK pos : Positions(pos, parts) /\ c.offsets = [i \in 1 .. Len(parts) |-> pos[i]]
      <4>1. \E pos : /\ Positions(pos, parts)
                     /\ Laid(parts, d).size = pos[Len(parts) + 1]
                     /\ Laid(parts, d).offsets = [i \in 1 .. Len(parts) |-> pos[i]]
        BY <2>0, Part \in {Part, Plain}, LaidPositions
      <4>. QED  BY <4>1
    <3>2. k \in 1 .. Len(parts) /\ c.offsets[k] = pos[k]
      BY <2>3, <3>1
    <3>3. DOMAIN parts = 1 .. Len(parts) /\ Len(parts) \in Nat
      BY <2>0, LenProperties
    <3>4. /\ DOMAIN c.parts = 1 .. Len(parts)
          /\ \A i \in 1 .. Len(parts) : c.parts[i].fourCC = parts[i].fourCC /\ c.parts[i].blob = parts[i].blob
      BY <2>0, <3>3, LaidParts
    <3>. HIDE DEF c
    <3>5. ASSUME NEW i \in 1 .. Len(parts), i < Len(parts) PROVE SizeOf[parts[i].blob] % 4 = 0
      <4>1. CASE parts[i].fourCC # PRIV
        BY <2>3, <3>4, <4>1
      <4>2. CASE parts[i].fourCC = PRIV
        <5>1. hasPrivate
          BY <2>0, <3>3, <4>2 DEF IInv, PartsInOrder, HasPart
        <5>2. parts[Len(parts)].fourCC = PRIV
          BY <2>0, <5>1 DEF IInv, PartsInOrder, Last
        <5>3. Len(parts) \in DOMAIN parts
          BY <3>3, <3>5
        <5>4. i = Len(parts)
          BY <2>0, <3>3, <4>2, <5>2, <5>3 DEF IInv, PartsInOrder
        <5>. QED  BY <3>3, <3>5, <5>4
      <4>. QED  BY <4>1, <4>2
    <3>6. \A i \in 1 .. Len(parts) : pos[i] % 4 = 0
      BY <2>0, <3>1, <3>5, PositionsAligned
    <3>. QED  BY <3>2, <3>6
  <2>. QED  BY <2>1, <2>2, <2>3
<1>. QED  BY <1>1, LaidInvariance, PTL

-----------------------------------------------------------------------------
(* The builder implements PartTable.                                        *)

Unique(ps) == \A j, k \in DOMAIN ps : ps[j].fourCC = ps[k].fourCC => j = k

\* A table holds the blob of every part, and nothing else.
LEMMA TableFacts ==
  ASSUME NEW ps, Unique(ps)
  PROVE  /\ DOMAIN Table(ps) = FourCCs /\ Table(ps) = [f \in FourCCs |-> Table(ps)[f]]
         /\ \A f \in FourCCs : ~HasPart(ps, f) => Table(ps)[f] = None
         /\ \A f \in FourCCs : \A k \in DOMAIN ps : ps[k].fourCC = f => Table(ps)[f] = ps[k].blob
<1>1. /\ DOMAIN Table(ps) = FourCCs /\ Table(ps) = [f \in FourCCs |-> Table(ps)[f]]
      /\ \A f \in FourCCs : ~HasPart(ps, f) => Table(ps)[f] = None
  BY DEF Table, BlobOf
<1>2. ASSUME NEW f \in FourCCs, NEW k \in DOMAIN ps, ps[k].fourCC = f
      PROVE  Table(ps)[f] = ps[k].blob
  <2>. DEFINE i == CHOOSE j \in DOMAIN ps : ps[j].fourCC = f
  <2>1. HasPart(ps, f)
    BY <1>2 DEF HasPart
  <2>2. i \in DOMAIN ps /\ ps[i].fourCC = f
    BY <1>2
  <2>3. Table(ps)[f] = ps[i].blob
    BY <2>1 DEF Table, BlobOf
  <2>. HIDE DEF i
  <2>4. i = k
    BY <1>2, <2>2 DEF Unique
  <2>. QED  BY <2>3, <2>4
<1>. QED  BY <1>1, <1>2

\* The parts of ps with identifiers in F are parts of qs.
Within(ps, qs, F) ==
  \A j \in DOMAIN ps : ps[j].fourCC \in F =>
    \E k \in DOMAIN qs : qs[k].fourCC = ps[j].fourCC /\ qs[k].blob = ps[j].blob

\* Two lists with the same parts are the same table.
LEMMA TablesEqual ==
  ASSUME NEW ps, Unique(ps), NEW qs, Unique(qs), NEW F, F \subseteq FourCCs,
         Within(ps, qs, F), Within(qs, ps, F)
  PROVE  \A f \in F : Table(ps)[f] = Table(qs)[f]
<1>. TAKE f \in F
<1>1. f \in FourCCs
  OBVIOUS
<1>2. CASE HasPart(ps, f)
  <2>1. PICK j \in DOMAIN ps : ps[j].fourCC = f
    BY <1>2 DEF HasPart
  <2>2. PICK k \in DOMAIN qs : qs[k].fourCC = f /\ qs[k].blob = ps[j].blob
    BY <2>1 DEF Within
  <2>3. Table(ps)[f] = ps[j].blob
    BY <1>1, <2>1, TableFacts
  <2>4. Table(qs)[f] = qs[k].blob
    BY <1>1, <2>2, TableFacts
  <2>. QED  BY <2>2, <2>3, <2>4
<1>3. CASE ~HasPart(ps, f)
  <2>1. ~HasPart(qs, f)
    BY <1>3 DEF HasPart, Within
  <2>2. Table(ps)[f] = None
    BY <1>1, <1>3, TableFacts
  <2>3. Table(qs)[f] = None
    BY <1>1, <2>1, TableFacts
  <2>. QED  BY <2>2, <2>3
<1>. QED  BY <1>2, <1>3

\* AddPart keeps every part and adds the new one.
LEMMA AddedAll ==
  ASSUME IInv, NEW p \in Part, IsNew(p.fourCC), AddToList(p)
  PROVE  /\ \A j \in DOMAIN parts : \E k \in DOMAIN parts' : parts'[k] = parts[j]
         /\ \E k \in DOMAIN parts' : parts'[k] = p
<1>. DEFINE n == Len(parts)
<1>1. n \in Nat /\ DOMAIN parts = 1 .. n
  BY LenProperties DEF IInv, PartsTyped
<1>2. /\ parts' \in Seq(Part) /\ Len(parts') = n + 1
      /\ \/ /\ ~hasPrivate
            /\ parts'[n + 1] = p /\ \A j \in 1 .. n : parts'[j] = parts[j]
         \/ /\ hasPrivate /\ n > 0
            /\ parts'[n] = p /\ parts'[n + 1] = parts[n]
            /\ \A j \in 1 .. n - 1 : parts'[j] = parts[j]
  BY InsertedParts DEF AddToList, IInv
<1>3. DOMAIN parts' = 1 .. n + 1
  BY <1>1, <1>2, LenProperties
<1>. HIDE DEF n
<1>4. \A j \in DOMAIN parts : \E k \in DOMAIN parts' : parts'[k] = parts[j]
  <2>. TAKE j \in DOMAIN parts
  <2>1. j \in 1 .. n /\ j \in 1 .. n + 1 /\ n + 1 \in 1 .. n + 1 /\ (j \in 1 .. n - 1 \/ j = n)
    BY <1>1
  <2>. QED  BY <1>2, <1>3, <2>1
<1>5. \E k \in DOMAIN parts' : parts'[k] = p
  <2>1. n + 1 \in 1 .. n + 1 /\ (n > 0 => n \in 1 .. n + 1)
    BY <1>1
  <2>. QED  BY <1>2, <1>3, <2>1
<1>. QED  BY <1>4, <1>5

\* The list after a part is added, as a table.
LEMMA AddedTable ==
  ASSUME IInv, NEW p \in Part, IsNew(p.fourCC), AddToList(p)
  PROVE  Table(parts)[p.fourCC] = None
         /\ Table(parts') = [Table(parts) EXCEPT ![p.fourCC] = p.blob]
<1>. DEFINE f == p.fourCC
<1>1. f \in FourCCs
  BY DEF Part
<1>2. Unique(parts) /\ Unique(parts')
  BY AddKeepsOrder DEF IInv, PartsInOrder, Unique
<1>3. \A k \in DOMAIN parts' : parts'[k] = p \/ \E j \in DOMAIN parts : parts'[k] = parts[j]
  BY AddedElements DEF IInv
<1>4. /\ \A j \in DOMAIN parts : \E k \in DOMAIN parts' : parts'[k] = parts[j]
      /\ \E k \in DOMAIN parts' : parts'[k] = p
  BY AddedAll
<1>5. Table(parts)[f] = None
  BY <1>1, <1>2, TableFacts DEF IsNew
<1>6. Table(parts')[f] = p.blob
  BY <1>1, <1>2, <1>4, TableFacts
<1>7. \A g \in FourCCs \ {f} : Table(parts)[g] = Table(parts')[g]
  <2>1. FourCCs \ {f} \subseteq FourCCs
    OBVIOUS
  <2>2. Within(parts, parts', FourCCs \ {f})
    BY <1>4 DEF Within
  <2>3. Within(parts', parts, FourCCs \ {f})
    BY <1>3 DEF Within
  <2>. QED  BY <1>2, <2>1, <2>2, <2>3, TablesEqual
<1>8. /\ Table(parts) = [g \in FourCCs |-> Table(parts)[g]]
      /\ Table(parts') = [g \in FourCCs |-> Table(parts')[g]]
  BY <1>2, TableFacts
<1>. QED  BY <1>1, <1>5, <1>6, <1>7, <1>8

\* The list after a part is removed, as a table.
LEMMA RemovedTable ==
  ASSUME IInv, IInv', NEW k \in DOMAIN parts, parts' = RemoveAt(parts, k)
  PROVE  Table(parts') = [Table(parts) EXCEPT ![parts[k].fourCC] = None]
<1>. DEFINE n == Len(parts)
            f == parts[k].fourCC
<1>1. n \in Nat /\ DOMAIN parts = 1 .. n /\ parts \in Seq(Part)
  BY LenProperties DEF IInv, PartsTyped
<1>2. /\ parts' \in Seq(Part) /\ Len(parts') = n - 1
      /\ \A j \in 1 .. n - 1 : parts'[j] = IF j < k THEN parts[j] ELSE parts[j + 1]
  BY <1>1, RemoveClosesGap
<1>3. DOMAIN parts' = 1 .. n - 1
  BY <1>2, LenProperties
<1>4. f \in FourCCs
  <2>1. parts[k] \in Part
    BY <1>1, ElementOfSeq
  <2>. QED  BY <2>1 DEF Part
<1>5. Unique(parts) /\ Unique(parts')
  BY DEF IInv, PartsInOrder, Unique
<1>. HIDE DEF n
<1>6. \A i \in DOMAIN parts' : \E j \in DOMAIN parts : j # k /\ parts'[i] = parts[j]
  <2>. TAKE i \in DOMAIN parts'
  <2>1. i \in 1 .. n - 1 /\ i \in 1 .. n /\ i + 1 \in 1 .. n /\ (i < k => i # k)
        /\ (~(i < k) => i + 1 # k)
    BY <1>1, <1>3
  <2>. QED  BY <1>1, <1>2, <2>1
<1>7. \A j \in DOMAIN parts : j # k => \E i \in DOMAIN parts' : parts'[i] = parts[j]
  <2>. SUFFICES ASSUME NEW j \in DOMAIN parts, j # k PROVE \E i \in DOMAIN parts' : parts'[i] = parts[j]
    OBVIOUS
  <2>1. CASE j < k
    <3>1. j \in 1 .. n - 1
      BY <1>1, <2>1
    <3>. QED  BY <1>2, <1>3, <2>1, <3>1
  <2>2. CASE j > k
    <3>1. j - 1 \in 1 .. n - 1 /\ ~(j - 1 < k) /\ (j - 1) + 1 = j
      BY <1>1, <2>2
    <3>. QED  BY <1>2, <1>3, <3>1
  <2>. QED  BY <1>1, <2>1, <2>2
<1>8. \A j \in DOMAIN parts : parts[j].fourCC = f => j = k
  BY <1>5 DEF Unique
<1>. HIDE DEF f
<1>9. Table(parts')[f] = None
  <2>1. ~HasPart(parts', f)
    BY <1>6, <1>8 DEF HasPart
  <2>. QED  BY <1>4, <1>5, <2>1, TableFacts
<1>10. \A g \in FourCCs \ {f} : Table(parts)[g] = Table(parts')[g]
  <2>1. FourCCs \ {f} \subseteq FourCCs
    OBVIOUS
  <2>2. Within(parts, parts', FourCCs \ {f})
    BY <1>7 DEF Within, f
  <2>3. Within(parts', parts, FourCCs \ {f})
    BY <1>6 DEF Within
  <2>. QED  BY <1>5, <2>1, <2>2, <2>3, TablesEqual
<1>11. /\ Table(parts) = [g \in FourCCs |-> Table(parts)[g]]
       /\ Table(parts') = [g \in FourCCs |-> Table(parts')[g]]
  BY <1>5, TableFacts
<1>12. Table(parts') = [Table(parts) EXCEPT ![f] = None]
  BY <1>4, <1>9, <1>10, <1>11
<1>. QED  BY <1>12 DEF f

\* What SerializeContainer lays out is the table of the parts.
LEMMA LaidTable ==
  ASSUME IInv, NEW d
  PROVE  Table(Laid(parts, d).parts) = Table(parts)
<1>. DEFINE q == Laid(parts, d).parts
<1>1. /\ DOMAIN q = DOMAIN parts
      /\ \A k \in DOMAIN parts : q[k].fourCC = parts[k].fourCC /\ q[k].blob = parts[k].blob
  BY LaidParts DEF IInv, PartsTyped
<1>. HIDE DEF q
<1>2. Unique(parts)
  BY DEF IInv, PartsInOrder, Unique
<1>3. Unique(q)
  BY <1>1, <1>2 DEF Unique
<1>4. \A f \in FourCCs : Table(q)[f] = Table(parts)[f]
  <2>1. Within(q, parts, FourCCs) /\ Within(parts, q, FourCCs)
    BY <1>1 DEF Within
  <2>. QED  BY <1>2, <1>3, <2>1, TablesEqual
<1>5. /\ Table(parts) = [g \in FourCCs |-> Table(parts)[g]]
      /\ Table(q) = [g \in FourCCs |-> Table(q)[g]]
  BY <1>2, <1>3, TableFacts
<1>6. Table(q) = Table(parts)
  BY <1>4, <1>5
<1>. QED  BY <1>6 DEF q

Delivered == IF result = None THEN None ELSE Table(result.container.parts)

\* What a step does to the table and to what was delivered.
TableStep ==
  \/ Delivered' = None /\ Table(parts') = Table(parts)
  \/ Delivered' = Table(parts) /\ Table(parts') = Table(parts)
  \/ Delivered' = Delivered /\ Table(parts') = Table(parts)
  \/ Delivered' = None /\ Table(parts') = Abstract!Empty
  \/ /\ Delivered' = None
     /\ \E f \in FourCCs, b \in Blobs :
          /\ Table(parts)[f] = None
          /\ Table(parts') = [Table(parts) EXCEPT ![f] = b]
  \/ /\ Delivered' = None
     /\ \E f \in FourCCs :
          /\ Table(parts)[f] # None
          /\ Table(parts') = [Table(parts) EXCEPT ![f] = None]

LEMMA PrimedTable == (Table(parts))' = Table(parts')
BY DEF Table, BlobOf, HasPart

LEMMA EmptyTable == Table(<<>>) = Abstract!Empty
<1>1. \A f : ~HasPart(<<>>, f)
  BY DEF HasPart
<1>. QED  BY <1>1 DEF Table, BlobOf, Abstract!Empty

LEMMA TableStepIs ==
  ASSUME DOMAIN Table(parts) = FourCCs, TableStep
  PROVE  [Abstract!Next]_(<<Table(parts), Delivered>>)
<1>1. CASE Delivered' = None /\ Table(parts') = Table(parts)
  BY <1>1, PrimedTable DEF Abstract!Next, Abstract!Refuse, Delivered
<1>2. CASE Delivered' = Table(parts) /\ Table(parts') = Table(parts)
  BY <1>2, PrimedTable DEF Abstract!Next, Abstract!Build, Delivered
<1>3. CASE Delivered' = Delivered /\ Table(parts') = Table(parts)
  BY <1>3, PrimedTable DEF Delivered
<1>4. CASE Delivered' = None /\ Table(parts') = Abstract!Empty
  BY <1>4, PrimedTable DEF Abstract!Next, Abstract!Renew, Delivered
<1>5. CASE /\ Delivered' = None
           /\ \E f \in FourCCs, b \in Blobs :
                /\ Table(parts)[f] = None
                /\ Table(parts') = [Table(parts) EXCEPT ![f] = b]
  <2>1. PICK f \in FourCCs, b \in Blobs :
                /\ Table(parts)[f] = None
                /\ Table(parts') = [Table(parts) EXCEPT ![f] = b]
    BY <1>5
  <2>2. Table(parts')[f] = b
    BY <2>1
  <2>3. Abstract!Put
    BY <1>5, <2>1, <2>2, PrimedTable DEF Abstract!Put, Delivered
  <2>. QED  BY <2>3 DEF Abstract!Next
<1>6. CASE /\ Delivered' = None
           /\ \E f \in FourCCs :
                /\ Table(parts)[f] # None
                /\ Table(parts') = [Table(parts) EXCEPT ![f] = None]
  BY <1>6, PrimedTable DEF Abstract!Next, Abstract!Drop, Delivered
<1>. QED  BY <1>1, <1>2, <1>3, <1>4, <1>5, <1>6 DEF TableStep

LEMMA NextTable ==
  ASSUME LInv, [Next]_vars PROVE TableStep
<1>0. IInv /\ IInv' /\ (loading # 0 => result = None)
  BY StepOrder DEF LInv, ResultLaid
<1>1. parts \in Seq(Part) /\ DOMAIN parts = 1 .. Len(parts)
  BY <1>0, LenProperties DEF IInv, PartsTyped
<1>2. ASSUME NEW hr, Fails(hr) PROVE TableStep
  BY <1>2 DEF Fails, TableStep, Delivered
<1>3. ASSUME NEW p \in Part, IsNew(p.fourCC), AddToList(p), Delivered' = None PROVE TableStep
  <2>1. p.fourCC \in FourCCs /\ p.blob \in Blobs
    BY DEF Part
  <2>2. Table(parts)[p.fourCC] = None
        /\ Table(parts') = [Table(parts) EXCEPT ![p.fourCC] = p.blob]
    BY <1>0, <1>3, AddedTable
  <2>. QED  BY <1>3, <2>1, <2>2 DEF TableStep
<1>4. CASE Renew \/ Reload
  <2>1. parts' = <<>> /\ Delivered' = None
    BY <1>4 DEF Renew, Reload, Delivered
  <2>. QED  BY <2>1, EmptyTable DEF TableStep
<1>5. CASE Load
  <2>1. CASE UNCHANGED parts /\ result' = None
    BY <2>1 DEF TableStep, Delivered
  <2>. QED  BY <1>2, <1>5, <2>1 DEF Load
<1>6. CASE LoadPart
  <2>1. /\ Delivered' = None /\ loading \in DOMAIN container.parts
        /\ loading # 0
    BY <1>0, <1>6 DEF LoadPart, Delivered, Idle
  <2>2. container.parts[loading] \in Plain
    BY <1>0, <2>1, LenProperties, ElementOfSeq DEF IInv, PartsTyped
  <2>. DEFINE q == container.parts[loading]
              p == [fourCC |-> q.fourCC, blob |-> q.blob, pinned |-> TRUE]
  <2>3. p \in Part /\ p.fourCC = q.fourCC
    BY <2>2 DEF Plain, Part
  <2>4. CASE UNCHANGED parts
    BY <2>1, <2>4 DEF TableStep
  <2>5. CASE IsNew(q.fourCC) /\ AddToList(p)
    <3>. HIDE DEF p
    <3>. QED  BY <1>3, <2>1, <2>3, <2>5
  <2>. QED  BY <1>6, <2>4, <2>5 DEF LoadPart, LoadFails
<1>7. CASE LoadDone \/ UNCHANGED vars
  <2>1. UNCHANGED <<parts, result>>
    BY <1>7 DEF LoadDone, vars
  <2>. QED  BY <2>1 DEF TableStep, Delivered
<1>8. CASE AddPart
  <2>1. CASE \E hr : Fails(hr)
    BY <1>2, <2>1
  <2>2. CASE \E f \in FourCCs, b \in Blobs \cup {None} :
               /\ b # None /\ IsNew(f) /\ AddToList([fourCC |-> f, blob |-> b, pinned |-> FALSE])
               /\ result' = None
    <3>1. PICK f \in FourCCs, b \in Blobs \cup {None} :
               /\ b # None /\ IsNew(f) /\ AddToList([fourCC |-> f, blob |-> b, pinned |-> FALSE])
               /\ result' = None
      BY <2>2
    <3>. DEFINE p == [fourCC |-> f, blob |-> b, pinned |-> FALSE]
    <3>2. p \in Part /\ p.fourCC = f /\ AddToList(p) /\ Delivered' = None
      BY <3>1 DEF Part, Delivered
    <3>. HIDE DEF p
    <3>. QED  BY <1>3, <3>1, <3>2
  <2>. QED  BY <1>8, <2>1, <2>2 DEF AddPart
<1>9. CASE RemovePart
  <2>1. CASE \E hr : Fails(hr)
    BY <1>2, <2>1
  <2>2. CASE \E k \in DOMAIN parts : parts' = RemoveAt(parts, k) /\ result' = None
    <3>1. PICK k \in DOMAIN parts : parts' = RemoveAt(parts, k) /\ result' = None
      BY <2>2
    <3>2. parts[k] \in Part
      BY <1>1, ElementOfSeq
    <3>3. parts[k].fourCC \in FourCCs /\ parts[k].blob \in Blobs /\ None \notin Blobs
      BY <3>2, BuilderAssumption DEF Part
    <3>4. Table(parts)[parts[k].fourCC] = parts[k].blob
      BY <1>0, <3>3, TableFacts DEF IInv, PartsInOrder, Unique
    <3>5. Table(parts') = [Table(parts) EXCEPT ![parts[k].fourCC] = None]
      BY <1>0, <3>1, RemovedTable
    <3>6. Delivered' = None
      BY <3>1 DEF Delivered
    <3>7. Table(parts)[parts[k].fourCC] # None
      BY <3>3, <3>4
    <3>. QED  BY <3>3, <3>5, <3>6, <3>7 DEF TableStep
  <2>. QED  BY <1>9, <2>1, <2>2 DEF RemovePart
<1>10. CASE SerializeContainer
  <2>1. CASE Fails("E_FAIL")
    BY <1>2, <2>1
  <2>2. ASSUME NEW d, NEW st, result' = [container |-> Laid(parts, d), status |-> st], parts' = parts
        PROVE  TableStep
    <3>1. Table(Laid(parts, d).parts) = Table(parts)
      BY <1>0, LaidTable
    <3>2. result'.container = Laid(parts, d)
      BY <2>2
    <3>3. Delivered' = None \/ Delivered' = Table(parts)
      BY <3>1, <3>2 DEF Delivered
    <3>. QED  BY <2>2, <3>3 DEF TableStep
  <2>. QED  BY <1>10, <2>1, <2>2 DEF SerializeContainer
<1>. QED
  BY <1>4, <1>5, <1>6, <1>7, <1>8, <1>9, <1>10 DEF Next

\* The builder implements PartTable: a call adds or takes out one part or changes
\* nothing, and what is built holds exactly the parts of the list.
THEOREM ImplementsTable == Spec => Implements
<1>1. Init => Abstract!Init
  BY EmptyTable DEF Init, NewBuilder, Abstract!Init
<1>2. LInv /\ [Next]_vars => [Abstract!Next]_(<<Table(parts), Delivered>>)
  <2>. SUFFICES ASSUME LInv, [Next]_vars PROVE [Abstract!Next]_(<<Table(parts), Delivered>>)
    OBVIOUS
  <2>1. DOMAIN Table(parts) = FourCCs
    BY DEF Table
  <2>. QED  BY <2>1, NextTable, TableStepIs
<1>. QED  BY <1>1, <1>2, LaidInvariance, PTL DEF Spec, Implements, Abstract!Spec, Delivered

-----------------------------------------------------------------------------
(* The public parts of a list.                                              *)

PublicFn(f, ps) ==
  f = [k \in 0 .. Len(ps) |->
         IF k = 0 THEN <<>>
         ELSE IF ps[k].fourCC = PRIV THEN f[k - 1] ELSE Append(f[k - 1], Bare(ps[k]))]

LEMMA PublicIs ==
  ASSUME NEW ps
  PROVE  Public(ps) = (CHOOSE f : PublicFn(f, ps))[Len(ps)]
BY DEF Public, PublicFn

\* f holds the public parts of every prefix of ps.
PublicPrefixes(f, ps) ==
  /\ f[0] = <<>>
  /\ \A k \in 1 .. Len(ps) :
       f[k] = IF ps[k].fourCC = PRIV THEN f[k - 1] ELSE Append(f[k - 1], Bare(ps[k]))

LEMMA PublicPrefixesExist ==
  ASSUME NEW ps, Len(ps) \in Nat
  PROVE  \E f : PublicPrefixes(f, ps) /\ Public(ps) = f[Len(ps)]
<1>. DEFINE n == Len(ps)
            Next1(a, k) == IF ps[k].fourCC = PRIV THEN a ELSE Append(a, Bare(ps[k]))
            Upto(f, m) == f[0] = <<>> /\ \A k \in 1 .. m : f[k] = Next1(f[k - 1], k)
            T == {m \in Nat : \E f : Upto(f, m)}
<1>1. 0 \in T
  <2>1. Upto([k \in {0} |-> <<>>], 0)
    OBVIOUS
  <2>. QED  BY <2>1
<1>2. ASSUME NEW m \in Nat, m \in T PROVE m + 1 \in T
  <2>1. PICK f : Upto(f, m)
    BY <1>2
  <2>. DEFINE g == [k \in 0 .. m + 1 |-> IF k = m + 1 THEN Next1(f[m], m + 1) ELSE f[k]]
  <2>. HIDE DEF Next1
  <2>2. g[0] = <<>>
    BY <2>1
  <2>3. ASSUME NEW k \in 1 .. m + 1 PROVE g[k] = Next1(g[k - 1], k)
    <3>1. k - 1 \in 0 .. m + 1 /\ k \in 0 .. m + 1 /\ k - 1 # m + 1 /\ g[k - 1] = f[k - 1]
      OBVIOUS
    <3>2. CASE k = m + 1
      <4>1. k - 1 = m
        BY <3>2
      <4>. QED  BY <3>1, <3>2, <4>1
    <3>3. CASE k # m + 1
      <4>1. k \in 1 .. m
        BY <3>3
      <4>. QED  BY <2>1, <3>1, <3>3, <4>1
    <3>. QED  BY <3>2, <3>3
  <2>. HIDE DEF g
  <2>4. Upto(g, m + 1)
    BY <2>2, <2>3
  <2>. QED  BY <2>4
<1>. HIDE DEF T
<1>3. n \in T
  BY <1>1, <1>2, EveryNatural
<1>4. PICK f : Upto(f, n)
  BY <1>3 DEF T
<1>. DEFINE g == [k \in 0 .. n |-> f[k]]
<1>5. PublicFn(g, ps)
  <2>. DEFINE h == [k \in 0 .. n |->
                      IF k = 0 THEN <<>>
                      ELSE IF ps[k].fourCC = PRIV THEN g[k - 1] ELSE Append(g[k - 1], Bare(ps[k]))]
  <2>1. ASSUME NEW k \in 0 .. n PROVE g[k] = h[k]
    <3>1. CASE k = 0
      BY <1>4, <3>1
    <3>2. CASE k # 0
      <4>1. k \in 1 .. n /\ k - 1 \in 0 .. n
        BY <3>2
      <4>. QED  BY <1>4, <3>2, <4>1
    <3>. QED  BY <3>1, <3>2
  <2>2. g = h
    BY <2>1
  <2>. QED  BY <2>2 DEF PublicFn
<1>6. PICK c : PublicFn(c, ps) /\ Public(ps) = c[n]
  <2>1. PublicFn(CHOOSE c : PublicFn(c, ps), ps)
    BY <1>5
  <2>. QED  BY <2>1, PublicIs
<1>7. PublicPrefixes(c, ps)
  <2>1. \A k \in 0 .. n : c[k] =
           IF k = 0 THEN <<>>
           ELSE IF ps[k].fourCC = PRIV THEN c[k - 1] ELSE Append(c[k - 1], Bare(ps[k]))
    BY <1>6 DEF PublicFn
  <2>2. 0 \in 0 .. n /\ \A k \in 1 .. n : k \in 0 .. n /\ k # 0
    OBVIOUS
  <2>. HIDE DEF n
  <2>3. c[0] = <<>>
    BY <2>1, <2>2
  <2>4. \A k \in 1 .. n : c[k] = IF ps[k].fourCC = PRIV THEN c[k - 1] ELSE Append(c[k - 1], Bare(ps[k]))
    BY <2>1, <2>2
  <2>. QED  BY <2>3, <2>4 DEF PublicPrefixes, n
<1>. QED  BY <1>6, <1>7

\* qs begins with ps.
BeginsWith(qs, ps) == Len(ps) <= Len(qs) /\ \A k \in 1 .. Len(ps) : qs[k] = ps[k]

\* What is public in a list follows from what is in a prefix of it.
LEMMA PrefixesAgree ==
  ASSUME NEW ps, NEW qs, Len(ps) \in Nat, Len(qs) \in Nat, BeginsWith(qs, ps),
         NEW f, PublicPrefixes(f, ps), NEW g, PublicPrefixes(g, qs)
  PROVE  \A k \in 0 .. Len(ps) : f[k] = g[k]
<1>. DEFINE T == {k \in Nat : k <= Len(ps) => f[k] = g[k]}
<1>1. 0 \in T
  BY DEF PublicPrefixes
<1>2. ASSUME NEW k \in Nat, k \in T PROVE k + 1 \in T
  <2>. SUFFICES ASSUME k + 1 <= Len(ps) PROVE f[k + 1] = g[k + 1]
    OBVIOUS
  <2>1. /\ k + 1 \in 1 .. Len(ps) /\ k + 1 \in 1 .. Len(qs) /\ (k + 1) - 1 = k /\ k <= Len(ps)
    BY DEF BeginsWith
  <2>2. f[k] = g[k] /\ ps[k + 1] = qs[k + 1]
    BY <1>2, <2>1 DEF BeginsWith
  <2>3. /\ f[k + 1] = IF ps[k + 1].fourCC = PRIV THEN f[(k + 1) - 1] ELSE Append(f[(k + 1) - 1], Bare(ps[k + 1]))
        /\ g[k + 1] = IF qs[k + 1].fourCC = PRIV THEN g[(k + 1) - 1] ELSE Append(g[(k + 1) - 1], Bare(qs[k + 1]))
    BY <2>1, Zenon DEF PublicPrefixes
  <2>. QED  BY <2>1, <2>2, <2>3, Zenon
<1>. HIDE DEF T
<1>3. Nat \subseteq T
  BY <1>1, <1>2, EveryNatural
<1>. QED  BY <1>3 DEF T

\* One more part at the end.
LEMMA PublicLonger ==
  ASSUME NEW ps, NEW qs, Len(ps) \in Nat, Len(qs) = Len(ps) + 1, BeginsWith(qs, ps)
  PROVE  Public(qs) = IF qs[Len(qs)].fourCC = PRIV THEN Public(ps)
                      ELSE Append(Public(ps), Bare(qs[Len(qs)]))
<1>. DEFINE n == Len(ps)
<1>1. Len(qs) \in Nat /\ n + 1 \in 1 .. Len(qs) /\ (n + 1) - 1 = n /\ n \in 0 .. n /\ Len(qs) = n + 1
  OBVIOUS
<1>2. PICK f : PublicPrefixes(f, ps) /\ Public(ps) = f[n]
  BY PublicPrefixesExist
<1>3. PICK g : PublicPrefixes(g, qs) /\ Public(qs) = g[Len(qs)]
  BY <1>1, PublicPrefixesExist
<1>. HIDE DEF n
<1>4. \A k \in 0 .. Len(ps) : f[k] = g[k]
  BY <1>1, <1>2, <1>3, PrefixesAgree
<1>5. f[n] = g[n]
  BY <1>1, <1>4 DEF n
<1>6. g[n + 1] = IF qs[n + 1].fourCC = PRIV THEN g[(n + 1) - 1] ELSE Append(g[(n + 1) - 1], Bare(qs[n + 1]))
  BY <1>1, <1>3, Zenon DEF PublicPrefixes
<1>. QED  BY <1>1, <1>2, <1>3, <1>5, <1>6, Zenon

LEMMA PublicEmpty == ASSUME NEW ps, Len(ps) = 0 PROVE Public(ps) = <<>>
<1>1. PICK f : PublicPrefixes(f, ps) /\ Public(ps) = f[Len(ps)]
  BY PublicPrefixesExist
<1>. QED  BY <1>1 DEF PublicPrefixes

\* In a list that has private data only at its end, the public parts are what
\* is in front of that.
LEMMA PublicFront ==
  ASSUME NEW S, S \in {Part, Plain}, NEW ps \in Seq(S), NEW m \in 0 .. Len(ps),
         \A k \in 1 .. m : ps[k].fourCC # PRIV,
         \A k \in m + 1 .. Len(ps) : ps[k].fourCC = PRIV
  PROVE  /\ Public(ps) \in Seq(Plain) /\ Len(Public(ps)) = m
         /\ \A k \in 1 .. m : Public(ps)[k] = Bare(ps[k])
<1>. DEFINE n == Len(ps)
            Holds(a, k) == /\ a \in Seq(Plain) /\ Len(a) = k
                           /\ \A j \in 1 .. k : a[j] = Bare(ps[j])
<1>1. n \in Nat /\ \A k \in 1 .. n : ps[k] \in S
  BY LenProperties, ElementOfSeq
<1>2. \A k \in 1 .. n : Bare(ps[k]) \in Plain
  BY <1>1 DEF Part, Plain, Bare
<1>3. PICK f : PublicPrefixes(f, ps) /\ Public(ps) = f[n]
  BY <1>1, PublicPrefixesExist
<1>4. f[0] = <<>> /\ \A k \in 1 .. n :
        f[k] = IF ps[k].fourCC = PRIV THEN f[k - 1] ELSE Append(f[k - 1], Bare(ps[k]))
  BY <1>3 DEF PublicPrefixes
<1>. DEFINE T == {k \in Nat : k <= m => Holds(f[k], k)}
<1>5. 0 \in T
  <2>1. <<>> \in Seq(Plain) /\ Len(<<>>) = 0 /\ 1 .. 0 = {}
    BY EmptySeq
  <2>2. Holds(f[0], 0)
    BY <1>4, <2>1, Zenon
  <2>. QED  BY <2>2
<1>6. ASSUME NEW k \in Nat, k \in T PROVE k + 1 \in T
  <2>. SUFFICES ASSUME k + 1 <= m PROVE Holds(f[k + 1], k + 1)
    OBVIOUS
  <2>1. k + 1 \in 1 .. n /\ k + 1 \in 1 .. m /\ (k + 1) - 1 = k /\ k <= m
    BY <1>1
  <2>2. Holds(f[k], k)
    BY <1>6, <2>1
  <2>3. f[k + 1] = Append(f[k], Bare(ps[k + 1]))
    BY <1>4, <2>1
  <2>. DEFINE e == Bare(ps[k + 1])
  <2>4. e \in Plain
    BY <1>2, <2>1
  <2>. HIDE DEF e
  <2>5. PICK a \in Seq(Plain) : a = f[k]
    BY <2>2
  <2>6. /\ Append(a, e) \in Seq(Plain) /\ Len(Append(a, e)) = Len(a) + 1
        /\ \A j \in 1 .. Len(a) : Append(a, e)[j] = a[j]
        /\ Append(a, e)[Len(a) + 1] = e
    BY <2>4, AppendProperties
  <2>7. Len(a) = k /\ \A j \in 1 .. k : a[j] = Bare(ps[j])
    BY <2>2, <2>5
  <2>8. f[k + 1] = Append(a, e)
    BY <2>3, <2>5 DEF e
  <2>9. ASSUME NEW j \in 1 .. k + 1 PROVE f[k + 1][j] = Bare(ps[j])
    <3>1. j \in 1 .. k \/ j = k + 1
      OBVIOUS
    <3>. QED  BY <2>6, <2>7, <2>8, <3>1 DEF e
  <2>. QED  BY <2>6, <2>7, <2>8, <2>9
<1>. HIDE DEF T
<1>7. Nat \subseteq T
  BY <1>5, <1>6, EveryNatural
<1>8. Holds(f[m], m)
  BY <1>7 DEF T
<1>. DEFINE U == {k \in Nat : m + k <= n => f[m + k] = f[m]}
<1>9. 0 \in U
  OBVIOUS
<1>10. ASSUME NEW k \in Nat, k \in U PROVE k + 1 \in U
  <2>. SUFFICES ASSUME m + (k + 1) <= n PROVE f[m + (k + 1)] = f[m]
    OBVIOUS
  <2>. DEFINE i == m + (k + 1)
  <2>1. i \in 1 .. n /\ i \in m + 1 .. n /\ i - 1 = m + k /\ m + k <= n
    BY <1>1
  <2>2. ps[i].fourCC = PRIV
    BY <2>1
  <2>3. f[i] = f[i - 1]
    BY <1>4, <2>1, <2>2
  <2>. QED  BY <1>10, <2>1, <2>3
<1>. HIDE DEF U
<1>11. Nat \subseteq U
  BY <1>9, <1>10, EveryNatural
<1>12. n - m \in U /\ n - m \in Nat /\ m + (n - m) = n
  BY <1>1, <1>11
<1>13. f[n] = f[m]
  BY <1>12 DEF U
<1>. QED  BY <1>3, <1>8, <1>13

\* The part that AddPart adds is the last public one, unless it is private.
LEMMA PublicAdded ==
  ASSUME IInv, NEW p \in Part, IsNew(p.fourCC), AddToList(p)
  PROVE  Public(parts') = IF p.fourCC = PRIV THEN Public(parts) ELSE Append(Public(parts), Bare(p))
<1>. DEFINE n == Len(parts)
<1>1. n \in Nat /\ DOMAIN parts = 1 .. n /\ parts \in Seq(Part)
  BY LenProperties DEF IInv, PartsTyped
<1>2. /\ parts' \in Seq(Part) /\ Len(parts') = n + 1
      /\ \/ /\ ~hasPrivate
            /\ parts'[n + 1] = p /\ \A j \in 1 .. n : parts'[j] = parts[j]
         \/ /\ hasPrivate /\ n > 0
            /\ parts'[n] = p /\ parts'[n + 1] = parts[n]
            /\ \A j \in 1 .. n - 1 : parts'[j] = parts[j]
  BY InsertedParts DEF AddToList, IInv
<1>3. CASE ~hasPrivate
  <2>1. parts'[n + 1] = p /\ \A j \in 1 .. n : parts'[j] = parts[j]
    BY <1>2, <1>3
  <2>2. BeginsWith(parts', parts)
    BY <1>1, <1>2, <2>1 DEF BeginsWith
  <2>. HIDE DEF n
  <2>3. Len(parts) \in Nat /\ Len(parts') = Len(parts) + 1 /\ parts'[Len(parts')] = p
    BY <1>1, <1>2, <2>1 DEF n
  <2>. QED  BY <2>2, <2>3, PublicLonger
<1>4. CASE hasPrivate
  <2>1. /\ n > 0 /\ parts'[n] = p /\ parts'[n + 1] = parts[n]
        /\ \A j \in 1 .. n - 1 : parts'[j] = parts[j]
    BY <1>2, <1>4
  <2>2. parts[n].fourCC = PRIV /\ p.fourCC # PRIV
    BY <1>4, <1>1, <2>1 DEF IInv, PartsInOrder, Last, IsNew, HasPart
  <2>3. PICK ms \in Seq(Part) : Len(ms) = n - 1 /\ \A j \in 1 .. n - 1 : ms[j] = parts[j]
    <3>1. \A j \in 1 .. n - 1 : parts[j] \in Part
      BY <1>1, ElementOfSeq
    <3>2. n - 1 \in Int /\ 1 \in Int /\ n - 1 >= 0
      BY <1>1, <2>1
    <3>. DEFINE a == SubSeq(parts, 1, n - 1)
    <3>3. /\ a \in Seq(Part) /\ Len(a) = IF 1 <= n - 1 THEN n - 1 - 1 + 1 ELSE 0
          /\ \A j \in 1 .. n - 1 - 1 + 1 : a[j] = parts[1 + j - 1]
      BY <3>1, <3>2, SubSeqProperties
    <3>. HIDE DEF a, n
    <3>4. Len(a) = n - 1 /\ \A j \in 1 .. n - 1 : a[j] = parts[j]
      BY <3>2, <3>3
    <3>. QED  BY <3>3, <3>4
  <2>. DEFINE qs == Append(ms, p)
  <2>4. /\ qs \in Seq(Part) /\ Len(qs) = Len(ms) + 1
        /\ \A j \in 1 .. Len(ms) : qs[j] = ms[j]
        /\ qs[Len(ms) + 1] = p
    BY <2>3, AppendProperties
  <2>. HIDE DEF qs, n
  <2>5. Len(ms) \in Nat /\ Len(ms) + 1 = n /\ Len(qs) = n
    BY <1>1, <2>1, <2>3, <2>4
  <2>6. BeginsWith(parts, ms) /\ Len(parts) = Len(ms) + 1 /\ parts[Len(parts)].fourCC = PRIV
    BY <1>1, <2>2, <2>3, <2>5 DEF BeginsWith, n
  <2>7. BeginsWith(qs, ms) /\ qs[Len(qs)] = p
    BY <2>4, <2>5 DEF BeginsWith
  <2>8. \A j \in 1 .. n : j \in 1 .. n - 1 \/ j = n
    BY <1>1
  <2>9. BeginsWith(parts', qs)
    BY <1>1, <1>2, <2>1, <2>3, <2>4, <2>5, <2>8 DEF BeginsWith
  <2>10. Len(qs) \in Nat /\ Len(parts') = Len(qs) + 1 /\ parts'[Len(parts')].fourCC = PRIV
    BY <1>1, <1>2, <2>1, <2>2, <2>5
  <2>11. Public(parts) = Public(ms)
    BY <2>5, <2>6, PublicLonger
  <2>12. Public(qs) = Append(Public(ms), Bare(p))
    BY <2>2, <2>4, <2>5, <2>7, PublicLonger
  <2>13. Public(parts') = Public(qs)
    BY <2>9, <2>10, PublicLonger
  <2>. QED  BY <2>2, <2>11, <2>12, <2>13
<1>. QED  BY <1>3, <1>4

\* How many parts are in front of the private data.
Publics == IF hasPrivate THEN Len(parts) - 1 ELSE Len(parts)

LEMMA PublicOfList ==
  ASSUME IInv
  PROVE  /\ Publics \in 0 .. Len(parts)
         /\ Public(parts) \in Seq(Plain) /\ Len(Public(parts)) = Publics
         /\ \A k \in 1 .. Publics : Public(parts)[k] = Bare(parts[k])
<1>. DEFINE n == Len(parts)
<1>1. n \in Nat /\ DOMAIN parts = 1 .. n /\ parts \in Seq(Part)
  BY LenProperties DEF IInv, PartsTyped
<1>2. /\ \A j, k \in 1 .. n : parts[j].fourCC = parts[k].fourCC => j = k
      /\ hasPrivate <=> \E k \in 1 .. n : parts[k].fourCC = PRIV
      /\ hasPrivate => parts[n].fourCC = PRIV
  BY <1>1 DEF IInv, PartsInOrder, HasPart, Last
<1>3. hasPrivate => n \in 1 .. n
  BY <1>1, <1>2
<1>. HIDE DEF n
<1>4. Publics = (IF hasPrivate THEN n - 1 ELSE n) /\ Publics \in 0 .. n
  BY <1>1, <1>3 DEF Publics, n
<1>5. \A k \in 1 .. Publics : parts[k].fourCC # PRIV
  <2>. SUFFICES ASSUME NEW k \in 1 .. Publics, parts[k].fourCC = PRIV PROVE FALSE
    OBVIOUS
  <2>1. k \in 1 .. n /\ (hasPrivate => k # n)
    BY <1>1, <1>4
  <2>. QED  BY <1>2, <1>3, <2>1
<1>6. \A k \in Publics + 1 .. n : parts[k].fourCC = PRIV
  <2>. TAKE k \in Publics + 1 .. n
  <2>1. hasPrivate /\ k = n
    BY <1>1, <1>4
  <2>. QED  BY <1>2, <2>1
<1>7. /\ Part \in {Part, Plain} /\ Publics \in 0 .. Len(parts)
      /\ \A k \in 1 .. Publics : parts[k].fourCC # PRIV
      /\ \A k \in Publics + 1 .. Len(parts) : parts[k].fourCC = PRIV
  BY <1>4, <1>5, <1>6 DEF n
<1>. QED  BY <1>1, <1>7, PublicFront

\* A public part that is removed leaves the others in order.
LEMMA PublicRemoved ==
  ASSUME IInv, IInv', NEW k \in DOMAIN parts, parts' = RemoveAt(parts, k),
         hasPrivate' = FlagAfter(parts[k].fourCC)
  PROVE  \/ Public(parts') = Public(parts)
         \/ \E i \in DOMAIN Public(parts) : Public(parts') = RemoveAt(Public(parts), i)
<1>. DEFINE n == Len(parts)
            old == Public(parts)
            new == Public(parts')
            m == Publics
            m1 == IF hasPrivate' THEN Len(parts') - 1 ELSE Len(parts')
<1>1. n \in Nat /\ DOMAIN parts = 1 .. n /\ parts \in Seq(Part) /\ k \in 1 .. n
  BY LenProperties DEF IInv, PartsTyped
<1>2. /\ parts' \in Seq(Part) /\ Len(parts') = n - 1
      /\ \A j \in 1 .. n - 1 : parts'[j] = IF j < k THEN parts[j] ELSE parts[j + 1]
  BY <1>1, RemoveClosesGap
<1>3. /\ m \in 0 .. n /\ old \in Seq(Plain) /\ Len(old) = m
      /\ \A j \in 1 .. m : old[j] = Bare(parts[j])
  BY PublicOfList
<1>4. /\ m1 \in 0 .. n - 1 /\ new \in Seq(Plain) /\ Len(new) = m1
      /\ \A j \in 1 .. m1 : new[j] = Bare(parts'[j])
  <2>1. DOMAIN parts' = 1 .. n - 1 /\ n - 1 \in Nat
    BY <1>1, <1>2, LenProperties
  <2>2. /\ \A i, j \in 1 .. n - 1 : parts'[i].fourCC = parts'[j].fourCC => i = j
        /\ hasPrivate' <=> \E j \in 1 .. n - 1 : parts'[j].fourCC = PRIV
        /\ hasPrivate' => parts'[n - 1].fourCC = PRIV
    BY <1>2, <2>1 DEF IInv, PartsInOrder, HasPart, Last
  <2>. HIDE DEF n
  <2>3. hasPrivate' => n - 1 \in 1 .. n - 1
    BY <2>1, <2>2
  <2>4. m1 = (IF hasPrivate' THEN n - 2 ELSE n - 1) /\ m1 \in 0 .. n - 1
    BY <1>1, <1>2, <2>1, <2>3
  <2>. HIDE DEF m1, m
  <2>5. \A j \in 1 .. m1 : parts'[j].fourCC # PRIV
    <3>. SUFFICES ASSUME NEW j \in 1 .. m1, parts'[j].fourCC = PRIV PROVE FALSE
      OBVIOUS
    <3>1. j \in 1 .. n - 1 /\ (hasPrivate' => j # n - 1)
      BY <1>1, <2>4
    <3>. QED  BY <2>2, <2>3, <3>1
  <2>6. \A j \in m1 + 1 .. n - 1 : parts'[j].fourCC = PRIV
    <3>. TAKE j \in m1 + 1 .. n - 1
    <3>1. hasPrivate' /\ j = n - 1
      BY <1>1, <2>4
    <3>. QED  BY <2>2, <3>1
  <2>7. /\ Part \in {Part, Plain} /\ m1 \in 0 .. Len(parts')
        /\ \A j \in 1 .. m1 : parts'[j].fourCC # PRIV
        /\ \A j \in m1 + 1 .. Len(parts') : parts'[j].fourCC = PRIV
    BY <1>2, <2>4, <2>5, <2>6
  <2>8. new \in Seq(Plain) /\ Len(new) = m1 /\ \A j \in 1 .. m1 : new[j] = Bare(parts'[j])
    BY <1>2, <2>7, PublicFront
  <2>. QED  BY <2>4, <2>8
<1>5. parts[k].fourCC = PRIV <=> hasPrivate /\ k = n
  <2>1. /\ \A i, j \in 1 .. n : parts[i].fourCC = parts[j].fourCC => i = j
        /\ hasPrivate <=> \E j \in 1 .. n : parts[j].fourCC = PRIV
        /\ hasPrivate => parts[n].fourCC = PRIV
    BY <1>1 DEF IInv, PartsInOrder, HasPart, Last
  <2>2. n \in 1 .. n
    BY <1>1
  <2>. HIDE DEF n
  <2>. QED  BY <1>1, <2>1, <2>2
<1>6. hasPrivate' <=> hasPrivate /\ parts[k].fourCC # PRIV
  BY DEF FlagAfter, IInv, PartsTyped
<1>7. m = (IF hasPrivate THEN n - 1 ELSE n) /\ m1 = (IF hasPrivate' THEN (n - 1) - 1 ELSE n - 1)
  BY <1>2 DEF Publics
<1>. HIDE DEF n, m, m1, old, new
<1>8. CASE parts[k].fourCC = PRIV
  <2>1. m = n - 1 /\ m1 = m /\ k = n
    BY <1>5, <1>6, <1>7, <1>8
  <2>2. ASSUME NEW j \in 1 .. m PROVE new[j] = old[j]
    <3>1. j \in 1 .. n - 1 /\ j < k
      BY <1>1, <2>1
    <3>. QED  BY <1>2, <1>3, <1>4, <2>1, <3>1
  <2>3. new = old
    BY <1>3, <1>4, <2>1, <2>2, SeqEqual
  <2>. QED  BY <2>3 DEF new, old
<1>9. CASE parts[k].fourCC # PRIV
  <2>1. k \in 1 .. m /\ m1 = m - 1
    BY <1>1, <1>5, <1>6, <1>7, <1>9
  <2>. DEFINE rest == RemoveAt(old, k)
  <2>2. /\ rest \in Seq(Plain) /\ Len(rest) = m - 1
        /\ \A j \in 1 .. m - 1 : rest[j] = IF j < k THEN old[j] ELSE old[j + 1]
    BY <1>3, <2>1, RemoveClosesGap
  <2>. HIDE DEF rest
  <2>3. ASSUME NEW j \in 1 .. m - 1 PROVE new[j] = rest[j]
    <3>1. j \in 1 .. n - 1 /\ j \in 1 .. m /\ j + 1 \in 1 .. m /\ j \in 1 .. m1
      BY <1>1, <1>3, <2>1
    <3>2. new[j] = Bare(parts'[j]) /\ rest[j] = IF j < k THEN old[j] ELSE old[j + 1]
      BY <1>4, <2>2, <3>1
    <3>3. parts'[j] = IF j < k THEN parts[j] ELSE parts[j + 1]
      BY <1>2, <3>1
    <3>4. old[j] = Bare(parts[j]) /\ old[j + 1] = Bare(parts[j + 1])
      BY <1>3, <3>1
    <3>. QED  BY <3>2, <3>3, <3>4, Zenon
  <2>4. new = rest
    BY <1>4, <2>1, <2>2, <2>3, SeqEqual
  <2>5. k \in DOMAIN old
    BY <1>3, <2>1, LenProperties
  <2>. QED  BY <2>4, <2>5 DEF new, old, rest
<1>. QED  BY <1>8, <1>9

LEMMA FrontOfAppend ==
  ASSUME NEW S, NEW a \in Seq(S), NEW e \in S
  PROVE  Front(Append(a, e)) = a
<1>. DEFINE b == Append(a, e)
            z == SubSeq(b, 1, Len(b) - 1)
<1>1. /\ b \in Seq(S) /\ Len(b) = Len(a) + 1 /\ Len(a) \in Nat
      /\ \A j \in 1 .. Len(a) : b[j] = a[j]
  BY AppendProperties, LenProperties
<1>. HIDE DEF b
<1>2. \A j \in 1 .. Len(b) - 1 : b[j] \in S
  BY <1>1, ElementOfSeq
<1>3. /\ z \in Seq(S) /\ Len(z) = IF 1 <= Len(b) - 1 THEN Len(b) - 1 - 1 + 1 ELSE 0
      /\ \A j \in 1 .. Len(b) - 1 - 1 + 1 : z[j] = b[1 + j - 1]
  <2>1. 1 \in Int /\ Len(b) - 1 \in Int
    BY <1>1
  <2>. QED  BY <1>2, <2>1, SubSeqProperties
<1>. HIDE DEF z
<1>4. Len(z) = Len(a) /\ \A j \in 1 .. Len(a) : z[j] = a[j]
  BY <1>1, <1>3
<1>5. z = a
  BY <1>1, <1>3, <1>4, SeqEqual
<1>. QED  BY <1>5 DEF Front, b, z

KeepsOrder ==
  parts' # <<>> =>
    LET old == Public(parts)
        new == Public(parts')
    IN  \/ new = old
        \/ Front(new) = old
        \/ \E k \in DOMAIN old : new = RemoveAt(old, k)

LEMMA StepKeepsOrder == IInv /\ [Next]_vars => KeepsOrder
<1>. SUFFICES ASSUME IInv, [Next]_vars PROVE KeepsOrder
  OBVIOUS
<1>0. IInv'
  BY StepOrder
<1>1. ASSUME UNCHANGED parts PROVE KeepsOrder
  BY <1>1 DEF KeepsOrder
<1>2. ASSUME NEW p \in Part, IsNew(p.fourCC), AddToList(p) PROVE KeepsOrder
  <2>1. Public(parts') = IF p.fourCC = PRIV THEN Public(parts) ELSE Append(Public(parts), Bare(p))
    BY <1>2, PublicAdded
  <2>2. Public(parts) \in Seq(Plain) /\ Bare(p) \in Plain
    BY PublicOfList DEF Bare, Part, Plain
  <2>3. Front(Append(Public(parts), Bare(p))) = Public(parts)
    BY <2>2, FrontOfAppend
  <2>. QED  BY <2>1, <2>3 DEF KeepsOrder
<1>3. CASE Renew \/ Reload
  BY <1>3 DEF Renew, Reload, KeepsOrder
<1>4. CASE LoadPart
  <2>1. loading \in DOMAIN container.parts /\ loading # 0
    BY <1>4 DEF LoadPart, Idle
  <2>2. container.parts[loading] \in Plain
    BY <2>1, LenProperties, ElementOfSeq DEF IInv, PartsTyped
  <2>. DEFINE q == container.parts[loading]
              p == [fourCC |-> q.fourCC, blob |-> q.blob, pinned |-> TRUE]
  <2>3. p \in Part /\ p.fourCC = q.fourCC
    BY <2>2 DEF Plain, Part
  <2>4. CASE UNCHANGED parts
    BY <1>1, <2>4
  <2>5. CASE IsNew(q.fourCC) /\ AddToList(p)
    <3>. HIDE DEF p
    <3>. QED  BY <1>2, <2>3, <2>5
  <2>. QED  BY <1>4, <2>4, <2>5 DEF LoadPart, LoadFails
<1>5. CASE AddPart
  <2>1. CASE UNCHANGED parts
    BY <1>1, <2>1
  <2>2. CASE \E f \in FourCCs, b \in Blobs \cup {None} :
               b # None /\ IsNew(f) /\ AddToList([fourCC |-> f, blob |-> b, pinned |-> FALSE])
    <3>1. PICK f \in FourCCs, b \in Blobs \cup {None} :
               b # None /\ IsNew(f) /\ AddToList([fourCC |-> f, blob |-> b, pinned |-> FALSE])
      BY <2>2
    <3>. DEFINE p == [fourCC |-> f, blob |-> b, pinned |-> FALSE]
    <3>2. p \in Part /\ p.fourCC = f /\ AddToList(p)
      BY <3>1 DEF Part
    <3>. HIDE DEF p
    <3>. QED  BY <1>2, <3>1, <3>2
  <2>. QED  BY <1>5, <2>1, <2>2 DEF AddPart, Fails
<1>6. CASE RemovePart
  <2>1. CASE UNCHANGED parts
    BY <1>1, <2>1
  <2>2. CASE \E f \in FourCCs : \E k \in DOMAIN parts :
               parts[k].fourCC = f /\ parts' = RemoveAt(parts, k) /\ hasPrivate' = FlagAfter(f)
    <3>1. PICK k \in DOMAIN parts :
               parts' = RemoveAt(parts, k) /\ hasPrivate' = FlagAfter(parts[k].fourCC)
      BY <2>2
    <3>2. \/ Public(parts') = Public(parts)
          \/ \E i \in DOMAIN Public(parts) : Public(parts') = RemoveAt(Public(parts), i)
      BY <1>0, <3>1, PublicRemoved
    <3>. QED  BY <3>2 DEF KeepsOrder
  <2>. QED  BY <1>6, <2>1, <2>2 DEF RemovePart, Fails
<1>7. CASE Load \/ LoadDone \/ SerializeContainer \/ UNCHANGED vars
  <2>1. UNCHANGED parts
    BY <1>7 DEF Load, LoadDone, SerializeContainer, Fails, vars
  <2>. QED  BY <1>1, <2>1
<1>. QED
  BY <1>3, <1>4, <1>5, <1>6, <1>7 DEF Next

\* No call reorders the public parts: it adds one behind the others, takes one
\* out, or starts a new list.
THEOREM OrderIsKept == Spec => OrderKept
<1>1. IInv /\ [Next]_vars =>
        (parts' # <<>> =>
           LET old == Public(parts)
               new == Public(parts')
           IN  \/ new = old
               \/ Front(new) = old
               \/ \E k \in DOMAIN old : new = RemoveAt(old, k))
  BY StepKeepsOrder DEF KeepsOrder
<1>2. Spec => []IInv
  BY InitOrder, StepOrder, PTL DEF Spec
<1>. QED  BY <1>1, <1>2, PTL DEF Spec, OrderKept

-----------------------------------------------------------------------------
(* Load.                                                                    *)

LEMMA PublicTyped ==
  ASSUME NEW S, S \in {Part, Plain}, NEW ps \in Seq(S)
  PROVE  Public(ps) \in Seq(Plain)
<1>. DEFINE n == Len(ps)
<1>1. n \in Nat /\ \A k \in 1 .. n : ps[k] \in S
  BY LenProperties, ElementOfSeq
<1>2. \A k \in 1 .. n : Bare(ps[k]) \in Plain
  BY <1>1 DEF Part, Plain, Bare
<1>3. PICK f : PublicPrefixes(f, ps) /\ Public(ps) = f[n]
  BY <1>1, PublicPrefixesExist
<1>4. f[0] = <<>> /\ \A k \in 1 .. n :
        f[k] = IF ps[k].fourCC = PRIV THEN f[k - 1] ELSE Append(f[k - 1], Bare(ps[k]))
  BY <1>3 DEF PublicPrefixes
<1>. DEFINE T == {k \in Nat : k <= n => f[k] \in Seq(Plain)}
<1>. HIDE DEF n
<1>5. 0 \in T
  <2>1. f[0] \in Seq(Plain)
    BY <1>4, EmptySeq
  <2>. QED  BY <2>1
<1>6. ASSUME NEW k \in Nat, k \in T PROVE k + 1 \in T
  <2>. SUFFICES ASSUME k + 1 <= n PROVE f[k + 1] \in Seq(Plain)
    OBVIOUS
  <2>1. k + 1 \in 1 .. n /\ (k + 1) - 1 = k /\ k <= n
    BY <1>1
  <2>2. f[k] \in Seq(Plain)
    BY <1>6, <2>1
  <2>3. Bare(ps[k + 1]) \in Plain
    BY <1>2, <2>1
  <2>4. Append(f[k], Bare(ps[k + 1])) \in Seq(Plain)
    BY <2>2, <2>3, AppendProperties
  <2>5. f[k + 1] = IF ps[k + 1].fourCC = PRIV THEN f[k] ELSE Append(f[k], Bare(ps[k + 1]))
    BY <1>4, <2>1
  <2>. QED  BY <2>2, <2>4, <2>5
<1>. HIDE DEF T
<1>7. Nat \subseteq T
  BY <1>5, <1>6, EveryNatural
<1>. QED  BY <1>1, <1>3, <1>7 DEF T

\* A part and what it was read from.
Same(p, q) == p.fourCC = q.fourCC /\ p.blob = q.blob

\* Load has read the first m parts cs of a container into a list that was bs.
Loaded(ps, bs, cs, m) ==
  /\ m \in 0 .. Len(cs)
  /\ Public(ps) = Public(bs) \o Public(SubSeq(cs, 1, m))
  /\ \A j \in DOMAIN bs : \E k \in DOMAIN ps : Same(ps[k], bs[j])
  /\ \A j \in 1 .. m : \E k \in DOMAIN ps : Same(ps[k], cs[j])
  /\ \A k \in DOMAIN ps : \/ \E j \in DOMAIN bs : Same(ps[k], bs[j])
                          \/ \E j \in 1 .. m : Same(ps[k], cs[j])

Progress ==
  loading # 0 => /\ before \in Seq(Part) /\ container.parts \in Seq(Plain)
                 /\ Loaded(parts, before, container.parts, loading - 1)

LEMMA PrimedLoaded ==
  (Loaded(parts, before, container.parts, loading - 1))' =
     Loaded(parts', before', container'.parts, loading' - 1)
BY DEF Loaded, Same, Public, Bare

\* The prefixes that the loop reads.
LEMMA ReadPrefix ==
  ASSUME NEW cs \in Seq(Plain), NEW m \in 0 .. Len(cs)
  PROVE  /\ SubSeq(cs, 1, m) \in Seq(Plain) /\ Len(SubSeq(cs, 1, m)) = m
         /\ \A j \in 1 .. m : SubSeq(cs, 1, m)[j] = cs[j]
<1>. DEFINE a == SubSeq(cs, 1, m)
<1>1. Len(cs) \in Nat /\ \A j \in 1 .. Len(cs) : cs[j] \in Plain
  BY LenProperties, ElementOfSeq
<1>2. m \in Nat /\ m <= Len(cs)
  BY <1>1
<1>3. \A j \in 1 .. m : cs[j] \in Plain
  BY <1>1, <1>2
<1>4. 1 \in Int /\ m \in Int
  BY <1>2
<1>5. /\ a \in Seq(Plain) /\ Len(a) = IF 1 <= m THEN m - 1 + 1 ELSE 0
      /\ \A j \in 1 .. m - 1 + 1 : a[j] = cs[1 + j - 1]
  BY <1>3, <1>4, SubSeqProperties
<1>. HIDE DEF a
<1>6. Len(a) = m /\ \A j \in 1 .. m : a[j] = cs[j]
  BY <1>2, <1>5
<1>. QED  BY <1>5, <1>6 DEF a

LEMMA PublicRead ==
  ASSUME NEW cs \in Seq(Plain), NEW m \in Nat, m < Len(cs)
  PROVE  Public(SubSeq(cs, 1, m + 1)) =
           IF cs[m + 1].fourCC = PRIV THEN Public(SubSeq(cs, 1, m))
           ELSE Append(Public(SubSeq(cs, 1, m)), Bare(cs[m + 1]))
<1>1. Len(cs) \in Nat
  BY LenProperties
<1>2. m \in 0 .. Len(cs) /\ m + 1 \in 0 .. Len(cs) /\ m + 1 \in 1 .. m + 1
      /\ \A j \in 1 .. m : j \in 1 .. m + 1
  BY <1>1
<1>. DEFINE a == SubSeq(cs, 1, m)
            b == SubSeq(cs, 1, m + 1)
<1>3. Len(a) = m /\ \A j \in 1 .. m : a[j] = cs[j]
  BY <1>2, ReadPrefix
<1>4. Len(b) = m + 1 /\ \A j \in 1 .. m + 1 : b[j] = cs[j]
  BY <1>2, ReadPrefix
<1>. HIDE DEF a, b
<1>5. BeginsWith(b, a)
  BY <1>2, <1>3, <1>4 DEF BeginsWith
<1>6. Len(a) \in Nat /\ Len(b) = Len(a) + 1 /\ b[Len(b)] = cs[m + 1]
  BY <1>2, <1>3, <1>4
<1>7. Public(b) = IF cs[m + 1].fourCC = PRIV THEN Public(a) ELSE Append(Public(a), Bare(cs[m + 1]))
  BY <1>5, <1>6, PublicLonger
<1>. QED  BY <1>7 DEF a, b

\* The parts after one iteration that adds p.
LEMMA LoadedMore ==
  ASSUME IInv, NEW p \in Part, IsNew(p.fourCC), AddToList(p),
         NEW bs \in Seq(Part), NEW cs \in Seq(Plain), NEW m \in Nat, m < Len(cs),
         Same(p, cs[m + 1]), Loaded(parts, bs, cs, m)
  PROVE  Loaded(parts', bs, cs, m + 1)
<1>1. Len(cs) \in Nat
  BY LenProperties
<1>2. /\ m \in 0 .. Len(cs) /\ m + 1 \in 0 .. Len(cs) /\ m + 1 \in 1 .. m + 1
      /\ \A j \in 1 .. m + 1 : j \in 1 .. m \/ j = m + 1
      /\ \A j \in 1 .. m : j \in 1 .. m + 1
  BY <1>1
<1>. DEFINE a == Public(bs)
            b == Public(SubSeq(cs, 1, m))
            e == Bare(p)
<1>3. a \in Seq(Plain)
  BY Part \in {Part, Plain}, PublicTyped
<1>4. b \in Seq(Plain)
  <2>1. SubSeq(cs, 1, m) \in Seq(Plain) /\ Plain \in {Part, Plain}
    BY <1>2, ReadPrefix
  <2>. QED  BY <2>1, PublicTyped
<1>5. e \in Plain /\ Bare(cs[m + 1]) = e /\ cs[m + 1].fourCC = p.fourCC
  BY DEF Bare, Part, Plain, Same
<1>6. Public(parts) = a \o b
  BY DEF Loaded
<1>. HIDE DEF a, e
<1>7. Public(parts') = IF p.fourCC = PRIV THEN a \o b ELSE Append(a \o b, e)
  BY <1>6, PublicAdded DEF e
<1>8. Public(SubSeq(cs, 1, m + 1)) = IF p.fourCC = PRIV THEN b ELSE Append(b, e)
  BY <1>5, PublicRead
<1>. HIDE DEF b
<1>9. Append(a \o b, e) = a \o Append(b, e)
  <2>1. a \in Seq(Plain) /\ b \in Seq(Plain) /\ e \in Plain
    BY <1>3, <1>4, <1>5
  <2>. PICK x \in Seq(Plain), y \in Seq(Plain), z \in Seq(Plain) : x = a /\ y = b /\ z = <<e>>
    <3>1. <<e>> \in Seq(Plain)
      BY <2>1
    <3>. QED  BY <2>1, <3>1
  <2>2. (x \o y) \o z = x \o (y \o z)
    BY ONLY ConcatAssociative, x \in Seq(Plain), y \in Seq(Plain), z \in Seq(Plain)
  <2>3. Append(b, e) = b \o <<e>> /\ Append(a \o b, e) = (a \o b) \o <<e>>
    BY <2>1, AppendIsConcat, ConcatProperties
  <2>. QED  BY <2>2, <2>3
<1>10. Public(parts') = a \o Public(SubSeq(cs, 1, m + 1))
  BY <1>7, <1>8, <1>9
<1>11. \A k \in DOMAIN parts' : parts'[k] = p \/ \E j \in DOMAIN parts : parts'[k] = parts[j]
  BY AddedElements DEF IInv
<1>12. /\ \A j \in DOMAIN parts : \E k \in DOMAIN parts' : parts'[k] = parts[j]
       /\ \E k \in DOMAIN parts' : parts'[k] = p
  BY AddedAll
<1>13. \A j \in DOMAIN bs : \E k \in DOMAIN parts' : Same(parts'[k], bs[j])
  BY <1>12 DEF Loaded
<1>14. \A j \in 1 .. m + 1 : \E k \in DOMAIN parts' : Same(parts'[k], cs[j])
  BY <1>2, <1>12 DEF Loaded
<1>15. \A k \in DOMAIN parts' : \/ \E j \in DOMAIN bs : Same(parts'[k], bs[j])
                                \/ \E j \in 1 .. m + 1 : Same(parts'[k], cs[j])
  BY <1>2, <1>11 DEF Loaded
<1>. QED  BY <1>2, <1>10, <1>13, <1>14, <1>15 DEF Loaded, a

PInv == LInv /\ Progress

LEMMA InitProgress == Init => PInv
<1>1. Init => Progress
  BY DEF Init, NewBuilder, Progress
<1>. QED  BY <1>1, InitLaid DEF PInv

\* Before its first iteration Load has read nothing.
LEMMA NothingLoaded ==
  ASSUME NEW ps \in Seq(Part), NEW cs \in Seq(Plain)
  PROVE  Loaded(ps, ps, cs, 0)
<1>1. 0 \in 0 .. Len(cs)
  BY LenProperties
<1>2. Len(SubSeq(cs, 1, 0)) = 0
  BY <1>1, ReadPrefix
<1>3. Public(SubSeq(cs, 1, 0)) = <<>>
  BY <1>2, PublicEmpty
<1>4. Public(ps) \in Seq(Plain)
  BY Part \in {Part, Plain}, PublicTyped
<1>5. Public(ps) \o <<>> = Public(ps)
  BY <1>4, ConcatEmptySeq
<1>6. 1 .. 0 = {}
  OBVIOUS
<1>. QED  BY <1>1, <1>3, <1>5, <1>6 DEF Loaded, Same

LEMMA StepProgress == PInv /\ [Next]_vars => PInv'
<1>. SUFFICES ASSUME PInv, [Next]_vars PROVE PInv'
  OBVIOUS
<1>1. LInv /\ LInv' /\ Progress
  BY StepLaid DEF PInv
<1>2. IInv /\ TypeOK /\ IInv' /\ TypeOK'
  BY <1>1 DEF LInv
<1>3. ASSUME loading' = 0 PROVE PInv'
  BY <1>1, <1>3 DEF PInv, Progress
<1>4. ASSUME loading = 0, loading' = loading PROVE PInv'
  BY <1>3, <1>4
<1>5. ASSUME loading' = 1, before' = parts' PROVE PInv'
  <2>1. parts' \in Seq(Part) /\ container'.parts \in Seq(Plain)
    BY <1>2, <1>5 DEF IInv, PartsTyped, Plain, Part
  <2>2. Loaded(parts', before', container'.parts, loading' - 1)
    BY <1>5, <2>1, NothingLoaded
  <2>3. Progress'
    BY <1>5, <2>1, <2>2, PrimedLoaded DEF Progress, Part, Plain
  <2>. QED  BY <1>1, <2>3 DEF PInv
<1>6. CASE Renew \/ AddPart \/ RemovePart \/ SerializeContainer
  <2>1. loading = 0 /\ loading' = loading
    BY <1>6 DEF Renew, AddPart, RemovePart, SerializeContainer, Fails, Idle
  <2>. QED  BY <1>4, <2>1
<1>7. CASE Load
  <2>1. (loading = 0 /\ loading' = loading) \/ (loading' = 1 /\ before' = parts')
    BY <1>7 DEF Load, Fails, Idle
  <2>. QED  BY <1>4, <1>5, <2>1
<1>8. CASE Reload
  BY <1>5, <1>8 DEF Reload
<1>9. CASE LoadDone
  BY <1>3, <1>9 DEF LoadDone
<1>10. CASE LoadPart
  <2>. DEFINE q == container.parts[loading]
              p == [fourCC |-> q.fourCC, blob |-> q.blob, pinned |-> TRUE]
  <2>1. loading # 0 /\ loading \in DOMAIN container.parts /\ container' = container
    BY <1>10 DEF LoadPart, Idle
  <2>2. CASE loading' = 0
    BY <1>3, <2>2
  <2>3. CASE /\ IsNew(q.fourCC) /\ AddToList(p)
             /\ loading' = loading + 1 /\ UNCHANGED <<before, container>>
    <3>1. /\ before \in Seq(Part) /\ container.parts \in Seq(Plain)
          /\ Loaded(parts, before, container.parts, loading - 1)
      BY <1>1, <2>1 DEF Progress
    <3>2. loading \in 1 .. Len(container.parts) /\ q \in Plain
      BY <2>1, <3>1, LenProperties, ElementOfSeq
    <3>3. p \in Part /\ IsNew(p.fourCC) /\ AddToList(p) /\ Same(p, q)
      BY <2>3, <3>2 DEF Plain, Part, Same
    <3>. HIDE DEF p
    <3>4. /\ loading - 1 \in Nat /\ loading - 1 < Len(container.parts)
          /\ (loading - 1) + 1 = loading
      <4>1. Len(container.parts) \in Nat
        BY <3>1, LenProperties
      <4>. QED  BY <3>2, <4>1
    <3>5. Loaded(parts', before, container.parts, (loading - 1) + 1)
      BY <1>2, <3>1, <3>3, <3>4, LoadedMore
    <3>6. Loaded(parts', before', container'.parts, loading' - 1)
      <4>1. loading' - 1 = (loading - 1) + 1
        BY <2>3, <3>2
      <4>. QED  BY <2>3, <3>5, <4>1
    <3>7. before' \in Seq(Part) /\ container'.parts \in Seq(Plain)
      BY <2>3, <3>1
    <3>8. Progress'
      BY <3>6, <3>7, PrimedLoaded DEF Progress, Part, Plain
    <3>. QED  BY <1>1, <3>8 DEF PInv
  <2>. QED  BY <1>10, <2>1, <2>2, <2>3 DEF LoadPart, LoadFails
<1>11. CASE UNCHANGED vars
  <2>1. UNCHANGED <<parts, before, container, loading>>
    BY <1>11 DEF vars
  <2>2. Progress'
    <3>1. CASE loading = 0
      BY <2>1, <3>1 DEF Progress
    <3>2. CASE loading # 0
      <4>1. /\ before \in Seq(Part) /\ container.parts \in Seq(Plain)
            /\ Loaded(parts, before, container.parts, loading - 1)
        BY <1>1, <3>2 DEF Progress
      <4>2. Loaded(parts', before', container'.parts, loading' - 1)
        BY <2>1, <4>1
      <4>. QED  BY <2>1, <4>1, <4>2, PrimedLoaded DEF Progress, Part, Plain
    <3>. QED  BY <3>1, <3>2
  <2>. QED  BY <1>1, <2>2 DEF PInv
<1>. QED
  BY <1>6, <1>7, <1>8, <1>9, <1>10, <1>11 DEF Next

\* The private data is that of the container, or else what there was before.
LEMMA PrivateRead ==
  ASSUME IInv, NEW bs \in Seq(Part), NEW cs \in Seq(Plain), NEW m, Loaded(parts, bs, cs, m)
  PROVE  LET read == SubSeq(cs, 1, m)
         IN  BlobOf(parts, PRIV) = IF HasPart(read, PRIV) THEN BlobOf(read, PRIV)
                                   ELSE BlobOf(bs, PRIV)
<1>. DEFINE read == SubSeq(cs, 1, m)
<1>1. m \in 0 .. Len(cs) /\ m \in Nat
  BY LenProperties DEF Loaded
<1>2. /\ read \in Seq(Plain) /\ Len(read) = m
      /\ \A j \in 1 .. m : read[j] = cs[j]
  BY <1>1, ReadPrefix
<1>3. DOMAIN read = 1 .. m
  BY <1>2, LenProperties
<1>. HIDE DEF read
<1>4. \A j, k \in DOMAIN parts : parts[j].fourCC = parts[k].fourCC => j = k
  BY DEF IInv, PartsInOrder
<1>5. ASSUME NEW k \in DOMAIN parts, parts[k].fourCC = PRIV
      PROVE  BlobOf(parts, PRIV) = parts[k].blob
  <2>. DEFINE i == CHOOSE j \in DOMAIN parts : parts[j].fourCC = PRIV
  <2>1. i \in DOMAIN parts /\ parts[i].fourCC = PRIV
    BY <1>5
  <2>2. BlobOf(parts, PRIV) = parts[i].blob
    BY <1>5 DEF BlobOf, HasPart
  <2>. HIDE DEF i
  <2>3. i = k
    BY <1>4, <1>5, <2>1
  <2>. QED  BY <2>2, <2>3
<1>6. CASE HasPart(read, PRIV)
  <2>. DEFINE i == CHOOSE j \in DOMAIN read : read[j].fourCC = PRIV
  <2>1. i \in DOMAIN read /\ read[i].fourCC = PRIV
    BY <1>6 DEF HasPart
  <2>2. BlobOf(read, PRIV) = read[i].blob
    BY <1>6 DEF BlobOf
  <2>. HIDE DEF i
  <2>3. i \in 1 .. m /\ read[i] = cs[i]
    BY <1>2, <1>3, <2>1
  <2>4. PICK k \in DOMAIN parts : Same(parts[k], cs[i])
    BY <2>3 DEF Loaded
  <2>5. parts[k].fourCC = PRIV /\ parts[k].blob = read[i].blob
    BY <2>1, <2>3, <2>4 DEF Same
  <2>6. BlobOf(parts, PRIV) = parts[k].blob
    BY <1>5, <2>5
  <2>. QED  BY <1>6, <2>2, <2>5, <2>6 DEF read
<1>7. CASE ~HasPart(read, PRIV) /\ HasPart(bs, PRIV)
  <2>. DEFINE i == CHOOSE j \in DOMAIN bs : bs[j].fourCC = PRIV
  <2>1. i \in DOMAIN bs /\ bs[i].fourCC = PRIV
    BY <1>7 DEF HasPart
  <2>2. BlobOf(bs, PRIV) = bs[i].blob
    BY <1>7 DEF BlobOf
  <2>. HIDE DEF i
  <2>3. PICK k \in DOMAIN parts : Same(parts[k], bs[i])
    BY <2>1 DEF Loaded
  <2>4. parts[k].fourCC = PRIV /\ parts[k].blob = bs[i].blob
    BY <2>1, <2>3 DEF Same
  <2>5. BlobOf(parts, PRIV) = parts[k].blob
    BY <1>5, <2>4
  <2>. QED  BY <1>7, <2>2, <2>4, <2>5 DEF read
<1>8. CASE ~HasPart(read, PRIV) /\ ~HasPart(bs, PRIV)
  <2>1. ~HasPart(parts, PRIV)
    <3>. SUFFICES ASSUME NEW k \in DOMAIN parts, parts[k].fourCC = PRIV PROVE FALSE
      BY DEF HasPart
    <3>1. \/ \E j \in DOMAIN bs : Same(parts[k], bs[j])
          \/ \E j \in 1 .. m : Same(parts[k], cs[j])
      BY DEF Loaded
    <3>2. ~\E j \in DOMAIN bs : Same(parts[k], bs[j])
      BY <1>8 DEF HasPart, Same
    <3>3. ~\E j \in 1 .. m : Same(parts[k], cs[j])
      BY <1>2, <1>3, <1>8 DEF HasPart, Same
    <3>. QED  BY <3>1, <3>2, <3>3
  <2>. QED  BY <1>8, <2>1 DEF BlobOf, read
<1>. QED  BY <1>6, <1>7, <1>8

LoadsExactly ==
  loading # 0 /\ loading' = 0 =>
    LET read == SubSeq(container.parts, 1, loading - 1)
    IN  /\ ret' = "S_OK" =>
             /\ read = container.parts
             /\ Public(parts') = Public(before) \o Public(read)
             /\ BlobOf(parts', PRIV) = IF HasPart(read, PRIV) THEN BlobOf(read, PRIV)
                                       ELSE BlobOf(before, PRIV)
        /\ ret' = "DXC_E_DUPLICATE_PART" =>
             \/ \E p \in ToSet(before), q \in ToSet(container.parts) : p.fourCC = q.fourCC
             \/ \E j, k \in DOMAIN container.parts :
                  j # k /\ container.parts[j].fourCC = container.parts[k].fourCC

LEMMA StepLoadsExactly == PInv /\ [Next]_vars => LoadsExactly
<1>. SUFFICES ASSUME PInv, [Next]_vars, loading # 0, loading' = 0 PROVE LoadsExactly
  BY DEF LoadsExactly
<1>. DEFINE cs == container.parts
            m == loading - 1
            read == SubSeq(cs, 1, m)
<1>1. /\ before \in Seq(Part) /\ cs \in Seq(Plain) /\ Loaded(parts, before, cs, m)
      /\ IInv /\ loading \in Nat
  BY DEF PInv, Progress, LInv, TypeOK
<1>2. LoadPart \/ LoadDone
  BY DEF Next, vars, Renew, Load, Reload, AddPart, RemovePart, SerializeContainer, Idle
<1>3. CASE LoadDone
  <2>1. loading = Len(cs) + 1 /\ parts' = parts /\ ret' = "S_OK"
    BY <1>3 DEF LoadDone
  <2>2. m = Len(cs) /\ m \in 0 .. Len(cs) /\ Len(cs) \in Nat
    BY <1>1, <2>1, LenProperties
  <2>3. read = cs
    <3>1. /\ read \in Seq(Plain) /\ Len(read) = m
          /\ \A j \in 1 .. m : read[j] = cs[j]
      BY <1>1, <2>2, ReadPrefix
    <3>. HIDE DEF read, cs, m
    <3>. QED  BY <1>1, <2>2, <3>1, SeqEqual
  <2>4. Public(parts) = Public(before) \o Public(read)
    BY <1>1 DEF Loaded
  <2>5. BlobOf(parts, PRIV) = IF HasPart(read, PRIV) THEN BlobOf(read, PRIV)
                              ELSE BlobOf(before, PRIV)
    <3>. HIDE DEF cs, m
    <3>. QED  BY <1>1, PrivateRead
  <2>. QED  BY <2>1, <2>3, <2>4, <2>5 DEF LoadsExactly
<1>4. CASE LoadPart
  <2>1. /\ loading \in DOMAIN cs /\ ret' # "S_OK"
        /\ ret' = "DXC_E_DUPLICATE_PART" => ~IsNew(cs[loading].fourCC)
    BY <1>1, <1>4 DEF LoadPart, LoadFails
  <2>. HIDE DEF cs
  <2>2. ASSUME ret' = "DXC_E_DUPLICATE_PART"
        PROVE  \/ \E p \in ToSet(before), q \in ToSet(cs) : p.fourCC = q.fourCC
               \/ \E j, k \in DOMAIN cs : j # k /\ cs[j].fourCC = cs[k].fourCC
    <3>1. PICK k \in DOMAIN parts : parts[k].fourCC = cs[loading].fourCC
      BY <2>1, <2>2 DEF IsNew, HasPart
    <3>2. CASE \E j \in DOMAIN before : Same(parts[k], before[j])
      <4>1. PICK j \in DOMAIN before : Same(parts[k], before[j])
        BY <3>2
      <4>2. before[j].fourCC = cs[loading].fourCC
        BY <3>1, <4>1 DEF Same
      <4>3. before[j] \in ToSet(before) /\ cs[loading] \in ToSet(cs)
        BY <2>1 DEF ToSet
      <4>. QED  BY <4>2, <4>3
    <3>3. CASE \E j \in 1 .. m : Same(parts[k], cs[j])
      <4>1. PICK j \in 1 .. m : Same(parts[k], cs[j])
        BY <3>3
      <4>2. cs[j].fourCC = cs[loading].fourCC
        BY <3>1, <4>1 DEF Same
      <4>3. j \in DOMAIN cs /\ j # loading
        <5>1. m \in 0 .. Len(cs) /\ DOMAIN cs = 1 .. Len(cs) /\ Len(cs) \in Nat
          BY <1>1, LenProperties DEF Loaded
        <5>. QED  BY <1>1, <4>1, <5>1
      <4>. QED  BY <2>1, <4>2, <4>3
    <3>. QED  BY <1>1, <3>2, <3>3 DEF Loaded
  <2>. QED  BY <2>1, <2>2 DEF LoadsExactly, cs
<1>. QED  BY <1>2, <1>3, <1>4

\* Load adds exactly the parts of the container, in their order and behind those
\* there were, and refuses a part only because it is there already.
THEOREM LoadIsExact == Spec => LoadExact
<1>1. PInv /\ [Next]_vars =>
        (loading # 0 /\ loading' = 0 =>
           LET read == SubSeq(container.parts, 1, loading - 1)
           IN  /\ ret' = "S_OK" =>
                    /\ read = container.parts
                    /\ Public(parts') = Public(before) \o Public(read)
                    /\ BlobOf(parts', PRIV) = IF HasPart(read, PRIV) THEN BlobOf(read, PRIV)
                                              ELSE BlobOf(before, PRIV)
               /\ ret' = "DXC_E_DUPLICATE_PART" =>
                    \/ \E p \in ToSet(before), q \in ToSet(container.parts) : p.fourCC = q.fourCC
                    \/ \E j, k \in DOMAIN container.parts :
                         j # k /\ container.parts[j].fourCC = container.parts[k].fourCC)
  BY StepLoadsExactly DEF LoadsExactly
<1>. QED  BY <1>1, InitProgress, StepProgress, PTL DEF Spec, LoadExact
=============================================================================
