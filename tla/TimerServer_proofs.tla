------------------------- MODULE TimerServer_proofs -------------------------
(***************************************************************************)
(* Proofs about the timer server, for every number of entries, clients,    *)
(* requests and overlapping tick threads.                                  *)
(***************************************************************************)
EXTENDS TimerServer, SequenceTheorems, FiniteSetTheorems, TLAPS

(***************************************************************************)
(* Linking and unlinking in lists without duplicates, which is what the    *)
(* linked lists of the C code are: an entry is linked in once.             *)
(***************************************************************************)
\* The list obtained by unlinking position i: its length and its elements.
LEMMA UnlinkElements ==
  ASSUME NEW S, NEW s \in Seq(S), NEW i \in 1..Len(s)
  PROVE  /\ RemoveAt(s, i) \in Seq(S)
         /\ Len(RemoveAt(s, i)) = Len(s) - 1
         /\ \A j \in 1..Len(s)-1 :
               RemoveAt(s, i)[j] = IF j < i THEN s[j] ELSE s[j+1]
<1> DEFINE before == SubSeq(s, 1, i-1)
           behind == SubSeq(s, i+1, Len(s))
<1>1. /\ Len(s) \in Nat
      /\ \A j \in 1..Len(s) : s[j] \in S
  OBVIOUS
<1>2. /\ before \in Seq(S) /\ Len(before) = i-1
      /\ \A j \in 1..i-1 : before[j] = s[j]
  BY <1>1, SubSeqProperties
<1>3. /\ behind \in Seq(S) /\ Len(behind) = Len(s) - i
      /\ \A j \in 1..Len(s)-i : behind[j] = s[i+j]
  BY <1>1, SubSeqProperties
<1>4. RemoveAt(s, i) = before \o behind  BY DEF RemoveAt
<1> HIDE DEF before, behind
<1>5. /\ before \o behind \in Seq(S)
      /\ Len(before \o behind) = Len(before) + Len(behind)
      /\ \A j \in 1..Len(before) + Len(behind) : (before \o behind)[j] =
            IF j <= Len(before) THEN before[j] ELSE behind[j - Len(before)]
  BY <1>2, <1>3, ConcatProperties, Zenon
<1>6. Len(before) + Len(behind) = Len(s) - 1
  BY <1>1, <1>2, <1>3
<1>7. ASSUME NEW j \in 1..Len(s)-1
      PROVE  (before \o behind)[j] = IF j < i THEN s[j] ELSE s[j+1]
  <2>1. (before \o behind)[j] =
            IF j <= i-1 THEN before[j] ELSE behind[j - (i-1)]
    BY <1>2, <1>5, <1>6
  <2>2. CASE j < i
    <3>1. j \in 1..i-1 /\ j <= i-1  BY <2>2, <1>1
    <3>2. QED  BY <3>1, <2>1, <2>2, <1>2
  <2>3. CASE ~(j < i)
    <3>1. /\ j - (i-1) \in 1..Len(s)-i /\ ~(j <= i-1)
          /\ i + (j - (i-1)) = j+1
      BY <2>3, <1>1
    <3>2. QED  BY <3>1, <2>1, <2>3, <1>3
  <2>4. QED  BY <2>2, <2>3
<1>8. QED  BY <1>4, <1>5, <1>6, <1>7

\* The list obtained by linking e in at position i.
LEMMA LinkElements ==
  ASSUME NEW S, NEW s \in Seq(S), NEW i \in 1..Len(s)+1, NEW e \in S
  PROVE  /\ InsertAt(s, i, e) \in Seq(S)
         /\ Len(InsertAt(s, i, e)) = Len(s) + 1
         /\ \A j \in 1..Len(s)+1 :
               /\ j < i => InsertAt(s, i, e)[j] = s[j]
               /\ j = i => InsertAt(s, i, e)[j] = e
               /\ j > i => InsertAt(s, i, e)[j] = s[j-1]
<1> DEFINE before == SubSeq(s, 1, i-1)
           upto == before \o <<e>>
           behind == SubSeq(s, i, Len(s))
<1>1. /\ Len(s) \in Nat
      /\ \A j \in 1..Len(s) : s[j] \in S
  OBVIOUS
<1>2. /\ before \in Seq(S) /\ Len(before) = i-1
      /\ \A j \in 1..i-1 : before[j] = s[j]
  BY <1>1, SubSeqProperties
<1>3. /\ behind \in Seq(S) /\ Len(behind) = Len(s) - i + 1
      /\ \A j \in 1..Len(s)-i+1 : behind[j] = s[i+j-1]
  BY <1>1, SubSeqProperties
<1>4. /\ <<e>> \in Seq(S) /\ Len(<<e>>) = 1 /\ <<e>>[1] = e
  OBVIOUS
<1> HIDE DEF before, behind
<1>5. /\ upto \in Seq(S) /\ Len(upto) = i
      /\ \A j \in 1..i : upto[j] = IF j < i THEN s[j] ELSE e
  BY <1>1, <1>2, <1>4, ConcatProperties
<1>6. InsertAt(s, i, e) = upto \o behind  BY DEF InsertAt, before, behind
<1> HIDE DEF upto
<1>7. /\ upto \o behind \in Seq(S)
      /\ Len(upto \o behind) = Len(upto) + Len(behind)
      /\ \A j \in 1..Len(upto) + Len(behind) : (upto \o behind)[j] =
            IF j <= Len(upto) THEN upto[j] ELSE behind[j - Len(upto)]
  BY <1>3, <1>5, ConcatProperties, Zenon
<1>8. Len(upto) + Len(behind) = Len(s) + 1
  BY <1>1, <1>3, <1>5
<1>9. ASSUME NEW j \in 1..Len(s)+1
      PROVE  /\ j < i => (upto \o behind)[j] = s[j]
             /\ j = i => (upto \o behind)[j] = e
             /\ j > i => (upto \o behind)[j] = s[j-1]
  <2>1. (upto \o behind)[j] = IF j <= i THEN upto[j] ELSE behind[j - i]
    BY <1>5, <1>7, <1>8
  <2>2. CASE j <= i
    <3>1. j \in 1..i /\ (j < i \/ j = i) /\ ~(j > i)  BY <2>2, <1>1
    <3>2. QED  BY <3>1, <2>1, <2>2, <1>5
  <2>3. CASE ~(j <= i)
    <3>1. /\ j - i \in 1..Len(s)-i+1 /\ ~(j < i) /\ j # i
          /\ i + (j - i) - 1 = j-1
      BY <2>3, <1>1
    <3>2. QED  BY <3>1, <2>1, <2>3, <1>3
  <2>4. QED  BY <2>2, <2>3
<1>10. QED  BY <1>6, <1>7, <1>8, <1>9

\* r is s with e linked in at position i.
LinkedIn(s, i, e, r) ==
  /\ Len(r) = Len(s) + 1
  /\ \A j \in 1..Len(s)+1 :
        /\ j < i => r[j] = s[j]
        /\ j = i => r[j] = e
        /\ j > i => r[j] = s[j-1]

LEMMA LinkedElements ==
  ASSUME NEW S, NEW s \in Seq(S), NEW i \in 1..Len(s)+1, NEW e \in S
  PROVE  InsertAt(s, i, e) \in Seq(S) /\ LinkedIn(s, i, e, InsertAt(s, i, e))
BY LinkElements DEF LinkedIn

\* Unlinking takes exactly the element at position i out of the list.
LEMMA UnlinkOnce ==
  ASSUME NEW S, NEW s \in Seq(S), IsInjective(s), NEW i \in 1..Len(s)
  PROVE  /\ IsInjective(RemoveAt(s, i))
         /\ ToSet(RemoveAt(s, i)) = ToSet(s) \ {s[i]}
<1> DEFINE r == RemoveAt(s, i)
<1>1. /\ r \in Seq(S) /\ Len(r) = Len(s) - 1
      /\ \A j \in 1..Len(s)-1 : r[j] = IF j < i THEN s[j] ELSE s[j+1]
  BY UnlinkElements
<1>2. DOMAIN s = 1..Len(s) /\ DOMAIN r = 1..Len(s)-1 /\ Len(s) \in Nat
  BY <1>1
<1> HIDE DEF r
<1>3. \A j, k \in 1..Len(s) : s[j] = s[k] => j = k
  BY <1>2 DEF IsInjective
<1>4. \A j, k \in 1..Len(s)-1 : r[j] = r[k] => j = k
  <2> TAKE j, k \in 1..Len(s)-1
  <2>1. j \in 1..Len(s) /\ k \in 1..Len(s) /\ j+1 \in 1..Len(s) /\ k+1 \in 1..Len(s)
    BY <1>2
  <2>2. QED  BY <1>1, <1>2, <1>3, <2>1
<1>5. IsInjective(r)
  BY <1>2, <1>4 DEF IsInjective
<1>6. ASSUME NEW j \in 1..Len(s)-1
      PROVE  \E k \in 1..Len(s) : k # i /\ r[j] = s[k]
  <2>1. CASE j < i  BY <2>1, <1>1, <1>2
  <2>2. CASE ~(j < i)
    <3>1. j+1 \in 1..Len(s) /\ j+1 # i  BY <2>2, <1>2
    <3>2. QED  BY <3>1, <2>2, <1>1
  <2>3. QED  BY <2>1, <2>2
<1>7. ASSUME NEW k \in 1..Len(s), k # i
      PROVE  \E j \in 1..Len(s)-1 : r[j] = s[k]
  <2>1. CASE k < i  BY <2>1, <1>1, <1>2
  <2>2. CASE k > i
    <3>1. k-1 \in 1..Len(s)-1 /\ ~(k-1 < i) /\ (k-1)+1 = k  BY <2>2, <1>2
    <3>2. QED  BY <3>1, <1>1
  <2>3. QED  BY <1>7, <2>1, <2>2, <1>2
<1>8. ToSet(r) = ToSet(s) \ {s[i]}
  <2>1. ASSUME NEW z  PROVE z \in ToSet(r) <=> \E j \in 1..Len(s)-1 : z = r[j]
    BY <1>2 DEF ToSet
  <2>2. ASSUME NEW z  PROVE z \in ToSet(s) <=> \E k \in 1..Len(s) : z = s[k]
    BY <1>2 DEF ToSet
  <2>3. ASSUME NEW z \in ToSet(r)  PROVE z \in ToSet(s) /\ z # s[i]
    BY <2>1, <2>2, <1>3, <1>6
  <2>4. ASSUME NEW z \in ToSet(s), z # s[i]  PROVE z \in ToSet(r)
    BY <2>1, <2>2, <2>4, <1>7
  <2>5. QED  BY <2>3, <2>4
<1>9. QED  BY <1>5, <1>8 DEF r

\* Linking in an element that was not in the list adds exactly that one.
LEMMA LinkOnce ==
  ASSUME NEW S, NEW s \in Seq(S), IsInjective(s), NEW i \in 1..Len(s)+1,
         NEW e \in S, e \notin ToSet(s)
  PROVE  /\ IsInjective(InsertAt(s, i, e))
         /\ ToSet(InsertAt(s, i, e)) = ToSet(s) \cup {e}
<1> DEFINE r == InsertAt(s, i, e)
<1>1. /\ r \in Seq(S) /\ Len(r) = Len(s) + 1
      /\ \A j \in 1..Len(s)+1 :
            /\ j < i => r[j] = s[j]
            /\ j = i => r[j] = e
            /\ j > i => r[j] = s[j-1]
  <2>1. r \in Seq(S) /\ LinkedIn(s, i, e, r)  BY LinkedElements
  <2> HIDE DEF r
  <2>2. QED  BY <2>1 DEF LinkedIn
<1>2. DOMAIN s = 1..Len(s) /\ DOMAIN r = 1..Len(s)+1 /\ Len(s) \in Nat
  BY <1>1
<1> HIDE DEF r
<1>3. \A j \in 1..Len(s) : s[j] # e
  BY <1>2 DEF ToSet
<1>4. \A j, k \in 1..Len(s) : s[j] = s[k] => j = k
  BY <1>2 DEF IsInjective
<1>5. \A j, k \in 1..Len(s)+1 : r[j] = r[k] => j = k
  <2> TAKE j, k \in 1..Len(s)+1
  <2>1. /\ j < i => j \in 1..Len(s)
        /\ k < i => k \in 1..Len(s)
        /\ j > i => j-1 \in 1..Len(s)
        /\ k > i => k-1 \in 1..Len(s)
        /\ j < i \/ j = i \/ j > i
        /\ k < i \/ k = i \/ k > i
    BY <1>2
  <2>2. /\ j < i => r[j] = s[j]
        /\ j = i => r[j] = e
        /\ j > i => r[j] = s[j-1]
        /\ k < i => r[k] = s[k]
        /\ k = i => r[k] = e
        /\ k > i => r[k] = s[k-1]
    BY <1>1, <1>2
  <2>3. CASE j = i  BY <2>1, <2>2, <2>3, <1>3
  <2>4. CASE k = i  BY <2>1, <2>2, <2>4, <1>3
  <2>5. CASE j # i /\ k # i
    <3>1. CASE j < i /\ k < i  BY <3>1, <2>1, <2>2, <1>4
    <3>2. CASE j > i /\ k > i
      <4>1. r[j] = r[k] => j-1 = k-1  BY <3>2, <2>1, <2>2, <1>4
      <4>2. QED  BY <4>1
    <3>3. CASE j < i /\ k > i
      <4>1. r[j] = r[k] => j = k-1  BY <3>3, <2>1, <2>2, <1>4
      <4>2. QED  BY <4>1, <3>3
    <3>4. CASE j > i /\ k < i
      <4>1. r[j] = r[k] => j-1 = k  BY <3>4, <2>1, <2>2, <1>4
      <4>2. QED  BY <4>1, <3>4
    <3>5. QED  BY <2>5, <2>1, <3>1, <3>2, <3>3, <3>4
  <2>6. QED  BY <2>3, <2>4, <2>5
<1>6. IsInjective(r)
  BY <1>2, <1>5 DEF IsInjective
<1>7. ASSUME NEW j \in 1..Len(s)+1, j # i
      PROVE  \E k \in 1..Len(s) : r[j] = s[k]
  <2>1. CASE j < i  BY <2>1, <1>1, <1>2
  <2>2. CASE j > i
    <3>1. j-1 \in 1..Len(s)  BY <2>2, <1>2
    <3>2. QED  BY <3>1, <2>2, <1>1, <1>2
  <2>3. QED  BY <1>7, <2>1, <2>2, <1>2
<1>8. ASSUME NEW k \in 1..Len(s)
      PROVE  \E j \in 1..Len(s)+1 : r[j] = s[k]
  <2>1. CASE k < i  BY <2>1, <1>1, <1>2
  <2>2. CASE ~(k < i)
    <3>1. k+1 \in 1..Len(s)+1 /\ k+1 > i /\ (k+1)-1 = k
      BY <2>2, <1>2
    <3>2. QED  BY <3>1, <1>1
  <2>3. QED  BY <2>1, <2>2
<1>9. r[i] = e  BY <1>1, <1>2
<1>10. ToSet(r) = ToSet(s) \cup {e}
  <2>1. ASSUME NEW z  PROVE z \in ToSet(r) <=> \E j \in 1..Len(s)+1 : z = r[j]
    BY <1>2 DEF ToSet
  <2>2. ASSUME NEW z  PROVE z \in ToSet(s) <=> \E k \in 1..Len(s) : z = s[k]
    BY <1>2 DEF ToSet
  <2>3. ASSUME NEW z \in ToSet(r)  PROVE z \in ToSet(s) \cup {e}
    <3>1. PICK j \in 1..Len(s)+1 : z = r[j]  BY <2>1
    <3>2. CASE j = i  BY <3>1, <3>2, <1>9
    <3>3. CASE j # i  BY <3>1, <3>3, <2>2, <1>7
    <3>4. QED  BY <3>2, <3>3
  <2>4. ASSUME NEW z \in ToSet(s)  PROVE z \in ToSet(r)
    <3>1. PICK k \in 1..Len(s) : z = s[k]  BY <2>2
    <3>2. QED  BY <3>1, <2>1, <1>8
  <2>5. e \in ToSet(r)
    <3>1. i \in 1..Len(s)+1  OBVIOUS
    <3>2. QED  BY <3>1, <2>1, <1>9
  <2>6. QED  BY <2>3, <2>4, <2>5
<1>11. QED  BY <1>6, <1>10 DEF r

\* Putting an element that was not in the list at its end.
LEMMA AppendOnce ==
  ASSUME NEW S, NEW s \in Seq(S), IsInjective(s), NEW e \in S, e \notin ToSet(s)
  PROVE  /\ Append(s, e) \in Seq(S) /\ Len(Append(s, e)) = Len(s) + 1
         /\ IsInjective(Append(s, e))
         /\ ToSet(Append(s, e)) = ToSet(s) \cup {e}
<1> DEFINE r == Append(s, e)
<1>1. /\ r \in Seq(S) /\ Len(r) = Len(s)+1 /\ r[Len(s)+1] = e
      /\ \A j \in 1..Len(s) : r[j] = s[j]
  BY AppendProperties
<1>2. DOMAIN s = 1..Len(s) /\ DOMAIN r = 1..Len(s)+1 /\ Len(s) \in Nat
  BY <1>1
<1> HIDE DEF r
<1>3. \A j \in 1..Len(s) : s[j] # e
  BY <1>2 DEF ToSet
<1>4. \A j, k \in 1..Len(s) : s[j] = s[k] => j = k
  BY <1>2 DEF IsInjective
<1>5. \A j \in 1..Len(s)+1 : j \in 1..Len(s) \/ j = Len(s)+1
  BY <1>2
<1>6. \A j, k \in 1..Len(s)+1 : r[j] = r[k] => j = k
  BY <1>1, <1>3, <1>4, <1>5
<1>7. IsInjective(r)
  BY <1>2, <1>6 DEF IsInjective
<1>8. ToSet(r) = ToSet(s) \cup {e}
  <2>1. ASSUME NEW z  PROVE z \in ToSet(r) <=> \E j \in 1..Len(s)+1 : z = r[j]
    BY <1>2 DEF ToSet
  <2>2. ASSUME NEW z  PROVE z \in ToSet(s) <=> \E k \in 1..Len(s) : z = s[k]
    BY <1>2 DEF ToSet
  <2>3. 1..Len(s) \subseteq 1..Len(s)+1 /\ Len(s)+1 \in 1..Len(s)+1  BY <1>2
  <2>4. QED  BY <2>1, <2>2, <2>3, <1>1, <1>5
<1>9. QED  BY <1>1, <1>7, <1>8 DEF r

\* A sequence without its last element.
LEMMA FrontFact ==
  ASSUME NEW S, NEW s \in Seq(S), s # <<>>
  PROVE  /\ Len(s) \in Nat \ {0} /\ Last(s) = s[Len(s)] /\ Last(s) \in S
         /\ Front(s) \in Seq(S) /\ Len(Front(s)) = Len(s) - 1
         /\ \A i \in 1..Len(s)-1 : Front(s)[i] = s[i]
<1>1. Len(s) \in Nat /\ Len(s) # 0 /\ \A j \in 1..Len(s) : s[j] \in S
  BY EmptySeq
<1>2. Len(s) \in 1..Len(s)  BY <1>1
<1>3. /\ SubSeq(s, 1, Len(s)-1) \in Seq(S)
      /\ Len(SubSeq(s, 1, Len(s)-1)) = Len(s)-1
      /\ \A j \in 1..Len(s)-1 : SubSeq(s, 1, Len(s)-1)[j] = s[j]
  <2> DEFINE n == Len(s) - 1
  <2>1. n \in Nat /\ n-1+1 = n  BY <1>1
  <2>2. \A j \in 1..n : s[j] \in S /\ 1+j-1 = j
    BY <1>1
  <2> HIDE DEF n
  <2>3. 1 \in Int /\ n \in Int  BY <2>1
  <2>4. /\ SubSeq(s, 1, n) \in Seq(S)
        /\ Len(SubSeq(s, 1, n)) = IF 1 <= n THEN n-1+1 ELSE 0
        /\ \A j \in 1..n-1+1 : SubSeq(s, 1, n)[j] = s[1+j-1]
    BY <2>2, <2>3, SubSeqProperties
  <2>5. /\ SubSeq(s, 1, n) \in Seq(S) /\ Len(SubSeq(s, 1, n)) = n
        /\ \A j \in 1..n : SubSeq(s, 1, n)[j] = s[j]
    BY <2>1, <2>2, <2>4
  <2>6. QED  BY <2>5 DEF n
<1>4. QED  BY <1>1, <1>2, <1>3 DEF Front, Last

\* Taking the element at the end of the list.
LEMMA FrontOnce ==
  ASSUME NEW S, NEW s \in Seq(S), IsInjective(s), s # <<>>
  PROVE  /\ Front(s) \in Seq(S) /\ Last(s) \in S
         /\ Len(Front(s)) = Len(s) - 1
         /\ IsInjective(Front(s))
         /\ Last(s) \in ToSet(s)
         /\ ToSet(Front(s)) = ToSet(s) \ {Last(s)}
<1>1. Len(s) \in Nat /\ Len(s) # 0 /\ \A j \in 1..Len(s) : s[j] \in S
  BY EmptySeq
<1>2. Len(s) \in 1..Len(s)  BY <1>1
<1>3. /\ Front(s) \in Seq(S) /\ Len(Front(s)) = Len(s)-1
      /\ \A j \in 1..Len(s)-1 : Front(s)[j] = s[j]
  BY FrontFact
<1>4. /\ RemoveAt(s, Len(s)) \in Seq(S)
      /\ Len(RemoveAt(s, Len(s))) = Len(s)-1
      /\ \A j \in 1..Len(s)-1 : RemoveAt(s, Len(s))[j] = s[j]
  BY <1>1, <1>2, UnlinkElements
<1>5. Front(s) = RemoveAt(s, Len(s))
  BY <1>3, <1>4, SeqEqual
<1>6. /\ IsInjective(RemoveAt(s, Len(s)))
      /\ ToSet(RemoveAt(s, Len(s))) = ToSet(s) \ {s[Len(s)]}
  BY <1>2, UnlinkOnce
<1>7. Last(s) = s[Len(s)]  BY DEF Last
<1>8. s[Len(s)] \in ToSet(s)  BY <1>1, <1>2 DEF ToSet
<1>9. QED  BY <1>1, <1>2, <1>3, <1>5, <1>6, <1>7, <1>8

\* Joining two lists that share no element.
LEMMA JoinOnce ==
  ASSUME NEW S, NEW s \in Seq(S), NEW t \in Seq(S),
         IsInjective(s), IsInjective(t), ToSet(s) \cap ToSet(t) = {}
  PROVE  /\ s \o t \in Seq(S) /\ Len(s \o t) = Len(s) + Len(t)
         /\ IsInjective(s \o t)
<1> DEFINE r == s \o t
<1>1. /\ r \in Seq(S) /\ Len(r) = Len(s) + Len(t)
      /\ \A j \in 1..Len(s)+Len(t) :
            r[j] = IF j <= Len(s) THEN s[j] ELSE t[j - Len(s)]
  BY ConcatProperties
<1>2. /\ Len(s) \in Nat /\ Len(t) \in Nat /\ DOMAIN r = 1..Len(s)+Len(t)
      /\ DOMAIN s = 1..Len(s) /\ DOMAIN t = 1..Len(t)
  BY <1>1
<1> HIDE DEF r
<1>3. \A j \in 1..Len(s), k \in 1..Len(t) : s[j] # t[k]
  <2>1. \A j \in 1..Len(s) : s[j] \in ToSet(s)  BY <1>2 DEF ToSet
  <2>2. \A k \in 1..Len(t) : t[k] \in ToSet(t)  BY <1>2 DEF ToSet
  <2>3. QED  BY <2>1, <2>2
<1>4. /\ \A j, k \in 1..Len(s) : s[j] = s[k] => j = k
      /\ \A j, k \in 1..Len(t) : t[j] = t[k] => j = k
  BY <1>2 DEF IsInjective
<1>5. \A j \in 1..Len(s)+Len(t) :
         IF j <= Len(s) THEN j \in 1..Len(s) ELSE j - Len(s) \in 1..Len(t)
  BY <1>2
<1>6. \A j, k \in 1..Len(s)+Len(t) : r[j] = r[k] => j = k
  BY <1>1, <1>2, <1>3, <1>4, <1>5
<1>7. IsInjective(r)
  BY <1>2, <1>6 DEF IsInjective
<1>8. QED  BY <1>1, <1>7 DEF r

\* A request is of one of four kinds.
LEMMA RequestKinds ==
  ASSUME NEW r \in Request
  PROVE  /\ r.type \in {"start", "stop", "serverStart", "serverStop"}
         /\ r.type = "start" =>
              r.port \in Port /\ r.id \in Id /\ r.period \in Nat /\ r.serial \in Serial
         /\ r.type = "stop" => r.port \in Port /\ r.id \in Id
<1>1. CASE r \in StartReq  BY <1>1, TimerServerAssumption DEF StartReq
<1>2. CASE r \in StopReq  BY <1>2 DEF StopReq
<1>3. CASE r \in [type: {"serverStart", "serverStop"}]  BY <1>3
<1>4. QED  BY <1>1, <1>2, <1>3 DEF Request

\* A pointer walks from an entry of the used list to another one or to PNULL.
LEMMA NextOfUsed ==
  ASSUME used \in Seq(Entry), NEW e
  PROVE  NextOf(e) \in ToSet(used) \cup {PNULL}
<1>1. CASE \E i \in 1..Len(used)-1 : used[i] = e
  <2> DEFINE k == CHOOSE i \in 1..Len(used)-1 : used[i] = e
  <2>1. k \in 1..Len(used)-1  BY <1>1
  <2>0. NextOf(e) = used[1 + k]  BY <1>1 DEF NextOf
  <2> HIDE DEF k
  <2>2. 1 + k \in 1..Len(used)  BY <2>1
  <2>3. used[1 + k] \in ToSet(used)  BY <2>2 DEF ToSet
  <2>4. QED  BY <2>0, <2>3
<1>2. CASE ~ \E i \in 1..Len(used)-1 : used[i] = e
  BY <1>2 DEF NextOf
<1>3. QED  BY <1>1, <1>2

\* When the list has no duplicates the next entry is a different one.
LEMMA NextOfOther ==
  ASSUME used \in Seq(Entry), IsInjective(used), NEW e \in Entry
  PROVE  NextOf(e) # e
<1>1. CASE \E i \in 1..Len(used)-1 : used[i] = e
  <2> DEFINE k == CHOOSE i \in 1..Len(used)-1 : used[i] = e
  <2>1. k \in 1..Len(used)-1 /\ used[k] = e  BY <1>1
  <2>0. NextOf(e) = used[1 + k]  BY <1>1 DEF NextOf
  <2> HIDE DEF k
  <2>2. /\ 1 + k \in 1..Len(used) /\ k \in 1..Len(used) /\ 1 + k # k
        /\ DOMAIN used = 1..Len(used)
    BY <2>1
  <2>3. used[1 + k] # used[k]  BY <2>2 DEF IsInjective
  <2>4. QED  BY <2>0, <2>1, <2>3
<1>2. CASE ~ \E i \in 1..Len(used)-1 : used[i] = e
  BY <1>2, TimerServerAssumption DEF NextOf
<1>3. QED  BY <1>1, <1>2

\* Where a walk starts.
LEMMA HeadOfUsed ==
  ASSUME used \in Seq(Entry)
  PROVE  HeadOf(used) \in ToSet(used) \cup {PNULL}
<1>1. CASE used = <<>>  BY <1>1 DEF HeadOf
<1>2. CASE used # <<>>
  <2>1. 1 \in 1..Len(used) /\ Head(used) = used[1]  BY <1>2
  <2>2. Head(used) \in ToSet(used)  BY <2>1 DEF ToSet
  <2>3. QED  BY <1>2, <2>2 DEF HeadOf
<1>3. QED  BY <1>1, <1>2

\* The entries of a list of entries are entries.
LEMMA ToSetEntries ==
  ASSUME NEW s \in Seq(Entry)  PROVE ToSet(s) \subseteq Entry
BY DEF ToSet

(***************************************************************************)
(* Type correctness.                                                       *)
(***************************************************************************)
\* What the message loop holds is a request while it works on one.
LEMMA BacklogTyped ==
  ASSUME ServerTypeOK, backlog # <<>>
  PROVE  Head(backlog) \in Request /\ Tail(backlog) \in Seq(Request)
BY DEF ServerTypeOK

\* Every state variable keeps its type.  PhaseInv goes along: the fields of
\* the request that the message loop works on are those of its kind.
LEMMA ServerTyped == Spec => [](ServerTypeOK /\ PhaseInv)
<1> USE DEF MsgPc, TickPc
<1>1. Init => ServerTypeOK /\ PhaseInv
  <2> SUFFICES ASSUME Init  PROVE ServerTypeOK /\ PhaseInv
    OBVIOUS
  <2>1. [type |-> "serverStart"] \in Request  BY DEF Request
  <2>2. backlog \in Seq(Request)  BY <2>1 DEF Init
  <2>3. timer \in [Entry -> Timer]  BY DEF Init, Timer
  <2>4. fate \in [Serial -> Fate]  BY DEF Init, Fate
  <2>5. free \in Seq(Entry) /\ used \in Seq(Entry)
    BY EmptySeq DEF Init
  <2>6. mpc \in MsgPc /\ msg \in Request \cup {NoMsg} /\ tick \in Nat /\ left \in [Serial -> Nat]
    BY DEF Init
  <2>7. tpc \in [Ticker -> TickPc] /\ load \in [Ticker -> Nat] /\ cur \in [Ticker -> Entry \cup {PNULL}]
    BY DEF Init
  <2>8. QED  BY <2>2, <2>3, <2>4, <2>5, <2>6, <2>7 DEF Init, ServerTypeOK, PhaseInv
<1>2. ServerTypeOK /\ PhaseInv /\ [Next]_vars => ServerTypeOK' /\ PhaseInv'
  <2> SUFFICES ASSUME ServerTypeOK, PhaseInv, [Next]_vars  PROVE ServerTypeOK' /\ PhaseInv'
    OBVIOUS
  <2>1. CASE AcceptRequest
    <3>1. Head(backlog) \in Request /\ Tail(backlog) \in Seq(Request)
      BY <2>1, BacklogTyped DEF AcceptRequest
    <3>2. msg' \in Request /\ msg'.type \in {"start", "stop", "serverStop"}
      BY <2>1, <3>1 DEF AcceptRequest, Request, StartReq, StopReq
    <3>3. /\ mpc' \in {"wantAlloc", "wantStop", "wantFree"}
          /\ mpc' = "wantAlloc" => msg'.type = "start"
          /\ mpc' = "wantStop" => msg'.type = "stop"
      BY <2>1, <3>2 DEF AcceptRequest, Dispatch
    <3>4. QED  BY <2>1, <3>1, <3>2, <3>3
      DEF AcceptRequest, ServerTypeOK, PhaseInv, listVars, tickVars, clientVars
  <2>2. CASE ActionTimerServerStart
    <3>1. Tail(backlog) \in Seq(Request)
      BY <2>2, BacklogTyped DEF ActionTimerServerStart
    <3>2. Cardinality(Entry) \in Nat
      BY TimerServerAssumption, FS_CardinalityType
    <3>3. free' \in Seq(Entry)
      BY <2>2, <3>2 DEF ActionTimerServerStart
    <3>4. QED  BY <2>2, <3>1, <3>3
      DEF ActionTimerServerStart, ServerTypeOK, PhaseInv, tickVars, clientVars
  <2>3. ASSUME Abort, UNCHANGED <<fate, left>>  PROVE ServerTypeOK' /\ PhaseInv'
    BY <2>3 DEF Abort, ServerTypeOK, PhaseInv, listVars, clientVars
  <2>4. CASE ServerLock
    <3>1. /\ mpc' \in {"holdAlloc", "holdStop", "holdFree", "holdDelete"}
          /\ mpc' = "holdAlloc" => mpc = "wantAlloc"
          /\ mpc' = "holdStop" => mpc = "wantStop"
      BY <2>4 DEF ServerLock, Holding
    <3>2. QED  BY <2>4, <3>1
      DEF ServerLock, ServerTypeOK, PhaseInv, listVars, tickVars, clientVars
  <2>5. CASE AllocTimer
    <3>1. msg \in Request /\ msg.type = "start"
      BY <2>5 DEF AllocTimer, ServerTypeOK, PhaseInv, NoMsg
    <3>2. msg.port \in Port /\ msg.id \in Id /\ msg.period \in Nat /\ msg.serial \in Serial
      BY <3>1, RequestKinds
    <3>3. Last(free) \in Entry /\ Front(free) \in Seq(Entry)
      <4>1. Len(free) \in Nat /\ Len(free) # 0
        BY <2>5, EmptySeq DEF AllocTimer, ServerTypeOK
      <4>2. Last(free) \in Entry  BY <4>1 DEF Last, ServerTypeOK
      <4>3. \A i \in 1..Len(free)-1 : free[i] \in Entry  BY <4>1 DEF ServerTypeOK
      <4>4. Front(free) \in Seq(Entry)
        BY <4>1, <4>3, SubSeqProperties DEF Front
      <4>5. QED  BY <4>2, <4>4
    <3>4. used' \in Seq(Entry)
      BY <2>5, <3>3, LinkElements DEF AllocTimer, ServerTypeOK
    <3>5. timer' \in [Entry -> Timer]
      <4>1. tick + msg.period \in Nat  BY <3>2 DEF ServerTypeOK
      <4>2. [expiry |-> tick + msg.period, port |-> msg.port,
             id |-> msg.id, serial |-> msg.serial] \in Timer
        BY <4>1, <3>2 DEF Timer
      <4>3. QED  BY <2>5, <4>2 DEF AllocTimer, ServerTypeOK
    <3>6. fate' \in [Serial -> Fate]
      BY <2>5 DEF AllocTimer, ServerTypeOK, Fate
    <3>7. left' \in [Serial -> Nat]
      BY <2>5, <3>2 DEF AllocTimer, ServerTypeOK
    <3>8. QED  BY <2>5, <3>3, <3>4, <3>5, <3>6, <3>7
      DEF AllocTimer, ServerTypeOK, PhaseInv, tickVars, clientVars
  <2>6. ASSUME NEW i \in 1..Len(used), FreeTimerUnprotected(used[i])
        PROVE  free' \in Seq(Entry) /\ used' \in Seq(Entry) /\ timer' \in [Entry -> Timer]
    <3>1. used[i] \in Entry  BY DEF ServerTypeOK
    <3>2. used' \in Seq(Entry)
      BY <2>6, UnlinkElements DEF FreeTimerUnprotected, ServerTypeOK
    <3>3. QED  BY <2>6, <3>1, <3>2 DEF FreeTimerUnprotected, ServerTypeOK, Timer
  <2>7. CASE ActionTimerStop
    <3>1. free' \in Seq(Entry) /\ used' \in Seq(Entry) /\ timer' \in [Entry -> Timer]
      BY <2>7, <2>6 DEF ActionTimerStop, ServerTypeOK, listVars, Match
    <3>2. fate' \in [Serial -> Fate]
      BY <2>7 DEF ActionTimerStop, ServerTypeOK, Fate, Final
    <3>3. msg' = NoMsg /\ mpc' = "accept" /\ lock' = "none"
      BY <2>7 DEF ActionTimerStop
    <3>4. UNCHANGED <<backlog, ticking, tick, tickVars, clientVars, left>>
      BY <2>7 DEF ActionTimerStop
    <3>5. QED  BY <3>1, <3>2, <3>3, <3>4
      DEF ServerTypeOK, PhaseInv, tickVars, clientVars
  <2>8. CASE FreeAllTimers
    <3>1. free' \in Seq(Entry) /\ used' \in Seq(Entry)
      BY <2>8, ConcatProperties DEF FreeAllTimers, ServerTypeOK
    <3>2. timer' \in [Entry -> Timer]
      BY <2>8 DEF FreeAllTimers, Timer
    <3>3. fate' \in [Serial -> Fate]
      BY <2>8 DEF FreeAllTimers, ServerTypeOK, Fate, Final
    <3>4. QED  BY <2>8, <3>1, <3>2, <3>3
      DEF FreeAllTimers, ServerTypeOK, PhaseInv, tickVars, clientVars
  <2>9. CASE DeleteTimer
    BY <2>9, EmptySeq DEF DeleteTimer, ServerTypeOK, PhaseInv, tickVars, clientVars
  <2>10. CASE Exit
    BY <2>10 DEF Exit, ServerTypeOK, PhaseInv, listVars, clientVars
  <2>11. ASSUME NEW t \in Ticker, TickFire(t)  PROVE ServerTypeOK' /\ PhaseInv'
    <3>1. left' \in [Serial -> Nat]
      BY <2>11 DEF TickFire, ServerTypeOK
    <3>2. QED  BY <2>11, <3>1
      DEF TickFire, ServerTypeOK, PhaseInv, serverVars, listVars, clientVars
  <2>12. ASSUME NEW t \in Ticker, TickStore(t)  PROVE ServerTypeOK' /\ PhaseInv'
    <3>1. tick' \in Nat
      BY <2>12, TimerServerAssumption DEF TickStore, ServerTypeOK
    <3>2. QED  BY <2>12, <3>1
      DEF TickStore, ServerTypeOK, PhaseInv, serverVars, listVars, clientVars
  <2>13. ASSUME NEW t \in Ticker, TickTryLock(t)  PROVE ServerTypeOK' /\ PhaseInv'
    <3>1. HeadOf(used) \in Entry \cup {PNULL}
      BY HeadOfUsed, ToSetEntries DEF ServerTypeOK
    <3>2. cur' \in [Ticker -> Entry \cup {PNULL}]
      BY <2>13, <3>1 DEF TickTryLock, ServerTypeOK
    <3>3. QED  BY <2>13, <3>2
      DEF TickTryLock, ServerTypeOK, PhaseInv, serverVars, listVars, clientVars
  <2>14. \A e : NextOf(e) \in Entry \cup {PNULL}
    BY NextOfUsed, ToSetEntries DEF ServerTypeOK
  <2>15. ASSUME NEW t \in Ticker, TickWalk(t)  PROVE ServerTypeOK' /\ PhaseInv'
    <3>1. cur' \in [Ticker -> Entry \cup {PNULL}]
      BY <2>15, <2>14 DEF TickWalk, ServerTypeOK
    <3>2. QED  BY <2>15, <3>1
      DEF TickWalk, ServerTypeOK, PhaseInv, serverVars, listVars, clientVars
  <2>16. ASSUME NEW t \in Ticker, TickSend(t)  PROVE ServerTypeOK' /\ PhaseInv'
    <3>1. free' \in Seq(Entry) /\ used' \in Seq(Entry) /\ timer' \in [Entry -> Timer]
      BY <2>16, <2>6 DEF TickSend, FreeTimerUnprotected
    <3>2. cur' \in [Ticker -> Entry \cup {PNULL}]
      BY <2>16, <2>14 DEF TickSend, ServerTypeOK
    <3>3. fate' \in [Serial -> Fate]
      BY <2>16 DEF TickSend, ServerTypeOK, Fate, Final
    <3>4. open' = open /\ left' = left /\ tpc' \in [Ticker -> TickPc]
      BY <2>16 DEF TickSend, ServerTypeOK
    <3>5. QED  BY <2>16, <3>1, <3>2, <3>3, <3>4
      DEF TickSend, ServerTypeOK, PhaseInv, serverVars
  <2>17. ASSUME NEW r \in StartReq, SendStartTimer(r)  PROVE ServerTypeOK' /\ PhaseInv'
    <3>1. r \in Request  BY DEF Request
    <3>2. fate' \in [Serial -> Fate]
      BY <2>17 DEF SendStartTimer, ServerTypeOK, Fate
    <3>3. QED  BY <2>17, <3>1, <3>2, AppendProperties
      DEF SendStartTimer, Connect, ServerTypeOK, PhaseInv, listVars, tickVars, clientVars
  <2>18. ASSUME NEW r \in Request, Connect(r), UNCHANGED <<fate, left>>
         PROVE  ServerTypeOK' /\ PhaseInv'
    BY <2>18, AppendProperties
      DEF Connect, ServerTypeOK, PhaseInv, listVars, tickVars, clientVars
  <2>19. ASSUME NEW r \in StopReq, SendStopTimer(r)  PROVE ServerTypeOK' /\ PhaseInv'
    BY <2>19, <2>18 DEF SendStopTimer, Request
  <2>20. CASE StopTimerServer
    <3>1. [type |-> "serverStop"] \in Request  BY DEF Request
    <3>2. QED  BY <2>20, <3>1, <2>18 DEF StopTimerServer
  <2>21. ASSUME NEW p \in Port, TakeExpiryMsg(p)  PROVE ServerTypeOK' /\ PhaseInv'
    BY <2>21 DEF TakeExpiryMsg, ServerTypeOK, PhaseInv, serverVars, listVars, tickVars
  <2>22. ASSUME NEW p \in Port, ClientExit(p)  PROVE ServerTypeOK' /\ PhaseInv'
    BY <2>22 DEF ClientExit, ServerTypeOK, PhaseInv, serverVars, listVars, tickVars
  <2>23. CASE UNCHANGED vars
    BY <2>23 DEF vars, ServerTypeOK, PhaseInv
  <2>24. QED
    BY <2>1, <2>2, <2>3, <2>4, <2>5, <2>7, <2>8, <2>9, <2>10, <2>11, <2>12, <2>13,
       <2>15, <2>16, <2>17, <2>19, <2>20, <2>21, <2>22, <2>23
    DEF Next, ServerStep, TickStep, ClientStep, ServerStartFails, AllocTimerFails
<1>3. QED  BY <1>1, <1>2, PTL DEF Spec

(***************************************************************************)
(* The mutex.                                                              *)
(***************************************************************************)
\* lockLinkedLists is held by exactly one thread: the message loop in one of
\* its four regions, or the tick thread that walks the list.
LEMMA MutexHeld == Spec => []LockInv
<1>1. Init => LockInv
  BY TimerServerAssumption DEF Init, LockInv
<1>2. ServerTypeOK /\ LockInv /\ [Next]_vars => LockInv'
  <2> SUFFICES ASSUME ServerTypeOK, LockInv, [Next]_vars  PROVE LockInv'
    OBVIOUS
  <2> USE TimerServerAssumption DEF LockInv, ServerTypeOK
  <2>1. CASE AcceptRequest
    <3>1. mpc' \in {"wantAlloc", "wantStop", "wantFree"}
      <4>1. Head(backlog) \in Request  BY <2>1, EmptySeq DEF AcceptRequest
      <4>2. Head(backlog).type \in {"start", "stop", "serverStop"}
        BY <2>1, <4>1 DEF AcceptRequest, Request, StartReq, StopReq
      <4>3. QED  BY <2>1, <4>2 DEF AcceptRequest, Dispatch
    <3>2. QED  BY <2>1, <3>1 DEF AcceptRequest, tickVars
  <2>2. CASE ActionTimerServerStart  BY <2>2 DEF ActionTimerServerStart, tickVars
  <2>3. CASE Abort  BY <2>3 DEF Abort
  <2>4. CASE ServerLock
    <3>1. mpc \in {"wantAlloc", "wantStop", "wantFree", "wantDelete"}
      BY <2>4 DEF ServerLock, Holding
    <3>2. mpc' \in {"holdAlloc", "holdStop", "holdFree", "holdDelete"}
      BY <2>4, <3>1 DEF ServerLock, Holding
    <3>3. QED  BY <2>4, <3>1, <3>2 DEF ServerLock, tickVars
  <2>5. CASE AllocTimer  BY <2>5 DEF AllocTimer, tickVars
  <2>6. CASE ActionTimerStop
    <3>1. mpc = "holdStop" /\ mpc' = "accept" /\ lock' = "none" /\ UNCHANGED tickVars
      BY <2>6 DEF ActionTimerStop
    <3>2. QED  BY <3>1 DEF tickVars
  <2>7. CASE FreeAllTimers  BY <2>7 DEF FreeAllTimers, tickVars
  <2>8. CASE DeleteTimer  BY <2>8 DEF DeleteTimer, tickVars
  <2>9. CASE Exit  BY <2>9 DEF Exit
  <2>10. ASSUME NEW t \in Ticker, TickFire(t)  PROVE LockInv'
    BY <2>10 DEF TickFire, serverVars
  <2>11. ASSUME NEW t \in Ticker, TickStore(t)  PROVE LockInv'
    BY <2>11 DEF TickStore, serverVars
  <2>12. ASSUME NEW t \in Ticker, TickTryLock(t)  PROVE LockInv'
    BY <2>12 DEF TickTryLock, serverVars
  <2>13. ASSUME NEW t \in Ticker, TickWalk(t)  PROVE LockInv'
    BY <2>13 DEF TickWalk, serverVars
  <2>14. ASSUME NEW t \in Ticker, TickSend(t)  PROVE LockInv'
    <3>1. tpc[t] = "send" /\ tpc' = [tpc EXCEPT ![t] = "walk"] /\ UNCHANGED <<mpc, lock>>
      BY <2>14 DEF TickSend, serverVars
    <3>2. QED  BY <3>1
  <2>15. CASE ClientStep
    <3>1. UNCHANGED <<mpc, lock, tpc>>
      BY <2>15 DEF ClientStep, SendStartTimer, SendStopTimer, StopTimerServer,
         Connect, TakeExpiryMsg, ClientExit, serverVars, tickVars
    <3>2. QED  BY <3>1
  <2>16. CASE UNCHANGED vars  BY <2>16 DEF vars
  <2>17. QED
    BY <2>1, <2>2, <2>3, <2>4, <2>5, <2>6, <2>7, <2>8, <2>9, <2>10, <2>11, <2>12,
       <2>13, <2>14, <2>15, <2>16
    DEF Next, ServerStep, TickStep, ServerStartFails, AllocTimerFails
<1>3. QED  BY <1>1, <1>2, ServerTyped, PTL DEF Spec

(***************************************************************************)
(* The requests.                                                           *)
(***************************************************************************)
\* What is left of a backlog when its first request is taken.
LEMMA TailOfBacklog ==
  ASSUME backlog \in Seq(Request), backlog # <<>>
  PROVE  /\ Len(backlog) \in Nat /\ 1 \in 1..Len(backlog)
         /\ Head(backlog) = backlog[1]
         /\ Len(Tail(backlog)) = Len(backlog) - 1
         /\ \A i \in 1..Len(backlog)-1 :
               Tail(backlog)[i] = backlog[i+1] /\ i+1 \in 1..Len(backlog)
BY EmptySeq

\* A backlog with one more request at its end.
LEMMA BacklogAppend ==
  ASSUME backlog \in Seq(Request), NEW r \in Request
  PROVE  /\ Len(backlog) \in Nat
         /\ Len(Append(backlog, r)) = Len(backlog) + 1
         /\ \A i \in 1..Len(backlog)+1 :
               \/ i \in 1..Len(backlog) /\ Append(backlog, r)[i] = backlog[i]
               \/ i = Len(backlog)+1 /\ Append(backlog, r)[i] = r
BY AppendProperties

(***************************************************************************)
(* The memory: the two lists and the pointers into them.                   *)
(***************************************************************************)
Memory == EntriesConserved /\ NoUseAfterFree /\ StartInv

\* Freeing an entry moves it from the one list to the other.
LEMMA FreeMoves ==
  ASSUME ServerTypeOK, EntriesConserved, NEW e, FreeTimerUnprotected(e)
  PROVE  /\ e \in ToSet(used) /\ e \in Entry
         /\ IsInjective(free') /\ IsInjective(used')
         /\ ToSet(free') \cap ToSet(used') = {}
         /\ Len(free') + Len(used') = Len(free) + Len(used)
         /\ ToSet(used') = ToSet(used) \ {e}
<1>1. PICK i \in 1..Len(used) : used[i] = e /\ used' = RemoveAt(used, i)
  BY DEF FreeTimerUnprotected
<1>2. e \in Entry /\ e \in ToSet(used)  BY <1>1 DEF ServerTypeOK, ToSet
<1>3. used \in Seq(Entry) /\ free \in Seq(Entry) /\ IsInjective(used) /\ IsInjective(free)
  BY DEF ServerTypeOK, EntriesConserved
<1>4. /\ IsInjective(used') /\ ToSet(used') = ToSet(used) \ {e}
      /\ Len(used') = Len(used) - 1
  BY <1>1, <1>3, UnlinkOnce, UnlinkElements
<1>5. e \notin ToSet(free)  BY <1>2 DEF EntriesConserved
<1>6. free' = Append(free, e)  BY DEF FreeTimerUnprotected
<1>7. /\ IsInjective(free') /\ ToSet(free') = ToSet(free) \cup {e}
      /\ Len(free') = Len(free) + 1
  BY <1>2, <1>3, <1>5, <1>6, AppendOnce
<1>8. ToSet(free') \cap ToSet(used') = {}
  BY <1>4, <1>7 DEF EntriesConserved
<1>9. Len(free') + Len(used') = Len(free) + Len(used)
  BY <1>3, <1>4, <1>7
<1>10. QED  BY <1>2, <1>4, <1>7, <1>8, <1>9

\* No step leaks an entry, links it twice, or frees one under a tick thread.
LEMMA MemoryStep ==
  ASSUME ServerTypeOK, PhaseInv, LockInv, Memory, [Next]_vars
  PROVE  Memory'
<1> USE TimerServerAssumption
<1>0. /\ backlog \in Seq(Request) /\ used \in Seq(Entry) /\ free \in Seq(Entry)
      /\ IsInjective(used) /\ IsInjective(free) /\ ToSet(free) \cap ToSet(used) = {}
  BY DEF ServerTypeOK, Memory, EntriesConserved
<1>1. ASSUME UNCHANGED <<free, used>>, ticking' => ticking  PROVE EntriesConserved'
  BY <1>1 DEF Memory, EntriesConserved
<1>2. ASSUME UNCHANGED <<tpc, cur, lock, used>>  PROVE NoUseAfterFree'
  BY <1>2 DEF Memory, NoUseAfterFree
<1>3. ASSUME UNCHANGED backlog, ticking' => ticking,
             used = <<>> => used' = <<>>,
             mpc \in {"accept", "aborted"} => mpc' \in {"accept", "aborted"}
      PROVE  StartInv'
  BY <1>3 DEF Memory, StartInv
<1>4. CASE AcceptRequest
  <2>1. UNCHANGED <<free, used, ticking, tpc, cur, lock>> /\ backlog' = Tail(backlog)
        /\ backlog # <<>>
    BY <1>4 DEF AcceptRequest, listVars, tickVars
  <2>2. StartInv'
    <3>1. \A i \in 1..Len(backlog') : /\ i+1 \in 1..Len(backlog) /\ i+1 # 1
                                     /\ backlog'[i] = backlog[i+1]
      BY <2>1, <1>0, TailOfBacklog
    <3>2. QED  BY <3>1 DEF Memory, StartInv
  <2>3. QED  BY <2>1, <2>2, <1>1, <1>2 DEF Memory
<1>5. CASE ActionTimerServerStart
  <2>1. /\ UNCHANGED <<used, tpc, cur, lock>> /\ backlog' = Tail(backlog)
        /\ backlog # <<>> /\ Head(backlog).type = "serverStart"
    BY <1>5 DEF ActionTimerServerStart, tickVars
  <2>2. used = <<>>
    BY <2>1, <1>0, TailOfBacklog DEF Memory, StartInv
  <2>3. StartInv'
    <3>1. \A i \in 1..Len(backlog') : /\ i+1 \in 1..Len(backlog) /\ i+1 # 1
                                     /\ backlog'[i] = backlog[i+1]
      BY <2>1, <1>0, TailOfBacklog
    <3>2. QED  BY <3>1 DEF Memory, StartInv
  <2>4. Cardinality(Entry) \in Nat  BY FS_CardinalityType
  <2>5. PICK order \in [1..Cardinality(Entry) -> Entry] : IsInjective(order) /\ free' = order
    BY <1>5 DEF ActionTimerServerStart
  <2>6. Len(free') = Cardinality(Entry) /\ IsInjective(free')
    BY <2>4, <2>5
  <2>7. used' = <<>> /\ Len(used') = 0 /\ ToSet(used') = {} /\ IsInjective(used')
    BY <2>1, <2>2, <1>0 DEF ToSet
  <2>8. EntriesConserved'
    BY <2>4, <2>6, <2>7 DEF EntriesConserved
  <2>9. QED  BY <2>1, <2>3, <2>8, <1>2 DEF Memory
<1>6. CASE Abort
  <2>1. NoUseAfterFree'  BY <1>6 DEF Abort, NoUseAfterFree
  <2>2. UNCHANGED <<free, used, backlog>> /\ ticking' = FALSE /\ mpc' = "aborted"
    BY <1>6 DEF Abort, listVars
  <2>3. QED  BY <2>1, <2>2, <1>1, <1>3 DEF Memory
<1>7. CASE ServerLock
  <2>1. UNCHANGED <<free, used, backlog, ticking, tpc, cur>> /\ lock = "none"
    BY <1>7 DEF ServerLock, listVars, tickVars
  <2>2. mpc \notin {"accept", "aborted"}
    BY <1>7 DEF ServerLock, Holding
  <2>3. NoUseAfterFree'
    BY <2>1, <1>7 DEF LockInv, NoUseAfterFree
  <2>4. QED  BY <2>1, <2>2, <2>3, <1>1, <1>3 DEF Memory
<1>8. ASSUME lock = "server", UNCHANGED <<tpc, cur>>  PROVE NoUseAfterFree'
  <2>1. \A t \in Ticker : tpc[t] \notin {"walk", "send"}
    BY <1>8 DEF LockInv
  <2>2. QED  BY <2>1, <1>8 DEF NoUseAfterFree
<1>9. CASE AllocTimer
  <2> DEFINE e == Last(free)
  <2>1. /\ UNCHANGED <<backlog, ticking, tpc, cur>> /\ lock = "server"
        /\ mpc \notin {"accept", "aborted"} /\ free # <<>> /\ free' = Front(free)
    BY <1>9 DEF AllocTimer, tickVars, LockInv
  <2>2. PICK i \in 1..Len(used)+1 : used' = InsertAt(used, i, e)
    BY <1>9 DEF AllocTimer
  <2>3. /\ e \in Entry /\ e \in ToSet(free) /\ IsInjective(free')
        /\ ToSet(free') = ToSet(free) \ {e} /\ Len(free') = Len(free) - 1
    BY <1>0, <2>1, FrontOnce
  <2>4. e \notin ToSet(used)  BY <1>0, <2>3
  <2> HIDE DEF e
  <2>5. IsInjective(used') /\ ToSet(used') = ToSet(used) \cup {e}
    BY <1>0, <2>2, <2>3, <2>4, LinkOnce
  <2>6. Len(used') = Len(used) + 1
    BY <1>0, <2>2, <2>3, LinkElements
  <2>7. EntriesConserved'
    <3>1. Len(used') + Len(free') = Len(free) + Len(used)  BY <1>0, <2>3, <2>6
    <3>2. ToSet(free') \cap ToSet(used') = {}  BY <1>0, <2>3, <2>5
    <3>3. Len(free) \in Nat /\ Len(used) \in Nat /\ Len(free') \in Int /\ Len(used') \in Int
      BY <1>0, <2>3, <2>6
    <3>4. QED  BY <2>1, <2>3, <2>5, <3>1, <3>2, <3>3 DEF Memory, EntriesConserved
  <2>8. StartInv'  BY <2>1 DEF Memory, StartInv
  <2>9. QED  BY <2>1, <2>7, <2>8, <1>8 DEF Memory
<1>10. CASE ActionTimerStop
  <2>1. /\ UNCHANGED <<backlog, ticking, tpc, cur>> /\ lock = "server"
        /\ mpc \notin {"accept", "aborted"}
    BY <1>10 DEF ActionTimerStop, tickVars, LockInv
  <2>2. EntriesConserved'
    <3>1. CASE UNCHANGED <<free, used>>  BY <2>1, <3>1, <1>1
    <3>2. ASSUME NEW e, FreeTimerUnprotected(e)  PROVE EntriesConserved'
      BY <2>1, <3>2, FreeMoves DEF Memory, EntriesConserved
    <3>3. QED  BY <1>10, <3>1, <3>2 DEF ActionTimerStop, listVars
  <2>3. StartInv'  BY <2>1 DEF Memory, StartInv
  <2>4. QED  BY <2>1, <2>2, <2>3, <1>8 DEF Memory
<1>11. CASE FreeAllTimers
  <2>1. /\ UNCHANGED <<backlog, ticking, tpc, cur>> /\ lock = "server"
        /\ mpc \notin {"accept", "aborted"} /\ free' = free \o used /\ used' = <<>>
    BY <1>11 DEF FreeAllTimers, tickVars, LockInv
  <2>2. IsInjective(free') /\ Len(free') = Len(free) + Len(used)
    BY <1>0, <2>1, JoinOnce
  <2>3. IsInjective(used') /\ ToSet(used') = {} /\ Len(used') = 0
    BY <2>1 DEF IsInjective, ToSet
  <2>4. EntriesConserved'
    <3>1. Len(free') + Len(used') = Len(free) + Len(used)  BY <1>0, <2>2, <2>3
    <3>2. QED  BY <2>1, <2>2, <2>3, <3>1 DEF Memory, EntriesConserved
  <2>5. StartInv'  BY <2>1 DEF Memory, StartInv
  <2>6. QED  BY <2>1, <2>4, <2>5, <1>8 DEF Memory
<1>12. CASE DeleteTimer
  <2>1. /\ UNCHANGED <<backlog, used, tpc, cur>> /\ lock = "server" /\ ticking' = FALSE
        /\ mpc \notin {"accept", "aborted"} /\ free' = <<>>
    BY <1>12 DEF DeleteTimer, tickVars, LockInv
  <2>2. IsInjective(free') /\ ToSet(free') = {}
    BY <2>1 DEF IsInjective, ToSet
  <2>3. EntriesConserved'
    BY <2>1, <2>2 DEF Memory, EntriesConserved
  <2>4. StartInv'  BY <2>1 DEF Memory, StartInv
  <2>5. QED  BY <2>1, <2>3, <2>4, <1>8 DEF Memory
<1>13. CASE Exit
  <2>1. NoUseAfterFree'  BY <1>13 DEF Exit, NoUseAfterFree
  <2>2. UNCHANGED <<free, used, backlog, ticking>> /\ mpc = "exiting"
    BY <1>13 DEF Exit, listVars
  <2>3. QED  BY <2>1, <2>2, <1>1, <1>3 DEF Memory
<1>14. ASSUME NEW t \in Ticker, TickFire(t) \/ TickStore(t)  PROVE Memory'
  <2>1. UNCHANGED <<free, used, backlog, ticking, mpc, lock, cur>>
    BY <1>14 DEF TickFire, TickStore, listVars, serverVars
  <2>2. NoUseAfterFree'
    BY <1>14, <2>1 DEF TickFire, TickStore, Memory, NoUseAfterFree, ServerTypeOK
  <2>3. QED  BY <2>1, <2>2, <1>1, <1>3 DEF Memory
<1>15. ASSUME NEW t \in Ticker, TickTryLock(t)  PROVE Memory'
  <2>1. UNCHANGED <<free, used, backlog, ticking, mpc>>
    BY <1>15 DEF TickTryLock, listVars, serverVars
  <2>2. NoUseAfterFree'
    <3>1. CASE lock = "none"
      <4>1. \A u \in Ticker : tpc[u] \notin {"walk", "send"}
        BY <3>1 DEF LockInv
      <4>2. HeadOf(used) \in ToSet(used) \cup {PNULL}  BY <1>0, HeadOfUsed
      <4>3. QED  BY <1>15, <2>1, <3>1, <4>1, <4>2 DEF TickTryLock, NoUseAfterFree, ServerTypeOK
    <3>2. CASE lock # "none"
      BY <1>15, <2>1, <3>2 DEF TickTryLock, Memory, NoUseAfterFree, ServerTypeOK
    <3>3. QED  BY <3>1, <3>2
  <2>3. QED  BY <2>1, <2>2, <1>1, <1>3 DEF Memory
<1>16. ASSUME NEW t \in Ticker, tpc[t] \in {"walk", "send"}
       PROVE  \A u \in Ticker : u # t => tpc[u] \notin {"walk", "send"}
  BY <1>16 DEF LockInv
<1>17. ASSUME NEW t \in Ticker, TickWalk(t)  PROVE Memory'
  <2>1. UNCHANGED <<free, used, backlog, ticking, mpc>> /\ tpc[t] = "walk"
    BY <1>17 DEF TickWalk, listVars, serverVars
  <2>2. \A u \in Ticker : u # t => tpc'[u] = tpc[u] /\ tpc[u] \notin {"walk", "send"}
    BY <1>17, <2>1, <1>16 DEF TickWalk, ServerTypeOK
  <2>3. NextOf(cur[t]) \in ToSet(used) \cup {PNULL}  BY <1>0, NextOfUsed
  <2>4. tpc'[t] \in {"walk", "send"} =>
          /\ lock' = t /\ cur'[t] \in ToSet(used) \cup {PNULL}
          /\ tpc'[t] = "send" => cur'[t] # PNULL
    BY <1>17, <2>1, <2>3 DEF TickWalk, Memory, NoUseAfterFree, ServerTypeOK
  <2>5. NoUseAfterFree'  BY <2>1, <2>2, <2>4 DEF NoUseAfterFree
  <2>6. QED  BY <2>1, <2>5, <1>1, <1>3 DEF Memory
<1>18. ASSUME NEW t \in Ticker, TickSend(t)  PROVE Memory'
  <2>1. /\ UNCHANGED <<backlog, ticking, mpc, lock>> /\ tpc[t] = "send"
        /\ FreeTimerUnprotected(cur[t])
        /\ tpc' = [tpc EXCEPT ![t] = "walk"] /\ cur' = [cur EXCEPT ![t] = NextOf(cur[t])]
    BY <1>18 DEF TickSend, serverVars
  <2>2. /\ cur[t] \in ToSet(used) /\ ToSet(used') = ToSet(used) \ {cur[t]}
        /\ cur[t] \in Entry /\ EntriesConserved'
    BY <2>1, FreeMoves DEF Memory, EntriesConserved
  <2>3. NextOf(cur[t]) \in ToSet(used') \cup {PNULL}
    BY <2>2, <1>0, NextOfUsed, NextOfOther
  <2>4. \A u \in Ticker : u # t => tpc'[u] = tpc[u] /\ tpc[u] \notin {"walk", "send"}
    BY <2>1, <1>16 DEF ServerTypeOK
  <2>5. tpc'[t] = "walk" /\ lock' = t /\ cur'[t] = NextOf(cur[t])
    BY <2>1 DEF Memory, NoUseAfterFree, ServerTypeOK
  <2>6. NoUseAfterFree'  BY <2>3, <2>4, <2>5 DEF NoUseAfterFree
  <2>7. used # <<>>  BY <2>2 DEF ToSet
  <2>8. StartInv'  BY <2>1, <2>7, <1>3
  <2>9. QED  BY <2>2, <2>6, <2>8 DEF Memory
<1>19. ASSUME NEW r \in Request, Connect(r), r.type # "serverStart", ticking
       PROVE  Memory'
  <2>1. UNCHANGED <<free, used, ticking, mpc, tpc, cur, lock>> /\ backlog' = Append(backlog, r)
    BY <1>19 DEF Connect, listVars, tickVars
  <2>2. StartInv'
    BY <2>1, <1>0, <1>19, BacklogAppend DEF Memory, StartInv
  <2>3. QED  BY <2>1, <2>2, <1>1, <1>2 DEF Memory
<1>20. CASE ClientStep
  <2>1. ASSUME NEW r \in StartReq, SendStartTimer(r)  PROVE Memory'
    BY <2>1, <1>19 DEF SendStartTimer, Request, StartReq
  <2>2. ASSUME NEW r \in StopReq, SendStopTimer(r)  PROVE Memory'
    BY <2>2, <1>19 DEF SendStopTimer, Request, StopReq
  <2>3. CASE StopTimerServer
    <3>1. [type |-> "serverStop"] \in Request  BY DEF Request
    <3>2. QED  BY <2>3, <3>1, <1>19 DEF StopTimerServer
  <2>4. ASSUME NEW p \in Port, TakeExpiryMsg(p) \/ ClientExit(p)  PROVE Memory'
    <3>1. UNCHANGED <<free, used, ticking, mpc, tpc, cur, lock, backlog>>
      BY <2>4 DEF TakeExpiryMsg, ClientExit, listVars, tickVars, serverVars
    <3>2. QED  BY <3>1, <1>1, <1>2, <1>3 DEF Memory
  <2>5. QED  BY <1>20, <2>1, <2>2, <2>3, <2>4 DEF ClientStep
<1>21. CASE UNCHANGED vars
  BY <1>21, <1>1, <1>2, <1>3 DEF vars, Memory
<1>22. QED
  BY <1>4, <1>5, <1>6, <1>7, <1>9, <1>10, <1>11, <1>12, <1>13, <1>14, <1>15, <1>17,
     <1>18, <1>20, <1>21
  DEF Next, ServerStep, TickStep, ServerStartFails, AllocTimerFails

\* Init allocates nothing: the lists are empty until the server is started.
LEMMA MemoryInit == Init => Memory
<1> SUFFICES ASSUME Init  PROVE Memory
  OBVIOUS
<1>1. free = <<>> /\ used = <<>> /\ ~ticking /\ mpc = "accept"
      /\ backlog = <<[type |-> "serverStart"]>> /\ \A t \in Ticker : tpc[t] = "idle"
  BY DEF Init
<1>2. Len(backlog) = 1  BY <1>1
<1>3. QED
  BY <1>1, <1>2 DEF Memory, EntriesConserved, NoUseAfterFree, StartInv, IsInjective, ToSet

\* The memory of the two lists stays sound, with any number of tick threads
\* overlapping each other and every request of the message loop.
THEOREM MemorySound == Spec => []MemoryKept
<1>1. Memory => MemoryKept  BY DEF Memory, MemoryKept
<1>2. QED
  BY <1>1, MemoryInit, MemoryStep, ServerTyped, MutexHeld, PTL DEF Spec

(***************************************************************************)
(* The requests and the timers they become.                                *)
(***************************************************************************)
Requests == RequestInv /\ Accounted

\* Freeing the entry of a timer ends that timer and no other.
LEMMA FreeEnds ==
  ASSUME ServerTypeOK, EntriesConserved, Accounted,
         NEW e, FreeTimerUnprotected(e), NEW outcome \in Final,
         fate' = [fate EXCEPT ![timer[e].serial] = outcome]
  PROVE  /\ Accounted'
         /\ \A s \in Serial : fate[s] = "requested" => fate'[s] = "requested"
<1>1. /\ e \in ToSet(used) /\ e \in Entry /\ ToSet(used') = ToSet(used) \ {e}
  BY FreeMoves
<1>2. ToSet(used) \subseteq Entry  BY ToSetEntries DEF ServerTypeOK
<1>3. timer[e] \in Timer /\ timer[e] # NoTimer /\ fate[timer[e].serial] = "armed"
  BY <1>1, <1>2 DEF ServerTypeOK, Accounted
<1>4. timer[e].serial \in Serial  BY <1>3 DEF Timer
<1>5. \A f \in ToSet(used') : f # e /\ f \in ToSet(used) /\ timer'[f] = timer[f]
  BY <1>1, <1>2 DEF FreeTimerUnprotected, ServerTypeOK
<1>6. \A f \in ToSet(used') : timer[f].serial # timer[e].serial
  BY <1>1, <1>5 DEF Accounted
<1>7. \A s \in Serial : s # timer[e].serial => fate'[s] = fate[s]
  BY DEF ServerTypeOK
<1>8. fate'[timer[e].serial] # "armed"
  BY <1>4 DEF ServerTypeOK, Final
<1>9. \A f \in ToSet(used') : timer'[f] # NoTimer /\ fate'[timer'[f].serial] = "armed"
  <2> TAKE f \in ToSet(used')
  <2>1. timer[f] \in Timer /\ timer[f] # NoTimer /\ fate[timer[f].serial] = "armed"
    BY <1>2, <1>5 DEF ServerTypeOK, Accounted
  <2>2. timer[f].serial \in Serial  BY <2>1 DEF Timer
  <2>3. QED  BY <2>1, <2>2, <1>5, <1>6, <1>7
<1>10. \A f, g \in ToSet(used') : timer'[f].serial = timer'[g].serial => f = g
  BY <1>5 DEF Accounted
<1>11. \A s \in Serial : fate'[s] = "armed" => \E f \in ToSet(used') : timer'[f].serial = s
  <2> SUFFICES ASSUME NEW s \in Serial, fate'[s] = "armed"
               PROVE  \E f \in ToSet(used') : timer'[f].serial = s
    OBVIOUS
  <2>1. s # timer[e].serial /\ fate[s] = "armed"  BY <1>7, <1>8
  <2>2. PICK f \in ToSet(used) : timer[f].serial = s  BY <2>1 DEF Accounted
  <2>3. f \in ToSet(used')  BY <1>1, <2>1, <2>2
  <2>4. QED  BY <2>2, <2>3, <1>5
<1>12. \A s \in Serial : fate[s] = "requested" => fate'[s] = "requested"
  BY <1>3, <1>7
<1>13. QED  BY <1>9, <1>10, <1>11, <1>12 DEF Accounted

\* A request that is still to be served stays so while nothing is taken from
\* the backlog and allocTimer does not run.
LEMMA RequestsWait ==
  ASSUME ServerTypeOK, RequestInv, UNCHANGED backlog,
         mpc' \notin {"wantAlloc", "holdAlloc"},
         \A s \in Serial : fate[s] = "requested" => fate'[s] = "requested"
  PROVE  RequestInv'
<1>1. ASSUME NEW i \in 1..Len(backlog), backlog[i].type = "start"
      PROVE  backlog[i].serial \in Serial
  BY <1>1, RequestKinds DEF ServerTypeOK
<1>2. QED  BY <1>1 DEF RequestInv

\* A start request is in the backlog or in the hands of the message loop, in
\* one place, until allocTimer has made its timer, and the timer is in one
\* entry of the used list until it ends.
LEMMA RequestsStep ==
  ASSUME ServerTypeOK, PhaseInv, Memory, Requests, [Next]_vars
  PROVE  Requests'
<1>0. /\ backlog \in Seq(Request) /\ used \in Seq(Entry) /\ free \in Seq(Entry)
      /\ EntriesConserved
  BY DEF ServerTypeOK, Memory
<1>1. ASSUME NEW i \in 1..Len(backlog), backlog[i].type = "start"
      PROVE  backlog[i].serial \in Serial
  BY <1>0, <1>1, RequestKinds
<1>2. ASSUME UNCHANGED <<used, timer, fate>>  PROVE Accounted'
  BY <1>2 DEF Requests, Accounted
<1>3. ASSUME UNCHANGED <<mpc, msg, backlog, fate>>  PROVE RequestInv'
  BY <1>3 DEF Requests, RequestInv
<1>4. CASE AcceptRequest
  <2>1. /\ msg' = backlog[1] /\ backlog' = Tail(backlog) /\ UNCHANGED <<fate, used, timer>>
        /\ backlog # <<>> /\ mpc' = Dispatch[msg'.type]
    BY <1>4, <1>0, TailOfBacklog DEF AcceptRequest, listVars
  <2>2. mpc' \in {"wantAlloc", "holdAlloc"} => msg'.type = "start"
    <3>1. msg' \in Request /\ msg'.type # "serverStart"
      BY <1>4, <1>0, EmptySeq DEF AcceptRequest
    <3>2. msg'.type \in {"start", "stop", "serverStop"}
      BY <3>1 DEF Request, StartReq, StopReq
    <3>3. QED  BY <2>1, <3>2 DEF Dispatch
  <2>3. \A i \in 1..Len(backlog') : /\ i+1 \in 1..Len(backlog) /\ i+1 # 1
                                   /\ backlog'[i] = backlog[i+1]
    BY <2>1, <1>0, TailOfBacklog
  <2>4. \A i \in 1..Len(backlog') : backlog'[i].type = "start" =>
            fate'[backlog'[i].serial] = "requested"
    BY <2>1, <2>3 DEF Requests, RequestInv
  <2>5. \A i, j \in 1..Len(backlog') :
            /\ backlog'[i].type = "start" /\ backlog'[j].type = "start"
            /\ backlog'[i].serial = backlog'[j].serial
            => i = j
    <3> SUFFICES ASSUME NEW i \in 1..Len(backlog'), NEW j \in 1..Len(backlog'),
                        backlog'[i].type = "start", backlog'[j].type = "start",
                        backlog'[i].serial = backlog'[j].serial
                 PROVE  i = j
      OBVIOUS
    <3>1. /\ i+1 \in 1..Len(backlog) /\ backlog'[i] = backlog[i+1]
          /\ j+1 \in 1..Len(backlog) /\ backlog'[j] = backlog[j+1]
      BY <2>3
    <3>2. i+1 = j+1  BY <3>1 DEF Requests, RequestInv
    <3>3. i \in Int /\ j \in Int  OBVIOUS
    <3>4. QED  BY <3>2, <3>3
  <2>6. mpc' \in {"wantAlloc", "holdAlloc"} =>
          /\ fate'[msg'.serial] = "requested"
          /\ \A i \in 1..Len(backlog') :
                backlog'[i].type = "start" => backlog'[i].serial # msg'.serial
    BY <2>1, <2>2, <2>3, <1>0, TailOfBacklog DEF Requests, RequestInv
  <2>7. RequestInv'  BY <2>4, <2>5, <2>6 DEF RequestInv
  <2>8. QED  BY <2>1, <2>7, <1>2 DEF Requests
<1>5. CASE ActionTimerServerStart
  <2>1. /\ backlog' = Tail(backlog) /\ backlog # <<>>
        /\ UNCHANGED <<mpc, msg, fate, used, timer>>
    BY <1>5 DEF ActionTimerServerStart
  <2>2. \A i \in 1..Len(backlog') : /\ i+1 \in 1..Len(backlog)
                                   /\ backlog'[i] = backlog[i+1]
    BY <2>1, <1>0, TailOfBacklog
  <2>3. \A i, j \in 1..Len(backlog') : i+1 = j+1 => i = j  OBVIOUS
  <2>4. RequestInv'  BY <2>1, <2>2, <2>3 DEF Requests, RequestInv
  <2>5. QED  BY <2>1, <2>4, <1>2 DEF Requests
<1>6. CASE Abort /\ UNCHANGED fate
  BY <1>6, <1>2, RequestsWait DEF Abort, listVars, Requests
<1>7. CASE ServerLock
  <2>1. UNCHANGED <<backlog, msg, fate, used, timer>>  BY <1>7 DEF ServerLock, listVars
  <2>2. mpc' \in {"wantAlloc", "holdAlloc"} => mpc = "wantAlloc"
    BY <1>7 DEF ServerLock, Holding
  <2>3. QED  BY <2>1, <2>2, <1>2 DEF Requests, RequestInv
<1>8. CASE AllocTimer
  <2> DEFINE e == Last(free)
             x == tick + msg.period
  <2>1. /\ mpc = "holdAlloc" /\ mpc' = "accept" /\ backlog' = backlog
        /\ free # <<>>
        /\ fate' = [fate EXCEPT ![msg.serial] = "armed"]
    BY <1>8 DEF AllocTimer
  <2>2. msg \in Request /\ msg.type = "start"
    BY <2>1 DEF ServerTypeOK, PhaseInv, NoMsg
  <2>3. /\ msg.serial \in Serial /\ fate[msg.serial] = "requested"
    BY <2>1, <2>2, RequestKinds DEF Requests, RequestInv
  <2>4. RequestInv'
    <3>1. \A i \in 1..Len(backlog) : backlog[i].type = "start" =>
             fate'[backlog[i].serial] = fate[backlog[i].serial]
      BY <2>1, <1>1 DEF Requests, RequestInv, ServerTypeOK
    <3>2. QED  BY <2>1, <3>1 DEF Requests, RequestInv
  <2>5. e \in Entry /\ e \in ToSet(free)
    BY <1>0, <2>1, FrontOnce DEF EntriesConserved
  <2>6. e \notin ToSet(used)
    BY <2>5, <1>0 DEF EntriesConserved
  <2>7. timer' = [timer EXCEPT ![e] = [expiry |-> x, port |-> msg.port,
                                       id |-> msg.id, serial |-> msg.serial]]
    BY <1>8 DEF AllocTimer
  <2>8. PICK i \in 1..Len(used)+1 : used' = InsertAt(used, i, e)
    BY <1>8 DEF AllocTimer
  <2> HIDE DEF e, x
  <2>9. ToSet(used') = ToSet(used) \cup {e}
    BY <1>0, <2>5, <2>6, <2>8, LinkOnce DEF EntriesConserved
  <2>10. /\ timer'[e].serial = msg.serial /\ fate'[msg.serial] = "armed"
         /\ timer'[e] # NoTimer
    BY <2>1, <2>3, <2>5, <2>7 DEF ServerTypeOK, NoTimer
  <2>11. \A f \in ToSet(used) : /\ f \in Entry /\ f # e /\ timer'[f] = timer[f]
                                /\ timer[f].serial # msg.serial
                                /\ timer[f] # NoTimer /\ timer[f].serial \in Serial
    <3> TAKE f \in ToSet(used)
    <3>1. f \in Entry /\ f # e  BY <1>0, <2>6, ToSetEntries
    <3>2. timer[f] \in Timer /\ timer[f] # NoTimer /\ fate[timer[f].serial] = "armed"
      BY <3>1 DEF ServerTypeOK, Requests, Accounted
    <3>3. timer[f].serial \in Serial  BY <3>2 DEF Timer
    <3>4. timer'[f] = timer[f]  BY <3>1, <2>7 DEF ServerTypeOK
    <3>5. QED  BY <3>1, <3>2, <3>3, <3>4, <2>3
  <2>12. \A s \in Serial : s # msg.serial => fate'[s] = fate[s]
    BY <2>1 DEF ServerTypeOK
  <2>13. \A f \in ToSet(used') : timer'[f] # NoTimer /\ fate'[timer'[f].serial] = "armed"
    BY <2>9, <2>10, <2>11, <2>12 DEF Requests, Accounted
  <2>14. \A f, g \in ToSet(used') : timer'[f].serial = timer'[g].serial => f = g
    BY <2>9, <2>10, <2>11 DEF Requests, Accounted
  <2>15. \A s \in Serial : fate'[s] = "armed" => \E f \in ToSet(used') : timer'[f].serial = s
    <3> SUFFICES ASSUME NEW s \in Serial, fate'[s] = "armed"
                 PROVE  \E f \in ToSet(used') : timer'[f].serial = s
      OBVIOUS
    <3>1. CASE s = msg.serial  BY <3>1, <2>9, <2>10
    <3>2. CASE s # msg.serial  BY <3>2, <2>9, <2>11, <2>12 DEF Requests, Accounted
    <3>3. QED  BY <3>1, <3>2
  <2>16. Accounted'  BY <2>13, <2>14, <2>15 DEF Accounted
  <2>17. QED  BY <2>4, <2>16 DEF Requests
<1>9. CASE ActionTimerStop
  <2>1. backlog' = backlog /\ mpc' = "accept"  BY <1>9 DEF ActionTimerStop
  <2>2. CASE UNCHANGED <<listVars, fate>>
    BY <2>1, <2>2, <1>2, RequestsWait DEF listVars, Requests
  <2>3. ASSUME NEW e, FreeTimerUnprotected(e),
               fate' = [fate EXCEPT ![timer[e].serial] = "stopped"]
        PROVE  Requests'
    <3>1. "stopped" \in Final  BY DEF Final
    <3>2. Accounted' /\ \A s \in Serial : fate[s] = "requested" => fate'[s] = "requested"
      BY <2>3, <3>1, <1>0, FreeEnds DEF Requests
    <3>3. QED  BY <3>2, <2>1, RequestsWait DEF Requests
  <2>4. QED  BY <1>9, <2>2, <2>3 DEF ActionTimerStop
<1>10. CASE FreeAllTimers
  <2>1. /\ used' = <<>> /\ backlog' = backlog /\ mpc' = "wantDelete"
        /\ fate' = [s \in Serial |-> IF fate[s] = "armed" THEN "dropped" ELSE fate[s]]
    BY <1>10 DEF FreeAllTimers
  <2>2. ToSet(used') = {}  BY <2>1 DEF ToSet
  <2>3. Accounted'  BY <2>1, <2>2 DEF Accounted
  <2>4. RequestInv'  BY <2>1, RequestsWait DEF Requests
  <2>5. QED  BY <2>3, <2>4 DEF Requests
<1>11. CASE DeleteTimer \/ Exit
  <2>1. UNCHANGED <<backlog, fate, used, timer>> /\ mpc' \notin {"wantAlloc", "holdAlloc"}
    BY <1>11 DEF DeleteTimer, Exit, listVars
  <2>2. QED  BY <2>1, <1>2, RequestsWait DEF Requests
<1>12. ASSUME NEW t \in Ticker, TickFire(t) \/ TickStore(t) \/ TickTryLock(t) \/ TickWalk(t)
       PROVE  Requests'
  <2>1. UNCHANGED <<mpc, msg, backlog, fate, used, timer>>
    BY <1>12 DEF TickFire, TickStore, TickTryLock, TickWalk, serverVars, listVars
  <2>2. QED  BY <2>1, <1>2, <1>3 DEF Requests
<1>13. ASSUME NEW t \in Ticker, TickSend(t)  PROVE Requests'
  <2>1. PICK outcome \in {"expired", "lost"} :
           fate' = [fate EXCEPT ![timer[cur[t]].serial] = outcome]
    BY <1>13 DEF TickSend
  <2>2. FreeTimerUnprotected(cur[t]) /\ UNCHANGED <<mpc, msg, backlog>>
    BY <1>13 DEF TickSend, serverVars
  <2>3. outcome \in Final  BY DEF Final
  <2>4. Accounted' /\ \A s \in Serial : fate[s] = "requested" => fate'[s] = "requested"
    BY <2>1, <2>2, <2>3, <1>0, FreeEnds DEF Requests
  <2>5. mpc \in {"wantAlloc", "holdAlloc"} => msg.serial \in Serial
    <3>1. mpc \in {"wantAlloc", "holdAlloc"} => msg \in Request /\ msg.type = "start"
      BY DEF ServerTypeOK, PhaseInv, NoMsg
    <3>2. QED  BY <3>1, RequestKinds
  <2>6. RequestInv'  BY <2>2, <2>4, <2>5, <1>1 DEF Requests, RequestInv
  <2>7. QED  BY <2>4, <2>6 DEF Requests
<1>14. ASSUME NEW r \in Request, backlog' = Append(backlog, r),
              UNCHANGED <<mpc, msg, used, timer, fate>>, r.type # "start"
       PROVE  Requests'
  <2>1. RequestInv'
    BY <1>14, <1>0, BacklogAppend DEF Requests, RequestInv
  <2>2. QED  BY <2>1, <1>14, <1>2 DEF Requests
<1>15. ASSUME NEW r \in StartReq, SendStartTimer(r)  PROVE Requests'
  <2>1. /\ r \in Request /\ r.type = "start" /\ r.serial \in Serial
    BY DEF StartReq, Request
  <2>2. /\ fate[r.serial] = "none" /\ fate' = [fate EXCEPT ![r.serial] = "requested"]
        /\ backlog' = Append(backlog, r) /\ UNCHANGED <<mpc, msg, used, timer>>
    BY <1>15 DEF SendStartTimer, Connect, listVars
  <2>3. /\ fate'[r.serial] = "requested"
        /\ \A s \in Serial : s # r.serial => fate'[s] = fate[s]
    BY <2>1, <2>2 DEF ServerTypeOK
  <2>4. \A i \in 1..Len(backlog) : backlog[i].type = "start" =>
          /\ backlog[i].serial \in Serial /\ backlog[i].serial # r.serial
    BY <2>2, <1>1 DEF Requests, RequestInv
  <2>5. \A i \in 1..Len(backlog') :
            \/ i \in 1..Len(backlog) /\ backlog'[i] = backlog[i]
            \/ i = Len(backlog)+1 /\ backlog'[i] = r
    BY <2>1, <2>2, <1>0, BacklogAppend
  <2>6. \A i \in 1..Len(backlog') : backlog'[i].type = "start" =>
            fate'[backlog'[i].serial] = "requested"
    BY <2>3, <2>4, <2>5 DEF Requests, RequestInv
  <2>7. \A i, j \in 1..Len(backlog') :
            /\ backlog'[i].type = "start" /\ backlog'[j].type = "start"
            /\ backlog'[i].serial = backlog'[j].serial
            => i = j
    BY <2>4, <2>5 DEF Requests, RequestInv
  <2>8. mpc \in {"wantAlloc", "holdAlloc"} =>
          /\ fate'[msg.serial] = "requested"
          /\ \A i \in 1..Len(backlog') :
                backlog'[i].type = "start" => backlog'[i].serial # msg.serial
    <3> SUFFICES ASSUME mpc \in {"wantAlloc", "holdAlloc"}
                 PROVE  /\ fate'[msg.serial] = "requested"
                        /\ \A i \in 1..Len(backlog') :
                              backlog'[i].type = "start" => backlog'[i].serial # msg.serial
      OBVIOUS
    <3>1. msg \in Request /\ msg.type = "start"
      BY DEF ServerTypeOK, PhaseInv, NoMsg
    <3>2. msg.serial \in Serial  BY <3>1, RequestKinds
    <3>3. fate[msg.serial] = "requested" /\ msg.serial # r.serial
      BY <2>2 DEF Requests, RequestInv
    <3>4. QED  BY <3>2, <3>3, <2>3, <2>5 DEF Requests, RequestInv
  <2>9. RequestInv'  BY <2>2, <2>6, <2>7, <2>8 DEF RequestInv
  <2>10. \A f \in ToSet(used) : timer[f].serial \in Serial /\ timer[f].serial # r.serial
    <3> TAKE f \in ToSet(used)
    <3>1. f \in Entry  BY <1>0, ToSetEntries
    <3>2. timer[f] \in Timer /\ timer[f] # NoTimer /\ fate[timer[f].serial] = "armed"
      BY <3>1 DEF ServerTypeOK, Requests, Accounted
    <3>3. timer[f].serial \in Serial  BY <3>2 DEF Timer
    <3>4. QED  BY <3>2, <3>3, <2>2
  <2>11. Accounted'
    BY <2>2, <2>3, <2>10 DEF Requests, Accounted
  <2>12. QED  BY <2>9, <2>11 DEF Requests
<1>16. CASE ClientStep
  <2>1. ASSUME NEW r \in StopReq, SendStopTimer(r)  PROVE Requests'
    BY <2>1, <1>14 DEF SendStopTimer, Connect, listVars, Request, StopReq
  <2>2. CASE StopTimerServer
    <3>1. [type |-> "serverStop"] \in Request  BY DEF Request
    <3>2. QED  BY <2>2, <3>1, <1>14 DEF StopTimerServer, Connect, listVars
  <2>3. ASSUME NEW p \in Port, TakeExpiryMsg(p) \/ ClientExit(p)  PROVE Requests'
    <3>1. UNCHANGED <<mpc, msg, backlog, fate, used, timer>>
      BY <2>3 DEF TakeExpiryMsg, ClientExit, serverVars, listVars
    <3>2. QED  BY <3>1, <1>2, <1>3 DEF Requests
  <2>4. QED  BY <1>16, <1>15, <2>1, <2>2, <2>3 DEF ClientStep
<1>17. CASE UNCHANGED vars
  BY <1>17, <1>2, <1>3 DEF vars, Requests
<1>18. QED
  BY <1>4, <1>5, <1>6, <1>7, <1>8, <1>9, <1>10, <1>11, <1>12, <1>13, <1>16, <1>17
  DEF Next, ServerStep, TickStep, ServerStartFails, AllocTimerFails

\* At the start nothing is armed.
LEMMA RequestsInit == Init => Requests
<1> SUFFICES ASSUME Init  PROVE Requests
  OBVIOUS
<1>1. RequestInv  BY DEF Init, RequestInv
<1>2. used = <<>> /\ ToSet(used) = {} /\ \A s \in Serial : fate[s] = "none"
  BY DEF Init, ToSet
<1>3. Accounted  BY <1>2 DEF Accounted
<1>4. QED  BY <1>1, <1>3 DEF Requests

\* Every timer that was allocated and has not ended is in exactly one entry
\* of the used list, and every entry there is the entry of such a timer.
THEOREM TimersAccounted == Spec => []Accounted
<1>1. Memory /\ Requests => Accounted  BY DEF Requests
<1>2. QED
  BY <1>1, MemoryInit, RequestsInit, MemoryStep, RequestsStep, ServerTyped, MutexHeld, PTL
  DEF Spec

(***************************************************************************)
(* The order of the used list.                                             *)
(***************************************************************************)
\* Taking an entry out leaves the others in order.
LEMMA FreeKeepsOrder ==
  ASSUME ServerTypeOK, EntriesConserved, UsedSorted, NEW e, FreeTimerUnprotected(e)
  PROVE  UsedSorted'
<1>1. PICK i \in 1..Len(used) : used[i] = e /\ used' = RemoveAt(used, i)
  BY DEF FreeTimerUnprotected
<1>2. used \in Seq(Entry) /\ Len(used) \in Nat /\ DOMAIN used = 1..Len(used)
  BY DEF ServerTypeOK
<1>3. /\ Len(used') = Len(used) - 1
      /\ \A j \in 1..Len(used)-1 : used'[j] = IF j < i THEN used[j] ELSE used[j+1]
  BY <1>1, <1>2, UnlinkElements
<1>4. \A j \in 1..Len(used) : j # i => used[j] # e
  BY <1>1, <1>2 DEF EntriesConserved, IsInjective
<1>5. \A j \in 1..Len(used) : j # i => timer'[used[j]] = timer[used[j]]
  BY <1>2, <1>4 DEF FreeTimerUnprotected, ServerTypeOK
<1>6. ASSUME NEW j \in 1..Len(used'), NEW k \in 1..Len(used'), j < k
      PROVE  timer'[used'[j]].expiry <= timer'[used'[k]].expiry
  <2> DEFINE from(n) == IF n < i THEN n ELSE n+1
  <2>1. /\ from(j) \in 1..Len(used) /\ from(k) \in 1..Len(used)
        /\ from(j) < from(k) /\ from(j) # i /\ from(k) # i
    BY <1>2, <1>3, <1>6
  <2>2. used'[j] = used[from(j)] /\ used'[k] = used[from(k)]
    BY <1>2, <1>3
  <2> HIDE DEF from
  <2>3. QED  BY <2>1, <2>2, <1>5 DEF UsedSorted
<1>7. QED  BY <1>6 DEF UsedSorted

\* The order is kept by every step; the position that allocTimer's sort ends
\* at does not depend on what the tick counter was when it was read.
LEMMA SortedStep ==
  ASSUME ServerTypeOK, PhaseInv, Memory, UsedSorted, [Next]_vars
  PROVE  UsedSorted'
<1>0. /\ used \in Seq(Entry) /\ free \in Seq(Entry) /\ EntriesConserved
      /\ Len(used) \in Nat /\ DOMAIN used = 1..Len(used)
  BY DEF ServerTypeOK, Memory
<1>1. ASSUME UNCHANGED <<used, timer>>  PROVE UsedSorted'
  BY <1>1 DEF UsedSorted
<1>2. CASE AllocTimer
  <2> DEFINE e == Last(free)
             x == tick + msg.period
  <2>1. free # <<>> /\ mpc = "holdAlloc"  BY <1>2 DEF AllocTimer
  <2>2. msg \in Request /\ msg.type = "start"
    BY <2>1 DEF ServerTypeOK, PhaseInv, NoMsg
  <2>3. x \in Nat  BY <2>2, RequestKinds DEF ServerTypeOK
  <2>4. e \in Entry /\ e \in ToSet(free)
    BY <1>0, <2>1, FrontOnce DEF EntriesConserved
  <2>5. e \notin ToSet(used)  BY <2>4, <1>0 DEF EntriesConserved
  <2>6. timer' = [timer EXCEPT ![e] = [expiry |-> x, port |-> msg.port,
                                       id |-> msg.id, serial |-> msg.serial]]
    BY <1>2 DEF AllocTimer
  <2>7. PICK i \in 1..Len(used)+1 : BelongsAt(i, x) /\ used' = InsertAt(used, i, e)
    BY <1>2 DEF AllocTimer
  <2> HIDE DEF e, x
  <2>8. timer'[e].expiry = x  BY <2>4, <2>6 DEF ServerTypeOK
  <2>9. \A j \in 1..Len(used) : /\ timer'[used[j]].expiry = timer[used[j]].expiry
                                /\ timer[used[j]].expiry \in Nat
    <3> TAKE j \in 1..Len(used)
    <3>1. used[j] \in Entry /\ used[j] # e  BY <1>0, <2>5 DEF ToSet
    <3>2. timer[used[j]] \in Timer  BY <3>1 DEF ServerTypeOK
    <3>3. timer[used[j]].expiry \in Nat  BY <3>2 DEF Timer, NoTimer
    <3>4. QED  BY <3>1, <3>3, <2>6 DEF ServerTypeOK
  <2>10. /\ Len(used') = Len(used)+1
         /\ \A j \in 1..Len(used)+1 :
               /\ j < i => used'[j] = used[j]
               /\ j = i => used'[j] = e
               /\ j > i => used'[j] = used[j-1]
    <3>1. used \in Seq(Entry) /\ i \in 1..Len(used)+1 /\ e \in Entry
      BY <1>0, <2>4
    <3>2. LinkedIn(used, i, e, InsertAt(used, i, e))
      BY <3>1, LinkedElements
    <3>3. used' = InsertAt(used, i, e)  BY <2>7
    <3>4. LinkedIn(used, i, e, used')  BY <3>2, <3>3
    <3>5. QED  BY <3>4 DEF LinkedIn
  <2>11. ASSUME NEW j \in 1..Len(used'), NEW k \in 1..Len(used'), j < k
         PROVE  timer'[used'[j]].expiry <= timer'[used'[k]].expiry
    <3>1. CASE k < i
      <4>1. j \in 1..Len(used) /\ k \in 1..Len(used) /\ j < i
        BY <3>1, <1>0, <2>7, <2>11
      <4>2. used'[j] = used[j] /\ used'[k] = used[k]  BY <4>1, <3>1, <2>10, <2>11
      <4>3. QED  BY <4>1, <4>2, <2>9, <2>11 DEF UsedSorted
    <3>2. CASE k = i
      <4>1. j \in 1..i-1 /\ j \in 1..Len(used) /\ j < i
        BY <3>2, <1>0, <2>7, <2>11
      <4>2. used'[j] = used[j] /\ used'[k] = e  BY <4>1, <3>2, <2>10, <2>11
      <4>3. timer[used[j]].expiry <= x  BY <4>1, <2>7 DEF BelongsAt
      <4>4. QED  BY <4>1, <4>2, <4>3, <2>8, <2>9
    <3>3. CASE j = i
      <4>1. k-1 \in i..Len(used) /\ k-1 \in 1..Len(used) /\ k > i
        BY <3>3, <1>0, <2>7, <2>10, <2>11
      <4>2. used'[j] = e /\ used'[k] = used[k-1]  BY <4>1, <3>3, <2>10, <2>11
      <4>3. timer[used[k-1]].expiry > x  BY <4>1, <2>7 DEF BelongsAt
      <4>4. QED  BY <4>1, <4>2, <4>3, <2>3, <2>8, <2>9
    <3>4. CASE j < i /\ k > i
      <4>1. j \in 1..Len(used) /\ k-1 \in 1..Len(used) /\ j < k-1
        BY <3>4, <1>0, <2>7, <2>10, <2>11
      <4>2. used'[j] = used[j] /\ used'[k] = used[k-1]  BY <4>1, <3>4, <2>10, <2>11
      <4>3. QED  BY <4>1, <4>2, <2>9 DEF UsedSorted
    <3>5. CASE j > i
      <4>1. j-1 \in 1..Len(used) /\ k-1 \in 1..Len(used) /\ j-1 < k-1 /\ k > i
        BY <3>5, <1>0, <2>7, <2>10, <2>11
      <4>2. used'[j] = used[j-1] /\ used'[k] = used[k-1]  BY <4>1, <3>5, <2>10, <2>11
      <4>3. QED  BY <4>1, <4>2, <2>9 DEF UsedSorted
    <3>6. QED  BY <3>1, <3>2, <3>3, <3>4, <3>5, <2>7, <2>10, <2>11
  <2>12. QED  BY <2>11 DEF UsedSorted
<1>3. CASE ActionTimerStop
  BY <1>3, <1>0, <1>1, FreeKeepsOrder DEF ActionTimerStop, listVars
<1>4. CASE FreeAllTimers
  <2>1. used' = <<>>  BY <1>4 DEF FreeAllTimers
  <2>2. QED  BY <2>1 DEF UsedSorted
<1>5. ASSUME NEW t \in Ticker, TickSend(t)  PROVE UsedSorted'
  BY <1>5, <1>0, FreeKeepsOrder DEF TickSend
<1>6. CASE \/ AcceptRequest \/ Abort \/ ServerLock \/ DeleteTimer \/ Exit
           \/ ActionTimerServerStart
  BY <1>6, <1>1 DEF AcceptRequest, Abort, ServerLock, DeleteTimer, Exit,
     ActionTimerServerStart, listVars
<1>7. ASSUME NEW t \in Ticker, TickFire(t) \/ TickStore(t) \/ TickTryLock(t) \/ TickWalk(t)
      PROVE  UsedSorted'
  BY <1>7, <1>1 DEF TickFire, TickStore, TickTryLock, TickWalk, listVars
<1>8. CASE ClientStep
  BY <1>8, <1>1 DEF ClientStep, SendStartTimer, SendStopTimer, StopTimerServer,
     Connect, TakeExpiryMsg, ClientExit, listVars
<1>9. CASE UNCHANGED vars  BY <1>9, <1>1 DEF vars
<1>10. QED
  BY <1>2, <1>3, <1>4, <1>5, <1>6, <1>7, <1>8, <1>9
  DEF Next, ServerStep, TickStep, ServerStartFails, AllocTimerFails

\* The used list is always in order of expiry, although allocTimer reads a
\* counter that overlapping tick threads may have put back.
THEOREM OrderKept == Spec => []UsedSorted
<1>1. Init => UsedSorted
  <2> SUFFICES ASSUME Init  PROVE UsedSorted
    OBVIOUS
  <2>1. used = <<>>  BY DEF Init
  <2>2. QED  BY <2>1 DEF UsedSorted
<1>2. QED
  BY <1>1, MemoryInit, MemoryStep, SortedStep, ServerTyped, MutexHeld, PTL DEF Spec

(***************************************************************************)
(* The expiry messages.                                                    *)
(***************************************************************************)
\* The timer a tick thread is about to report runs, and belongs to a request.
LEMMA ReportedTimer ==
  ASSUME ServerTypeOK, Memory, Accounted, NEW t \in Ticker, tpc[t] = "send"
  PROVE  timer[cur[t]].serial \in Serial /\ fate[timer[cur[t]].serial] = "armed"
<1>1. cur[t] \in ToSet(used)  BY DEF Memory, NoUseAfterFree
<1>2. cur[t] \in Entry  BY <1>1, ToSetEntries DEF ServerTypeOK
<1>3. timer[cur[t]] \in Timer /\ timer[cur[t]] # NoTimer
      /\ fate[timer[cur[t]].serial] = "armed"
  BY <1>1, <1>2 DEF ServerTypeOK, Accounted
<1>4. QED  BY <1>3 DEF Timer

\* Messages come from tick threads only.
LEMMA OthersSendNothing ==
  ASSUME mail \in [Port -> Seq(Serial)], [Next]_vars, ~ \E t \in Ticker : TickSend(t)
  PROVE  \/ mail' = mail
         \/ \E p \in Port : mail[p] # <<>> /\ mail' = [mail EXCEPT ![p] = Tail(@)]
         \/ \E p \in Port : mail' = [mail EXCEPT ![p] = <<>>]
<1>1. CASE ServerStep
  BY <1>1 DEF ServerStep, AcceptRequest, ActionTimerServerStart, ServerStartFails, ServerLock,
     AllocTimer, AllocTimerFails, ActionTimerStop, FreeAllTimers, DeleteTimer, Exit, Abort,
     clientVars
<1>2. ASSUME NEW t \in Ticker, TickFire(t) \/ TickStore(t) \/ TickTryLock(t) \/ TickWalk(t)
      PROVE  mail' = mail
  BY <1>2 DEF TickFire, TickStore, TickTryLock, TickWalk, clientVars
<1>3. CASE ClientStep
  BY <1>3 DEF ClientStep, SendStartTimer, SendStopTimer, StopTimerServer, Connect,
     TakeExpiryMsg, ClientExit, clientVars
<1>4. CASE UNCHANGED vars  BY <1>4 DEF vars
<1>5. QED  BY <1>1, <1>2, <1>3, <1>4 DEF Next, TickStep

\* The whole state keeps its type: what arrives at a client is the message of
\* a request, never of an entry that was freed meanwhile.
THEOREM TypeCorrect == Spec => []TypeOK
<1> DEFINE Mail == mail \in [Port -> Seq(Serial)]
<1>1. Init => Mail
  BY EmptySeq DEF Init
<1>2. ServerTypeOK /\ Memory /\ Requests /\ Mail /\ [Next]_vars => Mail'
  <2> SUFFICES ASSUME ServerTypeOK, Memory, Requests, Mail, [Next]_vars  PROVE Mail'
    OBVIOUS
  <2>1. ASSUME NEW t \in Ticker, TickSend(t)  PROVE Mail'
    <3>1. tpc[t] = "send" /\ \E outcome \in {"expired", "lost"} :
                                SendTimerExpiryMsg(cur[t], outcome)
      BY <2>1 DEF TickSend
    <3>2. timer[cur[t]].serial \in Serial  BY <3>1, ReportedTimer DEF Requests
    <3>3. \/ mail' = mail
          \/ \E p : mail' = [mail EXCEPT ![p] = Append(@, timer[cur[t]].serial)]
      BY <3>1 DEF SendTimerExpiryMsg
    <3>4. \A p \in Port : Append(mail[p], timer[cur[t]].serial) \in Seq(Serial)
      BY <3>2, AppendProperties
    <3>5. QED  BY <3>3, <3>4
  <2>2. CASE ~ \E t \in Ticker : TickSend(t)
    <3>1. \A p \in Port : mail[p] # <<>> => Tail(mail[p]) \in Seq(Serial)
      OBVIOUS
    <3>2. <<>> \in Seq(Serial)  BY EmptySeq
    <3>3. QED  BY <2>2, <3>1, <3>2, OthersSendNothing
  <2>3. QED  BY <2>1, <2>2
<1>3. ServerTypeOK /\ Mail => TypeOK  BY DEF TypeOK
<1> HIDE DEF Mail
<1>4. QED
  BY <1>1, <1>2, <1>3, MemoryInit, RequestsInit, MemoryStep, RequestsStep, ServerTyped,
     MutexHeld, PTL DEF Spec

\* An expiry message goes out only for a timer that runs at that moment, and
\* that is the end of the timer: none after a stop, none twice.
THEOREM ExpirySound == Spec => ExpiryOnlyWhenArmed
<1> DEFINE Sound == \A p \in Port : Len(mail'[p]) > Len(mail[p]) =>
                       fate[Last(mail'[p])] = "armed" /\ fate'[Last(mail'[p])] # "armed"
<1>1. TypeOK /\ Memory /\ Requests /\ [Next]_vars => Sound
  <2> SUFFICES ASSUME TypeOK, Memory, Requests, [Next]_vars,
                      NEW p \in Port, Len(mail'[p]) > Len(mail[p])
               PROVE  fate[Last(mail'[p])] = "armed" /\ fate'[Last(mail'[p])] # "armed"
    OBVIOUS
  <2>1. ServerTypeOK /\ mail \in [Port -> Seq(Serial)]  BY DEF TypeOK
  <2>2. Len(mail[p]) \in Nat /\ mail[p] \in Seq(Serial)  BY <2>1
  <2>3. \E t \in Ticker : TickSend(t)
    <3>1. mail' # mail  BY <2>2
    <3>2. ASSUME NEW q \in Port, mail[q] # <<>>, mail' = [mail EXCEPT ![q] = Tail(@)]
          PROVE  FALSE
      <4>1. q = p  BY <3>2, <2>1, <2>2
      <4>2. Len(Tail(mail[p])) = Len(mail[p]) - 1  BY <3>2, <4>1, <2>2
      <4>3. QED  BY <3>2, <4>1, <4>2, <2>1, <2>2
    <3>3. ASSUME NEW q \in Port, mail' = [mail EXCEPT ![q] = <<>>]
          PROVE  FALSE
      <4>1. q = p  BY <3>3, <2>1, <2>2
      <4>2. Len(mail'[p]) = 0  BY <3>3, <4>1, <2>1
      <4>3. QED  BY <4>2, <2>2
    <3>4. QED  BY <3>1, <3>2, <3>3, <2>1, OthersSendNothing
  <2>4. PICK t \in Ticker : TickSend(t)  BY <2>3
  <2>5. PICK outcome \in {"expired", "lost"} :
           /\ SendTimerExpiryMsg(cur[t], outcome)
           /\ fate' = [fate EXCEPT ![timer[cur[t]].serial] = outcome]
    BY <2>4 DEF TickSend
  <2>6. timer[cur[t]].serial \in Serial /\ fate[timer[cur[t]].serial] = "armed"
    BY <2>1, <2>4, ReportedTimer DEF TickSend, Requests
  <2>7. mail'[p] = Append(mail[p], timer[cur[t]].serial)
    <3>1. mail' # mail  BY <2>2
    <3>2. PICK q : q = timer[cur[t]].port  OBVIOUS
    <3>3. PICK s : s = timer[cur[t]].serial  OBVIOUS
    <3>4. mail' = [mail EXCEPT ![q] = Append(@, s)]
      BY <2>5, <3>1, <3>2, <3>3 DEF SendTimerExpiryMsg
    <3>5. q = p  BY <3>4, <2>1, <2>2
    <3>6. QED  BY <3>3, <3>4, <3>5, <2>1
  <2>8. Last(mail'[p]) = timer[cur[t]].serial
    <3>1. PICK s : s = timer[cur[t]].serial  OBVIOUS
    <3>2. PICK before : before = mail[p]  OBVIOUS
    <3>3. before \in Seq(Serial) /\ s \in Serial  BY <2>2, <2>6, <3>1, <3>2
    <3>4. Last(Append(before, s)) = s
      BY <3>3, AppendProperties DEF Last
    <3>5. QED  BY <2>7, <3>1, <3>2, <3>4
  <2>9. fate'[timer[cur[t]].serial] = outcome  BY <2>1, <2>5, <2>6 DEF ServerTypeOK
  <2>10. QED  BY <2>5, <2>6, <2>8, <2>9
<1>2. TypeOK /\ Memory /\ Requests /\ [Next]_vars => [Sound]_vars
  BY <1>1
<1> HIDE DEF Sound
<1>3. Spec => [][Sound]_vars
  BY <1>2, TypeCorrect, MemoryInit, RequestsInit, MemoryStep, RequestsStep, ServerTyped,
     MutexHeld, PTL DEF Spec
<1>4. QED  BY <1>3 DEF ExpiryOnlyWhenArmed, Sound
(***************************************************************************)
(* The abstract lists.                                                     *)
(***************************************************************************)
\* What a step of TimerLists needs to know that the lists do not say: the
\* clock is bounded, nothing is malloc()ed before the start, and nothing is
\* destroyed while a timer runs.
Bounds ==
  /\ tick \in 0..Horizon
  /\ (\E i \in 1..Len(backlog) : backlog[i].type = "serverStart") => free = <<>>
  /\ mpc \in {"wantDelete", "holdDelete"} => used = <<>>

LEMMA BoundsStep ==
  ASSUME ServerTypeOK, LockInv, Memory, Bounds, [Next]_vars
  PROVE  Bounds'
<1> USE TimerServerAssumption
<1>0. /\ backlog \in Seq(Request) /\ used \in Seq(Entry) /\ load \in [Ticker -> Nat]
      /\ tick \in 0..Horizon
  BY DEF ServerTypeOK, Bounds
<1>1. ASSUME UNCHANGED <<tick, free, used>>,
             UNCHANGED backlog, mpc' \notin {"wantDelete", "holdDelete"} \/ used = <<>>
      PROVE  Bounds'
  BY <1>1 DEF Bounds
<1>2. CASE AcceptRequest
  <2>1. /\ UNCHANGED <<tick, free, used>> /\ backlog' = Tail(backlog) /\ backlog # <<>>
        /\ Head(backlog) \in Request /\ Head(backlog).type # "serverStart"
        /\ mpc' = Dispatch[Head(backlog).type]
    BY <1>2, BacklogTyped DEF AcceptRequest, listVars
  <2>2. mpc' \in {"wantAlloc", "wantStop", "wantFree"}
    BY <2>1, RequestKinds DEF Dispatch
  <2>3. \A i \in 1..Len(backlog') : i+1 \in 1..Len(backlog) /\ backlog'[i] = backlog[i+1]
    BY <2>1, <1>0, TailOfBacklog
  <2>4. QED  BY <2>1, <2>2, <2>3 DEF Bounds
<1>3. CASE ActionTimerServerStart
  <2>1. /\ UNCHANGED <<tick, used, mpc>> /\ backlog' = Tail(backlog) /\ backlog # <<>>
    BY <1>3 DEF ActionTimerServerStart
  <2>2. \A i \in 1..Len(backlog') : /\ i+1 \in 1..Len(backlog) /\ i+1 # 1
                                   /\ backlog'[i] = backlog[i+1]
    BY <2>1, <1>0, TailOfBacklog
  <2>3. \A i \in 1..Len(backlog') : backlog'[i].type # "serverStart"
    BY <2>2 DEF Memory, StartInv
  <2>4. QED  BY <2>1, <2>3 DEF Bounds
<1>4. CASE Abort
  <2>1. UNCHANGED <<tick, free, used, backlog>> /\ mpc' = "aborted"
    BY <1>4 DEF Abort, listVars
  <2>2. QED  BY <2>1, <1>1
<1>5. CASE ServerLock
  <2>1. UNCHANGED <<tick, free, used, backlog>> /\ (mpc' = "holdDelete" => mpc = "wantDelete")
        /\ mpc' # "wantDelete"
    BY <1>5 DEF ServerLock, Holding, listVars
  <2>2. QED  BY <2>1, <1>1 DEF Bounds
<1>6. ASSUME lock = "server", UNCHANGED <<tick, backlog>>,
             mpc' \notin {"wantDelete", "holdDelete"} \/ used' = <<>>
      PROVE  Bounds'
  <2>1. \A i \in 1..Len(backlog) : backlog[i].type # "serverStart"
    BY <1>6 DEF LockInv, Memory, StartInv
  <2>2. QED  BY <1>6, <2>1 DEF Bounds
<1>7. CASE AllocTimer
  BY <1>7, <1>6 DEF AllocTimer, LockInv
<1>8. CASE ActionTimerStop
  <2>1. lock = "server" /\ UNCHANGED <<tick, backlog>> /\ mpc' = "accept"
    BY <1>8 DEF ActionTimerStop, LockInv
  <2>2. QED  BY <2>1, <1>6
<1>9. CASE FreeAllTimers
  BY <1>9, <1>6 DEF FreeAllTimers, LockInv
<1>10. CASE DeleteTimer
  BY <1>10, <1>6 DEF DeleteTimer, LockInv
<1>11. CASE Exit
  BY <1>11, <1>1 DEF Exit, listVars
<1>12. ASSUME NEW t \in Ticker, TickStore(t)  PROVE Bounds'
  <2>1. load[t] \in Nat /\ Horizon \in Nat  BY <1>0
  <2>2. tick' \in 0..Horizon  BY <1>12, <2>1 DEF TickStore
  <2>3. UNCHANGED <<mpc, backlog, free, used>>
    BY <1>12 DEF TickStore, serverVars, listVars
  <2>4. QED  BY <2>2, <2>3 DEF Bounds
<1>13. ASSUME NEW t \in Ticker, TickFire(t) \/ TickTryLock(t) \/ TickWalk(t)
       PROVE  Bounds'
  <2>1. UNCHANGED <<tick, free, used, backlog, mpc>>
    BY <1>13 DEF TickFire, TickTryLock, TickWalk, serverVars, listVars
  <2>2. QED  BY <2>1 DEF Bounds
<1>14. ASSUME NEW t \in Ticker, TickSend(t)  PROVE Bounds'
  <2>1. UNCHANGED <<tick, backlog, mpc>> /\ FreeTimerUnprotected(cur[t])
    BY <1>14 DEF TickSend, serverVars
  <2>2. used # <<>>  BY <2>1 DEF FreeTimerUnprotected
  <2>3. \A i \in 1..Len(backlog) : backlog[i].type # "serverStart"
    BY <2>2 DEF Memory, StartInv
  <2>4. QED  BY <2>1, <2>2, <2>3 DEF Bounds
<1>15. ASSUME NEW r \in Request, Connect(r), r.type # "serverStart"  PROVE Bounds'
  <2>1. UNCHANGED <<tick, free, used, mpc>> /\ backlog' = Append(backlog, r)
    BY <1>15 DEF Connect, listVars
  <2>2. \A i \in 1..Len(backlog') : \/ i \in 1..Len(backlog) /\ backlog'[i] = backlog[i]
                                    \/ backlog'[i] = r
    BY <2>1, <1>0, BacklogAppend
  <2>3. QED  BY <2>1, <2>2, <1>15 DEF Bounds
<1>16. CASE ClientStep
  <2>1. ASSUME NEW r \in StartReq, SendStartTimer(r)  PROVE Bounds'
    BY <2>1, <1>15 DEF SendStartTimer, Request, StartReq
  <2>2. ASSUME NEW r \in StopReq, SendStopTimer(r)  PROVE Bounds'
    BY <2>2, <1>15 DEF SendStopTimer, Request, StopReq
  <2>3. CASE StopTimerServer
    <3>1. [type |-> "serverStop"] \in Request  BY DEF Request
    <3>2. QED  BY <2>3, <3>1, <1>15 DEF StopTimerServer
  <2>4. ASSUME NEW p \in Port, TakeExpiryMsg(p) \/ ClientExit(p)  PROVE Bounds'
    <3>1. UNCHANGED <<tick, free, used, backlog, mpc>>
      BY <2>4 DEF TakeExpiryMsg, ClientExit, listVars, serverVars
    <3>2. QED  BY <3>1 DEF Bounds
  <2>5. QED  BY <1>16, <2>1, <2>2, <2>3, <2>4 DEF ClientStep
<1>17. CASE UNCHANGED vars
  BY <1>17 DEF vars, Bounds
<1>18. QED
  BY <1>2, <1>3, <1>4, <1>5, <1>7, <1>8, <1>9, <1>10, <1>11, <1>12, <1>13, <1>14,
     <1>16, <1>17
  DEF Next, ServerStep, TickStep, ServerStartFails, AllocTimerFails

\* The abstract lists' sequence operators are this module's.
LEMMA SameOperators ==
  /\ \A s, i : Lists!RemoveAt(s, i) = RemoveAt(s, i)
  /\ \A s, i, e : Lists!InsertAt(s, i, e) = InsertAt(s, i, e)
  /\ \A s : Lists!Front(s) = Front(s) /\ Lists!Last(s) = Last(s)
  /\ \A s : Lists!IsInjective(s) <=> IsInjective(s)
BY DEF Lists!RemoveAt, RemoveAt, Lists!InsertAt, InsertAt, Lists!Front, Front,
       Lists!Last, Last, Lists!IsInjective, IsInjective

\* Freeing an entry is the abstract Take.
LEMMA FreeTakes ==
  ASSUME ServerTypeOK, NEW e, FreeTimerUnprotected(e)
  PROVE  \E i \in 1..Len(used) : Lists!Take(i)
<1>1. PICK i \in 1..Len(used) : used[i] = e /\ used' = RemoveAt(used, i)
  BY DEF FreeTimerUnprotected
<1>2. used[i] \in Entry  BY DEF ServerTypeOK
<1>3. free' = Append(free, e) /\ timer' = [timer EXCEPT ![e] = NoTimer]
  BY DEF FreeTimerUnprotected
<1>4. \A f \in Entry : timer'[f].expiry = IF f = e THEN 0 ELSE timer[f].expiry
  BY <1>1, <1>2, <1>3 DEF ServerTypeOK, NoTimer
<1>5. [f \in Entry |-> timer'[f].expiry] =
        [[f \in Entry |-> timer[f].expiry] EXCEPT ![used[i]] = 0]
  BY <1>1, <1>2, <1>4
<1>6. Lists!Take(i)
  BY <1>1, <1>3, <1>5, SameOperators DEF Lists!Take
<1>7. QED  BY <1>6

\* allocTimer, its sort included, is the abstract Put.
LEMMA AllocPuts ==
  ASSUME ServerTypeOK, PhaseInv, Bounds, AllocTimer
  PROVE  \E x \in 0..2*Horizon : Lists!Put(x)
<1> DEFINE e == Last(free)
           x == tick + msg.period
<1>1. /\ free # <<>> /\ mpc = "holdAlloc" /\ free' = Front(free)
      /\ timer' = [timer EXCEPT ![e] = [expiry |-> x, port |-> msg.port,
                                        id |-> msg.id, serial |-> msg.serial]]
  BY DEF AllocTimer
<1>2. PICK i \in 1..Len(used)+1 : BelongsAt(i, x) /\ used' = InsertAt(used, i, e)
  BY DEF AllocTimer
<1>3. msg \in StartReq
  BY <1>1 DEF ServerTypeOK, PhaseInv, NoMsg, Request, StopReq
<1>4. x \in 0..2*Horizon
  <2>1. /\ msg.period \in Period /\ Period \subseteq Nat /\ MaxTick \in Nat /\ Horizon \in Nat
        /\ \A p \in Period : MaxTick + p <= Horizon
    BY <1>3, TimerServerAssumption DEF StartReq
  <2>2. msg.period \in Nat /\ MaxTick + msg.period <= Horizon  BY <2>1
  <2>3. tick \in 0..Horizon  BY DEF Bounds
  <2>4. QED  BY <2>1, <2>2, <2>3
<1>5. e \in Entry
  BY <1>1, FrontFact DEF ServerTypeOK
<1>6. used \in Seq(Entry) /\ Len(used) \in Nat /\ timer \in [Entry -> Timer]
  BY DEF ServerTypeOK
<1> HIDE DEF e, x
<1>7. \A f \in Entry : timer'[f].expiry = IF f = e THEN x ELSE timer[f].expiry
  BY <1>1, <1>5, <1>6
<1>8. [f \in Entry |-> timer'[f].expiry] =
        [[f \in Entry |-> timer[f].expiry] EXCEPT ![e] = x]
  BY <1>5, <1>7
<1>9. \A j \in 1..Len(used) : used[j] \in Entry
  BY <1>6
<1>10. Lists!BelongsAt(i, x)
  <2>1. \A j \in 1..i-1 : j \in 1..Len(used)  BY <1>6
  <2>2. \A j \in i..Len(used) : j \in 1..Len(used)  BY <1>6
  <2>3. QED  BY <1>2, <1>9, <2>1, <2>2 DEF BelongsAt, Lists!BelongsAt
<1>11. PICK y \in 0..2*Horizon : y = x  BY <1>4
<1>12. Lists!Last(free) = e /\ Lists!Front(free) = Front(free)
       /\ Lists!InsertAt(used, i, e) = InsertAt(used, i, e)
  BY SameOperators DEF e
<1>13. Lists!BelongsAt(i, y)
  BY <1>10, <1>11 DEF Lists!BelongsAt
<1>14. Lists!Put(y)
  BY <1>1, <1>2, <1>8, <1>11, <1>12, <1>13 DEF Lists!Put
<1>15. QED  BY <1>14

\* Every step of the server is one of the abstract lists, or leaves them be.
LEMMA ListsStep ==
  ASSUME ServerTypeOK, PhaseInv, LockInv, Memory, Bounds, [Next]_vars
  PROVE  [Lists!Next]_(Lists!vars)
<1>1. ASSUME UNCHANGED listVars  PROVE UNCHANGED Lists!vars
  BY <1>1 DEF listVars, Lists!vars
<1>2. CASE ActionTimerServerStart
  <2>1. backlog # <<>> /\ Head(backlog).type = "serverStart" /\ UNCHANGED <<used, timer>>
    BY <1>2 DEF ActionTimerServerStart
  <2>2. 1 \in 1..Len(backlog) /\ backlog[1].type = "serverStart"
    BY <2>1, TailOfBacklog DEF ServerTypeOK
  <2>3. free = <<>> /\ used = <<>>
    BY <2>2 DEF Bounds, Memory, StartInv
  <2>4. PICK order \in [1..Cardinality(Entry) -> Entry] : IsInjective(order) /\ free' = order
    BY <1>2 DEF ActionTimerServerStart
  <2>5. Cardinality(Entry) \in Nat
    BY TimerServerAssumption, FS_CardinalityType
  <2>6. free' \in Seq(Entry) /\ Len(free') = Cardinality(Entry) /\ IsInjective(free')
    BY <2>4, <2>5
  <2>7. Lists!Create
    <3>1. UNCHANGED [e \in Entry |-> timer[e].expiry]  BY <2>1
    <3>2. Lists!IsInjective(free')  BY <2>6, SameOperators
    <3>3. QED  BY <2>1, <2>3, <2>6, <3>1, <3>2 DEF Lists!Create
  <2>8. QED  BY <2>7 DEF Lists!Next
<1>3. CASE AllocTimer
  BY <1>3, AllocPuts DEF Lists!Next
<1>4. ASSUME NEW e, FreeTimerUnprotected(e)  PROVE Lists!Next
  BY <1>4, FreeTakes DEF Lists!Next
<1>5. CASE ActionTimerStop
  BY <1>1, <1>4, <1>5 DEF ActionTimerStop
<1>6. CASE FreeAllTimers
  <2>1. free' = free \o used /\ used' = <<>> /\ timer' = [e \in Entry |-> NoTimer]
    BY <1>6 DEF FreeAllTimers
  <2>2. [e \in Entry |-> timer'[e].expiry] = Lists!Unused
    BY <2>1 DEF NoTimer, Lists!Unused
  <2>3. Lists!TakeAll
    BY <2>1, <2>2 DEF Lists!TakeAll
  <2>4. QED  BY <2>3 DEF Lists!Next
<1>7. CASE DeleteTimer
  <2>1. used = <<>> /\ free' = <<>> /\ UNCHANGED <<used, timer>>
    BY <1>7 DEF DeleteTimer, Bounds
  <2>2. Lists!Destroy  BY <2>1 DEF Lists!Destroy
  <2>3. QED  BY <2>2 DEF Lists!Next
<1>8. ASSUME NEW t \in Ticker, TickSend(t)  PROVE Lists!Next
  BY <1>4, <1>8 DEF TickSend
<1>9. CASE \/ AcceptRequest \/ Abort \/ ServerLock \/ Exit \/ ClientStep
           \/ \E t \in Ticker : TickFire(t) \/ TickStore(t) \/ TickTryLock(t) \/ TickWalk(t)
           \/ UNCHANGED vars
  <2>1. UNCHANGED listVars
    BY <1>9 DEF AcceptRequest, Abort, ServerLock, Exit, ClientStep, SendStartTimer,
       SendStopTimer, StopTimerServer, Connect, TakeExpiryMsg, ClientExit,
       TickFire, TickStore, TickTryLock, TickWalk, vars, listVars
  <2>2. QED  BY <1>1, <2>1
<1>10. QED
  BY <1>2, <1>3, <1>5, <1>6, <1>7, <1>8, <1>9
  DEF Next, ServerStep, TickStep, ServerStartFails, AllocTimerFails

\* The server's lists are the abstract ones: nothing that clients, ticks and
\* the server's own stop do to them, in any interleaving, is anything else
\* than putting one timer in order, taking some out, creating or destroying.
THEOREM ListsImplemented == Spec => ImplementsLists
<1>1. Init => Lists!Init
  <2> SUFFICES ASSUME Init  PROVE Lists!Init
    OBVIOUS
  <2>1. free = <<>> /\ used = <<>> /\ timer = [e \in Entry |-> NoTimer]
    BY DEF Init
  <2>2. [e \in Entry |-> timer[e].expiry] = Lists!Unused
    BY <2>1 DEF NoTimer, Lists!Unused
  <2>3. QED  BY <2>1, <2>2 DEF Lists!Init
<1>2. Init => Bounds
  BY TimerServerAssumption DEF Init, Bounds
<1>3. Spec => []Bounds
  BY <1>2, BoundsStep, MemoryInit, MemoryStep, ServerTyped, MutexHeld, PTL DEF Spec
<1>4. Spec => []Memory
  BY MemoryInit, MemoryStep, ServerTyped, MutexHeld, PTL DEF Spec
<1>5. QED
  BY <1>1, <1>3, <1>4, ListsStep, ServerTyped, MutexHeld, PTL
  DEF Spec, ImplementsLists, Lists!Spec

(***************************************************************************)
(* The time at which timers end, where tick handlers do not overlap.       *)
(***************************************************************************)
\* The OS runs at most one tickHandlerCallback at a time.
OneHandler == \A t, u \in Ticker : t = u

\* A handler has counted the OS tick but not yet stored the counter.
Handling == \E t \in Ticker : tpc[t] = "loaded"

LoadInv == \A t \in Ticker : tpc[t] = "loaded" => load[t] = tick

\* How many OS ticks a timer whose deadline is d ticks away may still have to
\* see: one more than d if it was put in while a handler was at the counter.
MaySee(ticks, d, handling) ==
  ticks = 0 \/ ticks <= d \/ (~handling /\ ticks <= d + 1)

LeftInv ==
  \A e \in ToSet(used) : MaySee(left[timer[e].serial], timer[e].expiry - tick, Handling)

\* The walk stands at the head of the list for as long as something is due.
WalkInv ==
  \A t \in Ticker :
    /\ tpc[t] \in {"walk", "send"} =>
         cur[t] = HeadOf(used) \/ \A e \in ToSet(used) : ~Due(e)
    /\ tpc[t] = "send" => Due(cur[t])

\* The timers of the used list.
LEMMA UsedTimers ==
  ASSUME ServerTypeOK, Accounted, NEW e \in ToSet(used)
  PROVE  /\ e \in Entry /\ timer[e].expiry \in Nat
         /\ timer[e].serial \in Serial /\ fate[timer[e].serial] = "armed"
<1>1. e \in Entry  BY ToSetEntries DEF ServerTypeOK
<1>2. timer[e] \in Timer /\ timer[e] # NoTimer /\ fate[timer[e].serial] = "armed"
  BY <1>1 DEF ServerTypeOK, Accounted
<1>3. QED  BY <1>1, <1>2 DEF Timer

\* Nobody stores the counter between the load and the store of the handler.
LEMMA LoadStep ==
  ASSUME OneHandler, ServerTypeOK, LoadInv, [Next]_vars
  PROVE  LoadInv'
<1>0. tpc \in [Ticker -> TickPc] /\ load \in [Ticker -> Nat]
  BY DEF ServerTypeOK
<1>1. ASSUME UNCHANGED <<tick, load>>,
             \A t \in Ticker : tpc'[t] = "loaded" => tpc[t] = "loaded"
      PROVE  LoadInv'
  BY <1>1 DEF LoadInv
<1>2. CASE ServerStep
  BY <1>2, <1>1 DEF ServerStep, AcceptRequest, ActionTimerServerStart, ServerStartFails,
     ServerLock, AllocTimer, AllocTimerFails, ActionTimerStop, FreeAllTimers, DeleteTimer,
     Exit, Abort, tickVars
<1>3. ASSUME NEW t \in Ticker, TickFire(t)  PROVE LoadInv'
  BY <1>0, <1>3 DEF TickFire, OneHandler, LoadInv
<1>4. ASSUME NEW t \in Ticker, TickStore(t)  PROVE LoadInv'
  BY <1>0, <1>4 DEF TickStore, OneHandler, LoadInv
<1>5. ASSUME NEW t \in Ticker, TickTryLock(t) \/ TickWalk(t) \/ TickSend(t)  PROVE LoadInv'
  <2>1. UNCHANGED <<tick, load>> /\ \A u \in Ticker : tpc'[u] = "loaded" => tpc[u] = "loaded"
    BY <1>0, <1>5 DEF TickTryLock, TickWalk, TickSend
  <2>2. QED  BY <2>1, <1>1
<1>6. CASE ClientStep
  BY <1>6, <1>1 DEF ClientStep, SendStartTimer, SendStopTimer, StopTimerServer,
     Connect, TakeExpiryMsg, ClientExit, tickVars
<1>7. CASE UNCHANGED vars  BY <1>7, <1>1 DEF vars
<1>8. QED  BY <1>2, <1>3, <1>4, <1>5, <1>6, <1>7 DEF Next, TickStep

\* Each OS tick takes one from what a timer has to see and one from what its
\* deadline is away, the second not before the first.
LEMMA LeftStep ==
  ASSUME OneHandler, ServerTypeOK, PhaseInv, Memory, Requests, Bounds, LoadInv, LeftInv,
         [Next]_vars
  PROVE  LeftInv'
<1>0. /\ tpc \in [Ticker -> TickPc] /\ load \in [Ticker -> Nat] /\ left \in [Serial -> Nat]
      /\ tick \in Nat /\ Horizon \in Nat /\ tick <= Horizon
      /\ used \in Seq(Entry) /\ free \in Seq(Entry) /\ EntriesConserved /\ Accounted
  BY TimerServerAssumption DEF ServerTypeOK, Memory, Requests, Bounds
<1>1. ASSUME UNCHANGED <<tick, left>>, Handling' => Handling,
             ToSet(used') \subseteq ToSet(used),
             \A e \in ToSet(used') : timer'[e] = timer[e]
      PROVE  LeftInv'
  BY <1>1 DEF LeftInv, MaySee
<1>2. ASSUME NEW e, FreeTimerUnprotected(e)
      PROVE  /\ ToSet(used') \subseteq ToSet(used)
             /\ \A f \in ToSet(used') : timer'[f] = timer[f]
  <2>1. ToSet(used') = ToSet(used) \ {e}  BY <1>0, <1>2, FreeMoves
  <2>2. ToSet(used) \subseteq Entry  BY <1>0, ToSetEntries
  <2>3. QED  BY <1>2, <2>1, <2>2 DEF FreeTimerUnprotected, ServerTypeOK
<1>3. CASE AllocTimer
  <2>1. free # <<>> /\ mpc = "holdAlloc"  BY <1>3 DEF AllocTimer
  <2>2. msg \in Request /\ msg.type = "start"
    BY <2>1 DEF ServerTypeOK, PhaseInv, NoMsg
  <2>3. msg.period \in Nat /\ msg.serial \in Serial  BY <2>2, RequestKinds
  <2>4. PICK e : e = Last(free)  OBVIOUS
  <2>5. e \in Entry /\ e \notin ToSet(used)
    BY <1>0, <2>1, <2>4, FrontOnce DEF EntriesConserved
  <2>6. timer' = [timer EXCEPT ![e] = [expiry |-> tick + msg.period, port |-> msg.port,
                                       id |-> msg.id, serial |-> msg.serial]]
    BY <1>3, <2>4 DEF AllocTimer
  <2>7. PICK i \in 1..Len(used)+1 : used' = InsertAt(used, i, e)
    BY <1>3, <2>4 DEF AllocTimer
  <2>8. ToSet(used') = ToSet(used) \cup {e}
    BY <1>0, <2>5, <2>7, LinkOnce DEF EntriesConserved
  <2>9. /\ left' = [left EXCEPT ![msg.serial] = msg.period]
        /\ UNCHANGED <<tick, tpc>> /\ fate[msg.serial] = "requested"
    BY <1>3, <2>1 DEF AllocTimer, tickVars, Requests, RequestInv
  <2>10. Handling' <=> Handling  BY <2>9 DEF Handling
  <2>11. ASSUME NEW f \in ToSet(used)
         PROVE  MaySee(left'[timer'[f].serial], timer'[f].expiry - tick', Handling')
    <3>1. timer'[f] = timer[f]
      BY <1>0, <2>5, <2>6, <2>11, UsedTimers DEF ServerTypeOK
    <3>2. timer[f].serial \in Serial /\ timer[f].serial # msg.serial
      BY <1>0, <2>9, <2>11, UsedTimers
    <3>3. left'[timer[f].serial] = left[timer[f].serial]
      BY <1>0, <2>9, <3>2
    <3>4. QED  BY <2>9, <2>10, <2>11, <3>1, <3>3 DEF LeftInv, MaySee
  <2>12. MaySee(left'[timer'[e].serial], timer'[e].expiry - tick', Handling')
    <3>1. timer'[e].serial = msg.serial /\ timer'[e].expiry = tick + msg.period
      BY <2>5, <2>6 DEF ServerTypeOK
    <3>2. left'[msg.serial] = msg.period /\ tick' = tick
      BY <1>0, <2>3, <2>9
    <3>3. QED  BY <1>0, <2>3, <3>1, <3>2 DEF MaySee
  <2>13. QED  BY <2>8, <2>11, <2>12 DEF LeftInv
<1>4. CASE ActionTimerStop
  <2>1. UNCHANGED <<tick, left, tpc>>
    BY <1>4 DEF ActionTimerStop, tickVars
  <2>2. Handling' => Handling  BY <2>1 DEF Handling
  <2>3. UNCHANGED <<used, timer>> \/ \E e : FreeTimerUnprotected(e)
    BY <1>4 DEF ActionTimerStop, listVars
  <2>4. QED  BY <2>1, <2>2, <2>3, <1>1, <1>2
<1>5. CASE FreeAllTimers
  <2>1. used' = <<>>  BY <1>5 DEF FreeAllTimers
  <2>2. ToSet(used') = {}  BY <2>1 DEF ToSet
  <2>3. QED  BY <2>2 DEF LeftInv
<1>6. CASE \/ AcceptRequest \/ ServerStartFails \/ AllocTimerFails \/ ServerLock
           \/ DeleteTimer \/ Exit \/ ActionTimerServerStart
  <2>1. /\ UNCHANGED <<tick, left, used, timer>>
        /\ \A t \in Ticker : tpc'[t] = "loaded" => tpc[t] = "loaded"
    BY <1>6 DEF AcceptRequest, ServerStartFails, AllocTimerFails, Abort, ServerLock,
       DeleteTimer, Exit, ActionTimerServerStart, listVars, tickVars
  <2>2. Handling' => Handling  BY <2>1 DEF Handling
  <2>3. QED  BY <2>1, <2>2, <1>1
<1>7. ASSUME NEW t \in Ticker, TickFire(t)  PROVE LeftInv'
  <2>1. /\ UNCHANGED <<tick, used, timer>> /\ tpc[t] = "idle"
        /\ left' = [s \in Serial |-> IF left[s] > 0 THEN left[s] - 1 ELSE 0]
    BY <1>7 DEF TickFire, listVars
  <2>2. ~Handling  BY <2>1 DEF Handling, OneHandler
  <2>3. ASSUME NEW e \in ToSet(used)
        PROVE  MaySee(left'[timer[e].serial], timer[e].expiry - tick, TRUE)
    <3>1. timer[e].serial \in Serial /\ timer[e].expiry \in Nat
      BY <1>0, UsedTimers
    <3>2. PICK l, d : l = left[timer[e].serial] /\ d = timer[e].expiry - tick
      OBVIOUS
    <3>3. l \in Nat /\ d \in Int
      BY <1>0, <3>1, <3>2
    <3>4. MaySee(l, d, Handling)
      BY <2>3, <3>2 DEF LeftInv
    <3>5. left'[timer[e].serial] = IF l > 0 THEN l - 1 ELSE 0
      BY <2>1, <3>1, <3>2
    <3>6. QED  BY <3>2, <3>3, <3>4, <3>5 DEF MaySee
  <2>4. QED  BY <2>1, <2>3 DEF LeftInv, MaySee
<1>8. ASSUME NEW t \in Ticker, TickStore(t)  PROVE LeftInv'
  <2>1. /\ UNCHANGED <<left, used, timer>> /\ tpc[t] = "loaded"
        /\ tpc' = [tpc EXCEPT ![t] = "trylock"]
        /\ tick' = IF load[t] < Horizon THEN load[t] + 1 ELSE Horizon
    BY <1>8 DEF TickStore, listVars
  <2>2. tick' \in {tick, tick + 1}
    BY <1>0, <2>1 DEF LoadInv
  <2>3. Handling /\ ~Handling'
    BY <1>0, <2>1 DEF Handling, OneHandler
  <2>4. ASSUME NEW e \in ToSet(used)
        PROVE  MaySee(left[timer[e].serial], timer[e].expiry - tick', FALSE)
    <3>1. timer[e].serial \in Serial /\ timer[e].expiry \in Nat
      BY <1>0, UsedTimers
    <3>2. PICK l, d : l = left[timer[e].serial] /\ d = timer[e].expiry - tick
      OBVIOUS
    <3>3. l \in Nat /\ d \in Int
      BY <1>0, <3>1, <3>2
    <3>4. MaySee(l, d, Handling)
      BY <2>4, <3>2 DEF LeftInv
    <3>5. timer[e].expiry - tick' = d \/ timer[e].expiry - tick' = d - 1
      <4>1. PICK x \in Nat, n \in Nat : x = timer[e].expiry /\ n = tick
        BY <1>0, <3>1
      <4>2. d = x - n /\ (tick' = n \/ tick' = n + 1)
        BY <2>2, <3>2, <4>1
      <4>3. QED  BY <4>1, <4>2
    <3>6. QED  BY <2>3, <3>2, <3>3, <3>4, <3>5 DEF MaySee
  <2>5. QED  BY <2>1, <2>3, <2>4 DEF LeftInv, MaySee
<1>9. ASSUME NEW t \in Ticker, TickTryLock(t) \/ TickWalk(t)  PROVE LeftInv'
  <2>1. /\ UNCHANGED <<tick, left, used, timer>>
        /\ \A u \in Ticker : tpc'[u] = "loaded" => tpc[u] = "loaded"
    BY <1>0, <1>9 DEF TickTryLock, TickWalk, listVars
  <2>2. Handling' => Handling  BY <2>1 DEF Handling
  <2>3. QED  BY <2>1, <2>2, <1>1
<1>10. ASSUME NEW t \in Ticker, TickSend(t)  PROVE LeftInv'
  <2>1. /\ UNCHANGED <<tick, left>> /\ FreeTimerUnprotected(cur[t])
        /\ \A u \in Ticker : tpc'[u] = "loaded" => tpc[u] = "loaded"
    BY <1>0, <1>10 DEF TickSend
  <2>2. Handling' => Handling  BY <2>1 DEF Handling
  <2>3. QED  BY <2>1, <2>2, <1>1, <1>2
<1>11. CASE ClientStep
  <2>1. UNCHANGED <<tick, left, used, timer, tpc>>
    BY <1>11 DEF ClientStep, SendStartTimer, SendStopTimer, StopTimerServer,
       Connect, TakeExpiryMsg, ClientExit, listVars, tickVars
  <2>2. Handling' => Handling  BY <2>1 DEF Handling
  <2>3. QED  BY <2>1, <2>2, <1>1
<1>12. CASE UNCHANGED vars
  <2>1. UNCHANGED <<tick, left, used, timer, tpc>>  BY <1>12 DEF vars
  <2>2. Handling' => Handling  BY <2>1 DEF Handling
  <2>3. QED  BY <2>1, <2>2, <1>1
<1>13. QED
  BY <1>3, <1>4, <1>5, <1>6, <1>7, <1>8, <1>9, <1>10, <1>11, <1>12
  DEF Next, ServerStep, TickStep

\* The head of the used list.
LEMMA HeadFirst ==
  ASSUME used \in Seq(Entry), NEW e \in Entry, e = HeadOf(used)
  PROVE  used # <<>> /\ 1 \in 1..Len(used) /\ e = used[1]
<1>1. used # <<>>  BY TimerServerAssumption DEF HeadOf
<1>2. QED  BY <1>1 DEF HeadOf

\* Nothing is due in front of what is not due at the head.
LEMMA HeadFirstDue ==
  ASSUME ServerTypeOK, Accounted, UsedSorted, NEW e \in Entry, e = HeadOf(used),
         NEW f \in ToSet(used)
  PROVE  timer[e].expiry <= timer[f].expiry
<1>1. used # <<>> /\ 1 \in 1..Len(used) /\ e = used[1]
  BY HeadFirst DEF ServerTypeOK
<1>2. PICK i \in 1..Len(used) : f = used[i]
  <2>1. used \in Seq(Entry) /\ DOMAIN used = 1..Len(used)
    BY DEF ServerTypeOK
  <2>2. QED  BY <2>1 DEF ToSet
<1>3. timer[f].expiry \in Nat
  BY UsedTimers
<1>4. CASE i = 1
  BY <1>1, <1>2, <1>3, <1>4
<1>5. CASE 1 < i
  BY <1>1, <1>2, <1>5 DEF UsedSorted
<1>6. QED  BY <1>4, <1>5

\* The head is freed: the walk goes to the head of the rest.
LEMMA HeadTaken ==
  ASSUME ServerTypeOK, EntriesConserved, NEW e \in Entry, e = HeadOf(used),
         FreeTimerUnprotected(e)
  PROVE  NextOf(e) = HeadOf(used')
<1>1. /\ used \in Seq(Entry) /\ Len(used) \in Nat /\ DOMAIN used = 1..Len(used)
      /\ IsInjective(used)
  BY DEF ServerTypeOK, EntriesConserved
<1>2. used # <<>> /\ 1 \in 1..Len(used) /\ e = used[1]
  BY <1>1, HeadFirst
<1>3. PICK k \in 1..Len(used) : used[k] = e /\ used' = RemoveAt(used, k)
  BY DEF FreeTimerUnprotected
<1>4. \A i \in 1..Len(used) : used[i] = e => i = 1
  BY <1>1, <1>2 DEF IsInjective
<1>5. /\ used' \in Seq(Entry) /\ Len(used') = Len(used) - 1
      /\ \A j \in 1..Len(used)-1 : used'[j] = used[j+1]
  <2>1. k = 1  BY <1>3, <1>4
  <2>2. used \in Seq(Entry) /\ k \in 1..Len(used)  BY <1>1
  <2>3. /\ RemoveAt(used, k) \in Seq(Entry) /\ Len(RemoveAt(used, k)) = Len(used) - 1
        /\ \A j \in 1..Len(used)-1 :
              RemoveAt(used, k)[j] = IF j < k THEN used[j] ELSE used[j+1]
    BY <2>2, UnlinkElements
  <2>4. PICK rest : rest = RemoveAt(used, k)
    OBVIOUS
  <2>5. /\ rest \in Seq(Entry) /\ Len(rest) = Len(used) - 1
        /\ \A j \in 1..Len(used)-1 : rest[j] = IF j < k THEN used[j] ELSE used[j+1]
    BY <2>3, <2>4
  <2>6. used' = rest  BY <1>3, <2>4
  <2>7. \A j \in 1..Len(used)-1 : rest[j] = used[j+1]
    BY <1>1, <2>1, <2>5
  <2>8. QED  BY <2>5, <2>6, <2>7
<1>6. CASE Len(used) = 1
  <2>1. used' = <<>>  BY <1>5, <1>6
  <2>2. ~ \E i \in 1..Len(used)-1 : used[i] = e  BY <1>6
  <2>3. QED  BY <2>1, <2>2 DEF HeadOf, NextOf
<1>7. CASE Len(used) > 1
  <2>1. 1 \in 1..Len(used)-1  BY <1>1, <1>7
  <2> DEFINE first == CHOOSE i \in 1..Len(used)-1 : used[i] = e
  <2>2. first \in 1..Len(used)-1 /\ used[first] = e  BY <1>2, <2>1
  <2>3. NextOf(e) = used[1 + first]  BY <1>2, <2>1 DEF NextOf
  <2> HIDE DEF first
  <2>4. first = 1  BY <1>1, <1>4, <2>2
  <2>5. used' # <<>> /\ Head(used') = used'[1]  BY <1>1, <1>5, <1>7
  <2>6. used'[1] = used[2]  BY <1>5, <2>1
  <2>7. QED  BY <2>3, <2>4, <2>5, <2>6 DEF HeadOf
<1>8. QED  BY <1>1, <1>2, <1>6, <1>7

\* A handler that walks the list keeps everyone else away from it, and takes
\* what is due from its head.
LEMMA WalkStep ==
  ASSUME OneHandler, ServerTypeOK, LockInv, Memory, Requests, UsedSorted, WalkInv, [Next]_vars
  PROVE  WalkInv'
<1>0. /\ tpc \in [Ticker -> TickPc] /\ cur \in [Ticker -> Entry \cup {PNULL}]
      /\ used \in Seq(Entry) /\ EntriesConserved /\ Accounted /\ NoUseAfterFree
  BY DEF ServerTypeOK, Memory, Requests
<1>1. ASSUME \A t \in Ticker : tpc'[t] \notin {"walk", "send"}  PROVE WalkInv'
  BY <1>1 DEF WalkInv
<1>2. ASSUME UNCHANGED <<tick, used, timer, tpc, cur>>  PROVE WalkInv'
  BY <1>2 DEF WalkInv, Due, HeadOf
<1>3. ASSUME lock = "server", UNCHANGED tickVars  PROVE WalkInv'
  <2>1. \A t \in Ticker : tpc[t] \notin {"walk", "send"}
    BY <1>3, TimerServerAssumption DEF LockInv
  <2>2. QED  BY <1>1, <1>3, <2>1 DEF tickVars
<1>4. CASE AllocTimer \/ ActionTimerStop \/ FreeAllTimers \/ DeleteTimer
  BY <1>3, <1>4 DEF AllocTimer, ActionTimerStop, FreeAllTimers, DeleteTimer, LockInv
<1>5. CASE ServerStartFails \/ AllocTimerFails \/ Exit
  BY <1>1, <1>5 DEF ServerStartFails, AllocTimerFails, Abort, Exit
<1>6. CASE AcceptRequest \/ ActionTimerServerStart \/ ServerLock
  BY <1>2, <1>6 DEF AcceptRequest, ActionTimerServerStart, ServerLock, listVars, tickVars
<1>7. ASSUME NEW t \in Ticker, TickFire(t) \/ TickStore(t)  PROVE WalkInv'
  BY <1>0, <1>1, <1>7 DEF TickFire, TickStore, OneHandler
<1>8. ASSUME NEW t \in Ticker, TickTryLock(t)  PROVE WalkInv'
  <2>1. UNCHANGED <<tick, used, timer>>
    BY <1>8 DEF TickTryLock, listVars
  <2>2. CASE lock = "none"
    <3>1. tpc'[t] = "walk" /\ cur'[t] = HeadOf(used)
      BY <1>0, <1>8, <2>2 DEF TickTryLock
    <3>2. QED  BY <2>1, <3>1 DEF WalkInv, OneHandler, HeadOf
  <2>3. CASE lock # "none"
    <3>1. tpc'[t] = "idle"
      BY <1>0, <1>8, <2>3 DEF TickTryLock
    <3>2. QED  BY <1>1, <3>1 DEF OneHandler
  <2>4. QED  BY <2>2, <2>3
<1>9. ASSUME NEW t \in Ticker, TickWalk(t)  PROVE WalkInv'
  <2>1. UNCHANGED <<tick, used, timer>> /\ tpc[t] = "walk"
    BY <1>9 DEF TickWalk, listVars
  <2>2. cur[t] = HeadOf(used) \/ \A e \in ToSet(used) : ~Due(e)
    BY <2>1 DEF WalkInv
  <2>3. CASE cur[t] = PNULL
    <3>1. tpc'[t] = "idle"
      BY <1>0, <1>9, <2>3 DEF TickWalk
    <3>2. QED  BY <1>1, <3>1 DEF OneHandler
  <2>4. CASE cur[t] # PNULL /\ Due(cur[t])
    <3>1. tpc'[t] = "send" /\ cur' = cur
      BY <1>0, <1>9, <2>4 DEF TickWalk
    <3>2. QED  BY <2>1, <2>2, <2>4, <3>1 DEF WalkInv, OneHandler, Due, HeadOf
  <2>5. CASE cur[t] # PNULL /\ ~Due(cur[t])
    <3>1. tpc'[t] = "walk"
      BY <1>0, <1>9, <2>1, <2>5 DEF TickWalk
    <3>2. ASSUME NEW e \in ToSet(used)  PROVE ~Due(e)
      <4>1. CASE cur[t] = HeadOf(used)
        <5>1. cur[t] \in Entry /\ cur[t] \in ToSet(used)
          BY <1>0, <2>1, <2>5 DEF NoUseAfterFree
        <5>2. timer[cur[t]].expiry <= timer[e].expiry
          BY <1>0, <3>2, <4>1, <5>1, HeadFirstDue
        <5>3. timer[cur[t]].expiry \in Nat /\ timer[e].expiry \in Nat /\ tick \in Nat
          BY <1>0, <3>2, <5>1, UsedTimers DEF ServerTypeOK
        <5>4. QED  BY <2>5, <5>2, <5>3 DEF Due
      <4>2. QED  BY <2>2, <3>2, <4>1
    <3>3. QED  BY <2>1, <3>1, <3>2 DEF WalkInv, OneHandler, Due
  <2>6. QED  BY <2>3, <2>4, <2>5
<1>10. ASSUME NEW t \in Ticker, TickSend(t)  PROVE WalkInv'
  <2>1. /\ tpc[t] = "send" /\ FreeTimerUnprotected(cur[t])
        /\ cur' = [cur EXCEPT ![t] = NextOf(cur[t])] /\ tpc' = [tpc EXCEPT ![t] = "walk"]
    BY <1>10 DEF TickSend
  <2>2. Due(cur[t]) /\ cur[t] \in ToSet(used) /\ cur[t] \in Entry
    BY <1>0, <2>1 DEF WalkInv, NoUseAfterFree
  <2>3. cur[t] = HeadOf(used)
    BY <2>1, <2>2 DEF WalkInv
  <2>4. NextOf(cur[t]) = HeadOf(used')
    BY <1>0, <2>1, <2>2, <2>3, HeadTaken
  <2>5. tpc'[t] = "walk" /\ cur'[t] = HeadOf(used')
    BY <1>0, <2>1, <2>4
  <2>6. HeadOf(used)' = HeadOf(used')
    BY DEF HeadOf
  <2>7. QED  BY <2>5, <2>6 DEF WalkInv, OneHandler
<1>11. CASE ClientStep
  BY <1>2, <1>11 DEF ClientStep, SendStartTimer, SendStopTimer, StopTimerServer,
     Connect, TakeExpiryMsg, ClientExit, listVars, tickVars
<1>12. CASE UNCHANGED vars
  BY <1>2, <1>12 DEF vars, listVars
<1>13. QED
  BY <1>4, <1>5, <1>6, <1>7, <1>8, <1>9, <1>10, <1>11, <1>12
  DEF Next, ServerStep, TickStep

\* Only a tick handler ends a timer by its expiry.
LEMMA OnlySendEnds ==
  ASSUME ServerTypeOK, Memory, Requests, [Next]_vars, NEW s \in Serial,
         fate[s] = "armed", fate'[s] \in {"expired", "lost"}
  PROVE  \E t \in Ticker : /\ TickSend(t) /\ timer[cur[t]].serial = s
                            /\ cur[t] \in ToSet(used) /\ cur[t] \in Entry
<1>0. /\ fate \in [Serial -> Fate] /\ cur \in [Ticker -> Entry \cup {PNULL}]
      /\ NoUseAfterFree /\ Accounted
  BY DEF ServerTypeOK, Memory, Requests
<1>1. fate' # fate
  OBVIOUS
<1>2. CASE AllocTimer
  BY <1>0, <1>2 DEF AllocTimer
<1>3. CASE ActionTimerStop
  BY <1>0, <1>1, <1>3 DEF ActionTimerStop
<1>4. CASE FreeAllTimers
  BY <1>4 DEF FreeAllTimers
<1>5. CASE ClientStep
  BY <1>0, <1>1, <1>5 DEF ClientStep, SendStartTimer, SendStopTimer, StopTimerServer,
     TakeExpiryMsg, ClientExit
<1>6. ASSUME NEW t \in Ticker, TickSend(t)
      PROVE  \E u \in Ticker : /\ TickSend(u) /\ timer[cur[u]].serial = s
                               /\ cur[u] \in ToSet(used) /\ cur[u] \in Entry
  <2>1. cur[t] \in ToSet(used) /\ cur[t] \in Entry
    BY <1>0, <1>6 DEF NoUseAfterFree, TickSend
  <2>2. PICK outcome : fate' = [fate EXCEPT ![timer[cur[t]].serial] = outcome]
    BY <1>6 DEF TickSend
  <2>3. timer[cur[t]].serial = s
    BY <1>0, <2>2
  <2>4. QED  BY <1>6, <2>1, <2>3
<1>7. CASE \/ AcceptRequest \/ ActionTimerServerStart \/ ServerStartFails \/ ServerLock
           \/ AllocTimerFails \/ DeleteTimer \/ Exit
  BY <1>1, <1>7 DEF AcceptRequest, ActionTimerServerStart, ServerStartFails, ServerLock,
     AllocTimerFails, DeleteTimer, Exit
<1>8. ASSUME NEW t \in Ticker, TickFire(t) \/ TickStore(t) \/ TickTryLock(t) \/ TickWalk(t)
      PROVE  FALSE
  BY <1>1, <1>8 DEF TickFire, TickStore, TickTryLock, TickWalk
<1>9. CASE UNCHANGED vars
  BY <1>1, <1>9 DEF vars
<1>10. QED
  BY <1>2, <1>3, <1>4, <1>5, <1>6, <1>7, <1>8, <1>9 DEF Next, ServerStep, TickStep

\* The deadline of a timer is that of its entry.
LEMMA DeadlineOf ==
  ASSUME ServerTypeOK, Accounted, NEW s \in Serial, NEW e \in ToSet(used), timer[e].serial = s
  PROVE  Deadline(s) = timer[e].expiry
<1>1. PICK k \in 1..Len(used) : used[k] = e
  <2>1. used \in Seq(Entry) /\ DOMAIN used = 1..Len(used)
    BY DEF ServerTypeOK
  <2>2. QED  BY <2>1 DEF ToSet
<1>2. PICK i : i = CHOOSE j \in 1..Len(used) : timer[used[j]].serial = s
  OBVIOUS
<1>3. i \in 1..Len(used) /\ timer[used[i]].serial = s
  BY <1>1, <1>2
<1>4. used[i] \in ToSet(used)
  BY <1>3 DEF ToSet, ServerTypeOK
<1>5. used[i] = e
  BY <1>3, <1>4 DEF Accounted
<1>6. QED  BY <1>2, <1>5 DEF Deadline

\* The step in which a timer expires: not more than one OS tick early, and
\* before every timer whose deadline is later.
OnTime(s) ==
  /\ left[s] <= 1
  /\ \A r \in Serial : fate[r] = "armed" => Deadline(s) <= Deadline(r)

LEMMA ExpiryOnTime ==
  ASSUME ServerTypeOK, Memory, Requests, UsedSorted, LeftInv, WalkInv, [Next]_vars,
         NEW s \in Serial, fate[s] = "armed", fate'[s] \in {"expired", "lost"}
  PROVE  OnTime(s)
<1>1. PICK t \in Ticker : /\ TickSend(t) /\ timer[cur[t]].serial = s
                         /\ cur[t] \in ToSet(used) /\ cur[t] \in Entry
  BY OnlySendEnds
<1>2. PICK e : e = cur[t]
  OBVIOUS
<1>3. e \in ToSet(used) /\ e \in Entry /\ timer[e].serial = s /\ Due(e) /\ e = HeadOf(used)
  BY <1>1, <1>2 DEF TickSend, WalkInv
<1>4. Accounted /\ timer[e].expiry \in Nat /\ tick \in Nat /\ left[s] \in Nat
  BY <1>3, UsedTimers DEF Requests, ServerTypeOK
<1>5. left[s] <= 1
  <2>1. MaySee(left[s], timer[e].expiry - tick, Handling)
    BY <1>3 DEF LeftInv
  <2>2. timer[e].expiry - tick <= 0 /\ timer[e].expiry - tick \in Int
    BY <1>3, <1>4 DEF Due
  <2>3. QED  BY <1>4, <2>1, <2>2 DEF MaySee
<1>6. ASSUME NEW r \in Serial, fate[r] = "armed"
      PROVE  Deadline(s) <= Deadline(r)
  <2>1. PICK f \in ToSet(used) : timer[f].serial = r
    BY <1>4, <1>6 DEF Accounted
  <2>2. Deadline(s) = timer[e].expiry /\ Deadline(r) = timer[f].expiry
    BY <1>3, <1>4, <2>1, DeadlineOf
  <2>3. timer[e].expiry <= timer[f].expiry
    BY <1>3, <1>4, <2>1, HeadFirstDue
  <2>4. QED  BY <2>2, <2>3
<1>7. QED  BY <1>5, <1>6 DEF OnTime

\* If no tick handler is still at work when the next OS tick fires, timers end
\* in the order of their deadlines and none more than one OS tick early,
\* although allocTimer reads gTimerTickDeciSeconds in the middle of a tick and
\* ticks are skipped for the mutex (tickHandlerCallback, allocTimer).
THEOREM ExpiryInTime ==
  ASSUME \A t, u \in Ticker : t = u
  PROVE  Spec => EndsOnTime
<1> DEFINE Good == ServerTypeOK /\ PhaseInv /\ LockInv /\ Memory /\ Requests /\ UsedSorted /\ Bounds
           Times == LoadInv /\ LeftInv /\ WalkInv
           Ends == \A s \in Serial : fate[s] = "armed" /\ fate'[s] \in {"expired", "lost"} =>
                     /\ left[s] <= 1
                     /\ \A r \in Serial : fate[r] = "armed" => Deadline(s) <= Deadline(r)
<1>1. OneHandler
  BY DEF OneHandler
<1>2. Init => Times
  <2> SUFFICES ASSUME Init  PROVE Times
    OBVIOUS
  <2>1. used = <<>> /\ \A t \in Ticker : tpc[t] = "idle"
    BY DEF Init
  <2>2. ToSet(used) = {}
    BY <2>1 DEF ToSet
  <2>3. QED  BY <2>1, <2>2 DEF LoadInv, LeftInv, WalkInv
<1>3. Good /\ Times /\ [Next]_vars => Times'
  BY <1>1, LoadStep, LeftStep, WalkStep
<1>4. Good /\ Times /\ [Next]_vars => [Ends]_vars
  BY ExpiryOnTime DEF OnTime
<1>5. Init => Bounds
  BY TimerServerAssumption DEF Init, Bounds
<1>6. Spec => []Good
  BY <1>5, MemoryInit, RequestsInit, MemoryStep, RequestsStep, BoundsStep, OrderKept,
     ServerTyped, MutexHeld, PTL DEF Spec
<1> HIDE DEF Good, Times, Ends
<1>7. Spec => [][Ends]_vars
  BY <1>2, <1>3, <1>4, <1>6, PTL DEF Spec
<1>8. QED  BY <1>7 DEF EndsOnTime, Ends
=============================================================================
