-------------------------- MODULE TimerLinks_proofs --------------------------
(***************************************************************************)
(* Proofs about the linked lists of the timer server, for every number of  *)
(* entries and every period: the pointers implement TimerLists.            *)
(***************************************************************************)
EXTENDS TimerLinks, SequenceTheorems, FiniteSetTheorems, WellFoundedInduction,
        TLAPS

(***************************************************************************)
(* Linking and unlinking in lists without duplicates, which is what the    *)
(* linked lists of the C code are: an entry is linked in once.             *)
(***************************************************************************)
\* The list obtained by unlinking position i: its length and its elements.
LEMMA UnlinkElements ==
  ASSUME NEW S, NEW s \in Seq(S), NEW i \in 1..Len(s)
  PROVE  /\ RemoveAt(s, i) \in Seq(S)
         /\ Len(RemoveAt(s, i)) = Len(s) - 1
         /\ \A j \in 1..Len(s)-1 :
               RemoveAt(s, i)[j] = IF j < i THEN s[j] ELSE s[j+1]
<1> DEFINE before == SubSeq(s, 1, i-1)
           behind == SubSeq(s, i+1, Len(s))
<1>1. /\ Len(s) \in Nat
      /\ \A j \in 1..Len(s) : s[j] \in S
  OBVIOUS
<1>2. /\ before \in Seq(S) /\ Len(before) = i-1
      /\ \A j \in 1..i-1 : before[j] = s[j]
  BY <1>1, SubSeqProperties
<1>3. /\ behind \in Seq(S) /\ Len(behind) = Len(s) - i
      /\ \A j \in 1..Len(s)-i : behind[j] = s[i+j]
  BY <1>1, SubSeqProperties
<1>4. RemoveAt(s, i) = before \o behind  BY DEF RemoveAt
<1> HIDE DEF before, behind
<1>5. /\ before \o behind \in Seq(S)
      /\ Len(before \o behind) = Len(before) + Len(behind)
      /\ \A j \in 1..Len(before) + Len(behind) : (before \o behind)[j] =
            IF j <= Len(before) THEN before[j] ELSE behind[j - Len(before)]
  BY <1>2, <1>3, ConcatProperties, Zenon
<1>6. Len(before) + Len(behind) = Len(s) - 1
  BY <1>1, <1>2, <1>3
<1>7. ASSUME NEW j \in 1..Len(s)-1
      PROVE  (before \o behind)[j] = IF j < i THEN s[j] ELSE s[j+1]
  <2>1. (before \o behind)[j] =
            IF j <= i-1 THEN before[j] ELSE behind[j - (i-1)]
    BY <1>2, <1>5, <1>6
  <2>2. CASE j < i
    <3>1. j \in 1..i-1 /\ j <= i-1  BY <2>2, <1>1
    <3>2. QED  BY <3>1, <2>1, <2>2, <1>2
  <2>3. CASE ~(j < i)
    <3>1. /\ j - (i-1) \in 1..Len(s)-i /\ ~(j <= i-1)
          /\ i + (j - (i-1)) = j+1
      BY <2>3, <1>1
    <3>2. QED  BY <3>1, <2>1, <2>3, <1>3
  <2>4. QED  BY <2>2, <2>3
<1>8. QED  BY <1>4, <1>5, <1>6, <1>7

\* The list obtained by linking e in at position i.
LEMMA LinkElements ==
  ASSUME NEW S, NEW s \in Seq(S), NEW i \in 1..Len(s)+1, NEW e \in S
  PROVE  /\ InsertAt(s, i, e) \in Seq(S)
         /\ Len(InsertAt(s, i, e)) = Len(s) + 1
         /\ \A j \in 1..Len(s)+1 :
               /\ j < i => InsertAt(s, i, e)[j] = s[j]
               /\ j = i => InsertAt(s, i, e)[j] = e
               /\ j > i => InsertAt(s, i, e)[j] = s[j-1]
<1> DEFINE before == SubSeq(s, 1, i-1)
           upto == before \o <<e>>
           behind == SubSeq(s, i, Len(s))
<1>1. /\ Len(s) \in Nat
      /\ \A j \in 1..Len(s) : s[j] \in S
  OBVIOUS
<1>2. /\ before \in Seq(S) /\ Len(before) = i-1
      /\ \A j \in 1..i-1 : before[j] = s[j]
  BY <1>1, SubSeqProperties
<1>3. /\ behind \in Seq(S) /\ Len(behind) = Len(s) - i + 1
      /\ \A j \in 1..Len(s)-i+1 : behind[j] = s[i+j-1]
  BY <1>1, SubSeqProperties
<1>4. /\ <<e>> \in Seq(S) /\ Len(<<e>>) = 1 /\ <<e>>[1] = e
  OBVIOUS
<1> HIDE DEF before, behind
<1>5. /\ upto \in Seq(S) /\ Len(upto) = i
      /\ \A j \in 1..i : upto[j] = IF j < i THEN s[j] ELSE e
  BY <1>1, <1>2, <1>4, ConcatProperties
<1>6. InsertAt(s, i, e) = upto \o behind  BY DEF InsertAt, before, behind
<1> HIDE DEF upto
<1>7. /\ upto \o behind \in Seq(S)
      /\ Len(upto \o behind) = Len(upto) + Len(behind)
      /\ \A j \in 1..Len(upto) + Len(behind) : (upto \o behind)[j] =
            IF j <= Len(upto) THEN upto[j] ELSE behind[j - Len(upto)]
  BY <1>3, <1>5, ConcatProperties, Zenon
<1>8. Len(upto) + Len(behind) = Len(s) + 1
  BY <1>1, <1>3, <1>5
<1>9. ASSUME NEW j \in 1..Len(s)+1
      PROVE  /\ j < i => (upto \o behind)[j] = s[j]
             /\ j = i => (upto \o behind)[j] = e
             /\ j > i => (upto \o behind)[j] = s[j-1]
  <2>1. (upto \o behind)[j] = IF j <= i THEN upto[j] ELSE behind[j - i]
    BY <1>5, <1>7, <1>8
  <2>2. CASE j <= i
    <3>1. j \in 1..i /\ (j < i \/ j = i) /\ ~(j > i)  BY <2>2, <1>1
    <3>2. QED  BY <3>1, <2>1, <2>2, <1>5
  <2>3. CASE ~(j <= i)
    <3>1. /\ j - i \in 1..Len(s)-i+1 /\ ~(j < i) /\ j # i
          /\ i + (j - i) - 1 = j-1
      BY <2>3, <1>1
    <3>2. QED  BY <3>1, <2>1, <2>3, <1>3
  <2>4. QED  BY <2>2, <2>3
<1>10. QED  BY <1>6, <1>7, <1>8, <1>9

\* Unlinking takes exactly the element at position i out of the list.
LEMMA UnlinkOnce ==
  ASSUME NEW S, NEW s \in Seq(S), IsInjective(s), NEW i \in 1..Len(s)
  PROVE  /\ IsInjective(RemoveAt(s, i))
         /\ ToSet(RemoveAt(s, i)) = ToSet(s) \ {s[i]}
<1> DEFINE r == RemoveAt(s, i)
<1>1. /\ r \in Seq(S) /\ Len(r) = Len(s) - 1
      /\ \A j \in 1..Len(s)-1 : r[j] = IF j < i THEN s[j] ELSE s[j+1]
  BY UnlinkElements
<1>2. DOMAIN s = 1..Len(s) /\ DOMAIN r = 1..Len(s)-1 /\ Len(s) \in Nat
  BY <1>1
<1> HIDE DEF r
<1>3. \A j, k \in 1..Len(s) : s[j] = s[k] => j = k
  BY <1>2 DEF IsInjective
<1>4. \A j, k \in 1..Len(s)-1 : r[j] = r[k] => j = k
  <2> TAKE j, k \in 1..Len(s)-1
  <2>1. j \in 1..Len(s) /\ k \in 1..Len(s) /\ j+1 \in 1..Len(s) /\ k+1 \in 1..Len(s)
    BY <1>2
  <2>2. QED  BY <1>1, <1>2, <1>3, <2>1
<1>5. IsInjective(r)
  BY <1>2, <1>4 DEF IsInjective
<1>6. ASSUME NEW j \in 1..Len(s)-1
      PROVE  \E k \in 1..Len(s) : k # i /\ r[j] = s[k]
  <2>1. CASE j < i  BY <2>1, <1>1, <1>2
  <2>2. CASE ~(j < i)
    <3>1. j+1 \in 1..Len(s) /\ j+1 # i  BY <2>2, <1>2
    <3>2. QED  BY <3>1, <2>2, <1>1
  <2>3. QED  BY <2>1, <2>2
<1>7. ASSUME NEW k \in 1..Len(s), k # i
      PROVE  \E j \in 1..Len(s)-1 : r[j] = s[k]
  <2>1. CASE k < i  BY <2>1, <1>1, <1>2
  <2>2. CASE k > i
    <3>1. k-1 \in 1..Len(s)-1 /\ ~(k-1 < i) /\ (k-1)+1 = k  BY <2>2, <1>2
    <3>2. QED  BY <3>1, <1>1
  <2>3. QED  BY <1>7, <2>1, <2>2, <1>2
<1>8. ToSet(r) = ToSet(s) \ {s[i]}
  <2>1. ASSUME NEW z  PROVE z \in ToSet(r) <=> \E j \in 1..Len(s)-1 : z = r[j]
    BY <1>2 DEF ToSet
  <2>2. ASSUME NEW z  PROVE z \in ToSet(s) <=> \E k \in 1..Len(s) : z = s[k]
    BY <1>2 DEF ToSet
  <2>3. ASSUME NEW z \in ToSet(r)  PROVE z \in ToSet(s) /\ z # s[i]
    BY <2>1, <2>2, <1>3, <1>6
  <2>4. ASSUME NEW z \in ToSet(s), z # s[i]  PROVE z \in ToSet(r)
    BY <2>1, <2>2, <2>4, <1>7
  <2>5. QED  BY <2>3, <2>4
<1>9. QED  BY <1>5, <1>8 DEF r

\* Putting an element that was not in the list at its end.
LEMMA AppendOnce ==
  ASSUME NEW S, NEW s \in Seq(S), IsInjective(s), NEW e \in S, e \notin ToSet(s)
  PROVE  /\ Append(s, e) \in Seq(S) /\ Len(Append(s, e)) = Len(s) + 1
         /\ IsInjective(Append(s, e))
         /\ ToSet(Append(s, e)) = ToSet(s) \cup {e}
<1> DEFINE r == Append(s, e)
<1>1. /\ r \in Seq(S) /\ Len(r) = Len(s)+1 /\ r[Len(s)+1] = e
      /\ \A j \in 1..Len(s) : r[j] = s[j]
  BY AppendProperties
<1>2. DOMAIN s = 1..Len(s) /\ DOMAIN r = 1..Len(s)+1 /\ Len(s) \in Nat
  BY <1>1
<1> HIDE DEF r
<1>3. \A j \in 1..Len(s) : s[j] # e
  BY <1>2 DEF ToSet
<1>4. \A j, k \in 1..Len(s) : s[j] = s[k] => j = k
  BY <1>2 DEF IsInjective
<1>5. \A j \in 1..Len(s)+1 : j \in 1..Len(s) \/ j = Len(s)+1
  BY <1>2
<1>6. \A j, k \in 1..Len(s)+1 : r[j] = r[k] => j = k
  BY <1>1, <1>3, <1>4, <1>5
<1>7. IsInjective(r)
  BY <1>2, <1>6 DEF IsInjective
<1>8. ToSet(r) = ToSet(s) \cup {e}
  <2>1. ASSUME NEW z  PROVE z \in ToSet(r) <=> \E j \in 1..Len(s)+1 : z = r[j]
    BY <1>2 DEF ToSet
  <2>2. ASSUME NEW z  PROVE z \in ToSet(s) <=> \E k \in 1..Len(s) : z = s[k]
    BY <1>2 DEF ToSet
  <2>3. 1..Len(s) \subseteq 1..Len(s)+1 /\ Len(s)+1 \in 1..Len(s)+1  BY <1>2
  <2>4. QED  BY <2>1, <2>2, <2>3, <1>1, <1>5
<1>9. QED  BY <1>1, <1>7, <1>8 DEF r

\* A sequence without its last element.
LEMMA FrontFact ==
  ASSUME NEW S, NEW s \in Seq(S), s # <<>>
  PROVE  /\ Len(s) \in Nat \ {0} /\ Last(s) = s[Len(s)] /\ Last(s) \in S
         /\ Front(s) \in Seq(S) /\ Len(Front(s)) = Len(s) - 1
         /\ \A i \in 1..Len(s)-1 : Front(s)[i] = s[i]
<1>1. Len(s) \in Nat /\ Len(s) # 0 /\ \A j \in 1..Len(s) : s[j] \in S
  BY EmptySeq
<1>2. Len(s) \in 1..Len(s)  BY <1>1
<1>3. /\ SubSeq(s, 1, Len(s)-1) \in Seq(S)
      /\ Len(SubSeq(s, 1, Len(s)-1)) = Len(s)-1
      /\ \A j \in 1..Len(s)-1 : SubSeq(s, 1, Len(s)-1)[j] = s[j]
  <2> DEFINE n == Len(s) - 1
  <2>1. n \in Nat /\ n-1+1 = n  BY <1>1
  <2>2. \A j \in 1..n : s[j] \in S /\ 1+j-1 = j
    BY <1>1
  <2> HIDE DEF n
  <2>3. 1 \in Int /\ n \in Int  BY <2>1
  <2>4. /\ SubSeq(s, 1, n) \in Seq(S)
        /\ Len(SubSeq(s, 1, n)) = IF 1 <= n THEN n-1+1 ELSE 0
        /\ \A j \in 1..n-1+1 : SubSeq(s, 1, n)[j] = s[1+j-1]
    BY <2>2, <2>3, SubSeqProperties
  <2>5. /\ SubSeq(s, 1, n) \in Seq(S) /\ Len(SubSeq(s, 1, n)) = n
        /\ \A j \in 1..n : SubSeq(s, 1, n)[j] = s[j]
    BY <2>1, <2>2, <2>4
  <2>6. QED  BY <2>5 DEF n
<1>4. QED  BY <1>1, <1>2, <1>3 DEF Front, Last

\* A list without duplicates is no longer than there are elements.
LEMMA LengthBound ==
  ASSUME NEW S, IsFiniteSet(S), NEW s \in Seq(S), IsInjective(s)
  PROVE  Len(s) \in Nat /\ Cardinality(S) \in Nat /\ Len(s) <= Cardinality(S)
<1> DEFINE m == Len(s)
<1>1. m \in Nat /\ Cardinality(S) \in Nat  BY FS_CardinalityType
<1>2. s \in Injection(1..m, S)
  BY DEF Injection, IsInjective
<1>3. Cardinality(1..m) <= Cardinality(S)
  BY <1>2, FS_Injection
<1>4. 1 \in Int /\ m \in Int  BY <1>1
<1> HIDE DEF m
<1>5. Cardinality(1..m) = IF 1 > m THEN 0 ELSE m-1+1  BY <1>4, FS_Interval
<1>6. m <= Cardinality(S)  BY <1>1, <1>3, <1>5
<1> USE DEF m
<1>7. QED  BY <1>1, <1>6

\* A set of naturals has a least element: what holds of a position of a list if
\* it holds of those before it holds of all of them.
LEMMA LeastCounterexample ==
  ASSUME NEW T, T \subseteq Nat, T # {}
  PROVE  \E n \in T : \A m \in T : n <= m
<1>1. \E z \in T : \A y \in T : ~ (<<y, z>> \in OpToRel(<, Nat))
  BY WFMin, NatLessThanWellFounded
<1>2. PICK n \in T : \A y \in T : ~ (<<y, n>> \in OpToRel(<, Nat))
  BY <1>1
<1>3. ASSUME NEW m \in T PROVE n <= m
  <2>1. m \in Nat /\ n \in Nat OBVIOUS
  <2>2. m < n => <<m, n>> \in OpToRel(<, Nat)  BY <2>1 DEF OpToRel
  <2>3. ~ (<<m, n>> \in OpToRel(<, Nat))  BY <1>2
  <2>4. ~ (m < n)  BY <2>2, <2>3
  <2>5. QED BY <2>1, <2>4
<1>4. QED BY <1>2, <1>3

\* What runs through the links of s finds s.
LEMMA FollowLinks ==
  ASSUME NEW S, NEW s \in Seq(S), NEW head, NEW link, NEW pnull, NEW bound \in Nat,
         pnull \notin S, Len(s) <= bound, Linked(s, head, link, pnull)
  PROVE  Following(head, link, pnull, bound) = s
<1> DEFINE Step(f, n) == IF n = 1 THEN head
                         ELSE IF f[n-1] = pnull THEN pnull ELSE link[f[n-1]]
           Entries(f) == f = [n \in 1..bound |-> Step(f, n)]
           e0 == [n \in 1..bound |-> At(s, n, pnull)]
           entry == CHOOSE f : Entries(f)
<1>0. Len(s) \in Nat /\ \A i \in 1..Len(s) : s[i] \in S /\ s[i] # pnull
  OBVIOUS
<1>1. ASSUME NEW n \in 1..bound
      PROVE  Step(e0, n) = At(s, n, pnull)
  <2>1. CASE n = 1  BY <2>1 DEF Linked
  <2>2. CASE n # 1
    <3>1. n-1 \in 1..bound /\ e0[n-1] = At(s, n-1, pnull)  BY <2>2
    <3>2. CASE n-1 \in 1..Len(s)
      <4>1. link[s[n-1]] = At(s, (n-1)+1, pnull)  BY <3>2 DEF Linked
      <4>2. (n-1)+1 = n OBVIOUS
      <4>3. QED BY <3>1, <3>2, <4>1, <4>2, <2>2, <1>0 DEF At
    <3>3. CASE n-1 \notin 1..Len(s)
      <4>1. n \notin 1..Len(s)  BY <3>3, <2>2, <1>0
      <4>2. QED BY <3>1, <3>3, <4>1, <2>2 DEF At
    <3>4. QED BY <3>2, <3>3
  <2>3. QED BY <2>1, <2>2
<1>2. Entries(e0)  BY <1>1
<1>3. Entries(entry)  BY <1>2
<1>4. ASSUME NEW f, Entries(f)
      PROVE  \A n \in 1..bound : f[n] = At(s, n, pnull)
  <2> DEFINE Bad == {n \in 1..bound : f[n] # At(s, n, pnull)}
  <2>1. ASSUME Bad # {}  PROVE FALSE
    <3>0. Bad \subseteq Nat  OBVIOUS
    <3> HIDE DEF Bad
    <3>1. PICK n \in Bad : \A m \in Bad : n <= m
      BY <2>1, <3>0, LeastCounterexample
    <3> USE DEF Bad
    <3>2. n \in 1..bound /\ f[n] = Step(f, n)  BY <1>4, <3>1
    <3>3. n # 1  BY <3>2, <3>1 DEF Linked
    <3>4. n-1 \in 1..bound /\ n-1 \notin Bad  BY <3>1, <3>2, <3>3
    <3>5. f[n-1] = e0[n-1]  BY <3>4
    <3>6. Step(f, n) = Step(e0, n)  BY <3>5, <3>3
    <3>7. QED BY <3>1, <3>2, <3>6, <1>1
  <2>2. QED BY <2>1
<1>5. \A n \in 1..bound : entry[n] = At(s, n, pnull)  BY <1>3, <1>4
<1>6. Following(head, link, pnull, bound) =
        [n \in 1..Cardinality({i \in 1..bound : entry[i] # pnull}) |-> entry[n]]
  BY DEF Following
<1> HIDE DEF entry
<1>7. {i \in 1..bound : entry[i] # pnull} = 1..Len(s)
  BY <1>0, <1>5 DEF At
<1>8. Cardinality(1..Len(s)) = Len(s)
  <2> DEFINE m == Len(s)
  <2>1. 1 \in Int /\ m \in Int  BY <1>0
  <2> HIDE DEF m
  <2>2. Cardinality(1..m) = IF 1 > m THEN 0 ELSE m-1+1  BY <2>1, FS_Interval
  <2> USE DEF m
  <2>3. QED  BY <1>0, <2>2
<1>9. \A n \in 1..Len(s) : entry[n] = s[n]  BY <1>0, <1>5 DEF At
<1>10. s = [n \in 1..Len(s) |-> s[n]]  BY <1>0
<1>11. QED BY <1>6, <1>7, <1>8, <1>9, <1>10

\* The links of a list that e is linked to the end of.
LEMMA AppendLinked ==
  ASSUME NEW S, NEW s \in Seq(S), NEW e \in S, NEW pnull,
         NEW head, NEW link, Linked(s, head, link, pnull),
         NEW headAfter, NEW linkAfter,
         headAfter = IF s = <<>> THEN e ELSE head,
         linkAfter[e] = pnull,
         \A i \in 1..Len(s) :
           linkAfter[s[i]] = IF i = Len(s) THEN e ELSE link[s[i]]
  PROVE  Linked(Append(s, e), headAfter, linkAfter, pnull)
<1> DEFINE r == Append(s, e)
<1>1. /\ r \in Seq(S) /\ Len(r) = Len(s)+1 /\ r[Len(s)+1] = e
      /\ \A j \in 1..Len(s) : r[j] = s[j]
  BY AppendProperties
<1>2. Len(s) \in Nat /\ (s = <<>> <=> Len(s) = 0)  BY EmptySeq
<1> HIDE DEF r
<1>3. headAfter = At(r, 1, pnull)
  <2>1. CASE s = <<>>  BY <2>1, <1>1, <1>2 DEF At
  <2>2. CASE s # <<>>
    <3>1. 1 \in 1..Len(s) /\ 1 \in 1..Len(s)+1  BY <2>2, <1>2
    <3>2. QED  BY <2>2, <3>1, <1>1 DEF At, Linked
  <2>3. QED  BY <2>1, <2>2
<1>4. ASSUME NEW i \in 1..Len(r)
      PROVE  linkAfter[r[i]] = At(r, i+1, pnull)
  <2>1. CASE i = Len(s)+1
    <3>1. i+1 \notin 1..Len(r)  BY <2>1, <1>1, <1>2
    <3>2. QED  BY <2>1, <3>1, <1>1 DEF At
  <2>2. CASE i = Len(s) /\ i # 0
    <3>1. i \in 1..Len(s) /\ i+1 \in 1..Len(r)  BY <2>2, <1>1, <1>2
    <3>2. QED  BY <2>2, <3>1, <1>1 DEF At
  <2>3. CASE i < Len(s)
    <3>1. /\ i \in 1..Len(s) /\ i+1 \in 1..Len(s) /\ i+1 \in 1..Len(r)
          /\ i # Len(s)
      BY <2>3, <1>1, <1>2
    <3>2. linkAfter[r[i]] = link[s[i]]  BY <3>1, <1>1
    <3>3. link[s[i]] = s[i+1]  BY <3>1 DEF At, Linked
    <3>4. r[i+1] = s[i+1]  BY <3>1, <1>1
    <3>5. QED  BY <3>1, <3>2, <3>3, <3>4 DEF At
  <2>4. QED  BY <2>1, <2>2, <2>3, <1>1, <1>2
<1>5. QED  BY <1>3, <1>4 DEF Linked, r

\* The links of a list that the entry at position i is unlinked from.
LEMMA UnlinkLinked ==
  ASSUME NEW S, NEW s \in Seq(S), NEW i \in 1..Len(s), NEW pnull,
         NEW head, NEW link, Linked(s, head, link, pnull),
         NEW headAfter, NEW linkAfter,
         headAfter = IF i = 1 THEN link[s[i]] ELSE head,
         \A j \in 1..Len(s) : j # i =>
           linkAfter[s[j]] = IF j+1 = i THEN link[s[i]] ELSE link[s[j]]
  PROVE  Linked(RemoveAt(s, i), headAfter, linkAfter, pnull)
<1> DEFINE r == RemoveAt(s, i)
<1>1. /\ r \in Seq(S) /\ Len(r) = Len(s) - 1
      /\ \A j \in 1..Len(s)-1 : r[j] = IF j < i THEN s[j] ELSE s[j+1]
  BY UnlinkElements
<1>2. Len(s) \in Nat  OBVIOUS
<1> HIDE DEF r
<1>3. link[s[i]] = At(r, i, pnull)
  <2>1. link[s[i]] = At(s, i+1, pnull)  BY DEF Linked
  <2>2. i+1 \in 1..Len(s) <=> i \in 1..Len(r)  BY <1>1, <1>2
  <2>3. i \in 1..Len(r) => r[i] = s[i+1]  BY <1>1
  <2>4. QED  BY <2>1, <2>2, <2>3 DEF At
<1>4. headAfter = At(r, 1, pnull)
  <2>1. CASE i = 1  BY <2>1, <1>3
  <2>2. CASE i # 1
    <3>1. 1 \in 1..Len(s) /\ 1 \in 1..Len(r) /\ 1 < i  BY <2>2, <1>1, <1>2
    <3>2. QED  BY <2>2, <3>1, <1>1 DEF At, Linked
  <2>3. QED  BY <2>1, <2>2
<1>5. ASSUME NEW j \in 1..Len(r)
      PROVE  linkAfter[r[j]] = At(r, j+1, pnull)
  <2>1. CASE j+1 = i
    <3>1. j \in 1..Len(s) /\ j # i /\ j < i  BY <2>1, <1>1, <1>2
    <3>2. QED  BY <2>1, <3>1, <1>1, <1>3
  <2>2. CASE j+1 < i
    <3>1. /\ j \in 1..Len(s) /\ j # i /\ j < i /\ j+1 # i
          /\ j+1 \in 1..Len(s) /\ j+1 \in 1..Len(r)
      BY <2>2, <1>1, <1>2
    <3>2. linkAfter[r[j]] = link[s[j]]  BY <3>1, <1>1
    <3>3. link[s[j]] = s[j+1] /\ r[j+1] = s[j+1]  BY <3>1, <2>2, <1>1 DEF At, Linked
    <3>4. QED  BY <3>1, <3>2, <3>3 DEF At
  <2>3. CASE j+1 > i
    <3>1. /\ j+1 \in 1..Len(s) /\ j+1 # i /\ ~(j < i) /\ (j+1)+1 # i
          /\ ~(j+1 < i)
          /\ (j+1)+1 \in 1..Len(s) <=> j+1 \in 1..Len(r)
      BY <2>3, <1>1, <1>2
    <3>2. r[j] = s[j+1]  BY <3>1, <1>1
    <3>3. linkAfter[s[j+1]] = link[s[j+1]]  BY <3>1
    <3>4. link[s[j+1]] = At(s, (j+1)+1, pnull)  BY <3>1 DEF Linked
    <3>5. j+1 \in 1..Len(r) => r[j+1] = s[(j+1)+1]  BY <3>1, <1>1
    <3>6. QED  BY <3>1, <3>2, <3>3, <3>4, <3>5 DEF At
  <2>4. QED  BY <2>1, <2>2, <2>3, <1>1, <1>2
<1>6. QED  BY <1>4, <1>5 DEF Linked, r

\* Links that are left alone.
LEMMA SameLinks ==
  ASSUME NEW s, NEW pnull, NEW head, NEW link, Linked(s, head, link, pnull),
         NEW linkAfter,
         \A i \in 1..Len(s) : linkAfter[s[i]] = link[s[i]]
  PROVE  Linked(s, head, linkAfter, pnull)
BY DEF Linked

(***************************************************************************)
(* The inductive invariant.                                                *)
(***************************************************************************)
Used == Chain(usedHead)
Unused == Chain(freeHead)

\* Each entry of the list points back at the one it follows.
Backed(list, back) ==
  \A i \in 1..Len(list) : back[list[i]] = IF i = 1 THEN PNULL ELSE list[i-1]

Chained ==
  /\ Used \in Seq(Entry) /\ IsInjective(Used) /\ Linked(Used, usedHead, next, PNULL)
  /\ Unused \in Seq(Entry) /\ IsInjective(Unused)
  /\ Linked(Unused, freeHead, next, PNULL)
  /\ ToSet(Used) \cap ToSet(Unused) = {}

\* The lists share out what is malloc()ed.
Owned ==
  doing \notin {"destroy", "gone"} =>
    /\ Backed(Used, prev) /\ Backed(Unused, prev)
    /\ blocks = ToSet(Used) \cup ToSet(Unused)
    /\ doing \notin {"create", "aborted"} => blocks = Entry

Ordered ==
  doing # "sort" =>
    \A i, j \in 1..Len(Used) : i < j => expiry[Used[i]] <= expiry[Used[j]]

NoneUsed == doing \in {"create", "destroy", "gone"} \/ stopped => Used = <<>>

\* The new entry, on its way from the end of the list, has come to position p
\* and is to be at t; the loop is at position q.
Sorting(p, t, q) ==
  /\ pEntry = At(Used, q, PNULL)
  /\ x <= (Len(Used) - p) * Len(Used) + (q-1)
  /\ q >= p => t = p
  /\ \A j \in 1..Len(Used) : j < t => expiry[Used[j]] <= expiry[Used[p]]
  /\ \A j \in 1..Len(Used) : j >= t /\ j # p => expiry[Used[j]] > expiry[Used[p]]
  /\ \A i, j \in 1..Len(Used) :
       i < j /\ i # p /\ j # p => expiry[Used[i]] <= expiry[Used[j]]

\* The loop of a tick is at position k.
Walking(k) ==
  /\ pEntry = At(Used, k, PNULL)
  /\ x + (Len(Used)+1-k) <= MAX_NUM_TIMERS
  /\ \A i \in 1..k-1 : expiry[Used[i]] > begun

\* The loop that frees the blocks is at position k.
Destroying(k) ==
  /\ pEntry = At(Unused, k, PNULL)
  /\ x + (Len(Unused)+1-k) <= MAX_NUM_TIMERS
  /\ blocks = {Unused[i] : i \in k..Len(Unused)}

Here ==
  /\ doing \in {"create", "nothing", "gone", "aborted"} => pEntry = PNULL
  /\ doing = "sort" =>
       \E p \in 1..Len(Used) : \E t \in 1..p, q \in 1..Len(Used)+1 : Sorting(p, t, q)
  /\ doing = "walk" => begun <= tick /\ \E k \in 1..Len(Used)+1 : Walking(k)
  /\ doing = "freeAll" => pEntry = usedHead /\ x + Len(Used) <= MAX_NUM_TIMERS
  /\ doing = "destroy" => \E k \in 1..Len(Unused)+1 : Destroying(k)
  /\ doing = "gone" => freeHead = PNULL /\ blocks = {}

Data == Chained /\ Owned /\ Ordered /\ NoneUsed
IInv == TypeOK /\ Data /\ Here

(***************************************************************************)
(* The lists as sequences.                                                 *)
(***************************************************************************)
\* How many entries a list may have.
LEMMA Bound ==
  /\ MAX_NUM_TIMERS \in Nat
  /\ \A s \in Seq(Entry) : IsInjective(s) => Len(s) \in Nat /\ Len(s) <= MAX_NUM_TIMERS
<1>1. IsFiniteSet(Entry)  BY TimerLinksAssumption
<1>2. MAX_NUM_TIMERS \in Nat  BY <1>1, FS_CardinalityType DEF MAX_NUM_TIMERS
<1>3. ASSUME NEW s \in Seq(Entry), IsInjective(s)
      PROVE  Len(s) \in Nat /\ Len(s) <= MAX_NUM_TIMERS
  BY <1>1, <1>3, LengthBound DEF MAX_NUM_TIMERS
<1>4. QED  BY <1>2, <1>3

\* What the links run through is the list.
LEMMA ChainIs ==
  ASSUME NEW s \in Seq(Entry), IsInjective(s), NEW head, NEW n,
         Linked(s, head, n, PNULL)
  PROVE  Following(head, n, PNULL, MAX_NUM_TIMERS) = s
<1>1. PNULL \notin Entry  BY TimerLinksAssumption
<1>2. MAX_NUM_TIMERS \in Nat /\ Len(s) <= MAX_NUM_TIMERS  BY Bound
<1>3. QED  BY <1>1, <1>2, FollowLinks

\* A list that is its links, position by position.
LEMMA ListFacts ==
  ASSUME NEW s \in Seq(Entry), IsInjective(s), NEW head, NEW n,
         Linked(s, head, n, PNULL)
  PROVE  /\ Len(s) \in Nat /\ (s = <<>> <=> Len(s) = 0)
         /\ s = <<>> <=> head = PNULL
         /\ s # <<>> => head = s[1] /\ 1 \in 1..Len(s)
         /\ \A i \in 1..Len(s) : s[i] \in Entry /\ s[i] # PNULL
         /\ \A i, j \in 1..Len(s) : s[i] = s[j] => i = j
         /\ \A i \in 1..Len(s) : n[s[i]] = At(s, i+1, PNULL)
         /\ ToSet(s) = {s[i] : i \in 1..Len(s)}
<1>1. DOMAIN s = 1..Len(s) /\ Len(s) \in Nat  OBVIOUS
<1>2. s = <<>> <=> Len(s) = 0  BY EmptySeq
<1>3. \A i \in 1..Len(s) : s[i] \in Entry /\ s[i] # PNULL
  BY <1>1, TimerLinksAssumption
<1>4. \A i, j \in 1..Len(s) : s[i] = s[j] => i = j
  BY <1>1 DEF IsInjective
<1>5. head = At(s, 1, PNULL) /\ \A i \in 1..Len(s) : n[s[i]] = At(s, i+1, PNULL)
  BY DEF Linked
<1>6. s # <<>> => 1 \in 1..Len(s)  BY <1>1, <1>2
<1>7. s = <<>> => 1 \notin 1..Len(s)  BY <1>2
<1>8. ToSet(s) = {s[i] : i \in 1..Len(s)}  BY <1>1 DEF ToSet
<1>9. QED  BY <1>1, <1>2, <1>3, <1>4, <1>5, <1>6, <1>7, <1>8 DEF At

\* The entry at the end of a list, if there is one.
LastIn(s) == IF Len(s) = 0 THEN PNULL ELSE s[Len(s)]

LEMMA LastOfIs ==
  ASSUME NEW s \in Seq(Entry), IsInjective(s), NEW head,
         Linked(s, head, next, PNULL)
  PROVE  LastOf(head) = LastIn(s)
<1>1. Chain(head) = s  BY ChainIs DEF Chain
<1>2. head = PNULL <=> Len(s) = 0  BY ListFacts
<1>3. QED  BY <1>1, <1>2 DEF LastOf, Last, LastIn

LEMMA NoList ==
  ASSUME NEW n
  PROVE  /\ <<>> \in Seq(Entry) /\ IsInjective(<<>>) /\ Linked(<<>>, PNULL, n, PNULL)
         /\ ToSet(<<>>) = {} /\ Len(<<>>) = 0
         /\ Following(PNULL, n, PNULL, MAX_NUM_TIMERS) = <<>>
<1>1. /\ <<>> \in Seq(Entry) /\ IsInjective(<<>>) /\ Len(<<>>) = 0 /\ ToSet(<<>>) = {}
  BY EmptySeq DEF IsInjective, ToSet
<1>2. Linked(<<>>, PNULL, n, PNULL)  BY <1>1 DEF Linked, At
<1>3. QED  BY <1>1, <1>2, ChainIs

\* An entry that is linked behind the others, here and in Malloc, allocTimer
\* and freeTimerUnprotected, the list it may come from apart.
LEMMA LinkBehind ==
  ASSUME NEW s \in Seq(Entry), IsInjective(s), NEW head, NEW n,
         Linked(s, head, n, PNULL),
         NEW e \in Entry, e \notin ToSet(s),
         NEW headAfter, NEW nAfter, NEW bAfter, NEW b, Backed(s, b),
         headAfter = IF head = PNULL THEN e ELSE head,
         nAfter[e] = PNULL, bAfter[e] = LastIn(s),
         \A q \in ToSet(s) : /\ nAfter[q] = IF q = LastIn(s) THEN e ELSE n[q]
                             /\ bAfter[q] = b[q]
  PROVE  /\ Linked(Append(s, e), headAfter, nAfter, PNULL)
         /\ Backed(Append(s, e), bAfter)
<1> DEFINE r == Append(s, e)
<1>1. /\ r \in Seq(Entry) /\ Len(r) = Len(s)+1 /\ r[Len(s)+1] = e
      /\ \A j \in 1..Len(s) : r[j] = s[j]
  BY AppendProperties
<1>3. /\ Len(s) \in Nat /\ (s = <<>> <=> Len(s) = 0) /\ (s = <<>> <=> head = PNULL)
      /\ \A i \in 1..Len(s) : s[i] \in ToSet(s)
      /\ \A i, j \in 1..Len(s) : s[i] = s[j] => i = j
  BY ListFacts
<1>4. Linked(r, headAfter, nAfter, PNULL)
  <2>1. headAfter = IF s = <<>> THEN e ELSE head  BY <1>3
  <2>2. \A i \in 1..Len(s) : nAfter[s[i]] = IF i = Len(s) THEN e ELSE n[s[i]]
    <3> TAKE i \in 1..Len(s)
    <3>1. Len(s) # 0 /\ Len(s) \in 1..Len(s)  BY <1>3
    <3>2. s[i] = LastIn(s) <=> i = Len(s)  BY <3>1, <1>3 DEF LastIn
    <3>3. QED  BY <3>2, <1>3
  <2> HIDE DEF r
  <2>3. QED  BY <2>1, <2>2, AppendLinked DEF r
<1>5. Backed(r, bAfter)
  <2> SUFFICES ASSUME NEW i \in 1..Len(s)+1
               PROVE  bAfter[r[i]] = IF i = 1 THEN PNULL ELSE r[i-1]
    BY <1>1 DEF Backed
  <2> HIDE DEF r
  <2>1. CASE i \in 1..Len(s)
    <3>1. i # 1 => i-1 \in 1..Len(s)  BY <2>1, <1>3
    <3>2. b[s[i]] = IF i = 1 THEN PNULL ELSE s[i-1]  BY <2>1 DEF Backed
    <3>3. QED  BY <2>1, <3>1, <3>2, <1>1, <1>3
  <2>2. CASE i = Len(s)+1
    <3>1. i # 1 => i-1 = Len(s) /\ Len(s) \in 1..Len(s) /\ Len(s) # 0  BY <2>2, <1>3
    <3>2. i = 1 => Len(s) = 0  BY <2>2, <1>3
    <3>3. QED  BY <2>2, <3>1, <3>2, <1>1 DEF LastIn
  <2>3. QED  BY <2>1, <2>2, <1>3
<1>6. QED  BY <1>4, <1>5

\* The entry at position i, unlinked.
LEMMA UnlinkAt ==
  ASSUME NEW s \in Seq(Entry), IsInjective(s), NEW head, NEW n,
         Linked(s, head, n, PNULL), NEW b, Backed(s, b),
         NEW i \in 1..Len(s),
         NEW headAfter, NEW nAfter, NEW bAfter,
         headAfter = IF s[i] = head THEN n[s[i]] ELSE head,
         \A q \in ToSet(s) : q # s[i] =>
           /\ nAfter[q] = IF q = b[s[i]] THEN n[s[i]] ELSE n[q]
           /\ bAfter[q] = IF q = n[s[i]] THEN b[s[i]] ELSE b[q]
  PROVE  /\ Linked(RemoveAt(s, i), headAfter, nAfter, PNULL)
         /\ Backed(RemoveAt(s, i), bAfter)
<1> DEFINE r == RemoveAt(s, i)
<1>1. /\ r \in Seq(Entry) /\ Len(r) = Len(s) - 1
      /\ \A j \in 1..Len(s)-1 : r[j] = IF j < i THEN s[j] ELSE s[j+1]
  BY UnlinkElements
<1>2. IsInjective(r) /\ ToSet(r) = ToSet(s) \ {s[i]}  BY UnlinkOnce
<1> HIDE DEF r
<1>3. /\ Len(s) \in Nat /\ (s = <<>> <=> Len(s) = 0) /\ s # <<>>
      /\ head = s[1] /\ 1 \in 1..Len(s)
      /\ \A j \in 1..Len(s) : s[j] \in ToSet(s) /\ s[j] # PNULL
      /\ \A j, k \in 1..Len(s) : s[j] = s[k] => j = k
      /\ n[s[i]] = At(s, i+1, PNULL)
  BY ListFacts
<1>4. b[s[i]] = IF i = 1 THEN PNULL ELSE s[i-1]  BY DEF Backed
<1>5. \A j \in 1..Len(s) : s[j] = b[s[i]] <=> j+1 = i
  <2> TAKE j \in 1..Len(s)
  <2>1. CASE i = 1  BY <2>1, <1>3, <1>4
  <2>2. CASE i # 1
    <3>1. i-1 \in 1..Len(s)  BY <2>2, <1>3
    <3>2. s[j] = s[i-1] <=> j = i-1  BY <3>1, <1>3
    <3>3. QED  BY <2>2, <3>2, <1>3, <1>4
  <2>3. QED  BY <2>1, <2>2
<1>6. \A j \in 1..Len(s) : s[j] = n[s[i]] <=> j = i+1
  BY <1>3 DEF At
<1>7. Linked(r, headAfter, nAfter, PNULL)
  <2>1. headAfter = IF i = 1 THEN n[s[i]] ELSE head
    <3>1. s[i] = head <=> i = 1  BY <1>3
    <3>2. QED  BY <3>1
  <2>2. \A j \in 1..Len(s) : j # i =>
          nAfter[s[j]] = IF j+1 = i THEN n[s[i]] ELSE n[s[j]]
    <3>1. \A j \in 1..Len(s) : j # i => s[j] # s[i]  BY <1>3
    <3>2. QED  BY <3>1, <1>3, <1>5
  <2>3. QED  BY <2>1, <2>2, UnlinkLinked DEF r
<1>8. Backed(r, bAfter)
  <2> SUFFICES ASSUME NEW j \in 1..Len(s)-1
               PROVE  bAfter[r[j]] = IF j = 1 THEN PNULL ELSE r[j-1]
    BY <1>1 DEF Backed
  <2>1. CASE j < i
    <3>1. /\ j \in 1..Len(s) /\ s[j] # s[i] /\ j # i+1 /\ r[j] = s[j]
          /\ j # 1 => j-1 \in 1..Len(s)-1 /\ j-1 < i
      BY <2>1, <1>1, <1>3
    <3>2. bAfter[r[j]] = b[s[j]]  BY <3>1, <1>3, <1>6
    <3>3. b[s[j]] = IF j = 1 THEN PNULL ELSE s[j-1]  BY <3>1 DEF Backed
    <3>4. QED  BY <3>1, <3>2, <3>3, <1>1
  <2>2. CASE j = i
    <3>1. /\ j+1 \in 1..Len(s) /\ s[j+1] # s[i] /\ r[j] = s[j+1]
          /\ j # 1 => j-1 \in 1..Len(s)-1 /\ j-1 < i
      BY <2>2, <1>1, <1>3
    <3>2. bAfter[r[j]] = b[s[i]]  BY <2>2, <3>1, <1>3, <1>6
    <3>3. QED  BY <2>2, <3>1, <3>2, <1>1, <1>4
  <2>3. CASE j > i
    <3>1. /\ j+1 \in 1..Len(s) /\ s[j+1] # s[i] /\ r[j] = s[j+1] /\ j+1 # i+1
          /\ j-1 \in 1..Len(s)-1 /\ ~(j-1 < i) /\ (j-1)+1 = j /\ (j+1)-1 = j
          /\ j # 1 /\ j+1 # 1
      BY <2>3, <1>1, <1>3
    <3>2. bAfter[r[j]] = b[s[j+1]]  BY <3>1, <1>3, <1>6
    <3>3. b[s[j+1]] = s[j]  BY <3>1 DEF Backed
    <3>4. r[j-1] = s[j]  BY <3>1, <1>1
    <3>5. QED  BY <3>1, <3>2, <3>3, <3>4
  <2>4. QED  BY <2>1, <2>2, <2>3, <1>3
<1>9. QED  BY <1>7, <1>8 DEF r

(***************************************************************************)
(* freeTimerUnprotected, which a stop, a tick and the end of the server    *)
(* all come down to.                                                       *)
(***************************************************************************)
LEMMA FreeMoves ==
  ASSUME TypeOK, Chained, Backed(Used, prev), Backed(Unused, prev),
         NEW i \in 1..Len(Used), FreeTimerUnprotected(Used[i])
  PROVE  /\ Used' = RemoveAt(Used, i) /\ Unused' = Append(Unused, Used[i])
         /\ Chained' /\ Backed(Used, prev)' /\ Backed(Unused, prev)'
         /\ Len(Used)' = Len(Used)-1
         /\ \A j \in 1..Len(Used)-1 : Used'[j] = IF j < i THEN Used[j] ELSE Used[j+1]
         /\ ToSet(Used') = ToSet(Used) \ {Used[i]}
         /\ ToSet(Unused') = ToSet(Unused) \cup {Used[i]}
         /\ freeHead' \in Pointer /\ usedHead' \in Pointer
         /\ next' \in [Entry -> Pointer] /\ prev' \in [Entry -> Pointer]
         /\ expiry' \in [Entry -> Nat]
         /\ expiry' = [expiry EXCEPT ![Used[i]] = 0]
<1> DEFINE e == Used[i]
           last == LastOf(freeHead)
           mid == [Put(next, prev[e], next[e]) EXCEPT ![e] = PNULL]
           back == Put(prev, next[e], prev[e])
<1>1. /\ next \in [Entry -> Pointer] /\ prev \in [Entry -> Pointer]
      /\ expiry \in [Entry -> Nat] /\ usedHead \in Pointer /\ freeHead \in Pointer
  BY DEF TypeOK
<1>2. /\ Used \in Seq(Entry) /\ IsInjective(Used) /\ Linked(Used, usedHead, next, PNULL)
      /\ Unused \in Seq(Entry) /\ IsInjective(Unused)
      /\ Linked(Unused, freeHead, next, PNULL)
      /\ ToSet(Used) \cap ToSet(Unused) = {}
  BY DEF Chained
<1>3. /\ e \in Entry /\ e # PNULL /\ e \in ToSet(Used)
      /\ \A q \in ToSet(Used) : q \in Entry /\ q # PNULL
      /\ next[e] \in ToSet(Used) \cup {PNULL}
  <2>1. /\ \A j \in 1..Len(Used) : Used[j] \in Entry /\ Used[j] # PNULL
        /\ \A j \in 1..Len(Used) : next[Used[j]] = At(Used, j+1, PNULL)
        /\ ToSet(Used) = {Used[j] : j \in 1..Len(Used)}
    BY <1>2, ListFacts
  <2>2. next[e] = At(Used, i+1, PNULL)  BY <2>1
  <2>3. At(Used, i+1, PNULL) \in ToSet(Used) \cup {PNULL}
    BY <2>1 DEF At
  <2>4. QED  BY <2>1, <2>2, <2>3
<1>4. /\ last = LastIn(Unused)
      /\ \A q \in ToSet(Unused) : q \in Entry
      /\ last \in ToSet(Unused) \cup {PNULL}
  <2>1. last = LastIn(Unused)
    BY <1>2, LastOfIs
  <2>2. /\ Len(Unused) \in Nat /\ ToSet(Unused) = {Unused[j] : j \in 1..Len(Unused)}
        /\ \A j \in 1..Len(Unused) : Unused[j] \in Entry
    BY <1>2, ListFacts
  <2>3. Len(Unused) # 0 => Len(Unused) \in 1..Len(Unused)  BY <2>2
  <2>4. QED  BY <2>1, <2>2, <2>3 DEF LastIn
<1>5. prev[e] = IF i = 1 THEN PNULL ELSE Used[i-1]  BY DEF Backed
<1>6. prev[e] \in ToSet(Used) \cup {PNULL} /\ prev[e] # e
  <2>1. /\ Len(Used) \in Nat /\ ToSet(Used) = {Used[j] : j \in 1..Len(Used)}
        /\ \A j, k \in 1..Len(Used) : Used[j] = Used[k] => j = k
    BY <1>2, ListFacts
  <2>2. i # 1 => i-1 \in 1..Len(Used) /\ i-1 # i  BY <2>1
  <2>3. QED  BY <2>1, <2>2, <1>3, <1>5
<1>7. /\ usedHead' = IF e = usedHead THEN next[e] ELSE usedHead
      /\ freeHead' = IF freeHead = PNULL THEN e ELSE freeHead
      /\ next' = Put(mid, last, e)
      /\ prev' = [back EXCEPT ![e] = last]
      /\ expiry' = [expiry EXCEPT ![e] = 0]
  BY DEF FreeTimerUnprotected
<1> HIDE DEF e, last, mid, back
<1>8. /\ prev[e] \in Pointer /\ next[e] \in Pointer /\ last \in Pointer
      /\ e \in Pointer /\ PNULL \in Pointer
  BY <1>1, <1>3, <1>4 DEF Pointer
<1>9. /\ mid \in [Entry -> Pointer] /\ mid[e] = PNULL
      /\ \A q \in Entry : q # e => mid[q] = IF q = prev[e] THEN next[e] ELSE next[q]
  <2>1. /\ Put(next, prev[e], next[e]) \in [Entry -> Pointer]
        /\ \A q \in Entry : Put(next, prev[e], next[e])[q] =
             IF q = prev[e] THEN next[e] ELSE next[q]
    BY <1>1, <1>8, TimerLinksAssumption DEF Put, Pointer
  <2>2. QED  BY <2>1, <1>3, <1>8 DEF mid
<1>10. /\ next' \in [Entry -> Pointer]
       /\ \A q \in Entry : next'[q] = IF q = last THEN e ELSE mid[q]
  BY <1>3, <1>7, <1>8, <1>9, TimerLinksAssumption DEF Put, Pointer
<1>11. /\ prev' \in [Entry -> Pointer] /\ prev'[e] = last
       /\ \A q \in Entry : q # e => prev'[q] = IF q = next[e] THEN prev[e] ELSE prev[q]
  <2>1. /\ back \in [Entry -> Pointer]
        /\ \A q \in Entry : back[q] = IF q = next[e] THEN prev[e] ELSE prev[q]
    BY <1>1, <1>8, TimerLinksAssumption DEF back, Put, Pointer
  <2>2. QED  BY <2>1, <1>3, <1>7, <1>8
<1>12. \A q \in ToSet(Used) : q # last /\ q \notin ToSet(Unused)
  BY <1>2, <1>3, <1>4
<1>13. \A q \in ToSet(Unused) : q # e /\ q # prev[e] /\ q # next[e] /\ q \in Entry /\ q # PNULL
  BY <1>2, <1>3, <1>4, <1>6, TimerLinksAssumption
<1> DEFINE r == RemoveAt(Used, i)
           f == Append(Unused, e)
<1>14. /\ r \in Seq(Entry) /\ IsInjective(r) /\ Linked(r, usedHead', next', PNULL)
       /\ Backed(r, prev')
       /\ Len(r) = Len(Used)-1 /\ ToSet(r) = ToSet(Used) \ {e}
       /\ \A j \in 1..Len(Used)-1 : r[j] = IF j < i THEN Used[j] ELSE Used[j+1]
       /\ Following(usedHead', next', PNULL, MAX_NUM_TIMERS) = r
  <2>1. \A q \in ToSet(Used) : q # Used[i] =>
           /\ next'[q] = IF q = prev[Used[i]] THEN next[Used[i]] ELSE next[q]
           /\ prev'[q] = IF q = next[Used[i]] THEN prev[Used[i]] ELSE prev[q]
    BY <1>3, <1>9, <1>10, <1>11, <1>12 DEF e
  <2>2. usedHead' = IF Used[i] = usedHead THEN next[Used[i]] ELSE usedHead
    BY <1>7 DEF e
  <2>3. Linked(RemoveAt(Used, i), usedHead', next', PNULL) /\ Backed(RemoveAt(Used, i), prev')
    BY <1>2, <2>1, <2>2, UnlinkAt
  <2>4. /\ r \in Seq(Entry) /\ Len(r) = Len(Used) - 1
        /\ \A j \in 1..Len(Used)-1 : r[j] = IF j < i THEN Used[j] ELSE Used[j+1]
    BY <1>2, UnlinkElements
  <2>5. IsInjective(r) /\ ToSet(r) = ToSet(Used) \ {e}  BY <1>2, UnlinkOnce DEF e
  <2>6. Linked(r, usedHead', next', PNULL) /\ Backed(r, prev')  BY <2>3
  <2> HIDE DEF r
  <2>7. Following(usedHead', next', PNULL, MAX_NUM_TIMERS) = r
    BY <2>4, <2>5, <2>6, ChainIs
  <2>8. QED  BY <2>4, <2>5, <2>6, <2>7
<1>15. /\ f \in Seq(Entry) /\ IsInjective(f) /\ Linked(f, freeHead', next', PNULL)
       /\ Backed(f, prev')
       /\ ToSet(f) = ToSet(Unused) \cup {e}
       /\ Following(freeHead', next', PNULL, MAX_NUM_TIMERS) = f
  <2>1. \A q \in ToSet(Unused) : /\ next'[q] = IF q = LastIn(Unused) THEN e ELSE next[q]
                                 /\ prev'[q] = prev[q]
    BY <1>4, <1>9, <1>10, <1>11, <1>13
  <2>2. next'[e] = PNULL  BY <1>3, <1>9, <1>10, <1>12
  <2>3. e \notin ToSet(Unused)  BY <1>3, <1>12
  <2>4. prev'[e] = LastIn(Unused) /\ freeHead' = IF freeHead = PNULL THEN e ELSE freeHead
    BY <1>4, <1>7, <1>11
  <2>5. /\ Linked(Append(Unused, e), freeHead', next', PNULL)
        /\ Backed(Append(Unused, e), prev')
    BY <1>2, <1>3, <2>1, <2>2, <2>3, <2>4, LinkBehind
  <2>6. /\ f \in Seq(Entry) /\ IsInjective(f) /\ ToSet(f) = ToSet(Unused) \cup {e}
    BY <1>2, <1>3, <2>3, AppendOnce
  <2>7. Linked(f, freeHead', next', PNULL) /\ Backed(f, prev')  BY <2>5
  <2> HIDE DEF f
  <2>8. Following(freeHead', next', PNULL, MAX_NUM_TIMERS) = f
    BY <2>6, <2>7, ChainIs
  <2>9. QED  BY <2>6, <2>7, <2>8
<1> HIDE DEF r, f
<1>16. Used' = r /\ Unused' = f
  BY <1>14, <1>15 DEF Used, Unused, Chain
<1>17. ToSet(r) \cap ToSet(f) = {}  BY <1>2, <1>14, <1>15
<1>18. Chained'  BY <1>14, <1>15, <1>16, <1>17 DEF Chained
<1>19. freeHead' \in Pointer /\ usedHead' \in Pointer  BY <1>1, <1>7, <1>8
<1>20. expiry' \in [Entry -> Nat]  BY <1>1, <1>7
<1>21. Backed(Used, prev)' /\ Backed(Unused, prev)'
  BY <1>14, <1>15, <1>16 DEF Backed
<1>22. QED
  BY <1>7, <1>10, <1>11, <1>14, <1>15, <1>16, <1>18, <1>19, <1>20, <1>21 DEF r, f, e

\* Lists that are left alone.
LEMMA SameLists ==
  ASSUME Chained, UNCHANGED linkVars
  PROVE  /\ Used' = Used /\ Unused' = Unused /\ Chained'
         /\ Backed(Used, prev)' <=> Backed(Used, prev)
         /\ Backed(Unused, prev)' <=> Backed(Unused, prev)
<1>1. Used' = Used /\ Unused' = Unused  BY DEF Used, Unused, Chain, linkVars
<1>2. Chained'  BY <1>1 DEF Chained, linkVars
<1>3. QED  BY <1>1, <1>2 DEF Backed, linkVars

LEMMA InitInvariant == Init => IInv
<1> SUFFICES ASSUME Init  PROVE IInv  OBVIOUS
<1>1. /\ <<>> \in Seq(Entry) /\ IsInjective(<<>>) /\ Linked(<<>>, PNULL, next, PNULL)
      /\ ToSet(<<>>) = {} /\ Len(<<>>) = 0
      /\ Following(PNULL, next, PNULL, MAX_NUM_TIMERS) = <<>>
  BY NoList
<1>2. Used = <<>> /\ Unused = <<>>  BY <1>1 DEF Init, Used, Unused, Chain
<1>3. Chained  BY <1>1, <1>2 DEF Chained, Init
<1>4. TypeOK
  <2>1. MAX_NUM_TIMERS * MAX_NUM_TIMERS \in Nat  BY Bound
  <2>2. 0 \in 0..SortBound /\ 0 \in 0..MaxTick
    BY <2>1, TimerLinksAssumption DEF SortBound
  <2>3. /\ [e \in Entry |-> PNULL] \in [Entry -> Pointer] /\ PNULL \in Pointer
        /\ [e \in Entry |-> 0] \in [Entry -> Nat]
    BY DEF Pointer
  <2>4. QED  BY <2>2, <2>3 DEF Init, TypeOK
<1>5. Owned  BY <1>1, <1>2 DEF Owned, Backed, Init
<1>6. Ordered /\ NoneUsed  BY <1>1, <1>2 DEF Ordered, NoneUsed
<1>7. Here  BY DEF Here, Init
<1>8. QED  BY <1>3, <1>4, <1>5, <1>6, <1>7 DEF IInv, Data

(***************************************************************************)
(* actionTimerServerStart.                                                 *)
(***************************************************************************)
LEMMA MallocLinks ==
  ASSUME IInv, NEW e \in Entry, Malloc(e)
  PROVE  /\ Used' = <<>> /\ Used = <<>> /\ Unused' = Append(Unused, e)
         /\ IInv'
<1>1. /\ TypeOK /\ Chained /\ Backed(Unused, prev)
      /\ Used = <<>> /\ blocks = ToSet(Unused) /\ pEntry = PNULL
  <2>1. TypeOK /\ Chained /\ Used = <<>> /\ Backed(Unused, prev) /\ pEntry = PNULL
        /\ blocks = ToSet(Used) \cup ToSet(Unused)
    BY DEF IInv, Data, NoneUsed, Owned, Malloc, Here
  <2>2. ToSet(<<>>) = {}  BY NoList
  <2>3. QED  BY <2>1, <2>2
<1>2. /\ e \notin ToSet(Unused)
      /\ blocks' = blocks \cup {e}
      /\ next' = Put([next EXCEPT ![e] = PNULL], LastOf(freeHead), e)
      /\ prev' = [prev EXCEPT ![e] = LastOf(freeHead)]
      /\ freeHead' = IF freeHead = PNULL THEN e ELSE freeHead
      /\ doing' \in {"nothing", "create"}
      /\ doing' = "nothing" => blocks' = Entry
      /\ UNCHANGED <<pEntry, x, begun, usedHead, expiry, tick, stopped>>
  BY <1>1 DEF Malloc
<1>3. /\ Unused \in Seq(Entry) /\ IsInjective(Unused)
      /\ Linked(Unused, freeHead, next, PNULL) /\ Linked(Used, usedHead, next, PNULL)
  BY <1>1 DEF Chained
<1>4. /\ LastOf(freeHead) = LastIn(Unused)
      /\ \A q \in ToSet(Unused) : q \in Entry /\ q # e
      /\ LastIn(Unused) \in ToSet(Unused) \cup {PNULL} /\ LastIn(Unused) # e
  <2>1. LastOf(freeHead) = LastIn(Unused)  BY <1>3, LastOfIs
  <2>2. /\ Len(Unused) \in Nat /\ ToSet(Unused) = {Unused[j] : j \in 1..Len(Unused)}
        /\ \A j \in 1..Len(Unused) : Unused[j] \in Entry
    BY <1>3, ListFacts
  <2>3. Len(Unused) # 0 => Len(Unused) \in 1..Len(Unused)  BY <2>2
  <2>4. LastIn(Unused) \in ToSet(Unused) \cup {PNULL}  BY <2>2, <2>3 DEF LastIn
  <2>5. QED  BY <2>1, <2>2, <2>4, <1>2, TimerLinksAssumption
<1>5. /\ next \in [Entry -> Pointer] /\ prev \in [Entry -> Pointer]
      /\ e \in Pointer /\ PNULL \in Pointer /\ LastIn(Unused) \in Pointer
  BY <1>1, <1>4 DEF TypeOK, Pointer
<1>6. /\ next' \in [Entry -> Pointer] /\ next'[e] = PNULL
      /\ \A q \in Entry : q # e => next'[q] = IF q = LastIn(Unused) THEN e ELSE next[q]
  BY <1>2, <1>4, <1>5, TimerLinksAssumption DEF Put, Pointer
<1>7. /\ prev' \in [Entry -> Pointer] /\ prev'[e] = LastIn(Unused)
      /\ \A q \in Entry : q # e => prev'[q] = prev[q]
  BY <1>2, <1>4, <1>5
<1> DEFINE f == Append(Unused, e)
<1>8. /\ f \in Seq(Entry) /\ IsInjective(f) /\ Linked(f, freeHead', next', PNULL)
      /\ Backed(f, prev') /\ ToSet(f) = ToSet(Unused) \cup {e}
      /\ Following(freeHead', next', PNULL, MAX_NUM_TIMERS) = f
  <2>1. \A q \in ToSet(Unused) : /\ next'[q] = IF q = LastIn(Unused) THEN e ELSE next[q]
                                 /\ prev'[q] = prev[q]
    BY <1>4, <1>6, <1>7
  <2>a. freeHead' = IF freeHead = PNULL THEN e ELSE freeHead  BY <1>2
  <2>b. next'[e] = PNULL /\ prev'[e] = LastIn(Unused)  BY <1>6, <1>7
  <2>c. e \notin ToSet(Unused) /\ Backed(Unused, prev)  BY <1>1, <1>2
  <2>2. /\ Linked(Append(Unused, e), freeHead', next', PNULL)
        /\ Backed(Append(Unused, e), prev')
    BY <1>3, <2>1, <2>a, <2>b, <2>c, LinkBehind
  <2>3. /\ f \in Seq(Entry) /\ IsInjective(f) /\ ToSet(f) = ToSet(Unused) \cup {e}
    BY <1>2, <1>3, AppendOnce
  <2>4. Linked(f, freeHead', next', PNULL) /\ Backed(f, prev')  BY <2>2
  <2> HIDE DEF f
  <2>5. Following(freeHead', next', PNULL, MAX_NUM_TIMERS) = f
    BY <2>3, <2>4, ChainIs
  <2>6. QED  BY <2>3, <2>4, <2>5
<1> HIDE DEF f
<1>9. /\ <<>> \in Seq(Entry) /\ IsInjective(<<>>) /\ Linked(<<>>, PNULL, next', PNULL)
      /\ ToSet(<<>>) = {} /\ Len(<<>>) = 0
      /\ Following(PNULL, next', PNULL, MAX_NUM_TIMERS) = <<>>
  BY NoList
<1>10. usedHead = PNULL  BY <1>1, <1>3, <1>9 DEF Linked, At
<1>11. Used' = <<>> /\ Unused' = f
  BY <1>2, <1>8, <1>9, <1>10 DEF Used, Unused, Chain
<1>12. Chained'  BY <1>2, <1>8, <1>9, <1>10, <1>11 DEF Chained
<1>13. TypeOK'
  <2>1. freeHead' \in Pointer /\ blocks' \in SUBSET Entry
    BY <1>1, <1>2, <1>5 DEF TypeOK
  <2>2. QED  BY <1>1, <1>2, <1>6, <1>7, <2>1 DEF TypeOK
<1>14. Owned'
  <2>1. blocks' = ToSet(Used') \cup ToSet(Unused')  BY <1>1, <1>2, <1>8, <1>9, <1>11
  <2>2. Backed(Used, prev)' /\ Backed(Unused, prev)'
    BY <1>8, <1>9, <1>11 DEF Backed
  <2>3. QED  BY <1>2, <2>1, <2>2 DEF Owned
<1>15. Ordered' /\ NoneUsed'  BY <1>9, <1>11 DEF Ordered, NoneUsed
<1>16. Here'  BY <1>1, <1>2 DEF Here
<1>17. QED
  BY <1>1, <1>11, <1>12, <1>13, <1>14, <1>15, <1>16 DEF IInv, Data, f

LEMMA MallocFailsStep ==
  ASSUME IInv, MallocFails
  PROVE  IInv' /\ Used' = Used /\ Unused' = Unused
<1>1. /\ TypeOK /\ Data /\ Here /\ doing = "create" /\ doing' = "aborted"
      /\ UNCHANGED linkVars /\ UNCHANGED <<pEntry, x, begun, blocks, tick, stopped>>
  BY DEF IInv, MallocFails
<1>2. /\ Used' = Used /\ Unused' = Unused /\ Chained'
      /\ Backed(Used, prev)' <=> Backed(Used, prev)
      /\ Backed(Unused, prev)' <=> Backed(Unused, prev)
  BY <1>1, SameLists DEF Data
<1>3. TypeOK'  BY <1>1 DEF TypeOK, linkVars
<1>4. Owned'  BY <1>1, <1>2 DEF Data, Owned
<1>5. Ordered' /\ NoneUsed'
  BY <1>1, <1>2 DEF Data, Ordered, NoneUsed, linkVars
<1>6. Here'  BY <1>1 DEF Here
<1>7. QED  BY <1>2, <1>3, <1>4, <1>5, <1>6 DEF IInv, Data

(***************************************************************************)
(* allocTimer.                                                             *)
(***************************************************************************)
LEMMA AllocTimerFailsStep ==
  ASSUME IInv, AllocTimerFails
  PROVE  IInv' /\ Used' = Used /\ Unused' = Unused
<1>1. /\ TypeOK /\ Data /\ Here /\ doing = "nothing" /\ doing' = "aborted"
      /\ UNCHANGED linkVars /\ UNCHANGED <<pEntry, x, begun, blocks, tick, stopped>>
  BY DEF IInv, AllocTimerFails
<1>2. /\ Used' = Used /\ Unused' = Unused /\ Chained'
      /\ Backed(Used, prev)' <=> Backed(Used, prev)
      /\ Backed(Unused, prev)' <=> Backed(Unused, prev)
  BY <1>1, SameLists DEF Data
<1>3. TypeOK'  BY <1>1 DEF TypeOK, linkVars
<1>4. Owned'  BY <1>1, <1>2 DEF Data, Owned
<1>5. Ordered' /\ NoneUsed'
  BY <1>1, <1>2 DEF Data, Ordered, NoneUsed, linkVars
<1>6. Here'  BY <1>1 DEF Here
<1>7. QED  BY <1>2, <1>3, <1>4, <1>5, <1>6 DEF IInv, Data

\* What the lists and the pointers are once the entry is linked in.
LEMMA AllocMoves ==
  ASSUME TypeOK, Chained, Backed(Used, prev), Backed(Unused, prev),
         NEW period \in Period, AllocTimer(period)
  PROVE  LET m == Len(Unused)
             e == Unused[m] IN
         /\ m \in 1..Len(Unused) /\ e \in Entry /\ e \in ToSet(Unused)
         /\ Used' = Append(Used, e) /\ Unused' = RemoveAt(Unused, m)
         /\ Chained' /\ Backed(Used, prev)' /\ Backed(Unused, prev)'
         /\ Len(Used') = Len(Used)+1 /\ Used'[Len(Used)+1] = e
         /\ \A j \in 1..Len(Used) : Used'[j] = Used[j]
         /\ ToSet(Used') = ToSet(Used) \cup {e}
         /\ ToSet(Unused') = ToSet(Unused) \ {e}
         /\ freeHead' \in Pointer /\ usedHead' \in Pointer
         /\ next' \in [Entry -> Pointer] /\ prev' \in [Entry -> Pointer]
         /\ expiry' = [expiry EXCEPT ![e] = tick + period]
<1> DEFINE m == Len(Unused)
           e == Unused[m]
           last == LastIn(Used)
           mid == [Put(next, prev[e], next[e]) EXCEPT ![e] = PNULL]
<1>1. /\ next \in [Entry -> Pointer] /\ prev \in [Entry -> Pointer]
      /\ usedHead \in Pointer /\ freeHead \in Pointer
  BY DEF TypeOK
<1>2. /\ Used \in Seq(Entry) /\ IsInjective(Used) /\ Linked(Used, usedHead, next, PNULL)
      /\ Unused \in Seq(Entry) /\ IsInjective(Unused)
      /\ Linked(Unused, freeHead, next, PNULL)
      /\ ToSet(Used) \cap ToSet(Unused) = {}
  BY DEF Chained
<1>3. /\ m \in 1..Len(Unused) /\ e = LastOf(freeHead)
      /\ e \in Entry /\ e # PNULL /\ e \in ToSet(Unused) /\ next[e] = PNULL
      /\ \A q \in ToSet(Unused) : q \in Entry /\ q # PNULL
      /\ \A j, k \in 1..Len(Unused) : Unused[j] = Unused[k] => j = k
  <2>1. freeHead # PNULL  BY DEF AllocTimer
  <2>2. /\ Len(Unused) \in Nat /\ (Unused = <<>> <=> Len(Unused) = 0) /\ Unused # <<>>
        /\ \A j \in 1..Len(Unused) : Unused[j] \in Entry /\ Unused[j] # PNULL
        /\ \A j, k \in 1..Len(Unused) : Unused[j] = Unused[k] => j = k
        /\ \A j \in 1..Len(Unused) : next[Unused[j]] = At(Unused, j+1, PNULL)
        /\ ToSet(Unused) = {Unused[j] : j \in 1..Len(Unused)}
    BY <1>2, <2>1, ListFacts
  <2>3. m \in 1..Len(Unused) /\ m+1 \notin 1..Len(Unused)  BY <2>2
  <2>4. LastOf(freeHead) = e  BY <1>2, <2>2, LastOfIs DEF LastIn
  <2>5. QED  BY <2>2, <2>3, <2>4 DEF At
<1>4. /\ LastOf(usedHead) = last /\ \A q \in ToSet(Used) : q \in Entry
      /\ last \in ToSet(Used) \cup {PNULL}
  <2>1. LastOf(usedHead) = last  BY <1>2, LastOfIs
  <2>2. /\ Len(Used) \in Nat /\ ToSet(Used) = {Used[j] : j \in 1..Len(Used)}
        /\ \A j \in 1..Len(Used) : Used[j] \in Entry
    BY <1>2, ListFacts
  <2>3. Len(Used) # 0 => Len(Used) \in 1..Len(Used)  BY <2>2
  <2>4. QED  BY <2>1, <2>2, <2>3 DEF LastIn
<1>5. prev[e] = IF m = 1 THEN PNULL ELSE Unused[m-1]  BY <1>3 DEF Backed
<1>6. prev[e] \in ToSet(Unused) \cup {PNULL} /\ prev[e] # e
  <2>1. /\ Len(Unused) \in Nat /\ ToSet(Unused) = {Unused[j] : j \in 1..Len(Unused)}
    BY <1>2, ListFacts
  <2>2. m \in 1..Len(Unused)  BY <1>3
  <2>3. m # 1 => m-1 \in 1..Len(Unused) /\ m-1 # m
    <3> HIDE DEF m
    <3>1. QED  BY <2>1, <2>2
  <2>4. QED  BY <2>1, <2>2, <2>3, <1>3, <1>5
<1>7. /\ freeHead' = IF e = freeHead THEN PNULL ELSE freeHead
      /\ usedHead' = IF usedHead = PNULL THEN e ELSE usedHead
      /\ next' = Put(mid, last, e)
      /\ prev' = [prev EXCEPT ![e] = last]
      /\ expiry' = [expiry EXCEPT ![e] = tick + period]
  BY <1>3, <1>4 DEF AllocTimer, Deadline
<1> HIDE DEF e, m, last, mid
<1>8. /\ prev[e] \in Pointer /\ next[e] \in Pointer /\ last \in Pointer
      /\ e \in Pointer /\ PNULL \in Pointer
  BY <1>1, <1>3, <1>4 DEF Pointer
<1>9. /\ mid \in [Entry -> Pointer] /\ mid[e] = PNULL
      /\ \A q \in Entry : q # e => mid[q] = IF q = prev[e] THEN next[e] ELSE next[q]
  <2>1. /\ Put(next, prev[e], next[e]) \in [Entry -> Pointer]
        /\ \A q \in Entry : Put(next, prev[e], next[e])[q] =
             IF q = prev[e] THEN next[e] ELSE next[q]
    BY <1>1, <1>8, TimerLinksAssumption DEF Put, Pointer
  <2>2. QED  BY <2>1, <1>3, <1>8 DEF mid
<1>10. /\ next' \in [Entry -> Pointer]
       /\ \A q \in Entry : next'[q] = IF q = last THEN e ELSE mid[q]
  BY <1>3, <1>7, <1>8, <1>9, TimerLinksAssumption DEF Put, Pointer
<1>11. /\ prev' \in [Entry -> Pointer] /\ prev'[e] = last
       /\ \A q \in Entry : q # e => prev'[q] = prev[q]
  BY <1>1, <1>3, <1>7, <1>8
<1>12. \A q \in ToSet(Unused) : q # last /\ q \notin ToSet(Used)
  BY <1>2, <1>3, <1>4
<1>13. \A q \in ToSet(Used) : q # e /\ q # prev[e] /\ q \in Entry
  BY <1>2, <1>3, <1>4, <1>6, TimerLinksAssumption
<1> DEFINE u == Append(Used, e)
           r == RemoveAt(Unused, m)
<1>14. /\ r \in Seq(Entry) /\ IsInjective(r) /\ Linked(r, freeHead', next', PNULL)
       /\ Backed(r, prev') /\ ToSet(r) = ToSet(Unused) \ {e}
       /\ Following(freeHead', next', PNULL, MAX_NUM_TIMERS) = r
  <2>1. \A q \in ToSet(Unused) : q # Unused[m] =>
           /\ next'[q] = IF q = prev[Unused[m]] THEN next[Unused[m]] ELSE next[q]
           /\ prev'[q] = IF q = next[Unused[m]] THEN prev[Unused[m]] ELSE prev[q]
    BY <1>3, <1>9, <1>10, <1>11, <1>12 DEF e
  <2>2. freeHead' = IF Unused[m] = freeHead THEN next[Unused[m]] ELSE freeHead
    BY <1>3, <1>7 DEF e
  <2>3. Linked(RemoveAt(Unused, m), freeHead', next', PNULL) /\ Backed(RemoveAt(Unused, m), prev')
    BY <1>2, <1>3, <2>1, <2>2, UnlinkAt
  <2>4. r \in Seq(Entry)  BY <1>2, <1>3, UnlinkElements
  <2>5. IsInjective(r) /\ ToSet(r) = ToSet(Unused) \ {e}
    BY <1>2, <1>3, UnlinkOnce DEF e
  <2>6. Linked(r, freeHead', next', PNULL) /\ Backed(r, prev')  BY <2>3
  <2> HIDE DEF r
  <2>7. Following(freeHead', next', PNULL, MAX_NUM_TIMERS) = r
    BY <2>4, <2>5, <2>6, ChainIs
  <2>8. QED  BY <2>4, <2>5, <2>6, <2>7
<1>15. /\ u \in Seq(Entry) /\ IsInjective(u) /\ Linked(u, usedHead', next', PNULL)
       /\ Backed(u, prev')
       /\ Len(u) = Len(Used)+1 /\ ToSet(u) = ToSet(Used) \cup {e}
       /\ u[Len(Used)+1] = e /\ \A j \in 1..Len(Used) : u[j] = Used[j]
       /\ Following(usedHead', next', PNULL, MAX_NUM_TIMERS) = u
  <2>1. \A q \in ToSet(Used) : /\ next'[q] = IF q = LastIn(Used) THEN e ELSE next[q]
                               /\ prev'[q] = prev[q]
    BY <1>9, <1>10, <1>11, <1>13 DEF last
  <2>2. next'[e] = PNULL  BY <1>3, <1>9, <1>10, <1>12
  <2>3. e \notin ToSet(Used)  BY <1>3, <1>12
  <2>4. prev'[e] = LastIn(Used)  BY <1>11 DEF last
  <2>5. usedHead' = IF usedHead = PNULL THEN e ELSE usedHead  BY <1>7
  <2>6. e \in Entry  BY <1>3
  <2>7. /\ Linked(Append(Used, e), usedHead', next', PNULL)
        /\ Backed(Append(Used, e), prev')
    BY <1>2, <2>1, <2>2, <2>3, <2>4, <2>5, <2>6, LinkBehind
  <2>8. /\ u \in Seq(Entry) /\ IsInjective(u) /\ ToSet(u) = ToSet(Used) \cup {e}
        /\ Len(u) = Len(Used)+1
    BY <1>2, <2>3, <2>6, AppendOnce
  <2>9. u[Len(Used)+1] = e /\ \A j \in 1..Len(Used) : u[j] = Used[j]
    BY <1>2, <2>6, AppendProperties
  <2>10. Linked(u, usedHead', next', PNULL) /\ Backed(u, prev')  BY <2>7
  <2> HIDE DEF u
  <2>11. Following(usedHead', next', PNULL, MAX_NUM_TIMERS) = u
    BY <2>8, <2>10, ChainIs
  <2>12. QED  BY <2>8, <2>9, <2>10, <2>11
<1> HIDE DEF r, u
<1>16. Used' = u /\ Unused' = r
  BY <1>14, <1>15 DEF Used, Unused, Chain
<1>17. ToSet(u) \cap ToSet(r) = {}  BY <1>2, <1>14, <1>15
<1>18. Chained'  BY <1>14, <1>15, <1>16, <1>17 DEF Chained
<1>19. freeHead' \in Pointer /\ usedHead' \in Pointer  BY <1>1, <1>7, <1>8
<1>20. Backed(Used, prev)' /\ Backed(Unused, prev)'
  BY <1>14, <1>15, <1>16 DEF Backed
<1>21. QED
  BY <1>3, <1>7, <1>10, <1>11, <1>14, <1>15, <1>16, <1>18, <1>19, <1>20 DEF u, r, e, m

\* Where in a sorted list a deadline belongs.
LEMMA DeadlinePosition ==
  ASSUME NEW n \in Nat, NEW f, \A j \in 1..n : f[j] \in Nat, NEW d \in Nat,
         \A i, j \in 1..n : i < j => f[i] <= f[j]
  PROVE  \E t \in 1..n+1 : \A j \in 1..n : /\ j < t => f[j] <= d
                                           /\ j >= t => f[j] > d
<1> DEFINE Later == {j \in 1..n+1 : j = n+1 \/ f[j] > d}
<1>1. Later \subseteq Nat /\ n+1 \in Later  OBVIOUS
<1> HIDE DEF Later
<1>2. PICK t \in Later : \A m \in Later : t <= m
  BY <1>1, LeastCounterexample
<1> USE DEF Later
<1>3. t \in 1..n+1  OBVIOUS
<1>4. ASSUME NEW j \in 1..n
      PROVE  (j < t => f[j] <= d) /\ (j >= t => f[j] > d)
  <2>1. j < t => j \notin Later  BY <1>2, <1>3
  <2>2. j < t => f[j] <= d  BY <2>1
  <2>3. CASE j = t  BY <2>2, <2>3
  <2>4. CASE j > t
    <3>1. t \in 1..n /\ t # n+1  BY <2>4, <1>3
    <3>2. f[t] > d /\ f[t] <= f[j]  BY <3>1, <2>4
    <3>3. QED  BY <3>1, <3>2, <2>2
  <2>5. QED  BY <2>2, <2>3, <2>4, <1>3
<1>5. QED  BY <1>3, <1>4

LEMMA AllocTimerStep ==
  ASSUME IInv, NEW period \in Period, AllocTimer(period)
  PROVE  /\ IInv' /\ Used' = Append(Used, Unused[Len(Unused)])
         /\ Unused' = RemoveAt(Unused, Len(Unused))
         /\ Len(Unused) \in 1..Len(Unused)
         /\ \E n \in Nat : /\ n = Len(Used)
                          /\ \E t \in 1..n+1 : Sorting(n+1, t, 1)'
<1> DEFINE e == Unused[Len(Unused)]
           d == tick + period
<1>0. PICK n : n = Len(Used)  OBVIOUS
<1>1. /\ TypeOK /\ Chained /\ Owned /\ Ordered /\ NoneUsed
      /\ doing = "nothing" /\ ~stopped /\ doing' = "sort" /\ pEntry' = usedHead' /\ x' = 0
      /\ UNCHANGED <<begun, blocks, tick, stopped>>
  BY DEF IInv, Data, AllocTimer
<1>2. Backed(Used, prev) /\ Backed(Unused, prev)  BY <1>1 DEF Owned
<1>3. /\ Len(Unused) \in 1..Len(Unused) /\ e \in Entry /\ e \in ToSet(Unused)
      /\ Used' = Append(Used, e) /\ Unused' = RemoveAt(Unused, Len(Unused))
      /\ Chained' /\ Backed(Used, prev)' /\ Backed(Unused, prev)'
      /\ Len(Used') = n+1 /\ Used'[n+1] = e
      /\ \A j \in 1..n : Used'[j] = Used[j]
      /\ ToSet(Used') = ToSet(Used) \cup {e}
      /\ ToSet(Unused') = ToSet(Unused) \ {e}
      /\ freeHead' \in Pointer /\ usedHead' \in Pointer
      /\ next' \in [Entry -> Pointer] /\ prev' \in [Entry -> Pointer]
      /\ expiry' = [expiry EXCEPT ![e] = d]
  BY <1>0, <1>1, <1>2, AllocMoves
<1>4. /\ n \in Nat /\ \A j \in 1..n : Used[j] \in Entry /\ Used[j] \in ToSet(Used)
      /\ ToSet(Used) \cap ToSet(Unused) = {}
  <2>1. /\ Used \in Seq(Entry) /\ IsInjective(Used) /\ Linked(Used, usedHead, next, PNULL)
        /\ ToSet(Used) \cap ToSet(Unused) = {}
    BY <1>1 DEF Chained
  <2>2. QED  BY <1>0, <2>1, ListFacts
<1>5. tick \in Nat /\ d \in Nat /\ expiry \in [Entry -> Nat]
  BY <1>1, TimerLinksAssumption DEF TypeOK
<1> HIDE DEF e, d
<1>6. /\ expiry' \in [Entry -> Nat] /\ expiry'[e] = d
      /\ \A j \in 1..n : expiry'[Used[j]] = expiry[Used[j]] /\ expiry[Used[j]] \in Nat
  <2>1. \A j \in 1..n : Used[j] # e  BY <1>3, <1>4
  <2>2. QED  BY <2>1, <1>3, <1>4, <1>5
<1>7. PICK t \in 1..n+1 : \A j \in 1..n : /\ j < t => expiry[Used[j]] <= d
                                          /\ j >= t => expiry[Used[j]] > d
  <2> DEFINE f == [j \in 1..n |-> expiry[Used[j]]]
  <2>1. \A j \in 1..n : f[j] = expiry[Used[j]] /\ f[j] \in Nat  BY <1>6
  <2>2. \A i, j \in 1..n : i < j => f[i] <= f[j]  BY <1>0, <1>1, <2>1 DEF Ordered
  <2> HIDE DEF f
  <2>3. \E t \in 1..n+1 : \A j \in 1..n : (j < t => f[j] <= d) /\ (j >= t => f[j] > d)
    BY <1>4, <1>5, <2>1, <2>2, DeadlinePosition
  <2>4. QED  BY <2>1, <2>3
<1>8. Sorting(n+1, t, 1)'
  <2>1. \A j \in 1..n+1 : j \in 1..n \/ j = n+1  BY <1>4
  <2>2. pEntry' = At(Used', 1, PNULL)  BY <1>1, <1>3 DEF Chained, Linked
  <2>3. x' <= (Len(Used')-(n+1))*Len(Used') + (1-1)
    <3>1. Len(Used')-(n+1) = 0  BY <1>3, <1>4
    <3>2. 0 * Len(Used') = 0  BY <1>3, <1>4
    <3>3. QED  BY <3>1, <3>2, <1>1
  <2>4. 1 >= n+1 => t = n+1  BY <1>4
  <2>5. /\ \A j \in 1..Len(Used') : j < t => expiry'[Used'[j]] <= expiry'[Used'[n+1]]
        /\ \A j \in 1..Len(Used') : j >= t /\ j # n+1 =>
             expiry'[Used'[j]] > expiry'[Used'[n+1]]
    <3>1. \A j \in 1..Len(Used') : j \in 1..n \/ j = n+1  BY <1>3, <2>1
    <3>2. ~(n+1 < t)  BY <1>4
    <3>3. \A j \in 1..n : expiry'[Used'[j]] = expiry[Used[j]]  BY <1>3, <1>6
    <3>4. expiry'[Used'[n+1]] = d  BY <1>3, <1>6
    <3>5. \A j \in Nat : j < t \/ j >= t  BY <1>4
    <3>6. ASSUME NEW j \in 1..n
          PROVE  /\ j < t => expiry'[Used'[j]] <= expiry'[Used'[n+1]]
                 /\ j >= t => expiry'[Used'[j]] > expiry'[Used'[n+1]]
      <4>1. expiry'[Used'[j]] = expiry[Used[j]]  BY <3>3
      <4>2. (j < t => expiry[Used[j]] <= d) /\ (j >= t => expiry[Used[j]] > d)
        BY <1>4, <1>5, <1>6, <1>7
      <4>3. QED  BY <4>1, <4>2, <3>4
    <3> DEFINE g == expiry'
               w == Used'
    <3> HIDE DEF g, w
    <3>7. /\ \A j \in 1..n : (j < t => g[w[j]] <= g[w[n+1]]) /\ (j >= t => g[w[j]] > g[w[n+1]])
          /\ \A j \in 1..Len(w) : j \in 1..n \/ j = n+1
      BY <3>1, <3>6 DEF g, w
    <3>8. /\ \A j \in 1..Len(w) : j < t => g[w[j]] <= g[w[n+1]]
          /\ \A j \in 1..Len(w) : j >= t /\ j # n+1 => g[w[j]] > g[w[n+1]]
      BY <3>7, <3>2
    <3>9. QED  BY <3>8 DEF g, w
  <2>6. \A i, j \in 1..Len(Used') :
          i < j /\ i # n+1 /\ j # n+1 => expiry'[Used'[i]] <= expiry'[Used'[j]]
    <3>1. \A i, j \in 1..n : i < j => expiry[Used[i]] <= expiry[Used[j]]
      BY <1>0, <1>1 DEF Ordered
    <3>2. \A j \in 1..Len(Used') : j # n+1 => j \in 1..n  BY <1>3, <2>1
    <3>3. \A j \in 1..n : expiry'[Used'[j]] = expiry[Used[j]]  BY <1>3, <1>6
    <3> DEFINE g == expiry'
               w == Used'
    <3> HIDE DEF g, w
    <3>4. /\ \A i, j \in 1..n : i < j => g[w[i]] <= g[w[j]]
          /\ \A j \in 1..Len(w) : j # n+1 => j \in 1..n
      BY <3>1, <3>2, <3>3 DEF g, w
    <3>5. \A i, j \in 1..Len(w) : i < j /\ i # n+1 /\ j # n+1 => g[w[i]] <= g[w[j]]
      BY <3>4
    <3>6. QED  BY <3>5 DEF g, w
  <2>7. QED  BY <2>2, <2>3, <2>4, <2>5, <2>6 DEF Sorting
<1>9. Here'
  <2>1. n+1 \in 1..Len(Used)' /\ 1 \in 1..Len(Used)'+1  BY <1>3, <1>4
  <2>2. \E p \in 1..Len(Used)' : \E u \in 1..p, q \in 1..Len(Used)'+1 : Sorting(p, u, q)'
    BY <2>1, <1>8
  <2>3. QED  BY <2>2, <1>1 DEF Here
<1>10. TypeOK'
  <2>1. 0 \in 0..SortBound
    <3>1. MAX_NUM_TIMERS * MAX_NUM_TIMERS \in Nat  BY Bound
    <3>2. QED  BY <3>1 DEF SortBound
  <2>2. usedHead' \in Pointer /\ freeHead' \in Pointer  BY <1>3
  <2>3. QED  BY <1>1, <1>3, <1>6, <2>1, <2>2 DEF TypeOK
<1>11. Owned'
  <2>1. blocks' = ToSet(Used') \cup ToSet(Unused')
    BY <1>1, <1>3 DEF Owned
  <2>2. blocks' = Entry  BY <1>1 DEF Owned
  <2>3. QED  BY <2>1, <2>2, <1>1, <1>3 DEF Owned
<1>12. Ordered' /\ NoneUsed'  BY <1>1 DEF Ordered, NoneUsed
<1>13. IInv'  BY <1>3, <1>9, <1>10, <1>11, <1>12 DEF IInv, Data
<1>14. QED  BY <1>0, <1>13, <1>3, <1>4, <1>8 DEF e

(***************************************************************************)
(* sortUsedListUnprotected.                                                *)
(***************************************************************************)
\* The list with the entries at q and q+1 exchanged.
Exchanged(s, q) ==
  [j \in 1..Len(s) |-> IF j = q THEN s[q+1] ELSE IF j = q+1 THEN s[q] ELSE s[j]]

LEMMA ExchangedList ==
  ASSUME NEW s \in Seq(Entry), IsInjective(s), NEW q \in 1..Len(s), q+1 \in 1..Len(s)
  PROVE  /\ Exchanged(s, q) \in Seq(Entry) /\ IsInjective(Exchanged(s, q))
         /\ Len(Exchanged(s, q)) = Len(s) /\ ToSet(Exchanged(s, q)) = ToSet(s)
         /\ \A j \in 1..Len(s) : Exchanged(s, q)[j] =
              IF j = q THEN s[q+1] ELSE IF j = q+1 THEN s[q] ELSE s[j]
<1> DEFINE r == Exchanged(s, q)
           n == Len(s)
<1>1. /\ n \in Nat /\ DOMAIN s = 1..n /\ \A j \in 1..n : s[j] \in Entry
  OBVIOUS
<1>2. \A j, k \in 1..n : s[j] = s[k] => j = k  BY <1>1 DEF IsInjective
<1>3. \A j \in 1..n : r[j] = IF j = q THEN s[q+1] ELSE IF j = q+1 THEN s[q] ELSE s[j]
  BY DEF Exchanged
<1>4. r \in Seq(Entry) /\ Len(r) = n /\ DOMAIN r = 1..n
  BY <1>1 DEF Exchanged
<1> HIDE DEF r, n
<1>5. q \in 1..n /\ q+1 \in 1..n /\ q # q+1  BY DEF n
<1>6. \A j, k \in 1..n : r[j] = r[k] => j = k
  BY <1>2, <1>3, <1>5
<1>7. IsInjective(r)  BY <1>4, <1>6 DEF IsInjective
<1>8. ToSet(r) = ToSet(s)
  <2>1. ASSUME NEW g  PROVE g \in ToSet(r) <=> \E j \in 1..n : g = r[j]
    BY <1>4 DEF ToSet
  <2>2. ASSUME NEW g  PROVE g \in ToSet(s) <=> \E j \in 1..n : g = s[j]
    BY <1>1 DEF ToSet
  <2>3. \A j \in 1..n : \E k \in 1..n : r[j] = s[k]  BY <1>3, <1>5
  <2>4. \A j \in 1..n : \E k \in 1..n : s[j] = r[k]
    <3> TAKE j \in 1..n
    <3>1. r[q] = s[q+1] /\ r[q+1] = s[q]  BY <1>3, <1>5
    <3>2. j # q /\ j # q+1 => r[j] = s[j]  BY <1>3
    <3>3. QED  BY <3>1, <3>2, <1>5
  <2>5. QED  BY <2>1, <2>2, <2>3, <2>4
<1>9. QED  BY <1>3, <1>4, <1>7, <1>8 DEF r, n

\* The pointers of the entries of s after the four assignments that let the
\* entries at q and q+1 change places, from what they were (n, b).
Rewired(s, q, n, b, nAfter, bAfter) ==
  \A g \in ToSet(s) :
    /\ nAfter[g] = IF g = s[q+1] THEN s[q] ELSE IF g = s[q] THEN n[s[q+1]]
                   ELSE IF g = b[s[q]] THEN s[q+1] ELSE n[g]
    /\ bAfter[g] = IF g = s[q] THEN s[q+1] ELSE IF g = s[q+1] THEN b[s[q]]
                   ELSE IF g = n[s[q+1]] THEN s[q] ELSE b[g]

\* The links once two neighbours have changed places.
LEMMA ExchangedLinks ==
  ASSUME NEW s \in Seq(Entry), IsInjective(s), NEW head, NEW n,
         Linked(s, head, n, PNULL), NEW b, Backed(s, b),
         NEW q \in 1..Len(s), q+1 \in 1..Len(s),
         NEW headAfter, NEW nAfter, NEW bAfter,
         headAfter = IF s[q] = head THEN s[q+1] ELSE head,
         Rewired(s, q, n, b, nAfter, bAfter)
  PROVE  /\ Linked(Exchanged(s, q), headAfter, nAfter, PNULL)
         /\ Backed(Exchanged(s, q), bAfter)
<1> DEFINE r == Exchanged(s, q)
<1>1. /\ Len(r) = Len(s)
      /\ \A j \in 1..Len(s) :
           r[j] = IF j = q THEN s[q+1] ELSE IF j = q+1 THEN s[q] ELSE s[j]
  BY ExchangedList
<1> HIDE DEF r
<1>2. /\ Len(s) \in Nat /\ head = s[1] /\ 1 \in 1..Len(s)
      /\ \A j \in 1..Len(s) : s[j] \in ToSet(s) /\ s[j] # PNULL
      /\ \A j, k \in 1..Len(s) : s[j] = s[k] => j = k
      /\ \A j \in 1..Len(s) : n[s[j]] = At(s, j+1, PNULL)
  BY ListFacts
<1>3. \A j \in 1..Len(s) : b[s[j]] = IF j = 1 THEN PNULL ELSE s[j-1]
  BY DEF Backed
<1>4. \A j \in 1..Len(s) : s[j] = b[s[q]] <=> j+1 = q
  <2> TAKE j \in 1..Len(s)
  <2>1. CASE q = 1  BY <2>1, <1>2, <1>3
  <2>2. CASE q # 1
    <3>1. q-1 \in 1..Len(s)  BY <2>2, <1>2
    <3>2. s[j] = s[q-1] <=> j = q-1  BY <3>1, <1>2
    <3>3. QED  BY <2>2, <3>2, <1>2, <1>3
  <2>3. QED  BY <2>1, <2>2
<1>5. \A j \in 1..Len(s) : s[j] = n[s[q+1]] <=> j = q+2
  <2>1. n[s[q+1]] = At(s, (q+1)+1, PNULL) /\ (q+1)+1 = q+2  BY <1>2
  <2>2. QED  BY <2>1, <1>2 DEF At
<1>6. ASSUME NEW j \in 1..Len(s)
      PROVE  /\ nAfter[s[j]] = IF j = q+1 THEN s[q] ELSE IF j = q THEN n[s[q+1]]
                               ELSE IF j+1 = q THEN s[q+1] ELSE n[s[j]]
             /\ bAfter[s[j]] = IF j = q THEN s[q+1] ELSE IF j = q+1 THEN b[s[q]]
                               ELSE IF j = q+2 THEN s[q] ELSE b[s[j]]
  <2>1. (s[j] = s[q+1] <=> j = q+1) /\ (s[j] = s[q] <=> j = q)  BY <1>2
  <2>2. s[j] \in ToSet(s)  BY <1>2
  <2>3. /\ nAfter[s[j]] = IF s[j] = s[q+1] THEN s[q] ELSE IF s[j] = s[q] THEN n[s[q+1]]
                          ELSE IF s[j] = b[s[q]] THEN s[q+1] ELSE n[s[j]]
        /\ bAfter[s[j]] = IF s[j] = s[q] THEN s[q+1] ELSE IF s[j] = s[q+1] THEN b[s[q]]
                          ELSE IF s[j] = n[s[q+1]] THEN s[q] ELSE b[s[j]]
    BY <2>2 DEF Rewired
  <2>4. (s[j] = b[s[q]] <=> j+1 = q) /\ (s[j] = n[s[q+1]] <=> j = q+2)  BY <1>4, <1>5
  <2>5. QED  BY <2>1, <2>3, <2>4
<1>7. headAfter = At(r, 1, PNULL)
  <2>1. s[q] = head <=> q = 1  BY <1>2
  <2>2. r[1] = IF q = 1 THEN s[q+1] ELSE s[1]  BY <1>1, <1>2
  <2>3. QED  BY <2>1, <2>2, <1>1, <1>2 DEF At
<1>8. ASSUME NEW j \in 1..Len(s)
      PROVE  nAfter[r[j]] = At(r, j+1, PNULL)
  <2>1. CASE j = q
    <3>1. r[j] = s[q+1] /\ r[j+1] = s[q] /\ j+1 \in 1..Len(r)  BY <2>1, <1>1
    <3>2. nAfter[s[q+1]] = s[q]  BY <1>6
    <3>3. QED  BY <3>1, <3>2 DEF At
  <2>2. CASE j = q+1
    <3>1. r[j] = s[q] /\ j+1 = q+2 /\ (q+1)+1 = q+2  BY <2>2, <1>1
    <3>2. nAfter[s[q]] = n[s[q+1]] /\ n[s[q+1]] = At(s, q+2, PNULL)  BY <1>2, <1>6, <3>1
    <3>3. q+2 \in 1..Len(s) => r[q+2] = s[q+2]  BY <1>1
    <3>4. QED  BY <3>1, <3>2, <3>3, <1>1 DEF At
  <2>3. CASE j+1 = q
    <3>1. r[j] = s[j] /\ r[j+1] = s[q+1] /\ j+1 \in 1..Len(r)  BY <2>3, <1>1
    <3>2. nAfter[s[j]] = s[q+1]  BY <2>3, <1>6
    <3>3. QED  BY <3>1, <3>2 DEF At
  <2>4. CASE j # q /\ j # q+1 /\ j+1 # q
    <3>1. r[j] = s[j] /\ (j+1 \in 1..Len(s) => r[j+1] = s[j+1])  BY <2>4, <1>1, <1>2
    <3>2. nAfter[s[j]] = At(s, j+1, PNULL)  BY <2>4, <1>2, <1>6
    <3>3. QED  BY <3>1, <3>2, <1>1 DEF At
  <2>5. QED  BY <2>1, <2>2, <2>3, <2>4
<1>9. ASSUME NEW j \in 1..Len(s)
      PROVE  bAfter[r[j]] = IF j = 1 THEN PNULL ELSE r[j-1]
  <2>0. /\ q \in Nat /\ j \in Nat /\ (j # 1 => j-1 \in 1..Len(s)) /\ q # q+1
        /\ bAfter[s[q+1]] = b[s[q]] /\ bAfter[s[q]] = s[q+1]
    BY <1>2, <1>6
  <2>1. CASE j = q
    <3>1. r[j] = s[q+1] /\ (j # 1 => r[j-1] = s[j-1])  BY <2>0, <2>1, <1>1
    <3>2. b[s[q]] = IF q = 1 THEN PNULL ELSE s[q-1]  BY <1>3
    <3>3. QED  BY <3>1, <3>2, <2>0, <2>1
  <2>2. CASE j = q+1
    <3>1. r[j] = s[q] /\ j # 1 /\ j-1 = q /\ r[q] = s[q+1]  BY <2>0, <2>2, <1>1
    <3>2. QED  BY <3>1, <2>0
  <2>3. CASE j = q+2
    <3>1. r[j] = s[j] /\ j # 1 /\ j-1 = q+1 /\ r[q+1] = s[q]  BY <2>0, <2>3, <1>1
    <3>2. bAfter[s[j]] = s[q]
      <4>1. j # q /\ j # q+1  BY <2>0, <2>3
      <4>2. QED  BY <4>1, <2>3, <1>6
    <3>3. QED  BY <3>1, <3>2
  <2>4. CASE j # q /\ j # q+1 /\ j # q+2
    <3>1. r[j] = s[j] /\ (j # 1 => r[j-1] = s[j-1])
      <4>1. j-1 # q /\ j-1 # q+1  BY <2>0, <2>4
      <4>2. QED  BY <4>1, <2>0, <2>4, <1>1
    <3>2. bAfter[s[j]] = b[s[j]]  BY <2>4, <1>6
    <3>3. QED  BY <3>1, <3>2, <1>3
  <2>5. QED  BY <2>1, <2>2, <2>3, <2>4
<1>10. QED  BY <1>1, <1>7, <1>8, <1>9 DEF Linked, Backed, r

\* The entries at q and q+1 of the used list change places; the free list is
\* left alone.
LEMMA SwapMoves ==
  ASSUME TypeOK, Chained, Backed(Used, prev), Backed(Unused, prev),
         NEW q \in 1..Len(Used), next[Used[q]] # PNULL,
         Swap(Used[q], next[Used[q]]), freeHead' = freeHead
  PROVE  /\ q+1 \in 1..Len(Used) /\ next[Used[q]] = Used[q+1]
         /\ Used' = Exchanged(Used, q) /\ Unused' = Unused
         /\ Chained' /\ Backed(Used, prev)' /\ Backed(Unused, prev)'
         /\ usedHead' \in Pointer
         /\ next' \in [Entry -> Pointer] /\ prev' \in [Entry -> Pointer]
<1> DEFINE this == Used[q]
           behind == Used[q+1]
           r == Exchanged(Used, q)
<1>1. /\ next \in [Entry -> Pointer] /\ prev \in [Entry -> Pointer]
      /\ usedHead \in Pointer
  BY DEF TypeOK
<1>2. /\ Used \in Seq(Entry) /\ IsInjective(Used) /\ Linked(Used, usedHead, next, PNULL)
      /\ Unused \in Seq(Entry) /\ IsInjective(Unused)
      /\ Linked(Unused, freeHead, next, PNULL)
      /\ ToSet(Used) \cap ToSet(Unused) = {}
  BY DEF Chained
<1>3. /\ Len(Used) \in Nat /\ usedHead = Used[1]
      /\ \A j \in 1..Len(Used) : Used[j] \in Entry /\ Used[j] # PNULL
      /\ \A j, k \in 1..Len(Used) : Used[j] = Used[k] => j = k
      /\ \A j \in 1..Len(Used) : next[Used[j]] = At(Used, j+1, PNULL)
      /\ ToSet(Used) = {Used[j] : j \in 1..Len(Used)}
  <2>1. Used # <<>>  BY EmptySeq
  <2>2. QED  BY <1>2, <2>1, ListFacts
<1>4. q+1 \in 1..Len(Used) /\ next[Used[q]] = Used[q+1]
  BY <1>3 DEF At
<1>5. /\ this \in Entry /\ behind \in Entry /\ this # PNULL /\ behind # PNULL
      /\ this # behind /\ this \in ToSet(Used) /\ behind \in ToSet(Used)
  BY <1>3, <1>4
<1>6. prev[this] \in ToSet(Used) \cup {PNULL}
  <2>1. prev[this] = IF q = 1 THEN PNULL ELSE Used[q-1]  BY DEF Backed
  <2>2. q # 1 => q-1 \in 1..Len(Used)  BY <1>3
  <2>3. QED  BY <2>1, <2>2, <1>3
<1>7. next[behind] \in ToSet(Used) \cup {PNULL}
  BY <1>3, <1>4 DEF At
<1>8. /\ next' = [Put(next, prev[this], behind) EXCEPT ![this] = next[behind],
                                                      ![behind] = this]
      /\ prev' = [Put(prev, next[behind], this) EXCEPT ![behind] = prev[this],
                                                      ![this] = behind]
      /\ usedHead' = IF this = usedHead THEN behind ELSE usedHead
  BY <1>4 DEF Swap
<1>9. \A g \in ToSet(Used) : g \in Entry /\ g # PNULL  BY <1>3
<1> HIDE DEF this, behind
<1>10. /\ prev[this] \in Pointer /\ next[behind] \in Pointer /\ PNULL \in Pointer
       /\ this \in Pointer /\ behind \in Pointer
  BY <1>5, <1>6, <1>7, <1>9 DEF Pointer
<1>11. /\ next' \in [Entry -> Pointer]
       /\ \A g \in Entry :
            next'[g] = IF g = behind THEN this ELSE IF g = this THEN next[behind]
                       ELSE IF g = prev[this] THEN behind ELSE next[g]
  <2>1. /\ Put(next, prev[this], behind) \in [Entry -> Pointer]
        /\ \A g \in Entry : Put(next, prev[this], behind)[g] =
             IF g = prev[this] THEN behind ELSE next[g]
    BY <1>1, <1>10, TimerLinksAssumption DEF Put, Pointer
  <2>2. QED  BY <2>1, <1>5, <1>8, <1>10
<1>12. /\ prev' \in [Entry -> Pointer]
       /\ \A g \in Entry :
            prev'[g] = IF g = this THEN behind ELSE IF g = behind THEN prev[this]
                       ELSE IF g = next[behind] THEN this ELSE prev[g]
  <2>1. /\ Put(prev, next[behind], this) \in [Entry -> Pointer]
        /\ \A g \in Entry : Put(prev, next[behind], this)[g] =
             IF g = next[behind] THEN this ELSE prev[g]
    BY <1>1, <1>10, TimerLinksAssumption DEF Put, Pointer
  <2>2. QED  BY <2>1, <1>5, <1>8, <1>10
<1>13. /\ r \in Seq(Entry) /\ IsInjective(r) /\ ToSet(r) = ToSet(Used)
       /\ Linked(r, usedHead', next', PNULL) /\ Backed(r, prev')
       /\ Following(usedHead', next', PNULL, MAX_NUM_TIMERS) = r
  <2>1. r \in Seq(Entry) /\ IsInjective(r) /\ ToSet(r) = ToSet(Used)
    BY <1>2, <1>4, ExchangedList
  <2>2. usedHead' = IF Used[q] = usedHead THEN Used[q+1] ELSE usedHead
    BY <1>8 DEF this, behind
  <2>3. Rewired(Used, q, next, prev, next', prev')
    BY <1>9, <1>11, <1>12 DEF this, behind, Rewired
  <2>4. Linked(Exchanged(Used, q), usedHead', next', PNULL) /\ Backed(Exchanged(Used, q), prev')
    BY <1>2, <1>4, <2>2, <2>3, ExchangedLinks
  <2>5. Linked(r, usedHead', next', PNULL) /\ Backed(r, prev')  BY <2>4
  <2> HIDE DEF r
  <2>6. Following(usedHead', next', PNULL, MAX_NUM_TIMERS) = r
    BY <2>1, <2>5, ChainIs
  <2>7. QED  BY <2>1, <2>5, <2>6
<1> HIDE DEF r
<1>14. /\ \A j \in 1..Len(Unused) : Unused[j] \in Entry /\ Unused[j] \in ToSet(Unused)
       /\ \A j \in 1..Len(Unused) : next'[Unused[j]] = next[Unused[j]]
                                    /\ prev'[Unused[j]] = prev[Unused[j]]
  <2>1. \A j \in 1..Len(Unused) : Unused[j] \in Entry /\ Unused[j] \in ToSet(Unused)
    BY <1>2, ListFacts
  <2>2. \A g \in Entry \cap ToSet(Unused) :
          g # this /\ g # behind /\ g # prev[this] /\ g # next[behind]
    BY <1>2, <1>5, <1>6, <1>7, TimerLinksAssumption
  <2>3. QED  BY <2>1, <2>2, <1>11, <1>12
<1>15. /\ Linked(Unused, freeHead', next', PNULL)
       /\ Following(freeHead', next', PNULL, MAX_NUM_TIMERS) = Unused
  <2> DEFINE u == Unused
  <2>1. Linked(u, freeHead', next', PNULL)  BY <1>2, <1>14, SameLinks
  <2>2. u \in Seq(Entry) /\ IsInjective(u)  BY <1>2
  <2> HIDE DEF u
  <2>3. Following(freeHead', next', PNULL, MAX_NUM_TIMERS) = u  BY <2>1, <2>2, ChainIs
  <2>4. QED  BY <2>1, <2>3 DEF u
<1>16. Used' = r /\ Unused' = Unused
  BY <1>13, <1>15 DEF Used, Unused, Chain
<1>17. Backed(Unused, prev)'
  <2>1. \A j \in 1..Len(Unused) : prev'[Unused[j]] = IF j = 1 THEN PNULL ELSE Unused[j-1]
    BY <1>14 DEF Backed
  <2>2. QED  BY <2>1, <1>16 DEF Backed
<1>18. Backed(Used, prev)'  BY <1>13, <1>16 DEF Backed
<1>19. Chained'  BY <1>2, <1>13, <1>15, <1>16 DEF Chained
<1>20. usedHead' \in Pointer  BY <1>1, <1>8, <1>10
<1>21. QED
  BY <1>4, <1>11, <1>12, <1>16, <1>17, <1>18, <1>19, <1>20 DEF r

\* The counts that bound the sort.
LEMMA SortCounts ==
  ASSUME NEW n \in Nat, NEW p \in 1..n
  PROVE  /\ (n-(p-1))*n = (n-p)*n + n
         /\ (n-p)*n <= n*n - n
         /\ \A m \in Nat : n <= m => n*n <= m*m
<1>1. ASSUME NEW a \in Int, NEW b \in Int  PROVE (a+1)*b = a*b + b  OBVIOUS
<1>2. (n-(p-1))*n = (n-p)*n + n
  <2>1. n-(p-1) = (n-p)+1 /\ n-p \in Int /\ n \in Int  OBVIOUS
  <2>2. ((n-p)+1)*n = (n-p)*n + n  BY <1>1, <2>1
  <2>3. QED  BY <2>1, <2>2
<1>3. (n-p)*n <= n*n - n
  <2>1. ASSUME NEW a \in Nat, NEW b \in Nat, a+1 <= b  PROVE a*b <= b*b - b
    <3>1. (a+1)*b = a*b + b  BY <1>1
    <3>2. (a+1)*b <= b*b
      <4>1. PICK c \in Nat : b = (a+1)+c
        <5>1. b-(a+1) \in Nat /\ b = (a+1)+(b-(a+1))  BY <2>1
        <5>2. QED  BY <5>1
      <4>2. b*b = (a+1)*b + c*b  BY <4>1
      <4>3. c*b \in Nat /\ (a+1)*b \in Nat  OBVIOUS
      <4>4. QED  BY <4>2, <4>3
    <3>3. a*b \in Nat /\ b*b \in Nat  OBVIOUS
    <3>4. QED  BY <3>1, <3>2, <3>3
  <2>2. n-p \in Nat /\ (n-p)+1 <= n  OBVIOUS
  <2>3. QED  BY <2>1, <2>2
<1>4. ASSUME NEW m \in Nat, n <= m  PROVE n*n <= m*m
  <2>1. PICK c \in Nat : m = n+c
    <3>1. m-n \in Nat /\ m = n+(m-n)  BY <1>4
    <3>2. QED  BY <3>1
  <2>2. m*m = n*n + (n*c + (c*n + c*c))  BY <2>1
  <2>3. n*c \in Nat /\ c*n \in Nat /\ c*c \in Nat /\ n*n \in Nat  OBVIOUS
  <2>4. QED  BY <2>2, <2>3
<1>5. QED  BY <1>2, <1>3, <1>4

\* Where the loop can find two entries that are out of order: only where the
\* new entry is behind one that is due later.
LEMMA OutOfOrderHere ==
  ASSUME TypeOK, Chained, NEW p \in 1..Len(Used), NEW t \in 1..p,
         NEW q \in 1..Len(Used), Sorting(p, t, q)
  PROVE  /\ OutOfOrder(Used[q]) => q+1 = p /\ t <= q
         /\ ~OutOfOrder(Used[q]) => (q+1 >= p => t = p)
<1> DEFINE due(i) == expiry[Used[i]]
<1>1. /\ Len(Used) \in Nat
      /\ \A i \in 1..Len(Used) : Used[i] \in Entry /\ Used[i] # PNULL
      /\ next[Used[q]] = At(Used, q+1, PNULL)
  BY ListFacts DEF Chained
<1>2. \A i \in 1..Len(Used) : due(i) \in Nat  BY <1>1 DEF TypeOK
<1>3. /\ q >= p => t = p
      /\ \A j \in 1..Len(Used) : j < t => due(j) <= due(p)
      /\ \A j \in 1..Len(Used) : j >= t /\ j # p => due(j) > due(p)
      /\ \A i, j \in 1..Len(Used) : i < j /\ i # p /\ j # p => due(i) <= due(j)
  BY DEF Sorting
<1>4. OutOfOrder(Used[q]) <=> q+1 \in 1..Len(Used) /\ due(q) > due(q+1)
  BY <1>1 DEF OutOfOrder, At
<1> HIDE DEF due
<1>5. CASE q+1 \in 1..Len(Used) /\ due(q) > due(q+1)
  <2>1. q = p \/ q+1 = p
    <3>1. q < q+1  BY <1>1
    <3>2. q # p /\ q+1 # p => due(q) <= due(q+1)  BY <1>3, <1>5, <3>1
    <3>3. QED  BY <1>2, <1>5, <3>2
  <2>2. q # p
    <3>1. q = p => t = p /\ q+1 >= t /\ q+1 # p  BY <1>1, <1>3
    <3>2. q = p => due(q+1) > due(p)  BY <3>1, <1>3, <1>5
    <3>3. QED  BY <1>2, <1>5, <3>2
  <2>3. t <= q
    <3>1. q < t => due(q) <= due(p)  BY <1>3
    <3>2. QED  BY <3>1, <2>1, <2>2, <1>1, <1>2, <1>5
  <2>4. QED  BY <1>4, <1>5, <2>1, <2>2, <2>3
<1>6. CASE ~(q+1 \in 1..Len(Used) /\ due(q) > due(q+1))
  <2>1. ASSUME q+1 = p  PROVE t = p
    <3>1. due(q) <= due(p) /\ q # p  BY <1>1, <1>2, <1>6, <2>1
    <3>2. q >= t => due(q) > due(p)  BY <1>3, <3>1
    <3>3. QED  BY <3>1, <3>2, <2>1, <1>1, <1>2
  <2>2. q+1 >= p => q >= p \/ q+1 = p  BY <1>1
  <2>3. QED  BY <2>1, <2>2, <1>3, <1>4, <1>6
<1>7. QED  BY <1>5, <1>6

LEMMA SortUsedListStep ==
  ASSUME IInv, SortUsedList
  PROVE  /\ IInv' /\ Unused' = Unused /\ Len(Used)' = Len(Used)
         /\ \E p \in 1..Len(Used), q \in 1..Len(Used) : \E t \in 1..p :
              /\ Sorting(p, t, q)
              /\ \/ Used' = Used /\ Sorting(p, t, q+1)'
                 \/ /\ q+1 = p /\ t <= q /\ Used' = Exchanged(Used, q)
                    /\ Sorting(q, t, 1)'
<1>1. /\ TypeOK /\ Chained /\ Owned /\ NoneUsed /\ doing = "sort"
      /\ pEntry # PNULL /\ x < SortBound /\ x' = x+1
      /\ UNCHANGED <<doing, begun, blocks, freeHead, expiry, tick, stopped>>
  BY DEF IInv, Data, SortUsedList
<1>2. Backed(Used, prev) /\ Backed(Unused, prev)  BY <1>1 DEF Owned
<1>3. PICK n \in Nat : n = Len(Used)  BY <1>1 DEF Chained
<1>p. PICK p \in 1..n : \E t \in 1..p, q \in 1..n+1 : Sorting(p, t, q)
  <2>1. \E p \in 1..Len(Used) : \E t \in 1..p, q \in 1..Len(Used)+1 : Sorting(p, t, q)
    BY <1>1 DEF IInv, Here
  <2>2. QED  BY <2>1, <1>3
<1>4. PICK t \in 1..p, q \in 1..n+1 : Sorting(p, t, q)  BY <1>p
<1>5. q \in 1..n /\ pEntry = Used[q]
  BY <1>1, <1>3, <1>4 DEF Sorting, At
<1>6. /\ usedHead = Used[1] /\ next[Used[q]] = At(Used, q+1, PNULL)
      /\ \A i \in 1..n : Used[i] \in Entry
      /\ next[Used[q]] # PNULL => q+1 \in 1..n /\ next[Used[q]] = Used[q+1]
  <2>1. Used # <<>>  BY <1>3, <1>5, EmptySeq
  <2>2. usedHead = Used[1] /\ next[Used[q]] = At(Used, q+1, PNULL)
        /\ \A i \in 1..n : Used[i] \in Entry
    BY <1>1, <1>3, <1>5, <2>1, ListFacts DEF Chained
  <2>3. QED  BY <2>2, <1>3 DEF At
<1>7. \A i \in 1..n : expiry[Used[i]] \in Nat  BY <1>1, <1>6 DEF TypeOK
<1>8. /\ OutOfOrder(Used[q]) => q+1 = p /\ t <= q
      /\ ~OutOfOrder(Used[q]) => (q+1 >= p => t = p)
  BY <1>1, <1>3, <1>4, <1>5, OutOfOrderHere
<1>9. x' \in 0..SortBound
  <2>1. SortBound \in Nat
    <3>1. MAX_NUM_TIMERS * MAX_NUM_TIMERS \in Nat  BY Bound
    <3>2. QED  BY <3>1 DEF SortBound
  <2>2. QED  BY <2>1, <1>1 DEF TypeOK
<1>10. CASE OutOfOrder(Used[q])
  <2>1. next[Used[q]] # PNULL /\ Swap(Used[q], next[Used[q]]) /\ pEntry' = usedHead'
    BY <1>5, <1>10 DEF OutOfOrder, SortUsedList
  <2>2. /\ q+1 \in 1..n /\ Used' = Exchanged(Used, q) /\ Unused' = Unused
        /\ Chained' /\ Backed(Used, prev)' /\ Backed(Unused, prev)'
        /\ usedHead' \in Pointer
        /\ next' \in [Entry -> Pointer] /\ prev' \in [Entry -> Pointer]
    BY <1>1, <1>2, <1>3, <1>5, <2>1, SwapMoves
  <2>3. /\ Len(Used') = n /\ ToSet(Used') = ToSet(Used)
        /\ \A j \in 1..n : Used'[j] = IF j = q THEN Used[q+1]
                                      ELSE IF j = q+1 THEN Used[q] ELSE Used[j]
    BY <1>1, <1>3, <1>5, <2>2, ExchangedList DEF Chained
  <2>4. q+1 = p /\ t <= q  BY <1>8, <1>10
  <2>5. Sorting(q, t, 1)'
    <3>1. pEntry' = At(Used', 1, PNULL)  BY <2>1, <2>2 DEF Chained, Linked
    <3>2. x' <= (Len(Used')-q)*Len(Used') + (1-1)
      <4>1. x <= (n-p)*n + (q-1)  BY <1>3, <1>4 DEF Sorting
      <4>2. (n-(p-1))*n = (n-p)*n + n  BY SortCounts
      <4>3. (n-p)*n \in Int /\ p-1 = q /\ q-1+1 <= n /\ x \in Nat
        BY <1>1, <1>5, <2>4 DEF TypeOK
      <4>4. x+1 <= (n-q)*n  BY <4>1, <4>2, <4>3, <1>5
      <4>5. (n-q)*n + (1-1) = (n-q)*n
        <5>1. (n-q)*n \in Int  BY <1>5
        <5>2. QED  BY <5>1
      <4>6. QED  BY <4>4, <4>5, <2>3, <1>1
    <3>3. 1 >= q => t = q  BY <1>5, <2>4
    <3> DEFINE due(i) == expiry[Used[i]]
               after(i) == expiry'[Used'[i]]
    <3>4. /\ \A j \in 1..n : j < t => due(j) <= due(p)
          /\ \A j \in 1..n : j >= t /\ j # p => due(j) > due(p)
          /\ \A i, j \in 1..n : i < j /\ i # p /\ j # p => due(i) <= due(j)
      BY <1>3, <1>4 DEF Sorting
    <3>5. \A j \in 1..n : after(j) = IF j = q THEN due(p) ELSE IF j = p THEN due(q) ELSE due(j)
      <4> TAKE j \in 1..n
      <4>1. Used'[j] = IF j = q THEN Used[p] ELSE IF j = p THEN Used[q] ELSE Used[j]
        BY <2>3, <2>4
      <4>2. expiry' = expiry  BY <1>1
      <4>3. QED  BY <4>1, <4>2
    <3>6. \A i \in 1..n : due(i) \in Nat  BY <1>7
    <3> HIDE DEF due, after
    <3>7. q \in 1..n /\ p = q+1 /\ t <= q /\ p \in 1..n  BY <1>5, <2>4
    <3>8. /\ \A j \in 1..n : j < t => after(j) <= after(q)
          /\ \A j \in 1..n : j >= t /\ j # q => after(j) > after(q)
      BY <3>4, <3>5, <3>7
    <3>9. \A i, j \in 1..n : i < j /\ i # q /\ j # q => after(i) <= after(j)
      <4> TAKE i, j \in 1..n
      <4> HAVE i < j /\ i # q /\ j # q
      <4>1. CASE i = p
        <5>1. after(i) = due(q) /\ after(j) = due(j) /\ q < j /\ j # p  BY <4>1, <3>5, <3>7
        <5>2. q # p /\ due(q) <= due(j)  BY <5>1, <3>4, <3>7
        <5>3. QED  BY <5>1, <5>2
      <4>2. CASE j = p
        <5>1. after(j) = due(q) /\ after(i) = due(i) /\ i < q /\ i # p  BY <4>2, <3>5, <3>7
        <5>2. q # p /\ due(i) <= due(q)  BY <5>1, <3>4, <3>7
        <5>3. QED  BY <5>1, <5>2
      <4>3. CASE i # p /\ j # p
        <5>1. after(j) = due(j) /\ after(i) = due(i)  BY <4>3, <3>5
        <5>2. due(i) <= due(j)  BY <4>3, <3>4
        <5>3. QED  BY <5>1, <5>2
      <4>4. QED  BY <4>1, <4>2, <4>3
    <3>10. /\ \A j \in 1..n : j < t => expiry'[Used'[j]] <= expiry'[Used'[q]]
           /\ \A j \in 1..n : j >= t /\ j # q => expiry'[Used'[j]] > expiry'[Used'[q]]
           /\ \A i, j \in 1..n : i < j /\ i # q /\ j # q =>
                expiry'[Used'[i]] <= expiry'[Used'[j]]
      BY <3>8, <3>9 DEF after
    <3>11. QED  BY <3>1, <3>2, <3>3, <3>10, <2>3 DEF Sorting
  <2>6. Here'
    <3>1. q \in 1..Len(Used)' /\ t \in 1..q /\ 1 \in 1..Len(Used)'+1  BY <1>5, <2>3, <2>4
    <3>2. QED  BY <1>1, <2>5, <3>1 DEF Here
  <2>7. TypeOK'  BY <1>1, <1>9, <2>1, <2>2 DEF TypeOK
  <2>8. Owned' /\ Ordered' /\ NoneUsed'
    <3>1. NoneUsed'
      <4>1. Used # <<>>  BY <1>3, <1>5, EmptySeq
      <4>2. QED  BY <1>1, <4>1 DEF NoneUsed
    <3>2. QED  BY <1>1, <2>2, <2>3, <3>1 DEF Owned, Ordered
  <2>9. IInv'  BY <2>2, <2>6, <2>7, <2>8 DEF IInv, Data
  <2>10. QED  BY <1>3, <1>4, <1>5, <2>2, <2>3, <2>4, <2>5, <2>9
<1>11. CASE ~OutOfOrder(Used[q])
  <2>1. pEntry' = next[Used[q]] /\ UNCHANGED linkVars
    BY <1>1, <1>5, <1>11 DEF SortUsedList, linkVars
  <2>2. /\ Used' = Used /\ Unused' = Unused /\ Chained'
        /\ Backed(Used, prev)' /\ Backed(Unused, prev)'
    BY <1>1, <1>2, <2>1, SameLists
  <2>3. Sorting(p, t, q+1)'
    <3>1. pEntry' = At(Used', q+1, PNULL)  BY <1>6, <2>1, <2>2
    <3>2. x' <= (Len(Used')-p)*Len(Used') + ((q+1)-1)
      <4>1. x <= (n-p)*n + (q-1)  BY <1>3, <1>4 DEF Sorting
      <4>2. (n-p)*n \in Int /\ x \in Nat  BY <1>1 DEF TypeOK
      <4>3. x+1 <= (n-p)*n + ((q+1)-1)  BY <4>1, <4>2
      <4>4. QED  BY <4>3, <1>1, <1>3, <2>2
    <3>3. q+1 >= p => t = p  BY <1>8, <1>11
    <3>4. QED  BY <1>1, <1>4, <2>2, <3>1, <3>2, <3>3 DEF Sorting
  <2>4. Here'
    <3>1. p \in 1..Len(Used)' /\ q+1 \in 1..Len(Used)'+1  BY <1>3, <1>5, <2>2
    <3>2. QED  BY <1>1, <2>3, <3>1 DEF Here
  <2>5. TypeOK'
    <3>1. pEntry' \in Pointer  BY <1>1, <1>5, <1>6, <2>1 DEF TypeOK
    <3>2. QED  BY <1>1, <1>9, <2>1, <3>1 DEF TypeOK, linkVars
  <2>6. Owned' /\ Ordered' /\ NoneUsed'
    BY <1>1, <2>2 DEF Owned, Ordered, NoneUsed
  <2>7. IInv'  BY <2>2, <2>4, <2>5, <2>6 DEF IInv, Data
  <2>8. QED  BY <1>3, <1>4, <1>5, <2>2, <2>3, <2>7
<1>12. QED  BY <1>10, <1>11

\* When the loop ends, whichever way it ends, the new entry is where it is to be.
LEMMA SortEndsStep ==
  ASSUME IInv, SortEnds
  PROVE  /\ IInv' /\ Used' = Used /\ Unused' = Unused
         /\ \E p \in 1..Len(Used) : Sorting(p, p, Len(Used)+1)
<1>1. /\ TypeOK /\ Chained /\ Owned /\ NoneUsed /\ doing = "sort" /\ doing' = "nothing"
      /\ pEntry' = PNULL /\ x' = 0 /\ UNCHANGED linkVars
      /\ UNCHANGED <<begun, blocks, tick, stopped>>
      /\ pEntry = PNULL \/ x >= SortBound
  BY DEF IInv, Data, SortEnds
<1>2. /\ Used' = Used /\ Unused' = Unused /\ Chained'
      /\ Backed(Used, prev)' <=> Backed(Used, prev)
      /\ Backed(Unused, prev)' <=> Backed(Unused, prev)
  BY <1>1, SameLists
<1>3. PICK n \in Nat : n = Len(Used)  BY <1>1 DEF Chained
<1>p. PICK p \in 1..n : \E t \in 1..p, q \in 1..n+1 : Sorting(p, t, q)
  <2>1. \E p \in 1..Len(Used) : \E t \in 1..p, q \in 1..Len(Used)+1 : Sorting(p, t, q)
    BY <1>1 DEF IInv, Here
  <2>2. QED  BY <2>1, <1>3
<1>4. PICK t \in 1..p, q \in 1..n+1 : Sorting(p, t, q)  BY <1>p
<1>5. q = n+1
  <2>1. CASE pEntry = PNULL
    <3>1. \A i \in 1..n : Used[i] # PNULL  BY <1>1, <1>3, ListFacts DEF Chained
    <3>2. pEntry = At(Used, q, PNULL)  BY <1>4 DEF Sorting
    <3>3. q \notin 1..n  BY <1>3, <2>1, <3>1, <3>2 DEF At
    <3>4. QED  BY <3>3
  <2>2. CASE x >= SortBound
    <3>1. x <= (n-p)*n + (q-1) /\ x \in Nat  BY <1>1, <1>3, <1>4 DEF Sorting, TypeOK
    <3>2. (n-p)*n <= n*n - n  BY SortCounts
    <3>3. n*n <= SortBound
      <4>1. MAX_NUM_TIMERS \in Nat /\ n <= MAX_NUM_TIMERS  BY <1>1, <1>3, Bound DEF Chained
      <4>2. n*n <= MAX_NUM_TIMERS * MAX_NUM_TIMERS  BY <4>1, SortCounts
      <4>3. QED  BY <4>2 DEF SortBound
    <3>4. /\ (n-p)*n \in Int /\ n*n \in Nat /\ q-1 \in Nat /\ q-1 <= n
          /\ SortBound \in Nat
      <4>1. MAX_NUM_TIMERS * MAX_NUM_TIMERS \in Nat  BY Bound
      <4>2. QED  BY <4>1 DEF SortBound
    <3> DEFINE y == (n-p)*n
               z == n*n
    <3> HIDE DEF y, z
    <3>5. x <= y + (q-1) /\ y <= z - n /\ z <= SortBound /\ y \in Int /\ z \in Nat
      BY <3>1, <3>2, <3>3, <3>4 DEF y, z
    <3>6. q-1 >= n  BY <2>2, <3>1, <3>4, <3>5
    <3>7. QED  BY <3>6
  <2>3. QED  BY <1>1, <2>1, <2>2
<1>6. t = p  BY <1>4, <1>5 DEF Sorting
<1>7. Ordered'
  <2> SUFFICES ASSUME NEW i \in 1..n, NEW j \in 1..n, i < j
               PROVE  expiry[Used[i]] <= expiry[Used[j]]
    BY <1>1, <1>2, <1>3 DEF Ordered, linkVars
  <2>1. expiry[Used[i]] \in Nat /\ expiry[Used[j]] \in Nat /\ expiry[Used[p]] \in Nat
    BY <1>1, <1>3, ListFacts DEF Chained, TypeOK
  <2>2. /\ i < p => expiry[Used[i]] <= expiry[Used[p]]
        /\ j > p => expiry[Used[j]] > expiry[Used[p]]
        /\ i # p /\ j # p => expiry[Used[i]] <= expiry[Used[j]]
    BY <1>3, <1>4, <1>6 DEF Sorting
  <2>3. CASE i = p  BY <2>1, <2>2, <2>3
  <2>4. CASE j = p  BY <2>1, <2>2, <2>4
  <2>5. CASE i # p /\ j # p  BY <2>2, <2>5
  <2>6. QED  BY <2>3, <2>4, <2>5
<1>8. TypeOK'
  <2>1. 0 \in 0..SortBound /\ PNULL \in Pointer
    <3>1. MAX_NUM_TIMERS * MAX_NUM_TIMERS \in Nat  BY Bound
    <3>2. QED  BY <3>1 DEF SortBound, Pointer
  <2>2. QED  BY <1>1, <2>1 DEF TypeOK, linkVars
<1>9. Owned' /\ NoneUsed'  BY <1>1, <1>2 DEF Owned, NoneUsed
<1>10. Here'  BY <1>1 DEF Here
<1>11. IInv'  BY <1>2, <1>7, <1>8, <1>9, <1>10 DEF IInv, Data
<1>12. QED  BY <1>2, <1>3, <1>4, <1>5, <1>6, <1>11

(***************************************************************************)
(* actionTimerStop and tickHandlerCallback.                                *)
(***************************************************************************)
\* A list that an entry is taken out of is still in order.
LEMMA FreeKeepsOrder ==
  ASSUME NEW n \in Nat, NEW i \in 1..n, NEW s, NEW r, NEW f, NEW g,
         \A j, k \in 1..n : j < k => f[s[j]] <= f[s[k]],
         \A j \in 1..n-1 : r[j] = IF j < i THEN s[j] ELSE s[j+1],
         \A j \in 1..n : j # i => g[s[j]] = f[s[j]]
  PROVE  \A j, k \in 1..n-1 : j < k => g[r[j]] <= g[r[k]]
<1> DEFINE from(j) == IF j < i THEN j ELSE j+1
<1>1. \A j \in 1..n-1 : from(j) \in 1..n /\ from(j) # i /\ r[j] = s[from(j)]
  OBVIOUS
<1>2. \A j, k \in 1..n-1 : j < k => from(j) < from(k)  OBVIOUS
<1> HIDE DEF from
<1>3. \A j \in 1..n-1 : g[r[j]] = f[s[from(j)]]  BY <1>1
<1>4. QED  BY <1>1, <1>2, <1>3

\* The entry at position i of the used list becomes the last of the free list.
Takes(i) ==
  /\ Used' = RemoveAt(Used, i) /\ Unused' = Append(Unused, Used[i])
  /\ expiry' = [expiry EXCEPT ![Used[i]] = 0]

\* What freeing does to the lists, whoever frees.
LEMMA FreeStep ==
  ASSUME TypeOK, Data, doing \in {"nothing", "walk", "freeAll"},
         NEW i \in 1..Len(Used), FreeTimerUnprotected(Used[i]),
         UNCHANGED <<doing, blocks, stopped>>
  PROVE  /\ Data' /\ Takes(i) /\ Used' = RemoveAt(Used, i)
         /\ Len(Used)' = Len(Used)-1
         /\ \A j \in 1..Len(Used)-1 : Used'[j] = IF j < i THEN Used[j] ELSE Used[j+1]
         /\ \A j \in 1..Len(Used) : j # i => expiry'[Used[j]] = expiry[Used[j]]
         /\ freeHead' \in Pointer /\ usedHead' \in Pointer
         /\ next' \in [Entry -> Pointer] /\ prev' \in [Entry -> Pointer]
         /\ expiry' \in [Entry -> Nat]
<1>1. /\ Chained /\ Owned /\ Ordered /\ NoneUsed
      /\ Backed(Used, prev) /\ Backed(Unused, prev)
  BY DEF Data, Owned
<1>2. PICK n \in Nat : n = Len(Used)  BY <1>1 DEF Chained
<1>3. /\ Used' = RemoveAt(Used, i) /\ Unused' = Append(Unused, Used[i])
      /\ Chained' /\ Backed(Used, prev)' /\ Backed(Unused, prev)'
      /\ Len(Used)' = Len(Used)-1
      /\ \A j \in 1..Len(Used)-1 : Used'[j] = IF j < i THEN Used[j] ELSE Used[j+1]
      /\ ToSet(Used') = ToSet(Used) \ {Used[i]}
      /\ ToSet(Unused') = ToSet(Unused) \cup {Used[i]}
      /\ freeHead' \in Pointer /\ usedHead' \in Pointer
      /\ next' \in [Entry -> Pointer] /\ prev' \in [Entry -> Pointer]
      /\ expiry' \in [Entry -> Nat]
      /\ expiry' = [expiry EXCEPT ![Used[i]] = 0]
  BY <1>1, FreeMoves
<1>4. /\ \A j \in 1..n : Used[j] \in Entry
      /\ \A j, k \in 1..n : Used[j] = Used[k] => j = k
      /\ ToSet(Used) = {Used[j] : j \in 1..Len(Used)}
      /\ Used # <<>>
  <2>1. Used # <<>>  BY <1>2, EmptySeq
  <2>2. QED  BY <1>1, <1>2, <2>1, ListFacts DEF Chained
<1>5. Owned'
  <2>1. Used[i] \in ToSet(Used)  BY <1>4
  <2>2. blocks' = ToSet(Used') \cup ToSet(Unused') /\ blocks' = Entry
    BY <1>1, <1>3, <2>1 DEF Owned
  <2>3. QED  BY <1>3, <2>2 DEF Owned
<1>6. \A j \in 1..n : j # i => expiry'[Used[j]] = expiry[Used[j]]
  <2>1. expiry \in [Entry -> Nat]  BY DEF TypeOK
  <2>2. QED  BY <2>1, <1>2, <1>3, <1>4
<1>7. Ordered'
  <2>1. \A j, k \in 1..n : j < k => expiry[Used[j]] <= expiry[Used[k]]
    BY <1>1, <1>2 DEF Ordered
  <2>2. \A j \in 1..n-1 : Used'[j] = IF j < i THEN Used[j] ELSE Used[j+1]
    BY <1>2, <1>3
  <2> DEFINE w == Used'
             g == expiry'
  <2> HIDE DEF w, g
  <2>3. \A j, k \in 1..n-1 : j < k => g[w[j]] <= g[w[k]]
    BY <1>2, <1>6, <2>1, <2>2, FreeKeepsOrder DEF w, g
  <2>4. QED  BY <2>3, <1>2, <1>3 DEF w, g, Ordered
<1>8. NoneUsed'
  <2>1. doing' \notin {"create", "destroy", "gone"} /\ stopped' = stopped  OBVIOUS
  <2>2. ~stopped  BY <1>1, <1>4 DEF NoneUsed
  <2>3. QED  BY <2>1, <2>2 DEF NoneUsed
<1>9. Data'  BY <1>3, <1>5, <1>7, <1>8 DEF Data
<1>10. QED  BY <1>2, <1>3, <1>6, <1>9 DEF Takes

LEMMA ActionTimerStopStep ==
  ASSUME IInv, NEW e \in Entry, ActionTimerStop(e)
  PROVE  IInv' /\ \E i \in 1..Len(Used) : Takes(i)
<1>1. /\ TypeOK /\ Data /\ Here
      /\ doing = "nothing" /\ e \in ToSet(Used) /\ FreeTimerUnprotected(e)
      /\ UNCHANGED <<doing, pEntry, x, begun, blocks, tick, stopped>>
  BY DEF IInv, ActionTimerStop, Used, loopVars
<1>2. PICK i \in 1..Len(Used) : e = Used[i]
  <2>1. ToSet(Used) = {Used[i] : i \in 1..Len(Used)}
    BY <1>1, ListFacts DEF Data, Chained
  <2>2. QED  BY <1>1, <2>1
<1>3. /\ Data' /\ Takes(i)
      /\ freeHead' \in Pointer /\ usedHead' \in Pointer
      /\ next' \in [Entry -> Pointer] /\ prev' \in [Entry -> Pointer]
      /\ expiry' \in [Entry -> Nat]
  BY <1>1, <1>2, FreeStep
<1>4. TypeOK'  BY <1>1, <1>3 DEF TypeOK
<1>5. Here'  BY <1>1 DEF Here
<1>6. IInv'  BY <1>3, <1>4, <1>5 DEF IInv
<1>7. QED  BY <1>3, <1>6

\* A loop that is bounded by the number of timers stays within the bound of x.
LEMMA CountBound ==
  ASSUME x \in 0..SortBound, x < MAX_NUM_TIMERS
  PROVE  x+1 \in 0..SortBound
<1>1. ASSUME NEW m \in Nat, m > 0  PROVE m <= m*m
  <2>1. m-1 \in Nat /\ m = (m-1)+1  BY <1>1
  <2>2. m*m = (m-1)*m + m  BY <2>1
  <2>3. (m-1)*m \in Nat  BY <2>1
  <2>4. QED  BY <2>2, <2>3
<1>2. MAX_NUM_TIMERS \in Nat /\ MAX_NUM_TIMERS * MAX_NUM_TIMERS \in Nat  BY Bound
<1>3. MAX_NUM_TIMERS > 0  BY <1>2 DEF SortBound
<1>4. MAX_NUM_TIMERS <= MAX_NUM_TIMERS * MAX_NUM_TIMERS  BY <1>1, <1>2, <1>3
<1>5. QED  BY <1>2, <1>4 DEF SortBound

LEMMA TickStartsStep ==
  ASSUME IInv, TickStarts
  PROVE  IInv' /\ Used' = Used /\ Unused' = Unused
<1>1. /\ TypeOK /\ Data /\ doing = "nothing" /\ doing' = "walk"
      /\ pEntry' = usedHead /\ x' = 0 /\ begun' = tick
      /\ UNCHANGED linkVars /\ UNCHANGED <<blocks, tick, stopped>>
  BY DEF IInv, TickStarts
<1>2. /\ Used' = Used /\ Unused' = Unused /\ Chained'
      /\ Backed(Used, prev)' <=> Backed(Used, prev)
      /\ Backed(Unused, prev)' <=> Backed(Unused, prev)
  BY <1>1, SameLists DEF Data
<1>3. TypeOK'
  <2>1. 0 \in 0..SortBound
    <3>1. MAX_NUM_TIMERS * MAX_NUM_TIMERS \in Nat  BY Bound
    <3>2. QED  BY <3>1 DEF SortBound
  <2>2. QED  BY <1>1, <2>1 DEF TypeOK, linkVars
<1>4. Owned' /\ Ordered' /\ NoneUsed'
  BY <1>1, <1>2 DEF Data, Owned, Ordered, NoneUsed, linkVars
<1>5. Here'
  <2>1. PICK n \in Nat : n = Len(Used) /\ n <= MAX_NUM_TIMERS
    BY <1>1, Bound DEF Data, Chained
  <2>2. pEntry' = At(Used', 1, PNULL)
    BY <1>1, <1>2 DEF Data, Chained, Linked
  <2>3. x' + (Len(Used')+1-1) <= MAX_NUM_TIMERS  BY <1>1, <1>2, <2>1
  <2>4. \A i \in 1..1-1 : expiry'[Used'[i]] > begun'  OBVIOUS
  <2>5. Walking(1)'  BY <2>2, <2>3, <2>4 DEF Walking
  <2>6. 1 \in 1..Len(Used)'+1 /\ begun' <= tick'  BY <1>1, <1>2, <2>1 DEF TypeOK
  <2>7. QED  BY <1>1, <2>5, <2>6 DEF Here
<1>6. QED  BY <1>2, <1>3, <1>4, <1>5 DEF IInv, Data

LEMMA TickWalkStep ==
  ASSUME IInv, TickWalk
  PROVE  /\ IInv'
         /\ \/ Used' = Used /\ Unused' = Unused /\ expiry' = expiry
            \/ \E i \in 1..Len(Used) : expiry[Used[i]] <= tick /\ Takes(i)
<1>1. /\ TypeOK /\ Data /\ doing = "walk" /\ begun <= tick
      /\ pEntry # PNULL /\ x < MAX_NUM_TIMERS /\ x' = x+1
      /\ pEntry' = next[pEntry]
      /\ UNCHANGED <<doing, begun, blocks, tick, stopped>>
  BY DEF IInv, Here, TickWalk
<1>2. PICK n \in Nat : n = Len(Used)  BY <1>1 DEF Data, Chained
<1>3. PICK k \in 1..n+1 : Walking(k)
  <2>1. \E k \in 1..Len(Used)+1 : Walking(k)  BY <1>1 DEF IInv, Here
  <2>2. QED  BY <2>1, <1>2
<1>4. k \in 1..n /\ pEntry = Used[k]
  BY <1>1, <1>2, <1>3 DEF Walking, At
<1>5. /\ pEntry' = At(Used, k+1, PNULL) /\ pEntry' \in Pointer
      /\ \A i \in 1..n : expiry[Used[i]] \in Nat
  <2>1. /\ next[Used[k]] = At(Used, k+1, PNULL)
        /\ \A i \in 1..n : Used[i] \in Entry
    BY <1>1, <1>2, <1>4, ListFacts DEF Data, Chained
  <2>2. QED  BY <2>1, <1>1, <1>4 DEF TypeOK
<1>6. x' \in 0..SortBound /\ x \in Nat  BY <1>1, CountBound DEF TypeOK
<1>7. /\ x + (n+1-k) <= MAX_NUM_TIMERS /\ MAX_NUM_TIMERS \in Nat
      /\ \A i \in 1..k-1 : expiry[Used[i]] > begun
  BY <1>2, <1>3, Bound DEF Walking
<1>8. begun \in Nat /\ tick \in Nat  BY <1>1 DEF TypeOK
<1>9. CASE expiry[pEntry] <= tick
  <2>1. FreeTimerUnprotected(Used[k])
    BY <1>4, <1>5, <1>8, <1>9 DEF TickWalk
  <2>2. /\ Data' /\ Takes(k)
        /\ Len(Used') = n-1
        /\ \A j \in 1..n-1 : Used'[j] = IF j < k THEN Used[j] ELSE Used[j+1]
        /\ \A j \in 1..n : j # k => expiry'[Used[j]] = expiry[Used[j]]
        /\ freeHead' \in Pointer /\ usedHead' \in Pointer
        /\ next' \in [Entry -> Pointer] /\ prev' \in [Entry -> Pointer]
        /\ expiry' \in [Entry -> Nat]
    BY <1>1, <1>2, <1>4, <2>1, FreeStep
  <2>3. TypeOK'  BY <1>1, <1>5, <1>6, <2>2 DEF TypeOK
  <2>4. Walking(k)'
    <3>1. pEntry' = At(Used', k, PNULL)
      <4>1. k \in 1..Len(Used') <=> k+1 \in 1..n  BY <1>4, <2>2
      <4>2. k \in 1..n-1 => Used'[k] = Used[k+1]  BY <2>2
      <4>3. QED  BY <4>1, <4>2, <1>2, <1>4, <1>5, <2>2 DEF At
    <3>2. x' + (Len(Used')+1-k) <= MAX_NUM_TIMERS  BY <1>1, <1>4, <1>6, <1>7, <2>2
    <3>3. ASSUME NEW i \in 1..k-1  PROVE expiry'[Used'[i]] > begun'
      <4>1. i \in 1..n-1 /\ i < k /\ i # k /\ i \in 1..n  BY <1>4
      <4>2. Used'[i] = Used[i] /\ expiry'[Used[i]] = expiry[Used[i]]  BY <4>1, <2>2
      <4>3. QED  BY <4>2, <1>1, <1>7
    <3>4. QED  BY <3>1, <3>2, <3>3 DEF Walking
  <2>5. Here'
    <3>1. k \in 1..Len(Used)'+1 /\ begun' <= tick'  BY <1>1, <1>4, <2>2
    <3>2. QED  BY <1>1, <2>4, <3>1 DEF Here
  <2>6. QED  BY <1>2, <1>4, <1>9, <2>2, <2>3, <2>5 DEF IInv
<1>10. CASE ~(expiry[pEntry] <= tick)
  <2>1. UNCHANGED linkVars  BY <1>10 DEF TickWalk
  <2>2. /\ Used' = Used /\ Unused' = Unused /\ Chained'
        /\ Backed(Used, prev)' <=> Backed(Used, prev)
        /\ Backed(Unused, prev)' <=> Backed(Unused, prev)
    BY <1>1, <2>1, SameLists DEF Data
  <2>3. TypeOK'  BY <1>1, <1>5, <1>6, <2>1 DEF TypeOK, linkVars
  <2>4. Owned' /\ Ordered' /\ NoneUsed'
    BY <1>1, <2>1, <2>2 DEF Data, Owned, Ordered, NoneUsed, linkVars
  <2>5. Walking(k+1)'
    <3>1. pEntry' = At(Used', k+1, PNULL)  BY <1>5, <2>2
    <3>2. x' + (Len(Used')+1-(k+1)) <= MAX_NUM_TIMERS
      BY <1>1, <1>2, <1>4, <1>6, <1>7, <2>2
    <3>3. ASSUME NEW i \in 1..(k+1)-1  PROVE expiry'[Used'[i]] > begun'
      <4>1. Used' = Used /\ expiry' = expiry /\ begun' = begun
        BY <1>1, <2>1, <2>2 DEF linkVars
      <4>2. expiry[Used[k]] > begun  BY <1>1, <1>4, <1>5, <1>8, <1>10
      <4>3. i = k \/ i \in 1..k-1  OBVIOUS
      <4>4. QED  BY <4>1, <4>2, <4>3, <1>7
    <3>4. QED  BY <3>1, <3>2, <3>3 DEF Walking
  <2>6. Here'
    <3>1. k+1 \in 1..Len(Used)'+1 /\ begun' <= tick'  BY <1>1, <1>2, <1>4, <2>2
    <3>2. QED  BY <1>1, <2>5, <3>1 DEF Here
  <2>7. QED  BY <2>1, <2>2, <2>3, <2>4, <2>6 DEF IInv, Data, linkVars
<1>11. QED  BY <1>9, <1>10

\* When the loop ends, whichever way it ends, it has seen every entry.
LEMMA WalkDone ==
  ASSUME IInv, doing = "walk", pEntry = PNULL \/ x >= MAX_NUM_TIMERS
  PROVE  \A e \in ToSet(Used) : expiry[e] > begun
<1>1. TypeOK /\ Chained  BY DEF IInv, Data
<1>2. PICK k \in 1..Len(Used)+1 : Walking(k)  BY DEF IInv, Here
<1>3. /\ Len(Used) \in Nat /\ \A i \in 1..Len(Used) : Used[i] # PNULL
      /\ ToSet(Used) = {Used[i] : i \in 1..Len(Used)}
  BY <1>1, ListFacts DEF Chained
<1>4. k = Len(Used)+1
  <2>1. /\ pEntry = At(Used, k, PNULL) /\ x + (Len(Used)+1-k) <= MAX_NUM_TIMERS
        /\ x \in Nat /\ MAX_NUM_TIMERS \in Nat
    BY <1>1, <1>2, Bound DEF Walking, TypeOK
  <2>2. CASE pEntry = PNULL
    <3>1. k \notin 1..Len(Used)  BY <2>1, <2>2, <1>3 DEF At
    <3>2. QED  BY <3>1, <1>3
  <2>3. CASE x >= MAX_NUM_TIMERS  BY <2>1, <2>3, <1>3
  <2>4. QED  BY <2>2, <2>3
<1>5. \A i \in 1..Len(Used) : expiry[Used[i]] > begun
  BY <1>2, <1>3, <1>4 DEF Walking
<1>6. QED  BY <1>3, <1>5

LEMMA TickEndsStep ==
  ASSUME IInv, TickEnds
  PROVE  /\ IInv' /\ Used' = Used /\ Unused' = Unused
         /\ \A e \in ToSet(Used) : expiry[e] > begun
<1>1. /\ TypeOK /\ Data /\ doing = "walk" /\ doing' = "nothing"
      /\ pEntry = PNULL \/ x >= MAX_NUM_TIMERS
      /\ pEntry' = PNULL /\ x' = 0 /\ begun' = 0
      /\ UNCHANGED linkVars /\ UNCHANGED <<blocks, tick, stopped>>
  BY DEF IInv, TickEnds
<1>2. /\ Used' = Used /\ Unused' = Unused /\ Chained'
      /\ Backed(Used, prev)' <=> Backed(Used, prev)
      /\ Backed(Unused, prev)' <=> Backed(Unused, prev)
  BY <1>1, SameLists DEF Data
<1>3. TypeOK'
  <2>1. 0 \in 0..SortBound /\ PNULL \in Pointer /\ 0 \in 0..MaxTick
    <3>1. MAX_NUM_TIMERS * MAX_NUM_TIMERS \in Nat  BY Bound
    <3>2. QED  BY <3>1, TimerLinksAssumption DEF SortBound, Pointer
  <2>2. QED  BY <1>1, <2>1 DEF TypeOK, linkVars
<1>4. Owned' /\ Ordered' /\ NoneUsed'
  BY <1>1, <1>2 DEF Data, Owned, Ordered, NoneUsed, linkVars
<1>5. Here'  BY <1>1 DEF Here
<1>6. \A e \in ToSet(Used) : expiry[e] > begun  BY <1>1, WalkDone
<1>7. QED  BY <1>2, <1>3, <1>4, <1>5, <1>6 DEF IInv, Data

\* The counter goes up while a loop is under way.
LEMMA TickStep ==
  ASSUME IInv, Tick
  PROVE  IInv' /\ Used' = Used /\ Unused' = Unused
<1>1. /\ TypeOK /\ Data /\ Here /\ tick' = tick+1 /\ tick < MaxTick
      /\ UNCHANGED linkVars /\ UNCHANGED <<doing, pEntry, x, begun, blocks, stopped>>
  BY DEF IInv, Tick, loopVars
<1>2. /\ Used' = Used /\ Unused' = Unused /\ Chained'
      /\ Backed(Used, prev)' <=> Backed(Used, prev)
      /\ Backed(Unused, prev)' <=> Backed(Unused, prev)
  BY <1>1, SameLists DEF Data
<1>3. TypeOK'
  <2>1. tick' \in 0..MaxTick  BY <1>1, TimerLinksAssumption DEF TypeOK
  <2>2. QED  BY <1>1, <2>1 DEF TypeOK, linkVars
<1>4. Owned' /\ Ordered' /\ NoneUsed'
  BY <1>1, <1>2 DEF Data, Owned, Ordered, NoneUsed, linkVars
<1>5. Here'
  <2>1. /\ \A p, t, q : Sorting(p, t, q)' <=> Sorting(p, t, q)
        /\ \A k : Walking(k)' <=> Walking(k)
        /\ \A k : Destroying(k)' <=> Destroying(k)
    BY <1>1, <1>2 DEF Sorting, Walking, Destroying, linkVars
  <2>2. begun <= tick => begun' <= tick'  BY <1>1 DEF TypeOK
  <2>3. Len(Used)' = Len(Used) /\ Len(Unused)' = Len(Unused)  BY <1>2
  <2>4. doing = "sort" =>
          \E p \in 1..Len(Used)' : \E t \in 1..p, q \in 1..Len(Used)'+1 : Sorting(p, t, q)'
    BY <1>1, <2>1, <2>3 DEF Here
  <2>5. doing = "walk" => \E k \in 1..Len(Used)'+1 : Walking(k)'
    BY <1>1, <2>1, <2>3 DEF Here
  <2>6. doing = "destroy" => \E k \in 1..Len(Unused)'+1 : Destroying(k)'
    BY <1>1, <2>1, <2>3 DEF Here
  <2>7. QED  BY <1>1, <1>2, <2>2, <2>4, <2>5, <2>6 DEF Here, linkVars
<1>6. QED  BY <1>2, <1>3, <1>4, <1>5 DEF IInv, Data

(***************************************************************************)
(* actionTimerServerStop.                                                  *)
(***************************************************************************)
LEMMA FreeAllStartsStep ==
  ASSUME IInv, FreeAllStarts
  PROVE  IInv' /\ Used' = Used /\ Unused' = Unused
<1>1. /\ TypeOK /\ Data /\ doing = "nothing" /\ doing' = "freeAll"
      /\ pEntry' = usedHead /\ x' = 0
      /\ UNCHANGED linkVars /\ UNCHANGED <<begun, blocks, tick, stopped>>
  BY DEF IInv, FreeAllStarts
<1>2. /\ Used' = Used /\ Unused' = Unused /\ Chained'
      /\ Backed(Used, prev)' <=> Backed(Used, prev)
      /\ Backed(Unused, prev)' <=> Backed(Unused, prev)
  BY <1>1, SameLists DEF Data
<1>3. TypeOK'
  <2>1. 0 \in 0..SortBound
    <3>1. MAX_NUM_TIMERS * MAX_NUM_TIMERS \in Nat  BY Bound
    <3>2. QED  BY <3>1 DEF SortBound
  <2>2. QED  BY <1>1, <2>1 DEF TypeOK, linkVars
<1>4. Owned' /\ Ordered' /\ NoneUsed'
  BY <1>1, <1>2 DEF Data, Owned, Ordered, NoneUsed, linkVars
<1>5. Here'
  <2>1. PICK n \in Nat : n = Len(Used) /\ n <= MAX_NUM_TIMERS
    BY <1>1, Bound DEF Data, Chained
  <2>2. pEntry' = usedHead' /\ x' + Len(Used)' <= MAX_NUM_TIMERS
    BY <1>1, <1>2, <2>1 DEF linkVars
  <2>3. QED  BY <1>1, <2>2 DEF Here
<1>6. QED  BY <1>2, <1>3, <1>4, <1>5 DEF IInv, Data

LEMMA FreeAllTimersStep ==
  ASSUME IInv, FreeAllTimers
  PROVE  IInv' /\ \E i \in 1..Len(Used) : Takes(i)
<1>1. /\ TypeOK /\ Data /\ doing = "freeAll" /\ pEntry = usedHead
      /\ x + Len(Used) <= MAX_NUM_TIMERS
      /\ pEntry # PNULL /\ x < MAX_NUM_TIMERS /\ x' = x+1
      /\ pEntry' = next[pEntry] /\ FreeTimerUnprotected(pEntry)
      /\ UNCHANGED <<doing, begun, blocks, tick, stopped>>
  BY DEF IInv, Here, FreeAllTimers
<1>2. PICK n \in Nat : n = Len(Used)  BY <1>1 DEF Data, Chained
<1>3. 1 \in 1..n /\ pEntry = Used[1] /\ Used[1] \in Entry
  <2>1. /\ Used = <<>> <=> usedHead = PNULL
        /\ Used # <<>> => usedHead = Used[1] /\ 1 \in 1..Len(Used)
        /\ \A i \in 1..Len(Used) : Used[i] \in Entry
    BY <1>1, ListFacts DEF Data, Chained
  <2>2. QED  BY <1>1, <1>2, <2>1
<1>4. /\ Data' /\ Takes(1)
      /\ Len(Used') = n-1
      /\ freeHead' \in Pointer /\ usedHead' \in Pointer
      /\ next' \in [Entry -> Pointer] /\ prev' \in [Entry -> Pointer]
      /\ expiry' \in [Entry -> Nat]
  <2>1. FreeTimerUnprotected(Used[1])  BY <1>1, <1>3
  <2>2. 1 \in 1..Len(Used)  BY <1>2, <1>3
  <2>3. QED  BY <1>1, <1>2, <2>1, <2>2, FreeStep
<1>5. x' \in 0..SortBound /\ x \in Nat /\ MAX_NUM_TIMERS \in Nat
  BY <1>1, CountBound, Bound DEF TypeOK
<1>6. pEntry' = usedHead' /\ x' + Len(Used)' <= MAX_NUM_TIMERS
  <2>1. pEntry' = usedHead'  BY <1>1 DEF FreeTimerUnprotected
  <2>2. x+1 + (n-1) <= MAX_NUM_TIMERS  BY <1>1, <1>2, <1>5
  <2>3. QED  BY <2>1, <2>2, <1>1, <1>4
<1>7. TypeOK'
  <2>1. pEntry' \in Pointer  BY <1>4, <1>6
  <2>2. QED  BY <1>1, <1>4, <1>5, <2>1 DEF TypeOK
<1>8. Here'  BY <1>1, <1>6 DEF Here
<1>9. IInv'  BY <1>4, <1>7, <1>8 DEF IInv
<1>10. QED  BY <1>2, <1>3, <1>4, <1>9

LEMMA FreeAllEndsStep ==
  ASSUME IInv, FreeAllEnds
  PROVE  IInv' /\ Used' = Used /\ Unused' = Unused
<1>1. /\ TypeOK /\ Data /\ doing = "freeAll" /\ doing' = "nothing"
      /\ pEntry = usedHead /\ x + Len(Used) <= MAX_NUM_TIMERS
      /\ pEntry = PNULL \/ x >= MAX_NUM_TIMERS
      /\ usedHead' = PNULL /\ pEntry' = PNULL /\ x' = 0 /\ stopped' = TRUE
      /\ UNCHANGED <<begun, blocks, freeHead, next, prev, expiry, tick>>
  BY DEF IInv, Here, FreeAllEnds
<1>2. Used = <<>> /\ usedHead = PNULL
  <2>1. /\ Len(Used) \in Nat /\ (Used = <<>> <=> Len(Used) = 0)
        /\ Used = <<>> <=> usedHead = PNULL
    BY <1>1, ListFacts DEF Data, Chained
  <2>2. x \in Nat /\ MAX_NUM_TIMERS \in Nat  BY <1>1, Bound DEF TypeOK
  <2>3. x >= MAX_NUM_TIMERS => Len(Used) = 0  BY <1>1, <2>1, <2>2
  <2>4. QED  BY <1>1, <2>1, <2>3
<1>3. UNCHANGED linkVars  BY <1>1, <1>2 DEF linkVars
<1>4. /\ Used' = Used /\ Unused' = Unused /\ Chained'
      /\ Backed(Used, prev)' <=> Backed(Used, prev)
      /\ Backed(Unused, prev)' <=> Backed(Unused, prev)
  BY <1>1, <1>3, SameLists DEF Data
<1>5. TypeOK'
  <2>1. 0 \in 0..SortBound /\ PNULL \in Pointer
    <3>1. MAX_NUM_TIMERS * MAX_NUM_TIMERS \in Nat  BY Bound
    <3>2. QED  BY <3>1 DEF SortBound, Pointer
  <2>2. QED  BY <1>1, <2>1 DEF TypeOK
<1>6. Owned' /\ Ordered' /\ NoneUsed'
  BY <1>1, <1>2, <1>4 DEF Data, Owned, Ordered, NoneUsed
<1>7. Here'  BY <1>1 DEF Here
<1>8. QED  BY <1>4, <1>5, <1>6, <1>7 DEF IInv, Data

LEMMA DestroyStartsStep ==
  ASSUME IInv, DestroyStarts
  PROVE  IInv' /\ Used' = Used /\ Unused' = Unused
<1>1. /\ TypeOK /\ Data /\ doing = "nothing" /\ doing' = "destroy" /\ stopped
      /\ pEntry' = freeHead /\ x' = 0
      /\ UNCHANGED linkVars /\ UNCHANGED <<begun, blocks, tick, stopped>>
  BY DEF IInv, DestroyStarts
<1>2. /\ Used' = Used /\ Unused' = Unused /\ Chained'
  BY <1>1, SameLists DEF Data
<1>3. TypeOK'
  <2>1. 0 \in 0..SortBound
    <3>1. MAX_NUM_TIMERS * MAX_NUM_TIMERS \in Nat  BY Bound
    <3>2. QED  BY <3>1 DEF SortBound
  <2>2. QED  BY <1>1, <2>1 DEF TypeOK, linkVars
<1>4. Owned' /\ Ordered' /\ NoneUsed'
  BY <1>1, <1>2 DEF Data, Owned, Ordered, NoneUsed, linkVars
<1>5. Here'
  <2>1. PICK n \in Nat : n = Len(Unused) /\ n <= MAX_NUM_TIMERS
    BY <1>1, Bound DEF Data, Chained
  <2>2. /\ Used = <<>> /\ ToSet(<<>>) = {}
        /\ blocks = ToSet(Used) \cup ToSet(Unused)
        /\ ToSet(Unused) = {Unused[i] : i \in 1..Len(Unused)}
    BY <1>1, NoList, ListFacts DEF Data, NoneUsed, Owned, Chained
  <2>3. blocks' = {Unused'[i] : i \in 1..Len(Unused')}  BY <1>1, <1>2, <2>2
  <2>4. pEntry' = At(Unused', 1, PNULL)
    BY <1>1, <1>2 DEF Data, Chained, Linked
  <2>5. x' + (Len(Unused')+1-1) <= MAX_NUM_TIMERS  BY <1>1, <1>2, <2>1
  <2>6. Destroying(1)'  BY <2>3, <2>4, <2>5 DEF Destroying
  <2>7. 1 \in 1..Len(Unused)'+1  BY <1>2, <2>1
  <2>8. QED  BY <1>1, <2>6, <2>7 DEF Here
<1>6. QED  BY <1>2, <1>3, <1>4, <1>5 DEF IInv, Data

LEMMA FreeBlockStep ==
  ASSUME IInv, FreeBlock
  PROVE  IInv' /\ Used' = Used /\ Unused' = Unused
<1>1. /\ TypeOK /\ Data /\ doing = "destroy" /\ doing' = doing
      /\ pEntry # PNULL /\ x < MAX_NUM_TIMERS /\ x' = x+1
      /\ pEntry' = next[pEntry] /\ blocks' = blocks \ {pEntry}
      /\ UNCHANGED linkVars /\ UNCHANGED <<begun, tick, stopped>>
  BY DEF IInv, FreeBlock
<1>2. /\ Used' = Used /\ Unused' = Unused /\ Chained'
  BY <1>1, SameLists DEF Data
<1>3. PICK n \in Nat : n = Len(Unused)  BY <1>1 DEF Data, Chained
<1>4. PICK k \in 1..n+1 : Destroying(k)
  <2>1. \E k \in 1..Len(Unused)+1 : Destroying(k)  BY <1>1 DEF IInv, Here
  <2>2. QED  BY <2>1, <1>3
<1>5. /\ k \in 1..n /\ pEntry = Unused[k]
      /\ x + (n+1-k) <= MAX_NUM_TIMERS /\ blocks = {Unused[i] : i \in k..n}
  BY <1>1, <1>3, <1>4 DEF Destroying, At
<1>6. /\ next[Unused[k]] = At(Unused, k+1, PNULL) /\ Unused[k] \in Entry
      /\ \A i, j \in 1..n : Unused[i] = Unused[j] => i = j
  <2>1. /\ \A i \in 1..Len(Unused) : Unused[i] \in Entry
        /\ \A i, j \in 1..Len(Unused) : Unused[i] = Unused[j] => i = j
        /\ \A i \in 1..Len(Unused) : next[Unused[i]] = At(Unused, i+1, PNULL)
    BY <1>1, ListFacts DEF Data, Chained
  <2>2. QED  BY <2>1, <1>3, <1>5
<1>7. x' \in 0..SortBound /\ x \in Nat /\ MAX_NUM_TIMERS \in Nat
  BY <1>1, CountBound, Bound DEF TypeOK
<1>8. Destroying(k+1)'
  <2>1. blocks' = {Unused[i] : i \in k+1..n}
    <3>1. \A i \in k..n : i \in 1..n  BY <1>5
    <3>2. \A i \in k..n : Unused[i] = Unused[k] <=> i = k  BY <1>5, <1>6, <3>1
    <3>3. \A i : i \in k+1..n <=> i \in k..n /\ i # k  BY <1>5
    <3>4. QED  BY <1>1, <1>5, <3>2, <3>3
  <2>2. pEntry' = At(Unused', k+1, PNULL)  BY <1>1, <1>2, <1>5, <1>6
  <2>3. x' + (Len(Unused')+1-(k+1)) <= MAX_NUM_TIMERS
    BY <1>1, <1>2, <1>3, <1>5, <1>7
  <2>4. QED  BY <1>2, <1>3, <2>1, <2>2, <2>3 DEF Destroying
<1>9. Here'
  <2>1. k+1 \in 1..Len(Unused)'+1  BY <1>2, <1>3, <1>5
  <2>2. QED  BY <1>1, <1>8, <2>1 DEF Here
<1>10. TypeOK'
  <2>1. pEntry' \in Pointer /\ blocks' \in SUBSET Entry
    BY <1>1, <1>5, <1>6 DEF TypeOK
  <2>2. QED  BY <1>1, <1>7, <2>1 DEF TypeOK, linkVars
<1>11. Owned' /\ Ordered' /\ NoneUsed'
  BY <1>1, <1>2 DEF Data, Owned, Ordered, NoneUsed, linkVars
<1>12. QED  BY <1>2, <1>9, <1>10, <1>11 DEF IInv, Data

\* Every block has been freed by then, and the lists are empty.
LEMMA DestroyEndsStep ==
  ASSUME IInv, DestroyEnds
  PROVE  IInv' /\ Used' = <<>> /\ Unused' = <<>>
<1>1. /\ TypeOK /\ Data /\ doing = "destroy" /\ doing' = "gone"
      /\ pEntry = PNULL \/ x >= MAX_NUM_TIMERS
      /\ freeHead' = PNULL /\ pEntry' = PNULL /\ x' = 0
      /\ UNCHANGED <<begun, blocks, usedHead, next, prev, expiry, tick, stopped>>
  BY DEF IInv, DestroyEnds
<1>2. PICK n \in Nat : n = Len(Unused)  BY <1>1 DEF Data, Chained
<1>3. PICK k \in 1..n+1 : Destroying(k)
  <2>1. \E k \in 1..Len(Unused)+1 : Destroying(k)  BY <1>1 DEF IInv, Here
  <2>2. QED  BY <2>1, <1>2
<1>4. blocks = {}
  <2>1. \A i \in 1..n : Unused[i] # PNULL
    BY <1>1, <1>2, ListFacts DEF Data, Chained
  <2>2. /\ pEntry = At(Unused, k, PNULL) /\ x + (n+1-k) <= MAX_NUM_TIMERS
        /\ blocks = {Unused[i] : i \in k..n}
    BY <1>2, <1>3 DEF Destroying
  <2>3. x \in Nat /\ MAX_NUM_TIMERS \in Nat  BY <1>1, Bound DEF TypeOK
  <2>4. pEntry = PNULL => k \notin 1..n  BY <1>2, <2>1, <2>2 DEF At
  <2>5. x >= MAX_NUM_TIMERS => k = n+1  BY <2>2, <2>3
  <2>6. k = n+1  BY <1>1, <2>4, <2>5
  <2>7. k..n = {}  BY <2>6
  <2>8. QED  BY <2>2, <2>7
<1>5. /\ <<>> \in Seq(Entry) /\ IsInjective(<<>>) /\ Linked(<<>>, PNULL, next', PNULL)
      /\ ToSet(<<>>) = {} /\ Len(<<>>) = 0
      /\ Following(PNULL, next', PNULL, MAX_NUM_TIMERS) = <<>>
  BY NoList
<1>6. usedHead = PNULL
  BY <1>1, <1>5 DEF Data, NoneUsed, Chained, Linked, At
<1>7. Used' = <<>> /\ Unused' = <<>>
  BY <1>1, <1>5, <1>6 DEF Used, Unused, Chain
<1>8. Chained'  BY <1>1, <1>5, <1>6, <1>7 DEF Chained
<1>9. TypeOK'
  <2>1. 0 \in 0..SortBound /\ PNULL \in Pointer
    <3>1. MAX_NUM_TIMERS * MAX_NUM_TIMERS \in Nat  BY Bound
    <3>2. QED  BY <3>1 DEF SortBound, Pointer
  <2>2. QED  BY <1>1, <2>1 DEF TypeOK
<1>10. Owned' /\ Ordered' /\ NoneUsed'
  BY <1>1, <1>5, <1>7 DEF Owned, Ordered, NoneUsed
<1>11. Here'  BY <1>1, <1>4 DEF Here
<1>12. QED  BY <1>7, <1>8, <1>9, <1>10, <1>11 DEF IInv, Data

LEMMA StutterStep ==
  ASSUME IInv, UNCHANGED vars
  PROVE  IInv' /\ Used' = Used /\ Unused' = Unused
<1>1. /\ TypeOK /\ Data /\ Here /\ UNCHANGED linkVars
      /\ UNCHANGED <<doing, pEntry, x, begun, blocks, tick, stopped>>
  BY DEF IInv, vars, linkVars
<1>2. /\ Used' = Used /\ Unused' = Unused /\ Chained'
      /\ Backed(Used, prev)' <=> Backed(Used, prev)
      /\ Backed(Unused, prev)' <=> Backed(Unused, prev)
  BY <1>1, SameLists DEF Data
<1>3. TypeOK'  BY <1>1 DEF TypeOK, linkVars
<1>4. Owned' /\ Ordered' /\ NoneUsed'
  BY <1>1, <1>2 DEF Data, Owned, Ordered, NoneUsed, linkVars
<1>5. Here'
  <2>1. /\ \A p, t, q : Sorting(p, t, q)' <=> Sorting(p, t, q)
        /\ \A k : Walking(k)' <=> Walking(k)
        /\ \A k : Destroying(k)' <=> Destroying(k)
    BY <1>1, <1>2 DEF Sorting, Walking, Destroying, linkVars
  <2>2. Len(Used)' = Len(Used) /\ Len(Unused)' = Len(Unused)  BY <1>2
  <2>3. doing = "sort" =>
          \E p \in 1..Len(Used)' : \E t \in 1..p, q \in 1..Len(Used)'+1 : Sorting(p, t, q)'
    BY <1>1, <2>1, <2>2 DEF Here
  <2>4. doing = "walk" => \E k \in 1..Len(Used)'+1 : Walking(k)'
    BY <1>1, <2>1, <2>2 DEF Here
  <2>5. doing = "destroy" => \E k \in 1..Len(Unused)'+1 : Destroying(k)'
    BY <1>1, <2>1, <2>2 DEF Here
  <2>6. QED  BY <1>1, <1>2, <2>3, <2>4, <2>5 DEF Here, linkVars
<1>6. QED  BY <1>2, <1>3, <1>4, <1>5 DEF IInv, Data

(***************************************************************************)
(* The theorems.                                                           *)
(***************************************************************************)
\* Whatever is done to the lists, each is the sequence its links run through,
\* in the order of expiry, and no entry is on both or on neither.
THEOREM Invariance == Spec => []IInv
<1>1. Init => IInv  BY InitInvariant
<1>2. IInv /\ [Next]_vars => IInv'
  <2> SUFFICES ASSUME IInv, [Next]_vars  PROVE IInv'  OBVIOUS
  <2>1. CASE UNCHANGED vars  BY <2>1, StutterStep
  <2>2. CASE \E e \in Entry : Malloc(e)  BY <2>2, MallocLinks
  <2>3. CASE \E e \in Entry : ActionTimerStop(e)  BY <2>3, ActionTimerStopStep
  <2>4. CASE MallocFails  BY <2>4, MallocFailsStep
  <2>5. CASE \E period \in Period : AllocTimer(period)  BY <2>5, AllocTimerStep
  <2>6. CASE AllocTimerFails  BY <2>6, AllocTimerFailsStep
  <2>7. CASE SortUsedList  BY <2>7, SortUsedListStep
  <2>8. CASE SortEnds  BY <2>8, SortEndsStep
  <2>9. CASE TickStarts  BY <2>9, TickStartsStep
  <2>10. CASE TickWalk  BY <2>10, TickWalkStep
  <2>11. CASE TickEnds  BY <2>11, TickEndsStep
  <2>12. CASE Tick  BY <2>12, TickStep
  <2>13. CASE FreeAllStarts  BY <2>13, FreeAllStartsStep
  <2>14. CASE FreeAllTimers  BY <2>14, FreeAllTimersStep
  <2>15. CASE FreeAllEnds  BY <2>15, FreeAllEndsStep
  <2>16. CASE DestroyStarts  BY <2>16, DestroyStartsStep
  <2>17. CASE FreeBlock  BY <2>17, FreeBlockStep
  <2>18. CASE DestroyEnds  BY <2>18, DestroyEndsStep
  <2>19. QED
    BY <2>1, <2>2, <2>3, <2>4, <2>5, <2>6, <2>7, <2>8, <2>9, <2>10, <2>11, <2>12,
       <2>13, <2>14, <2>15, <2>16, <2>17, <2>18 DEF Next
<1>3. QED  BY <1>1, <1>2, PTL DEF Spec

LEMMA SoundIfInvariant == IInv => LinksSound
<1> SUFFICES ASSUME IInv  PROVE LinksSound  OBVIOUS
<1>1. TypeOK /\ Chained /\ Owned /\ NoneUsed /\ Here  BY DEF IInv, Data
<1>2. /\ Len(Used) \in Nat /\ Len(Unused) \in Nat
      /\ ToSet(Used) = {Used[i] : i \in 1..Len(Used)}
      /\ ToSet(Unused) = {Unused[i] : i \in 1..Len(Unused)}
      /\ Used = <<>> <=> usedHead = PNULL
      /\ Used # <<>> => usedHead = Used[1] /\ 1 \in 1..Len(Used)
      /\ Unused = <<>> <=> freeHead = PNULL
  BY <1>1, ListFacts DEF Chained
<1>3. ToSet(<<>>) = {}  BY NoList
<1>4. ToSet(Used) \subseteq blocks  BY <1>1, <1>3 DEF Owned, NoneUsed
<1>5. doing # "destroy" => ToSet(Unused) \subseteq blocks
  BY <1>1, <1>2, <1>3 DEF Owned, Here
<1>6. pEntry # PNULL => pEntry \in blocks
  <2>1. \A q : At(Used, q, PNULL) # PNULL => At(Used, q, PNULL) \in blocks
    BY <1>2, <1>4 DEF At
  <2>2. CASE doing = "sort"
    <3>1. \E p, t, q : Sorting(p, t, q)  BY <1>1, <2>2 DEF Here
    <3>2. QED  BY <3>1, <2>1 DEF Sorting
  <2>3. CASE doing = "walk"
    <3>1. \E k : Walking(k)  BY <1>1, <2>3 DEF Here
    <3>2. QED  BY <3>1, <2>1 DEF Walking
  <2>4. CASE doing = "freeAll"
    <3>1. pEntry = usedHead  BY <1>1, <2>4 DEF Here
    <3>2. QED  BY <3>1, <1>2, <1>4
  <2>5. CASE doing = "destroy"
    <3>1. PICK k \in 1..Len(Unused)+1 : Destroying(k)  BY <1>1, <2>5 DEF Here
    <3>2. k \in 1..Len(Unused) => k \in k..Len(Unused)  BY <1>2
    <3>3. QED  BY <3>1, <3>2 DEF Destroying, At
  <2>6. CASE doing \in {"create", "nothing", "gone", "aborted"}
    BY <1>1, <2>6 DEF Here
  <2>7. QED  BY <1>1, <2>2, <2>3, <2>4, <2>5, <2>6 DEF TypeOK
<1>7. ASSUME doing \notin {"destroy", "gone"}, NEW head \in {freeHead, usedHead}
      PROVE  \A i \in 1..Len(Chain(head)) :
               prev[Chain(head)[i]] = IF i = 1 THEN PNULL ELSE Chain(head)[i-1]
  <2>1. Backed(Used, prev) /\ Backed(Unused, prev)  BY <1>1, <1>7 DEF Owned
  <2>2. Backed(Chain(head), prev)  BY <2>1, <1>7 DEF Used, Unused
  <2>3. QED  BY <2>2 DEF Backed
<1>8. QED  BY <1>1, <1>4, <1>5, <1>6, <1>7 DEF LinksSound, Used, Unused

\* The pointers that nothing follows yet are right too, and no pointer that
\* could still be followed leads to a block that was freed.
THEOREM SoundLinks == Spec => []LinksSound
<1>1. IInv => LinksSound  BY SoundIfInvariant
<1>2. QED  BY <1>1, Invariance, PTL

\* A tick takes every timer that was due when it began.
THEOREM TakesAllDue == Spec => WalkTakesAllDue
<1>1. IInv /\ [Next]_vars =>
        [doing = "walk" /\ doing' # "walk" =>
           \A e \in ToSet(Chain(usedHead)) : expiry[e] > begun]_vars
  <2> SUFFICES ASSUME IInv, Next, doing = "walk", doing' # "walk"
               PROVE  \A e \in ToSet(Chain(usedHead)) : expiry[e] > begun
    OBVIOUS
  <2>1. TickEnds
    BY DEF Next, Malloc, ActionTimerStop, MallocFails, AllocTimer, AllocTimerFails,
           SortUsedList, SortEnds, TickStarts, TickWalk, Tick, FreeAllStarts,
           FreeAllTimers, FreeAllEnds, DestroyStarts, FreeBlock, DestroyEnds, loopVars
  <2>2. \A e \in ToSet(Used) : expiry[e] > begun  BY <2>1, TickEndsStep
  <2>3. QED  BY <2>2 DEF Used
<1>2. QED  BY <1>1, Invariance, PTL DEF Spec, WalkTakesAllDue

\* When the server has gone, every block it ever had has been given back.
THEOREM GivesBack == Spec => [](doing = "gone" => blocks = {})
<1>1. IInv => (doing = "gone" => blocks = {})  BY DEF IInv, Here
<1>2. QED  BY <1>1, Invariance, PTL

(***************************************************************************)
(* Refinement: what the sort is to produce.                                *)
(***************************************************************************)
\* The position in the order of f of what is at i.
RankIn(f, n, i) == Cardinality({j \in 1..n : f[j] < f[i] \/ (f[j] = f[i] /\ j <= i)})

\* Where what is at i is to be, when only what is at p is out of order and
\* belongs at t.
Place(i, p, t) == IF i < t THEN i ELSE IF i = p THEN t ELSE IF i < p THEN i+1 ELSE i

LEMMA IntervalCount ==
  ASSUME NEW k \in Int, k >= 0
  PROVE  IsFiniteSet(1..k) /\ Cardinality(1..k) = k
<1>1. IsFiniteSet(1..k) /\ Cardinality(1..k) = IF 1 > k THEN 0 ELSE k-1+1
  BY FS_Interval
<1>2. QED  BY <1>1

OneOut(f, n, p, t) ==
  /\ p \in 1..n /\ t \in 1..p
  /\ \A i \in 1..n : f[i] \in Nat
  /\ \A j \in 1..n : j < t => f[j] <= f[p]
  /\ \A j \in 1..n : j >= t /\ j # p => f[j] > f[p]
  /\ \A i, j \in 1..n : i < j /\ i # p /\ j # p => f[i] <= f[j]

LEMMA Ranks ==
  ASSUME NEW n \in Nat, NEW f, NEW p, NEW t, OneOut(f, n, p, t)
  PROVE  \A i \in 1..n : RankIn(f, n, i) = Place(i, p, t)
<1> SUFFICES ASSUME NEW i \in 1..n
             PROVE  RankIn(f, n, i) = Place(i, p, t)
  OBVIOUS
<1> USE DEF OneOut
<1> DEFINE S == {j \in 1..n : f[j] < f[i] \/ (f[j] = f[i] /\ j <= i)}
<1>1. i \in Int /\ i >= 0 /\ t-1 \in Int /\ t-1 >= 0  OBVIOUS
<1>2. CASE i < t
  <2>1. \A j \in 1..n : j \in S <=> j <= i  BY <1>2
  <2>2. S = 1..i  BY <2>1
  <2> HIDE DEF S
  <2>3. Cardinality(1..i) = i  BY <1>1, IntervalCount
  <2>4. Cardinality(S) = Place(i, p, t)  BY <1>2, <2>2, <2>3 DEF Place
  <2>5. QED  BY <2>4 DEF S, RankIn
<1>3. CASE i = p
  <2>1. \A j \in 1..n : j \in S <=> j <= t-1 \/ j = p  BY <1>3
  <2>2. S = 1..(t-1) \cup {p}  BY <2>1
  <2> HIDE DEF S
  <2>3. IsFiniteSet(1..(t-1)) /\ Cardinality(1..(t-1)) = t-1  BY <1>1, IntervalCount
  <2>4. p \notin 1..(t-1)  OBVIOUS
  <2>5. Cardinality(1..(t-1) \cup {p}) = (t-1)+1  BY <2>3, <2>4, FS_AddElement
  <2>6. Cardinality(S) = Place(i, p, t)  BY <1>3, <2>2, <2>5 DEF Place
  <2>7. QED  BY <2>6 DEF S, RankIn
<1>4. CASE i >= t /\ i < p
  <2>1. \A j \in 1..n : j \in S <=> j <= i \/ j = p  BY <1>4
  <2>2. S = 1..i \cup {p}  BY <2>1
  <2> HIDE DEF S
  <2>3. IsFiniteSet(1..i) /\ Cardinality(1..i) = i  BY <1>1, IntervalCount
  <2>4. p \notin 1..i  BY <1>4
  <2>5. Cardinality(1..i \cup {p}) = i+1  BY <2>3, <2>4, FS_AddElement
  <2>6. Cardinality(S) = Place(i, p, t)  BY <1>4, <2>2, <2>5 DEF Place
  <2>7. QED  BY <2>6 DEF S, RankIn
<1>5. CASE i > p
  <2>1. f[i] > f[p]  BY <1>5
  <2>2. \A j \in 1..n : j \in S <=> j <= i  BY <1>5, <2>1
  <2>3. S = 1..i  BY <2>2
  <2> HIDE DEF S
  <2>4. Cardinality(1..i) = i  BY <1>1, IntervalCount
  <2>5. Cardinality(S) = Place(i, p, t)  BY <1>5, <2>3, <2>4 DEF Place
  <2>6. QED  BY <2>5 DEF S, RankIn
<1>6. QED  BY <1>2, <1>3, <1>4, <1>5

\* The list once what is at p has come to t.
Settled(s, p, t) ==
  [m \in 1..Len(s) |-> IF m < t THEN s[m] ELSE IF m = t THEN s[p]
                       ELSE IF m <= p THEN s[m-1] ELSE s[m]]

\* What a sorting in progress looks like from outside.
LooksSettled ==
  \A p, t, q \in Nat :
    p \in 1..Len(Used) /\ t \in 1..p /\ Sorting(p, t, q) =>
      InOrder(Used) = Settled(Used, p, t)

LEMMA LooksSorted == TypeOK /\ Chained => LooksSettled
<1> SUFFICES ASSUME TypeOK, Chained, NEW p \in Nat, NEW t \in Nat, NEW q \in Nat,
                    p \in 1..Len(Used), t \in 1..p, Sorting(p, t, q)
             PROVE  InOrder(Used) = Settled(Used, p, t)
  BY DEF LooksSettled
<1> DEFINE s == Used
           n == Len(s)
           f == [i \in 1..n |-> expiry[s[i]]]
           From(m) == IF m < t THEN m ELSE IF m = t THEN p ELSE IF m <= p THEN m-1 ELSE m
<1>1. /\ n \in Nat /\ \A i \in 1..n : s[i] \in Entry  BY DEF Chained
<1>2. \A i \in 1..n : f[i] = expiry[s[i]] /\ f[i] \in Nat  BY <1>1 DEF TypeOK
<1>3. /\ \A j \in 1..n : j < t => f[j] <= f[p]
      /\ \A j \in 1..n : j >= t /\ j # p => f[j] > f[p]
      /\ \A i, j \in 1..n : i < j /\ i # p /\ j # p => f[i] <= f[j]
  BY DEF Sorting
<1>4. /\ p \in 1..n /\ t \in 1..p  OBVIOUS
<1>5. \A i \in 1..n : Rank(s, i) = RankIn(f, n, i)
  <2> TAKE i \in 1..n
  <2>1. {j \in 1..n : f[j] < f[i] \/ (f[j] = f[i] /\ j <= i)} =
          {j \in 1..n : expiry[s[j]] < expiry[s[i]] \/ (expiry[s[j]] = expiry[s[i]] /\ j <= i)}
    OBVIOUS
  <2>2. QED  BY <2>1 DEF Rank, RankIn
<1> HIDE DEF f, n, s
<1>6. \A i \in 1..n : Rank(s, i) = Place(i, p, t)
  <2>1. n \in Nat /\ OneOut(f, n, p, t)  BY <1>1, <1>2, <1>3, <1>4 DEF OneOut
  <2>2. \A i \in 1..n : RankIn(f, n, i) = Place(i, p, t)  BY <2>1, Ranks
  <2>3. QED  BY <1>5, <2>2
<1>7. \A m \in 1..n : /\ From(m) \in 1..n /\ Place(From(m), p, t) = m
                      /\ \A i \in 1..n : Place(i, p, t) = m => i = From(m)
  BY <1>1, <1>4 DEF Place
<1> HIDE DEF From
<1>8. \A m \in 1..n : (CHOOSE i \in 1..n : Rank(s, i) = m) = From(m)
  <2> TAKE m \in 1..n
  <2>1. \E i \in 1..n : Rank(s, i) = m  BY <1>6, <1>7
  <2>2. \A i \in 1..n : Rank(s, i) = m => i = From(m)  BY <1>6, <1>7
  <2>3. QED  BY <2>1, <2>2
<1>9. InOrder(s) = [m \in 1..n |-> s[From(m)]]
  <2>1. InOrder(s) = [m \in 1..n |-> s[CHOOSE i \in 1..n : Rank(s, i) = m]]
    BY DEF InOrder, n
  <2>2. QED  BY <2>1, <1>8
<1>10. Settled(s, p, t) = [m \in 1..n |-> s[From(m)]]
  BY DEF Settled, From, n
<1>11. QED  BY <1>9, <1>10 DEF s

\* Where the entry starts, what a swap changes, and where it ends.
LEMMA SettledStarts ==
  ASSUME NEW s \in Seq(Entry), NEW e \in Entry, NEW t \in 1..Len(s)+1
  PROVE  Settled(Append(s, e), Len(s)+1, t) = InsertAt(s, t, e)
<1> DEFINE r == Append(s, e)
           w == InsertAt(s, t, e)
           n == Len(s)+1
<1>1. /\ Len(r) = n /\ r[n] = e /\ n \in Nat /\ Len(s) \in Nat /\ t \in 1..n
      /\ \A j \in 1..Len(s) : r[j] = s[j]
  BY AppendProperties
<1>2. /\ w \in Seq(Entry) /\ Len(w) = n
      /\ \A j \in 1..n : /\ j < t => w[j] = s[j]
                         /\ j = t => w[j] = e
                         /\ j > t => w[j] = s[j-1]
  BY LinkElements
<1> HIDE DEF r, w, n
<1>3. w = [m \in 1..n |-> w[m]]  BY <1>1, <1>2
<1>4. \A m \in 1..n : w[m] = IF m < t THEN r[m] ELSE IF m = t THEN r[n]
                             ELSE IF m <= n THEN r[m-1] ELSE r[m]
  <2> TAKE m \in 1..n
  <2>1. CASE m < t
    <3>1. m \in 1..Len(s)  BY <2>1, <1>1 DEF n
    <3>2. QED  BY <2>1, <3>1, <1>1, <1>2
  <2>2. CASE m = t  BY <2>2, <1>1, <1>2
  <2>3. CASE m > t
    <3>1. m-1 \in 1..Len(s) /\ m <= n /\ ~(m < t) /\ m # t  BY <2>3, <1>1 DEF n
    <3>2. QED  BY <2>3, <3>1, <1>1, <1>2
  <2>4. QED  BY <2>1, <2>2, <2>3, <1>1
<1>5. Settled(r, n, t) = [m \in 1..n |-> w[m]]  BY <1>1, <1>4 DEF Settled
<1>6. QED  BY <1>3, <1>5 DEF r, w, n

LEMMA SettledMoves ==
  ASSUME NEW s \in Seq(Entry), IsInjective(s), NEW q \in 1..Len(s), q+1 \in 1..Len(s),
         NEW t \in 1..q
  PROVE  Settled(Exchanged(s, q), q, t) = Settled(s, q+1, t)
<1> DEFINE r == Exchanged(s, q)
           n == Len(s)
<1>1. /\ Len(r) = n /\ n \in Nat
      /\ \A j \in 1..n : r[j] = IF j = q THEN s[q+1] ELSE IF j = q+1 THEN s[q] ELSE s[j]
  BY ExchangedList
<1>2. q \in 1..n /\ q+1 \in 1..n  OBVIOUS
<1> HIDE DEF r, n
<1>3. \A m \in 1..n :
        (IF m < t THEN r[m] ELSE IF m = t THEN r[q] ELSE IF m <= q THEN r[m-1] ELSE r[m]) =
        (IF m < t THEN s[m] ELSE IF m = t THEN s[q+1] ELSE IF m <= q+1 THEN s[m-1] ELSE s[m])
  <2> TAKE m \in 1..n
  <2>1. CASE m < t  BY <2>1, <1>1, <1>2
  <2>2. CASE m = t  BY <2>2, <1>1, <1>2
  <2>3. CASE m > t /\ m <= q
    <3>1. m-1 \in 1..n /\ m-1 # q /\ m-1 # q+1 /\ m <= q+1  BY <2>3, <1>1, <1>2
    <3>2. r[m-1] = s[m-1]  BY <3>1, <1>1
    <3>3. QED  BY <2>3, <3>1, <3>2
  <2>4. CASE m > t /\ m = q+1
    <3>1. m-1 = q /\ ~(m <= q) /\ m <= q+1 /\ m # q  BY <2>4, <1>2
    <3>2. r[m] = s[q]  BY <2>4, <3>1, <1>1
    <3>3. QED  BY <2>4, <3>1, <3>2
  <2>5. CASE m > t /\ m > q+1
    <3>1. r[m] = s[m]  BY <2>5, <1>1, <1>2
    <3>2. ~(m <= q) /\ ~(m <= q+1)  BY <2>5, <1>2
    <3>3. QED  BY <2>5, <3>1, <3>2
  <2>6. QED  BY <2>1, <2>2, <2>3, <2>4, <2>5, <1>2
<1>4. QED  BY <1>1, <1>3 DEF Settled, r, n

LEMMA SettledEnds ==
  ASSUME NEW s \in Seq(Entry), NEW p \in 1..Len(s)
  PROVE  Settled(s, p, p) = s
<1>1. Len(s) \in Nat /\ s = [m \in 1..Len(s) |-> s[m]]  OBVIOUS
<1>2. \A m \in 1..Len(s) : s[m] = IF m < p THEN s[m] ELSE IF m = p THEN s[p]
                                  ELSE IF m <= p THEN s[m-1] ELSE s[m]
  BY <1>1
<1>3. QED  BY <1>1, <1>2 DEF Settled

(***************************************************************************)
(* Refinement: every step is one of the abstract lists, or leaves them be. *)
(***************************************************************************)
\* The abstract lists' sequence operators are this module's.
LEMMA SameOperators ==
  /\ \A s, i : Lists!RemoveAt(s, i) = RemoveAt(s, i)
  /\ \A s, i, e : Lists!InsertAt(s, i, e) = InsertAt(s, i, e)
  /\ \A s : Lists!Front(s) = Front(s) /\ Lists!Last(s) = Last(s)
  /\ \A s : Lists!IsInjective(s) <=> IsInjective(s)
BY DEF Lists!RemoveAt, RemoveAt, Lists!InsertAt, InsertAt, Lists!Front, Front,
       Lists!Last, Last, Lists!IsInjective, IsInjective

\* What can be seen of the lists from outside.
LEMMA Outside ==
  /\ FreeList = IF blocks # Entry \/ doing = "destroy" THEN <<>> ELSE Unused
  /\ FreeList' = IF blocks' # Entry \/ doing' = "destroy" THEN <<>> ELSE Unused'
  /\ UsedList = IF doing = "sort" THEN InOrder(Used) ELSE Used
  /\ UsedList' = IF doing' = "sort" THEN InOrder(Used)' ELSE Used'
BY DEF FreeList, UsedList, Used, Unused

\* A sorting in progress, before and after a step.
LEMMA LooksSortedAfter ==
  ASSUME IInv', NEW p \in Nat, NEW t \in 1..p, NEW q \in Nat,
         p \in 1..Len(Used)', Sorting(p, t, q)'
  PROVE  InOrder(Used)' = Settled(Used', p, t)
<1>1. (TypeOK /\ Chained => LooksSettled)'  BY LooksSorted, PTL
<1>2. LooksSettled'  BY <1>1 DEF IInv, Data
<1>3. t \in Nat  OBVIOUS
<1>4. QED  BY <1>2, <1>3 DEF LooksSettled

\* A list with every entry on it has as many as there are.
LEMMA WholeLength ==
  ASSUME NEW s \in Seq(Entry), IsInjective(s), ToSet(s) = Entry
  PROVE  Len(s) = MAX_NUM_TIMERS
<1> DEFINE n == Len(s)
<1>1. n \in Nat /\ s \in [1..n -> Entry] /\ DOMAIN s = 1..n  OBVIOUS
<1>2. s \in Injection(1..n, Entry)  BY <1>1 DEF Injection, IsInjective
<1>3. s \in Surjection(1..n, Entry)  BY <1>1 DEF Surjection, ToSet
<1> HIDE DEF n
<1>4. IsFiniteSet(1..n) /\ Cardinality(1..n) = n  BY <1>1, IntervalCount
<1>5. Cardinality(Entry) = Cardinality(1..n)  BY <1>2, <1>3, <1>4, FS_Surjection
<1>6. QED  BY <1>4, <1>5 DEF MAX_NUM_TIMERS, n

\* The last malloc() is the abstract Create.
LEMMA MallocCreates ==
  ASSUME IInv, NEW e \in Entry, Malloc(e)
  PROVE  Lists!Create \/ UNCHANGED Lists!vars
<1>1. Used' = <<>> /\ Used = <<>> /\ IInv'  BY MallocLinks
<1>2. /\ blocks # Entry /\ doing = "create" /\ doing' \in {"create", "nothing"}
      /\ expiry' = expiry
  BY DEF Malloc
<1>3. FreeList = <<>> /\ UsedList = <<>> /\ UsedList' = <<>>
  BY <1>1, <1>2, Outside
<1>4. CASE blocks' # Entry
  <2>1. FreeList' = <<>>  BY <1>4, Outside
  <2>2. QED  BY <1>2, <1>3, <2>1 DEF Lists!vars
<1>5. CASE blocks' = Entry
  <2>1. FreeList' = Unused'  BY <1>2, <1>5, Outside
  <2>2. /\ Unused' \in Seq(Entry) /\ IsInjective(Unused') /\ ToSet(Unused') = Entry
    <3>1. blocks' = ToSet(Used') \cup ToSet(Unused')
      BY <1>1, <1>2 DEF IInv, Data, Owned
    <3>2. ToSet(<<>>) = {}  BY NoList
    <3>3. QED  BY <1>1, <1>5, <3>1, <3>2 DEF IInv, Data, Chained
  <2>3. Len(Unused') = MAX_NUM_TIMERS  BY <2>2, WholeLength
  <2>4. Lists!IsInjective(FreeList')  BY <2>1, <2>2, SameOperators
  <2>5. Lists!Create
    BY <1>2, <1>3, <2>1, <2>2, <2>3, <2>4 DEF Lists!Create
  <2>6. QED  BY <2>5
<1>6. QED  BY <1>4, <1>5

\* allocTimer shows as the abstract Put: what it links in at the end shows where
\* the sort is to bring it.
LEMMA AllocPuts ==
  ASSUME IInv, NEW period \in Period, AllocTimer(period)
  PROVE  \E d \in 0..MaxTick+MaxPeriod : Lists!Put(d)
<1> DEFINE e == Unused[Len(Unused)]
           d == tick + period
<1>1. /\ TypeOK /\ Chained /\ Ordered /\ blocks = Entry
      /\ doing = "nothing" /\ doing' = "sort" /\ blocks' = blocks
      /\ expiry' = [expiry EXCEPT ![LastOf(freeHead)] = d]
  BY DEF IInv, Data, Owned, AllocTimer, Deadline
<1>2. /\ IInv' /\ Used' = Append(Used, e) /\ Unused' = RemoveAt(Unused, Len(Unused))
      /\ Len(Unused) \in 1..Len(Unused)
  BY AllocTimerStep
<1>3. PICK n \in Nat : n = Len(Used) /\ \E t \in 1..n+1 : Sorting(n+1, t, 1)'
  BY AllocTimerStep
<1>4. PICK t \in 1..n+1 : Sorting(n+1, t, 1)'  BY <1>3
<1>5. /\ Used \in Seq(Entry) /\ Unused \in Seq(Entry) /\ IsInjective(Unused)
      /\ Unused # <<>> /\ e \in Entry /\ e \notin ToSet(Used)
      /\ LastOf(freeHead) = e
      /\ \A j \in 1..n : Used[j] \in Entry /\ Used[j] # e
  <2>1. /\ Used \in Seq(Entry) /\ Unused \in Seq(Entry) /\ IsInjective(Unused)
        /\ IsInjective(Used) /\ Linked(Used, usedHead, next, PNULL)
        /\ Linked(Unused, freeHead, next, PNULL) /\ ToSet(Used) \cap ToSet(Unused) = {}
    BY <1>1 DEF Chained
  <2>2. /\ Unused # <<>> /\ \A j \in 1..Len(Unused) : Unused[j] \in Entry
        /\ ToSet(Unused) = {Unused[j] : j \in 1..Len(Unused)}
    BY <1>2, <2>1, ListFacts
  <2>3. LastOf(freeHead) = e  BY <1>2, <2>1, LastOfIs DEF LastIn
  <2>4. e \in ToSet(Unused)  BY <1>2, <2>2
  <2>5. \A j \in 1..n : Used[j] \in Entry /\ Used[j] \in ToSet(Used)
    BY <1>3, <2>1, ListFacts
  <2>6. QED  BY <1>2, <2>1, <2>2, <2>3, <2>4, <2>5
<1>6. d \in 0..MaxTick+MaxPeriod /\ expiry \in [Entry -> Nat]
  <2>1. tick \in 0..MaxTick /\ period \in 0..MaxPeriod /\ MaxTick \in Nat /\ MaxPeriod \in Nat
    BY <1>1, TimerLinksAssumption DEF TypeOK
  <2>2. QED  BY <1>1, <2>1 DEF TypeOK
<1> HIDE DEF e, d
<1>7. /\ Len(Used') = n+1 /\ Used'[n+1] = e /\ \A j \in 1..n : Used'[j] = Used[j]
  BY <1>2, <1>3, <1>5, AppendProperties
<1>8. UsedList = Used /\ FreeList = Unused /\ UsedList' = InOrder(Used)' /\ FreeList' = Unused'
  BY <1>1, Outside
<1>9. InOrder(Used)' = InsertAt(Used, t, e)
  <2>1. n+1 \in Nat /\ 1 \in Nat /\ n+1 \in 1..Len(Used)'  BY <1>7
  <2>2. InOrder(Used)' = Settled(Used', n+1, t)
    BY <1>2, <1>4, <2>1, LooksSortedAfter
  <2>3. Settled(Append(Used, e), Len(Used)+1, t) = InsertAt(Used, t, e)
    BY <1>3, <1>5, SettledStarts
  <2>4. QED  BY <1>2, <1>3, <2>2, <2>3
<1>10. Front(Unused) = RemoveAt(Unused, Len(Unused)) /\ Last(Unused) = e
  <2>1. /\ Len(Unused) \in Nat /\ Front(Unused) \in Seq(Entry)
        /\ Len(Front(Unused)) = Len(Unused) - 1
        /\ \A i \in 1..Len(Unused)-1 : Front(Unused)[i] = Unused[i]
    BY <1>5, FrontFact
  <2>2. /\ RemoveAt(Unused, Len(Unused)) \in Seq(Entry)
        /\ Len(RemoveAt(Unused, Len(Unused))) = Len(Unused)-1
        /\ \A j \in 1..Len(Unused)-1 : RemoveAt(Unused, Len(Unused))[j] =
             IF j < Len(Unused) THEN Unused[j] ELSE Unused[j+1]
    BY <1>2, <1>5, UnlinkElements
  <2>3. \A j \in 1..Len(Unused)-1 : RemoveAt(Unused, Len(Unused))[j] = Unused[j]
    BY <2>1, <2>2
  <2>4. Front(Unused) = RemoveAt(Unused, Len(Unused))  BY <2>1, <2>2, <2>3, SeqEqual
  <2>5. QED  BY <2>4 DEF Last, e
<1>11. Lists!BelongsAt(t, d)
  <2>1. /\ expiry'[e] = d /\ \A j \in 1..n : expiry'[Used[j]] = expiry[Used[j]]
    BY <1>1, <1>5, <1>6
  <2>2. /\ \A j \in 1..Len(Used') : j < t => expiry'[Used'[j]] <= expiry'[Used'[n+1]]
        /\ \A j \in 1..Len(Used') : j >= t /\ j # n+1 =>
             expiry'[Used'[j]] > expiry'[Used'[n+1]]
    BY <1>4 DEF Sorting
  <2>3. \A j \in 1..n : j \in 1..Len(Used') /\ j # n+1  BY <1>7
  <2>4. \A j \in 1..n : /\ j < t => expiry[Used[j]] <= d
                        /\ j >= t => expiry[Used[j]] > d
    <3> TAKE j \in 1..n
    <3>1. /\ expiry'[Used'[j]] = expiry[Used[j]] /\ expiry'[Used'[n+1]] = d
      BY <1>7, <2>1
    <3>2. /\ j < t => expiry'[Used'[j]] <= expiry'[Used'[n+1]]
          /\ j >= t => expiry'[Used'[j]] > expiry'[Used'[n+1]]
      BY <2>2, <2>3
    <3>3. QED  BY <3>1, <3>2
  <2>5. \A j \in 1..t-1 : j \in 1..n /\ j < t  OBVIOUS
  <2>6. \A j \in t..n : j \in 1..n /\ j >= t  OBVIOUS
  <2>7. QED  BY <1>3, <1>8, <2>4, <2>5, <2>6 DEF Lists!BelongsAt
<1>12. PICK y \in 0..MaxTick+MaxPeriod : y = d  BY <1>6
<1>13. Lists!Put(y)
  <2>1. FreeList # <<>> /\ FreeList' = Lists!Front(FreeList)
    BY <1>2, <1>5, <1>8, <1>10, SameOperators
  <2>2. UsedList' = Lists!InsertAt(UsedList, t, Lists!Last(FreeList))
    BY <1>8, <1>9, <1>10, SameOperators
  <2>3. expiry' = [expiry EXCEPT ![Lists!Last(FreeList)] = y]
    BY <1>1, <1>5, <1>8, <1>10, <1>12, SameOperators
  <2>4. t \in 1..Len(UsedList)+1 /\ Lists!BelongsAt(t, y)
    BY <1>3, <1>8, <1>11, <1>12
  <2>5. QED  BY <2>1, <2>2, <2>3, <2>4 DEF Lists!Put
<1>14. QED  BY <1>13

\* freeTimerUnprotected shows as the abstract Take.
LEMMA TakesShow ==
  ASSUME NEW i \in 1..Len(Used), Takes(i), blocks = Entry,
         UNCHANGED <<doing, blocks>>, doing \notin {"sort", "destroy"}
  PROVE  Lists!Next
<1>1. UsedList = Used /\ UsedList' = Used' /\ FreeList = Unused /\ FreeList' = Unused'
  BY Outside
<1>2. i \in 1..Len(UsedList) /\ Lists!Take(i)
  BY <1>1, SameOperators DEF Takes, Lists!Take
<1>3. QED  BY <1>2 DEF Lists!Next

\* Steps that go through a list and leave it as it is.
LEMMA SameShow ==
  ASSUME Used' = Used, Unused' = Unused, expiry' = expiry,
         blocks = Entry <=> blocks' = Entry, doing = "destroy" <=> doing' = "destroy",
         doing = "sort" <=> doing' = "sort"
  PROVE  UNCHANGED Lists!vars
<1>1. InOrder(Used)' = InOrder(Used)  BY DEF InOrder, Rank
<1>2. UsedList' = UsedList /\ FreeList' = FreeList  BY <1>1, Outside
<1>3. QED  BY <1>2 DEF Lists!vars

\* A swap brings the new entry nearer to where it shows already.
LEMMA SortShows ==
  ASSUME IInv, SortUsedList
  PROVE  UNCHANGED Lists!vars
<1>1. /\ IInv' /\ Unused' = Unused /\ Len(Used)' = Len(Used)
      /\ \E p \in 1..Len(Used), q \in 1..Len(Used) : \E t \in 1..p :
           /\ Sorting(p, t, q)
           /\ \/ Used' = Used /\ Sorting(p, t, q+1)'
              \/ /\ q+1 = p /\ t <= q /\ Used' = Exchanged(Used, q)
                 /\ Sorting(q, t, 1)'
  BY SortUsedListStep
<1>2. /\ TypeOK /\ Chained /\ Used \in Seq(Entry) /\ IsInjective(Used)
      /\ doing = "sort" /\ UNCHANGED <<doing, blocks, expiry>>
  BY DEF IInv, Data, Chained, SortUsedList
<1>3. PICK p \in 1..Len(Used), q \in 1..Len(Used) : \E t \in 1..p :
        /\ Sorting(p, t, q)
        /\ \/ Used' = Used
           \/ q+1 = p /\ t <= q /\ Used' = Exchanged(Used, q) /\ Sorting(q, t, 1)'
  BY <1>1
<1>4. PICK t \in 1..p :
        /\ Sorting(p, t, q)
        /\ \/ Used' = Used
           \/ q+1 = p /\ t <= q /\ Used' = Exchanged(Used, q) /\ Sorting(q, t, 1)'
  BY <1>3
<1>5. CASE Used' = Used
  BY <1>1, <1>2, <1>5, SameShow
<1>6. CASE q+1 = p /\ t <= q /\ Used' = Exchanged(Used, q) /\ Sorting(q, t, 1)'
  <2>1. p \in Nat /\ t \in Nat /\ q \in Nat /\ t \in 1..q  BY <1>6
  <2>2. InOrder(Used) = Settled(Used, p, t)
    BY <1>2, <1>4, <2>1, LooksSorted DEF LooksSettled
  <2>3. 1 \in Nat /\ q \in 1..Len(Used)'  BY <1>1
  <2>4. InOrder(Used)' = Settled(Used', q, t)
    BY <1>1, <1>6, <2>1, <2>3, LooksSortedAfter
  <2>5. Settled(Exchanged(Used, q), q, t) = Settled(Used, q+1, t)
    BY <1>2, <1>6, <2>1, SettledMoves
  <2>6. InOrder(Used)' = InOrder(Used)  BY <1>6, <2>2, <2>4, <2>5
  <2>7. UsedList' = UsedList /\ FreeList' = FreeList  BY <1>1, <1>2, <2>6, Outside
  <2>8. QED  BY <1>2, <2>7 DEF Lists!vars
<1>7. QED  BY <1>4, <1>5, <1>6

LEMMA SortEndShows ==
  ASSUME IInv, SortEnds
  PROVE  UNCHANGED Lists!vars
<1>1. /\ Used' = Used /\ Unused' = Unused
      /\ \E p \in 1..Len(Used) : Sorting(p, p, Len(Used)+1)
  BY SortEndsStep
<1>2. /\ TypeOK /\ Chained /\ Used \in Seq(Entry)
      /\ doing = "sort" /\ doing' = "nothing" /\ UNCHANGED <<blocks, expiry>>
  BY DEF IInv, Data, Chained, SortEnds, linkVars
<1>3. PICK p \in 1..Len(Used) : Sorting(p, p, Len(Used)+1)  BY <1>1
<1>4. p \in Nat /\ p \in 1..p /\ Len(Used)+1 \in Nat  BY <1>2
<1>5. InOrder(Used) = Settled(Used, p, p)
  BY <1>2, <1>3, <1>4, LooksSorted DEF LooksSettled
<1>6. InOrder(Used) = Used  BY <1>2, <1>5, SettledEnds
<1>7. UsedList' = UsedList /\ FreeList' = FreeList  BY <1>1, <1>2, <1>6, Outside
<1>8. QED  BY <1>2, <1>7 DEF Lists!vars

\* From destroying on the lists are empty to whoever looks.
LEMMA DestroyShows ==
  ASSUME IInv, DestroyStarts \/ FreeBlock \/ DestroyEnds
  PROVE  Lists!Destroy
<1>1. IInv' /\ expiry' = expiry
  BY DestroyStartsStep, FreeBlockStep, DestroyEndsStep
  DEF DestroyStarts, FreeBlock, DestroyEnds, linkVars
<1>2. /\ (doing = "nothing" /\ stopped) \/ doing = "destroy"
      /\ doing' \in {"destroy", "gone"}
  BY DEF DestroyStarts, FreeBlock, DestroyEnds
<1>3. Used = <<>> /\ Used' = <<>>  BY <1>1, <1>2 DEF IInv, Data, NoneUsed
<1>4. FreeList' = <<>>
  <2>1. CASE doing' = "destroy"  BY <2>1, Outside
  <2>2. CASE doing' = "gone"
    <3>1. DestroyEnds  BY <2>2 DEF DestroyStarts, FreeBlock
    <3>2. Unused' = <<>>  BY <3>1, DestroyEndsStep
    <3>3. QED  BY <3>2, Outside
  <2>3. QED  BY <1>2, <2>1, <2>2
<1>5. UsedList = <<>> /\ UsedList' = <<>>  BY <1>2, <1>3, Outside
<1>6. QED  BY <1>1, <1>4, <1>5 DEF Lists!Destroy

LEMMA ListsStep ==
  ASSUME IInv, [Next]_vars
  PROVE  [Lists!Next]_(Lists!vars)
<1>1. CASE \E e \in Entry : Malloc(e)
  BY <1>1, MallocCreates DEF Lists!Next
<1>2. CASE \E period \in Period : AllocTimer(period)
  BY <1>2, AllocPuts DEF Lists!Next
<1>3. CASE SortUsedList  BY <1>3, SortShows
<1>4. CASE SortEnds  BY <1>4, SortEndShows
<1>5. CASE \E e \in Entry : ActionTimerStop(e)
  <2>1. PICK e \in Entry : ActionTimerStop(e)  BY <1>5
  <2>2. doing = "nothing" /\ UNCHANGED <<doing, blocks>> /\ blocks = Entry
    BY <2>1 DEF ActionTimerStop, loopVars, IInv, Data, Owned
  <2>3. PICK i \in 1..Len(Used) : Takes(i)  BY <2>1, ActionTimerStopStep
  <2>4. QED  BY <2>2, <2>3, TakesShow
<1>6. CASE TickWalk
  <2>1. doing = "walk" /\ UNCHANGED <<doing, blocks>> /\ blocks = Entry
    BY <1>6 DEF TickWalk, IInv, Data, Owned
  <2>2. CASE Used' = Used /\ Unused' = Unused /\ expiry' = expiry
    BY <2>1, <2>2, SameShow
  <2>3. CASE \E i \in 1..Len(Used) : Takes(i)
    BY <2>1, <2>3, TakesShow
  <2>4. QED  BY <1>6, <2>2, <2>3, TickWalkStep
<1>7. CASE FreeAllTimers
  <2>1. doing = "freeAll" /\ UNCHANGED <<doing, blocks>> /\ blocks = Entry
    BY <1>7 DEF FreeAllTimers, IInv, Data, Owned
  <2>2. PICK i \in 1..Len(Used) : Takes(i)  BY <1>7, FreeAllTimersStep
  <2>3. QED  BY <2>1, <2>2, TakesShow
<1>8. CASE DestroyStarts \/ FreeBlock \/ DestroyEnds
  BY <1>8, DestroyShows DEF Lists!Next
<1>9. CASE \/ MallocFails \/ AllocTimerFails \/ TickStarts \/ TickEnds \/ Tick
           \/ FreeAllStarts \/ FreeAllEnds \/ UNCHANGED vars
  <2>1. Used' = Used /\ Unused' = Unused
    BY <1>9, MallocFailsStep, AllocTimerFailsStep, TickStartsStep, TickEndsStep,
       TickStep, FreeAllStartsStep, FreeAllEndsStep, StutterStep
  <2>2. /\ expiry' = expiry /\ blocks' = blocks
        /\ doing = "destroy" <=> doing' = "destroy"
        /\ doing = "sort" <=> doing' = "sort"
    BY <1>9 DEF MallocFails, AllocTimerFails, TickStarts, TickEnds, Tick, FreeAllStarts,
                FreeAllEnds, vars, linkVars, loopVars
  <2>3. QED  BY <2>1, <2>2, SameShow
<1>10. QED
  BY <1>1, <1>2, <1>3, <1>4, <1>5, <1>6, <1>7, <1>8, <1>9 DEF Next

\* The pointers implement the lists that TimerServer works with: whatever the
\* code does to them, entry by entry and link by link, is to put one timer where
\* it belongs, to take one out, to create the lists or to destroy them.  The sort
\* among it, which its iteration count never stops short, shows no step at all.
THEOREM ListsImplemented == Spec => ImplementsLists
<1>1. Init => Lists!Init
  <2> SUFFICES ASSUME Init  PROVE Lists!Init  OBVIOUS
  <2>1. Following(PNULL, next, PNULL, MAX_NUM_TIMERS) = <<>>  BY NoList
  <2>2. Used = <<>> /\ Unused = <<>>  BY <2>1 DEF Init, Used, Unused, Chain
  <2>3. UsedList = <<>> /\ FreeList = <<>>  BY <2>2, Outside DEF Init
  <2>4. expiry = Lists!Unused  BY DEF Init, Lists!Unused
  <2>5. QED  BY <2>3, <2>4 DEF Lists!Init
<1>2. IInv /\ [Next]_vars => [Lists!Next]_(Lists!vars)
  BY ListsStep
<1>3. QED  BY <1>1, <1>2, Invariance, PTL DEF Spec, ImplementsLists, Lists!Spec
=============================================================================
