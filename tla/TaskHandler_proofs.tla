------------------------- MODULE TaskHandler_proofs -------------------------
(***************************************************************************)
(* Proofs about the task handler, for every number of blocks, tasks and    *)
(* failures of malloc().                                                   *)
(***************************************************************************)
EXTENDS TaskHandler, SequenceTheorems, FiniteSetTheorems, WellFoundedInduction,
        TLAPS

(***************************************************************************)
(* Linking and unlinking in lists without duplicates, which is what the    *)
(* linked lists of the C code are: an entry is linked in once.             *)
(***************************************************************************)
\* The list obtained by unlinking position i: its length and its elements.
LEMMA UnlinkElements ==
  ASSUME NEW S, NEW s \in Seq(S), NEW i \in 1..Len(s)
  PROVE  /\ RemoveAt(s, i) \in Seq(S)
         /\ Len(RemoveAt(s, i)) = Len(s) - 1
         /\ \A j \in 1..Len(s)-1 :
               RemoveAt(s, i)[j] = IF j < i THEN s[j] ELSE s[j+1]
<1> DEFINE before == SubSeq(s, 1, i-1)
           behind == SubSeq(s, i+1, Len(s))
<1>1. /\ Len(s) \in Nat
      /\ \A j \in 1..Len(s) : s[j] \in S
  OBVIOUS
<1>2. /\ before \in Seq(S) /\ Len(before) = i-1
      /\ \A j \in 1..i-1 : before[j] = s[j]
  BY <1>1, SubSeqProperties
<1>3. /\ behind \in Seq(S) /\ Len(behind) = Len(s) - i
      /\ \A j \in 1..Len(s)-i : behind[j] = s[i+j]
  BY <1>1, SubSeqProperties
<1>4. RemoveAt(s, i) = before \o behind  BY DEF RemoveAt
<1> HIDE DEF before, behind
<1>5. /\ before \o behind \in Seq(S)
      /\ Len(before \o behind) = Len(before) + Len(behind)
      /\ \A j \in 1..Len(before) + Len(behind) : (before \o behind)[j] =
            IF j <= Len(before) THEN before[j] ELSE behind[j - Len(before)]
  BY <1>2, <1>3, ConcatProperties, Zenon
<1>6. Len(before) + Len(behind) = Len(s) - 1
  BY <1>1, <1>2, <1>3
<1>7. ASSUME NEW j \in 1..Len(s)-1
      PROVE  (before \o behind)[j] = IF j < i THEN s[j] ELSE s[j+1]
  <2>1. (before \o behind)[j] =
            IF j <= i-1 THEN before[j] ELSE behind[j - (i-1)]
    BY <1>2, <1>5, <1>6
  <2>2. CASE j < i
    <3>1. j \in 1..i-1 /\ j <= i-1  BY <2>2, <1>1
    <3>2. QED  BY <3>1, <2>1, <2>2, <1>2
  <2>3. CASE ~(j < i)
    <3>1. /\ j - (i-1) \in 1..Len(s)-i /\ ~(j <= i-1)
          /\ i + (j - (i-1)) = j+1
      BY <2>3, <1>1
    <3>2. QED  BY <3>1, <2>1, <2>3, <1>3
  <2>4. QED  BY <2>2, <2>3
<1>8. QED  BY <1>4, <1>5, <1>6, <1>7

\* Unlinking takes exactly the element at position i out of the list.
LEMMA UnlinkOnce ==
  ASSUME NEW S, NEW s \in Seq(S), IsInjective(s), NEW i \in 1..Len(s)
  PROVE  /\ IsInjective(RemoveAt(s, i))
         /\ ToSet(RemoveAt(s, i)) = ToSet(s) \ {s[i]}
<1> DEFINE r == RemoveAt(s, i)
<1>1. /\ r \in Seq(S) /\ Len(r) = Len(s) - 1
      /\ \A j \in 1..Len(s)-1 : r[j] = IF j < i THEN s[j] ELSE s[j+1]
  BY UnlinkElements
<1>2. DOMAIN s = 1..Len(s) /\ DOMAIN r = 1..Len(s)-1 /\ Len(s) \in Nat
  BY <1>1
<1> HIDE DEF r
<1>3. \A j, k \in 1..Len(s) : s[j] = s[k] => j = k
  BY <1>2 DEF IsInjective
<1>4. \A j, k \in 1..Len(s)-1 : r[j] = r[k] => j = k
  <2> TAKE j, k \in 1..Len(s)-1
  <2>1. j \in 1..Len(s) /\ k \in 1..Len(s) /\ j+1 \in 1..Len(s) /\ k+1 \in 1..Len(s)
    BY <1>2
  <2>2. QED  BY <1>1, <1>2, <1>3, <2>1
<1>5. IsInjective(r)
  BY <1>2, <1>4 DEF IsInjective
<1>6. ASSUME NEW j \in 1..Len(s)-1
      PROVE  \E k \in 1..Len(s) : k # i /\ r[j] = s[k]
  <2>1. CASE j < i  BY <2>1, <1>1, <1>2
  <2>2. CASE ~(j < i)
    <3>1. j+1 \in 1..Len(s) /\ j+1 # i  BY <2>2, <1>2
    <3>2. QED  BY <3>1, <2>2, <1>1
  <2>3. QED  BY <2>1, <2>2
<1>7. ASSUME NEW k \in 1..Len(s), k # i
      PROVE  \E j \in 1..Len(s)-1 : r[j] = s[k]
  <2>1. CASE k < i  BY <2>1, <1>1, <1>2
  <2>2. CASE k > i
    <3>1. k-1 \in 1..Len(s)-1 /\ ~(k-1 < i) /\ (k-1)+1 = k  BY <2>2, <1>2
    <3>2. QED  BY <3>1, <1>1
  <2>3. QED  BY <1>7, <2>1, <2>2, <1>2
<1>8. ToSet(r) = ToSet(s) \ {s[i]}
  <2>1. ASSUME NEW z  PROVE z \in ToSet(r) <=> \E j \in 1..Len(s)-1 : z = r[j]
    BY <1>2 DEF ToSet
  <2>2. ASSUME NEW z  PROVE z \in ToSet(s) <=> \E k \in 1..Len(s) : z = s[k]
    BY <1>2 DEF ToSet
  <2>3. ASSUME NEW z \in ToSet(r)  PROVE z \in ToSet(s) /\ z # s[i]
    BY <2>1, <2>2, <1>3, <1>6
  <2>4. ASSUME NEW z \in ToSet(s), z # s[i]  PROVE z \in ToSet(r)
    BY <2>1, <2>2, <2>4, <1>7
  <2>5. QED  BY <2>3, <2>4
<1>9. QED  BY <1>5, <1>8 DEF r

\* Putting an element that was not in the list at its end.
LEMMA AppendOnce ==
  ASSUME NEW S, NEW s \in Seq(S), IsInjective(s), NEW e \in S, e \notin ToSet(s)
  PROVE  /\ Append(s, e) \in Seq(S) /\ Len(Append(s, e)) = Len(s) + 1
         /\ IsInjective(Append(s, e))
         /\ ToSet(Append(s, e)) = ToSet(s) \cup {e}
<1> DEFINE r == Append(s, e)
<1>1. /\ r \in Seq(S) /\ Len(r) = Len(s)+1 /\ r[Len(s)+1] = e
      /\ \A j \in 1..Len(s) : r[j] = s[j]
  BY AppendProperties
<1>2. DOMAIN s = 1..Len(s) /\ DOMAIN r = 1..Len(s)+1 /\ Len(s) \in Nat
  BY <1>1
<1> HIDE DEF r
<1>3. \A j \in 1..Len(s) : s[j] # e
  BY <1>2 DEF ToSet
<1>4. \A j, k \in 1..Len(s) : s[j] = s[k] => j = k
  BY <1>2 DEF IsInjective
<1>5. \A j \in 1..Len(s)+1 : j \in 1..Len(s) \/ j = Len(s)+1
  BY <1>2
<1>6. \A j, k \in 1..Len(s)+1 : r[j] = r[k] => j = k
  BY <1>1, <1>3, <1>4, <1>5
<1>7. IsInjective(r)
  BY <1>2, <1>6 DEF IsInjective
<1>8. ToSet(r) = ToSet(s) \cup {e}
  <2>1. ASSUME NEW z  PROVE z \in ToSet(r) <=> \E j \in 1..Len(s)+1 : z = r[j]
    BY <1>2 DEF ToSet
  <2>2. ASSUME NEW z  PROVE z \in ToSet(s) <=> \E k \in 1..Len(s) : z = s[k]
    BY <1>2 DEF ToSet
  <2>3. 1..Len(s) \subseteq 1..Len(s)+1 /\ Len(s)+1 \in 1..Len(s)+1  BY <1>2
  <2>4. QED  BY <2>1, <2>2, <2>3, <1>1, <1>5
<1>9. QED  BY <1>1, <1>7, <1>8 DEF r

\* A list without duplicates is no longer than there are elements.
LEMMA LengthBound ==
  ASSUME NEW S, IsFiniteSet(S), NEW s \in Seq(S), IsInjective(s)
  PROVE  Len(s) \in Nat /\ Cardinality(S) \in Nat /\ Len(s) <= Cardinality(S)
<1> DEFINE m == Len(s)
<1>1. m \in Nat /\ Cardinality(S) \in Nat  BY FS_CardinalityType
<1>2. s \in Injection(1..m, S)
  BY DEF Injection, IsInjective
<1>3. Cardinality(1..m) <= Cardinality(S)
  BY <1>2, FS_Injection
<1>4. 1 \in Int /\ m \in Int  BY <1>1
<1> HIDE DEF m
<1>5. Cardinality(1..m) = IF 1 > m THEN 0 ELSE m-1+1  BY <1>4, FS_Interval
<1>6. m <= Cardinality(S)  BY <1>1, <1>3, <1>5
<1> USE DEF m
<1>7. QED  BY <1>1, <1>6

\* A set of naturals has a least element: what holds of a position of a list if
\* it holds of those before it holds of all of them.
LEMMA LeastCounterexample ==
  ASSUME NEW T, T \subseteq Nat, T # {}
  PROVE  \E n \in T : \A m \in T : n <= m
<1>1. \E z \in T : \A y \in T : ~ (<<y, z>> \in OpToRel(<, Nat))
  BY WFMin, NatLessThanWellFounded
<1>2. PICK n \in T : \A y \in T : ~ (<<y, n>> \in OpToRel(<, Nat))
  BY <1>1
<1>3. ASSUME NEW m \in T PROVE n <= m
  <2>1. m \in Nat /\ n \in Nat OBVIOUS
  <2>2. m < n => <<m, n>> \in OpToRel(<, Nat)  BY <2>1 DEF OpToRel
  <2>3. ~ (<<m, n>> \in OpToRel(<, Nat))  BY <1>2
  <2>4. ~ (m < n)  BY <2>2, <2>3
  <2>5. QED BY <2>1, <2>4
<1>4. QED BY <1>2, <1>3

\* What runs through the links of s finds s.
LEMMA FollowLinks ==
  ASSUME NEW S, NEW s \in Seq(S), NEW head, NEW link, NEW pnull, NEW bound \in Nat,
         pnull \notin S, Len(s) <= bound, Linked(s, head, link, pnull)
  PROVE  Following(head, link, pnull, bound) = s
<1> DEFINE Step(f, n) == IF n = 1 THEN head
                         ELSE IF f[n-1] = pnull THEN pnull ELSE link[f[n-1]]
           Entries(f) == f = [n \in 1..bound |-> Step(f, n)]
           e0 == [n \in 1..bound |-> At(s, n, pnull)]
           entry == CHOOSE f : Entries(f)
<1>0. Len(s) \in Nat /\ \A i \in 1..Len(s) : s[i] \in S /\ s[i] # pnull
  OBVIOUS
<1>1. ASSUME NEW n \in 1..bound
      PROVE  Step(e0, n) = At(s, n, pnull)
  <2>1. CASE n = 1  BY <2>1 DEF Linked
  <2>2. CASE n # 1
    <3>1. n-1 \in 1..bound /\ e0[n-1] = At(s, n-1, pnull)  BY <2>2
    <3>2. CASE n-1 \in 1..Len(s)
      <4>1. link[s[n-1]] = At(s, (n-1)+1, pnull)  BY <3>2 DEF Linked
      <4>2. (n-1)+1 = n OBVIOUS
      <4>3. QED BY <3>1, <3>2, <4>1, <4>2, <2>2, <1>0 DEF At
    <3>3. CASE n-1 \notin 1..Len(s)
      <4>1. n \notin 1..Len(s)  BY <3>3, <2>2, <1>0
      <4>2. QED BY <3>1, <3>3, <4>1, <2>2 DEF At
    <3>4. QED BY <3>2, <3>3
  <2>3. QED BY <2>1, <2>2
<1>2. Entries(e0)  BY <1>1
<1>3. Entries(entry)  BY <1>2
<1>4. ASSUME NEW f, Entries(f)
      PROVE  \A n \in 1..bound : f[n] = At(s, n, pnull)
  <2> DEFINE Bad == {n \in 1..bound : f[n] # At(s, n, pnull)}
  <2>1. ASSUME Bad # {}  PROVE FALSE
    <3>0. Bad \subseteq Nat  OBVIOUS
    <3> HIDE DEF Bad
    <3>1. PICK n \in Bad : \A m \in Bad : n <= m
      BY <2>1, <3>0, LeastCounterexample
    <3> USE DEF Bad
    <3>2. n \in 1..bound /\ f[n] = Step(f, n)  BY <1>4, <3>1
    <3>3. n # 1  BY <3>2, <3>1 DEF Linked
    <3>4. n-1 \in 1..bound /\ n-1 \notin Bad  BY <3>1, <3>2, <3>3
    <3>5. f[n-1] = e0[n-1]  BY <3>4
    <3>6. Step(f, n) = Step(e0, n)  BY <3>5, <3>3
    <3>7. QED BY <3>1, <3>2, <3>6, <1>1
  <2>2. QED BY <2>1
<1>5. \A n \in 1..bound : entry[n] = At(s, n, pnull)  BY <1>3, <1>4
<1>6. Following(head, link, pnull, bound) =
        [n \in 1..Cardinality({i \in 1..bound : entry[i] # pnull}) |-> entry[n]]
  BY DEF Following
<1> HIDE DEF entry
<1>7. {i \in 1..bound : entry[i] # pnull} = 1..Len(s)
  BY <1>0, <1>5 DEF At
<1>8. Cardinality(1..Len(s)) = Len(s)
  <2> DEFINE m == Len(s)
  <2>1. 1 \in Int /\ m \in Int  BY <1>0
  <2> HIDE DEF m
  <2>2. Cardinality(1..m) = IF 1 > m THEN 0 ELSE m-1+1  BY <2>1, FS_Interval
  <2> USE DEF m
  <2>3. QED  BY <1>0, <2>2
<1>9. \A n \in 1..Len(s) : entry[n] = s[n]  BY <1>0, <1>5 DEF At
<1>10. s = [n \in 1..Len(s) |-> s[n]]  BY <1>0
<1>11. QED BY <1>6, <1>7, <1>8, <1>9, <1>10

\* The links of a list that e is linked to the end of.
LEMMA AppendLinked ==
  ASSUME NEW S, NEW s \in Seq(S), NEW e \in S, NEW pnull,
         NEW head, NEW link, Linked(s, head, link, pnull),
         NEW headAfter, NEW linkAfter,
         headAfter = IF s = <<>> THEN e ELSE head,
         linkAfter[e] = pnull,
         \A i \in 1..Len(s) :
           linkAfter[s[i]] = IF i = Len(s) THEN e ELSE link[s[i]]
  PROVE  Linked(Append(s, e), headAfter, linkAfter, pnull)
<1> DEFINE r == Append(s, e)
<1>1. /\ r \in Seq(S) /\ Len(r) = Len(s)+1 /\ r[Len(s)+1] = e
      /\ \A j \in 1..Len(s) : r[j] = s[j]
  BY AppendProperties
<1>2. Len(s) \in Nat /\ (s = <<>> <=> Len(s) = 0)  BY EmptySeq
<1> HIDE DEF r
<1>3. headAfter = At(r, 1, pnull)
  <2>1. CASE s = <<>>  BY <2>1, <1>1, <1>2 DEF At
  <2>2. CASE s # <<>>
    <3>1. 1 \in 1..Len(s) /\ 1 \in 1..Len(s)+1  BY <2>2, <1>2
    <3>2. QED  BY <2>2, <3>1, <1>1 DEF At, Linked
  <2>3. QED  BY <2>1, <2>2
<1>4. ASSUME NEW i \in 1..Len(r)
      PROVE  linkAfter[r[i]] = At(r, i+1, pnull)
  <2>1. CASE i = Len(s)+1
    <3>1. i+1 \notin 1..Len(r)  BY <2>1, <1>1, <1>2
    <3>2. QED  BY <2>1, <3>1, <1>1 DEF At
  <2>2. CASE i = Len(s) /\ i # 0
    <3>1. i \in 1..Len(s) /\ i+1 \in 1..Len(r)  BY <2>2, <1>1, <1>2
    <3>2. QED  BY <2>2, <3>1, <1>1 DEF At
  <2>3. CASE i < Len(s)
    <3>1. /\ i \in 1..Len(s) /\ i+1 \in 1..Len(s) /\ i+1 \in 1..Len(r)
          /\ i # Len(s)
      BY <2>3, <1>1, <1>2
    <3>2. linkAfter[r[i]] = link[s[i]]  BY <3>1, <1>1
    <3>3. link[s[i]] = s[i+1]  BY <3>1 DEF At, Linked
    <3>4. r[i+1] = s[i+1]  BY <3>1, <1>1
    <3>5. QED  BY <3>1, <3>2, <3>3, <3>4 DEF At
  <2>4. QED  BY <2>1, <2>2, <2>3, <1>1, <1>2
<1>5. QED  BY <1>3, <1>4 DEF Linked, r

\* The links of a list that the entry at position i is unlinked from.
LEMMA UnlinkLinked ==
  ASSUME NEW S, NEW s \in Seq(S), NEW i \in 1..Len(s), NEW pnull,
         NEW head, NEW link, Linked(s, head, link, pnull),
         NEW headAfter, NEW linkAfter,
         headAfter = IF i = 1 THEN link[s[i]] ELSE head,
         \A j \in 1..Len(s) : j # i =>
           linkAfter[s[j]] = IF j+1 = i THEN link[s[i]] ELSE link[s[j]]
  PROVE  Linked(RemoveAt(s, i), headAfter, linkAfter, pnull)
<1> DEFINE r == RemoveAt(s, i)
<1>1. /\ r \in Seq(S) /\ Len(r) = Len(s) - 1
      /\ \A j \in 1..Len(s)-1 : r[j] = IF j < i THEN s[j] ELSE s[j+1]
  BY UnlinkElements
<1>2. Len(s) \in Nat  OBVIOUS
<1> HIDE DEF r
<1>3. link[s[i]] = At(r, i, pnull)
  <2>1. link[s[i]] = At(s, i+1, pnull)  BY DEF Linked
  <2>2. i+1 \in 1..Len(s) <=> i \in 1..Len(r)  BY <1>1, <1>2
  <2>3. i \in 1..Len(r) => r[i] = s[i+1]  BY <1>1
  <2>4. QED  BY <2>1, <2>2, <2>3 DEF At
<1>4. headAfter = At(r, 1, pnull)
  <2>1. CASE i = 1  BY <2>1, <1>3
  <2>2. CASE i # 1
    <3>1. 1 \in 1..Len(s) /\ 1 \in 1..Len(r) /\ 1 < i  BY <2>2, <1>1, <1>2
    <3>2. QED  BY <2>2, <3>1, <1>1 DEF At, Linked
  <2>3. QED  BY <2>1, <2>2
<1>5. ASSUME NEW j \in 1..Len(r)
      PROVE  linkAfter[r[j]] = At(r, j+1, pnull)
  <2>1. CASE j+1 = i
    <3>1. j \in 1..Len(s) /\ j # i /\ j < i  BY <2>1, <1>1, <1>2
    <3>2. QED  BY <2>1, <3>1, <1>1, <1>3
  <2>2. CASE j+1 < i
    <3>1. /\ j \in 1..Len(s) /\ j # i /\ j < i /\ j+1 # i
          /\ j+1 \in 1..Len(s) /\ j+1 \in 1..Len(r)
      BY <2>2, <1>1, <1>2
    <3>2. linkAfter[r[j]] = link[s[j]]  BY <3>1, <1>1
    <3>3. link[s[j]] = s[j+1] /\ r[j+1] = s[j+1]  BY <3>1, <2>2, <1>1 DEF At, Linked
    <3>4. QED  BY <3>1, <3>2, <3>3 DEF At
  <2>3. CASE j+1 > i
    <3>1. /\ j+1 \in 1..Len(s) /\ j+1 # i /\ ~(j < i) /\ (j+1)+1 # i
          /\ ~(j+1 < i)
          /\ (j+1)+1 \in 1..Len(s) <=> j+1 \in 1..Len(r)
      BY <2>3, <1>1, <1>2
    <3>2. r[j] = s[j+1]  BY <3>1, <1>1
    <3>3. linkAfter[s[j+1]] = link[s[j+1]]  BY <3>1
    <3>4. link[s[j+1]] = At(s, (j+1)+1, pnull)  BY <3>1 DEF Linked
    <3>5. j+1 \in 1..Len(r) => r[j+1] = s[(j+1)+1]  BY <3>1, <1>1
    <3>6. QED  BY <3>1, <3>2, <3>3, <3>4, <3>5 DEF At
  <2>4. QED  BY <2>1, <2>2, <2>3, <1>1, <1>2
<1>6. QED  BY <1>4, <1>5 DEF Linked, r

(***************************************************************************)
(* The inductive invariant.                                                *)
(***************************************************************************)
\* The links from gTaskListRoot on run through each entry once.
Chained ==
  /\ Tasks \in Seq(Block) /\ IsInjective(Tasks)
  /\ Linked(Tasks, next[Root], next, PNULL)

Held ==
  ~Down =>
    /\ malloced = ToSet(Tasks)
    /\ \A i \in 1..Len(Tasks) :
         /\ prev[Tasks[i]] = IF i = 1 THEN Root ELSE Tasks[i-1]
         /\ item[Tasks[i]] \in TaskItem

\* A result is kept only where nobody asked for it, and no two entries are
\* of one task.
Reported ==
  ~Down => \A i \in 1..Len(Tasks) :
    LET it == item[Tasks[i]] IN
    /\ ~it.taskCompleted \/ it.task.headerPresent => it.pResult = PNULL
    /\ it.handle \in ToSet(accepted)
    /\ ~it.taskCompleted => it.handle \notin ToSet(done)
    /\ \A j \in 1..Len(Tasks) : i # j => it.handle # item[Tasks[j]].handle

Counted ==
  ~Down =>
    /\ \A h \in ToSet(accepted) : h < sent
    /\ IsInjective(done)
    /\ ToSet(done) \subseteq ToSet(accepted)
    /\ \A h \in ToSet(accepted) :
         \/ h \in ToSet(done)
         \/ \E i \in 1..Len(Tasks) :
              ~item[Tasks[i]].taskCompleted /\ item[Tasks[i]].handle = h

\* While no result went without memory, what is done is the beginning of what
\* was accepted, and the rest stands at the end of the list in that order.
InTurn ==
  starved = 0 =>
    /\ Len(done) <= Len(accepted)
    /\ \A i \in 1..Len(done) : done[i] = accepted[i]
    /\ ~Down =>
         /\ Len(accepted) - Len(Tasks) \in 0..Len(done)
         /\ \A i \in 1..Len(Tasks) :
              /\ item[Tasks[i]].taskCompleted
                   <=> Len(accepted) - Len(Tasks) + i <= Len(done)
              /\ ~item[Tasks[i]].taskCompleted =>
                   item[Tasks[i]].handle = accepted[Len(accepted) - Len(Tasks) + i]

\* Where the loops are in the list, and what they have left behind.
Here ==
  /\ doing = "launched" => Tasks = <<>>
  /\ doing = "idle" => \A i \in 1..Len(Tasks) : ~Unused(Tasks[i])
  /\ doing = "ticking" =>
       \E k \in 0..Len(Tasks) :
         /\ pThis = IF k = 0 THEN Root ELSE Tasks[k]
         /\ starved = 0 => \A i \in 1..k : item[Tasks[i]].taskCompleted
  /\ doing = "walking" =>
       \E k \in 1..Len(Tasks)+1 :
         /\ pThis = At(Tasks, k, PNULL)
         /\ pPrevious = IF k = 1 THEN Root ELSE pThis
         /\ \A i \in 1..k-1 : ~Unused(Tasks[i])
  /\ doing = "undefined" => \E p \in malloced : ~Unused(p)

Data == Chained /\ Held /\ Reported /\ Counted /\ InTurn /\ ToldOnce
IInv == TypeOK /\ Data /\ Here

(***************************************************************************)
(* The list as a sequence.                                                 *)
(***************************************************************************)
\* What the links run through is the list.
LEMMA TasksAre ==
  ASSUME NEW s \in Seq(Block), IsInjective(s), NEW n, Linked(s, n[Root], n, PNULL)
  PROVE  Following(n[Root], n, PNULL, Cardinality(Block)) = s
<1>1. IsFiniteSet(Block) /\ PNULL \notin Block  BY TaskHandlerAssumption
<1>2. Cardinality(Block) \in Nat /\ Len(s) <= Cardinality(Block)
  BY <1>1, LengthBound
<1>3. QED  BY <1>1, <1>2, FollowLinks

LEMMA EmptyList ==
  ASSUME NEW n, n[Root] = PNULL
  PROVE  /\ Following(n[Root], n, PNULL, Cardinality(Block)) = <<>>
         /\ Linked(<<>>, n[Root], n, PNULL)
         /\ <<>> \in Seq(Block) /\ IsInjective(<<>>)
<1>1. <<>> \in Seq(Block) /\ IsInjective(<<>>) /\ Len(<<>>) = 0
  BY EmptySeq DEF IsInjective
<1>2. Linked(<<>>, n[Root], n, PNULL)
  BY <1>1 DEF Linked, At
<1>3. QED  BY <1>1, <1>2, TasksAre

\* Every position of the list, by the links.
LEMMA Positions ==
  ASSUME TypeOK, Chained
  PROVE  /\ Len(Tasks) \in Nat
         /\ \A i \in 1..Len(Tasks) : Tasks[i] \in Block /\ Tasks[i] # PNULL /\ Tasks[i] # Root
         /\ \A i, j \in 1..Len(Tasks) : Tasks[i] = Tasks[j] => i = j
         /\ next[Root] = At(Tasks, 1, PNULL)
         /\ \A i \in 1..Len(Tasks) : next[Tasks[i]] = At(Tasks, i+1, PNULL)
         /\ ToSet(Tasks) = {Tasks[i] : i \in 1..Len(Tasks)}
<1>1. Tasks \in Seq(Block) /\ DOMAIN Tasks = 1..Len(Tasks)  BY DEF Chained
<1>2. /\ next[Root] = At(Tasks, 1, PNULL)
      /\ \A i \in 1..Len(Tasks) : next[Tasks[i]] = At(Tasks, i+1, PNULL)
  BY DEF Chained, Linked
<1>3. \A i, j \in 1..Len(Tasks) : Tasks[i] = Tasks[j] => i = j
  BY <1>1 DEF Chained, IsInjective
<1>4. \A i \in 1..Len(Tasks) : Tasks[i] \in Block /\ Tasks[i] # PNULL /\ Tasks[i] # Root
  BY <1>1, TaskHandlerAssumption
<1>5. ToSet(Tasks) = {Tasks[i] : i \in 1..Len(Tasks)}  BY <1>1 DEF ToSet
<1>6. QED  BY <1>1, <1>2, <1>3, <1>4, <1>5

\* A sequence and what is put at its end.
LEMMA AppendFacts ==
  ASSUME NEW S, NEW s \in Seq(S), NEW e \in S
  PROVE  /\ Append(s, e) \in Seq(S) /\ Len(s) \in Nat /\ Len(Append(s, e)) = Len(s)+1
         /\ Append(s, e)[Len(s)+1] = e
         /\ \A i \in 1..Len(s) : Append(s, e)[i] = s[i]
         /\ ToSet(Append(s, e)) = ToSet(s) \cup {e}
<1> DEFINE r == Append(s, e)
<1>1. /\ r \in Seq(S) /\ Len(r) = Len(s)+1 /\ r[Len(s)+1] = e
      /\ \A j \in 1..Len(s) : r[j] = s[j]
  BY AppendProperties
<1>2. DOMAIN s = 1..Len(s) /\ DOMAIN r = 1..Len(s)+1 /\ Len(s) \in Nat
  BY <1>1
<1> HIDE DEF r
<1>3. /\ \A j \in 1..Len(s)+1 : j \in 1..Len(s) \/ j = Len(s)+1
      /\ 1..Len(s) \subseteq 1..Len(s)+1 /\ Len(s)+1 \in 1..Len(s)+1
  BY <1>2
<1>4. ToSet(r) = ToSet(s) \cup {e}
  BY <1>1, <1>2, <1>3 DEF ToSet
<1>5. QED  BY <1>1, <1>2, <1>4 DEF r

(***************************************************************************)
(* What is kept by the steps that leave the list and the history alone.    *)
(***************************************************************************)
\* Neither the entries nor what is known of the tasks changes: a task may have
\* been refused, or a result may have found no room.
Still ==
  /\ UNCHANGED <<next, prev, item, malloced, accepted, done, told>>
  /\ sent' \in {sent, sent + 1}
  /\ starved' = starved \/ starved' # 0
  /\ Down => Down'

LEMMA StillKeeps ==
  ASSUME TypeOK, Data, Still
  PROVE  Data' /\ Tasks' = Tasks
<1>1. Tasks' = Tasks  BY DEF Still, Tasks
<1>2. Chained'  BY <1>1 DEF Data, Chained, Still
<1>3. Held'  BY <1>1 DEF Data, Held, Still
<1>4. Reported'  BY <1>1 DEF Data, Reported, Still
<1>5. Counted'
  <2> SUFFICES ASSUME ~Down'  PROVE Counted'  BY DEF Counted
  <2>1. Counted /\ ~Down  BY DEF Data, Still
  <2>2. ASSUME NEW h \in ToSet(accepted)  PROVE h < sent'
    <3>1. h < sent  BY <2>1 DEF Counted
    <3>2. accepted \in Seq(Handle) /\ sent \in 0..MaxTasks /\ MaxTasks \in Nat
      BY TaskHandlerAssumption DEF TypeOK
    <3>3. h \in Handle  BY <3>2 DEF ToSet
    <3>4. h \in Int /\ sent \in Int  BY <3>2, <3>3 DEF Handle
    <3>5. QED  BY <3>1, <3>4 DEF Still
  <2>3. QED  BY <1>1, <2>1, <2>2 DEF Counted, Still
<1>6. InTurn'  BY <1>1 DEF Data, InTurn, Still
<1>7. ToldOnce'  BY DEF Data, ToldOnce, Still
<1>8. QED  BY <1>1, <1>2, <1>3, <1>4, <1>5, <1>6, <1>7 DEF Data

(***************************************************************************)
(* The initial state.                                                      *)
(***************************************************************************)
LEMMA InitInvariant == Init => IInv
<1> SUFFICES ASSUME Init  PROVE IInv  OBVIOUS
<1>1. next[Root] = PNULL  BY DEF Init
<1>2. Tasks = <<>> /\ Chained  BY <1>1, EmptyList DEF Tasks, Chained
<1>3. TypeOK
  <2>1. <<>> \in Seq(Handle) /\ <<>> \in Seq([handle : Handle, result : Result])
    BY EmptySeq
  <2>2. QED  BY <2>1, TaskHandlerAssumption DEF Init, TypeOK, Stage
<1>4. ToSet(<<>>) = {} /\ IsInjective(<<>>) /\ Len(<<>>) = 0
  BY DEF ToSet, IsInjective
<1>5. Held /\ Reported  BY <1>2, <1>4 DEF Held, Reported, Init
<1>6. Counted  BY <1>4 DEF Counted, Init
<1>7. InTurn  BY <1>2, <1>4 DEF InTurn, Init
<1>8. ToldOnce  BY DEF ToldOnce, Init
<1>9. Here  BY <1>2 DEF Here, Init
<1>10. QED  BY <1>2, <1>3, <1>5, <1>6, <1>7, <1>8, <1>9 DEF IInv, Data

(***************************************************************************)
(* The messages that do not touch the list.                                *)
(***************************************************************************)
LEMMA InitTaskListStep ==
  ASSUME IInv, InitTaskList  PROVE IInv'
<1>1. TypeOK /\ Data /\ Tasks = <<>>  BY DEF IInv, Here, InitTaskList
<1>2. next' = next
  <2>1. next[Root] = PNULL  BY <1>1, Positions DEF At, Data
  <2>2. QED  BY <1>1, <2>1 DEF InitTaskList, TypeOK
<1>3. Still  BY <1>2 DEF InitTaskList, Still, history, Down
<1>4. Data' /\ Tasks' = <<>>  BY <1>1, <1>3, StillKeeps
<1>5. TypeOK'  BY <1>1, <1>2 DEF InitTaskList, TypeOK, Stage, history
<1>6. Here'  BY <1>4 DEF Here, InitTaskList
<1>7. QED  BY <1>4, <1>5, <1>6 DEF IInv

LEMMA NewTaskReqFailsStep ==
  ASSUME IInv, NewTaskReqFails  PROVE IInv'
<1>1. TypeOK /\ Data  BY DEF IInv
<1>2. Still  BY DEF NewTaskReqFails, Still, Down, list
<1>3. Data' /\ Tasks' = Tasks  BY <1>1, <1>2, StillKeeps
<1>4. TypeOK'
  <2>1. sent' \in 0..MaxTasks  BY <1>1, TaskHandlerAssumption DEF NewTaskReqFails, TypeOK
  <2>2. QED  BY <1>1, <2>1 DEF NewTaskReqFails, TypeOK, list
<1>5. Here'  BY <1>3 DEF IInv, Here, NewTaskReqFails, Unused, list
<1>6. QED  BY <1>3, <1>4, <1>5 DEF IInv

LEMMA TickTaskHandlerStep ==
  ASSUME IInv, TickTaskHandler  PROVE IInv'
<1>1. TypeOK /\ Data  BY DEF IInv
<1>2. Still  BY DEF TickTaskHandler, Still, Down, list, history
<1>3. Data' /\ Tasks' = Tasks  BY <1>1, <1>2, StillKeeps
<1>4. TypeOK'  BY <1>1 DEF TickTaskHandler, TypeOK, list, history, Stage
<1>5. Here'
  <2>1. Len(Tasks) \in Nat  BY <1>1, Positions DEF Data
  <2>2. 0 \in 0..Len(Tasks) /\ \A i \in 1..0 : FALSE  BY <2>1
  <2>3. pThis' = Root /\ doing' \in {"ticking", "aborted"}  BY DEF TickTaskHandler
  <2>4. \E k \in 0..Len(Tasks) :
          /\ pThis' = IF k = 0 THEN Root ELSE Tasks[k]
          /\ starved' = 0 => \A i \in 1..k : item'[Tasks[i]].taskCompleted
    BY <2>2, <2>3
  <2>5. QED  BY <1>3, <2>3, <2>4 DEF Here
<1>6. QED  BY <1>3, <1>4, <1>5 DEF IInv

(***************************************************************************)
(* TASK_HANDLER_TICK: the loop over the tasks.                             *)
(***************************************************************************)
\* Where the loop goes next.
LEMMA TickPosition ==
  ASSUME IInv, doing = "ticking"
  PROVE  \E k \in 0..Len(Tasks) :
           /\ Len(Tasks) \in Nat
           /\ pThis = IF k = 0 THEN Root ELSE Tasks[k]
           /\ starved = 0 => \A i \in 1..k : item[Tasks[i]].taskCompleted
           /\ next[pThis] = At(Tasks, k+1, PNULL)
           /\ next[pThis] # PNULL =>
                /\ k+1 \in 1..Len(Tasks) /\ next[pThis] = Tasks[k+1]
                /\ next[pThis] \in Block /\ item[next[pThis]] \in TaskItem
<1>1. PICK k \in 0..Len(Tasks) :
         /\ pThis = IF k = 0 THEN Root ELSE Tasks[k]
         /\ starved = 0 => \A i \in 1..k : item[Tasks[i]].taskCompleted
  BY DEF IInv, Here
<1>2. /\ Len(Tasks) \in Nat
      /\ \A i \in 1..Len(Tasks) : Tasks[i] \in Block
      /\ next[Root] = At(Tasks, 1, PNULL)
      /\ \A i \in 1..Len(Tasks) : next[Tasks[i]] = At(Tasks, i+1, PNULL)
  BY Positions DEF IInv, Data
<1>3. next[pThis] = At(Tasks, k+1, PNULL)
  <2>1. CASE k = 0  BY <2>1, <1>1, <1>2
  <2>2. CASE k # 0
    <3>1. k \in 1..Len(Tasks)  BY <2>2, <1>2
    <3>2. QED  BY <2>2, <3>1, <1>1, <1>2
  <2>3. QED  BY <2>1, <2>2
<1>4. \A i \in 1..Len(Tasks) : item[Tasks[i]] \in TaskItem
  BY DEF IInv, Data, Held, Down
<1>5. QED  BY <1>1, <1>2, <1>3, <1>4 DEF At

\* What doTaskCompleted makes of an entry.
LEMMA DoTaskCompletedFacts ==
  ASSUME TypeOK, NEW p \in Block, item[p] \in TaskItem,
         NEW completed \in BOOLEAN, NEW res \in Result \cup {PNULL},
         DoTaskCompleted(p, completed, res)
  PROVE  /\ item' \in [Block -> TaskItem \cup {PNULL}]
         /\ \A q \in Block : q # p => item'[q] = item[q]
         /\ item'[p] \in TaskItem
         /\ item'[p].handle = item[p].handle /\ item'[p].task = item[p].task
         /\ item'[p].taskCompleted <=> completed
         /\ item'[p].pResult \in {PNULL, res}
         /\ item[p].task.headerPresent => item'[p].pResult = PNULL
         /\ ~item[p].task.headerPresent => item'[p].pResult = res
         /\ told' \in {told, Append(told, [handle |-> item[p].handle, result |-> res])}
         /\ ~item[p].task.headerPresent \/ res = PNULL => told' = told
<1> DEFINE asked == item[p].task.headerPresent /\ res # PNULL
           left == IF asked THEN PNULL ELSE res
           it == [item[p] EXCEPT !.taskCompleted = completed, !.pResult = left]
<1>0. item \in [Block -> TaskItem \cup {PNULL}]  BY DEF TypeOK
<1>1. item' = [item EXCEPT ![p] = it]
  BY <1>0 DEF DoTaskCompleted
<1>2. left \in Result \cup {PNULL}  OBVIOUS
<1>3. /\ it \in TaskItem /\ it.handle = item[p].handle /\ it.task = item[p].task
      /\ it.taskCompleted = completed /\ it.pResult = left
  BY <1>2 DEF TaskItem
<1>4. /\ asked => told' \in {told, Append(told, [handle |-> item[p].handle, result |-> res])}
      /\ ~asked => told' = told
  BY DEF DoTaskCompleted
<1> HIDE DEF it
<1>5. /\ item' \in [Block -> TaskItem \cup {PNULL}]
      /\ \A q \in Block : q # p => item'[q] = item[q]
      /\ item'[p] = it
  BY <1>0, <1>1, <1>3
<1>6. QED  BY <1>3, <1>4, <1>5

\* An entry whose result, if any, is kept for good is left as it is.
LEMMA DoTaskCompletedAgain ==
  ASSUME TypeOK, NEW p \in Block, item[p] \in TaskItem,
         NEW completed \in BOOLEAN, item[p].taskCompleted = completed,
         item[p].task.headerPresent => item[p].pResult = PNULL,
         DoTaskCompleted(p, completed, item[p].pResult)
  PROVE  item' = item /\ told' = told
<1>1. item \in [Block -> TaskItem \cup {PNULL}]  BY DEF TypeOK
<1>2. ~(item[p].task.headerPresent /\ item[p].pResult # PNULL)
  OBVIOUS
<1>3. item' = [item EXCEPT ![p].taskCompleted = completed, ![p].pResult = item[p].pResult]
  BY <1>2 DEF DoTaskCompleted
<1>4. [item[p] EXCEPT !.taskCompleted = completed, !.pResult = item[p].pResult] = item[p]
  BY DEF TaskItem
<1>5. item' = item  BY <1>1, <1>3, <1>4
<1>6. told' = told  BY <1>2 DEF DoTaskCompleted
<1>7. QED  BY <1>5, <1>6

LEMMA DoTaskFailsStep ==
  ASSUME IInv, DoTaskFails  PROVE IInv'
<1>1. TypeOK /\ Data /\ doing = "ticking" /\ ~Down  BY DEF IInv, DoTaskFails, Down
<1>2. PICK k \in 0..Len(Tasks) :
           /\ Len(Tasks) \in Nat
           /\ k+1 \in 1..Len(Tasks) /\ next[pThis] = Tasks[k+1]
           /\ next[pThis] \in Block /\ item[next[pThis]] \in TaskItem
  BY <1>1, TickPosition DEF DoTaskFails
<1> DEFINE p == next[pThis]
<1>3. /\ ~item[p].taskCompleted /\ pThis' = p /\ DoTaskCompleted(p, FALSE, PNULL)
      /\ starved' = starved + 1 /\ starved < MaxStarved
      /\ UNCHANGED <<doing, pPrevious, next, prev, malloced, sent, accepted, done>>
  BY DEF DoTaskFails
<1> HIDE DEF p
<1>4. p \in Block /\ item[p] \in TaskItem /\ p = Tasks[k+1]  BY <1>2 DEF p
<1>5. item[p].taskCompleted = FALSE /\ item[p].pResult = PNULL
  <2>1. item[p].taskCompleted \in BOOLEAN  BY <1>4 DEF TaskItem
  <2>2. item[p].pResult = PNULL  BY <1>1, <1>2, <1>3, <1>4 DEF Data, Reported
  <2>3. QED  BY <2>1, <2>2, <1>3
<1>6. item' = item /\ told' = told
  <2>1. DoTaskCompleted(p, FALSE, item[p].pResult)  BY <1>3, <1>5
  <2>2. QED  BY <1>1, <1>4, <1>5, <2>1, DoTaskCompletedAgain
<1>7. starved' \in 0..MaxStarved /\ starved' # 0
  BY <1>1, <1>3, TaskHandlerAssumption DEF TypeOK
<1>8. Still  BY <1>3, <1>6, <1>7 DEF Still, Down
<1>9. Data' /\ Tasks' = Tasks  BY <1>1, <1>8, StillKeeps
<1>10. TypeOK'  BY <1>1, <1>3, <1>4, <1>6, <1>7 DEF TypeOK
<1>11. Here'
  <2>1. k+1 \in 0..Len(Tasks) /\ k+1 # 0  BY <1>2
  <2>2. QED  BY <1>1, <1>3, <1>4, <1>7, <1>9, <2>1 DEF Here
<1>12. QED  BY <1>9, <1>10, <1>11 DEF IInv

LEMMA PassCompletedTaskStep ==
  ASSUME IInv, PassCompletedTask  PROVE IInv'
<1>1. TypeOK /\ Data /\ doing = "ticking" /\ ~Down
  BY DEF IInv, PassCompletedTask, Down
<1>2. PICK k \in 0..Len(Tasks) :
           /\ Len(Tasks) \in Nat
           /\ starved = 0 => \A i \in 1..k : item[Tasks[i]].taskCompleted
           /\ k+1 \in 1..Len(Tasks) /\ next[pThis] = Tasks[k+1]
           /\ next[pThis] \in Block /\ item[next[pThis]] \in TaskItem
  BY <1>1, TickPosition DEF PassCompletedTask
<1> DEFINE p == next[pThis]
<1>3. /\ item[p].taskCompleted /\ pThis' = p
      /\ DoTaskCompleted(p, TRUE, item[p].pResult)
      /\ UNCHANGED <<doing, pPrevious, next, prev, malloced, sent, accepted, done,
                     starved>>
  BY DEF PassCompletedTask
<1> HIDE DEF p
<1>4. p \in Block /\ item[p] \in TaskItem /\ p = Tasks[k+1]  BY <1>2 DEF p
<1>5. /\ item[p].taskCompleted = TRUE
      /\ item[p].task.headerPresent => item[p].pResult = PNULL
  <2>1. item[p].taskCompleted \in BOOLEAN  BY <1>4 DEF TaskItem
  <2>2. item[p].task.headerPresent => item[p].pResult = PNULL
    BY <1>1, <1>2, <1>4 DEF Data, Reported
  <2>3. QED  BY <2>1, <2>2, <1>3
<1>6. item' = item /\ told' = told
  BY <1>1, <1>3, <1>4, <1>5, DoTaskCompletedAgain
<1>8. Still  BY <1>3, <1>6 DEF Still, Down
<1>9. Data' /\ Tasks' = Tasks  BY <1>1, <1>8, StillKeeps
<1>10. TypeOK'  BY <1>1, <1>3, <1>4, <1>6 DEF TypeOK
<1>11. Here'
  <2>1. k+1 \in 0..Len(Tasks) /\ k+1 # 0  BY <1>2
  <2>2. starved = 0 => \A i \in 1..k+1 : item[Tasks[i]].taskCompleted
    <3>1. \A i \in 1..k+1 : i \in 1..k \/ i = k+1  BY <1>2
    <3>2. QED  BY <1>2, <1>3, <1>4, <3>1
  <2>3. QED  BY <1>1, <1>3, <1>4, <1>6, <1>9, <2>1, <2>2 DEF Here
<1>12. QED  BY <1>9, <1>10, <1>11 DEF IInv

LEMMA TasksDoneStep ==
  ASSUME IInv, TasksDone  PROVE IInv'
<1>1. TypeOK /\ Data  BY DEF IInv
<1>2. Still  BY DEF TasksDone, Still, Down, list, history
<1>3. Data' /\ Tasks' = Tasks  BY <1>1, <1>2, StillKeeps
<1>4. TypeOK'  BY <1>1 DEF TasksDone, TypeOK, list, history, Stage
<1>5. Here'
  <2>1. Len(Tasks) \in Nat /\ next[Root] = At(Tasks, 1, PNULL)
    BY <1>1, Positions DEF Data
  <2>2. 1 \in 1..Len(Tasks)+1 /\ \A i \in 1..1-1 : FALSE  BY <2>1
  <2>3. pThis' = At(Tasks, 1, PNULL) /\ pPrevious' = Root /\ doing' = "walking"
    BY <2>1 DEF TasksDone
  <2>4. \E k \in 1..Len(Tasks)+1 :
          /\ pThis' = At(Tasks, k, PNULL)
          /\ pPrevious' = IF k = 1 THEN Root ELSE pThis'
          /\ \A i \in 1..k-1 : ~Unused(Tasks[i])'
    BY <2>2, <2>3
  <2>5. QED  BY <1>3, <2>3, <2>4 DEF Here
<1>6. QED  BY <1>3, <1>4, <1>5 DEF IInv

LEMMA DoTaskStep ==
  ASSUME IInv, DoTask  PROVE IInv'
<1>1. TypeOK /\ Data /\ doing = "ticking" /\ ~Down  BY DEF IInv, DoTask, Down
<1>2. PICK k \in 0..Len(Tasks) :
           /\ Len(Tasks) \in Nat
           /\ starved = 0 => \A i \in 1..k : item[Tasks[i]].taskCompleted
           /\ k+1 \in 1..Len(Tasks) /\ next[pThis] = Tasks[k+1]
           /\ next[pThis] \in Block /\ item[next[pThis]] \in TaskItem
  BY <1>1, TickPosition DEF DoTask
<1> DEFINE p == next[pThis]
<1>3. /\ ~item[p].taskCompleted /\ pThis' = p
      /\ \E res \in Outcome(item[p].task) : DoTaskCompleted(p, TRUE, res)
      /\ done' = Append(done, item[p].handle)
      /\ UNCHANGED <<doing, pPrevious, next, prev, malloced, sent, accepted, starved>>
  BY DEF DoTask
<1> HIDE DEF p
<1>4. p \in Block /\ item[p] \in TaskItem /\ p = Tasks[k+1]  BY <1>2 DEF p
<1> DEFINE h == item[p].handle
<1>5. PICK res \in Result : DoTaskCompleted(p, TRUE, res)
  BY <1>3 DEF Outcome, Result
<1>6. /\ item' \in [Block -> TaskItem \cup {PNULL}]
      /\ \A q \in Block : q # p => item'[q] = item[q]
      /\ item'[p] \in TaskItem
      /\ item'[p].handle = h /\ item'[p].task = item[p].task
      /\ item'[p].taskCompleted
      /\ item[p].task.headerPresent => item'[p].pResult = PNULL
      /\ told' \in {told, Append(told, [handle |-> h, result |-> res])}
  BY <1>1, <1>4, <1>5, DoTaskCompletedFacts
<1>7. h \in Handle /\ done \in Seq(Handle) /\ told \in Seq([handle : Handle, result : Result])
  BY <1>1, <1>4 DEF TypeOK, TaskItem
<1>8. /\ done' \in Seq(Handle) /\ Len(done) \in Nat /\ Len(done') = Len(done)+1
      /\ done'[Len(done)+1] = h
      /\ \A i \in 1..Len(done) : done'[i] = done[i]
      /\ ToSet(done') = ToSet(done) \cup {h}
  BY <1>3, <1>7, AppendFacts
<1>9. Tasks' = Tasks  BY <1>3 DEF Tasks
<1>10. /\ \A i \in 1..Len(Tasks) : Tasks[i] \in Block
       /\ \A i, j \in 1..Len(Tasks) : Tasks[i] = Tasks[j] => i = j
  BY <1>1, Positions DEF Data
<1>11. \A i \in 1..Len(Tasks) : i # k+1 => item'[Tasks[i]] = item[Tasks[i]]
  BY <1>2, <1>4, <1>6, <1>10
<1>12. \A i \in 1..Len(Tasks) :
          /\ item'[Tasks[i]].handle = item[Tasks[i]].handle
          /\ item'[Tasks[i]].task = item[Tasks[i]].task
          /\ item'[Tasks[i]] \in TaskItem
  <2>1. \A i \in 1..Len(Tasks) : item[Tasks[i]] \in TaskItem
    BY <1>1 DEF Data, Held
  <2>2. QED  BY <2>1, <1>4, <1>6, <1>11
<1>13. h \in ToSet(accepted) /\ h \notin ToSet(done)
  BY <1>1, <1>2, <1>3, <1>4 DEF Data, Reported
<1>14. Down' <=> Down  BY <1>3 DEF Down
<1>15. TypeOK'
  <2>1. told' \in Seq([handle : Handle, result : Result])
    <3>1. [handle |-> h, result |-> res] \in [handle : Handle, result : Result]
      BY <1>7
    <3> DEFINE e == [handle |-> h, result |-> res]
    <3> HIDE DEF e
    <3>2. Append(told, e) \in Seq([handle : Handle, result : Result])
      BY <1>7, <3>1, AppendFacts DEF e
    <3>3. QED  BY <1>6, <1>7, <3>2 DEF e
  <2>2. QED  BY <1>1, <1>3, <1>4, <1>6, <1>8, <2>1 DEF TypeOK
<1>16. Chained'  BY <1>1, <1>3, <1>9 DEF Data, Chained
<1>17. Held'  BY <1>1, <1>3, <1>9, <1>12 DEF Data, Held
<1>18. Reported'
  <2>1. ASSUME NEW i \in 1..Len(Tasks)
        PROVE  LET it == item'[Tasks[i]] IN
               /\ ~it.taskCompleted \/ it.task.headerPresent => it.pResult = PNULL
               /\ it.handle \in ToSet(accepted)
               /\ ~it.taskCompleted => it.handle \notin ToSet(done')
               /\ \A j \in 1..Len(Tasks) : i # j => it.handle # item'[Tasks[j]].handle
    <3>1. /\ item[Tasks[i]].handle \in ToSet(accepted)
          /\ \A j \in 1..Len(Tasks) : i # j => item[Tasks[i]].handle # item[Tasks[j]].handle
      BY <1>1 DEF Data, Reported
    <3>2. CASE i = k+1  BY <3>1, <3>2, <1>4, <1>6, <1>12
    <3>3. CASE i # k+1
      <4>1. item'[Tasks[i]] = item[Tasks[i]]  BY <3>3, <1>11
      <4>2. item[Tasks[i]].handle # h  BY <3>1, <3>3, <1>2, <1>4
      <4>3. /\ ~item[Tasks[i]].taskCompleted \/ item[Tasks[i]].task.headerPresent
                 => item[Tasks[i]].pResult = PNULL
            /\ ~item[Tasks[i]].taskCompleted => item[Tasks[i]].handle \notin ToSet(done)
        BY <1>1 DEF Data, Reported
      <4>4. QED  BY <4>1, <4>2, <4>3, <3>1, <1>8, <1>12
    <3>4. QED  BY <3>2, <3>3
  <2>2. QED  BY <2>1, <1>3, <1>9 DEF Reported
<1>19. Counted'
  <2>1. /\ \A g \in ToSet(accepted) : g < sent
        /\ IsInjective(done) /\ ToSet(done) \subseteq ToSet(accepted)
        /\ \A g \in ToSet(accepted) :
             \/ g \in ToSet(done)
             \/ \E i \in 1..Len(Tasks) :
                  ~item[Tasks[i]].taskCompleted /\ item[Tasks[i]].handle = g
    BY <1>1 DEF Data, Counted
  <2>2. IsInjective(done')  BY <1>3, <1>7, <1>13, <2>1, AppendOnce
  <2>3. ToSet(done') \subseteq ToSet(accepted)  BY <1>8, <1>13, <2>1
  <2>4. ASSUME NEW g \in ToSet(accepted), g \notin ToSet(done')
        PROVE  \E i \in 1..Len(Tasks) :
                  ~item'[Tasks[i]].taskCompleted /\ item'[Tasks[i]].handle = g
    <3>1. g \notin ToSet(done) /\ g # h  BY <2>4, <1>8
    <3>2. PICK i \in 1..Len(Tasks) :
                  ~item[Tasks[i]].taskCompleted /\ item[Tasks[i]].handle = g
      BY <2>1, <3>1
    <3>3. i # k+1  BY <3>1, <3>2, <1>4
    <3>4. item'[Tasks[i]] = item[Tasks[i]]  BY <3>3, <1>11
    <3>5. QED  BY <3>2, <3>4
  <2>5. QED  BY <2>1, <2>2, <2>3, <2>4, <1>3, <1>9 DEF Counted
<1>20. InTurn'
  <2> SUFFICES ASSUME starved = 0  PROVE InTurn'  BY <1>3 DEF InTurn
  <2> DEFINE gone == Len(accepted) - Len(Tasks)
  <2>1. /\ Len(done) <= Len(accepted)
        /\ \A i \in 1..Len(done) : done[i] = accepted[i]
        /\ gone \in 0..Len(done)
        /\ \A i \in 1..Len(Tasks) :
             /\ item[Tasks[i]].taskCompleted <=> gone + i <= Len(done)
             /\ ~item[Tasks[i]].taskCompleted => item[Tasks[i]].handle = accepted[gone + i]
    BY <1>1 DEF Data, InTurn
  <2>2. Len(accepted) \in Nat  BY <1>1 DEF TypeOK
  <2>3. gone \in Int  BY <2>2, <1>2
  <2>4. gone + (k+1) <= Len(accepted)  BY <2>2, <1>2
  <2> HIDE DEF gone
  <2>5. k = 0 \/ k \in 1..Len(Tasks)  BY <1>2
  <2>6. k # 0 => gone + k <= Len(done)  BY <2>1, <2>5, <1>2
  <2>7. ~(gone + (k+1) <= Len(done))  BY <2>1, <1>2, <1>3, <1>4
  <2>8. gone + k = Len(done)
    BY <2>1, <2>3, <2>5, <2>6, <2>7, <1>2, <1>8
  <2>9. h = accepted[Len(done)+1]
    <3>1. gone + (k+1) = Len(done)+1  BY <2>8, <2>3, <1>2, <1>8
    <3>2. h = accepted[gone + (k+1)]  BY <2>1, <1>2, <1>3, <1>4
    <3>3. QED  BY <3>1, <3>2
  <2>10. Len(done)+1 <= Len(accepted)  BY <2>8, <2>4, <2>3, <1>2, <1>8
  <2>11. \A i \in 1..Len(done)+1 : done'[i] = accepted[i]
    <3>1. \A i \in 1..Len(done)+1 : i \in 1..Len(done) \/ i = Len(done)+1  BY <1>8
    <3>2. QED  BY <3>1, <2>1, <2>9, <1>8
  <2>12. gone \in 0..Len(done)+1  BY <2>1, <1>8
  <2>13. ASSUME NEW i \in 1..Len(Tasks)
         PROVE  /\ item'[Tasks[i]].taskCompleted <=> gone + i <= Len(done)+1
                /\ ~item'[Tasks[i]].taskCompleted =>
                      item'[Tasks[i]].handle = accepted[gone + i]
    <3>1. CASE i = k+1  BY <3>1, <2>8, <2>3, <1>2, <1>4, <1>6, <1>8
    <3>2. CASE i # k+1
      <4>1. gone + i <= Len(done) <=> gone + i <= Len(done)+1
        BY <3>2, <2>8, <2>3, <1>2, <1>8
      <4>2. QED  BY <4>1, <3>2, <2>1, <1>11
    <3>3. QED  BY <3>1, <3>2
  <2>14. QED  BY <2>10, <2>11, <2>12, <2>13, <1>3, <1>8, <1>9 DEF InTurn, gone
<1>21. ToldOnce'
  <2> DEFINE Before(d, a, b) == \E i, j \in DOMAIN d : i < j /\ d[i] = a /\ d[j] = b
  <2>1. DOMAIN done = 1..Len(done) /\ DOMAIN done' = 1..Len(done)+1
    BY <1>7, <1>8
  <2>2. ASSUME NEW a, NEW b, Before(done, a, b)  PROVE Before(done', a, b)
    BY <2>1, <2>2, <1>8
  <2>3. ASSUME NEW a \in ToSet(done)  PROVE Before(done', a, h)
    <3>1. PICK i \in 1..Len(done) : done[i] = a  BY <2>1 DEF ToSet
    <3>2. i \in 1..Len(done)+1 /\ Len(done)+1 \in 1..Len(done)+1 /\ i < Len(done)+1
      BY <1>8
    <3>3. QED  BY <2>1, <3>1, <3>2, <1>8
  <2> HIDE DEF Before
  <2>4. \A n \in DOMAIN told :
          /\ told[n].handle \in ToSet(done)
          /\ \A m \in 1..n-1 : Before(done, told[m].handle, told[n].handle)
    BY <1>1 DEF Data, ToldOnce, Before, ToSet, Range
  <2>5. \A n \in DOMAIN told' :
          /\ told'[n].handle \in ToSet(done')
          /\ \A m \in 1..n-1 : Before(done', told'[m].handle, told'[n].handle)
    <3>1. CASE told' = told  BY <3>1, <2>2, <2>4, <1>8
    <3>2. CASE told' = Append(told, [handle |-> h, result |-> res])
      <4> DEFINE e == [handle |-> h, result |-> res]
      <4>1. e.handle = h  OBVIOUS
      <4>2. e \in [handle : Handle, result : Result]  BY <1>7
      <4> HIDE DEF e
      <4>3. /\ Len(told) \in Nat /\ DOMAIN told = 1..Len(told)
            /\ DOMAIN told' = 1..Len(told)+1
            /\ told'[Len(told)+1] = e
            /\ \A i \in 1..Len(told) : told'[i] = told[i]
        <5>1. told' = Append(told, e)  BY <3>2 DEF e
        <5>2. told' \in Seq([handle : Handle, result : Result])
          BY <5>1, <4>2, <1>7, AppendFacts
        <5>3. /\ Len(told') = Len(told)+1 /\ told'[Len(told)+1] = e /\ Len(told) \in Nat
              /\ \A i \in 1..Len(told) : told'[i] = told[i]
          BY <5>1, <4>2, <1>7, AppendFacts
        <5>4. QED  BY <5>2, <5>3, <1>7
      <4>4. ASSUME NEW n \in 1..Len(told)
            PROVE  /\ told'[n].handle \in ToSet(done')
                   /\ \A m \in 1..n-1 : Before(done', told'[m].handle, told'[n].handle)
        <5>1. \A m \in 1..n-1 : m \in 1..Len(told)  BY <4>3
        <5>2. QED  BY <5>1, <4>3, <2>2, <2>4, <1>8
      <4>5. \A m \in 1..Len(told) : told[m].handle \in ToSet(done)
        BY <2>4, <4>3
      <4>6. \A m \in 1..Len(told)+1-1 : Before(done', told'[m].handle, h)
        <5>1. \A m \in 1..Len(told)+1-1 : m \in 1..Len(told)  BY <4>3
        <5>2. QED  BY <5>1, <4>3, <4>5, <2>3
      <4>7. told'[Len(told)+1].handle = h /\ h \in ToSet(done')
        BY <4>1, <4>3, <1>8
      <4>8. \A n \in 1..Len(told)+1 : n \in 1..Len(told) \/ n = Len(told)+1
        BY <4>3
      <4>9. QED  BY <4>3, <4>4, <4>6, <4>7, <4>8
    <3>3. QED  BY <3>1, <3>2, <1>6
  <2>6. QED  BY <2>5 DEF ToldOnce, Before, ToSet, Range
<1>22. Here'
  <2>1. k+1 \in 0..Len(Tasks) /\ k+1 # 0  BY <1>2
  <2>2. starved = 0 => \A i \in 1..k+1 : item'[Tasks[i]].taskCompleted
    <3>1. \A i \in 1..k+1 : i = k+1 \/ (i \in 1..k /\ i \in 1..Len(Tasks) /\ i # k+1)
      BY <1>2
    <3>2. QED  BY <1>2, <1>4, <1>6, <1>11, <3>1
  <2>3. QED  BY <1>1, <1>3, <1>4, <1>9, <2>1, <2>2 DEF Here
<1>23. QED
  BY <1>15, <1>16, <1>17, <1>18, <1>19, <1>20, <1>21, <1>22 DEF IInv, Data

(***************************************************************************)
(* TASK_HANDLER_NEW_TASK.                                                  *)
(***************************************************************************)
\* The entry at the end of the list is found there.
LEMMA LastTaskIs ==
  ASSUME TypeOK, Chained
  PROVE  LastTask = IF Len(Tasks) = 0 THEN Root ELSE Tasks[Len(Tasks)]
BY EmptySeq DEF LastTask, Last, Chained

LEMMA HandleNewTaskReqStep ==
  ASSUME IInv, NEW req \in Request, NEW p \in Block, HandleNewTaskReq(req, p)
  PROVE  IInv'
<1> DEFINE new == [handle |-> sent, task |-> req, taskCompleted |-> FALSE, pResult |-> PNULL]
           n == Len(Tasks)
<1>1. /\ TypeOK /\ Data /\ doing = "idle" /\ ~Down
      /\ \A i \in 1..n : ~Unused(Tasks[i])
  BY DEF IInv, Here, HandleNewTaskReq, Down
<1>2. /\ n \in Nat
      /\ \A i \in 1..n : Tasks[i] \in Block /\ Tasks[i] # Root
      /\ \A i, j \in 1..n : Tasks[i] = Tasks[j] => i = j
      /\ Tasks \in Seq(Block)
  BY <1>1, Positions DEF Data, Chained
<1>3. /\ sent < MaxTasks /\ sent' = sent + 1
      /\ p \notin malloced /\ malloced' = malloced \cup {p}
      /\ item' = [item EXCEPT ![p] = new]
      /\ UNCHANGED <<pThis, pPrevious, done, told, starved>>
  BY DEF HandleNewTaskReq
<1>4. /\ sent \in Handle /\ sent \in 0..MaxTasks /\ sent' \in 0..MaxTasks
      /\ \A h \in Handle : h \in Int
  BY <1>1, <1>3, TaskHandlerAssumption DEF TypeOK, Handle
<1>5. /\ new \in TaskItem /\ new.handle = sent /\ ~new.taskCompleted /\ new.pResult = PNULL
  BY <1>4, TaskHandlerAssumption DEF TaskItem, Result
<1> HIDE DEF new
<1>6. /\ item' \in [Block -> TaskItem \cup {PNULL}] /\ item'[p] = new
      /\ \A q \in Block : q # p => item'[q] = item[q]
  BY <1>1, <1>3, <1>5 DEF TypeOK
<1>7. \A i \in 1..n : Tasks[i] # p
  BY <1>1, <1>3, Positions DEF Data, Held
<1>8. CASE Len(Tasks) >= MAX_GUARD_COUNTER
  <2>1. doing' = "aborted" /\ UNCHANGED <<prev, next, accepted>>
    BY <1>8, <1>2, TaskHandlerAssumption DEF HandleNewTaskReq
  <2>2. Tasks' = Tasks  BY <2>1 DEF Tasks
  <2>3. TypeOK'  BY <1>1, <1>3, <1>4, <1>6, <2>1 DEF TypeOK, Stage
  <2>4. Down'  BY <2>1 DEF Down
  <2>5. Chained'  BY <1>1, <2>1, <2>2 DEF Data, Chained
  <2>6. Held' /\ Reported' /\ Counted'  BY <2>4 DEF Held, Reported, Counted
  <2>7. InTurn'  BY <1>1, <1>3, <2>1, <2>4 DEF Data, InTurn
  <2>8. ToldOnce'  BY <1>1, <1>3 DEF Data, ToldOnce
  <2>9. Here'  BY <2>1 DEF Here
  <2>10. QED  BY <2>3, <2>5, <2>6, <2>7, <2>8, <2>9 DEF IInv, Data
<1>9. CASE Len(Tasks) < MAX_GUARD_COUNTER
  <2>1. /\ prev' = [prev EXCEPT ![p] = LastTask]
        /\ next' = [next EXCEPT ![p] = PNULL, ![LastTask] = p]
        /\ accepted' = Append(accepted, sent)
        /\ doing' = "idle"
    BY <1>1, <1>9 DEF HandleNewTaskReq
  <2>2. LastTask = IF n = 0 THEN Root ELSE Tasks[n]
    BY <1>1, LastTaskIs DEF Data
  <2>3. LastTask \in Block \cup {Root} /\ LastTask # p
    <3>1. CASE n = 0  BY <3>1, <2>2, TaskHandlerAssumption
    <3>2. CASE n # 0
      <4>1. n \in 1..n  BY <3>2, <1>2
      <4>2. QED  BY <3>2, <4>1, <2>2, <1>2, <1>7
    <3>3. QED  BY <3>1, <3>2
  <2>4. /\ next \in [Block \cup {Root} -> Block \cup {PNULL}]
        /\ prev \in [Block -> Block \cup {Root, PNULL}]
        /\ accepted \in Seq(Handle)
    BY <1>1 DEF TypeOK
  <2>5. /\ next' \in [Block \cup {Root} -> Block \cup {PNULL}]
        /\ prev' \in [Block -> Block \cup {Root, PNULL}]
        /\ next'[p] = PNULL /\ next'[LastTask] = p
        /\ \A q \in Block \cup {Root} : q # p /\ q # LastTask => next'[q] = next[q]
        /\ prev'[p] = LastTask /\ \A q \in Block : q # p => prev'[q] = prev[q]
    BY <2>1, <2>3, <2>4
  <2>6. /\ accepted' \in Seq(Handle) /\ Len(accepted) \in Nat
        /\ Len(accepted') = Len(accepted)+1
        /\ accepted'[Len(accepted)+1] = sent
        /\ \A i \in 1..Len(accepted) : accepted'[i] = accepted[i]
        /\ ToSet(accepted') = ToSet(accepted) \cup {sent}
    BY <2>1, <2>4, <1>4, AppendFacts
  <2>7. Linked(Append(Tasks, p), next'[Root], next', PNULL)
    <3>1. Linked(Tasks, next[Root], next, PNULL)  BY <1>1 DEF Data, Chained
    <3>2. next'[Root] = IF Tasks = <<>> THEN p ELSE next[Root]
      <4>1. Tasks = <<>> <=> n = 0  BY <1>2, EmptySeq
      <4>2. n # 0 => LastTask # Root
        <5>1. n # 0 => n \in 1..n  BY <1>2
        <5>2. QED  BY <5>1, <2>2, <1>2
      <4>3. Root # p  BY TaskHandlerAssumption
      <4>4. QED  BY <4>1, <4>2, <4>3, <2>2, <2>5
    <3>3. \A i \in 1..n : next'[Tasks[i]] = IF i = n THEN p ELSE next[Tasks[i]]
      <4>1. ASSUME NEW i \in 1..n
            PROVE  /\ i = n => Tasks[i] = LastTask
                   /\ i # n => Tasks[i] # LastTask
        <5>1. n # 0 /\ n \in 1..n  BY <1>2
        <5>2. QED  BY <5>1, <1>2, <2>2
      <4>2. QED  BY <4>1, <1>2, <1>7, <2>5
    <3> HIDE DEF n
    <3>4. QED  BY <3>1, <3>2, <3>3, <2>5, <1>2, AppendLinked DEF n
  <2>8. p \notin ToSet(Tasks)  BY <1>1, <1>3 DEF Data, Held
  <2>9. Append(Tasks, p) \in Seq(Block) /\ IsInjective(Append(Tasks, p))
    BY <2>8, <1>1, AppendOnce DEF Data, Chained
  <2>10. Tasks' = Append(Tasks, p)
    <3>1. Following(next'[Root], next', PNULL, Cardinality(Block)) = Append(Tasks, p)
      BY <2>7, <2>9, TasksAre
    <3>2. QED  BY <3>1 DEF Tasks
  <2>11. /\ Len(Tasks') = n+1 /\ Tasks'[n+1] = p
         /\ \A i \in 1..n : Tasks'[i] = Tasks[i]
         /\ ToSet(Tasks') = ToSet(Tasks) \cup {p}
    BY <2>10, <1>2, AppendFacts
  <2>12. \A i \in 1..n : item'[Tasks'[i]] = item[Tasks[i]]
    BY <2>11, <1>2, <1>6, <1>7
  <2>13. item'[Tasks'[n+1]] = new  BY <2>11, <1>6
  <2>14. /\ \A i \in 1..n+1 : i \in 1..n \/ i = n+1
         /\ n+1 \in 1..n+1 /\ \A i \in 1..n : i \in 1..n+1 /\ i # n+1
    BY <1>2
  <2>15. ~Down'  BY <2>1 DEF Down
  <2>16. TypeOK'
    <3>1. /\ pThis \in Block \cup {Root, PNULL} /\ pPrevious \in Block \cup {Root, PNULL}
          /\ malloced \subseteq Block /\ starved \in 0..MaxStarved
          /\ done \in Seq(Handle) /\ told \in Seq([handle : Handle, result : Result])
      BY <1>1 DEF TypeOK
    <3>2. malloced' \subseteq Block  BY <1>3, <3>1
    <3>3. doing' \in Stage  BY <2>1 DEF Stage
    <3>4. /\ pThis' \in Block \cup {Root, PNULL} /\ pPrevious' \in Block \cup {Root, PNULL}
          /\ starved' \in 0..MaxStarved /\ done' \in Seq(Handle)
          /\ told' \in Seq([handle : Handle, result : Result])
      BY <1>3, <3>1
    <3>5. QED  BY <3>2, <3>3, <3>4, <1>4, <1>6, <2>5, <2>6 DEF TypeOK
  <2>17. Chained'  BY <2>7, <2>9, <2>10 DEF Chained
  <2>18. Held'
    <3>1. malloced' = ToSet(Tasks')  BY <1>1, <1>3, <2>11 DEF Data, Held
    <3>2. ASSUME NEW i \in 1..n+1
          PROVE  /\ prev'[Tasks'[i]] = IF i = 1 THEN Root ELSE Tasks'[i-1]
                 /\ item'[Tasks'[i]] \in TaskItem
      <4>1. CASE i \in 1..n
        <5>1. /\ prev[Tasks[i]] = IF i = 1 THEN Root ELSE Tasks[i-1]
              /\ item[Tasks[i]] \in TaskItem
          BY <4>1, <1>1 DEF Data, Held
        <5>2. prev'[Tasks'[i]] = prev[Tasks[i]]
          BY <4>1, <2>11, <2>5, <1>2, <1>7
        <5>3. i # 1 => i-1 \in 1..n  BY <4>1, <1>2
        <5>4. QED  BY <4>1, <5>1, <5>2, <5>3, <2>11, <2>12
      <4>2. CASE i = n+1
        <5>1. prev'[Tasks'[i]] = LastTask  BY <4>2, <2>11, <2>5
        <5>2. i # 1 => i-1 = n /\ n \in 1..n /\ n # 0  BY <4>2, <1>2
        <5>3. i = 1 => n = 0  BY <4>2, <1>2
        <5>4. QED  BY <4>2, <5>1, <5>2, <5>3, <2>2, <2>11, <2>13, <1>5
      <4>3. QED  BY <4>1, <4>2, <2>14
    <3>3. QED  BY <3>1, <3>2, <2>11 DEF Held
  <2>19. sent \notin ToSet(accepted)
    <3>1. sent < sent => FALSE  BY <1>4
    <3>2. QED  BY <3>1, <1>1 DEF Data, Counted
  <2>20. Reported'
    <3>1. \A i \in 1..n :
            /\ ~item[Tasks[i]].taskCompleted \/ item[Tasks[i]].task.headerPresent
                 => item[Tasks[i]].pResult = PNULL
            /\ item[Tasks[i]].handle \in ToSet(accepted)
            /\ ~item[Tasks[i]].taskCompleted => item[Tasks[i]].handle \notin ToSet(done)
            /\ \A j \in 1..n : i # j => item[Tasks[i]].handle # item[Tasks[j]].handle
      BY <1>1 DEF Data, Reported
    <3>2. sent \notin ToSet(done)  BY <2>19, <1>1 DEF Data, Counted
    <3>3. ASSUME NEW i \in 1..n+1
          PROVE  LET it == item'[Tasks'[i]] IN
                 /\ ~it.taskCompleted \/ it.task.headerPresent => it.pResult = PNULL
                 /\ it.handle \in ToSet(accepted')
                 /\ ~it.taskCompleted => it.handle \notin ToSet(done)
                 /\ \A j \in 1..n+1 : i # j => it.handle # item'[Tasks'[j]].handle
      <4>1. CASE i \in 1..n
        <5>1. item'[Tasks'[i]] = item[Tasks[i]]  BY <4>1, <2>12
        <5>2. ASSUME NEW j \in 1..n+1, i # j
              PROVE  item[Tasks[i]].handle # item'[Tasks'[j]].handle
          <6>1. CASE j \in 1..n  BY <6>1, <5>2, <4>1, <3>1, <2>12
          <6>2. CASE j = n+1  BY <6>2, <4>1, <3>1, <2>13, <2>19, <1>5
          <6>3. QED  BY <6>1, <6>2, <2>14
        <5>3. QED  BY <4>1, <5>1, <5>2, <3>1, <2>6
      <4>2. CASE i = n+1
        <5>1. \A j \in 1..n+1 : i # j => j \in 1..n  BY <4>2, <2>14
        <5>2. \A j \in 1..n : item'[Tasks'[j]].handle # sent
          BY <3>1, <2>12, <2>19
        <5>3. QED  BY <4>2, <5>1, <5>2, <3>2, <2>6, <2>13, <1>5
      <4>3. QED  BY <4>1, <4>2, <2>14
    <3>4. QED  BY <3>3, <2>11, <1>3 DEF Reported
  <2>21. Counted'
    <3>1. /\ \A g \in ToSet(accepted) : g < sent
          /\ IsInjective(done) /\ ToSet(done) \subseteq ToSet(accepted)
          /\ \A g \in ToSet(accepted) :
               \/ g \in ToSet(done)
               \/ \E i \in 1..n : ~item[Tasks[i]].taskCompleted /\ item[Tasks[i]].handle = g
      BY <1>1 DEF Data, Counted
    <3>2. \A g \in ToSet(accepted') : g < sent'
      <4>1. \A g \in ToSet(accepted) : g \in Int
        <5>1. \A g \in ToSet(accepted) : g \in Handle  BY <2>4 DEF ToSet
        <5>2. QED  BY <5>1, <1>4
      <4>2. QED  BY <4>1, <3>1, <2>6, <1>3, <1>4
    <3>3. ASSUME NEW g \in ToSet(accepted'), g \notin ToSet(done)
          PROVE  \E i \in 1..n+1 : ~item'[Tasks'[i]].taskCompleted /\ item'[Tasks'[i]].handle = g
      <4>1. CASE g = sent  BY <4>1, <2>13, <2>14, <1>5
      <4>2. CASE g # sent
        <5>1. PICK i \in 1..n : ~item[Tasks[i]].taskCompleted /\ item[Tasks[i]].handle = g
          BY <4>2, <3>1, <3>3, <2>6
        <5>2. i \in 1..n+1 /\ item'[Tasks'[i]] = item[Tasks[i]]  BY <2>12, <2>14
        <5>3. QED  BY <5>1, <5>2
      <4>3. QED  BY <4>1, <4>2
    <3>4. QED  BY <3>1, <3>2, <3>3, <2>6, <2>11, <1>3 DEF Counted
  <2>22. InTurn'
    <3> SUFFICES ASSUME starved = 0  PROVE InTurn'  BY <1>3 DEF InTurn
    <3> DEFINE gone == Len(accepted) - n
    <3>1. /\ Len(done) <= Len(accepted)
          /\ \A i \in 1..Len(done) : done[i] = accepted[i]
          /\ gone \in 0..Len(done)
          /\ \A i \in 1..n :
               /\ item[Tasks[i]].taskCompleted <=> gone + i <= Len(done)
               /\ ~item[Tasks[i]].taskCompleted => item[Tasks[i]].handle = accepted[gone + i]
      BY <1>1 DEF Data, InTurn
    <3>2. Len(done) \in Nat  BY <1>1 DEF TypeOK
    <3>3. Len(done) <= Len(accepted') /\ Len(accepted') - (n+1) = gone
      BY <3>1, <3>2, <2>6, <1>2
    <3>4. gone \in Nat /\ gone + n = Len(accepted)  BY <3>1, <2>6, <1>2
    <3> HIDE DEF gone
    <3>5. \A i \in 1..Len(done) : done[i] = accepted'[i]
      <4>1. \A i \in 1..Len(done) : i \in 1..Len(accepted)  BY <3>1, <3>2, <2>6
      <4>2. QED  BY <4>1, <3>1, <2>6
    <3>6. ASSUME NEW i \in 1..n+1
          PROVE  /\ item'[Tasks'[i]].taskCompleted <=> gone + i <= Len(done)
                 /\ ~item'[Tasks'[i]].taskCompleted =>
                       item'[Tasks'[i]].handle = accepted'[gone + i]
      <4>1. CASE i \in 1..n
        <5>1. gone + i \in 1..Len(accepted)  BY <4>1, <3>4, <2>6, <1>2
        <5>2. QED  BY <4>1, <5>1, <3>1, <2>6, <2>12
      <4>2. CASE i = n+1
        <5>1. gone + i = Len(accepted)+1  BY <4>2, <3>4, <1>2
        <5>2. ~(gone + i <= Len(done))  BY <5>1, <3>1, <3>2, <2>6
        <5>3. QED  BY <4>2, <5>1, <5>2, <2>6, <2>13, <1>5
      <4>3. QED  BY <4>1, <4>2, <2>14
    <3>7. QED  BY <3>1, <3>3, <3>5, <3>6, <2>11, <1>3 DEF InTurn
  <2>23. ToldOnce'  BY <1>1, <1>3 DEF Data, ToldOnce
  <2>24. Here'
    <3>1. ASSUME NEW i \in 1..n+1  PROVE ~Unused(Tasks[i])'
      <4>1. CASE i \in 1..n  BY <4>1, <1>1, <2>12 DEF Unused
      <4>2. CASE i = n+1  BY <4>2, <2>13, <1>5 DEF Unused
      <4>3. QED  BY <4>1, <4>2, <2>14
    <3>2. QED  BY <3>1, <2>1, <2>11 DEF Here
  <2>25. QED
    BY <2>16, <2>17, <2>18, <2>20, <2>21, <2>22, <2>23, <2>24 DEF IInv, Data
<1>10. QED  BY <1>8, <1>9, <1>2, TaskHandlerAssumption

(***************************************************************************)
(* walkTaskList (true, false).                                             *)
(***************************************************************************)
LEMMA WalkPosition ==
  ASSUME IInv, doing = "walking"
  PROVE  \E k \in 1..Len(Tasks)+1 :
           /\ Len(Tasks) \in Nat
           /\ pThis = At(Tasks, k, PNULL)
           /\ pPrevious = IF k = 1 THEN Root ELSE pThis
           /\ \A i \in 1..k-1 : i \in 1..Len(Tasks) /\ ~Unused(Tasks[i])
           /\ pThis = PNULL => k = Len(Tasks)+1
           /\ pThis # PNULL =>
                /\ k \in 1..Len(Tasks) /\ pThis = Tasks[k] /\ pThis \in Block
                /\ next[pThis] = At(Tasks, k+1, PNULL)
<1>1. PICK k \in 1..Len(Tasks)+1 :
         /\ pThis = At(Tasks, k, PNULL)
         /\ pPrevious = IF k = 1 THEN Root ELSE pThis
         /\ \A i \in 1..k-1 : ~Unused(Tasks[i])
  BY DEF IInv, Here
<1>2. /\ Len(Tasks) \in Nat
      /\ \A i \in 1..Len(Tasks) : Tasks[i] \in Block /\ Tasks[i] # PNULL
      /\ \A i \in 1..Len(Tasks) : next[Tasks[i]] = At(Tasks, i+1, PNULL)
  BY Positions DEF IInv, Data
<1>3. \A i \in 1..k-1 : i \in 1..Len(Tasks)  BY <1>2
<1>4. pThis # PNULL => k \in 1..Len(Tasks) /\ pThis = Tasks[k]
  BY <1>1 DEF At
<1>5. pThis = PNULL => k = Len(Tasks)+1
  BY <1>1, <1>2 DEF At
<1>6. QED  BY <1>1, <1>2, <1>3, <1>4, <1>5

LEMMA KeepTaskStep ==
  ASSUME IInv, KeepTask  PROVE IInv'
<1>1. TypeOK /\ Data /\ doing = "walking"  BY DEF IInv, KeepTask
<1>2. Still  BY DEF KeepTask, Still, Down, list, history
<1>3. Data' /\ Tasks' = Tasks  BY <1>1, <1>2, StillKeeps
<1>4. PICK k \in 1..Len(Tasks) :
         /\ Len(Tasks) \in Nat /\ pThis = Tasks[k] /\ pThis \in Block
         /\ \A i \in 1..k-1 : ~Unused(Tasks[i])
         /\ next[pThis] = At(Tasks, k+1, PNULL)
  BY <1>1, WalkPosition DEF KeepTask
<1>5. TypeOK'
  <2>1. next[pThis] \in Block \cup {PNULL}  BY <1>1, <1>4 DEF TypeOK
  <2>2. QED  BY <1>1, <2>1 DEF KeepTask, TypeOK, list, history, Stage
<1>6. Here'
  <2>1. k+1 \in 1..Len(Tasks)+1 /\ k+1 # 1  BY <1>4
  <2>2. \A i \in 1..(k+1)-1 : ~Unused(Tasks[i])'
    <3>1. \A i \in 1..(k+1)-1 : i \in 1..k-1 \/ i = k  BY <1>4
    <3>2. QED  BY <1>3, <1>4, <3>1 DEF KeepTask, Unused, list
  <2>3. /\ pThis' = At(Tasks, k+1, PNULL) /\ pPrevious' = pThis' /\ doing' = "walking"
    BY <1>4 DEF KeepTask
  <2>4. QED  BY <1>3, <2>1, <2>2, <2>3 DEF Here
<1>7. QED  BY <1>3, <1>5, <1>6 DEF IInv

LEMMA WalkDoneStep ==
  ASSUME IInv, WalkDone  PROVE IInv'
<1>1. TypeOK /\ Data /\ doing = "walking"  BY DEF IInv, WalkDone
<1>2. Still  BY DEF WalkDone, Still, Down, list, history
<1>3. Data' /\ Tasks' = Tasks  BY <1>1, <1>2, StillKeeps
<1>4. TypeOK'  BY <1>1 DEF WalkDone, TypeOK, list, history, Stage
<1>5. Here'
  <2>1. Len(Tasks) \in Nat /\ \A i \in 1..Len(Tasks)+1-1 : ~Unused(Tasks[i])
    BY <1>1, WalkPosition DEF WalkDone
  <2>2. \A i \in 1..Len(Tasks) : ~Unused(Tasks[i])  BY <2>1
  <2>3. QED  BY <1>3, <2>2 DEF Here, WalkDone, Unused, list
<1>6. QED  BY <1>3, <1>4, <1>5 DEF IInv

\* What free () leaves.
LEMMA FreeFacts ==
  ASSUME TypeOK, NEW b \in SUBSET Block, Free(b)
  PROVE  /\ item' \in [Block -> TaskItem \cup {PNULL}]
         /\ malloced' = malloced \ b /\ malloced' \subseteq Block
         /\ \A q \in Block : q \notin b => item'[q] = item[q]
BY DEF Free, TypeOK

\* The walk has passed an entry that stays: the next one it frees is read
\* afterwards.
LEMMA RemoveTaskBehindKept ==
  ASSUME IInv, RemoveTask, pPrevious = pThis
  PROVE  IInv'
<1>1. TypeOK /\ Data /\ doing = "walking" /\ ~Down  BY DEF IInv, RemoveTask, Down
<1>2. PICK k \in 1..Len(Tasks) :
         /\ Len(Tasks) \in Nat /\ pThis = Tasks[k] /\ pThis \in Block
         /\ pPrevious = IF k = 1 THEN Root ELSE pThis
         /\ \A i \in 1..k-1 : i \in 1..Len(Tasks) /\ ~Unused(Tasks[i])
  BY <1>1, WalkPosition DEF RemoveTask
<1>3. k # 1  BY <1>2, TaskHandlerAssumption
<1>4. 1 \in 1..k-1  BY <1>2, <1>3
<1>5. /\ doing' = "undefined" /\ Free({pThis})
      /\ prev' = [p \in Block |-> IF p = pThis THEN PNULL
                              ELSE IF p = next[pThis] THEN prev[pThis] ELSE prev[p]]
      /\ UNCHANGED <<pThis, next, pPrevious, sent, accepted, done, told, starved>>
  BY DEF RemoveTask, history
<1>6. /\ item' \in [Block -> TaskItem \cup {PNULL}]
      /\ malloced' = malloced \ {pThis} /\ malloced' \subseteq Block
      /\ \A q \in Block : q # pThis => item'[q] = item[q]
  BY <1>1, <1>2, <1>5, FreeFacts
<1>7. Tasks' = Tasks  BY <1>5 DEF Tasks
<1>8. Down'  BY <1>5 DEF Down
<1>9. TypeOK'
  <2>1. prev' \in [Block -> Block \cup {Root, PNULL}]
    BY <1>1, <1>2, <1>5 DEF TypeOK
  <2>2. QED  BY <1>1, <1>5, <1>6, <2>1 DEF TypeOK, Stage
<1>10. Chained'  BY <1>1, <1>5, <1>7 DEF Data, Chained
<1>11. Held' /\ Reported' /\ Counted'  BY <1>8 DEF Held, Reported, Counted
<1>12. InTurn'  BY <1>1, <1>5, <1>8 DEF Data, InTurn
<1>13. ToldOnce'  BY <1>1, <1>5 DEF Data, ToldOnce
<1>14. Here'
  <2>1. Tasks[1] \in Block /\ Tasks[1] # pThis /\ Tasks[1] \in ToSet(Tasks)
    BY <1>1, <1>2, <1>3, <1>4, Positions DEF Data
  <2>2. Tasks[1] \in malloced'  BY <1>1, <1>6, <2>1 DEF Data, Held
  <2>3. ~Unused(Tasks[1])  BY <1>2, <1>4
  <2>4. item'[Tasks[1]] = item[Tasks[1]]  BY <1>6, <2>1
  <2> DEFINE q == Tasks[1]
  <2> HIDE DEF q
  <2>5. q \in malloced' /\ ~(item'[q].taskCompleted /\ item'[q].pResult = PNULL)
    BY <2>2, <2>3, <2>4 DEF Unused, q
  <2>6. QED  BY <1>5, <2>5 DEF Here, Unused
<1>15. QED
  BY <1>9, <1>10, <1>11, <1>12, <1>13, <1>14 DEF IInv, Data

\* The walk has kept none so far: it is the first entry that goes.
LEMMA RemoveTaskFirst ==
  ASSUME IInv, RemoveTask, pPrevious # pThis
  PROVE  IInv'
<1> DEFINE n == Len(Tasks)
<1>1. TypeOK /\ Data /\ doing = "walking" /\ ~Down  BY DEF IInv, RemoveTask, Down
<1>2. /\ n \in Nat /\ 1 \in 1..n /\ pThis = Tasks[1] /\ pThis \in Block
      /\ pPrevious = Root /\ next[pThis] = At(Tasks, 2, PNULL)
  BY <1>1, WalkPosition DEF RemoveTask
<1>3. /\ doing' = "walking" /\ Free({pThis}) /\ Unused(pThis)
      /\ prev' = [p \in Block |-> IF p = pThis THEN PNULL
                              ELSE IF p = next[pThis] THEN prev[pThis] ELSE prev[p]]
      /\ next' = [next EXCEPT ![Root] = next[pThis], ![pThis] = PNULL]
      /\ pThis' = next'[Root]
      /\ UNCHANGED <<pPrevious, sent, accepted, done, told, starved>>
  BY <1>1, <1>2 DEF RemoveTask, history
<1>4. /\ item' \in [Block -> TaskItem \cup {PNULL}]
      /\ malloced' = malloced \ {pThis} /\ malloced' \subseteq Block
      /\ \A q \in Block : q # pThis => item'[q] = item[q]
  BY <1>1, <1>2, <1>3, FreeFacts
<1>5. /\ next \in [Block \cup {Root} -> Block \cup {PNULL}]
      /\ prev \in [Block -> Block \cup {Root, PNULL}]
  BY <1>1 DEF TypeOK
<1>6. /\ next' \in [Block \cup {Root} -> Block \cup {PNULL}]
      /\ prev' \in [Block -> Block \cup {Root, PNULL}]
      /\ next'[Root] = next[pThis]
      /\ \A q \in Block : q # pThis => next'[q] = next[q]
      /\ \A q \in Block : q # pThis =>
           prev'[q] = IF q = next[pThis] THEN prev[pThis] ELSE prev[q]
  BY <1>2, <1>3, <1>5, TaskHandlerAssumption
<1>7. /\ \A i \in 1..n : Tasks[i] \in Block
      /\ \A i, j \in 1..n : Tasks[i] = Tasks[j] => i = j
      /\ Tasks \in Seq(Block) /\ IsInjective(Tasks)
      /\ Linked(Tasks, next[Root], next, PNULL)
      /\ malloced = ToSet(Tasks)
  BY <1>1, Positions DEF Data, Chained, Held
<1> DEFINE r == RemoveAt(Tasks, 1)
<1>8. /\ r \in Seq(Block) /\ Len(r) = n-1
      /\ \A j \in 1..n-1 : r[j] = IF j < 1 THEN Tasks[j] ELSE Tasks[j+1]
  BY <1>2, <1>7, UnlinkElements
<1>9. IsInjective(r) /\ ToSet(r) = ToSet(Tasks) \ {pThis}
  BY <1>2, <1>7, UnlinkOnce
<1>10. Linked(r, next'[Root], next', PNULL)
  <2>1. \A j \in 1..n : j # 1 =>
          next'[Tasks[j]] = IF j+1 = 1 THEN next[Tasks[1]] ELSE next[Tasks[j]]
    BY <1>2, <1>6, <1>7
  <2> HIDE DEF n
  <2>2. QED  BY <1>2, <1>6, <1>7, <2>1, UnlinkLinked DEF n
<1> HIDE DEF r
<1>11. Tasks' = r
  <2>1. Following(next'[Root], next', PNULL, Cardinality(Block)) = r
    BY <1>8, <1>9, <1>10, TasksAre
  <2>2. QED  BY <2>1 DEF Tasks
<1>12. \A j \in 1..n-1 : j+1 \in 1..n /\ Tasks'[j] = Tasks[j+1] /\ j+1 # 1 /\ ~(j < 1)
  BY <1>2, <1>8, <1>11
<1>13. \A j \in 1..n-1 : Tasks[j+1] # pThis /\ item'[Tasks'[j]] = item[Tasks[j+1]]
  BY <1>2, <1>4, <1>7, <1>12
<1>14. Len(Tasks') = n-1  BY <1>8, <1>11
<1>15. TypeOK'
  <2>1. pThis' \in Block \cup {Root, PNULL}  BY <1>3, <1>6
  <2>2. QED  BY <1>1, <1>3, <1>4, <1>6, <2>1 DEF TypeOK, Stage
<1>16. Chained'  BY <1>8, <1>9, <1>10, <1>11 DEF Chained
<1>17. ~Down'  BY <1>3 DEF Down
<1>18. \A i \in 1..n : /\ prev[Tasks[i]] = IF i = 1 THEN Root ELSE Tasks[i-1]
                       /\ item[Tasks[i]] \in TaskItem
  BY <1>1 DEF Data, Held
<1>19. Held'
  <2>1. malloced' = ToSet(Tasks')  BY <1>4, <1>7, <1>9, <1>11
  <2>2. ASSUME NEW j \in 1..n-1
        PROVE  prev'[Tasks'[j]] = IF j = 1 THEN Root ELSE Tasks'[j-1]
    <3>1. /\ Tasks[j+1] \in Block /\ Tasks'[j] = Tasks[j+1] /\ Tasks[j+1] # pThis
      BY <1>7, <1>12, <1>13
    <3>2. prev[pThis] = Root  BY <1>2, <1>18
    <3>3. CASE j = 1
      <4>1. Tasks[j+1] = next[pThis]
        <5>1. 2 \in 1..n  BY <3>3, <1>2
        <5>2. QED  BY <3>3, <5>1, <1>2 DEF At
      <4>2. QED  BY <3>1, <3>2, <3>3, <4>1, <1>6
    <3>4. CASE j # 1
      <4>1. Tasks[j+1] # next[pThis]
        <5>1. j+1 # 2 /\ j+1 \in 1..n /\ 2 \in 1..n  BY <3>4, <1>2
        <5>2. QED  BY <5>1, <1>2, <1>7 DEF At
      <4>2. prev'[Tasks'[j]] = prev[Tasks[j+1]]  BY <3>1, <4>1, <1>6
      <4>3. j-1 \in 1..n-1 /\ (j-1)+1 = j /\ (j+1)-1 = j  BY <3>4, <1>2
      <4>4. prev[Tasks[j+1]] = Tasks[j]  BY <4>3, <1>12, <1>18
      <4>5. Tasks'[j-1] = Tasks[j]  BY <4>3, <1>12
      <4>6. QED  BY <3>4, <4>2, <4>4, <4>5
    <3>5. QED  BY <3>3, <3>4
  <2>3. \A j \in 1..n-1 : item'[Tasks'[j]] \in TaskItem
    BY <1>12, <1>13, <1>18
  <2>4. QED  BY <2>1, <2>2, <2>3, <1>14 DEF Held
<1>20. Reported'
  <2>1. \A i \in 1..n :
            /\ ~item[Tasks[i]].taskCompleted \/ item[Tasks[i]].task.headerPresent
                 => item[Tasks[i]].pResult = PNULL
            /\ item[Tasks[i]].handle \in ToSet(accepted)
            /\ ~item[Tasks[i]].taskCompleted => item[Tasks[i]].handle \notin ToSet(done)
            /\ \A j \in 1..n : i # j => item[Tasks[i]].handle # item[Tasks[j]].handle
    BY <1>1 DEF Data, Reported
  <2>2. \A i, j \in 1..n-1 : i # j => i+1 # j+1  BY <1>2
  <2>3. ASSUME NEW i \in 1..n-1
        PROVE  LET it == item'[Tasks'[i]] IN
               /\ ~it.taskCompleted \/ it.task.headerPresent => it.pResult = PNULL
               /\ it.handle \in ToSet(accepted)
               /\ ~it.taskCompleted => it.handle \notin ToSet(done)
               /\ \A j \in 1..n-1 : i # j => it.handle # item'[Tasks'[j]].handle
    <3>1. i+1 \in 1..n /\ item'[Tasks'[i]] = item[Tasks[i+1]]  BY <1>12, <1>13
    <3>2. \A j \in 1..n-1 : i # j =>
            item[Tasks[i+1]].handle # item'[Tasks'[j]].handle
      BY <3>1, <2>1, <2>2, <1>12, <1>13
    <3>3. QED  BY <3>1, <3>2, <2>1
  <2>4. QED  BY <2>3, <1>3, <1>14 DEF Reported
<1>21. Counted'
  <2>1. /\ \A g \in ToSet(accepted) : g < sent
        /\ IsInjective(done) /\ ToSet(done) \subseteq ToSet(accepted)
        /\ \A g \in ToSet(accepted) :
             \/ g \in ToSet(done)
             \/ \E i \in 1..n : ~item[Tasks[i]].taskCompleted /\ item[Tasks[i]].handle = g
    BY <1>1 DEF Data, Counted
  <2>2. ASSUME NEW g \in ToSet(accepted), g \notin ToSet(done)
        PROVE  \E j \in 1..n-1 : ~item'[Tasks'[j]].taskCompleted /\ item'[Tasks'[j]].handle = g
    <3>1. PICK i \in 1..n : ~item[Tasks[i]].taskCompleted /\ item[Tasks[i]].handle = g
      BY <2>1, <2>2
    <3>2. i # 1  BY <3>1, <1>2, <1>3 DEF Unused
    <3>3. i-1 \in 1..n-1 /\ (i-1)+1 = i  BY <3>2, <1>2
    <3>4. item'[Tasks'[i-1]] = item[Tasks[i]]  BY <3>3, <1>13
    <3>5. QED  BY <3>1, <3>3, <3>4
  <2>3. QED  BY <2>1, <2>2, <1>3, <1>14 DEF Counted
<1>22. InTurn'
  <2> SUFFICES ASSUME starved = 0  PROVE InTurn'  BY <1>3 DEF InTurn
  <2> DEFINE gone == Len(accepted) - n
  <2>1. /\ Len(done) <= Len(accepted)
        /\ \A i \in 1..Len(done) : done[i] = accepted[i]
        /\ gone \in 0..Len(done)
        /\ \A i \in 1..n :
             /\ item[Tasks[i]].taskCompleted <=> gone + i <= Len(done)
             /\ ~item[Tasks[i]].taskCompleted => item[Tasks[i]].handle = accepted[gone + i]
    BY <1>1 DEF Data, InTurn
  <2>2. Len(done) \in Nat /\ Len(accepted) \in Nat  BY <1>1 DEF TypeOK
  <2>3. Len(accepted) - (n-1) = gone+1 /\ gone \in Int  BY <2>2, <1>2
  <2> HIDE DEF gone
  <2>4. gone + 1 <= Len(done)  BY <2>1, <1>2, <1>3 DEF Unused
  <2>5. gone + 1 \in 0..Len(done)  BY <2>1, <2>2, <2>4
  <2>6. ASSUME NEW j \in 1..n-1
        PROVE  /\ item'[Tasks'[j]].taskCompleted <=> (gone+1) + j <= Len(done)
               /\ ~item'[Tasks'[j]].taskCompleted =>
                     item'[Tasks'[j]].handle = accepted[(gone+1) + j]
    <3>1. gone + (j+1) = (gone+1) + j /\ j+1 \in 1..n  BY <2>3, <1>2
    <3>2. /\ item[Tasks[j+1]].taskCompleted <=> gone + (j+1) <= Len(done)
          /\ ~item[Tasks[j+1]].taskCompleted =>
                item[Tasks[j+1]].handle = accepted[gone + (j+1)]
      BY <3>1, <2>1
    <3>3. item'[Tasks'[j]] = item[Tasks[j+1]]  BY <1>13
    <3>4. QED  BY <3>1, <3>2, <3>3
  <2>7. QED  BY <2>1, <2>3, <2>5, <2>6, <1>3, <1>14 DEF InTurn
<1>23. ToldOnce'  BY <1>1, <1>3 DEF Data, ToldOnce
<1>24. Here'
  <2>1. next'[Root] = At(Tasks', 1, PNULL)  BY <1>10, <1>11 DEF Linked
  <2>2. 1 \in 1..Len(Tasks')+1 /\ \A i \in 1..1-1 : FALSE  BY <1>2, <1>14
  <2>3. \E k \in 1..Len(Tasks')+1 :
          /\ pThis' = At(Tasks', k, PNULL)
          /\ pPrevious' = IF k = 1 THEN Root ELSE pThis'
          /\ \A i \in 1..k-1 : ~Unused(Tasks[i])'
    BY <2>1, <2>2, <1>2, <1>3
  <2>4. QED  BY <2>3, <1>3 DEF Here
<1>25. QED
  BY <1>15, <1>16, <1>19, <1>20, <1>21, <1>22, <1>23, <1>24 DEF IInv, Data

LEMMA RemoveTaskStep ==
  ASSUME IInv, RemoveTask  PROVE IInv'
BY RemoveTaskBehindKept, RemoveTaskFirst

LEMMA ClearTaskListStep ==
  ASSUME IInv, ClearTaskList  PROVE IInv'
<1>1. TypeOK /\ Data  BY DEF IInv
<1>2. /\ doing' \in {"stopped", "aborted"} /\ Free(Range(Tasks))
      /\ next' = [next EXCEPT ![Root] = PNULL]
      /\ UNCHANGED <<pThis, pPrevious, prev, sent, accepted, done, told, starved>>
  BY DEF ClearTaskList, history
<1>3. Range(Tasks) \in SUBSET Block
  <2>1. Tasks \in Seq(Block)  BY <1>1 DEF Data, Chained
  <2>2. QED  BY <2>1 DEF Range
<1>4. item' \in [Block -> TaskItem \cup {PNULL}] /\ malloced' \subseteq Block
  BY <1>1, <1>2, <1>3, FreeFacts
<1>5. /\ next' \in [Block \cup {Root} -> Block \cup {PNULL}] /\ next'[Root] = PNULL
  BY <1>1, <1>2 DEF TypeOK
<1>6. TypeOK'  BY <1>1, <1>2, <1>4, <1>5 DEF TypeOK, Stage
<1>7. Tasks' = <<>> /\ Chained'
  <2>1. /\ Following(next'[Root], next', PNULL, Cardinality(Block)) = <<>>
        /\ Linked(<<>>, next'[Root], next', PNULL)
        /\ <<>> \in Seq(Block) /\ IsInjective(<<>>)
    BY <1>5, EmptyList
  <2>2. QED  BY <2>1 DEF Tasks, Chained
<1>8. Down'  BY <1>2 DEF Down
<1>9. Held' /\ Reported' /\ Counted'  BY <1>8 DEF Held, Reported, Counted
<1>10. InTurn'  BY <1>1, <1>2, <1>8 DEF Data, InTurn
<1>11. ToldOnce'  BY <1>1, <1>2 DEF Data, ToldOnce
<1>12. Here'  BY <1>2 DEF Here
<1>13. QED  BY <1>6, <1>7, <1>9, <1>10, <1>11, <1>12 DEF IInv, Data

(***************************************************************************)
(* The invariant, and what follows from it.                                *)
(***************************************************************************)
\* The server may also stand still.
LEMMA StutterStep ==
  ASSUME IInv, UNCHANGED vars  PROVE IInv'
<1>1. TypeOK /\ Data  BY DEF IInv
<1>2. Still  BY DEF vars, Still, Down
<1>3. Data' /\ Tasks' = Tasks  BY <1>1, <1>2, StillKeeps
<1>4. TypeOK'  BY <1>1 DEF vars, TypeOK
<1>5. Here'  BY <1>3 DEF IInv, Here, vars, Unused
<1>6. QED  BY <1>3, <1>4, <1>5 DEF IInv

\* Every message, and every iteration of a loop, keeps the list and the history
\* as the invariant has them.
THEOREM Invariance == Spec => []IInv
<1>1. ASSUME IInv, [Next]_vars  PROVE IInv'
  <2>1. CASE InitTaskList  BY <2>1, <1>1, InitTaskListStep
  <2>2. CASE NewTaskReqFails  BY <2>2, <1>1, NewTaskReqFailsStep
  <2>3. CASE \E req \in Request, p \in Block : HandleNewTaskReq(req, p)
    BY <2>3, <1>1, HandleNewTaskReqStep
  <2>4. CASE TickTaskHandler  BY <2>4, <1>1, TickTaskHandlerStep
  <2>5. CASE Ticking
    BY <2>5, <1>1, DoTaskStep, DoTaskFailsStep, PassCompletedTaskStep, TasksDoneStep
    DEF Ticking
  <2>6. CASE Walking
    BY <2>6, <1>1, RemoveTaskStep, KeepTaskStep, WalkDoneStep DEF Walking
  <2>7. CASE ClearTaskList  BY <2>7, <1>1, ClearTaskListStep
  <2>8. CASE UNCHANGED vars  BY <2>8, <1>1, StutterStep
  <2>9. QED
    BY <1>1, <2>1, <2>2, <2>3, <2>4, <2>5, <2>6, <2>7, <2>8 DEF Next
<1>2. QED  BY <1>1, InitInvariant, PTL DEF Spec

\* A task that was confirmed is waiting or was done, never both and never
\* twice, and in the order of the requests while malloc() had room for every
\* result (handleNewTaskReq, tickTaskHandler).
THEOREM NothingLost == Spec => []NothingLostOrRepeated
<1>1. ASSUME IInv  PROVE NothingLostOrRepeated
  <2>1. TypeOK /\ Data  BY <1>1 DEF IInv
  <2>2. ASSUME ~Down
        PROVE  /\ IsInjective(done)
               /\ Range(done) \cap Pending = {}
               /\ Range(done) \cup Pending = Range(accepted)
    <3>1. Range(done) = ToSet(done) /\ Range(accepted) = ToSet(accepted)
      BY DEF Range, ToSet
    <3>2. Pending = {item[Tasks[i]].handle :
                       i \in {j \in 1..Len(Tasks) : ~item[Tasks[j]].taskCompleted}}
      <4>1. Range(Tasks) = {Tasks[i] : i \in 1..Len(Tasks)}
        BY <2>1, Positions DEF Data, Range, ToSet
      <4>2. QED  BY <4>1 DEF Pending
    <3>3. /\ IsInjective(done) /\ ToSet(done) \subseteq ToSet(accepted)
          /\ \A g \in ToSet(accepted) :
               \/ g \in ToSet(done)
               \/ \E i \in 1..Len(Tasks) :
                    ~item[Tasks[i]].taskCompleted /\ item[Tasks[i]].handle = g
      BY <2>1, <2>2 DEF Data, Counted
    <3>4. \A i \in 1..Len(Tasks) :
            /\ item[Tasks[i]].handle \in ToSet(accepted)
            /\ ~item[Tasks[i]].taskCompleted => item[Tasks[i]].handle \notin ToSet(done)
      BY <2>1, <2>2 DEF Data, Reported
    <3>5. QED  BY <3>1, <3>2, <3>3, <3>4
  <2>3. ASSUME starved = 0  PROVE IsPrefix(done, accepted)
    <3>1. /\ Len(done) <= Len(accepted)
          /\ \A i \in 1..Len(done) : done[i] = accepted[i]
      BY <2>1, <2>3 DEF Data, InTurn
    <3>2. done \in Seq(Handle) /\ accepted \in Seq(Handle)  BY <2>1 DEF TypeOK
    <3>3. \A s \in Seq(Handle), m \in Nat : m <= Len(s) =>
             /\ SubSeq(s, 1, m) \in Seq(Handle) /\ Len(SubSeq(s, 1, m)) = m
             /\ \A i \in 1..m : SubSeq(s, 1, m)[i] = s[i]
      <4> TAKE s \in Seq(Handle), m \in Nat
      <4> HAVE m <= Len(s)
      <4>1. \A i \in 1..m : s[i] \in Handle  OBVIOUS
      <4>2. QED  BY <4>1, SubSeqProperties
    <3>4. Len(done) \in Nat /\ Len(done) <= Len(done)  BY <3>2
    <3>5. SubSeq(done, 1, Len(done)) = SubSeq(accepted, 1, Len(done))
      <4>1. /\ SubSeq(done, 1, Len(done)) \in Seq(Handle)
            /\ SubSeq(accepted, 1, Len(done)) \in Seq(Handle)
            /\ Len(SubSeq(done, 1, Len(done))) = Len(SubSeq(accepted, 1, Len(done)))
            /\ \A i \in 1..Len(SubSeq(done, 1, Len(done))) :
                 SubSeq(done, 1, Len(done))[i] = SubSeq(accepted, 1, Len(done))[i]
        BY <3>1, <3>2, <3>3, <3>4
      <4>2. QED  BY <4>1, SeqEqual
    <3>6. QED  BY <3>1, <3>5 DEF IsPrefix
  <2>4. QED  BY <2>2, <2>3 DEF NothingLostOrRepeated
<1>2. QED  BY <1>1, Invariance, PTL

\* Who asked is told of a task once at most and only when it was done, in the
\* order the tasks were done (doTaskCompleted).
THEOREM TellsOnce == Spec => []ToldOnce
<1>1. IInv => ToldOnce  BY DEF IInv, Data
<1>2. QED  BY <1>1, Invariance, PTL

\* The list holds what is malloc()ed, each entry linked both ways, and freed
\* memory is read only behind an entry that stays (addTaskToList, walkTaskList).
THEOREM SoundList == Spec => []ListSound
<1>1. ASSUME IInv  PROVE ListSound
  <2>1. TypeOK /\ Data /\ Here  BY <1>1 DEF IInv
  <2>2. Range(Tasks) = ToSet(Tasks) /\ DOMAIN Tasks = 1..Len(Tasks)
    BY <2>1 DEF Data, Chained, Range, ToSet
  <2>3. ~Down => /\ malloced = Range(Tasks)
                 /\ \A n \in DOMAIN Tasks :
                      prev[Tasks[n]] = IF n = 1 THEN Root ELSE Tasks[n-1]
    BY <2>1, <2>2 DEF Data, Held
  <2>4. doing = "idle" => \A p \in Range(Tasks) : ~Unused(p)
    <3>1. Range(Tasks) = {Tasks[i] : i \in 1..Len(Tasks)}
      BY <2>1, <2>2, Positions DEF Data
    <3>2. QED  BY <2>1, <3>1 DEF Here
  <2>5. doing = "undefined" => \E p \in malloced : ~Unused(p)
    BY <2>1 DEF Here
  <2>6. QED  BY <2>1, <2>3, <2>4, <2>5 DEF ListSound
<1>2. QED  BY <1>1, Invariance, PTL

(***************************************************************************)
(* What a tick achieves: why the tasks are done as long as there are ticks.*)
(***************************************************************************)
\* The entries are of different tasks, and those were confirmed.
LEMMA NoMoreThanAccepted ==
  ASSUME TypeOK, Data, ~Down
  PROVE  Len(Tasks) \in Nat /\ Len(accepted) \in Nat /\ Len(Tasks) <= Len(accepted)
<1>1. PICK n, m : n = Len(Tasks) /\ m = Len(accepted)  OBVIOUS
<1>2. n \in Nat /\ m \in Nat
  <2>1. Tasks \in Seq(Block) /\ accepted \in Seq(Handle)  BY DEF Data, Chained, TypeOK
  <2>2. QED  BY <1>1, <2>1
<1>3. /\ \A i \in 1..n : item[Tasks[i]].handle \in ToSet(accepted)
      /\ \A i, j \in 1..n : i # j => item[Tasks[i]].handle # item[Tasks[j]].handle
  BY <1>1 DEF Data, Reported
<1>4. \A i \in 1..n : \E k \in 1..m : accepted[k] = item[Tasks[i]].handle
  <2>1. accepted \in Seq(Handle) /\ DOMAIN accepted = 1..m  BY <1>1 DEF TypeOK
  <2>2. ToSet(accepted) = {accepted[k] : k \in 1..m}  BY <2>1 DEF ToSet
  <2>3. QED  BY <1>3, <2>2
<1> DEFINE at == [i \in 1..n |-> CHOOSE k \in 1..m : accepted[k] = item[Tasks[i]].handle]
<1>5. \A i \in 1..n : at[i] \in 1..m /\ accepted[at[i]] = item[Tasks[i]].handle
  BY <1>4
<1>6. at \in [1..n -> 1..m]  BY <1>5
<1> HIDE DEF at
<1>7. \A i, j \in 1..n : at[i] = at[j] => i = j
  <2> TAKE i, j \in 1..n
  <2>1. /\ accepted[at[i]] = item[Tasks[i]].handle
        /\ accepted[at[j]] = item[Tasks[j]].handle
    BY <1>5
  <2>2. i # j => item[Tasks[i]].handle # item[Tasks[j]].handle  BY <1>3
  <2>3. QED  BY <2>1, <2>2
<1>8. at \in Injection(1..n, 1..m)
  <2>1. DOMAIN at = 1..n  BY <1>6
  <2>2. QED  BY <1>6, <1>7, <2>1 DEF Injection, IsInjective
<1>9. /\ IsFiniteSet(1..m) /\ Cardinality(1..m) = m /\ Cardinality(1..n) = n
  <2>1. 1 \in Int /\ n \in Int /\ m \in Int  BY <1>2
  <2>2. /\ IsFiniteSet(1..m) /\ Cardinality(1..m) = IF 1 > m THEN 0 ELSE m-1+1
        /\ Cardinality(1..n) = IF 1 > n THEN 0 ELSE n-1+1
    BY <2>1, FS_Interval
  <2>3. QED  BY <1>2, <2>2
<1>10. Cardinality(1..n) <= Cardinality(1..m)  BY <1>8, <1>9, FS_Injection
<1>11. n <= m  BY <1>9, <1>10
<1>12. QED  BY <1>1, <1>2, <1>11

\* The assertion on the length of the list ends the server only when
\* MAX_GUARD_COUNTER tasks have been confirmed: entries that are finished with
\* or that were refused never make the list look longer (addTaskToList,
\* walkTaskList).
AbortsOnlyWhenFull == doing = "aborted" => Len(accepted) >= MAX_GUARD_COUNTER

THEOREM AbortsOnlyFull == Spec => []AbortsOnlyWhenFull
<1>1. Init => AbortsOnlyWhenFull  BY DEF Init, AbortsOnlyWhenFull
<1>2. ASSUME IInv, AbortsOnlyWhenFull, [Next]_vars
      PROVE  AbortsOnlyWhenFull'
  <2> SUFFICES ASSUME doing' = "aborted"  PROVE Len(accepted') >= MAX_GUARD_COUNTER
    BY DEF AbortsOnlyWhenFull
  <2>1. CASE doing = "idle" /\ Len(Tasks) >= MAX_GUARD_COUNTER /\ accepted' = accepted
    <3>1. TypeOK /\ Data /\ ~Down  BY <1>2, <2>1 DEF IInv, Down
    <3>2. Len(Tasks) \in Nat /\ Len(accepted) \in Nat /\ Len(Tasks) <= Len(accepted)
      BY <3>1, NoMoreThanAccepted
    <3>3. MAX_GUARD_COUNTER \in Nat  BY TaskHandlerAssumption
    <3>4. QED  BY <2>1, <3>2, <3>3
  <2>2. ASSUME doing = "idle", ~(Len(Tasks) < MAX_GUARD_COUNTER)
        PROVE  Len(Tasks) >= MAX_GUARD_COUNTER
    <3>1. TypeOK /\ Data  BY <1>2 DEF IInv
    <3>2. Len(Tasks) \in Nat  BY <3>1, Positions DEF Data
    <3>3. MAX_GUARD_COUNTER \in Nat  BY TaskHandlerAssumption
    <3>4. QED  BY <2>2, <3>2, <3>3
  <2>3. CASE InitTaskList  BY <2>3 DEF InitTaskList
  <2>4. CASE NewTaskReqFails  BY <2>4 DEF NewTaskReqFails
  <2>5. CASE \E req \in Request, p \in Block : HandleNewTaskReq(req, p)
    <3>1. /\ doing = "idle" /\ ~(Len(Tasks) < MAX_GUARD_COUNTER) /\ accepted' = accepted
      BY <2>5 DEF HandleNewTaskReq
    <3>2. QED  BY <3>1, <2>1, <2>2
  <2>6. CASE TickTaskHandler
    <3>1. /\ doing = "idle" /\ ~(Len(Tasks) < MAX_GUARD_COUNTER) /\ accepted' = accepted
      BY <2>6 DEF TickTaskHandler, history
    <3>2. QED  BY <3>1, <2>1, <2>2
  <2>7. CASE Ticking
    BY <2>7 DEF Ticking, DoTask, DoTaskFails, PassCompletedTask, TasksDone
  <2>8. CASE Walking
    BY <2>8 DEF Walking, RemoveTask, KeepTask, WalkDone
  <2>9. CASE ClearTaskList
    <3>1. /\ doing = "idle" /\ ~(Len(Tasks) < MAX_GUARD_COUNTER) /\ accepted' = accepted
      BY <2>9 DEF ClearTaskList, history
    <3>2. QED  BY <3>1, <2>1, <2>2
  <2>10. CASE UNCHANGED vars
    BY <1>2, <2>10 DEF vars, AbortsOnlyWhenFull
  <2>11. QED
    BY <1>2, <2>3, <2>4, <2>5, <2>6, <2>7, <2>8, <2>9, <2>10 DEF Next
<1>3. QED  BY <1>1, <1>2, Invariance, PTL DEF Spec

\* When the loop of a tick ends every task that was ever confirmed has been
\* done, however long the list and wherever finished entries stand in it, as
\* long as malloc() had room for each result (tickTaskHandler).
TickLeavesNothing ==
  [][doing = "ticking" /\ doing' = "walking" /\ starved = 0
       => ToSet(done') = ToSet(accepted')]_vars

THEOREM TickDoesAll == Spec => TickLeavesNothing
<1> DEFINE Nothing == doing = "ticking" /\ doing' = "walking" /\ starved = 0
                        => ToSet(done') = ToSet(accepted')
<1>1. IInv /\ [Next]_vars => [Nothing]_vars
  <2> SUFFICES ASSUME IInv, [Next]_vars, doing = "ticking", doing' = "walking", starved = 0
               PROVE  ToSet(done') = ToSet(accepted')
    OBVIOUS
  <2>1. TasksDone
    <3>1. doing' # doing
      OBVIOUS
    <3>2. Ticking
      BY <3>1 DEF Next, vars, InitTaskList, NewTaskReqFails, HandleNewTaskReq,
                  TickTaskHandler, Walking, RemoveTask, KeepTask, WalkDone, ClearTaskList
    <3>3. QED  BY <3>1, <3>2 DEF Ticking, DoTask, DoTaskFails, PassCompletedTask
  <2>2. next[pThis] = PNULL /\ done' = done /\ accepted' = accepted
    BY <2>1 DEF TasksDone, history
  <2>3. PICK k \in 0..Len(Tasks) :
           /\ Len(Tasks) \in Nat
           /\ \A i \in 1..k : item[Tasks[i]].taskCompleted
           /\ next[pThis] = At(Tasks, k+1, PNULL)
    BY TickPosition
  <2>4. \A i \in 1..Len(Tasks) : item[Tasks[i]].taskCompleted
    <3>1. \A i \in 1..Len(Tasks) : Tasks[i] # PNULL
      BY Positions DEF IInv, Data
    <3>2. k+1 \notin 1..Len(Tasks)  BY <2>2, <2>3, <3>1 DEF At
    <3>3. k = Len(Tasks)  BY <2>3, <3>2
    <3>4. QED  BY <2>3, <3>3
  <2>5. /\ ToSet(done) \subseteq ToSet(accepted)
        /\ \A h \in ToSet(accepted) :
             \/ h \in ToSet(done)
             \/ \E i \in 1..Len(Tasks) :
                  ~item[Tasks[i]].taskCompleted /\ item[Tasks[i]].handle = h
    BY DEF IInv, Data, Counted, Down
  <2>6. ToSet(done) = ToSet(accepted)  BY <2>4, <2>5
  <2>7. QED  BY <2>2, <2>6
<1> HIDE DEF Nothing
<1>2. Spec => [][Nothing]_vars  BY <1>1, Invariance, PTL DEF Spec
<1>3. QED  BY <1>2 DEF Nothing, TickLeavesNothing
=============================================================================
