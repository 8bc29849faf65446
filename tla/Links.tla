-------------------------------- MODULE Links --------------------------------
(***************************************************************************)
(* The linked lists of the C code as the sequences that their loops run    *)
(* through: from a head, by the next pointer of every entry, until NULL.   *)
(* Linked says the same without a bound, for the proofs.                   *)
(***************************************************************************)
EXTENDS Integers, Sequences, FiniteSets

\* At most bound entries: a loop over a list that had become a cycle is not
\* followed for ever.
Following(head, next, pnull, bound) ==
  LET entry[n \in 1..bound] ==
        IF n = 1 THEN head
        ELSE IF entry[n-1] = pnull THEN pnull ELSE next[entry[n-1]]
  IN  [n \in 1..Cardinality({i \in 1..bound : entry[i] # pnull}) |-> entry[n]]

\* What is at position i of s, NULL behind its end.
At(s, i, pnull) == IF i \in 1..Len(s) THEN s[i] ELSE pnull

\* s is what the links run through from head.
Linked(s, head, next, pnull) ==
  /\ head = At(s, 1, pnull)
  /\ \A i \in 1..Len(s) : next[s[i]] = At(s, i+1, pnull)
=============================================================================
