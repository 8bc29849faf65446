------------------------------ MODULE Outcomes ------------------------------
(***************************************************************************)
(* Calls in sequence, each with a Bool for its result, as the code chains  *)
(* them everywhere.  A call is an operator from a world to the set of      *)
(* results it can have, records of the Bool (ok) and the world after (w).  *)
(***************************************************************************)

\* success = a (); if (success) { success = b (); }
AndThen(results, B(_)) == UNION {IF r.ok THEN B(r.w) ELSE {r} : r \in results}
\* success = a (); if (!success) { success = b (); }
OrElse(results, B(_)) == UNION {IF r.ok THEN {r} ELSE B(r.w) : r \in results}
\* a (); success = b ();
Anyway(results, B(_)) == UNION {B(r.w) : r \in results}
=============================================================================
