--------------------------- MODULE MCTimerServer ---------------------------
(***************************************************************************)
(* TLC instance of TimerServer.                                            *)
(***************************************************************************)
EXTENDS TimerServer

\* Entries and requests are interchangeable; only for runs without liveness.
Symmetry == Permutations(Entry) \cup Permutations(Serial)
=============================================================================
