---------------------------- MODULE MCTimerLinks ----------------------------
(***************************************************************************)
(* TLC instance of TimerLinks.                                             *)
(***************************************************************************)
EXTENDS TimerLinks, TLC

CONSTANTS e1, e2, e3, e4

MCEntry == {e1, e2, e3, e4}
MCPeriod == 0..3

\* malloc() may return any block next, and no block is special.
Symmetry == Permutations(MCEntry)
=============================================================================
