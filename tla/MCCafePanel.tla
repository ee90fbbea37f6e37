---------------------------- MODULE MCCafePanel ----------------------------
(* CafePanel for TLC: two cafes, two overlapping detail requests and two   *)
(* submissions.                                                            *)
EXTENDS CafePanel
=============================================================================
