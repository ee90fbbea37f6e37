--------------------------- MODULE MCContributions ---------------------------
(* Contributions for TLC: two requests at a time, which come again and again *)
(* and so reach the limits of two and of one from either side.              *)
EXTENDS Contributions
=============================================================================
