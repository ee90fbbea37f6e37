----------------------------- MODULE MCServing -----------------------------
(* Serving for TLC: three observations, two materializers that may overlap,  *)
(* health checks of several data versions on their way at once.              *)
EXTENDS Serving

=============================================================================
