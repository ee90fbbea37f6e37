--------------------------- MODULE MCTileProvider ---------------------------
(* TileProvider for TLC: one call for a wide view, one for the half of it    *)
(* the user zoomed into; one cafe in each half, and a third that crowds the  *)
(* near half, which the wide call cannot split further.  Versions are        *)
(* interchangeable.                                                          *)
EXTENDS TileProvider, TLC

CONSTANTS wide, near, k1, k2, k3, v1, v2

MCRoots == (wide :> {<<>>}) @@ (near :> {<<0>>})
MCLocation == (k1 :> <<0, 0>>) @@ (k2 :> <<1, 0>>) @@ (k3 :> <<0, 1>>)

Interchangeable == Permutations({v1, v2})

=============================================================================
