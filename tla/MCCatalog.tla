------------------------------ MODULE MCCatalog ------------------------------
(* Catalog for TLC: two Overture cafes, a permit, two Kakao places that      *)
(* stand in for one another and a Naver place, over two spots in Seoul.      *)
EXTENDS Catalog, TLC
Interchangeable == Permutations(Kakao) \cup Permutations(SeoulSpots)
==============================================================================
