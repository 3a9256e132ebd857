----------------------------- MODULE MCCatalog -----------------------------
(***************************************************************************)
(* Instances of Catalog for TLC.                                           *)
(***************************************************************************)
EXTENDS Catalog, TLC

CONSTANTS p1, p2, v1, v2, u1, u2, r1, a, b

TwoTypes == (v1 :> "npy") @@ (v2 :> "npy_multi")

CatalogSymmetry ==
    Permutations({p1, p2}) \cup Permutations({u1, u2}) \cup Permutations({a, b})

=============================================================================
