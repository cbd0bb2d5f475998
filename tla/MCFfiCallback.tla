--------------------------- MODULE MCFfiCallback ----------------------------
(* Instance of FfiCallback for TLC: more room than slots, so that slots    *)
(* are reused, and stubs of two sizes, so that the slab can fill first.    *)
EXTENDS FfiCallback

Sizes == [s \in Sig |-> IF s = "narrow" THEN 1 ELSE 2]
=============================================================================
