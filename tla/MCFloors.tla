------------------------------ MODULE MCFloors ------------------------------
EXTENDS Floors

(* A 32-bit used count behaves as the 16-bit one, so its variants add none.  *)
MCAll     == AllVariants \ {"mimic_u32", "mimic_u32_notest"}
MCLayouts == {<<2, 2>>, <<3, 1>>, <<6, 16>>}
=============================================================================
