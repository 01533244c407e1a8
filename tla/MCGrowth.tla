------------------------------ MODULE MCGrowth ------------------------------
(* A memory of at most nine slices whose last slice is the one that must not *)
(* be handed out, a heap base inside the second slice, two-slice words.      *)
EXTENDS Growth
=============================================================================
