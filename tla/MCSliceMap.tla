----------------------------- MODULE MCSliceMap -----------------------------
EXTENDS SliceMap
=============================================================================
