------------------------------- MODULE MCHeap -------------------------------
EXTENDS Heap

Plain(S) == {[size |-> s, align |-> 1] : s \in S}

(* Two direct bins in one-slice pages: two blocks of bin 1, one of bin 2.    *)
SmallBlockSize  == <<3, 4>>
SmallPageSlices == <<1, 1>>
SmallLayouts    == Plain({3, 4})

(* One small bin, two bins in two-slice pages whose blocks straddle the      *)
(* slices, and header-less blocks of one and two slices, one over-aligned. *)
LargeBlockSize  == <<3, 5, 7>>
LargePageSlices == <<1, 2, 2>>
LargeLayouts    == Plain({3, 5, 7, 8, 12}) \cup {[size |-> 8, align |-> 16]}
=============================================================================
