------------------------------- MODULE MCBins -------------------------------
EXTENDS Bins

\* Every size of the direct table and a little more; above, the sizes at and
\* next to each bin size: the smallest and the largest of every class and, once
\* rounded to an alignment, the smallest aligned one of every class.
MCEdges == {bin_size[b] + d : b \in AllBins, d \in {-1, 0, 1}}
MCSizes == (1 .. 1032) \cup MCEdges
MCNewSizes == {bin_size[b] + d : b \in AllBins, d \in {0, 1}}
MCAligns == {1} \cup {2^k : k \in 3 .. 13}
=============================================================================
