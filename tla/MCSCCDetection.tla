--------------------------- MODULE MCSCCDetection ---------------------------
(***************************************************************************)
(* All graphs on four nodes without self-loops, and the smaller ones with  *)
(* one self-loop.                                                          *)
(***************************************************************************)
EXTENDS SCCDetection, TLC

Loops    == {<<n, n>> : n \in Nodes}
MCGraphs == SUBSET ((Nodes \X Nodes) \ Loops)
            \cup {E \in SUBSET (Nodes \X Nodes) : /\ Cardinality(E) <= 4
                                                 /\ Cardinality(E \cap Loops) = 1}

Symm == Permutations(Nodes)
=============================================================================
