---------------------------- MODULE MCCatalogue ----------------------------
EXTENDS Catalogue, TLC

CONSTANTS l1, l2, r1, g1

MCReceiptOf == [l \in Line |-> r1]
MCPrinted == (l1 :> g1) @@ [l \in Line \ {l1} |-> None]
Symmetry == Permutations(Product) \cup Permutations(Client)
============================================================================
