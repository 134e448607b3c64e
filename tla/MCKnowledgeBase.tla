-------------------------- MODULE MCKnowledgeBase --------------------------
EXTENDS KnowledgeBase, TLC

\* The two clients are alike; only the first body carries a claim.
Symmetry == Permutations(Clients)
=============================================================================
