-------------------------- MODULE MCInsertPipeline --------------------------
(* InsertPipeline with two workers, a queue of one and batches of two.      *)
EXTENDS InsertPipeline, TLC

Symmetry == Permutations(Workers) \cup Permutations(Senders)
=============================================================================
