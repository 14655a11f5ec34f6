-------------------------- MODULE MCArticleStages --------------------------
(***************************************************************************)
(* ArticleStages for TLC: the batch processes are interchangeable.         *)
(***************************************************************************)
EXTENDS ArticleStages, TLC

Symmetry == Permutations(Batches)

=============================================================================
