-------------------------- MODULE MCPipelineService --------------------------
(* PipelineService on small instances. *)
EXTENDS PipelineService, TLC

(* The workers are interchangeable, and so are the articles: nothing but  *)
(* enqueuedAt orders them.  Not for runs of liveness properties.          *)
Interchangeable == Permutations(Workers) \cup Permutations(Urls)
=============================================================================
