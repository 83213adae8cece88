------------------------------ MODULE MCPipeline ------------------------------
(***************************************************************************)
(* A pipeline of an implementation stage, with a retry, and a test stage   *)
(* that consumes what it produced.                                         *)
(***************************************************************************)
EXTENDS PipelineRunner, TLC

TwoStages  == <<"implementation", "test">>
Chain      == "implementation" :> {} @@ "test" :> {"implementation"}
Attempts   == "implementation" :> 2 @@ "test" :> 1
Symmetric  == Permutations(Content) \cup Permutations(Goals)
=============================================================================
