----------------------------- MODULE MCPipeline -----------------------------
(* Two tokens that continue, one that ends, prompts of one and two tokens. *)
EXTENDS Pipeline

MCPrompts == {<<1>>, <<1, 2>>}
=============================================================================
