---------------------------- MODULE MCGeneration ----------------------------
(* Prompts of one to three tokens, so that requests fall below, on and     *)
(* above what the context leaves.                                          *)
EXTENDS Generation

MCPrompts == {<<1>>, <<1, 2>>, <<2, 1, 1>>}
=============================================================================
