-------------------------- MODULE MCTensorParallel --------------------------
(* One token per rank in the vocabulary, the last of them Eos. *)
EXTENDS TensorParallel

MCPrompts == {<<0>>, <<0, 1>>}
=============================================================================
