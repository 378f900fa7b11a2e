----------------------------- MODULE Generation -----------------------------
(***************************************************************************)
(* Greedy generation in one process (crates/runtime/src/generation.rs and  *)
(* model/cache.rs): one prefill forward over the prompt, one cached decode *)
(* forward for each further token, until the end-of-sequence token or the  *)
(* token limit.  What the model computes is not modelled: greedy_token may *)
(* return any token of the vocabulary.  The distributed runners promise to *)
(* behave like this.                                                       *)
(***************************************************************************)
EXTENDS Integers, Sequences

CONSTANTS
  Vocab,         \* token ids
  Eos,           \* eos_token_id
  Prompts,       \* encoded prompts
  MaxContext,    \* max_position_embeddings
  MaxRequested   \* bound on max_new_tokens

ASSUME GenerationAssumption ==
  /\ Eos \in Vocab
  /\ Prompts \subseteq Seq(Vocab)
  /\ MaxContext \in Nat /\ MaxRequested \in Nat

(* The requests that generate() and generation_memory_preflight accept. *)
Jobs ==
  {j \in [prompt : Prompts, requested : 1 .. MaxRequested] :
     j.prompt # <<>> /\ Len(j.prompt) < MaxContext}

VARIABLES
  job,        \* the request
  cache,      \* the tokens whose keys and values are in the KV cache
  input,      \* the tokens of the next forward; empty when its logits are there
  generated,  \* generated_tokens
  stop        \* stop_reason, "none" while generating

generationVars == <<job, cache, input, generated, stop>>

(* Seeded fault: the prompt does not count against the context. *)
EffectiveIgnoringPrompt(j) == IF j.requested <= MaxContext THEN j.requested ELSE MaxContext

(* generation_memory_preflight *)
Effective(j) ==
  IF j.requested <= MaxContext - Len(j.prompt) THEN j.requested
                                               ELSE MaxContext - Len(j.prompt)
Capacity(j) == Len(j.prompt) + Effective(j)

(* Seeded fault: the comparison is not strict. *)
LimitReasonNotStrict(j) == IF j.requested >= Effective(j) THEN "ContextLimit" ELSE "MaxNewTokens"

(* token_limit_stop_reason *)
LimitReason(j) == IF j.requested > Effective(j) THEN "ContextLimit" ELSE "MaxNewTokens"

GenerationInit ==
  /\ job \in Jobs
  /\ cache = <<>>
  /\ input = job.prompt
  /\ generated = <<>>
  /\ stop = "none"

(* Seeded fault: the input is fed again. *)
ForwardKeepsInput ==
  /\ input # <<>>
  /\ Len(cache) < Capacity(job)
  /\ cache' = cache \o input
  /\ input' \in {<<>>, input}
  /\ UNCHANGED <<job, generated, stop>>

(* Seeded fault: the capacity leaves no room for the last forward. *)
ForwardTight ==
  /\ input # <<>>
  /\ Len(cache) + Len(input) + 1 < Capacity(job)
  /\ cache' = cache \o input
  /\ input' = <<>>
  /\ UNCHANGED <<job, generated, stop>>

(* model.forward: every layer appends the input to its cache.  That the    *)
(* capacity check of LayerKvCache::append never fails is WithinCapacity.   *)
Forward ==
  /\ input # <<>>
  /\ cache' = cache \o input
  /\ input' = <<>>
  /\ UNCHANGED <<job, generated, stop>>

SelectEos ==
  /\ stop = "none" /\ input = <<>>
  /\ stop' = "Eos"
  /\ UNCHANGED <<job, cache, input, generated>>

(* Seeded fault: the limit is looked at before the token is pushed. *)
SelectTokenLate(t) ==
  /\ stop = "none" /\ input = <<>>
  /\ generated' = Append(generated, t)
  /\ IF Len(generated) >= Effective(job)
       THEN stop' = LimitReason(job) /\ UNCHANGED input
       ELSE input' = <<t>> /\ UNCHANGED stop
  /\ UNCHANGED <<job, cache>>

(* greedy_token, emit_token and the limit check at the head of the loop. *)
SelectToken(t) ==
  /\ stop = "none" /\ input = <<>>
  /\ generated' = Append(generated, t)
  /\ IF Len(generated') >= Effective(job)
       THEN stop' = LimitReason(job) /\ UNCHANGED input
       ELSE input' = <<t>> /\ UNCHANGED stop
  /\ UNCHANGED <<job, cache>>

GenerationNext == Forward \/ SelectEos \/ \E t \in Vocab \ {Eos} : SelectToken(t)

(* The safety part, and with it the promise that the loop goes on. *)
Safety == GenerationInit /\ [][GenerationNext]_generationVars
GenerationSpec == Safety /\ WF_generationVars(GenerationNext)

-----------------------------------------------------------------------------
(* Properties. *)

TypeOK ==
  /\ job \in Jobs
  /\ cache \in Seq(Vocab)
  /\ input \in Seq(Vocab)
  /\ generated \in Seq(Vocab \ {Eos})
  /\ stop \in {"none", "Eos", "MaxNewTokens", "ContextLimit"}

(* The model sees every token once and in order: what is in the cache and  *)
(* what is about to be fed are the prompt followed by the tokens generated *)
(* so far.  The last token before a limit is never fed.                    *)
ContextFollows ==
  LET text == job.prompt \o generated
  IN IF stop \in {"MaxNewTokens", "ContextLimit"}
       THEN cache = SubSeq(text, 1, Len(text) - 1)
       ELSE cache \o input = text

(* LayerKvCache::append never fails with CacheCapacityExceeded. *)
WithinCapacity == Len(cache) + Len(input) <= Capacity(job)

(* The stop reason is the true one at the boundary: MaxNewTokens means     *)
(* that all requested tokens are there, ContextLimit that the context is   *)
(* full and fewer are there than requested, Eos that neither limit had     *)
(* been reached.                                                           *)
LimitsExact ==
  /\ stop = "MaxNewTokens" => Len(generated) = job.requested
  /\ stop = "ContextLimit" => /\ Len(generated) < job.requested
                              /\ Len(job.prompt) + Len(generated) = MaxContext
  /\ stop \in {"none", "Eos"} => /\ Len(generated) < job.requested
                                 /\ Len(job.prompt) + Len(generated) < MaxContext

(* Generation ends: the limit bounds the loop when no Eos comes. *)
Terminates == <>(stop # "none")
=============================================================================
