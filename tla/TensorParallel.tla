--------------------------- MODULE TensorParallel ---------------------------
(***************************************************************************)
(* Tensor-parallel generation (crates/tensor/src/runner.rs with            *)
(* crates/runtime/src/model/tensor_parallel.rs and parallel.rs): every     *)
(* rank runs every layer on its shard of the weights.  A forward is a      *)
(* fixed list of collectives: an all-reduce of the embeddings, one after   *)
(* attention and one after the MLP of each layer, an all-gather of the     *)
(* logits.  Rank 0 selects the token and sends its decision to the others. *)
(*                                                                         *)
(* A collective is modelled by what it promises: it returns to a rank when *)
(* every rank has contributed to the collective of that sequence number.   *)
(* The barriers are the abstract ones, decisions travel as in Pipeline.    *)
(***************************************************************************)
EXTENDS Ranks, Sequences

CONSTANTS
  VocabSize,                              \* vocab_size
  Layers,                                 \* num_hidden_layers
  Eos, Prompts, MaxContext, MaxRequested  \* as in Generation

Vocab == 0 .. VocabSize - 1

ASSUME TensorParallelAssumption ==
  /\ WorldSize >= 2  \* TensorParallelPartition::plan
  /\ VocabSize \in Nat /\ VocabSize % WorldSize = 0  \* plan_tensor_shard
  /\ Layers \in Nat \ {0}
  /\ Eos \in Vocab
  /\ Prompts \subseteq Seq(Vocab)
  /\ MaxContext \in Nat /\ MaxRequested \in Nat

(* The requests that run_tensor accepts. *)
Jobs ==
  {j \in [prompt : Prompts, requested : 1 .. MaxRequested] :
     j.prompt # <<>> /\ Len(j.prompt) < MaxContext}

(* The collectives of a forward; 2 l and 2 l + 1 are those of layer l. *)
Embeddings == 1
LmHead == 2 * Layers + 2
IsAttention(op) == op % 2 = 0 /\ op # LmHead
LayerOf(op) == op \div 2

VARIABLES
  job,        \* prompt_token_ids and requested_max_new_tokens of the manifest
  pc,         \* pc[r]: where r is in run_tensor_parallel_rank_observed
  op,         \* op[r]: the collective of the forward that r is at
  step,       \* step[r]
  input,      \* input[r]: the tokens of the forward
  position,   \* position[r]
  cache,      \* cache[r][l]: the tokens whose keys and values layer l holds
  posted,     \* posted[r]: the contributions of r to its collectives
  decision,   \* the decision of rank 0 in its step
  told,       \* the ranks that rank 0 has sent it to
  generated,  \* generated[r]: generated_tokens
  stop,       \* stop[r]: stop_reason
  net,        \* decisions sent and not received
  passed, entered  \* the abstract barrier

barrier == <<passed, entered>>
forward == <<op, input, position, cache, posted>>
vars == <<job, pc, forward, step, decision, told, generated, stop, net, barrier>>

Effective(j) ==
  IF j.requested <= MaxContext - Len(j.prompt) THEN j.requested
                                               ELSE MaxContext - Len(j.prompt)
Capacity(j) == Len(j.prompt) + Effective(j)

Goto(r, label) == pc' = [pc EXCEPT ![r] = label]

Running == {"load", "start", "compute", "combine", "select", "tell", "decision", "finish", "complete"}
Ended == {"done", "failed"}
StopReasons == {"Eos", "MaxNewTokens", "ContextLimit"}

Init ==
  /\ job \in Jobs
  /\ pc = [r \in Ranks |-> "load"]
  /\ op = [r \in Ranks |-> Embeddings]
  /\ step = [r \in Ranks |-> 0]
  /\ input = [r \in Ranks |-> job.prompt]
  /\ position = [r \in Ranks |-> 0]
  /\ cache = [r \in Ranks |-> [l \in 1 .. Layers |-> <<>>]]
  /\ posted = [r \in Ranks |-> <<>>]
  /\ decision = [step |-> 0, token |-> Eos, reason |-> "none"]
  /\ told = {}
  /\ generated = [r \in Ranks |-> <<>>]
  /\ stop = [r \in Ranks |-> "none"]
  /\ net = {}
  /\ passed = [r \in Ranks |-> 0]
  /\ entered = [r \in Ranks |-> FALSE]

-----------------------------------------------------------------------------
(* The two barriers, around generation. *)

EnterBarrier(r, from, to) ==
  /\ pc[r] = from
  /\ Goto(r, to)
  /\ entered' = [entered EXCEPT ![r] = TRUE]
  /\ UNCHANGED <<job, forward, step, decision, told, generated, stop, net, passed>>

(* Every other rank has entered the barrier that r is in, or passed it. *)
Gathered(r) ==
  \A q \in Peers(r) : passed[q] > passed[r] \/ (passed[q] = passed[r] /\ entered[q])

PassBarrier(r, from, to) ==
  /\ pc[r] = from
  /\ Gathered(r)
  /\ Goto(r, to)
  /\ passed' = [passed EXCEPT ![r] = @ + 1]
  /\ entered' = [entered EXCEPT ![r] = FALSE]
  /\ UNCHANGED <<job, forward, step, decision, told, generated, stop, net>>

(* Seeded fault: the completion barrier is left out. *)
FinishUnsynchronised(r) == EnterBarrier(r, "finish", "done")

Load(r) == EnterBarrier(r, "load", "start")
Start(r) == PassBarrier(r, "start", "compute")
Finish(r) == EnterBarrier(r, "finish", "complete")
Complete(r) == PassBarrier(r, "complete", "done")

-----------------------------------------------------------------------------
(* A forward. *)

(* Seeded fault: the end of a shard is inclusive. *)
OwnsOverlapping(r, token) ==
  LET local == VocabSize \div WorldSize
  IN r * local <= token /\ token <= (r + 1) * local

(* The vocabulary rows of r: plan_tensor_shard and the mask of             *)
(* VocabParallelEmbedding.                                                 *)
Owns(r, token) ==
  LET local == VocabSize \div WorldSize
  IN r * local <= token /\ token < (r + 1) * local

(* What r adds to a collective: which tokens, from which position, and     *)
(* which of them it embeds itself.                                         *)
PartOf(r) ==
  [op |-> op[r], position |-> position[r], tokens |-> input[r],
   local |-> IF op[r] = Embeddings THEN {i \in DOMAIN input[r] : Owns(r, input[r][i])} ELSE {}]

(* forward_observed refuses a position that is not the length of the cache *)
(* and an input that exceeds its capacity.                                 *)
Refused(r) ==
  /\ op[r] = Embeddings
  /\ \/ position[r] # Len(cache[r][1])
     \/ position[r] + Len(input[r]) > Capacity(job)

(* r computes its part; attention appends keys and values to the cache of  *)
(* its layer first.                                                        *)
Compute(r) ==
  /\ pc[r] = "compute"
  /\ IF Refused(r)
       THEN Goto(r, "failed") /\ UNCHANGED <<cache, posted>>
       ELSE /\ Goto(r, "combine")
            /\ cache' = IF IsAttention(op[r])
                          THEN [cache EXCEPT ![r][LayerOf(op[r])] = @ \o input[r]] ELSE cache
            /\ posted' = [posted EXCEPT ![r] = Append(@, PartOf(r))]
  /\ UNCHANGED <<job, op, input, position, step, decision, told, generated, stop, net, barrier>>

AllContributed(r) == \A q \in Ranks : Len(posted[q]) >= Len(posted[r])

(* The collective returns: every rank has contributed to it. *)
Combine(r) ==
  /\ pc[r] = "combine"
  /\ AllContributed(r)
  /\ IF op[r] = LmHead
       THEN Goto(r, IF r = 0 THEN "select" ELSE "decision") /\ UNCHANGED op
       ELSE Goto(r, "compute") /\ op' = [op EXCEPT ![r] = @ + 1]
  /\ UNCHANGED <<job, input, position, cache, posted, step, decision, told, generated, stop, net, barrier>>

-----------------------------------------------------------------------------
(* The decision. *)

(* Seeded fault: the limit is one step too far. *)
DecideLate(t) ==
  IF t = Eos THEN "Eos"
  ELSE IF step[0] < Effective(job) THEN "none"
  ELSE IF Effective(job) < job.requested THEN "ContextLimit"
  ELSE "MaxNewTokens"

(* Why to stop after token t, "none" to go on. *)
Decide(t) ==
  IF t = Eos THEN "Eos"
  ELSE IF step[0] + 1 # Effective(job) THEN "none"
  ELSE IF Effective(job) < job.requested THEN "ContextLimit"
  ELSE "MaxNewTokens"

(* argmax of the gathered logits on rank 0. *)
Select(r, t) ==
  /\ r = 0 /\ pc[r] = "select"
  /\ decision' = [step |-> step[r], token |-> t, reason |-> Decide(t)]
  /\ told' = {}
  /\ Goto(r, "tell")
  /\ UNCHANGED <<job, forward, step, generated, stop, net, barrier>>

SendDecision(r, d) ==
  /\ r = 0 /\ pc[r] = "tell"
  /\ d \in Peers(0) \ told /\ \A q \in 1 .. d - 1 : q \in told
  /\ net' = net \union {[to |-> d, tag |-> step[r], body |-> decision]}
  /\ told' = told \union {d}
  /\ UNCHANGED <<job, pc, forward, step, decision, generated, stop, barrier>>

(* Seeded fault: a forward is taken to feed one token. *)
NextPositionByOne(r) == position[r] + 1

NextPosition(r) == position[r] + Len(input[r])

(* What a decision makes of a rank: a decision of another step is an       *)
(* error, a token that is not Eos is kept, and generation stops or goes on *)
(* from the token.                                                         *)
Obey(r, d) ==
  IF d.step # step[r]
    THEN Goto(r, "failed") /\ UNCHANGED <<generated, stop, op, input, position, step>>
    ELSE /\ generated' = [generated EXCEPT ![r] = IF d.token = Eos THEN @ ELSE Append(@, d.token)]
         /\ IF d.reason # "none"
              THEN /\ stop' = [stop EXCEPT ![r] = d.reason]
                   /\ Goto(r, "finish")
                   /\ UNCHANGED <<op, input, position, step>>
              ELSE /\ position' = [position EXCEPT ![r] = NextPosition(r)]
                   /\ input' = [input EXCEPT ![r] = <<d.token>>]
                   /\ step' = [step EXCEPT ![r] = @ + 1]
                   /\ op' = [op EXCEPT ![r] = Embeddings]
                   /\ Goto(r, "compute")
                   /\ UNCHANGED stop

(* Seeded fault: rank 0 goes on before the last rank is told. *)
DecidedShort(r) ==
  /\ r = 0 /\ pc[r] = "tell" /\ told = Peers(0) \ {WorldSize - 1}
  /\ Obey(r, decision)
  /\ UNCHANGED <<job, cache, posted, decision, told, net, barrier>>

Decided(r) ==
  /\ r = 0 /\ pc[r] = "tell" /\ told = Peers(0)
  /\ Obey(r, decision)
  /\ UNCHANGED <<job, cache, posted, decision, told, net, barrier>>

RecvDecision(r) ==
  /\ r # 0 /\ pc[r] = "decision"
  /\ \E m \in net :
       /\ m.to = r /\ m.tag = step[r]
       /\ net' = net \ {m}
       /\ Obey(r, m.body)
  /\ UNCHANGED <<job, cache, posted, decision, told, barrier>>

-----------------------------------------------------------------------------

Fail(r) ==
  /\ Goto(r, "failed")
  /\ UNCHANGED <<job, forward, step, decision, told, generated, stop, net, barrier>>

(* The process ends: out of memory, a killed container, an I/O error. *)
Crash(r) == pc[r] \in Running /\ Fail(r)

(* Seeded fault: a rank waits for its decision without a deadline. *)
TimeOutUnlessDeciding(r) == pc[r] \in {"start", "combine", "complete"} /\ Fail(r)

(* A collective, a receive or a barrier gives up. *)
TimeOut(r) == pc[r] \in {"start", "combine", "decision", "complete"} /\ Fail(r)

Progress(r) ==
  \/ Load(r) \/ Start(r) \/ Finish(r) \/ Complete(r)
  \/ Compute(r) \/ Combine(r)
  \/ \E t \in Vocab : Select(r, t)
  \/ \E d \in Peers(0) : SendDecision(r, d)
  \/ Decided(r) \/ RecvDecision(r)

AnyProgress == \E r \in Ranks : Progress(r)

Next == AnyProgress \/ \E r \in Ranks : TimeOut(r) \/ Crash(r)

(* r is in a call that cannot return yet, unless it gives up. *)
Blocked(r) ==
  \/ pc[r] = "combine" /\ ~AllContributed(r)
  \/ pc[r] = "decision" /\ {m \in net : m.to = r /\ m.tag = step[r]} = {}
  \/ pc[r] \in {"start", "complete"} /\ ~Gathered(r)

(* A rank that can go on does, and a call that cannot return gives up at   *)
(* its deadline.  Nobody has to crash, and a rank that something else held *)
(* up would never end.                                                     *)
Fairness ==
  \A r \in Ranks : WF_vars(Progress(r)) /\ WF_vars(Blocked(r) /\ TimeOut(r))

Spec == Init /\ [][Next]_vars /\ Fairness

-----------------------------------------------------------------------------
(* Properties. *)

(* A collective combines shards of one computation: the n-th contribution  *)
(* of every rank is for the same operation of a forward over the same      *)
(* tokens at the same position, and each token is embedded by exactly one  *)
(* rank.                                                                   *)
ShardsFitTogether ==
  /\ \A r, q \in Ranks : \A n \in DOMAIN posted[r] \intersect DOMAIN posted[q] :
       LET mine == posted[r][n]
           theirs == posted[q][n]
       IN /\ mine.op = theirs.op
          /\ mine.position = theirs.position
          /\ mine.tokens = theirs.tokens
          /\ r # q => mine.local \intersect theirs.local = {}
  /\ \A n \in DOMAIN posted[0] :
       posted[0][n].op = Embeddings /\ (\A r \in Ranks : n \in DOMAIN posted[r])
         => UNION {posted[r][n].local : r \in Ranks} = DOMAIN posted[0][n].tokens

(* Distributed generation implements generation in one process: what the   *)
(* last layer of rank 0 has seen, the tokens and the stop reason are those *)
(* generate() could have had.                                              *)
SingleProcess == INSTANCE Generation WITH
  Vocab <- Vocab,
  cache <- cache[0][Layers],
  input <- IF stop[0] # "none" THEN <<>>
           ELSE SubSeq(job.prompt \o generated[0], Len(cache[0][Layers]) + 1,
                       Len(job.prompt) + Len(generated[0])),
  generated <- generated[0],
  stop <- stop[0]
ImplementsGeneration == SingleProcess!Safety

(* One rank's success report stands for the run: when a rank returns Ok,   *)
(* every rank has stopped for the same reason after the same tokens, with  *)
(* every layer's cache filled alike.                                       *)
SuccessIsShared ==
  \A r \in Ranks : pc[r] = "done" =>
    \A q \in Ranks : /\ stop[q] = stop[r] /\ stop[q] # "none"
                     /\ generated[q] = generated[r]
                     /\ \A l \in 1 .. Layers : cache[q][l] = cache[r][1]

(* Ranks do not wait on each other: as long as no rank has failed, one can *)
(* go on until all have succeeded.                                         *)
NeverStuck ==
  (\A r \in Ranks : pc[r] # "failed")
    => (\A r \in Ranks : pc[r] = "done") \/ \E r \in Ranks : pc[r] \in Running /\ ~Blocked(r)

(* Nothing but a crash or a deadline makes a rank fail: no forward is      *)
(* refused for its position or for want of cache, and the decision that a  *)
(* rank is about to receive is the one of its step.                        *)
NothingRefused ==
  /\ \A r \in Ranks : pc[r] = "compute" => ~Refused(r)
  /\ \A m \in net : m.tag = step[m.to] => m.body.step = step[m.to]

(* Every rank ends, in success or failure, whatever fails elsewhere. *)
EveryRankEnds == <>[](\A r \in Ranks : pc[r] \in Ended)
=============================================================================
