------------------------------ MODULE Pipeline ------------------------------
(***************************************************************************)
(* Pipeline-parallel generation (crates/pipeline/src/runner.rs, with the   *)
(* manifest that crates/cli/src/pipeline.rs writes): each rank runs one    *)
(* stage of the model.  Rank 0 feeds tokens, every stage passes its hidden *)
(* state to the next, the last stage selects a token and returns it to     *)
(* rank 0, and rank 0 sends its decision to every other rank.  A barrier   *)
(* comes before the first step and another after the last.                 *)
(*                                                                         *)
(* The ranks talk over the abstract transport and the abstract barrier     *)
(* that both endpoint implementations are shown to implement.  A tag names *)
(* a kind of message and a step, so no two frames of a link share a tag    *)
(* and what is on its way is a set.  Any call can fail; a rank that fails  *)
(* ends.                                                                   *)
(***************************************************************************)
EXTENDS Ranks, Sequences

CONSTANTS Vocab, Eos, Prompts, MaxContext, MaxRequested  \* as in Generation

ASSUME PipelineAssumption ==
  /\ WorldSize >= 2  \* PipelinePartition::balanced
  /\ Eos \in Vocab
  /\ Prompts \subseteq Seq(Vocab)
  /\ MaxContext \in Nat /\ MaxRequested \in Nat

LastStage == WorldSize - 1

(* The requests that run_pipeline accepts. *)
Jobs ==
  {j \in [prompt : Prompts, requested : 1 .. MaxRequested] :
     j.prompt # <<>> /\ Len(j.prompt) < MaxContext}

VARIABLES
  job,        \* prompt_token_ids and requested_max_new_tokens of the manifest
  pc,         \* pc[r]: where r is in run_pipeline_rank
  step,       \* step[r]
  cache,      \* cache[r]: the tokens in the KV cache of the layers of r
  hidden,     \* hidden[r]: the tokens of the forward r has just made
  decision,   \* decision[r]: the decision of the current step
  generated,  \* generated_tokens of rank 0
  told,       \* the ranks that rank 0 has sent the decision of its step to
  net,        \* messages sent and not received
  passed, entered  \* the abstract barrier

local == <<pc, step, cache, hidden, decision, generated, told>>
barrier == <<passed, entered>>
vars == <<job, local, net, barrier>>

(* Fields of the manifest. *)
Effective(j) ==
  IF j.requested <= MaxContext - Len(j.prompt) THEN j.requested
                                               ELSE MaxContext - Len(j.prompt)
Capacity(j) == Len(j.prompt) + Effective(j)

(* A message carries its tag; activations carry the tokens whose hidden    *)
(* state they are, token feedback the token, decisions the decision.       *)
Message(from, to, kind, n, body) ==
  [from |-> from, to |-> to, kind |-> kind, step |-> n, body |-> body]

(* Seeded fault: a message is found and left where it is. *)
ReceiveLeaving(m) == UNCHANGED net

Post(m) == net' = net \union {m}
Receive(m) == net' = net \ {m}

Goto(r, label) == pc' = [pc EXCEPT ![r] = label]

Running == {"load", "start", "forward", "send", "token", "decide", "decision", "finish", "complete"}
Ended == {"done", "failed"}

(* Continue, or Stop with its reason.  "none" before the first decision.   *)
StopReasons == {"Eos", "MaxNewTokens", "ContextLimit"}
Decisions == {"none", "Continue"} \union StopReasons

Init ==
  /\ job \in Jobs
  /\ pc = [r \in Ranks |-> "load"]
  /\ step = [r \in Ranks |-> 0]
  /\ cache = [r \in Ranks |-> <<>>]
  /\ hidden = [r \in Ranks |-> <<>>]
  /\ decision = [r \in Ranks |-> "none"]
  /\ generated = <<>>
  /\ told = {}
  /\ net = {}
  /\ passed = [r \in Ranks |-> 0]
  /\ entered = [r \in Ranks |-> FALSE]

-----------------------------------------------------------------------------
(* The two barriers.  r has checked its manifest and loaded its stage      *)
(* before it enters the first.                                             *)

EnterBarrier(r, from, to) ==
  /\ pc[r] = from
  /\ Goto(r, to)
  /\ entered' = [entered EXCEPT ![r] = TRUE]
  /\ UNCHANGED <<job, step, cache, hidden, decision, generated, told, net, passed>>

(* Every other rank has entered the barrier that r is in, or passed it. *)
Gathered(r) ==
  \A q \in Peers(r) : passed[q] > passed[r] \/ (passed[q] = passed[r] /\ entered[q])

PassBarrier(r, from, to) ==
  /\ pc[r] = from
  /\ Gathered(r)
  /\ Goto(r, to)
  /\ passed' = [passed EXCEPT ![r] = @ + 1]
  /\ entered' = [entered EXCEPT ![r] = FALSE]
  /\ UNCHANGED <<job, step, cache, hidden, decision, generated, told, net>>

(* Seeded fault: the completion barrier is left out. *)
FinishUnsynchronised(r) == EnterBarrier(r, "finish", "done")

Load(r) == EnterBarrier(r, "load", "start")
Start(r) == PassBarrier(r, "start", "forward")
Finish(r) == EnterBarrier(r, "finish", "complete")
Complete(r) == PassBarrier(r, "complete", "done")

-----------------------------------------------------------------------------
(* One step. *)

(* The layers of r append the tokens to their caches.  That the capacity   *)
(* check of LayerKvCache::append never fails is CachesWithinCapacity.      *)
Feed(r, tokens) ==
  /\ cache' = [cache EXCEPT ![r] = @ \o tokens]
  /\ hidden' = [hidden EXCEPT ![r] = tokens]

(* forward_tokens of rank 0: the prompt, then the previous token. *)
ForwardTokens(r) ==
  LET input == IF step[r] = 0 THEN job.prompt ELSE <<generated[Len(generated)]>>
  IN /\ r = 0 /\ pc[r] = "forward"
     /\ Feed(r, input)
     /\ Goto(r, "send")
     /\ UNCHANGED <<job, step, decision, generated, told, net, barrier>>

(* Seeded fault: a stage between the ends caches the prompt only. *)
ForwardHiddenUncached(r) ==
  /\ r # 0 /\ pc[r] = "forward"
  /\ \E m \in net :
       /\ m.from = r - 1 /\ m.to = r /\ m.kind = "activation" /\ m.step = step[r]
       /\ Receive(m)
       /\ IF r = LastStage \/ step[r] = 0
            THEN Feed(r, m.body)
            ELSE hidden' = [hidden EXCEPT ![r] = m.body] /\ UNCHANGED cache
  /\ Goto(r, "send")
  /\ UNCHANGED <<job, step, decision, generated, told, barrier>>

(* recv_activation, validate_activation and forward_hidden of the others. *)
ForwardHidden(r) ==
  /\ r # 0 /\ pc[r] = "forward"
  /\ \E m \in net :
       /\ m.from = r - 1 /\ m.to = r /\ m.kind = "activation" /\ m.step = step[r]
       /\ step[r] > 0 => Len(m.body) = 1
       /\ Receive(m)
       /\ Feed(r, m.body)
  /\ Goto(r, "send")
  /\ UNCHANGED <<job, step, decision, generated, told, barrier>>

SendActivation(r) ==
  /\ r # LastStage /\ pc[r] = "send"
  /\ Post(Message(r, r + 1, "activation", step[r], hidden[r]))
  /\ Goto(r, IF r = 0 THEN "token" ELSE "decision")
  /\ UNCHANGED <<job, step, cache, hidden, decision, generated, told, barrier>>

(* Seeded fault: the last stage does not wait for the decision on Eos. *)
SendTokenHasty(r, t) ==
  /\ r = LastStage /\ pc[r] = "send"
  /\ Post(Message(r, 0, "token", step[r], <<t>>))
  /\ Goto(r, IF t = Eos THEN "finish" ELSE "decision")
  /\ UNCHANGED <<job, step, cache, hidden, decision, generated, told, barrier>>

(* finish, argmax and the token feedback of the last stage. *)
SendToken(r, t) ==
  /\ r = LastStage /\ pc[r] = "send"
  /\ Post(Message(r, 0, "token", step[r], <<t>>))
  /\ Goto(r, "decision")
  /\ UNCHANGED <<job, step, cache, hidden, decision, generated, told, barrier>>

(* Seeded fault: the limit is looked at before the token is pushed. *)
DecideLate(t) ==
  IF t = Eos THEN "Eos"
  ELSE IF Len(generated) < Effective(job) THEN "Continue"
  ELSE IF job.requested > Effective(job) THEN "ContextLimit"
  ELSE "MaxNewTokens"

(* The decision of rank 0 about the token of its step. *)
Decide(t) ==
  IF t = Eos THEN "Eos"
  ELSE IF Len(generated) + 1 < Effective(job) THEN "Continue"
  ELSE IF job.requested > Effective(job) THEN "ContextLimit"
  ELSE "MaxNewTokens"

(* Every token but Eos is pushed to generated_tokens. *)
Keep(t) == IF t = Eos THEN <<>> ELSE <<t>>

RecvToken(r) ==
  /\ r = 0 /\ pc[r] = "token"
  /\ \E m \in net :
       /\ m.from = LastStage /\ m.to = r /\ m.kind = "token" /\ m.step = step[r]
       /\ Receive(m)
       /\ decision' = [decision EXCEPT ![r] = Decide(m.body[1])]
       /\ generated' = generated \o Keep(m.body[1])
  /\ told' = {}
  /\ Goto(r, "decide")
  /\ UNCHANGED <<job, step, cache, hidden, barrier>>

(* The decision goes to the other ranks, one after the other. *)
SendDecision(r, d) ==
  /\ r = 0 /\ pc[r] = "decide"
  /\ d \in Peers(0) \ told /\ \A q \in 1 .. d - 1 : q \in told
  /\ Post(Message(r, d, "decision", step[r], <<decision[r]>>))
  /\ told' = told \union {d}
  /\ UNCHANGED <<job, pc, step, cache, hidden, decision, generated, barrier>>

(* What a decision makes of a rank. *)
Obey(r, d) ==
  IF d = "Continue"
    THEN /\ step' = [step EXCEPT ![r] = @ + 1]
         /\ Goto(r, "forward")
    ELSE /\ UNCHANGED step
         /\ Goto(r, "finish")

(* Seeded fault: rank 0 goes on before the last rank is told. *)
DecidedShort(r) ==
  /\ r = 0 /\ pc[r] = "decide"
  /\ told = Peers(0) \ {LastStage}
  /\ Obey(r, decision[r])
  /\ UNCHANGED <<job, cache, hidden, decision, generated, told, net, barrier>>

Decided(r) ==
  /\ r = 0 /\ pc[r] = "decide"
  /\ told = Peers(0)
  /\ Obey(r, decision[r])
  /\ UNCHANGED <<job, cache, hidden, decision, generated, told, net, barrier>>

RecvDecision(r) ==
  /\ r # 0 /\ pc[r] = "decision"
  /\ \E m \in net :
       /\ m.from = 0 /\ m.to = r /\ m.kind = "decision" /\ m.step = step[r]
       /\ Receive(m)
       /\ decision' = [decision EXCEPT ![r] = m.body[1]]
       /\ Obey(r, m.body[1])
  /\ UNCHANGED <<job, cache, hidden, generated, told, barrier>>

-----------------------------------------------------------------------------

(* The process ends: out of memory, a killed container, an I/O error. *)
Crash(r) ==
  /\ pc[r] \in Running
  /\ Goto(r, "failed")
  /\ UNCHANGED <<job, step, cache, hidden, decision, generated, told, net, barrier>>

InReceive(r) == pc[r] \in {"token", "decision"} \/ (pc[r] = "forward" /\ r # 0)

(* Seeded fault: barrier() has no deadline. *)
TimeOutReceive(r) ==
  /\ InReceive(r)
  /\ Goto(r, "failed")
  /\ UNCHANGED <<job, step, cache, hidden, decision, generated, told, net, barrier>>

(* A receive or a barrier gives up, because its deadline passes or because *)
(* the transport reports that the peer has gone; run_pipeline_rank returns *)
(* the error.                                                              *)
TimeOut(r) ==
  /\ InReceive(r) \/ pc[r] \in {"start", "complete"}
  /\ Goto(r, "failed")
  /\ UNCHANGED <<job, step, cache, hidden, decision, generated, told, net, barrier>>

Progress(r) ==
  \/ Load(r) \/ Start(r) \/ Finish(r) \/ Complete(r)
  \/ ForwardTokens(r) \/ ForwardHidden(r)
  \/ SendActivation(r) \/ \E t \in Vocab : SendToken(r, t)
  \/ RecvToken(r)
  \/ \E d \in Peers(0) : SendDecision(r, d)
  \/ Decided(r) \/ RecvDecision(r)

AnyProgress == \E r \in Ranks : Progress(r)

Next == AnyProgress \/ \E r \in Ranks : TimeOut(r) \/ Crash(r)

(* What the receive that r is in takes. *)
Awaited(r) ==
  {m \in net :
     /\ m.to = r /\ m.step = step[r]
     /\ \/ pc[r] = "forward" /\ m.kind = "activation" /\ m.from = r - 1 /\ (step[r] > 0 => Len(m.body) = 1)
        \/ pc[r] = "token" /\ m.kind = "token" /\ m.from = LastStage
        \/ pc[r] = "decision" /\ m.kind = "decision" /\ m.from = 0}

(* r is in a call that cannot return yet, unless it gives up. *)
Blocked(r) ==
  \/ InReceive(r) /\ Awaited(r) = {}
  \/ pc[r] \in {"start", "complete"} /\ ~Gathered(r)

(* A rank that can go on does, and a call that cannot return gives up at   *)
(* its deadline.  Nobody has to crash, and a rank that something else held *)
(* up would never end.                                                     *)
Fairness ==
  \A r \in Ranks : WF_vars(Progress(r)) /\ WF_vars(Blocked(r) /\ TimeOut(r))

Spec == Init /\ [][Next]_vars /\ Fairness

-----------------------------------------------------------------------------
(* Properties. *)

Bodies ==
  [kind : {"activation"}, body : Seq(Vocab)]
    \union [kind : {"token"}, body : {<<t>> : t \in Vocab}]
    \union [kind : {"decision"}, body : {<<d>> : d \in Decisions \ {"none"}}]

TypeOK ==
  /\ job \in Jobs
  /\ pc \in [Ranks -> Running \union Ended]
  /\ step \in [Ranks -> 0 .. MaxRequested - 1]
  /\ cache \in [Ranks -> Seq(Vocab)]
  /\ hidden \in [Ranks -> Seq(Vocab)]
  /\ decision \in [Ranks -> Decisions]
  /\ generated \in Seq(Vocab \ {Eos})
  /\ told \subseteq Peers(0)
  /\ \A m \in net : /\ m.from \in Ranks /\ m.to \in Peers(m.from) /\ m.step \in Nat
                    /\ [kind |-> m.kind, body |-> m.body] \in Bodies
  /\ passed \in [Ranks -> 0 .. 2]
  /\ entered \in [Ranks -> BOOLEAN]

(* The stop reason that rank 0 has decided on. *)
Stop == IF decision[0] \in StopReasons THEN decision[0] ELSE "none"

(* Distributed generation implements generation in one process: the last   *)
(* stage has seen the tokens a single model would have seen when it        *)
(* selects a token, and rank 0 takes over the token, stops, and stops for  *)
(* the reason, that generate() would have.                                 *)
SingleProcess == INSTANCE Generation WITH
  cache <- cache[LastStage],
  input <- IF Stop # "none" THEN <<>>
           ELSE SubSeq(job.prompt \o generated, Len(cache[LastStage]) + 1,
                       Len(job.prompt) + Len(generated)),
  stop <- Stop
ImplementsGeneration == SingleProcess!Safety

(* No stage's KV cache overflows (CacheCapacityExceeded). *)
CachesWithinCapacity == \A r \in Ranks : Len(cache[r]) <= Capacity(job)

(* When the last stage selects a token all stages hold keys and values of  *)
(* the same positions: no stage has skipped, repeated or overtaken a step. *)
(* The caches, allocated for the prompt and the effective number of new    *)
(* tokens, suffice in every stage and in every step.                       *)
TokenSeesWholeContext ==
  /\ pc[LastStage] = "send" => \A r \in Ranks : cache[r] = cache[LastStage]
  /\ CachesWithinCapacity

(* One rank's success report stands for the run: when a rank returns Ok,   *)
(* every rank has finished generating, with the same reason, the same      *)
(* number of decode forwards and the same final KV-cache length, also a    *)
(* rank that fails afterwards.                                             *)
SuccessIsShared ==
  \A r \in Ranks : pc[r] = "done" =>
    \A q \in Ranks : /\ decision[q] = decision[r] /\ decision[q] \in StopReasons
                     /\ step[q] = step[r]
                     /\ Len(cache[q]) = Len(cache[r])

(* No control frame gets in the way of a barrier.  (recv_barrier of the    *)
(* TCP transport fails on a control frame, so a rank in barrier() must     *)
(* have none ahead of the barrier frame it waits for: what rank 0 exchanges*)
(* with it was sent after the sender had passed the same barrier.)         *)
ControlClearOfBarrier ==
  \A m \in net :
    m.kind # "activation" /\ pc[m.to] \in {"start", "complete"} => passed[m.from] > passed[m.to]

(* Nothing is left in a pending queue when the run has succeeded. *)
NothingLeftOver == (\A r \in Ranks : pc[r] = "done") => net = {}

(* Every rank ends, in success or failure, whatever fails elsewhere. *)
EveryRankEnds == <>[](\A r \in Ranks : pc[r] \in Ended)

(* Ranks do not wait on each other: as long as no rank has failed, one can *)
(* go on until all have succeeded, so only a failure makes a call time out.*)
NeverStuck ==
  (\A r \in Ranks : pc[r] # "failed")
    => (\A r \in Ranks : pc[r] = "done") \/ \E r \in Ranks : pc[r] \in Running /\ ~Blocked(r)
=============================================================================
