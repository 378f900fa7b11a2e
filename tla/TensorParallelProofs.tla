------------------------ MODULE TensorParallelProofs ------------------------
(***************************************************************************)
(* Proofs about tensor-parallel generation, for every number of ranks and  *)
(* layers, vocabulary, prompt and request, and for every interleaving of   *)
(* the ranks, failures included.                                           *)
(*                                                                         *)
(* The invariant numbers the collectives: the length of posted[r] says in  *)
(* which collective of which forward r is (PlaceInv), what its caches hold *)
(* (DataInv) and what it has contributed (PostedInv).  Since rank 0        *)
(* selects a token only when all ranks have contributed to the logits, a   *)
(* rank is either before or after the last decision of rank 0, and that    *)
(* fixes its step, its stop reason and its tokens (AgreeInv).              *)
(***************************************************************************)
EXTENDS TensorParallel, SharedLemmas

(* The tokens of forward s of rank r and the position it starts at. *)
Tokens(r, s) == IF s = 0 THEN job.prompt ELSE <<generated[r][s]>>
Position(s) == IF s = 0 THEN 0 ELSE Len(job.prompt) + s - 1
Text(r) == job.prompt \o generated[r]

(* How many collectives a rank has contributed to before forward s. *)
Base(s) == LmHead * s

(* What rank r contributes to collective o of forward s. *)
Shard(r, s, o) ==
  [op |-> o, position |-> Position(s), tokens |-> Tokens(r, s),
   local |-> IF o = Embeddings THEN {i \in DOMAIN Tokens(r, s) : Owns(r, Tokens(r, s)[i])} ELSE {}]

Parts == [op : Nat, position : Nat, tokens : Seq(Vocab), local : SUBSET Nat]
Decisions == [step : Nat, token : Vocab, reason : StopReasons \union {"none"}]

TypeInv ==
  /\ job \in Jobs
  /\ pc \in [Ranks -> Running \union Ended]
  /\ op \in [Ranks -> 1 .. LmHead]
  /\ step \in [Ranks -> Nat]
  /\ input \in [Ranks -> Seq(Vocab)]
  /\ position \in [Ranks -> Nat]
  /\ cache \in [Ranks -> [1 .. Layers -> Seq(Vocab)]]
  /\ posted \in [Ranks -> Seq(Parts)]
  /\ decision \in Decisions
  /\ told \subseteq Peers(0)
  /\ generated \in [Ranks -> Seq(Vocab \ {Eos})]
  /\ stop \in [Ranks -> StopReasons \union {"none"}]
  /\ net \subseteq [to : Peers(0), tag : Nat, body : Decisions]
  /\ passed \in [Ranks -> Nat]
  /\ entered \in [Ranks -> BOOLEAN]

Early == {"load", "start", "compute", "combine", "select", "tell", "decision"}

(* Where a rank is in its program and what it has contributed until then. *)
Place(r) ==
  /\ Base(step[r]) + op[r] - 1 <= Len(posted[r]) /\ Len(posted[r]) <= Base(step[r]) + op[r]
  /\ pc[r] \in {"load", "start"} => op[r] = 1 /\ step[r] = 0
  /\ pc[r] \in {"load", "start", "compute"} => Len(posted[r]) = Base(step[r]) + op[r] - 1
  /\ pc[r] = "combine" => Len(posted[r]) = Base(step[r]) + op[r]
  /\ pc[r] \in {"select", "tell", "decision", "finish", "complete", "done"} \/ stop[r] # "none" =>
       Len(posted[r]) = Base(step[r]) + LmHead
  /\ pc[r] \in {"select", "tell"} => r = 0
  /\ pc[r] = "decision" => r # 0
  /\ pc[r] \in Early => stop[r] = "none"
  /\ pc[r] \in {"finish", "complete", "done"} => stop[r] # "none"

PlaceInv == \A r \in Ranks : Place(r)

(* What a forward reads, and how much of the text layer l has cached. *)
Fed(r, l) == IF Len(posted[r]) >= Base(step[r]) + 2 * l THEN Len(job.prompt) + step[r]
                                                        ELSE Position(step[r])
Data(r) ==
  /\ step[r] <= Len(generated[r])
  /\ stop[r] = "none" => Len(generated[r]) = step[r]
  /\ input[r] = Tokens(r, step[r])
  /\ position[r] = Position(step[r])
  /\ \A l \in 1 .. Layers : cache[r][l] = SubSeq(Text(r), 1, Fed(r, l))

DataInv == \A r \in Ranks : Data(r)

(* What a rank has contributed to each collective. *)
Contributed(r) ==
  \A n \in 1 .. Len(posted[r]) : \E s \in 0 .. step[r], o \in 1 .. LmHead :
    n = Base(s) + o /\ posted[r][n] = Shard(r, s, o)

PostedInv == \A r \in Ranks : Contributed(r)

(* Whether rank 0 has decided at all: the initial value is no decision. *)
Real == ~(decision.token = Eos /\ decision.reason = "none")

Before(r) == step[r] = decision.step /\ stop[r] = "none"
After(r) == IF decision.reason = "none" THEN step[r] = decision.step + 1 /\ stop[r] = "none"
                                        ELSE step[r] = decision.step /\ stop[r] = decision.reason
Chosen == IF decision.token = Eos THEN <<>> ELSE <<decision.token>>

(* A rank has obeyed the last decision or not, and before it all have the  *)
(* same tokens.                                                            *)
DecisionInv ==
  /\ ~Real => /\ told = {} /\ net = {}
              /\ \A r \in Ranks : step[r] = 0 /\ stop[r] = "none" /\ generated[r] = <<>>
  /\ Real => /\ decision.step < Effective(job)
             /\ decision.reason = IF decision.token = Eos THEN "Eos"
                                  ELSE IF decision.step + 1 # Effective(job) THEN "none"
                                  ELSE IF Effective(job) < job.requested THEN "ContextLimit"
                                  ELSE "MaxNewTokens"
             /\ \A r \in Ranks : Before(r) \/ After(r)
             /\ \A r \in Peers(0) : After(r) => r \in told
             /\ After(0) => told = Peers(0)
             /\ \A r, q \in Ranks :
                  /\ Before(r) /\ Before(q) => generated[r] = generated[q]
                  /\ Before(r) /\ After(q) => generated[q] = generated[r] \o Chosen
                  /\ After(r) /\ After(q) => generated[r] = generated[q]
             /\ \A r \in Ranks : Len(posted[r]) >= Base(decision.step) + LmHead

(* Rank 0 selects when all ranks have contributed to the logits.  It has   *)
(* obeyed every decision but the one that it is telling.                   *)
RootInv ==
  /\ pc[0] = "select" => \A r \in Ranks : Len(posted[r]) >= Base(step[0]) + LmHead
  /\ pc[0] = "tell" => Real /\ Before(0)
  /\ pc[0] \in {"load", "start", "compute", "combine", "select"} /\ Real => After(0)

(* Only the last decision is under way, to ranks that wait for it. *)
NetInv ==
  \A m \in net : /\ m.tag = decision.step /\ m.body = decision
                 /\ m.to \in told /\ Before(m.to)

AgreeInv == DecisionInv /\ RootInv /\ NetInv

(* The barriers: a rank that is past the second one, or in it, has stopped. *)
Gate(r) ==
  /\ pc[r] = "load" => passed[r] = 0 /\ entered[r] = FALSE
  /\ pc[r] = "start" => passed[r] = 0
  /\ pc[r] \in {"compute", "combine", "select", "tell", "decision", "finish"} =>
       passed[r] = 1 /\ entered[r] = FALSE
  /\ pc[r] = "complete" => passed[r] = 1
  /\ passed[r] > 1 => stop[r] # "none"
  /\ passed[r] = 1 /\ entered[r] = TRUE => stop[r] # "none"

BarrierInv ==
  /\ \A r \in Ranks : Gate(r)
  /\ \A r \in Ranks : pc[r] = "done" => \A q \in Ranks : stop[q] # "none"

IInv == TypeInv /\ PlaceInv /\ DataInv /\ PostedInv /\ AgreeInv /\ BarrierInv

-----------------------------------------------------------------------------
(* What the assumptions say of the sizes. *)
LEMMA Sizes ==
  /\ WorldSize \in Nat /\ WorldSize >= 2 /\ 0 \in Ranks
  /\ Layers \in Nat /\ Layers >= 1
  /\ LmHead \in Nat /\ LmHead = 2 * Layers + 2
BY WorldSizeAssumption, TensorParallelAssumption DEF Ranks, LmHead

(* A forward is LmHead collectives. *)
LEMMA BaseStep ==
  /\ Base(0) = 0
  /\ \A s \in Nat : Base(s) \in Nat /\ Base(s + 1) = Base(s) + LmHead
<1>1. \A n, s \in Nat : n * s \in Nat /\ n * (s + 1) = n * s + n /\ n * 0 = 0
  OBVIOUS
<1> QED
  BY <1>1, Sizes DEF Base

(* A later forward starts after the whole of an earlier one. *)
LEMMA BaseOrder ==
  ASSUME NEW s \in Nat, NEW t \in Nat, s < t
  PROVE  Base(s) + LmHead <= Base(t)
<1>1. \A n, d \in Nat : n * (s + 1 + d) = n * s + n + n * d /\ n * d \in Nat /\ n * s \in Nat
  OBVIOUS
<1>2. PICK d \in Nat : t = s + 1 + d
  <2>1. t - (s + 1) \in Nat /\ t = s + 1 + (t - (s + 1))
    OBVIOUS
  <2> QED
    BY <2>1
<1>3. LmHead * t = LmHead * s + LmHead + LmHead * d /\ LmHead * d \in Nat /\ LmHead * s \in Nat
  BY <1>1, <1>2, Sizes
<1> QED
  BY <1>3, Sizes DEF Base

(* The number of a contribution says which collective of which forward it *)
(* is for.                                                                *)
LEMMA Numbering ==
  ASSUME NEW s \in Nat, NEW t \in Nat, NEW o \in 1 .. LmHead, NEW p \in 1 .. LmHead,
         Base(s) + o = Base(t) + p
  PROVE  s = t /\ o = p
<1>1. Base(s) \in Nat /\ Base(t) \in Nat /\ LmHead \in Nat
  BY BaseStep, Sizes
<1>2. ~(s < t)
  BY <1>1, BaseOrder
<1>3. ~(t < s)
  BY <1>1, BaseOrder
<1>4. s = t
  BY <1>2, <1>3
<1> QED
  BY <1>1, <1>4

LEMMA JobFacts ==
  ASSUME NEW j \in Jobs
  PROVE  /\ j.prompt \in Seq(Vocab) /\ Len(j.prompt) \in Nat \ {0}
         /\ j.requested \in Nat \ {0}
         /\ Effective(j) \in Nat \ {0}
         /\ Effective(j) <= j.requested
         /\ Capacity(j) = Len(j.prompt) + Effective(j)
<1>1. /\ j.prompt \in Prompts /\ j.requested \in 1 .. MaxRequested /\ j.prompt # <<>>
      /\ Len(j.prompt) < MaxContext
  BY DEF Jobs
<1>2. j.prompt \in Seq(Vocab) /\ Len(j.prompt) \in Nat \ {0}
  BY <1>1, TensorParallelAssumption
<1> QED
  BY <1>1, <1>2, TensorParallelAssumption DEF Effective, Capacity

LEMMA ReasonsTyped ==
  ASSUME NEW t
  PROVE  Decide(t) \in StopReasons \union {"none"}
BY DEF Decide, StopReasons

LEMMA PartTyped ==
  ASSUME TypeInv, NEW r \in Ranks
  PROVE  PartOf(r) \in Parts
<1>1. op[r] \in Nat /\ position[r] \in Nat /\ input[r] \in Seq(Vocab)
  BY Sizes DEF TypeInv
<1>2. {i \in DOMAIN input[r] : Owns(r, input[r][i])} \in SUBSET Nat
  BY <1>1
<1> QED
  BY <1>1, <1>2 DEF PartOf, Parts

LEMMA ObeyTyped ==
  ASSUME TypeInv, NEW r \in Ranks, NEW d \in Decisions, Obey(r, d)
  PROVE  /\ pc' \in [Ranks -> Running \union Ended]
         /\ generated' \in [Ranks -> Seq(Vocab \ {Eos})]
         /\ stop' \in [Ranks -> StopReasons \union {"none"}]
         /\ op' \in [Ranks -> 1 .. LmHead]
         /\ input' \in [Ranks -> Seq(Vocab)]
         /\ position' \in [Ranks -> Nat]
         /\ step' \in [Ranks -> Nat]
<1>1. d.token \in Vocab /\ d.reason \in StopReasons \union {"none"} /\ d.step \in Nat
  BY DEF Decisions
<1>2. pc' \in [Ranks -> Running \union Ended]
  BY DEF Obey, Goto, TypeInv, Running, Ended
<1>3. generated' \in [Ranks -> Seq(Vocab \ {Eos})]
  <2>1. generated[r] \in Seq(Vocab \ {Eos})
    BY DEF TypeInv
  <2>2. (IF d.token = Eos THEN generated[r] ELSE Append(generated[r], d.token)) \in Seq(Vocab \ {Eos})
    BY <1>1, <2>1
  <2> QED
    BY <2>2 DEF Obey, TypeInv
<1>4. stop' \in [Ranks -> StopReasons \union {"none"}]
  BY <1>1 DEF Obey, TypeInv
<1>5. op' \in [Ranks -> 1 .. LmHead] /\ step' \in [Ranks -> Nat]
  <2>1. Embeddings \in 1 .. LmHead /\ step[r] + 1 \in Nat
    <3>1. step[r] \in Nat
      BY DEF TypeInv
    <3> QED
      BY <3>1, Sizes DEF Embeddings
  <2>2. /\ op' = op \/ op' = [op EXCEPT ![r] = Embeddings]
        /\ step' = step \/ step' = [step EXCEPT ![r] = step[r] + 1]
    BY DEF Obey
  <2> QED
    BY <2>1, <2>2 DEF TypeInv
<1>6. input' \in [Ranks -> Seq(Vocab)]
  <2>1. <<d.token>> \in Seq(Vocab)
    BY <1>1
  <2> QED
    BY <2>1 DEF Obey, TypeInv
<1>7. position' \in [Ranks -> Nat]
  <2>1. position[r] + Len(input[r]) \in Nat
    BY DEF TypeInv
  <2>2. position' = position \/ position' = [position EXCEPT ![r] = position[r] + Len(input[r])]
    BY DEF Obey, NextPosition
  <2> QED
    BY <2>1, <2>2 DEF TypeInv
<1> QED
  BY <1>2, <1>3, <1>4, <1>5, <1>6, <1>7

LEMMA PassTyped ==
  ASSUME TypeInv, NEW r \in Ranks, NEW from, NEW to \in Running \union Ended, PassBarrier(r, from, to)
  PROVE  TypeInv'
<1>1. pc' \in [Ranks -> Running \union Ended]
  <2>1. pc \in [Ranks -> Running \union Ended] /\ pc' = [pc EXCEPT ![r] = to]
    BY DEF TypeInv, PassBarrier, Goto
  <2> HIDE DEF Running, Ended
  <2> QED
    BY <2>1
<1>2. passed' \in [Ranks -> Nat]
  <2>1. passed \in [Ranks -> Nat] /\ passed' = [passed EXCEPT ![r] = passed[r] + 1]
    BY DEF TypeInv, PassBarrier
  <2>2. passed[r] + 1 \in Nat
    BY <2>1
  <2> QED
    BY <2>1, <2>2
<1>3. entered' \in [Ranks -> BOOLEAN]
  BY DEF TypeInv, PassBarrier
<1>4. UNCHANGED <<job, forward, step, decision, told, generated, stop, net>>
  BY DEF PassBarrier
<1> QED
  BY <1>1, <1>2, <1>3, <1>4 DEF TypeInv, forward

LEMMA TypeStep ==
  ASSUME TypeInv, [Next]_vars
  PROVE  TypeInv'
<1>1. ASSUME NEW r \in Ranks, Load(r)
     PROVE  TypeInv'
  BY <1>1 DEF Load, EnterBarrier, Goto, forward, TypeInv, Running, Ended
<1>2. ASSUME NEW r \in Ranks, Start(r)
     PROVE  TypeInv'
  BY <1>2, PassTyped DEF Start, Running
<1>3. ASSUME NEW r \in Ranks, Finish(r)
     PROVE  TypeInv'
  BY <1>3 DEF Finish, EnterBarrier, Goto, forward, TypeInv, Running, Ended
<1>4. ASSUME NEW r \in Ranks, Complete(r)
     PROVE  TypeInv'
  BY <1>4, PassTyped DEF Complete, Ended
<1>5. ASSUME NEW r \in Ranks, Compute(r)
     PROVE  TypeInv'
  <2>1. PartOf(r) \in Parts
    BY PartTyped
  <2>2. posted' \in [Ranks -> Seq(Parts)]
    <3>1. posted' = posted \/ posted' = [posted EXCEPT ![r] = Append(posted[r], PartOf(r))]
      BY <1>5 DEF Compute
    <3>2. Append(posted[r], PartOf(r)) \in Seq(Parts)
      BY <2>1 DEF TypeInv
    <3> QED
      BY <3>1, <3>2 DEF TypeInv
  <2>3. cache' \in [Ranks -> [1 .. Layers -> Seq(Vocab)]]
    <3> DEFINE l == LayerOf(op[r])
    <3>1. cache' = cache \/ cache' = [cache EXCEPT ![r] = [cache[r] EXCEPT ![l] = cache[r][l] \o input[r]]]
      BY <1>5 DEF Compute
    <3> HIDE DEF l
    <3>2. input[r] \in Seq(Vocab) /\ cache[r] \in [1 .. Layers -> Seq(Vocab)]
      BY DEF TypeInv
    <3>3. [cache[r] EXCEPT ![l] = cache[r][l] \o input[r]] \in [1 .. Layers -> Seq(Vocab)]
      <4>1. \A c \in Seq(Vocab) : c \o input[r] \in Seq(Vocab)
        BY <3>2
      <4> QED
        BY <3>2, <4>1
    <3> QED
      BY <3>1, <3>3 DEF TypeInv
  <2> QED
    BY <1>5, <2>2, <2>3 DEF Compute, Goto, barrier, TypeInv, Running, Ended
<1>6. ASSUME NEW r \in Ranks, Combine(r)
     PROVE  TypeInv'
  <2>1. op[r] # LmHead => op[r] + 1 \in 1 .. LmHead
    <3>1. op[r] \in 1 .. LmHead
      BY DEF TypeInv
    <3> QED
      BY <3>1, Sizes
  <2>2. op' = op \/ (op[r] # LmHead /\ op' = [op EXCEPT ![r] = op[r] + 1])
    BY <1>6 DEF Combine
  <2>3. op' \in [Ranks -> 1 .. LmHead]
    BY <2>1, <2>2 DEF TypeInv
  <2>4. pc' \in [Ranks -> Running \union Ended]
    BY <1>6 DEF Combine, Goto, TypeInv, Running, Ended
  <2> QED
    BY <1>6, <2>3, <2>4 DEF Combine, barrier, TypeInv
<1>7. ASSUME NEW r \in Ranks, NEW t \in Vocab, Select(r, t)
     PROVE  TypeInv'
  <2>1. decision' \in Decisions
    BY <1>7, ReasonsTyped DEF Select, Decisions, TypeInv
  <2> QED
    BY <1>7, <2>1 DEF Select, Goto, forward, barrier, TypeInv, Running, Ended
<1>8. ASSUME NEW r \in Ranks, NEW d \in Peers(0), SendDecision(r, d)
     PROVE  TypeInv'
  <2>1. [to |-> d, tag |-> step[r], body |-> decision] \in [to : Peers(0), tag : Nat, body : Decisions]
    BY <1>8 DEF TypeInv
  <2> QED
    BY <1>8, <2>1 DEF SendDecision, forward, barrier, TypeInv
<1>9. ASSUME NEW r \in Ranks, Decided(r)
     PROVE  TypeInv'
  <2>1. Obey(r, decision) /\ decision \in Decisions
    BY <1>9 DEF Decided, TypeInv
  <2> QED
    BY <1>9, <2>1, ObeyTyped DEF Decided, barrier, TypeInv
<1>10. ASSUME NEW r \in Ranks, RecvDecision(r)
     PROVE  TypeInv'
  <2>1. PICK m \in net : Obey(r, m.body) /\ net' = net \ {m}
    BY <1>10 DEF RecvDecision
  <2>2. m.body \in Decisions
    BY DEF TypeInv
  <2> QED
    BY <1>10, <2>1, <2>2, ObeyTyped DEF RecvDecision, barrier, TypeInv
<1>11. ASSUME NEW r \in Ranks, Fail(r)
     PROVE  TypeInv'
  BY <1>11 DEF Fail, Goto, forward, barrier, TypeInv, Running, Ended
<1>12. CASE UNCHANGED vars
  BY <1>12 DEF vars, forward, barrier, TypeInv, Running, Ended
<1> QED
  BY <1>1, <1>2, <1>3, <1>4, <1>5, <1>6, <1>7, <1>8, <1>9, <1>10, <1>11, <1>12 DEF Next,
     AnyProgress, Progress, TimeOut, Crash
LEMMA OpCases ==
  ASSUME NEW o \in 1 .. LmHead
  PROVE  /\ IsAttention(o) => LayerOf(o) \in 1 .. Layers /\ o = 2 * LayerOf(o)
         /\ ~IsAttention(o) => \A l \in 1 .. Layers : o # 2 * l
BY Sizes DEF IsAttention, LayerOf

LEMMA TypeInit ==
  ASSUME Init PROVE TypeInv
<1>1. job \in Jobs /\ job.prompt \in Seq(Vocab)
  BY JobFacts DEF Init
<1>2. 1 \in 1 .. LmHead
  BY Sizes
<1>3. decision \in Decisions
  BY TensorParallelAssumption DEF Init, Decisions
<1> QED
  BY <1>1, <1>2, <1>3 DEF Init, TypeInv, Embeddings, Running

-----------------------------------------------------------------------------
(* What a step does to the rank that takes it and leaves to the others. *)

Same(q) ==
  /\ pc'[q] = pc[q] /\ op'[q] = op[q] /\ step'[q] = step[q]
  /\ input'[q] = input[q] /\ position'[q] = position[q] /\ cache'[q] = cache[q]
  /\ posted'[q] = posted[q] /\ generated'[q] = generated[q] /\ stop'[q] = stop[q]
  /\ passed'[q] = passed[q] /\ entered'[q] = entered[q]

LEMMA OthersSame ==
  ASSUME TypeInv, NEW r \in Ranks, Progress(r) \/ Fail(r)
  PROVE  job' = job /\ \A q \in Ranks \ {r} : Same(q)
<1>1. ASSUME Load(r)
      PROVE  job' = job /\ \A q \in Ranks \ {r} : Same(q)
  BY <1>1 DEF Load, EnterBarrier, Goto, forward, Same, TypeInv
<1>2. ASSUME Start(r)
      PROVE  job' = job /\ \A q \in Ranks \ {r} : Same(q)
  BY <1>2 DEF Start, PassBarrier, Goto, forward, Same, TypeInv
<1>3. ASSUME Finish(r)
      PROVE  job' = job /\ \A q \in Ranks \ {r} : Same(q)
  BY <1>3 DEF Finish, EnterBarrier, Goto, forward, Same, TypeInv
<1>4. ASSUME Complete(r)
      PROVE  job' = job /\ \A q \in Ranks \ {r} : Same(q)
  BY <1>4 DEF Complete, PassBarrier, Goto, forward, Same, TypeInv
<1>5. ASSUME Compute(r)
      PROVE  job' = job /\ \A q \in Ranks \ {r} : Same(q)
  BY <1>5 DEF Compute, Goto, barrier, Same, TypeInv
<1>6. ASSUME Combine(r)
      PROVE  job' = job /\ \A q \in Ranks \ {r} : Same(q)
  BY <1>6 DEF Combine, Goto, barrier, Same, TypeInv
<1>7. ASSUME NEW t \in Vocab, Select(r, t)
      PROVE  job' = job /\ \A q \in Ranks \ {r} : Same(q)
  BY <1>7 DEF Select, Goto, forward, barrier, Same, TypeInv
<1>8. ASSUME NEW d \in Peers(0), SendDecision(r, d)
      PROVE  job' = job /\ \A q \in Ranks \ {r} : Same(q)
  BY <1>8 DEF SendDecision, forward, barrier, Same, TypeInv
<1>9. ASSUME Decided(r)
      PROVE  job' = job /\ \A q \in Ranks \ {r} : Same(q)
  BY <1>9 DEF Decided, Obey, Goto, barrier, Same, TypeInv
<1>10. ASSUME RecvDecision(r)
      PROVE  job' = job /\ \A q \in Ranks \ {r} : Same(q)
  BY <1>10 DEF RecvDecision, Obey, Goto, barrier, Same, TypeInv
<1>11. ASSUME Fail(r)
      PROVE  job' = job /\ \A q \in Ranks \ {r} : Same(q)
  BY <1>11 DEF Fail, Goto, forward, barrier, Same, TypeInv
<1> QED
  BY <1>1, <1>2, <1>3, <1>4, <1>5, <1>6, <1>7, <1>8, <1>9, <1>10, <1>11 DEF Progress

LEMMA ComputeEffect ==
  ASSUME TypeInv, NEW r \in Ranks, Compute(r)
  PROVE  /\ pc[r] = "compute"
         /\ op' = op /\ step' = step /\ input' = input /\ position' = position
         /\ generated' = generated /\ stop' = stop
         /\ decision' = decision /\ told' = told /\ net' = net
         /\ passed' = passed /\ entered' = entered
         /\ \/ pc'[r] = "failed" /\ posted' = posted /\ cache' = cache
            \/ /\ pc'[r] = "combine"
               /\ posted'[r] = Append(posted[r], PartOf(r))
               /\ Len(posted'[r]) = Len(posted[r]) + 1
               /\ IsAttention(op[r]) =>
                    /\ cache'[r][LayerOf(op[r])] = cache[r][LayerOf(op[r])] \o input[r]
                    /\ \A l \in 1 .. Layers : l # LayerOf(op[r]) => cache'[r][l] = cache[r][l]
               /\ ~IsAttention(op[r]) => cache' = cache
<1>1. /\ pc[r] = "compute"
      /\ op' = op /\ step' = step /\ input' = input /\ position' = position
      /\ generated' = generated /\ stop' = stop
      /\ decision' = decision /\ told' = told /\ net' = net
      /\ passed' = passed /\ entered' = entered
  BY DEF Compute, barrier
<1>2. CASE Refused(r)
  BY <1>1, <1>2 DEF Compute, Goto, TypeInv
<1>3. CASE ~Refused(r)
  <2>1. pc'[r] = "combine" /\ posted'[r] = Append(posted[r], PartOf(r))
    BY <1>3 DEF Compute, Goto, TypeInv
  <2>2. Len(posted'[r]) = Len(posted[r]) + 1
    BY <2>1, PartTyped DEF TypeInv
  <2>3. ~IsAttention(op[r]) => cache' = cache
    BY <1>3 DEF Compute
  <2>4. IsAttention(op[r]) => LayerOf(op[r]) \in 1 .. Layers
    BY OpCases DEF TypeInv
  <2>5. ASSUME IsAttention(op[r])
        PROVE  /\ cache'[r][LayerOf(op[r])] = cache[r][LayerOf(op[r])] \o input[r]
               /\ \A l \in 1 .. Layers : l # LayerOf(op[r]) => cache'[r][l] = cache[r][l]
    <3> DEFINE k == LayerOf(op[r])
    <3>1. cache' = [cache EXCEPT ![r] = [cache[r] EXCEPT ![k] = cache[r][k] \o input[r]]]
      BY <1>3, <2>5 DEF Compute
    <3>2. k \in 1 .. Layers /\ cache \in [Ranks -> [1 .. Layers -> Seq(Vocab)]]
      BY <2>4, <2>5 DEF TypeInv
    <3> HIDE DEF k
    <3>3. cache'[r] = [cache[r] EXCEPT ![k] = cache[r][k] \o input[r]]
      BY <3>1, <3>2
    <3> QED
      BY <3>2, <3>3 DEF k
  <2> QED
    BY <1>1, <2>1, <2>2, <2>3, <2>5
<1> QED
  BY <1>2, <1>3

LEMMA CombineEffect ==
  ASSUME TypeInv, NEW r \in Ranks, Combine(r)
  PROVE  /\ pc[r] = "combine"
         /\ \A q \in Ranks : Len(posted[q]) >= Len(posted[r])
         /\ step' = step /\ input' = input /\ position' = position
         /\ generated' = generated /\ stop' = stop /\ cache' = cache /\ posted' = posted
         /\ decision' = decision /\ told' = told /\ net' = net
         /\ passed' = passed /\ entered' = entered
         /\ \/ /\ op[r] = LmHead /\ op' = op
               /\ pc'[r] = IF r = 0 THEN "select" ELSE "decision"
            \/ op[r] # LmHead /\ op'[r] = op[r] + 1 /\ pc'[r] = "compute"
BY DEF Combine, AllContributed, Goto, TypeInv, barrier

LEMMA ObeyEffect ==
  ASSUME TypeInv, NEW r \in Ranks, NEW d \in Decisions, d.step = step[r], Obey(r, d)
  PROVE  /\ generated'[r] = IF d.token = Eos THEN generated[r] ELSE Append(generated[r], d.token)
         /\ \/ /\ d.reason # "none" /\ stop'[r] = d.reason /\ pc'[r] = "finish"
               /\ op' = op /\ input' = input /\ position' = position /\ step' = step
            \/ /\ d.reason = "none" /\ stop' = stop /\ pc'[r] = "compute"
               /\ position'[r] = position[r] + Len(input[r]) /\ input'[r] = <<d.token>>
               /\ step'[r] = step[r] + 1 /\ op'[r] = Embeddings
BY DEF Obey, Goto, TypeInv, NextPosition

(* Rank 0 and the others obey the same decision, each in its step. *)
LEMMA ObeyStep ==
  ASSUME TypeInv, AgreeInv, NEW r \in Ranks, Decided(r) \/ RecvDecision(r)
  PROVE  /\ Obey(r, decision) /\ decision \in Decisions /\ Before(r) /\ Real
         /\ decision' = decision /\ told' = told /\ cache' = cache /\ posted' = posted
         /\ passed' = passed /\ entered' = entered
         /\ pc[r] \in {"tell", "decision"}
         /\ r = 0 => told = Peers(0) /\ pc[r] = "tell"
         /\ r # 0 => r \in told
         /\ net' \subseteq net /\ \A m \in net' : m.to # r
<1>1. CASE Decided(r)
  BY <1>1 DEF Decided, barrier, TypeInv, AgreeInv, RootInv, Peers
<1>2. CASE RecvDecision(r)
  <2>1. PICK m \in net : m.to = r /\ net' = net \ {m} /\ Obey(r, m.body)
    BY <1>2 DEF RecvDecision
  <2>2. \A x \in net : x = [to |-> x.to, tag |-> x.tag, body |-> x.body]
    BY DEF TypeInv
  <2>3. \A x \in net : x.tag = decision.step /\ x.body = decision /\ x.to \in told /\ Before(x.to)
    BY DEF AgreeInv, NetInv
  <2>4. \A x \in net : x.to = r => x = m
    BY <2>1, <2>2, <2>3
  <2>5. Real
    BY DEF AgreeInv, DecisionInv
  <2> QED
    BY <1>2, <2>1, <2>3, <2>4, <2>5 DEF RecvDecision, barrier, TypeInv
<1> QED
  BY <1>1, <1>2

-----------------------------------------------------------------------------
(* Places. *)

LEMMA PlaceInit ==
  ASSUME Init PROVE PlaceInv
<1>1. Base(0) = 0 /\ LmHead \in Nat
  BY Sizes, BaseStep
<1> QED
  BY <1>1 DEF Init, PlaceInv, Place, Early, Embeddings

LEMMA PlaceStep ==
  ASSUME TypeInv, PlaceInv, AgreeInv, NEW r \in Ranks, Progress(r) \/ Fail(r)
  PROVE  PlaceInv'
<1>0. /\ Place(r) /\ step[r] \in Nat /\ op[r] \in 1 .. LmHead /\ LmHead \in Nat
      /\ Len(posted[r]) \in Nat /\ LmHead > 1
      /\ Base(step[r]) \in Nat /\ Base(step[r] + 1) = Base(step[r]) + LmHead
  <2>1. Place(r) /\ step[r] \in Nat /\ op[r] \in 1 .. LmHead /\ Len(posted[r]) \in Nat
    BY DEF TypeInv, PlaceInv
  <2>2. LmHead \in Nat /\ LmHead > 1
    BY Sizes
  <2>3. Base(step[r]) \in Nat /\ Base(step[r] + 1) = Base(step[r]) + LmHead
    BY <2>1, BaseStep
  <2> QED
    BY <2>1, <2>2, <2>3
<1>1. ASSUME Load(r) \/ Start(r) \/ Finish(r) \/ Complete(r)
      PROVE  Place(r)'
  BY <1>0, <1>1 DEF Load, Start, Finish, Complete, EnterBarrier, PassBarrier, Goto, forward, TypeInv,
     Place, Early
<1>2. ASSUME Compute(r)
      PROVE  Place(r)'
  <2>1. /\ pc[r] = "compute" /\ op' = op /\ step' = step /\ stop' = stop
        /\ \/ pc'[r] = "failed" /\ posted' = posted
           \/ pc'[r] = "combine" /\ Len(posted'[r]) = Len(posted[r]) + 1
    BY <1>2, ComputeEffect
  <2>2. stop[r] = "none" /\ Len(posted[r]) = Base(step[r]) + op[r] - 1
    BY <1>0, <2>1 DEF Place, Early
  <2>3. CASE pc'[r] = "failed" /\ posted' = posted
    BY <1>0, <2>1, <2>2, <2>3 DEF Place, Early
  <2>4. CASE pc'[r] = "combine" /\ Len(posted'[r]) = Len(posted[r]) + 1
    BY <1>0, <2>1, <2>2, <2>4 DEF Place, Early
  <2> QED
    BY <2>1, <2>3, <2>4
<1>3. ASSUME Combine(r)
      PROVE  Place(r)'
  <2>1. /\ pc[r] = "combine" /\ step' = step /\ stop' = stop /\ posted' = posted
        /\ \/ /\ op[r] = LmHead /\ op' = op
              /\ pc'[r] = IF r = 0 THEN "select" ELSE "decision"
           \/ op[r] # LmHead /\ op'[r] = op[r] + 1 /\ pc'[r] = "compute"
    BY <1>3, CombineEffect
  <2>2. stop[r] = "none" /\ Len(posted[r]) = Base(step[r]) + op[r]
    BY <1>0, <2>1 DEF Place, Early
  <2>3. CASE op[r] = LmHead /\ op' = op /\ pc'[r] = IF r = 0 THEN "select" ELSE "decision"
    BY <1>0, <2>1, <2>2, <2>3 DEF Place, Early
  <2>4. CASE op[r] # LmHead /\ op'[r] = op[r] + 1 /\ pc'[r] = "compute"
    BY <1>0, <2>1, <2>2, <2>4 DEF Place, Early
  <2> QED
    BY <2>1, <2>3, <2>4
<1>4. ASSUME NEW t \in Vocab, Select(r, t)
      PROVE  Place(r)'
  BY <1>0, <1>4 DEF Select, Goto, forward, TypeInv, Place, Early
<1>5. ASSUME NEW d \in Peers(0), SendDecision(r, d)
      PROVE  Place(r)'
  BY <1>0, <1>5 DEF SendDecision, forward, Place, Early
<1>6. ASSUME Decided(r) \/ RecvDecision(r)
      PROVE  Place(r)'
  <2>1. /\ posted' = posted /\ decision \in Decisions /\ decision.step = step[r] /\ Obey(r, decision)
        /\ pc[r] \in {"tell", "decision"}
    BY <1>6, ObeyStep DEF Before
  <2>2. decision.reason \in StopReasons \union {"none"}
    BY <2>1 DEF Decisions
  <2>3. Len(posted[r]) = Base(step[r]) + LmHead /\ stop[r] = "none"
    BY <1>0, <2>1 DEF Place, Early
  <2>4. CASE /\ decision.reason # "none" /\ stop'[r] = decision.reason /\ pc'[r] = "finish"
             /\ op' = op /\ step' = step
    BY <1>0, <2>1, <2>3, <2>4 DEF Place, Early
  <2>5. CASE stop' = stop /\ pc'[r] = "compute" /\ step'[r] = step[r] + 1 /\ op'[r] = Embeddings
    <3>1. Base(step'[r]) = Len(posted'[r]) /\ op'[r] = 1
      BY <1>0, <2>1, <2>3, <2>5 DEF Embeddings
    <3> QED
      BY <1>0, <2>1, <2>3, <2>5, <3>1 DEF Place, Early
  <2> QED
    BY <2>1, <2>4, <2>5, ObeyEffect
<1>7. ASSUME Fail(r)
      PROVE  Place(r)'
  BY <1>0, <1>7 DEF Fail, Goto, forward, TypeInv, Place, Early
<1>8. ASSUME NEW q \in Ranks, q # r
      PROVE  Place(q)'
  BY <1>8, OthersSame DEF Same, PlaceInv, Place
<1> QED
  BY <1>1, <1>2, <1>3, <1>4, <1>5, <1>6, <1>7, <1>8 DEF Progress, PlaceInv

-----------------------------------------------------------------------------
(* Data. *)

LEMMA DataInit ==
  ASSUME Init PROVE DataInv
<1>1. job.prompt \in Seq(Vocab) /\ job.prompt \o <<>> = job.prompt
  BY JobFacts, ConcatEmptySeq DEF Init
<1>2. SubSeq(job.prompt, 1, 0) = <<>>
  BY <1>1
<1>3. \A l \in 1 .. Layers : ~(0 >= Base(0) + 2 * l)
  BY Sizes, BaseStep
<1> QED
  BY <1>1, <1>2, <1>3 DEF Init, DataInv, Data, Fed, Tokens, Position, Text

LEMMA DataSame ==
  ASSUME NEW q, Data(q), job' = job, step'[q] = step[q], input'[q] = input[q],
         position'[q] = position[q], cache'[q] = cache[q], posted'[q] = posted[q],
         generated'[q] = generated[q], stop'[q] = stop[q]
  PROVE  Data(q)'
BY DEF Data, Fed, Tokens, Position, Text

LEMMA ObeyText ==
  ASSUME TypeInv, DataInv, AgreeInv, NEW r \in Ranks, Decided(r) \/ RecvDecision(r)
  PROVE  /\ generated'[r] = generated[r] \o Chosen /\ Chosen \in Seq(Vocab)
         /\ Len(generated'[r]) = step[r] + Len(Chosen) /\ Len(Chosen) \in Nat
         /\ \A i \in 1 .. step[r] : generated'[r][i] = generated[r][i]
         /\ decision.token # Eos => Len(Chosen) = 1 /\ generated'[r][step[r] + 1] = decision.token
<1> DEFINE g == generated[r]
           e == decision.token
<1>1. /\ decision \in Decisions /\ decision.step = step[r] /\ stop[r] = "none" /\ Obey(r, decision)
  BY ObeyStep DEF Before
<1>2. g \in Seq(Vocab \ {Eos}) /\ e \in Vocab /\ Len(g) = step[r]
  BY <1>1 DEF TypeInv, Decisions, DataInv, Data
<1>3. generated'[r] = IF e = Eos THEN g ELSE Append(g, e)
  BY <1>1, ObeyEffect
<1> HIDE DEF g, e
<1>4. g \in Seq(Vocab)
  BY <1>2
<1> DEFINE h == IF e = Eos THEN <<>> ELSE <<e>>
<1>5. h \in Seq(Vocab) /\ Len(h) \in Nat /\ (e # Eos => Len(h) = 1 /\ h[1] = e)
  BY <1>2
<1>6. generated'[r] = g \o h
  <2>1. CASE e = Eos
    BY <1>3, <1>4, <2>1, ConcatEmptySeq
  <2>2. CASE e # Eos
    BY <1>2, <1>3, <1>4, <2>2, AppendIsConcat
  <2> QED
    BY <2>1, <2>2
<1> HIDE DEF h
<1>7. /\ Len(g \o h) = Len(g) + Len(h) /\ \A i \in 1 .. Len(g) : (g \o h)[i] = g[i]
      /\ e # Eos => (g \o h)[Len(g) + 1] = e
  BY <1>4, <1>5
<1>8. Chosen = h
  BY DEF Chosen, h, e
<1> QED
  BY <1>2, <1>5, <1>6, <1>7, <1>8 DEF g, e

LEMMA DataStep ==
  ASSUME TypeInv, PlaceInv, DataInv, AgreeInv, NEW r \in Ranks, Progress(r) \/ Fail(r)
  PROVE  DataInv'
<1>0. /\ Place(r) /\ Data(r) /\ step[r] \in Nat /\ op[r] \in 1 .. LmHead /\ LmHead \in Nat
      /\ Len(posted[r]) \in Nat /\ job' = job /\ job.prompt \in Seq(Vocab) /\ Len(job.prompt) \in Nat
      /\ generated[r] \in Seq(Vocab) /\ generated[r] \in Seq(Vocab \ {Eos})
  <2>1. /\ Place(r) /\ Data(r) /\ step[r] \in Nat /\ op[r] \in 1 .. LmHead
        /\ Len(posted[r]) \in Nat /\ generated[r] \in Seq(Vocab \ {Eos}) /\ job \in Jobs
    BY DEF TypeInv, PlaceInv, DataInv
  <2>2. generated[r] \in Seq(Vocab)
    BY <2>1
  <2>3. job.prompt \in Seq(Vocab) /\ Len(job.prompt) \in Nat
    BY <2>1, JobFacts
  <2>4. LmHead \in Nat /\ job' = job
    BY Sizes, OthersSame
  <2> QED
    BY <2>1, <2>2, <2>3, <2>4
<1>00. /\ LmHead = 2 * Layers + 2 /\ Layers \in Nat
       /\ Base(step[r]) \in Nat /\ Base(step[r] + 1) = Base(step[r]) + LmHead
  BY <1>0, Sizes, BaseStep
<1>1. ASSUME Load(r) \/ Start(r) \/ Finish(r) \/ Complete(r)
      PROVE  Data(r)'
  BY <1>0, <1>1, DataSame DEF Load, Start, Finish, Complete, EnterBarrier, PassBarrier, forward
<1>2. ASSUME Compute(r)
      PROVE  Data(r)'
  <2>1. /\ pc[r] = "compute" /\ op' = op /\ step' = step /\ stop' = stop /\ input' = input
        /\ position' = position /\ generated' = generated
    BY <1>2, ComputeEffect
  <2>2. CASE posted' = posted /\ cache' = cache
    BY <1>0, <2>1, <2>2, DataSame
  <2>3. CASE /\ Len(posted'[r]) = Len(posted[r]) + 1
             /\ IsAttention(op[r]) =>
                  /\ cache'[r][LayerOf(op[r])] = cache[r][LayerOf(op[r])] \o input[r]
                  /\ \A l \in 1 .. Layers : l # LayerOf(op[r]) => cache'[r][l] = cache[r][l]
             /\ ~IsAttention(op[r]) => cache' = cache
    <3>1. Len(posted[r]) = Base(step[r]) + op[r] - 1 /\ Len(posted'[r]) = Base(step[r]) + op[r]
      <4>1. Len(posted[r]) = Base(step[r]) + op[r] - 1
        BY <1>0, <2>1 DEF Place
      <4> QED
        BY <1>0, <1>00, <2>3, <4>1
    <3>2. ASSUME NEW l \in 1 .. Layers, op[r] # 2 * l
          PROVE  cache'[r][l] = SubSeq(Text(r), 1, Fed(r, l)')
      <4>1. Len(posted[r]) >= Base(step[r]) + 2 * l <=> Len(posted'[r]) >= Base(step[r]) + 2 * l
        <5>1. \A n, o, k \in Nat : o # k => (n + o - 1 >= n + k <=> n + o >= n + k)
          OBVIOUS
        <5>2. 2 * l \in Nat /\ op[r] \in Nat
          BY <1>0
        <5>3. Base(step[r]) + op[r] - 1 >= Base(step[r]) + 2 * l <=> Base(step[r]) + op[r] >= Base(step[r]) + 2 * l
          BY <1>00, <3>2, <5>1, <5>2
        <5> QED
          BY <3>1, <5>3
      <4>2. Fed(r, l)' = Fed(r, l)
        BY <1>0, <2>1, <4>1 DEF Fed, Position
      <4>3. cache'[r][l] = cache[r][l]
        BY <1>0, <2>3, <3>2, OpCases
      <4> QED
        BY <1>0, <4>2, <4>3 DEF Data
    <3>3. ASSUME NEW l \in 1 .. Layers, op[r] = 2 * l
          PROVE  cache'[r][l] = SubSeq(Text(r), 1, Fed(r, l)')
      <4>1. IsAttention(op[r]) /\ LayerOf(op[r]) = l
        <5>1. IsAttention(op[r])
          BY <1>0, <3>3, OpCases
        <5> QED
          BY <1>0, <3>3, <5>1, OpCases
      <4>2. cache'[r][l] = cache[r][l] \o input[r]
        BY <2>3, <4>1
      <4>3. Fed(r, l) = Position(step[r]) /\ Fed(r, l)' = Len(job.prompt) + step[r]
        BY <1>0, <1>00, <2>1, <3>1, <3>3 DEF Fed
      <4>4. cache[r][l] = SubSeq(Text(r), 1, Position(step[r])) /\ input[r] = Tokens(r, step[r])
        BY <1>0, <4>3 DEF Data
      <4>5. SubSeq(Text(r), 1, Position(step[r])) \o Tokens(r, step[r])
              = SubSeq(Text(r), 1, Len(job.prompt) + step[r])
        <5>1. CASE step[r] = 0
          <6>1. SubSeq(Text(r), 1, 0) = <<>> /\ SubSeq(Text(r), 1, Len(job.prompt)) = job.prompt
            BY <1>0, WholePrefix DEF Text
          <6>2. <<>> \o job.prompt = job.prompt
            BY <1>0, ConcatEmptySeq
          <6> QED
            BY <1>0, <5>1, <6>1, <6>2 DEF Position, Tokens
        <5>2. CASE step[r] # 0
          <6>1. step[r] \in 1 .. Len(generated[r])
            BY <1>0, <5>2 DEF Data
          <6> QED
            BY <1>0, <5>2, <6>1, FeedOne DEF Position, Tokens, Text
        <5> QED
          BY <5>1, <5>2
      <4> QED
        BY <4>2, <4>3, <4>4, <4>5
    <3>4. \A l \in 1 .. Layers : cache'[r][l] = SubSeq(Text(r), 1, Fed(r, l))'
      BY <1>0, <2>1, <3>2, <3>3 DEF Text
    <3> QED
      BY <1>0, <2>1, <3>4 DEF Data, Tokens, Position
  <2> QED
    BY <1>2, <2>2, <2>3, ComputeEffect
<1>3. ASSUME Combine(r)
      PROVE  Data(r)'
  BY <1>0, <1>3, CombineEffect, DataSame
<1>4. ASSUME NEW t \in Vocab, Select(r, t)
      PROVE  Data(r)'
  BY <1>0, <1>4, DataSame DEF Select, forward
<1>5. ASSUME NEW d \in Peers(0), SendDecision(r, d)
      PROVE  Data(r)'
  BY <1>0, <1>5, DataSame DEF SendDecision, forward
<1>6. ASSUME Decided(r) \/ RecvDecision(r)
      PROVE  Data(r)'
  <2>1. /\ posted' = posted /\ cache' = cache /\ decision \in Decisions /\ decision.step = step[r]
        /\ Obey(r, decision) /\ pc[r] \in {"tell", "decision"} /\ stop[r] = "none" /\ Real
    BY <1>6, ObeyStep DEF Before
  <2>2. decision.reason \in StopReasons \union {"none"} /\ decision.token \in Vocab
    BY <2>1 DEF Decisions
  <2>3. /\ generated'[r] = generated[r] \o Chosen /\ Chosen \in Seq(Vocab)
        /\ Len(generated'[r]) = step[r] + Len(Chosen) /\ Len(Chosen) \in Nat
        /\ \A i \in 1 .. step[r] : generated'[r][i] = generated[r][i]
        /\ decision.token # Eos => Len(Chosen) = 1 /\ generated'[r][step[r] + 1] = decision.token
    BY <1>6, ObeyText
  <2>4. \A k \in 0 .. Len(job.prompt) + Len(generated[r]) :
          SubSeq(Text(r)', 1, k) = SubSeq(Text(r), 1, k)
    <3> SUFFICES ASSUME NEW k \in 0 .. Len(job.prompt) + Len(generated[r])
                 PROVE  SubSeq(Text(r)', 1, k) = SubSeq(Text(r), 1, k)
      OBVIOUS
    <3>1. Text(r)' = job.prompt \o (generated[r] \o Chosen) /\ Text(r) = job.prompt \o generated[r]
      BY <1>0, <2>3 DEF Text
    <3> DEFINE p == job.prompt
               g == generated[r]
               h == Chosen
    <3>2. p \in Seq(Vocab) /\ g \in Seq(Vocab) /\ h \in Seq(Vocab) /\ k \in 0 .. Len(p) + Len(g)
      BY <1>0, <2>3
    <3> HIDE DEF p, g, h
    <3>3. SubSeq(p \o (g \o h), 1, k) = SubSeq(p \o g, 1, k)
      BY <3>2, PrefixKept
    <3> QED
      BY <3>1, <3>3 DEF p, g, h
  <2>5. /\ Len(posted[r]) = Base(step[r]) + LmHead /\ Len(generated[r]) = step[r]
        /\ \A l \in 1 .. Layers : cache[r][l] = SubSeq(Text(r), 1, Len(job.prompt) + step[r])
    <3>1. Len(posted[r]) = Base(step[r]) + LmHead
      BY <1>0, <2>1 DEF Place
    <3>2. \A l \in 1 .. Layers : Len(posted[r]) >= Base(step[r]) + 2 * l
      BY <1>00, <3>1
    <3> QED
      BY <1>0, <2>1, <3>1, <3>2 DEF Data, Fed
  <2>6. \A l \in 1 .. Layers : cache'[r][l] = SubSeq(Text(r)', 1, Len(job.prompt) + step[r])
    BY <1>0, <2>1, <2>4, <2>5
  <2>7. CASE decision.reason # "none"
    <3>1. /\ stop'[r] = decision.reason /\ input' = input /\ position' = position /\ step' = step
      BY <2>1, <2>7, ObeyEffect
    <3>2. step'[r] <= Len(generated'[r]) /\ stop'[r] # "none"
      BY <1>0, <2>3, <2>7, <3>1
    <3>3. input'[r] = Tokens(r, step[r])'
      <4>1. step[r] # 0 => generated'[r][step[r]] = generated[r][step[r]]
        <5>1. step[r] # 0 => step[r] \in 1 .. step[r]
          BY <1>0
        <5> QED
          BY <2>3, <5>1
      <4> QED
        BY <1>0, <3>1, <4>1 DEF Data, Tokens
    <3>4. position'[r] = Position(step[r])'
      BY <1>0, <3>1 DEF Data, Position
    <3>5. \A l \in 1 .. Layers : Fed(r, l)' = Len(job.prompt) + step[r]
      BY <1>0, <1>00, <2>1, <2>5, <3>1 DEF Fed
    <3> QED
      BY <2>6, <3>1, <3>2, <3>3, <3>4, <3>5 DEF Data
  <2>8. CASE decision.reason = "none"
    <3>0. decision.token # Eos
      BY <2>1, <2>8 DEF Real
    <3>1. /\ stop' = stop /\ step'[r] = step[r] + 1 /\ input'[r] = <<decision.token>>
          /\ position'[r] = position[r] + Len(input[r])
      BY <2>1, <2>8, ObeyEffect
    <3>2. Len(generated'[r]) = step[r] + 1 /\ generated'[r][step[r] + 1] = decision.token
      BY <1>0, <2>3, <3>0
    <3>3. input'[r] = Tokens(r, step[r])'
      BY <1>0, <3>1, <3>2 DEF Tokens
    <3>4. Position(step[r])' = Len(job.prompt) + step[r]
      <4>1. \A n, k \in Nat : n + 1 # 0 /\ k + (n + 1) - 1 = k + n
        OBVIOUS
      <4>2. job' = job /\ step[r] \in Nat /\ Len(job.prompt) \in Nat
        BY <1>0
      <4>3. step'[r] = step[r] + 1
        BY <3>1
      <4> QED
        BY <4>1, <4>2, <4>3 DEF Position
    <3>5. position'[r] = Position(step[r])'
      <4>1. position[r] = Position(step[r]) /\ input[r] = Tokens(r, step[r])
        BY <1>0 DEF Data
      <4>2. Len(Tokens(r, step[r])) = IF step[r] = 0 THEN Len(job.prompt) ELSE 1
        BY DEF Tokens
      <4>3. Position(step[r]) + Len(Tokens(r, step[r])) = Len(job.prompt) + step[r]
        BY <1>0, <4>2 DEF Position
      <4> QED
        BY <3>1, <3>4, <4>1, <4>3
    <3>6. ASSUME NEW l \in 1 .. Layers
          PROVE  Fed(r, l)' = Len(job.prompt) + step[r]
      <4>1. posted'[r] = posted[r] /\ Base(step'[r]) = Base(step[r]) + LmHead /\ Base(step[r]) \in Nat
        BY <1>00, <2>1, <3>1
      <4>2. ~(Len(posted'[r]) >= Base(step'[r]) + 2 * l)
        BY <1>0, <2>5, <4>1
      <4> QED
        BY <3>4, <4>2 DEF Fed
    <3>7. step'[r] <= Len(generated'[r]) /\ Len(generated'[r]) = step'[r]
      BY <1>0, <3>1, <3>2
    <3> QED
      BY <2>6, <3>3, <3>4, <3>5, <3>6, <3>7 DEF Data
  <2> QED
    BY <2>7, <2>8
<1>7. ASSUME Fail(r)
      PROVE  Data(r)'
  BY <1>0, <1>7, DataSame DEF Fail, forward
<1>8. ASSUME NEW q \in Ranks, q # r
      PROVE  Data(q)'
  BY <1>8, OthersSame, DataSame DEF Same, DataInv
<1> QED
  BY <1>1, <1>2, <1>3, <1>4, <1>5, <1>6, <1>7, <1>8 DEF Progress, DataInv

-----------------------------------------------------------------------------
(* Contributions. *)

LEMMA PostedInit ==
  ASSUME Init PROVE PostedInv
<1>1. \A r \in Ranks : posted[r] = <<>>
  BY DEF Init
<1> QED
  BY <1>1 DEF PostedInv, Contributed

LEMMA ShardSame ==
  ASSUME NEW q, NEW s, NEW o, job' = job, Tokens(q, s)' = Tokens(q, s)
  PROVE  Shard(q, s, o)' = Shard(q, s, o)
<1>1. Position(s)' = Position(s)
  BY DEF Position
<1> QED
  BY <1>1 DEF Shard

LEMMA ContributedSame ==
  ASSUME NEW q, Contributed(q), job' = job, step'[q] = step[q], posted'[q] = posted[q],
         generated'[q] = generated[q]
  PROVE  Contributed(q)'
<1>1. \A s, o : Shard(q, s, o)' = Shard(q, s, o)
  BY ShardSame DEF Tokens
<1>2. ASSUME NEW n \in 1 .. Len(posted[q])
      PROVE  \E s \in 0 .. step[q], o \in 1 .. LmHead :
               n = Base(s) + o /\ posted[q][n] = Shard(q, s, o)'
  <2>1. PICK s \in 0 .. step[q], o \in 1 .. LmHead : n = Base(s) + o /\ posted[q][n] = Shard(q, s, o)
    BY DEF Contributed
  <2> QED
    BY <1>1, <2>1
<1> QED
  BY <1>2 DEF Contributed

LEMMA PostedStep ==
  ASSUME TypeInv, PlaceInv, DataInv, PostedInv, AgreeInv, NEW r \in Ranks, Progress(r) \/ Fail(r)
  PROVE  PostedInv'
<1>0. /\ Place(r) /\ Data(r) /\ Contributed(r) /\ step[r] \in Nat /\ op[r] \in 1 .. LmHead
      /\ posted[r] \in Seq(Parts) /\ job' = job
  BY OthersSame DEF TypeInv, PlaceInv, DataInv, PostedInv
<1>1. ASSUME Load(r) \/ Start(r) \/ Finish(r) \/ Complete(r)
      PROVE  Contributed(r)'
  BY <1>0, <1>1, ContributedSame DEF Load, Start, Finish, Complete, EnterBarrier, PassBarrier,
     forward
<1>2. ASSUME Compute(r)
      PROVE  Contributed(r)'
  <2>1. /\ pc[r] = "compute" /\ step' = step /\ generated' = generated
    BY <1>2, ComputeEffect
  <2>2. CASE posted' = posted
    BY <1>0, <2>1, <2>2, ContributedSame
  <2>3. CASE posted'[r] = Append(posted[r], PartOf(r))
    <3> DEFINE w == posted[r]
               e == PartOf(r)
    <3>1. w \in Seq(Parts) /\ e \in Parts /\ Len(w) \in Nat
      BY <1>0, PartTyped
    <3>2. e = Shard(r, step[r], op[r])
      BY <1>0 DEF Data, PartOf, Shard
    <3>3. Len(w) + 1 = Base(step[r]) + op[r]
      <4>1. Len(w) = Base(step[r]) + op[r] - 1
        BY <1>0, <2>1 DEF Place
      <4>2. Base(step[r]) \in Nat
        BY <1>0, BaseStep
      <4> QED
        BY <1>0, <4>1, <4>2, Sizes
    <3>4. posted'[r] = Append(w, e)
      BY <2>3
    <3>5. \A s, o : Shard(r, s, o)' = Shard(r, s, o)
      BY <1>0, <2>1, ShardSame DEF Tokens
    <3>6. \A n \in 1 .. Len(w) : \E s \in 0 .. step[r], o \in 1 .. LmHead :
            n = Base(s) + o /\ w[n] = Shard(r, s, o)
      BY <1>0 DEF Contributed
    <3> HIDE DEF w, e
    <3>7. /\ Len(Append(w, e)) = Len(w) + 1 /\ Append(w, e)[Len(w) + 1] = e
          /\ \A n \in 1 .. Len(w) : Append(w, e)[n] = w[n]
      BY <3>1
    <3>8. ASSUME NEW n \in 1 .. Len(posted'[r])
          PROVE  \E s \in 0 .. step'[r], o \in 1 .. LmHead :
                   n = Base(s) + o /\ posted'[r][n] = Shard(r, s, o)'
      <4>1. CASE n \in 1 .. Len(w)
        <5>1. PICK s \in 0 .. step[r], o \in 1 .. LmHead : n = Base(s) + o /\ w[n] = Shard(r, s, o)
          BY <3>6, <4>1
        <5>2. posted'[r][n] = Shard(r, s, o)'
          BY <3>4, <3>5, <3>7, <4>1, <5>1
        <5> QED
          BY <2>1, <5>1, <5>2
      <4>2. CASE n = Len(w) + 1
        <5>1. n = Base(step[r]) + op[r] /\ step[r] \in 0 .. step'[r]
          BY <1>0, <2>1, <3>3, <4>2
        <5>2. posted'[r][n] = Shard(r, step[r], op[r])'
          <6>1. posted'[r][n] = Shard(r, step[r], op[r])
            BY <3>2, <3>4, <3>7, <4>2
          <6>2. Shard(r, step[r], op[r])' = Shard(r, step[r], op[r])
            BY <1>0, <1>2, <2>1, ComputeEffect DEF Shard, Tokens, Position
          <6> QED
            BY <6>1, <6>2
        <5>3. op' = op
          BY <1>2, ComputeEffect
        <5> QED
          BY <1>0, <2>1, <5>1, <5>2, <5>3
      <4> QED
        BY <3>1, <3>4, <3>7, <4>1, <4>2
    <3> QED
      BY <3>8 DEF Contributed, Base, LmHead
  <2> QED
    BY <1>2, <2>2, <2>3, ComputeEffect
<1>3. ASSUME Combine(r)
      PROVE  Contributed(r)'
  BY <1>0, <1>3, CombineEffect, ContributedSame
<1>4. ASSUME NEW t \in Vocab, Select(r, t)
      PROVE  Contributed(r)'
  BY <1>0, <1>4, ContributedSame DEF Select, forward
<1>5. ASSUME NEW d \in Peers(0), SendDecision(r, d)
      PROVE  Contributed(r)'
  BY <1>0, <1>5, ContributedSame DEF SendDecision, forward
<1>6. ASSUME Decided(r) \/ RecvDecision(r)
      PROVE  Contributed(r)'
  <2>1. /\ posted' = posted /\ decision \in Decisions /\ decision.step = step[r] /\ Obey(r, decision)
    BY <1>6, ObeyStep DEF Before
  <2>2. \A i \in 1 .. step[r] : generated'[r][i] = generated[r][i]
    BY <1>6, ObeyText
  <2>3. step' = step \/ step'[r] = step[r] + 1
    BY <2>1, ObeyEffect
  <2>4. ASSUME NEW s \in 0 .. step[r], NEW o \in 1 .. LmHead
        PROVE  Shard(r, s, o)' = Shard(r, s, o) /\ s \in 0 .. step'[r]
    <3>1. s = 0 \/ s \in 1 .. step[r]
      BY <1>0
    <3>2. Tokens(r, s)' = Tokens(r, s)
      BY <1>0, <2>2, <3>1 DEF Tokens
    <3>3. s \in 0 .. step'[r]
      BY <1>0, <2>3
    <3> QED
      BY <1>0, <3>2, <3>3, ShardSame
  <2>5. ASSUME NEW n \in 1 .. Len(posted[r])
        PROVE  \E s \in 0 .. step'[r], o \in 1 .. LmHead :
                 n = Base(s) + o /\ posted[r][n] = Shard(r, s, o)'
    <3>1. PICK s \in 0 .. step[r], o \in 1 .. LmHead : n = Base(s) + o /\ posted[r][n] = Shard(r, s, o)
      BY <1>0 DEF Contributed
    <3> QED
      BY <2>4, <3>1
  <2> QED
    BY <2>1, <2>5 DEF Contributed
<1>7. ASSUME Fail(r)
      PROVE  Contributed(r)'
  BY <1>0, <1>7, ContributedSame DEF Fail, forward
<1>8. ASSUME NEW q \in Ranks, q # r
      PROVE  Contributed(q)'
  BY <1>8, OthersSame, ContributedSame DEF Same, PostedInv
<1> QED
  BY <1>1, <1>2, <1>3, <1>4, <1>5, <1>6, <1>7, <1>8 DEF Progress, PostedInv

-----------------------------------------------------------------------------
(* Agreement. *)

LEMMA AgreeInit ==
  ASSUME Init PROVE AgreeInv
<1>1. ~Real /\ told = {} /\ net = {} /\ pc[0] = "load"
  BY Sizes DEF Init, Real
<1>2. \A r \in Ranks : step[r] = 0 /\ stop[r] = "none" /\ generated[r] = <<>>
  BY DEF Init
<1> QED
  BY <1>1, <1>2 DEF AgreeInv, DecisionInv, RootInv, NetInv

(* A rank has obeyed the decision or has not. *)
LEMMA NotBoth ==
  ASSUME TypeInv, NEW r \in Ranks, Before(r)
  PROVE  ~After(r)
<1>1. step[r] \in Nat
  BY DEF TypeInv
<1> QED
  BY <1>1 DEF Before, After

LEMMA AgreeSame ==
  ASSUME TypeInv, AgreeInv, TypeInv',
         job' = job, decision' = decision, told' = told, net' = net,
         step' = step, stop' = stop, generated' = generated,
         \A q \in Ranks : Len(posted'[q]) >= Len(posted[q]),
         pc'[0] = "select" /\ pc[0] # "select" =>
           \A q \in Ranks : Len(posted[q]) >= Base(step[0]) + LmHead,
         pc'[0] = "tell" => pc[0] = "tell",
         pc'[0] \in {"load", "start", "compute", "combine", "select"} =>
           pc[0] \in {"load", "start", "compute", "combine", "select"}
  PROVE  AgreeInv'
<1>1. /\ Real' <=> Real
      /\ \A q \in Ranks : (Before(q)' <=> Before(q)) /\ (After(q)' <=> After(q))
      /\ Chosen' = Chosen /\ Effective(job)' = Effective(job)
  BY DEF Real, Before, After, Chosen, Effective
<1>2. /\ LmHead \in Nat /\ Base(decision.step) \in Nat /\ Base(step[0]) \in Nat
      /\ \A q \in Ranks : Len(posted[q]) \in Nat /\ Len(posted'[q]) \in Nat
  <2>1. /\ decision.step \in Nat /\ step[0] \in Nat
        /\ \A q \in Ranks : Len(posted[q]) \in Nat /\ Len(posted'[q]) \in Nat
    <3>1. decision.step \in Nat
      BY DEF TypeInv, Decisions
    <3>2. step[0] \in Nat
      BY Sizes DEF TypeInv
    <3>3. \A q \in Ranks : Len(posted[q]) \in Nat
      BY DEF TypeInv
    <3>4. \A q \in Ranks : Len(posted'[q]) \in Nat
      BY DEF TypeInv
    <3> QED
      BY <3>1, <3>2, <3>3, <3>4
  <2> QED
    BY <2>1, Sizes, BaseStep
<1>3. \A n \in Nat : \A q \in Ranks : Len(posted[q]) >= n => Len(posted'[q]) >= n
  BY <1>2
<1>4. Base(decision.step) + LmHead \in Nat /\ Base(step[0]) + LmHead \in Nat
  BY <1>2
<1>5. DecisionInv'
  <2>1. CASE ~Real
    BY <1>1, <2>1 DEF AgreeInv, DecisionInv
  <2>2. CASE Real
    <3>1. \A q \in Ranks : Len(posted'[q]) >= Base(decision.step) + LmHead
      BY <1>3, <1>4, <2>2 DEF AgreeInv, DecisionInv
    <3>2. /\ decision.step < Effective(job)
          /\ decision.reason = IF decision.token = Eos THEN "Eos"
                               ELSE IF decision.step + 1 # Effective(job) THEN "none"
                               ELSE IF Effective(job) < job.requested THEN "ContextLimit"
                               ELSE "MaxNewTokens"
      BY <2>2 DEF AgreeInv, DecisionInv
    <3>3. /\ \A q \in Ranks : Before(q) \/ After(q)
          /\ \A q \in Peers(0) : After(q) => q \in told
          /\ After(0) => told = Peers(0)
          /\ \A p, q \in Ranks :
               /\ Before(p) /\ Before(q) => generated[p] = generated[q]
               /\ Before(p) /\ After(q) => generated[q] = generated[p] \o Chosen
               /\ After(p) /\ After(q) => generated[p] = generated[q]
      BY <2>2 DEF AgreeInv, DecisionInv
    <3>4. 0 \in Ranks /\ \A q \in Peers(0) : q \in Ranks
      BY Sizes DEF Peers
    <3>5. /\ \A q \in Ranks : Before(q)' \/ After(q)'
          /\ \A q \in Peers(0) : After(q)' => q \in told'
          /\ After(0)' => told' = Peers(0)
          /\ \A p, q \in Ranks :
               /\ Before(p)' /\ Before(q)' => generated'[p] = generated'[q]
               /\ Before(p)' /\ After(q)' => generated'[q] = generated'[p] \o Chosen'
               /\ After(p)' /\ After(q)' => generated'[p] = generated'[q]
      BY <1>1, <3>3, <3>4
    <3> QED
      BY <1>1, <2>2, <3>1, <3>2, <3>5 DEF DecisionInv
  <2> QED
    BY <2>1, <2>2
<1>6. RootInv'
  <2>1. pc'[0] = "select" => \A q \in Ranks : Len(posted'[q]) >= Base(step[0]) + LmHead
    BY <1>3, <1>4 DEF AgreeInv, RootInv
  <2>2. 0 \in Ranks
    BY Sizes
  <2> QED
    BY <1>1, <2>1, <2>2 DEF AgreeInv, RootInv
<1>7. NetInv'
  <2>1. \A m \in net : m.to \in Ranks
    BY DEF TypeInv, Peers
  <2> QED
    BY <1>1, <2>1 DEF AgreeInv, NetInv
<1> QED
  BY <1>5, <1>6, <1>7 DEF AgreeInv

(* When rank 0 selects, every rank has obeyed the decisions before. *)
LEMMA SelectSync ==
  ASSUME TypeInv, PlaceInv, AgreeInv, pc[0] = "select"
  PROVE  /\ net = {} /\ step[0] < Effective(job)
         /\ \A q \in Ranks : /\ step[q] = step[0] /\ stop[q] = "none" /\ generated[q] = generated[0]
                             /\ Len(posted[q]) >= Base(step[0]) + LmHead
<1>1. 0 \in Ranks /\ Effective(job) \in Nat \ {0} /\ LmHead \in Nat
  BY Sizes, JobFacts DEF TypeInv
<1>2. \A q \in Ranks : Len(posted[q]) >= Base(step[0]) + LmHead
  BY DEF AgreeInv, RootInv
<1>3. stop[0] = "none"
  BY <1>1 DEF PlaceInv, Place, Early
<1>4. CASE ~Real
  BY <1>1, <1>2, <1>4 DEF AgreeInv, DecisionInv
<1>5. CASE Real
  <2>1. After(0) /\ decision.reason = "none" /\ step[0] = decision.step + 1 /\ decision.step \in Nat
    <3>1. After(0) /\ decision.step \in Nat /\ decision.reason \in StopReasons \union {"none"}
      BY <1>5 DEF AgreeInv, RootInv, TypeInv, Decisions
    <3> QED
      BY <1>3, <3>1 DEF After
  <2>2. ASSUME NEW q \in Ranks
        PROVE  After(q) /\ ~Before(q)
    <3>1. SUFFICES ASSUME Before(q)
                   PROVE  FALSE
      BY <1>5 DEF AgreeInv, DecisionInv
    <3>2. /\ Base(decision.step) \in Nat /\ Base(step[0]) = Base(decision.step) + LmHead
      BY <2>1, BaseStep
    <3>3. step[q] = decision.step
      BY <3>1 DEF Before
    <3>4. Len(posted[q]) <= Base(decision.step) + op[q] /\ op[q] \in 1 .. LmHead /\ Len(posted[q]) \in Nat
      <4>1. Place(q)
        BY DEF PlaceInv
      <4>2. op[q] \in 1 .. LmHead /\ posted[q] \in Seq(Parts)
        BY DEF TypeInv
      <4>3. Len(posted[q]) \in Nat
        BY <4>2
      <4>4. Len(posted[q]) <= Base(step[q]) + op[q]
        BY <4>1 DEF Place
      <4> QED
        BY <3>3, <4>2, <4>3, <4>4
    <3>5. Len(posted[q]) >= Base(step[0]) + LmHead
      BY <1>2
    <3>6. LmHead > 0
      BY Sizes
    <3> QED
      BY <1>1, <3>2, <3>4, <3>5, <3>6
  <2>3. \A q \in Ranks : step[q] = step[0] /\ stop[q] = "none" /\ generated[q] = generated[0]
    BY <1>1, <1>5, <2>1, <2>2 DEF AgreeInv, DecisionInv, After
  <2>4. net = {}
    <3>1. \A m \in net : m.to \in Ranks /\ Before(m.to)
      BY DEF AgreeInv, NetInv, TypeInv, Peers
    <3> QED
      BY <2>2, <3>1
  <2>5. step[0] < Effective(job)
    <3>1. decision.step < Effective(job) /\ decision.step + 1 # Effective(job)
      BY <1>5, <2>1 DEF AgreeInv, DecisionInv
    <3> QED
      BY <1>1, <2>1, <3>1
  <2> QED
    BY <1>2, <2>3, <2>4, <2>5
<1> QED
  BY <1>4, <1>5

LEMMA AgreeStep ==
  ASSUME TypeInv, PlaceInv, DataInv, AgreeInv, TypeInv', NEW r \in Ranks, Progress(r) \/ Fail(r)
  PROVE  AgreeInv'
<1>0. /\ job' = job /\ 0 \in Ranks /\ LmHead \in Nat
      /\ \A q \in Ranks : step[q] \in Nat /\ Len(posted[q]) \in Nat
  <2>1. job' = job
    BY OthersSame
  <2>2. 0 \in Ranks /\ LmHead \in Nat
    BY Sizes
  <2>3. \A q \in Ranks : step[q] \in Nat /\ Len(posted[q]) \in Nat
    BY DEF TypeInv
  <2> QED
    BY <2>1, <2>2, <2>3
<1>1. ASSUME Load(r) \/ Start(r) \/ Finish(r) \/ Complete(r) \/ Fail(r)
      PROVE  AgreeInv'
  <2>1. /\ decision' = decision /\ told' = told /\ net' = net /\ step' = step /\ stop' = stop
        /\ generated' = generated /\ posted' = posted
    BY <1>1 DEF Load, Start, Finish, Complete, Fail, EnterBarrier, PassBarrier, forward
  <2>2. /\ pc'[0] \notin {"select", "tell"} \/ pc'[0] = pc[0]
        /\ pc'[0] \in {"load", "start", "compute", "combine", "select"} =>
           pc[0] \in {"load", "start", "compute", "combine", "select"}
    <3>1. CASE r = 0
      <4>1. pc'[r] \in {"start", "compute", "complete", "done", "failed"} /\
            (pc'[r] \in {"start", "compute"} => pc[r] \in {"load", "start"})
        BY <1>1 DEF Load, Start, Finish, Complete, Fail, EnterBarrier, PassBarrier, Goto, TypeInv
      <4> QED
        BY <3>1, <4>1
    <3>2. CASE r # 0
      <4>1. pc'[0] = pc[0]
        BY <1>0, <3>2, OthersSame DEF Same
      <4> QED
        BY <4>1
    <3> QED
      BY <3>1, <3>2
  <2>3. \A q \in Ranks : Len(posted'[q]) >= Len(posted[q])
    BY <1>0, <2>1
  <2> QED
    BY <1>0, <2>1, <2>2, <2>3, AgreeSame
<1>2. ASSUME Compute(r)
      PROVE  AgreeInv'
  <2>1. /\ decision' = decision /\ told' = told /\ net' = net /\ step' = step /\ stop' = stop
        /\ generated' = generated /\ pc[r] = "compute" /\ pc'[r] \in {"failed", "combine"}
        /\ posted'[r] = posted[r] \/ Len(posted'[r]) = Len(posted[r]) + 1
    BY <1>2, ComputeEffect
  <2>2. \A q \in Ranks : Len(posted'[q]) >= Len(posted[q])
    <3>1. ASSUME NEW q \in Ranks, q # r
          PROVE  posted'[q] = posted[q]
      BY <3>1, OthersSame DEF Same
    <3> QED
      BY <1>0, <2>1, <3>1
  <2>3. 0 # r => pc'[0] = pc[0]
    BY <1>0, OthersSame DEF Same
  <2> QED
    BY <1>0, <2>1, <2>2, <2>3, AgreeSame
<1>3. ASSUME Combine(r)
      PROVE  AgreeInv'
  <2>1. /\ decision' = decision /\ told' = told /\ net' = net /\ step' = step /\ stop' = stop
        /\ generated' = generated /\ posted' = posted /\ pc[r] = "combine"
        /\ \A q \in Ranks : Len(posted[q]) >= Len(posted[r])
        /\ \/ op[r] = LmHead /\ pc'[r] = IF r = 0 THEN "select" ELSE "decision"
           \/ pc'[r] = "compute"
    BY <1>3, CombineEffect
  <2>2. 0 # r => pc'[0] = pc[0]
    BY <1>0, OthersSame DEF Same
  <2>3. r = 0 /\ op[r] = LmHead => \A q \in Ranks : Len(posted[q]) >= Base(step[0]) + LmHead
    BY <2>1 DEF PlaceInv, Place
  <2>4. \A q \in Ranks : Len(posted'[q]) >= Len(posted[q])
    BY <1>0, <2>1
  <2> QED
    BY <1>0, <2>1, <2>2, <2>3, <2>4, AgreeSame
<1>4. ASSUME NEW t \in Vocab, Select(r, t)
      PROVE  AgreeInv'
  <2>1. /\ pc[0] = "select" /\ pc'[0] = "tell" /\ told' = {} /\ step' = step /\ generated' = generated
        /\ stop' = stop /\ net' = net /\ posted' = posted
        /\ decision' = [step |-> step[0], token |-> t, reason |-> Decide(t)]
    BY <1>4 DEF Select, Goto, forward, TypeInv
  <2>2. /\ net = {} /\ step[0] < Effective(job)
        /\ \A q \in Ranks : /\ step[q] = step[0] /\ stop[q] = "none" /\ generated[q] = generated[0]
                            /\ Len(posted[q]) >= Base(step[0]) + LmHead
    BY <2>1, SelectSync
  <2>3. decision'.step = step[0] /\ decision'.token = t /\ decision'.reason = Decide(t)
    BY <2>1
  <2>4. Real'
    BY <2>3 DEF Real, Decide
  <2>5. ASSUME NEW q \in Ranks
        PROVE  Before(q)' /\ ~After(q)'
    <3>1. Before(q)'
      BY <2>1, <2>2, <2>3 DEF Before
    <3>2. step'[q] # decision'.step + 1
      BY <1>0, <2>1, <2>2, <2>3
    <3> QED
      BY <2>1, <2>2, <3>1, <3>2 DEF After
  <2>6. decision'.reason = IF decision'.token = Eos THEN "Eos"
                           ELSE IF decision'.step + 1 # Effective(job) THEN "none"
                           ELSE IF Effective(job) < job.requested THEN "ContextLimit"
                           ELSE "MaxNewTokens"
    BY <2>3 DEF Decide
  <2>7. DecisionInv'
    <3>1. Effective(job)' = Effective(job)
      BY <1>0 DEF Effective
    <3>2. decision'.step < Effective(job)' /\ \A q \in Ranks : Len(posted'[q]) >= Base(decision'.step) + LmHead
      BY <2>1, <2>2, <2>3, <3>1
    <3>3. \A q \in Ranks : q \in Peers(0) => q \in Ranks
      OBVIOUS
    <3>4. \A q \in Ranks : generated'[q] = generated'[0]
      BY <2>1, <2>2
    <3>5. \A q \in Peers(0) : q \in Ranks
      BY DEF Peers
    <3>6. /\ \A q \in Ranks : Before(q)' \/ After(q)'
          /\ \A q \in Peers(0) : After(q)' => q \in told'
          /\ After(0)' => told' = Peers(0)
      BY <1>0, <2>5, <3>5
    <3>7. \A p, q \in Ranks :
            /\ Before(p)' /\ Before(q)' => generated'[p] = generated'[q]
            /\ Before(p)' /\ After(q)' => generated'[q] = generated'[p] \o Chosen'
            /\ After(p)' /\ After(q)' => generated'[p] = generated'[q]
      BY <2>5, <3>4
    <3> QED
      BY <1>0, <2>4, <2>6, <3>1, <3>2, <3>6, <3>7 DEF DecisionInv
  <2>8. RootInv' /\ NetInv'
    BY <1>0, <2>1, <2>2, <2>4, <2>5 DEF RootInv, NetInv
  <2> QED
    BY <2>7, <2>8 DEF AgreeInv
<1>5. ASSUME NEW d \in Peers(0), SendDecision(r, d)
      PROVE  AgreeInv'
  <2>1. /\ pc[0] = "tell" /\ d \notin told /\ told' = told \union {d} /\ step' = step /\ generated' = generated
        /\ net' = net \union {[to |-> d, tag |-> step[0], body |-> decision]}
        /\ stop' = stop /\ posted' = posted /\ decision' = decision /\ pc' = pc
    BY <1>5 DEF SendDecision, forward
  <2>2. Real /\ Before(0) /\ ~After(0) /\ step[0] = decision.step
    BY <1>0, <2>1, NotBoth DEF AgreeInv, RootInv, Before
  <2>3. d \in Ranks /\ Before(d)
    BY <2>1, <2>2 DEF AgreeInv, DecisionInv, Peers
  <2>4. /\ Real'
        /\ \A q \in Ranks : (Before(q)' <=> Before(q)) /\ (After(q)' <=> After(q))
        /\ Chosen' = Chosen /\ Effective(job)' = Effective(job)
    BY <1>0, <2>1, <2>2 DEF Real, Before, After, Chosen, Effective
  <2>5. \A q \in Peers(0) : q \in Ranks
    BY DEF Peers
  <2>6. DecisionInv'
    <3>1. (\A q \in Peers(0) : After(q)' => q \in told') /\ ~After(0)'
      BY <1>0, <2>1, <2>2, <2>4, <2>5 DEF AgreeInv, DecisionInv
    <3> QED
      BY <1>0, <2>1, <2>2, <2>4, <3>1 DEF AgreeInv, DecisionInv
  <2>7. RootInv'
    BY <1>0, <2>1, <2>2, <2>4 DEF AgreeInv, RootInv
  <2>8. NetInv'
    <3>1. ASSUME NEW m \in net
          PROVE  m.tag = decision.step /\ m.body = decision /\ m.to \in told /\ Before(m.to)'
      <4>1. m.to \in Ranks /\ m.tag = decision.step /\ m.body = decision /\ m.to \in told /\ Before(m.to)
        BY <2>5 DEF AgreeInv, NetInv, TypeInv
      <4> QED
        BY <2>4, <4>1
    <3>2. ASSUME NEW m, m = [to |-> d, tag |-> step[0], body |-> decision]
          PROVE  m.tag = decision.step /\ m.body = decision /\ m.to = d
      BY <2>2, <3>2
    <3>3. Before(d)'
      BY <2>3, <2>4
    <3> QED
      BY <2>1, <3>1, <3>2, <3>3 DEF NetInv
  <2> QED
    BY <2>6, <2>7, <2>8 DEF AgreeInv
<1>6. ASSUME Decided(r) \/ RecvDecision(r)
      PROVE  AgreeInv'
  <2>1. /\ Obey(r, decision) /\ decision \in Decisions /\ Before(r) /\ Real
        /\ decision' = decision /\ told' = told /\ posted' = posted
        /\ pc[r] \in {"tell", "decision"}
        /\ r = 0 => told = Peers(0) /\ pc[r] = "tell"
        /\ r # 0 => r \in told
        /\ net' \subseteq net /\ \A m \in net' : m.to # r
    BY <1>6, ObeyStep
  <2>2. generated'[r] = generated[r] \o Chosen
    BY <1>6, ObeyText
  <2>3. /\ decision.step = step[r] /\ stop[r] = "none"
        /\ \/ decision.reason # "none" /\ stop'[r] = decision.reason /\ pc'[r] = "finish" /\ step' = step
           \/ decision.reason = "none" /\ stop' = stop /\ pc'[r] = "compute" /\ step'[r] = step[r] + 1
    <3>1. decision.step = step[r] /\ stop[r] = "none"
      BY <2>1 DEF Before
    <3> QED
      BY <2>1, <3>1, ObeyEffect
  <2>4. After(r)' /\ ~Before(r)'
    BY <1>0, <2>1, <2>3 DEF After, Before
  <2>5. ASSUME NEW q \in Ranks, q # r
        PROVE  /\ (Before(q)' <=> Before(q)) /\ (After(q)' <=> After(q))
               /\ generated'[q] = generated[q] /\ pc'[q] = pc[q] /\ step'[q] = step[q]
    BY <2>1, <2>5, OthersSame DEF Same, Before, After
  <2>6. Real' /\ Chosen' = Chosen /\ Effective(job)' = Effective(job)
    BY <1>0, <2>1 DEF Real, Chosen, Effective
  <2>7. DecisionInv'
    <3>1. /\ \A q \in Ranks : Before(q)' \/ After(q)'
          /\ \A q \in Peers(0) : After(q)' => q \in told'
          /\ After(0)' => told' = Peers(0)
      <4>1. \A q \in Ranks : Before(q)' \/ After(q)'
        BY <2>1, <2>4, <2>5 DEF AgreeInv, DecisionInv
      <4>2. \A q \in Peers(0) : After(q)' => q \in told'
        BY <2>1, <2>5 DEF AgreeInv, DecisionInv, Peers
      <4>3. After(0)' => told' = Peers(0)
        BY <1>0, <2>1, <2>5 DEF AgreeInv, DecisionInv
      <4> QED
        BY <4>1, <4>2, <4>3
    <3>2. ASSUME NEW p \in Ranks, NEW q \in Ranks
          PROVE  /\ Before(p)' /\ Before(q)' => generated'[p] = generated'[q]
                 /\ Before(p)' /\ After(q)' => generated'[q] = generated'[p] \o Chosen
                 /\ After(p)' /\ After(q)' => generated'[p] = generated'[q]
      <4>1. \A x, y \in Ranks :
               /\ Before(x) /\ Before(y) => generated[x] = generated[y]
               /\ Before(x) /\ After(y) => generated[y] = generated[x] \o Chosen
               /\ After(x) /\ After(y) => generated[x] = generated[y]
        BY <2>1 DEF AgreeInv, DecisionInv
      <4>2. CASE p = r /\ q = r
        BY <2>4, <4>2
      <4>3. CASE p = r /\ q # r
        BY <2>1, <2>2, <2>4, <2>5, <4>1, <4>3
      <4>4. CASE p # r /\ q = r
        BY <2>1, <2>2, <2>4, <2>5, <4>1, <4>4
      <4>5. CASE p # r /\ q # r
        BY <2>5, <4>1, <4>5
      <4> QED
        BY <4>2, <4>3, <4>4, <4>5
    <3> QED
      BY <1>0, <2>1, <2>6, <3>1, <3>2 DEF AgreeInv, DecisionInv
  <2>8. RootInv'
    <3>1. CASE r = 0
      BY <2>3, <2>4, <3>1 DEF RootInv
    <3>2. CASE r # 0
      BY <1>0, <2>1, <2>5, <2>6, <3>2 DEF AgreeInv, RootInv
    <3> QED
      BY <3>1, <3>2
  <2>9. NetInv'
    <3>1. ASSUME NEW m \in net'
          PROVE  m.tag = decision.step /\ m.body = decision /\ m.to \in told /\ Before(m.to)'
      <4>1. m.to \in Ranks /\ m.to # r /\ m.tag = decision.step /\ m.body = decision /\ m.to \in told /\ Before(m.to)
        BY <2>1 DEF AgreeInv, NetInv, TypeInv, Peers
      <4> QED
        BY <2>5, <4>1
    <3> QED
      BY <2>1, <3>1 DEF NetInv
  <2> QED
    BY <2>7, <2>8, <2>9 DEF AgreeInv
<1> QED
  BY <1>1, <1>2, <1>3, <1>4, <1>5, <1>6 DEF Progress

-----------------------------------------------------------------------------
(* Barriers. *)

LEMMA BarrierInit ==
  ASSUME Init PROVE BarrierInv
BY DEF Init, BarrierInv, Gate

LEMMA StopStays ==
  ASSUME TypeInv, AgreeInv, NEW r \in Ranks, Progress(r) \/ Fail(r), NEW q \in Ranks, stop[q] # "none"
  PROVE  stop'[q] = stop[q]
<1>1. CASE q # r
  BY <1>1, OthersSame DEF Same
<1>2. CASE q = r
  <2>1. ~(Decided(r) \/ RecvDecision(r))
    BY <1>2, ObeyStep DEF Before
  <2>2. stop' = stop
    BY <2>1 DEF Progress, Load, Start, Finish, Complete, Fail, EnterBarrier, PassBarrier,
       Compute, Combine,
       Select, SendDecision
  <2> QED
    BY <2>2
<1> QED
  BY <1>1, <1>2

LEMMA BarrierStep ==
  ASSUME TypeInv, PlaceInv, AgreeInv, BarrierInv, NEW r \in Ranks, Progress(r) \/ Fail(r)
  PROVE  BarrierInv'
<1>0. Gate(r) /\ Place(r) /\ passed[r] \in Nat /\ 0 \in Ranks
  BY Sizes DEF TypeInv, PlaceInv, BarrierInv
<1>1. ASSUME Load(r)
      PROVE  Gate(r)' /\ pc'[r] # "done"
  BY <1>0, <1>1 DEF Load, EnterBarrier, Goto, TypeInv, Gate
<1>2. ASSUME Start(r)
      PROVE  Gate(r)' /\ pc'[r] # "done"
  BY <1>0, <1>2 DEF Start, PassBarrier, Gathered, Goto, TypeInv, Gate
<1>3. ASSUME Finish(r)
      PROVE  Gate(r)' /\ pc'[r] # "done"
  <2>1. pc[r] = "finish" /\ passed' = passed /\ stop' = stop /\ pc'[r] = "complete"
    BY <1>3 DEF Finish, EnterBarrier, Goto, TypeInv
  <2>2. passed[r] = 1 /\ stop[r] # "none"
    BY <1>0, <2>1 DEF Gate, Place
  <2> QED
    BY <1>0, <2>1, <2>2 DEF Gate
<1>4. ASSUME Complete(r)
      PROVE  Gate(r)' /\ \A q \in Ranks : stop[q] # "none"
  <2>1. /\ pc[r] = "complete" /\ stop' = stop /\ pc'[r] = "done" /\ passed'[r] = passed[r] + 1
        /\ \A q \in Peers(r) : passed[q] > passed[r] \/ (passed[q] = passed[r] /\ entered[q] = TRUE)
    BY <1>4 DEF Complete, PassBarrier, Gathered, Goto, TypeInv, Peers
  <2>2. passed[r] = 1 /\ stop[r] # "none"
    BY <1>0, <2>1 DEF Gate, Place
  <2>3. ASSUME NEW q \in Ranks, q # r
        PROVE  stop[q] # "none"
    BY <2>1, <2>2, <2>3 DEF BarrierInv, Gate, Peers
  <2> QED
    BY <1>0, <2>1, <2>2, <2>3 DEF Gate
<1>5. ASSUME Compute(r)
      PROVE  Gate(r)' /\ pc'[r] # "done"
  <2>1. /\ pc[r] = "compute" /\ pc'[r] \in {"failed", "combine"} /\ stop' = stop /\ passed' = passed
        /\ entered' = entered
    BY <1>5, ComputeEffect
  <2> QED
    BY <1>0, <2>1 DEF Gate
<1>6. ASSUME Combine(r)
      PROVE  Gate(r)' /\ pc'[r] # "done"
  <2>1. /\ pc[r] = "combine" /\ pc'[r] \in {"compute", "select", "decision"} /\ stop' = stop /\ passed' = passed
        /\ entered' = entered
    BY <1>6, CombineEffect
  <2> QED
    BY <1>0, <2>1 DEF Gate
<1>7. ASSUME NEW t \in Vocab, Select(r, t)
      PROVE  Gate(r)' /\ pc'[r] # "done"
  <2>1. /\ pc[r] = "select" /\ pc'[r] = "tell" /\ stop' = stop /\ passed' = passed
        /\ entered' = entered
    BY <1>7 DEF Select, Goto, TypeInv, barrier
  <2> QED
    BY <1>0, <2>1 DEF Gate
<1>8. ASSUME NEW d \in Peers(0), SendDecision(r, d)
      PROVE  Gate(r)' /\ pc'[r] # "done"
  <2>1. pc[r] = "tell" /\ pc' = pc /\ stop' = stop /\ passed' = passed /\ entered' = entered
    BY <1>8 DEF SendDecision, barrier
  <2> QED
    BY <1>0, <2>1 DEF Gate
<1>9. ASSUME Decided(r) \/ RecvDecision(r)
      PROVE  Gate(r)' /\ pc'[r] # "done"
  <2>1. /\ Obey(r, decision) /\ decision \in Decisions /\ decision.step = step[r]
        /\ passed' = passed /\ entered' = entered
        /\ pc[r] \in {"tell", "decision"}
    BY <1>9, ObeyStep DEF Before
  <2>2. pc'[r] \in {"finish", "compute"}
    BY <2>1, ObeyEffect
  <2> QED
    BY <1>0, <2>1, <2>2 DEF Gate
<1>10. ASSUME Fail(r)
       PROVE  Gate(r)' /\ pc'[r] # "done"
  <2>1. pc'[r] = "failed" /\ stop' = stop /\ passed' = passed /\ entered' = entered
    BY <1>10 DEF Fail, Goto, TypeInv, barrier
  <2> QED
    BY <1>0, <2>1 DEF Gate
<1>11. ASSUME NEW q \in Ranks, q # r
       PROVE  Gate(q)' /\ pc'[q] = pc[q]
  BY <1>11, OthersSame DEF Same, BarrierInv, Gate
<1>12. Gate(r)' /\ (pc'[r] = "done" => \A q \in Ranks : stop[q] # "none")
  BY <1>1, <1>2, <1>3, <1>4, <1>5, <1>6, <1>7, <1>8, <1>9, <1>10 DEF Progress
<1>13. ASSUME NEW p \in Ranks, pc'[p] = "done", NEW q \in Ranks
       PROVE  stop'[q] # "none"
  <2>1. stop[q] # "none"
    BY <1>11, <1>12, <1>13 DEF BarrierInv
  <2> QED
    BY <2>1, StopStays
<1> QED
  BY <1>11, <1>12, <1>13 DEF BarrierInv

-----------------------------------------------------------------------------
(* The invariant. *)

LEMMA AlwaysIInv == Spec => []IInv
<1>1. ASSUME Init
      PROVE  IInv
  BY <1>1, TypeInit, PlaceInit, DataInit, PostedInit, AgreeInit, BarrierInit DEF IInv
<1>2. ASSUME IInv, [Next]_vars
      PROVE  IInv'
  <2>1. TypeInv'
    BY <1>2, TypeStep DEF IInv
  <2>2. CASE \E r \in Ranks : Progress(r) \/ Fail(r)
    BY <1>2, <2>1, <2>2, PlaceStep, DataStep, PostedStep, AgreeStep, BarrierStep DEF IInv
  <2>3. CASE UNCHANGED vars
    <3>1. /\ job' = job /\ pc' = pc /\ op' = op /\ step' = step /\ input' = input /\ position' = position
          /\ cache' = cache /\ posted' = posted /\ generated' = generated /\ stop' = stop
          /\ decision' = decision /\ told' = told /\ net' = net /\ passed' = passed /\ entered' = entered
      BY <2>3 DEF vars, forward, barrier
    <3>2. PlaceInv'
      BY <1>2, <3>1 DEF IInv, PlaceInv, Place
    <3>3. DataInv' /\ PostedInv'
      BY <1>2, <3>1, DataSame, ContributedSame DEF IInv, DataInv, PostedInv
    <3>4. AgreeInv'
      <4>1. \A q \in Ranks : Len(posted'[q]) >= Len(posted[q])
        BY <1>2, <3>1 DEF IInv, TypeInv
      <4> QED
        BY <1>2, <2>1, <3>1, <4>1, AgreeSame DEF IInv
    <3>5. BarrierInv'
      BY <1>2, <3>1 DEF IInv, BarrierInv, Gate
    <3> QED
      BY <2>1, <3>2, <3>3, <3>4, <3>5 DEF IInv
  <2> QED
    BY <1>2, <2>2, <2>3 DEF Next, AnyProgress, TimeOut, Crash
<1> QED
  BY <1>1, <1>2, PTL DEF Spec

-----------------------------------------------------------------------------
(* Shards of the vocabulary. *)

LEMMA Multiples ==
  ASSUME NEW a \in Nat, NEW b \in Nat, NEW k \in Nat, a < b
  PROVE  (a + 1) * k <= b * k /\ a * k \in Nat /\ b * k \in Nat /\ (a + 1) * k = a * k + k
<1>1. PICK d \in Nat : b = a + 1 + d
  <2>1. b - (a + 1) \in Nat /\ b = a + 1 + (b - (a + 1))
    OBVIOUS
  <2> QED
    BY <2>1
<1>2. /\ b * k = (a + 1) * k + d * k /\ d * k \in Nat /\ (a + 1) * k \in Nat /\ (a + 1) * k = a * k + k
      /\ a * k \in Nat
  BY <1>1
<1> QED
  BY <1>2

(* No token is in the shards of two ranks. *)
LEMMA OwnedOnce ==
  ASSUME NEW r \in Ranks, NEW q \in Ranks, NEW token \in Nat, Owns(r, token), Owns(q, token)
  PROVE  r = q
<1> DEFINE k == VocabSize \div WorldSize
<1>1. k \in Nat /\ r \in Nat /\ q \in Nat
  BY WorldSizeAssumption, TensorParallelAssumption DEF Ranks
<1>2. r * k <= token /\ token < (r + 1) * k /\ q * k <= token /\ token < (q + 1) * k
  BY DEF Owns
<1> HIDE DEF k
<1>3. ~(r < q)
  <2> SUFFICES ASSUME r < q
               PROVE  FALSE
    OBVIOUS
  <2>1. (r + 1) * k <= q * k /\ q * k \in Nat /\ (r + 1) * k = r * k + k /\ r * k \in Nat
    BY <1>1, Multiples
  <2> QED
    BY <1>1, <1>2, <2>1
<1>4. ~(q < r)
  <2> SUFFICES ASSUME q < r
               PROVE  FALSE
    OBVIOUS
  <2>1. (q + 1) * k <= r * k /\ r * k \in Nat /\ (q + 1) * k = q * k + k /\ q * k \in Nat
    BY <1>1, Multiples
  <2> QED
    BY <1>1, <1>2, <2>1
<1> QED
  BY <1>1, <1>3, <1>4

(* Every token is in the shard of a rank. *)
LEMMA OwnedBySome ==
  ASSUME NEW token \in Vocab
  PROVE  \E r \in Ranks : Owns(r, token)
<1> DEFINE k == VocabSize \div WorldSize
           r == token \div k
<1>1. VocabSize \in Nat /\ WorldSize \in Nat \ {0} /\ VocabSize % WorldSize = 0 /\ token \in Nat /\ token < VocabSize
  BY WorldSizeAssumption, TensorParallelAssumption DEF Vocab
<1>2. k \in Nat /\ VocabSize = WorldSize * k
  BY <1>1
<1>3. k # 0
  BY <1>1, <1>2
<1> HIDE DEF k
<1>4. r \in Nat /\ k * r <= token /\ token < k * r + k
  <2>1. \A n, m \in Int : m > 0 => m * (n \div m) <= n
    OBVIOUS
  <2>2. \A n, m \in Int : m > 0 => n < m * (n \div m) + m
    OBVIOUS
  <2>3. \A n, m \in Nat : m > 0 => n \div m \in Nat
    OBVIOUS
  <2>4. token \in Nat /\ token \in Int /\ k \in Nat /\ k \in Int /\ k > 0
    BY <1>1, <1>2, <1>3
  <2> QED
    BY <2>1, <2>2, <2>3, <2>4
<1> HIDE DEF r
<1>5. k * r = r * k /\ r * k \in Nat /\ (r + 1) * k = r * k + k /\ WorldSize * k \in Nat
  BY <1>1, <1>2, <1>4
<1>6. r * k <= token /\ token < (r + 1) * k
  BY <1>4, <1>5
<1>7. r < WorldSize
  <2> SUFFICES ASSUME ~(r < WorldSize)
               PROVE  FALSE
    OBVIOUS
  <2>1. CASE r = WorldSize
    BY <1>1, <1>2, <1>5, <1>6, <2>1
  <2>2. CASE WorldSize < r
    <3>1. (WorldSize + 1) * k <= r * k /\ (WorldSize + 1) * k = WorldSize * k + k
      BY <1>1, <1>2, <1>4, <2>2, Multiples
    <3> QED
      BY <1>1, <1>2, <1>5, <1>6, <3>1
  <2> QED
    BY <1>1, <1>4, <2>1, <2>2
<1>8. r \in Ranks
  BY <1>1, <1>4, <1>7 DEF Ranks
<1>9. Owns(r, token)
  BY <1>6 DEF Owns, k
<1> QED
  BY <1>8, <1>9

-----------------------------------------------------------------------------
(* Theorems. *)

(* Two ranks have the same tokens as far as both have gone. *)
LEMMA SharedTokens ==
  ASSUME IInv, NEW r \in Ranks, NEW q \in Ranks, NEW s \in 0 .. step[r], s \in 0 .. step[q]
  PROVE  Tokens(r, s) = Tokens(q, s)
<1>1. CASE s = 0
  BY <1>1 DEF Tokens
<1>2. CASE s # 0
  <2>1. /\ step[r] \in Nat /\ step[q] \in Nat /\ step[r] <= Len(generated[r]) /\ step[q] <= Len(generated[q])
        /\ generated[r] \in Seq(Vocab \ {Eos}) /\ generated[q] \in Seq(Vocab \ {Eos}) /\ decision \in Decisions
    BY DEF IInv, TypeInv, DataInv, Data
  <2>2. Real
    BY <1>2, <2>1 DEF IInv, AgreeInv, DecisionInv
  <2>3. generated[r] = generated[q] \/ generated[r] = generated[q] \o Chosen \/ generated[q] = generated[r] \o Chosen
    <3>1. (Before(r) \/ After(r)) /\ (Before(q) \/ After(q))
      BY <2>2 DEF IInv, AgreeInv, DecisionInv
    <3> QED
      BY <2>2, <3>1 DEF IInv, AgreeInv, DecisionInv
  <2>4. Chosen \in Seq(Vocab)
    BY <2>1 DEF Chosen, Decisions
  <2>5. \A g, h \in Seq(Vocab) : \A i \in 1 .. Len(g) : (g \o h)[i] = g[i]
    OBVIOUS
  <2>6. s \in 1 .. Len(generated[r]) /\ s \in 1 .. Len(generated[q])
    BY <1>2, <2>1
  <2>7. generated[r] \in Seq(Vocab) /\ generated[q] \in Seq(Vocab)
    BY <2>1
  <2>8. generated[r][s] = generated[q][s]
    BY <2>3, <2>4, <2>5, <2>6, <2>7
  <2> QED
    BY <1>2, <2>8 DEF Tokens
<1> QED
  BY <1>1, <1>2

LEMMA TokensTyped ==
  ASSUME IInv, NEW r \in Ranks, NEW s \in 0 .. step[r]
  PROVE  Tokens(r, s) \in Seq(Vocab)
<1>1. CASE s = 0
  BY <1>1, JobFacts DEF Tokens, IInv, TypeInv
<1>2. CASE s # 0
  <2>1. generated[r] \in Seq(Vocab \ {Eos}) /\ s \in 1 .. Len(generated[r])
    BY <1>2 DEF IInv, TypeInv, DataInv, Data
  <2>2. generated[r][s] \in Vocab
    BY <2>1
  <2> QED
    BY <1>2, <2>2 DEF Tokens
<1> QED
  BY <1>1, <1>2

(* Contribution n of a rank is the shard that its number says. *)
LEMMA SameCollective ==
  ASSUME IInv, NEW r \in Ranks, NEW q \in Ranks, NEW n \in DOMAIN posted[r], n \in DOMAIN posted[q]
  PROVE  \E s \in 0 .. step[r], o \in 1 .. LmHead :
           /\ s \in 0 .. step[q]
           /\ posted[r][n] = Shard(r, s, o) /\ posted[q][n] = Shard(q, s, o)
<1>1. /\ n \in 1 .. Len(posted[r]) /\ n \in 1 .. Len(posted[q])
      /\ step[r] \in Nat /\ step[q] \in Nat
  BY DEF IInv, TypeInv
<1>2. PICK s \in 0 .. step[r], o \in 1 .. LmHead : n = Base(s) + o /\ posted[r][n] = Shard(r, s, o)
  BY <1>1 DEF IInv, PostedInv, Contributed
<1>3. PICK t \in 0 .. step[q], p \in 1 .. LmHead : n = Base(t) + p /\ posted[q][n] = Shard(q, t, p)
  BY <1>1 DEF IInv, PostedInv, Contributed
<1>4. s \in Nat /\ t \in Nat
  BY <1>1
<1>5. s = t /\ o = p
  BY <1>2, <1>3, <1>4, Numbering
<1> QED
  BY <1>2, <1>3, <1>5

LEMMA FitsTogether ==
  ASSUME IInv PROVE ShardsFitTogether
<1>1. ASSUME NEW r \in Ranks, NEW q \in Ranks, NEW n \in DOMAIN posted[r] \intersect DOMAIN posted[q]
      PROVE  /\ posted[r][n].op = posted[q][n].op
             /\ posted[r][n].position = posted[q][n].position
             /\ posted[r][n].tokens = posted[q][n].tokens
             /\ r # q => posted[r][n].local \intersect posted[q][n].local = {}
  <2>1. PICK s \in 0 .. step[r], o \in 1 .. LmHead :
           /\ s \in 0 .. step[q]
           /\ posted[r][n] = Shard(r, s, o) /\ posted[q][n] = Shard(q, s, o)
    BY SameCollective
  <2>2. Tokens(r, s) = Tokens(q, s)
    BY <2>1, SharedTokens
  <2>3. \A i \in DOMAIN Tokens(r, s) : Tokens(r, s)[i] \in Nat
    <3>1. Tokens(r, s) \in Seq(Vocab)
      BY TokensTyped
    <3>2. \A i \in DOMAIN Tokens(r, s) : Tokens(r, s)[i] \in Vocab
      BY <3>1
    <3> QED
      BY <3>2, TensorParallelAssumption DEF Vocab
  <2>4. r # q => {i \in DOMAIN Tokens(r, s) : Owns(r, Tokens(r, s)[i])}
                   \intersect {i \in DOMAIN Tokens(q, s) : Owns(q, Tokens(q, s)[i])} = {}
    BY <2>2, <2>3, OwnedOnce
  <2> QED
    BY <2>1, <2>2, <2>4 DEF Shard
<1>2. ASSUME NEW n \in DOMAIN posted[0], posted[0][n].op = Embeddings, \A r \in Ranks : n \in DOMAIN posted[r]
      PROVE  UNION {posted[r][n].local : r \in Ranks} = DOMAIN posted[0][n].tokens
  <2>1. 0 \in Ranks
    BY Sizes
  <2>2. PICK s \in 0 .. step[0], o \in 1 .. LmHead : posted[0][n] = Shard(0, s, o)
    BY <2>1, SameCollective
  <2> DEFINE tokens == Tokens(0, s)
  <2>3. o = Embeddings /\ posted[0][n].tokens = tokens
    BY <1>2, <2>2 DEF Shard
  <2>4. \A i \in DOMAIN tokens : tokens[i] \in Vocab
    <3>1. tokens \in Seq(Vocab)
      BY <2>1, TokensTyped
    <3> QED
      BY <3>1
  <2>5. ASSUME NEW r \in Ranks
        PROVE  posted[r][n].local = {i \in DOMAIN tokens : Owns(r, tokens[i])}
    <3>1. PICK t \in 0 .. step[0], p \in 1 .. LmHead :
             /\ t \in 0 .. step[r]
             /\ posted[0][n] = Shard(0, t, p) /\ posted[r][n] = Shard(r, t, p)
      BY <1>2, <2>1, SameCollective
    <3>2. p = Embeddings /\ Tokens(0, t) = tokens
      <4>1. Shard(0, t, p).op = Embeddings /\ Shard(0, t, p).tokens = tokens
        BY <1>2, <2>3, <3>1
      <4> QED
        BY <4>1 DEF Shard
    <3>3. Tokens(r, t) = tokens
      BY <2>1, <3>1, <3>2, SharedTokens
    <3> QED
      BY <3>1, <3>2, <3>3 DEF Shard
  <2> HIDE DEF tokens
  <2>6. \A i \in DOMAIN tokens : \E r \in Ranks : Owns(r, tokens[i])
    BY <2>4, OwnedBySome
  <2>7. UNION {posted[r][n].local : r \in Ranks} = DOMAIN tokens
    BY <2>5, <2>6
  <2> QED
    BY <2>3, <2>7
<1> QED
  BY <1>1, <1>2 DEF ShardsFitTogether

(* Every collective of every run combines shards of one computation:       *)
(* whatever the ranks' relative speed, their n-th contributions are to the *)
(* same operation over the same tokens at the same position, and the       *)
(* shards of the embedding partition the vocabulary.                       *)
THEOREM TensorShardsFit == Spec => []ShardsFitTogether
<1>1. IInv => ShardsFitTogether
  BY FitsTogether
<1> QED
  BY <1>1, AlwaysIInv, PTL

(* When one rank returns Ok, every rank has stopped, for the same reason,  *)
(* with the same tokens and caches: the completion barrier is passed only  *)
(* by ranks that have obeyed the last decision.                            *)
THEOREM TensorSuccessShared == Spec => []SuccessIsShared
<1>1. ASSUME IInv
      PROVE  SuccessIsShared
  <2> SUFFICES ASSUME NEW r \in Ranks, pc[r] = "done", NEW q \in Ranks
               PROVE  /\ stop[q] = stop[r] /\ stop[q] # "none"
                      /\ generated[q] = generated[r]
                      /\ \A l \in 1 .. Layers : cache[q][l] = cache[r][1]
    BY DEF SuccessIsShared
  <2>1. \A p \in Ranks : stop[p] # "none"
    BY <1>1 DEF IInv, BarrierInv
  <2>2. Real
    BY <1>1, <2>1 DEF IInv, AgreeInv, DecisionInv
  <2>3. \A p \in Ranks : After(p)
    BY <1>1, <2>1, <2>2 DEF IInv, AgreeInv, DecisionInv, Before
  <2>4. \A p \in Ranks : stop[p] = decision.reason /\ step[p] = decision.step
    BY <2>1, <2>3 DEF After
  <2>5. generated[q] = generated[r]
    BY <1>1, <2>2, <2>3 DEF IInv, AgreeInv, DecisionInv
  <2>6. ASSUME NEW p \in Ranks, NEW l \in 1 .. Layers
        PROVE  cache[p][l] = SubSeq(Text(p), 1, Len(job.prompt) + decision.step)
    <3>1. Len(posted[p]) = Base(step[p]) + LmHead /\ step[p] \in Nat
      BY <1>1, <2>1 DEF IInv, TypeInv, PlaceInv, Place
    <3>2. Len(posted[p]) >= Base(step[p]) + 2 * l
      <4>1. Base(step[p]) \in Nat
        BY <3>1, BaseStep
      <4>2. LmHead = 2 * Layers + 2 /\ Layers \in Nat
        BY Sizes
      <4> QED
        BY <3>1, <4>1, <4>2
    <3>3. Fed(p, l) = Len(job.prompt) + decision.step
      BY <2>4, <3>2 DEF Fed
    <3> QED
      BY <1>1, <3>3 DEF IInv, DataInv, Data
  <2>7. 1 \in 1 .. Layers
    BY Sizes
  <2> QED
    BY <2>1, <2>4, <2>5, <2>6, <2>7 DEF Text
<1> QED
  BY <1>1, AlwaysIInv, PTL

(* A rank that has not stopped has room for the forward of its step. *)
LEMMA StepBound ==
  ASSUME IInv, NEW r \in Ranks, stop[r] = "none"
  PROVE  step[r] < Effective(job)
<1>1. Effective(job) \in Nat \ {0} /\ decision.step \in Nat
  BY JobFacts DEF IInv, TypeInv, Decisions
<1>2. CASE ~Real
  BY <1>1, <1>2 DEF IInv, AgreeInv, DecisionInv
<1>3. CASE Real
  <2>1. /\ decision.step < Effective(job)
        /\ decision.reason = "none" => decision.step + 1 # Effective(job)
        /\ Before(r) \/ After(r)
    BY <1>3 DEF IInv, AgreeInv, DecisionInv
  <2>2. step[r] = decision.step \/ (step[r] = decision.step + 1 /\ decision.reason = "none")
    BY <2>1 DEF Before, After
  <2> QED
    BY <1>1, <2>1, <2>2
<1> QED
  BY <1>2, <1>3

(* The tokens of the step end where the text ends. *)
LEMMA StepText ==
  ASSUME IInv, NEW r \in Ranks
  PROVE  /\ Position(step[r]) \in Nat /\ Len(Tokens(r, step[r])) \in Nat \ {0}
         /\ Position(step[r]) + Len(Tokens(r, step[r])) = Len(job.prompt) + step[r]
<1>1. step[r] \in Nat /\ Len(job.prompt) \in Nat \ {0}
  BY JobFacts DEF IInv, TypeInv
<1>2. Len(Tokens(r, step[r])) = IF step[r] = 0 THEN Len(job.prompt) ELSE 1
  BY DEF Tokens
<1> QED
  BY <1>1, <1>2 DEF Position

(* No forward is refused for its position or for want of cache, and no     *)
(* rank receives a decision of another step: a rank fails only because     *)
(* something else failed first.                                            *)
THEOREM TensorNothingRefused == Spec => []NothingRefused
<1>1. ASSUME IInv
      PROVE  NothingRefused
  <2>1. ASSUME NEW r \in Ranks, pc[r] = "compute"
        PROVE  ~Refused(r)
    <3> SUFFICES ASSUME op[r] = Embeddings
                 PROVE  /\ position[r] = Len(cache[r][1])
                        /\ position[r] + Len(input[r]) <= Capacity(job)
      <4>1. /\ position[r] \in Nat /\ Len(input[r]) \in Nat /\ Capacity(job) \in Nat
        <5>1. position[r] \in Nat /\ input[r] \in Seq(Vocab) /\ job \in Jobs
          BY <1>1 DEF IInv, TypeInv
        <5>2. Capacity(job) \in Nat
          BY <5>1, JobFacts
        <5> QED
          BY <5>1, <5>2
      <4> QED
        BY <4>1 DEF Refused
    <3>1. /\ step[r] \in Nat /\ 1 \in 1 .. Layers /\ stop[r] = "none" /\ Base(step[r]) \in Nat
      <4>1. step[r] \in Nat /\ stop[r] = "none"
        BY <1>1, <2>1 DEF IInv, TypeInv, PlaceInv, Place, Early
      <4>2. 1 \in 1 .. Layers
        BY Sizes
      <4>3. Base(step[r]) \in Nat
        BY <4>1, BaseStep
      <4> QED
        BY <4>1, <4>2, <4>3
    <3>2. Len(posted[r]) = Base(step[r])
      <4>1. Len(posted[r]) = Base(step[r]) + 1 - 1
        BY <1>1, <2>1 DEF IInv, PlaceInv, Place, Embeddings
      <4> QED
        BY <3>1, <4>1
    <3>3. cache[r][1] = SubSeq(Text(r), 1, Position(step[r]))
      <4>1. Fed(r, 1) = Position(step[r])
        BY <3>1, <3>2 DEF Fed
      <4> QED
        BY <1>1, <3>1, <4>1 DEF IInv, DataInv, Data
    <3>4. position[r] = Position(step[r]) /\ input[r] = Tokens(r, step[r]) /\ step[r] <= Len(generated[r])
      BY <1>1 DEF IInv, DataInv, Data
    <3>5. /\ Position(step[r]) \in Nat /\ Len(Tokens(r, step[r])) \in Nat \ {0}
          /\ Position(step[r]) + Len(Tokens(r, step[r])) = Len(job.prompt) + step[r]
      BY <1>1, StepText
    <3>6. /\ step[r] < Effective(job) /\ Capacity(job) = Len(job.prompt) + Effective(job)
          /\ Effective(job) \in Nat /\ Len(job.prompt) \in Nat
      BY <1>1, <3>1, StepBound, JobFacts DEF IInv, TypeInv
    <3>7. Text(r) \in Seq(Vocab) /\ Len(Text(r)) = Len(job.prompt) + Len(generated[r])
      <4>1. job.prompt \in Seq(Vocab) /\ generated[r] \in Seq(Vocab \ {Eos})
        BY <1>1, JobFacts DEF IInv, TypeInv
      <4>2. generated[r] \in Seq(Vocab)
        BY <4>1
      <4> QED
        BY <4>1, <4>2 DEF Text
    <3>8. Len(SubSeq(Text(r), 1, Position(step[r]))) = Position(step[r])
      <4>1. Len(generated[r]) \in Nat
        BY <1>1 DEF IInv, TypeInv
      <4>2. Position(step[r]) <= Len(Text(r))
        <5>1. \A p, t, n, k, g \in Nat : p + t = n + k /\ k <= g => p <= n + g
          OBVIOUS
        <5> QED
          BY <3>1, <3>4, <3>5, <3>6, <3>7, <4>1, <5>1
      <4> QED
        BY <3>5, <3>7, <4>2
    <3> QED
      BY <3>1, <3>3, <3>4, <3>5, <3>6, <3>8
  <2>2. ASSUME NEW m \in net, m.tag = step[m.to]
        PROVE  m.body.step = step[m.to]
    BY <1>1, <2>2 DEF IInv, AgreeInv, NetInv, Before
  <2> QED
    BY <2>1, <2>2 DEF NothingRefused
<1> QED
  BY <1>1, AlwaysIInv, PTL

-----------------------------------------------------------------------------
(* Nobody waits on each other.  Of the ranks in a collective, the one that *)
(* has contributed to the fewest finds that all others have contributed to *)
(* its collective; and a decision that a rank waits for is under way or    *)
(* rank 0 is still to take it, in the forward that the rank has made.      *)

(* A decision that has been sent and not obeyed is under way. *)
DecisionsSent == \A q \in told : Before(q) => \E m \in net : m.to = q

(* Where a rank in a barrier is. *)
Whereabouts(r) ==
  /\ pc[r] \in {"start", "complete"} => entered[r] = TRUE
  /\ pc[r] = "done" => passed[r] = 2

SentInv == DecisionsSent /\ \A r \in Ranks : Whereabouts(r)

LEMMA DecisionsSentStep ==
  ASSUME IInv, DecisionsSent, NEW r \in Ranks, Progress(r) \/ Fail(r)
  PROVE  DecisionsSent'
<1>0. /\ TypeInv /\ AgreeInv /\ told \subseteq Ranks
      /\ \A q \in Ranks \ {r} : Same(q)
  BY OthersSame DEF IInv, TypeInv, Peers
<1>1. CASE Load(r) \/ Start(r) \/ Finish(r) \/ Complete(r) \/ Fail(r) \/ Compute(r) \/ Combine(r)
  <2>1. decision' = decision /\ told' = told /\ net' = net /\ step' = step /\ stop' = stop
    BY <1>1 DEF Load, Start, Finish, Complete, Fail, Compute, Combine, EnterBarrier, PassBarrier, forward
  <2> QED
    BY <2>1 DEF DecisionsSent, Before
<1>2. CASE \E t \in Vocab : Select(r, t)
  BY <1>2 DEF Select, DecisionsSent
<1>3. ASSUME NEW d \in Peers(0), SendDecision(r, d)
      PROVE  DecisionsSent'
  <2>1. decision' = decision /\ told' = told \union {d} /\ step' = step /\ stop' = stop
    BY <1>3 DEF SendDecision, forward
  <2>2. \E m : net' = net \union {m} /\ m.to = d
    <3>1. PICK m : m = [to |-> d, tag |-> step[r], body |-> decision]
      OBVIOUS
    <3>2. m.to = d
      BY <3>1
    <3> QED
      BY <1>3, <3>1, <3>2 DEF SendDecision
  <2> QED
    BY <2>1, <2>2 DEF DecisionsSent, Before
<1>4. CASE Decided(r) \/ RecvDecision(r)
  <2>1. /\ Obey(r, decision) /\ decision \in Decisions /\ Before(r)
        /\ decision' = decision /\ told' = told
    BY <1>0, <1>4, ObeyStep
  <2>2. ~Before(r)'
    <3>1. decision.step = step[r] /\ step[r] \in Nat
      BY <1>0, <2>1 DEF Before, TypeInv
    <3>2. (stop'[r] = decision.reason /\ decision.reason # "none") \/ step'[r] = step[r] + 1
      BY <1>0, <2>1, <3>1, ObeyEffect
    <3> QED
      BY <2>1, <3>1, <3>2 DEF Before
  <2>3. \A m \in net : m.to # r => m \in net'
    BY <1>4 DEF Decided, RecvDecision
  <2>4. ASSUME NEW q \in told', Before(q)'
        PROVE  \E m \in net' : m.to = q
    <3>1. q # r /\ q \in Ranks
      BY <1>0, <2>1, <2>2, <2>4
    <3>2. Before(q)
      BY <1>0, <2>1, <2>4, <3>1 DEF Same, Before
    <3> QED
      BY <2>1, <2>3, <3>1, <3>2 DEF DecisionsSent
  <2> QED
    BY <2>4 DEF DecisionsSent
<1> QED
  BY <1>1, <1>2, <1>3, <1>4 DEF Progress

LEMMA WhereaboutsStep ==
  ASSUME IInv, NEW r \in Ranks, Progress(r) \/ Fail(r), \A q \in Ranks : Whereabouts(q)
  PROVE  \A q \in Ranks : Whereabouts(q)'
<1>0. TypeInv /\ AgreeInv /\ Gate(r) /\ \A q \in Ranks \ {r} : Same(q)
  BY OthersSame DEF IInv, BarrierInv
<1>1. CASE Load(r) \/ Finish(r)
  BY <1>0, <1>1 DEF TypeInv, Load, Finish, EnterBarrier, Goto, Whereabouts, Same
<1>2. CASE Start(r) \/ Complete(r)
  <2>1. /\ pc'[r] \in {"compute", "done"} /\ passed'[r] = passed[r] + 1
        /\ pc'[r] = "done" => pc[r] = "complete"
    BY <1>0, <1>2 DEF TypeInv, Start, Complete, PassBarrier, Goto
  <2>2. pc[r] = "complete" => passed[r] = 1
    BY <1>0 DEF Gate
  <2> QED
    BY <1>0, <2>1, <2>2 DEF Whereabouts, Same
<1>3. ASSUME pc'[r] \notin {"start", "complete", "done"}
      PROVE  \A q \in Ranks : Whereabouts(q)'
  BY <1>0, <1>3 DEF Whereabouts, Same
<1>4. CASE Compute(r) \/ Combine(r)
  BY <1>0, <1>3, <1>4, ComputeEffect, CombineEffect
<1>5. CASE \E t \in Vocab : Select(r, t)
  BY <1>0, <1>3, <1>5 DEF Select, Goto, TypeInv
<1>6. CASE \E d \in Peers(0) : SendDecision(r, d)
  BY <1>0, <1>3, <1>6 DEF SendDecision
<1>7. CASE Decided(r) \/ RecvDecision(r)
  <2>1. Obey(r, decision) /\ decision \in Decisions /\ decision.step = step[r]
    BY <1>0, <1>7, ObeyStep DEF Before
  <2>2. pc'[r] \in {"finish", "compute"}
    BY <1>0, <2>1, ObeyEffect
  <2> QED
    BY <1>3, <2>2
<1>8. CASE Fail(r)
  BY <1>0, <1>3, <1>8 DEF Fail, Goto, TypeInv
<1> QED
  BY <1>1, <1>2, <1>4, <1>5, <1>6, <1>7, <1>8 DEF Progress

LEMMA AlwaysSent == Spec => []SentInv
<1>1. ASSUME IInv, SentInv, [Next]_vars
      PROVE  SentInv'
  <2>1. CASE UNCHANGED vars
    BY <1>1, <2>1 DEF SentInv, DecisionsSent, Whereabouts, Before, vars, forward, barrier
  <2>2. CASE \E r \in Ranks : Progress(r) \/ Fail(r)
    BY <1>1, <2>2, DecisionsSentStep, WhereaboutsStep DEF SentInv
  <2> QED
    BY <1>1, <2>1, <2>2 DEF Next, AnyProgress, TimeOut, Crash
<1>2. Init => SentInv
  BY DEF Init, SentInv, DecisionsSent, Whereabouts
<1> QED
  BY <1>1, <1>2, AlwaysIInv, PTL DEF Spec

LEMMA SomebodyUnblocked ==
  ASSUME IInv, SentInv, \A r \in Ranks : pc[r] # "failed",
         \A r \in Ranks : pc[r] \in Running => Blocked(r)
  PROVE  \A r \in Ranks : pc[r] = "done"
<1>0. /\ TypeInv /\ AgreeInv /\ 0 \in Ranks /\ LmHead \in Nat
      /\ \A r \in Ranks : Gate(r) /\ Place(r) /\ Whereabouts(r)
  BY Sizes DEF IInv, PlaceInv, BarrierInv, SentInv
<1>1. ASSUME NEW r \in Ranks
      PROVE  /\ pc[r] \in {"start", "combine", "decision", "complete", "done"}
             /\ pc[r] = "combine" => ~AllContributed(r)
             /\ pc[r] = "decision" => {m \in net : m.to = r /\ m.tag = step[r]} = {}
             /\ pc[r] \in {"start", "complete"} => ~Gathered(r)
  <2>1. pc[r] \in Running \union Ended /\ pc[r] # "failed"
    BY <1>0 DEF TypeInv
  <2>2. pc[r] = "done" \/ Blocked(r)
    BY <2>1 DEF Ended
  <2> QED
    BY <2>1, <2>2 DEF Blocked, Running, Ended
<1>2. \A r \in Ranks : /\ passed[r] \in Nat /\ step[r] \in Nat /\ Len(posted[r]) \in Nat
                       /\ op[r] \in 1 .. LmHead
  BY <1>0 DEF TypeInv
(* The first barrier: all ranks but those that have passed are in it. *)
<1>3. ASSUME NEW r \in Ranks, pc[r] = "start"
      PROVE  FALSE
  <2>1. passed[r] = 0
    BY <1>0, <1>3 DEF Gate
  <2>2. ASSUME NEW q \in Peers(r)
        PROVE  passed[q] > passed[r] \/ (passed[q] = passed[r] /\ entered[q])
    <3>1. q \in Ranks
      BY DEF Peers
    <3>2. pc[q] = "start" => passed[q] = 0 /\ entered[q] = TRUE
      BY <1>0, <3>1 DEF Gate, Whereabouts
    <3>3. pc[q] # "start" => passed[q] > 0
      BY <1>0, <1>1, <3>1 DEF Gate, Whereabouts
    <3> QED
      BY <2>1, <3>2, <3>3
  <2> QED
    BY <1>1, <1>3, <2>2 DEF Gathered
(* Rank 0 has obeyed its decision, so every rank has been told. *)
<1>4. Real => After(0) /\ told = Peers(0)
  <2> SUFFICES ASSUME Real
               PROVE  After(0) /\ told = Peers(0)
    OBVIOUS
  <2>1. Before(0) \/ After(0)
    BY <1>0 DEF AgreeInv, DecisionInv
  <2>2. pc[0] \in {"combine", "complete", "done"}
    BY <1>0, <1>1, <1>3 DEF Place
  <2>3. pc[0] \in {"complete", "done"} => stop[0] # "none"
    BY <1>0 DEF Place
  <2>4. After(0)
    BY <1>0, <2>1, <2>2, <2>3 DEF AgreeInv, RootInv, Before
  <2> QED
    BY <1>0, <2>4 DEF AgreeInv, DecisionInv
(* A rank that waits for a decision has obeyed the last one. *)
<1>5. ASSUME NEW r \in Ranks, pc[r] = "decision", Real
      PROVE  After(r)
  <2> SUFFICES ASSUME Before(r)
               PROVE  FALSE
    BY <1>0, <1>5 DEF AgreeInv, DecisionInv
  <2>1. r \in told
    BY <1>0, <1>4, <1>5 DEF Place, Peers
  <2>2. PICK m \in net : m.to = r
    BY <2>1 DEF SentInv, DecisionsSent
  <2>3. m.tag = step[r]
    BY <1>0, <2>2 DEF AgreeInv, NetInv, Before
  <2> QED
    BY <1>1, <1>5, <2>2, <2>3
(* A rank that is not in a collective is ahead of those that are. *)
<1>6. ASSUME NEW r \in Ranks, pc[r] = "combine", NEW q \in Ranks, pc[q] # "combine"
      PROVE  Len(posted[q]) >= Len(posted[r])
  <2>1. /\ stop[r] = "none" /\ Len(posted[r]) <= Base(step[r]) + LmHead
        /\ Base(step[r]) \in Nat /\ Base(step[q]) \in Nat
    <3>1. Base(step[r]) \in Nat /\ Base(step[q]) \in Nat
      BY <1>2, BaseStep
    <3>2. stop[r] = "none" /\ Len(posted[r]) = Base(step[r]) + op[r]
      BY <1>0, <1>6 DEF Place, Early
    <3> QED
      BY <1>0, <1>2, <3>1, <3>2
  <2>2. Len(posted[q]) = Base(step[q]) + LmHead
    BY <1>0, <1>1, <1>3, <1>6 DEF Place
  <2>3. step[r] = step[q] \/ step[r] + 1 = step[q]
    <3>1. CASE ~Real
      BY <1>0, <3>1 DEF AgreeInv, DecisionInv
    <3>2. CASE Real
      <4>1. (Before(r) \/ After(r)) /\ (Before(q) \/ After(q))
        BY <1>0, <3>2 DEF AgreeInv, DecisionInv
      <4>2. After(q)
        <5>1. pc[q] = "decision" \/ stop[q] # "none"
          BY <1>0, <1>1, <1>3, <1>6 DEF Place
        <5> QED
          BY <1>5, <3>2, <4>1, <5>1 DEF Before
      <4>3. decision.step \in Nat
        BY <1>0 DEF TypeInv, Decisions
      <4> QED
        BY <2>1, <4>1, <4>2, <4>3 DEF Before, After
    <3> QED
      BY <3>1, <3>2
  <2>4. Base(step[r]) <= Base(step[q])
    <3>1. Base(step[r] + 1) = Base(step[r]) + LmHead
      BY <1>2, BaseStep
    <3> QED
      BY <1>0, <2>1, <2>3, <3>1
  <2> QED
    BY <1>0, <1>2, <2>1, <2>2, <2>4
(* The least advanced rank of those in a collective would go on. *)
<1>7. ASSUME NEW r \in Ranks
      PROVE  pc[r] # "combine"
  <2> SUFFICES ASSUME pc[r] = "combine"
               PROVE  FALSE
    OBVIOUS
  <2> DEFINE counts == {Len(posted[q]) : q \in {p \in Ranks : pc[p] = "combine"}}
  <2>1. PICK n \in counts : \A k \in counts : n <= k
    <3>1. counts \subseteq Nat /\ counts # {}
      BY <1>2
    <3> HIDE DEF counts
    <3> QED
      BY <3>1, LeastNatural
  <2>2. PICK p \in Ranks : pc[p] = "combine" /\ n = Len(posted[p])
    OBVIOUS
  <2>3. ASSUME NEW q \in Ranks
        PROVE  Len(posted[q]) >= Len(posted[p])
    <3>1. CASE pc[q] = "combine"
      BY <1>2, <2>1, <2>2, <3>1
    <3>2. CASE pc[q] # "combine"
      BY <1>6, <2>2, <3>2
    <3> QED
      BY <3>1, <3>2
  <2> QED
    BY <1>1, <2>2, <2>3 DEF AllContributed
(* So rank 0 is past its last forward, and all have heard of it. *)
<1>8. \A r \in Ranks : pc[r] \in {"complete", "done"}
  <2>1. stop[0] # "none" /\ Real
    <3>1. pc[0] \in {"complete", "done"}
      BY <1>0, <1>1, <1>3, <1>7 DEF Place
    <3> QED
      BY <1>0, <3>1 DEF Place, AgreeInv, DecisionInv
  <2>2. decision.reason # "none"
    BY <1>4, <2>1 DEF After
  <2>3. \A r \in Ranks : pc[r] # "decision"
    BY <1>0, <1>5, <2>1, <2>2 DEF After, Place, Early
  <2> QED
    BY <1>1, <1>3, <1>7, <2>3
<1>9. ASSUME NEW r \in Ranks, pc[r] = "complete"
      PROVE  Gathered(r)
  <2>1. passed[r] = 1
    BY <1>0, <1>9 DEF Gate
  <2>2. \A q \in Ranks : passed[q] = 2 \/ (passed[q] = 1 /\ entered[q])
    BY <1>0, <1>8 DEF Gate, Whereabouts
  <2> QED
    BY <2>1, <2>2 DEF Gathered, Peers
<1> QED
  BY <1>1, <1>8, <1>9

(* However many ranks and layers there are, as long as no rank has failed  *)
(* one of them is not held up by a collective, a receive or a barrier.     *)
THEOREM TensorNeverStuck == Spec => []NeverStuck
<1>1. IInv /\ SentInv => NeverStuck
  BY SomebodyUnblocked DEF NeverStuck
<1> QED
  BY <1>1, AlwaysIInv, AlwaysSent, PTL

-----------------------------------------------------------------------------
(* The refinement. *)

(* The tokens that the last layer of rank 0 has still to see. *)
Unseen ==
  IF stop[0] # "none" THEN <<>>
  ELSE SubSeq(job.prompt \o generated[0], Len(cache[0][Layers]) + 1, Len(job.prompt) + Len(generated[0]))

(* What the last layer of rank 0 has to see: the tokens of the step until  *)
(* its attention, then nothing.                                            *)
LEMMA UnseenIs ==
  IInv => /\ stop[0] # "none" => Unseen = <<>>
          /\ stop[0] = "none" /\ Len(posted[0]) >= Base(step[0]) + 2 * Layers => Unseen = <<>>
          /\ stop[0] = "none" /\ ~(Len(posted[0]) >= Base(step[0]) + 2 * Layers) =>
               Unseen = Tokens(0, step[0])
<1> SUFFICES ASSUME IInv
             PROVE  /\ stop[0] # "none" => Unseen = <<>>
                    /\ stop[0] = "none" /\ Len(posted[0]) >= Base(step[0]) + 2 * Layers => Unseen = <<>>
                    /\ stop[0] = "none" /\ ~(Len(posted[0]) >= Base(step[0]) + 2 * Layers) =>
                         Unseen = Tokens(0, step[0])
  OBVIOUS
<1>1. stop[0] # "none" => Unseen = <<>>
  BY DEF Unseen
<1> SUFFICES ASSUME stop[0] = "none"
             PROVE  /\ Len(posted[0]) >= Base(step[0]) + 2 * Layers => Unseen = <<>>
                    /\ ~(Len(posted[0]) >= Base(step[0]) + 2 * Layers) => Unseen = Tokens(0, step[0])
  BY <1>1
<1> DEFINE p == job.prompt
           g == generated[0]
           k == Fed(0, Layers)
<1>2. 0 \in Ranks /\ Layers \in 1 .. Layers
  BY Sizes
<1>3. p \in Seq(Vocab) /\ g \in Seq(Vocab) /\ Len(p) \in Nat /\ Len(g) \in Nat /\ Len(g) = step[0]
  <2>1. job \in Jobs /\ generated[0] \in Seq(Vocab \ {Eos}) /\ Len(g) = step[0]
    BY <1>2 DEF IInv, TypeInv, DataInv, Data
  <2>2. generated[0] \in Seq(Vocab)
    BY <2>1
  <2> QED
    BY <2>1, <2>2, JobFacts
<1>4. cache[0][Layers] = SubSeq(p \o g, 1, k)
  BY <1>2 DEF IInv, DataInv, Data, Text
<1>5. k = IF Len(posted[0]) >= Base(step[0]) + 2 * Layers THEN Len(p) + Len(g)
          ELSE IF Len(g) = 0 THEN 0 ELSE Len(p) + Len(g) - 1
  BY <1>3 DEF Fed, Position
<1>6. Unseen = SubSeq(p \o g, Len(cache[0][Layers]) + 1, Len(p) + Len(g))
  BY DEF Unseen
<1>7. Tokens(0, step[0]) = IF Len(g) = 0 THEN p ELSE <<g[Len(g)]>>
  BY <1>3 DEF Tokens
<1> HIDE DEF p, g, k
<1>8. Len(cache[0][Layers]) = k
  <2> DEFINE w == p \o g
  <2>1. w \in Seq(Vocab) /\ Len(w) = Len(p) + Len(g)
    BY <1>3
  <2>2. k \in Nat /\ k <= Len(w)
    BY <1>3, <1>5, <2>1
  <2> HIDE DEF w
  <2>3. Len(SubSeq(w, 1, k)) = k
    BY <2>1, <2>2
  <2> QED
    BY <1>4, <2>3 DEF w
<1>9. CASE Len(posted[0]) >= Base(step[0]) + 2 * Layers
  BY <1>3, <1>5, <1>6, <1>8, <1>9, RestOfText
<1>10. CASE ~(Len(posted[0]) >= Base(step[0]) + 2 * Layers)
  <2>1. CASE Len(g) = 0
    <3>1. k + 1 = 1
      BY <1>5, <1>10, <2>1
    <3> QED
      BY <1>3, <1>6, <1>7, <1>8, <1>10, <2>1, <3>1, RestOfText
  <2>2. CASE Len(g) # 0
    <3>1. k + 1 = Len(p) + Len(g)
      BY <1>3, <1>5, <1>10, <2>2
    <3> QED
      BY <1>3, <1>6, <1>7, <1>8, <1>10, <2>2, <3>1, RestOfText
  <2> QED
    BY <2>1, <2>2
<1> QED
  BY <1>9, <1>10

LEMMA StepImplementsGeneration ==
  ASSUME IInv, IInv', [Next]_vars
  PROVE  [SingleProcess!GenerationNext]_(SingleProcess!generationVars)
<1> DEFINE last == Base(step[0]) + 2 * Layers
<1>0. 0 \in Ranks /\ Layers \in 1 .. Layers /\ Layers \in Nat /\ LmHead = 2 * Layers + 2
  BY Sizes
<1>00. /\ TypeInv /\ PlaceInv /\ DataInv /\ AgreeInv
       /\ step[0] \in Nat /\ Len(posted[0]) \in Nat /\ Base(step[0]) \in Nat /\ op[0] \in 1 .. LmHead
       /\ Place(0) /\ Data(0)
  <2>1. step[0] \in Nat /\ Len(posted[0]) \in Nat /\ op[0] \in 1 .. LmHead
    BY <1>0 DEF IInv, TypeInv
  <2>2. Base(step[0]) \in Nat
    BY <2>1, BaseStep
  <2> QED
    BY <1>0, <2>1, <2>2 DEF IInv, PlaceInv, DataInv
<1>1. /\ stop[0] # "none" => Unseen = <<>>
      /\ stop[0] = "none" /\ Len(posted[0]) >= last => Unseen = <<>>
      /\ stop[0] = "none" /\ ~(Len(posted[0]) >= last) => Unseen = Tokens(0, step[0])
  BY UnseenIs
<1>2. /\ stop'[0] # "none" => Unseen' = <<>>
      /\ stop'[0] = "none" /\ Len(posted'[0]) >= Base(step'[0]) + 2 * Layers => Unseen' = <<>>
      /\ stop'[0] = "none" /\ ~(Len(posted'[0]) >= Base(step'[0]) + 2 * Layers) =>
           Unseen' = Tokens(0, step[0])'
  <2>1. IInv' => (/\ stop[0] # "none" => Unseen = <<>>
                  /\ stop[0] = "none" /\ Len(posted[0]) >= Base(step[0]) + 2 * Layers => Unseen = <<>>
                  /\ stop[0] = "none" /\ ~(Len(posted[0]) >= Base(step[0]) + 2 * Layers) =>
                       Unseen = Tokens(0, step[0]))'
    BY UnseenIs, PTL
  <2> QED
    BY <2>1 DEF Base
<1>3. ASSUME job' = job, cache'[0] = cache[0], generated'[0] = generated[0], stop'[0] = stop[0]
      PROVE  UNCHANGED SingleProcess!generationVars
  BY <1>3 DEF SingleProcess!generationVars
<1>4. ASSUME NEW r \in Ranks, r # 0, Progress(r) \/ Fail(r)
      PROVE  UNCHANGED SingleProcess!generationVars
  <2>1. job' = job /\ cache'[0] = cache[0] /\ generated'[0] = generated[0] /\ stop'[0] = stop[0]
    BY <1>0, <1>00, <1>4, OthersSame DEF Same
  <2> QED
    BY <1>3, <2>1
<1>5. CASE Load(0) \/ Start(0) \/ Finish(0) \/ Complete(0) \/ Combine(0) \/ Fail(0)
  <2>1. job' = job /\ cache' = cache /\ generated' = generated /\ stop' = stop
    BY <1>5 DEF Load, Start, Finish, Complete, Combine, Fail, EnterBarrier, PassBarrier, forward
  <2> QED
    BY <1>3, <2>1
<1>6. CASE (\E t \in Vocab : Select(0, t)) \/ (\E d \in Peers(0) : SendDecision(0, d))
  <2>1. job' = job /\ cache' = cache /\ generated' = generated /\ stop' = stop
    BY <1>6 DEF Select, SendDecision, forward
  <2> QED
    BY <1>3, <2>1
<1>7. CASE Compute(0)
  <2>1. /\ job' = job /\ generated' = generated /\ stop' = stop /\ step' = step /\ pc[0] = "compute"
        /\ \/ cache' = cache
           \/ /\ Len(posted'[0]) = Len(posted[0]) + 1
              /\ IsAttention(op[0]) =>
                    /\ cache'[0][LayerOf(op[0])] = cache[0][LayerOf(op[0])] \o input[0]
                    /\ \A l \in 1 .. Layers : l # LayerOf(op[0]) => cache'[0][l] = cache[0][l]
              /\ ~IsAttention(op[0]) => cache' = cache
    <3>1. job' = job
      BY <1>7 DEF Compute
    <3> QED
      BY <1>0, <1>00, <1>7, <3>1, ComputeEffect
  <2>2. CASE cache'[0][Layers] = cache[0][Layers]
    BY <2>1, <2>2 DEF SingleProcess!generationVars
  <2>3. CASE cache'[0][Layers] # cache[0][Layers]
    <3>1. IsAttention(op[0]) /\ LayerOf(op[0]) = Layers
      BY <1>0, <2>1, <2>3
    <3>2. op[0] = 2 * Layers
      BY <1>00, <3>1, OpCases
    <3>3. cache'[0][Layers] = cache[0][Layers] \o input[0] /\ Len(posted'[0]) = Len(posted[0]) + 1
      BY <2>1, <2>3, <3>1
    <3>4. stop[0] = "none" /\ Len(posted[0]) = last - 1 /\ input[0] = Tokens(0, step[0])
      <4>1. stop[0] = "none" /\ Len(posted[0]) = Base(step[0]) + op[0] - 1
        BY <1>00, <2>1 DEF Place, Early
      <4> QED
        BY <1>00, <3>2, <4>1 DEF Data
    <3>5. last \in Nat
      BY <1>0, <1>00
    <3>6. Unseen = input[0] /\ Unseen' = <<>>
      BY <1>1, <1>2, <2>1, <3>3, <3>4, <3>5
    <3>7. input[0] # <<>>
      <4>1. Len(Tokens(0, step[0])) # 0
        BY <1>0, StepText
      <4> QED
        BY <3>4, <4>1
    <3> QED
      BY <2>1, <3>3, <3>6, <3>7 DEF Unseen, SingleProcess!GenerationNext, SingleProcess!Forward
  <2> QED
    BY <2>2, <2>3
<1>8. CASE Decided(0)
  <2>1. /\ Obey(0, decision) /\ decision \in Decisions /\ Before(0) /\ Real /\ cache' = cache
        /\ posted' = posted /\ pc[0] = "tell" /\ job' = job
    <3>1. job' = job
      BY <1>8 DEF Decided
    <3> QED
      BY <1>0, <1>00, <1>8, <3>1, ObeyStep
  <2>2. /\ decision.step = step[0] /\ stop[0] = "none" /\ decision.token \in Vocab
        /\ Len(generated[0]) = step[0]
    BY <1>00, <2>1 DEF Before, Decisions, Data
  <2>3. Unseen = <<>>
    <3>1. Len(posted[0]) = Base(step[0]) + LmHead
      BY <1>00, <2>1 DEF Place
    <3>2. Len(posted[0]) >= last
      BY <1>0, <1>00, <3>1
    <3> QED
      BY <1>1, <2>2, <3>2
  <2>4. /\ decision.step < Effective(job) /\ Effective(job) \in Nat
        /\ decision.reason = IF decision.token = Eos THEN "Eos"
                             ELSE IF decision.step + 1 # Effective(job) THEN "none"
                             ELSE IF Effective(job) < job.requested THEN "ContextLimit"
                             ELSE "MaxNewTokens"
    <3>1. Effective(job) \in Nat
      BY <1>00, JobFacts DEF TypeInv
    <3> QED
      BY <1>00, <2>1, <3>1 DEF AgreeInv, DecisionInv
  <2>5. /\ generated'[0] = IF decision.token = Eos THEN generated[0] ELSE Append(generated[0], decision.token)
        /\ \/ decision.reason # "none" /\ stop'[0] = decision.reason
           \/ decision.reason = "none" /\ stop' = stop /\ step'[0] = step[0] + 1
    BY <1>0, <1>00, <2>1, <2>2, ObeyEffect
  <2>6. CASE decision.token = Eos
    <3>1. generated'[0] = generated[0] /\ stop'[0] = "Eos" /\ Unseen' = <<>>
      BY <1>2, <2>4, <2>5, <2>6
    <3> QED
      BY <2>1, <2>2, <2>3, <3>1 DEF Unseen, SingleProcess!GenerationNext, SingleProcess!SelectEos
  <2>7. CASE decision.token # Eos
    <3> DEFINE t == decision.token
    <3>1. generated'[0] = Append(generated[0], t) /\ t \in Vocab \ {Eos}
      BY <2>2, <2>5, <2>7
    <3>2. Len(generated'[0]) = step[0] + 1 /\ generated'[0][step[0] + 1] = t
      <4>1. generated[0] \in Seq(Vocab \ {Eos})
        BY <1>0, <1>00 DEF TypeInv
      <4> HIDE DEF t
      <4> QED
        BY <2>2, <3>1, <4>1
    <3>3. SingleProcess!Effective(job) = Effective(job)
      BY DEF SingleProcess!Effective, Effective
    <3>4. CASE step[0] + 1 # Effective(job)
      <4>1. decision.reason = "none" /\ stop' = stop /\ step'[0] = step[0] + 1
        BY <2>2, <2>4, <2>5, <2>7, <3>4
      <4>2. ~(Len(generated'[0]) >= Effective(job))
        BY <1>00, <2>2, <2>4, <3>2, <3>4
      <4>3. ~(Len(posted'[0]) >= Base(step'[0]) + 2 * Layers)
        <5>1. Base(step'[0]) = Base(step[0]) + LmHead
          BY <1>00, <4>1, BaseStep
        <5>2. Len(posted'[0]) = Base(step[0]) + LmHead
          BY <1>00, <2>1 DEF Place
        <5> QED
          BY <1>0, <1>00, <5>1, <5>2
      <4>4. Unseen' = <<t>>
        <5>1. Unseen' = Tokens(0, step[0])'
          BY <1>2, <2>2, <4>1, <4>3
        <5>2. step'[0] # 0
          BY <1>00, <4>1
        <5> QED
          BY <3>2, <4>1, <5>1, <5>2 DEF Tokens
      <4>5. SingleProcess!SelectToken(t)
        BY <2>1, <2>2, <2>3, <3>1, <3>3, <4>1, <4>2, <4>4 DEF Unseen, SingleProcess!SelectToken
      <4> QED
        BY <3>1, <4>5 DEF SingleProcess!GenerationNext
    <3>5. CASE step[0] + 1 = Effective(job)
      <4>1. /\ decision.reason # "none" /\ stop'[0] = decision.reason
            /\ decision.reason = SingleProcess!LimitReason(job)
        <5>1. job.requested \in Nat
          BY <1>00, JobFacts DEF TypeInv
        <5> QED
          BY <2>2, <2>4, <2>5, <2>7, <3>3, <3>5, <5>1 DEF SingleProcess!LimitReason
      <4>2. Len(generated'[0]) >= Effective(job)
        BY <2>4, <3>2, <3>5
      <4>3. Unseen' = <<>>
        BY <1>2, <4>1
      <4>4. SingleProcess!SelectToken(t)
        BY <2>1, <2>2, <2>3, <3>1, <3>3, <4>1, <4>2, <4>3 DEF Unseen, SingleProcess!SelectToken
      <4> QED
        BY <3>1, <4>4 DEF SingleProcess!GenerationNext
    <3> QED
      BY <3>4, <3>5
  <2> QED
    BY <2>6, <2>7
<1>9. ~RecvDecision(0)
  BY DEF RecvDecision
<1>10. CASE UNCHANGED vars
  <2>1. job' = job /\ cache' = cache /\ generated' = generated /\ stop' = stop
    BY <1>10 DEF vars, forward
  <2> QED
    BY <1>3, <2>1
<1> QED
  BY <1>4, <1>5, <1>6, <1>7, <1>8, <1>9, <1>10 DEF Next, AnyProgress, Progress, TimeOut, Crash

(* The distributed run implements generation in one process, for every     *)
(* number of ranks, layers and tokens: the attention of the last layer of  *)
(* rank 0 is the forward, rank 0 obeying its own decision is the choice of *)
(* a token, and every other step of any rank changes nothing that          *)
(* generate() would show.                                                  *)
THEOREM TensorImplementsGeneration == Spec => ImplementsGeneration
<1>1. ASSUME Init
      PROVE  SingleProcess!GenerationInit
  <2>1. 0 \in Ranks /\ Layers \in 1 .. Layers
    BY Sizes
  <2>2. job \in Jobs /\ job.prompt \in Seq(Vocab) /\ cache[0][Layers] = <<>> /\ generated[0] = <<>> /\ stop[0] = "none"
    BY <1>1, <2>1, JobFacts DEF Init
  <2>3. SubSeq(job.prompt \o <<>>, Len(<<>>) + 1, Len(job.prompt) + Len(<<>>)) = job.prompt
    <3>1. SubSeq(job.prompt \o <<>>, 1, Len(job.prompt) + Len(<<>>)) = job.prompt
      BY <2>2, RestOfText
    <3> QED
      BY <3>1
  <2>4. SingleProcess!Jobs = Jobs
    BY DEF SingleProcess!Jobs, Jobs
  <2> QED
    BY <2>2, <2>3, <2>4 DEF SingleProcess!GenerationInit
<1> QED
  BY <1>1, AlwaysIInv, StepImplementsGeneration, PTL DEF Spec, ImplementsGeneration,
     SingleProcess!Safety
=============================================================================
