--------------------------- MODULE PipelineProofs ---------------------------
(***************************************************************************)
(* Proofs about pipeline-parallel generation, for every number of stages,  *)
(* vocabulary, prompt and request, and for every interleaving of the       *)
(* ranks, failures included.                                               *)
(*                                                                         *)
(* The invariant speaks of the round, which is the step the stages are     *)
(* working on.  A stage that has fed the tokens of the round (Fed) has     *)
(* obeyed the decision before it, and all stages before it have fed them   *)
(* too (ChainInv).  A message on its way belongs to the round and has not  *)
(* been acted on (Underway).  So the token of the round reaches rank 0     *)
(* when every stage is fed and nothing else is on its way, and the         *)
(* decision that rank 0 takes then opens the next round or ends the run.   *)
(***************************************************************************)
EXTENDS Pipeline, SharedLemmas

(* The tokens of round s, the position it starts at, and all tokens. *)
Tokens(s) == IF s = 0 THEN job.prompt ELSE <<generated[s]>>
Position(s) == IF s = 0 THEN 0 ELSE Len(job.prompt) + s - 1
Text == job.prompt \o generated

(* The round that the stages are in: the one after the last decision to    *)
(* continue.  A rank is a step behind until it obeys that decision.        *)
Round == IF decision[0] = "Continue" THEN Len(generated) ELSE step[0]
Stopped == decision[0] \in StopReasons
Fed(r) == Len(cache[r]) = Len(job.prompt) + Round
Unobeyed(r) == IF decision[0] = "Continue" THEN step[r] + 1 = Round
                                           ELSE decision[r] \notin StopReasons

TypeInv ==
  /\ job \in Jobs
  /\ pc \in [Ranks -> Running \union Ended]
  /\ step \in [Ranks -> Nat]
  /\ cache \in [Ranks -> Seq(Vocab)]
  /\ hidden \in [Ranks -> Seq(Vocab)]
  /\ decision \in [Ranks -> Decisions]
  /\ generated \in Seq(Vocab \ {Eos})
  /\ told \subseteq Peers(0)
  /\ passed \in [Ranks -> Nat]
  /\ entered \in [Ranks -> BOOLEAN]

RoundInv ==
  /\ Round < Effective(job)
  /\ Round <= Len(generated)
  /\ decision[0] = "none" => step[0] = 0 /\ Len(generated) = 0
  /\ decision[0] = "Continue" => Round > 0

(* Where a rank is in the round. *)
Stand(r) ==
  /\ step[r] = Round \/ (decision[0] = "Continue" /\ step[r] + 1 = Round)
  /\ cache[r] = SubSeq(Text, 1, Len(cache[r]))
  /\ Len(cache[r]) = Position(Round) \/ Fed(r)
  /\ Fed(r) => step[r] = Round
  /\ Stopped => step[r] = Round /\ Fed(r)
  /\ decision[r] \in StopReasons => decision[r] = decision[0]
  /\ pc[r] \in {"load", "start"} => Len(cache[r]) = 0
  /\ pc[r] = "forward" => step[r] = Round /\ ~Fed(r)
  /\ pc[r] = "send" => Fed(r) /\ hidden[r] = Tokens(Round) /\ ~Stopped
  /\ pc[r] = "token" => r = 0 /\ Fed(r)
  /\ pc[r] = "decide" => /\ r = 0 /\ decision[0] # "none"
                         /\ decision[0] = "Continue" => step[r] + 1 = Round
  /\ pc[r] = "decision" => r # 0
  /\ pc[r] \in {"load", "start", "forward", "send", "token", "decision"} =>
       decision[r] \notin StopReasons
  /\ pc[r] \in {"finish", "complete", "done"} => decision[r] \in StopReasons

(* The stages feed in order. *)
ChainInv ==
  /\ \A r, q \in Ranks : r <= q /\ Fed(q) => Fed(r)
  /\ \A r \in Ranks : pc[r] = "send" /\ r # LastStage => ~Fed(r + 1)

(* Rank 0 goes on when it has told every rank. *)
ToldInv ==
  /\ decision[0] # "none" => \A q \in Peers(0) \ told : Unobeyed(q)
  /\ decision[0] = "Continue" /\ step[0] = Round => told = Peers(0)

(* What is under way is for the round, and nobody has it yet. *)
Underway(m) ==
  \/ /\ m.kind = "activation" /\ m.from \in Ranks /\ m.from # LastStage /\ m.to = m.from + 1
     /\ m.step = Round /\ m.body = Tokens(Round)
     /\ Fed(m.from) /\ ~Fed(m.to) /\ pc[m.from] # "send"
  \/ /\ m.kind = "token" /\ m.from = LastStage /\ m.to = 0
     /\ m.step = Round /\ \E t \in Vocab : m.body = <<t>>
     /\ Fed(LastStage) /\ ~Stopped /\ pc[LastStage] # "send"
  \/ /\ m.kind = "decision" /\ m.from = 0 /\ m.to \in told
     /\ m.step = step[m.to] /\ m.body = <<decision[0]>>
     /\ decision[0] # "none" /\ Unobeyed(m.to)

NetInv ==
  /\ \A m \in net : m = Message(m.from, m.to, m.kind, m.step, m.body) /\ Underway(m)
  /\ \A m, n \in net : m.kind = "token" /\ n.kind = "token" => m = n

(* The barriers: a rank that is past the second one, or in it, has stopped. *)
Gate(r) ==
  /\ passed[r] <= 2
  /\ pc[r] = "load" => passed[r] = 0 /\ entered[r] = FALSE
  /\ pc[r] = "start" => passed[r] = 0
  /\ pc[r] \in {"forward", "send", "token", "decide", "decision", "finish"} =>
       passed[r] = 1 /\ entered[r] = FALSE
  /\ pc[r] = "complete" => passed[r] = 1
  /\ passed[r] > 1 => decision[r] \in StopReasons
  /\ passed[r] = 1 /\ entered[r] = TRUE => decision[r] \in StopReasons

BarrierInv ==
  /\ \A r \in Ranks : Gate(r)
  /\ \A r \in Ranks : pc[r] = "done" => \A q \in Ranks : decision[q] \in StopReasons

IInv == /\ TypeInv /\ RoundInv /\ (\A r \in Ranks : Stand(r))
        /\ ChainInv /\ ToldInv /\ NetInv /\ BarrierInv

-----------------------------------------------------------------------------
(* What the assumptions say of the sizes. *)
LEMMA Sizes ==
  /\ WorldSize \in Nat /\ WorldSize >= 2 /\ LastStage \in Nat
  /\ 0 \in Ranks /\ LastStage \in Ranks /\ LastStage # 0
  /\ \A r \in Ranks : r \in Nat /\ r <= LastStage /\ (r # LastStage => r + 1 \in Ranks)
  /\ \A r \in Ranks : r # 0 => r - 1 \in Ranks /\ r - 1 # LastStage /\ r - 1 + 1 = r
<1>1. WorldSize \in Nat /\ WorldSize >= 2
  BY WorldSizeAssumption, PipelineAssumption
<1>2. LastStage \in Nat /\ LastStage # 0 /\ 0 \in Ranks /\ LastStage \in Ranks
  BY <1>1 DEF Ranks, LastStage
<1>3. \A r \in Ranks : r \in Nat /\ r <= LastStage /\ (r # LastStage => r + 1 \in Ranks)
  BY <1>1 DEF Ranks, LastStage
<1>4. \A r \in Ranks : r # 0 => r - 1 \in Ranks /\ r - 1 # LastStage /\ r - 1 + 1 = r
  BY <1>1 DEF Ranks, LastStage
<1> QED
  BY <1>1, <1>2, <1>3, <1>4

(* What Jobs says of a request. *)
LEMMA JobFacts ==
  ASSUME NEW j \in Jobs
  PROVE  /\ j.prompt \in Seq(Vocab) /\ Len(j.prompt) \in Nat \ {0}
         /\ j.requested \in Nat \ {0} /\ j.requested <= MaxRequested
         /\ Effective(j) \in Nat \ {0}
         /\ Effective(j) <= j.requested
         /\ Capacity(j) = Len(j.prompt) + Effective(j)
<1>1. /\ j.prompt \in Prompts /\ j.requested \in 1 .. MaxRequested /\ j.prompt # <<>>
      /\ Len(j.prompt) < MaxContext
  BY DEF Jobs
<1>2. j.prompt \in Seq(Vocab) /\ Len(j.prompt) \in Nat \ {0}
  BY <1>1, PipelineAssumption
<1> QED
  BY <1>1, <1>2, PipelineAssumption DEF Effective, Capacity

(* A round feeds what is between its position and the next one's. *)
LEMMA RoundFacts ==
  ASSUME TypeInv, RoundInv
  PROVE  /\ Round \in Nat /\ Position(Round) \in Nat
         /\ Len(job.prompt) \in Nat \ {0} /\ Len(generated) \in Nat
         /\ job.prompt \in Seq(Vocab) /\ generated \in Seq(Vocab)
         /\ Text \in Seq(Vocab) /\ Len(Text) = Len(job.prompt) + Len(generated)
         /\ Tokens(Round) \in Seq(Vocab) /\ Len(Tokens(Round)) # 0
         /\ Position(Round) # Len(job.prompt) + Round
         /\ Position(Round) <= Len(Text)
         /\ Len(job.prompt) + Round <= Len(Text)
         /\ SubSeq(Text, 1, Position(Round)) \o Tokens(Round)
              = SubSeq(Text, 1, Len(job.prompt) + Round)
<1>1. job \in Jobs /\ generated \in Seq(Vocab \ {Eos}) /\ step[0] \in Nat
  BY Sizes DEF TypeInv
<1>2. generated \in Seq(Vocab) /\ Len(generated) \in Nat
  BY <1>1
<1>3. job.prompt \in Seq(Vocab) /\ Len(job.prompt) \in Nat \ {0}
  BY <1>1, JobFacts
<1>4. Round \in Nat /\ Round <= Len(generated)
  BY <1>1, <1>2 DEF Round, RoundInv
<1>5. Text \in Seq(Vocab) /\ Len(Text) = Len(job.prompt) + Len(generated)
  BY <1>2, <1>3 DEF Text
<1>6. Position(Round) \in Nat /\ Position(Round) # Len(job.prompt) + Round /\ Position(Round) <= Len(Text)
      /\ Len(job.prompt) + Round <= Len(Text)
  BY <1>2, <1>3, <1>4, <1>5 DEF Position
<1>7. CASE Round = 0
  <2>1. Tokens(Round) = job.prompt /\ Position(Round) = 0
    BY <1>7 DEF Tokens, Position
  <2>2. SubSeq(Text, 1, 0) = <<>> /\ SubSeq(Text, 1, Len(job.prompt)) = job.prompt
    BY <1>2, <1>3, WholePrefix DEF Text
  <2>3. <<>> \o job.prompt = job.prompt
    BY <1>3, ConcatEmptySeq
  <2>4. Len(job.prompt) + Round = Len(job.prompt)
    BY <1>3, <1>7
  <2> QED
    BY <1>2, <1>3, <1>4, <1>5, <1>6, <2>1, <2>2, <2>3, <2>4
<1>8. CASE Round # 0
  <2>1. Tokens(Round) = <<generated[Round]>> /\ Position(Round) = Len(job.prompt) + Round - 1
    BY <1>8 DEF Tokens, Position
  <2>2. Round \in 1 .. Len(generated)
    BY <1>2, <1>4, <1>8
  <2>3. SubSeq(Text, 1, Len(job.prompt) + Round - 1) \o <<generated[Round]>>
          = SubSeq(Text, 1, Len(job.prompt) + Round)
    BY <1>2, <1>3, <2>2, FeedOne DEF Text
  <2>4. generated[Round] \in Vocab
    BY <1>2, <2>2
  <2>5. <<generated[Round]>> \in Seq(Vocab) /\ Len(<<generated[Round]>>) # 0
    BY <2>4
  <2> QED
    BY <1>2, <1>3, <1>4, <1>5, <1>6, <2>1, <2>3, <2>5
<1> QED
  BY <1>7, <1>8

-----------------------------------------------------------------------------
(* What a step does to the rank that takes it and leaves to the others. *)

Ends(r) ==
  /\ Goto(r, "failed")
  /\ UNCHANGED <<job, step, cache, hidden, decision, generated, told, net, barrier>>

Same(q) ==
  /\ pc'[q] = pc[q] /\ step'[q] = step[q] /\ cache'[q] = cache[q] /\ hidden'[q] = hidden[q]
  /\ decision'[q] = decision[q] /\ passed'[q] = passed[q] /\ entered'[q] = entered[q]

(* A step of one rank leaves the others alone. *)
LEMMA OthersSame ==
  ASSUME TypeInv, NEW r \in Ranks, Progress(r) \/ Ends(r)
  PROVE  job' = job /\ \A q \in Ranks \ {r} : Same(q)
<1>1. ASSUME Load(r)
      PROVE  job' = job /\ \A q \in Ranks \ {r} : Same(q)
  BY <1>1 DEF Load, EnterBarrier, Goto, Same, TypeInv
<1>2. ASSUME Start(r)
      PROVE  job' = job /\ \A q \in Ranks \ {r} : Same(q)
  BY <1>2 DEF Start, PassBarrier, Gathered, Goto, Same, TypeInv
<1>3. ASSUME Finish(r)
      PROVE  job' = job /\ \A q \in Ranks \ {r} : Same(q)
  BY <1>3 DEF Finish, EnterBarrier, Goto, Same, TypeInv
<1>4. ASSUME Complete(r)
      PROVE  job' = job /\ \A q \in Ranks \ {r} : Same(q)
  BY <1>4 DEF Complete, PassBarrier, Gathered, Goto, Same, TypeInv
<1>5. ASSUME ForwardTokens(r)
      PROVE  job' = job /\ \A q \in Ranks \ {r} : Same(q)
  BY <1>5 DEF ForwardTokens, Feed, barrier, Goto, Same, TypeInv
<1>6. ASSUME ForwardHidden(r)
      PROVE  job' = job /\ \A q \in Ranks \ {r} : Same(q)
  BY <1>6 DEF ForwardHidden, Feed, barrier, Goto, Same, TypeInv
<1>7. ASSUME SendActivation(r)
      PROVE  job' = job /\ \A q \in Ranks \ {r} : Same(q)
  BY <1>7 DEF SendActivation, barrier, Goto, Same, TypeInv
<1>8. ASSUME NEW t \in Vocab, SendToken(r, t)
      PROVE  job' = job /\ \A q \in Ranks \ {r} : Same(q)
  BY <1>8 DEF SendToken, barrier, Goto, Same, TypeInv
<1>9. ASSUME RecvToken(r)
      PROVE  job' = job /\ \A q \in Ranks \ {r} : Same(q)
  BY <1>9 DEF RecvToken, barrier, Goto, Same, TypeInv
<1>10. ASSUME NEW d \in Peers(0), SendDecision(r, d)
      PROVE  job' = job /\ \A q \in Ranks \ {r} : Same(q)
  BY <1>10 DEF SendDecision, barrier, Goto, Same, TypeInv
<1>11. ASSUME Decided(r)
      PROVE  job' = job /\ \A q \in Ranks \ {r} : Same(q)
  BY <1>11 DEF Decided, Obey, barrier, Goto, Same, TypeInv
<1>12. ASSUME RecvDecision(r)
      PROVE  job' = job /\ \A q \in Ranks \ {r} : Same(q)
  BY <1>12 DEF RecvDecision, Obey, barrier, Goto, Same, TypeInv
<1>13. ASSUME Ends(r)
      PROVE  job' = job /\ \A q \in Ranks \ {r} : Same(q)
  BY <1>13 DEF Ends, barrier, Goto, Same, TypeInv
<1> QED
  BY <1>1, <1>2, <1>3, <1>4, <1>5, <1>6, <1>7, <1>8, <1>9, <1>10, <1>11, <1>12, <1>13 DEF Progress

(* As long as the decision of rank 0 stands, so does the round. *)
LEMMA Steady ==
  ASSUME job' = job, generated' = generated, decision'[0] = decision[0],
         step'[0] = step[0] \/ decision[0] = "Continue"
  PROVE  /\ Round' = Round /\ Text' = Text
         /\ Tokens(Round)' = Tokens(Round) /\ Position(Round)' = Position(Round)
         /\ Stopped' <=> Stopped
         /\ RoundInv => RoundInv'
<1>1. Round' = Round
  BY DEF Round
<1>2. Text' = Text /\ Tokens(Round)' = Tokens(Round) /\ Position(Round)' = Position(Round)
  BY <1>1 DEF Text, Tokens, Position
<1>3. Effective(job)' = Effective(job)
  BY DEF Effective
<1>4. RoundInv => RoundInv'
  BY <1>1, <1>3 DEF RoundInv
<1> QED
  BY <1>1, <1>2, <1>4 DEF Stopped

LEMMA StandKept ==
  ASSUME NEW q, Stand(q), job' = job, Round' = Round, Text' = Text, Tokens(Round)' = Tokens(Round),
         Position(Round)' = Position(Round), decision'[0] = decision[0], Same(q)
  PROVE  Stand(q)'
BY DEF Stand, Same, Fed, Stopped

LEMMA FedKept ==
  ASSUME NEW q, job' = job, Round' = Round, cache'[q] = cache[q]
  PROVE  Fed(q)' <=> Fed(q)
BY DEF Fed

LEMMA UnobeyedKept ==
  ASSUME NEW q, Round' = Round, decision'[0] = decision[0], step'[q] = step[q], decision'[q] = decision[q]
  PROVE  Unobeyed(q)' <=> Unobeyed(q)
BY DEF Unobeyed

(* The invariant without the barriers. *)
Core == /\ TypeInv /\ RoundInv /\ (\A r \in Ranks : Stand(r))
        /\ ChainInv /\ ToldInv /\ NetInv

LEMMA CoreInit ==
  ASSUME Init PROVE Core
<1>1. job \in Jobs /\ 0 \in Ranks /\ decision[0] = "none" /\ step[0] = 0 /\ generated = <<>>
  BY Sizes DEF Init
<1>2. /\ job.prompt \in Seq(Vocab) /\ Len(job.prompt) \in Nat \ {0} /\ Effective(job) \in Nat \ {0}
  BY <1>1, JobFacts
<1>3. Round = 0 /\ Position(Round) = 0 /\ ~Stopped
  BY <1>1 DEF Round, Position, Stopped, StopReasons
<1>4. TypeInv
  BY <1>1 DEF Init, TypeInv, Running, Decisions
<1>5. RoundInv
  BY <1>1, <1>2, <1>3 DEF RoundInv
<1>6. ASSUME NEW r \in Ranks
      PROVE  Stand(r) /\ ~Fed(r) /\ pc[r] # "send"
  <2>1. cache[r] = <<>> /\ step[r] = 0 /\ decision[r] = "none" /\ pc[r] = "load"
    BY DEF Init
  <2>2. Len(cache[r]) = 0 /\ ~Fed(r)
    BY <1>2, <1>3, <2>1 DEF Fed
  <2>3. SubSeq(Text, 1, 0) = <<>>
    <3>1. generated \in Seq(Vocab)
      BY <1>1
    <3> QED
      BY <1>2, <3>1, WholePrefix DEF Text
  <2> QED
    BY <1>3, <2>1, <2>2, <2>3 DEF Stand, StopReasons
<1>7. ChainInv
  BY <1>6 DEF ChainInv
<1>8. ToldInv /\ NetInv
  BY <1>1 DEF Init, ToldInv, NetInv
<1> QED
  BY <1>4, <1>5, <1>6, <1>7, <1>8 DEF Core

(* A step that feeds nothing, decides nothing and obeys nothing leaves     *)
(* most as it is.                                                          *)
LEMMA Settled ==
  ASSUME Core, NEW r \in Ranks, job' = job, step' = step, cache' = cache, hidden' = hidden,
         decision' = decision, generated' = generated,
         \A q \in Ranks \ {r} : Same(q),
         Stand(r) /\ Round' = Round /\ Tokens(Round)' = Tokens(Round) => Stand(r)',
         pc'[r] # "send" \/ pc[r] = "send"
  PROVE  /\ RoundInv' /\ \A q \in Ranks : Stand(q)'
         /\ ChainInv'
         /\ Round' = Round /\ Tokens(Round)' = Tokens(Round) /\ (Stopped' <=> Stopped)
         /\ \A q \in Ranks : Fed(q)' <=> Fed(q)
         /\ \A q \in Ranks : Unobeyed(q)' <=> Unobeyed(q)
         /\ \A m : Underway(m) /\ told \subseteq told' => Underway(m)'
<1>1. /\ Round' = Round /\ Text' = Text /\ Tokens(Round)' = Tokens(Round)
      /\ Position(Round)' = Position(Round) /\ (Stopped' <=> Stopped) /\ RoundInv'
  BY Steady DEF Core
<1>2. \A q \in Ranks : Fed(q)' <=> Fed(q)
  BY <1>1, FedKept
<1>3. \A q \in Ranks : Unobeyed(q)' <=> Unobeyed(q)
  BY <1>1, UnobeyedKept
<1>4. ASSUME NEW q \in Ranks
      PROVE  Stand(q)'
  <2>1. CASE q = r
    BY <1>1, <2>1 DEF Core
  <2>2. CASE q # r
    BY <1>1, <2>2, StandKept DEF Core
  <2> QED
    BY <2>1, <2>2
<1>5. \A q \in Ranks : pc'[q] = "send" => pc[q] = "send"
  BY DEF Same
<1>6. ChainInv'
  BY <1>2, <1>5, Sizes DEF Core, ChainInv
<1>7. ASSUME NEW m, Underway(m), told \subseteq told'
      PROVE  Underway(m)'
  <2>1. LastStage \in Ranks /\ told \subseteq Ranks /\ \A q \in Ranks : q # LastStage => q + 1 \in Ranks
    BY Sizes DEF Core, TypeInv, Peers
  <2>2. CASE m.kind = "activation"
    BY <1>1, <1>2, <1>5, <1>7, <2>1, <2>2 DEF Underway
  <2>3. CASE m.kind = "token"
    BY <1>1, <1>2, <1>5, <1>7, <2>1, <2>3 DEF Underway
  <2>4. CASE m.kind = "decision"
    BY <1>1, <1>3, <1>7, <2>1, <2>4 DEF Underway
  <2> QED
    BY <1>7, <2>2, <2>3, <2>4 DEF Underway
<1> QED
  BY <1>1, <1>2, <1>3, <1>4, <1>6, <1>7

LEMMA QuietStep ==
  ASSUME Core, NEW r \in Ranks, Load(r) \/ Start(r) \/ Finish(r) \/ Complete(r) \/ Ends(r)
  PROVE  Core'
<1>1. /\ job' = job /\ step' = step /\ cache' = cache /\ hidden' = hidden /\ decision' = decision
      /\ generated' = generated /\ told' = told /\ net' = net
  BY DEF Load, Start, Finish, Complete, Ends, EnterBarrier, PassBarrier, Gathered
<1>2. /\ pc'[r] \in {"start", "forward", "complete", "done", "failed"}
      /\ pc'[r] = "start" => pc[r] = "load"
      /\ pc'[r] = "forward" => pc[r] = "start"
      /\ pc'[r] \in {"complete", "done"} => pc[r] \in {"finish", "complete"}
  BY DEF Core, TypeInv, Load, Start, Finish, Complete, Ends, EnterBarrier, PassBarrier, Gathered, Goto
<1>3. TypeInv'
  <2>1. passed' \in [Ranks -> Nat]
    <3>1. passed \in [Ranks -> Nat]
      BY DEF Core, TypeInv
    <3>2. passed' = passed \/ passed' = [passed EXCEPT ![r] = @ + 1]
      BY DEF Load, Start, Finish, Complete, Ends, EnterBarrier, PassBarrier, Gathered, barrier
    <3> QED
      BY <3>1, <3>2
  <2>2. entered' \in [Ranks -> BOOLEAN]
    <3>1. entered \in [Ranks -> BOOLEAN]
      BY DEF Core, TypeInv
    <3>2. \/ entered' = entered \/ entered' = [entered EXCEPT ![r] = TRUE]
          \/ entered' = [entered EXCEPT ![r] = FALSE]
      BY DEF Load, Start, Finish, Complete, Ends, EnterBarrier, PassBarrier, Gathered, barrier
    <3> QED
      BY <3>1, <3>2
  <2>3. pc' \in [Ranks -> Running \union Ended]
    <3>1. pc \in [Ranks -> Running \union Ended]
      BY DEF Core, TypeInv
    <3>2. \E l \in {"start", "forward", "complete", "done", "failed"} : pc' = [pc EXCEPT ![r] = l]
      BY DEF Load, Start, Finish, Complete, Ends, EnterBarrier, PassBarrier, Gathered, Goto
    <3> QED
      BY <3>1, <3>2 DEF Running, Ended
  <2> QED
    BY <1>1, <2>1, <2>2, <2>3 DEF Core, TypeInv
<1>4. \A q \in Ranks \ {r} : Same(q)
  BY OthersSame DEF Core, Progress
<1>5. ASSUME Stand(r), Round' = Round, Tokens(Round)' = Tokens(Round)
      PROVE  Stand(r)'
  <2>1. Text' = Text /\ Position(Round)' = Position(Round) /\ (Fed(r)' <=> Fed(r)) /\ (Stopped' <=> Stopped)
    BY <1>1, <1>5 DEF Text, Position, Fed, Stopped
  <2>2. pc[r] = "start" => step[r] = Round /\ ~Fed(r)
    <3>1. Round \in Nat /\ Len(job.prompt) \in Nat \ {0} /\ Position(Round) \in Nat
      BY RoundFacts DEF Core
    <3>2. pc[r] = "start" => Len(cache[r]) = 0
      BY <1>5 DEF Stand
    <3>3. pc[r] = "start" => ~Fed(r)
      BY <3>1, <3>2 DEF Fed
    <3>4. pc[r] = "start" => Round = 0
      BY <1>5, <3>1, <3>2, <3>3 DEF Stand, Position
    <3>5. step[r] \in Nat /\ (Round = 0 => step[r] = Round)
      BY <1>5, <3>1 DEF Stand, Core, TypeInv
    <3> QED
      BY <3>3, <3>4, <3>5
  <2> QED
    BY <1>1, <1>2, <1>5, <2>1, <2>2 DEF Stand
<1>6. /\ RoundInv' /\ (\A q \in Ranks : Stand(q)') /\ ChainInv'
      /\ Round' = Round
      /\ \A q \in Ranks : Unobeyed(q)' <=> Unobeyed(q)
      /\ \A m : Underway(m) /\ told \subseteq told' => Underway(m)'
  BY <1>1, <1>2, <1>4, <1>5, Settled
<1>7. ToldInv'
  <2>1. Peers(0) \subseteq Ranks
    BY DEF Peers
  <2> QED
    BY <1>1, <1>6, <2>1 DEF Core, ToldInv
<1>8. NetInv'
  BY <1>1, <1>6 DEF Core, NetInv
<1> QED
  BY <1>3, <1>6, <1>7, <1>8 DEF Core

LEMMA SendActivationStep ==
  ASSUME Core, NEW r \in Ranks, SendActivation(r)
  PROVE  Core'
<1>0. PICK m0 : m0 = Message(r, r + 1, "activation", step[r], hidden[r])
  OBVIOUS
<1>1. /\ r # LastStage /\ pc[r] = "send" /\ net' = net \union {m0}
      /\ pc' = [pc EXCEPT ![r] = IF r = 0 THEN "token" ELSE "decision"]
      /\ job' = job /\ step' = step /\ cache' = cache /\ hidden' = hidden /\ decision' = decision
      /\ generated' = generated /\ told' = told /\ passed' = passed /\ entered' = entered
  BY <1>0 DEF SendActivation, Post, Goto, barrier
<1>2. /\ m0.from = r /\ m0.to = r + 1 /\ m0.kind = "activation" /\ m0.step = step[r] /\ m0.body = hidden[r]
      /\ m0 = Message(m0.from, m0.to, m0.kind, m0.step, m0.body)
  BY <1>0 DEF Message
<1>3. TypeInv' /\ pc'[r] = IF r = 0 THEN "token" ELSE "decision"
  <2>1. pc \in [Ranks -> Running \union Ended]
    BY DEF Core, TypeInv
  <2>2. pc' \in [Ranks -> Running \union Ended] /\ pc'[r] = IF r = 0 THEN "token" ELSE "decision"
    BY <1>1, <2>1 DEF Running
  <2> QED
    BY <1>1, <2>2 DEF Core, TypeInv
<1>4. \A q \in Ranks \ {r} : Same(q)
  BY OthersSame DEF Core, Progress
<1>5. /\ Fed(r) /\ hidden[r] = Tokens(Round) /\ step[r] = Round /\ ~Fed(r + 1)
  BY <1>1 DEF Core, Stand, ChainInv
<1>6. ASSUME Stand(r), Round' = Round, Tokens(Round)' = Tokens(Round)
      PROVE  Stand(r)'
  <2>1. Text' = Text /\ Position(Round)' = Position(Round) /\ (Fed(r)' <=> Fed(r)) /\ (Stopped' <=> Stopped)
    BY <1>1, <1>6 DEF Text, Position, Fed, Stopped
  <2> QED
    BY <1>1, <1>3, <1>5, <1>6, <2>1 DEF Stand
<1>7. /\ RoundInv' /\ (\A q \in Ranks : Stand(q)') /\ ChainInv'
      /\ Round' = Round /\ Tokens(Round)' = Tokens(Round)
      /\ \A q \in Ranks : Fed(q)' <=> Fed(q)
      /\ \A q \in Ranks : Unobeyed(q)' <=> Unobeyed(q)
      /\ \A m : Underway(m) /\ told \subseteq told' => Underway(m)'
  BY <1>1, <1>3, <1>4, <1>6, Settled
<1>8. ToldInv'
  <2>1. Peers(0) \subseteq Ranks
    BY DEF Peers
  <2> QED
    BY <1>1, <1>7, <2>1 DEF Core, ToldInv
<1>9. Underway(m0)'
  <2>1. r + 1 \in Ranks
    BY <1>1, Sizes
  <2> QED
    BY <1>1, <1>2, <1>3, <1>5, <1>7, <2>1 DEF Underway
<1>10. NetInv'
  BY <1>1, <1>2, <1>7, <1>9 DEF Core, NetInv
<1> QED
  BY <1>3, <1>7, <1>8, <1>10 DEF Core

LEMMA SendTokenStep ==
  ASSUME Core, NEW r \in Ranks, NEW t \in Vocab, SendToken(r, t)
  PROVE  Core'
<1>0. PICK m0 : m0 = Message(r, 0, "token", step[r], <<t>>)
  OBVIOUS
<1>1. /\ r = LastStage /\ pc[r] = "send" /\ net' = net \union {m0}
      /\ pc' = [pc EXCEPT ![r] = "decision"]
      /\ job' = job /\ step' = step /\ cache' = cache /\ hidden' = hidden /\ decision' = decision
      /\ generated' = generated /\ told' = told /\ passed' = passed /\ entered' = entered
  BY <1>0 DEF SendToken, Post, Goto, barrier
<1>2. /\ m0.from = r /\ m0.to = 0 /\ m0.kind = "token" /\ m0.step = step[r] /\ m0.body = <<t>>
      /\ m0 = Message(m0.from, m0.to, m0.kind, m0.step, m0.body)
  BY <1>0 DEF Message
<1>3. TypeInv' /\ pc'[r] = "decision" /\ r # 0
  <2>1. pc \in [Ranks -> Running \union Ended]
    BY DEF Core, TypeInv
  <2>2. pc' \in [Ranks -> Running \union Ended] /\ pc'[r] = "decision"
    BY <1>1, <2>1 DEF Running
  <2> QED
    BY <1>1, <2>2, Sizes DEF Core, TypeInv
<1>4. \A q \in Ranks \ {r} : Same(q)
  BY OthersSame DEF Core, Progress
<1>5. Fed(r) /\ step[r] = Round /\ ~Stopped
  BY <1>1 DEF Core, Stand
<1>6. ASSUME Stand(r), Round' = Round, Tokens(Round)' = Tokens(Round)
      PROVE  Stand(r)'
  <2>1. Text' = Text /\ Position(Round)' = Position(Round) /\ (Fed(r)' <=> Fed(r)) /\ (Stopped' <=> Stopped)
    BY <1>1, <1>6 DEF Text, Position, Fed, Stopped
  <2> QED
    BY <1>1, <1>3, <1>5, <1>6, <2>1 DEF Stand
<1>7. /\ RoundInv' /\ (\A q \in Ranks : Stand(q)') /\ ChainInv'
      /\ Round' = Round /\ (Stopped' <=> Stopped)
      /\ \A q \in Ranks : Fed(q)' <=> Fed(q)
      /\ \A q \in Ranks : Unobeyed(q)' <=> Unobeyed(q)
      /\ \A m : Underway(m) /\ told \subseteq told' => Underway(m)'
  BY <1>1, <1>3, <1>4, <1>6, Settled
<1>8. ToldInv'
  <2>1. Peers(0) \subseteq Ranks
    BY DEF Peers
  <2> QED
    BY <1>1, <1>7, <2>1 DEF Core, ToldInv
<1>9. Underway(m0)'
  BY <1>1, <1>2, <1>3, <1>5, <1>7 DEF Underway
<1>10. NetInv'
  <2>1. \A m \in net : m.kind # "token"
    BY <1>1 DEF Core, NetInv, Underway
  <2> QED
    BY <1>1, <1>2, <1>7, <1>9, <2>1 DEF Core, NetInv
<1> QED
  BY <1>3, <1>7, <1>8, <1>10 DEF Core

LEMMA SendDecisionStep ==
  ASSUME Core, NEW r \in Ranks, NEW d \in Peers(0), SendDecision(r, d)
  PROVE  Core'
<1>0. PICK m0 : m0 = Message(r, d, "decision", step[r], <<decision[r]>>)
  OBVIOUS
<1>1. /\ r = 0 /\ pc[r] = "decide" /\ net' = net \union {m0} /\ d \notin told /\ told' = told \union {d}
      /\ job' = job /\ pc' = pc /\ step' = step /\ cache' = cache /\ hidden' = hidden
      /\ decision' = decision
      /\ generated' = generated /\ passed' = passed /\ entered' = entered
  BY <1>0 DEF SendDecision, Post, barrier
<1>2. /\ m0.from = r /\ m0.to = d /\ m0.kind = "decision" /\ m0.step = step[r] /\ m0.body = <<decision[r]>>
      /\ m0 = Message(m0.from, m0.to, m0.kind, m0.step, m0.body)
  BY <1>0 DEF Message
<1>3. TypeInv'
  BY <1>1 DEF Core, TypeInv
<1>4. \A q \in Ranks \ {r} : Same(q)
  BY OthersSame DEF Core, Progress
<1>5. /\ decision[0] # "none" /\ (decision[0] = "Continue" => step[0] + 1 = Round)
      /\ Unobeyed(d) /\ d \in Ranks /\ decision[0] \in Decisions /\ step[0] \in Nat /\ step[d] \in Nat
  <2>1. decision[0] # "none" /\ (decision[0] = "Continue" => step[0] + 1 = Round)
    BY <1>1 DEF Core, Stand
  <2>2. d \in Ranks /\ 0 \in Ranks
    BY Sizes DEF Peers
  <2> QED
    BY <1>1, <2>1, <2>2 DEF Core, ToldInv, TypeInv
<1>6. step[d] = step[0]
  <2>1. CASE decision[0] = "Continue"
    BY <1>5, <2>1 DEF Unobeyed
  <2>2. CASE decision[0] # "Continue"
    <3>1. Stopped
      BY <1>5, <2>2 DEF Stopped, Decisions
    <3>2. 0 \in Ranks /\ d \in Ranks
      BY <1>5, Sizes
    <3>3. step[d] = Round /\ step[0] = Round
      BY <3>1, <3>2 DEF Core, Stand
    <3> QED
      BY <3>3
  <2> QED
    BY <2>1, <2>2
<1>7. ASSUME Stand(r), Round' = Round, Tokens(Round)' = Tokens(Round)
      PROVE  Stand(r)'
  <2>1. Text' = Text /\ Position(Round)' = Position(Round) /\ (Fed(r)' <=> Fed(r)) /\ (Stopped' <=> Stopped)
    BY <1>1, <1>7 DEF Text, Position, Fed, Stopped
  <2> QED
    BY <1>1, <1>7, <2>1 DEF Stand
<1>8. /\ RoundInv' /\ (\A q \in Ranks : Stand(q)') /\ ChainInv'
      /\ Round' = Round
      /\ \A q \in Ranks : Unobeyed(q)' <=> Unobeyed(q)
      /\ \A m : Underway(m) /\ told \subseteq told' => Underway(m)'
  BY <1>1, <1>4, <1>7, Settled
<1>9. ToldInv'
  <2>1. Peers(0) \subseteq Ranks
    BY DEF Peers
  <2>2. decision[0] = "Continue" => step[0] # Round
    BY <1>5
  <2> QED
    BY <1>1, <1>8, <2>1, <2>2 DEF Core, ToldInv
<1>10. Underway(m0)'
  BY <1>1, <1>2, <1>5, <1>6, <1>8 DEF Underway
<1>11. NetInv'
  BY <1>1, <1>2, <1>8, <1>10 DEF Core, NetInv
<1> QED
  BY <1>3, <1>8, <1>9, <1>11 DEF Core

(* A stage that feeds the tokens of the round. *)
LEMMA FeedStep ==
  ASSUME Core, NEW r \in Ranks, pc[r] = "forward", Feed(r, Tokens(Round)), Goto(r, "send"),
         job' = job, step' = step, decision' = decision, generated' = generated, told' = told,
         passed' = passed, entered' = entered,
         net' \subseteq net, \A m \in net' : m.kind = "activation" => m.to # r,
         r # 0 => Fed(r - 1) /\ pc[r - 1] # "send",
         \A q \in Ranks \ {r} : Same(q)
  PROVE  Core'
<1>1. /\ Round \in Nat /\ Position(Round) \in Nat /\ Len(job.prompt) \in Nat \ {0}
      /\ Text \in Seq(Vocab) /\ Tokens(Round) \in Seq(Vocab)
      /\ Position(Round) # Len(job.prompt) + Round
      /\ Len(job.prompt) + Round <= Len(Text)
      /\ SubSeq(Text, 1, Position(Round)) \o Tokens(Round) = SubSeq(Text, 1, Len(job.prompt) + Round)
  BY RoundFacts DEF Core
<1>2. /\ step[r] = Round /\ ~Fed(r) /\ ~Stopped /\ decision[r] \notin StopReasons
      /\ cache[r] = SubSeq(Text, 1, Position(Round))
  BY DEF Core, Stand
<1>3. /\ Round' = Round /\ Text' = Text /\ Tokens(Round)' = Tokens(Round)
      /\ Position(Round)' = Position(Round) /\ (Stopped' <=> Stopped) /\ RoundInv'
  BY Steady DEF Core
<1>4. /\ pc \in [Ranks -> Running \union Ended] /\ cache \in [Ranks -> Seq(Vocab)]
      /\ hidden \in [Ranks -> Seq(Vocab)]
  BY DEF Core, TypeInv
<1>5. /\ pc'[r] = "send" /\ hidden'[r] = Tokens(Round)
      /\ cache'[r] = SubSeq(Text, 1, Len(job.prompt) + Round)
  BY <1>1, <1>2, <1>4 DEF Feed, Goto
<1>6. Len(cache'[r]) = Len(job.prompt) + Round
  <2>1. Len(job.prompt) + Round \in 0 .. Len(Text)
    BY <1>1
  <2>2. Len(SubSeq(Text, 1, Len(job.prompt) + Round)) = Len(job.prompt) + Round
    BY <1>1, <2>1
  <2> QED
    BY <1>5, <2>2
<1>7. Fed(r)'
  BY <1>3, <1>6 DEF Fed
<1>8. \A q \in Ranks \ {r} : Fed(q)' <=> Fed(q)
  BY <1>3, FedKept DEF Same
<1>9. TypeInv'
  <2>1. pc' \in [Ranks -> Running \union Ended]
    BY <1>4 DEF Goto, Running
  <2>2. hidden' \in [Ranks -> Seq(Vocab)]
    BY <1>1, <1>4 DEF Feed
  <2>3. cache' \in [Ranks -> Seq(Vocab)]
    <3>1. cache[r] \o Tokens(Round) \in Seq(Vocab)
      BY <1>1, <1>4
    <3> QED
      BY <1>4, <3>1 DEF Feed
  <2> QED
    BY <2>1, <2>2, <2>3 DEF Core, TypeInv
<1>10. ASSUME NEW q \in Ranks
       PROVE  Stand(q)'
  <2>1. CASE q = r
    <3>1. cache'[r] = SubSeq(Text', 1, Len(cache'[r]))
      BY <1>3, <1>5, <1>6
    <3>2. step'[r] = Round' /\ hidden'[r] = Tokens(Round)' /\ decision'[r] = decision[r]
      BY <1>2, <1>3, <1>5
    <3> QED
      BY <1>2, <1>3, <1>5, <1>7, <2>1, <3>1, <3>2 DEF Stand
  <2>2. CASE q # r
    BY <1>3, <2>2, StandKept DEF Core
  <2> QED
    BY <2>1, <2>2
<1>11. ChainInv'
  <2>1. ASSUME NEW x \in Ranks, NEW y \in Ranks, x <= y, Fed(y)'
        PROVE  Fed(x)'
    <3>1. CASE x = r
      BY <1>7, <3>1
    <3>2. CASE x # r /\ y # r
      BY <1>8, <2>1, <3>2 DEF Core, ChainInv
    <3>3. CASE x # r /\ y = r
      <4>1. x \in Nat /\ r \in Nat
        BY Sizes
      <4>2. r # 0 /\ x <= r - 1
        BY <2>1, <3>3, <4>1
      <4>3. r - 1 \in Ranks /\ Fed(r - 1)
        BY <4>2, Sizes
      <4>4. Fed(x)
        BY <4>2, <4>3 DEF Core, ChainInv
      <4> QED
        BY <1>8, <3>3, <4>4
    <3> QED
      BY <3>1, <3>2, <3>3
  <2>2. ASSUME NEW x \in Ranks, pc'[x] = "send", x # LastStage
        PROVE  ~Fed(x + 1)'
    <3>1. x + 1 \in Ranks /\ x \in Nat /\ r \in Nat /\ x + 1 # x /\ x <= x + 1
      BY <2>2, Sizes
    <3>2. CASE x = r
      <4>1. ~Fed(x + 1)
        BY <1>2, <3>1, <3>2 DEF Core, ChainInv
      <4> QED
        BY <1>8, <3>1, <3>2, <4>1
    <3>3. CASE x # r
      <4>1. pc[x] = "send"
        BY <2>2, <3>3 DEF Same
      <4>2. x + 1 # r
        <5>1. x + 1 = r => r # 0 /\ r - 1 = x
          BY <3>1
        <5> QED
          BY <4>1, <5>1
      <4>3. ~Fed(x + 1)
        BY <2>2, <4>1 DEF Core, ChainInv
      <4> QED
        BY <1>8, <3>1, <4>2, <4>3
    <3> QED
      BY <3>2, <3>3
  <2> QED
    BY <2>1, <2>2 DEF ChainInv
<1>12. \A q \in Ranks : Unobeyed(q)' <=> Unobeyed(q)
  BY <1>3, UnobeyedKept
<1>13. ToldInv'
  <2>1. Peers(0) \subseteq Ranks
    BY DEF Peers
  <2> QED
    BY <1>3, <1>12, <2>1 DEF Core, ToldInv
<1>14. ASSUME NEW m \in net'
       PROVE  Underway(m)'
  <2>1. Underway(m) /\ m \in net /\ (m.kind = "activation" => m.to # r)
    BY <1>14 DEF Core, NetInv
  <2>2. LastStage \in Ranks /\ told \subseteq Ranks /\ \A q \in Ranks : q # LastStage => q + 1 \in Ranks
    BY Sizes DEF Core, TypeInv, Peers
  <2>3. CASE m.kind = "activation"
    <3>1. /\ m.from \in Ranks /\ m.from # LastStage /\ m.to = m.from + 1
          /\ m.step = Round /\ m.body = Tokens(Round)
          /\ Fed(m.from) /\ ~Fed(m.to) /\ pc[m.from] # "send"
      BY <2>1, <2>3 DEF Underway
    <3>2. m.from # r /\ m.to \in Ranks \ {r}
      BY <1>2, <2>1, <2>2, <2>3, <3>1
    <3>3. Fed(m.from)' /\ ~Fed(m.to)' /\ pc'[m.from] # "send"
      BY <1>8, <3>1, <3>2 DEF Same
    <3> QED
      BY <1>3, <2>3, <3>1, <3>3 DEF Underway
  <2>4. CASE m.kind = "token"
    <3>1. /\ m.from = LastStage /\ m.to = 0 /\ m.step = Round /\ \E t \in Vocab : m.body = <<t>>
          /\ Fed(LastStage) /\ ~Stopped /\ pc[LastStage] # "send"
      BY <2>1, <2>4 DEF Underway
    <3>2. LastStage # r
      BY <1>2, <3>1
    <3>3. Fed(LastStage)' /\ pc'[LastStage] # "send"
      BY <1>8, <2>2, <3>1, <3>2 DEF Same
    <3> QED
      BY <1>3, <2>4, <3>1, <3>3 DEF Underway
  <2>5. CASE m.kind = "decision"
    BY <1>12, <2>1, <2>2, <2>5 DEF Underway
  <2> QED
    BY <2>1, <2>3, <2>4, <2>5 DEF Underway
<1>15. NetInv'
  BY <1>14 DEF Core, NetInv
<1> QED
  BY <1>3, <1>9, <1>10, <1>11, <1>13, <1>15 DEF Core

LEMMA ForwardTokensStep ==
  ASSUME Core, NEW r \in Ranks, ForwardTokens(r)
  PROVE  Core'
<1>1. /\ r = 0 /\ pc[r] = "forward" /\ Goto(r, "send")
      /\ Feed(r, IF step[r] = 0 THEN job.prompt ELSE <<generated[Len(generated)]>>)
      /\ job' = job /\ step' = step /\ decision' = decision /\ generated' = generated /\ told' = told
      /\ net' = net /\ passed' = passed /\ entered' = entered
  BY DEF ForwardTokens, barrier
<1>2. step[r] = Round /\ ~Fed(r) /\ decision[0] \in {"none", "Continue"}
  BY <1>1, Sizes DEF Core, Stand, TypeInv, Decisions
<1>3. Tokens(Round) = IF step[r] = 0 THEN job.prompt ELSE <<generated[Len(generated)]>>
  BY <1>1, <1>2 DEF Tokens, Round, Core, RoundInv
<1>4. \A m \in net : m.kind = "activation" => m.to # r
  <2>1. \A q \in Ranks : q + 1 # 0
    BY Sizes
  <2> QED
    BY <1>1, <2>1 DEF Core, NetInv, Underway
<1>5. \A q \in Ranks \ {r} : Same(q)
  BY OthersSame DEF Core, Progress
<1>6. Feed(r, Tokens(Round))
  BY <1>1, <1>3
<1> QED
  BY <1>1, <1>4, <1>5, <1>6, FeedStep

LEMMA ForwardHiddenStep ==
  ASSUME Core, NEW r \in Ranks, ForwardHidden(r)
  PROVE  Core'
<1>1. /\ r # 0 /\ pc[r] = "forward" /\ Goto(r, "send")
      /\ job' = job /\ step' = step /\ decision' = decision /\ generated' = generated /\ told' = told
      /\ passed' = passed /\ entered' = entered
  BY DEF ForwardHidden, barrier
<1>2. PICK m \in net : /\ m.from = r - 1 /\ m.to = r /\ m.kind = "activation" /\ m.step = step[r]
                       /\ net' = net \ {m} /\ Feed(r, m.body)
  BY DEF ForwardHidden, Receive
<1>3. /\ m.from = r - 1 /\ m.to = r /\ m.step = Round /\ m.body = Tokens(Round)
      /\ Fed(r - 1) /\ pc[r - 1] # "send"
  BY <1>2 DEF Core, NetInv, Underway
<1>4. ASSUME NEW n \in net', n.kind = "activation", n.to = r
      PROVE  FALSE
  <2>1. n \in net /\ n # m /\ Underway(n) /\ n = Message(n.from, n.to, n.kind, n.step, n.body)
    BY <1>2, <1>4 DEF Core, NetInv
  <2>2. m = Message(m.from, m.to, m.kind, m.step, m.body)
    BY <1>2 DEF Core, NetInv
  <2>3. n.from \in Ranks /\ n.to = n.from + 1 /\ n.step = Round /\ n.body = Tokens(Round)
    BY <1>4, <2>1 DEF Underway
  <2>4. n.from = r - 1
    <3>1. n.from \in Nat /\ r \in Nat
      BY <2>3, Sizes
    <3>2. n.from + 1 = r
      BY <1>4, <2>3
    <3> QED
      BY <3>1, <3>2
  <2> QED
    BY <1>2, <1>3, <1>4, <2>1, <2>2, <2>3, <2>4
<1>5. \A q \in Ranks \ {r} : Same(q)
  BY OthersSame DEF Core, Progress
<1>6. Feed(r, Tokens(Round)) /\ net' \subseteq net /\ \A n \in net' : n.kind = "activation" => n.to # r
  BY <1>2, <1>3, <1>4
<1> QED
  BY <1>1, <1>3, <1>5, <1>6, FeedStep

(* Rank 0 decides when the round is over everywhere. *)
LEMMA RoundOver ==
  ASSUME Core, NEW m \in net, m.kind = "token"
  PROVE  /\ m.step = Round /\ Round = Len(generated) /\ ~Stopped
         /\ \E t \in Vocab : m.body = <<t>>
         /\ net \ {m} = {}
         /\ \A q \in Ranks : /\ Fed(q) /\ step[q] = Round /\ decision[q] \notin StopReasons
                             /\ cache[q] = SubSeq(Text, 1, Len(job.prompt) + Round)
                             /\ pc[q] \in {"token", "decide", "decision", "failed"}
<1>1. /\ m.step = Round /\ (\E t \in Vocab : m.body = <<t>>)
      /\ Fed(LastStage) /\ ~Stopped /\ pc[LastStage] # "send"
  BY DEF Core, NetInv, Underway
<1>2. \A q \in Ranks : q <= LastStage /\ LastStage \in Ranks /\ (q # LastStage => q + 1 \in Ranks)
  BY Sizes
<1>3. \A q \in Ranks : Fed(q)
  BY <1>1, <1>2 DEF Core, ChainInv
<1>4. /\ Round \in Nat /\ Len(job.prompt) \in Nat \ {0}
  BY RoundFacts DEF Core
<1>5. ASSUME NEW q \in Ranks
      PROVE  /\ step[q] = Round /\ decision[q] \notin StopReasons
             /\ cache[q] = SubSeq(Text, 1, Len(job.prompt) + Round)
             /\ pc[q] \in {"token", "decide", "decision", "failed"}
  <2>1. Stand(q) /\ Fed(q) /\ pc[q] \in Running \union Ended
    BY <1>3 DEF Core, TypeInv
  <2>2. step[q] = Round
    BY <2>1 DEF Stand
  <2>3. decision[q] \notin StopReasons
    BY <1>1, <2>1 DEF Stand, Stopped
  <2>4. Len(cache[q]) = Len(job.prompt) + Round
    BY <2>1 DEF Fed
  <2>5. cache[q] = SubSeq(Text, 1, Len(job.prompt) + Round)
    BY <2>1, <2>4 DEF Stand
  <2>6. pc[q] # "send"
    BY <1>1, <1>2, <1>3 DEF Core, ChainInv
  <2>7. Len(cache[q]) # 0
    BY <1>4, <2>4
  <2>8. pc[q] \notin {"load", "start", "forward", "finish", "complete", "done"}
    BY <2>1, <2>3, <2>7 DEF Stand
  <2> QED
    BY <2>1, <2>2, <2>3, <2>5, <2>6, <2>8 DEF Running, Ended
<1>6. 0 \in Ranks /\ decision[0] \in {"none", "Continue"}
  BY <1>1, Sizes DEF Core, TypeInv, Decisions, Stopped
<1>7. Round = Len(generated)
  BY <1>6 DEF Core, RoundInv, Round
<1>8. ASSUME NEW n \in net, n # m
      PROVE  FALSE
  <2>1. Underway(n) /\ n.kind # "token"
    BY <1>8 DEF Core, NetInv
  <2>2. CASE n.kind = "activation"
    BY <1>2, <1>3, <2>1, <2>2 DEF Underway
  <2>3. CASE n.kind = "decision"
    <3>1. n.to \in Ranks /\ decision[0] = "Continue" /\ step[n.to] + 1 = Round
      BY <1>6, <2>1, <2>3 DEF Underway, Unobeyed, Core, TypeInv, Peers
    <3>2. step[n.to] = Round
      BY <1>5, <3>1
    <3> QED
      BY <1>4, <3>1, <3>2
  <2> QED
    BY <2>1, <2>2, <2>3 DEF Underway
<1> QED
  BY <1>1, <1>3, <1>5, <1>7, <1>8

LEMMA RecvTokenStep ==
  ASSUME Core, NEW r \in Ranks, RecvToken(r)
  PROVE  Core'
<1>1. /\ r = 0 /\ pc[r] = "token" /\ pc' = [pc EXCEPT ![r] = "decide"] /\ told' = {}
      /\ job' = job /\ step' = step /\ cache' = cache /\ hidden' = hidden
      /\ passed' = passed /\ entered' = entered
  BY DEF RecvToken, barrier, Goto
<1>2. PICK m \in net : /\ m.kind = "token" /\ net' = net \ {m}
                       /\ decision' = [decision EXCEPT ![r] = Decide(m.body[1])]
                       /\ generated' = generated \o Keep(m.body[1])
  BY DEF RecvToken, Receive
<1>3. /\ Round = Len(generated) /\ ~Stopped
      /\ \E t \in Vocab : m.body = <<t>>
      /\ net' = {}
  BY <1>2, RoundOver
<1>4. \A q \in Ranks : /\ Fed(q) /\ step[q] = Round /\ decision[q] \notin StopReasons
                       /\ cache[q] = SubSeq(Text, 1, Len(job.prompt) + Round)
                       /\ pc[q] \in {"token", "decide", "decision", "failed"}
  BY <1>2, RoundOver
<1>5. PICK t \in Vocab : m.body[1] = t
  BY <1>3
<1>6. /\ pc \in [Ranks -> Running \union Ended] /\ decision \in [Ranks -> Decisions]
      /\ generated \in Seq(Vocab \ {Eos}) /\ 0 \in Ranks /\ job \in Jobs
  BY Sizes DEF Core, TypeInv
<1>7. /\ pc'[0] = "decide" /\ decision'[0] = Decide(t)
      /\ \A q \in Ranks \ {0} : pc'[q] = pc[q] /\ decision'[q] = decision[q]
      /\ \A q \in Ranks \ {0} : pc[q] \in {"decision", "failed"}
  BY <1>1, <1>2, <1>4, <1>5, <1>6 DEF Core, Stand
<1>8. /\ Round \in Nat /\ Len(job.prompt) \in Nat \ {0} /\ Len(generated) \in Nat
      /\ job.prompt \in Seq(Vocab) /\ generated \in Seq(Vocab)
  BY RoundFacts DEF Core
<1>9. Keep(t) \in Seq(Vocab \ {Eos}) /\ Keep(t) \in Seq(Vocab) /\ Len(Keep(t)) \in Nat
  <2>1. CASE t = Eos
    <3>1. Keep(t) = <<>>
      BY <2>1 DEF Keep
    <3> QED
      BY <3>1
  <2>2. CASE t # Eos
    <3>1. Keep(t) = <<t>> /\ t \in Vocab \ {Eos}
      BY <2>2 DEF Keep
    <3> QED
      BY <3>1
  <2> QED
    BY <2>1, <2>2
<1>10. /\ generated' = generated \o Keep(t) /\ generated' \in Seq(Vocab \ {Eos})
       /\ Len(generated') = Len(generated) + Len(Keep(t)) /\ Len(generated') \in Nat
  BY <1>2, <1>5, <1>6, <1>8, <1>9
<1>11. Decide(t) \in {"Continue"} \union StopReasons
  BY DEF Decide, StopReasons
<1>12. TypeInv'
  <2>1. pc' \in [Ranks -> Running \union Ended]
    BY <1>1, <1>6 DEF Running
  <2>2. decision' \in [Ranks -> Decisions]
    BY <1>2, <1>5, <1>6, <1>11 DEF Decisions
  <2> QED
    BY <1>1, <1>10, <2>1, <2>2 DEF Core, TypeInv
<1>13. ASSUME NEW q \in Ranks
       PROVE  /\ cache'[q] = SubSeq(Text', 1, Len(job.prompt) + Round)
              /\ Len(cache'[q]) = Len(job.prompt) + Round
  <2>1. Text' = job.prompt \o (generated \o Keep(t)) /\ Text = job.prompt \o generated
    BY <1>1, <1>10 DEF Text
  <2>2. Len(job.prompt) + Round \in 0 .. Len(job.prompt) + Len(generated)
    BY <1>3, <1>8
  <2>3. SubSeq(Text', 1, Len(job.prompt) + Round) = SubSeq(Text, 1, Len(job.prompt) + Round)
    <3> DEFINE p == job.prompt
               g == generated
               h == Keep(t)
               k == Len(job.prompt) + Round
    <3>1. p \in Seq(Vocab) /\ g \in Seq(Vocab) /\ h \in Seq(Vocab) /\ k \in 0 .. Len(p) + Len(g)
      BY <1>8, <1>9, <2>2
    <3>2. Text' = p \o (g \o h) /\ Text = p \o g
      BY <2>1
    <3> HIDE DEF p, g, h, k
    <3>3. SubSeq(p \o (g \o h), 1, k) = SubSeq(p \o g, 1, k)
      BY <3>1, PrefixKept
    <3> QED
      BY <3>2, <3>3 DEF k
  <2>4. cache'[q] = SubSeq(Text, 1, Len(job.prompt) + Round) /\ Len(cache'[q]) = Len(job.prompt) + Round
    BY <1>1, <1>4 DEF Fed
  <2> QED
    BY <2>3, <2>4
<1>14. Effective(job)' = Effective(job) /\ Round < Effective(job) /\ Effective(job) \in Nat
  BY <1>1, <1>6, JobFacts DEF Effective, Core, RoundInv
<1>15. NetInv'
  BY <1>3 DEF NetInv
<1>16. \A q \in Ranks : step'[q] = Round /\ step'[q] \in Nat /\ pc'[q] \in {"decide", "decision", "failed"}
  BY <1>1, <1>4, <1>7, <1>8
<1>17. CASE Decide(t) = "Continue"
  <2>1. t # Eos /\ Len(generated) + 1 < Effective(job)
    BY <1>17 DEF Decide
  <2>2. Len(generated') = Len(generated) + 1
    BY <1>10, <2>1 DEF Keep
  <2>3. Round' = Round + 1 /\ Round' \in Nat /\ ~Stopped' /\ decision'[0] = "Continue"
    BY <1>3, <1>7, <1>8, <1>17, <2>2 DEF Round, Stopped, StopReasons
  <2>4. RoundInv'
    <3>1. Round' < Effective(job)'
      BY <1>3, <1>14, <2>1, <2>3
    <3>2. Round' <= Len(generated')
      BY <1>3, <1>8, <2>2, <2>3
    <3>3. Round' > 0
      BY <1>8, <2>3
    <3> QED
      BY <2>3, <3>1, <3>2, <3>3 DEF RoundInv
  <2>5. ASSUME NEW q \in Ranks
        PROVE  ~Fed(q)' /\ Len(cache'[q]) = Position(Round)' /\ step'[q] + 1 = Round'
    <3>1. Len(cache'[q]) = Len(job.prompt) + Round /\ job' = job /\ step'[q] = Round
      BY <1>1, <1>13, <1>16
    <3>2. Position(Round)' = Len(job.prompt) + Round
      BY <1>1, <1>8, <2>3 DEF Position
    <3>3. ~Fed(q)'
      <4>1. \A n, k \in Nat : n + k # n + (k + 1)
        OBVIOUS
      <4>2. Fed(q)' => Len(cache'[q]) = Len(job.prompt) + (Round + 1)
        BY <1>1, <2>3 DEF Fed
      <4> QED
        BY <1>8, <3>1, <4>1, <4>2
    <3> QED
      BY <2>3, <3>1, <3>2, <3>3
  <2>6. ASSUME NEW q \in Ranks
        PROVE  Stand(q)'
    <3>1. cache'[q] = SubSeq(Text', 1, Len(cache'[q]))
      BY <1>13
    <3>2. decision'[q] \notin StopReasons
      BY <1>4, <1>7, <2>3 DEF StopReasons
    <3>3. /\ pc'[q] = "decide" => q = 0
          /\ pc'[q] = "decision" => q # 0
      BY <1>7
    <3> QED
      BY <1>16, <2>3, <2>5, <3>1, <3>2, <3>3 DEF Stand
  <2>7. ChainInv'
    BY <1>16, <2>5 DEF ChainInv
  <2>8. ToldInv'
    <3>1. \A q \in Peers(0) : Unobeyed(q)'
      BY <2>3, <2>5 DEF Unobeyed, Peers
    <3>2. step'[0] # Round'
      BY <1>6, <1>16, <2>3
    <3> QED
      BY <3>1, <3>2 DEF ToldInv
  <2> QED
    BY <1>12, <1>15, <2>4, <2>6, <2>7, <2>8 DEF Core
<1>18. CASE Decide(t) # "Continue"
  <2>1. decision'[0] \in StopReasons /\ decision'[0] # "Continue" /\ decision'[0] # "none"
    BY <1>7, <1>11, <1>18 DEF StopReasons
  <2>2. Round' = Round /\ Stopped'
    BY <1>6, <1>16, <2>1 DEF Round, Stopped
  <2>3. RoundInv'
    BY <1>3, <1>8, <1>9, <1>10, <1>14, <2>1, <2>2 DEF RoundInv
  <2>4. \A q \in Ranks : Fed(q)'
    BY <1>1, <1>13, <2>2 DEF Fed
  <2>5. ASSUME NEW q \in Ranks
        PROVE  Stand(q)'
    <3>1. cache'[q] = SubSeq(Text', 1, Len(cache'[q]))
      BY <1>13
    <3>2. decision'[q] \in StopReasons => q = 0
      BY <1>4, <1>7
    <3>3. /\ pc'[q] = "decide" => q = 0
          /\ pc'[q] = "decision" => q # 0
      BY <1>7
    <3> QED
      BY <1>16, <2>1, <2>2, <2>4, <3>1, <3>2, <3>3 DEF Stand
  <2>6. ChainInv'
    BY <1>16, <2>4 DEF ChainInv
  <2>7. ToldInv'
    <3>1. \A q \in Peers(0) : Unobeyed(q)'
      BY <1>4, <1>7, <2>1 DEF Unobeyed, Peers
    <3> QED
      BY <2>1, <3>1 DEF ToldInv
  <2> QED
    BY <1>12, <1>15, <2>3, <2>5, <2>6, <2>7 DEF Core
<1> QED
  BY <1>17, <1>18

(* A rank does what rank 0 has decided. *)
LEMMA ObeyStep ==
  ASSUME Core, NEW r \in Ranks, decision[0] # "none", Obey(r, decision[0]),
         decision[0] = "Continue" => step[r] + 1 = Round,
         decision' = [decision EXCEPT ![r] = decision[0]],
         job' = job, cache' = cache, hidden' = hidden, generated' = generated, told' = told,
         passed' = passed, entered' = entered,
         net' \subseteq net, \A m \in net' : m.kind = "decision" => m.to # r,
         r # 0 => r \in told, r = 0 => told = Peers(0),
         \A q \in Ranks \ {r} : Same(q)
  PROVE  Core'
<1>1. /\ 0 \in Ranks /\ step \in [Ranks -> Nat] /\ pc \in [Ranks -> Running \union Ended]
      /\ decision \in [Ranks -> Decisions] /\ Round \in Nat
  BY Sizes, RoundFacts DEF Core, TypeInv
<1>2. decision'[0] = decision[0] /\ decision'[r] = decision[0] /\ decision[0] \in Decisions
  BY <1>1
<1>3. \/ /\ decision[0] = "Continue" /\ step'[r] = Round /\ pc'[r] = "forward" /\ ~Stopped
         /\ step' \in [Ranks -> Nat] /\ pc' \in [Ranks -> Running \union Ended]
      \/ /\ decision[0] \in StopReasons /\ step' = step /\ pc'[r] = "finish" /\ Stopped
         /\ pc' \in [Ranks -> Running \union Ended]
  <2>1. CASE decision[0] = "Continue"
    <3>1. step' = [step EXCEPT ![r] = @ + 1] /\ pc' = [pc EXCEPT ![r] = "forward"] /\ step[r] + 1 = Round
      BY <2>1 DEF Obey, Goto
    <3>2. step'[r] = Round /\ step' \in [Ranks -> Nat]
      BY <1>1, <3>1
    <3>3. pc'[r] = "forward" /\ pc' \in [Ranks -> Running \union Ended]
      BY <1>1, <3>1 DEF Running
    <3> QED
      BY <2>1, <3>2, <3>3 DEF Stopped, StopReasons
  <2>2. CASE decision[0] # "Continue"
    <3>1. step' = step /\ pc' = [pc EXCEPT ![r] = "finish"] /\ decision[0] \in StopReasons
      BY <1>2, <2>2 DEF Obey, Goto, Decisions
    <3>2. pc'[r] = "finish" /\ pc' \in [Ranks -> Running \union Ended]
      BY <1>1, <3>1 DEF Running
    <3> QED
      BY <3>1, <3>2 DEF Stopped
  <2> QED
    BY <2>1, <2>2
<1>4. /\ Round' = Round /\ Text' = Text /\ Tokens(Round)' = Tokens(Round)
      /\ Position(Round)' = Position(Round) /\ (Stopped' <=> Stopped) /\ RoundInv'
  <2>1. step'[0] = step[0] \/ decision[0] = "Continue"
    BY <1>3
  <2> QED
    BY <1>2, <2>1, Steady DEF Core
<1>5. \A q \in Ranks : Fed(q)' <=> Fed(q)
  BY <1>4, FedKept
<1>6. TypeInv'
  <2>1. step' \in [Ranks -> Nat] /\ pc' \in [Ranks -> Running \union Ended]
    BY <1>1, <1>3
  <2>2. decision' \in [Ranks -> Decisions]
    BY <1>1, <1>2
  <2> QED
    BY <2>1, <2>2 DEF Core, TypeInv
<1>7. ASSUME NEW q \in Ranks
      PROVE  Stand(q)'
  <2>1. CASE q = r
    <3>1. Stand(r)
      BY DEF Core
    <3>2. cache'[r] = SubSeq(Text', 1, Len(cache'[r]))
      BY <1>4, <3>1 DEF Stand
    <3>3. Len(cache'[r]) = Position(Round)' \/ Fed(r)'
      BY <1>4, <1>5, <3>1 DEF Stand
    <3>4. CASE decision[0] = "Continue"
      <4>1. ~Fed(r)
        BY <1>1, <3>1, <3>4 DEF Stand
      <4>2. decision'[r] = "Continue" /\ decision'[r] \notin StopReasons
        BY <1>2, <3>4 DEF StopReasons
      <4>3. step'[r] = Round' /\ pc'[r] = "forward" /\ ~Stopped' /\ ~Fed(r)'
        BY <1>3, <1>4, <1>5, <3>4, <4>1 DEF StopReasons
      <4> QED
        BY <2>1, <3>2, <3>3, <4>2, <4>3 DEF Stand
    <3>5. CASE decision[0] # "Continue"
      <4>1. step'[r] = Round' /\ pc'[r] = "finish" /\ Stopped' /\ Fed(r)'
        BY <1>3, <1>4, <1>5, <3>1, <3>5 DEF Stand
      <4>2. decision'[r] = decision'[0] /\ decision'[r] \in StopReasons
        BY <1>2, <1>3, <3>5
      <4> QED
        BY <2>1, <3>2, <4>1, <4>2 DEF Stand
    <3> QED
      BY <3>4, <3>5
  <2>2. CASE q # r
    BY <1>2, <1>4, <2>2, StandKept DEF Core
  <2> QED
    BY <2>1, <2>2
<1>8. \A q \in Ranks : pc'[q] = "send" => pc[q] = "send"
  BY <1>3 DEF Same
<1>9. ChainInv'
  BY <1>5, <1>8, Sizes DEF Core, ChainInv
<1>10. \A q \in Ranks \ {r} : Unobeyed(q)' <=> Unobeyed(q)
  BY <1>2, <1>4, UnobeyedKept DEF Same
<1>11. ToldInv'
  <2>1. \A q \in Peers(0) \ told : q \in Ranks \ {r}
    BY DEF Peers
  <2>2. decision'[0] = "Continue" /\ step'[0] = Round' => told = Peers(0)
    <3>1. CASE r = 0
      BY <3>1
    <3>2. CASE r # 0
      <4>1. step'[0] = step[0]
        BY <1>1, <3>2 DEF Same
      <4> QED
        BY <1>2, <1>4, <4>1 DEF Core, ToldInv
    <3> QED
      BY <3>1, <3>2
  <2>3. \A q \in Peers(0) \ told : Unobeyed(q)
    BY DEF Core, ToldInv
  <2> QED
    BY <1>10, <2>1, <2>2, <2>3 DEF ToldInv
<1>12. ASSUME NEW m \in net'
       PROVE  Underway(m)'
  <2>1. Underway(m) /\ m \in net /\ (m.kind = "decision" => m.to # r)
    BY <1>12 DEF Core, NetInv
  <2>2. LastStage \in Ranks /\ told \subseteq Ranks /\ \A q \in Ranks : q # LastStage => q + 1 \in Ranks
    BY Sizes DEF Core, TypeInv, Peers
  <2>3. CASE m.kind = "activation"
    BY <1>4, <1>5, <1>8, <2>1, <2>2, <2>3 DEF Underway
  <2>4. CASE m.kind = "token"
    BY <1>4, <1>5, <1>8, <2>1, <2>2, <2>4 DEF Underway
  <2>5. CASE m.kind = "decision"
    <3>1. /\ m.from = 0 /\ m.to \in told /\ m.to \in Ranks \ {r}
          /\ m.step = step[m.to] /\ m.body = <<decision[0]>> /\ Unobeyed(m.to)
      BY <2>1, <2>2, <2>5 DEF Underway
    <3>2. step'[m.to] = step[m.to] /\ Unobeyed(m.to)'
      BY <1>10, <3>1 DEF Same
    <3> QED
      BY <1>2, <2>5, <3>1, <3>2 DEF Underway
  <2> QED
    BY <2>1, <2>3, <2>4, <2>5 DEF Underway
<1>13. NetInv'
  BY <1>12 DEF Core, NetInv
<1> QED
  BY <1>4, <1>6, <1>7, <1>9, <1>11, <1>13 DEF Core

LEMMA DecidedStep ==
  ASSUME Core, NEW r \in Ranks, Decided(r)
  PROVE  Core'
<1>1. /\ r = 0 /\ pc[r] = "decide" /\ told = Peers(0) /\ Obey(r, decision[0])
      /\ job' = job /\ cache' = cache /\ hidden' = hidden /\ decision' = decision
      /\ generated' = generated /\ told' = told /\ net' = net /\ passed' = passed /\ entered' = entered
  BY DEF Decided, barrier
<1>2. decision[0] # "none" /\ (decision[0] = "Continue" => step[r] + 1 = Round)
  BY <1>1 DEF Core, Stand
<1>3. decision' = [decision EXCEPT ![r] = decision[0]]
  <2>1. decision \in [Ranks -> Decisions]
    BY DEF Core, TypeInv
  <2> QED
    BY <1>1, <2>1
<1>4. \A m \in net' : m.kind = "decision" => m.to # r
  BY <1>1 DEF Core, NetInv, Underway, TypeInv, Peers
<1>5. \A q \in Ranks \ {r} : Same(q)
  BY OthersSame DEF Core, Progress
<1> QED
  BY <1>1, <1>2, <1>3, <1>4, <1>5, ObeyStep

LEMMA RecvDecisionStep ==
  ASSUME Core, NEW r \in Ranks, RecvDecision(r)
  PROVE  Core'
<1>1. /\ r # 0 /\ pc[r] = "decision"
      /\ job' = job /\ cache' = cache /\ hidden' = hidden
      /\ generated' = generated /\ told' = told /\ passed' = passed /\ entered' = entered
  BY DEF RecvDecision, barrier
<1>2. PICK m \in net : /\ m.from = 0 /\ m.to = r /\ m.kind = "decision" /\ m.step = step[r]
                       /\ net' = net \ {m} /\ decision' = [decision EXCEPT ![r] = m.body[1]]
                       /\ Obey(r, m.body[1])
  BY DEF RecvDecision, Receive
<1>3. /\ r \in told /\ m.body = <<decision[0]>> /\ decision[0] # "none" /\ Unobeyed(r)
  BY <1>2 DEF Core, NetInv, Underway
<1>4. m.body[1] = decision[0]
  BY <1>3
<1>5. Obey(r, decision[0]) /\ decision' = [decision EXCEPT ![r] = decision[0]]
  BY <1>2, <1>4
<1>6. decision[0] = "Continue" => step[r] + 1 = Round
  BY <1>3 DEF Unobeyed
<1>7. ASSUME NEW n \in net', n.kind = "decision", n.to = r
      PROVE  FALSE
  <2>1. n \in net /\ n # m /\ Underway(n) /\ n = Message(n.from, n.to, n.kind, n.step, n.body)
    BY <1>2, <1>7 DEF Core, NetInv
  <2>2. m = Message(m.from, m.to, m.kind, m.step, m.body)
    BY <1>2 DEF Core, NetInv
  <2>3. n.from = 0 /\ n.step = step[r] /\ n.body = <<decision[0]>>
    BY <1>7, <2>1 DEF Underway
  <2> QED
    BY <1>2, <1>3, <1>7, <2>1, <2>2, <2>3
<1>8. \A q \in Ranks \ {r} : Same(q)
  BY OthersSame DEF Core, Progress
<1>9. net' \subseteq net /\ \A n \in net' : n.kind = "decision" => n.to # r
  BY <1>2, <1>7
<1> QED
  BY <1>1, <1>3, <1>5, <1>6, <1>8, <1>9, ObeyStep

(* The core of the inductive invariant is kept by every step. *)
LEMMA CoreStep ==
  ASSUME Core, [Next]_vars
  PROVE  Core'
<1>1. CASE UNCHANGED vars
  <2>1. /\ job' = job /\ pc' = pc /\ step' = step /\ cache' = cache /\ hidden' = hidden
        /\ decision' = decision /\ generated' = generated /\ told' = told /\ net' = net
        /\ passed' = passed /\ entered' = entered
    BY <1>1 DEF vars, local, barrier
  <2>2. 0 \in Ranks /\ \A q \in Ranks : Same(q)
    BY <2>1, Sizes DEF Same
  <2>3. /\ Round' = Round /\ Text' = Text /\ Tokens(Round)' = Tokens(Round)
        /\ Position(Round)' = Position(Round)
    BY <2>1, Steady
  <2>4. Stand(0)'
    BY <2>1, <2>2, <2>3, StandKept DEF Core
  <2>5. /\ RoundInv' /\ (\A q \in Ranks : Stand(q)') /\ ChainInv'
        /\ \A q \in Ranks : Unobeyed(q)' <=> Unobeyed(q)
        /\ \A m : Underway(m) /\ told \subseteq told' => Underway(m)'
    BY <2>1, <2>2, <2>4, Settled
  <2>6. ToldInv'
    <3>1. Peers(0) \subseteq Ranks
      BY DEF Peers
    <3> QED
      BY <2>1, <2>3, <2>5, <3>1 DEF Core, ToldInv
  <2>7. TypeInv' /\ NetInv'
    BY <2>1, <2>5 DEF Core, TypeInv, NetInv
  <2> QED
    BY <2>5, <2>6, <2>7 DEF Core
<1>2. ASSUME NEW r \in Ranks, TimeOut(r) \/ Crash(r)
      PROVE  Core'
  <2>1. Ends(r)
    BY <1>2 DEF TimeOut, Crash, Ends
  <2> QED
    BY <2>1, QuietStep
<1>3. ASSUME NEW r \in Ranks, Progress(r)
      PROVE  Core'
  <2>1. CASE Load(r) \/ Start(r) \/ Finish(r) \/ Complete(r)
    BY <2>1, QuietStep
  <2>2. CASE ForwardTokens(r)
    BY <2>2, ForwardTokensStep
  <2>3. CASE ForwardHidden(r)
    BY <2>3, ForwardHiddenStep
  <2>4. CASE SendActivation(r)
    BY <2>4, SendActivationStep
  <2>5. CASE \E t \in Vocab : SendToken(r, t)
    BY <2>5, SendTokenStep
  <2>6. CASE RecvToken(r)
    BY <2>6, RecvTokenStep
  <2>7. CASE \E d \in Peers(0) : SendDecision(r, d)
    BY <2>7, SendDecisionStep
  <2>8. CASE Decided(r)
    BY <2>8, DecidedStep
  <2>9. CASE RecvDecision(r)
    BY <2>9, RecvDecisionStep
  <2> QED
    BY <1>3, <2>1, <2>2, <2>3, <2>4, <2>5, <2>6, <2>7, <2>8, <2>9 DEF Progress
<1> QED
  BY <1>1, <1>2, <1>3 DEF Next, AnyProgress

-----------------------------------------------------------------------------
(* The barriers. *)

LEMMA BarrierInit ==
  ASSUME Init PROVE BarrierInv
BY DEF Init, BarrierInv, Gate

LEMMA StopStays ==
  ASSUME Core, NEW r \in Ranks, Progress(r) \/ Ends(r), NEW q \in Ranks, decision[q] \in StopReasons
  PROVE  decision'[q] \in StopReasons
<1>1. CASE q # r
  BY <1>1, OthersSame DEF Same, Core
<1>2. CASE q = r
  <2>1. pc[r] \notin {"token", "decision"}
    BY <1>2 DEF Core, Stand
  <2>2. decision' = decision
    BY <2>1 DEF Progress, Load, Start, Finish, Complete, Ends, EnterBarrier, PassBarrier, Gathered,
       ForwardTokens,
       ForwardHidden, SendActivation, SendToken, RecvToken, SendDecision, Decided, RecvDecision
  <2> QED
    BY <2>2
<1> QED
  BY <1>1, <1>2

(* The steps between the two barriers. *)
Generates(r) ==
  \/ ForwardTokens(r) \/ ForwardHidden(r) \/ SendActivation(r) \/ \E t \in Vocab : SendToken(r, t)
  \/ RecvToken(r) \/ (\E d \in Peers(0) : SendDecision(r, d)) \/ Decided(r) \/ RecvDecision(r)

(* A step of generation leaves the barriers alone. *)
LEMMA BetweenBarriers ==
  ASSUME Core, NEW r \in Ranks, Generates(r)
  PROVE  /\ passed' = passed /\ entered' = entered
         /\ pc[r] \in {"forward", "send", "token", "decide", "decision"}
         /\ pc'[r] \in {"forward", "send", "token", "decide", "decision", "finish"}
<1>0. pc \in [Ranks -> Running \union Ended]
  BY DEF Core, TypeInv
<1>1. CASE ForwardTokens(r) \/ ForwardHidden(r)
  BY <1>0, <1>1 DEF ForwardTokens, ForwardHidden, barrier, Goto
<1>2. CASE SendActivation(r) \/ (\E t \in Vocab : SendToken(r, t))
  BY <1>0, <1>2 DEF SendActivation, SendToken, barrier, Goto
<1>3. CASE RecvToken(r) \/ (\E d \in Peers(0) : SendDecision(r, d))
  BY <1>0, <1>3 DEF RecvToken, SendDecision, barrier, Goto
<1>4. CASE Decided(r) \/ RecvDecision(r)
  <2>1. passed' = passed /\ entered' = entered /\ pc[r] \in {"decide", "decision"} /\ \E d : Obey(r, d)
    BY <1>4 DEF Decided, RecvDecision, barrier
  <2>2. pc' = [pc EXCEPT ![r] = "forward"] \/ pc' = [pc EXCEPT ![r] = "finish"]
    BY <2>1 DEF Obey, Goto
  <2> QED
    BY <1>0, <2>1, <2>2
<1> QED
  BY <1>1, <1>2, <1>3, <1>4 DEF Generates

LEMMA BarrierStep ==
  ASSUME Core, Core', BarrierInv, NEW r \in Ranks, Progress(r) \/ Ends(r)
  PROVE  BarrierInv'
<1>0. Gate(r) /\ Stand(r) /\ passed[r] \in Nat
  BY DEF Core, TypeInv, BarrierInv
<1>1. ASSUME Load(r)
      PROVE  Gate(r)' /\ pc'[r] # "done"
  <2>1. pc[r] = "load" /\ passed' = passed /\ decision' = decision /\ pc'[r] = "start"
    BY <1>1 DEF Load, EnterBarrier, Goto, Core, TypeInv
  <2>2. passed[r] = 0
    BY <1>0, <2>1 DEF Gate
  <2> QED
    BY <2>1, <2>2 DEF Gate
<1>2. ASSUME Start(r)
      PROVE  Gate(r)' /\ pc'[r] # "done"
  <2>1. pc[r] = "start" /\ passed'[r] = passed[r] + 1 /\ entered'[r] = FALSE /\ pc'[r] = "forward"
    BY <1>2 DEF Start, PassBarrier, Gathered, Goto, Core, TypeInv
  <2>2. passed'[r] = 1
    BY <1>0, <2>1 DEF Gate
  <2> QED
    BY <2>1, <2>2 DEF Gate
<1>3. ASSUME Finish(r)
      PROVE  Gate(r)' /\ pc'[r] # "done"
  <2>1. pc[r] = "finish" /\ passed' = passed /\ decision' = decision /\ pc'[r] = "complete"
    BY <1>3 DEF Finish, EnterBarrier, Goto, Core, TypeInv
  <2>2. passed[r] = 1 /\ decision[r] \in StopReasons
    BY <1>0, <2>1 DEF Gate, Stand
  <2> QED
    BY <2>1, <2>2 DEF Gate
<1>4. ASSUME Complete(r)
      PROVE  Gate(r)' /\ \A q \in Ranks : decision[q] \in StopReasons
  <2>1. /\ pc[r] = "complete" /\ decision' = decision /\ pc'[r] = "done" /\ passed'[r] = passed[r] + 1
        /\ \A q \in Peers(r) : passed[q] > passed[r] \/ (passed[q] = passed[r] /\ entered[q] = TRUE)
    BY <1>4 DEF Complete, PassBarrier, Gathered, Goto, Core, TypeInv, Peers
  <2>2. passed[r] = 1 /\ decision[r] \in StopReasons
    BY <1>0, <2>1 DEF Gate, Stand
  <2>3. ASSUME NEW q \in Ranks, q # r
        PROVE  decision[q] \in StopReasons
    BY <2>1, <2>2, <2>3 DEF BarrierInv, Gate, Peers
  <2> QED
    BY <2>1, <2>2, <2>3 DEF Gate
<1>5. ASSUME Generates(r)
      PROVE  Gate(r)' /\ pc'[r] # "done"
  <2>1. /\ passed' = passed /\ entered' = entered
        /\ pc[r] \in {"forward", "send", "token", "decide", "decision"}
        /\ pc'[r] \in {"forward", "send", "token", "decide", "decision", "finish"}
    BY <1>5, BetweenBarriers
  <2>2. passed[r] = 1 /\ entered[r] = FALSE
    BY <1>0, <2>1 DEF Gate
  <2> QED
    BY <2>1, <2>2 DEF Gate
<1>6. ASSUME Ends(r)
      PROVE  Gate(r)' /\ pc'[r] # "done"
  <2>1. pc'[r] = "failed" /\ decision' = decision /\ passed' = passed /\ entered' = entered
    BY <1>6 DEF Ends, Goto, Core, TypeInv, barrier
  <2> QED
    BY <1>0, <2>1 DEF Gate
<1>7. ASSUME NEW q \in Ranks, q # r
      PROVE  Gate(q)' /\ pc'[q] = pc[q]
  BY <1>7, OthersSame DEF Same, BarrierInv, Gate, Core
<1>8. Gate(r)' /\ (pc'[r] = "done" => \A q \in Ranks : decision[q] \in StopReasons)
  BY <1>1, <1>2, <1>3, <1>4, <1>5, <1>6 DEF Progress, Generates
<1>9. ASSUME NEW p \in Ranks, pc'[p] = "done", NEW q \in Ranks
      PROVE  decision'[q] \in StopReasons
  <2>1. decision[q] \in StopReasons
    BY <1>7, <1>8, <1>9 DEF BarrierInv
  <2> QED
    BY <2>1, StopStays
<1> QED
  BY <1>7, <1>8, <1>9 DEF BarrierInv

-----------------------------------------------------------------------------
(* The invariant. *)

LEMMA AlwaysIInv == Spec => []IInv
<1>1. ASSUME Init
      PROVE  IInv
  BY <1>1, CoreInit, BarrierInit DEF Core, IInv
<1>2. ASSUME IInv, [Next]_vars
      PROVE  IInv'
  <2>1. Core /\ BarrierInv
    BY <1>2 DEF IInv, Core
  <2>2. Core'
    BY <1>2, <2>1, CoreStep
  <2>3. ASSUME UNCHANGED vars
        PROVE  BarrierInv'
    BY <2>1, <2>3 DEF BarrierInv, Gate, vars, local, barrier
  <2>4. ASSUME NEW r \in Ranks, Progress(r) \/ TimeOut(r) \/ Crash(r)
        PROVE  BarrierInv'
    <3>1. Progress(r) \/ Ends(r)
      BY <2>4 DEF TimeOut, Crash, Ends
    <3> QED
      BY <2>1, <2>2, <3>1, BarrierStep
  <2>5. BarrierInv'
    BY <1>2, <2>3, <2>4 DEF Next, AnyProgress
  <2> QED
    BY <2>2, <2>5 DEF Core, IInv
<1> QED
  BY <1>1, <1>2, PTL DEF Spec

-----------------------------------------------------------------------------
(* The theorems. *)

(* Where all ranks are when the run is over. *)
LEMMA AllStopped ==
  ASSUME IInv, NEW r \in Ranks, pc[r] = "done"
  PROVE  /\ Stopped
         /\ \A q \in Ranks : /\ decision[q] \in StopReasons /\ decision[q] = decision[0]
                             /\ step[q] = Round /\ Fed(q)
<1>1. \A q \in Ranks : decision[q] \in StopReasons
  BY DEF IInv, BarrierInv
<1>2. Stopped
  BY <1>1, Sizes DEF Stopped
<1>3. \A q \in Ranks : decision[q] = decision[0] /\ step[q] = Round /\ Fed(q)
  BY <1>1, <1>2 DEF IInv, Stand
<1> QED
  BY <1>1, <1>2, <1>3

(* The types, the step bound and the shape of the messages.                *)
THEOREM PipelineTypeOK == Spec => []TypeOK
<1>1. IInv => TypeOK
  <2> SUFFICES ASSUME IInv
               PROVE  TypeOK
    OBVIOUS
  <2>1. /\ job \in Jobs /\ Effective(job) \in Nat \ {0} /\ Effective(job) <= MaxRequested
        /\ MaxRequested \in Nat
    <3>1. job \in Jobs
      BY DEF IInv, TypeInv
    <3>2. Effective(job) \in Nat \ {0} /\ Effective(job) <= job.requested /\ job.requested <= MaxRequested
          /\ job.requested \in Nat
      BY <3>1, JobFacts
    <3> QED
      BY <3>1, <3>2, PipelineAssumption
  <2>2. Round \in Nat /\ Tokens(Round) \in Seq(Vocab)
    BY RoundFacts DEF IInv
  <2>3. step \in [Ranks -> 0 .. MaxRequested - 1]
    <3>1. Round < Effective(job)
      BY DEF IInv, RoundInv
    <3>2. ASSUME NEW r \in Ranks
          PROVE  step[r] \in 0 .. MaxRequested - 1
      <4>1. step[r] \in Nat /\ (step[r] = Round \/ step[r] + 1 = Round)
        BY DEF IInv, TypeInv, Stand
      <4> QED
        BY <2>1, <2>2, <3>1, <4>1
    <3>3. step \in [Ranks -> Nat]
      BY DEF IInv, TypeInv
    <3> QED
      BY <3>2, <3>3
  <2>4. passed \in [Ranks -> 0 .. 2]
    BY DEF IInv, TypeInv, BarrierInv, Gate
  <2>5. ASSUME NEW m \in net
        PROVE  /\ m.from \in Ranks /\ m.to \in Peers(m.from) /\ m.step \in Nat
               /\ [kind |-> m.kind, body |-> m.body] \in Bodies
    <3>1. Underway(m)
      BY DEF IInv, NetInv
    <3>2. CASE m.kind = "activation"
      <4>1. /\ m.from \in Ranks /\ m.from # LastStage /\ m.to = m.from + 1
            /\ m.step = Round /\ m.body = Tokens(Round)
        BY <3>1, <3>2 DEF Underway
      <4>2. m.from \in Nat /\ m.to \in Ranks
        BY <4>1, Sizes
      <4>3. m.to # m.from
        BY <4>1, <4>2
      <4> QED
        BY <2>2, <3>2, <4>1, <4>2, <4>3 DEF Bodies, Peers
    <3>3. CASE m.kind = "token"
      <4>1. m.from = LastStage /\ m.to = 0 /\ m.step = Round /\ \E t \in Vocab : m.body = <<t>>
        BY <3>1, <3>3 DEF Underway
      <4>2. LastStage \in Ranks /\ 0 \in Ranks /\ LastStage # 0
        BY Sizes
      <4> QED
        BY <2>2, <3>3, <4>1, <4>2 DEF Bodies, Peers
    <3>4. CASE m.kind = "decision"
      <4>1. /\ m.from = 0 /\ m.to \in told /\ m.step = step[m.to]
            /\ m.body = <<decision[0]>> /\ decision[0] # "none"
        BY <3>1, <3>4 DEF Underway
      <4>2. 0 \in Ranks /\ m.to \in Peers(0) /\ step[m.to] \in Nat /\ decision[0] \in Decisions \ {"none"}
        BY <4>1, Sizes DEF IInv, TypeInv, Peers
      <4> QED
        BY <3>4, <4>1, <4>2 DEF Bodies
    <3> QED
      BY <3>1, <3>2, <3>3, <3>4 DEF Underway
  <2> QED
    BY <2>3, <2>4, <2>5 DEF TypeOK, IInv, TypeInv
<1> QED
  BY <1>1, AlwaysIInv, PTL

(* When the last stage selects a token, the caches of all stages hold the  *)
(* same tokens, and no cache ever exceeds the capacity it was allocated    *)
(* with, for every number of stages and every request.                     *)
THEOREM PipelineContextWhole == Spec => []TokenSeesWholeContext
<1>1. IInv => TokenSeesWholeContext
  <2> SUFFICES ASSUME IInv
               PROVE  TokenSeesWholeContext
    OBVIOUS
  <2>1. ASSUME pc[LastStage] = "send", NEW r \in Ranks
        PROVE  cache[r] = cache[LastStage]
    <3>1. LastStage \in Ranks /\ r <= LastStage
      BY Sizes
    <3>2. Fed(LastStage) /\ Fed(r)
      BY <2>1, <3>1 DEF IInv, Stand, ChainInv
    <3>3. Len(cache[r]) = Len(cache[LastStage])
      BY <3>2 DEF Fed
    <3> QED
      BY <3>1, <3>3 DEF IInv, Stand
  <2>2. ASSUME NEW r \in Ranks
        PROVE  Len(cache[r]) <= Capacity(job)
    <3>1. Capacity(job) = Len(job.prompt) + Effective(job) /\ Effective(job) \in Nat
      BY JobFacts DEF IInv, TypeInv
    <3>2. Round \in Nat /\ Len(job.prompt) \in Nat
      BY RoundFacts DEF IInv
    <3>3. Round < Effective(job)
      BY DEF IInv, RoundInv
    <3>4. Len(cache[r]) = Position(Round) \/ Len(cache[r]) = Len(job.prompt) + Round
      BY DEF IInv, Stand, Fed
    <3> QED
      BY <3>1, <3>2, <3>3, <3>4 DEF Position
  <2> QED
    BY <2>1, <2>2 DEF TokenSeesWholeContext, CachesWithinCapacity
<1> QED
  BY <1>1, AlwaysIInv, PTL

(* When one rank returns Ok, every rank has stopped, for the same reason,  *)
(* at the same step and with a cache of the same length: the completion    *)
(* barrier is passed only by ranks that have obeyed the last decision.     *)
THEOREM PipelineSuccessShared == Spec => []SuccessIsShared
<1>1. IInv => SuccessIsShared
  <2> SUFFICES ASSUME IInv
               PROVE  SuccessIsShared
    OBVIOUS
  <2> QED
    BY AllStopped DEF SuccessIsShared, Fed
<1> QED
  BY <1>1, AlwaysIInv, PTL

(* No token and no decision is on its way to a rank in barrier() before    *)
(* its sender has passed that barrier: recv_barrier never meets one.       *)
THEOREM PipelineControlClear == Spec => []ControlClearOfBarrier
<1>1. IInv => ControlClearOfBarrier
  <2> SUFFICES ASSUME IInv
               PROVE  ControlClearOfBarrier
    OBVIOUS
  <2> SUFFICES ASSUME NEW m \in net, m.kind # "activation", pc[m.to] \in {"start", "complete"}
               PROVE  FALSE
    BY DEF ControlClearOfBarrier
  <2>1. Round \in Nat /\ Len(job.prompt) \in Nat \ {0}
    BY RoundFacts DEF IInv
  <2>2. Underway(m) /\ m.kind \in {"token", "decision"}
    BY DEF IInv, NetInv, Underway
  <2>3. m.to \in Ranks
    BY <2>2, Sizes DEF IInv, TypeInv, Peers, Underway
  <2>4. pc[m.to] = "start" => Round = 0 /\ ~Fed(m.to)
    <3>1. pc[m.to] = "start" => Len(cache[m.to]) = 0
      BY <2>3 DEF IInv, Stand
    <3>2. pc[m.to] = "start" => ~Fed(m.to)
      BY <2>1, <3>1 DEF Fed
    <3>3. pc[m.to] = "start" => Position(Round) = 0
      BY <2>3, <3>1, <3>2 DEF IInv, Stand
    <3> QED
      BY <2>1, <3>2, <3>3 DEF Position
  <2>5. pc[m.to] = "complete" => decision[m.to] \in StopReasons /\ decision[0] = decision[m.to]
    BY <2>3 DEF IInv, Stand
  <2>6. CASE m.kind = "token"
    <3>1. m.to = 0 /\ Fed(LastStage) /\ ~Stopped
      BY <2>2, <2>6 DEF Underway
    <3>2. Fed(0)
      BY <3>1, Sizes DEF IInv, ChainInv
    <3> QED
      BY <2>4, <2>5, <3>1, <3>2 DEF Stopped
  <2>7. CASE m.kind = "decision"
    <3>1. decision[0] # "none" /\ Unobeyed(m.to)
      BY <2>2, <2>7 DEF Underway
    <3>2. CASE pc[m.to] = "complete"
      BY <2>5, <3>1, <3>2 DEF Unobeyed, StopReasons
    <3>3. CASE pc[m.to] = "start"
      <4>1. decision[0] # "Continue"
        BY <2>4, <3>3 DEF IInv, RoundInv
      <4>2. Stopped
        BY <3>1, <4>1, Sizes DEF Stopped, IInv, TypeInv, Decisions
      <4> QED
        BY <2>3, <2>4, <3>3, <4>2 DEF IInv, Stand
    <3> QED
      BY <3>2, <3>3
  <2> QED
    BY <2>2, <2>6, <2>7
<1> QED
  BY <1>1, AlwaysIInv, PTL

(* When all ranks have returned Ok, every message has been received.       *)
THEOREM PipelineNothingLeft == Spec => []NothingLeftOver
<1>1. IInv => NothingLeftOver
  <2> SUFFICES ASSUME IInv
               PROVE  NothingLeftOver
    OBVIOUS
  <2> SUFFICES ASSUME \A r \in Ranks : pc[r] = "done", NEW m \in net
               PROVE  FALSE
    BY DEF NothingLeftOver
  <2>1. 0 \in Ranks /\ \A q \in Ranks : q # LastStage => q + 1 \in Ranks
    BY Sizes
  <2>2. Stopped /\ \A q \in Ranks : decision[q] \in StopReasons /\ Fed(q)
    BY <2>1, AllStopped
  <2>3. Underway(m) /\ told \subseteq Ranks
    BY DEF IInv, NetInv, TypeInv, Peers
  <2>4. decision[0] # "Continue"
    BY <2>2 DEF Stopped, StopReasons
  <2> QED
    BY <2>1, <2>2, <2>3, <2>4 DEF Underway, Unobeyed
<1> QED
  BY <1>1, AlwaysIInv, PTL

-----------------------------------------------------------------------------
(* Nobody waits on each other.  What a rank waits for is either on its way *)
(* or still to be sent by a rank that does not wait: the stages behind the *)
(* last one that is fed have what they need, the token of the round and    *)
(* the decisions are under way until they are acted on.                    *)

(* What has been sent and not acted on is under way. *)
ActivationsSent ==
  \A r \in Ranks :
    r # LastStage /\ Fed(r) /\ ~Fed(r + 1) /\ pc[r] \notin {"send", "failed"} =>
      \E m \in net : m.kind = "activation" /\ m.from = r
TokenSent ==
  Fed(LastStage) /\ ~Stopped /\ pc[LastStage] \notin {"send", "failed"} =>
    \E m \in net : m.kind = "token"
DecisionsSent ==
  \A q \in told : Unobeyed(q) => \E m \in net : m.kind = "decision" /\ m.to = q

(* Where a waiting rank is. *)
Whereabouts(r) ==
  /\ pc[r] \in {"start", "complete"} => entered[r] = TRUE
  /\ pc[r] = "done" => passed[r] = 2
  /\ pc[r] = "decision" /\ step[r] = Round => Fed(r)
  /\ r = 0 /\ pc[r] \in {"finish", "complete", "done"} => told = Peers(0)

SentInv == ActivationsSent /\ TokenSent /\ DecisionsSent /\ \A r \in Ranks : Whereabouts(r)

LEMMA SentInit ==
  ASSUME Init PROVE SentInv
<1>1. Core
  BY CoreInit
<1>2. \A r \in Ranks : ~Fed(r)
  <2>1. Round \in Nat /\ Len(job.prompt) \in Nat \ {0}
    BY <1>1, RoundFacts DEF Core
  <2>2. \A r \in Ranks : Len(cache[r]) = 0
    BY DEF Init
  <2> QED
    BY <2>1, <2>2 DEF Fed
<1>3. ActivationsSent /\ TokenSent
  BY <1>2, Sizes DEF ActivationsSent, TokenSent
<1>4. DecisionsSent /\ \A r \in Ranks : Whereabouts(r)
  BY DEF Init, DecisionsSent, Whereabouts
<1> QED
  BY <1>3, <1>4 DEF SentInv

(* Only the receipt of the token changes the round. *)
LEMMA RoundStands ==
  ASSUME Core, NEW r \in Ranks, Progress(r) \/ Ends(r), ~RecvToken(r)
  PROVE  /\ Round' = Round /\ (Stopped' <=> Stopped) /\ job' = job /\ decision'[0] = decision[0]
         /\ told \subseteq told'
<1>1. job' = job /\ \A q \in Ranks \ {r} : Same(q)
  BY OthersSame DEF Core
<1>2. generated' = generated /\ told \subseteq told'
  BY DEF Progress, Load, Start, Finish, Complete, Ends, EnterBarrier, PassBarrier, ForwardTokens,
     ForwardHidden, SendActivation, SendToken, SendDecision, Decided, RecvDecision
<1>3. decision'[0] = decision[0]
  <2>1. CASE r # 0
    BY <1>1, <2>1, Sizes DEF Same
  <2>2. CASE r = 0
    BY <2>2 DEF Progress, Load, Start, Finish, Complete, Ends, EnterBarrier, PassBarrier, ForwardTokens,
       ForwardHidden, SendActivation, SendToken, SendDecision, Decided, RecvDecision
  <2> QED
    BY <2>1, <2>2
<1>4. step'[0] = step[0] \/ decision[0] = "Continue"
  <2>1. CASE r # 0
    BY <1>1, <2>1, Sizes DEF Same
  <2>2. CASE r = 0
    BY <2>2 DEF Progress, Load, Start, Finish, Complete, Ends, EnterBarrier, PassBarrier, ForwardTokens,
       ForwardHidden, SendActivation, SendToken, SendDecision, Decided, RecvDecision, Obey
  <2> QED
    BY <2>1, <2>2
<1> QED
  BY <1>1, <1>2, <1>3, <1>4, Steady

(* The receipt of the token ends the round: nobody has fed the next one. *)
LEMMA NextRoundUnfed ==
  ASSUME Core, Core', NEW r \in Ranks, RecvToken(r)
  PROVE  /\ told' = {}
         /\ decision'[0] \in {"Continue"} \union StopReasons
         /\ ~Stopped' => \A q \in Ranks : ~Fed(q)' /\ step'[q] # Round'
<1>1. r = 0 /\ pc[r] = "token" /\ told' = {} /\ job' = job /\ cache' = cache /\ step' = step
  BY DEF RecvToken
<1>2. PICK m \in net : /\ m.kind = "token"
                       /\ decision' = [decision EXCEPT ![r] = Decide(m.body[1])]
                       /\ generated' = generated \o Keep(m.body[1])
  BY DEF RecvToken
<1>3. PICK t \in Vocab : m.body = <<t>>
  BY <1>2 DEF Core, NetInv, Underway
<1>4. decision'[0] = Decide(t) /\ generated' = generated \o Keep(t)
  BY <1>1, <1>2, <1>3 DEF Core, TypeInv
<1>5. Decide(t) \in {"Continue"} \union StopReasons /\ (Decide(t) = "Continue" => t # Eos)
  BY DEF Decide, StopReasons
<1>6. ASSUME ~Stopped', NEW q \in Ranks
      PROVE  ~Fed(q)' /\ step'[q] # Round'
  <2>1. decision'[0] = "Continue" /\ t # Eos
    BY <1>4, <1>5, <1>6 DEF Stopped
  <2>2. generated \in Seq(Vocab) /\ Len(generated) \in Nat
    BY RoundFacts DEF Core
  <2>3. Len(generated') = Len(generated) + 1
    BY <1>4, <2>1, <2>2 DEF Keep
  <2>4. Round' = Len(generated) + 1
    BY <2>1, <2>3 DEF Round
  <2>5. /\ Round \in Nat /\ Round <= Len(generated) /\ Len(job.prompt) \in Nat
        /\ Position(Round) \in Nat /\ Position(Round) <= Len(job.prompt) + Round
    BY RoundFacts DEF Core, RoundInv, Position
  <2>6. step[q] \in Nat /\ step[q] <= Round
    <3>1. step[q] = Round \/ step[q] + 1 = Round
      BY DEF Core, Stand
    <3>2. step[q] \in Nat
      BY DEF Core, TypeInv
    <3> QED
      BY <2>5, <3>1, <3>2
  <2>7. Len(cache[q]) <= Len(job.prompt) + Round
    <3>1. Len(cache[q]) = Position(Round) \/ Len(cache[q]) = Len(job.prompt) + Round
      BY DEF Core, Stand, Fed
    <3> QED
      BY <2>5, <3>1
  <2>8. ~Fed(q)'
    <3>1. Fed(q)' <=> (Len(cache[q]) = Len(job.prompt) + Round')
      BY <1>1 DEF Fed
    <3>2. Len(cache[q]) \in Nat
      BY DEF Core, TypeInv
    <3>3. PICK n \in Nat : n = Round' /\ Round < n
      BY <2>2, <2>4, <2>5
    <3>4. Len(cache[q]) # Len(job.prompt) + n
      BY <2>5, <2>7, <3>2, <3>3
    <3> QED
      BY <3>1, <3>3, <3>4
  <2> QED
    BY <1>1, <2>2, <2>4, <2>5, <2>6, <2>8
<1> QED
  BY <1>1, <1>4, <1>5, <1>6

(* In the round all messages stay under way but the one that is taken.     *)
LEMMA SentStep ==
  ASSUME IInv, IInv', SentInv, NEW r \in Ranks, Progress(r) \/ Ends(r)
  PROVE  ActivationsSent' /\ TokenSent' /\ DecisionsSent'
<1>0. Core /\ Core' /\ job' = job /\ \A q \in Ranks \ {r} : Same(q)
  BY OthersSame DEF IInv, Core
<1>1. CASE RecvToken(r)
  <2>1. /\ told' = {}
        /\ Stopped' \/ \A q \in Ranks : ~Fed(q)'
    BY <1>0, <1>1, NextRoundUnfed
  <2>2. Stopped' => \A q \in Ranks : Fed(q)'
    BY <1>0 DEF Core, Stand
  <2> QED
    BY <2>1, <2>2, Sizes DEF ActivationsSent, TokenSent, DecisionsSent
<1>2. CASE ~RecvToken(r)
  <2>1. /\ Round' = Round /\ (Stopped' <=> Stopped) /\ decision'[0] = decision[0]
        /\ told \subseteq told'
    BY <1>0, <1>2, RoundStands
  <2>2. \A q \in Ranks : cache'[q] = cache[q] => (Fed(q)' <=> Fed(q))
    BY <1>0, <2>1, FedKept
  <2>3. \A q \in Ranks : step'[q] = step[q] /\ decision'[q] = decision[q] => (Unobeyed(q)' <=> Unobeyed(q))
    BY <2>1, UnobeyedKept
  <2>4. \A q \in Ranks \ {r} : (Fed(q)' <=> Fed(q)) /\ (Unobeyed(q)' <=> Unobeyed(q)) /\ pc'[q] = pc[q]
    BY <1>0, <2>2, <2>3 DEF Same
  <2>5. told \subseteq Ranks /\ told' \subseteq Ranks
    BY <1>0 DEF Core, TypeInv, Peers
  <2>6. CASE net \subseteq net' /\ cache' = cache /\ step' = step /\ decision' = decision /\ told' = told
             /\ (pc'[r] \in {"send", "failed"} \/ pc[r] \notin {"send", "failed"})
    <3>1. \A q \in Ranks : (Fed(q)' <=> Fed(q)) /\ (Unobeyed(q)' <=> Unobeyed(q))
                           /\ (pc'[q] \in {"send", "failed"} \/ pc[q] \notin {"send", "failed"})
      BY <2>2, <2>3, <2>4, <2>6
    <3> QED
      BY <2>1, <2>5, <2>6, <3>1, Sizes DEF SentInv, ActivationsSent, TokenSent, DecisionsSent
  <2>7. CASE Load(r) \/ Start(r) \/ Finish(r) \/ Complete(r) \/ Ends(r)
    <3>1. /\ net' = net /\ cache' = cache /\ step' = step /\ decision' = decision /\ told' = told
          /\ pc'[r] = "failed" \/ pc[r] \in {"load", "start", "finish", "complete"}
      BY <1>0, <2>7 DEF Load, Start, Finish, Complete, Ends, EnterBarrier, PassBarrier, Goto, Core, TypeInv
    <3> QED
      BY <2>6, <3>1
  <2>8. CASE ForwardTokens(r) \/ ForwardHidden(r)
    <3>1. /\ step' = step /\ decision' = decision /\ told' = told /\ pc'[r] = "send"
          /\ \/ r = 0 /\ net' = net
             \/ \E m \in net : m.kind = "activation" /\ m.from = r - 1 /\ net' = net \ {m}
      BY <1>0, <2>8 DEF ForwardTokens, ForwardHidden, Receive, Goto, Core, TypeInv
    <3>2. Fed(r)'
      BY <1>0, <3>1 DEF Core, Stand
    <3>3. ASSUME NEW q \in Ranks, q # LastStage, Fed(q)', ~Fed(q + 1)', pc'[q] \notin {"send", "failed"}
          PROVE  \E m \in net' : m.kind = "activation" /\ m.from = q
      <4>1. q # r /\ q + 1 # r /\ q + 1 \in Ranks /\ q \in Nat /\ r \in Nat
        BY <3>1, <3>2, <3>3, Sizes
      <4>2. Fed(q) /\ ~Fed(q + 1) /\ pc[q] \notin {"send", "failed"}
        BY <2>4, <3>3, <4>1
      <4>3. PICK m \in net : m.kind = "activation" /\ m.from = q
        BY <3>3, <4>2 DEF SentInv, ActivationsSent
      <4> QED
        BY <3>1, <4>1, <4>3
    <3>4. ActivationsSent'
      BY <3>3 DEF ActivationsSent
    <3>5. TokenSent'
      BY <2>1, <2>4, <3>1, Sizes DEF SentInv, TokenSent
    <3>6. DecisionsSent'
      BY <2>3, <2>5, <3>1 DEF SentInv, DecisionsSent
    <3> QED
      BY <3>4, <3>5, <3>6
  <2>9. CASE SendActivation(r) \/ \E t \in Vocab : SendToken(r, t)
    <3>1. /\ cache' = cache /\ step' = step /\ decision' = decision /\ told' = told
          /\ \E m : /\ net' = net \union {m}
                    /\ r # LastStage => m.kind = "activation" /\ m.from = r
                    /\ r = LastStage => m.kind = "token"
      <4>1. CASE SendActivation(r)
        <5>1. PICK m : m = Message(r, r + 1, "activation", step[r], hidden[r])
          OBVIOUS
        <5>2. m.kind = "activation" /\ m.from = r
          BY <5>1 DEF Message
        <5> QED
          BY <4>1, <5>1, <5>2 DEF SendActivation, Post
      <4>2. ASSUME NEW t \in Vocab, SendToken(r, t)
            PROVE  /\ r = LastStage /\ cache' = cache /\ step' = step /\ decision' = decision /\ told' = told
                   /\ \E m : net' = net \union {m} /\ m.kind = "token"
        <5>1. PICK m : m = Message(r, 0, "token", step[r], <<t>>)
          OBVIOUS
        <5>2. m.kind = "token"
          BY <5>1 DEF Message
        <5> QED
          BY <4>2, <5>1, <5>2 DEF SendToken, Post
      <4> QED
        BY <2>9, <4>1, <4>2
    <3>2. \A q \in Ranks : (Fed(q)' <=> Fed(q)) /\ (Unobeyed(q)' <=> Unobeyed(q))
      BY <2>2, <2>3, <3>1
    <3>3. ASSUME NEW q \in Ranks, q # LastStage, Fed(q)', ~Fed(q + 1)', pc'[q] \notin {"send", "failed"}
          PROVE  \E m \in net' : m.kind = "activation" /\ m.from = q
      <4>1. CASE q = r
        BY <3>1, <3>3, <4>1
      <4>2. CASE q # r
        <5>1. Fed(q) /\ ~Fed(q + 1) /\ pc[q] \notin {"send", "failed"}
          BY <2>4, <3>2, <3>3, <4>2, Sizes
        <5> QED
          BY <3>1, <3>3, <5>1 DEF SentInv, ActivationsSent
      <4> QED
        BY <4>1, <4>2
    <3>4. ActivationsSent'
      BY <3>3 DEF ActivationsSent
    <3>5. TokenSent'
      BY <2>1, <2>4, <3>1, <3>2, Sizes DEF SentInv, TokenSent
    <3>6. DecisionsSent'
      BY <2>5, <3>1, <3>2 DEF SentInv, DecisionsSent
    <3> QED
      BY <3>4, <3>5, <3>6
  <2>10. CASE \E d \in Peers(0) : SendDecision(r, d)
    <3>1. PICK d \in Peers(0) : SendDecision(r, d)
      BY <2>10
    <3>2. /\ cache' = cache /\ step' = step /\ decision' = decision /\ pc' = pc /\ told' = told \union {d}
          /\ \E m : net' = net \union {m} /\ m.kind = "decision" /\ m.to = d
      <4>1. PICK m : m = Message(r, d, "decision", step[r], <<decision[r]>>)
        OBVIOUS
      <4>2. m.kind = "decision" /\ m.to = d
        BY <4>1 DEF Message
      <4> QED
        BY <3>1, <4>1, <4>2 DEF SendDecision, Post
    <3>3. \A q \in Ranks : (Fed(q)' <=> Fed(q)) /\ (Unobeyed(q)' <=> Unobeyed(q))
      BY <2>2, <2>3, <3>2
    <3>4. ActivationsSent'
      BY <3>2, <3>3, Sizes DEF SentInv, ActivationsSent
    <3>5. TokenSent'
      BY <2>1, <3>2, <3>3, Sizes DEF SentInv, TokenSent
    <3>6. DecisionsSent'
      BY <2>5, <3>2, <3>3 DEF SentInv, DecisionsSent
    <3> QED
      BY <3>4, <3>5, <3>6
  <2>11. CASE Decided(r) \/ RecvDecision(r)
    <3>1. /\ cache' = cache /\ told' = told /\ pc[r] \in {"decide", "decision"}
          /\ \/ r = 0 /\ net' = net
             \/ \E m \in net : m.kind = "decision" /\ m.to = r /\ net' = net \ {m}
      BY <2>11 DEF Decided, RecvDecision, Receive
    <3>2. \A q \in Ranks : Fed(q)' <=> Fed(q)
      BY <2>2, <3>1
    <3>3. ActivationsSent'
      <4>1. \A q \in Ranks : pc'[q] \in {"send", "failed"} \/ pc[q] \notin {"send", "failed"}
        BY <2>4, <3>1
      <4> QED
        BY <3>1, <3>2, <4>1, Sizes DEF SentInv, ActivationsSent
    <3>4. TokenSent'
      BY <2>1, <2>4, <3>1, <3>2, Sizes DEF SentInv, TokenSent
    <3>5. ASSUME NEW q \in told', Unobeyed(q)'
          PROVE  \E m \in net' : m.kind = "decision" /\ m.to = q
      <4>1. q # r /\ q # 0
        <5>1. q # 0
          BY <1>0, <3>1 DEF Core, TypeInv, Peers
        <5>2. RecvDecision(r) => ~Unobeyed(r)'
          <6> SUFFICES ASSUME RecvDecision(r)
                       PROVE  ~Unobeyed(r)'
            OBVIOUS
          <6>1. PICK m \in net : /\ m.kind = "decision" /\ m.to = r /\ m.step = step[r]
                                 /\ decision' = [decision EXCEPT ![r] = m.body[1]]
                                 /\ Obey(r, m.body[1])
            BY DEF RecvDecision
          <6>2. m.body[1] = decision[0] /\ decision[0] # "none" /\ Unobeyed(r)
            BY <1>0, <6>1 DEF Core, NetInv, Underway
          <6>3. decision[0] \in Decisions /\ r \in Ranks /\ step[r] \in Nat /\ Round \in Nat
            BY <1>0, Sizes, RoundFacts DEF Core, TypeInv
          <6>4. CASE decision[0] = "Continue"
            <7>1. step'[r] = step[r] + 1
              BY <1>0, <6>1, <6>2, <6>4 DEF Obey, Core, TypeInv
            <7> QED
              BY <2>1, <6>2, <6>3, <6>4, <7>1 DEF Unobeyed
          <6>5. CASE decision[0] # "Continue"
            <7>1. decision'[r] = decision[0] /\ decision[0] \in StopReasons
              BY <1>0, <6>1, <6>2, <6>3, <6>5 DEF Core, TypeInv, Decisions
            <7> QED
              BY <2>1, <6>5, <7>1 DEF Unobeyed
          <6> QED
            BY <6>4, <6>5
        <5>3. Decided(r) => r = 0
          BY DEF Decided
        <5> QED
          BY <2>11, <3>5, <5>1, <5>2, <5>3
      <4>2. Unobeyed(q) /\ q \in told
        BY <2>4, <2>5, <3>1, <3>5, <4>1
      <4>3. PICK m \in net : m.kind = "decision" /\ m.to = q
        BY <4>2 DEF SentInv, DecisionsSent
      <4> QED
        BY <3>1, <4>1, <4>3
    <3>6. DecisionsSent'
      BY <3>5 DEF DecisionsSent
    <3> QED
      BY <3>3, <3>4, <3>6
  <2> QED
    BY <1>2, <2>7, <2>8, <2>9, <2>10, <2>11 DEF Progress
<1> QED
  BY <1>1, <1>2

LEMMA WhereaboutsStep ==
  ASSUME IInv, IInv', SentInv, NEW r \in Ranks, Progress(r) \/ Ends(r)
  PROVE  \A q \in Ranks : Whereabouts(q)'
<1>0. /\ Core /\ Core' /\ job' = job /\ (\A q \in Ranks \ {r} : Same(q)) /\ Gate(r) /\ Gate(r)'
      /\ \A q \in Ranks : Whereabouts(q)
  BY OthersSame DEF IInv, Core, BarrierInv, SentInv
<1>1. /\ pc \in [Ranks -> Running \union Ended] /\ entered \in [Ranks -> BOOLEAN] /\ passed \in [Ranks -> Nat]
      /\ pc' \in [Ranks -> Running \union Ended]
  BY <1>0 DEF Core, TypeInv
(* The barriers. *)
<1>2. /\ pc'[r] \in {"start", "complete"} => entered'[r] = TRUE
      /\ pc'[r] = "done" => passed'[r] = 2
  <2>1. CASE Load(r) \/ Finish(r)
    BY <1>1, <2>1 DEF Load, Finish, EnterBarrier, Goto
  <2>2. CASE Start(r) \/ Complete(r)
    <3>1. /\ pc'[r] \in {"forward", "done"} /\ passed'[r] = passed[r] + 1
          /\ pc'[r] = "done" => pc[r] = "complete"
      BY <1>1, <2>2 DEF Start, Complete, PassBarrier, Goto
    <3>2. pc[r] = "complete" => passed[r] = 1
      BY <1>0 DEF Gate
    <3> QED
      BY <3>1, <3>2
  <2>3. CASE Ends(r)
    BY <1>1, <2>3 DEF Ends, Goto
  <2>4. CASE Generates(r)
    <3>1. pc'[r] \in {"forward", "send", "token", "decide", "decision", "finish"}
      BY <1>0, <2>4, BetweenBarriers
    <3> QED
      BY <3>1
  <2> QED
    BY <2>1, <2>2, <2>3, <2>4 DEF Progress, Generates
<1>3. ASSUME NEW q \in Ranks
      PROVE  /\ pc'[q] \in {"start", "complete"} => entered'[q] = TRUE
             /\ pc'[q] = "done" => passed'[q] = 2
  <2>1. CASE q = r
    BY <1>2, <2>1
  <2>2. CASE q # r
    BY <1>0, <1>3, <2>2 DEF Same, Whereabouts
  <2> QED
    BY <2>1, <2>2
(* A rank that waits for the decision of the round is fed. *)
<1>4. ASSUME NEW q \in Ranks, pc'[q] = "decision", step'[q] = Round'
      PROVE  Fed(q)'
  <2>1. CASE RecvToken(r)
    <3>1. Stopped' \/ step'[q] # Round'
      BY <1>0, <2>1, NextRoundUnfed
    <3> QED
      BY <1>0, <1>4, <3>1 DEF Core, Stand
  <2>2. CASE ~RecvToken(r)
    <3>1. Round' = Round
      BY <1>0, <2>2, RoundStands
    <3>2. CASE q # r
      BY <1>0, <1>4, <3>1, <3>2, FedKept DEF Same, Whereabouts
    <3>3. CASE q = r
      <4>1. pc[r] = "send" /\ cache' = cache
        BY <1>1, <1>4, <3>3 DEF Progress, Load, Start, Finish, Complete, Ends, EnterBarrier, PassBarrier,
           ForwardTokens, ForwardHidden, SendActivation, SendToken, RecvToken, SendDecision, Decided,
           RecvDecision, Obey, Goto
      <4>2. Fed(q)
        BY <1>0, <3>3, <4>1 DEF Core, Stand
      <4> QED
        BY <1>0, <3>1, <4>1, <4>2, FedKept
    <3> QED
      BY <3>2, <3>3
  <2> QED
    BY <2>1, <2>2
(* Rank 0 finishes when it has told every rank. *)
<1>5. ASSUME pc'[0] \in {"finish", "complete", "done"}
      PROVE  told' = Peers(0)
  <2>1. CASE r # 0
    <3>1. told' = told
      BY <2>1 DEF Progress, Load, Start, Finish, Complete, Ends, EnterBarrier, PassBarrier,
         ForwardTokens, ForwardHidden, SendActivation, SendToken, RecvToken, SendDecision, Decided,
         RecvDecision
    <3>2. pc'[0] = pc[0]
      BY <1>0, <2>1, Sizes DEF Same
    <3> QED
      BY <1>0, <1>5, <3>1, <3>2, Sizes DEF Whereabouts
  <2>2. CASE r = 0
    <3>1. CASE Finish(r) \/ Complete(r)
      <4>1. pc[0] \in {"finish", "complete"} /\ told' = told
        BY <2>2, <3>1 DEF Finish, Complete, EnterBarrier, PassBarrier
      <4> QED
        BY <1>0, <4>1, Sizes DEF Whereabouts
    <3>2. CASE Decided(r)
      BY <3>2 DEF Decided
    <3>3. CASE ~(Finish(r) \/ Complete(r) \/ Decided(r))
      BY <1>1, <1>5, <2>2, <3>3 DEF Progress, Load, Start, Ends, EnterBarrier, PassBarrier,
         ForwardTokens, ForwardHidden, SendActivation, SendToken, RecvToken, SendDecision,
         RecvDecision, Goto
    <3> QED
      BY <3>1, <3>2, <3>3
  <2> QED
    BY <2>1, <2>2
<1> QED
  BY <1>3, <1>4, <1>5 DEF Whereabouts

LEMMA AlwaysSent == Spec => []SentInv
<1>1. ASSUME IInv, IInv', SentInv, [Next]_vars
      PROVE  SentInv'
  <2>1. CASE UNCHANGED vars
    BY <1>1, <2>1 DEF SentInv, ActivationsSent, TokenSent, DecisionsSent, Whereabouts, Fed, Unobeyed, Round,
       Stopped, vars, local, barrier
  <2>2. ASSUME NEW r \in Ranks, Progress(r) \/ TimeOut(r) \/ Crash(r)
        PROVE  SentInv'
    <3>1. Progress(r) \/ Ends(r)
      BY <2>2 DEF TimeOut, Crash, Ends
    <3> QED
      BY <1>1, <3>1, SentStep, WhereaboutsStep DEF SentInv
  <2> QED
    BY <1>1, <2>1, <2>2 DEF Next, AnyProgress
<1>2. Init => SentInv
  BY SentInit
<1> QED
  BY <1>1, <1>2, AlwaysIInv, PTL DEF Spec

(* Which stage waits for which message, when all that has been sent is under way. *)
LEMMA SomebodyUnblocked ==
  ASSUME IInv, SentInv, \A r \in Ranks : pc[r] # "failed",
         \A r \in Ranks : pc[r] \in Running => Blocked(r)
  PROVE  \A r \in Ranks : pc[r] = "done"
<1>0. Core /\ \A r \in Ranks : Gate(r) /\ Stand(r) /\ Whereabouts(r)
  BY DEF IInv, Core, BarrierInv, SentInv
<1>1. ASSUME NEW r \in Ranks
      PROVE  /\ pc[r] \in {"start", "forward", "token", "decision", "complete", "done"}
             /\ pc[r] = "forward" => r # 0
             /\ pc[r] \in {"forward", "token", "decision"} => Awaited(r) = {}
             /\ pc[r] \in {"start", "complete"} => ~Gathered(r)
  <2>1. pc[r] \in Running \union Ended /\ pc[r] # "failed"
    BY <1>0 DEF Core, TypeInv
  <2>2. pc[r] = "done" \/ Blocked(r)
    BY <2>1 DEF Ended
  <2> QED
    BY <2>1, <2>2 DEF Blocked, InReceive, Running, Ended
<1>2. \A r \in Ranks : /\ passed[r] \in Nat /\ step[r] \in Nat /\ r \in Nat
                       /\ decision[r] \in Decisions
  BY <1>0, Sizes DEF Core, TypeInv
(* The first barrier: all ranks but those that have passed are in it. *)
<1>3. ASSUME NEW r \in Ranks, pc[r] = "start"
      PROVE  FALSE
  <2>1. passed[r] = 0
    BY <1>0, <1>3 DEF Gate
  <2>2. ASSUME NEW q \in Peers(r)
        PROVE  passed[q] > passed[r] \/ (passed[q] = passed[r] /\ entered[q])
    <3>1. q \in Ranks
      BY DEF Peers
    <3>2. pc[q] = "start" => passed[q] = 0 /\ entered[q] = TRUE
      BY <1>0, <3>1 DEF Gate, Whereabouts
    <3>3. pc[q] # "start" => passed[q] > 0
      BY <1>0, <1>1, <3>1 DEF Gate, Whereabouts
    <3> QED
      BY <2>1, <3>2, <3>3
  <2> QED
    BY <1>1, <1>3, <2>2 DEF Gathered
(* Rank 0 has decided to stop: every rank has been told, and obeys. *)
<1>4. CASE Stopped
  <2>1. decision[0] # "Continue" /\ decision[0] # "none"
    BY <1>4 DEF Stopped, StopReasons
  <2>2. pc[0] \in {"complete", "done"}
    BY <1>0, <1>1, <1>3, <1>4, Sizes DEF Stand, Stopped
  <2>3. told = Peers(0)
    BY <1>0, <2>2, Sizes DEF Whereabouts
  <2>4. ASSUME NEW r \in Ranks
        PROVE  pc[r] \in {"complete", "done"}
    <3>1. pc[r] \in {"decision", "complete", "done"}
      <4>1. pc[r] # "forward"
        BY <1>0, <1>4 DEF Stand
      <4>2. pc[r] # "token"
        BY <1>0, <1>4 DEF Stand, Stopped
      <4> QED
        BY <1>1, <1>3, <4>1, <4>2
    <3>2. ASSUME pc[r] = "decision"
          PROVE  FALSE
      <4>1. r \in told /\ Unobeyed(r)
        BY <1>0, <2>1, <2>3, <3>2 DEF Stand, Unobeyed, Peers
      <4>2. PICK m \in net : m.kind = "decision" /\ m.to = r
        BY <4>1 DEF SentInv, DecisionsSent
      <4>3. m.step = step[r] /\ m.from = 0
        BY <1>0, <4>2 DEF Core, NetInv, Underway
      <4> QED
        BY <1>1, <3>2, <4>2, <4>3 DEF Awaited
    <3> QED
      BY <3>1, <3>2
  <2>5. ASSUME NEW r \in Ranks, pc[r] = "complete"
        PROVE  Gathered(r)
    <3>1. passed[r] = 1
      BY <1>0, <2>5 DEF Gate
    <3>2. \A q \in Ranks : passed[q] = 2 \/ (passed[q] = 1 /\ entered[q])
      BY <1>0, <2>4 DEF Gate, Whereabouts
    <3> QED
      BY <3>1, <3>2 DEF Gathered, Peers
  <2> QED
    BY <1>1, <2>4, <2>5
(* Otherwise the first stage that is not fed has its activation, or rank 0 *)
(* has the token.                                                          *)
<1>5. CASE ~Stopped
  <2>1. ASSUME NEW r \in Ranks
        PROVE  pc[r] \in {"forward", "token", "decision"}
    <3>1. decision[r] \notin StopReasons
      BY <1>0, <1>5 DEF Stand, Stopped
    <3> QED
      BY <1>0, <1>1, <1>3, <3>1 DEF Stand
  <2>2. pc[0] = "token" /\ Fed(0) /\ step[0] = Round
    BY <1>0, <1>1, <2>1, Sizes DEF Stand
  <2>3. decision[0] = "Continue" => told = Peers(0)
    BY <1>0, <2>2 DEF Core, ToldInv
  <2>4. ASSUME NEW r \in Ranks
        PROVE  step[r] = Round
    <3> SUFFICES ASSUME step[r] # Round
                 PROVE  FALSE
      OBVIOUS
    <3>1. decision[0] = "Continue" /\ step[r] + 1 = Round /\ r # 0
      BY <1>0, <2>2 DEF Stand
    <3>2. r \in told /\ Unobeyed(r)
      BY <2>3, <3>1 DEF Unobeyed, Peers
    <3>3. PICK m \in net : m.kind = "decision" /\ m.to = r
      BY <3>2 DEF SentInv, DecisionsSent
    <3>4. m.step = step[r] /\ m.from = 0
      BY <1>0, <3>3 DEF Core, NetInv, Underway
    <3>5. pc[r] = "decision"
      BY <1>0, <2>1, <2>2, <3>1 DEF Stand
    <3> QED
      BY <1>1, <3>3, <3>4, <3>5 DEF Awaited
  <2>5. \A r \in Ranks : pc[r] = "forward" <=> ~Fed(r)
    BY <1>0, <2>1, <2>4 DEF Stand, Whereabouts
  <2>6. CASE Fed(LastStage)
    <3>1. PICK m \in net : m.kind = "token"
      BY <1>5, <2>1, <2>6, Sizes DEF SentInv, TokenSent
    <3>2. m.from = LastStage /\ m.to = 0 /\ m.step = Round
      BY <1>0, <3>1 DEF Core, NetInv, Underway
    <3> QED
      BY <1>1, <2>2, <3>1, <3>2, Sizes DEF Awaited
  <2>7. CASE ~Fed(LastStage)
    <3> DEFINE unfed == {r \in Ranks : ~Fed(r)}
    <3>1. PICK q \in unfed : \A p \in unfed : q <= p
      <4>1. unfed \subseteq Nat /\ unfed # {}
        BY <2>7, Sizes
      <4> HIDE DEF unfed
      <4> QED
        BY <4>1, LeastNatural
    <3>2. q # 0 /\ q \in Ranks /\ q - 1 \in Ranks /\ q - 1 # LastStage /\ q - 1 + 1 = q
      BY <2>2, Sizes
    <3>3. Fed(q - 1)
      BY <1>2, <3>1, <3>2
    <3>4. PICK m \in net : m.kind = "activation" /\ m.from = q - 1
      BY <2>1, <3>2, <3>3 DEF SentInv, ActivationsSent
    <3>5. m.to = q /\ m.step = step[q] /\ m.body = Tokens(Round)
      BY <1>0, <2>4, <3>2, <3>4 DEF Core, NetInv, Underway
    <3>6. step[q] > 0 => Len(m.body) = 1
      BY <2>4, <3>2, <3>5 DEF Tokens
    <3> QED
      BY <1>1, <2>5, <3>2, <3>4, <3>5, <3>6 DEF Awaited
  <2> QED
    BY <2>6, <2>7
<1> QED
  BY <1>4, <1>5

(* However many stages there are, as long as no rank has failed one of     *)
(* them is not held up by a receive or a barrier.                          *)
THEOREM PipelineNeverStuck == Spec => []NeverStuck
<1>1. IInv /\ SentInv => NeverStuck
  BY SomebodyUnblocked DEF NeverStuck
<1> QED
  BY <1>1, AlwaysIInv, AlwaysSent, PTL

-----------------------------------------------------------------------------
(* The refinement. *)

(* The tokens that the last stage has still to see. *)
Unseen ==
  IF Stop # "none" THEN <<>>
  ELSE SubSeq(job.prompt \o generated, Len(cache[LastStage]) + 1, Len(job.prompt) + Len(generated))

(* Those of the round until the last stage is fed, then none. *)
LEMMA UnseenIs ==
  IInv => /\ Stop # "none" => Unseen = <<>>
          /\ Stop = "none" /\ Fed(LastStage) => Unseen = <<>>
          /\ Stop = "none" /\ ~Fed(LastStage) => Unseen = Tokens(Round)
          /\ Stop = "none" => Round = Len(generated)
<1> SUFFICES ASSUME IInv, Stop = "none"
             PROVE  /\ Fed(LastStage) => Unseen = <<>>
                    /\ ~Fed(LastStage) => Unseen = Tokens(Round)
                    /\ Round = Len(generated)
  BY DEF Unseen
<1> DEFINE p == job.prompt
           g == generated
           k == Len(cache[LastStage])
<1>1. p \in Seq(Vocab) /\ g \in Seq(Vocab) /\ Len(p) \in Nat /\ Len(g) \in Nat
  BY RoundFacts DEF IInv
<1>2. Round = Len(g)
  <2>1. decision[0] \in {"none", "Continue"}
    BY Sizes DEF IInv, TypeInv, Decisions, Stop, StopReasons
  <2> QED
    BY <2>1 DEF IInv, RoundInv, Round
<1>3. /\ Fed(LastStage) => k = Len(p) + Len(g)
      /\ ~Fed(LastStage) => k = IF Len(g) = 0 THEN 0 ELSE Len(p) + Len(g) - 1
  BY <1>2, Sizes DEF IInv, Stand, Fed, Position
<1>4. Unseen = SubSeq(p \o g, k + 1, Len(p) + Len(g))
  BY DEF Unseen
<1>5. Tokens(Round) = IF Len(g) = 0 THEN p ELSE <<g[Len(g)]>>
  BY <1>2 DEF Tokens
<1> HIDE DEF p, g, k
<1>6. CASE Fed(LastStage)
  BY <1>1, <1>2, <1>3, <1>4, <1>6, RestOfText DEF g
<1>7. CASE ~Fed(LastStage)
  <2>1. CASE Len(g) = 0
    <3>1. k + 1 = 1
      BY <1>3, <1>7, <2>1
    <3> QED
      BY <1>1, <1>2, <1>4, <1>5, <1>7, <2>1, <3>1, RestOfText DEF g
  <2>2. CASE Len(g) # 0
    <3>1. k + 1 = Len(p) + Len(g)
      BY <1>1, <1>3, <1>7, <2>2
    <3> QED
      BY <1>1, <1>2, <1>4, <1>5, <1>7, <2>2, <3>1, RestOfText DEF g
  <2> QED
    BY <2>1, <2>2
<1> QED
  BY <1>6, <1>7

LEMMA StepImplementsGeneration ==
  ASSUME IInv, IInv', [Next]_vars
  PROVE  [SingleProcess!GenerationNext]_(SingleProcess!generationVars)
<1>0. Core /\ TypeInv /\ 0 \in Ranks /\ LastStage \in Ranks /\ LastStage # 0
  BY Sizes DEF IInv, Core
<1>1. /\ Stop # "none" => Unseen = <<>>
      /\ Stop = "none" /\ Fed(LastStage) => Unseen = <<>>
      /\ Stop = "none" /\ ~Fed(LastStage) => Unseen = Tokens(Round)
      /\ Stop = "none" => Round = Len(generated)
  BY UnseenIs
<1>2. /\ Stop' # "none" => Unseen' = <<>>
      /\ Stop' = "none" /\ Fed(LastStage)' => Unseen' = <<>>
      /\ Stop' = "none" /\ ~Fed(LastStage)' => Unseen' = Tokens(Round)'
      /\ Stop' = "none" => Round' = Len(generated')
  <2>1. IInv' => (/\ Stop # "none" => Unseen = <<>>
                  /\ Stop = "none" /\ Fed(LastStage) => Unseen = <<>>
                  /\ Stop = "none" /\ ~Fed(LastStage) => Unseen = Tokens(Round)
                  /\ Stop = "none" => Round = Len(generated))'
    BY UnseenIs, PTL
  <2> QED
    BY <2>1
<1>3. ASSUME job' = job, cache'[LastStage] = cache[LastStage], generated' = generated,
             decision'[0] = decision[0]
      PROVE  UNCHANGED SingleProcess!generationVars
  BY <1>3 DEF SingleProcess!generationVars, Stop
<1>4. ASSUME NEW r \in Ranks, Load(r) \/ Start(r) \/ Finish(r) \/ Complete(r) \/ TimeOut(r) \/ Crash(r)
      PROVE  UNCHANGED SingleProcess!generationVars
  <2>1. job' = job /\ cache' = cache /\ generated' = generated /\ decision' = decision
    BY <1>4 DEF Load, Start, Finish, Complete, TimeOut, Crash, EnterBarrier, PassBarrier, Gathered
  <2> QED
    BY <1>3, <2>1
<1>5. ASSUME NEW r \in Ranks, \/ SendActivation(r) \/ (\E t \in Vocab : SendToken(r, t))
                              \/ (\E d \in Peers(0) : SendDecision(r, d)) \/ Decided(r)
      PROVE  UNCHANGED SingleProcess!generationVars
  <2>1. job' = job /\ cache' = cache /\ generated' = generated /\ decision' = decision
    BY <1>5 DEF SendActivation, SendToken, SendDecision, Decided
  <2> QED
    BY <1>3, <2>1
<1>6. ASSUME NEW r \in Ranks, RecvDecision(r)
      PROVE  UNCHANGED SingleProcess!generationVars
  <2>1. job' = job /\ cache' = cache /\ generated' = generated /\ r # 0
    BY <1>6 DEF RecvDecision
  <2>2. decision'[0] = decision[0]
    BY <1>0, <1>6, <2>1, OthersSame DEF Progress, Same
  <2> QED
    BY <1>3, <2>1, <2>2
<1>7. ASSUME NEW r \in Ranks, ForwardTokens(r) \/ ForwardHidden(r), r # LastStage
      PROVE  UNCHANGED SingleProcess!generationVars
  <2>1. job' = job /\ generated' = generated /\ decision' = decision
    BY <1>7 DEF ForwardTokens, ForwardHidden
  <2>2. cache'[LastStage] = cache[LastStage]
    BY <1>0, <1>7, OthersSame DEF Progress, Same
  <2> QED
    BY <1>3, <2>1, <2>2
<1>8. ASSUME ForwardHidden(LastStage)
      PROVE  SingleProcess!GenerationNext
  <2>1. job' = job /\ generated' = generated /\ decision' = decision /\ pc[LastStage] = "forward"
    BY <1>8 DEF ForwardHidden
  <2>2. PICK m \in net : m.kind = "activation" /\ Feed(LastStage, m.body)
    BY <1>8 DEF ForwardHidden
  <2>3. m.body = Tokens(Round)
    BY <2>2 DEF IInv, NetInv, Underway
  <2>4. cache'[LastStage] = cache[LastStage] \o Tokens(Round)
    BY <1>0, <2>2, <2>3 DEF Feed, TypeInv
  <2>5. ~Fed(LastStage) /\ ~Stopped
    BY <1>0, <2>1 DEF IInv, Stand
  <2>6. Stop = "none" /\ Stop' = "none"
    BY <2>1, <2>5 DEF Stop, Stopped
  <2>7. pc'[LastStage] = "send"
    BY <1>0, <1>8 DEF ForwardHidden, Goto, TypeInv
  <2>8. Fed(LastStage)'
    BY <1>0, <2>7 DEF IInv, Stand
  <2>9. Unseen = Tokens(Round) /\ Unseen' = <<>>
    BY <1>1, <1>2, <2>5, <2>6, <2>8
  <2>10. Tokens(Round) # <<>>
    <3>1. Len(Tokens(Round)) # 0
      BY RoundFacts DEF IInv
    <3> QED
      BY <3>1
  <2> QED
    BY <2>1, <2>4, <2>6, <2>9, <2>10 DEF Unseen, SingleProcess!GenerationNext, SingleProcess!Forward
<1>9. ~ForwardTokens(LastStage)
  BY <1>0 DEF ForwardTokens
<1>10. ASSUME RecvToken(0)
       PROVE  SingleProcess!GenerationNext
  <2>1. job' = job /\ cache' = cache /\ step' = step
    BY <1>10 DEF RecvToken
  <2>2. PICK m \in net : /\ m.kind = "token"
                         /\ decision' = [decision EXCEPT ![0] = Decide(m.body[1])]
                         /\ generated' = generated \o Keep(m.body[1])
    BY <1>10 DEF RecvToken
  <2>3. /\ Round = Len(generated) /\ ~Stopped /\ Fed(LastStage)
        /\ \E t \in Vocab : m.body = <<t>>
    BY <1>0, <2>2, RoundOver
  <2>4. PICK t \in Vocab : m.body[1] = t
    BY <2>3
  <2>5. Stop = "none" /\ Unseen = <<>>
    BY <1>1, <2>3 DEF Stop, Stopped
  <2>6. decision'[0] = Decide(t) /\ generated' = generated \o Keep(t)
    BY <1>0, <2>2, <2>4 DEF TypeInv
  <2>7. /\ generated \in Seq(Vocab) /\ generated \in Seq(Vocab \ {Eos}) /\ Len(generated) \in Nat
        /\ Effective(job) \in Nat /\ Len(generated) < Effective(job) /\ job.requested \in Nat
    <3>1. job \in Jobs /\ generated \in Seq(Vocab \ {Eos})
      BY <1>0 DEF TypeInv
    <3>2. Effective(job) \in Nat /\ job.requested \in Nat
      BY <3>1, JobFacts
    <3>3. Round < Effective(job)
      BY DEF IInv, RoundInv
    <3>4. generated \in Seq(Vocab)
      BY RoundFacts DEF IInv
    <3> QED
      BY <2>3, <3>1, <3>2, <3>3, <3>4
  <2>8. CASE t = Eos
    <3>1. decision'[0] = "Eos" /\ generated' = generated
      <4>1. Keep(t) = <<>> /\ Decide(t) = "Eos"
        BY <2>8 DEF Keep, Decide
      <4> QED
        BY <2>6, <2>7, <4>1
    <3>2. Stop' = "Eos" /\ Unseen' = <<>>
      BY <1>2, <3>1 DEF Stop, StopReasons
    <3> QED
      BY <2>1, <2>5, <3>1, <3>2 DEF Unseen, SingleProcess!GenerationNext, SingleProcess!SelectEos
  <2>9. CASE t # Eos
    <3>1. generated' = Append(generated, t) /\ t \in Vocab \ {Eos}
      <4>1. Keep(t) = <<t>>
        BY <2>9 DEF Keep
      <4>2. generated \o <<t>> = Append(generated, t)
        BY <2>7
      <4> QED
        BY <2>6, <2>9, <4>1, <4>2
    <3>2. Len(generated') = Len(generated) + 1 /\ generated'[Len(generated) + 1] = t
      BY <2>7, <3>1
    <3>3. SingleProcess!Effective(job) = Effective(job)
      BY DEF SingleProcess!Effective, Effective
    <3>4. CASE Len(generated) + 1 < Effective(job)
      <4>1. decision'[0] = "Continue"
        BY <2>6, <2>9, <3>4 DEF Decide
      <4>2. Stop' = "none" /\ Round' = Len(generated) + 1
        BY <3>2, <4>1 DEF Stop, StopReasons, Round
      <4>3. ~(Len(generated') >= Effective(job))
        BY <2>7, <3>2, <3>4
      <4>4. ~Fed(LastStage)'
        <5>1. Len(cache[LastStage]) = Len(job.prompt) + Len(generated) /\ Len(job.prompt) \in Nat
          BY <2>3, RoundFacts DEF Fed, IInv
        <5>2. Fed(LastStage)' => Len(cache[LastStage]) = Len(job.prompt) + (Len(generated) + 1)
          BY <2>1, <4>2 DEF Fed
        <5>3. \A n, k \in Nat : n + k # n + (k + 1)
          OBVIOUS
        <5> QED
          BY <2>7, <5>1, <5>2, <5>3
      <4>5. Unseen' = <<t>>
        <5>1. Unseen' = Tokens(Round)'
          BY <1>2, <4>2, <4>4
        <5>2. Round' # 0
          BY <2>7, <4>2
        <5> QED
          BY <3>2, <4>2, <5>1, <5>2 DEF Tokens
      <4>6. SingleProcess!SelectToken(t)
        BY <2>1, <2>5, <3>1, <3>3, <4>2, <4>3, <4>5 DEF Unseen, SingleProcess!SelectToken
      <4> QED
        BY <3>1, <4>6 DEF SingleProcess!GenerationNext
    <3>5. CASE ~(Len(generated) + 1 < Effective(job))
      <4>1. decision'[0] = SingleProcess!LimitReason(job)
        BY <2>6, <2>9, <3>3, <3>5 DEF Decide, SingleProcess!LimitReason
      <4>2. Stop' = SingleProcess!LimitReason(job) /\ Stop' # "none"
        BY <4>1 DEF Stop, StopReasons, SingleProcess!LimitReason
      <4>3. Len(generated') >= Effective(job)
        BY <2>7, <3>2, <3>5
      <4>4. Unseen' = <<>>
        BY <1>2, <4>2
      <4>5. SingleProcess!SelectToken(t)
        BY <2>1, <2>5, <3>1, <3>3, <4>2, <4>3, <4>4 DEF Unseen, SingleProcess!SelectToken
      <4> QED
        BY <3>1, <4>5 DEF SingleProcess!GenerationNext
    <3> QED
      BY <3>4, <3>5
  <2> QED
    BY <2>8, <2>9
<1>11. CASE UNCHANGED vars
  <2>1. job' = job /\ cache' = cache /\ generated' = generated /\ decision' = decision
    BY <1>11 DEF vars, local
  <2> QED
    BY <1>3, <2>1
<1>12. ASSUME NEW r \in Ranks, Progress(r)
       PROVE  SingleProcess!GenerationNext \/ UNCHANGED SingleProcess!generationVars
  <2>1. RecvToken(r) => r = 0
    BY DEF RecvToken
  <2> QED
    BY <1>4, <1>5, <1>6, <1>7, <1>8, <1>9, <1>10, <1>12, <2>1 DEF Progress
<1> QED
  BY <1>4, <1>11, <1>12 DEF Next, AnyProgress

(* The distributed run implements generation in one process, for every     *)
(* number of stages: the forward of the last stage is the forward, rank 0  *)
(* receiving the token is its choice, and every other step of any rank     *)
(* changes nothing that generate() would show.                             *)
THEOREM PipelineImplementsGeneration == Spec => ImplementsGeneration
<1>1. ASSUME Init
      PROVE  SingleProcess!GenerationInit
  <2>1. 0 \in Ranks /\ LastStage \in Ranks
    BY Sizes
  <2>2. /\ job \in Jobs /\ job.prompt \in Seq(Vocab) /\ cache[LastStage] = <<>> /\ generated = <<>>
        /\ decision[0] = "none"
    BY <1>1, <2>1, JobFacts DEF Init
  <2>3. SubSeq(job.prompt \o <<>>, Len(<<>>) + 1, Len(job.prompt) + Len(<<>>)) = job.prompt
    <3>1. SubSeq(job.prompt \o <<>>, 1, Len(job.prompt) + Len(<<>>)) = job.prompt
      BY <2>2, RestOfText
    <3> QED
      BY <3>1
  <2>4. SingleProcess!Jobs = Jobs /\ Stop = "none"
    BY <2>2 DEF SingleProcess!Jobs, Jobs, Stop, StopReasons
  <2> QED
    BY <2>2, <2>3, <2>4 DEF SingleProcess!GenerationInit
<1> QED
  BY <1>1, AlwaysIInv, StepImplementsGeneration, PTL DEF Spec, ImplementsGeneration,
     SingleProcess!Safety
=============================================================================
