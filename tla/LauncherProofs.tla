--------------------------- MODULE LauncherProofs ---------------------------
(***************************************************************************)
(* Proofs about the plan of a launch: for every number of ranks and layers *)
(* the loop of PipelinePartition::balanced covers the model, and the       *)
(* limits that plan_resources gives to the containers add up to no more    *)
(* than the engine has.  Then proofs about the rest of the command: what   *)
(* its success and its failure mean, and what it leaves behind.            *)
(***************************************************************************)
EXTENDS Launcher, SharedLemmas, FiniteSetTheorems

LEMMA Division ==
  ASSUME NEW a \in Nat, NEW b \in Nat, b > 0
  PROVE  /\ a \div b \in Nat /\ a % b \in Nat
         /\ a % b < b
         /\ a = b * (a \div b) + (a % b)
BY SMT

(* Where the n-th stage ends: the first ranks have one layer more. *)
Bound(m, n) ==
  n * (m.layers \div WorldSize) + (IF n <= m.layers % WorldSize THEN n ELSE m.layers % WorldSize)

Stage == [rank : Nat, start : Nat, end : Nat]

(* The stages that are there lie between the bounds, and only a plan that  *)
(* is complete and accepted is carried out.                                *)
PlanInv ==
  /\ request \in Requests
  /\ stages \in Seq(Stage)
  /\ Len(stages) <= WorldSize
  /\ Len(stages) > 0 => PartitionAccepted(request.model, WorldSize)
  /\ \A i \in 1 .. Len(stages) : /\ stages[i].rank = i - 1
                                 /\ stages[i].start = Bound(request.model, i - 1)
                                 /\ stages[i].end = Bound(request.model, i)
  /\ pc = "network" =>
       /\ request.mode = "pipeline" => Len(stages) = WorldSize
       /\ request.mode = "tensor" => ShardAccepted(request.model, WorldSize)
       /\ ResourcesAccepted(WorldSize, request.cpus, request.memory, Engine)

LEMMA BoundStep ==
  ASSUME NEW m, m.layers \in Nat, NEW n \in Nat
  PROVE  /\ Bound(m, n) \in Nat
         /\ Bound(m, 0) = 0
         /\ Bound(m, n + 1) = Bound(m, n) + LayerCount(m, WorldSize, n)
         /\ Bound(m, WorldSize) = m.layers
<1> DEFINE base == m.layers \div WorldSize
           remainder == m.layers % WorldSize
<1>1. WorldSize \in Nat /\ WorldSize > 0
  BY WorldSizeAssumption
<1>2. /\ base \in Nat /\ remainder \in Nat /\ remainder < WorldSize
      /\ m.layers = WorldSize * base + remainder
  <2> DEFINE a == m.layers
  <2>1. a \in Nat
    OBVIOUS
  <2> HIDE DEF a
  <2>2. /\ a \div WorldSize \in Nat /\ a % WorldSize \in Nat /\ a % WorldSize < WorldSize
        /\ a = WorldSize * (a \div WorldSize) + (a % WorldSize)
    BY <1>1, <2>1, Division
  <2> QED
    BY <2>2 DEF a
<1> HIDE DEF base, remainder
<1>3. \A k : Bound(m, k) = k * base + (IF k <= remainder THEN k ELSE remainder)
  BY DEF Bound, base, remainder
<1>4. LayerCount(m, WorldSize, n) = base + (IF n < remainder THEN 1 ELSE 0)
  BY DEF LayerCount, base, remainder
<1>5. Bound(m, n) \in Nat
  BY <1>2, <1>3
<1>6. Bound(m, 0) = 0
  BY <1>2, <1>3
<1>7. (n + 1) * base = n * base + base
  BY <1>2
<1>8. Bound(m, n + 1) = Bound(m, n) + LayerCount(m, WorldSize, n)
  <2>1. n * base \in Nat
    BY <1>2
  <2> QED
    BY <1>2, <1>3, <1>4, <1>7, <2>1
<1>9. Bound(m, WorldSize) = m.layers
  BY <1>2, <1>1, <1>3
<1> QED
  BY <1>5, <1>6, <1>8, <1>9

(* A step that does not plan. *)
PlanKept ==
  /\ UNCHANGED <<request, stages>>
  /\ pc' = "network" => pc = "network"

LEMMA OnlyPlanningPlans ==
  ASSUME [Next]_vars, ~AssignStage, ~PlanAccepted
  PROVE  PlanKept
<1>1. CASE PlanRefused
  BY <1>1 DEF PlanRefused, Refuse, PlanKept, planning
<1>2. CASE CreateNetwork
  BY <1>2 DEF CreateNetwork, PlanKept, planning
<1>3. CASE StartContainer
  BY <1>3 DEF StartContainer, PlanKept, planning
<1>4. CASE AllStarted
  BY <1>4 DEF AllStarted, PlanKept, planning
<1>5. CASE Poll
  BY <1>5 DEF Poll, PlanKept, planning
<1>6. CASE DashboardFinished
  BY <1>6 DEF DashboardFinished, DashboardReturns, PlanKept, planning
<1>7. CASE CollectorEnds
  BY <1>7 DEF CollectorEnds, PlanKept, planning
<1>8. CASE Report
  BY <1>8 DEF Report, PlanKept, planning
<1>9. CASE Drop
  BY <1>9 DEF Drop, PlanKept, planning
<1>10. ASSUME NEW r \in Ranks, TakeLine(r)
     PROVE  PlanKept
  BY <1>10 DEF TakeLine, PlanKept, planning
<1>11. ASSUME NEW r \in Ranks, StreamEnds(r)
     PROVE  PlanKept
  BY <1>11 DEF StreamEnds, EndStream, PlanKept, planning
<1>12. ASSUME NEW r \in Ranks, WaitReturns(r)
     PROVE  PlanKept
  BY <1>12 DEF WaitReturns, ExitReported, PlanKept, planning
<1>13. CASE PreparationFails
  BY <1>13 DEF PreparationFails, Refuse, PlanKept, planning
<1>14. CASE StartFails
  BY <1>14 DEF StartFails, Abandon, PlanKept, planning
<1>15. CASE WaitFails
  BY <1>15 DEF WaitFails, Abandon, PlanKept, planning
<1>16. CASE DashboardFails
  BY <1>16 DEF DashboardFails, Abandon, PlanKept, planning
<1>17. CASE ReportFails
  BY <1>17 DEF ReportFails, Abandon, PlanKept, planning
<1>18. ASSUME NEW r \in Ranks, StreamBreaks(r)
     PROVE  PlanKept
  BY <1>18 DEF StreamBreaks, EndStream, PlanKept, planning
<1>19. ASSUME NEW r \in Ranks, WaitGarbled(r)
     PROVE  PlanKept
  BY <1>19 DEF WaitGarbled, ExitReported, PlanKept, planning
<1>20. CASE Interrupt
  BY <1>20 DEF Interrupt, PlanKept, planning
<1>21. CASE DashboardDisabled
  BY <1>21 DEF DashboardDisabled, DashboardReturns, PlanKept, planning
<1>22. CASE DashboardInterrupted
  BY <1>22 DEF DashboardInterrupted, DashboardReturns, PlanKept, planning
<1>23. ASSUME NEW r \in Ranks, RankPublishes(r)
     PROVE  PlanKept
  BY <1>23 DEF RankPublishes, RankOutput, PlanKept, planning
<1>24. ASSUME NEW r \in Ranks, RankReports(r)
     PROVE  PlanKept
  BY <1>24 DEF RankReports, RankOutput, PlanKept, planning
<1>25. ASSUME NEW r \in Ranks, RankSucceeds(r)
     PROVE  PlanKept
  BY <1>25 DEF RankSucceeds, RankEnds, PlanKept, planning
<1>26. ASSUME NEW r \in Ranks, RankFails(r)
     PROVE  PlanKept
  BY <1>26 DEF RankFails, RankEnds, PlanKept, planning
<1>27. ASSUME NEW r \in Ranks, RankReportsWrong(r)
     PROVE  PlanKept
  BY <1>27 DEF RankReportsWrong, RankOutput, PlanKept, planning
<1>28. CASE UNCHANGED vars
  BY <1>28 DEF vars, PlanKept, planning
<1> QED
  BY <1>1, <1>2, <1>3, <1>4, <1>5, <1>6, <1>7, <1>8, <1>9, <1>10, <1>11, <1>12, <1>13, <1>14,
     <1>15, <1>16, <1>17, <1>18, <1>19, <1>20, <1>21, <1>22, <1>23, <1>24, <1>25, <1>26, <1>27,
     <1>28 DEF Next, Host, Faults, User, Rank

LEMMA PlanInvInit ==
  ASSUME Init
  PROVE  PlanInv
BY WorldSizeAssumption DEF Init, PlanInv, Stage

LEMMA PlanInvStep ==
  ASSUME PlanInv, [Next]_vars
  PROVE  PlanInv'
<1>0. request.model.layers \in Nat /\ WorldSize \in Nat
  BY LauncherAssumption, WorldSizeAssumption DEF PlanInv
<1>1. CASE AssignStage
  <2> DEFINE n == Len(stages)
             start == IF n = 0 THEN 0 ELSE stages[n].end
             stage == [rank |-> n, start |-> start,
                       end |-> start + LayerCount(request.model, WorldSize, n)]
  <2>1. /\ pc = "plan" /\ pc' = pc /\ request' = request
        /\ PartitionAccepted(request.model, WorldSize)
        /\ n < WorldSize /\ n \in Nat
        /\ stages' = Append(stages, stage)
    BY <1>1 DEF AssignStage, PlanInv
  <2>2. start = Bound(request.model, n)
    <3>1. CASE n = 0
      BY <3>1, <1>0, BoundStep
    <3>2. CASE n # 0
      BY <3>2, <2>1 DEF PlanInv
    <3> QED
      BY <3>1, <3>2
  <2>3. /\ start \in Nat
        /\ stage.rank = n
        /\ stage.start = Bound(request.model, n)
        /\ stage.end = Bound(request.model, n + 1) /\ stage.end \in Nat
    <3>1. /\ stage.rank = n /\ stage.start = start
          /\ stage.end = start + LayerCount(request.model, WorldSize, n)
      OBVIOUS
    <3>2. n \in Nat /\ n + 1 \in Nat
      BY <2>1
    <3> HIDE DEF n, start, stage
    <3>3. Bound(request.model, n) \in Nat
      BY <1>0, <3>2, BoundStep
    <3>4. Bound(request.model, n + 1) \in Nat
      BY <1>0, <3>2, BoundStep
    <3>5. Bound(request.model, n + 1) = Bound(request.model, n) + LayerCount(request.model, WorldSize, n)
      BY <1>0, <3>2, BoundStep
    <3> QED
      BY <2>2, <3>1, <3>3, <3>4, <3>5
  <2> HIDE DEF start
  <2>4. stage \in Stage
    BY <2>1, <2>3 DEF Stage
  <2> HIDE DEF stage
  <2>5. stages' \in Seq(Stage) /\ Len(stages') = n + 1
    BY <2>1, <2>4 DEF PlanInv
  <2>6. ASSUME NEW i \in 1 .. n + 1
        PROVE  /\ stages'[i].rank = i - 1
               /\ stages'[i].start = Bound(request.model, i - 1)
               /\ stages'[i].end = Bound(request.model, i)
    <3>1. CASE i = n + 1
      <4>1. stages'[i] = stage
        BY <2>1, <3>1 DEF PlanInv
      <4> QED
        BY <2>1, <2>3, <3>1, <4>1
    <3>2. CASE i \in 1 .. n
      <4>1. stages'[i] = stages[i]
        BY <2>1, <3>2 DEF PlanInv
      <4> QED
        BY <3>2, <4>1 DEF PlanInv
    <3> QED
      BY <2>1, <3>1, <3>2
  <2> QED
    <3>1. Len(stages') <= WorldSize
      BY <1>0, <2>1, <2>5
    <3>2. request' \in Requests /\ pc' # "network"
      BY <2>1 DEF PlanInv
    <3> QED
      BY <2>1, <2>5, <2>6, <3>1, <3>2 DEF PlanInv
<1>2. CASE PlanAccepted
  <2>1. UNCHANGED <<request, stages>> /\ PlanReady /\ Accepted
    BY <1>2 DEF PlanAccepted, planning
  <2>2. request.mode = "tensor" => ShardAccepted(request.model, WorldSize)
    BY <2>1 DEF Accepted, Placed
  <2> QED
    BY <2>1, <2>2 DEF PlanInv, PlanReady, Accepted, Bound
<1>3. CASE ~AssignStage /\ ~PlanAccepted
  BY <1>3, OnlyPlanningPlans DEF PlanKept, PlanInv, Bound
<1> QED
  BY <1>1, <1>2, <1>3

LEMMA PlanInvariant == Spec => []PlanInv
<1>1. Init => PlanInv
  BY PlanInvInit
<1>2. PlanInv /\ [Next]_vars => PlanInv'
  BY PlanInvStep
<1> QED
  BY <1>1, <1>2, PTL DEF Spec

-----------------------------------------------------------------------------

(* Sums over the stages.  A running total that differs from its closed     *)
(* form anywhere differs somewhere first.                                  *)
LEMMA TotalIs ==
  ASSUME NEW n \in Nat, NEW part, NEW closed \in [0 .. n -> Int],
         closed[0] = 0,
         \A i \in 1 .. n : closed[i] = closed[i - 1] + part[i]
  PROVE  Total(part, n) = closed[n]
<1> DEFINE Solves(f) == f = [i \in 0 .. n |-> IF i = 0 THEN 0 ELSE f[i - 1] + part[i]]
           sum == CHOOSE f : Solves(f)
<1>1. Solves(closed)
  OBVIOUS
<1>2. Solves(sum)
  BY <1>1
<1>3. Total(part, n) = sum[n]
  BY DEF Total
<1> HIDE DEF sum
<1>4. \A i \in 0 .. n : sum[i] = IF i = 0 THEN 0 ELSE sum[i - 1] + part[i]
  BY <1>2
<1> DEFINE wrong == {i \in 0 .. n : sum[i] # closed[i]}
<1>5. wrong = {}
  <2> SUFFICES ASSUME wrong # {}
               PROVE  FALSE
    OBVIOUS
  <2>1. PICK x \in wrong : \A y \in wrong : x <= y
    <3>1. wrong \subseteq Nat
      OBVIOUS
    <3> HIDE DEF wrong
    <3> QED
      BY <3>1, LeastNatural
  <2>2. x # 0
    BY <1>4
  <2>3. x - 1 \in 0 .. n /\ x - 1 \notin wrong
    BY <2>1, <2>2
  <2> QED
    BY <1>4, <2>2, <2>3
<1> QED
  BY <1>3, <1>5

(* The sizes of a model are natural numbers, and so is what is computed    *)
(* from them.                                                              *)
Sized(m) ==
  /\ m.layers \in Nat /\ m.hidden \in Nat /\ m.intermediate \in Nat
  /\ m.heads \in Nat \ {0} /\ m.kvHeads \in Nat /\ m.vocab \in Nat

LEMMA RequestsSized ==
  ASSUME PlanInv
  PROVE  Sized(request.model)
BY LauncherAssumption DEF PlanInv, Sized

LEMMA ProductNat ==
  ASSUME NEW a \in Nat, NEW b \in Nat
  PROVE  a * b \in Nat
OBVIOUS

LEMMA SizesNat ==
  ASSUME NEW m, Sized(m)
  PROVE  HeadDim(m) \in Nat /\ KvWidth(m) \in Nat /\ Embedding(m) \in Nat /\ Block(m) \in Nat
<1>1. HeadDim(m) \in Nat
  <2> DEFINE a == m.hidden
             b == m.heads
  <2>1. a \in Nat /\ b \in Nat /\ b > 0
    BY DEF Sized
  <2> HIDE DEF a, b
  <2>2. a \div b \in Nat
    BY <2>1, Division
  <2> QED
    BY <2>2 DEF HeadDim, a, b
<1>2. KvWidth(m) \in Nat
  BY <1>1, ProductNat DEF KvWidth, Sized
<1>3. Embedding(m) \in Nat
  BY ProductNat DEF Embedding, Sized
<1>4. Block(m) \in Nat
  <2> DEFINE h == m.hidden
             k == KvWidth(m)
             i == m.intermediate
  <2>1. h \in Nat /\ k \in Nat /\ i \in Nat
    BY <1>2 DEF Sized
  <2>2. Block(m) = 2 * h * h + 2 * h * k + 3 * h * i + 2 * h
    BY DEF Block
  <2> HIDE DEF h, k, i
  <2>3. 2 * h * h \in Nat /\ 2 * h * k \in Nat /\ 3 * h * i \in Nat /\ 2 * h \in Nat
    BY <2>1
  <2> QED
    BY <2>2, <2>3
<1> QED
  BY <1>1, <1>2, <1>3, <1>4

(* memory.rs counts what the blocks, the embeddings and the last norm have.*)
LEMMA ModelByBlocks ==
  ASSUME NEW m, Sized(m)
  PROVE  ModelParameters(m) = Block(m) * m.layers + m.hidden + Embedding(m)
                                + (IF m.tied THEN 0 ELSE Embedding(m))
<1> DEFINE h == m.hidden
           k == KvWidth(m)
           i == m.intermediate
           l == m.layers
           e == Embedding(m)
           head == IF m.tied THEN 0 ELSE e
<1>1. h \in Nat /\ k \in Nat /\ i \in Nat /\ l \in Nat /\ e \in Nat /\ head \in Nat
  BY SizesNat DEF Sized
<1>2. Block(m) = 2 * h * h + 2 * h * k + 3 * h * i + 2 * h
  BY DEF Block
<1>3. ModelParameters(m) = e + l * (2 * h * h + 2 * h * k) + l * 3 * h * i + l * 2 * h + h + head
  BY DEF ModelParameters
<1> HIDE DEF h, k, i, l, e, head
<1>4. (2 * h * h + 2 * h * k + 3 * h * i + 2 * h) * l
        = l * (2 * h * h + 2 * h * k) + l * 3 * h * i + l * 2 * h
  BY <1>1
<1>5. /\ l * (2 * h * h + 2 * h * k) \in Nat
      /\ l * 3 * h * i \in Nat /\ l * 2 * h \in Nat
  BY <1>1
<1> QED
  BY <1>1, <1>2, <1>3, <1>4, <1>5 DEF h, l, e, head

(* The stages together hold what the model has, and the embedding twice    *)
(* even when it is tied.                                                   *)
LEMMA StagesHoldModel ==
  ASSUME PlanInv, pc = "network", request.mode = "pipeline"
  PROVE  Total(StageSizes, WorldSize)
           = ModelParameters(request.model)
               + (IF request.model.tied THEN Embedding(request.model) ELSE 0)
<1> DEFINE m == request.model
           b == Block(m)
           e == Embedding(m)
           h == m.hidden
           closed == [n \in 0 .. WorldSize |->
                        b * Bound(m, n) + (IF n >= 1 THEN e ELSE 0)
                          + (IF n = WorldSize THEN h + e ELSE 0)]
<1>1. Sized(m)
  BY RequestsSized
<1>2. /\ WorldSize \in Nat /\ WorldSize >= 2 /\ Len(stages) = WorldSize
      /\ stages \in Seq(Stage)
  BY WorldSizeAssumption DEF PlanInv, PartitionAccepted, MIN_WORLD_SIZE
<1>3. m.layers \in Nat /\ h \in Nat /\ b \in Nat /\ e \in Nat
  BY <1>1, SizesNat DEF Sized
<1>4. \A n \in Nat : Bound(m, n) \in Nat /\ b * Bound(m, n) \in Nat
  BY <1>3, BoundStep, ProductNat
<1>5. \A i \in 1 .. WorldSize :
        StageSizes[i] = b * (Bound(m, i) - Bound(m, i - 1)) + (IF i = 1 THEN e ELSE 0)
                          + (IF i = WorldSize THEN h + e ELSE 0)
  <2> SUFFICES ASSUME NEW i \in 1 .. WorldSize
               PROVE  StageSizes[i] = b * (Bound(m, i) - Bound(m, i - 1)) + (IF i = 1 THEN e ELSE 0)
                                        + (IF i = WorldSize THEN h + e ELSE 0)
    OBVIOUS
  <2>1. DOMAIN stages = 1 .. WorldSize
    BY <1>2
  <2>2. stages[i].rank = i - 1 /\ stages[i].start = Bound(m, i - 1) /\ stages[i].end = Bound(m, i)
    BY <1>2 DEF PlanInv
  <2>3. (i - 1 = 0 <=> i = 1) /\ (i - 1 + 1 = WorldSize <=> i = WorldSize)
    BY <1>2
  <2> QED
    <3> DEFINE s == stages[i]
    <3>1. StageSizes[i] = StageParameters(m, WorldSize, s)
      BY <2>1 DEF StageSizes
    <3>2. s.rank = i - 1 /\ s.start = Bound(m, i - 1) /\ s.end = Bound(m, i)
      BY <2>2
    <3> HIDE DEF s, m
    <3>3. StageParameters(m, WorldSize, s)
            = b * (Bound(m, i) - Bound(m, i - 1)) + (IF i = 1 THEN e ELSE 0)
                + (IF i = WorldSize THEN h + e ELSE 0)
      BY <2>3, <3>2 DEF StageParameters
    <3> QED
      BY <3>1, <3>3
<1> HIDE DEF m, b, e, h
<1>6. closed \in [0 .. WorldSize -> Int] /\ closed[0] = 0
  <2>1. Bound(m, 0) = 0
    BY <1>3, BoundStep
  <2>2. ASSUME NEW n \in 0 .. WorldSize
        PROVE  closed[n] \in Int
    <3>1. b * Bound(m, n) \in Int
      BY <1>4
    <3> DEFINE p == b * Bound(m, n)
    <3>2. closed[n] = p + (IF n >= 1 THEN e ELSE 0) + (IF n = WorldSize THEN h + e ELSE 0)
      OBVIOUS
    <3> HIDE DEF p, closed
    <3> QED
      BY <1>2, <1>3, <3>1, <3>2 DEF p
  <2> QED
    BY <1>2, <1>3, <2>1, <2>2
<1>7. ASSUME NEW i \in 1 .. WorldSize
      PROVE  closed[i] = closed[i - 1] + StageSizes[i]
  <2>1. i - 1 \in 0 .. WorldSize /\ i \in 0 .. WorldSize /\ i \in Nat /\ i - 1 \in Nat
    BY <1>2
  <2> DEFINE x == Bound(m, i)
             y == Bound(m, i - 1)
  <2>2. x \in Nat /\ y \in Nat /\ b * x \in Nat /\ b * y \in Nat
    BY <1>4, <2>1
  <2>3. closed[i] = b * x + e + (IF i = WorldSize THEN h + e ELSE 0)
    BY <2>1
  <2>4. closed[i - 1] = b * y + (IF i = 1 THEN 0 ELSE e)
    BY <1>2, <1>3, <2>1, <2>2
  <2>5. StageSizes[i] = b * (x - y) + (IF i = 1 THEN e ELSE 0) + (IF i = WorldSize THEN h + e ELSE 0)
    BY <1>5
  <2> HIDE DEF x, y, closed
  <2>6. b * (x - y) = b * x - b * y
    BY <1>3, <2>2
  <2> QED
    BY <1>3, <2>2, <2>3, <2>4, <2>5, <2>6
<1>8. Total(StageSizes, WorldSize) = closed[WorldSize]
  <2> HIDE DEF closed
  <2> QED
    BY <1>2, <1>6, <1>7, TotalIs
<1>9. closed[WorldSize] = b * m.layers + e + (h + e)
  <2>1. Bound(m, WorldSize) = m.layers
    BY <1>2, <1>3, BoundStep
  <2>2. WorldSize \in 0 .. WorldSize /\ WorldSize >= 1
    BY <1>2
  <2> QED
    BY <2>1, <2>2
<1>10. ModelParameters(m) = b * m.layers + h + e + (IF m.tied THEN 0 ELSE e)
  BY <1>1, ModelByBlocks DEF b, e, h
<1>11. b * m.layers \in Nat
  BY <1>3
<1>12. Total(StageSizes, WorldSize) = ModelParameters(m) + (IF m.tied THEN e ELSE 0)
  <2> HIDE DEF closed
  <2>1. CASE m.tied
    BY <1>3, <1>8, <1>9, <1>10, <1>11, <2>1
  <2>2. CASE ~m.tied
    BY <1>3, <1>8, <1>9, <1>10, <1>11, <2>2
  <2> QED
    BY <2>1, <2>2
<1> QED
  BY <1>12 DEF m, e

LEMMA ExactDivision ==
  ASSUME NEW a \in Nat, NEW b \in Nat, b > 0, NEW q \in Nat, a = b * q
  PROVE  a \div b = q
<1>1. /\ a \div b \in Nat /\ a % b \in Nat /\ a % b < b
      /\ a = b * (a \div b) + (a % b)
  BY Division
<1> DEFINE d == a \div b
           c == a % b
<1>2. d \in Nat /\ c \in Nat /\ c < b /\ b * q = b * d + c
  BY <1>1
<1> HIDE DEF d, c
<1>3. ~(q > d)
  <2> SUFFICES ASSUME q >= d + 1
               PROVE  FALSE
    BY <1>2
  <2>1. b * q >= b * (d + 1) /\ b * (d + 1) = b * d + b
    BY <1>2
  <2> QED
    BY <1>2, <2>1
<1>4. ~(q < d)
  <2> SUFFICES ASSUME d >= q + 1
               PROVE  FALSE
    BY <1>2
  <2>1. b * d >= b * (q + 1) /\ b * (q + 1) = b * q + b
    BY <1>2
  <2> QED
    BY <1>2, <2>1
<1> QED
  BY <1>2, <1>3, <1>4 DEF d

(* The shards hold what the model has, and the norms once for every rank:  *)
(* no division of plan_tensor_shard rounds.                                *)
LEMMA ShardsHoldModel ==
  ASSUME NEW m, Sized(m), ShardAccepted(m, WorldSize)
  PROVE  /\ Architectural(m) = ModelParameters(m)
         /\ WorldSize * LocalParameters(m, WorldSize)
              = ModelParameters(m) + (WorldSize - 1) * Replicated(m)
<1> DEFINE w == WorldSize
           h == m.hidden
           v == m.vocab
           i == m.intermediate
           l == m.layers
           k == m.kvHeads
           d == HeadDim(m)
           part == h \div w
           copies == IF m.tied THEN 1 ELSE 2
           repl == Replicated(m)
           arch == Architectural(m)
           q == copies * (v * part) + l * (2 * (part * h) + 2 * (k * d * part) + 3 * (part * i))
<1>1. /\ w \in Nat /\ w > 0 /\ copies \in Nat
      /\ h \in Nat /\ v \in Nat /\ i \in Nat /\ l \in Nat /\ k \in Nat /\ d \in Nat
  BY WorldSizeAssumption, SizesNat DEF Sized
<1>2. part \in Nat /\ h = w * part
  <2>1. h % w = 0
    BY DEF ShardAccepted
  <2> DEFINE c == h % w
  <2>2. c = 0 /\ part \in Nat /\ h = w * part + c
    BY <1>1, <2>1, Division
  <2> HIDE DEF part, c
  <2>3. w * part \in Nat
    BY <1>1, <2>2
  <2> QED
    BY <2>2, <2>3
<1>3. repl = 2 * l * h + h
  BY DEF Replicated
<1>4. arch = copies * (v * h) + l * (2 * (h * h) + 2 * (k * d * h) + 3 * (h * i)) + repl
  <2> DEFINE e == v * h
             a == l * (h * h + 2 * k * d * h + h * h + 3 * h * i + 2 * h)
             b == l * (2 * (h * h) + 2 * (k * d * h) + 3 * (h * i))
  <2>1. arch = e + a + h + (IF m.tied THEN 0 ELSE e)
    BY DEF Architectural, Embedding
  <2>2. e \in Nat /\ a \in Nat /\ b \in Nat /\ a = b + 2 * l * h
    <3> HIDE DEF h, k, d, i, l, v
    <3> QED
      BY <1>1
  <2>3. copies * e = e + (IF m.tied THEN 0 ELSE e)
    <3> HIDE DEF e
    <3>1. CASE m.tied
      BY <2>2, <3>1
    <3>2. CASE ~m.tied
      BY <2>2, <3>2
    <3> QED
      BY <3>1, <3>2
  <2> DEFINE rest == IF m.tied THEN 0 ELSE e
             all == copies * e
             n == 2 * l * h
  <2>4. rest \in Nat /\ all \in Nat /\ n \in Nat
    <3> HIDE DEF copies, e, h, l
    <3> QED
      BY <1>1, <2>2
  <2>5. all = e + rest /\ arch = e + a + h + rest /\ a = b + n /\ repl = n + h
    BY <1>3, <2>1, <2>2, <2>3
  <2> HIDE DEF rest, all, n, a, b, e, h, arch, repl
  <2>6. arch = all + b + repl
    BY <1>1, <2>2, <2>4, <2>5
  <2> QED
    BY <2>6 DEF all, e, b
<1>5. arch = ModelParameters(m)
  <2>1. Block(m) * l = l * (2 * (h * h) + 2 * (k * d * h) + 3 * (h * i)) + 2 * l * h
    <3>1. Block(m) = 2 * h * h + 2 * h * (k * d) + 3 * h * i + 2 * h
      BY DEF Block, KvWidth
    <3> HIDE DEF h, k, d, i, l
    <3>2. (2 * h * h + 2 * h * (k * d) + 3 * h * i + 2 * h) * l
            = l * (2 * (h * h) + 2 * (k * d * h) + 3 * (h * i)) + 2 * l * h
      BY <1>1
    <3> QED
      BY <3>1, <3>2
  <2> DEFINE b == l * (2 * (h * h) + 2 * (k * d * h) + 3 * (h * i))
             n == 2 * l * h
             e == v * h
             rest == IF m.tied THEN 0 ELSE e
  <2>2. ModelParameters(m) = Block(m) * l + h + e + rest
    BY ModelByBlocks DEF Embedding
  <2>3. b \in Nat /\ n \in Nat /\ e \in Nat /\ rest \in Nat
    <3>1. b \in Nat /\ n \in Nat /\ e \in Nat
      <4> HIDE DEF h, k, d, i, l, v
      <4> QED
        BY <1>1
    <3> QED
      BY <3>1
  <2>4. copies * e = e + rest
    <3> HIDE DEF e
    <3>1. CASE m.tied
      BY <2>3, <3>1
    <3>2. CASE ~m.tied
      BY <2>3, <3>2
    <3> QED
      BY <3>1, <3>2
  <2>5. arch = copies * e + b + repl /\ repl = n + h /\ Block(m) * l = b + n
    BY <1>3, <1>4, <2>1
  <2> HIDE DEF b, n, e, rest, h, arch, repl, copies
  <2> QED
    BY <1>1, <2>2, <2>3, <2>4, <2>5
<1>6. q \in Nat /\ repl \in Nat
  <2> HIDE DEF h, k, d, i, l, v, copies, part
  <2>1. v * part \in Nat /\ part * h \in Nat /\ k * d * part \in Nat /\ part * i \in Nat
    BY <1>1, <1>2
  <2>2. 2 * l * h + h \in Nat
    BY <1>1
  <2>3. q \in Nat
    <3> DEFINE x == v * part
               y == 2 * (part * h) + 2 * (k * d * part) + 3 * (part * i)
    <3>1. x \in Nat /\ y \in Nat
      BY <2>1
    <3> HIDE DEF x, y
    <3>2. copies * x + l * y \in Nat
      BY <1>1, <3>1
    <3> QED
      BY <3>2 DEF x, y
  <2> QED
    BY <1>3, <2>2, <2>3
<1>7. copies * (v * h) + l * (2 * (h * h) + 2 * (k * d * h) + 3 * (h * i)) = w * q
  <2> HIDE DEF h, k, d, i, l, v, copies, part, w
  <2>1. v * h = w * (v * part)
    BY <1>1, <1>2
  <2>2. h * h = w * (part * h)
    BY <1>1, <1>2
  <2>3. k * d * h = w * (k * d * part)
    BY <1>1, <1>2
  <2>4. h * i = w * (part * i)
    BY <1>1, <1>2
  <2> DEFINE x1 == v * part
             x2 == part * h
             x3 == k * d * part
             x4 == part * i
  <2>5. x1 \in Nat /\ x2 \in Nat /\ x3 \in Nat /\ x4 \in Nat
    BY <1>1, <1>2
  <2> HIDE DEF x1, x2, x3, x4
  <2>6. copies * (w * x1) + l * (2 * (w * x2) + 2 * (w * x3) + 3 * (w * x4))
          = w * (copies * x1 + l * (2 * x2 + 2 * x3 + 3 * x4))
    BY <1>1, <2>5
  <2> QED
    BY <2>1, <2>2, <2>3, <2>4, <2>6 DEF x1, x2, x3, x4
<1>8. w * q \in Nat /\ arch - repl = w * q /\ arch = w * q + repl
  <2>1. arch = w * q + repl
    BY <1>4, <1>7
  <2> HIDE DEF q, arch, repl, w
  <2>2. w * q \in Nat
    BY <1>1, <1>6
  <2> QED
    BY <1>6, <2>1, <2>2
<1>9. LocalParameters(m, WorldSize) = q + repl
  <2>1. LocalParameters(m, WorldSize) = (arch - repl) \div w + repl
    BY DEF LocalParameters
  <2> HIDE DEF q, arch, repl, w
  <2>2. (arch - repl) \div w = q
    BY <1>1, <1>6, <1>8, ExactDivision
  <2> QED
    BY <2>1, <2>2
<1> HIDE DEF q, arch, repl, w
<1>10. w * (q + repl) = (w * q + repl) + (w - 1) * repl
  BY <1>1, <1>6
<1> QED
  BY <1>5, <1>8, <1>9, <1>10 DEF arch, repl, w

-----------------------------------------------------------------------------

(* The stages that run_pipeline starts follow each other from layer 0 to   *)
(* the last one, none is empty, and no two differ by more than a layer,    *)
(* whatever the number of layers and ranks: debug_assert_eq!(next, layers) *)
(* of PipelinePartition::balanced and more.                                *)
THEOREM StagesCorrect == Spec => []StagesCoverModel
<1>1. ASSUME PlanInv
      PROVE  StagesCoverModel
  <2> SUFFICES ASSUME pc = "network", request.mode = "pipeline"
               PROVE  StagesCoverModel
    BY DEF StagesCoverModel
  <2>1. /\ request.model.layers \in Nat /\ WorldSize \in Nat /\ WorldSize > 0
        /\ Len(stages) = WorldSize
        /\ WorldSize <= request.model.layers
    BY <1>1, LauncherAssumption, WorldSizeAssumption DEF PlanInv, PartitionAccepted
  <2>2. \A i \in 1 .. WorldSize : /\ stages[i].start = Bound(request.model, i - 1)
                                  /\ stages[i].end = Bound(request.model, i)
    BY <1>1, <2>1 DEF PlanInv
  <2> DEFINE base == request.model.layers \div WorldSize
  <2>3. base \in Nat /\ base >= 1
    <3>1. /\ base \in Nat /\ request.model.layers % WorldSize < WorldSize
          /\ request.model.layers % WorldSize \in Nat
          /\ request.model.layers = WorldSize * base + (request.model.layers % WorldSize)
      BY <2>1, Division
    <3> HIDE DEF base
    <3>2. base # 0
      BY <2>1, <3>1
    <3> QED
      BY <3>1, <3>2
  <2>4. ASSUME NEW i \in 1 .. WorldSize
        PROVE  /\ stages[i].start \in Nat /\ stages[i].end \in Nat
               /\ stages[i].end - stages[i].start \in {base, base + 1}
    <3>1. i - 1 \in Nat /\ (i - 1) + 1 = i /\ i \in Nat
      BY <2>1
    <3>2. Bound(request.model, i) = Bound(request.model, i - 1) + LayerCount(request.model, WorldSize, i - 1)
      BY <2>1, <3>1, BoundStep
    <3>3. Bound(request.model, i) \in Nat /\ Bound(request.model, i - 1) \in Nat
      BY <2>1, <3>1, BoundStep
    <3>4. LayerCount(request.model, WorldSize, i - 1) \in {base, base + 1}
      BY <2>3 DEF LayerCount
    <3> QED
      BY <2>2, <2>3, <3>2, <3>3, <3>4
  <2>5. stages[1].start = 0 /\ stages[WorldSize].end = request.model.layers
    <3>1. Bound(request.model, 0) = 0 /\ Bound(request.model, WorldSize) = request.model.layers
      BY <2>1, BoundStep
    <3>2. 1 \in 1 .. WorldSize /\ WorldSize \in 1 .. WorldSize /\ 1 - 1 = 0
      BY <2>1
    <3>3. stages[1].start = Bound(request.model, 1 - 1) /\ stages[WorldSize].end = Bound(request.model, WorldSize)
      BY <2>2, <3>2
    <3> QED
      BY <3>1, <3>2, <3>3
  <2>6. \A i \in 1 .. WorldSize - 1 : stages[i].end = stages[i + 1].start
    BY <2>1, <2>2
  <2> HIDE DEF base
  <2>7. ASSUME NEW i \in 1 .. WorldSize, NEW j \in 1 .. WorldSize
        PROVE  /\ stages[i].start < stages[i].end
               /\ stages[i].end - stages[i].start <= stages[j].end - stages[j].start + 1
    BY <2>3, <2>4
  <2> QED
    BY <2>5, <2>6, <2>7 DEF StagesCoverModel
<1> QED
  BY <1>1, PlanInvariant, PTL

(* No machine is promised twice: the limits of the containers add up to no *)
(* more CPU and memory than plan_resources was told the engine has.        *)
THEOREM AllocationFits == Spec => []SharesFit
<1>1. ASSUME PlanInv
      PROVE  SharesFit
  <2> SUFFICES ASSUME pc = "network"
               PROVE  SharesFit
    BY DEF SharesFit
  <2>1. /\ WorldSize \in Nat /\ WorldSize > 0
        /\ request.cpus \in Nat /\ request.memory \in Nat
        /\ Engine.cpus \in Nat /\ Engine.memory \in Nat
        /\ request.cpus <= Engine.cpus /\ request.memory <= Engine.memory
    BY <1>1, LauncherAssumption, WorldSizeAssumption DEF PlanInv, ResourcesAccepted
  <2>2. WorldSize * Shares.cpus <= request.cpus
    <3> DEFINE share == request.cpus \div WorldSize
    <3>1. /\ share \in Nat /\ request.cpus % WorldSize \in Nat
          /\ request.cpus = WorldSize * share + (request.cpus % WorldSize)
      BY <2>1, Division
    <3>2. Shares.cpus = share
      BY DEF Shares, PerRankCpu
    <3> HIDE DEF share
    <3>3. WorldSize * share \in Nat
      BY <2>1, <3>1
    <3> QED
      BY <2>1, <3>1, <3>2, <3>3
  <2>3. WorldSize * Shares.memory <= request.memory
    <3> DEFINE share == request.memory \div WorldSize
               whole == (share \div MIB) * MIB
    <3>1. /\ share \in Nat /\ request.memory % WorldSize \in Nat
          /\ request.memory = WorldSize * share + (request.memory % WorldSize)
      BY <2>1, Division
    <3>2. Shares.memory = whole
      BY DEF Shares, PerRankMemory
    <3>3. whole \in Nat /\ whole <= share
      <4> HIDE DEF share
      <4> QED
        BY <3>1 DEF MIB
    <3> HIDE DEF share, whole
    <3>4. WorldSize * whole <= WorldSize * share
      BY <2>1, <3>1, <3>3
    <3>5. WorldSize * whole \in Nat /\ WorldSize * share \in Nat
      BY <2>1, <3>1, <3>3
    <3> QED
      BY <2>1, <3>1, <3>2, <3>4, <3>5
  <2>4. Shares.cpus \in Nat /\ Shares.memory \in Nat
    BY <2>1, Division DEF Shares, PerRankCpu, PerRankMemory, MIB
  <2>5. WorldSize * Shares.cpus \in Nat /\ WorldSize * Shares.memory \in Nat
    BY <2>1, <2>4
  <2> QED
    BY <2>1, <2>2, <2>3, <2>5 DEF SharesFit
<1> QED
  BY <1>1, PlanInvariant, PTL

(* The plan that a launch carries out is right as a whole, whatever the    *)
(* model, the engine and the number of ranks: the ranges of                *)
(* PipelinePartition::balanced cover the layers, plan_resources overbooks  *)
(* nothing, the weights that StageMemoryPlan gives to the stages add up to *)
(* those of the model with its embedding twice, and plan_tensor_shard      *)
(* gives every rank exactly its part and a copy of the norms.              *)
THEOREM PlanCorrect == Spec => []PlanCoversModel
<1>1. ASSUME PlanInv, StagesCoverModel, SharesFit
      PROVE  PlanCoversModel
  <2>1. pc = "network" /\ request.mode = "pipeline" =>
          Total(StageSizes, WorldSize)
            = ModelParameters(request.model)
                + (IF request.model.tied THEN Embedding(request.model) ELSE 0)
    BY <1>1, StagesHoldModel
  <2>2. ASSUME pc = "network", request.mode = "tensor"
        PROVE  /\ Architectural(request.model) = ModelParameters(request.model)
               /\ WorldSize * LocalParameters(request.model, WorldSize)
                    = ModelParameters(request.model) + (WorldSize - 1) * Replicated(request.model)
    <3>1. Sized(request.model) /\ ShardAccepted(request.model, WorldSize)
      BY <1>1, <2>2, RequestsSized DEF PlanInv
    <3> QED
      BY <3>1, ShardsHoldModel
  <2> QED
    BY <1>1, <2>1, <2>2 DEF PlanCoversModel
<1> QED
  BY <1>1, PlanInvariant, StagesCorrect, AllocationFits, PTL

-----------------------------------------------------------------------------
(* The command as a whole. *)

ContainerStates == {"absent", "running"} \union Exited
Lines == [kind : {"event", "result", "wrong", "garbled"}, sequence : Nat]

TypeInv ==
  /\ request \in Requests
  /\ pc \in {"plan", "network", "start", "wait", "drop", "ended"}
  /\ outcome \in {"none", "ok", "error"}
  /\ container \in [Ranks -> ContainerStates]
  /\ listed \subseteq Ranks
  /\ out \in [Ranks -> Seq(Lines)]
  /\ taken \in [Ranks -> Nat] /\ sequences \in [Ranks -> Nat]
  /\ code \in [Ranks -> {"none", "zero", "nonzero"}]
  /\ got \subseteq Ranks /\ ended \subseteq Ranks

(* How far the command is, and what it has then. *)
PhaseInv ==
  /\ pc \in {"plan", "network"} =>
       listed = {} /\ ~network /\ \A r \in Ranks : container[r] = "absent"
  /\ pc \in {"plan", "network", "start"} =>
       /\ got = {} /\ ended = {} /\ ~failed /\ ~stopped /\ outcome = "none"
       /\ \A r \in Ranks : code[r] = "none" /\ taken[r] = 0 /\ sequences[r] = 0
  /\ pc = "start" => \E n \in 0 .. WorldSize : listed = 0 .. n - 1
  /\ pc = "start" => \A r \in Ranks \ listed : container[r] = "absent"
  /\ pc = "wait" => listed = Ranks
  /\ collecting => pc = "wait"
  /\ pc # "ended" => \A r \in listed : container[r] # "absent"
  /\ pc # "ended" => \A r \in Ranks : container[r] = "absent" => out[r] = <<>>
  /\ pc = "wait" /\ ~collecting => AllReceived

(* When not all containers are listed at the end, a docker run has failed, *)
(* and only its container can be up without being listed.                  *)
LeftInv ==
  pc = "drop" /\ listed # Ranks =>
    /\ outcome = "error" /\ trouble
    /\ \A r \in Ranks : code[r] = "none"
    /\ \E x \in Ranks : \A r \in Ranks \ listed : container[r] # "absent" => r = x

EventsIn(o) == Cardinality({i \in DOMAIN o : o[i].kind = "event"})
ReportedIn(o) == \E i \in DOMAIN o : o[i].kind \in {"result", "wrong"}
LoggedIn(o) == \E i \in DOMAIN o : o[i].kind = "result"

(* What a container in state c can have written: events numbered from      *)
(* zero, then at most a report; a broken line only if it failed, and a     *)
(* report if it succeeded.                                                 *)
Plausible(o, c) ==
  /\ \A i \in 1 .. Len(o) : o[i].kind = "event" =>
       o[i].sequence = i - 1 /\ \A j \in 1 .. i - 1 : o[j].kind = "event"
  /\ \A i \in 1 .. Len(o) : o[i].kind = "garbled" => c = "failure"
  /\ c = "running" /\ ~ReportedIn(o) => \A i \in 1 .. Len(o) : o[i].kind = "event"
  /\ c = "success" => ReportedIn(o)

OutInv == pc # "ended" => \A r \in Ranks : Plausible(out[r], container[r])

(* What the collector knows after the first t lines of o, those of r. *)
Received(o, t, s, r, g) ==
  /\ t <= Len(o)
  /\ (\A i \in 1 .. t : o[i].kind = "event") => s = t
  /\ r \in g <=> \E i \in 1 .. t : o[i].kind = "result"

TakenInv ==
  pc # "ended" => \A r \in Ranks : Received(out[r], taken[r], sequences[r], r, got)

(* What FailureHasCause asks for. *)
Faulty(o, c) == c = "failure" \/ (ReportedIn(o) /\ ~LoggedIn(o))
Cause == trouble \/ (Polls /\ interrupted) \/ \E r \in Ranks : Faulty(out[r], container[r])

(* Whatever can make the verdict an error has a cause. *)
CauseInv ==
  pc # "ended" =>
    /\ \A r \in Ranks : container[r] = "killed" => Cause
    /\ \A r \in Ranks : code[r] = "nonzero" => Cause
    /\ Threaded => \A r \in ended \ got : Cause
    /\ failed => Cause
    /\ pc = "drop" /\ outcome = "error" => Cause

(* Whatever makes it a success is earned. *)
EarnedInv ==
  pc # "ended" =>
    /\ \A r \in Ranks : code[r] = "zero" => container[r] = "success"
    /\ pc = "wait" /\ ~collecting /\ Polls /\ interrupted => failed
    /\ pc = "drop" /\ outcome = "ok" =>
         /\ \A r \in Ranks : code[r] = "zero" /\ LoggedIn(out[r])
         /\ ~(Polls /\ interrupted)

(* What NothingLeftBehind says, by rank. *)
Stays(r) == IF request.keep THEN container[r] = "running" ELSE container[r] # "absent"
EndInv ==
  pc = "ended" /\ ~ignored =>
    /\ \E x \in Ranks : \A r \in Ranks : Stays(r) => r = x
    /\ (\E r \in Ranks : Stays(r)) =>
         outcome = "error" /\ trouble /\ \A r \in Ranks : code[r] = "none"
    /\ network => request.keep \/ \E r \in Ranks : Stays(r)

LaunchInv == TypeInv /\ PhaseInv /\ LeftInv /\ EndInv /\ OutInv /\ TakenInv /\ CauseInv /\ EarnedInv

LEMMA TypeInit ==
  ASSUME Init PROVE TypeInv
BY DEF Init, TypeInv, ContainerStates

LEMMA StopTyped ==
  ASSUME TypeInv, NEW s, StopContainers(s)
  PROVE  container' \in [Ranks -> ContainerStates]
BY DEF TypeInv, StopContainers, ContainerStates, Exited

LEMMA OutputTyped ==
  ASSUME TypeInv, NEW r \in Ranks, NEW lines \in Seq(Lines), out' = [out EXCEPT ![r] = @ \o lines]
  PROVE  out' \in [Ranks -> Seq(Lines)]
BY DEF TypeInv

LEMMA LinesTyped ==
  ASSUME NEW n \in Nat
  PROVE  /\ <<Line("event", n)>> \in Seq(Lines) /\ <<Line("result", 0)>> \in Seq(Lines)
         /\ <<Line("event", n), Line("result", 0)>> \in Seq(Lines)
         /\ <<Line("wrong", 0)>> \in Seq(Lines)
         /\ Line("garbled", 0) \in Lines
<1>1. /\ Line("event", n) \in Lines /\ Line("result", 0) \in Lines
      /\ Line("wrong", 0) \in Lines /\ Line("garbled", 0) \in Lines
  BY DEF Line, Lines
<1>2. \A x, y \in Lines : <<x>> \in Seq(Lines) /\ <<x, y>> \in Seq(Lines)
  OBVIOUS
<1> QED
  BY <1>1, <1>2

LEMMA EventsInNat ==
  ASSUME NEW o \in Seq(Lines)
  PROVE  EventsIn(o) \in Nat
<1>1. Len(o) \in Nat /\ DOMAIN o = 1 .. Len(o)
  OBVIOUS
<1>2. IsFiniteSet(DOMAIN o)
  BY <1>1, FS_Interval
<1> QED
  BY <1>2, FS_Subset, FS_CardinalityType DEF EventsIn

LEMMA EventsNat ==
  ASSUME TypeInv, NEW r \in Ranks
  PROVE  Events(r) \in Nat
BY EventsInNat DEF Events, EventsIn, TypeInv

LEMMA NextRankIs ==
  ASSUME NEW n \in Nat, listed = 0 .. n - 1
  PROVE  NextRank = n
BY FS_Interval DEF NextRank

LEMMA TypeStep ==
  ASSUME TypeInv, PhaseInv, [Next]_vars
  PROVE  TypeInv'
<1>1. CASE AssignStage
  BY <1>1 DEF AssignStage, planning, docker, collected, TypeInv
<1>2. CASE PlanAccepted
  BY <1>2 DEF PlanAccepted, planning, docker, collected, TypeInv
<1>3. CASE PlanRefused
  BY <1>3 DEF PlanRefused, Refuse, planning, docker, collected, TypeInv
<1>4. CASE PreparationFails
  BY <1>4 DEF PreparationFails, Refuse, planning, docker, collected, TypeInv
<1>5. CASE CreateNetwork
  BY <1>5 DEF CreateNetwork, planning, collected, TypeInv
<1>6. CASE StartContainer
  <2>1. PICK n \in 0 .. WorldSize : listed = 0 .. n - 1
    BY <1>6 DEF StartContainer, PhaseInv
  <2>2. NextRank \in Ranks
    BY <1>6, <2>1, NextRankIs, WorldSizeAssumption DEF StartContainer, Ranks
  <2> QED
    BY <1>6, <2>2 DEF StartContainer, planning, collected, TypeInv, ContainerStates

<1>7. CASE StartFails
  <2>1. PICK n \in 0 .. WorldSize : listed = 0 .. n - 1
    BY <1>7 DEF StartFails, PhaseInv
  <2>2. NextRank \in Ranks
    BY <1>7, <2>1, NextRankIs, WorldSizeAssumption DEF StartFails, Ranks
  <2> QED
    BY <1>7, <2>2 DEF StartFails, Abandon, planning, collected, TypeInv, ContainerStates

<1>8. CASE AllStarted
  BY <1>8 DEF AllStarted, planning, docker, collected, TypeInv
<1>9. CASE Poll
  BY <1>9, StopTyped DEF Poll, planning, TypeInv
<1>10. CASE DashboardFinished
  BY <1>10 DEF DashboardFinished, DashboardReturns, planning, docker, collected, TypeInv
<1>11. CASE CollectorEnds
  BY <1>11 DEF CollectorEnds, planning, docker, TypeInv
<1>12. CASE Report
  BY <1>12 DEF Report, planning, docker, collected, TypeInv
<1>13. CASE Drop
  <2>1. ASSUME NEW s, StopContainers(s), UNCHANGED <<listed, network>>
        PROVE  container' \in [Ranks -> ContainerStates] /\ listed' \subseteq Ranks
    BY <2>1, StopTyped DEF TypeInv
  <2>2. ASSUME NEW s, Cleanup(s)
        PROVE  container' \in [Ranks -> ContainerStates] /\ listed' \subseteq Ranks
    BY <2>2 DEF Cleanup, TypeInv, ContainerStates
  <2>3. container' \in [Ranks -> ContainerStates] /\ listed' \subseteq Ranks
    BY <1>13, <2>1, <2>2 DEF Drop
  <2> QED
    BY <1>13, <2>3 DEF Drop, planning, collected, TypeInv
<1>14. ASSUME NEW r \in Ranks, TakeLine(r)
     PROVE  TypeInv'
  <2>1. out[r] \in Seq(Lines) /\ taken[r] \in Nat /\ taken[r] + 1 \in 1 .. Len(out[r])
    BY <1>14 DEF TypeInv, TakeLine
  <2>2. out[r][taken[r] + 1] \in Lines
    BY <2>1
  <2>3. out[r][taken[r] + 1].sequence \in Nat
    BY <2>2 DEF Lines
  <2> QED
    BY <1>14, <2>1, <2>3 DEF TakeLine, planning, docker, TypeInv
<1>15. ASSUME NEW r \in Ranks, StreamEnds(r)
     PROVE  TypeInv'
  BY <1>15 DEF StreamEnds, EndStream, planning, docker, TypeInv
<1>16. ASSUME NEW r \in Ranks, WaitReturns(r)
     PROVE  TypeInv'
  <2>1. container' \in [Ranks -> ContainerStates]
    BY <1>16, StopTyped DEF WaitReturns, ExitReported, TypeInv
  <2> QED
    BY <1>16, <2>1 DEF WaitReturns, ExitReported, planning, TypeInv
<1>17. CASE WaitFails
  BY <1>17 DEF WaitFails, Abandon, planning, docker, collected, TypeInv
<1>18. CASE DashboardFails
  BY <1>18 DEF DashboardFails, Abandon, planning, docker, collected, TypeInv
<1>19. CASE ReportFails
  BY <1>19 DEF ReportFails, Abandon, planning, docker, collected, TypeInv
<1>20. ASSUME NEW r \in Ranks, StreamBreaks(r)
     PROVE  TypeInv'
  BY <1>20 DEF StreamBreaks, EndStream, planning, docker, TypeInv
<1>21. ASSUME NEW r \in Ranks, WaitGarbled(r)
     PROVE  TypeInv'
  <2>1. container' \in [Ranks -> ContainerStates]
    BY <1>21, StopTyped DEF WaitGarbled, ExitReported, TypeInv
  <2> QED
    BY <1>21, <2>1 DEF WaitGarbled, ExitReported, planning, TypeInv
<1>22. CASE Interrupt
  BY <1>22 DEF Interrupt, planning, docker, collected, TypeInv
<1>23. CASE DashboardDisabled
  BY <1>23 DEF DashboardDisabled, DashboardReturns, planning, docker, collected, TypeInv
<1>24. CASE DashboardInterrupted
  BY <1>24 DEF DashboardInterrupted, DashboardReturns, planning, docker, collected, TypeInv
<1>25. ASSUME NEW r \in Ranks, RankPublishes(r)
     PROVE  TypeInv'
  <2>1. <<Line("event", Events(r))>> \in Seq(Lines)
    BY EventsNat, LinesTyped
  <2> QED
    BY <1>25, <2>1, OutputTyped DEF RankPublishes, RankOutput, planning, collected, TypeInv
<1>26. ASSUME NEW r \in Ranks, RankReports(r)
     PROVE  TypeInv'
  <2>1. /\ <<Line("event", FinalSample(r)), Line("result", 0)>> \in Seq(Lines)
        /\ <<Line("result", 0)>> \in Seq(Lines)
    BY EventsNat, LinesTyped DEF FinalSample
  <2> QED
    BY <1>26, <2>1, OutputTyped DEF RankReports, RankOutput, planning, collected, TypeInv
<1>27. ASSUME NEW r \in Ranks, RankReportsWrong(r)
     PROVE  TypeInv'
  <2>1. <<Line("wrong", 0)>> \in Seq(Lines)
    BY LinesTyped
  <2> QED
    BY <1>27, <2>1, OutputTyped DEF RankReportsWrong, RankOutput, planning, collected, TypeInv
<1>28. ASSUME NEW r \in Ranks, RankSucceeds(r)
     PROVE  TypeInv'
  BY <1>28 DEF RankSucceeds, RankEnds, planning, collected, TypeInv, ContainerStates, Exited
<1>29. ASSUME NEW r \in Ranks, RankFails(r)
     PROVE  TypeInv'
  <2>1. container' \in [Ranks -> ContainerStates]
    BY <1>29 DEF RankFails, RankEnds, TypeInv, ContainerStates, Exited
  <2>2. out' \in [Ranks -> Seq(Lines)]
    <3>1. Line("garbled", 0) \in Lines
      BY LinesTyped
    <3>2. \A s \in Seq(Lines) : Append(s, Line("garbled", 0)) \in Seq(Lines)
      BY <3>1
    <3> QED
      <4>1. out \in [Ranks -> Seq(Lines)]
        BY DEF TypeInv
      <4>2. out' = out \/ out' = [out EXCEPT ![r] = Append(out[r], Line("garbled", 0))]
        BY <1>29 DEF RankFails
      <4> QED
        BY <3>2, <4>1, <4>2
  <2> QED
    BY <1>29, <2>1, <2>2 DEF RankFails, RankEnds, planning, collected, TypeInv
<1>30. CASE UNCHANGED vars
  BY <1>30 DEF vars, planning, docker, collected, TypeInv
<1> QED
  BY <1>1, <1>2, <1>3, <1>4, <1>5, <1>6, <1>7, <1>8, <1>9, <1>10, <1>11, <1>12, <1>13, <1>14,
     <1>15, <1>16, <1>17, <1>18, <1>19, <1>20, <1>21, <1>22, <1>23, <1>24, <1>25, <1>26, <1>27,
     <1>28, <1>29, <1>30 DEF Next, Host, Faults, User, Rank

LEMMA PhaseInit ==
  ASSUME Init PROVE PhaseInv
BY DEF Init, PhaseInv

LEMMA PhaseStep ==
  ASSUME TypeInv, PhaseInv, [Next]_vars
  PROVE  PhaseInv'
<1>1. CASE AssignStage
  BY <1>1 DEF AssignStage, planning, docker, collected, PhaseInv, AllReceived, Threaded, TypeInv
<1>2. CASE PlanAccepted
  BY <1>2 DEF PlanAccepted, planning, docker, collected, PhaseInv, AllReceived, Threaded, TypeInv
<1>3. CASE PlanRefused
  BY <1>3 DEF PlanRefused, Refuse, planning, docker, collected, PhaseInv, AllReceived,
     Threaded, TypeInv
<1>4. CASE PreparationFails
  BY <1>4 DEF PreparationFails, Refuse, planning, docker, collected, PhaseInv, AllReceived,
     Threaded, TypeInv
<1>5. CASE CreateNetwork
  <2>1. listed = 0 .. 0 - 1 /\ 0 \in 0 .. WorldSize
    BY <1>5, WorldSizeAssumption DEF CreateNetwork, PhaseInv
  <2>2. \E n \in 0 .. WorldSize : listed' = 0 .. n - 1
    BY <1>5, <2>1 DEF CreateNetwork
  <2> QED
    BY <1>5, <2>2 DEF CreateNetwork, planning, collected, PhaseInv
<1>6. CASE StartContainer
  <2>1. PICK n \in 0 .. WorldSize : listed = 0 .. n - 1
    BY <1>6 DEF StartContainer, PhaseInv
  <2>2. NextRank = n /\ n \in Ranks /\ n + 1 \in 0 .. WorldSize /\ (n + 1) - 1 = n
    BY <1>6, <2>1, NextRankIs, WorldSizeAssumption DEF StartContainer, Ranks
  <2>3. listed' = 0 .. (n + 1) - 1
    BY <1>6, <2>1, <2>2 DEF StartContainer
  <2>4. \E k \in 0 .. WorldSize : listed' = 0 .. k - 1
    BY <2>2, <2>3
  <2>5. /\ \A r \in Ranks \ listed' : container'[r] = "absent"
        /\ \A r \in listed' : container'[r] # "absent"
        /\ \A r \in Ranks : container'[r] = "absent" => out'[r] = <<>>
    BY <1>6, <2>1, <2>2 DEF StartContainer, PhaseInv, TypeInv
  <2> QED
    BY <1>6, <2>4, <2>5 DEF StartContainer, planning, collected, PhaseInv
<1>7. CASE StartFails
  BY <1>7 DEF StartFails, Abandon, planning, collected, PhaseInv, AllReceived, Threaded, TypeInv
<1>8. CASE AllStarted
  BY <1>8 DEF AllStarted, planning, docker, collected, PhaseInv, AllReceived, Threaded, TypeInv
<1>9. CASE Poll
  BY <1>9 DEF Poll, StopContainers, planning, PhaseInv, AllReceived, Threaded, TypeInv
<1>10. CASE DashboardFinished
  BY <1>10 DEF DashboardFinished, DashboardReturns, planning, docker, collected, PhaseInv,
     AllReceived, Threaded, TypeInv
<1>11. CASE CollectorEnds
  BY <1>11 DEF CollectorEnds, planning, docker, PhaseInv, AllReceived, Threaded, TypeInv
<1>12. CASE Report
  BY <1>12 DEF Report, planning, docker, collected, PhaseInv, AllReceived, Threaded, TypeInv
<1>13. CASE Drop
  BY <1>13 DEF Drop, StopContainers, Cleanup, planning, collected, PhaseInv, AllReceived,
     Threaded, TypeInv
<1>14. ASSUME NEW r \in Ranks, TakeLine(r)
     PROVE  PhaseInv'
  BY <1>14 DEF TakeLine, planning, docker, PhaseInv, AllReceived, Threaded, TypeInv
<1>15. ASSUME NEW r \in Ranks, StreamEnds(r)
     PROVE  PhaseInv'
  BY <1>15 DEF StreamEnds, EndStream, planning, docker, PhaseInv, AllReceived, Threaded, TypeInv
<1>16. ASSUME NEW r \in Ranks, WaitReturns(r)
     PROVE  PhaseInv'
  BY <1>16 DEF WaitReturns, ExitReported, StopsOthers, StopContainers, planning, PhaseInv,
     AllReceived, Threaded, TypeInv
<1>17. CASE WaitFails
  BY <1>17 DEF WaitFails, Abandon, planning, docker, collected, PhaseInv, AllReceived,
     Threaded, TypeInv
<1>18. CASE DashboardFails
  BY <1>18 DEF DashboardFails, Abandon, planning, docker, collected, PhaseInv, AllReceived,
     Threaded, TypeInv
<1>19. CASE ReportFails
  BY <1>19 DEF ReportFails, Abandon, planning, docker, collected, PhaseInv, AllReceived,
     Threaded, TypeInv
<1>20. ASSUME NEW r \in Ranks, StreamBreaks(r)
     PROVE  PhaseInv'
  BY <1>20 DEF StreamBreaks, EndStream, planning, docker, PhaseInv, AllReceived, Threaded, TypeInv
<1>21. ASSUME NEW r \in Ranks, WaitGarbled(r)
     PROVE  PhaseInv'
  BY <1>21 DEF WaitGarbled, ExitReported, StopsOthers, StopContainers, planning, PhaseInv,
     AllReceived, Threaded, TypeInv
<1>22. CASE Interrupt
  BY <1>22 DEF Interrupt, planning, docker, collected, PhaseInv, AllReceived, Threaded, TypeInv
<1>23. CASE DashboardDisabled
  BY <1>23 DEF DashboardDisabled, DashboardReturns, planning, docker, collected, PhaseInv,
     AllReceived, Threaded, TypeInv
<1>24. CASE DashboardInterrupted
  BY <1>24 DEF DashboardInterrupted, DashboardReturns, planning, docker, collected, PhaseInv,
     AllReceived, Threaded, TypeInv
<1>25. ASSUME NEW r \in Ranks, RankPublishes(r)
     PROVE  PhaseInv'
  BY <1>25 DEF RankPublishes, RankOutput, planning, collected, PhaseInv, AllReceived, Threaded,
     TypeInv
<1>26. ASSUME NEW r \in Ranks, RankReports(r)
     PROVE  PhaseInv'
  BY <1>26 DEF RankReports, RankOutput, planning, collected, PhaseInv, AllReceived, Threaded,
     TypeInv
<1>27. ASSUME NEW r \in Ranks, RankReportsWrong(r)
     PROVE  PhaseInv'
  BY <1>27 DEF RankReportsWrong, RankOutput, planning, collected, PhaseInv, AllReceived,
     Threaded, TypeInv
<1>28. ASSUME NEW r \in Ranks, RankSucceeds(r)
     PROVE  PhaseInv'
  BY <1>28 DEF RankSucceeds, RankEnds, planning, collected, PhaseInv, AllReceived, Threaded, TypeInv
<1>29. ASSUME NEW r \in Ranks, RankFails(r)
     PROVE  PhaseInv'
  BY <1>29 DEF RankFails, RankEnds, planning, collected, PhaseInv, AllReceived, Threaded, TypeInv
<1>30. CASE UNCHANGED vars
  BY <1>30 DEF vars, planning, docker, collected, PhaseInv, AllReceived, Threaded, TypeInv
<1> QED
  BY <1>1, <1>2, <1>3, <1>4, <1>5, <1>6, <1>7, <1>8, <1>9, <1>10, <1>11, <1>12, <1>13, <1>14,
     <1>15, <1>16, <1>17, <1>18, <1>19, <1>20, <1>21, <1>22, <1>23, <1>24, <1>25, <1>26, <1>27,
     <1>28, <1>29, <1>30 DEF Next, Host, Faults, User, Rank

LEMMA LeftInit ==
  ASSUME Init PROVE LeftInv
BY DEF Init, LeftInv

LEMMA LeftStep ==
  ASSUME TypeInv, PhaseInv, LeftInv, [Next]_vars
  PROVE  LeftInv'
<1>1. CASE AssignStage
  BY <1>1 DEF AssignStage, planning, docker, collected, LeftInv, TypeInv, PhaseInv
<1>2. CASE PlanAccepted
  BY <1>2 DEF PlanAccepted, planning, docker, collected, LeftInv, TypeInv, PhaseInv
<1>3. CASE PlanRefused
  BY <1>3 DEF PlanRefused, Refuse, planning, docker, collected, LeftInv, TypeInv, PhaseInv
<1>4. CASE PreparationFails
  BY <1>4 DEF PreparationFails, Refuse, planning, docker, collected, LeftInv, TypeInv, PhaseInv
<1>5. CASE CreateNetwork
  BY <1>5 DEF CreateNetwork, planning, collected, LeftInv, TypeInv, PhaseInv
<1>6. CASE StartContainer
  BY <1>6 DEF StartContainer, planning, collected, LeftInv, TypeInv, PhaseInv
<1>7. CASE StartFails
  <2>1. PICK n \in 0 .. WorldSize : listed = 0 .. n - 1
    BY <1>7 DEF StartFails, PhaseInv
  <2>2. NextRank \in Ranks
    BY <1>7, <2>1, NextRankIs, WorldSizeAssumption DEF StartFails, Ranks
  <2>3. \A r \in Ranks \ listed' : container'[r] # "absent" => r = NextRank
    BY <1>7, <2>2 DEF StartFails, PhaseInv, TypeInv
  <2> QED
    BY <1>7, <2>2, <2>3 DEF StartFails, Abandon, collected, PhaseInv, LeftInv
<1>8. CASE AllStarted
  BY <1>8 DEF AllStarted, planning, docker, collected, LeftInv, TypeInv, PhaseInv
<1>9. CASE Poll
  BY <1>9 DEF Poll, StopContainers, planning, LeftInv, TypeInv, PhaseInv
<1>10. CASE DashboardFinished
  BY <1>10 DEF DashboardFinished, DashboardReturns, planning, docker, collected, LeftInv,
     TypeInv, PhaseInv
<1>11. CASE CollectorEnds
  BY <1>11 DEF CollectorEnds, planning, docker, LeftInv, TypeInv, PhaseInv
<1>12. CASE Report
  BY <1>12 DEF Report, planning, docker, collected, LeftInv, TypeInv, PhaseInv
<1>13. CASE Drop
  BY <1>13 DEF Drop, StopContainers, Cleanup, planning, collected, LeftInv, TypeInv, PhaseInv
<1>14. ASSUME NEW r \in Ranks, TakeLine(r)
     PROVE  LeftInv'
  BY <1>14 DEF TakeLine, planning, docker, LeftInv, TypeInv, PhaseInv
<1>15. ASSUME NEW r \in Ranks, StreamEnds(r)
     PROVE  LeftInv'
  BY <1>15 DEF StreamEnds, EndStream, planning, docker, LeftInv, TypeInv, PhaseInv
<1>16. ASSUME NEW r \in Ranks, WaitReturns(r)
     PROVE  LeftInv'
  BY <1>16 DEF WaitReturns, ExitReported, StopsOthers, StopContainers, planning, LeftInv,
     TypeInv, PhaseInv
<1>17. CASE WaitFails
  BY <1>17 DEF WaitFails, Abandon, planning, docker, collected, LeftInv, TypeInv, PhaseInv
<1>18. CASE DashboardFails
  BY <1>18 DEF DashboardFails, Abandon, planning, docker, collected, LeftInv, TypeInv, PhaseInv
<1>19. CASE ReportFails
  BY <1>19 DEF ReportFails, Abandon, planning, docker, collected, LeftInv, TypeInv, PhaseInv
<1>20. ASSUME NEW r \in Ranks, StreamBreaks(r)
     PROVE  LeftInv'
  BY <1>20 DEF StreamBreaks, EndStream, planning, docker, LeftInv, TypeInv, PhaseInv
<1>21. ASSUME NEW r \in Ranks, WaitGarbled(r)
     PROVE  LeftInv'
  BY <1>21 DEF WaitGarbled, ExitReported, StopsOthers, StopContainers, planning, LeftInv,
     TypeInv, PhaseInv
<1>22. CASE Interrupt
  BY <1>22 DEF Interrupt, planning, docker, collected, LeftInv, TypeInv, PhaseInv
<1>23. CASE DashboardDisabled
  BY <1>23 DEF DashboardDisabled, DashboardReturns, planning, docker, collected, LeftInv,
     TypeInv, PhaseInv
<1>24. CASE DashboardInterrupted
  BY <1>24 DEF DashboardInterrupted, DashboardReturns, planning, docker, collected, LeftInv,
     TypeInv, PhaseInv
<1>25. ASSUME NEW r \in Ranks, RankPublishes(r)
     PROVE  LeftInv'
  BY <1>25 DEF RankPublishes, RankOutput, planning, collected, LeftInv, TypeInv, PhaseInv
<1>26. ASSUME NEW r \in Ranks, RankReports(r)
     PROVE  LeftInv'
  BY <1>26 DEF RankReports, RankOutput, planning, collected, LeftInv, TypeInv, PhaseInv
<1>27. ASSUME NEW r \in Ranks, RankReportsWrong(r)
     PROVE  LeftInv'
  BY <1>27 DEF RankReportsWrong, RankOutput, planning, collected, LeftInv, TypeInv, PhaseInv
<1>28. ASSUME NEW r \in Ranks, RankSucceeds(r)
     PROVE  LeftInv'
  BY <1>28 DEF RankSucceeds, RankEnds, planning, collected, LeftInv, TypeInv, PhaseInv
<1>29. ASSUME NEW r \in Ranks, RankFails(r)
     PROVE  LeftInv'
  BY <1>29 DEF RankFails, RankEnds, planning, collected, LeftInv, TypeInv, PhaseInv
<1>30. CASE UNCHANGED vars
  BY <1>30 DEF vars, planning, docker, collected, LeftInv, TypeInv, PhaseInv
<1> QED
  BY <1>1, <1>2, <1>3, <1>4, <1>5, <1>6, <1>7, <1>8, <1>9, <1>10, <1>11, <1>12, <1>13, <1>14,
     <1>15, <1>16, <1>17, <1>18, <1>19, <1>20, <1>21, <1>22, <1>23, <1>24, <1>25, <1>26, <1>27,
     <1>28, <1>29, <1>30 DEF Next, Host, Faults, User, Rank

(* What a step does to one container and its output, while the command     *)
(* runs.                                                                   *)
Written(o) ==
  {o \o <<Line("event", EventsIn(o))>>, o \o <<Line("event", EventsIn(o)), Line("result", 0)>>,
   o \o <<Line("result", 0)>>, o \o <<Line("wrong", 0)>>}

RankMoves(o, c, oo, cc) ==
  \/ oo = o /\ cc = c
  \/ oo = o /\ c = "running" /\ cc = "killed"
  \/ oo = o /\ c = "absent" /\ cc = "running"
  \/ oo = o /\ c = "running" /\ cc = "success" /\ ReportedIn(o)
  \/ oo = o /\ c = "running" /\ cc = "failure"
  \/ /\ c = "running" /\ cc = "failure" /\ ~ReportedIn(o)
     /\ oo = Append(o, Line("garbled", 0))
  \/ /\ c = "running" /\ cc = "running" /\ ~ReportedIn(o)
     /\ oo \in Written(o)

LEMMA OutputOf ==
  ASSUME NEW r
  PROVE  /\ Events(r) = EventsIn(out[r])
         /\ Reported(r) <=> ReportedIn(out[r])
         /\ LoggedReport(r) <=> LoggedIn(out[r])
BY DEF Events, EventsIn, Reported, ReportedIn, LoggedReport, LoggedIn

(* Every rank moves, in that sense, in every step that does not end the    *)
(* command.                                                                *)
AllMove == \A q \in Ranks : RankMoves(out[q], container[q], out'[q], container'[q])

LEMMA MoveStep ==
  ASSUME TypeInv, PhaseInv, pc' # "ended", [Next]_vars
  PROVE  AllMove
<1>1. CASE AssignStage
  BY <1>1 DEF AssignStage, planning, docker, collected, AllMove, RankMoves, TypeInv
<1>2. CASE PlanAccepted
  BY <1>2 DEF PlanAccepted, planning, docker, collected, AllMove, RankMoves, TypeInv
<1>3. CASE PlanRefused
  BY <1>3 DEF PlanRefused, Refuse
<1>4. CASE PreparationFails
  BY <1>4 DEF PreparationFails, Refuse
<1>5. CASE CreateNetwork
  BY <1>5 DEF CreateNetwork, planning, collected, AllMove, RankMoves, TypeInv
<1>6. CASE StartContainer
  <2>1. PICK n \in 0 .. WorldSize : listed = 0 .. n - 1
    BY <1>6 DEF StartContainer, PhaseInv
  <2>2. NextRank = n /\ n \in Ranks /\ n \notin listed
    BY <1>6, <2>1, NextRankIs, WorldSizeAssumption DEF StartContainer, Ranks
  <2>3. container[NextRank] = "absent"
    BY <1>6, <2>2 DEF StartContainer, PhaseInv
  <2> QED
    BY <1>6, <2>2, <2>3 DEF StartContainer, AllMove, RankMoves, TypeInv
<1>7. CASE StartFails
  <2>1. PICK n \in 0 .. WorldSize : listed = 0 .. n - 1
    BY <1>7 DEF StartFails, PhaseInv
  <2>2. NextRank = n /\ n \in Ranks /\ n \notin listed
    BY <1>7, <2>1, NextRankIs, WorldSizeAssumption DEF StartFails, Ranks
  <2>3. container[NextRank] = "absent"
    BY <1>7, <2>2 DEF StartFails, PhaseInv
  <2> QED
    BY <1>7, <2>2, <2>3 DEF StartFails, AllMove, RankMoves, TypeInv
<1>8. CASE AllStarted
  BY <1>8 DEF AllStarted, planning, docker, collected, AllMove, RankMoves, TypeInv
<1>9. CASE Poll
  BY <1>9 DEF Poll, StopContainers, planning, AllMove, RankMoves, TypeInv
<1>10. CASE DashboardFinished
  BY <1>10 DEF DashboardFinished, DashboardReturns, planning, docker, collected, AllMove,
     RankMoves, TypeInv
<1>11. CASE CollectorEnds
  BY <1>11 DEF CollectorEnds, planning, docker, AllMove, RankMoves, TypeInv
<1>12. CASE Report
  BY <1>12 DEF Report, planning, docker, collected, AllMove, RankMoves, TypeInv
<1>13. CASE Drop
  BY <1>13 DEF Drop
<1>14. ASSUME NEW r \in Ranks, TakeLine(r)
     PROVE  AllMove
  BY <1>14 DEF TakeLine, planning, docker, AllMove, RankMoves, TypeInv
<1>15. ASSUME NEW r \in Ranks, StreamEnds(r)
     PROVE  AllMove
  BY <1>15 DEF StreamEnds, EndStream, planning, docker, AllMove, RankMoves, TypeInv
<1>16. ASSUME NEW r \in Ranks, WaitReturns(r)
     PROVE  AllMove
  BY <1>16 DEF WaitReturns, ExitReported, StopsOthers, StopContainers, planning, AllMove,
     RankMoves, TypeInv
<1>17. CASE WaitFails
  BY <1>17 DEF WaitFails, Abandon, planning, docker, collected, AllMove, RankMoves, TypeInv
<1>18. CASE DashboardFails
  BY <1>18 DEF DashboardFails, Abandon, planning, docker, collected, AllMove, RankMoves, TypeInv
<1>19. CASE ReportFails
  BY <1>19 DEF ReportFails, Abandon, planning, docker, collected, AllMove, RankMoves, TypeInv
<1>20. ASSUME NEW r \in Ranks, StreamBreaks(r)
     PROVE  AllMove
  BY <1>20 DEF StreamBreaks, EndStream, planning, docker, AllMove, RankMoves, TypeInv
<1>21. ASSUME NEW r \in Ranks, WaitGarbled(r)
     PROVE  AllMove
  BY <1>21 DEF WaitGarbled, ExitReported, StopsOthers, StopContainers, planning, AllMove,
     RankMoves, TypeInv
<1>22. CASE Interrupt
  BY <1>22 DEF Interrupt, planning, docker, collected, AllMove, RankMoves, TypeInv
<1>23. CASE DashboardDisabled
  BY <1>23 DEF DashboardDisabled, DashboardReturns, planning, docker, collected, AllMove,
     RankMoves, TypeInv
<1>24. CASE DashboardInterrupted
  BY <1>24 DEF DashboardInterrupted, DashboardReturns, planning, docker, collected, AllMove,
     RankMoves, TypeInv
<1>25. ASSUME NEW r \in Ranks, RankPublishes(r)
     PROVE  AllMove
  BY <1>25, OutputOf DEF RankPublishes, RankOutput, FinalSample, AllMove, RankMoves, Written,
     TypeInv
<1>26. ASSUME NEW r \in Ranks, RankReports(r)
     PROVE  AllMove
  BY <1>26, OutputOf DEF RankReports, RankOutput, FinalSample, AllMove, RankMoves, Written, TypeInv
<1>27. ASSUME NEW r \in Ranks, RankReportsWrong(r)
     PROVE  AllMove
  BY <1>27, OutputOf DEF RankReportsWrong, RankOutput, FinalSample, AllMove, RankMoves,
     Written, TypeInv
<1>28. ASSUME NEW r \in Ranks, RankSucceeds(r)
     PROVE  AllMove
  BY <1>28, OutputOf DEF RankSucceeds, RankEnds, AllMove, RankMoves, TypeInv
<1>29. ASSUME NEW r \in Ranks, RankFails(r)
     PROVE  AllMove
  BY <1>29, OutputOf DEF RankFails, RankEnds, AllMove, RankMoves, TypeInv
<1>30. CASE UNCHANGED vars
  BY <1>30 DEF vars, planning, docker, collected, AllMove, RankMoves, TypeInv
<1> QED
  BY <1>1, <1>2, <1>3, <1>4, <1>5, <1>6, <1>7, <1>8, <1>9, <1>10, <1>11, <1>12, <1>13, <1>14,
     <1>15, <1>16, <1>17, <1>18, <1>19, <1>20, <1>21, <1>22, <1>23, <1>24, <1>25, <1>26, <1>27,
     <1>28, <1>29, <1>30 DEF Next, Host, Faults, User, Rank

LEMMA JoinOne ==
  ASSUME NEW S, NEW o \in Seq(S), NEW x \in S, NEW oo, oo = o \o <<x>>
  PROVE  /\ oo \in Seq(S) /\ Len(oo) = Len(o) + 1 /\ oo[Len(o) + 1] = x
         /\ \A i \in 1 .. Len(o) : oo[i] = o[i]
OBVIOUS

LEMMA JoinTwo ==
  ASSUME NEW S, NEW o \in Seq(S), NEW x \in S, NEW y \in S, NEW oo, oo = o \o <<x, y>>
  PROVE  /\ oo \in Seq(S) /\ Len(oo) = Len(o) + 2
         /\ oo[Len(o) + 1] = x /\ oo[Len(o) + 2] = y
         /\ \A i \in 1 .. Len(o) : oo[i] = o[i]
<1>1. <<x, y>> \in Seq(S) /\ Len(<<x, y>>) = 2 /\ <<x, y>>[1] = x /\ <<x, y>>[2] = y
  OBVIOUS
<1> DEFINE t == <<x, y>>
<1> HIDE DEF t
<1>2. t \in Seq(S) /\ Len(t) = 2 /\ t[1] = x /\ t[2] = y /\ oo = o \o t
  BY <1>1 DEF t
<1> QED
  BY <1>2

LEMMA AllEvents ==
  ASSUME NEW o \in Seq(Lines), \A i \in 1 .. Len(o) : o[i].kind = "event"
  PROVE  EventsIn(o) = Len(o)
<1>1. {i \in DOMAIN o : o[i].kind = "event"} = 1 .. Len(o)
  OBVIOUS
<1>2. Len(o) \in Nat
  OBVIOUS
<1>3. Cardinality(1 .. Len(o)) = Len(o)
  <2> DEFINE n == Len(o)
  <2> HIDE DEF n
  <2>1. n \in Nat
    BY <1>2 DEF n
  <2>2. Cardinality(1 .. n) = IF 1 > n THEN 0 ELSE n - 1 + 1
    BY <2>1, FS_Interval
  <2> QED
    BY <2>1, <2>2 DEF n
<1> QED
  BY <1>1, <1>3 DEF EventsIn

(* A rank that has not reported writes one line, or its last sample and    *)
(* its report.                                                             *)
LEMMA OutputCases ==
  ASSUME NEW o \in Seq(Lines),
         NEW oo \in Written(o)
  PROVE  \/ \E x \in Lines : /\ oo = o \o <<x>> /\ x.kind # "garbled"
                             /\ x.kind = "event" => x.sequence = EventsIn(o)
         \/ \E x, y \in Lines : /\ oo = o \o <<x, y>> /\ y.kind = "result"
                                /\ x.kind = "event" /\ x.sequence = EventsIn(o)
<1> DEFINE e == Line("event", EventsIn(o))
           f == Line("result", 0)
           g == Line("wrong", 0)
<1>1. /\ e \in Lines /\ e.kind = "event" /\ e.sequence = EventsIn(o)
      /\ f \in Lines /\ f.kind = "result"
      /\ g \in Lines /\ g.kind = "wrong"
  BY EventsInNat DEF Line, Lines
<1>2. oo \in {o \o <<e>>, o \o <<e, f>>, o \o <<f>>, o \o <<g>>}
  BY DEF Written
<1> HIDE DEF e, f, g
<1>3. CASE oo = o \o <<e>>
  BY <1>1, <1>3
<1>4. CASE oo = o \o <<e, f>>
  BY <1>1, <1>4
<1>5. CASE oo = o \o <<f>>
  BY <1>1, <1>5
<1>6. CASE oo = o \o <<g>>
  BY <1>1, <1>6
<1> QED
  BY <1>2, <1>3, <1>4, <1>5, <1>6

(* The output only grows. *)
LEMMA MovesExtend ==
  ASSUME NEW o \in Seq(Lines), NEW c, NEW oo, NEW cc, RankMoves(o, c, oo, cc)
  PROVE  Len(o) <= Len(oo) /\ \A i \in 1 .. Len(o) : oo[i] = o[i]
<1>1. CASE oo = o
  BY <1>1
<1>2. CASE oo = Append(o, Line("garbled", 0))
  BY <1>2
<1>3. CASE oo \in Written(o)
  <2>1. ASSUME NEW x \in Lines, oo = o \o <<x>>
        PROVE  Len(o) <= Len(oo) /\ \A i \in 1 .. Len(o) : oo[i] = o[i]
    <3>2. Len(oo) = Len(o) + 1 /\ \A i \in 1 .. Len(o) : oo[i] = o[i]
      BY <2>1, JoinOne
    <3> QED
      BY <3>2
  <2>2. ASSUME NEW x \in Lines, NEW y \in Lines, oo = o \o <<x, y>>
        PROVE  Len(o) <= Len(oo) /\ \A i \in 1 .. Len(o) : oo[i] = o[i]
    <3>2. Len(oo) = Len(o) + 2 /\ \A i \in 1 .. Len(o) : oo[i] = o[i]
      BY <2>2, JoinTwo
    <3> QED
      BY <3>2
  <2> QED
    BY <1>3, <2>1, <2>2, OutputCases
<1> QED
  BY <1>1, <1>2, <1>3 DEF RankMoves

LEMMA EventsPlausible ==
  ASSUME NEW o, \A i \in 1 .. Len(o) : o[i].kind = "event" /\ o[i].sequence = i - 1,
         o \in Seq(Lines)
  PROVE  Plausible(o, "running")
BY DEF Plausible

LEMMA ReportPlausible ==
  ASSUME NEW o \in Seq(Lines), ReportedIn(o), o[Len(o)].kind \in {"result", "wrong"},
         \A i \in 1 .. Len(o) - 1 : o[i].kind = "event" /\ o[i].sequence = i - 1
  PROVE  Plausible(o, "running")
<1>1. Len(o) \in Nat
  OBVIOUS
<1>2. ASSUME NEW i \in 1 .. Len(o), o[i].kind = "event"
      PROVE  o[i].sequence = i - 1 /\ \A j \in 1 .. i - 1 : o[j].kind = "event"
  BY <1>1, <1>2
<1>3. \A i \in 1 .. Len(o) : o[i].kind # "garbled"
  BY <1>1
<1> QED
  BY <1>2, <1>3 DEF Plausible

LEMMA MovesPlausible ==
  ASSUME NEW o \in Seq(Lines), NEW c, NEW oo, NEW cc,
         Plausible(o, c), RankMoves(o, c, oo, cc), c = "absent" => o = <<>>
  PROVE  Plausible(oo, cc)
<1>1. CASE /\ oo = o
           /\ \/ cc = c
              \/ c = "running" /\ cc \in {"killed", "failure"}
              \/ c = "running" /\ cc = "success" /\ ReportedIn(o)
  BY <1>1 DEF Plausible
<1>2. CASE oo = o /\ c = "absent" /\ cc = "running"
  BY <1>2 DEF Plausible
<1>3. CASE /\ c = "running" /\ cc = "failure" /\ ~ReportedIn(o)
           /\ oo = Append(o, Line("garbled", 0))
  BY <1>3 DEF Plausible, Line
<1>4. CASE /\ c = "running" /\ cc = "running" /\ ~ReportedIn(o)
           /\ oo \in Written(o)
  <2>1. \A i \in 1 .. Len(o) : o[i].kind = "event" /\ o[i].sequence = i - 1
    BY <1>4 DEF Plausible
  <2>2. EventsIn(o) = Len(o) /\ Len(o) \in Nat
    BY <2>1, AllEvents
  <2>3. ASSUME NEW x \in Lines, oo = o \o <<x>>, x.kind # "garbled",
               x.kind = "event" => x.sequence = Len(o)
        PROVE  Plausible(oo, cc)
    <3>1. /\ oo \in Seq(Lines) /\ Len(oo) = Len(o) + 1 /\ oo[Len(o) + 1] = x
          /\ \A i \in 1 .. Len(o) : oo[i] = o[i]
      BY <2>3, JoinOne
    <3>2. CASE x.kind = "event"
      <4>1. \A i \in 1 .. Len(oo) : oo[i].kind = "event" /\ oo[i].sequence = i - 1
        BY <2>1, <2>2, <2>3, <3>1, <3>2
      <4> QED
        BY <1>4, <3>1, <4>1, EventsPlausible
    <3>3. CASE x.kind # "event"
      <4>1. ReportedIn(oo)
        <5>1. x.kind \in {"result", "wrong"} /\ Len(o) + 1 \in DOMAIN oo
          BY <2>2, <2>3, <3>1, <3>3 DEF Lines
        <5> QED
          BY <3>1, <5>1 DEF ReportedIn
      <4> QED
        <5>1. /\ \A i \in 1 .. Len(oo) - 1 : oo[i].kind = "event" /\ oo[i].sequence = i - 1
              /\ oo[Len(oo)].kind \in {"result", "wrong"}
          BY <2>1, <2>2, <2>3, <3>1, <3>3 DEF Lines
        <5> QED
          BY <1>4, <3>1, <4>1, <5>1, ReportPlausible
    <3> QED
      BY <3>2, <3>3
  <2>4. ASSUME NEW x \in Lines, NEW y \in Lines, oo = o \o <<x, y>>, y.kind = "result",
               x.kind = "event", x.sequence = Len(o)
        PROVE  Plausible(oo, cc)
    <3>1. /\ oo \in Seq(Lines) /\ Len(oo) = Len(o) + 2
          /\ oo[Len(o) + 1] = x /\ oo[Len(o) + 2] = y
          /\ \A i \in 1 .. Len(o) : oo[i] = o[i]
      BY <2>4, JoinTwo
    <3>2. ReportedIn(oo)
      <4>1. Len(o) + 2 \in DOMAIN oo
        BY <2>2, <3>1
      <4> QED
        BY <2>4, <3>1, <4>1 DEF ReportedIn
    <3>3. \A i \in 1 .. Len(o) + 1 : oo[i].kind = "event" /\ oo[i].sequence = i - 1
      BY <2>1, <2>2, <2>4, <3>1
    <3> QED
      <4>1. /\ \A i \in 1 .. Len(oo) - 1 : oo[i].kind = "event" /\ oo[i].sequence = i - 1
            /\ oo[Len(oo)].kind = "result"
        BY <2>2, <2>4, <3>1, <3>3
      <4> QED
        BY <1>4, <3>1, <3>2, <4>1, ReportPlausible
  <2>5. \/ \E x \in Lines : /\ oo = o \o <<x>> /\ x.kind # "garbled"
                            /\ x.kind = "event" => x.sequence = Len(o)
        \/ \E x, y \in Lines : /\ oo = o \o <<x, y>> /\ y.kind = "result"
                               /\ x.kind = "event" /\ x.sequence = Len(o)
    BY <1>4, <2>2, OutputCases
  <2> QED
    BY <2>3, <2>4, <2>5
<1> QED
  BY <1>1, <1>2, <1>3, <1>4 DEF RankMoves

LEMMA MovesFaulty ==
  ASSUME NEW o, NEW c, NEW oo, NEW cc, Faulty(o, c), RankMoves(o, c, oo, cc)
  PROVE  Faulty(oo, cc)
BY DEF Faulty, RankMoves

LEMMA OutInit ==
  ASSUME Init PROVE OutInv
BY DEF Init, OutInv, Plausible

LEMMA OutStep ==
  ASSUME TypeInv, TypeInv', PhaseInv, OutInv, [Next]_vars
  PROVE  OutInv'
<1> SUFFICES ASSUME pc' # "ended", NEW r \in Ranks
             PROVE  Plausible(out'[r], container'[r])
  BY DEF OutInv
<1>1. pc # "ended"
  BY DEF Next, vars
<1>2. RankMoves(out[r], container[r], out'[r], container'[r])
  BY MoveStep DEF AllMove
<1>3. /\ out[r] \in Seq(Lines) /\ out'[r] \in Seq(Lines)
      /\ container[r] = "absent" => out[r] = <<>>
  BY <1>1 DEF TypeInv, PhaseInv
<1>4. Plausible(out[r], container[r])
  BY <1>1 DEF OutInv
<1> QED
  BY <1>2, <1>3, <1>4, MovesPlausible

(* What no step takes back, and what only TakeLine changes. *)
Kept ==
  /\ request' = request
  /\ trouble => trouble'
  /\ interrupted => interrupted'
  /\ (\A r \in Ranks : ~TakeLine(r)) => UNCHANGED <<taken, sequences, got>>

LEMMA HistoryStep ==
  ASSUME [Next]_vars
  PROVE  Kept
<1>1. CASE AssignStage
  BY <1>1 DEF AssignStage, planning, docker, collected, Kept
<1>2. CASE PlanAccepted
  BY <1>2 DEF PlanAccepted, planning, docker, collected, Kept
<1>3. CASE PlanRefused
  BY <1>3 DEF PlanRefused, Refuse, planning, docker, collected, Kept
<1>4. CASE PreparationFails
  BY <1>4 DEF PreparationFails, Refuse, planning, docker, collected, Kept
<1>5. CASE CreateNetwork
  BY <1>5 DEF CreateNetwork, planning, collected, Kept
<1>6. CASE StartContainer
  BY <1>6 DEF StartContainer, planning, collected, Kept
<1>7. CASE StartFails
  BY <1>7 DEF StartFails, Abandon, planning, collected, Kept
<1>8. CASE AllStarted
  BY <1>8 DEF AllStarted, planning, docker, collected, Kept
<1>9. CASE Poll
  BY <1>9 DEF Poll, StopContainers, planning, Kept
<1>10. CASE DashboardFinished
  BY <1>10 DEF DashboardFinished, DashboardReturns, planning, docker, collected, Kept
<1>11. CASE CollectorEnds
  BY <1>11 DEF CollectorEnds, planning, docker, Kept
<1>12. CASE Report
  BY <1>12 DEF Report, planning, docker, collected, Kept
<1>13. CASE Drop
  BY <1>13 DEF Drop, StopContainers, Cleanup, planning, collected, Kept
<1>14. ASSUME NEW r \in Ranks, TakeLine(r)
     PROVE  Kept
  BY <1>14 DEF TakeLine, planning, Kept
<1>15. ASSUME NEW r \in Ranks, StreamEnds(r)
     PROVE  Kept
  BY <1>15 DEF StreamEnds, EndStream, planning, docker, Kept
<1>16. ASSUME NEW r \in Ranks, WaitReturns(r)
     PROVE  Kept
  BY <1>16 DEF WaitReturns, ExitReported, StopsOthers, StopContainers, planning, Kept
<1>17. CASE WaitFails
  BY <1>17 DEF WaitFails, Abandon, planning, docker, collected, Kept
<1>18. CASE DashboardFails
  BY <1>18 DEF DashboardFails, Abandon, planning, docker, collected, Kept
<1>19. CASE ReportFails
  BY <1>19 DEF ReportFails, Abandon, planning, docker, collected, Kept
<1>20. ASSUME NEW r \in Ranks, StreamBreaks(r)
     PROVE  Kept
  BY <1>20 DEF StreamBreaks, EndStream, planning, docker, Kept
<1>21. ASSUME NEW r \in Ranks, WaitGarbled(r)
     PROVE  Kept
  BY <1>21 DEF WaitGarbled, ExitReported, StopsOthers, StopContainers, planning, Kept
<1>22. CASE Interrupt
  BY <1>22 DEF Interrupt, planning, docker, collected, Kept
<1>23. CASE DashboardDisabled
  BY <1>23 DEF DashboardDisabled, DashboardReturns, planning, docker, collected, Kept
<1>24. CASE DashboardInterrupted
  BY <1>24 DEF DashboardInterrupted, DashboardReturns, planning, docker, collected, Kept
<1>25. ASSUME NEW r \in Ranks, RankPublishes(r)
     PROVE  Kept
  BY <1>25 DEF RankPublishes, RankOutput, planning, collected, Kept
<1>26. ASSUME NEW r \in Ranks, RankReports(r)
     PROVE  Kept
  BY <1>26 DEF RankReports, RankOutput, planning, collected, Kept
<1>27. ASSUME NEW r \in Ranks, RankReportsWrong(r)
     PROVE  Kept
  BY <1>27 DEF RankReportsWrong, RankOutput, planning, collected, Kept
<1>28. ASSUME NEW r \in Ranks, RankSucceeds(r)
     PROVE  Kept
  BY <1>28 DEF RankSucceeds, RankEnds, planning, collected, Kept
<1>29. ASSUME NEW r \in Ranks, RankFails(r)
     PROVE  Kept
  BY <1>29 DEF RankFails, RankEnds, planning, collected, Kept
<1>30. CASE UNCHANGED vars
  BY <1>30 DEF vars, planning, docker, collected, Kept
<1> QED
  BY <1>1, <1>2, <1>3, <1>4, <1>5, <1>6, <1>7, <1>8, <1>9, <1>10, <1>11, <1>12, <1>13, <1>14,
     <1>15, <1>16, <1>17, <1>18, <1>19, <1>20, <1>21, <1>22, <1>23, <1>24, <1>25, <1>26, <1>27,
     <1>28, <1>29, <1>30 DEF Next, Host, Faults, User, Rank

LEMMA CauseStep ==
  ASSUME TypeInv, PhaseInv, Cause, [Next]_vars, pc' # "ended"
  PROVE  Cause'
<1>1. CASE \E r \in Ranks : Faulty(out[r], container[r])
  BY <1>1, MoveStep, MovesFaulty DEF AllMove, Cause
<1>2. CASE trouble \/ (Polls /\ interrupted)
  <2>1. request' = request /\ (trouble => trouble') /\ (interrupted => interrupted')
    BY HistoryStep DEF Kept
  <2> QED
    BY <1>2, <2>1 DEF Cause, Polls
<1> QED
  BY <1>1, <1>2 DEF Cause

(* The next line of a plausible output is taken. *)
LEMMA TakeOne ==
  ASSUME NEW o \in Seq(Lines), NEW t \in Nat, NEW s \in Nat, NEW r, NEW g, NEW c,
         t < Len(o), Plausible(o, c), Received(o, t, s, r, g),
         NEW ss, o[t + 1].kind = "event" /\ o[t + 1].sequence = s => ss = s + 1,
         NEW gg, r \in gg <=> (r \in g \/ o[t + 1].kind = "result")
  PROVE  /\ Received(o, t + 1, ss, r, gg)
         /\ o[t + 1].kind = "event" => o[t + 1].sequence = s
<1>1. t + 1 \in 1 .. Len(o)
  OBVIOUS
<1>2. ASSUME o[t + 1].kind = "event"
      PROVE  s = t /\ o[t + 1].sequence = t /\ \A i \in 1 .. t : o[i].kind = "event"
  BY <1>1, <1>2 DEF Plausible, Received
<1>3. (\A i \in 1 .. t + 1 : o[i].kind = "event") => ss = t + 1
  BY <1>1, <1>2
<1>4. (\E i \in 1 .. t + 1 : o[i].kind = "result")
        <=> (\E i \in 1 .. t : o[i].kind = "result") \/ o[t + 1].kind = "result"
  OBVIOUS
<1>5. r \in gg <=> \E i \in 1 .. t + 1 : o[i].kind = "result"
  BY <1>4 DEF Received
<1> QED
  BY <1>1, <1>2, <1>3, <1>5 DEF Received

LEMMA ReceivedExtend ==
  ASSUME NEW o, NEW oo, NEW t \in Nat, NEW s, NEW r, NEW g, Received(o, t, s, r, g),
         Len(o) \in Nat, Len(oo) \in Nat,
         Len(o) <= Len(oo), \A i \in 1 .. Len(o) : oo[i] = o[i]
  PROVE  Received(oo, t, s, r, g)
<1>1. \A i \in 1 .. t : i \in 1 .. Len(o)
  BY DEF Received
<1>2. \A i \in 1 .. t : oo[i] = o[i]
  BY <1>1
<1> QED
  BY <1>2 DEF Received

LEMMA TakenInit ==
  ASSUME Init PROVE TakenInv
BY DEF Init, TakenInv, Received

LEMMA TakenStep ==
  ASSUME TypeInv, TypeInv', PhaseInv, OutInv, TakenInv, [Next]_vars
  PROVE  TakenInv'
<1> SUFFICES ASSUME pc' # "ended", NEW q \in Ranks
             PROVE  Received(out'[q], taken'[q], sequences'[q], q, got')
  BY DEF TakenInv
<1>1. pc # "ended"
  BY DEF Next, vars
<1>2. /\ out[q] \in Seq(Lines) /\ out'[q] \in Seq(Lines)
      /\ taken[q] \in Nat /\ sequences[q] \in Nat
      /\ Plausible(out[q], container[q])
      /\ Received(out[q], taken[q], sequences[q], q, got)
  BY <1>1 DEF TypeInv, TakenInv, OutInv
<1>3. ASSUME NEW r \in Ranks, TakeLine(r), r = q
      PROVE  Received(out'[q], taken'[q], sequences'[q], q, got')
  <2>1. /\ out' = out /\ taken[q] < Len(out[q])
        /\ taken'[q] = taken[q] + 1
        /\ q \in got' <=> (q \in got \/ out[q][taken[q] + 1].kind = "result")
        /\ out[q][taken[q] + 1].kind = "event" /\ out[q][taken[q] + 1].sequence = sequences[q]
             => sequences'[q] = sequences[q] + 1
    BY <1>3 DEF TakeLine, TypeInv, docker
  <2> DEFINE o == out[q]
             t == taken[q]
             s == sequences[q]
             ss == sequences'[q]
  <2>2. /\ o \in Seq(Lines) /\ t \in Nat /\ s \in Nat /\ t < Len(o)
        /\ Plausible(o, container[q]) /\ Received(o, t, s, q, got)
        /\ o[t + 1].kind = "event" /\ o[t + 1].sequence = s => ss = s + 1
        /\ q \in got' <=> (q \in got \/ o[t + 1].kind = "result")
    BY <1>2, <2>1
  <2> HIDE DEF o, t, s, ss
  <2>3. Received(o, t + 1, ss, q, got')
    BY <2>2, TakeOne
  <2> QED
    BY <2>1, <2>3 DEF o, t, s, ss
<1>4. ASSUME NEW r \in Ranks, TakeLine(r), r # q
      PROVE  Received(out'[q], taken'[q], sequences'[q], q, got')
  <2>1. /\ out' = out /\ taken'[q] = taken[q] /\ sequences'[q] = sequences[q]
        /\ q \in got' <=> q \in got
    BY <1>4 DEF TakeLine, docker, TypeInv
  <2> QED
    BY <1>2, <2>1 DEF Received
<1>5. ASSUME \A r \in Ranks : ~TakeLine(r)
      PROVE  Received(out'[q], taken'[q], sequences'[q], q, got')
  <2>1. RankMoves(out[q], container[q], out'[q], container'[q])
    BY MoveStep DEF AllMove
  <2>2. Len(out[q]) <= Len(out'[q]) /\ \A i \in 1 .. Len(out[q]) : out'[q][i] = out[q][i]
    BY <1>2, <2>1, MovesExtend
  <2>3. UNCHANGED <<taken, sequences, got>>
    BY <1>5, HistoryStep DEF Kept
  <2>4. Received(out'[q], taken[q], sequences[q], q, got)
    BY <1>2, <2>2, ReceivedExtend
  <2> QED
    BY <2>3, <2>4
<1> QED
  BY <1>3, <1>4, <1>5

LEMMA CauseIntro ==
  /\ trouble => Cause
  /\ Polls /\ interrupted => Cause
  /\ \A r \in Ranks : container[r] = "failure" => Cause
  /\ \A r \in Ranks : ReportedIn(out[r]) /\ ~LoggedIn(out[r]) => Cause
BY DEF Cause, Faulty

LEMMA TroubleCause ==
  ASSUME trouble' PROVE Cause'
BY DEF Cause

LEMMA CauseInit ==
  ASSUME Init PROVE CauseInv
BY DEF Init, CauseInv

LEMMA EarnedInit ==
  ASSUME Init PROVE EarnedInv
BY DEF Init, EarnedInv

LEMMA CauseInvStep ==
  ASSUME TypeInv, PhaseInv, OutInv, TakenInv, CauseInv, EarnedInv, [Next]_vars
  PROVE  CauseInv'
<1>1. CASE AssignStage
  BY <1>1, CauseStep DEF AssignStage, planning, docker, collected, CauseInv, TypeInv, PhaseInv,
     Threaded
<1>2. CASE PlanAccepted
  BY <1>2, CauseStep DEF PlanAccepted, planning, docker, collected, CauseInv, TypeInv,
     PhaseInv, Threaded
<1>3. CASE PlanRefused
  BY <1>3 DEF PlanRefused, Refuse, CauseInv
<1>4. CASE PreparationFails
  BY <1>4 DEF PreparationFails, Refuse, CauseInv
<1>5. CASE CreateNetwork
  BY <1>5, CauseStep DEF CreateNetwork, planning, collected, CauseInv, TypeInv, PhaseInv, Threaded
<1>6. CASE StartContainer
  BY <1>6, CauseStep DEF StartContainer, planning, collected, CauseInv, TypeInv, PhaseInv, Threaded
<1>7. CASE StartFails
  BY <1>7, TroubleCause DEF StartFails, Abandon, CauseInv
<1>8. CASE AllStarted
  BY <1>8, CauseStep DEF AllStarted, planning, docker, collected, CauseInv, TypeInv, PhaseInv,
     Threaded
<1>9. CASE Poll
  <2>1. Cause /\ pc = "wait"
    BY <1>9, CauseIntro DEF Poll, PhaseInv
  <2>2. Cause'
    BY <1>9, <2>1, CauseStep DEF Poll
  <2> QED
    BY <2>2 DEF CauseInv
<1>10. CASE DashboardFinished
  BY <1>10, CauseStep DEF DashboardFinished, DashboardReturns, planning, docker, collected,
     CauseInv, TypeInv, PhaseInv, Threaded
<1>11. CASE CollectorEnds
  <2>1. /\ pc = "wait" /\ pc' = pc /\ outcome' = outcome /\ request' = request
        /\ container' = container /\ code' = code /\ ended' = ended /\ got' = got
        /\ failed' => failed \/ (Polls /\ interrupted) \/ (request.mode = "pipeline" /\ got # Ranks)
        /\ AllReceived
    BY <1>11 DEF CollectorEnds, PhaseInv, planning, docker
  <2>2. request.mode = "pipeline" /\ got # Ranks => Cause
    BY <2>1 DEF AllReceived, Threaded, CauseInv, TypeInv
  <2>3. failed' => Cause
    BY <2>1, <2>2, CauseIntro DEF CauseInv
  <2> QED
    BY <2>1, <2>3, CauseStep DEF CauseInv, Threaded
<1>12. CASE Report
  <2>1. /\ pc = "wait" /\ pc' = "drop" /\ request' = request /\ failed' = failed
        /\ container' = container /\ code' = code /\ ended' = ended /\ got' = got
        /\ outcome' = "error" => ~Verdict
        /\ AllReceived
    BY <1>12 DEF Report, PhaseInv, planning, docker, collected
  <2>2. ASSUME ~Verdict
        PROVE  Cause
    <3>1. CASE failed
      BY <2>1, <3>1 DEF CauseInv
    <3>2. CASE \E r \in Ranks : code[r] # "zero"
      BY <2>1, <3>2 DEF AllReceived, TypeInv, CauseInv
    <3>3. ASSUME NEW r \in Ranks, \A q \in Ranks : code[q] = "zero",
                 ~(IF Threaded THEN r \in got ELSE LoggedReport(r))
          PROVE  Cause
      <4>1. CASE Threaded
        BY <2>1, <3>3, <4>1 DEF AllReceived, CauseInv
      <4>2. CASE ~Threaded
        <5>1. container[r] = "success" /\ ~LoggedIn(out[r])
          BY <2>1, <3>3, <4>2, OutputOf DEF EarnedInv
        <5>2. ReportedIn(out[r])
          BY <2>1, <5>1 DEF OutInv, Plausible
        <5> QED
          BY <5>1, <5>2, CauseIntro
      <4> QED
        BY <4>1, <4>2
    <3> QED
      BY <2>2, <3>1, <3>2, <3>3 DEF Verdict
  <2> QED
    BY <2>1, <2>2, CauseStep DEF CauseInv, Threaded
<1>13. CASE Drop
  BY <1>13 DEF Drop, CauseInv
<1>14. ASSUME NEW r \in Ranks, TakeLine(r)
     PROVE  CauseInv'
  <2>1. /\ pc = "wait" /\ pc' = pc /\ outcome' = outcome /\ request' = request
        /\ container' = container /\ code' = code /\ ended' = ended /\ got \subseteq got'
    BY <1>14 DEF TakeLine, PhaseInv, planning, docker
  <2>2. failed' => Cause
    <3> DEFINE line == out[r][taken[r] + 1]
    <3>1. /\ Plausible(out[r], container[r])
          /\ Received(out[r], taken[r], sequences[r], r, got)
          /\ out[r] \in Seq(Lines) /\ taken[r] \in Nat /\ sequences[r] \in Nat
          /\ taken[r] < Len(out[r])
      BY <1>14, <2>1 DEF TypeInv, OutInv, TakenInv, TakeLine
    <3>2. line.kind = "event" => line.sequence = sequences[r]
      BY <3>1, TakeOne
    <3>3. line.kind = "garbled" => container[r] = "failure"
      <4>1. taken[r] + 1 \in 1 .. Len(out[r])
        BY <3>1
      <4> QED
        BY <3>1, <4>1 DEF Plausible
    <3>4. failed' => failed \/ (line.kind = "event" /\ line.sequence # sequences[r]) \/ line.kind = "garbled"
      BY <1>14 DEF TakeLine
    <3> QED
      BY <2>1, <3>2, <3>3, <3>4, CauseIntro DEF CauseInv
  <2> QED
    BY <2>1, <2>2, CauseStep DEF CauseInv, Threaded
<1>15. ASSUME NEW r \in Ranks, StreamEnds(r)
     PROVE  CauseInv'
  <2>1. /\ pc = "wait" /\ pc' = pc /\ outcome' = outcome /\ request' = request
        /\ container' = container /\ code' = code /\ got' = got
        /\ ended' = ended \union {r}
        /\ failed' => failed \/ r \notin got
        /\ container[r] \in Exited /\ taken[r] = Len(out[r])
    BY <1>15 DEF StreamEnds, EndStream, PhaseInv, planning, docker, TypeInv, ContainerStates
  <2>2. ASSUME r \notin got
        PROVE  Cause
    <3>1. CASE container[r] = "success"
      <4>1. Plausible(out[r], container[r]) /\ Received(out[r], taken[r], sequences[r], r, got)
        BY <2>1 DEF OutInv, TakenInv
      <4>2. out[r] \in Seq(Lines)
        BY DEF TypeInv
      <4>3. ReportedIn(out[r]) /\ ~LoggedIn(out[r])
        BY <2>1, <2>2, <3>1, <4>1, <4>2 DEF Plausible, Received, LoggedIn
      <4> QED
        BY <4>3, CauseIntro
    <3>2. CASE container[r] # "success"
      BY <2>1, <3>2, CauseIntro DEF CauseInv, Exited
    <3> QED
      BY <3>1, <3>2
  <2> QED
    BY <2>1, <2>2, CauseStep DEF CauseInv, Threaded
<1>16. ASSUME NEW r \in Ranks, WaitReturns(r)
     PROVE  CauseInv'
  <2>1. /\ pc = "wait" /\ pc' = pc /\ outcome' = outcome /\ request' = request
        /\ ended' = ended /\ got' = got
    BY <1>16 DEF WaitReturns, ExitReported, PhaseInv, planning
  <2>2. CASE container[r] = "success"
    <3>1. ExitReported(r, "zero") /\ ~StopsOthers("zero")
      BY <1>16, <2>2 DEF WaitReturns, StopsOthers
    <3>2. container' = container /\ code' = [code EXCEPT ![r] = "zero"] /\ (failed' => failed)
      BY <3>1 DEF ExitReported
    <3> QED
      BY <2>1, <3>2, CauseStep DEF CauseInv, TypeInv, Threaded
  <2>3. CASE container[r] # "success"
    <3>1. Cause
      BY <1>16, <2>1, <2>3, CauseIntro DEF WaitReturns, Exited, CauseInv
    <3>2. Cause'
      BY <2>1, <3>1, CauseStep
    <3> QED
      BY <3>2 DEF CauseInv
  <2> QED
    BY <2>2, <2>3
<1>17. CASE WaitFails
  BY <1>17, TroubleCause DEF WaitFails, Abandon, CauseInv
<1>18. CASE DashboardFails
  BY <1>18, TroubleCause DEF DashboardFails, Abandon, CauseInv
<1>19. CASE ReportFails
  BY <1>19, TroubleCause DEF ReportFails, Abandon, CauseInv
<1>20. ASSUME NEW r \in Ranks, StreamBreaks(r)
     PROVE  CauseInv'
  BY <1>20, TroubleCause DEF StreamBreaks, EndStream, CauseInv
<1>21. ASSUME NEW r \in Ranks, WaitGarbled(r)
     PROVE  CauseInv'
  BY <1>21, TroubleCause DEF WaitGarbled, WaitGarbled, CauseInv
<1>22. CASE Interrupt
  BY <1>22, CauseStep DEF Interrupt, planning, docker, collected, CauseInv, TypeInv, PhaseInv,
     Threaded
<1>23. CASE DashboardDisabled
  BY <1>23, CauseStep DEF DashboardDisabled, DashboardReturns, planning, docker, collected,
     CauseInv, TypeInv, PhaseInv, Threaded
<1>24. CASE DashboardInterrupted
  BY <1>24, CauseStep DEF DashboardInterrupted, DashboardReturns, planning, docker, collected,
     CauseInv, TypeInv, PhaseInv, Threaded
<1>25. ASSUME NEW r \in Ranks, RankPublishes(r)
     PROVE  CauseInv'
  BY <1>25, CauseStep DEF RankPublishes, RankOutput, planning, collected, CauseInv, TypeInv,
     PhaseInv, Threaded
<1>26. ASSUME NEW r \in Ranks, RankReports(r)
     PROVE  CauseInv'
  BY <1>26, CauseStep DEF RankReports, RankOutput, planning, collected, CauseInv, TypeInv,
     PhaseInv, Threaded
<1>27. ASSUME NEW r \in Ranks, RankReportsWrong(r)
     PROVE  CauseInv'
  BY <1>27, CauseStep DEF RankReportsWrong, RankOutput, planning, collected, CauseInv, TypeInv,
     PhaseInv, Threaded
<1>28. ASSUME NEW r \in Ranks, RankSucceeds(r)
     PROVE  CauseInv'
  BY <1>28, CauseStep DEF RankSucceeds, RankEnds, planning, collected, CauseInv, TypeInv,
     PhaseInv, Threaded
<1>29. ASSUME NEW r \in Ranks, RankFails(r)
     PROVE  CauseInv'
  BY <1>29, CauseStep DEF RankFails, RankEnds, planning, collected, CauseInv, TypeInv,
     PhaseInv, Threaded
<1>30. CASE UNCHANGED vars
  BY <1>30, CauseStep DEF vars, planning, docker, collected, CauseInv, TypeInv, PhaseInv, Threaded
<1> QED
  BY <1>1, <1>2, <1>3, <1>4, <1>5, <1>6, <1>7, <1>8, <1>9, <1>10, <1>11, <1>12, <1>13, <1>14,
     <1>15, <1>16, <1>17, <1>18, <1>19, <1>20, <1>21, <1>22, <1>23, <1>24, <1>25, <1>26, <1>27,
     <1>28, <1>29, <1>30 DEF Next, Host, Faults, User, Rank

LEMMA EarnedStep ==
  ASSUME TypeInv, PhaseInv, TakenInv, EarnedInv, [Next]_vars
  PROVE  EarnedInv'
<1>1. CASE AssignStage
  BY <1>1 DEF AssignStage, planning, docker, collected, EarnedInv, TypeInv, PhaseInv, Polls
<1>2. CASE PlanAccepted
  BY <1>2 DEF PlanAccepted, planning, docker, collected, EarnedInv, TypeInv, PhaseInv, Polls
<1>3. CASE PlanRefused
  BY <1>3 DEF PlanRefused, Refuse, EarnedInv
<1>4. CASE PreparationFails
  BY <1>4 DEF PreparationFails, Refuse, EarnedInv
<1>5. CASE CreateNetwork
  BY <1>5 DEF CreateNetwork, planning, collected, EarnedInv, TypeInv, PhaseInv, Polls
<1>6. CASE StartContainer
  BY <1>6 DEF StartContainer, planning, collected, EarnedInv, TypeInv, PhaseInv, Polls
<1>7. CASE StartFails
  BY <1>7 DEF StartFails, Abandon, planning, collected, EarnedInv, TypeInv, PhaseInv, Polls
<1>8. CASE AllStarted
  BY <1>8 DEF AllStarted, planning, docker, collected, EarnedInv, TypeInv, PhaseInv, Polls
<1>9. CASE Poll
  BY <1>9 DEF Poll, StopContainers, planning, EarnedInv, TypeInv, PhaseInv, Polls
<1>10. CASE DashboardFinished
  BY <1>10 DEF DashboardFinished, DashboardReturns, planning, docker, collected, EarnedInv,
     TypeInv, PhaseInv, Polls
<1>11. CASE CollectorEnds
  BY <1>11 DEF CollectorEnds, planning, docker, EarnedInv, TypeInv, PhaseInv, Polls
<1>12. CASE Report
  <2>1. /\ pc = "wait" /\ pc' = "drop" /\ request' = request /\ container' = container
        /\ code' = code /\ out' = out /\ interrupted' = interrupted
        /\ ~collecting /\ outcome' = "ok" => Verdict
    BY <1>12 DEF Report, planning, docker, collected
  <2>2. ASSUME Verdict, NEW r \in Ranks
        PROVE  LoggedIn(out[r])
    <3>1. CASE Threaded
      <4>1. Received(out[r], taken[r], sequences[r], r, got) /\ r \in got
        BY <2>1, <2>2, <3>1 DEF Verdict, TakenInv
      <4>2. out[r] \in Seq(Lines) /\ taken[r] \in Nat
        BY DEF TypeInv
      <4> QED
        BY <4>1, <4>2 DEF Received, LoggedIn
    <3>2. CASE ~Threaded
      BY <2>2, <3>2, OutputOf DEF Verdict
    <3> QED
      BY <3>1, <3>2
  <2> QED
    BY <1>12, <2>1, <2>2 DEF Report, EarnedInv, Polls, Verdict
<1>13. CASE Drop
  BY <1>13 DEF Drop, EarnedInv
<1>14. ASSUME NEW r \in Ranks, TakeLine(r)
     PROVE  EarnedInv'
  BY <1>14 DEF TakeLine, planning, docker, EarnedInv, TypeInv, PhaseInv, Polls
<1>15. ASSUME NEW r \in Ranks, StreamEnds(r)
     PROVE  EarnedInv'
  BY <1>15 DEF StreamEnds, EndStream, planning, docker, EarnedInv, TypeInv, PhaseInv, Polls
<1>16. ASSUME NEW r \in Ranks, WaitReturns(r)
     PROVE  EarnedInv'
  BY <1>16 DEF WaitReturns, ExitReported, StopsOthers, StopContainers, planning, EarnedInv,
     TypeInv, PhaseInv, Polls
<1>17. CASE WaitFails
  BY <1>17 DEF WaitFails, Abandon, planning, docker, collected, EarnedInv, TypeInv, PhaseInv, Polls
<1>18. CASE DashboardFails
  BY <1>18 DEF DashboardFails, Abandon, planning, docker, collected, EarnedInv, TypeInv,
     PhaseInv, Polls
<1>19. CASE ReportFails
  BY <1>19 DEF ReportFails, Abandon, planning, docker, collected, EarnedInv, TypeInv, PhaseInv,
     Polls
<1>20. ASSUME NEW r \in Ranks, StreamBreaks(r)
     PROVE  EarnedInv'
  BY <1>20 DEF StreamBreaks, EndStream, planning, docker, EarnedInv, TypeInv, PhaseInv, Polls
<1>21. ASSUME NEW r \in Ranks, WaitGarbled(r)
     PROVE  EarnedInv'
  BY <1>21 DEF WaitGarbled, ExitReported, StopsOthers, StopContainers, planning, EarnedInv,
     TypeInv, PhaseInv, Polls
<1>22. CASE Interrupt
  BY <1>22 DEF Interrupt, planning, docker, collected, EarnedInv, TypeInv, PhaseInv, Polls
<1>23. CASE DashboardDisabled
  BY <1>23 DEF DashboardDisabled, DashboardReturns, planning, docker, collected, EarnedInv,
     TypeInv, PhaseInv, Polls
<1>24. CASE DashboardInterrupted
  BY <1>24 DEF DashboardInterrupted, DashboardReturns, planning, docker, collected, EarnedInv,
     TypeInv, PhaseInv, Polls
<1>25. ASSUME NEW r \in Ranks, RankPublishes(r)
     PROVE  EarnedInv'
  BY <1>25 DEF RankPublishes, RankOutput, planning, collected, EarnedInv, TypeInv, PhaseInv, Polls
<1>26. ASSUME NEW r \in Ranks, RankReports(r)
     PROVE  EarnedInv'
  BY <1>26 DEF RankReports, RankOutput, planning, collected, EarnedInv, TypeInv, PhaseInv, Polls
<1>27. ASSUME NEW r \in Ranks, RankReportsWrong(r)
     PROVE  EarnedInv'
  BY <1>27 DEF RankReportsWrong, RankOutput, planning, collected, EarnedInv, TypeInv, PhaseInv,
     Polls
<1>28. ASSUME NEW r \in Ranks, RankSucceeds(r)
     PROVE  EarnedInv'
  BY <1>28 DEF RankSucceeds, RankEnds, planning, collected, EarnedInv, TypeInv, PhaseInv, Polls
<1>29. ASSUME NEW r \in Ranks, RankFails(r)
     PROVE  EarnedInv'
  BY <1>29 DEF RankFails, RankEnds, planning, collected, EarnedInv, TypeInv, PhaseInv, Polls
<1>30. CASE UNCHANGED vars
  BY <1>30 DEF vars, planning, docker, collected, EarnedInv, TypeInv, PhaseInv, Polls
<1> QED
  BY <1>1, <1>2, <1>3, <1>4, <1>5, <1>6, <1>7, <1>8, <1>9, <1>10, <1>11, <1>12, <1>13, <1>14,
     <1>15, <1>16, <1>17, <1>18, <1>19, <1>20, <1>21, <1>22, <1>23, <1>24, <1>25, <1>26, <1>27,
     <1>28, <1>29, <1>30 DEF Next, Host, Faults, User, Rank

LEMMA EndsOnly ==
  ASSUME [Next]_vars, pc' = "ended"
  PROVE  pc = "ended" \/ PlanRefused \/ PreparationFails \/ Drop
<1>1. CASE AssignStage
  BY <1>1 DEF AssignStage, planning, docker, collected, vars
<1>2. CASE PlanAccepted
  BY <1>2 DEF PlanAccepted, planning, docker, collected, vars
<1>3. CASE PlanRefused
  BY <1>3
<1>4. CASE PreparationFails
  BY <1>4
<1>5. CASE CreateNetwork
  BY <1>5 DEF CreateNetwork, planning, collected, vars
<1>6. CASE StartContainer
  BY <1>6 DEF StartContainer, planning, collected, vars
<1>7. CASE StartFails
  BY <1>7 DEF StartFails, Abandon, planning, collected, vars
<1>8. CASE AllStarted
  BY <1>8 DEF AllStarted, planning, docker, collected, vars
<1>9. CASE Poll
  BY <1>9 DEF Poll, StopContainers, planning, vars
<1>10. CASE DashboardFinished
  BY <1>10 DEF DashboardFinished, DashboardReturns, planning, docker, collected, vars
<1>11. CASE CollectorEnds
  BY <1>11 DEF CollectorEnds, planning, docker, vars
<1>12. CASE Report
  BY <1>12 DEF Report, planning, docker, collected, vars
<1>13. CASE Drop
  BY <1>13
<1>14. ASSUME NEW r \in Ranks, TakeLine(r)
     PROVE  pc = "ended" \/ PlanRefused \/ PreparationFails \/ Drop
  BY <1>14 DEF TakeLine, planning, docker, vars
<1>15. ASSUME NEW r \in Ranks, StreamEnds(r)
     PROVE  pc = "ended" \/ PlanRefused \/ PreparationFails \/ Drop
  BY <1>15 DEF StreamEnds, EndStream, planning, docker, vars
<1>16. ASSUME NEW r \in Ranks, WaitReturns(r)
     PROVE  pc = "ended" \/ PlanRefused \/ PreparationFails \/ Drop
  BY <1>16 DEF WaitReturns, ExitReported, StopsOthers, StopContainers, planning, vars
<1>17. CASE WaitFails
  BY <1>17 DEF WaitFails, Abandon, planning, docker, collected, vars
<1>18. CASE DashboardFails
  BY <1>18 DEF DashboardFails, Abandon, planning, docker, collected, vars
<1>19. CASE ReportFails
  BY <1>19 DEF ReportFails, Abandon, planning, docker, collected, vars
<1>20. ASSUME NEW r \in Ranks, StreamBreaks(r)
     PROVE  pc = "ended" \/ PlanRefused \/ PreparationFails \/ Drop
  BY <1>20 DEF StreamBreaks, EndStream, planning, docker, vars
<1>21. ASSUME NEW r \in Ranks, WaitGarbled(r)
     PROVE  pc = "ended" \/ PlanRefused \/ PreparationFails \/ Drop
  BY <1>21 DEF WaitGarbled, ExitReported, StopsOthers, StopContainers, planning, vars
<1>22. CASE Interrupt
  BY <1>22 DEF Interrupt, planning, docker, collected, vars
<1>23. CASE DashboardDisabled
  BY <1>23 DEF DashboardDisabled, DashboardReturns, planning, docker, collected, vars
<1>24. CASE DashboardInterrupted
  BY <1>24 DEF DashboardInterrupted, DashboardReturns, planning, docker, collected, vars
<1>25. ASSUME NEW r \in Ranks, RankPublishes(r)
     PROVE  pc = "ended" \/ PlanRefused \/ PreparationFails \/ Drop
  BY <1>25 DEF RankPublishes, RankOutput, planning, collected, vars
<1>26. ASSUME NEW r \in Ranks, RankReports(r)
     PROVE  pc = "ended" \/ PlanRefused \/ PreparationFails \/ Drop
  BY <1>26 DEF RankReports, RankOutput, planning, collected, vars
<1>27. ASSUME NEW r \in Ranks, RankReportsWrong(r)
     PROVE  pc = "ended" \/ PlanRefused \/ PreparationFails \/ Drop
  BY <1>27 DEF RankReportsWrong, RankOutput, planning, collected, vars
<1>28. ASSUME NEW r \in Ranks, RankSucceeds(r)
     PROVE  pc = "ended" \/ PlanRefused \/ PreparationFails \/ Drop
  BY <1>28 DEF RankSucceeds, RankEnds, planning, collected, vars
<1>29. ASSUME NEW r \in Ranks, RankFails(r)
     PROVE  pc = "ended" \/ PlanRefused \/ PreparationFails \/ Drop
  BY <1>29 DEF RankFails, RankEnds, planning, collected, vars
<1>30. CASE UNCHANGED vars
  BY <1>30 DEF vars, planning, docker, collected, vars
<1> QED
  BY <1>1, <1>2, <1>3, <1>4, <1>5, <1>6, <1>7, <1>8, <1>9, <1>10, <1>11, <1>12, <1>13, <1>14,
     <1>15, <1>16, <1>17, <1>18, <1>19, <1>20, <1>21, <1>22, <1>23, <1>24, <1>25, <1>26, <1>27,
     <1>28, <1>29, <1>30 DEF Next, Host, Faults, User, Rank

LEMMA EndInit ==
  ASSUME Init PROVE EndInv
BY DEF Init, EndInv

LEMMA EndStep ==
  ASSUME TypeInv, PhaseInv, LeftInv, EndInv, [Next]_vars
  PROVE  EndInv'
<1> SUFFICES ASSUME pc' = "ended", ~ignored'
             PROVE  EndInv'
  BY DEF EndInv
<1>1. CASE pc = "ended"
  <2>1. UNCHANGED vars
    BY <1>1 DEF Next
  <2> QED
    BY <2>1 DEF vars, planning, docker, collected, EndInv, Stays
<1>2. CASE PlanRefused \/ PreparationFails
  <2>1. /\ request' = request /\ container' = container /\ network' = network
        /\ pc \in {"plan", "network"}
    BY <1>2 DEF PlanRefused, PreparationFails, Refuse, planning, docker
  <2>2. \A r \in Ranks : container'[r] = "absent"
    BY <2>1 DEF PhaseInv
  <2>3. 0 \in Ranks
    BY WorldSizeAssumption DEF Ranks
  <2> QED
    BY <2>1, <2>2, <2>3 DEF EndInv, Stays, PhaseInv
<1>3. CASE Drop
  <2>1. /\ pc = "drop" /\ request' = request /\ outcome' = outcome /\ code' = code
        /\ trouble' = trouble
    BY <1>3 DEF Drop, planning, collected
  <2>2. \A r \in Ranks : Stays(r)' => r \notin listed /\ container[r] # "absent"
    BY <1>3 DEF Drop, Stays, StopContainers, Cleanup, TypeInv, planning
  <2>3. network' => request.keep \/ \E r \in Ranks : Stays(r)'
    BY <1>3 DEF Drop, Cleanup, Stays, planning
  <2>4. \E x \in Ranks : \A r \in Ranks : Stays(r)' => r = x
    <3>1. CASE listed = Ranks
      <4>1. 0 \in Ranks
        BY WorldSizeAssumption DEF Ranks
      <4> QED
        BY <2>2, <3>1, <4>1
    <3>2. CASE listed # Ranks
      BY <2>1, <2>2, <3>2 DEF LeftInv
    <3> QED
      BY <3>1, <3>2
  <2>5. (\E r \in Ranks : Stays(r)') =>
          outcome = "error" /\ trouble /\ \A r \in Ranks : code[r] = "none"
    BY <2>1, <2>2 DEF LeftInv
  <2> QED
    BY <2>1, <2>3, <2>4, <2>5 DEF EndInv
<1>4. pc = "ended" \/ PlanRefused \/ PreparationFails \/ Drop
  BY EndsOnly
<1> QED
  BY <1>1, <1>2, <1>3, <1>4

-----------------------------------------------------------------------------

LEMMA LaunchInvInit ==
  ASSUME Init PROVE LaunchInv
BY TypeInit, PhaseInit, LeftInit, EndInit, OutInit, TakenInit, CauseInit, EarnedInit DEF LaunchInv

LEMMA LaunchInvStep ==
  ASSUME LaunchInv, [Next]_vars
  PROVE  LaunchInv'
<1>1. TypeInv'
  BY TypeStep DEF LaunchInv
<1> QED
  BY <1>1, PhaseStep, LeftStep, EndStep, OutStep, TakenStep, CauseInvStep, EarnedStep DEF LaunchInv

LEMMA LaunchInvariant == Spec => []LaunchInv
<1>1. Init => LaunchInv
  BY LaunchInvInit
<1>2. LaunchInv /\ [Next]_vars => LaunchInv'
  BY LaunchInvStep
<1> QED
  BY <1>1, <1>2, PTL DEF Spec

(* A launch command that reports success has waited for every rank, every  *)
(* rank exited with zero and wrote its report, and no interrupt was polled *)
(* away, in whatever order exits, lines and ends of streams arrived.       *)
THEOREM SuccessEarned == Spec => []SuccessIsEarned
<1>1. ASSUME LaunchInv
      PROVE  SuccessIsEarned
  BY <1>1, OutputOf DEF LaunchInv, EarnedInv, SuccessIsEarned
<1> QED
  BY <1>1, LaunchInvariant, PTL

(* A launch command that reports failure does so for a reason outside the  *)
(* collector: the numbering of events, the stopping of the others and late *)
(* or missing reports of ranks that are well never fail a run.             *)
THEOREM FailuresHaveCauses == Spec => []FailureHasCause
<1>1. ASSUME LaunchInv
      PROVE  FailureHasCause
  BY <1>1, OutputOf DEF LaunchInv, CauseInv, Cause, Faulty, FailureHasCause
<1> QED
  BY <1>1, LaunchInvariant, PTL

(* Whichever way the command ends, the drop of DockerResources leaves      *)
(* nothing running, unless docker itself failed it or a docker run failed  *)
(* after Docker had made the container, which is then the only one left.   *)
THEOREM CleanupComplete == Spec => []NothingLeftBehind
<1>1. ASSUME LaunchInv
      PROVE  NothingLeftBehind
  <2> DEFINE left == {r \in Ranks : Stays(r)}
  <2>0. left = {r \in Ranks : IF request.keep THEN container[r] = "running"
                                              ELSE container[r] # "absent"}
    BY DEF Stays
  <2> SUFFICES ASSUME pc = "ended", ~ignored
               PROVE  /\ Cardinality(left) <= 1
                      /\ left # {} => outcome = "error" /\ trouble /\ \A r \in Ranks : code[r] = "none"
                      /\ network => request.keep \/ left # {}
    BY <2>0 DEF NothingLeftBehind
  <2>1. EndInv
    BY <1>1 DEF LaunchInv
  <2>2. PICK x \in Ranks : \A r \in Ranks : Stays(r) => r = x
    BY <2>1 DEF EndInv
  <2>3. left \in SUBSET {x} /\ IsFiniteSet({x}) /\ Cardinality({x}) = 1
    BY <2>2, FS_Singleton
  <2>4. Cardinality(left) <= 1
    BY <2>3, FS_Subset
  <2> QED
    BY <2>1, <2>4 DEF EndInv
<1> QED
  BY <1>1, LaunchInvariant, PTL
=============================================================================
