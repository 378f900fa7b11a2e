------------------------------ MODULE Planning ------------------------------
(***************************************************************************)
(* What the launchers compute before they touch Docker: the share of the   *)
(* machine that each rank gets (crates/cli/src/launch.rs), the layers of   *)
(* each pipeline stage (crates/pipeline/src/partition.rs), the shard of    *)
(* each tensor rank (crates/runtime/src/parallel.rs), and whether weights  *)
(* and KV cache of a rank fit its memory (those, crates/tensor/src/plan.rs *)
(* and crates/runtime/src/memory.rs).                                      *)
(*                                                                         *)
(* A model m is a record of the fields of ModelConfig that these formulas  *)
(* use.  Numbers are unbounded here; where the code multiplies with        *)
(* checked_mul, a plan that overflows is refused.                          *)
(***************************************************************************)
EXTENDS Integers, FiniteSets

MIN_WORLD_SIZE == 2
MAX_WORLD_SIZE == 64
MIN_CPU_MILLIS == 100
MIB == 1048576
MIN_MEMORY_BYTES == 128 * MIB
BYTES == 4  \* PlanDType::F32.bytes(); launched runs refuse any other type

-----------------------------------------------------------------------------
(* plan_resources: equal shares of the requested totals, memory in whole   *)
(* MiB.                                                                    *)

PerRankCpu(world, cpus) == cpus \div world
PerRankMemory(world, memory) == ((memory \div world) \div MIB) * MIB

ResourcesAccepted(world, cpus, memory, engine) ==
  /\ MIN_WORLD_SIZE <= world /\ world <= MAX_WORLD_SIZE
  /\ cpus <= engine.cpus
  /\ memory <= engine.memory
  /\ PerRankCpu(world, cpus) >= MIN_CPU_MILLIS
  /\ PerRankMemory(world, memory) >= MIN_MEMORY_BYTES

-----------------------------------------------------------------------------
(* Parameter counts of a model. *)

(* head_dim, and what it refuses. *)
HeadsAccepted(m) ==
  m.heads # 0 /\ m.hidden % m.heads = 0 /\ m.kvHeads # 0 /\ m.heads % m.kvHeads = 0
HeadDim(m) == m.hidden \div m.heads

KvWidth(m) == m.kvHeads * HeadDim(m)
Embedding(m) == m.vocab * m.hidden
Block(m) == 2 * m.hidden * m.hidden + 2 * m.hidden * KvWidth(m)
              + 3 * m.hidden * m.intermediate + 2 * m.hidden

(* parameter_breakdown and its total. *)
ModelParameters(m) ==
  Embedding(m) + m.layers * (2 * m.hidden * m.hidden + 2 * m.hidden * KvWidth(m))
    + m.layers * 3 * m.hidden * m.intermediate + m.layers * 2 * m.hidden
    + m.hidden + (IF m.tied THEN 0 ELSE Embedding(m))

KvCacheBytes(layers, context, kvHeads, headDim) == 2 * layers * context * kvHeads * headDim * BYTES

-----------------------------------------------------------------------------
(* PipelinePartition::balanced: how many layers a stage gets, the lowest   *)
(* ranks the remainder.  The loop that lays the stages end to end is an    *)
(* action of Launcher.                                                     *)

PartitionAccepted(m, world) ==
  MIN_WORLD_SIZE <= world /\ world <= MAX_WORLD_SIZE /\ world <= m.layers

(* Seeded fault: one rank too many gets a layer of the remainder. *)
LayerCountInclusive(m, world, rank) ==
  m.layers \div world + (IF rank <= m.layers % world THEN 1 ELSE 0)

LayerCount(m, world, rank) ==
  m.layers \div world + (IF rank < m.layers % world THEN 1 ELSE 0)

(* StageMemoryPlan::for_stage.  The last stage has an output head of its   *)
(* own, even when the model ties it to the embedding.                      *)
StageParameters(m, world, stage) ==
  Block(m) * (stage.end - stage.start)
    + (IF stage.rank = 0 THEN Embedding(m) ELSE 0)
    + (IF stage.rank + 1 = world THEN m.hidden + Embedding(m) ELSE 0)

StageFits(m, world, stage, context, budget) ==
  /\ HeadsAccepted(m)
  /\ StageParameters(m, world, stage) * BYTES
       + KvCacheBytes(stage.end - stage.start, context, m.kvHeads, HeadDim(m)) <= budget

-----------------------------------------------------------------------------
(* plan_tensor_shard and TensorParallelPartition::plan. *)

ShardAccepted(m, world) ==
  /\ MIN_WORLD_SIZE <= world /\ world <= MAX_WORLD_SIZE
  /\ \A size \in {m.vocab, m.hidden, m.intermediate, m.heads, m.kvHeads} : size % world = 0
  /\ HeadsAccepted(m)

ShardRange(length, world, rank) ==
  [start |-> rank * (length \div world), end |-> (rank + 1) * (length \div world)]

Replicated(m) == 2 * m.layers * m.hidden + m.hidden

Architectural(m) ==
  Embedding(m)
    + m.layers * (m.hidden * m.hidden + 2 * m.kvHeads * HeadDim(m) * m.hidden + m.hidden * m.hidden
                    + 3 * m.hidden * m.intermediate + 2 * m.hidden)
    + m.hidden + (IF m.tied THEN 0 ELSE Embedding(m))

LocalParameters(m, world) == (Architectural(m) - Replicated(m)) \div world + Replicated(m)

ShardFits(m, world, context, budget) ==
  LocalParameters(m, world) * BYTES
    + KvCacheBytes(m.layers, context, m.kvHeads \div world, HeadDim(m)) <= budget
=============================================================================
