----------------------------- MODULE MCLauncher -----------------------------
(* The smaller model of the registry, and one whose layers do not divide   *)
(* by the ranks.  The engine has 4 CPUs and 2047 MiB.                      *)
EXTENDS Launcher

Smol == [layers |-> 30, hidden |-> 576, intermediate |-> 1536, heads |-> 9, kvHeads |-> 3,
         vocab |-> 49152, tied |-> TRUE]
Tiny == [layers |-> 3, hidden |-> 8, intermediate |-> 12, heads |-> 4, kvHeads |-> 2,
         vocab |-> 10, tied |-> FALSE]

MCEngine == [cpus |-> 4000, memory |-> 2047 * MIB]

Command(mode, model, keep, tui, cpus, mib) ==
  [mode |-> mode, model |-> model, keep |-> keep, tui |-> tui, context |-> 512,
   cpus |-> cpus, memory |-> mib * MIB + 5]

MCRequests ==
  {Command(mode, Tiny, keep, FALSE, 2001, 1001) : mode \in {"launch", "bench"}, keep \in BOOLEAN}
  \union {Command("pipeline", Tiny, FALSE, FALSE, 2001, 1001),
          Command("pipeline", Smol, TRUE, TRUE, 2000, 1000),
          Command("tensor", Tiny, FALSE, FALSE, 2001, 257)}
  (* Refused: heads that do not divide by the ranks or by the KV heads,    *)
  (* too little memory for a stage, too much CPU, too little of either for *)
  (* each rank, too few layers.                                            *)
  \union {Command("tensor", Smol, FALSE, FALSE, 2000, 1000),
          Command("pipeline", [Tiny EXCEPT !.kvHeads = 3], FALSE, FALSE, 2001, 1001),
          Command("pipeline", Smol, FALSE, FALSE, 2000, 600),
          Command("launch", Tiny, FALSE, FALSE, 4001, 1000),
          Command("launch", Tiny, FALSE, FALSE, 199, 1000),
          Command("bench", Tiny, FALSE, FALSE, 1000, 255),
          Command("pipeline", [Tiny EXCEPT !.layers = 1], FALSE, FALSE, 2000, 1000)}

(* Tensor-parallel generation with the dashboard. *)
MCTensorRequests == {Command("tensor", Tiny, FALSE, TRUE, 2001, 1001)}
=============================================================================
