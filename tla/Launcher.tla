------------------------------ MODULE Launcher ------------------------------
(***************************************************************************)
(* The four commands that run ranks in Docker containers: the topology     *)
(* check (crates/cli/src/launch.rs), pipeline generation (pipeline.rs),    *)
(* tensor-parallel generation (tensor.rs) and the collective benchmark     *)
(* (benchmark.rs).  Each plans, makes a network, starts one container per  *)
(* rank, waits for all of them, reports, and removes what it made.         *)
(*                                                                         *)
(* Docker is external: a command may fail, and a container is the rank     *)
(* process that the other modules describe, of which only its output and   *)
(* its exit are kept.  Threads that follow a container hand their messages *)
(* to one channel, each in its own order; the collector is modelled as     *)
(* taking the next message of any of them.                                 *)
(***************************************************************************)
EXTENDS Ranks, Sequences, Planning

CONSTANTS
  Requests,   \* command lines
  Engine,     \* what docker info says
  MaxEvents   \* bound: events of a rank before its final sample

(* A request has the model and its context_capacity, total_cpus and        *)
(* total_memory, --keep-containers and --tui.                              *)
ASSUME LauncherAssumption ==
  /\ \A q \in Requests :
       /\ q.mode \in {"launch", "pipeline", "tensor", "bench"}
       /\ q.keep \in BOOLEAN /\ q.tui \in BOOLEAN
       /\ q.tui => q.mode \in {"pipeline", "tensor"}
       /\ q.cpus \in Nat /\ q.memory \in Nat /\ q.context \in Nat
       /\ \A size \in {q.model.layers, q.model.hidden, q.model.intermediate, q.model.heads,
                       q.model.kvHeads, q.model.vocab} : size \in Nat
       /\ q.model.heads > 0
  /\ Engine.cpus \in Nat /\ Engine.memory \in Nat
  /\ MaxEvents \in Nat

VARIABLES
  request,      \* the command line
  pc,           \* where the command is
  outcome,      \* "none", then what the command returns
  stages,       \* stages of the partition, as far as it is made
  network,      \* whether the network of the run exists
  container,    \* container[r]
  listed,       \* docker_resources.containers
  out,          \* out[r]: the lines that r wrote to standard output
  interrupted,  \* INTERRUPTED
  collecting,   \* whether the wait loop or the collector runs
  dashboard,    \* whether the terminal UI runs
  taken,        \* taken[r]: how many of its lines have been received
  sequences,    \* sequences[r]: the event that is expected next
  got,          \* ranks whose report is there
  code,         \* code[r]: what docker wait said, "none" before
  ended,        \* ranks whose stream has ended
  failed,       \* whether there is a failure to report
  stopped,      \* whether stop_containers was called in the loop
  trouble,      \* history: a command, a file or the terminal failed the launcher
  ignored       \* history: a docker kill or rm failed, which nobody looks at

planning == <<request, stages>>
docker == <<network, container, listed, out>>
collected == <<taken, sequences, got, code, ended, failed, stopped>>
vars == <<planning, pc, outcome, docker, interrupted, collecting, dashboard, collected,
          trouble, ignored>>

Threaded == request.mode \in {"pipeline", "tensor"}  \* a collector thread, perhaps the UI

Init ==
  /\ request \in Requests
  /\ pc = "plan" /\ outcome = "none"
  /\ stages = <<>>
  /\ network = FALSE
  /\ container = [r \in Ranks |-> "absent"]
  /\ listed = {}
  /\ out = [r \in Ranks |-> <<>>]
  /\ interrupted = FALSE /\ collecting = FALSE /\ dashboard = FALSE
  /\ taken = [r \in Ranks |-> 0]
  /\ sequences = [r \in Ranks |-> 0]
  /\ got = {}
  /\ code = [r \in Ranks |-> "none"]
  /\ ended = {}
  /\ failed = FALSE /\ stopped = FALSE
  /\ trouble = FALSE /\ ignored = FALSE

-----------------------------------------------------------------------------
(* Docker. *)

(* A container that ended well, by itself, or was killed. *)
Exited == {"success", "failure", "killed"}

(* stop_containers: docker kill for each container that is listed.  Those  *)
(* of survivors are not killed, and the code does not find out.            *)
StopContainers(survivors) ==
  /\ survivors \subseteq {r \in listed : container[r] = "running"}
  /\ container' = [r \in Ranks |->
       IF r \in listed \ survivors /\ container[r] = "running" THEN "killed" ELSE container[r]]
  /\ ignored' = (ignored \/ survivors # {})

(* cleanup: docker rm --force for each container, then docker network rm,  *)
(* which Docker refuses while a container runs in the network.             *)
Cleanup(survivors) ==
  /\ survivors \subseteq listed
  /\ container' = [r \in Ranks |-> IF r \in listed \ survivors THEN "absent" ELSE container[r]]
  /\ listed' = {}
  /\ \E removed \in BOOLEAN :
       /\ removed => \A r \in Ranks : container'[r] # "running"
       /\ network' = (network /\ ~removed)
       /\ ignored' = (ignored \/ survivors # {}
                       \/ (~removed /\ \A r \in Ranks : container'[r] # "running"))

-----------------------------------------------------------------------------
(* The plan. *)

(* An error before there is anything to clean up. *)
Refuse ==
  /\ pc' = "ended" /\ outcome' = "error"
  /\ UNCHANGED <<planning, docker, interrupted, collecting, dashboard, collected, ignored>>

Shares == [cpus |-> PerRankCpu(WorldSize, request.cpus),
           memory |-> PerRankMemory(WorldSize, request.memory)]

(* Every stage and shard of the plan fits the memory of its container. *)
Placed ==
  CASE request.mode = "pipeline" ->
         \A i \in DOMAIN stages :
           StageFits(request.model, WorldSize, stages[i], request.context, Shares.memory)
    [] request.mode = "tensor" ->
         ShardAccepted(request.model, WorldSize)
           /\ ShardFits(request.model, WorldSize, request.context, Shares.memory)
    [] OTHER -> TRUE

(* PipelinePartition::balanced lays the stages end to end. *)
AssignStage ==
  /\ pc = "plan" /\ request.mode = "pipeline"
  /\ PartitionAccepted(request.model, WorldSize)
  /\ Len(stages) < WorldSize
  /\ LET rank == Len(stages)
         start == IF rank = 0 THEN 0 ELSE stages[rank].end
     IN stages' = Append(stages, [rank |-> rank, start |-> start,
                                  end |-> start + LayerCount(request.model, WorldSize, rank)])
  /\ UNCHANGED <<request, pc, outcome, docker, interrupted, collecting, dashboard, collected, trouble, ignored>>

PlanReady == request.mode = "pipeline" => Len(stages) = WorldSize

Accepted == ResourcesAccepted(WorldSize, request.cpus, request.memory, Engine) /\ Placed

(* plan_resources and the placement pass; checkpoint, manifest and image   *)
(* are there; the interrupt handler is installed.                          *)
PlanAccepted ==
  /\ pc = "plan" /\ PlanReady /\ Accepted
  /\ pc' = "network"
  /\ UNCHANGED <<planning, outcome, docker, interrupted, collecting, dashboard, collected, trouble, ignored>>

PlanRefused ==
  /\ pc = "plan"
  /\ \/ PlanReady /\ ~Accepted
     \/ request.mode = "pipeline" /\ ~PartitionAccepted(request.model, WorldSize)
  /\ Refuse
  /\ UNCHANGED trouble

(* docker info, a download, the image or the network fails. *)
PreparationFails ==
  /\ pc = "network" \/ (pc = "plan" /\ PlanReady)
  /\ Refuse
  /\ trouble' = TRUE

CreateNetwork ==
  /\ pc = "network"
  /\ network' = TRUE
  /\ pc' = "start"
  /\ UNCHANGED <<planning, outcome, container, listed, out, interrupted, collecting, dashboard, collected, trouble, ignored>>

-----------------------------------------------------------------------------
(* Containers are started in rank order. *)

NextRank == Cardinality(listed)

StartContainer ==
  /\ pc = "start" /\ listed # Ranks
  /\ listed' = listed \union {NextRank}
  /\ container' = [container EXCEPT ![NextRank] = "running"]
  /\ UNCHANGED <<planning, pc, outcome, network, out, interrupted, collecting, dashboard, collected, trouble, ignored>>

(* An error after the network exists: DockerResources is dropped. *)
Abandon ==
  /\ pc' = "drop" /\ outcome' = "error" /\ trouble' = TRUE
  /\ collecting' = FALSE /\ dashboard' = FALSE

(* docker run fails, or its answer is refused: whether or not Docker has a *)
(* container now, it is not listed.                                        *)
StartFails ==
  /\ pc = "start" /\ listed # Ranks
  /\ \E up \in BOOLEAN :
       container' = IF up THEN [container EXCEPT ![NextRank] = "running"] ELSE container
  /\ Abandon
  /\ UNCHANGED <<planning, network, listed, out, interrupted, collected, ignored>>

(* All are up: the threads are spawned. *)
AllStarted ==
  /\ pc = "start" /\ listed = Ranks
  /\ pc' = "wait"
  /\ collecting' = TRUE
  /\ dashboard' = request.tui
  /\ UNCHANGED <<planning, outcome, docker, interrupted, collected, trouble, ignored>>

-----------------------------------------------------------------------------
(* The rank processes: run_rank, run_pipeline_rank_process,                *)
(* run_tensor_rank_process, run_collective_benchmark_rank_process.         *)

Line(kind, n) == [kind |-> kind, sequence |-> n]
Events(r) == Cardinality({i \in DOMAIN out[r] : out[r][i].kind = "event"})
Reported(r) == \E i \in DOMAIN out[r] : out[r][i].kind \in {"result", "wrong"}

(* The final sample is numbered after the events of the report. *)
FinalSample(r) == Events(r)

RankOutput(r, lines) ==
  /\ container[r] = "running" /\ ~Reported(r)
  /\ out' = [out EXCEPT ![r] = @ \o lines]
  /\ UNCHANGED <<planning, pc, outcome, network, container, listed, interrupted, collecting,
                 dashboard, collected, trouble, ignored>>

RankPublishes(r) ==
  Threaded /\ Events(r) < MaxEvents /\ RankOutput(r, <<Line("event", Events(r))>>)

(* The final verification passed: the last sample and the report are       *)
(* written.                                                                *)
RankReports(r) ==
  \/ Threaded /\ RankOutput(r, <<Line("event", FinalSample(r)), Line("result", 0)>>)
  \/ ~Threaded /\ RankOutput(r, <<Line("result", 0)>>)

(* A benchmark that computed a wrong sum says so in its report, and exits  *)
(* with zero.                                                              *)
RankReportsWrong(r) == request.mode = "bench" /\ RankOutput(r, <<Line("wrong", 0)>>)

RankEnds(r, how) ==
  /\ container[r] = "running"
  /\ container' = [container EXCEPT ![r] = how]
  /\ UNCHANGED <<planning, pc, outcome, network, listed, interrupted, collecting, dashboard,
                 collected, trouble, ignored>>

RankSucceeds(r) == Reported(r) /\ RankEnds(r, "success") /\ UNCHANGED out

(* Any error or a kill, perhaps in the middle of a line. *)
RankFails(r) ==
  /\ RankEnds(r, "failure")
  /\ \/ UNCHANGED out
     \/ ~Reported(r) /\ out' = [out EXCEPT ![r] = Append(@, Line("garbled", 0))]

-----------------------------------------------------------------------------
(* Interrupts.  One that comes after the wait has nobody to read it. *)

Interrupt ==
  /\ pc \in {"network", "start", "wait"} /\ (pc = "wait" => collecting)
  /\ ~interrupted
  /\ interrupted' = TRUE
  /\ UNCHANGED <<planning, pc, outcome, docker, collecting, dashboard, collected, trouble, ignored>>

(* The loop polls the flag: wait_for_containers and the pipeline's         *)
(* collector do.                                                           *)
Polls == request.mode \in {"launch", "pipeline"}

Poll ==
  /\ collecting /\ Polls /\ interrupted /\ ~stopped
  /\ \E survivors \in SUBSET Ranks : StopContainers(survivors)
  /\ stopped' = TRUE
  /\ UNCHANGED <<planning, pc, outcome, network, listed, out, interrupted, collecting, dashboard,
                 taken, sequences, got, code, ended, failed, trouble>>

(* run_dashboard returns: the user leaves it, or presses Ctrl-C, or the    *)
(* collector is done; an error of the terminal ends the command.           *)
DashboardReturns ==
  /\ pc = "wait" /\ dashboard
  /\ dashboard' = FALSE
  /\ UNCHANGED <<planning, pc, outcome, docker, collecting, collected, trouble, ignored>>

DashboardDisabled == DashboardReturns /\ UNCHANGED interrupted
DashboardInterrupted == collecting /\ DashboardReturns /\ interrupted' = TRUE
DashboardFinished == ~collecting /\ DashboardReturns /\ UNCHANGED interrupted

DashboardFails ==
  /\ pc = "wait" /\ dashboard
  /\ Abandon
  /\ UNCHANGED <<planning, docker, interrupted, collected, ignored>>

-----------------------------------------------------------------------------
(* What the collector receives. *)

(* follow_container: the next line of r. *)
TakeLine(r) ==
  /\ collecting /\ Threaded
  /\ r \notin ended /\ taken[r] < Len(out[r])
  /\ taken' = [taken EXCEPT ![r] = @ + 1]
  /\ LET line == out[r][taken[r] + 1]
         inOrder == line.sequence = sequences[r]
     IN /\ got' = IF line.kind = "result" THEN got \union {r} ELSE got
        /\ sequences' =
             IF line.kind # "event" THEN sequences
             ELSE [sequences EXCEPT ![r] =
                     IF request.mode = "tensor" THEN line.sequence + 1
                     ELSE IF inOrder THEN @ + 1 ELSE @]
        /\ failed' = (failed \/ (line.kind = "event" /\ ~inOrder)
                        \/ (line.kind = "garbled" /\ request.mode = "pipeline"))
  /\ UNCHANGED <<planning, pc, outcome, docker, interrupted, collecting, dashboard,
                 code, ended, stopped, trouble, ignored>>

EndStream(r) ==
  /\ collecting /\ Threaded
  /\ r \notin ended
  /\ ended' = ended \union {r}
  /\ failed' = (failed \/ (request.mode = "tensor" /\ r \notin got))
  /\ UNCHANGED <<planning, pc, outcome, docker, interrupted, collecting, dashboard,
                 taken, sequences, got, code, stopped, ignored>>

StreamEnds(r) ==
  container[r] # "running" /\ taken[r] = Len(out[r]) /\ EndStream(r) /\ UNCHANGED trouble

(* docker logs cannot be started, or ends early. *)
StreamBreaks(r) == EndStream(r) /\ trouble' = TRUE

(* Seeded fault: only the commands that poll stop the other containers. *)
StopsOthersIfPolling(c) == c # "zero" /\ Polls /\ ~stopped

(* A rank that did not exit with zero makes the command stop the others;   *)
(* the benchmark does not.                                                 *)
StopsOthers(c) == c # "zero" /\ (request.mode = "tensor" \/ (Polls /\ ~stopped))

(* Rank r's docker wait has said c.  The benchmark waits for its ranks one *)
(* after the other; launch keeps only the code.                            *)
ExitReported(r, c) ==
  /\ collecting /\ code[r] = "none"
  /\ request.mode = "bench" => \A q \in Ranks : q < r => code[q] # "none"
  /\ code' = [code EXCEPT ![r] = c]
  /\ failed' = (failed \/ (request.mode = "bench" /\ c # "zero")
                   \/ (Threaded /\ StopsOthers(c)))
  /\ IF StopsOthers(c)
       THEN (\E survivors \in SUBSET Ranks : StopContainers(survivors)) /\ stopped' = TRUE
       ELSE UNCHANGED <<container, ignored, stopped>>
  /\ UNCHANGED <<planning, pc, outcome, network, listed, out, interrupted, collecting, dashboard,
                 taken, sequences, got, ended>>

WaitReturns(r) ==
  /\ container[r] \in Exited
  /\ ExitReported(r, IF container[r] = "success" THEN "zero" ELSE "nonzero")
  /\ UNCHANGED trouble

(* docker wait prints no number: minus one. *)
WaitGarbled(r) == ExitReported(r, "nonzero") /\ trouble' = TRUE

(* docker cannot be executed; launch and bench return the error. *)
WaitFails ==
  /\ collecting /\ ~Threaded
  /\ Abandon
  /\ UNCHANGED <<planning, docker, interrupted, collected, ignored>>

-----------------------------------------------------------------------------
(* The end of the wait, the report, and the end of the command. *)

(* Seeded fault: the collector is done when all containers have exited. *)
AllReceivedEarly == \A r \in Ranks : code[r] # "none"

AllReceived == (\A r \in Ranks : code[r] # "none") /\ (Threaded => ended = Ranks)

(* An interrupt is an error of launch, and a failure that pipeline reports; *)
(* pipeline misses the reports that are not there.                          *)
CollectorEnds ==
  /\ collecting /\ AllReceived
  /\ collecting' = FALSE
  /\ failed' = (failed \/ (Polls /\ interrupted) \/ (request.mode = "pipeline" /\ got # Ranks))
  /\ UNCHANGED <<planning, pc, outcome, docker, interrupted, dashboard,
                 taken, sequences, got, code, ended, stopped, trouble, ignored>>

(* What launch and bench find in docker logs. *)
LoggedReport(r) == \E i \in DOMAIN out[r] : out[r][i].kind = "result"

(* Seeded fault: the report alone decides. *)
VerdictFromReports ==
  ~failed /\ \A r \in Ranks : IF Threaded THEN r \in got ELSE LoggedReport(r)

Verdict ==
  /\ ~failed
  /\ \A r \in Ranks : code[r] = "zero"
  /\ \A r \in Ranks : IF Threaded THEN r \in got ELSE LoggedReport(r)

(* The collector is joined and the report is made. *)
Report ==
  /\ pc = "wait" /\ ~collecting /\ ~dashboard
  /\ pc' = "drop"
  /\ outcome' = IF Verdict THEN "ok" ELSE "error"
  /\ UNCHANGED <<planning, docker, interrupted, collecting, dashboard, collected, trouble, ignored>>

(* docker logs cannot be executed, or the report cannot be written. *)
ReportFails ==
  /\ pc = "wait" /\ ~collecting /\ ~dashboard
  /\ Abandon
  /\ UNCHANGED <<planning, docker, interrupted, collected, ignored>>

(* Seeded fault: what was kept is left running. *)
DropWithoutStopping ==
  /\ pc = "drop"
  /\ IF request.keep
       THEN UNCHANGED <<container, listed, network, ignored>>
       ELSE \E survivors \in SUBSET Ranks : Cleanup(survivors)
  /\ pc' = "ended"
  /\ UNCHANGED <<planning, outcome, out, interrupted, collecting, dashboard, collected, trouble>>

(* cleanup() and Drop for DockerResources: after cleanup() nothing is left *)
(* to drop.                                                                *)
Drop ==
  /\ pc = "drop"
  /\ IF request.keep
       THEN \E survivors \in SUBSET Ranks : StopContainers(survivors) /\ UNCHANGED <<listed, network>>
       ELSE \E survivors \in SUBSET Ranks : Cleanup(survivors)
  /\ pc' = "ended"
  /\ UNCHANGED <<planning, outcome, out, interrupted, collecting, dashboard, collected, trouble>>

-----------------------------------------------------------------------------

Host ==
  \/ AssignStage \/ PlanAccepted \/ PlanRefused \/ CreateNetwork
  \/ StartContainer \/ AllStarted
  \/ Poll \/ DashboardFinished
  \/ \E r \in Ranks : TakeLine(r) \/ StreamEnds(r) \/ WaitReturns(r)
  \/ CollectorEnds \/ Report \/ Drop

Faults ==
  \/ PreparationFails \/ StartFails \/ WaitFails \/ DashboardFails \/ ReportFails
  \/ \E r \in Ranks : StreamBreaks(r) \/ WaitGarbled(r)

User == Interrupt \/ DashboardDisabled \/ DashboardInterrupted

Rank(r) ==
  \/ RankPublishes(r) \/ RankReports(r) \/ RankReportsWrong(r)
  \/ RankSucceeds(r) \/ RankFails(r)

(* The command returns and the process ends: what it left stays. *)
Next == pc # "ended" /\ (Host \/ Faults \/ User \/ \E r \in Ranks : Rank(r))

(* The launcher goes on with what it can do.  Nothing makes a rank go on   *)
(* or end: a rank may compute for ever.                                    *)
Spec == Init /\ [][Next]_vars /\ WF_vars(pc # "ended" /\ Host)

-----------------------------------------------------------------------------
(* Properties. *)

(* A command succeeds only when every rank has written its report and      *)
(* exited with zero, and not when it was interrupted while it polled.      *)
SuccessIsEarned ==
  pc = "drop" /\ outcome = "ok" =>
    /\ \A r \in Ranks : container[r] = "success" /\ LoggedReport(r)
    /\ ~(Polls /\ interrupted)

(* A command that started its ranks fails only for a reason: a rank failed *)
(* or reported a wrong result, the user interrupted it, or something the   *)
(* launcher itself relies on broke.  Reports that are late, lines that     *)
(* arrive in any order between ranks and the stopping of the others do not *)
(* turn a good run into a failure.                                         *)
FailureHasCause ==
  pc = "drop" /\ outcome = "error" =>
    \/ trouble
    \/ Polls /\ interrupted
    \/ \E r \in Ranks : container[r] = "failure" \/ (Reported(r) /\ ~LoggedReport(r))

(* When the command returns, its containers and its network are gone, or,  *)
(* with --keep-containers, stopped, whichever way it returned, unless a    *)
(* docker kill or rm failed.  Only the container of a docker run that      *)
(* failed may be left, and then the network with it.                       *)
NothingLeftBehind ==
  LET left == {r \in Ranks : IF request.keep THEN container[r] = "running"
                                             ELSE container[r] # "absent"}
  IN pc = "ended" /\ ~ignored =>
       /\ Cardinality(left) <= 1
       /\ left # {} => outcome = "error" /\ trouble /\ \A r \in Ranks : code[r] = "none"
       /\ network => request.keep \/ left # {}

(* The stages of a pipeline are not empty, follow each other from the      *)
(* first layer to the last, and differ by at most one layer.               *)
StagesCoverModel ==
  pc = "network" /\ request.mode = "pipeline" =>
    /\ stages[1].start = 0 /\ stages[WorldSize].end = request.model.layers
    /\ \A i \in 1 .. WorldSize - 1 : stages[i].end = stages[i + 1].start
    /\ \A i, j \in 1 .. WorldSize :
         /\ stages[i].start < stages[i].end
         /\ stages[i].end - stages[i].start <= stages[j].end - stages[j].start + 1

(* The containers together get no more than the engine has. *)
SharesFit ==
  pc = "network" => /\ WorldSize * Shares.cpus <= Engine.cpus
                    /\ WorldSize * Shares.memory <= Engine.memory

(* The first n parts together, and the parameters of each stage. *)
Total(part, n) ==
  LET sum[i \in 0 .. n] == IF i = 0 THEN 0 ELSE sum[i - 1] + part[i]
  IN sum[n]
StageSizes == [i \in DOMAIN stages |-> StageParameters(request.model, WorldSize, stages[i])]

(* The plan that is carried out covers the model and fits the machine.  By *)
(* the formulas of partition.rs the stages hold the parameters that        *)
(* memory.rs counts, and the second copy of a tied embedding; by those of  *)
(* parallel.rs the shards hold them, and further copies of the norms.      *)
PlanCoversModel ==
  /\ StagesCoverModel
  /\ SharesFit
  /\ pc = "network" /\ request.mode = "pipeline" =>
       Total(StageSizes, WorldSize)
         = ModelParameters(request.model) + (IF request.model.tied THEN Embedding(request.model) ELSE 0)
  /\ pc = "network" /\ request.mode = "tensor" =>
       /\ Architectural(request.model) = ModelParameters(request.model)
       /\ WorldSize * LocalParameters(request.model, WorldSize)
            = ModelParameters(request.model) + (WorldSize - 1) * Replicated(request.model)

(* A run in which a rank fails, or that is interrupted while it polls,     *)
(* comes to an end although no rank has to end by itself, provided docker  *)
(* kill works.  The benchmark is exempt: it waits for every rank.          *)
LaunchEnds ==
  pc = "wait" /\ collecting
    /\ \/ request.mode # "bench" /\ \E r \in Ranks : container[r] = "failure"
       \/ Polls /\ interrupted
    ~> pc = "ended" \/ ignored

(* docs/events-and-tui.md: Ctrl-C returns an interrupt request to the      *)
(* launcher, which stops the containers of the run.  So no run that is     *)
(* interrupted while it waits for its ranks goes on to succeed.            *)
InterruptHeeded == pc = "drop" /\ interrupted => outcome = "error"
=============================================================================
