# A verification of distributed-llm-inference-rs in TLA+

The repository runs a Llama model over several ranks: worker threads of one
process, or one process per container.  Ranks exchange tensors and control
packets over a transport, meet at barriers, and generate text together, stage
by stage (pipeline parallelism) or shard by shard (tensor parallelism).  This
directory models the parts whose correctness depends on the order of events,
on deadlines and on failures, checks them with TLC on small worlds, and proves
the central facts with TLAPS for worlds of every size.

## The system and its parts

| Part | State | Operations | What is hard | What makes it correct |
|---|---|---|---|---|
| Rank identity (`rank.rs`) | rank, world size | `new`, `validate_peer` | nothing | ranks are `0..WorldSize-1`, a peer is another rank |
| In-memory barrier (`in_memory.rs`) | generation, arrived, broken under a mutex; a condition variable | `wait` | deadlines racing the last arrival, reuse while ranks still wake, overflow | nobody passes before all arrived; a generation succeeds for all or none; no lost wakeup; every call returns |
| In-memory transport (`in_memory.rs`) | a channel per directed pair, a queue of retained frames per endpoint | `send`, `recv`, `send_control`, `recv_control`, dropping an endpoint | receives on several tags, timeouts with frames retained, a peer that ended | per link, kind and tag: once each, in order, none lost while the reader lives |
| TCP transport (`tcp.rs`) | a reader, a writer and retained frames per peer, a barrier generation | the same, and `barrier` coordinated by rank 0 over the same streams | mid-frame deadlines, torn writes, retried barriers, partial release, crashes | as the in-memory transport as long as no stream failed; nobody leaves a barrier early |
| Rendezvous and mesh (`tcp.rs`) | registrations and clients of the server, accepted and dialled streams | `connect` | partial failure, an accept thread beside the dials | all or none learn the peers; one stream per pair |
| World runner (`collectives/runner.rs`) | handles, first error | `run_in_memory` | which error is reported | all workers are joined; the error is one that a worker met |
| Collectives (`collective.rs`) | sequence number, chunks | broadcast, reduce, all-reduce, all-gather, reduce-scatter, all-to-all | ring indices, finite buffers, calls that fail on one rank, tag limits | every rank gets the defined result; ranks do not block each other; no two collectives share a tag |
| Generation (`generation.rs`, `cache.rs`) | prompt, generated tokens, KV cache | `generate` | limits at the boundary | the model sees each token once; exact stop reasons; the cache never overflows |
| Pipeline runner (`pipeline/runner.rs`) | step, stage cache, decision per rank | `run_pipeline_rank` | stages wait on each other; failures in any call; control frames beside barriers | equivalent to generation in one process; success is shared; every rank ends |
| Tensor-parallel runner (`tensor/runner.rs`) | step, shards, decision per rank | `run_tensor_parallel_rank` | as the pipeline, with a collective per block | equivalent to generation in one process |
| Planning (`partition.rs`, `memory.rs`, `parallel.rs`, `plan.rs`) | none, pure | partitions, shards, byte plans | remainders, overflow | complete, disjoint, within budget |
| Launcher (`cli/launch.rs`, `cli/pipeline.rs`, `cli/tensor.rs`, `cli/benchmark.rs`) | containers, network, run directory, interrupt flag, what the collector has received | `run_launch`, `run_pipeline`, `run_tensor`, `run_collective_benchmark` | one container failing, messages of several threads, interrupts, cleanup | what was created is removed; success only if every rank succeeded, failure only for a cause; a failing run ends |
| TUI (`tui`) | a reduced view of the event stream | `run_dashboard`, reducer, rendering | it may return before, after or instead of the collector | its exits are modelled with the launcher |
| Model arithmetic, artifacts, prompts, command line | | | no order or failure of their own | not modelled |

How they meet: the pipeline and tensor runners call a `Communicator`, which
calls one of the two transports; both transports implement the traits
`Transport`, `ControlTransport` and `BarrierTransport`.  The launcher writes
a manifest, starts the ranks and reads their reports.  Ranks share nothing
else.

## Modules

| Module | Models | Notes |
|---|---|---|
| `Ranks` | `rank.rs` | `WorldSize`, `Ranks`, `Peers` |
| `Barrier` | the `BarrierTransport` trait | abstract: a rank passes when every other rank has passed or has entered its generation |
| `InMemoryBarrier` | `InMemoryBarrier::wait` | one action per critical section of the mutex |
| `PointToPoint` | the `Transport` and `ControlTransport` traits | abstract: per link a set of frames, each returned at most once and in order of its stream; a failed link may lose frames, and may return one in part made up of other bytes |
| `InMemoryTransport` | `InMemoryTransport`, and the end of a worker in `run_in_memory` | a send, a receive answered from retained frames, one turn of the receive loop |
| `InMemoryWorld` | `create_in_memory_world`, `barrier()` | composes the two modules above: a worker is in one blocking call at a time, and a worker that has ended arrives nowhere |
| `TcpTransport` | `TcpTransport` after `connect` | the streams, the barrier over them, failures |
| `Rendezvous` | `connect`: server, registration, full mesh | a deployment (rank, run and address of each process) is chosen at the start |
| `Generation` | `generate`, `LayerKvCache::append` | abstract for the distributed runners |
| `Pipeline` | `run_pipeline_rank` and the manifest of `run_pipeline` | over the abstract transport and barrier; refines `Generation` |
| `Collectives` | `NativeCollectives`, and the join loop of `run_in_memory` | operations as scripts of sends, receives and exchanges over links of finite room |
| `TensorParallel` | `run_tensor_parallel_rank`, `TensorParallelLlama` | over abstract collectives and barrier; refines `Generation` |
| `Planning` | `plan_resources`, `PipelinePartition`, `StageMemoryPlan`, `plan_tensor_shard`, the counts of `memory.rs` | pure operators |
| `Launcher` | the four commands that run ranks in Docker | extends `Planning`; the containers' processes are the ranks of the other modules |
| `Tags` | `collective_tag`, `step_tag` | tags as numbers: the other modules use the record a tag stands for |
| `SharedLemmas` | | the theorems about `Tags`, lemmas about queues and texts for several proofs, the least-number principle |
| `InMemoryProofs`, `TcpTransportProofs`, `RendezvousProofs`, `WorkloadProofs` (generation and collectives), `PipelineProofs`, `TensorParallelProofs`, `LauncherProofs` | | theorems, see below |
| `MC*` | | constants and constraints for TLC |

Refinements (each is an `INSTANCE ... WITH` and a property of a run):

    InMemoryBarrier   -> Barrier        (ImplementsBarrier)        checked, proved
    TcpTransport      -> Barrier        (ImplementsBarrier)        checked, proved
    InMemoryTransport -> PointToPoint   (ImplementsPointToPoint)   checked, proved
    TcpTransport      -> PointToPoint   (ImplementsPointToPoint)   checked, proved
    Pipeline          -> Generation     (ImplementsGeneration)     checked, proved
    TensorParallel    -> Generation     (ImplementsGeneration)     checked, proved

### How the models correspond to the code

*InMemoryBarrier.*  `generation`, `arrived`, `broken` are `BarrierState`;
`waiting` and `signalled` are the condition variable; `mine[r]` is the local
`generation` of the call.  `wait_timeout` may return for a notification, a
spurious wakeup or the deadline; a spurious wakeup changes nothing and is a
stuttering step.  The check at the head of the loop and `timed_out()` are one
action, `WakeTimedOut`: both run under the mutex after the other two checks, or
right after the arrival.  `passed` and `entered` are history variables.

*InMemoryTransport.*  A frame has a stream (kind and tag) and an id that stands
for its payload; the code never looks at the id.  `recv` and `recv_control` have
the same shape and are one set of actions over streams.  Each endpoint makes
one receive at a time, as every caller does; sends may happen beside it
(`NativeCollectives::exchange` sends from a scoped thread).  `log` and `got`
are history.

*TcpTransport.*  Bytes are abstracted to frames, whole or cut short, and to
whether the reader is at the beginning of a frame or in the middle of one
(`torn[l]`).  A write deadline in a body too large for the `BufWriter` leaves
the length prefix and a part of the body (`SendTorn`, a `Fragment`).  Its reader
is in step and waits for the length that was promised; if the endpoint sends
again, the missing bytes are taken from the next frames and the mixture is
accepted as the frame that failed, after which the reader may be in mid-frame
or, by coincidence of lengths, at a boundary (`ReadHead`, `ReadOn`).  A deadline
in the middle of a read leaves the reader in mid-frame (`TimeoutMidFrame`); a
read that starts there fails and may end anywhere, at a boundary too
(`ReadGarbage`).  That a read which starts in mid-frame decodes as a whole valid
frame by chance is excluded: the eight length bytes, the frame header and the
source and destination checks of `read_from` would all have to agree.  A cut
barrier frame, a few bytes long, does not decode as one and is to its reader
like a fragment of a packet.
A flush that fails leaves the frame in the `BufWriter` to go ahead of the next
one; the frame counts as written.  `dropped`, `damaged`, `log`, `got` and
`entered` are history.

*Rendezvous.*  A process is `connect` running somewhere, with the rank, run and
advertised address it was given; an address is represented by the process that
listens there.  `run` stands for protocol version, run id and world size, which
are compared in one breath.  The server and the accept threads are actions of
their own: both outlive a `connect` that fails before joining them, and so they
do in the model.  An error response and a closed stream have the same effect on
the reader and are one value.

*Generation.*  A KV cache is the sequence of tokens whose keys and values it
holds; what the model selects is any token.  Refusals before the loop (empty
prompt, prompt too long, placement) restrict `Jobs`; a request refused for
its memory plan never starts.

*Pipeline.*  `pc[r]` is where rank `r` is in `run_pipeline_rank`.  A hidden
state is represented by the tokens it was computed from.  Tags contain kind
and step and no rank sends two frames of the same tag to one peer, so the
messages on their way are a set; `net` and the barrier variables are the
abstract transport and barrier.  `Crash` stands for every error of a rank that
is not a blocked call (a failed send, a tokenizer error, out of memory, a
killed container), `TimeOut` for a receive or barrier that gives up.

*Collectives.*  A tensor is cut into one chunk per rank, and a chunk is the bag
of the contributions summed in it, so that a contribution counted twice, lost,
or taken from another call shows.  A frame carries a tag, a shape and chunks
without names: where they go is decided by the receiver, as in the code.  An
operation is the list of its steps (`Script`), a step is a send, a receive, or
an `exchange`, whose send runs beside its receive.  `room` is how many unread
frames a link holds: a send returns when no more than that many are waiting.
With `room = 0` a send waits for its reader, as with a payload larger than the
socket buffers.  `begin` refuses a tensor that is not an `f32` on the CPU before
it takes a sequence number, and everything else after it (`Begin`).  One rank may be
given a tensor of the wrong type, a bad root, a bad axis, a tensor that differs
off the axis or one that does not divide (`flaw`).  The callers in the
repository return on the first error; the model also lets a rank go on with
the next call, because the tags are there for that.  A rank that goes on after
a refusal that took no number is one number behind for ever, and what its
calls exchange is no longer told apart (see Findings): `InStep` says that this
has not happened, and `ResultsCorrect` and `NeverStuck` speak of the states in
which it holds.  `SendFails` ends the rank: a write that gave up has left a
part of its frame, which a further frame would complete (`TcpTransport`).

*TensorParallel.*  A forward is the list of its collectives: the all-reduce of
the embeddings, two all-reduces per layer, the gathering of the logits.  What a
rank posts says which tokens at which position it computed, and which of the
tokens it embeds from its part of the vocabulary.  A collective returns to a
rank when all have posted as many; `ResultsCorrect` and `NeverStuck` of
`Collectives` are what justifies this: a rank of the runner returns on the first
error, so that the ranks are in step.  KV caches are per layer.

*Planning, Launcher.*  Stages are assigned one per action, as the loop of
`balanced` does.  A model whose heads do not divide is refused, as `head_dim()`
does (`HeadsAccepted`).  Numbers are exact; where the code multiplies with
`checked_mul`, an overflow is a refusal.  Docker is external, with these
assumptions: a `docker network create` that fails leaves no network; a `docker
run` that fails may leave a container, which the launcher does not know of;
`docker kill` and `docker rm` may fail, and the code ignores it, which the
history variable `ignored` records; a network with a running container cannot
be removed.  The threads that follow a container send their messages in order,
and the collector takes the next message of any thread.  A rank is its output
(events with sequence numbers, the report, a line cut off) and its exit; it may
run for ever.  `trouble` is a history variable: something failed that is
neither a rank nor the user.  The four commands differ in what they do with an
exit code and whether they poll the interrupt flag, and these differences are
kept (`Polls`, `StopsOthers`).

## Runs

| Run | World | Bounds | Shows |
|---|---|---|---|
| `in_memory_world` | 3 workers | generations up to 3; or 3 frames per link between two of them, a tensor and a control stream; workers end anywhere | both refinements, `AllOrNothing`, `NoLostWakeup`, `EveryCallReturns`, `GaplessFifo`, `BlockedMeansAbsent`, `DisconnectIsFinal` |
| `tcp_transport` | 3 ranks | 2 generations with 2 frames per link; or one generation with 3 frames from one rank to another | refinements to `PointToPoint` and to `Barrier` |
| `tcp_control` | 2 ranks | 2 frames per link | a violation: see Findings |
| `tcp_truncated` | 2 ranks | 2 frames per link | a violation: see Findings |
| `generation` | | context of 5, up to 5 tokens requested, prompts of 1 to 3 | exact limits, cache, termination |
| `pipeline` | 3 stages | context of 4, up to 4 tokens, failures anywhere | refinement to `Generation`, shared success, no control frame ahead of a barrier, every rank ends, nobody waits on each other, nothing left over |
| `collectives` | 3 ranks | links that hold 0 or 1 frame, two calls of every operation, three when the tags run out, one bad argument | while ranks are in step, results made of every contribution to the call once and no blocking on each other; always, `run_in_memory` returns |
| `collectives_stale` | 2 ranks | two broadcasts, a tensor of the wrong type | a violation: see Findings |
| `tensor_parallel` | 3 ranks | 2 layers, 3 words, context of 4, up to 3 tokens, failures anywhere | shards of one computation combined, refinement to `Generation`, shared success, no refused forward or decision, nobody waits on each other, every rank ends |
| `launcher` | 2 ranks | 14 requests, 7 of them refused, one event per rank before the last sample, failures of every command | success earned, failure with a cause, nothing left behind, the plan covers the model and fits, a failing run ends |
| `launcher_interrupt` | 2 ranks | a tensor run with the dashboard | a violation: see Findings |
| `rendezvous` | 3 ranks, a fourth process | right, exchanged, duplicate and foreign addresses; a duplicate rank or a process of another run | no partial topology, streams pair up, never stuck, `connect` returns and its threads end |

Why the bounds are enough.  Barriers: three ranks are the first world in which
one rank can have passed while two differ, and the third generation reuses the
state twice; retries need two frames per link, one of each attempt.  Streams:
three frames are the least that distinguish an old, a retained and a fresh
frame of one stream with one of another stream between them.  In
`in_memory_world` and `tcp_transport` a behaviour explores the barrier or the
streams in depth, not both (`Meeting`, `Exchanging`, `Sending` in the `MC`
modules, which restrict the next-state relation): three ranks are needed for
the one, three frames for the other.  In the second part of `tcp_transport` the
traffic goes one way because the two directions of a pair meet only in the
barrier, and that barrier can be completed, since rank 2 is waiting in it.
Generation and pipeline: the prompts and requests fall below, on and above what
the context leaves, and three stages are the first world with a middle stage,
one that neither feeds nor selects tokens.  Rendezvous: three ranks are the
first world with one that both dials and accepts, and one more process is
enough for each wrong deployment.  Collectives: three ranks are the first ring
in which previous, own and next differ, and a second call meets every frame the
first can leave behind; calls of one kind follow each other because the kind is
part of the tag, and the two all-reduce algorithms follow each other because
they share a kind.  `LastSequence` is 1 where the code allows 2^44 sequences,
so that the third call finds no tag left.  Tensor parallelism: three ranks with
one word each, so that each token is another rank's; two layers, so that caches
of different length meet.  Launcher: two ranks are enough for one to fail while
the other works, and all messages of a rank are interleaved with those of the
other; the requests include every reason for a refusal.  The partition is
proved for every world size.

No run checks for deadlock in the sense of TLC, because in all of them the
system comes to an end: workers stop, processes crash, generation finishes,
bounds are reached.  Waiting for ever is what `NeverStuck` and the liveness
properties are about.

Fairness.  `InMemoryBarrier`: weak fairness of waking, because `wait_timeout`
returns by its deadline.  `Generation`: weak fairness of the loop of one
thread.  `Pipeline`, `TensorParallel` and `Collectives`: for each rank, weak
fairness of its progress, because a rank that is not blocked runs on, and weak
fairness of giving up where its call cannot return (`Blocked`), because every
such call has a deadline; no fairness is asked of a crash.  `Rendezvous`: the
same for the server, each `connect` and each accept thread, with `ServerReady`,
`ConnectReady` and `AcceptReady` for what they wait for; and the runner of
`Collectives` joins its threads.  `Launcher`: weak fairness of the host, which
is never blocked while one of its steps is possible, and none of ranks, faults
or user, since a rank may compute for ever.

Whether the protocols themselves can get stuck, which a time-out would hide, is
asked by the `NeverStuck` invariants: as long as nothing has failed, some rank
that has not ended is not `Blocked`, some thread of the rendezvous is ready.
`Blocked` is written from the conditions on which the calls return, in place of
`ENABLED`, so that it can be reasoned about.  That it leaves out no reason for
waiting is what the liveness properties show: only a `Blocked` rank is granted
its time-out, so a rank that is not `Blocked` and yet cannot go on would never
end.  (Were a rank called `Blocked` although it can go on, `NeverStuck` would
only say more.)

`TypeOK` is a property of a run only in `Rendezvous`, where it also says that
a rank never dials itself; elsewhere it is left to the proofs.
`TokenSeesWholeContext` of `Pipeline` includes that no stage's cache exceeds
its capacity.

Seeded faults.  Each checked property comes with a fault, an operator named
after it just before the definition it replaces, under which TLC finds the
property violated.  They document what each property is able to notice.

## Theorems

All are proved for every value of the constants, under the named assumptions
of the modules: `WorldSize` a positive natural number, the bounds natural
numbers, `Eos` in `Vocab`, prompts sequences over `Vocab`; for the runners at
least two ranks (`PipelinePartition::balanced` and the tensor plan refuse
fewer); for `Collectives` 2 to 257 ranks (`create_in_memory_world`, the field
of a tag for the step) and programs that are non-empty sequences of the seven
operations with a root that is a rank; for `Launcher` model sizes that are
natural numbers, with at least one attention head (`head_dim()` divides by
it); for `Rendezvous` a finite set of processes, which include the ranks and
of which exactly process 0 is given rank 0, because it runs the server, and the
value for "no process" not being one.

*InMemoryProofs*, on the barrier: `BarrierTypeCorrect`, `InMemoryImplementsBarrier`,
`GenerationAllOrNothing`, `WakeupsReachWaiters`.  The inductive invariant adds
three facts: a rank that is not waiting has passed exactly the generations
that were opened, failed calls or not (`IdleCurrent`); a waiting rank waits for the current
generation or the one just opened (`WaitingRecent`); and every arrival that was
counted is backed by a rank that entered (`CountBacked`).  The last is what the
counter alone does not say and what the last arrival needs in order to pass.

*InMemoryProofs*, on the transport, with the lemmas of `SharedLemmas` on
removing an element from a sequence and on heads and tails:
`TransportTypeCorrect`, `NeverBlockedOnRetained`,
`InMemoryImplementsPointToPoint`, `DeliveryIsGapless`,
`DisconnectLosesNothing`, and for a world that uses both `WorldImplementsBoth`.
The inductive invariant says that a channel and,
for each source, the retained queue are sorted by id, that retained frames are
older than those in the channel, and that every frame sent is returned,
retained, in the channel, or lost with its reader (`Accounted`).  Order across
the two queues is what makes searching the retained frames first correct.

*TcpTransportProofs*, on the barrier: `TypeCorrect`, `TcpImplementsBarrier`.
The argument: "rank
p has arrived at generation g", that is, p has passed g or has entered it, is
stable.  Every arrive frame in flight or retained was written by a rank that
arrived at its generation, every release frame by rank 0 when all had arrived
(`FramesBacked`); a gathering rank 0 knows this of the peers before the
current one (`GatherKnows`), a releasing one of all (`ReleaseKnows`).  Frames
of abandoned attempts are harmless because what they say is still true.

*TcpTransportProofs*, on the streams: `TcpImplementsPointToPoint`, `TcpDelivery`.  The frames
a receive can still return are the retained and the unread ones of its link.
`QueueInv` says that both queues are sorted by id, that the retained frames are
older than the unread ones and that no id is newer than the last one given out
(`Ordered`); that a link is damaged when its reader is in mid-frame or a fragment
is on it (`LinkInv`); and
that a receive which reads from the link has found nothing of its stream among
the retained frames (`Searched`).  A receive therefore returns the oldest frame
of its stream, retained or read.  Frames are lost only when a failing `barrier()`
consumes them, when a deadline cuts a read or a write short, and when a process
or a connection ends: the mapping calls exactly these links severed.  `TcpDelivery` spells
out what a caller may rely on: at most once, in the order of the stream, nothing
lost on a link that is not severed, and a completed fragment only on one that is.

*WorkloadProofs*, on generation: `GenerationTypeCorrect`, `CacheFollowsText`,
`CacheNeverOverflows`, `StopReasonsExact`.  The invariant relates the stop
reason to the number of generated tokens (`LimitInv`); capacity follows from it
and from the cache being a prefix of the text.

*WorkloadProofs*, on the collectives: `ResultsAreCorrect`,
`CollectivesNeverStuck`, for all seven operations, in any sequence, over links
of any room, as long as the ranks are in step.  A rank that has taken fewer
numbers than it has begun calls never makes up for it (`SequenceInv`), so
`InStep` once false stays false, and the invariants below are proved under it.
For the results, `Held` says in closed form which contributions
each chunk of a rank is the sum of before each step of each script, the ring
included; that every step of every script turns what is held before it into
what is held after it, and that the result is held after the last, is `AllWork`.
A frame on a link was made by some call and step of its sender and carries what
was held there (`LinkInv`).  A tag determines the call and the step of the
sender, so a frame that has the tag a rank asks for is the one of the matching
step of the same call (`IncomingInv`), however many calls failed on this or on
another rank and left frames behind.

For the second theorem the steps of a call are put in an order, `Time`, in which
the steps of each rank are increasing and a step has the same place as the step
of the peer that receives what it sends or sends what it receives
(`AllMatched`, one lemma per operation).  `FlowInv` says of each link that no
tag is on it twice, that what is on it was put there, that the latest frame is
the last one, and of a step and its partner: what was sent and has not been
taken is on the link; what was taken was sent; and the link is empty when the
sender's current frame has been taken.  The last is what a send waits for.  Of the
ranks in the slowest call, take one whose step has the least place.  Its partner
is in that step or past it, so if it waits for a frame, the frame is there, and
if it waits for a reader, the reader has read or is about to.

*RendezvousProofs*: `RendezvousTypeOK`, `NoPartialWorld`, `StreamsPaired`,
`RendezvousNeverStuck`, for every set of processes and every deployment.  The argument: the server writes
an entry of the table only when it is empty, so the table is frozen once it is
full, and nobody is told of it before (`TableInv`).  Whoever dials or accepts
has the table and is in it (`JoinInv`), so all of them read the same one.  A
connection that waits in a listen queue is the one its dialler waits for
(`BacklogInv`), hence is in one queue only; an answered handshake came from the
registered process of the rank that was dialled (`ReplyInv`), because the
acceptor compares the destination with its own rank.  So streams lead to
registered processes that have started their mesh (`PeerInv`), and the loops
leave no gaps (`LoopInv`): the accept loop counts connections, and as many as
there are lower ranks can only be one of each (`EnoughIsAll`).  That nobody waits
for ever needs to know what each waits for: the server has everyone who
registered and answers in rank order (`ServerInv`); who waits for a handshake is
in the queue of a process that listens (`ListenInv`); the accepting end of a
stream exists before the dialling end, and none without a dial (`StreamInv`).
Then whoever waits for a handshake waits for an accept thread that has something
to accept, whoever finds a listener closed would already have been accepted
there, and when all have dialled every accept loop has counted enough.

*PipelineProofs*: `PipelineTypeOK`, `PipelineContextWhole`,
`PipelineSuccessShared`, `PipelineControlClear`, `PipelineNothingLeft`,
`PipelineNeverStuck`, `PipelineImplementsGeneration`.  The inductive invariant is stated in rounds:
the round is the step after the last decision to continue.  It says how each
rank stands to the round (`Stand`), that the stages feed their caches in order
(`ChainInv`), whom rank 0 has still to tell (`ToldInv`), and that every message
under way belongs to the round and has not been acted on (`Underway`).  When
the token of a round is under way, every stage is fed and nothing else is under
way.  For the refinement, the forward of the last stage is the forward of
`Generation` and the receipt of the token by rank 0 is its choice; all other
steps stutter.  `PipelineNeverStuck` needs the converse of `Underway`: what a
rank waits for was sent (`SentInv`).  A fed stage's successor is fed or its
activation is under way, the token is under way when all are fed and rank 0
waits for it, and every rank that rank 0 has told is past the decision or has
it under way.  So the first stage that is not fed has its activation, or rank 0
has the token, until rank 0 decides to stop and all obey and meet at the last
barrier.

*TensorParallelProofs*: `TensorShardsFit`, `TensorSuccessShared`,
`TensorNothingRefused`, `TensorNeverStuck`, `TensorImplementsGeneration`.  The inductive invariant
numbers the collectives: how many a rank has contributed to determines which
collective of which forward it is in (`PlaceInv`), what its caches hold layer
by layer (`DataInv`) and what it contributed (`PostedInv`).  Rank 0 selects a
token only when all ranks have contributed to the logits, so each rank stands
before or after the last decision, and that fixes its step, its stop reason and
its tokens (`AgreeInv`).  Since decisions reach whoever was told (`SentInv`), the
rank that has contributed to the fewest collectives is never blocked in one.

*LauncherProofs*: `StagesCorrect`, `AllocationFits`, `PlanCorrect`, for every
model, world size and engine.  The inductive invariant `PlanInv` says that stage i ends
where `Bound` puts it, a closed form of the sum that the loop of `balanced`
accumulates: rank times the quotient plus the smaller of rank and remainder.
`PlanCorrect` is the whole of `PlanCoversModel`: the sum over the stages has a
closed form too, shown through its least counterexample, and the shards of a
tensor plan are exact because a plan with a remainder is refused.
Only actions before the network exists change the stages
(`OnlyPlanningPlans`).  `SuccessEarned`, `FailuresHaveCauses` and
`CleanupComplete`, for every number of ranks, rest on a second invariant,
`LaunchInv`: what exists in each phase of the command (`PhaseInv`, `LeftInv`),
which outputs a rank in a given state can have written (`OutInv`) and how the
collector's counters relate to the lines it took (`TakenInv`).  From these,
everything that can make the verdict an error has a cause (`CauseInv`),
everything that makes it a success is earned (`EarnedInv`), and what is left at
the end was left by docker (`EndInv`).

*SharedLemmas*: `CollectiveTagsDistinct`, `NamespacesDisjoint`.  No field of a
collective tag runs over into the next, given the bounds that `collective_tag`
checks on phase and step, and no two uses of tags share a range.  This is what
allows the other modules to treat tags as records.

Only model-checked: liveness (`EveryCallReturns`, `Terminates`,
`EveryRankEnds`, `EveryConnectReturns`, `RunnerReturns`, `LaunchEnds`), which is
out of the prover's reach.  Every other property of a passing run is a theorem.

## Findings

`docs/pipeline-parallelism.md` says that unmatched frames remain in the pending
queue of their source.  `recv_barrier` retains tensor frames, but a control
frame takes the last arm of its match: it is consumed and the barrier fails
(run `tcp_control`).  It takes a `send_control` to a rank that then calls
`barrier()`, without any overlap on one communicator.  The pipeline runner does
not do this: `ControlClearOfBarrier`, checked in `pipeline` and proved, shows that the
token feedback and decisions around the completion barrier are always received
before the receiver enters it.

`docs/pipeline-parallelism.md` says that truncated frames are rejected.  A write
deadline in a large body leaves the length prefix and the beginning of the
body on the stream.  If the endpoint sends again, the reader completes the
body with the bytes of the next frame; the element count fits, any four bytes
are an `f32`, and `recv` returns a tensor that nobody sent under the tag of the
send that failed (run `tcp_truncated`).  The runners of the repository return on
the first error, and a process that ends leaves a stream that is too short,
which is rejected.

`docs/native-collectives.md` says that stale traffic cannot satisfy a later
call.  `begin` calls `ensure_f32_cpu` before it takes the sequence number, so a
rank refused there and going on gives its next call the tags of the refused
one.  With two broadcasts, the root refused the first, its peer's first call
returns the tensor of the second (run `collectives_stale`).  Every other refusal
uses a number up, as the documentation has it; `ResultsCorrect` shows that for
them, and for deadlines, the sentence is true.

`docs/events-and-tui.md` says of Ctrl-C that it returns an interrupt request to
the launcher, which stops the containers of the run (`docs/getting-started.md`
and the repository's `README.md` say that it requests their cleanup).  The request
sets a flag; the collectors of the topology check and of the pipeline poll it,
that of `run_tensor` does not: an interrupted tensor run goes on until its
ranks are done and may return Ok (run `launcher_interrupt`).
`SuccessIsEarned` and `LaunchEnds` therefore speak of the commands that poll.

## Plan

1. `Ranks`, `Barrier`, `InMemoryBarrier`, proofs (done)
2. `PointToPoint`, `InMemoryTransport`, proofs (done)
3. `TcpTransport`, proofs of the barrier and of its `PointToPoint` refinement
   (done)
4. `Generation`, `Pipeline`, proofs (done)
5. `Rendezvous`: server, registration, mesh with dialling and accepting threads,
   proofs (done)
6. `Tags`: namespaces and injectivity, as theorems (done)
7. `Collectives`: exchange over finite buffers, the ring all-reduce and the
   rooted collectives against their definitions, the world runner, proofs (done)
8. `TensorParallel`: the tensor runner, refining `Generation`, proofs (done)
9. `Planning`: partitions, shards, memory plans, proofs (done)
10. `Launcher`: supervision of containers, interrupts and cleanup, proofs (done)

## Not modelled

- Tensor arithmetic: what the layers compute.  The models say which tokens a
  computation has seen; the token it selects is any token.
- Byte layouts of frames and packets: pure functions that the unit tests cover
  in both directions.  A frame is whole, cut short or absent.
- Downloads, checksums, prompt templates, argument parsing, printing and
  rendering: no order or failure of their own; a failing preparation is an
  action of `Launcher`.
- The reducer of the terminal UI: it keeps what is displayed and decides
  nothing.
- Latency statistics, traces, byte counters and the contents of events and
  reports.
- The `plan` and `inspect` commands beyond the formulas in `Planning`: they
  print a verdict and change nothing.
