---------------------------- MODULE TcpTransport ----------------------------
(***************************************************************************)
(* The TCP endpoints after the mesh is up (crates/collectives/src/tcp.rs): *)
(* one byte stream per directed pair of ranks, carrying tensor, control    *)
(* and barrier frames; one queue of retained frames per peer; receives     *)
(* that match kind and tag; and the barrier, coordinated by rank 0 over    *)
(* the same streams.  Every call has a deadline, so it can fail at any     *)
(* moment; a caller may go on after a failed call.  A process can end at   *)
(* any moment.                                                             *)
(***************************************************************************)
EXTENDS Ranks, SequencesExt

CONSTANTS
  Tags,          \* message tags
  MaxFrames,     \* bound on the frames written to one stream
  MaxGeneration  \* bound on the barrier generations

ASSUME BoundsAssumption == MaxFrames \in Nat /\ MaxGeneration \in Nat

(* What a receive can ask of a peer.  recv_barrier asks for any barrier    *)
(* frame and looks at its kind and generation afterwards.                  *)
AppStreams == {"Tensor", "Control"} \X Tags
BarrierStream == <<"Barrier", 0>>
Streams == AppStreams \union {BarrierStream}

(* WireFrame.  The contents of a barrier frame are its kind and            *)
(* generation; packets are told apart by their id.  A fragment is the      *)
(* length prefix of a packet with less of its body than the prefix says.   *)
Bodies == [arrive : BOOLEAN, generation : -1 .. MaxGeneration]
Packet == [arrive |-> FALSE, generation |-> -1]
Fragment == [arrive |-> TRUE, generation |-> -1]
BarrierArrive(g) == [arrive |-> TRUE, generation |-> g]
BarrierRelease(g) == [arrive |-> FALSE, generation |-> g]
Frame == [stream : Streams, body : Bodies, id : 1 .. MaxFrames]

Links == {l \in Ranks \X Ranks : l[1] # l[2]}  \* <<writer, reader>>

VARIABLES
  chan,        \* chan[l]: frames written to l and not yet read
  pending,     \* pending[l]: frames the reader retained for later calls
  call,        \* call[r]: what r is blocked in
  generation,  \* generation[r]: barrier_generation of r
  alive,       \* alive[r]: the process of r runs
  torn,        \* torn[l]: the reader of l is in the middle of a frame
  sent,        \* sent[l]: number of frames written to l
  log, got,    \* history: frames written to and returned from l
  dropped,     \* history: frames of l that a failing barrier() consumed
  damaged,     \* history: l was torn, reset, or lost its reader
  entered      \* history: r called barrier() for generation[r]

transport == <<chan, pending, sent, log, got, dropped, damaged, torn>>
vars == <<transport, call, generation, alive, entered>>

(* A blocked call: recv waits for a stream of a peer; rank 0 gathers the   *)
(* arrival of peer and then sends the release to peer; other ranks await   *)
(* the release.                                                            *)
Ops == {"none", "recv", "gather", "release", "await"}
Call(op, peer, stream) == [op |-> op, peer |-> peer, stream |-> stream]
NoCall == Call("none", 0, BarrierStream)

Init ==
  /\ chan = [l \in Links |-> <<>>]
  /\ pending = [l \in Links |-> <<>>]
  /\ call = [r \in Ranks |-> NoCall]
  /\ generation = [r \in Ranks |-> 0]
  /\ alive = [r \in Ranks |-> TRUE]
  /\ torn = [l \in Links |-> FALSE]
  /\ sent = [l \in Links |-> 0]
  /\ log = [l \in Links |-> {}]
  /\ got = [l \in Links |-> {}]
  /\ dropped = [l \in Links |-> {}]
  /\ damaged = [l \in Links |-> FALSE]
  /\ entered = [r \in Ranks |-> FALSE]

-----------------------------------------------------------------------------
(* Streams. *)

(* send_frame.  A frame counts as written once it is in the BufWriter: a   *)
(* flush that times out reports an error and leaves the rest there, to be  *)
(* sent ahead of the next frame.  Bytes for a process that has ended go    *)
(* nowhere, whether or not the writer is told.                             *)
Write(l, stream, body) ==
  LET f == [stream |-> stream, body |-> body, id |-> sent[l] + 1]
  IN IF alive[l[2]]
       THEN /\ sent[l] < MaxFrames
            /\ chan' = [chan EXCEPT ![l] = Append(@, f)]
            /\ sent' = [sent EXCEPT ![l] = @ + 1]
            /\ log' = [log EXCEPT ![l] = @ \union {f}]
       ELSE UNCHANGED <<chan, sent, log>>

(* The next frame can be read: the reader is in step with the frame        *)
(* boundaries.                                                             *)
Readable(l) == chan[l] # <<>> /\ ~torn[l]

(* The reader takes bytes from the stream with no regard to the frames     *)
(* they belong to: at the beginning of a frame again it has left at least  *)
(* "whole" frames behind, in the middle of one perhaps one less.           *)
ReadOn(l, whole) ==
  \E n \in 0 .. Len(chan[l]) :
    /\ chan' = [chan EXCEPT ![l] = SubSeq(@, n + 1, Len(@))]
    /\ \/ n >= whole /\ torn' = [torn EXCEPT ![l] = FALSE]
       \/ n >= whole - 1 /\ n < Len(chan[l]) /\ torn' = [torn EXCEPT ![l] = TRUE]

(* read_wire takes as many bytes as the length prefix says and decode_wire *)
(* makes the frame of them.  Those that a fragment lacks are taken from    *)
(* what was written after it: the header in the fragment still fits the    *)
(* length, and any bits are an f32 or a payload byte.                      *)
ReadHead(l) ==
  \/ /\ Head(chan[l]).body # Fragment
     /\ chan' = [chan EXCEPT ![l] = Tail(@)]
     /\ UNCHANGED torn
  \/ Head(chan[l]).body = Fragment /\ ReadOn(l, 2)

(* Seeded fault: a frame that nobody asked for is thrown away. *)
RetainNothing(l) == UNCHANGED pending

Retain(l) == pending' = [pending EXCEPT ![l] = Append(@, Head(chan[l]))]

Return(l, f) == got' = [got EXCEPT ![l] = @ \union {f}]

EndCall(r) == call' = [call EXCEPT ![r] = NoCall]

Retains(l, stream) == \E k \in 1 .. Len(pending[l]) : pending[l][k].stream = stream

(* f, the first retained frame of a stream, leaves the queue               *)
(* (take_pending_tensor, take_pending_control, recv_barrier).              *)
TakePending(l, stream, f) ==
  \E k \in 1 .. Len(pending[l]) :
    /\ f = pending[l][k]
    /\ f.stream = stream
    /\ \A j \in 1 .. k - 1 : pending[l][j].stream # stream
    /\ pending' = [pending EXCEPT ![l] = RemoveAt(@, k)]

(* The frames that the reader of l can still meet. *)
Undelivered(l) == ToSet(pending[l]) \union ToSet(chan[l])

-----------------------------------------------------------------------------
(* send, send_control, recv, recv_control. *)

Send(r, d, stream) ==
  /\ alive[r]
  /\ Write(<<r, d>>, stream, Packet)
  /\ UNCHANGED <<pending, got, dropped, damaged, torn, call, generation, alive, entered>>

(* The write deadline passes with only a beginning of the frame handed     *)
(* over: its body is too large for the BufWriter, or the rest of an        *)
(* earlier frame is in the way.  What is there stays, and the next frame   *)
(* follows it.  A torn barrier frame, which never decodes, is one of these *)
(* fragments to its reader.                                                *)
SendTorn(r, d, stream) ==
  /\ alive[r]
  /\ Write(<<r, d>>, stream, Fragment)
  /\ damaged' = [damaged EXCEPT ![<<r, d>>] = TRUE]
  /\ UNCHANGED <<pending, got, dropped, torn, call, generation, alive, entered>>

RecvPending(r, s, stream) ==
  LET l == <<s, r>>
  IN /\ alive[r] /\ call[r] = NoCall
     /\ \E f \in Undelivered(l) : TakePending(l, stream, f) /\ Return(l, f)
     /\ UNCHANGED <<chan, sent, log, dropped, damaged, torn, call, generation, alive, entered>>

RecvWait(r, s, stream) ==
  /\ alive[r] /\ call[r] = NoCall
  /\ ~Retains(<<s, r>>, stream)
  /\ call' = [call EXCEPT ![r] = Call("recv", s, stream)]
  /\ UNCHANGED <<transport, generation, alive, entered>>

RecvMatch(r) ==
  LET l == <<call[r].peer, r>>
  IN /\ call[r].op = "recv"
     /\ Readable(l)
     /\ Head(chan[l]).stream = call[r].stream
     /\ ReadHead(l)
     /\ Return(l, Head(chan[l]))
     /\ EndCall(r)
     /\ UNCHANGED <<pending, sent, log, dropped, damaged, generation, alive, entered>>

(* Any other frame, a barrier frame too, is kept for the call it is for. *)
RecvRetain(r) ==
  LET l == <<call[r].peer, r>>
  IN /\ call[r].op = "recv"
     /\ Readable(l)
     /\ Head(chan[l]).stream # call[r].stream
     /\ ReadHead(l)
     /\ Retain(l)
     /\ UNCHANGED <<sent, log, got, dropped, damaged, call, generation, alive, entered>>

-----------------------------------------------------------------------------
(* barrier.  The generation advances only when the whole call succeeds. *)

(* Rank 0 begins with the arrival of rank 1. *)
BarrierGather ==
  /\ alive[0] /\ call[0] = NoCall
  /\ generation[0] < MaxGeneration
  /\ call' = [call EXCEPT ![0] = Call("gather", 1, BarrierStream)]
  /\ entered' = [entered EXCEPT ![0] = TRUE]
  /\ UNCHANGED <<transport, generation, alive>>

(* Every other rank announces itself and waits for the release. *)
BarrierArrives(r) ==
  /\ r # 0
  /\ alive[r] /\ call[r] = NoCall
  /\ generation[r] < MaxGeneration
  /\ Write(<<r, 0>>, BarrierStream, BarrierArrive(generation[r]))
  /\ call' = [call EXCEPT ![r] = Call("await", 0, BarrierStream)]
  /\ entered' = [entered EXCEPT ![r] = TRUE]
  /\ UNCHANGED <<pending, got, dropped, damaged, torn, generation, alive>>

(* r is in recv_barrier: rank 0 for the arrival of a peer, another rank    *)
(* for the release.                                                        *)
InRecvBarrier(r) ==
  \/ call[r].op = "await"
  \/ call[r].op = "gather" /\ call[r].peer < WorldSize

(* The frame recv_barrier looks at next: the first retained barrier frame, *)
(* else the head of the stream.                                            *)
TakeBarrierFrame(l, f) ==
  \/ TakePending(l, BarrierStream, f) /\ UNCHANGED <<chan, torn>>
  \/ /\ ~Retains(l, BarrierStream)
     /\ Readable(l)
     /\ f = Head(chan[l])
     /\ ReadHead(l)
     /\ UNCHANGED pending

(* Seeded fault: the generation of a barrier frame is not compared. *)
IsExpectedAnyGeneration(r, f) ==
  f.stream = BarrierStream /\ f.body.arrive = (call[r].op = "gather")

(* The frame lets the call go on: an arrival for rank 0, a release for the *)
(* others, of the caller's generation.                                     *)
IsExpected(r, f) ==
  /\ f.stream = BarrierStream
  /\ f.body.arrive = (call[r].op = "gather")
  /\ f.body.generation = generation[r]

(* Seeded fault: rank 0 does not wait for the last rank. *)
AfterGatherShort(peer) ==
  IF peer + 1 >= WorldSize - 1 THEN Call("release", 1, BarrierStream)
                               ELSE Call("gather", peer + 1, BarrierStream)

(* Rank 0 turns to the next peer; after the last it begins to release. *)
AfterGather(peer) ==
  IF peer + 1 = WorldSize THEN Call("release", 1, BarrierStream)
                          ELSE Call("gather", peer + 1, BarrierStream)

Gathered(r) ==
  LET l == <<call[r].peer, r>>
  IN /\ InRecvBarrier(r) /\ call[r].op = "gather"
     /\ \E f \in Undelivered(l) :
          TakeBarrierFrame(l, f) /\ IsExpected(r, f) /\ Return(l, f)
     /\ call' = [call EXCEPT ![r] = AfterGather(call[r].peer)]
     /\ UNCHANGED <<sent, log, dropped, damaged, generation, alive, entered>>

(* One release after the other. *)
SendRelease(r) ==
  /\ call[r].op = "release"
  /\ call[r].peer < WorldSize
  /\ Write(<<r, call[r].peer>>, BarrierStream, BarrierRelease(generation[r]))
  /\ call' = [call EXCEPT ![r].peer = @ + 1]
  /\ UNCHANGED <<pending, got, dropped, damaged, torn, generation, alive, entered>>

Advance(r) ==
  /\ generation' = [generation EXCEPT ![r] = @ + 1]
  /\ entered' = [entered EXCEPT ![r] = FALSE]
  /\ EndCall(r)

(* All releases are written: the call of rank 0 succeeds.  In a world of   *)
(* one rank both loops are empty.                                          *)
Released(r) ==
  /\ \/ call[r].op = "release" /\ call[r].peer = WorldSize
     \/ call[r].op = "gather" /\ WorldSize = 1
  /\ Advance(r)
  /\ UNCHANGED <<transport, alive>>

(* The release arrives: the call of another rank succeeds. *)
Awaited(r) ==
  LET l == <<call[r].peer, r>>
  IN /\ call[r].op = "await"
     /\ \E f \in Undelivered(l) :
          TakeBarrierFrame(l, f) /\ IsExpected(r, f) /\ Return(l, f)
     /\ Advance(r)
     /\ UNCHANGED <<sent, log, dropped, damaged, alive>>

(* A tensor frame met while waiting is retained. *)
BarrierRetain(r) ==
  LET l == <<call[r].peer, r>>
  IN /\ InRecvBarrier(r)
     /\ ~Retains(l, BarrierStream)
     /\ Readable(l)
     /\ Head(chan[l]).stream[1] = "Tensor"
     /\ ReadHead(l)
     /\ Retain(l)
     /\ UNCHANGED <<sent, log, got, dropped, damaged, call, generation, alive, entered>>

(* A barrier frame of another generation, or a control frame, fails the    *)
(* call and is consumed.                                                   *)
BarrierUnexpected(r) ==
  LET l == <<call[r].peer, r>>
  IN /\ InRecvBarrier(r)
     /\ \E f \in Undelivered(l) :
          /\ TakeBarrierFrame(l, f)
          /\ f.stream[1] # "Tensor"
          /\ ~IsExpected(r, f)
          /\ dropped' = [dropped EXCEPT ![l] = @ \union {f}]
     /\ EndCall(r)
     /\ UNCHANGED <<sent, log, got, damaged, generation, alive, entered>>

-----------------------------------------------------------------------------
(* Failures. *)

(* The deadline passes, or a read or write fails because the peer has      *)
(* gone.  Nothing is rolled back: not the announcement of an arrival, not  *)
(* a release already written, not an arrival already consumed.             *)
CallFails(r) ==
  /\ call[r] # NoCall
  /\ EndCall(r)
  /\ UNCHANGED <<transport, generation, alive, entered>>

(* The deadline passes between the first and the last byte of a frame: the *)
(* bytes read so far are gone.                                             *)
TimeoutMidFrame(r) ==
  LET l == <<call[r].peer, r>>
  IN /\ call[r].op = "recv" \/ InRecvBarrier(r)
     /\ Readable(l)
     /\ torn' = [torn EXCEPT ![l] = TRUE]
     /\ damaged' = [damaged EXCEPT ![l] = TRUE]
     /\ EndCall(r)
     /\ UNCHANGED <<chan, pending, sent, log, got, dropped, generation, alive, entered>>

(* A read that starts in the middle of a frame takes what it finds for a   *)
(* length and a body and fails.  So does the read of a fragment without    *)
(* its header, or when the bytes it lacks do not come in time.  Either may *)
(* end anywhere: in the middle of some frame, or at the beginning of one.  *)
ReadGarbage(r) ==
  LET l == <<call[r].peer, r>>
  IN /\ call[r].op = "recv" \/ InRecvBarrier(r)
     /\ chan[l] # <<>>
     /\ torn[l] \/ Head(chan[l]).body = Fragment
     /\ ReadOn(l, 1)
     /\ EndCall(r)
     /\ UNCHANGED <<pending, sent, log, got, dropped, damaged, generation, alive, entered>>

(* The process ends, in the middle of a call or not. *)
Crash(r) ==
  /\ alive[r]
  /\ alive' = [alive EXCEPT ![r] = FALSE]
  /\ EndCall(r)
  /\ chan' = [l \in Links |-> IF l[2] = r THEN <<>> ELSE chan[l]]
  /\ pending' = [l \in Links |-> IF l[2] = r THEN <<>> ELSE pending[l]]
  /\ damaged' = [l \in Links |-> l[2] = r \/ damaged[l]]
  /\ UNCHANGED <<sent, log, got, dropped, torn, generation, entered>>

(* The reset that follows an abrupt end destroys what was not read. *)
Reset(l) ==
  /\ ~alive[l[1]] /\ chan[l] # <<>>
  /\ chan' = [chan EXCEPT ![l] = <<>>]
  /\ damaged' = [damaged EXCEPT ![l] = TRUE]
  /\ UNCHANGED <<pending, sent, log, got, dropped, torn, call, generation, alive, entered>>

-----------------------------------------------------------------------------

Traffic(r) ==
  \/ \E p \in Peers(r), stream \in AppStreams :
       Send(r, p, stream) \/ RecvPending(r, p, stream) \/ RecvWait(r, p, stream)
  \/ RecvMatch(r)
  \/ RecvRetain(r)

BarrierCall(r) ==
  \/ r = 0 /\ BarrierGather
  \/ BarrierArrives(r)
  \/ Gathered(r) \/ SendRelease(r) \/ Released(r)
  \/ Awaited(r)
  \/ BarrierRetain(r) \/ BarrierUnexpected(r)

Failure(r) ==
  \/ \E p \in Peers(r), stream \in AppStreams : SendTorn(r, p, stream)
  \/ \E p \in Peers(r) : Reset(<<p, r>>)
  \/ CallFails(r)
  \/ TimeoutMidFrame(r)
  \/ ReadGarbage(r)
  \/ Crash(r)

Next == \E r \in Ranks : Traffic(r) \/ BarrierCall(r) \/ Failure(r)

Spec == Init /\ [][Next]_vars

-----------------------------------------------------------------------------
(* Properties. *)

Calls == [op : Ops, peer : 0 .. WorldSize, stream : Streams]

(* Only the process of a call makes it; only rank 0 gathers and releases.  *)
CallOK(r) ==
  /\ alive[r]
  /\ call[r].op = "recv" => call[r].peer \in Peers(r)
  /\ call[r].op \in {"gather", "release"} => r = 0 /\ call[r].peer # 0
  /\ call[r].op = "await" => r # 0 /\ call[r].peer = 0

TypeOK ==
  /\ chan \in [Links -> Seq(Frame)]
  /\ pending \in [Links -> Seq(Frame)]
  /\ call \in [Ranks -> Calls]
  /\ generation \in [Ranks -> 0 .. MaxGeneration]
  /\ alive \in [Ranks -> BOOLEAN]
  /\ torn \in [Links -> BOOLEAN]
  /\ sent \in [Links -> 0 .. MaxFrames]
  /\ log \in [Links -> SUBSET Frame]
  /\ got \in [Links -> SUBSET Frame]
  /\ dropped \in [Links -> SUBSET Frame]
  /\ damaged \in [Links -> BOOLEAN]
  /\ entered \in [Ranks -> BOOLEAN]
  /\ \A r \in Ranks : call[r] # NoCall => CallOK(r)

(* The streams implement the abstract transport, barrier frames included:  *)
(* frames of one kind and tag are returned once each and in the order      *)
(* sent, whatever was retained, timed out or read as garbage in between,   *)
(* and a link loses a frame only if it was torn or reset, its reader has   *)
(* gone, or a failing barrier() consumed it.  A receive that returns the   *)
(* completed fragment of a torn frame does so in the place of that frame,  *)
(* on a link where a send had failed.                                      *)
Transport == INSTANCE PointToPoint WITH
  Partial <- {f \in Frame : f.body = Fragment},
  box <- [l \in Links |-> Undelivered(l)],
  severed <- [l \in Links |-> damaged[l] \/ dropped[l] # {}]
ImplementsPointToPoint == Transport!Spec

(* The coordinated barrier implements the abstract one: barrier() returns  *)
(* Ok only after every rank called it for that generation, with frames     *)
(* retained, calls abandoned after a timeout and made again, releases      *)
(* written to some ranks only, streams out of step and processes gone.     *)
Synchronisation == INSTANCE Barrier WITH passed <- generation
ImplementsBarrier == Synchronisation!Spec

(* The claim of docs/pipeline-parallelism.md that unmatched frames remain  *)
(* in the source-specific pending queue, for the frames of the             *)
(* application.  It fails: recv_barrier consumes a control frame.          *)
UnmatchedFramesRemain ==
  \A l \in Links : \A f \in dropped[l] : f.stream = BarrierStream

(* The claim of docs/pipeline-parallelism.md that a truncated frame is     *)
(* rejected.  It fails: the frame that a write deadline cut short is       *)
(* completed with the bytes of the next one, and recv returns the mixture. *)
TruncatedFramesRejected ==
  \A l \in Links : \A f \in got[l] : f.body # Fragment
=============================================================================
