------------------------- MODULE InMemoryTransport -------------------------
(***************************************************************************)
(* The in-memory endpoints (crates/collectives/src/in_memory.rs): one      *)
(* unbounded channel per directed pair of ranks, one queue of retained     *)
(* frames per endpoint, and receives that match source, payload kind and   *)
(* tag.  Each endpoint belongs to one worker, which makes one receive at a *)
(* time; NativeCollectives::exchange sends from a scoped thread while the  *)
(* worker receives, so a send may happen at any moment.  A worker that     *)
(* ends drops its endpoint (run_in_memory).                                *)
(***************************************************************************)
EXTENDS Ranks, SequencesExt

CONSTANTS
  Tags,      \* message tags
  MaxFrames  \* bound on the frames sent on one link

ASSUME MaxFramesAssumption == MaxFrames \in Nat

(* A stream is what a receive names beside the source: MessagePayload's    *)
(* variant and the tag.                                                    *)
Kinds == {"Tensor", "Control"}
Streams == Kinds \X Tags

(* MessageFrame.  The destination is the link's; the payload is its id.    *)
Frame == [source : Ranks, stream : Streams, id : 1 .. MaxFrames]

Links == {l \in Ranks \X Ranks : l[1] # l[2]}

VARIABLES
  chan,      \* chan[l]: the mpsc channel of link l
  pending,   \* pending[r]: frames that receives of r read and did not ask for
  call,      \* call[r]: the receive r is blocked in
  alive,     \* alive[r]: r has not dropped its endpoint
  sent,      \* sent[l]: how many frames l has carried
  log, got   \* history: frames sent and frames returned, by link

vars == <<chan, pending, call, alive, sent, log, got>>

Requests == [source : Ranks, stream : Streams]
NoCall == [source |-> -1, stream |-> <<>>]

Matches(f, request) == f.source = request.source /\ f.stream = request.stream

(* create_in_memory_world *)
Init ==
  /\ chan = [l \in Links |-> <<>>]
  /\ pending = [r \in Ranks |-> <<>>]
  /\ call = [r \in Ranks |-> NoCall]
  /\ alive = [r \in Ranks |-> TRUE]
  /\ sent = [l \in Links |-> 0]
  /\ log = [l \in Links |-> {}]
  /\ got = [l \in Links |-> {}]

-----------------------------------------------------------------------------

(* send and send_control.  The error of a send to a dropped endpoint       *)
(* (SendDisconnected) changes nothing.                                     *)
Send(r, d, stream) ==
  LET l == <<r, d>>
      f == [source |-> r, stream |-> stream, id |-> sent[l] + 1]
  IN /\ alive[r] /\ alive[d]
     /\ sent[l] < MaxFrames
     /\ chan' = [chan EXCEPT ![l] = Append(@, f)]
     /\ sent' = [sent EXCEPT ![l] = @ + 1]
     /\ log' = [log EXCEPT ![l] = @ \union {f}]
     /\ UNCHANGED <<pending, call, alive, got>>

Deliver(r, f) == got' = [got EXCEPT ![<<f.source, r>>] = @ \union {f}]

(* Seeded fault: the youngest match is taken. *)
TakePendingLast(r, k, request) ==
  /\ k \in 1 .. Len(pending[r])
  /\ Matches(pending[r][k], request)
  /\ \A j \in k + 1 .. Len(pending[r]) : ~Matches(pending[r][j], request)
  /\ pending' = [pending EXCEPT ![r] = RemoveAt(@, k)]

(* take_pending and take_pending_control: the first retained frame that    *)
(* matches leaves the queue.                                               *)
TakePending(r, k, request) ==
  /\ k \in 1 .. Len(pending[r])
  /\ Matches(pending[r][k], request)
  /\ \A j \in 1 .. k - 1 : ~Matches(pending[r][j], request)
  /\ pending' = [pending EXCEPT ![r] = RemoveAt(@, k)]

(* recv and recv_control, answered from the retained frames. *)
RecvPending(r, request) ==
  /\ alive[r] /\ call[r] = NoCall
  /\ \E k \in 1 .. Len(pending[r]) :
       TakePending(r, k, request) /\ Deliver(r, pending[r][k])
  /\ UNCHANGED <<chan, call, alive, sent, log>>

(* Seeded fault: the retained frames are not searched first. *)
RecvWaitUnsearched(r, request) ==
  /\ alive[r] /\ call[r] = NoCall
  /\ call' = [call EXCEPT ![r] = request]
  /\ UNCHANGED <<chan, pending, alive, sent, log, got>>

(* Otherwise the receive goes on to the channel of its source. *)
RecvWait(r, request) ==
  /\ alive[r] /\ call[r] = NoCall
  /\ \A k \in 1 .. Len(pending[r]) : ~Matches(pending[r][k], request)
  /\ call' = [call EXCEPT ![r] = request]
  /\ UNCHANGED <<chan, pending, alive, sent, log, got>>

(* One turn of the receive loop: the frame is the one asked for, or it is  *)
(* kept for a later receive.                                               *)
RecvMatch(r) ==
  LET l == <<call[r].source, r>>
  IN /\ call[r] # NoCall
     /\ chan[l] # <<>>
     /\ Matches(Head(chan[l]), call[r])
     /\ chan' = [chan EXCEPT ![l] = Tail(@)]
     /\ Deliver(r, Head(chan[l]))
     /\ call' = [call EXCEPT ![r] = NoCall]
     /\ UNCHANGED <<pending, alive, sent, log>>

(* Seeded fault: a frame that was not asked for is thrown away. *)
RecvDiscard(r) ==
  LET l == <<call[r].source, r>>
  IN /\ call[r] # NoCall
     /\ chan[l] # <<>>
     /\ ~Matches(Head(chan[l]), call[r])
     /\ chan' = [chan EXCEPT ![l] = Tail(@)]
     /\ UNCHANGED <<pending, call, alive, sent, log, got>>

RecvRetain(r) ==
  LET l == <<call[r].source, r>>
  IN /\ call[r] # NoCall
     /\ chan[l] # <<>>
     /\ ~Matches(Head(chan[l]), call[r])
     /\ chan' = [chan EXCEPT ![l] = Tail(@)]
     /\ pending' = [pending EXCEPT ![r] = Append(@, Head(chan[l]))]
     /\ UNCHANGED <<call, alive, sent, log, got>>

(* The deadline covers the whole call, so it can pass before any turn of   *)
(* the loop, also when the channel is not empty.                           *)
RecvTimeout(r) ==
  /\ call[r] # NoCall
  /\ call' = [call EXCEPT ![r] = NoCall]
  /\ UNCHANGED <<chan, pending, alive, sent, log, got>>

(* Seeded fault: the peer is given up before its channel is drained. *)
RecvDisconnectedEarly(r) ==
  /\ call[r] # NoCall
  /\ ~alive[call[r].source]
  /\ call' = [call EXCEPT ![r] = NoCall]
  /\ UNCHANGED <<chan, pending, alive, sent, log, got>>

(* The source dropped its sender and the channel has been drained. *)
RecvDisconnected(r) ==
  LET l == <<call[r].source, r>>
  IN /\ call[r] # NoCall
     /\ ~alive[call[r].source]
     /\ chan[l] = <<>>
     /\ call' = [call EXCEPT ![r] = NoCall]
     /\ UNCHANGED <<chan, pending, alive, sent, log, got>>

(* The worker ends, by returning or by a panic, and its endpoint is        *)
(* dropped with everything that it had not received.                       *)
DropEndpoint(r) ==
  /\ alive[r] /\ call[r] = NoCall
  /\ alive' = [alive EXCEPT ![r] = FALSE]
  /\ pending' = [pending EXCEPT ![r] = <<>>]
  /\ chan' = [l \in Links |-> IF l[2] = r THEN <<>> ELSE chan[l]]
  /\ UNCHANGED <<call, sent, log, got>>

Recv(r) ==
  \E source \in Peers(r), stream \in Streams :
    LET request == [source |-> source, stream |-> stream]
    IN RecvPending(r, request) \/ RecvWait(r, request)

RecvLoop(r) == RecvMatch(r) \/ RecvRetain(r) \/ RecvTimeout(r) \/ RecvDisconnected(r)

Work(r) ==
  \/ \E d \in Peers(r), stream \in Streams : Send(r, d, stream)
  \/ Recv(r)
  \/ RecvLoop(r)
  \/ DropEndpoint(r)

Next == \E r \in Ranks : Work(r)

Spec == Init /\ [][Next]_vars

-----------------------------------------------------------------------------
(* Properties. *)

TypeOK ==
  /\ chan \in [Links -> Seq(Frame)]
  /\ pending \in [Ranks -> Seq(Frame)]
  /\ call \in [Ranks -> Requests \union {NoCall}]
  /\ alive \in [Ranks -> BOOLEAN]
  /\ sent \in [Links -> 0 .. MaxFrames]
  /\ log \in [Links -> SUBSET Frame]
  /\ got \in [Links -> SUBSET Frame]
  /\ \A r \in Ranks : call[r] # NoCall => alive[r] /\ call[r].source # r

(* The frames of link l that its destination can still return. *)
Undelivered(l) ==
  {f \in ToSet(pending[l[2]]) : f.source = l[1]} \union ToSet(chan[l])

(* Channels with retained frames implement the abstract transport: frames  *)
(* of one kind and tag are returned once each and in the order sent, and   *)
(* a link loses frames only when its destination has gone.                 *)
Promise == INSTANCE PointToPoint WITH
  Partial <- {},
  box <- [l \in Links |-> Undelivered(l)],
  severed <- [l \in Links |-> ~alive[l[2]]]
ImplementsPointToPoint == Promise!Spec

(* No gaps: when a receive has returned a frame, all older frames of the   *)
(* same link, kind and tag have been returned, whatever timeouts,          *)
(* retained frames and receives on other tags came between.                *)
GaplessFifo ==
  \A l \in Links : \A f \in got[l], g \in log[l] :
    g.stream = f.stream /\ g.id < f.id => g \in got[l]

(* A blocked receive is not waiting for something that is already here:    *)
(* while a receive is in its loop no retained frame matches it.  (The loop *)
(* never looks at the retained frames again.)                              *)
BlockedMeansAbsent ==
  \A r \in Ranks : call[r] # NoCall =>
    \A k \in 1 .. Len(pending[r]) : ~Matches(pending[r][k], call[r])

(* ReceiveDisconnected is final: the dead peer sent nothing on that stream *)
(* that has not been returned, so no packet sent before a worker ended is  *)
(* turned into an error.                                                   *)
DisconnectIsFinal ==
  [][\A r \in Ranks : RecvDisconnected(r) =>
       \A f \in log[<<call[r].source, r>>] :
         f.stream = call[r].stream => f \in got[<<call[r].source, r>>]]_vars
=============================================================================
