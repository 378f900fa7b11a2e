------------------------- MODULE TcpTransportProofs -------------------------
(***************************************************************************)
(* The TCP transport implements the abstract barrier and the abstract      *)
(* point-to-point transport, for every world size and every bound.         *)
(*                                                                         *)
(* The barrier: a barrier frame tells the truth about who has arrived      *)
(* however old it is, so a retry can be misled by none.                    *)
(*                                                                         *)
(* The streams: the retained frames of a link and then its unread ones are *)
(* in the order they were sent (Ordered), a link whose framing was lost is *)
(* a damaged one, and a receive that reads the link has already searched   *)
(* what is retained (Searched).  The frame a receive returns is then the   *)
(* oldest of its stream.                                                   *)
(***************************************************************************)
EXTENDS TcpTransport, SharedLemmas, TLAPS

(* Rank p called barrier() for generation g.  Once true it stays true: a   *)
(* failed call does not take its arrival back.                             *)
Arrived(p, g) == generation[p] > g \/ (generation[p] = g /\ entered[p])

AllArrived(g) == \A p \in Ranks : Arrived(p, g)

(* A barrier frame on its way tells the truth, however old it is: an       *)
(* arrival about its writer, a release about everyone.                     *)
Backed(l, f) ==
  f.stream = BarrierStream =>
    IF f.body.arrive THEN Arrived(l[1], f.body.generation)
                     ELSE AllArrived(f.body.generation)
FramesBacked == \A l \in Links : \A f \in Undelivered(l) : Backed(l, f)

(* What a rank inside barrier() knows. *)
GatherKnows ==
  \A r \in Ranks : call[r].op = "gather" =>
    entered[r] /\ \A p \in 1 .. call[r].peer - 1 : p \in Ranks => Arrived(p, generation[r])
ReleaseKnows == \A r \in Ranks : call[r].op = "release" => AllArrived(generation[r])

(* barrier() is called below the bound and advances once. *)
BelowBound ==
  \A r \in Ranks : call[r].op \in {"gather", "release", "await"} =>
    generation[r] < MaxGeneration

IInv == TypeOK /\ FramesBacked /\ GatherKnows /\ ReleaseKnows /\ BelowBound

barrierState == <<generation, entered>>

-----------------------------------------------------------------------------
LEMMA FrameFields ==
  \A f \in Frame : /\ f.stream \in Streams /\ f.body \in Bodies
                   /\ f.id \in 1 .. MaxFrames
                   /\ f.body.arrive \in BOOLEAN
                   /\ f.body.generation \in -1 .. MaxGeneration
BY DEF Frame, Bodies

(* Arrivals are never taken back. *)
LEMMA ArrivedStable ==
  ASSUME TypeOK, NEW r \in Ranks,
         \/ UNCHANGED barrierState
         \/ UNCHANGED generation /\ entered' = [entered EXCEPT ![r] = TRUE]
         \/ /\ generation' = [generation EXCEPT ![r] = @ + 1]
            /\ entered' = [entered EXCEPT ![r] = FALSE]
  PROVE  \A p \in Ranks, g \in Int : Arrived(p, g) => Arrived(p, g)'
<1> SUFFICES ASSUME NEW p \in Ranks, NEW g \in Int, Arrived(p, g)
             PROVE  Arrived(p, g)'
  OBVIOUS
<1>1. generation[p] \in Int
  BY BoundsAssumption DEF TypeOK
<1>2. CASE UNCHANGED barrierState
  BY <1>2 DEF Arrived, barrierState
<1>3. CASE UNCHANGED generation /\ entered' = [entered EXCEPT ![r] = TRUE]
  BY <1>3 DEF Arrived, TypeOK
<1>4. CASE /\ generation' = [generation EXCEPT ![r] = @ + 1]
           /\ entered' = [entered EXCEPT ![r] = FALSE]
  <2>1. CASE p = r
    BY <1>1, <1>4, <2>1 DEF Arrived, TypeOK
  <2>2. CASE p # r
    BY <1>4, <2>2 DEF Arrived, TypeOK
  <2> QED BY <2>1, <2>2
<1> QED BY <1>2, <1>3, <1>4

(* The links of rank 0 and of a blocked call. *)
LEMMA CallLink ==
  ASSUME TypeOK, NEW r \in Ranks, call[r].op = "recv" \/ InRecvBarrier(r)
  PROVE  /\ <<call[r].peer, r>> \in Links /\ alive[r]
         /\ call[r] # NoCall
BY WorldSizeAssumption DEF TypeOK, CallOK, InRecvBarrier, Links, Peers, Ranks, Calls, NoCall, Call

(* What the reading steps do to the queues: nothing new appears. *)
LEMMA TakeShrinks ==
  ASSUME TypeOK, NEW l \in Links, NEW stream, NEW f, TakePending(l, stream, f)
  PROVE  /\ pending' \in [Links -> Seq(Frame)]
         /\ f \in ToSet(pending[l]) /\ f \in Frame /\ f.stream = stream
         /\ \A m \in Links : ToSet(pending'[m]) \subseteq ToSet(pending[m])
<1>1. PICK k \in 1 .. Len(pending[l]) :
        /\ f = pending[l][k] /\ f.stream = stream
        /\ pending' = [pending EXCEPT ![l] = RemoveAt(@, k)]
  BY DEF TakePending
<1>2. pending[l] \in Seq(Frame)
  BY DEF TypeOK
<1>3. /\ RemoveAt(pending[l], k) \in Seq(Frame)
      /\ ToSet(pending[l]) = ToSet(RemoveAt(pending[l], k)) \union {pending[l][k]}
  BY <1>2, RemoveAtFacts
<1> QED BY <1>1, <1>2, <1>3 DEF TypeOK

LEMMA SuffixShrinks ==
  ASSUME NEW S, NEW s \in Seq(S), NEW n \in 0 .. Len(s)
  PROVE  SubSeq(s, n + 1, Len(s)) \in Seq(S) /\ ToSet(SubSeq(s, n + 1, Len(s))) \subseteq ToSet(s)
<1> DEFINE t == SubSeq(s, n + 1, Len(s))
<1>1. /\ t \in Seq(S) /\ Len(t) = Len(s) - n
      /\ \A i \in 1 .. Len(t) : t[i] = s[n + i]
  BY SMTT(30)
<1> HIDE DEF t
<1>2. \A i \in 1 .. Len(t) : n + i \in 1 .. Len(s)
  BY <1>1
<1>3. DOMAIN t = 1 .. Len(t) /\ DOMAIN s = 1 .. Len(s)
  BY <1>1
<1>4. ToSet(t) \subseteq ToSet(s)
  BY <1>1, <1>2, <1>3 DEF ToSet
<1> QED BY <1>1, <1>4 DEF t

LEMMA ReadOnShrinks ==
  ASSUME TypeOK, NEW l \in Links, NEW whole, ReadOn(l, whole)
  PROVE  /\ chan' \in [Links -> Seq(Frame)] /\ torn' \in [Links -> BOOLEAN]
         /\ \A m \in Links : ToSet(chan'[m]) \subseteq ToSet(chan[m])
<1>1. PICK n \in 0 .. Len(chan[l]) :
        /\ chan' = [chan EXCEPT ![l] = SubSeq(@, n + 1, Len(@))]
        /\ torn' = [torn EXCEPT ![l] = FALSE] \/ torn' = [torn EXCEPT ![l] = TRUE]
  BY DEF ReadOn
<1>2. chan[l] \in Seq(Frame)
  BY DEF TypeOK
<1>3. /\ SubSeq(chan[l], n + 1, Len(chan[l])) \in Seq(Frame)
      /\ ToSet(SubSeq(chan[l], n + 1, Len(chan[l]))) \subseteq ToSet(chan[l])
  BY <1>2, SuffixShrinks
<1>4. torn' \in [Links -> BOOLEAN]
  BY <1>1 DEF TypeOK
<1> QED BY <1>1, <1>3, <1>4 DEF TypeOK

LEMMA ReadShrinks ==
  ASSUME TypeOK, NEW l \in Links, Readable(l), ReadHead(l)
  PROVE  /\ chan' \in [Links -> Seq(Frame)] /\ torn' \in [Links -> BOOLEAN]
         /\ Head(chan[l]) \in ToSet(chan[l]) /\ Head(chan[l]) \in Frame
         /\ \A m \in Links : ToSet(chan'[m]) \subseteq ToSet(chan[m])
<1>1. chan[l] \in Seq(Frame) /\ chan[l] # <<>>
  BY DEF TypeOK, Readable
<1>2. /\ Head(chan[l]) = chan[l][1] /\ Head(chan[l]) \in Frame
      /\ Tail(chan[l]) \in Seq(Frame)
      /\ ToSet(chan[l]) = ToSet(Tail(chan[l])) \union {chan[l][1]}
  BY <1>1, TailFacts
<1>3. CASE chan' = [chan EXCEPT ![l] = Tail(@)] /\ UNCHANGED torn
  BY <1>2, <1>3 DEF TypeOK
<1>4. CASE ReadOn(l, 2)
  BY <1>2, <1>4, ReadOnShrinks
<1> QED BY <1>3, <1>4 DEF ReadHead

LEMMA BarrierFrameShrinks ==
  ASSUME TypeOK, NEW l \in Links, NEW f, TakeBarrierFrame(l, f)
  PROVE  /\ chan' \in [Links -> Seq(Frame)] /\ pending' \in [Links -> Seq(Frame)]
         /\ torn' \in [Links -> BOOLEAN]
         /\ f \in Undelivered(l) /\ f \in Frame
         /\ \A m \in Links : Undelivered(m)' \subseteq Undelivered(m)
<1>1. CASE TakePending(l, BarrierStream, f) /\ UNCHANGED <<chan, torn>>
  BY <1>1, TakeShrinks DEF Undelivered, TypeOK
<1>2. CASE Readable(l) /\ f = Head(chan[l]) /\ ReadHead(l) /\ UNCHANGED pending
  BY <1>2, ReadShrinks DEF Undelivered, TypeOK
<1> QED BY <1>1, <1>2 DEF TakeBarrierFrame

(* Retaining moves a frame from one queue to the other. *)
LEMMA RetainMoves ==
  ASSUME TypeOK, NEW l \in Links, Readable(l), ReadHead(l), Retain(l)
  PROVE  /\ chan' \in [Links -> Seq(Frame)] /\ pending' \in [Links -> Seq(Frame)]
         /\ torn' \in [Links -> BOOLEAN]
         /\ \A m \in Links : Undelivered(m)' \subseteq Undelivered(m)
<1>1. /\ chan' \in [Links -> Seq(Frame)] /\ torn' \in [Links -> BOOLEAN]
      /\ Head(chan[l]) \in ToSet(chan[l]) /\ Head(chan[l]) \in Frame
      /\ \A m \in Links : ToSet(chan'[m]) \subseteq ToSet(chan[m])
  BY ReadShrinks
<1>2. pending[l] \in Seq(Frame)
  BY DEF TypeOK
<1>3. /\ Append(pending[l], Head(chan[l])) \in Seq(Frame)
      /\ ToSet(Append(pending[l], Head(chan[l]))) = ToSet(pending[l]) \union {Head(chan[l])}
  BY <1>1, <1>2, AppendFacts
<1>4. pending' \in [Links -> Seq(Frame)]
  BY <1>3 DEF Retain, TypeOK
<1>5. \A m \in Links : ToSet(pending'[m]) \subseteq
                         IF m = l THEN ToSet(pending[l]) \union {Head(chan[l])} ELSE ToSet(pending[m])
  BY <1>3 DEF Retain, TypeOK
<1> QED BY <1>1, <1>4, <1>5 DEF Undelivered

(* A write adds at most one frame, with the contents given. *)
LEMMA WriteAdds ==
  ASSUME TypeOK, NEW l \in Links, NEW stream \in Streams, NEW body \in Bodies,
         Write(l, stream, body), UNCHANGED pending
  PROVE  /\ chan' \in [Links -> Seq(Frame)]
         /\ sent' \in [Links -> 0 .. MaxFrames] /\ log' \in [Links -> SUBSET Frame]
         /\ \A m \in Links : \A g \in Undelivered(m)' :
              g \in Undelivered(m) \/ (m = l /\ g.stream = stream /\ g.body = body)
<1> DEFINE f == [stream |-> stream, body |-> body, id |-> sent[l] + 1]
<1>1. CASE alive[l[2]]
  <2>1. f \in Frame
    BY <1>1, BoundsAssumption DEF Write, Frame, TypeOK
  <2>2. chan[l] \in Seq(Frame)
    BY DEF TypeOK
  <2>3. /\ Append(chan[l], f) \in Seq(Frame)
        /\ ToSet(Append(chan[l], f)) = ToSet(chan[l]) \union {f}
    BY <2>1, <2>2, AppendFacts
  <2>4. /\ chan' = [chan EXCEPT ![l] = Append(@, f)]
        /\ sent' = [sent EXCEPT ![l] = @ + 1]
        /\ log' = [log EXCEPT ![l] = @ \union {f}]
        /\ sent[l] < MaxFrames
    BY <1>1 DEF Write
  <2>5. f.stream = stream /\ f.body = body
    OBVIOUS
  <2> HIDE DEF f
  <2>6. sent' \in [Links -> 0 .. MaxFrames]
    BY <2>4, BoundsAssumption DEF TypeOK
  <2>7. chan' \in [Links -> Seq(Frame)] /\ log' \in [Links -> SUBSET Frame]
    BY <2>1, <2>3, <2>4 DEF TypeOK
  <2>8. \A m \in Links : ToSet(chan'[m]) \subseteq
                           IF m = l THEN ToSet(chan[m]) \union {f} ELSE ToSet(chan[m])
    BY <2>3, <2>4 DEF TypeOK
  <2> QED BY <2>5, <2>6, <2>7, <2>8 DEF Undelivered
<1>2. CASE ~alive[l[2]]
  BY <1>2 DEF Write, TypeOK, Undelivered
<1> QED BY <1>1, <1>2

LEMMA UndeliveredFrames ==
  ASSUME TypeOK
  PROVE  \A m \in Links : Undelivered(m) \subseteq Frame
<1> SUFFICES ASSUME NEW m \in Links PROVE Undelivered(m) \subseteq Frame
  OBVIOUS
<1>1. pending[m] \in Seq(Frame) /\ chan[m] \in Seq(Frame)
  BY DEF TypeOK
<1> QED BY <1>1 DEF Undelivered, ToSet

-----------------------------------------------------------------------------
(* A step of rank r keeps the invariant if it keeps the types, adds only   *)
(* frames that are backed, never takes an arrival back, and leaves r in a  *)
(* call that knows what it has to.                                         *)

CallKnows(r) ==
  /\ call[r].op = "gather" =>
       entered[r] /\ \A p \in 1 .. call[r].peer - 1 : p \in Ranks => Arrived(p, generation[r])
  /\ call[r].op = "release" => AllArrived(generation[r])
  /\ call[r].op \in {"gather", "release", "await"} => generation[r] < MaxGeneration

StableStep(r) ==
  \/ UNCHANGED barrierState
  \/ UNCHANGED generation /\ entered' = [entered EXCEPT ![r] = TRUE]
  \/ /\ generation' = [generation EXCEPT ![r] = @ + 1]
     /\ entered' = [entered EXCEPT ![r] = FALSE]

LEMMA StepKeeps ==
  ASSUME IInv, TypeOK', NEW r \in Ranks, StableStep(r),
         \A m \in Links : \A g \in Undelivered(m)' : g \in Undelivered(m) \/ Backed(m, g)',
         \A q \in Ranks \ {r} : call'[q] = call[q],
         CallKnows(r)'
  PROVE  IInv'
<1>1. \A p \in Ranks, g \in Int : Arrived(p, g) => Arrived(p, g)'
  BY ArrivedStable DEF IInv, StableStep
<1>2. FramesBacked'
  <2> SUFFICES ASSUME NEW m \in Links, NEW g \in Undelivered(m)', g \in Undelivered(m)
               PROVE  Backed(m, g)'
    BY DEF FramesBacked
  <2>1. g \in Frame
    BY UndeliveredFrames DEF IInv
  <2>2. g.body.generation \in Int /\ m[1] \in Ranks
    BY <2>1, FrameFields, BoundsAssumption DEF Links
  <2>3. Backed(m, g)
    BY DEF IInv, FramesBacked
  <2> QED BY <1>1, <2>2, <2>3 DEF Backed, AllArrived
<1>3. \A q \in Ranks : generation[q] \in Int /\ generation'[q] \in Int
  BY BoundsAssumption DEF IInv, TypeOK
<1>4. \A q \in Ranks \ {r} : generation'[q] = generation[q] /\ entered'[q] = entered[q]
  BY DEF StableStep, barrierState, IInv, TypeOK
<1>5. \A q \in Ranks \ {r} : CallKnows(q)'
  <2> SUFFICES ASSUME NEW q \in Ranks \ {r} PROVE CallKnows(q)'
    OBVIOUS
  <2>1. CallKnows(q)
    BY DEF IInv, GatherKnows, ReleaseKnows, BelowBound, CallKnows
  <2>2. call'[q] = call[q] /\ generation'[q] = generation[q] /\ entered'[q] = entered[q]
    BY <1>4
  <2> QED BY <1>1, <1>3, <2>1, <2>2 DEF CallKnows, AllArrived
<1>6. \A q \in Ranks : CallKnows(q)'
  BY <1>5
<1> QED BY <1>2, <1>6 DEF IInv, GatherKnows, ReleaseKnows, BelowBound, CallKnows

(* Most steps leave the barrier alone and put r in no barrier call it was  *)
(* not in.                                                                 *)
LEMMA QuietStep ==
  ASSUME IInv, TypeOK', NEW r \in Ranks, UNCHANGED barrierState,
         \A m \in Links : \A g \in Undelivered(m)' :
           g \in Undelivered(m) \/ g.stream # BarrierStream,
         \A q \in Ranks \ {r} : call'[q] = call[q],
         call'[r] = call[r] \/ call'[r].op \in {"none", "recv"}
  PROVE  IInv'
<1>1. \A m \in Links : \A g \in Undelivered(m)' : g \in Undelivered(m) \/ Backed(m, g)'
  BY DEF Backed
<1>2. \A p \in Ranks, g \in Int : Arrived(p, g) => Arrived(p, g)'
  BY DEF Arrived, barrierState
<1>3. generation[r] \in Int
  BY BoundsAssumption DEF IInv, TypeOK
<1>4. CallKnows(r)'
  <2>1. CASE call'[r] = call[r]
    <3>1. CallKnows(r)
      BY DEF IInv, GatherKnows, ReleaseKnows, BelowBound, CallKnows
    <3> QED BY <1>2, <1>3, <2>1, <3>1 DEF CallKnows, AllArrived, barrierState
  <2>2. CASE call'[r].op \in {"none", "recv"}
    BY <2>2 DEF CallKnows
  <2> QED BY <2>1, <2>2
<1> QED BY <1>1, <1>4, StepKeeps DEF StableStep

LEMMA InitIInv == Init => IInv
<1> SUFFICES ASSUME Init PROVE IInv
  OBVIOUS
<1>1. NoCall \in Calls /\ NoCall.op = "none"
  BY WorldSizeAssumption DEF NoCall, Call, Calls, Ops, Streams
<1>2. \A l \in Links : Undelivered(l) = {}
  BY DEF Init, Undelivered, ToSet
<1>3. TypeOK
  BY <1>1, BoundsAssumption DEF TypeOK, Init
<1> QED BY <1>1, <1>2, <1>3 DEF Init, IInv, FramesBacked, GatherKnows, ReleaseKnows, BelowBound

-----------------------------------------------------------------------------
(* send, recv *)

LEMMA NoCallFacts == NoCall \in Calls /\ NoCall.op = "none"
BY WorldSizeAssumption DEF NoCall, Call, Calls, Ops, Streams

LEMMA SendIInv ==
  ASSUME IInv, NEW r \in Ranks, NEW d \in Peers(r), NEW stream \in AppStreams,
         Send(r, d, stream)
  PROVE  IInv'
<1>1. <<r, d>> \in Links /\ stream \in Streams /\ Packet \in Bodies
  BY BoundsAssumption DEF Links, Peers, Streams, Packet, Bodies
<1>2. stream # BarrierStream
  BY DEF AppStreams, BarrierStream
<1>3. /\ chan' \in [Links -> Seq(Frame)]
      /\ sent' \in [Links -> 0 .. MaxFrames] /\ log' \in [Links -> SUBSET Frame]
      /\ \A m \in Links : \A g \in Undelivered(m)' :
           g \in Undelivered(m) \/ (m = <<r, d>> /\ g.stream = stream /\ g.body = Packet)
  BY <1>1, WriteAdds DEF Send, IInv
<1>4. TypeOK'
  BY <1>3 DEF Send, IInv, TypeOK, CallOK
<1> QED BY <1>2, <1>3, <1>4, QuietStep DEF Send, barrierState

LEMMA RecvPendingIInv ==
  ASSUME IInv, NEW r \in Ranks, NEW s \in Peers(r), NEW stream \in AppStreams,
         RecvPending(r, s, stream)
  PROVE  IInv'
<1> DEFINE l == <<s, r>>
<1>1. l \in Links
  BY DEF Links, Peers
<1>2. PICK f \in Undelivered(l) : TakePending(l, stream, f) /\ Return(l, f)
  BY DEF RecvPending
<1>3. /\ pending' \in [Links -> Seq(Frame)] /\ f \in Frame
      /\ \A m \in Links : ToSet(pending'[m]) \subseteq ToSet(pending[m])
  BY <1>1, <1>2, TakeShrinks DEF IInv
<1> HIDE DEF l
<1>4. got' \in [Links -> SUBSET Frame]
  BY <1>1, <1>2, <1>3 DEF Return, IInv, TypeOK
<1>5. TypeOK'
  BY <1>3, <1>4 DEF RecvPending, IInv, TypeOK, CallOK
<1>6. \A m \in Links : Undelivered(m)' \subseteq Undelivered(m)
  BY <1>3 DEF RecvPending, Undelivered
<1> QED BY <1>5, <1>6, QuietStep DEF RecvPending, barrierState

LEMMA RecvWaitIInv ==
  ASSUME IInv, NEW r \in Ranks, NEW s \in Peers(r), NEW stream \in AppStreams,
         RecvWait(r, s, stream)
  PROVE  IInv'
<1> DEFINE c == Call("recv", s, stream)
<1>1. c \in Calls /\ c.op = "recv" /\ c.peer = s
  BY WorldSizeAssumption DEF Call, Calls, Ops, Streams, Peers, Ranks
<1>2. call' = [call EXCEPT ![r] = c] /\ UNCHANGED <<transport, generation, alive, entered>> /\ alive[r]
  BY DEF RecvWait
<1> HIDE DEF c
<1>3. \A q \in Ranks : call'[q] = IF q = r THEN c ELSE call[q]
  BY <1>2 DEF IInv, TypeOK
<1>4. TypeOK'
  BY <1>1, <1>2, <1>3 DEF transport, IInv, TypeOK, CallOK
<1>5. \A m \in Links : Undelivered(m)' = Undelivered(m)
  BY <1>2 DEF transport, Undelivered
<1> QED BY <1>1, <1>2, <1>3, <1>4, <1>5, QuietStep DEF barrierState

(* A step after which r is in no call. *)
LEMMA EndCallTypes ==
  ASSUME TypeOK, NEW r \in Ranks, EndCall(r), UNCHANGED alive
  PROVE  /\ call' \in [Ranks -> Calls]
         /\ \A q \in Ranks : call'[q] = IF q = r THEN NoCall ELSE call[q]
         /\ \A q \in Ranks : call'[q] # NoCall => CallOK(q)'
<1>1. \A q \in Ranks : call'[q] = IF q = r THEN NoCall ELSE call[q]
  BY DEF EndCall, TypeOK
<1> QED BY <1>1, NoCallFacts DEF EndCall, TypeOK, CallOK

LEMMA RecvMatchIInv ==
  ASSUME IInv, NEW r \in Ranks, RecvMatch(r)
  PROVE  IInv'
<1> DEFINE l == <<call[r].peer, r>>
<1>1. l \in Links
  BY CallLink DEF RecvMatch, IInv
<1>2. /\ chan' \in [Links -> Seq(Frame)] /\ torn' \in [Links -> BOOLEAN]
      /\ Head(chan[l]) \in Frame
      /\ \A m \in Links : ToSet(chan'[m]) \subseteq ToSet(chan[m])
  BY <1>1, ReadShrinks DEF RecvMatch, IInv
<1>3. Return(l, Head(chan[l]))
  BY DEF RecvMatch
<1> HIDE DEF l
<1>4. got' \in [Links -> SUBSET Frame]
  BY <1>1, <1>2, <1>3 DEF Return, IInv, TypeOK
<1>5. /\ call' \in [Ranks -> Calls]
      /\ \A q \in Ranks : call'[q] = IF q = r THEN NoCall ELSE call[q]
      /\ \A q \in Ranks : call'[q] # NoCall => CallOK(q)'
  BY EndCallTypes DEF RecvMatch, IInv
<1>6. TypeOK'
  BY <1>2, <1>4, <1>5 DEF RecvMatch, IInv, TypeOK
<1>7. \A m \in Links : Undelivered(m)' \subseteq Undelivered(m)
  BY <1>2 DEF RecvMatch, Undelivered
<1> QED BY <1>5, <1>6, <1>7, NoCallFacts, QuietStep DEF RecvMatch, barrierState

LEMMA RetainIInv ==
  ASSUME IInv, NEW r \in Ranks, RecvRetain(r) \/ BarrierRetain(r)
  PROVE  IInv'
<1> DEFINE l == <<call[r].peer, r>>
<1>1. l \in Links
  BY CallLink DEF RecvRetain, BarrierRetain, IInv
<1>2. /\ Readable(l) /\ ReadHead(l) /\ Retain(l)
      /\ UNCHANGED <<sent, log, got, dropped, damaged, call, generation, alive, entered>>
  BY DEF RecvRetain, BarrierRetain
<1>3. /\ chan' \in [Links -> Seq(Frame)] /\ pending' \in [Links -> Seq(Frame)]
      /\ torn' \in [Links -> BOOLEAN]
      /\ \A m \in Links : Undelivered(m)' \subseteq Undelivered(m)
  BY <1>1, <1>2, RetainMoves DEF IInv
<1>4. TypeOK'
  BY <1>2, <1>3 DEF IInv, TypeOK, CallOK
<1> QED BY <1>2, <1>3, <1>4, QuietStep DEF barrierState

-----------------------------------------------------------------------------
(* Failures *)

LEMMA BarrierUnexpectedIInv ==
  ASSUME IInv, NEW r \in Ranks, BarrierUnexpected(r)
  PROVE  IInv'
<1> DEFINE l == <<call[r].peer, r>>
<1>1. l \in Links
  BY CallLink DEF BarrierUnexpected, IInv
<1>2. PICK f \in Undelivered(l) :
        /\ TakeBarrierFrame(l, f)
        /\ dropped' = [dropped EXCEPT ![l] = @ \union {f}]
  BY DEF BarrierUnexpected
<1>3. /\ chan' \in [Links -> Seq(Frame)] /\ pending' \in [Links -> Seq(Frame)]
      /\ torn' \in [Links -> BOOLEAN]
      /\ f \in Frame
      /\ \A m \in Links : Undelivered(m)' \subseteq Undelivered(m)
  BY <1>1, <1>2, BarrierFrameShrinks DEF IInv
<1> HIDE DEF l
<1>4. dropped' \in [Links -> SUBSET Frame]
  BY <1>1, <1>2, <1>3 DEF IInv, TypeOK
<1>5. /\ call' \in [Ranks -> Calls]
      /\ \A q \in Ranks : call'[q] = IF q = r THEN NoCall ELSE call[q]
      /\ \A q \in Ranks : call'[q] # NoCall => CallOK(q)'
  BY EndCallTypes DEF BarrierUnexpected, IInv
<1>6. TypeOK'
  BY <1>3, <1>4, <1>5 DEF BarrierUnexpected, IInv, TypeOK
<1> QED BY <1>3, <1>5, <1>6, NoCallFacts, QuietStep DEF BarrierUnexpected, barrierState

LEMMA CallFailsIInv ==
  ASSUME IInv, NEW r \in Ranks, CallFails(r)
  PROVE  IInv'
<1>1. /\ call' \in [Ranks -> Calls]
      /\ \A q \in Ranks : call'[q] = IF q = r THEN NoCall ELSE call[q]
      /\ \A q \in Ranks : call'[q] # NoCall => CallOK(q)'
  BY EndCallTypes DEF CallFails, IInv
<1>2. TypeOK'
  BY <1>1 DEF CallFails, transport, IInv, TypeOK
<1>3. \A m \in Links : Undelivered(m)' = Undelivered(m)
  BY DEF CallFails, transport, Undelivered
<1> QED BY <1>1, <1>2, <1>3, NoCallFacts, QuietStep DEF CallFails, barrierState

LEMMA SendTornIInv ==
  ASSUME IInv, NEW r \in Ranks, NEW d \in Peers(r), NEW stream \in AppStreams,
         SendTorn(r, d, stream)
  PROVE  IInv'
<1>1. <<r, d>> \in Links /\ stream \in Streams /\ Fragment \in Bodies
  BY BoundsAssumption DEF Links, Peers, Streams, Fragment, Bodies
<1>2. stream # BarrierStream
  BY DEF AppStreams, BarrierStream
<1>3. /\ chan' \in [Links -> Seq(Frame)]
      /\ sent' \in [Links -> 0 .. MaxFrames] /\ log' \in [Links -> SUBSET Frame]
      /\ \A m \in Links : \A g \in Undelivered(m)' :
           g \in Undelivered(m) \/ (m = <<r, d>> /\ g.stream = stream /\ g.body = Fragment)
  BY <1>1, WriteAdds DEF SendTorn, IInv
<1>4. damaged' \in [Links -> BOOLEAN]
  BY <1>1 DEF SendTorn, IInv, TypeOK
<1>5. TypeOK'
  BY <1>3, <1>4 DEF SendTorn, IInv, TypeOK, CallOK
<1> QED BY <1>2, <1>3, <1>5, QuietStep DEF SendTorn, barrierState

LEMMA TimeoutMidFrameIInv ==
  ASSUME IInv, NEW r \in Ranks, TimeoutMidFrame(r)
  PROVE  IInv'
<1> DEFINE l == <<call[r].peer, r>>
<1>1. l \in Links
  BY CallLink DEF TimeoutMidFrame, IInv
<1>2. /\ torn' = [torn EXCEPT ![l] = TRUE]
      /\ damaged' = [damaged EXCEPT ![l] = TRUE]
  BY DEF TimeoutMidFrame
<1> HIDE DEF l
<1>4. torn' \in [Links -> BOOLEAN] /\ damaged' \in [Links -> BOOLEAN]
  BY <1>1, <1>2 DEF IInv, TypeOK
<1>5. /\ call' \in [Ranks -> Calls]
      /\ \A q \in Ranks : call'[q] = IF q = r THEN NoCall ELSE call[q]
      /\ \A q \in Ranks : call'[q] # NoCall => CallOK(q)'
  BY EndCallTypes DEF TimeoutMidFrame, IInv
<1>6. TypeOK'
  BY <1>4, <1>5 DEF TimeoutMidFrame, IInv, TypeOK
<1>7. \A m \in Links : Undelivered(m)' = Undelivered(m)
  BY DEF TimeoutMidFrame, Undelivered
<1> QED BY <1>5, <1>6, <1>7, NoCallFacts, QuietStep DEF TimeoutMidFrame, barrierState

LEMMA ReadGarbageIInv ==
  ASSUME IInv, NEW r \in Ranks, ReadGarbage(r)
  PROVE  IInv'
<1> DEFINE l == <<call[r].peer, r>>
<1>1. l \in Links
  BY CallLink DEF ReadGarbage, IInv
<1>2. /\ chan' \in [Links -> Seq(Frame)] /\ torn' \in [Links -> BOOLEAN]
      /\ \A m \in Links : ToSet(chan'[m]) \subseteq ToSet(chan[m])
  BY <1>1, ReadOnShrinks DEF ReadGarbage, IInv
<1> HIDE DEF l
<1>3. /\ call' \in [Ranks -> Calls]
      /\ \A q \in Ranks : call'[q] = IF q = r THEN NoCall ELSE call[q]
      /\ \A q \in Ranks : call'[q] # NoCall => CallOK(q)'
  BY EndCallTypes DEF ReadGarbage, IInv
<1>4. TypeOK'
  BY <1>2, <1>3 DEF ReadGarbage, IInv, TypeOK
<1>5. \A m \in Links : Undelivered(m)' \subseteq Undelivered(m)
  BY <1>2 DEF ReadGarbage, Undelivered
<1> QED BY <1>3, <1>4, <1>5, NoCallFacts, QuietStep DEF ReadGarbage, barrierState

LEMMA CrashIInv ==
  ASSUME IInv, NEW r \in Ranks, Crash(r)
  PROVE  IInv'
<1>1. <<>> \in Seq(Frame) /\ ToSet(<<>>) = {}
  BY DEF ToSet
<1>2. \A l \in Links : /\ chan'[l] = IF l[2] = r THEN <<>> ELSE chan[l]
                       /\ pending'[l] = IF l[2] = r THEN <<>> ELSE pending[l]
  BY DEF Crash
<1>3. chan' \in [Links -> Seq(Frame)] /\ pending' \in [Links -> Seq(Frame)]
  BY <1>1 DEF Crash, IInv, TypeOK
<1>4. damaged' \in [Links -> BOOLEAN]
  <2>1. \A l \in Links : (l[2] = r \/ damaged[l]) \in BOOLEAN
    OBVIOUS
  <2> QED BY <2>1, Zenon DEF Crash
<1>5. \A q \in Ranks : /\ call'[q] = IF q = r THEN NoCall ELSE call[q]
                       /\ alive'[q] = IF q = r THEN FALSE ELSE alive[q]
  BY DEF Crash, EndCall, IInv, TypeOK
<1>6. call' \in [Ranks -> Calls] /\ alive' \in [Ranks -> BOOLEAN]
  BY NoCallFacts DEF Crash, EndCall, IInv, TypeOK
<1>7. \A q \in Ranks : call'[q] # NoCall => CallOK(q)'
  <2> SUFFICES ASSUME NEW q \in Ranks, call'[q] # NoCall PROVE CallOK(q)'
    OBVIOUS
  <2>1. q # r /\ call'[q] = call[q] /\ alive'[q] = alive[q]
    BY <1>5
  <2>2. CallOK(q)
    BY <2>1 DEF IInv, TypeOK
  <2> QED BY <2>1, <2>2 DEF CallOK
<1>8. TypeOK'
  BY <1>3, <1>4, <1>6, <1>7 DEF Crash, IInv, TypeOK
<1>9. \A m \in Links : Undelivered(m)' \subseteq Undelivered(m)
  BY <1>1, <1>2 DEF Undelivered
<1> QED BY <1>5, <1>8, <1>9, NoCallFacts, QuietStep DEF Crash, barrierState

LEMMA ResetIInv ==
  ASSUME IInv, NEW r \in Ranks, NEW l \in Links, Reset(l)
  PROVE  IInv'
<1>1. <<>> \in Seq(Frame) /\ ToSet(<<>>) = {}
  BY DEF ToSet
<1>2. \A m \in Links : chan'[m] = IF m = l THEN <<>> ELSE chan[m]
  BY DEF Reset, IInv, TypeOK
<1>3. chan' \in [Links -> Seq(Frame)] /\ damaged' \in [Links -> BOOLEAN]
  BY <1>1 DEF Reset, IInv, TypeOK
<1>4. TypeOK'
  BY <1>3 DEF Reset, IInv, TypeOK, CallOK
<1>5. \A m \in Links : Undelivered(m)' \subseteq Undelivered(m)
  BY <1>1, <1>2 DEF Reset, Undelivered
<1> QED BY <1>4, <1>5, QuietStep DEF Reset, barrierState

-----------------------------------------------------------------------------
(* barrier *)

LEMMA BarrierGatherIInv ==
  ASSUME IInv, 0 \in Ranks, BarrierGather
  PROVE  IInv'
<1> DEFINE c == Call("gather", 1, BarrierStream)
<1>1. c \in Calls /\ c.op = "gather" /\ c.peer = 1
  BY WorldSizeAssumption DEF Call, Calls, Ops, Streams
<1>2. /\ call' = [call EXCEPT ![0] = c] /\ alive[0]
      /\ entered' = [entered EXCEPT ![0] = TRUE]
      /\ generation[0] < MaxGeneration
      /\ UNCHANGED <<transport, generation, alive>>
  BY DEF BarrierGather
<1> HIDE DEF c
<1>3. \A q \in Ranks : /\ call'[q] = IF q = 0 THEN c ELSE call[q]
                       /\ entered'[q] = IF q = 0 THEN TRUE ELSE entered[q]
  BY <1>2 DEF IInv, TypeOK
<1>4. TypeOK'
  BY <1>1, <1>2, <1>3 DEF transport, IInv, TypeOK, CallOK
<1>5. \A m \in Links : Undelivered(m)' = Undelivered(m)
  BY <1>2 DEF transport, Undelivered
<1>6. CallKnows(0)'
  <2>1. call'[0] = c /\ entered'[0] /\ generation'[0] = generation[0]
    BY <1>2, <1>3
  <2>2. 1 .. c.peer - 1 = {}
    BY <1>1
  <2> QED BY <1>1, <1>2, <2>1, <2>2 DEF CallKnows
<1> QED BY <1>2, <1>3, <1>4, <1>5, <1>6, StepKeeps DEF StableStep

LEMMA BarrierArrivesIInv ==
  ASSUME IInv, NEW r \in Ranks, BarrierArrives(r)
  PROVE  IInv'
<1> DEFINE c == Call("await", 0, BarrierStream)
           b == BarrierArrive(generation[r])
<1>1. c \in Calls /\ c.op = "await" /\ c.peer = 0
  BY WorldSizeAssumption DEF Call, Calls, Ops, Streams
<1>2. b \in Bodies /\ b.arrive = TRUE /\ b.generation = generation[r]
  BY BoundsAssumption DEF BarrierArrive, Bodies, IInv, TypeOK
<1>3. /\ call' = [call EXCEPT ![r] = c] /\ alive[r] /\ r # 0
      /\ Write(<<r, 0>>, BarrierStream, b)
      /\ entered' = [entered EXCEPT ![r] = TRUE]
      /\ generation[r] < MaxGeneration
      /\ UNCHANGED <<pending, got, dropped, damaged, torn, generation, alive>>
  BY DEF BarrierArrives
<1> HIDE DEF c, b
<1>4. <<r, 0>> \in Links /\ BarrierStream \in Streams
  BY <1>3, WorldSizeAssumption DEF Links, Ranks, Streams
<1>5. /\ chan' \in [Links -> Seq(Frame)]
      /\ sent' \in [Links -> 0 .. MaxFrames] /\ log' \in [Links -> SUBSET Frame]
      /\ \A m \in Links : \A g \in Undelivered(m)' :
           g \in Undelivered(m) \/ (m = <<r, 0>> /\ g.stream = BarrierStream /\ g.body = b)
  BY <1>2, <1>3, <1>4, WriteAdds DEF IInv
<1>6. \A q \in Ranks : /\ call'[q] = IF q = r THEN c ELSE call[q]
                       /\ entered'[q] = IF q = r THEN TRUE ELSE entered[q]
  BY <1>3 DEF IInv, TypeOK
<1>7. TypeOK'
  BY <1>1, <1>3, <1>5, <1>6 DEF IInv, TypeOK, CallOK
<1>8. Arrived(r, generation[r])'
  BY <1>3, <1>6 DEF Arrived
<1>9. \A m \in Links : \A g \in Undelivered(m)' : g \in Undelivered(m) \/ Backed(m, g)'
  <2> SUFFICES ASSUME NEW m \in Links, NEW g \in Undelivered(m)', g \notin Undelivered(m)
               PROVE  Backed(m, g)'
    OBVIOUS
  <2>1. m[1] = r /\ g.body.arrive /\ g.body.generation = generation[r]
    BY <1>2, <1>5
  <2> QED BY <1>3, <1>8, <2>1 DEF Backed
<1>10. CallKnows(r)'
  BY <1>1, <1>3, <1>6 DEF CallKnows
<1> QED BY <1>3, <1>6, <1>7, <1>9, <1>10, StepKeeps DEF StableStep

(* The frame that lets a barrier call go on was backed. *)
LEMMA ExpectedFrame ==
  ASSUME IInv, NEW r \in Ranks, InRecvBarrier(r),
         NEW f \in Undelivered(<<call[r].peer, r>>),
         TakeBarrierFrame(<<call[r].peer, r>>, f), IsExpected(r, f),
         Return(<<call[r].peer, r>>, f)
  PROVE  /\ chan' \in [Links -> Seq(Frame)] /\ pending' \in [Links -> Seq(Frame)]
         /\ torn' \in [Links -> BOOLEAN]
         /\ got' \in [Links -> SUBSET Frame]
         /\ \A m \in Links : Undelivered(m)' \subseteq Undelivered(m)
         /\ call[r].op = "gather" => Arrived(call[r].peer, generation[r])
         /\ call[r].op = "await" => AllArrived(generation[r])
<1> DEFINE l == <<call[r].peer, r>>
<1>1. l \in Links /\ l[1] = call[r].peer
  BY CallLink DEF IInv
<1>2. /\ chan' \in [Links -> Seq(Frame)] /\ pending' \in [Links -> Seq(Frame)]
      /\ torn' \in [Links -> BOOLEAN]
      /\ f \in Frame
      /\ \A m \in Links : Undelivered(m)' \subseteq Undelivered(m)
  BY <1>1, BarrierFrameShrinks DEF IInv
<1> HIDE DEF l
<1>3. Backed(l, f)
  BY <1>1 DEF IInv, FramesBacked, l
<1>4. got' \in [Links -> SUBSET Frame]
  BY <1>1, <1>2 DEF Return, IInv, TypeOK, l
<1>5. /\ call[r].op = "gather" => Arrived(call[r].peer, generation[r])
      /\ call[r].op = "await" => AllArrived(generation[r])
  BY <1>1, <1>3 DEF Backed, IsExpected
<1> QED BY <1>2, <1>4, <1>5

LEMMA GatheredIInv ==
  ASSUME IInv, NEW r \in Ranks, Gathered(r)
  PROVE  IInv'
<1> DEFINE n == call[r].peer
           c == AfterGather(n)
<1>1. r = 0 /\ n \in Nat /\ n # 0 /\ n < WorldSize /\ alive[r] /\ call[r] # NoCall
  BY NoCallFacts DEF Gathered, InRecvBarrier, IInv, TypeOK, CallOK, Calls
<1>2. /\ call' = [call EXCEPT ![r] = c]
      /\ UNCHANGED <<sent, log, dropped, damaged, generation, alive, entered>>
  BY DEF Gathered
<1>3. /\ chan' \in [Links -> Seq(Frame)] /\ pending' \in [Links -> Seq(Frame)]
      /\ torn' \in [Links -> BOOLEAN]
      /\ got' \in [Links -> SUBSET Frame]
      /\ \A m \in Links : Undelivered(m)' \subseteq Undelivered(m)
      /\ Arrived(n, generation[r])
  BY ExpectedFrame DEF Gathered
<1>4. entered[r] /\ \A p \in 1 .. n - 1 : p \in Ranks => Arrived(p, generation[r])
  BY DEF IInv, GatherKnows, Gathered
<1>5. generation[r] < MaxGeneration
  BY DEF IInv, BelowBound, Gathered
<1>6. \A p \in 1 .. n : p \in Ranks => Arrived(p, generation[r])
  <2>1. \A p \in 1 .. n : p = n \/ p \in 1 .. n - 1
    BY <1>1
  <2> QED BY <1>3, <1>4, <2>1
<1>7. /\ c \in Calls
      /\ \/ n + 1 = WorldSize /\ c.op = "release" /\ c.peer = 1
         \/ c.op = "gather" /\ c.peer = n + 1
  BY <1>1, WorldSizeAssumption DEF AfterGather, Call, Calls, Ops, Streams
<1> HIDE DEF c, n
<1>8. \A q \in Ranks : call'[q] = IF q = r THEN c ELSE call[q]
  BY <1>2 DEF IInv, TypeOK
<1>9. TypeOK'
  BY <1>1, <1>2, <1>3, <1>7, <1>8 DEF IInv, TypeOK, CallOK
<1>10. \A p \in Ranks : Arrived(p, generation[r]) => Arrived(p, generation[r])'
  BY <1>2 DEF Arrived
<1>11. CallKnows(r)'
  <2>1. CASE n + 1 = WorldSize /\ c.op = "release"
    <3>1. \A p \in Ranks : p = 0 \/ p \in 1 .. n
      BY <1>1, <2>1, WorldSizeAssumption DEF Ranks
    <3>2. Arrived(0, generation[r])
      BY <1>1, <1>4 DEF Arrived
    <3>3. AllArrived(generation[r])
      BY <1>6, <3>1, <3>2 DEF AllArrived
    <3>4. AllArrived(generation[r])'
      BY <1>10, <3>3 DEF AllArrived
    <3> QED BY <1>2, <1>5, <1>8, <2>1, <3>4 DEF CallKnows
  <2>2. CASE c.op = "gather" /\ c.peer = n + 1
    <3>1. \A p \in 1 .. c.peer - 1 : p \in Ranks => Arrived(p, generation[r])'
      BY <1>1, <1>6, <1>10, <2>2
    <3> QED BY <1>2, <1>4, <1>5, <1>8, <2>2, <3>1 DEF CallKnows
  <2> QED BY <1>7, <2>1, <2>2
<1> QED BY <1>2, <1>3, <1>8, <1>9, <1>11, StepKeeps DEF StableStep, barrierState

LEMMA SendReleaseIInv ==
  ASSUME IInv, NEW r \in Ranks, SendRelease(r)
  PROVE  IInv'
<1> DEFINE n == call[r].peer
           l == <<r, n>>
           b == BarrierRelease(generation[r])
<1>1. r = 0 /\ n \in Nat /\ n # 0 /\ n < WorldSize /\ alive[r] /\ call[r] # NoCall
  BY NoCallFacts DEF SendRelease, IInv, TypeOK, CallOK, Calls
<1>2. b \in Bodies /\ b.arrive = FALSE /\ b.generation = generation[r]
  BY BoundsAssumption DEF BarrierRelease, Bodies, IInv, TypeOK
<1>3. /\ Write(l, BarrierStream, b)
      /\ call' = [call EXCEPT ![r].peer = @ + 1]
      /\ UNCHANGED <<pending, got, dropped, damaged, torn, generation, alive, entered>>
  BY DEF SendRelease
<1>4. l \in Links /\ BarrierStream \in Streams
  BY <1>1, WorldSizeAssumption DEF Links, Ranks, Streams
<1>5. AllArrived(generation[r]) /\ generation[r] < MaxGeneration
  BY DEF IInv, ReleaseKnows, BelowBound, SendRelease
<1>6. \A q \in Ranks \ {r} : call'[q] = call[q]
  BY <1>3 DEF IInv, TypeOK
<1>7. call'[r] \in Calls /\ call'[r].op = "release" /\ call'[r].peer = n + 1
  <2>1. call[r] \in Calls /\ call[r].op = "release"
    BY DEF SendRelease, IInv, TypeOK
  <2>2. call'[r] = [call[r] EXCEPT !.peer = n + 1]
    BY <1>3 DEF IInv, TypeOK
  <2>3. n + 1 \in 0 .. WorldSize
    BY <1>1, WorldSizeAssumption
  <2> HIDE DEF n
  <2> QED BY <2>1, <2>2, <2>3 DEF Calls
<1> HIDE DEF n, l, b
<1>8. /\ chan' \in [Links -> Seq(Frame)]
      /\ sent' \in [Links -> 0 .. MaxFrames] /\ log' \in [Links -> SUBSET Frame]
      /\ \A m \in Links : \A g \in Undelivered(m)' :
           g \in Undelivered(m) \/ (m = l /\ g.stream = BarrierStream /\ g.body = b)
  BY <1>2, <1>3, <1>4, WriteAdds DEF IInv
<1>9. call' \in [Ranks -> Calls]
  <2>1. DOMAIN call' = Ranks /\ call' = [q \in Ranks |-> call'[q]]
    BY <1>3 DEF IInv, TypeOK
  <2>2. \A q \in Ranks : call'[q] \in Calls
    BY <1>6, <1>7 DEF IInv, TypeOK
  <2> QED BY <2>1, <2>2
<1>10. TypeOK'
  BY <1>1, <1>3, <1>6, <1>7, <1>8, <1>9 DEF IInv, TypeOK, CallOK
<1>11. AllArrived(generation[r])'
  BY <1>3, <1>5 DEF AllArrived, Arrived
<1>12. \A m \in Links : \A g \in Undelivered(m)' : g \in Undelivered(m) \/ Backed(m, g)'
  <2> SUFFICES ASSUME NEW m \in Links, NEW g \in Undelivered(m)', g \notin Undelivered(m)
               PROVE  Backed(m, g)'
    OBVIOUS
  <2>1. g.body.arrive = FALSE /\ g.body.generation = generation[r]
    BY <1>2, <1>8
  <2> QED BY <1>3, <1>11, <2>1 DEF Backed
<1>13. CallKnows(r)'
  BY <1>3, <1>5, <1>7, <1>11 DEF CallKnows
<1> QED BY <1>3, <1>6, <1>10, <1>12, <1>13, StepKeeps DEF StableStep, barrierState

(* A call that succeeds: all ranks have arrived. *)
LEMMA AdvanceIInv ==
  ASSUME IInv, NEW r \in Ranks, Released(r) \/ Awaited(r)
  PROVE  IInv' /\ AllArrived(generation[r]) /\ Advance(r)
<1>1. Advance(r) /\ UNCHANGED <<sent, log, dropped, damaged, alive>>
  BY DEF Released, Awaited, transport
<1>2. /\ chan' \in [Links -> Seq(Frame)] /\ pending' \in [Links -> Seq(Frame)]
      /\ torn' \in [Links -> BOOLEAN]
      /\ got' \in [Links -> SUBSET Frame]
      /\ \A m \in Links : Undelivered(m)' \subseteq Undelivered(m)
      /\ AllArrived(generation[r])
  <2>1. CASE Released(r)
    <3>1. AllArrived(generation[r])
      <4>1. CASE call[r].op = "release"
        BY <4>1 DEF IInv, ReleaseKnows
      <4>2. CASE call[r].op = "gather" /\ WorldSize = 1
        <5>1. entered[r]
          BY <4>2 DEF IInv, GatherKnows
        <5>2. \A p \in Ranks : p = r
          BY <4>2 DEF Ranks
        <5> QED BY <5>1, <5>2 DEF AllArrived, Arrived
      <4> QED BY <2>1, <4>1, <4>2 DEF Released
    <3> QED BY <2>1, <3>1 DEF Released, transport, Undelivered, IInv, TypeOK
  <2>2. CASE Awaited(r)
    BY <2>2, ExpectedFrame DEF Awaited, InRecvBarrier
  <2> QED BY <2>1, <2>2
<1>3. generation[r] < MaxGeneration /\ generation[r] \in Nat
  BY BoundsAssumption DEF IInv, TypeOK, BelowBound, Released, Awaited
<1>4. generation' \in [Ranks -> 0 .. MaxGeneration] /\ entered' \in [Ranks -> BOOLEAN]
  BY <1>1, <1>3, BoundsAssumption DEF Advance, IInv, TypeOK
<1>5. /\ call' \in [Ranks -> Calls]
      /\ \A q \in Ranks : call'[q] = IF q = r THEN NoCall ELSE call[q]
      /\ \A q \in Ranks : call'[q] # NoCall => CallOK(q)'
  BY <1>1, EndCallTypes DEF Advance, IInv
<1>6. TypeOK'
  BY <1>1, <1>2, <1>4, <1>5 DEF IInv, TypeOK
<1>7. CallKnows(r)'
  BY <1>5, NoCallFacts DEF CallKnows
<1>8. IInv'
  BY <1>1, <1>2, <1>5, <1>6, <1>7, StepKeeps DEF StableStep, Advance
<1> QED BY <1>1, <1>2, <1>8

-----------------------------------------------------------------------------

LEMMA NextIInv == IInv /\ [Next]_vars => IInv'
<1> SUFFICES ASSUME IInv, [Next]_vars PROVE IInv'
  OBVIOUS
<1>1. CASE UNCHANGED vars
  BY <1>1 DEF vars, transport, IInv, TypeOK, CallOK, FramesBacked, Backed, Undelivered,
              GatherKnows, ReleaseKnows, BelowBound, AllArrived, Arrived
<1>2. CASE Next
  <2>1. PICK r \in Ranks : Traffic(r) \/ BarrierCall(r) \/ Failure(r)
    BY <1>2 DEF Next
  <2>2. CASE Traffic(r)
    BY <2>2, SendIInv, RecvPendingIInv, RecvWaitIInv, RecvMatchIInv, RetainIInv DEF Traffic
  <2>3. CASE BarrierCall(r)
    BY <2>3, BarrierGatherIInv, BarrierArrivesIInv, GatheredIInv, SendReleaseIInv,
       AdvanceIInv, RetainIInv, BarrierUnexpectedIInv DEF BarrierCall
  <2>4. CASE Failure(r)
    <3>1. \A p \in Peers(r) : <<p, r>> \in Links
      BY DEF Peers, Links
    <3> QED BY <2>4, <3>1, SendTornIInv, ResetIInv, CallFailsIInv, TimeoutMidFrameIInv,
               ReadGarbageIInv, CrashIInv DEF Failure
  <2> QED BY <2>1, <2>2, <2>3, <2>4
<1> QED BY <1>1, <1>2

(* Type correctness of the TCP endpoints. *)
THEOREM TypeCorrect == Spec => []TypeOK
<1>1. IInv => TypeOK
  BY DEF IInv
<1> QED BY InitIInv, NextIInv, <1>1, PTL DEF Spec

(* barrier() of the TCP transport (tcp.rs) implements the abstract         *)
(* barrier: it returns Ok only after every rank called it for the same     *)
(* generation, whatever timed out, was retried, was torn or crashed.       *)
THEOREM TcpImplementsBarrier == Spec => ImplementsBarrier
<1>0. Synchronisation!Ranks = Ranks /\ \A r \in Ranks : Synchronisation!Peers(r) = Peers(r)
  BY DEF Synchronisation!Ranks, Ranks, Synchronisation!Peers, Peers
<1>1. Init => Synchronisation!Init
  BY <1>0 DEF Init, Synchronisation!Init
<1>2. IInv /\ [Next]_vars => [Synchronisation!Next]_(Synchronisation!vars)
  <2> SUFFICES ASSUME IInv, [Next]_vars
               PROVE  Synchronisation!Next \/ UNCHANGED <<generation, entered>>
    BY DEF Synchronisation!vars
  <2>1. CASE UNCHANGED vars
    BY <2>1 DEF vars
  <2>2. CASE Next
    <3>1. PICK r \in Ranks : Traffic(r) \/ BarrierCall(r) \/ Failure(r)
      BY <2>2 DEF Next
    <3>2. CASE Traffic(r) \/ Failure(r)
      BY <3>2 DEF Traffic, Failure, Send, RecvPending, RecvWait, RecvMatch, RecvRetain,
                  SendTorn, Reset, CallFails, TimeoutMidFrame, ReadGarbage, Crash
    <3>3. CASE r = 0 /\ BarrierGather
      BY <1>0, <3>3 DEF BarrierGather, Synchronisation!Next, Synchronisation!Enter
    <3>4. CASE BarrierArrives(r)
      BY <1>0, <3>4 DEF BarrierArrives, Synchronisation!Next, Synchronisation!Enter
    <3>5. CASE Gathered(r) \/ SendRelease(r) \/ BarrierRetain(r) \/ BarrierUnexpected(r)
      BY <3>5 DEF Gathered, SendRelease, BarrierRetain, BarrierUnexpected
    <3>6. CASE Released(r) \/ Awaited(r)
      <4>1. AllArrived(generation[r]) /\ Advance(r)
        BY <3>6, AdvanceIInv
      <4>2. Synchronisation!Pass(r)
        BY <1>0, <4>1 DEF Synchronisation!Pass, AllArrived, Arrived, Advance, Peers
      <4> QED BY <1>0, <4>2 DEF Synchronisation!Next
    <3> QED BY <3>1, <3>2, <3>3, <3>4, <3>5, <3>6 DEF BarrierCall
  <2> QED BY <2>1, <2>2
<1> QED BY InitIInv, NextIInv, <1>1, <1>2, PTL DEF Spec, ImplementsBarrier, Synchronisation!Spec

-----------------------------------------------------------------------------
(* The order of the queues of one link: each is sorted by id, what was     *)
(* retained is older than what is still to be read, and nothing has an id  *)
(* that was not given out.                                                 *)
Sorted(s) == \A i, j \in 1 .. Len(s) : i < j => s[i].id < s[j].id
Ordered(p, c, n) ==
  /\ Sorted(p) /\ Sorted(c)
  /\ \A f \in ToSet(p), g \in ToSet(c) : f.id < g.id
  /\ \A f \in ToSet(p) \union ToSet(c) : f.id <= n

(* The framing of l is, or may come to be, out of step. *)
Mangled(l) == torn[l] = TRUE \/ \E f \in ToSet(chan[l]) : f.body = Fragment

LinkInv(l) ==
  /\ Ordered(pending[l], chan[l], sent[l])
  /\ \A f \in log[l] : f.id <= sent[l]
  /\ Mangled(l) => damaged[l] = TRUE

(* A receive that waits has searched what is retained. *)
Searched(r) ==
  call[r].op = "recv" =>
    \A f \in ToSet(pending[<<call[r].peer, r>>]) : f.stream # call[r].stream

QueueInv == (\A l \in Links : LinkInv(l)) /\ (\A r \in Ranks : Searched(r))

-----------------------------------------------------------------------------
(* What the operations on the queues do to their order. *)

LEMMA FrameIds ==
  ASSUME NEW s \in Seq(Frame)
  PROVE  /\ \A f \in ToSet(s) : f \in Frame /\ f.id \in Int
         /\ \A i \in 1 .. Len(s) : s[i] \in ToSet(s) /\ s[i] \in Frame /\ s[i].id \in Int
         /\ \A f \in ToSet(s) : \E i \in 1 .. Len(s) : f = s[i]
         /\ Len(s) \in Nat
<1>1. \A i \in 1 .. Len(s) : s[i] \in ToSet(s) /\ s[i] \in Frame
  BY DEF ToSet
<1>2. \A f \in ToSet(s) : \E i \in 1 .. Len(s) : f = s[i]
  BY DEF ToSet
<1> QED BY <1>1, <1>2, FrameFields

LEMMA EmptyOrdered ==
  ASSUME NEW p \in Seq(Frame), NEW c \in Seq(Frame), NEW n, Ordered(p, c, n)
  PROVE  Ordered(p, <<>>, n) /\ Ordered(<<>>, <<>>, n)
<1>1. ToSet(<<>>) = {} /\ Sorted(<<>>)
  BY DEF ToSet, Sorted
<1> QED BY <1>1 DEF Ordered

(* A new frame goes behind the others. *)
LEMMA AppendOrdered ==
  ASSUME NEW p \in Seq(Frame), NEW c \in Seq(Frame), NEW n \in Nat, Ordered(p, c, n),
         NEW f \in Frame, f.id = n + 1
  PROVE  Ordered(p, Append(c, f), n + 1) /\ f \notin ToSet(p) \union ToSet(c)
<1> DEFINE d == Append(c, f)
<1>1. /\ d \in Seq(Frame) /\ Len(d) = Len(c) + 1
      /\ \A i \in 1 .. Len(c) : d[i] = c[i]
      /\ d[Len(c) + 1] = f
      /\ ToSet(d) = ToSet(c) \union {f}
  BY AppendFacts
<1> HIDE DEF d
<1>2. \A g \in ToSet(p) \union ToSet(c) : g.id \in Int /\ g.id <= n
  BY FrameIds DEF Ordered
<1>3. Sorted(d)
  <2> SUFFICES ASSUME NEW i \in 1 .. Len(d), NEW j \in 1 .. Len(d), i < j
               PROVE  d[i].id < d[j].id
    BY DEF Sorted
  <2>0. Len(c) \in Nat
    OBVIOUS
  <2>1. i \in 1 .. Len(c) /\ d[i] = c[i] /\ c[i].id \in Int /\ c[i].id <= n
    BY <1>1, <1>2, <2>0, FrameIds
  <2>2. CASE j \in 1 .. Len(c)
    BY <1>1, <2>1, <2>2 DEF Ordered, Sorted
  <2>3. CASE j = Len(c) + 1
    BY <1>1, <2>1, <2>3
  <2>4. j \in 1 .. Len(c) \/ j = Len(c) + 1
    BY <1>1, <2>0
  <2> QED BY <2>2, <2>3, <2>4
<1>4. \A g \in ToSet(p), h \in ToSet(d) : g.id < h.id
  BY <1>1, <1>2 DEF Ordered
<1>5. \A g \in ToSet(p) \union ToSet(d) : g.id <= n + 1
  BY <1>1, <1>2
<1> QED BY <1>2, <1>3, <1>4, <1>5 DEF Ordered, d

(* The head is the oldest of what is to be read. *)
LEMMA HeadOrdered ==
  ASSUME NEW p \in Seq(Frame), NEW c \in Seq(Frame), NEW n, Ordered(p, c, n), c # <<>>
  PROVE  /\ Head(c) \in Frame /\ Head(c) \in ToSet(c)
         /\ Tail(c) \in Seq(Frame)
         /\ ToSet(Tail(c)) = ToSet(c) \ {Head(c)}
         /\ Head(c) \notin ToSet(p)
         /\ \A g \in ToSet(c) : Head(c).id <= g.id
         /\ \A g \in ToSet(Tail(c)) : Head(c).id < g.id
         /\ Ordered(p, Tail(c), n)
<1> DEFINE d == Tail(c)
           f == Head(c)
<1>1. /\ f = c[1] /\ f \in Frame
      /\ d \in Seq(Frame)
      /\ Len(c) >= 1 /\ Len(d) = Len(c) - 1
      /\ \A i \in 1 .. Len(d) : d[i] = c[i + 1]
      /\ ToSet(c) = ToSet(d) \union {c[1]}
  BY TailFacts
<1> HIDE DEF d, f
<1>0. Len(c) \in Nat
  OBVIOUS
<1>2. \A g \in ToSet(d) : f.id < g.id
  <2> SUFFICES ASSUME NEW g \in ToSet(d) PROVE f.id < g.id
    OBVIOUS
  <2>1. PICK i \in 1 .. Len(d) : g = d[i]
    BY <1>1, FrameIds
  <2>2. i + 1 \in 1 .. Len(c) /\ 1 \in 1 .. Len(c) /\ 1 < i + 1 /\ g = c[i + 1]
    BY <1>0, <1>1, <2>1
  <2> QED BY <1>1, <2>2 DEF Ordered, Sorted
<1>3. f.id \in Int /\ \A g \in ToSet(c) : g.id \in Int
  BY <1>1, FrameIds
<1>4. f \notin ToSet(d) /\ f \notin ToSet(p)
  <2>1. f \in ToSet(c) /\ ~(f.id < f.id)
    BY <1>1, <1>3
  <2> QED BY <1>2, <2>1 DEF Ordered
<1>5. Sorted(d)
  <2> SUFFICES ASSUME NEW i \in 1 .. Len(d), NEW j \in 1 .. Len(d), i < j
               PROVE  d[i].id < d[j].id
    BY DEF Sorted
  <2>1. i + 1 \in 1 .. Len(c) /\ j + 1 \in 1 .. Len(c) /\ i + 1 < j + 1
    BY <1>0, <1>1
  <2> QED BY <1>1, <2>1 DEF Ordered, Sorted
<1>6. Ordered(p, d, n)
  BY <1>1, <1>5 DEF Ordered
<1> QED BY <1>1, <1>2, <1>3, <1>4, <1>6 DEF d, f

(* A retained frame goes behind what was retained before. *)
LEMMA RetainOrdered ==
  ASSUME NEW p \in Seq(Frame), NEW d \in Seq(Frame), NEW n, Ordered(p, d, n),
         NEW f \in Frame, f.id <= n,
         \A g \in ToSet(p) : g.id < f.id,
         \A g \in ToSet(d) : f.id < g.id
  PROVE  /\ ToSet(Append(p, f)) = ToSet(p) \union {f}
         /\ Ordered(Append(p, f), d, n)
<1> DEFINE q == Append(p, f)
<1>2. /\ q \in Seq(Frame) /\ Len(q) = Len(p) + 1
      /\ \A i \in 1 .. Len(p) : q[i] = p[i]
      /\ q[Len(p) + 1] = f
      /\ ToSet(q) = ToSet(p) \union {f}
  BY AppendFacts
<1> HIDE DEF q
<1>3. Sorted(q)
  <2> SUFFICES ASSUME NEW i \in 1 .. Len(q), NEW j \in 1 .. Len(q), i < j
               PROVE  q[i].id < q[j].id
    BY DEF Sorted
  <2>0. Len(p) \in Nat
    OBVIOUS
  <2>1. i \in 1 .. Len(p) /\ q[i] = p[i] /\ p[i] \in ToSet(p)
    BY <1>2, <2>0, FrameIds
  <2>2. CASE j \in 1 .. Len(p)
    BY <1>2, <2>1, <2>2 DEF Ordered, Sorted
  <2>3. CASE j = Len(p) + 1
    BY <1>2, <2>1, <2>3
  <2>4. j \in 1 .. Len(p) \/ j = Len(p) + 1
    <3>1. Len(q) = Len(p) + 1
      BY <1>2
    <3> QED BY <2>0, <3>1
  <2> QED BY <2>2, <2>3, <2>4
<1>4. \A g \in ToSet(q), h \in ToSet(d) : g.id < h.id
  BY <1>2 DEF Ordered
<1>5. \A g \in ToSet(q) \union ToSet(d) : g.id <= n
  BY <1>2 DEF Ordered
<1>6. Ordered(q, d, n)
  BY <1>3, <1>4, <1>5 DEF Ordered
<1> QED BY <1>2, <1>6 DEF q

(* The first retained frame of a stream is the oldest of that stream. *)
LEMMA TakeOrdered ==
  ASSUME NEW p \in Seq(Frame), NEW c \in Seq(Frame), NEW n, Ordered(p, c, n),
         NEW k \in 1 .. Len(p),
         \A j \in 1 .. k - 1 : p[j].stream # p[k].stream
  PROVE  /\ RemoveAt(p, k) \in Seq(Frame) /\ p[k] \in Frame /\ p[k] \in ToSet(p)
         /\ ToSet(RemoveAt(p, k)) = ToSet(p) \ {p[k]}
         /\ p[k] \notin ToSet(c)
         /\ \A g \in ToSet(p) \union ToSet(c) : g.stream = p[k].stream => p[k].id <= g.id
         /\ Ordered(RemoveAt(p, k), c, n)
<1> DEFINE q == RemoveAt(p, k)
<1>0. Len(p) \in Nat /\ k \in Nat
  OBVIOUS
<1>1. /\ q \in Seq(Frame) /\ Len(q) = Len(p) - 1
      /\ \A i \in 1 .. Len(p) - 1 : q[i] = IF i < k THEN p[i] ELSE p[i + 1]
      /\ ToSet(p) = ToSet(q) \union {p[k]}
  BY RemoveAtFacts
<1> HIDE DEF q
<1>2. \A i \in 1 .. Len(q) : \E m \in 1 .. Len(p) :
         m # k /\ q[i] = p[m] /\ m = IF i < k THEN i ELSE i + 1
  <2> TAKE i \in 1 .. Len(q)
  <2> DEFINE m == IF i < k THEN i ELSE i + 1
  <2>1. m \in 1 .. Len(p) /\ m # k /\ q[i] = p[m]
    BY <1>0, <1>1
  <2> QED BY <2>1
<1>3. \A i, j \in 1 .. Len(p) : i # j => p[i].id # p[j].id
  <2> TAKE i, j \in 1 .. Len(p)
  <2>1. i \in Nat /\ j \in Nat /\ p[i].id \in Int /\ p[j].id \in Int
    BY FrameIds
  <2>2. CASE i < j
    BY <2>1, <2>2 DEF Ordered, Sorted
  <2>3. CASE j < i
    BY <2>1, <2>3 DEF Ordered, Sorted
  <2> QED BY <2>1, <2>2, <2>3
<1>4. p[k] \notin ToSet(q)
  <2> SUFFICES ASSUME NEW i \in 1 .. Len(q) PROVE q[i] # p[k]
    BY <1>1, FrameIds
  <2> QED BY <1>2, <1>3
<1>5. p[k] \in ToSet(p) /\ p[k] \in Frame /\ p[k].id \in Int
  BY FrameIds
<1>6. p[k] \notin ToSet(c)
  <2>1. ~(p[k].id < p[k].id)
    BY <1>5
  <2> QED BY <1>5, <2>1 DEF Ordered
<1>7. ASSUME NEW g \in ToSet(p) \union ToSet(c), g.stream = p[k].stream
      PROVE  p[k].id <= g.id
  <2>1. CASE g \in ToSet(c)
    <3>1. p[k].id < g.id /\ g.id \in Int
      BY <1>5, <2>1, FrameIds DEF Ordered
    <3> QED BY <1>5, <3>1
  <2>2. CASE g \in ToSet(p)
    <3>1. PICK j \in 1 .. Len(p) : g = p[j]
      BY <2>2, FrameIds
    <3>2. ~(j \in 1 .. k - 1)
      BY <1>7, <3>1
    <3>3. j = k \/ k < j
      BY <1>0, <3>2
    <3>4. CASE k < j
      <4>1. p[k].id < p[j].id /\ p[j].id \in Int
        BY <3>4, FrameIds DEF Ordered, Sorted
      <4> QED BY <1>5, <3>1, <4>1
    <3> QED BY <1>5, <3>1, <3>3, <3>4
  <2> QED BY <1>7, <2>1, <2>2
<1>8. Sorted(q)
  <2> SUFFICES ASSUME NEW i \in 1 .. Len(q), NEW j \in 1 .. Len(q), i < j
               PROVE  q[i].id < q[j].id
    BY DEF Sorted
  <2>1. PICK a \in 1 .. Len(p) : q[i] = p[a] /\ a = IF i < k THEN i ELSE i + 1
    BY <1>2
  <2>2. PICK b \in 1 .. Len(p) : q[j] = p[b] /\ b = IF j < k THEN j ELSE j + 1
    BY <1>2
  <2>3. a < b
    BY <1>0, <1>1, <2>1, <2>2
  <2> QED BY <2>1, <2>2, <2>3 DEF Ordered, Sorted
<1>9. Ordered(q, c, n)
  BY <1>1, <1>8 DEF Ordered
<1> QED BY <1>1, <1>4, <1>5, <1>6, <1>7, <1>9 DEF q

(* What a reader out of step skips. *)
LEMMA SuffixOrdered ==
  ASSUME NEW p \in Seq(Frame), NEW c \in Seq(Frame), NEW n, Ordered(p, c, n),
         NEW m \in 0 .. Len(c)
  PROVE  /\ SubSeq(c, m + 1, Len(c)) \in Seq(Frame)
         /\ ToSet(SubSeq(c, m + 1, Len(c))) \subseteq ToSet(c)
         /\ Ordered(p, SubSeq(c, m + 1, Len(c)), n)
         /\ m > 0 => \A g \in ToSet(SubSeq(c, m + 1, Len(c))) : Head(c).id < g.id
<1> DEFINE d == SubSeq(c, m + 1, Len(c))
<1>1. /\ d \in Seq(Frame) /\ Len(d) = Len(c) - m /\ Len(c) \in Nat /\ m \in Nat
      /\ \A i \in 1 .. Len(c) - m : d[i] = c[m + i]
  OBVIOUS
<1> HIDE DEF d
<1>2. \A i \in 1 .. Len(d) : m + i \in 1 .. Len(c) /\ d[i] = c[m + i]
  BY <1>1
<1>3. ToSet(d) \subseteq ToSet(c)
  <2> SUFFICES ASSUME NEW i \in 1 .. Len(d) PROVE d[i] \in ToSet(c)
    BY <1>1, FrameIds
  <2> QED BY <1>2, FrameIds
<1>4. Sorted(d)
  <2> SUFFICES ASSUME NEW i \in 1 .. Len(d), NEW j \in 1 .. Len(d), i < j
               PROVE  d[i].id < d[j].id
    BY DEF Sorted
  <2>1. m + i < m + j
    BY <1>1
  <2> QED BY <1>2, <2>1 DEF Ordered, Sorted
<1>5. Ordered(p, d, n)
  BY <1>3, <1>4 DEF Ordered
<1>6. ASSUME m > 0, NEW g \in ToSet(d) PROVE Head(c).id < g.id
  <2>1. PICK i \in 1 .. Len(d) : g = d[i]
    BY <1>1, FrameIds
  <2>2. m + i \in 1 .. Len(c) /\ 1 \in 1 .. Len(c) /\ 1 < m + i /\ g = c[m + i]
    BY <1>1, <1>2, <1>6, <2>1
  <2>3. Head(c) = c[1]
    BY <2>2
  <2> QED BY <2>2, <2>3 DEF Ordered, Sorted
<1> QED BY <1>1, <1>3, <1>5, <1>6 DEF d

-----------------------------------------------------------------------------
(* What the steps on the queues of a link do, for all links. *)

LEMMA LinkKept ==
  ASSUME NEW m \in Links, LinkInv(m),
         pending'[m] = pending[m], chan'[m] = chan[m], sent'[m] = sent[m], log'[m] = log[m],
         torn'[m] = torn[m], damaged'[m] = damaged[m]
  PROVE  LinkInv(m)'
BY DEF LinkInv, Mangled

LEMMA SearchedKept ==
  ASSUME TypeOK, QueueInv,
         \A m \in Links : ToSet(pending'[m]) \subseteq ToSet(pending[m]),
         \A r \in Ranks : call'[r] = call[r] \/ call'[r].op # "recv"
  PROVE  \A r \in Ranks : Searched(r)'
<1> SUFFICES ASSUME NEW r \in Ranks, call'[r] = call[r], call[r].op = "recv"
             PROVE  Searched(r)'
  BY DEF Searched
<1>1. <<call[r].peer, r>> \in Links
  BY CallLink
<1>2. \A f \in ToSet(pending[<<call[r].peer, r>>]) : f.stream # call[r].stream
  BY DEF QueueInv, Searched
<1> QED BY <1>1, <1>2 DEF Searched

LEMMA TakeEffect ==
  ASSUME TypeOK, QueueInv, NEW l \in Links, NEW stream, NEW f, TakePending(l, stream, f)
  PROVE  /\ f \in Frame /\ f \in Undelivered(l) /\ f.stream = stream
         /\ \A g \in Undelivered(l) : g.stream = f.stream => f.id <= g.id
         /\ ToSet(pending'[l]) \union ToSet(chan[l]) = Undelivered(l) \ {f}
         /\ Ordered(pending'[l], chan[l], sent[l])
         /\ \A m \in Links \ {l} : pending'[m] = pending[m]
         /\ \A m \in Links : ToSet(pending'[m]) \subseteq ToSet(pending[m])
<1>1. PICK k \in 1 .. Len(pending[l]) :
        /\ f = pending[l][k] /\ f.stream = stream
        /\ \A j \in 1 .. k - 1 : pending[l][j].stream # stream
        /\ pending' = [pending EXCEPT ![l] = RemoveAt(@, k)]
  BY DEF TakePending
<1>2. pending[l] \in Seq(Frame) /\ chan[l] \in Seq(Frame) /\ Ordered(pending[l], chan[l], sent[l])
  BY DEF TypeOK, QueueInv, LinkInv
<1> DEFINE q == RemoveAt(pending[l], k)
<1>3. /\ f \in Frame /\ f \in ToSet(pending[l])
      /\ ToSet(q) = ToSet(pending[l]) \ {f}
      /\ f \notin ToSet(chan[l])
      /\ \A g \in ToSet(pending[l]) \union ToSet(chan[l]) : g.stream = f.stream => f.id <= g.id
      /\ Ordered(q, chan[l], sent[l])
  BY <1>1, <1>2, TakeOrdered
<1> HIDE DEF q
<1>4. pending'[l] = q /\ \A m \in Links \ {l} : pending'[m] = pending[m]
  BY <1>1 DEF TypeOK, q
<1> QED BY <1>1, <1>3, <1>4 DEF Undelivered

(* A read of the head, whole or completed: what follows it on the stream   *)
(* stays, or the link was damaged before.                                  *)
LEMMA ReadEffect ==
  ASSUME TypeOK, QueueInv, NEW l \in Links, Readable(l), ReadHead(l)
  PROVE  /\ Head(chan[l]) \in Frame /\ Head(chan[l]) \in ToSet(chan[l])
         /\ Head(chan[l]) \notin ToSet(pending[l]) /\ Head(chan[l]).id <= sent[l]
         /\ \A g \in ToSet(chan[l]) : Head(chan[l]).id <= g.id
         /\ chan'[l] \in Seq(Frame)
         /\ ToSet(chan'[l]) \subseteq ToSet(chan[l]) \ {Head(chan[l])}
         /\ \A g \in ToSet(chan'[l]) : Head(chan[l]).id < g.id
         /\ \/ ToSet(chan'[l]) = ToSet(chan[l]) \ {Head(chan[l])}
            \/ Head(chan[l]).body = Fragment /\ damaged[l] = TRUE
         /\ Ordered(pending[l], chan'[l], sent[l])
         /\ Mangled(l)' => damaged[l] = TRUE
         /\ \A m \in Links \ {l} : chan'[m] = chan[m] /\ torn'[m] = torn[m]
<1> DEFINE c == chan[l]
           f == Head(c)
<1>1. /\ pending[l] \in Seq(Frame) /\ c \in Seq(Frame) /\ c # <<>>
      /\ Ordered(pending[l], c, sent[l])
      /\ Mangled(l) => damaged[l] = TRUE
  BY DEF TypeOK, QueueInv, LinkInv, Readable
<1>2. /\ f \in Frame /\ f \in ToSet(c)
      /\ Tail(c) \in Seq(Frame)
      /\ ToSet(Tail(c)) = ToSet(c) \ {f}
      /\ f \notin ToSet(pending[l])
      /\ \A g \in ToSet(c) : f.id <= g.id
      /\ \A g \in ToSet(Tail(c)) : f.id < g.id
      /\ Ordered(pending[l], Tail(c), sent[l])
  BY <1>1, HeadOrdered
<1>3. f.id <= sent[l] /\ f.id \in Int
  BY <1>1, <1>2, FrameFields DEF Ordered
<1>4. CASE f.body # Fragment /\ chan' = [chan EXCEPT ![l] = Tail(@)] /\ UNCHANGED torn
  <2>1. chan'[l] = Tail(c) /\ \A m \in Links \ {l} : chan'[m] = chan[m] /\ torn'[m] = torn[m]
    BY <1>4 DEF TypeOK
  <2>2. Mangled(l)' => Mangled(l)
    BY <1>2, <1>4, <2>1 DEF Mangled
  <2> HIDE DEF f, c
  <2>3. /\ chan'[l] \in Seq(Frame) /\ ToSet(chan'[l]) = ToSet(c) \ {f}
        /\ \A g \in ToSet(chan'[l]) : f.id < g.id
        /\ Ordered(pending[l], chan'[l], sent[l])
    BY <1>2, <2>1
  <2> QED BY <1>1, <1>2, <1>3, <2>1, <2>2, <2>3 DEF f, c
<1>5. CASE f.body = Fragment /\ ReadOn(l, 2)
  <2>0. PICK n \in 0 .. Len(c) :
          /\ chan' = [chan EXCEPT ![l] = SubSeq(@, n + 1, Len(@))]
          /\ \/ n >= 2 /\ torn' = [torn EXCEPT ![l] = FALSE]
             \/ n >= 2 - 1 /\ torn' = [torn EXCEPT ![l] = TRUE]
    BY <1>5 DEF ReadOn
  <2>1. /\ n > 0
        /\ chan' = [chan EXCEPT ![l] = SubSeq(@, n + 1, Len(@))]
        /\ torn' = [torn EXCEPT ![l] = FALSE] \/ torn' = [torn EXCEPT ![l] = TRUE]
    BY <2>0
  <2>2. PICK d : d = SubSeq(c, n + 1, Len(c))
    OBVIOUS
  <2>3. chan'[l] = d /\ \A m \in Links \ {l} : chan'[m] = chan[m] /\ torn'[m] = torn[m]
    BY <2>1, <2>2 DEF TypeOK
  <2> HIDE DEF c
  <2>4. /\ d \in Seq(Frame) /\ ToSet(d) \subseteq ToSet(c) /\ Ordered(pending[l], d, sent[l])
        /\ \A g \in ToSet(d) : f.id < g.id
    BY <1>1, <2>1, <2>2, SuffixOrdered
  <2>5. damaged[l] = TRUE
    BY <1>1, <1>2, <1>5 DEF Mangled, c
  <2> HIDE DEF f
  <2>6. f \notin ToSet(d)
    BY <1>3, <2>4
  <2> QED BY <1>2, <1>3, <1>5, <2>3, <2>4, <2>5, <2>6 DEF f, c
<1> QED BY <1>4, <1>5 DEF ReadHead

LEMMA BarrierFrameEffect ==
  ASSUME TypeOK, QueueInv, NEW l \in Links, NEW f, TakeBarrierFrame(l, f)
  PROVE  /\ f \in Frame /\ f \in Undelivered(l)
         /\ f.stream = BarrierStream =>
              \A g \in Undelivered(l) : g.stream = f.stream => f.id <= g.id
         /\ Undelivered(l)' \subseteq Undelivered(l) \ {f}
         /\ \/ Undelivered(l)' = Undelivered(l) \ {f}
            \/ f.body = Fragment /\ damaged[l] = TRUE
         /\ Ordered(pending'[l], chan'[l], sent[l])
         /\ Mangled(l)' => damaged[l] = TRUE
         /\ \A m \in Links \ {l} :
              pending'[m] = pending[m] /\ chan'[m] = chan[m] /\ torn'[m] = torn[m]
         /\ \A m \in Links : ToSet(pending'[m]) \subseteq ToSet(pending[m])
<1>1. CASE TakePending(l, BarrierStream, f) /\ UNCHANGED <<chan, torn>>
  <2>1. Mangled(l)' => damaged[l] = TRUE
    BY <1>1 DEF Mangled, QueueInv, LinkInv
  <2> QED BY <1>1, <2>1, TakeEffect DEF Undelivered
<1>2. CASE /\ ~Retains(l, BarrierStream) /\ Readable(l) /\ f = Head(chan[l])
           /\ ReadHead(l) /\ UNCHANGED pending
  <2>1. /\ f \in Frame /\ f \in ToSet(chan[l]) /\ f \notin ToSet(pending[l])
        /\ \A g \in ToSet(chan[l]) : f.id <= g.id
        /\ ToSet(chan'[l]) \subseteq ToSet(chan[l]) \ {f}
        /\ \/ ToSet(chan'[l]) = ToSet(chan[l]) \ {f}
           \/ f.body = Fragment /\ damaged[l] = TRUE
        /\ Ordered(pending[l], chan'[l], sent[l])
        /\ Mangled(l)' => damaged[l] = TRUE
        /\ \A m \in Links \ {l} : chan'[m] = chan[m] /\ torn'[m] = torn[m]
    BY <1>2, ReadEffect
  <2>2. \A g \in ToSet(pending[l]) : g.stream # BarrierStream
    <3>1. pending[l] \in Seq(Frame)
      BY DEF TypeOK
    <3> QED BY <1>2, <3>1, FrameIds DEF Retains
  <2> QED BY <1>2, <2>1, <2>2 DEF Undelivered
<1> QED BY <1>1, <1>2 DEF TakeBarrierFrame

LEMMA RetainEffect ==
  ASSUME TypeOK, QueueInv, NEW l \in Links, Readable(l), ReadHead(l), Retain(l)
  PROVE  /\ Undelivered(l)' \subseteq Undelivered(l)
         /\ Undelivered(l)' = Undelivered(l) \/ damaged[l] = TRUE
         /\ Ordered(pending'[l], chan'[l], sent[l])
         /\ Mangled(l)' => damaged[l] = TRUE
         /\ ToSet(pending'[l]) = ToSet(pending[l]) \union {Head(chan[l])}
         /\ \A m \in Links \ {l} :
              pending'[m] = pending[m] /\ chan'[m] = chan[m] /\ torn'[m] = torn[m]
<1>1. PICK f : f = Head(chan[l])
  OBVIOUS
<1>2. /\ f \in Frame /\ f \in ToSet(chan[l]) /\ f.id <= sent[l]
      /\ chan'[l] \in Seq(Frame)
      /\ ToSet(chan'[l]) \subseteq ToSet(chan[l]) \ {f}
      /\ \A g \in ToSet(chan'[l]) : f.id < g.id
      /\ ToSet(chan'[l]) = ToSet(chan[l]) \ {f} \/ damaged[l] = TRUE
      /\ Ordered(pending[l], chan'[l], sent[l])
      /\ Mangled(l)' => damaged[l] = TRUE
      /\ \A m \in Links \ {l} : chan'[m] = chan[m] /\ torn'[m] = torn[m]
  BY <1>1, ReadEffect
<1>3. pending[l] \in Seq(Frame) /\ \A g \in ToSet(pending[l]) : g.id < f.id
  BY <1>2 DEF TypeOK, QueueInv, LinkInv, Ordered
<1>4. PICK q : q = Append(pending[l], f)
  OBVIOUS
<1>5. ToSet(q) = ToSet(pending[l]) \union {f} /\ Ordered(q, chan'[l], sent[l])
  BY <1>2, <1>3, <1>4, RetainOrdered
<1>6. pending'[l] = q /\ \A m \in Links \ {l} : pending'[m] = pending[m]
  BY <1>1, <1>4 DEF TypeOK, Retain
<1>7. /\ Undelivered(l)' = ToSet(q) \union ToSet(chan'[l])
      /\ Undelivered(l) = ToSet(pending[l]) \union ToSet(chan[l])
  BY <1>6 DEF Undelivered
<1> QED BY <1>1, <1>2, <1>5, <1>6, <1>7

-----------------------------------------------------------------------------
(* The abstract steps. *)

Boxes == [l \in Links |-> Undelivered(l)]
Severed == [l \in Links |-> damaged[l] \/ dropped[l] # {}]

LEMMA SameLinks == Transport!Links = Links
BY DEF Transport!Links, Links, Transport!Ranks, Ranks

Parts == {f \in Frame : f.body = Fragment}

LEMMA Delivered ==
  ASSUME NEW l \in Links, NEW f \in Frame, f \in Undelivered(l),
         \A g \in Undelivered(l) : g.stream = f.stream => f.id <= g.id,
         Undelivered(l)' \subseteq Undelivered(l) \ {f},
         Undelivered(l)' = Undelivered(l) \ {f} \/ f.body = Fragment,
         \A m \in Links \ {l} : Undelivered(m)' = Undelivered(m),
         Return(l, f), UNCHANGED <<log, dropped, damaged>>
  PROVE  Transport!Next
<1> DEFINE lost == (Undelivered(l) \ {f}) \ Undelivered(l)'
<1>1. lost \in SUBSET Boxes[l] /\ (lost # {} => f \in Parts)
  BY DEF Boxes, Parts
<1>2. Undelivered(l)' = Undelivered(l) \ (lost \union {f})
  OBVIOUS
<1> HIDE DEF lost
<1>3. Boxes' = [Boxes EXCEPT ![l] = @ \ (lost \union {f})]
  BY <1>2 DEF Boxes
<1>4. got' = [got EXCEPT ![l] = @ \union {f}] /\ Severed' = Severed
  BY DEF Return, Severed
<1>5. f \in Boxes[l] /\ \A g \in Boxes[l] : g.stream = f.stream => f.id <= g.id
  BY DEF Boxes
<1>6. Transport!Deliver(l, f)
  BY <1>1, <1>3, <1>4, <1>5 DEF Transport!Deliver, Boxes, Severed, Parts
<1> QED BY <1>5, <1>6, SameLinks DEF Transport!Next, Boxes

LEMMA Lost ==
  ASSUME TypeOK,
         \A m \in Links : Undelivered(m)' \subseteq Undelivered(m),
         \A m \in Links : Severed[m] => Severed'[m],
         \A m \in Links : Undelivered(m)' # Undelivered(m) => Severed'[m],
         UNCHANGED <<log, got>>
  PROVE  Transport!Next
<1>1. \A m \in Links : Boxes[m] = Undelivered(m) /\ Boxes'[m] = Undelivered(m)'
  BY DEF Boxes
<1>2. Boxes' \in [Links -> SUBSET Frame]
  <2>1. \A m \in Links : Undelivered(m)' \subseteq Frame
    BY UndeliveredFrames
  <2> QED BY <2>1 DEF Boxes
<1>3. Severed' \in [Links -> BOOLEAN]
  <2>1. \A m \in Links : (damaged'[m] \/ dropped'[m] # {}) \in BOOLEAN
    BY Zenon
  <2>2. Severed' = [m \in Links |-> damaged'[m] \/ dropped'[m] # {}]
    BY DEF Severed
  <2> QED BY <2>1, <2>2, Zenon
<1>4. Transport!Fail
  BY <1>1, <1>2, <1>3, SameLinks DEF Transport!Fail, Boxes, Severed
<1> QED BY <1>4 DEF Transport!Next

LEMMA Unnoticed ==
  ASSUME \A m \in Links : Undelivered(m)' = Undelivered(m),
         UNCHANGED <<log, got, dropped, damaged>>
  PROVE  UNCHANGED Transport!vars
<1>1. Boxes' = Boxes /\ Severed' = Severed
  BY DEF Boxes, Severed
<1> QED BY <1>1 DEF Transport!vars, Boxes, Severed

-----------------------------------------------------------------------------
(* Every step keeps QueueInv and is a step of the abstract transport. *)

StreamStep == QueueInv' /\ (Transport!Next \/ UNCHANGED Transport!vars)

(* A link is damaged and may lose what is in its queues. *)
LEMMA DamagedStep ==
  ASSUME TypeOK, QueueInv, UNCHANGED <<sent, log, got, dropped>>,
         \A m \in Links : /\ Ordered(pending'[m], chan'[m], sent[m])
                          /\ Undelivered(m)' \subseteq Undelivered(m)
                          /\ ToSet(pending'[m]) \subseteq ToSet(pending[m])
                          /\ damaged[m] = TRUE => damaged'[m] = TRUE
                          /\ Undelivered(m)' # Undelivered(m) => damaged'[m] = TRUE
                          /\ Mangled(m)' => damaged'[m] = TRUE,
         \A r \in Ranks : call'[r] = call[r] \/ call'[r].op # "recv"
  PROVE  StreamStep
<1>1. \A r \in Ranks : Searched(r)'
  BY SearchedKept
<1>2. \A m \in Links : LinkInv(m)'
  <2> TAKE m \in Links
  <2>1. LinkInv(m)
    BY DEF QueueInv
  <2> QED BY <2>1 DEF LinkInv
<1>3. \A m \in Links : /\ Severed[m] = (damaged[m] \/ dropped[m] # {})
                       /\ Severed'[m] = (damaged'[m] \/ dropped[m] # {})
  BY DEF Severed
<1>4. ASSUME NEW m \in Links
      PROVE  /\ Severed[m] => Severed'[m]
             /\ Undelivered(m)' # Undelivered(m) => Severed'[m]
  <2>1. damaged[m] = TRUE \/ damaged[m] = FALSE
    BY DEF TypeOK
  <2> QED BY <1>3, <2>1
<1>5. Transport!Next
  BY <1>4, Lost
<1> QED BY <1>1, <1>2, <1>5 DEF StreamStep, QueueInv

LEMMA WriteStep ==
  ASSUME TypeOK, QueueInv, NEW l \in Links, NEW stream \in Streams, NEW body \in Bodies,
         Write(l, stream, body), UNCHANGED <<pending, got, dropped, torn>>,
         \/ body # Fragment /\ damaged' = damaged
         \/ body = Fragment /\ damaged' = [damaged EXCEPT ![l] = TRUE],
         \A r \in Ranks : call'[r] = call[r] \/ call'[r].op # "recv"
  PROVE  StreamStep
<1>1. \A r \in Ranks : Searched(r)'
  BY SearchedKept
<1>0. /\ \A m \in Links : damaged[m] = TRUE => damaged'[m] = TRUE
      /\ \A m \in Links \ {l} : damaged'[m] = damaged[m]
  BY DEF TypeOK
<1>2. CASE ~alive[l[2]]
  <2>1. UNCHANGED <<chan, sent, log>>
    BY <1>2 DEF Write
  <2>2. \A m \in Links : Undelivered(m)' = Undelivered(m) /\ (Mangled(m)' => Mangled(m))
    BY <2>1 DEF Undelivered, Mangled
  <2>3. \A m \in Links : /\ Ordered(pending'[m], chan'[m], sent[m])
                         /\ Mangled(m) => damaged[m] = TRUE
    BY <2>1 DEF QueueInv, LinkInv
  <2> QED BY <1>0, <2>1, <2>2, <2>3, DamagedStep
<1>3. CASE alive[l[2]]
  <2>1. PICK f : f = [stream |-> stream, body |-> body, id |-> sent[l] + 1]
    OBVIOUS
  <2>2. /\ sent[l] < MaxFrames
        /\ chan' = [chan EXCEPT ![l] = Append(@, f)]
        /\ sent' = [sent EXCEPT ![l] = @ + 1]
        /\ log' = [log EXCEPT ![l] = @ \union {f}]
    BY <1>3, <2>1 DEF Write
  <2>3. sent[l] \in Nat /\ f \in Frame /\ f.id = sent[l] + 1 /\ f.body = body
    BY <2>1, <2>2, BoundsAssumption DEF TypeOK, Frame
  <2>4. /\ pending[l] \in Seq(Frame) /\ chan[l] \in Seq(Frame)
        /\ Ordered(pending[l], chan[l], sent[l]) /\ \A g \in log[l] : g.id <= sent[l]
    BY DEF TypeOK, QueueInv, LinkInv
  <2>5. Ordered(pending[l], Append(chan[l], f), sent[l] + 1)
    BY <2>3, <2>4, AppendOrdered
  <2>6. ToSet(Append(chan[l], f)) = ToSet(chan[l]) \union {f}
    BY <2>3, <2>4, AppendFacts
  <2>7. /\ chan'[l] = Append(chan[l], f) /\ sent'[l] = sent[l] + 1
        /\ log'[l] = log[l] \union {f}
        /\ \A m \in Links \ {l} : chan'[m] = chan[m] /\ sent'[m] = sent[m] /\ log'[m] = log[m]
    BY <2>2 DEF TypeOK
  <2>8. \A g \in log[l] : g.id < f.id
    <3> TAKE g \in log[l]
    <3>1. g.id \in Int /\ g.id <= sent[l]
      BY <2>4, FrameFields DEF TypeOK
    <3> QED BY <2>3, <3>1
  <2>9. LinkInv(l)'
    <3>1. \A g \in log'[l] : g.id <= sent[l] + 1
      <4> TAKE g \in log'[l]
      <4>1. g \in log[l] \/ g = f
        BY <2>7
      <4>2. g.id \in Int /\ (g \in log[l] => g.id <= sent[l])
        BY <2>3, <2>4, <4>1, FrameFields DEF TypeOK
      <4> QED BY <2>3, <4>1, <4>2
    <3>2. Mangled(l)' => damaged'[l] = TRUE
      <4>1. CASE f.body = Fragment
        BY <2>3, <4>1 DEF TypeOK
      <4>2. CASE f.body # Fragment
        <5>1. Mangled(l)' => Mangled(l)
          BY <2>6, <2>7, <4>2 DEF Mangled
        <5> QED BY <1>0, <5>1 DEF QueueInv, LinkInv
      <4> QED BY <4>1, <4>2
    <3> QED BY <2>5, <2>7, <3>1, <3>2 DEF LinkInv
  <2>10. \A m \in Links \ {l} : LinkInv(m)'
    BY <1>0, <2>7, LinkKept DEF QueueInv
  <2>11. Boxes' = [Boxes EXCEPT ![l] = @ \union {f}]
    BY <2>6, <2>7 DEF Boxes, Undelivered
  <2>12. f \in Parts <=> body = Fragment
    BY <2>3 DEF Parts
  <2>13. ASSUME body # Fragment, damaged' = damaged PROVE Transport!Next
    <3>1. Severed' = Severed
      BY <2>13 DEF Severed
    <3>2. Transport!Send(l, f)
      BY <2>2, <2>8, <2>11, <2>12, <2>13, <3>1 DEF Transport!Send, Boxes, Severed, Parts
    <3> QED BY <2>3, <3>2, SameLinks DEF Transport!Next
  <2>14. ASSUME body = Fragment, damaged' = [damaged EXCEPT ![l] = TRUE]
         PROVE  Transport!Next
    <3>1. damaged'[l] = TRUE
      BY <2>14 DEF TypeOK
    <3>2. Severed' = [Severed EXCEPT ![l] = TRUE]
      BY <1>0, <3>1 DEF Severed
    <3>3. Transport!SendPart(l, f)
      BY <2>2, <2>8, <2>11, <2>12, <2>14, <3>2 DEF Transport!SendPart, Boxes, Severed, Parts
    <3> QED BY <2>3, <3>3, SameLinks DEF Transport!Next
  <2> QED BY <1>1, <2>9, <2>10, <2>13, <2>14 DEF StreamStep, QueueInv
<1> QED BY <1>2, <1>3

(* A frame has left the queues of l. *)
LEMMA TakenStep ==
  ASSUME TypeOK, QueueInv, NEW l \in Links, NEW f \in Frame, f \in Undelivered(l),
         Undelivered(l)' \subseteq Undelivered(l) \ {f},
         \/ Undelivered(l)' = Undelivered(l) \ {f}
         \/ f.body = Fragment /\ damaged[l] = TRUE,
         Ordered(pending'[l], chan'[l], sent[l]),
         Mangled(l)' => damaged[l] = TRUE,
         \A m \in Links \ {l} :
           pending'[m] = pending[m] /\ chan'[m] = chan[m] /\ torn'[m] = torn[m],
         \A m \in Links : ToSet(pending'[m]) \subseteq ToSet(pending[m]),
         \A r \in Ranks : call'[r] = call[r] \/ call'[r].op # "recv",
         UNCHANGED <<sent, log, damaged>>,
         \/ /\ \A g \in Undelivered(l) : g.stream = f.stream => f.id <= g.id
            /\ Return(l, f) /\ dropped' = dropped
         \/ dropped' = [dropped EXCEPT ![l] = @ \union {f}] /\ got' = got
  PROVE  StreamStep
<1>1. \A r \in Ranks : Searched(r)'
  BY SearchedKept
<1>2. LinkInv(l)'
  BY DEF LinkInv, QueueInv
<1>3. \A m \in Links \ {l} : LinkInv(m)' /\ Undelivered(m)' = Undelivered(m)
  BY LinkKept DEF QueueInv, Undelivered
<1>4. ASSUME \A g \in Undelivered(l) : g.stream = f.stream => f.id <= g.id,
             Return(l, f), dropped' = dropped
      PROVE  Transport!Next
  BY <1>3, <1>4, Delivered
<1>5. ASSUME dropped' = [dropped EXCEPT ![l] = @ \union {f}], got' = got
      PROVE  Transport!Next
  <2>1. dropped'[l] # {} /\ \A m \in Links \ {l} : dropped'[m] = dropped[m]
    BY <1>5 DEF TypeOK
  <2>2. \A m \in Links : Severed[m] = (damaged[m] \/ dropped[m] # {})
                         /\ Severed'[m] = (damaged[m] \/ dropped'[m] # {})
    BY DEF Severed
  <2>3. Severed'[l] /\ \A m \in Links : Severed[m] => Severed'[m]
    BY <2>1, <2>2
  <2>4. \A m \in Links : Undelivered(m)' \subseteq Undelivered(m)
    BY <1>3
  <2> QED BY <1>3, <1>5, <2>3, <2>4, Lost
<1>6. Transport!Next
  BY <1>4, <1>5
<1> QED BY <1>1, <1>2, <1>3, <1>6 DEF StreamStep, QueueInv

LEMMA RecvPendingStep ==
  ASSUME TypeOK, QueueInv, NEW r \in Ranks, NEW s \in Peers(r), NEW stream \in AppStreams,
         RecvPending(r, s, stream)
  PROVE  StreamStep
<1>1. PICK l : l = <<s, r>>
  OBVIOUS
<1>2. l \in Links
  BY <1>1 DEF Links, Peers
<1>3. PICK f \in Undelivered(l) : TakePending(l, stream, f) /\ Return(l, f)
  BY <1>1 DEF RecvPending
<1>4. UNCHANGED <<chan, sent, log, dropped, damaged, torn, call>>
  BY DEF RecvPending
<1>5. /\ f \in Frame /\ f \in Undelivered(l)
      /\ \A g \in Undelivered(l) : g.stream = f.stream => f.id <= g.id
      /\ ToSet(pending'[l]) \union ToSet(chan[l]) = Undelivered(l) \ {f}
      /\ Ordered(pending'[l], chan[l], sent[l])
      /\ \A m \in Links \ {l} : pending'[m] = pending[m]
      /\ \A m \in Links : ToSet(pending'[m]) \subseteq ToSet(pending[m])
  BY <1>2, <1>3, TakeEffect
<1>6. Undelivered(l)' = Undelivered(l) \ {f}
  BY <1>4, <1>5 DEF Undelivered
<1>7. Mangled(l)' => damaged[l] = TRUE
  BY <1>2, <1>4 DEF Mangled, QueueInv, LinkInv
<1> QED BY <1>2, <1>3, <1>4, <1>5, <1>6, <1>7, TakenStep

LEMMA RecvWaitStep ==
  ASSUME TypeOK, QueueInv, NEW r \in Ranks, NEW s \in Peers(r), NEW stream \in AppStreams,
         RecvWait(r, s, stream)
  PROVE  StreamStep
<1>1. /\ UNCHANGED <<chan, pending, sent, log, got, dropped, damaged, torn>>
      /\ ~Retains(<<s, r>>, stream)
      /\ call' = [call EXCEPT ![r] = Call("recv", s, stream)]
  BY DEF RecvWait, transport
<1>2. \A m \in Links : LinkInv(m)' /\ Undelivered(m)' = Undelivered(m)
  BY <1>1 DEF LinkInv, Mangled, QueueInv, Undelivered
<1>3. call'[r].peer = s /\ call'[r].stream = stream /\ \A q \in Ranks \ {r} : call'[q] = call[q]
  BY <1>1 DEF TypeOK, Call
<1>4. Searched(r)'
  <2>1. PICK l : l = <<s, r>>
    OBVIOUS
  <2>2. l \in Links /\ pending[l] \in Seq(Frame)
    BY <2>1 DEF Links, Peers, TypeOK
  <2>3. \A f \in ToSet(pending[l]) : f.stream # stream
    BY <1>1, <2>1, <2>2, FrameIds DEF Retains
  <2> QED BY <1>1, <1>3, <2>1, <2>3 DEF Searched
<1>5. \A q \in Ranks \ {r} : Searched(q)'
  BY <1>1, <1>3 DEF Searched, QueueInv
<1> QED BY <1>1, <1>2, <1>4, <1>5, Unnoticed DEF StreamStep, QueueInv

LEMMA RecvMatchStep ==
  ASSUME TypeOK, QueueInv, NEW r \in Ranks, RecvMatch(r)
  PROVE  StreamStep
<1>1. PICK l : l = <<call[r].peer, r>>
  OBVIOUS
<1>2. /\ call[r].op = "recv" /\ Readable(l) /\ Head(chan[l]).stream = call[r].stream
      /\ ReadHead(l) /\ Return(l, Head(chan[l])) /\ EndCall(r)
      /\ UNCHANGED <<pending, sent, log, dropped, damaged>>
  BY <1>1 DEF RecvMatch
<1>3. l \in Links
  BY <1>1, <1>2, CallLink
<1>4. PICK f : f = Head(chan[l])
  OBVIOUS
<1>5. /\ f \in Frame /\ f \in ToSet(chan[l]) /\ f \notin ToSet(pending[l])
      /\ \A g \in ToSet(chan[l]) : f.id <= g.id
      /\ ToSet(chan'[l]) \subseteq ToSet(chan[l]) \ {f}
      /\ \/ ToSet(chan'[l]) = ToSet(chan[l]) \ {f}
         \/ f.body = Fragment /\ damaged[l] = TRUE
      /\ Ordered(pending[l], chan'[l], sent[l])
      /\ Mangled(l)' => damaged[l] = TRUE
      /\ \A m \in Links \ {l} : chan'[m] = chan[m] /\ torn'[m] = torn[m]
  BY <1>2, <1>3, <1>4, ReadEffect
<1>6. \A g \in ToSet(pending[l]) : g.stream # f.stream
  BY <1>1, <1>2, <1>4 DEF QueueInv, Searched
<1>7. /\ f \in Undelivered(l) /\ Undelivered(l)' \subseteq Undelivered(l) \ {f}
      /\ \/ Undelivered(l)' = Undelivered(l) \ {f}
         \/ f.body = Fragment /\ damaged[l] = TRUE
      /\ \A g \in Undelivered(l) : g.stream = f.stream => f.id <= g.id
  BY <1>2, <1>5, <1>6 DEF Undelivered
<1>8. \A q \in Ranks : call'[q] = call[q] \/ call'[q].op # "recv"
  BY <1>2, NoCallFacts DEF EndCall, TypeOK
<1> QED BY <1>2, <1>3, <1>4, <1>5, <1>7, <1>8, TakenStep

LEMMA RetainStep ==
  ASSUME TypeOK, QueueInv, NEW r \in Ranks, RecvRetain(r) \/ BarrierRetain(r)
  PROVE  StreamStep
<1>1. PICK l : l = <<call[r].peer, r>>
  OBVIOUS
<1>2. /\ Readable(l) /\ ReadHead(l) /\ Retain(l)
      /\ UNCHANGED <<sent, log, got, dropped, damaged, call>>
      /\ call[r].op = "recv" => Head(chan[l]).stream # call[r].stream
  BY <1>1 DEF RecvRetain, BarrierRetain, InRecvBarrier
<1>3. l \in Links
  BY <1>1, CallLink DEF RecvRetain, BarrierRetain
<1>4. /\ Undelivered(l)' \subseteq Undelivered(l)
      /\ Undelivered(l)' = Undelivered(l) \/ damaged[l] = TRUE
      /\ Ordered(pending'[l], chan'[l], sent[l])
      /\ Mangled(l)' => damaged[l] = TRUE
      /\ ToSet(pending'[l]) = ToSet(pending[l]) \union {Head(chan[l])}
      /\ \A m \in Links \ {l} :
           pending'[m] = pending[m] /\ chan'[m] = chan[m] /\ torn'[m] = torn[m]
  BY <1>2, <1>3, RetainEffect
<1>5. LinkInv(l)'
  BY <1>2, <1>3, <1>4 DEF LinkInv, QueueInv
<1>6. \A m \in Links \ {l} : LinkInv(m)' /\ Undelivered(m)' = Undelivered(m)
  BY <1>2, <1>4, LinkKept DEF QueueInv, Undelivered
<1>7. ASSUME NEW q \in Ranks, call[q].op = "recv"
      PROVE  \A f \in ToSet(pending'[<<call[q].peer, q>>]) : f.stream # call[q].stream
  <2>1. PICK m : m = <<call[q].peer, q>>
    OBVIOUS
  <2>2. m \in Links /\ \A f \in ToSet(pending[m]) : f.stream # call[q].stream
    BY <1>7, <2>1, CallLink DEF QueueInv, Searched
  <2>3. CASE m = l
    <3>1. q = r
      BY <1>1, <2>1, <2>3
    <3> QED BY <1>2, <1>4, <1>7, <2>1, <2>2, <2>3, <3>1
  <2>4. CASE m # l
    BY <1>4, <2>1, <2>2, <2>4
  <2> QED BY <2>3, <2>4
<1>8. \A q \in Ranks : Searched(q)'
  BY <1>2, <1>7 DEF Searched
<1>9. Severed' = Severed /\ (damaged[l] = TRUE => Severed[l])
  BY <1>2, <1>3 DEF Severed
<1>10. Transport!Next
  BY <1>2, <1>4, <1>6, <1>9, Lost
<1> QED BY <1>5, <1>6, <1>8, <1>10 DEF StreamStep, QueueInv

(* recv_barrier returns a frame or drops it. *)
LEMMA BarrierFrameStep ==
  ASSUME TypeOK, QueueInv, NEW r \in Ranks, Gathered(r) \/ Awaited(r) \/ BarrierUnexpected(r)
  PROVE  StreamStep
<1>1. PICK l : l = <<call[r].peer, r>>
  OBVIOUS
<1>2. InRecvBarrier(r) /\ l \in Links
  BY <1>1, CallLink DEF Gathered, Awaited, BarrierUnexpected, InRecvBarrier
<1>3. UNCHANGED <<sent, log, damaged>>
  BY DEF Gathered, Awaited, BarrierUnexpected
<1>4. PICK f \in Undelivered(l) :
        /\ TakeBarrierFrame(l, f)
        /\ \/ f.stream = BarrierStream /\ Return(l, f) /\ dropped' = dropped
           \/ dropped' = [dropped EXCEPT ![l] = @ \union {f}] /\ got' = got
  BY <1>1 DEF Gathered, Awaited, BarrierUnexpected, IsExpected
<1>5. /\ f \in Frame
      /\ f.stream = BarrierStream =>
           \A g \in Undelivered(l) : g.stream = f.stream => f.id <= g.id
      /\ Undelivered(l)' \subseteq Undelivered(l) \ {f}
      /\ \/ Undelivered(l)' = Undelivered(l) \ {f}
         \/ f.body = Fragment /\ damaged[l] = TRUE
      /\ Ordered(pending'[l], chan'[l], sent[l])
      /\ Mangled(l)' => damaged[l] = TRUE
      /\ \A m \in Links \ {l} :
           pending'[m] = pending[m] /\ chan'[m] = chan[m] /\ torn'[m] = torn[m]
      /\ \A m \in Links : ToSet(pending'[m]) \subseteq ToSet(pending[m])
  BY <1>2, <1>4, BarrierFrameEffect
<1>6. \A q \in Ranks : call'[q] = call[q] \/ call'[q].op # "recv"
  <2>1. AfterGather(call[r].peer).op # "recv"
    BY DEF AfterGather, Call
  <2>2. CASE Gathered(r)
    BY <2>1, <2>2 DEF Gathered, TypeOK
  <2>3. CASE Awaited(r) \/ BarrierUnexpected(r)
    BY <2>3, NoCallFacts DEF Awaited, Advance, BarrierUnexpected, EndCall, TypeOK
  <2> QED BY <2>2, <2>3
<1> QED BY <1>2, <1>3, <1>4, <1>5, <1>6, TakenStep

(* Nothing happens to the queues. *)
LEMMA QuietStreams ==
  ASSUME TypeOK, QueueInv, UNCHANGED transport,
         \A r \in Ranks : call'[r] = call[r] \/ call'[r].op # "recv"
  PROVE  StreamStep
<1>1. UNCHANGED <<chan, pending, sent, log, got, dropped, damaged, torn>>
  BY DEF transport
<1>2. \A r \in Ranks : Searched(r)'
  BY <1>1, SearchedKept
<1>3. \A m \in Links : LinkInv(m)' /\ Undelivered(m)' = Undelivered(m)
  BY <1>1 DEF LinkInv, Mangled, QueueInv, Undelivered
<1> QED BY <1>1, <1>2, <1>3, Unnoticed DEF StreamStep, QueueInv

LEMMA EndedCalls ==
  ASSUME TypeOK, NEW r \in Ranks, EndCall(r)
  PROVE  \A q \in Ranks : call'[q] = call[q] \/ call'[q].op # "recv"
BY NoCallFacts DEF EndCall, TypeOK

(* A stream gets out of step. *)
LEMMA TornStep ==
  ASSUME TypeOK, QueueInv, NEW l \in Links,
         UNCHANGED <<chan, pending, sent, log, got, dropped>>,
         torn' = [torn EXCEPT ![l] = TRUE], damaged' = [damaged EXCEPT ![l] = TRUE],
         \A r \in Ranks : call'[r] = call[r] \/ call'[r].op # "recv"
  PROVE  StreamStep
<1>1. /\ damaged'[l] = TRUE
      /\ \A m \in Links \ {l} : damaged'[m] = damaged[m] /\ torn'[m] = torn[m]
  BY DEF TypeOK
<1>2. \A m \in Links : Undelivered(m)' = Undelivered(m)
  BY DEF Undelivered
<1>3. \A m \in Links : Ordered(pending'[m], chan'[m], sent[m])
  BY DEF QueueInv, LinkInv
<1>4. \A m \in Links \ {l} : Mangled(m)' => damaged'[m] = TRUE
  BY <1>1 DEF Mangled, QueueInv, LinkInv
<1> QED BY <1>1, <1>2, <1>3, <1>4, DamagedStep

LEMMA ReadGarbageStep ==
  ASSUME TypeOK, QueueInv, NEW r \in Ranks, ReadGarbage(r)
  PROVE  StreamStep
<1>1. PICK l : l = <<call[r].peer, r>>
  OBVIOUS
<1>2. l \in Links
  BY <1>1, CallLink DEF ReadGarbage
<1>3. /\ chan[l] # <<>> /\ EndCall(r)
      /\ torn[l] \/ Head(chan[l]).body = Fragment
      /\ UNCHANGED <<pending, sent, log, got, dropped, damaged>>
  BY <1>1 DEF ReadGarbage
<1>4. PICK n \in 0 .. Len(chan[l]) :
        /\ chan' = [chan EXCEPT ![l] = SubSeq(@, n + 1, Len(@))]
        /\ torn' = [torn EXCEPT ![l] = FALSE] \/ torn' = [torn EXCEPT ![l] = TRUE]
  BY <1>1 DEF ReadGarbage, ReadOn
<1>5. damaged[l] = TRUE
  <2>1. chan[l] \in Seq(Frame)
    BY <1>2 DEF TypeOK
  <2>2. Head(chan[l]) \in ToSet(chan[l])
    BY <1>3, <2>1, TailFacts
  <2>3. Mangled(l)
    BY <1>2, <1>3, <2>2 DEF Mangled, TypeOK
  <2> QED BY <1>2, <2>3 DEF QueueInv, LinkInv
<1>6. /\ pending[l] \in Seq(Frame) /\ chan[l] \in Seq(Frame)
      /\ Ordered(pending[l], chan[l], sent[l])
  BY <1>2 DEF TypeOK, QueueInv, LinkInv
<1>7. PICK c : c = SubSeq(chan[l], n + 1, Len(chan[l]))
  OBVIOUS
<1>8. ToSet(c) \subseteq ToSet(chan[l]) /\ Ordered(pending[l], c, sent[l])
  BY <1>6, <1>7, SuffixOrdered
<1>9. /\ chan'[l] = c
      /\ \A m \in Links \ {l} : chan'[m] = chan[m] /\ torn'[m] = torn[m]
  BY <1>2, <1>4, <1>7 DEF TypeOK
<1>10. \A m \in Links : Ordered(pending'[m], chan'[m], sent[m])
  BY <1>3, <1>8, <1>9 DEF QueueInv, LinkInv
<1>11. /\ \A m \in Links : Undelivered(m)' \subseteq Undelivered(m)
       /\ \A m \in Links \ {l} : Undelivered(m)' = Undelivered(m)
  BY <1>3, <1>8, <1>9 DEF Undelivered
<1>12. \A m \in Links : Mangled(m)' => damaged[m] = TRUE
  BY <1>5, <1>9 DEF Mangled, QueueInv, LinkInv
<1> QED BY <1>3, <1>5, <1>12, <1>10, <1>11, EndedCalls, DamagedStep

LEMMA CrashStep ==
  ASSUME TypeOK, QueueInv, NEW r \in Ranks, Crash(r)
  PROVE  StreamStep
<1>1. /\ EndCall(r) /\ UNCHANGED <<sent, log, got, dropped, torn>>
      /\ chan' = [l \in Links |-> IF l[2] = r THEN <<>> ELSE chan[l]]
      /\ pending' = [l \in Links |-> IF l[2] = r THEN <<>> ELSE pending[l]]
      /\ damaged' = [l \in Links |-> l[2] = r \/ damaged[l]]
  BY DEF Crash
<1>2. ASSUME NEW m \in Links
      PROVE  /\ Ordered(pending'[m], chan'[m], sent[m])
             /\ Undelivered(m)' \subseteq Undelivered(m)
             /\ ToSet(pending'[m]) \subseteq ToSet(pending[m])
             /\ damaged[m] = TRUE => damaged'[m] = TRUE
             /\ Undelivered(m)' # Undelivered(m) => damaged'[m] = TRUE
             /\ Mangled(m)' => damaged'[m] = TRUE
  <2>1. /\ pending[m] \in Seq(Frame) /\ chan[m] \in Seq(Frame)
        /\ Ordered(pending[m], chan[m], sent[m])
    BY DEF TypeOK, QueueInv, LinkInv
  <2>2. damaged'[m] = (m[2] = r \/ damaged[m])
    BY <1>1
  <2>3. CASE m[2] = r
    <3>1. chan'[m] = <<>> /\ pending'[m] = <<>> /\ damaged'[m] = TRUE
      BY <1>1, <2>2, <2>3
    <3>2. ToSet(<<>>) = {}
      BY DEF ToSet
    <3> QED BY <2>1, <3>1, <3>2, EmptyOrdered DEF Undelivered
  <2>4. CASE m[2] # r
    <3>1. chan'[m] = chan[m] /\ pending'[m] = pending[m]
      BY <1>1, <2>4
    <3>2. damaged[m] = TRUE => damaged'[m] = TRUE
      BY <2>2
    <3>3. Mangled(m)' => damaged[m] = TRUE
      BY <1>1, <3>1 DEF Mangled, QueueInv, LinkInv
    <3> QED BY <2>1, <3>1, <3>2, <3>3 DEF Undelivered
  <2> QED BY <2>3, <2>4
<1> QED BY <1>1, <1>2, EndedCalls, DamagedStep

LEMMA ResetStep ==
  ASSUME TypeOK, QueueInv, NEW l \in Links, Reset(l)
  PROVE  StreamStep
<1>1. /\ UNCHANGED <<pending, sent, log, got, dropped, torn, call>>
      /\ chan' = [chan EXCEPT ![l] = <<>>] /\ damaged' = [damaged EXCEPT ![l] = TRUE]
  BY DEF Reset
<1>2. /\ chan'[l] = <<>> /\ damaged'[l] = TRUE
      /\ \A m \in Links \ {l} : chan'[m] = chan[m] /\ damaged'[m] = damaged[m]
  BY <1>1 DEF TypeOK
<1>3. /\ pending[l] \in Seq(Frame) /\ chan[l] \in Seq(Frame)
      /\ Ordered(pending[l], chan[l], sent[l])
  BY DEF TypeOK, QueueInv, LinkInv
<1>4. \A m \in Links : Ordered(pending'[m], chan'[m], sent[m])
  BY <1>1, <1>2, <1>3, EmptyOrdered DEF QueueInv, LinkInv
<1>5. /\ \A m \in Links : Undelivered(m)' \subseteq Undelivered(m)
      /\ \A m \in Links \ {l} : Undelivered(m)' = Undelivered(m)
  <2>1. ToSet(<<>>) = {}
    BY DEF ToSet
  <2> QED BY <1>1, <1>2, <2>1 DEF Undelivered
<1>6. \A m \in Links \ {l} : Mangled(m)' => damaged'[m] = TRUE
  BY <1>1, <1>2 DEF Mangled, QueueInv, LinkInv
<1> QED BY <1>1, <1>2, <1>4, <1>5, <1>6, DamagedStep

-----------------------------------------------------------------------------
LEMMA NextStreams ==
  IInv /\ QueueInv /\ [Next]_vars => QueueInv' /\ [Transport!Next]_(Transport!vars)
<1> SUFFICES ASSUME IInv, QueueInv, [Next]_vars
             PROVE  StreamStep
  BY DEF StreamStep
<1>0. TypeOK
  BY DEF IInv
<1>1. CASE UNCHANGED vars
  BY <1>0, <1>1, QuietStreams DEF vars
<1>2. CASE Next
  <2>1. PICK r \in Ranks : Traffic(r) \/ BarrierCall(r) \/ Failure(r)
    BY <1>2 DEF Next
  <2>2. \A p \in Peers(r) : <<r, p>> \in Links /\ <<p, r>> \in Links
    BY DEF Peers, Links
  <2>3. ASSUME NEW p \in Peers(r), NEW stream \in AppStreams, Send(r, p, stream)
        PROVE  StreamStep
    <3>1. stream \in Streams /\ Packet \in Bodies /\ Packet # Fragment
      BY BoundsAssumption DEF Streams, Packet, Fragment, Bodies
    <3> QED BY <1>0, <2>2, <2>3, <3>1, WriteStep DEF Send
  <2>4. CASE Traffic(r)
    BY <1>0, <2>3, <2>4, RecvPendingStep, RecvWaitStep, RecvMatchStep, RetainStep DEF Traffic
  <2>5. CASE r = 0 /\ BarrierGather
    <3>1. call' = [call EXCEPT ![0] = Call("gather", 1, BarrierStream)] /\ UNCHANGED transport
      BY <2>5 DEF BarrierGather
    <3>2. \A q \in Ranks : call'[q] = call[q] \/ call'[q].op # "recv"
      BY <1>0, <3>1 DEF TypeOK, Call
    <3> QED BY <1>0, <3>1, <3>2, QuietStreams
  <2>6. CASE BarrierArrives(r)
    <3>1. /\ r # 0 /\ generation[r] < MaxGeneration
          /\ Write(<<r, 0>>, BarrierStream, BarrierArrive(generation[r]))
          /\ call' = [call EXCEPT ![r] = Call("await", 0, BarrierStream)]
          /\ UNCHANGED <<pending, got, dropped, damaged, torn>>
      BY <2>6 DEF BarrierArrives
    <3>2. <<r, 0>> \in Links
      BY <3>1, WorldSizeAssumption DEF Links, Ranks
    <3>3. BarrierStream \in Streams /\ BarrierArrive(generation[r]) \in Bodies
      BY <1>0, BoundsAssumption DEF Streams, BarrierArrive, Bodies, TypeOK
    <3>5. BarrierArrive(generation[r]) # Fragment
      BY <1>0, BoundsAssumption DEF BarrierArrive, Fragment, TypeOK
    <3>4. \A q \in Ranks : call'[q] = call[q] \/ call'[q].op # "recv"
      BY <1>0, <3>1 DEF TypeOK, Call
    <3> QED BY <1>0, <3>1, <3>2, <3>3, <3>4, <3>5, WriteStep
  <2>7. CASE SendRelease(r)
    <3>1. /\ call[r].op = "release" /\ call[r].peer < WorldSize
          /\ Write(<<r, call[r].peer>>, BarrierStream, BarrierRelease(generation[r]))
          /\ call' = [call EXCEPT ![r].peer = @ + 1]
          /\ UNCHANGED <<pending, got, dropped, damaged, torn>>
      BY <2>7 DEF SendRelease
    <3>2. <<r, call[r].peer>> \in Links
      <4>1. call[r] # NoCall
        BY <3>1, NoCallFacts
      <4>2. r = 0 /\ call[r].peer # 0 /\ call[r].peer \in 0 .. WorldSize
        BY <1>0, <3>1, <4>1 DEF TypeOK, CallOK, Calls
      <4> QED BY <3>1, <4>2, WorldSizeAssumption DEF Links, Ranks
    <3>3. BarrierStream \in Streams /\ BarrierRelease(generation[r]) \in Bodies
      BY <1>0, BoundsAssumption DEF Streams, BarrierRelease, Bodies, TypeOK
    <3>5. BarrierRelease(generation[r]) # Fragment
      BY <1>0, BoundsAssumption DEF BarrierRelease, Fragment, TypeOK
    <3>4. \A q \in Ranks : call'[q] = call[q] \/ call'[q].op # "recv"
      BY <1>0, <3>1 DEF TypeOK, Calls
    <3> QED BY <1>0, <3>1, <3>2, <3>3, <3>4, <3>5, WriteStep
  <2>8. CASE Released(r)
    BY <1>0, <2>8, EndedCalls, QuietStreams DEF Released, Advance
  <2>9. CASE BarrierCall(r)
    BY <1>0, <2>5, <2>6, <2>7, <2>8, <2>9, BarrierFrameStep, RetainStep DEF BarrierCall
  <2>10. ASSUME NEW p \in Peers(r), NEW stream \in AppStreams, SendTorn(r, p, stream)
         PROVE  StreamStep
    <3>1. stream \in Streams /\ Fragment \in Bodies
      BY BoundsAssumption DEF Streams, Fragment, Bodies
    <3> QED BY <1>0, <2>2, <2>10, <3>1, WriteStep DEF SendTorn
  <2>11. ASSUME NEW p \in Peers(r), Reset(<<p, r>>)
         PROVE  StreamStep
    BY <1>0, <2>2, <2>11, ResetStep
  <2>12. CASE CallFails(r)
    BY <1>0, <2>12, EndedCalls, QuietStreams DEF CallFails
  <2>13. CASE TimeoutMidFrame(r)
    <3>1. PICK l : l = <<call[r].peer, r>>
      OBVIOUS
    <3>2. l \in Links
      BY <1>0, <2>13, <3>1, CallLink DEF TimeoutMidFrame
    <3>3. /\ torn' = [torn EXCEPT ![l] = TRUE]
          /\ damaged' = [damaged EXCEPT ![l] = TRUE] /\ EndCall(r)
          /\ UNCHANGED <<chan, pending, sent, log, got, dropped>>
      BY <2>13, <3>1 DEF TimeoutMidFrame
    <3> QED BY <1>0, <3>2, <3>3, EndedCalls, TornStep
  <2>14. CASE Failure(r)
    BY <1>0, <2>10, <2>11, <2>12, <2>13, <2>14, ReadGarbageStep, CrashStep DEF Failure
  <2> QED BY <2>1, <2>4, <2>9, <2>14
<1> QED BY <1>1, <1>2

LEMMA InitStreams == Init => QueueInv /\ Transport!Init
<1> SUFFICES ASSUME Init PROVE QueueInv /\ Transport!Init
  OBVIOUS
<1>1. \A l \in Links : /\ chan[l] = <<>> /\ pending[l] = <<>> /\ torn[l] = FALSE /\ sent[l] = 0
                       /\ log[l] = {} /\ dropped[l] = {} /\ damaged[l] = FALSE
  BY DEF Init
<1>2. ToSet(<<>>) = {} /\ Sorted(<<>>)
  BY DEF ToSet, Sorted
<1>3. \A l \in Links : LinkInv(l)
  BY <1>1, <1>2 DEF LinkInv, Ordered, Mangled
<1>4. \A r \in Ranks : Searched(r)
  BY NoCallFacts DEF Init, Searched
<1>5. Boxes = [l \in Links |-> {}]
  BY <1>1, <1>2 DEF Boxes, Undelivered
<1>6. Severed = [l \in Links |-> FALSE]
  BY <1>1 DEF Severed
<1>7. Transport!Init
  BY <1>5, <1>6, SameLinks DEF Init, Transport!Init, Boxes, Severed
<1> QED BY <1>3, <1>4, <1>7 DEF QueueInv

(* send, recv, send_control, recv_control and the barrier frames of the    *)
(* TCP transport (tcp.rs) implement the abstract transport, for every      *)
(* world size: frames of one kind and tag are returned at most once and in *)
(* the order sent, a link loses a frame only if it was torn or reset, its  *)
(* reader has gone, or a failing barrier() consumed it, and what a receive *)
(* returns was sent in full but for the frame of a send that failed: that  *)
(* one may be returned completed with the bytes of the frames after it.    *)
THEOREM TcpImplementsPointToPoint == Spec => ImplementsPointToPoint
<1> QED BY InitIInv, NextIInv, InitStreams, NextStreams, PTL
        DEF Spec, ImplementsPointToPoint, Transport!Spec

-----------------------------------------------------------------------------
(* What the abstract transport promises about one link. *)
Delivery(l) ==
  /\ log[l] \subseteq Frame /\ Boxes[l] \subseteq log[l] /\ got[l] \subseteq log[l]
  /\ \A f, g \in log[l] : f.id = g.id => f = g
  /\ got[l] \intersect Boxes[l] = {}
  /\ \A f \in got[l], g \in Boxes[l] : f.stream = g.stream => f.id < g.id
  /\ (got[l] \union Boxes[l]) \intersect Parts # {} => Severed[l]
  /\ Severed[l] \/ log[l] = Boxes[l] \union got[l]

LEMMA SendDelivery ==
  ASSUME NEW l \in Links, NEW f \in Frame, Delivery(l),
         \A g \in log[l] : g.id < f.id,
         log'[l] = log[l] \union {f}, got'[l] = got[l],
         \/ /\ f \notin Parts /\ Severed'[l] = Severed[l]
            /\ Boxes'[l] = Boxes[l] \union {f} \/ (Severed[l] /\ Boxes'[l] = Boxes[l])
         \/ Boxes'[l] = Boxes[l] \union {f} /\ Severed'[l] = TRUE
  PROVE  Delivery(l)'
<1>1. \A g \in log[l] : g.id \in Int
  BY FrameFields DEF Delivery
<1>2. f.id \in Int
  BY FrameFields
<1>3. f \notin log[l]
  BY <1>2
<1>4. \A g, h \in log'[l] : g.id = h.id => g = h
  BY <1>1, <1>2 DEF Delivery
<1> QED BY <1>3, <1>4 DEF Delivery

LEMMA DeliverDelivery ==
  ASSUME NEW l \in Links, NEW f \in Boxes[l], NEW lost, Delivery(l),
         \A g \in Boxes[l] : g.stream = f.stream => f.id <= g.id,
         lost # {} => f \in Parts,
         Boxes'[l] = Boxes[l] \ (lost \union {f}), got'[l] = got[l] \union {f},
         log'[l] = log[l], Severed'[l] = Severed[l]
  PROVE  Delivery(l)'
<1>1. \A g \in log[l] : g.id \in Int
  BY FrameFields DEF Delivery
<1>2. ASSUME NEW g \in Boxes'[l], f.stream = g.stream PROVE f.id < g.id
  <2>1. g \in log[l] /\ f \in log[l] /\ g # f
    BY DEF Delivery
  <2>2. f.id # g.id /\ f.id <= g.id
    BY <1>2, <2>1 DEF Delivery
  <2> QED BY <1>1, <2>1, <2>2
<1>3. lost # {} => Severed[l]
  BY DEF Delivery
<1> QED BY <1>2, <1>3 DEF Delivery

LEMMA NextDelivery ==
  (\A l \in Links : Delivery(l)) /\ TypeOK /\ [Transport!Next]_(Transport!vars)
    => \A l \in Links : Delivery(l)'
<1> SUFFICES ASSUME \A l \in Links : Delivery(l), TypeOK, [Transport!Next]_(Transport!vars),
                    NEW m \in Links
             PROVE  Delivery(m)'
  OBVIOUS
<1>0. Delivery(m) /\ DOMAIN log = Links /\ DOMAIN got = Links
  BY DEF TypeOK
<1>1. DOMAIN Boxes = Links /\ DOMAIN Severed = Links
  BY DEF Boxes, Severed
<1>2. CASE UNCHANGED Transport!vars
  BY <1>0, <1>2 DEF Transport!vars, Delivery, Boxes, Severed
<1>3. ASSUME NEW l \in Links, NEW f \in Boxes[l], Transport!Deliver(l, f)
      PROVE  Delivery(m)'
  <2>1. PICK lost \in SUBSET Boxes[l] :
          (lost # {} => f \in Parts) /\ Boxes' = [Boxes EXCEPT ![l] = @ \ (lost \union {f})]
    BY <1>3 DEF Transport!Deliver, Boxes, Parts
  <2>2. /\ \A g \in Boxes[l] : g.stream = f.stream => f.id <= g.id
        /\ got' = [got EXCEPT ![l] = @ \union {f}] /\ log' = log /\ Severed' = Severed
    BY <1>3 DEF Transport!Deliver, Boxes, Severed
  <2>3. CASE m = l
    BY <1>0, <1>1, <2>1, <2>2, <2>3, DeliverDelivery
  <2>4. CASE m # l
    BY <1>0, <1>1, <2>1, <2>2, <2>4 DEF Delivery
  <2> QED BY <2>3, <2>4
<1>4. CASE Transport!Fail
  <2>1. /\ Boxes'[m] \subseteq Boxes[m] /\ (Severed[m] => Severed'[m])
        /\ Boxes'[m] # Boxes[m] => Severed'[m]
        /\ log' = log /\ got' = got
    BY <1>4, SameLinks DEF Transport!Fail, Boxes, Severed
  <2> QED BY <1>0, <2>1 DEF Delivery
<1>5. ASSUME NEW l \in Links, NEW f \in Frame, Transport!Send(l, f) \/ Transport!SendPart(l, f)
      PROVE  Delivery(m)'
  <2>1. /\ \A g \in log[l] : g.id < f.id
        /\ log' = [log EXCEPT ![l] = @ \union {f}] /\ got' = got
        /\ \/ /\ f \notin Parts /\ Severed' = Severed
              /\ \/ Boxes' = [Boxes EXCEPT ![l] = @ \union {f}]
                 \/ Severed[l] /\ Boxes' = Boxes
           \/ /\ Boxes' = [Boxes EXCEPT ![l] = @ \union {f}]
              /\ Severed' = [Severed EXCEPT ![l] = TRUE]
    BY <1>5 DEF Transport!Send, Transport!SendPart, Boxes, Severed, Parts
  <2>2. CASE m = l
    BY <1>0, <1>1, <2>1, <2>2, SendDelivery
  <2>3. CASE m # l
    BY <1>0, <1>1, <2>1, <2>3 DEF Delivery
  <2> QED BY <2>2, <2>3
<1>6. CASE Transport!Next
  BY <1>3, <1>4, <1>5, <1>6, SameLinks DEF Transport!Next, Boxes
<1> QED BY <1>2, <1>6

(* What recv and recv_control of the TCP transport (tcp.rs) return: only   *)
(* frames that were sent, none twice, none after a younger one of its kind *)
(* and tag, none missing on a link that nothing happened to, and the       *)
(* completed fragment of a torn frame only on a link that a failed send    *)
(* has left torn.                                                          *)
THEOREM TcpDelivery ==
  Spec => [](/\ Transport!AtMostOnce /\ Transport!InOrder
             /\ Transport!PartsOnlyAfterFailure /\ Transport!Lossless)
<1> DEFINE D == \A l \in Links : Delivery(l)
<1>1. Init => D
  <2> SUFFICES ASSUME Init, NEW l \in Links PROVE Delivery(l)
    OBVIOUS
  <2>1. log[l] = {} /\ got[l] = {} /\ chan[l] = <<>> /\ pending[l] = <<>>
    BY DEF Init
  <2>2. Boxes[l] = {}
    BY <2>1 DEF Boxes, Undelivered, ToSet
  <2> QED BY <2>1, <2>2 DEF Delivery
<1>2. D /\ IInv /\ QueueInv /\ [Next]_vars => D'
  BY NextStreams, NextDelivery DEF IInv
<1>3. D => /\ Transport!AtMostOnce /\ Transport!InOrder
           /\ Transport!PartsOnlyAfterFailure /\ Transport!Lossless
  <2> SUFFICES ASSUME D
               PROVE  /\ Transport!AtMostOnce /\ Transport!InOrder
                      /\ Transport!PartsOnlyAfterFailure /\ Transport!Lossless
    OBVIOUS
  <2>1. \A l \in Links : Delivery(l)
    OBVIOUS
  <2> HIDE DEF D
  <2> QED BY <2>1, SameLinks DEF Delivery, Boxes, Severed, Parts, Transport!AtMostOnce,
             Transport!InOrder, Transport!PartsOnlyAfterFailure, Transport!Lossless
<1> HIDE DEF D
<1> QED BY InitIInv, NextIInv, InitStreams, NextStreams, <1>1, <1>2, <1>3, PTL DEF Spec
=============================================================================
