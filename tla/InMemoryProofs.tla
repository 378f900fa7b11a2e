--------------------------- MODULE InMemoryProofs ---------------------------
(***************************************************************************)
(* Proofs about the endpoints of an in-memory world: their barrier, for    *)
(* every world size and generation limit, and their transport, for every   *)
(* world size, every set of tags and every number of frames.               *)
(***************************************************************************)
EXTENDS InMemoryWorld, SharedLemmas, FiniteSetTheorems

-----------------------------------------------------------------------------
(* The barrier. *)

(* The ranks that wait for the generation that is still open. *)
Gathered == {r \in waiting : mine[r] = generation}

(* A rank outside wait() is up to date with the shared generation. *)
IdleCurrent == \A r \in Ranks \ waiting : passed[r] = generation

(* A rank inside wait() has arrived, and its generation is the open one or *)
(* the one just opened.                                                    *)
WaitingRecent ==
  \A r \in waiting : /\ mine[r] = passed[r]
                     /\ entered[r]
                     /\ generation \in {mine[r], mine[r] + 1}

(* Every counted arrival is a rank that still waits.  The count stops      *)
(* meaning anything once the barrier is broken, when nobody adds to it.    *)
CountBacked == ~broken => arrived <= Cardinality(Gathered)

BarrierIInv == BarrierTypeOK /\ IdleCurrent /\ WaitingRecent /\ CountBacked

-----------------------------------------------------------------------------

LEMMA RanksFinite == IsFiniteSet(Ranks) /\ Cardinality(Ranks) = WorldSize
BY FS_Interval, WorldSizeAssumption DEF Ranks

(* The last arrival finds every other rank waiting in the open generation. *)
LEMMA LastFindsAll ==
  ASSUME BarrierIInv, NEW r \in Ranks, r \notin waiting, ~broken,
         arrived + 1 = WorldSize
  PROVE  \A q \in Peers(r) : q \in waiting /\ mine[q] = generation
<1>1. IsFiniteSet(Peers(r)) /\ Cardinality(Peers(r)) = WorldSize - 1
  BY RanksFinite, FS_RemoveElement DEF Peers
<1>2. Gathered \subseteq Peers(r)
  BY DEF Gathered, Peers, BarrierIInv, BarrierTypeOK
<1>3. IsFiniteSet(Gathered) /\ Cardinality(Gathered) \in Nat
  BY <1>1, <1>2, FS_Subset, FS_CardinalityType
<1>4. Cardinality(Gathered) >= WorldSize - 1
  BY <1>3, WorldSizeAssumption DEF BarrierIInv, CountBacked, BarrierTypeOK
<1>5. Cardinality(Gathered) <= WorldSize - 1
  BY <1>1, <1>2, FS_Subset
<1>6. Cardinality(Gathered) = Cardinality(Peers(r))
  BY <1>1, <1>3, <1>4, <1>5, WorldSizeAssumption
<1>7. Gathered = Peers(r)
  BY <1>1, <1>2, <1>6, FS_Subset
<1> QED
  BY <1>7 DEF Gathered

(* A new arrival adds exactly itself to the gathered ranks. *)
LEMMA ArrivalCounts ==
  ASSUME BarrierIInv, NEW r \in Ranks, Arrive(r)
  PROVE  CountBacked'
<1>1. IsFiniteSet(Gathered) /\ r \notin Gathered
  BY RanksFinite, FS_Subset DEF Gathered, BarrierIInv, BarrierTypeOK, Arrive
<1>2. Gathered' = Gathered \union {r}
  BY DEF Gathered, Arrive, BarrierIInv, BarrierTypeOK
<1>3. Cardinality(Gathered') = Cardinality(Gathered) + 1
  BY <1>1, <1>2, FS_AddElement
<1>4. Cardinality(Gathered) \in Nat
  BY <1>1, FS_CardinalityType
<1> QED
  BY <1>3, <1>4 DEF CountBacked, Arrive, BarrierIInv, BarrierTypeOK

(* A released rank was not among the gathered ones. *)
LEMMA ReleaseKeepsCount ==
  ASSUME BarrierIInv, NEW r \in Ranks, WakeReleased(r)
  PROVE  CountBacked'
<1>1. Gathered' = Gathered
  BY DEF Gathered, WakeReleased, StopWaiting, state, BarrierIInv, BarrierTypeOK
<1> QED
  BY <1>1 DEF CountBacked, WakeReleased, state, BarrierIInv

LEMMA InitBarrierIInv == BarrierInit => BarrierIInv
<1> SUFFICES ASSUME BarrierInit PROVE BarrierIInv
  OBVIOUS
<1>1. BarrierTypeOK
  <2>1. generation \in 0 .. GenerationLimit /\ arrived \in 0 .. WorldSize - 1
    BY WorldSizeAssumption, GenerationLimitAssumption DEF BarrierInit
  <2>2. mine \in [Ranks -> 0 .. GenerationLimit] /\ passed \in [Ranks -> Nat]
    BY GenerationLimitAssumption DEF BarrierInit
  <2> QED
    BY <2>1, <2>2, Zenon DEF BarrierInit, BarrierTypeOK, Outcomes
<1>3. IdleCurrent /\ WaitingRecent
  BY DEF BarrierInit, IdleCurrent, WaitingRecent
<1>2. Gathered = {}
  BY DEF BarrierInit, Gathered
<1> QED
  BY <1>1, <1>2, <1>3, FS_EmptySet DEF BarrierIInv, CountBacked, BarrierInit

LEMMA NextBarrierIInv == BarrierIInv /\ [BarrierNext]_barrierVars => BarrierIInv'
<1> SUFFICES ASSUME BarrierIInv, [BarrierNext]_barrierVars PROVE BarrierIInv'
  OBVIOUS
<1> USE WorldSizeAssumption, GenerationLimitAssumption
<1>1. ASSUME NEW r \in Ranks, EnterBroken(r) PROVE BarrierIInv'
  BY <1>1 DEF BarrierIInv, BarrierTypeOK, IdleCurrent, WaitingRecent, CountBacked, EnterBroken,
              Return, Outcomes, state
<1>2. ASSUME NEW r \in Ranks, Arrive(r) PROVE BarrierIInv'
  <2>1. BarrierTypeOK' /\ IdleCurrent' /\ WaitingRecent'
    BY <1>2 DEF BarrierIInv, BarrierTypeOK, IdleCurrent, WaitingRecent, Arrive
  <2> QED BY <1>2, <2>1, ArrivalCounts DEF BarrierIInv
<1>3. ASSUME NEW r \in Ranks, LastArrival(r) PROVE BarrierIInv'
  <2>1. \A q \in Peers(r) : q \in waiting /\ mine[q] = generation
    BY <1>3, LastFindsAll DEF LastArrival
  <2>2. BarrierTypeOK'
    BY <1>3 DEF BarrierIInv, BarrierTypeOK, LastArrival, Return, NotifyAll, PassHistory, Outcomes
  <2>3. IdleCurrent'
    BY <1>3, <2>1 DEF BarrierIInv, BarrierTypeOK, IdleCurrent, LastArrival, PassHistory, Peers
  <2>4. WaitingRecent'
    BY <1>3, <2>1 DEF BarrierIInv, BarrierTypeOK, WaitingRecent, LastArrival, PassHistory, Peers
  <2>5. IsFiniteSet(Gathered')
    BY <2>2, RanksFinite, FS_Subset DEF Gathered, BarrierTypeOK
  <2>6. CountBacked'
    BY <1>3, <2>5, FS_CardinalityType DEF CountBacked, LastArrival
  <2> QED BY <2>2, <2>3, <2>4, <2>6 DEF BarrierIInv
<1>4. ASSUME NEW r \in Ranks, LastArrivalOverflow(r) PROVE BarrierIInv'
  <2>1. BarrierTypeOK' /\ IdleCurrent' /\ WaitingRecent'
    BY <1>4 DEF BarrierIInv, BarrierTypeOK, IdleCurrent, WaitingRecent, LastArrivalOverflow, Return, Outcomes
  <2>2. IsFiniteSet(Gathered')
    BY <2>1, RanksFinite, FS_Subset DEF Gathered, BarrierTypeOK
  <2>3. CountBacked'
    BY <1>4, <2>2, FS_CardinalityType DEF CountBacked, LastArrivalOverflow
  <2> QED BY <2>1, <2>3 DEF BarrierIInv
<1>5. ASSUME NEW r \in Ranks, WakeReleased(r) PROVE BarrierIInv'
  <2>1. BarrierTypeOK' /\ IdleCurrent' /\ WaitingRecent'
    BY <1>5 DEF BarrierIInv, BarrierTypeOK, IdleCurrent, WaitingRecent, WakeReleased, StopWaiting,
                PassHistory, Return, Outcomes, state
  <2> QED BY <1>5, <2>1, ReleaseKeepsCount DEF BarrierIInv
<1>6. ASSUME NEW r \in Ranks, WakeBroken(r) PROVE BarrierIInv'
  BY <1>6 DEF BarrierIInv, BarrierTypeOK, IdleCurrent, WaitingRecent, CountBacked, WakeBroken,
              StopWaiting, Return, Outcomes, state
<1>7. ASSUME NEW r \in Ranks, WakeTimedOut(r) PROVE BarrierIInv'
  BY <1>7 DEF BarrierIInv, BarrierTypeOK, IdleCurrent, WaitingRecent, CountBacked, WakeTimedOut,
              StopWaiting, Return, Outcomes
<1>8. CASE UNCHANGED barrierVars
  BY <1>8 DEF BarrierIInv, BarrierTypeOK, IdleCurrent, WaitingRecent, CountBacked, Gathered, barrierVars, state
<1> QED
  BY <1>1, <1>2, <1>3, <1>4, <1>5, <1>6, <1>7, <1>8 DEF BarrierNext, Wait, Wake

(* The inductive invariant holds of every reachable state. *)
LEMMA AlwaysBarrierIInv == BarrierSpec => []BarrierIInv
BY InitBarrierIInv, NextBarrierIInv, PTL DEF BarrierSpec

(* The state keeps its types; in particular fewer than WorldSize arrivals  *)
(* are ever counted.                                                       *)
THEOREM BarrierTypeCorrect == BarrierSpec => []BarrierTypeOK
BY AlwaysBarrierIInv, PTL DEF BarrierIInv

-----------------------------------------------------------------------------

LEMMA StepImplementsBarrier ==
  BarrierIInv /\ [BarrierNext]_barrierVars => [AbstractBarrier!Next]_AbstractBarrier!vars
<1> SUFFICES ASSUME BarrierIInv, [BarrierNext]_barrierVars PROVE [AbstractBarrier!Next]_AbstractBarrier!vars
  OBVIOUS
<1> USE DEF AbstractBarrier!Next, AbstractBarrier!vars, AbstractBarrier!Enter, AbstractBarrier!Pass, AbstractBarrier!Ranks, Ranks,
            AbstractBarrier!Peers, Peers
<1>1. ASSUME NEW r \in Ranks, Arrive(r) \/ LastArrivalOverflow(r) PROVE AbstractBarrier!Enter(r)
  BY <1>1 DEF Arrive, LastArrivalOverflow
<1>2. ASSUME NEW r \in Ranks, LastArrival(r) PROVE AbstractBarrier!Pass(r)
  <2>1. \A q \in Peers(r) : q \in waiting /\ mine[q] = generation
    BY <1>2, LastFindsAll DEF LastArrival
  <2> QED
    BY <1>2, <2>1 DEF BarrierIInv, BarrierTypeOK, IdleCurrent, WaitingRecent, LastArrival, PassHistory, Peers
<1>3. ASSUME NEW r \in Ranks, WakeReleased(r) PROVE AbstractBarrier!Pass(r)
  BY <1>3 DEF BarrierIInv, BarrierTypeOK, IdleCurrent, WaitingRecent, WakeReleased, PassHistory, Peers
<1>4. ASSUME NEW r \in Ranks, EnterBroken(r) \/ WakeBroken(r) \/ WakeTimedOut(r)
      PROVE  UNCHANGED <<passed, entered>>
  BY <1>4 DEF EnterBroken, WakeBroken, WakeTimedOut
<1>5. CASE UNCHANGED barrierVars
  BY <1>5 DEF barrierVars
<1> QED
  BY <1>1, <1>2, <1>3, <1>4, <1>5 DEF BarrierNext, Wait, Wake

(* InMemoryBarrier::wait implements the abstract reusable barrier. *)
THEOREM InMemoryImplementsBarrier == BarrierSpec => ImplementsBarrier
<1>1. BarrierInit => AbstractBarrier!Init
  BY DEF BarrierInit, AbstractBarrier!Init, AbstractBarrier!Ranks, Ranks
<1> QED
  BY <1>1, AlwaysBarrierIInv, StepImplementsBarrier, PTL DEF BarrierSpec, ImplementsBarrier, AbstractBarrier!Spec

(* A generation that opened for one rank never fails for another. *)
THEOREM GenerationAllOrNothing == BarrierSpec => AllOrNothing
<1> DEFINE Step == \A r \in Ranks :
       r \in waiting /\ r \notin waiting' /\ passed'[r] = passed[r] =>
         \A q \in Ranks : passed[q] <= passed[r]
<1>1. ASSUME BarrierIInv, BarrierNext PROVE Step
  <2> SUFFICES ASSUME NEW r \in Ranks, r \in waiting, r \notin waiting', passed'[r] = passed[r],
                      NEW q \in Ranks
               PROVE  passed[q] <= passed[r]
    OBVIOUS
  <2>1. PICK p \in Ranks : Wait(p) \/ Wake(p)
    BY <1>1 DEF BarrierNext
  <2>2. p = r /\ (WakeReleased(r) \/ WakeBroken(r) \/ WakeTimedOut(r))
    BY <2>1 DEF Wait, Wake, EnterBroken, Arrive, LastArrival, LastArrivalOverflow,
                WakeReleased, WakeBroken, WakeTimedOut, StopWaiting
  <2>3. ~WakeReleased(r)
    BY <1>1 DEF WakeReleased, PassHistory, BarrierIInv, BarrierTypeOK
  <2>4. generation = passed[r]
    BY <1>1, <2>2, <2>3 DEF WakeBroken, WakeTimedOut, BarrierIInv, WaitingRecent
  <2> QED
    BY <1>1, <2>4 DEF BarrierIInv, BarrierTypeOK, IdleCurrent, WaitingRecent
<1>2. ASSUME BarrierIInv, [BarrierNext]_barrierVars PROVE [Step]_barrierVars
  BY <1>1, <1>2
<1> QED
  BY <1>2, AlwaysBarrierIInv, PTL DEF BarrierSpec, AllOrNothing

(* Whoever has something to wake up for has been notified. *)
THEOREM WakeupsReachWaiters == BarrierSpec => []NoLostWakeup
<1>1. BarrierInit => NoLostWakeup
  BY DEF BarrierInit, NoLostWakeup
<1>2. BarrierIInv /\ NoLostWakeup /\ [BarrierNext]_barrierVars => NoLostWakeup'
  <2> SUFFICES ASSUME BarrierIInv, NoLostWakeup, [BarrierNext]_barrierVars PROVE NoLostWakeup'
    OBVIOUS
  <2> USE DEF NoLostWakeup, BarrierIInv, BarrierTypeOK
  <2>1. ASSUME NEW r \in Ranks, Wait(r) PROVE NoLostWakeup'
    BY <2>1 DEF Wait, EnterBroken, Arrive, LastArrival, LastArrivalOverflow, NotifyAll, state
  <2>2. ASSUME NEW r \in Ranks, Wake(r) PROVE NoLostWakeup'
    BY <2>2 DEF Wake, WakeReleased, WakeBroken, WakeTimedOut, StopWaiting, state
  <2>3. CASE UNCHANGED barrierVars
    BY <2>3 DEF barrierVars, state
  <2> QED BY <2>1, <2>2, <2>3 DEF BarrierNext
<1> QED
  BY <1>1, <1>2, AlwaysBarrierIInv, PTL DEF BarrierSpec

-----------------------------------------------------------------------------
(* The transport. *)

(* A channel carries frames of its source, younger behind older ones. *)
ChanOrder ==
  \A l \in Links :
    /\ \A i \in 1 .. Len(chan[l]) : chan[l][i].source = l[1]
    /\ \A i, j \in 1 .. Len(chan[l]) : i < j => chan[l][i].id < chan[l][j].id

(* Retained frames of one source are kept in the order they were sent. *)
PendingOrder ==
  \A r \in Ranks :
    /\ \A k \in 1 .. Len(pending[r]) : pending[r][k].source # r
    /\ \A j, k \in 1 .. Len(pending[r]) :
         j < k /\ pending[r][j].source = pending[r][k].source
           => pending[r][j].id < pending[r][k].id

(* What was retained is older than what is still in the channel. *)
PendingBeforeChan ==
  \A l \in Links : \A k \in 1 .. Len(pending[l[2]]), i \in 1 .. Len(chan[l]) :
    pending[l[2]][k].source = l[1] => pending[l[2]][k].id < chan[l][i].id

(* Ids number the frames of a link. *)
LogIds == \A l \in Links : \A f \in log[l] : f.id <= sent[l]

(* The frames a link carries and those returned are among the sent ones;   *)
(* until the destination drops its endpoint they are all of them.          *)
Accounted ==
  \A l \in Links : /\ Undelivered(l) \subseteq log[l]
                   /\ got[l] \subseteq log[l]
                   /\ alive[l[2]] => log[l] = Undelivered(l) \union got[l]

IInv ==
  /\ TypeOK /\ ChanOrder /\ PendingOrder /\ PendingBeforeChan
  /\ LogIds /\ Accounted /\ BlockedMeansAbsent

Queues == <<chan, pending>>
Box == [l \in Links |-> Undelivered(l)]

-----------------------------------------------------------------------------
LEMMA FrameFields == \A f \in Frame : f.source \in Ranks /\ f.stream \in Streams /\ f.id \in Nat
BY MaxFramesAssumption DEF Frame

(* The blocked call of a rank names one of its links. *)
LEMMA CallLink ==
  ASSUME TypeOK, NEW r \in Ranks, call[r] # NoCall
  PROVE  /\ <<call[r].source, r>> \in Links
         /\ call[r] \in Requests
         /\ alive[r]
BY DEF TypeOK, Links, Requests

(* What each kind of step does to the undelivered frames. *)
LEMMA SendBox ==
  ASSUME IInv, NEW r \in Ranks, NEW d \in Peers(r), NEW stream \in Streams,
         Send(r, d, stream)
  PROVE  \E f \in Frame :
           /\ f = [source |-> r, stream |-> stream, id |-> sent[<<r, d>>] + 1]
           /\ Box' = [Box EXCEPT ![<<r, d>>] = @ \union {f}]
<1> DEFINE l == <<r, d>>
           f == [source |-> r, stream |-> stream, id |-> sent[l] + 1]
<1>1. l \in Links
  BY DEF Links, Peers
<1>2. f \in Frame
  BY <1>1, MaxFramesAssumption DEF Send, IInv, TypeOK, Frame
<1>3. chan' = [chan EXCEPT ![l] = Append(@, f)] /\ pending' = pending
  BY DEF Send
<1> HIDE DEF l, f
<1>4. ToSet(Append(chan[l], f)) = ToSet(chan[l]) \union {f}
  BY <1>1, <1>2, AppendFacts DEF IInv, TypeOK
<1>5. \A m \in Links : Undelivered(m)' = IF m = l THEN Undelivered(m) \union {f} ELSE Undelivered(m)
  BY <1>1, <1>3, <1>4 DEF IInv, TypeOK, Undelivered
<1>6. Box' = [Box EXCEPT ![l] = @ \union {f}]
  BY <1>1, <1>5 DEF Box
<1> QED BY <1>2, <1>6 DEF l, f

LEMMA TakeBox ==
  ASSUME IInv, NEW r \in Ranks, NEW request \in Requests,
         NEW k \in 1 .. Len(pending[r]), TakePending(r, k, request), chan' = chan
  PROVE  LET f == pending[r][k]
             l == <<f.source, r>>
         IN /\ l \in Links /\ f \in Undelivered(l)
            /\ \A g \in Undelivered(l) : g.stream = f.stream => f.id <= g.id
            /\ Box' = [Box EXCEPT ![l] = @ \ {f}]
<1> DEFINE f == pending[r][k]
           l == <<f.source, r>>
           t == RemoveAt(pending[r], k)
<1>0. pending[r] \in Seq(Frame)
  BY DEF IInv, TypeOK
<1>a. f \in Frame
  BY <1>0
<1>b. f.source \in Ranks /\ f.source # r
  BY <1>a DEF Frame, IInv, PendingOrder
<1>1. pending[r] \in Seq(Frame) /\ f \in Frame /\ l \in Links
  BY <1>0, <1>a, <1>b DEF Links
<1>2. /\ t \in Seq(Frame) /\ Len(t) = Len(pending[r]) - 1
      /\ \A i \in 1 .. Len(pending[r]) - 1 : t[i] = IF i < k THEN pending[r][i] ELSE pending[r][i + 1]
      /\ ToSet(pending[r]) = ToSet(t) \union {f}
  <2> HIDE DEF f, l
  <2> QED BY <1>0, RemoveAtFacts, SMTT(30) DEF f
<1>3. f \notin ToSet(t)
  <2>1. \A i \in DOMAIN t : t[i] # f
    <3> TAKE i \in DOMAIN t
    <3>1. i \in 1 .. Len(pending[r]) - 1
      BY <1>1, <1>2
    <3>2. CASE i < k
      <4>1. t[i] = pending[r][i]
        BY <1>2, <3>1, <3>2
      <4>2. t[i].source = f.source => t[i].id < f.id
        BY <4>1, <3>1, <3>2, <1>1 DEF IInv, PendingOrder
      <4> QED BY <4>2, <1>1 DEF Frame
    <3>3. CASE i >= k
      <4>1. t[i] = pending[r][i + 1] /\ i + 1 \in 1 .. Len(pending[r]) /\ k < i + 1
        BY <1>1, <1>2, <3>1, <3>3
      <4>2. t[i].source = f.source => f.id < t[i].id
        BY <4>1, <1>1 DEF IInv, PendingOrder
      <4> QED BY <4>2, <1>1 DEF Frame
    <3> QED BY <3>1, <3>2, <3>3
  <2> QED BY <2>1 DEF ToSet
<1>4. f \notin ToSet(chan[l])
  <2>1. \A i \in 1 .. Len(chan[l]) : f.id < chan[l][i].id
    BY <1>1 DEF IInv, PendingBeforeChan
  <2>2. DOMAIN chan[l] = 1 .. Len(chan[l])
    BY <1>1 DEF IInv, TypeOK
  <2>3. f.id \in Int
    BY <1>1 DEF Frame
  <2>4. \A i \in 1 .. Len(chan[l]) : chan[l][i] # f
    BY <2>1, <2>3
  <2> QED BY <2>2, <2>4 DEF ToSet
<1>5. \A g \in Undelivered(l) : g.stream = f.stream => f.id <= g.id
  <2>1. ASSUME NEW j \in 1 .. Len(pending[r]), pending[r][j].source = f.source,
               pending[r][j].stream = f.stream
        PROVE  f.id <= pending[r][j].id
    <3>1. j >= k
      BY <2>1 DEF TakePending, Matches
    <3>2. pending[r][j] \in Frame
      BY <1>1
    <3>3. CASE j = k
      BY <3>2, <3>3 DEF Frame
    <3>4. CASE j # k
      <4>1. f.id < pending[r][j].id
        BY <2>1, <3>1, <3>4 DEF IInv, PendingOrder
      <4> QED BY <1>a, <3>2, <4>1 DEF Frame
    <3> QED BY <3>3, <3>4
  <2>2. ASSUME NEW i \in 1 .. Len(chan[l]) PROVE f.id <= chan[l][i].id
    <3>1. chan[l][i] \in Frame
      BY <1>1 DEF IInv, TypeOK
    <3>2. f.id < chan[l][i].id
      BY <1>1 DEF IInv, PendingBeforeChan
    <3> QED BY <1>1, <3>1, <3>2, FrameFields
  <2>3. DOMAIN chan[l] = 1 .. Len(chan[l]) /\ DOMAIN pending[r] = 1 .. Len(pending[r])
    BY <1>1 DEF IInv, TypeOK
  <2> QED BY <2>1, <2>2, <2>3 DEF Undelivered, ToSet
<1>6. f \in Undelivered(l)
  BY <1>2 DEF Undelivered
<1>7. pending' = [pending EXCEPT ![r] = t]
  BY DEF TakePending
<1> HIDE DEF t
<1>8. \A m \in Links : Undelivered(m)' = IF m = l THEN Undelivered(m) \ {f} ELSE Undelivered(m)
  <2> TAKE m \in Links
  <2>1. CASE m[2] = r
    <3>1. Undelivered(m)' = {g \in ToSet(t) : g.source = m[1]} \union ToSet(chan[m])
      BY <1>7, <2>1 DEF Undelivered, IInv, TypeOK
    <3>2. m = l <=> m[1] = f.source
      BY <2>1 DEF Links
    <3> QED BY <1>2, <1>3, <1>4, <2>1, <3>1, <3>2 DEF Undelivered
  <2>2. CASE m[2] # r
    BY <1>7, <2>2 DEF Undelivered, IInv, TypeOK, Links
  <2> QED BY <2>1, <2>2
<1> HIDE DEF f, l
<1>9. Box' = [Box EXCEPT ![l] = @ \ {f}]
  BY <1>1, <1>8 DEF Box
<1> QED BY <1>1, <1>5, <1>6, <1>9 DEF f, l

LEMMA MatchBox ==
  ASSUME IInv, NEW r \in Ranks, RecvMatch(r)
  PROVE  LET l == <<call[r].source, r>>
             f == Head(chan[l])
         IN /\ l \in Links /\ f \in Undelivered(l)
            /\ \A g \in Undelivered(l) : g.stream = f.stream => f.id <= g.id
            /\ Box' = [Box EXCEPT ![l] = @ \ {f}]
<1> DEFINE l == <<call[r].source, r>>
           f == Head(chan[l])
           t == Tail(chan[l])
<1>1. l \in Links /\ chan[l] \in Seq(Frame) /\ chan[l] # <<>> /\ Matches(f, call[r])
  BY CallLink DEF RecvMatch, IInv, TypeOK
<1>2. /\ f = chan[l][1] /\ f \in Frame
      /\ t \in Seq(Frame) /\ Len(chan[l]) >= 1 /\ Len(t) = Len(chan[l]) - 1
      /\ \A i \in 1 .. Len(t) : t[i] = chan[l][i + 1]
      /\ ToSet(chan[l]) = ToSet(t) \union {f}
  BY <1>1, TailFacts
<1>3. \A i \in 1 .. Len(t) : f.id < t[i].id
  BY <1>1, <1>2 DEF IInv, ChanOrder
<1>4. f \notin ToSet(t)
  <2>1. DOMAIN t = 1 .. Len(t)
    BY <1>2
  <2>2. f.id \in Int
    BY <1>2 DEF Frame
  <2>3. \A i \in 1 .. Len(t) : t[i] # f
    BY <1>3, <2>2
  <2> QED BY <2>1, <2>3 DEF ToSet
<1>5. \A j \in 1 .. Len(pending[r]) : pending[r][j].source = l[1] => pending[r][j].stream # f.stream
  BY <1>1 DEF IInv, BlockedMeansAbsent, Matches, RecvMatch
<1>6. DOMAIN pending[r] = 1 .. Len(pending[r])
  BY DEF IInv, TypeOK
<1>7. \A g \in Undelivered(l) : g.stream = f.stream => f.id <= g.id
  <2> SUFFICES ASSUME NEW g \in Undelivered(l), g.stream = f.stream PROVE f.id <= g.id
    OBVIOUS
  <2>1. g \in ToSet(chan[l])
    BY <1>5, <1>6 DEF Undelivered, ToSet
  <2>2. CASE g = f
    BY <1>2, <2>2 DEF Frame
  <2>3. CASE g \in ToSet(t)
    <3>1. DOMAIN t = 1 .. Len(t)
      BY <1>2
    <3> HIDE DEF t, f
    <3>2. PICK i \in 1 .. Len(t) : g = t[i]
      BY <2>3, <3>1 DEF ToSet
    <3>3. g \in Frame
      BY <1>2, <3>2
    <3>4. f.id < g.id
      BY <1>3, <3>2
    <3> QED BY <1>2, <3>3, <3>4, FrameFields
  <2> QED BY <1>2, <2>1, <2>2, <2>3
<1>8. {g \in ToSet(pending[r]) : g.source = l[1]} \ {f} = {g \in ToSet(pending[r]) : g.source = l[1]}
  BY <1>5, <1>6 DEF ToSet
<1>9. chan' = [chan EXCEPT ![l] = t] /\ pending' = pending
  BY DEF RecvMatch
<1>10. f \in Undelivered(l)
  BY <1>2 DEF Undelivered
<1> HIDE DEF t, f
<1>11. \A m \in Links : Undelivered(m)' = IF m = l THEN Undelivered(m) \ {f} ELSE Undelivered(m)
  <2> TAKE m \in Links
  <2>1. CASE m = l
    <3>1. Undelivered(m)' = {g \in ToSet(pending[r]) : g.source = l[1]} \union ToSet(t)
      BY <1>1, <1>9, <2>1 DEF Undelivered, IInv, TypeOK
    <3>2. Undelivered(m) = {g \in ToSet(pending[r]) : g.source = l[1]} \union ToSet(chan[l])
      BY <2>1 DEF Undelivered
    <3> QED BY <1>2, <1>4, <1>8, <2>1, <3>1, <3>2
  <2>2. CASE m # l
    BY <1>1, <1>9, <2>2 DEF Undelivered, IInv, TypeOK
  <2> QED BY <2>1, <2>2
<1> HIDE DEF l
<1>12. Box' = [Box EXCEPT ![l] = @ \ {f}]
  BY <1>1, <1>11 DEF Box
<1> QED BY <1>1, <1>7, <1>10, <1>12 DEF l, f

LEMMA RetainBox ==
  ASSUME IInv, NEW r \in Ranks, RecvRetain(r)
  PROVE  Box' = Box
<1> DEFINE l == <<call[r].source, r>>
           f == Head(chan[l])
           t == Tail(chan[l])
           p == Append(pending[r], f)
<1>1. l \in Links /\ chan[l] \in Seq(Frame) /\ chan[l] # <<>> /\ pending[r] \in Seq(Frame)
  BY CallLink DEF RecvRetain, IInv, TypeOK
<1>2. f = chan[l][1] /\ f \in Frame /\ Len(chan[l]) >= 1 /\ ToSet(chan[l]) = ToSet(t) \union {f}
  BY <1>1, TailFacts
<1>3. ToSet(p) = ToSet(pending[r]) \union {f}
  BY <1>1, <1>2, AppendFacts
<1>4. f.source = l[1]
  BY <1>1, <1>2 DEF IInv, ChanOrder
<1>5. chan' = [chan EXCEPT ![l] = t] /\ pending' = [pending EXCEPT ![r] = p]
  BY DEF RecvRetain
<1> HIDE DEF t, f, p
<1>6. \A m \in Links : Undelivered(m)' = Undelivered(m)
  <2> TAKE m \in Links
  <2>1. CASE m = l
    <3>1. Undelivered(m)' = {g \in ToSet(p) : g.source = l[1]} \union ToSet(t)
      BY <1>1, <1>5, <2>1 DEF Undelivered, IInv, TypeOK
    <3>2. Undelivered(m) = {g \in ToSet(pending[r]) : g.source = l[1]} \union ToSet(chan[l])
      BY <2>1 DEF Undelivered
    <3> QED BY <1>2, <1>3, <1>4, <3>1, <3>2
  <2>2. CASE m # l /\ m[2] = r
    <3>1. m[1] # l[1]
      BY <2>2, <1>1 DEF Links
    <3>2. Undelivered(m)' = {g \in ToSet(p) : g.source = m[1]} \union ToSet(chan[m])
      BY <1>1, <1>5, <2>2 DEF Undelivered, IInv, TypeOK
    <3> QED BY <1>3, <1>4, <2>2, <3>1, <3>2 DEF Undelivered
  <2>3. CASE m[2] # r
    <3>1. m # l /\ m[2] \in Ranks
      BY <2>3 DEF Links
    <3> QED BY <1>1, <1>5, <2>3, <3>1 DEF Undelivered, IInv, TypeOK
  <2> QED BY <2>1, <2>2, <2>3
<1> QED BY <1>6 DEF Box

LEMMA DropBox ==
  ASSUME IInv, NEW r \in Ranks, DropEndpoint(r)
  PROVE  Box' = [l \in Links |-> IF l[2] = r THEN {} ELSE Box[l]]
<1>1. \A m \in Links : Undelivered(m)' = IF m[2] = r THEN {} ELSE Undelivered(m)
  <2> TAKE m \in Links
  <2>1. CASE m[2] = r
    <3>1. pending'[r] = <<>> /\ chan'[m] = <<>>
      BY <2>1 DEF DropEndpoint, IInv, TypeOK
    <3> QED BY <2>1, <3>1 DEF Undelivered, ToSet
  <2>2. CASE m[2] # r
    BY <2>2 DEF DropEndpoint, IInv, TypeOK, Undelivered, Links
  <2> QED BY <2>1, <2>2
<1> QED BY <1>1 DEF Box

-----------------------------------------------------------------------------
(* Every frame on its way is in the log, so its id is at most sent[l]. *)
LEMMA CarriedIds ==
  ASSUME IInv, NEW l \in Links
  PROVE  /\ \A i \in 1 .. Len(chan[l]) : chan[l][i].id <= sent[l]
         /\ \A k \in 1 .. Len(pending[l[2]]) :
              pending[l[2]][k].source = l[1] => pending[l[2]][k].id <= sent[l]
<1>1. chan[l] \in Seq(Frame) /\ pending[l[2]] \in Seq(Frame)
  BY DEF IInv, TypeOK, Links
<1>2. \A i \in 1 .. Len(chan[l]) : chan[l][i] \in Undelivered(l)
  BY <1>1 DEF Undelivered, ToSet
<1>3. \A k \in 1 .. Len(pending[l[2]]) :
        pending[l[2]][k].source = l[1] => pending[l[2]][k] \in Undelivered(l)
  BY <1>1 DEF Undelivered, ToSet
<1> QED BY <1>2, <1>3 DEF IInv, Accounted, LogIds

(* A step that returns f on link l keeps the frames accounted for. *)
LEMMA DeliverAccounted ==
  ASSUME IInv, NEW l \in Links, NEW f \in Undelivered(l),
         Box' = [Box EXCEPT ![l] = @ \ {f}],
         got' = [got EXCEPT ![l] = @ \union {f}],
         log' = log, alive' = alive
  PROVE  Accounted'
<1>1. \A m \in Links : Undelivered(m)' = Box'[m] /\ Undelivered(m) = Box[m]
  BY DEF Box
<1>2. \A m \in Links : Undelivered(m)' = IF m = l THEN Undelivered(m) \ {f} ELSE Undelivered(m)
  BY <1>1 DEF Box
<1>3. \A m \in Links : got'[m] = IF m = l THEN got[m] \union {f} ELSE got[m]
  BY DEF IInv, TypeOK
<1> QED BY <1>2, <1>3 DEF IInv, Accounted

LEMMA InitIInv == Init => IInv
<1> SUFFICES ASSUME Init PROVE IInv
  OBVIOUS
<1>1. TypeOK
  <2>1. sent \in [Links -> 0 .. MaxFrames]
    BY MaxFramesAssumption DEF Init
  <2>2. chan \in [Links -> Seq(Frame)] /\ pending \in [Ranks -> Seq(Frame)]
    BY DEF Init
  <2>3. \A r \in Ranks : call[r] = NoCall
    BY DEF Init
  <2> QED BY <2>1, <2>2, <2>3, Zenon DEF Init, TypeOK
<1>2. \A l \in Links : chan[l] = <<>> /\ log[l] = {} /\ got[l] = {} /\ l[2] \in Ranks
  BY DEF Init, Links
<1>3. \A r \in Ranks : pending[r] = <<>> /\ call[r] = NoCall
  BY DEF Init
<1>4. \A l \in Links : Undelivered(l) = {}
  BY <1>2, <1>3 DEF Undelivered, ToSet
<1> QED
  BY <1>1, <1>2, <1>3, <1>4
  DEF IInv, ChanOrder, PendingOrder, PendingBeforeChan, LogIds, Accounted, BlockedMeansAbsent

LEMMA SendIInv ==
  ASSUME IInv, NEW r \in Ranks, NEW d \in Peers(r), NEW stream \in Streams,
         Send(r, d, stream)
  PROVE  IInv'
<1> DEFINE l == <<r, d>>
<1>1. PICK f \in Frame :
        /\ f = [source |-> r, stream |-> stream, id |-> sent[l] + 1]
        /\ Box' = [Box EXCEPT ![l] = @ \union {f}]
  BY SendBox
<1>2. l \in Links /\ l[1] = r /\ chan[l] \in Seq(Frame)
  BY DEF Links, Peers, IInv, TypeOK
<1>3. /\ chan' = [chan EXCEPT ![l] = Append(@, f)]
      /\ log' = [log EXCEPT ![l] = @ \union {f}]
      /\ sent' = [sent EXCEPT ![l] = @ + 1] /\ sent[l] < MaxFrames
      /\ UNCHANGED <<pending, call, alive, got>>
  BY <1>1 DEF Send
<1> HIDE DEF l
<1>4. /\ Append(chan[l], f) \in Seq(Frame)
      /\ Len(Append(chan[l], f)) = Len(chan[l]) + 1
      /\ \A i \in 1 .. Len(chan[l]) : Append(chan[l], f)[i] = chan[l][i]
      /\ Append(chan[l], f)[Len(chan[l]) + 1] = f
  BY <1>2, AppendFacts
<1>5. sent[l] \in Nat /\ f.id = sent[l] + 1 /\ f.source = l[1]
  BY <1>1, <1>2, MaxFramesAssumption DEF IInv, TypeOK
<1>6. \A i \in 1 .. Len(chan[l]) : chan[l][i].id < f.id
  <2> TAKE i \in 1 .. Len(chan[l])
  <2>1. chan[l][i] \in Frame /\ chan[l][i].id <= sent[l]
    BY <1>2, CarriedIds
  <2> QED BY <1>5, <2>1, FrameFields
<1>7. TypeOK'
  BY <1>2, <1>3, <1>4, MaxFramesAssumption DEF IInv, TypeOK
<1>8. ChanOrder'
  <2> SUFFICES ASSUME NEW m \in Links
               PROVE  /\ \A i \in 1 .. Len(chan'[m]) : chan'[m][i].source = m[1]
                      /\ \A i, j \in 1 .. Len(chan'[m]) : i < j => chan'[m][i].id < chan'[m][j].id
    BY DEF ChanOrder
  <2>1. CASE m = l
    <3>1. chan'[m] = Append(chan[l], f)
      BY <1>2, <1>3, <2>1 DEF IInv, TypeOK
    <3>2. \A i \in 1 .. Len(chan[l]) + 1 : i = Len(chan[l]) + 1 \/ i \in 1 .. Len(chan[l])
      BY <1>2
    <3> QED BY <1>2, <1>4, <1>5, <1>6, <2>1, <3>1, <3>2 DEF IInv, ChanOrder
  <2>2. CASE m # l
    BY <1>3, <2>2 DEF IInv, TypeOK, ChanOrder
  <2> QED BY <2>1, <2>2
<1>9. PendingOrder' /\ BlockedMeansAbsent'
  BY <1>3 DEF IInv, PendingOrder, BlockedMeansAbsent
<1>10. PendingBeforeChan'
  <2> SUFFICES ASSUME NEW m \in Links, NEW k \in 1 .. Len(pending[m[2]]),
                      NEW i \in 1 .. Len(chan'[m]), pending[m[2]][k].source = m[1]
               PROVE  pending[m[2]][k].id < chan'[m][i].id
    BY <1>3 DEF PendingBeforeChan
  <2>1. CASE m = l
    <3>1. chan'[m] = Append(chan[l], f)
      BY <1>2, <1>3, <2>1 DEF IInv, TypeOK
    <3>2. pending[m[2]][k] \in Frame
      <4>1. m[2] \in Ranks /\ pending[m[2]] \in Seq(Frame)
        BY DEF IInv, TypeOK, Links
      <4> QED BY <4>1
    <3>3. pending[m[2]][k].id < f.id
      <4>1. pending[m[2]][k].id <= sent[m]
        BY CarriedIds
      <4>2. pending[m[2]][k].id \in Nat
        BY <3>2, FrameFields
      <4> QED BY <1>5, <2>1, <4>1, <4>2
    <3>4. i = Len(chan[l]) + 1 \/ i \in 1 .. Len(chan[l])
      BY <1>2, <1>4, <3>1
    <3> QED BY <1>4, <2>1, <3>1, <3>3, <3>4 DEF IInv, PendingBeforeChan
  <2>2. CASE m # l
    BY <1>3, <2>2 DEF IInv, TypeOK, PendingBeforeChan
  <2> QED BY <2>1, <2>2
<1>11. LogIds'
  <2> SUFFICES ASSUME NEW m \in Links, NEW g \in log'[m] PROVE g.id <= sent'[m]
    BY DEF LogIds
  <2>1. CASE m = l
    <3>1. (g = f \/ g \in log[l]) /\ sent'[m] = sent[l] + 1
      BY <1>2, <1>3, <2>1 DEF IInv, TypeOK
    <3>2. CASE g = f
      BY <1>5, <3>1, <3>2
    <3>3. CASE g \in log[l]
      <4>1. g \in Frame /\ g.id <= sent[l]
        BY <1>2, <3>3 DEF IInv, TypeOK, LogIds
      <4> QED BY <1>5, <3>1, <4>1, FrameFields
    <3> QED BY <3>1, <3>2, <3>3
  <2>2. CASE m # l
    BY <1>3, <2>2 DEF IInv, TypeOK, LogIds
  <2> QED BY <2>1, <2>2
<1>12. Accounted'
  <2>1. \A m \in Links : Undelivered(m)' = Box'[m] /\ Undelivered(m) = Box[m]
    BY DEF Box
  <2>2. \A m \in Links : Undelivered(m)' = IF m = l THEN Undelivered(m) \union {f} ELSE Undelivered(m)
    BY <1>1, <2>1 DEF Box, l
  <2>3. \A m \in Links : log'[m] = IF m = l THEN log[m] \union {f} ELSE log[m]
    BY <1>3 DEF IInv, TypeOK
  <2> SUFFICES ASSUME NEW m \in Links
               PROVE  /\ Undelivered(m)' \subseteq log'[m]
                      /\ got'[m] \subseteq log'[m]
                      /\ alive'[m[2]] => log'[m] = Undelivered(m)' \union got'[m]
    BY DEF Accounted
  <2>4. /\ Undelivered(m) \subseteq log[m] /\ got[m] \subseteq log[m]
        /\ alive[m[2]] => log[m] = Undelivered(m) \union got[m]
    BY DEF IInv, Accounted
  <2>5. got'[m] = got[m] /\ alive'[m[2]] = alive[m[2]]
    BY <1>3
  <2>6. CASE m = l
    <3>1. Undelivered(m)' = Undelivered(m) \union {f} /\ log'[m] = log[m] \union {f}
      BY <2>2, <2>3, <2>6
    <3> QED BY <2>4, <2>5, <3>1
  <2>7. CASE m # l
    BY <2>2, <2>3, <2>4, <2>5, <2>7
  <2> QED BY <2>6, <2>7
<1> QED BY <1>7, <1>8, <1>9, <1>10, <1>11, <1>12 DEF IInv

LEMMA RecvPendingIInv ==
  ASSUME IInv, NEW r \in Ranks, NEW request \in Requests, RecvPending(r, request)
  PROVE  IInv'
<1>1. PICK k \in 1 .. Len(pending[r]) : TakePending(r, k, request) /\ Deliver(r, pending[r][k])
  BY DEF RecvPending
<1> DEFINE f == pending[r][k]
           l == <<f.source, r>>
           t == RemoveAt(pending[r], k)
<1>2. chan' = chan /\ call' = call /\ alive' = alive /\ sent' = sent /\ log' = log
  BY DEF RecvPending
<1>3. l \in Links /\ f \in Undelivered(l) /\ Box' = [Box EXCEPT ![l] = @ \ {f}]
  BY <1>1, <1>2, TakeBox
<1>4. pending[r] \in Seq(Frame) /\ f \in Frame
  BY DEF IInv, TypeOK
<1>5. pending' = [pending EXCEPT ![r] = t] /\ got' = [got EXCEPT ![l] = @ \union {f}]
  BY <1>1 DEF TakePending, Deliver
<1>6. /\ t \in Seq(Frame) /\ Len(t) = Len(pending[r]) - 1
      /\ \A i \in 1 .. Len(pending[r]) - 1 : t[i] = IF i < k THEN pending[r][i] ELSE pending[r][i + 1]
  <2> HIDE DEF f, l
  <2> QED BY <1>1, <1>4, RemoveAtFacts
<1> HIDE DEF f, l, t
<1>7. \A i \in 1 .. Len(t) : \E j \in 1 .. Len(pending[r]) :
        /\ t[i] = pending[r][j]
        /\ j = IF i < k THEN i ELSE i + 1
  <2> TAKE i \in 1 .. Len(t)
  <2> DEFINE j == IF i < k THEN i ELSE i + 1
  <2>1. j \in 1 .. Len(pending[r]) /\ t[i] = pending[r][j]
    BY <1>4, <1>6
  <2> QED BY <2>1
<1>8. TypeOK'
  BY <1>2, <1>3, <1>4, <1>5, <1>6 DEF IInv, TypeOK
<1>9. ChanOrder' /\ LogIds'
  BY <1>2 DEF IInv, ChanOrder, LogIds
<1>10. PendingOrder'
  <2> SUFFICES ASSUME NEW q \in Ranks
               PROVE  /\ \A i \in 1 .. Len(pending'[q]) : pending'[q][i].source # q
                      /\ \A i, j \in 1 .. Len(pending'[q]) :
                           i < j /\ pending'[q][i].source = pending'[q][j].source
                             => pending'[q][i].id < pending'[q][j].id
    BY DEF PendingOrder
  <2>1. CASE q = r
    <3>1. pending'[q] = t
      BY <1>5, <2>1 DEF IInv, TypeOK
    <3>2. \A i \in 1 .. Len(t) : t[i].source # r
      BY <1>7 DEF IInv, PendingOrder
    <3>3. ASSUME NEW i \in 1 .. Len(t), NEW j \in 1 .. Len(t), i < j, t[i].source = t[j].source
          PROVE  t[i].id < t[j].id
      <4>1. PICK a \in 1 .. Len(pending[r]) : t[i] = pending[r][a] /\ a = IF i < k THEN i ELSE i + 1
        BY <1>7
      <4>2. PICK b \in 1 .. Len(pending[r]) : t[j] = pending[r][b] /\ b = IF j < k THEN j ELSE j + 1
        BY <1>7
      <4>3. a < b
        BY <3>3, <4>1, <4>2
      <4> QED BY <3>3, <4>1, <4>2, <4>3 DEF IInv, PendingOrder
    <3> QED BY <2>1, <3>1, <3>2, <3>3
  <2>2. CASE q # r
    BY <1>5, <2>2 DEF IInv, TypeOK, PendingOrder
  <2> QED BY <2>1, <2>2
<1>11. PendingBeforeChan'
  <2> SUFFICES ASSUME NEW m \in Links, NEW i \in 1 .. Len(pending'[m[2]]),
                      NEW j \in 1 .. Len(chan[m]), pending'[m[2]][i].source = m[1]
               PROVE  pending'[m[2]][i].id < chan[m][j].id
    BY <1>2 DEF PendingBeforeChan
  <2>1. CASE m[2] = r
    <3>1. pending'[m[2]] = t
      BY <1>5, <2>1 DEF IInv, TypeOK
    <3>2. PICK a \in 1 .. Len(pending[r]) : t[i] = pending[r][a]
      BY <1>7, <3>1
    <3> QED BY <2>1, <3>1, <3>2 DEF IInv, PendingBeforeChan
  <2>2. CASE m[2] # r
    <3>1. pending'[m[2]] = pending[m[2]]
      BY <1>5, <2>2 DEF IInv, TypeOK, Links
    <3> QED BY <3>1 DEF IInv, PendingBeforeChan
  <2> QED BY <2>1, <2>2
<1>12. BlockedMeansAbsent'
  <2> SUFFICES ASSUME NEW q \in Ranks, call[q] # NoCall, NEW i \in 1 .. Len(pending'[q])
               PROVE  ~Matches(pending'[q][i], call[q])
    BY <1>2 DEF BlockedMeansAbsent
  <2>1. q # r
    BY DEF RecvPending
  <2>2. pending'[q] = pending[q]
    BY <1>5, <2>1 DEF IInv, TypeOK
  <2> QED BY <2>2 DEF IInv, BlockedMeansAbsent
<1>13. Accounted'
  BY <1>2, <1>3, <1>5, DeliverAccounted
<1> QED BY <1>8, <1>9, <1>10, <1>11, <1>12, <1>13 DEF IInv

(* Taking the head of a channel keeps its order; what remains is younger. *)
LEMMA HeadTaken ==
  ASSUME IInv, NEW l \in Links, chan[l] # <<>>, chan' = [chan EXCEPT ![l] = Tail(@)]
  PROVE  /\ chan' \in [Links -> Seq(Frame)]
         /\ \A m \in Links : m # l => chan'[m] = chan[m]
         /\ \A i \in 1 .. Len(chan'[l]) : /\ i + 1 \in 1 .. Len(chan[l])
                                          /\ chan'[l][i] = chan[l][i + 1]
                                          /\ Head(chan[l]).id < chan'[l][i].id
         /\ 1 \in 1 .. Len(chan[l]) /\ Head(chan[l]) = chan[l][1] /\ Head(chan[l]) \in Frame
         /\ Head(chan[l]).source = l[1]
         /\ ChanOrder'
<1> DEFINE t == Tail(chan[l])
           f == Head(chan[l])
<1>1. chan[l] \in Seq(Frame) /\ chan'[l] = t /\ \A m \in Links : m # l => chan'[m] = chan[m]
  BY DEF IInv, TypeOK
<1>2. /\ f = chan[l][1] /\ f \in Frame
      /\ t \in Seq(Frame) /\ Len(chan[l]) >= 1 /\ Len(t) = Len(chan[l]) - 1
      /\ \A i \in 1 .. Len(t) : t[i] = chan[l][i + 1]
  BY <1>1, TailFacts
<1> HIDE DEF t, f
<1>3. chan' \in [Links -> Seq(Frame)]
  BY <1>2 DEF IInv, TypeOK, t
<1>4. Len(chan[l]) \in Nat /\ 1 \in 1 .. Len(chan[l])
  BY <1>1, <1>2
<1>5. \A i \in 1 .. Len(t) : i + 1 \in 1 .. Len(chan[l]) /\ t[i] = chan[l][i + 1]
  BY <1>2, <1>4
<1>6. \A i, j \in 1 .. Len(chan[l]) : i < j => chan[l][i].id < chan[l][j].id
  BY DEF IInv, ChanOrder
<1>7. \A i \in 1 .. Len(chan[l]) : chan[l][i].source = l[1]
  BY DEF IInv, ChanOrder
<1>8. ASSUME NEW i \in 1 .. Len(t) PROVE f.id < t[i].id
  <2>1. i + 1 \in 1 .. Len(chan[l]) /\ 1 < i + 1
    BY <1>5
  <2> QED BY <1>2, <1>4, <1>5, <1>6, <2>1
<1>9. ASSUME NEW i \in 1 .. Len(t), NEW j \in 1 .. Len(t), i < j PROVE t[i].id < t[j].id
  <2>1. i + 1 \in 1 .. Len(chan[l]) /\ j + 1 \in 1 .. Len(chan[l]) /\ i + 1 < j + 1
    BY <1>5, <1>9
  <2> QED BY <1>5, <1>6, <2>1
<1>10. \A i \in 1 .. Len(t) : t[i].source = l[1]
  BY <1>5, <1>7
<1>11. ChanOrder'
  <2> SUFFICES ASSUME NEW m \in Links
               PROVE  /\ \A i \in 1 .. Len(chan'[m]) : chan'[m][i].source = m[1]
                      /\ \A i, j \in 1 .. Len(chan'[m]) : i < j => chan'[m][i].id < chan'[m][j].id
    BY DEF ChanOrder
  <2>1. CASE m = l
    BY <1>1, <1>9, <1>10, <2>1
  <2>2. CASE m # l
    BY <1>1, <2>2 DEF IInv, ChanOrder
  <2> QED BY <2>1, <2>2
<1> QED BY <1>1, <1>2, <1>3, <1>4, <1>5, <1>7, <1>8, <1>11 DEF f

LEMMA RecvMatchIInv ==
  ASSUME IInv, NEW r \in Ranks, RecvMatch(r)
  PROVE  IInv'
<1> DEFINE l == <<call[r].source, r>>
           f == Head(chan[l])
<1>1. l \in Links /\ f \in Undelivered(l) /\ Box' = [Box EXCEPT ![l] = @ \ {f}]
  BY MatchBox
<1>2. /\ chan[l] # <<>>
      /\ chan' = [chan EXCEPT ![l] = Tail(@)]
      /\ call' = [call EXCEPT ![r] = NoCall]
      /\ UNCHANGED <<pending, alive, sent, log>>
      /\ f.source = call[r].source
  BY DEF RecvMatch, Matches
<1>3. got' = [got EXCEPT ![l] = @ \union {f}]
  BY <1>2 DEF RecvMatch, Deliver
<1> HIDE DEF l, f
<1>4. /\ chan' \in [Links -> Seq(Frame)]
      /\ \A m \in Links : m # l => chan'[m] = chan[m]
      /\ \A i \in 1 .. Len(chan'[l]) : i + 1 \in 1 .. Len(chan[l]) /\ chan'[l][i] = chan[l][i + 1]
      /\ f \in Frame
      /\ ChanOrder'
  BY <1>1, <1>2, HeadTaken DEF f
<1>5. TypeOK'
  BY <1>1, <1>2, <1>3, <1>4 DEF IInv, TypeOK
<1>6. PendingOrder' /\ LogIds'
  BY <1>2 DEF IInv, PendingOrder, LogIds
<1>7. PendingBeforeChan'
  <2> SUFFICES ASSUME NEW m \in Links, NEW k \in 1 .. Len(pending[m[2]]),
                      NEW i \in 1 .. Len(chan'[m]), pending[m[2]][k].source = m[1]
               PROVE  pending[m[2]][k].id < chan'[m][i].id
    BY <1>2 DEF PendingBeforeChan
  <2>1. CASE m = l
    BY <1>4, <2>1 DEF IInv, PendingBeforeChan
  <2>2. CASE m # l
    BY <1>4, <2>2 DEF IInv, PendingBeforeChan
  <2> QED BY <2>1, <2>2
<1>8. BlockedMeansAbsent'
  BY <1>2 DEF IInv, TypeOK, BlockedMeansAbsent
<1>9. Accounted'
  BY <1>1, <1>2, <1>3, DeliverAccounted
<1> QED BY <1>4, <1>5, <1>6, <1>7, <1>8, <1>9 DEF IInv

LEMMA RecvRetainIInv ==
  ASSUME IInv, NEW r \in Ranks, RecvRetain(r)
  PROVE  IInv'
<1> DEFINE l == <<call[r].source, r>>
           f == Head(chan[l])
           p == Append(pending[r], f)
<1>1. l \in Links /\ l[2] = r /\ pending[r] \in Seq(Frame) /\ l[1] # r
  BY CallLink DEF RecvRetain, IInv, TypeOK, Links
<1>2. /\ chan[l] # <<>>
      /\ chan' = [chan EXCEPT ![l] = Tail(@)]
      /\ pending' = [pending EXCEPT ![r] = p]
      /\ UNCHANGED <<call, alive, sent, log, got>>
      /\ ~Matches(f, call[r])
  BY DEF RecvRetain
<1> HIDE DEF l
<1>3. /\ chan' \in [Links -> Seq(Frame)]
      /\ \A m \in Links : m # l => chan'[m] = chan[m]
      /\ \A i \in 1 .. Len(chan'[l]) : /\ i + 1 \in 1 .. Len(chan[l])
                                       /\ chan'[l][i] = chan[l][i + 1]
                                       /\ f.id < chan'[l][i].id
      /\ 1 \in 1 .. Len(chan[l]) /\ f = chan[l][1] /\ f \in Frame
      /\ f.source = l[1]
      /\ ChanOrder'
  BY <1>1, <1>2, HeadTaken
<1> HIDE DEF f
<1>4. /\ p \in Seq(Frame) /\ Len(p) = Len(pending[r]) + 1
      /\ \A i \in 1 .. Len(pending[r]) : p[i] = pending[r][i]
      /\ p[Len(pending[r]) + 1] = f
  BY <1>1, <1>3, AppendFacts
<1> HIDE DEF p
<1>5. \A k \in 1 .. Len(p) : k = Len(pending[r]) + 1 \/ k \in 1 .. Len(pending[r])
  BY <1>1, <1>4
<1>6. TypeOK'
  BY <1>1, <1>2, <1>3, <1>4 DEF IInv, TypeOK
<1>7. \A q \in Ranks : pending'[q] = IF q = r THEN p ELSE pending[q]
  BY <1>2 DEF IInv, TypeOK
<1>8. \A k \in 1 .. Len(pending[r]) : pending[r][k].source = l[1] => pending[r][k].id < f.id
  <2>1. \A k \in 1 .. Len(pending[l[2]]), i \in 1 .. Len(chan[l]) :
          pending[l[2]][k].source = l[1] => pending[l[2]][k].id < chan[l][i].id
    BY <1>1 DEF IInv, PendingBeforeChan
  <2> QED BY <1>1, <1>3, <2>1
<1>9. PendingOrder'
  <2> SUFFICES ASSUME NEW q \in Ranks
               PROVE  /\ \A i \in 1 .. Len(pending'[q]) : pending'[q][i].source # q
                      /\ \A i, j \in 1 .. Len(pending'[q]) :
                           i < j /\ pending'[q][i].source = pending'[q][j].source
                             => pending'[q][i].id < pending'[q][j].id
    BY DEF PendingOrder
  <2>1. CASE q = r
    <3>1. ASSUME NEW i \in 1 .. Len(p)
          PROVE  p[i].source # r
      <4>1. CASE i = Len(pending[r]) + 1
        BY <1>1, <1>3, <1>4, <4>1 DEF Links
      <4>2. CASE i \in 1 .. Len(pending[r])
        BY <1>4, <4>2 DEF IInv, PendingOrder
      <4> QED BY <1>5, <4>1, <4>2
    <3>2. ASSUME NEW i \in 1 .. Len(p), NEW j \in 1 .. Len(p), i < j, p[i].source = p[j].source
          PROVE  p[i].id < p[j].id
      <4>1. i \in 1 .. Len(pending[r])
        BY <1>1, <1>4, <3>2
      <4>2. CASE j = Len(pending[r]) + 1
        BY <1>3, <1>4, <1>8, <3>2, <4>1, <4>2
      <4>3. CASE j \in 1 .. Len(pending[r])
        BY <1>4, <3>2, <4>1, <4>3 DEF IInv, PendingOrder
      <4> QED BY <1>5, <4>2, <4>3
    <3> QED BY <1>7, <2>1, <3>1, <3>2
  <2>2. CASE q # r
    BY <1>7, <2>2 DEF IInv, PendingOrder
  <2> QED BY <2>1, <2>2
<1>10. PendingBeforeChan'
  <2> SUFFICES ASSUME NEW m \in Links, NEW k \in 1 .. Len(pending'[m[2]]),
                      NEW i \in 1 .. Len(chan'[m]), pending'[m[2]][k].source = m[1]
               PROVE  pending'[m[2]][k].id < chan'[m][i].id
    BY DEF PendingBeforeChan
  <2>1. CASE m = l
    <3>1. pending'[m[2]] = p
      BY <1>1, <1>7, <2>1
    <3>2. CASE k = Len(pending[r]) + 1
      BY <1>3, <1>4, <2>1, <3>1, <3>2
    <3>3. CASE k \in 1 .. Len(pending[r])
      <4>1. pending[l[2]][k].source = l[1]
        BY <1>1, <1>4, <2>1, <3>1, <3>3
      <4>2. pending[l[2]][k].id < chan[l][i + 1].id
        BY <1>1, <1>3, <2>1, <3>3, <4>1 DEF IInv, PendingBeforeChan
      <4> QED BY <1>1, <1>3, <1>4, <2>1, <3>1, <3>3, <4>2
    <3> QED BY <1>5, <3>1, <3>2, <3>3
  <2>2. CASE m # l /\ m[2] = r
    <3>0. m[1] # l[1]
      <4>1. m = <<m[1], m[2]>> /\ l = <<l[1], l[2]>> /\ l[2] = r
        BY <1>1 DEF Links
      <4> QED BY <2>2, <4>1
    <3>1. pending'[m[2]] = p /\ chan'[m] = chan[m] /\ m[1] # l[1]
      BY <1>3, <1>7, <2>2, <3>0
    <3>2. k \in 1 .. Len(pending[r])
      BY <1>3, <1>4, <1>5, <3>1
    <3> QED BY <1>4, <2>2, <3>1, <3>2 DEF IInv, PendingBeforeChan
  <2>3. CASE m[2] # r
    <3>1. pending'[m[2]] = pending[m[2]] /\ chan'[m] = chan[m]
      BY <1>1, <1>3, <1>7, <2>3 DEF Links
    <3> QED BY <3>1 DEF IInv, PendingBeforeChan
  <2> QED BY <2>1, <2>2, <2>3
<1>11. LogIds'
  BY <1>2 DEF IInv, LogIds
<1>12. BlockedMeansAbsent'
  <2> SUFFICES ASSUME NEW q \in Ranks, call[q] # NoCall, NEW k \in 1 .. Len(pending'[q])
               PROVE  ~Matches(pending'[q][k], call[q])
    BY <1>2 DEF BlockedMeansAbsent
  <2>1. CASE q = r
    <3>1. CASE k = Len(pending[r]) + 1
      BY <1>2, <1>4, <1>7, <2>1, <3>1
    <3>2. CASE k \in 1 .. Len(pending[r])
      BY <1>4, <1>7, <2>1, <3>2 DEF IInv, BlockedMeansAbsent
    <3> QED BY <1>5, <1>7, <2>1, <3>1, <3>2
  <2>2. CASE q # r
    BY <1>7, <2>2 DEF IInv, BlockedMeansAbsent
  <2> QED BY <2>1, <2>2
<1>13. Accounted'
  <2>1. \A m \in Links : Undelivered(m)' = Box'[m] /\ Undelivered(m) = Box[m]
    BY DEF Box
  <2>2. Box' = Box
    BY RetainBox
  <2> QED BY <1>2, <2>1, <2>2 DEF IInv, Accounted
<1> QED BY <1>3, <1>6, <1>9, <1>10, <1>11, <1>12, <1>13 DEF IInv

(* Starting to wait, and giving up, touch only the call. *)
LEMMA CallIInv ==
  ASSUME IInv, NEW r \in Ranks,
         NEW c \in Requests \union {NoCall}, call' = [call EXCEPT ![r] = c],
         c # NoCall => /\ alive[r] /\ c.source # r
                       /\ \A k \in 1 .. Len(pending[r]) : ~Matches(pending[r][k], c),
         UNCHANGED <<chan, pending, alive, sent, log, got>>
  PROVE  IInv'
<1>1. \A q \in Ranks : call'[q] = IF q = r THEN c ELSE call[q]
  BY DEF IInv, TypeOK
<1>2. TypeOK'
  BY <1>1 DEF IInv, TypeOK
<1>3. BlockedMeansAbsent'
  BY <1>1 DEF IInv, BlockedMeansAbsent
<1>4. ChanOrder' /\ PendingOrder' /\ PendingBeforeChan' /\ LogIds' /\ Accounted'
  BY DEF IInv, ChanOrder, PendingOrder, PendingBeforeChan, LogIds, Accounted, Undelivered
<1> QED BY <1>2, <1>3, <1>4 DEF IInv

LEMMA DropIInv ==
  ASSUME IInv, NEW r \in Ranks, DropEndpoint(r)
  PROVE  IInv'
<1>1. \A m \in Links : chan'[m] = IF m[2] = r THEN <<>> ELSE chan[m]
  BY DEF DropEndpoint, IInv, TypeOK
<1>2. \A q \in Ranks : pending'[q] = IF q = r THEN <<>> ELSE pending[q]
  BY DEF DropEndpoint, IInv, TypeOK
<1>3. \A q \in Ranks : alive'[q] = IF q = r THEN FALSE ELSE alive[q]
  BY DEF DropEndpoint, IInv, TypeOK
<1>4. call[r] = NoCall /\ UNCHANGED <<call, sent, log, got>>
  BY DEF DropEndpoint
<1>5. \A m \in Links : m[2] \in Ranks
  BY DEF Links
<1>6. TypeOK'
  <2>1. chan' \in [Links -> Seq(Frame)]
    BY DEF DropEndpoint, IInv, TypeOK
  <2>2. pending' \in [Ranks -> Seq(Frame)] /\ alive' \in [Ranks -> BOOLEAN]
    BY DEF DropEndpoint, IInv, TypeOK
  <2> QED BY <1>3, <1>4, <2>1, <2>2 DEF IInv, TypeOK
<1>a. Len(<<>>) = 0 /\ 1 .. 0 = {}
  OBVIOUS
<1>7. ChanOrder'
  BY <1>1, <1>a DEF IInv, ChanOrder
<1>9. PendingOrder' /\ BlockedMeansAbsent'
  BY <1>2, <1>4, <1>a DEF IInv, PendingOrder, BlockedMeansAbsent
<1>10. PendingBeforeChan'
  BY <1>1, <1>2, <1>5, <1>a DEF IInv, PendingBeforeChan
<1>11. LogIds'
  BY <1>4 DEF IInv, LogIds
<1>8. Accounted'
  <2>1. \A m \in Links : Undelivered(m)' = Box'[m] /\ Undelivered(m) = Box[m]
    BY DEF Box
  <2>2. \A m \in Links : Undelivered(m)' = IF m[2] = r THEN {} ELSE Undelivered(m)
    BY <2>1, DropBox
  <2> QED BY <1>3, <1>4, <1>5, <2>2 DEF IInv, Accounted
<1> QED BY <1>6, <1>7, <1>8, <1>9, <1>10, <1>11 DEF IInv

LEMMA NextIInv == IInv /\ [Next]_vars => IInv'
<1> SUFFICES ASSUME IInv, [Next]_vars PROVE IInv'
  OBVIOUS
<1>1. CASE UNCHANGED vars
  BY <1>1 DEF vars, IInv, TypeOK, ChanOrder, PendingOrder, PendingBeforeChan, LogIds, Accounted,
              BlockedMeansAbsent, Undelivered
<1>2. ASSUME NEW r \in Ranks, NEW source \in Peers(r), NEW stream \in Streams
      PROVE  [source |-> source, stream |-> stream] \in Requests
  BY DEF Requests, Peers
<1>3. ASSUME NEW r \in Ranks, Recv(r) PROVE IInv'
  <2>1. PICK source \in Peers(r), stream \in Streams :
          \/ RecvPending(r, [source |-> source, stream |-> stream])
          \/ RecvWait(r, [source |-> source, stream |-> stream])
    BY <1>3 DEF Recv
  <2> DEFINE c == [source |-> source, stream |-> stream]
  <2>2. c \in Requests /\ c.source # r
    BY <1>2 DEF Peers
  <2> HIDE DEF c
  <2>3. CASE RecvPending(r, c)
    BY <2>2, <2>3, RecvPendingIInv
  <2>4. CASE RecvWait(r, c)
    BY <2>2, <2>4, CallIInv DEF RecvWait
  <2> QED BY <2>1, <2>3, <2>4 DEF c
<1>4. ASSUME NEW r \in Ranks, RecvTimeout(r) \/ RecvDisconnected(r) PROVE IInv'
  BY <1>4, CallIInv DEF RecvTimeout, RecvDisconnected
<1> QED
  BY <1>1, <1>3, <1>4, SendIInv, RecvMatchIInv, RecvRetainIInv, DropIInv DEF Next, Work, RecvLoop

LEMMA AlwaysIInv == Spec => []IInv
BY InitIInv, NextIInv, PTL DEF Spec

(* Types, and in particular: an endpoint is never dropped under a receive. *)
THEOREM TransportTypeCorrect == Spec => []TypeOK
BY AlwaysIInv, PTL DEF IInv

(* A blocked receive never has its frame among the retained ones. *)
THEOREM NeverBlockedOnRetained == Spec => []BlockedMeansAbsent
BY AlwaysIInv, PTL DEF IInv

-----------------------------------------------------------------------------
(* Which frames a step returns: none, or the oldest of a stream. *)
LEMMA StepImplements ==
  IInv /\ [Next]_vars => [Promise!Next]_(Promise!vars)
<1> SUFFICES ASSUME IInv, [Next]_vars PROVE [Promise!Next]_(Promise!vars)
  OBVIOUS
<1> DEFINE sev == [l \in Links |-> ~alive[l[2]]]
<1>0. Promise!Links = Links
  BY DEF Promise!Links, Links, Promise!Ranks, Ranks
<1>1. \A l \in Links : Box[l] \subseteq Frame
  BY DEF Box, IInv, TypeOK, Accounted
<1>2. ASSUME NEW r \in Ranks, NEW d \in Peers(r), NEW stream \in Streams, Send(r, d, stream)
      PROVE  \E l \in Links, f \in Frame : Promise!Send(l, f)
  <2> DEFINE l == <<r, d>>
  <2>1. PICK f \in Frame :
          /\ f = [source |-> r, stream |-> stream, id |-> sent[l] + 1]
          /\ Box' = [Box EXCEPT ![l] = @ \union {f}]
    BY <1>2, SendBox
  <2>2. l \in Links
    BY DEF Links, Peers
  <2>3. \A g \in log[l] : g.id < f.id
    <3> TAKE g \in log[l]
    <3>1. g \in Frame /\ g.id <= sent[l] /\ sent[l] \in Nat
      BY <2>2, MaxFramesAssumption DEF IInv, TypeOK, LogIds
    <3> QED BY <2>1, <3>1, FrameFields
  <2>4. log' = [log EXCEPT ![l] = @ \union {f}] /\ got' = got /\ sev' = sev
    BY <1>2, <2>1 DEF Send
  <2> QED BY <2>1, <2>2, <2>3, <2>4 DEF Promise!Send, Box
<1>3. ASSUME NEW l \in Links, NEW f \in Undelivered(l),
             \A g \in Undelivered(l) : g.stream = f.stream => f.id <= g.id,
             Box' = [Box EXCEPT ![l] = @ \ {f}], got' = [got EXCEPT ![l] = @ \union {f}],
             log' = log, alive' = alive
      PROVE  Promise!Next
  <2>1. {} \in SUBSET Box[l] /\ {} \union {f} = {f}
    OBVIOUS
  <2>2. \E lost \in SUBSET Box[l] :
          (lost # {} => f \in {}) /\ Box' = [Box EXCEPT ![l] = @ \ (lost \union {f})]
    BY <1>3, <2>1
  <2>3. Promise!Deliver(l, f)
    BY <1>3, <2>2 DEF Promise!Deliver, Box
  <2> QED BY <1>0, <2>3 DEF Promise!Next
<1>4. ASSUME NEW r \in Ranks, NEW request \in Requests, RecvPending(r, request) PROVE Promise!Next
  <2>1. PICK k \in 1 .. Len(pending[r]) : TakePending(r, k, request) /\ Deliver(r, pending[r][k])
    BY <1>4 DEF RecvPending
  <2>2. chan' = chan /\ alive' = alive /\ log' = log
    BY <1>4 DEF RecvPending
  <2> DEFINE f == pending[r][k]
             l == <<f.source, r>>
  <2>3. /\ l \in Links /\ f \in Undelivered(l)
        /\ \A g \in Undelivered(l) : g.stream = f.stream => f.id <= g.id
        /\ Box' = [Box EXCEPT ![l] = @ \ {f}]
    BY <2>1, <2>2, TakeBox
  <2>4. got' = [got EXCEPT ![l] = @ \union {f}]
    BY <2>1 DEF Deliver
  <2> HIDE DEF f, l
  <2> QED BY <1>3, <2>2, <2>3, <2>4
<1>5. ASSUME NEW r \in Ranks, RecvMatch(r) PROVE Promise!Next
  <2>1. got' = [got EXCEPT ![<<call[r].source, r>>] = @ \union {Head(chan[<<call[r].source, r>>])}]
    BY <1>5 DEF RecvMatch, Deliver, Matches
  <2>2. alive' = alive /\ log' = log
    BY <1>5 DEF RecvMatch
  <2> QED BY <1>3, <1>5, <2>1, <2>2, MatchBox
<1>6. ASSUME Box' = Box, log' = log, got' = got, alive' = alive PROVE UNCHANGED Promise!vars
  BY <1>6 DEF Promise!vars, Box
<1>7. ASSUME NEW r \in Ranks, RecvRetain(r) PROVE UNCHANGED Promise!vars
  BY <1>6, <1>7, RetainBox DEF RecvRetain
<1>8. ASSUME UNCHANGED <<chan, pending, alive, log, got>> PROVE UNCHANGED Promise!vars
  BY <1>6, <1>8 DEF Box, Undelivered
<1>9. ASSUME NEW r \in Ranks, DropEndpoint(r) PROVE Promise!Next
  <2>1. Box' = [l \in Links |-> IF l[2] = r THEN {} ELSE Box[l]]
    BY <1>9, DropBox
  <2>2. \A q \in Ranks : alive'[q] = IF q = r THEN FALSE ELSE alive[q]
    BY <1>9 DEF DropEndpoint, IInv, TypeOK
  <2>3. \A l \in Links : sev'[l] = ~alive'[l[2]] /\ sev[l] = ~alive[l[2]] /\ l[2] \in Ranks
    BY DEF Links
  <2>4. Box' \in [Links -> SUBSET Frame] /\ \A l \in Links : Box'[l] \subseteq Box[l]
    BY <1>1, <2>1
  <2>5. \A l \in Links : Box'[l] # Box[l] => sev'[l]
    BY <2>1, <2>2, <2>3
  <2>6. \A l \in Links : sev[l] => sev'[l]
    BY <2>2, <2>3
  <2>7. sev' \in [Links -> BOOLEAN]
    OBVIOUS
  <2>8. log' = log /\ got' = got
    BY <1>9 DEF DropEndpoint
  <2> HIDE DEF sev
  <2>9. Promise!Fail
    BY <1>0, <2>4, <2>5, <2>6, <2>7, <2>8 DEF Promise!Fail, Box, sev
  <2> QED BY <2>9 DEF Promise!Next
<1>10. CASE UNCHANGED vars
  BY <1>8, <1>10 DEF vars
<1>11. CASE Next
  <2>1. PICK r \in Ranks :
          \/ \E d \in Peers(r), stream \in Streams : Send(r, d, stream)
          \/ Recv(r)
          \/ RecvLoop(r)
          \/ DropEndpoint(r)
    BY <1>11 DEF Next, Work
  <2>2. CASE \E d \in Peers(r), stream \in Streams : Send(r, d, stream)
    BY <1>0, <1>2, <2>2 DEF Promise!Next
  <2>3. CASE Recv(r)
    <3>1. PICK source \in Peers(r), stream \in Streams :
            \/ RecvPending(r, [source |-> source, stream |-> stream])
            \/ RecvWait(r, [source |-> source, stream |-> stream])
      BY <2>3 DEF Recv
    <3>2. [source |-> source, stream |-> stream] \in Requests
      BY DEF Requests, Peers
    <3> QED BY <1>4, <1>8, <3>1, <3>2 DEF RecvWait
  <2>4. CASE RecvLoop(r)
    BY <1>5, <1>7, <1>8, <2>4 DEF RecvLoop, RecvTimeout, RecvDisconnected
  <2> QED BY <1>9, <2>1, <2>2, <2>3, <2>4
<1> QED BY <1>10, <1>11

(* The in-memory transport implements the abstract point-to-point one. *)
THEOREM InMemoryImplementsPointToPoint == Spec => ImplementsPointToPoint
<1>1. Init => Promise!Init
  <2> SUFFICES ASSUME Init PROVE Promise!Init
    OBVIOUS
  <2>1. Promise!Links = Links
    BY DEF Promise!Links, Links, Promise!Ranks, Ranks
  <2>2. \A l \in Links : Undelivered(l) = {} /\ alive[l[2]] = TRUE
    BY DEF Init, Undelivered, ToSet, Links
  <2> QED BY <2>1, <2>2 DEF Init, Promise!Init
<1> QED
  BY <1>1, AlwaysIInv, StepImplements, PTL DEF Spec, ImplementsPointToPoint, Promise!Spec

-----------------------------------------------------------------------------
LEMMA GaplessStep == IInv /\ GaplessFifo /\ [Next]_vars => GaplessFifo'
<1> SUFFICES ASSUME IInv, GaplessFifo, [Next]_vars PROVE GaplessFifo'
  OBVIOUS
<1>1. ASSUME log' = log, got' = got PROVE GaplessFifo'
  BY <1>1 DEF GaplessFifo
<1>2. ASSUME NEW l \in Links, NEW f \in Undelivered(l), alive[l[2]],
             \A g \in Undelivered(l) : g.stream = f.stream => f.id <= g.id,
             got' = [got EXCEPT ![l] = @ \union {f}], log' = log
      PROVE  GaplessFifo'
  <2> SUFFICES ASSUME NEW m \in Links, NEW h \in got'[m], NEW g \in log[m],
                      g.stream = h.stream, g.id < h.id
               PROVE  g \in got'[m]
    BY <1>2 DEF GaplessFifo
  <2>1. \A n \in Links : got'[n] = IF n = l THEN got[n] \union {f} ELSE got[n]
    BY <1>2 DEF IInv, TypeOK
  <2>2. CASE h \in got[m]
    BY <2>1, <2>2 DEF GaplessFifo
  <2>3. CASE m = l /\ h = f
    <3>1. g \in Undelivered(l) \union got[l]
      BY <1>2, <2>3 DEF IInv, Accounted
    <3>2. f \in Frame /\ g \in Frame
      BY <1>2, <2>3 DEF IInv, TypeOK, Accounted
    <3>3. g \notin Undelivered(l)
      BY <1>2, <2>3, <3>2, FrameFields
    <3> QED BY <2>1, <2>3, <3>1, <3>3
  <2> QED BY <2>1, <2>2, <2>3
<1>3. ASSUME NEW r \in Ranks, NEW d \in Peers(r), NEW stream \in Streams, Send(r, d, stream)
      PROVE  GaplessFifo'
  <2> DEFINE l == <<r, d>>
  <2>1. PICK f \in Frame : f = [source |-> r, stream |-> stream, id |-> sent[l] + 1]
    BY <1>3, SendBox
  <2>2. l \in Links
    BY DEF Links, Peers
  <2>3. got' = got /\ \A n \in Links : log'[n] = IF n = l THEN log[n] \union {f} ELSE log[n]
    BY <1>3, <2>1 DEF Send, IInv, TypeOK
  <2> HIDE DEF l
  <2> SUFFICES ASSUME NEW m \in Links, NEW h \in got[m], NEW g \in log'[m],
                      g.stream = h.stream, g.id < h.id
               PROVE  g \in got[m]
    BY <2>3 DEF GaplessFifo
  <2>4. h \in Frame /\ h.id <= sent[m] /\ sent[m] \in Nat
    BY MaxFramesAssumption DEF IInv, TypeOK, Accounted, LogIds
  <2>5. g \in log[m]
    <3>1. CASE m = l /\ g = f
      BY <2>1, <2>4, <3>1, FrameFields
    <3> QED BY <2>3, <3>1
  <2> QED BY <2>5 DEF GaplessFifo
<1>4. ASSUME NEW r \in Ranks, NEW request \in Requests, RecvPending(r, request) PROVE GaplessFifo'
  <2>1. PICK k \in 1 .. Len(pending[r]) : TakePending(r, k, request) /\ Deliver(r, pending[r][k])
    BY <1>4 DEF RecvPending
  <2> DEFINE f == pending[r][k]
             l == <<f.source, r>>
  <2>2. chan' = chan /\ log' = log /\ alive[r]
    BY <1>4 DEF RecvPending
  <2>3. /\ l \in Links /\ f \in Undelivered(l) /\ l[2] = r
        /\ \A g \in Undelivered(l) : g.stream = f.stream => f.id <= g.id
    BY <2>1, <2>2, TakeBox
  <2>4. got' = [got EXCEPT ![l] = @ \union {f}]
    BY <2>1 DEF Deliver
  <2> HIDE DEF f, l
  <2> QED BY <1>2, <2>2, <2>3, <2>4
<1>5. ASSUME NEW r \in Ranks, RecvMatch(r) PROVE GaplessFifo'
  <2> DEFINE l == <<call[r].source, r>>
             f == Head(chan[l])
  <2>1. got' = [got EXCEPT ![l] = @ \union {f}] /\ log' = log
    BY <1>5 DEF RecvMatch, Deliver, Matches
  <2>2. /\ l \in Links /\ f \in Undelivered(l) /\ l[2] = r
        /\ \A g \in Undelivered(l) : g.stream = f.stream => f.id <= g.id
    BY <1>5, MatchBox
  <2>3. alive[r]
    BY <1>5, CallLink DEF IInv, RecvMatch
  <2> HIDE DEF f, l
  <2> QED BY <1>2, <2>1, <2>2, <2>3
<1>6. CASE UNCHANGED vars
  BY <1>1, <1>6 DEF vars
<1>7. CASE Next
  <2>1. PICK r \in Ranks :
          \/ \E d \in Peers(r), stream \in Streams : Send(r, d, stream)
          \/ Recv(r)
          \/ RecvLoop(r)
          \/ DropEndpoint(r)
    BY <1>7 DEF Next, Work
  <2>2. CASE Recv(r)
    <3>1. PICK source \in Peers(r), stream \in Streams :
            \/ RecvPending(r, [source |-> source, stream |-> stream])
            \/ RecvWait(r, [source |-> source, stream |-> stream])
      BY <2>2 DEF Recv
    <3>2. [source |-> source, stream |-> stream] \in Requests
      BY DEF Requests, Peers
    <3> QED BY <1>1, <1>4, <3>1, <3>2 DEF RecvWait
  <2>3. CASE RecvLoop(r) \/ DropEndpoint(r)
    BY <1>1, <1>5, <2>3 DEF RecvLoop, RecvRetain, RecvTimeout, RecvDisconnected, DropEndpoint
  <2> QED BY <1>3, <2>1, <2>2, <2>3
<1> QED BY <1>6, <1>7

(* Receives of one kind and tag return the frames of a link in the order   *)
(* they were sent and without gaps.                                        *)
THEOREM DeliveryIsGapless == Spec => []GaplessFifo
<1>1. Init => GaplessFifo
  BY DEF Init, GaplessFifo
<1> QED
  BY <1>1, AlwaysIInv, GaplessStep, PTL DEF Spec

(* A receive that fails as disconnected had nothing left to return. *)
THEOREM DisconnectLosesNothing == Spec => DisconnectIsFinal
<1> DEFINE Step == \A r \in Ranks : RecvDisconnected(r) =>
       \A f \in log[<<call[r].source, r>>] :
         f.stream = call[r].stream => f \in got[<<call[r].source, r>>]
<1>1. ASSUME IInv PROVE Step
  <2> SUFFICES ASSUME NEW r \in Ranks, RecvDisconnected(r),
                      NEW f \in log[<<call[r].source, r>>], f.stream = call[r].stream
               PROVE  f \in got[<<call[r].source, r>>]
    OBVIOUS
  <2> DEFINE l == <<call[r].source, r>>
  <2>1. l \in Links /\ l[1] = call[r].source /\ l[2] = r /\ alive[r]
    BY <1>1, CallLink DEF IInv, RecvDisconnected
  <2>2. f \in Undelivered(l) \union got[l]
    BY <1>1, <2>1 DEF IInv, Accounted
  <2>3. chan[l] = <<>> /\ call[r] # NoCall
    BY DEF RecvDisconnected
  <2>4. \A k \in 1 .. Len(pending[r]) : ~Matches(pending[r][k], call[r])
    BY <1>1, <2>3 DEF IInv, BlockedMeansAbsent
  <2>5. DOMAIN pending[r] = 1 .. Len(pending[r])
    BY <1>1 DEF IInv, TypeOK
  <2>6. f \notin Undelivered(l)
    BY <2>1, <2>3, <2>4, <2>5 DEF Undelivered, ToSet, Matches
  <2> QED BY <2>2, <2>6
<1>2. ASSUME IInv PROVE [Step]_vars
  BY <1>1, <1>2
<1> QED
  BY <1>2, AlwaysIInv, PTL DEF DisconnectIsFinal

-----------------------------------------------------------------------------
(* A world whose workers use the channels and the barrier of their         *)
(* endpoints (create_in_memory_world), one blocking call at a time, is     *)
(* correct in both: every step of a worker is one of the transport that    *)
(* the barrier does not notice, or the reverse.  So nothing proved above   *)
(* is lost when barriers and messages are mixed.                           *)
THEOREM WorldImplementsBoth ==
  WorldSpec => ImplementsBarrier /\ ImplementsPointToPoint
<1>1. WorldInit => Init /\ BarrierInit
  BY DEF WorldInit
<1>2. [WorldNext]_worldVars => [Next]_vars
  BY DEF WorldNext, Meet, ReturnFromBarrier, Communicate, Next, worldVars
<1>3. [WorldNext]_worldVars => [BarrierNext]_barrierVars
  BY DEF WorldNext, Meet, ReturnFromBarrier, Communicate, BarrierNext, worldVars
<1>4. WorldSpec => Spec /\ BarrierSpec
  BY <1>1, <1>2, <1>3, PTL DEF WorldSpec, Spec, BarrierSpec
<1> QED BY <1>4, InMemoryImplementsBarrier, InMemoryImplementsPointToPoint
=============================================================================
