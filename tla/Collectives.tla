---------------------------- MODULE Collectives ----------------------------
(***************************************************************************)
(* Native collectives (crates/collectives/src/collective.rs): group        *)
(* operations made of point-to-point sends and receives.  Every rank calls *)
(* the same operations in the same order; a call is a script of sends,     *)
(* receives and exchanges (a send and a receive at once).                  *)
(*                                                                         *)
(* A tensor is cut into chunks, one for each rank, and the value of a      *)
(* chunk is the bag of the contributions <<call, rank, chunk>> summed in   *)
(* it.  A frame is anonymous: its receiver decides where its chunks go.    *)
(* A link holds room frames that nobody reads; a send returns when its     *)
(* frame is among them or has been read.  room = 0 is a payload larger     *)
(* than the socket buffers, a large room the in-memory channel.            *)
(*                                                                         *)
(* The callers in this repository return on the first error.  The model    *)
(* also lets a rank go on with its next call after one that failed.        *)
(***************************************************************************)
EXTENDS Ranks, Sequences, Bags

CONSTANTS
  Programs,      \* sequences of calls [kind, root] that the ranks make
  Rooms,         \* how many unread frames a link may hold
  Flaws,         \* what can be wrong with one rank's arguments of call 1
  LastSequence   \* the greatest sequence whose tags are below the limit

(* The operations; all-reduce has two algorithms. *)
Kinds == {"Broadcast", "Reduce", "AllGather", "AllReduceCentralized", "AllReduceRing",
          "ReduceScatter", "AllToAll"}

ASSUME CollectivesAssumption ==
  /\ WorldSize \in 2 .. 257  \* create_in_memory_world; the step of a tag
  /\ Programs \subseteq Seq([kind : Kinds, root : Ranks]) \ {<<>>}
  /\ Rooms \subseteq Nat
  /\ LastSequence \in Nat

Links == {l \in Ranks \X Ranks : l[1] # l[2]}

VARIABLES
  program,   \* the calls
  room,      \* what a link holds
  flaw,      \* [rank, what]: the rank whose call 1 has a bad argument
  next,      \* next[r]: next_sequence
  pos,       \* pos[r]: the step of the script of the call; 0 between calls
  put,       \* put[r]: the frame of the step has been given to the link
  incoming,  \* incoming[r]: the frame the step has received, if any
  work,      \* work[r]: the chunks of the call, by key
  results,   \* results[r]: what the calls have returned so far
  ended,     \* ended[r]: the worker has returned
  unread,    \* unread[l]: frames on the link, oldest first
  pending,   \* pending[l]: frames read while another tag was asked for
  outcome    \* what run_in_memory returns, <<>> before it does

setup == <<program, room, flaw>>
vars == <<setup, next, pos, put, incoming, work, results, ended, unread, pending, outcome>>

-----------------------------------------------------------------------------
(* Scripts. *)

(* All chunks, in order, and the i-th peer of r in rank order. *)
Whole == [i \in 1 .. WorldSize |-> i - 1]
PeerAt(r, i) == IF i <= r THEN i - 1 ELSE i
Each(Step(_)) == [i \in 1 .. WorldSize - 1 |-> Step(i)]

(* A step sends the chunks out to a rank, receives chunks for the keys     *)
(* into from a rank, or both; to and from are sets of at most one rank.    *)
(* how is what it does with the incoming chunks, check the shape it        *)
(* requires of them.                                                       *)
SendStep(to, phase, out) ==
  [to |-> {to}, from |-> {}, tag |-> <<phase, 0>>, out |-> out,
   into |-> <<>>, how |-> "store", check |-> "none"]
RecvStep(from, phase, into, how, check) ==
  [to |-> {}, from |-> {from}, tag |-> <<phase, 0>>, out |-> <<>>,
   into |-> into, how |-> how, check |-> check]
ExchangeStep(to, from, phase, step, out, into, how, check) ==
  [to |-> {to}, from |-> {from}, tag |-> <<phase, step>>, out |-> out,
   into |-> into, how |-> how, check |-> check]

Broadcast(root, r) ==
  IF r = root
    THEN LET Step(i) == SendStep(PeerAt(root, i), 0, Whole) IN Each(Step)
    ELSE <<RecvStep(root, 0, Whole, "store", "none")>>

Reduce(root, r) ==
  IF r = root
    THEN LET Step(i) == RecvStep(PeerAt(root, i), 0, Whole, "add", "same") IN Each(Step)
    ELSE <<SendStep(root, 0, Whole)>>

(* Rank 0 sums, in rank order, and sends the sum to everyone. *)
CentralizedAllReduce(r) ==
  IF r = 0
    THEN LET Take(i) == RecvStep(i, 1, Whole, "add", "same")
             Give(i) == SendStep(i, 2, Whole)
         IN Each(Take) \o Each(Give)
    ELSE <<SendStep(0, 1, Whole), RecvStep(0, 2, Whole, "store", "same")>>

(* The shard of a rank is its chunk 0; rank 0 pushes them in rank order. *)
AllGather(r) ==
  IF r = 0
    THEN LET Take(i) == RecvStep(i, 1, <<i>>, "store", "gather")
             Give(i) == SendStep(i, 2, Whole)
         IN Each(Take) \o Each(Give)
    ELSE <<SendStep(0, 1, <<0>>), RecvStep(0, 2, Whole, "store", "none")>>

ReduceScatter(r) ==
  IF r = 0
    THEN LET Take(i) == RecvStep(i, 1, Whole, "add", "same")
             Give(i) == SendStep(i, 2, <<i>>)
         IN Each(Take) \o Each(Give)
    ELSE <<SendStep(0, 1, Whole), RecvStep(0, 2, <<0>>, "store", "none")>>

Mod(i) == i % WorldSize
NextOf(r) == Mod(r + 1)
PreviousOf(r) == Mod(r + WorldSize - 1)

RingAllReduce(r) ==
  LET Sum(i) == LET step == i - 1 IN
        ExchangeStep(NextOf(r), PreviousOf(r), 1, step, <<Mod(r + WorldSize - step)>>,
                     <<Mod(r + WorldSize - step - 1)>>, "add", "same")
      Copy(i) == LET step == i - 1 IN
        ExchangeStep(NextOf(r), PreviousOf(r), 2, step, <<Mod(r + 1 + WorldSize - step)>>,
                     <<Mod(r + WorldSize - step)>>, "store", "same")
  IN Each(Sum) \o Each(Copy)

(* received_shards has the keys WorldSize + source. *)
AllToAll(r) ==
  LET Swap(i) ==
        LET to == Mod(r + i)
            from == Mod(r + WorldSize - i)
        IN ExchangeStep(to, from, 0, i - 1, <<to>>, <<WorldSize + from>>, "store", "gather")
  IN Each(Swap)

Script(k, r) ==
  CASE k.kind = "Broadcast" -> Broadcast(k.root, r)
    [] k.kind = "Reduce" -> Reduce(k.root, r)
    [] k.kind = "AllGather" -> AllGather(r)
    [] k.kind = "AllReduceCentralized" -> CentralizedAllReduce(r)
    [] k.kind = "AllReduceRing" -> RingAllReduce(r)
    [] k.kind = "ReduceScatter" -> ReduceScatter(r)
    [] k.kind = "AllToAll" -> AllToAll(r)

(* The scripts of all calls, for all ranks. *)
Calls == UNION {{p[i] : i \in DOMAIN p} : p \in Programs}
Scripts == [k \in Calls |-> [r \in Ranks |-> Script(k, r)]]

(* Both all-reduce algorithms share a kind in the tag. *)
TagKind(kind) == IF kind \in {"AllReduceCentralized", "AllReduceRing"} THEN "AllReduce" ELSE kind

(* The keys whose chunks are the result. *)
ResultKeys(k, r) ==
  CASE k.kind = "Reduce" /\ r # k.root -> <<>>
    [] k.kind = "ReduceScatter" -> <<0>>
    [] k.kind = "AllToAll" -> [i \in 1 .. WorldSize |-> WorldSize + i - 1]
    [] OTHER -> Whole

(* The contributions of r to call c before anything is received. *)
Keys == 0 .. 2 * WorldSize - 1
Contribution(k, c, r) ==
  [x \in Keys |->
     CASE x \in Ranks -> SetToBag({<<c, r, x>>})
       [] k.kind = "AllToAll" /\ x = WorldSize + r -> SetToBag({<<c, r, r>>})
       [] OTHER -> EmptyBag]

-----------------------------------------------------------------------------
(* Arguments.  A wide tensor differs off the axis, a long one along it,    *)
(* where it does not divide by the world size.                             *)

CallOf(r) == Len(results[r]) + 1
Flawed(r) == CallOf(r) = 1 /\ flaw.rank = r
Shape(r) == IF Flawed(r) /\ flaw.what \in {"wide", "long"} THEN flaw.what ELSE "plain"

BadRoot(k, r) == Flawed(r) /\ flaw.what = "root" /\ k.kind \in {"Broadcast", "Reduce"}
BadAxis(k, r) ==
  Flawed(r) /\ flaw.what = "axis" /\ k.kind \in {"AllGather", "ReduceScatter", "AllToAll"}
BadSplit(k, r) ==
  Shape(r) = "long" /\ k.kind \in {"AllReduceRing", "ReduceScatter", "AllToAll"}

(* A tensor of another type or on another device than begin accepts. *)
BadType(r) == Flawed(r) /\ flaw.what = "type"

(* require_same_shape and require_gather_shape: whether step accepts a     *)
(* frame.  The same shape has as many chunks, too: the two all-reduce      *)
(* algorithms share tags.                                                  *)
ShapeAccepted(step, mine, frame) ==
  CASE step.check = "none" -> TRUE
    [] step.check = "same" -> mine = frame.shape /\ Len(frame.body) = Len(step.into)
    [] step.check = "gather" -> (mine = "wide") = (frame.shape = "wide")

(* Flaws that matter to the call. *)
Matters(k, what) ==
  CASE what = "root" -> k.kind \in {"Broadcast", "Reduce"}
    [] what = "axis" -> k.kind \in {"AllGather", "ReduceScatter", "AllToAll"}
    [] OTHER -> TRUE

Init ==
  /\ program \in Programs
  /\ room \in Rooms
  /\ flaw \in {[rank |-> 0, what |-> "none"]}
       \union {f \in [rank : Ranks, what : Flaws] : Matters(program[1], f.what)}
  /\ next = [r \in Ranks |-> 0]
  /\ pos = [r \in Ranks |-> 0]
  /\ put = [r \in Ranks |-> FALSE]
  /\ incoming = [r \in Ranks |-> {}]
  /\ work = [r \in Ranks |-> <<>>]
  /\ results = [r \in Ranks |-> <<>>]
  /\ ended = [r \in Ranks |-> FALSE]
  /\ unread = [l \in Links |-> <<>>]
  /\ pending = [l \in Links |-> {}]
  /\ outcome = <<>>

-----------------------------------------------------------------------------
(* Calls. *)

Call(r) == program[CallOf(r)]
Step(r) == Scripts[Call(r)][r][pos[r]]

(* Seeded fault: the tag leaves out the sequence. *)
TagWithoutSequence(r) == <<TagKind(Call(r).kind), Step(r).tag>>

(* collective_tag: the sequence, the kind, the phase and the step. *)
Tag(r) == <<next[r] - 1, TagKind(Call(r).kind), Step(r).tag>>

(* The call returns, with a value or an error. *)
Return(r, ok, value) ==
  /\ results' = [results EXCEPT ![r] = Append(@, [ok |-> ok, value |-> value])]
  /\ pos' = [pos EXCEPT ![r] = 0]
  /\ put' = [put EXCEPT ![r] = FALSE]
  /\ incoming' = [incoming EXCEPT ![r] = {}]
  /\ work' = [work EXCEPT ![r] = <<>>]

(* begin, and the divisibility checks of the operations.  A tensor that    *)
(* ensure_f32_cpu refuses takes no sequence number; every other call takes *)
(* one, before the rest of its arguments are looked at.                    *)
Begin(r) ==
  /\ ~ended[r] /\ pos[r] = 0 /\ CallOf(r) <= Len(program)
  /\ next' = [next EXCEPT ![r] = IF BadType(r) THEN @ ELSE @ + 1]
  /\ IF \/ BadType(r) \/ next[r] > LastSequence
        \/ BadRoot(Call(r), r) \/ BadAxis(Call(r), r) \/ BadSplit(Call(r), r)
       THEN Return(r, FALSE, <<>>)
       ELSE /\ pos' = [pos EXCEPT ![r] = 1]
            /\ work' = [work EXCEPT ![r] = Contribution(Call(r), CallOf(r), r)]
            /\ UNCHANGED <<put, incoming, results>>
  /\ UNCHANGED <<setup, ended, unread, pending, outcome>>

Frame(r) ==
  [tag |-> Tag(r), shape |-> Shape(r),
   body |-> [i \in DOMAIN Step(r).out |-> work[r][Step(r).out[i]]]]

(* send, or the sending thread of exchange, hands its frame to the link. *)
Send(r) ==
  /\ pos[r] > 0 /\ ~put[r]
  /\ \E d \in Step(r).to :
       unread' = [unread EXCEPT ![<<r, d>>] = Append(@, Frame(r))]
  /\ put' = [put EXCEPT ![r] = TRUE]
  /\ UNCHANGED <<setup, next, pos, incoming, work, results, ended, pending, outcome>>

SendReturned(r) ==
  \A d \in Step(r).to : put[r] /\ Len(unread[<<r, d>>]) <= room

(* Seeded fault: exchange sends first and then receives. *)
ReceivingAfterSend(r) ==
  pos[r] > 0 /\ Step(r).from # {} /\ incoming[r] = {} /\ SendReturned(r)

(* recv, and the receive of exchange, which runs beside its send. *)
Receiving(r) == pos[r] > 0 /\ Step(r).from # {} /\ incoming[r] = {}

TakePending(r) ==
  /\ Receiving(r)
  /\ \E s \in Step(r).from : \E f \in pending[<<s, r>>] :
       /\ f.tag = Tag(r)
       /\ pending' = [pending EXCEPT ![<<s, r>>] = @ \ {f}]
       /\ incoming' = [incoming EXCEPT ![r] = {f}]
  /\ UNCHANGED <<setup, next, pos, put, work, results, ended, unread, outcome>>

(* The oldest frame of the link is returned, or put aside if it has        *)
(* another tag.                                                            *)
Read(r) ==
  /\ Receiving(r)
  /\ \E s \in Step(r).from :
       /\ unread[<<s, r>>] # <<>>
       /\ \A f \in pending[<<s, r>>] : f.tag # Tag(r)
       /\ unread' = [unread EXCEPT ![<<s, r>>] = Tail(@)]
       /\ LET f == Head(unread[<<s, r>>])
          IN IF f.tag = Tag(r)
               THEN incoming' = [incoming EXCEPT ![r] = {f}] /\ UNCHANGED pending
               ELSE pending' = [pending EXCEPT ![<<s, r>>] = @ \union {f}] /\ UNCHANGED incoming
  /\ UNCHANGED <<setup, next, pos, put, work, results, ended, outcome>>

(* What the incoming chunks make of the chunks of r. *)
Reduced(r, body) ==
  LET step == Step(r)
      at(x) == CHOOSE i \in DOMAIN step.into : step.into[i] = x
  IN [x \in Keys |->
        IF \A i \in DOMAIN step.into : step.into[i] # x THEN work[r][x]
        ELSE IF step.how = "add" THEN work[r][x] (+) body[at(x)]
        ELSE body[at(x)]]

ResultOf(k, r, chunks) ==
  [i \in DOMAIN ResultKeys(k, r) |-> chunks[ResultKeys(k, r)[i]]]

(* The step is over: its send has returned and its frame is there.  The    *)
(* shape is checked, the chunks are reduced, and after the last step the   *)
(* call returns its result (finish).                                       *)
Advance(r) ==
  /\ pos[r] > 0
  /\ SendReturned(r)
  /\ Step(r).from # {} => incoming[r] # {}
  /\ LET bad == \E f \in incoming[r] : ~ShapeAccepted(Step(r), Shape(r), f)
         chunks == IF incoming[r] = {} THEN work[r]
                   ELSE Reduced(r, (CHOOSE f \in incoming[r] : TRUE).body)
     IN IF bad THEN Return(r, FALSE, <<>>)
        ELSE IF pos[r] = Len(Scripts[Call(r)][r])
               THEN Return(r, TRUE, ResultOf(Call(r), r, chunks))
        ELSE /\ pos' = [pos EXCEPT ![r] = @ + 1]
             /\ put' = [put EXCEPT ![r] = FALSE]
             /\ incoming' = [incoming EXCEPT ![r] = {}]
             /\ work' = [work EXCEPT ![r] = chunks]
             /\ UNCHANGED results
  /\ UNCHANGED <<setup, next, ended, unread, pending, outcome>>

(* Seeded fault: a receive has no deadline and notices only a lost peer. *)
TimeOutIfGone(r) ==
  /\ Receiving(r) /\ SendReturned(r)
  /\ \A s \in Step(r).from : ended[s]
  /\ Return(r, FALSE, <<>>)
  /\ UNCHANGED <<setup, next, ended, unread, pending, outcome>>

(* A receive gives up; an exchange returns the error once its send is over.*)
TimeOut(r) ==
  /\ Receiving(r) /\ SendReturned(r)
  /\ Return(r, FALSE, <<>>)
  /\ UNCHANGED <<setup, next, ended, unread, pending, outcome>>

(* A send gives up on a link that nobody reads: the rest of its frame never*)
(* arrives, and the worker returns the error.  It does not go on: its next *)
(* frame would complete the part it left (TcpTransport, SendTorn).         *)
SendFails(r) ==
  /\ pos[r] > 0 /\ put[r] /\ ~SendReturned(r)
  /\ \E d \in Step(r).to :
       unread' = [unread EXCEPT ![<<r, d>>] = SubSeq(@, 1, Len(@) - 1)]
  /\ Return(r, FALSE, <<>>)
  /\ ended' = [ended EXCEPT ![r] = TRUE]
  /\ UNCHANGED <<setup, next, pending, outcome>>

Failed(r, c) == c \in DOMAIN results[r] /\ ~results[r][c].ok

(* The worker returns after its last call, or with the error of a call. *)
End(r) ==
  /\ ~ended[r] /\ pos[r] = 0
  /\ CallOf(r) > Len(program) \/ Failed(r, Len(results[r]))
  /\ ended' = [ended EXCEPT ![r] = TRUE]
  /\ UNCHANGED <<setup, next, pos, put, incoming, work, results, unread, pending, outcome>>

Succeeded(r) == \A c \in DOMAIN program : c \in DOMAIN results[r] /\ results[r][c].ok

(* run_in_memory joins all workers; its error is that of the lowest rank. *)
Join ==
  /\ outcome = <<>> /\ \A r \in Ranks : ended[r]
  /\ outcome' = LET failed == {r \in Ranks : ~Succeeded(r)}
                IN IF failed = {} THEN <<"Ok">>
                   ELSE <<"WorkerFailed", CHOOSE r \in failed : \A q \in failed : r <= q>>
  /\ UNCHANGED <<setup, next, pos, put, incoming, work, results, ended, unread, pending>>

Progress(r) == Begin(r) \/ Send(r) \/ TakePending(r) \/ Read(r) \/ Advance(r) \/ End(r)
AnyProgress == \E r \in Ranks : Progress(r)

Next == AnyProgress \/ Join \/ \E r \in Ranks : TimeOut(r) \/ SendFails(r)

(* r is in a step that cannot end yet, unless it gives up: its frame is   *)
(* with the link, and nobody reads it or nothing has come.                 *)
NothingCame(r) ==
  \A s \in Step(r).from : unread[<<s, r>>] = <<>> /\ \A f \in pending[<<s, r>>] : f.tag # Tag(r)
Blocked(r) ==
  /\ pos[r] > 0
  /\ Step(r).to # {} => put[r]
  /\ \/ Receiving(r) /\ NothingCame(r)
     \/ ~Receiving(r) /\ ~SendReturned(r)

(* A worker that can go on does, a blocked call gives up at its deadline,  *)
(* and the runner joins.  A worker that something else held up would never *)
(* end.                                                                    *)
Fairness ==
  /\ WF_vars(Join)
  /\ \A r \in Ranks : /\ WF_vars(Progress(r))
                      /\ WF_vars(Blocked(r) /\ (TimeOut(r) \/ SendFails(r)))

Spec == Init /\ [][Next]_vars /\ Fairness

-----------------------------------------------------------------------------
(* Properties. *)

(* What call c should return to r: every contribution of the call once.    *)
SumOf(c, chunk) == SetToBag({<<c, q, chunk>> : q \in Ranks})
Expected(k, c, r) ==
  CASE k.kind = "Broadcast" -> [i \in 1 .. WorldSize |-> SetToBag({<<c, k.root, i - 1>>})]
    [] k.kind = "Reduce" /\ r # k.root -> <<>>
    [] k.kind = "AllGather" -> [i \in 1 .. WorldSize |-> SetToBag({<<c, i - 1, 0>>})]
    [] k.kind = "ReduceScatter" -> <<SumOf(c, r)>>
    [] k.kind = "AllToAll" -> [i \in 1 .. WorldSize |-> SetToBag({<<c, i - 1, r>>})]
    [] OTHER -> [i \in 1 .. WorldSize |-> SumOf(c, i - 1)]

(* A call that succeeds returns what the operation promises, made of every *)
(* contribution to that very call once and of nothing else, whatever failed*)
(* before it: "stale traffic cannot satisfy a later call"                  *)
(* (docs/native-collectives.md).  It does not hold: after the refusal of a *)
(* tensor's type, which takes no sequence number, the next call of the rank*)
(* has the tags of the call it was refused (collective.rs, begin).         *)
StaleTrafficIgnored ==
  \A r \in Ranks : \A c \in DOMAIN results[r] :
    results[r][c].ok => results[r][c].value = Expected(program[c], c, r)

(* How many calls r has begun.  A rank is out of step when it has gone on  *)
(* after a refusal that took no sequence number.                           *)
Begun(r) == Len(results[r]) + (IF pos[r] > 0 THEN 1 ELSE 0)
InStep == \A r \in Ranks : next[r] \in {0, Begun(r)}

(* A call that succeeds returns what the operation promises, and nothing   *)
(* stale, whatever failed, was refused or timed out before it on this or on*)
(* another rank, as long as no rank has gone on after a tensor that was    *)
(* refused for its type.                                                   *)
ResultsCorrect == InStep => StaleTrafficIgnored

(* Ranks do not wait on each other, however little the links hold: unless  *)
(* a rank has failed the call the slowest rank is in, or a later one, some *)
(* rank can go on.  A call that failed, or was refused with its sequence   *)
(* number taken, leaves the ranks in step: once all have left it, the next *)
(* call can succeed on every rank.                                         *)
Slowest(c) == \E r \in Ranks : CallOf(r) = c /\ \A q \in Ranks : CallOf(q) >= c
NeverStuck ==
  \A c \in DOMAIN program :
    /\ InStep
    /\ Slowest(c)
    /\ \A r \in Ranks : ~ended[r] \/ CallOf(r) > Len(program)
    /\ \A r \in Ranks, d \in DOMAIN program : d >= c => ~Failed(r, d)
    => \E r \in Ranks : ~ended[r] /\ ~Blocked(r)

(* The runner returns whatever fails or blocks, and reports a failure that *)
(* some worker met.                                                        *)
RunnerReturns ==
  <>(outcome # <<>> /\ (Len(outcome) = 2 => \E c \in DOMAIN program : Failed(outcome[2], c)))
=============================================================================
