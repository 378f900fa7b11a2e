---------------------------- MODULE PointToPoint ----------------------------
(***************************************************************************)
(* What Transport and ControlTransport promise (crates/collectives/src/    *)
(* transport.rs): on each directed link, recv(source, tag) returns the     *)
(* next packet of that kind and tag, in the order they were sent.          *)
(*                                                                         *)
(* A frame has a stream (what a receive asks for: the payload kind and the *)
(* tag) and an id, its position in what its link carried.  The id stands   *)
(* for the identity of the payload; no implementation looks at it.         *)
(***************************************************************************)
EXTENDS Ranks

CONSTANTS
  Frame,   \* records with at least the fields stream and id
  Partial  \* those of them of which a failed send handed over a part only

Links == {l \in Ranks \X Ranks : l[1] # l[2]}  \* <<source, destination>>

VARIABLES
  log,      \* log[l]: every frame sent on l
  box,      \* box[l]: the frames that a receive can still return
  got,      \* got[l]: the frames that receives have returned
  severed   \* severed[l]: l reported a failure and may have lost frames

vars == <<log, box, got, severed>>

Init ==
  /\ log = [l \in Links |-> {}]
  /\ box = [l \in Links |-> {}]
  /\ got = [l \in Links |-> {}]
  /\ severed = [l \in Links |-> FALSE]

Send(l, f) ==
  /\ f \notin Partial
  /\ \A g \in log[l] : g.id < f.id
  /\ log' = [log EXCEPT ![l] = @ \union {f}]
  /\ \/ box' = [box EXCEPT ![l] = @ \union {f}]
     \/ severed[l] /\ UNCHANGED box
  /\ UNCHANGED <<got, severed>>

(* A send fails and leaves a part of f behind, for a receive to meet. *)
SendPart(l, f) ==
  /\ f \in Partial
  /\ \A g \in log[l] : g.id < f.id
  /\ log' = [log EXCEPT ![l] = @ \union {f}]
  /\ box' = [box EXCEPT ![l] = @ \union {f}]
  /\ severed' = [severed EXCEPT ![l] = TRUE]
  /\ UNCHANGED got

(* A receive returns f, the oldest frame of its stream.  What completes a  *)
(* part of a frame is lost with it.                                        *)
Deliver(l, f) ==
  /\ \A g \in box[l] : g.stream = f.stream => f.id <= g.id
  /\ \E lost \in SUBSET box[l] :
       /\ lost # {} => f \in Partial
       /\ box' = [box EXCEPT ![l] = @ \ (lost \union {f})]
  /\ got' = [got EXCEPT ![l] = @ \union {f}]
  /\ UNCHANGED <<log, severed>>

(* Links fail, with the loss of some of what they carry. *)
Fail ==
  /\ \A l \in Links : box'[l] \subseteq box[l]
  /\ \A l \in Links : severed[l] => severed'[l]
  /\ \A l \in Links : box'[l] # box[l] => severed'[l]
  /\ box' \in [Links -> SUBSET Frame]
  /\ severed' \in [Links -> BOOLEAN]
  /\ UNCHANGED <<log, got>>

Next ==
  \/ \E l \in Links : \E f \in box[l] : Deliver(l, f)
  \/ Fail
  \/ \E l \in Links, f \in Frame : Send(l, f) \/ SendPart(l, f)

Spec == Init /\ [][Next]_vars

-----------------------------------------------------------------------------

(* Nothing is delivered twice, and what is delivered was sent. *)
AtMostOnce == \A l \in Links : got[l] \subseteq log[l] /\ got[l] \intersect box[l] = {}

(* No frame is delivered after a younger one of its stream. *)
InOrder ==
  \A l \in Links : \A f \in got[l], g \in box[l] : f.stream = g.stream => f.id < g.id

(* A frame of which only a part was sent is returned only on a link that   *)
(* has failed.                                                             *)
PartsOnlyAfterFailure ==
  \A l \in Links : (got[l] \union box[l]) \intersect Partial # {} => severed[l]

(* As long as a link has not failed it has lost nothing. *)
Lossless == \A l \in Links : severed[l] \/ log[l] = box[l] \union got[l]
=============================================================================
