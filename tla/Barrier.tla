------------------------------ MODULE Barrier ------------------------------
(***************************************************************************)
(* What BarrierTransport::barrier promises, whatever the transport: a      *)
(* reusable barrier.  passed[r] counts the calls of rank r that returned   *)
(* Ok, entered[r] says that r has called barrier() for its current         *)
(* generation.  A call may also return an error at any moment; that        *)
(* changes neither variable, because an arrival is not taken back.         *)
(***************************************************************************)
EXTENDS Ranks

VARIABLES passed, entered

vars == <<passed, entered>>

Init ==
  /\ passed = [r \in Ranks |-> 0]
  /\ entered = [r \in Ranks |-> FALSE]

Enter(r) ==
  /\ entered' = [entered EXCEPT ![r] = TRUE]
  /\ UNCHANGED passed

(* The call of r returns Ok.  The last rank to arrive enters and passes in *)
(* one step, so nothing is asked of entered[r] itself.                     *)
Pass(r) ==
  /\ \A q \in Peers(r) : \/ passed[q] > passed[r]
                         \/ passed[q] = passed[r] /\ entered[q]
  /\ passed' = [passed EXCEPT ![r] = @ + 1]
  /\ entered' = [entered EXCEPT ![r] = FALSE]

Next == \E r \in Ranks : Enter(r) \/ Pass(r)

Spec == Init /\ [][Next]_vars

-----------------------------------------------------------------------------

TypeOK ==
  /\ passed \in [Ranks -> Nat]
  /\ entered \in [Ranks -> BOOLEAN]

(* No rank is released from a generation before every rank has arrived at  *)
(* it: a rank that is ahead of another is ahead by one, and the other has  *)
(* already called barrier() for the generation in question.                *)
Lockstep ==
  \A r, q \in Ranks :
    passed[r] > passed[q] => passed[r] = passed[q] + 1 /\ entered[q]
=============================================================================
