--------------------------- MODULE InMemoryWorld ---------------------------
(***************************************************************************)
(* An in-memory world (crates/collectives/src/in_memory.rs,                *)
(* create_in_memory_world): every endpoint has its channels and a share in *)
(* the one barrier.  A worker is in at most one blocking call; a worker    *)
(* that has ended (run_in_memory) arrives at no barrier, and its peers     *)
(* there have to give up.                                                  *)
(***************************************************************************)
EXTENDS InMemoryBarrier, InMemoryTransport

worldVars == <<vars, barrierVars>>

WorldInit == Init /\ BarrierInit

(* barrier() *)
Meet(r) ==
  /\ alive[r] /\ call[r] = NoCall
  /\ Wait(r)
  /\ UNCHANGED vars

ReturnFromBarrier(r) ==
  /\ Wake(r)
  /\ UNCHANGED vars

(* The rest of what a worker does with its endpoint. *)
Communicate(r) ==
  /\ r \notin waiting
  /\ Work(r)
  /\ UNCHANGED barrierVars

WorldNext == \E r \in Ranks : Meet(r) \/ ReturnFromBarrier(r) \/ Communicate(r)

WorldSpec == WorldInit /\ [][WorldNext]_worldVars /\ Fairness
=============================================================================
