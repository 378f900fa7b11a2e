-------------------------- MODULE MCInMemoryWorld --------------------------
(***************************************************************************)
(* Three workers: they meet at barriers, with one receive beside, or, in a *)
(* world whose barrier is untouched, the first two exchange frames.        *)
(***************************************************************************)
EXTENDS InMemoryWorld

Meeting ==
  /\ \A l \in Links : sent[l] = 0
  /\ \A r \in Ranks : call[r] # NoCall => r = 1 /\ call[r].source = 0

Exchanging ==
  /\ generation = 0 /\ arrived = 0
  /\ alive[2] /\ call[2] = NoCall
  /\ \A r \in Ranks : call[r].source # 2
  /\ \A l \in Links : 2 \in {l[1], l[2]} => sent[l] = 0

MCSpec == WorldInit /\ [][WorldNext /\ (Meeting \/ Exchanging)']_worldVars /\ Fairness
=============================================================================
