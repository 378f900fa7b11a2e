---------------------------- MODULE MCRendezvous ----------------------------
(***************************************************************************)
(* Three ranks and a fourth process: a second rank 1, or one of another    *)
(* run.  The addresses of ranks 1 and 2 are right, exchanged, the same, or *)
(* that of the fourth process.                                             *)
(***************************************************************************)
EXTENDS Rendezvous

Entry(k, run, p) == [rank |-> k, run |-> run, address |-> p]

MCConfigs ==
  {<<Entry(0, "this", 0), Entry(1, "this", a[1]), Entry(2, "this", a[2]), extra>> :
     a \in {<<1, 2>>, <<2, 1>>, <<2, 2>>, <<3, 2>>},
     extra \in {Entry(1, "this", 3), Entry(2, "other", 3)}}

FromZero(s) == [p \in 0 .. 3 |-> s[p + 1]]
MCDeployments == {FromZero(s) : s \in MCConfigs}
=============================================================================
