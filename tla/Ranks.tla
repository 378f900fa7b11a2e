------------------------------- MODULE Ranks -------------------------------
(***************************************************************************)
(* Rank identity (crates/collectives/src/rank.rs).  A world has WorldSize  *)
(* participants, numbered from zero; a peer of a rank is any other rank.   *)
(***************************************************************************)
EXTENDS Integers

CONSTANT WorldSize

ASSUME WorldSizeAssumption == WorldSize \in Nat \ {0}

(* The rank numbers Rank::new accepts. *)
Ranks == 0 .. WorldSize - 1

(* The peers Rank::validate_peer accepts: in the world and not the rank    *)
(* itself.                                                                 *)
Peers(r) == Ranks \ {r}
=============================================================================
