-------------------------------- MODULE Tags --------------------------------
(***************************************************************************)
(* Message tags as numbers (crates/collectives/src/collective.rs and       *)
(* crates/pipeline/src/protocol.rs, crates/tensor/src/runner.rs).  The     *)
(* other modules let a tag be the record of what it stands for; that this  *)
(* loses nothing is proved in SharedLemmas.                                *)
(*                                                                         *)
(* A tag that does not fit its namespace is an error in the code; here it  *)
(* is a number that is not in TagNamespace.                                *)
(***************************************************************************)
EXTENDS Naturals

NamespaceSize == 65536 * 65536 * 65536 * 4096  \* 2^60

RING_TAG == 0
ACTIVATION_BASE == NamespaceSize
TOKEN_BASE == 2 * NamespaceSize
DECISION_BASE == 3 * NamespaceSize
COLLECTIVE_TAG_BASE == 4 * NamespaceSize
TAG_SEQUENCE_STRIDE == 65536

(* The tags from base on that belong to it: the filter of step_tag and of  *)
(* collective_tag.                                                         *)
TagNamespace(base) == {tag \in Nat : base <= tag /\ tag < base + NamespaceSize}

step_tag(base, step) == base + step

(* CollectiveKind::tag_id, and the bounds on phase and step. *)
TagKinds == 1 .. 6
TagPhases == 0 .. 15
TagSteps == 0 .. 255

collective_tag(sequence, kind, phase, step) ==
  sequence * TAG_SEQUENCE_STRIDE + kind * 4096 + phase * 256 + step + COLLECTIVE_TAG_BASE
=============================================================================
