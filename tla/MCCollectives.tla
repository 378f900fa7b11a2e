--------------------------- MODULE MCCollectives ---------------------------
(* Every operation twice in a row; the two all-reduce algorithms, which    *)
(* share a kind, one after the other; and a third call that finds the tag  *)
(* space used up.                                                          *)
EXTENDS Collectives

MCCall(kind, root) == [kind |-> kind, root |-> root]

MCTwice ==
  {MCCall("Broadcast", 1), MCCall("Reduce", 1), MCCall("AllGather", 0),
   MCCall("ReduceScatter", 0), MCCall("AllToAll", 0)}
MCRing == MCCall("AllReduceRing", 0)
MCCentralized == MCCall("AllReduceCentralized", 0)
MCBroadcast == MCCall("Broadcast", 0)

MCPrograms ==
  {<<k, k>> : k \in MCTwice}
    \union {<<MCCentralized, MCRing>>, <<MCRing, MCCentralized>>,
            <<MCBroadcast, MCBroadcast, MCBroadcast>>}

(* A broadcast that can be refused, and the next one. *)
MCBroadcastTwice == {<<MCBroadcast, MCBroadcast>>}
=============================================================================
