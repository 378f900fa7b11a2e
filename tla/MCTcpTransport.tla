--------------------------- MODULE MCTcpTransport ---------------------------
(***************************************************************************)
(* Three ranks.  Either they meet at barriers and exchange nothing else,   *)
(* with up to two frames per link and every failure; or, with rank 2       *)
(* waiting in the first barrier, rank 0 sends to rank 1, with three frames *)
(* and every failure on that link, and both may take part in the barrier.  *)
(* One direction is enough: links are symmetric and meet in the barrier    *)
(* only.                                                                   *)
(***************************************************************************)
EXTENDS TcpTransport

OnlyBarrierFrames(l, n) ==
  sent[l] <= n /\ \A f \in log[l] : f.stream = BarrierStream

Meeting ==
  /\ \A l \in Links : OnlyBarrierFrames(l, 2)
  /\ \A r \in Ranks : call[r].op # "recv"

Sending ==
  /\ call[2].op = "await"
  /\ \A r \in Ranks : generation[r] = 0 \/ (generation[r] = 1 /\ ~entered[r])
  /\ \A r \in Ranks : call[r].op = "recv" => r = 1 /\ call[r].peer = 0
  /\ \A l \in Links \ {<<0, 1>>} : OnlyBarrierFrames(l, 1) /\ ~torn[l]

MCSpec == Init /\ [][Next /\ (Meeting \/ Sending)']_vars
=============================================================================
