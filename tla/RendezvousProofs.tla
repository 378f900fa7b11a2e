-------------------------- MODULE RendezvousProofs --------------------------
(***************************************************************************)
(* The invariant behind the guarantees of Rendezvous, and the proofs.  The *)
(* table is written once per rank and is complete before anybody is told   *)
(* of it; whoever dials or accepts has the table, so every process in the  *)
(* mesh reads the same one.                                                *)
(***************************************************************************)
EXTENDS Rendezvous, FiniteSetTheorems, TLAPS

(* Every rank has registered. *)
Full == \A k \in Ranks : registered[k] # None

(* A process that has been given the table is in it. *)
Joined(p) == Full /\ registered[Rank(p)] = p

TableInv ==
  /\ \A k \in Ranks : registered[k] # None => Rank(registered[k]) = k
  /\ server \in {"answer", "done"} => Full
  /\ \A p \in Procs : answer[p] = "ready" => Joined(p)

(* Who dials or accepts has the table, and dials the ranks above its own. *)
JoinInv ==
  \A p \in Procs :
    /\ accepting[p] # "off" => Joined(p)
    /\ pc[p] \in {"mesh", "ready"} => accepting[p] # "off"
    /\ pc[p] \in {"register", "await"} => waiting[p] = FALSE
    /\ waiting[p] = TRUE => accepting[p] # "off" /\ Rank(p) < dial[p] /\ dial[p] < WorldSize
    /\ pc[p] = "mesh" => Rank(p) < dial[p]
    /\ pc[p] = "ready" => dial[p] = WorldSize /\ accepting[p] = "done"

(* Every stream leads to the registered process, which has the table. *)
PeerInv ==
  \A p \in Procs, k \in Ranks :
    peer[p][k] # None => peer[p][k] = registered[k] /\ accepting[registered[k]] # "off"

(* The loops leave no gaps: a process has streams to the ranks between its *)
(* own and the next it dials, and one whose accept thread is done to all   *)
(* lower ranks.  There is no stream to itself.                             *)
LoopInv ==
  \A p \in Procs, k \in Ranks :
    /\ Rank(p) < k /\ k < dial[p] => peer[p][k] # None
    /\ accepting[p] = "done" /\ k < Rank(p) => peer[p][k] # None
    /\ k = Rank(p) => peer[p][k] = None

(* A connection that is not accepted yet is the one its dialler waits for. *)
BacklogInv ==
  \A q \in Procs : \A p \in backlog[q] :
    waiting[p] = TRUE /\ reply[p] = "none" /\ q = Target(dial[p])

(* Only the process that is rank k answers a handshake for rank k. *)
ReplyInv ==
  \A p \in Procs : waiting[p] = TRUE /\ reply[p] = "ready" =>
    Target(dial[p]) = registered[dial[p]] /\ accepting[registered[dial[p]]] # "off"

IInv == Types /\ TableInv /\ JoinInv /\ PeerInv /\ LoopInv /\ BacklogInv /\ ReplyInv


-----------------------------------------------------------------------------
(* The constants, and what a configuration holds. *)

LEMMA ConstantFacts ==
  /\ WorldSize \in Nat \ {0} /\ Ranks = 0 .. WorldSize - 1
  /\ Ranks \subseteq Procs /\ None \notin Procs
<1> QED BY WorldSizeAssumption, RendezvousAssumption DEF Ranks

LEMMA ConfigFacts ==
  ASSUME config \in Configs, NEW p \in Procs
  PROVE  /\ Rank(p) \in Ranks /\ config[p].address \in Procs
         /\ Rank(p) = 0 <=> p = 0
<1>1. config \in [Procs -> Config]
  BY RendezvousAssumption
<1>2. config[p] \in Config
  BY <1>1
<1>3. Rank(p) \in Ranks /\ config[p].address \in Procs
  BY <1>2 DEF Config, Rank
<1> QED BY <1>3, RendezvousAssumption DEF Rank

(* The table is complete and does not change any more, or the process has  *)
(* no part in the mesh.                                                    *)
LEMMA JoinedFacts ==
  ASSUME Types, Full, NEW k \in Ranks
  PROVE  registered[k] \in Procs /\ Target(k) \in Procs
<1>1. registered[k] \in Procs
  BY DEF Types, Full
<1> QED BY <1>1, ConfigFacts DEF Types, Target

-----------------------------------------------------------------------------
(* What an invariant needs of a step that leaves part of the state alone. *)

(* The last conjunct of TypeOK follows from the others. *)
LEMMA TypesSuffice ==
  ASSUME Types, JoinInv, LoopInv
  PROVE  TypeOK
<1> SUFFICES ASSUME NEW p \in Procs, pc[p] = "mesh"
             PROVE  dial[p] > Rank(p) /\ peer[p][Rank(p)] = None
  BY DEF Types, TypeOK
<1>1. Rank(p) \in Ranks
  BY ConfigFacts DEF Types
<1>2. Rank(p) < dial[p]
  BY DEF JoinInv
<1>3. dial[p] \in Int /\ Rank(p) \in Int
  BY <1>1, ConstantFacts DEF Types
<1> QED BY <1>1, <1>2, <1>3 DEF LoopInv

(* A step of the rendezvous leaves the mesh alone, and the table as well   *)
(* once it is full: nobody in the mesh notices.                            *)
LEMMA RendezvousStep ==
  ASSUME IInv, Types', TableInv', UNCHANGED <<config, mesh>>,
         Full => registered' = registered,
         \A p \in Procs : pc'[p] = pc[p] \/ (pc[p] = "register" /\ pc'[p] = "await")
  PROVE  IInv'
<1> USE DEF IInv
<1>1. /\ listening' = listening /\ backlog' = backlog /\ accepting' = accepting
      /\ dial' = dial /\ waiting' = waiting /\ reply' = reply /\ peer' = peer
      /\ config' = config
  BY DEF mesh
<1>2. \A p \in Procs : Rank(p)' = Rank(p)
  BY <1>1 DEF Rank
<1>3. \A p \in Procs : accepting[p] # "off" => Full /\ Joined(p)'
  BY <1>2 DEF JoinInv, Joined, Full
<1>4. JoinInv'
  BY <1>1, <1>2, <1>3 DEF JoinInv
<1>5. PeerInv'
  <2> SUFFICES ASSUME NEW p \in Procs, NEW k \in Ranks, peer[p][k] # None
               PROVE  peer[p][k] = registered'[k] /\ accepting[registered'[k]] # "off"
    BY <1>1 DEF PeerInv
  <2>1. peer[p][k] = registered[k] /\ accepting[registered[k]] # "off"
    BY DEF PeerInv
  <2>2. registered[k] \in Procs
    BY <2>1 DEF Types
  <2> QED BY <2>1, <2>2, <1>3
<1>6. LoopInv'
  BY <1>1, <1>2 DEF LoopInv
<1>7. \A p \in Procs : waiting[p] = TRUE => registered' = registered
  BY <1>3 DEF JoinInv
<1>8. BacklogInv'
  <2> SUFFICES ASSUME NEW q \in Procs, NEW p \in backlog[q]
               PROVE  waiting[p] = TRUE /\ reply[p] = "none" /\ q = Target(dial[p])'
    BY <1>1 DEF BacklogInv
  <2>1. waiting[p] = TRUE /\ reply[p] = "none" /\ q = Target(dial[p])
    BY DEF BacklogInv
  <2>2. p \in Procs
    BY DEF Types
  <2> QED BY <2>1, <2>2, <1>1, <1>7 DEF Target
<1>9. ReplyInv'
  BY <1>1, <1>7 DEF ReplyInv, Target
<1> QED BY <1>4, <1>5, <1>6, <1>8, <1>9

(* Listeners are closed: what was in their queues has its error, and the   *)
(* other connections stay as they were.                                    *)
LEMMA ListenersClosed ==
  ASSUME IInv, NEW S \in SUBSET Procs, Close(S),
         reply' = [q \in Procs |-> IF q \in ResetBy(S) THEN "error" ELSE reply[q]],
         UNCHANGED <<config, registered, dial, waiting>>,
         \A p \in Procs : accepting[p] # "off" => accepting'[p] # "off"
  PROVE  /\ listening' \in [Procs -> BOOLEAN]
         /\ backlog' \in [Procs -> SUBSET Procs]
         /\ reply' \in [Procs -> {"none", "ready", "error"}]
         /\ BacklogInv' /\ ReplyInv'
<1> USE DEF IInv
<1>1. listening' \in [Procs -> BOOLEAN]
  <2>1. listening' = [p \in Procs |-> p \notin S /\ listening[p]]
    BY DEF Close
  <2>2. \A p \in Procs : (p \notin S /\ listening[p]) \in BOOLEAN
    BY Zenon
  <2> QED BY <2>1, <2>2, Zenon
<1>2. /\ backlog' \in [Procs -> SUBSET Procs]
      /\ \A q \in Procs : \A p \in backlog'[q] : q \notin S /\ p \in backlog[q]
  BY DEF Types, Close
<1>3. reply' \in [Procs -> {"none", "ready", "error"}]
  BY DEF Types
<1>4. BacklogInv'
  <2> SUFFICES ASSUME NEW q \in Procs, NEW p \in backlog'[q]
               PROVE  waiting[p] = TRUE /\ reply'[p] = "none" /\ q = Target(dial[p])
    BY DEF BacklogInv, Target
  <2>1. q \notin S /\ p \in backlog[q] /\ p \in Procs
    BY <1>2 DEF Types
  <2>2. waiting[p] = TRUE /\ reply[p] = "none" /\ q = Target(dial[p])
    BY <2>1 DEF BacklogInv
  <2>3. p \notin ResetBy(S)
    BY <2>1, <2>2 DEF ResetBy, BacklogInv
  <2> QED BY <2>1, <2>2, <2>3
<1>5. ReplyInv'
  <2> SUFFICES ASSUME NEW p \in Procs, waiting[p] = TRUE, reply'[p] = "ready"
               PROVE  /\ Target(dial[p]) = registered[dial[p]]
                      /\ accepting'[registered[dial[p]]] # "off"
    BY DEF ReplyInv, Target
  <2>1. reply[p] = "ready"
    OBVIOUS
  <2>2. Target(dial[p]) = registered[dial[p]] /\ accepting[registered[dial[p]]] # "off"
    BY <2>1 DEF ReplyInv
  <2>3. Full /\ dial[p] \in Ranks
    <3>1. accepting[p] # "off" /\ Rank(p) < dial[p] /\ dial[p] < WorldSize
      BY DEF JoinInv
    <3>2. Rank(p) \in Ranks
      BY ConfigFacts DEF Types
    <3>3. dial[p] \in Ranks
      BY <3>1, <3>2, ConstantFacts DEF Types
    <3> QED BY <3>1, <3>3 DEF JoinInv, Joined
  <2> QED BY <2>2, <2>3, JoinedFacts
<1> QED BY <1>1, <1>2, <1>3, <1>4, <1>5

-----------------------------------------------------------------------------
(* The rendezvous. *)

LEMMA RegisterKeeps ==
  ASSUME IInv, NEW p \in Procs, Register(p)
  PROVE  IInv'
<1>1. /\ config' = config /\ server' = server /\ registered' = registered /\ told' = told
      /\ answer' = answer /\ UNCHANGED mesh
      /\ pc[p] = "register" /\ pc' = [pc EXCEPT ![p] = "await"] /\ regs' = regs \union {p}
  BY DEF Register
<1>2. Types'
  <2>1. pc' \in [Procs -> {"register", "await", "mesh", "ready", "failed"}] /\ regs' \subseteq Procs
    BY <1>1 DEF IInv, Types
  <2> QED BY <1>1, <2>1 DEF IInv, Types, mesh
<1>3. TableInv'
  BY <1>1 DEF IInv, TableInv, Full, Joined, Rank
<1>4. \A q \in Procs : pc'[q] = pc[q] \/ (pc[q] = "register" /\ pc'[q] = "await")
  BY <1>1 DEF IInv, Types
<1> QED BY <1>1, <1>2, <1>3, <1>4, RendezvousStep

LEMMA ServerAcceptsKeeps ==
  ASSUME IInv, NEW p \in Procs, ServerAccepts(p)
  PROVE  IInv'
<1>1. /\ config' = config /\ pc' = pc /\ told' = told /\ answer' = answer /\ UNCHANGED mesh
      /\ server = "accept" /\ regs' = regs \ {p}
      /\ registered' = [registered EXCEPT ![Rank(p)] = p]
      /\ registered[Rank(p)] = None
      /\ server' = IF \A k \in Ranks : registered'[k] # None THEN "answer" ELSE "accept"
  BY DEF ServerAccepts, Valid
<1>2. Rank(p) \in Ranks /\ ~Full
  BY <1>1, ConfigFacts DEF IInv, Types, Full
<1>3. Types'
  <2>1. registered' \in [Ranks -> Procs \union {None}] /\ regs' \subseteq Procs
    BY <1>1, <1>2 DEF IInv, Types
  <2>2. server' \in {"accept", "answer", "done", "failed"}
    BY <1>1
  <2> QED BY <1>1, <2>1, <2>2 DEF IInv, Types, mesh
<1>4. TableInv'
  <2>1. \A k \in Ranks : registered'[k] # None => config[registered'[k]].rank = k
    <3> SUFFICES ASSUME NEW k \in Ranks, registered'[k] # None
                 PROVE  config[registered'[k]].rank = k
      OBVIOUS
    <3>1. CASE k = Rank(p)
      <4>1. registered'[k] = p
        BY <1>1, <1>2, <3>1 DEF IInv, Types
      <4> QED BY <4>1, <3>1 DEF Rank
    <3>2. CASE k # Rank(p)
      <4>1. registered'[k] = registered[k]
        BY <1>1, <1>2, <3>2 DEF IInv, Types
      <4> QED BY <4>1 DEF IInv, TableInv, Rank
    <3> QED BY <3>1, <3>2
  <2>2. server' \in {"answer", "done"} => Full'
    BY <1>1 DEF Full
  <2>3. \A q \in Procs : answer[q] # "ready"
    BY <1>2 DEF IInv, TableInv, Joined
  <2> QED BY <1>1, <2>1, <2>2, <2>3 DEF TableInv, Rank
<1> QED BY <1>1, <1>2, <1>3, <1>4, RendezvousStep

(* What the end of the server changes. *)
LEMMA ServerEndsFacts ==
  ASSUME IInv, ServerEnds, UNCHANGED <<config, registered>>
  PROVE  /\ server' = "failed" /\ regs' \subseteq Procs
         /\ answer' \in [Procs -> {"none", "ready", "error"}]
         /\ TableInv'
<1>1. /\ server' = "failed" /\ regs' = {}
      /\ \A p \in Procs : answer'[p] = "ready" => answer[p] = "ready"
      /\ answer' \in [Procs -> {"none", "ready", "error"}]
  BY DEF ServerEnds, IInv, Types
<1>2. TableInv'
  BY <1>1 DEF IInv, TableInv, Joined, Full, Rank
<1> QED BY <1>1, <1>2

LEMMA ServerFailureKeeps ==
  ASSUME IInv, ServerEnds, UNCHANGED <<config, pc, registered, told, mesh>>
  PROVE  IInv'
<1>1. /\ server' = "failed" /\ regs' \subseteq Procs
      /\ answer' \in [Procs -> {"none", "ready", "error"}]
      /\ TableInv'
  BY ServerEndsFacts
<1>2. Types'
  BY <1>1 DEF IInv, Types, mesh
<1> QED BY <1>1, <1>2, RendezvousStep

LEMMA ServerAnswersKeeps ==
  ASSUME IInv, ServerAnswers
  PROVE  IInv'
<1>1. /\ UNCHANGED <<config, pc, server, regs, registered, mesh>>
      /\ server = "answer" /\ told < WorldSize /\ told' = told + 1
      /\ answer' = [answer EXCEPT ![registered[told]] = "ready"]
  BY DEF ServerAnswers
<1>2. told \in Ranks /\ told' \in 0 .. WorldSize
  BY <1>1, ConstantFacts DEF IInv, Types
<1>3. Full
  BY <1>1 DEF IInv, TableInv
<1>4. registered[told] \in Procs /\ Joined(registered[told])
  BY <1>2, <1>3 DEF IInv, Types, TableInv, Joined, Full
<1>5. Types'
  <2>1. answer' \in [Procs -> {"none", "ready", "error"}]
    BY <1>1, <1>4 DEF IInv, Types
  <2> QED BY <1>1, <1>2, <2>1 DEF IInv, Types, mesh
<1>6. TableInv'
  <2>1. \A q : Rank(q)' = Rank(q) /\ (Joined(q)' <=> Joined(q))
    BY <1>1 DEF Rank, Joined, Full
  <2>2. \A q \in Procs : answer'[q] = "ready" => answer[q] = "ready" \/ q = registered[told]
    BY <1>1 DEF IInv, Types
  <2>3. \A q \in Procs : answer'[q] = "ready" => Joined(q)
    BY <2>2, <1>4 DEF IInv, TableInv
  <2> QED BY <1>1, <1>3, <2>1, <2>3 DEF IInv, TableInv, Full
<1> QED BY <1>1, <1>5, <1>6, RendezvousStep

LEMMA ServerDoneKeeps ==
  ASSUME IInv, ServerDone
  PROVE  IInv'
<1>1. /\ UNCHANGED <<config, pc, registered, told, mesh>>
      /\ server = "answer" /\ server' = "done" /\ regs' = {}
      /\ answer' = [p \in Procs |-> IF p \in regs THEN "error" ELSE answer[p]]
  BY DEF ServerDone
<1>2. /\ \A p \in Procs : answer'[p] = "ready" => answer[p] = "ready"
      /\ answer' \in [Procs -> {"none", "ready", "error"}]
  BY <1>1 DEF IInv, Types
<1>3. Types'
  BY <1>1, <1>2 DEF IInv, Types, mesh
<1>4. TableInv'
  BY <1>1, <1>2 DEF IInv, TableInv, Joined, Full, Rank
<1> QED BY <1>1, <1>3, <1>4, RendezvousStep

-----------------------------------------------------------------------------
(* The mesh. *)

(* Who waits for a response has the table and dials a rank of it. *)
LEMMA DialFacts ==
  ASSUME IInv, NEW p \in Procs,
         waiting[p] = TRUE \/ (pc[p] = "mesh" /\ dial[p] < WorldSize)
  PROVE  /\ accepting[p] # "off" /\ Joined(p)
         /\ Rank(p) \in Ranks /\ dial[p] \in Ranks /\ Rank(p) < dial[p]
         /\ registered[dial[p]] \in Procs /\ Target(dial[p]) \in Procs
         /\ Rank(registered[dial[p]]) = dial[p]
<1>1. accepting[p] # "off" /\ Rank(p) < dial[p] /\ dial[p] < WorldSize
  BY DEF IInv, JoinInv
<1>2. Joined(p) /\ Full
  BY <1>1 DEF IInv, JoinInv, Joined
<1>3. Rank(p) \in Ranks
  BY ConfigFacts DEF IInv, Types
<1>4. dial[p] \in Ranks
  BY <1>1, <1>3, ConstantFacts DEF IInv, Types
<1>5. registered[dial[p]] \in Procs /\ Target(dial[p]) \in Procs
  BY <1>2, <1>4, JoinedFacts DEF IInv
<1> QED BY <1>1, <1>2, <1>3, <1>4, <1>5 DEF IInv, TableInv, Full

(* A stream stays with a process whose accept thread has been started. *)
LEMMA StreamsStay ==
  ASSUME IInv, UNCHANGED <<peer, registered>>,
         \A p \in Procs : accepting[p] # "off" => accepting'[p] # "off"
  PROVE  PeerInv'
<1> SUFFICES ASSUME NEW p \in Procs, NEW k \in Ranks, peer[p][k] # None
             PROVE  peer[p][k] = registered[k] /\ accepting'[registered[k]] # "off"
  BY DEF PeerInv
<1>1. peer[p][k] = registered[k] /\ accepting[registered[k]] # "off"
  BY DEF PeerInv, IInv
<1>2. registered[k] \in Procs
  BY <1>1 DEF Types, IInv
<1> QED BY <1>1, <1>2

(* Facts that depend on the configurations and the table alone. *)
LEMMA TableStays ==
  ASSUME UNCHANGED <<config, registered>>
  PROVE  /\ \A q : Rank(q)' = Rank(q) /\ (Joined(q)' <=> Joined(q))
         /\ \A k : Target(k)' = Target(k)
         /\ Full' <=> Full
<1> QED BY DEF Rank, Joined, Full, Target

LEMMA StartMeshKeeps ==
  ASSUME IInv, NEW p \in Procs, StartMesh(p)
  PROVE  IInv'
<1> USE DEF IInv
<1>1. /\ config' = config /\ server' = server /\ regs' = regs /\ registered' = registered
      /\ told' = told /\ answer' = answer
      /\ listening' = listening /\ backlog' = backlog /\ waiting' = waiting
      /\ reply' = reply /\ peer' = peer
      /\ pc[p] = "await" /\ answer[p] = "ready"
      /\ pc' = [pc EXCEPT ![p] = "mesh"]
      /\ accepting' = [accepting EXCEPT ![p] = "on"]
      /\ dial' = [dial EXCEPT ![p] = Rank(p) + 1]
  BY DEF StartMesh, FirstDial, rendezvous
<1>2. Joined(p) /\ Rank(p) \in Ranks
  BY <1>1, ConfigFacts DEF TableInv, Types
<1>3. Rank(p) + 1 \in 0 .. WorldSize /\ Rank(p) < Rank(p) + 1 /\ Rank(p) \in Int
  BY <1>2, ConstantFacts
<1>4. Types'
  <2>1. /\ pc' \in [Procs -> {"register", "await", "mesh", "ready", "failed"}]
        /\ accepting' \in [Procs -> {"off", "on", "done", "failed"}]
        /\ dial' \in [Procs -> 0 .. WorldSize]
    BY <1>1, <1>3 DEF Types
  <2> QED BY <1>1, <2>1 DEF Types
<1>5. /\ pc'[p] = "mesh" /\ accepting'[p] = "on" /\ dial'[p] = Rank(p) + 1
      /\ \A q \in Procs \ {p} : pc'[q] = pc[q] /\ accepting'[q] = accepting[q] /\ dial'[q] = dial[q]
  BY <1>1 DEF Types
<1>6. /\ waiting[p] = FALSE
      /\ \A q : Rank(q)' = Rank(q) /\ (Joined(q)' <=> Joined(q))
      /\ \A k : Target(k)' = Target(k)
      /\ Full' <=> Full
  BY <1>1, TableStays DEF JoinInv
<1>7. TableInv'
  BY <1>1, <1>6 DEF TableInv
<1>8. JoinInv'
  BY <1>1, <1>2, <1>3, <1>5, <1>6 DEF JoinInv
<1>9. \A q \in Procs : accepting[q] # "off" => accepting'[q] # "off"
  BY <1>5
<1>10. PeerInv'
  BY <1>1, <1>9, StreamsStay
<1>11. LoopInv'
  <2> SUFFICES ASSUME NEW q \in Procs, NEW k \in Ranks
               PROVE  /\ Rank(q) < k /\ k < dial'[q] => peer[q][k] # None
                      /\ accepting'[q] = "done" /\ k < Rank(q) => peer[q][k] # None
                      /\ k = Rank(q) => peer[q][k] = None
    BY <1>1, <1>6 DEF LoopInv
  <2>1. k \in Int
    BY ConstantFacts
  <2>2. CASE q = p
    BY <1>3, <1>5, <2>1, <2>2 DEF LoopInv
  <2>3. CASE q # p
    BY <1>5, <2>3 DEF LoopInv
  <2> QED BY <2>2, <2>3
<1>12. BacklogInv'
  <2> SUFFICES ASSUME NEW q \in Procs, NEW b \in backlog[q]
               PROVE  waiting[b] = TRUE /\ reply[b] = "none" /\ q = Target(dial'[b])
    BY <1>1, <1>6 DEF BacklogInv
  <2>1. waiting[b] = TRUE /\ reply[b] = "none" /\ q = Target(dial[b]) /\ b \in Procs
    BY DEF BacklogInv, Types
  <2> QED BY <2>1, <1>5, <1>6
<1>13. ReplyInv'
  <2> SUFFICES ASSUME NEW q \in Procs, waiting[q] = TRUE, reply[q] = "ready"
               PROVE  /\ Target(dial'[q]) = registered[dial'[q]]
                      /\ accepting'[registered[dial'[q]]] # "off"
    BY <1>1, <1>6 DEF ReplyInv
  <2>1. dial'[q] = dial[q] /\ registered[dial[q]] \in Procs
    BY <1>5, <1>6, DialFacts
  <2> QED BY <2>1, <1>9 DEF ReplyInv
<1> QED BY <1>4, <1>7, <1>8, <1>10, <1>11, <1>12, <1>13

LEMMA DialKeeps ==
  ASSUME IInv, NEW p \in Procs, Dial(p)
  PROVE  IInv'
<1> USE DEF IInv
<1>1. /\ config' = config /\ pc' = pc /\ server' = server /\ regs' = regs
      /\ registered' = registered /\ told' = told /\ answer' = answer
      /\ listening' = listening /\ accepting' = accepting /\ dial' = dial /\ peer' = peer
      /\ pc[p] = "mesh" /\ ~waiting[p] /\ dial[p] < WorldSize
      /\ backlog' = [backlog EXCEPT ![Target(dial[p])] = @ \union {p}]
      /\ waiting' = [waiting EXCEPT ![p] = TRUE]
      /\ reply' = [reply EXCEPT ![p] = "none"]
  BY DEF Dial, rendezvous
<1>2. /\ accepting[p] # "off" /\ Rank(p) < dial[p] /\ Target(dial[p]) \in Procs
  BY <1>1, DialFacts
<1>3. /\ \A q : Rank(q)' = Rank(q) /\ (Joined(q)' <=> Joined(q))
      /\ \A k : Target(k)' = Target(k)
      /\ Full' <=> Full
  BY <1>1, TableStays
<1>4. waiting[p] # TRUE
  BY <1>1, Zenon
<1>5. /\ waiting'[p] = TRUE /\ reply'[p] = "none"
      /\ \A q \in Procs \ {p} : waiting'[q] = waiting[q] /\ reply'[q] = reply[q]
      /\ \A q \in Procs : \A b \in backlog'[q] :
           b \in backlog[q] \/ (b = p /\ q = Target(dial[p]))
      /\ \A q \in Procs : backlog'[q] \subseteq Procs
  BY <1>1, <1>2 DEF Types
<1>6. Types'
  <2>1. waiting' \in [Procs -> BOOLEAN]
    BY <1>1 DEF Types
  <2>2. /\ backlog' \in [Procs -> SUBSET Procs]
        /\ reply' \in [Procs -> {"none", "ready", "error"}]
    BY <1>1, <1>2 DEF Types
  <2> QED BY <1>1, <2>1, <2>2 DEF Types
<1>7. TableInv'
  BY <1>1, <1>3 DEF TableInv
<1>8. JoinInv'
  BY <1>1, <1>2, <1>3, <1>5 DEF JoinInv
<1>9. PeerInv'
  BY <1>1, StreamsStay
<1>10. LoopInv'
  BY <1>1, <1>3 DEF LoopInv
<1>11. BacklogInv'
  <2> SUFFICES ASSUME NEW q \in Procs, NEW b \in backlog'[q]
               PROVE  waiting'[b] = TRUE /\ reply'[b] = "none" /\ q = Target(dial[b])
    BY <1>1, <1>3 DEF BacklogInv
  <2>1. CASE b = p
    BY <1>4, <1>5, <2>1 DEF BacklogInv
  <2>2. CASE b # p
    <3>1. b \in backlog[q] /\ b \in Procs
      BY <1>5, <2>2
    <3> QED BY <3>1, <1>5, <2>2 DEF BacklogInv
  <2> QED BY <2>1, <2>2
<1>12. ReplyInv'
  BY <1>1, <1>3, <1>5 DEF ReplyInv
<1> QED BY <1>6, <1>7, <1>8, <1>9, <1>10, <1>11, <1>12

(* Who is accepted is the process of its rank in the table, and the one    *)
(* that accepts is the process it dials.                                   *)
LEMMA AcceptKeeps ==
  ASSUME IInv, NEW q \in Procs, NEW p \in Procs, Accept(q, p)
  PROVE  IInv'
<1> USE DEF IInv
<1>1. /\ config' = config /\ pc' = pc /\ server' = server /\ regs' = regs
      /\ registered' = registered /\ told' = told /\ answer' = answer
      /\ listening' = listening /\ accepting' = accepting /\ dial' = dial /\ waiting' = waiting
      /\ accepting[q] = "on" /\ p \in backlog[q]
      /\ dial[p] = Rank(q) /\ Rank(p) < Rank(q) /\ peer[q][Rank(p)] = None
      /\ backlog' = [backlog EXCEPT ![q] = @ \ {p}]
      /\ reply' = [reply EXCEPT ![p] = "ready"]
      /\ peer' = [peer EXCEPT ![q][Rank(p)] = p]
  BY DEF Accept, ValidHandshake, rendezvous
<1>2. waiting[p] = TRUE /\ q = Target(dial[p])
  BY <1>1 DEF BacklogInv
<1>3. /\ accepting[p] # "off" /\ registered[Rank(p)] = p /\ Rank(p) \in Ranks
  BY <1>2, DialFacts DEF Joined
<1>4. /\ registered[dial[p]] = q /\ Rank(q) \in Ranks
  BY <1>1, ConfigFacts DEF JoinInv, Joined, Types
<1>5. /\ \A r : Rank(r)' = Rank(r) /\ (Joined(r)' <=> Joined(r))
      /\ \A k : Target(k)' = Target(k)
      /\ Full' <=> Full
  BY <1>1, TableStays
<1>6. /\ reply'[p] = "ready"
      /\ \A r \in Procs \ {p} : reply'[r] = reply[r]
      /\ peer'[q][Rank(p)] = p
      /\ \A r \in Procs, k \in Ranks :
           r # q \/ k # Rank(p) => peer'[r][k] = peer[r][k]
      /\ \A r \in Procs : \A b \in backlog'[r] : b \in backlog[r] /\ (r = q => b # p)
  BY <1>1, <1>3 DEF Types
<1>7. Types'
  <2>1. /\ backlog' \in [Procs -> SUBSET Procs]
        /\ reply' \in [Procs -> {"none", "ready", "error"}]
        /\ peer' \in [Procs -> [Ranks -> Procs \union {None}]]
    BY <1>1, <1>3 DEF Types
  <2> QED BY <1>1, <2>1 DEF Types
<1>8. TableInv'
  BY <1>1, <1>5 DEF TableInv
<1>9. JoinInv'
  BY <1>1, <1>5 DEF JoinInv
<1>10. PeerInv'
  <2> SUFFICES ASSUME NEW r \in Procs, NEW k \in Ranks, peer'[r][k] # None
               PROVE  peer'[r][k] = registered[k] /\ accepting[registered[k]] # "off"
    BY <1>1 DEF PeerInv
  <2>1. CASE r = q /\ k = Rank(p)
    BY <1>3, <1>6, <2>1
  <2>2. CASE r # q \/ k # Rank(p)
    BY <1>6, <2>2 DEF PeerInv
  <2> QED BY <2>1, <2>2
<1>11. LoopInv'
  <2> SUFFICES ASSUME NEW r \in Procs, NEW k \in Ranks
               PROVE  /\ Rank(r) < k /\ k < dial[r] => peer'[r][k] # None
                      /\ accepting[r] = "done" /\ k < Rank(r) => peer'[r][k] # None
                      /\ k = Rank(r) => peer'[r][k] = None
    BY <1>1, <1>5 DEF LoopInv
  <2>1. CASE r = q /\ k = Rank(p)
    <3>1. p # None /\ k # Rank(r)
      BY <1>1, <1>3, <1>4, <2>1, ConstantFacts
    <3> QED BY <1>6, <2>1, <3>1
  <2>2. CASE r # q \/ k # Rank(p)
    BY <1>6, <2>2 DEF LoopInv
  <2> QED BY <2>1, <2>2
<1>12. BacklogInv'
  <2> SUFFICES ASSUME NEW r \in Procs, NEW b \in backlog'[r]
               PROVE  waiting[b] = TRUE /\ reply'[b] = "none" /\ r = Target(dial[b])
    BY <1>1, <1>5 DEF BacklogInv
  <2>1. b \in backlog[r] /\ b \in Procs /\ (r = q => b # p)
    BY <1>6 DEF Types
  <2>2. waiting[b] = TRUE /\ reply[b] = "none" /\ r = Target(dial[b])
    BY <2>1 DEF BacklogInv
  <2>3. b # p
    BY <1>2, <2>1, <2>2
  <2> QED BY <1>6, <2>1, <2>2, <2>3
<1>13. ReplyInv'
  <2> SUFFICES ASSUME NEW r \in Procs, waiting[r] = TRUE, reply'[r] = "ready"
               PROVE  /\ Target(dial[r]) = registered[dial[r]]
                      /\ accepting[registered[dial[r]]] # "off"
    BY <1>1, <1>5 DEF ReplyInv
  <2>1. CASE r = p
    BY <1>1, <1>2, <1>4, <2>1
  <2>2. CASE r # p
    BY <1>6, <2>2 DEF ReplyInv
  <2> QED BY <2>1, <2>2
<1> QED BY <1>7, <1>8, <1>9, <1>10, <1>11, <1>12, <1>13

(* A response that is ready came from the process that is the rank. *)
LEMMA DialledKeeps ==
  ASSUME IInv, NEW p \in Procs, Dialled(p)
  PROVE  IInv'
<1> USE DEF IInv
<1>1. /\ config' = config /\ pc' = pc /\ server' = server /\ regs' = regs
      /\ registered' = registered /\ told' = told /\ answer' = answer
      /\ listening' = listening /\ accepting' = accepting /\ backlog' = backlog /\ reply' = reply
      /\ pc[p] = "mesh" /\ waiting[p] /\ reply[p] = "ready"
      /\ peer' = [peer EXCEPT ![p][dial[p]] = Target(dial[p])]
      /\ dial' = [dial EXCEPT ![p] = @ + 1]
      /\ waiting' = [waiting EXCEPT ![p] = FALSE]
  BY DEF Dialled, rendezvous
<1>2. waiting[p] = TRUE
  BY <1>1 DEF Types
<1>3. /\ accepting[p] # "off" /\ Rank(p) \in Ranks /\ dial[p] \in Ranks /\ Rank(p) < dial[p]
      /\ registered[dial[p]] \in Procs
  BY <1>2, DialFacts
<1>4. Target(dial[p]) = registered[dial[p]] /\ accepting[registered[dial[p]]] # "off"
  BY <1>1, <1>2 DEF ReplyInv
<1>5. /\ dial[p] \in Int /\ Rank(p) \in Int
      /\ dial[p] + 1 \in 0 .. WorldSize /\ Rank(p) < dial[p] + 1
  BY <1>3, ConstantFacts
<1>6. /\ \A r : Rank(r)' = Rank(r) /\ (Joined(r)' <=> Joined(r))
      /\ \A k : Target(k)' = Target(k)
      /\ Full' <=> Full
  BY <1>1, TableStays
<1>7. /\ dial'[p] = dial[p] + 1 /\ waiting'[p] = FALSE
      /\ \A r \in Procs \ {p} : dial'[r] = dial[r] /\ waiting'[r] = waiting[r]
      /\ peer'[p][dial[p]] = registered[dial[p]]
      /\ \A r \in Procs, k \in Ranks : r # p \/ k # dial[p] => peer'[r][k] = peer[r][k]
  BY <1>1, <1>3, <1>4 DEF Types
<1>8. Types'
  <2>1. waiting' \in [Procs -> BOOLEAN]
    BY <1>1 DEF Types
  <2>2. /\ dial' \in [Procs -> 0 .. WorldSize]
        /\ peer' \in [Procs -> [Ranks -> Procs \union {None}]]
    BY <1>1, <1>3, <1>4, <1>5 DEF Types
  <2> QED BY <1>1, <2>1, <2>2 DEF Types
<1>9. TableInv'
  BY <1>1, <1>6 DEF TableInv
<1>10. JoinInv'
  <2> SUFFICES ASSUME NEW r \in Procs
      PROVE /\ accepting[r] # "off" => Joined(r)
            /\ pc[r] \in {"mesh", "ready"} => accepting[r] # "off"
            /\ pc[r] \in {"register", "await"} => waiting'[r] = FALSE
            /\ waiting'[r] = TRUE =>
                 accepting[r] # "off" /\ Rank(r) < dial'[r] /\ dial'[r] < WorldSize
            /\ pc[r] = "mesh" => Rank(r) < dial'[r]
            /\ pc[r] = "ready" => dial'[r] = WorldSize /\ accepting[r] = "done"
    BY <1>1, <1>6 DEF JoinInv
  <2>1. CASE r = p
    BY <1>1, <1>5, <1>7, <2>1 DEF JoinInv
  <2>2. CASE r # p
    BY <1>7, <2>2 DEF JoinInv
  <2> QED BY <2>1, <2>2
<1>11. PeerInv'
  <2> SUFFICES ASSUME NEW r \in Procs, NEW k \in Ranks, peer'[r][k] # None
               PROVE  peer'[r][k] = registered[k] /\ accepting[registered[k]] # "off"
    BY <1>1 DEF PeerInv
  <2>1. CASE r = p /\ k = dial[p]
    BY <1>4, <1>7, <2>1
  <2>2. CASE r # p \/ k # dial[p]
    BY <1>7, <2>2 DEF PeerInv
  <2> QED BY <2>1, <2>2
<1>12. LoopInv'
  <2> SUFFICES ASSUME NEW r \in Procs, NEW k \in Ranks
               PROVE  /\ Rank(r) < k /\ k < dial'[r] => peer'[r][k] # None
                      /\ accepting[r] = "done" /\ k < Rank(r) => peer'[r][k] # None
                      /\ k = Rank(r) => peer'[r][k] = None
    BY <1>1, <1>6 DEF LoopInv
  <2>1. k \in Int
    BY ConstantFacts
  <2>2. CASE r = p /\ k = dial[p]
    <3>1. registered[dial[p]] # None /\ k # Rank(r)
      BY <1>3, <1>5, <2>2, ConstantFacts
    <3> QED BY <1>7, <2>2, <3>1
  <2>3. CASE r = p /\ k # dial[p]
    <3>1. k < dial'[r] => k < dial[p]
      BY <1>5, <1>7, <2>1, <2>3
    <3> QED BY <1>7, <2>3, <3>1 DEF LoopInv
  <2>4. CASE r # p
    BY <1>7, <2>4 DEF LoopInv
  <2> QED BY <2>2, <2>3, <2>4
<1>13. BacklogInv'
  <2> SUFFICES ASSUME NEW q \in Procs, NEW b \in backlog[q]
               PROVE  waiting'[b] = TRUE /\ reply[b] = "none" /\ q = Target(dial'[b])
    BY <1>1, <1>6 DEF BacklogInv
  <2>1. waiting[b] = TRUE /\ reply[b] = "none" /\ q = Target(dial[b]) /\ b \in Procs
    BY DEF BacklogInv, Types
  <2>2. b # p
    BY <1>1, <2>1
  <2> QED BY <1>7, <2>1, <2>2
<1>14. ReplyInv'
  <2> SUFFICES ASSUME NEW r \in Procs, waiting'[r] = TRUE, reply[r] = "ready"
               PROVE  /\ Target(dial'[r]) = registered[dial'[r]]
                      /\ accepting[registered[dial'[r]]] # "off"
    BY <1>1, <1>6 DEF ReplyInv
  <2>1. r # p
    BY <1>7
  <2> QED BY <1>7, <2>1 DEF ReplyInv
<1> QED BY <1>8, <1>9, <1>10, <1>11, <1>12, <1>13, <1>14

LEMMA ConnectedKeeps ==
  ASSUME IInv, NEW p \in Procs, Connected(p)
  PROVE  IInv'
<1> USE DEF IInv
<1>1. /\ config' = config /\ server' = server /\ regs' = regs
      /\ registered' = registered /\ told' = told /\ answer' = answer
      /\ listening' = listening /\ accepting' = accepting /\ backlog' = backlog
      /\ dial' = dial /\ waiting' = waiting /\ reply' = reply /\ peer' = peer
      /\ pc[p] = "mesh" /\ dial[p] = WorldSize
      /\ pc' = [pc EXCEPT ![p] = IF accepting[p] = "done" THEN "ready" ELSE "failed"]
  BY DEF Connected, rendezvous, mesh
<1>2. /\ \A r : Rank(r)' = Rank(r) /\ (Joined(r)' <=> Joined(r))
      /\ \A k : Target(k)' = Target(k)
      /\ Full' <=> Full
  BY <1>1, TableStays
<1>3. Types'
  <2>1. pc' \in [Procs -> {"register", "await", "mesh", "ready", "failed"}]
    BY <1>1 DEF Types
  <2> QED BY <1>1, <2>1 DEF Types
<1>4. /\ pc'[p] \in {"ready", "failed"} /\ (pc'[p] = "ready" => accepting[p] = "done")
      /\ \A r \in Procs \ {p} : pc'[r] = pc[r]
  BY <1>1 DEF Types
<1>5. JoinInv'
  BY <1>1, <1>2, <1>4 DEF JoinInv
<1>6. TableInv' /\ LoopInv' /\ BacklogInv' /\ ReplyInv'
  BY <1>1, <1>2 DEF TableInv, LoopInv, BacklogInv, ReplyInv
<1>7. PeerInv'
  BY <1>1, StreamsStay
<1> QED BY <1>3, <1>5, <1>6, <1>7

-----------------------------------------------------------------------------
(* Failures, and the end of the accept thread. *)

LEMMA GiveUpKeeps ==
  ASSUME IInv, NEW p \in Procs, GiveUp(p),
         UNCHANGED <<config, rendezvous, accepting, dial, waiting, peer>>
  PROVE  IInv'
<1> USE DEF IInv
<1>1. /\ config' = config /\ server' = server /\ regs' = regs
      /\ registered' = registered /\ told' = told /\ answer' = answer
      /\ accepting' = accepting /\ dial' = dial /\ waiting' = waiting /\ peer' = peer
  BY DEF rendezvous
<1>2. PICK S \in SUBSET Procs :
        /\ pc' = [pc EXCEPT ![p] = "failed"]
        /\ Close(S)
        /\ reply' = [q \in Procs |-> IF q \in ResetBy(S) THEN "error" ELSE reply[q]]
  <2>1. (IF accepting[p] = "off" THEN {p} ELSE {}) \in SUBSET Procs
    OBVIOUS
  <2> QED BY <2>1 DEF GiveUp
<1>3. /\ listening' \in [Procs -> BOOLEAN]
      /\ backlog' \in [Procs -> SUBSET Procs]
      /\ reply' \in [Procs -> {"none", "ready", "error"}]
      /\ BacklogInv' /\ ReplyInv'
  BY <1>1, <1>2, ListenersClosed
<1>4. /\ \A r : Rank(r)' = Rank(r) /\ (Joined(r)' <=> Joined(r))
      /\ Full' <=> Full
  BY <1>1, TableStays
<1>5. /\ pc' \in [Procs -> {"register", "await", "mesh", "ready", "failed"}]
      /\ pc'[p] = "failed" /\ \A r \in Procs \ {p} : pc'[r] = pc[r]
  BY <1>2 DEF Types
<1>6. Types'
  BY <1>1, <1>3, <1>5 DEF Types
<1>7. TableInv' /\ LoopInv'
  BY <1>1, <1>4 DEF TableInv, LoopInv
<1>8. JoinInv'
  BY <1>1, <1>4, <1>5 DEF JoinInv
<1>9. PeerInv'
  BY <1>1, StreamsStay
<1> QED BY <1>3, <1>6, <1>7, <1>8, <1>9

(* The accept loop that has counted enough connections has one from every  *)
(* lower rank: it counts ranks, and there are no others to count.          *)
LEMMA EnoughIsAll ==
  ASSUME IInv, NEW q \in Procs, Enough(q), NEW k \in Ranks, k < Rank(q)
  PROVE  peer[q][k] # None
<1>1. Rank(q) \in Ranks /\ Rank(q) \in Nat
  BY ConfigFacts, ConstantFacts DEF IInv, Types
<1> DEFINE lower == 0 .. Rank(q) - 1
<1>2. IsFiniteSet(lower) /\ Cardinality(lower) = Rank(q)
  BY <1>1, FS_Interval
<1>3. Incoming(q) \subseteq lower
  BY <1>1, ConstantFacts DEF Incoming
<1>4. IsFiniteSet(Incoming(q)) /\ Cardinality(Incoming(q)) \in Nat
      /\ Cardinality(Incoming(q)) <= Rank(q)
  BY <1>2, <1>3, FS_Subset, FS_CardinalityType
<1>5. Cardinality(Incoming(q)) = Cardinality(lower)
  BY <1>1, <1>2, <1>4 DEF Enough
<1>6. Incoming(q) = lower
  BY <1>2, <1>3, <1>5, FS_Subset
<1>7. k \in lower
  BY <1>1, ConstantFacts
<1> QED BY <1>6, <1>7 DEF Incoming

LEMMA AcceptEndsKeeps ==
  ASSUME IInv, NEW q \in Procs, NEW status \in {"done", "failed"},
         accepting[q] = "on", status = "done" => Enough(q), AcceptEnds(q, status)
  PROVE  IInv'
<1> USE DEF IInv
<1>1. /\ config' = config /\ pc' = pc /\ server' = server /\ regs' = regs
      /\ registered' = registered /\ told' = told /\ answer' = answer
      /\ dial' = dial /\ waiting' = waiting /\ peer' = peer
      /\ accepting' = [accepting EXCEPT ![q] = status]
      /\ Close({q})
      /\ reply' = [p \in Procs |-> IF p \in backlog[q] THEN "error" ELSE reply[p]]
  BY DEF AcceptEnds, rendezvous
<1>2. /\ accepting' \in [Procs -> {"off", "on", "done", "failed"}]
      /\ accepting'[q] = status
      /\ \A r \in Procs \ {q} : accepting'[r] = accepting[r]
      /\ \A r \in Procs : accepting[r] # "off" => accepting'[r] # "off"
  BY <1>1 DEF Types
<1>3. ResetBy({q}) = backlog[q]
  BY DEF ResetBy
<1>4. /\ listening' \in [Procs -> BOOLEAN]
      /\ backlog' \in [Procs -> SUBSET Procs]
      /\ reply' \in [Procs -> {"none", "ready", "error"}]
      /\ BacklogInv' /\ ReplyInv'
  BY <1>1, <1>2, <1>3, ListenersClosed
<1>5. /\ \A r : Rank(r)' = Rank(r) /\ (Joined(r)' <=> Joined(r))
      /\ Full' <=> Full
  BY <1>1, TableStays
<1>6. Types'
  BY <1>1, <1>2, <1>4 DEF Types
<1>7. TableInv'
  BY <1>1, <1>5 DEF TableInv
<1>8. JoinInv'
  <2>1. pc[q] # "ready"
    BY DEF JoinInv
  <2>2. Joined(q)
    BY DEF JoinInv
  <2> QED BY <1>1, <1>2, <1>5, <2>1, <2>2 DEF JoinInv
<1>9. PeerInv'
  BY <1>1, <1>2, StreamsStay
<1>10. LoopInv'
  <2> SUFFICES ASSUME NEW r \in Procs, NEW k \in Ranks
               PROVE  /\ Rank(r) < k /\ k < dial[r] => peer[r][k] # None
                      /\ accepting'[r] = "done" /\ k < Rank(r) => peer[r][k] # None
                      /\ k = Rank(r) => peer[r][k] = None
    BY <1>1, <1>5 DEF LoopInv
  <2>1. CASE r = q
    BY <1>2, <2>1, EnoughIsAll DEF LoopInv
  <2>2. CASE r # q
    BY <1>2, <2>2 DEF LoopInv
  <2> QED BY <2>1, <2>2
<1> QED BY <1>4, <1>6, <1>7, <1>8, <1>9, <1>10

LEMMA CrashKeeps ==
  ASSUME IInv, NEW p \in Procs, Crash(p)
  PROVE  IInv'
<1> USE DEF IInv
<1>1. /\ config' = config /\ registered' = registered /\ told' = told
      /\ dial' = dial /\ waiting' = waiting /\ peer' = peer
      /\ pc' = [pc EXCEPT ![p] = "failed"]
      /\ accepting' = [accepting EXCEPT ![p] = IF @ = "off" THEN "off" ELSE "failed"]
      /\ Close({p})
      /\ reply' = [q \in Procs |-> IF q \in backlog[p] THEN "error" ELSE reply[q]]
      /\ ServerEnds \/ UNCHANGED <<server, regs, answer>>
  BY DEF Crash
<1>2. /\ accepting' \in [Procs -> {"off", "on", "done", "failed"}]
      /\ pc' \in [Procs -> {"register", "await", "mesh", "ready", "failed"}]
      /\ pc'[p] = "failed" /\ accepting'[p] # "done"
      /\ accepting'[p] # "off" => accepting[p] # "off"
      /\ \A r \in Procs \ {p} : pc'[r] = pc[r] /\ accepting'[r] = accepting[r]
      /\ \A r \in Procs : accepting[r] # "off" => accepting'[r] # "off"
  BY <1>1 DEF Types
<1>3. ResetBy({p}) = backlog[p]
  BY DEF ResetBy
<1>4. /\ listening' \in [Procs -> BOOLEAN]
      /\ backlog' \in [Procs -> SUBSET Procs]
      /\ reply' \in [Procs -> {"none", "ready", "error"}]
      /\ BacklogInv' /\ ReplyInv'
  BY <1>1, <1>2, <1>3, ListenersClosed
<1>5. /\ \A r : Rank(r)' = Rank(r) /\ (Joined(r)' <=> Joined(r))
      /\ Full' <=> Full
  BY <1>1, TableStays
<1>6. /\ server' \in {"accept", "answer", "done", "failed"} /\ regs' \subseteq Procs
      /\ answer' \in [Procs -> {"none", "ready", "error"}]
      /\ TableInv'
  <2>1. CASE ServerEnds
    BY <1>1, <2>1, ServerEndsFacts
  <2>2. CASE UNCHANGED <<server, regs, answer>>
    BY <1>1, <1>5, <2>2 DEF TableInv, Types
  <2> QED BY <1>1, <2>1, <2>2
<1>7. Types'
  BY <1>1, <1>2, <1>4, <1>6 DEF Types
<1>8. JoinInv'
  BY <1>1, <1>2, <1>5 DEF JoinInv
<1>9. PeerInv'
  BY <1>1, <1>2, StreamsStay
<1>10. LoopInv'
  BY <1>1, <1>2, <1>5 DEF LoopInv
<1> QED BY <1>4, <1>6, <1>7, <1>8, <1>9, <1>10

-----------------------------------------------------------------------------
LEMMA InitIInv == Init => IInv
<1> SUFFICES ASSUME Init
             PROVE  IInv
  OBVIOUS
<1>1. Types
  <2>1. listening \in [Procs -> BOOLEAN] /\ waiting \in [Procs -> BOOLEAN]
    BY DEF Init
  <2> QED BY <2>1, ConstantFacts DEF Init, Types
<1>2. /\ registered = [k \in Ranks |-> None] /\ server = "accept"
      /\ pc = [p \in Procs |-> "register"] /\ answer = [p \in Procs |-> "none"]
      /\ backlog = [p \in Procs |-> {}] /\ accepting = [p \in Procs |-> "off"]
      /\ dial = [p \in Procs |-> 0] /\ waiting = [p \in Procs |-> FALSE]
      /\ peer = [p \in Procs |-> [k \in Ranks |-> None]]
  BY DEF Init
<1>3. TableInv /\ JoinInv /\ PeerInv /\ BacklogInv /\ ReplyInv
  BY <1>2 DEF TableInv, JoinInv, PeerInv, BacklogInv, ReplyInv
<1>4. LoopInv
  <2> SUFFICES ASSUME NEW p \in Procs, NEW k \in Ranks
               PROVE  ~(Rank(p) < k /\ k < dial[p])
    BY <1>2 DEF LoopInv
  <2>1. Rank(p) \in Ranks
    BY <1>1, ConfigFacts DEF Types
  <2> QED BY <1>2, <2>1, ConstantFacts
<1> QED BY <1>1, <1>3, <1>4 DEF IInv

LEMMA NextIInv == IInv /\ [Next]_vars => IInv'
<1> SUFFICES ASSUME IInv, [Next]_vars
             PROVE  IInv'
  OBVIOUS
<1>1. CASE Server
  <2>1. CASE ServerAnswers
    BY <2>1, ServerAnswersKeeps
  <2>2. CASE ServerDone
    BY <2>2, ServerDoneKeeps
  <2>3. ASSUME NEW p \in Procs, ServerAccepts(p)
        PROVE  IInv'
    BY <2>3, ServerAcceptsKeeps
  <2>4. ASSUME NEW p \in Procs, ServerRejects(p)
        PROVE  IInv'
    BY <2>4, ServerFailureKeeps DEF ServerRejects
  <2> QED BY <1>1, <2>1, <2>2, <2>3, <2>4 DEF Server
<1>2. ASSUME NEW p \in Procs, Connect(p)
      PROVE  IInv'
  <2>1. CASE Register(p)
    BY <2>1, RegisterKeeps
  <2>2. CASE StartMesh(p)
    BY <2>2, StartMeshKeeps
  <2>3. CASE RegistrationFails(p)
    BY <2>3, GiveUpKeeps DEF RegistrationFails
  <2>4. CASE Dial(p)
    BY <2>4, DialKeeps
  <2>5. CASE Dialled(p)
    BY <2>5, DialledKeeps
  <2>6. CASE DialFails(p)
    BY <2>6, GiveUpKeeps DEF DialFails
  <2>7. CASE Connected(p)
    BY <2>7, ConnectedKeeps
  <2> QED BY <1>2, <2>1, <2>2, <2>3, <2>4, <2>5, <2>6, <2>7 DEF Connect
<1>3. ASSUME NEW q \in Procs, AcceptThread(q)
      PROVE  IInv'
  <2>1. CASE AcceptDone(q)
    BY <2>1, AcceptEndsKeeps DEF AcceptDone
  <2>2. ASSUME NEW p \in Procs, Accept(q, p)
        PROVE  IInv'
    BY <2>2, AcceptKeeps
  <2>3. ASSUME NEW p \in Procs, AcceptRejects(q, p)
        PROVE  IInv'
    BY <2>3, AcceptEndsKeeps DEF AcceptRejects
  <2> QED BY <1>3, <2>1, <2>2, <2>3 DEF AcceptThread
<1>4. CASE ServerFails
  BY <1>4, ServerFailureKeeps DEF ServerFails
<1>5. ASSUME NEW p \in Procs, AcceptFails(p)
      PROVE  IInv'
  BY <1>5, AcceptEndsKeeps DEF AcceptFails
<1>6. ASSUME NEW p \in Procs, TimeOut(p)
      PROVE  IInv'
  BY <1>6, GiveUpKeeps DEF TimeOut
<1>7. ASSUME NEW p \in Procs, Crash(p)
      PROVE  IInv'
  BY <1>7, CrashKeeps
<1>8. CASE UNCHANGED vars
  <2>1. /\ UNCHANGED <<config, mesh>> /\ pc' = pc /\ server' = server /\ regs' = regs
        /\ registered' = registered /\ told' = told /\ answer' = answer
    BY <1>8 DEF vars, rendezvous
  <2>2. Types'
    BY <2>1 DEF IInv, Types, mesh
  <2>3. TableInv'
    BY <2>1, TableStays DEF IInv, TableInv
  <2> QED BY <2>1, <2>2, <2>3, RendezvousStep
<1> QED BY <1>1, <1>2, <1>3, <1>4, <1>5, <1>6, <1>7, <1>8 DEF Next, Progress

LEMMA AlwaysIInv == Spec => []IInv
<1> QED BY InitIInv, NextIInv, PTL DEF Spec

-----------------------------------------------------------------------------
(* Every variable keeps its type, and the dialling loop of                 *)
(* establish_full_mesh is always above the rank itself and has made no     *)
(* stream to it.                                                           *)
THEOREM RendezvousTypeOK == Spec => []TypeOK
<1>1. IInv => TypeOK
  BY TypesSuffice DEF IInv
<1> QED BY <1>1, AlwaysIInv, PTL

(* connect returns Ok to nobody unless every rank has registered and has   *)
(* started its mesh, for any world size, any deployment, any crash or      *)
(* timeout: the accept loop has a stream from each lower rank and the      *)
(* dialling loop one to each higher rank, and a stream leads to a process  *)
(* that has the table.                                                     *)
THEOREM NoPartialWorld == Spec => []NoPartialTopology
<1>1. IInv => NoPartialTopology
  <2> SUFFICES ASSUME IInv, NEW p \in Procs, pc[p] = "ready", NEW k \in Ranks
               PROVE  registered[k] # None /\ accepting[registered[k]] # "off"
    BY DEF NoPartialTopology
  <2>1. dial[p] = WorldSize /\ accepting[p] = "done" /\ Full /\ registered[Rank(p)] = p
    BY DEF IInv, JoinInv, Joined
  <2>2. Rank(p) \in Ranks
    BY ConfigFacts DEF IInv, Types
  <2>3. k = Rank(p) \/ k < Rank(p) \/ (Rank(p) < k /\ k < WorldSize)
    BY <2>2, ConstantFacts
  <2>4. CASE k = Rank(p)
    BY <2>1, <2>4 DEF Full
  <2>5. CASE k # Rank(p)
    <3>1. peer[p][k] # None
      BY <2>1, <2>3, <2>5 DEF IInv, LoopInv
    <3> QED BY <2>1, <3>1 DEF IInv, PeerInv, Full
  <2> QED BY <2>4, <2>5
<1> QED BY <1>1, AlwaysIInv, PTL

(* The streams of a process that returned from connect lead to the         *)
(* registered process of each rank, and the other end leads back.          *)
THEOREM StreamsPaired == Spec => []StreamsPairUp
<1>1. ASSUME IInv, NEW p \in Procs, pc[p] = "ready"
      PROVE  /\ registered[Rank(p)] = p /\ Rank(p) \in Ranks
             /\ \A k \in Ranks : registered[k] \in Procs /\ Rank(registered[k]) = k
             /\ \A k \in Ranks \ {Rank(p)} : peer[p][k] = registered[k]
  <2>1. dial[p] = WorldSize /\ accepting[p] = "done" /\ Full /\ registered[Rank(p)] = p
    BY <1>1 DEF IInv, JoinInv, Joined
  <2>2. Rank(p) \in Ranks
    BY <1>1, ConfigFacts DEF IInv, Types
  <2>3. \A k \in Ranks : registered[k] \in Procs /\ Rank(registered[k]) = k
    BY <1>1, <2>1, JoinedFacts DEF IInv, TableInv, Full
  <2>4. ASSUME NEW k \in Ranks \ {Rank(p)}
        PROVE  peer[p][k] = registered[k]
    <3>1. k < Rank(p) \/ (Rank(p) < k /\ k < WorldSize)
      BY <2>2, <2>4, ConstantFacts
    <3>2. peer[p][k] # None
      BY <1>1, <2>1, <2>4, <3>1 DEF IInv, LoopInv
    <3> QED BY <1>1, <2>4, <3>2 DEF IInv, PeerInv
  <2> QED BY <2>1, <2>2, <2>3, <2>4
<1>2. IInv => StreamsPairUp
  <2> SUFFICES ASSUME IInv, NEW p \in Procs, pc[p] = "ready",
                      NEW k \in Ranks \ {Rank(p)}, pc[registered[k]] = "ready"
               PROVE  peer[registered[k]][Rank(p)] = p
    BY <1>1 DEF StreamsPairUp, Peers
  <2>1. registered[k] \in Procs /\ Rank(registered[k]) = k /\ Rank(p) \in Ranks \ {k}
    BY <1>1
  <2>2. peer[registered[k]][Rank(p)] = registered[Rank(p)]
    BY <1>1, <2>1
  <2> QED BY <1>1, <2>2
<1> QED BY <1>2, AlwaysIInv, PTL

-----------------------------------------------------------------------------
(* Nobody waits on each other.  The server knows every process that waits  *)
(* for it (ServerInv).  A listener is open until its accept thread ends,   *)
(* and a process that waits for a response is in its queue (ListenInv).    *)
(* The two ends of a stream are made by one handshake: the accepting end   *)
(* first, and none without a dial (StreamInv).                             *)

ServerInv ==
  /\ server = "accept" => ~Full /\ told = 0
  /\ \A p \in Procs : p \in regs \/ Member(p) => pc[p] # "register"
  /\ \A p \in regs : ~Member(p)
  /\ server \in {"accept", "answer"} => \A p \in Procs : pc[p] = "await" => p \in regs \/ Member(p)
  /\ server \in {"answer", "done"} => \A k \in Ranks : k < told => answer[registered[k]] = "ready"
  /\ server = "done" => \A p \in Procs : pc[p] = "await" => answer[p] # "none"

ListenInv ==
  \A p \in Procs :
    /\ pc[p] \in {"register", "await"} => accepting[p] = "off"
    /\ accepting[p] = "on" => listening[p] = TRUE
    /\ accepting[p] = "off" /\ pc[p] # "failed" => listening[p] = TRUE
    /\ accepting[p] \in {"done", "failed"} => listening[p] = FALSE
    /\ backlog[p] # {} => listening[p] = TRUE
    /\ waiting[p] = TRUE /\ reply[p] = "none" => p \in backlog[Target(dial[p])]

StreamInv ==
  \A p \in Procs, k \in Ranks :
    /\ k < Rank(p) /\ peer[p][k] # None =>
         \/ Rank(p) < dial[registered[k]]
         \/ /\ dial[registered[k]] = Rank(p)
            /\ waiting[registered[k]] = TRUE /\ reply[registered[k]] = "ready"
    /\ Rank(p) < k /\ k < dial[p] => peer[registered[k]][Rank(p)] # None
    /\ k = dial[p] /\ waiting[p] = TRUE /\ reply[p] = "ready" => peer[registered[k]][Rank(p)] # None

WaitInv == ServerInv /\ ListenInv /\ StreamInv

LEMMA InitWaitInv == Init => WaitInv
<1> SUFFICES ASSUME Init
             PROVE  WaitInv
  OBVIOUS
<1>1. IInv
  BY InitIInv
<1>2. /\ registered = [k \in Ranks |-> None] /\ server = "accept" /\ regs = {}
      /\ pc = [p \in Procs |-> "register"] /\ answer = [p \in Procs |-> "none"]
      /\ backlog = [p \in Procs |-> {}] /\ accepting = [p \in Procs |-> "off"]
      /\ dial = [p \in Procs |-> 0] /\ waiting = [p \in Procs |-> FALSE]
      /\ listening = [p \in Procs |-> TRUE]
      /\ peer = [p \in Procs |-> [k \in Ranks |-> None]]
      /\ told = 0
  BY DEF Init
<1>3. 0 \in Ranks
  BY ConstantFacts
<1>4. ServerInv
  <2>1. \A p \in Procs : ~Member(p)
    BY <1>2, ConstantFacts DEF Member
  <2> QED BY <1>2, <1>3, <2>1 DEF ServerInv, Full
<1>5. ListenInv
  BY <1>2 DEF ListenInv
<1>6. StreamInv
  <2> SUFFICES ASSUME NEW p \in Procs, NEW k \in Ranks
               PROVE  ~(Rank(p) < k /\ k < dial[p]) /\ peer[p][k] = None /\ waiting[p] = FALSE
    BY DEF StreamInv
  <2>1. Rank(p) \in Ranks
    BY <1>1, ConfigFacts DEF IInv, Types
  <2> QED BY <1>2, <2>1, ConstantFacts
<1> QED BY <1>4, <1>5, <1>6 DEF WaitInv

-----------------------------------------------------------------------------
(* The server. *)

(* The mesh does not concern the server. *)
LEMMA ServerUntouched ==
  ASSUME ServerInv, UNCHANGED rendezvous,
         \A p \in Procs : pc'[p] = pc[p] \/ pc'[p] \notin {"register", "await"}
  PROVE  ServerInv'
<1>1. /\ server' = server /\ regs' = regs /\ registered' = registered /\ told' = told
      /\ answer' = answer
  BY DEF rendezvous
<1>2. (Full' <=> Full) /\ \A p : Member(p)' <=> Member(p)
  BY <1>1 DEF Full, Member
<1> QED BY <1>1, <1>2 DEF ServerInv

(* When it has ended with an error it owes nothing to anybody. *)
LEMMA ServerFailed ==
  ASSUME ServerInv, server' = "failed", regs' = {}, registered' = registered,
         \A p \in Procs : pc'[p] = pc[p] \/ pc'[p] \notin {"register", "await"}
  PROVE  ServerInv'
<1>1. \A p : Member(p)' <=> Member(p)
  BY DEF Member
<1> QED BY <1>1 DEF ServerInv

LEMMA ServerInvStep ==
  ASSUME IInv, IInv', ServerInv, [Next]_vars
  PROVE  ServerInv'
<1>1. ASSUME NEW p \in Procs, Register(p)
      PROVE  ServerInv'
  <2>1. /\ server' = server /\ registered' = registered /\ told' = told /\ answer' = answer
        /\ pc[p] = "register" /\ pc' = [pc EXCEPT ![p] = "await"] /\ regs' = regs \union {p}
        /\ server \in {"accept", "answer"}
    BY <1>1 DEF Register
  <2>2. pc'[p] = "await" /\ \A q \in Procs \ {p} : pc'[q] = pc[q]
    BY <2>1 DEF IInv, Types
  <2>3. ~Member(p) /\ (Full' <=> Full) /\ \A q : Member(q)' <=> Member(q)
    BY <2>1 DEF ServerInv, Full, Member
  <2>4. \A q \in Procs : q \in regs' \/ Member(q)' => pc'[q] # "register"
    BY <2>1, <2>2, <2>3 DEF ServerInv
  <2>5. \A q \in regs' : ~Member(q)'
    BY <2>1, <2>3 DEF ServerInv
  <2>6. \A q \in Procs : pc'[q] = "await" => q \in regs' \/ Member(q)'
    BY <2>1, <2>2, <2>3 DEF ServerInv
  <2> QED BY <2>1, <2>3, <2>4, <2>5, <2>6 DEF ServerInv
<1>2. ASSUME NEW p \in Procs, ServerAccepts(p)
      PROVE  ServerInv'
  <2>1. /\ pc' = pc /\ told' = told /\ answer' = answer
        /\ server = "accept" /\ p \in regs /\ regs' = regs \ {p}
        /\ registered' = [registered EXCEPT ![Rank(p)] = p] /\ registered[Rank(p)] = None
        /\ server' = IF \A k \in Ranks : registered'[k] # None THEN "answer" ELSE "accept"
    BY <1>2 DEF ServerAccepts, Valid
  <2>2. Rank(p) \in Ranks /\ registered \in [Ranks -> Procs \union {None}] /\ told \in Int
    BY ConfigFacts, ConstantFacts DEF IInv, Types
  <2>3. \A q \in Procs : Member(q)' <=> Member(q) \/ q = p
    <3>1. ASSUME NEW q \in Procs, Member(q)'
          PROVE  Member(q) \/ q = p
      <4>1. PICK k \in Ranks : q = registered'[k]
        BY <3>1 DEF Member
      <4> QED BY <2>1, <2>2, <4>1 DEF Member
    <3>2. ASSUME NEW q \in Procs, Member(q)
          PROVE  Member(q)'
      <4>1. PICK k \in Ranks : q = registered[k]
        BY <3>2 DEF Member
      <4>2. k # Rank(p)
        BY <2>1, <4>1, ConstantFacts
      <4>3. registered'[k] = q
        BY <2>1, <2>2, <4>1, <4>2
      <4> QED BY <4>3 DEF Member
    <3>3. Member(p)'
      <4>1. registered'[Rank(p)] = p
        BY <2>1, <2>2
      <4> QED BY <2>2, <4>1 DEF Member
    <3> QED BY <3>1, <3>2, <3>3
  <2>4. server' = "accept" => ~Full' /\ told' = 0
    BY <2>1 DEF Full, ServerInv
  <2>5. \A q \in Procs : q \in regs' \/ Member(q)' => pc'[q] # "register"
    BY <2>1, <2>3 DEF ServerInv
  <2>6. \A q \in regs' : ~Member(q)'
    BY <2>1, <2>3 DEF ServerInv, IInv, Types
  <2>7. \A q \in Procs : pc'[q] = "await" => q \in regs' \/ Member(q)'
    BY <2>1, <2>3 DEF ServerInv
  <2>8. ~Full /\ \A k \in Ranks : ~(k < told)
    <3>1. ~Full
      BY <2>1 DEF ServerInv
    <3>2. told = 0
      BY <2>1 DEF ServerInv
    <3> QED BY <3>1, <3>2, ConstantFacts
  <2>9. server' # "done"
    BY <2>1
  <2> QED BY <2>1, <2>4, <2>5, <2>6, <2>7, <2>8, <2>9 DEF ServerInv
<1>3. CASE ServerAnswers
  <2>1. /\ UNCHANGED <<pc, server, regs, registered>> /\ server = "answer" /\ told < WorldSize
        /\ told' = told + 1 /\ answer' = [answer EXCEPT ![registered[told]] = "ready"]
    BY <1>3 DEF ServerAnswers
  <2>2. told \in Ranks /\ told \in Int /\ Full
    BY <2>1, ConstantFacts DEF IInv, Types, TableInv
  <2>3. \A k \in Ranks : registered[k] \in Procs
    BY <2>2, JoinedFacts DEF IInv
  <2>4. \A q : Member(q)' <=> Member(q)
    BY <2>1 DEF Member
  <2>5. ASSUME NEW k \in Ranks, k < told'
        PROVE  answer'[registered[k]] = "ready"
    <3>1. k = told \/ k < told
      BY <2>1, <2>2, <2>5, ConstantFacts
    <3>2. answer[registered[k]] = "ready" \/ registered[k] = registered[told]
      BY <2>1, <3>1 DEF ServerInv
    <3> QED BY <2>1, <2>3, <3>2 DEF IInv, Types
  <2> QED BY <2>1, <2>4, <2>5 DEF ServerInv
<1>4. CASE ServerDone
  <2>1. /\ UNCHANGED <<pc, registered, told>> /\ server = "answer" /\ told = WorldSize
        /\ server' = "done" /\ regs' = {}
        /\ answer' = [p \in Procs |-> IF p \in regs THEN "error" ELSE answer[p]]
    BY <1>4 DEF ServerDone
  <2>2. \A q : Member(q)' <=> Member(q)
    BY <2>1 DEF Member
  <2>3. Full
    BY <2>1 DEF IInv, TableInv
  <2>4. ASSUME NEW k \in Ranks
        PROVE  answer'[registered[k]] = "ready"
    <3>1. k < told
      BY <2>1, ConstantFacts
    <3>2. answer[registered[k]] = "ready"
      BY <2>1, <3>1 DEF ServerInv
    <3>3. registered[k] \in Procs /\ registered[k] \notin regs
      BY <2>3, JoinedFacts DEF IInv, ServerInv, Member
    <3> QED BY <2>1, <3>2, <3>3
  <2>5. ASSUME NEW p \in Procs, pc[p] = "await"
        PROVE  answer'[p] # "none"
    <3>1. CASE p \in regs
      BY <2>1, <3>1
    <3>2. CASE Member(p)
      BY <2>4, <3>2 DEF Member
    <3> QED BY <2>1, <2>5, <3>1, <3>2 DEF ServerInv
  <2> QED BY <2>1, <2>2, <2>4, <2>5 DEF ServerInv
<1>5. ASSUME NEW p \in Procs, Crash(p)
      PROVE  ServerInv'
  <2>1. \A q \in Procs : pc'[q] = pc[q] \/ pc'[q] \notin {"register", "await"}
    BY <1>5 DEF Crash, IInv, Types
  <2>2. CASE ServerEnds
    BY <1>5, <2>1, <2>2, ServerFailed DEF Crash, ServerEnds
  <2>3. CASE UNCHANGED <<server, regs, answer>>
    BY <1>5, <2>1, <2>3, ServerUntouched DEF Crash, rendezvous
  <2> QED BY <1>5, <2>2, <2>3 DEF Crash
<1>6. ASSUME ServerEnds, UNCHANGED <<pc, registered>>
      PROVE  ServerInv'
  BY <1>6, ServerFailed DEF ServerEnds
<1>7. ASSUME NEW p \in Procs, GiveUp(p), UNCHANGED rendezvous
      PROVE  ServerInv'
  <2>1. \A q \in Procs : pc'[q] = pc[q] \/ pc'[q] \notin {"register", "await"}
    BY <1>7 DEF GiveUp, IInv, Types
  <2> QED BY <1>7, <2>1, ServerUntouched
<1>8. ASSUME UNCHANGED <<pc, rendezvous>>
      PROVE  ServerInv'
  BY <1>8, ServerUntouched
<1>9. ASSUME NEW p \in Procs, StartMesh(p) \/ Connected(p)
      PROVE  ServerInv'
  <2>1. \A q \in Procs : pc'[q] = pc[q] \/ pc'[q] \notin {"register", "await"}
    BY <1>9 DEF StartMesh, Connected, IInv, Types
  <2> QED BY <1>9, <2>1, ServerUntouched DEF StartMesh, Connected
<1>10. CASE Server
  BY <1>10, <1>2, <1>3, <1>4, <1>6 DEF Server, ServerRejects
<1>11. ASSUME NEW p \in Procs, Connect(p)
       PROVE  ServerInv'
  BY <1>11, <1>1, <1>7, <1>8, <1>9 DEF Connect, RegistrationFails, DialFails, Dial, Dialled
<1>12. ASSUME NEW p \in Procs, AcceptThread(p) \/ AcceptFails(p)
       PROVE  ServerInv'
  BY <1>12, <1>8 DEF AcceptThread, AcceptFails, AcceptDone, Accept, AcceptRejects, AcceptEnds
<1> QED BY <1>5, <1>6, <1>7, <1>8, <1>10, <1>11, <1>12
        DEF Next, Progress, ServerFails, TimeOut, vars

-----------------------------------------------------------------------------
(* The mesh. *)

(* A stream, or a wait for a response, is there with the full table only. *)
LEMMA MeshHasTable ==
  ASSUME IInv, NEW p \in Procs, NEW k \in Ranks
  PROVE  /\ waiting[p] = TRUE => Full
         /\ peer[p][k] # None => Full /\ registered[k] \in Procs
         /\ Rank(p) < k /\ k < dial[p] => Full /\ registered[k] \in Procs
<1>1. waiting[p] = TRUE => Full
  BY DEF IInv, JoinInv, Joined
<1>2. ASSUME peer[p][k] # None
      PROVE  Full /\ registered[k] \in Procs
  <2>1. peer[p][k] = registered[k] /\ accepting[registered[k]] # "off"
    BY <1>2 DEF IInv, PeerInv
  <2>2. registered[k] \in Procs
    BY <1>2, <2>1 DEF IInv, Types
  <2> QED BY <2>1, <2>2 DEF IInv, JoinInv, Joined
<1>3. Rank(p) < k /\ k < dial[p] => peer[p][k] # None
  BY DEF IInv, LoopInv
<1> QED BY <1>1, <1>2, <1>3

(* Who has no part in the step: the mesh is left alone, and so is a table  *)
(* that is full.                                                           *)
LEMMA MeshUntouched ==
  ASSUME IInv, ListenInv, StreamInv, UNCHANGED <<config, mesh>>,
         Full => registered' = registered,
         \A p \in Procs : \/ pc'[p] = pc[p]
                          \/ pc[p] = "register" /\ pc'[p] = "await"
                          \/ pc[p] = "mesh" /\ pc'[p] \in {"ready", "failed"}
  PROVE  ListenInv' /\ StreamInv'
<1>1. /\ config' = config /\ listening' = listening /\ backlog' = backlog
      /\ accepting' = accepting /\ dial' = dial /\ waiting' = waiting /\ reply' = reply
      /\ peer' = peer
  BY DEF mesh
<1>2. \A p : Rank(p)' = Rank(p)
  BY <1>1 DEF Rank
<1>3. ListenInv'
  <2> SUFFICES ASSUME NEW p \in Procs
               PROVE  /\ pc'[p] \in {"register", "await"} => accepting[p] = "off"
                      /\ accepting[p] = "off" /\ pc'[p] # "failed" => listening[p] = TRUE
                      /\ waiting[p] = TRUE /\ reply[p] = "none" => p \in backlog[Target(dial[p])']
    BY <1>1 DEF ListenInv, Target
  <2>1. waiting[p] = TRUE => Target(dial[p])' = Target(dial[p])
    <3>1. waiting[p] = TRUE => Full
      BY DEF IInv, JoinInv, Joined
    <3> QED BY <1>1, <3>1 DEF Target
  <2> QED BY <2>1 DEF ListenInv
<1>4. StreamInv'
  <2> SUFFICES ASSUME NEW p \in Procs, NEW k \in Ranks
               PROVE  /\ k < Rank(p) /\ peer[p][k] # None =>
                           \/ Rank(p) < dial[registered'[k]]
                           \/ /\ dial[registered'[k]] = Rank(p)
                              /\ waiting[registered'[k]] = TRUE /\ reply[registered'[k]] = "ready"
                      /\ Rank(p) < k /\ k < dial[p] => peer[registered'[k]][Rank(p)] # None
                      /\ k = dial[p] /\ waiting[p] = TRUE /\ reply[p] = "ready" =>
                           peer[registered'[k]][Rank(p)] # None
    BY <1>1, <1>2 DEF StreamInv
  <2>1. \/ registered' = registered
        \/ /\ ~(peer[p][k] # None) /\ ~(Rank(p) < k /\ k < dial[p]) /\ ~(waiting[p] = TRUE)
    BY MeshHasTable
  <2> QED BY <2>1 DEF StreamInv
<1> QED BY <1>3, <1>4

LEMMA StartMeshWaits ==
  ASSUME IInv, ListenInv, StreamInv, NEW p \in Procs, StartMesh(p)
  PROVE  ListenInv' /\ StreamInv'
<1>1. /\ config' = config /\ registered' = registered
      /\ listening' = listening /\ backlog' = backlog /\ waiting' = waiting
      /\ reply' = reply /\ peer' = peer
      /\ pc[p] = "await"
      /\ pc' = [pc EXCEPT ![p] = "mesh"]
      /\ accepting' = [accepting EXCEPT ![p] = "on"]
      /\ dial' = [dial EXCEPT ![p] = Rank(p) + 1]
  BY DEF StartMesh, FirstDial, rendezvous
<1>2. accepting[p] = "off" /\ waiting[p] = FALSE
  BY <1>1 DEF ListenInv, IInv, JoinInv
<1>3. /\ pc'[p] = "mesh" /\ accepting'[p] = "on" /\ dial'[p] = Rank(p) + 1
      /\ \A q \in Procs \ {p} : pc'[q] = pc[q] /\ accepting'[q] = accepting[q] /\ dial'[q] = dial[q]
  BY <1>1 DEF IInv, Types
<1>4. (\A q : Rank(q)' = Rank(q)) /\ (\A k : Target(k)' = Target(k))
  BY <1>1, TableStays
<1>5. ListenInv'
  <2> SUFFICES ASSUME NEW q \in Procs
               PROVE  /\ pc'[q] \in {"register", "await"} => accepting'[q] = "off"
                      /\ accepting'[q] = "on" => listening[q] = TRUE
                      /\ accepting'[q] = "off" /\ pc'[q] # "failed" => listening[q] = TRUE
                      /\ accepting'[q] \in {"done", "failed"} => listening[q] = FALSE
                      /\ waiting[q] = TRUE /\ reply[q] = "none" => q \in backlog[Target(dial'[q])]
    BY <1>1, <1>4 DEF ListenInv
  <2>1. CASE q = p
    BY <1>1, <1>2, <1>3, <2>1 DEF ListenInv
  <2>2. CASE q # p
    BY <1>3, <2>2 DEF ListenInv
  <2> QED BY <2>1, <2>2
<1>6. StreamInv'
  <2> SUFFICES ASSUME NEW q \in Procs, NEW k \in Ranks
               PROVE  /\ k < Rank(q) /\ peer[q][k] # None =>
                           \/ Rank(q) < dial'[registered[k]]
                           \/ /\ dial'[registered[k]] = Rank(q)
                              /\ waiting[registered[k]] = TRUE /\ reply[registered[k]] = "ready"
                      /\ Rank(q) < k /\ k < dial'[q] => peer[registered[k]][Rank(q)] # None
                      /\ k = dial'[q] /\ waiting[q] = TRUE /\ reply[q] = "ready" =>
                           peer[registered[k]][Rank(q)] # None
    BY <1>1, <1>4 DEF StreamInv
  <2>1. k \in Int /\ Rank(q) \in Int
    BY ConfigFacts, ConstantFacts DEF IInv, Types
  <2>2. peer[q][k] # None => registered[k] \in Procs \ {p}
    BY <1>2, MeshHasTable DEF IInv, PeerInv
  <2>3. k < Rank(q) /\ peer[q][k] # None =>
          \/ Rank(q) < dial'[registered[k]]
          \/ /\ dial'[registered[k]] = Rank(q)
             /\ waiting[registered[k]] = TRUE /\ reply[registered[k]] = "ready"
    BY <1>3, <2>2 DEF StreamInv
  <2>4. Rank(q) < k /\ k < dial'[q] => q # p
    BY <1>3, <2>1
  <2> QED BY <1>2, <1>3, <2>3, <2>4 DEF StreamInv
<1> QED BY <1>5, <1>6

LEMMA DialWaits ==
  ASSUME IInv, ListenInv, StreamInv, NEW p \in Procs, Dial(p)
  PROVE  ListenInv' /\ StreamInv'
<1>1. /\ config' = config /\ pc' = pc /\ registered' = registered
      /\ listening' = listening /\ accepting' = accepting /\ dial' = dial /\ peer' = peer
      /\ pc[p] = "mesh" /\ ~waiting[p] /\ dial[p] < WorldSize /\ listening[Target(dial[p])]
      /\ backlog' = [backlog EXCEPT ![Target(dial[p])] = @ \union {p}]
      /\ waiting' = [waiting EXCEPT ![p] = TRUE]
      /\ reply' = [reply EXCEPT ![p] = "none"]
  BY DEF Dial, rendezvous
<1>2. Target(dial[p]) \in Procs
  BY <1>1, DialFacts
<1>3. waiting[p] # TRUE
  BY <1>1, Zenon
<1>4. listening[Target(dial[p])] = TRUE
  BY <1>1, <1>2, Zenon DEF IInv, Types
<1>5. /\ waiting'[p] = TRUE /\ reply'[p] = "none"
      /\ \A q \in Procs \ {p} : waiting'[q] = waiting[q] /\ reply'[q] = reply[q]
      /\ \A q \in Procs : backlog[q] \subseteq backlog'[q]
      /\ p \in backlog'[Target(dial[p])]
      /\ \A q \in Procs : q # Target(dial[p]) => backlog'[q] = backlog[q]
  BY <1>1, <1>2 DEF IInv, Types
<1>6. (\A q : Rank(q)' = Rank(q)) /\ (\A k : Target(k)' = Target(k))
  BY <1>1, TableStays
<1>7. ListenInv'
  <2> SUFFICES ASSUME NEW q \in Procs
               PROVE  /\ backlog'[q] # {} => listening[q] = TRUE
                      /\ waiting'[q] = TRUE /\ reply'[q] = "none" => q \in backlog'[Target(dial[q])]
    BY <1>1, <1>6 DEF ListenInv
  <2>1. backlog'[q] # {} => listening[q] = TRUE
    BY <1>4, <1>5 DEF ListenInv
  <2>2. CASE q = p
    BY <1>5, <2>1, <2>2
  <2>3. CASE q # p
    <3> SUFFICES ASSUME waiting[q] = TRUE, reply[q] = "none"
                 PROVE  q \in backlog'[Target(dial[q])]
      BY <1>5, <2>1, <2>3
    <3>1. Target(dial[q]) \in Procs
      BY DialFacts
    <3> QED BY <1>5, <3>1 DEF ListenInv
  <2> QED BY <2>2, <2>3
<1>8. StreamInv'
  <2> SUFFICES ASSUME NEW q \in Procs, NEW k \in Ranks
               PROVE  /\ k < Rank(q) /\ peer[q][k] # None =>
                           \/ Rank(q) < dial[registered[k]]
                           \/ /\ dial[registered[k]] = Rank(q)
                              /\ waiting'[registered[k]] = TRUE /\ reply'[registered[k]] = "ready"
                      /\ k = dial[q] /\ waiting'[q] = TRUE /\ reply'[q] = "ready" =>
                           peer[registered[k]][Rank(q)] # None
    BY <1>1, <1>6 DEF StreamInv
  <2>1. peer[q][k] # None => registered[k] \in Procs
    BY MeshHasTable
  <2>2. CASE peer[q][k] # None /\ registered[k] = p
    BY <1>3, <1>5, <2>2 DEF StreamInv
  <2>3. CASE ~(peer[q][k] # None /\ registered[k] = p)
    BY <1>5, <2>1, <2>3 DEF StreamInv
  <2> QED BY <2>2, <2>3
<1> QED BY <1>7, <1>8

LEMMA AcceptWaits ==
  ASSUME IInv, ListenInv, StreamInv, NEW q \in Procs, NEW p \in Procs, Accept(q, p)
  PROVE  ListenInv' /\ StreamInv'
<1>1. /\ config' = config /\ pc' = pc /\ registered' = registered
      /\ listening' = listening /\ accepting' = accepting /\ dial' = dial /\ waiting' = waiting
      /\ accepting[q] = "on" /\ p \in backlog[q]
      /\ dial[p] = Rank(q) /\ Rank(p) < Rank(q)
      /\ backlog' = [backlog EXCEPT ![q] = @ \ {p}]
      /\ reply' = [reply EXCEPT ![p] = "ready"]
      /\ peer' = [peer EXCEPT ![q][Rank(p)] = p]
  BY DEF Accept, ValidHandshake, rendezvous
<1>2. waiting[p] = TRUE /\ q = Target(dial[p])
  BY <1>1 DEF IInv, BacklogInv
<1>3. registered[Rank(p)] = p /\ Rank(p) \in Ranks
  BY <1>2, DialFacts DEF Joined
<1>4. registered[dial[p]] = q
  BY <1>1 DEF IInv, JoinInv, Joined
<1>5. (\A r : Rank(r)' = Rank(r)) /\ (\A k : Target(k)' = Target(k))
  BY <1>1, TableStays
<1>6. /\ reply'[p] = "ready"
      /\ \A r \in Procs \ {p} : reply'[r] = reply[r]
      /\ peer'[q][Rank(p)] # None
      /\ \A r \in Procs, k \in Ranks :
           r # q \/ k # Rank(p) => peer'[r][k] = peer[r][k]
      /\ \A r \in Procs : \A b \in Procs \ {p} : b \in backlog'[r] <=> b \in backlog[r]
      /\ \A r \in Procs : backlog'[r] \subseteq backlog[r]
  BY <1>1, <1>3, ConstantFacts DEF IInv, Types
<1>7. ListenInv'
  <2> SUFFICES ASSUME NEW r \in Procs
               PROVE  /\ backlog'[r] # {} => listening[r] = TRUE
                      /\ waiting[r] = TRUE /\ reply'[r] = "none" => r \in backlog'[Target(dial[r])]
    BY <1>1, <1>5 DEF ListenInv
  <2>1. backlog'[r] # {} => listening[r] = TRUE
    BY <1>6 DEF ListenInv
  <2>2. ASSUME waiting[r] = TRUE, reply'[r] = "none"
        PROVE  r \in backlog'[Target(dial[r])]
    <3>1. r # p /\ reply[r] = "none"
      BY <1>6, <2>2
    <3>2. Target(dial[r]) \in Procs
      BY <2>2, DialFacts
    <3> QED BY <1>6, <2>2, <3>1, <3>2 DEF ListenInv
  <2> QED BY <2>1, <2>2
<1>8. registered' = registered /\ dial' = dial /\ waiting' = waiting
  BY <1>1
<1>9. StreamInv'
  <2> SUFFICES ASSUME NEW r \in Procs, NEW k \in Ranks
               PROVE  /\ k < Rank(r) /\ peer'[r][k] # None =>
                           \/ Rank(r) < dial[registered[k]]
                           \/ /\ dial[registered[k]] = Rank(r)
                              /\ waiting[registered[k]] = TRUE /\ reply'[registered[k]] = "ready"
                      /\ Rank(r) < k /\ k < dial[r] => peer'[registered[k]][Rank(r)] # None
                      /\ k = dial[r] /\ waiting[r] = TRUE /\ reply'[r] = "ready" =>
                           peer'[registered[k]][Rank(r)] # None
    BY <1>5, <1>8 DEF StreamInv
  <2>1. Rank(r) \in Ranks
    BY ConfigFacts DEF IInv, Types
  <2>2. k < Rank(r) /\ peer'[r][k] # None =>
          \/ Rank(r) < dial[registered[k]]
          \/ /\ dial[registered[k]] = Rank(r)
             /\ waiting[registered[k]] = TRUE /\ reply'[registered[k]] = "ready"
    <3>1. CASE r = q /\ k = Rank(p)
      BY <1>1, <1>2, <1>3, <1>6, <3>1
    <3>2. CASE ~(r = q /\ k = Rank(p)) /\ peer[r][k] # None
      <4>1. registered[k] \in Procs
        BY <3>2, MeshHasTable
      <4> QED BY <1>6, <3>2, <4>1 DEF StreamInv
    <3> QED BY <1>6, <3>1, <3>2
  <2>3. \A s \in Procs, j \in Ranks : peer[s][j] # None => peer'[s][j] # None
    BY <1>6
  <2>4. Rank(r) < k /\ k < dial[r] => peer'[registered[k]][Rank(r)] # None
    BY <2>1, <2>3, MeshHasTable DEF StreamInv
  <2>5. ASSUME k = dial[r], waiting[r] = TRUE, reply'[r] = "ready"
        PROVE  peer'[registered[k]][Rank(r)] # None
    <3>1. CASE r = p
      BY <1>4, <1>6, <2>5, <3>1
    <3>2. CASE r # p
      <4>1. registered[k] \in Procs
        BY <2>5, DialFacts
      <4> QED BY <1>6, <2>1, <2>3, <2>5, <3>2, <4>1 DEF StreamInv
    <3> QED BY <3>1, <3>2
  <2> QED BY <2>2, <2>4, <2>5
<1> QED BY <1>7, <1>9

LEMMA DialledWaits ==
  ASSUME IInv, ListenInv, StreamInv, NEW p \in Procs, Dialled(p)
  PROVE  ListenInv' /\ StreamInv'
<1>1. /\ config' = config /\ pc' = pc /\ registered' = registered
      /\ listening' = listening /\ accepting' = accepting /\ backlog' = backlog /\ reply' = reply
      /\ pc[p] = "mesh" /\ waiting[p] /\ reply[p] = "ready"
      /\ peer' = [peer EXCEPT ![p][dial[p]] = Target(dial[p])]
      /\ dial' = [dial EXCEPT ![p] = @ + 1]
      /\ waiting' = [waiting EXCEPT ![p] = FALSE]
  BY DEF Dialled, rendezvous
<1>2. waiting[p] = TRUE
  BY <1>1 DEF IInv, Types
<1>3. /\ Rank(p) \in Ranks /\ dial[p] \in Ranks /\ Rank(p) < dial[p]
      /\ Target(dial[p]) \in Procs
  BY <1>2, DialFacts
<1>4. (\A r : Rank(r)' = Rank(r)) /\ (\A k : Target(k)' = Target(k))
  BY <1>1, TableStays
<1>5. /\ dial'[p] = dial[p] + 1 /\ waiting'[p] = FALSE
      /\ \A r \in Procs \ {p} : dial'[r] = dial[r] /\ waiting'[r] = waiting[r]
      /\ peer'[p][dial[p]] # None
      /\ \A r \in Procs, k \in Ranks : r # p \/ k # dial[p] => peer'[r][k] = peer[r][k]
  BY <1>1, <1>3, ConstantFacts DEF IInv, Types
<1>6. ListenInv'
  <2> SUFFICES ASSUME NEW r \in Procs, waiting'[r] = TRUE, reply[r] = "none"
               PROVE  r \in backlog[Target(dial'[r])]
    BY <1>1, <1>4 DEF ListenInv
  <2>1. r # p
    BY <1>5
  <2> QED BY <1>5, <2>1 DEF ListenInv
<1>7. registered' = registered /\ reply' = reply
  BY <1>1
<1>8. StreamInv'
  <2> SUFFICES ASSUME NEW r \in Procs, NEW k \in Ranks
               PROVE  /\ k < Rank(r) /\ peer'[r][k] # None =>
                           \/ Rank(r) < dial'[registered[k]]
                           \/ /\ dial'[registered[k]] = Rank(r)
                              /\ waiting'[registered[k]] = TRUE /\ reply[registered[k]] = "ready"
                      /\ Rank(r) < k /\ k < dial'[r] => peer'[registered[k]][Rank(r)] # None
                      /\ k = dial'[r] /\ waiting'[r] = TRUE /\ reply[r] = "ready" =>
                           peer'[registered[k]][Rank(r)] # None
    BY <1>4, <1>7 DEF StreamInv
  <2>1. Rank(r) \in Ranks /\ Rank(r) \in Int /\ k \in Int /\ dial[p] \in Int
    BY <1>3, ConfigFacts, ConstantFacts DEF IInv, Types
  <2>2. ASSUME k < Rank(r), peer'[r][k] # None
        PROVE  \/ Rank(r) < dial'[registered[k]]
               \/ /\ dial'[registered[k]] = Rank(r)
                  /\ waiting'[registered[k]] = TRUE /\ reply[registered[k]] = "ready"
    <3>1. r # p \/ k # dial[p]
      BY <1>3, <2>1, <2>2, ConstantFacts
    <3>2. peer[r][k] # None
      BY <1>5, <2>2, <3>1
    <3>3. registered[k] \in Procs
      BY <3>2, MeshHasTable
    <3>4. \/ Rank(r) < dial[registered[k]]
          \/ /\ dial[registered[k]] = Rank(r)
             /\ waiting[registered[k]] = TRUE /\ reply[registered[k]] = "ready"
      BY <2>2, <3>2 DEF StreamInv
    <3>5. CASE registered[k] = p
      <4>1. Rank(r) < dial[p] \/ dial[p] = Rank(r)
        BY <3>4, <3>5
      <4>2. Rank(r) < dial[p] + 1
        BY <2>1, <4>1
      <4> QED BY <1>5, <3>5, <4>2
    <3>6. CASE registered[k] # p
      BY <1>5, <3>3, <3>4, <3>6
    <3> QED BY <3>5, <3>6
  <2>3. \A s \in Procs, j \in Ranks : peer[s][j] # None => peer'[s][j] # None
    BY <1>5
  <2>4. ASSUME Rank(r) < k, k < dial'[r]
        PROVE  peer'[registered[k]][Rank(r)] # None
    <3>1. CASE k < dial[r]
      <4>1. registered[k] \in Procs /\ peer[registered[k]][Rank(r)] # None
        BY <2>4, <3>1, MeshHasTable DEF StreamInv
      <4> QED BY <2>1, <2>3, <4>1
    <3>2. CASE r = p /\ k = dial[p]
      <4>1. registered[k] \in Procs /\ peer[registered[k]][Rank(r)] # None
        BY <1>1, <1>2, <3>2, DialFacts DEF StreamInv
      <4> QED BY <2>1, <2>3, <4>1
    <3>3. k < dial[r] \/ (r = p /\ k = dial[p])
      <4>1. CASE r = p
        BY <1>5, <2>1, <2>4, <4>1
      <4>2. CASE r # p
        BY <1>5, <2>4, <4>2
      <4> QED BY <4>1, <4>2
    <3> QED BY <3>1, <3>2, <3>3
  <2>5. ASSUME k = dial'[r], waiting'[r] = TRUE, reply[r] = "ready"
        PROVE  peer'[registered[k]][Rank(r)] # None
    <3>1. r # p /\ k = dial[r] /\ waiting[r] = TRUE
      BY <1>5, <2>5
    <3>2. registered[k] \in Procs /\ peer[registered[k]][Rank(r)] # None
      BY <2>5, <3>1, DialFacts DEF StreamInv
    <3> QED BY <2>1, <2>3, <3>2
  <2> QED BY <2>2, <2>4, <2>5
<1> QED BY <1>6, <1>8

(* Listeners are closed by whoever gives up before the mesh and by accept  *)
(* threads that end; connections in their queues have their response.      *)
LEMMA ClosedWaits ==
  ASSUME IInv, ListenInv, StreamInv, NEW S \in SUBSET Procs, Close(S),
         reply' = [q \in Procs |-> IF q \in ResetBy(S) THEN "error" ELSE reply[q]],
         UNCHANGED <<config, registered, dial, waiting, peer>>,
         \A r \in Procs :
           /\ pc'[r] = pc[r] \/ pc'[r] = "failed"
           /\ accepting[r] = "off" <=> accepting'[r] = "off"
           /\ accepting'[r] = "on" => accepting[r] = "on" /\ r \notin S
           /\ accepting'[r] = "off" /\ pc'[r] # "failed" => r \notin S
           /\ accepting'[r] \in {"done", "failed"} => r \in S \/ accepting[r] \in {"done", "failed"}
  PROVE  ListenInv' /\ StreamInv'
<1>1. /\ listening' = [p \in Procs |-> p \notin S /\ listening[p]]
      /\ backlog' = [p \in Procs |-> IF p \in S THEN {} ELSE backlog[p]]
  BY DEF Close
<1>2. \A r \in Procs : /\ r \in S => backlog'[r] = {}
                       /\ r \notin S => backlog'[r] = backlog[r]
  BY <1>1
<1>3. ASSUME NEW r \in Procs
      PROVE  /\ r \in S => listening'[r] = FALSE
             /\ r \notin S => listening'[r] = listening[r]
  <2>1. listening'[r] = (r \notin S /\ listening[r])
    BY <1>1, Zenon
  <2>2. listening[r] = TRUE \/ listening[r] = FALSE
    BY DEF IInv, Types
  <2> QED BY <2>1, <2>2, Zenon
<1>4. (\A r : Rank(r)' = Rank(r)) /\ (\A k : Target(k)' = Target(k))
  BY TableStays
<1>5. \A r \in Procs :
        /\ reply'[r] = "none" => reply[r] = "none" /\ r \notin ResetBy(S)
        /\ waiting[r] = TRUE /\ reply[r] = "ready" <=> waiting[r] = TRUE /\ reply'[r] = "ready"
  <2>1. \A r \in Procs : reply[r] = "ready" => r \notin ResetBy(S)
    BY DEF ResetBy, IInv, BacklogInv
  <2> QED BY <2>1
<1>6. ListenInv'
  <2> SUFFICES ASSUME NEW r \in Procs
               PROVE  /\ pc'[r] \in {"register", "await"} => accepting'[r] = "off"
                      /\ accepting'[r] = "on" => listening'[r] = TRUE
                      /\ accepting'[r] = "off" /\ pc'[r] # "failed" => listening'[r] = TRUE
                      /\ accepting'[r] \in {"done", "failed"} => listening'[r] = FALSE
                      /\ backlog'[r] # {} => listening'[r] = TRUE
                      /\ waiting[r] = TRUE /\ reply'[r] = "none" => r \in backlog'[Target(dial[r])]
    BY <1>4 DEF ListenInv
  <2>1. /\ pc'[r] \in {"register", "await"} => accepting'[r] = "off"
        /\ accepting'[r] = "on" => listening'[r] = TRUE
    BY <1>3 DEF ListenInv
  <2>2. accepting'[r] = "off" /\ pc'[r] # "failed" => listening'[r] = TRUE
    BY <1>3 DEF ListenInv
  <2>3. accepting'[r] \in {"done", "failed"} => listening'[r] = FALSE
    BY <1>3 DEF ListenInv
  <2>4. backlog'[r] # {} => listening'[r] = TRUE
    BY <1>2, <1>3 DEF ListenInv
  <2>5. ASSUME waiting[r] = TRUE, reply'[r] = "none"
        PROVE  r \in backlog'[Target(dial[r])]
    <3>1. Target(dial[r]) \in Procs /\ r \in backlog[Target(dial[r])] /\ r \notin ResetBy(S)
      BY <1>5, <2>5, DialFacts DEF ListenInv
    <3>2. Target(dial[r]) \notin S
      BY <3>1 DEF ResetBy
    <3> QED BY <1>2, <3>1, <3>2
  <2> QED BY <2>1, <2>2, <2>3, <2>4, <2>5
<1>7. registered' = registered /\ dial' = dial /\ waiting' = waiting /\ peer' = peer
  OBVIOUS
<1>8. StreamInv'
  <2> SUFFICES ASSUME NEW r \in Procs, NEW k \in Ranks
               PROVE  (/\ k < Rank(r) /\ peer[r][k] # None =>
                            \/ Rank(r) < dial[registered[k]]
                            \/ /\ dial[registered[k]] = Rank(r)
                               /\ waiting[registered[k]] = TRUE /\ reply[registered[k]] = "ready"
                       /\ Rank(r) < k /\ k < dial[r] => peer[registered[k]][Rank(r)] # None
                       /\ k = dial[r] /\ waiting[r] = TRUE /\ reply[r] = "ready" =>
                            peer[registered[k]][Rank(r)] # None)'
    BY Zenon DEF StreamInv
  <2>1. peer[r][k] # None => registered[k] \in Procs
    BY MeshHasTable
  <2>2. /\ k < Rank(r) /\ peer[r][k] # None =>
             \/ Rank(r) < dial[registered[k]]
             \/ /\ dial[registered[k]] = Rank(r)
                /\ waiting[registered[k]] = TRUE /\ reply'[registered[k]] = "ready"
        /\ Rank(r) < k /\ k < dial[r] => peer[registered[k]][Rank(r)] # None
        /\ k = dial[r] /\ waiting[r] = TRUE /\ reply'[r] = "ready" =>
             peer[registered[k]][Rank(r)] # None
    BY <1>5, <2>1 DEF StreamInv
  <2> QED BY <1>4, <1>7, <2>2
<1> QED BY <1>6, <1>8

LEMMA GiveUpWaits ==
  ASSUME IInv, ListenInv, StreamInv, NEW p \in Procs, GiveUp(p),
         UNCHANGED <<config, rendezvous, accepting, dial, waiting, peer>>
  PROVE  ListenInv' /\ StreamInv'
<1> DEFINE dropped == IF accepting[p] = "off" THEN {p} ELSE {}
<1>1. /\ dropped \in SUBSET Procs /\ Close(dropped)
      /\ reply' = [q \in Procs |-> IF q \in ResetBy(dropped) THEN "error" ELSE reply[q]]
      /\ pc' = [pc EXCEPT ![p] = "failed"]
  BY DEF GiveUp
<1>2. pc'[p] = "failed" /\ \A r \in Procs \ {p} : pc'[r] = pc[r]
  BY <1>1 DEF IInv, Types
<1>3. \A r \in dropped : r = p /\ accepting[r] = "off"
  OBVIOUS
<1>4. registered' = registered /\ accepting' = accepting
  BY DEF rendezvous
<1> HIDE DEF dropped
<1> QED BY <1>1, <1>2, <1>3, <1>4, ClosedWaits

LEMMA AcceptEndsWaits ==
  ASSUME IInv, ListenInv, StreamInv, NEW q \in Procs, NEW status \in {"done", "failed"},
         accepting[q] = "on", AcceptEnds(q, status)
  PROVE  ListenInv' /\ StreamInv'
<1>1. /\ {q} \in SUBSET Procs /\ Close({q}) /\ ResetBy({q}) = backlog[q] /\ pc' = pc
      /\ reply' = [p \in Procs |-> IF p \in backlog[q] THEN "error" ELSE reply[p]]
      /\ accepting' = [accepting EXCEPT ![q] = status]
      /\ UNCHANGED <<config, registered, dial, waiting, peer>>
  BY DEF AcceptEnds, rendezvous, ResetBy
<1>2. accepting'[q] = status /\ \A r \in Procs \ {q} : accepting'[r] = accepting[r]
  BY <1>1 DEF IInv, Types
<1> QED BY <1>1, <1>2, ClosedWaits

LEMMA CrashWaits ==
  ASSUME IInv, ListenInv, StreamInv, NEW p \in Procs, Crash(p)
  PROVE  ListenInv' /\ StreamInv'
<1>1. /\ {p} \in SUBSET Procs /\ Close({p}) /\ ResetBy({p}) = backlog[p]
      /\ reply' = [q \in Procs |-> IF q \in backlog[p] THEN "error" ELSE reply[q]]
      /\ pc' = [pc EXCEPT ![p] = "failed"]
      /\ accepting' = [accepting EXCEPT ![p] = IF @ = "off" THEN "off" ELSE "failed"]
      /\ UNCHANGED <<config, registered, dial, waiting, peer>>
  BY DEF Crash, ResetBy
<1>2. /\ pc'[p] = "failed" /\ accepting'[p] \in {"off", "failed"}
      /\ accepting'[p] = "off" <=> accepting[p] = "off"
      /\ \A r \in Procs \ {p} : pc'[r] = pc[r] /\ accepting'[r] = accepting[r]
  BY <1>1 DEF IInv, Types
<1> QED BY <1>1, <1>2, ClosedWaits

LEMMA MeshInvStep ==
  ASSUME IInv, ListenInv, StreamInv, [Next]_vars
  PROVE  ListenInv' /\ StreamInv'
<1>1. ASSUME UNCHANGED <<config, pc, registered, mesh>>
      PROVE  ListenInv' /\ StreamInv'
  BY <1>1, MeshUntouched
<1>2. ASSUME NEW p \in Procs, Register(p) \/ Connected(p)
      PROVE  ListenInv' /\ StreamInv'
  <2>1. \A q \in Procs : \/ pc'[q] = pc[q]
                         \/ pc[q] = "register" /\ pc'[q] = "await"
                         \/ pc[q] = "mesh" /\ pc'[q] \in {"ready", "failed"}
    BY <1>2 DEF Register, Connected, IInv, Types
  <2>2. UNCHANGED <<config, registered, mesh>>
    BY <1>2 DEF Register, Connected, rendezvous
  <2> QED BY <2>1, <2>2, MeshUntouched
<1>3. ASSUME NEW p \in Procs, ServerAccepts(p)
      PROVE  ListenInv' /\ StreamInv'
  <2>1. ~Full
    BY <1>3, ConfigFacts DEF ServerAccepts, Valid, Full, IInv, Types
  <2> QED BY <1>3, <2>1, MeshUntouched DEF ServerAccepts
<1>4. CASE Server \/ ServerFails
  BY <1>1, <1>3, <1>4
     DEF Server, ServerAnswers, ServerDone, ServerRejects, ServerFails
<1>5. ASSUME NEW p \in Procs, Connect(p) \/ TimeOut(p)
      PROVE  ListenInv' /\ StreamInv'
  BY <1>2, <1>5, StartMeshWaits, DialWaits, DialledWaits, GiveUpWaits
     DEF Connect, RegistrationFails, DialFails, TimeOut
<1>6. ASSUME NEW q \in Procs, AcceptThread(q) \/ AcceptFails(q)
      PROVE  ListenInv' /\ StreamInv'
  BY <1>6, AcceptWaits, AcceptEndsWaits DEF AcceptThread, AcceptDone, AcceptRejects, AcceptFails
<1>7. ASSUME UNCHANGED vars
      PROVE  ListenInv' /\ StreamInv'
  BY <1>1, <1>7 DEF vars, rendezvous
<1> QED BY <1>4, <1>5, <1>6, <1>7, CrashWaits DEF Next, Progress

LEMMA AlwaysWaitInv == Spec => [](IInv /\ WaitInv)
<1>1. Init => IInv /\ WaitInv
  BY InitIInv, InitWaitInv
<1>2. IInv /\ WaitInv /\ [Next]_vars => (IInv /\ WaitInv)'
  BY NextIInv, ServerInvStep, MeshInvStep DEF WaitInv
<1> QED BY <1>1, <1>2, PTL DEF Spec

(* The accept loop has enough connections with one from every lower rank. *)
LEMMA AllIsEnough ==
  ASSUME IInv, NEW q \in Procs, \A k \in Ranks : k < Rank(q) => peer[q][k] # None
  PROVE  Enough(q)
<1>1. Rank(q) \in Ranks /\ Rank(q) \in Nat
  BY ConfigFacts, ConstantFacts DEF IInv, Types
<1>2. Incoming(q) = 0 .. Rank(q) - 1
  BY <1>1, ConstantFacts DEF Incoming
<1>3. Cardinality(0 .. Rank(q) - 1) = Rank(q)
  BY <1>1, FS_Interval
<1> QED BY <1>1, <1>2, <1>3 DEF Enough

(* The threads of establish_full_mesh and the rendezvous server never all  *)
(* wait for each other, for any world size: with the ranks configured as   *)
(* they should be and nothing failed, some thread has what it waits for    *)
(* until connect has returned in every rank.  Whoever waits for a response *)
(* is in the queue of an accept thread that is not done; whoever finds a   *)
(* listener closed would already have been accepted there; and when all    *)
(* have dialled, every accept loop has counted enough.                     *)
THEOREM RendezvousNeverStuck == Spec => []NeverStuck
<1>1. IInv /\ WaitInv => NeverStuck
  <2> SUFFICES ASSUME IInv, WaitInv, Untroubled, ~ServerReady,
                      \A p \in Procs : ~ConnectReady(p) /\ ~AcceptReady(p)
               PROVE  \A p \in Ranks : pc[p] = "ready"
    BY DEF NeverStuck
  <2> USE DEF IInv, WaitInv
  <2>1. \A p \in Ranks : /\ p \in Procs /\ p \in Nat /\ p < WorldSize
                         /\ Rank(p) = p /\ config[p].address = p
                         /\ pc[p] \in {"register", "await", "mesh", "ready"}
                         /\ accepting[p] \in {"off", "on", "done"}
    <3> SUFFICES ASSUME NEW p \in Ranks
                 PROVE  /\ p \in Procs /\ p \in Nat /\ p < WorldSize
                        /\ Rank(p) = p /\ config[p].address = p
                        /\ pc[p] \in {"register", "await", "mesh", "ready"}
                        /\ accepting[p] \in {"off", "on", "done"}
      OBVIOUS
    <3>1. p \in Procs /\ p \in Nat /\ p < WorldSize
      BY ConstantFacts
    <3>2. config[p] = [rank |-> p, run |-> "this", address |-> p]
      BY DEF Untroubled
    <3> QED BY <3>1, <3>2 DEF Untroubled, Types, Rank
  <2>2. \A p \in Procs : Member(p) => p \in Ranks /\ registered[p] = p
    <3> SUFFICES ASSUME NEW p \in Procs, Member(p)
                 PROVE  p \in Ranks /\ registered[p] = p
      OBVIOUS
    <3>1. p \in Ranks
      BY DEF Untroubled
    <3>2. PICK k \in Ranks : p = registered[k]
      BY DEF Member
    <3>3. Rank(p) = k
      BY <3>2, ConstantFacts DEF TableInv
    <3> QED BY <2>1, <3>1, <3>2, <3>3
  <2>3. server = "done"
    <3>1. server # "accept"
      <4> SUFFICES ASSUME server = "accept"
                   PROVE  FALSE
        OBVIOUS
      <4>1. regs = {} /\ ~Full
        BY DEF ServerReady, ServerInv
      <4>2. \A p \in Ranks : registered[p] # None
        <5> SUFFICES ASSUME NEW p \in Ranks
                     PROVE  registered[p] # None
          OBVIOUS
        <5>1. pc[p] = "await"
          <6>1. pc[p] # "register"
            BY <2>1 DEF ConnectReady
          <6>2. pc[p] \notin {"mesh", "ready"}
            BY <2>1, <4>1 DEF JoinInv, Joined
          <6> QED BY <2>1, <6>1, <6>2
        <5>2. Member(p)
          BY <2>1, <4>1, <5>1 DEF ServerInv
        <5> QED BY <2>1, <2>2, <5>2, ConstantFacts
      <4> QED BY <4>1, <4>2 DEF Full
    <3> QED BY <3>1 DEF ServerReady, Untroubled, Types
  <2>4. \A k \in Ranks : registered[k] = k /\ Member(k) /\ Target(k) = k
    <3> SUFFICES ASSUME NEW k \in Ranks
                 PROVE  registered[k] = k /\ Member(k) /\ Target(k) = k
      OBVIOUS
    <3>1. registered[k] \in Procs /\ Rank(registered[k]) = k
      BY <2>3, JoinedFacts DEF TableInv, Full
    <3>2. Member(registered[k])
      BY DEF Member
    <3>3. registered[k] \in Ranks
      BY <2>2, <3>1, <3>2
    <3> QED BY <2>1, <3>1, <3>2, <3>3 DEF Target
  <2>5. \A p \in Ranks : pc[p] \in {"mesh", "ready"} /\ accepting[p] \in {"on", "done"}
    <3> SUFFICES ASSUME NEW p \in Ranks
                 PROVE  pc[p] \in {"mesh", "ready"} /\ accepting[p] \in {"on", "done"}
      OBVIOUS
    <3>1. pc[p] # "register"
      BY <2>1, <2>4 DEF ServerInv
    <3>2. pc[p] # "await"
      BY <2>1, <2>3 DEF ServerInv, ConnectReady
    <3> QED BY <2>1, <3>1, <3>2 DEF JoinInv
  <2>6. \A p \in Ranks : dial[p] = WorldSize
    <3> SUFFICES ASSUME NEW p \in Ranks, dial[p] # WorldSize
                 PROVE  FALSE
      OBVIOUS
    <3>1. pc[p] = "mesh" /\ dial[p] < WorldSize
      BY <2>1, <2>5, ConstantFacts DEF JoinInv, Types
    <3>2. dial[p] \in Ranks /\ p < dial[p] /\ dial[p] \in Nat /\ dial[p] \in Procs
      BY <2>1, <3>1, DialFacts
    <3>3. CASE waiting[p] = TRUE
      <4>1. reply[p] = "none"
        BY <2>1, <3>1, <3>3, Zenon DEF ConnectReady
      <4>2. p \in backlog[dial[p]]
        BY <2>1, <2>4, <3>2, <3>3, <4>1 DEF ListenInv
      <4>3. accepting[dial[p]] = "on"
        BY <2>5, <3>2, <4>2 DEF ListenInv
      <4> QED BY <3>2, <4>2, <4>3 DEF AcceptReady
    <3>4. CASE waiting[p] = FALSE
      <4>1. ~listening[dial[p]]
        <5>1. ~listening[Target(dial[p])]
          BY <2>1, <3>1, <3>4, Zenon DEF ConnectReady
        <5> QED BY <2>4, <3>2, <5>1, Zenon
      <4>2. listening[dial[p]] # TRUE
        BY <4>1, Zenon
      <4>3. accepting[dial[p]] = "done"
        BY <2>5, <3>2, <4>2 DEF ListenInv
      <4>4. peer[dial[p]][p] # None
        BY <2>1, <3>2, <4>3 DEF LoopInv
      <4>5. dial[p] < dial[p] \/ waiting[p] = TRUE
        BY <2>1, <2>4, <3>2, <4>4 DEF StreamInv
      <4> QED BY <3>2, <3>4, <4>5
    <3>5. waiting[p] = TRUE \/ waiting[p] = FALSE
      BY <2>1 DEF Types
    <3> QED BY <3>3, <3>4, <3>5
  <2>7. ASSUME NEW p \in Ranks
        PROVE  pc[p] = "ready"
    <3>1. ASSUME NEW k \in Ranks, k < Rank(p)
          PROVE  peer[p][k] # None
      BY <2>1, <2>4, <2>6, <3>1 DEF StreamInv
    <3>2. Enough(p)
      BY <2>1, <3>1, AllIsEnough
    <3>3. accepting[p] = "done"
      BY <2>1, <2>5, <3>2 DEF AcceptReady
    <3>4. pc[p] # "mesh"
      BY <2>1, <2>6, <3>3 DEF ConnectReady
    <3> QED BY <2>5, <3>4
  <2> QED BY <2>7
<1> QED BY <1>1, AlwaysWaitInv, PTL
=============================================================================
