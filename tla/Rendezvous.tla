----------------------------- MODULE Rendezvous -----------------------------
(***************************************************************************)
(* How TCP ranks find each other (crates/collectives/src/tcp.rs, connect): *)
(* every process binds its peer listener and registers with the server     *)
(* thread of rank 0; the server answers with the table of peers when all   *)
(* ranks have registered; then each rank dials the higher ranks while a    *)
(* thread of its own accepts the lower ones.                               *)
(*                                                                         *)
(* A process has a configuration that the launcher, or a user, gave it:    *)
(* its rank, its run (protocol version, run id and world size), and the    *)
(* address it advertises, which is here the process that listens there.    *)
(* There may be more processes than ranks, and addresses may be wrong.     *)
(* Connections in a listen queue are taken in any order.                   *)
(***************************************************************************)
EXTENDS Ranks, FiniteSets

CONSTANTS
  Procs,    \* processes; the server is a thread of process 0
  Configs   \* the deployments considered

Config == [rank : Ranks, run : {"this", "other"}, address : Procs]

None == -1  \* no process

ASSUME RendezvousAssumption ==
  /\ Ranks \subseteq Procs /\ IsFiniteSet(Procs) /\ None \notin Procs
  /\ Configs \subseteq [Procs -> Config]
  /\ \A c \in Configs : c[0].run = "this" /\ \A p \in Procs : c[p].rank = 0 <=> p = 0

VARIABLES
  config,      \* the deployment
  pc,          \* pc[p]: where p is in connect
  server,      \* the rendezvous server thread
  regs,        \* registrations sent to the server and not yet accepted
  registered,  \* registered[k]: the process registered for rank k, or None
  told,        \* how many clients have been sent the table
  answer,      \* answer[p]: the server's response to p, or its closed stream
  listening,   \* listening[p]: the peer listener of p is open
  backlog,     \* backlog[p]: processes whose connection p has not accepted
  accepting,   \* accepting[p]: the accept thread of p
  dial,        \* dial[p]: the rank that p dials
  waiting,     \* waiting[p]: p has sent a handshake and awaits the response
  reply,       \* reply[p]: the response to the handshake
  peer         \* peer[p][k]: the process that p's stream for rank k leads to

rendezvous == <<server, regs, registered, told, answer>>
mesh == <<listening, backlog, accepting, dial, waiting, reply, peer>>
vars == <<config, pc, rendezvous, mesh>>

Rank(p) == config[p].rank

(* Seeded fault: skip(rank) in place of skip(rank + 1). *)
FirstDialSelf(k) == k

(* The dialling loop skips the rank itself and the lower ones. *)
FirstDial(k) == k + 1

(* config.validate has passed and the listeners are bound. *)
Init ==
  /\ config \in Configs
  /\ pc = [p \in Procs |-> "register"]
  /\ server = "accept"
  /\ regs = {}
  /\ registered = [k \in Ranks |-> None]
  /\ told = 0
  /\ answer = [p \in Procs |-> "none"]
  /\ listening = [p \in Procs |-> TRUE]
  /\ backlog = [p \in Procs |-> {}]
  /\ accepting = [p \in Procs |-> "off"]
  /\ dial = [p \in Procs |-> 0]
  /\ waiting = [p \in Procs |-> FALSE]
  /\ reply = [p \in Procs |-> "none"]
  /\ peer = [p \in Procs |-> [k \in Ranks |-> None]]

-----------------------------------------------------------------------------
(* The rendezvous. *)

Member(p) == p \in {registered[k] : k \in Ranks}

(* register_with_rendezvous, up to the wait for the response. *)
Register(p) ==
  /\ pc[p] = "register"
  /\ server \in {"accept", "answer"}
  /\ pc' = [pc EXCEPT ![p] = "await"]
  /\ regs' = regs \union {p}
  /\ UNCHANGED <<config, server, registered, told, answer, mesh>>

(* The checks of run_rendezvous_server. *)
Valid(p) ==
  /\ config[p].run = "this"
  /\ registered[Rank(p)] = None
  /\ \A q \in Procs : Member(q) => config[q].address # config[p].address

ServerAccepts(p) ==
  /\ server = "accept" /\ p \in regs
  /\ Valid(p)
  /\ regs' = regs \ {p}
  /\ registered' = [registered EXCEPT ![Rank(p)] = p]
  /\ server' = IF \A k \in Ranks : registered'[k] # None THEN "answer" ELSE "accept"
  /\ UNCHANGED <<config, pc, told, answer, mesh>>

(* The server thread ends with an error.  Whoever has no response gets the *)
(* error response or finds the stream closed.                              *)
ServerEnds ==
  /\ server' = "failed"
  /\ regs' = {}
  /\ answer' = [p \in Procs |->
       IF (p \in regs \/ Member(p)) /\ answer[p] = "none" THEN "error" ELSE answer[p]]

(* One registration that is wrong fails the rendezvous for all. *)
ServerRejects(p) ==
  /\ server = "accept" /\ p \in regs
  /\ ~Valid(p)
  /\ ServerEnds
  /\ UNCHANGED <<config, pc, registered, told, mesh>>

(* The deadline passes, a registration cannot be read, or a response       *)
(* cannot be written.                                                      *)
ServerFails ==
  /\ server \in {"accept", "answer"}
  /\ ServerEnds
  /\ UNCHANGED <<config, pc, registered, told, mesh>>

(* The table goes to the clients in rank order. *)
ServerAnswers ==
  /\ server = "answer" /\ told < WorldSize
  /\ answer' = [answer EXCEPT ![registered[told]] = "ready"]
  /\ told' = told + 1
  /\ UNCHANGED <<config, pc, server, regs, registered, mesh>>

(* The listener is dropped; who came too late finds the stream closed. *)
ServerDone ==
  /\ server = "answer" /\ told = WorldSize
  /\ server' = "done"
  /\ regs' = {}
  /\ answer' = [p \in Procs |-> IF p \in regs THEN "error" ELSE answer[p]]
  /\ UNCHANGED <<config, pc, registered, told, mesh>>

-----------------------------------------------------------------------------
(* Listeners. *)

(* The listeners of a set of processes are dropped; connections that were  *)
(* not accepted are reset.                                                 *)
Close(S) ==
  /\ listening' = [p \in Procs |-> p \notin S /\ listening[p]]
  /\ backlog' = [p \in Procs |-> IF p \in S THEN {} ELSE backlog[p]]

ResetBy(S) == UNION {backlog[p] : p \in S}

(* connect returns an error.  Before the mesh the listener goes with it;   *)
(* the accept thread is not joined and goes on with the listener.          *)
GiveUp(p) ==
  LET dropped == IF accepting[p] = "off" THEN {p} ELSE {}
  IN /\ pc' = [pc EXCEPT ![p] = "failed"]
     /\ Close(dropped)
     /\ reply' = [q \in Procs |-> IF q \in ResetBy(dropped) THEN "error" ELSE reply[q]]

(* The table arrives; rank 0 also waits for its server thread. *)
StartMesh(p) ==
  /\ pc[p] = "await" /\ answer[p] = "ready"
  /\ p = 0 => server = "done"
  /\ pc' = [pc EXCEPT ![p] = "mesh"]
  /\ accepting' = [accepting EXCEPT ![p] = "on"]
  /\ dial' = [dial EXCEPT ![p] = FirstDial(Rank(p))]
  /\ UNCHANGED <<config, rendezvous, listening, backlog, waiting, reply, peer>>

RegistrationFails(p) ==
  /\ pc[p] = "await"
  /\ answer[p] = "error" \/ (p = 0 /\ server = "failed")
  /\ GiveUp(p)
  /\ UNCHANGED <<config, rendezvous, accepting, dial, waiting, peer>>

-----------------------------------------------------------------------------
(* The mesh (establish_full_mesh). *)

(* The process that listens at the address of rank k in the table. *)
Target(k) == config[registered[k]].address

Dial(p) ==
  /\ pc[p] = "mesh" /\ ~waiting[p] /\ dial[p] < WorldSize
  /\ listening[Target(dial[p])]
  /\ backlog' = [backlog EXCEPT ![Target(dial[p])] = @ \union {p}]
  /\ waiting' = [waiting EXCEPT ![p] = TRUE]
  /\ reply' = [reply EXCEPT ![p] = "none"]
  /\ UNCHANGED <<config, pc, rendezvous, listening, accepting, dial, peer>>

Incoming(q) == {k \in Ranks : k < Rank(q) /\ peer[q][k] # None}

(* Seeded fault: the destination is not compared. *)
ValidHandshakeAnywhere(p, q) ==
  /\ config[p].run = config[q].run
  /\ Rank(p) < Rank(q)
  /\ peer[q][Rank(p)] = None

(* validate_handshake and the two checks after it. *)
ValidHandshake(p, q) ==
  /\ config[p].run = config[q].run
  /\ dial[p] = Rank(q)
  /\ Rank(p) < Rank(q)
  /\ peer[q][Rank(p)] = None

(* Seeded fault: one connection too few is enough. *)
EnoughEarly(q) == Cardinality(Incoming(q)) + 1 >= Rank(q)

(* Seeded fault: the accept loop waits for one connection too many. *)
EnoughLate(q) == Cardinality(Incoming(q)) > Rank(q)

(* The condition of the accept loop. *)
Enough(q) == Cardinality(Incoming(q)) >= Rank(q)

Accept(q, p) ==
  /\ accepting[q] = "on" /\ ~Enough(q)
  /\ p \in backlog[q]
  /\ ValidHandshake(p, q)
  /\ backlog' = [backlog EXCEPT ![q] = @ \ {p}]
  /\ reply' = [reply EXCEPT ![p] = "ready"]
  /\ peer' = [peer EXCEPT ![q][Rank(p)] = p]
  /\ UNCHANGED <<config, pc, rendezvous, listening, accepting, dial, waiting>>

(* The accept thread ends and drops the listener. *)
AcceptEnds(q, status) ==
  /\ accepting' = [accepting EXCEPT ![q] = status]
  /\ Close({q})
  /\ reply' = [p \in Procs |-> IF p \in backlog[q] THEN "error" ELSE reply[p]]
  /\ UNCHANGED <<config, pc, rendezvous, dial, waiting, peer>>

AcceptDone(q) == accepting[q] = "on" /\ Enough(q) /\ AcceptEnds(q, "done")

AcceptRejects(q, p) ==
  /\ accepting[q] = "on" /\ ~Enough(q)
  /\ p \in backlog[q]
  /\ ~ValidHandshake(p, q)
  /\ AcceptEnds(q, "failed")

(* The deadline passes, or a handshake cannot be read or answered. *)
AcceptFails(q) == accepting[q] = "on" /\ ~Enough(q) /\ AcceptEnds(q, "failed")

Dialled(p) ==
  /\ pc[p] = "mesh" /\ waiting[p] /\ reply[p] = "ready"
  /\ peer' = [peer EXCEPT ![p][dial[p]] = Target(dial[p])]
  /\ dial' = [dial EXCEPT ![p] = @ + 1]
  /\ waiting' = [waiting EXCEPT ![p] = FALSE]
  /\ UNCHANGED <<config, pc, rendezvous, listening, backlog, accepting, reply>>

DialFails(p) ==
  /\ pc[p] = "mesh" /\ waiting[p] /\ reply[p] = "error"
  /\ GiveUp(p)
  /\ UNCHANGED <<config, rendezvous, accepting, dial, waiting, peer>>

(* The accept thread is joined; connect returns. *)
Connected(p) ==
  /\ pc[p] = "mesh" /\ dial[p] = WorldSize
  /\ accepting[p] \in {"done", "failed"}
  /\ pc' = [pc EXCEPT ![p] = IF accepting[p] = "done" THEN "ready" ELSE "failed"]
  /\ UNCHANGED <<config, rendezvous, mesh>>

-----------------------------------------------------------------------------
(* Failures. *)

(* Seeded fault: connect_until retries a refused dial for ever. *)
TimeOutReads(p) ==
  /\ pc[p] \in {"register", "await"} \/ (pc[p] = "mesh" /\ waiting[p])
  /\ GiveUp(p)
  /\ UNCHANGED <<config, rendezvous, accepting, dial, waiting, peer>>

(* The startup deadline passes in a connection attempt or in a read. *)
TimeOut(p) ==
  /\ pc[p] \in {"register", "await"} \/ (pc[p] = "mesh" /\ dial[p] < WorldSize)
  /\ GiveUp(p)
  /\ UNCHANGED <<config, rendezvous, accepting, dial, waiting, peer>>

(* The process ends, with all its threads. *)
Crash(p) ==
  /\ listening[p] \/ pc[p] # "failed"
  /\ pc' = [pc EXCEPT ![p] = "failed"]
  /\ accepting' = [accepting EXCEPT ![p] = IF @ = "off" THEN "off" ELSE "failed"]
  /\ Close({p})
  /\ reply' = [q \in Procs |-> IF q \in backlog[p] THEN "error" ELSE reply[q]]
  /\ IF p = 0 /\ server \in {"accept", "answer"} THEN ServerEnds
                                                 ELSE UNCHANGED <<server, regs, answer>>
  /\ UNCHANGED <<config, registered, told, dial, waiting, peer>>

Server == ServerAnswers \/ ServerDone \/ \E p \in Procs : ServerAccepts(p) \/ ServerRejects(p)

AcceptThread(q) == AcceptDone(q) \/ \E p \in Procs : Accept(q, p) \/ AcceptRejects(q, p)

Connect(p) ==
  \/ Register(p) \/ StartMesh(p) \/ RegistrationFails(p)
  \/ Dial(p) \/ Dialled(p) \/ DialFails(p) \/ Connected(p)

Progress == Server \/ \E p \in Procs : Connect(p) \/ AcceptThread(p)

Next ==
  \/ Progress
  \/ ServerFails
  \/ \E p \in Procs : AcceptFails(p) \/ TimeOut(p) \/ Crash(p)

(* What the threads wait for: the server and the accept threads for a      *)
(* connection, connect for the server, for the response to a registration  *)
(* or a handshake, for the listener of a peer, for its own accept thread.  *)
ServerReady == (server = "accept" /\ regs # {}) \/ server = "answer"

ConnectReady(p) ==
  \/ pc[p] = "register" /\ server \in {"accept", "answer"}
  \/ pc[p] = "await" /\ answer[p] # "none" /\ (p = 0 => server \in {"done", "failed"})
  \/ pc[p] = "mesh" /\ waiting[p] /\ reply[p] # "none"
  \/ pc[p] = "mesh" /\ ~waiting[p] /\ dial[p] < WorldSize /\ listening[Target(dial[p])]
  \/ pc[p] = "mesh" /\ dial[p] = WorldSize /\ accepting[p] \in {"done", "failed"}

AcceptReady(q) == accepting[q] = "on" /\ (Enough(q) \/ backlog[q] # {})

(* A thread that can go on does, and one that waits gives up at the        *)
(* startup deadline.  A thread held up by anything else would never end.   *)
Fairness ==
  /\ WF_vars(Server) /\ WF_vars(~ServerReady /\ ServerFails)
  /\ \A p \in Procs : /\ WF_vars(Connect(p)) /\ WF_vars(~ConnectReady(p) /\ TimeOut(p))
                      /\ WF_vars(AcceptThread(p)) /\ WF_vars(~AcceptReady(p) /\ AcceptFails(p))

Spec == Init /\ [][Next]_vars /\ Fairness

-----------------------------------------------------------------------------
(* Properties. *)

Types ==
  /\ config \in Configs
  /\ pc \in [Procs -> {"register", "await", "mesh", "ready", "failed"}]
  /\ server \in {"accept", "answer", "done", "failed"}
  /\ regs \subseteq Procs
  /\ registered \in [Ranks -> Procs \union {None}]
  /\ told \in 0 .. WorldSize
  /\ answer \in [Procs -> {"none", "ready", "error"}]
  /\ listening \in [Procs -> BOOLEAN]
  /\ backlog \in [Procs -> SUBSET Procs]
  /\ accepting \in [Procs -> {"off", "on", "done", "failed"}]
  /\ dial \in [Procs -> 0 .. WorldSize]
  /\ waiting \in [Procs -> BOOLEAN]
  /\ reply \in [Procs -> {"none", "ready", "error"}]
  /\ peer \in [Procs -> [Ranks -> Procs \union {None}]]

(* Who is in the mesh dials the ranks above its own, and never itself. *)
TypeOK ==
  /\ Types
  /\ \A p \in Procs : pc[p] = "mesh" => dial[p] > Rank(p) /\ peer[p][Rank(p)] = None

(* No partial topology: when connect returns Ok to one process, every rank *)
(* of the world has registered, has been given the table and has joined    *)
(* the mesh.  A rejected, late or dead rank, a server that fails between   *)
(* two responses, or a peer that gives up leaves no rank with a transport  *)
(* to a world that never existed.                                          *)
NoPartialTopology ==
  \A p \in Procs : pc[p] = "ready" =>
    \A k \in Ranks : registered[k] # None /\ accepting[registered[k]] # "off"

(* A stream for rank k leads to the process that is rank k, and the two    *)
(* processes that returned from connect hold the two ends of one stream,   *)
(* also when addresses are exchanged, ranks are given twice or a process   *)
(* of another run is about.                                                *)
StreamsPairUp ==
  \A p \in Procs : pc[p] = "ready" =>
    /\ registered[Rank(p)] = p
    /\ \A k \in Peers(Rank(p)) :
         /\ peer[p][k] = registered[k]
         /\ pc[registered[k]] = "ready" => peer[registered[k]][Rank(p)] = p

(* The ranks are configured as they should be, nobody else is about and   *)
(* nothing has failed.                                                     *)
Untroubled ==
  /\ server # "failed"
  /\ \A p \in Procs \ Ranks : pc[p] = "failed" /\ p \notin regs /\ ~Member(p)
  /\ \A p \in Ranks : /\ config[p] = [rank |-> p, run |-> "this", address |-> p]
                      /\ pc[p] # "failed" /\ accepting[p] # "failed"

(* Ranks do not wait on each other: some thread has what it waits for      *)
(* until all ranks are connected.                                          *)
NeverStuck ==
  Untroubled => \/ \A p \in Ranks : pc[p] = "ready"
                \/ ServerReady \/ \E p \in Procs : ConnectReady(p) \/ AcceptReady(p)

(* connect returns in every process and its threads end, whatever the      *)
(* others do.                                                              *)
EveryConnectReturns ==
  <>[](/\ server \in {"done", "failed"}
       /\ \A p \in Procs : pc[p] \in {"ready", "failed"} /\ accepting[p] # "on")
=============================================================================
