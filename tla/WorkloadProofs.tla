--------------------------- MODULE WorkloadProofs ---------------------------
(***************************************************************************)
(* Proofs about what the ranks run.  Generation in one process, for every  *)
(* vocabulary, prompt, context size and request: the KV cache follows the  *)
(* text, never overflows, and the stop reasons are exact.  The native      *)
(* collectives, for every world size the code admits, every sequence of    *)
(* calls and every room on the links: a call that succeeds returns what    *)
(* the operation promises, and the ranks do not wait on each other.        *)
(*                                                                         *)
(* The argument for the collectives: Held says, in closed form, which      *)
(* contributions the chunks of a rank are the sum of after each step of    *)
(* each script.  A tag determines the call and the step it belongs to, so  *)
(* that whatever a rank receives under the tag it asks for is the frame of *)
(* the matching step of the sender (LinkInv, IncomingInv), however many    *)
(* calls have failed and left frames behind; and two matching steps make   *)
(* of the chunks what Held says (AllWork).                                 *)
(*                                                                         *)
(* That nobody waits for ever rests on an order of the steps of a call in  *)
(* which a step and its partner have the same place (Time, AllMatched) and *)
(* on what the links carry (FlowInv): of the ranks in the slowest call,    *)
(* the one whose step comes first finds its partner already there.         *)
(***************************************************************************)
EXTENDS Generation, Collectives, SharedLemmas, SequenceTheorems, TLAPS

-----------------------------------------------------------------------------
(* Generation. *)

LimitReasons == {"MaxNewTokens", "ContextLimit"}

(* A stopped generation feeds nothing, and it stopped at a limit exactly   *)
(* when it has generated as many tokens as it may.                         *)
LimitInv ==
  /\ stop # "none" => input = <<>>
  /\ stop \in {"none", "Eos"} => Len(generated) < Effective(job)
  /\ stop \in LimitReasons => Len(generated) = Effective(job) /\ stop = LimitReason(job)

GenerationInv == TypeOK /\ ContextFollows /\ LimitInv

-----------------------------------------------------------------------------
(* Sequence facts. *)

LEMMA ConcatFacts ==
  ASSUME NEW S, NEW a \in Seq(S), NEW b \in Seq(S)
  PROVE  /\ a \o b \in Seq(S)
         /\ Len(a \o b) = Len(a) + Len(b)
         /\ a \o <<>> = a
         /\ \A e \in S : a \o Append(b, e) = Append(a \o b, e)
<1>1. a \o b \in Seq(S) /\ Len(a \o b) = Len(a) + Len(b)
  OBVIOUS
<1>2. a \o <<>> = a
  BY ConcatEmptySeq
<1>3. ASSUME NEW e \in S PROVE a \o Append(b, e) = Append(a \o b, e)
  <2> DEFINE x == a \o Append(b, e)
             y == Append(a \o b, e)
  <2>1. x \in Seq(S) /\ Len(x) = Len(a) + Len(b) + 1
    OBVIOUS
  <2>2. y \in Seq(S) /\ Len(y) = Len(a) + Len(b) + 1
    OBVIOUS
  <2>3. \A i \in 1 .. Len(x) : x[i] = y[i]
    OBVIOUS
  <2> QED BY <2>1, <2>2, <2>3, SeqEqual
<1> QED BY <1>1, <1>2, <1>3

LEMMA AppendOne ==
  ASSUME NEW S, NEW a \in Seq(S), NEW e \in S
  PROVE  /\ Append(a, e) = a \o <<e>>
         /\ SubSeq(Append(a, e), 1, Len(Append(a, e)) - 1) = a
<1>1. Append(a, e) = a \o <<e>>
  BY AppendIsConcat
<1> DEFINE b == SubSeq(Append(a, e), 1, Len(Append(a, e)) - 1)
<1>2. b \in Seq(S) /\ Len(b) = Len(a) /\ \A i \in 1 .. Len(b) : b[i] = a[i]
  OBVIOUS
<1>3. b = a
  BY <1>2, SeqEqual
<1> QED BY <1>1, <1>3

(* What is known of a request. *)
LEMMA JobFacts ==
  ASSUME NEW j \in Jobs
  PROVE  /\ j.prompt \in Seq(Vocab) /\ Len(j.prompt) \in Nat \ {0}
         /\ j.requested \in Nat \ {0}
         /\ Effective(j) \in Nat \ {0}
         /\ Effective(j) <= j.requested
         /\ Len(j.prompt) + Effective(j) <= MaxContext
         /\ Effective(j) < j.requested => Len(j.prompt) + Effective(j) = MaxContext
         /\ Capacity(j) = Len(j.prompt) + Effective(j)
<1>1. j.prompt \in Prompts /\ j.requested \in 1 .. MaxRequested /\ j.prompt # <<>>
      /\ Len(j.prompt) < MaxContext
  BY DEF Jobs
<1>2. j.prompt \in Seq(Vocab) /\ Len(j.prompt) \in Nat \ {0}
  BY <1>1, GenerationAssumption
<1> QED BY <1>1, <1>2, GenerationAssumption DEF Effective, Capacity

-----------------------------------------------------------------------------

LEMMA InitGenerationInv == GenerationInit => GenerationInv
<1> SUFFICES ASSUME GenerationInit PROVE GenerationInv
  OBVIOUS
<1>1. job \in Jobs
  BY DEF GenerationInit
<1>2. job.prompt \in Seq(Vocab) /\ Effective(job) \in Nat \ {0}
  BY <1>1, JobFacts
<1>3. TypeOK
  BY <1>1, <1>2 DEF GenerationInit, TypeOK
<1>4. cache \o input = job.prompt /\ job.prompt \o generated = job.prompt
  BY <1>2, ConcatEmptySeq DEF GenerationInit
<1>5. ContextFollows
  BY <1>4 DEF GenerationInit, ContextFollows
<1>6. LimitInv
  BY <1>2 DEF GenerationInit, LimitInv, LimitReasons
<1> QED BY <1>3, <1>5, <1>6 DEF GenerationInv

LEMMA ForwardGenerationInv ==
  ASSUME GenerationInv, Forward
  PROVE  GenerationInv'
<1>1. stop = "none" /\ cache \in Seq(Vocab) /\ input \in Seq(Vocab)
  BY DEF GenerationInv, LimitInv, TypeOK, Forward
<1>2. cache' \in Seq(Vocab) /\ cache' \o <<>> = cache \o input
  BY <1>1, ConcatFacts DEF Forward
<1>3. TypeOK'
  BY <1>2 DEF GenerationInv, TypeOK, Forward
<1>4. ContextFollows'
  BY <1>1, <1>2 DEF GenerationInv, ContextFollows, Forward
<1>5. LimitInv'
  BY <1>1 DEF GenerationInv, LimitInv, Forward
<1> QED BY <1>3, <1>4, <1>5 DEF GenerationInv

LEMMA SelectEosGenerationInv ==
  ASSUME GenerationInv, SelectEos
  PROVE  GenerationInv'
<1>1. TypeOK'
  BY DEF GenerationInv, TypeOK, SelectEos
<1>2. ContextFollows'
  BY DEF GenerationInv, ContextFollows, SelectEos
<1>3. LimitInv'
  BY DEF GenerationInv, LimitInv, LimitReasons, SelectEos
<1> QED BY <1>1, <1>2, <1>3 DEF GenerationInv

LEMMA SelectTokenGenerationInv ==
  ASSUME GenerationInv, NEW t \in Vocab \ {Eos}, SelectToken(t)
  PROVE  GenerationInv'
<1> DEFINE text == job.prompt \o generated
<1>1. /\ job \in Jobs /\ cache \in Seq(Vocab) /\ generated \in Seq(Vocab \ {Eos})
      /\ generated \in Seq(Vocab) /\ job.prompt \in Seq(Vocab)
      /\ stop = "none" /\ input = <<>>
  <2>1. /\ job \in Jobs /\ cache \in Seq(Vocab) /\ generated \in Seq(Vocab \ {Eos})
        /\ stop = "none" /\ input = <<>>
    BY DEF GenerationInv, TypeOK, SelectToken
  <2>2. generated \in Seq(Vocab)
    BY <2>1
  <2>3. job.prompt \in Seq(Vocab)
    BY <2>1, JobFacts
  <2> QED BY <2>1, <2>2, <2>3
<1>2. text \in Seq(Vocab) /\ job.prompt \o Append(generated, t) = Append(text, t)
  <2> DEFINE p == job.prompt
             g == generated
  <2>1. p \in Seq(Vocab) /\ g \in Seq(Vocab) /\ t \in Vocab
    BY <1>1
  <2> HIDE DEF p, g
  <2>2. p \o g \in Seq(Vocab) /\ \A e \in Vocab : p \o Append(g, e) = Append(p \o g, e)
    BY <2>1, ConcatFacts
  <2>3. p \o Append(g, t) = Append(p \o g, t)
    BY <2>1, <2>2
  <2> QED BY <2>2, <2>3 DEF p, g
<1>3. cache \o input = text
  BY <1>1 DEF GenerationInv, ContextFollows
<1>4. cache = text
  BY <1>1, <1>3, ConcatEmptySeq
<1>5. /\ job' = job /\ cache' = cache /\ generated' = Append(generated, t)
  BY DEF SelectToken
<1> HIDE DEF text
<1>6. Len(generated') = Len(generated) + 1 /\ Len(generated) < Effective(job)
      /\ Effective(job) \in Nat /\ Len(generated) \in Nat
      /\ generated' \in Seq(Vocab \ {Eos})
  BY <1>1, <1>5, JobFacts DEF GenerationInv, LimitInv
<1>7. Effective(job)' = Effective(job) /\ LimitReason(job)' = LimitReason(job)
  BY <1>5
<1>8. LimitReason(job) \in LimitReasons
  BY DEF LimitReason, LimitReasons
<1>9. CASE Len(generated') >= Effective(job)
  <2>1. stop' = LimitReason(job) /\ input' = <<>>
    BY <1>1, <1>9 DEF SelectToken
  <2>2. TypeOK'
    BY <1>1, <1>5, <1>6, <1>8, <2>1 DEF TypeOK, LimitReasons
  <2>3. ContextFollows'
    <3>1. (job.prompt \o generated)' = Append(text, t)
      BY <1>2, <1>5 DEF text
    <3>2. SubSeq(Append(text, t), 1, Len(Append(text, t)) - 1) = text
      BY <1>2, AppendOne
    <3> QED BY <1>4, <1>5, <1>8, <2>1, <3>1, <3>2 DEF ContextFollows, LimitReasons
  <2>4. LimitInv'
    BY <1>6, <1>7, <1>8, <1>9, <2>1 DEF LimitInv, LimitReasons
  <2> QED BY <2>2, <2>3, <2>4 DEF GenerationInv
<1>10. CASE ~(Len(generated') >= Effective(job))
  <2>1. input' = <<t>> /\ stop' = "none"
    BY <1>1, <1>10 DEF SelectToken
  <2>2. TypeOK'
    BY <1>1, <1>5, <1>6, <2>1 DEF TypeOK
  <2>3. ContextFollows'
    <3>1. (job.prompt \o generated)' = Append(text, t)
      BY <1>2, <1>5 DEF text
    <3>2. Append(text, t) = text \o <<t>>
      BY <1>2, AppendOne
    <3> QED BY <1>4, <1>5, <2>1, <3>1, <3>2 DEF ContextFollows
  <2>4. LimitInv'
    BY <1>6, <1>7, <1>10, <2>1 DEF LimitInv, LimitReasons
  <2> QED BY <2>2, <2>3, <2>4 DEF GenerationInv
<1> QED BY <1>9, <1>10

LEMMA NextGenerationInv == GenerationInv /\ [GenerationNext]_generationVars => GenerationInv'
<1> SUFFICES ASSUME GenerationInv, [GenerationNext]_generationVars PROVE GenerationInv'
  OBVIOUS
<1>1. CASE UNCHANGED generationVars
  BY <1>1 DEF generationVars, GenerationInv, TypeOK, ContextFollows, LimitInv
<1>2. CASE GenerationNext
  BY <1>2, ForwardGenerationInv, SelectEosGenerationInv, SelectTokenGenerationInv DEF GenerationNext
<1> QED BY <1>1, <1>2

LEMMA AlwaysGenerationInv == Safety => []GenerationInv
BY InitGenerationInv, NextGenerationInv, PTL DEF Safety

-----------------------------------------------------------------------------

(* Type correctness of generate(). *)
THEOREM GenerationTypeCorrect == GenerationSpec => []TypeOK
<1>1. GenerationInv => TypeOK
  BY DEF GenerationInv
<1> QED BY AlwaysGenerationInv, <1>1, PTL DEF GenerationSpec

(* The KV cache of generate() always holds the prompt and the generated    *)
(* tokens in order, without gap or repetition.                             *)
THEOREM CacheFollowsText == GenerationSpec => []ContextFollows
<1>1. GenerationInv => ContextFollows
  BY DEF GenerationInv
<1> QED BY AlwaysGenerationInv, <1>1, PTL DEF GenerationSpec

(* The capacity of generation_memory_preflight is enough for every run:    *)
(* LayerKvCache::append never returns CacheCapacityExceeded.               *)
THEOREM CacheNeverOverflows == GenerationSpec => []WithinCapacity
<1>1. GenerationInv => WithinCapacity
  <2> SUFFICES ASSUME GenerationInv PROVE WithinCapacity
    OBVIOUS
  <2> DEFINE text == job.prompt \o generated
  <2>1. /\ job \in Jobs /\ cache \in Seq(Vocab) /\ input \in Seq(Vocab)
        /\ generated \in Seq(Vocab) /\ job.prompt \in Seq(Vocab)
    BY JobFacts DEF GenerationInv, TypeOK
  <2>2. /\ text \in Seq(Vocab) /\ Len(text) = Len(job.prompt) + Len(generated)
        /\ Len(cache \o input) = Len(cache) + Len(input)
    BY <2>1, ConcatFacts
  <2> HIDE DEF text
  <2>3. /\ Capacity(job) = Len(job.prompt) + Effective(job) /\ Effective(job) \in Nat \ {0}
        /\ Len(job.prompt) \in Nat \ {0}
    BY <2>1, JobFacts
  <2>4. CASE stop \in LimitReasons
    <3>1. cache = SubSeq(text, 1, Len(text) - 1) /\ input = <<>>
      BY <2>4 DEF GenerationInv, ContextFollows, LimitInv, LimitReasons, text
    <3>2. Len(text) = Len(job.prompt) + Effective(job)
      BY <2>2, <2>4 DEF GenerationInv, LimitInv
    <3>3. Len(cache) = Len(text) - 1 /\ Len(input) = 0
      BY <2>2, <2>3, <3>1, <3>2
    <3> QED BY <2>3, <3>2, <3>3 DEF WithinCapacity
  <2>5. CASE stop \notin LimitReasons
    <3>1. cache \o input = text
      BY <2>5 DEF GenerationInv, ContextFollows, LimitReasons, text
    <3>2. Len(generated) < Effective(job) /\ Len(generated) \in Nat
      BY <2>1, <2>5 DEF GenerationInv, LimitInv, LimitReasons, TypeOK
    <3> QED BY <2>2, <2>3, <3>1, <3>2 DEF WithinCapacity
  <2> QED BY <2>4, <2>5
<1> QED BY AlwaysGenerationInv, <1>1, PTL DEF GenerationSpec

(* The reported stop reason is exact at both limits. *)
THEOREM StopReasonsExact == GenerationSpec => []LimitsExact
<1>1. GenerationInv => LimitsExact
  <2> SUFFICES ASSUME GenerationInv PROVE LimitsExact
    OBVIOUS
  <2>1. job \in Jobs /\ Len(generated) \in Nat
    BY DEF GenerationInv, TypeOK
  <2>2. /\ Effective(job) \in Nat \ {0} /\ Effective(job) <= job.requested
        /\ job.requested \in Nat
        /\ Len(job.prompt) + Effective(job) <= MaxContext
        /\ Len(job.prompt) \in Nat
        /\ Effective(job) < job.requested => Len(job.prompt) + Effective(job) = MaxContext
    BY <2>1, JobFacts
  <2>3. stop \in {"none", "Eos"} => /\ Len(generated) < job.requested
                                    /\ Len(job.prompt) + Len(generated) < MaxContext
    BY <2>1, <2>2, GenerationAssumption DEF GenerationInv, LimitInv
  <2>4. stop \in LimitReasons =>
          /\ Len(generated) = Effective(job)
          /\ stop = IF job.requested > Effective(job) THEN "ContextLimit" ELSE "MaxNewTokens"
    BY DEF GenerationInv, LimitInv, LimitReason
  <2> QED BY <2>2, <2>3, <2>4 DEF LimitsExact, LimitReasons
<1> QED BY AlwaysGenerationInv, <1>1, PTL DEF GenerationSpec

-----------------------------------------------------------------------------
(* Collectives: what the chunks hold. *)

AnyCall == [kind : Kinds, root : Ranks]

(* How far r is ahead of q in the ring, and the contributions to chunk x   *)
(* of call c by the ranks in set.                                          *)
Behind(r, q) == Mod(r + WorldSize - q)
From(c, set, x) == {<<c, q, x>> : q \in set}

(* What the chunk with key x of rank r is the sum of when r has done the   *)
(* first p - 1 steps of call c, which is k.                                *)
Held(k, c, r, p, x) ==
  IF x \notin Ranks
    THEN IF k.kind = "AllToAll" /\ Behind(r, x - WorldSize) < p
           THEN From(c, {x - WorldSize}, r) ELSE {}
  ELSE CASE k.kind = "Broadcast" -> From(c, IF p = 1 THEN {r} ELSE {k.root}, x)
         [] k.kind = "Reduce" ->
              From(c, {r} \union (IF r = k.root THEN {PeerAt(r, i) : i \in 1 .. p - 1} ELSE {}), x)
         [] k.kind = "AllGather" ->
              IF (r = 0 /\ x < p) \/ (r # 0 /\ p > 2) THEN From(c, {x}, 0) ELSE From(c, {r}, x)
         [] k.kind = "AllReduceCentralized" ->
              From(c, IF r = 0 THEN {q \in Ranks : q < p} ELSE IF p > 2 THEN Ranks ELSE {r}, x)
         [] k.kind = "ReduceScatter" ->
              IF r = 0 THEN From(c, {q \in Ranks : q < p}, x)
              ELSE IF p > 2 /\ x = 0 THEN From(c, Ranks, r) ELSE From(c, {r}, x)
         [] k.kind = "AllReduceRing" ->
              From(c, IF Behind(r, x) >= p THEN {r}
                      ELSE IF Behind(r, x) < p - WorldSize THEN Ranks
                      ELSE {q \in Ranks : Behind(q, x) <= Behind(r, x)}, x)
         [] k.kind = "AllToAll" -> From(c, {r}, x)

HeldChunks(k, c, r, p) == [x \in Keys |-> SetToBag(Held(k, c, r, p, x))]

Shapes == {"plain", "wide", "long"}

(* The frame of step p of rank s in call c of prog, and all that are ever  *)
(* sent on link l.                                                         *)
FrameOf(prog, s, c, p, shape) ==
  LET step == Script(prog[c], s)[p]
  IN [tag |-> <<c - 1, TagKind(prog[c].kind), step.tag>>, shape |-> shape,
      body |-> [i \in DOMAIN step.out |-> SetToBag(Held(prog[c], c, s, p, step.out[i]))]]
Steps(prog, c, l) ==
  {p \in DOMAIN Script(prog[c], l[1]) : l[2] \in Script(prog[c], l[1])[p].to}
SentOn(prog, l) ==
  UNION {{FrameOf(prog, l[1], c, p, shape) : p \in Steps(prog, c, l), shape \in Shapes} :
           c \in DOMAIN prog}

Values == {<<>>} \union {Expected(k, c, r) : k \in [kind : Kinds, root : Ranks], c \in Nat, r \in Ranks}

(* A rank is in the call that its sequence number says, and its chunks are *)
(* the ones that belong to its step.                                       *)
CallInv(r) ==
  /\ results[r] \in Seq([ok : BOOLEAN, value : Values])
  /\ Len(results[r]) <= Len(program)
  /\ pos[r] \in Nat /\ next[r] \in Nat
  /\ pos[r] > 0 => /\ CallOf(r) <= Len(program) /\ next[r] = CallOf(r)
                   /\ pos[r] \in DOMAIN Script(Call(r), r)
                   /\ work[r] = HeldChunks(Call(r), CallOf(r), r, pos[r])

(* What a step has received is the frame it asked for. *)
IncomingInv(r) ==
  \A f \in incoming[r] :
    pos[r] > 0 /\ f.tag = Tag(r) /\ \E s \in Step(r).from : s # r /\ f \in SentOn(program, <<s, r>>)

LinkInv(l) == unread[l] \in Seq(SentOn(program, l)) /\ pending[l] \subseteq SentOn(program, l)

Domains ==
  /\ program \in Programs
  /\ DOMAIN next = Ranks /\ DOMAIN pos = Ranks /\ DOMAIN work = Ranks
  /\ DOMAIN incoming = Ranks /\ DOMAIN results = Ranks
  /\ DOMAIN unread = Links /\ DOMAIN pending = Links

CallsInv ==
  /\ Domains
  /\ \A r \in Ranks : CallInv(r) /\ IncomingInv(r)
  /\ \A l \in Links : LinkInv(l)
  /\ StaleTrafficIgnored

-----------------------------------------------------------------------------
(* Ranks, the ring and sets of contributions. *)

LEMMA WorldFacts == WorldSize \in Nat /\ WorldSize >= 2 /\ Ranks = 0 .. WorldSize - 1
BY CollectivesAssumption DEF Ranks

LEMMA ModIs ==
  ASSUME NEW n \in 0 .. 3 * WorldSize - 1
  PROVE  Mod(n) = IF n < WorldSize THEN n
                  ELSE IF n < 2 * WorldSize THEN n - WorldSize ELSE n - 2 * WorldSize
<1> DEFINE w == WorldSize
           q == n \div w
           m == n % w
<1>1. n \in Int /\ w \in Int /\ w > 0 /\ n < 3 * w /\ n >= 0
  BY WorldFacts
<1> HIDE DEF w
<1>2. n = w * q + m /\ m \in 0 .. w - 1 /\ q \in Int
  BY <1>1
<1> HIDE DEF q, m
<1>3. q \in {0, 1, 2}
  <2>1. q >= 3 => w * q >= w * 3
    BY <1>1, <1>2
  <2>2. q <= -1 => w * q <= w * (-1)
    BY <1>1, <1>2
  <2> QED
    BY <1>1, <1>2, <2>1, <2>2
<1>4. m = IF n < w THEN n ELSE IF n < 2 * w THEN n - w ELSE n - 2 * w
  BY <1>1, <1>2, <1>3
<1> QED
  BY <1>4 DEF w, m, Mod

(* The distance in the ring, and that it determines the rank. *)
LEMMA BehindIs ==
  ASSUME NEW r \in Ranks, NEW q \in Ranks
  PROVE  /\ Behind(r, q) = IF q <= r THEN r - q ELSE r - q + WorldSize
         /\ Behind(r, q) \in 0 .. WorldSize - 1
<1>1. r + WorldSize - q \in 0 .. 3 * WorldSize - 1
  BY WorldFacts
<1>2. Behind(r, q) = IF q <= r THEN r - q ELSE r - q + WorldSize
  BY <1>1, ModIs, WorldFacts DEF Behind
<1> QED
  BY <1>2, WorldFacts

LEMMA FromUnion ==
  ASSUME NEW c, NEW S, NEW T, NEW x
  PROVE  From(c, S, x) \union From(c, T, x) = From(c, S \union T, x)
BY DEF From

LEMMA FromDisjoint ==
  ASSUME NEW c, NEW S, NEW T, NEW x, S \intersect T = {}
  PROVE  From(c, S, x) \intersect From(c, T, x) = {}
BY DEF From

-----------------------------------------------------------------------------
(* Scripts as functions of the step. *)

(* f has a step for each peer. *)
PerPeer(f) == f = [i \in 1 .. WorldSize - 1 |-> f[i]]

LEMMA EachSteps ==
  ASSUME NEW f, PerPeer(f)
  PROVE  DOMAIN f = 1 .. WorldSize - 1 /\ Len(f) = WorldSize - 1
<1> DEFINE S == {f[i] : i \in 1 .. WorldSize - 1}
<1>1. WorldSize - 1 \in Nat
  BY WorldFacts
<1>2. f \in Seq(S) /\ Len(f) = WorldSize - 1
  BY <1>1 DEF PerPeer
<1> QED
  BY <1>2

LEMMA TwoPhases ==
  ASSUME NEW f, NEW g, PerPeer(f), PerPeer(g)
  PROVE  /\ Len(f \o g) = 2 * WorldSize - 2
         /\ DOMAIN (f \o g) = 1 .. 2 * WorldSize - 2
         /\ \A p \in 1 .. 2 * WorldSize - 2 :
              (f \o g)[p] = IF p < WorldSize THEN f[p] ELSE g[p - WorldSize + 1]
<1> DEFINE S == {f[i] : i \in 1 .. WorldSize - 1} \union {g[i] : i \in 1 .. WorldSize - 1}
           n == WorldSize - 1
<1>1. n \in Nat /\ 2 * WorldSize - 2 = n + n /\ WorldSize = n + 1 /\ WorldSize \in Nat
  BY WorldFacts
<1>2. f \in [1 .. n -> S] /\ g \in [1 .. n -> S]
  BY DEF PerPeer
<1> HIDE DEF n, S
<1>3. f \in Seq(S) /\ Len(f) = n /\ g \in Seq(S) /\ Len(g) = n
  BY <1>1, <1>2
<1>4. /\ Len(f \o g) = n + n
      /\ \A i \in 1 .. n : (f \o g)[i] = f[i]
      /\ \A i \in n + 1 .. n + n : (f \o g)[i] = g[i - n]
      /\ DOMAIN (f \o g) = 1 .. n + n
  BY <1>1, <1>2, <1>3
<1>5. ASSUME NEW p \in 1 .. n + n
      PROVE  (f \o g)[p] = IF p < WorldSize THEN f[p] ELSE g[p - WorldSize + 1]
  <2>1. CASE p < WorldSize
    BY <1>1, <1>4, <2>1
  <2>2. CASE ~(p < WorldSize)
    <3>1. p \in n + 1 .. n + n /\ p - n = p - WorldSize + 1
      BY <1>1, <2>2
    <3> QED
      BY <1>4, <2>2, <3>1
  <2> QED
    BY <2>1, <2>2
<1> QED
  BY <1>1, <1>4, <1>5

LEMMA BroadcastSteps ==
  ASSUME NEW root \in Ranks, NEW r \in Ranks
  PROVE  /\ r = root => /\ DOMAIN Broadcast(root, r) = 1 .. WorldSize - 1
                        /\ Len(Broadcast(root, r)) = WorldSize - 1
                        /\ \A p \in 1 .. WorldSize - 1 :
                             Broadcast(root, r)[p] = SendStep(PeerAt(root, p), 0, Whole)
         /\ r # root => /\ DOMAIN Broadcast(root, r) = {1}
                        /\ Len(Broadcast(root, r)) = 1
                        /\ Broadcast(root, r)[1] = RecvStep(root, 0, Whole, "store", "none")
<1>1. CASE r = root
  <2> DEFINE f == [i \in 1 .. WorldSize - 1 |-> SendStep(PeerAt(root, i), 0, Whole)]
  <2>1. Broadcast(root, r) = f
    BY <1>1 DEF Broadcast, Each
  <2>2. PerPeer(f)
    BY DEF PerPeer
  <2>3. \A p \in 1 .. WorldSize - 1 : f[p] = SendStep(PeerAt(root, p), 0, Whole)
    OBVIOUS
  <2> HIDE DEF f
  <2> QED
    BY <1>1, <2>1, <2>2, <2>3, EachSteps
<1>2. CASE r # root
  BY <1>2 DEF Broadcast
<1> QED
  BY <1>1, <1>2

LEMMA ReduceSteps ==
  ASSUME NEW root \in Ranks, NEW r \in Ranks
  PROVE  /\ r = root => /\ DOMAIN Reduce(root, r) = 1 .. WorldSize - 1
                        /\ Len(Reduce(root, r)) = WorldSize - 1
                        /\ \A p \in 1 .. WorldSize - 1 :
                             Reduce(root, r)[p] = RecvStep(PeerAt(root, p), 0, Whole, "add", "same")
         /\ r # root => /\ DOMAIN Reduce(root, r) = {1}
                        /\ Len(Reduce(root, r)) = 1
                        /\ Reduce(root, r)[1] = SendStep(root, 0, Whole)
<1>1. CASE r = root
  <2> DEFINE f == [i \in 1 .. WorldSize - 1 |-> RecvStep(PeerAt(root, i), 0, Whole, "add", "same")]
  <2>1. Reduce(root, r) = f
    BY <1>1 DEF Reduce, Each
  <2>2. PerPeer(f)
    BY DEF PerPeer
  <2>3. \A p \in 1 .. WorldSize - 1 : f[p] = RecvStep(PeerAt(root, p), 0, Whole, "add", "same")
    OBVIOUS
  <2> HIDE DEF f
  <2> QED
    BY <1>1, <2>1, <2>2, <2>3, EachSteps
<1>2. CASE r # root
  BY <1>2 DEF Reduce
<1> QED
  BY <1>1, <1>2

LEMMA CentralizedSteps ==
  ASSUME NEW r \in Ranks
  PROVE  /\ r = 0 =>
              /\ DOMAIN CentralizedAllReduce(r) = 1 .. 2 * WorldSize - 2
              /\ Len(CentralizedAllReduce(r)) = 2 * WorldSize - 2
              /\ \A p \in 1 .. 2 * WorldSize - 2 :
                   CentralizedAllReduce(r)[p] =
                     IF p < WorldSize THEN RecvStep(p, 1, Whole, "add", "same")
                                      ELSE SendStep(p - WorldSize + 1, 2, Whole)
         /\ r # 0 =>
              /\ DOMAIN CentralizedAllReduce(r) = {1, 2}
              /\ Len(CentralizedAllReduce(r)) = 2
              /\ CentralizedAllReduce(r)[1] = SendStep(0, 1, Whole)
              /\ CentralizedAllReduce(r)[2] = RecvStep(0, 2, Whole, "store", "same")
<1>1. CASE r = 0
  <2> DEFINE f == [i \in 1 .. WorldSize - 1 |-> RecvStep(i, 1, Whole, "add", "same")]
             g == [i \in 1 .. WorldSize - 1 |-> SendStep(i, 2, Whole)]
  <2>1. CentralizedAllReduce(r) = f \o g
    BY <1>1 DEF CentralizedAllReduce, Each
  <2>2. PerPeer(f) /\ PerPeer(g)
    BY DEF PerPeer
  <2>3. \A p \in 1 .. WorldSize - 1 : /\ f[p] = RecvStep(p, 1, Whole, "add", "same")
                                      /\ g[p] = SendStep(p, 2, Whole)
    OBVIOUS
  <2> HIDE DEF f, g
  <2>4. /\ Len(f \o g) = 2 * WorldSize - 2
        /\ DOMAIN (f \o g) = 1 .. 2 * WorldSize - 2
        /\ \A p \in 1 .. 2 * WorldSize - 2 :
             (f \o g)[p] = IF p < WorldSize THEN f[p] ELSE g[p - WorldSize + 1]
    BY <2>2, TwoPhases
  <2>5. ASSUME NEW p \in 1 .. 2 * WorldSize - 2
        PROVE  CentralizedAllReduce(r)[p] =
                 IF p < WorldSize THEN RecvStep(p, 1, Whole, "add", "same")
                                  ELSE SendStep(p - WorldSize + 1, 2, Whole)
    <3>1. CASE p < WorldSize
      <4>1. p \in 1 .. WorldSize - 1
        BY <3>1, WorldFacts
      <4> QED
        BY <2>1, <2>3, <2>4, <3>1, <4>1
    <3>2. CASE ~(p < WorldSize)
      <4>1. p - WorldSize + 1 \in 1 .. WorldSize - 1
        BY <3>2, WorldFacts
      <4> QED
        BY <2>1, <2>3, <2>4, <3>2, <4>1
    <3> QED
      BY <3>1, <3>2
  <2> QED
    BY <1>1, <2>1, <2>4, <2>5
<1>2. CASE r # 0
  <2>1. CentralizedAllReduce(r) = <<SendStep(0, 1, Whole), RecvStep(0, 2, Whole, "store", "same")>>
    BY <1>2 DEF CentralizedAllReduce
  <2> QED
    BY <1>2, <2>1
<1> QED
  BY <1>1, <1>2

LEMMA AllGatherSteps ==
  ASSUME NEW r \in Ranks
  PROVE  /\ r = 0 =>
              /\ DOMAIN AllGather(r) = 1 .. 2 * WorldSize - 2
              /\ Len(AllGather(r)) = 2 * WorldSize - 2
              /\ \A p \in 1 .. 2 * WorldSize - 2 :
                   AllGather(r)[p] =
                     IF p < WorldSize THEN RecvStep(p, 1, <<p>>, "store", "gather")
                                      ELSE SendStep(p - WorldSize + 1, 2, Whole)
         /\ r # 0 =>
              /\ DOMAIN AllGather(r) = {1, 2}
              /\ Len(AllGather(r)) = 2
              /\ AllGather(r)[1] = SendStep(0, 1, <<0>>)
              /\ AllGather(r)[2] = RecvStep(0, 2, Whole, "store", "none")
<1>1. CASE r = 0
  <2> DEFINE f == [i \in 1 .. WorldSize - 1 |-> RecvStep(i, 1, <<i>>, "store", "gather")]
             g == [i \in 1 .. WorldSize - 1 |-> SendStep(i, 2, Whole)]
  <2>1. AllGather(r) = f \o g
    BY <1>1 DEF AllGather, Each
  <2>2. PerPeer(f) /\ PerPeer(g)
    BY DEF PerPeer
  <2>3. \A p \in 1 .. WorldSize - 1 : /\ f[p] = RecvStep(p, 1, <<p>>, "store", "gather")
                                      /\ g[p] = SendStep(p, 2, Whole)
    OBVIOUS
  <2> HIDE DEF f, g
  <2>4. /\ Len(f \o g) = 2 * WorldSize - 2
        /\ DOMAIN (f \o g) = 1 .. 2 * WorldSize - 2
        /\ \A p \in 1 .. 2 * WorldSize - 2 :
             (f \o g)[p] = IF p < WorldSize THEN f[p] ELSE g[p - WorldSize + 1]
    BY <2>2, TwoPhases
  <2>5. ASSUME NEW p \in 1 .. 2 * WorldSize - 2
        PROVE  AllGather(r)[p] =
                 IF p < WorldSize THEN RecvStep(p, 1, <<p>>, "store", "gather")
                                  ELSE SendStep(p - WorldSize + 1, 2, Whole)
    <3>1. CASE p < WorldSize
      <4>1. p \in 1 .. WorldSize - 1
        BY <3>1, WorldFacts
      <4> QED
        BY <2>1, <2>3, <2>4, <3>1, <4>1
    <3>2. CASE ~(p < WorldSize)
      <4>1. p - WorldSize + 1 \in 1 .. WorldSize - 1
        BY <3>2, WorldFacts
      <4> QED
        BY <2>1, <2>3, <2>4, <3>2, <4>1
    <3> QED
      BY <3>1, <3>2
  <2> QED
    BY <1>1, <2>1, <2>4, <2>5
<1>2. CASE r # 0
  <2>1. AllGather(r) = <<SendStep(0, 1, <<0>>), RecvStep(0, 2, Whole, "store", "none")>>
    BY <1>2 DEF AllGather
  <2> QED
    BY <1>2, <2>1
<1> QED
  BY <1>1, <1>2

LEMMA ReduceScatterSteps ==
  ASSUME NEW r \in Ranks
  PROVE  /\ r = 0 =>
              /\ DOMAIN ReduceScatter(r) = 1 .. 2 * WorldSize - 2
              /\ Len(ReduceScatter(r)) = 2 * WorldSize - 2
              /\ \A p \in 1 .. 2 * WorldSize - 2 :
                   ReduceScatter(r)[p] =
                     IF p < WorldSize THEN RecvStep(p, 1, Whole, "add", "same")
                                      ELSE SendStep(p - WorldSize + 1, 2, <<p - WorldSize + 1>>)
         /\ r # 0 =>
              /\ DOMAIN ReduceScatter(r) = {1, 2}
              /\ Len(ReduceScatter(r)) = 2
              /\ ReduceScatter(r)[1] = SendStep(0, 1, Whole)
              /\ ReduceScatter(r)[2] = RecvStep(0, 2, <<0>>, "store", "none")
<1>1. CASE r = 0
  <2> DEFINE f == [i \in 1 .. WorldSize - 1 |-> RecvStep(i, 1, Whole, "add", "same")]
             g == [i \in 1 .. WorldSize - 1 |-> SendStep(i, 2, <<i>>)]
  <2>1. ReduceScatter(r) = f \o g
    BY <1>1 DEF ReduceScatter, Each
  <2>2. PerPeer(f) /\ PerPeer(g)
    BY DEF PerPeer
  <2>3. \A p \in 1 .. WorldSize - 1 : /\ f[p] = RecvStep(p, 1, Whole, "add", "same")
                                      /\ g[p] = SendStep(p, 2, <<p>>)
    OBVIOUS
  <2> HIDE DEF f, g
  <2>4. /\ Len(f \o g) = 2 * WorldSize - 2
        /\ DOMAIN (f \o g) = 1 .. 2 * WorldSize - 2
        /\ \A p \in 1 .. 2 * WorldSize - 2 :
             (f \o g)[p] = IF p < WorldSize THEN f[p] ELSE g[p - WorldSize + 1]
    BY <2>2, TwoPhases
  <2>5. ASSUME NEW p \in 1 .. 2 * WorldSize - 2
        PROVE  ReduceScatter(r)[p] =
                 IF p < WorldSize THEN RecvStep(p, 1, Whole, "add", "same")
                                  ELSE SendStep(p - WorldSize + 1, 2, <<p - WorldSize + 1>>)
    <3>1. CASE p < WorldSize
      <4>1. p \in 1 .. WorldSize - 1
        BY <3>1, WorldFacts
      <4> QED
        BY <2>1, <2>3, <2>4, <3>1, <4>1
    <3>2. CASE ~(p < WorldSize)
      <4>1. p - WorldSize + 1 \in 1 .. WorldSize - 1
        BY <3>2, WorldFacts
      <4> QED
        BY <2>1, <2>3, <2>4, <3>2, <4>1
    <3> QED
      BY <3>1, <3>2
  <2> QED
    BY <1>1, <2>1, <2>4, <2>5
<1>2. CASE r # 0
  <2> DEFINE a == SendStep(0, 1, Whole)
             b == RecvStep(0, 2, <<0>>, "store", "none")
  <2>1. ReduceScatter(r) = <<a, b>>
    BY <1>2 DEF ReduceScatter
  <2> HIDE DEF a, b
  <2>2. DOMAIN ReduceScatter(r) = {1, 2} /\ Len(ReduceScatter(r)) = 2
    BY <2>1
  <2>3. ReduceScatter(r)[1] = a /\ ReduceScatter(r)[2] = b
    BY <2>1
  <2> QED
    BY <1>2, <2>2, <2>3 DEF a, b
<1> QED
  BY <1>1, <1>2

(* The steps of the ring: sums, then copies. *)
RingSum(r, p) ==
  ExchangeStep(NextOf(r), PreviousOf(r), 1, p - 1, <<Mod(r + WorldSize - (p - 1))>>,
               <<Mod(r + WorldSize - (p - 1) - 1)>>, "add", "same")
RingCopy(r, p) ==
  ExchangeStep(NextOf(r), PreviousOf(r), 2, p - 1, <<Mod(r + 1 + WorldSize - (p - 1))>>,
               <<Mod(r + WorldSize - (p - 1))>>, "store", "same")

LEMMA RingSteps ==
  ASSUME NEW r \in Ranks
  PROVE  /\ DOMAIN RingAllReduce(r) = 1 .. 2 * WorldSize - 2
         /\ Len(RingAllReduce(r)) = 2 * WorldSize - 2
         /\ \A p \in 1 .. 2 * WorldSize - 2 :
              RingAllReduce(r)[p] = IF p < WorldSize THEN RingSum(r, p)
                                                     ELSE RingCopy(r, p - WorldSize + 1)
<1> DEFINE f == [i \in 1 .. WorldSize - 1 |-> RingSum(r, i)]
           g == [i \in 1 .. WorldSize - 1 |-> RingCopy(r, i)]
<1>1. RingAllReduce(r) = f \o g
  BY DEF RingAllReduce, Each, RingSum, RingCopy
<1>2. PerPeer(f) /\ PerPeer(g)
  BY DEF PerPeer
<1>3. \A p \in 1 .. WorldSize - 1 : f[p] = RingSum(r, p) /\ g[p] = RingCopy(r, p)
  OBVIOUS
<1> HIDE DEF f, g
<1>4. /\ Len(f \o g) = 2 * WorldSize - 2
      /\ DOMAIN (f \o g) = 1 .. 2 * WorldSize - 2
      /\ \A p \in 1 .. 2 * WorldSize - 2 :
           (f \o g)[p] = IF p < WorldSize THEN f[p] ELSE g[p - WorldSize + 1]
  BY <1>2, TwoPhases
<1>5. ASSUME NEW p \in 1 .. 2 * WorldSize - 2
      PROVE  RingAllReduce(r)[p] = IF p < WorldSize THEN RingSum(r, p)
                                                    ELSE RingCopy(r, p - WorldSize + 1)
  <2>1. CASE p < WorldSize
    <3>1. p \in 1 .. WorldSize - 1
      BY <2>1, WorldFacts
    <3> QED
      BY <1>1, <1>3, <1>4, <2>1, <3>1
  <2>2. CASE ~(p < WorldSize)
    <3>1. p - WorldSize + 1 \in 1 .. WorldSize - 1
      BY <2>2, WorldFacts
    <3> QED
      BY <1>1, <1>3, <1>4, <2>2, <3>1
  <2> QED
    BY <2>1, <2>2
<1> QED
  BY <1>1, <1>4, <1>5

LEMMA AllToAllSteps ==
  ASSUME NEW r \in Ranks
  PROVE  /\ DOMAIN AllToAll(r) = 1 .. WorldSize - 1
         /\ Len(AllToAll(r)) = WorldSize - 1
         /\ \A p \in 1 .. WorldSize - 1 :
              AllToAll(r)[p] = ExchangeStep(Mod(r + p), Mod(r + WorldSize - p), 0, p - 1,
                                            <<Mod(r + p)>>, <<WorldSize + Mod(r + WorldSize - p)>>,
                                            "store", "gather")
<1> DEFINE f == [i \in 1 .. WorldSize - 1 |->
                   ExchangeStep(Mod(r + i), Mod(r + WorldSize - i), 0, i - 1,
                                <<Mod(r + i)>>, <<WorldSize + Mod(r + WorldSize - i)>>,
                                "store", "gather")]
<1>1. AllToAll(r) = f
  BY DEF AllToAll, Each
<1>2. PerPeer(f)
  BY DEF PerPeer
<1>3. \A p \in 1 .. WorldSize - 1 :
        f[p] = ExchangeStep(Mod(r + p), Mod(r + WorldSize - p), 0, p - 1,
                            <<Mod(r + p)>>, <<WorldSize + Mod(r + WorldSize - p)>>,
                            "store", "gather")
  OBVIOUS
<1> HIDE DEF f
<1> QED
  BY <1>1, <1>2, <1>3, EachSteps

-----------------------------------------------------------------------------
(* What a step makes of the chunks. *)

(* A step that receives nothing keeps them. *)
Passes(k, c, r, p) == \A x \in Keys : Held(k, c, r, p + 1, x) = Held(k, c, r, p, x)

(* Step p of r and step q of s belong together. *)
Meet(k, r, p, s, q) ==
  /\ s \in Script(k, r)[p].from
  /\ r \in Script(k, s)[q].to
  /\ Script(k, r)[p].tag = Script(k, s)[q].tag

(* Chunk x becomes its sum with chunk y of the sender, or a copy of it. *)
Takes(k, c, r, p, s, q, x, y) ==
  IF Script(k, r)[p].how = "add"
    THEN /\ Held(k, c, r, p, x) \intersect Held(k, c, s, q, y) = {}
         /\ Held(k, c, r, p + 1, x) = Held(k, c, r, p, x) \union Held(k, c, s, q, y)
    ELSE Held(k, c, r, p + 1, x) = Held(k, c, s, q, y)

Combines(k, c, r, p, s, q) ==
  LET into == Script(k, r)[p].into
      out == Script(k, s)[q].out
  IN /\ \A x \in Keys : (\A i \in DOMAIN into : into[i] # x) =>
          Held(k, c, r, p + 1, x) = Held(k, c, r, p, x)
     /\ \A i \in DOMAIN into : /\ i \in DOMAIN out
                               /\ Takes(k, c, r, p, s, q, into[i], out[i])

(* Every step of the script does what Held says, and the last one leaves   *)
(* what the call should return.                                            *)
Works(k, c, r) ==
  /\ Len(Script(k, r)) \in Nat \ {0}
  /\ DOMAIN Script(k, r) = 1 .. Len(Script(k, r))
  /\ \A p \in DOMAIN Script(k, r) :
       /\ Script(k, r)[p].from = {} => Passes(k, c, r, p)
       /\ \A s \in Ranks \ {r} : \A q \in DOMAIN Script(k, s) :
            Meet(k, r, p, s, q) => Combines(k, c, r, p, s, q)
  /\ ResultOf(k, r, HeldChunks(k, c, r, Len(Script(k, r)) + 1)) = Expected(k, c, r)

LEMMA ScriptIs ==
  ASSUME NEW k, NEW r
  PROVE  /\ k.kind = "Broadcast" => Script(k, r) = Broadcast(k.root, r)
         /\ k.kind = "Reduce" => Script(k, r) = Reduce(k.root, r)
         /\ k.kind = "AllGather" => Script(k, r) = AllGather(r)
         /\ k.kind = "AllReduceCentralized" => Script(k, r) = CentralizedAllReduce(r)
         /\ k.kind = "AllReduceRing" => Script(k, r) = RingAllReduce(r)
         /\ k.kind = "ReduceScatter" => Script(k, r) = ReduceScatter(r)
         /\ k.kind = "AllToAll" => Script(k, r) = AllToAll(r)
BY DEF Script

LEMMA KeysAre ==
  /\ Ranks \subseteq Keys /\ Keys = 0 .. 2 * WorldSize - 1
  /\ DOMAIN Whole = 1 .. WorldSize
  /\ \A i \in 1 .. WorldSize : Whole[i] = i - 1 /\ Whole[i] \in Ranks
  /\ \A x \in Ranks : x + 1 \in 1 .. WorldSize /\ Whole[x + 1] = x
  /\ \A x \in Keys \ Ranks : x - WorldSize \in Ranks
<1>1. Ranks \subseteq Keys /\ Keys = 0 .. 2 * WorldSize - 1
  BY WorldFacts DEF Keys
<1>2. DOMAIN Whole = 1 .. WorldSize /\ \A i \in 1 .. WorldSize : Whole[i] = i - 1
  BY DEF Whole
<1>3. \A i \in 1 .. WorldSize : i - 1 \in Ranks
  BY WorldFacts
<1>4. \A x \in Ranks : x + 1 \in 1 .. WorldSize /\ (x + 1) - 1 = x
  BY WorldFacts
<1>5. \A x \in Keys \ Ranks : x - WorldSize \in Ranks
  BY <1>1, WorldFacts
<1>6. \A x \in Ranks : x + 1 \in 1 .. WorldSize /\ Whole[x + 1] = x
  <2> SUFFICES ASSUME NEW x \in Ranks
               PROVE  x + 1 \in 1 .. WorldSize /\ Whole[x + 1] = x
    OBVIOUS
  <2>1. x + 1 \in 1 .. WorldSize /\ (x + 1) - 1 = x
    BY <1>4
  <2> QED
    BY <1>2, <2>1
<1> QED
  BY <1>1, <1>2, <1>3, <1>5, <1>6

LEMMA HeldOutside ==
  ASSUME NEW k, k.kind # "AllToAll", NEW c, NEW r, NEW p, NEW x \in Keys \ Ranks
  PROVE  Held(k, c, r, p, x) = {}
BY DEF Held

LEMMA WholeCombines ==
  ASSUME NEW k, k.kind # "AllToAll", NEW c, NEW r, NEW p, NEW s, NEW q,
         Script(k, r)[p].into = Whole, Script(k, s)[q].out = Whole,
         \A x \in Ranks : Takes(k, c, r, p, s, q, x, x)
  PROVE  Combines(k, c, r, p, s, q)
<1>1. ASSUME NEW x \in Keys, \A i \in DOMAIN Whole : Whole[i] # x
      PROVE  Held(k, c, r, p + 1, x) = Held(k, c, r, p, x)
  <2>1. x \notin Ranks
    BY <1>1, KeysAre
  <2> QED
    BY <2>1, HeldOutside
<1>2. \A i \in DOMAIN Whole : Takes(k, c, r, p, s, q, Whole[i], Whole[i])
  BY KeysAre
<1> QED
  BY <1>1, <1>2 DEF Combines

LEMMA OneCombines ==
  ASSUME NEW k, NEW c, NEW r, NEW p, NEW s, NEW q, NEW a, NEW b,
         Script(k, r)[p].into = <<a>>, Script(k, s)[q].out = <<b>>,
         \A x \in Keys \ {a} : Held(k, c, r, p + 1, x) = Held(k, c, r, p, x),
         Takes(k, c, r, p, s, q, a, b)
  PROVE  Combines(k, c, r, p, s, q)
<1>1. /\ DOMAIN <<a>> = {1} /\ <<a>>[1] = a
      /\ DOMAIN <<b>> = {1} /\ <<b>>[1] = b
  OBVIOUS
<1>2. ASSUME NEW x \in Keys, \A i \in DOMAIN <<a>> : <<a>>[i] # x
      PROVE  Held(k, c, r, p + 1, x) = Held(k, c, r, p, x)
  BY <1>1, <1>2
<1> QED
  BY <1>1, <1>2 DEF Combines

LEMMA WholeResult ==
  ASSUME NEW k, NEW c, NEW r, NEW p, ResultKeys(k, r) = Whole
  PROVE  ResultOf(k, r, HeldChunks(k, c, r, p))
           = [i \in 1 .. WorldSize |-> SetToBag(Held(k, c, r, p, i - 1))]
BY KeysAre DEF ResultOf, HeldChunks

LEMMA BroadcastWorks ==
  ASSUME NEW k \in AnyCall, k.kind = "Broadcast", NEW c, NEW r \in Ranks
  PROVE  Works(k, c, r)
<1> DEFINE root == k.root
<1>1. root \in Ranks
  BY DEF AnyCall
<1>2. \A s \in Ranks : Script(k, s) = Broadcast(root, s)
  BY ScriptIs
<1>3. ASSUME NEW s \in Ranks, NEW p \in Nat, NEW x \in Ranks
      PROVE  /\ p = 1 => Held(k, c, s, p, x) = From(c, {s}, x)
             /\ p # 1 => Held(k, c, s, p, x) = From(c, {root}, x)
  BY DEF Held
<1> HIDE DEF root
<1>4. CASE r = root
  <2>1. \A p \in DOMAIN Script(k, r) : Script(k, r)[p].from = {} /\ Passes(k, c, r, p)
    <3> SUFFICES ASSUME NEW p \in 1 .. WorldSize - 1
                 PROVE  Script(k, r)[p].from = {} /\ Passes(k, c, r, p)
      BY <1>1, <1>2, <1>4, BroadcastSteps
    <3>1. Script(k, r)[p].from = {}
      <4>1. Script(k, r)[p] = SendStep(PeerAt(root, p), 0, Whole)
        BY <1>1, <1>2, <1>4, BroadcastSteps
      <4> QED
        BY <4>1 DEF SendStep
    <3>2. ASSUME NEW x \in Keys
          PROVE  Held(k, c, r, p + 1, x) = Held(k, c, r, p, x)
      <4>1. CASE x \in Ranks
        <5>1. p + 1 \in Nat /\ p + 1 # 1 /\ p \in Nat
          OBVIOUS
        <5>2. Held(k, c, r, p + 1, x) = From(c, {root}, x)
          BY <1>3, <4>1, <5>1
        <5>3. Held(k, c, r, p, x) = From(c, {root}, x)
          BY <1>3, <1>4, <4>1, <5>1
        <5> QED
          BY <5>2, <5>3
      <4>2. CASE x \notin Ranks
        BY <4>2, HeldOutside
      <4> QED
        BY <4>1, <4>2
    <3> QED
      BY <3>1, <3>2 DEF Passes
  <2>2. Len(Script(k, r)) \in Nat \ {0} /\ DOMAIN Script(k, r) = 1 .. Len(Script(k, r))
    BY <1>1, <1>2, <1>4, BroadcastSteps, WorldFacts
  <2>3. ResultOf(k, r, HeldChunks(k, c, r, Len(Script(k, r)) + 1)) = Expected(k, c, r)
    <3> DEFINE n == Len(Script(k, r)) + 1
    <3>1. n \in Nat
      BY <2>2
    <3> HIDE DEF n
    <3>2. ResultKeys(k, r) = Whole
      BY DEF ResultKeys
    <3>3. Expected(k, c, r) = [i \in 1 .. WorldSize |-> SetToBag({<<c, root, i - 1>>})]
      BY DEF Expected, root
    <3>4. \A i \in 1 .. WorldSize : Held(k, c, r, n, i - 1) = {<<c, root, i - 1>>}
      BY <1>3, <1>4, <3>1, KeysAre DEF From
    <3>5. ResultOf(k, r, HeldChunks(k, c, r, n)) = Expected(k, c, r)
      BY <3>2, <3>3, <3>4, WholeResult
    <3> QED
      BY <3>5 DEF n
  <2> QED
    BY <2>1, <2>2, <2>3 DEF Works, Meet
<1>5. CASE r # root
  <2>1. /\ DOMAIN Script(k, r) = {1} /\ Len(Script(k, r)) = 1
        /\ Script(k, r)[1] = RecvStep(root, 0, Whole, "store", "none")
    BY <1>1, <1>2, <1>5, BroadcastSteps
  <2>2. ASSUME NEW s \in Ranks \ {r}, NEW q \in DOMAIN Script(k, s), Meet(k, r, 1, s, q)
        PROVE  Combines(k, c, r, 1, s, q)
    <3>1. s = root
      BY <2>1, <2>2 DEF Meet, RecvStep
    <3>2. q \in 1 .. WorldSize - 1 /\ Script(k, s)[q].out = Whole
      <4>1. q \in 1 .. WorldSize - 1 /\ Script(k, s)[q] = SendStep(PeerAt(root, q), 0, Whole)
        BY <1>1, <1>2, <3>1, BroadcastSteps
      <4> QED
        BY <4>1 DEF SendStep
    <3>3. Script(k, r)[1].into = Whole /\ Script(k, r)[1].how = "store"
      BY <2>1 DEF RecvStep
    <3>4. ASSUME NEW x \in Ranks
          PROVE  Held(k, c, r, 1 + 1, x) = Held(k, c, s, q, x)
      <4>1. 1 + 1 \in Nat /\ 1 + 1 # 1 /\ q \in Nat
        BY <3>2
      <4>2. Held(k, c, r, 1 + 1, x) = From(c, {root}, x)
        BY <1>3, <4>1
      <4>3. Held(k, c, s, q, x) = From(c, {root}, x)
        BY <1>3, <3>1, <4>1
      <4> QED
        BY <4>2, <4>3
    <3>5. \A x \in Ranks : Takes(k, c, r, 1, s, q, x, x)
      BY <3>3, <3>4 DEF Takes
    <3> QED
      BY <3>2, <3>3, <3>5, WholeCombines
  <2>3. Script(k, r)[1].from # {}
    BY <2>1 DEF RecvStep
  <2>4. ResultOf(k, r, HeldChunks(k, c, r, 1 + 1)) = Expected(k, c, r)
    <3>1. ResultKeys(k, r) = Whole
      BY DEF ResultKeys
    <3>2. Expected(k, c, r) = [i \in 1 .. WorldSize |-> SetToBag({<<c, root, i - 1>>})]
      BY DEF Expected, root
    <3>3. \A i \in 1 .. WorldSize : Held(k, c, r, 2, i - 1) = {<<c, root, i - 1>>}
      BY <1>3, KeysAre DEF From
    <3> QED
      BY <3>1, <3>2, <3>3, WholeResult
  <2> QED
    BY <2>1, <2>2, <2>3, <2>4 DEF Works
<1> QED
  BY <1>4, <1>5

(* The peers of r in rank order. *)
LEMMA PeersAre ==
  ASSUME NEW r \in Ranks
  PROVE  /\ \A i \in 1 .. WorldSize - 1 : PeerAt(r, i) \in Ranks /\ PeerAt(r, i) # r
         /\ \A i, j \in 1 .. WorldSize - 1 : i # j => PeerAt(r, i) # PeerAt(r, j)
         /\ {r} \union {PeerAt(r, i) : i \in 1 .. WorldSize - 1} = Ranks
<1>1. \A i \in 1 .. WorldSize - 1 : PeerAt(r, i) \in Ranks /\ PeerAt(r, i) # r
  BY WorldFacts DEF PeerAt
<1>2. \A i, j \in 1 .. WorldSize - 1 : i # j => PeerAt(r, i) # PeerAt(r, j)
  BY WorldFacts DEF PeerAt
<1>3. ASSUME NEW q \in Ranks, q # r
      PROVE  \E i \in 1 .. WorldSize - 1 : q = PeerAt(r, i)
  <2>1. CASE q < r
    <3>1. q + 1 \in 1 .. WorldSize - 1 /\ PeerAt(r, q + 1) = q
      BY <2>1, WorldFacts DEF PeerAt
    <3> QED
      BY <3>1
  <2>2. CASE q > r
    <3>1. q \in 1 .. WorldSize - 1 /\ PeerAt(r, q) = q
      BY <2>2, WorldFacts DEF PeerAt
    <3> QED
      BY <3>1
  <2> QED
    BY <1>3, <2>1, <2>2, WorldFacts
<1> QED
  BY <1>1, <1>2, <1>3

LEMMA ReduceWorks ==
  ASSUME NEW k \in AnyCall, k.kind = "Reduce", NEW c, NEW r \in Ranks
  PROVE  Works(k, c, r)
<1> DEFINE root == k.root
           Had(p) == {root} \union {PeerAt(root, i) : i \in 1 .. p - 1}
<1>1. root \in Ranks
  BY DEF AnyCall
<1>2. \A s \in Ranks : Script(k, s) = Reduce(root, s)
  BY ScriptIs
<1>3. ASSUME NEW s \in Ranks, NEW p \in Nat, NEW x \in Ranks
      PROVE  /\ s = root => Held(k, c, s, p, x) = From(c, Had(p), x)
             /\ s # root => Held(k, c, s, p, x) = From(c, {s}, x)
  <2>1. CASE s = root
    BY <2>1 DEF Held
  <2>2. CASE s # root
    <3>1. {s} \union {} = {s}
      OBVIOUS
    <3> QED
      BY <2>2, <3>1 DEF Held
  <2> QED
    BY <2>1, <2>2
<1>4. Expected(k, c, r) = IF r = root THEN [i \in 1 .. WorldSize |-> SumOf(c, i - 1)] ELSE <<>>
  BY DEF Expected
<1>5. ResultKeys(k, r) = IF r = root THEN Whole ELSE <<>>
  BY DEF ResultKeys
<1> HIDE DEF root
<1>6. CASE r = root
  <2>1. /\ DOMAIN Script(k, r) = 1 .. WorldSize - 1 /\ Len(Script(k, r)) = WorldSize - 1
        /\ \A p \in 1 .. WorldSize - 1 :
             Script(k, r)[p] = RecvStep(PeerAt(root, p), 0, Whole, "add", "same")
    BY <1>1, <1>2, <1>6, ReduceSteps
  <2>2. ASSUME NEW p \in 1 .. WorldSize - 1, NEW s \in Ranks \ {r}, NEW q \in DOMAIN Script(k, s),
               Meet(k, r, p, s, q)
        PROVE  Combines(k, c, r, p, s, q)
    <3>1. Script(k, r)[p] = RecvStep(PeerAt(root, p), 0, Whole, "add", "same")
      BY <2>1
    <3>2. s = PeerAt(root, p)
      BY <2>2, <3>1 DEF Meet, RecvStep
    <3>3. Script(k, r)[p].into = Whole /\ Script(k, r)[p].how = "add"
      BY <3>1 DEF RecvStep
    <3>4. q = 1 /\ Script(k, s)[q] = SendStep(root, 0, Whole)
      BY <1>1, <1>2, <1>6, ReduceSteps
    <3>5. Script(k, s)[q].out = Whole
      BY <3>4 DEF SendStep
    <3>6. Had(p + 1) = Had(p) \union {s} /\ Had(p) \intersect {s} = {}
      <4>1. 1 .. (p + 1) - 1 = (1 .. p - 1) \union {p} /\ p \notin 1 .. p - 1
        OBVIOUS
      <4>2. \A i \in 1 .. p - 1 : i \in 1 .. WorldSize - 1 /\ i # p
        BY WorldFacts
      <4>3. s # root /\ \A i \in 1 .. p - 1 : PeerAt(root, i) # s
        BY <1>1, <3>2, <4>2, PeersAre
      <4> QED
        BY <3>2, <4>1, <4>3
    <3>7. ASSUME NEW x \in Ranks
          PROVE  Takes(k, c, r, p, s, q, x, x)
      <4>1. p \in Nat /\ p + 1 \in Nat /\ q \in Nat
        BY <3>4
      <4>2. /\ Held(k, c, r, p, x) = From(c, Had(p), x)
            /\ Held(k, c, r, p + 1, x) = From(c, Had(p + 1), x)
            /\ Held(k, c, s, q, x) = From(c, {s}, x)
        BY <1>3, <1>6, <4>1
      <4> HIDE DEF Had
      <4>3. /\ From(c, Had(p), x) \union From(c, {s}, x) = From(c, Had(p) \union {s}, x)
            /\ From(c, Had(p), x) \intersect From(c, {s}, x) = {}
        BY <3>6, FromUnion, FromDisjoint
      <4> QED
        BY <3>3, <3>6, <4>2, <4>3 DEF Takes
    <3> QED
      BY <3>3, <3>5, <3>7, WholeCombines
  <2>3. ASSUME NEW p \in 1 .. WorldSize - 1
        PROVE  Script(k, r)[p].from # {}
    <3>1. Script(k, r)[p] = RecvStep(PeerAt(root, p), 0, Whole, "add", "same")
      BY <2>1
    <3> QED
      BY <3>1 DEF RecvStep
  <2>4. ResultOf(k, r, HeldChunks(k, c, r, WorldSize)) = Expected(k, c, r)
    <3>1. Had(WorldSize) = Ranks
      BY <1>1, PeersAre
    <3> HIDE DEF Had
    <3>2. \A i \in 1 .. WorldSize : Held(k, c, r, WorldSize, i - 1) = {<<c, q, i - 1>> : q \in Ranks}
      <4> SUFFICES ASSUME NEW i \in 1 .. WorldSize
                   PROVE  Held(k, c, r, WorldSize, i - 1) = {<<c, q, i - 1>> : q \in Ranks}
        OBVIOUS
      <4>1. i - 1 \in Ranks /\ WorldSize \in Nat
        BY WorldFacts
      <4>2. Held(k, c, r, WorldSize, i - 1) = From(c, Had(WorldSize), i - 1)
        BY <1>3, <1>6, <4>1
      <4> QED
        BY <3>1, <4>2 DEF From
    <3> QED
      BY <1>4, <1>5, <1>6, <3>2, WholeResult DEF SumOf
  <2>5. WorldSize - 1 \in Nat \ {0} /\ (WorldSize - 1) + 1 = WorldSize
    BY WorldFacts
  <2> QED
    BY <2>1, <2>2, <2>3, <2>4, <2>5 DEF Works
<1>7. CASE r # root
  <2>1. /\ DOMAIN Script(k, r) = {1} /\ Len(Script(k, r)) = 1
        /\ Script(k, r)[1] = SendStep(root, 0, Whole)
    BY <1>1, <1>2, <1>7, ReduceSteps
  <2>2. Script(k, r)[1].from = {}
    BY <2>1 DEF SendStep
  <2>3. ASSUME NEW x \in Keys
        PROVE  Held(k, c, r, 1 + 1, x) = Held(k, c, r, 1, x)
    <3>1. CASE x \in Ranks
      <4>1. Held(k, c, r, 1 + 1, x) = From(c, {r}, x)
        <5>1. 1 + 1 \in Nat
          OBVIOUS
        <5> QED
          BY <1>3, <1>7, <3>1, <5>1
      <4>2. Held(k, c, r, 1, x) = From(c, {r}, x)
        BY <1>3, <1>7, <3>1
      <4> QED
        BY <4>1, <4>2
    <3>2. CASE x \notin Ranks
      BY <3>2, HeldOutside
    <3> QED
      BY <3>1, <3>2
  <2>4. ResultOf(k, r, HeldChunks(k, c, r, 1 + 1)) = Expected(k, c, r)
    BY <1>4, <1>5, <1>7 DEF ResultOf
  <2> QED
    BY <2>1, <2>2, <2>3, <2>4 DEF Works, Passes, Meet
<1> QED
  BY <1>6, <1>7

LEMMA OneResult ==
  ASSUME NEW k, NEW c, NEW r, NEW p, NEW x \in Keys, ResultKeys(k, r) = <<x>>
  PROVE  ResultOf(k, r, HeldChunks(k, c, r, p)) = <<SetToBag(Held(k, c, r, p, x))>>
<1> DEFINE keys == <<x>>
<1>1. DOMAIN keys = {1} /\ keys[1] = x
  OBVIOUS
<1>2. ResultOf(k, r, HeldChunks(k, c, r, p)) = [i \in DOMAIN keys |-> HeldChunks(k, c, r, p)[keys[i]]]
  BY DEF ResultOf
<1>3. HeldChunks(k, c, r, p)[x] = SetToBag(Held(k, c, r, p, x))
  BY DEF HeldChunks
<1> HIDE DEF keys
<1>4. ResultOf(k, r, HeldChunks(k, c, r, p)) = [i \in {1} |-> SetToBag(Held(k, c, r, p, x))]
  BY <1>1, <1>2, <1>3
<1> QED
  BY <1>4

LEMMA CentralizedWorks ==
  ASSUME NEW k \in AnyCall, k.kind = "AllReduceCentralized", NEW c, NEW r \in Ranks
  PROVE  Works(k, c, r)
<1>1. \A s \in Ranks : Script(k, s) = CentralizedAllReduce(s)
  BY ScriptIs
<1>2. ASSUME NEW p \in Nat, NEW x \in Ranks
      PROVE  Held(k, c, 0, p, x) = From(c, {q \in Ranks : q < p}, x)
  BY WorldFacts DEF Held
<1>3. ASSUME NEW s \in Ranks, s # 0, NEW x \in Ranks
      PROVE  /\ \A p \in {1, 2} : Held(k, c, s, p, x) = From(c, {s}, x)
             /\ Held(k, c, s, 3, x) = From(c, Ranks, x)
  BY <1>3, WorldFacts DEF Held
<1>4. /\ \A p \in Nat : p >= WorldSize => {q \in Ranks : q < p} = Ranks
      /\ 0 \in Ranks /\ WorldSize \in Nat /\ WorldSize >= 2
      /\ 2 + 1 = 3
  BY WorldFacts
<1>5. CASE r = 0
  <2>1. /\ DOMAIN Script(k, r) = 1 .. 2 * WorldSize - 2 /\ Len(Script(k, r)) = 2 * WorldSize - 2
        /\ \A p \in 1 .. 2 * WorldSize - 2 :
             Script(k, r)[p] = IF p < WorldSize THEN RecvStep(p, 1, Whole, "add", "same")
                                                ELSE SendStep(p - WorldSize + 1, 2, Whole)
    BY <1>1, <1>5, CentralizedSteps
  <2>2. ASSUME NEW p \in 1 .. 2 * WorldSize - 2, NEW s \in Ranks \ {r},
               NEW q \in DOMAIN Script(k, s), Meet(k, r, p, s, q)
        PROVE  Combines(k, c, r, p, s, q)
    <3>1. p < WorldSize /\ Script(k, r)[p] = RecvStep(p, 1, Whole, "add", "same")
      <4>1. Script(k, r)[p].from # {}
        BY <2>2 DEF Meet
      <4>2. SendStep(p - WorldSize + 1, 2, Whole).from = {}
        BY DEF SendStep
      <4> QED
        BY <2>1, <4>1, <4>2
    <3>2. s = p /\ Script(k, r)[p].into = Whole /\ Script(k, r)[p].how = "add"
      BY <2>2, <3>1 DEF Meet, RecvStep
    <3>3. q = 1 /\ Script(k, s)[q].out = Whole
      <4>1. s \in Ranks /\ s # 0
        BY <1>5
      <4>2. /\ DOMAIN Script(k, s) = {1, 2}
            /\ Script(k, s)[1] = SendStep(0, 1, Whole)
            /\ Script(k, s)[2] = RecvStep(0, 2, Whole, "store", "same")
        BY <1>1, <4>1, CentralizedSteps
      <4>3. Script(k, s)[2].to = {} /\ Script(k, s)[1].out = Whole
        BY <4>2 DEF SendStep, RecvStep
      <4> QED
        BY <2>2, <4>2, <4>3 DEF Meet
    <3>4. ASSUME NEW x \in Ranks
          PROVE  Takes(k, c, r, p, s, q, x, x)
      <4>1. p \in Nat /\ p + 1 \in Nat /\ s # 0
        BY <1>5
      <4>2. /\ Held(k, c, r, p, x) = From(c, {o \in Ranks : o < p}, x)
            /\ Held(k, c, r, p + 1, x) = From(c, {o \in Ranks : o < p + 1}, x)
            /\ Held(k, c, s, q, x) = From(c, {s}, x)
        BY <1>2, <1>3, <1>5, <3>3, <4>1
      <4>3. /\ {o \in Ranks : o < p + 1} = {o \in Ranks : o < p} \union {s}
            /\ {o \in Ranks : o < p} \intersect {s} = {}
        BY <3>2, WorldFacts
      <4>4. /\ From(c, {o \in Ranks : o < p}, x) \union From(c, {s}, x)
                 = From(c, {o \in Ranks : o < p} \union {s}, x)
            /\ From(c, {o \in Ranks : o < p}, x) \intersect From(c, {s}, x) = {}
        BY <4>3, FromUnion, FromDisjoint
      <4> QED
        BY <3>2, <4>2, <4>3, <4>4 DEF Takes
    <3> QED
      BY <3>2, <3>3, <3>4, WholeCombines
  <2>3. ASSUME NEW p \in 1 .. 2 * WorldSize - 2, Script(k, r)[p].from = {}
        PROVE  Passes(k, c, r, p)
    <3>1. p >= WorldSize /\ p \in Nat /\ p + 1 \in Nat /\ p + 1 >= WorldSize
      <4>1. RecvStep(p, 1, Whole, "add", "same").from # {}
        BY DEF RecvStep
      <4>2. p < WorldSize => Script(k, r)[p] = RecvStep(p, 1, Whole, "add", "same")
        BY <2>1
      <4> QED
        BY <1>4, <2>3, <4>1, <4>2
    <3>2. ASSUME NEW x \in Keys
          PROVE  Held(k, c, r, p + 1, x) = Held(k, c, r, p, x)
      <4>1. CASE x \in Ranks
        <5>1. /\ Held(k, c, r, p, x) = From(c, {o \in Ranks : o < p}, x)
              /\ Held(k, c, r, p + 1, x) = From(c, {o \in Ranks : o < p + 1}, x)
          BY <1>2, <1>5, <3>1, <4>1
        <5> QED
          BY <1>4, <3>1, <5>1
      <4>2. CASE x \notin Ranks
        BY <4>2, HeldOutside
      <4> QED
        BY <4>1, <4>2
    <3> QED
      BY <3>2 DEF Passes
  <2>4. ResultOf(k, r, HeldChunks(k, c, r, 2 * WorldSize - 1)) = Expected(k, c, r)
    <3>1. 2 * WorldSize - 1 \in Nat /\ 2 * WorldSize - 1 >= WorldSize
      BY <1>4
    <3>2. ResultKeys(k, r) = Whole
      BY DEF ResultKeys
    <3>3. Expected(k, c, r) = [i \in 1 .. WorldSize |-> SumOf(c, i - 1)]
      BY DEF Expected
    <3>4. ASSUME NEW i \in 1 .. WorldSize
          PROVE  Held(k, c, r, 2 * WorldSize - 1, i - 1) = {<<c, q, i - 1>> : q \in Ranks}
      <4>1. i - 1 \in Ranks
        BY WorldFacts
      <4>2. Held(k, c, r, 2 * WorldSize - 1, i - 1)
              = From(c, {o \in Ranks : o < 2 * WorldSize - 1}, i - 1)
        BY <1>2, <1>5, <3>1, <4>1
      <4> QED
        BY <1>4, <3>1, <4>2 DEF From
    <3>5. ResultOf(k, r, HeldChunks(k, c, r, 2 * WorldSize - 1))
            = [i \in 1 .. WorldSize |-> SetToBag(Held(k, c, r, 2 * WorldSize - 1, i - 1))]
      BY <3>2, WholeResult
    <3> QED
      BY <3>3, <3>4, <3>5 DEF SumOf
  <2>5. 2 * WorldSize - 2 \in Nat \ {0} /\ (2 * WorldSize - 2) + 1 = 2 * WorldSize - 1
    BY WorldFacts
  <2> QED
    BY <2>1, <2>2, <2>3, <2>4, <2>5 DEF Works
<1>6. CASE r # 0
  <2>1. /\ DOMAIN Script(k, r) = {1, 2} /\ Len(Script(k, r)) = 2
        /\ Script(k, r)[1] = SendStep(0, 1, Whole)
        /\ Script(k, r)[2] = RecvStep(0, 2, Whole, "store", "same")
    BY <1>1, <1>6, CentralizedSteps
  <2>2. Script(k, r)[1].from = {} /\ Script(k, r)[2].from = {0} /\ Script(k, r)[2].tag = <<2, 0>>
    BY <2>1 DEF SendStep, RecvStep
  <2>3. Passes(k, c, r, 1)
    <3>1. ASSUME NEW x \in Keys
          PROVE  Held(k, c, r, 1 + 1, x) = Held(k, c, r, 1, x)
      <4>1. CASE x \in Ranks
        <5>1. 1 + 1 \in {1, 2}
          OBVIOUS
        <5> QED
          BY <1>3, <1>6, <4>1, <5>1
      <4>2. CASE x \notin Ranks
        BY <4>2, HeldOutside
      <4> QED
        BY <4>1, <4>2
    <3> QED
      BY <3>1 DEF Passes
  <2>4. ASSUME NEW s \in Ranks \ {r}, NEW q \in DOMAIN Script(k, s), Meet(k, r, 2, s, q)
        PROVE  Combines(k, c, r, 2, s, q)
    <3>1. s = 0 /\ Script(k, s)[q].tag = <<2, 0>> /\ r \in Script(k, s)[q].to
      BY <2>2, <2>4 DEF Meet
    <3>2. /\ q \in 1 .. 2 * WorldSize - 2
          /\ Script(k, s)[q] = IF q < WorldSize THEN RecvStep(q, 1, Whole, "add", "same")
                                                ELSE SendStep(q - WorldSize + 1, 2, Whole)
      BY <1>1, <1>4, <3>1, CentralizedSteps
    <3>3. q >= WorldSize /\ q \in Nat /\ Script(k, s)[q] = SendStep(q - WorldSize + 1, 2, Whole)
      <4>1. RecvStep(q, 1, Whole, "add", "same").to = {}
        BY DEF RecvStep
      <4> QED
        BY <1>4, <3>1, <3>2, <4>1
    <3>4. r = q - WorldSize + 1 /\ Script(k, s)[q].out = Whole
      BY <3>1, <3>3 DEF SendStep
    <3>5. Script(k, r)[2].into = Whole /\ Script(k, r)[2].how = "store" /\ 2 + 1 = 3
      BY <2>1 DEF RecvStep
    <3>6. ASSUME NEW x \in Ranks
          PROVE  Takes(k, c, r, 2, s, q, x, x)
      <4>1. Held(k, c, s, q, x) = From(c, {o \in Ranks : o < q}, x)
        BY <1>2, <3>1, <3>3
      <4>2. Held(k, c, r, 2 + 1, x) = From(c, Ranks, x)
        <5>1. Held(k, c, r, 3, x) = From(c, Ranks, x)
          BY <1>3, <1>6
        <5> QED
          BY <1>4, <5>1
      <4>3. {o \in Ranks : o < q} = Ranks
        BY <1>4, <3>3
      <4> QED
        BY <3>5, <4>1, <4>2, <4>3 DEF Takes
    <3> QED
      BY <3>4, <3>5, <3>6, WholeCombines
  <2>5. ResultOf(k, r, HeldChunks(k, c, r, 2 + 1)) = Expected(k, c, r)
    <3>2. ResultKeys(k, r) = Whole
      BY DEF ResultKeys
    <3>3. Expected(k, c, r) = [i \in 1 .. WorldSize |-> SumOf(c, i - 1)]
      BY DEF Expected
    <3>4. ASSUME NEW i \in 1 .. WorldSize
          PROVE  Held(k, c, r, 2 + 1, i - 1) = {<<c, q, i - 1>> : q \in Ranks}
      <4>1. i - 1 \in Ranks
        BY WorldFacts
      <4>2. Held(k, c, r, 2 + 1, i - 1) = From(c, Ranks, i - 1)
        <5>1. Held(k, c, r, 3, i - 1) = From(c, Ranks, i - 1)
          BY <1>3, <1>6, <4>1
        <5> QED
          BY <1>4, <5>1
      <4> QED
        BY <4>2 DEF From
    <3>5. ResultOf(k, r, HeldChunks(k, c, r, 2 + 1))
            = [i \in 1 .. WorldSize |-> SetToBag(Held(k, c, r, 2 + 1, i - 1))]
      BY <3>2, WholeResult
    <3> QED
      BY <3>3, <3>4, <3>5 DEF SumOf
  <2>6. ASSUME NEW p \in {1, 2}
        PROVE  /\ Script(k, r)[p].from = {} => Passes(k, c, r, p)
               /\ \A s \in Ranks \ {r} : \A q \in DOMAIN Script(k, s) :
                    Meet(k, r, p, s, q) => Combines(k, c, r, p, s, q)
    <3>1. CASE p = 1
      BY <2>2, <2>3, <3>1 DEF Meet
    <3>2. CASE p = 2
      BY <2>2, <2>4, <3>2
    <3> QED
      BY <3>1, <3>2
  <2> QED
    BY <2>1, <2>5, <2>6 DEF Works
<1> QED
  BY <1>5, <1>6

LEMMA AllGatherWorks ==
  ASSUME NEW k \in AnyCall, k.kind = "AllGather", NEW c, NEW r \in Ranks
  PROVE  Works(k, c, r)
<1>1. \A s \in Ranks : Script(k, s) = AllGather(s)
  BY ScriptIs
<1>2. ASSUME NEW p \in Nat, NEW x \in Ranks
      PROVE  /\ x < p => Held(k, c, 0, p, x) = From(c, {x}, 0)
             /\ x >= p => Held(k, c, 0, p, x) = From(c, {0}, x)
  BY WorldFacts DEF Held
<1>3. ASSUME NEW s \in Ranks, s # 0, NEW x \in Ranks
      PROVE  /\ \A p \in {1, 2} : Held(k, c, s, p, x) = From(c, {s}, x)
             /\ Held(k, c, s, 3, x) = From(c, {x}, 0)
  BY <1>3, WorldFacts DEF Held
<1>4. /\ \A p \in Nat : p >= WorldSize => {q \in Ranks : q < p} = Ranks
      /\ 0 \in Ranks /\ WorldSize \in Nat /\ WorldSize >= 2
      /\ 2 + 1 = 3
  BY WorldFacts
<1>5. CASE r = 0
  <2>1. /\ DOMAIN Script(k, r) = 1 .. 2 * WorldSize - 2 /\ Len(Script(k, r)) = 2 * WorldSize - 2
        /\ \A p \in 1 .. 2 * WorldSize - 2 :
             Script(k, r)[p] = IF p < WorldSize THEN RecvStep(p, 1, <<p>>, "store", "gather")
                                                ELSE SendStep(p - WorldSize + 1, 2, Whole)
    BY <1>1, <1>5, AllGatherSteps
  <2>2. ASSUME NEW p \in 1 .. 2 * WorldSize - 2, NEW s \in Ranks \ {r},
               NEW q \in DOMAIN Script(k, s), Meet(k, r, p, s, q)
        PROVE  Combines(k, c, r, p, s, q)
    <3>1. p < WorldSize /\ Script(k, r)[p] = RecvStep(p, 1, <<p>>, "store", "gather")
      <4>1. Script(k, r)[p].from # {}
        BY <2>2 DEF Meet
      <4>2. SendStep(p - WorldSize + 1, 2, Whole).from = {}
        BY DEF SendStep
      <4> QED
        BY <2>1, <4>1, <4>2
    <3>2. s = p /\ Script(k, r)[p].into = <<p>> /\ Script(k, r)[p].how = "store"
      BY <2>2, <3>1 DEF Meet, RecvStep
    <3>3. q = 1 /\ Script(k, s)[q].out = <<0>>
      <4>1. s \in Ranks /\ s # 0
        BY <1>5
      <4>2. /\ DOMAIN Script(k, s) = {1, 2}
            /\ Script(k, s)[1] = SendStep(0, 1, <<0>>)
            /\ Script(k, s)[2] = RecvStep(0, 2, Whole, "store", "none")
        BY <1>1, <4>1, AllGatherSteps
      <4>3. Script(k, s)[2].to = {} /\ Script(k, s)[1].out = <<0>>
        BY <4>2 DEF SendStep, RecvStep
      <4> QED
        BY <2>2, <4>2, <4>3 DEF Meet
    <3>4. p \in Nat /\ p + 1 \in Nat /\ p \in Ranks /\ s # 0
      BY <1>5, <3>2
    <3>5. ASSUME NEW x \in Keys \ {p}
          PROVE  Held(k, c, r, p + 1, x) = Held(k, c, r, p, x)
      <4>1. CASE x \in Ranks
        <5>1. x \in Nat /\ (x < p + 1 <=> x < p) /\ (x >= p + 1 <=> x >= p) /\ (x < p \/ x >= p)
          BY <3>4, <4>1, WorldFacts
        <5> QED
          BY <1>2, <1>5, <3>4, <4>1, <5>1
      <4>2. CASE x \notin Ranks
        BY <4>2, HeldOutside
      <4> QED
        BY <4>1, <4>2
    <3>6. Takes(k, c, r, p, s, q, p, 0)
      <4>1. p < p + 1
        BY <3>4
      <4>2. Held(k, c, r, p + 1, p) = From(c, {p}, 0)
        BY <1>2, <1>5, <3>4, <4>1
      <4>3. Held(k, c, s, q, 0) = From(c, {s}, 0)
        BY <1>3, <1>4, <3>3, <3>4
      <4> QED
        BY <3>2, <4>2, <4>3 DEF Takes
    <3> QED
      BY <3>2, <3>3, <3>5, <3>6, OneCombines
  <2>3. ASSUME NEW p \in 1 .. 2 * WorldSize - 2, Script(k, r)[p].from = {}
        PROVE  Passes(k, c, r, p)
    <3>1. p >= WorldSize /\ p \in Nat /\ p + 1 \in Nat /\ p + 1 >= WorldSize
      <4>1. RecvStep(p, 1, <<p>>, "store", "gather").from # {}
        BY DEF RecvStep
      <4>2. p < WorldSize => Script(k, r)[p] = RecvStep(p, 1, <<p>>, "store", "gather")
        BY <2>1
      <4> QED
        BY <1>4, <2>3, <4>1, <4>2
    <3>2. ASSUME NEW x \in Keys
          PROVE  Held(k, c, r, p + 1, x) = Held(k, c, r, p, x)
      <4>1. CASE x \in Ranks
        <5>1. x < p /\ x < p + 1
          BY <3>1, <4>1, WorldFacts
        <5> QED
          BY <1>2, <1>5, <3>1, <4>1, <5>1
      <4>2. CASE x \notin Ranks
        BY <4>2, HeldOutside
      <4> QED
        BY <4>1, <4>2
    <3> QED
      BY <3>2 DEF Passes
  <2>4. ResultOf(k, r, HeldChunks(k, c, r, 2 * WorldSize - 1)) = Expected(k, c, r)
    <3>1. 2 * WorldSize - 1 \in Nat /\ 2 * WorldSize - 1 >= WorldSize
      BY <1>4
    <3>2. ResultKeys(k, r) = Whole
      BY DEF ResultKeys
    <3>3. Expected(k, c, r) = [i \in 1 .. WorldSize |-> SetToBag({<<c, i - 1, 0>>})]
      BY DEF Expected
    <3>4. ASSUME NEW i \in 1 .. WorldSize
          PROVE  Held(k, c, r, 2 * WorldSize - 1, i - 1) = {<<c, i - 1, 0>>}
      <4>1. i - 1 \in Ranks
        BY WorldFacts
      <4>2. i - 1 < 2 * WorldSize - 1
        BY WorldFacts
      <4>3. Held(k, c, r, 2 * WorldSize - 1, i - 1) = From(c, {i - 1}, 0)
        BY <1>2, <1>5, <3>1, <4>1, <4>2
      <4> QED
        BY <4>3 DEF From
    <3>5. ResultOf(k, r, HeldChunks(k, c, r, 2 * WorldSize - 1))
            = [i \in 1 .. WorldSize |-> SetToBag(Held(k, c, r, 2 * WorldSize - 1, i - 1))]
      BY <3>2, WholeResult
    <3> QED
      BY <3>3, <3>4, <3>5 DEF SumOf
  <2>5. 2 * WorldSize - 2 \in Nat \ {0} /\ (2 * WorldSize - 2) + 1 = 2 * WorldSize - 1
    BY WorldFacts
  <2> QED
    BY <2>1, <2>2, <2>3, <2>4, <2>5 DEF Works
<1>6. CASE r # 0
  <2>1. /\ DOMAIN Script(k, r) = {1, 2} /\ Len(Script(k, r)) = 2
        /\ Script(k, r)[1] = SendStep(0, 1, <<0>>)
        /\ Script(k, r)[2] = RecvStep(0, 2, Whole, "store", "none")
    BY <1>1, <1>6, AllGatherSteps
  <2>2. Script(k, r)[1].from = {} /\ Script(k, r)[2].from = {0} /\ Script(k, r)[2].tag = <<2, 0>>
    BY <2>1 DEF SendStep, RecvStep
  <2>3. Passes(k, c, r, 1)
    <3>1. ASSUME NEW x \in Keys
          PROVE  Held(k, c, r, 1 + 1, x) = Held(k, c, r, 1, x)
      <4>1. CASE x \in Ranks
        <5>1. 1 + 1 \in {1, 2}
          OBVIOUS
        <5> QED
          BY <1>3, <1>6, <4>1, <5>1
      <4>2. CASE x \notin Ranks
        BY <4>2, HeldOutside
      <4> QED
        BY <4>1, <4>2
    <3> QED
      BY <3>1 DEF Passes
  <2>4. ASSUME NEW s \in Ranks \ {r}, NEW q \in DOMAIN Script(k, s), Meet(k, r, 2, s, q)
        PROVE  Combines(k, c, r, 2, s, q)
    <3>1. s = 0 /\ Script(k, s)[q].tag = <<2, 0>> /\ r \in Script(k, s)[q].to
      BY <2>2, <2>4 DEF Meet
    <3>2. /\ q \in 1 .. 2 * WorldSize - 2
          /\ Script(k, s)[q] = IF q < WorldSize THEN RecvStep(q, 1, <<q>>, "store", "gather")
                                                ELSE SendStep(q - WorldSize + 1, 2, Whole)
      BY <1>1, <1>4, <3>1, AllGatherSteps
    <3>3. q >= WorldSize /\ q \in Nat /\ Script(k, s)[q] = SendStep(q - WorldSize + 1, 2, Whole)
      <4>1. RecvStep(q, 1, <<q>>, "store", "gather").to = {}
        BY DEF RecvStep
      <4> QED
        BY <1>4, <3>1, <3>2, <4>1
    <3>4. r = q - WorldSize + 1 /\ Script(k, s)[q].out = Whole
      BY <3>1, <3>3 DEF SendStep
    <3>5. Script(k, r)[2].into = Whole /\ Script(k, r)[2].how = "store" /\ 2 + 1 = 3
      BY <2>1 DEF RecvStep
    <3>6. ASSUME NEW x \in Ranks
          PROVE  Takes(k, c, r, 2, s, q, x, x)
      <4>1. x < q
        BY <3>3, WorldFacts
      <4>2. Held(k, c, s, q, x) = From(c, {x}, 0)
        BY <1>2, <3>1, <3>3, <4>1
      <4>3. Held(k, c, r, 2 + 1, x) = From(c, {x}, 0)
        <5>1. Held(k, c, r, 3, x) = From(c, {x}, 0)
          BY <1>3, <1>6
        <5> QED
          BY <1>4, <5>1
      <4> QED
        BY <3>5, <4>2, <4>3 DEF Takes
    <3> QED
      BY <3>4, <3>5, <3>6, WholeCombines
  <2>5. ResultOf(k, r, HeldChunks(k, c, r, 2 + 1)) = Expected(k, c, r)
    <3>2. ResultKeys(k, r) = Whole
      BY DEF ResultKeys
    <3>3. Expected(k, c, r) = [i \in 1 .. WorldSize |-> SetToBag({<<c, i - 1, 0>>})]
      BY DEF Expected
    <3>4. ASSUME NEW i \in 1 .. WorldSize
          PROVE  Held(k, c, r, 2 + 1, i - 1) = {<<c, i - 1, 0>>}
      <4>1. i - 1 \in Ranks
        BY WorldFacts
      <4>2. Held(k, c, r, 2 + 1, i - 1) = From(c, {i - 1}, 0)
        <5>1. Held(k, c, r, 3, i - 1) = From(c, {i - 1}, 0)
          BY <1>3, <1>6, <4>1
        <5> QED
          BY <1>4, <5>1
      <4> QED
        BY <4>2 DEF From
    <3>5. ResultOf(k, r, HeldChunks(k, c, r, 2 + 1))
            = [i \in 1 .. WorldSize |-> SetToBag(Held(k, c, r, 2 + 1, i - 1))]
      BY <3>2, WholeResult
    <3> QED
      BY <3>3, <3>4, <3>5 DEF SumOf
  <2>6. ASSUME NEW p \in {1, 2}
        PROVE  /\ Script(k, r)[p].from = {} => Passes(k, c, r, p)
               /\ \A s \in Ranks \ {r} : \A q \in DOMAIN Script(k, s) :
                    Meet(k, r, p, s, q) => Combines(k, c, r, p, s, q)
    <3>1. CASE p = 1
      BY <2>2, <2>3, <3>1 DEF Meet
    <3>2. CASE p = 2
      BY <2>2, <2>4, <3>2
    <3> QED
      BY <3>1, <3>2
  <2> QED
    BY <2>1, <2>5, <2>6 DEF Works
<1> QED
  BY <1>5, <1>6

LEMMA ReduceScatterWorks ==
  ASSUME NEW k \in AnyCall, k.kind = "ReduceScatter", NEW c, NEW r \in Ranks
  PROVE  Works(k, c, r)
<1>1. \A s \in Ranks : Script(k, s) = ReduceScatter(s)
  BY ScriptIs
<1>2. ASSUME NEW p \in Nat, NEW x \in Ranks
      PROVE  Held(k, c, 0, p, x) = From(c, {q \in Ranks : q < p}, x)
  BY WorldFacts DEF Held
<1>3. ASSUME NEW s \in Ranks, s # 0, NEW x \in Ranks
      PROVE  /\ \A p \in {1, 2} : Held(k, c, s, p, x) = From(c, {s}, x)
             /\ Held(k, c, s, 3, x) = IF x = 0 THEN From(c, Ranks, s) ELSE From(c, {s}, x)
  BY <1>3, WorldFacts DEF Held
<1>4. /\ \A p \in Nat : p >= WorldSize => {q \in Ranks : q < p} = Ranks
      /\ 0 \in Ranks /\ WorldSize \in Nat /\ WorldSize >= 2
      /\ 2 + 1 = 3
  BY WorldFacts
<1>5. CASE r = 0
  <2>1. /\ DOMAIN Script(k, r) = 1 .. 2 * WorldSize - 2 /\ Len(Script(k, r)) = 2 * WorldSize - 2
        /\ \A p \in 1 .. 2 * WorldSize - 2 :
             Script(k, r)[p] = IF p < WorldSize THEN RecvStep(p, 1, Whole, "add", "same")
                                                ELSE SendStep(p - WorldSize + 1, 2, <<p - WorldSize + 1>>)
    BY <1>1, <1>5, ReduceScatterSteps
  <2>2. ASSUME NEW p \in 1 .. 2 * WorldSize - 2, NEW s \in Ranks \ {r},
               NEW q \in DOMAIN Script(k, s), Meet(k, r, p, s, q)
        PROVE  Combines(k, c, r, p, s, q)
    <3>1. p < WorldSize /\ Script(k, r)[p] = RecvStep(p, 1, Whole, "add", "same")
      <4>1. Script(k, r)[p].from # {}
        BY <2>2 DEF Meet
      <4>2. SendStep(p - WorldSize + 1, 2, <<p - WorldSize + 1>>).from = {}
        BY DEF SendStep
      <4> QED
        BY <2>1, <4>1, <4>2
    <3>2. s = p /\ Script(k, r)[p].into = Whole /\ Script(k, r)[p].how = "add"
      BY <2>2, <3>1 DEF Meet, RecvStep
    <3>3. q = 1 /\ Script(k, s)[q].out = Whole
      <4>1. s \in Ranks /\ s # 0
        BY <1>5
      <4>2. /\ DOMAIN Script(k, s) = {1, 2}
            /\ Script(k, s)[1] = SendStep(0, 1, Whole)
            /\ Script(k, s)[2] = RecvStep(0, 2, <<0>>, "store", "none")
        BY <1>1, <4>1, ReduceScatterSteps
      <4>3. Script(k, s)[2].to = {} /\ Script(k, s)[1].out = Whole
        BY <4>2 DEF SendStep, RecvStep
      <4> QED
        BY <2>2, <4>2, <4>3 DEF Meet
    <3>4. ASSUME NEW x \in Ranks
          PROVE  Takes(k, c, r, p, s, q, x, x)
      <4>1. p \in Nat /\ p + 1 \in Nat /\ s # 0
        BY <1>5
      <4>2. /\ Held(k, c, r, p, x) = From(c, {o \in Ranks : o < p}, x)
            /\ Held(k, c, r, p + 1, x) = From(c, {o \in Ranks : o < p + 1}, x)
            /\ Held(k, c, s, q, x) = From(c, {s}, x)
        BY <1>2, <1>3, <1>5, <3>3, <4>1
      <4>3. /\ {o \in Ranks : o < p + 1} = {o \in Ranks : o < p} \union {s}
            /\ {o \in Ranks : o < p} \intersect {s} = {}
        BY <3>2, WorldFacts
      <4>4. /\ From(c, {o \in Ranks : o < p}, x) \union From(c, {s}, x)
                 = From(c, {o \in Ranks : o < p} \union {s}, x)
            /\ From(c, {o \in Ranks : o < p}, x) \intersect From(c, {s}, x) = {}
        BY <4>3, FromUnion, FromDisjoint
      <4> QED
        BY <3>2, <4>2, <4>3, <4>4 DEF Takes
    <3> QED
      BY <3>2, <3>3, <3>4, WholeCombines
  <2>3. ASSUME NEW p \in 1 .. 2 * WorldSize - 2, Script(k, r)[p].from = {}
        PROVE  Passes(k, c, r, p)
    <3>1. p >= WorldSize /\ p \in Nat /\ p + 1 \in Nat /\ p + 1 >= WorldSize
      <4>1. RecvStep(p, 1, Whole, "add", "same").from # {}
        BY DEF RecvStep
      <4>2. p < WorldSize => Script(k, r)[p] = RecvStep(p, 1, Whole, "add", "same")
        BY <2>1
      <4> QED
        BY <1>4, <2>3, <4>1, <4>2
    <3>2. ASSUME NEW x \in Keys
          PROVE  Held(k, c, r, p + 1, x) = Held(k, c, r, p, x)
      <4>1. CASE x \in Ranks
        <5>1. /\ Held(k, c, r, p, x) = From(c, {o \in Ranks : o < p}, x)
              /\ Held(k, c, r, p + 1, x) = From(c, {o \in Ranks : o < p + 1}, x)
          BY <1>2, <1>5, <3>1, <4>1
        <5> QED
          BY <1>4, <3>1, <5>1
      <4>2. CASE x \notin Ranks
        BY <4>2, HeldOutside
      <4> QED
        BY <4>1, <4>2
    <3> QED
      BY <3>2 DEF Passes
  <2>4. ResultOf(k, r, HeldChunks(k, c, r, 2 * WorldSize - 1)) = Expected(k, c, r)
    <3>1. 2 * WorldSize - 1 \in Nat /\ 2 * WorldSize - 1 >= WorldSize
      BY <1>4
    <3>2. ResultKeys(k, r) = <<0>>
      BY DEF ResultKeys
    <3>3. Expected(k, c, r) = <<SumOf(c, r)>>
      BY DEF Expected
    <3>4. Held(k, c, r, 2 * WorldSize - 1, 0) = {<<c, q, r>> : q \in Ranks}
      <4>1. Held(k, c, r, 2 * WorldSize - 1, 0) = From(c, {o \in Ranks : o < 2 * WorldSize - 1}, 0)
        BY <1>2, <1>4, <1>5, <3>1
      <4> QED
        BY <1>4, <1>5, <3>1, <4>1 DEF From
    <3>5. ResultOf(k, r, HeldChunks(k, c, r, 2 * WorldSize - 1)) = <<SetToBag(Held(k, c, r, 2 * WorldSize - 1, 0))>>
      <4>1. 0 \in Keys
        BY <1>4, KeysAre
      <4> QED
        BY <3>2, <4>1, OneResult
    <3> QED
      BY <3>3, <3>4, <3>5 DEF SumOf
  <2>5. 2 * WorldSize - 2 \in Nat \ {0} /\ (2 * WorldSize - 2) + 1 = 2 * WorldSize - 1
    BY WorldFacts
  <2> QED
    BY <2>1, <2>2, <2>3, <2>4, <2>5 DEF Works
<1>6. CASE r # 0
  <2>1. /\ DOMAIN Script(k, r) = {1, 2} /\ Len(Script(k, r)) = 2
        /\ Script(k, r)[1] = SendStep(0, 1, Whole)
        /\ Script(k, r)[2] = RecvStep(0, 2, <<0>>, "store", "none")
    BY <1>1, <1>6, ReduceScatterSteps
  <2>2. Script(k, r)[1].from = {} /\ Script(k, r)[2].from = {0} /\ Script(k, r)[2].tag = <<2, 0>>
    BY <2>1 DEF SendStep, RecvStep
  <2>3. Passes(k, c, r, 1)
    <3>1. ASSUME NEW x \in Keys
          PROVE  Held(k, c, r, 1 + 1, x) = Held(k, c, r, 1, x)
      <4>1. CASE x \in Ranks
        <5>1. 1 + 1 \in {1, 2}
          OBVIOUS
        <5> QED
          BY <1>3, <1>6, <4>1, <5>1
      <4>2. CASE x \notin Ranks
        BY <4>2, HeldOutside
      <4> QED
        BY <4>1, <4>2
    <3> QED
      BY <3>1 DEF Passes
  <2>4. ASSUME NEW s \in Ranks \ {r}, NEW q \in DOMAIN Script(k, s), Meet(k, r, 2, s, q)
        PROVE  Combines(k, c, r, 2, s, q)
    <3>1. s = 0 /\ Script(k, s)[q].tag = <<2, 0>> /\ r \in Script(k, s)[q].to
      BY <2>2, <2>4 DEF Meet
    <3>2. /\ q \in 1 .. 2 * WorldSize - 2
          /\ Script(k, s)[q] = IF q < WorldSize THEN RecvStep(q, 1, Whole, "add", "same")
                                                ELSE SendStep(q - WorldSize + 1, 2, <<q - WorldSize + 1>>)
      BY <1>1, <1>4, <3>1, ReduceScatterSteps
    <3>3. q >= WorldSize /\ q \in Nat /\ Script(k, s)[q] = SendStep(q - WorldSize + 1, 2, <<q - WorldSize + 1>>)
      <4>1. RecvStep(q, 1, Whole, "add", "same").to = {}
        BY DEF RecvStep
      <4> QED
        BY <1>4, <3>1, <3>2, <4>1
    <3>4. r = q - WorldSize + 1 /\ Script(k, s)[q].out = <<q - WorldSize + 1>>
      BY <3>1, <3>3 DEF SendStep
    <3>5. Script(k, r)[2].into = <<0>> /\ Script(k, r)[2].how = "store" /\ 2 + 1 = 3
      BY <2>1 DEF RecvStep
    <3>6. ASSUME NEW x \in Keys \ {0}
          PROVE  Held(k, c, r, 2 + 1, x) = Held(k, c, r, 2, x)
      <4>1. CASE x \in Ranks
        <5>1. Held(k, c, r, 3, x) = From(c, {r}, x) /\ Held(k, c, r, 2, x) = From(c, {r}, x)
          BY <1>3, <1>6, <4>1
        <5> QED
          BY <1>4, <5>1
      <4>2. CASE x \notin Ranks
        BY <4>2, HeldOutside
      <4> QED
        BY <4>1, <4>2
    <3>7. Takes(k, c, r, 2, s, q, 0, r)
      <4>1. Held(k, c, s, q, r) = From(c, {o \in Ranks : o < q}, r)
        BY <1>2, <3>1, <3>3
      <4>2. Held(k, c, r, 2 + 1, 0) = From(c, Ranks, r)
        <5>1. Held(k, c, r, 3, 0) = From(c, Ranks, r)
          BY <1>3, <1>4, <1>6
        <5> QED
          BY <1>4, <5>1
      <4>3. {o \in Ranks : o < q} = Ranks
        BY <1>4, <3>3
      <4> QED
        BY <3>5, <4>1, <4>2, <4>3 DEF Takes
    <3> QED
      BY <3>4, <3>5, <3>6, <3>7, OneCombines
  <2>5. ResultOf(k, r, HeldChunks(k, c, r, 2 + 1)) = Expected(k, c, r)
    <3>2. ResultKeys(k, r) = <<0>>
      BY DEF ResultKeys
    <3>3. Expected(k, c, r) = <<SumOf(c, r)>>
      BY DEF Expected
    <3>4. Held(k, c, r, 2 + 1, 0) = {<<c, q, r>> : q \in Ranks}
      <4>1. Held(k, c, r, 2 + 1, 0) = From(c, Ranks, r)
        <5>1. Held(k, c, r, 3, 0) = From(c, Ranks, r)
          BY <1>3, <1>4, <1>6
        <5> QED
          BY <1>4, <5>1
      <4> QED
        BY <4>1 DEF From
    <3>5. ResultOf(k, r, HeldChunks(k, c, r, 2 + 1)) = <<SetToBag(Held(k, c, r, 2 + 1, 0))>>
      <4>1. 0 \in Keys
        BY <1>4, KeysAre
      <4> QED
        BY <3>2, <4>1, OneResult
    <3> QED
      BY <3>3, <3>4, <3>5 DEF SumOf
  <2>6. ASSUME NEW p \in {1, 2}
        PROVE  /\ Script(k, r)[p].from = {} => Passes(k, c, r, p)
               /\ \A s \in Ranks \ {r} : \A q \in DOMAIN Script(k, s) :
                    Meet(k, r, p, s, q) => Combines(k, c, r, p, s, q)
    <3>1. CASE p = 1
      BY <2>2, <2>3, <3>1 DEF Meet
    <3>2. CASE p = 2
      BY <2>2, <2>4, <3>2
    <3> QED
      BY <3>1, <3>2
  <2> QED
    BY <2>1, <2>5, <2>6 DEF Works
<1> QED
  BY <1>5, <1>6

(* Two ranks are not equally far from a third, in either direction. *)
LEMMA BehindUnique ==
  ASSUME NEW r \in Ranks, NEW q \in Ranks, NEW x \in Ranks
  PROVE  /\ Behind(r, x) = Behind(q, x) => r = q
         /\ Behind(x, r) = Behind(x, q) => r = q
<1>1. /\ Behind(r, x) = IF x <= r THEN r - x ELSE r - x + WorldSize
      /\ Behind(q, x) = IF x <= q THEN q - x ELSE q - x + WorldSize
      /\ Behind(x, r) = IF r <= x THEN x - r ELSE x - r + WorldSize
      /\ Behind(x, q) = IF q <= x THEN x - q ELSE x - q + WorldSize
  BY BehindIs
<1> QED
  BY <1>1, WorldFacts

LEMMA PreviousIs ==
  ASSUME NEW r \in Ranks
  PROVE  /\ PreviousOf(r) = IF r = 0 THEN WorldSize - 1 ELSE r - 1
         /\ PreviousOf(r) \in Ranks
<1>1. r + WorldSize - 1 \in 0 .. 3 * WorldSize - 1
  BY WorldFacts
<1> QED
  BY <1>1, ModIs, WorldFacts DEF PreviousOf

(* The chunk that sum p, and the one that copy p, moves from the previous  *)
(* rank to r.                                                              *)
LEMMA SumChunk ==
  ASSUME NEW r \in Ranks, NEW p \in 1 .. WorldSize - 1,
         NEW x, x = Mod(r + WorldSize - (p - 1) - 1)
  PROVE  /\ x \in Ranks /\ Mod(PreviousOf(r) + WorldSize - (p - 1)) = x
         /\ Behind(r, x) = p /\ Behind(PreviousOf(r), x) = p - 1
<1> DEFINE s == PreviousOf(r)
<1>1. s = (IF r = 0 THEN WorldSize - 1 ELSE r - 1) /\ s \in Ranks
  BY PreviousIs
<1> HIDE DEF s
<1>2. /\ r + WorldSize - (p - 1) - 1 \in 0 .. 3 * WorldSize - 1
      /\ s + WorldSize - (p - 1) \in 0 .. 3 * WorldSize - 1
  BY <1>1, WorldFacts
<1>3. x = (IF p <= r THEN r - p ELSE r - p + WorldSize) /\ x \in Ranks
  BY <1>2, ModIs, WorldFacts
<1>4. Mod(s + WorldSize - (p - 1)) = x
  BY <1>1, <1>2, <1>3, ModIs, WorldFacts
<1>5. /\ Behind(r, x) = IF x <= r THEN r - x ELSE r - x + WorldSize
      /\ Behind(s, x) = IF x <= s THEN s - x ELSE s - x + WorldSize
  BY <1>1, <1>3, BehindIs
<1>6. Behind(r, x) = p
  BY <1>3, <1>5, WorldFacts
<1>7. Behind(s, x) = p - 1
  <2>1. CASE p <= r
    BY <1>1, <1>3, <1>5, <2>1, WorldFacts
  <2>2. CASE ~(p <= r)
    <3>1. x = r - p + WorldSize
      BY <1>3, <2>2, WorldFacts
    <3>2. CASE r = 0
      BY <1>1, <1>5, <2>2, <3>1, <3>2, WorldFacts
    <3>3. CASE r # 0
      BY <1>1, <1>5, <2>2, <3>1, <3>3, WorldFacts
    <3> QED
      BY <3>2, <3>3
  <2> QED
    BY <2>1, <2>2
<1> QED
  BY <1>3, <1>4, <1>6, <1>7 DEF s

LEMMA CopyChunk ==
  ASSUME NEW r \in Ranks, NEW p \in 1 .. WorldSize - 1,
         NEW x, x = Mod(r + WorldSize - (p - 1))
  PROVE  /\ x \in Ranks /\ Mod(PreviousOf(r) + 1 + WorldSize - (p - 1)) = x
         /\ Behind(r, x) = p - 1
         /\ Behind(PreviousOf(r), x) = IF p = 1 THEN WorldSize - 1 ELSE p - 2
<1> DEFINE s == PreviousOf(r)
<1>1. s = (IF r = 0 THEN WorldSize - 1 ELSE r - 1) /\ s \in Ranks
  BY PreviousIs
<1> HIDE DEF s
<1>2. /\ r + WorldSize - (p - 1) \in 0 .. 3 * WorldSize - 1
      /\ s + 1 + WorldSize - (p - 1) \in 0 .. 3 * WorldSize - 1
  BY <1>1, WorldFacts
<1>3. x = (IF p - 1 <= r THEN r - (p - 1) ELSE r - (p - 1) + WorldSize) /\ x \in Ranks
  BY <1>2, ModIs, WorldFacts
<1>4. Mod(s + 1 + WorldSize - (p - 1)) = x
  BY <1>1, <1>2, <1>3, ModIs, WorldFacts
<1>5. /\ Behind(r, x) = IF x <= r THEN r - x ELSE r - x + WorldSize
      /\ Behind(s, x) = IF x <= s THEN s - x ELSE s - x + WorldSize
  BY <1>1, <1>3, BehindIs
<1>6. Behind(r, x) = p - 1
  BY <1>3, <1>5, WorldFacts
<1>7. Behind(s, x) = IF p = 1 THEN WorldSize - 1 ELSE p - 2
  <2>1. CASE p = 1
    <3>1. x = r
      BY <1>3, <2>1, WorldFacts
    <3> QED
      BY <1>1, <1>5, <2>1, <3>1, WorldFacts
  <2>2. CASE p # 1 /\ p - 1 <= r
    <3>1. x = r - (p - 1) /\ s = r - 1 /\ x <= s
      BY <1>1, <1>3, <2>2, WorldFacts
    <3> QED
      BY <1>5, <2>2, <3>1, WorldFacts
  <2>3. CASE ~(p - 1 <= r)
    <3>1. x = r - (p - 1) + WorldSize
      BY <1>3, <2>3, WorldFacts
    <3>2. CASE r = 0
      BY <1>1, <1>5, <2>3, <3>1, <3>2, WorldFacts
    <3>3. CASE r # 0
      BY <1>1, <1>5, <2>3, <3>1, <3>3, WorldFacts
    <3> QED
      BY <3>2, <3>3
  <2> QED
    BY <2>1, <2>2, <2>3
<1> QED
  BY <1>3, <1>4, <1>6, <1>7 DEF s

(* What the ring has summed in chunk x on the way to r. *)
OnTheWay(r, x) == {q \in Ranks : Behind(q, x) <= Behind(r, x)}

(* Chunk x of r before it arrives, after it was added to, and after the    *)
(* sum was copied to it.                                                   *)
LEMMA RingBefore ==
  ASSUME NEW k \in AnyCall, k.kind = "AllReduceRing", NEW c, NEW r \in Ranks, NEW x \in Ranks,
         NEW p \in Nat, Behind(r, x) >= p
  PROVE  Held(k, c, r, p, x) = From(c, {r}, x)
BY DEF Held

LEMMA RingSummed ==
  ASSUME NEW k \in AnyCall, k.kind = "AllReduceRing", NEW c, NEW r \in Ranks, NEW x \in Ranks,
         NEW p \in Nat, Behind(r, x) < p, Behind(r, x) >= p - WorldSize
  PROVE  Held(k, c, r, p, x) = From(c, OnTheWay(r, x), x)
<1>1. Behind(r, x) \in Nat /\ WorldSize \in Nat
  BY BehindIs, WorldFacts
<1>2. ~(Behind(r, x) >= p) /\ ~(Behind(r, x) < p - WorldSize)
  BY <1>1
<1> QED
  BY <1>2 DEF Held, OnTheWay

LEMMA RingDone ==
  ASSUME NEW k \in AnyCall, k.kind = "AllReduceRing", NEW c, NEW r \in Ranks, NEW x \in Ranks,
         NEW p \in Nat, Behind(r, x) < p - WorldSize
  PROVE  Held(k, c, r, p, x) = From(c, Ranks, x)
<1>1. Behind(r, x) \in Nat /\ WorldSize \in Nat
  BY BehindIs, WorldFacts
<1>2. ~(Behind(r, x) >= p)
  BY <1>1
<1> QED
  BY <1>2 DEF Held

LEMMA RingWorks ==
  ASSUME NEW k \in AnyCall, k.kind = "AllReduceRing", NEW c, NEW r \in Ranks
  PROVE  Works(k, c, r)
<1>1. \A s \in Ranks :
        /\ DOMAIN Script(k, s) = 1 .. 2 * WorldSize - 2
        /\ Len(Script(k, s)) = 2 * WorldSize - 2
        /\ \A p \in 1 .. 2 * WorldSize - 2 :
             Script(k, s)[p] = IF p < WorldSize THEN RingSum(s, p) ELSE RingCopy(s, p - WorldSize + 1)
  BY ScriptIs, RingSteps
<1>2. WorldSize \in Nat /\ WorldSize >= 2
  BY WorldFacts
<1>3. \A s \in Ranks, p \in 1 .. 2 * WorldSize - 2 :
        Script(k, s)[p].from = {PreviousOf(s)} /\ Script(k, s)[p].tag[1] = IF p < WorldSize THEN 1 ELSE 2
  <2> SUFFICES ASSUME NEW s \in Ranks, NEW p \in 1 .. 2 * WorldSize - 2
               PROVE  /\ Script(k, s)[p].from = {PreviousOf(s)}
                      /\ Script(k, s)[p].tag[1] = IF p < WorldSize THEN 1 ELSE 2
    OBVIOUS
  <2>1. Script(k, s)[p] = IF p < WorldSize THEN RingSum(s, p) ELSE RingCopy(s, p - WorldSize + 1)
    BY <1>1
  <2> QED
    BY <2>1 DEF RingSum, RingCopy, ExchangeStep
<1>4. \A s \in Ranks, p \in 1 .. 2 * WorldSize - 2 :
        Script(k, s)[p].tag[2] = IF p < WorldSize THEN p - 1 ELSE p - WorldSize
  <2> SUFFICES ASSUME NEW s \in Ranks, NEW p \in 1 .. 2 * WorldSize - 2
               PROVE  Script(k, s)[p].tag[2] = IF p < WorldSize THEN p - 1 ELSE p - WorldSize
    OBVIOUS
  <2>1. Script(k, s)[p] = IF p < WorldSize THEN RingSum(s, p) ELSE RingCopy(s, p - WorldSize + 1)
    BY <1>1
  <2>2. (p - WorldSize + 1) - 1 = p - WorldSize
    BY <1>2
  <2> QED
    BY <2>1, <2>2 DEF RingSum, RingCopy, ExchangeStep
<1>5. ASSUME NEW p \in 1 .. 2 * WorldSize - 2, NEW s \in Ranks \ {r},
             NEW q \in DOMAIN Script(k, s), Meet(k, r, p, s, q)
      PROVE  Combines(k, c, r, p, s, q)
  <2>1. s = PreviousOf(r)
    BY <1>3, <1>5 DEF Meet
  <2>2. q = p
    <3>1. q \in 1 .. 2 * WorldSize - 2 /\ Script(k, r)[p].tag = Script(k, s)[q].tag
      BY <1>1, <1>5 DEF Meet
    <3>2. /\ (IF p < WorldSize THEN 1 ELSE 2) = (IF q < WorldSize THEN 1 ELSE 2)
          /\ (IF p < WorldSize THEN p - 1 ELSE p - WorldSize)
               = (IF q < WorldSize THEN q - 1 ELSE q - WorldSize)
      BY <1>3, <1>4, <3>1
    <3> QED
      BY <1>2, <3>1, <3>2
  <2>3. p \in Nat /\ p + 1 \in Nat
    OBVIOUS
  <2>4. CASE p < WorldSize
    <3> DEFINE x == Mod(r + WorldSize - (p - 1) - 1)
    <3>1. p \in 1 .. WorldSize - 1
      BY <1>2, <2>4
    <3>2. /\ x \in Ranks /\ Mod(s + WorldSize - (p - 1)) = x
          /\ Behind(r, x) = p /\ Behind(s, x) = p - 1
      BY <2>1, <3>1, SumChunk
    <3>3. Script(k, r)[p] = RingSum(r, p) /\ Script(k, s)[q] = RingSum(s, p)
      BY <1>1, <2>2, <2>4
    <3>4. /\ Script(k, r)[p].into = <<x>> /\ Script(k, r)[p].how = "add"
          /\ Script(k, s)[q].out = <<x>>
      BY <3>2, <3>3 DEF RingSum, ExchangeStep
    <3> HIDE DEF x
    <3>5. ASSUME NEW y \in Keys \ {x}
          PROVE  Held(k, c, r, p + 1, y) = Held(k, c, r, p, y)
      <4>1. CASE y \in Ranks
        <5> DEFINE b == Behind(r, y)
        <5>1. b \in 0 .. WorldSize - 1 /\ b # p
          BY <3>2, <3>5, <4>1, BehindIs, BehindUnique
        <5>2. CASE b >= p + 1
          <6>1. b >= p
            BY <2>3, <5>1, <5>2
          <6>2. Held(k, c, r, p + 1, y) = From(c, {r}, y)
            BY <2>3, <4>1, <5>2, RingBefore
          <6>3. Held(k, c, r, p, y) = From(c, {r}, y)
            BY <2>3, <4>1, <6>1, RingBefore
          <6> QED
            BY <6>2, <6>3
        <5>3. CASE ~(b >= p + 1)
          <6>1. b < p /\ b < p + 1 /\ b >= p - WorldSize /\ b >= (p + 1) - WorldSize
            BY <1>2, <2>3, <2>4, <5>1, <5>3
          <6>2. Held(k, c, r, p + 1, y) = From(c, OnTheWay(r, y), y)
            BY <2>3, <4>1, <6>1, RingSummed
          <6>3. Held(k, c, r, p, y) = From(c, OnTheWay(r, y), y)
            BY <2>3, <4>1, <6>1, RingSummed
          <6> QED
            BY <6>2, <6>3
        <5> QED
          BY <5>2, <5>3
      <4>2. CASE y \notin Ranks
        BY <4>2, HeldOutside
      <4> QED
        BY <4>1, <4>2
    <3>6. Takes(k, c, r, p, s, q, x, x)
      <4>1. /\ p >= p /\ p < p + 1 /\ p >= (p + 1) - WorldSize
            /\ p - 1 < p /\ p - 1 >= p - WorldSize
        BY <1>2, <2>3, <2>4
      <4>2. Held(k, c, r, p, x) = From(c, {r}, x)
        BY <2>3, <3>2, <4>1, RingBefore
      <4>3. Held(k, c, r, p + 1, x) = From(c, OnTheWay(r, x), x)
        BY <2>3, <3>2, <4>1, RingSummed
      <4>4. Held(k, c, s, q, x) = From(c, OnTheWay(s, x), x)
        BY <2>2, <2>3, <3>2, <4>1, RingSummed
      <4>5. OnTheWay(r, x) = {r} \union OnTheWay(s, x)
        <5>1. ASSUME NEW o \in Ranks
              PROVE  Behind(o, x) <= p <=> o = r \/ Behind(o, x) <= p - 1
          <6>1. Behind(o, x) \in 0 .. WorldSize - 1 /\ (Behind(o, x) = p <=> o = r)
            BY <3>2, BehindIs, BehindUnique
          <6> QED
            BY <2>3, <6>1
        <5> QED
          BY <3>2, <5>1 DEF OnTheWay
      <4>6. {r} \intersect OnTheWay(s, x) = {}
        <5>1. ~(p <= p - 1)
          BY <2>3
        <5> QED
          BY <3>2, <5>1 DEF OnTheWay
      <4>7. /\ From(c, {r}, x) \union From(c, OnTheWay(s, x), x) = From(c, {r} \union OnTheWay(s, x), x)
            /\ From(c, {r}, x) \intersect From(c, OnTheWay(s, x), x) = {}
        BY <4>6, FromUnion, FromDisjoint
      <4> QED
        BY <3>4, <4>2, <4>3, <4>4, <4>5, <4>7 DEF Takes
    <3> QED
      BY <3>4, <3>5, <3>6, OneCombines
  <2>5. CASE ~(p < WorldSize)
    <3> DEFINE i == p - WorldSize + 1
               x == Mod(r + WorldSize - (i - 1))
    <3>1. i \in 1 .. WorldSize - 1 /\ i - 1 = p - WorldSize
      BY <1>2, <2>5
    <3>3. Script(k, r)[p] = RingCopy(r, i) /\ Script(k, s)[q] = RingCopy(s, i)
      BY <1>1, <2>2, <2>5
    <3> HIDE DEF i
    <3>2. /\ x \in Ranks /\ Mod(s + 1 + WorldSize - (i - 1)) = x
          /\ Behind(r, x) = i - 1 /\ Behind(s, x) = IF i = 1 THEN WorldSize - 1 ELSE i - 2
      BY <2>1, <3>1, CopyChunk
    <3>4. /\ Script(k, r)[p].into = <<x>> /\ Script(k, r)[p].how = "store"
          /\ Script(k, s)[q].out = <<x>>
      BY <3>2, <3>3 DEF RingCopy, ExchangeStep
    <3> HIDE DEF x
    <3>5. ASSUME NEW y \in Keys \ {x}
          PROVE  Held(k, c, r, p + 1, y) = Held(k, c, r, p, y)
      <4>1. CASE y \in Ranks
        <5> DEFINE b == Behind(r, y)
        <5>1. b \in 0 .. WorldSize - 1 /\ b # p - WorldSize
          BY <3>1, <3>2, <3>5, <4>1, BehindIs, BehindUnique
        <5>2. CASE b < p - WorldSize
          <6>1. b < (p + 1) - WorldSize
            BY <1>2, <2>3, <5>1, <5>2
          <6>2. Held(k, c, r, p + 1, y) = From(c, Ranks, y)
            BY <2>3, <4>1, <6>1, RingDone
          <6>3. Held(k, c, r, p, y) = From(c, Ranks, y)
            BY <2>3, <4>1, <5>2, RingDone
          <6> QED
            BY <6>2, <6>3
        <5>3. CASE ~(b < p - WorldSize)
          <6>1. b < p /\ b < p + 1 /\ b >= p - WorldSize /\ b >= (p + 1) - WorldSize
            BY <1>2, <2>3, <2>5, <5>1, <5>3
          <6>2. Held(k, c, r, p + 1, y) = From(c, OnTheWay(r, y), y)
            BY <2>3, <4>1, <6>1, RingSummed
          <6>3. Held(k, c, r, p, y) = From(c, OnTheWay(r, y), y)
            BY <2>3, <4>1, <6>1, RingSummed
          <6> QED
            BY <6>2, <6>3
        <5> QED
          BY <5>2, <5>3
      <4>2. CASE y \notin Ranks
        BY <4>2, HeldOutside
      <4> QED
        BY <4>1, <4>2
    <3>6. Takes(k, c, r, p, s, q, x, x)
      <4>1. Behind(r, x) < (p + 1) - WorldSize
        BY <1>2, <2>3, <3>1, <3>2
      <4>2. Held(k, c, r, p + 1, x) = From(c, Ranks, x)
        BY <2>3, <3>2, <4>1, RingDone
      <4>3. Held(k, c, s, q, x) = From(c, Ranks, x)
        <5>1. CASE i = 1
          <6>1. Behind(s, x) = WorldSize - 1
            BY <3>2, <5>1
          <6>2. Behind(s, x) < p /\ Behind(s, x) >= p - WorldSize
            BY <1>2, <2>3, <3>1, <5>1, <6>1
          <6>3. Held(k, c, s, q, x) = From(c, OnTheWay(s, x), x)
            BY <2>2, <2>3, <3>2, <6>2, RingSummed
          <6>4. \A o \in Ranks : Behind(o, x) <= WorldSize - 1
            <7>1. \A o \in Ranks : Behind(o, x) \in 0 .. WorldSize - 1
              BY <3>2, BehindIs
            <7> QED
              BY <1>2, <7>1
          <6> QED
            BY <6>1, <6>3, <6>4 DEF OnTheWay
        <5>2. CASE i # 1
          <6>1. Behind(s, x) < p - WorldSize
            BY <1>2, <2>3, <3>1, <3>2, <5>2
          <6> QED
            BY <2>2, <2>3, <3>2, <6>1, RingDone
        <5> QED
          BY <5>1, <5>2
      <4> QED
        BY <3>4, <4>2, <4>3 DEF Takes
    <3> QED
      BY <3>4, <3>5, <3>6, OneCombines
  <2> QED
    BY <2>4, <2>5
<1>6. ResultOf(k, r, HeldChunks(k, c, r, 2 * WorldSize - 1)) = Expected(k, c, r)
  <2>1. 2 * WorldSize - 1 \in Nat /\ (2 * WorldSize - 1) - WorldSize = WorldSize - 1
    BY <1>2
  <2>2. ResultKeys(k, r) = Whole
    BY DEF ResultKeys
  <2>3. Expected(k, c, r) = [i \in 1 .. WorldSize |-> SumOf(c, i - 1)]
    BY DEF Expected
  <2>4. ASSUME NEW i \in 1 .. WorldSize
        PROVE  Held(k, c, r, 2 * WorldSize - 1, i - 1) = {<<c, q, i - 1>> : q \in Ranks}
    <3> DEFINE x == i - 1
               n == 2 * WorldSize - 1
    <3>1. x \in Ranks
      BY WorldFacts
    <3> HIDE DEF x
    <3>2. \A o \in Ranks : Behind(o, x) \in 0 .. WorldSize - 1
      BY <3>1, BehindIs
    <3>3. CASE Behind(r, x) < WorldSize - 1
      <4>1. Behind(r, x) < n - WorldSize /\ n \in Nat
        BY <2>1, <3>3
      <4> HIDE DEF n
      <4>2. Held(k, c, r, n, x) = From(c, Ranks, x)
        BY <3>1, <4>1, RingDone
      <4> QED
        BY <4>2 DEF From, x, n
    <3>4. CASE ~(Behind(r, x) < WorldSize - 1)
      <4>1. Behind(r, x) = WorldSize - 1
        BY <1>2, <3>2, <3>4
      <4>2. Behind(r, x) < n /\ Behind(r, x) >= n - WorldSize /\ n \in Nat
        BY <1>2, <2>1, <4>1
      <4> HIDE DEF n
      <4>3. Held(k, c, r, n, x) = From(c, OnTheWay(r, x), x)
        BY <3>1, <4>2, RingSummed
      <4>4. OnTheWay(r, x) = Ranks
        <5>1. \A o \in Ranks : Behind(o, x) <= WorldSize - 1
          BY <1>2, <3>2
        <5> QED
          BY <4>1, <5>1 DEF OnTheWay
      <4> QED
        BY <4>3, <4>4 DEF From, x, n
    <3> QED
      BY <3>3, <3>4
  <2>5. ResultOf(k, r, HeldChunks(k, c, r, 2 * WorldSize - 1))
          = [i \in 1 .. WorldSize |-> SetToBag(Held(k, c, r, 2 * WorldSize - 1, i - 1))]
    BY <2>2, WholeResult
  <2> QED
    BY <2>3, <2>4, <2>5 DEF SumOf
<1>7. 2 * WorldSize - 2 \in Nat \ {0} /\ (2 * WorldSize - 2) + 1 = 2 * WorldSize - 1
  BY <1>2
<1>8. \A p \in 1 .. 2 * WorldSize - 2 : Script(k, r)[p].from # {}
  BY <1>3
<1>9. DOMAIN Script(k, r) = 1 .. 2 * WorldSize - 2 /\ Len(Script(k, r)) = 2 * WorldSize - 2
  BY <1>1
<1> QED
  BY <1>5, <1>6, <1>7, <1>8, <1>9 DEF Works

(* The rank that r takes a shard from in step p of the all-to-all. *)
LEMMA SwapPeer ==
  ASSUME NEW r \in Ranks, NEW p \in 1 .. WorldSize - 1, NEW s, s = Mod(r + WorldSize - p)
  PROVE  s \in Ranks /\ Mod(s + p) = r /\ Behind(r, s) = p
<1>1. r + WorldSize - p \in 0 .. 3 * WorldSize - 1
  BY WorldFacts
<1>2. s = (IF p <= r THEN r - p ELSE r - p + WorldSize) /\ s \in Ranks
  BY <1>1, ModIs, WorldFacts
<1>3. s + p \in 0 .. 3 * WorldSize - 1
  BY <1>2, WorldFacts
<1>4. Mod(s + p) = r
  BY <1>2, <1>3, ModIs, WorldFacts
<1>5. Behind(r, s) = IF s <= r THEN r - s ELSE r - s + WorldSize
  BY <1>2, BehindIs
<1>6. Behind(r, s) = p
  BY <1>2, <1>5, WorldFacts
<1> QED
  BY <1>2, <1>4, <1>6

LEMMA SwapKey ==
  ASSUME NEW x \in Ranks
  PROVE  WorldSize + x \in Keys /\ WorldSize + x \notin Ranks /\ (WorldSize + x) - WorldSize = x
BY WorldFacts DEF Keys

(* The shards of r, and those it has received and those it has not. *)
LEMMA SwapOwn ==
  ASSUME NEW k \in AnyCall, k.kind = "AllToAll", NEW c, NEW r \in Ranks, NEW p, NEW x \in Ranks
  PROVE  Held(k, c, r, p, x) = From(c, {r}, x)
BY DEF Held

LEMMA SwapGot ==
  ASSUME NEW k \in AnyCall, k.kind = "AllToAll", NEW c, NEW r \in Ranks, NEW p, NEW x \in Ranks,
         Behind(r, x) < p
  PROVE  Held(k, c, r, p, WorldSize + x) = From(c, {x}, r)
BY SwapKey DEF Held

LEMMA SwapNotYet ==
  ASSUME NEW k \in AnyCall, k.kind = "AllToAll", NEW c, NEW r \in Ranks, NEW p, NEW x \in Ranks,
         ~(Behind(r, x) < p)
  PROVE  Held(k, c, r, p, WorldSize + x) = {}
BY SwapKey DEF Held

LEMMA AllToAllWorks ==
  ASSUME NEW k \in AnyCall, k.kind = "AllToAll", NEW c, NEW r \in Ranks
  PROVE  Works(k, c, r)
<1>1. \A s \in Ranks :
        /\ DOMAIN Script(k, s) = 1 .. WorldSize - 1 /\ Len(Script(k, s)) = WorldSize - 1
        /\ \A p \in 1 .. WorldSize - 1 :
             Script(k, s)[p] = ExchangeStep(Mod(s + p), Mod(s + WorldSize - p), 0, p - 1,
                                            <<Mod(s + p)>>, <<WorldSize + Mod(s + WorldSize - p)>>,
                                            "store", "gather")
  BY ScriptIs, AllToAllSteps
<1>2. ASSUME NEW p \in 1 .. WorldSize - 1, NEW s \in Ranks \ {r},
             NEW q \in DOMAIN Script(k, s), Meet(k, r, p, s, q)
      PROVE  Combines(k, c, r, p, s, q)
  <2> DEFINE from == Mod(r + WorldSize - p)
  <2>1. Script(k, r)[p] = ExchangeStep(Mod(r + p), from, 0, p - 1, <<Mod(r + p)>>,
                                       <<WorldSize + from>>, "store", "gather")
    BY <1>1
  <2>2. from \in Ranks /\ Mod(from + p) = r /\ Behind(r, from) = p
    BY SwapPeer
  <2>3. q \in 1 .. WorldSize - 1
    BY <1>1, <1>2
  <2>4. Script(k, s)[q] = ExchangeStep(Mod(s + q), Mod(s + WorldSize - q), 0, q - 1, <<Mod(s + q)>>,
                                       <<WorldSize + Mod(s + WorldSize - q)>>, "store", "gather")
    BY <1>1, <2>3
  <2> HIDE DEF from
  <2>5. s = from /\ <<0, p - 1>> = <<0, q - 1>>
    BY <1>2, <2>1, <2>4 DEF Meet, ExchangeStep
  <2>6. q = p
    BY <2>3, <2>5
  <2>7. /\ Script(k, r)[p].into = <<WorldSize + s>> /\ Script(k, r)[p].how = "store"
        /\ Script(k, s)[q].out = <<r>>
    BY <2>1, <2>2, <2>4, <2>5, <2>6 DEF ExchangeStep
  <2>8. Behind(r, s) = p /\ p < p + 1
    BY <2>2, <2>5
  <2>9. ASSUME NEW y \in Keys \ {WorldSize + s}
        PROVE  Held(k, c, r, p + 1, y) = Held(k, c, r, p, y)
    <3>1. CASE y \in Ranks
      <4>1. Held(k, c, r, p + 1, y) = From(c, {r}, y)
        BY <3>1, SwapOwn
      <4>2. Held(k, c, r, p, y) = From(c, {r}, y)
        BY <3>1, SwapOwn
      <4> QED
        BY <4>1, <4>2
    <3>2. CASE y \notin Ranks
      <4> DEFINE x == y - WorldSize
      <4>1. x \in Ranks
        BY <2>9, <3>2, KeysAre
      <4>2. WorldSize + x = y /\ x # s
        BY <2>9, WorldFacts DEF Keys
      <4> HIDE DEF x
      <4>3. Behind(r, x) # p /\ Behind(r, x) \in 0 .. WorldSize - 1
        BY <2>8, <4>1, <4>2, BehindUnique, BehindIs
      <4>4. Behind(r, x) < p + 1 <=> Behind(r, x) < p
        BY <4>3
      <4>5. CASE Behind(r, x) < p
        <5>1. Behind(r, x) < p + 1
          BY <4>4, <4>5
        <5>2. Held(k, c, r, p + 1, WorldSize + x) = From(c, {x}, r)
          BY <4>1, <5>1, SwapGot
        <5>3. Held(k, c, r, p, WorldSize + x) = From(c, {x}, r)
          BY <4>1, <4>5, SwapGot
        <5> QED
          BY <4>2, <5>2, <5>3
      <4>6. CASE ~(Behind(r, x) < p)
        <5>1. ~(Behind(r, x) < p + 1)
          BY <4>4, <4>6
        <5>2. Held(k, c, r, p + 1, WorldSize + x) = {}
          BY <4>1, <5>1, SwapNotYet
        <5>3. Held(k, c, r, p, WorldSize + x) = {}
          BY <4>1, <4>6, SwapNotYet
        <5> QED
          BY <4>2, <5>2, <5>3
      <4> QED
        BY <4>5, <4>6
    <3> QED
      BY <3>1, <3>2
  <2>10. Takes(k, c, r, p, s, q, WorldSize + s, r)
    <3>1. Held(k, c, r, p + 1, WorldSize + s) = From(c, {s}, r)
      BY <2>8, SwapGot
    <3>2. Held(k, c, s, q, r) = From(c, {s}, r)
      BY SwapOwn
    <3> QED
      BY <2>7, <3>1, <3>2 DEF Takes
  <2> DEFINE key == WorldSize + s
  <2>11. /\ Script(k, r)[p].into = <<key>> /\ Takes(k, c, r, p, s, q, key, r)
         /\ \A y \in Keys \ {key} : Held(k, c, r, p + 1, y) = Held(k, c, r, p, y)
    BY <2>7, <2>9, <2>10
  <2> HIDE DEF key
  <2> QED
    BY <2>7, <2>11, OneCombines
<1>3. ASSUME NEW p \in 1 .. WorldSize - 1
      PROVE  Script(k, r)[p].from # {}
  <2>1. Script(k, r)[p] = ExchangeStep(Mod(r + p), Mod(r + WorldSize - p), 0, p - 1, <<Mod(r + p)>>,
                                       <<WorldSize + Mod(r + WorldSize - p)>>, "store", "gather")
    BY <1>1
  <2> QED
    BY <2>1 DEF ExchangeStep
<1>4. ResultOf(k, r, HeldChunks(k, c, r, WorldSize)) = Expected(k, c, r)
  <2>1. ResultKeys(k, r) = [i \in 1 .. WorldSize |-> WorldSize + i - 1]
    BY DEF ResultKeys
  <2>2. Expected(k, c, r) = [i \in 1 .. WorldSize |-> SetToBag({<<c, i - 1, r>>})]
    BY DEF Expected
  <2>3. ASSUME NEW i \in 1 .. WorldSize
        PROVE  HeldChunks(k, c, r, WorldSize)[WorldSize + i - 1] = SetToBag({<<c, i - 1, r>>})
    <3> DEFINE x == i - 1
    <3>1. x \in Ranks /\ WorldSize + i - 1 = WorldSize + x
      BY WorldFacts
    <3> HIDE DEF x
    <3>2. Behind(r, x) < WorldSize
      <4>1. Behind(r, x) \in 0 .. WorldSize - 1
        BY <3>1, BehindIs
      <4> QED
        BY <4>1, WorldFacts
    <3>3. WorldSize + x \in Keys /\ Held(k, c, r, WorldSize, WorldSize + x) = From(c, {x}, r)
      BY <3>1, <3>2, SwapGot, SwapKey
    <3>4. From(c, {x}, r) = {<<c, x, r>>}
      BY DEF From
    <3>5. HeldChunks(k, c, r, WorldSize)[WorldSize + x] = SetToBag({<<c, x, r>>})
      BY <3>3, <3>4 DEF HeldChunks
    <3> QED
      BY <3>1, <3>5 DEF x
  <2> QED
    BY <2>1, <2>2, <2>3 DEF ResultOf
<1>5. WorldSize - 1 \in Nat \ {0} /\ (WorldSize - 1) + 1 = WorldSize
  BY WorldFacts
<1>6. DOMAIN Script(k, r) = 1 .. WorldSize - 1 /\ Len(Script(k, r)) = WorldSize - 1
  BY <1>1
<1> QED
  BY <1>2, <1>3, <1>4, <1>5, <1>6 DEF Works

(* Every script does what Held says of it. *)
LEMMA AllWork ==
  ASSUME NEW k \in AnyCall, NEW c, NEW r \in Ranks
  PROVE  Works(k, c, r)
<1>1. k.kind \in Kinds
  BY DEF AnyCall
<1> QED
  BY <1>1, BroadcastWorks, ReduceWorks, AllGatherWorks, CentralizedWorks, RingWorks,
     ReduceScatterWorks, AllToAllWorks DEF Kinds

(* The chunks of a call that begins. *)
LEMMA HeldFirst ==
  ASSUME NEW k \in AnyCall, NEW c, NEW r \in Ranks
  PROVE  HeldChunks(k, c, r, 1) = Contribution(k, c, r)
<1>1. ASSUME NEW x \in Keys
      PROVE  SetToBag(Held(k, c, r, 1, x)) = Contribution(k, c, r)[x]
  <2>1. CASE x \in Ranks
    <3> DEFINE bag == SetToBag({<<c, r, x>>})
               own == SetToBag({<<c, r, r>>})
    <3>0. Contribution(k, c, r)[x]
            = CASE x \in Ranks -> bag
                [] k.kind = "AllToAll" /\ x = WorldSize + r -> own
                [] OTHER -> EmptyBag
      BY DEF Contribution
    <3> HIDE DEF bag, own
    <3>1. Contribution(k, c, r)[x] = bag
      BY <2>1, <3>0, SwapKey
    <3>2. Held(k, c, r, 1, x) = From(c, {r}, x)
      <4>1. k.kind \in Kinds
        BY DEF AnyCall
      <4>2. Behind(r, x) \in 0 .. WorldSize - 1 /\ WorldSize \in Nat /\ WorldSize >= 2 /\ x \in Nat
        <5>1. x \in Nat
          BY <2>1, WorldFacts
        <5> QED
          BY <2>1, <5>1, BehindIs, WorldFacts
      <4>3. CASE k.kind = "Broadcast"
        BY <2>1, <4>3 DEF Held
      <4>4. CASE k.kind = "Reduce"
        <5>1. {PeerAt(r, i) : i \in 1 .. 1 - 1} = {}
          OBVIOUS
        <5>2. {r} \union {} = {r}
          OBVIOUS
        <5>3. Held(k, c, r, 1, x)
                = From(c, {r} \union (IF r = k.root THEN {PeerAt(r, i) : i \in 1 .. 1 - 1} ELSE {}), x)
          BY <2>1, <4>4 DEF Held
        <5> QED
          BY <5>1, <5>2, <5>3
      <4>5. CASE k.kind = "AllGather"
        <5>1. ~(1 > 2) /\ (x < 1 => x = 0)
          BY <4>2
        <5>2. Held(k, c, r, 1, x)
                = IF (r = 0 /\ x < 1) \/ (r # 0 /\ 1 > 2) THEN From(c, {x}, 0) ELSE From(c, {r}, x)
          BY <2>1, <4>5 DEF Held
        <5> QED
          BY <5>1, <5>2
      <4>6. \A q \in Ranks : q < 1 <=> q = 0
        BY WorldFacts
      <4>7. CASE k.kind = "AllReduceCentralized"
        <5>1. ~(1 > 2) /\ (r = 0 => {q \in Ranks : q < 1} = {r})
          BY <4>6
        <5>2. Held(k, c, r, 1, x)
                = From(c, IF r = 0 THEN {q \in Ranks : q < 1} ELSE IF 1 > 2 THEN Ranks ELSE {r}, x)
          BY <2>1, <4>7 DEF Held
        <5> QED
          BY <5>1, <5>2
      <4>8. CASE k.kind = "ReduceScatter"
        <5>1. ~(1 > 2) /\ (r = 0 => {q \in Ranks : q < 1} = {r})
          BY <4>6
        <5>2. Held(k, c, r, 1, x)
                = IF r = 0 THEN From(c, {q \in Ranks : q < 1}, x)
                  ELSE IF 1 > 2 /\ x = 0 THEN From(c, Ranks, r) ELSE From(c, {r}, x)
          BY <2>1, <4>8 DEF Held
        <5> QED
          BY <5>1, <5>2
      <4>9. CASE k.kind = "AllReduceRing"
        <5>1. CASE Behind(r, x) >= 1
          BY <2>1, <4>9, <5>1, RingBefore
        <5>2. CASE ~(Behind(r, x) >= 1)
          <6>1. Behind(r, x) = 0 /\ 0 < 1 /\ 0 >= 1 - WorldSize
            BY <4>2, <5>2
          <6>2. Held(k, c, r, 1, x) = From(c, OnTheWay(r, x), x)
            BY <2>1, <4>9, <6>1, RingSummed
          <6>3. ASSUME NEW q \in Ranks
                PROVE  Behind(q, x) <= 0 <=> q = r
            <7>1. Behind(q, x) \in 0 .. WorldSize - 1 /\ (Behind(q, x) = 0 <=> q = r)
              BY <2>1, <6>1, BehindIs, BehindUnique
            <7> QED
              BY <7>1
          <6> QED
            BY <6>1, <6>2, <6>3 DEF OnTheWay
        <5> QED
          BY <5>1, <5>2
      <4>10. CASE k.kind = "AllToAll"
        BY <2>1, <4>10, SwapOwn
      <4> QED
        BY <4>1, <4>3, <4>4, <4>5, <4>7, <4>8, <4>9, <4>10 DEF Kinds
    <3>3. From(c, {r}, x) = {<<c, r, x>>}
      BY DEF From
    <3> QED
      BY <3>1, <3>2, <3>3 DEF bag
  <2>2. CASE x \notin Ranks
    <3> DEFINE y == x - WorldSize
    <3>1. y \in Ranks /\ x = WorldSize + y
      BY <2>2, KeysAre, WorldFacts
    <3>2. Behind(r, y) < 1 <=> x = WorldSize + r
      <4>1. Behind(r, y) \in 0 .. WorldSize - 1 /\ Behind(r, r) = 0 /\ (Behind(r, y) = Behind(r, r) => y = r)
        <5>1. Behind(r, r) = IF r <= r THEN r - r ELSE r - r + WorldSize
          BY BehindIs
        <5>2. r <= r /\ r - r = 0
          BY WorldFacts
        <5>3. Behind(r, y) \in 0 .. WorldSize - 1 /\ (Behind(r, y) = Behind(r, r) => y = r)
          BY <3>1, BehindIs, BehindUnique
        <5> QED
          BY <5>1, <5>2, <5>3
      <4> QED
        BY <3>1, <4>1, WorldFacts
    <3>3. Held(k, c, r, 1, x) = IF k.kind = "AllToAll" /\ Behind(r, y) < 1 THEN From(c, {y}, r) ELSE {}
      BY <2>2 DEF Held
    <3>4. SetToBag({}) = EmptyBag
      BY DEF EmptyBag
    <3>5. x = WorldSize + r => From(c, {y}, r) = {<<c, r, r>>}
      <4>1. x = WorldSize + r => y = r
        BY WorldFacts
      <4> QED
        BY <4>1 DEF From
    <3> HIDE DEF y
    <3>6. Contribution(k, c, r)[x] = IF k.kind = "AllToAll" /\ x = WorldSize + r
                                       THEN SetToBag({<<c, r, r>>}) ELSE EmptyBag
      BY <2>2 DEF Contribution
    <3> QED
      BY <3>2, <3>3, <3>4, <3>5, <3>6
  <2> QED
    BY <2>1, <2>2
<1>2. DOMAIN Contribution(k, c, r) = Keys /\ Contribution(k, c, r) = [x \in Keys |-> Contribution(k, c, r)[x]]
  BY DEF Contribution
<1> QED
  BY <1>1, <1>2 DEF HeldChunks

-----------------------------------------------------------------------------
(* Who a step receives from and what it sends. *)

StepInRange(k, r, p) ==
  /\ Script(k, r)[p].from \subseteq Ranks \ {r}
  /\ \A i \in DOMAIN Script(k, r)[p].out : Script(k, r)[p].out[i] \in Keys

LEMMA SendInRange ==
  ASSUME NEW k, NEW r, NEW p, NEW to, NEW phase, Script(k, r)[p] = SendStep(to, phase, Whole)
  PROVE  StepInRange(k, r, p)
<1>1. Script(k, r)[p].from = {} /\ Script(k, r)[p].out = Whole
  BY DEF SendStep
<1> QED
  BY <1>1, KeysAre DEF StepInRange

LEMMA SendOneInRange ==
  ASSUME NEW k, NEW r, NEW p, NEW to, NEW phase, NEW x \in Ranks,
         Script(k, r)[p] = SendStep(to, phase, <<x>>)
  PROVE  StepInRange(k, r, p)
<1>1. Script(k, r)[p].from = {} /\ Script(k, r)[p].out = <<x>>
  BY DEF SendStep
<1> QED
  BY <1>1, KeysAre DEF StepInRange

LEMMA RecvInRange ==
  ASSUME NEW k, NEW r, NEW p, NEW from \in Ranks \ {r}, NEW phase, NEW into, NEW how, NEW check,
         Script(k, r)[p] = RecvStep(from, phase, into, how, check)
  PROVE  StepInRange(k, r, p)
<1>1. Script(k, r)[p].from = {from} /\ Script(k, r)[p].out = <<>>
  BY DEF RecvStep
<1> QED
  BY <1>1 DEF StepInRange

LEMMA ExchangeInRange ==
  ASSUME NEW k, NEW r, NEW p, NEW to, NEW from \in Ranks \ {r}, NEW phase, NEW step, NEW x \in Ranks,
         NEW into, NEW how, NEW check,
         Script(k, r)[p] = ExchangeStep(to, from, phase, step, <<x>>, into, how, check)
  PROVE  StepInRange(k, r, p)
<1>1. Script(k, r)[p].from = {from} /\ Script(k, r)[p].out = <<x>>
  BY DEF ExchangeStep
<1> QED
  BY <1>1, KeysAre DEF StepInRange

LEMMA StepsInRange ==
  ASSUME NEW k \in AnyCall, NEW r \in Ranks, NEW p \in DOMAIN Script(k, r)
  PROVE  StepInRange(k, r, p)
<1>1. k.kind \in Kinds /\ k.root \in Ranks /\ 0 \in Ranks
  BY WorldFacts DEF AnyCall
<1>2. CASE k.kind = "Broadcast"
  <2>1. CASE r = k.root
    <3>1. Script(k, r)[p] = SendStep(PeerAt(k.root, p), 0, Whole)
      BY <1>1, <1>2, <2>1, ScriptIs, BroadcastSteps
    <3> QED
      BY <3>1, SendInRange
  <2>2. CASE r # k.root
    <3>1. Script(k, r)[p] = RecvStep(k.root, 0, Whole, "store", "none")
      BY <1>1, <1>2, <2>2, ScriptIs, BroadcastSteps
    <3> QED
      BY <1>1, <2>2, <3>1, RecvInRange
  <2> QED
    BY <2>1, <2>2
<1>3. CASE k.kind = "Reduce"
  <2>1. CASE r = k.root
    <3>1. /\ p \in 1 .. WorldSize - 1
          /\ Script(k, r)[p] = RecvStep(PeerAt(k.root, p), 0, Whole, "add", "same")
      BY <1>1, <1>3, <2>1, ScriptIs, ReduceSteps
    <3>2. PeerAt(k.root, p) \in Ranks \ {r}
      BY <1>1, <2>1, <3>1, PeersAre
    <3> QED
      BY <3>1, <3>2, RecvInRange
  <2>2. CASE r # k.root
    <3>1. Script(k, r)[p] = SendStep(k.root, 0, Whole)
      BY <1>1, <1>3, <2>2, ScriptIs, ReduceSteps
    <3> QED
      BY <3>1, SendInRange
  <2> QED
    BY <2>1, <2>2
<1>4. ASSUME NEW o, r = 0, p \in 1 .. 2 * WorldSize - 2,
             p < WorldSize => \E into, how, check : Script(k, r)[p] = RecvStep(p, 1, into, how, check),
             ~(p < WorldSize) => Script(k, r)[p] = SendStep(p - WorldSize + 1, 2, o),
             o = Whole \/ o = <<p - WorldSize + 1>>
      PROVE  StepInRange(k, r, p)
  <2>1. CASE p < WorldSize
    <3>1. p \in Ranks \ {r}
      BY <1>4, <2>1, WorldFacts
    <3> QED
      BY <1>4, <2>1, <3>1, RecvInRange
  <2>2. CASE ~(p < WorldSize)
    <3>1. p - WorldSize + 1 \in Ranks
      BY <1>4, <2>2, WorldFacts
    <3> QED
      BY <1>4, <2>2, <3>1, SendInRange, SendOneInRange
  <2> QED
    BY <2>1, <2>2
<1>5. CASE k.kind = "AllReduceCentralized"
  <2>1. CASE r = 0
    <3>1. /\ p \in 1 .. 2 * WorldSize - 2
          /\ Script(k, r)[p] = IF p < WorldSize THEN RecvStep(p, 1, Whole, "add", "same")
                                                ELSE SendStep(p - WorldSize + 1, 2, Whole)
      BY <1>5, <2>1, ScriptIs, CentralizedSteps
    <3> QED
      BY <1>4, <2>1, <3>1
  <2>2. CASE r # 0
    <3>1. \/ Script(k, r)[p] = SendStep(0, 1, Whole)
          \/ Script(k, r)[p] = RecvStep(0, 2, Whole, "store", "same")
      BY <1>5, <2>2, ScriptIs, CentralizedSteps
    <3> QED
      BY <1>1, <2>2, <3>1, SendInRange, RecvInRange
  <2> QED
    BY <2>1, <2>2
<1>6. CASE k.kind = "AllGather"
  <2>1. CASE r = 0
    <3>1. /\ p \in 1 .. 2 * WorldSize - 2
          /\ Script(k, r)[p] = IF p < WorldSize THEN RecvStep(p, 1, <<p>>, "store", "gather")
                                                ELSE SendStep(p - WorldSize + 1, 2, Whole)
      BY <1>6, <2>1, ScriptIs, AllGatherSteps
    <3> QED
      BY <1>4, <2>1, <3>1
  <2>2. CASE r # 0
    <3>1. \/ Script(k, r)[p] = SendStep(0, 1, <<0>>)
          \/ Script(k, r)[p] = RecvStep(0, 2, Whole, "store", "none")
      BY <1>6, <2>2, ScriptIs, AllGatherSteps
    <3> QED
      BY <1>1, <2>2, <3>1, SendOneInRange, RecvInRange
  <2> QED
    BY <2>1, <2>2
<1>7. CASE k.kind = "ReduceScatter"
  <2>1. CASE r = 0
    <3>1. /\ p \in 1 .. 2 * WorldSize - 2
          /\ Script(k, r)[p] = IF p < WorldSize THEN RecvStep(p, 1, Whole, "add", "same")
                                                ELSE SendStep(p - WorldSize + 1, 2, <<p - WorldSize + 1>>)
      <4>1. Script(k, r) = ReduceScatter(r)
        BY <1>7, ScriptIs
      <4>2. /\ DOMAIN ReduceScatter(r) = 1 .. 2 * WorldSize - 2
            /\ \A i \in 1 .. 2 * WorldSize - 2 :
                 ReduceScatter(r)[i] = IF i < WorldSize THEN RecvStep(i, 1, Whole, "add", "same")
                                                        ELSE SendStep(i - WorldSize + 1, 2, <<i - WorldSize + 1>>)
        BY <2>1, ReduceScatterSteps
      <4>3. p \in 1 .. 2 * WorldSize - 2
        BY <4>1, <4>2
      <4> QED
        BY <4>1, <4>2, <4>3, Zenon
    <3> QED
      BY <1>4, <2>1, <3>1
  <2>2. CASE r # 0
    <3>1. \/ Script(k, r)[p] = SendStep(0, 1, Whole)
          \/ Script(k, r)[p] = RecvStep(0, 2, <<0>>, "store", "none")
      BY <1>7, <2>2, ScriptIs, ReduceScatterSteps
    <3> QED
      BY <1>1, <2>2, <3>1, SendInRange, RecvInRange
  <2> QED
    BY <2>1, <2>2
<1>8. CASE k.kind = "AllReduceRing"
  <2>1. /\ p \in 1 .. 2 * WorldSize - 2
        /\ Script(k, r)[p] = IF p < WorldSize THEN RingSum(r, p) ELSE RingCopy(r, p - WorldSize + 1)
    BY <1>8, ScriptIs, RingSteps
  <2>2. PreviousOf(r) \in Ranks \ {r}
    BY PreviousIs, WorldFacts
  <2>3. CASE p < WorldSize
    <3>1. r + WorldSize - (p - 1) \in 0 .. 3 * WorldSize - 1
      BY <2>1, <2>3, WorldFacts
    <3>2. Mod(r + WorldSize - (p - 1)) \in Ranks
      BY <3>1, ModIs, WorldFacts
    <3>3. Script(k, r)[p] = RingSum(r, p)
      BY <2>1, <2>3
    <3> QED
      BY <2>2, <3>2, <3>3, ExchangeInRange DEF RingSum
  <2>4. CASE ~(p < WorldSize)
    <3> DEFINE i == p - WorldSize + 1
    <3>1. r + 1 + WorldSize - (i - 1) \in 0 .. 3 * WorldSize - 1
      BY <2>1, <2>4, WorldFacts
    <3>2. Mod(r + 1 + WorldSize - (i - 1)) \in Ranks
      BY <3>1, ModIs, WorldFacts
    <3>3. Script(k, r)[p] = RingCopy(r, i)
      BY <2>1, <2>4
    <3> QED
      BY <2>2, <3>2, <3>3, ExchangeInRange DEF RingCopy
  <2> QED
    BY <2>3, <2>4
<1>9. CASE k.kind = "AllToAll"
  <2> DEFINE from == Mod(r + WorldSize - p)
             to == Mod(r + p)
  <2>1. /\ p \in 1 .. WorldSize - 1
        /\ Script(k, r)[p] = ExchangeStep(to, from, 0, p - 1, <<to>>, <<WorldSize + from>>, "store", "gather")
    BY <1>9, ScriptIs, AllToAllSteps
  <2>2. from \in Ranks /\ Behind(r, from) = p
    BY <2>1, SwapPeer
  <2>3. from # r
    <3>1. Behind(r, r) = IF r <= r THEN r - r ELSE r - r + WorldSize
      BY BehindIs
    <3> QED
      BY <2>1, <2>2, <3>1, WorldFacts
  <2>4. to \in Ranks
    <3>1. r + p \in 0 .. 3 * WorldSize - 1
      BY <2>1, WorldFacts
    <3> QED
      BY <3>1, ModIs, WorldFacts
  <2> HIDE DEF from, to
  <2> QED
    BY <2>1, <2>2, <2>3, <2>4, ExchangeInRange
<1> QED
  BY <1>1, <1>2, <1>3, <1>5, <1>6, <1>7, <1>8, <1>9 DEF Kinds

(* Adding chunks that have no contribution in common. *)
LEMMA BagSum ==
  ASSUME NEW A, NEW B, A \intersect B = {}
  PROVE  SetToBag(A) (+) SetToBag(B) = SetToBag(A \union B)
BY DEF SetToBag, (+)

-----------------------------------------------------------------------------
(* What the invariant says of a rank in a call. *)

LEMMA CallFacts ==
  ASSUME CallsInv, NEW r \in Ranks, CallOf(r) <= Len(program)
  PROVE  /\ Call(r) \in AnyCall /\ Call(r) \in Calls
         /\ CallOf(r) \in DOMAIN program /\ CallOf(r) \in Nat \ {0}
<1>1. program \in Programs /\ program \in Seq(AnyCall)
  BY CollectivesAssumption DEF CallsInv, Domains, AnyCall
<1>2. Len(results[r]) \in Nat
  BY DEF CallsInv, CallInv
<1>3. CallOf(r) \in Nat \ {0} /\ CallOf(r) \in 1 .. Len(program)
  BY <1>1, <1>2 DEF CallOf
<1>4. CallOf(r) \in DOMAIN program /\ Call(r) \in AnyCall
  BY <1>1, <1>3 DEF Call
<1>5. Call(r) \in Calls
  BY <1>1, <1>4 DEF Call, Calls
<1> QED
  BY <1>3, <1>4, <1>5

LEMMA StepFacts ==
  ASSUME CallsInv, NEW r \in Ranks, pos[r] > 0
  PROVE  /\ CallOf(r) <= Len(program)
         /\ Scripts[Call(r)][r] = Script(Call(r), r)
         /\ Step(r) = Script(Call(r), r)[pos[r]]
         /\ pos[r] \in DOMAIN Script(Call(r), r) /\ pos[r] \in Nat
         /\ next[r] = CallOf(r)
         /\ work[r] = HeldChunks(Call(r), CallOf(r), r, pos[r])
         /\ Works(Call(r), CallOf(r), r)
         /\ StepInRange(Call(r), r, pos[r])
<1>1. /\ CallOf(r) <= Len(program) /\ pos[r] \in DOMAIN Script(Call(r), r) /\ pos[r] \in Nat
      /\ work[r] = HeldChunks(Call(r), CallOf(r), r, pos[r])
      /\ next[r] = CallOf(r)
  BY DEF CallsInv, CallInv, CallOf
<1>2. Call(r) \in AnyCall /\ Call(r) \in Calls
  BY <1>1, CallFacts
<1>3. Scripts[Call(r)][r] = Script(Call(r), r)
  BY <1>2 DEF Scripts
<1>4. Step(r) = Script(Call(r), r)[pos[r]]
  BY <1>3 DEF Step
<1>5. Works(Call(r), CallOf(r), r) /\ StepInRange(Call(r), r, pos[r])
  BY <1>1, <1>2, AllWork, StepsInRange
<1> QED
  BY <1>1, <1>3, <1>4, <1>5

(* A frame is one of those that belong on its link. *)
LEMMA FrameSent ==
  ASSUME CallsInv, NEW r \in Ranks, pos[r] > 0, NEW d \in Step(r).to
  PROVE  Frame(r) \in SentOn(program, <<r, d>>)
<1> DEFINE c == CallOf(r)
           k == Call(r)
           p == pos[r]
           step == Script(k, r)[p]
<1>1. /\ Step(r) = step /\ p \in DOMAIN Script(k, r) /\ next[r] = c
      /\ work[r] = HeldChunks(k, c, r, p)
      /\ StepInRange(k, r, p)
  BY StepFacts
<1>2. c \in DOMAIN program /\ k = program[c]
  BY StepFacts, CallFacts DEF Call
<1>3. Shape(r) \in Shapes
  BY DEF Shape, Shapes
<1> HIDE DEF c, k, p
<1>4. ASSUME NEW i \in DOMAIN step.out
      PROVE  work[r][step.out[i]] = SetToBag(Held(k, c, r, p, step.out[i]))
  BY <1>1, <1>4 DEF StepInRange, HeldChunks
<1>5. Frame(r) = FrameOf(program, r, c, p, Shape(r))
  <2>1. Tag(r) = <<c - 1, TagKind(k.kind), step.tag>>
    BY <1>1 DEF Tag, k
  <2>2. [i \in DOMAIN step.out |-> work[r][step.out[i]]]
          = [i \in DOMAIN step.out |-> SetToBag(Held(k, c, r, p, step.out[i]))]
    BY <1>4
  <2>3. Frame(r) = [tag |-> <<c - 1, TagKind(k.kind), step.tag>>, shape |-> Shape(r),
                    body |-> [i \in DOMAIN step.out |-> SetToBag(Held(k, c, r, p, step.out[i]))]]
    BY <1>1, <2>1, <2>2 DEF Frame
  <2> QED
    BY <1>2, <2>3 DEF FrameOf
<1>6. p \in Steps(program, c, <<r, d>>)
  BY <1>1, <1>2 DEF Steps
<1> QED
  BY <1>2, <1>3, <1>5, <1>6 DEF SentOn

(* The frame a step has received makes of the chunks what the next step    *)
(* should hold.                                                            *)
LEMMA ReducedIs ==
  ASSUME CallsInv, NEW r \in Ranks, pos[r] > 0, NEW f \in incoming[r]
  PROVE  Reduced(r, f.body) = HeldChunks(Call(r), CallOf(r), r, pos[r] + 1)
<1> DEFINE c == CallOf(r)
           k == Call(r)
           p == pos[r]
           into == Script(k, r)[p].into
<1>1. /\ Step(r) = Script(k, r)[p] /\ p \in DOMAIN Script(k, r) /\ next[r] = c
      /\ work[r] = HeldChunks(k, c, r, p)
      /\ StepInRange(k, r, p) /\ Works(k, c, r)
  BY StepFacts
<1>2. c \in DOMAIN program /\ k = program[c] /\ c \in Nat
  BY StepFacts, CallFacts DEF Call
<1>3. Tag(r) = <<c - 1, TagKind(k.kind), Script(k, r)[p].tag>>
  BY <1>1 DEF Tag
<1>4. PICK s \in Script(k, r)[p].from : s # r /\ f \in SentOn(program, <<s, r>>) /\ f.tag = Tag(r)
  BY <1>1 DEF CallsInv, IncomingInv
<1> HIDE DEF c, k, p
<1>5. s \in Ranks \ {r}
  BY <1>1, <1>4 DEF StepInRange
<1>6. PICK e \in DOMAIN program : \E q \in Steps(program, e, <<s, r>>), shape \in Shapes :
        f = FrameOf(program, s, e, q, shape)
  BY <1>4 DEF SentOn
<1>7. PICK q \in Steps(program, e, <<s, r>>), shape \in Shapes : f = FrameOf(program, s, e, q, shape)
  BY <1>6
<1>8. e \in Nat
  <2>1. program \in Seq(AnyCall)
    BY CollectivesAssumption DEF CallsInv, Domains, AnyCall
  <2> QED
    BY <2>1
<1>9. e = c
  <2>1. f.tag = <<e - 1, TagKind(program[e].kind), Script(program[e], s)[q].tag>>
    BY <1>7 DEF FrameOf
  <2>2. e - 1 = c - 1
    BY <1>3, <1>4, <2>1
  <2> QED
    BY <1>2, <1>8, <2>2
<1>10. /\ f.tag = <<c - 1, TagKind(k.kind), Script(k, s)[q].tag>>
       /\ f.body = [i \in DOMAIN Script(k, s)[q].out |-> SetToBag(Held(k, c, s, q, Script(k, s)[q].out[i]))]
  BY <1>2, <1>7, <1>9 DEF FrameOf
<1>11. q \in DOMAIN Script(k, s) /\ r \in Script(k, s)[q].to
  BY <1>2, <1>7, <1>9 DEF Steps
<1>12. Script(k, r)[p].tag = Script(k, s)[q].tag
  BY <1>3, <1>4, <1>10
<1>13. Combines(k, c, r, p, s, q)
  <2>1. Meet(k, r, p, s, q)
    BY <1>4, <1>11, <1>12 DEF Meet
  <2> QED
    BY <1>1, <1>5, <1>11, <2>1 DEF Works
<1> DEFINE out == Script(k, s)[q].out
<1>14. ASSUME NEW x \in Keys
       PROVE  Reduced(r, f.body)[x] = SetToBag(Held(k, c, r, p + 1, x))
  <2> DEFINE at == CHOOSE i \in DOMAIN into : into[i] = x
  <2>1. Reduced(r, f.body)[x] = IF \A i \in DOMAIN into : into[i] # x THEN work[r][x]
                                ELSE IF Script(k, r)[p].how = "add" THEN work[r][x] (+) f.body[at]
                                ELSE f.body[at]
    BY <1>1 DEF Reduced
  <2>2. work[r][x] = SetToBag(Held(k, c, r, p, x))
    BY <1>1 DEF HeldChunks
  <2>3. CASE \A i \in DOMAIN into : into[i] # x
    <3>1. Held(k, c, r, p + 1, x) = Held(k, c, r, p, x)
      BY <1>13, <2>3 DEF Combines
    <3> QED
      BY <2>1, <2>2, <2>3, <3>1
  <2>4. CASE \E i \in DOMAIN into : into[i] = x
    <3>1. at \in DOMAIN into /\ into[at] = x
      BY <2>4
    <3> HIDE DEF at
    <3>2. at \in DOMAIN out /\ Takes(k, c, r, p, s, q, x, out[at])
      BY <1>13, <3>1 DEF Combines
    <3>3. f.body[at] = SetToBag(Held(k, c, s, q, out[at]))
      BY <1>10, <3>2
    <3> HIDE DEF into, out
    <3>4. CASE Script(k, r)[p].how = "add"
      <4>1. Reduced(r, f.body)[x] = SetToBag(Held(k, c, r, p, x)) (+) SetToBag(Held(k, c, s, q, out[at]))
        BY <2>1, <2>2, <2>4, <3>3, <3>4
      <4>2. /\ Held(k, c, r, p, x) \intersect Held(k, c, s, q, out[at]) = {}
            /\ Held(k, c, r, p + 1, x) = Held(k, c, r, p, x) \union Held(k, c, s, q, out[at])
        BY <3>2, <3>4 DEF Takes
      <4> QED
        BY <4>1, <4>2, BagSum
    <3>5. CASE Script(k, r)[p].how # "add"
      <4>1. Held(k, c, r, p + 1, x) = Held(k, c, s, q, out[at])
        BY <3>2, <3>5 DEF Takes
      <4> QED
        BY <2>1, <2>4, <3>3, <3>5, <4>1
    <3> QED
      BY <3>4, <3>5
  <2> QED
    BY <2>3, <2>4
<1>15. Reduced(r, f.body) = [x \in Keys |-> Reduced(r, f.body)[x]]
  BY DEF Reduced
<1>16. Reduced(r, f.body) = HeldChunks(k, c, r, p + 1)
  BY <1>14, <1>15 DEF HeldChunks
<1> QED
  BY <1>16 DEF k, c, p

-----------------------------------------------------------------------------
(* The invariant is kept by every action. *)

LEMMA InitHolds == Init => CallsInv
<1> SUFFICES ASSUME Init PROVE CallsInv
  OBVIOUS
<1>1. Domains
  BY DEF Init, Domains
<1>2. ASSUME NEW r \in Ranks
      PROVE  CallInv(r) /\ IncomingInv(r)
  <2>1. results[r] = <<>> /\ pos[r] = 0 /\ next[r] = 0 /\ incoming[r] = {}
    BY DEF Init
  <2>2. Len(program) \in Nat
    BY CollectivesAssumption DEF Init
  <2> QED
    BY <2>1, <2>2 DEF CallInv, IncomingInv
<1>3. ASSUME NEW l \in Links
      PROVE  LinkInv(l)
  BY DEF Init, LinkInv
<1>4. StaleTrafficIgnored
  BY DEF Init, StaleTrafficIgnored
<1> QED
  BY <1>1, <1>2, <1>3, <1>4 DEF CallsInv

LEMMA RankUnchanged ==
  ASSUME NEW q \in Ranks, CallInv(q), IncomingInv(q), program' = program,
         next'[q] = next[q], pos'[q] = pos[q], work'[q] = work[q],
         incoming'[q] = incoming[q], results'[q] = results[q]
  PROVE  CallInv(q)' /\ IncomingInv(q)'
<1>1. CallOf(q)' = CallOf(q) /\ Call(q)' = Call(q)
  BY DEF CallOf, Call
<1>2. Step(q)' = Step(q)
  BY <1>1 DEF Step
<1>3. Tag(q)' = Tag(q)
  BY <1>1, <1>2 DEF Tag
<1> QED
  BY <1>1, <1>2, <1>3 DEF CallInv, IncomingInv

LEMMA LinkUnchanged ==
  ASSUME NEW l \in Links, LinkInv(l), program' = program, unread'[l] = unread[l],
         pending'[l] = pending[l]
  PROVE  LinkInv(l)'
BY DEF LinkInv

(* A call that returns. *)
LEMMA ReturnKeeps ==
  ASSUME CallsInv, NEW r \in Ranks, NEW ok \in BOOLEAN, NEW value \in Values, Return(r, ok, value),
         program' = program, DOMAIN next' = Ranks, next'[r] \in Nat,
         \A q \in Ranks \ {r} : next'[q] = next[q],
         CallOf(r) <= Len(program), ok => value = Expected(Call(r), CallOf(r), r)
  PROVE  /\ DOMAIN pos' = Ranks /\ DOMAIN work' = Ranks /\ DOMAIN incoming' = Ranks
         /\ DOMAIN results' = Ranks
         /\ \A q \in Ranks : CallInv(q)' /\ IncomingInv(q)'
         /\ StaleTrafficIgnored'
<1> DEFINE n == Len(results[r])
           new == [ok |-> ok, value |-> value]
<1>1. /\ DOMAIN pos' = Ranks /\ DOMAIN work' = Ranks /\ DOMAIN incoming' = Ranks
      /\ DOMAIN results' = Ranks
  BY DEF Return, CallsInv, Domains
<1>2. /\ results'[r] = Append(results[r], new) /\ pos'[r] = 0 /\ incoming'[r] = {}
      /\ \A q \in Ranks \ {r} : /\ results'[q] = results[q] /\ pos'[q] = pos[q]
                                /\ incoming'[q] = incoming[q] /\ work'[q] = work[q]
  BY DEF Return, CallsInv, Domains
<1>3. /\ results[r] \in Seq([ok : BOOLEAN, value : Values]) /\ new \in [ok : BOOLEAN, value : Values]
  BY DEF CallsInv, CallInv
<1> HIDE DEF new
<1>4. /\ results'[r] \in Seq([ok : BOOLEAN, value : Values])
      /\ Len(results'[r]) = n + 1 /\ n \in Nat
      /\ DOMAIN results'[r] = 1 .. n + 1
      /\ results'[r][n + 1] = new
      /\ \A c \in 1 .. n : results'[r][c] = results[r][c] /\ c \in DOMAIN results[r]
  BY <1>2, <1>3
<1>5. CallInv(r)' /\ IncomingInv(r)'
  BY <1>2, <1>4 DEF CallInv, IncomingInv, CallOf
<1>6. ASSUME NEW q \in Ranks \ {r}
      PROVE  CallInv(q)' /\ IncomingInv(q)'
  BY <1>2, RankUnchanged DEF CallsInv
<1>7. ASSUME NEW q \in Ranks, NEW c \in DOMAIN results'[q], results'[q][c].ok
      PROVE  results'[q][c].value = Expected(program'[c], c, q)
  <2>1. CASE q # r
    BY <1>2, <1>7, <2>1 DEF CallsInv, StaleTrafficIgnored
  <2>2. CASE q = r /\ c # n + 1
    <3>1. c \in 1 .. n
      BY <1>4, <1>7, <2>2
    <3> QED
      BY <1>4, <1>7, <2>2, <3>1 DEF CallsInv, StaleTrafficIgnored
  <2>3. CASE q = r /\ c = n + 1
    <3>1. ok /\ results'[q][c].value = value
      BY <1>4, <1>7, <2>3 DEF new
    <3>2. c = CallOf(r)
      BY <2>3 DEF CallOf
    <3> QED
      BY <2>3, <3>1, <3>2 DEF Call
  <2> QED
    BY <2>1, <2>2, <2>3
<1>8. StaleTrafficIgnored'
  BY <1>7 DEF StaleTrafficIgnored
<1> QED
  BY <1>1, <1>5, <1>6, <1>8

LEMMA BeginKeeps ==
  ASSUME CallsInv, NEW r \in Ranks, Begin(r), InStep'
  PROVE  CallsInv'
<1>1. /\ pos[r] = 0 /\ CallOf(r) <= Len(program) /\ program' = program
      /\ next' = [next EXCEPT ![r] = IF BadType(r) THEN @ ELSE @ + 1]
      /\ unread' = unread /\ pending' = pending
  BY DEF Begin, setup
<1>2. /\ DOMAIN next' = Ranks /\ next'[r] = IF BadType(r) THEN next[r] ELSE next[r] + 1
      /\ \A q \in Ranks \ {r} : next'[q] = next[q]
  BY <1>1 DEF CallsInv, Domains
<1>3. next[r] \in Nat /\ next'[r] \in Nat
  BY <1>2 DEF CallsInv, CallInv
<1>4. \A l \in Links : LinkInv(l)'
  BY <1>1, LinkUnchanged DEF CallsInv
<1>5. CASE Return(r, FALSE, <<>>)
  <2>1. <<>> \in Values
    BY DEF Values
  <2>2. /\ DOMAIN pos' = Ranks /\ DOMAIN work' = Ranks /\ DOMAIN incoming' = Ranks
        /\ DOMAIN results' = Ranks
        /\ \A q \in Ranks : CallInv(q)' /\ IncomingInv(q)'
        /\ StaleTrafficIgnored'
    BY <1>1, <1>2, <1>3, <1>5, <2>1, ReturnKeeps
  <2> QED
    BY <1>1, <1>2, <1>4, <2>2 DEF CallsInv, Domains
<1>6. CASE /\ ~BadType(r)
           /\ pos' = [pos EXCEPT ![r] = 1]
           /\ work' = [work EXCEPT ![r] = Contribution(Call(r), CallOf(r), r)]
           /\ UNCHANGED <<put, incoming, results>>
  <2>1. /\ pos'[r] = 1 /\ work'[r] = Contribution(Call(r), CallOf(r), r)
        /\ DOMAIN pos' = Ranks /\ DOMAIN work' = Ranks
        /\ \A q \in Ranks \ {r} : pos'[q] = pos[q] /\ work'[q] = work[q]
        /\ incoming' = incoming /\ results' = results
    BY <1>6 DEF CallsInv, Domains
  <2>2. \A q \in Ranks \ {r} : CallInv(q)' /\ IncomingInv(q)'
    BY <1>1, <1>2, <2>1, RankUnchanged DEF CallsInv
  <2>3. CallOf(r)' = CallOf(r) /\ Call(r)' = Call(r)
    BY <1>1, <2>1 DEF CallOf, Call
  <2>4. Call(r) \in AnyCall
    BY <1>1, CallFacts
  <2>5. work'[r] = HeldChunks(Call(r), CallOf(r), r, 1)
    BY <2>1, <2>4, HeldFirst
  <2>6. 1 \in DOMAIN Script(Call(r), r)
    <3>1. Works(Call(r), CallOf(r), r)
      BY <2>4, AllWork
    <3> QED
      BY <3>1 DEF Works
  <2>7. CallInv(r)'
    <3>1. /\ results[r] \in Seq([ok : BOOLEAN, value : Values]) /\ Len(results[r]) <= Len(program)
      BY DEF CallsInv, CallInv
    <3>2. next'[r] = CallOf(r)
      <4>1. next'[r] = 0 \/ next'[r] = Begun(r)'
        BY DEF InStep
      <4>2. next'[r] # 0
        BY <1>2, <1>3, <1>6
      <4>3. Begun(r)' = CallOf(r)
        BY <2>1 DEF Begun, CallOf
      <4> QED
        BY <4>1, <4>2, <4>3
    <3> QED
      BY <1>1, <1>3, <2>1, <2>3, <2>5, <2>6, <3>1, <3>2 DEF CallInv
  <2>8. IncomingInv(r)'
    BY <1>1, <2>1 DEF CallsInv, IncomingInv
  <2>9. StaleTrafficIgnored'
    BY <1>1, <2>1 DEF CallsInv, StaleTrafficIgnored
  <2> QED
    BY <1>1, <1>2, <1>4, <2>1, <2>2, <2>7, <2>8, <2>9 DEF CallsInv, Domains
<1> QED
  BY <1>5, <1>6 DEF Begin

LEMMA SendKeeps ==
  ASSUME CallsInv, NEW r \in Ranks, Send(r)
  PROVE  CallsInv'
<1>1. /\ pos[r] > 0 /\ program' = program /\ next' = next /\ pos' = pos /\ incoming' = incoming
      /\ work' = work /\ results' = results /\ pending' = pending
  BY DEF Send, setup
<1>2. PICK d \in Step(r).to : unread' = [unread EXCEPT ![<<r, d>>] = Append(@, Frame(r))]
  BY DEF Send
<1>3. Frame(r) \in SentOn(program, <<r, d>>)
  BY <1>1, FrameSent
<1>4. ASSUME NEW l \in Links
      PROVE  LinkInv(l)'
  <2>1. CASE l = <<r, d>>
    <3>1. unread'[l] = Append(unread[l], Frame(r))
      BY <1>2, <2>1 DEF CallsInv, Domains
    <3>2. unread'[l] \in Seq(SentOn(program, l))
      BY <1>3, <2>1, <3>1 DEF CallsInv, LinkInv
    <3> QED
      BY <1>1, <3>2 DEF CallsInv, LinkInv
  <2>2. CASE l # <<r, d>>
    <3>1. unread'[l] = unread[l]
      BY <1>2, <2>2 DEF CallsInv, Domains
    <3> QED
      BY <1>1, <3>1, LinkUnchanged DEF CallsInv
  <2> QED
    BY <2>1, <2>2
<1>5. \A q \in Ranks : CallInv(q)' /\ IncomingInv(q)'
  BY <1>1, RankUnchanged DEF CallsInv
<1>6. StaleTrafficIgnored'
  BY <1>1 DEF CallsInv, StaleTrafficIgnored
<1> QED
  BY <1>1, <1>2, <1>4, <1>5, <1>6 DEF CallsInv, Domains

(* A frame with the tag of r that belongs on a link to r is received. *)
LEMMA IncomingKeeps ==
  ASSUME CallsInv, NEW r \in Ranks, pos[r] > 0, NEW s \in Step(r).from,
         NEW f \in SentOn(program, <<s, r>>), f.tag = Tag(r), incoming' = [incoming EXCEPT ![r] = {f}],
         program' = program, next' = next, pos' = pos, work' = work, results' = results
  PROVE  \A q \in Ranks : CallInv(q)' /\ IncomingInv(q)'
<1>1. incoming'[r] = {f} /\ \A q \in Ranks \ {r} : incoming'[q] = incoming[q]
  BY DEF CallsInv, Domains
<1>2. \A q \in Ranks \ {r} : CallInv(q)' /\ IncomingInv(q)'
  BY <1>1, RankUnchanged DEF CallsInv
<1>3. CallOf(r)' = CallOf(r) /\ Call(r)' = Call(r)
  BY DEF CallOf, Call
<1>4. Step(r)' = Step(r)
  BY <1>3 DEF Step
<1>5. Tag(r)' = Tag(r)
  BY <1>3, <1>4 DEF Tag
<1>6. CallInv(r)'
  BY <1>3 DEF CallsInv, CallInv
<1>7. s # r
  BY StepFacts DEF StepInRange
<1>8. IncomingInv(r)'
  BY <1>1, <1>4, <1>5, <1>7 DEF IncomingInv
<1> QED
  BY <1>2, <1>6, <1>8

LEMMA TakePendingKeeps ==
  ASSUME CallsInv, NEW r \in Ranks, TakePending(r)
  PROVE  CallsInv'
<1>1. /\ pos[r] > 0 /\ program' = program /\ next' = next /\ pos' = pos
      /\ work' = work /\ results' = results /\ unread' = unread
  BY DEF TakePending, Receiving, setup
<1>0. PICK s \in Step(r).from : \E f \in pending[<<s, r>>] :
        /\ f.tag = Tag(r)
        /\ pending' = [pending EXCEPT ![<<s, r>>] = @ \ {f}]
        /\ incoming' = [incoming EXCEPT ![r] = {f}]
  BY DEF TakePending
<1>2. PICK f \in pending[<<s, r>>] :
        /\ f.tag = Tag(r)
        /\ pending' = [pending EXCEPT ![<<s, r>>] = @ \ {f}]
        /\ incoming' = [incoming EXCEPT ![r] = {f}]
  BY <1>0
<1>3. <<s, r>> \in Links
  BY <1>1, StepFacts DEF StepInRange, Links
<1>4. f \in SentOn(program, <<s, r>>)
  BY <1>2, <1>3 DEF CallsInv, LinkInv
<1>5. \A q \in Ranks : CallInv(q)' /\ IncomingInv(q)'
  BY <1>1, <1>2, <1>4, IncomingKeeps
<1>6. ASSUME NEW l \in Links
      PROVE  LinkInv(l)'
  <2>1. pending'[l] \subseteq pending[l]
    BY <1>2 DEF CallsInv, Domains
  <2> QED
    BY <1>1, <2>1 DEF CallsInv, LinkInv
<1>7. StaleTrafficIgnored'
  BY <1>1 DEF CallsInv, StaleTrafficIgnored
<1> QED
  BY <1>1, <1>2, <1>5, <1>6, <1>7 DEF CallsInv, Domains

LEMMA ReadKeeps ==
  ASSUME CallsInv, NEW r \in Ranks, Read(r)
  PROVE  CallsInv'
<1>1. /\ pos[r] > 0 /\ program' = program /\ next' = next /\ pos' = pos
      /\ work' = work /\ results' = results
  BY DEF Read, Receiving, setup
<1>2. PICK s \in Step(r).from :
        /\ unread[<<s, r>>] # <<>>
        /\ unread' = [unread EXCEPT ![<<s, r>>] = Tail(@)]
        /\ LET f == Head(unread[<<s, r>>])
           IN IF f.tag = Tag(r)
                THEN incoming' = [incoming EXCEPT ![r] = {f}] /\ UNCHANGED pending
                ELSE pending' = [pending EXCEPT ![<<s, r>>] = @ \union {f}] /\ UNCHANGED incoming
  BY DEF Read
<1> DEFINE f == Head(unread[<<s, r>>])
<1>3. <<s, r>> \in Links
  BY <1>1, StepFacts DEF StepInRange, Links
<1>4. unread[<<s, r>>] \in Seq(SentOn(program, <<s, r>>))
  BY <1>3 DEF CallsInv, LinkInv
<1>5. f \in SentOn(program, <<s, r>>) /\ Tail(unread[<<s, r>>]) \in Seq(SentOn(program, <<s, r>>))
  BY <1>2, <1>4
<1> HIDE DEF f
<1>6. ASSUME NEW l \in Links
      PROVE  LinkInv(l)'
  <2>1. unread'[l] \in Seq(SentOn(program, l))
    <3>1. CASE l = <<s, r>>
      BY <1>2, <1>5, <3>1 DEF CallsInv, Domains
    <3>2. CASE l # <<s, r>>
      BY <1>2, <3>2 DEF CallsInv, Domains, LinkInv
    <3> QED
      BY <3>1, <3>2
  <2>2. pending'[l] \subseteq SentOn(program, l)
    <3>1. CASE pending' = pending
      BY <3>1 DEF CallsInv, LinkInv
    <3>2. CASE pending' = [pending EXCEPT ![<<s, r>>] = @ \union {f}]
      BY <1>5, <3>2 DEF CallsInv, Domains, LinkInv
    <3> QED
      BY <1>2, <3>1, <3>2 DEF f
  <2> QED
    BY <1>1, <2>1, <2>2 DEF LinkInv
<1>7. DOMAIN unread' = Links /\ DOMAIN pending' = Links /\ DOMAIN incoming' = Ranks
  BY <1>2 DEF CallsInv, Domains
<1>8. \A q \in Ranks : CallInv(q)' /\ IncomingInv(q)'
  <2>1. CASE f.tag = Tag(r)
    <3>1. incoming' = [incoming EXCEPT ![r] = {f}]
      BY <1>2, <2>1 DEF f
    <3> QED
      BY <1>1, <1>5, <2>1, <3>1, IncomingKeeps
  <2>2. CASE f.tag # Tag(r)
    <3>1. incoming' = incoming
      BY <1>2, <2>2 DEF f
    <3> QED
      BY <1>1, <3>1, RankUnchanged DEF CallsInv
  <2> QED
    BY <2>1, <2>2
<1>9. StaleTrafficIgnored'
  BY <1>1 DEF CallsInv, StaleTrafficIgnored
<1> QED
  BY <1>1, <1>6, <1>7, <1>8, <1>9 DEF CallsInv, Domains

(* A call that fails, whatever it does to its links. *)
LEMMA FailureKeeps ==
  ASSUME CallsInv, NEW r \in Ranks, pos[r] > 0, Return(r, FALSE, <<>>), program' = program, next' = next,
         DOMAIN unread' = Links, DOMAIN pending' = Links, \A l \in Links : LinkInv(l)'
  PROVE  CallsInv'
<1>1. <<>> \in Values
  BY DEF Values
<1>2. CallOf(r) <= Len(program)
  BY StepFacts
<1>3. /\ DOMAIN next' = Ranks /\ next'[r] \in Nat
      /\ \A q \in Ranks \ {r} : next'[q] = next[q]
  BY DEF CallsInv, CallInv, Domains
<1>4. /\ DOMAIN pos' = Ranks /\ DOMAIN work' = Ranks /\ DOMAIN incoming' = Ranks
      /\ DOMAIN results' = Ranks
      /\ \A q \in Ranks : CallInv(q)' /\ IncomingInv(q)'
      /\ StaleTrafficIgnored'
  BY <1>1, <1>2, <1>3, ReturnKeeps
<1> QED
  BY <1>3, <1>4 DEF CallsInv, Domains

LEMMA TimeOutKeeps ==
  ASSUME CallsInv, NEW r \in Ranks, TimeOut(r)
  PROVE  CallsInv'
<1>1. /\ pos[r] > 0 /\ Return(r, FALSE, <<>>) /\ program' = program /\ next' = next
      /\ unread' = unread /\ pending' = pending
  BY DEF TimeOut, Receiving, setup
<1>2. \A l \in Links : LinkInv(l)'
  BY <1>1, LinkUnchanged DEF CallsInv
<1>3. DOMAIN unread' = Links /\ DOMAIN pending' = Links
  BY <1>1 DEF CallsInv, Domains
<1> QED
  BY <1>1, <1>2, <1>3, FailureKeeps

LEMMA SendFailsKeeps ==
  ASSUME CallsInv, NEW r \in Ranks, SendFails(r)
  PROVE  CallsInv'
<1>1. /\ pos[r] > 0 /\ Return(r, FALSE, <<>>) /\ program' = program /\ next' = next
      /\ pending' = pending
  BY DEF SendFails, setup
<1>2. PICK d \in Step(r).to :
        unread' = [unread EXCEPT ![<<r, d>>] = SubSeq(@, 1, Len(@) - 1)]
  BY DEF SendFails
<1>3. ASSUME NEW l \in Links
      PROVE  LinkInv(l)'
  <2>1. CASE l = <<r, d>>
    <3>1. unread'[l] = SubSeq(unread[l], 1, Len(unread[l]) - 1)
      BY <1>2, <2>1 DEF CallsInv, Domains
    <3>2. unread[l] \in Seq(SentOn(program, l))
      BY DEF CallsInv, LinkInv
    <3>3. unread'[l] \in Seq(SentOn(program, l))
      <4> DEFINE u == unread[l]
                 S == SentOn(program, l)
                 n == Len(u) - 1
      <4>1. u \in Seq(S) /\ n \in Int /\ n <= Len(u)
        BY <3>2
      <4> HIDE DEF u, S
      <4>2. \A i \in 1 .. n : u[i] \in S
        BY <4>1
      <4>3. SubSeq(u, 1, n) \in Seq(S)
        BY <4>1, <4>2, SubSeqProperties
      <4> QED
        BY <3>1, <4>3 DEF u, S
    <3> QED
      BY <1>1, <3>3 DEF CallsInv, LinkInv
  <2>2. CASE l # <<r, d>>
    <3>1. unread'[l] = unread[l]
      BY <1>2, <2>2 DEF CallsInv, Domains
    <3> QED
      BY <1>1, <3>1, LinkUnchanged DEF CallsInv
  <2> QED
    BY <2>1, <2>2
<1>4. DOMAIN unread' = Links /\ DOMAIN pending' = Links
  BY <1>1, <1>2 DEF CallsInv, Domains
<1> QED
  BY <1>1, <1>3, <1>4, FailureKeeps

LEMMA AdvanceKeeps ==
  ASSUME CallsInv, NEW r \in Ranks, Advance(r)
  PROVE  CallsInv'
<1> DEFINE c == CallOf(r)
           k == Call(r)
           p == pos[r]
           bad == \E f \in incoming[r] : ~ShapeAccepted(Step(r), Shape(r), f)
           chunks == IF incoming[r] = {} THEN work[r]
                     ELSE Reduced(r, (CHOOSE f \in incoming[r] : TRUE).body)
<1>1. /\ p > 0 /\ program' = program /\ next' = next /\ unread' = unread /\ pending' = pending
      /\ Step(r).from # {} => incoming[r] # {}
  BY DEF Advance, setup
<1>2. /\ Step(r) = Script(k, r)[p] /\ p \in DOMAIN Script(k, r) /\ p \in Nat /\ next[r] = c
      /\ work[r] = HeldChunks(k, c, r, p) /\ Works(k, c, r) /\ c <= Len(program)
      /\ Scripts[k][r] = Script(k, r)
  BY <1>1, StepFacts
<1>3. k \in AnyCall /\ c \in Nat
  BY <1>2, CallFacts
<1>4. chunks = HeldChunks(k, c, r, p + 1)
  <2>1. CASE incoming[r] = {}
    <3>1. Passes(k, c, r, p)
      BY <1>1, <1>2, <2>1 DEF Works
    <3>2. HeldChunks(k, c, r, p + 1) = HeldChunks(k, c, r, p)
      BY <3>1 DEF Passes, HeldChunks
    <3> QED
      BY <1>2, <2>1, <3>2
  <2>2. CASE incoming[r] # {}
    <3> DEFINE f == CHOOSE f \in incoming[r] : TRUE
    <3>1. f \in incoming[r]
      BY <2>2
    <3>2. Reduced(r, f.body) = HeldChunks(k, c, r, p + 1)
      BY <1>1, <3>1, ReducedIs
    <3> QED
      BY <2>2, <3>2
  <2> QED
    BY <2>1, <2>2
<1>5. \A l \in Links : LinkInv(l)'
  BY <1>1, LinkUnchanged DEF CallsInv
<1>6. DOMAIN unread' = Links /\ DOMAIN pending' = Links /\ DOMAIN next' = Ranks
  BY <1>1 DEF CallsInv, Domains
<1>7. \/ Return(r, FALSE, <<>>)
      \/ p = Len(Script(k, r)) /\ Return(r, TRUE, ResultOf(k, r, chunks))
      \/ /\ p # Len(Script(k, r))
         /\ pos' = [pos EXCEPT ![r] = @ + 1]
         /\ incoming' = [incoming EXCEPT ![r] = {}]
         /\ work' = [work EXCEPT ![r] = chunks]
         /\ UNCHANGED results
  <2>1. IF bad THEN Return(r, FALSE, <<>>)
        ELSE IF p = Len(Scripts[k][r])
               THEN Return(r, TRUE, ResultOf(k, r, chunks))
        ELSE /\ pos' = [pos EXCEPT ![r] = @ + 1]
             /\ put' = [put EXCEPT ![r] = FALSE]
             /\ incoming' = [incoming EXCEPT ![r] = {}]
             /\ work' = [work EXCEPT ![r] = chunks]
             /\ UNCHANGED results
    BY DEF Advance
  <2> HIDE DEF bad, chunks, k
  <2> QED
    BY <1>2, <2>1
<1> HIDE DEF bad, chunks
<1>8. CASE Return(r, FALSE, <<>>)
  BY <1>1, <1>5, <1>6, <1>8, FailureKeeps
<1>9. CASE p = Len(Script(k, r)) /\ Return(r, TRUE, ResultOf(k, r, chunks))
  <2>1. ResultOf(k, r, chunks) = Expected(k, c, r)
    BY <1>2, <1>4, <1>9 DEF Works
  <2>2. Expected(k, c, r) \in Values
    BY <1>3 DEF Values, AnyCall
  <2>3. Return(r, TRUE, Expected(k, c, r))
    BY <1>9, <2>1
  <2>4. next'[r] \in Nat /\ \A q \in Ranks \ {r} : next'[q] = next[q]
    BY <1>1, <1>2, <1>3
  <2>5. /\ DOMAIN pos' = Ranks /\ DOMAIN work' = Ranks /\ DOMAIN incoming' = Ranks
        /\ DOMAIN results' = Ranks
        /\ \A q \in Ranks : CallInv(q)' /\ IncomingInv(q)'
        /\ StaleTrafficIgnored'
    BY <1>1, <1>2, <1>6, <2>2, <2>3, <2>4, ReturnKeeps
  <2> QED
    BY <1>1, <1>5, <1>6, <2>5 DEF CallsInv, Domains
<1>10. CASE /\ p # Len(Script(k, r))
            /\ pos' = [pos EXCEPT ![r] = @ + 1]
            /\ incoming' = [incoming EXCEPT ![r] = {}]
            /\ work' = [work EXCEPT ![r] = chunks]
            /\ UNCHANGED results
  <2>1. /\ pos'[r] = p + 1 /\ incoming'[r] = {} /\ work'[r] = chunks
        /\ DOMAIN pos' = Ranks /\ DOMAIN incoming' = Ranks /\ DOMAIN work' = Ranks
        /\ \A q \in Ranks \ {r} : /\ pos'[q] = pos[q] /\ incoming'[q] = incoming[q]
                                  /\ work'[q] = work[q]
        /\ results' = results
    BY <1>10 DEF CallsInv, Domains
  <2>2. \A q \in Ranks \ {r} : CallInv(q)' /\ IncomingInv(q)'
    BY <1>1, <2>1, RankUnchanged DEF CallsInv
  <2>3. CallOf(r)' = c /\ Call(r)' = k
    BY <1>1, <2>1 DEF CallOf, Call
  <2>4. p + 1 \in DOMAIN Script(k, r) /\ p + 1 \in Nat /\ p + 1 > 0
    BY <1>2, <1>10 DEF Works
  <2>5. CallInv(r)'
    <3>1. results[r] \in Seq([ok : BOOLEAN, value : Values]) /\ Len(results[r]) <= Len(program)
      BY DEF CallsInv, CallInv
    <3>2. next'[r] = c /\ next'[r] \in Nat
      BY <1>1, <1>2, <1>3
    <3>3. work'[r] = HeldChunks(k, c, r, p + 1)
      BY <1>4, <2>1
    <3> HIDE DEF c, k, p
    <3> QED
      BY <1>1, <1>2, <2>1, <2>3, <2>4, <3>1, <3>2, <3>3 DEF CallInv
  <2>6. IncomingInv(r)'
    BY <2>1 DEF IncomingInv
  <2>7. StaleTrafficIgnored'
    BY <1>1, <2>1 DEF CallsInv, StaleTrafficIgnored
  <2> QED
    BY <1>1, <1>5, <1>6, <2>1, <2>2, <2>5, <2>6, <2>7 DEF CallsInv, Domains
<1> QED
  BY <1>7, <1>8, <1>9, <1>10

(* The steps that change none of this: a worker that returns, the runner   *)
(* that joins, and none at all.                                            *)
LEMMA StillKeeps ==
  ASSUME CallsInv, program' = program, next' = next, pos' = pos, work' = work, incoming' = incoming,
         results' = results, unread' = unread, pending' = pending
  PROVE  CallsInv'
<1>1. \A q \in Ranks : CallInv(q)' /\ IncomingInv(q)'
  BY RankUnchanged DEF CallsInv
<1>2. \A l \in Links : LinkInv(l)'
  BY LinkUnchanged DEF CallsInv
<1>3. StaleTrafficIgnored'
  BY DEF CallsInv, StaleTrafficIgnored
<1> QED
  BY <1>1, <1>2, <1>3 DEF CallsInv, Domains

LEMMA NextCalls ==
  ASSUME CallsInv, [Next]_vars, InStep'
  PROVE  CallsInv'
<1>1. ASSUME NEW r \in Ranks, Begin(r) PROVE CallsInv'
  BY <1>1, BeginKeeps
<1>2. ASSUME NEW r \in Ranks, Send(r) PROVE CallsInv'
  BY <1>2, SendKeeps
<1>3. ASSUME NEW r \in Ranks, TakePending(r) PROVE CallsInv'
  BY <1>3, TakePendingKeeps
<1>4. ASSUME NEW r \in Ranks, Read(r) PROVE CallsInv'
  BY <1>4, ReadKeeps
<1>5. ASSUME NEW r \in Ranks, Advance(r) PROVE CallsInv'
  BY <1>5, AdvanceKeeps
<1>6. ASSUME NEW r \in Ranks, End(r) PROVE CallsInv'
  BY <1>6, StillKeeps DEF End, setup
<1>7. CASE Join
  BY <1>7, StillKeeps DEF Join, setup
<1>8. ASSUME NEW r \in Ranks, TimeOut(r) PROVE CallsInv'
  BY <1>8, TimeOutKeeps
<1>9. ASSUME NEW r \in Ranks, SendFails(r) PROVE CallsInv'
  BY <1>9, SendFailsKeeps
<1>10. CASE UNCHANGED vars
  BY <1>10, StillKeeps DEF vars, setup
<1> QED
  BY <1>1, <1>2, <1>3, <1>4, <1>5, <1>6, <1>7, <1>8, <1>9, <1>10
     DEF Next, AnyProgress, Progress

-----------------------------------------------------------------------------
(* Sequence numbers, in and out of step.  A rank that has taken fewer      *)
(* numbers than it has begun calls never makes up for it.                  *)

SequenceOf(r) ==
  /\ \E S : results[r] \in Seq(S)
  /\ pos[r] \in Nat /\ next[r] \in 0 .. Begun(r)
  /\ pos[r] > 0 => next[r] > 0

SequenceInv ==
  /\ DOMAIN next = Ranks /\ DOMAIN pos = Ranks /\ DOMAIN results = Ranks
  /\ \A r \in Ranks : SequenceOf(r)

RankInStep(r) == next[r] \in {0, Begun(r)}

(* What a step does to the numbers of r, and that it leaves those of the   *)
(* others alone.                                                           *)
Numbers(r) ==
  /\ DOMAIN next' = Ranks /\ DOMAIN pos' = Ranks /\ DOMAIN results' = Ranks
  /\ \A q \in Ranks \ {r} : next'[q] = next[q] /\ pos'[q] = pos[q] /\ results'[q] = results[q]
  /\ SequenceOf(r)' /\ (RankInStep(r)' => RankInStep(r))

LEMMA NumbersKeep ==
  ASSUME SequenceInv, NEW r \in Ranks, Numbers(r)
  PROVE  SequenceInv' /\ (InStep' => InStep)
<1>1. ASSUME NEW q \in Ranks
      PROVE  SequenceOf(q)' /\ (RankInStep(q)' => RankInStep(q))
  <2>1. CASE q = r
    BY <2>1 DEF Numbers
  <2>2. CASE q # r
    <3>1. next'[q] = next[q] /\ pos'[q] = pos[q] /\ results'[q] = results[q]
      BY <2>2 DEF Numbers
    <3>2. Begun(q)' = Begun(q)
      BY <3>1 DEF Begun
    <3>3. SequenceOf(q)
      BY DEF SequenceInv
    <3> QED
      BY <3>1, <3>2, <3>3 DEF SequenceOf, RankInStep
  <2> QED
    BY <2>1, <2>2
<1>2. SequenceInv'
  BY <1>1 DEF SequenceInv, Numbers
<1>3. InStep' => InStep
  BY <1>1 DEF InStep, RankInStep
<1> QED
  BY <1>2, <1>3

LEMMA ReturnNumbers ==
  ASSUME SequenceInv, NEW r \in Ranks, NEW ok, NEW value, Return(r, ok, value)
  PROVE  /\ DOMAIN pos' = Ranks /\ DOMAIN results' = Ranks
         /\ \A q \in Ranks \ {r} : pos'[q] = pos[q] /\ results'[q] = results[q]
         /\ pos'[r] = 0 /\ (\E S : results'[r] \in Seq(S))
         /\ Len(results[r]) \in Nat /\ Begun(r)' = Len(results[r]) + 1
<1> DEFINE new == [ok |-> ok, value |-> value]
<1>1. /\ DOMAIN pos' = Ranks /\ DOMAIN results' = Ranks
      /\ \A q \in Ranks \ {r} : pos'[q] = pos[q] /\ results'[q] = results[q]
      /\ pos'[r] = 0 /\ results'[r] = Append(results[r], new)
  BY DEF Return, SequenceInv
<1>2. PICK S : results[r] \in Seq(S)
  BY DEF SequenceInv, SequenceOf
<1> HIDE DEF new
<1>3. results[r] \in Seq(S \union {new})
  BY <1>2
<1>4. /\ results'[r] \in Seq(S \union {new}) /\ Len(results[r]) \in Nat
      /\ Len(results'[r]) = Len(results[r]) + 1
  BY <1>1, <1>3
<1>5. Begun(r)' = Len(results[r]) + 1
  BY <1>1, <1>4 DEF Begun
<1> QED
  BY <1>1, <1>4, <1>5

LEMMA BeginNumbers ==
  ASSUME SequenceInv, NEW r \in Ranks, Begin(r)
  PROVE  Numbers(r)
<1> DEFINE n == Len(results[r])
<1>1. /\ pos[r] = 0 /\ next' = [next EXCEPT ![r] = IF BadType(r) THEN @ ELSE @ + 1]
      /\ DOMAIN next = Ranks /\ SequenceOf(r)
  BY DEF Begin, SequenceInv
<1>2. /\ DOMAIN next' = Ranks /\ next'[r] = IF BadType(r) THEN next[r] ELSE next[r] + 1
      /\ \A q \in Ranks \ {r} : next'[q] = next[q]
  BY <1>1
<1>3. n \in Nat /\ Begun(r) = n /\ next[r] \in 0 .. n
  <2>1. n \in Nat
    BY <1>1 DEF SequenceOf
  <2> QED
    BY <1>1, <2>1 DEF SequenceOf, Begun
<1>4. BadType(r) => n = 0
  BY <1>3 DEF BadType, Flawed, CallOf
<1> HIDE DEF n
<1>5. CASE Return(r, FALSE, <<>>)
  <2>1. /\ DOMAIN pos' = Ranks /\ DOMAIN results' = Ranks
        /\ \A q \in Ranks \ {r} : pos'[q] = pos[q] /\ results'[q] = results[q]
        /\ pos'[r] = 0 /\ (\E S : results'[r] \in Seq(S)) /\ Begun(r)' = n + 1
    BY <1>5, ReturnNumbers DEF n
  <2>2. next'[r] \in 0 .. n + 1
    BY <1>2, <1>3
  <2>3. SequenceOf(r)'
    BY <2>1, <2>2 DEF SequenceOf
  <2>4. RankInStep(r)' => RankInStep(r)
    <3>1. CASE BadType(r)
      BY <1>3, <1>4, <3>1 DEF RankInStep
    <3>2. CASE ~BadType(r)
      BY <1>2, <1>3, <2>1, <3>2 DEF RankInStep
    <3> QED
      BY <3>1, <3>2
  <2> QED
    BY <1>2, <2>1, <2>3, <2>4 DEF Numbers
<1>6. CASE /\ ~BadType(r)
           /\ pos' = [pos EXCEPT ![r] = 1]
           /\ UNCHANGED <<put, incoming, results>>
  <2>1. /\ DOMAIN pos' = Ranks /\ DOMAIN results' = Ranks /\ results' = results
        /\ \A q \in Ranks \ {r} : pos'[q] = pos[q]
        /\ pos'[r] = 1
    BY <1>6 DEF SequenceInv
  <2>2. Begun(r)' = n + 1 /\ next'[r] = next[r] + 1
    BY <1>2, <1>6, <2>1 DEF Begun, n
  <2>3. SequenceOf(r)'
    BY <1>1, <1>3, <2>1, <2>2 DEF SequenceOf
  <2>4. RankInStep(r)' => RankInStep(r)
    BY <1>3, <2>2 DEF RankInStep
  <2> QED
    BY <1>2, <2>1, <2>3, <2>4 DEF Numbers
<1> QED
  BY <1>5, <1>6 DEF Begin

(* A call returns, or goes on to its next step. *)
LEMMA CallNumbers ==
  ASSUME SequenceInv, NEW r \in Ranks, pos[r] > 0, next' = next,
         \/ \E ok, value : Return(r, ok, value)
         \/ pos' = [pos EXCEPT ![r] = @ + 1] /\ results' = results
  PROVE  Numbers(r)
<1>1. DOMAIN next' = Ranks /\ next'[r] = next[r] /\ SequenceOf(r)
  BY DEF SequenceInv
<1>2. Len(results[r]) \in Nat /\ Begun(r) = Len(results[r]) + 1
  <2>1. Len(results[r]) \in Nat
    BY <1>1 DEF SequenceOf
  <2> QED
    BY <2>1 DEF Begun
<1>3. ASSUME NEW ok, NEW value, Return(r, ok, value)
      PROVE  Numbers(r)
  <2>1. /\ DOMAIN pos' = Ranks /\ DOMAIN results' = Ranks
        /\ \A q \in Ranks \ {r} : pos'[q] = pos[q] /\ results'[q] = results[q]
        /\ pos'[r] = 0 /\ (\E S : results'[r] \in Seq(S)) /\ Begun(r)' = Begun(r)
    BY <1>2, <1>3, ReturnNumbers
  <2> QED
    BY <1>1, <2>1 DEF Numbers, SequenceOf, RankInStep
<1>4. CASE pos' = [pos EXCEPT ![r] = @ + 1] /\ results' = results
  <2>1. /\ DOMAIN pos' = Ranks /\ DOMAIN results' = Ranks /\ pos'[r] = pos[r] + 1
        /\ \A q \in Ranks \ {r} : pos'[q] = pos[q]
    BY <1>4 DEF SequenceInv
  <2>2. Begun(r)' = Begun(r) /\ pos'[r] \in Nat
    BY <1>1, <1>2, <1>4, <2>1 DEF Begun, SequenceOf
  <2> QED
    BY <1>1, <1>4, <2>1, <2>2 DEF Numbers, SequenceOf, RankInStep
<1> QED
  BY <1>3, <1>4

LEMMA SameNumbers ==
  ASSUME SequenceInv, next' = next, pos' = pos, results' = results
  PROVE  SequenceInv' /\ (InStep' => InStep)
<1>1. \A q \in Ranks : Begun(q)' = Begun(q)
  BY DEF Begun
<1> QED
  BY <1>1 DEF SequenceInv, SequenceOf, InStep

LEMMA NextNumbers ==
  ASSUME SequenceInv, [Next]_vars
  PROVE  SequenceInv' /\ (InStep' => InStep)
<1>1. ASSUME NEW r \in Ranks, Begin(r) PROVE SequenceInv' /\ (InStep' => InStep)
  BY <1>1, BeginNumbers, NumbersKeep
<1>2. ASSUME NEW r \in Ranks, Send(r) \/ TakePending(r) \/ Read(r) \/ End(r)
      PROVE  SequenceInv' /\ (InStep' => InStep)
  BY <1>2, SameNumbers DEF Send, TakePending, Read, End
<1>3. ASSUME NEW r \in Ranks, Advance(r) \/ TimeOut(r) \/ SendFails(r)
      PROVE  SequenceInv' /\ (InStep' => InStep)
  <2>1. pos[r] > 0 /\ next' = next
    BY <1>3 DEF Advance, TimeOut, SendFails, Receiving
  <2>2. CASE Advance(r)
    <3>1. \/ \E ok, value : Return(r, ok, value)
          \/ pos' = [pos EXCEPT ![r] = @ + 1] /\ results' = results
      BY <2>2 DEF Advance
    <3> QED
      BY <2>1, <3>1, CallNumbers, NumbersKeep
  <2>3. CASE TimeOut(r) \/ SendFails(r)
    <3>1. Return(r, FALSE, <<>>)
      BY <2>3 DEF TimeOut, SendFails
    <3> QED
      BY <2>1, <3>1, CallNumbers, NumbersKeep
  <2> QED
    BY <1>3, <2>2, <2>3
<1>4. CASE Join
  BY <1>4, SameNumbers DEF Join
<1>5. CASE UNCHANGED vars
  BY <1>5, SameNumbers DEF vars
<1>6. CASE \E r \in Ranks : Progress(r)
  BY <1>1, <1>2, <1>3, <1>6 DEF Progress
<1>7. CASE \E r \in Ranks : TimeOut(r) \/ SendFails(r)
  BY <1>3, <1>7
<1> QED
  BY <1>4, <1>5, <1>6, <1>7 DEF Next, AnyProgress

LEMMA InitNumbers == Init => SequenceInv
<1> SUFFICES ASSUME Init PROVE SequenceInv
  OBVIOUS
<1>1. ASSUME NEW r \in Ranks
      PROVE  SequenceOf(r)
  <2>1. results[r] = <<>> /\ pos[r] = 0 /\ next[r] = 0
    BY DEF Init
  <2>2. results[r] \in Seq({}) /\ Len(results[r]) = 0
    BY <2>1
  <2> QED
    BY <2>1, <2>2 DEF SequenceOf, Begun
<1> QED
  BY <1>1 DEF Init, SequenceInv

(* For every world size, program of calls, room of the links and flaw: as  *)
(* long as no rank has gone on after a tensor that was refused for its     *)
(* type, a collective that succeeds returns what it promises, whatever     *)
(* other calls failed before it and whatever frames they left on the links.*)
THEOREM ResultsAreCorrect == Spec => []ResultsCorrect
<1> DEFINE Inv == SequenceInv /\ (InStep => CallsInv)
<1>1. Init => Inv
  BY InitHolds, InitNumbers
<1>2. Inv /\ [Next]_vars => Inv'
  BY NextCalls, NextNumbers
<1>3. Inv => ResultsCorrect
  BY DEF CallsInv, ResultsCorrect
<1> QED
  BY <1>1, <1>2, <1>3, PTL DEF Spec

-----------------------------------------------------------------------------
(* Collectives: nobody waits for nobody. *)

(* The steps of a call in an order in which they can be done: Time(k, r, p) *)
(* is the place of step p of r, LinkTime that of the frame that s sends to  *)
(* d under a tag.                                                           *)
PeerIndex(root, r) == IF r < root THEN r + 1 ELSE r

Rooted == {"Broadcast", "Reduce"}
Ringed == {"AllReduceRing", "AllToAll"}
Central == {"AllGather", "AllReduceCentralized", "ReduceScatter"}

Time(k, r, p) ==
  CASE k.kind \in Rooted -> IF r = k.root THEN p ELSE PeerIndex(k.root, r)
    [] k.kind \in Ringed -> p
    [] k.kind \in Central -> IF r = 0 THEN p ELSE IF p = 1 THEN r ELSE WorldSize - 1 + r

LinkTime(k, s, d, tag) ==
  CASE k.kind = "Broadcast" -> PeerIndex(k.root, d)
    [] k.kind = "Reduce" -> PeerIndex(k.root, s)
    [] k.kind \in Ringed -> IF tag[1] = 2 THEN WorldSize + tag[2] ELSE tag[2] + 1
    [] k.kind \in Central -> IF tag[1] = 1 THEN s ELSE WorldSize - 1 + d

(* A step has its place after the steps before it, and has one partner, at *)
(* the same place.                                                         *)
Ordered(k, r, p) ==
  /\ Time(k, r, p) \in Nat
  /\ \A q \in DOMAIN Script(k, r) : q < p => Time(k, r, q) < Time(k, r, p)

SendMatched(k, r, p) ==
  \A d \in Script(k, r)[p].to :
    /\ d \in Ranks \ {r} /\ Script(k, r)[p].to = {d}
    /\ Time(k, r, p) = LinkTime(k, r, d, Script(k, r)[p].tag)
    /\ \E q \in DOMAIN Script(k, d) : Meet(k, d, q, r, p)

RecvMatched(k, r, p) ==
  \A s \in Script(k, r)[p].from :
    /\ s \in Ranks \ {r} /\ Script(k, r)[p].from = {s}
    /\ Time(k, r, p) = LinkTime(k, s, r, Script(k, r)[p].tag)
    /\ \E q \in DOMAIN Script(k, s) : Meet(k, r, p, s, q)

Matched(k, r, p) == Ordered(k, r, p) /\ SendMatched(k, r, p) /\ RecvMatched(k, r, p)

(* What a step is to its partner. *)
Sends(step, to, tag) == step.to = {to} /\ step.from = {} /\ step.tag = tag
Receives(step, from, tag) == step.to = {} /\ step.from = {from} /\ step.tag = tag
Exchanges(step, to, from, tag) == step.to = {to} /\ step.from = {from} /\ step.tag = tag

LEMMA SendFields ==
  ASSUME NEW to, NEW phase, NEW out
  PROVE  Sends(SendStep(to, phase, out), to, <<phase, 0>>)
BY DEF SendStep, Sends

LEMMA RecvFields ==
  ASSUME NEW from, NEW phase, NEW into, NEW how, NEW check
  PROVE  Receives(RecvStep(from, phase, into, how, check), from, <<phase, 0>>)
BY DEF RecvStep, Receives

LEMMA ExchangeFields ==
  ASSUME NEW to, NEW from, NEW phase, NEW step, NEW out, NEW into, NEW how, NEW check
  PROVE  Exchanges(ExchangeStep(to, from, phase, step, out, into, how, check),
                   to, from, <<phase, step>>)
BY DEF ExchangeStep, Exchanges

LEMMA TimeIs ==
  ASSUME NEW k, NEW r, NEW p
  PROVE  /\ k.kind \in Rooted => Time(k, r, p) = IF r = k.root THEN p ELSE PeerIndex(k.root, r)
         /\ k.kind \in Ringed => Time(k, r, p) = p
         /\ k.kind \in Central =>
              Time(k, r, p) = IF r = 0 THEN p ELSE IF p = 1 THEN r ELSE WorldSize - 1 + r
BY DEF Time, Rooted, Ringed, Central

LEMMA LinkTimeIs ==
  ASSUME NEW k, NEW s, NEW d, NEW tag
  PROVE  /\ k.kind = "Broadcast" => LinkTime(k, s, d, tag) = PeerIndex(k.root, d)
         /\ k.kind = "Reduce" => LinkTime(k, s, d, tag) = PeerIndex(k.root, s)
         /\ k.kind \in Ringed =>
              LinkTime(k, s, d, tag) = IF tag[1] = 2 THEN WorldSize + tag[2] ELSE tag[2] + 1
         /\ k.kind \in Central =>
              LinkTime(k, s, d, tag) = IF tag[1] = 1 THEN s ELSE WorldSize - 1 + d
BY DEF LinkTime, Ringed, Central

(* The place of a peer of the root. *)
LEMMA PeerIndexIs ==
  ASSUME NEW root \in Ranks
  PROVE  /\ \A r \in Ranks \ {root} : /\ PeerIndex(root, r) \in 1 .. WorldSize - 1
                                      /\ PeerAt(root, PeerIndex(root, r)) = r
         /\ \A i \in 1 .. WorldSize - 1 : PeerIndex(root, PeerAt(root, i)) = i
BY WorldFacts DEF PeerIndex, PeerAt

LEMMA BroadcastMatched ==
  ASSUME NEW k \in AnyCall, k.kind = "Broadcast", NEW r \in Ranks, NEW p \in DOMAIN Script(k, r)
  PROVE  Matched(k, r, p)
<1> DEFINE root == k.root
<1>1. root \in Ranks
  BY DEF AnyCall
<1>0. \A s \in Ranks : Script(k, s) = Broadcast(root, s)
  BY ScriptIs
<1>2. /\ DOMAIN Script(k, root) = 1 .. WorldSize - 1
      /\ \A i \in 1 .. WorldSize - 1 : Sends(Script(k, root)[i], PeerAt(root, i), <<0, 0>>)
  <2>1. /\ DOMAIN Script(k, root) = 1 .. WorldSize - 1
        /\ \A i \in 1 .. WorldSize - 1 : Script(k, root)[i] = SendStep(PeerAt(root, i), 0, Whole)
    BY <1>0, <1>1, BroadcastSteps
  <2>2. ASSUME NEW i \in 1 .. WorldSize - 1
        PROVE  Sends(Script(k, root)[i], PeerAt(root, i), <<0, 0>>)
    BY <2>1, SendFields, Zenon
  <2> QED
    BY <2>1, <2>2
<1>3. ASSUME NEW s \in Ranks \ {root}
      PROVE  DOMAIN Script(k, s) = {1} /\ Receives(Script(k, s)[1], root, <<0, 0>>)
  <2>1. DOMAIN Script(k, s) = {1} /\ Script(k, s)[1] = RecvStep(root, 0, Whole, "store", "none")
    BY <1>0, <1>1, BroadcastSteps
  <2> QED
    BY <2>1, RecvFields
<1>4. /\ \A q : Time(k, root, q) = q
      /\ \A s \in Ranks \ {root} : \A q : Time(k, s, q) = PeerIndex(root, s)
      /\ \A s, d, tag : LinkTime(k, s, d, tag) = PeerIndex(root, d)
  BY TimeIs, LinkTimeIs DEF Rooted
<1> HIDE DEF root
<1>5. CASE r = root
  <2>1. p \in 1 .. WorldSize - 1 /\ p \in Nat
    BY <1>2, <1>5, WorldFacts
  <2>2. Ordered(k, r, p)
    BY <1>2, <1>4, <1>5, <2>1 DEF Ordered
  <2> DEFINE d == PeerAt(root, p)
  <2>3. d \in Ranks \ {root} /\ PeerIndex(root, d) = p
    BY <1>1, <2>1, PeersAre, PeerIndexIs
  <2> HIDE DEF d
  <2>4. Script(k, r)[p].to = {d} /\ Script(k, r)[p].from = {} /\ Script(k, r)[p].tag = <<0, 0>>
    BY <1>2, <1>5, <2>1 DEF d, Sends
  <2>5. 1 \in DOMAIN Script(k, d) /\ Meet(k, d, 1, r, p)
    BY <1>3, <1>5, <2>3, <2>4 DEF Meet, Sends, Receives
  <2> QED
    BY <1>4, <1>5, <2>2, <2>3, <2>4, <2>5 DEF Matched, SendMatched, RecvMatched
<1>6. CASE r # root
  <2> DEFINE i == PeerIndex(root, r)
  <2>1. p = 1 /\ i \in 1 .. WorldSize - 1 /\ PeerAt(root, i) = r /\ i \in Nat
    BY <1>1, <1>3, <1>6, PeerIndexIs, WorldFacts
  <2> HIDE DEF i
  <2>2. Ordered(k, r, p)
    BY <1>3, <1>4, <1>6, <2>1 DEF Ordered, i
  <2>3. Script(k, r)[p].to = {} /\ Script(k, r)[p].from = {root} /\ Script(k, r)[p].tag = <<0, 0>>
    BY <1>3, <1>6, <2>1 DEF Sends, Receives
  <2>4. i \in DOMAIN Script(k, root) /\ Meet(k, r, p, root, i)
    BY <1>2, <2>1, <2>3 DEF Meet, Sends, Receives
  <2> QED
    BY <1>1, <1>4, <1>6, <2>2, <2>3, <2>4 DEF Matched, SendMatched, RecvMatched
<1> QED
  BY <1>5, <1>6

LEMMA ReduceMatched ==
  ASSUME NEW k \in AnyCall, k.kind = "Reduce", NEW r \in Ranks, NEW p \in DOMAIN Script(k, r)
  PROVE  Matched(k, r, p)
<1> DEFINE root == k.root
<1>1. root \in Ranks
  BY DEF AnyCall
<1>0. \A s \in Ranks : Script(k, s) = Reduce(root, s)
  BY ScriptIs
<1>2. /\ DOMAIN Script(k, root) = 1 .. WorldSize - 1
      /\ \A i \in 1 .. WorldSize - 1 : Receives(Script(k, root)[i], PeerAt(root, i), <<0, 0>>)
  <2>1. /\ DOMAIN Script(k, root) = 1 .. WorldSize - 1
        /\ \A i \in 1 .. WorldSize - 1 : Script(k, root)[i] = RecvStep(PeerAt(root, i), 0, Whole, "add", "same")
    BY <1>0, <1>1, ReduceSteps
  <2>2. ASSUME NEW i \in 1 .. WorldSize - 1
        PROVE  Receives(Script(k, root)[i], PeerAt(root, i), <<0, 0>>)
    BY <2>1, RecvFields, Zenon
  <2> QED
    BY <2>1, <2>2
<1>3. ASSUME NEW s \in Ranks \ {root}
      PROVE  DOMAIN Script(k, s) = {1} /\ Sends(Script(k, s)[1], root, <<0, 0>>)
  <2>1. DOMAIN Script(k, s) = {1} /\ Script(k, s)[1] = SendStep(root, 0, Whole)
    BY <1>0, <1>1, ReduceSteps
  <2> QED
    BY <2>1, SendFields
<1>4. /\ \A q : Time(k, root, q) = q
      /\ \A s \in Ranks \ {root} : \A q : Time(k, s, q) = PeerIndex(root, s)
      /\ \A s, d, tag : LinkTime(k, s, d, tag) = PeerIndex(root, s)
  BY TimeIs, LinkTimeIs DEF Rooted
<1> HIDE DEF root
<1>5. CASE r = root
  <2>1. p \in 1 .. WorldSize - 1 /\ p \in Nat
    BY <1>2, <1>5, WorldFacts
  <2>2. Ordered(k, r, p)
    BY <1>2, <1>4, <1>5, <2>1 DEF Ordered
  <2> DEFINE s == PeerAt(root, p)
  <2>3. s \in Ranks \ {root} /\ PeerIndex(root, s) = p
    BY <1>1, <2>1, PeersAre, PeerIndexIs
  <2> HIDE DEF s
  <2>4. Script(k, r)[p].from = {s} /\ Script(k, r)[p].to = {} /\ Script(k, r)[p].tag = <<0, 0>>
    BY <1>2, <1>5, <2>1 DEF s, Receives
  <2>5. 1 \in DOMAIN Script(k, s) /\ Meet(k, r, p, s, 1)
    BY <1>3, <1>5, <2>3, <2>4 DEF Meet, Sends, Receives
  <2> QED
    BY <1>4, <1>5, <2>2, <2>3, <2>4, <2>5 DEF Matched, SendMatched, RecvMatched
<1>6. CASE r # root
  <2> DEFINE i == PeerIndex(root, r)
  <2>1. p = 1 /\ i \in 1 .. WorldSize - 1 /\ PeerAt(root, i) = r /\ i \in Nat
    BY <1>1, <1>3, <1>6, PeerIndexIs, WorldFacts
  <2> HIDE DEF i
  <2>2. Ordered(k, r, p)
    BY <1>3, <1>4, <1>6, <2>1 DEF Ordered, i
  <2>3. Script(k, r)[p].from = {} /\ Script(k, r)[p].to = {root} /\ Script(k, r)[p].tag = <<0, 0>>
    BY <1>3, <1>6, <2>1 DEF Sends, Receives
  <2>4. i \in DOMAIN Script(k, root) /\ Meet(k, root, i, r, p)
    BY <1>2, <2>1, <2>3 DEF Meet, Sends, Receives
  <2> QED
    BY <1>1, <1>4, <1>6, <2>2, <2>3, <2>4 DEF Matched, SendMatched, RecvMatched
<1> QED
  BY <1>5, <1>6

(* Rank 0 takes from everyone, in rank order, and then gives to everyone. *)
TakesThenGives(k) ==
  /\ DOMAIN Script(k, 0) = 1 .. 2 * WorldSize - 2
  /\ \A i \in 1 .. 2 * WorldSize - 2 :
       IF i < WorldSize THEN Receives(Script(k, 0)[i], i, <<1, 0>>)
                        ELSE Sends(Script(k, 0)[i], i - WorldSize + 1, <<2, 0>>)
  /\ \A s \in Ranks \ {0} :
       /\ DOMAIN Script(k, s) = {1, 2}
       /\ Sends(Script(k, s)[1], 0, <<1, 0>>)
       /\ Receives(Script(k, s)[2], 0, <<2, 0>>)

LEMMA CentralTakesThenGives ==
  ASSUME NEW k \in AnyCall, k.kind \in Central
  PROVE  TakesThenGives(k)
<1>1. 0 \in Ranks
  BY WorldFacts
<1>3. CASE k.kind = "AllGather"
  <2>1. \A s \in Ranks : Script(k, s) = AllGather(s)
    BY <1>3, ScriptIs
  <2>2. /\ DOMAIN Script(k, 0) = 1 .. 2 * WorldSize - 2
        /\ \A p \in 1 .. 2 * WorldSize - 2 :
             Script(k, 0)[p] = IF p < WorldSize THEN RecvStep(p, 1, <<p>>, "store", "gather")
                                                ELSE SendStep(p - WorldSize + 1, 2, Whole)
    BY <1>1, <2>1, AllGatherSteps
  <2>3. ASSUME NEW p \in 1 .. 2 * WorldSize - 2
        PROVE  IF p < WorldSize THEN Receives(Script(k, 0)[p], p, <<1, 0>>)
                                ELSE Sends(Script(k, 0)[p], p - WorldSize + 1, <<2, 0>>)
    <3>1. CASE p < WorldSize
      <4>1. Script(k, 0)[p] = RecvStep(p, 1, <<p>>, "store", "gather")
        BY <2>2, <3>1
      <4> QED
        BY <3>1, <4>1, RecvFields
    <3>2. CASE ~(p < WorldSize)
      <4>1. Script(k, 0)[p] = SendStep(p - WorldSize + 1, 2, Whole)
        BY <2>2, <3>2
      <4> QED
        BY <3>2, <4>1, SendFields
    <3> QED
      BY <3>1, <3>2
  <2>4. ASSUME NEW s \in Ranks \ {0}
        PROVE  /\ DOMAIN Script(k, s) = {1, 2}
               /\ Sends(Script(k, s)[1], 0, <<1, 0>>)
               /\ Receives(Script(k, s)[2], 0, <<2, 0>>)
    <3>1. /\ DOMAIN Script(k, s) = {1, 2} /\ Script(k, s)[1] = SendStep(0, 1, <<0>>)
          /\ Script(k, s)[2] = RecvStep(0, 2, Whole, "store", "none")
      BY <2>1, AllGatherSteps
    <3> QED
      BY <3>1, SendFields, RecvFields
  <2> QED
    BY <2>2, <2>3, <2>4 DEF TakesThenGives
<1>4. CASE k.kind = "AllReduceCentralized"
  <2>1. \A s \in Ranks : Script(k, s) = CentralizedAllReduce(s)
    BY <1>4, ScriptIs
  <2>2. /\ DOMAIN Script(k, 0) = 1 .. 2 * WorldSize - 2
        /\ \A p \in 1 .. 2 * WorldSize - 2 :
             Script(k, 0)[p] = IF p < WorldSize THEN RecvStep(p, 1, Whole, "add", "same")
                                                ELSE SendStep(p - WorldSize + 1, 2, Whole)
    BY <1>1, <2>1, CentralizedSteps
  <2>3. ASSUME NEW p \in 1 .. 2 * WorldSize - 2
        PROVE  IF p < WorldSize THEN Receives(Script(k, 0)[p], p, <<1, 0>>)
                                ELSE Sends(Script(k, 0)[p], p - WorldSize + 1, <<2, 0>>)
    <3>1. CASE p < WorldSize
      <4>1. Script(k, 0)[p] = RecvStep(p, 1, Whole, "add", "same")
        BY <2>2, <3>1
      <4> QED
        BY <3>1, <4>1, RecvFields
    <3>2. CASE ~(p < WorldSize)
      <4>1. Script(k, 0)[p] = SendStep(p - WorldSize + 1, 2, Whole)
        BY <2>2, <3>2
      <4> QED
        BY <3>2, <4>1, SendFields
    <3> QED
      BY <3>1, <3>2
  <2>4. ASSUME NEW s \in Ranks \ {0}
        PROVE  /\ DOMAIN Script(k, s) = {1, 2}
               /\ Sends(Script(k, s)[1], 0, <<1, 0>>)
               /\ Receives(Script(k, s)[2], 0, <<2, 0>>)
    <3>1. /\ DOMAIN Script(k, s) = {1, 2} /\ Script(k, s)[1] = SendStep(0, 1, Whole)
          /\ Script(k, s)[2] = RecvStep(0, 2, Whole, "store", "same")
      BY <2>1, CentralizedSteps
    <3> QED
      BY <3>1, SendFields, RecvFields
  <2> QED
    BY <2>2, <2>3, <2>4 DEF TakesThenGives
<1>5. CASE k.kind = "ReduceScatter"
  <2>1. \A s \in Ranks : Script(k, s) = ReduceScatter(s)
    BY <1>5, ScriptIs
  <2>2. /\ DOMAIN Script(k, 0) = 1 .. 2 * WorldSize - 2
        /\ \A p \in 1 .. 2 * WorldSize - 2 :
             Script(k, 0)[p] = IF p < WorldSize THEN RecvStep(p, 1, Whole, "add", "same")
                                                ELSE SendStep(p - WorldSize + 1, 2, <<p - WorldSize + 1>>)
    BY <1>1, <2>1, ReduceScatterSteps
  <2>3. ASSUME NEW p \in 1 .. 2 * WorldSize - 2
        PROVE  IF p < WorldSize THEN Receives(Script(k, 0)[p], p, <<1, 0>>)
                                ELSE Sends(Script(k, 0)[p], p - WorldSize + 1, <<2, 0>>)
    <3>1. CASE p < WorldSize
      <4>1. Script(k, 0)[p] = RecvStep(p, 1, Whole, "add", "same")
        BY <2>2, <3>1
      <4> QED
        BY <3>1, <4>1, RecvFields
    <3>2. CASE ~(p < WorldSize)
      <4>1. Script(k, 0)[p] = SendStep(p - WorldSize + 1, 2, <<p - WorldSize + 1>>)
        BY <2>2, <3>2
      <4> QED
        BY <3>2, <4>1, SendFields
    <3> QED
      BY <3>1, <3>2
  <2>4. ASSUME NEW s \in Ranks \ {0}
        PROVE  /\ DOMAIN Script(k, s) = {1, 2}
               /\ Sends(Script(k, s)[1], 0, <<1, 0>>)
               /\ Receives(Script(k, s)[2], 0, <<2, 0>>)
    <3>1. /\ DOMAIN Script(k, s) = {1, 2} /\ Script(k, s)[1] = SendStep(0, 1, Whole)
          /\ Script(k, s)[2] = RecvStep(0, 2, <<0>>, "store", "none")
      BY <2>1, ReduceScatterSteps
    <3> QED
      BY <3>1, SendFields, RecvFields
  <2> QED
    BY <2>2, <2>3, <2>4 DEF TakesThenGives
<1> QED
  BY <1>3, <1>4, <1>5 DEF Central

LEMMA CentralMatched ==
  ASSUME NEW k \in AnyCall, k.kind \in Central, NEW r \in Ranks, NEW p \in DOMAIN Script(k, r)
  PROVE  Matched(k, r, p)
<1>1. TakesThenGives(k) /\ 0 \in Ranks
  BY CentralTakesThenGives, WorldFacts
<1>2. /\ \A q : Time(k, 0, q) = q
      /\ \A s \in Ranks \ {0} : Time(k, s, 1) = s /\ Time(k, s, 2) = WorldSize - 1 + s
      /\ \A s, d : /\ LinkTime(k, s, d, <<1, 0>>) = s
                   /\ LinkTime(k, s, d, <<2, 0>>) = WorldSize - 1 + d
  BY TimeIs, LinkTimeIs
<1>3. CASE r = 0 /\ p < WorldSize
  <2>1. p \in 1 .. WorldSize - 1 /\ p \in 1 .. 2 * WorldSize - 2 /\ p \in Nat
    BY <1>1, <1>3, WorldFacts DEF TakesThenGives
  <2>2. p \in Ranks \ {0}
    BY <2>1, WorldFacts
  <2>3. Ordered(k, r, p)
    BY <1>1, <1>2, <1>3, <2>1 DEF Ordered, TakesThenGives
  <2>4. Script(k, r)[p].from = {p} /\ Script(k, r)[p].to = {} /\ Script(k, r)[p].tag = <<1, 0>>
    BY <1>1, <1>3, <2>1 DEF TakesThenGives, Sends, Receives
  <2>5. 1 \in DOMAIN Script(k, p) /\ Meet(k, r, p, p, 1)
    BY <1>1, <1>3, <2>2, <2>4 DEF Meet, TakesThenGives, Sends, Receives
  <2> QED
    BY <1>2, <1>3, <2>2, <2>3, <2>4, <2>5 DEF Matched, SendMatched, RecvMatched
<1>4. CASE r = 0 /\ ~(p < WorldSize)
  <2> DEFINE d == p - WorldSize + 1
  <2>1. p \in WorldSize .. 2 * WorldSize - 2 /\ p \in 1 .. 2 * WorldSize - 2 /\ p \in Nat
    BY <1>1, <1>4, WorldFacts DEF TakesThenGives
  <2>2. d \in Ranks \ {0} /\ WorldSize - 1 + d = p
    BY <2>1, WorldFacts
  <2>3. Ordered(k, r, p)
    BY <1>1, <1>2, <1>4, <2>1 DEF Ordered, TakesThenGives
  <2>4. Script(k, r)[p].from = {} /\ Script(k, r)[p].to = {d} /\ Script(k, r)[p].tag = <<2, 0>>
    BY <1>1, <1>4, <2>1 DEF TakesThenGives, Sends, Receives
  <2> HIDE DEF d
  <2>5. 2 \in DOMAIN Script(k, d) /\ Meet(k, d, 2, r, p)
    BY <1>1, <1>4, <2>2, <2>4 DEF Meet, TakesThenGives, Sends, Receives
  <2> QED
    BY <1>2, <1>4, <2>2, <2>3, <2>4, <2>5 DEF Matched, SendMatched, RecvMatched
<1>5. CASE r # 0 /\ p = 1
  <2>1. r \in 1 .. 2 * WorldSize - 2 /\ r < WorldSize /\ r \in Nat
    BY <1>5, WorldFacts
  <2>2. Script(k, r)[p].from = {} /\ Script(k, r)[p].to = {0} /\ Script(k, r)[p].tag = <<1, 0>>
    BY <1>1, <1>5 DEF TakesThenGives, Sends, Receives
  <2>3. Ordered(k, r, p)
    BY <1>1, <1>2, <1>5, <2>1 DEF Ordered, TakesThenGives
  <2>4. r \in DOMAIN Script(k, 0) /\ Meet(k, 0, r, r, p)
    BY <1>1, <1>5, <2>1, <2>2 DEF Meet, TakesThenGives, Sends, Receives
  <2> QED
    BY <1>1, <1>2, <1>5, <2>2, <2>3, <2>4 DEF Matched, SendMatched, RecvMatched
<1>6. CASE r # 0 /\ p = 2
  <2> DEFINE i == WorldSize - 1 + r
  <2>1. ~(i < WorldSize) /\ i \in 1 .. 2 * WorldSize - 2 /\ i \in Nat
        /\ i - WorldSize + 1 = r /\ r < i
    BY <1>6, WorldFacts
  <2>2. Script(k, r)[p].from = {0} /\ Script(k, r)[p].to = {} /\ Script(k, r)[p].tag = <<2, 0>>
    BY <1>1, <1>6 DEF TakesThenGives, Sends, Receives
  <2>3. Ordered(k, r, p)
    BY <1>1, <1>2, <1>6, <2>1 DEF Ordered, TakesThenGives
  <2> HIDE DEF i
  <2>4. i \in DOMAIN Script(k, 0) /\ Meet(k, r, p, 0, i)
    BY <1>1, <1>6, <2>1, <2>2 DEF Meet, TakesThenGives, Sends, Receives
  <2> QED
    BY <1>1, <1>2, <1>6, <2>2, <2>3, <2>4 DEF Matched, SendMatched, RecvMatched
<1> QED
  BY <1>1, <1>3, <1>4, <1>5, <1>6 DEF TakesThenGives

LEMMA NextIs ==
  ASSUME NEW r \in Ranks
  PROVE  /\ NextOf(r) \in Ranks \ {r} /\ PreviousOf(NextOf(r)) = r
         /\ PreviousOf(r) \in Ranks \ {r} /\ NextOf(PreviousOf(r)) = r
<1>1. \A s \in Ranks : NextOf(s) = (IF s = WorldSize - 1 THEN 0 ELSE s + 1) /\ NextOf(s) \in Ranks
  <2> SUFFICES ASSUME NEW s \in Ranks
               PROVE  NextOf(s) = (IF s = WorldSize - 1 THEN 0 ELSE s + 1) /\ NextOf(s) \in Ranks
    OBVIOUS
  <2>1. s + 1 \in 0 .. 3 * WorldSize - 1
    BY WorldFacts
  <2> QED
    BY <2>1, ModIs, WorldFacts DEF NextOf
<1>2. \A s \in Ranks : /\ PreviousOf(s) = (IF s = 0 THEN WorldSize - 1 ELSE s - 1)
                       /\ PreviousOf(s) \in Ranks
  BY PreviousIs
<1> DEFINE n == NextOf(r)
           m == PreviousOf(r)
<1>3. /\ n = (IF r = WorldSize - 1 THEN 0 ELSE r + 1) /\ n \in Ranks
      /\ m = (IF r = 0 THEN WorldSize - 1 ELSE r - 1) /\ m \in Ranks
  BY <1>1, <1>2
<1>4. /\ PreviousOf(n) = (IF n = 0 THEN WorldSize - 1 ELSE n - 1)
      /\ NextOf(m) = (IF m = WorldSize - 1 THEN 0 ELSE m + 1)
  BY <1>1, <1>2, <1>3
<1> HIDE DEF n, m
<1>5. n # r /\ m # r /\ PreviousOf(n) = r /\ NextOf(m) = r
  BY <1>3, <1>4, WorldFacts
<1> QED
  BY <1>3, <1>5 DEF n, m

LEMMA RingMatched ==
  ASSUME NEW k \in AnyCall, k.kind = "AllReduceRing", NEW r \in Ranks, NEW p \in DOMAIN Script(k, r)
  PROVE  Matched(k, r, p)
<1> DEFINE tag(q) == IF q < WorldSize THEN <<1, q - 1>> ELSE <<2, q - WorldSize>>
<1>0. \A s \in Ranks : Script(k, s) = RingAllReduce(s)
  BY ScriptIs
<1>1. ASSUME NEW s \in Ranks, NEW q \in 1 .. 2 * WorldSize - 2
      PROVE  Exchanges(Script(k, s)[q], NextOf(s), PreviousOf(s), tag(q))
  <2>1. Script(k, s)[q] = IF q < WorldSize THEN RingSum(s, q) ELSE RingCopy(s, q - WorldSize + 1)
    BY <1>0, RingSteps
  <2>2. CASE q < WorldSize
    BY <2>1, <2>2, ExchangeFields DEF RingSum
  <2>3. CASE ~(q < WorldSize)
    <3>1. (q - WorldSize + 1) - 1 = q - WorldSize
      BY WorldFacts
    <3>2. Script(k, s)[q] = RingCopy(s, q - WorldSize + 1)
      BY <2>1, <2>3
    <3>3. Exchanges(Script(k, s)[q], NextOf(s), PreviousOf(s), <<2, (q - WorldSize + 1) - 1>>)
      BY <3>2, ExchangeFields DEF RingCopy
    <3> QED
      BY <2>3, <3>1, <3>3
  <2> QED
    BY <2>2, <2>3
<1>2. \A s \in Ranks : DOMAIN Script(k, s) = 1 .. 2 * WorldSize - 2
  BY <1>0, RingSteps
<1>3. p \in 1 .. 2 * WorldSize - 2 /\ p \in Nat
  BY <1>2, WorldFacts
<1>4. Time(k, r, p) = p /\ \A q : Time(k, r, q) = q
  BY TimeIs DEF Ringed
<1>5. \A s, d : LinkTime(k, s, d, tag(p)) = p
  <2>1. ASSUME NEW s, NEW d
        PROVE  LinkTime(k, s, d, tag(p)) =
                 IF tag(p)[1] = 2 THEN WorldSize + tag(p)[2] ELSE tag(p)[2] + 1
    BY LinkTimeIs DEF Ringed
  <2>2. (IF tag(p)[1] = 2 THEN WorldSize + tag(p)[2] ELSE tag(p)[2] + 1) = p
    BY <1>3, WorldFacts
  <2> QED
    BY <2>1, <2>2
<1> HIDE DEF tag
<1>6. Ordered(k, r, p)
  BY <1>2, <1>3, <1>4 DEF Ordered
<1>7. /\ NextOf(r) \in Ranks \ {r} /\ PreviousOf(NextOf(r)) = r
      /\ PreviousOf(r) \in Ranks \ {r} /\ NextOf(PreviousOf(r)) = r
  BY NextIs
<1>8. /\ Exchanges(Script(k, r)[p], NextOf(r), PreviousOf(r), tag(p))
      /\ Exchanges(Script(k, NextOf(r))[p], NextOf(NextOf(r)), r, tag(p))
      /\ Exchanges(Script(k, PreviousOf(r))[p], r, PreviousOf(PreviousOf(r)), tag(p))
  BY <1>1, <1>3, <1>7
<1>9. Meet(k, NextOf(r), p, r, p) /\ Meet(k, r, p, PreviousOf(r), p)
  BY <1>8 DEF Meet, Exchanges
<1> QED
  BY <1>2, <1>3, <1>4, <1>5, <1>6, <1>7, <1>8, <1>9
     DEF Matched, SendMatched, RecvMatched, Exchanges

LEMMA SwapTarget ==
  ASSUME NEW r \in Ranks, NEW p \in 1 .. WorldSize - 1
  PROVE  /\ Mod(r + p) \in Ranks \ {r} /\ Mod(Mod(r + p) + WorldSize - p) = r
         /\ Mod(r + WorldSize - p) \in Ranks \ {r} /\ Mod(Mod(r + WorldSize - p) + p) = r
<1>1. /\ r + p \in 0 .. 3 * WorldSize - 1 /\ r + WorldSize - p \in 0 .. 3 * WorldSize - 1
  BY WorldFacts
<1>2. Mod(r + p) = (IF r + p < WorldSize THEN r + p ELSE r + p - WorldSize)
  BY <1>1, ModIs, WorldFacts
<1>3. Mod(r + WorldSize - p) = (IF p <= r THEN r - p ELSE r + WorldSize - p)
  BY <1>1, ModIs, WorldFacts
<1>4. Mod(r + p) \in Ranks \ {r} /\ Mod(r + WorldSize - p) \in Ranks \ {r}
  BY <1>2, <1>3, WorldFacts
<1>5. Mod(r + p) + WorldSize - p \in 0 .. 3 * WorldSize - 1
  BY <1>4, WorldFacts
<1>6. Mod(Mod(r + p) + WorldSize - p) = r
  BY <1>2, <1>5, ModIs, WorldFacts
<1> QED
  BY <1>4, <1>6, SwapPeer

LEMMA AllToAllMatched ==
  ASSUME NEW k \in AnyCall, k.kind = "AllToAll", NEW r \in Ranks, NEW p \in DOMAIN Script(k, r)
  PROVE  Matched(k, r, p)
<1>0. \A s \in Ranks : Script(k, s) = AllToAll(s)
  BY ScriptIs
<1>1. ASSUME NEW s \in Ranks, NEW q \in 1 .. WorldSize - 1
      PROVE  Exchanges(Script(k, s)[q], Mod(s + q), Mod(s + WorldSize - q), <<0, q - 1>>)
  <2>1. Script(k, s)[q] = ExchangeStep(Mod(s + q), Mod(s + WorldSize - q), 0, q - 1, <<Mod(s + q)>>,
                                       <<WorldSize + Mod(s + WorldSize - q)>>, "store", "gather")
    BY <1>0, AllToAllSteps
  <2> QED
    BY <2>1, ExchangeFields
<1>2. \A s \in Ranks : DOMAIN Script(k, s) = 1 .. WorldSize - 1
  BY <1>0, AllToAllSteps
<1>3. p \in 1 .. WorldSize - 1 /\ p \in Nat
  BY <1>2, WorldFacts
<1>4. Time(k, r, p) = p /\ \A q : Time(k, r, q) = q
  BY TimeIs DEF Ringed
<1>5. \A s, d : LinkTime(k, s, d, <<0, p - 1>>) = p
  <2>1. ASSUME NEW s, NEW d
        PROVE  LinkTime(k, s, d, <<0, p - 1>>) = (p - 1) + 1
    BY LinkTimeIs DEF Ringed
  <2> QED
    BY <1>3, <2>1
<1>6. Ordered(k, r, p)
  BY <1>2, <1>3, <1>4 DEF Ordered
<1> DEFINE to == Mod(r + p)
           from == Mod(r + WorldSize - p)
<1>7. /\ to \in Ranks \ {r} /\ Mod(to + WorldSize - p) = r
      /\ from \in Ranks \ {r} /\ Mod(from + p) = r
  BY <1>3, SwapTarget
<1>8. /\ Exchanges(Script(k, r)[p], to, from, <<0, p - 1>>)
      /\ Exchanges(Script(k, to)[p], Mod(to + p), r, <<0, p - 1>>)
      /\ Exchanges(Script(k, from)[p], r, Mod(from + WorldSize - p), <<0, p - 1>>)
  BY <1>1, <1>3, <1>7
<1> HIDE DEF to, from
<1>9. Meet(k, to, p, r, p) /\ Meet(k, r, p, from, p)
  BY <1>8 DEF Meet, Exchanges
<1> QED
  BY <1>2, <1>3, <1>4, <1>5, <1>6, <1>7, <1>8, <1>9
     DEF Matched, SendMatched, RecvMatched, Exchanges

LEMMA AllMatched ==
  ASSUME NEW k \in AnyCall, NEW r \in Ranks, NEW p \in DOMAIN Script(k, r)
  PROVE  Matched(k, r, p)
<1>1. k.kind \in Kinds
  BY DEF AnyCall
<1> QED
  BY <1>1, BroadcastMatched, ReduceMatched, CentralMatched, RingMatched, AllToAllMatched
     DEF Kinds, Central

(* Steps are numbers. *)
LEMMA StepNumbers ==
  ASSUME NEW k \in AnyCall, NEW r \in Ranks
  PROVE  DOMAIN Script(k, r) \subseteq Nat \ {0}
BY AllWork DEF Works

LEMMA TimeOrder ==
  ASSUME NEW k \in AnyCall, NEW r \in Ranks, NEW p \in DOMAIN Script(k, r), NEW q \in DOMAIN Script(k, r)
  PROVE  /\ Time(k, r, p) \in Nat /\ Time(k, r, q) \in Nat
         /\ Time(k, r, p) = Time(k, r, q) => p = q
         /\ Time(k, r, p) <= Time(k, r, q) => p <= q
<1>1. Ordered(k, r, p) /\ Ordered(k, r, q)
  BY AllMatched DEF Matched
<1>2. p \in Nat /\ q \in Nat
  BY StepNumbers
<1>3. /\ Time(k, r, p) \in Nat /\ Time(k, r, q) \in Nat
      /\ q < p => Time(k, r, q) < Time(k, r, p)
      /\ p < q => Time(k, r, p) < Time(k, r, q)
  BY <1>1 DEF Ordered
<1> QED
  BY <1>2, <1>3

(* The tag of step p of r in call c of prog, the steps of s in call k that *)
(* send to d and those of d that receive from s.                           *)
TagOf(prog, c, r, p) == <<c - 1, TagKind(prog[c].kind), Script(prog[c], r)[p].tag>>
SendSteps(k, s, d) == {q \in DOMAIN Script(k, s) : d \in Script(k, s)[q].to}
RecvSteps(k, s, d) == {p \in DOMAIN Script(k, d) : s \in Script(k, d)[p].from}

(* On a link a tag belongs to one step of the sender and to one step of    *)
(* the receiver.                                                           *)
LEMMA SentOnce ==
  ASSUME NEW prog \in Seq(AnyCall), NEW s \in Ranks, NEW d,
         NEW c \in DOMAIN prog, NEW q \in SendSteps(prog[c], s, d),
         NEW e \in DOMAIN prog, NEW p \in SendSteps(prog[e], s, d),
         TagOf(prog, c, s, q) = TagOf(prog, e, s, p)
  PROVE  c = e /\ q = p
<1>1. c = e
  BY DEF TagOf
<1> DEFINE k == prog[c]
<1>2. k \in AnyCall /\ q \in DOMAIN Script(k, s) /\ p \in DOMAIN Script(k, s)
      /\ d \in Script(k, s)[q].to /\ d \in Script(k, s)[p].to
      /\ Script(k, s)[q].tag = Script(k, s)[p].tag
  BY <1>1 DEF SendSteps, TagOf
<1> HIDE DEF k
<1>3. Time(k, s, q) = Time(k, s, p)
  BY <1>2, AllMatched DEF Matched, SendMatched
<1> QED
  BY <1>1, <1>2, <1>3, TimeOrder

LEMMA AwaitedOnce ==
  ASSUME NEW prog \in Seq(AnyCall), NEW s, NEW d \in Ranks,
         NEW c \in DOMAIN prog, NEW q \in RecvSteps(prog[c], s, d),
         NEW e \in DOMAIN prog, NEW p \in RecvSteps(prog[e], s, d),
         TagOf(prog, c, d, q) = TagOf(prog, e, d, p)
  PROVE  c = e /\ q = p
<1>1. c = e
  BY DEF TagOf
<1> DEFINE k == prog[c]
<1>2. k \in AnyCall /\ q \in DOMAIN Script(k, d) /\ p \in DOMAIN Script(k, d)
      /\ s \in Script(k, d)[q].from /\ s \in Script(k, d)[p].from
      /\ Script(k, d)[q].tag = Script(k, d)[p].tag
  BY <1>1 DEF RecvSteps, TagOf
<1> HIDE DEF k
<1>3. Time(k, d, q) = Time(k, d, p)
  BY <1>2, AllMatched DEF Matched, RecvMatched
<1> QED
  BY <1>1, <1>2, <1>3, TimeOrder

-----------------------------------------------------------------------------
(* Links: the frames that nobody has read, and those put aside. *)

HasTag(u, aside, t) == (\E i \in DOMAIN u : u[i].tag = t) \/ \E f \in aside : f.tag = t
Distinct(u, aside) ==
  /\ \A i, j \in DOMAIN u : u[i].tag = u[j].tag => i = j
  /\ \A i \in DOMAIN u : \A f \in aside : u[i].tag # f.tag
EndsWith(u, t) == u # <<>> => u[Len(u)].tag = t

LEMMA AppendLink ==
  ASSUME NEW S, NEW u \in Seq(S), NEW f \in S, NEW aside
  PROVE  /\ \A t : HasTag(Append(u, f), aside, t) <=> HasTag(u, aside, t) \/ t = f.tag
         /\ Distinct(u, aside) /\ ~HasTag(u, aside, f.tag) => Distinct(Append(u, f), aside)
         /\ EndsWith(Append(u, f), f.tag)
<1> DEFINE v == Append(u, f)
           n == Len(u)
<1>1. /\ n \in Nat /\ DOMAIN u = 1 .. n /\ DOMAIN v = 1 .. n + 1 /\ Len(v) = n + 1
      /\ v[n + 1] = f /\ \A i \in 1 .. n : v[i] = u[i]
  OBVIOUS
<1> HIDE DEF v, n
<1>2. /\ n + 1 \in DOMAIN v
      /\ \A i \in DOMAIN v : i \in DOMAIN u \/ i = n + 1
      /\ \A i \in DOMAIN u : i \in DOMAIN v /\ v[i] = u[i]
  BY <1>1
<1>3. ASSUME NEW t
      PROVE  HasTag(v, aside, t) <=> HasTag(u, aside, t) \/ t = f.tag
  BY <1>1, <1>2 DEF HasTag
<1>4. ASSUME Distinct(u, aside), ~HasTag(u, aside, f.tag)
      PROVE  Distinct(v, aside)
  <2>1. ASSUME NEW i \in DOMAIN v, NEW j \in DOMAIN v, v[i].tag = v[j].tag
        PROVE  i = j
    BY <1>1, <1>2, <1>4, <2>1 DEF Distinct, HasTag
  <2>2. ASSUME NEW i \in DOMAIN v, NEW g \in aside
        PROVE  v[i].tag # g.tag
    BY <1>1, <1>2, <1>4 DEF Distinct, HasTag
  <2> QED
    BY <2>1, <2>2 DEF Distinct
<1>5. EndsWith(v, f.tag)
  BY <1>1 DEF EndsWith
<1> QED
  BY <1>3, <1>4, <1>5 DEF v

LEMMA TailLink ==
  ASSUME NEW S, NEW u \in Seq(S), u # <<>>, NEW aside
  PROVE  /\ \A t : HasTag(u, aside, t) <=> HasTag(Tail(u), aside, t) \/ t = Head(u).tag
         /\ Distinct(u, aside) => Distinct(Tail(u), aside)
         /\ Distinct(u, aside) => Distinct(Tail(u), aside \union {Head(u)})
         /\ \A t : HasTag(Tail(u), aside \union {Head(u)}, t) <=> HasTag(u, aside, t)
         /\ \A t : EndsWith(u, t) => EndsWith(Tail(u), t)
         /\ Distinct(u, aside) /\ EndsWith(u, Head(u).tag) => Tail(u) = <<>>
<1> DEFINE v == Tail(u)
           n == Len(u)
<1>1. /\ n \in Nat \ {0} /\ DOMAIN u = 1 .. n /\ DOMAIN v = 1 .. n - 1 /\ Len(v) = n - 1
      /\ Head(u) = u[1] /\ \A i \in 1 .. n - 1 : v[i] = u[i + 1]
      /\ v = <<>> <=> n = 1
  <2>1. n \in Nat \ {0} /\ DOMAIN u = 1 .. n /\ Head(u) = u[1]
    OBVIOUS
  <2>2. v \in Seq(S) /\ Len(v) = n - 1 /\ \A i \in 1 .. n - 1 : v[i] = u[i + 1]
    BY <2>1
  <2> HIDE DEF v, n
  <2>3. DOMAIN v = 1 .. n - 1 /\ (v = <<>> <=> n = 1)
    BY <2>1, <2>2
  <2> QED
    BY <2>1, <2>2, <2>3
<1> HIDE DEF v, n
<1>2. /\ 1 \in DOMAIN u
      /\ \A i \in DOMAIN v : i + 1 \in DOMAIN u /\ v[i] = u[i + 1] /\ i + 1 # 1
      /\ \A i \in DOMAIN u : i = 1 \/ (i - 1 \in DOMAIN v /\ v[i - 1] = u[i])
      /\ \A i, j \in DOMAIN v : i + 1 = j + 1 => i = j
  BY <1>1
<1>3. ASSUME NEW t
      PROVE  HasTag(u, aside, t) <=> HasTag(v, aside, t) \/ t = u[1].tag
  BY <1>2 DEF HasTag
<1>4. ASSUME Distinct(u, aside)
      PROVE  Distinct(v, aside) /\ Distinct(v, aside \union {u[1]})
  <2>1. ASSUME NEW i \in DOMAIN v, NEW j \in DOMAIN v, v[i].tag = v[j].tag
        PROVE  i = j
    BY <1>2, <1>4, <2>1 DEF Distinct
  <2>2. ASSUME NEW i \in DOMAIN v, NEW g \in aside \union {u[1]}
        PROVE  v[i].tag # g.tag
    BY <1>2, <1>4 DEF Distinct
  <2> QED
    BY <2>1, <2>2 DEF Distinct
<1>5. ASSUME NEW t
      PROVE  HasTag(v, aside \union {u[1]}, t) <=> HasTag(u, aside, t)
  BY <1>3 DEF HasTag
<1>6. ASSUME NEW t, EndsWith(u, t)
      PROVE  EndsWith(v, t)
  <2>1. CASE n = 1
    BY <1>1, <2>1 DEF EndsWith
  <2>2. CASE n # 1
    <3>1. n - 1 \in 1 .. n - 1 /\ (n - 1) + 1 = n
      BY <1>1, <2>2
    <3>2. v[Len(v)] = u[Len(u)]
      BY <1>1, <3>1 DEF n
    <3> QED
      BY <1>6, <3>2 DEF EndsWith
  <2> QED
    BY <2>1, <2>2
<1>7. ASSUME Distinct(u, aside), EndsWith(u, u[1].tag)
      PROVE  v = <<>>
  <2>1. n \in DOMAIN u /\ u[n].tag = u[1].tag
    BY <1>1, <1>7 DEF EndsWith, n
  <2>2. n = 1
    BY <1>2, <1>7, <2>1 DEF Distinct
  <2> QED
    BY <1>1, <2>2
<1> QED
  BY <1>1, <1>3, <1>4, <1>5, <1>6, <1>7 DEF v

LEMMA FrontLink ==
  ASSUME NEW S, NEW u \in Seq(S), u # <<>>, NEW aside
  PROVE  LET v == SubSeq(u, 1, Len(u) - 1)
         IN /\ \A t : HasTag(v, aside, t) => HasTag(u, aside, t)
            /\ \A t : HasTag(u, aside, t) /\ t # u[Len(u)].tag => HasTag(v, aside, t)
            /\ Distinct(u, aside) => Distinct(v, aside)
<1> DEFINE n == Len(u)
           v == SubSeq(u, 1, n - 1)
<1>1. n \in Nat \ {0} /\ DOMAIN u = 1 .. n
  OBVIOUS
<1>2. DOMAIN v = 1 .. n - 1 /\ \A i \in 1 .. n - 1 : v[i] = u[i]
  BY <1>1
<1> HIDE DEF v, n
<1>3. /\ \A i \in DOMAIN v : i \in DOMAIN u /\ v[i] = u[i]
      /\ \A i \in DOMAIN u : i = n \/ (i \in DOMAIN v /\ v[i] = u[i])
  BY <1>1, <1>2
<1>4. ASSUME NEW t, HasTag(v, aside, t)
      PROVE  HasTag(u, aside, t)
  BY <1>3, <1>4 DEF HasTag
<1>5. ASSUME NEW t, HasTag(u, aside, t), t # u[n].tag
      PROVE  HasTag(v, aside, t)
  BY <1>3, <1>5 DEF HasTag
<1>6. ASSUME Distinct(u, aside)
      PROVE  Distinct(v, aside)
  BY <1>3, <1>6 DEF Distinct
<1> QED
  BY <1>4, <1>5, <1>6 DEF v, n

LEMMA AsideLink ==
  ASSUME NEW S, NEW u \in Seq(S), NEW aside, NEW f \in aside
  PROVE  /\ \A t : HasTag(u, aside, t) /\ t # f.tag => HasTag(u, aside \ {f}, t)
         /\ \A t : HasTag(u, aside \ {f}, t) => HasTag(u, aside, t)
         /\ HasTag(u, aside, f.tag)
         /\ Distinct(u, aside) => Distinct(u, aside \ {f})
         /\ Distinct(u, aside) /\ EndsWith(u, f.tag) => u = <<>>
<1>1. u # <<>> => Len(u) \in DOMAIN u
  OBVIOUS
<1> QED
  BY <1>1 DEF HasTag, Distinct, EndsWith

-----------------------------------------------------------------------------
(* Where the ranks are, and what is on the links. *)

(* s is past the send of step q of call c, and d past the receive of step  *)
(* p; the call may have failed before that, unless it was Sent or Got.     *)
Put(s, c, q) ==
  c < CallOf(s) \/ (c = CallOf(s) /\ (q < pos[s] \/ (q = pos[s] /\ put[s])))
Sent(s, c, q) == Put(s, c, q) /\ ~Failed(s, c)

Taken(d, c, p) ==
  c < CallOf(d) \/ (c = CallOf(d) /\ (p < pos[d] \/ (p = pos[d] /\ incoming[d] # {})))
Got(d, c, p) == Taken(d, c, p) /\ ~Failed(d, c)

Carries(s, d, t) == HasTag(unread[<<s, d>>], pending[<<s, d>>], t)

(* What is on a link was put there, and the latest frame is the last. *)
CausedInv(s, d) ==
  \A t : Carries(s, d, t) =>
    \E c \in DOMAIN program : \E q \in SendSteps(program[c], s, d) :
      t = TagOf(program, c, s, q) /\ Put(s, c, q)
LatestInv(s, d) == put[s] /\ d \in Step(s).to => EndsWith(unread[<<s, d>>], Tag(s))

(* Of step q of s and its partner, step p of d, in call c: what was sent   *)
(* and not taken is on the link, what was got was put, and a link from     *)
(* which the frame of the sender's step has been got is empty.             *)
Partners(s, d, c, q, p) ==
  /\ q \in SendSteps(program[c], s, d) /\ p \in RecvSteps(program[c], s, d)
  /\ TagOf(program, c, s, q) = TagOf(program, c, d, p)
PartnerInv(s, d, c, q, p) ==
  /\ Sent(s, c, q) /\ ~Taken(d, c, p) => Carries(s, d, TagOf(program, c, s, q))
  /\ Got(d, c, p) => Put(s, c, q)
  /\ Got(d, c, p) /\ c = CallOf(s) /\ q = pos[s] => unread[<<s, d>>] = <<>>

LinkFlow(s, d) ==
  /\ Distinct(unread[<<s, d>>], pending[<<s, d>>])
  /\ CausedInv(s, d)
  /\ LatestInv(s, d)
  /\ \A c \in DOMAIN program : \A q, p : Partners(s, d, c, q, p) => PartnerInv(s, d, c, q, p)

PutInv ==
  /\ room \in Nat /\ DOMAIN put = Ranks
  /\ \A r \in Ranks : put[r] \in BOOLEAN /\ (put[r] => pos[r] > 0)

FlowInv == PutInv /\ \A s, d \in Ranks : s # d => LinkFlow(s, d)

LEMMA ProgramType ==
  ASSUME CallsInv
  PROVE  /\ program \in Seq(AnyCall)
         /\ \A c \in DOMAIN program : c \in Nat \ {0} /\ program[c] \in AnyCall
<1>1. program \in Seq(AnyCall)
  BY CollectivesAssumption DEF CallsInv, Domains, AnyCall
<1> QED
  BY <1>1

LEMMA CallNumber ==
  ASSUME CallsInv, NEW r \in Ranks
  PROVE  /\ CallOf(r) \in Nat \ {0} /\ pos[r] \in Nat
         /\ pos[r] = 0 => incoming[r] = {}
<1>1. results[r] \in Seq([ok : BOOLEAN, value : Values]) /\ pos[r] \in Nat
  BY DEF CallsInv, CallInv
<1>2. Len(results[r]) \in Nat
  BY <1>1
<1>3. pos[r] = 0 => incoming[r] = {}
  BY DEF CallsInv, IncomingInv
<1> QED
  BY <1>1, <1>2, <1>3 DEF CallOf

(* The step that r is in. *)
LEMMA CurrentStep ==
  ASSUME CallsInv, NEW r \in Ranks, pos[r] > 0
  PROVE  LET c == CallOf(r)
         IN /\ c \in DOMAIN program
            /\ Tag(r) = TagOf(program, c, r, pos[r])
            /\ Step(r) = Script(program[c], r)[pos[r]]
            /\ pos[r] \in DOMAIN Script(program[c], r)
            /\ \A d \in Step(r).to : /\ d \in Ranks \ {r} /\ Step(r).to = {d}
                                     /\ pos[r] \in SendSteps(program[c], r, d)
            /\ \A s \in Step(r).from : /\ s \in Ranks \ {r} /\ Step(r).from = {s}
                                       /\ pos[r] \in RecvSteps(program[c], s, r)
<1> DEFINE c == CallOf(r)
           k == program[c]
           p == pos[r]
<1>1. /\ c <= Len(program) /\ Step(r) = Script(Call(r), r)[p] /\ p \in DOMAIN Script(Call(r), r)
      /\ next[r] = c
  BY StepFacts
<1>2. c \in DOMAIN program /\ k \in AnyCall /\ Call(r) = k
  BY <1>1, CallFacts DEF Call
<1>3. Tag(r) = TagOf(program, c, r, p)
  BY <1>1, <1>2 DEF Tag, TagOf
<1>4. Step(r) = Script(k, r)[p] /\ p \in DOMAIN Script(k, r)
  BY <1>1, <1>2
<1> HIDE DEF c, k, p
<1>5. Matched(k, r, p)
  BY <1>2, <1>4, AllMatched
<1>6. ASSUME NEW d \in Step(r).to
      PROVE  /\ d \in Ranks \ {r} /\ Step(r).to = {d} /\ p \in SendSteps(k, r, d)
  BY <1>4, <1>5 DEF Matched, SendMatched, SendSteps
<1>7. ASSUME NEW s \in Step(r).from
      PROVE  /\ s \in Ranks \ {r} /\ Step(r).from = {s} /\ p \in RecvSteps(k, s, r)
  BY <1>4, <1>5 DEF Matched, RecvMatched, RecvSteps
<1> QED
  BY <1>2, <1>3, <1>4, <1>6, <1>7 DEF c, k, p

-----------------------------------------------------------------------------
(* How a step of a rank changes where it is: as sender to d, as receiver   *)
(* from s.                                                                 *)

SenderMoves(s, d) ==
  /\ \A c \in DOMAIN program : \A q \in SendSteps(program[c], s, d) :
       /\ Put(s, c, q) => Put(s, c, q)'
       /\ Sent(s, c, q)' => Sent(s, c, q)
       /\ c = CallOf(s)' /\ q = pos'[s] => (c = CallOf(s) /\ q = pos[s]) \/ ~Put(s, c, q)
  /\ put'[s] /\ (d \in Step(s).to)' => put[s] /\ d \in Step(s).to /\ Tag(s)' = Tag(s)
ReceiverMoves(s, d) ==
  \A c \in DOMAIN program : \A p \in RecvSteps(program[c], s, d) :
    /\ Taken(d, c, p) => Taken(d, c, p)'
    /\ Got(d, c, p)' => Got(d, c, p)

(* What a link carries stays the same, at most put aside. *)
LinkKept(s, d) ==
  /\ Distinct(unread'[<<s, d>>], pending'[<<s, d>>])
  /\ \A t : Carries(s, d, t)' <=> Carries(s, d, t)
  /\ \A t : EndsWith(unread[<<s, d>>], t) => EndsWith(unread'[<<s, d>>], t)
  /\ unread[<<s, d>>] = <<>> => unread'[<<s, d>>] = <<>>

LEMMA UnchangedKept ==
  ASSUME NEW s, NEW d, LinkFlow(s, d), unread'[<<s, d>>] = unread[<<s, d>>],
         pending'[<<s, d>>] = pending[<<s, d>>]
  PROVE  LinkKept(s, d)
BY DEF LinkKept, LinkFlow, Carries

(* Moves alone disturb no link. *)
LEMMA MovesKeep ==
  ASSUME NEW s \in Ranks, NEW d \in Ranks, LinkFlow(s, d), SenderMoves(s, d), ReceiverMoves(s, d),
         LinkKept(s, d), program' = program
  PROVE  LinkFlow(s, d)'
<1>1. Distinct(unread[<<s, d>>], pending[<<s, d>>])'
  BY DEF LinkKept
<1>2. CausedInv(s, d)'
  <2> SUFFICES ASSUME NEW t, Carries(s, d, t)'
               PROVE  \E c \in DOMAIN program : \E q \in SendSteps(program[c], s, d) :
                        t = TagOf(program, c, s, q) /\ Put(s, c, q)'
    BY DEF CausedInv
  <2>1. PICK c \in DOMAIN program : \E q \in SendSteps(program[c], s, d) :
          t = TagOf(program, c, s, q) /\ Put(s, c, q)
    BY DEF LinkKept, LinkFlow, CausedInv
  <2>2. PICK q \in SendSteps(program[c], s, d) : t = TagOf(program, c, s, q) /\ Put(s, c, q)
    BY <2>1
  <2> QED
    BY <2>2 DEF SenderMoves
<1>3. LatestInv(s, d)'
  <2> SUFFICES ASSUME put'[s], (d \in Step(s).to)'
               PROVE  EndsWith(unread'[<<s, d>>], Tag(s)')
    BY DEF LatestInv
  <2>1. put[s] /\ d \in Step(s).to /\ Tag(s)' = Tag(s)
    BY DEF SenderMoves
  <2>2. EndsWith(unread[<<s, d>>], Tag(s))
    BY <2>1 DEF LinkFlow, LatestInv
  <2> QED
    BY <2>1, <2>2 DEF LinkKept
<1>4. ASSUME NEW c \in DOMAIN program, NEW q, NEW p, Partners(s, d, c, q, p)
      PROVE  PartnerInv(s, d, c, q, p)'
  <2>1. PartnerInv(s, d, c, q, p) /\ q \in SendSteps(program[c], s, d) /\ p \in RecvSteps(program[c], s, d)
    BY <1>4 DEF LinkFlow, Partners
  <2>2. /\ Put(s, c, q) => Put(s, c, q)'
        /\ Sent(s, c, q)' => Sent(s, c, q)
        /\ c = CallOf(s)' /\ q = pos'[s] => (c = CallOf(s) /\ q = pos[s]) \/ ~Put(s, c, q)
        /\ Taken(d, c, p) => Taken(d, c, p)'
        /\ Got(d, c, p)' => Got(d, c, p)
    BY <2>1 DEF SenderMoves, ReceiverMoves
  <2>3. Carries(s, d, TagOf(program, c, s, q)) => Carries(s, d, TagOf(program, c, s, q))'
    <3> DEFINE t == TagOf(program, c, s, q)
    <3>1. t' = t
      BY DEF TagOf
    <3>2. ASSUME NEW x, Carries(s, d, x) PROVE Carries(s, d, x)'
      BY <3>2 DEF LinkKept
    <3> QED
      BY <3>1, <3>2 DEF Carries
  <2> QED
    BY <2>1, <2>2, <2>3 DEF PartnerInv, LinkKept
<1>5. \A c \in DOMAIN program' : \A q, p : Partners(s, d, c, q, p)' => PartnerInv(s, d, c, q, p)'
  BY <1>4 DEF Partners
<1> QED
  BY <1>1, <1>2, <1>3, <1>5 DEF LinkFlow

LEMMA StillMoves ==
  ASSUME NEW r \in Ranks, program' = program, results'[r] = results[r], pos'[r] = pos[r],
         put'[r] = put[r], incoming'[r] = incoming[r], next'[r] = next[r], NEW o
  PROVE  SenderMoves(r, o) /\ ReceiverMoves(o, r)
<1>1. CallOf(r)' = CallOf(r) /\ Call(r)' = Call(r)
  BY DEF CallOf, Call
<1>2. Step(r)' = Step(r) /\ Tag(r)' = Tag(r)
  BY <1>1 DEF Step, Tag
<1>3. ASSUME NEW c, NEW q
      PROVE  /\ Put(r, c, q)' <=> Put(r, c, q)
             /\ Taken(r, c, q)' <=> Taken(r, c, q)
             /\ Failed(r, c)' <=> Failed(r, c)
  BY <1>1 DEF Put, Taken, Failed
<1> QED
  BY <1>1, <1>2, <1>3 DEF SenderMoves, ReceiverMoves, Sent, Got

(* A call that returns. *)
LEMMA ReturnFacts ==
  ASSUME CallsInv, PutInv, NEW r \in Ranks, NEW ok \in BOOLEAN, NEW value, Return(r, ok, value)
  PROVE  /\ CallOf(r)' = CallOf(r) + 1 /\ pos'[r] = 0 /\ put'[r] = FALSE /\ incoming'[r] = {}
         /\ \A c \in 1 .. CallOf(r) - 1 : Failed(r, c)' <=> Failed(r, c)
         /\ \A c : c = CallOf(r) => (Failed(r, c)' <=> ~ok)
         /\ DOMAIN put' = Ranks
         /\ \A q \in Ranks \ {r} : /\ results'[q] = results[q] /\ pos'[q] = pos[q]
                                   /\ put'[q] = put[q] /\ incoming'[q] = incoming[q]
<1> DEFINE n == Len(results[r])
           new == [ok |-> ok, value |-> value]
           R == [ok : BOOLEAN, value : Values]
           T == R \union {new}
<1>1. /\ pos'[r] = 0 /\ put'[r] = FALSE /\ incoming'[r] = {} /\ DOMAIN put' = Ranks
      /\ results'[r] = Append(results[r], new)
      /\ \A q \in Ranks \ {r} : /\ results'[q] = results[q] /\ pos'[q] = pos[q]
                                /\ put'[q] = put[q] /\ incoming'[q] = incoming[q]
  BY DEF Return, CallsInv, Domains, PutInv
<1>2. results[r] \in Seq(R) /\ new \in T
  BY DEF CallsInv, CallInv
<1>3. new.ok = ok
  OBVIOUS
<1> HIDE DEF new
<1>4. results[r] \in Seq(T)
  <2> HIDE DEF R
  <2>1. n \in Nat /\ results[r] \in [1 .. n -> R]
    BY <1>2
  <2>2. results[r] \in [1 .. n -> T]
    BY <2>1
  <2> HIDE DEF T
  <2> QED
    BY <2>1, <2>2
<1> HIDE DEF T, R
<1>5. /\ n \in Nat /\ DOMAIN results[r] = 1 .. n /\ Len(results'[r]) = n + 1
      /\ DOMAIN results'[r] = 1 .. n + 1 /\ results'[r][n + 1] = new
      /\ \A c \in 1 .. n : results'[r][c] = results[r][c]
  BY <1>1, <1>2, <1>4
<1>6. CallOf(r) = n + 1 /\ CallOf(r)' = (n + 1) + 1
  BY <1>5 DEF CallOf
<1> HIDE DEF n
<1>7. ASSUME NEW c, c = n + 1
      PROVE  Failed(r, c)' <=> ~ok
  <2>1. c \in DOMAIN results'[r] /\ results'[r][c].ok = ok
    BY <1>3, <1>5, <1>7
  <2> QED
    BY <2>1 DEF Failed
<1>8. ASSUME NEW c \in 1 .. n
      PROVE  Failed(r, c)' <=> Failed(r, c)
  BY <1>5 DEF Failed
<1>9. CallOf(r) - 1 = n
  BY <1>5, <1>6
<1> QED
  BY <1>1, <1>6, <1>7, <1>8, <1>9

(* What a return changes nothing of: the other calls. *)
LEMMA ReturnElsewhere ==
  ASSUME CallsInv, PutInv, NEW r \in Ranks, NEW ok \in BOOLEAN, NEW value, Return(r, ok, value),
         NEW c \in DOMAIN program, c # CallOf(r), NEW q \in Nat \ {0}
  PROVE  /\ Put(r, c, q)' <=> Put(r, c, q)
         /\ Sent(r, c, q)' <=> Sent(r, c, q)
         /\ Taken(r, c, q)' <=> Taken(r, c, q)
         /\ Got(r, c, q)' <=> Got(r, c, q)
<1> DEFINE n == CallOf(r)
<1>1. n \in Nat /\ pos[r] \in Nat /\ c \in Nat \ {0}
  BY CallNumber, ProgramType
<1>2. /\ CallOf(r)' = n + 1 /\ pos'[r] = 0
      /\ \A e \in 1 .. n - 1 : Failed(r, e)' <=> Failed(r, e)
  BY ReturnFacts
<1> HIDE DEF n
<1>3. CASE c < n
  <2>1. c \in 1 .. n - 1
    BY <1>1, <1>3
  <2>2. Put(r, c, q) /\ Put(r, c, q)' /\ Taken(r, c, q) /\ Taken(r, c, q)'
    BY <1>1, <1>2, <1>3 DEF Put, Taken, n
  <2> QED
    BY <1>2, <2>1, <2>2 DEF Sent, Got
<1>4. CASE c > n
  <2>1. ~Put(r, c, q) /\ ~Taken(r, c, q)
    BY <1>1, <1>4 DEF Put, Taken, n
  <2>2. ~Put(r, c, q)' /\ ~Taken(r, c, q)'
    BY <1>1, <1>2, <1>4 DEF Put, Taken
  <2> QED
    BY <2>1, <2>2 DEF Sent, Got
<1> QED
  BY <1>1, <1>3, <1>4 DEF n

LEMMA StepsAreNumbers ==
  ASSUME CallsInv, NEW r \in Ranks, NEW o \in Ranks, NEW c \in DOMAIN program
  PROVE  SendSteps(program[c], r, o) \subseteq Nat \ {0} /\ RecvSteps(program[c], o, r) \subseteq Nat \ {0}
BY ProgramType, StepNumbers DEF SendSteps, RecvSteps

LEMMA FailureMoves ==
  ASSUME CallsInv, PutInv, NEW r \in Ranks, Return(r, FALSE, <<>>), program' = program, NEW o \in Ranks
  PROVE  SenderMoves(r, o) /\ ReceiverMoves(o, r)
<1> DEFINE n == CallOf(r)
<1>1. n \in Nat
  BY CallNumber
<1>2. /\ CallOf(r)' = n + 1 /\ pos'[r] = 0 /\ put'[r] = FALSE
      /\ \A c : c = n => Failed(r, c)'
  BY ReturnFacts
<1>3. ASSUME NEW c \in DOMAIN program, NEW q \in Nat \ {0}
      PROVE  /\ Put(r, c, q) => Put(r, c, q)'
             /\ Sent(r, c, q)' => Sent(r, c, q)
             /\ Taken(r, c, q) => Taken(r, c, q)'
             /\ Got(r, c, q)' => Got(r, c, q)
  <2>1. CASE c = n
    <3>1. Put(r, c, q)' /\ Taken(r, c, q)'
      BY <1>1, <1>2, <2>1 DEF Put, Taken
    <3> QED
      BY <1>2, <2>1, <3>1 DEF Sent, Got
  <2>2. CASE c # n
    BY <2>2, ReturnElsewhere
  <2> QED
    BY <2>1, <2>2
<1> QED
  BY <1>2, <1>3, StepsAreNumbers DEF SenderMoves, ReceiverMoves

(* A step is over: its frame is with the link, and what it waits for has   *)
(* come.                                                                   *)
StepOver(r) == (Step(r).to # {} => put[r]) /\ (Step(r).from # {} => incoming[r] # {})

(* Then r is past all that it does in the steps so far. *)
LEMMA OverMeansPast ==
  ASSUME CallsInv, PutInv, NEW r \in Ranks, pos[r] > 0, StepOver(r), NEW o \in Ranks, NEW c, c = CallOf(r)
  PROVE  /\ ~Failed(r, c)
         /\ \A q \in SendSteps(program[c], r, o) : q <= pos[r] => Put(r, c, q)
         /\ \A q \in RecvSteps(program[c], o, r) : q <= pos[r] => Taken(r, c, q)
<1>1. Step(r) = Script(program[c], r)[pos[r]] /\ c \in DOMAIN program
  BY CurrentStep
<1>2. pos[r] \in Nat
  BY CallNumber
<1>3. ~Failed(r, c)
  <2>1. Len(results[r]) \in Nat /\ DOMAIN results[r] = 1 .. Len(results[r])
    BY DEF CallsInv, CallInv
  <2> QED
    BY <2>1 DEF Failed, CallOf
<1>4. ASSUME NEW q \in SendSteps(program[c], r, o), q <= pos[r]
      PROVE  Put(r, c, q)
  <2>1. q \in Nat
    BY <1>1, StepsAreNumbers
  <2>2. q = pos[r] => put[r]
    BY <1>1 DEF SendSteps, StepOver
  <2> QED
    BY <1>2, <1>4, <2>1, <2>2 DEF Put
<1>5. ASSUME NEW q \in RecvSteps(program[c], o, r), q <= pos[r]
      PROVE  Taken(r, c, q)
  <2>1. q \in Nat
    BY <1>1, StepsAreNumbers
  <2>2. q = pos[r] => incoming[r] # {}
    BY <1>1 DEF RecvSteps, StepOver
  <2> QED
    BY <1>2, <1>5, <2>1, <2>2 DEF Taken
<1> QED
  BY <1>3, <1>4, <1>5

LEMMA SuccessMoves ==
  ASSUME CallsInv, PutInv, NEW r \in Ranks, NEW value, Return(r, TRUE, value), program' = program,
         pos[r] > 0, StepOver(r), pos[r] = Len(Script(Call(r), r)), NEW o \in Ranks
  PROVE  SenderMoves(r, o) /\ ReceiverMoves(o, r)
<1> DEFINE n == CallOf(r)
<1>1. n \in Nat
  BY CallNumber
<1>2. CallOf(r)' = n + 1 /\ pos'[r] = 0 /\ put'[r] = FALSE
  BY ReturnFacts
<1>3. DOMAIN Script(program[n], r) = 1 .. pos[r] /\ n \in DOMAIN program
  <2>1. n \in DOMAIN program /\ program[n] \in AnyCall /\ program[n] = Call(r)
    BY CurrentStep, ProgramType DEF Call
  <2> QED
    BY <2>1, AllWork DEF Works
<1>4. ASSUME NEW c \in DOMAIN program
      PROVE  /\ \A q \in SendSteps(program[c], r, o) :
                  (Put(r, c, q) => Put(r, c, q)') /\ (Sent(r, c, q)' => Sent(r, c, q))
             /\ \A q \in RecvSteps(program[c], o, r) :
                  (Taken(r, c, q) => Taken(r, c, q)') /\ (Got(r, c, q)' => Got(r, c, q))
  <2>1. CASE c = n
    <3>1. \A q : Put(r, c, q)' /\ Taken(r, c, q)'
      BY <1>1, <1>2, <2>1 DEF Put, Taken
    <3>2. /\ \A q \in SendSteps(program[c], r, o) : q <= pos[r]
          /\ \A q \in RecvSteps(program[c], o, r) : q <= pos[r]
      BY <1>3, <2>1 DEF SendSteps, RecvSteps
    <3>3. /\ ~Failed(r, c)
          /\ \A q \in SendSteps(program[c], r, o) : Put(r, c, q)
          /\ \A q \in RecvSteps(program[c], o, r) : Taken(r, c, q)
      BY <2>1, <3>2, OverMeansPast
    <3> QED
      BY <3>1, <3>3 DEF Sent, Got
  <2>2. CASE c # n
    BY <2>2, ReturnElsewhere, StepsAreNumbers
  <2> QED
    BY <2>1, <2>2
<1>5. \A c \in DOMAIN program : \A q \in SendSteps(program[c], r, o) : q # 0
  BY StepsAreNumbers
<1> QED
  BY <1>2, <1>4, <1>5 DEF SenderMoves, ReceiverMoves

(* r goes on to its next step. *)
LEMMA NextStepMoves ==
  ASSUME CallsInv, PutInv, NEW r \in Ranks, program' = program, results'[r] = results[r],
         pos'[r] = pos[r] + 1, put'[r] = FALSE, incoming'[r] = {},
         pos[r] > 0 => StepOver(r), pos[r] = 0 => ~put[r], NEW o \in Ranks
  PROVE  SenderMoves(r, o) /\ ReceiverMoves(o, r)
<1> DEFINE n == CallOf(r)
           p == pos[r]
<1>1. n \in Nat /\ p \in Nat /\ CallOf(r)' = n /\ \A c : Failed(r, c)' <=> Failed(r, c)
  BY CallNumber DEF CallOf, Failed
<1>2. ASSUME NEW c \in DOMAIN program, NEW q \in Nat \ {0}
      PROVE  /\ Put(r, c, q) => Put(r, c, q)'
             /\ Taken(r, c, q) => Taken(r, c, q)'
             /\ Put(r, c, q)' => Put(r, c, q) \/ (c = n /\ q <= p)
             /\ Taken(r, c, q)' => Taken(r, c, q) \/ (c = n /\ q <= p)
             /\ q = pos'[r] => c # n \/ ~Put(r, c, q)
  BY <1>1 DEF Put, Taken
<1>3. ASSUME NEW c \in DOMAIN program, NEW q \in SendSteps(program[c], r, o)
      PROVE  /\ Put(r, c, q) => Put(r, c, q)'
             /\ Sent(r, c, q)' => Sent(r, c, q)
             /\ c = CallOf(r)' /\ q = pos'[r] => ~Put(r, c, q)
  <2>1. q \in Nat \ {0}
    BY StepsAreNumbers
  <2>2. c = n /\ q <= p => Put(r, c, q)
    <3>1. q <= p => p > 0
      BY <1>1, <2>1
    <3> QED
      BY <3>1, OverMeansPast
  <2> QED
    BY <1>1, <1>2, <2>1, <2>2 DEF Sent
<1>4. ASSUME NEW c \in DOMAIN program, NEW q \in RecvSteps(program[c], o, r)
      PROVE  /\ Taken(r, c, q) => Taken(r, c, q)'
             /\ Got(r, c, q)' => Got(r, c, q)
  <2>1. q \in Nat \ {0}
    BY StepsAreNumbers
  <2>2. c = n /\ q <= p => Taken(r, c, q)
    <3>1. q <= p => p > 0
      BY <1>1, <2>1
    <3> QED
      BY <3>1, OverMeansPast
  <2> QED
    BY <1>1, <1>2, <2>1, <2>2 DEF Got
<1> QED
  BY <1>3, <1>4 DEF SenderMoves, ReceiverMoves

-----------------------------------------------------------------------------
(* Steps that leave the links alone. *)

OthersStill(r) ==
  \A q \in Ranks \ {r} : /\ results'[q] = results[q] /\ pos'[q] = pos[q] /\ put'[q] = put[q]
                         /\ incoming'[q] = incoming[q] /\ next'[q] = next[q]

LEMMA QuietKeeps ==
  ASSUME FlowInv, PutInv', NEW r \in Ranks, OthersStill(r), program' = program,
         \A o \in Ranks : SenderMoves(r, o) /\ ReceiverMoves(o, r),
         \A s, d \in Ranks : s # d => LinkKept(s, d)
  PROVE  FlowInv'
<1>1. ASSUME NEW s \in Ranks, NEW d \in Ranks, s # d
      PROVE  LinkFlow(s, d)'
  <2>1. SenderMoves(s, d)
    <3>1. CASE s = r
      BY <3>1
    <3>2. CASE s # r
      BY <3>2, StillMoves DEF OthersStill
    <3> QED
      BY <3>1, <3>2
  <2>2. ReceiverMoves(s, d)
    <3>1. CASE d = r
      BY <3>1
    <3>2. CASE d # r
      BY <3>2, StillMoves DEF OthersStill
    <3> QED
      BY <3>1, <3>2
  <2>3. LinkFlow(s, d) /\ LinkKept(s, d)
    BY <1>1 DEF FlowInv
  <2> QED
    BY <2>1, <2>2, <2>3, MovesKeep
<1> QED
  BY <1>1 DEF FlowInv

LEMMA UntouchedLinks ==
  ASSUME FlowInv, unread' = unread, pending' = pending
  PROVE  \A s, d \in Ranks : s # d => LinkKept(s, d)
BY UnchangedKept DEF FlowInv

LEMMA ReturnPutInv ==
  ASSUME CallsInv, PutInv, NEW r \in Ranks, NEW ok \in BOOLEAN, NEW value, Return(r, ok, value),
         room' = room
  PROVE  PutInv'
<1>1. /\ pos'[r] = 0 /\ put'[r] = FALSE /\ DOMAIN put' = Ranks
      /\ \A q \in Ranks \ {r} : pos'[q] = pos[q] /\ put'[q] = put[q]
  BY ReturnFacts
<1> QED
  BY <1>1 DEF PutInv

LEMMA FailureFlow ==
  ASSUME CallsInv, FlowInv, NEW r \in Ranks, Return(r, FALSE, <<>>), program' = program, room' = room,
         \A q \in Ranks \ {r} : next'[q] = next[q], unread' = unread, pending' = pending
  PROVE  FlowInv'
<1>1. PutInv
  BY DEF FlowInv
<1>2. PutInv'
  BY <1>1, ReturnPutInv
<1>3. OthersStill(r)
  BY <1>1, ReturnFacts DEF OthersStill
<1>4. \A o \in Ranks : SenderMoves(r, o) /\ ReceiverMoves(o, r)
  BY <1>1, FailureMoves
<1> QED
  BY <1>2, <1>3, <1>4, UntouchedLinks, QuietKeeps

LEMMA BeginFlow ==
  ASSUME CallsInv, FlowInv, NEW r \in Ranks, Begin(r)
  PROVE  FlowInv'
<1>1. /\ pos[r] = 0 /\ program' = program /\ room' = room
      /\ next' = [next EXCEPT ![r] = IF BadType(r) THEN @ ELSE @ + 1]
      /\ unread' = unread /\ pending' = pending
  BY DEF Begin, setup
<1>2. \A q \in Ranks \ {r} : next'[q] = next[q]
  BY <1>1 DEF CallsInv, Domains
<1>3. CASE Return(r, FALSE, <<>>)
  BY <1>1, <1>2, <1>3, FailureFlow
<1>4. CASE /\ pos' = [pos EXCEPT ![r] = 1]
           /\ UNCHANGED <<put, incoming, results>>
  <2>1. PutInv /\ pos[r] = 0 /\ ~put[r] /\ put[r] = FALSE /\ incoming[r] = {}
    BY <1>1, CallNumber DEF FlowInv, PutInv
  <2>2. /\ pos'[r] = pos[r] + 1 /\ put'[r] = FALSE /\ incoming'[r] = {}
        /\ results'[r] = results[r] /\ \A q \in Ranks \ {r} : pos'[q] = pos[q]
    BY <1>1, <1>4, <2>1 DEF CallsInv, Domains
  <2>3. OthersStill(r)
    BY <1>2, <1>4, <2>2 DEF OthersStill
  <2>4. PutInv'
    BY <1>1, <1>4, <2>1, <2>2 DEF PutInv
  <2>5. \A o \in Ranks : SenderMoves(r, o) /\ ReceiverMoves(o, r)
    <3>1. (pos[r] > 0 => StepOver(r)) /\ (pos[r] = 0 => ~put[r])
      BY <2>1
    <3> QED
      BY <1>1, <2>1, <2>2, <3>1, NextStepMoves
  <2> QED
    BY <1>1, <2>3, <2>4, <2>5, UntouchedLinks, QuietKeeps
<1> QED
  BY <1>3, <1>4 DEF Begin

LEMMA AdvanceFlow ==
  ASSUME CallsInv, FlowInv, NEW r \in Ranks, Advance(r)
  PROVE  FlowInv'
<1>1. /\ pos[r] > 0 /\ program' = program /\ room' = room /\ next' = next
      /\ unread' = unread /\ pending' = pending /\ SendReturned(r)
      /\ Step(r).from # {} => incoming[r] # {}
  BY DEF Advance, setup
<1>2. StepOver(r) /\ PutInv
  BY <1>1 DEF StepOver, SendReturned, FlowInv
<1>3. Scripts[Call(r)][r] = Script(Call(r), r) /\ pos[r] \in Nat
  BY <1>1, StepFacts
<1>4. \/ Return(r, FALSE, <<>>)
      \/ pos[r] = Len(Script(Call(r), r)) /\ \E value : Return(r, TRUE, value)
      \/ /\ pos' = [pos EXCEPT ![r] = @ + 1]
         /\ put' = [put EXCEPT ![r] = FALSE]
         /\ incoming' = [incoming EXCEPT ![r] = {}]
         /\ UNCHANGED results
  <2> DEFINE bad == \E f \in incoming[r] : ~ShapeAccepted(Step(r), Shape(r), f)
             chunks == IF incoming[r] = {} THEN work[r]
                       ELSE Reduced(r, (CHOOSE f \in incoming[r] : TRUE).body)
  <2>1. IF bad THEN Return(r, FALSE, <<>>)
        ELSE IF pos[r] = Len(Scripts[Call(r)][r])
               THEN Return(r, TRUE, ResultOf(Call(r), r, chunks))
        ELSE /\ pos' = [pos EXCEPT ![r] = @ + 1]
             /\ put' = [put EXCEPT ![r] = FALSE]
             /\ incoming' = [incoming EXCEPT ![r] = {}]
             /\ work' = [work EXCEPT ![r] = chunks]
             /\ UNCHANGED results
    BY DEF Advance
  <2> HIDE DEF bad, chunks
  <2> QED
    BY <1>3, <2>1
<1>5. CASE Return(r, FALSE, <<>>)
  BY <1>1, <1>5, FailureFlow
<1>6. CASE pos[r] = Len(Script(Call(r), r)) /\ \E value : Return(r, TRUE, value)
  <2>1. PICK value : Return(r, TRUE, value)
    BY <1>6
  <2>2. PutInv'
    BY <1>1, <1>2, <2>1, ReturnPutInv
  <2>3. OthersStill(r)
    BY <1>1, <1>2, <2>1, ReturnFacts DEF OthersStill
  <2>4. \A o \in Ranks : SenderMoves(r, o) /\ ReceiverMoves(o, r)
    BY <1>1, <1>2, <1>6, <2>1, SuccessMoves
  <2> QED
    BY <1>1, <2>2, <2>3, <2>4, UntouchedLinks, QuietKeeps
<1>7. CASE /\ pos' = [pos EXCEPT ![r] = @ + 1]
           /\ put' = [put EXCEPT ![r] = FALSE]
           /\ incoming' = [incoming EXCEPT ![r] = {}]
           /\ UNCHANGED results
  <2>1. /\ pos'[r] = pos[r] + 1 /\ put'[r] = FALSE /\ incoming'[r] = {} /\ results'[r] = results[r]
        /\ DOMAIN put' = Ranks
        /\ \A q \in Ranks \ {r} : /\ pos'[q] = pos[q] /\ put'[q] = put[q]
                                  /\ incoming'[q] = incoming[q] /\ results'[q] = results[q]
    BY <1>2, <1>7 DEF CallsInv, Domains, PutInv
  <2>2. OthersStill(r)
    BY <1>1, <2>1 DEF OthersStill
  <2>3. PutInv'
    BY <1>1, <1>2, <2>1 DEF PutInv
  <2>4. \A o \in Ranks : SenderMoves(r, o) /\ ReceiverMoves(o, r)
    <3>1. (pos[r] > 0 => StepOver(r)) /\ (pos[r] = 0 => ~put[r])
      BY <1>1, <1>2, <1>3
    <3> QED
      BY <1>1, <1>2, <2>1, <3>1, NextStepMoves
  <2> QED
    BY <1>1, <2>2, <2>3, <2>4, UntouchedLinks, QuietKeeps
<1> QED
  BY <1>4, <1>5, <1>6, <1>7

LEMMA TimeOutFlow ==
  ASSUME CallsInv, FlowInv, NEW r \in Ranks, TimeOut(r)
  PROVE  FlowInv'
BY FailureFlow DEF TimeOut, setup

LEMMA StillFlow ==
  ASSUME FlowInv, program' = program, room' = room, next' = next, pos' = pos, put' = put,
         incoming' = incoming, results' = results, unread' = unread, pending' = pending
  PROVE  FlowInv'
<1>1. 0 \in Ranks
  BY WorldFacts
<1>2. PutInv'
  BY DEF FlowInv, PutInv
<1>3. OthersStill(0) /\ \A o \in Ranks : SenderMoves(0, o) /\ ReceiverMoves(o, 0)
  BY <1>1, StillMoves DEF OthersStill
<1> QED
  BY <1>1, <1>2, <1>3, UntouchedLinks, QuietKeeps

LEMMA InitFlow == Init => FlowInv
<1> SUFFICES ASSUME Init PROVE FlowInv
  OBVIOUS
<1>1. PutInv
  BY CollectivesAssumption DEF Init, PutInv
<1>2. ASSUME NEW s \in Ranks, NEW d \in Ranks, s # d
      PROVE  LinkFlow(s, d)
  <2>1. unread[<<s, d>>] = <<>> /\ pending[<<s, d>>] = {}
    BY <1>2 DEF Init, Links
  <2>2. ~put[s] /\ pos[s] = 0 /\ pos[d] = 0 /\ CallOf(s) = 1 /\ CallOf(d) = 1 /\ incoming[d] = {}
    BY <1>2 DEF Init, CallOf
  <2>3. CallsInv
    BY InitHolds
  <2>4. ASSUME NEW c \in DOMAIN program, NEW q \in Nat \ {0}
        PROVE  ~Put(s, c, q) /\ ~Taken(d, c, q)
    <3>1. c \in Nat \ {0}
      BY <2>3, ProgramType
    <3> QED
      BY <2>2, <3>1 DEF Put, Taken
  <2>5. ASSUME NEW c \in DOMAIN program, NEW q, NEW p, Partners(s, d, c, q, p)
        PROVE  PartnerInv(s, d, c, q, p)
    <3>1. q \in Nat \ {0} /\ p \in Nat \ {0}
      BY <2>3, <2>5, StepsAreNumbers DEF Partners
    <3> QED
      BY <2>4, <3>1 DEF PartnerInv, Sent, Got
  <2>6. \A t : ~Carries(s, d, t)
    BY <2>1 DEF Carries, HasTag
  <2> QED
    BY <2>1, <2>2, <2>5, <2>6 DEF LinkFlow, Distinct, CausedInv, LatestInv
<1> QED
  BY <1>1, <1>2 DEF FlowInv

-----------------------------------------------------------------------------
(* Steps that change a link. *)

(* The other links, when the sender and the receiver of one do something. *)
LEMMA OtherLink ==
  ASSUME FlowInv, program' = program, NEW s \in Ranks, NEW d \in Ranks, s # d,
         SenderMoves(s, d), ReceiverMoves(s, d),
         unread'[<<s, d>>] = unread[<<s, d>>], pending'[<<s, d>>] = pending[<<s, d>>]
  PROVE  LinkFlow(s, d)'
<1>1. LinkFlow(s, d)
  BY DEF FlowInv
<1>2. LinkKept(s, d)
  BY <1>1, UnchangedKept
<1> QED
  BY <1>1, <1>2, MovesKeep

LEMMA SendFlow ==
  ASSUME CallsInv, FlowInv, NEW r \in Ranks, Send(r)
  PROVE  FlowInv'
<1> DEFINE n == CallOf(r)
           p == pos[r]
<1>1. /\ p > 0 /\ ~put[r] /\ program' = program /\ room' = room /\ next' = next /\ pos' = pos
      /\ incoming' = incoming /\ results' = results /\ pending' = pending
      /\ put' = [put EXCEPT ![r] = TRUE]
  BY DEF Send, setup
<1>2. PICK d \in Step(r).to : unread' = [unread EXCEPT ![<<r, d>>] = Append(@, Frame(r))]
  BY DEF Send
<1>3. /\ n \in DOMAIN program /\ n \in Nat /\ p \in Nat
      /\ Tag(r) = TagOf(program, n, r, p) /\ Step(r) = Script(program[n], r)[p]
      /\ d \in Ranks \ {r} /\ Step(r).to = {d} /\ p \in SendSteps(program[n], r, d)
  BY <1>1, CurrentStep, CallNumber
<1>4. /\ put'[r] = TRUE /\ DOMAIN put' = Ranks /\ \A q \in Ranks \ {r} : put'[q] = put[q]
  BY <1>1 DEF FlowInv, PutInv
<1>5. PutInv'
  BY <1>1, <1>4 DEF FlowInv, PutInv
<1>6. /\ \A q : CallOf(q)' = CallOf(q) /\ \A c : Failed(q, c)' <=> Failed(q, c)
      /\ Step(r)' = Step(r) /\ Tag(r)' = Tag(r)
  BY <1>1 DEF CallOf, Failed, Step, Tag, Call
<1>7. ASSUME NEW c, NEW q
      PROVE  Put(r, c, q)' <=> Put(r, c, q) \/ (c = n /\ q = p)
  BY <1>1, <1>3, <1>4, <1>6 DEF Put
<1>8. ASSUME NEW o, NEW c, NEW q
      PROVE  Taken(o, c, q)' <=> Taken(o, c, q)
  BY <1>1, <1>6 DEF Taken
<1>9. \A s, o : ReceiverMoves(s, o)
  BY <1>6, <1>8 DEF ReceiverMoves, Got
<1>10. ~Put(r, n, p)
  BY <1>1, <1>3 DEF Put
<1>11. ASSUME NEW o \in Ranks \ {d}
       PROVE  SenderMoves(r, o)
  <2>1. ASSUME NEW c \in DOMAIN program, NEW q \in SendSteps(program[c], r, o)
        PROVE  c # n \/ q # p
    BY <1>3, <1>11 DEF SendSteps
  <2>2. o \notin Step(r).to
    BY <1>3, <1>11
  <2> QED
    BY <1>1, <1>6, <1>7, <2>1, <2>2 DEF SenderMoves, Sent
<1>12. ASSUME NEW s \in Ranks, NEW o \in Ranks, s # o, <<s, o>> # <<r, d>>
       PROVE  LinkFlow(s, o)'
  <2>1. <<s, o>> \in Links /\ unread'[<<s, o>>] = unread[<<s, o>>] /\ pending'[<<s, o>>] = pending[<<s, o>>]
    BY <1>1, <1>2, <1>12 DEF Links, CallsInv, Domains
  <2>2. SenderMoves(s, o)
    <3>1. CASE s = r
      BY <1>11, <1>12, <3>1
    <3>2. CASE s # r
      BY <1>1, <1>4, <3>2, StillMoves
    <3> QED
      BY <3>1, <3>2
  <2> QED
    BY <1>1, <1>9, <1>12, <2>1, <2>2, OtherLink
<1>13. LinkFlow(r, d)'
  <2> DEFINE l == <<r, d>>
             u == unread[l]
             f == Frame(r)
             t0 == Tag(r)
  <2>1. l \in Links /\ unread'[l] = Append(u, f) /\ pending'[l] = pending[l]
    BY <1>1, <1>2, <1>3 DEF Links, CallsInv, Domains
  <2>2. u \in Seq(SentOn(program, l)) /\ f \in SentOn(program, l)
    BY <1>1, <2>1, FrameSent DEF CallsInv, LinkInv
  <2>3. f.tag = t0
    BY DEF Frame
  <2>4. LinkFlow(r, d)
    BY <1>3 DEF FlowInv
  <2>5. ~Carries(r, d, t0)
    <3> SUFFICES ASSUME Carries(r, d, t0) PROVE FALSE
      OBVIOUS
    <3>1. PICK c \in DOMAIN program : \E q \in SendSteps(program[c], r, d) :
            t0 = TagOf(program, c, r, q) /\ Put(r, c, q)
      BY <2>4 DEF LinkFlow, CausedInv
    <3>2. PICK q \in SendSteps(program[c], r, d) : t0 = TagOf(program, c, r, q) /\ Put(r, c, q)
      BY <3>1
    <3>3. c = n /\ q = p
      BY <1>3, <3>2, ProgramType, SentOnce
    <3> QED
      BY <1>10, <3>2, <3>3
  <2>6. /\ \A t : HasTag(Append(u, f), pending[l], t) <=> HasTag(u, pending[l], t) \/ t = t0
        /\ Distinct(Append(u, f), pending[l])
        /\ EndsWith(Append(u, f), t0)
    <3> HIDE DEF u, f, t0, l
    <3>1. Distinct(u, pending[l]) /\ ~HasTag(u, pending[l], f.tag)
      BY <2>3, <2>4, <2>5 DEF LinkFlow, Carries, u, l
    <3> QED
      BY <2>2, <2>3, <3>1, AppendLink
  <2>7. \A t : Carries(r, d, t)' <=> Carries(r, d, t) \/ t = t0
    BY <2>1, <2>6 DEF Carries
  <2> HIDE DEF u, f, t0, l
  <2>8. CausedInv(r, d)'
    <3> SUFFICES ASSUME NEW t, Carries(r, d, t)'
                 PROVE  \E c \in DOMAIN program : \E q \in SendSteps(program[c], r, d) :
                          t = TagOf(program, c, r, q) /\ Put(r, c, q)'
      BY <1>1 DEF CausedInv
    <3>1. CASE Carries(r, d, t)
      <4>1. PICK c \in DOMAIN program : \E q \in SendSteps(program[c], r, d) :
              t = TagOf(program, c, r, q) /\ Put(r, c, q)
        BY <2>4, <3>1 DEF LinkFlow, CausedInv
      <4>2. PICK q \in SendSteps(program[c], r, d) : t = TagOf(program, c, r, q) /\ Put(r, c, q)
        BY <4>1
      <4> QED
        BY <1>7, <4>2
    <3>2. CASE t = t0
      <4>1. \A c, q : c = n /\ q = p => Put(r, c, q)'
        BY <1>7
      <4> HIDE DEF n, p
      <4> QED
        BY <1>3, <3>2, <4>1 DEF t0
    <3> QED
      BY <2>7, <3>1, <3>2
  <2>9. LatestInv(r, d)'
    BY <1>6, <2>1, <2>6 DEF LatestInv, t0, l
  <2>10. ASSUME NEW c \in DOMAIN program, NEW q, NEW i, Partners(r, d, c, q, i)
         PROVE  PartnerInv(r, d, c, q, i)'
    <3>1. PartnerInv(r, d, c, q, i)
      BY <2>4, <2>10 DEF LinkFlow
    <3>2. Sent(r, c, q)' /\ ~Taken(d, c, i)' => Carries(r, d, TagOf(program, c, r, q))'
      <4> SUFFICES ASSUME Sent(r, c, q)', ~Taken(d, c, i)'
                   PROVE  \A t : t = TagOf(program, c, r, q) => Carries(r, d, t)'
        BY <1>1 DEF Carries, TagOf
      <4>1. CASE c = n /\ q = p
        BY <1>3, <2>7, <4>1 DEF t0
      <4>2. CASE ~(c = n /\ q = p)
        <5>1. Sent(r, c, q) /\ ~Taken(d, c, i)
          BY <1>6, <1>7, <1>8, <4>2 DEF Sent
        <5> QED
          BY <2>7, <3>1, <5>1 DEF PartnerInv
      <4> QED
        BY <4>1, <4>2
    <3>3. Got(d, c, i)' => Put(r, c, q) /\ Put(r, c, q)'
      BY <1>6, <1>7, <1>8, <3>1 DEF PartnerInv, Got
    <3>4. ~(Got(d, c, i)' /\ c = CallOf(r)' /\ q = pos'[r])
      BY <1>1, <1>6, <1>10, <3>3
    <3> QED
      BY <3>2, <3>3, <3>4 DEF PartnerInv
  <2>11. Distinct(unread'[<<r, d>>], pending'[<<r, d>>])
    BY <2>1, <2>6 DEF l
  <2>12. \A c \in DOMAIN program' : \A q, i : Partners(r, d, c, q, i)' => PartnerInv(r, d, c, q, i)'
    BY <1>1, <2>10 DEF Partners
  <2> QED
    BY <2>8, <2>9, <2>11, <2>12 DEF LinkFlow
<1> QED
  BY <1>5, <1>12, <1>13 DEF FlowInv

(* The link from s to d gives up its frame with tag t, and at most sets    *)
(* others aside.                                                           *)
Delivers(s, d, t) ==
  /\ Carries(s, d, t)
  /\ \A x : Carries(s, d, x)' => Carries(s, d, x)
  /\ \A x : Carries(s, d, x) /\ x # t => Carries(s, d, x)'
  /\ Distinct(unread'[<<s, d>>], pending'[<<s, d>>])
  /\ \A x : EndsWith(unread[<<s, d>>], x) => EndsWith(unread'[<<s, d>>], x)
  /\ EndsWith(unread[<<s, d>>], t) => unread'[<<s, d>>] = <<>>
  /\ unread[<<s, d>>] = <<>> => unread'[<<s, d>>] = <<>>

LEMMA TakeFlow ==
  ASSUME CallsInv, FlowInv, NEW r \in Ranks, pos[r] > 0, incoming[r] = {}, NEW s \in Step(r).from,
         NEW f, incoming' = [incoming EXCEPT ![r] = {f}], Delivers(s, r, Tag(r)),
         program' = program, room' = room, next' = next, pos' = pos, put' = put, results' = results,
         \A l \in Links : l # <<s, r>> => unread'[l] = unread[l] /\ pending'[l] = pending[l]
  PROVE  FlowInv'
<1> DEFINE n == CallOf(r)
           p == pos[r]
<1>1. /\ n \in DOMAIN program /\ n \in Nat /\ p \in Nat
      /\ Tag(r) = TagOf(program, n, r, p)
      /\ s \in Ranks \ {r} /\ Step(r).from = {s} /\ p \in RecvSteps(program[n], s, r)
      /\ Step(r) = Script(program[n], r)[p]
  BY CurrentStep, CallNumber
<1>2. /\ \A q : CallOf(q)' = CallOf(q) /\ \A c : Failed(q, c)' <=> Failed(q, c)
      /\ \A q : Step(q)' = Step(q) /\ Tag(q)' = Tag(q)
  BY DEF CallOf, Failed, Step, Tag, Call
<1>3. incoming'[r] = {f} /\ \A q \in Ranks \ {r} : incoming'[q] = incoming[q]
  BY DEF CallsInv, Domains
<1>4. PutInv'
  BY DEF FlowInv, PutInv
<1>5. ASSUME NEW c, NEW q
      PROVE  Taken(r, c, q)' <=> Taken(r, c, q) \/ (c = n /\ q = p)
  BY <1>1, <1>2, <1>3 DEF Taken
<1>6. ASSUME NEW o, NEW c, NEW q
      PROVE  Put(o, c, q)' <=> Put(o, c, q)
  BY <1>2 DEF Put
<1>7. \A o, e : SenderMoves(o, e)
  BY <1>2, <1>6 DEF SenderMoves, Sent
<1>8. ASSUME NEW o \in Ranks \ {s}
      PROVE  ReceiverMoves(o, r)
  <2>1. ASSUME NEW c \in DOMAIN program, NEW q \in RecvSteps(program[c], o, r)
        PROVE  c # n \/ q # p
    BY <1>1, <1>8 DEF RecvSteps
  <2> QED
    BY <1>2, <1>5, <2>1 DEF ReceiverMoves, Got
<1>9. ASSUME NEW o \in Ranks, NEW e \in Ranks, o # e, <<o, e>> # <<s, r>>
      PROVE  LinkFlow(o, e)'
  <2>1. <<o, e>> \in Links /\ unread'[<<o, e>>] = unread[<<o, e>>] /\ pending'[<<o, e>>] = pending[<<o, e>>]
    BY <1>9 DEF Links
  <2>2. ReceiverMoves(o, e)
    <3>1. CASE e = r
      BY <1>8, <1>9, <3>1
    <3>2. CASE e # r
      BY <1>3, <3>2, StillMoves
    <3> QED
      BY <3>1, <3>2
  <2> QED
    BY <1>7, <1>9, <2>1, <2>2, OtherLink
<1>10. LinkFlow(s, r)'
  <2>1. LinkFlow(s, r)
    BY <1>1 DEF FlowInv
  <2>2. CausedInv(s, r)'
    <3> SUFFICES ASSUME NEW t, Carries(s, r, t)'
                 PROVE  \E c \in DOMAIN program : \E q \in SendSteps(program[c], s, r) :
                          t = TagOf(program, c, s, q) /\ Put(s, c, q)'
      BY DEF CausedInv
    <3>1. Carries(s, r, t)
      BY DEF Delivers
    <3>2. PICK c \in DOMAIN program : \E q \in SendSteps(program[c], s, r) :
            t = TagOf(program, c, s, q) /\ Put(s, c, q)
      BY <2>1, <3>1 DEF LinkFlow, CausedInv
    <3> QED
      BY <1>6, <3>2
  <2>3. LatestInv(s, r)'
    <3> SUFFICES ASSUME put[s], r \in Step(s).to
                 PROVE  EndsWith(unread'[<<s, r>>], Tag(s))
      BY <1>2 DEF LatestInv
    <3>1. EndsWith(unread[<<s, r>>], Tag(s))
      BY <2>1 DEF LinkFlow, LatestInv
    <3> QED
      BY <3>1 DEF Delivers
  <2>4. PICK c0 \in DOMAIN program : \E q \in SendSteps(program[c0], s, r) :
          Tag(r) = TagOf(program, c0, s, q) /\ Put(s, c0, q)
    BY <2>1 DEF LinkFlow, CausedInv, Delivers
  <2>5. PICK q0 \in SendSteps(program[c0], s, r) : Tag(r) = TagOf(program, c0, s, q0) /\ Put(s, c0, q0)
    BY <2>4
  <2>6. ASSUME NEW c \in DOMAIN program, NEW q, NEW i, Partners(s, r, c, q, i)
        PROVE  PartnerInv(s, r, c, q, i)'
    <3>1. PartnerInv(s, r, c, q, i)
      BY <2>1, <2>6 DEF LinkFlow
    <3>2. /\ q \in SendSteps(program[c], s, r) /\ i \in RecvSteps(program[c], s, r)
          /\ TagOf(program, c, s, q) = TagOf(program, c, r, i)
      BY <2>6 DEF Partners
    <3>3. TagOf(program, c, s, q) = Tag(r) => c = n /\ i = p
      <4>1. ASSUME TagOf(program, c, s, q) = Tag(r)
            PROVE  TagOf(program, c, r, i) = TagOf(program, n, r, p)
        BY <1>1, <3>2, <4>1
      <4>2. program \in Seq(AnyCall) /\ n \in DOMAIN program /\ p \in RecvSteps(program[n], s, r)
        BY <1>1, ProgramType
      <4> HIDE DEF n, p
      <4>3. TagOf(program, c, r, i) = TagOf(program, n, r, p) => c = n /\ i = p
        BY <3>2, <4>2, AwaitedOnce
      <4> QED
        BY <4>1, <4>3
    <3>4. c = n /\ i = p => TagOf(program, c, s, q) = Tag(r) /\ Put(s, c, q)
      <4>1. ASSUME c = n, i = p
            PROVE  TagOf(program, c, s, q) = Tag(r)
        BY <1>1, <3>2, <4>1
      <4>2. ASSUME TagOf(program, c, s, q) = Tag(r)
            PROVE  c = c0 /\ q = q0
        BY <1>1, <2>5, <3>2, <4>2, ProgramType, SentOnce
      <4> QED
        BY <2>5, <4>1, <4>2
    <3>5. Sent(s, c, q)' /\ ~Taken(r, c, i)' => Carries(s, r, TagOf(program, c, s, q))'
      <4> SUFFICES ASSUME Sent(s, c, q)', ~Taken(r, c, i)'
                   PROVE  \A t : t = TagOf(program, c, s, q) => Carries(s, r, t)'
        BY DEF Carries, TagOf
      <4>1. Sent(s, c, q) /\ ~Taken(r, c, i) /\ ~(c = n /\ i = p)
        BY <1>2, <1>5, <1>6 DEF Sent
      <4>2. Carries(s, r, TagOf(program, c, s, q))
        BY <3>1, <4>1 DEF PartnerInv
      <4> QED
        BY <3>3, <4>1, <4>2 DEF Delivers
    <3>6. Got(r, c, i)' => Got(r, c, i) \/ (c = n /\ i = p)
      BY <1>2, <1>5 DEF Got
    <3>7. Got(r, c, i)' => Put(s, c, q)'
      BY <1>6, <3>1, <3>4, <3>6 DEF PartnerInv
    <3>8. ASSUME Got(r, c, i)', c = CallOf(s), q = pos[s]
          PROVE  unread'[<<s, r>>] = <<>>
      <4>1. CASE Got(r, c, i)
        BY <3>1, <3>8, <4>1 DEF PartnerInv, Delivers
      <4>2. CASE c = n /\ i = p
        <5>1. TagOf(program, c, s, q) = Tag(r) /\ Put(s, c, q)
          BY <3>4, <4>2
        <5>2. CallOf(s) \in Nat /\ pos[s] \in Nat /\ put[s]
          BY <1>1, <3>8, <5>1, CallNumber DEF Put
        <5>3. pos[s] > 0
          BY <1>1, <5>2 DEF FlowInv, PutInv
        <5>4. r \in Step(s).to /\ Tag(s) = Tag(r)
          BY <1>1, <3>2, <3>8, <5>1, <5>3, CurrentStep DEF SendSteps
        <5>5. EndsWith(unread[<<s, r>>], Tag(r))
          BY <2>1, <5>2, <5>4 DEF LinkFlow, LatestInv
        <5> QED
          BY <5>5 DEF Delivers
      <4> QED
        BY <3>6, <3>8, <4>1, <4>2
    <3>9. Got(r, c, i)' /\ c = CallOf(s)' /\ q = pos'[s] => unread'[<<s, r>>] = <<>>
      BY <1>2, <3>8
    <3> QED
      BY <3>5, <3>7, <3>9 DEF PartnerInv
  <2>7. \A c \in DOMAIN program' : \A q, i : Partners(s, r, c, q, i)' => PartnerInv(s, r, c, q, i)'
    BY <2>6 DEF Partners
  <2> QED
    BY <2>2, <2>3, <2>7 DEF LinkFlow, Delivers
<1> QED
  BY <1>4, <1>9, <1>10 DEF FlowInv

LEMMA TakePendingFlow ==
  ASSUME CallsInv, FlowInv, NEW r \in Ranks, TakePending(r)
  PROVE  FlowInv'
<1>1. /\ pos[r] > 0 /\ incoming[r] = {} /\ program' = program /\ room' = room /\ next' = next
      /\ pos' = pos /\ put' = put /\ results' = results /\ unread' = unread
  BY DEF TakePending, Receiving, setup
<1>2. PICK s \in Step(r).from : \E f \in pending[<<s, r>>] :
        /\ f.tag = Tag(r)
        /\ pending' = [pending EXCEPT ![<<s, r>>] = @ \ {f}]
        /\ incoming' = [incoming EXCEPT ![r] = {f}]
  BY DEF TakePending
<1> DEFINE l == <<s, r>>
<1>3. PICK f \in pending[l] :
        /\ f.tag = Tag(r)
        /\ pending' = [pending EXCEPT ![l] = @ \ {f}]
        /\ incoming' = [incoming EXCEPT ![r] = {f}]
  BY <1>2
<1>4. s \in Ranks \ {r}
  BY <1>1, CurrentStep
<1>5. l \in Links /\ pending'[l] = pending[l] \ {f}
      /\ \A m \in Links : m # l => unread'[m] = unread[m] /\ pending'[m] = pending[m]
  BY <1>1, <1>3, <1>4 DEF Links, CallsInv, Domains
<1>6. unread[l] \in Seq(SentOn(program, l)) /\ Distinct(unread[l], pending[l])
  BY <1>4, <1>5 DEF CallsInv, LinkInv, FlowInv, LinkFlow
<1>7. Delivers(s, r, f.tag)
  <2>1. unread'[l] = unread[l]
    BY <1>1
  <2>2. /\ \A t : HasTag(unread[l], pending[l], t) /\ t # f.tag => HasTag(unread[l], pending[l] \ {f}, t)
        /\ \A t : HasTag(unread[l], pending[l] \ {f}, t) => HasTag(unread[l], pending[l], t)
        /\ HasTag(unread[l], pending[l], f.tag)
        /\ Distinct(unread[l], pending[l] \ {f})
        /\ EndsWith(unread[l], f.tag) => unread[l] = <<>>
    <3> HIDE DEF l
    <3> QED
      BY <1>3, <1>6, AsideLink
  <2> QED
    BY <1>5, <2>1, <2>2 DEF Delivers, Carries
<1> QED
  BY <1>1, <1>3, <1>5, <1>7, TakeFlow

LEMMA ReadFlow ==
  ASSUME CallsInv, FlowInv, NEW r \in Ranks, Read(r)
  PROVE  FlowInv'
<1>1. /\ pos[r] > 0 /\ incoming[r] = {} /\ program' = program /\ room' = room /\ next' = next
      /\ pos' = pos /\ put' = put /\ results' = results
  BY DEF Read, Receiving, setup
<1>2. PICK s \in Step(r).from :
        /\ unread[<<s, r>>] # <<>>
        /\ unread' = [unread EXCEPT ![<<s, r>>] = Tail(@)]
        /\ LET f == Head(unread[<<s, r>>])
           IN IF f.tag = Tag(r)
                THEN incoming' = [incoming EXCEPT ![r] = {f}] /\ UNCHANGED pending
                ELSE pending' = [pending EXCEPT ![<<s, r>>] = @ \union {f}] /\ UNCHANGED incoming
  BY DEF Read
<1> DEFINE l == <<s, r>>
           u == unread[l]
           f == Head(u)
<1>3. s \in Ranks \ {r}
  BY <1>1, CurrentStep
<1>4. l \in Links /\ unread'[l] = Tail(u) /\ u # <<>>
      /\ \A m \in Links : m # l => unread'[m] = unread[m]
  BY <1>2, <1>3 DEF Links, CallsInv, Domains
<1>5. u \in Seq(SentOn(program, l)) /\ Distinct(u, pending[l])
  BY <1>3, <1>4 DEF CallsInv, LinkInv, FlowInv, LinkFlow
<1>6. /\ \A t : HasTag(u, pending[l], t) <=> HasTag(Tail(u), pending[l], t) \/ t = f.tag
      /\ Distinct(Tail(u), pending[l])
      /\ Distinct(Tail(u), pending[l] \union {f})
      /\ \A t : HasTag(Tail(u), pending[l] \union {f}, t) <=> HasTag(u, pending[l], t)
      /\ \A t : EndsWith(u, t) => EndsWith(Tail(u), t)
      /\ EndsWith(u, f.tag) => Tail(u) = <<>>
  <2> HIDE DEF l, u
  <2> QED
    BY <1>4, <1>5, TailLink
<1>7. CASE f.tag = Tag(r)
  <2>1. incoming' = [incoming EXCEPT ![r] = {f}] /\ pending' = pending
    BY <1>2, <1>7
  <2> HIDE DEF f
  <2>2. Delivers(s, r, f.tag)
    BY <1>4, <1>6, <2>1 DEF Delivers, Carries
  <2> QED
    BY <1>1, <1>4, <1>7, <2>1, <2>2, TakeFlow
<1>8. CASE f.tag # Tag(r)
  <2>1. pending' = [pending EXCEPT ![l] = @ \union {f}] /\ incoming' = incoming
    BY <1>2, <1>8
  <2> HIDE DEF f
  <2>2. pending'[l] = pending[l] \union {f} /\ \A m \in Links : m # l => pending'[m] = pending[m]
    BY <1>4, <2>1 DEF CallsInv, Domains
  <2>3. LinkKept(s, r)
    BY <1>4, <1>6, <2>2 DEF LinkKept, Carries
  <2>4. ASSUME NEW o \in Ranks, NEW e \in Ranks, o # e
        PROVE  LinkKept(o, e)
    <3>1. CASE o = s /\ e = r
      BY <2>3, <3>1
    <3>2. CASE ~(o = s /\ e = r)
      <4>1. <<o, e>> \in Links /\ <<o, e>> # l
        BY <2>4, <3>2 DEF Links
      <4>2. LinkFlow(o, e)
        BY <2>4 DEF FlowInv
      <4> QED
        BY <1>4, <2>2, <4>1, <4>2, UnchangedKept
    <3> QED
      BY <3>1, <3>2
  <2>5. PutInv'
    BY <1>1 DEF FlowInv, PutInv
  <2>6. OthersStill(r) /\ \A o \in Ranks : SenderMoves(r, o) /\ ReceiverMoves(o, r)
    BY <1>1, <2>1, StillMoves DEF OthersStill
  <2> QED
    BY <1>1, <2>4, <2>5, <2>6, QuietKeeps
<1> QED
  BY <1>7, <1>8

(* A send that gives up takes back the last frame, which is its own. *)
LEMMA SendFailsFlow ==
  ASSUME CallsInv, FlowInv, NEW r \in Ranks, SendFails(r)
  PROVE  FlowInv'
<1> DEFINE n == CallOf(r)
<1>1. /\ pos[r] > 0 /\ put[r] /\ ~SendReturned(r) /\ Return(r, FALSE, <<>>)
      /\ program' = program /\ room' = room /\ next' = next /\ pending' = pending /\ PutInv
  BY DEF SendFails, setup, FlowInv
<1>2. PICK d \in Step(r).to : unread' = [unread EXCEPT ![<<r, d>>] = SubSeq(@, 1, Len(@) - 1)]
  BY DEF SendFails
<1> DEFINE l == <<r, d>>
           u == unread[l]
           v == SubSeq(u, 1, Len(u) - 1)
<1>3. /\ d \in Ranks \ {r} /\ Step(r).to = {d} /\ n \in DOMAIN program
      /\ Tag(r) = TagOf(program, n, r, pos[r])
  BY <1>1, CurrentStep
<1>4. l \in Links /\ unread'[l] = v /\ pending'[l] = pending[l]
      /\ \A m \in Links : m # l => unread'[m] = unread[m]
  BY <1>1, <1>2, <1>3 DEF Links, CallsInv, Domains
<1>5. LinkFlow(r, d) /\ u \in Seq(SentOn(program, l))
  BY <1>3, <1>4 DEF FlowInv, CallsInv, LinkInv
<1>6. u # <<>>
  <2>1. ~(Len(u) <= room) /\ room \in Nat
    BY <1>1, <1>3 DEF SendReturned, PutInv
  <2> QED
    BY <2>1
<1>7. u[Len(u)].tag = Tag(r)
  BY <1>1, <1>5, <1>6 DEF LinkFlow, LatestInv, EndsWith
<1>8. /\ \A t : HasTag(v, pending[l], t) => HasTag(u, pending[l], t)
      /\ \A t : HasTag(u, pending[l], t) /\ t # Tag(r) => HasTag(v, pending[l], t)
      /\ Distinct(v, pending[l])
  <2>1. Distinct(u, pending[l])
    BY <1>5 DEF LinkFlow
  <2> HIDE DEF l, u
  <2> QED
    BY <1>5, <1>6, <1>7, <2>1, FrontLink
<1>9. /\ \A t : Carries(r, d, t)' => Carries(r, d, t)
      /\ \A t : Carries(r, d, t) /\ t # Tag(r) => Carries(r, d, t)'
      /\ Distinct(unread'[l], pending'[l])
  BY <1>4, <1>8 DEF Carries
<1> HIDE DEF u, v
<1>10. PutInv'
  BY <1>1, ReturnPutInv
<1>11. /\ pos'[r] = 0 /\ put'[r] = FALSE /\ \A c : c = n => Failed(r, c)'
       /\ \A q \in Ranks \ {r} : /\ results'[q] = results[q] /\ pos'[q] = pos[q]
                                 /\ put'[q] = put[q] /\ incoming'[q] = incoming[q]
  BY <1>1, ReturnFacts
<1>12. ASSUME NEW o \in Ranks, NEW e \in Ranks
       PROVE  SenderMoves(o, e) /\ ReceiverMoves(o, e)
  <2>1. SenderMoves(o, e)
    <3>1. CASE o = r
      BY <1>1, <3>1, FailureMoves
    <3>2. CASE o # r
      BY <1>1, <1>11, <3>2, StillMoves
    <3> QED
      BY <3>1, <3>2
  <2>2. ReceiverMoves(o, e)
    <3>1. CASE e = r
      BY <1>1, <3>1, FailureMoves
    <3>2. CASE e # r
      BY <1>1, <1>11, <3>2, StillMoves
    <3> QED
      BY <3>1, <3>2
  <2> QED
    BY <2>1, <2>2
<1>13. ASSUME NEW o \in Ranks, NEW e \in Ranks, o # e, <<o, e>> # <<r, d>>
       PROVE  LinkFlow(o, e)'
  <2>1. <<o, e>> \in Links /\ unread'[<<o, e>>] = unread[<<o, e>>] /\ pending'[<<o, e>>] = pending[<<o, e>>]
    BY <1>1, <1>4, <1>13 DEF Links
  <2> QED
    BY <1>1, <1>12, <1>13, <2>1, OtherLink
<1>14. LinkFlow(r, d)'
  <2>1. SenderMoves(r, d) /\ ReceiverMoves(r, d)
    BY <1>3, <1>12
  <2>2. CausedInv(r, d)'
    <3> SUFFICES ASSUME NEW t, Carries(r, d, t)'
                 PROVE  \E c \in DOMAIN program : \E q \in SendSteps(program[c], r, d) :
                          t = TagOf(program, c, r, q) /\ Put(r, c, q)'
      BY <1>1 DEF CausedInv
    <3>1. PICK c \in DOMAIN program : \E q \in SendSteps(program[c], r, d) :
            t = TagOf(program, c, r, q) /\ Put(r, c, q)
      BY <1>5, <1>9 DEF LinkFlow, CausedInv
    <3> QED
      BY <2>1, <3>1 DEF SenderMoves
  <2>3. LatestInv(r, d)'
    BY <1>11 DEF LatestInv
  <2>4. ASSUME NEW c \in DOMAIN program, NEW q, NEW i, Partners(r, d, c, q, i)
        PROVE  PartnerInv(r, d, c, q, i)'
    <3>1. PartnerInv(r, d, c, q, i)
      BY <1>5, <2>4 DEF LinkFlow
    <3>2. q \in SendSteps(program[c], r, d) /\ i \in RecvSteps(program[c], r, d) /\ q # 0
      BY <1>3, <2>4, StepsAreNumbers DEF Partners
    <3>3. /\ Put(r, c, q) => Put(r, c, q)'
          /\ Sent(r, c, q)' => Sent(r, c, q)
          /\ Taken(d, c, i) => Taken(d, c, i)'
          /\ Got(d, c, i)' => Got(d, c, i)
      BY <2>1, <3>2 DEF SenderMoves, ReceiverMoves
    <3>4. Sent(r, c, q)' /\ ~Taken(d, c, i)' => Carries(r, d, TagOf(program, c, r, q))'
      <4> SUFFICES ASSUME Sent(r, c, q)', ~Taken(d, c, i)'
                   PROVE  \A t : t = TagOf(program, c, r, q) => Carries(r, d, t)'
        BY <1>1 DEF Carries, TagOf
      <4>1. Carries(r, d, TagOf(program, c, r, q))
        BY <3>1, <3>3 DEF PartnerInv
      <4>2. c # n
        BY <1>11 DEF Sent
      <4>3. c - 1 # n - 1
        BY <1>3, <4>2, ProgramType
      <4>4. TagOf(program, c, r, q) # Tag(r)
        BY <1>3, <4>3 DEF TagOf
      <4> QED
        BY <1>9, <4>1, <4>4
    <3> QED
      BY <1>11, <3>1, <3>2, <3>3, <3>4 DEF PartnerInv
  <2>5. \A c \in DOMAIN program' : \A q, i : Partners(r, d, c, q, i)' => PartnerInv(r, d, c, q, i)'
    BY <1>1, <2>4 DEF Partners
  <2> QED
    BY <1>9, <2>2, <2>3, <2>5 DEF LinkFlow
<1> QED
  BY <1>10, <1>13, <1>14 DEF FlowInv

LEMMA NextFlow ==
  ASSUME CallsInv, FlowInv, [Next]_vars
  PROVE  FlowInv'
<1>1. ASSUME NEW r \in Ranks, Begin(r) PROVE FlowInv'
  BY <1>1, BeginFlow
<1>2. ASSUME NEW r \in Ranks, Send(r) PROVE FlowInv'
  BY <1>2, SendFlow
<1>3. ASSUME NEW r \in Ranks, TakePending(r) PROVE FlowInv'
  BY <1>3, TakePendingFlow
<1>4. ASSUME NEW r \in Ranks, Read(r) PROVE FlowInv'
  BY <1>4, ReadFlow
<1>5. ASSUME NEW r \in Ranks, Advance(r) PROVE FlowInv'
  BY <1>5, AdvanceFlow
<1>6. ASSUME NEW r \in Ranks, End(r) PROVE FlowInv'
  BY <1>6, StillFlow DEF End, setup
<1>7. CASE Join
  BY <1>7, StillFlow DEF Join, setup
<1>8. ASSUME NEW r \in Ranks, TimeOut(r) PROVE FlowInv'
  BY <1>8, TimeOutFlow
<1>9. ASSUME NEW r \in Ranks, SendFails(r) PROVE FlowInv'
  BY <1>9, SendFailsFlow
<1>10. CASE UNCHANGED vars
  BY <1>10, StillFlow DEF vars, setup
<1> QED
  BY <1>1, <1>2, <1>3, <1>4, <1>5, <1>6, <1>7, <1>8, <1>9, <1>10
     DEF Next, AnyProgress, Progress

-----------------------------------------------------------------------------
(* If everyone who goes on were blocked, nobody who is in the slowest call *)
(* could be in the step that comes first.                                  *)

LEMMA NobodyStuck ==
  ASSUME CallsInv, FlowInv
  PROVE  NeverStuck
<1> SUFFICES ASSUME NEW c \in DOMAIN program, Slowest(c),
                    \A r \in Ranks : ~ended[r] \/ CallOf(r) > Len(program),
                    \A r \in Ranks, d \in DOMAIN program : d >= c => ~Failed(r, d),
                    \A r \in Ranks : ended[r] \/ Blocked(r)
             PROVE  FALSE
  BY DEF NeverStuck
<1> DEFINE k == program[c]
           slow == {r \in Ranks : CallOf(r) = c}
           T == {Time(k, r, pos[r]) : r \in slow}
<1>1. c \in Nat \ {0} /\ c <= Len(program) /\ k \in AnyCall
  BY ProgramType
<1>2. \A r \in Ranks : ~Failed(r, c)
  BY <1>1
<1>3. slow # {} /\ \A r \in Ranks : CallOf(r) >= c
  BY DEF Slowest
<1>4. ASSUME NEW r \in slow
      PROVE  /\ Blocked(r) /\ pos[r] > 0 /\ pos[r] \in Nat
             /\ Tag(r) = TagOf(program, c, r, pos[r]) /\ Step(r) = Script(k, r)[pos[r]]
             /\ pos[r] \in DOMAIN Script(k, r)
  <2>1. ~(c > Len(program)) /\ Len(program) \in Nat
    BY <1>1, ProgramType
  <2>2. Blocked(r)
    BY <2>1
  <2>3. pos[r] > 0 /\ pos[r] \in Nat
    BY <2>2, CallNumber DEF Blocked
  <2> QED
    BY <2>2, <2>3, CurrentStep
<1>5. T \subseteq Nat /\ T # {}
  BY <1>1, <1>3, <1>4, TimeOrder
<1>6. PICK x \in T : \A y \in T : x <= y
  <2> HIDE DEF T
  <2> QED
    BY <1>5, LeastNatural
<1>7. PICK r \in slow : \A o \in slow : Time(k, r, pos[r]) <= Time(k, o, pos[o])
  BY <1>6
<1> DEFINE p == pos[r]
<1>8. /\ r \in Ranks /\ CallOf(r) = c /\ Blocked(r) /\ p \in DOMAIN Script(k, r) /\ p \in Nat /\ p > 0
      /\ Tag(r) = TagOf(program, c, r, p) /\ Step(r) = Script(k, r)[p] /\ Matched(k, r, p)
  BY <1>1, <1>4, AllMatched
(* Nobody is before a step that has the same place as this one. *)
<1>9. ASSUME NEW o \in Ranks, NEW q \in DOMAIN Script(k, o), Time(k, o, q) = Time(k, r, p)
      PROVE  CallOf(o) > c \/ (o \in slow /\ q <= pos[o])
  <2>1. CASE CallOf(o) = c
    <3>1. o \in slow /\ pos[o] \in DOMAIN Script(k, o) /\ Time(k, o, q) <= Time(k, o, pos[o])
      BY <1>4, <1>7, <1>9, <2>1
    <3> HIDE DEF k
    <3> QED
      BY <1>1, <3>1, TimeOrder
  <2>2. CASE CallOf(o) # c
    BY <1>1, <1>3, <2>2, CallNumber
  <2> QED
    BY <2>1, <2>2
<1> HIDE DEF k
<1>10. CASE Receiving(r) /\ NothingCame(r)
  <2>1. PICK s \in Script(k, r)[p].from : TRUE
    BY <1>8, <1>10 DEF Receiving
  <2>2. PICK q \in DOMAIN Script(k, s) : Meet(k, r, p, s, q)
    BY <1>8, <2>1 DEF Matched, RecvMatched
  <2>3. s \in Ranks \ {r} /\ Time(k, r, p) = LinkTime(k, s, r, Script(k, r)[p].tag)
    BY <1>8, <2>1 DEF Matched, RecvMatched
  <2>4. r \in Script(k, s)[q].to /\ Script(k, s)[q].tag = Script(k, r)[p].tag
    BY <2>2 DEF Meet
  <2>5. Matched(k, s, q)
    BY <1>1, <2>3, AllMatched
  <2>6. Time(k, s, q) = Time(k, r, p)
    BY <2>3, <2>4, <2>5 DEF Matched, SendMatched
  <2>7. Put(s, c, q)
    <3>1. CASE CallOf(s) > c
      BY <1>1, <2>3, <3>1, CallNumber DEF Put
    <3>2. CASE s \in slow /\ q < pos[s]
      BY <3>2 DEF Put
    <3>3. CASE s \in slow /\ q = pos[s]
      <4>1. Step(s).to # {} /\ Blocked(s)
        BY <1>4, <2>4, <3>3 DEF k
      <4> QED
        BY <3>3, <4>1 DEF Blocked, Put
    <3>4. q \in Nat
      BY <1>1, <2>3, StepNumbers
    <3> QED
      BY <1>4, <1>9, <2>3, <2>6, <3>1, <3>2, <3>3, <3>4
  <2>8. Sent(s, c, q)
    BY <1>2, <2>3, <2>7 DEF Sent
  <2>9. ~Taken(r, c, p)
    BY <1>1, <1>8, <1>10 DEF Taken, Receiving
  <2>10. TagOf(program, c, s, q) = Tag(r)
    BY <1>8, <2>4 DEF TagOf, k
  <2>11. Partners(s, r, c, q, p)
    BY <1>8, <2>1, <2>2, <2>4, <2>10 DEF Partners, SendSteps, RecvSteps, k
  <2>12. Carries(s, r, Tag(r))
    BY <1>8, <2>3, <2>8, <2>9, <2>10, <2>11 DEF FlowInv, LinkFlow, PartnerInv
  <2>13. unread[<<s, r>>] = <<>> /\ \A f \in pending[<<s, r>>] : f.tag # Tag(r)
    BY <1>8, <1>10, <2>1 DEF NothingCame
  <2> QED
    BY <2>12, <2>13 DEF Carries, HasTag
<1>11. CASE ~Receiving(r) /\ ~SendReturned(r)
  <2>1. PICK d \in Script(k, r)[p].to : ~(put[r] /\ Len(unread[<<r, d>>]) <= room)
    BY <1>8, <1>11 DEF SendReturned
  <2>2. PICK i \in DOMAIN Script(k, d) : Meet(k, d, i, r, p)
    BY <1>8, <2>1 DEF Matched, SendMatched
  <2>3. d \in Ranks \ {r} /\ Time(k, r, p) = LinkTime(k, r, d, Script(k, r)[p].tag)
    BY <1>8, <2>1 DEF Matched, SendMatched
  <2>4. r \in Script(k, d)[i].from /\ Script(k, d)[i].tag = Script(k, r)[p].tag
    BY <2>2 DEF Meet
  <2>5. Matched(k, d, i)
    BY <1>1, <2>3, AllMatched
  <2>6. Time(k, d, i) = Time(k, r, p)
    BY <2>3, <2>4, <2>5 DEF Matched, RecvMatched
  <2>7. unread[<<r, d>>] # <<>>
    <3>1. put[r] /\ room \in Nat
      BY <1>8, <2>1 DEF Blocked, FlowInv, PutInv
    <3> QED
      BY <2>1, <3>1
  <2>8. TagOf(program, c, r, p) = TagOf(program, c, d, i)
    BY <2>4 DEF TagOf, k
  <2>9. Partners(r, d, c, p, i)
    BY <1>8, <2>1, <2>2, <2>4, <2>8 DEF Partners, SendSteps, RecvSteps, k
  <2>10. ~Taken(d, c, i)
    <3>1. ~Got(d, c, i)
      BY <1>8, <2>3, <2>7, <2>9 DEF FlowInv, LinkFlow, PartnerInv
    <3> QED
      BY <1>2, <2>3, <3>1 DEF Got
  <2>11. d \in slow /\ i = pos[d] /\ incoming[d] = {}
    <3>1. i \in Nat /\ CallOf(d) \in Nat /\ pos[d] \in Nat
      BY <1>1, <2>3, StepNumbers, CallNumber
    <3>2. ~(CallOf(d) > c)
      BY <1>1, <2>10, <3>1 DEF Taken
    <3>3. d \in slow /\ i <= pos[d]
      BY <1>9, <2>3, <2>6, <3>2
    <3> QED
      BY <2>10, <3>1, <3>3 DEF Taken
  <2>12. Blocked(d) /\ Receiving(d) /\ r \in Step(d).from
    BY <1>4, <2>4, <2>11 DEF Receiving, k
  <2> QED
    BY <2>7, <2>12 DEF Blocked, NothingCame
<1> QED
  BY <1>8, <1>10, <1>11 DEF Blocked

(* Whatever the world size, the program, the room of the links and the     *)
(* flaw: ranks that call the same collectives in the same order do not     *)
(* wait on each other.  Unless a rank has failed the slowest call or a     *)
(* later one, or has gone on after a tensor that was refused for its type, *)
(* some rank that has not ended is not blocked.                            *)
THEOREM CollectivesNeverStuck == Spec => []NeverStuck
<1> DEFINE Inv == SequenceInv /\ (InStep => CallsInv /\ FlowInv)
<1>1. Init => Inv
  BY InitHolds, InitNumbers, InitFlow
<1>2. Inv /\ [Next]_vars => Inv'
  BY NextCalls, NextNumbers, NextFlow
<1>3. Inv => NeverStuck
  BY NobodyStuck DEF NeverStuck
<1> QED
  BY <1>1, <1>2, <1>3, PTL DEF Spec
=============================================================================
