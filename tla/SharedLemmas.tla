---------------------------- MODULE SharedLemmas ----------------------------
(***************************************************************************)
(* What the proofs about several components need: facts about the queue    *)
(* operations of the transports (appending a frame, taking the head,       *)
(* removing the frame at a position), about the prefixes of a text that    *)
(* the KV caches hold, about the numbers that stand for message tags, and  *)
(* that a set of naturals has a least element.                             *)
(***************************************************************************)
EXTENDS Tags, Integers, SequencesExt, SequenceTheorems, WellFoundedInduction, TLAPS

(* A nonempty set of naturals has a least element. *)
LEMMA LeastNatural ==
  ASSUME NEW T, T \subseteq Nat, T # {}
  PROVE  \E x \in T : \A y \in T : x <= y
<1>1. PICK x \in T : \A y \in T : ~(<<y, x>> \in OpToRel(<, Nat))
  BY NatLessThanWellFounded, WFMin
<1>2. \A y \in T : ~(y < x)
  BY <1>1 DEF OpToRel
<1> QED
  BY <1>2

(* Appending puts one element behind the others. *)
LEMMA AppendFacts ==
  ASSUME NEW S, NEW s \in Seq(S), NEW e \in S
  PROVE  /\ Append(s, e) \in Seq(S)
         /\ Len(Append(s, e)) = Len(s) + 1
         /\ \A i \in 1 .. Len(s) : Append(s, e)[i] = s[i]
         /\ Append(s, e)[Len(s) + 1] = e
         /\ ToSet(Append(s, e)) = ToSet(s) \union {e}
<1>1. /\ Append(s, e) \in Seq(S)
      /\ Len(Append(s, e)) = Len(s) + 1
      /\ \A i \in 1 .. Len(s) : Append(s, e)[i] = s[i]
      /\ Append(s, e)[Len(s) + 1] = e
  OBVIOUS
<1>2. ToSet(Append(s, e)) = ToSet(s) \union {e}
  BY <1>1 DEF ToSet
<1> QED BY <1>1, <1>2

(* Taking the head shifts the others. *)
LEMMA TailFacts ==
  ASSUME NEW S, NEW s \in Seq(S), s # <<>>
  PROVE  /\ Head(s) = s[1] /\ Head(s) \in S
         /\ Tail(s) \in Seq(S)
         /\ Len(s) >= 1 /\ Len(Tail(s)) = Len(s) - 1
         /\ \A i \in 1 .. Len(Tail(s)) : Tail(s)[i] = s[i + 1]
         /\ ToSet(s) = ToSet(Tail(s)) \union {s[1]}
<1>1. /\ Head(s) = s[1] /\ Head(s) \in S
      /\ Tail(s) \in Seq(S)
      /\ Len(s) >= 1 /\ Len(Tail(s)) = Len(s) - 1
      /\ \A i \in 1 .. Len(Tail(s)) : Tail(s)[i] = s[i + 1]
  OBVIOUS
<1>2. ToSet(s) \subseteq ToSet(Tail(s)) \union {s[1]}
  <2> SUFFICES ASSUME NEW i \in 1 .. Len(s), s[i] # s[1]
               PROVE  s[i] \in ToSet(Tail(s))
    BY DEF ToSet
  <2> DEFINE t == Tail(s)
             j == i - 1
  <2> HIDE DEF t
  <2>1. j \in 1 .. Len(t) /\ t[j] = s[j + 1]
    BY <1>1 DEF t
  <2>2. DOMAIN t = 1 .. Len(t)
    BY <1>1 DEF t
  <2>3. t[j] \in ToSet(t)
    BY <2>1, <2>2 DEF ToSet
  <2> QED BY <2>1, <2>3 DEF t
<1>3. ToSet(Tail(s)) \union {s[1]} \subseteq ToSet(s)
  BY <1>1 DEF ToSet
<1> QED BY <1>1, <1>2, <1>3

(* Removing position k keeps what is before it and shifts what is behind. *)
LEMMA RemoveAtFacts ==
  ASSUME NEW S, NEW s \in Seq(S), NEW k \in 1 .. Len(s)
  PROVE  /\ RemoveAt(s, k) \in Seq(S)
         /\ Len(RemoveAt(s, k)) = Len(s) - 1
         /\ \A i \in 1 .. Len(s) - 1 : RemoveAt(s, k)[i] = IF i < k THEN s[i] ELSE s[i + 1]
         /\ ToSet(s) = ToSet(RemoveAt(s, k)) \union {s[k]}
<1> DEFINE a == SubSeq(s, 1, k - 1)
           b == SubSeq(s, k + 1, Len(s))
<1>1. /\ a \in Seq(S) /\ Len(a) = k - 1
      /\ \A i \in 1 .. k - 1 : a[i] = s[i]
  OBVIOUS
<1>2. /\ b \in Seq(S) /\ Len(b) = Len(s) - k
      /\ \A i \in 1 .. Len(s) - k : b[i] = s[k + i]
  OBVIOUS
<1> DEFINE t == RemoveAt(s, k)
<1>3. t = a \o b
  BY DEF RemoveAt
<1> HIDE DEF a, b, t
<1>4. /\ t \in Seq(S)
      /\ Len(t) = Len(s) - 1
      /\ \A i \in 1 .. Len(s) - 1 : t[i] = IF i < k THEN s[i] ELSE s[i + 1]
  <2>1. /\ t \in Seq(S) /\ Len(t) = Len(a) + Len(b)
        /\ \A i \in 1 .. Len(a) + Len(b) :
             t[i] = IF i <= Len(a) THEN a[i] ELSE b[i - Len(a)]
    BY <1>1, <1>2, <1>3, ConcatProperties, Zenon
  <2>2. Len(t) = Len(s) - 1
    BY <1>1, <1>2, <2>1
  <2>3. ASSUME NEW i \in 1 .. Len(s) - 1
        PROVE  t[i] = IF i < k THEN s[i] ELSE s[i + 1]
    <3>0. Len(s) \in Nat /\ i \in 1 .. Len(a) + Len(b)
      BY <1>1, <1>2
    <3>3. t[i] = IF i <= k - 1 THEN a[i] ELSE b[i - (k - 1)]
      BY <1>1, <2>1, <3>0
    <3>1. CASE i < k
      <4>1. i \in 1 .. k - 1
        BY <3>0, <3>1
      <4> QED BY <1>1, <3>3, <3>1, <4>1
    <3>2. CASE i >= k
      <4>1. t[i] = b[i - (k - 1)]
        BY <3>3, <3>2
      <4>2. b[i - (k - 1)] = s[k + (i - (k - 1))]
        BY <1>2, <3>2
      <4> QED BY <3>2, <4>1, <4>2
    <3> QED BY <3>1, <3>2
  <2> QED BY <2>1, <2>2, <2>3
<1>5. ToSet(s) \subseteq ToSet(t) \union {s[k]}
  <2> SUFFICES ASSUME NEW i \in 1 .. Len(s), i # k PROVE s[i] \in ToSet(t)
    BY DEF ToSet
  <2> DEFINE j == IF i < k THEN i ELSE i - 1
  <2>1. j \in 1 .. Len(t) /\ t[j] = s[i]
    BY <1>4
  <2>2. DOMAIN t = 1 .. Len(t)
    BY <1>4
  <2> HIDE DEF j
  <2> QED BY <2>1, <2>2 DEF ToSet
<1>6. ToSet(t) \union {s[k]} \subseteq ToSet(s)
  <2>1. \A i \in DOMAIN t : \E j \in DOMAIN s : t[i] = s[j]
    <3> TAKE i \in DOMAIN t
    <3>1. i \in 1 .. Len(s) - 1
      BY <1>4
    <3>2. CASE i < k
      BY <1>4, <3>1, <3>2
    <3>3. CASE i >= k
      <4>1. i + 1 \in DOMAIN s /\ t[i] = s[i + 1]
        BY <1>4, <3>1, <3>3
      <4> QED BY <4>1
    <3> QED BY <3>1, <3>2, <3>3
  <2> QED BY <2>1 DEF ToSet
<1> QED BY <1>4, <1>5, <1>6 DEF t

-----------------------------------------------------------------------------
(* Texts: a prompt p and the generated tokens g. *)

(* What follows a prefix does not change it. *)
LEMMA PrefixKept ==
  ASSUME NEW S, NEW p \in Seq(S), NEW g \in Seq(S), NEW h \in Seq(S),
         NEW k \in 0 .. Len(p) + Len(g)
  PROVE  SubSeq(p \o (g \o h), 1, k) = SubSeq(p \o g, 1, k)
<1> DEFINE x == SubSeq(p \o (g \o h), 1, k)
           y == SubSeq(p \o g, 1, k)
<1>1. /\ g \o h \in Seq(S) /\ p \o g \in Seq(S) /\ p \o (g \o h) \in Seq(S)
      /\ Len(p \o g) = Len(p) + Len(g)
      /\ Len(p \o (g \o h)) = Len(p) + Len(g) + Len(h)
      /\ Len(p) \in Nat /\ Len(g) \in Nat /\ Len(h) \in Nat
  OBVIOUS
<1>2. x \in Seq(S) /\ Len(x) = k /\ \A i \in 1 .. k : x[i] = (p \o (g \o h))[i]
  <2> DEFINE w == p \o (g \o h)
  <2>1. w \in Seq(S) /\ Len(w) \in Nat /\ k <= Len(w) /\ k \in Nat
    BY <1>1
  <2> HIDE DEF w
  <2>2. /\ SubSeq(w, 1, k) \in Seq(S) /\ Len(SubSeq(w, 1, k)) = k
        /\ \A i \in 1 .. k : SubSeq(w, 1, k)[i] = w[i]
    BY <2>1
  <2> QED
    BY <2>2 DEF w
<1>3. y \in Seq(S) /\ Len(y) = k /\ \A i \in 1 .. k : y[i] = (p \o g)[i]
  <2> DEFINE w == p \o g
  <2>1. w \in Seq(S) /\ Len(w) \in Nat /\ k <= Len(w) /\ k \in Nat
    BY <1>1
  <2> HIDE DEF w
  <2>2. /\ SubSeq(w, 1, k) \in Seq(S) /\ Len(SubSeq(w, 1, k)) = k
        /\ \A i \in 1 .. k : SubSeq(w, 1, k)[i] = w[i]
    BY <2>1
  <2> QED
    BY <2>2 DEF w
<1>4. ASSUME NEW i \in 1 .. k
      PROVE  (p \o (g \o h))[i] = (p \o g)[i]
  BY <1>1
<1> HIDE DEF x, y
<1>5. x = y
  BY <1>2, <1>3, <1>4, SeqEqual
<1> QED
  BY <1>5 DEF x, y

(* A text of p and g that is cached up to the s-th token of g is continued *)
(* by feeding that token; feeding p starts it.                             *)
LEMMA FeedOne ==
  ASSUME NEW S, NEW p \in Seq(S), NEW g \in Seq(S), NEW s \in 1 .. Len(g)
  PROVE  SubSeq(p \o g, 1, Len(p) + s - 1) \o <<g[s]>> = SubSeq(p \o g, 1, Len(p) + s)
<1> DEFINE w == p \o g
           n == Len(p) + s
<1>1. /\ w \in Seq(S) /\ Len(w) = Len(p) + Len(g) /\ n \in 1 .. Len(w) /\ n \in Nat
      /\ g[s] \in S /\ w[n] = g[s]
  OBVIOUS
<1>2. w[n] \in S
  BY <1>1
<1> HIDE DEF w, n
<1> DEFINE x == SubSeq(w, 1, n - 1) \o <<w[n]>>
           y == SubSeq(w, 1, n)
<1>3. /\ SubSeq(w, 1, n - 1) \in Seq(S) /\ Len(SubSeq(w, 1, n - 1)) = n - 1
      /\ \A i \in 1 .. n - 1 : SubSeq(w, 1, n - 1)[i] = w[i]
  BY <1>1
<1>4. x \in Seq(S) /\ Len(x) = n /\ x[n] = w[n] /\ \A i \in 1 .. n - 1 : x[i] = w[i]
  <2> DEFINE v == SubSeq(w, 1, n - 1)
             e == w[n]
  <2>1. v \in Seq(S) /\ Len(v) = n - 1 /\ e \in S /\ n \in Nat \ {0} /\ \A i \in 1 .. n - 1 : v[i] = w[i]
    BY <1>1, <1>2, <1>3
  <2> HIDE DEF v, e
  <2>2. /\ v \o <<e>> \in Seq(S) /\ Len(v \o <<e>>) = n /\ (v \o <<e>>)[n] = e
        /\ \A i \in 1 .. n - 1 : (v \o <<e>>)[i] = w[i]
    BY <2>1
  <2> QED
    BY <2>2 DEF v, e
<1>5. y \in Seq(S) /\ Len(y) = n /\ \A i \in 1 .. n : y[i] = w[i]
  BY <1>1
<1> HIDE DEF x, y
<1>6. \A i \in 1 .. n : x[i] = y[i]
  BY <1>1, <1>4, <1>5
<1>7. x = y
  BY <1>4, <1>5, <1>6, SeqEqual
<1>8. SubSeq(w, 1, n - 1) \o <<g[s]>> = SubSeq(w, 1, n)
  BY <1>1, <1>7 DEF x, y
<1> QED
  BY <1>8 DEF w, n

(* The prefixes at the ends. *)
LEMMA WholePrefix ==
  ASSUME NEW S, NEW p \in Seq(S), NEW g \in Seq(S)
  PROVE  /\ SubSeq(p \o g, 1, Len(p) + Len(g)) = p \o g
         /\ SubSeq(p \o g, 1, Len(p)) = p
         /\ SubSeq(p \o g, 1, 0) = <<>>
<1> DEFINE w == p \o g
<1>1. /\ w \in Seq(S) /\ Len(w) = Len(p) + Len(g) /\ Len(p) \in Nat /\ Len(g) \in Nat
      /\ \A i \in 1 .. Len(p) : w[i] = p[i]
  OBVIOUS
<1> HIDE DEF w
<1>2. /\ SubSeq(w, 1, Len(w)) \in Seq(S) /\ Len(SubSeq(w, 1, Len(w))) = Len(w)
      /\ \A i \in 1 .. Len(w) : SubSeq(w, 1, Len(w))[i] = w[i]
  BY <1>1
<1>3. SubSeq(w, 1, Len(w)) = w
  BY <1>1, <1>2, SeqEqual
<1>4. /\ SubSeq(w, 1, Len(p)) \in Seq(S) /\ Len(SubSeq(w, 1, Len(p))) = Len(p)
      /\ \A i \in 1 .. Len(p) : SubSeq(w, 1, Len(p))[i] = p[i]
  BY <1>1
<1>5. SubSeq(w, 1, Len(p)) = p
  BY <1>4, SeqEqual
<1>6. SubSeq(w, 1, 0) = <<>>
  BY <1>1
<1> QED
  BY <1>1, <1>3, <1>5, <1>6 DEF w

(* What follows a prefix: the last token, everything or nothing. *)
LEMMA RestOfText ==
  ASSUME NEW S, NEW p \in Seq(S), NEW g \in Seq(S)
  PROVE  /\ Len(g) # 0 => SubSeq(p \o g, Len(p) + Len(g), Len(p) + Len(g)) = <<g[Len(g)]>>
         /\ Len(g) = 0 => SubSeq(p \o g, 1, Len(p) + Len(g)) = p
         /\ SubSeq(p \o g, Len(p) + Len(g) + 1, Len(p) + Len(g)) = <<>>
<1> DEFINE w == p \o g
           n == Len(p) + Len(g)
<1>1. w \in Seq(S) /\ Len(w) = n /\ n \in Nat /\ (Len(g) # 0 => n \in 1 .. n /\ w[n] = g[Len(g)] /\ g[Len(g)] \in S)
  OBVIOUS
<1>2. Len(g) = 0 => SubSeq(p \o g, 1, Len(p) + Len(g)) = p
  BY WholePrefix
<1> HIDE DEF w, n
<1>3. SubSeq(w, n + 1, n) = <<>>
  BY <1>1
<1>4. ASSUME Len(g) # 0
      PROVE  SubSeq(w, n, n) = <<w[n]>>
  <2>1. /\ SubSeq(w, n, n) \in Seq(S) /\ Len(SubSeq(w, n, n)) = 1 /\ SubSeq(w, n, n)[1] = w[n]
    BY <1>1, <1>4
  <2>2. <<w[n]>> \in Seq(S) /\ Len(<<w[n]>>) = 1 /\ <<w[n]>>[1] = w[n]
    BY <1>1, <1>4
  <2> DEFINE x == SubSeq(w, n, n)
             y == <<w[n]>>
  <2>3. x \in Seq(S) /\ y \in Seq(S) /\ Len(x) = 1 /\ Len(y) = 1 /\ x[1] = y[1]
    BY <2>1, <2>2
  <2> HIDE DEF x, y
  <2>4. \A i \in 1 .. Len(x) : x[i] = y[i]
    BY <2>3
  <2>5. x = y
    BY <2>3, <2>4, SeqEqual
  <2> QED
    BY <2>5 DEF x, y
<1> QED
  BY <1>1, <1>2, <1>3, <1>4 DEF w, n

-----------------------------------------------------------------------------
(* Tags. *)

(* A collective message is told from every other one: by its collective,   *)
(* its kind, its phase and its step.  No field of the tag runs over into   *)
(* the next.                                                               *)
THEOREM CollectiveTagsDistinct ==
  ASSUME NEW s1 \in Nat, NEW k1 \in TagKinds, NEW p1 \in TagPhases, NEW t1 \in TagSteps,
         NEW s2 \in Nat, NEW k2 \in TagKinds, NEW p2 \in TagPhases, NEW t2 \in TagSteps,
         collective_tag(s1, k1, p1, t1) = collective_tag(s2, k2, p2, t2)
  PROVE  s1 = s2 /\ k1 = k2 /\ p1 = p2 /\ t1 = t2
<1>1. s1 = s2
  BY DEF collective_tag, TAG_SEQUENCE_STRIDE, COLLECTIVE_TAG_BASE, NamespaceSize, TagKinds, TagPhases, TagSteps
<1>2. k1 = k2
  BY <1>1 DEF collective_tag, TAG_SEQUENCE_STRIDE, COLLECTIVE_TAG_BASE, NamespaceSize, TagKinds, TagPhases, TagSteps
<1>3. p1 = p2
  BY <1>1, <1>2 DEF collective_tag, TAG_SEQUENCE_STRIDE, COLLECTIVE_TAG_BASE, NamespaceSize, TagKinds, TagPhases, TagSteps
<1>4. t1 = t2
  BY <1>1, <1>2, <1>3 DEF collective_tag, TAG_SEQUENCE_STRIDE, COLLECTIVE_TAG_BASE, NamespaceSize, TagKinds, TagPhases, TagSteps
<1> QED
  BY <1>1, <1>2, <1>3, <1>4

LEMMA NamespaceSizeType == NamespaceSize \in Nat /\ NamespaceSize > 0
BY DEF NamespaceSize

(* The tags of different uses never meet: topology check, activations,     *)
(* token feedback, decisions and collectives each have a range of their    *)
(* own, and the steps of one use have tags of their own.                   *)
THEOREM NamespacesDisjoint ==
  ASSUME NEW b1 \in {ACTIVATION_BASE, TOKEN_BASE, DECISION_BASE, COLLECTIVE_TAG_BASE},
         NEW b2 \in {ACTIVATION_BASE, TOKEN_BASE, DECISION_BASE, COLLECTIVE_TAG_BASE}
  PROVE  /\ RING_TAG \notin TagNamespace(b1)
         /\ b1 # b2 => TagNamespace(b1) \intersect TagNamespace(b2) = {}
         /\ \A m, n \in Nat : step_tag(b1, m) = step_tag(b1, n) => m = n
<1>1. b1 \in Nat /\ b2 \in Nat /\ b1 >= NamespaceSize
  BY NamespaceSizeType DEF ACTIVATION_BASE, TOKEN_BASE, DECISION_BASE, COLLECTIVE_TAG_BASE
<1>2. b1 # b2 => b1 + NamespaceSize <= b2 \/ b2 + NamespaceSize <= b1
  BY NamespaceSizeType DEF ACTIVATION_BASE, TOKEN_BASE, DECISION_BASE, COLLECTIVE_TAG_BASE
<1>3. RING_TAG \notin TagNamespace(b1)
  BY <1>1, NamespaceSizeType DEF TagNamespace, RING_TAG
<1>4. ASSUME b1 # b2
      PROVE  TagNamespace(b1) \intersect TagNamespace(b2) = {}
  BY <1>1, <1>2, <1>4, NamespaceSizeType DEF TagNamespace
<1>5. \A m, n \in Nat : step_tag(b1, m) = step_tag(b1, n) => m = n
  BY <1>1 DEF step_tag
<1> QED
  BY <1>3, <1>4, <1>5
=============================================================================
