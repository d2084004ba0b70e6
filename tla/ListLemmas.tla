------------------------------ MODULE ListLemmas ------------------------------
(***************************************************************************)
(* Facts about natural numbers and sequences that the proofs about the     *)
(* generator and the tree share: induction over a set of numbers, and what *)
(* FlattenSeq and ToSet make of a concatenation.                           *)
(***************************************************************************)
EXTENDS Integers, Sequences, SequencesExt, SequenceTheorems, WellFoundedInduction, TLAPS

LEMMA LeastNumber ==
    ASSUME NEW T, T \subseteq Nat, T # {}
    PROVE  \E x \in T : \A y \in T : ~(y < x)
<1> DEFINE R == {ss \in Nat \X Nat : ss[1] < ss[2]}
<1>1. IsWellFoundedOn(R, Nat)
  BY NatLessThanWellFounded DEF OpToRel
<1>2. \A x, y \in Nat : y < x => <<y, x>> \in R
  OBVIOUS
<1> HIDE DEF R
<1>3. \E x \in T : \A y \in T : <<y, x>> \notin R
  BY <1>1, WFMin
<1> QED BY <1>2, <1>3

\* Induction, for a set instead of a predicate.
LEMMA NumberInduction ==
    ASSUME NEW G, 0 \in G, \A n \in Nat : n \in G => n + 1 \in G
    PROVE  \A n \in Nat : n \in G
<1> DEFINE T == {n \in Nat : n \notin G}
<1> SUFFICES ASSUME T # {} PROVE FALSE
  OBVIOUS
<1>1. PICK x \in T : \A y \in T : ~(y < x)
  <2> HIDE DEF T
  <2>1. T \subseteq Nat
    BY DEF T
  <2> QED BY <2>1, LeastNumber
<1>2. x - 1 \in Nat /\ x - 1 < x
  <2> x # 0
    OBVIOUS
  <2> QED OBVIOUS
<1>3. x - 1 \in G
  BY <1>1, <1>2
<1> QED BY <1>2, <1>3

-----------------------------------------------------------------------------
LEMMA ConcatType ==
    ASSUME NEW S, NEW s \in Seq(S), NEW t \in Seq(S)
    PROVE  /\ s \o t \in Seq(S) /\ Len(s \o t) = Len(s) + Len(t)
           /\ \A i \in 1 .. Len(s) : (s \o t)[i] = s[i]
           /\ \A i \in 1 .. Len(t) : (s \o t)[Len(s) + i] = t[i]
OBVIOUS

LEMMA ThreeJoined ==
    ASSUME NEW S, NEW s \in Seq(S), NEW t \in Seq(S), NEW u \in Seq(S)
    PROVE  /\ s \o t \o u \in Seq(S) /\ Len(s \o t \o u) = Len(s) + Len(t) + Len(u)
           /\ \A i \in 1 .. Len(s) : (s \o t \o u)[i] = s[i]
           /\ \A i \in 1 .. Len(t) : (s \o t \o u)[Len(s) + i] = t[i]
           /\ \A i \in 1 .. Len(u) : (s \o t \o u)[Len(s) + Len(t) + i] = u[i]
<1> DEFINE v == s \o t
<1>1. /\ v \in Seq(S) /\ Len(v) = Len(s) + Len(t) /\ Len(s) \in Nat /\ Len(t) \in Nat
      /\ Len(u) \in Nat
      /\ \A i \in 1 .. Len(s) : v[i] = s[i]
      /\ \A i \in 1 .. Len(t) : v[Len(s) + i] = t[i]
  OBVIOUS
<1> HIDE DEF v
<1>2. /\ v \o u \in Seq(S) /\ Len(v \o u) = Len(v) + Len(u)
      /\ \A i \in 1 .. Len(v) : (v \o u)[i] = v[i]
      /\ \A i \in 1 .. Len(u) : (v \o u)[Len(v) + i] = u[i]
  <2>1. v \in Seq(S)
    BY <1>1
  <2> QED BY <2>1, ConcatType
<1>3. ASSUME NEW i \in 1 .. Len(s) PROVE (v \o u)[i] = s[i]
  <2>1. i \in 1 .. Len(v)
    BY <1>1
  <2> QED BY <1>1, <1>2, <2>1
<1>4. ASSUME NEW i \in 1 .. Len(t) PROVE (v \o u)[Len(s) + i] = t[i]
  <2>1. Len(s) + i \in 1 .. Len(v)
    BY <1>1
  <2> QED BY <1>1, <1>2, <2>1
<1> QED BY <1>1, <1>2, <1>3, <1>4 DEF v

\* Two sequences behind fixed elements, by their elements.
Framing(a, b, p, c, q) == <<a, b>> \o p \o <<c>> \o q

FramingParts(id, a, b, p, c, q) ==
    /\ Len(id) = 3 + Len(p) + Len(q)
    /\ id[1] = a /\ id[2] = b /\ id[3 + Len(p)] = c
    /\ \A i \in 1 .. Len(p) : id[2 + i] = p[i]
    /\ \A i \in 1 .. Len(q) : id[3 + Len(p) + i] = q[i]

LEMMA Framed ==
    ASSUME NEW S, NEW a \in S, NEW b \in S, NEW c \in S, NEW p \in Seq(S), NEW q \in Seq(S)
    PROVE  FramingParts(Framing(a, b, p, c, q), a, b, p, c, q)
<1> DEFINE id == Framing(a, b, p, c, q)
<1>0. PICK s, u : s = <<a, b>> /\ u = <<c>>
  OBVIOUS
<1>1. /\ s \in Seq(S) /\ Len(s) = 2 /\ s[1] = a /\ s[2] = b
      /\ u \in Seq(S) /\ Len(u) = 1 /\ u[1] = c
  BY <1>0
<1>2. PICK v : v = s \o p \o u
  OBVIOUS
<1>3. s \in Seq(S) /\ u \in Seq(S)
  BY <1>1
<1>4. /\ v \in Seq(S) /\ Len(v) = Len(s) + Len(p) + Len(u)
      /\ \A i \in 1 .. Len(s) : v[i] = s[i]
      /\ \A i \in 1 .. Len(p) : v[Len(s) + i] = p[i]
      /\ \A i \in 1 .. Len(u) : v[Len(s) + Len(p) + i] = u[i]
  <2>1. s \o p \in Seq(S) /\ Len(s \o p) = Len(s) + Len(p)
        /\ Len(s) \in Nat /\ Len(p) \in Nat /\ Len(u) \in Nat
    BY <1>3
  <2>2. v \in Seq(S) /\ Len(v) = Len(s) + Len(p) + Len(u)
    BY <1>2, <1>3, <2>1
  <2>3. \A i \in 1 .. Len(s) : v[i] = s[i]
    BY <1>2, <1>3, <2>1
  <2>4. \A i \in 1 .. Len(p) : v[Len(s) + i] = p[i]
    BY <1>2, <1>3, <2>1
  <2>5. \A i \in 1 .. Len(u) : v[Len(s) + Len(p) + i] = u[i]
    BY <1>2, <1>3, <2>1
  <2> QED BY <2>2, <2>3, <2>4, <2>5
<1>5. /\ v \in Seq(S) /\ Len(v) = 3 + Len(p) /\ Len(p) \in Nat /\ Len(q) \in Nat
      /\ v[1] = a /\ v[2] = b /\ v[3 + Len(p)] = c
      /\ \A i \in 1 .. Len(p) : v[2 + i] = p[i]
  <2>1. 1 \in 1 .. Len(s) /\ 2 \in 1 .. Len(s) /\ 1 \in 1 .. Len(u)
    BY <1>1
  <2>2. v[1] = a /\ v[2] = b
    BY <1>1, <1>4, <2>1
  <2>3. v[Len(s) + Len(p) + 1] = c
    BY <1>1, <1>4, <2>1
  <2>4. Len(p) \in Nat /\ Len(q) \in Nat
    OBVIOUS
  <2> QED BY <1>1, <1>4, <2>2, <2>3, <2>4
<1>6. id = v \o q
  BY <1>0, <1>2 DEF Framing
<1> HIDE DEF id
<1>7. /\ Len(id) = Len(v) + Len(q)
      /\ \A i \in 1 .. Len(v) : id[i] = v[i]
      /\ \A i \in 1 .. Len(q) : id[Len(v) + i] = q[i]
  <2>1. v \in Seq(S)
    BY <1>5
  <2>2. Len(id) = Len(v) + Len(q)
    BY <1>6, <2>1
  <2>3. \A i \in 1 .. Len(v) : id[i] = v[i]
    BY <1>6, <2>1
  <2>4. \A i \in 1 .. Len(q) : id[Len(v) + i] = q[i]
    BY <1>6, <2>1
  <2> QED BY <2>2, <2>3, <2>4
<1>8. 1 \in 1 .. Len(v) /\ 2 \in 1 .. Len(v) /\ 3 + Len(p) \in 1 .. Len(v)
      /\ \A i \in 1 .. Len(p) : 2 + i \in 1 .. Len(v)
  BY <1>5
<1>9. id[1] = a /\ id[2] = b /\ id[3 + Len(p)] = c
  BY <1>5, <1>7, <1>8
<1>10. \A i \in 1 .. Len(p) : id[2 + i] = p[i]
  BY <1>5, <1>7, <1>8
<1>11. FramingParts(id, a, b, p, c, q)
  BY <1>5, <1>7, <1>9, <1>10 DEF FramingParts
<1> QED BY <1>11 DEF id

\* The others of the kind, and where an element `m` of theirs is if p and q have none.
Places(id, m) == {x \in 1 .. Len(id) : id[x] = m}

LEMMA FramedMarks ==
    ASSUME NEW S, NEW a \in S, NEW m \in S, a # m, NEW p \in Seq(S), NEW q \in Seq(S),
           m \notin ToSet(p), m \notin ToSet(q)
    PROVE  Places(Framing(a, m, p, m, q), m) = {2, 3 + Len(p)}
<1> DEFINE id == Framing(a, m, p, m, q)
<1>1. /\ Len(id) = 3 + Len(p) + Len(q)
      /\ id[1] = a /\ id[2] = m /\ id[3 + Len(p)] = m
      /\ \A i \in 1 .. Len(p) : id[2 + i] = p[i]
      /\ \A i \in 1 .. Len(q) : id[3 + Len(p) + i] = q[i]
  <2>1. FramingParts(id, a, m, p, m, q)
    BY Framed
  <2> QED BY <2>1 DEF FramingParts
<1> HIDE DEF id
<1>2. /\ Len(p) \in Nat /\ Len(q) \in Nat
      /\ \A i \in 1 .. Len(p) : p[i] # m
      /\ \A i \in 1 .. Len(q) : q[i] # m
  BY DEF ToSet
<1>3. ASSUME NEW x \in 1 .. Len(id), id[x] = m PROVE x \in {2, 3 + Len(p)}
  <2>1. CASE x \in 3 .. 2 + Len(p)
    <3>1. x - 2 \in 1 .. Len(p) /\ 2 + (x - 2) = x
      BY <1>2, <2>1
    <3> QED BY <1>1, <1>2, <1>3, <3>1
  <2>2. CASE x > 3 + Len(p)
    <3>1. PICK i : i = x - (3 + Len(p))
      OBVIOUS
    <3>2. i \in 1 .. Len(q) /\ 3 + Len(p) + i = x
      BY <1>1, <1>2, <2>2, <3>1
    <3>3. id[3 + Len(p) + i] = q[i] /\ q[i] # m
      BY <1>1, <1>2, <3>2
    <3>4. id[x] = q[i]
      BY <3>2, <3>3, Zenon
    <3> QED BY <1>3, <3>3, <3>4, Zenon
  <2>3. CASE x = 1
    BY <1>1, <1>3, <2>3
  <2> QED BY <1>2, <2>1, <2>2, <2>3
<1>4. 2 \in 1 .. Len(id) /\ 3 + Len(p) \in 1 .. Len(id)
  BY <1>1, <1>2
<1>9. Places(id, m) = {2, 3 + Len(p)}
  BY <1>1, <1>3, <1>4 DEF Places
<1> QED BY <1>9 DEF id

FramingTwice(a, m, b, p, q) == <<a, m, b, m>> \o p \o <<m>> \o q

FramingTwiceParts(id, a, m, b, p, q) ==
    /\ Len(id) = 5 + Len(p) + Len(q)
    /\ id[1] = a /\ id[2] = m /\ id[3] = b /\ id[4] = m /\ id[5 + Len(p)] = m
    /\ \A i \in 1 .. Len(p) : id[4 + i] = p[i]
    /\ \A i \in 1 .. Len(q) : id[5 + Len(p) + i] = q[i]

LEMMA FramedTwice ==
    ASSUME NEW S, NEW a \in S, NEW b \in S, NEW m \in S, NEW p \in Seq(S), NEW q \in Seq(S)
    PROVE  FramingTwiceParts(FramingTwice(a, m, b, p, q), a, m, b, p, q)
<1> DEFINE id == FramingTwice(a, m, b, p, q)
<1>0. PICK s, u : s = <<a, m, b, m>> /\ u = <<m>>
  OBVIOUS
<1>1. /\ s \in Seq(S) /\ Len(s) = 4 /\ s[1] = a /\ s[2] = m /\ s[3] = b /\ s[4] = m
      /\ u \in Seq(S) /\ Len(u) = 1 /\ u[1] = m
  BY <1>0
<1>2. PICK v : v = s \o p \o u
  OBVIOUS
<1>3. s \in Seq(S) /\ u \in Seq(S)
  BY <1>1
<1>4. /\ v \in Seq(S) /\ Len(v) = Len(s) + Len(p) + Len(u)
      /\ \A i \in 1 .. Len(s) : v[i] = s[i]
      /\ \A i \in 1 .. Len(p) : v[Len(s) + i] = p[i]
      /\ \A i \in 1 .. Len(u) : v[Len(s) + Len(p) + i] = u[i]
  <2>1. s \o p \in Seq(S) /\ Len(s \o p) = Len(s) + Len(p)
        /\ Len(s) \in Nat /\ Len(p) \in Nat /\ Len(u) \in Nat
    BY <1>3
  <2>2. v \in Seq(S) /\ Len(v) = Len(s) + Len(p) + Len(u)
    BY <1>2, <1>3, <2>1
  <2>3. \A i \in 1 .. Len(s) : v[i] = s[i]
    BY <1>2, <1>3, <2>1
  <2>4. \A i \in 1 .. Len(p) : v[Len(s) + i] = p[i]
    BY <1>2, <1>3, <2>1
  <2>5. \A i \in 1 .. Len(u) : v[Len(s) + Len(p) + i] = u[i]
    BY <1>2, <1>3, <2>1
  <2> QED BY <2>2, <2>3, <2>4, <2>5
<1>5. /\ v \in Seq(S) /\ Len(v) = 5 + Len(p) /\ Len(p) \in Nat /\ Len(q) \in Nat
      /\ v[1] = a /\ v[2] = m /\ v[3] = b /\ v[4] = m /\ v[5 + Len(p)] = m
      /\ \A i \in 1 .. Len(p) : v[4 + i] = p[i]
  <2>1. 1 \in 1 .. Len(s) /\ 2 \in 1 .. Len(s) /\ 3 \in 1 .. Len(s) /\ 4 \in 1 .. Len(s)
        /\ 1 \in 1 .. Len(u)
    BY <1>1
  <2>2. v[1] = a /\ v[2] = m /\ v[3] = b /\ v[4] = m
    BY <1>1, <1>4, <2>1
  <2>3. v[Len(s) + Len(p) + 1] = m
    BY <1>1, <1>4, <2>1
  <2>4. Len(p) \in Nat /\ Len(q) \in Nat
    OBVIOUS
  <2> QED BY <1>1, <1>4, <2>2, <2>3, <2>4
<1>6. id = v \o q
  BY <1>0, <1>2 DEF FramingTwice
<1> HIDE DEF id
<1>7. /\ Len(id) = Len(v) + Len(q)
      /\ \A i \in 1 .. Len(v) : id[i] = v[i]
      /\ \A i \in 1 .. Len(q) : id[Len(v) + i] = q[i]
  <2>1. v \in Seq(S)
    BY <1>5
  <2>2. Len(id) = Len(v) + Len(q)
    BY <1>6, <2>1
  <2>3. \A i \in 1 .. Len(v) : id[i] = v[i]
    BY <1>6, <2>1
  <2>4. \A i \in 1 .. Len(q) : id[Len(v) + i] = q[i]
    BY <1>6, <2>1
  <2> QED BY <2>2, <2>3, <2>4
<1>8. /\ 1 \in 1 .. Len(v) /\ 2 \in 1 .. Len(v) /\ 3 \in 1 .. Len(v) /\ 4 \in 1 .. Len(v)
      /\ 5 + Len(p) \in 1 .. Len(v)
      /\ \A i \in 1 .. Len(p) : 4 + i \in 1 .. Len(v)
  BY <1>5
<1>9. id[1] = a /\ id[2] = m /\ id[3] = b /\ id[4] = m /\ id[5 + Len(p)] = m
  BY <1>5, <1>7, <1>8
<1>10. \A i \in 1 .. Len(p) : id[4 + i] = p[i]
  BY <1>5, <1>7, <1>8
<1>11. FramingTwiceParts(id, a, m, b, p, q)
  BY <1>5, <1>7, <1>9, <1>10 DEF FramingTwiceParts
<1> QED BY <1>11 DEF id

LEMMA FramedTwiceMarks ==
    ASSUME NEW S, NEW a \in S, NEW b \in S, NEW m \in S, a # m, b # m,
           NEW p \in Seq(S), NEW q \in Seq(S), m \notin ToSet(p), m \notin ToSet(q)
    PROVE  Places(FramingTwice(a, m, b, p, q), m) = {2, 4, 5 + Len(p)}
<1> DEFINE id == FramingTwice(a, m, b, p, q)
<1>1. /\ Len(id) = 5 + Len(p) + Len(q)
      /\ id[1] = a /\ id[2] = m /\ id[3] = b /\ id[4] = m /\ id[5 + Len(p)] = m
      /\ \A i \in 1 .. Len(p) : id[4 + i] = p[i]
      /\ \A i \in 1 .. Len(q) : id[5 + Len(p) + i] = q[i]
  <2>1. FramingTwiceParts(id, a, m, b, p, q)
    BY FramedTwice
  <2> QED BY <2>1 DEF FramingTwiceParts
<1> HIDE DEF id
<1>2. /\ Len(p) \in Nat /\ Len(q) \in Nat
      /\ \A i \in 1 .. Len(p) : p[i] # m
      /\ \A i \in 1 .. Len(q) : q[i] # m
  BY DEF ToSet
<1>3. ASSUME NEW x \in 1 .. Len(id), id[x] = m PROVE x \in {2, 4, 5 + Len(p)}
  <2>1. CASE x \in 5 .. 4 + Len(p)
    <3>1. PICK i : i = x - 4
      OBVIOUS
    <3>2. i \in 1 .. Len(p) /\ 4 + i = x
      BY <1>2, <2>1, <3>1
    <3>3. id[4 + i] = p[i] /\ p[i] # m
      BY <1>1, <1>2, <3>2
    <3> QED BY <1>3, <3>2, <3>3
  <2>2. CASE x > 5 + Len(p)
    <3>1. PICK i : i = x - (5 + Len(p))
      OBVIOUS
    <3>2. i \in 1 .. Len(q) /\ 5 + Len(p) + i = x
      BY <1>1, <1>2, <2>2, <3>1
    <3>3. id[5 + Len(p) + i] = q[i] /\ q[i] # m
      BY <1>1, <1>2, <3>2
    <3>4. id[x] = q[i]
      BY <3>2, <3>3, Zenon
    <3> QED BY <1>3, <3>3, <3>4, Zenon
  <2>3. x # 1 /\ x # 3
    BY <1>1, <1>3
  <2>4. x \in Nat /\ x > 0
    OBVIOUS
  <2> QED BY <1>2, <2>1, <2>2, <2>3, <2>4
<1>4. 2 \in 1 .. Len(id) /\ 4 \in 1 .. Len(id) /\ 5 + Len(p) \in 1 .. Len(id)
  BY <1>1, <1>2
<1>9. Places(id, m) = {2, 4, 5 + Len(p)}
  BY <1>1, <1>3, <1>4 DEF Places
<1> QED BY <1>9 DEF id

LEMMA Followed ==
    ASSUME NEW S, NEW b \in S, NEW m \in S, NEW p \in Seq(S), NEW id, id = p \o <<m, b>>
    PROVE  /\ Len(id) = 2 + Len(p) /\ id[1 + Len(p)] = m /\ id[2 + Len(p)] = b
           /\ \A i \in 1 .. Len(p) : id[i] = p[i]
<1>1. /\ <<m, b>> \in Seq(S) /\ Len(<<m, b>>) = 2 /\ <<m, b>>[1] = m /\ <<m, b>>[2] = b
  OBVIOUS
<1> SUFFICES ASSUME NEW u \in Seq(S), id = p \o u, Len(u) = 2, u[1] = m, u[2] = b
             PROVE  /\ Len(id) = 2 + Len(p) /\ id[1 + Len(p)] = m /\ id[2 + Len(p)] = b
                    /\ \A i \in 1 .. Len(p) : id[i] = p[i]
  BY <1>1
<1>2. Len(p) \in Nat /\ {1, 2} \subseteq 1 .. Len(u)
  OBVIOUS
<1>3. /\ Len(id) = Len(p) + Len(u)
      /\ \A i \in 1 .. Len(p) : id[i] = p[i]
      /\ \A i \in 1 .. Len(u) : id[Len(p) + i] = u[i]
  BY ConcatType
<1>4. id[Len(p) + 1] = m /\ id[Len(p) + 2] = b
  BY <1>2, <1>3
<1> QED BY <1>2, <1>3, <1>4

LEMMA FollowedMarks ==
    ASSUME NEW S, NEW b \in S, NEW m \in S, b # m, NEW p \in Seq(S), m \notin ToSet(p)
    PROVE  Places(p \o <<m, b>>, m) = {1 + Len(p)}
<1> DEFINE id == p \o <<m, b>>
<1>1. /\ Len(id) = 2 + Len(p) /\ id[1 + Len(p)] = m /\ id[2 + Len(p)] = b
      /\ \A i \in 1 .. Len(p) : id[i] = p[i]
  BY Followed
<1> HIDE DEF id
<1>2. Len(p) \in Nat /\ \A i \in 1 .. Len(p) : p[i] # m
  BY DEF ToSet
<1>3. \A x \in 1 .. Len(id) : x \in 1 .. Len(p) \/ x = 1 + Len(p) \/ x = 2 + Len(p)
  BY <1>1, <1>2
<1>4. 1 + Len(p) \in 1 .. Len(id)
  BY <1>1, <1>2
<1>5. \A x \in 1 .. Len(id) : id[x] = m <=> x = 1 + Len(p)
  BY <1>1, <1>2, <1>3
<1>9. Places(id, m) = {1 + Len(p)}
  BY <1>4, <1>5 DEF Places
<1> QED BY <1>9 DEF id

Ending(a, m, p, b) == <<a, m>> \o p \o <<m, b>>

EndingParts(id, a, m, p, b) ==
    /\ Len(id) = 4 + Len(p) /\ id[1] = a /\ id[2] = m
    /\ id[3 + Len(p)] = m /\ id[4 + Len(p)] = b
    /\ \A i \in 1 .. Len(p) : id[2 + i] = p[i]

LEMMA FramedEnd ==
    ASSUME NEW S, NEW a \in S, NEW m \in S, NEW b \in S, NEW p \in Seq(S)
    PROVE  EndingParts(Ending(a, m, p, b), a, m, p, b)
<1> DEFINE id == Ending(a, m, p, b)
<1>1. PICK s, u : s = <<a, m>> /\ u = <<m, b>>
  OBVIOUS
<1>2. /\ s \in Seq(S) /\ Len(s) = 2 /\ s[1] = a /\ s[2] = m
      /\ u \in Seq(S) /\ Len(u) = 2 /\ u[1] = m /\ u[2] = b
  BY <1>1
<1>3. id = s \o p \o u /\ s \in Seq(S) /\ u \in Seq(S)
  BY <1>1, <1>2 DEF Ending
<1> HIDE DEF id
<1>4. s \o p \in Seq(S) /\ Len(s \o p) = Len(s) + Len(p)
      /\ Len(s) \in Nat /\ Len(p) \in Nat /\ Len(u) \in Nat
  BY <1>3
<1>5. Len(id) = Len(s) + Len(p) + Len(u)
  BY <1>3, <1>4
<1>6. \A i \in 1 .. Len(s) : id[i] = s[i]
  BY <1>3, <1>4
<1>7. \A i \in 1 .. Len(p) : id[Len(s) + i] = p[i]
  BY <1>3, <1>4
<1>8. \A i \in 1 .. Len(u) : id[Len(s) + Len(p) + i] = u[i]
  BY <1>3, <1>4
<1>9. 1 \in 1 .. Len(s) /\ 2 \in 1 .. Len(s) /\ 1 \in 1 .. Len(u) /\ 2 \in 1 .. Len(u)
  BY <1>2
<1>10. id[1] = a /\ id[2] = m
  BY <1>2, <1>6, <1>9
<1>11. id[Len(s) + Len(p) + 1] = m /\ id[Len(s) + Len(p) + 2] = b
  BY <1>2, <1>8, <1>9
<1>12. EndingParts(id, a, m, p, b)
  BY <1>2, <1>4, <1>5, <1>7, <1>10, <1>11 DEF EndingParts
<1> QED BY <1>12 DEF id

LEMMA ToSetConcat ==
    ASSUME NEW S, NEW s \in Seq(S), NEW t \in Seq(S)
    PROVE  ToSet(s \o t) = ToSet(s) \cup ToSet(t)
<1>1. ASSUME NEW x \in ToSet(s \o t) PROVE x \in ToSet(s) \cup ToSet(t)
  <2>1. PICK i \in 1 .. Len(s) + Len(t) : x = (s \o t)[i]
    BY ConcatType DEF ToSet
  <2>2. CASE i <= Len(s)
    BY <2>1, <2>2, ConcatType DEF ToSet
  <2>3. CASE i > Len(s)
    <3>1. i - Len(s) \in 1 .. Len(t) /\ x = t[i - Len(s)]
      BY <2>1, <2>3
    <3> QED BY <3>1 DEF ToSet
  <2> QED BY <2>2, <2>3
<1>2. ASSUME NEW x \in ToSet(s) PROVE x \in ToSet(s \o t)
  <2>1. PICK i \in 1 .. Len(s) : x = s[i]
    BY DEF ToSet
  <2>2. i \in DOMAIN (s \o t) /\ x = (s \o t)[i]
    BY <2>1, ConcatType
  <2> QED BY <2>2 DEF ToSet
<1>3. ASSUME NEW x \in ToSet(t) PROVE x \in ToSet(s \o t)
  <2>1. PICK i \in 1 .. Len(t) : x = t[i]
    BY DEF ToSet
  <2>2. Len(s) + i \in DOMAIN (s \o t) /\ x = (s \o t)[Len(s) + i]
    BY <2>1, ConcatType
  <2> QED BY <2>2 DEF ToSet
<1> QED BY <1>1, <1>2, <1>3

LEMMA SeqOfElements ==
    ASSUME NEW S, NEW s \in Seq(S)
    PROVE  s \in Seq(ToSet(s))
<1>1. \A i \in 1 .. Len(s) : s[i] \in ToSet(s)
  BY DEF ToSet
<1> QED BY <1>1

LEMMA SeqInLarger ==
    ASSUME NEW S, NEW T, S \subseteq T, NEW s \in Seq(S)
    PROVE  s \in Seq(T)
<1>1. \A i \in 1 .. Len(s) : s[i] \in T
  OBVIOUS
<1> QED BY <1>1

LEMMA ShortToSet ==
    ASSUME NEW a, NEW b
    PROVE  /\ <<>> \in Seq({}) /\ ToSet(<<>>) = {}
           /\ <<a>> \in Seq({a}) /\ ToSet(<<a>>) = {a}
           /\ <<a, b>> \in Seq({a, b}) /\ ToSet(<<a, b>>) = {a, b}
<1>1. <<>> \in Seq({}) /\ ToSet(<<>>) = {}
  BY DEF ToSet
<1>2. <<a>> \in Seq({a}) /\ ToSet(<<a>>) = {a}
  <2>1. DOMAIN <<a>> = {1} /\ <<a>>[1] = a
    OBVIOUS
  <2> QED BY <2>1 DEF ToSet
<1>3. <<a, b>> \in Seq({a, b}) /\ ToSet(<<a, b>>) = {a, b}
  <2>1. DOMAIN <<a, b>> = {1, 2} /\ <<a, b>>[1] = a /\ <<a, b>>[2] = b
    OBVIOUS
  <2> QED BY <2>1 DEF ToSet
<1> QED BY <1>1, <1>2, <1>3

-----------------------------------------------------------------------------
(* FlattenSeq                                                              *)

\* Its recursion is well founded.
FlattenStep(seqs, f, i) == IF i = 1 THEN seqs[i] ELSE f[i - 1] \o seqs[i]

LEMMA FlattenDefined ==
    ASSUME NEW seqs, NEW n \in Nat
    PROVE  \E f : f = [i \in 1 .. n |-> FlattenStep(seqs, f, i)]
<1> DEFINE G == {m \in Nat : \E f : f = [i \in 1 .. m |-> FlattenStep(seqs, f, i)]}
<1>1. 0 \in G
  <2> DEFINE f == [i \in 1 .. 0 |-> 0]
  <2>1. f = [i \in 1 .. 0 |-> FlattenStep(seqs, f, i)]
    OBVIOUS
  <2> QED BY <2>1
<1>2. ASSUME NEW m \in Nat, m \in G PROVE m + 1 \in G
  <2>1. PICK f : f = [i \in 1 .. m |-> FlattenStep(seqs, f, i)]
    BY <1>2
  <2> DEFINE g == [i \in 1 .. m + 1 |-> IF i \in 1 .. m THEN f[i] ELSE FlattenStep(seqs, f, i)]
  <2>2. \A i \in 1 .. m + 1 : g[i] = FlattenStep(seqs, g, i)
    <3> TAKE i \in 1 .. m + 1
    <3>1. g[i] = FlattenStep(seqs, f, i)
      BY <2>1
    <3>2. i # 1 => i - 1 \in 1 .. m /\ i - 1 \in 1 .. m + 1
      OBVIOUS
    <3>3. i # 1 => g[i - 1] = f[i - 1]
      BY <3>2
    <3> QED BY <3>1, <3>3 DEF FlattenStep
  <2>3. g = [i \in 1 .. m + 1 |-> g[i]]
    OBVIOUS
  <2> HIDE DEF g
  <2>4. g = [i \in 1 .. m + 1 |-> FlattenStep(seqs, g, i)]
    BY <2>2, <2>3
  <2>5. \E h : h = [i \in 1 .. m + 1 |-> FlattenStep(seqs, h, i)]
    BY <2>4
  <2> QED BY <2>5
<1>3. n \in G
  <2> HIDE DEF G
  <2> QED BY <1>1, <1>2, NumberInduction
<1> QED BY <1>3

Flattening(seqs) == CHOOSE f : f = [i \in 1 .. Len(seqs) |-> FlattenStep(seqs, f, i)]

LEMMA FlattenIs ==
    ASSUME NEW S, NEW seqs \in Seq(S)
    PROVE  /\ \A i \in 1 .. Len(seqs) : Flattening(seqs)[i] = FlattenStep(seqs, Flattening(seqs), i)
           /\ FlattenSeq(seqs) = IF Len(seqs) = 0 THEN seqs ELSE Flattening(seqs)[Len(seqs)]
<1>1. Flattening(seqs) = [i \in 1 .. Len(seqs) |-> FlattenStep(seqs, Flattening(seqs), i)]
  BY FlattenDefined DEF Flattening
<1>2. FlattenSeq(seqs) = IF Len(seqs) = 0 THEN seqs ELSE Flattening(seqs)[Len(seqs)]
  BY DEF FlattenSeq, Flattening, FlattenStep
<1>3. ASSUME NEW i \in 1 .. Len(seqs)
      PROVE  Flattening(seqs)[i] = FlattenStep(seqs, Flattening(seqs), i)
  <2> DEFINE F == Flattening(seqs)
  <2>1. F = [k \in 1 .. Len(seqs) |-> FlattenStep(seqs, F, k)]
    BY <1>1
  <2> HIDE DEF F
  <2>2. F[i] = FlattenStep(seqs, F, i)
    BY <2>1
  <2> QED BY <2>2 DEF F
<1> QED BY <1>2, <1>3

\* What a sequence of sequences flattens to is of their type, and what holds of the
\* empty sequence and of any concatenation with one of them holds of the whole.
LEMMA FlattenInduction ==
    ASSUME NEW S, NEW seqs \in Seq(Seq(S)), NEW G, <<0, <<>> >> \in G,
           \A n \in Nat, s \in Seq(S) :
               n < Len(seqs) /\ <<n, s>> \in G => <<n + 1, s \o seqs[n + 1]>> \in G
    PROVE  FlattenSeq(seqs) \in Seq(S) /\ <<Len(seqs), FlattenSeq(seqs)>> \in G
<1> DEFINE F == Flattening(seqs)
           T == {n \in Nat : n \in 1 .. Len(seqs) => F[n] \in Seq(S) /\ <<n, F[n]>> \in G}
<1>0. /\ \A i \in 1 .. Len(seqs) : F[i] = FlattenStep(seqs, F, i)
      /\ FlattenSeq(seqs) = IF Len(seqs) = 0 THEN seqs ELSE F[Len(seqs)]
  BY FlattenIs
<1> HIDE DEF F
<1>1. 0 \in T
  OBVIOUS
<1>2. ASSUME NEW n \in Nat, n \in T PROVE n + 1 \in T
  <2> SUFFICES ASSUME n + 1 \in 1 .. Len(seqs)
               PROVE  F[n + 1] \in Seq(S) /\ <<n + 1, F[n + 1]>> \in G
    OBVIOUS
  <2> DEFINE t == seqs[n + 1]
  <2>1. t \in Seq(S) /\ n + 1 - 1 = n
    OBVIOUS
  <2>0. ASSUME NEW s \in Seq(S), <<n, s>> \in G PROVE <<n + 1, s \o t>> \in G
    <3>1. n < Len(seqs)
      OBVIOUS
    <3> QED BY <2>0, <3>1
  <2>2. CASE n = 0
    <3>1. F[n + 1] = t
      BY <1>0, <2>2 DEF FlattenStep
    <3> HIDE DEF t
    <3>2. <<>> \in Seq(S) /\ <<>> \o t = t
      BY <2>1
    <3>3. <<n, <<>> >> \in G
      BY <2>2
    <3>4. <<n + 1, <<>> \o t>> \in G
      BY <2>0, <3>2, <3>3
    <3> QED BY <2>1, <3>1, <3>2, <3>4
  <2>3. CASE n # 0
    <3>0. n + 1 # 1
      BY <2>3
    <3>1. F[n + 1] = F[n] \o t
      <4>1. \A i \in 1 .. Len(seqs) : i # 1 => F[i] = F[i - 1] \o seqs[i]
        <5> TAKE i \in 1 .. Len(seqs)
        <5> HAVE i # 1
        <5>1. F[i] = FlattenStep(seqs, F, i)
          BY <1>0
        <5> QED BY <5>1 DEF FlattenStep
      <4> DEFINE m == n + 1
      <4>2. m \in 1 .. Len(seqs) /\ m # 1 /\ m - 1 = n
        BY <2>1, <3>0
      <4> HIDE DEF m
      <4>3. F[m] = F[m - 1] \o seqs[m]
        BY <4>1, <4>2
      <4>4. F[m] = F[n] \o seqs[m]
        BY <4>2, <4>3, Zenon
      <4> QED BY <4>4 DEF m
    <3> HIDE DEF t
    <3>2. F[n] \in Seq(S) /\ <<n, F[n]>> \in G
      BY <1>2, <2>3
    <3>3. <<n + 1, F[n] \o t>> \in G
      BY <2>0, <3>2
    <3>4. F[n] \o t \in Seq(S)
      BY <2>1, <3>2, ConcatType
    <3> QED BY <3>1, <3>3, <3>4
  <2> QED BY <2>2, <2>3
<1>3. Len(seqs) \in T
  <2> HIDE DEF T
  <2>1. \A n \in Nat : n \in T
    BY <1>1, <1>2, NumberInduction
  <2>2. Len(seqs) \in Nat
    OBVIOUS
  <2> QED BY <2>1, <2>2
<1>4. CASE Len(seqs) = 0
  <2>1. seqs = <<>>
    BY <1>4
  <2> QED BY <1>0, <1>4, <2>1
<1>5. CASE Len(seqs) # 0
  BY <1>0, <1>3, <1>5
<1> QED BY <1>4, <1>5

LEMMA ToSetFlatten ==
    ASSUME NEW S, NEW seqs \in Seq(Seq(S))
    PROVE  /\ FlattenSeq(seqs) \in Seq(S)
           /\ ToSet(FlattenSeq(seqs)) = UNION {ToSet(seqs[i]) : i \in DOMAIN seqs}
<1> DEFINE G == {p \in Nat \X Seq(S) : ToSet(p[2]) = UNION {ToSet(seqs[i]) : i \in 1 .. p[1]}}
<1>1. <<0, <<>> >> \in G
  <2>1. ToSet(<<>>) = {} /\ 1 .. 0 = {} /\ <<>> \in Seq(S)
    BY DEF ToSet
  <2>2. ToSet(<<>>) = UNION {ToSet(seqs[i]) : i \in 1 .. 0}
    BY <2>1
  <2> HIDE DEF G
  <2>3. \A s \in Seq(S) : ToSet(s) = UNION {ToSet(seqs[i]) : i \in 1 .. 0} => <<0, s>> \in G
    BY DEF G
  <2> QED BY <2>1, <2>2, <2>3
<1>2. ASSUME NEW n \in Nat, NEW s \in Seq(S), n < Len(seqs), <<n, s>> \in G
      PROVE  <<n + 1, s \o seqs[n + 1]>> \in G
  <2> DEFINE t == seqs[n + 1]
  <2>1. ToSet(s) = UNION {ToSet(seqs[k]) : k \in 1 .. n}
    BY <1>2
  <2>2. t \in Seq(S)
    BY <1>2
  <2>3. s \o t \in Seq(S) /\ ToSet(s \o t) = ToSet(s) \cup ToSet(t)
    BY <2>2, ToSetConcat, ConcatType
  <2>4. 1 .. n + 1 = (1 .. n) \cup {n + 1}
    OBVIOUS
  <2>5. ToSet(s \o t) = UNION {ToSet(seqs[k]) : k \in 1 .. n + 1}
    BY <2>1, <2>3, <2>4
  <2> HIDE DEF t
  <2> DEFINE u == s \o t
  <2>6. n + 1 \in Nat /\ u \in Seq(S) /\ ToSet(u) = UNION {ToSet(seqs[k]) : k \in 1 .. n + 1}
    BY <2>3, <2>5
  <2> HIDE DEF u
  <2>7. <<n + 1, u>> \in G
    BY <2>6
  <2> QED BY <2>7 DEF t, u
<1>3. FlattenSeq(seqs) \in Seq(S) /\ <<Len(seqs), FlattenSeq(seqs)>> \in G
  <2> HIDE DEF G
  <2> QED BY <1>1, <1>2, FlattenInduction
<1>4. ToSet(FlattenSeq(seqs)) = UNION {ToSet(seqs[i]) : i \in 1 .. Len(seqs)}
  BY <1>3
<1> QED BY <1>3, <1>4

\* The same for sequences of whatever type.
LEMMA FlattenElements ==
    ASSUME NEW n \in Nat, NEW seqs, seqs = [i \in 1 .. n |-> seqs[i]],
           \A i \in 1 .. n : seqs[i] \in Seq(ToSet(seqs[i]))
    PROVE  LET S == UNION {ToSet(seqs[i]) : i \in 1 .. n}
           IN  FlattenSeq(seqs) \in Seq(S) /\ ToSet(FlattenSeq(seqs)) = S
<1> DEFINE S == UNION {ToSet(seqs[i]) : i \in 1 .. n}
<1>1. ASSUME NEW i \in 1 .. n PROVE seqs[i] \in Seq(S)
  <2> DEFINE t == seqs[i]
  <2>1. t \in Seq(ToSet(t)) /\ ToSet(t) \subseteq S
    OBVIOUS
  <2> HIDE DEF t, S
  <2>2. t \in Seq(S)
    BY <2>1, SeqInLarger
  <2> QED BY <2>2 DEF t
<1> HIDE DEF S
<1>2. seqs \in Seq(Seq(S)) /\ DOMAIN seqs = 1 .. n
  BY <1>1
<1>3. /\ FlattenSeq(seqs) \in Seq(S)
      /\ ToSet(FlattenSeq(seqs)) = UNION {ToSet(seqs[i]) : i \in DOMAIN seqs}
  BY <1>2, ToSetFlatten
<1> QED BY <1>2, <1>3 DEF S


\* What the first n of the sequences flatten to.
Prefix(seqs, n) == IF n = 0 THEN <<>> ELSE Flattening(seqs)[n]

LEMMA PrefixIs ==
    ASSUME NEW S, NEW seqs \in Seq(Seq(S))
    PROVE  /\ Prefix(seqs, 0) = <<>>
           /\ \A n \in 0 .. Len(seqs) : Prefix(seqs, n) \in Seq(S)
           /\ \A n \in 0 .. Len(seqs) - 1 : Prefix(seqs, n + 1) = Prefix(seqs, n) \o seqs[n + 1]
           /\ FlattenSeq(seqs) = Prefix(seqs, Len(seqs))
<1> DEFINE F == Flattening(seqs)
<1>0. /\ \A i \in 1 .. Len(seqs) : F[i] = FlattenStep(seqs, F, i)
      /\ FlattenSeq(seqs) = IF Len(seqs) = 0 THEN seqs ELSE F[Len(seqs)]
  BY FlattenIs
<1>1. Prefix(seqs, 0) = <<>> /\ \A n : n # 0 => Prefix(seqs, n) = F[n]
  BY DEF Prefix
<1>01. \A i \in 1 .. Len(seqs) : F[i] = IF i = 1 THEN seqs[i] ELSE F[i - 1] \o seqs[i]
  BY <1>0 DEF FlattenStep
<1> HIDE DEF F
<1>2. ASSUME NEW n \in 0 .. Len(seqs) - 1
      PROVE  Prefix(seqs, n + 1) = Prefix(seqs, n) \o seqs[n + 1]
  <2> PICK m : m = n + 1
    OBVIOUS
  <2>1. m \in 1 .. Len(seqs) /\ m # 0 /\ m - 1 = n
    OBVIOUS
  <2>2. Prefix(seqs, m) = F[m]
    BY <1>1, <2>1, Zenon
  <2>3. CASE n = 0
    <3>1. m = 1
      BY <2>1, <2>3
    <3>2. Prefix(seqs, m) = seqs[m] /\ seqs[m] \in Seq(S)
      BY <1>01, <2>1, <2>2, <3>1
    <3> QED BY <1>1, <2>3, <3>2
  <2>4. CASE n # 0
    <3>1. m # 1
      BY <2>1, <2>4
    <3>2. Prefix(seqs, m) = F[m - 1] \o seqs[m]
      BY <1>01, <2>1, <2>2, <3>1
    <3>3. F[m - 1] = Prefix(seqs, n)
      BY <1>1, <2>1, <2>4
    <3> QED BY <3>2, <3>3, Zenon
  <2> QED BY <2>3, <2>4
<1>3. \A n \in 0 .. Len(seqs) : Prefix(seqs, n) \in Seq(S)
  <2> DEFINE G == {n \in Nat : n \in 0 .. Len(seqs) => Prefix(seqs, n) \in Seq(S)}
  <2>1. 0 \in G
    <3>1. <<>> \in Seq(S)
      OBVIOUS
    <3>2. Prefix(seqs, 0) \in Seq(S)
      BY <1>1, <3>1, Zenon
    <3> QED BY <3>2
  <2>2. ASSUME NEW n \in Nat, n \in G PROVE n + 1 \in G
    <3> SUFFICES ASSUME n + 1 \in 0 .. Len(seqs) PROVE Prefix(seqs, n + 1) \in Seq(S)
      OBVIOUS
    <3>1. n \in 0 .. Len(seqs) - 1 /\ Prefix(seqs, n) \in Seq(S) /\ seqs[n + 1] \in Seq(S)
      BY <2>2
    <3>2. Prefix(seqs, n + 1) = Prefix(seqs, n) \o seqs[n + 1]
      BY <1>2, <3>1
    <3> HIDE DEF G
    <3>3. \A s \in Seq(S), t \in Seq(S) : s \o t \in Seq(S)
      OBVIOUS
    <3> QED BY <3>1, <3>2, <3>3, Zenon
  <2> HIDE DEF G
  <2>3. \A n \in Nat : n \in G
    BY <2>1, <2>2, NumberInduction
  <2> QED BY <2>3 DEF G
<1>4. FlattenSeq(seqs) = Prefix(seqs, Len(seqs))
  <2>1. Len(seqs) = 0 => seqs = <<>>
    OBVIOUS
  <2> QED BY <1>0, <1>1, <2>1
<1> QED BY <1>1, <1>2, <1>3, <1>4

Joins(p, s, t) == (p \o s) \o t = p \o (s \o t)

LEMMA Associative == \A S : \A p, s, t \in Seq(S) : Joins(p, s, t)
BY ConcatAssociative DEF Joins

\* What two sequences of sequences flatten to, one after the other.
LEMMA FlattenConcat ==
    ASSUME NEW S, NEW a \in Seq(Seq(S)), NEW b \in Seq(Seq(S))
    PROVE  FlattenSeq(a \o b) = FlattenSeq(a) \o FlattenSeq(b)
<1> PICK c : c = a \o b
  OBVIOUS
<1>1. /\ c \in Seq(Seq(S)) /\ Len(c) = Len(a) + Len(b) /\ Len(a) \in Nat /\ Len(b) \in Nat
      /\ \A i \in 1 .. Len(a) : c[i] = a[i]
      /\ \A i \in 1 .. Len(b) : c[Len(a) + i] = b[i]
  OBVIOUS
<1>2. \A n \in 0 .. Len(a) : Prefix(c, n) = Prefix(a, n)
  <2> DEFINE G == {n \in Nat : n \in 0 .. Len(a) => Prefix(c, n) = Prefix(a, n)}
  <2>1. 0 \in G
    BY DEF Prefix
  <2>2. ASSUME NEW n \in Nat, n \in G PROVE n + 1 \in G
    <3> SUFFICES ASSUME n + 1 \in 0 .. Len(a) PROVE Prefix(c, n + 1) = Prefix(a, n + 1)
      OBVIOUS
    <3>1. n \in 0 .. Len(a) - 1 /\ n \in 0 .. Len(c) - 1 /\ n + 1 \in 1 .. Len(a)
      BY <1>1
    <3>2. Prefix(c, n) = Prefix(a, n)
      BY <2>2, <3>1
    <3> HIDE DEF G
    <3>3. Prefix(c, n + 1) = Prefix(c, n) \o c[n + 1]
      BY <1>1, <3>1, PrefixIs
    <3>4. Prefix(a, n + 1) = Prefix(a, n) \o a[n + 1]
      BY <3>1, PrefixIs
    <3>5. c[n + 1] = a[n + 1]
      BY <1>1, <3>1
    <3> QED BY <3>2, <3>3, <3>4, <3>5, Zenon
  <2> HIDE DEF G
  <2>3. \A n \in Nat : n \in G
    BY <2>1, <2>2, NumberInduction
  <2> QED BY <2>3 DEF G
<1> DEFINE p == Prefix(a, Len(a))
<1>3. p \in Seq(S)
  BY <1>1, PrefixIs
<1>9. \A s, t \in Seq(S) : (p \o s) \o t = p \o (s \o t)
  <2> HIDE DEF p
  <2> TAKE s \in Seq(S), t \in Seq(S)
  <2>1. Joins(p, s, t)
    BY <1>3, Associative, Zenon
  <2> QED BY <2>1, Zenon DEF Joins
<1>4. \A n \in 0 .. Len(b) : Prefix(c, Len(a) + n) = p \o Prefix(b, n)
  <2> DEFINE G == {n \in Nat : n \in 0 .. Len(b) => Prefix(c, Len(a) + n) = p \o Prefix(b, n)}
  <2>1. 0 \in G
    <3>1. Prefix(c, Len(a)) = p
      BY <1>1, <1>2
    <3>2. Prefix(b, 0) = <<>>
      BY DEF Prefix
    <3>3. p \o <<>> = p
      <4> HIDE DEF p
      <4> QED BY <1>3
    <3>4. Len(a) + 0 = Len(a)
      BY <1>1
    <3> HIDE DEF p
    <3>5. Prefix(c, Len(a) + 0) = p \o Prefix(b, 0)
      BY <3>1, <3>2, <3>3, <3>4, Zenon
    <3> QED BY <3>5
  <2>2. ASSUME NEW n \in Nat, n \in G PROVE n + 1 \in G
    <3> HIDE DEF p
    <3> SUFFICES ASSUME n + 1 \in 0 .. Len(b)
                 PROVE  Prefix(c, Len(a) + (n + 1)) = p \o Prefix(b, n + 1)
      OBVIOUS
    <3> PICK k : k = Len(a) + n
      OBVIOUS
    <3>1. n \in 0 .. Len(b) - 1 /\ k \in 0 .. Len(c) - 1 /\ n + 1 \in 1 .. Len(b)
          /\ Len(a) + (n + 1) = k + 1 /\ n \in 0 .. Len(b)
      BY <1>1
    <3>2. Prefix(c, k) = p \o Prefix(b, n)
      BY <2>2, <3>1
    <3> HIDE DEF G
    <3>3. Prefix(c, k + 1) = Prefix(c, k) \o c[k + 1]
      BY <1>1, <3>1, PrefixIs
    <3>4. Prefix(b, n + 1) = Prefix(b, n) \o b[n + 1] /\ Prefix(b, n) \in Seq(S)
      BY <3>1, PrefixIs
    <3>5. c[k + 1] = b[n + 1] /\ b[n + 1] \in Seq(S)
      BY <1>1, <3>1
    <3>6. (p \o Prefix(b, n)) \o b[n + 1] = p \o (Prefix(b, n) \o b[n + 1])
      BY <1>9, <3>4, <3>5, Zenon
    <3> QED BY <3>1, <3>2, <3>3, <3>4, <3>5, <3>6, Zenon
  <2> HIDE DEF G
  <2>3. \A n \in Nat : n \in G
    BY <2>1, <2>2, NumberInduction
  <2> QED BY <2>3 DEF G
<1>5. FlattenSeq(c) = Prefix(c, Len(a) + Len(b))
  BY <1>1, PrefixIs
<1>6. FlattenSeq(a) = p /\ FlattenSeq(b) = Prefix(b, Len(b))
  BY PrefixIs
<1>7. Len(b) \in 0 .. Len(b)
  BY <1>1
<1> HIDE DEF p
<1>8. Prefix(c, Len(a) + Len(b)) = p \o Prefix(b, Len(b))
  BY <1>4, <1>7
<1> QED BY <1>5, <1>6, <1>8


\* A function applied to each element.
Maps(f, S, T) == f \in [S -> T]
Mapped(f, s) == [i \in DOMAIN s |-> f[s[i]]]

LEMMA MappedIs ==
    ASSUME NEW S, NEW T, NEW f, Maps(f, S, T), NEW s \in Seq(S)
    PROVE  Mapped(f, s) \in Seq(T) /\ Len(Mapped(f, s)) = Len(s)
<1>1. DOMAIN s = 1 .. Len(s) /\ Len(s) \in Nat /\ \A i \in 1 .. Len(s) : f[s[i]] \in T
  BY DEF Maps
<1>2. [i \in 1 .. Len(s) |-> f[s[i]]] \in Seq(T)
  BY <1>1
<1>3. Len([i \in 1 .. Len(s) |-> f[s[i]]]) = Len(s)
  BY <1>1
<1> QED BY <1>1, <1>2, <1>3 DEF Mapped

LEMMA MappedConcat ==
    ASSUME NEW S, NEW T, NEW f, Maps(f, S, T), NEW s \in Seq(S), NEW t \in Seq(S)
    PROVE  Mapped(f, s \o t) = Mapped(f, s) \o Mapped(f, t)
<1>0. PICK u : u = s \o t
  OBVIOUS
<1>01. PICK a : a = Mapped(f, s)
  OBVIOUS
<1>02. PICK b : b = Mapped(f, t)
  OBVIOUS
<1>1. u \in Seq(S)
  BY <1>0
<1>2. Len(u) = Len(s) + Len(t) /\ Len(s) \in Nat /\ Len(t) \in Nat
  BY <1>0
<1>3. \A i \in 1 .. Len(s) : u[i] = s[i]
  BY <1>0
<1>4. \A i \in 1 .. Len(t) : u[Len(s) + i] = t[i]
  BY <1>0
<1>5. a \in Seq(T) /\ Len(a) = Len(s) /\ b \in Seq(T) /\ Len(b) = Len(t)
  <2>1. a \in Seq(T) /\ Len(a) = Len(s)
    BY <1>01, MappedIs
  <2>2. b \in Seq(T) /\ Len(b) = Len(t)
    BY <1>02, MappedIs
  <2> QED BY <2>1, <2>2
<1>6. (\A i \in 1 .. Len(s) : a[i] = f[s[i]]) /\ (\A i \in 1 .. Len(t) : b[i] = f[t[i]])
  <2>1. DOMAIN s = 1 .. Len(s) /\ DOMAIN t = 1 .. Len(t)
    OBVIOUS
  <2> QED BY <1>01, <1>02, <2>1, Zenon DEF Mapped
<1>7. PICK w : w = a \o b
  OBVIOUS
<1>71. PICK v : v = Mapped(f, u)
  OBVIOUS
<1>8. v \in Seq(T) /\ Len(v) = Len(u)
  BY <1>1, <1>71, MappedIs
<1>9. w \in Seq(T)
  BY <1>5, <1>7
<1>10. Len(w) = Len(u)
  <2>1. Len(w) = Len(a) + Len(b)
    <3>1. \A x, y \in Seq(T) : Len(x \o y) = Len(x) + Len(y)
      OBVIOUS
    <3> QED BY <1>5, <1>7, <3>1, Zenon
  <2> QED BY <1>2, <1>5, <2>1
<1>11. \A i \in 1 .. Len(s) : w[i] = a[i]
  BY <1>5, <1>7
<1>12. \A i \in 1 .. Len(t) : w[Len(s) + i] = b[i]
  BY <1>5, <1>7
<1>13. ASSUME NEW i \in 1 .. Len(u) PROVE v[i] = w[i]
  <2>1. v[i] = f[u[i]]
    BY <1>1, <1>71 DEF Mapped
  <2>2. CASE i <= Len(s)
    <3>1. i \in 1 .. Len(s)
      BY <1>2, <2>2
    <3> QED BY <1>3, <1>6, <1>11, <2>1, <3>1
  <2>3. CASE i > Len(s)
    <3>0. PICK j : j = i - Len(s)
      OBVIOUS
    <3>1. j \in 1 .. Len(t) /\ i = Len(s) + j
      BY <1>2, <2>3, <3>0
    <3>2. u[Len(s) + j] = t[j] /\ b[j] = f[t[j]] /\ w[Len(s) + j] = b[j]
      BY <1>4, <1>6, <1>12, <3>1
    <3> QED BY <2>1, <3>1, <3>2
  <2> QED BY <1>2, <2>2, <2>3
<1>14. v = w
  <2>1. \A i \in 1 .. Len(v) : v[i] = w[i]
    BY <1>8, <1>13
  <2> QED BY <1>8, <1>9, <1>10, <2>1, SeqEqual
<1> QED BY <1>0, <1>01, <1>02, <1>7, <1>71, <1>14, Zenon

LEMMA FlattenMapped ==
    ASSUME NEW S, NEW T, NEW f, Maps(f, S, Seq(T)), NEW s \in Seq(S), NEW t \in Seq(S)
    PROVE  /\ FlattenSeq(Mapped(f, s)) \in Seq(T)
           /\ FlattenSeq(Mapped(f, s \o t)) = FlattenSeq(Mapped(f, s)) \o FlattenSeq(Mapped(f, t))
<1> DEFINE U == Seq(T)
<1>1. Mapped(f, s) \in Seq(Seq(T)) /\ Mapped(f, t) \in Seq(Seq(T))
  <2>1. Maps(f, S, U)
    OBVIOUS
  <2> HIDE DEF U
  <2>2. Mapped(f, s) \in Seq(U) /\ Mapped(f, t) \in Seq(U)
    BY <2>1, MappedIs
  <2> QED BY <2>2 DEF U
<1>2. FlattenSeq(Mapped(f, s)) \in Seq(T)
  BY <1>1, ToSetFlatten
<1>3. FlattenSeq(Mapped(f, s) \o Mapped(f, t))
          = FlattenSeq(Mapped(f, s)) \o FlattenSeq(Mapped(f, t))
  BY <1>1, FlattenConcat
<1>4. Mapped(f, s \o t) = Mapped(f, s) \o Mapped(f, t)
  <2>1. Maps(f, S, U)
    OBVIOUS
  <2> HIDE DEF U
  <2> QED BY <2>1, MappedConcat
<1> QED BY <1>2, <1>3, <1>4


\* What every number up to n has when all those before it have it.
LEMMA StrongInduction ==
    ASSUME NEW n \in Nat, NEW G, \A i \in 1 .. n : (\A j \in 1 .. i - 1 : j \in G) => i \in G
    PROVE  \A i \in 1 .. n : i \in G
<1> DEFINE T == {i \in 1 .. n : i \notin G}
<1> SUFFICES ASSUME T # {} PROVE FALSE
  OBVIOUS
<1>1. PICK x \in T : \A y \in T : ~(y < x)
  <2>1. T \subseteq Nat
    OBVIOUS
  <2> HIDE DEF T
  <2> QED BY <2>1, LeastNumber
<1>2. x \in 1 .. n /\ x \notin G
  BY <1>1
<1>3. ASSUME NEW j \in 1 .. x - 1 PROVE j \in G
  <2>1. j \in 1 .. n /\ j < x
    BY <1>2
  <2> QED BY <1>1, <2>1
<1> QED BY <1>2, <1>3

\* A step that looks only at smaller numbers defines a function.
LooksBack(n, V, st) ==
    /\ n \in Nat /\ V # {} /\ st \in [1 .. n -> [[1 .. n -> V] -> V]]
    /\ \A i \in 1 .. n : \A f, g \in [1 .. n -> V] :
           (\A j \in 1 .. i - 1 : f[j] = g[j]) => st[i][f] = st[i][g]

LEMMA Recursion ==
    ASSUME NEW n, NEW V, NEW st, LooksBack(n, V, st)
    PROVE  \E f \in [1 .. n -> V] : \A i \in 1 .. n : f[i] = st[i][f]
<1> DEFINE P(m, f) == \A i \in 1 .. m : f[i] = st[i][f]
<1> USE DEF LooksBack
<1> PICK v \in V : TRUE
  OBVIOUS
<1>0. PICK F : F = [1 .. n -> V]
  OBVIOUS
<1>1. /\ \A f : P(0, f)
      /\ \E f : f \in F
      /\ \A i \in 1 .. n : \A f \in F : f[i] \in V
      /\ \A i \in 1 .. n : \A f \in F : st[i][f] \in V
      /\ \A i \in 1 .. n : \A f, g \in F : (\A j \in 1 .. i - 1 : f[j] = g[j]) => st[i][f] = st[i][g]
  <2>1. [i \in 1 .. n |-> v] \in F
    BY <1>0
  <2>2. \A f : P(0, f)
    OBVIOUS
  <2>3. \A i \in 1 .. n : \A f \in F : f[i] \in V
    BY <1>0
  <2>4. \A i \in 1 .. n : st[i] \in [F -> V]
    BY <1>0
  <2>5. \A i \in 1 .. n : \A f \in F : st[i][f] \in V
    BY <2>4
  <2>6. \A i \in 1 .. n : \A f, g \in F :
            (\A j \in 1 .. i - 1 : f[j] = g[j]) => st[i][f] = st[i][g]
    BY <1>0
  <2> HIDE DEF P
  <2> QED BY <2>1, <2>2, <2>3, <2>5, <2>6
<1>2. ASSUME NEW f \in F, NEW k \in 1 .. n, NEW w \in V
      PROVE  \E g \in F : g[k] = w /\ \A i \in 1 .. n : i # k => g[i] = f[i]
  <2> DEFINE g == [i \in 1 .. n |-> IF i = k THEN w ELSE f[i]]
  <2>1. g \in F
    BY <1>0, <1>1
  <2>2. g[k] = w /\ \A i \in 1 .. n : i # k => g[i] = f[i]
    OBVIOUS
  <2> QED BY <2>1, <2>2
<1> DEFINE G == {m \in Nat : m <= n => \E f \in F : P(m, f)}
<1>3. ASSUME NEW m \in Nat, m \in G PROVE m + 1 \in G
  <2> SUFFICES ASSUME m + 1 <= n PROVE \E f \in F : P(m + 1, f)
    OBVIOUS
  <2>1. PICK f \in F : P(m, f)
    <3> HIDE DEF P
    <3> QED BY <1>3
  <2>2. m + 1 \in 1 .. n
    OBVIOUS
  <2>3. PICK g \in F : g[m + 1] = st[m + 1][f] /\ \A i \in 1 .. n : i # m + 1 => g[i] = f[i]
    <3>1. st[m + 1][f] \in V
      <4> HIDE DEF P
      <4> QED BY <1>1, <2>2
    <3>2. PICK w : w = st[m + 1][f]
      OBVIOUS
    <3>3. \E g \in F : g[m + 1] = w /\ \A i \in 1 .. n : i # m + 1 => g[i] = f[i]
      <4> HIDE DEF P, G, LooksBack
      <4> QED BY <1>2, <2>2, <3>1, <3>2
    <3> QED BY <3>2, <3>3
  <2>4. ASSUME NEW i \in 1 .. m + 1 PROVE g[i] = st[i][g]
    <3>1. i \in 1 .. n /\ \A j \in 1 .. i - 1 : f[j] = g[j]
      BY <2>3
    <3>2. st[i][f] = st[i][g]
      BY <1>1, <3>1
    <3>3. g[i] = st[i][f]
      BY <2>1, <2>3, <3>1
    <3> QED BY <3>2, <3>3
  <2> QED BY <2>4
<1>4. 0 \in G
  <2> HIDE DEF P
  <2> QED BY <1>1
<1>5. n \in G
  <2> HIDE DEF G
  <2> QED BY <1>3, <1>4, NumberInduction
<1> QED BY <1>0, <1>5


-----------------------------------------------------------------------------
(* Ends of a list of lists                                                 *)

\* What a sequence of one sequence flattens to, and one of none.
LEMMA FlattenOne ==
    ASSUME NEW S, NEW s \in Seq(S)
    PROVE  FlattenSeq(<<s>>) = s /\ FlattenSeq(<<>>) = <<>>
<1>0. PICK a : a = <<s>>
  OBVIOUS
<1>00. PICK b : b = <<>>
  OBVIOUS
<1>1. a \in Seq(Seq(S)) /\ Len(a) = 1 /\ a[1] = s
  BY <1>0
<1>2. b \in Seq(Seq(S)) /\ Len(b) = 0
  BY <1>00
<1>3. /\ Prefix(a, 0) = <<>> /\ FlattenSeq(a) = Prefix(a, Len(a))
      /\ \A n \in 0 .. Len(a) - 1 : Prefix(a, n + 1) = Prefix(a, n) \o a[n + 1]
  BY <1>1, PrefixIs
<1>4. Prefix(a, 1) = <<>> \o s
  <2>1. 0 \in 0 .. Len(a) - 1 /\ 0 + 1 = 1
    BY <1>1
  <2>2. Prefix(a, 0 + 1) = Prefix(a, 0) \o a[0 + 1]
    BY <1>3, <2>1
  <2> QED BY <1>1, <1>3, <2>2
<1>5. <<>> \o s = s
  OBVIOUS
<1>6. FlattenSeq(b) = Prefix(b, Len(b)) /\ Prefix(b, 0) = <<>>
  BY <1>2, PrefixIs
<1> QED BY <1>0, <1>00, <1>1, <1>2, <1>3, <1>4, <1>5, <1>6

LEMMA FlattenAppended ==
    ASSUME NEW S, NEW a \in Seq(Seq(S)), NEW y \in Seq(S),
           NEW b \in Seq(Seq(S)), Len(b) = Len(a) + 1, \A i \in 1 .. Len(a) : b[i] = a[i],
           b[Len(a) + 1] = y
    PROVE  FlattenSeq(b) = FlattenSeq(a) \o y
<1> PICK c : c = <<y>>
  OBVIOUS
<1>1. c \in Seq(Seq(S)) /\ Len(c) = 1 /\ c[1] = y /\ FlattenSeq(c) = y
  <2>1. FlattenSeq(<<y>>) = y
    BY FlattenOne
  <2> QED BY <2>1
<1>2. b = a \o c
  BY <1>1
<1>3. FlattenSeq(a \o c) = FlattenSeq(a) \o FlattenSeq(c)
  BY <1>1, FlattenConcat
<1> QED BY <1>1, <1>2, <1>3

\* The last lists replaced by what they flatten to.
Replaces(a, m, b) ==
    /\ m \in 0 .. Len(a) /\ Len(b) = m + 1 /\ \A i \in 1 .. m : b[i] = a[i]
    /\ b[m + 1] = FlattenSeq([i \in 1 .. Len(a) - m |-> a[m + i]])

LEMMA FlattenReplaced ==
    ASSUME NEW S, NEW a \in Seq(Seq(S)), NEW b \in Seq(Seq(S)), NEW m, Replaces(a, m, b)
    PROVE  FlattenSeq(b) = FlattenSeq(a)
<1> PICK c : c = [i \in 1 .. Len(a) - m |-> a[m + i]]
  OBVIOUS
<1>0. /\ m \in 0 .. Len(a) /\ Len(b) = m + 1 /\ \A i \in 1 .. m : b[i] = a[i]
      /\ b[m + 1] = FlattenSeq(c)
  BY DEF Replaces
<1> PICK h : h = [i \in 1 .. m |-> a[i]]
  OBVIOUS
<1>1. Len(a) \in Nat /\ m \in Nat /\ Len(a) - m \in Nat /\ \A i \in 1 .. Len(a) : a[i] \in Seq(S)
  BY <1>0
<1>2. h \in Seq(Seq(S)) /\ Len(h) = m /\ \A i \in 1 .. m : h[i] = a[i]
  BY <1>1
<1>3. c \in Seq(Seq(S)) /\ Len(c) = Len(a) - m /\ \A i \in 1 .. Len(a) - m : c[i] = a[m + i]
  BY <1>1
<1>4. a = h \o c
  <2>1. /\ h \o c \in Seq(Seq(S)) /\ Len(h \o c) = Len(a)
        /\ \A i \in 1 .. m : (h \o c)[i] = a[i]
        /\ \A i \in 1 .. Len(a) - m : (h \o c)[m + i] = a[m + i]
    BY <1>1, <1>2, <1>3, ConcatType
  <2>2. ASSUME NEW i \in 1 .. Len(a) PROVE (h \o c)[i] = a[i]
    <3>1. CASE i <= m
      BY <1>1, <2>1, <3>1
    <3>2. CASE i > m
      <4>1. i - m \in 1 .. Len(a) - m /\ m + (i - m) = i
        BY <1>1, <3>2
      <4> QED BY <2>1, <4>1
    <3> QED BY <1>1, <3>1, <3>2
  <2> QED BY <1>1, <2>1, <2>2
<1>5. FlattenSeq(a) = FlattenSeq(h) \o FlattenSeq(c)
  <2>1. FlattenSeq(h \o c) = FlattenSeq(h) \o FlattenSeq(c)
    BY <1>2, <1>3, FlattenConcat
  <2> QED BY <1>4, <2>1
<1>6. FlattenSeq(b) = FlattenSeq(h) \o FlattenSeq(c)
  <2>1. FlattenSeq(c) \in Seq(S)
    BY <1>3, ToSetFlatten
  <2>2. /\ Len(b) = Len(h) + 1 /\ b[Len(h) + 1] = FlattenSeq(c)
        /\ \A i \in 1 .. Len(h) : b[i] = h[i]
    BY <1>0, <1>2
  <2> QED BY <1>2, <2>1, <2>2, FlattenAppended
<1> QED BY <1>5, <1>6

LEMMA FlattenFew ==
    ASSUME NEW S, NEW c \in Seq(Seq(S))
    PROVE  /\ Len(c) = 1 => FlattenSeq(c) = c[1]
           /\ Len(c) = 2 => FlattenSeq(c) = c[1] \o c[2]
           /\ Len(c) = 3 => FlattenSeq(c) = c[1] \o c[2] \o c[3]
           /\ Len(c) = 6 => FlattenSeq(c) = c[1] \o c[2] \o c[3] \o c[4] \o c[5] \o c[6]
<1> PICK p : p = [n \in 0 .. Len(c) |-> Prefix(c, n)]
  OBVIOUS
<1>1. /\ Len(c) \in Nat /\ FlattenSeq(c) = p[Len(c)] /\ p[0] = <<>>
      /\ \A i \in 1 .. Len(c) : c[i] \in Seq(S)
  <2>1. FlattenSeq(c) = Prefix(c, Len(c)) /\ Prefix(c, 0) = <<>>
    BY PrefixIs
  <2> QED BY <2>1
<1>2. \A n \in 0 .. Len(c) - 1 : p[n + 1] = p[n] \o c[n + 1]
  <2> TAKE n \in 0 .. Len(c) - 1
  <2>1. Prefix(c, n + 1) = Prefix(c, n) \o c[n + 1]
    BY PrefixIs
  <2>2. n \in 0 .. Len(c) /\ n + 1 \in 0 .. Len(c)
    BY <1>1
  <2>3. p[n] = Prefix(c, n) /\ p[n + 1] = Prefix(c, n + 1)
    BY <2>2
  <2> QED BY <2>1, <2>3, Zenon
<1>3. Len(c) > 0 => p[1] = c[1]
  <2> SUFFICES ASSUME Len(c) > 0 PROVE p[1] = c[1]
    OBVIOUS
  <2>1. 0 \in 0 .. Len(c) - 1 /\ 0 + 1 = 1 /\ 1 \in 1 .. Len(c)
    BY <1>1
  <2>2. p[0 + 1] = p[0] \o c[0 + 1]
    BY <1>2, <2>1, Zenon
  <2>3. <<>> \o c[1] = c[1]
    BY <1>1, <2>1, ConcatEmptySeq
  <2> QED BY <1>1, <2>1, <2>2, <2>3, Zenon
<1>4. Len(c) > 1 => p[2] = c[1] \o c[2]
  <2> SUFFICES ASSUME Len(c) > 1 PROVE p[2] = c[1] \o c[2]
    OBVIOUS
  <2>1. 1 \in 0 .. Len(c) - 1 /\ 1 + 1 = 2 /\ Len(c) > 0
    BY <1>1
  <2>2. p[1 + 1] = p[1] \o c[1 + 1]
    BY <1>2, <2>1, Zenon
  <2> QED BY <1>3, <2>1, <2>2, Zenon
<1>5. Len(c) > 2 => p[3] = c[1] \o c[2] \o c[3]
  <2> SUFFICES ASSUME Len(c) > 2 PROVE p[3] = c[1] \o c[2] \o c[3]
    OBVIOUS
  <2>1. 2 \in 0 .. Len(c) - 1 /\ 2 + 1 = 3 /\ Len(c) > 1
    BY <1>1
  <2>2. p[2 + 1] = p[2] \o c[2 + 1]
    BY <1>2, <2>1, Zenon
  <2> QED BY <1>4, <2>1, <2>2, Zenon
<1>6. Len(c) > 5 => p[6] = c[1] \o c[2] \o c[3] \o c[4] \o c[5] \o c[6]
  <2> SUFFICES ASSUME Len(c) > 5 PROVE p[6] = c[1] \o c[2] \o c[3] \o c[4] \o c[5] \o c[6]
    OBVIOUS
  <2>1. /\ 3 \in 0 .. Len(c) - 1 /\ 4 \in 0 .. Len(c) - 1 /\ 5 \in 0 .. Len(c) - 1
        /\ 3 + 1 = 4 /\ 4 + 1 = 5 /\ 5 + 1 = 6 /\ Len(c) > 2
    BY <1>1
  <2>2. /\ p[3 + 1] = p[3] \o c[3 + 1] /\ p[4 + 1] = p[4] \o c[4 + 1]
        /\ p[5 + 1] = p[5] \o c[5 + 1]
    BY <1>2, <2>1, Zenon
  <2> QED BY <1>5, <2>1, <2>2, Zenon
<1> QED BY <1>1, <1>3, <1>4, <1>5, <1>6
=============================================================================
