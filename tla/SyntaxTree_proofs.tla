------------------------- MODULE SyntaxTree_proofs -------------------------
(***************************************************************************)
(* The parser keeps its stack, its heap and its automaton in step: from    *)
(* this come the order of the lists, the ownership of every cell, and what *)
(* an accepted tree has.                                                   *)
(***************************************************************************)
EXTENDS SemanticActions_proofs

-----------------------------------------------------------------------------
(* The stack of the parser                                                 *)

Frames == [items : SUBSET AllItems, ptr : Nat]
\* The i-th symbol of the stack was read in the state below it.
ReadAt(h, st, i) ==
    \E X \in NextSymbols(st[i - 1].items) :
        st[i].items = Goto(st[i - 1].items, X) /\ Fits(h, X, st[i].ptr)
StackOK(h, st) ==
    /\ st \in Seq(Frames) /\ Len(st) > 0 /\ st[1] = [items |-> Start, ptr |-> 0]
    /\ \A i \in 2 .. Len(st) : ReadAt(h, st, i)

LEMMA StackFacts ==
    ASSUME NEW h, NEW st, StackOK(h, st)
    PROVE  /\ Len(st) \in Nat /\ Len(st) > 0 /\ DOMAIN st = 1 .. Len(st)
           /\ st[1].items = Start /\ st[1].ptr = 0
           /\ \A i \in 1 .. Len(st) : st[i].items \subseteq AllItems /\ st[i].ptr \in Nat
           /\ \A i \in 2 .. Len(st) : Stated(st[i].items) /\ i - 1 \in 1 .. Len(st)
<1>1. Len(st) \in Nat /\ Len(st) > 0 /\ DOMAIN st = 1 .. Len(st) /\ \A i \in 1 .. Len(st) : st[i] \in Frames
  BY DEF StackOK
<1>2. st[1].items = Start /\ st[1].ptr = 0
  BY DEF StackOK
<1>3. \A i \in 1 .. Len(st) : st[i].items \subseteq AllItems /\ st[i].ptr \in Nat
  BY <1>1 DEF Frames
<1>4. ASSUME NEW i \in 2 .. Len(st) PROVE Stated(st[i].items) /\ i - 1 \in 1 .. Len(st)
  <2>1. i - 1 \in 1 .. Len(st)
    BY <1>1
  <2>2. PICK X \in NextSymbols(st[i - 1].items) : st[i].items = Goto(st[i - 1].items, X)
    BY DEF StackOK, ReadAt
  <2>3. st[i - 1].items \subseteq AllItems
    BY <1>3, <2>1
  <2>4. Stated(Goto(st[i - 1].items, X))
    BY <2>3, GotoIs
  <2> QED BY <2>1, <2>2, <2>4
<1> QED BY <1>1, <1>2, <1>3, <1>4

\* One symbol of an item that has been read.
LEMMA ReadOne ==
    ASSUME NEW h, NEW st, StackOK(h, st), NEW i \in 1 .. Len(st), NEW e, e \in st[i].items, e[2] > 0
    PROVE  /\ i \in 2 .. Len(st) /\ i - 1 \in 1 .. Len(st)
           /\ <<e[1], e[2] - 1>> \in st[i - 1].items
           /\ Fits(h, Rules[e[1]].rhs[e[2]], st[i].ptr)
<1>1. i # 1
  <2> SUFFICES ASSUME i = 1 PROVE FALSE
    OBVIOUS
  <2>1. e \in Start
    BY StackFacts
  <2>2. e[2] = 0
    BY <2>1, StartIs
  <2> QED BY <2>2
<1>2. i \in 2 .. Len(st) /\ i - 1 \in 1 .. Len(st)
  BY <1>1, StackFacts
<1>3. PICK X \in NextSymbols(st[i - 1].items) :
          st[i].items = Goto(st[i - 1].items, X) /\ Fits(h, X, st[i].ptr)
  BY <1>2 DEF StackOK, ReadAt
<1>4. st[i - 1].items \subseteq AllItems
  BY <1>2, StackFacts
<1>5. e \in Goto(st[i - 1].items, X)
  BY <1>3
<1>6. <<e[1], e[2] - 1>> \in st[i - 1].items /\ Rules[e[1]].rhs[e[2]] = X
  BY <1>4, <1>5, GotoIs
<1> QED BY <1>2, <1>3, <1>6

\* Where an item was begun.
Begun0(h, st, i, r, n) ==
    /\ n < i
    /\ \A k \in 0 .. n : <<r, k>> \in st[i - n + k].items
    /\ \A k \in 1 .. n : Fits(h, Rules[r].rhs[k], st[i - n + k].ptr)
LEMMA ItemBegun ==
    ASSUME NEW h, NEW st, StackOK(h, st)
    PROVE  \A n \in Nat : \A i \in 1 .. Len(st) : \A r \in 1 .. 45 :
               <<r, n>> \in st[i].items => Begun0(h, st, i, r, n)
<1> DEFINE Ok(n) == \A i \in 1 .. Len(st) : \A r \in 1 .. 45 :
                        <<r, n>> \in st[i].items => Begun0(h, st, i, r, n)
           G == {n \in Nat : Ok(n)}
<1>0. Len(st) \in Nat
  BY StackFacts
<1>1. 0 \in G
  <2> SUFFICES ASSUME NEW i \in 1 .. Len(st), NEW r \in 1 .. 45, <<r, 0>> \in st[i].items
               PROVE  Begun0(h, st, i, r, 0)
    OBVIOUS
  <2>1. i - 0 + 0 = i /\ 0 < i
    BY <1>0
  <2> QED BY <2>1 DEF Begun0
<1>2. ASSUME NEW n \in Nat, n \in G PROVE n + 1 \in G
  <2> SUFFICES Ok(n + 1)
    <3> HIDE DEF Ok
    <3> QED OBVIOUS
  <2> SUFFICES ASSUME NEW i \in 1 .. Len(st), NEW r \in 1 .. 45, <<r, n + 1>> \in st[i].items
               PROVE  Begun0(h, st, i, r, n + 1)
    OBVIOUS
  <2> DEFINE e == <<r, n + 1>>
  <2>1. e[1] = r /\ e[2] = n + 1 /\ e[2] > 0 /\ e[2] - 1 = n
    OBVIOUS
  <2>2. /\ i \in 2 .. Len(st) /\ i - 1 \in 1 .. Len(st)
        /\ <<r, n>> \in st[i - 1].items
        /\ Fits(h, Rules[r].rhs[n + 1], st[i].ptr)
    <3> HIDE DEF e
    <3>1. e \in st[i].items
      BY DEF e
    <3>2. /\ i \in 2 .. Len(st) /\ i - 1 \in 1 .. Len(st)
          /\ <<e[1], e[2] - 1>> \in st[i - 1].items
          /\ Fits(h, Rules[e[1]].rhs[e[2]], st[i].ptr)
      BY <2>1, <3>1, ReadOne
    <3> QED BY <2>1, <3>2
  <2>3. Begun0(h, st, i - 1, r, n)
    BY <1>2, <2>2
  <2>4. n + 1 < i
    BY <2>2, <2>3, <1>0 DEF Begun0
  <2>5. \A k \in 0 .. n : (i - 1) - n + k = i - (n + 1) + k
    BY <1>0
  <2>6. i - (n + 1) + (n + 1) = i
    BY <1>0
  <2>7. ASSUME NEW k \in 0 .. n + 1 PROVE <<r, k>> \in st[i - (n + 1) + k].items
    <3>1. CASE k = n + 1
      BY <3>1, <2>6
    <3>2. CASE k # n + 1
      <4>1. k \in 0 .. n
        BY <3>2
      <4>2. <<r, k>> \in st[(i - 1) - n + k].items
        BY <4>1, <2>3 DEF Begun0
      <4> QED BY <4>1, <4>2, <2>5
    <3> QED BY <3>1, <3>2
  <2>8. ASSUME NEW k \in 1 .. n + 1 PROVE Fits(h, Rules[r].rhs[k], st[i - (n + 1) + k].ptr)
    <3>1. CASE k = n + 1
      BY <3>1, <2>2, <2>6
    <3>2. CASE k # n + 1
      <4>1. k \in 1 .. n /\ k \in 0 .. n
        BY <3>2
      <4>2. Fits(h, Rules[r].rhs[k], st[(i - 1) - n + k].ptr)
        BY <4>1, <2>3 DEF Begun0
      <4> QED BY <4>1, <4>2, <2>5
    <3> QED BY <3>1, <3>2
  <2> QED BY <2>4, <2>7, <2>8 DEF Begun0
<1>3. \A n \in Nat : n \in G
  <2> HIDE DEF G
  <2> QED BY <1>1, <1>2, NumberInduction
<1> QED BY <1>3

\* What is on the stack when a rule is due.
Popped(h, st, r, n) ==
    /\ n \in Nat /\ n = Len(Rules[r].rhs) /\ Len(st) - n \in 1 .. Len(st)
    /\ \A k \in 1 .. n : Fits(h, Rules[r].rhs[k], st[Len(st) - n + k].ptr)
    /\ <<r, 0>> \in st[Len(st) - n].items
    /\ r # 1 => Rules[r].lhs \in NextSymbols(st[Len(st) - n].items)
LEMMA PoppedIs ==
    ASSUME NEW h, NEW st, StackOK(h, st), NEW r, r \in Complete(st[Len(st)].items)
    PROVE  r \in 1 .. 45 /\ Popped(h, st, r, Len(Rules[r].rhs))
<1>1. Len(st) \in Nat /\ Len(st) > 0 /\ st[Len(st)].items \subseteq AllItems
  BY StackFacts
<1>2. PICK e \in st[Len(st)].items : ~Unread(e) /\ r = e[1]
  BY DEF Complete
<1>3. r \in 1 .. 45 /\ e[2] \in Nat /\ e = <<r, e[2]>> /\ e[2] <= Len(Rules[r].rhs)
  BY <1>1, <1>2, ItemIs
<1> DEFINE n == Len(Rules[r].rhs)
<1>4. n \in Nat
  BY <1>3, RhsLong
<1>5. e[2] = n
  BY <1>2, <1>3, <1>4 DEF Unread
<1>6. <<r, n>> \in st[Len(st)].items
  BY <1>3, <1>5
<1>7. Begun0(h, st, Len(st), r, n)
  <2>1. Len(st) \in 1 .. Len(st)
    BY <1>1
  <2> HIDE DEF n
  <2> QED BY <2>1, <1>3, <1>4, <1>6, ItemBegun
<1> HIDE DEF n
<1>8. Len(st) - n \in 1 .. Len(st) /\ <<r, 0>> \in st[Len(st) - n].items
  <2>1. n < Len(st) /\ <<r, 0>> \in st[Len(st) - n + 0].items
    BY <1>4, <1>7 DEF Begun0
  <2>2. Len(st) - n + 0 = Len(st) - n
    BY <1>1, <1>4
  <2> QED BY <2>1, <2>2, <1>1, <1>4
<1>9. r # 1 => Rules[r].lhs \in NextSymbols(st[Len(st) - n].items)
  <2> DEFINE b == Len(st) - n
  <2>1. CASE b = 1
    BY <2>1, <1>3, <1>8, StackFacts, StartIs
  <2>2. CASE b # 1
    <3>1. b \in 2 .. Len(st)
      BY <2>2, <1>1, <1>4, <1>8
    <3>2. Stated(st[b].items)
      BY <3>1, StackFacts
    <3> QED BY <3>2, <1>3, <1>8 DEF Stated
  <2> QED BY <2>1, <2>2
<1> QED BY <1>3, <1>4, <1>7, <1>8, <1>9 DEF Popped, Begun0, n

-----------------------------------------------------------------------------
(* What the parser holds: the values on its stack and its token's          *)

PtrAt(st, la, i) == IF i \in 1 .. Len(st) THEN st[i].ptr ELSE la.ptr
HeldBy(st, la) == {PtrAt(st, la, i) : i \in 1 .. Len(st) + 1} \ {0}
InOrder(h, st, la) ==
    \A i \in 1 .. Len(st) + 1 : \A j \in 1 .. Len(st) + 1 :
        i < j => Earlier(h, PtrAt(st, la, i), PtrAt(st, la, j))
Token(h, la) ==
    IF la.sym \in Strings THEN la.ptr # 0 /\ IsWhole(h, la.ptr, "String") ELSE la.ptr = 0
Growing(h, st, la) ==
    StackOK(h, st) /\ Sound(h, HeldBy(st, la)) /\ InOrder(h, st, la) /\ Token(h, la)

LEMMA HeldFacts ==
    ASSUME NEW h, NEW st, NEW la, Growing(h, st, la)
    PROVE  /\ Len(st) \in Nat /\ Len(st) > 0 /\ DOMAIN st = 1 .. Len(st)
           /\ \A i \in 1 .. Len(st) + 1 :
                 /\ PtrAt(st, la, i) # 0 => PtrAt(st, la, i) \in HeldBy(st, la)
                 /\ PtrAt(st, la, i) \in 0 .. Len(h)
           /\ \A i \in 1 .. Len(st) : PtrAt(st, la, i) = st[i].ptr
           /\ PtrAt(st, la, Len(st) + 1) = la.ptr
           /\ \A i \in 1 .. Len(st) + 1 : \A j \in 1 .. Len(st) + 1 :
                 i # j /\ PtrAt(st, la, i) # 0 => PtrAt(st, la, i) # PtrAt(st, la, j)
<1>1. Len(st) \in Nat /\ Len(st) > 0 /\ DOMAIN st = 1 .. Len(st)
  BY StackFacts DEF Growing
<1>2. ASSUME NEW i \in 1 .. Len(st) + 1
      PROVE  /\ PtrAt(st, la, i) # 0 => PtrAt(st, la, i) \in HeldBy(st, la)
             /\ PtrAt(st, la, i) \in 0 .. Len(h)
  <2>1. PtrAt(st, la, i) # 0 => PtrAt(st, la, i) \in HeldBy(st, la)
    BY DEF HeldBy
  <2>2. HeldBy(st, la) \subseteq 1 .. Len(h) /\ Len(h) \in Nat
    BY SoundFacts DEF Growing
  <2> QED BY <2>1, <2>2
<1>3. \A i \in 1 .. Len(st) : PtrAt(st, la, i) = st[i].ptr
  BY DEF PtrAt
<1>4. PtrAt(st, la, Len(st) + 1) = la.ptr
  BY <1>1 DEF PtrAt
<1>5. ASSUME NEW i \in 1 .. Len(st) + 1, NEW j \in 1 .. Len(st) + 1, i < j,
             PtrAt(st, la, i) # 0 \/ PtrAt(st, la, j) # 0
      PROVE  PtrAt(st, la, i) # PtrAt(st, la, j)
  <2>1. Earlier(h, PtrAt(st, la, i), PtrAt(st, la, j))
    BY <1>5 DEF Growing, InOrder
  <2>2. PtrAt(st, la, i) \in Nat
    BY <1>2, SoundFacts DEF Growing
  <2>3. Differ(PtrAt(st, la, i), PtrAt(st, la, j))
    BY <2>1, <2>2, EarlierDiffers
  <2> QED BY <2>3, <1>5 DEF Differ
<1>6. ASSUME NEW i \in 1 .. Len(st) + 1, NEW j \in 1 .. Len(st) + 1, i # j, PtrAt(st, la, i) # 0
      PROVE  PtrAt(st, la, i) # PtrAt(st, la, j)
  <2>1. i < j \/ j < i
    BY <1>1, <1>6
  <2> QED BY <2>1, <1>5, <1>6
<1> QED BY <1>1, <1>2, <1>3, <1>4, <1>6

\* What a value fits depends on its cell alone.
LEMMA FitsKept ==
    ASSUME NEW h, NEW g, NEW X, NEW p, Fits(h, X, p),
           p # 0 => p \in DOMAIN g /\ g[p] = h[p]
    PROVE  Fits(g, X, p)
BY DEF Fits, IsWhole, IsBody

LEMMA MarksThere ==
    ASSUME NEW h, NEW K, Sound(h, K), NEW o \in K
    PROVE  Marks(h, o) \subseteq DOMAIN h
<1>1. Ownership(h, K) /\ Open(h, o) /\ K \subseteq DOMAIN h /\ DOMAIN h = 1 .. Len(h)
      /\ Len(h) \in Nat
  BY SoundFacts DEF Sound
<1>2. \A e \in DOMAIN h : Lead(h[e]) \in 0 .. Len(h)
  BY <1>1, HeapFacts
<1>3. \A e \in Tips(h, o) : e \in DOMAIN h
  BY <1>1, TipFacts
<1>4. \A v \in 0 .. Len(h) : v # 0 => v \in DOMAIN h
  BY <1>1
<1> QED BY <1>1, <1>2, <1>3, <1>4 DEF Marks

\* What was made of what was held stays in its place.
LEMMA EarlierKept ==
    ASSUME NEW h, NEW g, NEW K, NEW A, NEW P, Steps(h, K, A, g, P), Sound(h, K),
           NEW x, x = 0 \/ x \in K \ A, NEW y, y = 0 \/ y \in K \ A, Earlier(h, x, y)
    PROVE  Earlier(g, x, y)
<1> SUFFICES ASSUME x # 0, y # 0 PROVE Before(g, x, y)
  BY DEF Earlier
<1>1. Marks(g, x) = Marks(h, x) /\ Marks(g, y) = Marks(h, y) /\ x \in K /\ y \in K
  BY DEF Steps
<1>2. Before(h, x, y)
  BY DEF Earlier
<1>3. \A e \in DOMAIN h : g[e].tag = h[e].tag
  BY DEF Steps
<1>4. \A o \in K : Marks(h, o) \subseteq DOMAIN h
  BY MarksThere
<1> QED BY <1>1, <1>2, <1>3, <1>4 DEF Before

\* What was made comes after what is held before all that it was made of.
LEMMA EarlierMade ==
    ASSUME NEW h, NEW g, NEW K, NEW A, NEW P, Steps(h, K, A, g, P), Sound(h, K),
           NEW x, x = 0 \/ x \in K \ A, NEW p, p = 0 \/ p \in P,
           \A a \in A : Earlier(h, x, a)
    PROVE  Earlier(g, x, p)
<1> SUFFICES ASSUME x # 0, p # 0 PROVE Before(g, x, p)
  BY DEF Earlier
<1>1. /\ Marks(g, x) = Marks(h, x) /\ x \in K /\ A \subseteq K
      /\ Marks(g, p) \subseteq (UNION {Marks(h, a) : a \in A}) \cup (DOMAIN g \ DOMAIN h)
      /\ \A e \in DOMAIN h : g[e].tag = h[e].tag
  BY DEF Steps
<1>2. \A a \in A : a # 0 /\ Before(h, x, a)
  BY <1>1, SoundFacts DEF Earlier
<1>3. \A o \in K : Marks(h, o) \subseteq DOMAIN h
  BY MarksThere
<1>4. Len(h) \in Nat /\ DOMAIN h = 1 .. Len(h) /\ Len(g) \in Nat /\ DOMAIN g = 1 .. Len(g)
  <2>1. PICK J : J = (K \ A) \cup P
    OBVIOUS
  <2>2. Sound(g, J)
    BY <2>1 DEF Steps
  <2> QED BY <2>2, SoundFacts
<1>5. SUFFICES ASSUME NEW u \in Marks(g, x), NEW v \in Marks(g, p),
                      g[u].tag = "String" <=> g[v].tag = "String"
               PROVE  u < v
  BY DEF Before
<1>6. CASE v \in DOMAIN g \ DOMAIN h
  <2>1. u \in DOMAIN h
    BY <1>1, <1>3, <1>5
  <2> QED BY <2>1, <1>4, <1>6
<1>7. CASE v \notin DOMAIN g \ DOMAIN h
  <2>1. PICK a \in A : v \in Marks(h, a)
    BY <1>1, <1>5, <1>7
  <2>2. u \in DOMAIN h /\ v \in DOMAIN h /\ u \in Marks(h, x)
    BY <2>1, <1>1, <1>3, <1>5
  <2> QED BY <2>1, <2>2, <1>1, <1>2, <1>5 DEF Before
<1> QED BY <1>6, <1>7

\* And the string of the next token after it.
LEMMA MadeEarlier ==
    ASSUME NEW h, NEW g, NEW K, NEW A, NEW P, Steps(h, K, A, g, P), Sound(h, K),
           NEW p, p = 0 \/ p \in P, NEW y, y = 0 \/ (y \in K \ A /\ h[y].tag = "String"),
           \A a \in A : Earlier(h, a, y)
    PROVE  Earlier(g, p, y)
<1> SUFFICES ASSUME p # 0, y # 0 PROVE Before(g, p, y)
  BY DEF Earlier
<1>1. /\ Marks(g, y) = Marks(h, y) /\ y \in K /\ A \subseteq K /\ K \subseteq DOMAIN h
      /\ Marks(g, p) \subseteq (UNION {Marks(h, a) : a \in A}) \cup (DOMAIN g \ DOMAIN h)
      /\ \A e \in DOMAIN h : g[e].tag = h[e].tag
      /\ \A e \in DOMAIN g \ DOMAIN h : g[e].tag # "String"
  BY DEF Steps
<1>2. \A a \in A : a # 0 /\ Before(h, a, y)
  BY <1>1, SoundFacts DEF Earlier
<1>3. \A o \in K : Marks(h, o) \subseteq DOMAIN h
  BY MarksThere
<1>4. Marks(h, y) = {y}
  <2>1. EndNames("String") = {} /\ "String" \notin Chained
    BY EndFacts, LayoutSmall, SlotFacts DEF ListTags
  <2>2. Tips(h, y) = {} /\ Lead(h[y]) = 0
    BY <2>1 DEF Tips, Lead
  <2> QED BY <2>2 DEF Marks
<1>5. SUFFICES ASSUME NEW u \in Marks(g, p), NEW v \in Marks(g, y),
                      g[u].tag = "String" <=> g[v].tag = "String"
               PROVE  u < v
  BY DEF Before
<1>6. v = y /\ g[v].tag = "String"
  BY <1>1, <1>4, <1>5
<1>7. PICK a \in A : u \in Marks(h, a)
  BY <1>1, <1>5, <1>6
<1>8. u \in DOMAIN h
  BY <1>1, <1>3, <1>7
<1> QED BY <1>1, <1>2, <1>4, <1>5, <1>6, <1>7, <1>8 DEF Before

\* The symbols of the stack above the b-th become one, whose value is p.
Reduced(st, b, X, p) ==
    LET below == SubSeq(st, 1, b)
    IN  Append(below, [items |-> Goto(below[Len(below)].items, X), ptr |-> p])
OnTop(st, b) == {st[i].ptr : i \in b + 1 .. Len(st)} \ {0}

ReducedTo(s, st, b, X, p) ==
    /\ s \in Seq(Frames) /\ Len(s) = b + 1 /\ \A i \in 1 .. b : s[i] = st[i]
    /\ s[b + 1] = [items |-> Goto(st[b].items, X), ptr |-> p]
LEMMA ReducedIs ==
    ASSUME NEW h, NEW st, StackOK(h, st), NEW b \in 1 .. Len(st),
           NEW X, X \in NextSymbols(st[b].items), NEW p \in Nat, NEW s, s = Reduced(st, b, X, p)
    PROVE  ReducedTo(s, st, b, X, p)
<1> DEFINE below == SubSeq(st, 1, b)
<1>1. st \in Seq(Frames) /\ Len(st) \in Nat /\ b \in 1 .. Len(st)
  BY DEF StackOK
<1>2. below \in Seq(Frames) /\ Len(below) = b /\ \A i \in 1 .. b : below[i] = st[i]
  <2>1. \A i \in 1 .. b : st[i] \in Frames
    BY <1>1
  <2> QED BY <1>1, <2>1
<1>3. below[Len(below)] = st[b]
  BY <1>1, <1>2
<1>4. s = Append(below, [items |-> Goto(st[b].items, X), ptr |-> p])
  BY <1>3 DEF Reduced
<1>5. [items |-> Goto(st[b].items, X), ptr |-> p] \in Frames
  <2>1. st[b].items \subseteq AllItems
    BY <1>1, StackFacts
  <2>2. Stated(Goto(st[b].items, X))
    BY <2>1, GotoIs
  <2>3. Goto(st[b].items, X) \subseteq AllItems
    BY <2>2 DEF Stated
  <2> QED BY <2>3 DEF Frames
<1> HIDE DEF below
<1>6. PICK f : f = [items |-> Goto(st[b].items, X), ptr |-> p]
  OBVIOUS
<1>7. Append(below, f) \in Seq(Frames) /\ Len(Append(below, f)) = b + 1 /\ Append(below, f)[b + 1] = f
      /\ \A i \in 1 .. b : Append(below, f)[i] = st[i]
  BY <1>1, <1>2, <1>5, <1>6
<1> QED BY <1>4, <1>6, <1>7 DEF ReducedTo

LEMMA ReduceKeeps ==
    ASSUME NEW h, NEW st, NEW la, Growing(h, st, la), NEW b \in 1 .. Len(st),
           NEW X, X \in NextSymbols(st[b].items), NEW p \in Nat,
           NEW A, A \ {0} = OnTop(st, b), NEW K, K = HeldBy(st, la), NEW g, Made(h, K, A, g, p, X),
           NEW s, s = Reduced(st, b, X, p)
    PROVE  Growing(g, s, la)
<1>1. PICK B : B = A \ {0}
  OBVIOUS
<1>2. PICK P : P = {p} \ {0}
  OBVIOUS
<1>3. Steps(h, K, B, g, P) /\ Fits(g, X, p) /\ Sound(h, K) /\ B = OnTop(st, b)
  BY <1>1, <1>2 DEF Made, Growing
<1>4. /\ StackOK(h, st) /\ Len(st) \in Nat /\ b \in 1 .. Len(st) /\ st \in Seq(Frames)
  BY HeldFacts DEF Growing, StackOK
<1>5. /\ s \in Seq(Frames) /\ Len(s) = b + 1 /\ \A i \in 1 .. b : s[i] = st[i]
      /\ s[b + 1] = [items |-> Goto(st[b].items, X), ptr |-> p]
  <2>1. ReducedTo(s, st, b, X, p)
    BY <1>4, ReducedIs
  <2> QED BY <2>1 DEF ReducedTo
<1>6. /\ B \subseteq K /\ K \subseteq DOMAIN h /\ DOMAIN h \subseteq DOMAIN g /\ Sound(g, (K \ B) \cup P)
      /\ \A o \in K \ B : g[o] = h[o]
  BY <1>3 DEF Steps
<1>7. ASSUME NEW i \in 1 .. Len(st) + 1, i <= b \/ i = Len(st) + 1
      PROVE  PtrAt(st, la, i) = 0 \/ PtrAt(st, la, i) \in K \ B
  <2>1. PtrAt(st, la, i) # 0 => PtrAt(st, la, i) \in K
    BY HeldFacts
  <2>2. ASSUME NEW j \in b + 1 .. Len(st), PtrAt(st, la, i) # 0 PROVE PtrAt(st, la, i) # st[j].ptr
    <3>1. j \in 1 .. Len(st) + 1 /\ j \in 1 .. Len(st) /\ i # j
      BY <1>4, <1>7
    <3>2. PtrAt(st, la, i) # PtrAt(st, la, j)
      BY <2>2, <3>1, HeldFacts
    <3> QED BY <3>1, <3>2, HeldFacts
  <2>3. PtrAt(st, la, i) # 0 => PtrAt(st, la, i) \notin B
    BY <2>2, <1>3 DEF OnTop
  <2> QED BY <2>1, <2>3
<1>8. ASSUME NEW i \in 1 .. Len(st) + 1, i > b, i < Len(st) + 1, PtrAt(st, la, i) # 0
      PROVE  PtrAt(st, la, i) \in B
  <2>1. i \in b + 1 .. Len(st) /\ i \in 1 .. Len(st)
    BY <1>4, <1>8
  <2>2. PtrAt(st, la, i) = st[i].ptr
    BY <2>1, HeldFacts
  <2> QED BY <2>1, <2>2, <1>3, <1>8 DEF OnTop
<1>9. /\ \A i \in 1 .. b : PtrAt(s, la, i) = PtrAt(st, la, i)
      /\ PtrAt(s, la, b + 1) = p
      /\ PtrAt(s, la, b + 2) = PtrAt(st, la, Len(st) + 1)
  <2>1. \A i \in 1 .. b : i \in 1 .. Len(s) /\ i \in 1 .. Len(st)
    BY <1>4, <1>5
  <2>2. b + 1 \in 1 .. Len(s) /\ b + 2 \notin 1 .. Len(s) /\ Len(st) + 1 \notin 1 .. Len(st)
    BY <1>4, <1>5
  <2> QED BY <2>1, <2>2, <1>5 DEF PtrAt
<1>10. HeldBy(s, la) = (K \ B) \cup P
  <2>1. ASSUME NEW v \in HeldBy(s, la) PROVE v \in (K \ B) \cup P
    <3>1. PICK i \in 1 .. Len(s) + 1 : v = PtrAt(s, la, i) /\ v # 0
      BY DEF HeldBy
    <3>2. i \in 1 .. b \/ i = b + 1 \/ i = b + 2
      BY <1>4, <1>5, <3>1
    <3>3. CASE i \in 1 .. b
      <4>1. i \in 1 .. Len(st) + 1 /\ i <= b
        BY <1>4, <3>3
      <4> QED BY <4>1, <3>1, <3>3, <1>7, <1>9
    <3>4. CASE i = b + 1
      BY <3>1, <3>4, <1>2, <1>9
    <3>5. CASE i = b + 2
      <4>1. Len(st) + 1 \in 1 .. Len(st) + 1
        BY <1>4
      <4> QED BY <4>1, <3>1, <3>5, <1>7, <1>9
    <3> QED BY <3>2, <3>3, <3>4, <3>5
  <2>2. ASSUME NEW v \in K \ B PROVE v \in HeldBy(s, la)
    <3>1. PICK i \in 1 .. Len(st) + 1 : v = PtrAt(st, la, i) /\ v # 0
      BY DEF HeldBy
    <3>2. i <= b \/ i = Len(st) + 1
      BY <3>1, <2>2, <1>4, <1>8
    <3>3. CASE i <= b
      <4>1. i \in 1 .. b /\ i \in 1 .. Len(s) + 1
        BY <1>4, <1>5, <3>3
      <4> QED BY <4>1, <3>1, <1>9 DEF HeldBy
    <3>4. CASE i = Len(st) + 1
      <4>1. b + 2 \in 1 .. Len(s) + 1
        BY <1>4, <1>5
      <4> QED BY <4>1, <3>1, <3>4, <1>9 DEF HeldBy
    <3> QED BY <3>2, <3>3, <3>4
  <2>3. ASSUME NEW v \in P PROVE v \in HeldBy(s, la)
    <3>1. v = p /\ v # 0
      BY <1>2
    <3>2. b + 1 \in 1 .. Len(s) + 1
      BY <1>4, <1>5
    <3> QED BY <3>1, <3>2, <1>9 DEF HeldBy
  <2> QED BY <2>1, <2>2, <2>3
<1>11. Sound(g, HeldBy(s, la))
  BY <1>6, <1>10
<1>12. StackOK(g, s)
  <2>1. ASSUME NEW i \in 2 .. Len(s) PROVE ReadAt(g, s, i)
    <3>1. CASE i = b + 1
      <4>1. s[i].items = Goto(st[b].items, X) /\ s[i].ptr = p /\ i - 1 = b /\ s[b] = st[b]
        BY <1>4, <1>5, <3>1
      <4> QED BY <4>1, <1>3 DEF ReadAt
    <3>2. CASE i # b + 1
      <4>1. i \in 2 .. Len(st) /\ i \in 1 .. b /\ i - 1 \in 1 .. b /\ i <= b /\ i \in 1 .. Len(st) + 1
            /\ i \in 1 .. Len(st)
        BY <1>4, <1>5, <3>2
      <4>2. PICK Y \in NextSymbols(st[i - 1].items) :
                st[i].items = Goto(st[i - 1].items, Y) /\ Fits(h, Y, st[i].ptr)
        BY <4>1, <1>4 DEF StackOK, ReadAt
      <4>3. st[i].ptr = 0 \/ st[i].ptr \in K \ B
        BY <4>1, <1>7, HeldFacts
      <4>4. Fits(g, Y, st[i].ptr)
        BY <4>2, <4>3, <1>6, FitsKept
      <4>5. s[i] = st[i] /\ s[i - 1] = st[i - 1]
        BY <4>1, <1>5
      <4> QED BY <4>2, <4>4, <4>5 DEF ReadAt
    <3> QED BY <3>1, <3>2
  <2>2. Len(s) > 0 /\ s[1] = st[1] /\ st[1] = [items |-> Start, ptr |-> 0]
    BY <1>4, <1>5 DEF StackOK
  <2> QED BY <2>1, <2>2, <1>5 DEF StackOK
<1>13. Token(g, la)
  <2>1. la.ptr = 0 \/ la.ptr \in K \ B
    <3>1. Len(st) + 1 \in 1 .. Len(st) + 1
      BY <1>4
    <3> QED BY <3>1, <1>7, HeldFacts
  <2>2. Token(h, la)
    BY DEF Growing
  <2> QED BY <2>1, <2>2, <1>6 DEF Token, IsWhole
<1>14. ASSUME NEW i \in 1 .. Len(s) + 1, NEW j \in 1 .. Len(s) + 1, i < j
       PROVE  Earlier(g, PtrAt(s, la, i), PtrAt(s, la, j))
  <2>1. \A u, v \in 1 .. Len(st) + 1 : u < v => Earlier(h, PtrAt(st, la, u), PtrAt(st, la, v))
    BY DEF Growing, InOrder
  <2>2. PICK last : last = Len(st) + 1
    OBVIOUS
  <2>3. CASE i \in 1 .. b
    <3>1. i \in 1 .. Len(st) + 1 /\ i <= b /\ i < last /\ last \in 1 .. Len(st) + 1
      BY <1>4, <2>2, <2>3
    <3>2. PICK x : x = PtrAt(st, la, i)
      OBVIOUS
    <3>3. (x = 0 \/ x \in K \ B) /\ PtrAt(s, la, i) = x
      BY <3>1, <3>2, <1>7, <1>9, <2>3
    <3>4. CASE j \in 1 .. b
      <4>1. j \in 1 .. Len(st) + 1 /\ j <= b
        BY <1>4, <3>4
      <4>2. PICK y : y = PtrAt(st, la, j)
        OBVIOUS
      <4>3. y = 0 \/ y \in K \ B
        BY <4>1, <4>2, <1>7
      <4>4. Earlier(h, x, y) /\ PtrAt(s, la, j) = y
        BY <2>1, <3>1, <3>2, <4>1, <4>2, <3>4, <1>9, <1>14
      <4> QED BY <3>3, <4>3, <4>4, <1>3, EarlierKept
    <3>5. CASE j = b + 1
      <4>1. ASSUME NEW a \in B PROVE Earlier(h, x, a)
        <5>1. PICK u \in b + 1 .. Len(st) : a = st[u].ptr
          BY <1>3 DEF OnTop
        <5>2. u \in 1 .. Len(st) /\ u \in 1 .. Len(st) + 1 /\ i < u
          BY <1>4, <2>3, <5>1
        <5>3. PtrAt(st, la, u) = a
          BY <5>1, <5>2, HeldFacts
        <5> QED BY <2>1, <3>1, <3>2, <5>2, <5>3
      <4>2. p = 0 \/ p \in P
        BY <1>2
      <4>3. Earlier(g, x, p)
        BY <4>1, <4>2, <3>3, <1>3, EarlierMade
      <4> QED BY <4>3, <3>3, <3>5, <1>9
    <3>6. CASE j = b + 2
      <4>1. PICK y : y = PtrAt(st, la, last)
        OBVIOUS
      <4>2. y = 0 \/ y \in K \ B
        BY <4>1, <3>1, <2>2, <1>7
      <4>3. Earlier(h, x, y) /\ PtrAt(s, la, j) = y
        BY <2>1, <2>2, <3>1, <3>2, <4>1, <3>6, <1>9
      <4> QED BY <3>3, <4>2, <4>3, <1>3, EarlierKept
    <3> QED BY <3>4, <3>5, <3>6, <1>4, <1>5
  <2>4. CASE i = b + 1
    <3>1. j = b + 2
      BY <2>4, <1>4, <1>5, <1>14
    <3>2. PICK y : y = PtrAt(st, la, last)
      OBVIOUS
    <3>3. last \in 1 .. Len(st) + 1
      BY <2>2, <1>4
    <3>4. (y = 0 \/ y \in K \ B) /\ PtrAt(s, la, j) = y /\ PtrAt(s, la, i) = p /\ y = la.ptr
      BY <2>2, <2>4, <3>1, <3>2, <3>3, <1>7, <1>9, HeldFacts
    <3>5. y # 0 => h[y].tag = "String"
      BY <3>4 DEF Growing, Token, IsWhole
    <3>6. ASSUME NEW a \in B PROVE Earlier(h, a, y)
      <4>1. PICK u \in b + 1 .. Len(st) : a = st[u].ptr
        BY <1>3 DEF OnTop
      <4>2. u \in 1 .. Len(st) /\ u \in 1 .. Len(st) + 1 /\ u < last
        BY <1>4, <2>2, <4>1
      <4>3. PtrAt(st, la, u) = a
        BY <4>1, <4>2, HeldFacts
      <4> QED BY <2>1, <3>2, <3>3, <4>2, <4>3
    <3>7. p = 0 \/ p \in P
      BY <1>2
    <3>8. y = 0 \/ (y \in K \ B /\ h[y].tag = "String")
      BY <3>4, <3>5
    <3>9. Earlier(g, p, y)
      BY <3>6, <3>7, <3>8, <1>3, MadeEarlier
    <3> QED BY <3>9, <3>4
  <2> QED BY <2>3, <2>4, <1>4, <1>5, <1>14
<1>15. InOrder(g, s, la)
  BY <1>14 DEF InOrder
<1> QED BY <1>11, <1>12, <1>13, <1>15 DEF Growing

-----------------------------------------------------------------------------
(* The tokens                                                              *)

\* The string of a token.
Lexed(h, K, g, n) ==
    /\ Sound(g, K \cup {n}) /\ DOMAIN h \subseteq DOMAIN g /\ n \notin DOMAIN h
    /\ \A e \in DOMAIN h : g[e] = h[e]
    /\ \A o \in K : Marks(g, o) = Marks(h, o)
    /\ Marks(g, n) = {n} /\ IsWhole(g, n, "String")

LEMMA StringLexed ==
    ASSUME NEW h, NEW K, Sound(h, K), NEW g, g = Append(h, calloc("String")),
           NEW n, n = Len(h) + 1
    PROVE  Lexed(h, K, g, n)
<1>1. /\ Ownership(h, K) /\ Ordered(h) /\ Older(h) /\ Apart(h, K) /\ \A o \in K : Open(h, o)
  BY DEF Sound
<1>2. Len(h) \in Nat /\ DOMAIN h = 1 .. Len(h) /\ h \in Seq(Cells) /\ K \subseteq DOMAIN h
  BY <1>1, HeapFacts
<1>3. PICK t : t = "String"
  OBVIOUS
<1>4. PICK upd : upd = <<>>
  OBVIOUS
<1>5. DOMAIN upd = {}
  BY <1>4
<1>6. t \in Tags /\ t \notin Chained /\ t \notin ListTags /\ Fields(t) = {} /\ EndNames(t) = {}
      /\ (\A l, u : <<t, l, u>> \notin Ends) /\ \A f, l, u : <<t, f, l, u>> \notin Begun
  <2>1. t \in Tags /\ t \notin Chained /\ t \notin ListTags
    <3>1. t \in Tags
      BY <1>3, LayoutSmall
    <3>2. t \notin Chained
      BY <1>3 DEF Chained, Leading
    <3>3. t \notin ListTags
      BY <1>3 DEF ListTags
    <3> QED BY <3>1, <3>2, <3>3
  <2>2. ASSUME NEW l, NEW u PROVE <<t, l, u>> \notin Ends
    <3>1. t \notin {"Schema", "Entity"} /\ t \notin ListTags
      BY <2>1, <1>3
    <3> QED BY <3>1 DEF Ends
  <2>3. \A f, u : <<t, f, u>> \notin Slots
    BY <1>3 DEF Slots
  <2>4. Fields(t) = {}
    <3>1. \A f : f \notin Fields(t)
      BY <2>1, <2>3, FieldsAre
    <3> QED BY <3>1
  <2>5. ASSUME NEW f, NEW l, NEW u PROVE <<t, f, l, u>> \notin Begun
    <3>1. t # "Schema" /\ t # "Entity"
      BY <1>3
    <3> QED BY <3>1 DEF Begun
  <2> QED BY <2>1, <2>2, <2>4, <2>5 DEF EndNames
<1>7. Gives(h, K, t, upd) /\ Gifts(t, upd) = {}
  BY <1>5 DEF Gives, Gifts, Values
<1>8. Adds(h, g, t, upd)
  <2>1. Values(h, t, upd) /\ Shape(h)
    BY <1>1, <1>5 DEF Values, Ownership
  <2>2. g = Append(h, New(t, upd))
    BY <1>3, <1>4 DEF calloc
  <2> QED BY <2>1, <2>2, <1>6, AppendAdds
<1>9. /\ \A e \in DOMAIN h : g[e] = h[e]
      /\ g[n].tag = t /\ g[n].next = 0 /\ DOMAIN g = DOMAIN h \cup {n} /\ n \notin DOMAIN h
      /\ n \in Nat /\ n # 0
  <2>1. "next" \in Names(t) \ {"tag"}
    BY <1>6, SlotNames
  <2>2. g \in Seq(Cells) /\ Len(g) = n /\ g[n].tag = t /\ \A e \in DOMAIN h : g[e] = h[e]
    BY <1>8 DEF Adds
  <2>3. g[n].next = 0
    BY <2>1, <1>5, <1>8 DEF Adds
  <2>4. DOMAIN g = 1 .. n
    BY <2>2, <1>2
  <2>5. DOMAIN g = DOMAIN h \cup {n} /\ n \notin DOMAIN h /\ n \in Nat /\ n # 0
    BY <2>4, <1>2
  <2> QED BY <2>2, <2>3, <2>5
<1>10. Ownership(g, K \cup {n})
  <2>1. Ownership(g, (K \ Gifts(t, upd)) \cup {n})
    BY <1>1, <1>6, <1>7, <1>8, AddsOwned
  <2> QED BY <2>1, <1>7
<1>11. Tips(g, n) = {} /\ Lead(g[n]) = 0 /\ Marks(g, n) = {n} /\ Open(g, n)
  <2>1. Tips(g, n) = {} /\ Lead(g[n]) = 0
    BY <1>6, <1>9 DEF Tips, Lead
  <2>2. Marks(g, n) = {n}
    BY <2>1, <1>9 DEF Marks
  <2>3. Open(g, n)
    BY <1>6, <1>9 DEF Open
  <2> QED BY <2>1, <2>2, <2>3
<1>12. ASSUME NEW o \in K
       PROVE  g[o] = h[o] /\ Tips(g, o) = Tips(h, o) /\ Marks(g, o) = Marks(h, o) /\ Open(g, o)
  <2>1. g[o] = h[o] /\ Tips(g, o) = Tips(h, o) /\ o \in DOMAIN h /\ h[o].tag \in Tags
    BY <1>1, <1>2, <1>9, HeapFacts DEF Tips
  <2>2. \A x \in Tips(h, o) : x \in DOMAIN h /\ g[x] = h[x]
    BY <1>1, <1>9, TipFacts
  <2>3. {Lead(g[x]) : x \in Tips(g, o)} = {Lead(h[x]) : x \in Tips(h, o)}
    BY <2>1, <2>2
  <2>4. ASSUME NEW d, Owned(h, d) PROVE Owned(g, d)
    BY <2>4, <1>9 DEF Owned, Owns
  <2>5. ASSUME NEW l, NEW u, <<h[o].tag, l, u>> \in Ends, h[o][l] # 0
        PROVE  h[o][l] \in Tips(h, o)
    BY <2>5, EndFacts DEF Tips
  <2>6. Open(g, o)
    <3>1. Open(h, o)
      BY <1>1
    <3> QED BY <3>1, <2>1, <2>2, <2>4, <2>5 DEF Open
  <2> QED BY <2>1, <2>3, <2>6 DEF Marks
<1>13. Apart(g, K \cup {n})
  <2>1. \A o \in K : Tips(g, o) = Tips(h, o)
    BY <1>12
  <2> QED BY <2>1, <1>1, <1>11 DEF Apart
<1>14. Ordered(g)
  <2> SUFFICES ASSUME NEW c \in DOMAIN g, g[c].next # 0
               PROVE  Lead(g[c]) < Lead(g[g[c].next])
    BY DEF Ordered
  <2>1. c \in DOMAIN h /\ g[c] = h[c]
    BY <1>9
  <2>2. h[c].next \in DOMAIN h
    BY <2>1, <1>1, <1>2, HeapFacts
  <2> QED BY <2>1, <2>2, <1>1, <1>9 DEF Ordered
<1>15. Older(g)
  BY <1>1, <1>3, <1>9 DEF Older
<1>16. Sound(g, K \cup {n})
  BY <1>10, <1>11, <1>12, <1>13, <1>14, <1>15 DEF Sound
<1>17. IsWhole(g, n, t)
  <2>1. \A f, u : <<t, f, u>> \notin Slots
    BY <1>6, FieldsAre
  <2>2. Whole(g[n])
    BY <2>1, <1>3, <1>9 DEF Whole
  <2> QED BY <2>2, <1>6, <1>9 DEF IsWhole
<1> QED BY <1>3, <1>9, <1>11, <1>12, <1>16, <1>17 DEF Lexed

\* The parser is given a token that has none.
LEMMA PlainToken ==
    ASSUME NEW h, NEW st, Growing(h, st, NoToken), NEW la, la.sym \notin Strings, la.ptr = 0
    PROVE  Growing(h, st, la)
<1>1. \A i : PtrAt(st, la, i) = PtrAt(st, NoToken, i)
  BY DEF PtrAt, NoToken
<1>2. HeldBy(st, la) = HeldBy(st, NoToken)
  BY <1>1 DEF HeldBy
<1>3. InOrder(h, st, la)
  BY <1>1 DEF Growing, InOrder
<1> QED BY <1>2, <1>3 DEF Growing, Token

\* Or one that is a string.
LEMMA StringToken ==
    ASSUME NEW h, NEW st, Growing(h, st, NoToken), NEW g, g = Append(h, calloc("String")),
           NEW n, n = Len(h) + 1, NEW la, la.sym \in Strings, la.ptr = n
    PROVE  Growing(g, st, la)
<1>1. PICK K : K = HeldBy(st, NoToken)
  OBVIOUS
<1>2. Sound(h, K) /\ StackOK(h, st)
  BY <1>1 DEF Growing
<1>3. Lexed(h, K, g, n)
  BY <1>2, StringLexed
<1>4. Len(st) \in Nat /\ Len(st) > 0 /\ Len(h) \in Nat /\ DOMAIN h = 1 .. Len(h) /\ K \subseteq DOMAIN h
      /\ n # 0 /\ n \in Nat
  BY <1>2, HeldFacts, SoundFacts
<1>5. /\ \A i \in 1 .. Len(st) : PtrAt(st, la, i) = st[i].ptr /\ PtrAt(st, NoToken, i) = st[i].ptr
      /\ PtrAt(st, la, Len(st) + 1) = n /\ PtrAt(st, NoToken, Len(st) + 1) = 0
  <2>1. Len(st) + 1 \notin 1 .. Len(st)
    BY <1>4
  <2> QED BY <2>1 DEF PtrAt, NoToken
<1>6. \A i \in 1 .. Len(st) + 1 : i \in 1 .. Len(st) \/ i = Len(st) + 1
  BY <1>4
<1>7. \A i \in 1 .. Len(st) : i \in 1 .. Len(st) + 1
  BY <1>4
<1>8. \A i \in 1 .. Len(st) : st[i].ptr = 0 \/ st[i].ptr \in K
  BY <1>1, <1>5, <1>7 DEF HeldBy
<1>9. HeldBy(st, la) = K \cup {n}
  <2>1. ASSUME NEW v \in HeldBy(st, la) PROVE v \in K \cup {n}
    BY <1>5, <1>6, <1>8 DEF HeldBy
  <2>2. ASSUME NEW v \in K PROVE v \in HeldBy(st, la)
    <3>1. PICK i \in 1 .. Len(st) + 1 : v = PtrAt(st, NoToken, i) /\ v # 0
      BY <1>1 DEF HeldBy
    <3>2. i \in 1 .. Len(st)
      BY <3>1, <1>5, <1>6
    <3> QED BY <3>1, <3>2, <1>5, <1>7 DEF HeldBy
  <2>3. n \in HeldBy(st, la)
    <3>1. Len(st) + 1 \in 1 .. Len(st) + 1
      BY <1>4
    <3> QED BY <3>1, <1>4, <1>5 DEF HeldBy
  <2> QED BY <2>1, <2>2, <2>3
<1>10. Sound(g, HeldBy(st, la))
  BY <1>3, <1>9 DEF Lexed
<1>11. StackOK(g, st)
  <2>1. ASSUME NEW i \in 2 .. Len(st) PROVE ReadAt(g, st, i)
    <3>1. PICK Y \in NextSymbols(st[i - 1].items) :
              st[i].items = Goto(st[i - 1].items, Y) /\ Fits(h, Y, st[i].ptr)
      BY <1>2 DEF StackOK, ReadAt
    <3>2. st[i].ptr # 0 => st[i].ptr \in DOMAIN g /\ g[st[i].ptr] = h[st[i].ptr]
      <4>1. i \in 1 .. Len(st)
        BY <1>4
      <4>2. st[i].ptr = 0 \/ st[i].ptr \in DOMAIN h
        BY <4>1, <1>4, <1>8
      <4> QED BY <4>2, <1>3 DEF Lexed
    <3>3. Fits(g, Y, st[i].ptr)
      BY <3>1, <3>2, FitsKept
    <3> QED BY <3>1, <3>3 DEF ReadAt
  <2> QED BY <2>1, <1>2 DEF StackOK
<1>12. Token(g, la)
  BY <1>3, <1>4 DEF Token, Lexed
<1>13. ASSUME NEW i \in 1 .. Len(st) + 1, NEW j \in 1 .. Len(st) + 1, i < j
       PROVE  Earlier(g, PtrAt(st, la, i), PtrAt(st, la, j))
  <2>1. i \in 1 .. Len(st)
    BY <1>13, <1>4
  <2>2. PICK x : x = st[i].ptr
    OBVIOUS
  <2>3. PtrAt(st, la, i) = x /\ (x = 0 \/ x \in K)
    BY <2>1, <2>2, <1>5, <1>8
  <2>4. CASE j \in 1 .. Len(st)
    <3>1. PICK y : y = st[j].ptr
      OBVIOUS
    <3>2. PtrAt(st, la, j) = y /\ (y = 0 \/ y \in K) /\ Earlier(h, x, y)
      <4>1. PtrAt(st, NoToken, i) = x /\ PtrAt(st, NoToken, j) = y
        BY <2>1, <2>2, <2>4, <3>1, <1>5
      <4>2. Earlier(h, PtrAt(st, NoToken, i), PtrAt(st, NoToken, j))
        BY <1>13 DEF Growing, InOrder
      <4> QED BY <4>1, <4>2, <2>4, <3>1, <1>5, <1>8
    <3>3. \A o \in K : Marks(g, o) = Marks(h, o) /\ Marks(h, o) \subseteq DOMAIN h
      BY <1>2, <1>3, MarksThere DEF Lexed
    <3>4. \A e \in DOMAIN h : g[e] = h[e]
      BY <1>3 DEF Lexed
    <3>5. ASSUME x # 0, y # 0 PROVE Before(g, x, y)
      <4>1. Before(h, x, y) /\ x \in K /\ y \in K
        BY <3>2, <3>5, <2>3 DEF Earlier
      <4> QED BY <4>1, <3>3, <3>4 DEF Before
    <3> QED BY <3>2, <3>5, <2>3 DEF Earlier
  <2>5. CASE j = Len(st) + 1
    <3>1. PtrAt(st, la, j) = n /\ Marks(g, n) = {n}
      BY <2>5, <1>3, <1>5 DEF Lexed
    <3>2. \A o \in K : Marks(g, o) \subseteq DOMAIN h
      BY <1>2, <1>3, MarksThere DEF Lexed
    <3>3. \A u \in DOMAIN h : u < n
      BY <1>4
    <3> QED BY <3>1, <3>2, <3>3, <2>3 DEF Earlier, Before
  <2> QED BY <2>4, <2>5, <1>6
<1>14. InOrder(g, st, la)
  BY <1>13 DEF InOrder
<1> QED BY <1>10, <1>11, <1>12, <1>14 DEF Growing

\* A symbol that has a cell and is no head is a string.
LEMMA KindHeads ==
    ASSUME NEW X \in DOMAIN Kind, X \notin Strings
    PROVE  X \in Heads
<1>1. Rules[2].lhs = "program" /\ Rules[3].lhs = "schema_decl" /\ Rules[4].lhs = "schema_body"
  BY DEF Rules, R
<1>2. Rules[7].lhs = "entity_decl" /\ Rules[11].lhs = "entity_body" /\ Rules[15].lhs = "attribute_decl"
  BY DEF Rules, R
<1>3. Rules[16].lhs = "modifier_list" /\ Rules[18].lhs = "modifier" /\ Rules[21].lhs = "primary_decl"
  BY DEF Rules, R
<1>4. Rules[22].lhs = "qualified_identifier_list" /\ Rules[24].lhs = "qualified_identifier" /\ Rules[26].lhs = "assert_decl"
  BY DEF Rules, R
<1>5. Rules[27].lhs = "relationship_decl" /\ Rules[28].lhs = "relationship_participant_list" /\ Rules[30].lhs = "relationship_participant"
  BY DEF Rules, R
<1>6. Rules[32].lhs = "participation_opt" /\ Rules[34].lhs = "relationship_body" /\ Rules[36].lhs = "attribute_list"
  BY DEF Rules, R
<1>7. Rules[38].lhs = "type_spec" /\ Rules[41].lhs = "expression" /\ Rules[44].lhs = "literal"
  BY DEF Rules, R
<1>8. X \in {"program", "schema_decl", "schema_body", "entity_decl", "entity_body", "attribute_decl", "modifier_list", "modifier", "primary_decl", "qualified_identifier_list", "qualified_identifier", "assert_decl", "relationship_decl", "relationship_participant_list", "relationship_participant", "participation_opt", "relationship_body", "attribute_list", "type_spec", "expression", "literal"}
  BY KindsAre DEF Strings
<1>9. \A r \in 1 .. 45 : Rules[r].lhs \in Heads
  BY HeadsAre
<1>10. 2 \in 1 .. 45 /\ 3 \in 1 .. 45 /\ 4 \in 1 .. 45
       /\ 7 \in 1 .. 45 /\ 11 \in 1 .. 45 /\ 15 \in 1 .. 45
       /\ 16 \in 1 .. 45 /\ 18 \in 1 .. 45 /\ 21 \in 1 .. 45
       /\ 22 \in 1 .. 45 /\ 24 \in 1 .. 45 /\ 26 \in 1 .. 45
       /\ 27 \in 1 .. 45 /\ 28 \in 1 .. 45 /\ 30 \in 1 .. 45
       /\ 32 \in 1 .. 45 /\ 34 \in 1 .. 45 /\ 36 \in 1 .. 45
       /\ 38 \in 1 .. 45 /\ 41 \in 1 .. 45 /\ 44 \in 1 .. 45
  OBVIOUS
<1> QED BY <1>1, <1>2, <1>3, <1>4, <1>5, <1>6, <1>7, <1>8, <1>9, <1>10

\* A token the parser shifts is what the symbol wants.
LEMMA ShiftKeeps ==
    ASSUME NEW h, NEW st, NEW la, Growing(h, st, la), NEW I, I = st[Len(st)].items,
           la.sym \in Shiftable(I),
           NEW s, s = Append(st, [items |-> Goto(I, la.sym), ptr |-> la.ptr])
    PROVE  Growing(h, s, NoToken) /\ la.sym \in NextSymbols(I) /\ la.sym \notin Heads
<1>1. PICK X : X = la.sym
  OBVIOUS
<1>2. PICK p : p = la.ptr
  OBVIOUS
<1>3. X \in NextSymbols(I) /\ X \notin Heads
  BY <1>1 DEF Shiftable
<1>4. /\ StackOK(h, st) /\ Len(st) \in Nat /\ Len(st) > 0 /\ st \in Seq(Frames) /\ p \in Nat
  <2>1. StackOK(h, st) /\ Len(st) \in Nat /\ Len(st) > 0 /\ Len(st) + 1 \in 1 .. Len(st) + 1
    BY HeldFacts DEF Growing
  <2>2. p \in 0 .. Len(h)
    BY <2>1, <1>2, HeldFacts
  <2>3. Len(h) \in Nat
    BY SoundFacts DEF Growing
  <2> QED BY <2>1, <2>2, <2>3 DEF StackOK
<1>5. Fits(h, X, p)
  <2>1. CASE X \in Strings
    <3>1. p # 0 /\ IsWhole(h, p, "String")
      BY <2>1, <1>1, <1>2 DEF Growing, Token
    <3>2. X = "IDENTIFIER" \/ X = "LIT_STRING"
      BY <2>1 DEF Strings
    <3> QED BY <3>1, <3>2, FitsIs
  <2>2. CASE X \notin Strings
    <3>1. p = 0
      BY <2>2, <1>1, <1>2 DEF Growing, Token
    <3>2. X \notin DOMAIN Kind
      BY <2>2, <1>3, KindHeads
    <3> QED BY <3>1, <3>2 DEF Fits
  <2> QED BY <2>1, <2>2
<1>6. PICK f : f = [items |-> Goto(I, X), ptr |-> p]
  OBVIOUS
<1>7. f \in Frames /\ f.items = Goto(I, X) /\ f.ptr = p
  <2>1. Len(st) \in 1 .. Len(st)
    BY <1>4
  <2>2. I \subseteq AllItems
    BY <2>1, <1>4, StackFacts
  <2>3. Stated(Goto(I, X))
    BY <2>2, <1>3, GotoIs
  <2>4. Goto(I, X) \subseteq AllItems
    BY <2>3 DEF Stated
  <2> QED BY <2>4, <1>4, <1>6 DEF Frames
<1>8. s = Append(st, f)
  BY <1>1, <1>2, <1>6
<1>9. s \in Seq(Frames) /\ Len(s) = Len(st) + 1 /\ s[Len(st) + 1] = f /\ \A i \in 1 .. Len(st) : s[i] = st[i]
  BY <1>4, <1>7, <1>8
<1>10. /\ \A i \in 1 .. Len(st) + 1 : PtrAt(s, NoToken, i) = PtrAt(st, la, i)
       /\ PtrAt(s, NoToken, Len(st) + 2) = 0
  <2>1. Len(st) + 1 \notin 1 .. Len(st) /\ Len(st) + 2 \notin 1 .. Len(s)
    BY <1>4, <1>9
  <2>2. \A i \in 1 .. Len(st) + 1 : i \in 1 .. Len(s) /\ (i \in 1 .. Len(st) \/ i = Len(st) + 1)
    BY <1>4, <1>9
  <2>3. \A i \in 1 .. Len(st) + 1 : PtrAt(s, NoToken, i) = PtrAt(st, la, i)
    BY <2>1, <2>2, <1>2, <1>7, <1>9 DEF PtrAt
  <2>4. NoToken.ptr = 0
    BY DEF NoToken
  <2> QED BY <2>1, <2>3, <2>4 DEF PtrAt
<1>11. \A i \in 1 .. Len(s) + 1 : i \in 1 .. Len(st) + 1 \/ i = Len(st) + 2
  BY <1>4, <1>9
<1>12. \A i \in 1 .. Len(st) + 1 : i \in 1 .. Len(s) + 1
  BY <1>4, <1>9
<1>13. HeldBy(s, NoToken) = HeldBy(st, la)
  BY <1>10, <1>11, <1>12 DEF HeldBy
<1>14. Sound(h, HeldBy(s, NoToken))
  BY <1>13 DEF Growing
<1>15. StackOK(h, s)
  <2>1. ASSUME NEW i \in 2 .. Len(s) PROVE ReadAt(h, s, i)
    <3>1. CASE i = Len(st) + 1
      <4>1. s[i] = f /\ s[i - 1] = st[Len(st)] /\ I = st[Len(st)].items
        BY <3>1, <1>4, <1>9
      <4> QED BY <4>1, <1>3, <1>5, <1>7 DEF ReadAt
    <3>2. CASE i # Len(st) + 1
      <4>1. i \in 2 .. Len(st) /\ i \in 1 .. Len(st) /\ i - 1 \in 1 .. Len(st)
        BY <3>2, <1>4, <1>9
      <4>2. s[i] = st[i] /\ s[i - 1] = st[i - 1] /\ ReadAt(h, st, i)
        BY <4>1, <1>4, <1>9 DEF StackOK
      <4> QED BY <4>2 DEF ReadAt
    <3> QED BY <3>1, <3>2
  <2>2. Len(s) > 0 /\ s[1] = st[1] /\ st[1] = [items |-> Start, ptr |-> 0]
    BY <1>4, <1>9 DEF StackOK
  <2> QED BY <2>1, <2>2, <1>9 DEF StackOK
<1>16. ASSUME NEW i \in 1 .. Len(s) + 1, NEW j \in 1 .. Len(s) + 1, i < j
       PROVE  Earlier(h, PtrAt(s, NoToken, i), PtrAt(s, NoToken, j))
  <2>1. CASE j = Len(st) + 2
    BY <2>1, <1>10 DEF Earlier
  <2>2. CASE j # Len(st) + 2
    <3>1. i \in 1 .. Len(st) + 1 /\ j \in 1 .. Len(st) + 1
      BY <2>2, <1>4, <1>9, <1>16
    <3>2. Earlier(h, PtrAt(st, la, i), PtrAt(st, la, j))
      BY <3>1, <1>16 DEF Growing, InOrder
    <3> QED BY <3>1, <3>2, <1>10
  <2> QED BY <2>1, <2>2
<1>17. InOrder(h, s, NoToken)
  BY <1>16 DEF InOrder
<1>18. Token(h, NoToken)
  BY DEF Token, NoToken, Strings
<1> QED BY <1>1, <1>3, <1>14, <1>15, <1>17, <1>18 DEF Growing

-----------------------------------------------------------------------------
(* What a rule that is due takes from the stack                            *)

ArgOf(st, r, k) ==
    IF Rules[r].args[k] = 0 THEN 0 ELSE st[Len(st) - Len(Rules[r].rhs) + Rules[r].args[k]].ptr
Base(st, r) == Len(st) - Len(Rules[r].rhs)
Args(st, r, a) == {ArgOf(st, r, k) : k \in DOMAIN Operands[a]}
Nulls == {<<"Entity", 2>>, <<"CreateQualifiedIdentifier", 1>>}

Taken(h, K, st, r, a) ==
    /\ a \in DOMAIN Operands /\ Rules[r].lhs = Results[a]
    /\ \A k \in DOMAIN Operands[a] :
          \/ ArgOf(st, r, k) = 0 /\ <<a, k>> \in Nulls
          \/ Has(h, K, Operands[a][k], ArgOf(st, r, k))
    /\ \A k, j \in DOMAIN Operands[a] : k < j => Earlier(h, ArgOf(st, r, k), ArgOf(st, r, j))
    /\ Args(st, r, a) \ {0} = OnTop(st, Base(st, r))
NoneTaken(st, r) == Rules[r].lhs \in May /\ OnTop(st, Base(st, r)) = {}

LEMMA TakenIs ==
    ASSUME NEW h, NEW st, NEW la, Growing(h, st, la), NEW K, K = HeldBy(st, la),
           NEW r, r \in Complete(st[Len(st)].items), r # 1, NEW a, a = Rules[r].action
    PROVE  /\ r \in 2 .. 45 /\ Base(st, r) \in 1 .. Len(st)
           /\ Rules[r].lhs \in NextSymbols(st[Base(st, r)].items)
           /\ \/ a = "Empty" /\ NoneTaken(st, r)
              \/ Taken(h, K, st, r, a)
<1> DEFINE rhs == Rules[r].rhs
           args == Rules[r].args
<1>1. StackOK(h, st)
  BY DEF Growing
<1>2. r \in 1 .. 45 /\ Popped(h, st, r, Len(rhs))
  BY <1>1, PoppedIs
<1>3. r \in 2 .. 45 /\ RuleArgs(r)
  <2>1. r \in 2 .. 45
    BY <1>2
  <2> QED BY <2>1, RulesArgs
<1>4. PICK n : n = Len(rhs)
  OBVIOUS
<1>5. PICK b : b = Len(st) - n
  OBVIOUS
<1>6. /\ n \in Nat /\ b \in 1 .. Len(st)
      /\ \A k \in 1 .. n : Fits(h, rhs[k], st[b + k].ptr)
      /\ Rules[r].lhs \in NextSymbols(st[b].items)
  BY <1>2, <1>4, <1>5 DEF Popped
<1>7. Len(st) \in Nat /\ Base(st, r) = b /\ b \in Nat
      /\ \A k : args[k] # 0 => ArgOf(st, r, k) = st[b + args[k]].ptr
  BY <1>1, <1>4, <1>5, <1>6, StackFacts DEF Base, ArgOf
<1>8. \A k : args[k] = 0 => ArgOf(st, r, k) = 0
  BY DEF ArgOf
<1> HIDE DEF rhs, args
<1>9. \A m \in 1 .. n : b + m \in 1 .. Len(st) /\ b + m \in 1 .. Len(st) + 1 /\ b + m \in b + 1 .. Len(st)
  BY <1>5, <1>6, <1>7
<1>10. \A i \in b + 1 .. Len(st) : i - b \in 1 .. n /\ b + (i - b) = i
  BY <1>5, <1>6, <1>7
<1>11. ASSUME NEW m \in 1 .. n PROVE Has(h, K, rhs[m], st[b + m].ptr)
  <2>1. PtrAt(st, la, b + m) = st[b + m].ptr
    BY <1>9, HeldFacts
  <2>2. st[b + m].ptr # 0 => st[b + m].ptr \in K
    BY <2>1, <1>9, HeldFacts
  <2>3. Fits(h, rhs[m], st[b + m].ptr)
    BY <1>6
  <2> QED BY <2>2, <2>3 DEF Has
<1>12. CASE a = "Empty" /\ Rules[r].lhs \in May /\ n = 0
  <2>1. \A i \in b + 1 .. Len(st) : FALSE
    BY <1>10, <1>12
  <2>2. OnTop(st, b) = {}
    BY <2>1 DEF OnTop
  <2> QED BY <2>2, <1>3, <1>6, <1>7, <1>12 DEF NoneTaken
<1>13. CASE ~(a = "Empty" /\ Rules[r].lhs \in May /\ n = 0)
  <2>1. /\ a \in DOMAIN Operands /\ Rules[r].lhs = Results[a] /\ DOMAIN args = DOMAIN Operands[a]
        /\ \A k \in DOMAIN args :
              \/ args[k] \in 1 .. n /\ rhs[args[k]] = Operands[a][k]
              \/ args[k] = 0 /\ <<a, k>> \in Nulls
        /\ \A k, j \in DOMAIN args : k < j /\ args[j] # 0 => args[k] < args[j]
        /\ \A i \in 1 .. n : rhs[i] \in DOMAIN Kind => \E k \in DOMAIN args : args[k] = i
    BY <1>3, <1>4, <1>13 DEF RuleArgs, rhs, args, Nulls
  <2>2. ASSUME NEW k \in DOMAIN Operands[a]
        PROVE  \/ ArgOf(st, r, k) = 0 /\ <<a, k>> \in Nulls
               \/ Has(h, K, Operands[a][k], ArgOf(st, r, k))
    <3>1. CASE args[k] = 0 /\ <<a, k>> \in Nulls
      BY <3>1, <1>8
    <3>2. CASE args[k] \in 1 .. n /\ rhs[args[k]] = Operands[a][k]
      <4>1. ArgOf(st, r, k) = st[b + args[k]].ptr
        BY <3>2, <1>7
      <4> QED BY <3>2, <4>1, <1>11
    <3> QED BY <2>1, <3>1, <3>2
  <2>3. ASSUME NEW k \in DOMAIN Operands[a], NEW j \in DOMAIN Operands[a], k < j
        PROVE  Earlier(h, ArgOf(st, r, k), ArgOf(st, r, j))
    <3>1. CASE args[k] = 0
      BY <3>1, <1>8 DEF Earlier
    <3>2. CASE args[j] = 0
      BY <3>2, <1>8 DEF Earlier
    <3>3. CASE args[k] # 0 /\ args[j] # 0
      <4>1. PICK u : u = args[k]
        OBVIOUS
      <4>2. PICK v : v = args[j]
        OBVIOUS
      <4>3. u \in 1 .. n /\ v \in 1 .. n /\ u < v
        BY <2>1, <2>3, <3>3, <4>1, <4>2
      <4>4. b + u < b + v
        BY <4>3, <1>7
      <4>5. Earlier(h, PtrAt(st, la, b + u), PtrAt(st, la, b + v))
        BY <4>3, <4>4, <1>9 DEF Growing, InOrder
      <4>6. PtrAt(st, la, b + u) = st[b + u].ptr /\ PtrAt(st, la, b + v) = st[b + v].ptr
        BY <4>3, <1>9, HeldFacts
      <4> QED BY <4>1, <4>2, <4>5, <4>6, <3>3, <1>7
    <3> QED BY <3>1, <3>2, <3>3
  <2>4. ASSUME NEW v \in Args(st, r, a) \ {0} PROVE v \in OnTop(st, b)
    <3>1. PICK k \in DOMAIN Operands[a] : v = ArgOf(st, r, k) /\ v # 0
      BY DEF Args
    <3>2. args[k] \in 1 .. n /\ v = st[b + args[k]].ptr
      BY <2>1, <3>1, <1>7, <1>8
    <3> QED BY <3>1, <3>2, <1>9 DEF OnTop
  <2>5. ASSUME NEW v \in OnTop(st, b) PROVE v \in Args(st, r, a) \ {0}
    <3>1. PICK i \in b + 1 .. Len(st) : v = st[i].ptr /\ v # 0
      BY DEF OnTop
    <3>2. PICK m : m = i - b
      OBVIOUS
    <3>3. m \in 1 .. n /\ b + m = i
      BY <3>2, <1>10
    <3>4. rhs[m] \in DOMAIN Kind
      <4>1. Fits(h, rhs[m], v)
        BY <3>1, <3>3, <1>6
      <4> QED BY <4>1, <3>1 DEF Fits
    <3>5. PICK k \in DOMAIN args : args[k] = m
      BY <2>1, <3>3, <3>4
    <3>6. args[k] # 0
      BY <3>3, <3>5
    <3>7. ArgOf(st, r, k) = v
      BY <3>1, <3>3, <3>5, <3>6, <1>7
    <3> QED BY <3>1, <3>5, <3>7, <2>1 DEF Args
  <2>6. Args(st, r, a) \ {0} = OnTop(st, b)
    BY <2>4, <2>5
  <2>7. Taken(h, K, st, r, a)
    BY <2>1, <2>2, <2>3, <2>6, <1>7 DEF Taken
  <2> QED BY <2>7, <1>3, <1>6, <1>7
<1> QED BY <1>12, <1>13

\* An action may give back what it made of them.
Acts(h, st, la, r, g, p) ==
    Made(h, HeldBy(st, la), OnTop(st, Base(st, r)), g, p, Rules[r].lhs)

LEMMA ActNumber ==
    ASSUME NEW h, NEW st, NEW la, Growing(h, st, la), NEW r, NEW g, NEW p, Acts(h, st, la, r, g, p)
    PROVE  p \in Nat
<1>1. PICK K : K = HeldBy(st, la)
  OBVIOUS
<1>2. PICK A : A = OnTop(st, Base(st, r))
  OBVIOUS
<1>3. PICK X : X = Rules[r].lhs
  OBVIOUS
<1>4. Made(h, K, A, g, p, X)
  BY <1>1, <1>2, <1>3 DEF Acts
<1>5. {p} \ {0} \subseteq (A \ {0}) \cup (DOMAIN g \ DOMAIN h)
  BY <1>4 DEF Made, Steps
<1>6. A \ {0} \subseteq Nat
  <2>1. A \ {0} \subseteq K /\ K \subseteq DOMAIN h
    BY <1>4 DEF Made, Steps
  <2>2. DOMAIN h = 1 .. Len(h) /\ Len(h) \in Nat
    BY <1>1, SoundFacts DEF Growing
  <2> QED BY <2>1, <2>2
<1>7. DOMAIN g \subseteq Nat
  <2>1. PICK J : J = (K \ (A \ {0})) \cup ({p} \ {0})
    OBVIOUS
  <2>2. Sound(g, J)
    BY <2>1, <1>4 DEF Made, Steps
  <2>3. DOMAIN g = 1 .. Len(g) /\ Len(g) \in Nat
    BY <2>2, SoundFacts
  <2> QED BY <2>3
<1> QED BY <1>5, <1>6, <1>7

LEMMA ActKeeps ==
    ASSUME NEW h, NEW st, NEW la, Growing(h, st, la), NEW r, r \in Complete(st[Len(st)].items), r # 1,
           NEW g, NEW p, Acts(h, st, la, r, g, p), NEW s, s = Reduced(st, Base(st, r), Rules[r].lhs, p)
    PROVE  Growing(g, s, la)
<1>1. PICK a : a = Rules[r].action
  OBVIOUS
<1>2. PICK K : K = HeldBy(st, la)
  OBVIOUS
<1>3. PICK b : b = Base(st, r)
  OBVIOUS
<1>4. PICK X : X = Rules[r].lhs
  OBVIOUS
<1>5. b \in 1 .. Len(st) /\ X \in NextSymbols(st[b].items)
  BY <1>1, <1>2, <1>3, <1>4, TakenIs
<1>6. PICK A : A = OnTop(st, b)
  OBVIOUS
<1>7. A \ {0} = OnTop(st, b) /\ A \ {0} = A
  BY <1>6 DEF OnTop
<1>8. Made(h, K, A, g, p, X)
  BY <1>2, <1>3, <1>4, <1>6 DEF Acts
<1>9. p \in Nat
  BY ActNumber
<1>10. s = Reduced(st, b, X, p)
  BY <1>3, <1>4
<1> QED BY <1>2, <1>5, <1>7, <1>8, <1>9, <1>10, ReduceKeeps

-----------------------------------------------------------------------------
(* The semantic actions, one by one                                        *)

\* Rule r is due, and a is the name of its action.
Ready(h, st, la, K, r, a) ==
    /\ Growing(h, st, la) /\ K = HeldBy(st, la) /\ Sound(h, K)
    /\ r \in Complete(st[Len(st)].items) /\ r # 1 /\ a = Rules[r].action
Takes(h, K, a, k, X, x) == (x = 0 /\ <<a, k>> \in Nulls) \/ Has(h, K, X, x)

LEMMA TakesSome ==
    ASSUME NEW h, NEW K, NEW a, NEW k, NEW X, NEW x, Takes(h, K, a, k, X, x), <<a, k>> \notin Nulls
    PROVE  Has(h, K, X, x)
BY DEF Takes

LEMMA TakesNone ==
    ASSUME NEW h, NEW st, NEW la, NEW K, NEW r, NEW a, Ready(h, st, la, K, r, a), a # "Empty",
           DOMAIN Operands[a] = {}
    PROVE  OnTop(st, Base(st, r)) = {} /\ Rules[r].lhs = Results[a]
<1>1. Taken(h, K, st, r, a)
  BY TakenIs DEF Ready
<1>2. Args(st, r, a) = {}
  BY DEF Args
<1> QED BY <1>1, <1>2 DEF Taken

LEMMA TakesOne ==
    ASSUME NEW h, NEW st, NEW la, NEW K, NEW r, NEW a, Ready(h, st, la, K, r, a), a # "Empty",
           DOMAIN Operands[a] = 1 .. 1, NEW X, X = Operands[a][1],
           NEW x, x = ArgOf(st, r, 1)
    PROVE  /\ Takes(h, K, a, 1, X, x) /\ {x} \ {0} = OnTop(st, Base(st, r))
           /\ Rules[r].lhs = Results[a]
<1>1. Taken(h, K, st, r, a)
  BY TakenIs DEF Ready
<1>2. 1 .. 1 = {1}
  OBVIOUS
<1>3. Args(st, r, a) = {x}
  BY <1>2 DEF Args
<1> QED BY <1>1, <1>2, <1>3 DEF Taken, Takes

LEMMA TakesTwo ==
    ASSUME NEW h, NEW st, NEW la, NEW K, NEW r, NEW a, Ready(h, st, la, K, r, a), a # "Empty",
           DOMAIN Operands[a] = 1 .. 2, NEW X, X = Operands[a][1], NEW Y, Y = Operands[a][2],
           NEW x, x = ArgOf(st, r, 1), NEW y, y = ArgOf(st, r, 2)
    PROVE  /\ Takes(h, K, a, 1, X, x) /\ Takes(h, K, a, 2, Y, y)
           /\ Earlier(h, x, y) /\ Differ(x, y)
           /\ {x, y} \ {0} = OnTop(st, Base(st, r)) /\ Rules[r].lhs = Results[a]
<1>1. Taken(h, K, st, r, a)
  BY TakenIs DEF Ready
<1>2. 1 .. 2 = {1, 2} /\ 1 < 2
  OBVIOUS
<1>3. Args(st, r, a) = {x, y}
  BY <1>2 DEF Args
<1>4. Earlier(h, x, y)
  BY <1>1, <1>2 DEF Taken
<1>5. x = 0 \/ x \in K
  BY <1>1, <1>2 DEF Taken, Has
<1>6. x = 0 \/ x \in Nat
  <2>1. K \subseteq DOMAIN h /\ DOMAIN h = 1 .. Len(h) /\ Len(h) \in Nat
    BY SoundFacts DEF Ready
  <2> QED BY <2>1, <1>5
<1>7. Differ(x, y)
  BY <1>4, <1>6, EarlierDiffers
<1> QED BY <1>1, <1>2, <1>3, <1>4, <1>7 DEF Taken, Takes

LEMMA TakesThree ==
    ASSUME NEW h, NEW st, NEW la, NEW K, NEW r, NEW a, Ready(h, st, la, K, r, a), a # "Empty",
           DOMAIN Operands[a] = 1 .. 3, NEW X, X = Operands[a][1], NEW Y, Y = Operands[a][2],
           NEW Z, Z = Operands[a][3],
           NEW x, x = ArgOf(st, r, 1), NEW y, y = ArgOf(st, r, 2), NEW z, z = ArgOf(st, r, 3)
    PROVE  /\ Takes(h, K, a, 1, X, x) /\ Takes(h, K, a, 2, Y, y) /\ Takes(h, K, a, 3, Z, z)
           /\ Differ(x, y)
           /\ {x, y, z} \ {0} = OnTop(st, Base(st, r)) /\ Rules[r].lhs = Results[a]
<1>1. Taken(h, K, st, r, a)
  BY TakenIs DEF Ready
<1>2. 1 .. 3 = {1, 2, 3} /\ 1 < 2
  OBVIOUS
<1>3. Args(st, r, a) = {x, y, z}
  BY <1>2 DEF Args
<1>4. Earlier(h, x, y)
  BY <1>1, <1>2 DEF Taken
<1>5. x = 0 \/ x \in K
  BY <1>1, <1>2 DEF Taken, Has
<1>6. x = 0 \/ x \in Nat
  <2>1. K \subseteq DOMAIN h /\ DOMAIN h = 1 .. Len(h) /\ Len(h) \in Nat
    BY SoundFacts DEF Ready
  <2> QED BY <2>1, <1>5
<1>7. Differ(x, y)
  BY <1>4, <1>6, EarlierDiffers
<1> QED BY <1>1, <1>2, <1>3, <1>7 DEF Taken, Takes

LEMMA ActsIs ==
    ASSUME NEW h, NEW st, NEW la, NEW K, NEW r, NEW a, Ready(h, st, la, K, r, a),
           NEW A, A \ {0} = OnTop(st, Base(st, r)), NEW X, X = Rules[r].lhs,
           NEW g, NEW p, Made(h, K, A, g, p, X)
    PROVE  Acts(h, st, la, r, g, p)
<1>1. PICK B : B = OnTop(st, Base(st, r))
  OBVIOUS
<1>2. B \ {0} = B
  BY <1>1 DEF OnTop
<1>3. Made(h, K, B, g, p, X)
  BY <1>1, <1>2 DEF Made
<1> QED BY <1>1, <1>3 DEF Acts, Ready

LEMMA SchemaProgramActs ==
    ASSUME NEW h, NEW st, NEW la, NEW K, NEW r, Ready(h, st, la, K, r, "SchemaProgram"),
           NEW x, x = ArgOf(st, r, 1),
           NEW g, NEW p, Fresh(h, "Program", [schema |-> x], g, p)
    PROVE  Acts(h, st, la, r, g, p)
<1>0. PICK X : X = "program"
  OBVIOUS
<1>1. /\ "SchemaProgram" # "Empty" /\ Results["SchemaProgram"] = X /\ DOMAIN Operands["SchemaProgram"] = 1 .. 1
      /\ Operands["SchemaProgram"][1] = "schema_decl"
  BY <1>0 DEF Operands, Results
<1>2. /\ Has(h, K, "schema_decl", x)
      /\ {x} \ {0} = OnTop(st, Base(st, r)) /\ Rules[r].lhs = X
  <2>1. PICK s1 : s1 = "schema_decl"
    OBVIOUS
  <2>4. PICK a : a = "SchemaProgram"
    OBVIOUS
  <2>5. /\ Takes(h, K, a, 1, s1, x)
        /\ {x} \ {0} = OnTop(st, Base(st, r)) /\ Rules[r].lhs = X
    BY <1>1, <2>1, <2>4, TakesOne
  <2>6. <<a, 1>> \notin Nulls
    BY <2>4 DEF Nulls
  <2> QED BY <2>5, <2>6, <2>1 DEF Takes
<1>3. Sound(h, K)
  BY DEF Ready
<1>4. PICK upd : upd = [schema |-> x]
  OBVIOUS
<1>5. PICK A : A = {x}
  OBVIOUS
<1>6. Fresh(h, "Program", upd, g, p)
  BY <1>4
<1>7. Made(h, K, A, g, p, X)
  BY <1>0, <1>2, <1>3, <1>4, <1>5, <1>6, SchemaProgramMade
<1>8. A \ {0} = OnTop(st, Base(st, r)) /\ X = Rules[r].lhs
  BY <1>0, <1>2, <1>5
<1> QED BY <1>7, <1>8, ActsIs

LEMMA SchemaActs ==
    ASSUME NEW h, NEW st, NEW la, NEW K, NEW r, Ready(h, st, la, K, r, "Schema"),
           NEW x, x = ArgOf(st, r, 1), NEW y, y = ArgOf(st, r, 2),
           NEW k, k = BodyOf(h, y, "Schema"), NEW p, p = HereOf(h, y),
           NEW g, g = [k EXCEPT ![p].name = x]
    PROVE  Acts(h, st, la, r, g, p)
<1>0. PICK X : X = "schema_decl"
  OBVIOUS
<1>1. /\ "Schema" # "Empty" /\ Results["Schema"] = X /\ DOMAIN Operands["Schema"] = 1 .. 2
      /\ Operands["Schema"][1] = "IDENTIFIER"
      /\ Operands["Schema"][2] = "schema_body"
  BY <1>0 DEF Operands, Results
<1>2. /\ Has(h, K, "IDENTIFIER", x) /\ Has(h, K, "schema_body", y)
      /\ Earlier(h, x, y) /\ Differ(x, y)
      /\ {x, y} \ {0} = OnTop(st, Base(st, r)) /\ Rules[r].lhs = X
  <2>1. PICK s1 : s1 = "IDENTIFIER"
    OBVIOUS
  <2>2. PICK s2 : s2 = "schema_body"
    OBVIOUS
  <2>4. PICK a : a = "Schema"
    OBVIOUS
  <2>5. /\ Takes(h, K, a, 1, s1, x) /\ Takes(h, K, a, 2, s2, y)
        /\ Earlier(h, x, y) /\ Differ(x, y)
        /\ {x, y} \ {0} = OnTop(st, Base(st, r)) /\ Rules[r].lhs = X
    BY <1>1, <2>1, <2>2, <2>4, TakesTwo
  <2>6. <<a, 1>> \notin Nulls /\ <<a, 2>> \notin Nulls
    BY <2>4 DEF Nulls
  <2> QED BY <2>5, <2>6, <2>1, <2>2 DEF Takes
<1>3. Sound(h, K)
  BY DEF Ready
<1>4. PICK A : A = {x, y}
  OBVIOUS
<1>7. Made(h, K, A, g, p, X)
  BY <1>0, <1>2, <1>3, <1>4, SchemaMade
<1>8. A \ {0} = OnTop(st, Base(st, r)) /\ X = Rules[r].lhs
  BY <1>0, <1>2, <1>4
<1> QED BY <1>7, <1>8, ActsIs

LEMMA AppendEntitySchemaBodyActs ==
    ASSUME NEW h, NEW st, NEW la, NEW K, NEW r, Ready(h, st, la, K, r, "AppendEntitySchemaBody"),
           NEW x, x = ArgOf(st, r, 1), NEW y, y = ArgOf(st, r, 2),
           NEW k, k = BodyOf(h, x, "Schema"), NEW p, p = HereOf(h, x),
           NEW g, g = Link(k, p, "entities", "entities_last", y)
    PROVE  Acts(h, st, la, r, g, p)
<1>0. PICK X : X = "schema_body"
  OBVIOUS
<1>1. /\ "AppendEntitySchemaBody" # "Empty" /\ Results["AppendEntitySchemaBody"] = X /\ DOMAIN Operands["AppendEntitySchemaBody"] = 1 .. 2
      /\ Operands["AppendEntitySchemaBody"][1] = "schema_body"
      /\ Operands["AppendEntitySchemaBody"][2] = "entity_decl"
  BY <1>0 DEF Operands, Results
<1>2. /\ Has(h, K, "schema_body", x) /\ Has(h, K, "entity_decl", y)
      /\ Earlier(h, x, y) /\ Differ(x, y)
      /\ {x, y} \ {0} = OnTop(st, Base(st, r)) /\ Rules[r].lhs = X
  <2>1. PICK s1 : s1 = "schema_body"
    OBVIOUS
  <2>2. PICK s2 : s2 = "entity_decl"
    OBVIOUS
  <2>4. PICK a : a = "AppendEntitySchemaBody"
    OBVIOUS
  <2>5. /\ Takes(h, K, a, 1, s1, x) /\ Takes(h, K, a, 2, s2, y)
        /\ Earlier(h, x, y) /\ Differ(x, y)
        /\ {x, y} \ {0} = OnTop(st, Base(st, r)) /\ Rules[r].lhs = X
    BY <1>1, <2>1, <2>2, <2>4, TakesTwo
  <2>6. <<a, 1>> \notin Nulls /\ <<a, 2>> \notin Nulls
    BY <2>4 DEF Nulls
  <2> QED BY <2>5, <2>6, <2>1, <2>2 DEF Takes
<1>3. Sound(h, K)
  BY DEF Ready
<1>4. PICK A : A = {x, y}
  OBVIOUS
<1>7. Made(h, K, A, g, p, X)
  BY <1>0, <1>2, <1>3, <1>4, EntityAppended
<1>8. A \ {0} = OnTop(st, Base(st, r)) /\ X = Rules[r].lhs
  BY <1>0, <1>2, <1>4
<1> QED BY <1>7, <1>8, ActsIs

LEMMA AppendRelationshipSchemaBodyActs ==
    ASSUME NEW h, NEW st, NEW la, NEW K, NEW r, Ready(h, st, la, K, r, "AppendRelationshipSchemaBody"),
           NEW x, x = ArgOf(st, r, 1), NEW y, y = ArgOf(st, r, 2),
           NEW k, k = BodyOf(h, x, "Schema"), NEW p, p = HereOf(h, x),
           NEW g, g = Link(k, p, "relationships", "relationships_last", y)
    PROVE  Acts(h, st, la, r, g, p)
<1>0. PICK X : X = "schema_body"
  OBVIOUS
<1>1. /\ "AppendRelationshipSchemaBody" # "Empty" /\ Results["AppendRelationshipSchemaBody"] = X /\ DOMAIN Operands["AppendRelationshipSchemaBody"] = 1 .. 2
      /\ Operands["AppendRelationshipSchemaBody"][1] = "schema_body"
      /\ Operands["AppendRelationshipSchemaBody"][2] = "relationship_decl"
  BY <1>0 DEF Operands, Results
<1>2. /\ Has(h, K, "schema_body", x) /\ Has(h, K, "relationship_decl", y)
      /\ Earlier(h, x, y) /\ Differ(x, y)
      /\ {x, y} \ {0} = OnTop(st, Base(st, r)) /\ Rules[r].lhs = X
  <2>1. PICK s1 : s1 = "schema_body"
    OBVIOUS
  <2>2. PICK s2 : s2 = "relationship_decl"
    OBVIOUS
  <2>4. PICK a : a = "AppendRelationshipSchemaBody"
    OBVIOUS
  <2>5. /\ Takes(h, K, a, 1, s1, x) /\ Takes(h, K, a, 2, s2, y)
        /\ Earlier(h, x, y) /\ Differ(x, y)
        /\ {x, y} \ {0} = OnTop(st, Base(st, r)) /\ Rules[r].lhs = X
    BY <1>1, <2>1, <2>2, <2>4, TakesTwo
  <2>6. <<a, 1>> \notin Nulls /\ <<a, 2>> \notin Nulls
    BY <2>4 DEF Nulls
  <2> QED BY <2>5, <2>6, <2>1, <2>2 DEF Takes
<1>3. Sound(h, K)
  BY DEF Ready
<1>4. PICK A : A = {x, y}
  OBVIOUS
<1>7. Made(h, K, A, g, p, X)
  BY <1>0, <1>2, <1>3, <1>4, RelationshipAppended
<1>8. A \ {0} = OnTop(st, Base(st, r)) /\ X = Rules[r].lhs
  BY <1>0, <1>2, <1>4
<1> QED BY <1>7, <1>8, ActsIs

LEMMA EntityActs ==
    ASSUME NEW h, NEW st, NEW la, NEW K, NEW r, Ready(h, st, la, K, r, "Entity"),
           NEW x, x = ArgOf(st, r, 1), NEW y, y = ArgOf(st, r, 2), NEW z, z = ArgOf(st, r, 3),
           NEW k, k = BodyOf(h, z, "Entity"), NEW p, p = HereOf(h, z),
           NEW g, g = [k EXCEPT ![p].name = x, ![p].parent = IF y # 0 THEN y ELSE @]
    PROVE  Acts(h, st, la, r, g, p)
<1>0. PICK X : X = "entity_decl"
  OBVIOUS
<1>1. /\ "Entity" # "Empty" /\ Results["Entity"] = X /\ DOMAIN Operands["Entity"] = 1 .. 3
      /\ Operands["Entity"][1] = "IDENTIFIER"
      /\ Operands["Entity"][2] = "IDENTIFIER"
      /\ Operands["Entity"][3] = "entity_body"
  BY <1>0 DEF Operands, Results
<1>2. /\ Has(h, K, "IDENTIFIER", x) /\ (y = 0 \/ Has(h, K, "IDENTIFIER", y)) /\ Has(h, K, "entity_body", z)
      /\ Differ(x, y)
      /\ {x, y, z} \ {0} = OnTop(st, Base(st, r)) /\ Rules[r].lhs = X
  <2>1. PICK s1 : s1 = "IDENTIFIER"
    OBVIOUS
  <2>2. PICK s2 : s2 = "IDENTIFIER"
    OBVIOUS
  <2>3. PICK s3 : s3 = "entity_body"
    OBVIOUS
  <2>4. PICK a : a = "Entity"
    OBVIOUS
  <2>5. /\ Takes(h, K, a, 1, s1, x) /\ Takes(h, K, a, 2, s2, y) /\ Takes(h, K, a, 3, s3, z)
        /\ Differ(x, y)
        /\ {x, y, z} \ {0} = OnTop(st, Base(st, r)) /\ Rules[r].lhs = X
    BY <1>1, <2>1, <2>2, <2>3, <2>4, TakesThree
  <2>6. <<a, 1>> \notin Nulls /\ <<a, 3>> \notin Nulls
    BY <2>4 DEF Nulls
  <2> QED BY <2>5, <2>6, <2>1, <2>2, <2>3 DEF Takes
<1>3. Sound(h, K)
  BY DEF Ready
<1>4. PICK A : A = {x, y, z}
  OBVIOUS
<1>7. Made(h, K, A, g, p, X)
  BY <1>0, <1>2, <1>3, <1>4, EntityMade
<1>8. A \ {0} = OnTop(st, Base(st, r)) /\ X = Rules[r].lhs
  BY <1>0, <1>2, <1>4
<1> QED BY <1>7, <1>8, ActsIs

LEMMA AppendAttributeEntityBodyActs ==
    ASSUME NEW h, NEW st, NEW la, NEW K, NEW r, Ready(h, st, la, K, r, "AppendAttributeEntityBody"),
           NEW x, x = ArgOf(st, r, 1), NEW y, y = ArgOf(st, r, 2),
           NEW k, k = BodyOf(h, x, "Entity"), NEW p, p = HereOf(h, x),
           NEW m, NEW n, Fresh(k, "AttributeList", [attribute |-> y], m, n),
           NEW g, g = Link(m, p, "attributes", "attributes_last", n)
    PROVE  Acts(h, st, la, r, g, p)
<1>0. PICK X : X = "entity_body"
  OBVIOUS
<1>1. /\ "AppendAttributeEntityBody" # "Empty" /\ Results["AppendAttributeEntityBody"] = X /\ DOMAIN Operands["AppendAttributeEntityBody"] = 1 .. 2
      /\ Operands["AppendAttributeEntityBody"][1] = "entity_body"
      /\ Operands["AppendAttributeEntityBody"][2] = "attribute_decl"
  BY <1>0 DEF Operands, Results
<1>2. /\ Has(h, K, "entity_body", x) /\ Has(h, K, "attribute_decl", y)
      /\ Earlier(h, x, y) /\ Differ(x, y)
      /\ {x, y} \ {0} = OnTop(st, Base(st, r)) /\ Rules[r].lhs = X
  <2>1. PICK s1 : s1 = "entity_body"
    OBVIOUS
  <2>2. PICK s2 : s2 = "attribute_decl"
    OBVIOUS
  <2>4. PICK a : a = "AppendAttributeEntityBody"
    OBVIOUS
  <2>5. /\ Takes(h, K, a, 1, s1, x) /\ Takes(h, K, a, 2, s2, y)
        /\ Earlier(h, x, y) /\ Differ(x, y)
        /\ {x, y} \ {0} = OnTop(st, Base(st, r)) /\ Rules[r].lhs = X
    BY <1>1, <2>1, <2>2, <2>4, TakesTwo
  <2>6. <<a, 1>> \notin Nulls /\ <<a, 2>> \notin Nulls
    BY <2>4 DEF Nulls
  <2> QED BY <2>5, <2>6, <2>1, <2>2 DEF Takes
<1>3. Sound(h, K)
  BY DEF Ready
<1>4. PICK A : A = {x, y}
  OBVIOUS
<1>5. PICK upd : upd = [attribute |-> y]
  OBVIOUS
<1>6. Fresh(k, "AttributeList", upd, m, n)
  BY <1>5
<1>7. Made(h, K, A, g, p, X)
  BY <1>0, <1>2, <1>3, <1>4, <1>5, <1>6, AttributeAppended
<1>8. A \ {0} = OnTop(st, Base(st, r)) /\ X = Rules[r].lhs
  BY <1>0, <1>2, <1>4
<1> QED BY <1>7, <1>8, ActsIs

LEMMA SetPrimaryKeyEntityBodyActs ==
    ASSUME NEW h, NEW st, NEW la, NEW K, NEW r, Ready(h, st, la, K, r, "SetPrimaryKeyEntityBody"),
           NEW x, x = ArgOf(st, r, 1), NEW y, y = ArgOf(st, r, 2),
           NEW k, k = BodyOf(h, x, "Entity"), NEW p, p = HereOf(h, x),
           NEW g, g = [k EXCEPT ![p].primaryKey = y]
    PROVE  Acts(h, st, la, r, g, p)
<1>0. PICK X : X = "entity_body"
  OBVIOUS
<1>1. /\ "SetPrimaryKeyEntityBody" # "Empty" /\ Results["SetPrimaryKeyEntityBody"] = X /\ DOMAIN Operands["SetPrimaryKeyEntityBody"] = 1 .. 2
      /\ Operands["SetPrimaryKeyEntityBody"][1] = "entity_body"
      /\ Operands["SetPrimaryKeyEntityBody"][2] = "primary_decl"
  BY <1>0 DEF Operands, Results
<1>2. /\ Has(h, K, "entity_body", x) /\ Has(h, K, "primary_decl", y)
      /\ Earlier(h, x, y) /\ Differ(x, y)
      /\ {x, y} \ {0} = OnTop(st, Base(st, r)) /\ Rules[r].lhs = X
  <2>1. PICK s1 : s1 = "entity_body"
    OBVIOUS
  <2>2. PICK s2 : s2 = "primary_decl"
    OBVIOUS
  <2>4. PICK a : a = "SetPrimaryKeyEntityBody"
    OBVIOUS
  <2>5. /\ Takes(h, K, a, 1, s1, x) /\ Takes(h, K, a, 2, s2, y)
        /\ Earlier(h, x, y) /\ Differ(x, y)
        /\ {x, y} \ {0} = OnTop(st, Base(st, r)) /\ Rules[r].lhs = X
    BY <1>1, <2>1, <2>2, <2>4, TakesTwo
  <2>6. <<a, 1>> \notin Nulls /\ <<a, 2>> \notin Nulls
    BY <2>4 DEF Nulls
  <2> QED BY <2>5, <2>6, <2>1, <2>2 DEF Takes
<1>3. Sound(h, K)
  BY DEF Ready
<1>4. PICK A : A = {x, y}
  OBVIOUS
<1>7. Made(h, K, A, g, p, X)
  BY <1>0, <1>2, <1>3, <1>4, KeySet
<1>8. A \ {0} = OnTop(st, Base(st, r)) /\ X = Rules[r].lhs
  BY <1>0, <1>2, <1>4
<1> QED BY <1>7, <1>8, ActsIs

LEMMA AppendAssertionEntityBodyActs ==
    ASSUME NEW h, NEW st, NEW la, NEW K, NEW r, Ready(h, st, la, K, r, "AppendAssertionEntityBody"),
           NEW x, x = ArgOf(st, r, 1), NEW y, y = ArgOf(st, r, 2),
           NEW k, k = BodyOf(h, x, "Entity"), NEW p, p = HereOf(h, x),
           NEW g, g = Link(k, p, "assertions", "assertions_last", y)
    PROVE  Acts(h, st, la, r, g, p)
<1>0. PICK X : X = "entity_body"
  OBVIOUS
<1>1. /\ "AppendAssertionEntityBody" # "Empty" /\ Results["AppendAssertionEntityBody"] = X /\ DOMAIN Operands["AppendAssertionEntityBody"] = 1 .. 2
      /\ Operands["AppendAssertionEntityBody"][1] = "entity_body"
      /\ Operands["AppendAssertionEntityBody"][2] = "assert_decl"
  BY <1>0 DEF Operands, Results
<1>2. /\ Has(h, K, "entity_body", x) /\ Has(h, K, "assert_decl", y)
      /\ Earlier(h, x, y) /\ Differ(x, y)
      /\ {x, y} \ {0} = OnTop(st, Base(st, r)) /\ Rules[r].lhs = X
  <2>1. PICK s1 : s1 = "entity_body"
    OBVIOUS
  <2>2. PICK s2 : s2 = "assert_decl"
    OBVIOUS
  <2>4. PICK a : a = "AppendAssertionEntityBody"
    OBVIOUS
  <2>5. /\ Takes(h, K, a, 1, s1, x) /\ Takes(h, K, a, 2, s2, y)
        /\ Earlier(h, x, y) /\ Differ(x, y)
        /\ {x, y} \ {0} = OnTop(st, Base(st, r)) /\ Rules[r].lhs = X
    BY <1>1, <2>1, <2>2, <2>4, TakesTwo
  <2>6. <<a, 1>> \notin Nulls /\ <<a, 2>> \notin Nulls
    BY <2>4 DEF Nulls
  <2> QED BY <2>5, <2>6, <2>1, <2>2 DEF Takes
<1>3. Sound(h, K)
  BY DEF Ready
<1>4. PICK A : A = {x, y}
  OBVIOUS
<1>7. Made(h, K, A, g, p, X)
  BY <1>0, <1>2, <1>3, <1>4, AssertionAppended
<1>8. A \ {0} = OnTop(st, Base(st, r)) /\ X = Rules[r].lhs
  BY <1>0, <1>2, <1>4
<1> QED BY <1>7, <1>8, ActsIs

LEMMA AttributeActs ==
    ASSUME NEW h, NEW st, NEW la, NEW K, NEW r, Ready(h, st, la, K, r, "Attribute"),
           NEW x, x = ArgOf(st, r, 1), NEW y, y = ArgOf(st, r, 2), NEW z, z = ArgOf(st, r, 3),
           NEW g, NEW p, Fresh(h, "Attribute", [name |-> x, type |-> y, modifiers |-> z], g, p)
    PROVE  Acts(h, st, la, r, g, p)
<1>0. PICK X : X = "attribute_decl"
  OBVIOUS
<1>1. /\ "Attribute" # "Empty" /\ Results["Attribute"] = X /\ DOMAIN Operands["Attribute"] = 1 .. 3
      /\ Operands["Attribute"][1] = "IDENTIFIER"
      /\ Operands["Attribute"][2] = "type_spec"
      /\ Operands["Attribute"][3] = "modifier_list"
  BY <1>0 DEF Operands, Results
<1>2. /\ Has(h, K, "IDENTIFIER", x) /\ Has(h, K, "type_spec", y) /\ Has(h, K, "modifier_list", z)
      /\ Differ(x, y)
      /\ {x, y, z} \ {0} = OnTop(st, Base(st, r)) /\ Rules[r].lhs = X
  <2>1. PICK s1 : s1 = "IDENTIFIER"
    OBVIOUS
  <2>2. PICK s2 : s2 = "type_spec"
    OBVIOUS
  <2>3. PICK s3 : s3 = "modifier_list"
    OBVIOUS
  <2>4. PICK a : a = "Attribute"
    OBVIOUS
  <2>5. /\ Takes(h, K, a, 1, s1, x) /\ Takes(h, K, a, 2, s2, y) /\ Takes(h, K, a, 3, s3, z)
        /\ Differ(x, y)
        /\ {x, y, z} \ {0} = OnTop(st, Base(st, r)) /\ Rules[r].lhs = X
    BY <1>1, <2>1, <2>2, <2>3, <2>4, TakesThree
  <2>6. <<a, 1>> \notin Nulls /\ <<a, 2>> \notin Nulls /\ <<a, 3>> \notin Nulls
    BY <2>4 DEF Nulls
  <2> QED BY <2>5, <2>6, <2>1, <2>2, <2>3 DEF Takes
<1>3. Sound(h, K)
  BY DEF Ready
<1>4. PICK upd : upd = [name |-> x, type |-> y, modifiers |-> z]
  OBVIOUS
<1>5. PICK A : A = {x, y, z}
  OBVIOUS
<1>6. Fresh(h, "Attribute", upd, g, p)
  BY <1>4
<1>7. Made(h, K, A, g, p, X)
  BY <1>0, <1>2, <1>3, <1>4, <1>5, <1>6, AttributeMade
<1>8. A \ {0} = OnTop(st, Base(st, r)) /\ X = Rules[r].lhs
  BY <1>0, <1>2, <1>5
<1> QED BY <1>7, <1>8, ActsIs

LEMMA AttributeListActs ==
    ASSUME NEW h, NEW st, NEW la, NEW K, NEW r, Ready(h, st, la, K, r, "AttributeList"),
           NEW x, x = ArgOf(st, r, 1),
           NEW g, NEW p, NodeIs(h, "AttributeList", 0, [attribute |-> x], g, p)
    PROVE  Acts(h, st, la, r, g, p)
<1>0. PICK X : X = "attribute_list"
  OBVIOUS
<1>1. /\ "AttributeList" # "Empty" /\ Results["AttributeList"] = X /\ DOMAIN Operands["AttributeList"] = 1 .. 1
      /\ Operands["AttributeList"][1] = "attribute_decl"
  BY <1>0 DEF Operands, Results
<1>2. /\ Has(h, K, "attribute_decl", x)
      /\ {x} \ {0} = OnTop(st, Base(st, r)) /\ Rules[r].lhs = X
  <2>1. PICK s1 : s1 = "attribute_decl"
    OBVIOUS
  <2>4. PICK a : a = "AttributeList"
    OBVIOUS
  <2>5. /\ Takes(h, K, a, 1, s1, x)
        /\ {x} \ {0} = OnTop(st, Base(st, r)) /\ Rules[r].lhs = X
    BY <1>1, <2>1, <2>4, TakesOne
  <2>6. <<a, 1>> \notin Nulls
    BY <2>4 DEF Nulls
  <2> QED BY <2>5, <2>6, <2>1 DEF Takes
<1>3. Sound(h, K)
  BY DEF Ready
<1>4. PICK upd : upd = [attribute |-> x]
  OBVIOUS
<1>5. PICK A : A = {0, x}
  OBVIOUS
<1>6. PICK l : l = 0
  OBVIOUS
<1>7. (l = 0 \/ Has(h, K, "attribute_list", l)) /\ Earlier(h, l, x) /\ A = {l, x}
        /\ NodeIs(h, "AttributeList", l, upd, g, p)
  BY <1>2, <1>4, <1>5, <1>6 DEF Earlier
<1>8. Made(h, K, A, g, p, X)
  BY <1>0, <1>2, <1>3, <1>4, <1>7, AttributeListed
<1>9. A \ {0} = OnTop(st, Base(st, r)) /\ X = Rules[r].lhs
  BY <1>0, <1>2, <1>5
<1> QED BY <1>8, <1>9, ActsIs

LEMMA AppendAttributeListActs ==
    ASSUME NEW h, NEW st, NEW la, NEW K, NEW r, Ready(h, st, la, K, r, "AppendAttributeList"),
           NEW x, x = ArgOf(st, r, 1), NEW y, y = ArgOf(st, r, 2),
           NEW g, NEW p, NodeIs(h, "AttributeList", x, [attribute |-> y], g, p)
    PROVE  Acts(h, st, la, r, g, p)
<1>0. PICK X : X = "attribute_list"
  OBVIOUS
<1>1. /\ "AppendAttributeList" # "Empty" /\ Results["AppendAttributeList"] = X /\ DOMAIN Operands["AppendAttributeList"] = 1 .. 2
      /\ Operands["AppendAttributeList"][1] = "attribute_list"
      /\ Operands["AppendAttributeList"][2] = "attribute_decl"
  BY <1>0 DEF Operands, Results
<1>2. /\ Has(h, K, "attribute_list", x) /\ Has(h, K, "attribute_decl", y)
      /\ Earlier(h, x, y) /\ Differ(x, y)
      /\ {x, y} \ {0} = OnTop(st, Base(st, r)) /\ Rules[r].lhs = X
  <2>1. PICK s1 : s1 = "attribute_list"
    OBVIOUS
  <2>2. PICK s2 : s2 = "attribute_decl"
    OBVIOUS
  <2>4. PICK a : a = "AppendAttributeList"
    OBVIOUS
  <2>5. /\ Takes(h, K, a, 1, s1, x) /\ Takes(h, K, a, 2, s2, y)
        /\ Earlier(h, x, y) /\ Differ(x, y)
        /\ {x, y} \ {0} = OnTop(st, Base(st, r)) /\ Rules[r].lhs = X
    BY <1>1, <2>1, <2>2, <2>4, TakesTwo
  <2>6. <<a, 1>> \notin Nulls /\ <<a, 2>> \notin Nulls
    BY <2>4 DEF Nulls
  <2> QED BY <2>5, <2>6, <2>1, <2>2 DEF Takes
<1>3. Sound(h, K)
  BY DEF Ready
<1>4. PICK upd : upd = [attribute |-> y]
  OBVIOUS
<1>5. PICK A : A = {x, y}
  OBVIOUS
<1>6. PICK l : l = x
  OBVIOUS
<1>7. (l = 0 \/ Has(h, K, "attribute_list", l)) /\ Earlier(h, l, y) /\ A = {l, y}
        /\ NodeIs(h, "AttributeList", l, upd, g, p)
  BY <1>2, <1>4, <1>5, <1>6 DEF Earlier
<1>8. Made(h, K, A, g, p, X)
  BY <1>0, <1>2, <1>3, <1>4, <1>7, AttributeListed
<1>9. A \ {0} = OnTop(st, Base(st, r)) /\ X = Rules[r].lhs
  BY <1>0, <1>2, <1>5
<1> QED BY <1>8, <1>9, ActsIs

LEMMA TypeActs ==
    ASSUME NEW h, NEW st, NEW la, NEW K, NEW r, Ready(h, st, la, K, r, "Type"),
           NEW g, NEW p, Fresh(h, "Type", <<>>, g, p)
    PROVE  Acts(h, st, la, r, g, p)
<1>0. PICK X : X = "type_spec"
  OBVIOUS
<1>1. /\ "Type" # "Empty" /\ Results["Type"] = X /\ DOMAIN Operands["Type"] = {}
  BY <1>0 DEF Operands, Results
<1>2. OnTop(st, Base(st, r)) = {} /\ Rules[r].lhs = X
  <2>1. PICK a : a = "Type"
    OBVIOUS
  <2> QED BY <1>1, <2>1, TakesNone
<1>3. Sound(h, K)
  BY DEF Ready
<1>4. PICK upd : upd = <<>>
  OBVIOUS
<1>5. DOMAIN upd = {} /\ Fresh(h, "Type", upd, g, p)
  BY <1>4
<1>6. PICK A : A = {}
  OBVIOUS
<1>7. Made(h, K, A, g, p, X)
  BY <1>0, <1>3, <1>5, <1>6, TypeMade
<1>8. A \ {0} = OnTop(st, Base(st, r)) /\ X = Rules[r].lhs
  BY <1>0, <1>2, <1>6
<1> QED BY <1>7, <1>8, ActsIs

LEMMA AppendModifierActs ==
    ASSUME NEW h, NEW st, NEW la, NEW K, NEW r, Ready(h, st, la, K, r, "AppendModifier"),
           NEW x, x = ArgOf(st, r, 1), NEW y, y = ArgOf(st, r, 2),
           NEW g, NEW p, NodeIs(h, "ModifierList", x, [modifier |-> y], g, p)
    PROVE  Acts(h, st, la, r, g, p)
<1>0. PICK X : X = "modifier_list"
  OBVIOUS
<1>1. /\ "AppendModifier" # "Empty" /\ Results["AppendModifier"] = X /\ DOMAIN Operands["AppendModifier"] = 1 .. 2
      /\ Operands["AppendModifier"][1] = "modifier_list"
      /\ Operands["AppendModifier"][2] = "modifier"
  BY <1>0 DEF Operands, Results
<1>2. /\ Has(h, K, "modifier_list", x) /\ Has(h, K, "modifier", y)
      /\ Earlier(h, x, y) /\ Differ(x, y)
      /\ {x, y} \ {0} = OnTop(st, Base(st, r)) /\ Rules[r].lhs = X
  <2>1. PICK s1 : s1 = "modifier_list"
    OBVIOUS
  <2>2. PICK s2 : s2 = "modifier"
    OBVIOUS
  <2>4. PICK a : a = "AppendModifier"
    OBVIOUS
  <2>5. /\ Takes(h, K, a, 1, s1, x) /\ Takes(h, K, a, 2, s2, y)
        /\ Earlier(h, x, y) /\ Differ(x, y)
        /\ {x, y} \ {0} = OnTop(st, Base(st, r)) /\ Rules[r].lhs = X
    BY <1>1, <2>1, <2>2, <2>4, TakesTwo
  <2>6. <<a, 1>> \notin Nulls /\ <<a, 2>> \notin Nulls
    BY <2>4 DEF Nulls
  <2> QED BY <2>5, <2>6, <2>1, <2>2 DEF Takes
<1>3. Sound(h, K)
  BY DEF Ready
<1>4. PICK upd : upd = [modifier |-> y]
  OBVIOUS
<1>5. PICK A : A = {x, y}
  OBVIOUS
<1>6. PICK l : l = x
  OBVIOUS
<1>7. (l = 0 \/ Has(h, K, "modifier_list", l)) /\ Earlier(h, l, y) /\ A = {l, y}
        /\ NodeIs(h, "ModifierList", l, upd, g, p)
  BY <1>2, <1>4, <1>5, <1>6 DEF Earlier
<1>8. Made(h, K, A, g, p, X)
  BY <1>0, <1>2, <1>3, <1>4, <1>7, ModifierListed
<1>9. A \ {0} = OnTop(st, Base(st, r)) /\ X = Rules[r].lhs
  BY <1>0, <1>2, <1>5
<1> QED BY <1>8, <1>9, ActsIs

LEMMA ModifierActs ==
    ASSUME NEW h, NEW st, NEW la, NEW K, NEW r, Ready(h, st, la, K, r, "Modifier"),
           NEW g, NEW p, Fresh(h, "Modifier", <<>>, g, p)
    PROVE  Acts(h, st, la, r, g, p)
<1>0. PICK X : X = "modifier"
  OBVIOUS
<1>1. /\ "Modifier" # "Empty" /\ Results["Modifier"] = X /\ DOMAIN Operands["Modifier"] = {}
  BY <1>0 DEF Operands, Results
<1>2. OnTop(st, Base(st, r)) = {} /\ Rules[r].lhs = X
  <2>1. PICK a : a = "Modifier"
    OBVIOUS
  <2> QED BY <1>1, <2>1, TakesNone
<1>3. Sound(h, K)
  BY DEF Ready
<1>4. PICK upd : upd = <<>>
  OBVIOUS
<1>5. DOMAIN upd = {} /\ Fresh(h, "Modifier", upd, g, p)
  BY <1>4
<1>6. PICK A : A = {}
  OBVIOUS
<1>7. Made(h, K, A, g, p, X)
  BY <1>0, <1>3, <1>5, <1>6, ModifierMade
<1>8. A \ {0} = OnTop(st, Base(st, r)) /\ X = Rules[r].lhs
  BY <1>0, <1>2, <1>6
<1> QED BY <1>7, <1>8, ActsIs

LEMMA ModifierDefaultActs ==
    ASSUME NEW h, NEW st, NEW la, NEW K, NEW r, Ready(h, st, la, K, r, "ModifierDefault"),
           NEW x, x = ArgOf(st, r, 1),
           NEW g, NEW p, Fresh(h, "Modifier", [defaultValue |-> x], g, p)
    PROVE  Acts(h, st, la, r, g, p)
<1>0. PICK X : X = "modifier"
  OBVIOUS
<1>1. /\ "ModifierDefault" # "Empty" /\ Results["ModifierDefault"] = X /\ DOMAIN Operands["ModifierDefault"] = 1 .. 1
      /\ Operands["ModifierDefault"][1] = "literal"
  BY <1>0 DEF Operands, Results
<1>2. /\ Has(h, K, "literal", x)
      /\ {x} \ {0} = OnTop(st, Base(st, r)) /\ Rules[r].lhs = X
  <2>1. PICK s1 : s1 = "literal"
    OBVIOUS
  <2>4. PICK a : a = "ModifierDefault"
    OBVIOUS
  <2>5. /\ Takes(h, K, a, 1, s1, x)
        /\ {x} \ {0} = OnTop(st, Base(st, r)) /\ Rules[r].lhs = X
    BY <1>1, <2>1, <2>4, TakesOne
  <2>6. <<a, 1>> \notin Nulls
    BY <2>4 DEF Nulls
  <2> QED BY <2>5, <2>6, <2>1 DEF Takes
<1>3. Sound(h, K)
  BY DEF Ready
<1>4. PICK upd : upd = [defaultValue |-> x]
  OBVIOUS
<1>5. PICK A : A = {x}
  OBVIOUS
<1>6. Fresh(h, "Modifier", upd, g, p)
  BY <1>4
<1>7. Made(h, K, A, g, p, X)
  BY <1>0, <1>2, <1>3, <1>4, <1>5, <1>6, ModifierDefaultMade
<1>8. A \ {0} = OnTop(st, Base(st, r)) /\ X = Rules[r].lhs
  BY <1>0, <1>2, <1>5
<1> QED BY <1>7, <1>8, ActsIs

LEMMA PrimaryKeyActs ==
    ASSUME NEW h, NEW st, NEW la, NEW K, NEW r, Ready(h, st, la, K, r, "PrimaryKey"),
           NEW x, x = ArgOf(st, r, 1),
           NEW g, NEW p, Fresh(h, "PrimaryKey", [attributes |-> x], g, p)
    PROVE  Acts(h, st, la, r, g, p)
<1>0. PICK X : X = "primary_decl"
  OBVIOUS
<1>1. /\ "PrimaryKey" # "Empty" /\ Results["PrimaryKey"] = X /\ DOMAIN Operands["PrimaryKey"] = 1 .. 1
      /\ Operands["PrimaryKey"][1] = "qualified_identifier_list"
  BY <1>0 DEF Operands, Results
<1>2. /\ Has(h, K, "qualified_identifier_list", x)
      /\ {x} \ {0} = OnTop(st, Base(st, r)) /\ Rules[r].lhs = X
  <2>1. PICK s1 : s1 = "qualified_identifier_list"
    OBVIOUS
  <2>4. PICK a : a = "PrimaryKey"
    OBVIOUS
  <2>5. /\ Takes(h, K, a, 1, s1, x)
        /\ {x} \ {0} = OnTop(st, Base(st, r)) /\ Rules[r].lhs = X
    BY <1>1, <2>1, <2>4, TakesOne
  <2>6. <<a, 1>> \notin Nulls
    BY <2>4 DEF Nulls
  <2> QED BY <2>5, <2>6, <2>1 DEF Takes
<1>3. Sound(h, K)
  BY DEF Ready
<1>4. PICK upd : upd = [attributes |-> x]
  OBVIOUS
<1>5. PICK A : A = {x}
  OBVIOUS
<1>6. Fresh(h, "PrimaryKey", upd, g, p)
  BY <1>4
<1>7. Made(h, K, A, g, p, X)
  BY <1>0, <1>2, <1>3, <1>4, <1>5, <1>6, PrimaryKeyMade
<1>8. A \ {0} = OnTop(st, Base(st, r)) /\ X = Rules[r].lhs
  BY <1>0, <1>2, <1>5
<1> QED BY <1>7, <1>8, ActsIs

LEMMA CreateQualifiedIdentifierActs ==
    ASSUME NEW h, NEW st, NEW la, NEW K, NEW r, Ready(h, st, la, K, r, "CreateQualifiedIdentifier"),
           NEW x, x = ArgOf(st, r, 1), NEW y, y = ArgOf(st, r, 2),
           NEW g, NEW p, Fresh(h, "QualifiedIdentifier", [entity |-> x, attribute |-> y], g, p)
    PROVE  Acts(h, st, la, r, g, p)
<1>0. PICK X : X = "qualified_identifier"
  OBVIOUS
<1>1. /\ "CreateQualifiedIdentifier" # "Empty" /\ Results["CreateQualifiedIdentifier"] = X /\ DOMAIN Operands["CreateQualifiedIdentifier"] = 1 .. 2
      /\ Operands["CreateQualifiedIdentifier"][1] = "IDENTIFIER"
      /\ Operands["CreateQualifiedIdentifier"][2] = "IDENTIFIER"
  BY <1>0 DEF Operands, Results
<1>2. /\ (x = 0 \/ Has(h, K, "IDENTIFIER", x)) /\ Has(h, K, "IDENTIFIER", y)
      /\ Earlier(h, x, y) /\ Differ(x, y)
      /\ {x, y} \ {0} = OnTop(st, Base(st, r)) /\ Rules[r].lhs = X
  <2>1. PICK s1 : s1 = "IDENTIFIER"
    OBVIOUS
  <2>2. PICK s2 : s2 = "IDENTIFIER"
    OBVIOUS
  <2>4. PICK a : a = "CreateQualifiedIdentifier"
    OBVIOUS
  <2>5. /\ Takes(h, K, a, 1, s1, x) /\ Takes(h, K, a, 2, s2, y)
        /\ Earlier(h, x, y) /\ Differ(x, y)
        /\ {x, y} \ {0} = OnTop(st, Base(st, r)) /\ Rules[r].lhs = X
    BY <1>1, <2>1, <2>2, <2>4, TakesTwo
  <2>6. <<a, 2>> \notin Nulls
    BY <2>4 DEF Nulls
  <2> QED BY <2>5, <2>6, <2>1, <2>2 DEF Takes
<1>3. Sound(h, K)
  BY DEF Ready
<1>4. PICK upd : upd = [entity |-> x, attribute |-> y]
  OBVIOUS
<1>5. PICK A : A = {x, y}
  OBVIOUS
<1>6. Fresh(h, "QualifiedIdentifier", upd, g, p)
  BY <1>4
<1>7. Made(h, K, A, g, p, X)
  BY <1>0, <1>2, <1>3, <1>4, <1>5, <1>6, QualifiedIdentifierMade
<1>8. A \ {0} = OnTop(st, Base(st, r)) /\ X = Rules[r].lhs
  BY <1>0, <1>2, <1>5
<1> QED BY <1>7, <1>8, ActsIs

LEMMA QualifiedIdentifierListActs ==
    ASSUME NEW h, NEW st, NEW la, NEW K, NEW r, Ready(h, st, la, K, r, "QualifiedIdentifierList"),
           NEW x, x = ArgOf(st, r, 1),
           NEW g, NEW p, NodeIs(h, "QualifiedIdentifierList", 0, [qid |-> x], g, p)
    PROVE  Acts(h, st, la, r, g, p)
<1>0. PICK X : X = "qualified_identifier_list"
  OBVIOUS
<1>1. /\ "QualifiedIdentifierList" # "Empty" /\ Results["QualifiedIdentifierList"] = X /\ DOMAIN Operands["QualifiedIdentifierList"] = 1 .. 1
      /\ Operands["QualifiedIdentifierList"][1] = "qualified_identifier"
  BY <1>0 DEF Operands, Results
<1>2. /\ Has(h, K, "qualified_identifier", x)
      /\ {x} \ {0} = OnTop(st, Base(st, r)) /\ Rules[r].lhs = X
  <2>1. PICK s1 : s1 = "qualified_identifier"
    OBVIOUS
  <2>4. PICK a : a = "QualifiedIdentifierList"
    OBVIOUS
  <2>5. /\ Takes(h, K, a, 1, s1, x)
        /\ {x} \ {0} = OnTop(st, Base(st, r)) /\ Rules[r].lhs = X
    BY <1>1, <2>1, <2>4, TakesOne
  <2>6. <<a, 1>> \notin Nulls
    BY <2>4 DEF Nulls
  <2> QED BY <2>5, <2>6, <2>1 DEF Takes
<1>3. Sound(h, K)
  BY DEF Ready
<1>4. PICK upd : upd = [qid |-> x]
  OBVIOUS
<1>5. PICK A : A = {0, x}
  OBVIOUS
<1>6. PICK l : l = 0
  OBVIOUS
<1>7. (l = 0 \/ Has(h, K, "qualified_identifier_list", l)) /\ Earlier(h, l, x) /\ A = {l, x}
        /\ NodeIs(h, "QualifiedIdentifierList", l, upd, g, p)
  BY <1>2, <1>4, <1>5, <1>6 DEF Earlier
<1>8. Made(h, K, A, g, p, X)
  BY <1>0, <1>2, <1>3, <1>4, <1>7, QualifiedListed
<1>9. A \ {0} = OnTop(st, Base(st, r)) /\ X = Rules[r].lhs
  BY <1>0, <1>2, <1>5
<1> QED BY <1>8, <1>9, ActsIs

LEMMA AppendQualifiedIdentifierListActs ==
    ASSUME NEW h, NEW st, NEW la, NEW K, NEW r, Ready(h, st, la, K, r, "AppendQualifiedIdentifierList"),
           NEW x, x = ArgOf(st, r, 1), NEW y, y = ArgOf(st, r, 2),
           NEW g, NEW p, NodeIs(h, "QualifiedIdentifierList", x, [qid |-> y], g, p)
    PROVE  Acts(h, st, la, r, g, p)
<1>0. PICK X : X = "qualified_identifier_list"
  OBVIOUS
<1>1. /\ "AppendQualifiedIdentifierList" # "Empty" /\ Results["AppendQualifiedIdentifierList"] = X /\ DOMAIN Operands["AppendQualifiedIdentifierList"] = 1 .. 2
      /\ Operands["AppendQualifiedIdentifierList"][1] = "qualified_identifier_list"
      /\ Operands["AppendQualifiedIdentifierList"][2] = "qualified_identifier"
  BY <1>0 DEF Operands, Results
<1>2. /\ Has(h, K, "qualified_identifier_list", x) /\ Has(h, K, "qualified_identifier", y)
      /\ Earlier(h, x, y) /\ Differ(x, y)
      /\ {x, y} \ {0} = OnTop(st, Base(st, r)) /\ Rules[r].lhs = X
  <2>1. PICK s1 : s1 = "qualified_identifier_list"
    OBVIOUS
  <2>2. PICK s2 : s2 = "qualified_identifier"
    OBVIOUS
  <2>4. PICK a : a = "AppendQualifiedIdentifierList"
    OBVIOUS
  <2>5. /\ Takes(h, K, a, 1, s1, x) /\ Takes(h, K, a, 2, s2, y)
        /\ Earlier(h, x, y) /\ Differ(x, y)
        /\ {x, y} \ {0} = OnTop(st, Base(st, r)) /\ Rules[r].lhs = X
    BY <1>1, <2>1, <2>2, <2>4, TakesTwo
  <2>6. <<a, 1>> \notin Nulls /\ <<a, 2>> \notin Nulls
    BY <2>4 DEF Nulls
  <2> QED BY <2>5, <2>6, <2>1, <2>2 DEF Takes
<1>3. Sound(h, K)
  BY DEF Ready
<1>4. PICK upd : upd = [qid |-> y]
  OBVIOUS
<1>5. PICK A : A = {x, y}
  OBVIOUS
<1>6. PICK l : l = x
  OBVIOUS
<1>7. (l = 0 \/ Has(h, K, "qualified_identifier_list", l)) /\ Earlier(h, l, y) /\ A = {l, y}
        /\ NodeIs(h, "QualifiedIdentifierList", l, upd, g, p)
  BY <1>2, <1>4, <1>5, <1>6 DEF Earlier
<1>8. Made(h, K, A, g, p, X)
  BY <1>0, <1>2, <1>3, <1>4, <1>7, QualifiedListed
<1>9. A \ {0} = OnTop(st, Base(st, r)) /\ X = Rules[r].lhs
  BY <1>0, <1>2, <1>5
<1> QED BY <1>8, <1>9, ActsIs

LEMMA AssertionActs ==
    ASSUME NEW h, NEW st, NEW la, NEW K, NEW r, Ready(h, st, la, K, r, "Assertion"),
           NEW x, x = ArgOf(st, r, 1),
           NEW g, NEW p, Fresh(h, "Assertion", [condition |-> x], g, p)
    PROVE  Acts(h, st, la, r, g, p)
<1>0. PICK X : X = "assert_decl"
  OBVIOUS
<1>1. /\ "Assertion" # "Empty" /\ Results["Assertion"] = X /\ DOMAIN Operands["Assertion"] = 1 .. 1
      /\ Operands["Assertion"][1] = "expression"
  BY <1>0 DEF Operands, Results
<1>2. /\ Has(h, K, "expression", x)
      /\ {x} \ {0} = OnTop(st, Base(st, r)) /\ Rules[r].lhs = X
  <2>1. PICK s1 : s1 = "expression"
    OBVIOUS
  <2>4. PICK a : a = "Assertion"
    OBVIOUS
  <2>5. /\ Takes(h, K, a, 1, s1, x)
        /\ {x} \ {0} = OnTop(st, Base(st, r)) /\ Rules[r].lhs = X
    BY <1>1, <2>1, <2>4, TakesOne
  <2>6. <<a, 1>> \notin Nulls
    BY <2>4 DEF Nulls
  <2> QED BY <2>5, <2>6, <2>1 DEF Takes
<1>3. Sound(h, K)
  BY DEF Ready
<1>4. PICK upd : upd = [condition |-> x]
  OBVIOUS
<1>5. PICK A : A = {x}
  OBVIOUS
<1>6. Fresh(h, "Assertion", upd, g, p)
  BY <1>4
<1>7. Made(h, K, A, g, p, X)
  BY <1>0, <1>2, <1>3, <1>4, <1>5, <1>6, AssertionMade
<1>8. A \ {0} = OnTop(st, Base(st, r)) /\ X = Rules[r].lhs
  BY <1>0, <1>2, <1>5
<1> QED BY <1>7, <1>8, ActsIs

LEMMA RelationshipActs ==
    ASSUME NEW h, NEW st, NEW la, NEW K, NEW r, Ready(h, st, la, K, r, "Relationship"),
           NEW x, x = ArgOf(st, r, 1), NEW y, y = ArgOf(st, r, 2), NEW z, z = ArgOf(st, r, 3),
           NEW k, k = BodyOf(h, z, "Relationship"), NEW p, p = HereOf(h, z),
           NEW g, Related(k, p, x, y, h[y].last, g)
    PROVE  Acts(h, st, la, r, g, p)
<1>0. PICK X : X = "relationship_decl"
  OBVIOUS
<1>1. /\ "Relationship" # "Empty" /\ Results["Relationship"] = X /\ DOMAIN Operands["Relationship"] = 1 .. 3
      /\ Operands["Relationship"][1] = "IDENTIFIER"
      /\ Operands["Relationship"][2] = "relationship_participant_list"
      /\ Operands["Relationship"][3] = "relationship_body"
  BY <1>0 DEF Operands, Results
<1>2. /\ Has(h, K, "IDENTIFIER", x) /\ Has(h, K, "relationship_participant_list", y) /\ Has(h, K, "relationship_body", z)
      /\ Differ(x, y)
      /\ {x, y, z} \ {0} = OnTop(st, Base(st, r)) /\ Rules[r].lhs = X
  <2>1. PICK s1 : s1 = "IDENTIFIER"
    OBVIOUS
  <2>2. PICK s2 : s2 = "relationship_participant_list"
    OBVIOUS
  <2>3. PICK s3 : s3 = "relationship_body"
    OBVIOUS
  <2>4. PICK a : a = "Relationship"
    OBVIOUS
  <2>5. /\ Takes(h, K, a, 1, s1, x) /\ Takes(h, K, a, 2, s2, y) /\ Takes(h, K, a, 3, s3, z)
        /\ Differ(x, y)
        /\ {x, y, z} \ {0} = OnTop(st, Base(st, r)) /\ Rules[r].lhs = X
    BY <1>1, <2>1, <2>2, <2>3, <2>4, TakesThree
  <2>6. <<a, 1>> \notin Nulls /\ <<a, 2>> \notin Nulls /\ <<a, 3>> \notin Nulls
    BY <2>4 DEF Nulls
  <2> QED BY <2>5, <2>6, <2>1, <2>2, <2>3 DEF Takes
<1>3. Sound(h, K)
  BY DEF Ready
<1>4. PICK A : A = {x, y, z}
  OBVIOUS
<1>7. Made(h, K, A, g, p, X)
  BY <1>0, <1>2, <1>3, <1>4, RelationshipMade
<1>8. A \ {0} = OnTop(st, Base(st, r)) /\ X = Rules[r].lhs
  BY <1>0, <1>2, <1>4
<1> QED BY <1>7, <1>8, ActsIs

LEMMA ParticipantListActs ==
    ASSUME NEW h, NEW st, NEW la, NEW K, NEW r, Ready(h, st, la, K, r, "ParticipantList"),
           NEW x, x = ArgOf(st, r, 1),
           NEW g, NEW p, NodeIs(h, "ParticipantList", 0, [participant |-> x], g, p)
    PROVE  Acts(h, st, la, r, g, p)
<1>0. PICK X : X = "relationship_participant_list"
  OBVIOUS
<1>1. /\ "ParticipantList" # "Empty" /\ Results["ParticipantList"] = X /\ DOMAIN Operands["ParticipantList"] = 1 .. 1
      /\ Operands["ParticipantList"][1] = "relationship_participant"
  BY <1>0 DEF Operands, Results
<1>2. /\ Has(h, K, "relationship_participant", x)
      /\ {x} \ {0} = OnTop(st, Base(st, r)) /\ Rules[r].lhs = X
  <2>1. PICK s1 : s1 = "relationship_participant"
    OBVIOUS
  <2>4. PICK a : a = "ParticipantList"
    OBVIOUS
  <2>5. /\ Takes(h, K, a, 1, s1, x)
        /\ {x} \ {0} = OnTop(st, Base(st, r)) /\ Rules[r].lhs = X
    BY <1>1, <2>1, <2>4, TakesOne
  <2>6. <<a, 1>> \notin Nulls
    BY <2>4 DEF Nulls
  <2> QED BY <2>5, <2>6, <2>1 DEF Takes
<1>3. Sound(h, K)
  BY DEF Ready
<1>4. PICK upd : upd = [participant |-> x]
  OBVIOUS
<1>5. PICK A : A = {0, x}
  OBVIOUS
<1>6. PICK l : l = 0
  OBVIOUS
<1>7. (l = 0 \/ Has(h, K, "relationship_participant_list", l)) /\ Earlier(h, l, x) /\ A = {l, x}
        /\ NodeIs(h, "ParticipantList", l, upd, g, p)
  BY <1>2, <1>4, <1>5, <1>6 DEF Earlier
<1>8. Made(h, K, A, g, p, X)
  BY <1>0, <1>2, <1>3, <1>4, <1>7, ParticipantListed
<1>9. A \ {0} = OnTop(st, Base(st, r)) /\ X = Rules[r].lhs
  BY <1>0, <1>2, <1>5
<1> QED BY <1>8, <1>9, ActsIs

LEMMA AppendParticipantListActs ==
    ASSUME NEW h, NEW st, NEW la, NEW K, NEW r, Ready(h, st, la, K, r, "AppendParticipantList"),
           NEW x, x = ArgOf(st, r, 1), NEW y, y = ArgOf(st, r, 2),
           NEW g, NEW p, NodeIs(h, "ParticipantList", x, [participant |-> y], g, p)
    PROVE  Acts(h, st, la, r, g, p)
<1>0. PICK X : X = "relationship_participant_list"
  OBVIOUS
<1>1. /\ "AppendParticipantList" # "Empty" /\ Results["AppendParticipantList"] = X /\ DOMAIN Operands["AppendParticipantList"] = 1 .. 2
      /\ Operands["AppendParticipantList"][1] = "relationship_participant_list"
      /\ Operands["AppendParticipantList"][2] = "relationship_participant"
  BY <1>0 DEF Operands, Results
<1>2. /\ Has(h, K, "relationship_participant_list", x) /\ Has(h, K, "relationship_participant", y)
      /\ Earlier(h, x, y) /\ Differ(x, y)
      /\ {x, y} \ {0} = OnTop(st, Base(st, r)) /\ Rules[r].lhs = X
  <2>1. PICK s1 : s1 = "relationship_participant_list"
    OBVIOUS
  <2>2. PICK s2 : s2 = "relationship_participant"
    OBVIOUS
  <2>4. PICK a : a = "AppendParticipantList"
    OBVIOUS
  <2>5. /\ Takes(h, K, a, 1, s1, x) /\ Takes(h, K, a, 2, s2, y)
        /\ Earlier(h, x, y) /\ Differ(x, y)
        /\ {x, y} \ {0} = OnTop(st, Base(st, r)) /\ Rules[r].lhs = X
    BY <1>1, <2>1, <2>2, <2>4, TakesTwo
  <2>6. <<a, 1>> \notin Nulls /\ <<a, 2>> \notin Nulls
    BY <2>4 DEF Nulls
  <2> QED BY <2>5, <2>6, <2>1, <2>2 DEF Takes
<1>3. Sound(h, K)
  BY DEF Ready
<1>4. PICK upd : upd = [participant |-> y]
  OBVIOUS
<1>5. PICK A : A = {x, y}
  OBVIOUS
<1>6. PICK l : l = x
  OBVIOUS
<1>7. (l = 0 \/ Has(h, K, "relationship_participant_list", l)) /\ Earlier(h, l, y) /\ A = {l, y}
        /\ NodeIs(h, "ParticipantList", l, upd, g, p)
  BY <1>2, <1>4, <1>5, <1>6 DEF Earlier
<1>8. Made(h, K, A, g, p, X)
  <2>1. PICK z : z = x
    OBVIOUS
  <2>2. /\ z = 0 \/ Has(h, K, "relationship_participant_list", z)
        /\ Earlier(h, z, y) /\ A = {z, y} /\ NodeIs(h, "ParticipantList", z, upd, g, p)
    BY <1>6, <1>7, <2>1
  <2>3. Has(h, K, "relationship_participant", y)
    BY <1>2
  <2>4. Made(h, K, A, g, p, "relationship_participant_list")
    BY <1>3, <1>4, <2>2, <2>3, ParticipantListed
  <2> QED BY <2>4, <1>0
<1>9. A \ {0} = OnTop(st, Base(st, r)) /\ X = Rules[r].lhs
  BY <1>0, <1>2, <1>5
<1> QED BY <1>8, <1>9, ActsIs

LEMMA ParticipantActs ==
    ASSUME NEW h, NEW st, NEW la, NEW K, NEW r, Ready(h, st, la, K, r, "Participant"),
           NEW x, x = ArgOf(st, r, 1), NEW y, y = ArgOf(st, r, 2),
           NEW g, NEW p, Fresh(h, "Participant", [entityName |-> x, participation |-> y], g, p)
    PROVE  Acts(h, st, la, r, g, p)
<1>0. PICK X : X = "relationship_participant"
  OBVIOUS
<1>1. /\ "Participant" # "Empty" /\ Results["Participant"] = X /\ DOMAIN Operands["Participant"] = 1 .. 2
      /\ Operands["Participant"][1] = "IDENTIFIER"
      /\ Operands["Participant"][2] = "participation_opt"
  BY <1>0 DEF Operands, Results
<1>2. /\ Has(h, K, "IDENTIFIER", x) /\ Has(h, K, "participation_opt", y)
      /\ Earlier(h, x, y) /\ Differ(x, y)
      /\ {x, y} \ {0} = OnTop(st, Base(st, r)) /\ Rules[r].lhs = X
  <2>1. PICK s1 : s1 = "IDENTIFIER"
    OBVIOUS
  <2>2. PICK s2 : s2 = "participation_opt"
    OBVIOUS
  <2>4. PICK a : a = "Participant"
    OBVIOUS
  <2>5. /\ Takes(h, K, a, 1, s1, x) /\ Takes(h, K, a, 2, s2, y)
        /\ Earlier(h, x, y) /\ Differ(x, y)
        /\ {x, y} \ {0} = OnTop(st, Base(st, r)) /\ Rules[r].lhs = X
    BY <1>1, <2>1, <2>2, <2>4, TakesTwo
  <2>6. <<a, 1>> \notin Nulls /\ <<a, 2>> \notin Nulls
    BY <2>4 DEF Nulls
  <2> QED BY <2>5, <2>6, <2>1, <2>2 DEF Takes
<1>3. Sound(h, K)
  BY DEF Ready
<1>4. PICK upd : upd = [entityName |-> x, participation |-> y]
  OBVIOUS
<1>5. PICK A : A = {x, y}
  OBVIOUS
<1>6. Fresh(h, "Participant", upd, g, p)
  BY <1>4
<1>7. Made(h, K, A, g, p, X)
  BY <1>0, <1>2, <1>3, <1>4, <1>5, <1>6, ParticipantMade
<1>8. A \ {0} = OnTop(st, Base(st, r)) /\ X = Rules[r].lhs
  BY <1>0, <1>2, <1>5
<1> QED BY <1>7, <1>8, ActsIs

LEMMA ParticipationActs ==
    ASSUME NEW h, NEW st, NEW la, NEW K, NEW r, Ready(h, st, la, K, r, "Participation"),
           NEW g, NEW p, Fresh(h, "Participation", <<>>, g, p)
    PROVE  Acts(h, st, la, r, g, p)
<1>0. PICK X : X = "participation_opt"
  OBVIOUS
<1>1. /\ "Participation" # "Empty" /\ Results["Participation"] = X /\ DOMAIN Operands["Participation"] = {}
  BY <1>0 DEF Operands, Results
<1>2. OnTop(st, Base(st, r)) = {} /\ Rules[r].lhs = X
  <2>1. PICK a : a = "Participation"
    OBVIOUS
  <2> QED BY <1>1, <2>1, TakesNone
<1>3. Sound(h, K)
  BY DEF Ready
<1>4. PICK upd : upd = <<>>
  OBVIOUS
<1>5. DOMAIN upd = {} /\ Fresh(h, "Participation", upd, g, p)
  BY <1>4
<1>6. PICK A : A = {}
  OBVIOUS
<1>7. Made(h, K, A, g, p, X)
  BY <1>0, <1>3, <1>5, <1>6, ParticipationMade
<1>8. A \ {0} = OnTop(st, Base(st, r)) /\ X = Rules[r].lhs
  BY <1>0, <1>2, <1>6
<1> QED BY <1>7, <1>8, ActsIs

LEMMA RelationshipBodyActs ==
    ASSUME NEW h, NEW st, NEW la, NEW K, NEW r, Ready(h, st, la, K, r, "RelationshipBody"),
           NEW x, x = ArgOf(st, r, 1),
           NEW g, NEW p, Fresh(h, "Relationship", [attributes |-> x, attributes_last |-> h[x].last], g, p)
    PROVE  Acts(h, st, la, r, g, p)
<1>0. PICK X : X = "relationship_body"
  OBVIOUS
<1>1. /\ "RelationshipBody" # "Empty" /\ Results["RelationshipBody"] = X /\ DOMAIN Operands["RelationshipBody"] = 1 .. 1
      /\ Operands["RelationshipBody"][1] = "attribute_list"
  BY <1>0 DEF Operands, Results
<1>2. /\ Has(h, K, "attribute_list", x)
      /\ {x} \ {0} = OnTop(st, Base(st, r)) /\ Rules[r].lhs = X
  <2>1. PICK s1 : s1 = "attribute_list"
    OBVIOUS
  <2>4. PICK a : a = "RelationshipBody"
    OBVIOUS
  <2>5. /\ Takes(h, K, a, 1, s1, x)
        /\ {x} \ {0} = OnTop(st, Base(st, r)) /\ Rules[r].lhs = X
    BY <1>1, <2>1, <2>4, TakesOne
  <2>6. <<a, 1>> \notin Nulls
    BY <2>4 DEF Nulls
  <2> QED BY <2>5, <2>6, <2>1 DEF Takes
<1>3. Sound(h, K)
  BY DEF Ready
<1>4. PICK upd : upd = [attributes |-> x, attributes_last |-> h[x].last]
  OBVIOUS
<1>5. PICK A : A = {x}
  OBVIOUS
<1>6. Fresh(h, "Relationship", upd, g, p)
  BY <1>4
<1>7. Made(h, K, A, g, p, X)
  BY <1>0, <1>2, <1>3, <1>4, <1>5, <1>6, RelationshipBodyMade
<1>8. A \ {0} = OnTop(st, Base(st, r)) /\ X = Rules[r].lhs
  BY <1>0, <1>2, <1>5
<1> QED BY <1>7, <1>8, ActsIs

LEMMA LiteralExpressionActs ==
    ASSUME NEW h, NEW st, NEW la, NEW K, NEW r, Ready(h, st, la, K, r, "LiteralExpression"),
           NEW x, x = ArgOf(st, r, 1),
           NEW g, NEW p, Fresh(h, "Expression", [literal |-> x], g, p)
    PROVE  Acts(h, st, la, r, g, p)
<1>0. PICK X : X = "expression"
  OBVIOUS
<1>1. /\ "LiteralExpression" # "Empty" /\ Results["LiteralExpression"] = X /\ DOMAIN Operands["LiteralExpression"] = 1 .. 1
      /\ Operands["LiteralExpression"][1] = "literal"
  BY <1>0 DEF Operands, Results
<1>2. /\ Has(h, K, "literal", x)
      /\ {x} \ {0} = OnTop(st, Base(st, r)) /\ Rules[r].lhs = X
  <2>1. PICK s1 : s1 = "literal"
    OBVIOUS
  <2>4. PICK a : a = "LiteralExpression"
    OBVIOUS
  <2>5. /\ Takes(h, K, a, 1, s1, x)
        /\ {x} \ {0} = OnTop(st, Base(st, r)) /\ Rules[r].lhs = X
    BY <1>1, <2>1, <2>4, TakesOne
  <2>6. <<a, 1>> \notin Nulls
    BY <2>4 DEF Nulls
  <2> QED BY <2>5, <2>6, <2>1 DEF Takes
<1>3. Sound(h, K)
  BY DEF Ready
<1>4. PICK upd : upd = [literal |-> x]
  OBVIOUS
<1>5. PICK A : A = {x}
  OBVIOUS
<1>6. Fresh(h, "Expression", upd, g, p)
  BY <1>4
<1>7. Made(h, K, A, g, p, X)
  BY <1>0, <1>2, <1>3, <1>4, <1>5, <1>6, LiteralExpressionMade
<1>8. A \ {0} = OnTop(st, Base(st, r)) /\ X = Rules[r].lhs
  BY <1>0, <1>2, <1>5
<1> QED BY <1>7, <1>8, ActsIs

LEMMA IdentifierExpressionActs ==
    ASSUME NEW h, NEW st, NEW la, NEW K, NEW r, Ready(h, st, la, K, r, "IdentifierExpression"),
           NEW x, x = ArgOf(st, r, 1),
           NEW g, NEW p, Fresh(h, "Expression", [identifier |-> x], g, p)
    PROVE  Acts(h, st, la, r, g, p)
<1>0. PICK X : X = "expression"
  OBVIOUS
<1>1. /\ "IdentifierExpression" # "Empty" /\ Results["IdentifierExpression"] = X /\ DOMAIN Operands["IdentifierExpression"] = 1 .. 1
      /\ Operands["IdentifierExpression"][1] = "IDENTIFIER"
  BY <1>0 DEF Operands, Results
<1>2. /\ Has(h, K, "IDENTIFIER", x)
      /\ {x} \ {0} = OnTop(st, Base(st, r)) /\ Rules[r].lhs = X
  <2>1. PICK s1 : s1 = "IDENTIFIER"
    OBVIOUS
  <2>4. PICK a : a = "IdentifierExpression"
    OBVIOUS
  <2>5. /\ Takes(h, K, a, 1, s1, x)
        /\ {x} \ {0} = OnTop(st, Base(st, r)) /\ Rules[r].lhs = X
    BY <1>1, <2>1, <2>4, TakesOne
  <2>6. <<a, 1>> \notin Nulls
    BY <2>4 DEF Nulls
  <2> QED BY <2>5, <2>6, <2>1 DEF Takes
<1>3. Sound(h, K)
  BY DEF Ready
<1>4. PICK upd : upd = [identifier |-> x]
  OBVIOUS
<1>5. PICK A : A = {x}
  OBVIOUS
<1>6. Fresh(h, "Expression", upd, g, p)
  BY <1>4
<1>7. Made(h, K, A, g, p, X)
  BY <1>0, <1>2, <1>3, <1>4, <1>5, <1>6, IdentifierExpressionMade
<1>8. A \ {0} = OnTop(st, Base(st, r)) /\ X = Rules[r].lhs
  BY <1>0, <1>2, <1>5
<1> QED BY <1>7, <1>8, ActsIs

LEMMA ArithmeticExpressionActs ==
    ASSUME NEW h, NEW st, NEW la, NEW K, NEW r, Ready(h, st, la, K, r, "ArithmeticExpression"),
           NEW x, x = ArgOf(st, r, 1), NEW y, y = ArgOf(st, r, 2),
           NEW g, NEW p, Fresh(h, "Expression", [left |-> x, right |-> y], g, p)
    PROVE  Acts(h, st, la, r, g, p)
<1>0. PICK X : X = "expression"
  OBVIOUS
<1>1. /\ "ArithmeticExpression" # "Empty" /\ Results["ArithmeticExpression"] = X /\ DOMAIN Operands["ArithmeticExpression"] = 1 .. 2
      /\ Operands["ArithmeticExpression"][1] = "expression"
      /\ Operands["ArithmeticExpression"][2] = "expression"
  BY <1>0 DEF Operands, Results
<1>2. /\ Has(h, K, "expression", x) /\ Has(h, K, "expression", y)
      /\ Earlier(h, x, y) /\ Differ(x, y)
      /\ {x, y} \ {0} = OnTop(st, Base(st, r)) /\ Rules[r].lhs = X
  <2>1. PICK s1 : s1 = "expression"
    OBVIOUS
  <2>2. PICK s2 : s2 = "expression"
    OBVIOUS
  <2>4. PICK a : a = "ArithmeticExpression"
    OBVIOUS
  <2>5. /\ Takes(h, K, a, 1, s1, x) /\ Takes(h, K, a, 2, s2, y)
        /\ Earlier(h, x, y) /\ Differ(x, y)
        /\ {x, y} \ {0} = OnTop(st, Base(st, r)) /\ Rules[r].lhs = X
    BY <1>1, <2>1, <2>2, <2>4, TakesTwo
  <2>6. <<a, 1>> \notin Nulls /\ <<a, 2>> \notin Nulls
    BY <2>4 DEF Nulls
  <2> QED BY <2>5, <2>6, <2>1, <2>2 DEF Takes
<1>3. Sound(h, K)
  BY DEF Ready
<1>4. PICK upd : upd = [left |-> x, right |-> y]
  OBVIOUS
<1>5. PICK A : A = {x, y}
  OBVIOUS
<1>6. Fresh(h, "Expression", upd, g, p)
  BY <1>4
<1>7. Made(h, K, A, g, p, X)
  BY <1>0, <1>2, <1>3, <1>4, <1>5, <1>6, ArithmeticExpressionMade
<1>8. A \ {0} = OnTop(st, Base(st, r)) /\ X = Rules[r].lhs
  BY <1>0, <1>2, <1>5
<1> QED BY <1>7, <1>8, ActsIs

LEMMA LiteralActs ==
    ASSUME NEW h, NEW st, NEW la, NEW K, NEW r, Ready(h, st, la, K, r, "Literal"),
           NEW g, NEW p, Fresh(h, "Literal", <<>>, g, p)
    PROVE  Acts(h, st, la, r, g, p)
<1>0. PICK X : X = "literal"
  OBVIOUS
<1>1. /\ "Literal" # "Empty" /\ Results["Literal"] = X /\ DOMAIN Operands["Literal"] = {}
  BY <1>0 DEF Operands, Results
<1>2. OnTop(st, Base(st, r)) = {} /\ Rules[r].lhs = X
  <2>1. PICK a : a = "Literal"
    OBVIOUS
  <2> QED BY <1>1, <2>1, TakesNone
<1>3. Sound(h, K)
  BY DEF Ready
<1>4. PICK upd : upd = <<>>
  OBVIOUS
<1>5. DOMAIN upd = {} /\ Fresh(h, "Literal", upd, g, p)
  BY <1>4
<1>6. PICK A : A = {}
  OBVIOUS
<1>7. Made(h, K, A, g, p, X)
  BY <1>0, <1>3, <1>5, <1>6, LiteralMade
<1>8. A \ {0} = OnTop(st, Base(st, r)) /\ X = Rules[r].lhs
  BY <1>0, <1>2, <1>6
<1> QED BY <1>7, <1>8, ActsIs

LEMMA StringLiteralActs ==
    ASSUME NEW h, NEW st, NEW la, NEW K, NEW r, Ready(h, st, la, K, r, "StringLiteral"),
           NEW x, x = ArgOf(st, r, 1),
           NEW g, NEW p, Fresh(h, "Literal", [string |-> x], g, p)
    PROVE  Acts(h, st, la, r, g, p)
<1>0. PICK X : X = "literal"
  OBVIOUS
<1>1. /\ "StringLiteral" # "Empty" /\ Results["StringLiteral"] = X /\ DOMAIN Operands["StringLiteral"] = 1 .. 1
      /\ Operands["StringLiteral"][1] = "LIT_STRING"
  BY <1>0 DEF Operands, Results
<1>2. /\ Has(h, K, "LIT_STRING", x)
      /\ {x} \ {0} = OnTop(st, Base(st, r)) /\ Rules[r].lhs = X
  <2>1. PICK s1 : s1 = "LIT_STRING"
    OBVIOUS
  <2>4. PICK a : a = "StringLiteral"
    OBVIOUS
  <2>5. /\ Takes(h, K, a, 1, s1, x)
        /\ {x} \ {0} = OnTop(st, Base(st, r)) /\ Rules[r].lhs = X
    BY <1>1, <2>1, <2>4, TakesOne
  <2>6. <<a, 1>> \notin Nulls
    BY <2>4 DEF Nulls
  <2> QED BY <2>5, <2>6, <2>1 DEF Takes
<1>3. Sound(h, K)
  BY DEF Ready
<1>4. PICK upd : upd = [string |-> x]
  OBVIOUS
<1>5. PICK A : A = {x}
  OBVIOUS
<1>6. Fresh(h, "Literal", upd, g, p)
  BY <1>4
<1>7. Made(h, K, A, g, p, X)
  BY <1>0, <1>2, <1>3, <1>4, <1>5, <1>6, StringLiteralMade
<1>8. A \ {0} = OnTop(st, Base(st, r)) /\ X = Rules[r].lhs
  BY <1>0, <1>2, <1>5
<1> QED BY <1>7, <1>8, ActsIs

LEMMA EmptyActs ==
    ASSUME NEW h, NEW st, NEW la, NEW K, NEW r, Ready(h, st, la, K, r, "Empty")
    PROVE  Acts(h, st, la, r, h, 0)
<1>1. PICK a : a = "Empty"
  OBVIOUS
<1>2. "Empty" \notin DOMAIN Operands
  BY DEF Operands
<1>3. NoneTaken(st, r)
  <2>1. ~Taken(h, K, st, r, a)
    BY <1>1, <1>2 DEF Taken
  <2> QED BY <2>1, <1>1, TakenIs DEF Ready
<1>4. PICK X : X = Rules[r].lhs
  OBVIOUS
<1>5. PICK A : A = {}
  OBVIOUS
<1>6. Made(h, K, A, h, 0, X)
  <2>1. Sound(h, K) /\ X \in May
    BY <1>3, <1>4 DEF Ready, NoneTaken
  <2> QED BY <2>1, <1>5, EmptyMade
<1>7. A \ {0} = OnTop(st, Base(st, r))
  BY <1>3, <1>5 DEF NoneTaken
<1> QED BY <1>4, <1>6, <1>7, ActsIs

-----------------------------------------------------------------------------
(* The steps of the parser                                                 *)

Does(r, g, p) == Acts(heap, stack, lookahead, r, g, p) /\ Return(r, g, p)
Holds == HeldBy(stack, lookahead)
Grows == Growing(heap, stack, lookahead)

\* A rule that has an action is not the first.
LEMMA ReadyIs ==
    ASSUME Grows, NEW r, r \in Complete(Items), NEW a, a = Rules[r].action, a # "accept"
    PROVE  Ready(heap, stack, lookahead, Holds, r, a)
<1>1. r # 1
  <2>1. Rules[1].action = "accept"
    BY DEF Rules, R
  <2> QED BY <2>1
<1>2. r \in Complete(stack[Len(stack)].items)
  BY DEF Items, Last
<1>3. Sound(heap, Holds)
  BY DEF Grows, Growing, Holds
<1> QED BY <1>1, <1>2, <1>3 DEF Ready, Grows, Holds

LEMMA ArgIs == \A r, k : Arg(r, k) = ArgOf(stack, r, k)
BY DEF Arg, ArgOf

LEMMA SchemaProgramDoes ==
    ASSUME Grows, NEW r, r \in Complete(Items), SchemaProgramSemanticAction(r)
    PROVE  \E g, p : Does(r, g, p)
<1>1. Ready(heap, stack, lookahead, Holds, r, "SchemaProgram")
  <2>1. PICK a : a = "SchemaProgram"
    OBVIOUS
  <2>2. a = Rules[r].action /\ a # "accept"
    BY <2>1 DEF SchemaProgramSemanticAction, Build
  <2> QED BY <2>1, <2>2, ReadyIs
<1>2. PICK x : x = Arg(r, 1)
  OBVIOUS
<1>3. x = ArgOf(stack, r, 1)
  BY <1>2, ArgIs
<1>4. PICK g : g = Append(heap, New("Program", [schema |-> x]))
  OBVIOUS
<1>5. PICK p : p = Len(heap) + 1
  OBVIOUS
<1>6. Return(r, g, p)
  BY <1>2, <1>4, <1>5 DEF SchemaProgramSemanticAction, Build
<1>7. Fresh(heap, "Program", [schema |-> x], g, p)
  BY <1>4, <1>5 DEF Fresh
<1>8. Acts(heap, stack, lookahead, r, g, p)
  BY <1>1, <1>3, <1>7, SchemaProgramActs
<1> QED BY <1>6, <1>8 DEF Does

LEMMA SchemaDoes ==
    ASSUME Grows, NEW r, r \in Complete(Items), SchemaSemanticAction(r)
    PROVE  \E g, p : Does(r, g, p)
<1>1. Ready(heap, stack, lookahead, Holds, r, "Schema")
  <2>1. PICK a : a = "Schema"
    OBVIOUS
  <2>2. a = Rules[r].action /\ a # "accept"
    BY <2>1 DEF SchemaSemanticAction
  <2> QED BY <2>1, <2>2, ReadyIs
<1>2. PICK x : x = Arg(r, 1)
  OBVIOUS
<1>3. PICK y : y = Arg(r, 2)
  OBVIOUS
<1>4. x = ArgOf(stack, r, 1) /\ y = ArgOf(stack, r, 2)
  BY <1>2, <1>3, ArgIs
<1>5. PICK k : k = Body(y, "Schema")
  OBVIOUS
<1>6. PICK p : p = Here(y)
  OBVIOUS
<1>7. PICK g : g = [k EXCEPT ![p].name = x]
  OBVIOUS
<1>8. Return(r, g, p)
  BY <1>2, <1>3, <1>5, <1>6, <1>7 DEF SchemaSemanticAction
<1>9. k = BodyOf(heap, y, "Schema") /\ p = HereOf(heap, y)
  BY <1>5, <1>6 DEF Body, Here, BodyOf, HereOf
<1>11. Acts(heap, stack, lookahead, r, g, p)
  BY <1>1, <1>4, <1>7, <1>9, SchemaActs
<1> QED BY <1>8, <1>11 DEF Does

LEMMA EmptyDoes ==
    ASSUME Grows, NEW r, r \in Complete(Items), EmptySemanticAction(r)
    PROVE  \E g, p : Does(r, g, p)
<1>1. Ready(heap, stack, lookahead, Holds, r, "Empty")
  <2>1. PICK a : a = "Empty"
    OBVIOUS
  <2>2. a = Rules[r].action /\ a # "accept"
    BY <2>1 DEF EmptySemanticAction
  <2> QED BY <2>1, <2>2, ReadyIs
<1>2. Acts(heap, stack, lookahead, r, heap, 0)
  BY <1>1, EmptyActs
<1>3. Return(r, heap, 0)
  BY DEF EmptySemanticAction
<1> QED BY <1>2, <1>3 DEF Does

LEMMA AppendEntitySchemaBodyDoes ==
    ASSUME Grows, NEW r, r \in Complete(Items), AppendEntitySchemaBodySemanticAction(r)
    PROVE  \E g, p : Does(r, g, p)
<1>1. Ready(heap, stack, lookahead, Holds, r, "AppendEntitySchemaBody")
  <2>1. PICK a : a = "AppendEntitySchemaBody"
    OBVIOUS
  <2>2. a = Rules[r].action /\ a # "accept"
    BY <2>1 DEF AppendEntitySchemaBodySemanticAction, AppendTo
  <2> QED BY <2>1, <2>2, ReadyIs
<1>2. PICK x : x = Arg(r, 1)
  OBVIOUS
<1>3. PICK y : y = Arg(r, 2)
  OBVIOUS
<1>4. x = ArgOf(stack, r, 1) /\ y = ArgOf(stack, r, 2)
  BY <1>2, <1>3, ArgIs
<1>5. PICK k : k = Body(x, "Schema")
  OBVIOUS
<1>6. PICK p : p = Here(x)
  OBVIOUS
<1>7. PICK g : g = Link(k, p, "entities", "entities_last", y)
  OBVIOUS
<1>8. Return(r, g, p)
  BY <1>2, <1>3, <1>5, <1>6, <1>7 DEF AppendEntitySchemaBodySemanticAction, AppendTo
<1>9. k = BodyOf(heap, x, "Schema") /\ p = HereOf(heap, x)
  BY <1>5, <1>6 DEF Body, Here, BodyOf, HereOf
<1>11. Acts(heap, stack, lookahead, r, g, p)
  BY <1>1, <1>4, <1>7, <1>9, AppendEntitySchemaBodyActs
<1> QED BY <1>8, <1>11 DEF Does

LEMMA AppendRelationshipSchemaBodyDoes ==
    ASSUME Grows, NEW r, r \in Complete(Items), AppendRelationshipSchemaBodySemanticAction(r)
    PROVE  \E g, p : Does(r, g, p)
<1>1. Ready(heap, stack, lookahead, Holds, r, "AppendRelationshipSchemaBody")
  <2>1. PICK a : a = "AppendRelationshipSchemaBody"
    OBVIOUS
  <2>2. a = Rules[r].action /\ a # "accept"
    BY <2>1 DEF AppendRelationshipSchemaBodySemanticAction, AppendTo
  <2> QED BY <2>1, <2>2, ReadyIs
<1>2. PICK x : x = Arg(r, 1)
  OBVIOUS
<1>3. PICK y : y = Arg(r, 2)
  OBVIOUS
<1>4. x = ArgOf(stack, r, 1) /\ y = ArgOf(stack, r, 2)
  BY <1>2, <1>3, ArgIs
<1>5. PICK k : k = Body(x, "Schema")
  OBVIOUS
<1>6. PICK p : p = Here(x)
  OBVIOUS
<1>7. PICK g : g = Link(k, p, "relationships", "relationships_last", y)
  OBVIOUS
<1>8. Return(r, g, p)
  BY <1>2, <1>3, <1>5, <1>6, <1>7 DEF AppendRelationshipSchemaBodySemanticAction, AppendTo
<1>9. k = BodyOf(heap, x, "Schema") /\ p = HereOf(heap, x)
  BY <1>5, <1>6 DEF Body, Here, BodyOf, HereOf
<1>11. Acts(heap, stack, lookahead, r, g, p)
  BY <1>1, <1>4, <1>7, <1>9, AppendRelationshipSchemaBodyActs
<1> QED BY <1>8, <1>11 DEF Does

LEMMA EntityDoes ==
    ASSUME Grows, NEW r, r \in Complete(Items), EntitySemanticAction(r)
    PROVE  \E g, p : Does(r, g, p)
<1>1. Ready(heap, stack, lookahead, Holds, r, "Entity")
  <2>1. PICK a : a = "Entity"
    OBVIOUS
  <2>2. a = Rules[r].action /\ a # "accept"
    BY <2>1 DEF EntitySemanticAction
  <2> QED BY <2>1, <2>2, ReadyIs
<1>2. PICK x : x = Arg(r, 1)
  OBVIOUS
<1>3. PICK y : y = Arg(r, 2)
  OBVIOUS
<1>4. PICK z : z = Arg(r, 3)
  OBVIOUS
<1>5. x = ArgOf(stack, r, 1) /\ y = ArgOf(stack, r, 2) /\ z = ArgOf(stack, r, 3)
  BY <1>2, <1>3, <1>4, ArgIs
<1>6. PICK k : k = Body(z, "Entity")
  OBVIOUS
<1>7. PICK p : p = Here(z)
  OBVIOUS
<1>8. PICK g : g = [k EXCEPT ![p].name = x, ![p].parent = IF y # 0 THEN y ELSE @]
  OBVIOUS
<1>9. Return(r, g, p)
  BY <1>2, <1>3, <1>4, <1>6, <1>7, <1>8 DEF EntitySemanticAction
<1>10. k = BodyOf(heap, z, "Entity") /\ p = HereOf(heap, z)
  BY <1>6, <1>7 DEF Body, Here, BodyOf, HereOf
<1>12. Acts(heap, stack, lookahead, r, g, p)
  BY <1>1, <1>5, <1>8, <1>10, EntityActs
<1> QED BY <1>9, <1>12 DEF Does

LEMMA AttributeBody ==
    ASSUME NEW h, NEW st, NEW la, NEW K, NEW r, Ready(h, st, la, K, r, "AppendAttributeEntityBody"),
           NEW x, x = ArgOf(st, r, 1)
    PROVE  HasBody(h, K, x, "Entity") /\ Sound(h, K)
<1>1. PICK a : a = "AppendAttributeEntityBody"
  OBVIOUS
<1>2. PICK s1 : s1 = "entity_body"
  OBVIOUS
<1>3. PICK s2 : s2 = "attribute_decl"
  OBVIOUS
<1>4. a # "Empty" /\ DOMAIN Operands[a] = 1 .. 2 /\ Operands[a][1] = s1 /\ Operands[a][2] = s2
      /\ <<a, 1>> \notin Nulls
  BY <1>1, <1>2, <1>3 DEF Operands, Nulls
<1>5. Takes(h, K, a, 1, s1, x)
  <2>1. PICK y : y = ArgOf(st, r, 2)
    OBVIOUS
  <2> QED BY <1>1, <1>4, <2>1, TakesTwo
<1>6. Has(h, K, "entity_body", x)
  BY <1>2, <1>4, <1>5 DEF Takes
<1>7. Sound(h, K)
  BY DEF Ready
<1>8. 0 \notin DOMAIN h
  BY <1>7, SoundFacts
<1> QED BY <1>6, <1>7, <1>8, HasIs

LEMMA AppendAttributeEntityBodyDoes ==
    ASSUME Grows, NEW r, r \in Complete(Items), AppendAttributeEntityBodySemanticAction(r)
    PROVE  \E g, p : Does(r, g, p)
<1>1. Ready(heap, stack, lookahead, Holds, r, "AppendAttributeEntityBody")
  <2>1. PICK a : a = "AppendAttributeEntityBody"
    OBVIOUS
  <2>2. a = Rules[r].action /\ a # "accept"
    BY <2>1 DEF AppendAttributeEntityBodySemanticAction
  <2> QED BY <2>1, <2>2, ReadyIs
<1>2. PICK x : x = Arg(r, 1)
  OBVIOUS
<1>3. PICK y : y = Arg(r, 2)
  OBVIOUS
<1>4. x = ArgOf(stack, r, 1) /\ y = ArgOf(stack, r, 2)
  BY <1>2, <1>3, ArgIs
<1>5. PICK k : k = Body(x, "Entity")
  OBVIOUS
<1>6. PICK p : p = Here(x)
  OBVIOUS
<1>20. PICK m : m = Append(k, New("AttributeList", [attribute |-> y]))
  OBVIOUS
<1>21. PICK n : n = Len(m)
  OBVIOUS
<1>7. PICK g : g = Link(m, p, "attributes", "attributes_last", n)
  OBVIOUS
<1>8. Return(r, g, p)
  BY <1>2, <1>3, <1>5, <1>6, <1>20, <1>21, <1>7 DEF AppendAttributeEntityBodySemanticAction
<1>9. k = BodyOf(heap, x, "Entity") /\ p = HereOf(heap, x)
  BY <1>5, <1>6 DEF Body, Here, BodyOf, HereOf
<1>22. Fresh(k, "AttributeList", [attribute |-> y], m, n)
  <2>2. n = Len(k) + 1
    <3>6. x = ArgOf(stack, r, 1)
      BY <1>4
    <3>1. HasBody(heap, Holds, x, "Entity") /\ Sound(heap, Holds)
      BY <1>1, <3>6, AttributeBody
    <3>2. PICK t : t = "Entity"
      OBVIOUS
    <3>5. /\ t \in {"Schema", "Entity", "Relationship"} /\ HasBody(heap, Holds, x, t)
          /\ k = BodyOf(heap, x, t) /\ p = HereOf(heap, x) /\ Sound(heap, Holds)
      BY <3>1, <3>2, <1>9
    <3> HIDE DEF Holds
    <3>3. Shape(k)
      BY <3>5, BodyShape
    <3>4. k \in Seq(Cells)
      BY <3>3 DEF Shape
    <3> QED BY <3>4, <1>20, <1>21
  <2> QED BY <2>2, <1>20 DEF Fresh
<1>11. Acts(heap, stack, lookahead, r, g, p)
  BY <1>1, <1>4, <1>7, <1>9, <1>22, AppendAttributeEntityBodyActs
<1> QED BY <1>8, <1>11 DEF Does

LEMMA SetPrimaryKeyEntityBodyDoes ==
    ASSUME Grows, NEW r, r \in Complete(Items), SetPrimaryKeyEntityBodySemanticAction(r)
    PROVE  \E g, p : Does(r, g, p)
<1>1. Ready(heap, stack, lookahead, Holds, r, "SetPrimaryKeyEntityBody")
  <2>1. PICK a : a = "SetPrimaryKeyEntityBody"
    OBVIOUS
  <2>2. a = Rules[r].action /\ a # "accept"
    BY <2>1 DEF SetPrimaryKeyEntityBodySemanticAction
  <2> QED BY <2>1, <2>2, ReadyIs
<1>2. PICK x : x = Arg(r, 1)
  OBVIOUS
<1>3. PICK y : y = Arg(r, 2)
  OBVIOUS
<1>4. x = ArgOf(stack, r, 1) /\ y = ArgOf(stack, r, 2)
  BY <1>2, <1>3, ArgIs
<1>5. PICK k : k = Body(x, "Entity")
  OBVIOUS
<1>6. PICK p : p = Here(x)
  OBVIOUS
<1>7. PICK g : g = [k EXCEPT ![p].primaryKey = y]
  OBVIOUS
<1>8. Return(r, g, p)
  BY <1>2, <1>3, <1>5, <1>6, <1>7 DEF SetPrimaryKeyEntityBodySemanticAction
<1>9. k = BodyOf(heap, x, "Entity") /\ p = HereOf(heap, x)
  BY <1>5, <1>6 DEF Body, Here, BodyOf, HereOf
<1>11. Acts(heap, stack, lookahead, r, g, p)
  BY <1>1, <1>4, <1>7, <1>9, SetPrimaryKeyEntityBodyActs
<1> QED BY <1>8, <1>11 DEF Does

LEMMA AppendAssertionEntityBodyDoes ==
    ASSUME Grows, NEW r, r \in Complete(Items), AppendAssertionEntityBodySemanticAction(r)
    PROVE  \E g, p : Does(r, g, p)
<1>1. Ready(heap, stack, lookahead, Holds, r, "AppendAssertionEntityBody")
  <2>1. PICK a : a = "AppendAssertionEntityBody"
    OBVIOUS
  <2>2. a = Rules[r].action /\ a # "accept"
    BY <2>1 DEF AppendAssertionEntityBodySemanticAction, AppendTo
  <2> QED BY <2>1, <2>2, ReadyIs
<1>2. PICK x : x = Arg(r, 1)
  OBVIOUS
<1>3. PICK y : y = Arg(r, 2)
  OBVIOUS
<1>4. x = ArgOf(stack, r, 1) /\ y = ArgOf(stack, r, 2)
  BY <1>2, <1>3, ArgIs
<1>5. PICK k : k = Body(x, "Entity")
  OBVIOUS
<1>6. PICK p : p = Here(x)
  OBVIOUS
<1>7. PICK g : g = Link(k, p, "assertions", "assertions_last", y)
  OBVIOUS
<1>8. Return(r, g, p)
  BY <1>2, <1>3, <1>5, <1>6, <1>7 DEF AppendAssertionEntityBodySemanticAction, AppendTo
<1>9. k = BodyOf(heap, x, "Entity") /\ p = HereOf(heap, x)
  BY <1>5, <1>6 DEF Body, Here, BodyOf, HereOf
<1>11. Acts(heap, stack, lookahead, r, g, p)
  BY <1>1, <1>4, <1>7, <1>9, AppendAssertionEntityBodyActs
<1> QED BY <1>8, <1>11 DEF Does

LEMMA AttributeDoes ==
    ASSUME Grows, NEW r, r \in Complete(Items), AttributeSemanticAction(r)
    PROVE  \E g, p : Does(r, g, p)
<1>1. Ready(heap, stack, lookahead, Holds, r, "Attribute")
  <2>1. PICK a : a = "Attribute"
    OBVIOUS
  <2>2. a = Rules[r].action /\ a # "accept"
    BY <2>1 DEF AttributeSemanticAction, Build
  <2> QED BY <2>1, <2>2, ReadyIs
<1>2. PICK x : x = Arg(r, 1)
  OBVIOUS
<1>3. PICK y : y = Arg(r, 2)
  OBVIOUS
<1>4. PICK z : z = Arg(r, 3)
  OBVIOUS
<1>5. x = ArgOf(stack, r, 1) /\ y = ArgOf(stack, r, 2) /\ z = ArgOf(stack, r, 3)
  BY <1>2, <1>3, <1>4, ArgIs
<1>6. PICK g : g = Append(heap, New("Attribute", [name |-> x, type |-> y, modifiers |-> z]))
  OBVIOUS
<1>7. PICK p : p = Len(heap) + 1
  OBVIOUS
<1>8. Return(r, g, p)
  BY <1>2, <1>3, <1>4, <1>6, <1>7 DEF AttributeSemanticAction, Build
<1>9. Fresh(heap, "Attribute", [name |-> x, type |-> y, modifiers |-> z], g, p)
  BY <1>6, <1>7 DEF Fresh
<1>10. Acts(heap, stack, lookahead, r, g, p)
  BY <1>1, <1>5, <1>9, AttributeActs
<1> QED BY <1>8, <1>10 DEF Does

LEMMA AttributeListDoes ==
    ASSUME Grows, NEW r, r \in Complete(Items), AttributeListSemanticAction(r)
    PROVE  \E g, p : Does(r, g, p)
<1>1. Ready(heap, stack, lookahead, Holds, r, "AttributeList")
  <2>1. PICK a : a = "AttributeList"
    OBVIOUS
  <2>2. a = Rules[r].action /\ a # "accept"
    BY <2>1 DEF AttributeListSemanticAction, AppendNode
  <2> QED BY <2>1, <2>2, ReadyIs
<1>2. PICK x : x = Arg(r, 1)
  OBVIOUS
<1>3. x = ArgOf(stack, r, 1)
  BY <1>2, ArgIs
<1>4. PICK k : k = Append(heap, New("AttributeList", [attribute |-> x]))
  OBVIOUS
<1>5. PICK n : n = Len(heap) + 1
  OBVIOUS
<1>6. IF 0 = 0 THEN Return(r, [k EXCEPT ![n].last = n], n)
      ELSE Return(r, [k EXCEPT ![k[0].last].next = n, ![0].last = n], 0)
  BY <1>2, <1>4, <1>5 DEF AttributeListSemanticAction, AppendNode
<1>7. PICK g, p : Return(r, g, p) /\ NodeIs(heap, "AttributeList", 0, [attribute |-> x], g, p)
  <2>1. PICK g : g = [k EXCEPT ![n].last = n]
    OBVIOUS
  <2>2. Return(r, g, n) /\ NodeIs(heap, "AttributeList", 0, [attribute |-> x], g, n)
    BY <2>1, <1>4, <1>5, <1>6 DEF NodeIs
  <2> QED BY <2>2
<1>8. Acts(heap, stack, lookahead, r, g, p)
  BY <1>1, <1>3, <1>7, AttributeListActs
<1> QED BY <1>7, <1>8 DEF Does

LEMMA AppendAttributeListDoes ==
    ASSUME Grows, NEW r, r \in Complete(Items), AppendAttributeListSemanticAction(r)
    PROVE  \E g, p : Does(r, g, p)
<1>1. Ready(heap, stack, lookahead, Holds, r, "AppendAttributeList")
  <2>1. PICK a : a = "AppendAttributeList"
    OBVIOUS
  <2>2. a = Rules[r].action /\ a # "accept"
    BY <2>1 DEF AppendAttributeListSemanticAction, AppendNode
  <2> QED BY <2>1, <2>2, ReadyIs
<1>2. PICK x : x = Arg(r, 1)
  OBVIOUS
<1>3. PICK y : y = Arg(r, 2)
  OBVIOUS
<1>4. x = ArgOf(stack, r, 1) /\ y = ArgOf(stack, r, 2)
  BY <1>2, <1>3, ArgIs
<1>5. PICK k : k = Append(heap, New("AttributeList", [attribute |-> y]))
  OBVIOUS
<1>6. PICK n : n = Len(heap) + 1
  OBVIOUS
<1>7. IF x = 0 THEN Return(r, [k EXCEPT ![n].last = n], n)
      ELSE Return(r, [k EXCEPT ![k[x].last].next = n, ![x].last = n], x)
  BY <1>2, <1>3, <1>5, <1>6 DEF AppendAttributeListSemanticAction, AppendNode
<1>8. PICK g, p : Return(r, g, p) /\ NodeIs(heap, "AttributeList", x, [attribute |-> y], g, p)
  <2>1. CASE x = 0
    <3>1. PICK g : g = [k EXCEPT ![n].last = n]
      OBVIOUS
    <3>2. Return(r, g, n) /\ NodeIs(heap, "AttributeList", x, [attribute |-> y], g, n)
      BY <2>1, <3>1, <1>5, <1>6, <1>7 DEF NodeIs
    <3> QED BY <3>2
  <2>2. CASE x # 0
    <3>1. PICK g : g = [k EXCEPT ![k[x].last].next = n, ![x].last = n]
      OBVIOUS
    <3>2. Return(r, g, x) /\ NodeIs(heap, "AttributeList", x, [attribute |-> y], g, x)
      BY <2>2, <3>1, <1>5, <1>6, <1>7 DEF NodeIs
    <3> QED BY <3>2
  <2> QED BY <2>1, <2>2
<1>9. Acts(heap, stack, lookahead, r, g, p)
  BY <1>1, <1>4, <1>8, AppendAttributeListActs
<1> QED BY <1>8, <1>9 DEF Does

LEMMA TypeDoes ==
    ASSUME Grows, NEW r, r \in Complete(Items), TypeSemanticAction(r)
    PROVE  \E g, p : Does(r, g, p)
<1>1. Ready(heap, stack, lookahead, Holds, r, "Type")
  <2>1. PICK a : a = "Type"
    OBVIOUS
  <2>2. a = Rules[r].action /\ a # "accept"
    BY <2>1 DEF TypeSemanticAction, Build
  <2> QED BY <2>1, <2>2, ReadyIs
<1>2. PICK g : g = Append(heap, New("Type", <<>>))
  OBVIOUS
<1>3. PICK p : p = Len(heap) + 1
  OBVIOUS
<1>4. Return(r, g, p)
  BY <1>2, <1>3 DEF TypeSemanticAction, Build
<1>5. Fresh(heap, "Type", <<>>, g, p)
  BY <1>2, <1>3 DEF Fresh
<1>6. Acts(heap, stack, lookahead, r, g, p)
  BY <1>1, <1>5, TypeActs
<1> QED BY <1>4, <1>6 DEF Does

LEMMA AppendModifierDoes ==
    ASSUME Grows, NEW r, r \in Complete(Items), AppendModifierSemanticAction(r)
    PROVE  \E g, p : Does(r, g, p)
<1>1. Ready(heap, stack, lookahead, Holds, r, "AppendModifier")
  <2>1. PICK a : a = "AppendModifier"
    OBVIOUS
  <2>2. a = Rules[r].action /\ a # "accept"
    BY <2>1 DEF AppendModifierSemanticAction, AppendNode
  <2> QED BY <2>1, <2>2, ReadyIs
<1>2. PICK x : x = Arg(r, 1)
  OBVIOUS
<1>3. PICK y : y = Arg(r, 2)
  OBVIOUS
<1>4. x = ArgOf(stack, r, 1) /\ y = ArgOf(stack, r, 2)
  BY <1>2, <1>3, ArgIs
<1>5. PICK k : k = Append(heap, New("ModifierList", [modifier |-> y]))
  OBVIOUS
<1>6. PICK n : n = Len(heap) + 1
  OBVIOUS
<1>7. IF x = 0 THEN Return(r, [k EXCEPT ![n].last = n], n)
      ELSE Return(r, [k EXCEPT ![k[x].last].next = n, ![x].last = n], x)
  BY <1>2, <1>3, <1>5, <1>6 DEF AppendModifierSemanticAction, AppendNode
<1>8. PICK g, p : Return(r, g, p) /\ NodeIs(heap, "ModifierList", x, [modifier |-> y], g, p)
  <2>1. CASE x = 0
    <3>1. PICK g : g = [k EXCEPT ![n].last = n]
      OBVIOUS
    <3>2. Return(r, g, n) /\ NodeIs(heap, "ModifierList", x, [modifier |-> y], g, n)
      BY <2>1, <3>1, <1>5, <1>6, <1>7 DEF NodeIs
    <3> QED BY <3>2
  <2>2. CASE x # 0
    <3>1. PICK g : g = [k EXCEPT ![k[x].last].next = n, ![x].last = n]
      OBVIOUS
    <3>2. Return(r, g, x) /\ NodeIs(heap, "ModifierList", x, [modifier |-> y], g, x)
      BY <2>2, <3>1, <1>5, <1>6, <1>7 DEF NodeIs
    <3> QED BY <3>2
  <2> QED BY <2>1, <2>2
<1>9. Acts(heap, stack, lookahead, r, g, p)
  BY <1>1, <1>4, <1>8, AppendModifierActs
<1> QED BY <1>8, <1>9 DEF Does

LEMMA ModifierDoes ==
    ASSUME Grows, NEW r, r \in Complete(Items), ModifierSemanticAction(r)
    PROVE  \E g, p : Does(r, g, p)
<1>1. Ready(heap, stack, lookahead, Holds, r, "Modifier")
  <2>1. PICK a : a = "Modifier"
    OBVIOUS
  <2>2. a = Rules[r].action /\ a # "accept"
    BY <2>1 DEF ModifierSemanticAction, Build
  <2> QED BY <2>1, <2>2, ReadyIs
<1>2. PICK g : g = Append(heap, New("Modifier", <<>>))
  OBVIOUS
<1>3. PICK p : p = Len(heap) + 1
  OBVIOUS
<1>4. Return(r, g, p)
  BY <1>2, <1>3 DEF ModifierSemanticAction, Build
<1>5. Fresh(heap, "Modifier", <<>>, g, p)
  BY <1>2, <1>3 DEF Fresh
<1>6. Acts(heap, stack, lookahead, r, g, p)
  BY <1>1, <1>5, ModifierActs
<1> QED BY <1>4, <1>6 DEF Does

LEMMA ModifierDefaultDoes ==
    ASSUME Grows, NEW r, r \in Complete(Items), ModifierDefaultSemanticAction(r)
    PROVE  \E g, p : Does(r, g, p)
<1>1. Ready(heap, stack, lookahead, Holds, r, "ModifierDefault")
  <2>1. PICK a : a = "ModifierDefault"
    OBVIOUS
  <2>2. a = Rules[r].action /\ a # "accept"
    BY <2>1 DEF ModifierDefaultSemanticAction, Build
  <2> QED BY <2>1, <2>2, ReadyIs
<1>2. PICK x : x = Arg(r, 1)
  OBVIOUS
<1>3. x = ArgOf(stack, r, 1)
  BY <1>2, ArgIs
<1>4. PICK g : g = Append(heap, New("Modifier", [defaultValue |-> x]))
  OBVIOUS
<1>5. PICK p : p = Len(heap) + 1
  OBVIOUS
<1>6. Return(r, g, p)
  BY <1>2, <1>4, <1>5 DEF ModifierDefaultSemanticAction, Build
<1>7. Fresh(heap, "Modifier", [defaultValue |-> x], g, p)
  BY <1>4, <1>5 DEF Fresh
<1>8. Acts(heap, stack, lookahead, r, g, p)
  BY <1>1, <1>3, <1>7, ModifierDefaultActs
<1> QED BY <1>6, <1>8 DEF Does

LEMMA PrimaryKeyDoes ==
    ASSUME Grows, NEW r, r \in Complete(Items), PrimaryKeySemanticAction(r)
    PROVE  \E g, p : Does(r, g, p)
<1>1. Ready(heap, stack, lookahead, Holds, r, "PrimaryKey")
  <2>1. PICK a : a = "PrimaryKey"
    OBVIOUS
  <2>2. a = Rules[r].action /\ a # "accept"
    BY <2>1 DEF PrimaryKeySemanticAction, Build
  <2> QED BY <2>1, <2>2, ReadyIs
<1>2. PICK x : x = Arg(r, 1)
  OBVIOUS
<1>3. x = ArgOf(stack, r, 1)
  BY <1>2, ArgIs
<1>4. PICK g : g = Append(heap, New("PrimaryKey", [attributes |-> x]))
  OBVIOUS
<1>5. PICK p : p = Len(heap) + 1
  OBVIOUS
<1>6. Return(r, g, p)
  BY <1>2, <1>4, <1>5 DEF PrimaryKeySemanticAction, Build
<1>7. Fresh(heap, "PrimaryKey", [attributes |-> x], g, p)
  BY <1>4, <1>5 DEF Fresh
<1>8. Acts(heap, stack, lookahead, r, g, p)
  BY <1>1, <1>3, <1>7, PrimaryKeyActs
<1> QED BY <1>6, <1>8 DEF Does

LEMMA CreateQualifiedIdentifierDoes ==
    ASSUME Grows, NEW r, r \in Complete(Items), CreateQualifiedIdentifier(r)
    PROVE  \E g, p : Does(r, g, p)
<1>1. Ready(heap, stack, lookahead, Holds, r, "CreateQualifiedIdentifier")
  <2>1. PICK a : a = "CreateQualifiedIdentifier"
    OBVIOUS
  <2>2. a = Rules[r].action /\ a # "accept"
    BY <2>1 DEF CreateQualifiedIdentifier, Build
  <2> QED BY <2>1, <2>2, ReadyIs
<1>2. PICK x : x = Arg(r, 1)
  OBVIOUS
<1>3. PICK y : y = Arg(r, 2)
  OBVIOUS
<1>4. x = ArgOf(stack, r, 1) /\ y = ArgOf(stack, r, 2)
  BY <1>2, <1>3, ArgIs
<1>5. PICK g : g = Append(heap, New("QualifiedIdentifier", [entity |-> x, attribute |-> y]))
  OBVIOUS
<1>6. PICK p : p = Len(heap) + 1
  OBVIOUS
<1>7. Return(r, g, p)
  BY <1>2, <1>3, <1>5, <1>6 DEF CreateQualifiedIdentifier, Build
<1>8. Fresh(heap, "QualifiedIdentifier", [entity |-> x, attribute |-> y], g, p)
  BY <1>5, <1>6 DEF Fresh
<1>9. Acts(heap, stack, lookahead, r, g, p)
  BY <1>1, <1>4, <1>8, CreateQualifiedIdentifierActs
<1> QED BY <1>7, <1>9 DEF Does

LEMMA QualifiedIdentifierListDoes ==
    ASSUME Grows, NEW r, r \in Complete(Items), QualifiedIdentifierListSemanticAction(r)
    PROVE  \E g, p : Does(r, g, p)
<1>1. Ready(heap, stack, lookahead, Holds, r, "QualifiedIdentifierList")
  <2>1. PICK a : a = "QualifiedIdentifierList"
    OBVIOUS
  <2>2. a = Rules[r].action /\ a # "accept"
    BY <2>1 DEF QualifiedIdentifierListSemanticAction, AppendNode
  <2> QED BY <2>1, <2>2, ReadyIs
<1>2. PICK x : x = Arg(r, 1)
  OBVIOUS
<1>3. x = ArgOf(stack, r, 1)
  BY <1>2, ArgIs
<1>4. PICK k : k = Append(heap, New("QualifiedIdentifierList", [qid |-> x]))
  OBVIOUS
<1>5. PICK n : n = Len(heap) + 1
  OBVIOUS
<1>6. IF 0 = 0 THEN Return(r, [k EXCEPT ![n].last = n], n)
      ELSE Return(r, [k EXCEPT ![k[0].last].next = n, ![0].last = n], 0)
  BY <1>2, <1>4, <1>5 DEF QualifiedIdentifierListSemanticAction, AppendNode
<1>7. PICK g, p : Return(r, g, p) /\ NodeIs(heap, "QualifiedIdentifierList", 0, [qid |-> x], g, p)
  <2>1. PICK g : g = [k EXCEPT ![n].last = n]
    OBVIOUS
  <2>2. Return(r, g, n) /\ NodeIs(heap, "QualifiedIdentifierList", 0, [qid |-> x], g, n)
    BY <2>1, <1>4, <1>5, <1>6 DEF NodeIs
  <2> QED BY <2>2
<1>8. Acts(heap, stack, lookahead, r, g, p)
  BY <1>1, <1>3, <1>7, QualifiedIdentifierListActs
<1> QED BY <1>7, <1>8 DEF Does

LEMMA AppendQualifiedIdentifierListDoes ==
    ASSUME Grows, NEW r, r \in Complete(Items), AppendQualifiedIdentifierListSemanticAction(r)
    PROVE  \E g, p : Does(r, g, p)
<1>1. Ready(heap, stack, lookahead, Holds, r, "AppendQualifiedIdentifierList")
  <2>1. PICK a : a = "AppendQualifiedIdentifierList"
    OBVIOUS
  <2>2. a = Rules[r].action /\ a # "accept"
    BY <2>1 DEF AppendQualifiedIdentifierListSemanticAction, AppendNode
  <2> QED BY <2>1, <2>2, ReadyIs
<1>2. PICK x : x = Arg(r, 1)
  OBVIOUS
<1>3. PICK y : y = Arg(r, 2)
  OBVIOUS
<1>4. x = ArgOf(stack, r, 1) /\ y = ArgOf(stack, r, 2)
  BY <1>2, <1>3, ArgIs
<1>5. PICK k : k = Append(heap, New("QualifiedIdentifierList", [qid |-> y]))
  OBVIOUS
<1>6. PICK n : n = Len(heap) + 1
  OBVIOUS
<1>7. IF x = 0 THEN Return(r, [k EXCEPT ![n].last = n], n)
      ELSE Return(r, [k EXCEPT ![k[x].last].next = n, ![x].last = n], x)
  BY <1>2, <1>3, <1>5, <1>6 DEF AppendQualifiedIdentifierListSemanticAction, AppendNode
<1>8. PICK g, p : Return(r, g, p) /\ NodeIs(heap, "QualifiedIdentifierList", x, [qid |-> y], g, p)
  <2>1. CASE x = 0
    <3>1. PICK g : g = [k EXCEPT ![n].last = n]
      OBVIOUS
    <3>2. Return(r, g, n) /\ NodeIs(heap, "QualifiedIdentifierList", x, [qid |-> y], g, n)
      BY <2>1, <3>1, <1>5, <1>6, <1>7 DEF NodeIs
    <3> QED BY <3>2
  <2>2. CASE x # 0
    <3>1. PICK g : g = [k EXCEPT ![k[x].last].next = n, ![x].last = n]
      OBVIOUS
    <3>2. Return(r, g, x) /\ NodeIs(heap, "QualifiedIdentifierList", x, [qid |-> y], g, x)
      BY <2>2, <3>1, <1>5, <1>6, <1>7 DEF NodeIs
    <3> QED BY <3>2
  <2> QED BY <2>1, <2>2
<1>9. Acts(heap, stack, lookahead, r, g, p)
  BY <1>1, <1>4, <1>8, AppendQualifiedIdentifierListActs
<1> QED BY <1>8, <1>9 DEF Does

LEMMA AssertionDoes ==
    ASSUME Grows, NEW r, r \in Complete(Items), AssertionSemanticAction(r)
    PROVE  \E g, p : Does(r, g, p)
<1>1. Ready(heap, stack, lookahead, Holds, r, "Assertion")
  <2>1. PICK a : a = "Assertion"
    OBVIOUS
  <2>2. a = Rules[r].action /\ a # "accept"
    BY <2>1 DEF AssertionSemanticAction, Build
  <2> QED BY <2>1, <2>2, ReadyIs
<1>2. PICK x : x = Arg(r, 1)
  OBVIOUS
<1>3. x = ArgOf(stack, r, 1)
  BY <1>2, ArgIs
<1>4. PICK g : g = Append(heap, New("Assertion", [condition |-> x]))
  OBVIOUS
<1>5. PICK p : p = Len(heap) + 1
  OBVIOUS
<1>6. Return(r, g, p)
  BY <1>2, <1>4, <1>5 DEF AssertionSemanticAction, Build
<1>7. Fresh(heap, "Assertion", [condition |-> x], g, p)
  BY <1>4, <1>5 DEF Fresh
<1>8. Acts(heap, stack, lookahead, r, g, p)
  BY <1>1, <1>3, <1>7, AssertionActs
<1> QED BY <1>6, <1>8 DEF Does

LEMMA RelationshipDoes ==
    ASSUME Grows, NEW r, r \in Complete(Items), RelationshipSemanticAction(r)
    PROVE  \E g, p : Does(r, g, p)
<1>1. Ready(heap, stack, lookahead, Holds, r, "Relationship")
  <2>1. PICK a : a = "Relationship"
    OBVIOUS
  <2>2. a = Rules[r].action /\ a # "accept"
    BY <2>1 DEF RelationshipSemanticAction
  <2> QED BY <2>1, <2>2, ReadyIs
<1>2. PICK x : x = Arg(r, 1)
  OBVIOUS
<1>3. PICK y : y = Arg(r, 2)
  OBVIOUS
<1>4. PICK z : z = Arg(r, 3)
  OBVIOUS
<1>5. x = ArgOf(stack, r, 1) /\ y = ArgOf(stack, r, 2) /\ z = ArgOf(stack, r, 3)
  BY <1>2, <1>3, <1>4, ArgIs
<1>6. PICK k : k = Body(z, "Relationship")
  OBVIOUS
<1>7. PICK p : p = Here(z)
  OBVIOUS
<1>8. PICK g : g = [k EXCEPT ![p].name = x, ![p].participants = y, ![p].participants_last = heap[y].last]
  OBVIOUS
<1>9. Return(r, g, p)
  BY <1>2, <1>3, <1>4, <1>6, <1>7, <1>8 DEF RelationshipSemanticAction
<1>10. k = BodyOf(heap, z, "Relationship") /\ p = HereOf(heap, z)
  BY <1>6, <1>7 DEF Body, Here, BodyOf, HereOf
<1>11. Related(k, p, x, y, heap[y].last, g)
  BY <1>8 DEF Related
<1>12. Acts(heap, stack, lookahead, r, g, p)
  BY <1>1, <1>5, <1>8, <1>10, <1>11, RelationshipActs
<1> QED BY <1>9, <1>12 DEF Does

LEMMA ParticipantListDoes ==
    ASSUME Grows, NEW r, r \in Complete(Items), ParticipantListSemanticAction(r)
    PROVE  \E g, p : Does(r, g, p)
<1>1. Ready(heap, stack, lookahead, Holds, r, "ParticipantList")
  <2>1. PICK a : a = "ParticipantList"
    OBVIOUS
  <2>2. a = Rules[r].action /\ a # "accept"
    BY <2>1 DEF ParticipantListSemanticAction, AppendNode
  <2> QED BY <2>1, <2>2, ReadyIs
<1>2. PICK x : x = Arg(r, 1)
  OBVIOUS
<1>3. x = ArgOf(stack, r, 1)
  BY <1>2, ArgIs
<1>4. PICK k : k = Append(heap, New("ParticipantList", [participant |-> x]))
  OBVIOUS
<1>5. PICK n : n = Len(heap) + 1
  OBVIOUS
<1>6. IF 0 = 0 THEN Return(r, [k EXCEPT ![n].last = n], n)
      ELSE Return(r, [k EXCEPT ![k[0].last].next = n, ![0].last = n], 0)
  BY <1>2, <1>4, <1>5 DEF ParticipantListSemanticAction, AppendNode
<1>7. PICK g, p : Return(r, g, p) /\ NodeIs(heap, "ParticipantList", 0, [participant |-> x], g, p)
  <2>1. PICK g : g = [k EXCEPT ![n].last = n]
    OBVIOUS
  <2>2. Return(r, g, n) /\ NodeIs(heap, "ParticipantList", 0, [participant |-> x], g, n)
    BY <2>1, <1>4, <1>5, <1>6 DEF NodeIs
  <2> QED BY <2>2
<1>8. Acts(heap, stack, lookahead, r, g, p)
  BY <1>1, <1>3, <1>7, ParticipantListActs
<1> QED BY <1>7, <1>8 DEF Does

LEMMA AppendParticipantListDoes ==
    ASSUME Grows, NEW r, r \in Complete(Items), AppendParticipantListSemanticAction(r)
    PROVE  \E g, p : Does(r, g, p)
<1>1. Ready(heap, stack, lookahead, Holds, r, "AppendParticipantList")
  <2>1. PICK a : a = "AppendParticipantList"
    OBVIOUS
  <2>2. a = Rules[r].action /\ a # "accept"
    BY <2>1 DEF AppendParticipantListSemanticAction, AppendNode
  <2> QED BY <2>1, <2>2, ReadyIs
<1>2. PICK x : x = Arg(r, 1)
  OBVIOUS
<1>3. PICK y : y = Arg(r, 2)
  OBVIOUS
<1>4. x = ArgOf(stack, r, 1) /\ y = ArgOf(stack, r, 2)
  BY <1>2, <1>3, ArgIs
<1>5. PICK k : k = Append(heap, New("ParticipantList", [participant |-> y]))
  OBVIOUS
<1>6. PICK n : n = Len(heap) + 1
  OBVIOUS
<1>7. IF x = 0 THEN Return(r, [k EXCEPT ![n].last = n], n)
      ELSE Return(r, [k EXCEPT ![k[x].last].next = n, ![x].last = n], x)
  BY <1>2, <1>3, <1>5, <1>6 DEF AppendParticipantListSemanticAction, AppendNode
<1>8. PICK g, p : Return(r, g, p) /\ NodeIs(heap, "ParticipantList", x, [participant |-> y], g, p)
  <2>1. CASE x = 0
    <3>1. PICK g : g = [k EXCEPT ![n].last = n]
      OBVIOUS
    <3>2. Return(r, g, n) /\ NodeIs(heap, "ParticipantList", x, [participant |-> y], g, n)
      BY <2>1, <3>1, <1>5, <1>6, <1>7 DEF NodeIs
    <3> QED BY <3>2
  <2>2. CASE x # 0
    <3>1. PICK g : g = [k EXCEPT ![k[x].last].next = n, ![x].last = n]
      OBVIOUS
    <3>2. Return(r, g, x) /\ NodeIs(heap, "ParticipantList", x, [participant |-> y], g, x)
      BY <2>2, <3>1, <1>5, <1>6, <1>7 DEF NodeIs
    <3> QED BY <3>2
  <2> QED BY <2>1, <2>2
<1>9. Acts(heap, stack, lookahead, r, g, p)
  BY <1>1, <1>4, <1>8, AppendParticipantListActs
<1> QED BY <1>8, <1>9 DEF Does

LEMMA ParticipantDoes ==
    ASSUME Grows, NEW r, r \in Complete(Items), ParticipantSemanticAction(r)
    PROVE  \E g, p : Does(r, g, p)
<1>1. Ready(heap, stack, lookahead, Holds, r, "Participant")
  <2>1. PICK a : a = "Participant"
    OBVIOUS
  <2>2. a = Rules[r].action /\ a # "accept"
    BY <2>1 DEF ParticipantSemanticAction, Build
  <2> QED BY <2>1, <2>2, ReadyIs
<1>2. PICK x : x = Arg(r, 1)
  OBVIOUS
<1>3. PICK y : y = Arg(r, 2)
  OBVIOUS
<1>4. x = ArgOf(stack, r, 1) /\ y = ArgOf(stack, r, 2)
  BY <1>2, <1>3, ArgIs
<1>5. PICK g : g = Append(heap, New("Participant", [entityName |-> x, participation |-> y]))
  OBVIOUS
<1>6. PICK p : p = Len(heap) + 1
  OBVIOUS
<1>7. Return(r, g, p)
  BY <1>2, <1>3, <1>5, <1>6 DEF ParticipantSemanticAction, Build
<1>8. Fresh(heap, "Participant", [entityName |-> x, participation |-> y], g, p)
  BY <1>5, <1>6 DEF Fresh
<1>9. Acts(heap, stack, lookahead, r, g, p)
  BY <1>1, <1>4, <1>8, ParticipantActs
<1> QED BY <1>7, <1>9 DEF Does

LEMMA ParticipationDoes ==
    ASSUME Grows, NEW r, r \in Complete(Items), ParticipationSemanticAction(r)
    PROVE  \E g, p : Does(r, g, p)
<1>1. Ready(heap, stack, lookahead, Holds, r, "Participation")
  <2>1. PICK a : a = "Participation"
    OBVIOUS
  <2>2. a = Rules[r].action /\ a # "accept"
    BY <2>1 DEF ParticipationSemanticAction, Build
  <2> QED BY <2>1, <2>2, ReadyIs
<1>2. PICK g : g = Append(heap, New("Participation", <<>>))
  OBVIOUS
<1>3. PICK p : p = Len(heap) + 1
  OBVIOUS
<1>4. Return(r, g, p)
  BY <1>2, <1>3 DEF ParticipationSemanticAction, Build
<1>5. Fresh(heap, "Participation", <<>>, g, p)
  BY <1>2, <1>3 DEF Fresh
<1>6. Acts(heap, stack, lookahead, r, g, p)
  BY <1>1, <1>5, ParticipationActs
<1> QED BY <1>4, <1>6 DEF Does

LEMMA RelationshipBodyDoes ==
    ASSUME Grows, NEW r, r \in Complete(Items), RelationshipBodySemanticAction(r)
    PROVE  \E g, p : Does(r, g, p)
<1>1. Ready(heap, stack, lookahead, Holds, r, "RelationshipBody")
  <2>1. PICK a : a = "RelationshipBody"
    OBVIOUS
  <2>2. a = Rules[r].action /\ a # "accept"
    BY <2>1 DEF RelationshipBodySemanticAction, Build
  <2> QED BY <2>1, <2>2, ReadyIs
<1>2. PICK x : x = Arg(r, 1)
  OBVIOUS
<1>3. x = ArgOf(stack, r, 1)
  BY <1>2, ArgIs
<1>4. PICK g : g = Append(heap, New("Relationship", [attributes |-> x, attributes_last |-> heap[x].last]))
  OBVIOUS
<1>5. PICK p : p = Len(heap) + 1
  OBVIOUS
<1>6. Return(r, g, p)
  BY <1>2, <1>4, <1>5 DEF RelationshipBodySemanticAction, Build
<1>7. Fresh(heap, "Relationship", [attributes |-> x, attributes_last |-> heap[x].last], g, p)
  BY <1>4, <1>5 DEF Fresh
<1>8. Acts(heap, stack, lookahead, r, g, p)
  BY <1>1, <1>3, <1>7, RelationshipBodyActs
<1> QED BY <1>6, <1>8 DEF Does

LEMMA LiteralExpressionDoes ==
    ASSUME Grows, NEW r, r \in Complete(Items), LiteralExpressionSemanticAction(r)
    PROVE  \E g, p : Does(r, g, p)
<1>1. Ready(heap, stack, lookahead, Holds, r, "LiteralExpression")
  <2>1. PICK a : a = "LiteralExpression"
    OBVIOUS
  <2>2. a = Rules[r].action /\ a # "accept"
    BY <2>1 DEF LiteralExpressionSemanticAction, Build
  <2> QED BY <2>1, <2>2, ReadyIs
<1>2. PICK x : x = Arg(r, 1)
  OBVIOUS
<1>3. x = ArgOf(stack, r, 1)
  BY <1>2, ArgIs
<1>4. PICK g : g = Append(heap, New("Expression", [literal |-> x]))
  OBVIOUS
<1>5. PICK p : p = Len(heap) + 1
  OBVIOUS
<1>6. Return(r, g, p)
  BY <1>2, <1>4, <1>5 DEF LiteralExpressionSemanticAction, Build
<1>7. Fresh(heap, "Expression", [literal |-> x], g, p)
  BY <1>4, <1>5 DEF Fresh
<1>8. Acts(heap, stack, lookahead, r, g, p)
  BY <1>1, <1>3, <1>7, LiteralExpressionActs
<1> QED BY <1>6, <1>8 DEF Does

LEMMA IdentifierExpressionDoes ==
    ASSUME Grows, NEW r, r \in Complete(Items), IdentifierExpressionSemanticAction(r)
    PROVE  \E g, p : Does(r, g, p)
<1>1. Ready(heap, stack, lookahead, Holds, r, "IdentifierExpression")
  <2>1. PICK a : a = "IdentifierExpression"
    OBVIOUS
  <2>2. a = Rules[r].action /\ a # "accept"
    BY <2>1 DEF IdentifierExpressionSemanticAction, Build
  <2> QED BY <2>1, <2>2, ReadyIs
<1>2. PICK x : x = Arg(r, 1)
  OBVIOUS
<1>3. x = ArgOf(stack, r, 1)
  BY <1>2, ArgIs
<1>4. PICK g : g = Append(heap, New("Expression", [identifier |-> x]))
  OBVIOUS
<1>5. PICK p : p = Len(heap) + 1
  OBVIOUS
<1>6. Return(r, g, p)
  BY <1>2, <1>4, <1>5 DEF IdentifierExpressionSemanticAction, Build
<1>7. Fresh(heap, "Expression", [identifier |-> x], g, p)
  BY <1>4, <1>5 DEF Fresh
<1>8. Acts(heap, stack, lookahead, r, g, p)
  BY <1>1, <1>3, <1>7, IdentifierExpressionActs
<1> QED BY <1>6, <1>8 DEF Does

LEMMA ArithmeticExpressionDoes ==
    ASSUME Grows, NEW r, r \in Complete(Items), ArithmeticExpressionSemanticAction(r)
    PROVE  \E g, p : Does(r, g, p)
<1>1. Ready(heap, stack, lookahead, Holds, r, "ArithmeticExpression")
  <2>1. PICK a : a = "ArithmeticExpression"
    OBVIOUS
  <2>2. a = Rules[r].action /\ a # "accept"
    BY <2>1 DEF ArithmeticExpressionSemanticAction, Build
  <2> QED BY <2>1, <2>2, ReadyIs
<1>2. PICK x : x = Arg(r, 1)
  OBVIOUS
<1>3. PICK y : y = Arg(r, 2)
  OBVIOUS
<1>4. x = ArgOf(stack, r, 1) /\ y = ArgOf(stack, r, 2)
  BY <1>2, <1>3, ArgIs
<1>5. PICK g : g = Append(heap, New("Expression", [left |-> x, right |-> y]))
  OBVIOUS
<1>6. PICK p : p = Len(heap) + 1
  OBVIOUS
<1>7. Return(r, g, p)
  BY <1>2, <1>3, <1>5, <1>6 DEF ArithmeticExpressionSemanticAction, Build
<1>8. Fresh(heap, "Expression", [left |-> x, right |-> y], g, p)
  BY <1>5, <1>6 DEF Fresh
<1>9. Acts(heap, stack, lookahead, r, g, p)
  BY <1>1, <1>4, <1>8, ArithmeticExpressionActs
<1> QED BY <1>7, <1>9 DEF Does

LEMMA LiteralDoes ==
    ASSUME Grows, NEW r, r \in Complete(Items), LiteralSemanticAction(r)
    PROVE  \E g, p : Does(r, g, p)
<1>1. Ready(heap, stack, lookahead, Holds, r, "Literal")
  <2>1. PICK a : a = "Literal"
    OBVIOUS
  <2>2. a = Rules[r].action /\ a # "accept"
    BY <2>1 DEF LiteralSemanticAction, Build
  <2> QED BY <2>1, <2>2, ReadyIs
<1>2. PICK g : g = Append(heap, New("Literal", <<>>))
  OBVIOUS
<1>3. PICK p : p = Len(heap) + 1
  OBVIOUS
<1>4. Return(r, g, p)
  BY <1>2, <1>3 DEF LiteralSemanticAction, Build
<1>5. Fresh(heap, "Literal", <<>>, g, p)
  BY <1>2, <1>3 DEF Fresh
<1>6. Acts(heap, stack, lookahead, r, g, p)
  BY <1>1, <1>5, LiteralActs
<1> QED BY <1>4, <1>6 DEF Does

LEMMA StringLiteralDoes ==
    ASSUME Grows, NEW r, r \in Complete(Items), StringLiteralSemanticAction(r)
    PROVE  \E g, p : Does(r, g, p)
<1>1. Ready(heap, stack, lookahead, Holds, r, "StringLiteral")
  <2>1. PICK a : a = "StringLiteral"
    OBVIOUS
  <2>2. a = Rules[r].action /\ a # "accept"
    BY <2>1 DEF StringLiteralSemanticAction, Build
  <2> QED BY <2>1, <2>2, ReadyIs
<1>2. PICK x : x = Arg(r, 1)
  OBVIOUS
<1>3. x = ArgOf(stack, r, 1)
  BY <1>2, ArgIs
<1>4. PICK g : g = Append(heap, New("Literal", [string |-> x]))
  OBVIOUS
<1>5. PICK p : p = Len(heap) + 1
  OBVIOUS
<1>6. Return(r, g, p)
  BY <1>2, <1>4, <1>5 DEF StringLiteralSemanticAction, Build
<1>7. Fresh(heap, "Literal", [string |-> x], g, p)
  BY <1>4, <1>5 DEF Fresh
<1>8. Acts(heap, stack, lookahead, r, g, p)
  BY <1>1, <1>3, <1>7, StringLiteralActs
<1> QED BY <1>6, <1>8 DEF Does

LEMMA ReduceDoes ==
    ASSUME Grows, NEW r, r \in Complete(Items), reduce(r)
    PROVE  \E g, p : Does(r, g, p)
<1>1. CASE SchemaProgramSemanticAction(r)
  BY <1>1, SchemaProgramDoes
<1>2. CASE SchemaSemanticAction(r)
  BY <1>2, SchemaDoes
<1>3. CASE EmptySemanticAction(r)
  BY <1>3, EmptyDoes
<1>4. CASE AppendEntitySchemaBodySemanticAction(r)
  BY <1>4, AppendEntitySchemaBodyDoes
<1>5. CASE AppendRelationshipSchemaBodySemanticAction(r)
  BY <1>5, AppendRelationshipSchemaBodyDoes
<1>6. CASE EntitySemanticAction(r)
  BY <1>6, EntityDoes
<1>7. CASE AppendAttributeEntityBodySemanticAction(r)
  BY <1>7, AppendAttributeEntityBodyDoes
<1>8. CASE SetPrimaryKeyEntityBodySemanticAction(r)
  BY <1>8, SetPrimaryKeyEntityBodyDoes
<1>9. CASE AppendAssertionEntityBodySemanticAction(r)
  BY <1>9, AppendAssertionEntityBodyDoes
<1>10. CASE AttributeSemanticAction(r)
  BY <1>10, AttributeDoes
<1>11. CASE AttributeListSemanticAction(r)
  BY <1>11, AttributeListDoes
<1>12. CASE AppendAttributeListSemanticAction(r)
  BY <1>12, AppendAttributeListDoes
<1>13. CASE TypeSemanticAction(r)
  BY <1>13, TypeDoes
<1>14. CASE AppendModifierSemanticAction(r)
  BY <1>14, AppendModifierDoes
<1>15. CASE ModifierSemanticAction(r)
  BY <1>15, ModifierDoes
<1>16. CASE ModifierDefaultSemanticAction(r)
  BY <1>16, ModifierDefaultDoes
<1>17. CASE PrimaryKeySemanticAction(r)
  BY <1>17, PrimaryKeyDoes
<1>18. CASE CreateQualifiedIdentifier(r)
  BY <1>18, CreateQualifiedIdentifierDoes
<1>19. CASE QualifiedIdentifierListSemanticAction(r)
  BY <1>19, QualifiedIdentifierListDoes
<1>20. CASE AppendQualifiedIdentifierListSemanticAction(r)
  BY <1>20, AppendQualifiedIdentifierListDoes
<1>21. CASE AssertionSemanticAction(r)
  BY <1>21, AssertionDoes
<1>22. CASE RelationshipSemanticAction(r)
  BY <1>22, RelationshipDoes
<1>23. CASE ParticipantListSemanticAction(r)
  BY <1>23, ParticipantListDoes
<1>24. CASE AppendParticipantListSemanticAction(r)
  BY <1>24, AppendParticipantListDoes
<1>25. CASE ParticipantSemanticAction(r)
  BY <1>25, ParticipantDoes
<1>26. CASE ParticipationSemanticAction(r)
  BY <1>26, ParticipationDoes
<1>27. CASE RelationshipBodySemanticAction(r)
  BY <1>27, RelationshipBodyDoes
<1>28. CASE LiteralExpressionSemanticAction(r)
  BY <1>28, LiteralExpressionDoes
<1>29. CASE IdentifierExpressionSemanticAction(r)
  BY <1>29, IdentifierExpressionDoes
<1>30. CASE ArithmeticExpressionSemanticAction(r)
  BY <1>30, ArithmeticExpressionDoes
<1>31. CASE LiteralSemanticAction(r)
  BY <1>31, LiteralDoes
<1>32. CASE StringLiteralSemanticAction(r)
  BY <1>32, StringLiteralDoes
<1> QED BY <1>1, <1>2, <1>3, <1>4, <1>5, <1>6, <1>7, <1>8, <1>9, <1>10, <1>11, <1>12, <1>13, <1>14, <1>15, <1>16, <1>17, <1>18, <1>19, <1>20, <1>21, <1>22, <1>23, <1>24, <1>25, <1>26, <1>27, <1>28, <1>29, <1>30, <1>31, <1>32 DEF reduce

LEMMA AcceptHasNoAction == \A r : Rules[r].action = "accept" => ~reduce(r)
<1> SUFFICES ASSUME NEW r, Rules[r].action = "accept", reduce(r) PROVE FALSE
  OBVIOUS
<1>1. PICK a : a = "accept"
  OBVIOUS
<1>2. Rules[r].action = a
  BY <1>1
<1>3. CASE SchemaProgramSemanticAction(r)
  BY <1>1, <1>2, <1>3 DEF SchemaProgramSemanticAction, Build
<1>4. CASE SchemaSemanticAction(r)
  BY <1>1, <1>2, <1>4 DEF SchemaSemanticAction
<1>5. CASE EmptySemanticAction(r)
  BY <1>1, <1>2, <1>5 DEF EmptySemanticAction
<1>6. CASE AppendEntitySchemaBodySemanticAction(r)
  BY <1>1, <1>2, <1>6 DEF AppendEntitySchemaBodySemanticAction, AppendTo
<1>7. CASE AppendRelationshipSchemaBodySemanticAction(r)
  BY <1>1, <1>2, <1>7 DEF AppendRelationshipSchemaBodySemanticAction, AppendTo
<1>8. CASE EntitySemanticAction(r)
  BY <1>1, <1>2, <1>8 DEF EntitySemanticAction
<1>9. CASE AppendAttributeEntityBodySemanticAction(r)
  BY <1>1, <1>2, <1>9 DEF AppendAttributeEntityBodySemanticAction
<1>10. CASE SetPrimaryKeyEntityBodySemanticAction(r)
  BY <1>1, <1>2, <1>10 DEF SetPrimaryKeyEntityBodySemanticAction
<1>11. CASE AppendAssertionEntityBodySemanticAction(r)
  BY <1>1, <1>2, <1>11 DEF AppendAssertionEntityBodySemanticAction, AppendTo
<1>12. CASE AttributeSemanticAction(r)
  BY <1>1, <1>2, <1>12 DEF AttributeSemanticAction, Build
<1>13. CASE AttributeListSemanticAction(r)
  BY <1>1, <1>2, <1>13 DEF AttributeListSemanticAction, AppendNode
<1>14. CASE AppendAttributeListSemanticAction(r)
  BY <1>1, <1>2, <1>14 DEF AppendAttributeListSemanticAction, AppendNode
<1>15. CASE TypeSemanticAction(r)
  BY <1>1, <1>2, <1>15 DEF TypeSemanticAction, Build
<1>16. CASE AppendModifierSemanticAction(r)
  BY <1>1, <1>2, <1>16 DEF AppendModifierSemanticAction, AppendNode
<1>17. CASE ModifierSemanticAction(r)
  BY <1>1, <1>2, <1>17 DEF ModifierSemanticAction, Build
<1>18. CASE ModifierDefaultSemanticAction(r)
  BY <1>1, <1>2, <1>18 DEF ModifierDefaultSemanticAction, Build
<1>19. CASE PrimaryKeySemanticAction(r)
  BY <1>1, <1>2, <1>19 DEF PrimaryKeySemanticAction, Build
<1>20. CASE CreateQualifiedIdentifier(r)
  BY <1>1, <1>2, <1>20 DEF CreateQualifiedIdentifier, Build
<1>21. CASE QualifiedIdentifierListSemanticAction(r)
  BY <1>1, <1>2, <1>21 DEF QualifiedIdentifierListSemanticAction, AppendNode
<1>22. CASE AppendQualifiedIdentifierListSemanticAction(r)
  BY <1>1, <1>2, <1>22 DEF AppendQualifiedIdentifierListSemanticAction, AppendNode
<1>23. CASE AssertionSemanticAction(r)
  BY <1>1, <1>2, <1>23 DEF AssertionSemanticAction, Build
<1>24. CASE RelationshipSemanticAction(r)
  BY <1>1, <1>2, <1>24 DEF RelationshipSemanticAction
<1>25. CASE ParticipantListSemanticAction(r)
  BY <1>1, <1>2, <1>25 DEF ParticipantListSemanticAction, AppendNode
<1>26. CASE AppendParticipantListSemanticAction(r)
  BY <1>1, <1>2, <1>26 DEF AppendParticipantListSemanticAction, AppendNode
<1>27. CASE ParticipantSemanticAction(r)
  BY <1>1, <1>2, <1>27 DEF ParticipantSemanticAction, Build
<1>28. CASE ParticipationSemanticAction(r)
  BY <1>1, <1>2, <1>28 DEF ParticipationSemanticAction, Build
<1>29. CASE RelationshipBodySemanticAction(r)
  BY <1>1, <1>2, <1>29 DEF RelationshipBodySemanticAction, Build
<1>30. CASE LiteralExpressionSemanticAction(r)
  BY <1>1, <1>2, <1>30 DEF LiteralExpressionSemanticAction, Build
<1>31. CASE IdentifierExpressionSemanticAction(r)
  BY <1>1, <1>2, <1>31 DEF IdentifierExpressionSemanticAction, Build
<1>32. CASE ArithmeticExpressionSemanticAction(r)
  BY <1>1, <1>2, <1>32 DEF ArithmeticExpressionSemanticAction, Build
<1>33. CASE LiteralSemanticAction(r)
  BY <1>1, <1>2, <1>33 DEF LiteralSemanticAction, Build
<1>34. CASE StringLiteralSemanticAction(r)
  BY <1>1, <1>2, <1>34 DEF StringLiteralSemanticAction, Build
<1> QED BY <1>3, <1>4, <1>5, <1>6, <1>7, <1>8, <1>9, <1>10, <1>11, <1>12, <1>13, <1>14, <1>15, <1>16, <1>17, <1>18, <1>19, <1>20, <1>21, <1>22, <1>23, <1>24, <1>25, <1>26, <1>27, <1>28, <1>29, <1>30, <1>31, <1>32, <1>33, <1>34 DEF reduce

LEMMA DueComplete == Due \subseteq Complete(Items)
BY DEF Due

\* What the parser holds stays sound when it reduces.
LEMMA ReduceGrows ==
    ASSUME Grows, NEW r, r \in Complete(Items), reduce(r)
    PROVE  /\ Grows' /\ \E p : stack' = Reduced(stack, Base(stack, r), Rules[r].lhs, p)
                                  /\ Acts(heap, stack, lookahead, r, heap', p)
           /\ r # 1 /\ lookahead' = lookahead
<1>1. PICK g, p : Does(r, g, p)
  BY ReduceDoes
<1>2. Acts(heap, stack, lookahead, r, g, p) /\ heap' = g /\ lookahead' = lookahead
  BY <1>1 DEF Does, Return
<1>3. stack' = Reduced(stack, Base(stack, r), Rules[r].lhs, p)
  <2>1. Return(r, g, p)
    BY <1>1 DEF Does
  <2> QED BY <2>1 DEF Return, Reduced, Base, Last
<1>4. r # 1
  <2>1. Rules[1].action = "accept"
    BY DEF Rules, R
  <2> QED BY <2>1, AcceptHasNoAction
<1>5. r \in Complete(stack[Len(stack)].items)
  BY DEF Items, Last
<1>6. Growing(heap, stack, lookahead)
  BY DEF Grows
<1>7. PICK s : s = Reduced(stack, Base(stack, r), Rules[r].lhs, p)
  OBVIOUS
<1>8. Growing(g, s, lookahead)
  BY <1>2, <1>4, <1>5, <1>6, <1>7, ActKeeps
<1>9. Grows'
  BY <1>2, <1>3, <1>7, <1>8 DEF Grows
<1> QED BY <1>2, <1>3, <1>4, <1>9

-----------------------------------------------------------------------------
(* The program on the stack                                                *)

\* Where a state comes from.
Reads(st, i, Y) ==
    /\ i - 1 \in 1 .. Len(st) /\ st[i - 1].items \subseteq AllItems
    /\ Y \in NextSymbols(st[i - 1].items) /\ st[i].items = Goto(st[i - 1].items, Y)
ReadBy(h, st, i, Y) ==
    /\ Reads(st, i, Y) /\ Fits(h, Y, st[i].ptr) /\ Stated(st[i].items)
    /\ \A e \in st[i].items : e[2] > 0 =>
          <<e[1], e[2] - 1>> \in st[i - 1].items /\ Rules[e[1]].rhs[e[2]] = Y
LEMMA StateRead ==
    ASSUME NEW h, NEW st, StackOK(h, st), NEW i \in 2 .. Len(st)
    PROVE  \E Y : ReadBy(h, st, i, Y)
<1>1. PICK Y \in NextSymbols(st[i - 1].items) :
          st[i].items = Goto(st[i - 1].items, Y) /\ Fits(h, Y, st[i].ptr)
  BY DEF StackOK, ReadAt
<1>2. i - 1 \in 1 .. Len(st) /\ Stated(st[i].items)
  BY StackFacts
<1>3. st[i - 1].items \subseteq AllItems
  BY <1>2, StackFacts
<1>4. \A e \in st[i].items : e[2] > 0 =>
          <<e[1], e[2] - 1>> \in st[i - 1].items /\ Rules[e[1]].rhs[e[2]] = Y
  BY <1>1, <1>3, GotoIs
<1> QED BY <1>1, <1>2, <1>3, <1>4 DEF Reads, ReadBy

LEMMA FirstRule == Rules[1].rhs = <<"program", "END">> /\ Len(Rules[1].rhs) = 2
                   /\ Rules[1].rhs[1] = "program" /\ Rules[1].rhs[2] = "END"
BY DEF Rules, R

LEMMA ProgramRead ==
    ASSUME NEW h, NEW st, StackOK(h, st), NEW i \in 1 .. Len(st), <<1, 1>> \in st[i].items
    PROVE  i = 2 /\ st[i].ptr # 0 /\ IsWhole(h, st[i].ptr, "Program")
<1>1. PICK e : e = <<1, 1>>
  OBVIOUS
<1>2. e \in st[i].items /\ e[1] = 1 /\ e[2] = 1 /\ e[2] > 0 /\ e[2] - 1 = 0
  BY <1>1
<1>3. /\ i \in 2 .. Len(st) /\ i - 1 \in 1 .. Len(st)
      /\ <<1, 0>> \in st[i - 1].items
      /\ Fits(h, Rules[1].rhs[1], st[i].ptr)
  BY <1>2, ReadOne
<1>4. i = 2
  <2> SUFFICES ASSUME i # 2 PROVE FALSE
    OBVIOUS
  <2>1. Len(st) \in Nat
    BY StackFacts
  <2>2. i - 1 \in 2 .. Len(st)
    BY <1>3, <2>1
  <2>3. Stated(st[i - 1].items)
    BY <2>2, StackFacts
  <2>4. 1 \in 1 .. 45
    OBVIOUS
  <2> QED BY <1>3, <2>3, <2>4 DEF Stated
<1>5. Fits(h, "program", st[i].ptr)
  BY <1>3, FirstRule
<1>6. PICK X : X = "program"
  OBVIOUS
<1>7. X \in DOMAIN Kind /\ X \notin May /\ X \notin Bodies /\ Kind[X] = "Program"
  BY <1>6, KindsAre DEF May, Bodies
<1>8. Fits(h, X, st[i].ptr)
  BY <1>5, <1>6
<1> QED BY <1>4, <1>7, <1>8 DEF Fits

\* The program, if it is made, is the second value of the stack.
Published(st, pr) ==
    pr = IF Len(st) >= 2 /\ <<1, 1>> \in st[2].items THEN st[2].ptr ELSE 0

LEMMA OnlyProgram ==
    ASSUME NEW I, I \subseteq AllItems, NEW X, X \in NextSymbols(I), X # "program"
    PROVE  <<1, 1>> \notin Goto(I, X)
<1> SUFFICES ASSUME <<1, 1>> \in Goto(I, X) PROVE FALSE
  OBVIOUS
<1>1. PICK e : e = <<1, 1>>
  OBVIOUS
<1>2. e \in Goto(I, X) /\ e[1] = 1 /\ e[2] = 1 /\ e[2] > 0
  BY <1>1
<1>4. \A d \in Goto(I, X) : d[2] > 0 => Rules[d[1]].rhs[d[2]] = X
  BY GotoIs
<1>5. Rules[e[1]].rhs[e[2]] = X
  BY <1>2, <1>4
<1>3. Rules[1].rhs[1] = X
  BY <1>2, <1>5
<1> QED BY <1>3, FirstRule

\* Nothing else makes one.
LEMMA PublishedShift ==
    ASSUME NEW h, NEW st, StackOK(h, st), NEW pr, Published(st, pr),
           NEW I, I = st[Len(st)].items, NEW X, X \in NextSymbols(I), X # "program",
           NEW p, NEW s, s = Append(st, [items |-> Goto(I, X), ptr |-> p]),
           s \in Seq(Frames)
    PROVE  Published(s, pr)
<1>1. st \in Seq(Frames) /\ Len(st) \in Nat /\ Len(st) > 0
  BY StackFacts DEF StackOK
<1>2. Len(s) = Len(st) + 1 /\ (\A i \in 1 .. Len(st) : s[i] = st[i])
      /\ s[Len(st) + 1] = [items |-> Goto(I, X), ptr |-> p]
  <2>1. PICK f : f = [items |-> Goto(I, X), ptr |-> p]
    OBVIOUS
  <2>2. s = Append(st, f)
    BY <2>1
  <2>3. Len(s) = Len(st) + 1 /\ (\A i \in 1 .. Len(st) : s[i] = st[i]) /\ s[Len(st) + 1] = f
    BY <1>1, <2>2
  <2> QED BY <2>1, <2>3
<1>3. CASE Len(st) >= 2
  <2>1. 2 \in 1 .. Len(st) /\ Len(s) >= 2
    BY <1>1, <1>2, <1>3
  <2>2. s[2] = st[2]
    BY <1>2, <2>1
  <2> QED BY <1>3, <2>1, <2>2 DEF Published
<1>4. CASE ~(Len(st) >= 2)
  <2>1. Len(st) = 1 /\ Len(st) + 1 = 2
    <3>1. Len(st) \in Nat /\ Len(st) > 0
      BY <1>1
    <3>2. PICK n : n = Len(st)
      OBVIOUS
    <3>3. n \in Nat /\ n > 0 /\ ~(n >= 2)
      BY <3>1, <3>2, <1>4
    <3>4. n = 1
      BY <3>3
    <3> QED BY <3>2, <3>4
  <2>2. s[2].items = Goto(I, X)
    BY <1>2, <2>1
  <2>5. Len(st) \in 1 .. Len(st)
    BY <2>1
  <2>3. I \subseteq AllItems
    BY <2>5, StackFacts
  <2>4. <<1, 1>> \notin s[2].items
    BY <2>2, <2>3, OnlyProgram
  <2> QED BY <1>4, <2>4 DEF Published
<1> QED BY <1>3, <1>4

\* No rule but the first is about the program.
LEMMA ProgramStays ==
    ASSUME NEW h, NEW st, StackOK(h, st), NEW r, r \in Complete(st[Len(st)].items), r # 1,
           2 \in 1 .. Len(st), <<1, 1>> \in st[2].items
    PROVE  Base(st, r) >= 2
<1>1. PICK n : n = Len(Rules[r].rhs)
  OBVIOUS
<1>2. PICK b : b = Len(st) - n
  OBVIOUS
<1>3. /\ r \in 1 .. 45 /\ n \in Nat /\ b \in 1 .. Len(st) /\ <<r, n>> \in st[Len(st)].items
      /\ Len(st) \in Nat
  <2>1. Popped(h, st, r, Len(Rules[r].rhs)) /\ r \in 1 .. 45
    BY PoppedIs
  <2>2. PICK e \in st[Len(st)].items : ~Unread(e) /\ r = e[1]
    BY DEF Complete
  <2>3. Len(st) \in Nat /\ Len(st) \in 1 .. Len(st) /\ st[Len(st)].items \subseteq AllItems
    <3>1. Len(st) \in Nat /\ Len(st) > 0
      BY StackFacts
    <3>2. Len(st) \in 1 .. Len(st)
      BY <3>1
    <3> QED BY <3>1, <3>2, StackFacts
  <2>4. e[2] \in Nat /\ e = <<r, e[2]>> /\ e[2] <= n
    BY <1>1, <2>2, <2>3, ItemIs
  <2>5. n \in Nat /\ b \in 1 .. Len(st)
    BY <1>1, <1>2, <2>1 DEF Popped
  <2>6. ~(e[2] < n)
    BY <1>1, <2>2 DEF Unread
  <2>7. e[2] = n
    BY <2>4, <2>5, <2>6
  <2> QED BY <2>1, <2>2, <2>3, <2>4, <2>5, <2>7
<1>4. Base(st, r) = b
  BY <1>1, <1>2 DEF Base
<1> SUFFICES ASSUME b = 1 PROVE FALSE
  BY <1>3, <1>4
<1>5. n = Len(st) - 1 /\ n >= 1 /\ 1 \in 0 .. n /\ Len(st) - n + 1 = 2
  BY <1>2, <1>3
<1>6. Begun0(h, st, Len(st), r, n)
  <2>1. Len(st) \in 1 .. Len(st)
    BY <1>3
  <2> QED BY <1>3, <2>1, ItemBegun
<1>7. <<r, 1>> \in st[2].items
  BY <1>5, <1>6 DEF Begun0
<1>14. PICK i : i = 2
  OBVIOUS
<1>8. PICK Y : ReadBy(h, st, i, Y)
  <2>1. i \in 2 .. Len(st)
    BY <1>3, <1>14
  <2> QED BY <2>1, StateRead
<1>9. PICK e : e = <<1, 1>>
  OBVIOUS
<1>10. PICK d : d = <<r, 1>>
  OBVIOUS
<1>11. Rules[1].rhs[1] = Y /\ Rules[r].rhs[1] = Y
  <2>1. e \in st[i].items /\ e[1] = 1 /\ e[2] = 1 /\ d \in st[i].items /\ d[1] = r /\ d[2] = 1
    BY <1>7, <1>9, <1>10, <1>14
  <2>2. e[2] > 0 /\ d[2] > 0
    BY <2>1
  <2> QED BY <1>8, <2>1, <2>2 DEF ReadBy
<1>12. Rules[r].rhs[1] = "program"
  BY <1>11, FirstRule
<1>13. 1 \in 1 .. Len(Rules[r].rhs)
  BY <1>1, <1>3, <1>5
<1> QED BY <1>3, <1>12, <1>13, RhsSymbols

LEMMA PublishedReduce ==
    ASSUME NEW h, NEW st, StackOK(h, st), NEW pr, Published(st, pr),
           NEW r, r \in Complete(st[Len(st)].items), r # 1, NEW b, b = Base(st, r),
           b \in 1 .. Len(st), NEW X, X \in NextSymbols(st[b].items),
           NEW p, NEW s, ReducedTo(s, st, b, X, p)
    PROVE  /\ X # "program" => Published(s, pr)
           /\ X = "program" => Published(s, p)
<1>1. Len(st) \in Nat /\ Len(st) > 0 /\ st[b].items \subseteq AllItems
  BY StackFacts
<1>2. /\ Len(s) = b + 1 /\ (\A i \in 1 .. b : s[i] = st[i])
      /\ s[b + 1].items = Goto(st[b].items, X) /\ s[b + 1].ptr = p
  BY DEF ReducedTo
<1>3. ASSUME X = "program" PROVE Published(s, p)
  <2>1. PICK j \in st[b].items : Unread(j) /\ NextSymbol(j) = X
    BY DEF NextSymbols
  <2>2. j = <<1, 0>>
    BY <1>1, <1>3, <2>1, ItemIs
  <2>3. b = 1
    <3> SUFFICES ASSUME b # 1 PROVE FALSE
      OBVIOUS
    <3>1. b \in 2 .. Len(st)
      BY <1>1
    <3>2. Stated(st[b].items)
      BY <3>1, StackFacts
    <3>3. 1 \in 1 .. 45
      OBVIOUS
    <3> QED BY <2>1, <2>2, <3>2, <3>3 DEF Stated
  <2>4. <<j[1], j[2] + 1>> \in Goto(st[b].items, X)
    BY <1>1, <2>1, GotoIs
  <2>5. <<1, 1>> \in s[2].items /\ s[2].ptr = p /\ Len(s) >= 2
    BY <1>2, <2>2, <2>3, <2>4
  <2> QED BY <2>5 DEF Published
<1>4. ASSUME X # "program" PROVE Published(s, pr)
  <2>1. CASE b >= 2
    <3>1. 2 \in 1 .. b /\ Len(s) >= 2 /\ Len(st) >= 2
      BY <1>1, <1>2, <2>1
    <3>2. s[2] = st[2]
      BY <1>2, <3>1
    <3> QED BY <3>1, <3>2 DEF Published
  <2>2. CASE ~(b >= 2)
    <3>1. b = 1 /\ b + 1 = 2
      BY <1>1, <2>2
    <3>2. <<1, 1>> \notin s[2].items
      BY <1>1, <1>2, <1>4, <3>1, OnlyProgram
    <3>3. ~(Len(st) >= 2 /\ <<1, 1>> \in st[2].items)
      <4> SUFFICES ASSUME Len(st) >= 2, <<1, 1>> \in st[2].items PROVE FALSE
        OBVIOUS
      <4>1. 2 \in 1 .. Len(st)
        BY <1>1
      <4> QED BY <4>1, <2>2, ProgramStays
    <3> QED BY <3>2, <3>3 DEF Published
  <2> QED BY <2>1, <2>2
<1> QED BY <1>3, <1>4

\* An accepted program is whole.
LEMMA AcceptedWhole ==
    ASSUME NEW h, NEW st, StackOK(h, st), NEW pr, Published(st, pr),
           1 \in Complete(st[Len(st)].items)
    PROVE  pr # 0 /\ IsWhole(h, pr, "Program") /\ Len(st) = 3 /\ pr = st[2].ptr /\ st[3].ptr = 0
<1>1. PICK e \in st[Len(st)].items : ~Unread(e) /\ 1 = e[1]
  BY DEF Complete
<1>2. Len(st) \in Nat /\ Len(st) > 0 /\ Len(st) \in 1 .. Len(st) /\ st[Len(st)].items \subseteq AllItems
  <2>1. Len(st) \in Nat /\ Len(st) > 0
    BY StackFacts
  <2>2. Len(st) \in 1 .. Len(st)
    BY <2>1
  <2> QED BY <2>1, <2>2, StackFacts
<1>3. e = <<1, 2>>
  <2>1. e[2] \in Nat /\ e = <<1, e[2]>> /\ e[2] <= 2 /\ ~(e[2] < 2)
    BY <1>1, <1>2, ItemIs, FirstRule DEF Unread
  <2> QED BY <2>1
<1>4. e[1] = 1 /\ e[2] = 2 /\ e[2] > 0 /\ e[2] - 1 = 1
  BY <1>3
<1>5. <<1, 1>> \in st[Len(st) - 1].items /\ Len(st) - 1 \in 1 .. Len(st)
      /\ Fits(h, Rules[1].rhs[2], st[Len(st)].ptr)
  BY <1>1, <1>2, <1>4, ReadOne
<1>6. Len(st) - 1 = 2 /\ st[2].ptr # 0 /\ IsWhole(h, st[2].ptr, "Program")
  BY <1>5, ProgramRead
<1>7. Len(st) = 3 /\ Len(st) >= 2
  <2>1. Len(st) \in Nat /\ Len(st) - 1 = 2
    BY <1>2, <1>6
  <2> QED BY <2>1
<1>8. pr = st[2].ptr
  BY <1>5, <1>6, <1>7 DEF Published
<1>9. st[3].ptr = 0
  <2>1. PICK X : X = "END"
    OBVIOUS
  <2>2. X \notin DOMAIN Kind
    BY <2>1, KindsAre
  <2>3. Fits(h, X, st[3].ptr)
    BY <1>5, <1>7, <2>1, FirstRule
  <2> QED BY <2>2, <2>3 DEF Fits
<1> QED BY <1>6, <1>7, <1>8, <1>9

-----------------------------------------------------------------------------
(* The inductive invariant                                                 *)

\* While there is a stack, what it and the lookahead token hold is sound, and so is
\* the program on it; when the stack is gone the heap is what it was.
OnStack == Grows /\ Published(stack, program)
Root(h, K, pr) == Sound(h, K) /\ (pr = 0 \/ (pr \in K /\ IsWhole(h, pr, "Program")))
Growth ==
    /\ stack = <<>> \/ OnStack
    /\ stack = <<>> => lookahead = NoToken /\ status = "FAILED" /\ \E K : Root(heap, K, program)
    /\ status = "SUCCEEDED" => 1 \in Complete(Items)
    /\ status \in {"IN_PROGRESS", "SUCCEEDED", "FAILED"}

LEMMA NoFrames == ASSUME NEW h, NEW st, StackOK(h, st) PROVE st # <<>>
BY StackFacts

LEMMA RootHeld ==
    ASSUME NEW h, NEW st, NEW la, Growing(h, st, la), NEW pr, Published(st, pr)
    PROVE  Root(h, HeldBy(st, la), pr)
<1>1. StackOK(h, st) /\ Sound(h, HeldBy(st, la))
  BY DEF Growing
<1>2. CASE Len(st) >= 2 /\ <<1, 1>> \in st[2].items
  <2>1. PICK i : i = 2
    OBVIOUS
  <2>2. i \in 1 .. Len(st) /\ i \in 1 .. Len(st) + 1 /\ <<1, 1>> \in st[i].items
    <3>1. Len(st) \in Nat
      BY <1>1, StackFacts
    <3>2. i \in 1 .. Len(st) /\ i \in 1 .. Len(st) + 1
      BY <3>1, <2>1, <1>2
    <3> QED BY <3>2, <2>1, <1>2
  <2>3. st[i].ptr # 0 /\ IsWhole(h, st[i].ptr, "Program")
    BY <1>1, <2>2, ProgramRead
  <2>4. st[i].ptr \in HeldBy(st, la)
    BY <2>2, <2>3, HeldFacts
  <2>5. pr = st[i].ptr
    BY <1>2, <2>1 DEF Published
  <2> QED BY <1>1, <2>3, <2>4, <2>5 DEF Root
<1>3. CASE ~(Len(st) >= 2 /\ <<1, 1>> \in st[2].items)
  <2>1. pr = 0
    BY <1>3 DEF Published
  <2> QED BY <1>1, <2>1 DEF Root
<1> QED BY <1>2, <1>3

LEMMA NoneSound == Sound(<<>>, {})
<1>1. PICK h : h = <<>>
  OBVIOUS
<1>2. DOMAIN h = {} /\ h \in Seq(Cells)
  BY <1>1
<1>3. Shape(h)
  BY <1>2 DEF Shape
<1>4. Typed(h) /\ Single(h) /\ Unchained(h)
  BY <1>2 DEF Typed, Single, Unchained, Owns
<1>5. PICK K : K = {}
  OBVIOUS
<1>6. Rooted(h, K)
  BY <1>2, <1>5 DEF Rooted
<1>7. Ownership(h, K) /\ Ordered(h) /\ Older(h) /\ Apart(h, K) /\ \A o \in K : Open(h, o)
  BY <1>2, <1>3, <1>4, <1>5, <1>6 DEF Ownership, Ordered, Older, Apart
<1>8. Sound(h, K)
  BY <1>7 DEF Sound
<1> QED BY <1>1, <1>5, <1>8

LEMMA InitGrowth == Init => Growth
<1> SUFFICES ASSUME Init PROVE Growth
  OBVIOUS
<1>1. /\ heap = <<>> /\ lookahead = NoToken /\ stack = << [items |-> Start, ptr |-> 0] >>
      /\ program = 0 /\ status = "IN_PROGRESS"
  BY DEF Init
<1>2. PICK f : f = [items |-> Start, ptr |-> 0]
  OBVIOUS
<1>3. stack = <<f>> /\ Len(stack) = 1 /\ stack[1] = f /\ stack # <<>>
  BY <1>1, <1>2
<1>4. f \in Frames
  <2>1. Start \subseteq AllItems
    BY StartIs
  <2> QED BY <1>2, <2>1 DEF Frames
<1>5. StackOK(heap, stack)
  <2>1. stack \in Seq(Frames)
    BY <1>3, <1>4
  <2>2. \A i \in 2 .. Len(stack) : FALSE
    BY <1>3
  <2>3. stack[1] = [items |-> Start, ptr |-> 0] /\ Len(stack) > 0
    BY <1>2, <1>3
  <2> QED BY <2>1, <2>2, <2>3 DEF StackOK
<1>6. \A i \in 1 .. Len(stack) + 1 : PtrAt(stack, lookahead, i) = 0
  <2>1. lookahead.ptr = 0 /\ stack[1].ptr = 0
    BY <1>1, <1>2, <1>3 DEF NoToken
  <2>2. \A i \in 1 .. Len(stack) : i = 1
    BY <1>3
  <2> QED BY <2>1, <2>2 DEF PtrAt
<1>7. HeldBy(stack, lookahead) = {}
  BY <1>6 DEF HeldBy
<1>8. Sound(heap, HeldBy(stack, lookahead))
  BY <1>1, <1>7, NoneSound
<1>9. InOrder(heap, stack, lookahead)
  BY <1>6 DEF InOrder, Earlier
<1>10. Token(heap, lookahead)
  BY <1>1 DEF Token, NoToken, Strings
<1>11. Grows
  BY <1>5, <1>8, <1>9, <1>10 DEF Grows, Growing
<1>12. Published(stack, program)
  BY <1>1, <1>3 DEF Published
<1> QED BY <1>1, <1>3, <1>11, <1>12 DEF Growth, OnStack

\* A token arrives.
LEMMA TokenGrows ==
    ASSUME Growth, pushToken
    PROVE  Grows' /\ Published(stack, program)' /\ stack' = stack /\ stack # <<>>
<1>1. Parsing /\ lookahead = NoToken /\ stack' = stack /\ program' = program
  BY DEF pushToken
<1>2. stack # <<>> /\ Grows /\ Published(stack, program)
  BY <1>1 DEF Growth, Parsing, OnStack
<1>3. Growing(heap, stack, NoToken)
  BY <1>1, <1>2 DEF Grows
<1>4. PICK sym \in Terminals \cup {"END"} :
          IF sym \in Strings
          THEN heap' = Append(heap, calloc("String")) /\ lookahead' = [sym |-> sym, ptr |-> Len(heap) + 1]
          ELSE lookahead' = [sym |-> sym, ptr |-> 0] /\ UNCHANGED heap
  BY DEF pushToken
<1>5. CASE sym \in Strings
  <2>1. PICK g : g = Append(heap, calloc("String"))
    OBVIOUS
  <2>2. PICK n : n = Len(heap) + 1
    OBVIOUS
  <2>3. PICK la : la = [sym |-> sym, ptr |-> n]
    OBVIOUS
  <2>4. la.sym \in Strings /\ la.ptr = n /\ heap' = g /\ lookahead' = la
    BY <1>4, <1>5, <2>1, <2>2, <2>3
  <2>5. Growing(g, stack, la)
    BY <1>3, <2>1, <2>2, <2>4, StringToken
  <2> QED BY <1>1, <1>2, <2>4, <2>5 DEF Grows
<1>6. CASE sym \notin Strings
  <2>1. PICK la : la = [sym |-> sym, ptr |-> 0]
    OBVIOUS
  <2>2. la.sym \notin Strings /\ la.ptr = 0 /\ heap' = heap /\ lookahead' = la
    BY <1>4, <1>6, <2>1
  <2>3. Growing(heap, stack, la)
    BY <1>3, <2>2, PlainToken
  <2> QED BY <1>1, <1>2, <2>2, <2>3 DEF Grows
<1> QED BY <1>5, <1>6

\* A token is shifted.
LEMMA ShiftGrows ==
    ASSUME Growth, shift
    PROVE  Grows' /\ Published(stack, program)' /\ stack' # <<>>
<1>1. /\ Parsing /\ lookahead.sym \in Shiftable(Items) /\ heap' = heap /\ program' = program
      /\ lookahead' = NoToken
      /\ stack' = Append(stack, [items |-> Goto(Items, lookahead.sym), ptr |-> lookahead.ptr])
  BY DEF shift
<1>2. Growing(heap, stack, lookahead) /\ Published(stack, program)
  BY <1>1 DEF Growth, Parsing, OnStack, Grows
<1>3. PICK I : I = stack[Len(stack)].items
  OBVIOUS
<1>4. Items = I
  BY <1>3 DEF Items, Last
<1>5. PICK s : s = Append(stack, [items |-> Goto(I, lookahead.sym), ptr |-> lookahead.ptr])
  OBVIOUS
<1>6. lookahead.sym \in Shiftable(I) /\ stack' = s
  BY <1>1, <1>4, <1>5
<1>7. /\ Growing(heap, s, NoToken) /\ lookahead.sym \in NextSymbols(I) /\ lookahead.sym \notin Heads
  BY <1>2, <1>3, <1>5, <1>6, ShiftKeeps
<1>8. PICK X : X = lookahead.sym
  OBVIOUS
<1>9. X # "program"
  <2>1. Rules[2].lhs = "program" /\ 2 \in 1 .. 45
    BY DEF Rules, R
  <2>2. "program" \in Heads
    BY <2>1, HeadsAre
  <2> QED BY <2>2, <1>7, <1>8
<1>10. StackOK(heap, s) /\ StackOK(heap, stack)
  BY <1>2, <1>7 DEF Growing
<1>11. s \in Seq(Frames)
  BY <1>10 DEF StackOK
<1>12. Published(s, program)
  <2>1. PICK p : p = lookahead.ptr
    OBVIOUS
  <2>2. s = Append(stack, [items |-> Goto(I, X), ptr |-> p])
    BY <2>1, <1>5, <1>8
  <2>3. X \in NextSymbols(I)
    BY <1>7, <1>8
  <2> QED BY <1>2, <1>3, <1>9, <1>10, <1>11, <2>2, <2>3, PublishedShift
<1> QED BY <1>1, <1>6, <1>7, <1>10, <1>12, NoFrames DEF Grows

LEMMA ProgramRule ==
    \A r \in 1 .. 45 : Rules[r].action = "SchemaProgram" <=> Rules[r].lhs = "program"
<1>1. ASSUME NEW a, a \in DOMAIN Operands PROVE a = "SchemaProgram" <=> Results[a] = "program"
  BY <1>1 DEF Operands, Results
<1>2. "program" \notin May
  BY DEF May
<1>3. Rules[1].lhs # "program" /\ Rules[1].action # "SchemaProgram"
  BY DEF Rules, R
<1>4. ASSUME NEW r \in 2 .. 45 PROVE Rules[r].action = "SchemaProgram" <=> Rules[r].lhs = "program"
  <2>1. RuleArgs(r)
    BY RulesArgs
  <2>2. PICK a : a = Rules[r].action
    OBVIOUS
  <2>3. PICK X : X = Rules[r].lhs
    OBVIOUS
  <2>4. (a = "Empty" /\ X \in May) \/ (a \in DOMAIN Operands /\ X = Results[a])
    BY <2>1, <2>2, <2>3 DEF RuleArgs
  <2> QED BY <2>2, <2>3, <2>4, <1>1, <1>2
<1>5. \A r \in 1 .. 45 : r = 1 \/ r \in 2 .. 45
  OBVIOUS
<1> QED BY <1>3, <1>4, <1>5

\* Only the action of the program publishes.
LEMMA ProgramPublished ==
    ASSUME NEW r, reduce(r)
    PROVE  \/ Rules[r].action # "SchemaProgram" /\ program' = program
           \/ /\ Rules[r].action = "SchemaProgram" /\ program' = Len(heap) + 1
              /\ stack' = Reduced(stack, Base(stack, r), Rules[r].lhs, Len(heap) + 1)
<1>1. CASE SchemaProgramSemanticAction(r)
  <2>1. PICK p : p = Len(heap) + 1
    OBVIOUS
  <2>2. PICK g : g = Append(heap, New("Program", [schema |-> Arg(r, 1)]))
    OBVIOUS
  <2>3. Rules[r].action = "SchemaProgram" /\ program' = p /\ Return(r, g, p)
    BY <1>1, <2>1, <2>2 DEF SchemaProgramSemanticAction, Build
  <2>4. stack' = Reduced(stack, Base(stack, r), Rules[r].lhs, p)
    BY <2>3 DEF Return, Reduced, Base, Last
  <2> QED BY <2>1, <2>3, <2>4
<1>2. CASE ~SchemaProgramSemanticAction(r)
  <2>1. PICK a : a = "SchemaProgram"
    OBVIOUS
  <2>2. program' = program
    BY <1>2 DEF reduce
  <2>3. SchemaSemanticAction(r) => Rules[r].action # a
    BY <2>1 DEF SchemaSemanticAction
  <2>4. EmptySemanticAction(r) => Rules[r].action # a
    BY <2>1 DEF EmptySemanticAction
  <2>5. AppendEntitySchemaBodySemanticAction(r) => Rules[r].action # a
    BY <2>1 DEF AppendEntitySchemaBodySemanticAction, AppendTo
  <2>6. AppendRelationshipSchemaBodySemanticAction(r) => Rules[r].action # a
    BY <2>1 DEF AppendRelationshipSchemaBodySemanticAction, AppendTo
  <2>7. EntitySemanticAction(r) => Rules[r].action # a
    BY <2>1 DEF EntitySemanticAction
  <2>8. AppendAttributeEntityBodySemanticAction(r) => Rules[r].action # a
    BY <2>1 DEF AppendAttributeEntityBodySemanticAction
  <2>9. SetPrimaryKeyEntityBodySemanticAction(r) => Rules[r].action # a
    BY <2>1 DEF SetPrimaryKeyEntityBodySemanticAction
  <2>10. AppendAssertionEntityBodySemanticAction(r) => Rules[r].action # a
    BY <2>1 DEF AppendAssertionEntityBodySemanticAction, AppendTo
  <2>11. AttributeSemanticAction(r) => Rules[r].action # a
    BY <2>1 DEF AttributeSemanticAction, Build
  <2>12. AttributeListSemanticAction(r) => Rules[r].action # a
    BY <2>1 DEF AttributeListSemanticAction, AppendNode
  <2>13. AppendAttributeListSemanticAction(r) => Rules[r].action # a
    BY <2>1 DEF AppendAttributeListSemanticAction, AppendNode
  <2>14. TypeSemanticAction(r) => Rules[r].action # a
    BY <2>1 DEF TypeSemanticAction, Build
  <2>15. AppendModifierSemanticAction(r) => Rules[r].action # a
    BY <2>1 DEF AppendModifierSemanticAction, AppendNode
  <2>16. ModifierSemanticAction(r) => Rules[r].action # a
    BY <2>1 DEF ModifierSemanticAction, Build
  <2>17. ModifierDefaultSemanticAction(r) => Rules[r].action # a
    BY <2>1 DEF ModifierDefaultSemanticAction, Build
  <2>18. PrimaryKeySemanticAction(r) => Rules[r].action # a
    BY <2>1 DEF PrimaryKeySemanticAction, Build
  <2>19. CreateQualifiedIdentifier(r) => Rules[r].action # a
    BY <2>1 DEF CreateQualifiedIdentifier, Build
  <2>20. QualifiedIdentifierListSemanticAction(r) => Rules[r].action # a
    BY <2>1 DEF QualifiedIdentifierListSemanticAction, AppendNode
  <2>21. AppendQualifiedIdentifierListSemanticAction(r) => Rules[r].action # a
    BY <2>1 DEF AppendQualifiedIdentifierListSemanticAction, AppendNode
  <2>22. AssertionSemanticAction(r) => Rules[r].action # a
    BY <2>1 DEF AssertionSemanticAction, Build
  <2>23. RelationshipSemanticAction(r) => Rules[r].action # a
    BY <2>1 DEF RelationshipSemanticAction
  <2>24. ParticipantListSemanticAction(r) => Rules[r].action # a
    BY <2>1 DEF ParticipantListSemanticAction, AppendNode
  <2>25. AppendParticipantListSemanticAction(r) => Rules[r].action # a
    BY <2>1 DEF AppendParticipantListSemanticAction, AppendNode
  <2>26. ParticipantSemanticAction(r) => Rules[r].action # a
    BY <2>1 DEF ParticipantSemanticAction, Build
  <2>27. ParticipationSemanticAction(r) => Rules[r].action # a
    BY <2>1 DEF ParticipationSemanticAction, Build
  <2>28. RelationshipBodySemanticAction(r) => Rules[r].action # a
    BY <2>1 DEF RelationshipBodySemanticAction, Build
  <2>29. LiteralExpressionSemanticAction(r) => Rules[r].action # a
    BY <2>1 DEF LiteralExpressionSemanticAction, Build
  <2>30. IdentifierExpressionSemanticAction(r) => Rules[r].action # a
    BY <2>1 DEF IdentifierExpressionSemanticAction, Build
  <2>31. ArithmeticExpressionSemanticAction(r) => Rules[r].action # a
    BY <2>1 DEF ArithmeticExpressionSemanticAction, Build
  <2>32. LiteralSemanticAction(r) => Rules[r].action # a
    BY <2>1 DEF LiteralSemanticAction, Build
  <2>33. StringLiteralSemanticAction(r) => Rules[r].action # a
    BY <2>1 DEF StringLiteralSemanticAction, Build
  <2>34. Rules[r].action # a
    BY <1>2, <2>3, <2>4, <2>5, <2>6, <2>7, <2>8, <2>9, <2>10, <2>11, <2>12, <2>13, <2>14, <2>15, <2>16, <2>17, <2>18, <2>19, <2>20, <2>21, <2>22, <2>23, <2>24, <2>25, <2>26, <2>27, <2>28, <2>29, <2>30, <2>31, <2>32, <2>33 DEF reduce
  <2> QED BY <2>1, <2>2, <2>34
<1> QED BY <1>1, <1>2

\* A rule is reduced.
LEMMA ReducePublishes ==
    ASSUME Growth, NEW r, r \in Due, reduce(r)
    PROVE  Grows' /\ Published(stack, program)' /\ stack' # <<>>
<1>1. Growing(heap, stack, lookahead) /\ Published(stack, program) /\ Grows
  BY DEF Due, Growth, Parsing, OnStack, Grows
<1>2. r \in Complete(Items) /\ r \in Complete(stack[Len(stack)].items)
  BY DueComplete DEF Items, Last
<1>3. /\ Grows' /\ r # 1 /\ lookahead' = lookahead
      /\ \E p : stack' = Reduced(stack, Base(stack, r), Rules[r].lhs, p)
                /\ Acts(heap, stack, lookahead, r, heap', p)
  BY <1>1, <1>2, ReduceGrows
<1>4. PICK b : b = Base(stack, r)
  OBVIOUS
<1>5. PICK X : X = Rules[r].lhs
  OBVIOUS
<1>6. r \in 2 .. 45 /\ b \in 1 .. Len(stack) /\ X \in NextSymbols(stack[b].items)
  <2>1. PICK a : a = Rules[r].action
    OBVIOUS
  <2>2. PICK K : K = HeldBy(stack, lookahead)
    OBVIOUS
  <2> QED BY <1>1, <1>2, <1>3, <1>4, <1>5, <2>1, <2>2, TakenIs
<1>7. StackOK(heap, stack) /\ StackOK(heap', stack') /\ stack' # <<>>
  <2>1. StackOK(heap, stack)
    BY <1>1 DEF Growing
  <2>2. StackOK(heap', stack')
    BY <1>3 DEF Grows, Growing
  <2> QED BY <2>1, <2>2, NoFrames
<1>8. PICK s : s = stack'
  OBVIOUS
<1>9. CASE Rules[r].action # "SchemaProgram" /\ program' = program
  <2>1. PICK p : s = Reduced(stack, b, X, p) /\ Acts(heap, stack, lookahead, r, heap', p)
    BY <1>3, <1>4, <1>5, <1>8
  <2>2. X # "program"
    <3>1. r \in 1 .. 45
      BY <1>6
    <3> QED BY <3>1, <1>5, <1>9, ProgramRule
  <2>3. p \in Nat
    BY <1>1, <1>2, <1>3, <2>1, ActNumber
  <2>4. ReducedTo(s, stack, b, X, p)
    BY <1>6, <1>7, <2>1, <2>3, ReducedIs
  <2>5. Published(s, program)
    BY <1>1, <1>2, <1>3, <1>4, <1>6, <1>7, <2>2, <2>4, PublishedReduce
  <2> QED BY <1>3, <1>7, <1>8, <1>9, <2>5
<1>10. CASE /\ Rules[r].action = "SchemaProgram" /\ program' = Len(heap) + 1
            /\ stack' = Reduced(stack, Base(stack, r), Rules[r].lhs, Len(heap) + 1)
  <2>1. PICK p : p = Len(heap) + 1
    OBVIOUS
  <2>2. s = Reduced(stack, b, X, p) /\ program' = p
    BY <1>4, <1>5, <1>8, <1>10, <2>1
  <2>3. X = "program"
    <3>1. r \in 1 .. 45
      BY <1>6
    <3> QED BY <3>1, <1>5, <1>10, ProgramRule
  <2>4. p \in Nat
    <3>1. Sound(heap, HeldBy(stack, lookahead))
      BY <1>1 DEF Growing
    <3>2. Len(heap) \in Nat
      BY <3>1, SoundFacts
    <3> QED BY <3>2, <2>1
  <2>5. ReducedTo(s, stack, b, X, p)
    BY <1>6, <1>7, <2>2, <2>4, ReducedIs
  <2>6. Published(s, p)
    BY <1>1, <1>2, <1>3, <1>4, <1>6, <1>7, <2>3, <2>5, PublishedReduce
  <2> QED BY <1>3, <1>7, <1>8, <2>2, <2>6
<1> QED BY <1>9, <1>10, ProgramPublished

LEMMA StillRoot ==
    ASSUME Growth, UNCHANGED <<heap, stack, lookahead, program>>, status' \in {status, "FAILED"}
    PROVE  Growth'
BY DEF Growth, OnStack, Grows, Items, Last

LEMMA NextGrowth == Growth /\ [Next]_vars => Growth'
<1> SUFFICES ASSUME Growth, [Next]_vars PROVE Growth'
  OBVIOUS
<1>1. CASE pushToken
  <2>1. status = "IN_PROGRESS" /\ status' = status
    BY <1>1 DEF pushToken, Parsing
  <2>2. Grows' /\ Published(stack, program)' /\ stack' # <<>>
    BY <1>1, TokenGrows
  <2> QED BY <2>1, <2>2 DEF Growth, OnStack
<1>2. CASE shift
  <2>1. status = "IN_PROGRESS" /\ status' = status
    BY <1>2 DEF shift, Parsing
  <2>2. Grows' /\ Published(stack, program)' /\ stack' # <<>>
    BY <1>2, ShiftGrows
  <2> QED BY <2>1, <2>2 DEF Growth, OnStack
<1>3. CASE accept
  <2>1. Parsing /\ 1 \in Complete(Items) /\ status' = "SUCCEEDED"
        /\ UNCHANGED <<heap, stack, lookahead, program>>
    BY <1>3 DEF accept
  <2>2. stack # <<>> /\ OnStack
    BY <2>1 DEF Growth, Parsing
  <2>3. OnStack' /\ (1 \in Complete(Items))' /\ stack' # <<>>
    BY <2>1, <2>2 DEF OnStack, Grows, Items
  <2> QED BY <2>1, <2>3 DEF Growth
<1>4. CASE syntaxError
  <2>1. /\ Parsing /\ stack' = <<>> /\ lookahead' = NoToken /\ status' = "FAILED"
        /\ heap' = heap /\ program' = program
    BY <1>4 DEF syntaxError
  <2>2. Growing(heap, stack, lookahead) /\ Published(stack, program)
    BY <2>1 DEF Growth, Parsing, OnStack, Grows
  <2>3. Root(heap, HeldBy(stack, lookahead), program)
    BY <2>2, RootHeld
  <2>4. \E K : Root(heap', K, program')
    BY <2>1, <2>3
  <2> QED BY <2>1, <2>4 DEF Growth
<1>5. ASSUME NEW r \in Due, reduce(r) PROVE Growth'
  <2>1. Grows' /\ Published(stack, program)' /\ stack' # <<>>
    BY <1>5, ReducePublishes
  <2>2. status = "IN_PROGRESS"
    BY DEF Due, Parsing
  <2>3. status' = status
    <3>1. stack # <<>> /\ Grows
      BY <2>2 DEF Growth, Parsing, OnStack
    <3>2. r \in Complete(Items)
      BY DueComplete
    <3>3. \E g, p : Does(r, g, p)
      BY <1>5, <3>1, <3>2, ReduceDoes
    <3> QED BY <3>3 DEF Does, Return
  <2> QED BY <2>1, <2>2, <2>3 DEF Growth, OnStack
<1>6. CASE UnknownLexemeAction
  <2>1. UNCHANGED <<heap, stack, lookahead, program>> /\ status' = "FAILED"
    BY <1>6 DEF UnknownLexemeAction
  <2> QED BY <2>1, StillRoot
<1>7. CASE release
  <2>1. UNCHANGED <<heap, stack, lookahead, program>> /\ status' = status
    BY <1>7 DEF release
  <2> QED BY <2>1, StillRoot
<1>8. CASE UNCHANGED vars
  <2>1. UNCHANGED <<heap, stack, lookahead, program>> /\ status' = status
    BY <1>8 DEF vars
  <2> QED BY <2>1, StillRoot
<1> QED BY <1>1, <1>2, <1>3, <1>4, <1>5, <1>6, <1>7, <1>8 DEF Next, parse

\* At every step what the symbols on the stack hold is whole and apart, and it is what the
\* declarations of the grammar promise of those symbols; when the parser has given up, the
\* heap is still sound, and so is the program if one was published (BisonActions.c:42).
THEOREM GrowthHolds == Spec => []Growth
<1>1. Init => Growth
  BY InitGrowth
<1>2. Growth /\ [Next]_vars => Growth'
  BY NextGrowth
<1> QED BY <1>1, <1>2, PTL DEF Spec

-----------------------------------------------------------------------------
(* The order of the lists, and who owns what                               *)

LEMMA GrowthSound ==
    ASSUME Growth
    PROVE  \E K : Root(heap, K, program)
<1>1. CASE stack = <<>>
  BY <1>1 DEF Growth
<1>2. CASE OnStack
  BY <1>2, RootHeld DEF OnStack, Grows
<1> QED BY <1>1, <1>2 DEF Growth

LEMMA GrowthShape ==
    ASSUME Growth
    PROVE  /\ Shape(heap) /\ Typed(heap) /\ Single(heap) /\ Unchained(heap) /\ Ordered(heap) /\ Older(heap)
           /\ DOMAIN heap = 1 .. Len(heap) /\ Len(heap) \in Nat /\ \A c \in DOMAIN heap : heap[c].tag \in Tags
<1>1. PICK K : Sound(heap, K)
  BY GrowthSound DEF Root
<1>2. Ownership(heap, K) /\ Ordered(heap) /\ Older(heap)
  BY <1>1 DEF Sound
<1>3. Shape(heap) /\ Typed(heap) /\ Single(heap) /\ Unchained(heap)
  BY <1>2 DEF Ownership
<1>4. DOMAIN heap = 1 .. Len(heap) /\ Len(heap) \in Nat
  BY <1>1, SoundFacts
<1>5. \A c \in DOMAIN heap : heap[c].tag \in Tags
  BY <1>3 DEF Shape
<1> QED BY <1>2, <1>3, <1>4, <1>5

LEMMA GrowthInOrder == Growth => InSourceOrder
<1> SUFFICES ASSUME Growth, NEW c \in DOMAIN heap, heap[c].next # 0
             PROVE  FirstField(c) < FirstField(heap[c].next)
  BY DEF InSourceOrder
<1>1. /\ Shape(heap) /\ Typed(heap) /\ Unchained(heap) /\ Ordered(heap) /\ DOMAIN heap = 1 .. Len(heap)
  BY GrowthShape
<1>2. PICK d : d = heap[c].next
  OBVIOUS
<1>3. PICK t : t = heap[c].tag
  OBVIOUS
<1>4. t \in Chained /\ <<t, "next", t>> \in Slots
  <2>1. t \in Chained
    BY <1>1, <1>3 DEF Unchained
  <2> QED BY <2>1, SlotFacts
<1>5. heap[d].tag = t
  BY <1>1, <1>2, <1>3, <1>4 DEF Typed
<1>6. Lead(heap[c]) < Lead(heap[d])
  BY <1>1, <1>2 DEF Ordered
<1>7. Layout[t][1][1] = Leading[t]
  BY <1>4, LeadIsFirst
<1>8. FirstField(c) = Lead(heap[c]) /\ FirstField(d) = Lead(heap[d])
  BY <1>3, <1>4, <1>5, <1>7 DEF FirstField, Lead
<1> QED BY <1>2, <1>6, <1>8

\* Lists are in source order: what an item begins with was built before what the
\* next one begins with (BisonActions.c:71, 191).
THEOREM InSourceOrderHolds == Spec => []InSourceOrder
BY GrowthHolds, GrowthInOrder, PTL

LEMMA PointersAre ==
    ASSUME NEW c \in DOMAIN heap, heap[c].tag \in Tags
    PROVE  \A f : f \in Pointers(c) <=>
               \E x, u : <<heap[c].tag, x, u>> \in Slots /\ f = <<c, x, u>>
<1>1. PICK t : t = heap[c].tag
  OBVIOUS
<1>2. ASSUME NEW f \in Pointers(c)
      PROVE  \E x, u : <<t, x, u>> \in Slots /\ f = <<c, x, u>>
  <2>1. PICK i \in DOMAIN Layout[t] : f = <<c, Layout[t][i][1], Layout[t][i][2]>>
    BY <1>1 DEF Pointers
  <2> QED BY <2>1, <1>1, FieldsAre
<1>3. ASSUME NEW x, NEW u, <<t, x, u>> \in Slots
      PROVE  <<c, x, u>> \in Pointers(c)
  <2>1. PICK i \in DOMAIN Layout[t] : x = Layout[t][i][1] /\ u = Layout[t][i][2]
    BY <1>1, <1>3, FieldsAre
  <2> QED BY <2>1, <1>1 DEF Pointers
<1> QED BY <1>1, <1>2, <1>3

\* The pointers of Owning are the fields that own something.
LEMMA OwningAre ==
    ASSUME Growth
    PROVE  \A f : f \in Owning <=>
               \E c \in DOMAIN heap : \E x, u :
                   <<heap[c].tag, x, u>> \in Slots /\ f = <<c, x, u>> /\ heap[c][x] # 0
<1>1. \A c \in DOMAIN heap : heap[c].tag \in Tags
  BY GrowthShape
<1>2. ASSUME NEW f \in Owning
      PROVE  \E c \in DOMAIN heap : \E x, u :
                 <<heap[c].tag, x, u>> \in Slots /\ f = <<c, x, u>> /\ heap[c][x] # 0
  <2>1. PICK c \in DOMAIN heap : f \in Pointers(c) /\ heap[f[1]][f[2]] # 0
    BY DEF Owning
  <2>2. PICK x, u : <<heap[c].tag, x, u>> \in Slots /\ f = <<c, x, u>>
    BY <1>1, <2>1, PointersAre
  <2>3. f[1] = c /\ f[2] = x
    BY <2>2
  <2> QED BY <2>1, <2>2, <2>3
<1>3. ASSUME NEW f, NEW c \in DOMAIN heap, NEW x, NEW u,
             <<heap[c].tag, x, u>> \in Slots, f = <<c, x, u>>, heap[c][x] # 0
      PROVE  f \in Owning
  <2>1. f = <<c, x, u>>
    BY <1>3
  <2>8. heap[c].tag \in Tags
    BY <1>1
  <2>9. \A d : d \in Pointers(c) <=>
                 \E y, v : <<heap[c].tag, y, v>> \in Slots /\ d = <<c, y, v>>
    BY <2>8, PointersAre
  <2>10. f \in Pointers(c)
    BY <1>3, <2>1, <2>9
  <2>2. f \in Pointers(c) /\ f[1] = c /\ f[2] = x
    BY <2>1, <2>10
  <2>3. heap[f[1]][f[2]] # 0
    BY <1>3, <2>2
  <2>4. f \in UNION {Pointers(e) : e \in DOMAIN heap}
    BY <2>2
  <2>6. PICK S : S = UNION {Pointers(e) : e \in DOMAIN heap}
    OBVIOUS
  <2>7. Owning = {d \in S : heap[d[1]][d[2]] # 0}
    BY <2>6 DEF Owning
  <2>5. f \in Owning
    BY <2>3, <2>4, <2>6, <2>7
  <2> QED BY <2>1, <2>5
<1> QED BY <1>2, <1>3

Targets == {heap[f[1]][f[2]] : f \in Owning}

LEMMA TargetsOwned ==
    ASSUME Growth
    PROVE  /\ \A d : d \in Targets <=> Owned(heap, d)
           /\ Targets \subseteq DOMAIN heap
<1>0. /\ Shape(heap) /\ DOMAIN heap = 1 .. Len(heap) /\ Len(heap) \in Nat
      /\ \A c \in DOMAIN heap : heap[c].tag \in Tags
  BY GrowthShape
<1>1. ASSUME NEW d \in Targets PROVE Owned(heap, d) /\ d \in DOMAIN heap
  <2>1. PICK f \in Owning : d = heap[f[1]][f[2]]
    BY DEF Targets
  <2>7. PICK c \in DOMAIN heap : \E x, u :
            <<heap[c].tag, x, u>> \in Slots /\ f = <<c, x, u>> /\ heap[c][x] # 0
    BY <2>1, OwningAre
  <2>2. PICK x, u : <<heap[c].tag, x, u>> \in Slots /\ f = <<c, x, u>> /\ heap[c][x] # 0
    BY <2>7
  <2>3. d = heap[c][x] /\ d # 0
    BY <2>1, <2>2
  <2>4. x \in Fields(heap[c].tag) /\ x \in Names(heap[c].tag) \ {"tag"}
    BY <1>0, <2>2, SlotNames
  <2>5. heap[c][x] \in 0 .. Len(heap)
    BY <1>0, <2>4 DEF Shape
  <2>6. Owned(heap, d)
    BY <2>3, <2>4 DEF Owned, Owns
  <2> QED BY <1>0, <2>3, <2>5, <2>6
<1>2. ASSUME NEW d, Owned(heap, d) PROVE d \in Targets
  <2>1. PICK c, x : Owns(heap, c, x, d)
    BY <1>2 DEF Owned
  <2>2. c \in DOMAIN heap /\ d # 0 /\ x \in Fields(heap[c].tag) /\ heap[c][x] = d
    BY <2>1 DEF Owns
  <2>3. PICK u : <<heap[c].tag, x, u>> \in Slots
    BY <1>0, <2>2, FieldsAre
  <2>4. PICK f : f = <<c, x, u>>
    OBVIOUS
  <2>5. f \in Owning /\ f[1] = c /\ f[2] = x
    BY <2>2, <2>3, <2>4, OwningAre
  <2> QED BY <2>2, <2>5 DEF Targets
<1> QED BY <1>1, <1>2

\* A set has as many elements as what a function that tells them apart makes of them.
LEMMA ImageCount ==
    ASSUME NEW S, NEW T, IsFiniteSet(T), NEW f, f \in [S -> T], \A d \in T : \E s \in S : f[s] = d,
           \A s \in S : \A e \in S : f[s] = f[e] => s = e
    PROVE  IsFiniteSet(S) /\ Cardinality(S) = Cardinality(T)
<1>1. f \in Injection(S, T)
  BY DEF Injection, IsInjective
<1>2. f \in Surjection(S, T)
  BY DEF Surjection
<1> QED BY <1>1, <1>2, FS_Injection

LEMMA DisjointCount ==
    ASSUME NEW S, IsFiniteSet(S), NEW T, IsFiniteSet(T), \A d : ~(d \in S /\ d \in T),
           NEW U, U = S \cup T
    PROVE  IsFiniteSet(U) /\ Cardinality(U) = Cardinality(S) + Cardinality(T)
<1>1. S \cap T = {}
  OBVIOUS
<1>2. Cardinality(S \cap T) = 0
  BY <1>1, FS_EmptySet
<1>3. Cardinality(S) \in Nat /\ Cardinality(T) \in Nat
  BY FS_CardinalityType
<1>4. IsFiniteSet(S \cup T) /\ Cardinality(S \cup T) = Cardinality(S) + Cardinality(T) - Cardinality(S \cap T)
  BY FS_Union
<1> QED BY <1>2, <1>3, <1>4

LEMMA OwningCount ==
    ASSUME Growth
    PROVE  Cardinality(Owning) = Cardinality(Targets) /\ IsFiniteSet(Targets)
<1>1. /\ Single(heap) /\ DOMAIN heap = 1 .. Len(heap) /\ Len(heap) \in Nat
      /\ \A c \in DOMAIN heap : heap[c].tag \in Tags
  BY GrowthShape
<1>2. PICK F : F = [f \in Owning |-> heap[f[1]][f[2]]]
  OBVIOUS
<1>3. F \in [Owning -> Targets] /\ \A d \in Targets : \E f \in Owning : F[f] = d
  BY <1>2 DEF Targets
<1>4. IsFiniteSet(Targets)
  <2>1. IsFiniteSet(1 .. Len(heap))
    BY <1>1, FS_Interval
  <2>2. Targets \in SUBSET (1 .. Len(heap))
    BY <1>1, TargetsOwned
  <2> QED BY <2>1, <2>2, FS_Subset
<1>5. ASSUME NEW f \in Owning, NEW e \in Owning, F[f] = F[e] PROVE f = e
  <2>1. heap[f[1]][f[2]] = heap[e[1]][e[2]]
    BY <1>2, <1>5
  <2>2. PICK c \in DOMAIN heap : \E x, u :
            <<heap[c].tag, x, u>> \in Slots /\ f = <<c, x, u>> /\ heap[c][x] # 0
    BY OwningAre
  <2>3. PICK x, u : <<heap[c].tag, x, u>> \in Slots /\ f = <<c, x, u>> /\ heap[c][x] # 0
    BY <2>2
  <2>4. PICK b \in DOMAIN heap : \E y, v :
            <<heap[b].tag, y, v>> \in Slots /\ e = <<b, y, v>> /\ heap[b][y] # 0
    BY OwningAre
  <2>5. PICK y, v : <<heap[b].tag, y, v>> \in Slots /\ e = <<b, y, v>> /\ heap[b][y] # 0
    BY <2>4
  <2>6. PICK d : d = heap[c][x]
    OBVIOUS
  <2>7. d = heap[b][y] /\ d # 0
    <3>1. f[1] = c /\ f[2] = x /\ e[1] = b /\ e[2] = y
      BY <2>3, <2>5
    <3> QED BY <3>1, <2>1, <2>3, <2>6
  <2>8. Owns(heap, c, x, d) /\ Owns(heap, b, y, d)
    <3>1. x \in Fields(heap[c].tag) /\ y \in Fields(heap[b].tag)
      BY <1>1, <2>3, <2>5, SlotNames
    <3> QED BY <3>1, <2>6, <2>7 DEF Owns
  <2>9. c = b /\ x = y
    BY <1>1, <2>8 DEF Single
  <2>10. u = v
    BY <2>3, <2>5, <2>9, SlotFacts
  <2> QED BY <2>3, <2>5, <2>9, <2>10
<1> QED BY <1>3, <1>4, <1>5, ImageCount

StackHeld == {stack[i].ptr : i \in Held}

LEMMA HeldCount ==
    ASSUME Grows
    PROVE  /\ Cardinality(Held) = Cardinality(StackHeld) /\ IsFiniteSet(StackHeld)
           /\ Holds = StackHeld \cup ({lookahead.ptr} \ {0}) /\ lookahead.ptr \notin StackHeld
<1>1. Growing(heap, stack, lookahead) /\ Sound(heap, Holds)
  BY DEF Grows, Growing, Holds
<1>2. /\ Len(stack) \in Nat /\ Len(stack) > 0 /\ DOMAIN stack = 1 .. Len(stack)
      /\ \A i \in 1 .. Len(stack) : PtrAt(stack, lookahead, i) = stack[i].ptr
      /\ PtrAt(stack, lookahead, Len(stack) + 1) = lookahead.ptr
      /\ \A i \in 1 .. Len(stack) + 1 : \A j \in 1 .. Len(stack) + 1 :
             i # j /\ PtrAt(stack, lookahead, i) # 0 => PtrAt(stack, lookahead, i) # PtrAt(stack, lookahead, j)
  BY <1>1, HeldFacts
<1>3. \A i \in 1 .. Len(stack) : i \in 1 .. Len(stack) + 1 /\ i # Len(stack) + 1
  BY <1>2
<1>4. Len(stack) + 1 \in 1 .. Len(stack) + 1 /\ \A i \in 1 .. Len(stack) + 1 : i \in 1 .. Len(stack) \/ i = Len(stack) + 1
  BY <1>2
<1>5. PICK F : F = [i \in Held |-> stack[i].ptr]
  OBVIOUS
<1>6. F \in [Held -> StackHeld] /\ \A d \in StackHeld : \E i \in Held : F[i] = d
  BY <1>5 DEF StackHeld
<1>7. ASSUME NEW i \in Held, NEW j \in Held, F[i] = F[j] PROVE i = j
  <2>1. i \in 1 .. Len(stack) /\ j \in 1 .. Len(stack) /\ stack[i].ptr # 0 /\ stack[i].ptr = stack[j].ptr
    BY <1>2, <1>5, <1>7 DEF Held
  <2>2. i \in 1 .. Len(stack) + 1 /\ j \in 1 .. Len(stack) + 1
    BY <1>3, <2>1
  <2> QED BY <1>2, <2>1, <2>2
<1>8. Holds = StackHeld \cup ({lookahead.ptr} \ {0})
  <2>1. ASSUME NEW d \in Holds PROVE d \in StackHeld \cup ({lookahead.ptr} \ {0})
    <3>1. PICK i \in 1 .. Len(stack) + 1 : d = PtrAt(stack, lookahead, i) /\ d # 0
      BY DEF Holds, HeldBy
    <3>2. CASE i \in 1 .. Len(stack)
      <4>1. i \in Held /\ d = stack[i].ptr
        BY <1>2, <3>1, <3>2 DEF Held
      <4> QED BY <4>1 DEF StackHeld
    <3>3. CASE i = Len(stack) + 1
      BY <3>1, <3>3, <1>2
    <3> QED BY <3>2, <3>3, <1>4
  <2>2. ASSUME NEW d \in StackHeld PROVE d \in Holds
    <3>1. PICK i \in Held : d = stack[i].ptr
      BY DEF StackHeld
    <3>2. i \in 1 .. Len(stack) + 1 /\ d # 0 /\ d = PtrAt(stack, lookahead, i)
      BY <1>2, <1>3, <3>1 DEF Held
    <3> QED BY <3>2 DEF Holds, HeldBy
  <2>3. ASSUME NEW d \in {lookahead.ptr} \ {0} PROVE d \in Holds
    BY <1>2, <1>4 DEF Holds, HeldBy
  <2> QED BY <2>1, <2>2, <2>3
<1>9. lookahead.ptr \notin StackHeld
  <2> SUFFICES ASSUME NEW i \in Held, lookahead.ptr = stack[i].ptr PROVE FALSE
    BY DEF StackHeld
  <2>1. i \in 1 .. Len(stack) /\ stack[i].ptr # 0
    BY <1>2 DEF Held
  <2>2. PtrAt(stack, lookahead, i) # PtrAt(stack, lookahead, Len(stack) + 1)
    BY <1>2, <1>3, <1>4, <2>1
  <2> QED BY <1>2, <2>1, <2>2
<1>10. IsFiniteSet(StackHeld)
  <2>1. Holds \subseteq DOMAIN heap /\ DOMAIN heap = 1 .. Len(heap) /\ Len(heap) \in Nat
    BY <1>1, SoundFacts
  <2>2. IsFiniteSet(1 .. Len(heap))
    BY <2>1, FS_Interval
  <2>3. StackHeld \in SUBSET (1 .. Len(heap))
    BY <1>8, <2>1
  <2> QED BY <2>2, <2>3, FS_Subset
<1>11. Cardinality(Held) = Cardinality(StackHeld)
  BY <1>6, <1>7, <1>10, ImageCount
<1> QED BY <1>8, <1>9, <1>10, <1>11

LEMMA GrowthOwned == Growth => OwnedOnce
<1> SUFFICES ASSUME Growth, Parsing PROVE OwnedOnce
  BY DEF OwnedOnce
<1> DEFINE L == {lookahead.ptr} \ {0}
           D == DOMAIN heap \ Unowned
           one == IF lookahead.ptr = 0 THEN 0 ELSE 1
<1>1. Grows
  BY DEF Growth, Parsing, OnStack
<1>2. Sound(heap, Holds)
  BY <1>1 DEF Grows, Growing, Holds
<1>3. Rooted(heap, Holds) /\ 0 \notin DOMAIN heap
  BY <1>2, SoundFacts DEF Sound, Ownership
<1>4. /\ \A d : d \in Targets <=> Owned(heap, d)
      /\ Targets \subseteq DOMAIN heap
  BY TargetsOwned
<1>5. /\ Cardinality(Held) = Cardinality(StackHeld) /\ IsFiniteSet(StackHeld)
      /\ Holds = StackHeld \cup L /\ lookahead.ptr \notin StackHeld
  BY <1>1, HeldCount
<1>6. Cardinality(Owning) = Cardinality(Targets) /\ IsFiniteSet(Targets)
  BY OwningCount
<1>7. Unowned = DOMAIN heap \ ((Targets \cup StackHeld) \cup {lookahead.ptr})
  BY DEF Unowned, Targets, StackHeld
<1>8. \A c \in Unowned : heap[c].tag = "PrimaryKey"
  BY <1>3, <1>4, <1>5, <1>7 DEF Rooted
<1>9. D = (Targets \cup StackHeld) \cup L
  BY <1>3, <1>4, <1>5, <1>7 DEF Rooted
<1>10. Targets \cap StackHeld = {} /\ (Targets \cup StackHeld) \cap L = {}
  BY <1>3, <1>4, <1>5 DEF Rooted
<1>11. IsFiniteSet(L) /\ Cardinality(L) = one
  <2>1. CASE lookahead.ptr = 0
    <3>1. L = {}
      BY <2>1
    <3> QED BY <3>1, <2>1, FS_EmptySet
  <2>2. CASE lookahead.ptr # 0
    <3>1. L = {lookahead.ptr}
      BY <2>2
    <3> QED BY <3>1, <2>2, FS_Singleton
  <2> QED BY <2>1, <2>2
<1> HIDE DEF L, D, one
<1>12. PICK U : U = Targets \cup StackHeld
  OBVIOUS
<1>14. IsFiniteSet(U) /\ Cardinality(U) = Cardinality(Targets) + Cardinality(StackHeld)
  <2>1. \A d : ~(d \in Targets /\ d \in StackHeld)
    BY <1>10
  <2> QED BY <2>1, <1>5, <1>6, <1>12, DisjointCount
<1>15. Cardinality(D) = Cardinality(U) + Cardinality(L)
  <2>1. \A d : ~(d \in U /\ d \in L)
    BY <1>10, <1>12
  <2>2. D = U \cup L
    BY <1>9, <1>12
  <2> QED BY <2>1, <2>2, <1>11, <1>14, DisjointCount
<1>13. Cardinality(D) = Cardinality(Targets) + Cardinality(StackHeld) + one
  BY <1>11, <1>14, <1>15
<1> QED BY <1>5, <1>6, <1>8, <1>13 DEF OwnedOnce, D, one

\* While the parser runs every cell has one owner, a field, a symbol of the stack or
\* the token, but for replaced keys (BisonActions.c:71, 140, 191, 342).
THEOREM OwnedOnceHolds == Spec => []OwnedOnce
BY GrowthHolds, GrowthOwned, PTL

-----------------------------------------------------------------------------
(* The tree has no cycle                                                   *)

\* A cell owns cells of lower levels, or the next cell of its list, which begins
\* with something newer, or, if it is an expression, older expressions.
Level == [Program |-> 8, Schema |-> 7, Entity |-> 6, Relationship |-> 6, AttributeList |-> 5,
          Attribute |-> 4, ModifierList |-> 3, Modifier |-> 2, Assertion |-> 3, Expression |-> 2,
          Literal |-> 1, PrimaryKey |-> 3, QualifiedIdentifierList |-> 2,
          QualifiedIdentifier |-> 1, ParticipantList |-> 2, Participant |-> 1,
          Participation |-> 0, Type |-> 0, String |-> 0]

LEMMA LevelIs == \A t \in Tags : Level[t] \in 0 .. 8
BY DEF Tags, Layout, Level

LEMMA LevelFalls ==
    ASSUME NEW t, NEW f, NEW u, <<t, f, u>> \in Slots
    PROVE  \/ Level[u] < Level[t]
           \/ t = u /\ t \in Chained /\ f = "next"
           \/ t = u /\ t = "Expression" /\ f \in {"left", "right"} /\ t \notin Chained
BY DEF Slots, Level, Chained, Leading

Second(h, c) ==
    IF h[c].tag \in Chained THEN Len(h) - Lead(h[c])
    ELSE IF h[c].tag = "Expression" THEN c ELSE 0
Rank(h) == [c \in 1 .. Len(h) |-> Level[h[c].tag] * (Len(h) + 1) + Second(h, c)]

LEMMA LexLess ==
    ASSUME NEW n \in Nat, NEW i \in Nat, NEW j \in Nat, NEW x \in 0 .. n, NEW y \in 0 .. n,
           i < j \/ (i = j /\ x < y)
    PROVE  i * (n + 1) + x < j * (n + 1) + y
<1>1. CASE i = j /\ x < y
  BY <1>1
<1>2. CASE i < j
  <2>1. PICK k \in Nat : j = i + 1 + k
    <3>1. j - i - 1 \in Nat /\ j = i + 1 + (j - i - 1)
      BY <1>2
    <3> QED BY <3>1
  <2>2. j * (n + 1) = i * (n + 1) + (n + 1) + k * (n + 1)
    BY <2>1
  <2>3. k * (n + 1) \in Nat /\ i * (n + 1) \in Nat
    BY <2>1
  <2> QED BY <2>2, <2>3
<1> QED BY <1>1, <1>2

LEMMA SecondIs ==
    ASSUME NEW h, Shape(h), DOMAIN h = 1 .. Len(h), Len(h) \in Nat, NEW c \in DOMAIN h
    PROVE  Second(h, c) \in 0 .. Len(h)
<1>1. CASE h[c].tag \in Chained
  <2>1. PICK u : <<h[c].tag, Leading[h[c].tag], u>> \in Slots
    BY <1>1, SlotFacts
  <2>2. h[c].tag \in Tags
    BY DEF Shape
  <2>3. Leading[h[c].tag] \in Names(h[c].tag) \ {"tag"}
    BY <2>1, <2>2, SlotNames
  <2>4. h[c][Leading[h[c].tag]] \in 0 .. Len(h)
    BY <2>3 DEF Shape
  <2>5. Lead(h[c]) \in 0 .. Len(h)
    BY <1>1, <2>4 DEF Lead
  <2> QED BY <1>1, <2>5 DEF Second
<1>2. CASE h[c].tag \notin Chained
  BY <1>2 DEF Second
<1> QED BY <1>1, <1>2

LEMMA Descends ==
    ASSUME NEW h, Shape(h), Typed(h), Ordered(h), Older(h), DOMAIN h = 1 .. Len(h), Len(h) \in Nat
    PROVE  /\ Rank(h) \in [1 .. Len(h) -> Nat]
           /\ \A c \in 1 .. Len(h) : Rank(h)[c] < 9 * (Len(h) + 1)
           /\ \A c, f, d : Owns(h, c, f, d) => d \in 1 .. Len(h) /\ Rank(h)[d] < Rank(h)[c]
<1>0. \A c \in DOMAIN h : h[c].tag \in Tags
  BY DEF Shape
<1>1. \A c \in 1 .. Len(h) : Level[h[c].tag] \in Nat /\ Second(h, c) \in 0 .. Len(h)
  BY <1>0, LevelIs, SecondIs
<1>2. ASSUME NEW c \in 1 .. Len(h) PROVE Rank(h)[c] \in Nat
  <2>1. PICK l \in Nat : l = Level[h[c].tag]
    BY <1>1
  <2>2. PICK x \in Nat : x = Second(h, c)
    BY <1>1
  <2>3. Rank(h)[c] = l * (Len(h) + 1) + x
    BY <2>1, <2>2 DEF Rank
  <2> QED BY <2>3
<1>3. Rank(h) \in [1 .. Len(h) -> Nat]
  <2>1. Rank(h) = [c \in 1 .. Len(h) |-> Rank(h)[c]]
    BY DEF Rank
  <2> HIDE DEF Rank
  <2> QED BY <1>2, <2>1
<1>5. ASSUME NEW c \in 1 .. Len(h) PROVE Rank(h)[c] < 9 * (Len(h) + 1)
  <2>1. PICK l : l = Level[h[c].tag]
    OBVIOUS
  <2>2. PICK x \in 0 .. Len(h) : x = Second(h, c)
    BY <1>1
  <2>3. l \in 0 .. 8 /\ Rank(h)[c] = l * (Len(h) + 1) + x
    BY <1>0, <2>1, <2>2, LevelIs DEF Rank
  <2>4. l \in Nat /\ l < 9 /\ 9 \in Nat /\ 0 \in 0 .. Len(h)
    BY <2>3
  <2>5. l * (Len(h) + 1) + x < 9 * (Len(h) + 1) + 0
    BY <2>4, LexLess
  <2>6. 9 * (Len(h) + 1) + 0 = 9 * (Len(h) + 1)
    OBVIOUS
  <2> QED BY <2>3, <2>5, <2>6
<1>4. ASSUME NEW c, NEW f, NEW d, Owns(h, c, f, d)
      PROVE  d \in 1 .. Len(h) /\ Rank(h)[d] < Rank(h)[c]
  <2>1. c \in DOMAIN h /\ d # 0 /\ f \in Fields(h[c].tag) /\ h[c][f] = d
    BY <1>4 DEF Owns
  <2>2. PICK u : <<h[c].tag, f, u>> \in Slots
    BY <1>0, <2>1, FieldsAre
  <2>3. h[d].tag = u
    BY <2>1, <2>2 DEF Typed
  <2>4. f \in Names(h[c].tag) \ {"tag"}
    BY <1>0, <2>1, SlotNames
  <2>5. h[c][f] \in 0 .. Len(h)
    BY <2>1, <2>4 DEF Shape
  <2>6. d \in 1 .. Len(h) /\ c \in 1 .. Len(h)
    BY <2>1, <2>5
  <2>7. PICK i \in Nat : i = Level[u]
    BY <1>1, <2>3, <2>6
  <2>8. PICK j \in Nat : j = Level[h[c].tag]
    BY <1>1, <2>6
  <2>9. PICK x \in 0 .. Len(h) : x = Second(h, d)
    BY <1>1, <2>6
  <2>10. PICK y \in 0 .. Len(h) : y = Second(h, c)
    BY <1>1, <2>6
  <2>11. i < j \/ (i = j /\ x < y)
    <3>1. CASE Level[u] < Level[h[c].tag]
      BY <3>1, <2>7, <2>8
    <3>2. CASE h[c].tag = u /\ u \in Chained /\ f = "next"
      <4>1. Lead(h[c]) < Lead(h[d])
        <5>1. h[c].next = d
          BY <2>1, <3>2
        <5> QED BY <5>1, <2>1 DEF Ordered
      <4>2. x = Len(h) - Lead(h[d]) /\ y = Len(h) - Lead(h[c])
        BY <2>3, <2>9, <2>10, <3>2 DEF Second
      <4>3. PICK v : v = Lead(h[d])
        OBVIOUS
      <4>4. PICK w : w = Lead(h[c])
        OBVIOUS
      <4>5. v \in Nat /\ w \in Nat
        <5>1. \A e \in DOMAIN h : h[e].tag \in Chained => Lead(h[e]) \in Nat
          <6> SUFFICES ASSUME NEW e \in DOMAIN h, h[e].tag \in Chained PROVE Lead(h[e]) \in Nat
            OBVIOUS
          <6>1. PICK z : <<h[e].tag, Leading[h[e].tag], z>> \in Slots
            BY SlotFacts
          <6>2. Leading[h[e].tag] \in Names(h[e].tag) \ {"tag"}
            BY <1>0, <6>1, SlotNames
          <6>3. h[e][Leading[h[e].tag]] \in 0 .. Len(h)
            BY <6>2 DEF Shape
          <6> QED BY <6>3 DEF Lead
        <5> QED BY <5>1, <2>3, <2>6, <3>2, <4>3, <4>4
      <4>6. x < y
        BY <4>1, <4>2, <4>3, <4>4, <4>5
      <4> QED BY <4>6, <2>7, <2>8, <3>2
    <3>3. CASE h[c].tag = u /\ u = "Expression" /\ f \in {"left", "right"} /\ u \notin Chained
      <4>1. x = d /\ y = c
        BY <2>3, <2>9, <2>10, <3>3 DEF Second
      <4>2. h[c].tag = "Expression" /\ h[c][f] # 0
        BY <2>1, <3>3
      <4>3. h[c][f] < c
        BY <2>1, <3>3, <4>2 DEF Older
      <4>4. d < c
        BY <2>1, <4>3
      <4> QED BY <4>1, <4>4, <2>7, <2>8, <3>3
    <3> QED BY <3>1, <3>2, <3>3, <2>2, LevelFalls
  <2>12. i * (Len(h) + 1) + x < j * (Len(h) + 1) + y
    BY <2>11, LexLess
  <2>13. Rank(h)[d] = i * (Len(h) + 1) + x
    BY <2>3, <2>6, <2>7, <2>9 DEF Rank
  <2>14. Rank(h)[c] = j * (Len(h) + 1) + y
    BY <2>6, <2>8, <2>10 DEF Rank
  <2> QED BY <2>6, <2>12, <2>13, <2>14
<1> QED BY <1>3, <1>4, <1>5

-----------------------------------------------------------------------------
(* The destructors                                                         *)

\* What the recursive function of destroy is made of.
DestroyStep(h, f, p) ==
    IF p = 0 THEN <<>>
    ELSE Append(FlattenSeq([i \in DOMAIN Layout[h[p].tag] |-> f[h[p][Layout[h[p].tag][i][1]]]]), p)
Destroying(h) == CHOOSE f : f = [p \in 0 .. Len(h) |-> DestroyStep(h, f, p)]

LEMMA DestroyIs == \A h, p : destroy(h, p) = Destroying(h)[p]
BY DEF destroy, Destroying, DestroyStep

\* A heap whose cells have ranks.
Grounded(h, rank, n) ==
    /\ Shape(h) /\ Typed(h) /\ Single(h) /\ DOMAIN h = 1 .. Len(h) /\ Len(h) \in Nat
    /\ (\A c \in DOMAIN h : h[c].tag \in Tags) /\ n \in Nat
    /\ rank \in [1 .. Len(h) -> Nat] /\ \A c \in 1 .. Len(h) : rank[c] < n
    /\ \A c, f, d : Owns(h, c, f, d) => d \in 1 .. Len(h) /\ rank[d] < rank[c]

LEMMA SoundGrounded ==
    ASSUME NEW h, NEW K, Sound(h, K)
    PROVE  \E rank, n : Grounded(h, rank, n)
<1>1. /\ Shape(h) /\ Typed(h) /\ Single(h) /\ Ordered(h) /\ Older(h)
  BY DEF Sound, Ownership
<1>2. DOMAIN h = 1 .. Len(h) /\ Len(h) \in Nat
  BY SoundFacts
<1>3. PICK rank : rank = Rank(h)
  OBVIOUS
<1>4. PICK n : n = 9 * (Len(h) + 1)
  OBVIOUS
<1>5. n \in Nat /\ \A c \in DOMAIN h : h[c].tag \in Tags
  BY <1>1, <1>2, <1>4 DEF Shape
<1>6. /\ rank \in [1 .. Len(h) -> Nat] /\ \A c \in 1 .. Len(h) : rank[c] < n
      /\ \A c, f, d : Owns(h, c, f, d) => d \in 1 .. Len(h) /\ rank[d] < rank[c]
  BY <1>1, <1>2, <1>3, <1>4, Descends
<1> QED BY <1>1, <1>2, <1>5, <1>6 DEF Grounded

\* What a field of a cell points to.
LEMMA FieldPoints ==
    ASSUME NEW h, NEW rank, NEW n, Grounded(h, rank, n), NEW p \in 1 .. Len(h),
           NEW i \in DOMAIN Layout[h[p].tag], NEW d, d = h[p][Layout[h[p].tag][i][1]]
    PROVE  /\ d \in 0 .. Len(h)
           /\ d # 0 => Owns(h, p, Layout[h[p].tag][i][1], d) /\ rank[d] < rank[p]
<1>1. p \in DOMAIN h /\ h[p].tag \in Tags
  BY DEF Grounded
<1>2. PICK x : x = Layout[h[p].tag][i][1]
  OBVIOUS
<1>3. x \in Fields(h[p].tag) /\ x \in Names(h[p].tag) \ {"tag"}
  <2>1. x \in Fields(h[p].tag)
    BY <1>2 DEF Fields
  <2> QED BY <2>1, <1>1, SlotNames
<1>4. d \in 0 .. Len(h)
  BY <1>1, <1>2, <1>3 DEF Grounded, Shape
<1>5. d # 0 => Owns(h, p, x, d)
  BY <1>1, <1>2, <1>3 DEF Owns
<1>6. d # 0 => rank[d] < rank[p]
  BY <1>5 DEF Grounded
<1> QED BY <1>2, <1>4, <1>5, <1>6

\* A step looks at no more of the function than what the cell owns.
Agree(h, rank, p, F, G) ==
    /\ F[0] = G[0]
    /\ \A d \in 1 .. Len(h) : rank[d] < rank[p] => F[d] = G[d]

LEMMA SameStep ==
    ASSUME NEW h, NEW rank, NEW n, Grounded(h, rank, n), NEW p \in 1 .. Len(h), NEW F, NEW G,
           Agree(h, rank, p, F, G)
    PROVE  DestroyStep(h, F, p) = DestroyStep(h, G, p)
<1>1. ASSUME NEW i \in DOMAIN Layout[h[p].tag]
      PROVE  F[h[p][Layout[h[p].tag][i][1]]] = G[h[p][Layout[h[p].tag][i][1]]]
  <2>1. PICK d : d = h[p][Layout[h[p].tag][i][1]]
    OBVIOUS
  <2>2. d \in 0 .. Len(h) /\ (d # 0 => rank[d] < rank[p])
    BY <2>1, FieldPoints
  <2>3. CASE d = 0
    BY <2>1, <2>3 DEF Agree
  <2>4. CASE d # 0
    <3>1. d \in 1 .. Len(h)
      BY <2>2, <2>4 DEF Grounded
    <3> QED BY <2>1, <2>2, <2>4, <3>1 DEF Agree
  <2> QED BY <2>3, <2>4
<1>2. [i \in DOMAIN Layout[h[p].tag] |-> F[h[p][Layout[h[p].tag][i][1]]]]
      = [i \in DOMAIN Layout[h[p].tag] |-> G[h[p][Layout[h[p].tag][i][1]]]]
  BY <1>1
<1>3. p # 0
  BY DEF Grounded
<1> QED BY <1>2, <1>3 DEF DestroyStep

\* F is right for the cells of rank less than n.
RightBelow(h, rank, F, n) ==
    /\ DOMAIN F = 0 .. Len(h) /\ F = [p \in 0 .. Len(h) |-> F[p]] /\ F[0] = <<>>
    /\ \A p \in 1 .. Len(h) : rank[p] < n => F[p] = DestroyStep(h, F, p)

LEMMA DestroyExists ==
    ASSUME NEW h, NEW rank, NEW n, Grounded(h, rank, n)
    PROVE  \E F : F = [p \in 0 .. Len(h) |-> DestroyStep(h, F, p)]
<1> DEFINE G == {m \in Nat : \E F : RightBelow(h, rank, F, m)}
<1>0. Len(h) \in Nat /\ rank \in [1 .. Len(h) -> Nat] /\ n \in Nat /\ \A c \in 1 .. Len(h) : rank[c] < n
  BY DEF Grounded
<1>1. 0 \in G
  <2>1. PICK F : F = [p \in 0 .. Len(h) |-> <<>>]
    OBVIOUS
  <2>2. DOMAIN F = 0 .. Len(h) /\ F = [p \in 0 .. Len(h) |-> F[p]] /\ F[0] = <<>>
    BY <2>1, <1>0
  <2>3. \A p \in 1 .. Len(h) : ~(rank[p] < 0)
    BY <1>0
  <2> QED BY <2>2, <2>3 DEF RightBelow
<1>2. ASSUME NEW m \in Nat, m \in G PROVE m + 1 \in G
  <2>1. PICK F : RightBelow(h, rank, F, m)
    BY <1>2
  <2>2. PICK H : H = [p \in 0 .. Len(h) |->
                        IF p # 0 /\ rank[p] = m THEN DestroyStep(h, F, p) ELSE F[p]]
    OBVIOUS
  <2>3. DOMAIN H = 0 .. Len(h) /\ H = [p \in 0 .. Len(h) |-> H[p]] /\ H[0] = <<>> /\ F[0] = <<>>
    BY <2>1, <2>2, <1>0 DEF RightBelow
  <2>4. ASSUME NEW p \in 1 .. Len(h), rank[p] < m + 1
        PROVE  H[p] = DestroyStep(h, H, p)
    <3>1. p # 0 /\ p \in 0 .. Len(h) /\ rank[p] \in Nat
      BY <1>0
    <3>2. ASSUME NEW d \in 1 .. Len(h), rank[d] < rank[p] PROVE F[d] = H[d]
      <4>1. d \in 0 .. Len(h) /\ rank[d] \in Nat
        BY <1>0
      <4>2. rank[d] # m
        BY <3>1, <4>1, <3>2, <2>4
      <4> QED BY <4>1, <4>2, <2>2
    <3>3. DestroyStep(h, F, p) = DestroyStep(h, H, p)
      <4>1. F[0] = <<>> /\ H[0] = <<>>
        BY <2>3
      <4>2. Agree(h, rank, p, F, H)
        BY <4>1, <3>2 DEF Agree
      <4> QED BY <4>2, SameStep
    <3>4. H[p] = DestroyStep(h, F, p)
      <4>1. CASE rank[p] = m
        BY <4>1, <3>1, <2>2
      <4>2. CASE rank[p] # m
        <5>1. rank[p] < m
          BY <4>2, <3>1, <2>4
        <5>2. H[p] = F[p]
          BY <4>2, <3>1, <2>2
        <5> QED BY <5>1, <5>2, <2>1 DEF RightBelow
      <4> QED BY <4>1, <4>2
    <3> QED BY <3>3, <3>4
  <2>5. RightBelow(h, rank, H, m + 1)
    BY <2>3, <2>4 DEF RightBelow
  <2> QED BY <2>5
<1>3. n \in G
  <2> HIDE DEF G
  <2>1. \A m \in Nat : m \in G
    BY <1>1, <1>2, NumberInduction
  <2> QED BY <1>0, <2>1
<1>4. PICK F : RightBelow(h, rank, F, n)
  BY <1>3
<1>5. \A p \in 0 .. Len(h) : F[p] = DestroyStep(h, F, p)
  <2> TAKE p \in 0 .. Len(h)
  <2>1. CASE p = 0
    BY <2>1, <1>4 DEF RightBelow, DestroyStep
  <2>2. CASE p # 0
    <3>1. p \in 1 .. Len(h)
      BY <2>2, <1>0
    <3> QED BY <3>1, <1>0, <1>4 DEF RightBelow
  <2> QED BY <2>1, <2>2
<1>6. F = [p \in 0 .. Len(h) |-> F[p]]
  BY <1>4 DEF RightBelow
<1>7. F = [p \in 0 .. Len(h) |-> DestroyStep(h, F, p)]
  BY <1>5, <1>6
<1> QED BY <1>7

LEMMA DestroyingIs ==
    ASSUME NEW h, NEW rank, NEW n, Grounded(h, rank, n)
    PROVE  /\ Destroying(h)[0] = <<>>
           /\ \A p \in 1 .. Len(h) : Destroying(h)[p] = DestroyStep(h, Destroying(h), p)
<1>1. Destroying(h) = [p \in 0 .. Len(h) |-> DestroyStep(h, Destroying(h), p)]
  BY DestroyExists DEF Destroying
<1>2. Len(h) \in Nat
  BY DEF Grounded
<1>3. PICK F : F = Destroying(h)
  OBVIOUS
<1>4. F = [p \in 0 .. Len(h) |-> DestroyStep(h, F, p)]
  BY <1>1, <1>3
<1>5. 0 \in 0 .. Len(h) /\ \A p \in 1 .. Len(h) : p \in 0 .. Len(h)
  BY <1>2
<1>6. F[0] = DestroyStep(h, F, 0) /\ \A p \in 1 .. Len(h) : F[p] = DestroyStep(h, F, p)
  BY <1>4, <1>5
<1>7. DestroyStep(h, F, 0) = <<>>
  BY DEF DestroyStep
<1> QED BY <1>3, <1>6, <1>7

-----------------------------------------------------------------------------
(* Sequences without repetition                                            *)

LEMMA InjectiveConcat ==
    ASSUME NEW S, NEW s \in Seq(S), NEW t \in Seq(S), IsInjective(s), IsInjective(t),
           ToSet(s) \cap ToSet(t) = {}
    PROVE  IsInjective(s \o t)
<1>1. PICK u : u = s \o t
  OBVIOUS
<1>2. PICK m, n : m = Len(s) /\ n = Len(t)
  OBVIOUS
<1>3. m \in Nat /\ n \in Nat /\ DOMAIN s = 1 .. m /\ DOMAIN t = 1 .. n
  BY <1>2
<1>4. /\ DOMAIN u = 1 .. m + n
      /\ \A i \in 1 .. m : u[i] = s[i]
      /\ \A i \in 1 .. n : u[m + i] = t[i]
  BY <1>1, <1>2, <1>3, ConcatType
<1>5. \A i \in 1 .. m : u[i] \in ToSet(s)
  BY <1>3, <1>4 DEF ToSet
<1>6. \A i \in 1 .. n : u[m + i] \in ToSet(t)
  BY <1>3, <1>4 DEF ToSet
<1>7. \A i \in 1 .. m + n : i \in 1 .. m \/ (i - m \in 1 .. n /\ m + (i - m) = i)
  BY <1>3
<1>8. \A i \in 1 .. m + n : ~(i \in 1 .. m) => i - m \in 1 .. n /\ u[i] = t[i - m] /\ u[i] \in ToSet(t)
  BY <1>4, <1>6, <1>7
<1>9. ASSUME NEW a \in 1 .. m + n, NEW b \in 1 .. m + n, u[a] = u[b] PROVE a = b
  <2>1. CASE a \in 1 .. m /\ b \in 1 .. m
    BY <2>1, <1>3, <1>4, <1>9 DEF IsInjective
  <2>2. CASE ~(a \in 1 .. m) /\ ~(b \in 1 .. m)
    <3>1. a - m \in 1 .. n /\ b - m \in 1 .. n /\ t[a - m] = t[b - m]
      BY <2>2, <1>8, <1>9
    <3>2. a - m = b - m
      BY <3>1, <1>3 DEF IsInjective
    <3> QED BY <3>2, <1>3
  <2>3. CASE a \in 1 .. m /\ ~(b \in 1 .. m)
    BY <2>3, <1>5, <1>8, <1>9
  <2>4. CASE ~(a \in 1 .. m) /\ b \in 1 .. m
    BY <2>4, <1>5, <1>8, <1>9
  <2> QED BY <2>1, <2>2, <2>3, <2>4
<1>10. IsInjective(u)
  BY <1>4, <1>9 DEF IsInjective
<1> QED BY <1>1, <1>10

\* One element more.
LEMMA Appended ==
    ASSUME NEW S, NEW s \in Seq(S), NEW p \in S
    PROVE  /\ Append(s, p) \in Seq(S) /\ ToSet(Append(s, p)) = ToSet(s) \cup {p}
           /\ IsInjective(s) /\ p \notin ToSet(s) => IsInjective(Append(s, p))
<1>1. PICK t : t = <<p>>
  OBVIOUS
<1>2. t \in Seq(S) /\ ToSet(t) = {p} /\ DOMAIN t = {1}
  <2>1. ToSet(t) = {p}
    BY <1>1, ShortToSet
  <2>2. t \in Seq(S) /\ DOMAIN t = {1}
    BY <1>1
  <2> QED BY <2>1, <2>2
<1>3. Append(s, p) = s \o t
  <2>1. PICK u, v : u = Append(s, p) /\ v = s \o t
    OBVIOUS
  <2>2. Len(t) = 1 /\ t[1] = p /\ Len(s) \in Nat
    BY <1>1
  <2>3. /\ DOMAIN u = 1 .. Len(s) + 1 /\ u[Len(s) + 1] = p /\ u \in Seq(S)
        /\ \A i \in 1 .. Len(s) : u[i] = s[i]
    BY <2>1
  <2>4. /\ DOMAIN v = 1 .. Len(s) + 1 /\ v[Len(s) + 1] = p /\ v \in Seq(S)
        /\ \A i \in 1 .. Len(s) : v[i] = s[i]
    <3>1. /\ v \in Seq(S) /\ Len(v) = Len(s) + Len(t) /\ \A i \in 1 .. Len(s) : v[i] = s[i]
          /\ \A i \in 1 .. Len(t) : v[Len(s) + i] = t[i]
      BY <1>2, <2>1, ConcatType
    <3>2. 1 \in 1 .. Len(t)
      BY <2>2
    <3>3. v[Len(s) + 1] = p
      BY <2>2, <3>1, <3>2
    <3>4. DOMAIN v = 1 .. Len(v)
      BY <3>1
    <3> QED BY <2>2, <3>1, <3>3, <3>4
  <2>5. u = v
    BY <2>2, <2>3, <2>4
  <2> QED BY <2>1, <2>5
<1>4. IsInjective(t)
  BY <1>2 DEF IsInjective
<1>5. s \o t \in Seq(S) /\ ToSet(s \o t) = ToSet(s) \cup ToSet(t)
  BY <1>2, ToSetConcat, ConcatType
<1>6. IsInjective(s) /\ p \notin ToSet(s) => IsInjective(s \o t)
  <2> SUFFICES ASSUME IsInjective(s), p \notin ToSet(s) PROVE IsInjective(s \o t)
    OBVIOUS
  <2>1. ToSet(s) \cap ToSet(t) = {}
    BY <1>2
  <2> QED BY <2>1, <1>2, <1>4, InjectiveConcat
<1> QED BY <1>2, <1>3, <1>5, <1>6

\* Sequences that share nothing with each other and repeat nothing.
AllApart(seqs) ==
    /\ \A i \in DOMAIN seqs : IsInjective(seqs[i])
    /\ \A i, j \in DOMAIN seqs : i # j => ToSet(seqs[i]) \cap ToSet(seqs[j]) = {}

LEMMA InjectiveFlatten ==
    ASSUME NEW S, NEW seqs \in Seq(Seq(S)), AllApart(seqs)
    PROVE  IsInjective(FlattenSeq(seqs))
<1>1. PICK N : N = Len(seqs)
  OBVIOUS
<1>2. N \in Nat /\ DOMAIN seqs = 1 .. N /\ \A i \in 1 .. N : seqs[i] \in Seq(S)
  BY <1>1
<1>3. PICK Good : Good = {p \in Nat \X Seq(S) :
                            /\ IsInjective(p[2])
                            /\ ToSet(p[2]) = UNION {ToSet(seqs[i]) : i \in 1 .. p[1]}}
  OBVIOUS
<1>4. \A n \in Nat, s \in Seq(S) :
          <<n, s>> \in Good <=> IsInjective(s) /\ ToSet(s) = UNION {ToSet(seqs[i]) : i \in 1 .. n}
  BY <1>3
<1>5. <<0, <<>> >> \in Good
  <2>1. PICK s : s = <<>>
    OBVIOUS
  <2>2. s \in Seq(S) /\ DOMAIN s = {} /\ ToSet(s) = {}
    BY <2>1 DEF ToSet
  <2>3. IsInjective(s)
    BY <2>2 DEF IsInjective
  <2>4. UNION {ToSet(seqs[i]) : i \in 1 .. 0} = {}
    OBVIOUS
  <2>5. <<0, s>> \in Good
    BY <1>4, <2>2, <2>3, <2>4
  <2> QED BY <2>1, <2>5
<1>6. ASSUME NEW n \in Nat, NEW s \in Seq(S), n < Len(seqs), <<n, s>> \in Good
      PROVE  <<n + 1, s \o seqs[n + 1]>> \in Good
  <2>1. PICK k, t : k = n + 1 /\ t = seqs[k]
    OBVIOUS
  <2>2. k \in 1 .. N /\ k \in Nat /\ 1 .. k = (1 .. n) \cup {k} /\ k \notin 1 .. n /\ 1 .. n \subseteq 1 .. N
    BY <1>1, <1>2, <1>6, <2>1
  <2>3. t \in Seq(S) /\ IsInjective(t)
    BY <1>2, <2>1, <2>2 DEF AllApart
  <2>4. IsInjective(s) /\ ToSet(s) = UNION {ToSet(seqs[i]) : i \in 1 .. n}
    BY <1>4, <1>6
  <2>5. \A i \in 1 .. n : ToSet(seqs[i]) \cap ToSet(t) = {}
    BY <1>2, <2>1, <2>2 DEF AllApart
  <2>6. ToSet(s) \cap ToSet(t) = {}
    BY <2>4, <2>5
  <2>7. IsInjective(s \o t) /\ s \o t \in Seq(S)
    BY <2>3, <2>4, <2>6, InjectiveConcat, ConcatType
  <2>8. ToSet(s \o t) = ToSet(s) \cup ToSet(t)
    BY <2>3, ToSetConcat
  <2>9. ToSet(s \o t) = UNION {ToSet(seqs[i]) : i \in 1 .. k}
    BY <2>1, <2>2, <2>4, <2>8
  <2>10. <<k, s \o t>> \in Good
    BY <1>4, <2>2, <2>7, <2>9
  <2> QED BY <2>1, <2>10
<1>7. <<Len(seqs), FlattenSeq(seqs)>> \in Good /\ FlattenSeq(seqs) \in Seq(S)
  BY <1>5, <1>6, FlattenInduction
<1> QED BY <1>1, <1>2, <1>4, <1>7

-----------------------------------------------------------------------------
(* What a destructor destroys                                              *)

\* s is the tree below p: no cell twice, p with what its cells own and nothing else.
Tree(h, rank, p, s) ==
    /\ s \in Seq(1 .. Len(h)) /\ IsInjective(s) /\ p \in ToSet(s)
    /\ \A d \in ToSet(s) : rank[d] <= rank[p]
    /\ \A d \in ToSet(s) : d = p \/ \E c, f : c \in ToSet(s) /\ Owns(h, c, f, d)
    /\ \A c, f, d : c \in ToSet(s) /\ Owns(h, c, f, d) => d \in ToSet(s)

LEMMA TreeCells ==
    ASSUME NEW h, NEW rank, NEW p, NEW s, Tree(h, rank, p, s)
    PROVE  ToSet(s) \subseteq 1 .. Len(h)
<1>1. s \in Seq(1 .. Len(h))
  BY DEF Tree
<1>2. PICK S : S = 1 .. Len(h)
  OBVIOUS
<1>3. s \in Seq(S)
  BY <1>1, <1>2
<1>4. \A i \in DOMAIN s : s[i] \in S
  BY <1>3
<1> QED BY <1>2, <1>4 DEF ToSet

\* Of a finite number of ranked cells one has the greatest rank.
LEMMA Greatest ==
    ASSUME NEW T, NEW C, NEW rank \in [C -> Nat], NEW n \in Nat, \A c \in C : rank[c] < n,
           T \subseteq C, T # {}
    PROVE  \E d \in T : \A e \in T : rank[e] <= rank[d]
<1>1. PICK M : M = {n - rank[c] : c \in T}
  OBVIOUS
<1>2. \A c \in T : rank[c] \in Nat /\ rank[c] < n
  OBVIOUS
<1>3. M \subseteq Nat /\ M # {}
  BY <1>1, <1>2
<1>4. PICK x \in M : \A y \in M : ~(y < x)
  BY <1>3, LeastNumber
<1>5. PICK d \in T : x = n - rank[d]
  BY <1>1
<1>6. ASSUME NEW e \in T PROVE rank[e] <= rank[d]
  <2>1. n - rank[e] \in M
    BY <1>1
  <2>2. ~(n - rank[e] < n - rank[d])
    BY <2>1, <1>4, <1>5
  <2> QED BY <2>2, <1>2
<1> QED BY <1>6

\* Trees are apart when the root of neither is in the other.
LEMMA TreesApart ==
    ASSUME NEW h, NEW rank, NEW n, Grounded(h, rank, n), NEW p, NEW s, NEW q, NEW t,
           Tree(h, rank, p, s), Tree(h, rank, q, t), p \notin ToSet(t), q \notin ToSet(s)
    PROVE  ToSet(s) \cap ToSet(t) = {}
<1>1. PICK T : T = ToSet(s) \cap ToSet(t)
  OBVIOUS
<1> SUFFICES ASSUME T # {} PROVE FALSE
  BY <1>1
<1>2. PICK C : C = 1 .. Len(h)
  OBVIOUS
<1>3. T \subseteq C
  BY <1>1, <1>2, TreeCells
<1>4. rank \in [C -> Nat] /\ n \in Nat /\ \A c \in C : rank[c] < n
  BY <1>2 DEF Grounded
<1>5. PICK d \in T : \A e \in T : rank[e] <= rank[d]
  BY <1>3, <1>4, Greatest
<1>6. d \in ToSet(s) /\ d \in ToSet(t) /\ d # p /\ d # q
  BY <1>1
<1>7. PICK c, f : c \in ToSet(s) /\ Owns(h, c, f, d)
  BY <1>6 DEF Tree
<1>8. PICK e, g : e \in ToSet(t) /\ Owns(h, e, g, d)
  BY <1>6 DEF Tree
<1>9. c = e
  BY <1>7, <1>8 DEF Grounded, Single
<1>10. c \in T /\ rank[c] <= rank[d]
  BY <1>1, <1>5, <1>7, <1>8, <1>9
<1>11. rank[d] < rank[c] /\ rank[c] \in Nat /\ rank[d] \in Nat
  BY <1>3, <1>4, <1>7, <1>10 DEF Grounded
<1> QED BY <1>10, <1>11

\* No two fields of a tag have one name.
LEMMA LayoutApart ==
    ASSUME NEW tag \in Tags, NEW i \in DOMAIN Layout[tag], NEW j \in DOMAIN Layout[tag],
           Layout[tag][i][1] = Layout[tag][j][1]
    PROVE  i = j
<1>1. CASE tag = "Schema"
  <2>1. Layout["Schema"] = << <<"name", "String">>, <<"entities", "Entity">>, <<"relationships", "Relationship">> >>
    BY DEF Layout
  <2> QED BY <2>1, <1>1
<1>2. CASE tag = "Entity"
  <2>1. Layout["Entity"] = << <<"name", "String">>, <<"parent", "String">>, <<"attributes", "AttributeList">>, <<"primaryKey", "PrimaryKey">>, <<"assertions", "Assertion">>, <<"next", "Entity">> >>
    BY DEF Layout
  <2> QED BY <2>1, <1>2
<1>3. CASE tag = "Relationship"
  <2>1. Layout["Relationship"] = << <<"name", "String">>, <<"participants", "ParticipantList">>, <<"attributes", "AttributeList">>, <<"next", "Relationship">> >>
    BY DEF Layout
  <2> QED BY <2>1, <1>3
<1>4. CASE tag = "Attribute"
  <2>1. Layout["Attribute"] = << <<"name", "String">>, <<"type", "Type">>, <<"modifiers", "ModifierList">> >>
    BY DEF Layout
  <2> QED BY <2>1, <1>4
<1>5. CASE tag = "AttributeList"
  <2>1. Layout["AttributeList"] = << <<"attribute", "Attribute">>, <<"next", "AttributeList">> >>
    BY DEF Layout
  <2> QED BY <2>1, <1>5
<1>6. CASE tag = "Participant"
  <2>1. Layout["Participant"] = << <<"entityName", "String">>, <<"participation", "Participation">> >>
    BY DEF Layout
  <2> QED BY <2>1, <1>6
<1>7. CASE tag = "ParticipantList"
  <2>1. Layout["ParticipantList"] = << <<"participant", "Participant">>, <<"next", "ParticipantList">> >>
    BY DEF Layout
  <2> QED BY <2>1, <1>7
<1>8. CASE tag = "Expression"
  <2>1. Layout["Expression"] = << <<"identifier", "String">>, <<"literal", "Literal">>, <<"left", "Expression">>, <<"right", "Expression">> >>
    BY DEF Layout
  <2> QED BY <2>1, <1>8
<1>9. CASE tag = "ModifierList"
  <2>1. Layout["ModifierList"] = << <<"modifier", "Modifier">>, <<"next", "ModifierList">> >>
    BY DEF Layout
  <2> QED BY <2>1, <1>9
<1>10. CASE tag = "Assertion"
  <2>1. Layout["Assertion"] = << <<"condition", "Expression">>, <<"next", "Assertion">> >>
    BY DEF Layout
  <2> QED BY <2>1, <1>10
<1>11. CASE tag = "QualifiedIdentifierList"
  <2>1. Layout["QualifiedIdentifierList"] = << <<"qid", "QualifiedIdentifier">>, <<"next", "QualifiedIdentifierList">> >>
    BY DEF Layout
  <2> QED BY <2>1, <1>11
<1>12. CASE tag = "QualifiedIdentifier"
  <2>1. Layout["QualifiedIdentifier"] = << <<"entity", "String">>, <<"attribute", "String">> >>
    BY DEF Layout
  <2> QED BY <2>1, <1>12
<1>13. CASE tag \in {"Program", "Literal", "Modifier", "PrimaryKey", "Type", "Participation", "String"}
  BY <1>13, LayoutSmall
<1> QED BY <1>1, <1>2, <1>3, <1>4, <1>5, <1>6, <1>7, <1>8, <1>9, <1>10, <1>11, <1>12, <1>13, LayoutSmall

LEMMA LayoutLength == \A tag \in Tags : \E k \in Nat : DOMAIN Layout[tag] = 1 .. k
<1> SUFFICES ASSUME NEW tag \in Tags PROVE \E k \in Nat : DOMAIN Layout[tag] = 1 .. k
  OBVIOUS
<1>1. {0, 1, 2, 3, 4, 6} \subseteq Nat /\ 1 .. 0 = {}
  OBVIOUS
<1> QED BY <1>1, LayoutSmall

\* What hangs below a field of p: the tree of what it points to.
Branch(h, rank, p, x, d, s) ==
    \/ d = 0 /\ s = <<>>
    \/ /\ d \in 1 .. Len(h) /\ Owns(h, p, x, d) /\ rank[d] < rank[p]
       /\ Tree(h, rank, d, s)

LEMMA BranchCells ==
    ASSUME NEW h, NEW rank, NEW n, Grounded(h, rank, n), NEW p, p \in 1 .. Len(h),
           NEW x, NEW d, NEW s, Branch(h, rank, p, x, d, s)
    PROVE  /\ s \in Seq(1 .. Len(h)) /\ IsInjective(s) /\ p \notin ToSet(s)
           /\ \A e \in ToSet(s) : rank[e] <= rank[p]
<1>1. rank \in [1 .. Len(h) -> Nat] /\ \A e \in 1 .. Len(h) : rank[e] \in Nat
  BY DEF Grounded
<1>2. CASE d = 0 /\ s = <<>>
  <2>1. DOMAIN s = {} /\ ToSet(s) = {} /\ s \in Seq(1 .. Len(h))
    BY <1>2 DEF ToSet
  <2>2. IsInjective(s)
    BY <2>1 DEF IsInjective
  <2> QED BY <2>1, <2>2
<1>3. CASE d \in 1 .. Len(h) /\ rank[d] < rank[p] /\ Tree(h, rank, d, s)
  <2>1. s \in Seq(1 .. Len(h)) /\ IsInjective(s) /\ \A e \in ToSet(s) : rank[e] <= rank[d]
    BY <1>3 DEF Tree
  <2>2. ToSet(s) \subseteq 1 .. Len(h)
    BY <1>3, TreeCells
  <2>3. \A e \in ToSet(s) : rank[e] < rank[p]
    BY <1>1, <1>3, <2>1, <2>2
  <2>4. \A e \in ToSet(s) : rank[e] <= rank[p]
    BY <1>1, <2>2, <2>3
  <2> QED BY <1>1, <2>1, <2>3, <2>4
<1> QED BY <1>2, <1>3 DEF Branch

\* What one field points to is not below another.
LEMMA NotBelow ==
    ASSUME NEW h, NEW rank, NEW n, Grounded(h, rank, n), NEW p \in 1 .. Len(h),
           NEW x, NEW d, Owns(h, p, x, d),
           NEW y, NEW e, NEW t, e # 0, Branch(h, rank, p, y, e, t), x # y
    PROVE  d \notin ToSet(t)
<1> SUFFICES ASSUME d \in ToSet(t) PROVE FALSE
  OBVIOUS
<1>1. e \in 1 .. Len(h) /\ Owns(h, p, y, e) /\ rank[e] < rank[p] /\ Tree(h, rank, e, t)
  BY DEF Branch
<1>2. d # e
  BY <1>1 DEF Grounded, Single
<1>3. PICK c, f : c \in ToSet(t) /\ Owns(h, c, f, d)
  BY <1>1, <1>2 DEF Tree
<1>4. c = p
  BY <1>3 DEF Grounded, Single
<1>5. rank[p] <= rank[e]
  BY <1>1, <1>3, <1>4 DEF Tree
<1>6. rank[p] \in Nat /\ rank[e] \in Nat
  BY <1>1 DEF Grounded
<1> QED BY <1>1, <1>5, <1>6

LEMMA BranchesApart ==
    ASSUME NEW h, NEW rank, NEW n, Grounded(h, rank, n), NEW p \in 1 .. Len(h),
           NEW x, NEW d, NEW s, Branch(h, rank, p, x, d, s),
           NEW y, NEW e, NEW t, Branch(h, rank, p, y, e, t), x # y
    PROVE  ToSet(s) \cap ToSet(t) = {}
<1>1. CASE d = 0
  <2>1. s = <<>>
    BY <1>1 DEF Branch
  <2>2. ToSet(s) = {}
    BY <2>1 DEF ToSet
  <2> QED BY <2>2
<1>2. CASE e = 0
  <2>1. t = <<>>
    BY <1>2 DEF Branch
  <2>2. ToSet(t) = {}
    BY <2>1 DEF ToSet
  <2> QED BY <2>2
<1>3. CASE d # 0 /\ e # 0
  <2>1. Owns(h, p, x, d) /\ Tree(h, rank, d, s) /\ Owns(h, p, y, e) /\ Tree(h, rank, e, t)
    BY <1>3 DEF Branch
  <2>2. d \notin ToSet(t)
    BY <2>1, <1>3, NotBelow
  <2>3. e \notin ToSet(s)
    BY <2>1, <1>3, NotBelow
  <2> QED BY <2>1, <2>2, <2>3, TreesApart
<1> QED BY <1>1, <1>2, <1>3

\* D is right for the cells below p.
TreesBelow(h, rank, p, D) ==
    /\ D[0] = <<>>
    /\ \A d \in 1 .. Len(h) : rank[d] < rank[p] => Tree(h, rank, d, D[d])

LEMMA TreeGrown ==
    ASSUME NEW h, NEW rank, NEW n, Grounded(h, rank, n), NEW p \in 1 .. Len(h), NEW D,
           TreesBelow(h, rank, p, D)
    PROVE  Tree(h, rank, p, DestroyStep(h, D, p))
<1>1. PICK t : t = h[p].tag
  OBVIOUS
<1>2. t \in Tags /\ p # 0 /\ p \in DOMAIN h
  BY <1>1 DEF Grounded
<1>3. PICK k \in Nat : DOMAIN Layout[t] = 1 .. k
  BY <1>2, LayoutLength
<1>4. PICK x : x = [i \in 1 .. k |-> Layout[t][i][1]]
  OBVIOUS
<1>5. PICK seqs : seqs = [i \in 1 .. k |-> D[h[p][x[i]]]]
  OBVIOUS
<1>6. ASSUME NEW i \in 1 .. k PROVE Branch(h, rank, p, x[i], h[p][x[i]], seqs[i])
  <2>1. PICK d : d = h[p][x[i]]
    OBVIOUS
  <2>2. x[i] = Layout[t][i][1] /\ seqs[i] = D[d]
    BY <1>4, <1>5, <2>1
  <2>3. /\ d \in 0 .. Len(h)
        /\ d # 0 => Owns(h, p, x[i], d) /\ rank[d] < rank[p]
    <3>1. i \in DOMAIN Layout[h[p].tag] /\ d = h[p][Layout[h[p].tag][i][1]]
      BY <1>1, <1>3, <2>1, <2>2
    <3>2. /\ d \in 0 .. Len(h)
          /\ d # 0 => Owns(h, p, Layout[h[p].tag][i][1], d) /\ rank[d] < rank[p]
      BY <3>1, FieldPoints
    <3> QED BY <3>2, <1>1, <2>2
  <2>4. CASE d = 0
    <3>1. D[d] = <<>>
      BY <2>4 DEF TreesBelow
    <3> QED BY <3>1, <2>1, <2>2, <2>4 DEF Branch
  <2>5. CASE d # 0
    <3>1. d \in 1 .. Len(h)
      BY <2>3, <2>5 DEF Grounded
    <3>2. Tree(h, rank, d, D[d])
      BY <3>1, <2>3, <2>5 DEF TreesBelow
    <3> QED BY <3>1, <3>2, <2>1, <2>2, <2>3, <2>5 DEF Branch
  <2> QED BY <2>4, <2>5
<1>7. PICK C : C = 1 .. Len(h)
  OBVIOUS
<1>8. \A i \in 1 .. k : /\ seqs[i] \in Seq(C) /\ IsInjective(seqs[i]) /\ p \notin ToSet(seqs[i])
                        /\ \A e \in ToSet(seqs[i]) : rank[e] <= rank[p]
  BY <1>6, <1>7, BranchCells
<1>9. ASSUME NEW i \in 1 .. k, NEW j \in 1 .. k, i # j PROVE ToSet(seqs[i]) \cap ToSet(seqs[j]) = {}
  <2>1. x[i] # x[j]
    <3>1. x[i] = Layout[t][i][1] /\ x[j] = Layout[t][j][1]
      BY <1>4
    <3> QED BY <3>1, <1>2, <1>3, <1>9, LayoutApart
  <2>2. Branch(h, rank, p, x[i], h[p][x[i]], seqs[i]) /\ Branch(h, rank, p, x[j], h[p][x[j]], seqs[j])
    BY <1>6
  <2> QED BY <2>1, <2>2, BranchesApart
<1>10. seqs \in Seq(Seq(C)) /\ DOMAIN seqs = 1 .. k
  BY <1>5, <1>8
<1>11. AllApart(seqs)
  BY <1>8, <1>9, <1>10 DEF AllApart
<1>12. PICK all : all = FlattenSeq(seqs)
  OBVIOUS
<1>13. all \in Seq(C) /\ ToSet(all) = UNION {ToSet(seqs[i]) : i \in 1 .. k}
  BY <1>10, <1>12, ToSetFlatten
<1>14. IsInjective(all)
  BY <1>10, <1>11, <1>12, InjectiveFlatten
<1>15. p \notin ToSet(all)
  BY <1>8, <1>13
<1>16. PICK s : s = Append(all, p)
  OBVIOUS
<1>17. s \in Seq(C) /\ ToSet(s) = ToSet(all) \cup {p} /\ IsInjective(s)
  BY <1>7, <1>13, <1>14, <1>15, <1>16, Appended
<1>18. DestroyStep(h, D, p) = s
  <2>1. [i \in DOMAIN Layout[h[p].tag] |-> D[h[p][Layout[h[p].tag][i][1]]]] = seqs
    BY <1>1, <1>3, <1>4, <1>5
  <2> QED BY <2>1, <1>2, <1>12, <1>16 DEF DestroyStep
<1>19. \A d \in ToSet(s) : rank[d] <= rank[p]
  <2>1. rank[p] \in Nat
    BY DEF Grounded
  <2>2. rank[p] <= rank[p]
    BY <2>1
  <2>3. \A d \in ToSet(all) : rank[d] <= rank[p]
    BY <1>8, <1>13
  <2> QED BY <2>2, <2>3, <1>17
<1>20. ASSUME NEW d \in ToSet(s) PROVE d = p \/ \E c, f : c \in ToSet(s) /\ Owns(h, c, f, d)
  <2> SUFFICES ASSUME d # p PROVE \E c, f : c \in ToSet(s) /\ Owns(h, c, f, d)
    OBVIOUS
  <2>1. PICK i \in 1 .. k : d \in ToSet(seqs[i])
    BY <1>13, <1>17
  <2>2. Branch(h, rank, p, x[i], h[p][x[i]], seqs[i])
    BY <1>6
  <2>3. seqs[i] # <<>>
    BY <2>1 DEF ToSet
  <2>4. Owns(h, p, x[i], h[p][x[i]]) /\ Tree(h, rank, h[p][x[i]], seqs[i])
    BY <2>2, <2>3 DEF Branch
  <2>5. CASE d = h[p][x[i]]
    BY <2>4, <2>5, <1>17
  <2>6. CASE d # h[p][x[i]]
    <3>1. PICK c, f : c \in ToSet(seqs[i]) /\ Owns(h, c, f, d)
      BY <2>1, <2>4, <2>6 DEF Tree
    <3>2. c \in ToSet(s)
      BY <3>1, <1>13, <1>17
    <3> QED BY <3>1, <3>2
  <2> QED BY <2>5, <2>6
<1>21. ASSUME NEW c, NEW f, NEW d, c \in ToSet(s), Owns(h, c, f, d) PROVE d \in ToSet(s)
  <2>1. CASE c = p
    <3>1. f \in Fields(t) /\ d # 0 /\ h[p][f] = d
      BY <2>1, <1>1, <1>21 DEF Owns
    <3>2. PICK i \in 1 .. k : f = x[i]
      BY <3>1, <1>3, <1>4 DEF Fields
    <3>3. Branch(h, rank, p, x[i], d, seqs[i])
      BY <3>1, <3>2, <1>6
    <3>4. Tree(h, rank, d, seqs[i])
      BY <3>1, <3>3 DEF Branch
    <3>5. d \in ToSet(seqs[i])
      BY <3>4 DEF Tree
    <3> QED BY <3>5, <1>13, <1>17
  <2>2. CASE c # p
    <3>1. PICK i \in 1 .. k : c \in ToSet(seqs[i])
      BY <2>2, <1>13, <1>17, <1>21
    <3>2. Branch(h, rank, p, x[i], h[p][x[i]], seqs[i])
      BY <1>6
    <3>3. seqs[i] # <<>>
      BY <3>1 DEF ToSet
    <3>4. Tree(h, rank, h[p][x[i]], seqs[i])
      BY <3>2, <3>3 DEF Branch
    <3>5. d \in ToSet(seqs[i])
      BY <3>1, <3>4, <1>21 DEF Tree
    <3> QED BY <3>5, <1>13, <1>17
  <2> QED BY <2>1, <2>2
<1>22. s \in Seq(1 .. Len(h)) /\ p \in ToSet(s)
  BY <1>7, <1>17
<1>23. Tree(h, rank, p, s)
  BY <1>17, <1>19, <1>20, <1>21, <1>22 DEF Tree
<1> QED BY <1>18, <1>23

\* The destructor of a cell destroys the tree below it.
LEMMA DestroyTree ==
    ASSUME NEW h, NEW rank, NEW n, Grounded(h, rank, n)
    PROVE  \A p \in 1 .. Len(h) : Tree(h, rank, p, destroy(h, p))
<1>1. PICK D : D = Destroying(h)
  OBVIOUS
<1>2. D[0] = <<>> /\ \A p \in 1 .. Len(h) : D[p] = DestroyStep(h, D, p)
  BY <1>1, DestroyingIs
<1>3. PICK G : G = {m \in Nat : \A p \in 1 .. Len(h) : rank[p] < m => Tree(h, rank, p, D[p])}
  OBVIOUS
<1>4. \A p \in 1 .. Len(h) : rank[p] \in Nat /\ rank[p] < n
  BY DEF Grounded
<1>5. 0 \in G
  BY <1>3, <1>4
<1>6. ASSUME NEW m \in Nat, m \in G PROVE m + 1 \in G
  <2>1. ASSUME NEW p \in 1 .. Len(h), rank[p] < m + 1 PROVE Tree(h, rank, p, D[p])
    <3>1. \A d \in 1 .. Len(h) : rank[d] < rank[p] => rank[d] < m
      BY <1>4, <2>1
    <3>2. \A d \in 1 .. Len(h) : rank[d] < rank[p] => Tree(h, rank, d, D[d])
      BY <3>1, <1>3, <1>6
    <3>3. TreesBelow(h, rank, p, D)
      BY <3>2, <1>2 DEF TreesBelow
    <3>4. Tree(h, rank, p, DestroyStep(h, D, p))
      BY <3>3, TreeGrown
    <3> QED BY <3>4, <1>2
  <2>2. m + 1 \in Nat
    OBVIOUS
  <2> QED BY <2>1, <2>2, <1>3
<1>7. n \in G
  <2>1. n \in Nat
    BY DEF Grounded
  <2> QED BY <2>1, <1>5, <1>6, NumberInduction
<1>8. \A p \in 1 .. Len(h) : Tree(h, rank, p, D[p])
  BY <1>3, <1>4, <1>7
<1> QED BY <1>1, <1>8, DestroyIs

-----------------------------------------------------------------------------
(* What is handed over                                                     *)

LEMMA GrowthTrees ==
    ASSUME Growth
    PROVE  \E rank, n : /\ Grounded(heap, rank, n)
                        /\ \A p \in 1 .. Len(heap) : Tree(heap, rank, p, destroy(heap, p))
<1>1. PICK K : Sound(heap, K)
  BY GrowthSound DEF Root
<1>2. PICK rank, n : Grounded(heap, rank, n)
  BY <1>1, SoundGrounded
<1> QED BY <1>2, DestroyTree

\* What hangs below a whole cell is whole.
LEMMA TreeWhole ==
    ASSUME NEW h, NEW rank, NEW n, Grounded(h, rank, n), NEW p, NEW s, Tree(h, rank, p, s), Whole(h[p]),
           NEW d \in ToSet(s)
    PROVE  d \in DOMAIN h /\ Whole(h[d])
<1>0. d \in DOMAIN h
  BY TreeCells DEF Grounded
<1>1. CASE d = p
  BY <1>0, <1>1
<1>2. CASE d # p
  <2>1. PICK c, f : c \in ToSet(s) /\ Owns(h, c, f, d)
    BY <1>2 DEF Tree
  <2>2. c \in DOMAIN h /\ d # 0 /\ f \in Fields(h[c].tag) /\ h[c][f] = d
    BY <2>1 DEF Owns
  <2>3. h[c].tag \in Tags
    BY <2>2 DEF Grounded
  <2>4. PICK u : <<h[c].tag, f, u>> \in Slots
    BY <2>2, <2>3, FieldsAre
  <2>5. Whole(h[d])
    BY <2>2, <2>4 DEF Grounded, Typed
  <2> QED BY <1>0, <2>5
<1> QED BY <1>1, <1>2

LEMMA GrowthHandsOver == Growth => HandsOverSchema
<1> SUFFICES ASSUME Growth, status = "SUCCEEDED" PROVE HandsOverSchema
  BY DEF HandsOverSchema
<1>1. stack # <<>> /\ OnStack /\ 1 \in Complete(Items)
  BY DEF Growth
<1>2. StackOK(heap, stack) /\ Published(stack, program) /\ 1 \in Complete(stack[Len(stack)].items)
  BY <1>1 DEF OnStack, Grows, Growing, Items, Last
<1>3. program # 0 /\ IsWhole(heap, program, "Program")
  BY <1>2, AcceptedWhole
<1>4. program \in DOMAIN heap /\ heap[program].tag = "Program" /\ Whole(heap[program])
  BY <1>3 DEF IsWhole
<1>5. PICK rank, n : /\ Grounded(heap, rank, n)
                     /\ \A p \in 1 .. Len(heap) : Tree(heap, rank, p, destroy(heap, p))
  BY GrowthTrees
<1>6. Tree(heap, rank, program, destroy(heap, program))
  <2>1. DOMAIN heap = 1 .. Len(heap)
    BY GrowthShape
  <2> QED BY <2>1, <1>4, <1>5
<1>7. \A c \in ToSet(destroy(heap, program)) : c \in DOMAIN heap /\ Whole(heap[c])
  BY <1>4, <1>5, <1>6, TreeWhole
<1>8. \A c \in DOMAIN heap : heap[c].tag \in Tags
  BY GrowthShape
<1>9. ASSUME NEW c \in ToSet(destroy(heap, program)), NEW f \in Pointers(c)
      PROVE  \/ heap[c][f[2]] # 0
             \/ f[2] \in Optional
             \/ heap[c].tag \in {"Entity", "Relationship"} /\ f[2] = "attributes"
  <2>1. PICK x, u : <<heap[c].tag, x, u>> \in Slots /\ f = <<c, x, u>>
    BY <1>7, <1>8, PointersAre
  <2>2. f[2] = x
    BY <2>1
  <2>3. Whole(heap[c])
    BY <1>7
  <2> QED BY <2>1, <2>2, <2>3 DEF Whole
<1>10. ASSUME NEW c \in ToSet(destroy(heap, program)), heap[c].tag = "Expression"
       PROVE  \E f \in Pointers(c) : heap[c][f[2]] # 0
  <2>1. PICK x, u : <<heap[c].tag, x, u>> \in Slots /\ heap[c][x] # 0
    BY <1>7, <1>10 DEF Whole
  <2>2. PICK f : f = <<c, x, u>>
    OBVIOUS
  <2>3. f \in Pointers(c) /\ f[2] = x
    BY <1>7, <1>8, <2>1, <2>2, PointersAre
  <2> QED BY <2>1, <2>3
<1> QED BY <1>3, <1>4, <1>9, <1>10 DEF HandsOverSchema

\* An accepted tree has what the analyzer reads without a test (SymbolTable.c:195).
THEOREM HandsOverSchemaHolds == Spec => []HandsOverSchema
BY GrowthHolds, GrowthHandsOver, PTL
=============================================================================
