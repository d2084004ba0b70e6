-------------------------- MODULE SymbolTable_proofs --------------------------
(***************************************************************************)
(* For every set of names, every hash function and every table size, the   *)
(* hash table of SymbolTable.c is the map of SymbolTable.h.  The inductive *)
(* invariant is TypeOK with ChainsWellFormed: without the second conjunct  *)
(* a lookup could miss a symbol in a foreign bucket, or answer with one of *)
(* two, and the replies would depend on the history of the chains.         *)
(***************************************************************************)
EXTENDS SymbolTable, TLAPS, SequenceTheorems, FunctionTheorems, FiniteSetTheorems

USE DEF Buckets

\* What prepending one element does to a list.
LEMMA ConsProperties ==
  ASSUME NEW S, NEW x \in S, NEW s \in Seq(S)
  PROVE  /\ <<x>> \o s \in Seq(S)
         /\ DOMAIN (<<x>> \o s) = 1 .. Len(s) + 1
         /\ (<<x>> \o s)[1] = x
         /\ \A i \in DOMAIN s : i + 1 \in DOMAIN (<<x>> \o s) /\ (<<x>> \o s)[i + 1] = s[i]
         /\ \A i \in DOMAIN (<<x>> \o s) :
               i = 1 \/ (i - 1 \in DOMAIN s /\ (<<x>> \o s)[i] = s[i - 1])
  <1>1. <<x>> \in Seq(S) /\ Len(<<x>>) = 1 /\ <<x>>[1] = x
    OBVIOUS
  <1>2. /\ <<x>> \o s \in Seq(S)
        /\ Len(<<x>> \o s) = 1 + Len(s)
        /\ \A i \in 1 .. 1 + Len(s) :
              (<<x>> \o s)[i] = IF i <= 1 THEN <<x>>[i] ELSE s[i - 1]
    BY <1>1, ConcatProperties
  <1>3. Len(s) \in Nat /\ DOMAIN s = 1 .. Len(s)
    BY LenProperties
  <1>4. DOMAIN (<<x>> \o s) = 1 .. Len(s) + 1
    BY <1>2, <1>3, LenProperties
  <1> QED
    BY <1>1, <1>2, <1>3, <1>4

\* In a well-formed table the walk of `lookup` finds the one symbol of a name,
\* and answers NULL exactly when there is none (SymbolTable.c:95-106).
LEMMA LookupFinds ==
  ASSUME NEW B \in ChainArray, WellFormed(B), NEW n \in Names
  PROVE  /\ Matches(B, n) = {} => lookup(B, n) = NULL
         /\ \A i \in Matches(B, n) : /\ Matches(B, n) = {i}
                                     /\ lookup(B, n) = B[hash[n]][i].decl
         /\ lookup(B, n) \in Decls \cup {NULL}
         /\ lookup(B, n) = NULL <=> Matches(B, n) = {}
  <1>1. hash[n] \in Buckets /\ B[hash[n]] \in Seq(Symbol)
    BY SymbolTableAssumption DEF ChainArray
  <1>2. DOMAIN B[hash[n]] = 1 .. Len(B[hash[n]]) /\ Len(B[hash[n]]) \in Nat
    BY <1>1, LenProperties
  <1>3. ASSUME NEW i \in Matches(B, n)
        PROVE  /\ Matches(B, n) = {i}
               /\ lookup(B, n) = B[hash[n]][i].decl
               /\ B[hash[n]][i].decl \in Decls
    <2>1. i \in DOMAIN B[hash[n]] /\ B[hash[n]][i].name = n
      BY DEF Matches
    <2>2. Matches(B, n) = {i}
      BY <2>1, <1>1 DEF Matches, WellFormed
    <2>3. (CHOOSE k \in Matches(B, n) : \A j \in Matches(B, n) : k <= j) = i
      BY <2>1, <2>2, <1>2
    <2>4. B[hash[n]][i] \in Symbol
      BY <2>1, <1>1, <1>2, ElementOfSeq
    <2> QED
      BY <2>2, <2>3, <2>4 DEF lookup, Symbol
  <1>4. Matches(B, n) = {} => lookup(B, n) = NULL
    BY DEF lookup
  <1>5. CASE Matches(B, n) = {}
    BY <1>4, <1>5
  <1>6. CASE Matches(B, n) # {}
    <2>1. PICK i \in Matches(B, n) : TRUE
      BY <1>6
    <2>2. lookup(B, n) \in Decls
      BY <1>3, <2>1
    <2> QED
      BY <1>3, <1>6, <2>2, SymbolTableAssumption
  <1> QED
    BY <1>5, <1>6

\* Prepending an unbound name keeps the table well formed and binds that name
\* alone (SymbolTable.c:85-92).
LEMMA PrependBinds ==
  ASSUME NEW B \in ChainArray, WellFormed(B), NEW n \in Names, NEW d \in Decls,
         lookup(B, n) = NULL
  PROVE  /\ prepend(B, n, d) \in ChainArray
         /\ WellFormed(prepend(B, n, d))
         /\ Binding(prepend(B, n, d)) = [Binding(B) EXCEPT ![n] = d]
  <1> DEFINE h == hash[n]
             x == [name |-> n, decl |-> d]
             C == prepend(B, n, d)
  <1>1. h \in Buckets /\ x \in Symbol /\ B[h] \in Seq(Symbol)
    BY SymbolTableAssumption DEF ChainArray, Symbol
  <1>2. /\ C \in ChainArray
        /\ C[h] = <<x>> \o B[h]
        /\ \A b \in Buckets : b # h => C[b] = B[b]
    BY <1>1, ConsProperties DEF prepend, ChainArray
  <1>3. /\ 1 \in DOMAIN C[h] /\ C[h][1] = x
        /\ \A i \in DOMAIN B[h] : i + 1 \in DOMAIN C[h] /\ C[h][i + 1] = B[h][i]
        /\ \A i \in DOMAIN C[h] : i = 1 \/ (i - 1 \in DOMAIN B[h] /\ C[h][i] = B[h][i - 1])
    <2>1. Len(B[h]) \in Nat
      BY <1>1, LenProperties
    <2> QED
      BY <1>1, <1>2, <2>1, ConsProperties
  <1>4. DOMAIN B[h] \subseteq Nat /\ DOMAIN C[h] \subseteq Nat
    BY <1>1, <1>2, LenProperties DEF ChainArray
  <1>5. \A i \in DOMAIN B[h] : B[h][i].name # n
    BY LookupFinds DEF Matches
  <1>6. WellFormed(C)
    <2>1. SUFFICES ASSUME NEW b \in Buckets, NEW i \in DOMAIN C[b], NEW j \in DOMAIN C[b]
                   PROVE  /\ hash[C[b][i].name] = b
                          /\ C[b][i].name = C[b][j].name => i = j
      BY DEF WellFormed
    <2>2. CASE b # h
      BY <2>2, <1>2 DEF WellFormed
    <2>3. CASE b = h
      <3>1. hash[C[h][i].name] = h
        BY <2>3, <1>1, <1>3 DEF WellFormed
      <3>2. ASSUME C[h][i].name = C[h][j].name PROVE i = j
        <4>1. CASE i = 1 /\ j = 1
          BY <4>1
        <4>2. CASE i = 1 /\ j # 1
          BY <4>2, <3>2, <2>3, <1>3, <1>5
        <4>3. CASE i # 1 /\ j = 1
          BY <4>3, <3>2, <2>3, <1>3, <1>5
        <4>4. CASE i # 1 /\ j # 1
          <5>1. /\ i - 1 \in DOMAIN B[h] /\ C[h][i] = B[h][i - 1]
                /\ j - 1 \in DOMAIN B[h] /\ C[h][j] = B[h][j - 1]
            BY <4>4, <2>3, <1>3
          <5>2. i - 1 = j - 1
            BY <5>1, <3>2, <1>1 DEF WellFormed
          <5> QED
            BY <5>2, <1>4, <2>3
        <4> QED
          BY <4>1, <4>2, <4>3, <4>4
      <3> QED
        BY <3>1, <3>2, <2>3
    <2> QED
      BY <2>2, <2>3
  <1>7. ASSUME NEW m \in Names
        PROVE  lookup(C, m) = IF m = n THEN d ELSE lookup(B, m)
    <2>0. hash[m] \in Buckets
      BY SymbolTableAssumption
    <2>1. CASE m = n
      <3>1. 1 \in Matches(C, n)
        BY <1>3 DEF Matches
      <3> QED
        BY <3>1, <2>1, <1>2, <1>3, <1>6, LookupFinds
    <2>2. CASE m # n /\ hash[m] # h
      <3>1. C[hash[m]] = B[hash[m]]
        BY <2>0, <2>2, <1>2
      <3> QED
        BY <3>1, <2>2 DEF lookup, Matches
    <2>3. CASE m # n /\ hash[m] = h
      <3>1. CASE Matches(B, m) = {}
        <4>1. Matches(C, m) = {}
          BY <3>1, <2>3, <1>3 DEF Matches
        <4> QED
          BY <4>1, <3>1, <2>3 DEF lookup
      <3>2. CASE Matches(B, m) # {}
        <4>1. PICK i \in Matches(B, m) : TRUE
          BY <3>2
        <4>2. i \in DOMAIN B[h] /\ i + 1 \in Matches(C, m) /\ C[h][i + 1] = B[h][i]
          BY <4>1, <2>3, <1>3 DEF Matches
        <4>3. lookup(C, m) = C[h][i + 1].decl /\ lookup(B, m) = B[h][i].decl
          BY <4>1, <4>2, <2>3, <1>2, <1>6, LookupFinds
        <4> QED
          BY <4>2, <4>3, <2>3
      <3> QED
        BY <3>1, <3>2
    <2> QED
      BY <2>1, <2>2, <2>3
  <1>8. Binding(C) = [Binding(B) EXCEPT ![n] = d]
    BY <1>7 DEF Binding
  <1> QED
    BY <1>2, <1>6, <1>8

\* The empty table is well formed and binds nothing (SymbolTable.c:44-47).
LEMMA NullBucketsBindNothing ==
  /\ NullBuckets \in ChainArray
  /\ WellFormed(NullBuckets)
  /\ Binding(NullBuckets) = Map!Unbound
  <1>1. NullBuckets \in ChainArray /\ \A b \in Buckets : DOMAIN NullBuckets[b] = {}
    BY EmptySeq DEF NullBuckets, ChainArray
  <1>2. \A n \in Names : Matches(NullBuckets, n) = {}
    BY <1>1, SymbolTableAssumption DEF Matches
  <1> QED
    BY <1>1, <1>2 DEF WellFormed, Binding, lookup, Map!Unbound

\* The counting loops visit one cell for each bound name
\* (SymbolTable.c:144-170).
LEMMA CountIsBindings ==
  ASSUME NEW B \in ChainArray, WellFormed(B)
  PROVE  Cardinality(Cells(B)) = Cardinality(Map!BoundNames(Binding(B)))
  <1> DEFINE Bound == Map!BoundNames(Binding(B))
             cell == [n \in Bound |-> <<hash[n], CHOOSE i \in Matches(B, n) : TRUE>>]
  <1>0. ASSUME NEW h, NEW D, NEW k \in D PROVE <<h, k>> \in {h} \X D
    OBVIOUS
  <1>1. Bound = {n \in Names : Matches(B, n) # {}}
    BY LookupFinds DEF Map!BoundNames, Binding
  <1>2. IsFiniteSet(Bound)
    BY SymbolTableAssumption, FS_Subset DEF Map!BoundNames
  <1>3. ASSUME NEW n \in Bound
        PROVE  /\ cell[n][1] = hash[n]
               /\ cell[n][2] \in Matches(B, n)
               /\ cell[n] \in Cells(B)
    <2> HIDE DEF Bound
    <2>1. cell[n] = <<hash[n], CHOOSE i \in Matches(B, n) : TRUE>>
      OBVIOUS
    <2>2. n \in Names /\ hash[n] \in Buckets /\ Matches(B, n) # {}
      BY <1>1, SymbolTableAssumption
    <2>3. (CHOOSE i \in Matches(B, n) : TRUE) \in Matches(B, n)
      BY <2>2
    <2>4. (CHOOSE i \in Matches(B, n) : TRUE) \in DOMAIN B[hash[n]]
      BY <2>3 DEF Matches
    <2>5. <<hash[n], CHOOSE i \in Matches(B, n) : TRUE>> \in {hash[n]} \X DOMAIN B[hash[n]]
      BY <1>0, <2>4
    <2>6. cell[n] \in Cells(B)
      BY <2>1, <2>2, <2>5 DEF Cells
    <2> QED
      BY <2>1, <2>3, <2>6
  <1>4. cell \in [Bound -> Cells(B)]
    BY <1>3
  <1>5. ASSUME NEW m \in Bound, NEW n \in Bound, cell[m] = cell[n]
        PROVE  m = n
    <2> HIDE DEF cell
    <2>1. hash[m] = hash[n] /\ cell[m][2] \in Matches(B, m) /\ cell[m][2] \in Matches(B, n)
      BY <1>3, <1>5
    <2> QED
      BY <2>1 DEF Matches
  <1>6. ASSUME NEW c \in Cells(B)
        PROVE  \E n \in Bound : cell[n] = c
    <2>0. PICK b \in Buckets : c \in {b} \X DOMAIN B[b]
      BY DEF Cells
    <2>1. PICK i \in DOMAIN B[b] : c = <<b, i>>
      BY <2>0
    <2>2. B[b] \in Seq(Symbol) /\ B[b][i] \in Symbol
      <3>1. B[b] \in Seq(Symbol)
        BY <2>1 DEF ChainArray
      <3>2. i \in 1 .. Len(B[b])
        BY <2>1, <3>1, LenProperties
      <3> QED
        BY <3>1, <3>2, ElementOfSeq
    <2>3. B[b][i].name \in Names /\ hash[B[b][i].name] = b
      BY <2>1, <2>2 DEF WellFormed, Symbol
    <2>4. i \in Matches(B, B[b][i].name)
      BY <2>1, <2>3 DEF Matches
    <2>5. Matches(B, B[b][i].name) = {i}
      BY <2>3, <2>4, LookupFinds
    <2>6. B[b][i].name \in Bound
      BY <2>3, <2>4, <1>1
    <2>7. cell[B[b][i].name] = <<b, i>>
      BY <2>3, <2>5, <2>6
    <2> QED
      BY <2>1, <2>6, <2>7
  <1>7. cell \in Bijection(Bound, Cells(B))
    BY <1>4, <1>5, <1>6, Fun_IsBij
  <1> QED
    BY <1>2, <1>7, FS_Bijection DEF ExistsBijection

-----------------------------------------------------------------------------
\* The table's type invariant and the shape of its chains, together inductive.
IInv == TypeOK /\ ChainsWellFormed

\* addEntity and addRelationship change one array as the map changes one
\* binding, and answer as it does.
LEMMA AddToChains ==
  ASSUME NEW B \in ChainArray, WellFormed(B), NEW n \in Names, NEW d \in Decls,
         NEW B2,
         B2 = IF lookup(B, n) # NULL THEN B ELSE prepend(B, n, d)
  PROVE  /\ B2 \in ChainArray
         /\ WellFormed(B2)
         /\ Binding(B2) = IF Binding(B)[n] = NULL
                          THEN [Binding(B) EXCEPT ![n] = d] ELSE Binding(B)
  BY PrependBinds DEF Binding

\* IInv holds initially and every step of every operation preserves it.
LEMMA IInvInductive ==
  /\ Init => IInv
  /\ IInv /\ [Next]_vars => IInv'
  <1>1. Init => IInv
    BY NullBucketsBindNothing DEF Init, IInv, TypeOK, ChainsWellFormed
  <1>2. ASSUME IInv, [Next]_vars PROVE IInv'
    <2> USE <1>2 DEF IInv, TypeOK, ChainsWellFormed
    <2>1. CASE createSymbolTable
      BY <2>1, NullBucketsBindNothing DEF createSymbolTable
    <2>2. CASE destroySymbolTable
      BY <2>2, NullBucketsBindNothing DEF destroySymbolTable
    <2>3. ASSUME NEW n \in Names, NEW d \in Decls, addEntity(n, d)
          PROVE  IInv'
      <3>1. entities' \in ChainArray /\ WellFormed(entities')
        BY <2>3, AddToChains DEF addEntity, hasEntity, lookupEntity
      <3> QED
        BY <3>1, <2>3 DEF addEntity
    <2>4. ASSUME NEW n \in Names, NEW d \in Decls, addRelationship(n, d)
          PROVE  IInv'
      <3>1. relationships' \in ChainArray /\ WellFormed(relationships')
        BY <2>4, AddToChains DEF addRelationship, hasRelationship, lookupRelationship
      <3> QED
        BY <3>1, <2>4 DEF addRelationship
    <2>5. ASSUME NEW op, NEW argument, NEW value, Answer(op, argument, value)
          PROVE  IInv'
      BY <2>5 DEF Answer
    <2>6. CASE UNCHANGED vars
      BY <2>6 DEF vars
    <2> QED
      BY <2>1, <2>2, <2>3, <2>4, <2>5, <2>6 DEF Next, getEntityCount, getRelationshipCount
  <1> QED
    BY <1>1, <1>2

\* In every reachable state the arrays hold lists of symbols.
THEOREM TypeCorrect == Spec => []TypeOK
  <1>1. IInv => TypeOK
    BY DEF IInv
  <1> QED
    BY IInvInductive, <1>1, PTL DEF Spec

\* In every reachable state each symbol is in the bucket of its name, and no
\* name is there twice (SymbolTable.c:80-93, 112-125).
THEOREM ChainsCorrect == Spec => []ChainsWellFormed
  <1>1. IInv => ChainsWellFormed
    BY DEF IInv
  <1> QED
    BY IInvInductive, <1>1, PTL DEF Spec

\* The map counts with the same operator.
LEMMA SameCardinality == ASSUME NEW S PROVE Map!Cardinality(S) = Cardinality(S)
  BY DEF Map!Cardinality, Cardinality

\* One step of an operation is one step of the map, with the same reply.
LEMMA StepImplementsMap ==
  ASSUME IInv, [Next]_vars
  PROVE  [Map!Next]_(Map!vars)
  <1> USE DEF IInv, TypeOK, ChainsWellFormed
  <1>1. CASE createSymbolTable
    BY <1>1, NullBucketsBindNothing
       DEF createSymbolTable, Map!createSymbolTable, Map!Next, Map!Unbound
  <1>2. CASE destroySymbolTable
    BY <1>2, NullBucketsBindNothing
       DEF destroySymbolTable, Map!destroySymbolTable, Map!Next, Map!Unbound
  <1>3. ASSUME NEW n \in Names, NEW d \in Decls, addEntity(n, d)
        PROVE  Map!Next
    <2>1. Binding(entities') = IF Binding(entities)[n] = NULL
                               THEN [Binding(entities) EXCEPT ![n] = d]
                               ELSE Binding(entities)
      BY <1>3, AddToChains DEF addEntity, hasEntity, lookupEntity
    <2>2. hasEntity(n) <=> Binding(entities)[n] # NULL
      BY DEF hasEntity, lookupEntity, Binding
    <2>3. Map!addEntity(n, d)
      BY <1>3, <2>1, <2>2 DEF addEntity, Map!addEntity
    <2> QED
      BY <2>3 DEF Map!Next
  <1>4. ASSUME NEW n \in Names, NEW d \in Decls, addRelationship(n, d)
        PROVE  Map!Next
    <2>1. Binding(relationships') = IF Binding(relationships)[n] = NULL
                                    THEN [Binding(relationships) EXCEPT ![n] = d]
                                    ELSE Binding(relationships)
      BY <1>4, AddToChains DEF addRelationship, hasRelationship, lookupRelationship
    <2>2. hasRelationship(n) <=> Binding(relationships)[n] # NULL
      BY DEF hasRelationship, lookupRelationship, Binding
    <2>3. Map!addRelationship(n, d)
      BY <1>4, <2>1, <2>2 DEF addRelationship, Map!addRelationship
    <2> QED
      BY <2>3 DEF Map!Next
  <1>5. ASSUME NEW op, NEW argument, NEW value, Answer(op, argument, value)
        PROVE  Map!Answer(op, argument, value)
    BY <1>5 DEF Answer, Map!Answer
  <1>6. ASSUME NEW n \in Names,
               \/ Answer("lookupEntity", n, lookupEntity(n))
               \/ Answer("hasEntity", n, hasEntity(n))
               \/ Answer("lookupRelationship", n, lookupRelationship(n))
               \/ Answer("hasRelationship", n, hasRelationship(n))
        PROVE  Map!Next
    <2>1. /\ Binding(entities)[n] = lookupEntity(n)
          /\ Binding(relationships)[n] = lookupRelationship(n)
      BY DEF Binding, lookupEntity, lookupRelationship
    <2> QED
      BY <1>5, <1>6, <2>1 DEF Map!Next, hasEntity, hasRelationship
  <1>7. CASE getEntityCount
    <2>1. Map!Answer("getEntityCount", NULL,
                     Cardinality(Map!BoundNames(Binding(entities))))
      BY <1>5, <1>7, CountIsBindings DEF getEntityCount
    <2> QED
      BY <2>1, SameCardinality DEF Map!Next
  <1>8. CASE getRelationshipCount
    <2>1. Map!Answer("getRelationshipCount", NULL,
                     Cardinality(Map!BoundNames(Binding(relationships))))
      BY <1>5, <1>8, CountIsBindings DEF getRelationshipCount
    <2> QED
      BY <2>1, SameCardinality DEF Map!Next
  <1>9. CASE UNCHANGED vars
    BY <1>9 DEF vars, Map!vars
  <1> QED
    BY <1>1, <1>2, <1>3, <1>4, <1>6, <1>7, <1>8, <1>9 DEF Next

\* Every behaviour of the hash table is a behaviour of the map: whatever
\* collides, every lookup, test and count answers as SymbolTable.h promises.
THEOREM TableImplementsMap == Spec => ImplementsMap
  <1>1. Init => Map!Init
    BY NullBucketsBindNothing DEF Init, Map!Init
  <1> QED
    BY <1>1, IInvInductive, StepImplementsMap, PTL DEF Spec, ImplementsMap, Map!Spec

\* While the table lives no step rebinds or loses a name, so a pointer taken by
\* an earlier lookup stays the one a later lookup returns.
THEOREM NeverRebinds == Spec => NeverRebound
  <1> DEFINE Stable ==
        created /\ created' =>
          \A n \in Names :
            /\ hasEntity(n) => lookupEntity(n)' = lookupEntity(n)
            /\ hasRelationship(n) => lookupRelationship(n)' = lookupRelationship(n)
  <1>1. ASSUME IInv, [Next]_vars PROVE [Stable]_vars
    <2> SUFFICES ASSUME created, created', NEW n \in Names
                 PROVE  /\ hasEntity(n) => lookupEntity(n)' = lookupEntity(n)
                        /\ hasRelationship(n) => lookupRelationship(n)' = lookupRelationship(n)
      OBVIOUS
    <2> USE DEF hasEntity, hasRelationship, lookupEntity, lookupRelationship
    <2>1. CASE createSymbolTable
      BY <2>1 DEF createSymbolTable
    <2>2. CASE destroySymbolTable
      BY <2>2 DEF destroySymbolTable
    <2>3. ASSUME NEW m \in Names, NEW d \in Decls, addEntity(m, d)
          PROVE  lookup(entities, n) # NULL => lookup(entities', n) = lookup(entities, n)
      <3>1. Binding(entities') = IF Binding(entities)[m] = NULL
                                 THEN [Binding(entities) EXCEPT ![m] = d]
                                 ELSE Binding(entities)
        BY <1>1, <2>3, AddToChains DEF addEntity, IInv, TypeOK, ChainsWellFormed
      <3> QED
        BY <3>1 DEF Binding
    <2>4. ASSUME NEW m \in Names, NEW d \in Decls, addRelationship(m, d)
          PROVE  lookup(relationships, n) # NULL =>
                    lookup(relationships', n) = lookup(relationships, n)
      <3>1. Binding(relationships') = IF Binding(relationships)[m] = NULL
                                      THEN [Binding(relationships) EXCEPT ![m] = d]
                                      ELSE Binding(relationships)
        BY <1>1, <2>4, AddToChains DEF addRelationship, IInv, TypeOK, ChainsWellFormed
      <3> QED
        BY <3>1 DEF Binding
    <2>5. CASE UNCHANGED <<entities, relationships>>
      BY <2>5
    <2>6. \/ createSymbolTable
          \/ destroySymbolTable
          \/ \E m \in Names, d \in Decls : addEntity(m, d) \/ addRelationship(m, d)
          \/ UNCHANGED <<entities, relationships>>
      BY <1>1 DEF Next, vars, Answer, getEntityCount, getRelationshipCount
    <2>7. ASSUME NEW m \in Names, NEW d \in Decls, addEntity(m, d)
          PROVE  relationships' = relationships
      BY <2>7 DEF addEntity
    <2>8. ASSUME NEW m \in Names, NEW d \in Decls, addRelationship(m, d)
          PROVE  entities' = entities
      BY <2>8 DEF addRelationship
    <2> QED
      BY <2>1, <2>2, <2>3, <2>4, <2>5, <2>6, <2>7, <2>8
  <1> QED
    BY <1>1, IInvInductive, PTL DEF Spec, NeverRebound
=============================================================================
