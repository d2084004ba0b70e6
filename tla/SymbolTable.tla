----------------------------- MODULE SymbolTable -----------------------------
(***************************************************************************)
(* SymbolTable.c: two arrays of HASH_TABLE_SIZE buckets, each a linked     *)
(* list of symbols to which a new symbol is prepended.  Any operation may  *)
(* be called at any time on an allocated table, in any order.              *)
(***************************************************************************)
EXTENDS Integers, Sequences, FiniteSets

CONSTANTS
    Names, Decls, NULL,
    HASH_TABLE_SIZE,    \* 128 in the code
    hash                \* hash[n]: the bucket of name n (djb2 in the code)

ASSUME SymbolTableAssumption ==
    /\ IsFiniteSet(Names)
    /\ NULL \notin Decls
    /\ HASH_TABLE_SIZE \in Nat \ {0}
    /\ hash \in [Names -> 0 .. HASH_TABLE_SIZE - 1]

VARIABLES
    created,        \* the SymbolTable is allocated
    entities,       \* struct SymbolTable's array of entity chains
    relationships,  \* struct SymbolTable's array of relationship chains
    reply           \* <<operation, argument, result>> of the last call

vars == <<created, entities, relationships, reply>>

Buckets == 0 .. HASH_TABLE_SIZE - 1
Symbol == [name : Names, decl : Decls]
NullBuckets == [b \in Buckets |-> <<>>]

-----------------------------------------------------------------------------
(* The list traversals the exported functions share.                       *)

\* The positions of the chain of `name` whose key is `name`.
Matches(buckets, name) ==
    {i \in DOMAIN buckets[hash[name]] : buckets[hash[name]][i].name = name}

\* The walk stops at the first match.
lookup(buckets, name) ==
    IF Matches(buckets, name) = {} THEN NULL
    ELSE LET first == CHOOSE i \in Matches(buckets, name) :
                          \A j \in Matches(buckets, name) : i <= j
         IN  buckets[hash[name]][first].decl

\* Mutant: symbol->entity is not assigned.
prependUnassigned(buckets, name, decl) ==
    [buckets EXCEPT ![hash[name]] = <<[name |-> name, decl |-> NULL]>> \o @]

\* Mutant: symbol->next is not linked to the old head.
prependUnlinked(buckets, name, decl) ==
    [buckets EXCEPT ![hash[name]] = <<[name |-> name, decl |-> decl]>>]

prepend(buckets, name, decl) ==
    [buckets EXCEPT ![hash[name]] = <<[name |-> name, decl |-> decl]>> \o @]

\* The cells the counting loops visit, one increment each.
Cells(buckets) == UNION {{b} \X DOMAIN buckets[b] : b \in Buckets}

-----------------------------------------------------------------------------
lookupEntity(name) == lookup(entities, name)
lookupRelationship(name) == lookup(relationships, name)
hasEntity(name) == lookupEntity(name) # NULL
hasRelationship(name) == lookupRelationship(name) # NULL

Init ==
    /\ created = FALSE
    /\ entities = NullBuckets
    /\ relationships = NullBuckets
    /\ reply = <<>>

createSymbolTable ==
    /\ ~created
    /\ created' = TRUE
    /\ entities' = NullBuckets
    /\ relationships' = NullBuckets
    /\ reply' = <<"createSymbolTable">>

\* Both loops free every cell, then the table itself is freed.
destroySymbolTable ==
    /\ created
    /\ created' = FALSE
    /\ entities' = NullBuckets
    /\ relationships' = NullBuckets
    /\ reply' = <<"destroySymbolTable">>

\* Mutant: no test for an earlier declaration.
addEntityUnchecked(name, decl) ==
    /\ created
    /\ reply' = <<"addEntity", name, TRUE>>
    /\ entities' = prepend(entities, name, decl)
    /\ UNCHANGED <<created, relationships>>

addEntity(name, decl) ==
    /\ created
    /\ reply' = <<"addEntity", name, ~hasEntity(name)>>
    /\ entities' = IF hasEntity(name) THEN entities ELSE prepend(entities, name, decl)
    /\ UNCHANGED <<created, relationships>>

\* Mutant: the copy of addEntity that still asks hasEntity.
addRelationshipAsksEntities(name, decl) ==
    /\ created
    /\ reply' = <<"addRelationship", name, ~hasEntity(name)>>
    /\ relationships' = IF hasEntity(name) THEN relationships
                        ELSE prepend(relationships, name, decl)
    /\ UNCHANGED <<created, entities>>

addRelationship(name, decl) ==
    /\ created
    /\ reply' = <<"addRelationship", name, ~hasRelationship(name)>>
    /\ relationships' = IF hasRelationship(name) THEN relationships
                        ELSE prepend(relationships, name, decl)
    /\ UNCHANGED <<created, entities>>

Answer(op, argument, value) ==
    /\ created
    /\ reply' = <<op, argument, value>>
    /\ UNCHANGED <<created, entities, relationships>>

getEntityCount == Answer("getEntityCount", NULL, Cardinality(Cells(entities)))
getRelationshipCount ==
    Answer("getRelationshipCount", NULL, Cardinality(Cells(relationships)))

Next ==
    \/ createSymbolTable
    \/ destroySymbolTable
    \/ \E name \in Names, decl \in Decls : \/ addEntity(name, decl)
                                           \/ addRelationship(name, decl)
    \/ \E name \in Names :
          \/ Answer("lookupEntity", name, lookupEntity(name))
          \/ Answer("hasEntity", name, hasEntity(name))
          \/ Answer("lookupRelationship", name, lookupRelationship(name))
          \/ Answer("hasRelationship", name, hasRelationship(name))
    \/ getEntityCount
    \/ getRelationshipCount

Spec == Init /\ [][Next]_vars

-----------------------------------------------------------------------------
(* Every chain is a list of symbols.                                       *)
ChainArray == [Buckets -> Seq(Symbol)]
TypeOK ==
    /\ created \in BOOLEAN
    /\ entities \in ChainArray
    /\ relationships \in ChainArray

\* The lookup of a name walks one chain only, and stops at its first match:
\* both are right only while each symbol hangs in the bucket of its own name
\* (SymbolTable.c:96) and no name is in a chain twice (SymbolTable.c:81).
WellFormed(buckets) ==
    \A b \in Buckets : \A i, j \in DOMAIN buckets[b] :
        /\ hash[buckets[b][i].name] = b
        /\ buckets[b][i].name = buckets[b][j].name => i = j
ChainsWellFormed == WellFormed(entities) /\ WellFormed(relationships)

\* A live table never rebinds or loses a name, whatever collides with it:
\* the validators keep Entity pointers they got from earlier lookups.
NeverRebound ==
    [][created /\ created' =>
        \A n \in Names :
            /\ hasEntity(n) => lookupEntity(n)' = lookupEntity(n)
            /\ hasRelationship(n) => lookupRelationship(n)' = lookupRelationship(n)]_vars

\* The hash table is the map of SymbolTable.h: every reply, the two counts
\* included, is the one the map would give.
Binding(buckets) == [n \in Names |-> lookup(buckets, n)]
Map == INSTANCE SymbolMap
           WITH entityOf <- Binding(entities), relationshipOf <- Binding(relationships)
ImplementsMap == Map!Spec
=============================================================================
