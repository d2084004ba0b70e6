------------------------------ MODULE SymbolMap ------------------------------
(***************************************************************************)
(* What SymbolTable.h promises, with no hashing in it: two name spaces,    *)
(* one for entities and one for relationships.  The first declaration of a *)
(* name binds it, a later one is refused, and nothing is ever unbound      *)
(* before the table is destroyed.  SymbolTable implements this             *)
(* specification; SemanticAnalyzer is written against it.                  *)
(***************************************************************************)
EXTENDS Integers, FiniteSets

CONSTANTS
    Names,      \* the identifiers of the program
    Decls,      \* the Entity and Relationship nodes of the syntax tree
    NULL        \* the null pointer

VARIABLES
    created,        \* the table is allocated
    entityOf,       \* name |-> the entity it is bound to, or NULL
    relationshipOf, \* name |-> the relationship it is bound to, or NULL
    reply           \* <<operation, argument, result>> of the last call

vars == <<created, entityOf, relationshipOf, reply>>

Unbound == [n \in Names |-> NULL]
BoundNames(binding) == {n \in Names : binding[n] # NULL}

Init ==
    /\ created = FALSE
    /\ entityOf = Unbound
    /\ relationshipOf = Unbound
    /\ reply = <<>>

createSymbolTable ==
    /\ ~created
    /\ created' = TRUE
    /\ entityOf' = Unbound
    /\ relationshipOf' = Unbound
    /\ reply' = <<"createSymbolTable">>

\* Freed memory holds no binding.
destroySymbolTable ==
    /\ created
    /\ created' = FALSE
    /\ entityOf' = Unbound
    /\ relationshipOf' = Unbound
    /\ reply' = <<"destroySymbolTable">>

addEntity(name, decl) ==
    /\ created
    /\ reply' = <<"addEntity", name, entityOf[name] = NULL>>
    /\ entityOf' = IF entityOf[name] = NULL
                   THEN [entityOf EXCEPT ![name] = decl] ELSE entityOf
    /\ UNCHANGED <<created, relationshipOf>>

addRelationship(name, decl) ==
    /\ created
    /\ reply' = <<"addRelationship", name, relationshipOf[name] = NULL>>
    /\ relationshipOf' = IF relationshipOf[name] = NULL
                         THEN [relationshipOf EXCEPT ![name] = decl] ELSE relationshipOf
    /\ UNCHANGED <<created, entityOf>>

\* An operation that only reads the table.
Answer(op, argument, value) ==
    /\ created
    /\ reply' = <<op, argument, value>>
    /\ UNCHANGED <<created, entityOf, relationshipOf>>

Next ==
    \/ createSymbolTable
    \/ destroySymbolTable
    \/ \E name \in Names, decl \in Decls : \/ addEntity(name, decl)
                                           \/ addRelationship(name, decl)
    \/ \E name \in Names :
          \/ Answer("lookupEntity", name, entityOf[name])
          \/ Answer("hasEntity", name, entityOf[name] # NULL)
          \/ Answer("lookupRelationship", name, relationshipOf[name])
          \/ Answer("hasRelationship", name, relationshipOf[name] # NULL)
    \/ Answer("getEntityCount", NULL, Cardinality(BoundNames(entityOf)))
    \/ Answer("getRelationshipCount", NULL, Cardinality(BoundNames(relationshipOf)))

Spec == Init /\ [][Next]_vars
=============================================================================
