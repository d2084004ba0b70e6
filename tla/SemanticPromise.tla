--------------------------- MODULE SemanticPromise ---------------------------
(***************************************************************************)
(* Which schemas are well formed, said declaratively: what the error       *)
(* messages of the validators forbid, with no symbol table, loop, capacity *)
(* or order in it.  Of a weak entity WeakEntityRules.h asks for more than  *)
(* any message does (WeakEntitiesIdentified of SemanticAnalyzer).          *)
(***************************************************************************)
EXTENDS TypeInference, FiniteSets

NamedOnce(decls) == \A i, j \in DOMAIN decls : decls[i].name = decls[j].name => i = j
NamesUnique(s) == NamedOnce(s.entities) /\ NamedOnce(s.relationships)

DeclaredNames(s) == {s.entities[i].name : i \in DOMAIN s.entities}

-----------------------------------------------------------------------------
(* Inheritance                                                             *)

\* S holds the parent of every entity whose name it holds.
ClosedUnderParent(s, S) ==
    \A i \in DOMAIN s.entities :
        s.entities[i].name \in S => s.entities[i].parent \in S \cup {NULL}

ParentNames(s) == {s.entities[i].parent : i \in DOMAIN s.entities} \ {NULL}

\* The names up the chain from e: the least closed set that holds its parent.
\* e is among them exactly when it inherits from itself.
Ancestors(s, e) ==
    {n \in ParentNames(s) : \A S \in SUBSET ParentNames(s) :
        ClosedUnderParent(s, S) /\ e.parent \in S \cup {NULL} => n \in S}

InheritanceSound(s) ==
    \A i \in DOMAIN s.entities :
        LET e == s.entities[i]
        IN  /\ e.parent \in DeclaredNames(s) \cup {NULL}
            /\ e.name \notin Ancestors(s, e)
            /\ \A j \in DOMAIN s.entities : s.entities[j].name \in Ancestors(s, e) =>
                  \A k \in DOMAIN e.attributes :
                      ~AttributeNamed(s.entities[j].attributes, e.attributes[k].name)

-----------------------------------------------------------------------------
(* Types                                                                   *)

DefaultsTyped(attributes) ==
    \A i \in DOMAIN attributes : \A j \in DOMAIN attributes[i].modifiers :
        LET m == attributes[i].modifiers[j]
        IN  m.type = "MOD_DEFAULT" => inferLiteralType(m.defaultValue.type) = attributes[i].kind

\* A boolean, reached without an error anywhere below.
ProperCondition(expr, attributes) ==
    LET inferred == inferExpressionType(expr, attributes)
    IN  inferred.kind = "TYPE_BOOL" /\ inferred.errors = {}

TypesSound(s) ==
    /\ \A i \in DOMAIN s.entities :
          /\ DefaultsTyped(s.entities[i].attributes)
          /\ \A k \in DOMAIN s.entities[i].assertions :
                ProperCondition(s.entities[i].assertions[k], s.entities[i].attributes)
    /\ \A i \in DOMAIN s.relationships : DefaultsTyped(s.relationships[i].attributes)

-----------------------------------------------------------------------------
(* Keys and weak entities                                                  *)

Owner(e, qid) == IF qid.entity = NULL THEN e.name ELSE qid.entity

\* A key part is a stored attribute of the entity itself, or of any declared
\* entity if e is weak.
KeyPartSound(s, e, qid) ==
    \E i \in DOMAIN s.entities :
        /\ s.entities[i].name = Owner(e, qid)
        /\ s.entities[i].name = e.name \/ e.weak
        /\ AttributeNamed(s.entities[i].attributes, qid.attribute)
        /\ ~HasModifier(lookupAttribute(s.entities[i].attributes, qid.attribute), "MOD_DERIVED")

KeySound(s, e) ==
    LET inline == {i \in DOMAIN e.attributes : HasModifier(e.attributes[i], "MOD_PRIMARY")}
        parts == {<<Owner(e, e.primaryKey[i]), e.primaryKey[i].attribute>> :
                      i \in DOMAIN e.primaryKey}
    IN  CASE e.parent # NULL     -> e.primaryKey = NULL /\ inline = {}
          [] e.parent = NULL /\ e.primaryKey = NULL -> Cardinality(inline) = 1
          [] e.parent = NULL /\ e.primaryKey # NULL ->
                /\ inline = {}
                /\ e.primaryKey # <<>>
                /\ Cardinality(parts) = Len(e.primaryKey)
                /\ \A i \in DOMAIN e.primaryKey : KeyPartSound(s, e, e.primaryKey[i])

ParticipantNames(r) == {r.participants[i].entityName : i \in DOMAIN r.participants}

\* An explicit key of a weak entity asks for a relationship in the schema, and
\* for one with each entity the key names.  That is all the messages ask for: a weak
\* entity with an inline key needs no relationship, and one whose clause names
\* only its own attributes needs one between any entities.
WeakSound(s, e) ==
    e.weak /\ e.primaryKey # NULL =>
        /\ s.relationships # <<>>
        /\ \A i \in DOMAIN e.primaryKey : e.primaryKey[i].entity # NULL =>
              \E j \in DOMAIN s.relationships :
                  {e.name, e.primaryKey[i].entity} \subseteq ParticipantNames(s.relationships[j])

KeyTypesSound(e) ==
    \A i \in DOMAIN e.attributes : HasModifier(e.attributes[i], "MOD_PRIMARY") =>
        e.attributes[i].kind \in {"TYPE_UUID", "TYPE_STRING", "TYPE_INTEGER"}

-----------------------------------------------------------------------------
(* Relationships                                                           *)

RelationshipSound(s, r) ==
    /\ Len(r.participants) >= 2
    /\ Cardinality(ParticipantNames(r)) = Len(r.participants)
    /\ ParticipantNames(r) \subseteq DeclaredNames(s)
    /\ \A i \in DOMAIN s.entities, j \in DOMAIN r.participants :
          s.entities[i].weak /\ s.entities[i].name = r.participants[j].entityName =>
              r.participants[j].participation = "PARTICIPATION_TOTAL"
    /\ ~\E i \in DOMAIN r.attributes : HasModifier(r.attributes[i], "MOD_PRIMARY")

SchemaSound(s) ==
    /\ NamesUnique(s)
    /\ InheritanceSound(s)
    /\ TypesSound(s)
    /\ \A i \in DOMAIN s.entities : /\ KeySound(s, s.entities[i])
                                    /\ WeakSound(s, s.entities[i])
                                    /\ KeyTypesSound(s.entities[i])
    /\ \A i \in DOMAIN s.relationships : RelationshipSound(s, s.relationships[i])

-----------------------------------------------------------------------------
(* Schemas on which there is no verdict                                    *)

\* n inherits from itself.
OnCycle(s, n) ==
    \E i \in DOMAIN s.entities : s.entities[i].name = n /\ n \in Ancestors(s, s.entities[i])

\* An entity that inherits from a cycle it is not on, and has an attribute that
\* no entity of its chain has: the walk of the redefinition rule never ends
\* (InheritanceRules.c:108).
Diverges(s) ==
    /\ NamesUnique(s)
    /\ \E i \in DOMAIN s.entities :
          LET e == s.entities[i]
          IN  /\ \E n \in Ancestors(s, e) : OnCycle(s, n)
              /\ \E k \in DOMAIN e.attributes :
                    \A j \in DOMAIN s.entities : s.entities[j].name \in Ancestors(s, e) =>
                        ~AttributeNamed(s.entities[j].attributes, e.attributes[k].name)
=============================================================================
