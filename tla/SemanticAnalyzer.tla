--------------------------- MODULE SemanticAnalyzer ---------------------------
(***************************************************************************)
(* executeSemanticAnalysis and the validators it calls, on any schema the  *)
(* front end can hand over.  The symbol table is the map of SymbolMap      *)
(* (which SymbolTable implements).  One action is one iteration of a loop  *)
(* over the schema's entities or relationships; the two loops up the       *)
(* inheritance chain, whose bound is not the length of a list, take one    *)
(* step per iteration.                                                     *)
(***************************************************************************)
EXTENDS ValidationRules, SemanticPromise

CONSTANTS
    Schemas,                \* the syntax trees to analyze
    MAX_INHERITANCE_DEPTH   \* 100 in ValidationConstants.h

ASSUME SemanticAssumption ==
    /\ NULL \notin Names
    /\ NULL \notin Nat
    /\ NULL \notin {"SEMANTIC_OK", "SEMANTIC_ERROR", "ABORTED"}
    /\ Schemas \subseteq Schema
    /\ MAX_INHERITANCE_DEPTH \in Nat
    /\ MAX_RELATIONSHIP_PARTICIPANTS \in Nat
    /\ MAX_WEAK_ENTITY_REFERENCES \in Nat

VARIABLES
    schema,         \* the analyzed tree: nothing writes to it
    created, entityOf, relationshipOf, reply,   \* the symbol table
    pc,             \* the loop that runs
    pos,            \* its place in the list of entities or relationships
    attr,           \* the attribute of validateInheritanceAttributeRedefinition
    walk,           \* currentName or parentName: the next name up the chain
    depth,          \* the counter of validateInheritanceCycles
    ok,             \* the `ok` of the loop that runs
    hasErrors,      \* ctx.hasErrors
    diagnostics,    \* what was logged with logError
    status          \* NULL until the analysis ends

tableVars == <<created, entityOf, relationshipOf, reply>>
walkVars == <<attr, walk, depth>>
vars == <<schema, tableVars, pc, pos, walkVars, ok, hasErrors, diagnostics, status>>

Symbols == INSTANCE SymbolMap WITH Decls <- Nat

Loops == {"start", "declareEntities", "declareRelationships",
          "entityTypes", "relationshipTypes",
          "entities", "cycle", "redefinition", "entityRules",
          "relationships", "verdict", "done"}

entity == schema.entities[pos]
relationship == schema.relationships[pos]
declared(n) == n # NULL /\ entityOf[n] # NULL
ancestor(n) == schema.entities[entityOf[n]]

-----------------------------------------------------------------------------
\* A rule that logs D fails, and a failing rule sets ctx.hasErrors.
Report(D) ==
    /\ diagnostics' = diagnostics \cup D
    /\ hasErrors' = (hasErrors \/ D # {})
    /\ ok' = (ok /\ D = {})

Silent == UNCHANGED <<ok, hasErrors, diagnostics>>

\* Mutant: positions start at 0.
EnterAtZero(loop) ==
    /\ pc' = loop
    /\ pos' = 0
    /\ ok' = TRUE

\* A loop over a list is over: the next one starts with its own `ok`.
Enter(loop) ==
    /\ pc' = loop
    /\ pos' = 1
    /\ ok' = TRUE

Init ==
    /\ schema \in Schemas
    /\ Symbols!Init
    /\ pc = "start"
    /\ pos = 1
    /\ attr = 1 /\ walk = NULL /\ depth = 0
    /\ ok = TRUE
    /\ hasErrors = FALSE
    /\ diagnostics = {}
    /\ status = NULL

createTable ==
    /\ pc = "start"
    /\ Symbols!createSymbolTable
    /\ Enter("declareEntities")
    /\ UNCHANGED <<schema, walkVars, hasErrors, diagnostics, status>>

-----------------------------------------------------------------------------
(* buildSymbolTable                                                        *)

declareEntity ==
    /\ pc = "declareEntities" /\ pos <= Len(schema.entities)
    /\ Symbols!addEntity(entity.name, pos)
    /\ Report(IF declared(entity.name)
              THEN {<<"duplicateEntity", entity.name, pos>>} ELSE {})
    /\ pos' = pos + 1
    /\ UNCHANGED <<schema, pc, walkVars, status>>

entitiesDeclared ==
    /\ pc = "declareEntities" /\ pos > Len(schema.entities)
    /\ pc' = "declareRelationships"
    /\ pos' = 1
    /\ UNCHANGED <<schema, tableVars, walkVars, ok, hasErrors, diagnostics, status>>

declareRelationship ==
    /\ pc = "declareRelationships" /\ pos <= Len(schema.relationships)
    /\ Symbols!addRelationship(relationship.name, pos)
    /\ Report(IF relationshipOf[relationship.name] # NULL
              THEN {<<"duplicateRelationship", relationship.name, pos>>} ELSE {})
    /\ pos' = pos + 1
    /\ UNCHANGED <<schema, pc, walkVars, status>>

\* Mutant: the result of buildSymbolTable is not looked at.
symbolTableBuiltAnyway ==
    /\ pc = "declareRelationships" /\ pos > Len(schema.relationships)
    /\ Enter("entityTypes")
    /\ UNCHANGED <<schema, tableVars, walkVars, hasErrors, diagnostics, status>>

symbolTableBuilt ==
    /\ pc = "declareRelationships" /\ pos > Len(schema.relationships)
    /\ \/ ok /\ Enter("entityTypes") /\ status' = NULL
       \/ ~ok /\ pc' = "done" /\ status' = "SEMANTIC_ERROR" /\ UNCHANGED <<pos, ok>>
    /\ UNCHANGED <<schema, tableVars, walkVars, hasErrors, diagnostics>>

-----------------------------------------------------------------------------
(* validateAllTypes                                                        *)

checkEntityTypes ==
    /\ pc = "entityTypes" /\ pos <= Len(schema.entities)
    /\ LET D == checkDefaults(entity) \cup checkAssertions(entity)
       IN  /\ diagnostics' = diagnostics \cup D \cup InferenceLog(entity)
           /\ hasErrors' = (hasErrors \/ D # {})
           /\ ok' = (ok /\ D = {})
    /\ pos' = pos + 1
    /\ UNCHANGED <<schema, tableVars, pc, walkVars, status>>

entityTypesChecked ==
    /\ pc = "entityTypes" /\ pos > Len(schema.entities)
    /\ pc' = "relationshipTypes"
    /\ pos' = 1
    /\ UNCHANGED <<schema, tableVars, walkVars, ok, hasErrors, diagnostics, status>>

checkRelationshipTypes ==
    /\ pc = "relationshipTypes" /\ pos <= Len(schema.relationships)
    /\ IF ReadsWildPointer(relationship)
       THEN pc' = "done" /\ status' = "ABORTED" /\ UNCHANGED pos /\ Silent
       ELSE /\ Report(checkRelationshipDefaults(relationship))
            /\ pos' = pos + 1
            /\ UNCHANGED <<pc, status>>
    /\ UNCHANGED <<schema, tableVars, walkVars>>

relationshipTypesChecked ==
    /\ pc = "relationshipTypes" /\ pos > Len(schema.relationships)
    /\ Enter("entities")
    /\ UNCHANGED <<schema, tableVars, walkVars, hasErrors, diagnostics, status>>

-----------------------------------------------------------------------------
(* validateEntities: validateSingleEntity                                  *)

\* validateInheritanceParentExists, and the entry of the walk.
validateParentExists ==
    /\ pc = "entities" /\ pos <= Len(schema.entities)
    /\ entity.parent # NULL
    /\ Report(IF declared(entity.parent) THEN {}
              ELSE {<<"parentUnknown", entity.name, entity.parent>>})
    /\ pc' = "cycle"
    /\ walk' = entity.parent
    /\ depth' = 0
    /\ UNCHANGED <<schema, tableVars, pos, attr, status>>

skipInheritance ==
    /\ pc = "entities" /\ pos <= Len(schema.entities)
    /\ entity.parent = NULL
    /\ pc' = "entityRules"
    /\ UNCHANGED <<schema, tableVars, pos, walkVars, ok, hasErrors, diagnostics, status>>

\* The walk is over: validateInheritanceAttributeRedefinition starts its own.
WalkOver ==
    /\ pc' = "redefinition"
    /\ walk' = entity.parent
    /\ attr' = 1

\* Mutant: the counter stays where it is.
notDeeper == depth

\* The counter after the iteration.
Deeper == IF walk = NULL THEN depth ELSE depth + 1
TooDeep == Deeper > MAX_INHERITANCE_DEPTH
BackAtStart == walk = entity.name

\* One iteration of the loop of validateInheritanceCycles.
cycleStep ==
    /\ pc = "cycle"
    /\ depth' = Deeper
    /\ \/ /\ walk # NULL /\ (TooDeep \/ BackAtStart)
          /\ Report({<<"inheritanceCycle", entity.name, NULL>>})
          /\ WalkOver
       \/ /\ walk = NULL \/ (~TooDeep /\ ~BackAtStart)
          /\ ~declared(walk)
          /\ Silent
          /\ WalkOver
       \/ /\ declared(walk) /\ ~TooDeep /\ ~BackAtStart
          /\ Silent
          /\ walk' = ancestor(walk).parent
          /\ UNCHANGED <<pc, attr>>
    /\ UNCHANGED <<schema, tableVars, pos, status>>

attribute == entity.attributes[attr]

\* Mutant: an attribute is looked for in the parent only.
redefinitionStepOfParent ==
    /\ pc = "redefinition" /\ attr <= Len(entity.attributes)
    /\ \/ declared(walk) /\ AttributeNamed(ancestor(walk).attributes, attribute.name)
          /\ Report({<<"attributeRedefined", entity.name, attr>>})
       \/ ~declared(walk) /\ Silent
       \/ declared(walk) /\ ~AttributeNamed(ancestor(walk).attributes, attribute.name)
          /\ Silent
    /\ attr' = attr + 1
    /\ UNCHANGED <<schema, tableVars, pc, pos, walk, depth, status>>

\* One iteration of the inner loop of validateInheritanceAttributeRedefinition.
redefinitionStep ==
    /\ pc = "redefinition" /\ attr <= Len(entity.attributes)
    /\ \/ /\ ~declared(walk)
          /\ Silent
          /\ attr' = attr + 1
          /\ walk' = entity.parent
       \/ /\ declared(walk)
          /\ AttributeNamed(ancestor(walk).attributes, attribute.name)
          /\ Report({<<"attributeRedefined", entity.name, attr>>})
          /\ attr' = attr + 1
          /\ walk' = entity.parent
       \/ /\ declared(walk)
          /\ ~AttributeNamed(ancestor(walk).attributes, attribute.name)
          /\ Silent
          /\ walk' = ancestor(walk).parent
          /\ UNCHANGED attr
    /\ UNCHANGED <<schema, tableVars, pc, pos, depth, status>>

redefinitionsChecked ==
    /\ pc = "redefinition" /\ attr > Len(entity.attributes)
    /\ pc' = "entityRules"
    /\ UNCHANGED <<schema, tableVars, pos, walkVars, ok, hasErrors, diagnostics, status>>

\* Primary key, weak entity and modifier rules.
validateEntityRules ==
    /\ pc = "entityRules"
    /\ IF OverrunsSeen(entity)
       THEN pc' = "done" /\ status' = "ABORTED" /\ UNCHANGED pos /\ Silent
       ELSE /\ Report(entityRules(schema, entityOf, entity))
            /\ pc' = "entities"
            /\ pos' = pos + 1
            /\ UNCHANGED status
    /\ UNCHANGED <<schema, tableVars, walkVars>>

entitiesValidated ==
    /\ pc = "entities" /\ pos > Len(schema.entities)
    /\ hasErrors' = (hasErrors \/ ~ok)
    /\ Enter("relationships")
    /\ UNCHANGED <<schema, tableVars, walkVars, diagnostics, status>>

-----------------------------------------------------------------------------
(* validateRelationships: validateSingleRelationship, and the verdict      *)

validateRelationship ==
    /\ pc = "relationships" /\ pos <= Len(schema.relationships)
    /\ Report(relationshipRules(schema, entityOf, relationship))
    /\ pos' = pos + 1
    /\ UNCHANGED <<schema, tableVars, pc, walkVars, status>>

relationshipsValidated ==
    /\ pc = "relationships" /\ pos > Len(schema.relationships)
    /\ hasErrors' = (hasErrors \/ ~ok)
    /\ Enter("verdict")
    /\ UNCHANGED <<schema, tableVars, walkVars, diagnostics, status>>

\* Mutant: the verdict of the last validator.
verdictOfLastLoop ==
    /\ pc = "verdict"
    /\ pc' = "done"
    /\ status' = IF ~ok THEN "SEMANTIC_ERROR" ELSE "SEMANTIC_OK"
    /\ UNCHANGED <<schema, tableVars, pos, walkVars, ok, hasErrors, diagnostics>>

verdict ==
    /\ pc = "verdict"
    /\ pc' = "done"
    /\ status' = IF hasErrors THEN "SEMANTIC_ERROR" ELSE "SEMANTIC_OK"
    /\ UNCHANGED <<schema, tableVars, pos, walkVars, ok, hasErrors, diagnostics>>

\* The function has returned (or the process is gone).
returned == pc = "done" /\ UNCHANGED vars

Next ==
    \/ createTable
    \/ declareEntity \/ entitiesDeclared
    \/ declareRelationship \/ symbolTableBuilt
    \/ checkEntityTypes \/ entityTypesChecked
    \/ checkRelationshipTypes \/ relationshipTypesChecked
    \/ validateParentExists \/ skipInheritance
    \/ cycleStep \/ redefinitionStep \/ redefinitionsChecked
    \/ validateEntityRules \/ entitiesValidated
    \/ validateRelationship \/ relationshipsValidated
    \/ verdict
    \/ returned

\* The program runs alone and is never blocked: it takes its next step.
Spec == Init /\ [][Next]_vars /\ WF_vars(Next)
-----------------------------------------------------------------------------
TypeOK ==
    /\ schema \in Schema
    /\ created \in BOOLEAN
    /\ entityOf \in [Names -> Nat \cup {NULL}]
    /\ relationshipOf \in [Names -> Nat \cup {NULL}]
    /\ pc \in Loops
    /\ pos \in Nat \ {0} /\ attr \in Nat \ {0}
    /\ walk \in Names \cup {NULL}
    /\ depth \in Nat
    /\ ok \in BOOLEAN /\ hasErrors \in BOOLEAN
    /\ status \in {NULL, "SEMANTIC_OK", "SEMANTIC_ERROR", "ABORTED"}

\* Once the table is built, each name is bound to the one entity that declares
\* it: every validator may take "bound" for "declared" (SemanticAnalyzer.c:59
\* returns before the first validator if a name is declared twice).
Building == {"start", "declareEntities", "declareRelationships"}
TableIsSchema ==
    pc \notin Building \cup {"done"} =>
        /\ NamesUnique(schema)
        /\ \A n \in Names : entityOf[n] = NULL <=> n \notin DeclaredNames(schema)
        /\ \A i \in DOMAIN schema.entities : entityOf[schema.entities[i].name] = i

\* The verdict is the errors the rules reported: no validator's failure is lost
\* between its own `ok`, ctx.hasErrors and the status that is returned
\* (SemanticAnalyzer.c:59-72), and none is invented.
Reported == {d \in diagnostics : d[1] # "inference"}
ErrorsDecideVerdict ==
    /\ hasErrors <=> Reported # {}
    /\ ~ok => hasErrors
    /\ status = "SEMANTIC_OK" => Reported = {}
    /\ status = "SEMANTIC_ERROR" => Reported # {}

\* An accepted schema has sound inheritance: all parents declared, no entity
\* its own ancestor, no attribute of an ancestor redefined, however long the
\* chains are and in whatever order the entities are declared
\* (InheritanceRules.c).
AcceptedInheritanceSound == status = "SEMANTIC_OK" => InheritanceSound(schema)

\* The analyzer gives the verdict of the declarative rules, or crashes and
\* gives none.  The rules are those of the error messages: what a header asks for
\* beyond them is not in SchemaSound (WeakEntityRules.h:8, WeakEntitiesIdentified).
Outcome == INSTANCE Verdict WITH
    Sound <- SchemaSound,
    status <- IF status = "ABORTED" THEN NULL ELSE status
VerdictIsRight == Outcome!Spec

\* A default modifier always has its value (BisonActions.c:244).
DefaultsValued(attributes) ==
    \A i \in DOMAIN attributes : \A j \in DOMAIN attributes[i].modifiers :
        attributes[i].modifiers[j].type = "MOD_DEFAULT" =>
            attributes[i].modifiers[j].defaultValue # NULL

LabelsTellApart(e) ==
    \A i, j \in DOMAIN e.primaryKey :
        PKLabel(e, e.primaryKey[i]) = PKLabel(e, e.primaryKey[j]) =>
            /\ Owner(e, e.primaryKey[i]) = Owner(e, e.primaryKey[j])
            /\ e.primaryKey[i].attribute = e.primaryKey[j].attribute

OrdinaryEntity(e) ==
    /\ DefaultsValued(e.attributes)
    /\ \A k \in DOMAIN e.assertions :
          inferExpressionType(e.assertions[k], e.attributes).kind = "TYPE_BOOL" =>
              ProperCondition(e.assertions[k], e.attributes)
    /\ e.primaryKey # NULL =>
          /\ LabelsTellApart(e)
          /\ Cardinality({e.primaryKey[i].entity : i \in DOMAIN e.primaryKey} \ {NULL})
                 <= MAX_WEAK_ENTITY_REFERENCES

OrdinaryRelationship(r) ==
    /\ DefaultsValued(r.attributes)
    /\ \A d \in RelationshipDefaults(r) :
          d[1] \in MistypedDefaults(r.attributes) \/ ReadsWildPointer(r)
    /\ Len(r.participants) <= MAX_RELATIONSHIP_PARTICIPANTS + 1

\* A schema with none of the exceptions to the promise: a mistake of a condition
\* that a comparison hides (TypeInference.c:27), a default 0 of a relationship's integer
\* (TypeChecker.c:82), two parts of a key that are cut to one label (EntityPKRules.c:170),
\* more references, participants or ancestors than a rule looks at
\* (WeakEntityRules.c:54, RelationshipParticipantRules.c:75, InheritanceRules.c:55).
Ordinary(s) ==
    /\ Len(s.entities) <= MAX_INHERITANCE_DEPTH + 1
    /\ \A i \in DOMAIN s.entities : OrdinaryEntity(s.entities[i])
    /\ \A i \in DOMAIN s.relationships : OrdinaryRelationship(s.relationships[i])

-----------------------------------------------------------------------------
(* What the comments of the code say and the code does not do              *)

\* Every analysis ends (InheritanceRules.h:13: cycles are detected, direct or
\* indirect).
EveryAnalysisEnds == <>(status # NULL)

\* A cycle is reported only for an entity whose chain has one
\* (InheritanceRules.c:45: a longer walk than there are entities is a cycle).
OnlyCyclesReported ==
    \A i \in DOMAIN schema.entities :
        LET e == schema.entities[i]
        IN  <<"inheritanceCycle", e.name, NULL>> \in diagnostics =>
                \E n \in Ancestors(schema, e) : OnCycle(schema, n)

\* The conditions of an accepted schema refer to attributes only and have the
\* type boolean without an error anywhere below (TypeInference.c:69: an unknown
\* identifier is an error; test reject/06-unknown_identifier).
AcceptedTypesSound == status = "SEMANTIC_OK" => TypesSound(schema)

\* A mismatch is reported only for a default of another type than its
\* attribute's (TypeChecker.c:86).
OnlyMismatchesReported ==
    \A i \in DOMAIN schema.relationships :
        LET r == schema.relationships[i]
        IN  \A k \in DOMAIN r.attributes :
                <<"relationshipDefaultTypeMismatch", r.name, k>> \in diagnostics =>
                    k \in MistypedDefaults(r.attributes)

\* The headers of the validators hold of an accepted schema: a weak entity takes part
\* in some relationship that identifies it (WeakEntityRules.h:8: validates that weak
\* entities have identifying relationships).
WeakEntitiesIdentified ==
    status = "SEMANTIC_OK" =>
        \A e \in {schema.entities[i] : i \in DOMAIN schema.entities} : e.weak =>
            \E j \in DOMAIN schema.relationships :
                e.name \in ParticipantNames(schema.relationships[j])

-----------------------------------------------------------------------------
\* The analysis of a schema ends unless the schema diverges, those with cycles of
\* every other kind included, and one that diverges never gets a verdict
\* (InheritanceRules.c:52, 108).
Terminates ==
    /\ (pc = "start" /\ ~Diverges(schema)) ~> (status # NULL)
    /\ []((status # NULL /\ status # "ABORTED") => ~Diverges(schema))
=============================================================================
