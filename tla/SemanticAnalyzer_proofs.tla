------------------------ MODULE SemanticAnalyzer_proofs ------------------------
(***************************************************************************)
(* What the analyzer guarantees for every set of schemas, every depth      *)
(* limit and every capacity of the rules' arrays.  The inductive invariant *)
(* grows with the questions: the symbol table up to the declaration that   *)
(* is next, the agreement of the three ways in which a failure is          *)
(* reported, what the two walks have seen of the chain, and at last what   *)
(* every rule that has passed says of the schema.                          *)
(***************************************************************************)
EXTENDS SemanticAnalyzer, TLAPS, FiniteSetTheorems

\* The fields the walks and the table read, with their types.
LEMMA EntityFields ==
  ASSUME NEW e \in Entity
  PROVE  /\ e.name \in Names
         /\ e.parent \in Names \cup {NULL}
         /\ e.attributes \in Seq(Attribute)
  BY DEF Entity

LEMMA SchemaFields ==
  ASSUME NEW s \in Schema
  PROVE  /\ s.entities \in Seq(Entity)
         /\ s.relationships \in Seq(Relationship)
         /\ Len(s.entities) \in Nat /\ DOMAIN s.entities = 1 .. Len(s.entities)
         /\ Len(s.relationships) \in Nat
         /\ DOMAIN s.relationships = 1 .. Len(s.relationships)
         /\ \A i \in DOMAIN s.entities :
               /\ s.entities[i] \in Entity
               /\ s.entities[i].name \in Names
               /\ s.entities[i].parent \in Names \cup {NULL}
         /\ \A i \in DOMAIN s.relationships : s.relationships[i].name \in Names
  <1>1. s.entities \in Seq(Entity) /\ s.relationships \in Seq(Relationship)
    BY DEF Schema
  <1>2. /\ Len(s.entities) \in Nat /\ DOMAIN s.entities = 1 .. Len(s.entities)
        /\ Len(s.relationships) \in Nat
        /\ DOMAIN s.relationships = 1 .. Len(s.relationships)
    BY <1>1
  <1>3. \A i \in DOMAIN s.entities : s.entities[i] \in Entity
    BY <1>1, <1>2
  <1>4. \A i \in DOMAIN s.relationships : s.relationships[i] \in Relationship
    BY <1>1, <1>2
  <1>5. \A r \in Relationship : r.name \in Names
    BY DEF Relationship
  <1> QED
    BY <1>1, <1>2, <1>3, <1>4, <1>5, EntityFields

-----------------------------------------------------------------------------
(* Types, the place in the list, and what a binding points at              *)

OnEntity == {"cycle", "redefinition", "entityRules"}
InPlace ==
    /\ pc \in OnEntity => pos \in DOMAIN schema.entities
    /\ pc \in {"cycle", "redefinition"} => schema.entities[pos].parent # NULL

BindsDeclarations ==
    /\ \A n \in Names : entityOf[n] # NULL =>
          /\ entityOf[n] \in DOMAIN schema.entities
          /\ schema.entities[entityOf[n]].name = n
    /\ \A n \in Names : relationshipOf[n] # NULL =>
          /\ relationshipOf[n] \in DOMAIN schema.relationships
          /\ schema.relationships[relationshipOf[n]].name = n

Typed == TypeOK /\ InPlace /\ BindsDeclarations

LEMMA TypedInit == Init => Typed
  <1> SUFFICES ASSUME Init PROVE Typed
    OBVIOUS
  <1>1. schema \in Schema
    BY SemanticAssumption DEF Init
  <1>2. /\ entityOf = [n \in Names |-> NULL]
        /\ relationshipOf = [n \in Names |-> NULL]
        /\ created \in BOOLEAN
    BY DEF Init, Symbols!Init, Symbols!Unbound
  <1>3. /\ pc = "start" /\ pos = 1 /\ attr = 1 /\ walk = NULL /\ depth = 0
        /\ ok \in BOOLEAN /\ hasErrors \in BOOLEAN /\ status = NULL
    BY DEF Init
  <1>4. /\ entityOf \in [Names -> Nat \cup {NULL}]
        /\ relationshipOf \in [Names -> Nat \cup {NULL}]
    BY <1>2
  <1>5. TypeOK
    BY <1>1, <1>2, <1>3, <1>4 DEF TypeOK, Loops
  <1>6. InPlace
    BY <1>3 DEF InPlace, OnEntity
  <1>7. BindsDeclarations
    BY <1>2 DEF BindsDeclarations
  <1> QED
    BY <1>5, <1>6, <1>7 DEF Typed

\* Entities are bound by declareEntity only, relationships by
\* declareRelationship only.
LEMMA DeclareEntityBinds ==
  ASSUME Typed, declareEntity
  PROVE  /\ pos \in DOMAIN schema.entities
         /\ entity \in Entity /\ entity.name \in Names
         /\ entityOf' = IF entityOf[entity.name] = NULL
                        THEN [entityOf EXCEPT ![entity.name] = pos] ELSE entityOf
         /\ UNCHANGED <<created, relationshipOf, schema>>
  <1>1. /\ pos <= Len(schema.entities)
        /\ Symbols!addEntity(entity.name, pos)
        /\ UNCHANGED schema
    BY DEF declareEntity
  <1>2. schema \in Schema /\ pos \in Nat \ {0}
    BY DEF Typed, TypeOK
  <1>3. pos \in DOMAIN schema.entities
    BY <1>1, <1>2, SchemaFields
  <1>4. entity \in Entity /\ entity.name \in Names
    BY <1>2, <1>3, SchemaFields DEF entity
  <1> QED
    BY <1>1, <1>3, <1>4 DEF Symbols!addEntity

LEMMA DeclareRelationshipBinds ==
  ASSUME Typed, declareRelationship
  PROVE  /\ pos \in DOMAIN schema.relationships
         /\ relationship.name \in Names
         /\ relationshipOf' = IF relationshipOf[relationship.name] = NULL
                              THEN [relationshipOf EXCEPT ![relationship.name] = pos]
                              ELSE relationshipOf
         /\ UNCHANGED <<created, entityOf, schema>>
  <1>1. /\ pos <= Len(schema.relationships)
        /\ Symbols!addRelationship(relationship.name, pos)
        /\ UNCHANGED schema
    BY DEF declareRelationship
  <1>2. schema \in Schema /\ pos \in Nat \ {0}
    BY DEF Typed, TypeOK
  <1>3. pos \in DOMAIN schema.relationships
    BY <1>1, <1>2, SchemaFields
  <1>4. relationship.name \in Names
    BY <1>2, <1>3, SchemaFields DEF relationship
  <1> QED
    BY <1>1, <1>3, <1>4 DEF Symbols!addRelationship

\* The actions after the table is built leave it alone.
NextAfterTable ==
    \/ entitiesDeclared \/ symbolTableBuilt
    \/ checkEntityTypes \/ entityTypesChecked
    \/ checkRelationshipTypes \/ relationshipTypesChecked
    \/ validateParentExists \/ skipInheritance
    \/ cycleStep \/ redefinitionStep \/ redefinitionsChecked
    \/ validateEntityRules \/ entitiesValidated
    \/ validateRelationship \/ relationshipsValidated
    \/ verdict \/ returned

LEMMA TableFrozen == ASSUME NextAfterTable PROVE UNCHANGED <<schema, tableVars>>
  BY DEF NextAfterTable, entitiesDeclared, symbolTableBuilt, checkEntityTypes,
         entityTypesChecked, checkRelationshipTypes, relationshipTypesChecked,
         validateParentExists, skipInheritance, cycleStep, redefinitionStep,
         redefinitionsChecked, validateEntityRules, entitiesValidated,
         validateRelationship, relationshipsValidated, verdict, returned, vars

\* A binding made by a step points at the declaration that the step is on.
LEMMA BindingsStep == ASSUME Typed, [Next]_vars PROVE BindsDeclarations' /\ UNCHANGED schema
  <1> USE DEF Typed, BindsDeclarations
  <1>1. CASE createTable
    BY <1>1 DEF createTable, Symbols!createSymbolTable, Symbols!Unbound
  <1>2. CASE declareEntity
    <2>1. entityOf \in [Names -> Nat \cup {NULL}] /\ UNCHANGED <<schema, relationshipOf>>
      BY <1>2, DeclareEntityBinds DEF TypeOK
    <2>2. \A n \in Names : entityOf'[n] # NULL =>
            /\ entityOf'[n] \in DOMAIN schema.entities
            /\ schema.entities[entityOf'[n]].name = n
      BY <1>2, <2>1, DeclareEntityBinds DEF entity
    <2> QED
      BY <2>1, <2>2
  <1>3. CASE declareRelationship
    <2>1. /\ relationshipOf \in [Names -> Nat \cup {NULL}]
          /\ UNCHANGED <<schema, entityOf>>
      BY <1>3, DeclareRelationshipBinds DEF TypeOK
    <2>2. \A n \in Names : relationshipOf'[n] # NULL =>
            /\ relationshipOf'[n] \in DOMAIN schema.relationships
            /\ schema.relationships[relationshipOf'[n]].name = n
      BY <1>3, <2>1, DeclareRelationshipBinds DEF relationship
    <2> QED
      BY <2>1, <2>2
  <1>4. CASE NextAfterTable
    BY <1>4, TableFrozen DEF tableVars
  <1>5. CASE UNCHANGED vars
    BY <1>5 DEF vars, tableVars
  <1> QED
    BY <1>1, <1>2, <1>3, <1>4, <1>5 DEF Next, NextAfterTable

\* The Boolean variables, which the provers treat apart from the others.
LEMMA FlagsStep ==
  ASSUME Typed, [Next]_vars
  PROVE  created' \in BOOLEAN /\ ok' \in BOOLEAN /\ hasErrors' \in BOOLEAN
  <1> USE DEF Typed, TypeOK
  <1>1. CASE createTable
    BY <1>1 DEF createTable, Symbols!createSymbolTable, Enter
  <1>2. CASE declareEntity
    BY <1>2 DEF declareEntity, Symbols!addEntity, Report
  <1>3. CASE declareRelationship
    BY <1>3 DEF declareRelationship, Symbols!addRelationship, Report
  <1>4. CASE NextAfterTable
    <2>1. created' \in BOOLEAN
      BY <1>4, TableFrozen DEF tableVars
    <2>2. CASE entitiesDeclared \/ symbolTableBuilt \/ checkEntityTypes \/ entityTypesChecked
      BY <2>1, <2>2 DEF entitiesDeclared, symbolTableBuilt, checkEntityTypes,
                        entityTypesChecked, Enter
    <2>3. CASE checkRelationshipTypes \/ relationshipTypesChecked \/ validateParentExists
               \/ skipInheritance
      BY <2>1, <2>3 DEF checkRelationshipTypes, relationshipTypesChecked, Report, Silent,
                        validateParentExists, skipInheritance, Enter
    <2>4. CASE cycleStep \/ redefinitionStep \/ redefinitionsChecked
      BY <2>1, <2>4 DEF cycleStep, redefinitionStep, redefinitionsChecked, Report, Silent
    <2>5. CASE validateEntityRules \/ entitiesValidated \/ validateRelationship
               \/ relationshipsValidated \/ verdict \/ returned
      BY <2>1, <2>5 DEF validateEntityRules, entitiesValidated, validateRelationship,
                        relationshipsValidated, verdict, returned, Report, Silent, Enter, vars
    <2> QED
      BY <1>4, <2>2, <2>3, <2>4, <2>5 DEF NextAfterTable
  <1>5. CASE UNCHANGED vars
    BY <1>5 DEF vars, tableVars
  <1> QED
    BY <1>1, <1>2, <1>3, <1>4, <1>5 DEF Next, NextAfterTable

\* The other variables.
DataTyped ==
    /\ schema \in Schema
    /\ entityOf \in [Names -> Nat \cup {NULL}]
    /\ relationshipOf \in [Names -> Nat \cup {NULL}]
    /\ pc \in Loops
    /\ pos \in Nat \ {0} /\ attr \in Nat \ {0}
    /\ walk \in Names \cup {NULL}
    /\ depth \in Nat
    /\ status \in {NULL, "SEMANTIC_OK", "SEMANTIC_ERROR", "ABORTED"}

LEMMA TypedParts ==
  TypeOK <=> DataTyped /\ created \in BOOLEAN /\ ok \in BOOLEAN /\ hasErrors \in BOOLEAN
  BY DEF TypeOK, DataTyped

LEMMA DataStep == ASSUME Typed, [Next]_vars PROVE DataTyped' /\ InPlace'
  <1>0. DataTyped /\ InPlace /\ BindsDeclarations /\ schema' = schema /\ schema \in Schema
    BY BindingsStep, TypedParts DEF Typed, DataTyped
  <1>1. CASE createTable
    <2>1. /\ entityOf' = [n \in Names |-> NULL] /\ relationshipOf' = [n \in Names |-> NULL]
      BY <1>1 DEF createTable, Symbols!createSymbolTable, Symbols!Unbound
    <2>2. /\ pc' = "declareEntities" /\ pos' = 1
          /\ UNCHANGED <<attr, walk, depth, status>>
      BY <1>1 DEF createTable, Enter, walkVars
    <2>3. DataTyped'
      BY <1>0, <2>1, <2>2 DEF DataTyped, Loops
    <2>4. InPlace'
      BY <1>0, <2>2 DEF InPlace, OnEntity
    <2> QED
      BY <2>3, <2>4
  <1>2. CASE declareEntity
    <2>1. entityOf' \in [Names -> Nat \cup {NULL}] /\ UNCHANGED relationshipOf
      BY <1>0, <1>2, DeclareEntityBinds DEF DataTyped
    <2>2. /\ pos' = pos + 1 /\ pc = "declareEntities"
          /\ UNCHANGED <<pc, attr, walk, depth, status>>
      BY <1>2 DEF declareEntity, walkVars
    <2> QED
      BY <1>0, <2>1, <2>2 DEF DataTyped, InPlace, OnEntity
  <1>3. CASE declareRelationship
    <2>1. relationshipOf' \in [Names -> Nat \cup {NULL}] /\ UNCHANGED entityOf
      BY <1>0, <1>3, DeclareRelationshipBinds DEF DataTyped
    <2>2. /\ pos' = pos + 1 /\ pc = "declareRelationships"
          /\ UNCHANGED <<pc, attr, walk, depth, status>>
      BY <1>3 DEF declareRelationship, walkVars
    <2> QED
      BY <1>0, <2>1, <2>2 DEF DataTyped, InPlace, OnEntity
  <1>4. CASE entitiesDeclared \/ symbolTableBuilt \/ entityTypesChecked
             \/ relationshipTypesChecked \/ entitiesValidated \/ relationshipsValidated
             \/ verdict \/ returned
    <2>1. /\ pc' \in Loops \ OnEntity \/ pc' = pc
          /\ pos' \in {1, pos}
          /\ pc' = pc => pos' = pos
          /\ status' \in {NULL, status, "SEMANTIC_OK", "SEMANTIC_ERROR"}
          /\ UNCHANGED <<attr, walk, depth, entityOf, relationshipOf>>
      BY <1>4 DEF entitiesDeclared, symbolTableBuilt, entityTypesChecked, Enter, Loops,
            relationshipTypesChecked, entitiesValidated, relationshipsValidated, verdict,
            returned, walkVars, tableVars, vars, OnEntity
    <2> QED
      BY <1>0, <2>1 DEF DataTyped, InPlace, OnEntity
  <1>5. CASE checkEntityTypes \/ checkRelationshipTypes \/ validateRelationship
    <2>1. /\ pc' \in {pc, "done"} /\ pc \notin OnEntity
          /\ pos' \in {pos, pos + 1}
          /\ status' \in {status, "ABORTED"}
          /\ UNCHANGED <<attr, walk, depth, entityOf, relationshipOf>>
      BY <1>5 DEF checkEntityTypes, checkRelationshipTypes, validateRelationship, walkVars,
                  tableVars, OnEntity
    <2> QED
      BY <1>0, <2>1 DEF DataTyped, InPlace, OnEntity, Loops
  <1>6. CASE validateEntityRules
    <2>1. /\ pc' \in {"entities", "done"} /\ pos' \in {pos, pos + 1}
          /\ status' \in {status, "ABORTED"}
          /\ UNCHANGED <<attr, walk, depth, entityOf, relationshipOf>>
      BY <1>6 DEF validateEntityRules, walkVars, tableVars
    <2> QED
      BY <1>0, <2>1 DEF DataTyped, InPlace, OnEntity, Loops
  <1>7. CASE UNCHANGED vars
    BY <1>0, <1>7 DEF vars, tableVars, walkVars, DataTyped, InPlace
  <1>8. CASE validateParentExists
    <2>1. /\ pos \in DOMAIN schema.entities /\ entity.parent # NULL
          /\ pc' = "cycle" /\ walk' = entity.parent /\ depth' = 0
          /\ UNCHANGED <<pos, attr, status, entityOf, relationshipOf>>
      BY <1>0, <1>8, SchemaFields DEF validateParentExists, tableVars, DataTyped
    <2>2. entity.parent \in Names \cup {NULL}
      BY <1>0, <2>1, SchemaFields DEF entity
    <2> QED
      BY <1>0, <2>1, <2>2 DEF DataTyped, InPlace, OnEntity, Loops, entity
  <1>9. CASE skipInheritance
    <2>1. /\ pos \in DOMAIN schema.entities /\ pc' = "entityRules"
          /\ UNCHANGED <<pos, attr, walk, depth, status, entityOf, relationshipOf>>
      BY <1>0, <1>9, SchemaFields DEF skipInheritance, tableVars, walkVars, DataTyped
    <2> QED
      BY <1>0, <2>1 DEF DataTyped, InPlace, OnEntity, Loops
  <1>10. ASSUME declared(walk)
         PROVE  ancestor(walk).parent \in Names \cup {NULL}
    <2>1. entityOf[walk] \in DOMAIN schema.entities
      BY <1>0, <1>10 DEF declared, BindsDeclarations, DataTyped
    <2> QED
      BY <1>0, <2>1, SchemaFields DEF ancestor
  <1>11. CASE cycleStep
    <2>1. /\ pos \in DOMAIN schema.entities /\ entity.parent # NULL
          /\ entity.parent \in Names \cup {NULL}
      BY <1>0, <1>11, SchemaFields DEF cycleStep, InPlace, OnEntity, entity
    <2>2. walk' \in Names \cup {NULL}
      BY <1>10, <1>11, <2>1 DEF cycleStep, WalkOver
    <2>3. /\ pc' \in {"cycle", "redefinition"} /\ attr' \in {1, attr}
          /\ depth' \in {depth, depth + 1}
          /\ UNCHANGED <<pos, status, entityOf, relationshipOf>>
      BY <1>11 DEF cycleStep, WalkOver, Deeper, tableVars
    <2> QED
      BY <1>0, <2>1, <2>2, <2>3 DEF DataTyped, InPlace, OnEntity, Loops, entity
  <1>12. CASE redefinitionStep
    <2>1. /\ pos \in DOMAIN schema.entities /\ entity.parent # NULL
          /\ entity.parent \in Names \cup {NULL}
      BY <1>0, <1>12, SchemaFields DEF redefinitionStep, InPlace, OnEntity, entity
    <2>2. walk' \in Names \cup {NULL}
      BY <1>10, <1>12, <2>1 DEF redefinitionStep
    <2>3. /\ pc = "redefinition" /\ attr' \in {attr, attr + 1}
          /\ UNCHANGED <<pc, pos, depth, status, entityOf, relationshipOf>>
      BY <1>12 DEF redefinitionStep, tableVars
    <2> QED
      BY <1>0, <2>1, <2>2, <2>3 DEF DataTyped, InPlace, OnEntity, Loops, entity
  <1>13. CASE redefinitionsChecked
    <2>1. /\ pc = "redefinition" /\ pc' = "entityRules"
          /\ UNCHANGED <<pos, attr, walk, depth, status, entityOf, relationshipOf>>
      BY <1>13 DEF redefinitionsChecked, tableVars, walkVars
    <2> QED
      BY <1>0, <2>1 DEF DataTyped, InPlace, OnEntity, Loops
  <1> QED
    BY <1>1, <1>2, <1>3, <1>4, <1>5, <1>6, <1>7, <1>8, <1>9, <1>11, <1>12, <1>13 DEF Next

LEMMA TypedStep == Typed /\ [Next]_vars => Typed'
  <1> SUFFICES ASSUME Typed, [Next]_vars PROVE Typed'
    OBVIOUS
  <1>1. BindsDeclarations' /\ DataTyped' /\ InPlace'
    BY BindingsStep, DataStep
  <1>2. TypeOK'
    BY <1>1, FlagsStep DEF TypeOK, DataTyped
  <1> QED
    BY <1>1, <1>2 DEF Typed

LEMMA AlwaysTyped == Spec => []Typed
  BY TypedInit, TypedStep, PTL DEF Spec

\* Every variable keeps its type; in particular no walk up the chain leaves the
\* names of the program and no loop leaves its list (SemanticAnalyzer.c).
THEOREM AnalyzerTypeCorrect == Spec => []TypeOK
  <1>1. Typed => TypeOK
    BY DEF Typed
  <1> QED
    BY <1>1, AlwaysTyped, PTL

-----------------------------------------------------------------------------
(* The verdict and the errors                                              *)

\* No rule logs what the type inference logs.
NoInference(D) == \A d \in D : d[1] # "inference"

LEMMA KeyRuleTags ==
  ASSUME NEW s, NEW find, NEW e PROVE NoInference(validateEntityPrimaryKey(s, find, e))
  <1>1. NoInference(DuplicateKeyAttributes(e))
    BY DEF NoInference, DuplicateKeyAttributes
  <1>2. ASSUME NEW qid PROVE NoInference(validatePKIdentifier(s, find, e, qid))
    BY DEF NoInference, validatePKIdentifier
  <1> QED
    BY <1>1, <1>2 DEF NoInference, validateEntityPrimaryKey

LEMMA EntityRuleTags ==
  ASSUME NEW s, NEW find, NEW e PROVE NoInference(entityRules(s, find, e))
  <1>1. NoInference(validateWeakEntityRelationships(s, e))
    BY DEF NoInference, validateWeakEntityRelationships
  <1>2. /\ NoInference(validateDefaultModifierTypes(e))
        /\ NoInference(validatePrimaryModifierTypes(e))
    BY DEF NoInference, validateDefaultModifierTypes, validatePrimaryModifierTypes
  <1> QED
    BY <1>1, <1>2, KeyRuleTags DEF NoInference, entityRules

LEMMA RelationshipRuleTags ==
  ASSUME NEW s, NEW find, NEW r PROVE NoInference(relationshipRules(s, find, r))
  <1>1. /\ NoInference(validateParticipantEntitiesExist(find, r))
        /\ NoInference(validateUniqueParticipants(r))
        /\ NoInference(validateMinimumParticipants(r))
    BY DEF NoInference, validateParticipantEntitiesExist, validateUniqueParticipants,
           validateMinimumParticipants
  <1>2. /\ NoInference(validateWeakEntityParticipation(s, find, r))
        /\ NoInference(validateRelationshipAttributeModifiers(r))
    BY DEF NoInference, validateWeakEntityParticipation, validateRelationshipAttributeModifiers
  <1> QED
    BY <1>1, <1>2 DEF NoInference, relationshipRules

LEMMA TypeCheckTags ==
  ASSUME NEW e
  PROVE  /\ NoInference(checkDefaults(e)) /\ NoInference(checkAssertions(e))
         /\ NoInference(checkRelationshipDefaults(e))
         /\ \A d \in InferenceLog(e) : d[1] = "inference"
  BY DEF NoInference, checkDefaults, checkAssertions, checkRelationshipDefaults, InferenceLog

\* Before the analysis is over there is no verdict; the three ways to tell a
\* failure agree at every step.
FailuresAgree ==
    /\ hasErrors <=> Reported # {}
    /\ ~ok => hasErrors
    /\ pc # "done" => status = NULL
    /\ status = "SEMANTIC_OK" => Reported = {}
    /\ status = "SEMANTIC_ERROR" => Reported # {}

\* A step that logs D as errors, and what it leaves open.
LEMMA ReportAgrees ==
  ASSUME Typed, FailuresAgree, NEW D, NEW I, NoInference(D),
         \A d \in I : d[1] = "inference",
         diagnostics' = diagnostics \cup D \cup I,
         hasErrors' = (hasErrors \/ D # {}),
         ok' = (ok /\ D = {})
  PROVE  (hasErrors' <=> Reported' # {}) /\ (~ok' => hasErrors')
  <1>1. Reported' = Reported \cup D
    BY DEF Reported, NoInference
  <1>2. hasErrors <=> Reported # {}
    BY DEF FailuresAgree
  <1>3. ~ok => hasErrors
    BY DEF FailuresAgree
  <1>4. Reported' # {} <=> Reported # {} \/ D # {}
    BY <1>1
  <1> QED
    BY <1>2, <1>3, <1>4, Zenon

LEMMA ReportedByRule ==
  ASSUME Typed, FailuresAgree, NEW D, NoInference(D), Report(D)
  PROVE  (hasErrors' <=> Reported' # {}) /\ (~ok' => hasErrors')
  <1>1. diagnostics' = diagnostics \cup D \cup {}
    BY DEF Report
  <1> QED
    BY <1>1, ReportAgrees DEF Report

LEMMA SilentAgrees ==
  ASSUME FailuresAgree, Silent
  PROVE  (hasErrors' <=> Reported' # {}) /\ (~ok' => hasErrors') /\ Reported' = Reported
  BY DEF FailuresAgree, Silent, Reported

LEMMA FailuresAgreeInit == Init => FailuresAgree
  BY SemanticAssumption DEF Init, FailuresAgree, Reported

LEMMA FailuresAgreeStep == Typed /\ FailuresAgree /\ [Next]_vars => FailuresAgree'
  <1> SUFFICES ASSUME Typed, FailuresAgree, [Next]_vars PROVE FailuresAgree'
    OBVIOUS
  <1> DEFINE Agree == (hasErrors' <=> Reported' # {}) /\ (~ok' => hasErrors')
  \* A step that is not the last one need only keep the errors in agreement.
  <1>1. ASSUME Agree, status' = NULL PROVE FailuresAgree'
    BY <1>1, SemanticAssumption DEF FailuresAgree
  <1>2. ASSUME Agree, pc' = "done", status' = "ABORTED" PROVE FailuresAgree'
    BY <1>2 DEF FailuresAgree
  <1>3. pc # "done" => status = NULL
    BY DEF FailuresAgree
  <1> HIDE DEF Agree
  <1>4. CASE createTable
    <2>1. /\ status' = NULL /\ hasErrors' = hasErrors /\ ok' = TRUE
          /\ diagnostics' = diagnostics
      BY <1>3, <1>4 DEF createTable, Enter
    <2>2. Agree
      BY <2>1 DEF Agree, FailuresAgree, Reported
    <2> QED
      BY <1>1, <2>1, <2>2
  <1>5. CASE declareEntity
    <2>1. Agree
      <3> DEFINE D == IF declared(entity.name)
                      THEN {<<"duplicateEntity", entity.name, pos>>} ELSE {}
      <3>1. NoInference(D)
        BY DEF NoInference
      <3>2. Report(D)
        BY <1>5 DEF declareEntity
      <3> QED
        BY <3>1, <3>2, ReportedByRule DEF Agree
    <2> QED
      BY <1>1, <1>3, <1>5, <2>1 DEF declareEntity
  <1>6. CASE declareRelationship
    <2>1. Agree
      <3> DEFINE D == IF relationshipOf[relationship.name] # NULL
                      THEN {<<"duplicateRelationship", relationship.name, pos>>} ELSE {}
      <3>1. NoInference(D)
        BY DEF NoInference
      <3>2. Report(D)
        BY <1>6 DEF declareRelationship
      <3> QED
        BY <3>1, <3>2, ReportedByRule DEF Agree
    <2> QED
      BY <1>1, <1>3, <1>6, <2>1 DEF declareRelationship
  <1>7. CASE symbolTableBuilt
    <2>1. CASE ok /\ Enter("entityTypes") /\ status' = NULL
      <3>1. Agree
        BY <1>7, <2>1 DEF Agree, FailuresAgree, Reported, symbolTableBuilt, Enter
      <3> QED
        BY <1>1, <2>1, <3>1
    <2>2. CASE ~ok /\ pc' = "done" /\ status' = "SEMANTIC_ERROR" /\ UNCHANGED <<pos, ok>>
      <3>1. Agree /\ Reported' # {}
        BY <1>7, <2>2 DEF Agree, FailuresAgree, Reported, symbolTableBuilt
      <3> QED
        BY <2>2, <3>1 DEF Agree, FailuresAgree
    <2> QED
      BY <1>7, <2>1, <2>2 DEF symbolTableBuilt
  <1>8. CASE checkEntityTypes
    <2> DEFINE D == checkDefaults(entity) \cup checkAssertions(entity)
    <2>1. NoInference(D)
      BY TypeCheckTags DEF NoInference
    <2>2. \A d \in InferenceLog(entity) : d[1] = "inference"
      BY TypeCheckTags
    <2>3. /\ diagnostics' = diagnostics \cup D \cup InferenceLog(entity)
          /\ hasErrors' = (hasErrors \/ D # {})
          /\ ok' = (ok /\ D = {})
      BY <1>8 DEF checkEntityTypes
    <2> HIDE DEF D
    <2>4. Agree
      BY <2>1, <2>2, <2>3, ReportAgrees DEF Agree
    <2> QED
      BY <1>1, <1>3, <1>8, <2>4 DEF checkEntityTypes
  <1>9. CASE checkRelationshipTypes
    <2>1. CASE ReadsWildPointer(relationship)
      BY <1>2, <1>9, <2>1, SilentAgrees DEF checkRelationshipTypes, Agree
    <2>2. CASE ~ReadsWildPointer(relationship)
      <3>1. Agree
        BY <1>9, <2>2, TypeCheckTags, ReportedByRule DEF checkRelationshipTypes, Agree
      <3> QED
        BY <1>1, <1>3, <1>9, <2>2, <3>1 DEF checkRelationshipTypes
    <2> QED
      BY <2>1, <2>2
  <1>10. CASE validateParentExists
    <2>1. Agree
      <3> DEFINE D == IF declared(entity.parent) THEN {}
                      ELSE {<<"parentUnknown", entity.name, entity.parent>>}
      <3>1. NoInference(D)
        BY DEF NoInference
      <3>2. Report(D)
        BY <1>10 DEF validateParentExists
      <3> QED
        BY <3>1, <3>2, ReportedByRule DEF Agree
    <2> QED
      BY <1>1, <1>3, <1>10, <2>1 DEF validateParentExists
  <1>11. CASE cycleStep
    <2>1. NoInference({<<"inheritanceCycle", entity.name, NULL>>})
      BY DEF NoInference
    <2>2. Agree
      BY <1>11, <2>1, SilentAgrees, ReportedByRule DEF cycleStep, Agree
    <2> QED
      BY <1>1, <1>3, <1>11, <2>2 DEF cycleStep
  <1>12. CASE redefinitionStep
    <2>1. NoInference({<<"attributeRedefined", entity.name, attr>>})
      BY DEF NoInference
    <2>2. Agree
      BY <1>12, <2>1, SilentAgrees, ReportedByRule DEF redefinitionStep, Agree
    <2> QED
      BY <1>1, <1>3, <1>12, <2>2 DEF redefinitionStep
  <1>13. CASE validateEntityRules
    <2>1. CASE OverrunsSeen(entity)
      BY <1>2, <1>13, <2>1, SilentAgrees DEF validateEntityRules, Agree
    <2>2. CASE ~OverrunsSeen(entity)
      <3>1. Agree
        BY <1>13, <2>2, EntityRuleTags, ReportedByRule DEF validateEntityRules, Agree
      <3> QED
        BY <1>1, <1>3, <1>13, <2>2, <3>1 DEF validateEntityRules
    <2> QED
      BY <2>1, <2>2
  <1>14. CASE validateRelationship
    <2>1. Agree
      BY <1>14, RelationshipRuleTags, ReportedByRule DEF validateRelationship, Agree
    <2> QED
      BY <1>1, <1>3, <1>14, <2>1 DEF validateRelationship
  <1>15. CASE relationshipTypesChecked
    <2>1. Agree
      BY <1>15 DEF relationshipTypesChecked, Agree, FailuresAgree, Reported, Enter
    <2> QED
      BY <1>1, <1>3, <1>15, <2>1 DEF relationshipTypesChecked
  <1>16. CASE entitiesValidated \/ relationshipsValidated
    <2>1. /\ hasErrors' = (hasErrors \/ ~ok) /\ ok' = TRUE /\ diagnostics' = diagnostics
          /\ status' = NULL
      BY <1>3, <1>16 DEF entitiesValidated, relationshipsValidated, Enter
    <2>2. Agree
      BY <2>1 DEF Agree, FailuresAgree, Reported
    <2> QED
      BY <1>1, <2>1, <2>2
  <1>17. CASE entitiesDeclared \/ entityTypesChecked \/ skipInheritance \/ redefinitionsChecked
    <2>1. Silent /\ status' = NULL
      BY <1>3, <1>17 DEF entitiesDeclared, entityTypesChecked, skipInheritance,
                         redefinitionsChecked, Silent
    <2> QED
      BY <1>1, <2>1, SilentAgrees DEF Agree
  <1>18. CASE verdict
    <2>1. /\ Silent /\ pc' = "done"
          /\ status' = IF hasErrors THEN "SEMANTIC_ERROR" ELSE "SEMANTIC_OK"
      BY <1>18 DEF verdict, Silent
    <2>2. Agree /\ Reported' = Reported
      BY <2>1, SilentAgrees DEF Agree
    <2>3. hasErrors <=> Reported # {}
      BY DEF FailuresAgree
    <2>4. CASE hasErrors
      BY <2>1, <2>2, <2>3, <2>4 DEF Agree, FailuresAgree
    <2>5. CASE ~hasErrors
      BY <2>1, <2>2, <2>3, <2>5 DEF Agree, FailuresAgree
    <2> QED
      BY <2>4, <2>5
  <1>19. CASE UNCHANGED vars
    BY <1>19 DEF vars, FailuresAgree, Reported
  <1> QED
    BY <1>4, <1>5, <1>6, <1>7, <1>8, <1>9, <1>10, <1>11, <1>12, <1>13, <1>14, <1>15,
       <1>16, <1>17, <1>18, <1>19 DEF Next, returned

\* No failure is lost between the rules' own `ok`, ctx.hasErrors and the status,
\* and none is invented (SemanticAnalyzer.c:59-72).
THEOREM VerdictIsErrors == Spec => []ErrorsDecideVerdict
  <1>1. FailuresAgree => ErrorsDecideVerdict
    BY DEF FailuresAgree, ErrorsDecideVerdict
  <1> QED
    BY <1>1, AlwaysTyped, FailuresAgreeInit, FailuresAgreeStep, PTL DEF Spec

-----------------------------------------------------------------------------
(* The symbol table and the schema                                         *)

EntitiesInPlace(k) ==
    \A i \in DOMAIN schema.entities : i < k => entityOf[schema.entities[i].name] = i
RelationshipsInPlace(k) ==
    \A i \in DOMAIN schema.relationships :
        i < k => relationshipOf[schema.relationships[i].name] = i

AllInPlace ==
    /\ \A i \in DOMAIN schema.entities : entityOf[schema.entities[i].name] = i
    /\ \A i \in DOMAIN schema.relationships :
          relationshipOf[schema.relationships[i].name] = i

\* As long as no name was declared twice, every name is bound to the
\* declaration that was read.
TableInPlace ==
    /\ pc = "declareEntities" => (ok => EntitiesInPlace(pos))
    /\ pc = "declareRelationships" =>
          (ok => EntitiesInPlace(Len(schema.entities) + 1) /\ RelationshipsInPlace(pos))
    /\ pc \notin Building \cup {"done"} => AllInPlace

\* One more entity, one more relationship: had an earlier one the name, the
\* name would be bound.
LEMMA EntityPlaced ==
  ASSUME Typed, declareEntity, EntitiesInPlace(pos), entityOf[entity.name] = NULL
  PROVE  \A i \in DOMAIN schema.entities :
            i < pos + 1 => entityOf'[schema.entities[i].name] = i
  <1>1. /\ schema \in Schema /\ entityOf \in [Names -> Nat \cup {NULL}]
        /\ pos \in Nat \ {0}
    BY DEF Typed, TypeOK
  <1>2. /\ pos \in DOMAIN schema.entities /\ entity.name \in Names
        /\ entityOf' = [entityOf EXCEPT ![entity.name] = pos]
    BY DeclareEntityBinds
  <1> SUFFICES ASSUME NEW i \in DOMAIN schema.entities, i < pos + 1
               PROVE  entityOf'[schema.entities[i].name] = i
    OBVIOUS
  <1>3. i \in Nat /\ i # NULL /\ schema.entities[i].name \in Names
    BY <1>1, SchemaFields, SemanticAssumption
  <1>4. CASE i = pos
    BY <1>1, <1>2, <1>4 DEF entity
  <1>5. CASE i < pos
    <2>1. entityOf[schema.entities[i].name] = i
      BY <1>5 DEF EntitiesInPlace
    <2> QED
      BY <1>1, <1>2, <1>3, <2>1
  <1> QED
    BY <1>1, <1>3, <1>4, <1>5

LEMMA RelationshipPlaced ==
  ASSUME Typed, declareRelationship, RelationshipsInPlace(pos),
         relationshipOf[relationship.name] = NULL
  PROVE  \A i \in DOMAIN schema.relationships :
            i < pos + 1 => relationshipOf'[schema.relationships[i].name] = i
  <1>1. /\ schema \in Schema /\ relationshipOf \in [Names -> Nat \cup {NULL}]
        /\ pos \in Nat \ {0}
    BY DEF Typed, TypeOK
  <1>2. /\ pos \in DOMAIN schema.relationships /\ relationship.name \in Names
        /\ relationshipOf' = [relationshipOf EXCEPT ![relationship.name] = pos]
    BY DeclareRelationshipBinds
  <1> SUFFICES ASSUME NEW i \in DOMAIN schema.relationships, i < pos + 1
               PROVE  relationshipOf'[schema.relationships[i].name] = i
    OBVIOUS
  <1>3. i \in Nat /\ i # NULL /\ schema.relationships[i].name \in Names
    BY <1>1, SchemaFields, SemanticAssumption
  <1>4. CASE i = pos
    BY <1>1, <1>2, <1>4 DEF relationship
  <1>5. CASE i < pos
    <2>1. relationshipOf[schema.relationships[i].name] = i
      BY <1>5 DEF RelationshipsInPlace
    <2> QED
      BY <1>1, <1>2, <1>3, <2>1
  <1> QED
    BY <1>1, <1>3, <1>4, <1>5

LEMMA TableInPlaceStep == Typed /\ TableInPlace /\ [Next]_vars => TableInPlace'
  <1> SUFFICES ASSUME Typed, TableInPlace, [Next]_vars PROVE TableInPlace'
    OBVIOUS
  <1>0. schema' = schema /\ schema \in Schema /\ pos \in Nat \ {0}
    BY BindingsStep DEF Typed, TypeOK
  <1>1. CASE createTable
    <2>1. pc' = "declareEntities" /\ pos' = 1
      BY <1>1 DEF createTable, Enter
    <2>2. EntitiesInPlace(pos)'
      BY <1>0, <2>1, SchemaFields DEF EntitiesInPlace
    <2> QED
      BY <2>1, <2>2 DEF TableInPlace, Building
  <1>2. CASE declareEntity
    <2>1. pc = "declareEntities" /\ pc' = pc /\ pos' = pos + 1
      BY <1>2 DEF declareEntity
    <2>2. ASSUME ok' PROVE ok /\ ~declared(entity.name)
      <3>1. ok' = (ok /\ (IF declared(entity.name)
                          THEN {<<"duplicateEntity", entity.name, pos>>} ELSE {}) = {})
        BY <1>2 DEF declareEntity, Report
      <3> QED
        BY <2>2, <3>1
    <2>3. ASSUME ok' PROVE EntitiesInPlace(pos)'
      <3>1. entityOf[entity.name] = NULL
        BY <1>2, <2>2, <2>3, DeclareEntityBinds, SemanticAssumption DEF declared
      <3>2. EntitiesInPlace(pos)
        BY <2>1, <2>2, <2>3 DEF TableInPlace
      <3> QED
        BY <1>0, <1>2, <2>1, <3>1, <3>2, EntityPlaced DEF EntitiesInPlace
    <2> QED
      BY <2>1, <2>3 DEF TableInPlace, Building
  <1>3. CASE entitiesDeclared
    <2>1. /\ pc = "declareEntities" /\ pc' = "declareRelationships" /\ pos' = 1
          /\ pos > Len(schema.entities) /\ ok' = ok /\ entityOf' = entityOf
      BY <1>3 DEF entitiesDeclared, tableVars
    <2>2. ASSUME ok' PROVE EntitiesInPlace(Len(schema.entities) + 1)'
      <3>1. EntitiesInPlace(pos)
        BY <2>1, <2>2 DEF TableInPlace
      <3> QED
        BY <1>0, <2>1, <3>1, SchemaFields DEF EntitiesInPlace
    <2>3. RelationshipsInPlace(pos)'
      BY <1>0, <2>1, SchemaFields DEF RelationshipsInPlace
    <2> QED
      BY <2>1, <2>2, <2>3 DEF TableInPlace, Building
  <1>4. CASE declareRelationship
    <2>1. pc = "declareRelationships" /\ pc' = pc /\ pos' = pos + 1
      BY <1>4 DEF declareRelationship
    <2>2. ASSUME ok' PROVE ok /\ relationshipOf[relationship.name] = NULL
      <3>1. ok' = (ok /\ (IF relationshipOf[relationship.name] # NULL
                          THEN {<<"duplicateRelationship", relationship.name, pos>>}
                          ELSE {}) = {})
        BY <1>4 DEF declareRelationship, Report
      <3> QED
        BY <2>2, <3>1
    <2>3. ASSUME ok' PROVE EntitiesInPlace(Len(schema.entities) + 1)' /\ RelationshipsInPlace(pos)'
      <3>1. EntitiesInPlace(Len(schema.entities) + 1) /\ RelationshipsInPlace(pos)
        BY <2>1, <2>2, <2>3 DEF TableInPlace
      <3>2. EntitiesInPlace(Len(schema.entities) + 1)'
        BY <1>0, <1>4, <3>1, DeclareRelationshipBinds DEF EntitiesInPlace
      <3>3. RelationshipsInPlace(pos)'
        BY <1>0, <1>4, <2>1, <2>2, <2>3, <3>1, RelationshipPlaced DEF RelationshipsInPlace
      <3> QED
        BY <3>2, <3>3
    <2> QED
      BY <2>1, <2>3 DEF TableInPlace, Building
  <1>5. CASE symbolTableBuilt
    <2>1. /\ pc = "declareRelationships" /\ pos > Len(schema.relationships)
          /\ UNCHANGED <<entityOf, relationshipOf>>
      BY <1>5 DEF symbolTableBuilt, tableVars
    <2>2. CASE ok /\ Enter("entityTypes")
      <3>1. EntitiesInPlace(Len(schema.entities) + 1) /\ RelationshipsInPlace(pos)
        BY <2>1, <2>2 DEF TableInPlace
      <3>2. AllInPlace'
        BY <1>0, <2>1, <3>1, SchemaFields DEF EntitiesInPlace, RelationshipsInPlace, AllInPlace
      <3> QED
        BY <2>2, <3>2 DEF Enter, TableInPlace
    <2>3. CASE pc' = "done"
      BY <2>3 DEF TableInPlace
    <2> QED
      BY <1>5, <2>2, <2>3 DEF symbolTableBuilt
  <1>6. CASE UNCHANGED vars
    BY <1>6 DEF vars, tableVars, TableInPlace, EntitiesInPlace, RelationshipsInPlace, AllInPlace
  <1>7. CASE NextAfterTable /\ ~entitiesDeclared /\ ~symbolTableBuilt
    <2>1. UNCHANGED <<entityOf, relationshipOf>>
      BY <1>7, TableFrozen DEF tableVars
    <2>2. /\ pc \in {"done"} => pc' = "done"
          /\ pc \notin Building
          /\ pc' \notin Building
      <3>1. CASE checkEntityTypes \/ entityTypesChecked \/ checkRelationshipTypes
                 \/ relationshipTypesChecked \/ validateParentExists \/ skipInheritance
        BY <3>1 DEF checkEntityTypes, entityTypesChecked, checkRelationshipTypes, Enter,
              relationshipTypesChecked, validateParentExists, skipInheritance, Building
      <3>2. CASE cycleStep \/ redefinitionStep \/ redefinitionsChecked \/ validateEntityRules
                 \/ entitiesValidated
        BY <3>2 DEF cycleStep, WalkOver, redefinitionStep, redefinitionsChecked, Enter,
              validateEntityRules, entitiesValidated, Building
      <3>3. CASE validateRelationship \/ relationshipsValidated \/ verdict \/ returned
        BY <3>3 DEF validateRelationship, relationshipsValidated, Enter, verdict, returned,
              vars, Building
      <3> QED
        BY <1>7, <3>1, <3>2, <3>3 DEF NextAfterTable
    <2>3. AllInPlace' \/ pc' = "done"
      BY <1>0, <2>1, <2>2 DEF TableInPlace, AllInPlace
    <2> QED
      BY <2>2, <2>3 DEF TableInPlace, Building
  <1> QED
    BY <1>1, <1>2, <1>3, <1>4, <1>5, <1>6, <1>7 DEF Next, NextAfterTable

LEMMA AlwaysInPlace == Spec => []TableInPlace
  <1>1. Init => TableInPlace
    BY DEF Init, TableInPlace, Building
  <1> QED
    BY <1>1, AlwaysTyped, TableInPlaceStep, PTL DEF Spec

LEMMA InPlaceIsSchema ==
  ASSUME Typed, AllInPlace
  PROVE  /\ NamesUnique(schema)
         /\ \A n \in Names : entityOf[n] = NULL <=> n \notin DeclaredNames(schema)
  <1>1. schema \in Schema
    BY DEF Typed, TypeOK
  <1>2. NamesUnique(schema)
    BY DEF AllInPlace, NamesUnique, NamedOnce
  <1>3. ASSUME NEW n \in Names, entityOf[n] = NULL PROVE n \notin DeclaredNames(schema)
    BY <1>1, <1>3, SchemaFields, SemanticAssumption DEF AllInPlace, DeclaredNames
  <1>4. ASSUME NEW n \in Names, entityOf[n] # NULL PROVE n \in DeclaredNames(schema)
    BY <1>4 DEF Typed, BindsDeclarations, DeclaredNames
  <1> QED
    BY <1>2, <1>3, <1>4

\* Once the table is built, "bound" means "declared, once, and here"
\* (SymbolTable.c; SemanticAnalyzer.c:59 returns early otherwise).
THEOREM TableMatchesSchema == Spec => []TableIsSchema
  <1>1. Typed /\ TableInPlace => TableIsSchema
    BY InPlaceIsSchema DEF TableInPlace, TableIsSchema, AllInPlace
  <1> QED
    BY <1>1, AlwaysTyped, AlwaysInPlace, PTL

-----------------------------------------------------------------------------
(* Inheritance                                                             *)

\* S is what a walk up the chain from e has passed, w is where it stands.
ChainSeen(s, e, S, w) ==
    /\ S \subseteq ParentNames(s)
    /\ e.parent \in S \cup {w}
    /\ w \in ParentNames(s) \cup {NULL}
    /\ \A i \in DOMAIN s.entities :
          s.entities[i].name \in S => s.entities[i].parent \in S \cup {w, NULL}

LEMMA ChainStart ==
  ASSUME NEW s, NEW i \in DOMAIN s.entities
  PROVE  ChainSeen(s, s.entities[i], {}, s.entities[i].parent)
  BY DEF ChainSeen, ParentNames

LEMMA ChainStep ==
  ASSUME NEW s, NEW e, NEW S, NEW w, NEW v, ChainSeen(s, e, S, w), w # NULL,
         v \in ParentNames(s) \cup {NULL},
         \A i \in DOMAIN s.entities : s.entities[i].name = w => s.entities[i].parent = v
  PROVE  ChainSeen(s, e, S \cup {w}, v)
  BY DEF ChainSeen

\* A walk that is over has passed every ancestor.
LEMMA ChainEnd ==
  ASSUME NEW s, NEW e, NEW S, ChainSeen(s, e, S, NULL)
  PROVE  Ancestors(s, e) \subseteq S
  BY DEF ChainSeen, Ancestors, ClosedUnderParent

NotRedefined(s, e, k) ==
    \A j \in DOMAIN s.entities : s.entities[j].name \in Ancestors(s, e) =>
        ~AttributeNamed(s.entities[j].attributes, e.attributes[k].name)

SoundAt(s, i) ==
    /\ s.entities[i].parent \in DeclaredNames(s) \cup {NULL}
    /\ s.entities[i].name \notin Ancestors(s, s.entities[i])
    /\ \A k \in DOMAIN s.entities[i].attributes : NotRedefined(s, s.entities[i], k)

LEMMA SoundAtEach ==
  ASSUME NEW s, \A i \in DOMAIN s.entities : SoundAt(s, i) PROVE InheritanceSound(s)
  BY DEF SoundAt, NotRedefined, InheritanceSound

\* What the loops know while no rule has failed: of the entities before pos,
\* and of the entity at pos as far as its chain has been walked.
Progress ==
    /\ pc \in OnEntity \cup {"entities"} =>
          \A i \in DOMAIN schema.entities : i < pos => SoundAt(schema, i)
    /\ pc \in {"cycle", "redefinition"} => entity.parent \in DeclaredNames(schema)
    /\ pc = "cycle" =>
          \E S : ChainSeen(schema, entity, S, walk) /\ entity.name \notin S
    /\ pc = "redefinition" =>
          /\ entity.name \notin Ancestors(schema, entity)
          /\ \A k \in DOMAIN entity.attributes : k < attr => NotRedefined(schema, entity, k)
          /\ \E S : /\ ChainSeen(schema, entity, S, walk)
                    /\ \A j \in DOMAIN schema.entities : schema.entities[j].name \in S =>
                          ~AttributeNamed(schema.entities[j].attributes, attribute.name)
    /\ pc = "entityRules" => SoundAt(schema, pos)
    /\ pc \in {"relationships", "verdict"} => InheritanceSound(schema)

Checked ==
    /\ ~hasErrors => Progress
    /\ status = "SEMANTIC_OK" => InheritanceSound(schema)

Known == Typed /\ FailuresAgree /\ TableInPlace

\* Where a walk goes from a declared name, and where it ends.
LEMMA WalkOn ==
  ASSUME Known, pc \in OnEntity, declared(walk), NEW S, ChainSeen(schema, entity, S, walk)
  PROVE  ChainSeen(schema, entity, S \cup {walk}, ancestor(walk).parent)
  <1>1. Typed /\ AllInPlace /\ schema \in Schema
    BY DEF Known, Typed, TypeOK, TableInPlace, OnEntity, Building
  <1>2. walk # NULL /\ walk \in Names /\ entityOf[walk] \in DOMAIN schema.entities
    BY <1>1 DEF Typed, TypeOK, BindsDeclarations, declared
  <1>3. ancestor(walk).parent \in ParentNames(schema) \cup {NULL}
    BY <1>2 DEF ancestor, ParentNames
  <1>4. \A i \in DOMAIN schema.entities : schema.entities[i].name = walk =>
            schema.entities[i].parent = ancestor(walk).parent
    BY <1>1 DEF AllInPlace, ancestor
  <1> QED
    BY <1>2, <1>3, <1>4, ChainStep

LEMMA WalkEnds ==
  ASSUME Known, pc \in OnEntity, ~declared(walk), NEW S, ChainSeen(schema, entity, S, walk)
  PROVE  /\ Ancestors(schema, entity) \subseteq S \cup {walk}
         /\ walk = NULL => Ancestors(schema, entity) \subseteq S
         /\ \A j \in DOMAIN schema.entities : schema.entities[j].name # walk
  <1>1. Typed /\ AllInPlace /\ schema \in Schema /\ walk \in Names \cup {NULL}
    BY DEF Known, Typed, TypeOK, TableInPlace, OnEntity, Building
  <1>2. walk # NULL => walk \notin DeclaredNames(schema)
    BY <1>1, InPlaceIsSchema DEF declared
  <1>3. \A j \in DOMAIN schema.entities : schema.entities[j].name # walk
    BY <1>1, <1>2, SchemaFields, SemanticAssumption DEF DeclaredNames
  <1>4. CASE walk = NULL
    BY <1>3, <1>4, ChainEnd
  <1>5. CASE walk # NULL
    <2>1. ChainSeen(schema, entity, S \cup {walk}, NULL)
      BY <1>3, <1>5, ChainStep
    <2> QED
      BY <1>3, <1>5, <2>1, ChainEnd
  <1> QED
    BY <1>4, <1>5

LEMMA ParentCheckProgress ==
  ASSUME Known, Progress, validateParentExists, ~hasErrors'
  PROVE  Progress'
  <1>1. /\ Typed /\ schema \in Schema /\ pos \in Nat \ {0}
        /\ schema' = schema /\ pos' = pos /\ pc = "entities" /\ pc' = "cycle"
        /\ pos <= Len(schema.entities) /\ entity.parent # NULL /\ walk' = entity.parent
    BY DEF Known, Typed, TypeOK, validateParentExists
  <1>2. pos \in DOMAIN schema.entities /\ entity.parent \in Names
    BY <1>1, SchemaFields DEF entity
  <1>3. declared(entity.parent)
    BY DEF validateParentExists, Report
  <1>4. entity.parent \in DeclaredNames(schema)
    BY <1>1, <1>2, <1>3, InPlaceIsSchema
       DEF Known, TableInPlace, Building, declared
  <1>5. entity' = entity
    BY <1>1 DEF entity
  <1>6. ChainSeen(schema, entity, {}, entity.parent)
    BY <1>2, ChainStart DEF entity
  <1>7. \E S : ChainSeen(schema, entity, S, entity.parent) /\ entity.name \notin S
    BY <1>6
  <1>8. \A i \in DOMAIN schema.entities : i < pos => SoundAt(schema, i)
    BY <1>1 DEF Progress
  <1> QED
    BY <1>1, <1>4, <1>5, <1>7, <1>8 DEF Progress, OnEntity

LEMMA SkipProgress ==
  ASSUME Known, Progress, skipInheritance
  PROVE  Progress'
  <1>1. /\ schema \in Schema /\ pos \in Nat \ {0}
        /\ schema' = schema /\ pos' = pos /\ pc = "entities" /\ pc' = "entityRules"
        /\ pos <= Len(schema.entities) /\ entity.parent = NULL
    BY DEF Known, Typed, TypeOK, skipInheritance
  <1>2. pos \in DOMAIN schema.entities
    BY <1>1, SchemaFields
  <1>3. Ancestors(schema, entity) \subseteq {}
    BY <1>1, <1>2, ChainStart, ChainEnd DEF entity
  <1>4. SoundAt(schema, pos)
    BY <1>1, <1>3 DEF SoundAt, NotRedefined, entity
  <1>5. \A i \in DOMAIN schema.entities : i < pos => SoundAt(schema, i)
    BY <1>1 DEF Progress
  <1> QED
    BY <1>1, <1>4, <1>5 DEF Progress, OnEntity

LEMMA CycleProgress ==
  ASSUME Known, Progress, cycleStep, ~hasErrors'
  PROVE  Progress'
  <1>1. /\ schema \in Schema /\ pos \in DOMAIN schema.entities
        /\ schema' = schema /\ pos' = pos /\ pc = "cycle"
    BY DEF Known, Typed, TypeOK, InPlace, OnEntity, cycleStep
  <1>2. /\ entity' = entity /\ entity.parent \in DeclaredNames(schema)
        /\ \A i \in DOMAIN schema.entities : i < pos => SoundAt(schema, i)
    BY <1>1 DEF Progress, OnEntity, entity
  <1>3. PICK S : ChainSeen(schema, entity, S, walk) /\ entity.name \notin S
    BY <1>1 DEF Progress
  <1>4. CASE WalkOver /\ (walk = NULL \/ ~BackAtStart) /\ ~declared(walk)
    <2>1. pc' = "redefinition" /\ walk' = entity.parent /\ attr' = 1
      BY <1>4 DEF WalkOver
    <2>2. entity.name \notin Ancestors(schema, entity)
      BY <1>1, <1>3, <1>4, WalkEnds DEF OnEntity, BackAtStart
    <2>3. ChainSeen(schema, entity, {}, entity.parent)
      BY <1>1, ChainStart DEF entity
    <2>4. \A k \in DOMAIN entity.attributes : k < 1 => NotRedefined(schema, entity, k)
      BY <1>1, SchemaFields, EntityFields DEF entity
    <2>5. \A a : \E T : /\ ChainSeen(schema, entity, T, entity.parent)
                        /\ \A j \in DOMAIN schema.entities : schema.entities[j].name \in T =>
                              ~AttributeNamed(schema.entities[j].attributes, a)
      BY <2>3
    <2> QED
      BY <1>1, <1>2, <2>1, <2>2, <2>4, <2>5 DEF Progress, OnEntity, attribute
  <1>5. CASE declared(walk) /\ ~BackAtStart /\ walk' = ancestor(walk).parent /\ pc' = pc
    <2>1. /\ ChainSeen(schema, entity, S \cup {walk}, walk')
          /\ entity.name \notin S \cup {walk}
      BY <1>1, <1>3, <1>5, WalkOn DEF OnEntity, BackAtStart
    <2> QED
      BY <1>1, <1>2, <1>5, <2>1 DEF Progress, OnEntity
  <1>6. ~Report({<<"inheritanceCycle", entity.name, NULL>>})
    BY DEF Report
  <1> QED
    BY <1>4, <1>5, <1>6 DEF cycleStep

LEMMA RedefinitionProgress ==
  ASSUME Known, Progress, redefinitionStep, ~hasErrors'
  PROVE  Progress'
  <1>1. /\ schema \in Schema /\ pos \in DOMAIN schema.entities /\ attr \in Nat \ {0}
        /\ schema' = schema /\ pos' = pos /\ pc = "redefinition" /\ pc' = pc
    BY DEF Known, Typed, TypeOK, InPlace, OnEntity, redefinitionStep
  <1>2. /\ entity' = entity /\ entity.parent \in DeclaredNames(schema)
        /\ \A i \in DOMAIN schema.entities : i < pos => SoundAt(schema, i)
        /\ entity.name \notin Ancestors(schema, entity)
        /\ \A k \in DOMAIN entity.attributes : k < attr => NotRedefined(schema, entity, k)
    BY <1>1 DEF Progress, OnEntity, entity
  <1>3. PICK S : /\ ChainSeen(schema, entity, S, walk)
                 /\ \A j \in DOMAIN schema.entities : schema.entities[j].name \in S =>
                       ~AttributeNamed(schema.entities[j].attributes, attribute.name)
    BY <1>1 DEF Progress
  <1>4. CASE ~declared(walk) /\ attr' = attr + 1 /\ walk' = entity.parent
    <2>1. /\ Ancestors(schema, entity) \subseteq S \cup {walk}
          /\ \A j \in DOMAIN schema.entities : schema.entities[j].name # walk
      BY <1>1, <1>3, <1>4, WalkEnds DEF OnEntity
    <2>2. NotRedefined(schema, entity, attr)
      BY <1>3, <2>1 DEF NotRedefined, attribute
    <2>3. \A k \in DOMAIN entity.attributes : k < attr + 1 => NotRedefined(schema, entity, k)
      <3>1. DOMAIN entity.attributes \subseteq Nat
        BY <1>1, SchemaFields, EntityFields DEF entity
      <3>2. \A k \in DOMAIN entity.attributes : k < attr + 1 => k < attr \/ k = attr
        BY <1>1, <3>1
      <3> QED
        BY <1>2, <2>2, <3>2
    <2>4. ChainSeen(schema, entity, {}, entity.parent)
      BY <1>1, ChainStart DEF entity
    <2>5. \A a : \E T : /\ ChainSeen(schema, entity, T, entity.parent)
                        /\ \A j \in DOMAIN schema.entities : schema.entities[j].name \in T =>
                              ~AttributeNamed(schema.entities[j].attributes, a)
      BY <2>4
    <2> QED
      BY <1>1, <1>2, <1>4, <2>3, <2>5 DEF Progress, OnEntity, attribute
  <1>5. CASE /\ declared(walk)
             /\ ~AttributeNamed(ancestor(walk).attributes, attribute.name)
             /\ walk' = ancestor(walk).parent /\ attr' = attr
    <2>1. ChainSeen(schema, entity, S \cup {walk}, walk')
      BY <1>1, <1>3, <1>5, WalkOn DEF OnEntity
    <2>2. \A j \in DOMAIN schema.entities : schema.entities[j].name = walk =>
              ~AttributeNamed(schema.entities[j].attributes, attribute.name)
      BY <1>1, <1>5 DEF Known, TableInPlace, AllInPlace, Building, ancestor
    <2>3. \A j \in DOMAIN schema.entities : schema.entities[j].name \in S \cup {walk} =>
              ~AttributeNamed(schema.entities[j].attributes, attribute.name)
      BY <1>3, <2>2
    <2>4. attribute' = attribute
      BY <1>2, <1>5 DEF attribute
    <2> QED
      BY <1>1, <1>2, <1>5, <2>1, <2>3, <2>4 DEF Progress, OnEntity
  <1>6. ~Report({<<"attributeRedefined", entity.name, attr>>})
    BY DEF Report
  <1> QED
    BY <1>4, <1>5, <1>6 DEF redefinitionStep

LEMMA RedefinitionsProgress ==
  ASSUME Known, Progress, redefinitionsChecked
  PROVE  Progress'
  <1>1. /\ schema \in Schema /\ pos \in DOMAIN schema.entities /\ attr \in Nat \ {0}
        /\ schema' = schema /\ pos' = pos /\ pc = "redefinition" /\ pc' = "entityRules"
        /\ attr > Len(entity.attributes)
    BY DEF Known, Typed, TypeOK, InPlace, OnEntity, redefinitionsChecked
  <1>2. /\ entity.parent \in DeclaredNames(schema)
        /\ \A i \in DOMAIN schema.entities : i < pos => SoundAt(schema, i)
        /\ entity.name \notin Ancestors(schema, entity)
        /\ \A k \in DOMAIN entity.attributes : k < attr => NotRedefined(schema, entity, k)
    BY <1>1 DEF Progress, OnEntity
  <1>3. \A k \in DOMAIN entity.attributes : k < attr
    BY <1>1, SchemaFields, EntityFields DEF entity
  <1>4. SoundAt(schema, pos)
    BY <1>2, <1>3 DEF SoundAt, entity
  <1> QED
    BY <1>1, <1>2, <1>4 DEF Progress, OnEntity

\* The loops over the entities, and what comes after them.
LEMMA EntityLoopProgress ==
  ASSUME Known, Progress, validateEntityRules \/ entitiesValidated \/ relationshipTypesChecked,
         ~hasErrors'
  PROVE  Progress'
  <1>1. schema' = schema /\ schema \in Schema /\ pos \in Nat \ {0}
    BY DEF validateEntityRules, entitiesValidated, relationshipTypesChecked, Known, Typed, TypeOK
  <1>2. CASE validateEntityRules
    <2>1. pc = "entityRules" /\ (pc' = "done" \/ (pc' = "entities" /\ pos' = pos + 1))
      BY <1>2 DEF validateEntityRules
    <2>2. CASE pc' = "done"
      BY <2>2 DEF Progress, OnEntity
    <2>3. CASE pc' = "entities" /\ pos' = pos + 1
      <3>1. /\ SoundAt(schema, pos)
            /\ \A i \in DOMAIN schema.entities : i < pos => SoundAt(schema, i)
        BY <2>1 DEF Progress, OnEntity
      <3>2. \A i \in DOMAIN schema.entities : i < pos + 1 => i < pos \/ i = pos
        BY <1>1, SchemaFields
      <3> QED
        BY <1>1, <2>3, <3>1, <3>2 DEF Progress, OnEntity
    <2> QED
      BY <2>1, <2>2, <2>3
  <1>3. CASE entitiesValidated
    <2>1. pc = "entities" /\ pos > Len(schema.entities) /\ pc' = "relationships"
      BY <1>3 DEF entitiesValidated, Enter
    <2>2. \A i \in DOMAIN schema.entities : SoundAt(schema, i)
      BY <1>1, <2>1, SchemaFields DEF Progress
    <2> QED
      BY <1>1, <2>1, <2>2, SoundAtEach DEF Progress, OnEntity
  <1>4. CASE relationshipTypesChecked
    <2>1. pc' = "entities" /\ pos' = 1
      BY <1>4 DEF relationshipTypesChecked, Enter
    <2> QED
      BY <1>1, <2>1, SchemaFields DEF Progress, OnEntity
  <1> QED
    BY <1>2, <1>3, <1>4

LEMMA OtherProgress ==
  ASSUME Known, Progress,
         \/ createTable \/ declareEntity \/ entitiesDeclared
         \/ declareRelationship \/ symbolTableBuilt
         \/ checkEntityTypes \/ entityTypesChecked \/ checkRelationshipTypes
         \/ validateRelationship \/ relationshipsValidated
         \/ verdict \/ returned
  PROVE  Progress'
  <1>1. schema' = schema
    BY BindingsStep DEF Known, Next
  <1>2. CASE createTable \/ declareEntity \/ entitiesDeclared \/ declareRelationship
             \/ symbolTableBuilt \/ checkEntityTypes
    BY <1>2 DEF createTable, declareEntity, entitiesDeclared, declareRelationship,
          symbolTableBuilt, checkEntityTypes, Enter, Progress, OnEntity
  <1>3. CASE entityTypesChecked \/ checkRelationshipTypes \/ verdict \/ returned
    BY <1>3 DEF entityTypesChecked, checkRelationshipTypes, verdict, returned, vars,
          Progress, OnEntity
  <1>4. CASE validateRelationship \/ relationshipsValidated
    BY <1>1, <1>4 DEF validateRelationship, relationshipsValidated, Enter, Progress, OnEntity
  <1> QED
    BY <1>2, <1>3, <1>4

LEMMA CheckedStep == Known /\ Checked /\ [Next]_vars => Checked'
  <1> SUFFICES ASSUME Known, Checked, [Next]_vars PROVE Checked'
    OBVIOUS
  <1>1. CASE UNCHANGED vars
    <2>1. /\ UNCHANGED <<schema, entityOf, relationshipOf, pc, pos, attr, walk, depth, status>>
          /\ UNCHANGED hasErrors
      BY <1>1 DEF vars, tableVars, walkVars
    <2>2. Progress => Progress'
      BY <2>1 DEF Progress, entity, attribute
    <2> QED
      BY <2>1, <2>2 DEF Checked
  <1>2. CASE Next
    <2>1. ASSUME ~hasErrors' PROVE ~hasErrors
      <3>1. CASE createTable \/ declareEntity \/ entitiesDeclared \/ declareRelationship
                 \/ symbolTableBuilt \/ checkEntityTypes \/ entityTypesChecked
        BY <2>1, <3>1 DEF createTable, declareEntity, entitiesDeclared, declareRelationship,
              symbolTableBuilt, checkEntityTypes, entityTypesChecked, Report
      <3>2. CASE checkRelationshipTypes \/ relationshipTypesChecked \/ validateParentExists
                 \/ skipInheritance \/ cycleStep \/ redefinitionStep
        BY <2>1, <3>2 DEF checkRelationshipTypes, relationshipTypesChecked,
              validateParentExists, skipInheritance, cycleStep, redefinitionStep, Report, Silent
      <3>3. CASE redefinitionsChecked \/ validateEntityRules \/ entitiesValidated
                 \/ validateRelationship \/ relationshipsValidated \/ verdict \/ returned
        BY <2>1, <3>3 DEF redefinitionsChecked, validateEntityRules, entitiesValidated,
              validateRelationship, relationshipsValidated, verdict, returned, vars, Report, Silent
      <3> QED
        BY <1>2, <3>1, <3>2, <3>3 DEF Next
    <2>2. ASSUME ~hasErrors' PROVE Progress'
      <3>1. Progress
        BY <2>1, <2>2 DEF Checked
      <3> QED
        BY <1>2, <2>2, <3>1, ParentCheckProgress, SkipProgress, CycleProgress,
           RedefinitionProgress, RedefinitionsProgress, EntityLoopProgress, OtherProgress
           DEF Next
    <2>3. ASSUME status' = "SEMANTIC_OK" PROVE InheritanceSound(schema)'
      <3>1. schema' = schema
        BY BindingsStep DEF Known
      <3>2. CASE verdict
        <4>1. pc = "verdict" /\ ~hasErrors
          BY <2>3, <3>2 DEF verdict
        <4> QED
          BY <3>1, <4>1 DEF Checked, Progress
      <3>3. CASE returned
        BY <2>3, <3>1, <3>3 DEF returned, vars, Checked
      <3>4. CASE ~verdict /\ ~returned
        <4>1. pc # "done" => status = NULL
          BY DEF Known, FailuresAgree
        <4>2. CASE createTable \/ declareEntity \/ entitiesDeclared \/ declareRelationship
                   \/ symbolTableBuilt \/ checkEntityTypes \/ entityTypesChecked
          BY <2>3, <4>1, <4>2, SemanticAssumption
             DEF createTable, declareEntity, entitiesDeclared, declareRelationship,
                 symbolTableBuilt, checkEntityTypes, entityTypesChecked
        <4>3. CASE checkRelationshipTypes \/ relationshipTypesChecked \/ validateParentExists
                   \/ skipInheritance \/ cycleStep \/ redefinitionStep
          BY <2>3, <4>1, <4>3, SemanticAssumption
             DEF checkRelationshipTypes, relationshipTypesChecked, validateParentExists,
                 skipInheritance, cycleStep, redefinitionStep
        <4>4. CASE redefinitionsChecked \/ validateEntityRules \/ entitiesValidated
                   \/ validateRelationship \/ relationshipsValidated
          BY <2>3, <4>1, <4>4, SemanticAssumption
             DEF redefinitionsChecked, validateEntityRules, entitiesValidated,
                 validateRelationship, relationshipsValidated
        <4> QED
          BY <1>2, <3>4, <4>2, <4>3, <4>4 DEF Next
      <3> QED
        BY <3>2, <3>3, <3>4
    <2> QED
      BY <2>2, <2>3 DEF Checked
  <1> QED
    BY <1>1, <1>2

\* What is accepted has sound inheritance, for every schema and every depth
\* limit: parents are declared, chains are free of cycles, no attribute of an
\* ancestor is redefined (InheritanceRules.c).
THEOREM AcceptedIsSound == Spec => []AcceptedInheritanceSound
  <1>1. Init => Checked
    BY SemanticAssumption DEF Init, Checked, Progress, OnEntity
  <1>2. Checked => AcceptedInheritanceSound
    BY DEF Checked, AcceptedInheritanceSound
  <1>3. Typed /\ FailuresAgree /\ TableInPlace <=> Known
    BY DEF Known
  <1>4. Spec => []FailuresAgree
    BY AlwaysTyped, FailuresAgreeInit, FailuresAgreeStep, PTL DEF Spec
  <1> QED
    BY <1>1, <1>2, <1>3, <1>4, CheckedStep, AlwaysTyped, AlwaysInPlace, PTL DEF Spec

-----------------------------------------------------------------------------
(* What the rules find and what the promise asks for                       *)

LEMMA CountDistinct ==
  ASSUME NEW n \in Nat, NEW f, DOMAIN f = 1 .. n, f = [i \in 1 .. n |-> f[i]]
  PROVE  /\ IsFiniteSet({f[i] : i \in 1 .. n}) /\ Cardinality({f[i] : i \in 1 .. n}) \in Nat
         /\ Cardinality({f[i] : i \in 1 .. n}) <= n
         /\ Cardinality({f[i] : i \in 1 .. n}) = n <=>
                \A i, j \in 1 .. n : f[i] = f[j] => i = j
  <1> DEFINE T == {f[i] : i \in 1 .. n}
  <1>1. IsFiniteSet(1 .. n) /\ Cardinality(1 .. n) = n
    BY FS_Interval
  <1>2. f \in [1 .. n -> T]
    OBVIOUS
  <1>3. f \in Surjection(1 .. n, T)
    BY <1>2 DEF Surjection
  <1>4. f \in Injection(1 .. n, T) <=> \A i, j \in 1 .. n : f[i] = f[j] => i = j
    BY <1>2 DEF Injection, IsInjective
  <1>5. /\ IsFiniteSet(T) /\ Cardinality(T) <= n
        /\ Cardinality(T) = n <=> f \in Injection(1 .. n, T)
    BY <1>1, <1>3, FS_Surjection
  <1>6. Cardinality(T) \in Nat
    BY <1>5, FS_CardinalityType
  <1> QED
    BY <1>1, <1>4, <1>5, <1>6

\* What the rules read of an entity and of a key part.
LEMMA KeyFields ==
  ASSUME NEW e \in Entity, e.primaryKey # NULL
  PROVE  /\ e.primaryKey \in Seq(QualifiedIdentifier)
         /\ Len(e.primaryKey) \in Nat /\ DOMAIN e.primaryKey = 1 .. Len(e.primaryKey)
         /\ \A i \in DOMAIN e.primaryKey : e.primaryKey[i] \in QualifiedIdentifier
         /\ \A i \in DOMAIN e.primaryKey :
               e.primaryKey[i].entity \in Names \cup {NULL} /\ e.primaryKey[i].attribute \in Names
  <1>1. e.primaryKey \in Seq(QualifiedIdentifier)
    BY DEF Entity
  <1>2. \A i \in DOMAIN e.primaryKey : e.primaryKey[i] \in QualifiedIdentifier
    BY <1>1
  <1> QED
    BY <1>1, <1>2 DEF QualifiedIdentifier

\* The table is that of the schema.
TableFor(s, find) ==
    /\ NamesUnique(s)
    /\ \A n \in Names : find[n] = NULL <=> n \notin DeclaredNames(s)
    /\ \A i \in DOMAIN s.entities : find[s.entities[i].name] = i

LEMMA FindNamed ==
  ASSUME NEW s \in Schema, NEW find, TableFor(s, find), NEW n \in Names, find[n] # NULL
  PROVE  /\ find[n] \in DOMAIN s.entities
         /\ EntityNamed(s, find, n) \in Entity /\ EntityNamed(s, find, n).name = n
         /\ \A i \in DOMAIN s.entities : s.entities[i].name = n => s.entities[i] = EntityNamed(s, find, n)
  <1>1. PICK i \in DOMAIN s.entities : n = s.entities[i].name
    BY DEF TableFor, DeclaredNames
  <1>2. find[n] = i /\ EntityNamed(s, find, n) = s.entities[i]
    BY <1>1 DEF TableFor, EntityNamed
  <1>3. \A j \in DOMAIN s.entities : s.entities[j].name = n => j = i
    BY <1>1 DEF TableFor, NamesUnique, NamedOnce
  <1> QED
    BY <1>1, <1>2, <1>3, SchemaFields

\* EntityPKRules.c:15.
LEMMA KeyPartRule ==
  ASSUME NEW s \in Schema, NEW find, TableFor(s, find), NEW p \in DOMAIN s.entities,
         NEW e, e = s.entities[p], NEW qid \in QualifiedIdentifier
  PROVE  validatePKIdentifier(s, find, e, qid) = {} <=> KeyPartSound(s, e, qid)
  <1> DEFINE t == Target(e, qid)
  <1>1. /\ e \in Entity /\ e.name \in Names /\ qid.entity \in Names \cup {NULL}
        /\ t = Owner(e, qid) /\ t \in Names
    BY SchemaFields DEF QualifiedIdentifier, Target, Owner
  <1>2. \A i \in DOMAIN s.entities : s.entities[i].name = e.name => s.entities[i] = e
    BY DEF TableFor, NamesUnique, NamedOnce
  <1> HIDE DEF t
  <1>3. CASE t = e.name
    <2>1. KeyPartSound(s, e, qid) <=>
             /\ AttributeNamed(e.attributes, qid.attribute)
             /\ ~HasModifier(lookupAttribute(e.attributes, qid.attribute), "MOD_DERIVED")
      BY <1>1, <1>2, <1>3 DEF KeyPartSound
    <2> QED
      BY <1>3, <2>1 DEF validatePKIdentifier, t
  <1>4. CASE t # e.name /\ ~e.weak
    <2>1. ~KeyPartSound(s, e, qid)
      BY <1>1, <1>4 DEF KeyPartSound
    <2> QED
      BY <1>4, <2>1 DEF validatePKIdentifier, t
  <1>5. CASE t # e.name /\ e.weak /\ find[t] = NULL
    <2>1. ~KeyPartSound(s, e, qid)
      BY <1>1, <1>5 DEF KeyPartSound, TableFor, DeclaredNames
    <2> QED
      BY <1>5, <2>1 DEF validatePKIdentifier, t
  <1>6. CASE t # e.name /\ e.weak /\ find[t] # NULL
    <2>1. PICK o : o = EntityNamed(s, find, t)
      OBVIOUS
    <2>2. /\ find[t] \in DOMAIN s.entities /\ o = s.entities[find[t]] /\ o.name = t
          /\ \A i \in DOMAIN s.entities : s.entities[i].name = t => s.entities[i] = o
      BY <1>1, <1>6, <2>1, FindNamed DEF EntityNamed
    <2>3. KeyPartSound(s, e, qid) <=>
             /\ AttributeNamed(o.attributes, qid.attribute)
             /\ ~HasModifier(lookupAttribute(o.attributes, qid.attribute), "MOD_DERIVED")
      BY <1>1, <1>6, <2>2 DEF KeyPartSound
    <2> QED
      BY <1>6, <2>1, <2>3 DEF validatePKIdentifier, t
  <1> QED
    BY <1>3, <1>4, <1>5, <1>6

\* EntityPKRules.c:158: one label for each part.
LEMMA DuplicateRule ==
  ASSUME NEW e \in Entity, e.primaryKey # NULL, LabelsTellApart(e)
  PROVE  DuplicateKeyAttributes(e) = {} <=>
             Cardinality({<<Owner(e, e.primaryKey[i]), e.primaryKey[i].attribute>> :
                              i \in DOMAIN e.primaryKey}) = Len(e.primaryKey)
  <1> DEFINE n == Len(e.primaryKey)
             part(i) == <<Owner(e, e.primaryKey[i]), e.primaryKey[i].attribute>>
             label(i) == PKLabel(e, e.primaryKey[i])
             f == [i \in 1 .. n |-> part(i)]
  <1>1. n \in Nat /\ DOMAIN e.primaryKey = 1 .. n
    BY KeyFields
  <1>2. \A i, j \in 1 .. n : label(i) = label(j) <=> part(i) = part(j)
    <2>1. ASSUME NEW i \in 1 .. n, NEW j \in 1 .. n, label(i) = label(j)
          PROVE  part(i) = part(j)
      BY <1>1, <2>1 DEF LabelsTellApart
    <2>2. \A q : Target(e, q) = Owner(e, q)
      BY DEF Target, Owner
    <2>3. ASSUME NEW i \in 1 .. n, NEW j \in 1 .. n, part(i) = part(j)
          PROVE  label(i) = label(j)
      <3>1. /\ Target(e, e.primaryKey[i]) = Target(e, e.primaryKey[j])
            /\ e.primaryKey[i].attribute = e.primaryKey[j].attribute
        BY <2>2, <2>3
      <3> QED
        BY <3>1 DEF PKLabel
    <2> QED
      BY <2>1, <2>3
  <1>3. DuplicateKeyAttributes(e) = {} <=> \A k \in 1 .. n : \A i \in 1 .. k - 1 : label(i) # label(k)
    BY <1>1 DEF DuplicateKeyAttributes
  <1> HIDE DEF n, part, label
  <1>4. (\A k \in 1 .. n : \A i \in 1 .. k - 1 : label(i) # label(k)) <=>
            \A i, j \in 1 .. n : part(i) = part(j) => i = j
    <2>1. ASSUME \A k \in 1 .. n : \A i \in 1 .. k - 1 : label(i) # label(k),
                 NEW i \in 1 .. n, NEW j \in 1 .. n, part(i) = part(j)
          PROVE  i = j
      <3>1. label(i) = label(j)
        BY <1>2, <2>1
      <3>2. ~(i < j) /\ ~(j < i)
        BY <1>1, <2>1, <3>1
      <3> QED
        BY <1>1, <3>2
    <2>2. ASSUME \A i, j \in 1 .. n : part(i) = part(j) => i = j,
                 NEW k \in 1 .. n, NEW i \in 1 .. k - 1
          PROVE  label(i) # label(k)
      <3>1. i \in 1 .. n /\ i # k
        BY <1>1
      <3> QED
        BY <1>2, <2>2, <3>1
    <2> QED
      BY <2>1, <2>2
  <1>5. \A i \in 1 .. n : f[i] = part(i)
    OBVIOUS
  <1>6. {f[i] : i \in 1 .. n} = {part(i) : i \in 1 .. n}
    BY <1>5
  <1>7. Cardinality({f[i] : i \in 1 .. n}) = n <=> \A i, j \in 1 .. n : f[i] = f[j] => i = j
    <2>1. DOMAIN f = 1 .. n /\ f = [i \in 1 .. n |-> f[i]]
      OBVIOUS
    <2> HIDE DEF f
    <2> QED
      BY <1>1, <2>1, CountDistinct
  <1>8. Cardinality({part(i) : i \in 1 .. n}) = n <=> \A i, j \in 1 .. n : part(i) = part(j) => i = j
    BY <1>5, <1>6, <1>7
  <1>9. {part(i) : i \in 1 .. n} =
            {<<Owner(e, e.primaryKey[i]), e.primaryKey[i].attribute>> : i \in DOMAIN e.primaryKey}
    BY <1>1 DEF part
  <1> QED
    BY <1>3, <1>4, <1>8, <1>9 DEF n

\* EntityPKRules.c:77.
LEMMA KeyRule ==
  ASSUME NEW s \in Schema, NEW find, TableFor(s, find), NEW p \in DOMAIN s.entities,
         NEW e, e = s.entities[p], OrdinaryEntity(e)
  PROVE  validateEntityPrimaryKey(s, find, e) = {} <=> KeySound(s, e)
  <1> DEFINE inline == InlinePrimaries(e)
             parts == {<<Owner(e, e.primaryKey[i]), e.primaryKey[i].attribute>> :
                           i \in DOMAIN e.primaryKey}
  <1>1. e \in Entity /\ e.attributes \in Seq(Attribute)
    BY SchemaFields, EntityFields
  <1>2. IsFiniteSet(inline) /\ Cardinality(inline) \in Nat
    <2>1. IsFiniteSet(1 .. Len(e.attributes)) /\ inline \subseteq 1 .. Len(e.attributes)
      BY <1>1, FS_Interval DEF InlinePrimaries
    <2> HIDE DEF inline
    <2> QED
      BY <2>1, FS_Subset, FS_CardinalityType
  <1>3. Cardinality(inline) = 0 <=> inline = {}
    BY <1>2, FS_EmptySet
  <1>4. KeySound(s, e) =
           CASE e.parent # NULL     -> e.primaryKey = NULL /\ inline = {}
             [] e.parent = NULL /\ e.primaryKey = NULL -> Cardinality(inline) = 1
             [] e.parent = NULL /\ e.primaryKey # NULL ->
                   /\ inline = {}
                   /\ e.primaryKey # <<>>
                   /\ Cardinality(parts) = Len(e.primaryKey)
                   /\ \A i \in DOMAIN e.primaryKey : KeyPartSound(s, e, e.primaryKey[i])
    BY DEF KeySound, InlinePrimaries
  <1> DEFINE found == validateEntityPrimaryKey(s, find, e)
             one(rule) == {<<rule, e.name, NULL>>}
  <1>5. found =
        IF e.parent # NULL
        THEN IF e.primaryKey # NULL \/ inline # {} THEN one("keyOnAChild") ELSE {}
        ELSE IF e.primaryKey # NULL /\ inline # {} THEN one("twoKindsOfKey")
        ELSE IF Cardinality(inline) > 1 THEN one("severalInlineKeys")
        ELSE IF e.primaryKey = NULL
        THEN IF inline = {} THEN one("noKey") ELSE {}
        ELSE IF e.primaryKey = <<>> THEN one("emptyKey")
        ELSE DuplicateKeyAttributes(e) \cup
             UNION {validatePKIdentifier(s, find, e, e.primaryKey[i]) :
                    i \in DOMAIN e.primaryKey}
    BY DEF validateEntityPrimaryKey
  <1>6. \A rule : one(rule) # {}
    OBVIOUS
  <1> HIDE DEF inline, parts, found, one
  <1>7. CASE e.parent # NULL
    BY <1>4, <1>5, <1>6, <1>7 DEF found
  <1>8. CASE e.parent = NULL /\ e.primaryKey = NULL
    <2>1. found = {} <=> ~(Cardinality(inline) > 1) /\ inline # {}
      BY <1>5, <1>6, <1>8
    <2>2. KeySound(s, e) <=> Cardinality(inline) = 1
      BY <1>4, <1>8
    <2> QED
      BY <1>2, <1>3, <2>1, <2>2 DEF found
  <1>9. CASE e.parent = NULL /\ e.primaryKey # NULL
    <2>1. CASE inline # {}
      BY <1>4, <1>5, <1>6, <1>9, <2>1 DEF found
    <2>2. CASE inline = {} /\ e.primaryKey = <<>>
      <3>1. ~(Cardinality(inline) > 1)
        BY <1>3, <2>2
      <3> QED
        BY <1>4, <1>5, <1>6, <1>9, <2>2, <3>1 DEF found
    <2>3. CASE inline = {} /\ e.primaryKey # <<>>
      <3>1. ~(Cardinality(inline) > 1)
        BY <1>3, <2>3
      <3>2. found = DuplicateKeyAttributes(e) \cup
                    UNION {validatePKIdentifier(s, find, e, e.primaryKey[i]) :
                               i \in DOMAIN e.primaryKey}
        BY <1>5, <1>9, <2>3, <3>1
      <3>3. DuplicateKeyAttributes(e) = {} <=> Cardinality(parts) = Len(e.primaryKey)
        BY <1>1, <1>9, DuplicateRule DEF parts, OrdinaryEntity
      <3>4. ASSUME NEW i \in DOMAIN e.primaryKey
            PROVE  validatePKIdentifier(s, find, e, e.primaryKey[i]) = {} <=>
                       KeyPartSound(s, e, e.primaryKey[i])
        <4>1. e.primaryKey[i] \in QualifiedIdentifier
          BY <1>1, <1>9, KeyFields
        <4> QED
          BY <4>1, KeyPartRule
      <3>5. found = {} <=>
               /\ DuplicateKeyAttributes(e) = {}
               /\ \A i \in DOMAIN e.primaryKey :
                     validatePKIdentifier(s, find, e, e.primaryKey[i]) = {}
        BY <3>2
      <3>6. found = {} <=> /\ Cardinality(parts) = Len(e.primaryKey)
                           /\ \A i \in DOMAIN e.primaryKey : KeyPartSound(s, e, e.primaryKey[i])
        BY <3>3, <3>4, <3>5
      <3>7. KeySound(s, e) <=>
                           /\ Cardinality(parts) = Len(e.primaryKey)
                           /\ \A i \in DOMAIN e.primaryKey : KeyPartSound(s, e, e.primaryKey[i])
        BY <1>4, <1>9, <2>3
      <3> QED
        BY <3>6, <3>7 DEF found
    <2> QED
      BY <2>1, <2>2, <2>3
  <1> QED
    BY <1>7, <1>8, <1>9

\* WeakEntityRules.c:13: below its capacity the array has every entity a key refers to.
LEMMA ReferencesKept ==
  ASSUME NEW e \in Entity, e.primaryKey # NULL, OrdinaryEntity(e)
  PROVE  ReferencedEntities(e) = {e.primaryKey[i].entity : i \in DOMAIN e.primaryKey} \ {NULL}
  <1> DEFINE n == Len(e.primaryKey)
             q(k) == {e.primaryKey[i].entity : i \in 1 .. k} \ {NULL}
             all == {e.primaryKey[i].entity : i \in DOMAIN e.primaryKey} \ {NULL}
  <1>1. n \in Nat /\ DOMAIN e.primaryKey = 1 .. n
    BY KeyFields
  <1>2. Cardinality(all) <= MAX_WEAK_ENTITY_REFERENCES
    BY DEF OrdinaryEntity
  <1>3. ReferencedEntities(e) =
            UNION {q(k) : k \in {j \in 1 .. n : Cardinality(q(j)) <= MAX_WEAK_ENTITY_REFERENCES}}
    BY <1>1 DEF ReferencedEntities
  <1>4. q(n) = all
    BY <1>1
  <1>5. \A k \in 1 .. n : q(k) \subseteq all
    BY <1>1
  <1> HIDE DEF n, q, all
  <1>6. ReferencedEntities(e) \subseteq all
    BY <1>3, <1>5
  <1>7. CASE n = 0
    <2>1. all = {}
      BY <1>1, <1>7 DEF all
    <2> QED
      BY <1>6, <2>1 DEF all
  <1>8. CASE n # 0
    <2>1. n \in {j \in 1 .. n : Cardinality(q(j)) <= MAX_WEAK_ENTITY_REFERENCES}
      BY <1>1, <1>2, <1>4, <1>8
    <2>2. all \subseteq ReferencedEntities(e)
      BY <1>3, <1>4, <2>1
    <2> QED
      BY <1>6, <2>2 DEF all
  <1> QED
    BY <1>7, <1>8

LEMMA WeakRule ==
  ASSUME NEW s \in Schema, NEW e \in Entity, OrdinaryEntity(e), e.weak,
         e.primaryKey = NULL \/ e.primaryKey # <<>>
  PROVE  validateWeakEntityRelationships(s, e) = {} <=> WeakSound(s, e)
  <1>1. CASE e.primaryKey = NULL
    BY <1>1 DEF validateWeakEntityRelationships, WeakSound
  <1>2. CASE e.primaryKey # NULL /\ s.relationships = <<>>
    BY <1>2 DEF validateWeakEntityRelationships, WeakSound
  <1>3. CASE e.primaryKey # NULL /\ s.relationships # <<>>
    <2> DEFINE Joint(m) == \E i \in DOMAIN s.relationships :
                              /\ Participates(s.relationships[i], e.name)
                              /\ Participates(s.relationships[i], m)
    <2>1. validateWeakEntityRelationships(s, e) = {} <=> \A m \in ReferencedEntities(e) : Joint(m)
      BY <1>3 DEF validateWeakEntityRelationships
    <2>2. \A m : Joint(m) <=> \E j \in DOMAIN s.relationships :
                                 {e.name, m} \subseteq ParticipantNames(s.relationships[j])
      BY DEF Participates, ParticipantNames
    <2> HIDE DEF Joint
    <2>3. (\A m \in ReferencedEntities(e) : Joint(m)) <=>
              \A i \in DOMAIN e.primaryKey : e.primaryKey[i].entity # NULL =>
                  Joint(e.primaryKey[i].entity)
      BY <1>3, ReferencesKept
    <2> QED
      BY <1>3, <2>1, <2>2, <2>3 DEF WeakSound
  <1> QED
    BY <1>1, <1>2, <1>3

LEMMA ModifierFields ==
  ASSUME NEW attributes \in Seq(Attribute), NEW i \in DOMAIN attributes
  PROVE  \A j \in DOMAIN attributes[i].modifiers :
            /\ attributes[i].modifiers[j].defaultValue \in Literal \cup {NULL}
            /\ attributes[i].modifiers[j].defaultValue # NULL =>
                  attributes[i].modifiers[j].defaultValue.type \in LiteralType
  <1>1. attributes[i] \in Attribute
    OBVIOUS
  <1>2. attributes[i].modifiers \in Seq(Modifier)
    BY <1>1 DEF Attribute
  <1>3. \A j \in DOMAIN attributes[i].modifiers : attributes[i].modifiers[j] \in Modifier
    BY <1>2
  <1>4. \A m \in Modifier : m.defaultValue \in Literal \cup {NULL}
    BY DEF Modifier
  <1>5. \A v \in Literal : v.type \in LiteralType
    BY DEF Literal
  <1> QED
    BY <1>3, <1>4, <1>5

\* AttributeModifierRules.c:35, 78.
LEMMA ModifierRules ==
  ASSUME NEW e \in Entity, DefaultsValued(e.attributes)
  PROVE  /\ validatePrimaryModifierTypes(e) = {} <=> KeyTypesSound(e)
         /\ DefaultsTyped(e.attributes) => validateDefaultModifierTypes(e) = {}
  <1>1. validatePrimaryModifierTypes(e) = {} <=> KeyTypesSound(e)
    BY DEF validatePrimaryModifierTypes, KeyTypesSound, isPrimaryKeyType
  <1>2. ASSUME DefaultsTyped(e.attributes), NEW i \in DOMAIN e.attributes,
               HasModifier(e.attributes[i], "MOD_DEFAULT")
        PROVE  isLiteralType(e.attributes[i].kind)
    <2>1. PICK j \in DOMAIN e.attributes[i].modifiers :
              e.attributes[i].modifiers[j].type = "MOD_DEFAULT"
      BY <1>2 DEF HasModifier
    <2>2. PICK v : v = e.attributes[i].modifiers[j].defaultValue.type
      OBVIOUS
    <2>3. v \in LiteralType
      BY <2>1, <2>2, ModifierFields, EntityFields DEF DefaultsValued
    <2>4. inferLiteralType(v) = e.attributes[i].kind
      BY <1>2, <2>1, <2>2 DEF DefaultsTyped
    <2> QED
      BY <2>3, <2>4 DEF inferLiteralType, isLiteralType, LiteralType
  <1> QED
    BY <1>1, <1>2 DEF validateDefaultModifierTypes

\* EntityValidator.c:16, after the inheritance rules.
LEMMA EntityRules ==
  ASSUME NEW s \in Schema, NEW find, TableFor(s, find), NEW p \in DOMAIN s.entities,
         NEW e, e = s.entities[p], OrdinaryEntity(e)
  PROVE  /\ entityRules(s, find, e) = {} => KeySound(s, e) /\ WeakSound(s, e) /\ KeyTypesSound(e)
         /\ KeySound(s, e) /\ WeakSound(s, e) /\ KeyTypesSound(e) /\ DefaultsTyped(e.attributes) =>
                entityRules(s, find, e) = {}
  <1>1. e \in Entity /\ DefaultsValued(e.attributes)
    BY SchemaFields DEF OrdinaryEntity
  <1>2. validateEntityPrimaryKey(s, find, e) = {} <=> KeySound(s, e)
    BY KeyRule
  <1>3. KeySound(s, e) => e.primaryKey = NULL \/ e.primaryKey # <<>>
    BY DEF KeySound
  <1>4. ~e.weak => WeakSound(s, e)
    BY DEF WeakSound
  <1>5. entityRules(s, find, e) = {} <=>
           /\ validateEntityPrimaryKey(s, find, e) = {}
           /\ e.weak => validateWeakEntityRelationships(s, e) = {}
           /\ validateDefaultModifierTypes(e) = {} /\ validatePrimaryModifierTypes(e) = {}
    BY DEF entityRules
  <1> QED
    BY <1>1, <1>2, <1>3, <1>4, <1>5, ModifierRules, WeakRule

LEMMA ParticipantFields ==
  ASSUME NEW s \in Schema, NEW p \in DOMAIN s.relationships, NEW r, r = s.relationships[p]
  PROVE  /\ r \in Relationship /\ r.participants \in Seq(Participant)
         /\ r.attributes \in Seq(Attribute)
         /\ Len(r.participants) \in Nat /\ DOMAIN r.participants = 1 .. Len(r.participants)
         /\ \A i \in DOMAIN r.participants : r.participants[i].entityName \in Names
  <1>1. r \in Relationship
    BY SchemaFields
  <1>2. r.participants \in Seq(Participant) /\ r.attributes \in Seq(Attribute)
    BY <1>1 DEF Relationship
  <1>3. Len(r.participants) \in Nat /\ DOMAIN r.participants = 1 .. Len(r.participants)
    BY <1>2
  <1>4. \A i \in DOMAIN r.participants : r.participants[i] \in Participant
    BY <1>2, <1>3
  <1>5. \A q \in Participant : q.entityName \in Names
    BY DEF Participant
  <1> QED
    BY <1>1, <1>2, <1>3, <1>4, <1>5

\* RelationshipParticipantRules.c:43: the array has all that a participant is compared with.
LEMMA UniqueRule ==
  ASSUME NEW s \in Schema, NEW p \in DOMAIN s.relationships, NEW r, r = s.relationships[p],
         OrdinaryRelationship(r)
  PROVE  validateUniqueParticipants(r) = {} <=>
             Cardinality(ParticipantNames(r)) = Len(r.participants)
  <1> DEFINE n == Len(r.participants)
             name(i) == r.participants[i].entityName
             f == [i \in 1 .. n |-> name(i)]
  <1>1. n \in Nat /\ DOMAIN r.participants = 1 .. n /\ n <= MAX_RELATIONSHIP_PARTICIPANTS + 1
    BY ParticipantFields DEF OrdinaryRelationship
  <1>2. validateUniqueParticipants(r) = {} <=>
            \A k \in 1 .. n : \A i \in 1 .. k - 1 :
                ~(i <= MAX_RELATIONSHIP_PARTICIPANTS /\ name(i) = name(k))
    BY <1>1 DEF validateUniqueParticipants
  <1> HIDE DEF n, name
  <1>3. (\A k \in 1 .. n : \A i \in 1 .. k - 1 :
             ~(i <= MAX_RELATIONSHIP_PARTICIPANTS /\ name(i) = name(k))) <=>
            \A i, j \in 1 .. n : name(i) = name(j) => i = j
    <2>1. ASSUME NEW k \in 1 .. n, NEW i \in 1 .. k - 1
          PROVE  i <= MAX_RELATIONSHIP_PARTICIPANTS /\ i \in 1 .. n /\ i < k
      BY <1>1, SemanticAssumption
    <2>2. ASSUME \A k \in 1 .. n : \A i \in 1 .. k - 1 :
                     ~(i <= MAX_RELATIONSHIP_PARTICIPANTS /\ name(i) = name(k)),
                 NEW i \in 1 .. n, NEW j \in 1 .. n, name(i) = name(j)
          PROVE  i = j
      <3>1. ASSUME NEW a \in 1 .. n, NEW b \in 1 .. n, name(a) = name(b), a < b PROVE FALSE
        <4>1. a \in 1 .. b - 1
          BY <1>1, <3>1
        <4> QED
          BY <2>1, <2>2, <3>1, <4>1
      <3>2. ~(i < j) /\ ~(j < i)
        BY <2>2, <3>1
      <3> QED
        BY <1>1, <3>2
    <2>3. ASSUME \A i, j \in 1 .. n : name(i) = name(j) => i = j,
                 NEW k \in 1 .. n, NEW i \in 1 .. k - 1, name(i) = name(k)
          PROVE  FALSE
      <3>1. i \in 1 .. n /\ i # k
        BY <1>1, <2>1
      <3> QED
        BY <2>3, <3>1
    <2> QED
      BY <2>2, <2>3
  <1>4. \A i \in 1 .. n : f[i] = name(i)
    OBVIOUS
  <1>5. Cardinality({f[i] : i \in 1 .. n}) = n <=> \A i, j \in 1 .. n : f[i] = f[j] => i = j
    <2>1. DOMAIN f = 1 .. n /\ f = [i \in 1 .. n |-> f[i]]
      OBVIOUS
    <2> HIDE DEF f
    <2> QED
      BY <1>1, <2>1, CountDistinct
  <1>6. {f[i] : i \in 1 .. n} = {name(i) : i \in 1 .. n}
    BY <1>4
  <1>7. ParticipantNames(r) = {name(i) : i \in 1 .. n}
    BY <1>1 DEF ParticipantNames, name
  <1> QED
    BY <1>2, <1>3, <1>4, <1>5, <1>6, <1>7 DEF n

\* RelationshipValidator.c:15.
LEMMA RelationshipRules ==
  ASSUME NEW s \in Schema, NEW find, TableFor(s, find), NEW p \in DOMAIN s.relationships,
         NEW r, r = s.relationships[p], OrdinaryRelationship(r)
  PROVE  relationshipRules(s, find, r) = {} <=> RelationshipSound(s, r)
  <1>1. /\ Len(r.participants) \in Nat
        /\ \A i \in DOMAIN r.participants : r.participants[i].entityName \in Names
    BY ParticipantFields
  <1>2. validateUniqueParticipants(r) = {} <=>
            Cardinality(ParticipantNames(r)) = Len(r.participants)
    BY UniqueRule
  <1>3. validateParticipantEntitiesExist(find, r) = {} <=>
            ParticipantNames(r) \subseteq DeclaredNames(s)
    <2>1. validateParticipantEntitiesExist(find, r) = {} <=>
              \A k \in DOMAIN r.participants : find[r.participants[k].entityName] # NULL
      BY DEF validateParticipantEntitiesExist
    <2> QED
      BY <1>1, <2>1 DEF TableFor, ParticipantNames
  <1>4. validateMinimumParticipants(r) = {} <=> Len(r.participants) >= 2
    <2>1. Len(r.participants) < 2 <=> ~(Len(r.participants) >= 2)
      BY <1>1
    <2>2. <<"tooFewParticipants", r.name, NULL>> \in {<<"tooFewParticipants", r.name, NULL>>}
      OBVIOUS
    <2> QED
      BY <2>1, <2>2, Zenon DEF validateMinimumParticipants
  <1>5. validateWeakEntityParticipation(s, find, r) = {} <=>
            \A i \in DOMAIN s.entities, j \in DOMAIN r.participants :
               s.entities[i].weak /\ s.entities[i].name = r.participants[j].entityName =>
                   r.participants[j].participation = "PARTICIPATION_TOTAL"
    <2>1. validateWeakEntityParticipation(s, find, r) = {} <=>
              \A k \in DOMAIN r.participants :
                 ~ /\ find[r.participants[k].entityName] # NULL
                   /\ EntityNamed(s, find, r.participants[k].entityName).weak
                   /\ r.participants[k].participation # "PARTICIPATION_TOTAL"
      BY DEF validateWeakEntityParticipation
    <2>2. ASSUME NEW k \in DOMAIN r.participants, NEW n, n = r.participants[k].entityName
          PROVE  (find[n] # NULL /\ EntityNamed(s, find, n).weak) <=>
                     \E i \in DOMAIN s.entities : s.entities[i].weak /\ s.entities[i].name = n
      <3>1. n \in Names
        BY <1>1, <2>2
      <3>2. CASE find[n] = NULL
        BY <3>1, <3>2 DEF TableFor, DeclaredNames
      <3>3. CASE find[n] # NULL
        BY <3>1, <3>3, FindNamed DEF EntityNamed
      <3> QED
        BY <3>2, <3>3
    <2> QED
      BY <2>1, <2>2
  <1>6. validateRelationshipAttributeModifiers(r) = {} <=>
            ~\E i \in DOMAIN r.attributes : HasModifier(r.attributes[i], "MOD_PRIMARY")
    BY DEF validateRelationshipAttributeModifiers
  <1> QED
    BY <1>2, <1>3, <1>4, <1>5, <1>6 DEF relationshipRules, RelationshipSound

\* TypeChecker.c:33.
EntityTyped(e) ==
    /\ DefaultsTyped(e.attributes)
    /\ \A k \in DOMAIN e.assertions : ProperCondition(e.assertions[k], e.attributes)

LEMMA MistypedRule ==
  ASSUME NEW attributes, DefaultsValued(attributes)
  PROVE  MistypedDefaults(attributes) = {} <=> DefaultsTyped(attributes)
  BY DEF MistypedDefaults, DefaultsTyped, DefaultsValued

LEMMA TypeRules ==
  ASSUME NEW e, OrdinaryEntity(e)
  PROVE  checkDefaults(e) \cup checkAssertions(e) = {} <=> EntityTyped(e)
  <1>1. checkDefaults(e) = {} <=> DefaultsTyped(e.attributes)
    BY MistypedRule DEF checkDefaults, OrdinaryEntity
  <1>2. checkAssertions(e) = {} <=>
            \A k \in DOMAIN e.assertions :
                inferExpressionType(e.assertions[k], e.attributes).kind = "TYPE_BOOL"
    BY DEF checkAssertions
  <1>3. \A k \in DOMAIN e.assertions :
            inferExpressionType(e.assertions[k], e.attributes).kind = "TYPE_BOOL" <=>
                ProperCondition(e.assertions[k], e.attributes)
    BY DEF OrdinaryEntity, ProperCondition
  <1> QED
    BY <1>1, <1>2, <1>3 DEF EntityTyped

\* TypeChecker.c:72: a default that is no wild pointer is a mismatch.
LEMMA RelationshipTypeRules ==
  ASSUME NEW r, OrdinaryRelationship(r), ~ReadsWildPointer(r)
  PROVE  checkRelationshipDefaults(r) = {} <=> DefaultsTyped(r.attributes)
  <1>1. checkRelationshipDefaults(r) = {} <=> RelationshipDefaults(r) = {}
    BY DEF checkRelationshipDefaults
  <1>2. ASSUME RelationshipDefaults(r) = {} PROVE MistypedDefaults(r.attributes) = {}
    <2>1. ASSUME NEW i \in DOMAIN r.attributes, NEW j \in DOMAIN r.attributes[i].modifiers,
                 r.attributes[i].modifiers[j].type = "MOD_DEFAULT",
                 r.attributes[i].modifiers[j].defaultValue # NULL
          PROVE  FALSE
      <3>1. <<i, j>> \in RelationshipDefaults(r)
        <4> DEFINE D(a) == {<<a, b>> : b \in {k \in DOMAIN r.attributes[a].modifiers :
                               /\ r.attributes[a].modifiers[k].type = "MOD_DEFAULT"
                               /\ r.attributes[a].modifiers[k].defaultValue # NULL}}
        <4>1. <<i, j>> \in D(i)
          BY <2>1
        <4>2. RelationshipDefaults(r) = UNION {D(a) : a \in DOMAIN r.attributes}
          BY DEF RelationshipDefaults
        <4> HIDE DEF D
        <4> QED
          BY <4>1, <4>2
      <3> QED
        BY <1>2, <3>1
    <2> QED
      BY <2>1 DEF MistypedDefaults
  <1>3. ASSUME RelationshipDefaults(r) # {} PROVE MistypedDefaults(r.attributes) # {}
    BY <1>3 DEF OrdinaryRelationship
  <1>4. DefaultsValued(r.attributes)
    BY DEF OrdinaryRelationship
  <1> QED
    BY <1>1, <1>2, <1>3, <1>4, MistypedRule

-----------------------------------------------------------------------------
(* No sound schema is rejected                                             *)

\* The first ancestor, and where the chain goes on.
LEMMA AncestorsStart ==
  ASSUME NEW s, NEW i \in DOMAIN s.entities, s.entities[i].parent # NULL
  PROVE  s.entities[i].parent \in Ancestors(s, s.entities[i])
  BY DEF Ancestors, ParentNames

LEMMA AncestorsGoOn ==
  ASSUME NEW s, NEW e, NEW i \in DOMAIN s.entities, s.entities[i].parent # NULL,
         s.entities[i].name \in Ancestors(s, e)
  PROVE  s.entities[i].parent \in Ancestors(s, e)
  BY DEF Ancestors, ParentNames, ClosedUnderParent

LEMMA AncestorsDeclared ==
  ASSUME NEW s, NEW e, InheritanceSound(s), NEW n \in Ancestors(s, e)
  PROVE  n \in DeclaredNames(s)
  BY DEF InheritanceSound, Ancestors, ParentNames

LEMMA DeclaredFinite ==
  ASSUME NEW s \in Schema
  PROVE  /\ IsFiniteSet(DeclaredNames(s))
         /\ Cardinality(DeclaredNames(s)) \in Nat
         /\ Cardinality(DeclaredNames(s)) <= Len(s.entities)
  <1> DEFINE n == Len(s.entities)
             f == [i \in 1 .. n |-> s.entities[i].name]
  <1>1. n \in Nat /\ DOMAIN s.entities = 1 .. n
    BY SchemaFields
  <1>2. DeclaredNames(s) = {f[i] : i \in 1 .. n}
    BY <1>1 DEF DeclaredNames
  <1>3. DOMAIN f = 1 .. n /\ f = [i \in 1 .. n |-> f[i]]
    OBVIOUS
  <1> HIDE DEF f
  <1> QED
    BY <1>1, <1>2, <1>3, CountDistinct

\* What the walk of validateInheritanceCycles has passed in a sound schema: as many
\* declared names as it counts, each of which inherits from where it stands.
Climbed(s, e, V, w, d) ==
    /\ V \subseteq DeclaredNames(s) /\ e.name \notin V
    /\ IsFiniteSet(V) /\ Cardinality(V) = d
    /\ w # NULL => /\ w \in Ancestors(s, e)
                   /\ \A i \in DOMAIN s.entities :
                         s.entities[i].name \in V => w \in Ancestors(s, s.entities[i])

LEMMA ClimbStart ==
  ASSUME NEW s, NEW i \in DOMAIN s.entities
  PROVE  Climbed(s, s.entities[i], {}, s.entities[i].parent, 0)
  BY AncestorsStart, FS_EmptySet DEF Climbed

\* The walk stands on a name it has not seen, and not on the first one.
LEMMA ClimbFresh ==
  ASSUME NEW s \in Schema, InheritanceSound(s), NEW p \in DOMAIN s.entities,
         NEW V, NEW w, NEW d, w # NULL, Climbed(s, s.entities[p], V, w, d)
  PROVE  w \in DeclaredNames(s) /\ w \notin V /\ w # s.entities[p].name
  <1>1. w \in DeclaredNames(s)
    BY AncestorsDeclared DEF Climbed
  <1>2. \A i \in DOMAIN s.entities : s.entities[i].name \notin Ancestors(s, s.entities[i])
    BY DEF InheritanceSound
  <1>3. w # s.entities[p].name
    BY <1>2 DEF Climbed
  <1>4. ASSUME w \in V PROVE FALSE
    <2>1. PICK i \in DOMAIN s.entities : s.entities[i].name = w
      BY <1>1 DEF DeclaredNames
    <2>2. w \in Ancestors(s, s.entities[i])
      BY <1>4, <2>1 DEF Climbed
    <2> QED
      BY <1>2, <2>1, <2>2
  <1> QED
    BY <1>1, <1>3, <1>4

LEMMA ClimbStep ==
  ASSUME NEW s \in Schema, InheritanceSound(s), NamesUnique(s), NEW p \in DOMAIN s.entities,
         NEW V, NEW d \in Nat, NEW q \in DOMAIN s.entities, s.entities[q].name # NULL,
         Climbed(s, s.entities[p], V, s.entities[q].name, d)
  PROVE  Climbed(s, s.entities[p], V \cup {s.entities[q].name}, s.entities[q].parent, d + 1)
  <1> DEFINE w == s.entities[q].name
             v == s.entities[q].parent
             W == V \cup {w}
  <1>1. w \in DeclaredNames(s) /\ w \notin V /\ w # s.entities[p].name
    <2>1. PICK n : n = w
      OBVIOUS
    <2>2. n # NULL /\ Climbed(s, s.entities[p], V, n, d)
      BY <2>1
    <2> HIDE DEF w
    <2>3. n \in DeclaredNames(s) /\ n \notin V /\ n # s.entities[p].name
      BY <2>2, ClimbFresh
    <2> QED
      BY <2>1, <2>3
  <1>2. W \subseteq DeclaredNames(s) /\ s.entities[p].name \notin W
    BY <1>1 DEF Climbed
  <1>3. IsFiniteSet(W) /\ Cardinality(W) = d + 1
    BY <1>1, FS_AddElement DEF Climbed
  <1>4. ASSUME v # NULL
        PROVE  /\ v \in Ancestors(s, s.entities[p])
               /\ \A i \in DOMAIN s.entities :
                     s.entities[i].name \in W => v \in Ancestors(s, s.entities[i])
    <2>1. \A e : w \in Ancestors(s, e) => v \in Ancestors(s, e)
      BY <1>4, AncestorsGoOn
    <2>2. v \in Ancestors(s, s.entities[p])
      BY <2>1 DEF Climbed
    <2>3. ASSUME NEW i \in DOMAIN s.entities, s.entities[i].name \in V
          PROVE  v \in Ancestors(s, s.entities[i])
      BY <2>1, <2>3 DEF Climbed
    <2>4. ASSUME NEW i \in DOMAIN s.entities, s.entities[i].name = w
          PROVE  v \in Ancestors(s, s.entities[i])
      <3>1. i = q
        BY <2>4 DEF NamesUnique, NamedOnce
      <3> QED
        BY <1>4, <3>1, AncestorsStart
    <2> QED
      BY <2>2, <2>3, <2>4
  <1> QED
    BY <1>2, <1>3, <1>4 DEF Climbed

\* With at most one entity more than the limit, the walk ends below it.
LEMMA ClimbBounded ==
  ASSUME NEW s \in Schema, InheritanceSound(s), NEW p \in DOMAIN s.entities,
         Len(s.entities) <= MAX_INHERITANCE_DEPTH + 1,
         NEW V, NEW w, NEW d \in Nat, w # NULL, Climbed(s, s.entities[p], V, w, d)
  PROVE  d + 1 <= MAX_INHERITANCE_DEPTH
  <1> DEFINE n == s.entities[p].name
  <1>1. w \in DeclaredNames(s) /\ w \notin V /\ w # n
    BY ClimbFresh
  <1>2. n \in DeclaredNames(s) /\ n \notin V
    BY DEF DeclaredNames, Climbed
  <1>3. IsFiniteSet(V) /\ Cardinality(V) = d /\ V \subseteq DeclaredNames(s)
    BY DEF Climbed
  <1> HIDE DEF n
  <1>4. IsFiniteSet(V \cup {w}) /\ Cardinality(V \cup {w}) = d + 1
    BY <1>1, <1>3, FS_AddElement
  <1>5. IsFiniteSet((V \cup {w}) \cup {n}) /\ Cardinality((V \cup {w}) \cup {n}) = d + 1 + 1
    BY <1>1, <1>2, <1>4, FS_AddElement
  <1>6. (V \cup {w}) \cup {n} \subseteq DeclaredNames(s)
    BY <1>1, <1>2, <1>3
  <1>7. Cardinality((V \cup {w}) \cup {n}) <= Cardinality(DeclaredNames(s))
    BY <1>6, DeclaredFinite, FS_Subset
  <1>8. /\ Cardinality(DeclaredNames(s)) <= Len(s.entities)
        /\ Cardinality(DeclaredNames(s)) \in Nat /\ Len(s.entities) \in Nat
    BY DeclaredFinite, SchemaFields
  <1> QED
    BY <1>5, <1>7, <1>8, SemanticAssumption

\* A sound schema has no error up to any point, and its walks go up the chain.
Innocent ==
    SchemaSound(schema) =>
        /\ ~hasErrors
        /\ pc = "cycle" => \E V : Climbed(schema, entity, V, walk, depth)
        /\ pc = "redefinition" => walk \in Ancestors(schema, entity) \cup {NULL}

\* What each rule finds nothing wrong with is as the promise asks.
EntitySound(s, e) == KeySound(s, e) /\ WeakSound(s, e) /\ KeyTypesSound(e)

AfterEntityTypes == OnEntity \cup {"relationshipTypes", "entities", "relationships", "verdict"}
AfterTypes == AfterEntityTypes \ {"relationshipTypes"}

Passed ==
    /\ pc = "entityTypes" =>
          \A i \in DOMAIN schema.entities : i < pos => EntityTyped(schema.entities[i])
    /\ pc \in AfterEntityTypes =>
          \A i \in DOMAIN schema.entities : EntityTyped(schema.entities[i])
    /\ pc = "relationshipTypes" =>
          \A i \in DOMAIN schema.relationships :
              i < pos => DefaultsTyped(schema.relationships[i].attributes)
    /\ pc \in AfterTypes =>
          \A i \in DOMAIN schema.relationships :
              DefaultsTyped(schema.relationships[i].attributes)
    /\ pc \in OnEntity \cup {"entities"} =>
          \A i \in DOMAIN schema.entities : i < pos => EntitySound(schema, schema.entities[i])
    /\ pc \in {"relationships", "verdict"} =>
          \A i \in DOMAIN schema.entities : EntitySound(schema, schema.entities[i])
    /\ pc = "relationships" =>
          \A i \in DOMAIN schema.relationships :
              i < pos => RelationshipSound(schema, schema.relationships[i])
    /\ pc = "verdict" =>
          \A i \in DOMAIN schema.relationships :
              RelationshipSound(schema, schema.relationships[i])

\* While the table is built, what is bound has been read.
OnlyReadBound ==
    /\ pc = "declareEntities" =>
          /\ \A n \in Names : entityOf[n] # NULL => entityOf[n] < pos
          /\ \A n \in Names : relationshipOf[n] = NULL
    /\ pc = "declareRelationships" =>
          \A n \in Names : relationshipOf[n] # NULL => relationshipOf[n] < pos

Judged ==
    /\ Known /\ Checked
    /\ Ordinary(schema)
    /\ OnlyReadBound
    /\ Innocent
    /\ ~hasErrors => Passed

\* The table of the schema, from the end of its construction on.
LEMMA TableBuilt ==
  ASSUME Known, pc \notin Building \cup {"done"}
  PROVE  TableFor(schema, entityOf) /\ schema \in Schema /\ AllInPlace
  <1>1. Typed /\ AllInPlace /\ schema \in Schema
    BY DEF Known, TableInPlace, Typed, TypeOK
  <1> QED
    BY <1>1, InPlaceIsSchema DEF TableFor, AllInPlace

\* An error stays an error, and a rule that finds something makes one.
LEMMA ErrorsStay == ASSUME Known, [Next]_vars, ~hasErrors' PROVE ~hasErrors
  <1>1. CASE createTable \/ declareEntity \/ entitiesDeclared \/ declareRelationship
             \/ symbolTableBuilt \/ checkEntityTypes \/ entityTypesChecked
    BY <1>1 DEF createTable, declareEntity, entitiesDeclared, declareRelationship,
          symbolTableBuilt, checkEntityTypes, entityTypesChecked, Report
  <1>2. CASE checkRelationshipTypes \/ relationshipTypesChecked \/ validateParentExists
             \/ skipInheritance \/ cycleStep \/ redefinitionStep
    BY <1>2 DEF checkRelationshipTypes, relationshipTypesChecked,
          validateParentExists, skipInheritance, cycleStep, redefinitionStep, Report, Silent
  <1>3. CASE redefinitionsChecked \/ validateEntityRules \/ entitiesValidated
             \/ validateRelationship \/ relationshipsValidated \/ verdict \/ returned
    BY <1>3 DEF redefinitionsChecked, validateEntityRules, entitiesValidated,
          validateRelationship, relationshipsValidated, verdict, returned, vars, Report, Silent
  <1>4. CASE UNCHANGED vars
    BY <1>4 DEF vars
  <1> QED
    BY <1>1, <1>2, <1>3, <1>4 DEF Next

LEMMA OnlyReadBoundStep == ASSUME Known, OnlyReadBound, [Next]_vars PROVE OnlyReadBound'
  <1>0. /\ Typed /\ pos \in Nat \ {0}
        /\ entityOf \in [Names -> Nat \cup {NULL}]
        /\ relationshipOf \in [Names -> Nat \cup {NULL}]
    BY DEF Known, Typed, TypeOK
  <1>1. CASE createTable
    <2>1. /\ entityOf' = [n \in Names |-> NULL] /\ relationshipOf' = [n \in Names |-> NULL]
          /\ pc' = "declareEntities"
      BY <1>1 DEF createTable, Enter, Symbols!createSymbolTable, Symbols!Unbound
    <2> QED
      BY <2>1 DEF OnlyReadBound
  <1>2. CASE declareEntity
    <2>1. /\ entityOf' = IF entityOf[entity.name] = NULL
                         THEN [entityOf EXCEPT ![entity.name] = pos] ELSE entityOf
          /\ relationshipOf' = relationshipOf /\ entity.name \in Names
      BY <1>0, <1>2, DeclareEntityBinds
    <2>2. pc = "declareEntities" /\ pc' = pc /\ pos' = pos + 1
      BY <1>2 DEF declareEntity
    <2>3. ASSUME NEW n \in Names, entityOf'[n] # NULL PROVE entityOf'[n] < pos + 1
      <3>1. CASE entityOf'[n] = pos
        BY <1>0, <3>1
      <3>2. CASE entityOf'[n] = entityOf[n]
        <4>1. entityOf[n] < pos /\ entityOf[n] \in Nat
          BY <1>0, <2>2, <2>3, <3>2 DEF OnlyReadBound
        <4> QED
          BY <1>0, <3>2, <4>1
      <3> QED
        BY <1>0, <2>1, <3>1, <3>2
    <2> QED
      BY <2>1, <2>2, <2>3 DEF OnlyReadBound
  <1>3. CASE declareRelationship
    <2>1. /\ relationshipOf' = IF relationshipOf[relationship.name] = NULL
                               THEN [relationshipOf EXCEPT ![relationship.name] = pos]
                               ELSE relationshipOf
          /\ relationship.name \in Names
      BY <1>0, <1>3, DeclareRelationshipBinds
    <2>2. pc = "declareRelationships" /\ pc' = pc /\ pos' = pos + 1
      BY <1>3 DEF declareRelationship
    <2>3. ASSUME NEW n \in Names, relationshipOf'[n] # NULL PROVE relationshipOf'[n] < pos + 1
      <3>1. CASE relationshipOf'[n] = pos
        BY <1>0, <3>1
      <3>2. CASE relationshipOf'[n] = relationshipOf[n]
        <4>1. relationshipOf[n] < pos /\ relationshipOf[n] \in Nat
          BY <1>0, <2>2, <2>3, <3>2 DEF OnlyReadBound
        <4> QED
          BY <1>0, <3>2, <4>1
      <3> QED
        BY <1>0, <2>1, <3>1, <3>2
    <2> QED
      BY <2>2, <2>3 DEF OnlyReadBound
  <1>4. CASE entitiesDeclared
    BY <1>4 DEF entitiesDeclared, tableVars, OnlyReadBound
  <1>5. CASE UNCHANGED vars
    BY <1>5 DEF vars, tableVars, OnlyReadBound
  <1>6. CASE NextAfterTable /\ ~entitiesDeclared
    <2>1. CASE symbolTableBuilt \/ checkEntityTypes \/ entityTypesChecked
               \/ checkRelationshipTypes \/ relationshipTypesChecked
      BY <2>1 DEF symbolTableBuilt, checkEntityTypes, entityTypesChecked, Enter,
            checkRelationshipTypes, relationshipTypesChecked, OnlyReadBound
    <2>2. CASE validateParentExists \/ skipInheritance \/ cycleStep \/ redefinitionStep
               \/ redefinitionsChecked
      BY <2>2 DEF validateParentExists, skipInheritance, cycleStep, WalkOver,
            redefinitionStep, redefinitionsChecked, OnlyReadBound
    <2>3. CASE validateEntityRules \/ entitiesValidated \/ validateRelationship
               \/ relationshipsValidated \/ verdict
      BY <2>3 DEF validateEntityRules, entitiesValidated, validateRelationship, Enter,
            relationshipsValidated, verdict, OnlyReadBound
    <2>4. CASE returned
      BY <2>4 DEF returned, vars, OnlyReadBound
    <2> QED
      BY <1>6, <2>1, <2>2, <2>3, <2>4 DEF NextAfterTable
  <1> QED
    BY <1>1, <1>2, <1>3, <1>4, <1>5, <1>6 DEF Next, NextAfterTable

\* What a judged state has, for the lemmas about a step.
LEMMA JudgedFields ==
  ASSUME Judged
  PROVE  /\ Known /\ Typed /\ OnlyReadBound /\ schema \in Schema
         /\ pos \in Nat \ {0} /\ attr \in Nat \ {0} /\ depth \in Nat
         /\ walk \in Names \cup {NULL}
         /\ entityOf \in [Names -> Nat \cup {NULL}]
         /\ relationshipOf \in [Names -> Nat \cup {NULL}]
         /\ pc \in OnEntity => pos \in DOMAIN schema.entities
         /\ pc \in {"cycle", "redefinition"} => schema.entities[pos].parent # NULL
  BY DEF Judged, Known, Typed, TypeOK, InPlace

\* SemanticAnalyzer.c:80, in a schema whose names are unique.
LEMMA DeclareInnocent ==
  ASSUME Judged, SchemaSound(schema), declareEntity \/ declareRelationship
  PROVE  ~hasErrors'
  <1>0. NamesUnique(schema) /\ ~hasErrors
    BY DEF SchemaSound, Judged, Innocent
  <1>1. CASE declareEntity
    <2>1. pos \in DOMAIN schema.entities /\ entity.name \in Names /\ pc = "declareEntities"
      BY <1>1, JudgedFields, DeclareEntityBinds DEF declareEntity
    <2>2. ASSUME declared(entity.name) PROVE FALSE
      <3>1. entityOf[entity.name] # NULL
        BY <2>2 DEF declared
      <3>2. /\ entityOf[entity.name] \in DOMAIN schema.entities
            /\ schema.entities[entityOf[entity.name]].name = entity.name
            /\ entityOf[entity.name] < pos
        BY <2>1, <3>1, JudgedFields DEF Typed, BindsDeclarations, OnlyReadBound
      <3>3. entityOf[entity.name] = pos
        BY <1>0, <2>1, <3>2 DEF NamesUnique, NamedOnce, entity
      <3> QED
        BY <3>2, <3>3, JudgedFields
    <2>3. hasErrors' = (hasErrors \/ {} # {})
      BY <1>1, <2>2 DEF declareEntity, Report
    <2> QED
      BY <1>0, <2>3
  <1>2. CASE declareRelationship
    <2>1. /\ pos \in DOMAIN schema.relationships /\ relationship.name \in Names
          /\ pc = "declareRelationships"
      BY <1>2, JudgedFields, DeclareRelationshipBinds DEF declareRelationship
    <2>2. ASSUME relationshipOf[relationship.name] # NULL PROVE FALSE
      <3>2. /\ relationshipOf[relationship.name] \in DOMAIN schema.relationships
            /\ schema.relationships[relationshipOf[relationship.name]].name = relationship.name
            /\ relationshipOf[relationship.name] < pos
        BY <2>1, <2>2, JudgedFields DEF Typed, BindsDeclarations, OnlyReadBound
      <3>3. relationshipOf[relationship.name] = pos
        BY <1>0, <2>1, <3>2 DEF NamesUnique, NamedOnce, relationship
      <3> QED
        BY <3>2, <3>3, JudgedFields
    <2>3. hasErrors' = (hasErrors \/ {} # {})
      BY <1>2, <2>2 DEF declareRelationship, Report
    <2> QED
      BY <1>0, <2>3
  <1> QED
    BY <1>1, <1>2

\* TypeChecker.c, EntityPKRules.c, WeakEntityRules.c, AttributeModifierRules.c,
\* RelationshipParticipantRules.c and RelationshipAttributeRules.c.
LEMMA RulesInnocent ==
  ASSUME Judged, SchemaSound(schema),
         checkEntityTypes \/ checkRelationshipTypes \/ validateEntityRules \/ validateRelationship
  PROVE  ~hasErrors'
  <1>0. TypesSound(schema) /\ ~hasErrors /\ schema \in Schema /\ Ordinary(schema)
    BY JudgedFields DEF SchemaSound, Judged, Innocent
  <1>1. CASE checkEntityTypes
    <2>1. pos \in DOMAIN schema.entities
      BY <1>1, JudgedFields, SchemaFields DEF checkEntityTypes
    <2>2. OrdinaryEntity(entity) /\ EntityTyped(entity)
      BY <1>0, <2>1 DEF Ordinary, TypesSound, EntityTyped, entity
    <2>3. checkDefaults(entity) \cup checkAssertions(entity) = {}
      BY <2>2, TypeRules
    <2>4. hasErrors' = (hasErrors \/ checkDefaults(entity) \cup checkAssertions(entity) # {})
      BY <1>1 DEF checkEntityTypes
    <2> QED
      BY <1>0, <2>3, <2>4
  <1>2. CASE checkRelationshipTypes /\ ReadsWildPointer(relationship)
    BY <1>0, <1>2 DEF checkRelationshipTypes, Silent
  <1>3. CASE checkRelationshipTypes /\ ~ReadsWildPointer(relationship)
    <2>1. pos \in DOMAIN schema.relationships
      BY <1>3, JudgedFields, SchemaFields DEF checkRelationshipTypes
    <2>2. OrdinaryRelationship(relationship) /\ DefaultsTyped(relationship.attributes)
      BY <1>0, <2>1 DEF Ordinary, TypesSound, relationship
    <2>3. checkRelationshipDefaults(relationship) = {}
      BY <1>3, <2>2, RelationshipTypeRules
    <2>4. hasErrors' = (hasErrors \/ checkRelationshipDefaults(relationship) # {})
      BY <1>3 DEF checkRelationshipTypes, Report
    <2> QED
      BY <1>0, <2>3, <2>4
  <1>4. CASE validateEntityRules /\ OverrunsSeen(entity)
    BY <1>0, <1>4 DEF validateEntityRules, Silent
  <1>5. CASE validateEntityRules /\ ~OverrunsSeen(entity)
    <2>1. /\ pos \in DOMAIN schema.entities /\ TableFor(schema, entityOf)
      BY <1>5, JudgedFields, TableBuilt DEF validateEntityRules, OnEntity, Building
    <2>2. /\ KeySound(schema, entity) /\ WeakSound(schema, entity) /\ KeyTypesSound(entity)
          /\ DefaultsTyped(entity.attributes) /\ OrdinaryEntity(entity)
      BY <1>0, <2>1 DEF SchemaSound, TypesSound, Ordinary, entity
    <2>3. entityRules(schema, entityOf, entity) = {}
      BY <1>0, <2>1, <2>2, EntityRules DEF entity
    <2>4. hasErrors' = (hasErrors \/ entityRules(schema, entityOf, entity) # {})
      BY <1>5 DEF validateEntityRules, Report
    <2> QED
      BY <1>0, <2>3, <2>4
  <1>6. CASE validateRelationship
    <2>1. pos \in DOMAIN schema.relationships /\ TableFor(schema, entityOf)
      BY <1>6, JudgedFields, SchemaFields, TableBuilt DEF validateRelationship, Building
    <2>2. OrdinaryRelationship(relationship) /\ RelationshipSound(schema, relationship)
      BY <1>0, <2>1 DEF SchemaSound, Ordinary, relationship
    <2>3. relationshipRules(schema, entityOf, relationship) = {}
      BY <1>0, <2>1, <2>2, RelationshipRules DEF relationship
    <2>4. hasErrors' = (hasErrors \/ relationshipRules(schema, entityOf, relationship) # {})
      BY <1>6 DEF validateRelationship, Report
    <2> QED
      BY <1>0, <2>3, <2>4
  <1> QED
    BY <1>1, <1>2, <1>3, <1>4, <1>5, <1>6

\* The name the walk stands on is that of the entity it is bound to.
LEMMA StandsOn ==
  ASSUME Judged, pc \in OnEntity, declared(walk)
  PROVE  /\ walk # NULL /\ entityOf[walk] \in DOMAIN schema.entities
         /\ ancestor(walk) = schema.entities[entityOf[walk]]
         /\ schema.entities[entityOf[walk]].name = walk
  <1>1. walk # NULL /\ walk \in Names /\ entityOf[walk] # NULL
    BY JudgedFields DEF declared
  <1> QED
    BY <1>1, JudgedFields DEF Typed, BindsDeclarations, ancestor

\* InheritanceRules.c:17.
LEMMA ParentInnocent ==
  ASSUME Judged, SchemaSound(schema), validateParentExists
  PROVE  Innocent'
  <1>0. /\ InheritanceSound(schema) /\ ~hasErrors /\ schema \in Schema
        /\ pos \in DOMAIN schema.entities /\ TableFor(schema, entityOf)
    BY JudgedFields, SchemaFields, TableBuilt
       DEF SchemaSound, Judged, Innocent, validateParentExists, Building
  <1>1. /\ entity.parent # NULL /\ pc' = "cycle" /\ walk' = entity.parent /\ depth' = 0
        /\ UNCHANGED <<schema, pos>>
    BY DEF validateParentExists
  <1>2. entity.parent \in Names /\ entity.parent \in DeclaredNames(schema)
    BY <1>0, <1>1, SchemaFields DEF InheritanceSound, entity
  <1>3. declared(entity.parent)
    BY <1>1, <1>2, <1>0 DEF TableFor, declared
  <1>4. hasErrors' = (hasErrors \/ {} # {})
    BY <1>3 DEF validateParentExists, Report
  <1>5. Climbed(schema, entity, {}, entity.parent, 0)
    BY <1>0, ClimbStart DEF entity
  <1>6. entity' = entity
    BY <1>1 DEF entity
  <1>7. ~hasErrors'
    BY <1>0, <1>4
  <1>8. \E V : Climbed(schema, entity, V, walk, depth)'
    BY <1>1, <1>5, <1>6
  <1> QED
    BY <1>1, <1>7, <1>8 DEF Innocent

\* InheritanceRules.c:45: the walk of a sound schema neither comes back nor goes too far.
LEMMA CycleInnocent ==
  ASSUME Judged, SchemaSound(schema), cycleStep
  PROVE  Innocent'
  <1>0. /\ InheritanceSound(schema) /\ NamesUnique(schema) /\ ~hasErrors
        /\ schema \in Schema /\ pos \in DOMAIN schema.entities /\ pc = "cycle"
        /\ depth \in Nat /\ entity.parent # NULL
        /\ Len(schema.entities) <= MAX_INHERITANCE_DEPTH + 1
    BY JudgedFields DEF SchemaSound, Judged, Innocent, cycleStep, OnEntity, Ordinary, entity
  <1>1. depth' = Deeper /\ UNCHANGED <<schema, pos>>
    BY DEF cycleStep
  <1>2. entity' = entity
    BY <1>1 DEF entity
  <1>3. PICK V : Climbed(schema, entity, V, walk, depth)
    BY <1>0 DEF Judged, Innocent
  <1>4. ASSUME walk # NULL PROVE ~TooDeep /\ ~BackAtStart
    <2>1. walk # entity.name
      BY <1>0, <1>3, <1>4, ClimbFresh DEF entity
    <2>2. depth + 1 <= MAX_INHERITANCE_DEPTH
      BY <1>0, <1>3, <1>4, ClimbBounded DEF entity
    <2> QED
      BY <1>0, <1>4, <2>1, <2>2, SemanticAssumption DEF TooDeep, BackAtStart, Deeper
  <1>5. CASE Silent /\ WalkOver
    <2>1. pc' = "redefinition" /\ walk' = entity.parent
      BY <1>5 DEF WalkOver
    <2>2. entity.parent \in Ancestors(schema, entity)
      BY <1>0, AncestorsStart DEF entity
    <2>3. ~hasErrors'
      BY <1>0, <1>5 DEF Silent
    <2> QED
      BY <1>1, <1>2, <2>1, <2>2, <2>3 DEF Innocent
  <1>6. CASE declared(walk) /\ Silent /\ walk' = ancestor(walk).parent /\ pc' = pc
    <2>1. /\ walk # NULL /\ entityOf[walk] \in DOMAIN schema.entities
          /\ ancestor(walk) = schema.entities[entityOf[walk]]
          /\ schema.entities[entityOf[walk]].name = walk
      BY <1>0, <1>6, StandsOn DEF OnEntity
    <2>2. Climbed(schema, entity, V \cup {walk}, walk', depth + 1)
      <3>1. PICK q \in DOMAIN schema.entities : q = entityOf[walk]
        BY <2>1
      <3>2. Climbed(schema, schema.entities[pos], V, schema.entities[q].name, depth)
        BY <1>3, <2>1, <3>1 DEF entity
      <3>3. Climbed(schema, schema.entities[pos], V \cup {schema.entities[q].name},
                    schema.entities[q].parent, depth + 1)
        BY <1>0, <2>1, <3>1, <3>2, ClimbStep
      <3> QED
        BY <1>6, <2>1, <3>1, <3>3 DEF entity
    <2>3. depth' = depth + 1
      BY <1>1, <2>1 DEF Deeper
    <2>4. \E U : Climbed(schema, entity, U, walk, depth)'
      BY <1>1, <1>2, <2>2, <2>3
    <2>5. ~hasErrors'
      BY <1>0, <1>6 DEF Silent
    <2> QED
      BY <1>0, <1>6, <2>4, <2>5 DEF Innocent
  <1>7. CASE walk # NULL /\ (TooDeep \/ BackAtStart)
    BY <1>4, <1>7
  <1> QED
    BY <1>5, <1>6, <1>7 DEF cycleStep

\* InheritanceRules.c:79.
LEMMA RedefinitionInnocent ==
  ASSUME Judged, SchemaSound(schema), redefinitionStep
  PROVE  Innocent'
  <1>0. /\ InheritanceSound(schema) /\ ~hasErrors /\ schema \in Schema
        /\ pos \in DOMAIN schema.entities /\ pc = "redefinition" /\ attr \in Nat \ {0}
        /\ entity.parent # NULL /\ walk \in Ancestors(schema, entity) \cup {NULL}
    BY JudgedFields DEF SchemaSound, Judged, Innocent, redefinitionStep, OnEntity, entity
  <1>1. UNCHANGED <<schema, pos, pc>> /\ attr <= Len(entity.attributes)
    BY DEF redefinitionStep
  <1>2. entity' = entity
    BY <1>1 DEF entity
  <1>3. entity.parent \in Ancestors(schema, entity)
    BY <1>0, AncestorsStart DEF entity
  <1>4. attr \in DOMAIN entity.attributes
    BY <1>0, <1>1, SchemaFields, EntityFields DEF entity
  <1>5. CASE ~declared(walk) /\ Silent /\ walk' = entity.parent
    BY <1>0, <1>1, <1>2, <1>3, <1>5 DEF Innocent, Silent
  <1>6. ASSUME declared(walk), AttributeNamed(ancestor(walk).attributes, attribute.name)
        PROVE  FALSE
    <2>1. PICK q \in DOMAIN schema.entities :
              ancestor(walk) = schema.entities[q] /\ schema.entities[q].name = walk
      BY <1>0, <1>6, StandsOn DEF OnEntity
    <2>2. walk \in Ancestors(schema, entity)
      BY <1>0, <1>6 DEF declared
    <2>3. ~AttributeNamed(schema.entities[q].attributes, entity.attributes[attr].name)
      BY <1>0, <1>4, <2>1, <2>2 DEF InheritanceSound, entity
    <2> QED
      BY <1>6, <2>1, <2>3 DEF attribute
  <1>7. CASE declared(walk) /\ Silent /\ walk' = ancestor(walk).parent
    <2>1. PICK q \in DOMAIN schema.entities :
              ancestor(walk) = schema.entities[q] /\ schema.entities[q].name = walk
      BY <1>0, <1>7, StandsOn DEF OnEntity
    <2>2. walk \in Ancestors(schema, entity)
      BY <1>0, <1>7 DEF declared
    <2>3. walk' \in Ancestors(schema, entity) \cup {NULL}
      BY <1>7, <2>1, <2>2, AncestorsGoOn
    <2> QED
      BY <1>0, <1>1, <1>2, <1>7, <2>3 DEF Innocent, Silent
  <1> QED
    BY <1>5, <1>6, <1>7 DEF redefinitionStep

LEMMA InnocentStep == ASSUME Judged, [Next]_vars PROVE Innocent'
  <1>1. schema' = schema
    BY BindingsStep, JudgedFields
  <1>2. CASE ~SchemaSound(schema)
    BY <1>1, <1>2 DEF Innocent
  <1>3. CASE SchemaSound(schema)
    <2>1. ~hasErrors /\ (~ok => hasErrors)
      BY <1>3 DEF Judged, Innocent, Known, FailuresAgree
    <2>2. CASE validateParentExists \/ cycleStep \/ redefinitionStep
      BY <1>3, <2>2, ParentInnocent, CycleInnocent, RedefinitionInnocent
    <2>3. CASE declareEntity \/ declareRelationship
      <3>1. ~hasErrors'
        BY <1>3, <2>3, DeclareInnocent
      <3> QED
        BY <2>3, <3>1 DEF Innocent, declareEntity, declareRelationship
    <2>4. CASE checkEntityTypes \/ checkRelationshipTypes \/ validateEntityRules
               \/ validateRelationship
      <3>1. ~hasErrors'
        BY <1>3, <2>4, RulesInnocent
      <3>2. pc' \notin {"cycle", "redefinition"}
        BY <2>4 DEF checkEntityTypes, checkRelationshipTypes, validateEntityRules,
              validateRelationship
      <3> QED
        BY <3>1, <3>2 DEF Innocent
    <2>5. CASE createTable \/ entitiesDeclared \/ symbolTableBuilt \/ entityTypesChecked
               \/ relationshipTypesChecked
      <3>1. ~hasErrors' /\ pc' \notin {"cycle", "redefinition"}
        BY <2>1, <2>5 DEF createTable, entitiesDeclared, symbolTableBuilt, Enter,
              entityTypesChecked, relationshipTypesChecked
      <3> QED
        BY <3>1 DEF Innocent
    <2>6. CASE skipInheritance \/ redefinitionsChecked \/ entitiesValidated
               \/ relationshipsValidated \/ verdict
      <3>1. CASE skipInheritance \/ redefinitionsChecked \/ verdict
        BY <2>1, <3>1 DEF skipInheritance, redefinitionsChecked, verdict, Innocent
      <3>2. CASE entitiesValidated \/ relationshipsValidated
        BY <2>1, <3>2 DEF entitiesValidated, Enter, relationshipsValidated, Innocent
      <3> QED
        BY <2>6, <3>1, <3>2
    <2>7. CASE UNCHANGED vars
      <3>1. Innocent /\ UNCHANGED <<schema, hasErrors, pc, pos, walk, depth>>
        BY <2>7 DEF vars, walkVars, Judged
      <3> QED
        BY <3>1 DEF Innocent, entity
    <2> QED
      BY <2>2, <2>3, <2>4, <2>5, <2>6, <2>7 DEF Next, returned
  <1> QED
    BY <1>2, <1>3

-----------------------------------------------------------------------------
(* No other schema is accepted                                             *)

\* TypeChecker.c:33, 72.
LEMMA TypesPassed ==
  ASSUME Judged, Passed, checkEntityTypes \/ checkRelationshipTypes, ~hasErrors'
  PROVE  Passed'
  <1>0. schema \in Schema /\ Ordinary(schema) /\ pos \in Nat \ {0}
        /\ DOMAIN schema.entities \subseteq Nat /\ DOMAIN schema.relationships \subseteq Nat
    BY JudgedFields, SchemaFields DEF Judged
  <1>1. CASE checkEntityTypes
    <2>1. /\ pos \in DOMAIN schema.entities /\ pc = "entityTypes"
          /\ pos' = pos + 1 /\ UNCHANGED <<schema, pc>>
      BY <1>1, JudgedFields, SchemaFields DEF checkEntityTypes
    <2>2. checkDefaults(entity) \cup checkAssertions(entity) = {}
      BY <1>1 DEF checkEntityTypes
    <2>3. OrdinaryEntity(entity)
      BY <1>0, <2>1 DEF Ordinary, entity
    <2>4. EntityTyped(schema.entities[pos])
      BY <2>2, <2>3, TypeRules DEF entity
    <2>5. \A i \in DOMAIN schema.entities : i < pos => EntityTyped(schema.entities[i])
      BY <2>1 DEF Passed
    <2>6. \A i \in DOMAIN schema.entities : i < pos + 1 => EntityTyped(schema.entities[i])
      <3>1. \A i \in DOMAIN schema.entities : i < pos + 1 => i < pos \/ i = pos
        BY <1>0
      <3> QED
        BY <2>4, <2>5, <3>1
    <2> QED
      BY <2>1, <2>6 DEF Passed, AfterEntityTypes, AfterTypes, OnEntity
  <1>2. CASE checkRelationshipTypes /\ ReadsWildPointer(relationship)
    BY <1>2 DEF checkRelationshipTypes, Passed, AfterEntityTypes, AfterTypes, OnEntity
  <1>3. CASE checkRelationshipTypes /\ ~ReadsWildPointer(relationship)
    <2>1. /\ pos \in DOMAIN schema.relationships /\ pc = "relationshipTypes"
          /\ pos' = pos + 1 /\ UNCHANGED <<schema, pc>>
      BY <1>3, JudgedFields, SchemaFields DEF checkRelationshipTypes
    <2>2. checkRelationshipDefaults(relationship) = {}
      BY <1>3 DEF checkRelationshipTypes, Report
    <2>3. OrdinaryRelationship(relationship)
      BY <1>0, <2>1 DEF Ordinary, relationship
    <2>4. DefaultsTyped(schema.relationships[pos].attributes)
      BY <1>3, <2>2, <2>3, RelationshipTypeRules DEF relationship
    <2>5. /\ \A i \in DOMAIN schema.entities : EntityTyped(schema.entities[i])
          /\ \A i \in DOMAIN schema.relationships :
                i < pos => DefaultsTyped(schema.relationships[i].attributes)
      BY <2>1 DEF Passed, AfterEntityTypes
    <2>6. \A i \in DOMAIN schema.relationships :
              i < pos + 1 => DefaultsTyped(schema.relationships[i].attributes)
      <3>1. \A i \in DOMAIN schema.relationships : i < pos + 1 => i < pos \/ i = pos
        BY <1>0
      <3> QED
        BY <2>4, <2>5, <3>1
    <2> QED
      BY <2>1, <2>5, <2>6 DEF Passed, AfterEntityTypes, AfterTypes, OnEntity
  <1> QED
    BY <1>1, <1>2, <1>3

\* EntityValidator.c:16, RelationshipValidator.c:15.
LEMMA RulesPassed ==
  ASSUME Judged, Passed, validateEntityRules \/ validateRelationship, ~hasErrors'
  PROVE  Passed'
  <1>0. schema \in Schema /\ Ordinary(schema) /\ pos \in Nat \ {0}
        /\ DOMAIN schema.entities \subseteq Nat /\ DOMAIN schema.relationships \subseteq Nat
    BY JudgedFields, SchemaFields DEF Judged
  <1>1. CASE validateEntityRules /\ OverrunsSeen(entity)
    BY <1>1 DEF validateEntityRules, Passed, AfterEntityTypes, AfterTypes, OnEntity
  <1>2. CASE validateEntityRules /\ ~OverrunsSeen(entity)
    <2>1. /\ pos \in DOMAIN schema.entities /\ pc = "entityRules" /\ pc' = "entities"
          /\ pos' = pos + 1 /\ UNCHANGED schema /\ TableFor(schema, entityOf)
      BY <1>2, JudgedFields, TableBuilt DEF validateEntityRules, OnEntity, Building
    <2>2. entityRules(schema, entityOf, entity) = {}
      BY <1>2 DEF validateEntityRules, Report
    <2>3. OrdinaryEntity(entity)
      BY <1>0, <2>1 DEF Ordinary, entity
    <2>4. EntitySound(schema, schema.entities[pos])
      BY <1>0, <2>1, <2>2, <2>3, EntityRules DEF EntitySound, entity
    <2>5. /\ \A i \in DOMAIN schema.entities : EntityTyped(schema.entities[i])
          /\ \A i \in DOMAIN schema.relationships :
                DefaultsTyped(schema.relationships[i].attributes)
          /\ \A i \in DOMAIN schema.entities :
                i < pos => EntitySound(schema, schema.entities[i])
      BY <2>1 DEF Passed, AfterEntityTypes, AfterTypes, OnEntity
    <2>6. \A i \in DOMAIN schema.entities : i < pos + 1 => EntitySound(schema, schema.entities[i])
      <3>1. \A i \in DOMAIN schema.entities : i < pos + 1 => i < pos \/ i = pos
        BY <1>0
      <3> QED
        BY <2>4, <2>5, <3>1
    <2> QED
      BY <2>1, <2>5, <2>6 DEF Passed, AfterEntityTypes, AfterTypes, OnEntity
  <1>3. CASE validateRelationship
    <2>1. /\ pos \in DOMAIN schema.relationships /\ pc = "relationships"
          /\ pos' = pos + 1 /\ UNCHANGED <<schema, pc>> /\ TableFor(schema, entityOf)
      BY <1>3, JudgedFields, SchemaFields, TableBuilt DEF validateRelationship, Building
    <2>2. relationshipRules(schema, entityOf, relationship) = {}
      BY <1>3 DEF validateRelationship, Report
    <2>3. OrdinaryRelationship(relationship)
      BY <1>0, <2>1 DEF Ordinary, relationship
    <2>4. RelationshipSound(schema, schema.relationships[pos])
      BY <1>0, <2>1, <2>2, <2>3, RelationshipRules DEF relationship
    <2>5. /\ \A i \in DOMAIN schema.entities :
                EntityTyped(schema.entities[i]) /\ EntitySound(schema, schema.entities[i])
          /\ \A i \in DOMAIN schema.relationships :
                DefaultsTyped(schema.relationships[i].attributes)
          /\ \A i \in DOMAIN schema.relationships :
                i < pos => RelationshipSound(schema, schema.relationships[i])
      BY <2>1 DEF Passed, AfterEntityTypes, AfterTypes
    <2>6. \A i \in DOMAIN schema.relationships :
              i < pos + 1 => RelationshipSound(schema, schema.relationships[i])
      <3>1. \A i \in DOMAIN schema.relationships : i < pos + 1 => i < pos \/ i = pos
        BY <1>0
      <3> QED
        BY <2>4, <2>5, <3>1
    <2> QED
      BY <2>1, <2>5, <2>6 DEF Passed, AfterEntityTypes, AfterTypes, OnEntity
  <1> QED
    BY <1>1, <1>2, <1>3

\* A loop that is over has passed its whole list.
LEMMA LoopsPassed ==
  ASSUME Judged, Passed, [Next]_vars,
         \/ symbolTableBuilt \/ entityTypesChecked \/ relationshipTypesChecked
         \/ entitiesValidated \/ relationshipsValidated
  PROVE  Passed'
  <1>0. /\ schema' = schema /\ schema \in Schema /\ pos \in Nat \ {0}
        /\ \A i \in DOMAIN schema.entities : i \in Nat \ {0} /\ i <= Len(schema.entities)
        /\ \A i \in DOMAIN schema.relationships :
              i \in Nat \ {0} /\ i <= Len(schema.relationships)
        /\ Len(schema.entities) \in Nat /\ Len(schema.relationships) \in Nat
    BY BindingsStep, JudgedFields, SchemaFields
  <1>1. CASE symbolTableBuilt
    <2>1. pc' = "done" \/ (pc' = "entityTypes" /\ pos' = 1)
      BY <1>1 DEF symbolTableBuilt, Enter
    <2> QED
      BY <1>0, <2>1 DEF Passed, AfterEntityTypes, AfterTypes, OnEntity
  <1>2. CASE entityTypesChecked
    <2>1. /\ pc = "entityTypes" /\ pos > Len(schema.entities)
          /\ pc' = "relationshipTypes" /\ pos' = 1
      BY <1>2 DEF entityTypesChecked
    <2>2. \A i \in DOMAIN schema.entities : EntityTyped(schema.entities[i])
      BY <1>0, <2>1 DEF Passed
    <2> QED
      BY <1>0, <2>1, <2>2 DEF Passed, AfterEntityTypes, AfterTypes, OnEntity
  <1>3. CASE relationshipTypesChecked
    <2>1. /\ pc = "relationshipTypes" /\ pos > Len(schema.relationships)
          /\ pc' = "entities" /\ pos' = 1
      BY <1>3 DEF relationshipTypesChecked, Enter
    <2>2. /\ \A i \in DOMAIN schema.entities : EntityTyped(schema.entities[i])
          /\ \A i \in DOMAIN schema.relationships :
                DefaultsTyped(schema.relationships[i].attributes)
      BY <1>0, <2>1 DEF Passed, AfterEntityTypes
    <2> QED
      BY <1>0, <2>1, <2>2 DEF Passed, AfterEntityTypes, AfterTypes, OnEntity
  <1>4. CASE entitiesValidated
    <2>1. /\ pc = "entities" /\ pos > Len(schema.entities)
          /\ pc' = "relationships" /\ pos' = 1
      BY <1>4 DEF entitiesValidated, Enter
    <2>2. /\ \A i \in DOMAIN schema.entities : EntityTyped(schema.entities[i])
          /\ \A i \in DOMAIN schema.relationships :
                DefaultsTyped(schema.relationships[i].attributes)
          /\ \A i \in DOMAIN schema.entities : EntitySound(schema, schema.entities[i])
      BY <1>0, <2>1 DEF Passed, AfterEntityTypes, AfterTypes
    <2> QED
      BY <1>0, <2>1, <2>2 DEF Passed, AfterEntityTypes, AfterTypes, OnEntity
  <1>5. CASE relationshipsValidated
    <2>1. /\ pc = "relationships" /\ pos > Len(schema.relationships)
          /\ pc' = "verdict" /\ pos' = 1
      BY <1>5 DEF relationshipsValidated, Enter
    <2>2. /\ \A i \in DOMAIN schema.entities :
                EntityTyped(schema.entities[i]) /\ EntitySound(schema, schema.entities[i])
          /\ \A i \in DOMAIN schema.relationships :
                DefaultsTyped(schema.relationships[i].attributes)
          /\ \A i \in DOMAIN schema.relationships :
                RelationshipSound(schema, schema.relationships[i])
      BY <1>0, <2>1 DEF Passed, AfterEntityTypes, AfterTypes
    <2> QED
      BY <1>0, <2>1, <2>2 DEF Passed, AfterEntityTypes, AfterTypes, OnEntity
  <1> QED
    BY <1>1, <1>2, <1>3, <1>4, <1>5

LEMMA PassedStep ==
  ASSUME Judged, Passed, [Next]_vars, ~hasErrors'
  PROVE  Passed'
  <1>0. schema' = schema
    BY BindingsStep, JudgedFields
  <1>1. CASE checkEntityTypes \/ checkRelationshipTypes \/ validateEntityRules
             \/ validateRelationship
    BY <1>1, TypesPassed, RulesPassed
  <1>2. CASE symbolTableBuilt \/ entityTypesChecked \/ relationshipTypesChecked
             \/ entitiesValidated \/ relationshipsValidated
    BY <1>2, LoopsPassed
  <1>3. CASE createTable \/ declareEntity \/ entitiesDeclared \/ declareRelationship \/ verdict
    BY <1>3 DEF createTable, declareEntity, entitiesDeclared, declareRelationship, verdict,
          Enter, Passed, AfterEntityTypes, AfterTypes, OnEntity
  <1>4. CASE validateParentExists \/ skipInheritance \/ cycleStep \/ redefinitionStep
             \/ redefinitionsChecked
    <2>1. /\ pc \in OnEntity \cup {"entities"} /\ pc' \in OnEntity /\ pos' = pos
      BY <1>4 DEF validateParentExists, skipInheritance, cycleStep, WalkOver,
            redefinitionStep, redefinitionsChecked, OnEntity
    <2> QED
      BY <1>0, <2>1 DEF Passed, AfterEntityTypes, AfterTypes, OnEntity
  <1>5. CASE UNCHANGED vars
    BY <1>5 DEF vars, Passed
  <1> QED
    BY <1>1, <1>2, <1>3, <1>4, <1>5 DEF Next, returned

\* What passed every rule is sound.
LEMMA PassedIsSound ==
  ASSUME Judged, pc = "verdict", ~hasErrors
  PROVE  SchemaSound(schema)
  <1>1. Passed /\ InheritanceSound(schema)
    BY DEF Judged, Checked, Progress
  <1>2. NamesUnique(schema)
    BY TableBuilt DEF Judged, Building, TableFor
  <1>3. TypesSound(schema)
    BY <1>1 DEF Passed, AfterEntityTypes, AfterTypes, TypesSound, EntityTyped
  <1> QED
    BY <1>1, <1>2, <1>3 DEF Passed, SchemaSound, EntitySound

LEMMA JudgedStep == Judged /\ [Next]_vars /\ Known' => Judged'
  <1> SUFFICES ASSUME Judged, [Next]_vars, Known' PROVE Judged'
    OBVIOUS
  <1>1. Known
    BY DEF Judged
  <1>2. Checked' /\ OnlyReadBound' /\ Innocent'
    BY <1>1, CheckedStep, OnlyReadBoundStep, InnocentStep DEF Judged
  <1>3. schema' = schema
    BY BindingsStep, JudgedFields
  <1>4. ASSUME ~hasErrors' PROVE Passed'
    BY <1>1, <1>4, ErrorsStay, PassedStep DEF Judged
  <1> QED
    BY <1>2, <1>3, <1>4 DEF Judged

\* A step gives the verdict of the promise, or none.
LEMMA JudgeStep ==
  ASSUME Judged, [Next]_vars
  PROVE  [Outcome!Judge]_<<schema, IF status = "ABORTED" THEN NULL ELSE status>>
  <1> DEFINE seen == IF status = "ABORTED" THEN NULL ELSE status
  <1>0. schema' = schema /\ (pc # "done" => status = NULL)
    BY BindingsStep, JudgedFields DEF Known, FailuresAgree
  <1>1. ASSUME pc # "done", status' = status \/ status' = NULL \/ status' = "ABORTED"
        PROVE  seen' = seen
    BY <1>0, <1>1, SemanticAssumption
  <1>2. CASE createTable \/ declareEntity \/ entitiesDeclared \/ declareRelationship
             \/ checkEntityTypes \/ entityTypesChecked
    <2>1. pc # "done" /\ status' = status
      BY <1>2 DEF createTable, declareEntity, entitiesDeclared, declareRelationship,
            checkEntityTypes, entityTypesChecked
    <2> QED
      BY <1>0, <1>1, <2>1
  <1>3. CASE checkRelationshipTypes \/ relationshipTypesChecked \/ validateParentExists
             \/ skipInheritance \/ cycleStep \/ redefinitionStep
    <2>1. pc # "done" /\ (status' = status \/ status' = "ABORTED")
      BY <1>3 DEF checkRelationshipTypes, relationshipTypesChecked,
            validateParentExists, skipInheritance, cycleStep, redefinitionStep
    <2> QED
      BY <1>0, <1>1, <2>1
  <1>4. CASE redefinitionsChecked \/ validateEntityRules \/ entitiesValidated
             \/ validateRelationship \/ relationshipsValidated
    <2>1. pc # "done" /\ (status' = status \/ status' = "ABORTED")
      BY <1>4 DEF redefinitionsChecked, validateEntityRules, entitiesValidated,
            validateRelationship, relationshipsValidated
    <2> QED
      BY <1>0, <1>1, <2>1
  <1>5. CASE symbolTableBuilt
    <2>1. CASE status' = NULL
      BY <1>0, <1>1, <1>5, <2>1 DEF symbolTableBuilt
    <2>2. CASE ~ok /\ status' = "SEMANTIC_ERROR"
      <3>1. hasErrors
        BY <2>2 DEF Judged, Known, FailuresAgree
      <3>2. ~SchemaSound(schema)
        BY <3>1 DEF Judged, Innocent
      <3>3. status = NULL
        BY <1>0, <1>5 DEF symbolTableBuilt
      <3> QED
        BY <1>0, <2>2, <3>2, <3>3, SemanticAssumption DEF Outcome!Judge
    <2> QED
      BY <1>5, <2>1, <2>2 DEF symbolTableBuilt
  <1>6. CASE verdict
    <2>1. /\ pc = "verdict" /\ status = NULL
          /\ status' = IF hasErrors THEN "SEMANTIC_ERROR" ELSE "SEMANTIC_OK"
      BY <1>0, <1>6 DEF verdict
    <2>2. hasErrors => ~SchemaSound(schema)
      BY DEF Judged, Innocent
    <2>3. ~hasErrors => SchemaSound(schema)
      BY <2>1, PassedIsSound
    <2> QED
      BY <1>0, <2>1, <2>2, <2>3, SemanticAssumption DEF Outcome!Judge
  <1>7. CASE UNCHANGED vars
    BY <1>7 DEF vars
  <1> QED
    BY <1>2, <1>3, <1>4, <1>5, <1>6, <1>7 DEF Next, returned

\* The verdict is that of the declarative rules, for every set of schemas with none of the
\* exceptions that the code makes (Ordinary): no sound schema is rejected, no
\* other one accepted, and a crash gives no verdict (SemanticAnalyzer.c:59-72).
THEOREM AnalyzerVerdictRight ==
  ASSUME \A s \in Schemas : Ordinary(s)
  PROVE  Spec => VerdictIsRight
  <1>1. Init => Ordinary(schema) /\ Checked /\ OnlyReadBound /\ Innocent /\ (~hasErrors => Passed)
    BY SemanticAssumption DEF Init, Checked, Progress, OnlyReadBound, Innocent, Passed,
          OnEntity, AfterEntityTypes, AfterTypes
  <1>2. Typed /\ FailuresAgree /\ TableInPlace <=> Known
    BY DEF Known
  <1>3. Spec => []FailuresAgree
    BY AlwaysTyped, FailuresAgreeInit, FailuresAgreeStep, PTL DEF Spec
  <1>4. Spec => []Known
    BY <1>2, <1>3, AlwaysTyped, AlwaysInPlace, PTL
  <1>5. Init /\ Known => Judged
    BY <1>1 DEF Judged
  <1>6. Init => Outcome!Init
    BY SemanticAssumption DEF Init, Outcome!Init
  <1>7. Judged /\ [Next]_vars =>
            [Outcome!Judge]_<<schema, IF status = "ABORTED" THEN NULL ELSE status>>
    BY JudgeStep
  <1>8. Spec => []Judged
    BY <1>4, <1>5, JudgedStep, PTL DEF Spec
  <1> QED
    BY <1>6, <1>7, <1>8, PTL DEF Spec, VerdictIsRight, Outcome!Spec
=============================================================================
