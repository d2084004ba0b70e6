--------------------------- MODULE ValidationRules ---------------------------
(***************************************************************************)
(* The rules of backend/domain-specific that look at one entity or one     *)
(* relationship at a time.  A rule is the set of errors it logs, each      *)
(* <<rule, entity or relationship, detail>>; it fails exactly when it logs *)
(* one.  `find` is the symbol table: find[n] is the position of the entity *)
(* that n is bound to, or NULL.  The walks up the inheritance chain, which *)
(* may not end, are steps of SemanticAnalyzer.                             *)
(***************************************************************************)
EXTENDS TypeInference, FiniteSets

CONSTANTS
    MAX_PRIMARY_KEY_ATTRIBUTES,     \* 128 in ValidationConstants.h
    MAX_RELATIONSHIP_PARTICIPANTS,  \* 64
    MAX_WEAK_ENTITY_REFERENCES,     \* 32
    text,                           \* text[n]: the characters of n
    LABEL_SIZE                      \* the 256 bytes of validateEntityPrimaryKey's buffer

EntityNamed(s, find, n) == s.entities[find[n]]

-----------------------------------------------------------------------------
(* TypeChecker.c                                                           *)

\* The default literals of an attribute list whose type is not the declared one.
MistypedDefaults(attributes) ==
    {i \in DOMAIN attributes : \E j \in DOMAIN attributes[i].modifiers :
        LET m == attributes[i].modifiers[j]
        IN  /\ m.type = "MOD_DEFAULT" /\ m.defaultValue # NULL
            /\ inferLiteralType(m.defaultValue.type) # attributes[i].kind}

checkDefaults(e) ==
    {<<"defaultTypeMismatch", e.name, i>> : i \in MistypedDefaults(e.attributes)}

checkAssertions(e) ==
    {<<"assertionNotBoolean", e.name, i>> : i \in
        {k \in DOMAIN e.assertions :
            inferExpressionType(e.assertions[k], e.attributes).kind # "TYPE_BOOL"}}

\* What the inference logs on the way; no caller counts these as errors.
InferenceLog(e) ==
    {<<"inference", e.name, i>> : i \in
        {k \in DOMAIN e.assertions :
            inferExpressionType(e.assertions[k], e.attributes).errors # {}}}

\* A relationship attribute's default is a Literal read as if it were an
\* Expression.  An integer's tag is LITERAL_EXPR's and its value is taken for
\* the literal's address: 0 is no literal and has no type, any other value and
\* any other tag reads through a wild pointer, which the sanitized build stops.
RelationshipDefaults(r) ==
    UNION {{<<i, j>> : j \in {k \in DOMAIN r.attributes[i].modifiers :
                /\ r.attributes[i].modifiers[k].type = "MOD_DEFAULT"
                /\ r.attributes[i].modifiers[k].defaultValue # NULL}} :
           i \in DOMAIN r.attributes}

ReadsWildPointer(r) ==
    \E d \in RelationshipDefaults(r) :
        LET v == r.attributes[d[1]].modifiers[d[2]].defaultValue
        IN  ~(v.type = "INTEGER_LITERAL" /\ v.zero)

checkRelationshipDefaults(r) ==
    {<<"relationshipDefaultTypeMismatch", r.name, d[1]>> : d \in RelationshipDefaults(r)}

-----------------------------------------------------------------------------
(* EntityPKRules.c                                                         *)

Target(e, qid) == IF qid.entity # NULL THEN qid.entity ELSE e.name

validatePKIdentifier(s, find, e, qid) ==
    LET target == Target(e, qid)
        log(rule) == {<<rule, e.name, target>>}
        attributes == IF target = e.name THEN e.attributes
                      ELSE EntityNamed(s, find, target).attributes
    IN  IF target # e.name /\ ~e.weak THEN log("nonWeakKeyReference")
        ELSE IF target # e.name /\ find[target] = NULL THEN log("keyEntityUnknown")
        ELSE IF ~AttributeNamed(attributes, qid.attribute) THEN log("keyAttributeUnknown")
        ELSE IF HasModifier(lookupAttribute(attributes, qid.attribute), "MOD_DERIVED")
        THEN log("keyAttributeDerived")
        ELSE {}

\* snprintf's "%s.%s", cut to the buffer and its terminator.
PKLabel(e, qid) ==
    LET full == text[Target(e, qid)] \o <<".">> \o text[qid.attribute]
    IN  SubSeq(full, 1, IF Len(full) < LABEL_SIZE THEN Len(full) ELSE LABEL_SIZE - 1)

DuplicateKeyAttributes(e) ==
    {<<"duplicateKeyAttribute", e.name, j>> : j \in
        {k \in DOMAIN e.primaryKey : \E i \in 1 .. k - 1 :
            PKLabel(e, e.primaryKey[i]) = PKLabel(e, e.primaryKey[k])}}

InlinePrimaries(e) == {i \in DOMAIN e.attributes : HasModifier(e.attributes[i], "MOD_PRIMARY")}

\* The explicit clause is looked into only when it is the only key of a root.
ChecksExplicitKey(e) ==
    e.parent = NULL /\ e.primaryKey # NULL /\ InlinePrimaries(e) = {}

validateEntityPrimaryKey(s, find, e) ==
    LET inline == InlinePrimaries(e)
        log(rule) == {<<rule, e.name, NULL>>}
    IN  IF e.parent # NULL
        THEN IF e.primaryKey # NULL \/ inline # {} THEN log("keyOnAChild") ELSE {}
        ELSE IF e.primaryKey # NULL /\ inline # {} THEN log("twoKindsOfKey")
        ELSE IF Cardinality(inline) > 1 THEN log("severalInlineKeys")
        ELSE IF e.primaryKey = NULL
        THEN IF inline = {} THEN log("noKey") ELSE {}
        ELSE IF e.primaryKey = <<>> THEN log("emptyKey")
        ELSE DuplicateKeyAttributes(e) \cup
             UNION {validatePKIdentifier(s, find, e, e.primaryKey[i]) :
                    i \in DOMAIN e.primaryKey}

\* The array of labels seen is filled without a look at its size.
OverrunsSeen(e) == ChecksExplicitKey(e) /\ Len(e.primaryKey) > MAX_PRIMARY_KEY_ATTRIBUTES
-----------------------------------------------------------------------------
(* WeakEntityRules.c                                                       *)

\* The entities named in the key's qualifiers, as far as the array holds them:
\* a new name is kept while fewer than the limit came before it.
ReferencedEntities(e) ==
    LET qualifiers(k) == {e.primaryKey[i].entity : i \in 1 .. k} \ {NULL}
    IN  UNION {qualifiers(k) : k \in {j \in DOMAIN e.primaryKey :
                   Cardinality(qualifiers(j)) <= MAX_WEAK_ENTITY_REFERENCES}}

Participates(r, n) == \E i \in DOMAIN r.participants : r.participants[i].entityName = n

validateWeakEntityRelationships(s, e) ==
    IF e.primaryKey = NULL \/ e.primaryKey = <<>> THEN {}
    ELSE IF s.relationships = <<>> THEN {<<"weakWithoutRelationships", e.name, NULL>>}
    ELSE {<<"weakReferenceUnrelated", e.name, n>> : n \in
            {m \in ReferencedEntities(e) :
                ~\E i \in DOMAIN s.relationships :
                    /\ Participates(s.relationships[i], e.name)
                    /\ Participates(s.relationships[i], m)}}

-----------------------------------------------------------------------------
(* AttributeModifierRules.c                                                *)

isLiteralType(k) == k \in {"TYPE_INTEGER", "TYPE_DECIMAL", "TYPE_STRING", "TYPE_BOOL"}
isPrimaryKeyType(k) == k \in {"TYPE_UUID", "TYPE_STRING", "TYPE_INTEGER"}

validateDefaultModifierTypes(e) ==
    {<<"defaultOnNonLiteralType", e.name, i>> : i \in
        {k \in DOMAIN e.attributes : /\ HasModifier(e.attributes[k], "MOD_DEFAULT")
                                     /\ ~isLiteralType(e.attributes[k].kind)}}

validatePrimaryModifierTypes(e) ==
    {<<"primaryOnNonKeyType", e.name, i>> : i \in
        {k \in DOMAIN e.attributes : /\ HasModifier(e.attributes[k], "MOD_PRIMARY")
                                     /\ ~isPrimaryKeyType(e.attributes[k].kind)}}

\* What validateSingleEntity checks after the inheritance rules, in one set:
\* no rule reads what another one writes.
entityRules(s, find, e) ==
    validateEntityPrimaryKey(s, find, e)
    \cup (IF e.weak THEN validateWeakEntityRelationships(s, e) ELSE {})
    \cup validateDefaultModifierTypes(e)
    \cup validatePrimaryModifierTypes(e)

-----------------------------------------------------------------------------
(* RelationshipParticipantRules.c, RelationshipAttributeRules.c            *)

validateParticipantEntitiesExist(find, r) ==
    {<<"participantUnknown", r.name, i>> : i \in
        {k \in DOMAIN r.participants : find[r.participants[k].entityName] = NULL}}

\* Mutant: a participant is compared with the one before it.
validateUniqueNeighbours(r) ==
    {<<"participantRepeated", r.name, j>> : j \in
        {k \in DOMAIN r.participants \ {1} :
            r.participants[k - 1].entityName = r.participants[k].entityName}}

\* A participant is compared with the ones before it that the array holds.
validateUniqueParticipants(r) ==
    {<<"participantRepeated", r.name, j>> : j \in
        {k \in DOMAIN r.participants : \E i \in 1 .. k - 1 :
            /\ i <= MAX_RELATIONSHIP_PARTICIPANTS
            /\ r.participants[i].entityName = r.participants[k].entityName}}

validateMinimumParticipants(r) ==
    IF Len(r.participants) < 2 THEN {<<"tooFewParticipants", r.name, NULL>>} ELSE {}

validateWeakEntityParticipation(s, find, r) ==
    {<<"weakParticipationNotTotal", r.name, i>> : i \in
        {k \in DOMAIN r.participants :
            LET p == r.participants[k]
            IN  /\ find[p.entityName] # NULL
                /\ EntityNamed(s, find, p.entityName).weak
                /\ p.participation # "PARTICIPATION_TOTAL"}}

validateRelationshipAttributeModifiers(r) ==
    {<<"primaryRelationshipAttribute", r.name, i>> : i \in
        {k \in DOMAIN r.attributes : HasModifier(r.attributes[k], "MOD_PRIMARY")}}

\* validateSingleRelationship.
relationshipRules(s, find, r) ==
    validateParticipantEntitiesExist(find, r)
    \cup validateUniqueParticipants(r)
    \cup validateMinimumParticipants(r)
    \cup validateWeakEntityParticipation(s, find, r)
    \cup validateRelationshipAttributeModifiers(r)
=============================================================================
