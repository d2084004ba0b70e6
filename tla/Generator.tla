------------------------------ MODULE Generator ------------------------------
(***************************************************************************)
(* generateGraphviz: the DOT file of a schema, statement by statement, and *)
(* the label of each condition, call by call of the string builder.  A     *)
(* text is a sequence of pieces, so that two identifiers are equal when    *)
(* what is printed is.  Left out: the type and the array mark of an        *)
(* attribute, cardinalities, colours, and operators within one class.      *)
(***************************************************************************)
EXTENDS StringBuilder, ERSchema, SequencesExt, FiniteSets, TLC

CONSTANTS
    spelling,   \* of each name: its pieces, "_" one of its own
    rendering,  \* of a literal of each type; that of a string has its quotes
    numeral,    \* of the number of an assertion
    OLD         \* output.dot as it was before

\* What the generator writes into a label besides the names and the literals.
Punctuation == {"(", ")", "\\", "\"", "+", "<", "&", "!", "?", ":"}

ASSUME GeneratorAssumption ==
    /\ Punctuation \subseteq Char
    /\ DOMAIN spelling = Names /\ \A n \in Names : spelling[n] \in Seq(Char)
    /\ \A m, n \in Names : spelling[m] = spelling[n] => m = n
    /\ \A k \in DOMAIN numeral : numeral[k] # "rel"
    /\ \A k, l \in DOMAIN numeral : numeral[k] = numeral[l] => k = l
    /\ DOMAIN rendering = LiteralType /\ \A t \in LiteralType : rendering[t] \in Seq(Char)

VARIABLES
    schema,     \* program->schema
    drawing,    \* where generateGraphviz is
    at,         \* the entity or relationship it is at
    assertion,  \* the assertion of that entity it is at
    calls,      \* the calls of the builder that are left for its label
    dot         \* the statements in output.dot, or OLD

drawer == <<drawing, at, assertion, calls, dot>>
generator == <<schema, drawer, builder>>

-----------------------------------------------------------------------------
(* Identifiers of the nodes                                                *)
entityId(e) == spelling[e.name]
attributeId(e, a) == <<"attr", "_">> \o spelling[e.name] \o <<"_">> \o spelling[a.name]
assertionId(e, k) == <<"assert", "_">> \o spelling[e.name] \o <<"_", numeral[k - 1]>>

\* Mutant: the diamond is named as the relationship is.
relationshipNamed(r) == spelling[r.name]

relationshipId(r) == spelling[r.name] \o <<"_", "rel">>

\* Mutant: no _rel, as for the attributes of an entity.
relationshipAttributeNamed(r, a) ==
    <<"attr", "_">> \o spelling[r.name] \o <<"_">> \o spelling[a.name]

relationshipAttributeId(r, a) ==
    <<"attr", "_", "rel", "_">> \o spelling[r.name] \o <<"_">> \o spelling[a.name]

NodeStatement(id, label, marks) == [stmt |-> "node", id |-> id, label |-> label, marks |-> marks]
EdgeStatement(from, to, marks) == [stmt |-> "edge", from |-> from, to |-> to, marks |-> marks]
Mark(condition, mark) == IF condition THEN {mark} ELSE {}

\* Mutant: the entity of a key part is not looked at.
isAttributeInAnyPrimaryKey(e, attrName) ==
    /\ e.primaryKey # NULL
    /\ \E i \in DOMAIN e.primaryKey : e.primaryKey[i].attribute = attrName

isAttributeInPrimaryKey(e, attrName) ==
    /\ e.primaryKey # NULL
    /\ \E i \in DOMAIN e.primaryKey :
          /\ e.primaryKey[i].attribute = attrName
          /\ e.primaryKey[i].entity \in {NULL, e.name}

writeAttributeNode(e, a) ==
    << NodeStatement(attributeId(e, a), spelling[a.name],
           Mark(HasModifier(a, "MOD_PRIMARY") \/ isAttributeInPrimaryKey(e, a.name), "key")
           \cup Mark(HasModifier(a, "MOD_DERIVED"), "derived")),
       EdgeStatement(entityId(e), attributeId(e, a), {}) >>

\* Mutant: the edge comes from the entity of that name.
edgeFromName(r, a) ==
    << NodeStatement(relationshipAttributeId(r, a), spelling[a.name],
           Mark(HasModifier(a, "MOD_DERIVED"), "derived")),
       EdgeStatement(spelling[r.name], relationshipAttributeId(r, a), {}) >>

writeRelationshipAttributeNode(r, a) ==
    << NodeStatement(relationshipAttributeId(r, a), spelling[a.name],
           Mark(HasModifier(a, "MOD_DERIVED"), "derived")),
       EdgeStatement(relationshipId(r), relationshipAttributeId(r, a), {}) >>

EntityNode(e) == NodeStatement(entityId(e), spelling[e.name], Mark(e.weak, "weak"))

Total(p) == p.participation = "PARTICIPATION_TOTAL"
WeakEntity(name) ==
    \E i \in DOMAIN schema.entities : schema.entities[i].name = name /\ schema.entities[i].weak

\* Mutant: the loop stops at the first participant.
identifiedByFirst(r) == Total(r.participants[1]) /\ WeakEntity(r.participants[1].entityName)

isIdentifyingRel(r) ==
    \E i \in DOMAIN r.participants :
        Total(r.participants[i]) /\ WeakEntity(r.participants[i].entityName)

RelationshipStatements(r) ==
    << NodeStatement(relationshipId(r), spelling[r.name],
                     Mark(isIdentifyingRel(r), "identifying")) >>
    \o FlattenSeq([i \in DOMAIN r.attributes |->
                      writeRelationshipAttributeNode(r, r.attributes[i])])
    \o [i \in DOMAIN r.participants |->
           EdgeStatement(spelling[r.participants[i].entityName], relationshipId(r),
                         Mark(Total(r.participants[i]), "total"))]

InheritanceStatement(e) ==
    IF e.parent = NULL THEN <<>>
    ELSE <<EdgeStatement(entityId(e), spelling[e.parent], {"is-a"})>>
InheritanceStatements ==
    FlattenSeq([i \in DOMAIN schema.entities |-> InheritanceStatement(schema.entities[i])])

-----------------------------------------------------------------------------
(* The label of a condition                                                *)
append(text) == << [fn |-> "sb_append", text |-> text] >>
printf(text) == << [fn |-> "sb_printf", text |-> text] >>

EscapedQuote == <<"\\", "\"">>

literalCalls(type) ==
    CASE type \in {"INTEGER_LITERAL", "DECIMAL_LITERAL"} -> printf(rendering[type])
      [] type = "STRING_LITERAL" ->
            append(EscapedQuote) \o append(rendering[type]) \o append(EscapedQuote)
      [] type = "BOOLEAN_LITERAL" -> append(rendering[type])

\* The calls of buildExpressionString for node i, if `of` has those of its operands.
nodeCalls(expr, of, i) ==
    LET node == expr[i]
        operand(k) == of[node.args[k]]
    IN  CASE node.type = "LITERAL_EXPR"     -> literalCalls(node.leaf)
          [] node.type = "IDENTIFIER_EXPR"  -> append(spelling[node.leaf])
          [] node.type = "ARITHMETIC_EXPR"  ->
                append(<<"(">>) \o operand(1) \o append(<<"+">>) \o operand(2)
                \o append(<<")">>)
          [] node.type = "RELATIONAL_EXPR"  ->
                operand(1) \o append(<<"<">>) \o operand(2)
          [] node.type = "LOGICAL_EXPR"     ->
                operand(1) \o append(<<"&">>) \o operand(2)
          [] node.type = "LOGICAL_NOT_EXPR" -> append(<<"!">>) \o operand(1)
          [] node.type = "CONDITIONAL_EXPR" ->
                operand(1) \o append(<<"?">>) \o operand(2) \o append(<<":">>)
                \o operand(3)
          [] node.type = "PARENTHESIZED_EXPR" ->
                append(<<"(">>) \o operand(1) \o append(<<")">>)

buildExpressionString(expr) ==
    LET of[i \in DOMAIN expr] == nodeCalls(expr, of, i)
    IN  of[Len(expr)]

-----------------------------------------------------------------------------
GeneratorInit ==
    /\ drawing = "idle" /\ at = 0 /\ assertion = 0 /\ calls = <<>> /\ dot = OLD
    /\ BuilderInit

\* fopen empties the file, or leaves it as it was.
generateGraphviz ==
    /\ drawing = "idle"
    /\ \/ drawing' = "entities" /\ dot' = <<>>
       \/ drawing' = "failed" /\ UNCHANGED dot
    /\ at' = 1
    /\ UNCHANGED <<schema, assertion, calls, builder>>

Here == schema.entities[at]

\* On to the next assertion, the next entity, or the relationships.
Continue ==
    \/ assertion < Len(Here.assertions) /\ assertion' = assertion + 1
       /\ drawing' = "assertions" /\ UNCHANGED at
    \/ assertion = Len(Here.assertions) /\ at < Len(schema.entities)
       /\ assertion' = 0 /\ drawing' = "entities" /\ at' = at + 1
    \/ assertion = Len(Here.assertions) /\ at = Len(schema.entities)
       /\ assertion' = 0 /\ drawing' = "relationships" /\ at' = 1

writeEntity ==
    /\ drawing = "entities" /\ at \in DOMAIN schema.entities
    /\ dot' = dot \o <<EntityNode(Here)>>
                  \o FlattenSeq([i \in DOMAIN Here.attributes |->
                                    writeAttributeNode(Here, Here.attributes[i])])
    /\ Continue
    /\ UNCHANGED <<schema, calls, builder>>

\* A schema without entities.
noEntities ==
    /\ drawing = "entities" /\ schema.entities = <<>>
    /\ drawing' = "relationships" /\ at' = 1
    /\ UNCHANGED <<schema, assertion, calls, dot, builder>>

expressionToString ==
    /\ drawing = "assertions"
    /\ sb_init
    /\ calls' = buildExpressionString(Here.assertions[assertion])
    /\ drawing' = "label"
    /\ UNCHANGED <<schema, at, assertion, dot>>

\* Bound: with a buffer, no more than one allocation fails in a label.
OneFailure == lost /\ data # NO_DATA => appended' # appended

\* Mutant: a text that could not be appended is tried again.
callAgain ==
    /\ drawing = "label" /\ calls # <<>>
    /\ \/ Head(calls).fn = "sb_append" /\ sb_append(Head(calls).text)
       \/ Head(calls).fn = "sb_printf" /\ sb_printf(Head(calls).text)
    /\ OneFailure
    /\ calls' = IF appended' = appended THEN calls ELSE Tail(calls)
    /\ UNCHANGED <<schema, drawing, at, assertion, dot>>

callBuilder ==
    /\ drawing = "label" /\ calls # <<>>
    /\ \/ Head(calls).fn = "sb_append" /\ sb_append(Head(calls).text)
       \/ Head(calls).fn = "sb_printf" /\ sb_printf(Head(calls).text)
    /\ OneFailure
    /\ calls' = Tail(calls)
    /\ UNCHANGED <<schema, drawing, at, assertion, dot>>

\* The label is copied, the builder destroyed, the node and its edge written.
writeAssertion ==
    /\ drawing = "label" /\ calls = <<>>
    /\ dot' = dot \o << NodeStatement(assertionId(Here, assertion), sb_tostring, {"note"}),
                        EdgeStatement(entityId(Here), assertionId(Here, assertion), {}) >>
    /\ sb_destroy
    /\ Continue
    /\ UNCHANGED <<schema, calls>>

writeRelationship ==
    /\ drawing = "relationships" /\ at \in DOMAIN schema.relationships
    /\ dot' = dot \o RelationshipStatements(schema.relationships[at])
    /\ at' = at + 1
    /\ UNCHANGED <<schema, drawing, assertion, calls, builder>>

\* The inheritance edges and the footer.
closeFile ==
    /\ drawing = "relationships" /\ at = Len(schema.relationships) + 1
    /\ dot' = dot \o InheritanceStatements
    /\ drawing' = "closed"
    /\ UNCHANGED <<schema, at, assertion, calls, builder>>

GeneratorNext ==
    \/ generateGraphviz
    \/ writeEntity \/ noEntities \/ expressionToString \/ callBuilder \/ writeAssertion
    \/ writeRelationship \/ closeFile

Drawn == drawing \in {"closed", "failed"}

-----------------------------------------------------------------------------
NodeStmt(i) == i \in DOMAIN dot /\ dot[i].stmt = "node"

\* A finished label reads as its condition, whatever its length and wherever the
\* buffer grew: its operands are complete and in the order of the source, and where
\* none of them has a bracket or a sign (the text of a string literal may), its
\* brackets are balanced and it has the operators of the tree
\* (GraphvizGenerator.c:414, 441, 470).
Signs == [ARITHMETIC_EXPR |-> "+", RELATIONAL_EXPR |-> "<", LOGICAL_EXPR |-> "&",
          LOGICAL_NOT_EXPR |-> "!", CONDITIONAL_EXPR |-> ":"]
Word(c) == IF c \in Punctuation THEN <<>> ELSE <<c>>
Words(text) == FlattenSeq([i \in DOMAIN text |-> Word(text[i])])
Count(text, c) == Cardinality({i \in DOMAIN text : text[i] = c})
Leaf(node) == IF node.type = "LITERAL_EXPR" THEN rendering[node.leaf]
              ELSE IF node.type = "IDENTIFIER_EXPR" THEN spelling[node.leaf] ELSE <<>>
Leaves(expr) == [i \in DOMAIN expr |-> Leaf(expr[i])]
Bare(text) == \A i \in DOMAIN text : text[i] \notin {"(", ")", "+", "<", "&", "!", ":"}
Balanced(text) ==
    /\ \A i \in DOMAIN text :
          LET read == SubSeq(text, 1, i)
          IN  Count(read, ")") <= Count(read, "(")
    /\ Count(text, ")") = Count(text, "(")
LabelReadsAsCondition ==
    drawing = "label" /\ calls = <<>> /\ ~lost =>
        LET expr == Here.assertions[assertion]
            label == sb_tostring
        IN  /\ Words(label) = Words(FlattenSeq(Leaves(expr)))
            /\ (\A i \in DOMAIN expr : Bare(Leaf(expr[i]))) =>
                  /\ Balanced(label)
                  /\ \A type \in DOMAIN Signs :
                        Count(label, Signs[type]) =
                            Cardinality({i \in DOMAIN expr : expr[i].type = type})

\* The diagram has a node of its own for every entity, attribute, assertion and
\* relationship, as long as no name has an underscore, which is what separates the
\* parts of an identifier (GraphvizGenerator.c:157, 201, 239, 271), and no entity
\* or relationship has two attributes of one name.
DistinctNames(attributes) ==
    \A i, j \in DOMAIN attributes : attributes[i].name = attributes[j].name => i = j
Separable ==
    /\ \A e \in ToSet(schema.entities) \cup ToSet(schema.relationships) :
          /\ DistinctNames(e.attributes)
          /\ \A n \in {e.name} \cup {e.attributes[i].name : i \in DOMAIN e.attributes} :
                "_" \notin ToSet(spelling[n])
NodesToldApart ==
    drawing = "closed" /\ Separable =>
        \A i, j \in DOMAIN dot : NodeStmt(i) /\ NodeStmt(j) /\ dot[i].id = dot[j].id => i = j

\* The file is a DOT file: a label in quotes ends where the generator ends it, at
\* no quote of its own.
Quoted(label) ==
    \A i \in DOMAIN label : label[i] = "\"" => i > 1 /\ label[i - 1] = "\\"
WellFormed(stmts) == \A i \in DOMAIN stmts : stmts[i].stmt = "node" => Quoted(stmts[i].label)
DotWellFormed == drawing = "closed" => WellFormed(dot)
=============================================================================
