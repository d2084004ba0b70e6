------------------------------- MODULE Grammar -------------------------------
(***************************************************************************)
(* The rules of BisonGrammar.y and the automaton Bison makes of them: a    *)
(* state is a closed set of items, an item a rule and how many of its      *)
(* symbols are read.                                                       *)
(*                                                                         *)
(* Tokens that one rule treats alike are one token: TYPE (all but ENUM),   *)
(* MODIFIER (the one-word modifiers), TOTAL (and PARTIAL), TOK_ONE (and    *)
(* TOK_MANY), LIT_INTEGER (the literals but strings), OP_MUL (and OP_DIV). *)
(* Conditions have these operators only: ExpressionParser has the others.  *)
(***************************************************************************)
EXTENDS Integers, Sequences, FiniteSets, SequencesExt

(* `args` are the positions of the action's arguments in the rule, 0 for a *)
(* NULL.                                                                   *)
R(lhs, rhs, action, args) == [lhs |-> lhs, rhs |-> rhs, action |-> action, args |-> args]

Rules == <<
    R("accept", <<"program", "END">>, "accept", <<>>),
    R("program", <<"schema_decl">>, "SchemaProgram", <<1>>),
    R("schema_decl", <<"SCHEMA", "IDENTIFIER", "schema_body">>, "Schema", <<2, 3>>),
    R("schema_body", <<>>, "Empty", <<>>),
    R("schema_body", <<"schema_body", "entity_decl">>, "AppendEntitySchemaBody", <<1, 2>>),
    R("schema_body", <<"schema_body", "relationship_decl">>,
      "AppendRelationshipSchemaBody", <<1, 2>>),
    R("entity_decl", <<"ENTITY", "IDENTIFIER", "OPEN_BRACE", "entity_body", "CLOSE_BRACE">>,
      "Entity", <<2, 0, 4>>),
    R("entity_decl", <<"ENTITY", "IDENTIFIER", "COLON", "IDENTIFIER", "OPEN_BRACE",
                       "entity_body", "CLOSE_BRACE">>, "Entity", <<2, 4, 6>>),
    R("entity_decl", <<"WEAK", "ENTITY", "IDENTIFIER", "OPEN_BRACE", "entity_body",
                       "CLOSE_BRACE">>, "Entity", <<3, 0, 5>>),
    R("entity_decl", <<"WEAK", "ENTITY", "IDENTIFIER", "COLON", "IDENTIFIER", "OPEN_BRACE",
                       "entity_body", "CLOSE_BRACE">>, "Entity", <<3, 5, 7>>),
    R("entity_body", <<>>, "Empty", <<>>),
    R("entity_body", <<"entity_body", "attribute_decl">>, "AppendAttributeEntityBody", <<1, 2>>),
    R("entity_body", <<"entity_body", "primary_decl">>, "SetPrimaryKeyEntityBody", <<1, 2>>),
    R("entity_body", <<"entity_body", "assert_decl">>, "AppendAssertionEntityBody", <<1, 2>>),
    R("attribute_decl", <<"IDENTIFIER", "COLON", "type_spec", "modifier_list">>,
      "Attribute", <<1, 3, 4>>),
    R("modifier_list", <<>>, "Empty", <<>>),
    R("modifier_list", <<"modifier_list", "modifier">>, "AppendModifier", <<1, 2>>),
    R("modifier", <<"MODIFIER">>, "Modifier", <<>>),
    R("modifier", <<"NOT", "NULL_TOK">>, "Modifier", <<>>),
    R("modifier", <<"DEFAULT", "literal">>, "ModifierDefault", <<2>>),
    R("primary_decl", <<"PRIMARY_COMPOSITE", "OPEN_PAREN", "qualified_identifier_list",
                        "CLOSE_PAREN">>, "PrimaryKey", <<3>>),
    R("qualified_identifier_list", <<"qualified_identifier">>, "QualifiedIdentifierList", <<1>>),
    R("qualified_identifier_list", <<"qualified_identifier_list", "COMMA",
                                     "qualified_identifier">>,
      "AppendQualifiedIdentifierList", <<1, 3>>),
    R("qualified_identifier", <<"IDENTIFIER">>, "CreateQualifiedIdentifier", <<0, 1>>),
    R("qualified_identifier", <<"IDENTIFIER", "COLON", "IDENTIFIER">>,
      "CreateQualifiedIdentifier", <<1, 3>>),
    R("assert_decl", <<"ASSERT", "expression">>, "Assertion", <<2>>),
    R("relationship_decl", <<"RELATIONSHIP", "IDENTIFIER", "OPEN_PAREN",
                             "relationship_participant_list", "CLOSE_PAREN",
                             "relationship_body">>, "Relationship", <<2, 4, 6>>),
    R("relationship_participant_list", <<"relationship_participant">>, "ParticipantList", <<1>>),
    R("relationship_participant_list", <<"relationship_participant_list", "COMMA",
                                         "relationship_participant">>,
      "AppendParticipantList", <<1, 3>>),
    R("relationship_participant", <<"IDENTIFIER", "participation_opt">>, "Participant", <<1, 2>>),
    R("relationship_participant", <<"IDENTIFIER", "TOK_ONE", "participation_opt">>,
      "Participant", <<1, 3>>),
    R("participation_opt", <<>>, "Empty", <<>>),
    R("participation_opt", <<"TOTAL">>, "Participation", <<>>),
    R("relationship_body", <<>>, "Empty", <<>>),
    R("relationship_body", <<"OPEN_BRACE", "attribute_list", "CLOSE_BRACE">>,
      "RelationshipBody", <<2>>),
    R("attribute_list", <<"attribute_decl">>, "AttributeList", <<1>>),
    R("attribute_list", <<"attribute_list", "attribute_decl">>, "AppendAttributeList", <<1, 2>>),
    R("type_spec", <<"ENUM">>, "Type", <<>>),
    R("type_spec", <<"TYPE">>, "Type", <<>>),
    R("type_spec", <<"TYPE", "OPEN_BRACKET", "CLOSE_BRACKET">>, "Type", <<>>),
    R("expression", <<"literal">>, "LiteralExpression", <<1>>),
    R("expression", <<"IDENTIFIER">>, "IdentifierExpression", <<1>>),
    R("expression", <<"expression", "OP_MUL", "expression">>, "ArithmeticExpression", <<1, 3>>),
    R("literal", <<"LIT_INTEGER">>, "Literal", <<>>),
    R("literal", <<"LIT_STRING">>, "StringLiteral", <<1>>) >>

-----------------------------------------------------------------------------
Heads == {Rules[r].lhs : r \in DOMAIN Rules}

\* The heads that a phrase of each head may begin with.
Beginnings ==
    LET direct(S) == S \cup {Rules[r].rhs[1] : r \in {q \in DOMAIN Rules :
                         Rules[q].lhs \in S /\ Rules[q].rhs # <<>>}}
        within[k \in 0 .. Cardinality(Heads)] ==
            [X \in Heads |-> IF k = 0 THEN {X} ELSE direct(within[k - 1][X])]
    IN  [X \in Heads |-> within[Cardinality(Heads)][X] \cap Heads]

Unread(item) == item[2] < Len(Rules[item[1]].rhs)
NextSymbol(item) == Rules[item[1]].rhs[item[2] + 1]
NextSymbols(items) == {NextSymbol(i) : i \in {j \in items : Unread(j)}}
Complete(items) == {i[1] : i \in {j \in items : ~Unread(j)}}

Closed(items) ==
    LET begun == UNION {Beginnings[X] : X \in NextSymbols(items) \cap Heads}
    IN  items \cup {<<r, 0>> : r \in {q \in DOMAIN Rules : Rules[q].lhs \in begun}}
Goto(items, X) ==
    Closed({<<i[1], i[2] + 1>> : i \in {j \in items : Unread(j) /\ NextSymbol(j) = X}})
Start == Closed({<<1, 0>>})

\* %left: an expression that ends in this operator's rule does not wait for it.
Left == {"OP_MUL"}
Shiftable(items) ==
    (NextSymbols(items) \ Heads)
    \ UNION {Left \cap ToSet(Rules[r].rhs) : r \in Complete(items)}
=============================================================================
