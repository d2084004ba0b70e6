----------------------------- MODULE MCSyntaxTree -----------------------------
(* The parser of schemas from several beginnings: nothing, an empty schema, *)
(* two entities and two relationships, and the middle of an entity's body,  *)
(* of a key, of an attribute and of a relationship.                         *)
EXTENDS SyntaxTree

MCSchema == <<"SCHEMA", "IDENTIFIER">>
MCEntity == <<"ENTITY", "IDENTIFIER", "OPEN_BRACE">>
MCRelationship == <<"RELATIONSHIP", "IDENTIFIER", "OPEN_PAREN", "IDENTIFIER">>
MCAttribute == <<"IDENTIFIER", "COLON", "TYPE">>
MCOpenings == {
    <<>>, MCSchema,
    MCSchema \o MCEntity \o <<"CLOSE_BRACE">> \o MCRelationship \o <<"CLOSE_PAREN">>
             \o MCEntity \o <<"CLOSE_BRACE">> \o MCRelationship \o <<"CLOSE_PAREN">>,
    MCSchema \o MCEntity \o MCAttribute,
    MCSchema \o MCEntity \o <<"PRIMARY_COMPOSITE", "OPEN_PAREN", "IDENTIFIER">>,
    MCSchema \o MCEntity \o <<"ASSERT", "LIT_INTEGER", "ASSERT", "IDENTIFIER">>,
    MCSchema \o MCRelationship,
    MCSchema \o MCRelationship \o <<"CLOSE_PAREN", "OPEN_BRACE">> \o MCAttribute}
MCTerminals == UNION {ToSet(Rules[r].rhs) : r \in DOMAIN Rules} \ (Heads \cup {"END"})
=============================================================================
