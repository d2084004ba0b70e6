------------------------- MODULE PushParser_proofs -------------------------
(***************************************************************************)
(* The end of a parse: nothing is freed twice and only replaced keys are   *)
(* left; the automaton always has one thing to do; and the caller sees a   *)
(* push parser.                                                            *)
(***************************************************************************)
EXTENDS SyntaxTree_proofs

-----------------------------------------------------------------------------
(* The right sides of the rules                                            *)

LEMMA RhsAre ==
    /\ Rules[1].rhs = <<"program", "END">>
    /\ Rules[2].rhs = <<"schema_decl">>
    /\ Rules[3].rhs = <<"SCHEMA", "IDENTIFIER", "schema_body">>
    /\ Rules[4].rhs = <<>>
    /\ Rules[5].rhs = <<"schema_body", "entity_decl">>
    /\ Rules[6].rhs = <<"schema_body", "relationship_decl">>
    /\ Rules[7].rhs = <<"ENTITY", "IDENTIFIER", "OPEN_BRACE", "entity_body", "CLOSE_BRACE">>
    /\ Rules[8].rhs = <<"ENTITY", "IDENTIFIER", "COLON", "IDENTIFIER", "OPEN_BRACE", "entity_body", "CLOSE_BRACE">>
    /\ Rules[9].rhs = <<"WEAK", "ENTITY", "IDENTIFIER", "OPEN_BRACE", "entity_body", "CLOSE_BRACE">>
    /\ Rules[10].rhs = <<"WEAK", "ENTITY", "IDENTIFIER", "COLON", "IDENTIFIER", "OPEN_BRACE", "entity_body", "CLOSE_BRACE">>
    /\ Rules[11].rhs = <<>>
    /\ Rules[12].rhs = <<"entity_body", "attribute_decl">>
    /\ Rules[13].rhs = <<"entity_body", "primary_decl">>
    /\ Rules[14].rhs = <<"entity_body", "assert_decl">>
    /\ Rules[15].rhs = <<"IDENTIFIER", "COLON", "type_spec", "modifier_list">>
    /\ Rules[16].rhs = <<>>
    /\ Rules[17].rhs = <<"modifier_list", "modifier">>
    /\ Rules[18].rhs = <<"MODIFIER">>
    /\ Rules[19].rhs = <<"NOT", "NULL_TOK">>
    /\ Rules[20].rhs = <<"DEFAULT", "literal">>
    /\ Rules[21].rhs = <<"PRIMARY_COMPOSITE", "OPEN_PAREN", "qualified_identifier_list", "CLOSE_PAREN">>
    /\ Rules[22].rhs = <<"qualified_identifier">>
    /\ Rules[23].rhs = <<"qualified_identifier_list", "COMMA", "qualified_identifier">>
    /\ Rules[24].rhs = <<"IDENTIFIER">>
    /\ Rules[25].rhs = <<"IDENTIFIER", "COLON", "IDENTIFIER">>
    /\ Rules[26].rhs = <<"ASSERT", "expression">>
    /\ Rules[27].rhs = <<"RELATIONSHIP", "IDENTIFIER", "OPEN_PAREN", "relationship_participant_list", "CLOSE_PAREN", "relationship_body">>
    /\ Rules[28].rhs = <<"relationship_participant">>
    /\ Rules[29].rhs = <<"relationship_participant_list", "COMMA", "relationship_participant">>
    /\ Rules[30].rhs = <<"IDENTIFIER", "participation_opt">>
    /\ Rules[31].rhs = <<"IDENTIFIER", "TOK_ONE", "participation_opt">>
    /\ Rules[32].rhs = <<>>
    /\ Rules[33].rhs = <<"TOTAL">>
    /\ Rules[34].rhs = <<>>
    /\ Rules[35].rhs = <<"OPEN_BRACE", "attribute_list", "CLOSE_BRACE">>
    /\ Rules[36].rhs = <<"attribute_decl">>
    /\ Rules[37].rhs = <<"attribute_list", "attribute_decl">>
    /\ Rules[38].rhs = <<"ENUM">>
    /\ Rules[39].rhs = <<"TYPE">>
    /\ Rules[40].rhs = <<"TYPE", "OPEN_BRACKET", "CLOSE_BRACKET">>
    /\ Rules[41].rhs = <<"literal">>
    /\ Rules[42].rhs = <<"IDENTIFIER">>
    /\ Rules[43].rhs = <<"expression", "OP_MUL", "expression">>
    /\ Rules[44].rhs = <<"LIT_INTEGER">>
    /\ Rules[45].rhs = <<"LIT_STRING">>
<1>1. Rules[1].rhs = <<"program", "END">>
  BY DEF Rules, R
<1>2. Rules[2].rhs = <<"schema_decl">>
  BY DEF Rules, R
<1>3. Rules[3].rhs = <<"SCHEMA", "IDENTIFIER", "schema_body">>
  BY DEF Rules, R
<1>4. Rules[4].rhs = <<>>
  BY DEF Rules, R
<1>5. Rules[5].rhs = <<"schema_body", "entity_decl">>
  BY DEF Rules, R
<1>6. Rules[6].rhs = <<"schema_body", "relationship_decl">>
  BY DEF Rules, R
<1>7. Rules[7].rhs = <<"ENTITY", "IDENTIFIER", "OPEN_BRACE", "entity_body", "CLOSE_BRACE">>
  BY DEF Rules, R
<1>8. Rules[8].rhs = <<"ENTITY", "IDENTIFIER", "COLON", "IDENTIFIER", "OPEN_BRACE", "entity_body", "CLOSE_BRACE">>
  BY DEF Rules, R
<1>9. Rules[9].rhs = <<"WEAK", "ENTITY", "IDENTIFIER", "OPEN_BRACE", "entity_body", "CLOSE_BRACE">>
  BY DEF Rules, R
<1>10. Rules[10].rhs = <<"WEAK", "ENTITY", "IDENTIFIER", "COLON", "IDENTIFIER", "OPEN_BRACE", "entity_body", "CLOSE_BRACE">>
  BY DEF Rules, R
<1>11. Rules[11].rhs = <<>>
  BY DEF Rules, R
<1>12. Rules[12].rhs = <<"entity_body", "attribute_decl">>
  BY DEF Rules, R
<1>13. Rules[13].rhs = <<"entity_body", "primary_decl">>
  BY DEF Rules, R
<1>14. Rules[14].rhs = <<"entity_body", "assert_decl">>
  BY DEF Rules, R
<1>15. Rules[15].rhs = <<"IDENTIFIER", "COLON", "type_spec", "modifier_list">>
  BY DEF Rules, R
<1>16. Rules[16].rhs = <<>>
  BY DEF Rules, R
<1>17. Rules[17].rhs = <<"modifier_list", "modifier">>
  BY DEF Rules, R
<1>18. Rules[18].rhs = <<"MODIFIER">>
  BY DEF Rules, R
<1>19. Rules[19].rhs = <<"NOT", "NULL_TOK">>
  BY DEF Rules, R
<1>20. Rules[20].rhs = <<"DEFAULT", "literal">>
  BY DEF Rules, R
<1>21. Rules[21].rhs = <<"PRIMARY_COMPOSITE", "OPEN_PAREN", "qualified_identifier_list", "CLOSE_PAREN">>
  BY DEF Rules, R
<1>22. Rules[22].rhs = <<"qualified_identifier">>
  BY DEF Rules, R
<1>23. Rules[23].rhs = <<"qualified_identifier_list", "COMMA", "qualified_identifier">>
  BY DEF Rules, R
<1>24. Rules[24].rhs = <<"IDENTIFIER">>
  BY DEF Rules, R
<1>25. Rules[25].rhs = <<"IDENTIFIER", "COLON", "IDENTIFIER">>
  BY DEF Rules, R
<1>26. Rules[26].rhs = <<"ASSERT", "expression">>
  BY DEF Rules, R
<1>27. Rules[27].rhs = <<"RELATIONSHIP", "IDENTIFIER", "OPEN_PAREN", "relationship_participant_list", "CLOSE_PAREN", "relationship_body">>
  BY DEF Rules, R
<1>28. Rules[28].rhs = <<"relationship_participant">>
  BY DEF Rules, R
<1>29. Rules[29].rhs = <<"relationship_participant_list", "COMMA", "relationship_participant">>
  BY DEF Rules, R
<1>30. Rules[30].rhs = <<"IDENTIFIER", "participation_opt">>
  BY DEF Rules, R
<1>31. Rules[31].rhs = <<"IDENTIFIER", "TOK_ONE", "participation_opt">>
  BY DEF Rules, R
<1>32. Rules[32].rhs = <<>>
  BY DEF Rules, R
<1>33. Rules[33].rhs = <<"TOTAL">>
  BY DEF Rules, R
<1>34. Rules[34].rhs = <<>>
  BY DEF Rules, R
<1>35. Rules[35].rhs = <<"OPEN_BRACE", "attribute_list", "CLOSE_BRACE">>
  BY DEF Rules, R
<1>36. Rules[36].rhs = <<"attribute_decl">>
  BY DEF Rules, R
<1>37. Rules[37].rhs = <<"attribute_list", "attribute_decl">>
  BY DEF Rules, R
<1>38. Rules[38].rhs = <<"ENUM">>
  BY DEF Rules, R
<1>39. Rules[39].rhs = <<"TYPE">>
  BY DEF Rules, R
<1>40. Rules[40].rhs = <<"TYPE", "OPEN_BRACKET", "CLOSE_BRACKET">>
  BY DEF Rules, R
<1>41. Rules[41].rhs = <<"literal">>
  BY DEF Rules, R
<1>42. Rules[42].rhs = <<"IDENTIFIER">>
  BY DEF Rules, R
<1>43. Rules[43].rhs = <<"expression", "OP_MUL", "expression">>
  BY DEF Rules, R
<1>44. Rules[44].rhs = <<"LIT_INTEGER">>
  BY DEF Rules, R
<1>45. Rules[45].rhs = <<"LIT_STRING">>
  BY DEF Rules, R
<1> QED
  BY <1>1, <1>2, <1>3, <1>4, <1>5, <1>6, <1>7, <1>8, <1>9, <1>10, <1>11, <1>12, <1>13,
     <1>14, <1>15, <1>16, <1>17, <1>18, <1>19, <1>20, <1>21, <1>22, <1>23, <1>24,
     <1>25, <1>26, <1>27, <1>28, <1>29, <1>30, <1>31, <1>32, <1>33, <1>34, <1>35,
     <1>36, <1>37, <1>38, <1>39, <1>40, <1>41, <1>42, <1>43, <1>44, <1>45

\* The heads that follow a symbol in a rule: the head, the symbol, the rule, its place.
NextTo == {<<"schema_body", "IDENTIFIER", 3, 2>>,
           <<"entity_decl", "schema_body", 5, 1>>,
           <<"relationship_decl", "schema_body", 6, 1>>,
           <<"entity_body", "OPEN_BRACE", 7, 3>>,
           <<"entity_body", "OPEN_BRACE", 8, 5>>,
           <<"entity_body", "OPEN_BRACE", 9, 4>>,
           <<"entity_body", "OPEN_BRACE", 10, 6>>,
           <<"attribute_decl", "entity_body", 12, 1>>,
           <<"primary_decl", "entity_body", 13, 1>>,
           <<"assert_decl", "entity_body", 14, 1>>,
           <<"type_spec", "COLON", 15, 2>>,
           <<"modifier_list", "type_spec", 15, 3>>,
           <<"modifier", "modifier_list", 17, 1>>,
           <<"literal", "DEFAULT", 20, 1>>,
           <<"qualified_identifier_list", "OPEN_PAREN", 21, 2>>,
           <<"qualified_identifier", "COMMA", 23, 2>>,
           <<"expression", "ASSERT", 26, 1>>,
           <<"relationship_participant_list", "OPEN_PAREN", 27, 3>>,
           <<"relationship_body", "CLOSE_PAREN", 27, 5>>,
           <<"relationship_participant", "COMMA", 29, 2>>,
           <<"participation_opt", "IDENTIFIER", 30, 1>>,
           <<"participation_opt", "TOK_ONE", 31, 2>>,
           <<"attribute_list", "OPEN_BRACE", 35, 1>>,
           <<"attribute_decl", "attribute_list", 37, 1>>,
           <<"expression", "OP_MUL", 43, 2>>}
RhsFacts(r, k) ==
    LET rhs == Rules[r].rhs
    IN  /\ rhs[k] \in {"primary_decl", "END"} => k = Len(rhs)
        /\ rhs[k] = "END" => r = 1 /\ k = 2
        /\ k < Len(rhs) /\ rhs[k + 1] \in HeadNames => <<rhs[k + 1], rhs[k], r, k>> \in NextTo

LEMMA RhsKnown ==
    ASSUME NEW r \in 1 .. 45, NEW k \in 1 .. Len(Rules[r].rhs)
    PROVE  RhsFacts(r, k)
<1> USE DEF RhsFacts
<1>1. CASE r = 1
  <2>1. PICK rhs : rhs = <<"program", "END">>
    OBVIOUS
  <2>2. Rules[r].rhs = rhs
    BY <1>1, <2>1, RhsAre
  <2>3. Len(rhs) = 2 /\ rhs[1] = "program" /\ rhs[2] = "END"
    BY <2>1
  <2>4. CASE k = 1
    BY <1>1, <2>2, <2>3, <2>4 DEF HeadNames
  <2>5. CASE k = 2
    BY <1>1, <2>2, <2>3, <2>5 DEF HeadNames
  <2> QED BY <2>2, <2>3, <2>4, <2>5
<1>2. CASE r = 2
  <2>1. PICK rhs : rhs = <<"schema_decl">>
    OBVIOUS
  <2>2. Rules[r].rhs = rhs
    BY <1>2, <2>1, RhsAre
  <2>3. Len(rhs) = 1 /\ rhs[1] = "schema_decl"
    BY <2>1
  <2>4. CASE k = 1
    BY <1>2, <2>2, <2>3, <2>4 DEF HeadNames
  <2> QED BY <2>2, <2>3, <2>4
<1>3. CASE r = 3
  <2>1. PICK rhs : rhs = <<"SCHEMA", "IDENTIFIER", "schema_body">>
    OBVIOUS
  <2>2. Rules[r].rhs = rhs
    BY <1>3, <2>1, RhsAre
  <2>3. Len(rhs) = 3 /\ rhs[1] = "SCHEMA" /\ rhs[2] = "IDENTIFIER" /\ rhs[3] = "schema_body"
    BY <2>1
  <2>4. CASE k = 1
    BY <1>3, <2>2, <2>3, <2>4 DEF HeadNames
  <2>5. CASE k = 2
    <3>1. PICK q : q = <<"schema_body", "IDENTIFIER", 3, 2>>
      OBVIOUS
    <3>2. q \in NextTo
      BY <3>1 DEF NextTo
    <3> QED BY <1>3, <2>2, <2>3, <2>5, <3>1, <3>2
  <2>6. CASE k = 3
    BY <1>3, <2>2, <2>3, <2>6 DEF HeadNames
  <2> QED BY <2>2, <2>3, <2>4, <2>5, <2>6
<1>4. CASE r = 4
  <2>1. Len(Rules[r].rhs) = 0
    BY <1>4, RhsAre
  <2> QED BY <2>1
<1>5. CASE r = 5
  <2>1. PICK rhs : rhs = <<"schema_body", "entity_decl">>
    OBVIOUS
  <2>2. Rules[r].rhs = rhs
    BY <1>5, <2>1, RhsAre
  <2>3. Len(rhs) = 2 /\ rhs[1] = "schema_body" /\ rhs[2] = "entity_decl"
    BY <2>1
  <2>4. CASE k = 1
    <3>1. PICK q : q = <<"entity_decl", "schema_body", 5, 1>>
      OBVIOUS
    <3>2. q \in NextTo
      BY <3>1 DEF NextTo
    <3> QED BY <1>5, <2>2, <2>3, <2>4, <3>1, <3>2
  <2>5. CASE k = 2
    BY <1>5, <2>2, <2>3, <2>5 DEF HeadNames
  <2> QED BY <2>2, <2>3, <2>4, <2>5
<1>6. CASE r = 6
  <2>1. PICK rhs : rhs = <<"schema_body", "relationship_decl">>
    OBVIOUS
  <2>2. Rules[r].rhs = rhs
    BY <1>6, <2>1, RhsAre
  <2>3. Len(rhs) = 2 /\ rhs[1] = "schema_body" /\ rhs[2] = "relationship_decl"
    BY <2>1
  <2>4. CASE k = 1
    <3>1. PICK q : q = <<"relationship_decl", "schema_body", 6, 1>>
      OBVIOUS
    <3>2. q \in NextTo
      BY <3>1 DEF NextTo
    <3> QED BY <1>6, <2>2, <2>3, <2>4, <3>1, <3>2
  <2>5. CASE k = 2
    BY <1>6, <2>2, <2>3, <2>5 DEF HeadNames
  <2> QED BY <2>2, <2>3, <2>4, <2>5
<1>7. CASE r = 7
  <2>1. PICK rhs : rhs = <<"ENTITY", "IDENTIFIER", "OPEN_BRACE", "entity_body", "CLOSE_BRACE">>
    OBVIOUS
  <2>2. Rules[r].rhs = rhs
    BY <1>7, <2>1, RhsAre
  <2>3. Len(rhs) = 5 /\ rhs[1] = "ENTITY" /\ rhs[2] = "IDENTIFIER" /\ rhs[3] = "OPEN_BRACE" /\ rhs[4] = "entity_body" /\ rhs[5] = "CLOSE_BRACE"
    BY <2>1
  <2>4. CASE k = 1
    BY <1>7, <2>2, <2>3, <2>4 DEF HeadNames
  <2>5. CASE k = 2
    BY <1>7, <2>2, <2>3, <2>5 DEF HeadNames
  <2>6. CASE k = 3
    <3>1. PICK q : q = <<"entity_body", "OPEN_BRACE", 7, 3>>
      OBVIOUS
    <3>2. q \in NextTo
      BY <3>1 DEF NextTo
    <3> QED BY <1>7, <2>2, <2>3, <2>6, <3>1, <3>2
  <2>7. CASE k = 4
    BY <1>7, <2>2, <2>3, <2>7 DEF HeadNames
  <2>8. CASE k = 5
    BY <1>7, <2>2, <2>3, <2>8 DEF HeadNames
  <2> QED BY <2>2, <2>3, <2>4, <2>5, <2>6, <2>7, <2>8
<1>8. CASE r = 8
  <2>1. PICK rhs : rhs = <<"ENTITY", "IDENTIFIER", "COLON", "IDENTIFIER", "OPEN_BRACE", "entity_body", "CLOSE_BRACE">>
    OBVIOUS
  <2>2. Rules[r].rhs = rhs
    BY <1>8, <2>1, RhsAre
  <2>3. Len(rhs) = 7 /\ rhs[1] = "ENTITY" /\ rhs[2] = "IDENTIFIER" /\ rhs[3] = "COLON" /\ rhs[4] = "IDENTIFIER" /\ rhs[5] = "OPEN_BRACE" /\ rhs[6] = "entity_body" /\ rhs[7] = "CLOSE_BRACE"
    BY <2>1
  <2>4. CASE k = 1
    BY <1>8, <2>2, <2>3, <2>4 DEF HeadNames
  <2>5. CASE k = 2
    BY <1>8, <2>2, <2>3, <2>5 DEF HeadNames
  <2>6. CASE k = 3
    BY <1>8, <2>2, <2>3, <2>6 DEF HeadNames
  <2>7. CASE k = 4
    BY <1>8, <2>2, <2>3, <2>7 DEF HeadNames
  <2>8. CASE k = 5
    <3>1. PICK q : q = <<"entity_body", "OPEN_BRACE", 8, 5>>
      OBVIOUS
    <3>2. q \in NextTo
      BY <3>1 DEF NextTo
    <3> QED BY <1>8, <2>2, <2>3, <2>8, <3>1, <3>2
  <2>9. CASE k = 6
    BY <1>8, <2>2, <2>3, <2>9 DEF HeadNames
  <2>10. CASE k = 7
    BY <1>8, <2>2, <2>3, <2>10 DEF HeadNames
  <2> QED BY <2>2, <2>3, <2>4, <2>5, <2>6, <2>7, <2>8, <2>9, <2>10
<1>9. CASE r = 9
  <2>1. PICK rhs : rhs = <<"WEAK", "ENTITY", "IDENTIFIER", "OPEN_BRACE", "entity_body", "CLOSE_BRACE">>
    OBVIOUS
  <2>2. Rules[r].rhs = rhs
    BY <1>9, <2>1, RhsAre
  <2>3. Len(rhs) = 6 /\ rhs[1] = "WEAK" /\ rhs[2] = "ENTITY" /\ rhs[3] = "IDENTIFIER" /\ rhs[4] = "OPEN_BRACE" /\ rhs[5] = "entity_body" /\ rhs[6] = "CLOSE_BRACE"
    BY <2>1
  <2>4. CASE k = 1
    BY <1>9, <2>2, <2>3, <2>4 DEF HeadNames
  <2>5. CASE k = 2
    BY <1>9, <2>2, <2>3, <2>5 DEF HeadNames
  <2>6. CASE k = 3
    BY <1>9, <2>2, <2>3, <2>6 DEF HeadNames
  <2>7. CASE k = 4
    <3>1. PICK q : q = <<"entity_body", "OPEN_BRACE", 9, 4>>
      OBVIOUS
    <3>2. q \in NextTo
      BY <3>1 DEF NextTo
    <3> QED BY <1>9, <2>2, <2>3, <2>7, <3>1, <3>2
  <2>8. CASE k = 5
    BY <1>9, <2>2, <2>3, <2>8 DEF HeadNames
  <2>9. CASE k = 6
    BY <1>9, <2>2, <2>3, <2>9 DEF HeadNames
  <2> QED BY <2>2, <2>3, <2>4, <2>5, <2>6, <2>7, <2>8, <2>9
<1>10. CASE r = 10
  <2>1. PICK rhs : rhs = <<"WEAK", "ENTITY", "IDENTIFIER", "COLON", "IDENTIFIER", "OPEN_BRACE", "entity_body", "CLOSE_BRACE">>
    OBVIOUS
  <2>2. Rules[r].rhs = rhs
    BY <1>10, <2>1, RhsAre
  <2>3. Len(rhs) = 8 /\ rhs[1] = "WEAK" /\ rhs[2] = "ENTITY" /\ rhs[3] = "IDENTIFIER" /\ rhs[4] = "COLON" /\ rhs[5] = "IDENTIFIER" /\ rhs[6] = "OPEN_BRACE" /\ rhs[7] = "entity_body" /\ rhs[8] = "CLOSE_BRACE"
    BY <2>1
  <2>4. CASE k = 1
    BY <1>10, <2>2, <2>3, <2>4 DEF HeadNames
  <2>5. CASE k = 2
    BY <1>10, <2>2, <2>3, <2>5 DEF HeadNames
  <2>6. CASE k = 3
    BY <1>10, <2>2, <2>3, <2>6 DEF HeadNames
  <2>7. CASE k = 4
    BY <1>10, <2>2, <2>3, <2>7 DEF HeadNames
  <2>8. CASE k = 5
    BY <1>10, <2>2, <2>3, <2>8 DEF HeadNames
  <2>9. CASE k = 6
    <3>1. PICK q : q = <<"entity_body", "OPEN_BRACE", 10, 6>>
      OBVIOUS
    <3>2. q \in NextTo
      BY <3>1 DEF NextTo
    <3> QED BY <1>10, <2>2, <2>3, <2>9, <3>1, <3>2
  <2>10. CASE k = 7
    BY <1>10, <2>2, <2>3, <2>10 DEF HeadNames
  <2>11. CASE k = 8
    BY <1>10, <2>2, <2>3, <2>11 DEF HeadNames
  <2> QED BY <2>2, <2>3, <2>4, <2>5, <2>6, <2>7, <2>8, <2>9, <2>10, <2>11
<1>11. CASE r = 11
  <2>1. Len(Rules[r].rhs) = 0
    BY <1>11, RhsAre
  <2> QED BY <2>1
<1>12. CASE r = 12
  <2>1. PICK rhs : rhs = <<"entity_body", "attribute_decl">>
    OBVIOUS
  <2>2. Rules[r].rhs = rhs
    BY <1>12, <2>1, RhsAre
  <2>3. Len(rhs) = 2 /\ rhs[1] = "entity_body" /\ rhs[2] = "attribute_decl"
    BY <2>1
  <2>4. CASE k = 1
    <3>1. PICK q : q = <<"attribute_decl", "entity_body", 12, 1>>
      OBVIOUS
    <3>2. q \in NextTo
      BY <3>1 DEF NextTo
    <3> QED BY <1>12, <2>2, <2>3, <2>4, <3>1, <3>2
  <2>5. CASE k = 2
    BY <1>12, <2>2, <2>3, <2>5 DEF HeadNames
  <2> QED BY <2>2, <2>3, <2>4, <2>5
<1>13. CASE r = 13
  <2>1. PICK rhs : rhs = <<"entity_body", "primary_decl">>
    OBVIOUS
  <2>2. Rules[r].rhs = rhs
    BY <1>13, <2>1, RhsAre
  <2>3. Len(rhs) = 2 /\ rhs[1] = "entity_body" /\ rhs[2] = "primary_decl"
    BY <2>1
  <2>4. CASE k = 1
    <3>1. PICK q : q = <<"primary_decl", "entity_body", 13, 1>>
      OBVIOUS
    <3>2. q \in NextTo
      BY <3>1 DEF NextTo
    <3> QED BY <1>13, <2>2, <2>3, <2>4, <3>1, <3>2
  <2>5. CASE k = 2
    BY <1>13, <2>2, <2>3, <2>5 DEF HeadNames
  <2> QED BY <2>2, <2>3, <2>4, <2>5
<1>14. CASE r = 14
  <2>1. PICK rhs : rhs = <<"entity_body", "assert_decl">>
    OBVIOUS
  <2>2. Rules[r].rhs = rhs
    BY <1>14, <2>1, RhsAre
  <2>3. Len(rhs) = 2 /\ rhs[1] = "entity_body" /\ rhs[2] = "assert_decl"
    BY <2>1
  <2>4. CASE k = 1
    <3>1. PICK q : q = <<"assert_decl", "entity_body", 14, 1>>
      OBVIOUS
    <3>2. q \in NextTo
      BY <3>1 DEF NextTo
    <3> QED BY <1>14, <2>2, <2>3, <2>4, <3>1, <3>2
  <2>5. CASE k = 2
    BY <1>14, <2>2, <2>3, <2>5 DEF HeadNames
  <2> QED BY <2>2, <2>3, <2>4, <2>5
<1>15. CASE r = 15
  <2>1. PICK rhs : rhs = <<"IDENTIFIER", "COLON", "type_spec", "modifier_list">>
    OBVIOUS
  <2>2. Rules[r].rhs = rhs
    BY <1>15, <2>1, RhsAre
  <2>3. Len(rhs) = 4 /\ rhs[1] = "IDENTIFIER" /\ rhs[2] = "COLON" /\ rhs[3] = "type_spec" /\ rhs[4] = "modifier_list"
    BY <2>1
  <2>4. CASE k = 1
    BY <1>15, <2>2, <2>3, <2>4 DEF HeadNames
  <2>5. CASE k = 2
    <3>1. PICK q : q = <<"type_spec", "COLON", 15, 2>>
      OBVIOUS
    <3>2. q \in NextTo
      BY <3>1 DEF NextTo
    <3> QED BY <1>15, <2>2, <2>3, <2>5, <3>1, <3>2
  <2>6. CASE k = 3
    <3>1. PICK q : q = <<"modifier_list", "type_spec", 15, 3>>
      OBVIOUS
    <3>2. q \in NextTo
      BY <3>1 DEF NextTo
    <3> QED BY <1>15, <2>2, <2>3, <2>6, <3>1, <3>2
  <2>7. CASE k = 4
    BY <1>15, <2>2, <2>3, <2>7 DEF HeadNames
  <2> QED BY <2>2, <2>3, <2>4, <2>5, <2>6, <2>7
<1>16. CASE r = 16
  <2>1. Len(Rules[r].rhs) = 0
    BY <1>16, RhsAre
  <2> QED BY <2>1
<1>17. CASE r = 17
  <2>1. PICK rhs : rhs = <<"modifier_list", "modifier">>
    OBVIOUS
  <2>2. Rules[r].rhs = rhs
    BY <1>17, <2>1, RhsAre
  <2>3. Len(rhs) = 2 /\ rhs[1] = "modifier_list" /\ rhs[2] = "modifier"
    BY <2>1
  <2>4. CASE k = 1
    <3>1. PICK q : q = <<"modifier", "modifier_list", 17, 1>>
      OBVIOUS
    <3>2. q \in NextTo
      BY <3>1 DEF NextTo
    <3> QED BY <1>17, <2>2, <2>3, <2>4, <3>1, <3>2
  <2>5. CASE k = 2
    BY <1>17, <2>2, <2>3, <2>5 DEF HeadNames
  <2> QED BY <2>2, <2>3, <2>4, <2>5
<1>18. CASE r = 18
  <2>1. PICK rhs : rhs = <<"MODIFIER">>
    OBVIOUS
  <2>2. Rules[r].rhs = rhs
    BY <1>18, <2>1, RhsAre
  <2>3. Len(rhs) = 1 /\ rhs[1] = "MODIFIER"
    BY <2>1
  <2>4. CASE k = 1
    BY <1>18, <2>2, <2>3, <2>4 DEF HeadNames
  <2> QED BY <2>2, <2>3, <2>4
<1>19. CASE r = 19
  <2>1. PICK rhs : rhs = <<"NOT", "NULL_TOK">>
    OBVIOUS
  <2>2. Rules[r].rhs = rhs
    BY <1>19, <2>1, RhsAre
  <2>3. Len(rhs) = 2 /\ rhs[1] = "NOT" /\ rhs[2] = "NULL_TOK"
    BY <2>1
  <2>4. CASE k = 1
    BY <1>19, <2>2, <2>3, <2>4 DEF HeadNames
  <2>5. CASE k = 2
    BY <1>19, <2>2, <2>3, <2>5 DEF HeadNames
  <2> QED BY <2>2, <2>3, <2>4, <2>5
<1>20. CASE r = 20
  <2>1. PICK rhs : rhs = <<"DEFAULT", "literal">>
    OBVIOUS
  <2>2. Rules[r].rhs = rhs
    BY <1>20, <2>1, RhsAre
  <2>3. Len(rhs) = 2 /\ rhs[1] = "DEFAULT" /\ rhs[2] = "literal"
    BY <2>1
  <2>4. CASE k = 1
    <3>1. PICK q : q = <<"literal", "DEFAULT", 20, 1>>
      OBVIOUS
    <3>2. q \in NextTo
      BY <3>1 DEF NextTo
    <3> QED BY <1>20, <2>2, <2>3, <2>4, <3>1, <3>2
  <2>5. CASE k = 2
    BY <1>20, <2>2, <2>3, <2>5 DEF HeadNames
  <2> QED BY <2>2, <2>3, <2>4, <2>5
<1>21. CASE r = 21
  <2>1. PICK rhs : rhs = <<"PRIMARY_COMPOSITE", "OPEN_PAREN", "qualified_identifier_list", "CLOSE_PAREN">>
    OBVIOUS
  <2>2. Rules[r].rhs = rhs
    BY <1>21, <2>1, RhsAre
  <2>3. Len(rhs) = 4 /\ rhs[1] = "PRIMARY_COMPOSITE" /\ rhs[2] = "OPEN_PAREN" /\ rhs[3] = "qualified_identifier_list" /\ rhs[4] = "CLOSE_PAREN"
    BY <2>1
  <2>4. CASE k = 1
    BY <1>21, <2>2, <2>3, <2>4 DEF HeadNames
  <2>5. CASE k = 2
    <3>1. PICK q : q = <<"qualified_identifier_list", "OPEN_PAREN", 21, 2>>
      OBVIOUS
    <3>2. q \in NextTo
      BY <3>1 DEF NextTo
    <3> QED BY <1>21, <2>2, <2>3, <2>5, <3>1, <3>2
  <2>6. CASE k = 3
    BY <1>21, <2>2, <2>3, <2>6 DEF HeadNames
  <2>7. CASE k = 4
    BY <1>21, <2>2, <2>3, <2>7 DEF HeadNames
  <2> QED BY <2>2, <2>3, <2>4, <2>5, <2>6, <2>7
<1>22. CASE r = 22
  <2>1. PICK rhs : rhs = <<"qualified_identifier">>
    OBVIOUS
  <2>2. Rules[r].rhs = rhs
    BY <1>22, <2>1, RhsAre
  <2>3. Len(rhs) = 1 /\ rhs[1] = "qualified_identifier"
    BY <2>1
  <2>4. CASE k = 1
    BY <1>22, <2>2, <2>3, <2>4 DEF HeadNames
  <2> QED BY <2>2, <2>3, <2>4
<1>23. CASE r = 23
  <2>1. PICK rhs : rhs = <<"qualified_identifier_list", "COMMA", "qualified_identifier">>
    OBVIOUS
  <2>2. Rules[r].rhs = rhs
    BY <1>23, <2>1, RhsAre
  <2>3. Len(rhs) = 3 /\ rhs[1] = "qualified_identifier_list" /\ rhs[2] = "COMMA" /\ rhs[3] = "qualified_identifier"
    BY <2>1
  <2>4. CASE k = 1
    BY <1>23, <2>2, <2>3, <2>4 DEF HeadNames
  <2>5. CASE k = 2
    <3>1. PICK q : q = <<"qualified_identifier", "COMMA", 23, 2>>
      OBVIOUS
    <3>2. q \in NextTo
      BY <3>1 DEF NextTo
    <3> QED BY <1>23, <2>2, <2>3, <2>5, <3>1, <3>2
  <2>6. CASE k = 3
    BY <1>23, <2>2, <2>3, <2>6 DEF HeadNames
  <2> QED BY <2>2, <2>3, <2>4, <2>5, <2>6
<1>24. CASE r = 24
  <2>1. PICK rhs : rhs = <<"IDENTIFIER">>
    OBVIOUS
  <2>2. Rules[r].rhs = rhs
    BY <1>24, <2>1, RhsAre
  <2>3. Len(rhs) = 1 /\ rhs[1] = "IDENTIFIER"
    BY <2>1
  <2>4. CASE k = 1
    BY <1>24, <2>2, <2>3, <2>4 DEF HeadNames
  <2> QED BY <2>2, <2>3, <2>4
<1>25. CASE r = 25
  <2>1. PICK rhs : rhs = <<"IDENTIFIER", "COLON", "IDENTIFIER">>
    OBVIOUS
  <2>2. Rules[r].rhs = rhs
    BY <1>25, <2>1, RhsAre
  <2>3. Len(rhs) = 3 /\ rhs[1] = "IDENTIFIER" /\ rhs[2] = "COLON" /\ rhs[3] = "IDENTIFIER"
    BY <2>1
  <2>4. CASE k = 1
    BY <1>25, <2>2, <2>3, <2>4 DEF HeadNames
  <2>5. CASE k = 2
    BY <1>25, <2>2, <2>3, <2>5 DEF HeadNames
  <2>6. CASE k = 3
    BY <1>25, <2>2, <2>3, <2>6 DEF HeadNames
  <2> QED BY <2>2, <2>3, <2>4, <2>5, <2>6
<1>26. CASE r = 26
  <2>1. PICK rhs : rhs = <<"ASSERT", "expression">>
    OBVIOUS
  <2>2. Rules[r].rhs = rhs
    BY <1>26, <2>1, RhsAre
  <2>3. Len(rhs) = 2 /\ rhs[1] = "ASSERT" /\ rhs[2] = "expression"
    BY <2>1
  <2>4. CASE k = 1
    <3>1. PICK q : q = <<"expression", "ASSERT", 26, 1>>
      OBVIOUS
    <3>2. q \in NextTo
      BY <3>1 DEF NextTo
    <3> QED BY <1>26, <2>2, <2>3, <2>4, <3>1, <3>2
  <2>5. CASE k = 2
    BY <1>26, <2>2, <2>3, <2>5 DEF HeadNames
  <2> QED BY <2>2, <2>3, <2>4, <2>5
<1>27. CASE r = 27
  <2>1. PICK rhs : rhs = <<"RELATIONSHIP", "IDENTIFIER", "OPEN_PAREN", "relationship_participant_list", "CLOSE_PAREN", "relationship_body">>
    OBVIOUS
  <2>2. Rules[r].rhs = rhs
    BY <1>27, <2>1, RhsAre
  <2>3. Len(rhs) = 6 /\ rhs[1] = "RELATIONSHIP" /\ rhs[2] = "IDENTIFIER" /\ rhs[3] = "OPEN_PAREN" /\ rhs[4] = "relationship_participant_list" /\ rhs[5] = "CLOSE_PAREN" /\ rhs[6] = "relationship_body"
    BY <2>1
  <2>4. CASE k = 1
    BY <1>27, <2>2, <2>3, <2>4 DEF HeadNames
  <2>5. CASE k = 2
    BY <1>27, <2>2, <2>3, <2>5 DEF HeadNames
  <2>6. CASE k = 3
    <3>1. PICK q : q = <<"relationship_participant_list", "OPEN_PAREN", 27, 3>>
      OBVIOUS
    <3>2. q \in NextTo
      BY <3>1 DEF NextTo
    <3> QED BY <1>27, <2>2, <2>3, <2>6, <3>1, <3>2
  <2>7. CASE k = 4
    BY <1>27, <2>2, <2>3, <2>7 DEF HeadNames
  <2>8. CASE k = 5
    <3>1. PICK q : q = <<"relationship_body", "CLOSE_PAREN", 27, 5>>
      OBVIOUS
    <3>2. q \in NextTo
      BY <3>1 DEF NextTo
    <3> QED BY <1>27, <2>2, <2>3, <2>8, <3>1, <3>2
  <2>9. CASE k = 6
    BY <1>27, <2>2, <2>3, <2>9 DEF HeadNames
  <2> QED BY <2>2, <2>3, <2>4, <2>5, <2>6, <2>7, <2>8, <2>9
<1>28. CASE r = 28
  <2>1. PICK rhs : rhs = <<"relationship_participant">>
    OBVIOUS
  <2>2. Rules[r].rhs = rhs
    BY <1>28, <2>1, RhsAre
  <2>3. Len(rhs) = 1 /\ rhs[1] = "relationship_participant"
    BY <2>1
  <2>4. CASE k = 1
    BY <1>28, <2>2, <2>3, <2>4 DEF HeadNames
  <2> QED BY <2>2, <2>3, <2>4
<1>29. CASE r = 29
  <2>1. PICK rhs : rhs = <<"relationship_participant_list", "COMMA", "relationship_participant">>
    OBVIOUS
  <2>2. Rules[r].rhs = rhs
    BY <1>29, <2>1, RhsAre
  <2>3. Len(rhs) = 3 /\ rhs[1] = "relationship_participant_list" /\ rhs[2] = "COMMA" /\ rhs[3] = "relationship_participant"
    BY <2>1
  <2>4. CASE k = 1
    BY <1>29, <2>2, <2>3, <2>4 DEF HeadNames
  <2>5. CASE k = 2
    <3>1. PICK q : q = <<"relationship_participant", "COMMA", 29, 2>>
      OBVIOUS
    <3>2. q \in NextTo
      BY <3>1 DEF NextTo
    <3> QED BY <1>29, <2>2, <2>3, <2>5, <3>1, <3>2
  <2>6. CASE k = 3
    BY <1>29, <2>2, <2>3, <2>6 DEF HeadNames
  <2> QED BY <2>2, <2>3, <2>4, <2>5, <2>6
<1>30. CASE r = 30
  <2>1. PICK rhs : rhs = <<"IDENTIFIER", "participation_opt">>
    OBVIOUS
  <2>2. Rules[r].rhs = rhs
    BY <1>30, <2>1, RhsAre
  <2>3. Len(rhs) = 2 /\ rhs[1] = "IDENTIFIER" /\ rhs[2] = "participation_opt"
    BY <2>1
  <2>4. CASE k = 1
    <3>1. PICK q : q = <<"participation_opt", "IDENTIFIER", 30, 1>>
      OBVIOUS
    <3>2. q \in NextTo
      BY <3>1 DEF NextTo
    <3> QED BY <1>30, <2>2, <2>3, <2>4, <3>1, <3>2
  <2>5. CASE k = 2
    BY <1>30, <2>2, <2>3, <2>5 DEF HeadNames
  <2> QED BY <2>2, <2>3, <2>4, <2>5
<1>31. CASE r = 31
  <2>1. PICK rhs : rhs = <<"IDENTIFIER", "TOK_ONE", "participation_opt">>
    OBVIOUS
  <2>2. Rules[r].rhs = rhs
    BY <1>31, <2>1, RhsAre
  <2>3. Len(rhs) = 3 /\ rhs[1] = "IDENTIFIER" /\ rhs[2] = "TOK_ONE" /\ rhs[3] = "participation_opt"
    BY <2>1
  <2>4. CASE k = 1
    BY <1>31, <2>2, <2>3, <2>4 DEF HeadNames
  <2>5. CASE k = 2
    <3>1. PICK q : q = <<"participation_opt", "TOK_ONE", 31, 2>>
      OBVIOUS
    <3>2. q \in NextTo
      BY <3>1 DEF NextTo
    <3> QED BY <1>31, <2>2, <2>3, <2>5, <3>1, <3>2
  <2>6. CASE k = 3
    BY <1>31, <2>2, <2>3, <2>6 DEF HeadNames
  <2> QED BY <2>2, <2>3, <2>4, <2>5, <2>6
<1>32. CASE r = 32
  <2>1. Len(Rules[r].rhs) = 0
    BY <1>32, RhsAre
  <2> QED BY <2>1
<1>33. CASE r = 33
  <2>1. PICK rhs : rhs = <<"TOTAL">>
    OBVIOUS
  <2>2. Rules[r].rhs = rhs
    BY <1>33, <2>1, RhsAre
  <2>3. Len(rhs) = 1 /\ rhs[1] = "TOTAL"
    BY <2>1
  <2>4. CASE k = 1
    BY <1>33, <2>2, <2>3, <2>4 DEF HeadNames
  <2> QED BY <2>2, <2>3, <2>4
<1>34. CASE r = 34
  <2>1. Len(Rules[r].rhs) = 0
    BY <1>34, RhsAre
  <2> QED BY <2>1
<1>35. CASE r = 35
  <2>1. PICK rhs : rhs = <<"OPEN_BRACE", "attribute_list", "CLOSE_BRACE">>
    OBVIOUS
  <2>2. Rules[r].rhs = rhs
    BY <1>35, <2>1, RhsAre
  <2>3. Len(rhs) = 3 /\ rhs[1] = "OPEN_BRACE" /\ rhs[2] = "attribute_list" /\ rhs[3] = "CLOSE_BRACE"
    BY <2>1
  <2>4. CASE k = 1
    <3>1. PICK q : q = <<"attribute_list", "OPEN_BRACE", 35, 1>>
      OBVIOUS
    <3>2. q \in NextTo
      BY <3>1 DEF NextTo
    <3> QED BY <1>35, <2>2, <2>3, <2>4, <3>1, <3>2
  <2>5. CASE k = 2
    BY <1>35, <2>2, <2>3, <2>5 DEF HeadNames
  <2>6. CASE k = 3
    BY <1>35, <2>2, <2>3, <2>6 DEF HeadNames
  <2> QED BY <2>2, <2>3, <2>4, <2>5, <2>6
<1>36. CASE r = 36
  <2>1. PICK rhs : rhs = <<"attribute_decl">>
    OBVIOUS
  <2>2. Rules[r].rhs = rhs
    BY <1>36, <2>1, RhsAre
  <2>3. Len(rhs) = 1 /\ rhs[1] = "attribute_decl"
    BY <2>1
  <2>4. CASE k = 1
    BY <1>36, <2>2, <2>3, <2>4 DEF HeadNames
  <2> QED BY <2>2, <2>3, <2>4
<1>37. CASE r = 37
  <2>1. PICK rhs : rhs = <<"attribute_list", "attribute_decl">>
    OBVIOUS
  <2>2. Rules[r].rhs = rhs
    BY <1>37, <2>1, RhsAre
  <2>3. Len(rhs) = 2 /\ rhs[1] = "attribute_list" /\ rhs[2] = "attribute_decl"
    BY <2>1
  <2>4. CASE k = 1
    <3>1. PICK q : q = <<"attribute_decl", "attribute_list", 37, 1>>
      OBVIOUS
    <3>2. q \in NextTo
      BY <3>1 DEF NextTo
    <3> QED BY <1>37, <2>2, <2>3, <2>4, <3>1, <3>2
  <2>5. CASE k = 2
    BY <1>37, <2>2, <2>3, <2>5 DEF HeadNames
  <2> QED BY <2>2, <2>3, <2>4, <2>5
<1>38. CASE r = 38
  <2>1. PICK rhs : rhs = <<"ENUM">>
    OBVIOUS
  <2>2. Rules[r].rhs = rhs
    BY <1>38, <2>1, RhsAre
  <2>3. Len(rhs) = 1 /\ rhs[1] = "ENUM"
    BY <2>1
  <2>4. CASE k = 1
    BY <1>38, <2>2, <2>3, <2>4 DEF HeadNames
  <2> QED BY <2>2, <2>3, <2>4
<1>39. CASE r = 39
  <2>1. PICK rhs : rhs = <<"TYPE">>
    OBVIOUS
  <2>2. Rules[r].rhs = rhs
    BY <1>39, <2>1, RhsAre
  <2>3. Len(rhs) = 1 /\ rhs[1] = "TYPE"
    BY <2>1
  <2>4. CASE k = 1
    BY <1>39, <2>2, <2>3, <2>4 DEF HeadNames
  <2> QED BY <2>2, <2>3, <2>4
<1>40. CASE r = 40
  <2>1. PICK rhs : rhs = <<"TYPE", "OPEN_BRACKET", "CLOSE_BRACKET">>
    OBVIOUS
  <2>2. Rules[r].rhs = rhs
    BY <1>40, <2>1, RhsAre
  <2>3. Len(rhs) = 3 /\ rhs[1] = "TYPE" /\ rhs[2] = "OPEN_BRACKET" /\ rhs[3] = "CLOSE_BRACKET"
    BY <2>1
  <2>4. CASE k = 1
    BY <1>40, <2>2, <2>3, <2>4 DEF HeadNames
  <2>5. CASE k = 2
    BY <1>40, <2>2, <2>3, <2>5 DEF HeadNames
  <2>6. CASE k = 3
    BY <1>40, <2>2, <2>3, <2>6 DEF HeadNames
  <2> QED BY <2>2, <2>3, <2>4, <2>5, <2>6
<1>41. CASE r = 41
  <2>1. PICK rhs : rhs = <<"literal">>
    OBVIOUS
  <2>2. Rules[r].rhs = rhs
    BY <1>41, <2>1, RhsAre
  <2>3. Len(rhs) = 1 /\ rhs[1] = "literal"
    BY <2>1
  <2>4. CASE k = 1
    BY <1>41, <2>2, <2>3, <2>4 DEF HeadNames
  <2> QED BY <2>2, <2>3, <2>4
<1>42. CASE r = 42
  <2>1. PICK rhs : rhs = <<"IDENTIFIER">>
    OBVIOUS
  <2>2. Rules[r].rhs = rhs
    BY <1>42, <2>1, RhsAre
  <2>3. Len(rhs) = 1 /\ rhs[1] = "IDENTIFIER"
    BY <2>1
  <2>4. CASE k = 1
    BY <1>42, <2>2, <2>3, <2>4 DEF HeadNames
  <2> QED BY <2>2, <2>3, <2>4
<1>43. CASE r = 43
  <2>1. PICK rhs : rhs = <<"expression", "OP_MUL", "expression">>
    OBVIOUS
  <2>2. Rules[r].rhs = rhs
    BY <1>43, <2>1, RhsAre
  <2>3. Len(rhs) = 3 /\ rhs[1] = "expression" /\ rhs[2] = "OP_MUL" /\ rhs[3] = "expression"
    BY <2>1
  <2>4. CASE k = 1
    BY <1>43, <2>2, <2>3, <2>4 DEF HeadNames
  <2>5. CASE k = 2
    <3>1. PICK q : q = <<"expression", "OP_MUL", 43, 2>>
      OBVIOUS
    <3>2. q \in NextTo
      BY <3>1 DEF NextTo
    <3> QED BY <1>43, <2>2, <2>3, <2>5, <3>1, <3>2
  <2>6. CASE k = 3
    BY <1>43, <2>2, <2>3, <2>6 DEF HeadNames
  <2> QED BY <2>2, <2>3, <2>4, <2>5, <2>6
<1>44. CASE r = 44
  <2>1. PICK rhs : rhs = <<"LIT_INTEGER">>
    OBVIOUS
  <2>2. Rules[r].rhs = rhs
    BY <1>44, <2>1, RhsAre
  <2>3. Len(rhs) = 1 /\ rhs[1] = "LIT_INTEGER"
    BY <2>1
  <2>4. CASE k = 1
    BY <1>44, <2>2, <2>3, <2>4 DEF HeadNames
  <2> QED BY <2>2, <2>3, <2>4
<1>45. CASE r = 45
  <2>1. PICK rhs : rhs = <<"LIT_STRING">>
    OBVIOUS
  <2>2. Rules[r].rhs = rhs
    BY <1>45, <2>1, RhsAre
  <2>3. Len(rhs) = 1 /\ rhs[1] = "LIT_STRING"
    BY <2>1
  <2>4. CASE k = 1
    BY <1>45, <2>2, <2>3, <2>4 DEF HeadNames
  <2> QED BY <2>2, <2>3, <2>4
<1>46. r = 1 \/ r = 2 \/ r = 3 \/ r = 4 \/ r = 5 \/ r = 6 \/ r = 7 \/ r = 8 \/ r = 9 \/
       r = 10 \/ r = 11 \/ r = 12 \/ r = 13 \/ r = 14 \/ r = 15 \/ r = 16 \/ r = 17 \/
       r = 18 \/ r = 19 \/ r = 20 \/ r = 21 \/ r = 22 \/ r = 23 \/ r = 24 \/ r = 25 \/
       r = 26 \/ r = 27 \/ r = 28 \/ r = 29 \/ r = 30 \/ r = 31 \/ r = 32 \/ r = 33 \/
       r = 34 \/ r = 35 \/ r = 36 \/ r = 37 \/ r = 38 \/ r = 39 \/ r = 40 \/ r = 41 \/
       r = 42 \/ r = 43 \/ r = 44 \/ r = 45
  OBVIOUS
<1> HIDE DEF RhsFacts
<1> QED
  BY <1>1, <1>2, <1>3, <1>4, <1>5, <1>6, <1>7, <1>8, <1>9, <1>10, <1>11, <1>12, <1>13,
     <1>14, <1>15, <1>16, <1>17, <1>18, <1>19, <1>20, <1>21, <1>22, <1>23, <1>24, <1>25, <1>26,
     <1>27, <1>28, <1>29, <1>30, <1>31, <1>32, <1>33, <1>34, <1>35, <1>36, <1>37, <1>38, <1>39,
     <1>40, <1>41, <1>42, <1>43, <1>44, <1>45, <1>46

-----------------------------------------------------------------------------
(* Symbols that end a rule                                                 *)

EndsRules(Y) ==
    \A r \in 1 .. 45 : \A k \in 1 .. Len(Rules[r].rhs) :
        Rules[r].rhs[k] = Y => k = Len(Rules[r].rhs)

\* The state such a symbol leads to reads no other.
LEMMA EndedState ==
    ASSUME NEW h, NEW st, NEW i, NEW Y, ReadBy(h, st, i, Y), EndsRules(Y)
    PROVE  /\ NextSymbols(st[i].items) = {} /\ Shiftable(st[i].items) = {}
           /\ Complete(st[i].items) # {}
<1>1. PICK J : J = st[i].items
  OBVIOUS
<1>2. Stated(J) /\ J \subseteq AllItems /\ \A e \in J : e[2] > 0 => Rules[e[1]].rhs[e[2]] = Y
  BY <1>1 DEF ReadBy, Stated
<1>3. ASSUME NEW e \in J, e[2] > 0 PROVE ~Unread(e)
  <2>1. PICK n : n = Len(Rules[e[1]].rhs)
    OBVIOUS
  <2>2. e[1] \in 1 .. 45 /\ e[2] \in Nat /\ e[2] <= n
    BY <1>2, <2>1, ItemIs
  <2>3. n \in Nat
    BY <2>1, <2>2, RhsLong
  <2>4. e[2] \in 1 .. n
    BY <2>2, <2>3, <1>3
  <2>5. e[2] = n
    BY <1>2, <1>3, <2>1, <2>2, <2>4 DEF EndsRules
  <2> QED BY <2>1, <2>3, <2>5 DEF Unread
<1>4. ASSUME NEW e \in J PROVE ~Unread(e)
  <2>1. CASE e[2] > 0
    BY <2>1, <1>3
  <2>2. CASE ~(e[2] > 0)
    <3>1. e[1] \in 1 .. 45 /\ e = <<e[1], 0>>
      <4>1. e[1] \in 1 .. 45 /\ e[2] \in Nat /\ e = <<e[1], e[2]>>
        BY <1>2, ItemIs
      <4>2. e[2] = 0
        BY <4>1, <2>2
      <4> QED BY <4>1, <4>2
    <3>2. PICK r : r = e[1]
      OBVIOUS
    <3>3. r \in 1 .. 45 /\ <<r, 0>> \in J
      BY <3>1, <3>2
    <3>4. PICK j \in J : j[2] > 0 /\ Awaits(j, Rules[r].lhs)
      BY <3>3, <1>2 DEF Stated
    <3>5. Unread(j)
      BY <3>4 DEF Awaits
    <3> QED BY <3>4, <3>5, <1>3
  <2> QED BY <2>1, <2>2
<1>5. NextSymbols(J) = {}
  BY <1>4 DEF NextSymbols
<1>6. Shiftable(J) = {}
  BY <1>5 DEF Shiftable
<1>7. Complete(J) # {}
  <2>1. PICK j \in J : j[2] > 0
    BY <1>2 DEF Stated
  <2>2. j[1] \in Complete(J)
    BY <1>4 DEF Complete
  <2> QED BY <2>2
<1> QED BY <1>1, <1>5, <1>6, <1>7

LEMMA KeyEnds == EndsRules("primary_decl") /\ EndsRules("END")
<1>1. PICK Y, Z : Y = "primary_decl" /\ Z = "END"
  OBVIOUS
<1>2. \A r \in 1 .. 45 : \A k \in 1 .. Len(Rules[r].rhs) :
          Rules[r].rhs[k] \in {Y, Z} => k = Len(Rules[r].rhs)
  BY <1>1, RhsKnown DEF RhsFacts
<1>3. EndsRules(Y) /\ EndsRules(Z)
  BY <1>2 DEF EndsRules
<1> QED BY <1>1, <1>3

\* A key that the parser holds is about to become part of a body.
LEMMA KeyOnTop ==
    ASSUME NEW h, NEW st, StackOK(h, st), NEW i \in 1 .. Len(st),
           st[i].ptr # 0, h[st[i].ptr].tag = "PrimaryKey"
    PROVE  i = Len(st) /\ Shiftable(st[i].items) = {} /\ Complete(st[i].items) # {}
<1>1. Len(st) \in Nat /\ st[1].ptr = 0
  BY StackFacts
<1>2. i \in 2 .. Len(st)
  <2>1. i # 1
    BY <1>1
  <2> QED BY <2>1, <1>1
<1>3. PICK Y : ReadBy(h, st, i, Y)
  BY <1>2, StateRead
<1>4. Fits(h, Y, st[i].ptr)
  BY <1>3 DEF ReadBy
<1>5. PICK p : p = st[i].ptr
  OBVIOUS
<1>6. Y \in DOMAIN Kind /\ h[p].tag = Kind[Y]
  BY <1>4, <1>5 DEF Fits, IsBody, IsWhole
<1>7. Kind[Y] = "PrimaryKey"
  BY <1>5, <1>6
<1>8. Y = "primary_decl"
  BY <1>6, <1>7, KindsAre
<1>9. EndsRules(Y)
  BY <1>8, KeyEnds
<1>10. NextSymbols(st[i].items) = {} /\ Shiftable(st[i].items) = {} /\ Complete(st[i].items) # {}
  BY <1>3, <1>9, EndedState
<1>11. i = Len(st)
  <2> SUFFICES ASSUME i # Len(st) PROVE FALSE
    OBVIOUS
  <2>1. PICK j : j = i + 1
    OBVIOUS
  <2>2. j \in 2 .. Len(st) /\ j - 1 = i
    BY <2>1, <1>1, <1>2
  <2>3. ReadAt(h, st, j)
    BY <2>2 DEF StackOK
  <2>4. \E X : X \in NextSymbols(st[i].items)
    BY <2>2, <2>3 DEF ReadAt
  <2> QED BY <2>4, <1>10
<1> QED BY <1>10, <1>11

\* Where the parser accepts it can read no more.
LEMMA AcceptAlone ==
    ASSUME NEW h, NEW st, StackOK(h, st), 1 \in Complete(st[Len(st)].items)
    PROVE  Shiftable(st[Len(st)].items) = {} /\ ReadBy(h, st, Len(st), "END")
<1>1. PICK i : i = Len(st)
  OBVIOUS
<1>2. i \in Nat /\ i > 0 /\ st[i].items \subseteq AllItems
  <2>1. Len(st) \in Nat /\ Len(st) > 0
    BY StackFacts
  <2>2. Len(st) \in 1 .. Len(st)
    BY <2>1
  <2> QED BY <1>1, <2>1, <2>2, StackFacts
<1>3. PICK e \in st[i].items : ~Unread(e) /\ 1 = e[1]
  BY <1>1 DEF Complete
<1>4. e = <<1, 2>>
  <2>1. e[2] \in Nat /\ e = <<1, e[2]>> /\ e[2] <= 2 /\ ~(e[2] < 2)
    BY <1>2, <1>3, ItemIs, FirstRule DEF Unread
  <2> QED BY <2>1
<1>5. e[1] = 1 /\ e[2] = 2 /\ e[2] > 0
  BY <1>4
<1>6. i \in 2 .. Len(st)
  <2>1. i \in 1 .. Len(st)
    BY <1>1, <1>2
  <2> QED BY <2>1, <1>3, <1>5, ReadOne
<1>7. PICK Y : ReadBy(h, st, i, Y)
  BY <1>6, StateRead
<1>8. Y = "END"
  <2>1. Rules[e[1]].rhs[e[2]] = Y
    BY <1>3, <1>5, <1>7 DEF ReadBy
  <2> QED BY <2>1, <1>5, FirstRule
<1>9. EndsRules(Y)
  BY <1>8, KeyEnds
<1>10. Shiftable(st[i].items) = {}
  BY <1>7, <1>9, EndedState
<1> QED BY <1>1, <1>7, <1>8, <1>10

-----------------------------------------------------------------------------
(* The heap is a forest                                                    *)

Roots(h) == {d \in DOMAIN h : ~Owned(h, d)}
\* The trees below the cells of S.
Below(h, S) == UNION {ToSet(destroy(h, k)) : k \in S}
\* Every cell is below one root, once.
Forest(h) ==
    /\ DOMAIN h = 1 .. Len(h) /\ Len(h) \in Nat /\ destroy(h, 0) = <<>>
    /\ \A p \in DOMAIN h : /\ destroy(h, p) \in Seq(1 .. Len(h)) /\ IsInjective(destroy(h, p))
                           /\ ToSet(destroy(h, p)) \subseteq DOMAIN h
    /\ \A p, q \in Roots(h) : p # q => ToSet(destroy(h, p)) \cap ToSet(destroy(h, q)) = {}
    /\ DOMAIN h = Below(h, Roots(h))

LEMMA RootAbove ==
    ASSUME NEW h, NEW rank, NEW n, Grounded(h, rank, n),
           \A p \in 1 .. Len(h) : Tree(h, rank, p, destroy(h, p)),
           NEW d \in 1 .. Len(h)
    PROVE  \E k \in Roots(h) : d \in ToSet(destroy(h, k))
<1>1. PICK T : T = {e \in 1 .. Len(h) : ~\E k \in Roots(h) : e \in ToSet(destroy(h, k))}
  OBVIOUS
<1> SUFFICES ASSUME T # {} PROVE FALSE
  BY <1>1
<1>2. PICK C : C = 1 .. Len(h)
  OBVIOUS
<1>3. T \subseteq C /\ rank \in [C -> Nat] /\ n \in Nat /\ \A c \in C : rank[c] < n
  BY <1>1, <1>2 DEF Grounded
<1>4. PICK e \in T : \A c \in T : rank[c] <= rank[e]
  BY <1>3, Greatest
<1>5. e \in DOMAIN h /\ e \in 1 .. Len(h)
  BY <1>1 DEF Grounded
<1>6. Owned(h, e)
  <2> SUFFICES ASSUME ~Owned(h, e) PROVE FALSE
    OBVIOUS
  <2>1. e \in Roots(h)
    BY <1>5 DEF Roots
  <2>2. e \in ToSet(destroy(h, e))
    BY <1>5 DEF Tree
  <2> QED BY <2>1, <2>2, <1>1
<1>7. PICK c, f : Owns(h, c, f, e)
  BY <1>6 DEF Owned
<1>8. c \in 1 .. Len(h) /\ rank[e] < rank[c]
  BY <1>7 DEF Owns, Grounded
<1>9. c \notin T
  <2>1. rank[c] \in Nat /\ rank[e] \in Nat
    BY <1>2, <1>3, <1>5, <1>8
  <2>2. ~(rank[c] <= rank[e])
    BY <2>1, <1>8
  <2> QED BY <2>2, <1>4
<1>10. PICK k \in Roots(h) : c \in ToSet(destroy(h, k))
  BY <1>1, <1>8, <1>9
<1>11. k \in 1 .. Len(h)
  BY DEF Roots, Grounded
<1>12. e \in ToSet(destroy(h, k))
  <2>1. Tree(h, rank, k, destroy(h, k))
    BY <1>11
  <2> QED BY <2>1, <1>7, <1>10 DEF Tree
<1> QED BY <1>1, <1>12

LEMMA RootsApart ==
    ASSUME NEW h, NEW rank, NEW n, Grounded(h, rank, n),
           \A p \in 1 .. Len(h) : Tree(h, rank, p, destroy(h, p)),
           NEW p \in Roots(h), NEW q \in Roots(h), p # q
    PROVE  ToSet(destroy(h, p)) \cap ToSet(destroy(h, q)) = {}
<1>1. p \in 1 .. Len(h) /\ q \in 1 .. Len(h) /\ ~Owned(h, p) /\ ~Owned(h, q)
  BY DEF Roots, Grounded
<1>2. PICK s, t : s = destroy(h, p) /\ t = destroy(h, q)
  OBVIOUS
<1>3. Tree(h, rank, p, s) /\ Tree(h, rank, q, t)
  BY <1>1, <1>2
<1>4. p \notin ToSet(t)
  BY <1>1, <1>3 DEF Tree, Owned
<1>5. q \notin ToSet(s)
  BY <1>1, <1>3 DEF Tree, Owned
<1>6. ToSet(s) \cap ToSet(t) = {}
  BY <1>3, <1>4, <1>5, TreesApart
<1> QED BY <1>2, <1>6

LEMMA DestroyNone == \A h : Len(h) \in Nat /\ (\E rank, n : Grounded(h, rank, n)) => destroy(h, 0) = <<>>
BY DestroyingIs, DestroyIs

LEMMA GrowthForest == Growth => Forest(heap)
<1> SUFFICES ASSUME Growth PROVE Forest(heap)
  OBVIOUS
<1>1. PICK rank, n : /\ Grounded(heap, rank, n)
                     /\ \A p \in 1 .. Len(heap) : Tree(heap, rank, p, destroy(heap, p))
  BY GrowthTrees
<1>2. DOMAIN heap = 1 .. Len(heap) /\ Len(heap) \in Nat
  BY GrowthShape
<1>3. destroy(heap, 0) = <<>>
  BY <1>1, <1>2, DestroyNone
<1>4. ASSUME NEW p \in DOMAIN heap
      PROVE  /\ destroy(heap, p) \in Seq(1 .. Len(heap)) /\ IsInjective(destroy(heap, p))
             /\ ToSet(destroy(heap, p)) \subseteq DOMAIN heap
  <2>1. PICK s : s = destroy(heap, p)
    OBVIOUS
  <2>2. Tree(heap, rank, p, s)
    BY <1>1, <1>2, <2>1
  <2>3. ToSet(s) \subseteq 1 .. Len(heap)
    BY <2>2, TreeCells
  <2> QED BY <1>2, <2>1, <2>2, <2>3 DEF Tree
<1>5. \A p, q \in Roots(heap) : p # q => ToSet(destroy(heap, p)) \cap ToSet(destroy(heap, q)) = {}
  BY <1>1, RootsApart
<1>6. DOMAIN heap = Below(heap, Roots(heap))
  <2>1. \A d \in 1 .. Len(heap) : \E k \in Roots(heap) : d \in ToSet(destroy(heap, k))
    BY <1>1, RootAbove
  <2>2. Roots(heap) \subseteq DOMAIN heap
    BY DEF Roots
  <2> QED BY <2>1, <2>2, <1>2, <1>4 DEF Below
<1> QED BY <1>2, <1>3, <1>4, <1>5, <1>6 DEF Forest

\* What is not below some of the roots is below the others.
LEMMA BelowOthers ==
    ASSUME NEW h, Forest(h), NEW S, NEW T, S \cup T = Roots(h), S \cap T = {}
    PROVE  DOMAIN h \ Below(h, S) = Below(h, T)
<1>1. DOMAIN h = Below(h, S \cup T)
  BY DEF Forest
<1>2. ASSUME NEW p \in S, NEW q \in T
      PROVE ToSet(destroy(h, p)) \cap ToSet(destroy(h, q)) = {}
  <2>1. p \in Roots(h) /\ q \in Roots(h) /\ p # q
    OBVIOUS
  <2> QED BY <2>1 DEF Forest
<1> QED BY <1>1, <1>2 DEF Below

-----------------------------------------------------------------------------
(* What is freed on the way out                                            *)

\* Roots, none twice, and null pointers.
Picks(h, N, f) ==
    /\ N \in Nat /\ \A i \in 1 .. N : f[i] = 0 \/ f[i] \in Roots(h)
    /\ \A i, j \in 1 .. N : i # j /\ f[i] # 0 => f[i] # f[j]
Picked(N, f) == {f[i] : i \in 1 .. N} \ {0}
FreedBy(h, N, f, s) ==
    /\ s \in Seq(1 .. Len(h)) /\ IsInjective(s) /\ ToSet(s) = Below(h, Picked(N, f))

LEMMA TreeOf ==
    ASSUME NEW h, Forest(h), NEW d, d = 0 \/ d \in Roots(h)
    PROVE  /\ destroy(h, d) \in Seq(1 .. Len(h)) /\ IsInjective(destroy(h, d))
           /\ ToSet(destroy(h, d)) = Below(h, {d} \ {0})
<1>1. 0 \notin Roots(h)
  BY DEF Forest, Roots
<1>2. CASE d = 0
  <2>1. PICK s : s = destroy(h, d)
    OBVIOUS
  <2>2. s = <<>>
    BY <2>1, <1>2 DEF Forest
  <2>3. s \in Seq(1 .. Len(h)) /\ DOMAIN s = {} /\ ToSet(s) = {}
    BY <2>2 DEF ToSet
  <2>4. IsInjective(s)
    BY <2>3 DEF IsInjective
  <2>5. Below(h, {d} \ {0}) = {}
    BY <1>2 DEF Below
  <2> QED BY <2>1, <2>3, <2>4, <2>5
<1>3. CASE d \in Roots(h)
  <2>1. d \in DOMAIN h /\ {d} \ {0} = {d}
    BY <1>1, <1>3 DEF Roots
  <2>2. Below(h, {d} \ {0}) = ToSet(destroy(h, d))
    BY <2>1 DEF Below
  <2> QED BY <2>1, <2>2 DEF Forest
<1> QED BY <1>2, <1>3

LEMMA PickedFreed ==
    ASSUME NEW h, Forest(h), NEW N, NEW f, Picks(h, N, f),
           NEW seqs, seqs = [i \in 1 .. N |-> destroy(h, f[i])]
    PROVE  FreedBy(h, N, f, FlattenSeq(seqs))
<1>1. PICK C : C = 1 .. Len(h)
  OBVIOUS
<1>2. N \in Nat /\ DOMAIN seqs = 1 .. N
  BY DEF Picks
<1>3. \A i \in 1 .. N : /\ seqs[i] \in Seq(C) /\ IsInjective(seqs[i])
                        /\ ToSet(seqs[i]) = Below(h, {f[i]} \ {0})
  <2> TAKE i \in 1 .. N
  <2>1. f[i] = 0 \/ f[i] \in Roots(h)
    BY DEF Picks
  <2>2. seqs[i] = destroy(h, f[i])
    OBVIOUS
  <2>3. /\ destroy(h, f[i]) \in Seq(1 .. Len(h)) /\ IsInjective(destroy(h, f[i]))
        /\ ToSet(destroy(h, f[i])) = Below(h, {f[i]} \ {0})
    BY <2>1, TreeOf
  <2> QED BY <2>2, <2>3, <1>1
<1>4. seqs \in Seq(Seq(C))
  <2>1. PICK S : S = Seq(C)
    OBVIOUS
  <2>2. \A i \in 1 .. N : seqs[i] \in S
    BY <1>3, <2>1
  <2>3. seqs = [i \in 1 .. N |-> seqs[i]]
    OBVIOUS
  <2>4. seqs \in Seq(S)
    BY <1>2, <2>2, <2>3
  <2> QED BY <2>1, <2>4
<1>5. ASSUME NEW i \in 1 .. N, NEW j \in 1 .. N, i # j PROVE ToSet(seqs[i]) \cap ToSet(seqs[j]) = {}
  <2>1. CASE f[i] = 0 \/ f[j] = 0
    <3>1. Below(h, {f[i]} \ {0}) = {} \/ Below(h, {f[j]} \ {0}) = {}
      BY <2>1 DEF Below
    <3> QED BY <3>1, <1>3
  <2>2. CASE f[i] # 0 /\ f[j] # 0
    <3>1. f[i] \in Roots(h) /\ f[j] \in Roots(h) /\ f[i] # f[j]
      BY <2>2, <1>5 DEF Picks
    <3> QED BY <3>1 DEF Forest
  <2> QED BY <2>1, <2>2
<1>6. AllApart(seqs)
  BY <1>2, <1>3, <1>5 DEF AllApart
<1>7. IsInjective(FlattenSeq(seqs))
  BY <1>4, <1>6, InjectiveFlatten
<1>8. FlattenSeq(seqs) \in Seq(C) /\ ToSet(FlattenSeq(seqs)) = UNION {ToSet(seqs[i]) : i \in 1 .. N}
  BY <1>2, <1>4, ToSetFlatten
<1>9. UNION {ToSet(seqs[i]) : i \in 1 .. N} = Below(h, Picked(N, f))
  <2>1. ASSUME NEW x, NEW i \in 1 .. N, x \in ToSet(seqs[i]) PROVE x \in Below(h, Picked(N, f))
    <3>1. x \in Below(h, {f[i]} \ {0})
      BY <1>3, <2>1
    <3>2. PICK k \in {f[i]} \ {0} : x \in ToSet(destroy(h, k))
      BY <3>1 DEF Below
    <3>3. k \in Picked(N, f)
      BY <3>2 DEF Picked
    <3> QED BY <3>2, <3>3 DEF Below
  <2>2. ASSUME NEW x \in Below(h, Picked(N, f)) PROVE \E i \in 1 .. N : x \in ToSet(seqs[i])
    <3>1. PICK k \in Picked(N, f) : x \in ToSet(destroy(h, k))
      BY <2>2 DEF Below
    <3>2. PICK i \in 1 .. N : k = f[i] /\ k # 0
      BY <3>1 DEF Picked
    <3>3. k \in {f[i]} \ {0}
      BY <3>2
    <3>4. x \in Below(h, {f[i]} \ {0})
      BY <3>1, <3>3 DEF Below
    <3> QED BY <1>3, <3>4
  <2> QED BY <2>1, <2>2
<1> QED BY <1>1, <1>7, <1>8, <1>9 DEF FreedBy

\* One tree more.
FreedAll(h, S, s) == s \in Seq(1 .. Len(h)) /\ IsInjective(s) /\ ToSet(s) = Below(h, S)
OtherRoot(h, S, d) == d = 0 \/ (d \in Roots(h) /\ d \notin S)
LEMMA FreedThen ==
    ASSUME NEW h, Forest(h), NEW S, S \subseteq Roots(h), NEW s, FreedAll(h, S, s),
           NEW d, OtherRoot(h, S, d), NEW T, T = S \cup ({d} \ {0}),
           NEW u, u = s \o destroy(h, d)
    PROVE  FreedAll(h, T, u) /\ ToSet(s) \cap ToSet(destroy(h, d)) = {}
<1>0. /\ s \in Seq(1 .. Len(h)) /\ IsInjective(s) /\ ToSet(s) = Below(h, S)
      /\ d = 0 \/ (d \in Roots(h) /\ d \notin S)
  BY DEF FreedAll, OtherRoot
<1>1. PICK C, t : C = 1 .. Len(h) /\ t = destroy(h, d)
  OBVIOUS
<1>2. t \in Seq(C) /\ IsInjective(t) /\ ToSet(t) = Below(h, {d} \ {0})
  BY <1>0, <1>1, TreeOf
<1>3. s \in Seq(C)
  BY <1>0, <1>1
<1>4. ToSet(s) \cap ToSet(t) = {}
  <2>1. \A p \in S : d # 0 => ToSet(destroy(h, p)) \cap ToSet(destroy(h, d)) = {}
    BY <1>0 DEF Forest
  <2> QED BY <2>1, <1>0, <1>2 DEF Below
<1>5. s \o t \in Seq(C) /\ ToSet(s \o t) = ToSet(s) \cup ToSet(t)
  BY <1>2, <1>3, ToSetConcat, ConcatType
<1>6. IsInjective(s \o t)
  BY <1>0, <1>2, <1>3, <1>4, InjectiveConcat
<1>7. ToSet(s \o t) = Below(h, S \cup ({d} \ {0}))
  <2>1. ToSet(s \o t) = Below(h, S) \cup Below(h, {d} \ {0})
    BY <1>0, <1>2, <1>5
  <2> QED BY <2>1 DEF Below
<1> QED BY <1>1, <1>4, <1>5, <1>6, <1>7 DEF FreedAll

-----------------------------------------------------------------------------
(* What nothing owns                                                       *)

LEMMA UnownedAre == Growth => Unowned = Roots(heap) \ (StackHeld \cup {lookahead.ptr})
<1> SUFFICES ASSUME Growth PROVE Unowned = Roots(heap) \ (StackHeld \cup {lookahead.ptr})
  OBVIOUS
<1>1. \A d : d \in Targets <=> Owned(heap, d)
  BY TargetsOwned
<1>2. Unowned = DOMAIN heap \ (Targets \cup StackHeld \cup {lookahead.ptr})
  BY DEF Unowned, Targets, StackHeld
<1> QED BY <1>1, <1>2 DEF Roots

\* While there is a stack it is what the parser does not hold, and replaced keys.
LEMMA UnheldAre ==
    ASSUME Growth, stack # <<>>
    PROVE  /\ HeldBy(stack, lookahead) \subseteq Roots(heap)
           /\ Unowned = Roots(heap) \ HeldBy(stack, lookahead)
           /\ \A d \in Unowned : heap[d].tag = "PrimaryKey"
<1>1. Growing(heap, stack, lookahead)
  BY DEF Growth, OnStack, Grows
<1>2. PICK K : K = HeldBy(stack, lookahead)
  OBVIOUS
<1>3. Sound(heap, K)
  BY <1>1, <1>2 DEF Growing
<1>4. Rooted(heap, K) /\ 0 \notin DOMAIN heap
  <2>1. DOMAIN heap = 1 .. Len(heap)
    BY GrowthShape
  <2> QED BY <2>1, <1>3 DEF Sound, Ownership
<1>5. K \subseteq Roots(heap)
  BY <1>4 DEF Rooted, Roots
<1>6. ASSUME NEW d \in DOMAIN heap PROVE d \in StackHeld \cup {lookahead.ptr} <=> d \in K
  <2>1. /\ Len(stack) \in Nat /\ DOMAIN stack = 1 .. Len(stack)
        /\ \A i \in 1 .. Len(stack) : PtrAt(stack, lookahead, i) = stack[i].ptr
        /\ PtrAt(stack, lookahead, Len(stack) + 1) = lookahead.ptr
    BY <1>1, HeldFacts
  <2>2. d # 0
    BY <1>4
  <2>3. ASSUME d \in StackHeld PROVE d \in K
    <3>1. PICK i \in 1 .. Len(stack) : d = stack[i].ptr
      BY <2>1, <2>3 DEF StackHeld, Held
    <3>2. i \in 1 .. Len(stack) + 1 /\ d = PtrAt(stack, lookahead, i)
      BY <2>1, <3>1
    <3> QED BY <3>2, <2>2, <1>2 DEF HeldBy
  <2>4. ASSUME d = lookahead.ptr PROVE d \in K
    <3>1. PICK i : i = Len(stack) + 1
      OBVIOUS
    <3>2. i \in 1 .. Len(stack) + 1 /\ d = PtrAt(stack, lookahead, i)
      BY <2>1, <2>4, <3>1
    <3> QED BY <3>1, <3>2, <2>2, <1>2 DEF HeldBy
  <2>5. ASSUME d \in K PROVE d \in StackHeld \cup {lookahead.ptr}
    <3>1. PICK i \in 1 .. Len(stack) + 1 : d = PtrAt(stack, lookahead, i)
      BY <2>5, <1>2 DEF HeldBy
    <3>2. CASE i \in 1 .. Len(stack)
      <4>1. d = stack[i].ptr /\ i \in DOMAIN stack
        BY <2>1, <3>1, <3>2
      <4> QED BY <4>1, <2>2 DEF StackHeld, Held
    <3>3. CASE i \notin 1 .. Len(stack)
      BY <3>1, <3>3 DEF PtrAt
    <3> QED BY <3>2, <3>3
  <2> QED BY <2>3, <2>4, <2>5
<1>7. Unowned = Roots(heap) \ K
  <2>1. Unowned = Roots(heap) \ (StackHeld \cup {lookahead.ptr}) /\ Roots(heap) \subseteq DOMAIN heap
    BY UnownedAre DEF Roots
  <2> QED BY <2>1, <1>6
<1>8. \A d \in Unowned : heap[d].tag = "PrimaryKey"
  BY <1>4, <1>7 DEF Rooted, Roots
<1> QED BY <1>2, <1>5, <1>7, <1>8

LEMMA ReplacedIs == Replaced = Below(heap, {c \in Unowned : heap[c].tag = "PrimaryKey"})
BY DEF Replaced, Below

-----------------------------------------------------------------------------
(* The invariant of what is freed                                          *)

\* After an error: all but the program and the replaced keys.
Clear ==
    /\ freed \in Seq(1 .. Len(heap)) /\ IsInjective(freed)
    /\ ToSet(freed) \cap ToSet(destroy(heap, program)) = {}
    /\ ToSet(freed) \cup ToSet(destroy(heap, program)) = DOMAIN heap \ Replaced
Done ==
    /\ freed \in Seq(1 .. Len(heap)) /\ IsInjective(freed)
    /\ stack = <<>> \/ status = "SUCCEEDED" => ToSet(freed) = DOMAIN heap \ Replaced
AcceptsAlone == stack # <<>> /\ 1 \in Complete(Items) => lookahead = NoToken
Freeing ==
    /\ IF released THEN ~Parsing /\ Done
       ELSE IF stack # <<>> THEN freed = <<>> ELSE Clear
    /\ AcceptsAlone

UnownedRoots == Unowned = Roots(heap) \ (StackHeld \cup {lookahead.ptr})
LEMMA UnownedNamed == Growth => UnownedRoots
BY UnownedAre DEF UnownedRoots

\* An error finds no key on the stack, so that all it holds is freed.
LEMMA ErrorClears ==
    ASSUME Growth, stack # <<>>, freed = <<>>, syntaxError
    PROVE  Clear'
<1>1. /\ Unexpected /\ Due = {} /\ Parsing
      /\ stack' = <<>> /\ lookahead' = NoToken /\ heap' = heap /\ program' = program
      /\ freed' = freed \o FlattenSeq([i \in DOMAIN stack |-> Destructed(Reverse(stack)[i].ptr)])
                        \o Destructed(lookahead.ptr)
  BY DEF syntaxError
<1>2. Growing(heap, stack, lookahead) /\ Published(stack, program)
  BY DEF Growth, OnStack, Grows
<1>3. PICK N, la : N = Len(stack) /\ la = lookahead.ptr
  OBVIOUS
<1>4. /\ N \in Nat /\ N > 0 /\ DOMAIN stack = 1 .. N
      /\ \A i \in 1 .. N + 1 : /\ PtrAt(stack, lookahead, i) # 0 =>
                                     PtrAt(stack, lookahead, i) \in HeldBy(stack, lookahead)
      /\ \A i \in 1 .. N : PtrAt(stack, lookahead, i) = stack[i].ptr
      /\ PtrAt(stack, lookahead, N + 1) = la
      /\ \A i, j \in 1 .. N + 1 :
            i # j /\ PtrAt(stack, lookahead, i) # 0 => PtrAt(stack, lookahead, i) # PtrAt(stack, lookahead, j)
  BY <1>2, <1>3, HeldFacts
<1>5. PICK K : K = HeldBy(stack, lookahead)
  OBVIOUS
<1>6. K \subseteq Roots(heap) /\ Forest(heap) /\ 0 \notin Roots(heap)
  <2>1. Forest(heap)
    BY GrowthForest
  <2>2. 0 \notin Roots(heap)
    BY <2>1 DEF Forest, Roots
  <2> QED BY <2>1, <2>2, <1>5, UnheldAre
<1>7. program = 0 \/ program \in K
  BY <1>2, <1>5, RootHeld DEF Root
<1>8. PICK f : f = [i \in 1 .. N |-> IF stack[N - i + 1].ptr = program THEN 0 ELSE stack[N - i + 1].ptr]
  OBVIOUS
<1>9. \A i \in 1 .. N : N - i + 1 \in 1 .. N /\ N - (N - i + 1) + 1 = i
  BY <1>4
<1>10. ASSUME NEW i \in 1 .. N
       PROVE  /\ f[i] = (IF stack[N - i + 1].ptr = program THEN 0 ELSE stack[N - i + 1].ptr)
              /\ f[i] = 0 \/ (f[i] \in K /\ f[i] # program /\ f[i] = PtrAt(stack, lookahead, N - i + 1))
  <2>1. PICK k : k = N - i + 1
    OBVIOUS
  <2>2. k \in 1 .. N /\ k \in 1 .. N + 1
    BY <2>1, <1>4, <1>9
  <2>3. f[i] = IF stack[k].ptr = program THEN 0 ELSE stack[k].ptr
    BY <1>8, <2>1
  <2>4. stack[k].ptr = PtrAt(stack, lookahead, k) /\ (stack[k].ptr # 0 => stack[k].ptr \in K)
    BY <2>2, <1>4, <1>5
  <2> QED BY <2>1, <2>3, <2>4
<1>11. ASSUME NEW i \in 1 .. N, NEW j \in 1 .. N, i # j, f[i] # 0 PROVE f[i] # f[j]
  <2>1. f[i] = PtrAt(stack, lookahead, N - i + 1)
    BY <1>10, <1>11
  <2>2. f[j] = 0 \/ f[j] = PtrAt(stack, lookahead, N - j + 1)
    BY <1>10
  <2>3. PICK a, b : a = N - i + 1 /\ b = N - j + 1
    OBVIOUS
  <2>4. a \in 1 .. N + 1 /\ b \in 1 .. N + 1 /\ a # b
    BY <2>3, <1>4, <1>11
  <2>5. PtrAt(stack, lookahead, a) # PtrAt(stack, lookahead, b)
    BY <2>1, <2>3, <2>4, <1>4, <1>11
  <2> QED BY <2>1, <2>2, <2>3, <2>5, <1>11
<1>12. Picks(heap, N, f)
  <2>1. \A i \in 1 .. N : f[i] = 0 \/ f[i] \in Roots(heap)
    BY <1>6, <1>10
  <2> QED BY <2>1, <1>4, <1>11 DEF Picks
<1>13. PICK seqs : seqs = [i \in 1 .. N |-> destroy(heap, f[i])]
  OBVIOUS
<1>14. \A p : Destructed(p) = destroy(heap, IF p = program THEN 0 ELSE p)
  <2>1. destroy(heap, 0) = <<>>
    BY <1>6 DEF Forest
  <2> QED BY <2>1 DEF Destructed
<1>15. [i \in DOMAIN stack |-> Destructed(Reverse(stack)[i].ptr)] = seqs
  <2>1. ASSUME NEW i \in 1 .. N PROVE Destructed(Reverse(stack)[i].ptr) = destroy(heap, f[i])
    <3>1. Reverse(stack)[i] = stack[N - i + 1]
      BY <1>3, <1>4 DEF Reverse
    <3>2. f[i] = IF stack[N - i + 1].ptr = program THEN 0 ELSE stack[N - i + 1].ptr
      BY <1>10
    <3> QED BY <3>1, <3>2, <1>14
  <2> QED BY <2>1, <1>4, <1>13
<1>16. PICK s : s = FlattenSeq(seqs)
  OBVIOUS
<1>17. FreedBy(heap, N, f, s)
  BY <1>6, <1>12, <1>13, <1>16, PickedFreed
<1>18. PICK S, C : S = Picked(N, f) /\ C = 1 .. Len(heap)
  OBVIOUS
<1>19. s \in Seq(C) /\ IsInjective(s) /\ ToSet(s) = Below(heap, S)
  BY <1>17, <1>18 DEF FreedBy
<1>20. \A d \in S : d \in K /\ d # 0 /\ d # program /\ \E i \in 1 .. N : d = PtrAt(stack, lookahead, N - i + 1)
  <2> TAKE d \in S
  <2>1. PICK i \in 1 .. N : d = f[i] /\ d # 0
    BY <1>18 DEF Picked
  <2> QED BY <2>1, <1>10
<1>21. la # program \/ la = 0
  <2>1. ASSUME la # 0, program # 0 PROVE la # program
    <3>1. Token(heap, lookahead) /\ Root(heap, K, program)
      BY <1>2, <1>5, RootHeld DEF Growing
    <3>2. IsWhole(heap, la, "String")
      BY <3>1, <2>1, <1>3 DEF Token
    <3>3. IsWhole(heap, program, "Program")
      BY <3>1, <2>1 DEF Root
    <3> QED BY <3>2, <3>3 DEF IsWhole
  <2> QED BY <2>1
<1>22. la = 0 \/ (la \in K /\ la \notin S)
  <2> SUFFICES ASSUME la # 0 PROVE la \in K /\ la \notin S
    OBVIOUS
  <2>1. PICK k : k = N + 1
    OBVIOUS
  <2>2. k \in 1 .. N + 1 /\ \A i \in 1 .. N : N - i + 1 \in 1 .. N + 1 /\ k # N - i + 1
    BY <2>1, <1>4
  <2>3. la = PtrAt(stack, lookahead, k)
    BY <2>1, <1>4
  <2>4. la \in K
    BY <2>2, <2>3, <1>4, <1>5
  <2>5. \A i \in 1 .. N : la # PtrAt(stack, lookahead, N - i + 1)
    BY <2>2, <2>3, <1>4
  <2> QED BY <2>4, <2>5, <1>20
<1>23. Destructed(la) = destroy(heap, la)
  BY <1>14, <1>21
<1>24. PICK t : t = s \o destroy(heap, la)
  OBVIOUS
<1>25. S \subseteq Roots(heap) /\ (la = 0 \/ (la \in Roots(heap) /\ la \notin S))
  BY <1>6, <1>20, <1>22
<1>26. t \in Seq(C) /\ IsInjective(t) /\ ToSet(t) = Below(heap, S \cup ({la} \ {0}))
  <2>1. FreedAll(heap, S, s) /\ OtherRoot(heap, S, la) /\ S \subseteq Roots(heap)
    BY <1>18, <1>19, <1>25 DEF FreedAll, OtherRoot
  <2>2. PICK T : T = S \cup ({la} \ {0})
    OBVIOUS
  <2>3. FreedAll(heap, T, t)
    BY <2>1, <2>2, <1>6, <1>24, FreedThen
  <2> QED BY <2>2, <2>3, <1>18 DEF FreedAll
<1>27. freed' = t
  <2>1. freed' = freed \o s \o Destructed(la)
    BY <1>1, <1>3, <1>15, <1>16
  <2>2. PICK e : e = freed
    OBVIOUS
  <2>3. e = <<>>
    BY <2>2
  <2>4. e \o s = s
    BY <2>3, <1>19
  <2> QED BY <2>1, <2>2, <2>4, <1>23, <1>24
<1>28. S \cup ({la} \ {0}) = K \ {program}
  <2>1. ASSUME NEW d \in K, d # program PROVE d \in S \cup ({la} \ {0})
    <3>1. PICK k \in 1 .. N + 1 : d = PtrAt(stack, lookahead, k) /\ d # 0
      BY <1>3, <1>5 DEF HeldBy
    <3>2. CASE k \in 1 .. N
      <4>1. PICK i : i = N - k + 1
        OBVIOUS
      <4>2. i \in 1 .. N /\ N - i + 1 = k
        BY <4>1, <3>2, <1>9
      <4>3. f[i] = d
        BY <4>2, <3>1, <3>2, <2>1, <1>4, <1>10
      <4> QED BY <4>2, <4>3, <3>1, <1>18 DEF Picked
    <3>3. CASE k \notin 1 .. N
      <4>1. k = N + 1
        BY <3>3, <1>4
      <4> QED BY <4>1, <3>1, <1>4
    <3> QED BY <3>2, <3>3
  <2>2. la # 0 => la # program
    BY <1>21
  <2> QED BY <2>1, <2>2, <1>20, <1>22
<1>29. \A d \in K : heap[d].tag # "PrimaryKey"
  <2> SUFFICES ASSUME NEW d \in K, heap[d].tag = "PrimaryKey" PROVE FALSE
    OBVIOUS
  <2>1. PICK k \in 1 .. N + 1 : d = PtrAt(stack, lookahead, k) /\ d # 0
    BY <1>3, <1>5 DEF HeldBy
  <2>2. CASE k \in 1 .. N
    <3>1. StackOK(heap, stack)
      BY <1>2 DEF Growing
    <3>2. k \in 1 .. Len(stack) /\ stack[k].ptr # 0 /\ heap[stack[k].ptr].tag = "PrimaryKey"
      BY <2>1, <2>2, <1>3, <1>4
    <3>3. k = Len(stack) /\ Complete(stack[k].items) # {}
      BY <3>1, <3>2, KeyOnTop
    <3>4. Complete(Items) # {}
      BY <3>3 DEF Items, Last
    <3> QED BY <3>4, <1>1 DEF Due
  <2>3. CASE k \notin 1 .. N
    <3>1. k = N + 1
      BY <2>3, <1>4
    <3>2. d = la /\ la # 0
      BY <3>1, <2>1, <1>4
    <3>3. Token(heap, lookahead)
      BY <1>2 DEF Growing
    <3>4. IsWhole(heap, la, "String")
      BY <3>2, <3>3, <1>3 DEF Token
    <3> QED BY <3>2, <3>4 DEF IsWhole
  <2> QED BY <2>2, <2>3
<1>30. PICK U : U = Roots(heap) \ K
  OBVIOUS
<1>31. \A d \in U : heap[d].tag = "PrimaryKey"
  BY <1>5, <1>30, UnheldAre
<1>32. Growth'
  <2>1. [Next]_vars
    BY DEF Next, parse
  <2> QED BY <2>1, NextGrowth
<1>33. Unowned' = Roots(heap)
  <2>1. UnownedRoots'
    BY <1>32, UnownedNamed, PTL
  <2>3. Unowned' = Roots(heap') \ (StackHeld' \cup {lookahead'.ptr})
    BY <2>1 DEF UnownedRoots
  <2>2. StackHeld' = {} /\ lookahead'.ptr = 0
    <3>1. stack' = <<>> /\ lookahead'.ptr = 0
      BY <1>1 DEF NoToken
    <3>2. Held' = {}
      BY <3>1 DEF Held
    <3> QED BY <3>1, <3>2 DEF StackHeld
  <2> QED BY <2>2, <2>3, <1>1, <1>6
<1>34. Replaced' = Below(heap, U)
  <2>1. Replaced' = Below(heap', {c \in Unowned' : heap'[c].tag = "PrimaryKey"})
    BY DEF Replaced, Below
  <2>2. {c \in Unowned' : heap'[c].tag = "PrimaryKey"} = U
    BY <1>1, <1>6, <1>29, <1>30, <1>31, <1>33
  <2> QED BY <2>1, <2>2, <1>1
<1>35. DOMAIN heap \ Replaced' = Below(heap, K)
  <2>1. U \cup K = Roots(heap) /\ U \cap K = {}
    BY <1>6, <1>30
  <2> QED BY <2>1, <1>6, <1>34, BelowOthers
<1>36. /\ ToSet(t) \cap ToSet(destroy(heap, program)) = {}
       /\ ToSet(t) \cup ToSet(destroy(heap, program)) = Below(heap, K)
  <2>1. PICK T : T = K \ {program}
    OBVIOUS
  <2>2. T \subseteq Roots(heap) /\ (program = 0 \/ (program \in Roots(heap) /\ program \notin T))
    BY <2>1, <1>6, <1>7
  <2>3. ToSet(t) = Below(heap, T) /\ t \in Seq(1 .. Len(heap)) /\ IsInjective(t)
    BY <2>1, <1>18, <1>26, <1>28
  <2>4. ToSet(t) \cap ToSet(destroy(heap, program)) = {}
    <3>1. FreedAll(heap, T, t) /\ OtherRoot(heap, T, program)
      BY <2>2, <2>3 DEF FreedAll, OtherRoot
    <3>2. PICK V, v : V = T \cup ({program} \ {0}) /\ v = t \o destroy(heap, program)
      OBVIOUS
    <3> QED BY <3>1, <3>2, <2>2, <1>6, FreedThen
  <2>5. ToSet(destroy(heap, program)) = Below(heap, {program} \ {0})
    BY <1>6, <1>7, TreeOf
  <2>6. T \cup ({program} \ {0}) = K
    BY <2>1, <1>6, <1>7
  <2>7. ToSet(t) \cup ToSet(destroy(heap, program)) = Below(heap, T \cup ({program} \ {0}))
    BY <2>3, <2>5 DEF Below
  <2> QED BY <2>4, <2>6, <2>7
<1> QED BY <1>1, <1>18, <1>26, <1>27, <1>35, <1>36 DEF Clear

LEMMA SameReplaced ==
    ASSUME UNCHANGED <<heap, stack, lookahead>>
    PROVE  Replaced' = Replaced
BY DEF Replaced, Unowned, Owning, Pointers, Held

\* A parser that runs has a stack.
LEMMA ParsingStack ==
    ASSUME Growth, Parsing
    PROVE  stack # <<>> /\ Grows /\ StackOK(heap, stack)
BY DEF Growth, Parsing, OnStack, Grows, Growing

\* It takes no token where it accepts.
LEMMA TokenAlone ==
    ASSUME Growth, pushToken
    PROVE  AcceptsAlone'
<1>1. Parsing /\ Due = {} /\ stack' = stack
  BY DEF pushToken
<1>2. StackOK(heap, stack)
  BY <1>1, ParsingStack
<1>3. ASSUME 1 \in Complete(Items) PROVE FALSE
  <2>1. 1 \in Complete(stack[Len(stack)].items)
    BY <1>3 DEF Items, Last
  <2>2. Shiftable(stack[Len(stack)].items) = {}
    BY <1>2, <2>1, AcceptAlone
  <2>3. Shiftable(Items) = {}
    BY <2>2 DEF Items, Last
  <2> QED BY <1>1, <1>3, <2>3 DEF Due
<1>4. Items' = Items
  BY <1>1 DEF Items, Last
<1> QED BY <1>3, <1>4 DEF AcceptsAlone

\* The rule that a state completes is read to its last symbol.
Completes(I, X, q, n) ==
    /\ I \subseteq AllItems /\ X \in NextSymbols(I) /\ q \in Complete(Goto(I, X))
    /\ q \in 1 .. 45 /\ n \in Nat /\ n > 0 /\ n = Len(Rules[q].rhs)
EndsWith(I, X, q, n) == Rules[q].rhs[n] = X /\ <<q, n>> \in Goto(I, X)
LEMMA CompletedBy ==
    ASSUME NEW I, NEW X, NEW q, NEW n, Completes(I, X, q, n)
    PROVE  EndsWith(I, X, q, n)
<1> USE DEF Completes, EndsWith
<1>1. PICK J : J = Goto(I, X)
  OBVIOUS
<1>2. J \subseteq AllItems
  BY <1>1, GotoIs DEF Stated
<1>3. PICK e \in J : ~Unread(e) /\ q = e[1]
  BY <1>1 DEF Complete
<1>4. e[2] \in Nat /\ e = <<q, e[2]>> /\ e[2] <= n
  <2>1. e \in AllItems
    BY <1>2, <1>3
  <2>2. e[2] \in Nat /\ e = <<e[1], e[2]>> /\ e[2] <= Len(Rules[e[1]].rhs)
    BY <2>1, ItemIs
  <2> QED BY <2>2, <1>3
<1>5. ~(e[2] < n)
  BY <1>3 DEF Unread
<1>6. e[2] = n
  BY <1>4, <1>5
<1>7. Rules[e[1]].rhs[e[2]] = X
  <2>1. e \in Goto(I, X) /\ e[2] > 0
    BY <1>1, <1>3, <1>6
  <2>2. \A i \in Goto(I, X) : i[2] > 0 => Rules[i[1]].rhs[i[2]] = X
    BY GotoIs
  <2> QED BY <2>1, <2>2
<1> QED BY <1>1, <1>3, <1>4, <1>6, <1>7

\* Where a reduction leads.
LEMMA ReducedTop ==
    ASSUME Growth, NEW r, r \in Due, reduce(r)
    PROVE  /\ r \in 2 .. 45 /\ lookahead' = lookahead /\ Rules[r].lhs \in HeadNames
           /\ \E I : I \subseteq AllItems /\ Rules[r].lhs \in NextSymbols(I)
                     /\ Items' = Goto(I, Rules[r].lhs)
<1>1. Grows /\ StackOK(heap, stack)
  BY ParsingStack DEF Due
<1>2. r \in Complete(Items) /\ r \in Complete(stack[Len(stack)].items)
  BY DueComplete DEF Items, Last
<1>3. /\ r # 1 /\ lookahead' = lookahead
      /\ \E p : stack' = Reduced(stack, Base(stack, r), Rules[r].lhs, p)
                /\ Acts(heap, stack, lookahead, r, heap', p)
  BY <1>1, <1>2, ReduceGrows
<1>4. PICK b, X, s : b = Base(stack, r) /\ X = Rules[r].lhs /\ s = stack'
  OBVIOUS
<1>5. r \in 2 .. 45 /\ b \in 1 .. Len(stack) /\ X \in NextSymbols(stack[b].items)
  <2>1. PICK a, K : a = Rules[r].action /\ K = HeldBy(stack, lookahead)
    OBVIOUS
  <2> QED BY <1>1, <1>2, <1>3, <1>4, <2>1, TakenIs DEF Grows
<1>6. PICK p : s = Reduced(stack, b, X, p) /\ Acts(heap, stack, lookahead, r, heap', p)
  BY <1>3, <1>4
<1>7. p \in Nat
  BY <1>1, <1>6, ActNumber DEF Grows
<1>8. ReducedTo(s, stack, b, X, p)
  BY <1>1, <1>5, <1>6, <1>7, ReducedIs
<1>9. s[Len(s)].items = Goto(stack[b].items, X)
  <2>1. PICK k : k = b + 1
    OBVIOUS
  <2>2. Len(s) = k /\ s[k] = [items |-> Goto(stack[b].items, X), ptr |-> p]
    BY <1>8, <2>1 DEF ReducedTo
  <2> QED BY <2>2
<1>10. Items' = Goto(stack[b].items, X)
  BY <1>4, <1>9 DEF Items, Last
<1>11. stack[b].items \subseteq AllItems
  BY <1>1, <1>5, StackFacts
<1>12. X \in HeadNames
  <2>1. r \in 1 .. 45
    BY <1>5
  <2> QED BY <2>1, <1>4, HeadsAre
<1> QED BY <1>3, <1>4, <1>5, <1>10, <1>11, <1>12

\* Nor does it reduce to where it accepts: only the end of the input leads there.
LEMMA ReduceAlone ==
    ASSUME Growth, NEW r, r \in Due, reduce(r)
    PROVE  (1 \notin Complete(Items))'
<1>1. PICK X : X = Rules[r].lhs
  OBVIOUS
<1>2. X \in HeadNames
  BY <1>1, ReducedTop
<1>3. PICK I : I \subseteq AllItems /\ X \in NextSymbols(I) /\ Items' = Goto(I, X)
  BY <1>1, ReducedTop
<1>4. ASSUME 1 \in Complete(Goto(I, X)) PROVE FALSE
  <2>1. PICK q, n : q = 1 /\ n = 2
    OBVIOUS
  <2>2. /\ q \in 1 .. 45 /\ n \in Nat /\ n > 0 /\ n = Len(Rules[q].rhs) /\ Rules[q].rhs[n] = "END"
        /\ q \in Complete(Goto(I, X))
    BY <2>1, <1>4, FirstRule
  <2>3. Rules[q].rhs[n] = X
    <3>1. Completes(I, X, q, n)
      BY <1>3, <2>2 DEF Completes
    <3>2. EndsWith(I, X, q, n)
      BY <3>1, CompletedBy
    <3> QED BY <3>2 DEF EndsWith
  <2>4. X = "END"
    BY <2>2, <2>3
  <2> QED BY <1>2, <2>4 DEF HeadNames
<1> QED BY <1>3, <1>4

-----------------------------------------------------------------------------
\* What main frees: the program, which nothing has freed.
LEMMA ReleaseFrees ==
    ASSUME Growth, Freeing, release
    PROVE  Done'
<1>1. /\ freed' = freed \o destroy(heap, program)
      /\ heap' = heap /\ stack' = stack /\ lookahead' = lookahead /\ status' = status
      /\ ~released
  BY DEF release
<1>2. Replaced' = Replaced
  BY <1>1, SameReplaced
<1>3. PICK C, t : C = 1 .. Len(heap) /\ t = destroy(heap, program)
  OBVIOUS
<1>4. Forest(heap)
  BY GrowthForest
<1>5. CASE stack = <<>>
  <2>1. Clear
    BY <1>1, <1>5 DEF Freeing
  <2>2. program = 0 \/ program \in DOMAIN heap
    BY <1>5 DEF Growth, Root, IsWhole
  <2>3. t \in Seq(C) /\ IsInjective(t)
    <3>1. CASE program = 0
      <4>1. t = <<>>
        BY <3>1, <1>3, <1>4 DEF Forest
      <4>2. t \in Seq(C) /\ DOMAIN t = {}
        BY <4>1
      <4> QED BY <4>2 DEF IsInjective
    <3>2. CASE program \in DOMAIN heap
      BY <3>2, <1>3, <1>4 DEF Forest
    <3> QED BY <2>2, <3>1, <3>2
  <2>4. PICK s : s = freed
    OBVIOUS
  <2>5. /\ s \in Seq(C) /\ IsInjective(s) /\ ToSet(s) \cap ToSet(t) = {}
        /\ ToSet(s) \cup ToSet(t) = DOMAIN heap \ Replaced
    BY <2>1, <2>4, <1>3 DEF Clear
  <2>6. s \o t \in Seq(C) /\ ToSet(s \o t) = ToSet(s) \cup ToSet(t)
    BY <2>3, <2>5, ToSetConcat, ConcatType
  <2>7. IsInjective(s \o t)
    BY <2>3, <2>5, InjectiveConcat
  <2> QED BY <2>4, <2>5, <2>6, <2>7, <1>1, <1>2, <1>3 DEF Done
<1>6. CASE stack # <<>>
  <2>1. freed = <<>>
    BY <1>1, <1>6 DEF Freeing
  <2>2. Growing(heap, stack, lookahead) /\ Published(stack, program)
    BY <1>6 DEF Growth, OnStack, Grows
  <2>3. PICK K : K = HeldBy(stack, lookahead)
    OBVIOUS
  <2>4. K \subseteq Roots(heap) /\ Unowned = Roots(heap) \ K
        /\ \A d \in Unowned : heap[d].tag = "PrimaryKey"
    BY <2>3, <1>6, UnheldAre
  <2>5. program = 0 \/ program \in Roots(heap)
    <3>1. program = 0 \/ program \in K
      BY <2>2, <2>3, RootHeld DEF Root
    <3> QED BY <3>1, <2>4
  <2>6. t \in Seq(C) /\ IsInjective(t) /\ ToSet(t) = Below(heap, {program} \ {0})
    BY <2>5, <1>3, <1>4, TreeOf
  <2>7. freed' = t
    <3>1. PICK e : e = freed
      OBVIOUS
    <3>2. e = <<>>
      BY <3>1, <2>1
    <3>3. e \o t = t
      BY <3>2, <2>6
    <3> QED BY <3>1, <3>3, <1>1, <1>3
  <2>8. ASSUME status = "SUCCEEDED" PROVE ToSet(t) = DOMAIN heap \ Replaced
    <3>1. 1 \in Complete(Items) /\ 1 \in Complete(stack[Len(stack)].items)
      BY <2>8 DEF Growth, Items, Last
    <3>2. lookahead.ptr = 0
      BY <3>1, <1>6 DEF Freeing, AcceptsAlone, NoToken
    <3>3. StackOK(heap, stack)
      BY <2>2 DEF Growing
    <3>4. program # 0 /\ Len(stack) = 3 /\ program = stack[2].ptr /\ stack[3].ptr = 0
      BY <2>2, <3>1, <3>3, AcceptedWhole
    <3>5. stack[1].ptr = 0
      BY <3>3, StackFacts
    <3>6. K = {program}
      <4>1. \A i \in 1 .. 4 : i = 1 \/ i = 2 \/ i = 3 \/ i = 4
        OBVIOUS
      <4>2. /\ PtrAt(stack, lookahead, 1) = 0 /\ PtrAt(stack, lookahead, 2) = program
            /\ PtrAt(stack, lookahead, 3) = 0 /\ PtrAt(stack, lookahead, 4) = 0
        BY <3>2, <3>4, <3>5 DEF PtrAt
      <4>3. K = {PtrAt(stack, lookahead, i) : i \in 1 .. 4} \ {0}
        BY <2>3, <3>4 DEF HeldBy
      <4>4. \A i \in 1 .. 4 : PtrAt(stack, lookahead, i) \in {0, program}
        BY <4>1, <4>2
      <4>5. 2 \in 1 .. 4
        OBVIOUS
      <4> QED BY <4>2, <4>3, <4>4, <4>5, <3>4
    <3>7. PICK U : U = Roots(heap) \ {program}
      OBVIOUS
    <3>8. Replaced = Below(heap, U)
      <4>1. {c \in Unowned : heap[c].tag = "PrimaryKey"} = U
        BY <2>4, <3>6, <3>7
      <4> QED BY <4>1, ReplacedIs
    <3>9. U \cup {program} = Roots(heap) /\ U \cap {program} = {}
      BY <2>4, <3>6, <3>7
    <3>10. DOMAIN heap \ Replaced = Below(heap, {program})
      BY <3>8, <3>9, <1>4, BelowOthers
    <3>11. {program} \ {0} = {program}
      BY <3>4
    <3> QED BY <3>10, <3>11, <2>6
  <2> QED BY <2>6, <2>7, <2>8, <1>1, <1>2, <1>3, <1>6 DEF Done
<1> QED BY <1>5, <1>6

LEMMA InitFreeing == Init => Freeing
<1> SUFFICES ASSUME Init PROVE Freeing
  OBVIOUS
<1>1. freed = <<>> /\ stack # <<>> /\ released = FALSE /\ lookahead = NoToken
  BY DEF Init
<1> QED BY <1>1 DEF Freeing, AcceptsAlone

\* While it parses nothing is freed.
LEMMA StillNone ==
    ASSUME Growth, Freeing, Parsing, stack' # <<>>, UNCHANGED <<freed, released>>, AcceptsAlone'
    PROVE  Freeing'
<1>1. stack # <<>> /\ ~released
  BY ParsingStack DEF Freeing
<1>2. freed' = <<>> /\ ~released'
  BY <1>1 DEF Freeing
<1> QED BY <1>2 DEF Freeing

LEMMA NextFreeing == Growth /\ Freeing /\ [Next]_vars => Freeing'
<1> SUFFICES ASSUME Growth, Freeing, [Next]_vars PROVE Freeing'
  OBVIOUS
<1>0. Growth'
  BY NextGrowth
<1>1. CASE pushToken
  <2>1. Parsing /\ stack' = stack /\ freed' = freed /\ released' = released
    BY <1>1 DEF pushToken
  <2>2. stack' # <<>>
    BY <2>1, ParsingStack
  <2> QED BY <1>1, <2>1, <2>2, TokenAlone, StillNone
<1>2. CASE shift
  <2>1. Parsing /\ lookahead' = NoToken /\ freed' = freed /\ released' = released /\ status' = status
    BY <1>2 DEF shift
  <2>2. stack' # <<>>
    BY <1>0, <2>1 DEF Growth, Parsing
  <2>3. AcceptsAlone'
    BY <2>1 DEF AcceptsAlone, NoToken
  <2> QED BY <2>1, <2>2, <2>3, StillNone
<1>3. CASE accept
  <2>1. Parsing /\ stack' = stack /\ freed' = freed /\ released' = released /\ lookahead' = lookahead
    BY <1>3 DEF accept
  <2>2. stack' # <<>>
    BY <2>1, ParsingStack
  <2>3. AcceptsAlone'
    BY <2>1 DEF AcceptsAlone, Items, Last, Freeing
  <2> QED BY <2>1, <2>2, <2>3, StillNone
<1>4. CASE syntaxError
  <2>1. Parsing /\ stack' = <<>> /\ released' = released
    BY <1>4 DEF syntaxError
  <2>2. stack # <<>> /\ ~released /\ freed = <<>>
    BY <2>1, ParsingStack DEF Freeing
  <2>3. Clear'
    BY <1>4, <2>2, ErrorClears
  <2> QED BY <2>1, <2>2, <2>3 DEF Freeing, AcceptsAlone
<1>5. ASSUME NEW r \in Due, reduce(r) PROVE Freeing'
  <2>1. Parsing
    BY DEF Due
  <2>2. stack' # <<>> /\ AcceptsAlone'
    BY <1>5, ReducePublishes, ReduceAlone DEF AcceptsAlone
  <2>3. freed' = freed /\ released' = released
    <3>1. Grows /\ r \in Complete(Items)
      BY <2>1, ParsingStack, DueComplete
    <3>2. \E g, p : Does(r, g, p)
      BY <1>5, <3>1, ReduceDoes
    <3> QED BY <3>2 DEF Does, Return
  <2> QED BY <2>1, <2>2, <2>3, StillNone
<1>6. CASE UnknownLexemeAction
  <2>1. Parsing /\ stack' = stack /\ freed' = freed /\ released' = released /\ lookahead' = lookahead
    BY <1>6 DEF UnknownLexemeAction
  <2>2. stack' # <<>>
    BY <2>1, ParsingStack
  <2>3. AcceptsAlone'
    BY <2>1 DEF AcceptsAlone, Items, Last, Freeing
  <2> QED BY <2>1, <2>2, <2>3, StillNone
<1>7. CASE release
  <2>1. /\ ~Parsing /\ released' = TRUE
        /\ stack' = stack /\ lookahead' = lookahead /\ status' = status
    BY <1>7 DEF release
  <2>2. Done'
    BY <1>7, ReleaseFrees
  <2>3. AcceptsAlone' /\ ~Parsing'
    BY <2>1 DEF AcceptsAlone, Items, Last, Freeing, Parsing
  <2> QED BY <2>1, <2>2, <2>3 DEF Freeing
<1>8. CASE UNCHANGED vars
  <2>1. UNCHANGED <<heap, stack, lookahead, program, freed, status, released>>
    BY <1>8 DEF vars
  <2>2. Replaced' = Replaced
    BY <2>1, SameReplaced
  <2>3. AcceptsAlone' /\ (Parsing' <=> Parsing)
    BY <2>1 DEF AcceptsAlone, Items, Last, Freeing, Parsing
  <2>4. Done => Done'
    BY <2>1, <2>2 DEF Done
  <2>5. Clear => Clear'
    BY <2>1, <2>2 DEF Clear
  <2> QED BY <2>1, <2>3, <2>4, <2>5 DEF Freeing
<1> QED BY <1>1, <1>2, <1>3, <1>4, <1>5, <1>6, <1>7, <1>8 DEF Next, parse

\* What was freed and what destroyProgram would free are apart, and together they are all
\* cells but the replaced keys; and a parser that can only accept has read the end
\* (BisonGrammar.y:57, EntryPoint.c:69).
THEOREM FreeingHolds == Spec => []Freeing
<1>1. Init => Freeing
  BY InitFreeing
<1>2. Growth /\ Freeing /\ [Next]_vars => Freeing'
  BY NextFreeing
<1> QED BY <1>1, <1>2, GrowthHolds, PTL DEF Spec

LEMMA FreeingOnce == Freeing => FreedOnce
BY DEF Freeing, Done, FreedOnce

\* When main has released the tree no cell was freed twice, and if the parser came to its
\* end none is left but the replaced keys (AbstractSyntaxTree.c:23, EntryPoint.c:69).
THEOREM FreedOnceHolds == Spec => []FreedOnce
BY FreeingHolds, FreeingOnce, PTL

-----------------------------------------------------------------------------
(* What the states of the stack remember                                   *)

\* The symbol that was read last when the i-th state was entered.
Came(st, i) ==
    LET e == CHOOSE e \in st[i].items : e[2] > 0
    IN  Rules[e[1]].rhs[e[2]]
\* An item of the i-th state that waits for a phrase which begins with X.
Kernel(st, i, X, Z, q, k) ==
    /\ k \in Nat /\ k > 0 /\ q \in 1 .. 45 /\ <<q, k>> \in st[i].items
    /\ <<Z, Came(st, i), q, k>> \in NextTo /\ (Z = X \/ <<Z, X>> \in Fronts)

\* The k-th symbol of rule r was read last.
Backs(st, i, r, k) ==
    /\ i - 1 \in 1 .. Len(st) /\ <<r, k - 1>> \in st[i - 1].items
    /\ Came(st, i) = Rules[r].rhs[k]
HasRead(st, i, r, k) == i \in 1 .. Len(st) /\ k \in Nat /\ k > 0 /\ <<r, k>> \in st[i].items
LEMMA Back ==
    ASSUME NEW h, NEW st, StackOK(h, st), NEW i, NEW r, NEW k, HasRead(st, i, r, k)
    PROVE  Backs(st, i, r, k)
<1>0. i \in 1 .. Len(st) /\ k \in Nat /\ k > 0 /\ <<r, k>> \in st[i].items
  BY DEF HasRead
<1>1. PICK e : e = <<r, k>>
  OBVIOUS
<1>2. e \in st[i].items /\ e[1] = r /\ e[2] = k /\ e[2] > 0
  BY <1>0, <1>1
<1>3. i \in 2 .. Len(st) /\ i - 1 \in 1 .. Len(st) /\ <<e[1], e[2] - 1>> \in st[i - 1].items
  BY <1>0, <1>2, ReadOne
<1>4. PICK Y : ReadBy(h, st, i, Y)
  BY <1>3, StateRead
<1>5. \A d \in st[i].items : d[2] > 0 => Rules[d[1]].rhs[d[2]] = Y
  BY <1>4 DEF ReadBy
<1>6. PICK d : d = CHOOSE c \in st[i].items : c[2] > 0
  OBVIOUS
<1>7. d \in st[i].items /\ d[2] > 0
  BY <1>2, <1>6
<1>8. Came(st, i) = Rules[d[1]].rhs[d[2]]
  BY <1>6 DEF Came
<1>9. Came(st, i) = Y
  BY <1>5, <1>7, <1>8
<1>10. Rules[e[1]].rhs[e[2]] = Y
  BY <1>2, <1>5
<1> QED BY <1>2, <1>3, <1>9, <1>10 DEF Backs

LEMMA StartHeads ==
    ASSUME NEW r \in 1 .. 45, <<r, 0>> \in Start
    PROVE  Rules[r].lhs \in {"accept", "program", "schema_decl"}
<1>1. PICK j : j = <<1, 0>>
  OBVIOUS
<1>2. Start = Closed({j})
  BY <1>1 DEF Start
<1>3. j[1] = 1 /\ j[2] = 0 /\ {j} \subseteq AllItems
  BY <1>1, StartIs
<1>4. PICK i : i = <<r, 0>>
  OBVIOUS
<1>5. i \in {j} \/ \E q \in 1 .. 45 : i = <<q, 0>> /\ \E d \in {j} : Awaits(d, Rules[q].lhs)
  BY <1>2, <1>3, <1>4, ClosedIs
<1>6. CASE i = j
  <2>1. r = 1
    BY <1>1, <1>4, <1>6
  <2>2. Rules[1].lhs = "accept"
    BY DEF Rules, R
  <2> QED BY <2>1, <2>2
<1>7. CASE i # j
  <2>1. Awaits(j, Rules[r].lhs)
    <3>1. PICK q \in 1 .. 45 : i = <<q, 0>> /\ Awaits(j, Rules[q].lhs)
      BY <1>5, <1>7
    <3>2. q = r
      BY <3>1, <1>4
    <3> QED BY <3>1, <3>2
  <2>2. NextSymbol(j) = "program"
    BY <1>3, FirstRule DEF NextSymbol
  <2>3. PICK X : X = Rules[r].lhs
    OBVIOUS
  <2>4. X = "program" \/ <<"program", X>> \in Fronts
    BY <2>1, <2>2, <2>3 DEF Awaits
  <2>5. X \in {"program", "schema_decl"}
    BY <2>4 DEF Fronts
  <2> QED BY <2>3, <2>5
<1> QED BY <1>6, <1>7

\* A rule is begun where an item waits for its head.
LEMMA BegunHere ==
    ASSUME NEW h, NEW st, StackOK(h, st), NEW i \in 1 .. Len(st), NEW r \in 1 .. 45,
           <<r, 0>> \in st[i].items, NEW X, X = Rules[r].lhs,
           X \notin {"accept", "program", "schema_decl"}
    PROVE  \E Z, q, k : Kernel(st, i, X, Z, q, k)
<1>1. i \in 2 .. Len(st)
  <2>1. i # 1
    BY StackFacts, StartHeads
  <2> QED BY <2>1
<1>2. PICK J : J = st[i].items
  OBVIOUS
<1>3. Stated(J) /\ J \subseteq AllItems
  BY <1>1, <1>2, StackFacts DEF Stated
<1>4. PICK e \in J : e[2] > 0 /\ Awaits(e, X)
  BY <1>2, <1>3 DEF Stated
<1>5. PICK q, k, Z : q = e[1] /\ k = e[2] /\ Z = NextSymbol(e)
  OBVIOUS
<1>6. /\ q \in 1 .. 45 /\ k \in Nat /\ k > 0 /\ e = <<q, k>> /\ k + 1 \in 1 .. Len(Rules[q].rhs)
      /\ Z \in Heads /\ (Z = X \/ <<Z, X>> \in Fronts) /\ Z = Rules[q].rhs[k + 1]
  BY <1>3, <1>4, <1>5, ItemIs DEF Awaits, NextSymbol
<1>7. Came(st, i) = Rules[q].rhs[k]
  <2>1. HasRead(st, i, q, k)
    BY <1>2, <1>6 DEF HasRead
  <2>2. Backs(st, i, q, k)
    BY <2>1, Back
  <2> QED BY <2>2 DEF Backs
<1>8. k \in 1 .. Len(Rules[q].rhs) /\ k < Len(Rules[q].rhs)
  <2>1. Len(Rules[q].rhs) \in Nat
    BY <1>6, RhsLong
  <2> QED BY <2>1, <1>6
<1>9. RhsFacts(q, k)
  BY <1>6, <1>8, RhsKnown
<1>10. Z \in HeadNames
  BY <1>6, HeadsAre
<1>11. <<Z, Came(st, i), q, k>> \in NextTo
  BY <1>6, <1>7, <1>8, <1>9, <1>10 DEF RhsFacts
<1> QED BY <1>2, <1>6, <1>11 DEF Kernel

\* What was read where a rule for X is begun.
Waits ==
    [schema_body |-> {<<"IDENTIFIER", 3, 2>>},
     entity_decl |-> {<<"schema_body", 5, 1>>},
     entity_body |-> {<<"OPEN_BRACE", 7, 3>>, <<"OPEN_BRACE", 8, 5>>, <<"OPEN_BRACE", 9, 4>>, <<"OPEN_BRACE", 10, 6>>},
     modifier_list |-> {<<"type_spec", 15, 3>>},
     qualified_identifier |-> {<<"OPEN_PAREN", 21, 2>>, <<"COMMA", 23, 2>>},
     qualified_identifier_list |-> {<<"OPEN_PAREN", 21, 2>>},
     relationship_body |-> {<<"CLOSE_PAREN", 27, 5>>},
     relationship_participant |-> {<<"OPEN_PAREN", 27, 3>>, <<"COMMA", 29, 2>>},
     relationship_participant_list |-> {<<"OPEN_PAREN", 27, 3>>},
     participation_opt |-> {<<"IDENTIFIER", 30, 1>>, <<"TOK_ONE", 31, 2>>},
     attribute_list |-> {<<"OPEN_BRACE", 35, 1>>},
     expression |-> {<<"ASSERT", 26, 1>>, <<"OP_MUL", 43, 2>>}]

LEMMA WaitsAre ==
    ASSUME NEW X, NEW Z, NEW Y, NEW q, NEW k, <<Z, Y, q, k>> \in NextTo, Z = X \/ <<Z, X>> \in Fronts
    PROVE  X \in DOMAIN Waits => <<Y, q, k>> \in Waits[X]
<1>1. DOMAIN Waits = {"schema_body", "entity_decl", "entity_body", "modifier_list", "qualified_identifier", "qualified_identifier_list", "relationship_body", "relationship_participant", "relationship_participant_list", "participation_opt", "attribute_list", "expression"}
  BY DEF Waits
<1>2. CASE X = "schema_body"
  <2>1. Waits[X] = {<<"IDENTIFIER", 3, 2>>}
    BY <1>2 DEF Waits
  <2>2. Z \in {"schema_body"}
    BY <1>2 DEF Fronts
  <2>3. <<Y, q, k>> \in {<<"IDENTIFIER", 3, 2>>}
    BY <2>2 DEF NextTo
  <2> QED BY <2>1, <2>3
<1>3. CASE X = "entity_decl"
  <2>1. Waits[X] = {<<"schema_body", 5, 1>>}
    BY <1>3 DEF Waits
  <2>2. Z \in {"entity_decl"}
    BY <1>3 DEF Fronts
  <2>3. <<Y, q, k>> \in {<<"schema_body", 5, 1>>}
    BY <2>2 DEF NextTo
  <2> QED BY <2>1, <2>3
<1>4. CASE X = "entity_body"
  <2>1. Waits[X] = {<<"OPEN_BRACE", 7, 3>>, <<"OPEN_BRACE", 8, 5>>, <<"OPEN_BRACE", 9, 4>>, <<"OPEN_BRACE", 10, 6>>}
    BY <1>4 DEF Waits
  <2>2. Z \in {"entity_body"}
    BY <1>4 DEF Fronts
  <2>3. <<Y, q, k>> \in {<<"OPEN_BRACE", 7, 3>>, <<"OPEN_BRACE", 8, 5>>, <<"OPEN_BRACE", 9, 4>>, <<"OPEN_BRACE", 10, 6>>}
    BY <2>2 DEF NextTo
  <2> QED BY <2>1, <2>3
<1>5. CASE X = "modifier_list"
  <2>1. Waits[X] = {<<"type_spec", 15, 3>>}
    BY <1>5 DEF Waits
  <2>2. Z \in {"modifier_list"}
    BY <1>5 DEF Fronts
  <2>3. <<Y, q, k>> \in {<<"type_spec", 15, 3>>}
    BY <2>2 DEF NextTo
  <2> QED BY <2>1, <2>3
<1>6. CASE X = "qualified_identifier"
  <2>1. Waits[X] = {<<"OPEN_PAREN", 21, 2>>, <<"COMMA", 23, 2>>}
    BY <1>6 DEF Waits
  <2>2. Z \in {"qualified_identifier", "qualified_identifier_list"}
    BY <1>6 DEF Fronts
  <2>3. <<Y, q, k>> \in {<<"OPEN_PAREN", 21, 2>>, <<"COMMA", 23, 2>>}
    BY <2>2 DEF NextTo
  <2> QED BY <2>1, <2>3
<1>7. CASE X = "qualified_identifier_list"
  <2>1. Waits[X] = {<<"OPEN_PAREN", 21, 2>>}
    BY <1>7 DEF Waits
  <2>2. Z \in {"qualified_identifier_list"}
    BY <1>7 DEF Fronts
  <2>3. <<Y, q, k>> \in {<<"OPEN_PAREN", 21, 2>>}
    BY <2>2 DEF NextTo
  <2> QED BY <2>1, <2>3
<1>8. CASE X = "relationship_body"
  <2>1. Waits[X] = {<<"CLOSE_PAREN", 27, 5>>}
    BY <1>8 DEF Waits
  <2>2. Z \in {"relationship_body"}
    BY <1>8 DEF Fronts
  <2>3. <<Y, q, k>> \in {<<"CLOSE_PAREN", 27, 5>>}
    BY <2>2 DEF NextTo
  <2> QED BY <2>1, <2>3
<1>9. CASE X = "relationship_participant"
  <2>1. Waits[X] = {<<"OPEN_PAREN", 27, 3>>, <<"COMMA", 29, 2>>}
    BY <1>9 DEF Waits
  <2>2. Z \in {"relationship_participant", "relationship_participant_list"}
    BY <1>9 DEF Fronts
  <2>3. <<Y, q, k>> \in {<<"OPEN_PAREN", 27, 3>>, <<"COMMA", 29, 2>>}
    BY <2>2 DEF NextTo
  <2> QED BY <2>1, <2>3
<1>10. CASE X = "relationship_participant_list"
  <2>1. Waits[X] = {<<"OPEN_PAREN", 27, 3>>}
    BY <1>10 DEF Waits
  <2>2. Z \in {"relationship_participant_list"}
    BY <1>10 DEF Fronts
  <2>3. <<Y, q, k>> \in {<<"OPEN_PAREN", 27, 3>>}
    BY <2>2 DEF NextTo
  <2> QED BY <2>1, <2>3
<1>11. CASE X = "participation_opt"
  <2>1. Waits[X] = {<<"IDENTIFIER", 30, 1>>, <<"TOK_ONE", 31, 2>>}
    BY <1>11 DEF Waits
  <2>2. Z \in {"participation_opt"}
    BY <1>11 DEF Fronts
  <2>3. <<Y, q, k>> \in {<<"IDENTIFIER", 30, 1>>, <<"TOK_ONE", 31, 2>>}
    BY <2>2 DEF NextTo
  <2> QED BY <2>1, <2>3
<1>12. CASE X = "attribute_list"
  <2>1. Waits[X] = {<<"OPEN_BRACE", 35, 1>>}
    BY <1>12 DEF Waits
  <2>2. Z \in {"attribute_list"}
    BY <1>12 DEF Fronts
  <2>3. <<Y, q, k>> \in {<<"OPEN_BRACE", 35, 1>>}
    BY <2>2 DEF NextTo
  <2> QED BY <2>1, <2>3
<1>13. CASE X = "expression"
  <2>1. Waits[X] = {<<"ASSERT", 26, 1>>, <<"OP_MUL", 43, 2>>}
    BY <1>13 DEF Waits
  <2>2. Z \in {"expression"}
    BY <1>13 DEF Fronts
  <2>3. <<Y, q, k>> \in {<<"ASSERT", 26, 1>>, <<"OP_MUL", 43, 2>>}
    BY <2>2 DEF NextTo
  <2> QED BY <2>1, <2>3
<1> QED BY <1>1, <1>2, <1>3, <1>4, <1>5, <1>6, <1>7, <1>8, <1>9, <1>10, <1>11, <1>12, <1>13

\* The same, of a rule that is begun in the i-th state.
LEMMA WaitsHere ==
    ASSUME NEW h, NEW st, StackOK(h, st), NEW i \in 1 .. Len(st), NEW r \in 1 .. 45,
           <<r, 0>> \in st[i].items, NEW X, X = Rules[r].lhs, X \in DOMAIN Waits
    PROVE  \E t \in Waits[X] : t[1] = Came(st, i) /\ <<t[2], t[3]>> \in st[i].items
<1>1. X \notin {"accept", "program", "schema_decl"}
  BY DEF Waits
<1>2. PICK Z, q, k : Kernel(st, i, X, Z, q, k)
  BY <1>1, BegunHere
<1>3. PICK Y : Y = Came(st, i)
  OBVIOUS
<1>4. <<q, k>> \in st[i].items /\ <<Z, Y, q, k>> \in NextTo /\ (Z = X \/ <<Z, X>> \in Fronts)
  BY <1>2, <1>3 DEF Kernel
<1>5. <<Y, q, k>> \in Waits[X]
  BY <1>4, WaitsAre
<1>6. PICK t : t = <<Y, q, k>>
  OBVIOUS
<1>7. t \in Waits[X] /\ t[1] = Y /\ t[2] = q /\ t[3] = k
  BY <1>5, <1>6
<1> QED BY <1>3, <1>4, <1>7

-----------------------------------------------------------------------------
(* What is read before a rule is complete                                  *)

\* The rules that the last symbol tells, and the others with the last two.
Lone == {<<1, "END">>, <<2, "schema_decl">>, <<3, "schema_body">>, <<5, "entity_decl">>,
         <<6, "relationship_decl">>, <<11, "OPEN_BRACE">>, <<13, "primary_decl">>,
         <<14, "assert_decl">>, <<15, "modifier_list">>, <<16, "type_spec">>, <<17, "modifier">>,
         <<18, "MODIFIER">>, <<19, "NULL_TOK">>, <<27, "relationship_body">>, <<32, "TOK_ONE">>,
         <<33, "TOTAL">>, <<38, "ENUM">>, <<39, "TYPE">>, <<40, "CLOSE_BRACKET">>,
         <<44, "LIT_INTEGER">>, <<45, "LIT_STRING">>}
Contexts == {<<4, "IDENTIFIER", "SCHEMA">>, <<7, "CLOSE_BRACE", "entity_body">>,
             <<8, "CLOSE_BRACE", "entity_body">>, <<9, "CLOSE_BRACE", "entity_body">>,
             <<10, "CLOSE_BRACE", "entity_body">>, <<12, "attribute_decl", "entity_body">>,
             <<20, "literal", "DEFAULT">>, <<21, "CLOSE_PAREN", "qualified_identifier_list">>,
             <<22, "qualified_identifier", "OPEN_PAREN">>,
             <<23, "qualified_identifier", "COMMA">>, <<24, "IDENTIFIER", "COMMA">>,
             <<24, "IDENTIFIER", "OPEN_PAREN">>, <<25, "IDENTIFIER", "COLON">>,
             <<26, "expression", "ASSERT">>, <<28, "relationship_participant", "OPEN_PAREN">>,
             <<29, "relationship_participant", "COMMA">>,
             <<30, "participation_opt", "IDENTIFIER">>, <<31, "participation_opt", "TOK_ONE">>,
             <<32, "IDENTIFIER", "COMMA">>, <<32, "IDENTIFIER", "OPEN_PAREN">>,
             <<34, "CLOSE_PAREN", "relationship_participant_list">>,
             <<35, "CLOSE_BRACE", "attribute_list">>, <<36, "attribute_decl", "OPEN_BRACE">>,
             <<37, "attribute_decl", "attribute_list">>, <<41, "literal", "ASSERT">>,
             <<41, "literal", "OP_MUL">>, <<42, "IDENTIFIER", "ASSERT">>,
             <<42, "IDENTIFIER", "OP_MUL">>, <<43, "expression", "OP_MUL">>}
InContext(r, Y, Z) == <<r, Y>> \in Lone \/ <<r, Y, Z>> \in Contexts

LEMMA LhsAre ==
    /\ Rules[4].lhs = "schema_body"
    /\ Rules[7].lhs = "entity_decl"
    /\ Rules[8].lhs = "entity_decl"
    /\ Rules[9].lhs = "entity_decl"
    /\ Rules[10].lhs = "entity_decl"
    /\ Rules[11].lhs = "entity_body"
    /\ Rules[16].lhs = "modifier_list"
    /\ Rules[22].lhs = "qualified_identifier_list"
    /\ Rules[24].lhs = "qualified_identifier"
    /\ Rules[28].lhs = "relationship_participant_list"
    /\ Rules[30].lhs = "relationship_participant"
    /\ Rules[32].lhs = "participation_opt"
    /\ Rules[34].lhs = "relationship_body"
    /\ Rules[36].lhs = "attribute_list"
    /\ Rules[41].lhs = "expression"
    /\ Rules[42].lhs = "expression"
BY DEF Rules, R

LEMMA CompleteRead ==
    ASSUME NEW h, NEW st, StackOK(h, st), NEW i \in 1 .. Len(st), NEW r, r \in Complete(st[i].items)
    PROVE  r \in 1 .. 45 /\ <<r, Len(Rules[r].rhs)>> \in st[i].items
<1>1. st[i].items \subseteq AllItems
  BY StackFacts
<1>2. PICK e \in st[i].items : ~Unread(e) /\ r = e[1]
  BY DEF Complete
<1>3. PICK n : n = Len(Rules[r].rhs)
  OBVIOUS
<1>4. r \in 1 .. 45 /\ e[2] \in Nat /\ e = <<r, e[2]>> /\ e[2] <= n
  BY <1>1, <1>2, <1>3, ItemIs
<1>5. ~(e[2] < n) /\ n \in Nat
  BY <1>2, <1>3, <1>4, RhsLong DEF Unread
<1>6. e[2] = n
  BY <1>4, <1>5
<1> QED BY <1>3, <1>4, <1>6

LEMMA ContextKnown ==
    ASSUME NEW h, NEW st, StackOK(h, st), NEW i \in 1 .. Len(st), NEW r, r \in Complete(st[i].items)
    PROVE  InContext(r, Came(st, i), Came(st, i - 1))
<1>0. r \in 1 .. 45 /\ <<r, Len(Rules[r].rhs)>> \in st[i].items
  BY CompleteRead
<1> DEFINE Y == Came(st, i)
           Z == Came(st, i - 1)
<1> HIDE DEF Y, Z
<1>1. CASE r = 1
  <2>1. PICK rhs : rhs = <<"program", "END">>
    OBVIOUS
  <2>2. Rules[r].rhs = rhs
    BY <1>1, <2>1, RhsAre
  <2>3. Len(rhs) = 2 /\ rhs[2] = "END" /\ rhs[1] = "program"
    BY <2>1
  <2>4. HasRead(st, i, r, 2)
    BY <1>0, <2>2, <2>3 DEF HasRead
  <2>5. Backs(st, i, r, 2)
    BY <2>4, Back
  <2>6. Y = "END" /\ i - 1 \in 1 .. Len(st) /\ <<r, 1>> \in st[i - 1].items
    BY <2>2, <2>3, <2>5 DEF Backs, Y
  <2> QED BY <1>1, <2>6 DEF InContext, Lone, Y
<1>2. CASE r = 2
  <2>1. PICK rhs : rhs = <<"schema_decl">>
    OBVIOUS
  <2>2. Rules[r].rhs = rhs
    BY <1>2, <2>1, RhsAre
  <2>3. Len(rhs) = 1 /\ rhs[1] = "schema_decl"
    BY <2>1
  <2>4. HasRead(st, i, r, 1)
    BY <1>0, <2>2, <2>3 DEF HasRead
  <2>5. Backs(st, i, r, 1)
    BY <2>4, Back
  <2>6. Y = "schema_decl" /\ i - 1 \in 1 .. Len(st) /\ <<r, 0>> \in st[i - 1].items
    BY <2>2, <2>3, <2>5 DEF Backs, Y
  <2> QED BY <1>2, <2>6 DEF InContext, Lone, Y
<1>3. CASE r = 3
  <2>1. PICK rhs : rhs = <<"SCHEMA", "IDENTIFIER", "schema_body">>
    OBVIOUS
  <2>2. Rules[r].rhs = rhs
    BY <1>3, <2>1, RhsAre
  <2>3. Len(rhs) = 3 /\ rhs[3] = "schema_body" /\ rhs[2] = "IDENTIFIER"
    BY <2>1
  <2>4. HasRead(st, i, r, 3)
    BY <1>0, <2>2, <2>3 DEF HasRead
  <2>5. Backs(st, i, r, 3)
    BY <2>4, Back
  <2>6. Y = "schema_body" /\ i - 1 \in 1 .. Len(st) /\ <<r, 2>> \in st[i - 1].items
    BY <2>2, <2>3, <2>5 DEF Backs, Y
  <2> QED BY <1>3, <2>6 DEF InContext, Lone, Y
<1>4. CASE r = 4
  <2>1. PICK rhs : rhs = <<>>
    OBVIOUS
  <2>2. Rules[r].rhs = rhs
    BY <1>4, <2>1, RhsAre
  <2>3. Len(rhs) = 0
    BY <2>1
  <2>4. PICK X : X = Rules[r].lhs
    OBVIOUS
  <2>5. X = "schema_body" /\ X \in DOMAIN Waits /\ <<r, 0>> \in st[i].items
    BY <1>0, <1>4, <2>2, <2>3, <2>4, LhsAre DEF Waits
  <2>6. PICK t \in Waits[X] : t[1] = Y /\ <<t[2], t[3]>> \in st[i].items
    BY <1>0, <2>4, <2>5, WaitsHere DEF Y
  <2>7. t[1] = "IDENTIFIER" /\ t[2] = 3 /\ t[3] = 2
    BY <2>5, <2>6 DEF Waits
  <2>8. HasRead(st, i, 3, 2)
    BY <2>6, <2>7 DEF HasRead
  <2>9. Backs(st, i, 3, 2)
    BY <2>8, Back
  <2>10. HasRead(st, i - 1, 3, 1)
    BY <2>9 DEF Backs, HasRead
  <2>11. Backs(st, i - 1, 3, 1)
    BY <2>10, Back
  <2>12. Rules[3].rhs[1] = "SCHEMA"
    BY RhsAre
  <2>13. Z = "SCHEMA"
    BY <2>11, <2>12 DEF Backs, Z
  <2> QED BY <1>4, <2>6, <2>7, <2>13 DEF InContext, Contexts, Y, Z
<1>5. CASE r = 5
  <2>1. PICK rhs : rhs = <<"schema_body", "entity_decl">>
    OBVIOUS
  <2>2. Rules[r].rhs = rhs
    BY <1>5, <2>1, RhsAre
  <2>3. Len(rhs) = 2 /\ rhs[2] = "entity_decl" /\ rhs[1] = "schema_body"
    BY <2>1
  <2>4. HasRead(st, i, r, 2)
    BY <1>0, <2>2, <2>3 DEF HasRead
  <2>5. Backs(st, i, r, 2)
    BY <2>4, Back
  <2>6. Y = "entity_decl" /\ i - 1 \in 1 .. Len(st) /\ <<r, 1>> \in st[i - 1].items
    BY <2>2, <2>3, <2>5 DEF Backs, Y
  <2> QED BY <1>5, <2>6 DEF InContext, Lone, Y
<1>6. CASE r = 6
  <2>1. PICK rhs : rhs = <<"schema_body", "relationship_decl">>
    OBVIOUS
  <2>2. Rules[r].rhs = rhs
    BY <1>6, <2>1, RhsAre
  <2>3. Len(rhs) = 2 /\ rhs[2] = "relationship_decl" /\ rhs[1] = "schema_body"
    BY <2>1
  <2>4. HasRead(st, i, r, 2)
    BY <1>0, <2>2, <2>3 DEF HasRead
  <2>5. Backs(st, i, r, 2)
    BY <2>4, Back
  <2>6. Y = "relationship_decl" /\ i - 1 \in 1 .. Len(st) /\ <<r, 1>> \in st[i - 1].items
    BY <2>2, <2>3, <2>5 DEF Backs, Y
  <2> QED BY <1>6, <2>6 DEF InContext, Lone, Y
<1>7. CASE r = 7
  <2>1. PICK rhs : rhs = <<"ENTITY", "IDENTIFIER", "OPEN_BRACE", "entity_body", "CLOSE_BRACE">>
    OBVIOUS
  <2>2. Rules[r].rhs = rhs
    BY <1>7, <2>1, RhsAre
  <2>3. Len(rhs) = 5 /\ rhs[5] = "CLOSE_BRACE" /\ rhs[4] = "entity_body"
    BY <2>1
  <2>4. HasRead(st, i, r, 5)
    BY <1>0, <2>2, <2>3 DEF HasRead
  <2>5. Backs(st, i, r, 5)
    BY <2>4, Back
  <2>6. Y = "CLOSE_BRACE" /\ i - 1 \in 1 .. Len(st) /\ <<r, 4>> \in st[i - 1].items
    BY <2>2, <2>3, <2>5 DEF Backs, Y
  <2>7. HasRead(st, i - 1, r, 4)
    BY <2>6 DEF HasRead
  <2>8. Backs(st, i - 1, r, 4)
    BY <2>7, Back
  <2>9. Z = "entity_body"
    BY <2>2, <2>3, <2>8 DEF Backs, Z
  <2> QED BY <1>7, <2>6, <2>9 DEF InContext, Contexts, Y, Z
<1>8. CASE r = 8
  <2>1. PICK rhs : rhs = <<"ENTITY", "IDENTIFIER", "COLON", "IDENTIFIER", "OPEN_BRACE", "entity_body", "CLOSE_BRACE">>
    OBVIOUS
  <2>2. Rules[r].rhs = rhs
    BY <1>8, <2>1, RhsAre
  <2>3. Len(rhs) = 7 /\ rhs[7] = "CLOSE_BRACE" /\ rhs[6] = "entity_body"
    BY <2>1
  <2>4. HasRead(st, i, r, 7)
    BY <1>0, <2>2, <2>3 DEF HasRead
  <2>5. Backs(st, i, r, 7)
    BY <2>4, Back
  <2>6. Y = "CLOSE_BRACE" /\ i - 1 \in 1 .. Len(st) /\ <<r, 6>> \in st[i - 1].items
    BY <2>2, <2>3, <2>5 DEF Backs, Y
  <2>7. HasRead(st, i - 1, r, 6)
    BY <2>6 DEF HasRead
  <2>8. Backs(st, i - 1, r, 6)
    BY <2>7, Back
  <2>9. Z = "entity_body"
    BY <2>2, <2>3, <2>8 DEF Backs, Z
  <2> QED BY <1>8, <2>6, <2>9 DEF InContext, Contexts, Y, Z
<1>9. CASE r = 9
  <2>1. PICK rhs : rhs = <<"WEAK", "ENTITY", "IDENTIFIER", "OPEN_BRACE", "entity_body", "CLOSE_BRACE">>
    OBVIOUS
  <2>2. Rules[r].rhs = rhs
    BY <1>9, <2>1, RhsAre
  <2>3. Len(rhs) = 6 /\ rhs[6] = "CLOSE_BRACE" /\ rhs[5] = "entity_body"
    BY <2>1
  <2>4. HasRead(st, i, r, 6)
    BY <1>0, <2>2, <2>3 DEF HasRead
  <2>5. Backs(st, i, r, 6)
    BY <2>4, Back
  <2>6. Y = "CLOSE_BRACE" /\ i - 1 \in 1 .. Len(st) /\ <<r, 5>> \in st[i - 1].items
    BY <2>2, <2>3, <2>5 DEF Backs, Y
  <2>7. HasRead(st, i - 1, r, 5)
    BY <2>6 DEF HasRead
  <2>8. Backs(st, i - 1, r, 5)
    BY <2>7, Back
  <2>9. Z = "entity_body"
    BY <2>2, <2>3, <2>8 DEF Backs, Z
  <2> QED BY <1>9, <2>6, <2>9 DEF InContext, Contexts, Y, Z
<1>10. CASE r = 10
  <2>1. PICK rhs : rhs = <<"WEAK", "ENTITY", "IDENTIFIER", "COLON", "IDENTIFIER", "OPEN_BRACE", "entity_body", "CLOSE_BRACE">>
    OBVIOUS
  <2>2. Rules[r].rhs = rhs
    BY <1>10, <2>1, RhsAre
  <2>3. Len(rhs) = 8 /\ rhs[8] = "CLOSE_BRACE" /\ rhs[7] = "entity_body"
    BY <2>1
  <2>4. HasRead(st, i, r, 8)
    BY <1>0, <2>2, <2>3 DEF HasRead
  <2>5. Backs(st, i, r, 8)
    BY <2>4, Back
  <2>6. Y = "CLOSE_BRACE" /\ i - 1 \in 1 .. Len(st) /\ <<r, 7>> \in st[i - 1].items
    BY <2>2, <2>3, <2>5 DEF Backs, Y
  <2>7. HasRead(st, i - 1, r, 7)
    BY <2>6 DEF HasRead
  <2>8. Backs(st, i - 1, r, 7)
    BY <2>7, Back
  <2>9. Z = "entity_body"
    BY <2>2, <2>3, <2>8 DEF Backs, Z
  <2> QED BY <1>10, <2>6, <2>9 DEF InContext, Contexts, Y, Z
<1>11. CASE r = 11
  <2>1. PICK rhs : rhs = <<>>
    OBVIOUS
  <2>2. Rules[r].rhs = rhs
    BY <1>11, <2>1, RhsAre
  <2>3. Len(rhs) = 0
    BY <2>1
  <2>4. PICK X : X = Rules[r].lhs
    OBVIOUS
  <2>5. X = "entity_body" /\ X \in DOMAIN Waits /\ <<r, 0>> \in st[i].items
    BY <1>0, <1>11, <2>2, <2>3, <2>4, LhsAre DEF Waits
  <2>6. PICK t \in Waits[X] : t[1] = Y /\ <<t[2], t[3]>> \in st[i].items
    BY <1>0, <2>4, <2>5, WaitsHere DEF Y
  <2>7. t[1] = "OPEN_BRACE"
    BY <2>5, <2>6 DEF Waits
  <2> QED BY <1>11, <2>6, <2>7 DEF InContext, Lone, Y
<1>12. CASE r = 12
  <2>1. PICK rhs : rhs = <<"entity_body", "attribute_decl">>
    OBVIOUS
  <2>2. Rules[r].rhs = rhs
    BY <1>12, <2>1, RhsAre
  <2>3. Len(rhs) = 2 /\ rhs[2] = "attribute_decl" /\ rhs[1] = "entity_body"
    BY <2>1
  <2>4. HasRead(st, i, r, 2)
    BY <1>0, <2>2, <2>3 DEF HasRead
  <2>5. Backs(st, i, r, 2)
    BY <2>4, Back
  <2>6. Y = "attribute_decl" /\ i - 1 \in 1 .. Len(st) /\ <<r, 1>> \in st[i - 1].items
    BY <2>2, <2>3, <2>5 DEF Backs, Y
  <2>7. HasRead(st, i - 1, r, 1)
    BY <2>6 DEF HasRead
  <2>8. Backs(st, i - 1, r, 1)
    BY <2>7, Back
  <2>9. Z = "entity_body"
    BY <2>2, <2>3, <2>8 DEF Backs, Z
  <2> QED BY <1>12, <2>6, <2>9 DEF InContext, Contexts, Y, Z
<1>13. CASE r = 13
  <2>1. PICK rhs : rhs = <<"entity_body", "primary_decl">>
    OBVIOUS
  <2>2. Rules[r].rhs = rhs
    BY <1>13, <2>1, RhsAre
  <2>3. Len(rhs) = 2 /\ rhs[2] = "primary_decl" /\ rhs[1] = "entity_body"
    BY <2>1
  <2>4. HasRead(st, i, r, 2)
    BY <1>0, <2>2, <2>3 DEF HasRead
  <2>5. Backs(st, i, r, 2)
    BY <2>4, Back
  <2>6. Y = "primary_decl" /\ i - 1 \in 1 .. Len(st) /\ <<r, 1>> \in st[i - 1].items
    BY <2>2, <2>3, <2>5 DEF Backs, Y
  <2> QED BY <1>13, <2>6 DEF InContext, Lone, Y
<1>14. CASE r = 14
  <2>1. PICK rhs : rhs = <<"entity_body", "assert_decl">>
    OBVIOUS
  <2>2. Rules[r].rhs = rhs
    BY <1>14, <2>1, RhsAre
  <2>3. Len(rhs) = 2 /\ rhs[2] = "assert_decl" /\ rhs[1] = "entity_body"
    BY <2>1
  <2>4. HasRead(st, i, r, 2)
    BY <1>0, <2>2, <2>3 DEF HasRead
  <2>5. Backs(st, i, r, 2)
    BY <2>4, Back
  <2>6. Y = "assert_decl" /\ i - 1 \in 1 .. Len(st) /\ <<r, 1>> \in st[i - 1].items
    BY <2>2, <2>3, <2>5 DEF Backs, Y
  <2> QED BY <1>14, <2>6 DEF InContext, Lone, Y
<1>15. CASE r = 15
  <2>1. PICK rhs : rhs = <<"IDENTIFIER", "COLON", "type_spec", "modifier_list">>
    OBVIOUS
  <2>2. Rules[r].rhs = rhs
    BY <1>15, <2>1, RhsAre
  <2>3. Len(rhs) = 4 /\ rhs[4] = "modifier_list" /\ rhs[3] = "type_spec"
    BY <2>1
  <2>4. HasRead(st, i, r, 4)
    BY <1>0, <2>2, <2>3 DEF HasRead
  <2>5. Backs(st, i, r, 4)
    BY <2>4, Back
  <2>6. Y = "modifier_list" /\ i - 1 \in 1 .. Len(st) /\ <<r, 3>> \in st[i - 1].items
    BY <2>2, <2>3, <2>5 DEF Backs, Y
  <2> QED BY <1>15, <2>6 DEF InContext, Lone, Y
<1>16. CASE r = 16
  <2>1. PICK rhs : rhs = <<>>
    OBVIOUS
  <2>2. Rules[r].rhs = rhs
    BY <1>16, <2>1, RhsAre
  <2>3. Len(rhs) = 0
    BY <2>1
  <2>4. PICK X : X = Rules[r].lhs
    OBVIOUS
  <2>5. X = "modifier_list" /\ X \in DOMAIN Waits /\ <<r, 0>> \in st[i].items
    BY <1>0, <1>16, <2>2, <2>3, <2>4, LhsAre DEF Waits
  <2>6. PICK t \in Waits[X] : t[1] = Y /\ <<t[2], t[3]>> \in st[i].items
    BY <1>0, <2>4, <2>5, WaitsHere DEF Y
  <2>7. t[1] = "type_spec"
    BY <2>5, <2>6 DEF Waits
  <2> QED BY <1>16, <2>6, <2>7 DEF InContext, Lone, Y
<1>17. CASE r = 17
  <2>1. PICK rhs : rhs = <<"modifier_list", "modifier">>
    OBVIOUS
  <2>2. Rules[r].rhs = rhs
    BY <1>17, <2>1, RhsAre
  <2>3. Len(rhs) = 2 /\ rhs[2] = "modifier" /\ rhs[1] = "modifier_list"
    BY <2>1
  <2>4. HasRead(st, i, r, 2)
    BY <1>0, <2>2, <2>3 DEF HasRead
  <2>5. Backs(st, i, r, 2)
    BY <2>4, Back
  <2>6. Y = "modifier" /\ i - 1 \in 1 .. Len(st) /\ <<r, 1>> \in st[i - 1].items
    BY <2>2, <2>3, <2>5 DEF Backs, Y
  <2> QED BY <1>17, <2>6 DEF InContext, Lone, Y
<1>18. CASE r = 18
  <2>1. PICK rhs : rhs = <<"MODIFIER">>
    OBVIOUS
  <2>2. Rules[r].rhs = rhs
    BY <1>18, <2>1, RhsAre
  <2>3. Len(rhs) = 1 /\ rhs[1] = "MODIFIER"
    BY <2>1
  <2>4. HasRead(st, i, r, 1)
    BY <1>0, <2>2, <2>3 DEF HasRead
  <2>5. Backs(st, i, r, 1)
    BY <2>4, Back
  <2>6. Y = "MODIFIER" /\ i - 1 \in 1 .. Len(st) /\ <<r, 0>> \in st[i - 1].items
    BY <2>2, <2>3, <2>5 DEF Backs, Y
  <2> QED BY <1>18, <2>6 DEF InContext, Lone, Y
<1>19. CASE r = 19
  <2>1. PICK rhs : rhs = <<"NOT", "NULL_TOK">>
    OBVIOUS
  <2>2. Rules[r].rhs = rhs
    BY <1>19, <2>1, RhsAre
  <2>3. Len(rhs) = 2 /\ rhs[2] = "NULL_TOK" /\ rhs[1] = "NOT"
    BY <2>1
  <2>4. HasRead(st, i, r, 2)
    BY <1>0, <2>2, <2>3 DEF HasRead
  <2>5. Backs(st, i, r, 2)
    BY <2>4, Back
  <2>6. Y = "NULL_TOK" /\ i - 1 \in 1 .. Len(st) /\ <<r, 1>> \in st[i - 1].items
    BY <2>2, <2>3, <2>5 DEF Backs, Y
  <2> QED BY <1>19, <2>6 DEF InContext, Lone, Y
<1>20. CASE r = 20
  <2>1. PICK rhs : rhs = <<"DEFAULT", "literal">>
    OBVIOUS
  <2>2. Rules[r].rhs = rhs
    BY <1>20, <2>1, RhsAre
  <2>3. Len(rhs) = 2 /\ rhs[2] = "literal" /\ rhs[1] = "DEFAULT"
    BY <2>1
  <2>4. HasRead(st, i, r, 2)
    BY <1>0, <2>2, <2>3 DEF HasRead
  <2>5. Backs(st, i, r, 2)
    BY <2>4, Back
  <2>6. Y = "literal" /\ i - 1 \in 1 .. Len(st) /\ <<r, 1>> \in st[i - 1].items
    BY <2>2, <2>3, <2>5 DEF Backs, Y
  <2>7. HasRead(st, i - 1, r, 1)
    BY <2>6 DEF HasRead
  <2>8. Backs(st, i - 1, r, 1)
    BY <2>7, Back
  <2>9. Z = "DEFAULT"
    BY <2>2, <2>3, <2>8 DEF Backs, Z
  <2> QED BY <1>20, <2>6, <2>9 DEF InContext, Contexts, Y, Z
<1>21. CASE r = 21
  <2>1. PICK rhs : rhs = <<"PRIMARY_COMPOSITE", "OPEN_PAREN", "qualified_identifier_list", "CLOSE_PAREN">>
    OBVIOUS
  <2>2. Rules[r].rhs = rhs
    BY <1>21, <2>1, RhsAre
  <2>3. Len(rhs) = 4 /\ rhs[4] = "CLOSE_PAREN" /\ rhs[3] = "qualified_identifier_list"
    BY <2>1
  <2>4. HasRead(st, i, r, 4)
    BY <1>0, <2>2, <2>3 DEF HasRead
  <2>5. Backs(st, i, r, 4)
    BY <2>4, Back
  <2>6. Y = "CLOSE_PAREN" /\ i - 1 \in 1 .. Len(st) /\ <<r, 3>> \in st[i - 1].items
    BY <2>2, <2>3, <2>5 DEF Backs, Y
  <2>7. HasRead(st, i - 1, r, 3)
    BY <2>6 DEF HasRead
  <2>8. Backs(st, i - 1, r, 3)
    BY <2>7, Back
  <2>9. Z = "qualified_identifier_list"
    BY <2>2, <2>3, <2>8 DEF Backs, Z
  <2> QED BY <1>21, <2>6, <2>9 DEF InContext, Contexts, Y, Z
<1>22. CASE r = 22
  <2>1. PICK rhs : rhs = <<"qualified_identifier">>
    OBVIOUS
  <2>2. Rules[r].rhs = rhs
    BY <1>22, <2>1, RhsAre
  <2>3. Len(rhs) = 1 /\ rhs[1] = "qualified_identifier"
    BY <2>1
  <2>4. HasRead(st, i, r, 1)
    BY <1>0, <2>2, <2>3 DEF HasRead
  <2>5. Backs(st, i, r, 1)
    BY <2>4, Back
  <2>6. Y = "qualified_identifier" /\ i - 1 \in 1 .. Len(st) /\ <<r, 0>> \in st[i - 1].items
    BY <2>2, <2>3, <2>5 DEF Backs, Y
  <2>7. PICK X, j : X = Rules[r].lhs /\ j = i - 1
    OBVIOUS
  <2>8. X = "qualified_identifier_list" /\ X \in DOMAIN Waits /\ j \in 1 .. Len(st) /\ <<r, 0>> \in st[j].items
    BY <1>22, <2>6, <2>7, LhsAre DEF Waits
  <2>9. PICK t \in Waits[X] : t[1] = Came(st, j) /\ <<t[2], t[3]>> \in st[j].items
    BY <1>0, <2>7, <2>8, WaitsHere
  <2>10. t[1] \in {"OPEN_PAREN"}
    BY <2>8, <2>9 DEF Waits
  <2>11. Z \in {"OPEN_PAREN"}
    BY <2>7, <2>9, <2>10 DEF Z
  <2> QED BY <1>22, <2>6, <2>11 DEF InContext, Contexts, Y, Z
<1>23. CASE r = 23
  <2>1. PICK rhs : rhs = <<"qualified_identifier_list", "COMMA", "qualified_identifier">>
    OBVIOUS
  <2>2. Rules[r].rhs = rhs
    BY <1>23, <2>1, RhsAre
  <2>3. Len(rhs) = 3 /\ rhs[3] = "qualified_identifier" /\ rhs[2] = "COMMA"
    BY <2>1
  <2>4. HasRead(st, i, r, 3)
    BY <1>0, <2>2, <2>3 DEF HasRead
  <2>5. Backs(st, i, r, 3)
    BY <2>4, Back
  <2>6. Y = "qualified_identifier" /\ i - 1 \in 1 .. Len(st) /\ <<r, 2>> \in st[i - 1].items
    BY <2>2, <2>3, <2>5 DEF Backs, Y
  <2>7. HasRead(st, i - 1, r, 2)
    BY <2>6 DEF HasRead
  <2>8. Backs(st, i - 1, r, 2)
    BY <2>7, Back
  <2>9. Z = "COMMA"
    BY <2>2, <2>3, <2>8 DEF Backs, Z
  <2> QED BY <1>23, <2>6, <2>9 DEF InContext, Contexts, Y, Z
<1>24. CASE r = 24
  <2>1. PICK rhs : rhs = <<"IDENTIFIER">>
    OBVIOUS
  <2>2. Rules[r].rhs = rhs
    BY <1>24, <2>1, RhsAre
  <2>3. Len(rhs) = 1 /\ rhs[1] = "IDENTIFIER"
    BY <2>1
  <2>4. HasRead(st, i, r, 1)
    BY <1>0, <2>2, <2>3 DEF HasRead
  <2>5. Backs(st, i, r, 1)
    BY <2>4, Back
  <2>6. Y = "IDENTIFIER" /\ i - 1 \in 1 .. Len(st) /\ <<r, 0>> \in st[i - 1].items
    BY <2>2, <2>3, <2>5 DEF Backs, Y
  <2>7. PICK X, j : X = Rules[r].lhs /\ j = i - 1
    OBVIOUS
  <2>8. X = "qualified_identifier" /\ X \in DOMAIN Waits /\ j \in 1 .. Len(st) /\ <<r, 0>> \in st[j].items
    BY <1>24, <2>6, <2>7, LhsAre DEF Waits
  <2>9. PICK t \in Waits[X] : t[1] = Came(st, j) /\ <<t[2], t[3]>> \in st[j].items
    BY <1>0, <2>7, <2>8, WaitsHere
  <2>10. t[1] \in {"OPEN_PAREN", "COMMA"}
    BY <2>8, <2>9 DEF Waits
  <2>11. Z \in {"OPEN_PAREN", "COMMA"}
    BY <2>7, <2>9, <2>10 DEF Z
  <2> QED BY <1>24, <2>6, <2>11 DEF InContext, Contexts, Y, Z
<1>25. CASE r = 25
  <2>1. PICK rhs : rhs = <<"IDENTIFIER", "COLON", "IDENTIFIER">>
    OBVIOUS
  <2>2. Rules[r].rhs = rhs
    BY <1>25, <2>1, RhsAre
  <2>3. Len(rhs) = 3 /\ rhs[3] = "IDENTIFIER" /\ rhs[2] = "COLON"
    BY <2>1
  <2>4. HasRead(st, i, r, 3)
    BY <1>0, <2>2, <2>3 DEF HasRead
  <2>5. Backs(st, i, r, 3)
    BY <2>4, Back
  <2>6. Y = "IDENTIFIER" /\ i - 1 \in 1 .. Len(st) /\ <<r, 2>> \in st[i - 1].items
    BY <2>2, <2>3, <2>5 DEF Backs, Y
  <2>7. HasRead(st, i - 1, r, 2)
    BY <2>6 DEF HasRead
  <2>8. Backs(st, i - 1, r, 2)
    BY <2>7, Back
  <2>9. Z = "COLON"
    BY <2>2, <2>3, <2>8 DEF Backs, Z
  <2> QED BY <1>25, <2>6, <2>9 DEF InContext, Contexts, Y, Z
<1>26. CASE r = 26
  <2>1. PICK rhs : rhs = <<"ASSERT", "expression">>
    OBVIOUS
  <2>2. Rules[r].rhs = rhs
    BY <1>26, <2>1, RhsAre
  <2>3. Len(rhs) = 2 /\ rhs[2] = "expression" /\ rhs[1] = "ASSERT"
    BY <2>1
  <2>4. HasRead(st, i, r, 2)
    BY <1>0, <2>2, <2>3 DEF HasRead
  <2>5. Backs(st, i, r, 2)
    BY <2>4, Back
  <2>6. Y = "expression" /\ i - 1 \in 1 .. Len(st) /\ <<r, 1>> \in st[i - 1].items
    BY <2>2, <2>3, <2>5 DEF Backs, Y
  <2>7. HasRead(st, i - 1, r, 1)
    BY <2>6 DEF HasRead
  <2>8. Backs(st, i - 1, r, 1)
    BY <2>7, Back
  <2>9. Z = "ASSERT"
    BY <2>2, <2>3, <2>8 DEF Backs, Z
  <2> QED BY <1>26, <2>6, <2>9 DEF InContext, Contexts, Y, Z
<1>27. CASE r = 27
  <2>1. PICK rhs : rhs = <<"RELATIONSHIP", "IDENTIFIER", "OPEN_PAREN", "relationship_participant_list", "CLOSE_PAREN", "relationship_body">>
    OBVIOUS
  <2>2. Rules[r].rhs = rhs
    BY <1>27, <2>1, RhsAre
  <2>3. Len(rhs) = 6 /\ rhs[6] = "relationship_body" /\ rhs[5] = "CLOSE_PAREN"
    BY <2>1
  <2>4. HasRead(st, i, r, 6)
    BY <1>0, <2>2, <2>3 DEF HasRead
  <2>5. Backs(st, i, r, 6)
    BY <2>4, Back
  <2>6. Y = "relationship_body" /\ i - 1 \in 1 .. Len(st) /\ <<r, 5>> \in st[i - 1].items
    BY <2>2, <2>3, <2>5 DEF Backs, Y
  <2> QED BY <1>27, <2>6 DEF InContext, Lone, Y
<1>28. CASE r = 28
  <2>1. PICK rhs : rhs = <<"relationship_participant">>
    OBVIOUS
  <2>2. Rules[r].rhs = rhs
    BY <1>28, <2>1, RhsAre
  <2>3. Len(rhs) = 1 /\ rhs[1] = "relationship_participant"
    BY <2>1
  <2>4. HasRead(st, i, r, 1)
    BY <1>0, <2>2, <2>3 DEF HasRead
  <2>5. Backs(st, i, r, 1)
    BY <2>4, Back
  <2>6. Y = "relationship_participant" /\ i - 1 \in 1 .. Len(st) /\ <<r, 0>> \in st[i - 1].items
    BY <2>2, <2>3, <2>5 DEF Backs, Y
  <2>7. PICK X, j : X = Rules[r].lhs /\ j = i - 1
    OBVIOUS
  <2>8. X = "relationship_participant_list" /\ X \in DOMAIN Waits /\ j \in 1 .. Len(st) /\ <<r, 0>> \in st[j].items
    BY <1>28, <2>6, <2>7, LhsAre DEF Waits
  <2>9. PICK t \in Waits[X] : t[1] = Came(st, j) /\ <<t[2], t[3]>> \in st[j].items
    BY <1>0, <2>7, <2>8, WaitsHere
  <2>10. t[1] \in {"OPEN_PAREN"}
    BY <2>8, <2>9 DEF Waits
  <2>11. Z \in {"OPEN_PAREN"}
    BY <2>7, <2>9, <2>10 DEF Z
  <2> QED BY <1>28, <2>6, <2>11 DEF InContext, Contexts, Y, Z
<1>29. CASE r = 29
  <2>1. PICK rhs : rhs = <<"relationship_participant_list", "COMMA", "relationship_participant">>
    OBVIOUS
  <2>2. Rules[r].rhs = rhs
    BY <1>29, <2>1, RhsAre
  <2>3. Len(rhs) = 3 /\ rhs[3] = "relationship_participant" /\ rhs[2] = "COMMA"
    BY <2>1
  <2>4. HasRead(st, i, r, 3)
    BY <1>0, <2>2, <2>3 DEF HasRead
  <2>5. Backs(st, i, r, 3)
    BY <2>4, Back
  <2>6. Y = "relationship_participant" /\ i - 1 \in 1 .. Len(st) /\ <<r, 2>> \in st[i - 1].items
    BY <2>2, <2>3, <2>5 DEF Backs, Y
  <2>7. HasRead(st, i - 1, r, 2)
    BY <2>6 DEF HasRead
  <2>8. Backs(st, i - 1, r, 2)
    BY <2>7, Back
  <2>9. Z = "COMMA"
    BY <2>2, <2>3, <2>8 DEF Backs, Z
  <2> QED BY <1>29, <2>6, <2>9 DEF InContext, Contexts, Y, Z
<1>30. CASE r = 30
  <2>1. PICK rhs : rhs = <<"IDENTIFIER", "participation_opt">>
    OBVIOUS
  <2>2. Rules[r].rhs = rhs
    BY <1>30, <2>1, RhsAre
  <2>3. Len(rhs) = 2 /\ rhs[2] = "participation_opt" /\ rhs[1] = "IDENTIFIER"
    BY <2>1
  <2>4. HasRead(st, i, r, 2)
    BY <1>0, <2>2, <2>3 DEF HasRead
  <2>5. Backs(st, i, r, 2)
    BY <2>4, Back
  <2>6. Y = "participation_opt" /\ i - 1 \in 1 .. Len(st) /\ <<r, 1>> \in st[i - 1].items
    BY <2>2, <2>3, <2>5 DEF Backs, Y
  <2>7. HasRead(st, i - 1, r, 1)
    BY <2>6 DEF HasRead
  <2>8. Backs(st, i - 1, r, 1)
    BY <2>7, Back
  <2>9. Z = "IDENTIFIER"
    BY <2>2, <2>3, <2>8 DEF Backs, Z
  <2> QED BY <1>30, <2>6, <2>9 DEF InContext, Contexts, Y, Z
<1>31. CASE r = 31
  <2>1. PICK rhs : rhs = <<"IDENTIFIER", "TOK_ONE", "participation_opt">>
    OBVIOUS
  <2>2. Rules[r].rhs = rhs
    BY <1>31, <2>1, RhsAre
  <2>3. Len(rhs) = 3 /\ rhs[3] = "participation_opt" /\ rhs[2] = "TOK_ONE"
    BY <2>1
  <2>4. HasRead(st, i, r, 3)
    BY <1>0, <2>2, <2>3 DEF HasRead
  <2>5. Backs(st, i, r, 3)
    BY <2>4, Back
  <2>6. Y = "participation_opt" /\ i - 1 \in 1 .. Len(st) /\ <<r, 2>> \in st[i - 1].items
    BY <2>2, <2>3, <2>5 DEF Backs, Y
  <2>7. HasRead(st, i - 1, r, 2)
    BY <2>6 DEF HasRead
  <2>8. Backs(st, i - 1, r, 2)
    BY <2>7, Back
  <2>9. Z = "TOK_ONE"
    BY <2>2, <2>3, <2>8 DEF Backs, Z
  <2> QED BY <1>31, <2>6, <2>9 DEF InContext, Contexts, Y, Z
<1>32. CASE r = 32
  <2>1. PICK rhs : rhs = <<>>
    OBVIOUS
  <2>2. Rules[r].rhs = rhs
    BY <1>32, <2>1, RhsAre
  <2>3. Len(rhs) = 0
    BY <2>1
  <2>4. PICK X : X = Rules[r].lhs
    OBVIOUS
  <2>5. X = "participation_opt" /\ X \in DOMAIN Waits /\ <<r, 0>> \in st[i].items
    BY <1>0, <1>32, <2>2, <2>3, <2>4, LhsAre DEF Waits
  <2>6. PICK t \in Waits[X] : t[1] = Y /\ <<t[2], t[3]>> \in st[i].items
    BY <1>0, <2>4, <2>5, WaitsHere DEF Y
  <2>7. t = <<"IDENTIFIER", 30, 1>> \/ t = <<"TOK_ONE", 31, 2>>
    BY <2>5, <2>6 DEF Waits
  <2>8. CASE t[1] = "TOK_ONE"
    BY <1>32, <2>6, <2>8 DEF InContext, Lone, Y
  <2>9. CASE t[1] # "TOK_ONE"
    <3>1. t[1] = "IDENTIFIER" /\ t[2] = 30 /\ t[3] = 1
      BY <2>7, <2>9
    <3>2. HasRead(st, i, 30, 1)
      BY <2>6, <3>1 DEF HasRead
    <3>3. Backs(st, i, 30, 1)
      BY <3>2, Back
    <3>4. PICK j, V : j = i - 1 /\ V = Rules[30].lhs
      OBVIOUS
    <3>5. j \in 1 .. Len(st) /\ <<30, 0>> \in st[j].items
      BY <3>3, <3>4 DEF Backs
    <3>6. V = "relationship_participant" /\ V \in DOMAIN Waits /\ 30 \in 1 .. 45
      BY <3>4, LhsAre DEF Waits
    <3>7. PICK v \in Waits[V] : v[1] = Came(st, j) /\ <<v[2], v[3]>> \in st[j].items
      BY <3>4, <3>5, <3>6, WaitsHere
    <3>8. v[1] \in {"OPEN_PAREN", "COMMA"}
      BY <3>6, <3>7 DEF Waits
    <3>9. Z \in {"OPEN_PAREN", "COMMA"}
      BY <3>4, <3>7, <3>8 DEF Z
    <3> QED BY <1>32, <2>6, <3>1, <3>9 DEF InContext, Contexts, Y, Z
  <2> QED BY <2>8, <2>9
<1>33. CASE r = 33
  <2>1. PICK rhs : rhs = <<"TOTAL">>
    OBVIOUS
  <2>2. Rules[r].rhs = rhs
    BY <1>33, <2>1, RhsAre
  <2>3. Len(rhs) = 1 /\ rhs[1] = "TOTAL"
    BY <2>1
  <2>4. HasRead(st, i, r, 1)
    BY <1>0, <2>2, <2>3 DEF HasRead
  <2>5. Backs(st, i, r, 1)
    BY <2>4, Back
  <2>6. Y = "TOTAL" /\ i - 1 \in 1 .. Len(st) /\ <<r, 0>> \in st[i - 1].items
    BY <2>2, <2>3, <2>5 DEF Backs, Y
  <2> QED BY <1>33, <2>6 DEF InContext, Lone, Y
<1>34. CASE r = 34
  <2>1. PICK rhs : rhs = <<>>
    OBVIOUS
  <2>2. Rules[r].rhs = rhs
    BY <1>34, <2>1, RhsAre
  <2>3. Len(rhs) = 0
    BY <2>1
  <2>4. PICK X : X = Rules[r].lhs
    OBVIOUS
  <2>5. X = "relationship_body" /\ X \in DOMAIN Waits /\ <<r, 0>> \in st[i].items
    BY <1>0, <1>34, <2>2, <2>3, <2>4, LhsAre DEF Waits
  <2>6. PICK t \in Waits[X] : t[1] = Y /\ <<t[2], t[3]>> \in st[i].items
    BY <1>0, <2>4, <2>5, WaitsHere DEF Y
  <2>7. t[1] = "CLOSE_PAREN" /\ t[2] = 27 /\ t[3] = 5
    BY <2>5, <2>6 DEF Waits
  <2>8. HasRead(st, i, 27, 5)
    BY <2>6, <2>7 DEF HasRead
  <2>9. Backs(st, i, 27, 5)
    BY <2>8, Back
  <2>10. HasRead(st, i - 1, 27, 4)
    BY <2>9 DEF Backs, HasRead
  <2>11. Backs(st, i - 1, 27, 4)
    BY <2>10, Back
  <2>12. Rules[27].rhs[4] = "relationship_participant_list"
    BY RhsAre
  <2>13. Z = "relationship_participant_list"
    BY <2>11, <2>12 DEF Backs, Z
  <2> QED BY <1>34, <2>6, <2>7, <2>13 DEF InContext, Contexts, Y, Z
<1>35. CASE r = 35
  <2>1. PICK rhs : rhs = <<"OPEN_BRACE", "attribute_list", "CLOSE_BRACE">>
    OBVIOUS
  <2>2. Rules[r].rhs = rhs
    BY <1>35, <2>1, RhsAre
  <2>3. Len(rhs) = 3 /\ rhs[3] = "CLOSE_BRACE" /\ rhs[2] = "attribute_list"
    BY <2>1
  <2>4. HasRead(st, i, r, 3)
    BY <1>0, <2>2, <2>3 DEF HasRead
  <2>5. Backs(st, i, r, 3)
    BY <2>4, Back
  <2>6. Y = "CLOSE_BRACE" /\ i - 1 \in 1 .. Len(st) /\ <<r, 2>> \in st[i - 1].items
    BY <2>2, <2>3, <2>5 DEF Backs, Y
  <2>7. HasRead(st, i - 1, r, 2)
    BY <2>6 DEF HasRead
  <2>8. Backs(st, i - 1, r, 2)
    BY <2>7, Back
  <2>9. Z = "attribute_list"
    BY <2>2, <2>3, <2>8 DEF Backs, Z
  <2> QED BY <1>35, <2>6, <2>9 DEF InContext, Contexts, Y, Z
<1>36. CASE r = 36
  <2>1. PICK rhs : rhs = <<"attribute_decl">>
    OBVIOUS
  <2>2. Rules[r].rhs = rhs
    BY <1>36, <2>1, RhsAre
  <2>3. Len(rhs) = 1 /\ rhs[1] = "attribute_decl"
    BY <2>1
  <2>4. HasRead(st, i, r, 1)
    BY <1>0, <2>2, <2>3 DEF HasRead
  <2>5. Backs(st, i, r, 1)
    BY <2>4, Back
  <2>6. Y = "attribute_decl" /\ i - 1 \in 1 .. Len(st) /\ <<r, 0>> \in st[i - 1].items
    BY <2>2, <2>3, <2>5 DEF Backs, Y
  <2>7. PICK X, j : X = Rules[r].lhs /\ j = i - 1
    OBVIOUS
  <2>8. X = "attribute_list" /\ X \in DOMAIN Waits /\ j \in 1 .. Len(st) /\ <<r, 0>> \in st[j].items
    BY <1>36, <2>6, <2>7, LhsAre DEF Waits
  <2>9. PICK t \in Waits[X] : t[1] = Came(st, j) /\ <<t[2], t[3]>> \in st[j].items
    BY <1>0, <2>7, <2>8, WaitsHere
  <2>10. t[1] \in {"OPEN_BRACE"}
    BY <2>8, <2>9 DEF Waits
  <2>11. Z \in {"OPEN_BRACE"}
    BY <2>7, <2>9, <2>10 DEF Z
  <2> QED BY <1>36, <2>6, <2>11 DEF InContext, Contexts, Y, Z
<1>37. CASE r = 37
  <2>1. PICK rhs : rhs = <<"attribute_list", "attribute_decl">>
    OBVIOUS
  <2>2. Rules[r].rhs = rhs
    BY <1>37, <2>1, RhsAre
  <2>3. Len(rhs) = 2 /\ rhs[2] = "attribute_decl" /\ rhs[1] = "attribute_list"
    BY <2>1
  <2>4. HasRead(st, i, r, 2)
    BY <1>0, <2>2, <2>3 DEF HasRead
  <2>5. Backs(st, i, r, 2)
    BY <2>4, Back
  <2>6. Y = "attribute_decl" /\ i - 1 \in 1 .. Len(st) /\ <<r, 1>> \in st[i - 1].items
    BY <2>2, <2>3, <2>5 DEF Backs, Y
  <2>7. HasRead(st, i - 1, r, 1)
    BY <2>6 DEF HasRead
  <2>8. Backs(st, i - 1, r, 1)
    BY <2>7, Back
  <2>9. Z = "attribute_list"
    BY <2>2, <2>3, <2>8 DEF Backs, Z
  <2> QED BY <1>37, <2>6, <2>9 DEF InContext, Contexts, Y, Z
<1>38. CASE r = 38
  <2>1. PICK rhs : rhs = <<"ENUM">>
    OBVIOUS
  <2>2. Rules[r].rhs = rhs
    BY <1>38, <2>1, RhsAre
  <2>3. Len(rhs) = 1 /\ rhs[1] = "ENUM"
    BY <2>1
  <2>4. HasRead(st, i, r, 1)
    BY <1>0, <2>2, <2>3 DEF HasRead
  <2>5. Backs(st, i, r, 1)
    BY <2>4, Back
  <2>6. Y = "ENUM" /\ i - 1 \in 1 .. Len(st) /\ <<r, 0>> \in st[i - 1].items
    BY <2>2, <2>3, <2>5 DEF Backs, Y
  <2> QED BY <1>38, <2>6 DEF InContext, Lone, Y
<1>39. CASE r = 39
  <2>1. PICK rhs : rhs = <<"TYPE">>
    OBVIOUS
  <2>2. Rules[r].rhs = rhs
    BY <1>39, <2>1, RhsAre
  <2>3. Len(rhs) = 1 /\ rhs[1] = "TYPE"
    BY <2>1
  <2>4. HasRead(st, i, r, 1)
    BY <1>0, <2>2, <2>3 DEF HasRead
  <2>5. Backs(st, i, r, 1)
    BY <2>4, Back
  <2>6. Y = "TYPE" /\ i - 1 \in 1 .. Len(st) /\ <<r, 0>> \in st[i - 1].items
    BY <2>2, <2>3, <2>5 DEF Backs, Y
  <2> QED BY <1>39, <2>6 DEF InContext, Lone, Y
<1>40. CASE r = 40
  <2>1. PICK rhs : rhs = <<"TYPE", "OPEN_BRACKET", "CLOSE_BRACKET">>
    OBVIOUS
  <2>2. Rules[r].rhs = rhs
    BY <1>40, <2>1, RhsAre
  <2>3. Len(rhs) = 3 /\ rhs[3] = "CLOSE_BRACKET" /\ rhs[2] = "OPEN_BRACKET"
    BY <2>1
  <2>4. HasRead(st, i, r, 3)
    BY <1>0, <2>2, <2>3 DEF HasRead
  <2>5. Backs(st, i, r, 3)
    BY <2>4, Back
  <2>6. Y = "CLOSE_BRACKET" /\ i - 1 \in 1 .. Len(st) /\ <<r, 2>> \in st[i - 1].items
    BY <2>2, <2>3, <2>5 DEF Backs, Y
  <2> QED BY <1>40, <2>6 DEF InContext, Lone, Y
<1>41. CASE r = 41
  <2>1. PICK rhs : rhs = <<"literal">>
    OBVIOUS
  <2>2. Rules[r].rhs = rhs
    BY <1>41, <2>1, RhsAre
  <2>3. Len(rhs) = 1 /\ rhs[1] = "literal"
    BY <2>1
  <2>4. HasRead(st, i, r, 1)
    BY <1>0, <2>2, <2>3 DEF HasRead
  <2>5. Backs(st, i, r, 1)
    BY <2>4, Back
  <2>6. Y = "literal" /\ i - 1 \in 1 .. Len(st) /\ <<r, 0>> \in st[i - 1].items
    BY <2>2, <2>3, <2>5 DEF Backs, Y
  <2>7. PICK X, j : X = Rules[r].lhs /\ j = i - 1
    OBVIOUS
  <2>8. X = "expression" /\ X \in DOMAIN Waits /\ j \in 1 .. Len(st) /\ <<r, 0>> \in st[j].items
    BY <1>41, <2>6, <2>7, LhsAre DEF Waits
  <2>9. PICK t \in Waits[X] : t[1] = Came(st, j) /\ <<t[2], t[3]>> \in st[j].items
    BY <1>0, <2>7, <2>8, WaitsHere
  <2>10. t[1] \in {"ASSERT", "OP_MUL"}
    BY <2>8, <2>9 DEF Waits
  <2>11. Z \in {"ASSERT", "OP_MUL"}
    BY <2>7, <2>9, <2>10 DEF Z
  <2> QED BY <1>41, <2>6, <2>11 DEF InContext, Contexts, Y, Z
<1>42. CASE r = 42
  <2>1. PICK rhs : rhs = <<"IDENTIFIER">>
    OBVIOUS
  <2>2. Rules[r].rhs = rhs
    BY <1>42, <2>1, RhsAre
  <2>3. Len(rhs) = 1 /\ rhs[1] = "IDENTIFIER"
    BY <2>1
  <2>4. HasRead(st, i, r, 1)
    BY <1>0, <2>2, <2>3 DEF HasRead
  <2>5. Backs(st, i, r, 1)
    BY <2>4, Back
  <2>6. Y = "IDENTIFIER" /\ i - 1 \in 1 .. Len(st) /\ <<r, 0>> \in st[i - 1].items
    BY <2>2, <2>3, <2>5 DEF Backs, Y
  <2>7. PICK X, j : X = Rules[r].lhs /\ j = i - 1
    OBVIOUS
  <2>8. X = "expression" /\ X \in DOMAIN Waits /\ j \in 1 .. Len(st) /\ <<r, 0>> \in st[j].items
    BY <1>42, <2>6, <2>7, LhsAre DEF Waits
  <2>9. PICK t \in Waits[X] : t[1] = Came(st, j) /\ <<t[2], t[3]>> \in st[j].items
    BY <1>0, <2>7, <2>8, WaitsHere
  <2>10. t[1] \in {"ASSERT", "OP_MUL"}
    BY <2>8, <2>9 DEF Waits
  <2>11. Z \in {"ASSERT", "OP_MUL"}
    BY <2>7, <2>9, <2>10 DEF Z
  <2> QED BY <1>42, <2>6, <2>11 DEF InContext, Contexts, Y, Z
<1>43. CASE r = 43
  <2>1. PICK rhs : rhs = <<"expression", "OP_MUL", "expression">>
    OBVIOUS
  <2>2. Rules[r].rhs = rhs
    BY <1>43, <2>1, RhsAre
  <2>3. Len(rhs) = 3 /\ rhs[3] = "expression" /\ rhs[2] = "OP_MUL"
    BY <2>1
  <2>4. HasRead(st, i, r, 3)
    BY <1>0, <2>2, <2>3 DEF HasRead
  <2>5. Backs(st, i, r, 3)
    BY <2>4, Back
  <2>6. Y = "expression" /\ i - 1 \in 1 .. Len(st) /\ <<r, 2>> \in st[i - 1].items
    BY <2>2, <2>3, <2>5 DEF Backs, Y
  <2>7. HasRead(st, i - 1, r, 2)
    BY <2>6 DEF HasRead
  <2>8. Backs(st, i - 1, r, 2)
    BY <2>7, Back
  <2>9. Z = "OP_MUL"
    BY <2>2, <2>3, <2>8 DEF Backs, Z
  <2> QED BY <1>43, <2>6, <2>9 DEF InContext, Contexts, Y, Z
<1>44. CASE r = 44
  <2>1. PICK rhs : rhs = <<"LIT_INTEGER">>
    OBVIOUS
  <2>2. Rules[r].rhs = rhs
    BY <1>44, <2>1, RhsAre
  <2>3. Len(rhs) = 1 /\ rhs[1] = "LIT_INTEGER"
    BY <2>1
  <2>4. HasRead(st, i, r, 1)
    BY <1>0, <2>2, <2>3 DEF HasRead
  <2>5. Backs(st, i, r, 1)
    BY <2>4, Back
  <2>6. Y = "LIT_INTEGER" /\ i - 1 \in 1 .. Len(st) /\ <<r, 0>> \in st[i - 1].items
    BY <2>2, <2>3, <2>5 DEF Backs, Y
  <2> QED BY <1>44, <2>6 DEF InContext, Lone, Y
<1>45. CASE r = 45
  <2>1. PICK rhs : rhs = <<"LIT_STRING">>
    OBVIOUS
  <2>2. Rules[r].rhs = rhs
    BY <1>45, <2>1, RhsAre
  <2>3. Len(rhs) = 1 /\ rhs[1] = "LIT_STRING"
    BY <2>1
  <2>4. HasRead(st, i, r, 1)
    BY <1>0, <2>2, <2>3 DEF HasRead
  <2>5. Backs(st, i, r, 1)
    BY <2>4, Back
  <2>6. Y = "LIT_STRING" /\ i - 1 \in 1 .. Len(st) /\ <<r, 0>> \in st[i - 1].items
    BY <2>2, <2>3, <2>5 DEF Backs, Y
  <2> QED BY <1>45, <2>6 DEF InContext, Lone, Y
<1> QED BY <1>0, <1>1, <1>2, <1>3, <1>4, <1>5, <1>6, <1>7, <1>8, <1>9, <1>10, <1>11, <1>12, <1>13, <1>14, <1>15, <1>16, <1>17, <1>18, <1>19, <1>20, <1>21, <1>22, <1>23, <1>24, <1>25, <1>26, <1>27, <1>28, <1>29, <1>30, <1>31, <1>32, <1>33, <1>34, <1>35, <1>36, <1>37, <1>38, <1>39, <1>40, <1>41, <1>42, <1>43, <1>44, <1>45

\* Two rules that have the same last symbols.
Rivals(r, q) == r = q \/ (r \in {24, 32} /\ q \in {24, 32}) \/ (r \in 7 .. 10 /\ q \in 7 .. 10)
LEMMA ContextsApart ==
    ASSUME NEW r, NEW q, NEW Y, NEW Z, InContext(r, Y, Z), InContext(q, Y, Z)
    PROVE  Rivals(r, q)
<1>1. CASE <<r, Y>> \in Lone /\ <<q, Y>> \in Lone
  BY <1>1 DEF Lone, Rivals
<1>2. ASSUME NEW a, NEW b, <<a, Y>> \in Lone, <<b, Y, Z>> \in Contexts PROVE FALSE
  <2>1. Y \in {"IDENTIFIER", "CLOSE_BRACE", "attribute_decl", "literal", "CLOSE_PAREN", "qualified_identifier",
               "expression", "relationship_participant", "participation_opt"}
    BY <1>2 DEF Contexts
  <2> QED BY <1>2, <2>1 DEF Lone
<1>3. CASE <<r, Y, Z>> \in Contexts /\ <<q, Y, Z>> \in Contexts
  <2>1. CASE Y = "IDENTIFIER"
    BY <1>3, <2>1 DEF Contexts, Rivals
  <2>2. CASE Y = "CLOSE_BRACE"
    BY <1>3, <2>2 DEF Contexts, Rivals
  <2>3. CASE Y = "attribute_decl"
    BY <1>3, <2>3 DEF Contexts, Rivals
  <2>4. CASE Y = "literal"
    BY <1>3, <2>4 DEF Contexts, Rivals
  <2>5. CASE Y = "CLOSE_PAREN"
    BY <1>3, <2>5 DEF Contexts, Rivals
  <2>6. CASE Y = "qualified_identifier"
    BY <1>3, <2>6 DEF Contexts, Rivals
  <2>7. CASE Y = "expression"
    BY <1>3, <2>7 DEF Contexts, Rivals
  <2>8. CASE Y = "relationship_participant"
    BY <1>3, <2>8 DEF Contexts, Rivals
  <2>9. CASE Y = "participation_opt"
    BY <1>3, <2>9 DEF Contexts, Rivals
  <2>10. Y \in {"IDENTIFIER", "CLOSE_BRACE", "attribute_decl", "literal", "CLOSE_PAREN", "qualified_identifier", "expression", "relationship_participant", "participation_opt"}
    BY <1>3 DEF Contexts
  <2> QED BY <2>1, <2>2, <2>3, <2>4, <2>5, <2>6, <2>7, <2>8, <2>9, <2>10
<1> QED BY <1>1, <1>2, <1>3 DEF InContext

\* Two items of one state have the same symbols before them.
Alike(st, i, r, n, q, m, d) ==
    /\ i - d \in 1 .. Len(st) /\ <<r, n - d>> \in st[i - d].items /\ <<q, m - d>> \in st[i - d].items
    /\ d < n => Came(st, i - d) = Rules[r].rhs[n - d]
    /\ d < m => Came(st, i - d) = Rules[q].rhs[m - d]
Item2(st, i, r, n) == r \in 1 .. 45 /\ n \in Nat /\ <<r, n>> \in st[i].items

LEMMA OneBack ==
    ASSUME NEW h, NEW st, StackOK(h, st), NEW i \in 1 .. Len(st), NEW r, NEW n, Item2(st, i, r, n),
           NEW d \in Nat, d <= n
    PROVE  /\ i - d \in 1 .. Len(st) /\ <<r, n - d>> \in st[i - d].items
           /\ d < n => Came(st, i - d) = Rules[r].rhs[n - d]
<1>1. r \in 1 .. 45 /\ n \in Nat /\ Begun0(h, st, i, r, n)
  BY ItemBegun DEF Item2
<1>2. PICK k, j : k = n - d /\ j = i - d
  OBVIOUS
<1>3. k \in 0 .. n /\ i - n + k = j /\ Len(st) \in Nat /\ i \in Nat
  <2>1. Len(st) \in Nat
    BY StackFacts
  <2> QED BY <2>1, <1>1, <1>2
<1>4. <<r, k>> \in st[j].items /\ n < i
  BY <1>1, <1>3 DEF Begun0
<1>5. j \in 1 .. Len(st)
  BY <1>1, <1>2, <1>3, <1>4
<1>6. ASSUME d < n PROVE Came(st, j) = Rules[r].rhs[k]
  <2>1. k > 0 /\ k \in Nat
    BY <1>1, <1>2, <1>6
  <2>2. HasRead(st, j, r, k)
    BY <2>1, <1>4, <1>5 DEF HasRead
  <2>3. Backs(st, j, r, k)
    BY <2>2, Back
  <2> QED BY <2>3 DEF Backs
<1> QED BY <1>2, <1>4, <1>5, <1>6

LEMMA BackAlike ==
    ASSUME NEW h, NEW st, StackOK(h, st), NEW i \in 1 .. Len(st), NEW r, NEW n, Item2(st, i, r, n),
           NEW q, NEW m, Item2(st, i, q, m), NEW d \in Nat, d <= n, d <= m
    PROVE  Alike(st, i, r, n, q, m, d)
<1>1. /\ i - d \in 1 .. Len(st) /\ <<r, n - d>> \in st[i - d].items
      /\ d < n => Came(st, i - d) = Rules[r].rhs[n - d]
  BY OneBack
<1>2. /\ <<q, m - d>> \in st[i - d].items
      /\ d < m => Came(st, i - d) = Rules[q].rhs[m - d]
  BY OneBack
<1> QED BY <1>1, <1>2 DEF Alike

LEMMA SymbolsAre ==
    /\ Rules[7].rhs[1] = "ENTITY"
    /\ Rules[8].rhs[3] = "COLON"
    /\ Rules[9].rhs[1] = "WEAK"
    /\ Rules[9].rhs[2] = "ENTITY"
    /\ Rules[10].rhs[1] = "WEAK"
    /\ Rules[10].rhs[4] = "COLON"
    /\ Rules[21].rhs[1] = "PRIMARY_COMPOSITE"
    /\ Rules[23].rhs[1] = "qualified_identifier_list"
    /\ Rules[27].rhs[2] = "IDENTIFIER"
    /\ Rules[29].rhs[1] = "relationship_participant_list"
BY RhsAre

\* The items of two entities differ in what was read before.
LEMMA EntitiesDiffer ==
    ASSUME NEW h, NEW st, StackOK(h, st), NEW i \in 1 .. Len(st)
    PROVE  /\ ~(Item2(st, i, 7, 5) /\ Item2(st, i, 8, 7))
           /\ ~(Item2(st, i, 7, 5) /\ Item2(st, i, 9, 6))
           /\ ~(Item2(st, i, 7, 5) /\ Item2(st, i, 10, 8))
           /\ ~(Item2(st, i, 8, 7) /\ Item2(st, i, 9, 6))
           /\ ~(Item2(st, i, 8, 7) /\ Item2(st, i, 10, 8))
           /\ ~(Item2(st, i, 9, 6) /\ Item2(st, i, 10, 8))
<1>1. ASSUME Item2(st, i, 7, 5), Item2(st, i, 8, 7) PROVE FALSE
  <2>1. Alike(st, i, 7, 5, 8, 7, 4)
    BY <1>1, BackAlike
  <2>2. Rules[7].rhs[1] = Rules[8].rhs[3]
    BY <2>1 DEF Alike
  <2> QED BY <2>2, SymbolsAre
<1>2. ASSUME Item2(st, i, 7, 5), Item2(st, i, 10, 8) PROVE FALSE
  <2>1. Alike(st, i, 7, 5, 10, 8, 4)
    BY <1>2, BackAlike
  <2>2. Rules[7].rhs[1] = Rules[10].rhs[4]
    BY <2>1 DEF Alike
  <2> QED BY <2>2, SymbolsAre
<1>3. ASSUME Item2(st, i, 8, 7), Item2(st, i, 9, 6) PROVE FALSE
  <2>1. Alike(st, i, 8, 7, 9, 6, 4)
    BY <1>3, BackAlike
  <2>2. Rules[8].rhs[3] = Rules[9].rhs[2]
    BY <2>1 DEF Alike
  <2> QED BY <2>2, SymbolsAre
<1>4. ASSUME Item2(st, i, 9, 6), Item2(st, i, 10, 8) PROVE FALSE
  <2>1. Alike(st, i, 9, 6, 10, 8, 4)
    BY <1>4, BackAlike
  <2>2. Rules[9].rhs[2] = Rules[10].rhs[4]
    BY <2>1 DEF Alike
  <2> QED BY <2>2, SymbolsAre
<1>5. ASSUME Item2(st, i, 7, 5), Item2(st, i, 9, 6) PROVE FALSE
  <2>1. Alike(st, i, 7, 5, 9, 6, 5)
    BY <1>5, BackAlike
  <2>2. PICK j, X : j = i - 5 /\ X = Rules[7].lhs
    OBVIOUS
  <2>3. j \in 1 .. Len(st) /\ <<7, 0>> \in st[j].items /\ Came(st, j) = Rules[9].rhs[1]
    BY <2>1, <2>2 DEF Alike
  <2>4. X = "entity_decl" /\ X \in DOMAIN Waits /\ 7 \in 1 .. 45
    BY <2>2, LhsAre DEF Waits
  <2>5. PICK t \in Waits[X] : t[1] = Came(st, j)
    BY <2>2, <2>3, <2>4, WaitsHere
  <2>6. t[1] = "schema_body"
    BY <2>4, <2>5 DEF Waits
  <2> QED BY <2>3, <2>5, <2>6, SymbolsAre
<1>6. ASSUME Item2(st, i, 8, 7), Item2(st, i, 10, 8) PROVE FALSE
  <2>1. Alike(st, i, 8, 7, 10, 8, 7)
    BY <1>6, BackAlike
  <2>2. PICK j, X : j = i - 7 /\ X = Rules[8].lhs
    OBVIOUS
  <2>3. j \in 1 .. Len(st) /\ <<8, 0>> \in st[j].items /\ Came(st, j) = Rules[10].rhs[1]
    BY <2>1, <2>2 DEF Alike
  <2>4. X = "entity_decl" /\ X \in DOMAIN Waits /\ 8 \in 1 .. 45
    BY <2>2, LhsAre DEF Waits
  <2>5. PICK t \in Waits[X] : t[1] = Came(st, j)
    BY <2>2, <2>3, <2>4, WaitsHere
  <2>6. t[1] = "schema_body"
    BY <2>4, <2>5 DEF Waits
  <2> QED BY <2>3, <2>5, <2>6, SymbolsAre
<1> QED BY <1>1, <1>2, <1>3, <1>4, <1>5, <1>6

\* An identifier in a key is not one in a list of participants.
LEMMA ListsDiffer ==
    ASSUME NEW h, NEW st, StackOK(h, st), NEW i \in 1 .. Len(st),
           Item2(st, i, 24, 1), Item2(st, i, 32, 0)
    PROVE  FALSE
<1>1. PICK j, X, V, W : j = i - 1 /\ X = Rules[24].lhs /\ V = Rules[32].lhs /\ W = Rules[30].lhs
  OBVIOUS
<1>2. /\ X = "qualified_identifier" /\ V = "participation_opt" /\ W = "relationship_participant"
      /\ X \in DOMAIN Waits /\ V \in DOMAIN Waits /\ W \in DOMAIN Waits
      /\ 24 \in 1 .. 45 /\ 32 \in 1 .. 45 /\ 30 \in 1 .. 45
  BY <1>1, LhsAre DEF Waits
<1>3. j \in 1 .. Len(st) /\ <<24, 0>> \in st[j].items /\ Came(st, i) = "IDENTIFIER"
  <2>1. HasRead(st, i, 24, 1)
    BY DEF HasRead, Item2
  <2>2. Backs(st, i, 24, 1)
    BY <2>1, Back
  <2>3. Rules[24].rhs[1] = "IDENTIFIER"
    BY RhsAre
  <2> QED BY <2>2, <2>3, <1>1 DEF Backs
<1>4. PICK t \in Waits[X] : t[1] = Came(st, j) /\ <<t[2], t[3]>> \in st[j].items
  BY <1>1, <1>2, <1>3, WaitsHere
<1>5. t = <<"OPEN_PAREN", 21, 2>> \/ t = <<"COMMA", 23, 2>>
  BY <1>2, <1>4 DEF Waits
<1>6. PICK v \in Waits[V] : v[1] = Came(st, i) /\ <<v[2], v[3]>> \in st[i].items
  BY <1>1, <1>2, WaitsHere DEF Item2
<1>7. v[2] = 30 /\ v[3] = 1
  <2>1. v = <<"IDENTIFIER", 30, 1>> \/ v = <<"TOK_ONE", 31, 2>>
    BY <1>2, <1>6 DEF Waits
  <2> QED BY <2>1, <1>3, <1>6
<1>8. <<30, 0>> \in st[j].items
  <2>1. HasRead(st, i, 30, 1)
    BY <1>6, <1>7 DEF HasRead
  <2>2. Backs(st, i, 30, 1)
    BY <2>1, Back
  <2> QED BY <2>2, <1>1 DEF Backs
<1>9. PICK w \in Waits[W] : w[1] = Came(st, j) /\ <<w[2], w[3]>> \in st[j].items
  BY <1>1, <1>2, <1>3, <1>8, WaitsHere
<1>10. w = <<"OPEN_PAREN", 27, 3>> \/ w = <<"COMMA", 29, 2>>
  BY <1>2, <1>9 DEF Waits
<1>11. CASE t[1] = "OPEN_PAREN"
  <2>1. t[2] = 21 /\ t[3] = 2 /\ w[2] = 27 /\ w[3] = 3
    BY <1>4, <1>5, <1>9, <1>10, <1>11
  <2>2. Item2(st, j, 21, 2) /\ Item2(st, j, 27, 3)
    BY <2>1, <1>4, <1>9 DEF Item2
  <2>3. Alike(st, j, 21, 2, 27, 3, 1)
    BY <2>2, <1>3, BackAlike
  <2>4. Rules[21].rhs[1] = Rules[27].rhs[2]
    BY <2>3 DEF Alike
  <2> QED BY <2>4, SymbolsAre
<1>12. CASE t[1] = "COMMA"
  <2>1. t[2] = 23 /\ t[3] = 2 /\ w[2] = 29 /\ w[3] = 2
    BY <1>4, <1>5, <1>9, <1>10, <1>12
  <2>2. Item2(st, j, 23, 2) /\ Item2(st, j, 29, 2)
    BY <2>1, <1>4, <1>9 DEF Item2
  <2>3. Alike(st, j, 23, 2, 29, 2, 1)
    BY <2>2, <1>3, BackAlike
  <2>4. Rules[23].rhs[1] = Rules[29].rhs[1]
    BY <2>3 DEF Alike
  <2> QED BY <2>4, SymbolsAre
<1> QED BY <1>5, <1>11, <1>12

\* No state has two rules to reduce.
LEMMA CompleteOne ==
    ASSUME NEW h, NEW st, StackOK(h, st), NEW i \in 1 .. Len(st),
           NEW r, r \in Complete(st[i].items), NEW q, q \in Complete(st[i].items)
    PROVE  r = q
<1>1. InContext(r, Came(st, i), Came(st, i - 1)) /\ InContext(q, Came(st, i), Came(st, i - 1))
  BY ContextKnown
<1>2. Rivals(r, q)
  BY <1>1, ContextsApart
<1>3. \A a : a \in Complete(st[i].items) => a \in 1 .. 45 /\ <<a, Len(Rules[a].rhs)>> \in st[i].items
  BY CompleteRead
<1>4. /\ Len(Rules[7].rhs) = 5 /\ Len(Rules[8].rhs) = 7 /\ Len(Rules[9].rhs) = 6 /\ Len(Rules[10].rhs) = 8
      /\ Len(Rules[24].rhs) = 1 /\ Len(Rules[32].rhs) = 0
  BY RhsAre
<1>5. ASSUME NEW a, a \in Complete(st[i].items)
      PROVE  /\ a = 7 => Item2(st, i, 7, 5)
             /\ a = 8 => Item2(st, i, 8, 7)
             /\ a = 9 => Item2(st, i, 9, 6)
             /\ a = 10 => Item2(st, i, 10, 8)
             /\ a = 24 => Item2(st, i, 24, 1)
             /\ a = 32 => Item2(st, i, 32, 0)
  BY <1>3, <1>4, <1>5 DEF Item2
<1>6. CASE r \in {24, 32} /\ q \in {24, 32}
  BY <1>5, <1>6, ListsDiffer
<1>7. CASE r \in 7 .. 10 /\ q \in 7 .. 10
  <2>1. (r = 7 \/ r = 8 \/ r = 9 \/ r = 10) /\ (q = 7 \/ q = 8 \/ q = 9 \/ q = 10)
    BY <1>7
  <2> QED BY <2>1, <1>5, EntitiesDiffer
<1> QED BY <1>2, <1>6, <1>7 DEF Rivals

\* No token follows the end of the input.
Ended == Parsing => lookahead.sym = "END" \/ (stack # <<>> /\ 1 \in Complete(Items))
Counting ==
    /\ pushed \in Nat /\ pushed <= MaxTokens + 1 /\ (pushed > MaxTokens => Ended)
    /\ ahead \in Seq(Terminals) /\ lookahead.sym \in Terminals \cup {"none", "END"}
    /\ released \in BOOLEAN

\* The item that reads the end of the input.
LEMMA EndRead ==
    ASSUME NEW I, I \subseteq AllItems, "END" \in NextSymbols(I)
    PROVE  1 \in Complete(Goto(I, "END"))
<1>1. PICK i \in I : Unread(i) /\ NextSymbol(i) = "END"
  BY DEF NextSymbols
<1>2. /\ i[1] \in 1 .. 45 /\ i[2] \in Nat /\ i = <<i[1], i[2]>>
      /\ i[2] + 1 \in 1 .. Len(Rules[i[1]].rhs)
  BY <1>1, ItemIs
<1>3. PICK r, n : r = i[1] /\ n = i[2]
  OBVIOUS
<1>4. /\ r \in 1 .. 45 /\ n \in Nat /\ i = <<r, n>> /\ n + 1 \in 1 .. Len(Rules[r].rhs)
      /\ Rules[r].rhs[n + 1] = "END"
  BY <1>1, <1>2, <1>3 DEF NextSymbol
<1>5. RhsFacts(r, n + 1)
  BY <1>4, RhsKnown
<1>6. r = 1 /\ n = 1
  <2>1. r = 1 /\ n + 1 = 2
    BY <1>4, <1>5 DEF RhsFacts
  <2> QED BY <1>4, <2>1
<1>7. <<i[1], i[2] + 1>> \in Goto(I, "END")
  BY <1>1, GotoIs
<1>8. <<1, 2>> \in Goto(I, "END")
  BY <1>3, <1>6, <1>7
<1>9. PICK e : e = <<1, 2>>
  OBVIOUS
<1>10. e \in Goto(I, "END") /\ e[1] = 1 /\ e[2] = 2
  BY <1>8, <1>9
<1>11. Len(Rules[1].rhs) = 2
  <2>1. Rules[1].rhs = <<"program", "END">>
    BY RhsAre
  <2> QED BY <2>1
<1>12. ~Unread(e)
  <2>1. Rules[e[1]] = Rules[1]
    BY <1>10
  <2>2. Len(Rules[e[1]].rhs) = 2
    BY <2>1, <1>11
  <2>3. ~(e[2] < Len(Rules[e[1]].rhs))
    BY <2>2, <1>10
  <2> QED BY <2>3 DEF Unread
<1> QED BY <1>10, <1>12 DEF Complete

LEMMA NoneLeft ==
    ASSUME Growth, Parsing, 1 \in Complete(Items)
    PROVE  Shiftable(Items) = {} /\ 1 \in Due
<1>1. StackOK(heap, stack)
  BY ParsingStack
<1>2. Shiftable(stack[Len(stack)].items) = {}
  BY <1>1, AcceptAlone DEF Items, Last
<1> QED BY <1>2 DEF Items, Last, Due

LEMMA InitCounting == Init => Counting
<1> SUFFICES ASSUME Init PROVE Counting
  OBVIOUS
<1>1. ahead \in Seq(Terminals) /\ MaxTokens \in Nat
  BY SyntaxAssumption DEF Init
<1>2. pushed = 0 /\ released = FALSE /\ lookahead.sym = "none"
  BY DEF Init, NoToken
<1>3. pushed \in Nat /\ pushed <= MaxTokens + 1 /\ ~(pushed > MaxTokens)
  BY <1>1, <1>2
<1> QED BY <1>1, <1>2, <1>3 DEF Counting

LEMMA PushCounts ==
    ASSUME Growth, Counting, pushToken
    PROVE  Counting'
<1>1. Parsing /\ Due = {} /\ lookahead = NoToken /\ released' = released /\ MaxTokens \in Nat
  BY SyntaxAssumption DEF pushToken
<1>2. pushed <= MaxTokens
  <2>1. ~Ended
    BY <1>1, NoneLeft DEF Ended, NoToken
  <2> QED BY <1>1, <2>1 DEF Counting
<1>3. PICK sym \in Terminals \cup {"END"} :
        /\ IF ahead # <<>>
           THEN sym = Head(ahead) /\ ahead' = Tail(ahead) /\ UNCHANGED pushed
           ELSE /\ sym # "END" => pushed < MaxTokens
                /\ pushed' = pushed + 1 /\ UNCHANGED ahead
        /\ lookahead'.sym = sym
  <2>1. PICK sym \in Terminals \cup {"END"} :
          /\ IF ahead # <<>>
             THEN sym = Head(ahead) /\ ahead' = Tail(ahead) /\ UNCHANGED pushed
             ELSE /\ sym # "END" => pushed < MaxTokens
                  /\ pushed' = pushed + 1 /\ UNCHANGED ahead
          /\ IF sym \in Strings
             THEN heap' = Append(heap, calloc("String"))
                  /\ lookahead' = [sym |-> sym, ptr |-> Len(heap) + 1]
             ELSE lookahead' = [sym |-> sym, ptr |-> 0] /\ UNCHANGED heap
    BY DEF pushToken
  <2>2. lookahead'.sym = sym
    BY <2>1
  <2> QED BY <2>1, <2>2
<1>4. ahead \in Seq(Terminals) /\ pushed \in Nat
  BY DEF Counting
<1>5. ahead' \in Seq(Terminals)
  BY <1>3, <1>4
<1>6. pushed' \in Nat /\ pushed' <= MaxTokens + 1
  BY <1>1, <1>2, <1>3, <1>4
<1>7. ASSUME pushed' > MaxTokens PROVE lookahead'.sym = "END"
  BY <1>1, <1>2, <1>3, <1>4, <1>7
<1>8. released' \in BOOLEAN
  BY <1>1 DEF Counting
<1> QED BY <1>3, <1>5, <1>6, <1>7, <1>8 DEF Counting, Ended

\* A step that takes no token.
LEMMA StillCounted ==
    ASSUME Counting, UNCHANGED input, lookahead' = lookahead \/ lookahead' = NoToken,
           released' \in BOOLEAN, Ended => Ended'
    PROVE  Counting'
<1>1. lookahead'.sym \in Terminals \cup {"none", "END"}
  BY DEF Counting, NoToken
<1> QED BY <1>1 DEF Counting, input

LEMMA ShiftedTop ==
    ASSUME StackOK(heap, stack), NEW I, NEW p, stack' = Append(stack, [items |-> I, ptr |-> p])
    PROVE  stack' # <<>> /\ Items' = I
<1>1. PICK s, e : s = stack' /\ e = [items |-> I, ptr |-> p]
  OBVIOUS
<1>2. stack \in Seq(Frames) /\ Len(stack) \in Nat
  BY StackFacts DEF StackOK
<1>3. s = Append(stack, e) /\ e.items = I
  BY <1>1
<1>4. Len(s) = Len(stack) + 1 /\ s[Len(stack) + 1] = e
  BY <1>2, <1>3
<1>5. s # <<>> /\ Last(s).items = I
  BY <1>2, <1>3, <1>4 DEF Last
<1> QED BY <1>1, <1>5 DEF Items

LEMMA ShiftEnds ==
    ASSUME Growth, shift, Ended
    PROVE  Ended'
<1>1. Parsing /\ lookahead.sym \in Shiftable(Items)
  BY DEF shift
<1>2. PICK s : s = Append(stack, [items |-> Goto(Items, lookahead.sym), ptr |-> lookahead.ptr]) /\ stack' = s
  BY DEF shift
<1>3. Grows /\ StackOK(heap, stack) /\ stack # <<>>
  BY <1>1, ParsingStack
<1>4. lookahead.sym = "END"
  BY <1>1, NoneLeft DEF Ended
<1>5. Items = stack[Len(stack)].items /\ Items \subseteq AllItems
  BY <1>3, StackFacts DEF Items, Last
<1>6. lookahead.sym \in NextSymbols(Items)
  BY <1>1, <1>2, <1>3, <1>5, ShiftKeeps DEF Grows
<1>7. 1 \in Complete(Goto(Items, "END"))
  BY <1>4, <1>5, <1>6, EndRead
<1>8. stack' # <<>> /\ Items' = Goto(Items, "END")
  BY <1>2, <1>3, <1>4, ShiftedTop
<1> QED BY <1>7, <1>8 DEF Ended

LEMMA NextCounting == Growth /\ Counting /\ [Next]_vars => Counting'
<1> SUFFICES ASSUME Growth, Counting, [Next]_vars PROVE Counting'
  OBVIOUS
<1>0. released \in BOOLEAN
  BY DEF Counting
<1>1. CASE pushToken
  BY <1>1, PushCounts
<1>2. CASE shift
  <2>1. UNCHANGED input /\ lookahead' = NoToken /\ released' = released
    BY <1>2 DEF shift
  <2> QED BY <1>0, <1>2, <2>1, ShiftEnds, StillCounted
<1>3. CASE accept
  <2>1. UNCHANGED input /\ lookahead' = lookahead /\ released' = released /\ ~Parsing'
    BY <1>3 DEF accept, Parsing
  <2> QED BY <1>0, <2>1, StillCounted DEF Ended
<1>4. CASE syntaxError
  <2>1. UNCHANGED input /\ lookahead' = NoToken /\ released' = released /\ ~Parsing'
    BY <1>4 DEF syntaxError, Parsing
  <2> QED BY <1>0, <2>1, StillCounted DEF Ended
<1>5. ASSUME NEW r \in Due, reduce(r) PROVE Counting'
  <2>1. Parsing /\ Grows /\ StackOK(heap, stack) /\ r \in Complete(Items)
    BY ParsingStack, DueComplete DEF Due
  <2>2. r # 1 /\ lookahead' = lookahead
    BY <1>5, <2>1, ReduceGrows
  <2>3. UNCHANGED input /\ released' = released
    <3>1. \E g, p : Does(r, g, p)
      BY <1>5, <2>1, ReduceDoes
    <3> QED BY <3>1 DEF Does, Return
  <2>4. 1 \notin Complete(Items)
    <3>1. Items = stack[Len(stack)].items /\ Len(stack) \in 1 .. Len(stack)
      BY <2>1, StackFacts DEF Items, Last
    <3> QED BY <2>1, <2>2, <3>1, CompleteOne
  <2>5. Ended => Ended'
    BY <2>1, <2>2, <2>4 DEF Ended
  <2> QED BY <1>0, <2>2, <2>3, <2>5, StillCounted
<1>6. CASE UnknownLexemeAction
  <2>1. UNCHANGED input /\ lookahead' = lookahead /\ released' = released /\ ~Parsing'
    BY <1>6 DEF UnknownLexemeAction, Parsing
  <2> QED BY <1>0, <2>1, StillCounted DEF Ended
<1>7. CASE release
  <2>1. UNCHANGED input /\ lookahead' = lookahead /\ released' = TRUE /\ ~Parsing'
    BY <1>7 DEF release, Parsing
  <2> QED BY <2>1, StillCounted DEF Ended
<1>8. CASE UNCHANGED vars
  <2>1. /\ UNCHANGED input /\ lookahead' = lookahead /\ released' = released
        /\ stack' = stack /\ status' = status
    BY <1>8 DEF vars, input
  <2>2. Ended => Ended'
    BY <2>1 DEF Ended, Parsing, Items, Last
  <2> QED BY <1>0, <2>1, <2>2, StillCounted
<1> QED BY <1>1, <1>2, <1>3, <1>4, <1>5, <1>6, <1>7, <1>8 DEF Next, parse

LEMMA HeapTyped ==
    ASSUME Growth
    PROVE  /\ \A f \in Owning : heap[f[1]][f[2]] \in DOMAIN heap /\ heap[heap[f[1]][f[2]]].tag = f[3]
           /\ \A t \in Tails, c \in DOMAIN heap : heap[c][t] \in 0 .. Len(heap)
           /\ program \in 0 .. Len(heap) /\ DOMAIN heap = 1 .. Len(heap) /\ Len(heap) \in Nat
<1>1. PICK K : Root(heap, K, program)
  BY GrowthSound
<1>2. Shape(heap) /\ Typed(heap) /\ K \subseteq DOMAIN heap
  BY <1>1 DEF Root, Sound, Ownership, Rooted
<1>3. DOMAIN heap = 1 .. Len(heap) /\ Len(heap) \in Nat
  BY <1>2 DEF Shape
<1>4. ASSUME NEW c \in DOMAIN heap
      PROVE  /\ heap[c].tag \in Tags
             /\ \A x \in Names(heap[c].tag) \ {"tag"} : heap[c][x] \in 0 .. Len(heap)
  BY <1>2 DEF Shape
<1>5. ASSUME NEW f \in Owning
      PROVE  heap[f[1]][f[2]] \in DOMAIN heap /\ heap[heap[f[1]][f[2]]].tag = f[3]
  <2>1. PICK c \in DOMAIN heap : \E x, u :
            <<heap[c].tag, x, u>> \in Slots /\ f = <<c, x, u>> /\ heap[c][x] # 0
    BY OwningAre
  <2>2. PICK x, u : <<heap[c].tag, x, u>> \in Slots /\ f = <<c, x, u>> /\ heap[c][x] # 0
    BY <2>1
  <2>3. x \in Names(heap[c].tag) \ {"tag"}
    BY <2>2, <1>4, SlotNames
  <2>4. heap[c][x] \in 1 .. Len(heap)
    BY <2>2, <2>3, <1>3, <1>4
  <2>5. heap[heap[c][x]].tag = u
    BY <2>2, <1>2 DEF Typed
  <2> QED BY <2>2, <2>4, <2>5, <1>3
<1>6. ASSUME NEW t \in Tails, NEW c \in DOMAIN heap PROVE heap[c][t] \in 0 .. Len(heap)
  BY <1>4, SlotNames
<1>7. program \in 0 .. Len(heap)
  BY <1>1, <1>2, <1>3 DEF Root
<1> QED BY <1>3, <1>5, <1>6, <1>7

LEMMA StackTyped ==
    ASSUME Growth
    PROVE  /\ \A i \in DOMAIN stack : stack[i].ptr \in 0 .. Len(heap)
           /\ lookahead.ptr \in 0 .. Len(heap)
           /\ Cardinality(Due) <= 1
<1>0. Len(heap) \in Nat
  BY HeapTyped
<1>1. CASE stack = <<>>
  <2>1. lookahead = NoToken /\ ~Parsing
    BY <1>1 DEF Growth, Parsing
  <2>2. Due = {}
    BY <2>1 DEF Due
  <2>3. Cardinality(Due) = 0
    BY <2>2, FS_EmptySet
  <2> QED BY <1>0, <1>1, <2>1, <2>3 DEF NoToken
<1>2. CASE stack # <<>>
  <2>1. Growing(heap, stack, lookahead) /\ StackOK(heap, stack)
    BY <1>2 DEF Growth, OnStack, Grows, Growing
  <2>2. PICK n : n = Len(stack)
    OBVIOUS
  <2>3. /\ n \in Nat /\ n > 0 /\ DOMAIN stack = 1 .. n
        /\ \A i \in 1 .. n + 1 : PtrAt(stack, lookahead, i) \in 0 .. Len(heap)
        /\ \A i \in 1 .. n : PtrAt(stack, lookahead, i) = stack[i].ptr
        /\ PtrAt(stack, lookahead, n + 1) = lookahead.ptr
    BY <2>1, <2>2, HeldFacts
  <2>4. ASSUME NEW i \in DOMAIN stack PROVE stack[i].ptr \in 0 .. Len(heap)
    BY <2>3
  <2>5. lookahead.ptr \in 0 .. Len(heap)
    <3>1. n + 1 \in 1 .. n + 1
      BY <2>3
    <3> QED BY <2>3, <3>1
  <2>6. \A r, q : r \in Due /\ q \in Due => r = q
    <3>1. Items = stack[n].items /\ n \in 1 .. n
      BY <2>2, <2>3 DEF Items, Last
    <3>2. Due \subseteq Complete(stack[n].items)
      BY <3>1, DueComplete
    <3> QED BY <2>1, <2>2, <3>1, <3>2, CompleteOne
  <2>7. Cardinality(Due) <= 1
    <3>1. CASE Due = {}
      BY <3>1, FS_EmptySet
    <3>2. ASSUME NEW r \in Due PROVE Cardinality(Due) <= 1
      <4>1. Due = {r}
        BY <2>6
      <4>2. Cardinality({r}) = 1
        BY FS_Singleton
      <4> QED BY <4>1, <4>2
    <3> QED BY <3>1, <3>2
  <2> QED BY <2>4, <2>5, <2>7
<1> QED BY <1>1, <1>2

LEMMA FreedTyped ==
    ASSUME Growth, Freeing
    PROVE  ToSet(freed) \subseteq DOMAIN heap
<1>1. DOMAIN heap = 1 .. Len(heap)
  BY HeapTyped
<1>2. freed \in Seq(1 .. Len(heap))
  <2>1. <<>> \in Seq(1 .. Len(heap))
    OBVIOUS
  <2>2. freed \in Seq(1 .. Len(heap)) \/ freed = <<>>
    BY DEF Freeing, Done, Clear
  <2> QED BY <2>1, <2>2
<1> QED BY <1>1, <1>2 DEF ToSet

LEMMA WellTyped ==
    ASSUME Growth, Freeing, Counting
    PROVE  TypeOK
<1>1. /\ \A f \in Owning : heap[f[1]][f[2]] \in DOMAIN heap /\ heap[heap[f[1]][f[2]]].tag = f[3]
      /\ \A t \in Tails, c \in DOMAIN heap : heap[c][t] \in 0 .. Len(heap)
      /\ program \in 0 .. Len(heap)
  BY HeapTyped
<1>2. /\ \A i \in DOMAIN stack : stack[i].ptr \in 0 .. Len(heap)
      /\ lookahead.ptr \in 0 .. Len(heap)
      /\ Cardinality(Due) <= 1
  BY StackTyped
<1>3. ToSet(freed) \subseteq DOMAIN heap
  BY FreedTyped
<1>4. pushed \in 0 .. MaxTokens + 1
  BY SyntaxAssumption DEF Counting
<1>5. status \in {"IN_PROGRESS", "SUCCEEDED", "FAILED"}
  BY DEF Growth
<1> QED BY <1>1, <1>2, <1>3, <1>4, <1>5 DEF TypeOK, Counting

\* Every pointer leads to a cell of the kind its field is declared with, and the parser never
\* has a choice between two rules (Bison's tables hold one action for each state and token).
THEOREM TypeOKHolds == Spec => []TypeOK
<1>1. Init => Counting
  BY InitCounting
<1>2. Growth /\ Counting /\ [Next]_vars => Counting'
  BY NextCounting
<1>3. Spec => []Counting
  BY <1>1, <1>2, GrowthHolds, PTL DEF Spec
<1>4. Growth /\ Freeing /\ Counting => TypeOK
  BY WellTyped
<1> QED BY <1>3, <1>4, GrowthHolds, FreeingHolds, PTL

-----------------------------------------------------------------------------
(* The parser keeps the contract of the front end                          *)

\* Few rules make what comes before the program.
Early(r) ==
    /\ Rules[r].lhs = "schema_decl" => r = 3
    /\ Rules[r].lhs = "program" => r = 2
    /\ Rules[r].lhs = "accept" => r = 1
LEMMA EarlyRules == ASSUME NEW r \in 1 .. 45 PROVE Early(r)
<1>1. CASE r = 1
  <2>1. Rules[1].lhs = "accept"
    BY DEF Rules, R
  <2> QED BY <1>1, <2>1 DEF Early
<1>2. CASE r = 2
  <2>1. Rules[2].lhs = "program"
    BY DEF Rules, R
  <2> QED BY <1>2, <2>1 DEF Early
<1>3. CASE r = 3
  <2>1. Rules[3].lhs = "schema_decl"
    BY DEF Rules, R
  <2> QED BY <1>3, <2>1 DEF Early
<1>4. CASE r = 4
  <2>1. Rules[4].lhs = "schema_body"
    BY DEF Rules, R
  <2> QED BY <1>4, <2>1 DEF Early
<1>5. CASE r = 5
  <2>1. Rules[5].lhs = "schema_body"
    BY DEF Rules, R
  <2> QED BY <1>5, <2>1 DEF Early
<1>6. CASE r = 6
  <2>1. Rules[6].lhs = "schema_body"
    BY DEF Rules, R
  <2> QED BY <1>6, <2>1 DEF Early
<1>7. CASE r = 7
  <2>1. Rules[7].lhs = "entity_decl"
    BY DEF Rules, R
  <2> QED BY <1>7, <2>1 DEF Early
<1>8. CASE r = 8
  <2>1. Rules[8].lhs = "entity_decl"
    BY DEF Rules, R
  <2> QED BY <1>8, <2>1 DEF Early
<1>9. CASE r = 9
  <2>1. Rules[9].lhs = "entity_decl"
    BY DEF Rules, R
  <2> QED BY <1>9, <2>1 DEF Early
<1>10. CASE r = 10
  <2>1. Rules[10].lhs = "entity_decl"
    BY DEF Rules, R
  <2> QED BY <1>10, <2>1 DEF Early
<1>11. CASE r = 11
  <2>1. Rules[11].lhs = "entity_body"
    BY DEF Rules, R
  <2> QED BY <1>11, <2>1 DEF Early
<1>12. CASE r = 12
  <2>1. Rules[12].lhs = "entity_body"
    BY DEF Rules, R
  <2> QED BY <1>12, <2>1 DEF Early
<1>13. CASE r = 13
  <2>1. Rules[13].lhs = "entity_body"
    BY DEF Rules, R
  <2> QED BY <1>13, <2>1 DEF Early
<1>14. CASE r = 14
  <2>1. Rules[14].lhs = "entity_body"
    BY DEF Rules, R
  <2> QED BY <1>14, <2>1 DEF Early
<1>15. CASE r = 15
  <2>1. Rules[15].lhs = "attribute_decl"
    BY DEF Rules, R
  <2> QED BY <1>15, <2>1 DEF Early
<1>16. CASE r = 16
  <2>1. Rules[16].lhs = "modifier_list"
    BY DEF Rules, R
  <2> QED BY <1>16, <2>1 DEF Early
<1>17. CASE r = 17
  <2>1. Rules[17].lhs = "modifier_list"
    BY DEF Rules, R
  <2> QED BY <1>17, <2>1 DEF Early
<1>18. CASE r = 18
  <2>1. Rules[18].lhs = "modifier"
    BY DEF Rules, R
  <2> QED BY <1>18, <2>1 DEF Early
<1>19. CASE r = 19
  <2>1. Rules[19].lhs = "modifier"
    BY DEF Rules, R
  <2> QED BY <1>19, <2>1 DEF Early
<1>20. CASE r = 20
  <2>1. Rules[20].lhs = "modifier"
    BY DEF Rules, R
  <2> QED BY <1>20, <2>1 DEF Early
<1>21. CASE r = 21
  <2>1. Rules[21].lhs = "primary_decl"
    BY DEF Rules, R
  <2> QED BY <1>21, <2>1 DEF Early
<1>22. CASE r = 22
  <2>1. Rules[22].lhs = "qualified_identifier_list"
    BY DEF Rules, R
  <2> QED BY <1>22, <2>1 DEF Early
<1>23. CASE r = 23
  <2>1. Rules[23].lhs = "qualified_identifier_list"
    BY DEF Rules, R
  <2> QED BY <1>23, <2>1 DEF Early
<1>24. CASE r = 24
  <2>1. Rules[24].lhs = "qualified_identifier"
    BY DEF Rules, R
  <2> QED BY <1>24, <2>1 DEF Early
<1>25. CASE r = 25
  <2>1. Rules[25].lhs = "qualified_identifier"
    BY DEF Rules, R
  <2> QED BY <1>25, <2>1 DEF Early
<1>26. CASE r = 26
  <2>1. Rules[26].lhs = "assert_decl"
    BY DEF Rules, R
  <2> QED BY <1>26, <2>1 DEF Early
<1>27. CASE r = 27
  <2>1. Rules[27].lhs = "relationship_decl"
    BY DEF Rules, R
  <2> QED BY <1>27, <2>1 DEF Early
<1>28. CASE r = 28
  <2>1. Rules[28].lhs = "relationship_participant_list"
    BY DEF Rules, R
  <2> QED BY <1>28, <2>1 DEF Early
<1>29. CASE r = 29
  <2>1. Rules[29].lhs = "relationship_participant_list"
    BY DEF Rules, R
  <2> QED BY <1>29, <2>1 DEF Early
<1>30. CASE r = 30
  <2>1. Rules[30].lhs = "relationship_participant"
    BY DEF Rules, R
  <2> QED BY <1>30, <2>1 DEF Early
<1>31. CASE r = 31
  <2>1. Rules[31].lhs = "relationship_participant"
    BY DEF Rules, R
  <2> QED BY <1>31, <2>1 DEF Early
<1>32. CASE r = 32
  <2>1. Rules[32].lhs = "participation_opt"
    BY DEF Rules, R
  <2> QED BY <1>32, <2>1 DEF Early
<1>33. CASE r = 33
  <2>1. Rules[33].lhs = "participation_opt"
    BY DEF Rules, R
  <2> QED BY <1>33, <2>1 DEF Early
<1>34. CASE r = 34
  <2>1. Rules[34].lhs = "relationship_body"
    BY DEF Rules, R
  <2> QED BY <1>34, <2>1 DEF Early
<1>35. CASE r = 35
  <2>1. Rules[35].lhs = "relationship_body"
    BY DEF Rules, R
  <2> QED BY <1>35, <2>1 DEF Early
<1>36. CASE r = 36
  <2>1. Rules[36].lhs = "attribute_list"
    BY DEF Rules, R
  <2> QED BY <1>36, <2>1 DEF Early
<1>37. CASE r = 37
  <2>1. Rules[37].lhs = "attribute_list"
    BY DEF Rules, R
  <2> QED BY <1>37, <2>1 DEF Early
<1>38. CASE r = 38
  <2>1. Rules[38].lhs = "type_spec"
    BY DEF Rules, R
  <2> QED BY <1>38, <2>1 DEF Early
<1>39. CASE r = 39
  <2>1. Rules[39].lhs = "type_spec"
    BY DEF Rules, R
  <2> QED BY <1>39, <2>1 DEF Early
<1>40. CASE r = 40
  <2>1. Rules[40].lhs = "type_spec"
    BY DEF Rules, R
  <2> QED BY <1>40, <2>1 DEF Early
<1>41. CASE r = 41
  <2>1. Rules[41].lhs = "expression"
    BY DEF Rules, R
  <2> QED BY <1>41, <2>1 DEF Early
<1>42. CASE r = 42
  <2>1. Rules[42].lhs = "expression"
    BY DEF Rules, R
  <2> QED BY <1>42, <2>1 DEF Early
<1>43. CASE r = 43
  <2>1. Rules[43].lhs = "expression"
    BY DEF Rules, R
  <2> QED BY <1>43, <2>1 DEF Early
<1>44. CASE r = 44
  <2>1. Rules[44].lhs = "literal"
    BY DEF Rules, R
  <2> QED BY <1>44, <2>1 DEF Early
<1>45. CASE r = 45
  <2>1. Rules[45].lhs = "literal"
    BY DEF Rules, R
  <2> QED BY <1>45, <2>1 DEF Early
<1> QED BY <1>1, <1>2, <1>3, <1>4, <1>5, <1>6, <1>7, <1>8, <1>9, <1>10, <1>11, <1>12, <1>13, <1>14, <1>15, <1>16, <1>17, <1>18, <1>19, <1>20, <1>21, <1>22, <1>23, <1>24, <1>25, <1>26, <1>27, <1>28, <1>29, <1>30, <1>31, <1>32, <1>33, <1>34, <1>35, <1>36, <1>37, <1>38, <1>39, <1>40, <1>41, <1>42, <1>43, <1>44, <1>45

\* What comes next in an item.
Awaiting(e, X) == Unread(e) /\ NextSymbol(e) = X
LEMMA AwaitingIs ==
    ASSUME NEW r \in 1 .. 45, NEW n \in Nat, NEW m, m = n + 1, m \in 1 .. Len(Rules[r].rhs),
           NEW e, e = <<r, n>>
    PROVE  Awaiting(e, Rules[r].rhs[m])
<1>1. PICK k : k = Len(Rules[r].rhs)
  OBVIOUS
<1>2. k \in Nat
  BY <1>1, RhsLong
<1>3. e[1] = r /\ e[2] = n /\ n < k
  BY <1>1, <1>2
<1>4. Unread(e)
  BY <1>1, <1>3 DEF Unread
<1>5. NextSymbol(e) = Rules[r].rhs[m]
  BY <1>3 DEF NextSymbol
<1> QED BY <1>4, <1>5 DEF Awaiting

LEMMA Closing ==
    ASSUME NEW I, I \subseteq AllItems, NEW X, X \in NextSymbols(I), NEW e, e \in Goto(I, X), e[2] > 0,
           NEW r \in 1 .. 45, NEW Y, Y = Rules[r].lhs, Awaiting(e, Y)
    PROVE  <<r, 0>> \in Goto(I, X)
<1>1. PICK K : K = {<<i[1], i[2] + 1>> : i \in {j \in I : Unread(j) /\ NextSymbol(j) = X}}
  OBVIOUS
<1>2. Goto(I, X) = Closed(K)
  BY <1>1 DEF Goto
<1>3. K \subseteq AllItems
  <2> SUFFICES ASSUME NEW i \in K PROVE i \in AllItems
    OBVIOUS
  <2>1. PICK j \in I : Unread(j) /\ NextSymbol(j) = X /\ i = <<j[1], j[2] + 1>>
    BY <1>1
  <2>2. i \in Goto(I, X)
    BY <2>1, GotoIs
  <2> QED BY <2>2, GotoIs DEF Stated
<1>4. e \in K
  <2>1. e \in K \/ \E q \in 1 .. 45 : e = <<q, 0>>
    BY <1>2, <1>3, ClosedIs
  <2> QED BY <2>1
<1>5. \A j \in K : \A q \in 1 .. 45 :
          Unread(j) /\ NextSymbol(j) = Rules[q].lhs => <<q, 0>> \in Closed(K)
  BY <1>3, ClosedIs
<1> QED BY <1>2, <1>4, <1>5 DEF Awaiting

LEMMA SchemaItems ==
    /\ \A e : e = <<3, 2>> => Awaiting(e, "schema_body") /\ e[2] > 0
    /\ \A e : e = <<5, 0>> => Awaiting(e, "schema_body")
    /\ \A e : e = <<5, 1>> => Awaiting(e, "entity_decl") /\ e[2] > 0
    /\ \A e : e = <<7, 0>> => Awaiting(e, "ENTITY")
    /\ Rules[5].lhs = "schema_body" /\ Rules[7].lhs = "entity_decl"
    /\ Len(Rules[3].rhs) = 3 /\ Rules[3].rhs[3] = "schema_body"
<1>1. /\ Len(Rules[3].rhs) = 3 /\ Rules[3].rhs[3] = "schema_body"
      /\ Len(Rules[5].rhs) = 2 /\ Rules[5].rhs[1] = "schema_body" /\ Rules[5].rhs[2] = "entity_decl"
      /\ Len(Rules[7].rhs) = 5 /\ Rules[7].rhs[1] = "ENTITY"
  BY RhsAre
<1>2. Rules[5].lhs = "schema_body" /\ Rules[7].lhs = "entity_decl"
  BY DEF Rules, R
<1>3. ASSUME NEW e, e = <<3, 2>> PROVE Awaiting(e, "schema_body") /\ e[2] > 0
  <2>1. PICK r, n, m : r = 3 /\ n = 2 /\ m = 3
    OBVIOUS
  <2>2. /\ r \in 1 .. 45 /\ n \in Nat /\ m = n + 1 /\ m \in 1 .. Len(Rules[r].rhs) /\ e = <<r, n>>
        /\ Rules[r].rhs[m] = "schema_body"
    BY <2>1, <1>1, <1>3
  <2>3. Awaiting(e, Rules[r].rhs[m])
    BY <2>2, AwaitingIs
  <2> QED BY <1>3, <2>2, <2>3
<1>4. ASSUME NEW e, e = <<5, 0>> PROVE Awaiting(e, "schema_body")
  <2>1. PICK r, n, m : r = 5 /\ n = 0 /\ m = 1
    OBVIOUS
  <2>2. /\ r \in 1 .. 45 /\ n \in Nat /\ m = n + 1 /\ m \in 1 .. Len(Rules[r].rhs) /\ e = <<r, n>>
        /\ Rules[r].rhs[m] = "schema_body"
    BY <2>1, <1>1, <1>4
  <2>3. Awaiting(e, Rules[r].rhs[m])
    BY <2>2, AwaitingIs
  <2> QED BY <1>4, <2>2, <2>3
<1>5. ASSUME NEW e, e = <<5, 1>> PROVE Awaiting(e, "entity_decl") /\ e[2] > 0
  <2>1. PICK r, n, m : r = 5 /\ n = 1 /\ m = 2
    OBVIOUS
  <2>2. /\ r \in 1 .. 45 /\ n \in Nat /\ m = n + 1 /\ m \in 1 .. Len(Rules[r].rhs) /\ e = <<r, n>>
        /\ Rules[r].rhs[m] = "entity_decl"
    BY <2>1, <1>1, <1>5
  <2>3. Awaiting(e, Rules[r].rhs[m])
    BY <2>2, AwaitingIs
  <2> QED BY <1>5, <2>2, <2>3
<1>6. ASSUME NEW e, e = <<7, 0>> PROVE Awaiting(e, "ENTITY")
  <2>1. PICK r, n, m : r = 7 /\ n = 0 /\ m = 1
    OBVIOUS
  <2>2. /\ r \in 1 .. 45 /\ n \in Nat /\ m = n + 1 /\ m \in 1 .. Len(Rules[r].rhs) /\ e = <<r, n>>
        /\ Rules[r].rhs[m] = "ENTITY"
    BY <2>1, <1>1, <1>6
  <2>3. Awaiting(e, Rules[r].rhs[m])
    BY <2>2, AwaitingIs
  <2> QED BY <1>6, <2>2, <2>3
<1> QED BY <1>1, <1>2, <1>3, <1>4, <1>5, <1>6

\* After the body of a schema a declaration may come: the parser needs a token to go on.
LEMMA SchemaWaits ==
    ASSUME NEW h, NEW st, StackOK(h, st), NEW i \in 1 .. Len(st), 3 \in Complete(st[i].items)
    PROVE  Shiftable(st[i].items) # {}
<1>1. PICK r, k : r = 3 /\ k = 3
  OBVIOUS
<1>2. r \in 1 .. 45 /\ k = Len(Rules[r].rhs) /\ r \in Complete(st[i].items)
  BY <1>1, SchemaItems
<1>3. <<r, k>> \in st[i].items
  BY <1>2, CompleteRead
<1>4. HasRead(st, i, r, k)
  BY <1>1, <1>3 DEF HasRead
<1>5. Backs(st, i, r, k)
  BY <1>4, Back
<1>6. PICK j, e, d : j = i - 1 /\ e = <<3, 2>> /\ d = <<3, 3>>
  OBVIOUS
<1>7. j \in 1 .. Len(st) /\ e \in st[j].items /\ e[1] = 3 /\ e[2] = 2 /\ e[2] > 0
  BY <1>1, <1>5, <1>6 DEF Backs
<1>8. d \in st[i].items /\ d[1] = 3 /\ d[2] = 3 /\ d[2] > 0
  BY <1>1, <1>3, <1>6
<1>9. i \in 2 .. Len(st) /\ j \in 2 .. Len(st)
  <2>1. i \in 2 .. Len(st)
    BY <1>8, ReadOne
  <2>2. j \in 2 .. Len(st)
    BY <1>7, ReadOne
  <2> QED BY <2>1, <2>2
<1>10. PICK Y : ReadBy(h, st, i, Y)
  BY <1>9, StateRead
<1>11. PICK Z : ReadBy(h, st, j, Z)
  BY <1>9, StateRead
<1>12. Y = "schema_body"
  <2>1. Rules[d[1]].rhs[d[2]] = Y
    BY <1>8, <1>10 DEF ReadBy
  <2> QED BY <2>1, <1>8, SchemaItems
<1>13. PICK I, J : I = st[j - 1].items /\ J = st[j].items
  OBVIOUS
<1>14. I \subseteq AllItems /\ Z \in NextSymbols(I) /\ J = Goto(I, Z)
  BY <1>11, <1>13 DEF ReadBy, Reads
<1>15. J \subseteq AllItems /\ Y \in NextSymbols(J) /\ st[i].items = Goto(J, Y)
  BY <1>6, <1>10, <1>13 DEF ReadBy, Reads
<1>16. <<5, 0>> \in J
  <2>1. PICK X : X = "schema_body"
    OBVIOUS
  <2>2. Awaiting(e, X) /\ e[2] > 0 /\ X = Rules[5].lhs /\ 5 \in 1 .. 45
    BY <1>6, <2>1, SchemaItems
  <2>3. e \in Goto(I, Z)
    BY <1>7, <1>13, <1>14
  <2> QED BY <1>14, <2>2, <2>3, Closing
<1>17. <<5, 1>> \in Goto(J, Y)
  <2>1. PICK a : a = <<5, 0>>
    OBVIOUS
  <2>2. a \in J /\ Unread(a) /\ NextSymbol(a) = Y
    BY <1>12, <1>16, <2>1, SchemaItems DEF Awaiting
  <2>3. <<a[1], a[2] + 1>> \in Goto(J, Y)
    BY <1>15, <2>2, GotoIs
  <2>4. <<a[1], a[2] + 1>> = <<5, 1>>
    BY <2>1
  <2> QED BY <2>3, <2>4
<1>18. <<7, 0>> \in Goto(J, Y)
  <2>1. PICK X, a : X = "entity_decl" /\ a = <<5, 1>>
    OBVIOUS
  <2>2. Awaiting(a, X) /\ a[2] > 0 /\ X = Rules[7].lhs /\ 7 \in 1 .. 45 /\ a \in Goto(J, Y)
    BY <1>17, <2>1, SchemaItems
  <2> QED BY <1>15, <2>2, Closing
<1>19. "ENTITY" \in NextSymbols(st[i].items)
  <2>1. PICK a : a = <<7, 0>>
    OBVIOUS
  <2>2. a \in st[i].items /\ Unread(a) /\ NextSymbol(a) = "ENTITY"
    BY <1>15, <1>18, <2>1, SchemaItems DEF Awaiting
  <2> QED BY <2>2 DEF NextSymbols
<1>20. "ENTITY" \notin Heads
  BY HeadsAre DEF HeadNames
<1> QED BY <1>19, <1>20 DEF Shiftable, Left

\* Once the program is made only the end of the input is read.
AtEnd(I) == NextSymbols(I) \subseteq {"END"} /\ Complete(I) \subseteq {1}
LEMMA AfterProgram ==
    ASSUME NEW h, NEW st, NEW i, ReadBy(h, st, i, "program")
    PROVE  AtEnd(st[i].items)
<1>1. PICK J : J = st[i].items
  OBVIOUS
<1>2. Stated(J) /\ J \subseteq AllItems /\ \A e \in J : e[2] > 0 => Rules[e[1]].rhs[e[2]] = "program"
  BY <1>1 DEF ReadBy, Stated
<1>3. ASSUME NEW e \in J, e[2] > 0 PROVE e = <<1, 1>> /\ Awaiting(e, "END")
  <2>1. PICK r, n : r = e[1] /\ n = e[2]
    OBVIOUS
  <2>2. r \in 1 .. 45 /\ n \in Nat /\ e = <<r, n>> /\ n <= Len(Rules[r].rhs) /\ n > 0
    BY <1>2, <1>3, <2>1, ItemIs
  <2>3. Len(Rules[r].rhs) \in Nat
    BY <2>2, RhsLong
  <2>4. n \in 1 .. Len(Rules[r].rhs)
    BY <2>2, <2>3
  <2>5. Rules[r].rhs[n] = "program"
    BY <1>2, <1>3, <2>1
  <2>6. r = 1 /\ n = 1
    BY <2>2, <2>4, <2>5, RhsSymbols
  <2>7. PICK m : m = 2
    OBVIOUS
  <2>8. m = n + 1 /\ m \in 1 .. Len(Rules[r].rhs) /\ Rules[r].rhs[m] = "END"
    BY <2>6, <2>7, FirstRule
  <2>9. Awaiting(e, Rules[r].rhs[m])
    BY <2>2, <2>8, AwaitingIs
  <2> QED BY <2>2, <2>6, <2>8, <2>9
<1>4. ASSUME NEW e \in J PROVE e[2] > 0
  <2> SUFFICES ASSUME ~(e[2] > 0) PROVE FALSE
    OBVIOUS
  <2>1. e[1] \in 1 .. 45 /\ e[2] \in Nat /\ e = <<e[1], e[2]>>
    BY <1>2, ItemIs
  <2>2. PICK r : r = e[1]
    OBVIOUS
  <2>3. r \in 1 .. 45 /\ <<r, 0>> \in J
    BY <2>1, <2>2
  <2>4. PICK j \in J : j[2] > 0 /\ Awaits(j, Rules[r].lhs)
    BY <2>3, <1>2 DEF Stated
  <2>5. NextSymbol(j) = "END" /\ NextSymbol(j) \in Heads
    BY <2>4, <1>3 DEF Awaits, Awaiting
  <2> QED BY <2>5, HeadsAre DEF HeadNames
<1>5. \A e \in J : Unread(e) /\ NextSymbol(e) = "END"
  BY <1>3, <1>4 DEF Awaiting
<1>6. NextSymbols(J) \subseteq {"END"} /\ Complete(J) = {}
  BY <1>5 DEF NextSymbols, Complete
<1> QED BY <1>1, <1>6 DEF AtEnd

LEMMA AfterEnd ==
    ASSUME NEW h, NEW st, NEW i, ReadBy(h, st, i, "END")
    PROVE  AtEnd(st[i].items) /\ NextSymbols(st[i].items) = {}
<1>1. PICK J : J = st[i].items
  OBVIOUS
<1>2. Stated(J) /\ J \subseteq AllItems /\ \A e \in J : e[2] > 0 => Rules[e[1]].rhs[e[2]] = "END"
  BY <1>1 DEF ReadBy, Stated
<1>3. NextSymbols(J) = {}
  BY <1>1, EndedState, KeyEnds
<1>4. ASSUME NEW e \in J PROVE e[1] = 1
  <2>1. PICK r, n : r = e[1] /\ n = e[2]
    OBVIOUS
  <2>2. r \in 1 .. 45 /\ n \in Nat /\ e = <<r, n>> /\ n <= Len(Rules[r].rhs)
    BY <1>2, <2>1, ItemIs
  <2>3. Len(Rules[r].rhs) \in Nat
    BY <2>2, RhsLong
  <2>4. n > 0
    <3> SUFFICES ASSUME n = 0 PROVE FALSE
      BY <2>2
    <3>1. <<r, 0>> \in J
      BY <2>2
    <3>2. Rules[r].lhs \in NextSymbols(J)
      BY <2>2, <3>1, <1>2 DEF Stated
    <3> QED BY <3>2, <1>3
  <2>5. n \in 1 .. Len(Rules[r].rhs)
    BY <2>2, <2>3, <2>4
  <2>6. Rules[r].rhs[n] = "END"
    BY <1>2, <2>1, <2>4
  <2>7. RhsFacts(r, n)
    BY <2>2, <2>5, RhsKnown
  <2> QED BY <2>1, <2>6, <2>7 DEF RhsFacts
<1>5. Complete(J) \subseteq {1}
  BY <1>4 DEF Complete
<1> QED BY <1>1, <1>3, <1>5 DEF AtEnd

LEMMA PublishedTop ==
    ASSUME NEW h, NEW st, StackOK(h, st), NEW pr, Published(st, pr), pr # 0
    PROVE  AtEnd(st[Len(st)].items)
<1>1. Len(st) >= 2 /\ <<1, 1>> \in st[2].items
  BY DEF Published
<1>2. PICK n : n = Len(st)
  OBVIOUS
<1>3. n \in Nat /\ n >= 2
  BY <1>1, <1>2, StackFacts
<1>4. PICK i, e : i = 2 /\ e = <<1, 1>>
  OBVIOUS
<1>5. i \in 2 .. Len(st) /\ e \in st[i].items /\ e[1] = 1 /\ e[2] = 1 /\ e[2] > 0
  BY <1>1, <1>2, <1>3, <1>4
<1>6. PICK Y : ReadBy(h, st, i, Y)
  BY <1>5, StateRead
<1>7. Y = "program"
  <2>1. Rules[e[1]].rhs[e[2]] = Y
    BY <1>5, <1>6 DEF ReadBy
  <2> QED BY <2>1, <1>5, FirstRule
<1>8. AtEnd(st[i].items)
  BY <1>6, <1>7, AfterProgram
<1>9. CASE n = 2
  BY <1>2, <1>4, <1>8, <1>9
<1>10. CASE n # 2
  <2>1. PICK j : j = 3
    OBVIOUS
  <2>2. j \in 2 .. Len(st) /\ j - 1 = i
    BY <1>2, <1>3, <1>4, <1>10, <2>1
  <2>3. PICK Z : ReadBy(h, st, j, Z)
    BY <2>2, StateRead
  <2>4. Z \in NextSymbols(st[i].items)
    BY <2>2, <2>3 DEF ReadBy, Reads
  <2>5. Z = "END"
    BY <2>4, <1>8 DEF AtEnd
  <2>6. AtEnd(st[j].items) /\ NextSymbols(st[j].items) = {}
    BY <2>3, <2>5, AfterEnd
  <2>7. j = n
    <3> SUFFICES ASSUME j # n PROVE FALSE
      OBVIOUS
    <3>1. PICK k : k = 4
      OBVIOUS
    <3>2. k \in 2 .. Len(st) /\ k - 1 = j
      BY <1>2, <1>3, <1>10, <2>1, <3>1
    <3>3. ReadAt(h, st, k)
      BY <3>2 DEF StackOK
    <3>4. \E X : X \in NextSymbols(st[j].items)
      BY <3>2, <3>3 DEF ReadAt
    <3> QED BY <3>4, <2>6
  <2> QED BY <1>2, <2>6, <2>7
<1> QED BY <1>9, <1>10

\* Before the program is made the token that follows the schema is there.
Settled == Parsing /\ 2 \in Complete(Items) => lookahead # NoToken

LEMMA NoneAtStart == Complete(Start) = {}
<1> SUFFICES ASSUME NEW e \in Start PROVE Unread(e)
  BY DEF Complete
<1>1. e \in AllItems /\ e[2] = 0
  BY StartIs
<1>2. PICK r : r = e[1]
  OBVIOUS
<1>3. r \in 1 .. 45 /\ e = <<r, 0>>
  BY <1>1, <1>2, ItemIs
<1>4. Rules[r].lhs \in {"accept", "program", "schema_decl"}
  BY <1>3, StartHeads
<1>5. r \in {1, 2, 3}
  BY <1>3, <1>4, EarlyRules DEF Early
<1>6. PICK n : n = Len(Rules[r].rhs)
  OBVIOUS
<1>7. n \in {1, 2, 3}
  <2>1. Len(Rules[1].rhs) = 2 /\ Len(Rules[2].rhs) = 1 /\ Len(Rules[3].rhs) = 3
    BY RhsAre
  <2>2. Rules[r] = Rules[1] \/ Rules[r] = Rules[2] \/ Rules[r] = Rules[3]
    BY <1>5
  <2> QED BY <1>6, <2>1, <2>2
<1>8. 0 < n
  BY <1>7
<1> QED BY <1>1, <1>2, <1>6, <1>8 DEF Unread

LEMMA InitSettled == Init => Settled /\ Due = {}
<1> SUFFICES ASSUME Init PROVE Settled /\ Due = {}
  OBVIOUS
<1>1. stack = << [items |-> Start, ptr |-> 0] >>
  BY DEF Init
<1>2. Items = Start
  BY <1>1 DEF Items, Last
<1>3. Complete(Items) = {}
  BY <1>2, NoneAtStart
<1> QED BY <1>3, DueComplete DEF Settled

LEMMA NextSettled == Growth /\ Settled /\ [Next]_vars => Settled'
<1> SUFFICES ASSUME Growth, Settled, [Next]_vars PROVE Settled'
  OBVIOUS
<1>1. CASE pushToken
  <2>1. Parsing /\ lookahead = NoToken /\ stack' = stack
    BY <1>1 DEF pushToken
  <2>2. 2 \notin Complete(Items) /\ Items' = Items
    BY <2>1 DEF Settled, Items, Last
  <2> QED BY <2>2 DEF Settled
<1>2. CASE shift
  <2>1. /\ Parsing /\ lookahead.sym \in Shiftable(Items)
        /\ stack' = Append(stack, [items |-> Goto(Items, lookahead.sym), ptr |-> lookahead.ptr])
    BY <1>2 DEF shift
  <2>2. Grows /\ StackOK(heap, stack)
    BY <2>1, ParsingStack
  <2>3. PICK X : X = lookahead.sym
    OBVIOUS
  <2>4. Items \subseteq AllItems /\ X \in NextSymbols(Items) /\ X \notin Heads
    <3>1. Items = stack[Len(stack)].items /\ Items \subseteq AllItems
      BY <2>2, StackFacts DEF Items, Last
    <3>2. PICK s : s = Append(stack, [items |-> Goto(Items, lookahead.sym), ptr |-> lookahead.ptr])
      OBVIOUS
    <3> QED BY <2>1, <2>2, <2>3, <3>1, <3>2, ShiftKeeps DEF Grows
  <2>5. Items' = Goto(Items, X)
    BY <2>1, <2>2, <2>3, ShiftedTop
  <2>6. ASSUME 2 \in Complete(Goto(Items, X)) PROVE FALSE
    <3>1. PICK q, n : q = 2 /\ n = 1
      OBVIOUS
    <3>2. /\ q \in 1 .. 45 /\ n \in Nat /\ n > 0 /\ n = Len(Rules[q].rhs) /\ Rules[q].rhs[n] = "schema_decl"
          /\ q \in Complete(Goto(Items, X))
      BY <2>6, <3>1, RhsAre
    <3>3. Completes(Items, X, q, n)
      BY <2>4, <3>2 DEF Completes
    <3>4. EndsWith(Items, X, q, n)
      BY <3>3, CompletedBy
    <3>5. X = "schema_decl"
      BY <3>2, <3>4 DEF EndsWith
    <3>6. Rules[3].lhs = "schema_decl"
      BY DEF Rules, R
    <3> QED BY <2>4, <3>5, <3>6, HeadsAre
  <2> QED BY <2>5, <2>6 DEF Settled
<1>3. CASE accept
  BY <1>3 DEF accept, Settled, Parsing
<1>4. CASE syntaxError
  BY <1>4 DEF syntaxError, Settled, Parsing
<1>5. ASSUME NEW r \in Due, reduce(r) PROVE Settled'
  <2>1. Parsing /\ r \in 2 .. 45 /\ lookahead' = lookahead /\ StackOK(heap, stack)
    BY <1>5, ReducedTop, ParsingStack DEF Due
  <2>2. PICK X : X = Rules[r].lhs
    OBVIOUS
  <2>3. PICK I : I \subseteq AllItems /\ X \in NextSymbols(I) /\ Items' = Goto(I, X)
    BY <1>5, <2>2, ReducedTop
  <2>4. ASSUME 2 \in Complete(Goto(I, X)) PROVE lookahead # NoToken
    <3>1. PICK q, n : q = 2 /\ n = 1
      OBVIOUS
    <3>2. /\ q \in 1 .. 45 /\ n \in Nat /\ n > 0 /\ n = Len(Rules[q].rhs) /\ Rules[q].rhs[n] = "schema_decl"
          /\ q \in Complete(Goto(I, X))
      BY <2>4, <3>1, RhsAre
    <3>3. Completes(I, X, q, n)
      BY <2>3, <3>2 DEF Completes
    <3>4. EndsWith(I, X, q, n)
      BY <3>3, CompletedBy
    <3>5. X = "schema_decl"
      BY <3>2, <3>4 DEF EndsWith
    <3>6. r = 3
      <4>1. r \in 1 .. 45
        BY <2>1
      <4>2. Early(r)
        BY <4>1, EarlyRules
      <4> QED BY <2>2, <3>5, <4>2 DEF Early
    <3>7. PICK i : i = Len(stack)
      OBVIOUS
    <3>8. Items = stack[i].items /\ i \in 1 .. Len(stack)
      BY <2>1, <3>7, StackFacts DEF Items, Last
    <3>9. 3 \in Complete(stack[i].items)
      BY <3>6, <3>8, DueComplete
    <3>10. Shiftable(stack[i].items) # {}
      BY <2>1, <3>8, <3>9, SchemaWaits
    <3>11. Shiftable(Items) # {}
      BY <3>8, <3>10
    <3> QED BY <3>11 DEF Due, Unexpected
  <2> QED BY <2>1, <2>3, <2>4 DEF Settled
<1>6. CASE UnknownLexemeAction
  BY <1>6 DEF UnknownLexemeAction, Settled, Parsing
<1>7. CASE release
  BY <1>7 DEF release, Settled, Parsing
<1>8. CASE UNCHANGED vars
  BY <1>8 DEF vars, Settled, Parsing, Items, Last
<1> QED BY <1>1, <1>2, <1>3, <1>4, <1>5, <1>6, <1>7, <1>8 DEF Next, parse

-----------------------------------------------------------------------------
\* The answer of a parser that runs.
LEMMA AnswerOfRun ==
    ASSUME Growth, Parsing
    PROVE  /\ lookahead = NoToken /\ Due = {} => answer = "IN_PROGRESS"
           /\ lookahead # NoToken \/ Due # {} =>
                 answer = IF lookahead.sym = "END" \/ 1 \in Complete(Items) THEN "ENDING" ELSE "BUSY"
<1>1. stack # <<>> /\ status # "SUCCEEDED"
  BY ParsingStack DEF Parsing
<1> QED BY <1>1 DEF answer

\* Where a program is published only the end of the input is left to read.
LEMMA PublishedEnds ==
    ASSUME Growth, Parsing, program # 0
    PROVE  NextSymbols(Items) \subseteq {"END"} /\ Complete(Items) \subseteq {1}
<1>1. StackOK(heap, stack) /\ Published(stack, program)
  BY ParsingStack DEF Growth, OnStack
<1>2. AtEnd(stack[Len(stack)].items)
  BY <1>1, PublishedTop
<1> QED BY <1>2 DEF AtEnd, Items, Last

LEMMA SameAnswer ==
    ASSUME UNCHANGED <<stack, lookahead, status, program>>
    PROVE  UNCHANGED Contract!parser
BY DEF Contract!parser, answer, Due, Unexpected, Parsing, Items, Last

\* The contract keeps a token that is being pushed, what it publishes and its answer.
Pushes == answer = "IN_PROGRESS" /\ answer' \in {"IN_PROGRESS", "BUSY", "ENDING"}
          /\ (program' # 0) = (program # 0)
Goes == answer' = answer /\ ((program' # 0) = (program # 0) \/ (Working /\ program = 0 /\ program' # 0))
Answers ==
    /\ Working /\ (program' # 0) = (program # 0)
    /\ \/ answer' = "FAILED"
       \/ answer' = "SUCCEEDED" /\ answer = "ENDING" /\ program # 0
       \/ answer' = "IN_PROGRESS" /\ answer = "BUSY" /\ program = 0
LEMMA KeepsContract == Pushes \/ Goes \/ Answers => [Contract!Next]_(Contract!parser)
<1>1. ASSUME Pushes PROVE [Contract!Next]_(Contract!parser)
  BY <1>1 DEF Pushes, Contract!Next, Contract!Push, Contract!parser
<1>2. ASSUME Goes PROVE [Contract!Next]_(Contract!parser)
  <2>1. CASE (program' # 0) = (program # 0)
    BY <1>2, <2>1 DEF Goes, Contract!parser
  <2>2. CASE Working /\ program = 0 /\ program' # 0
    BY <1>2, <2>2 DEF Goes, Working, Contract!Next, Contract!Publish, Contract!Working
  <2> QED BY <1>2, <2>1, <2>2 DEF Goes
<1>3. ASSUME Answers PROVE [Contract!Next]_(Contract!parser)
  BY <1>3 DEF Answers, Working, Contract!Next, Contract!Return, Contract!Working, Contract!Outcomes
<1> QED BY <1>1, <1>2, <1>3

LEMMA PushPushes ==
    ASSUME Growth, pushToken
    PROVE  Pushes
<1>1. /\ Parsing /\ lookahead = NoToken /\ Due = {}
      /\ stack' = stack /\ status' = status /\ program' = program
  BY DEF pushToken
<1>2. answer = "IN_PROGRESS"
  BY <1>1, AnswerOfRun
<1>3. stack' # <<>> /\ status' # "SUCCEEDED"
  BY <1>1, ParsingStack DEF Parsing
<1>4. answer' \in {"IN_PROGRESS", "BUSY", "ENDING"}
  BY <1>3 DEF answer
<1> QED BY <1>1, <1>2, <1>4 DEF Pushes

LEMMA ShiftGoes ==
    ASSUME Growth, shift
    PROVE  Goes \/ Answers
<1>1. /\ Parsing /\ lookahead.sym \in Shiftable(Items) /\ lookahead' = NoToken
      /\ stack' = Append(stack, [items |-> Goto(Items, lookahead.sym), ptr |-> lookahead.ptr])
      /\ status' = status /\ program' = program
  BY DEF shift
<1>2. PICK X : X = lookahead.sym
  OBVIOUS
<1>3. Grows /\ StackOK(heap, stack)
  BY <1>1, ParsingStack
<1>4. Items = stack[Len(stack)].items /\ Items \subseteq AllItems
  BY <1>3, StackFacts DEF Items, Last
<1>5. X \in NextSymbols(Items)
  <2>1. PICK s : s = Append(stack, [items |-> Goto(Items, lookahead.sym), ptr |-> lookahead.ptr])
    OBVIOUS
  <2> QED BY <1>1, <1>2, <1>3, <1>4, <2>1, ShiftKeeps DEF Grows
<1>6. X # "none" /\ lookahead # NoToken
  <2>1. PICK e \in Items : Unread(e) /\ NextSymbol(e) = X
    BY <1>5 DEF NextSymbols
  <2>2. e \in AllItems
    BY <1>4
  <2>3. X # "none"
    BY <2>1, <2>2, ItemIs
  <2> QED BY <1>2, <2>3 DEF NoToken
<1>7. 1 \notin Complete(Items)
  BY <1>1, NoneLeft
<1>8. answer = IF X = "END" THEN "ENDING" ELSE "BUSY"
  BY <1>1, <1>2, <1>6, <1>7, AnswerOfRun
<1>9. stack' # <<>> /\ Items' = Goto(Items, X)
  BY <1>1, <1>2, <1>3, ShiftedTop
<1>10. status' # "SUCCEEDED" /\ Parsing' /\ lookahead'.sym # "END"
  BY <1>1 DEF Parsing, NoToken
<1>11. CASE X = "END"
  <2>1. 1 \in Complete(Goto(Items, X))
    BY <1>4, <1>5, <1>11, EndRead
  <2>2. StackOK(heap', stack')
    BY ShiftGrows DEF Grows, Growing
  <2>3. PICK h, s : h = heap' /\ s = stack'
    OBVIOUS
  <2>4. s[Len(s)].items = Goto(Items, X)
    BY <1>9, <2>3 DEF Items, Last
  <2>5. Shiftable(s[Len(s)].items) = {}
    BY <2>1, <2>2, <2>3, <2>4, AcceptAlone
  <2>6. Due' = Complete(Goto(Items, X))
    BY <1>9, <1>10, <2>4, <2>5 DEF Due
  <2>7. answer' = "ENDING"
    BY <1>9, <1>10, <2>1, <2>6 DEF answer
  <2> QED BY <1>1, <1>8, <1>11, <2>7 DEF Goes
<1>12. CASE X # "END"
  <2>1. ASSUME 1 \in Complete(Goto(Items, X)) PROVE FALSE
    <3>1. PICK q, n : q = 1 /\ n = 2
      OBVIOUS
    <3>2. /\ q \in 1 .. 45 /\ n \in Nat /\ n > 0 /\ n = Len(Rules[q].rhs) /\ Rules[q].rhs[n] = "END"
          /\ q \in Complete(Goto(Items, X))
      BY <2>1, <3>1, FirstRule
    <3>3. Completes(Items, X, q, n)
      BY <1>4, <1>5, <3>2 DEF Completes
    <3>4. EndsWith(Items, X, q, n)
      BY <3>3, CompletedBy
    <3> QED BY <3>2, <3>4, <1>12 DEF EndsWith
  <2>2. answer' \in {"IN_PROGRESS", "BUSY"}
    BY <1>9, <1>10, <2>1 DEF answer
  <2>3. program = 0
    BY <1>1, <1>5, <1>12, PublishedEnds
  <2> QED BY <1>1, <1>8, <1>12, <2>2, <2>3 DEF Goes, Answers, Working
<1> QED BY <1>11, <1>12

LEMMA AcceptAnswers ==
    ASSUME Growth, accept
    PROVE  Answers
<1>1. Parsing /\ 1 \in Complete(Items) /\ status' = "SUCCEEDED" /\ program' = program
  BY DEF accept
<1>2. 1 \in Due
  BY <1>1, NoneLeft
<1>3. answer = "ENDING"
  BY <1>1, <1>2, AnswerOfRun
<1>4. answer' = "SUCCEEDED"
  BY <1>1 DEF answer
<1>5. program # 0
  <2>1. StackOK(heap, stack) /\ Published(stack, program)
    BY <1>1, ParsingStack DEF Growth, OnStack
  <2>2. 1 \in Complete(stack[Len(stack)].items)
    BY <1>1 DEF Items, Last
  <2> QED BY <2>1, <2>2, AcceptedWhole
<1> QED BY <1>1, <1>3, <1>4, <1>5 DEF Answers, Working

LEMMA ErrorAnswers ==
    ASSUME Growth, syntaxError
    PROVE  Answers
<1>1. /\ Parsing /\ Unexpected /\ stack' = <<>> /\ status' = "FAILED" /\ program' = program
  BY DEF syntaxError
<1>2. lookahead # NoToken
  BY <1>1 DEF Unexpected
<1>3. answer \in {"BUSY", "ENDING"}
  BY <1>1, <1>2, AnswerOfRun
<1>4. answer' = "FAILED"
  BY <1>1 DEF answer
<1> QED BY <1>1, <1>3, <1>4 DEF Answers, Working

LEMMA ReduceGoes ==
    ASSUME Growth, Settled, NEW r, r \in Due, reduce(r)
    PROVE  Goes \/ Answers
<1>1. Parsing /\ StackOK(heap, stack) /\ Grows
  BY ParsingStack DEF Due
<1>2. r \in 2 .. 45 /\ lookahead' = lookahead /\ r \in Complete(Items)
  BY ReducedTop, DueComplete
<1>3. PICK n : n = Len(stack)
  OBVIOUS
<1>4. Items = stack[n].items /\ n \in 1 .. Len(stack)
  BY <1>1, <1>3, StackFacts DEF Items, Last
<1>5. 1 \notin Complete(Items)
  <2> SUFFICES ASSUME 1 \in Complete(stack[n].items) PROVE FALSE
    BY <1>4
  <2>1. r = 1
    BY <1>1, <1>2, <1>4, CompleteOne
  <2> QED BY <1>2, <2>1
<1>6. answer = IF lookahead.sym = "END" THEN "ENDING" ELSE "BUSY"
  BY <1>1, <1>5, AnswerOfRun
<1>7. program = 0
  BY <1>1, <1>2, PublishedEnds
<1>8. 1 \notin Complete(Items')
  BY ReduceAlone
<1>9. stack' # <<>> /\ status' = status
  <2>1. stack' # <<>>
    BY ReducePublishes
  <2>2. \E g, p : Does(r, g, p)
    BY <1>1, <1>2, ReduceDoes
  <2> QED BY <2>1, <2>2 DEF Does, Return
<1>10. status' # "SUCCEEDED"
  BY <1>1, <1>9 DEF Parsing
<1>11. CASE lookahead # NoToken
  <2>1. answer' = IF lookahead.sym = "END" THEN "ENDING" ELSE "BUSY"
    BY <1>2, <1>8, <1>9, <1>10, <1>11 DEF answer
  <2> QED BY <1>6, <1>7, <2>1 DEF Goes, Working
<1>12. CASE lookahead = NoToken
  <2>1. r # 2
    BY <1>1, <1>2, <1>12 DEF Settled
  <2>2. program' = program
    <3>1. r \in 1 .. 45
      BY <1>2
    <3>2. Early(r)
      BY <3>1, EarlyRules
    <3>3. Rules[r].action # "SchemaProgram"
      BY <2>1, <3>1, <3>2, ProgramRule DEF Early
    <3> QED BY <3>3, ProgramPublished
  <2>3. lookahead.sym # "END"
    BY <1>12 DEF NoToken
  <2>4. answer' \in {"IN_PROGRESS", "BUSY"}
    BY <1>2, <1>8, <1>9, <1>10, <2>3 DEF answer
  <2> QED BY <1>6, <1>7, <2>2, <2>3, <2>4 DEF Goes, Answers, Working
<1> QED BY <1>11, <1>12

LEMMA UnknownGoes ==
    ASSUME Growth, UnknownLexemeAction
    PROVE  Goes
<1>1. /\ Parsing /\ lookahead = NoToken /\ Due = {} /\ status' = "FAILED"
      /\ stack' = stack /\ lookahead' = lookahead /\ program' = program
  BY DEF UnknownLexemeAction
<1>2. answer = "IN_PROGRESS"
  BY <1>1, AnswerOfRun
<1>3. Due' = {} /\ stack' # <<>>
  BY <1>1, ParsingStack DEF Due, Parsing
<1>4. answer' = "IN_PROGRESS"
  BY <1>1, <1>3 DEF answer
<1> QED BY <1>1, <1>2, <1>4 DEF Goes

LEMMA NextKeepsContract ==
    Growth /\ Settled /\ [Next]_vars => [Contract!Next]_(Contract!parser)
<1> SUFFICES ASSUME Growth, Settled, [Next]_vars PROVE [Contract!Next]_(Contract!parser)
  OBVIOUS
<1>1. CASE pushToken
  BY <1>1, PushPushes, KeepsContract
<1>2. CASE shift
  BY <1>2, ShiftGoes, KeepsContract
<1>3. CASE accept
  BY <1>3, AcceptAnswers, KeepsContract
<1>4. CASE syntaxError
  BY <1>4, ErrorAnswers, KeepsContract
<1>5. ASSUME NEW r \in Due, reduce(r) PROVE [Contract!Next]_(Contract!parser)
  BY <1>5, ReduceGoes, KeepsContract
<1>6. CASE UnknownLexemeAction
  BY <1>6, UnknownGoes, KeepsContract
<1>7. CASE release
  BY <1>7, SameAnswer DEF release
<1>8. CASE UNCHANGED vars
  BY <1>8, SameAnswer DEF vars
<1> QED BY <1>1, <1>2, <1>3, <1>4, <1>5, <1>6, <1>7, <1>8 DEF Next, parse

LEMMA InitKeepsContract == Init => Contract!Init
<1> SUFFICES ASSUME Init PROVE Contract!Init
  OBVIOUS
<1>1. Due = {}
  BY InitSettled
<1>2. lookahead = NoToken /\ stack # <<>> /\ status # "SUCCEEDED" /\ program = 0
  BY DEF Init
<1>3. answer = "IN_PROGRESS"
  BY <1>1, <1>2 DEF answer
<1> QED BY <1>2, <1>3 DEF Contract!Init

\* Every step of the automaton is a step the front end is promised, or none: the parser asks
\* for more only before the end and while no program is published, and it succeeds only at
\* the end with a program published (Frontend.c:180, BisonActions.c:42).  That every token is
\* answered at last is model-checked.
THEOREM ContractKept == Spec => Contract!Init /\ [][Contract!Next]_(Contract!parser)
<1>1. Init => Settled /\ Contract!Init
  BY InitSettled, InitKeepsContract
<1>2. Growth /\ Settled /\ [Next]_vars => Settled'
  BY NextSettled
<1>3. Growth /\ Settled /\ [Next]_vars => [Contract!Next]_(Contract!parser)
  BY NextKeepsContract
<1> QED BY <1>1, <1>2, <1>3, GrowthHolds, PTL DEF Spec
=============================================================================
