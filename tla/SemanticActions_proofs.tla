----------------------- MODULE SemanticActions_proofs -----------------------
(***************************************************************************)
(* The heap and the automaton: what owns what, what each semantic action   *)
(* does to the cells it is given, and what the states of the automaton     *)
(* know.  SyntaxTree_proofs puts the two together.                         *)
(***************************************************************************)
EXTENDS SyntaxTree, ListLemmas, FiniteSetTheorems

-----------------------------------------------------------------------------
(* The layout of the cells                                                 *)

Tags == DOMAIN Layout

\* The fields that own a cell: the tag they are of, their name and the tag they point to.
Slots == {<<"Program", "schema", "Schema">>,
          <<"Schema", "name", "String">>, <<"Schema", "entities", "Entity">>,
          <<"Schema", "relationships", "Relationship">>,
          <<"Entity", "name", "String">>, <<"Entity", "parent", "String">>,
          <<"Entity", "attributes", "AttributeList">>, <<"Entity", "primaryKey", "PrimaryKey">>,
          <<"Entity", "assertions", "Assertion">>, <<"Entity", "next", "Entity">>,
          <<"Relationship", "name", "String">>,
          <<"Relationship", "participants", "ParticipantList">>,
          <<"Relationship", "attributes", "AttributeList">>,
          <<"Relationship", "next", "Relationship">>,
          <<"Attribute", "name", "String">>, <<"Attribute", "type", "Type">>,
          <<"Attribute", "modifiers", "ModifierList">>,
          <<"AttributeList", "attribute", "Attribute">>,
          <<"AttributeList", "next", "AttributeList">>,
          <<"Participant", "entityName", "String">>,
          <<"Participant", "participation", "Participation">>,
          <<"ParticipantList", "participant", "Participant">>,
          <<"ParticipantList", "next", "ParticipantList">>,
          <<"Expression", "identifier", "String">>, <<"Expression", "literal", "Literal">>,
          <<"Expression", "left", "Expression">>, <<"Expression", "right", "Expression">>,
          <<"Literal", "string", "String">>, <<"Modifier", "defaultValue", "Literal">>,
          <<"ModifierList", "modifier", "Modifier">>, <<"ModifierList", "next", "ModifierList">>,
          <<"PrimaryKey", "attributes", "QualifiedIdentifierList">>,
          <<"Assertion", "condition", "Expression">>, <<"Assertion", "next", "Assertion">>,
          <<"QualifiedIdentifierList", "qid", "QualifiedIdentifier">>,
          <<"QualifiedIdentifierList", "next", "QualifiedIdentifierList">>,
          <<"QualifiedIdentifier", "entity", "String">>,
          <<"QualifiedIdentifier", "attribute", "String">>}

Slot(tag, i) == <<tag, Layout[tag][i][1], Layout[tag][i][2]>>

LEMMA LayoutSmall ==
    /\ Tags = {"Program", "Schema", "Entity", "Relationship", "Attribute", "AttributeList",
               "Participant", "ParticipantList", "Expression", "Literal", "Modifier",
               "ModifierList", "PrimaryKey", "Assertion", "QualifiedIdentifierList",
               "QualifiedIdentifier", "Type", "Participation", "String"}
    /\ DOMAIN Layout["Program"] = 1 .. 1 /\ DOMAIN Layout["Schema"] = 1 .. 3
    /\ DOMAIN Layout["Entity"] = 1 .. 6 /\ DOMAIN Layout["Relationship"] = 1 .. 4
    /\ DOMAIN Layout["Attribute"] = 1 .. 3 /\ DOMAIN Layout["AttributeList"] = 1 .. 2
    /\ DOMAIN Layout["Participant"] = 1 .. 2 /\ DOMAIN Layout["ParticipantList"] = 1 .. 2
    /\ DOMAIN Layout["Expression"] = 1 .. 4 /\ DOMAIN Layout["Literal"] = 1 .. 1
    /\ DOMAIN Layout["Modifier"] = 1 .. 1 /\ DOMAIN Layout["ModifierList"] = 1 .. 2
    /\ DOMAIN Layout["PrimaryKey"] = 1 .. 1 /\ DOMAIN Layout["Assertion"] = 1 .. 2
    /\ DOMAIN Layout["QualifiedIdentifierList"] = 1 .. 2
    /\ DOMAIN Layout["QualifiedIdentifier"] = 1 .. 2
    /\ DOMAIN Layout["Type"] = {} /\ DOMAIN Layout["Participation"] = {}
    /\ DOMAIN Layout["String"] = {}
BY DEF Tags, Layout

\* Each slot is where the layout says, and the layout has no other.
LEMMA SlotsTable ==
    ASSUME NEW tag \in Tags
    PROVE  {s \in Slots : s[1] = tag} = {Slot(tag, i) : i \in DOMAIN Layout[tag]}
<1> USE DEF Slot
<1>1. CASE tag = "Program"
  <2>1. Layout["Program"] = <<<<"schema", "Schema">>>>
    BY DEF Layout
  <2>2. {s \in Slots : s[1] = "Program"} = {<<"Program", "schema", "Schema">>}
    BY DEF Slots
  <2> QED BY <2>1, <2>2, <1>1, LayoutSmall
<1>2. CASE tag = "Schema"
  <2>1. Layout["Schema"] = <<<<"name", "String">>, <<"entities", "Entity">>, <<"relationships", "Relationship">>>>
    BY DEF Layout
  <2>2. {s \in Slots : s[1] = "Schema"} = {<<"Schema", "name", "String">>, <<"Schema", "entities", "Entity">>, <<"Schema", "relationships", "Relationship">>}
    BY DEF Slots
  <2> QED BY <2>1, <2>2, <1>2, LayoutSmall
<1>3. CASE tag = "Entity"
  <2>1. Layout["Entity"] = <<<<"name", "String">>, <<"parent", "String">>, <<"attributes", "AttributeList">>, <<"primaryKey", "PrimaryKey">>, <<"assertions", "Assertion">>, <<"next", "Entity">>>>
    BY DEF Layout
  <2>2. {s \in Slots : s[1] = "Entity"} = {<<"Entity", "name", "String">>, <<"Entity", "parent", "String">>, <<"Entity", "attributes", "AttributeList">>, <<"Entity", "primaryKey", "PrimaryKey">>, <<"Entity", "assertions", "Assertion">>, <<"Entity", "next", "Entity">>}
    BY DEF Slots
  <2> QED BY <2>1, <2>2, <1>3, LayoutSmall
<1>4. CASE tag = "Relationship"
  <2>1. Layout["Relationship"] = <<<<"name", "String">>, <<"participants", "ParticipantList">>, <<"attributes", "AttributeList">>, <<"next", "Relationship">>>>
    BY DEF Layout
  <2>2. {s \in Slots : s[1] = "Relationship"} = {<<"Relationship", "name", "String">>, <<"Relationship", "participants", "ParticipantList">>, <<"Relationship", "attributes", "AttributeList">>, <<"Relationship", "next", "Relationship">>}
    BY DEF Slots
  <2> QED BY <2>1, <2>2, <1>4, LayoutSmall
<1>5. CASE tag = "Attribute"
  <2>1. Layout["Attribute"] = <<<<"name", "String">>, <<"type", "Type">>, <<"modifiers", "ModifierList">>>>
    BY DEF Layout
  <2>2. {s \in Slots : s[1] = "Attribute"} = {<<"Attribute", "name", "String">>, <<"Attribute", "type", "Type">>, <<"Attribute", "modifiers", "ModifierList">>}
    BY DEF Slots
  <2> QED BY <2>1, <2>2, <1>5, LayoutSmall
<1>6. CASE tag = "AttributeList"
  <2>1. Layout["AttributeList"] = <<<<"attribute", "Attribute">>, <<"next", "AttributeList">>>>
    BY DEF Layout
  <2>2. {s \in Slots : s[1] = "AttributeList"} = {<<"AttributeList", "attribute", "Attribute">>, <<"AttributeList", "next", "AttributeList">>}
    BY DEF Slots
  <2> QED BY <2>1, <2>2, <1>6, LayoutSmall
<1>7. CASE tag = "Participant"
  <2>1. Layout["Participant"] = <<<<"entityName", "String">>, <<"participation", "Participation">>>>
    BY DEF Layout
  <2>2. {s \in Slots : s[1] = "Participant"} = {<<"Participant", "entityName", "String">>, <<"Participant", "participation", "Participation">>}
    BY DEF Slots
  <2> QED BY <2>1, <2>2, <1>7, LayoutSmall
<1>8. CASE tag = "ParticipantList"
  <2>1. Layout["ParticipantList"] = <<<<"participant", "Participant">>, <<"next", "ParticipantList">>>>
    BY DEF Layout
  <2>2. {s \in Slots : s[1] = "ParticipantList"} = {<<"ParticipantList", "participant", "Participant">>, <<"ParticipantList", "next", "ParticipantList">>}
    BY DEF Slots
  <2> QED BY <2>1, <2>2, <1>8, LayoutSmall
<1>9. CASE tag = "Expression"
  <2>1. Layout["Expression"] = <<<<"identifier", "String">>, <<"literal", "Literal">>, <<"left", "Expression">>, <<"right", "Expression">>>>
    BY DEF Layout
  <2>2. {s \in Slots : s[1] = "Expression"} = {<<"Expression", "identifier", "String">>, <<"Expression", "literal", "Literal">>, <<"Expression", "left", "Expression">>, <<"Expression", "right", "Expression">>}
    BY DEF Slots
  <2> QED BY <2>1, <2>2, <1>9, LayoutSmall
<1>10. CASE tag = "Literal"
  <2>1. Layout["Literal"] = <<<<"string", "String">>>>
    BY DEF Layout
  <2>2. {s \in Slots : s[1] = "Literal"} = {<<"Literal", "string", "String">>}
    BY DEF Slots
  <2> QED BY <2>1, <2>2, <1>10, LayoutSmall
<1>11. CASE tag = "Modifier"
  <2>1. Layout["Modifier"] = <<<<"defaultValue", "Literal">>>>
    BY DEF Layout
  <2>2. {s \in Slots : s[1] = "Modifier"} = {<<"Modifier", "defaultValue", "Literal">>}
    BY DEF Slots
  <2> QED BY <2>1, <2>2, <1>11, LayoutSmall
<1>12. CASE tag = "ModifierList"
  <2>1. Layout["ModifierList"] = <<<<"modifier", "Modifier">>, <<"next", "ModifierList">>>>
    BY DEF Layout
  <2>2. {s \in Slots : s[1] = "ModifierList"} = {<<"ModifierList", "modifier", "Modifier">>, <<"ModifierList", "next", "ModifierList">>}
    BY DEF Slots
  <2> QED BY <2>1, <2>2, <1>12, LayoutSmall
<1>13. CASE tag = "PrimaryKey"
  <2>1. Layout["PrimaryKey"] = <<<<"attributes", "QualifiedIdentifierList">>>>
    BY DEF Layout
  <2>2. {s \in Slots : s[1] = "PrimaryKey"} = {<<"PrimaryKey", "attributes", "QualifiedIdentifierList">>}
    BY DEF Slots
  <2> QED BY <2>1, <2>2, <1>13, LayoutSmall
<1>14. CASE tag = "Assertion"
  <2>1. Layout["Assertion"] = <<<<"condition", "Expression">>, <<"next", "Assertion">>>>
    BY DEF Layout
  <2>2. {s \in Slots : s[1] = "Assertion"} = {<<"Assertion", "condition", "Expression">>, <<"Assertion", "next", "Assertion">>}
    BY DEF Slots
  <2> QED BY <2>1, <2>2, <1>14, LayoutSmall
<1>15. CASE tag = "QualifiedIdentifierList"
  <2>1. Layout["QualifiedIdentifierList"] = <<<<"qid", "QualifiedIdentifier">>, <<"next", "QualifiedIdentifierList">>>>
    BY DEF Layout
  <2>2. {s \in Slots : s[1] = "QualifiedIdentifierList"} = {<<"QualifiedIdentifierList", "qid", "QualifiedIdentifier">>, <<"QualifiedIdentifierList", "next", "QualifiedIdentifierList">>}
    BY DEF Slots
  <2> QED BY <2>1, <2>2, <1>15, LayoutSmall
<1>16. CASE tag = "QualifiedIdentifier"
  <2>1. Layout["QualifiedIdentifier"] = <<<<"entity", "String">>, <<"attribute", "String">>>>
    BY DEF Layout
  <2>2. {s \in Slots : s[1] = "QualifiedIdentifier"} = {<<"QualifiedIdentifier", "entity", "String">>, <<"QualifiedIdentifier", "attribute", "String">>}
    BY DEF Slots
  <2> QED BY <2>1, <2>2, <1>16, LayoutSmall
<1>17. CASE tag = "Type"
  <2>1. {s \in Slots : s[1] = "Type"} = {}
    BY DEF Slots
  <2> QED BY <2>1, <1>17, LayoutSmall
<1>18. CASE tag = "Participation"
  <2>1. {s \in Slots : s[1] = "Participation"} = {}
    BY DEF Slots
  <2> QED BY <2>1, <1>18, LayoutSmall
<1>19. CASE tag = "String"
  <2>1. {s \in Slots : s[1] = "String"} = {}
    BY DEF Slots
  <2> QED BY <2>1, <1>19, LayoutSmall
<1> QED BY <1>1, <1>2, <1>3, <1>4, <1>5, <1>6, <1>7, <1>8, <1>9, <1>10, <1>11, <1>12, <1>13, <1>14, <1>15, <1>16, <1>17, <1>18, <1>19, LayoutSmall

Fields(tag) == {Layout[tag][i][1] : i \in DOMAIN Layout[tag]}
Names(tag) == {"tag", "next"} \cup Tails \cup Fields(tag)

\* The tags that make lists, and what their order is told from.
Leading == [Entity |-> "name", Relationship |-> "name", AttributeList |-> "attribute",
          ParticipantList |-> "participant", ModifierList |-> "modifier",
          Assertion |-> "condition", QualifiedIdentifierList |-> "qid"]
Chained == DOMAIN Leading

LEMMA FieldsAre ==
    ASSUME NEW tag \in Tags
    PROVE  /\ \A f : f \in Fields(tag) <=> \E u : <<tag, f, u>> \in Slots
           /\ \A i \in DOMAIN Layout[tag] :
                 /\ Layout[tag][i][1] \in Fields(tag)
                 /\ <<tag, Layout[tag][i][1], Layout[tag][i][2]>> \in Slots
           /\ \A f, u : <<tag, f, u>> \in Slots =>
                 \E i \in DOMAIN Layout[tag] : f = Layout[tag][i][1] /\ u = Layout[tag][i][2]
<1>1. ASSUME NEW i \in DOMAIN Layout[tag]
      PROVE  Layout[tag][i][1] \in Fields(tag)
             /\ <<tag, Layout[tag][i][1], Layout[tag][i][2]>> \in Slots
  <2>1. Slot(tag, i) \in {s \in Slots : s[1] = tag}
    BY SlotsTable
  <2> QED BY <2>1 DEF Slot, Fields
<1>2. ASSUME NEW f, NEW u, <<tag, f, u>> \in Slots
      PROVE  \E i \in DOMAIN Layout[tag] : f = Layout[tag][i][1] /\ u = Layout[tag][i][2]
  <2>1. <<tag, f, u>> \in {s \in Slots : s[1] = tag}
    BY <1>2
  <2>2. <<tag, f, u>> \in {Slot(tag, i) : i \in DOMAIN Layout[tag]}
    BY <2>1, SlotsTable
  <2>3. PICK i \in DOMAIN Layout[tag] : <<tag, f, u>> = Slot(tag, i)
    BY <2>2
  <2> QED BY <2>3 DEF Slot
<1>3. ASSUME NEW f PROVE f \in Fields(tag) <=> \E u : <<tag, f, u>> \in Slots
  <2>1. f \in Fields(tag) => \E u : <<tag, f, u>> \in Slots
    BY <1>1 DEF Fields
  <2>2. (\E u : <<tag, f, u>> \in Slots) => f \in Fields(tag)
    BY <1>1, <1>2
  <2> QED BY <2>1, <2>2
<1> QED BY <1>1, <1>2, <1>3

\* A slot has one target; it is neither the tag nor a tail pointer.
LEMMA SlotFacts ==
    /\ \A t, f, u, v : <<t, f, u>> \in Slots /\ <<t, f, v>> \in Slots => u = v
    /\ \A t, f, u : <<t, f, u>> \in Slots => f # "tag" /\ f \notin Tails /\ t \in Tags /\ u \in Tags
    /\ \A t, u : <<t, "next", u>> \in Slots <=> t \in Chained /\ u = t
    /\ Chained = {"Entity", "Relationship", "AttributeList", "ParticipantList", "ModifierList",
                  "Assertion", "QualifiedIdentifierList"}
    /\ \A t \in Chained : Leading[t] # "next" /\ \E u : <<t, Leading[t], u>> \in Slots
    /\ "tag" \notin Tails /\ "next" \notin Tails
<1>1. \A t, f, u, v : <<t, f, u>> \in Slots /\ <<t, f, v>> \in Slots => u = v
  BY DEF Slots
<1>2. \A t, f, u : <<t, f, u>> \in Slots => f # "tag"
  BY DEF Slots
<1>3. \A t, f, u : <<t, f, u>> \in Slots => f \notin Tails
  BY DEF Slots, Tails
<1>4. \A t, f, u : <<t, f, u>> \in Slots => t \in Tags /\ u \in Tags
  BY LayoutSmall DEF Slots
<1>5. Chained = {"Entity", "Relationship", "AttributeList", "ParticipantList", "ModifierList",
                  "Assertion", "QualifiedIdentifierList"}
  BY DEF Chained, Leading
<1>6. \A t, u : <<t, "next", u>> \in Slots <=> t \in Chained /\ u = t
  BY <1>5 DEF Slots
<1>7. ASSUME NEW t \in Chained PROVE Leading[t] # "next" /\ \E u : <<t, Leading[t], u>> \in Slots
  <2>1. \/ (t = "Entity" /\ Leading[t] = "name") \/ (t = "Relationship" /\ Leading[t] = "name")
        \/ (t = "AttributeList" /\ Leading[t] = "attribute")
        \/ (t = "ParticipantList" /\ Leading[t] = "participant")
        \/ (t = "ModifierList" /\ Leading[t] = "modifier")
        \/ (t = "Assertion" /\ Leading[t] = "condition")
        \/ (t = "QualifiedIdentifierList" /\ Leading[t] = "qid")
    BY <1>5 DEF Leading
  <2>2. /\ <<"Entity", "name", "String">> \in Slots /\ <<"Relationship", "name", "String">> \in Slots
        /\ <<"AttributeList", "attribute", "Attribute">> \in Slots
        /\ <<"ParticipantList", "participant", "Participant">> \in Slots
        /\ <<"ModifierList", "modifier", "Modifier">> \in Slots
        /\ <<"Assertion", "condition", "Expression">> \in Slots
        /\ <<"QualifiedIdentifierList", "qid", "QualifiedIdentifier">> \in Slots
    BY DEF Slots
  <2> QED BY <2>1, <2>2
<1>8. "tag" \notin Tails /\ "next" \notin Tails
  BY DEF Tails
<1> QED BY <1>1, <1>2, <1>3, <1>4, <1>5, <1>6, <1>7, <1>8

\* The front of a list cell is the first field of its layout.
LEMMA LeadIsFirst ==
    ASSUME NEW tag \in Chained
    PROVE  Layout[tag][1][1] = Leading[tag]
BY SlotFacts DEF Layout, Leading

-----------------------------------------------------------------------------
(* Cells and heaps                                                         *)

Cells == UNION {[Names(t) -> Tags \cup Nat] : t \in Tags}

LEMMA NewCell ==
    ASSUME NEW tag \in Tags, NEW upd, DOMAIN upd \subseteq Names(tag) \ {"tag"},
           \A f \in DOMAIN upd : upd[f] \in Nat
    PROVE  LET c == New(tag, upd)
           IN  /\ c \in Cells /\ DOMAIN c = Names(tag) /\ c.tag = tag
               /\ \A f \in Names(tag) \ {"tag"} : c[f] = IF f \in DOMAIN upd THEN upd[f] ELSE 0
<1> DEFINE c == New(tag, upd)
<1>1. Names(tag) = {"tag", "next"} \cup Tails \cup Fields(tag)
  BY DEF Names
<1>2. c = [f \in Names(tag) |-> IF f = "tag" THEN tag ELSE IF f \in DOMAIN upd THEN upd[f] ELSE 0]
  BY <1>1 DEF New, Fields
<1> HIDE DEF c
<1>4. "tag" \in Names(tag)
  BY <1>1
<1>5. DOMAIN c = Names(tag) /\ c.tag = tag
  BY <1>2, <1>4
<1>6. \A f \in Names(tag) \ {"tag"} : c[f] = IF f \in DOMAIN upd THEN upd[f] ELSE 0
  BY <1>2
<1>7. c \in [Names(tag) -> Tags \cup Nat]
  <2>1. \A f \in Names(tag) : c[f] \in Tags \cup Nat
    BY <1>5, <1>6
  <2> QED BY <1>2, <2>1
<1>8. c \in Cells
  BY <1>7 DEF Cells
<1> QED BY <1>5, <1>6, <1>8 DEF c

Shape(h) ==
    /\ h \in Seq(Cells)
    /\ \A c \in DOMAIN h :
          /\ h[c].tag \in Tags /\ DOMAIN h[c] = Names(h[c].tag)
          /\ \A f \in Names(h[c].tag) \ {"tag"} : h[c][f] \in 0 .. Len(h)

\* g is h with a new cell.
Adds(h, g, tag, upd) ==
    /\ g \in Seq(Cells) /\ Len(g) = Len(h) + 1
    /\ \A e \in DOMAIN h : g[e] = h[e]
    /\ DOMAIN g[Len(h) + 1] = Names(tag) /\ g[Len(h) + 1].tag = tag
    /\ \A f \in Names(tag) \ {"tag"} :
          g[Len(h) + 1][f] = IF f \in DOMAIN upd THEN upd[f] ELSE 0

\* g is h with other values in fields of a cell.
Puts(h, g, c, upd) ==
    /\ g \in Seq(Cells) /\ Len(g) = Len(h) /\ c \in DOMAIN h
    /\ \A e \in DOMAIN h : e # c => g[e] = h[e]
    /\ DOMAIN g[c] = DOMAIN h[c]
    /\ \A f \in DOMAIN h[c] : g[c][f] = IF f \in DOMAIN upd THEN upd[f] ELSE h[c][f]

Values(h, tag, upd) ==
    DOMAIN upd \subseteq Names(tag) \ {"tag"} /\ \A f \in DOMAIN upd : upd[f] \in 0 .. Len(h)

LEMMA AppendAdds ==
    ASSUME NEW h, Shape(h), NEW tag \in Tags, NEW upd, Values(h, tag, upd)
    PROVE  Adds(h, Append(h, New(tag, upd)), tag, upd)
<1> DEFINE c == New(tag, upd)
<1>1. h \in Seq(Cells)
  BY DEF Shape
<1>2. /\ c \in Cells /\ DOMAIN c = Names(tag) /\ c.tag = tag
      /\ \A f \in Names(tag) \ {"tag"} : c[f] = IF f \in DOMAIN upd THEN upd[f] ELSE 0
  <2>1. \A f \in DOMAIN upd : upd[f] \in Nat
    BY <1>1 DEF Values
  <2>2. DOMAIN upd \subseteq Names(tag) \ {"tag"}
    BY DEF Values
  <2> HIDE DEF c
  <2> QED BY <2>1, <2>2, NewCell DEF c
<1> HIDE DEF c
<1>3. /\ Append(h, c) \in Seq(Cells) /\ Len(Append(h, c)) = Len(h) + 1
      /\ \A e \in DOMAIN h : Append(h, c)[e] = h[e]
      /\ Append(h, c)[Len(h) + 1] = c
  BY <1>1, <1>2
<1> QED BY <1>2, <1>3 DEF Adds, c

LEMMA ExceptPuts ==
    ASSUME NEW h, Shape(h), NEW c \in DOMAIN h, NEW upd, Values(h, h[c].tag, upd),
           NEW v, DOMAIN v = DOMAIN h[c], v = [f \in DOMAIN v |-> v[f]],
           \A f \in DOMAIN h[c] : v[f] = IF f \in DOMAIN upd THEN upd[f] ELSE h[c][f]
    PROVE  Puts(h, [h EXCEPT ![c] = v], c, upd)
<1> DEFINE t == h[c].tag
           g == [h EXCEPT ![c] = v]
<1>1. h \in Seq(Cells) /\ t \in Tags /\ DOMAIN h[c] = Names(t)
  BY DEF Shape
<1>2. v \in Cells
  <2>1. ASSUME NEW f \in Names(t) PROVE v[f] \in Tags \cup Nat
    <3>1. CASE f \in DOMAIN upd
      BY <3>1, <1>1 DEF Values
    <3>2. CASE f \notin DOMAIN upd
      <4>1. v[f] = h[c][f]
        BY <3>2, <1>1
      <4>2. f = "tag" => h[c][f] \in Tags
        BY <1>1
      <4>3. f # "tag" => h[c][f] \in Nat
        BY <1>1 DEF Shape
      <4> QED BY <4>1, <4>2, <4>3
    <3> QED BY <3>1, <3>2
  <2>2. v \in [Names(t) -> Tags \cup Nat]
    <3> HIDE DEF t
    <3>1. DOMAIN v = Names(t)
      BY <1>1
    <3> QED BY <3>1, <2>1
  <2> HIDE DEF t
  <2> QED BY <1>1, <2>2 DEF Cells
<1>3. g \in Seq(Cells) /\ Len(g) = Len(h) /\ g[c] = v /\ \A e \in DOMAIN h : e # c => g[e] = h[e]
  BY <1>1, <1>2
<1> HIDE DEF g
<1> QED BY <1>3 DEF Puts, g

-----------------------------------------------------------------------------
(* Who owns what                                                           *)

\* A cell whose fields are set that an accepted tree has (HandsOverSchema).
Whole(c) ==
    /\ \A f, u : <<c.tag, f, u>> \in Slots =>
          \/ c[f] # 0
          \/ f \in Optional
          \/ c.tag \in {"Entity", "Relationship"} /\ f = "attributes"
    /\ c.tag = "Expression" => \E f, u : <<c.tag, f, u>> \in Slots /\ c[f] # 0

Owns(h, c, f, d) == c \in DOMAIN h /\ d # 0 /\ f \in Fields(h[c].tag) /\ h[c][f] = d
Owned(h, d) == \E c, f : Owns(h, c, f, d)

\* What a field points to is whole and of the right tag.
Typed(h) ==
    \A c \in DOMAIN h : \A f, u :
        <<h[c].tag, f, u>> \in Slots /\ h[c][f] # 0 => h[h[c][f]].tag = u /\ Whole(h[h[c][f]])
Single(h) ==
    \A c, f, e, g, d : Owns(h, c, f, d) /\ Owns(h, e, g, d) => c = e /\ f = g
\* K are the cells that the parser holds; a replaced key has no owner.
Rooted(h, K) ==
    /\ K \subseteq DOMAIN h
    /\ \A d \in K : ~Owned(h, d)
    /\ \A d \in DOMAIN h \ K : Owned(h, d) \/ h[d].tag = "PrimaryKey"
Unchained(h) == \A c \in DOMAIN h : h[c].tag \notin Chained => h[c].next = 0
Ownership(h, K) == Shape(h) /\ Typed(h) /\ Single(h) /\ Rooted(h, K) /\ Unchained(h)

\* The cells that the fields of a cell with this tag are given.
Gifts(tag, upd) == {upd[f] : f \in DOMAIN upd \cap Fields(tag)} \ {0}
\* They are held, are what the fields want, and each goes to one field.
Gives(h, K, tag, upd) ==
    /\ Values(h, tag, upd)
    /\ Gifts(tag, upd) \subseteq K
    /\ \A f, u : <<tag, f, u>> \in Slots /\ f \in DOMAIN upd /\ upd[f] # 0 =>
          h[upd[f]].tag = u /\ Whole(h[upd[f]])
    /\ \A f, g \in DOMAIN upd \cap Fields(tag) : upd[f] = upd[g] /\ upd[f] # 0 => f = g
    /\ tag \notin Chained /\ "next" \in DOMAIN upd => upd["next"] = 0

LEMMA SlotNames ==
    ASSUME NEW tag \in Tags
    PROVE  /\ \A f, u : <<tag, f, u>> \in Slots => f \in Names(tag) \ {"tag"} /\ f \in Fields(tag)
           /\ Fields(tag) \subseteq Names(tag) \ {"tag"}
           /\ "next" \in Names(tag) \ {"tag"} /\ Tails \subseteq Names(tag) \ {"tag"}
<1>1. ASSUME NEW f \in Fields(tag) PROVE f \in Names(tag) /\ f # "tag"
  <2>1. PICK u : <<tag, f, u>> \in Slots
    BY FieldsAre
  <2>2. f # "tag"
    BY <2>1, SlotFacts
  <2> QED BY <2>2 DEF Names
<1>2. \A f, u : <<tag, f, u>> \in Slots => f \in Fields(tag)
  BY FieldsAre
<1>3. "next" \in Names(tag) /\ Tails \subseteq Names(tag) /\ "next" # "tag" /\ "tag" \notin Tails
  BY SlotFacts DEF Names
<1> QED BY <1>1, <1>2, <1>3

LEMMA AddsOwned ==
    ASSUME NEW h, NEW K, Ownership(h, K), NEW tag \in Tags, NEW upd, Gives(h, K, tag, upd),
           NEW g, Adds(h, g, tag, upd)
    PROVE  Ownership(g, (K \ Gifts(tag, upd)) \cup {Len(h) + 1})
<1> DEFINE n == Len(h) + 1
<1>1. /\ Len(h) \in Nat /\ n \in Nat /\ DOMAIN h = 1 .. Len(h) /\ DOMAIN g = 1 .. n
      /\ DOMAIN g = DOMAIN h \cup {n} /\ n \notin DOMAIN h /\ n # 0
      /\ g \in Seq(Cells)
  <2>1. h \in Seq(Cells)
    BY DEF Ownership, Shape
  <2>2. g \in Seq(Cells) /\ Len(g) = Len(h) + 1
    BY DEF Adds
  <2> QED BY <2>1, <2>2
<1>2. /\ \A e \in DOMAIN h : g[e] = h[e]
      /\ DOMAIN g[n] = Names(tag) /\ g[n].tag = tag
      /\ \A f \in Names(tag) \ {"tag"} : g[n][f] = IF f \in DOMAIN upd THEN upd[f] ELSE 0
  BY DEF Adds
<1>3. /\ DOMAIN upd \subseteq Names(tag) \ {"tag"} /\ \A f \in DOMAIN upd : upd[f] \in 0 .. Len(h)
  BY DEF Gives, Values
<1> HIDE DEF n
<1>4. Shape(g)
  <2>1. ASSUME NEW c \in DOMAIN g
        PROVE  /\ g[c].tag \in Tags /\ DOMAIN g[c] = Names(g[c].tag)
               /\ \A f \in Names(g[c].tag) \ {"tag"} : g[c][f] \in 0 .. n
    <3>1. CASE c = n
      BY <1>1, <1>2, <1>3, <3>1 DEF n
    <3>2. CASE c # n
      <4>1. c \in DOMAIN h /\ g[c] = h[c]
        BY <1>1, <1>2, <3>2
      <4>2. /\ h[c].tag \in Tags /\ DOMAIN h[c] = Names(h[c].tag)
            /\ \A f \in Names(h[c].tag) \ {"tag"} : h[c][f] \in 0 .. Len(h)
        BY <4>1 DEF Ownership, Shape
      <4> QED BY <4>1, <4>2, <1>1 DEF n
    <3> QED BY <3>1, <3>2
  <2>2. Len(g) = n
    BY DEF Adds, n
  <2> QED BY <1>1, <2>1, <2>2 DEF Shape
<1>5. \A c, f, d : Owns(g, c, f, d) <=>
         \/ Owns(h, c, f, d)
         \/ c = n /\ f \in DOMAIN upd \cap Fields(tag) /\ d # 0 /\ upd[f] = d
  <2> SUFFICES ASSUME NEW c, NEW f, NEW d
               PROVE  Owns(g, c, f, d) <=>
                         \/ Owns(h, c, f, d)
                         \/ c = n /\ f \in DOMAIN upd \cap Fields(tag) /\ d # 0 /\ upd[f] = d
    OBVIOUS
  <2>1. CASE c = n
    <3>1. ~Owns(h, c, f, d)
      BY <1>1, <2>1 DEF Owns
    <3>2. Owns(g, c, f, d) <=> d # 0 /\ f \in Fields(tag) /\ g[n][f] = d
      BY <1>1, <1>2, <2>1 DEF Owns
    <3>3. f \in Fields(tag) => f \in Names(tag) \ {"tag"}
      BY SlotNames
    <3> QED BY <3>1, <3>2, <3>3, <1>2, <2>1
  <2>2. CASE c # n
    BY <1>1, <1>2, <2>2 DEF Owns
  <2> QED BY <2>1, <2>2
<1>6. Typed(g)
  <2> SUFFICES ASSUME NEW c \in DOMAIN g, NEW f, NEW u, <<g[c].tag, f, u>> \in Slots, g[c][f] # 0
               PROVE  g[g[c][f]].tag = u /\ Whole(g[g[c][f]])
    BY DEF Typed
  <2>1. CASE c = n
    <3>1. f \in Names(tag) \ {"tag"} /\ <<tag, f, u>> \in Slots
      BY SlotNames, <1>2, <2>1
    <3>2. f \in DOMAIN upd /\ g[c][f] = upd[f] /\ upd[f] # 0
      BY <3>1, <1>2, <2>1
    <3>3. h[upd[f]].tag = u /\ Whole(h[upd[f]])
      BY <3>1, <3>2 DEF Gives
    <3>4. upd[f] \in DOMAIN h
      BY <3>2, <1>1, <1>3
    <3> QED BY <3>2, <3>3, <3>4, <1>2
  <2>2. CASE c # n
    <3>1. c \in DOMAIN h /\ g[c] = h[c]
      BY <1>1, <1>2, <2>2
    <3>2. h[h[c][f]].tag = u /\ Whole(h[h[c][f]])
      BY <3>1 DEF Ownership, Typed
    <3>3. h[c][f] \in DOMAIN h
      <4>1. f \in Names(h[c].tag) \ {"tag"}
        BY <3>1, SlotNames DEF Ownership, Shape
      <4> QED BY <4>1, <3>1, <1>1 DEF Ownership, Shape
    <3> QED BY <3>1, <3>2, <3>3, <1>2
  <2> QED BY <2>1, <2>2
<1>7. \A d \in K : ~Owned(h, d)
  BY DEF Ownership, Rooted
<1>8. Single(g)
  <2> SUFFICES ASSUME NEW c, NEW f, NEW e, NEW k, NEW d, Owns(g, c, f, d), Owns(g, e, k, d)
               PROVE  c = e /\ f = k
    BY DEF Single
  <2>1. CASE Owns(h, c, f, d) /\ Owns(h, e, k, d)
    BY <2>1 DEF Ownership, Single
  <2>2. ASSUME NEW x \in DOMAIN upd \cap Fields(tag), d # 0, upd[x] = d PROVE ~Owned(h, d)
    BY <2>2, <1>7 DEF Gives, Gifts
  <2>3. CASE ~Owned(h, d)
    <3>1. c = n /\ f \in DOMAIN upd \cap Fields(tag) /\ d # 0 /\ upd[f] = d
      BY <2>3, <1>5 DEF Owned
    <3>2. e = n /\ k \in DOMAIN upd \cap Fields(tag) /\ d # 0 /\ upd[k] = d
      BY <2>3, <1>5 DEF Owned
    <3> QED BY <3>1, <3>2 DEF Gives
  <2> QED BY <2>1, <2>2, <2>3, <1>5 DEF Owned
<1>9. Rooted(g, (K \ Gifts(tag, upd)) \cup {n})
  <2>1. K \subseteq DOMAIN h
    BY DEF Ownership, Rooted
  <2>2. ASSUME NEW d \in (K \ Gifts(tag, upd)) \cup {n} PROVE ~Owned(g, d)
    <3> SUFFICES ASSUME NEW c, NEW f, Owns(g, c, f, d) PROVE FALSE
      BY DEF Owned
    <3>1. CASE c = n /\ f \in DOMAIN upd \cap Fields(tag) /\ d # 0 /\ upd[f] = d
      <4>1. d \in Gifts(tag, upd)
        BY <3>1 DEF Gifts
      <4>2. d \in K
        BY <4>1 DEF Gives
      <4> QED BY <4>1, <4>2, <2>1, <2>2, <1>1
    <3>2. CASE Owns(h, c, f, d)
      <4>1. d \notin K
        BY <3>2, <1>7 DEF Owned
      <4>2. d \in DOMAIN h
        <5>1. c \in DOMAIN h /\ f \in Fields(h[c].tag) /\ h[c][f] = d /\ d # 0
          BY <3>2 DEF Owns
        <5>2. h[c].tag \in Tags
          BY <5>1 DEF Ownership, Shape
        <5>3. f \in Names(h[c].tag) \ {"tag"}
          BY <5>1, <5>2, SlotNames
        <5> QED BY <5>1, <5>3, <1>1 DEF Ownership, Shape
      <4> QED BY <4>1, <4>2, <1>1
    <3> QED BY <3>1, <3>2, <1>5
  <2>3. ASSUME NEW d \in DOMAIN g \ ((K \ Gifts(tag, upd)) \cup {n})
        PROVE  Owned(g, d) \/ g[d].tag = "PrimaryKey"
    <3>1. d \in DOMAIN h /\ g[d] = h[d]
      BY <1>1, <1>2
    <3>2. CASE d \in K
      <4>1. PICK f \in DOMAIN upd \cap Fields(tag) : d = upd[f] /\ d # 0
        BY <3>2 DEF Gifts
      <4> QED BY <4>1, <1>5 DEF Owned
    <3>3. CASE d \notin K
      BY <3>1, <3>3, <1>5 DEF Owned, Ownership, Rooted
    <3> QED BY <3>2, <3>3
  <2> QED BY <2>1, <2>2, <2>3, <1>1 DEF Rooted
<1>10. Unchained(g)
  <2> SUFFICES ASSUME NEW c \in DOMAIN g, g[c].tag \notin Chained PROVE g[c].next = 0
    BY DEF Unchained
  <2>1. CASE c = n
    <3>1. "next" \in Names(tag) \ {"tag"}
      BY SlotNames
    <3>2. g[c].next = IF "next" \in DOMAIN upd THEN upd["next"] ELSE 0
      BY <3>1, <1>2, <2>1
    <3> QED BY <3>2, <2>1, <1>2 DEF Gives
  <2>2. CASE c # n
    BY <1>1, <1>2, <2>2 DEF Ownership, Unchained
  <2> QED BY <2>1, <2>2
<1> QED BY <1>4, <1>6, <1>8, <1>9, <1>10 DEF Ownership, n

\* The fields that are set were null, but for a key that is replaced.
Fills(h, c, upd) ==
    /\ c \in DOMAIN h
    /\ \A f \in DOMAIN upd \cap Fields(h[c].tag) : h[c][f] # 0 =>
          h[c].tag = "Entity" /\ f = "primaryKey" /\ upd[f] # 0

LEMMA PutsOwned ==
    ASSUME NEW h, NEW K, Ownership(h, K), NEW c \in DOMAIN h, NEW upd,
           Gives(h, K \ {c}, h[c].tag, upd), Fills(h, c, upd), NEW g, Puts(h, g, c, upd)
    PROVE  /\ Ownership(g, K \ Gifts(h[c].tag, upd))
           /\ Whole(h[c]) => Whole(g[c])
           /\ \A e \in DOMAIN h : g[e].tag = h[e].tag
<1> DEFINE tag == h[c].tag
<1>1. /\ Len(h) \in Nat /\ DOMAIN h = 1 .. Len(h) /\ DOMAIN g = DOMAIN h
      /\ g \in Seq(Cells) /\ Len(g) = Len(h)
  <2>1. h \in Seq(Cells)
    BY DEF Ownership, Shape
  <2>2. g \in Seq(Cells) /\ Len(g) = Len(h)
    BY DEF Puts
  <2> QED BY <2>1, <2>2
<1>2. /\ tag \in Tags /\ DOMAIN h[c] = Names(tag)
      /\ \A f \in Names(tag) \ {"tag"} : h[c][f] \in 0 .. Len(h)
  BY DEF Ownership, Shape
<1>3. /\ DOMAIN upd \subseteq Names(tag) \ {"tag"} /\ \A f \in DOMAIN upd : upd[f] \in 0 .. Len(h)
  BY DEF Gives, Values
<1>4. /\ \A e \in DOMAIN h : e # c => g[e] = h[e]
      /\ DOMAIN g[c] = Names(tag) /\ g[c].tag = tag
      /\ \A f \in Names(tag) \ {"tag"} : g[c][f] = IF f \in DOMAIN upd THEN upd[f] ELSE h[c][f]
  <2>1. "tag" \in Names(tag)
    BY DEF Names
  <2> HIDE DEF tag
  <2>2. /\ \A e \in DOMAIN h : e # c => g[e] = h[e]
        /\ DOMAIN g[c] = Names(tag)
        /\ \A f \in Names(tag) : g[c][f] = IF f \in DOMAIN upd THEN upd[f] ELSE h[c][f]
    BY <1>2 DEF Puts
  <2>3. g[c].tag = h[c].tag
    BY <2>1, <2>2, <1>3
  <2> QED BY <2>2, <2>3 DEF tag
<1>5. \A e \in DOMAIN h : g[e].tag = h[e].tag
  BY <1>4
<1>6. /\ tag \notin Chained /\ "next" \in DOMAIN upd => upd["next"] = 0
      /\ Gifts(tag, upd) \subseteq K \ {c}
      /\ \A f, u : <<tag, f, u>> \in Slots /\ f \in DOMAIN upd /\ upd[f] # 0 =>
            h[upd[f]].tag = u /\ Whole(h[upd[f]])
      /\ \A f, k \in DOMAIN upd \cap Fields(tag) : upd[f] = upd[k] /\ upd[f] # 0 => f = k
  BY DEF Gives
<1>7. \A f \in DOMAIN upd \cap Fields(tag) : h[c][f] # 0 => upd[f] # 0
  BY DEF Fills
<1>8. \A f \in DOMAIN upd \cap Fields(tag) : h[c][f] # 0 => tag = "Entity" /\ f = "primaryKey"
  BY DEF Fills
<1> HIDE DEF tag
<1>9. Whole(h[c]) => Whole(g[c])
  <2> SUFFICES ASSUME Whole(h[c]) PROVE Whole(g[c])
    OBVIOUS
  <2>1. \A f, u : <<tag, f, u>> \in Slots /\ h[c][f] # 0 => g[c][f] # 0
    BY <1>2, <1>4, <1>7, SlotNames
  <2>2. h[c].tag = tag
    BY DEF tag
  <2>3. \A f, u : <<g[c].tag, f, u>> \in Slots =>
          \/ g[c][f] # 0
          \/ f \in Optional
          \/ g[c].tag \in {"Entity", "Relationship"} /\ f = "attributes"
    BY <2>1, <2>2, <1>4 DEF Whole
  <2>4. tag = "Expression" => \E f, u : <<tag, f, u>> \in Slots /\ g[c][f] # 0
    BY <2>1, <2>2 DEF Whole
  <2> QED BY <2>3, <2>4, <1>4 DEF Whole
<1>10. \A e \in DOMAIN h : Whole(h[e]) => Whole(g[e])
  BY <1>4, <1>9
<1>11. Shape(g)
  <2>1. ASSUME NEW e \in DOMAIN g
        PROVE  /\ g[e].tag \in Tags /\ DOMAIN g[e] = Names(g[e].tag)
               /\ \A f \in Names(g[e].tag) \ {"tag"} : g[e][f] \in 0 .. Len(h)
    <3>1. CASE e = c
      BY <1>2, <1>4, <1>3, <3>1
    <3>2. CASE e # c
      BY <1>1, <1>4, <3>2 DEF Ownership, Shape
    <3> QED BY <3>1, <3>2
  <2> QED BY <1>1, <2>1 DEF Shape
<1>12. \A e, f, d : Owns(g, e, f, d) <=>
         \/ Owns(h, e, f, d) /\ ~(e = c /\ f \in DOMAIN upd)
         \/ e = c /\ f \in DOMAIN upd \cap Fields(tag) /\ d # 0 /\ upd[f] = d
  <2> SUFFICES ASSUME NEW e, NEW f, NEW d
               PROVE  Owns(g, e, f, d) <=>
                         \/ Owns(h, e, f, d) /\ ~(e = c /\ f \in DOMAIN upd)
                         \/ e = c /\ f \in DOMAIN upd \cap Fields(tag) /\ d # 0 /\ upd[f] = d
    OBVIOUS
  <2>1. CASE e = c
    <3>1. Owns(h, e, f, d) <=> d # 0 /\ f \in Fields(tag) /\ h[c][f] = d
      BY <2>1 DEF Owns, tag
    <3>2. Owns(g, e, f, d) <=> d # 0 /\ f \in Fields(tag) /\ g[c][f] = d
      BY <1>1, <1>4, <2>1 DEF Owns
    <3>3. f \in Fields(tag) => f \in Names(tag) \ {"tag"}
      BY <1>2, SlotNames
    <3> QED BY <3>1, <3>2, <3>3, <1>4, <2>1
  <2>2. CASE e # c
    BY <1>1, <1>4, <2>2 DEF Owns
  <2> QED BY <2>1, <2>2
<1>13. Typed(g)
  <2> SUFFICES ASSUME NEW e \in DOMAIN g, NEW f, NEW u, <<g[e].tag, f, u>> \in Slots, g[e][f] # 0
               PROVE  g[g[e][f]].tag = u /\ Whole(g[g[e][f]])
    BY DEF Typed
  <2>1. ASSUME NEW d \in DOMAIN h, h[d].tag = u, Whole(h[d]) PROVE g[d].tag = u /\ Whole(g[d])
    BY <2>1, <1>5, <1>10
  <2>2. CASE e = c /\ f \in DOMAIN upd
    <3>1. f \in Names(tag) \ {"tag"} /\ <<tag, f, u>> \in Slots
      BY SlotNames, <1>2, <1>4, <2>2
    <3>2. g[e][f] = upd[f] /\ upd[f] # 0
      BY <3>1, <1>4, <2>2
    <3>3. h[upd[f]].tag = u /\ Whole(h[upd[f]])
      BY <3>1, <3>2, <2>2, <1>6
    <3>4. upd[f] \in DOMAIN h
      BY <3>2, <2>2, <1>1, <1>3
    <3> QED BY <3>2, <3>3, <3>4, <2>1
  <2>3. CASE ~(e = c /\ f \in DOMAIN upd)
    <3>1. e \in DOMAIN h /\ <<h[e].tag, f, u>> \in Slots
      BY <1>1, <1>5
    <3>2. f \in Names(h[e].tag) \ {"tag"}
      BY <3>1, SlotNames DEF Ownership, Shape
    <3>3. g[e][f] = h[e][f]
      <4>1. CASE e = c
        BY <4>1, <2>3, <3>2, <1>4 DEF tag
      <4> QED BY <4>1, <3>1, <1>4
    <3>4. h[h[e][f]].tag = u /\ Whole(h[h[e][f]])
      BY <3>1, <3>3 DEF Ownership, Typed
    <3>5. h[e][f] \in DOMAIN h
      BY <3>1, <3>2, <3>3, <1>1 DEF Ownership, Shape
    <3> QED BY <3>3, <3>4, <3>5, <2>1
  <2> QED BY <2>2, <2>3
<1>14. \A d \in K : ~Owned(h, d)
  BY DEF Ownership, Rooted
<1>15. Single(g)
  <2> SUFFICES ASSUME NEW e, NEW f, NEW b, NEW k, NEW d, Owns(g, e, f, d), Owns(g, b, k, d)
               PROVE  e = b /\ f = k
    BY DEF Single
  <2>1. CASE Owns(h, e, f, d) /\ Owns(h, b, k, d)
    BY <2>1 DEF Ownership, Single
  <2>2. ASSUME NEW x \in DOMAIN upd \cap Fields(tag), d # 0, upd[x] = d PROVE ~Owned(h, d)
    BY <2>2, <1>14, <1>6 DEF Gifts
  <2>3. CASE ~Owned(h, d)
    <3>1. e = c /\ f \in DOMAIN upd \cap Fields(tag) /\ d # 0 /\ upd[f] = d
      BY <2>3, <1>12 DEF Owned
    <3>2. b = c /\ k \in DOMAIN upd \cap Fields(tag) /\ d # 0 /\ upd[k] = d
      BY <2>3, <1>12 DEF Owned
    <3> QED BY <3>1, <3>2, <1>6
  <2> QED BY <2>1, <2>2, <2>3, <1>12 DEF Owned
<1>16. Rooted(g, K \ Gifts(tag, upd))
  <2>1. K \subseteq DOMAIN h
    BY DEF Ownership, Rooted
  <2>2. ASSUME NEW d \in K \ Gifts(tag, upd) PROVE ~Owned(g, d)
    BY <1>12, <1>14 DEF Owned, Gifts
  <2>3. ASSUME NEW d \in DOMAIN g \ (K \ Gifts(tag, upd))
        PROVE  Owned(g, d) \/ g[d].tag = "PrimaryKey"
    <3>2. CASE d \in K
      <4>1. PICK f \in DOMAIN upd \cap Fields(tag) : d = upd[f] /\ d # 0
        BY <3>2 DEF Gifts
      <4> QED BY <4>1, <1>12 DEF Owned
    <3>3. CASE d \notin K
      <4>1. h[d].tag = "PrimaryKey" => g[d].tag = "PrimaryKey"
        BY <1>1, <1>5
      <4>2. ASSUME NEW e, NEW f, Owns(h, e, f, d), e = c, f \in DOMAIN upd
            PROVE  h[d].tag = "PrimaryKey"
        <5>1. f \in DOMAIN upd \cap Fields(tag) /\ h[c][f] = d /\ d # 0
          BY <4>2 DEF Owns, tag
        <5>2. tag = "Entity" /\ f = "primaryKey"
          BY <5>1, <1>8
        <5>3. <<tag, f, "PrimaryKey">> \in Slots
          BY <5>2 DEF Slots
        <5> QED BY <5>1, <5>3 DEF Ownership, Typed, tag
      <4>3. Owned(h, d) \/ h[d].tag = "PrimaryKey"
        BY <3>3, <1>1 DEF Ownership, Rooted
      <4> QED BY <4>1, <4>2, <4>3, <1>12 DEF Owned
    <3> QED BY <3>2, <3>3
  <2> QED BY <2>1, <2>2, <2>3, <1>1 DEF Rooted
<1>17. Unchained(g)
  <2> SUFFICES ASSUME NEW e \in DOMAIN g, g[e].tag \notin Chained PROVE g[e].next = 0
    BY DEF Unchained
  <2>1. CASE e = c
    <3>1. "next" \in Names(tag) \ {"tag"}
      BY <1>2, SlotNames
    <3>2. g[e].next = IF "next" \in DOMAIN upd THEN upd["next"] ELSE h[c].next
      BY <3>1, <1>4, <2>1
    <3>3. h[c].next = 0
      BY <2>1, <1>4 DEF Ownership, Unchained, tag
    <3> QED BY <3>2, <3>3, <2>1, <1>4, <1>6
  <2>2. CASE e # c
    BY <1>1, <1>4, <2>2 DEF Ownership, Unchained
  <2> QED BY <2>1, <2>2
<1> QED BY <1>5, <1>9, <1>11, <1>13, <1>15, <1>16, <1>17 DEF Ownership, tag

Kept(h, g, G) == Ownership(g, G) /\ \A e \in DOMAIN h : g[e].tag = h[e].tag

LEMMA PutsOwnedAt ==
    ASSUME NEW h, NEW K, Ownership(h, K), NEW c, c \in DOMAIN h, NEW t, t = h[c].tag,
           NEW J, J = K \ {c}, NEW upd, Gives(h, J, t, upd), Fills(h, c, upd),
           NEW g, Puts(h, g, c, upd), NEW G, G = K \ Gifts(t, upd)
    PROVE  Kept(h, g, G)
<1>1. Gives(h, K \ {c}, h[c].tag, upd)
  OBVIOUS
<1>2. /\ Ownership(g, K \ Gifts(h[c].tag, upd))
      /\ \A e \in DOMAIN h : g[e].tag = h[e].tag
  BY <1>1, PutsOwned
<1> QED BY <1>2 DEF Kept

-----------------------------------------------------------------------------
(* The ends of lists that still grow                                       *)

\* The tail pointers that the actions follow, by the tag that has them and the tag of
\* what they point to; and the heads that go with those of a body.
ListTags == {"AttributeList", "ParticipantList", "ModifierList", "QualifiedIdentifierList"}
Ends == {<<"Schema", "entities_last", "Entity">>,
         <<"Schema", "relationships_last", "Relationship">>,
         <<"Entity", "attributes_last", "AttributeList">>,
         <<"Entity", "assertions_last", "Assertion">>}
        \cup {<<t, "last", t>> : t \in ListTags}
Begun == {<<"Schema", "entities", "entities_last", "Entity">>,
          <<"Schema", "relationships", "relationships_last", "Relationship">>,
          <<"Entity", "attributes", "attributes_last", "AttributeList">>,
          <<"Entity", "assertions", "assertions_last", "Assertion">>}

EndNames(tag) == {l \in Tails : \E t \in Tags : <<tag, l, t>> \in Ends}
Tips(h, o) == {h[o][l] : l \in EndNames(h[o].tag)} \ {0}
Lead(c) == IF c.tag \in Chained THEN c[Leading[c.tag]] ELSE 0
\* What tells the order of what is held from that of what comes after it.
Marks(h, o) == ({o, Lead(h[o])} \cup {Lead(h[x]) : x \in Tips(h, o)}) \ {0}

Open(h, o) ==
    /\ \A l, t : <<h[o].tag, l, t>> \in Ends /\ h[o][l] # 0 =>
          /\ h[h[o][l]].tag = t /\ h[h[o][l]].next = 0
          /\ h[o][l] = o \/ Owned(h, h[o][l])
    /\ \A f, l, t : <<h[o].tag, f, l, t>> \in Begun /\ h[o][f] # 0 => h[o][l] # 0
    /\ h[o].tag \in Chained \ ListTags => h[o].next = 0
Apart(h, K) == \A o, q \in K : o # q => Tips(h, o) \cap Tips(h, q) = {}
Ordered(h) == \A c \in DOMAIN h : h[c].next # 0 => Lead(h[c]) < Lead(h[h[c].next])
Older(h) ==
    \A c \in DOMAIN h : \A f \in {"left", "right"} :
        h[c].tag = "Expression" /\ h[c][f] # 0 => h[c][f] < c

Sound(h, K) ==
    /\ Ownership(h, K) /\ (\A o \in K : Open(h, o)) /\ Apart(h, K)
    /\ Ordered(h) /\ Older(h)

\* A semantic action: with the cells A it makes p of the heap h with the cells K held.
Step(h, K, A, g, p) ==
    /\ A \subseteq K /\ Sound(g, (K \ A) \cup ({p} \ {0}))
    /\ DOMAIN h \subseteq DOMAIN g /\ \A e \in DOMAIN h : g[e].tag = h[e].tag
    /\ \A e \in DOMAIN g \ DOMAIN h : g[e].tag # "String"
    /\ \A o \in K \ A : g[o] = h[o] /\ Marks(g, o) = Marks(h, o)
    /\ p # 0 => Marks(g, p) \subseteq (UNION {Marks(h, a) : a \in A}) \cup (DOMAIN g \ DOMAIN h)
    /\ p \in {0} \cup A \cup (DOMAIN g \ DOMAIN h)

LEMMA EndFacts ==
    /\ \A t, l, u : <<t, l, u>> \in Ends =>
          t \in Tags /\ l \in Tails /\ u \in Chained /\ l \in EndNames(t)
    /\ \A t, l, u, v : <<t, l, u>> \in Ends /\ <<t, l, v>> \in Ends => u = v
    /\ \A t, l, m, u : <<t, l, u>> \in Ends /\ <<t, m, u>> \in Ends => l = m
    /\ \A t : \A l \in EndNames(t) : l \in Tails /\ \E u : <<t, l, u>> \in Ends
    /\ \A t, f, l, u : <<t, f, l, u>> \in Begun =>
          <<t, l, u>> \in Ends /\ <<t, f, u>> \in Slots /\ f # "next" /\ (t \in Chained => f # Leading[t])
          /\ t \notin ListTags /\ t # u /\ f # "name"
    /\ \A t, f, l, m, u, v : <<t, f, l, u>> \in Begun /\ <<t, f, m, v>> \in Begun => l = m
    /\ \A t, f, g, l, u, v : <<t, f, l, u>> \in Begun /\ <<t, g, l, v>> \in Begun => f = g
    /\ ListTags \subseteq Chained /\ "PrimaryKey" \notin Chained /\ "Expression" \notin Chained
    /\ \A t \in Chained : Leading[t] \in Fields(t) /\ Leading[t] \notin Tails
    /\ \A t \in ListTags : \A l, u : <<t, l, u>> \in Ends <=> l = "last" /\ u = t
    /\ "last" \in Tails
    /\ \A t \in Tags \ (ListTags \cup {"Schema", "Entity"}) : EndNames(t) = {}
<1>1. \A t, l, u : <<t, l, u>> \in Ends =>
         t \in {"Schema", "Entity"} \cup ListTags /\ l \in Tails /\ u \in Chained
  BY SlotFacts DEF Ends, ListTags, Tails
<1>2. \A t, l, u, v : <<t, l, u>> \in Ends /\ <<t, l, v>> \in Ends => u = v
  BY DEF Ends, ListTags
<1>3. \A t, l, m, u : <<t, l, u>> \in Ends /\ <<t, m, u>> \in Ends => l = m
  BY DEF Ends, ListTags
<1>4. {"Schema", "Entity"} \cup ListTags \subseteq Tags /\ Chained \subseteq Tags
  BY LayoutSmall, SlotFacts DEF ListTags
<1>5. \A t, l, u : <<t, l, u>> \in Ends =>
         t \in Tags /\ l \in Tails /\ u \in Chained /\ l \in EndNames(t)
  BY <1>1, <1>4 DEF EndNames
<1>6. \A t : \A l \in EndNames(t) : l \in Tails /\ \E u : <<t, l, u>> \in Ends
  BY DEF EndNames
<1>7. \A t, f, l, u : <<t, f, l, u>> \in Begun =>
          /\ <<t, l, u>> \in Ends /\ <<t, f, u>> \in Slots /\ f # "next"
          /\ t \notin ListTags /\ t # u /\ f # "name"
  BY DEF Begun, Ends, Slots, ListTags
<1>8. \A t, f, l, u : <<t, f, l, u>> \in Begun => (t \in Chained => f # Leading[t])
  <2>1. \A t, f, l, u : <<t, f, l, u>> \in Begun => t \in {"Schema", "Entity"} /\ f # "name"
    BY DEF Begun
  <2>2. "Schema" \notin Chained /\ Leading["Entity"] = "name"
    BY SlotFacts DEF Leading
  <2> QED BY <2>1, <2>2
<1>9. \A t, f, l, m, u, v : <<t, f, l, u>> \in Begun /\ <<t, f, m, v>> \in Begun => l = m
  BY DEF Begun
<1>10. \A t, f, g, l, u, v : <<t, f, l, u>> \in Begun /\ <<t, g, l, v>> \in Begun => f = g
  BY DEF Begun
<1>11. ListTags \subseteq Chained /\ "PrimaryKey" \notin Chained /\ "Expression" \notin Chained
  BY SlotFacts DEF ListTags
<1>12. ASSUME NEW t \in Chained PROVE Leading[t] \in Fields(t) /\ Leading[t] \notin Tails
  <2>1. PICK u : <<t, Leading[t], u>> \in Slots
    BY SlotFacts
  <2>2. Leading[t] \notin Tails
    BY <2>1, SlotFacts
  <2>3. t \in Tags
    BY <1>4
  <2> QED BY <2>1, <2>2, <2>3, SlotNames
<1>13. \A t \in ListTags : \A l, u : <<t, l, u>> \in Ends <=> l = "last" /\ u = t
  BY DEF Ends, ListTags
<1>14. \A t \in Tags \ (ListTags \cup {"Schema", "Entity"}) : EndNames(t) = {}
  BY <1>1 DEF EndNames
<1>15. "last" \in Tails
  BY DEF Tails
<1> QED BY <1>2, <1>3, <1>5, <1>6, <1>7, <1>8, <1>9, <1>10, <1>11, <1>12, <1>13, <1>14, <1>15

LEMMA HeapFacts ==
    ASSUME NEW h, NEW K, Ownership(h, K)
    PROVE  /\ h \in Seq(Cells) /\ Len(h) \in Nat /\ DOMAIN h = 1 .. Len(h) /\ 0 \notin DOMAIN h
           /\ K \subseteq DOMAIN h /\ \A d \in K : ~Owned(h, d)
           /\ \A c \in DOMAIN h :
                 /\ h[c].tag \in Tags /\ DOMAIN h[c] = Names(h[c].tag)
                 /\ h[c].next \in 0 .. Len(h)
                 /\ \A t \in Tails : h[c][t] \in 0 .. Len(h)
                 /\ \A f \in Fields(h[c].tag) : h[c][f] \in 0 .. Len(h)
                 /\ Lead(h[c]) \in 0 .. Len(h)
           /\ \A c, f, d : Owns(h, c, f, d) => d \in DOMAIN h
           /\ \A c \in DOMAIN h : h[c].next # 0 =>
                 /\ h[c].tag \in Chained /\ h[h[c].next].tag = h[c].tag
                 /\ Owns(h, c, "next", h[c].next)
<1>1. h \in Seq(Cells) /\ K \subseteq DOMAIN h /\ \A d \in K : ~Owned(h, d)
  BY DEF Ownership, Shape, Rooted
<1>2. Len(h) \in Nat /\ DOMAIN h = 1 .. Len(h) /\ 0 \notin DOMAIN h
  BY <1>1
<1>3. ASSUME NEW c \in DOMAIN h
      PROVE  /\ h[c].tag \in Tags /\ DOMAIN h[c] = Names(h[c].tag)
             /\ h[c].next \in 0 .. Len(h)
             /\ \A t \in Tails : h[c][t] \in 0 .. Len(h)
             /\ \A f \in Fields(h[c].tag) : h[c][f] \in 0 .. Len(h)
  <2>1. /\ h[c].tag \in Tags /\ DOMAIN h[c] = Names(h[c].tag)
        /\ \A f \in Names(h[c].tag) \ {"tag"} : h[c][f] \in 0 .. Len(h)
    BY DEF Ownership, Shape
  <2>2. /\ Fields(h[c].tag) \subseteq Names(h[c].tag) \ {"tag"}
        /\ "next" \in Names(h[c].tag) \ {"tag"} /\ Tails \subseteq Names(h[c].tag) \ {"tag"}
    BY <2>1, SlotNames
  <2> QED BY <2>1, <2>2
<1>4. ASSUME NEW c \in DOMAIN h PROVE Lead(h[c]) \in 0 .. Len(h)
  BY <1>2, <1>3, EndFacts DEF Lead
<1>5. ASSUME NEW c, NEW f, NEW d, Owns(h, c, f, d) PROVE d \in DOMAIN h
  BY <1>2, <1>3, <1>5 DEF Owns
<1>6. ASSUME NEW c \in DOMAIN h, h[c].next # 0
      PROVE  /\ h[c].tag \in Chained /\ h[h[c].next].tag = h[c].tag
             /\ Owns(h, c, "next", h[c].next)
  <2>1. h[c].tag \in Chained
    BY <1>6 DEF Ownership, Unchained
  <2>2. <<h[c].tag, "next", h[c].tag>> \in Slots
    BY <2>1, SlotFacts
  <2>3. "next" \in Fields(h[c].tag)
    BY <1>3, <2>2, SlotNames
  <2> QED BY <1>6, <2>1, <2>2, <2>3 DEF Owns, Ownership, Typed
<1> QED BY <1>1, <1>2, <1>3, <1>4, <1>5, <1>6

LEMMA TipFacts ==
    ASSUME NEW h, NEW K, Ownership(h, K), NEW o \in K, Open(h, o), NEW x \in Tips(h, o)
    PROVE  /\ x \in DOMAIN h /\ h[x].next = 0 /\ h[x].tag \in Chained
           /\ x = o \/ Owned(h, x)
           /\ x # o => x \notin K
<1>1. PICK l \in EndNames(h[o].tag) : x = h[o][l] /\ x # 0
  BY DEF Tips
<1>2. PICK t : <<h[o].tag, l, t>> \in Ends
  BY DEF EndNames
<1>3. h[x].next = 0 /\ h[x].tag = t /\ (x = o \/ Owned(h, x))
  BY <1>1, <1>2 DEF Open
<1>4. t \in Chained /\ l \in Tails
  BY <1>2, EndFacts
<1>5. x \in DOMAIN h
  BY <1>1, <1>4, HeapFacts
<1>6. Owned(h, x) => x \notin K
  BY HeapFacts
<1> QED BY <1>3, <1>4, <1>5, <1>6

\* What else is held is as it was, whatever is done to the cells A and their tails.
LEMMA Assemble ==
    ASSUME NEW h, NEW K, Sound(h, K), NEW A, A \subseteq K, NEW g, NEW p,
           DOMAIN h \subseteq DOMAIN g, \A e \in DOMAIN h : g[e].tag = h[e].tag,
           \A e \in DOMAIN g \ DOMAIN h : g[e].tag # "String",
           p \in {0} \cup A \cup (DOMAIN g \ DOMAIN h),
           Ownership(g, (K \ A) \cup ({p} \ {0})),
           \A e \in DOMAIN h : g[e] # h[e] => e \in A \/ \E a \in A : e \in Tips(h, a),
           p # 0 => Open(g, p),
           p # 0 => Tips(g, p) \subseteq (UNION {Tips(h, a) : a \in A}) \cup A
                                         \cup (DOMAIN g \ DOMAIN h),
           p # 0 => Marks(g, p) \subseteq (UNION {Marks(h, a) : a \in A}) \cup (DOMAIN g \ DOMAIN h),
           Ordered(g), Older(g)
    PROVE  Step(h, K, A, g, p)
<1> DEFINE K2 == (K \ A) \cup ({p} \ {0})
<1>1. /\ Ownership(h, K) /\ (\A o \in K : Open(h, o)) /\ Apart(h, K)
  BY DEF Sound
<1>2. K \subseteq DOMAIN h /\ 0 \notin DOMAIN h /\ \A d \in K : ~Owned(h, d)
  BY <1>1, HeapFacts
<1>3. ASSUME NEW o \in K \ A, NEW x \in Tips(h, o) \cup {o}
      PROVE  x \in DOMAIN h /\ g[x] = h[x] /\ x \notin A /\ \A a \in A : x \notin Tips(h, a)
  <2>1. x \in DOMAIN h /\ (x = o \/ (Owned(h, x) /\ x \notin K))
    BY <1>1, <1>2, TipFacts
  <2>2. x \notin A
    BY <2>1
  <2>3. ASSUME NEW a \in A PROVE x \notin Tips(h, a)
    <3>1. CASE x = o
      <4>1. x # a /\ x \in K
        BY <3>1
      <4> QED BY <4>1, <1>1, TipFacts
    <3>2. CASE x # o
      BY <3>2, <1>1 DEF Apart
    <3> QED BY <3>1, <3>2
  <2> QED BY <2>1, <2>2, <2>3
<1>4. ASSUME NEW o \in K \ A
      PROVE  g[o] = h[o] /\ Tips(g, o) = Tips(h, o) /\ Marks(g, o) = Marks(h, o)
  <2>1. g[o] = h[o] /\ Tips(g, o) = Tips(h, o)
    BY <1>3 DEF Tips
  <2>2. \A x \in Tips(h, o) : g[x] = h[x]
    BY <1>3
  <2>3. {Lead(g[x]) : x \in Tips(g, o)} = {Lead(h[x]) : x \in Tips(h, o)}
    BY <2>1, <2>2
  <2> QED BY <2>1, <2>3 DEF Marks
<1>5. ASSUME NEW o \in K \ A PROVE Open(g, o)
  <2>1. g[o] = h[o] /\ Open(h, o) /\ h[o].tag \in Tags
    BY <1>1, <1>4, HeapFacts
  <2>2. ASSUME NEW l, NEW t, <<h[o].tag, l, t>> \in Ends, h[o][l] # 0
        PROVE  /\ g[h[o][l]].tag = t /\ g[h[o][l]].next = 0
               /\ h[o][l] = o \/ Owned(g, h[o][l])
    <3>1. h[o][l] \in Tips(h, o)
      BY <2>2, EndFacts DEF Tips
    <3>2. g[h[o][l]] = h[h[o][l]] /\ h[o][l] \in DOMAIN h
      BY <1>3, <3>1
    <3>3. /\ h[h[o][l]].tag = t /\ h[h[o][l]].next = 0
          /\ h[o][l] = o \/ Owned(h, h[o][l])
      BY <2>1, <2>2 DEF Open
    <3>4. ASSUME h[o][l] # o PROVE Owned(g, h[o][l])
      <4>1. h[o][l] \notin K
        BY <1>2, <3>3, <3>4
      <4>2. h[o][l] \in DOMAIN g \ K2
        BY <4>1, <3>2
      <4>3. g[h[o][l]].tag # "PrimaryKey"
        BY <3>2, <3>3, <2>2, EndFacts
      <4> QED BY <4>2, <4>3 DEF Ownership, Rooted
    <3> QED BY <3>2, <3>3, <3>4
  <2> QED BY <2>1, <2>2 DEF Open
<1>6. ASSUME NEW o \in K2, NEW q \in K2, o # q, NEW x \in Tips(g, o), x \in Tips(g, q)
      PROVE  FALSE
  <2>1. ASSUME NEW i \in K \ A, p # 0, NEW y \in Tips(g, i), y \in Tips(g, p) PROVE FALSE
    <3>1. y \in Tips(h, i) /\ y \in DOMAIN h
      BY <1>3, <1>4, <2>1
    <3>2. y \notin A /\ \A a \in A : y \notin Tips(h, a)
      BY <1>3, <3>1
    <3>3. y \notin (UNION {Tips(h, a) : a \in A})
      BY <3>2
    <3>4. y \notin (UNION {Tips(h, a) : a \in A}) \cup A \cup (DOMAIN g \ DOMAIN h)
      BY <3>1, <3>2, <3>3
    <3>5. Tips(g, p) \subseteq (UNION {Tips(h, a) : a \in A}) \cup A \cup (DOMAIN g \ DOMAIN h)
      BY <2>1
    <3> QED BY <3>4, <3>5, <2>1
  <2>2. CASE o \in K \ A /\ q \in K \ A
    BY <2>2, <1>1, <1>4, <1>6 DEF Apart
  <2>3. CASE o \in K \ A /\ q = p /\ p # 0
    BY <2>1, <2>3, <1>6
  <2>4. CASE o = p /\ p # 0 /\ q \in K \ A
    BY <2>1, <2>4, <1>6
  <2> QED BY <2>2, <2>3, <2>4, <1>6
<1>7. Sound(g, K2)
  <2>1. Apart(g, K2)
    BY <1>6 DEF Apart
  <2>2. \A o \in K2 : Open(g, o)
    BY <1>5
  <2> QED BY <2>1, <2>2 DEF Sound
<1> QED BY <1>4, <1>7 DEF Step

-----------------------------------------------------------------------------
(* What the semantic actions are made of                                   *)

\* Fields that are no link of a list.
Plain(tag, upd) ==
    /\ "next" \notin DOMAIN upd /\ DOMAIN upd \cap EndNames(tag) = {}
    /\ \A f, l, u : <<tag, f, l, u>> \in Begun => f \notin DOMAIN upd

\* A new cell.
LEMMA NewStep ==
    ASSUME NEW h, NEW K, Sound(h, K), NEW tag \in Tags \ {"String"}, NEW upd,
           Gives(h, K, tag, upd), Plain(tag, upd), NEW g, Adds(h, g, tag, upd)
    PROVE  /\ Step(h, K, Gifts(tag, upd), g, Len(h) + 1)
           /\ Tips(g, Len(h) + 1) = {}
<1> DEFINE n == Len(h) + 1
           A == Gifts(tag, upd)
<1>1. Ownership(h, K) /\ Ordered(h) /\ Older(h)
  BY DEF Sound
<1>2. Len(h) \in Nat /\ DOMAIN h = 1 .. Len(h) /\ h \in Seq(Cells) /\ K \subseteq DOMAIN h
  BY <1>1, HeapFacts
<1>3. /\ \A e \in DOMAIN h : g[e] = h[e]
      /\ DOMAIN g[n] = Names(tag) /\ g[n].tag = tag
      /\ \A f \in Names(tag) \ {"tag"} : g[n][f] = IF f \in DOMAIN upd THEN upd[f] ELSE 0
      /\ g \in Seq(Cells) /\ Len(g) = n
  BY DEF Adds
<1>4. DOMAIN g = DOMAIN h \cup {n} /\ n \notin DOMAIN h /\ n \in DOMAIN g /\ n # 0 /\ n \in Nat
  BY <1>2, <1>3
<1>5. Ownership(g, (K \ A) \cup {n})
  BY <1>1, AddsOwned
<1>6. A \subseteq K
  BY DEF Gives
<1>7. /\ Fields(tag) \subseteq Names(tag) \ {"tag"}
      /\ "next" \in Names(tag) \ {"tag"} /\ Tails \subseteq Names(tag) \ {"tag"}
  BY SlotNames
<1>8. /\ g[n].next = 0 /\ \A l \in EndNames(tag) : g[n][l] = 0
      /\ \A f, l, u : <<tag, f, l, u>> \in Begun => g[n][f] = 0
  <2>1. g[n].next = 0
    BY <1>3, <1>7 DEF Plain
  <2>2. ASSUME NEW l \in EndNames(tag) PROVE g[n][l] = 0
    <3>1. l \in Tails
      BY DEF EndNames
    <3> QED BY <3>1, <1>3, <1>7 DEF Plain
  <2>3. ASSUME NEW f, NEW l, NEW u, <<tag, f, l, u>> \in Begun PROVE g[n][f] = 0
    <3>1. <<tag, f, u>> \in Slots
      BY <2>3, EndFacts
    <3>2. f \in Names(tag) \ {"tag"}
      BY <3>1, SlotNames
    <3> QED BY <3>2, <2>3, <1>3 DEF Plain
  <2> QED BY <2>1, <2>2, <2>3
<1>9. Tips(g, n) = {}
  BY <1>3, <1>8 DEF Tips
<1>10. Open(g, n)
  <2>1. \A l, t : <<tag, l, t>> \in Ends => l \in EndNames(tag)
    BY EndFacts
  <2> QED BY <2>1, <1>3, <1>8 DEF Open
<1>11. Ordered(g)
  <2> SUFFICES ASSUME NEW c \in DOMAIN g, g[c].next # 0
               PROVE  Lead(g[c]) < Lead(g[g[c].next])
    BY DEF Ordered
  <2>1. c \in DOMAIN h /\ g[c] = h[c]
    BY <1>3, <1>4, <1>8
  <2>2. h[c].next \in DOMAIN h
    BY <2>1, <1>1, <1>2, HeapFacts
  <2> QED BY <2>1, <2>2, <1>1, <1>3 DEF Ordered
<1>12. Older(g)
  <2> SUFFICES ASSUME NEW c \in DOMAIN g, NEW f \in {"left", "right"},
                      g[c].tag = "Expression", g[c][f] # 0
               PROVE  g[c][f] < c
    BY DEF Older
  <2>1. CASE c = n
    <3>1. <<"Expression", f, "Expression">> \in Slots
      BY DEF Slots
    <3>2. f \in Fields(tag) /\ f \in Names(tag) \ {"tag"}
      BY <3>1, <2>1, <1>3, SlotNames
    <3>3. g[n][f] \in 0 .. Len(h)
      BY <3>2, <1>2, <1>3 DEF Gives, Values
    <3> QED BY <2>1, <3>3, <1>2
  <2>2. CASE c # n
    BY <2>2, <1>1, <1>3, <1>4 DEF Older
  <2> QED BY <2>1, <2>2
<1>13. Marks(g, n) \subseteq (UNION {Marks(h, a) : a \in A}) \cup (DOMAIN g \ DOMAIN h)
  <2> SUFFICES ASSUME NEW m \in Marks(g, n), m # n
               PROVE  m \in UNION {Marks(h, a) : a \in A}
    BY <1>4
  <2>1. m = Lead(g[n]) /\ m # 0
    BY <1>9 DEF Marks
  <2>2. tag \in Chained /\ m = g[n][Leading[tag]]
    BY <2>1, <1>3 DEF Lead
  <2>3. Leading[tag] \in Fields(tag)
    BY <2>2, EndFacts
  <2>4. Leading[tag] \in DOMAIN upd /\ m = upd[Leading[tag]]
    BY <2>1, <2>2, <2>3, <1>3, <1>7
  <2>5. m \in A
    BY <2>1, <2>3, <2>4 DEF Gifts
  <2>6. m \in Marks(h, m)
    BY <2>1 DEF Marks
  <2> QED BY <2>5, <2>6
<1>14. \A e \in DOMAIN g \ DOMAIN h : g[e].tag # "String"
  BY <1>3, <1>4
<1>15. n \in {0} \cup A \cup (DOMAIN g \ DOMAIN h) /\ (K \ A) \cup ({n} \ {0}) = (K \ A) \cup {n}
  BY <1>4
<1>16. Tips(g, n) \subseteq (UNION {Tips(h, a) : a \in A}) \cup A \cup (DOMAIN g \ DOMAIN h)
  BY <1>9
<1>17. DOMAIN h \subseteq DOMAIN g
  BY <1>4
<1>18. \A e \in DOMAIN h : g[e].tag = h[e].tag /\ g[e] = h[e]
  BY <1>3
<1> HIDE DEF n, A
<1>19. Step(h, K, A, g, n)
  <2>1. Ownership(g, (K \ A) \cup ({n} \ {0}))
    BY <1>5, <1>15
  <2> QED BY <1>6, <1>10, <1>11, <1>12, <1>13, <1>14, <1>15, <1>16, <1>17, <1>18, <2>1, Assemble
<1> QED BY <1>9, <1>19 DEF n, A

\* What does not touch the front of a cell does not touch what its order is told from.
LEMMA PutsLead ==
    ASSUME NEW h, NEW K, Ownership(h, K), NEW c \in DOMAIN h, NEW upd, NEW g, Puts(h, g, c, upd),
           DOMAIN upd \subseteq Names(h[c].tag) \ {"tag"}
    PROVE  /\ g[c].tag = h[c].tag
           /\ \A f \in Names(h[c].tag) : g[c][f] = IF f \in DOMAIN upd THEN upd[f] ELSE h[c][f]
           /\ "next" \in Names(h[c].tag) /\ Tails \subseteq Names(h[c].tag)
           /\ Fields(h[c].tag) \subseteq Names(h[c].tag)
           /\ h[c].tag \in Chained => Leading[h[c].tag] \in Names(h[c].tag)
           /\ h[c].tag \in Chained /\ Leading[h[c].tag] \in DOMAIN upd =>
                 Lead(g[c]) = upd[Leading[h[c].tag]]
           /\ ~(h[c].tag \in Chained /\ Leading[h[c].tag] \in DOMAIN upd) => Lead(g[c]) = Lead(h[c])
<1>1. h[c].tag \in Tags /\ DOMAIN h[c] = Names(h[c].tag)
  BY HeapFacts
<1>2. /\ Fields(h[c].tag) \subseteq Names(h[c].tag) \ {"tag"}
      /\ "next" \in Names(h[c].tag) \ {"tag"} /\ Tails \subseteq Names(h[c].tag) \ {"tag"}
  BY <1>1, SlotNames
<1>3. "tag" \in Names(h[c].tag)
  BY DEF Names
<1>4. \A f \in Names(h[c].tag) : g[c][f] = IF f \in DOMAIN upd THEN upd[f] ELSE h[c][f]
  BY <1>1 DEF Puts
<1>5. g[c].tag = h[c].tag
  BY <1>3, <1>4
<1>6. h[c].tag \in Chained => Leading[h[c].tag] \in Fields(h[c].tag)
  BY EndFacts
<1> QED BY <1>2, <1>4, <1>5, <1>6 DEF Lead

\* Fields of a body that are no links.
LEMMA FieldStep ==
    ASSUME NEW h, NEW K, Sound(h, K), NEW b \in K, h[b].tag \notin ListTags \cup {"Expression"},
           NEW upd, Gives(h, K \ {b}, h[b].tag, upd), Fills(h, b, upd), Plain(h[b].tag, upd),
           NEW g, Puts(h, g, b, upd)
    PROVE  Step(h, K, Gifts(h[b].tag, upd) \cup {b}, g, b)
<1> DEFINE tag == h[b].tag
           A == Gifts(tag, upd) \cup {b}
<1>1. Ownership(h, K) /\ Ordered(h) /\ Older(h) /\ Open(h, b)
  BY DEF Sound
<1>2. Len(h) \in Nat /\ DOMAIN h = 1 .. Len(h) /\ h \in Seq(Cells) /\ K \subseteq DOMAIN h
      /\ b \in DOMAIN h /\ b # 0 /\ tag \in Tags
  BY <1>1, HeapFacts
<1>3. /\ DOMAIN upd \subseteq Names(tag) \ {"tag"}
      /\ Gifts(tag, upd) \subseteq K \ {b}
  BY DEF Gives, Values
<1>4. /\ Ownership(g, K \ Gifts(tag, upd)) /\ \A e \in DOMAIN h : g[e].tag = h[e].tag
  <2>1. Ownership(h, K) /\ b \in DOMAIN h
    BY <1>1, <1>2
  <2>2. /\ Ownership(g, K \ Gifts(h[b].tag, upd))
        /\ \A e \in DOMAIN h : g[e].tag = h[e].tag
    BY <2>1, PutsOwned
  <2> QED BY <2>2
<1>5. /\ DOMAIN g = DOMAIN h /\ \A e \in DOMAIN h : e # b => g[e] = h[e]
  <2>1. g \in Seq(Cells) /\ Len(g) = Len(h)
    BY DEF Puts
  <2>2. DOMAIN g = DOMAIN h
    BY <2>1, <1>2
  <2> QED BY <2>2 DEF Puts
<1> HIDE DEF tag
<1>6. /\ g[b].tag = tag
      /\ \A f \in Names(tag) : g[b][f] = IF f \in DOMAIN upd THEN upd[f] ELSE h[b][f]
      /\ "next" \in Names(tag) /\ Tails \subseteq Names(tag) /\ Fields(tag) \subseteq Names(tag)
      /\ tag \in Chained /\ Leading[tag] \in DOMAIN upd => Lead(g[b]) = upd[Leading[tag]]
      /\ ~(tag \in Chained /\ Leading[tag] \in DOMAIN upd) => Lead(g[b]) = Lead(h[b])
  <2>1. Ownership(h, K) /\ b \in DOMAIN h /\ Puts(h, g, b, upd)
        /\ DOMAIN upd \subseteq Names(h[b].tag) \ {"tag"}
    BY <1>1, <1>2, <1>3 DEF tag
  <2>2. /\ g[b].tag = h[b].tag
        /\ \A f \in Names(h[b].tag) : g[b][f] = IF f \in DOMAIN upd THEN upd[f] ELSE h[b][f]
        /\ "next" \in Names(h[b].tag) /\ Tails \subseteq Names(h[b].tag)
        /\ Fields(h[b].tag) \subseteq Names(h[b].tag)
        /\ h[b].tag \in Chained /\ Leading[h[b].tag] \in DOMAIN upd =>
              Lead(g[b]) = upd[Leading[h[b].tag]]
        /\ ~(h[b].tag \in Chained /\ Leading[h[b].tag] \in DOMAIN upd) => Lead(g[b]) = Lead(h[b])
    <3> HIDE DEF A
    <3> QED BY <2>1, PutsLead
  <2> QED BY <2>2 DEF tag
<1>7. g[b].next = h[b].next /\ \A l \in EndNames(tag) : g[b][l] = h[b][l]
  <2>1. EndNames(tag) \subseteq Tails
    BY DEF EndNames
  <2> QED BY <2>1, <1>6 DEF Plain, tag
<1>8. \A f, l, u : <<tag, f, l, u>> \in Begun => g[b][f] = h[b][f]
  <2> SUFFICES ASSUME NEW f, NEW l, NEW u, <<tag, f, l, u>> \in Begun PROVE g[b][f] = h[b][f]
    OBVIOUS
  <2>1. <<tag, f, u>> \in Slots
    BY EndFacts
  <2>2. f \in Names(tag)
    BY <2>1, <1>2, SlotNames
  <2> QED BY <2>2, <1>6 DEF Plain, tag
<1>9. h[b].next = 0
  <2>1. tag \in Chained => h[b].next = 0
    BY <1>1 DEF Open, tag
  <2>2. tag \notin Chained => h[b].next = 0
    BY <1>1, <1>2 DEF Ownership, Unchained, tag
  <2> QED BY <2>1, <2>2
<1>10. \A x \in Tips(h, b) : x # b
  <2> SUFFICES ASSUME NEW x \in Tips(h, b) PROVE x # b
    OBVIOUS
  <2>1. PICK l \in EndNames(tag) : x = h[b][l] /\ x # 0
    BY DEF Tips, tag
  <2>2. PICK t : <<tag, l, t>> \in Ends
    BY DEF EndNames
  <2>3. h[x].tag = t
    BY <2>1, <2>2, <1>1 DEF Open, tag
  <2>4. t # tag
    BY <2>2 DEF Ends, tag
  <2> QED BY <2>3, <2>4 DEF tag
<1>11. Tips(g, b) = Tips(h, b)
  BY <1>6, <1>7 DEF Tips, tag
<1>12. Open(g, b)
  <2>1. ASSUME NEW l, NEW t, <<tag, l, t>> \in Ends, h[b][l] # 0
        PROVE  /\ g[h[b][l]].tag = t /\ g[h[b][l]].next = 0
               /\ h[b][l] = b \/ Owned(g, h[b][l])
    <3>1. h[b][l] \in Tips(h, b)
      BY <2>1, EndFacts DEF Tips, tag
    <3>2. /\ h[b][l] \in DOMAIN h /\ h[h[b][l]].next = 0 /\ h[b][l] # b /\ h[b][l] \notin K
          /\ h[h[b][l]].tag \in Chained
      BY <3>1, <1>1, <1>10, TipFacts
    <3>3. h[h[b][l]].tag = t
      BY <2>1, <1>1 DEF Open, tag
    <3>4. Owned(g, h[b][l])
      <4>1. h[b][l] \in DOMAIN g \ (K \ Gifts(tag, upd))
        BY <3>2, <1>5
      <4>2. g[h[b][l]].tag # "PrimaryKey"
        BY <3>2, <1>4, EndFacts
      <4> QED BY <4>1, <4>2, <1>4 DEF Ownership, Rooted, tag
    <3> QED BY <3>2, <3>3, <3>4, <1>5
  <2>2. \A l, t : <<tag, l, t>> \in Ends => l \in EndNames(tag) /\ g[b][l] = h[b][l]
    BY <1>7, EndFacts
  <2>3. \A f, l, u : <<tag, f, l, u>> \in Begun /\ g[b][f] # 0 => g[b][l] # 0
    <3> SUFFICES ASSUME NEW f, NEW l, NEW u, <<tag, f, l, u>> \in Begun, g[b][f] # 0
                 PROVE  g[b][l] # 0
      OBVIOUS
    <3>1. h[b][f] # 0
      BY <1>8
    <3>2. h[b][l] # 0
      BY <3>1, <1>1 DEF Open, tag
    <3>3. <<tag, l, u>> \in Ends
      BY EndFacts
    <3> QED BY <3>2, <3>3, <2>2
  <2> QED BY <2>1, <2>2, <2>3, <1>6, <1>7, <1>9 DEF Open
<1>13. \A e \in DOMAIN h : g[e].next = h[e].next
  BY <1>5, <1>7
<1>14. \A c \in DOMAIN h : h[c].next # b
  <2> SUFFICES ASSUME NEW c \in DOMAIN h, h[c].next = b PROVE FALSE
    OBVIOUS
  <2>1. Owns(h, c, "next", b)
    BY <1>1, <1>2, HeapFacts
  <2> QED BY <2>1, <1>1, HeapFacts DEF Owned
<1>15. Ordered(g)
  <2> SUFFICES ASSUME NEW c \in DOMAIN g, g[c].next # 0
               PROVE  Lead(g[c]) < Lead(g[g[c].next])
    BY DEF Ordered
  <2>1. c \in DOMAIN h /\ c # b /\ g[c] = h[c]
    BY <1>5, <1>7, <1>9
  <2>2. h[c].next \in DOMAIN h /\ h[c].next # b
    BY <2>1, <1>1, <1>2, <1>14, HeapFacts
  <2> QED BY <2>1, <2>2, <1>1, <1>5 DEF Ordered
<1>16. Older(g)
  BY <1>1, <1>5, <1>6 DEF Older, tag
<1>17. Marks(g, b) \subseteq UNION {Marks(h, a) : a \in A}
  <2> SUFFICES ASSUME NEW m \in Marks(g, b) PROVE m \in UNION {Marks(h, a) : a \in A}
    OBVIOUS
  <2>1. CASE m \in Marks(h, b)
    BY <2>1
  <2>2. CASE tag \in Chained /\ Leading[tag] \in DOMAIN upd /\ m = upd[Leading[tag]] /\ m # 0
    <3>1. Leading[tag] \in Fields(tag)
      BY <2>2, EndFacts
    <3>2. m \in A
      BY <2>2, <3>1 DEF Gifts
    <3>3. m \in Marks(h, m)
      BY <2>2 DEF Marks
    <3> QED BY <3>2, <3>3
  <2>3. m # 0 /\ (m = b \/ m = Lead(g[b]) \/ \E x \in Tips(h, b) : m = Lead(g[x]))
    BY <1>11 DEF Marks
  <2>4. ASSUME NEW x \in Tips(h, b), m = Lead(g[x]) PROVE m \in Marks(h, b)
    <3>1. g[x] = h[x]
      BY <1>1, <1>5, <1>10, TipFacts
    <3> QED BY <3>1, <2>3, <2>4 DEF Marks
  <2>5. m = b \/ m = Lead(h[b]) => m \in Marks(h, b)
    BY <2>3 DEF Marks
  <2> QED BY <2>1, <2>2, <2>3, <2>4, <2>5, <1>6
<1>18. /\ A \subseteq K /\ (K \ A) \cup ({b} \ {0}) = K \ Gifts(tag, upd)
       /\ DOMAIN h \subseteq DOMAIN g /\ DOMAIN g \ DOMAIN h = {}
       /\ b \in {0} \cup A \cup (DOMAIN g \ DOMAIN h)
  BY <1>2, <1>3, <1>5
<1>19. /\ \A e \in DOMAIN g \ DOMAIN h : g[e].tag # "String"
       /\ \A e \in DOMAIN h : g[e] # h[e] => e \in A \/ \E a \in A : e \in Tips(h, a)
  BY <1>5
<1>20. /\ Tips(g, b) \subseteq (UNION {Tips(h, a) : a \in A}) \cup A \cup (DOMAIN g \ DOMAIN h)
       /\ Marks(g, b) \subseteq (UNION {Marks(h, a) : a \in A}) \cup (DOMAIN g \ DOMAIN h)
  BY <1>11, <1>17
<1> HIDE DEF A
<1>21. Step(h, K, A, g, b)
  <2>1. Ownership(g, (K \ A) \cup ({b} \ {0}))
    BY <1>4, <1>18
  <2> QED BY <1>4, <1>12, <1>15, <1>16, <1>18, <1>19, <1>20, <2>1, Assemble
<1> QED BY <1>21 DEF A, tag

\* A cell that may become the last one of a list of cells with this tag.
Links(h, K, b, u, q) ==
    q \in K \ {b} /\ h[q].tag = u /\ Whole(h[q]) /\ h[q].next = 0

\* The first cell of a list of a body.
LEMMA BeginStep ==
    ASSUME NEW h, NEW K, Sound(h, K), NEW b \in K, NEW f, NEW l, NEW u,
           <<h[b].tag, f, l, u>> \in Begun, h[b][f] = 0, NEW q, Links(h, K, b, u, q),
           NEW upd, DOMAIN upd = {f, l}, \A y \in {f, l} : upd[y] = q,
           NEW g, Puts(h, g, b, upd)
    PROVE  Step(h, K, {b, q}, g, b)
<1> DEFINE tag == h[b].tag
           A == {b, q}
<1>1. Ownership(h, K) /\ Ordered(h) /\ Older(h) /\ Open(h, b)
  BY DEF Sound
<1>2. /\ Len(h) \in Nat /\ DOMAIN h = 1 .. Len(h) /\ h \in Seq(Cells) /\ K \subseteq DOMAIN h
      /\ b \in DOMAIN h /\ b # 0 /\ tag \in Tags
      /\ q \in K /\ q # b /\ q \in DOMAIN h /\ q # 0
  BY <1>1, HeapFacts DEF Links
<1>3. /\ <<tag, l, u>> \in Ends /\ <<tag, f, u>> \in Slots /\ f # "next"
      /\ (tag \in Chained => f # Leading[tag]) /\ tag \notin ListTags /\ tag # u /\ f # "tag"
      /\ l \in Tails /\ u \in Chained /\ f \in Fields(tag) /\ f \notin Tails /\ l \notin Fields(tag)
      /\ l # "tag" /\ l # "next" /\ (tag \in Chained => l # Leading[tag])
  <2>1. /\ <<tag, l, u>> \in Ends /\ <<tag, f, u>> \in Slots /\ f # "next"
        /\ (tag \in Chained => f # Leading[tag]) /\ tag \notin ListTags /\ tag # u
    BY EndFacts
  <2>2. l \in Tails /\ u \in Chained
    BY <2>1, EndFacts
  <2>3. f # "tag" /\ f \notin Tails /\ "tag" \notin Tails /\ "next" \notin Tails
    BY <2>1, SlotFacts
  <2>4. f \in Fields(tag)
    BY <2>1, <1>2, SlotNames
  <2>5. l \notin Fields(tag)
    <3> SUFFICES ASSUME l \in Fields(tag) PROVE FALSE
      OBVIOUS
    <3>1. PICK v : <<tag, l, v>> \in Slots
      BY <1>2, FieldsAre
    <3> QED BY <3>1, <2>2, SlotFacts
  <2>6. tag \in Chained => l # Leading[tag]
    BY <2>2, EndFacts
  <2> HIDE DEF tag
  <2> QED BY <2>1, <2>2, <2>3, <2>4, <2>5, <2>6
<1>4. DOMAIN upd = {f, l} /\ upd[f] = q /\ upd[l] = q
  OBVIOUS
<1>5. Gifts(tag, upd) = {q}
  BY <1>2, <1>3, <1>4 DEF Gifts
<1>6. Values(h, tag, upd)
  <2>1. f \in Names(tag) \ {"tag"} /\ l \in Names(tag) \ {"tag"}
    BY <1>2, <1>3, SlotNames
  <2> QED BY <1>2, <1>4, <2>1 DEF Values
<1>7. Gives(h, K \ {b}, tag, upd)
  <2>1. ASSUME NEW x, NEW v, <<tag, x, v>> \in Slots, x \in DOMAIN upd, upd[x] # 0
        PROVE  h[upd[x]].tag = v /\ Whole(h[upd[x]])
    <3>1. x = f
      <4>1. x \in Fields(tag)
        BY <2>1, <1>2, SlotNames
      <4> QED BY <4>1, <2>1, <1>3, <1>4
    <3>2. v = u
      BY <3>1, <2>1, <1>3, SlotFacts
    <3> QED BY <3>1, <3>2, <1>4 DEF Links
  <2>2. \A x, y \in DOMAIN upd \cap Fields(tag) : upd[x] = upd[y] /\ upd[x] # 0 => x = y
    BY <1>3, <1>4
  <2>3. "next" \notin DOMAIN upd
    BY <1>3, <1>4
  <2> QED BY <1>2, <1>5, <1>6, <2>1, <2>2, <2>3 DEF Gives
<1>8. Fills(h, b, upd)
  BY <1>2, <1>3, <1>4 DEF Fills
<1>9. /\ Ownership(g, K \ {q}) /\ \A e \in DOMAIN h : g[e].tag = h[e].tag
  <2>1. Ownership(h, K) /\ b \in DOMAIN h /\ Puts(h, g, b, upd)
    BY <1>1, <1>2
  <2>2. /\ Ownership(g, K \ Gifts(h[b].tag, upd))
        /\ \A e \in DOMAIN h : g[e].tag = h[e].tag
    BY <2>1, <1>7, <1>8, PutsOwned
  <2> QED BY <2>2, <1>5
<1>10. /\ DOMAIN g = DOMAIN h /\ \A e \in DOMAIN h : e # b => g[e] = h[e]
  <2>1. g \in Seq(Cells) /\ Len(g) = Len(h)
    BY DEF Puts
  <2>2. DOMAIN g = DOMAIN h
    BY <2>1, <1>2
  <2> QED BY <2>2 DEF Puts
<1>11. /\ g[b].tag = tag
       /\ \A x \in Names(tag) : g[b][x] = IF x \in {f, l} THEN q ELSE h[b][x]
       /\ "next" \in Names(tag) /\ Tails \subseteq Names(tag) /\ Fields(tag) \subseteq Names(tag)
       /\ Lead(g[b]) = Lead(h[b])
  <2>1. Puts(h, g, b, upd) /\ DOMAIN upd \subseteq Names(h[b].tag) \ {"tag"}
    BY <1>6 DEF Values
  <2>2. /\ g[b].tag = h[b].tag
        /\ \A x \in Names(h[b].tag) : g[b][x] = IF x \in DOMAIN upd THEN upd[x] ELSE h[b][x]
        /\ "next" \in Names(h[b].tag) /\ Tails \subseteq Names(h[b].tag)
        /\ Fields(h[b].tag) \subseteq Names(h[b].tag)
        /\ ~(h[b].tag \in Chained /\ Leading[h[b].tag] \in DOMAIN upd) => Lead(g[b]) = Lead(h[b])
    <3>1. Ownership(h, K) /\ b \in DOMAIN h
      BY <1>1, <1>2
    <3> HIDE DEF tag, A
    <3> QED BY <2>1, <3>1, PutsLead
  <2>3. ~(tag \in Chained /\ Leading[tag] \in DOMAIN upd)
    BY <1>3, <1>4
  <2> QED BY <2>2, <2>3, <1>4
<1>12. /\ g[b].next = h[b].next /\ h[b].next = 0
       /\ \A m \in EndNames(tag) : m # l => g[b][m] = h[b][m]
       /\ g[b][l] = q
  <2>1. EndNames(tag) \subseteq Tails
    BY DEF EndNames
  <2>2. h[b].next = 0
    <3>1. tag \in Chained => h[b].next = 0
      BY <1>1, <1>3 DEF Open
    <3>2. tag \notin Chained => h[b].next = 0
      BY <1>1, <1>2 DEF Ownership, Unchained
    <3> QED BY <3>1, <3>2
  <2> HIDE DEF tag
  <2>3. g[b].next = h[b].next
    BY <1>3, <1>11
  <2>4. ASSUME NEW m \in EndNames(tag), m # l PROVE g[b][m] = h[b][m]
    BY <2>1, <2>4, <1>3, <1>11
  <2>5. g[b][l] = q
    BY <1>3, <1>11
  <2> QED BY <2>2, <2>3, <2>4, <2>5
<1>13. Tips(g, b) \subseteq Tips(h, b) \cup {q}
  BY <1>11, <1>12 DEF Tips
<1>14. \A x \in Tips(h, b) : x # b /\ g[x] = h[x]
  <2> SUFFICES ASSUME NEW x \in Tips(h, b) PROVE x # b /\ g[x] = h[x]
    OBVIOUS
  <2>1. PICK m \in EndNames(tag) : x = h[b][m] /\ x # 0
    BY DEF Tips
  <2>2. PICK t : <<tag, m, t>> \in Ends
    BY DEF EndNames
  <2>3. h[x].tag = t
    BY <2>1, <2>2, <1>1 DEF Open
  <2>4. t # tag
    BY <2>2, <1>3 DEF Ends
  <2>5. x \in DOMAIN h
    BY <1>1, TipFacts
  <2> QED BY <2>3, <2>4, <2>5, <1>10
<1>15. g[q] = h[q] /\ Owned(g, q)
  <2>1. Owns(g, b, f, q)
    BY <1>2, <1>3, <1>10, <1>11 DEF Owns
  <2> QED BY <2>1, <1>2, <1>10 DEF Owned
<1>16. Open(g, b)
  <2>1. ASSUME NEW m, NEW t, <<tag, m, t>> \in Ends, g[b][m] # 0
        PROVE  /\ g[g[b][m]].tag = t /\ g[g[b][m]].next = 0
               /\ g[b][m] = b \/ Owned(g, g[b][m])
    <3>1. CASE m = l
      <4>1. t = u
        BY <3>1, <2>1, <1>3, EndFacts
      <4> QED BY <3>1, <4>1, <1>12, <1>15 DEF Links
    <3>2. CASE m # l
      <4>1. m \in EndNames(tag)
        BY <2>1, EndFacts
      <4>2. g[b][m] = h[b][m] /\ h[b][m] \in Tips(h, b)
        BY <4>1, <3>2, <2>1, <1>12 DEF Tips
      <4>3. /\ h[b][m] \in DOMAIN h /\ h[h[b][m]].next = 0 /\ h[b][m] \notin K
            /\ h[h[b][m]].tag \in Chained
        BY <4>2, <1>1, <1>14, TipFacts
      <4>4. h[h[b][m]].tag = t
        BY <4>2, <2>1, <1>1 DEF Open
      <4>5. Owned(g, h[b][m])
        <5>1. h[b][m] \in DOMAIN g \ (K \ {q})
          BY <4>3, <1>10
        <5>2. g[h[b][m]].tag # "PrimaryKey"
          BY <4>3, <1>9, EndFacts
        <5> QED BY <5>1, <5>2, <1>9 DEF Ownership, Rooted
      <4> QED BY <4>2, <4>3, <4>4, <4>5, <1>14
    <3> QED BY <3>1, <3>2
  <2>2. ASSUME NEW x, NEW m, NEW v, <<tag, x, m, v>> \in Begun, g[b][x] # 0 PROVE g[b][m] # 0
    <3>1. CASE m = l
      BY <3>1, <1>2, <1>12
    <3>2. CASE m # l
      <4>1. <<tag, x, v>> \in Slots /\ <<tag, m, v>> \in Ends
        BY <2>2, EndFacts
      <4>2. m \in EndNames(tag) /\ x \in Names(tag)
        BY <4>1, <1>2, EndFacts, SlotNames
      <4>3. x \notin Tails
        BY <4>1, SlotFacts
      <4>4. x # f
        BY <3>2, <2>2, EndFacts
      <4>5. h[b][x] # 0
        BY <4>2, <4>3, <4>4, <2>2, <1>3, <1>11
      <4>6. h[b][m] # 0
        BY <4>5, <2>2, <1>1 DEF Open
      <4> QED BY <4>2, <4>6, <3>2, <1>12
    <3> QED BY <3>1, <3>2
  <2> QED BY <2>1, <2>2, <1>11, <1>12 DEF Open
<1>17. \A e \in DOMAIN h : Lead(g[e]) = Lead(h[e]) /\ g[e].next = h[e].next
  BY <1>10, <1>11, <1>12
<1>18. Ordered(g)
  <2> SUFFICES ASSUME NEW c \in DOMAIN g, g[c].next # 0
               PROVE  Lead(g[c]) < Lead(g[g[c].next])
    BY DEF Ordered
  <2>1. c \in DOMAIN h /\ g[c].next = h[c].next /\ h[c].next \in DOMAIN h
    BY <1>1, <1>2, <1>10, <1>17, HeapFacts
  <2> QED BY <2>1, <1>1, <1>17 DEF Ordered
<1>19. Older(g)
  <2>1. tag # "Expression"
    BY DEF Begun
  <2> QED BY <2>1, <1>1, <1>10, <1>11 DEF Older
<1>20. Marks(g, b) \subseteq UNION {Marks(h, a) : a \in A}
  <2> SUFFICES ASSUME NEW m \in Marks(g, b) PROVE m \in Marks(h, b) \/ m \in Marks(h, q)
    OBVIOUS
  <2>1. m # 0 /\ (m = b \/ m = Lead(g[b]) \/ \E x \in Tips(h, b) \cup {q} : m = Lead(g[x]))
    BY <1>13 DEF Marks
  <2>2. ASSUME NEW x \in Tips(h, b), m = Lead(g[x]) PROVE m \in Marks(h, b)
    BY <2>1, <2>2, <1>14 DEF Marks
  <2>3. m = Lead(g[q]) => m \in Marks(h, q)
    BY <2>1, <1>15 DEF Marks
  <2>4. m = b \/ m = Lead(h[b]) => m \in Marks(h, b)
    BY <2>1 DEF Marks
  <2> QED BY <2>1, <2>2, <2>3, <2>4, <1>11
<1>21. /\ A \subseteq K /\ (K \ A) \cup ({b} \ {0}) = K \ {q}
       /\ DOMAIN h \subseteq DOMAIN g /\ DOMAIN g \ DOMAIN h = {}
       /\ b \in {0} \cup A \cup (DOMAIN g \ DOMAIN h)
  BY <1>2, <1>10
<1>22. /\ \A e \in DOMAIN g \ DOMAIN h : g[e].tag # "String"
       /\ \A e \in DOMAIN h : g[e] # h[e] => e \in A \/ \E a \in A : e \in Tips(h, a)
  BY <1>10
<1>23. /\ Tips(g, b) \subseteq (UNION {Tips(h, a) : a \in A}) \cup A \cup (DOMAIN g \ DOMAIN h)
       /\ Marks(g, b) \subseteq (UNION {Marks(h, a) : a \in A}) \cup (DOMAIN g \ DOMAIN h)
  BY <1>13, <1>20
<1> HIDE DEF A
<1>24. Step(h, K, A, g, b)
  <2>1. Ownership(g, (K \ A) \cup ({b} \ {0}))
    BY <1>9, <1>21
  <2> QED BY <1>9, <1>16, <1>18, <1>19, <1>21, <1>22, <1>23, <2>1, Assemble
<1> QED BY <1>24 DEF A

\* x is the last cell of a list of b, and q may go behind it.
Follows(h, K, b, l, u, q, x) ==
    /\ b \in K /\ <<h[b].tag, l, u>> \in Ends /\ x = h[b][l] /\ x # 0
    /\ Links(h, K, b, u, q)

Chains(h, K, k, x, q) ==
    /\ Ownership(k, K \ {q}) /\ DOMAIN k = DOMAIN h
    /\ \A e \in DOMAIN h : e # x => k[e] = h[e]
    /\ \A e \in DOMAIN h : k[e].tag = h[e].tag /\ Lead(k[e]) = Lead(h[e])
    /\ \A e \in DOMAIN h : \A m \in Tails : k[e][m] = h[e][m]
    /\ \A e \in DOMAIN h : \A f \in Fields(h[e].tag) : f # "next" => k[e][f] = h[e][f]
    /\ k[x].next = q

\* A cell of a list takes another one as its next, at the end of the list of b.
LEMMA ChainLink ==
    ASSUME NEW h, NEW K, Sound(h, K), NEW b, NEW l, NEW u, NEW q, NEW x, Follows(h, K, b, l, u, q, x),
           NEW upd, DOMAIN upd = {"next"}, upd["next"] = q,
           NEW k, Puts(h, k, x, upd)
    PROVE  Chains(h, K, k, x, q)
<1>0. /\ b \in K /\ <<h[b].tag, l, u>> \in Ends /\ x = h[b][l] /\ h[b][l] # 0
      /\ Links(h, K, b, u, q)
  BY DEF Follows
<1> USE <1>0
<1>1. Ownership(h, K) /\ Open(h, b)
  BY DEF Sound
<1>2. /\ Len(h) \in Nat /\ DOMAIN h = 1 .. Len(h) /\ h \in Seq(Cells) /\ K \subseteq DOMAIN h
      /\ b \in DOMAIN h /\ q \in K /\ q # b /\ q \in DOMAIN h /\ q # 0 /\ h[b].tag \in Tags
  BY <1>1, HeapFacts DEF Links
<1>3. u \in Chained /\ l \in EndNames(h[b].tag)
  BY EndFacts
<1>4. x \in Tips(h, b)
  BY <1>3 DEF Tips
<1>5. /\ x \in DOMAIN h /\ h[x].next = 0 /\ (x = b \/ x \notin K)
  BY <1>1, <1>4, TipFacts
<1>6. h[x].tag = u
  BY <1>1 DEF Open
<1>7. x # q /\ u \in Tags /\ <<u, "next", u>> \in Slots /\ "next" \in Fields(u) /\ "next" \notin Tails
  <2>1. u \in Tags
    BY <1>1, <1>5, <1>6, HeapFacts
  <2>2. <<u, "next", u>> \in Slots /\ "next" \notin Tails
    BY <1>3, SlotFacts
  <2>3. "next" \in Fields(u)
    BY <2>1, <2>2, SlotNames
  <2> QED BY <1>2, <1>5, <2>1, <2>2, <2>3
<1>8. Gifts(u, upd) = {q}
  BY <1>2, <1>7 DEF Gifts
<1>9. Values(h, u, upd)
  BY <1>2, <1>7, SlotNames DEF Values
<1>10. Gives(h, K \ {x}, u, upd)
  <2>1. \A f, v : <<u, f, v>> \in Slots /\ f \in DOMAIN upd /\ upd[f] # 0 =>
            h[upd[f]].tag = v /\ Whole(h[upd[f]])
    BY <1>7, SlotFacts DEF Links
  <2> QED BY <1>2, <1>3, <1>7, <1>8, <1>9, <2>1 DEF Gives
<1>11. Fills(h, x, upd)
  BY <1>5 DEF Fills
<1>12. /\ Ownership(k, K \ {q}) /\ \A e \in DOMAIN h : k[e].tag = h[e].tag
  <2>1. Ownership(h, K) /\ x \in DOMAIN h /\ Puts(h, k, x, upd)
    BY <1>1, <1>5
  <2>2. u = h[x].tag /\ K \ {q} = K \ Gifts(u, upd)
    BY <1>6, <1>8
  <2>3. Kept(h, k, K \ {q})
    BY <2>1, <2>2, <1>10, <1>11, PutsOwnedAt
  <2> QED BY <2>3 DEF Kept
<1>13. /\ DOMAIN k = DOMAIN h /\ \A e \in DOMAIN h : e # x => k[e] = h[e]
  <2>1. k \in Seq(Cells) /\ Len(k) = Len(h)
    BY DEF Puts
  <2>2. DOMAIN k = DOMAIN h
    BY <2>1, <1>2
  <2> QED BY <2>2 DEF Puts
<1>14. /\ \A f \in Names(u) : k[x][f] = IF f = "next" THEN q ELSE h[x][f]
       /\ "next" \in Names(u) /\ Tails \subseteq Names(u) /\ Fields(u) \subseteq Names(u)
       /\ Lead(k[x]) = Lead(h[x])
  <2>1. Puts(h, k, x, upd) /\ DOMAIN upd \subseteq Names(h[x].tag) \ {"tag"}
    BY <1>6, <1>9 DEF Values
  <2>2. /\ \A f \in Names(h[x].tag) : k[x][f] = IF f \in DOMAIN upd THEN upd[f] ELSE h[x][f]
        /\ "next" \in Names(h[x].tag) /\ Tails \subseteq Names(h[x].tag)
        /\ Fields(h[x].tag) \subseteq Names(h[x].tag)
        /\ ~(h[x].tag \in Chained /\ Leading[h[x].tag] \in DOMAIN upd) => Lead(k[x]) = Lead(h[x])
    <3>1. Ownership(h, K)
      BY <1>1
    <3> QED BY <2>1, <3>1, <1>5, PutsLead
  <2>3. Leading[u] # "next"
    BY <1>3, SlotFacts
  <2> QED BY <2>2, <2>3, <1>6
<1>15. \A m \in Tails : k[x][m] = h[x][m]
  BY <1>7, <1>14
<1>16. \A f \in Fields(u) : f # "next" => k[x][f] = h[x][f]
  BY <1>14
<1>17. k[x].next = q
  BY <1>14
<1> QED BY <1>6, <1>12, <1>13, <1>14, <1>15, <1>16, <1>17 DEF Chains

\* A cell goes to the end of a list.
LEMMA ChainStep ==
    ASSUME NEW h, NEW K, Sound(h, K), NEW b, NEW l, NEW u, NEW q, NEW x, Follows(h, K, b, l, u, q, x),
           Lead(h[x]) < Lead(h[q]),
           NEW upd, DOMAIN upd = {"next"}, upd["next"] = q,
           NEW k, Puts(h, k, x, upd),
           NEW upd2, DOMAIN upd2 = {l}, upd2[l] = q,
           NEW g, Puts(k, g, b, upd2)
    PROVE  Step(h, K, {b, q}, g, b)
<1>7. /\ Ownership(k, K \ {q}) /\ DOMAIN k = DOMAIN h
      /\ \A e \in DOMAIN h : e # x => k[e] = h[e]
      /\ \A e \in DOMAIN h : k[e].tag = h[e].tag /\ Lead(k[e]) = Lead(h[e])
      /\ \A e \in DOMAIN h : \A m \in Tails : k[e][m] = h[e][m]
      /\ \A e \in DOMAIN h : \A f \in Fields(h[e].tag) : f # "next" => k[e][f] = h[e][f]
      /\ k[x].next = q
  <2>1. Chains(h, K, k, x, q)
    BY ChainLink
  <2> QED BY <2>1 DEF Chains
<1> DEFINE tag == h[b].tag
           A == {b, q}
<1>0. /\ b \in K /\ <<h[b].tag, l, u>> \in Ends /\ x = h[b][l] /\ h[b][l] # 0
      /\ Links(h, K, b, u, q)
  BY DEF Follows
<1> USE <1>0
<1>1. Ownership(h, K) /\ Ordered(h) /\ Older(h) /\ Open(h, b)
  BY DEF Sound
<1>2. /\ Len(h) \in Nat /\ DOMAIN h = 1 .. Len(h) /\ h \in Seq(Cells) /\ K \subseteq DOMAIN h
      /\ b \in DOMAIN h /\ b # 0 /\ tag \in Tags
      /\ q \in K /\ q # b /\ q \in DOMAIN h /\ q # 0
  BY <1>1, HeapFacts DEF Links
<1>3. /\ u \in Chained /\ l \in EndNames(tag) /\ l \in Tails /\ l # "tag" /\ l # "next"
      /\ l \notin Fields(tag)
  <2>1. u \in Chained /\ l \in EndNames(tag) /\ l \in Tails
    BY EndFacts
  <2>2. l # "tag" /\ l # "next"
    BY <2>1, SlotFacts
  <2>3. l \notin Fields(tag)
    <3> SUFFICES ASSUME l \in Fields(tag) PROVE FALSE
      OBVIOUS
    <3>1. PICK v : <<tag, l, v>> \in Slots
      BY <1>2, FieldsAre
    <3> QED BY <3>1, <2>1, SlotFacts
  <2> QED BY <2>1, <2>2, <2>3
<1>4. x \in Tips(h, b)
  BY <1>3 DEF Tips
<1>5. /\ x \in DOMAIN h /\ h[x].next = 0 /\ (x = b \/ x \notin K)
  BY <1>1, <1>4, TipFacts
<1>6. h[x].tag = u /\ x # q
  BY <1>1, <1>2, <1>5 DEF Open
<1> HIDE DEF tag, A
<1>8. Gifts(tag, upd2) = {}
  BY <1>3 DEF Gifts
<1>9. Values(k, tag, upd2)
  <2>1. k \in Seq(Cells)
    BY <1>7, HeapFacts
  <2>2. q \in 0 .. Len(k)
    BY <2>1, <1>2, <1>7
  <2>3. l \in Names(tag) \ {"tag"}
    BY <1>2, <1>3, SlotNames
  <2> QED BY <2>2, <2>3 DEF Values
<1>10. Gives(k, (K \ {q}) \ {b}, tag, upd2)
  <2>1. \A f, v : <<tag, f, v>> \in Slots => f # l
    BY <1>2, <1>3, SlotNames
  <2> QED BY <1>3, <1>8, <1>9, <2>1 DEF Gives
<1>11. k[b].tag = tag /\ b \in DOMAIN k
  BY <1>2, <1>7 DEF tag
<1>12. Fills(k, b, upd2)
  BY <1>3, <1>11 DEF Fills
<1>13. /\ Ownership(g, K \ {q}) /\ \A e \in DOMAIN h : g[e].tag = h[e].tag
  <2>1. Ownership(k, K \ {q}) /\ Gives(k, (K \ {q}) \ {b}, k[b].tag, upd2)
    BY <1>7, <1>10, <1>11
  <2>2. K \ {q} = (K \ {q}) \ Gifts(k[b].tag, upd2)
    BY <1>8, <1>11
  <2>3. Kept(k, g, K \ {q})
    BY <2>1, <2>2, <1>11, <1>12, PutsOwnedAt
  <2> QED BY <2>3, <1>7 DEF Kept
<1>14. /\ DOMAIN g = DOMAIN h /\ \A e \in DOMAIN h : e # b => g[e] = k[e]
  <2>1. g \in Seq(Cells) /\ Len(g) = Len(k)
    BY DEF Puts
  <2>2. k \in Seq(Cells)
    BY <1>7, HeapFacts
  <2>3. DOMAIN g = DOMAIN k
    BY <2>1, <2>2
  <2> QED BY <2>3, <1>7 DEF Puts
<1>15. /\ \A f \in Names(tag) : g[b][f] = IF f = l THEN q ELSE k[b][f]
       /\ "next" \in Names(tag) /\ Tails \subseteq Names(tag) /\ Fields(tag) \subseteq Names(tag)
       /\ Lead(g[b]) = Lead(k[b])
  <2>1. Ownership(k, K \ {q}) /\ DOMAIN upd2 \subseteq Names(k[b].tag) \ {"tag"}
    BY <1>7, <1>9, <1>11 DEF Values
  <2>2. /\ \A f \in Names(k[b].tag) : g[b][f] = IF f \in DOMAIN upd2 THEN upd2[f] ELSE k[b][f]
        /\ "next" \in Names(k[b].tag) /\ Tails \subseteq Names(k[b].tag)
        /\ Fields(k[b].tag) \subseteq Names(k[b].tag)
        /\ ~(k[b].tag \in Chained /\ Leading[k[b].tag] \in DOMAIN upd2) => Lead(g[b]) = Lead(k[b])
    BY <2>1, <1>11, PutsLead
  <2>3. tag \in Chained => l # Leading[tag]
    BY <1>3, EndFacts
  <2> QED BY <2>2, <2>3, <1>11
<1>16. /\ \A e \in DOMAIN h : Lead(g[e]) = Lead(h[e])
       /\ \A e \in DOMAIN h : e # x => g[e].next = h[e].next
       /\ g[x].next = q
       /\ \A m \in EndNames(tag) : m # l => g[b][m] = h[b][m]
       /\ g[b][l] = q
       /\ \A e \in DOMAIN h : e # x /\ e # b => g[e] = h[e]
       /\ \A f \in Fields(tag) : f # "next" => g[b][f] = h[b][f]
  <2>1. \A e \in DOMAIN h : Lead(g[e]) = Lead(h[e])
    BY <1>2, <1>7, <1>14, <1>15
  <2>2. g[b].next = k[b].next
    BY <1>3, <1>15
  <2>3. \A e \in DOMAIN h : g[e].next = k[e].next
    BY <2>2, <1>14
  <2>4. ASSUME NEW m \in EndNames(tag), m # l PROVE g[b][m] = h[b][m]
    <3>1. m \in Tails
      BY DEF EndNames
    <3> QED BY <3>1, <2>4, <1>2, <1>7, <1>15
  <2>5. g[b][l] = q
    BY <1>3, <1>15
  <2>6. \A f \in Fields(tag) : f # "next" => g[b][f] = h[b][f]
    <3>1. \A f \in Fields(tag) : f # l
      BY <1>3
    <3> QED BY <3>1, <1>2, <1>7, <1>15 DEF tag
  <2> QED BY <2>1, <2>3, <2>4, <2>5, <2>6, <1>5, <1>7, <1>14
<1>17. Tips(g, b) \subseteq Tips(h, b) \cup {q}
  <2>1. g[b].tag = tag
    BY <1>2, <1>13 DEF tag
  <2> QED BY <2>1, <1>16 DEF Tips, tag
<1>18. Owned(g, q) /\ g[q].next = 0
  <2>1. "next" \in Fields(g[x].tag)
    <3>1. <<u, "next", u>> \in Slots
      BY <1>3, SlotFacts
    <3>2. u \in Tags /\ g[x].tag = u
      BY <1>1, <1>5, <1>6, <1>13, HeapFacts
    <3> QED BY <3>1, <3>2, SlotNames
  <2>2. Owns(g, x, "next", q)
    BY <2>1, <1>2, <1>5, <1>14, <1>16 DEF Owns
  <2> QED BY <2>2, <1>2, <1>6, <1>16 DEF Owned, Links
<1>19. Open(g, b)
  <2>1. ASSUME NEW m, NEW t, <<tag, m, t>> \in Ends, g[b][m] # 0
        PROVE  /\ g[g[b][m]].tag = t /\ g[g[b][m]].next = 0
               /\ g[b][m] = b \/ Owned(g, g[b][m])
    <3>1. CASE m = l
      <4>1. t = u
        BY <3>1, <2>1, EndFacts DEF tag
      <4>2. g[q].tag = u
        BY <1>2, <1>13 DEF Links
      <4> QED BY <3>1, <4>1, <4>2, <1>16, <1>18
    <3>2. CASE m # l
      <4>1. m \in EndNames(tag)
        BY <2>1, EndFacts
      <4>2. g[b][m] = h[b][m] /\ h[b][m] \in Tips(h, b)
        BY <4>1, <3>2, <2>1, <1>16 DEF Tips, tag
      <4>3. /\ h[b][m] \in DOMAIN h /\ h[h[b][m]].next = 0
            /\ h[b][m] = b \/ h[b][m] \notin K
            /\ h[h[b][m]].tag \in Chained
        BY <4>2, <1>1, TipFacts
      <4>4. h[h[b][m]].tag = t
        BY <4>2, <2>1, <1>1 DEF Open, tag
      <4>5. h[b][m] # x
        <5>1. t # u
          BY <2>1, <3>2, EndFacts DEF tag
        <5> QED BY <5>1, <4>4, <1>6
      <4>6. h[b][m] # b => Owned(g, h[b][m])
        <5> SUFFICES ASSUME h[b][m] # b PROVE Owned(g, h[b][m])
          OBVIOUS
        <5>1. h[b][m] \in DOMAIN g \ (K \ {q})
          BY <4>3, <1>14
        <5>2. g[h[b][m]].tag # "PrimaryKey"
          BY <4>3, <1>13, EndFacts
        <5> QED BY <5>1, <5>2, <1>13 DEF Ownership, Rooted
      <4> QED BY <4>2, <4>3, <4>4, <4>5, <4>6, <1>13, <1>16
    <3> QED BY <3>1, <3>2
  <2>2. ASSUME NEW f, NEW m, NEW v, <<tag, f, m, v>> \in Begun, g[b][f] # 0 PROVE g[b][m] # 0
    <3>1. CASE m = l
      BY <3>1, <1>2, <1>16
    <3>2. CASE m # l
      <4>1. <<tag, f, v>> \in Slots /\ <<tag, m, v>> \in Ends /\ f # "next"
        BY <2>2, EndFacts
      <4>2. m \in EndNames(tag) /\ f \in Fields(tag)
        BY <4>1, <1>2, EndFacts, SlotNames
      <4>3. h[b][f] # 0
        BY <4>1, <4>2, <2>2, <1>16
      <4>4. h[b][m] # 0
        BY <4>3, <2>2, <1>1 DEF Open, tag
      <4> QED BY <4>2, <4>4, <3>2, <1>16
    <3> QED BY <3>1, <3>2
  <2>3. g[b].tag \in Chained \ ListTags => g[b].next = 0
    <3> SUFFICES ASSUME tag \in Chained \ ListTags PROVE g[b].next = 0
      BY <1>2, <1>13 DEF tag
    <3>1. h[b].next = 0
      BY <1>1 DEF Open, tag
    <3>2. x # b
      <4>1. u # tag
        BY DEF Ends, ListTags, tag
      <4> QED BY <4>1, <1>6 DEF tag
    <3> QED BY <3>1, <3>2, <1>2, <1>16
  <2>4. g[b].tag = tag
    BY <1>2, <1>13 DEF tag
  <2> QED BY <2>1, <2>2, <2>3, <2>4 DEF Open
<1>20. Ordered(g)
  <2> SUFFICES ASSUME NEW c \in DOMAIN g, g[c].next # 0
               PROVE  Lead(g[c]) < Lead(g[g[c].next])
    BY DEF Ordered
  <2>1. CASE c = x
    BY <2>1, <1>2, <1>5, <1>16
  <2>2. CASE c # x
    <3>1. c \in DOMAIN h /\ g[c].next = h[c].next /\ h[c].next \in DOMAIN h
      BY <2>2, <1>1, <1>2, <1>14, <1>16, HeapFacts
    <3> QED BY <3>1, <1>1, <1>16 DEF Ordered
  <2> QED BY <2>1, <2>2
<1>21. Older(g)
  <2>1. u # "Expression" /\ tag # "Expression"
    <3>1. \A t, m, v : <<t, m, v>> \in Ends => t # "Expression" /\ v # "Expression"
      BY DEF Ends, ListTags
    <3> QED BY <3>1 DEF tag
  <2>2. ASSUME NEW c \in DOMAIN g, g[c].tag = "Expression" PROVE c \in DOMAIN h /\ g[c] = h[c]
    <3>1. c \in DOMAIN h /\ h[c].tag = "Expression"
      BY <2>2, <1>13, <1>14
    <3>2. c # x /\ c # b
      BY <3>1, <2>1, <1>6 DEF tag
    <3> QED BY <3>1, <3>2, <1>16
  <2> QED BY <2>2, <1>1 DEF Older
<1>22. Marks(g, b) \subseteq UNION {Marks(h, a) : a \in A}
  <2> SUFFICES ASSUME NEW m \in Marks(g, b) PROVE m \in Marks(h, b) \/ m \in Marks(h, q)
    BY DEF A
  <2>1. m # 0 /\ (m = b \/ m = Lead(g[b]) \/ \E y \in Tips(h, b) \cup {q} : m = Lead(g[y]))
    BY <1>17 DEF Marks
  <2>2. ASSUME NEW y \in Tips(h, b), m = Lead(g[y]) PROVE m \in Marks(h, b)
    <3>1. y \in DOMAIN h
      BY <1>1, TipFacts
    <3> QED BY <3>1, <2>1, <2>2, <1>16 DEF Marks
  <2>3. m = Lead(g[q]) => m \in Marks(h, q)
    BY <2>1, <1>2, <1>16 DEF Marks
  <2>4. m = b \/ m = Lead(h[b]) => m \in Marks(h, b)
    BY <2>1 DEF Marks
  <2> QED BY <2>1, <2>2, <2>3, <2>4, <1>2, <1>16
<1>23. /\ A \subseteq K /\ (K \ A) \cup ({b} \ {0}) = K \ {q}
       /\ DOMAIN h \subseteq DOMAIN g /\ DOMAIN g \ DOMAIN h = {}
       /\ b \in {0} \cup A \cup (DOMAIN g \ DOMAIN h) /\ b \in A /\ q \in A
  BY <1>2, <1>14 DEF A
<1>24. /\ \A e \in DOMAIN g \ DOMAIN h : g[e].tag # "String"
       /\ \A e \in DOMAIN h : g[e] # h[e] => e \in A \/ \E a \in A : e \in Tips(h, a)
  BY <1>4, <1>14, <1>16, <1>23
<1>25. /\ Tips(g, b) \subseteq (UNION {Tips(h, a) : a \in A}) \cup A \cup (DOMAIN g \ DOMAIN h)
       /\ Marks(g, b) \subseteq (UNION {Marks(h, a) : a \in A}) \cup (DOMAIN g \ DOMAIN h)
  BY <1>17, <1>22, <1>23
<1>26. Step(h, K, A, g, b)
  <2>1. Ownership(g, (K \ A) \cup ({b} \ {0}))
    BY <1>13, <1>23
  <2> QED BY <1>13, <1>19, <1>20, <1>21, <1>23, <1>24, <1>25, <2>1, Assemble
<1> QED BY <1>26 DEF A

\* PutsLead under one name.
Sets(h, g, c, upd) ==
    /\ g[c].tag = h[c].tag
    /\ \A f \in Names(h[c].tag) : g[c][f] = IF f \in DOMAIN upd THEN upd[f] ELSE h[c][f]
    /\ "next" \in Names(h[c].tag) /\ Tails \subseteq Names(h[c].tag)
    /\ Fields(h[c].tag) \subseteq Names(h[c].tag)
    /\ h[c].tag \in Chained => Leading[h[c].tag] \in Names(h[c].tag)
    /\ h[c].tag \in Chained /\ Leading[h[c].tag] \in DOMAIN upd =>
          Lead(g[c]) = upd[Leading[h[c].tag]]
    /\ ~(h[c].tag \in Chained /\ Leading[h[c].tag] \in DOMAIN upd) => Lead(g[c]) = Lead(h[c])

LEMMA PutsSets ==
    ASSUME NEW h, NEW K, Ownership(h, K), NEW c \in DOMAIN h, NEW upd, NEW g, Puts(h, g, c, upd),
           DOMAIN upd \subseteq Names(h[c].tag) \ {"tag"}
    PROVE  Sets(h, g, c, upd)
BY PutsLead DEF Sets

\* A new list is its own tail.
LEMMA TipStep ==
    ASSUME NEW h, NEW K, Sound(h, K), NEW n, n \in K, h[n].tag \in ListTags, h[n].next = 0,
           NEW upd, DOMAIN upd = {"last"}, upd["last"] = n, NEW g, Puts(h, g, n, upd)
    PROVE  Step(h, K, {n}, g, n)
<1> DEFINE tag == h[n].tag
<1>1. Ownership(h, K) /\ Ordered(h) /\ Older(h)
  BY DEF Sound
<1>2. /\ Len(h) \in Nat /\ DOMAIN h = 1 .. Len(h) /\ h \in Seq(Cells)
      /\ n \in DOMAIN h /\ n # 0 /\ tag \in Tags
  BY <1>1, HeapFacts
<1>3. /\ \A l, u : <<tag, l, u>> \in Ends <=> l = "last" /\ u = tag
      /\ "last" \in Tails /\ "last" # "next" /\ "last" # "tag" /\ tag # "Expression"
      /\ tag \in Chained
  BY EndFacts, SlotFacts DEF ListTags
<1>4. "last" \notin Fields(tag)
  <2> SUFFICES ASSUME "last" \in Fields(tag) PROVE FALSE
    OBVIOUS
  <2>1. PICK v : <<tag, "last", v>> \in Slots
    BY <1>2, FieldsAre
  <2> QED BY <2>1, <1>3, SlotFacts
<1>5. Gifts(tag, upd) = {}
  BY <1>4 DEF Gifts
<1>6. Values(h, tag, upd)
  BY <1>2, <1>3, SlotNames DEF Values
<1>7. Gives(h, K \ {n}, tag, upd)
  <2>1. \A f, u : <<tag, f, u>> \in Slots => f # "last"
    BY <1>2, <1>4, SlotNames
  <2> QED BY <2>1, <1>3, <1>4, <1>5, <1>6 DEF Gives
<1>8. Fills(h, n, upd)
  BY <1>2, <1>4 DEF Fills
<1>9. Ownership(g, K) /\ \A e \in DOMAIN h : g[e].tag = h[e].tag
  <2>1. K = K \ Gifts(tag, upd)
    BY <1>5
  <2>2. Kept(h, g, K)
    BY <2>1, <1>1, <1>2, <1>7, <1>8, PutsOwnedAt
  <2> QED BY <2>2 DEF Kept
<1>10. /\ DOMAIN g = DOMAIN h /\ \A e \in DOMAIN h : e # n => g[e] = h[e]
  <2>1. g \in Seq(Cells) /\ Len(g) = Len(h)
    BY DEF Puts
  <2>2. DOMAIN g = DOMAIN h
    BY <2>1, <1>2
  <2> QED BY <2>2 DEF Puts
<1>11. /\ g[n].tag = tag /\ g[n].next = 0 /\ g[n].last = n /\ Lead(g[n]) = Lead(h[n])
  <2>1. DOMAIN upd \subseteq Names(h[n].tag) \ {"tag"}
    BY <1>6 DEF Values
  <2>2. Sets(h, g, n, upd)
    BY <2>1, <1>1, <1>2, PutsSets
  <2>3. Leading[tag] # "last"
    BY <1>3, EndFacts
  <2> QED BY <2>2, <2>3, <1>3 DEF Sets
<1> HIDE DEF tag
<1>12. Tips(g, n) = {n}
  <2>1. EndNames(tag) = {"last"}
    BY <1>2, <1>3 DEF EndNames
  <2> QED BY <2>1, <1>2, <1>11 DEF Tips
<1>13. Open(g, n)
  <2>1. ASSUME NEW f, NEW l, NEW u, <<tag, f, l, u>> \in Begun PROVE FALSE
    <3>1. tag \notin ListTags
      BY <2>1, EndFacts
    <3> QED BY <3>1 DEF tag
  <2> QED BY <2>1, <1>3, <1>11 DEF Open
<1>14. \A e \in DOMAIN h : Lead(g[e]) = Lead(h[e]) /\ g[e].next = h[e].next
  BY <1>10, <1>11
<1>15. Ordered(g)
  <2> SUFFICES ASSUME NEW c \in DOMAIN g, g[c].next # 0
               PROVE  Lead(g[c]) < Lead(g[g[c].next])
    BY DEF Ordered
  <2>1. c \in DOMAIN h /\ g[c].next = h[c].next /\ h[c].next \in DOMAIN h
    BY <1>1, <1>2, <1>10, <1>14, HeapFacts
  <2> QED BY <2>1, <1>1, <1>14 DEF Ordered
<1>16. Older(g)
  BY <1>1, <1>3, <1>10, <1>11 DEF Older
<1>17. Marks(g, n) \subseteq Marks(h, n)
  BY <1>11, <1>12 DEF Marks
<1>18. Step(h, K, {n}, g, n)
  <2>1. /\ {n} \subseteq K /\ DOMAIN h \subseteq DOMAIN g /\ DOMAIN g \ DOMAIN h = {}
        /\ n \in {0} \cup {n} \cup (DOMAIN g \ DOMAIN h)
    BY <1>10
  <2>2. Ownership(g, (K \ {n}) \cup ({n} \ {0}))
    <3>1. (K \ {n}) \cup ({n} \ {0}) = K
      BY <1>2
    <3> QED BY <3>1, <1>9
  <2>3. \A e \in DOMAIN g \ DOMAIN h : g[e].tag # "String"
    BY <2>1
  <2>4. \A e \in DOMAIN h : g[e] # h[e] => e \in {n} \/ \E a \in {n} : e \in Tips(h, a)
    BY <1>10
  <2>5. Tips(g, n) \subseteq (UNION {Tips(h, a) : a \in {n}}) \cup {n} \cup (DOMAIN g \ DOMAIN h)
    BY <1>12
  <2>6. Marks(g, n) \subseteq (UNION {Marks(h, a) : a \in {n}}) \cup (DOMAIN g \ DOMAIN h)
    BY <1>17
  <2> QED BY <2>1, <2>2, <2>3, <2>4, <2>5, <2>6, <1>9, <1>13, <1>15, <1>16, Assemble
<1> QED BY <1>18

-----------------------------------------------------------------------------
(* Steps one after the other                                               *)

\* With the cells A are made the cells P.
Steps(h, K, A, g, P) ==
    /\ A \subseteq K /\ K \subseteq DOMAIN h /\ 0 \notin P
    /\ P \subseteq A \cup (DOMAIN g \ DOMAIN h)
    /\ Sound(g, (K \ A) \cup P)
    /\ DOMAIN h \subseteq DOMAIN g /\ \A e \in DOMAIN h : g[e].tag = h[e].tag
    /\ \A e \in DOMAIN g \ DOMAIN h : g[e].tag # "String"
    /\ \A o \in K \ A : g[o] = h[o] /\ Marks(g, o) = Marks(h, o)
    /\ \A p \in P :
          Marks(g, p) \subseteq (UNION {Marks(h, a) : a \in A}) \cup (DOMAIN g \ DOMAIN h)

LEMMA OneStep ==
    ASSUME NEW h, NEW K, Sound(h, K), NEW A, NEW g, NEW p, p # 0, Step(h, K, A, g, p)
    PROVE  Steps(h, K, A, g, {p})
<1>1. K \subseteq DOMAIN h
  BY HeapFacts DEF Sound
<1>2. {p} \ {0} = {p}
  OBVIOUS
<1> QED BY <1>1, <1>2 DEF Step, Steps

LEMMA NoStep ==
    ASSUME NEW h, NEW K, Sound(h, K), NEW A, A \subseteq K
    PROVE  Steps(h, K, A, h, A)
<1>1. K \subseteq DOMAIN h /\ 0 \notin DOMAIN h
  BY HeapFacts DEF Sound
<1>2. (K \ A) \cup A = K
  OBVIOUS
<1>3. \A p \in A : Marks(h, p) \subseteq (UNION {Marks(h, a) : a \in A}) \cup (DOMAIN h \ DOMAIN h)
  OBVIOUS
<1> QED BY <1>1, <1>2, <1>3 DEF Steps

LEMMA StepThen ==
    ASSUME NEW h, NEW K, NEW A, NEW g, NEW P, Steps(h, K, A, g, P),
           NEW J, J = (K \ A) \cup P, NEW B, NEW f, NEW Q, Steps(g, J, B, f, Q),
           NEW AB, AB = A \cup (B \ P), NEW PQ, PQ = (P \ B) \cup Q
    PROVE  Steps(h, K, AB, f, PQ)
<1>1. /\ A \subseteq K /\ K \subseteq DOMAIN h /\ 0 \notin P
      /\ P \subseteq A \cup (DOMAIN g \ DOMAIN h)
      /\ DOMAIN h \subseteq DOMAIN g /\ \A e \in DOMAIN h : g[e].tag = h[e].tag
      /\ \A e \in DOMAIN g \ DOMAIN h : g[e].tag # "String"
      /\ \A o \in K \ A : g[o] = h[o] /\ Marks(g, o) = Marks(h, o)
      /\ \A p \in P :
            Marks(g, p) \subseteq (UNION {Marks(h, a) : a \in A}) \cup (DOMAIN g \ DOMAIN h)
  BY DEF Steps
<1>2. /\ B \subseteq J /\ J \subseteq DOMAIN g /\ 0 \notin Q
      /\ Q \subseteq B \cup (DOMAIN f \ DOMAIN g)
      /\ Sound(f, (J \ B) \cup Q)
      /\ DOMAIN g \subseteq DOMAIN f /\ \A e \in DOMAIN g : f[e].tag = g[e].tag
      /\ \A e \in DOMAIN f \ DOMAIN g : f[e].tag # "String"
      /\ \A o \in J \ B : f[o] = g[o] /\ Marks(f, o) = Marks(g, o)
      /\ \A p \in Q :
            Marks(f, p) \subseteq (UNION {Marks(g, a) : a \in B}) \cup (DOMAIN f \ DOMAIN g)
  BY DEF Steps
<1>3. ASSUME NEW o \in K \ AB PROVE o \in K \ A /\ o \in J \ B
  BY <1>1
<1>4. (K \ AB) \cup PQ = (J \ B) \cup Q
  <2>1. ASSUME NEW o \in J \ B PROVE o \in (K \ AB) \cup PQ
    OBVIOUS
  <2> QED BY <2>1, <1>3
<1>5. AB \subseteq K /\ PQ \subseteq AB \cup (DOMAIN f \ DOMAIN h) /\ 0 \notin PQ
  <2>1. AB \subseteq K
    BY <1>1, <1>2
  <2>2. ASSUME NEW p \in P PROVE p \in AB \cup (DOMAIN f \ DOMAIN h)
    BY <1>1, <1>2
  <2>3. ASSUME NEW q \in Q PROVE q \in AB \cup (DOMAIN f \ DOMAIN h)
    <3>1. q \in B \/ q \in DOMAIN f \ DOMAIN h
      BY <1>1, <1>2
    <3> QED BY <3>1, <2>2
  <2> QED BY <2>1, <2>2, <2>3, <1>1, <1>2
<1>6. /\ DOMAIN h \subseteq DOMAIN f /\ \A e \in DOMAIN h : f[e].tag = h[e].tag
      /\ \A e \in DOMAIN f \ DOMAIN h : f[e].tag # "String"
  BY <1>1, <1>2
<1>7. \A o \in K \ AB : f[o] = h[o] /\ Marks(f, o) = Marks(h, o)
  BY <1>1, <1>2, <1>3
<1> DEFINE M == (UNION {Marks(h, a) : a \in AB}) \cup (DOMAIN f \ DOMAIN h)
<1>8. ASSUME NEW p \in P PROVE Marks(g, p) \subseteq M
  <2> SUFFICES ASSUME NEW m \in Marks(g, p) PROVE m \in M
    OBVIOUS
  <2>1. (\E a \in A : m \in Marks(h, a)) \/ m \in DOMAIN g \ DOMAIN h
    BY <1>1
  <2> QED BY <2>1, <1>2
<1>9. ASSUME NEW p \in PQ PROVE Marks(f, p) \subseteq M
  <2>1. CASE p \in P \ B
    <3>1. Marks(f, p) = Marks(g, p)
      BY <2>1, <1>2
    <3> QED BY <3>1, <2>1, <1>8
  <2>2. CASE p \in Q
    <3> SUFFICES ASSUME NEW m \in Marks(f, p) PROVE m \in M
      OBVIOUS
    <3>1. (\E a \in B : m \in Marks(g, a)) \/ m \in DOMAIN f \ DOMAIN g
      BY <2>2, <1>2
    <3>2. CASE m \in DOMAIN f \ DOMAIN g
      BY <3>2, <1>1
    <3>3. ASSUME NEW a \in B, m \in Marks(g, a) PROVE m \in M
      <4>1. CASE a \in P
        BY <4>1, <3>3, <1>8
      <4>2. CASE a \notin P
        <5>1. a \in K \ A /\ a \in AB
          BY <4>2, <1>2
        <5>2. Marks(g, a) = Marks(h, a)
          BY <5>1, <1>1
        <5> QED BY <5>1, <5>2, <3>3
      <4> QED BY <4>1, <4>2
    <3> QED BY <3>1, <3>2, <3>3
  <2> QED BY <2>1, <2>2
<1>10. \A p \in PQ : Marks(f, p) \subseteq (UNION {Marks(h, a) : a \in AB}) \cup (DOMAIN f \ DOMAIN h)
  BY <1>9
<1>11. K \subseteq DOMAIN h /\ Sound(f, (K \ AB) \cup PQ)
  BY <1>1, <1>2, <1>4
<1> QED BY <1>5, <1>6, <1>7, <1>10, <1>11 DEF Steps

-----------------------------------------------------------------------------
(* The updates that the semantic actions write                             *)

\* A field of a cell is set.
LEMMA PutOne ==
    ASSUME NEW h, Shape(h), NEW b \in DOMAIN h, NEW f \in Names(h[b].tag) \ {"tag"},
           NEW v \in 0 .. Len(h), NEW upd, DOMAIN upd = {f}, upd[f] = v
    PROVE  Puts(h, [h EXCEPT ![b][f] = v], b, upd)
<1> DEFINE c == [h[b] EXCEPT ![f] = v]
<1>1. DOMAIN h[b] = Names(h[b].tag) /\ h \in Seq(Cells)
  BY DEF Shape
<1>3. /\ DOMAIN c = DOMAIN h[b] /\ c = [y \in DOMAIN c |-> c[y]]
      /\ \A y \in DOMAIN h[b] : c[y] = IF y \in DOMAIN upd THEN upd[y] ELSE h[b][y]
  BY <1>1
<1>4. Values(h, h[b].tag, upd)
  BY <1>1 DEF Values
<1>5. Puts(h, [h EXCEPT ![b] = c], b, upd)
  <2> HIDE DEF c
  <2> QED BY <1>3, <1>4, ExceptPuts
<1> QED BY <1>5

\* What is put where, under names of their own.
One(upd, f, v) == DOMAIN upd = {f} /\ upd[f] = v
Two(upd, f, v, l, w) == DOMAIN upd = {f, l} /\ upd[f] = v /\ upd[l] = w
Three(upd, f, v, l, w, m, x) ==
    DOMAIN upd = {f, l, m} /\ upd[f] = v /\ upd[l] = w /\ upd[m] = x
Over(upd, u, w) ==
    /\ DOMAIN upd = DOMAIN u \cup DOMAIN w
    /\ \A y \in DOMAIN w : upd[y] = w[y]
    /\ \A y \in DOMAIN u \ DOMAIN w : upd[y] = u[y]
FieldOf(h, b, f) == b \in DOMAIN h /\ f \in Names(h[b].tag) \ {"tag"}

LEMMA PutOneAt ==
    ASSUME NEW h, Shape(h), NEW b, NEW f, FieldOf(h, b, f), NEW v, v \in 0 .. Len(h),
           NEW upd, One(upd, f, v), NEW g, g = [h EXCEPT ![b][f] = v]
    PROVE  Puts(h, g, b, upd)
BY PutOne DEF One, FieldOf

\* Two are, one after the other.
LEMMA PutsShape ==
    ASSUME NEW h, Shape(h), NEW b, NEW upd, Values(h, h[b].tag, upd), NEW k, Puts(h, k, b, upd)
    PROVE  Shape(k) /\ k[b].tag = h[b].tag /\ DOMAIN k = DOMAIN h /\ Len(k) = Len(h)
<1>1. /\ h \in Seq(Cells) /\ k \in Seq(Cells) /\ Len(k) = Len(h) /\ b \in DOMAIN h
      /\ DOMAIN k = DOMAIN h
  <2>1. h \in Seq(Cells) /\ k \in Seq(Cells) /\ Len(k) = Len(h) /\ b \in DOMAIN h
    BY DEF Shape, Puts
  <2> QED BY <2>1
<1>2. /\ DOMAIN h[b] = Names(h[b].tag) /\ DOMAIN k[b] = DOMAIN h[b]
      /\ \A f \in Names(h[b].tag) \ {"tag"} : h[b][f] \in 0 .. Len(h)
      /\ h[b].tag \in Tags
  BY <1>1 DEF Shape, Puts
<1>3. k[b].tag = h[b].tag
  <2>1. "tag" \in DOMAIN h[b] /\ "tag" \notin DOMAIN upd
    BY <1>2 DEF Names, Values
  <2> QED BY <2>1 DEF Puts
<1>4. \A f \in Names(h[b].tag) \ {"tag"} : k[b][f] \in 0 .. Len(h)
  BY <1>2 DEF Puts, Values
<1>5. \A e \in DOMAIN h : e # b => k[e] = h[e]
  BY DEF Puts
<1>6. \A e \in DOMAIN k : /\ k[e].tag \in Tags /\ DOMAIN k[e] = Names(k[e].tag)
                         /\ \A f \in Names(k[e].tag) \ {"tag"} : k[e][f] \in 0 .. Len(k)
  <2> TAKE e \in DOMAIN k
  <2>1. CASE e = b
    BY <2>1, <1>1, <1>2, <1>3, <1>4
  <2>2. CASE e # b
    BY <2>2, <1>1, <1>5 DEF Shape
  <2> QED BY <2>1, <2>2
<1> QED BY <1>1, <1>3, <1>6 DEF Shape

LEMMA PutsTwice ==
    ASSUME NEW h, NEW b, NEW k, NEW u, Puts(h, k, b, u), NEW g, NEW w, Puts(k, g, b, w),
           DOMAIN k = DOMAIN h, NEW upd, Over(upd, u, w)
    PROVE  Puts(h, g, b, upd)
BY DEF Puts, Over

Edits(h, g, b, f, v, l, w) == g = [[h EXCEPT ![b][f] = v] EXCEPT ![b][l] = w]
LEMMA PutTwoAt ==
    ASSUME NEW h, Shape(h), NEW b, NEW f, FieldOf(h, b, f), NEW l, FieldOf(h, b, l), l # f,
           NEW v, v \in 0 .. Len(h), NEW w, w \in 0 .. Len(h), NEW upd, Two(upd, f, v, l, w),
           NEW g, Edits(h, g, b, f, v, l, w)
    PROVE  Puts(h, g, b, upd)
<1>0. PICK k : k = [h EXCEPT ![b][f] = v] /\ g = [k EXCEPT ![b][l] = w]
  BY DEF Edits
<1>1. PICK u : One(u, f, v)
  <2>1. One([y \in {f} |-> v], f, v)
    BY DEF One
  <2> QED BY <2>1
<1>2. PICK z : One(z, l, w)
  <2>1. One([y \in {l} |-> w], l, w)
    BY DEF One
  <2> QED BY <2>1
<1>3. Puts(h, k, b, u)
  BY <1>0, <1>1, PutOneAt
<1>4. Shape(k) /\ k[b].tag = h[b].tag /\ DOMAIN k = DOMAIN h /\ Len(k) = Len(h)
  <2>1. Values(h, h[b].tag, u)
    BY <1>1 DEF Values, One, FieldOf
  <2> QED BY <2>1, <1>3, PutsShape
<1>5. Puts(k, g, b, z)
  <2>1. FieldOf(k, b, l) /\ w \in 0 .. Len(k)
    BY <1>4 DEF FieldOf
  <2> QED BY <2>1, <1>0, <1>2, <1>4, PutOneAt
<1>6. Over(upd, u, z)
  BY <1>1, <1>2 DEF Over, One, Two
<1> QED BY <1>3, <1>4, <1>5, <1>6, PutsTwice

\* A cell is linked behind another one.
LEMMA PutNext ==
    ASSUME NEW h, Shape(h), NEW b \in DOMAIN h, NEW x \in DOMAIN h, NEW l, NEW q
    PROVE  [h EXCEPT ![x].next = q, ![b][l] = q]
           = [[h EXCEPT ![x]["next"] = q] EXCEPT ![b][l] = q]
OBVIOUS
\* Three are.
LEMMA PutThreeAt ==
    ASSUME NEW h, Shape(h), NEW b, NEW f, FieldOf(h, b, f), NEW l, FieldOf(h, b, l), l # f,
           NEW m, FieldOf(h, b, m), m \notin {f, l},
           NEW v, v \in 0 .. Len(h), NEW w, w \in 0 .. Len(h), NEW x, x \in 0 .. Len(h),
           NEW upd, Three(upd, f, v, l, w, m, x),
           NEW k, Edits(h, k, b, f, v, l, w), NEW g, g = [k EXCEPT ![b][m] = x]
    PROVE  Puts(h, g, b, upd)
<1>1. PICK u : Two(u, f, v, l, w)
  <2>1. Two([y \in {f, l} |-> IF y = f THEN v ELSE w], f, v, l, w)
    BY DEF Two
  <2> QED BY <2>1
<1>2. PICK z : One(z, m, x)
  <2>1. One([y \in {m} |-> x], m, x)
    BY DEF One
  <2> QED BY <2>1
<1>3. Puts(h, k, b, u)
  BY <1>1, PutTwoAt
<1>4. Shape(k) /\ k[b].tag = h[b].tag /\ DOMAIN k = DOMAIN h /\ Len(k) = Len(h)
  <2>1. Values(h, h[b].tag, u)
    BY <1>1 DEF Values, Two, FieldOf
  <2> QED BY <2>1, <1>3, PutsShape
<1>5. Puts(k, g, b, z)
  <2>1. FieldOf(k, b, m) /\ x \in 0 .. Len(k)
    BY <1>4 DEF FieldOf
  <2> QED BY <2>1, <1>2, <1>4, PutOneAt
<1>6. Over(upd, u, z)
  BY <1>1, <1>2 DEF Over, One, Two, Three
<1> QED BY <1>3, <1>4, <1>5, <1>6, PutsTwice

\* Several fields in one EXCEPT.
LEMMA PutTogether ==
    ASSUME NEW h, NEW b, NEW f, NEW l, NEW m, NEW v, NEW w, NEW x
    PROVE  /\ [h EXCEPT ![b][f] = v, ![b][l] = w] = [[h EXCEPT ![b][f] = v] EXCEPT ![b][l] = w]
           /\ [h EXCEPT ![b][f] = v, ![b][l] = w, ![b][m] = x]
              = [[[h EXCEPT ![b][f] = v] EXCEPT ![b][l] = w] EXCEPT ![b][m] = x]
OBVIOUS

\* The slots tag by tag.
LEMMA SlotsOf ==
    /\ \A f, u : <<"Program", f, u>> \in Slots <=>
          \/ f = "schema" /\ u = "Schema"
    /\ \A f, u : <<"Schema", f, u>> \in Slots <=>
          \/ f = "name" /\ u = "String"
          \/ f = "entities" /\ u = "Entity"
          \/ f = "relationships" /\ u = "Relationship"
    /\ \A f, u : <<"Entity", f, u>> \in Slots <=>
          \/ f = "name" /\ u = "String"
          \/ f = "parent" /\ u = "String"
          \/ f = "attributes" /\ u = "AttributeList"
          \/ f = "primaryKey" /\ u = "PrimaryKey"
          \/ f = "assertions" /\ u = "Assertion"
          \/ f = "next" /\ u = "Entity"
    /\ \A f, u : <<"Relationship", f, u>> \in Slots <=>
          \/ f = "name" /\ u = "String"
          \/ f = "participants" /\ u = "ParticipantList"
          \/ f = "attributes" /\ u = "AttributeList"
          \/ f = "next" /\ u = "Relationship"
    /\ \A f, u : <<"Attribute", f, u>> \in Slots <=>
          \/ f = "name" /\ u = "String"
          \/ f = "type" /\ u = "Type"
          \/ f = "modifiers" /\ u = "ModifierList"
    /\ \A f, u : <<"AttributeList", f, u>> \in Slots <=>
          \/ f = "attribute" /\ u = "Attribute"
          \/ f = "next" /\ u = "AttributeList"
    /\ \A f, u : <<"Participant", f, u>> \in Slots <=>
          \/ f = "entityName" /\ u = "String"
          \/ f = "participation" /\ u = "Participation"
    /\ \A f, u : <<"ParticipantList", f, u>> \in Slots <=>
          \/ f = "participant" /\ u = "Participant"
          \/ f = "next" /\ u = "ParticipantList"
    /\ \A f, u : <<"Expression", f, u>> \in Slots <=>
          \/ f = "identifier" /\ u = "String"
          \/ f = "literal" /\ u = "Literal"
          \/ f = "left" /\ u = "Expression"
          \/ f = "right" /\ u = "Expression"
    /\ \A f, u : <<"Literal", f, u>> \in Slots <=>
          \/ f = "string" /\ u = "String"
    /\ \A f, u : <<"Modifier", f, u>> \in Slots <=>
          \/ f = "defaultValue" /\ u = "Literal"
    /\ \A f, u : <<"ModifierList", f, u>> \in Slots <=>
          \/ f = "modifier" /\ u = "Modifier"
          \/ f = "next" /\ u = "ModifierList"
    /\ \A f, u : <<"PrimaryKey", f, u>> \in Slots <=>
          \/ f = "attributes" /\ u = "QualifiedIdentifierList"
    /\ \A f, u : <<"Assertion", f, u>> \in Slots <=>
          \/ f = "condition" /\ u = "Expression"
          \/ f = "next" /\ u = "Assertion"
    /\ \A f, u : <<"QualifiedIdentifierList", f, u>> \in Slots <=>
          \/ f = "qid" /\ u = "QualifiedIdentifier"
          \/ f = "next" /\ u = "QualifiedIdentifierList"
    /\ \A f, u : <<"QualifiedIdentifier", f, u>> \in Slots <=>
          \/ f = "entity" /\ u = "String"
          \/ f = "attribute" /\ u = "String"
    /\ \A f, u : <<"Type", f, u>> \notin Slots
    /\ \A f, u : <<"Participation", f, u>> \notin Slots
    /\ \A f, u : <<"String", f, u>> \notin Slots
<1>1. \A f, u : <<"Program", f, u>> \in Slots <=>
          \/ f = "schema" /\ u = "Schema"
  BY DEF Slots
<1>2. \A f, u : <<"Schema", f, u>> \in Slots <=>
          \/ f = "name" /\ u = "String"
          \/ f = "entities" /\ u = "Entity"
          \/ f = "relationships" /\ u = "Relationship"
  BY DEF Slots
<1>3. \A f, u : <<"Entity", f, u>> \in Slots <=>
          \/ f = "name" /\ u = "String"
          \/ f = "parent" /\ u = "String"
          \/ f = "attributes" /\ u = "AttributeList"
          \/ f = "primaryKey" /\ u = "PrimaryKey"
          \/ f = "assertions" /\ u = "Assertion"
          \/ f = "next" /\ u = "Entity"
  BY DEF Slots
<1>4. \A f, u : <<"Relationship", f, u>> \in Slots <=>
          \/ f = "name" /\ u = "String"
          \/ f = "participants" /\ u = "ParticipantList"
          \/ f = "attributes" /\ u = "AttributeList"
          \/ f = "next" /\ u = "Relationship"
  BY DEF Slots
<1>5. \A f, u : <<"Attribute", f, u>> \in Slots <=>
          \/ f = "name" /\ u = "String"
          \/ f = "type" /\ u = "Type"
          \/ f = "modifiers" /\ u = "ModifierList"
  BY DEF Slots
<1>6. \A f, u : <<"AttributeList", f, u>> \in Slots <=>
          \/ f = "attribute" /\ u = "Attribute"
          \/ f = "next" /\ u = "AttributeList"
  BY DEF Slots
<1>7. \A f, u : <<"Participant", f, u>> \in Slots <=>
          \/ f = "entityName" /\ u = "String"
          \/ f = "participation" /\ u = "Participation"
  BY DEF Slots
<1>8. \A f, u : <<"ParticipantList", f, u>> \in Slots <=>
          \/ f = "participant" /\ u = "Participant"
          \/ f = "next" /\ u = "ParticipantList"
  BY DEF Slots
<1>9. \A f, u : <<"Expression", f, u>> \in Slots <=>
          \/ f = "identifier" /\ u = "String"
          \/ f = "literal" /\ u = "Literal"
          \/ f = "left" /\ u = "Expression"
          \/ f = "right" /\ u = "Expression"
  BY DEF Slots
<1>10. \A f, u : <<"Literal", f, u>> \in Slots <=>
          \/ f = "string" /\ u = "String"
  BY DEF Slots
<1>11. \A f, u : <<"Modifier", f, u>> \in Slots <=>
          \/ f = "defaultValue" /\ u = "Literal"
  BY DEF Slots
<1>12. \A f, u : <<"ModifierList", f, u>> \in Slots <=>
          \/ f = "modifier" /\ u = "Modifier"
          \/ f = "next" /\ u = "ModifierList"
  BY DEF Slots
<1>13. \A f, u : <<"PrimaryKey", f, u>> \in Slots <=>
          \/ f = "attributes" /\ u = "QualifiedIdentifierList"
  BY DEF Slots
<1>14. \A f, u : <<"Assertion", f, u>> \in Slots <=>
          \/ f = "condition" /\ u = "Expression"
          \/ f = "next" /\ u = "Assertion"
  BY DEF Slots
<1>15. \A f, u : <<"QualifiedIdentifierList", f, u>> \in Slots <=>
          \/ f = "qid" /\ u = "QualifiedIdentifier"
          \/ f = "next" /\ u = "QualifiedIdentifierList"
  BY DEF Slots
<1>16. \A f, u : <<"QualifiedIdentifier", f, u>> \in Slots <=>
          \/ f = "entity" /\ u = "String"
          \/ f = "attribute" /\ u = "String"
  BY DEF Slots
<1>17. \A f, u : <<"Type", f, u>> \notin Slots
  BY DEF Slots
<1>18. \A f, u : <<"Participation", f, u>> \notin Slots
  BY DEF Slots
<1>19. \A f, u : <<"String", f, u>> \notin Slots
  BY DEF Slots
<1> QED BY <1>1, <1>2, <1>3, <1>4, <1>5, <1>6, <1>7, <1>8, <1>9, <1>10, <1>11, <1>12, <1>13, <1>14, <1>15, <1>16, <1>17, <1>18, <1>19

-----------------------------------------------------------------------------
(* What an action returns                                                  *)

\* A finished cell, and a body, which has yet to get its name.
IsWhole(h, p, t) ==
    p \in DOMAIN h /\ h[p].tag = t /\ Whole(h[p]) /\ (t \in ListTags => h[p].last # 0)
Bare == [Schema |-> {"name"}, Entity |-> {"name", "parent"},
         Relationship |-> {"name", "participants"}]
IsBody(h, p, t) == p \in DOMAIN h /\ h[p].tag = t /\ \A f \in Bare[t] : h[p][f] = 0

\* What is held where: a cell of b has no greater a number than what it is told from in q.
Before(h, b, q) ==
    \A x \in Marks(h, b), y \in Marks(h, q) :
        (h[x].tag = "String" <=> h[y].tag = "String") => x < y

LEMMA SoundFacts ==
    ASSUME NEW h, NEW K, Sound(h, K)
    PROVE  /\ Ownership(h, K) /\ Shape(h) /\ K \subseteq DOMAIN h
           /\ Len(h) \in Nat /\ DOMAIN h = 1 .. Len(h) /\ 0 \notin K
BY HeapFacts DEF Sound, Ownership

\* A new cell with these fields.
Built(h, K, tag, upd, g, A) ==
    /\ Steps(h, K, A, g, {Len(h) + 1})
    /\ g[Len(h) + 1].tag = tag /\ Tips(g, Len(h) + 1) = {}
    /\ DOMAIN g = DOMAIN h \cup {Len(h) + 1} /\ \A e \in DOMAIN h : g[e] = h[e]
    /\ DOMAIN g[Len(h) + 1] = Names(tag)
    /\ \A f \in Names(tag) \ {"tag"} :
          g[Len(h) + 1][f] = IF f \in DOMAIN upd THEN upd[f] ELSE 0
LEMMA BuildStep ==
    ASSUME NEW h, NEW K, Sound(h, K), NEW tag \in Tags \ {"String"}, NEW upd,
           Gives(h, K, tag, upd), Plain(tag, upd), NEW g, g = Append(h, New(tag, upd)),
           NEW A, A = Gifts(tag, upd)
    PROVE  Built(h, K, tag, upd, g, A)
<1>1. Shape(h) /\ Len(h) \in Nat /\ DOMAIN h = 1 .. Len(h)
  BY SoundFacts
<1>2. Adds(h, g, tag, upd)
  <2>1. Values(h, tag, upd)
    BY DEF Gives
  <2> QED BY <1>1, <2>1, AppendAdds
<1>3. Step(h, K, A, g, Len(h) + 1) /\ Tips(g, Len(h) + 1) = {}
  BY <1>2, NewStep
<1>4. Steps(h, K, A, g, {Len(h) + 1})
  <2>1. Len(h) + 1 # 0
    BY <1>1
  <2> QED BY <1>3, <2>1, OneStep
<1>5. DOMAIN g = DOMAIN h \cup {Len(h) + 1} /\ \A e \in DOMAIN h : g[e] = h[e]
  <2>1. g \in Seq(Cells) /\ Len(g) = Len(h) + 1 /\ \A e \in DOMAIN h : g[e] = h[e]
    BY <1>2 DEF Adds
  <2>2. DOMAIN g = 1 .. Len(h) + 1
    BY <2>1
  <2> QED BY <2>1, <2>2, <1>1
<1> QED BY <1>2, <1>3, <1>4, <1>5 DEF Built, Adds

\* A body, or the one that a NULL stands for.
BodyOf(h, p, t) == IF p # 0 THEN h ELSE Append(h, calloc(t))
HereOf(h, p) == IF p # 0 THEN p ELSE Len(h) + 1
Bodied(h, K, p, t, g, b) ==
    /\ Steps(h, K, {p} \ {0}, g, {b})
    /\ IsBody(g, b, t) /\ b \notin K \ {p}
    /\ DOMAIN h \subseteq DOMAIN g /\ \A e \in DOMAIN h : g[e] = h[e]
    /\ p = 0 => \A f \in Names(t) \ {"tag"} : g[b][f] = 0
    /\ p # 0 => b = p

LEMMA BodyStep ==
    ASSUME NEW h, NEW K, Sound(h, K), NEW t, t \in {"Schema", "Entity", "Relationship"},
           NEW p, p = 0 \/ (p \in K /\ IsBody(h, p, t)),
           NEW g, g = BodyOf(h, p, t), NEW b, b = HereOf(h, p)
    PROVE  Bodied(h, K, p, t, g, b)
<1>1. Len(h) \in Nat /\ DOMAIN h = 1 .. Len(h) /\ K \subseteq DOMAIN h /\ 0 \notin K
  BY SoundFacts
<1>2. CASE p # 0
  <2>1. g = h /\ b = p /\ p \in K /\ {p} \ {0} = {p}
    BY <1>2 DEF BodyOf, HereOf
  <2>2. Steps(h, K, {p}, h, {p})
    <3>1. {p} \subseteq K
      BY <2>1
    <3> QED BY <3>1, NoStep
  <2> QED BY <2>1, <2>2, <1>2 DEF Bodied
<1>3. CASE p = 0
  <2>1. g = Append(h, New(t, <<>>)) /\ b = Len(h) + 1 /\ {p} \ {0} = {}
    BY <1>3 DEF BodyOf, HereOf, calloc
  <2>2. t \in Tags \ {"String"}
    BY LayoutSmall
  <2>3. DOMAIN <<>> = {}
    OBVIOUS
  <2> DEFINE upd == <<>>
  <2>4. Gives(h, K, t, upd) /\ Gifts(t, upd) = {} /\ Plain(t, upd)
    BY <2>3 DEF Gives, Gifts, Values, Plain
  <2>5. Built(h, K, t, upd, g, {})
    <3>1. PICK u : u = upd
      OBVIOUS
    <3>2. PICK A : A = {}
      OBVIOUS
    <3>3. Gives(h, K, t, u) /\ A = Gifts(t, u) /\ Plain(t, u) /\ g = Append(h, New(t, u))
      BY <2>1, <2>4, <3>1, <3>2
    <3>4. Built(h, K, t, u, g, A)
      <4> HIDE DEF upd
      <4> QED BY <2>2, <3>3, BuildStep
    <3> QED BY <3>1, <3>2, <3>4
  <2>6. /\ Steps(h, K, {}, g, {b}) /\ g[b].tag = t /\ b \in DOMAIN g
        /\ DOMAIN h \subseteq DOMAIN g /\ \A e \in DOMAIN h : g[e] = h[e]
        /\ \A f \in Names(t) \ {"tag"} : g[b][f] = 0
    BY <2>1, <2>3, <2>5 DEF Built
  <2>7. Bare[t] \subseteq Names(t) \ {"tag"}
    <3>1. \A f \in Bare[t] : \E u : <<t, f, u>> \in Slots
      BY DEF Bare, Slots
    <3> QED BY <3>1, <2>2, SlotNames
  <2>8. b \notin K
    BY <1>1, <2>1
  <2> QED BY <2>1, <2>6, <2>7, <2>8, <1>3 DEF Bodied, IsBody
<1> QED BY <1>2, <1>3

\* Fields of a body that are no links.
Fillable(t, upd) ==
    \A f \in DOMAIN upd \cap Fields(t) :
        f \in Bare[t] \/ (t = "Entity" /\ f = "primaryKey" /\ upd[f] # 0)
Filled(h, K, A, k, b, t, g, upd) ==
    /\ Steps(h, K, A, k, {b})
    /\ b \in DOMAIN k /\ k[b].tag = t
    /\ \A f \in Names(t) \ {"tag"} : k[b][f] = IF f \in DOMAIN upd THEN upd[f] ELSE g[b][f]

LEMMA FillStep ==
    ASSUME NEW h, NEW K, Sound(h, K), NEW t, t \in {"Schema", "Entity", "Relationship"},
           NEW p, p = 0 \/ (p \in K /\ IsBody(h, p, t)),
           NEW g, g = BodyOf(h, p, t), NEW b, b = HereOf(h, p),
           NEW upd, Gives(h, K \ {p}, t, upd), Fillable(t, upd), Plain(t, upd),
           NEW k, Puts(g, k, b, upd), NEW A, A = (Gifts(t, upd) \cup {p}) \ {0}
    PROVE  Filled(h, K, A, k, b, t, g, upd)
<1>1. /\ Len(h) \in Nat /\ DOMAIN h = 1 .. Len(h) /\ K \subseteq DOMAIN h /\ 0 \notin K
  BY SoundFacts
<1>2. Bodied(h, K, p, t, g, b)
  BY BodyStep
<1>3. PICK J : J = (K \ ({p} \ {0})) \cup {b}
  OBVIOUS
<1>4. PICK G : G = Gifts(t, upd)
  OBVIOUS
<1>5. /\ Steps(h, K, {p} \ {0}, g, {b}) /\ IsBody(g, b, t) /\ b \notin K \ {p}
      /\ DOMAIN h \subseteq DOMAIN g /\ \A e \in DOMAIN h : g[e] = h[e]
  BY <1>2 DEF Bodied
<1>6. Sound(g, J)
  BY <1>5, <1>3 DEF Steps
<1>7. t \in Tags \ {"String"} /\ t \notin ListTags \cup {"Expression"}
  BY LayoutSmall DEF ListTags
<1>8. /\ Len(g) \in Nat /\ DOMAIN g = 1 .. Len(g) /\ b \in J /\ g[b].tag = t
      /\ Len(h) <= Len(g)
  <2>1. Len(g) \in Nat /\ DOMAIN g = 1 .. Len(g)
    BY <1>6, SoundFacts
  <2>2. Len(h) <= Len(g)
    <3>1. CASE Len(h) = 0
      BY <3>1, <2>1
    <3>2. CASE Len(h) # 0
      <4>1. Len(h) \in DOMAIN h
        BY <3>2, <1>1
      <4> QED BY <4>1, <2>1, <1>5
    <3> QED BY <3>1, <3>2
  <2> QED BY <2>1, <2>2, <1>3, <1>5 DEF IsBody
<1>9. /\ Values(h, t, upd) /\ G \subseteq K \ {p}
      /\ \A f, u : <<t, f, u>> \in Slots /\ f \in DOMAIN upd /\ upd[f] # 0 =>
            h[upd[f]].tag = u /\ Whole(h[upd[f]])
      /\ \A f, y \in DOMAIN upd \cap Fields(t) : upd[f] = upd[y] /\ upd[f] # 0 => f = y
      /\ t \notin Chained /\ "next" \in DOMAIN upd => upd["next"] = 0
  BY <1>4 DEF Gives
<1>10. Gives(g, J \ {b}, t, upd)
  <2>1. Values(g, t, upd)
    BY <1>1, <1>8, <1>9 DEF Values
  <2>2. G \subseteq J \ {b}
    BY <1>3, <1>5, <1>9
  <2>3. ASSUME NEW f, NEW u, <<t, f, u>> \in Slots, f \in DOMAIN upd, upd[f] # 0
        PROVE  g[upd[f]].tag = u /\ Whole(g[upd[f]])
    <3>1. f \in Fields(t)
      BY <1>7, <2>3, SlotNames
    <3>2. upd[f] \in G
      BY <1>4, <2>3, <3>1 DEF Gifts
    <3> QED BY <3>2, <2>3, <1>1, <1>5, <1>9
  <2> QED BY <2>1, <2>2, <2>3, <1>4, <1>9 DEF Gives
<1>11. Fills(g, b, upd)
  <2>1. b \in DOMAIN g /\ g[b].tag = t /\ \A f \in Bare[t] : g[b][f] = 0
    BY <1>5 DEF IsBody
  <2> QED BY <2>1 DEF Fills, Fillable
<1>12. PICK B : B = G \cup {b}
  OBVIOUS
<1>13. Step(g, J, B, k, b)
  <2>1. Gives(g, J \ {b}, g[b].tag, upd) /\ Plain(g[b].tag, upd) /\ B = Gifts(g[b].tag, upd) \cup {b}
    BY <1>4, <1>8, <1>10, <1>12
  <2>2. g[b].tag \notin ListTags \cup {"Expression"}
    BY <1>7, <1>8
  <2> QED BY <2>1, <2>2, <1>6, <1>8, <1>11, FieldStep
<1>14. Steps(g, J, B, k, {b})
  <2>1. b # 0
    BY <1>6, <1>8, SoundFacts
  <2> QED BY <2>1, <1>6, <1>13, OneStep
<1>15. Steps(h, K, A, k, {b})
  <2>1. PICK A1 : A1 = {p} \ {0}
    OBVIOUS
  <2>2. PICK P : P = {b}
    OBVIOUS
  <2>3. A = A1 \cup (B \ P)
    <3>1. b \notin G /\ 0 \notin G
      BY <1>1, <1>5, <1>9
    <3> QED BY <3>1, <2>1, <2>2, <1>4, <1>12
  <2>4. P = (P \ B) \cup P /\ J = (K \ A1) \cup P
    BY <2>1, <2>2, <1>3
  <2>5. Steps(h, K, A1, g, P) /\ Steps(g, J, B, k, P)
    BY <2>1, <2>2, <1>5, <1>14
  <2>6. Steps(h, K, A, k, P)
    BY <2>3, <2>4, <2>5, StepThen
  <2> QED BY <2>6, <2>2
<1>16. /\ b \in DOMAIN k /\ k[b].tag = t
       /\ \A f \in Names(t) \ {"tag"} : k[b][f] = IF f \in DOMAIN upd THEN upd[f] ELSE g[b][f]
  <2>1. Ownership(g, J) /\ b \in DOMAIN g
    BY <1>5, <1>6, SoundFacts DEF IsBody
  <2>2. DOMAIN upd \subseteq Names(g[b].tag) \ {"tag"}
    BY <1>8, <1>9 DEF Values
  <2>3. Sets(g, k, b, upd)
    BY <2>1, <2>2, PutsSets
  <2>4. DOMAIN k = DOMAIN g
    <3>1. k \in Seq(Cells) /\ Len(k) = Len(g)
      BY DEF Puts
    <3> QED BY <3>1, <1>8
  <2> QED BY <2>1, <2>3, <2>4, <1>8 DEF Sets
<1> QED BY <1>15, <1>16 DEF Filled

-----------------------------------------------------------------------------
\* What a cell is told from, where one list of a body follows another.
LEMMA BeforeLead ==
    ASSUME NEW h, NEW K, Sound(h, K), NEW b \in K, NEW l, NEW u, <<h[b].tag, l, u>> \in Ends,
           h[b][l] # 0, NEW q \in K \ {b}, h[q].tag = u, Whole(h[q]), Before(h, b, q)
    PROVE  Lead(h[h[b][l]]) < Lead(h[q])
<1> DEFINE x == h[b][l]
<1>1. Ownership(h, K) /\ Open(h, b) /\ K \subseteq DOMAIN h /\ Len(h) \in Nat
      /\ DOMAIN h = 1 .. Len(h)
  BY SoundFacts DEF Sound
<1>2. x \in Tips(h, b) /\ u \in Chained
  BY EndFacts DEF Tips
<1>3. h[x].tag = u /\ x \in DOMAIN h
  BY <1>1, <1>2, TipFacts DEF Open
<1>4. PICK v : <<u, Leading[u], v>> \in Slots
  BY <1>2, SlotFacts
<1>5. Lead(h[x]) = h[x][Leading[u]] /\ Lead(h[q]) = h[q][Leading[u]]
  BY <1>2, <1>3 DEF Lead
<1>6. Lead(h[q]) # 0 /\ Lead(h[x]) \in 0 .. Len(h) /\ Lead(h[q]) \in 0 .. Len(h)
  <2>1. Leading[u] \notin Optional /\ Leading[u] # "attributes"
    BY <1>2 DEF Chained, Leading, Optional
  <2>2. Lead(h[q]) # 0
    BY <2>1, <1>4, <1>5 DEF Whole
  <2> QED BY <2>2, <1>1, <1>3, HeapFacts
<1>7. h[Lead(h[q])].tag = v
  <2>1. q \in DOMAIN h
    BY <1>1
  <2> QED BY <2>1, <1>1, <1>4, <1>5, <1>6 DEF Ownership, Typed
<1>8. CASE Lead(h[x]) = 0
  BY <1>6, <1>8
<1>9. CASE Lead(h[x]) # 0
  <2>1. h[Lead(h[x])].tag = v
    BY <1>1, <1>3, <1>4, <1>5, <1>9 DEF Ownership, Typed
  <2>2. Lead(h[x]) \in Marks(h, b) /\ Lead(h[q]) \in Marks(h, q)
    BY <1>2, <1>6, <1>9 DEF Marks
  <2> QED BY <2>1, <2>2, <1>7 DEF Before
<1> QED BY <1>8, <1>9

\* Cell q goes to the end of a list of the body b.
Linked(h, K, b, f, l, q, g) ==
    /\ Steps(h, K, {b, q}, g, {b})
    /\ DOMAIN g = DOMAIN h /\ g[b].tag = h[b].tag
    /\ \A y \in Names(h[b].tag) \ {f, l} : g[b][y] = h[b][y]

LEMMA LinkStep ==
    ASSUME NEW h, NEW K, Sound(h, K), NEW b \in K, NEW f, NEW l, NEW u,
           <<h[b].tag, f, l, u>> \in Begun, NEW q, Links(h, K, b, u, q),
           h[b][f] # 0 => Lead(h[h[b][l]]) < Lead(h[q]),
           NEW g, g = Link(h, b, f, l, q)
    PROVE  Linked(h, K, b, f, l, q, g)
<1> DEFINE t == h[b].tag
<1>1. /\ Ownership(h, K) /\ Shape(h) /\ K \subseteq DOMAIN h
      /\ Len(h) \in Nat /\ DOMAIN h = 1 .. Len(h) /\ 0 \notin K /\ Open(h, b)
  BY SoundFacts DEF Sound
<1>2. /\ <<t, l, u>> \in Ends /\ <<t, f, u>> \in Slots /\ t # u /\ t \in Tags /\ u \in Chained
      /\ f # "next" /\ l \in Tails /\ l \in EndNames(t)
  BY EndFacts
<1>3. /\ f \in Names(t) \ {"tag"} /\ l \in Names(t) \ {"tag", f} /\ "next" \in Names(t) \ {"tag"}
      /\ l # "next"
  <2>1. f \notin Tails /\ "next" \notin Tails /\ "tag" \notin Tails
    BY <1>2, SlotFacts
  <2> QED BY <2>1, <1>2, SlotNames
<1>4. q \in K /\ q # b /\ q \in DOMAIN h /\ b \in DOMAIN h /\ q \in 0 .. Len(h) /\ h[q].tag = u
  BY <1>1 DEF Links
<1> HIDE DEF t
<1>5. CASE h[b][f] = 0
  <2> DEFINE upd == [y \in {f, l} |-> q]
  <2>1. g = [h EXCEPT ![b][f] = q, ![b][l] = q]
    BY <1>5 DEF Link
  <2>2. Puts(h, g, b, upd)
    <3>2. Edits(h, g, b, f, q, l, q)
      BY <2>1 DEF Edits
    <3>3. Two(upd, f, q, l, q)
      BY DEF Two
    <3>4. FieldOf(h, b, f) /\ FieldOf(h, b, l) /\ l # f
      BY <1>3, <1>4 DEF t, FieldOf
    <3> HIDE DEF upd
    <3> QED BY <3>2, <3>3, <3>4, <1>1, <1>4, PutTwoAt
  <2>3. DOMAIN upd = {f, l} /\ \A y \in {f, l} : upd[y] = q
    OBVIOUS
  <2> HIDE DEF upd
  <2>4. Step(h, K, {b, q}, g, b)
    BY <2>2, <2>3, <1>5, BeginStep
  <2>5. Steps(h, K, {b, q}, g, {b})
    BY <2>4, <1>1, OneStep
  <2>6. Sets(h, g, b, upd)
    <3>1. DOMAIN upd \subseteq Names(h[b].tag) \ {"tag"}
      BY <2>3, <1>3 DEF t
    <3> QED BY <3>1, <2>2, <1>1, <1>4, PutsSets
  <2>7. DOMAIN g = DOMAIN h
    BY <2>2, <1>1 DEF Puts
  <2> QED BY <2>3, <2>5, <2>6, <2>7 DEF Sets, Linked
<1>6. CASE h[b][f] # 0
  <2> DEFINE x == h[b][l]
             k == [h EXCEPT ![x]["next"] = q]
             upd == [y \in {"next"} |-> q]
             upd2 == [y \in {l} |-> q]
  <2>1. x # 0 /\ x \in Tips(h, b)
    BY <1>1, <1>2, <1>6 DEF Open, Tips, t
  <2>2. x \in DOMAIN h /\ h[x].tag = u /\ x # b
    <3>1. h[x].tag = u
      BY <2>1, <1>1, <1>2 DEF Open, t
    <3>2. x \in DOMAIN h
      BY <2>1, <1>1, TipFacts
    <3> QED BY <3>1, <3>2, <1>2 DEF t
  <2>3. g = [k EXCEPT ![b][l] = q]
    <3>1. g = [h EXCEPT ![x].next = q, ![b][l] = q]
      BY <1>6 DEF Link
    <3> QED BY <3>1, <2>2, <1>1, <1>4, PutNext
  <2> HIDE DEF x
  <2>4. Puts(h, k, x, upd)
    <3>1. "next" \in Names(h[x].tag) \ {"tag"}
      BY <2>2, <1>2, SlotNames, EndFacts, SlotFacts
    <3>2. FieldOf(h, x, "next") /\ One(upd, "next", q)
      BY <3>1, <2>2 DEF FieldOf, One
    <3> HIDE DEF upd
    <3> QED BY <3>2, <1>1, <1>4, PutOneAt
  <2>5. DOMAIN upd = {"next"} /\ upd["next"] = q /\ DOMAIN upd2 = {l} /\ upd2[l] = q
    OBVIOUS
  <2> HIDE DEF upd, k
  <2>6. Follows(h, K, b, l, u, q, x)
    BY <2>1, <1>2 DEF Follows, x, t
  <2>7. Chains(h, K, k, x, q)
    BY <2>4, <2>5, <2>6, ChainLink
  <2>8. /\ Shape(k) /\ DOMAIN k = DOMAIN h /\ k[b] = h[b] /\ Len(k) = Len(h)
    <3>1. Shape(k) /\ DOMAIN k = DOMAIN h /\ k[b] = h[b]
      BY <2>2, <2>7, <1>4 DEF Chains, Ownership
    <3>2. Len(k) = Len(h)
      BY <2>4 DEF Puts
    <3> QED BY <3>1, <3>2
  <2>9. Puts(k, g, b, upd2)
    <3>1. FieldOf(k, b, l) /\ q \in 0 .. Len(k)
      BY <2>8, <1>3, <1>4 DEF t, FieldOf
    <3>2. One(upd2, l, q) /\ Shape(k)
      BY <2>8 DEF One
    <3> HIDE DEF upd2
    <3> QED BY <3>1, <3>2, <2>3, PutOneAt
  <2> HIDE DEF upd2
  <2>10. Lead(h[x]) < Lead(h[q])
    BY <1>6 DEF x
  <2>11. Step(h, K, {b, q}, g, b)
    BY <2>4, <2>5, <2>6, <2>9, <2>10, ChainStep
  <2>12. Steps(h, K, {b, q}, g, {b})
    BY <2>11, <1>1, OneStep
  <2>13. Sets(k, g, b, upd2)
    <3>1. DOMAIN upd2 \subseteq Names(k[b].tag) \ {"tag"}
      BY <2>5, <2>8, <1>3 DEF t
    <3>2. Ownership(k, K \ {q}) /\ b \in DOMAIN k
      BY <2>7, <2>8, <1>4 DEF Chains
    <3> QED BY <3>1, <3>2, <2>9, PutsSets
  <2>14. DOMAIN g = DOMAIN h
    <3>1. g \in Seq(Cells) /\ Len(g) = Len(h)
      BY <2>9, <2>8 DEF Puts
    <3> QED BY <3>1, <1>1
  <2> QED BY <2>5, <2>8, <2>12, <2>13, <2>14 DEF Sets, Linked
<1> QED BY <1>5, <1>6

-----------------------------------------------------------------------------
(* The lists that know their own tail                                      *)

\* What a node of such a list is made with.
NodeGifts(h, K, t, item, upd) ==
    /\ t \in ListTags /\ item \in K /\ DOMAIN upd = {Leading[t]} /\ upd[Leading[t]] = item
    /\ \A v : <<t, Leading[t], v>> \in Slots => h[item].tag = v /\ Whole(h[item])
Noded(h, K, A, g, p, t) ==
    Steps(h, K, A, g, {p}) /\ IsWhole(g, p, t)

LEMMA NodeFacts ==
    ASSUME NEW t \in ListTags
    PROVE  /\ t \in Tags \ {"String"} /\ t \in Chained /\ Leading[t] # "next" /\ Leading[t] # "last"
           /\ Leading[t] \notin Tails /\ Leading[t] \in Fields(t)
           /\ Leading[t] # "tag" /\ t # "Expression"
           /\ \A f, u : <<t, f, u>> \in Slots => f = Leading[t] \/ f = "next"
           /\ \A f, l, u : <<t, f, l, u>> \notin Begun
           /\ <<t, Leading[t], "String">> \notin Slots
           /\ <<t, "last", t>> \in Ends /\ "last" \in Tails /\ "next" \in Optional
           /\ EndNames(t) = {"last"}
<1>1. t \in Chained /\ t \in Tags
  BY EndFacts, SlotFacts
<1>2. /\ Leading[t] # "next" /\ Leading[t] \notin Tails /\ Leading[t] \in Fields(t)
      /\ <<t, "last", t>> \in Ends /\ "last" \in Tails /\ Leading[t] # "last"
  BY <1>1, EndFacts, SlotFacts
<1>3. Leading[t] # "tag"
  BY <1>1, <1>2, SlotNames
<1>4. t # "Expression" /\ t # "String" /\ "next" \in Optional
  BY DEF ListTags, Optional
<1>5. /\ \A f, u : <<t, f, u>> \in Slots => f = Leading[t] \/ f = "next"
      /\ <<t, Leading[t], "String">> \notin Slots
  <2>1. CASE t = "AttributeList"
    BY <2>1, SlotsOf DEF Leading
  <2>2. CASE t = "ParticipantList"
    BY <2>2, SlotsOf DEF Leading
  <2>3. CASE t = "ModifierList"
    BY <2>3, SlotsOf DEF Leading
  <2>4. CASE t = "QualifiedIdentifierList"
    BY <2>4, SlotsOf DEF Leading
  <2> QED BY <2>1, <2>2, <2>3, <2>4 DEF ListTags
<1>6. ASSUME NEW f, NEW l, NEW u, <<t, f, l, u>> \in Begun PROVE FALSE
  BY <1>6, EndFacts
<1>7. EndNames(t) = {"last"}
  <2>1. \A l, u : <<t, l, u>> \in Ends => l = "last"
    BY EndFacts
  <2> QED BY <2>1, <1>1, <1>2 DEF EndNames
<1> QED BY <1>1, <1>2, <1>3, <1>4, <1>5, <1>6, <1>7

\* A node in front of which there is nothing.
NodeMade(h, K, t, item, upd, k, A, n) ==
    /\ Built(h, K, t, upd, k, A) /\ Whole(k[n]) /\ k[n].next = 0
    /\ k[n][Leading[t]] = item /\ item # 0 /\ t \in ListTags /\ item \in K
LEMMA NodeBuilt ==
    ASSUME NEW h, NEW K, Sound(h, K), NEW t, NEW item, NEW upd, NodeGifts(h, K, t, item, upd),
           NEW k, k = Append(h, New(t, upd)), NEW A, A = {item}
    PROVE  NodeMade(h, K, t, item, upd, k, A, Len(h) + 1)
<1>1. /\ Len(h) \in Nat /\ DOMAIN h = 1 .. Len(h) /\ K \subseteq DOMAIN h /\ 0 \notin K
  BY SoundFacts
<1>2. t \in ListTags /\ item \in K /\ DOMAIN upd = {Leading[t]} /\ upd[Leading[t]] = item
  BY DEF NodeGifts
<1>3. Values(h, t, upd)
  <2>1. Leading[t] \in Names(t) \ {"tag"}
    <3>1. t \in Tags /\ Leading[t] \in Fields(t)
      BY <1>2, NodeFacts
    <3> QED BY <3>1, SlotNames
  <2>2. item \in 0 .. Len(h)
    BY <1>1, <1>2
  <2> QED BY <2>1, <2>2, <1>2 DEF Values
<1>4. Gifts(t, upd) = A
  <2>1. DOMAIN upd \cap Fields(t) = {Leading[t]}
    BY <1>2, NodeFacts
  <2>2. item # 0
    BY <1>1, <1>2
  <2> QED BY <2>1, <2>2, <1>2 DEF Gifts
<1>5. Gives(h, K, t, upd)
  <2>1. ASSUME NEW f, NEW u, <<t, f, u>> \in Slots, f \in DOMAIN upd
        PROVE  h[upd[f]].tag = u /\ Whole(h[upd[f]])
    BY <2>1, <1>2 DEF NodeGifts
  <2> QED BY <2>1, <1>2, <1>3, <1>4, NodeFacts DEF Gives
<1>6. Plain(t, upd)
  BY <1>2, NodeFacts DEF Plain
<1>7. Built(h, K, t, upd, k, A)
  BY <1>2, <1>4, <1>5, <1>6, NodeFacts, BuildStep
<1>8. k[Len(h) + 1].next = 0 /\ k[Len(h) + 1][Leading[t]] = item /\ item # 0
  <2>1. "next" \in Names(t) \ {"tag"} /\ Leading[t] \in Names(t) \ {"tag"} /\ Leading[t] # "next"
    BY <1>2, NodeFacts, SlotNames
  <2> QED BY <2>1, <1>1, <1>2, <1>7 DEF Built
<1>9. Whole(k[Len(h) + 1])
  <2>1. k[Len(h) + 1].tag = t
    BY <1>7 DEF Built
  <2> QED BY <2>1, <1>2, <1>8, NodeFacts DEF Whole
<1> QED BY <1>2, <1>7, <1>8, <1>9 DEF NodeMade

\* A cell of such a list is whole when it has its item.
LEMMA NodeWhole ==
    ASSUME NEW t \in ListTags, NEW c, c.tag = t, c[Leading[t]] # 0
    PROVE  Whole(c)
BY NodeFacts DEF Whole

\* The first node of a list.
LEMMA NodeFirst ==
    ASSUME NEW h, NEW K, Sound(h, K), NEW t, NEW item, NEW upd, NodeGifts(h, K, t, item, upd),
           NEW k, k = Append(h, New(t, upd)), NEW n, n = Len(h) + 1,
           NEW g, g = [k EXCEPT ![n].last = n], NEW A, A = {item}
    PROVE  Noded(h, K, A, g, n, t)
<1>1. /\ Len(h) \in Nat /\ DOMAIN h = 1 .. Len(h) /\ K \subseteq DOMAIN h /\ n # 0 /\ n \notin K
  BY SoundFacts
<1>2. /\ Built(h, K, t, upd, k, A) /\ Whole(k[n]) /\ k[n].next = 0
      /\ k[n][Leading[t]] = item /\ item # 0 /\ t \in ListTags
  <2>1. NodeMade(h, K, t, item, upd, k, A, n)
    BY NodeBuilt
  <2> QED BY <2>1 DEF NodeMade
<1>3. PICK P : P = {n}
  OBVIOUS
<1>4. PICK J : J = (K \ A) \cup P
  OBVIOUS
<1>5. Steps(h, K, A, k, P) /\ k[n].tag = t /\ n \in DOMAIN k
  BY <1>2, <1>3 DEF Built
<1>6. Sound(k, J) /\ n \in J
  BY <1>3, <1>4, <1>5 DEF Steps
<1>7. Shape(k) /\ Len(k) \in Nat /\ DOMAIN k = 1 .. Len(k) /\ Ownership(k, J)
  BY <1>6, SoundFacts
<1>8. PICK u : One(u, "last", n)
  <2>1. One([y \in {"last"} |-> n], "last", n)
    BY DEF One
  <2> QED BY <2>1
<1>9. FieldOf(k, n, "last") /\ FieldOf(k, n, Leading[t]) /\ Leading[t] # "last"
  <2>1. t \in Tags /\ "last" \in Tails /\ Leading[t] \in Fields(t) /\ Leading[t] # "last"
    BY <1>2, NodeFacts
  <2> QED BY <2>1, <1>5, SlotNames DEF FieldOf
<1>10. Puts(k, g, n, u)
  <2>1. g = [k EXCEPT ![n]["last"] = n]
    OBVIOUS
  <2>3. n \in 0 .. Len(k)
    BY <1>5, <1>7
  <2>2. Shape(k) /\ FieldOf(k, n, "last")
    BY <1>7, <1>9
  <2> QED BY <2>1, <2>2, <2>3, <1>8, PutOneAt
<1>11. Step(k, J, P, g, n)
  <2>1. DOMAIN u = {"last"} /\ u["last"] = n
    BY <1>8 DEF One
  <2> QED BY <2>1, <1>2, <1>3, <1>5, <1>6, <1>10, TipStep
<1>12. Steps(k, J, P, g, P)
  BY <1>1, <1>3, <1>6, <1>11, OneStep
<1>13. Steps(h, K, A, g, P)
  <2>1. A = A \cup (P \ P) /\ P = (P \ P) \cup P
    OBVIOUS
  <2> QED BY <2>1, <1>4, <1>5, <1>12, StepThen
<1>14. IsWhole(g, n, t)
  <2>1. Sets(k, g, n, u)
    <3>1. DOMAIN u \subseteq Names(k[n].tag) \ {"tag"}
      BY <1>8, <1>9 DEF One, FieldOf
    <3> QED BY <3>1, <1>5, <1>7, <1>10, PutsSets
  <2>2. g[n].tag = t /\ g[n].last = n /\ g[n][Leading[t]] = item
    BY <2>1, <1>2, <1>5, <1>8, <1>9 DEF Sets, One, FieldOf
  <2>3. Whole(g[n])
    BY <2>2, <1>2, NodeWhole
  <2>4. n \in DOMAIN g
    <3>1. g \in Seq(Cells) /\ Len(g) = Len(k)
      BY <1>10 DEF Puts
    <3> QED BY <3>1, <1>5, <1>7
  <2> QED BY <2>2, <2>3, <2>4, <1>1 DEF IsWhole
<1> QED BY <1>3, <1>13, <1>14 DEF Noded

\* One more.
LEMMA NodeNext ==
    ASSUME NEW h, NEW K, Sound(h, K), NEW t, NEW item, NEW upd, NodeGifts(h, K, t, item, upd),
           NEW p, p \in K \ {item}, IsWhole(h, p, t), Before(h, p, item),
           NEW k, k = Append(h, New(t, upd)), NEW n, n = Len(h) + 1,
           NEW g, g = [k EXCEPT ![k[p].last].next = n, ![p].last = n], NEW A, A = {p, item}
    PROVE  Noded(h, K, A, g, p, t)
<1>1. /\ Len(h) \in Nat /\ DOMAIN h = 1 .. Len(h) /\ K \subseteq DOMAIN h /\ n # 0 /\ n \notin DOMAIN h
      /\ 0 \notin K /\ Ownership(h, K) /\ p \in DOMAIN h /\ Open(h, p)
  BY SoundFacts DEF Sound
<1>2. PICK B : B = {item}
  OBVIOUS
<1>3. /\ Built(h, K, t, upd, k, B) /\ Whole(k[n]) /\ k[n].next = 0
      /\ k[n][Leading[t]] = item /\ item # 0 /\ t \in ListTags /\ item \in K
  <2>1. NodeMade(h, K, t, item, upd, k, B, n)
    BY <1>2, NodeBuilt
  <2> QED BY <2>1 DEF NodeMade
<1>4. PICK P : P = {n}
  OBVIOUS
<1>5. PICK J : J = (K \ B) \cup P
  OBVIOUS
<1>6. /\ Steps(h, K, B, k, P) /\ k[n].tag = t /\ n \in DOMAIN k
      /\ DOMAIN h \subseteq DOMAIN k /\ \A e \in DOMAIN h : k[e] = h[e]
  BY <1>3, <1>4 DEF Built
<1>7. Sound(k, J) /\ n \in J /\ p \in J /\ p # n
  BY <1>1, <1>2, <1>4, <1>5, <1>6 DEF Steps
<1>8. Shape(k) /\ Len(k) \in Nat /\ DOMAIN k = 1 .. Len(k) /\ Ownership(k, J) /\ Open(k, p)
  BY <1>7, SoundFacts DEF Sound
<1>9. h[p].tag = t /\ h[p].last # 0 /\ h[p][Leading[t]] # 0
  <2>1. <<t, Leading[t], t>> \notin {} /\ t \in Chained
    BY <1>3, NodeFacts
  <2>2. PICK v : <<t, Leading[t], v>> \in Slots
    BY <2>1, SlotFacts
  <2>3. Leading[t] \notin Optional
    BY <2>1 DEF Chained, Leading, Optional
  <2> QED BY <2>2, <2>3, <1>3 DEF IsWhole, Whole, ListTags
<1>10. PICK x : x = k[p].last
  OBVIOUS
<1>11. x = h[p].last /\ x \in Tips(h, p) /\ x \in DOMAIN h /\ h[x].tag = t /\ k[x] = h[x] /\ x # 0
  <2>1. x = h[p].last
    BY <1>1, <1>6, <1>10
  <2>2. "last" \in EndNames(t) /\ <<t, "last", t>> \in Ends
    BY <1>3, NodeFacts
  <2>3. x \in Tips(h, p)
    BY <2>1, <2>2, <1>9 DEF Tips
  <2>4. h[x].tag = t
    BY <2>1, <2>2, <1>1, <1>9 DEF Open
  <2>5. x \in DOMAIN h
    BY <2>3, <1>1, TipFacts
  <2> QED BY <2>1, <2>3, <2>4, <2>5, <1>6, <1>9
<1>12. Lead(k[x]) < Lead(k[n])
  <2>1. PICK v : <<t, Leading[t], v>> \in Slots /\ v # "String"
    <3>1. t \in Chained /\ <<t, Leading[t], "String">> \notin Slots
      BY <1>3, NodeFacts
    <3> QED BY <3>1, SlotFacts
  <2>2. Lead(k[x]) = h[x][Leading[t]] /\ Lead(k[n]) = item /\ Lead(h[x]) = h[x][Leading[t]]
    BY <1>3, <1>6, <1>11, NodeFacts DEF Lead
  <2>3. h[item].tag = v
    BY <2>1 DEF NodeGifts
  <2>4. Lead(h[x]) \in Nat /\ item \in Nat
    BY <1>1, <1>3, <1>11, HeapFacts
  <2>5. CASE Lead(h[x]) = 0
    BY <2>2, <2>4, <2>5, <1>3
  <2>6. CASE Lead(h[x]) # 0
    <3>1. h[Lead(h[x])].tag = v
      BY <2>1, <2>2, <2>6, <1>1, <1>11 DEF Ownership, Typed
    <3>2. Lead(h[x]) \in Marks(h, p) /\ item \in Marks(h, item)
      BY <2>6, <1>3, <1>11 DEF Marks
    <3>3. Lead(h[x]) < item
      BY <3>1, <3>2, <2>1, <2>3 DEF Before
    <3> QED BY <3>3, <2>2
  <2> QED BY <2>5, <2>6
<1>13. PICK u : One(u, "next", n)
  <2>1. One([y \in {"next"} |-> n], "next", n)
    BY DEF One
  <2> QED BY <2>1
<1>14. PICK w : One(w, "last", n)
  <2>1. One([y \in {"last"} |-> n], "last", n)
    BY DEF One
  <2> QED BY <2>1
<1>15. PICK m : m = [k EXCEPT ![x]["next"] = n]
  OBVIOUS
<1>16. g = [m EXCEPT ![p]["last"] = n]
  <2>1. x \in DOMAIN k /\ p \in DOMAIN k
    BY <1>1, <1>6, <1>11
  <2>2. g = [k EXCEPT ![x].next = n, ![p]["last"] = n]
    BY <1>10
  <2> QED BY <2>1, <2>2, <1>8, <1>15, PutNext
<1>17. t \in Tags /\ {"next", "last", Leading[t]} \subseteq Names(t) \ {"tag"}
       /\ Leading[t] # "next" /\ Leading[t] # "last"
  <2>1. t \in Tags /\ "last" \in Tails /\ Leading[t] \in Fields(t) /\ Leading[t] # "last"
        /\ Leading[t] # "next"
    BY <1>3, NodeFacts
  <2> QED BY <2>1, SlotNames
<1>18. Puts(k, m, x, u)
  <2>1. FieldOf(k, x, "next") /\ n \in 0 .. Len(k)
    BY <1>6, <1>8, <1>11, <1>17 DEF FieldOf
  <2> QED BY <2>1, <1>8, <1>13, <1>15, PutOneAt
<1>19. Links(k, J, p, t, n)
  BY <1>3, <1>6, <1>7 DEF Links
<1>20. Follows(k, J, p, "last", t, n, x)
  <2>1. <<k[p].tag, "last", t>> \in Ends
    BY <1>1, <1>3, <1>6, <1>9, NodeFacts
  <2> QED BY <2>1, <1>7, <1>10, <1>11, <1>19 DEF Follows
<1>21. Chains(k, J, m, x, n)
  BY <1>7, <1>13, <1>18, <1>20, ChainLink DEF One
<1>22. Shape(m) /\ DOMAIN m = DOMAIN k /\ m[p].tag = t /\ Len(m) = Len(k) /\ Ownership(m, J \ {n})
       /\ m[p][Leading[t]] # 0
  <2>1. Values(k, k[x].tag, u)
    BY <1>6, <1>8, <1>11, <1>13, <1>17 DEF Values, One
  <2>2. Shape(m) /\ DOMAIN m = DOMAIN k /\ Len(m) = Len(k)
    BY <2>1, <1>8, <1>18, PutsShape
  <2>3. p \in DOMAIN k /\ k[p] = h[p]
    BY <1>1, <1>6
  <2>4. Leading[t] \in Fields(k[p].tag)
    BY <2>3, <1>3, <1>9, NodeFacts
  <2> QED BY <2>2, <2>3, <2>4, <1>9, <1>17, <1>21 DEF Chains
<1>23. Puts(m, g, p, w)
  <2>1. FieldOf(m, p, "last") /\ n \in 0 .. Len(m)
    BY <1>1, <1>6, <1>8, <1>17, <1>22 DEF FieldOf
  <2>2. Shape(m)
    BY <1>22
  <2> QED BY <2>1, <2>2, <1>14, <1>16, PutOneAt
<1>24. PICK C : C = {p, n}
  OBVIOUS
<1>25. Step(k, J, C, g, p)
  <2>1. DOMAIN u = {"next"} /\ u["next"] = n /\ DOMAIN w = {"last"} /\ w["last"] = n
    BY <1>13, <1>14 DEF One
  <2> QED BY <2>1, <1>7, <1>12, <1>18, <1>20, <1>23, <1>24, ChainStep
<1>26. PICK Q : Q = {p}
  OBVIOUS
<1>27. Steps(k, J, C, g, Q)
  <2>1. p # 0
    BY <1>1
  <2> QED BY <2>1, <1>7, <1>25, <1>26, OneStep
<1>28. Steps(h, K, A, g, Q)
  <2>1. A = B \cup (C \ P) /\ Q = (P \ C) \cup Q
    BY <1>2, <1>4, <1>7, <1>24, <1>26
  <2>2. Steps(h, K, B, k, P)
    BY <1>6
  <2> QED BY <2>1, <2>2, <1>5, <1>27, StepThen
<1>29. IsWhole(g, p, t)
  <2>1. Sets(m, g, p, w)
    <3>1. DOMAIN w \subseteq Names(m[p].tag) \ {"tag"} /\ p \in DOMAIN m
      BY <1>1, <1>6, <1>14, <1>17, <1>22 DEF One
    <3> QED BY <3>1, <1>22, <1>23, PutsSets
  <2>2. g[p].tag = t /\ g[p].last = n /\ g[p][Leading[t]] # 0
    BY <2>1, <1>14, <1>17, <1>22 DEF Sets, One
  <2>3. Whole(g[p])
    BY <2>2, <1>3, NodeWhole
  <2>4. p \in DOMAIN g
    <3>1. g \in Seq(Cells) /\ Len(g) = Len(m) /\ p \in DOMAIN m
      BY <1>23 DEF Puts
    <3> QED BY <3>1, <1>8, <1>22
  <2> QED BY <2>2, <2>3, <2>4, <1>1 DEF IsWhole
<1> QED BY <1>26, <1>28, <1>29 DEF Noded

-----------------------------------------------------------------------------
(* The grammar                                                             *)

HeadNames == {"accept", "program", "schema_decl", "schema_body", "entity_decl",
              "entity_body", "attribute_decl", "modifier_list", "modifier", "primary_decl",
              "qualified_identifier_list", "qualified_identifier", "assert_decl",
              "relationship_decl", "relationship_participant_list",
              "relationship_participant", "participation_opt", "relationship_body",
              "attribute_list", "type_spec", "expression", "literal"}

\* What a phrase may begin with, besides itself.
Fronts == {<<"accept", "program">>, <<"accept", "schema_decl">>, <<"program", "schema_decl">>,
           <<"qualified_identifier_list", "qualified_identifier">>,
           <<"relationship_participant_list", "relationship_participant">>,
           <<"attribute_list", "attribute_decl">>, <<"expression", "literal">>}

\* The cell that the value of a symbol points to; the other symbols have none.
Kind == [program |-> "Program", schema_decl |-> "Schema", schema_body |-> "Schema",
         entity_decl |-> "Entity", entity_body |-> "Entity", attribute_decl |-> "Attribute",
         modifier_list |-> "ModifierList", modifier |-> "Modifier",
         primary_decl |-> "PrimaryKey",
         qualified_identifier_list |-> "QualifiedIdentifierList",
         qualified_identifier |-> "QualifiedIdentifier", assert_decl |-> "Assertion",
         relationship_decl |-> "Relationship",
         relationship_participant_list |-> "ParticipantList",
         relationship_participant |-> "Participant", participation_opt |-> "Participation",
         relationship_body |-> "Relationship", attribute_list |-> "AttributeList",
         type_spec |-> "Type", expression |-> "Expression", literal |-> "Literal",
         IDENTIFIER |-> "String", LIT_STRING |-> "String"]
May == {"schema_body", "entity_body", "modifier_list", "participation_opt", "relationship_body"}
Bodies == {"schema_body", "entity_body", "relationship_body"}

\* The symbols whose values an action takes, and the one it is a value for.
Operands == [SchemaProgram |-> <<"schema_decl">>,
             Schema |-> <<"IDENTIFIER", "schema_body">>,
             AppendEntitySchemaBody |-> <<"schema_body", "entity_decl">>,
             AppendRelationshipSchemaBody |-> <<"schema_body", "relationship_decl">>,
             Entity |-> <<"IDENTIFIER", "IDENTIFIER", "entity_body">>,
             AppendAttributeEntityBody |-> <<"entity_body", "attribute_decl">>,
             SetPrimaryKeyEntityBody |-> <<"entity_body", "primary_decl">>,
             AppendAssertionEntityBody |-> <<"entity_body", "assert_decl">>,
             Attribute |-> <<"IDENTIFIER", "type_spec", "modifier_list">>,
             AppendModifier |-> <<"modifier_list", "modifier">>, Modifier |-> <<>>,
             ModifierDefault |-> <<"literal">>,
             PrimaryKey |-> <<"qualified_identifier_list">>,
             QualifiedIdentifierList |-> <<"qualified_identifier">>,
             AppendQualifiedIdentifierList |-> <<"qualified_identifier_list", "qualified_identifier">>,
             CreateQualifiedIdentifier |-> <<"IDENTIFIER", "IDENTIFIER">>,
             Assertion |-> <<"expression">>,
             Relationship |-> <<"IDENTIFIER", "relationship_participant_list", "relationship_body">>,
             ParticipantList |-> <<"relationship_participant">>,
             AppendParticipantList |-> <<"relationship_participant_list", "relationship_participant">>,
             Participant |-> <<"IDENTIFIER", "participation_opt">>, Participation |-> <<>>,
             RelationshipBody |-> <<"attribute_list">>,
             AttributeList |-> <<"attribute_decl">>,
             AppendAttributeList |-> <<"attribute_list", "attribute_decl">>, Type |-> <<>>,
             LiteralExpression |-> <<"literal">>, IdentifierExpression |-> <<"IDENTIFIER">>,
             ArithmeticExpression |-> <<"expression", "expression">>, Literal |-> <<>>,
             StringLiteral |-> <<"LIT_STRING">>]
Results == [SchemaProgram |-> "program", Schema |-> "schema_decl",
            AppendEntitySchemaBody |-> "schema_body",
            AppendRelationshipSchemaBody |-> "schema_body", Entity |-> "entity_decl",
            AppendAttributeEntityBody |-> "entity_body",
            SetPrimaryKeyEntityBody |-> "entity_body",
            AppendAssertionEntityBody |-> "entity_body", Attribute |-> "attribute_decl",
            AppendModifier |-> "modifier_list", Modifier |-> "modifier",
            ModifierDefault |-> "modifier", PrimaryKey |-> "primary_decl",
            QualifiedIdentifierList |-> "qualified_identifier_list",
            AppendQualifiedIdentifierList |-> "qualified_identifier_list",
            CreateQualifiedIdentifier |-> "qualified_identifier",
            Assertion |-> "assert_decl", Relationship |-> "relationship_decl",
            ParticipantList |-> "relationship_participant_list",
            AppendParticipantList |-> "relationship_participant_list",
            Participant |-> "relationship_participant",
            Participation |-> "participation_opt", RelationshipBody |-> "relationship_body",
            AttributeList |-> "attribute_list", AppendAttributeList |-> "attribute_list",
            Type |-> "type_spec", LiteralExpression |-> "expression",
            IdentifierExpression |-> "expression", ArithmeticExpression |-> "expression",
            Literal |-> "literal", StringLiteral |-> "literal"]

RuleOK(r) ==
    LET rhs == Rules[r].rhs
        lhs == Rules[r].lhs
    IN  /\ Len(rhs) \in Nat /\ DOMAIN rhs = 1 .. Len(rhs) /\ (rhs # <<>> <=> Len(rhs) > 0)
        /\ lhs \in HeadNames
        /\ rhs # <<>> /\ rhs[1] \in HeadNames => rhs[1] = lhs \/ <<lhs, rhs[1]>> \in Fronts
        /\ \A i \in 1 .. Len(rhs) :
              rhs[i] \notin {"accept", "none"} /\ (rhs[i] = "program" => r = 1 /\ i = 1)
RuleArgs(r) ==
    LET rhs == Rules[r].rhs
        lhs == Rules[r].lhs
        args == Rules[r].args
        a == Rules[r].action
    IN  \/ a = "Empty" /\ lhs \in May /\ Len(rhs) = 0
        \/ /\ a \in DOMAIN Operands /\ lhs = Results[a] /\ DOMAIN args = DOMAIN Operands[a]
           /\ \A k \in DOMAIN args :
                 \/ args[k] \in 1 .. Len(rhs) /\ rhs[args[k]] = Operands[a][k]
                 \/ args[k] = 0 /\ <<a, k>> \in {<<"Entity", 2>>, <<"CreateQualifiedIdentifier", 1>>}
           /\ \A k, j \in DOMAIN args : k < j /\ args[j] # 0 => args[k] < args[j]
           /\ \A i \in 1 .. Len(rhs) : rhs[i] \in DOMAIN Kind => \E k \in DOMAIN args : args[k] = i

LEMMA RulesNumbered == DOMAIN Rules = 1 .. 45
BY DEF Rules, R

LEMMA RulesOK ==
    ASSUME NEW r \in 1 .. 45
    PROVE  RuleOK(r)
<1>1. RuleOK(1)
  <2>1. Rules[1].lhs = "accept" /\ Rules[1].rhs = <<"program", "END">>
    BY DEF Rules, R
  <2> QED BY <2>1 DEF RuleOK, HeadNames, Fronts
<1>2. RuleOK(2)
  <2>1. Rules[2].lhs = "program" /\ Rules[2].rhs = <<"schema_decl">>
    BY DEF Rules, R
  <2> QED BY <2>1 DEF RuleOK, HeadNames, Fronts
<1>3. RuleOK(3)
  <2>1. Rules[3].lhs = "schema_decl" /\ Rules[3].rhs = <<"SCHEMA", "IDENTIFIER", "schema_body">>
    BY DEF Rules, R
  <2> QED BY <2>1 DEF RuleOK, HeadNames, Fronts
<1>4. RuleOK(4)
  <2>1. Rules[4].lhs = "schema_body" /\ Rules[4].rhs = <<>>
    BY DEF Rules, R
  <2> QED BY <2>1 DEF RuleOK, HeadNames, Fronts
<1>5. RuleOK(5)
  <2>1. Rules[5].lhs = "schema_body" /\ Rules[5].rhs = <<"schema_body", "entity_decl">>
    BY DEF Rules, R
  <2> QED BY <2>1 DEF RuleOK, HeadNames, Fronts
<1>6. RuleOK(6)
  <2>1. Rules[6].lhs = "schema_body" /\ Rules[6].rhs = <<"schema_body", "relationship_decl">>
    BY DEF Rules, R
  <2> QED BY <2>1 DEF RuleOK, HeadNames, Fronts
<1>7. RuleOK(7)
  <2>1. Rules[7].lhs = "entity_decl" /\ Rules[7].rhs = <<"ENTITY", "IDENTIFIER", "OPEN_BRACE", "entity_body", "CLOSE_BRACE">>
    BY DEF Rules, R
  <2> QED BY <2>1 DEF RuleOK, HeadNames, Fronts
<1>8. RuleOK(8)
  <2>1. Rules[8].lhs = "entity_decl" /\ Rules[8].rhs = <<"ENTITY", "IDENTIFIER", "COLON", "IDENTIFIER", "OPEN_BRACE", "entity_body", "CLOSE_BRACE">>
    BY DEF Rules, R
  <2> QED BY <2>1 DEF RuleOK, HeadNames, Fronts
<1>9. RuleOK(9)
  <2>1. Rules[9].lhs = "entity_decl" /\ Rules[9].rhs = <<"WEAK", "ENTITY", "IDENTIFIER", "OPEN_BRACE", "entity_body", "CLOSE_BRACE">>
    BY DEF Rules, R
  <2> QED BY <2>1 DEF RuleOK, HeadNames, Fronts
<1>10. RuleOK(10)
  <2>1. Rules[10].lhs = "entity_decl" /\ Rules[10].rhs = <<"WEAK", "ENTITY", "IDENTIFIER", "COLON", "IDENTIFIER", "OPEN_BRACE", "entity_body", "CLOSE_BRACE">>
    BY DEF Rules, R
  <2> QED BY <2>1 DEF RuleOK, HeadNames, Fronts
<1>11. RuleOK(11)
  <2>1. Rules[11].lhs = "entity_body" /\ Rules[11].rhs = <<>>
    BY DEF Rules, R
  <2> QED BY <2>1 DEF RuleOK, HeadNames, Fronts
<1>12. RuleOK(12)
  <2>1. Rules[12].lhs = "entity_body" /\ Rules[12].rhs = <<"entity_body", "attribute_decl">>
    BY DEF Rules, R
  <2> QED BY <2>1 DEF RuleOK, HeadNames, Fronts
<1>13. RuleOK(13)
  <2>1. Rules[13].lhs = "entity_body" /\ Rules[13].rhs = <<"entity_body", "primary_decl">>
    BY DEF Rules, R
  <2> QED BY <2>1 DEF RuleOK, HeadNames, Fronts
<1>14. RuleOK(14)
  <2>1. Rules[14].lhs = "entity_body" /\ Rules[14].rhs = <<"entity_body", "assert_decl">>
    BY DEF Rules, R
  <2> QED BY <2>1 DEF RuleOK, HeadNames, Fronts
<1>15. RuleOK(15)
  <2>1. Rules[15].lhs = "attribute_decl" /\ Rules[15].rhs = <<"IDENTIFIER", "COLON", "type_spec", "modifier_list">>
    BY DEF Rules, R
  <2> QED BY <2>1 DEF RuleOK, HeadNames, Fronts
<1>16. RuleOK(16)
  <2>1. Rules[16].lhs = "modifier_list" /\ Rules[16].rhs = <<>>
    BY DEF Rules, R
  <2> QED BY <2>1 DEF RuleOK, HeadNames, Fronts
<1>17. RuleOK(17)
  <2>1. Rules[17].lhs = "modifier_list" /\ Rules[17].rhs = <<"modifier_list", "modifier">>
    BY DEF Rules, R
  <2> QED BY <2>1 DEF RuleOK, HeadNames, Fronts
<1>18. RuleOK(18)
  <2>1. Rules[18].lhs = "modifier" /\ Rules[18].rhs = <<"MODIFIER">>
    BY DEF Rules, R
  <2> QED BY <2>1 DEF RuleOK, HeadNames, Fronts
<1>19. RuleOK(19)
  <2>1. Rules[19].lhs = "modifier" /\ Rules[19].rhs = <<"NOT", "NULL_TOK">>
    BY DEF Rules, R
  <2> QED BY <2>1 DEF RuleOK, HeadNames, Fronts
<1>20. RuleOK(20)
  <2>1. Rules[20].lhs = "modifier" /\ Rules[20].rhs = <<"DEFAULT", "literal">>
    BY DEF Rules, R
  <2> QED BY <2>1 DEF RuleOK, HeadNames, Fronts
<1>21. RuleOK(21)
  <2>1. Rules[21].lhs = "primary_decl" /\ Rules[21].rhs = <<"PRIMARY_COMPOSITE", "OPEN_PAREN", "qualified_identifier_list", "CLOSE_PAREN">>
    BY DEF Rules, R
  <2> QED BY <2>1 DEF RuleOK, HeadNames, Fronts
<1>22. RuleOK(22)
  <2>1. Rules[22].lhs = "qualified_identifier_list" /\ Rules[22].rhs = <<"qualified_identifier">>
    BY DEF Rules, R
  <2> QED BY <2>1 DEF RuleOK, HeadNames, Fronts
<1>23. RuleOK(23)
  <2>1. Rules[23].lhs = "qualified_identifier_list" /\ Rules[23].rhs = <<"qualified_identifier_list", "COMMA", "qualified_identifier">>
    BY DEF Rules, R
  <2> QED BY <2>1 DEF RuleOK, HeadNames, Fronts
<1>24. RuleOK(24)
  <2>1. Rules[24].lhs = "qualified_identifier" /\ Rules[24].rhs = <<"IDENTIFIER">>
    BY DEF Rules, R
  <2> QED BY <2>1 DEF RuleOK, HeadNames, Fronts
<1>25. RuleOK(25)
  <2>1. Rules[25].lhs = "qualified_identifier" /\ Rules[25].rhs = <<"IDENTIFIER", "COLON", "IDENTIFIER">>
    BY DEF Rules, R
  <2> QED BY <2>1 DEF RuleOK, HeadNames, Fronts
<1>26. RuleOK(26)
  <2>1. Rules[26].lhs = "assert_decl" /\ Rules[26].rhs = <<"ASSERT", "expression">>
    BY DEF Rules, R
  <2> QED BY <2>1 DEF RuleOK, HeadNames, Fronts
<1>27. RuleOK(27)
  <2>1. Rules[27].lhs = "relationship_decl" /\ Rules[27].rhs = <<"RELATIONSHIP", "IDENTIFIER", "OPEN_PAREN", "relationship_participant_list", "CLOSE_PAREN", "relationship_body">>
    BY DEF Rules, R
  <2> QED BY <2>1 DEF RuleOK, HeadNames, Fronts
<1>28. RuleOK(28)
  <2>1. Rules[28].lhs = "relationship_participant_list" /\ Rules[28].rhs = <<"relationship_participant">>
    BY DEF Rules, R
  <2> QED BY <2>1 DEF RuleOK, HeadNames, Fronts
<1>29. RuleOK(29)
  <2>1. Rules[29].lhs = "relationship_participant_list" /\ Rules[29].rhs = <<"relationship_participant_list", "COMMA", "relationship_participant">>
    BY DEF Rules, R
  <2> QED BY <2>1 DEF RuleOK, HeadNames, Fronts
<1>30. RuleOK(30)
  <2>1. Rules[30].lhs = "relationship_participant" /\ Rules[30].rhs = <<"IDENTIFIER", "participation_opt">>
    BY DEF Rules, R
  <2> QED BY <2>1 DEF RuleOK, HeadNames, Fronts
<1>31. RuleOK(31)
  <2>1. Rules[31].lhs = "relationship_participant" /\ Rules[31].rhs = <<"IDENTIFIER", "TOK_ONE", "participation_opt">>
    BY DEF Rules, R
  <2> QED BY <2>1 DEF RuleOK, HeadNames, Fronts
<1>32. RuleOK(32)
  <2>1. Rules[32].lhs = "participation_opt" /\ Rules[32].rhs = <<>>
    BY DEF Rules, R
  <2> QED BY <2>1 DEF RuleOK, HeadNames, Fronts
<1>33. RuleOK(33)
  <2>1. Rules[33].lhs = "participation_opt" /\ Rules[33].rhs = <<"TOTAL">>
    BY DEF Rules, R
  <2> QED BY <2>1 DEF RuleOK, HeadNames, Fronts
<1>34. RuleOK(34)
  <2>1. Rules[34].lhs = "relationship_body" /\ Rules[34].rhs = <<>>
    BY DEF Rules, R
  <2> QED BY <2>1 DEF RuleOK, HeadNames, Fronts
<1>35. RuleOK(35)
  <2>1. Rules[35].lhs = "relationship_body" /\ Rules[35].rhs = <<"OPEN_BRACE", "attribute_list", "CLOSE_BRACE">>
    BY DEF Rules, R
  <2> QED BY <2>1 DEF RuleOK, HeadNames, Fronts
<1>36. RuleOK(36)
  <2>1. Rules[36].lhs = "attribute_list" /\ Rules[36].rhs = <<"attribute_decl">>
    BY DEF Rules, R
  <2> QED BY <2>1 DEF RuleOK, HeadNames, Fronts
<1>37. RuleOK(37)
  <2>1. Rules[37].lhs = "attribute_list" /\ Rules[37].rhs = <<"attribute_list", "attribute_decl">>
    BY DEF Rules, R
  <2> QED BY <2>1 DEF RuleOK, HeadNames, Fronts
<1>38. RuleOK(38)
  <2>1. Rules[38].lhs = "type_spec" /\ Rules[38].rhs = <<"ENUM">>
    BY DEF Rules, R
  <2> QED BY <2>1 DEF RuleOK, HeadNames, Fronts
<1>39. RuleOK(39)
  <2>1. Rules[39].lhs = "type_spec" /\ Rules[39].rhs = <<"TYPE">>
    BY DEF Rules, R
  <2> QED BY <2>1 DEF RuleOK, HeadNames, Fronts
<1>40. RuleOK(40)
  <2>1. Rules[40].lhs = "type_spec" /\ Rules[40].rhs = <<"TYPE", "OPEN_BRACKET", "CLOSE_BRACKET">>
    BY DEF Rules, R
  <2> QED BY <2>1 DEF RuleOK, HeadNames, Fronts
<1>41. RuleOK(41)
  <2>1. Rules[41].lhs = "expression" /\ Rules[41].rhs = <<"literal">>
    BY DEF Rules, R
  <2> QED BY <2>1 DEF RuleOK, HeadNames, Fronts
<1>42. RuleOK(42)
  <2>1. Rules[42].lhs = "expression" /\ Rules[42].rhs = <<"IDENTIFIER">>
    BY DEF Rules, R
  <2> QED BY <2>1 DEF RuleOK, HeadNames, Fronts
<1>43. RuleOK(43)
  <2>1. Rules[43].lhs = "expression" /\ Rules[43].rhs = <<"expression", "OP_MUL", "expression">>
    BY DEF Rules, R
  <2> QED BY <2>1 DEF RuleOK, HeadNames, Fronts
<1>44. RuleOK(44)
  <2>1. Rules[44].lhs = "literal" /\ Rules[44].rhs = <<"LIT_INTEGER">>
    BY DEF Rules, R
  <2> QED BY <2>1 DEF RuleOK, HeadNames, Fronts
<1>45. RuleOK(45)
  <2>1. Rules[45].lhs = "literal" /\ Rules[45].rhs = <<"LIT_STRING">>
    BY DEF Rules, R
  <2> QED BY <2>1 DEF RuleOK, HeadNames, Fronts
<1>46. r = 1 \/ r = 2 \/ r = 3 \/ r = 4 \/ r = 5 \/ r = 6 \/ r = 7 \/ r = 8 \/ r = 9 \/
       r = 10 \/ r = 11 \/ r = 12 \/ r = 13 \/ r = 14 \/ r = 15 \/ r = 16 \/ r = 17 \/
       r = 18 \/ r = 19 \/ r = 20 \/ r = 21 \/ r = 22 \/ r = 23 \/ r = 24 \/ r = 25 \/
       r = 26 \/ r = 27 \/ r = 28 \/ r = 29 \/ r = 30 \/ r = 31 \/ r = 32 \/ r = 33 \/
       r = 34 \/ r = 35 \/ r = 36 \/ r = 37 \/ r = 38 \/ r = 39 \/ r = 40 \/ r = 41 \/
       r = 42 \/ r = 43 \/ r = 44 \/ r = 45
  OBVIOUS
<1> QED
  BY <1>1, <1>2, <1>3, <1>4, <1>5, <1>6, <1>7, <1>8, <1>9, <1>10, <1>11, <1>12, <1>13,
     <1>14, <1>15, <1>16, <1>17, <1>18, <1>19, <1>20, <1>21, <1>22, <1>23, <1>24,
     <1>25, <1>26, <1>27, <1>28, <1>29, <1>30, <1>31, <1>32, <1>33, <1>34, <1>35,
     <1>36, <1>37, <1>38, <1>39, <1>40, <1>41, <1>42, <1>43, <1>44, <1>45, <1>46

LEMMA RulesArgs ==
    ASSUME NEW r \in 2 .. 45
    PROVE  RuleArgs(r)
<1>2. RuleArgs(2)
  <2>1. /\ Rules[2].action = "SchemaProgram" /\ Rules[2].lhs = "program"
        /\ Len(Rules[2].rhs) = 1 /\ DOMAIN Rules[2].args = 1 .. 1 /\ Rules[2].args[1] = 1
        /\ Rules[2].rhs[1] = "schema_decl"
    BY DEF Rules, R
  <2>2. /\ "SchemaProgram" \in DOMAIN Operands /\ Results["SchemaProgram"] = "program"
        /\ DOMAIN Operands["SchemaProgram"] = 1 .. 1
        /\ Operands["SchemaProgram"][1] = "schema_decl"
    BY DEF Operands, Results
  <2> QED BY <2>1, <2>2 DEF RuleArgs
<1>3. RuleArgs(3)
  <2>1. /\ Rules[3].action = "Schema" /\ Rules[3].lhs = "schema_decl"
        /\ Len(Rules[3].rhs) = 3 /\ DOMAIN Rules[3].args = 1 .. 2 /\ Rules[3].args[1] = 2
        /\ Rules[3].args[2] = 3 /\ Rules[3].rhs[2] = "IDENTIFIER"
        /\ Rules[3].rhs[3] = "schema_body"
    BY DEF Rules, R
  <2>3. Rules[3].rhs[1] \notin DOMAIN Kind
    BY DEF Rules, R, Kind
  <2>2. /\ "Schema" \in DOMAIN Operands /\ Results["Schema"] = "schema_decl"
        /\ DOMAIN Operands["Schema"] = 1 .. 2 /\ Operands["Schema"][1] = "IDENTIFIER"
        /\ Operands["Schema"][2] = "schema_body"
    BY DEF Operands, Results
  <2> QED BY <2>1, <2>2, <2>3 DEF RuleArgs
<1>4. RuleArgs(4)
  BY DEF RuleArgs, Rules, R, May
<1>5. RuleArgs(5)
  <2>1. /\ Rules[5].action = "AppendEntitySchemaBody" /\ Rules[5].lhs = "schema_body"
        /\ Len(Rules[5].rhs) = 2 /\ DOMAIN Rules[5].args = 1 .. 2 /\ Rules[5].args[1] = 1
        /\ Rules[5].args[2] = 2 /\ Rules[5].rhs[1] = "schema_body"
        /\ Rules[5].rhs[2] = "entity_decl"
    BY DEF Rules, R
  <2>2. /\ "AppendEntitySchemaBody" \in DOMAIN Operands
        /\ Results["AppendEntitySchemaBody"] = "schema_body"
        /\ DOMAIN Operands["AppendEntitySchemaBody"] = 1 .. 2
        /\ Operands["AppendEntitySchemaBody"][1] = "schema_body"
        /\ Operands["AppendEntitySchemaBody"][2] = "entity_decl"
    BY DEF Operands, Results
  <2> QED BY <2>1, <2>2 DEF RuleArgs
<1>6. RuleArgs(6)
  <2>1. /\ Rules[6].action = "AppendRelationshipSchemaBody"
        /\ Rules[6].lhs = "schema_body" /\ Len(Rules[6].rhs) = 2
        /\ DOMAIN Rules[6].args = 1 .. 2 /\ Rules[6].args[1] = 1 /\ Rules[6].args[2] = 2
        /\ Rules[6].rhs[1] = "schema_body" /\ Rules[6].rhs[2] = "relationship_decl"
    BY DEF Rules, R
  <2>2. /\ "AppendRelationshipSchemaBody" \in DOMAIN Operands
        /\ Results["AppendRelationshipSchemaBody"] = "schema_body"
        /\ DOMAIN Operands["AppendRelationshipSchemaBody"] = 1 .. 2
        /\ Operands["AppendRelationshipSchemaBody"][1] = "schema_body"
        /\ Operands["AppendRelationshipSchemaBody"][2] = "relationship_decl"
    BY DEF Operands, Results
  <2> QED BY <2>1, <2>2 DEF RuleArgs
<1>7. RuleArgs(7)
  <2>1. /\ Rules[7].action = "Entity" /\ Rules[7].lhs = "entity_decl"
        /\ Len(Rules[7].rhs) = 5 /\ DOMAIN Rules[7].args = 1 .. 3 /\ Rules[7].args[1] = 2
        /\ Rules[7].args[2] = 0 /\ Rules[7].args[3] = 4 /\ Rules[7].rhs[2] = "IDENTIFIER"
        /\ Rules[7].rhs[4] = "entity_body"
    BY DEF Rules, R
  <2>3. Rules[7].rhs[1] \notin DOMAIN Kind /\ Rules[7].rhs[3] \notin DOMAIN Kind
        /\ Rules[7].rhs[5] \notin DOMAIN Kind
    BY DEF Rules, R, Kind
  <2>2. /\ "Entity" \in DOMAIN Operands /\ Results["Entity"] = "entity_decl"
        /\ DOMAIN Operands["Entity"] = 1 .. 3 /\ Operands["Entity"][1] = "IDENTIFIER"
        /\ Operands["Entity"][2] = "IDENTIFIER" /\ Operands["Entity"][3] = "entity_body"
    BY DEF Operands, Results
  <2> QED BY <2>1, <2>2, <2>3 DEF RuleArgs
<1>8. RuleArgs(8)
  <2>1. /\ Rules[8].action = "Entity" /\ Rules[8].lhs = "entity_decl"
        /\ Len(Rules[8].rhs) = 7 /\ DOMAIN Rules[8].args = 1 .. 3 /\ Rules[8].args[1] = 2
        /\ Rules[8].args[2] = 4 /\ Rules[8].args[3] = 6 /\ Rules[8].rhs[2] = "IDENTIFIER"
        /\ Rules[8].rhs[4] = "IDENTIFIER" /\ Rules[8].rhs[6] = "entity_body"
    BY DEF Rules, R
  <2>3. Rules[8].rhs[1] \notin DOMAIN Kind /\ Rules[8].rhs[3] \notin DOMAIN Kind
        /\ Rules[8].rhs[5] \notin DOMAIN Kind /\ Rules[8].rhs[7] \notin DOMAIN Kind
    BY DEF Rules, R, Kind
  <2>2. /\ "Entity" \in DOMAIN Operands /\ Results["Entity"] = "entity_decl"
        /\ DOMAIN Operands["Entity"] = 1 .. 3 /\ Operands["Entity"][1] = "IDENTIFIER"
        /\ Operands["Entity"][2] = "IDENTIFIER" /\ Operands["Entity"][3] = "entity_body"
    BY DEF Operands, Results
  <2> QED BY <2>1, <2>2, <2>3 DEF RuleArgs
<1>9. RuleArgs(9)
  <2>1. /\ Rules[9].action = "Entity" /\ Rules[9].lhs = "entity_decl"
        /\ Len(Rules[9].rhs) = 6 /\ DOMAIN Rules[9].args = 1 .. 3 /\ Rules[9].args[1] = 3
        /\ Rules[9].args[2] = 0 /\ Rules[9].args[3] = 5 /\ Rules[9].rhs[3] = "IDENTIFIER"
        /\ Rules[9].rhs[5] = "entity_body"
    BY DEF Rules, R
  <2>3. Rules[9].rhs[1] \notin DOMAIN Kind /\ Rules[9].rhs[2] \notin DOMAIN Kind
        /\ Rules[9].rhs[4] \notin DOMAIN Kind /\ Rules[9].rhs[6] \notin DOMAIN Kind
    BY DEF Rules, R, Kind
  <2>2. /\ "Entity" \in DOMAIN Operands /\ Results["Entity"] = "entity_decl"
        /\ DOMAIN Operands["Entity"] = 1 .. 3 /\ Operands["Entity"][1] = "IDENTIFIER"
        /\ Operands["Entity"][2] = "IDENTIFIER" /\ Operands["Entity"][3] = "entity_body"
    BY DEF Operands, Results
  <2> QED BY <2>1, <2>2, <2>3 DEF RuleArgs
<1>10. RuleArgs(10)
  <2>1. /\ Rules[10].action = "Entity" /\ Rules[10].lhs = "entity_decl"
        /\ Len(Rules[10].rhs) = 8 /\ DOMAIN Rules[10].args = 1 .. 3
        /\ Rules[10].args[1] = 3 /\ Rules[10].args[2] = 5 /\ Rules[10].args[3] = 7
        /\ Rules[10].rhs[3] = "IDENTIFIER" /\ Rules[10].rhs[5] = "IDENTIFIER"
        /\ Rules[10].rhs[7] = "entity_body"
    BY DEF Rules, R
  <2>3. Rules[10].rhs[1] \notin DOMAIN Kind /\ Rules[10].rhs[2] \notin DOMAIN Kind
        /\ Rules[10].rhs[4] \notin DOMAIN Kind /\ Rules[10].rhs[6] \notin DOMAIN Kind
        /\ Rules[10].rhs[8] \notin DOMAIN Kind
    BY DEF Rules, R, Kind
  <2>2. /\ "Entity" \in DOMAIN Operands /\ Results["Entity"] = "entity_decl"
        /\ DOMAIN Operands["Entity"] = 1 .. 3 /\ Operands["Entity"][1] = "IDENTIFIER"
        /\ Operands["Entity"][2] = "IDENTIFIER" /\ Operands["Entity"][3] = "entity_body"
    BY DEF Operands, Results
  <2> QED BY <2>1, <2>2, <2>3 DEF RuleArgs
<1>11. RuleArgs(11)
  BY DEF RuleArgs, Rules, R, May
<1>12. RuleArgs(12)
  <2>1. /\ Rules[12].action = "AppendAttributeEntityBody" /\ Rules[12].lhs = "entity_body"
        /\ Len(Rules[12].rhs) = 2 /\ DOMAIN Rules[12].args = 1 .. 2
        /\ Rules[12].args[1] = 1 /\ Rules[12].args[2] = 2
        /\ Rules[12].rhs[1] = "entity_body" /\ Rules[12].rhs[2] = "attribute_decl"
    BY DEF Rules, R
  <2>2. /\ "AppendAttributeEntityBody" \in DOMAIN Operands
        /\ Results["AppendAttributeEntityBody"] = "entity_body"
        /\ DOMAIN Operands["AppendAttributeEntityBody"] = 1 .. 2
        /\ Operands["AppendAttributeEntityBody"][1] = "entity_body"
        /\ Operands["AppendAttributeEntityBody"][2] = "attribute_decl"
    BY DEF Operands, Results
  <2> QED BY <2>1, <2>2 DEF RuleArgs
<1>13. RuleArgs(13)
  <2>1. /\ Rules[13].action = "SetPrimaryKeyEntityBody" /\ Rules[13].lhs = "entity_body"
        /\ Len(Rules[13].rhs) = 2 /\ DOMAIN Rules[13].args = 1 .. 2
        /\ Rules[13].args[1] = 1 /\ Rules[13].args[2] = 2
        /\ Rules[13].rhs[1] = "entity_body" /\ Rules[13].rhs[2] = "primary_decl"
    BY DEF Rules, R
  <2>2. /\ "SetPrimaryKeyEntityBody" \in DOMAIN Operands
        /\ Results["SetPrimaryKeyEntityBody"] = "entity_body"
        /\ DOMAIN Operands["SetPrimaryKeyEntityBody"] = 1 .. 2
        /\ Operands["SetPrimaryKeyEntityBody"][1] = "entity_body"
        /\ Operands["SetPrimaryKeyEntityBody"][2] = "primary_decl"
    BY DEF Operands, Results
  <2> QED BY <2>1, <2>2 DEF RuleArgs
<1>14. RuleArgs(14)
  <2>1. /\ Rules[14].action = "AppendAssertionEntityBody" /\ Rules[14].lhs = "entity_body"
        /\ Len(Rules[14].rhs) = 2 /\ DOMAIN Rules[14].args = 1 .. 2
        /\ Rules[14].args[1] = 1 /\ Rules[14].args[2] = 2
        /\ Rules[14].rhs[1] = "entity_body" /\ Rules[14].rhs[2] = "assert_decl"
    BY DEF Rules, R
  <2>2. /\ "AppendAssertionEntityBody" \in DOMAIN Operands
        /\ Results["AppendAssertionEntityBody"] = "entity_body"
        /\ DOMAIN Operands["AppendAssertionEntityBody"] = 1 .. 2
        /\ Operands["AppendAssertionEntityBody"][1] = "entity_body"
        /\ Operands["AppendAssertionEntityBody"][2] = "assert_decl"
    BY DEF Operands, Results
  <2> QED BY <2>1, <2>2 DEF RuleArgs
<1>15. RuleArgs(15)
  <2>1. /\ Rules[15].action = "Attribute" /\ Rules[15].lhs = "attribute_decl"
        /\ Len(Rules[15].rhs) = 4 /\ DOMAIN Rules[15].args = 1 .. 3
        /\ Rules[15].args[1] = 1 /\ Rules[15].args[2] = 3 /\ Rules[15].args[3] = 4
        /\ Rules[15].rhs[1] = "IDENTIFIER" /\ Rules[15].rhs[3] = "type_spec"
        /\ Rules[15].rhs[4] = "modifier_list"
    BY DEF Rules, R
  <2>3. Rules[15].rhs[2] \notin DOMAIN Kind
    BY DEF Rules, R, Kind
  <2>2. /\ "Attribute" \in DOMAIN Operands /\ Results["Attribute"] = "attribute_decl"
        /\ DOMAIN Operands["Attribute"] = 1 .. 3
        /\ Operands["Attribute"][1] = "IDENTIFIER"
        /\ Operands["Attribute"][2] = "type_spec"
        /\ Operands["Attribute"][3] = "modifier_list"
    BY DEF Operands, Results
  <2> QED BY <2>1, <2>2, <2>3 DEF RuleArgs
<1>16. RuleArgs(16)
  BY DEF RuleArgs, Rules, R, May
<1>17. RuleArgs(17)
  <2>1. /\ Rules[17].action = "AppendModifier" /\ Rules[17].lhs = "modifier_list"
        /\ Len(Rules[17].rhs) = 2 /\ DOMAIN Rules[17].args = 1 .. 2
        /\ Rules[17].args[1] = 1 /\ Rules[17].args[2] = 2
        /\ Rules[17].rhs[1] = "modifier_list" /\ Rules[17].rhs[2] = "modifier"
    BY DEF Rules, R
  <2>2. /\ "AppendModifier" \in DOMAIN Operands
        /\ Results["AppendModifier"] = "modifier_list"
        /\ DOMAIN Operands["AppendModifier"] = 1 .. 2
        /\ Operands["AppendModifier"][1] = "modifier_list"
        /\ Operands["AppendModifier"][2] = "modifier"
    BY DEF Operands, Results
  <2> QED BY <2>1, <2>2 DEF RuleArgs
<1>18. RuleArgs(18)
  <2>1. /\ Rules[18].action = "Modifier" /\ Rules[18].lhs = "modifier"
        /\ Len(Rules[18].rhs) = 1 /\ DOMAIN Rules[18].args = {}
    BY DEF Rules, R
  <2>3. Rules[18].rhs[1] \notin DOMAIN Kind
    BY DEF Rules, R, Kind
  <2>2. /\ "Modifier" \in DOMAIN Operands /\ Results["Modifier"] = "modifier"
        /\ DOMAIN Operands["Modifier"] = {}
    BY DEF Operands, Results
  <2> QED BY <2>1, <2>2, <2>3 DEF RuleArgs
<1>19. RuleArgs(19)
  <2>1. /\ Rules[19].action = "Modifier" /\ Rules[19].lhs = "modifier"
        /\ Len(Rules[19].rhs) = 2 /\ DOMAIN Rules[19].args = {}
    BY DEF Rules, R
  <2>3. Rules[19].rhs[1] \notin DOMAIN Kind /\ Rules[19].rhs[2] \notin DOMAIN Kind
    BY DEF Rules, R, Kind
  <2>2. /\ "Modifier" \in DOMAIN Operands /\ Results["Modifier"] = "modifier"
        /\ DOMAIN Operands["Modifier"] = {}
    BY DEF Operands, Results
  <2> QED BY <2>1, <2>2, <2>3 DEF RuleArgs
<1>20. RuleArgs(20)
  <2>1. /\ Rules[20].action = "ModifierDefault" /\ Rules[20].lhs = "modifier"
        /\ Len(Rules[20].rhs) = 2 /\ DOMAIN Rules[20].args = 1 .. 1
        /\ Rules[20].args[1] = 2 /\ Rules[20].rhs[2] = "literal"
    BY DEF Rules, R
  <2>3. Rules[20].rhs[1] \notin DOMAIN Kind
    BY DEF Rules, R, Kind
  <2>2. /\ "ModifierDefault" \in DOMAIN Operands
        /\ Results["ModifierDefault"] = "modifier"
        /\ DOMAIN Operands["ModifierDefault"] = 1 .. 1
        /\ Operands["ModifierDefault"][1] = "literal"
    BY DEF Operands, Results
  <2> QED BY <2>1, <2>2, <2>3 DEF RuleArgs
<1>21. RuleArgs(21)
  <2>1. /\ Rules[21].action = "PrimaryKey" /\ Rules[21].lhs = "primary_decl"
        /\ Len(Rules[21].rhs) = 4 /\ DOMAIN Rules[21].args = 1 .. 1
        /\ Rules[21].args[1] = 3 /\ Rules[21].rhs[3] = "qualified_identifier_list"
    BY DEF Rules, R
  <2>3. Rules[21].rhs[1] \notin DOMAIN Kind /\ Rules[21].rhs[2] \notin DOMAIN Kind
        /\ Rules[21].rhs[4] \notin DOMAIN Kind
    BY DEF Rules, R, Kind
  <2>2. /\ "PrimaryKey" \in DOMAIN Operands /\ Results["PrimaryKey"] = "primary_decl"
        /\ DOMAIN Operands["PrimaryKey"] = 1 .. 1
        /\ Operands["PrimaryKey"][1] = "qualified_identifier_list"
    BY DEF Operands, Results
  <2> QED BY <2>1, <2>2, <2>3 DEF RuleArgs
<1>22. RuleArgs(22)
  <2>1. /\ Rules[22].action = "QualifiedIdentifierList"
        /\ Rules[22].lhs = "qualified_identifier_list" /\ Len(Rules[22].rhs) = 1
        /\ DOMAIN Rules[22].args = 1 .. 1 /\ Rules[22].args[1] = 1
        /\ Rules[22].rhs[1] = "qualified_identifier"
    BY DEF Rules, R
  <2>2. /\ "QualifiedIdentifierList" \in DOMAIN Operands
        /\ Results["QualifiedIdentifierList"] = "qualified_identifier_list"
        /\ DOMAIN Operands["QualifiedIdentifierList"] = 1 .. 1
        /\ Operands["QualifiedIdentifierList"][1] = "qualified_identifier"
    BY DEF Operands, Results
  <2> QED BY <2>1, <2>2 DEF RuleArgs
<1>23. RuleArgs(23)
  <2>1. /\ Rules[23].action = "AppendQualifiedIdentifierList"
        /\ Rules[23].lhs = "qualified_identifier_list" /\ Len(Rules[23].rhs) = 3
        /\ DOMAIN Rules[23].args = 1 .. 2 /\ Rules[23].args[1] = 1
        /\ Rules[23].args[2] = 3 /\ Rules[23].rhs[1] = "qualified_identifier_list"
        /\ Rules[23].rhs[3] = "qualified_identifier"
    BY DEF Rules, R
  <2>3. Rules[23].rhs[2] \notin DOMAIN Kind
    BY DEF Rules, R, Kind
  <2>2. /\ "AppendQualifiedIdentifierList" \in DOMAIN Operands
        /\ Results["AppendQualifiedIdentifierList"] = "qualified_identifier_list"
        /\ DOMAIN Operands["AppendQualifiedIdentifierList"] = 1 .. 2
        /\ Operands["AppendQualifiedIdentifierList"][1] = "qualified_identifier_list"
        /\ Operands["AppendQualifiedIdentifierList"][2] = "qualified_identifier"
    BY DEF Operands, Results
  <2> QED BY <2>1, <2>2, <2>3 DEF RuleArgs
<1>24. RuleArgs(24)
  <2>1. /\ Rules[24].action = "CreateQualifiedIdentifier"
        /\ Rules[24].lhs = "qualified_identifier" /\ Len(Rules[24].rhs) = 1
        /\ DOMAIN Rules[24].args = 1 .. 2 /\ Rules[24].args[1] = 0
        /\ Rules[24].args[2] = 1 /\ Rules[24].rhs[1] = "IDENTIFIER"
    BY DEF Rules, R
  <2>2. /\ "CreateQualifiedIdentifier" \in DOMAIN Operands
        /\ Results["CreateQualifiedIdentifier"] = "qualified_identifier"
        /\ DOMAIN Operands["CreateQualifiedIdentifier"] = 1 .. 2
        /\ Operands["CreateQualifiedIdentifier"][1] = "IDENTIFIER"
        /\ Operands["CreateQualifiedIdentifier"][2] = "IDENTIFIER"
    BY DEF Operands, Results
  <2> QED BY <2>1, <2>2 DEF RuleArgs
<1>25. RuleArgs(25)
  <2>1. /\ Rules[25].action = "CreateQualifiedIdentifier"
        /\ Rules[25].lhs = "qualified_identifier" /\ Len(Rules[25].rhs) = 3
        /\ DOMAIN Rules[25].args = 1 .. 2 /\ Rules[25].args[1] = 1
        /\ Rules[25].args[2] = 3 /\ Rules[25].rhs[1] = "IDENTIFIER"
        /\ Rules[25].rhs[3] = "IDENTIFIER"
    BY DEF Rules, R
  <2>3. Rules[25].rhs[2] \notin DOMAIN Kind
    BY DEF Rules, R, Kind
  <2>2. /\ "CreateQualifiedIdentifier" \in DOMAIN Operands
        /\ Results["CreateQualifiedIdentifier"] = "qualified_identifier"
        /\ DOMAIN Operands["CreateQualifiedIdentifier"] = 1 .. 2
        /\ Operands["CreateQualifiedIdentifier"][1] = "IDENTIFIER"
        /\ Operands["CreateQualifiedIdentifier"][2] = "IDENTIFIER"
    BY DEF Operands, Results
  <2> QED BY <2>1, <2>2, <2>3 DEF RuleArgs
<1>26. RuleArgs(26)
  <2>1. /\ Rules[26].action = "Assertion" /\ Rules[26].lhs = "assert_decl"
        /\ Len(Rules[26].rhs) = 2 /\ DOMAIN Rules[26].args = 1 .. 1
        /\ Rules[26].args[1] = 2 /\ Rules[26].rhs[2] = "expression"
    BY DEF Rules, R
  <2>3. Rules[26].rhs[1] \notin DOMAIN Kind
    BY DEF Rules, R, Kind
  <2>2. /\ "Assertion" \in DOMAIN Operands /\ Results["Assertion"] = "assert_decl"
        /\ DOMAIN Operands["Assertion"] = 1 .. 1 /\ Operands["Assertion"][1] = "expression"
    BY DEF Operands, Results
  <2> QED BY <2>1, <2>2, <2>3 DEF RuleArgs
<1>27. RuleArgs(27)
  <2>1. /\ Rules[27].action = "Relationship" /\ Rules[27].lhs = "relationship_decl"
        /\ Len(Rules[27].rhs) = 6 /\ DOMAIN Rules[27].args = 1 .. 3
        /\ Rules[27].args[1] = 2 /\ Rules[27].args[2] = 4 /\ Rules[27].args[3] = 6
        /\ Rules[27].rhs[2] = "IDENTIFIER"
        /\ Rules[27].rhs[4] = "relationship_participant_list"
        /\ Rules[27].rhs[6] = "relationship_body"
    BY DEF Rules, R
  <2>3. Rules[27].rhs[1] \notin DOMAIN Kind /\ Rules[27].rhs[3] \notin DOMAIN Kind
        /\ Rules[27].rhs[5] \notin DOMAIN Kind
    BY DEF Rules, R, Kind
  <2>2. /\ "Relationship" \in DOMAIN Operands
        /\ Results["Relationship"] = "relationship_decl"
        /\ DOMAIN Operands["Relationship"] = 1 .. 3
        /\ Operands["Relationship"][1] = "IDENTIFIER"
        /\ Operands["Relationship"][2] = "relationship_participant_list"
        /\ Operands["Relationship"][3] = "relationship_body"
    BY DEF Operands, Results
  <2> QED BY <2>1, <2>2, <2>3 DEF RuleArgs
<1>28. RuleArgs(28)
  <2>1. /\ Rules[28].action = "ParticipantList"
        /\ Rules[28].lhs = "relationship_participant_list" /\ Len(Rules[28].rhs) = 1
        /\ DOMAIN Rules[28].args = 1 .. 1 /\ Rules[28].args[1] = 1
        /\ Rules[28].rhs[1] = "relationship_participant"
    BY DEF Rules, R
  <2>2. /\ "ParticipantList" \in DOMAIN Operands
        /\ Results["ParticipantList"] = "relationship_participant_list"
        /\ DOMAIN Operands["ParticipantList"] = 1 .. 1
        /\ Operands["ParticipantList"][1] = "relationship_participant"
    BY DEF Operands, Results
  <2> QED BY <2>1, <2>2 DEF RuleArgs
<1>29. RuleArgs(29)
  <2>1. /\ Rules[29].action = "AppendParticipantList"
        /\ Rules[29].lhs = "relationship_participant_list" /\ Len(Rules[29].rhs) = 3
        /\ DOMAIN Rules[29].args = 1 .. 2 /\ Rules[29].args[1] = 1
        /\ Rules[29].args[2] = 3 /\ Rules[29].rhs[1] = "relationship_participant_list"
        /\ Rules[29].rhs[3] = "relationship_participant"
    BY DEF Rules, R
  <2>3. Rules[29].rhs[2] \notin DOMAIN Kind
    BY DEF Rules, R, Kind
  <2>2. /\ "AppendParticipantList" \in DOMAIN Operands
        /\ Results["AppendParticipantList"] = "relationship_participant_list"
        /\ DOMAIN Operands["AppendParticipantList"] = 1 .. 2
        /\ Operands["AppendParticipantList"][1] = "relationship_participant_list"
        /\ Operands["AppendParticipantList"][2] = "relationship_participant"
    BY DEF Operands, Results
  <2> QED BY <2>1, <2>2, <2>3 DEF RuleArgs
<1>30. RuleArgs(30)
  <2>1. /\ Rules[30].action = "Participant" /\ Rules[30].lhs = "relationship_participant"
        /\ Len(Rules[30].rhs) = 2 /\ DOMAIN Rules[30].args = 1 .. 2
        /\ Rules[30].args[1] = 1 /\ Rules[30].args[2] = 2
        /\ Rules[30].rhs[1] = "IDENTIFIER" /\ Rules[30].rhs[2] = "participation_opt"
    BY DEF Rules, R
  <2>2. /\ "Participant" \in DOMAIN Operands
        /\ Results["Participant"] = "relationship_participant"
        /\ DOMAIN Operands["Participant"] = 1 .. 2
        /\ Operands["Participant"][1] = "IDENTIFIER"
        /\ Operands["Participant"][2] = "participation_opt"
    BY DEF Operands, Results
  <2> QED BY <2>1, <2>2 DEF RuleArgs
<1>31. RuleArgs(31)
  <2>1. /\ Rules[31].action = "Participant" /\ Rules[31].lhs = "relationship_participant"
        /\ Len(Rules[31].rhs) = 3 /\ DOMAIN Rules[31].args = 1 .. 2
        /\ Rules[31].args[1] = 1 /\ Rules[31].args[2] = 3
        /\ Rules[31].rhs[1] = "IDENTIFIER" /\ Rules[31].rhs[3] = "participation_opt"
    BY DEF Rules, R
  <2>3. Rules[31].rhs[2] \notin DOMAIN Kind
    BY DEF Rules, R, Kind
  <2>2. /\ "Participant" \in DOMAIN Operands
        /\ Results["Participant"] = "relationship_participant"
        /\ DOMAIN Operands["Participant"] = 1 .. 2
        /\ Operands["Participant"][1] = "IDENTIFIER"
        /\ Operands["Participant"][2] = "participation_opt"
    BY DEF Operands, Results
  <2> QED BY <2>1, <2>2, <2>3 DEF RuleArgs
<1>32. RuleArgs(32)
  BY DEF RuleArgs, Rules, R, May
<1>33. RuleArgs(33)
  <2>1. /\ Rules[33].action = "Participation" /\ Rules[33].lhs = "participation_opt"
        /\ Len(Rules[33].rhs) = 1 /\ DOMAIN Rules[33].args = {}
    BY DEF Rules, R
  <2>3. Rules[33].rhs[1] \notin DOMAIN Kind
    BY DEF Rules, R, Kind
  <2>2. /\ "Participation" \in DOMAIN Operands
        /\ Results["Participation"] = "participation_opt"
        /\ DOMAIN Operands["Participation"] = {}
    BY DEF Operands, Results
  <2> QED BY <2>1, <2>2, <2>3 DEF RuleArgs
<1>34. RuleArgs(34)
  BY DEF RuleArgs, Rules, R, May
<1>35. RuleArgs(35)
  <2>1. /\ Rules[35].action = "RelationshipBody" /\ Rules[35].lhs = "relationship_body"
        /\ Len(Rules[35].rhs) = 3 /\ DOMAIN Rules[35].args = 1 .. 1
        /\ Rules[35].args[1] = 2 /\ Rules[35].rhs[2] = "attribute_list"
    BY DEF Rules, R
  <2>3. Rules[35].rhs[1] \notin DOMAIN Kind /\ Rules[35].rhs[3] \notin DOMAIN Kind
    BY DEF Rules, R, Kind
  <2>2. /\ "RelationshipBody" \in DOMAIN Operands
        /\ Results["RelationshipBody"] = "relationship_body"
        /\ DOMAIN Operands["RelationshipBody"] = 1 .. 1
        /\ Operands["RelationshipBody"][1] = "attribute_list"
    BY DEF Operands, Results
  <2> QED BY <2>1, <2>2, <2>3 DEF RuleArgs
<1>36. RuleArgs(36)
  <2>1. /\ Rules[36].action = "AttributeList" /\ Rules[36].lhs = "attribute_list"
        /\ Len(Rules[36].rhs) = 1 /\ DOMAIN Rules[36].args = 1 .. 1
        /\ Rules[36].args[1] = 1 /\ Rules[36].rhs[1] = "attribute_decl"
    BY DEF Rules, R
  <2>2. /\ "AttributeList" \in DOMAIN Operands
        /\ Results["AttributeList"] = "attribute_list"
        /\ DOMAIN Operands["AttributeList"] = 1 .. 1
        /\ Operands["AttributeList"][1] = "attribute_decl"
    BY DEF Operands, Results
  <2> QED BY <2>1, <2>2 DEF RuleArgs
<1>37. RuleArgs(37)
  <2>1. /\ Rules[37].action = "AppendAttributeList" /\ Rules[37].lhs = "attribute_list"
        /\ Len(Rules[37].rhs) = 2 /\ DOMAIN Rules[37].args = 1 .. 2
        /\ Rules[37].args[1] = 1 /\ Rules[37].args[2] = 2
        /\ Rules[37].rhs[1] = "attribute_list" /\ Rules[37].rhs[2] = "attribute_decl"
    BY DEF Rules, R
  <2>2. /\ "AppendAttributeList" \in DOMAIN Operands
        /\ Results["AppendAttributeList"] = "attribute_list"
        /\ DOMAIN Operands["AppendAttributeList"] = 1 .. 2
        /\ Operands["AppendAttributeList"][1] = "attribute_list"
        /\ Operands["AppendAttributeList"][2] = "attribute_decl"
    BY DEF Operands, Results
  <2> QED BY <2>1, <2>2 DEF RuleArgs
<1>38. RuleArgs(38)
  <2>1. /\ Rules[38].action = "Type" /\ Rules[38].lhs = "type_spec"
        /\ Len(Rules[38].rhs) = 1 /\ DOMAIN Rules[38].args = {}
    BY DEF Rules, R
  <2>3. Rules[38].rhs[1] \notin DOMAIN Kind
    BY DEF Rules, R, Kind
  <2>2. /\ "Type" \in DOMAIN Operands /\ Results["Type"] = "type_spec"
        /\ DOMAIN Operands["Type"] = {}
    BY DEF Operands, Results
  <2> QED BY <2>1, <2>2, <2>3 DEF RuleArgs
<1>39. RuleArgs(39)
  <2>1. /\ Rules[39].action = "Type" /\ Rules[39].lhs = "type_spec"
        /\ Len(Rules[39].rhs) = 1 /\ DOMAIN Rules[39].args = {}
    BY DEF Rules, R
  <2>3. Rules[39].rhs[1] \notin DOMAIN Kind
    BY DEF Rules, R, Kind
  <2>2. /\ "Type" \in DOMAIN Operands /\ Results["Type"] = "type_spec"
        /\ DOMAIN Operands["Type"] = {}
    BY DEF Operands, Results
  <2> QED BY <2>1, <2>2, <2>3 DEF RuleArgs
<1>40. RuleArgs(40)
  <2>1. /\ Rules[40].action = "Type" /\ Rules[40].lhs = "type_spec"
        /\ Len(Rules[40].rhs) = 3 /\ DOMAIN Rules[40].args = {}
    BY DEF Rules, R
  <2>3. Rules[40].rhs[1] \notin DOMAIN Kind /\ Rules[40].rhs[2] \notin DOMAIN Kind
        /\ Rules[40].rhs[3] \notin DOMAIN Kind
    BY DEF Rules, R, Kind
  <2>2. /\ "Type" \in DOMAIN Operands /\ Results["Type"] = "type_spec"
        /\ DOMAIN Operands["Type"] = {}
    BY DEF Operands, Results
  <2> QED BY <2>1, <2>2, <2>3 DEF RuleArgs
<1>41. RuleArgs(41)
  <2>1. /\ Rules[41].action = "LiteralExpression" /\ Rules[41].lhs = "expression"
        /\ Len(Rules[41].rhs) = 1 /\ DOMAIN Rules[41].args = 1 .. 1
        /\ Rules[41].args[1] = 1 /\ Rules[41].rhs[1] = "literal"
    BY DEF Rules, R
  <2>2. /\ "LiteralExpression" \in DOMAIN Operands
        /\ Results["LiteralExpression"] = "expression"
        /\ DOMAIN Operands["LiteralExpression"] = 1 .. 1
        /\ Operands["LiteralExpression"][1] = "literal"
    BY DEF Operands, Results
  <2> QED BY <2>1, <2>2 DEF RuleArgs
<1>42. RuleArgs(42)
  <2>1. /\ Rules[42].action = "IdentifierExpression" /\ Rules[42].lhs = "expression"
        /\ Len(Rules[42].rhs) = 1 /\ DOMAIN Rules[42].args = 1 .. 1
        /\ Rules[42].args[1] = 1 /\ Rules[42].rhs[1] = "IDENTIFIER"
    BY DEF Rules, R
  <2>2. /\ "IdentifierExpression" \in DOMAIN Operands
        /\ Results["IdentifierExpression"] = "expression"
        /\ DOMAIN Operands["IdentifierExpression"] = 1 .. 1
        /\ Operands["IdentifierExpression"][1] = "IDENTIFIER"
    BY DEF Operands, Results
  <2> QED BY <2>1, <2>2 DEF RuleArgs
<1>43. RuleArgs(43)
  <2>1. /\ Rules[43].action = "ArithmeticExpression" /\ Rules[43].lhs = "expression"
        /\ Len(Rules[43].rhs) = 3 /\ DOMAIN Rules[43].args = 1 .. 2
        /\ Rules[43].args[1] = 1 /\ Rules[43].args[2] = 3
        /\ Rules[43].rhs[1] = "expression" /\ Rules[43].rhs[3] = "expression"
    BY DEF Rules, R
  <2>3. Rules[43].rhs[2] \notin DOMAIN Kind
    BY DEF Rules, R, Kind
  <2>2. /\ "ArithmeticExpression" \in DOMAIN Operands
        /\ Results["ArithmeticExpression"] = "expression"
        /\ DOMAIN Operands["ArithmeticExpression"] = 1 .. 2
        /\ Operands["ArithmeticExpression"][1] = "expression"
        /\ Operands["ArithmeticExpression"][2] = "expression"
    BY DEF Operands, Results
  <2> QED BY <2>1, <2>2, <2>3 DEF RuleArgs
<1>44. RuleArgs(44)
  <2>1. /\ Rules[44].action = "Literal" /\ Rules[44].lhs = "literal"
        /\ Len(Rules[44].rhs) = 1 /\ DOMAIN Rules[44].args = {}
    BY DEF Rules, R
  <2>3. Rules[44].rhs[1] \notin DOMAIN Kind
    BY DEF Rules, R, Kind
  <2>2. /\ "Literal" \in DOMAIN Operands /\ Results["Literal"] = "literal"
        /\ DOMAIN Operands["Literal"] = {}
    BY DEF Operands, Results
  <2> QED BY <2>1, <2>2, <2>3 DEF RuleArgs
<1>45. RuleArgs(45)
  <2>1. /\ Rules[45].action = "StringLiteral" /\ Rules[45].lhs = "literal"
        /\ Len(Rules[45].rhs) = 1 /\ DOMAIN Rules[45].args = 1 .. 1
        /\ Rules[45].args[1] = 1 /\ Rules[45].rhs[1] = "LIT_STRING"
    BY DEF Rules, R
  <2>2. /\ "StringLiteral" \in DOMAIN Operands /\ Results["StringLiteral"] = "literal"
        /\ DOMAIN Operands["StringLiteral"] = 1 .. 1
        /\ Operands["StringLiteral"][1] = "LIT_STRING"
    BY DEF Operands, Results
  <2> QED BY <2>1, <2>2 DEF RuleArgs
<1>46. r = 2 \/ r = 3 \/ r = 4 \/ r = 5 \/ r = 6 \/ r = 7 \/ r = 8 \/ r = 9 \/
       r = 10 \/ r = 11 \/ r = 12 \/ r = 13 \/ r = 14 \/ r = 15 \/ r = 16 \/ r = 17 \/
       r = 18 \/ r = 19 \/ r = 20 \/ r = 21 \/ r = 22 \/ r = 23 \/ r = 24 \/ r = 25 \/
       r = 26 \/ r = 27 \/ r = 28 \/ r = 29 \/ r = 30 \/ r = 31 \/ r = 32 \/ r = 33 \/
       r = 34 \/ r = 35 \/ r = 36 \/ r = 37 \/ r = 38 \/ r = 39 \/ r = 40 \/ r = 41 \/
       r = 42 \/ r = 43 \/ r = 44 \/ r = 45
  OBVIOUS
<1> QED BY <1>2, <1>3, <1>4, <1>5, <1>6, <1>7, <1>8, <1>9, <1>10, <1>11, <1>12, <1>13,
           <1>14, <1>15, <1>16, <1>17, <1>18, <1>19, <1>20, <1>21, <1>22, <1>23, <1>24,
           <1>25, <1>26, <1>27, <1>28, <1>29, <1>30, <1>31, <1>32, <1>33, <1>34, <1>35,
           <1>36, <1>37, <1>38, <1>39, <1>40, <1>41, <1>42, <1>43, <1>44, <1>45, <1>46

LEMMA HeadsAre ==
    /\ Heads \subseteq HeadNames /\ IsFiniteSet(Heads) /\ Cardinality(Heads) \in Nat
    /\ \A r \in 1 .. 45 : Rules[r].lhs \in Heads
<1>1. \A r \in 1 .. 45 : Rules[r].lhs \in Heads
  BY RulesNumbered DEF Heads
<1>2. Heads \subseteq HeadNames
  BY RulesNumbered, RulesOK DEF Heads, RuleOK
<1>3. IsFiniteSet(Heads)
  <2>1. [r \in 1 .. 45 |-> Rules[r].lhs] \in Surjection(1 .. 45, Heads)
    BY RulesNumbered DEF Heads, Surjection
  <2>2. IsFiniteSet(1 .. 45)
    BY 1 \in Int, 45 \in Int, FS_Interval
  <2> QED BY <2>1, <2>2, FS_Surjection
<1> QED BY <1>1, <1>2, <1>3, FS_CardinalityType

-----------------------------------------------------------------------------
(* What phrases begin with                                                 *)

Direct(S) == S \cup {Rules[r].rhs[1] : r \in {q \in DOMAIN Rules :
                     Rules[q].lhs \in S /\ Rules[q].rhs # <<>>}}
Within == CHOOSE w : w = [k \in 0 .. Cardinality(Heads) |->
                      [X \in Heads |-> IF k = 0 THEN {X} ELSE Direct(w[k - 1][X])]]

LEMMA WithinIs ==
    /\ \A X \in Heads : Within[0][X] = {X}
    /\ \A k \in 1 .. Cardinality(Heads) : \A X \in Heads : Within[k][X] = Direct(Within[k - 1][X])
    /\ Beginnings = [X \in Heads |-> Within[Cardinality(Heads)][X] \cap Heads]
<1> DEFINE N == Cardinality(Heads)
           Row(w, k) == [X \in Heads |-> IF k = 0 THEN {X} ELSE Direct(w[k - 1][X])]
           Is(w) == w = [k \in 0 .. N |-> Row(w, k)]
           Rows(f, n) == \A k \in 0 .. n : f[k] = Row(f, k)
           G == {n \in Nat : \E f : Rows(f, n)}
<1>1. N \in Nat
  BY HeadsAre
<1>2. 0 \in G
  <2> DEFINE f == [k \in {0} |-> [X \in Heads |-> {X}]]
  <2>1. Rows(f, 0)
    OBVIOUS
  <2> QED BY <2>1
<1>3. ASSUME NEW n \in Nat, n \in G PROVE n + 1 \in G
  <2>1. PICK f : Rows(f, n)
    BY <1>3
  <2> DEFINE g == [k \in 0 .. n + 1 |-> IF k <= n THEN f[k] ELSE Row(f, n + 1)]
  <2>2. \A k \in 0 .. n : g[k] = f[k]
    OBVIOUS
  <2>3. g[n + 1] = Row(f, n + 1)
    OBVIOUS
  <2> HIDE DEF g
  <2>4. ASSUME NEW k \in 0 .. n + 1 PROVE g[k] = Row(g, k)
    <3>1. k # 0 => g[k - 1] = f[k - 1]
      BY <2>2
    <3>2. Row(g, k) = Row(f, k)
      BY <3>1
    <3>3. CASE k = n + 1
      BY <2>3, <3>2, <3>3
    <3>4. CASE k # n + 1
      <4>1. k \in 0 .. n
        BY <3>4
      <4>2. f[k] = Row(f, k)
        BY <4>1, <2>1
      <4> HIDE DEF Row
      <4> QED BY <4>1, <4>2, <2>2, <3>2
    <3> QED BY <3>3, <3>4
  <2>5. Rows(g, n + 1)
    <3> HIDE DEF Row
    <3> QED BY <2>4
  <2>6. \E y : Rows(y, n + 1)
    <3> HIDE DEF Rows
    <3> QED BY <2>5
  <2> HIDE DEF Rows
  <2> QED BY <2>6
<1>4. PICK f : Rows(f, N)
  <2>1. N \in G
    <3> HIDE DEF G, N
    <3> QED BY <1>1, <1>2, <1>3, NumberInduction
  <2> HIDE DEF N, Rows
  <2> QED BY <2>1
<1> DEFINE w0 == [k \in 0 .. N |-> f[k]]
<1>5. Is(w0)
  <2>1. ASSUME NEW k \in 0 .. N PROVE w0[k] = Row(w0, k)
    <3>1. k # 0 => k - 1 \in 0 .. N
      BY <1>1
    <3>2. w0[k] = f[k] /\ (k # 0 => w0[k - 1] = f[k - 1])
      BY <3>1
    <3> HIDE DEF w0
    <3>3. Row(w0, k) = Row(f, k)
      BY <3>2
    <3>4. f[k] = Row(f, k)
      BY <1>4
    <3> HIDE DEF Row
    <3> QED BY <3>2, <3>3, <3>4
  <2>2. w0 = [k \in 0 .. N |-> w0[k]]
    OBVIOUS
  <2> HIDE DEF w0, Row
  <2> QED BY <2>1, <2>2
<1>6. Is(Within)
  <2> HIDE DEF w0, Row
  <2>1. \E w : Is(w)
    BY <1>5
  <2>2. Within = CHOOSE w : Is(w)
    BY DEF Within, Row
  <2> HIDE DEF Is
  <2> QED BY <2>1, <2>2
<1>7. \A X \in Heads : Within[0][X] = {X}
  BY <1>1, <1>6
<1>8. \A k \in 1 .. N : \A X \in Heads : Within[k][X] = Direct(Within[k - 1][X])
  <2> TAKE k \in 1 .. N
  <2> TAKE X \in Heads
  <2>1. k \in 0 .. N /\ k # 0
    BY <1>1
  <2>2. Within[k] = Row(Within, k)
    <3> HIDE DEF Row
    <3> QED BY <2>1, <1>6
  <2> QED BY <2>1, <2>2
<1>9. Beginnings = [X \in Heads |-> Within[N][X] \cap Heads]
  BY DEF Beginnings, Within, Direct
<1> QED BY <1>7, <1>8, <1>9

LEMMA BeginningsAre ==
    ASSUME NEW X \in Heads
    PROVE  /\ X \in Beginnings[X]
           /\ \A Z \in Beginnings[X] : Z \in Heads /\ (Z = X \/ <<X, Z>> \in Fronts)
<1> DEFINE N == Cardinality(Heads)
           Fine(S) == X \in S /\ \A Z \in S \cap Heads : Z = X \/ <<X, Z>> \in Fronts
           G == {n \in Nat : n <= N => Fine(Within[n][X])}
<1>1. N \in Nat
  BY HeadsAre
<1>2. 0 \in G
  BY WithinIs
<1>3. ASSUME NEW n \in Nat, n \in G PROVE n + 1 \in G
  <2> SUFFICES ASSUME n + 1 <= N PROVE Fine(Within[n + 1][X])
    OBVIOUS
  <2>1. Fine(Within[n][X])
    BY <1>1, <1>3
  <2>2. Within[n + 1][X] = Direct(Within[n][X])
    BY <1>1, WithinIs
  <2>3. ASSUME NEW Z \in Direct(Within[n][X]) \cap Heads PROVE Z = X \/ <<X, Z>> \in Fronts
    <3>1. CASE Z \in Within[n][X]
      BY <2>1, <3>1
    <3>2. CASE Z \notin Within[n][X]
      <4>1. PICK r \in 1 .. 45 : Rules[r].lhs \in Within[n][X] /\ Rules[r].rhs # <<>>
                                /\ Z = Rules[r].rhs[1]
        BY <3>2, RulesNumbered DEF Direct
      <4>2. Z = Rules[r].lhs \/ <<Rules[r].lhs, Z>> \in Fronts
        BY <4>1, RulesOK, HeadsAre DEF RuleOK
      <4>3. Rules[r].lhs = X \/ <<X, Rules[r].lhs>> \in Fronts
        BY <4>1, <2>1, HeadsAre
      <4>4. \A u, v, w : <<u, v>> \in Fronts /\ <<v, w>> \in Fronts => <<u, w>> \in Fronts
        BY DEF Fronts
      <4> QED BY <4>2, <4>3, <4>4
    <3> QED BY <3>1, <3>2
  <2>4. X \in Direct(Within[n][X])
    BY <2>1 DEF Direct
  <2> QED BY <2>2, <2>3, <2>4
<1>4. N \in G
  <2> HIDE DEF G
  <2> QED BY <1>1, <1>2, <1>3, NumberInduction
<1>5. Fine(Within[N][X])
  BY <1>4
<1>6. Beginnings[X] = Within[N][X] \cap Heads
  BY WithinIs
<1> QED BY <1>5, <1>6

-----------------------------------------------------------------------------
(* The states of the automaton                                             *)

Item(i) == i \in (1 .. 45) \X Nat /\ i[2] <= Len(Rules[i[1]].rhs)
AllItems == {i \in (1 .. 45) \X Nat : Item(i)}

LEMMA RhsLong == \A r \in 1 .. 45 : Len(Rules[r].rhs) \in Nat /\ 0 <= Len(Rules[r].rhs)
<1>1. \A r \in 1 .. 45 : Len(Rules[r].rhs) \in Nat
  BY RulesOK DEF RuleOK
<1>2. \A n \in Nat : 0 <= n
  OBVIOUS
<1> QED BY <1>1, <1>2

LEMMA RhsSymbols ==
    ASSUME NEW r \in 1 .. 45, NEW i \in 1 .. Len(Rules[r].rhs)
    PROVE  /\ Rules[r].rhs[i] # "accept" /\ Rules[r].rhs[i] # "none"
           /\ Rules[r].rhs[i] = "program" => r = 1 /\ i = 1
BY RulesOK DEF RuleOK

LEMMA ItemIs ==
    ASSUME NEW i, i \in AllItems
    PROVE  /\ i[1] \in 1 .. 45 /\ i[2] \in Nat /\ i = <<i[1], i[2]>>
           /\ i[2] <= Len(Rules[i[1]].rhs)
           /\ Unread(i) => /\ i[2] + 1 \in 1 .. Len(Rules[i[1]].rhs)
                           /\ NextSymbol(i) # "accept" /\ NextSymbol(i) # "none"
                           /\ NextSymbol(i) = "program" => i = <<1, 0>>
<1>1. i \in (1 .. 45) \X Nat /\ i[2] <= Len(Rules[i[1]].rhs)
  BY DEF AllItems, Item
<1>2. i[1] \in 1 .. 45 /\ i[2] \in Nat /\ i = <<i[1], i[2]>>
  BY <1>1
<1>3. ASSUME Unread(i) PROVE i[2] + 1 \in 1 .. Len(Rules[i[1]].rhs)
  <2> DEFINE n == Len(Rules[i[1]].rhs)
  <2>1. n \in Nat /\ i[2] \in Nat
    BY <1>2, RhsLong
  <2>2. i[2] < n
    BY <1>3 DEF Unread
  <2> HIDE DEF n
  <2>3. i[2] + 1 \in 1 .. n
    BY <2>1, <2>2
  <2> QED BY <2>3 DEF n
<1>4. ASSUME Unread(i)
      PROVE  /\ NextSymbol(i) # "accept" /\ NextSymbol(i) # "none"
             /\ NextSymbol(i) = "program" => i[1] = 1 /\ i[2] + 1 = 1
  BY <1>2, <1>3, <1>4, RhsSymbols DEF NextSymbol
<1>5. ASSUME Unread(i), NextSymbol(i) = "program" PROVE i = <<1, 0>>
  <2>1. i[1] = 1 /\ i[2] = 0
    BY <1>2, <1>4, <1>5
  <2> QED BY <2>1, <1>2
<1> QED BY <1>1, <1>2, <1>3, <1>4, <1>5

LEMMA ItemMade ==
    ASSUME NEW r \in 1 .. 45, NEW k \in Nat, k <= Len(Rules[r].rhs)
    PROVE  <<r, k>> \in AllItems
BY DEF AllItems, Item

\* Item i awaits a phrase that may begin with one of head X.
Awaits(i, X) ==
    /\ Unread(i) /\ NextSymbol(i) \in Heads
    /\ NextSymbol(i) = X \/ <<NextSymbol(i), X>> \in Fronts

LEMMA ClosedIs ==
    ASSUME NEW K, K \subseteq AllItems
    PROVE  /\ Closed(K) \subseteq AllItems /\ K \subseteq Closed(K)
           /\ \A i \in Closed(K) : i \in K \/ \E r \in 1 .. 45 :
                 i = <<r, 0>> /\ \E j \in K : Awaits(j, Rules[r].lhs)
           /\ \A j \in K : \A r \in 1 .. 45 :
                 Unread(j) /\ NextSymbol(j) = Rules[r].lhs => <<r, 0>> \in Closed(K)
<1> DEFINE begun == UNION {Beginnings[X] : X \in NextSymbols(K) \cap Heads}
           New0 == {<<r, 0>> : r \in {q \in DOMAIN Rules : Rules[q].lhs \in begun}}
<1>1. Closed(K) = K \cup New0
  BY DEF Closed
<1>2. \A i \in New0 : \E r \in 1 .. 45 : i = <<r, 0>> /\ \E j \in K : Awaits(j, Rules[r].lhs)
  <2> TAKE i \in New0
  <2>1. PICK r \in 1 .. 45 : i = <<r, 0>> /\ Rules[r].lhs \in begun
    BY RulesNumbered
  <2>2. PICK X \in NextSymbols(K) \cap Heads : Rules[r].lhs \in Beginnings[X]
    BY <2>1
  <2>3. PICK j \in K : Unread(j) /\ NextSymbol(j) = X
    BY <2>2 DEF NextSymbols
  <2>4. Rules[r].lhs = X \/ <<X, Rules[r].lhs>> \in Fronts
    BY <2>2, BeginningsAre
  <2>5. Awaits(j, Rules[r].lhs)
    BY <2>2, <2>3, <2>4 DEF Awaits
  <2> QED BY <2>1, <2>5
<1>3. ASSUME NEW j \in K, NEW r \in 1 .. 45, Unread(j), NextSymbol(j) = Rules[r].lhs
      PROVE  <<r, 0>> \in New0
  <2>1. NextSymbol(j) \in NextSymbols(K) \cap Heads
    BY <1>3, HeadsAre DEF NextSymbols
  <2>2. Rules[r].lhs \in begun
    BY <1>3, <2>1, BeginningsAre
  <2> QED BY <2>2, RulesNumbered
<1>4. New0 \subseteq AllItems
  <2> SUFFICES ASSUME NEW r \in 1 .. 45 PROVE <<r, 0>> \in AllItems
    BY RulesNumbered
  <2>1. 0 \in Nat /\ 0 <= Len(Rules[r].rhs)
    BY RhsLong
  <2> QED BY <2>1, ItemMade
<1> HIDE DEF New0
<1> QED BY <1>1, <1>2, <1>3, <1>4

\* What every state but the first is.
Stated(J) ==
    /\ J \subseteq AllItems
    /\ \E j \in J : j[2] > 0
    /\ \A r \in 1 .. 45 : <<r, 0>> \in J =>
          r # 1 /\ Rules[r].lhs \in NextSymbols(J)
                /\ \E j \in J : j[2] > 0 /\ Awaits(j, Rules[r].lhs)

Begins(q, X, Z) == Rules[q].lhs = X /\ Len(Rules[q].rhs) > 0 /\ Rules[q].rhs[1] = Z

LEMMA FrontsBegin ==
    ASSUME NEW X, NEW Z, <<X, Z>> \in Fronts, X # "accept"
    PROVE  \E q \in 1 .. 45 : Begins(q, X, Z)
<1>1. /\ Begins(2, "program", "schema_decl")
      /\ Begins(22, "qualified_identifier_list", "qualified_identifier")
      /\ Begins(28, "relationship_participant_list", "relationship_participant")
      /\ Begins(36, "attribute_list", "attribute_decl")
      /\ Begins(41, "expression", "literal")
  BY DEF Rules, R, Begins
<1>3. \/ X = "program" /\ Z = "schema_decl"
      \/ X = "qualified_identifier_list" /\ Z = "qualified_identifier"
      \/ X = "relationship_participant_list" /\ Z = "relationship_participant"
      \/ X = "attribute_list" /\ Z = "attribute_decl"
      \/ X = "expression" /\ Z = "literal"
  BY DEF Fronts
<1> QED BY <1>1, <1>3

LEMMA AwaitedNext ==
    ASSUME NEW K, K \subseteq AllItems, NEW j \in K, NEW r \in 1 .. 45,
           Awaits(j, Rules[r].lhs)
    PROVE  Rules[r].lhs \in NextSymbols(Closed(K))
<1>1. j \in Closed(K) /\ j \in AllItems /\ Unread(j)
  BY ClosedIs DEF Awaits
<1>2. NextSymbol(j) \in NextSymbols(Closed(K))
  BY <1>1 DEF NextSymbols
<1>3. CASE NextSymbol(j) = Rules[r].lhs
  BY <1>2, <1>3
<1>4. CASE <<NextSymbol(j), Rules[r].lhs>> \in Fronts
  <2>1. NextSymbol(j) # "accept"
    BY <1>1, ItemIs
  <2> DEFINE X == NextSymbol(j)
             Z == Rules[r].lhs
  <2>5. <<X, Z>> \in Fronts /\ X # "accept"
    BY <1>4, <2>1
  <2>6. \E q \in 1 .. 45 : Begins(q, X, Z)
    <3> HIDE DEF X, Z
    <3> QED BY <2>5, FrontsBegin
  <2>2. PICK q \in 1 .. 45 : /\ Rules[q].lhs = NextSymbol(j) /\ Len(Rules[q].rhs) > 0
                             /\ Rules[q].rhs[1] = Rules[r].lhs
    BY <2>6 DEF Begins
  <2>3. <<q, 0>> \in Closed(K)
    BY <1>1, <2>2, ClosedIs
  <2>4. Unread(<<q, 0>>) /\ NextSymbol(<<q, 0>>) = Rules[r].lhs
    BY <2>2, 0 + 1 = 1 DEF Unread, NextSymbol
  <2> QED BY <2>3, <2>4 DEF NextSymbols
<1> QED BY <1>3, <1>4 DEF Awaits

LEMMA GotoIs ==
    ASSUME NEW I, I \subseteq AllItems, NEW X, X \in NextSymbols(I)
    PROVE  /\ Stated(Goto(I, X))
           /\ \A i \in Goto(I, X) : i[2] > 0 =>
                 <<i[1], i[2] - 1>> \in I /\ Rules[i[1]].rhs[i[2]] = X
           /\ \A i \in I : Unread(i) /\ NextSymbol(i) = X => <<i[1], i[2] + 1>> \in Goto(I, X)
<1> DEFINE K == {<<i[1], i[2] + 1>> : i \in {j \in I : Unread(j) /\ NextSymbol(j) = X}}
           J == Closed(K)
<1>1. Goto(I, X) = J
  BY DEF Goto
<1>2. ASSUME NEW i \in K
      PROVE  /\ i \in AllItems /\ i[2] > 0 /\ <<i[1], i[2] - 1>> \in I
             /\ Rules[i[1]].rhs[i[2]] = X
  <2>1. PICK j \in I : i = <<j[1], j[2] + 1>> /\ Unread(j) /\ NextSymbol(j) = X
    OBVIOUS
  <2>2. j \in AllItems
    OBVIOUS
  <2>3. /\ j[1] \in 1 .. 45 /\ j[2] \in Nat /\ j = <<j[1], j[2]>>
        /\ j[2] + 1 \in 1 .. Len(Rules[j[1]].rhs)
    BY <2>1, <2>2, ItemIs
  <2>4. i[1] = j[1] /\ i[2] = j[2] + 1
    BY <2>1
  <2>5. j[2] + 1 \in Nat /\ j[2] + 1 <= Len(Rules[j[1]].rhs)
    BY <2>3
  <2>6. i \in AllItems
    BY <2>1, <2>3, <2>5, ItemMade
  <2> QED BY <2>1, <2>3, <2>4, <2>6 DEF NextSymbol
<1>3. K \subseteq AllItems
  BY <1>2
<1>4. \E i \in K : TRUE
  BY DEF NextSymbols
<1>5. \A i \in I : Unread(i) /\ NextSymbol(i) = X => <<i[1], i[2] + 1>> \in K
  OBVIOUS
<1> HIDE DEF K
<1>6. K \subseteq J /\ J \subseteq AllItems
  BY <1>3, ClosedIs
<1>7. ASSUME NEW i \in J, i[2] > 0 PROVE i \in K
  <2>1. i \in K \/ \E r \in 1 .. 45 : i = <<r, 0>>
    BY <1>3, ClosedIs
  <2> QED BY <2>1, <1>7
<1>8. ASSUME NEW r \in 1 .. 45, <<r, 0>> \in J
      PROVE  \E j \in K : Awaits(j, Rules[r].lhs)
  <2>3. <<r, 0>>[2] = 0
    OBVIOUS
  <2>1. <<r, 0>> \notin K
    <3> SUFFICES ASSUME <<r, 0>> \in K PROVE FALSE
      OBVIOUS
    <3>1. <<r, 0>>[2] > 0
      BY <1>2
    <3> QED BY <2>3, <3>1
  <2>2. \E s \in 1 .. 45 : <<r, 0>> = <<s, 0>> /\ \E j \in K : Awaits(j, Rules[s].lhs)
    BY <2>1, <1>8, <1>3, ClosedIs
  <2> QED BY <2>2
<1>9. ASSUME NEW r \in 1 .. 45, <<r, 0>> \in J
      PROVE  /\ r # 1 /\ Rules[r].lhs \in NextSymbols(J)
             /\ \E j \in J : j[2] > 0 /\ Awaits(j, Rules[r].lhs)
  <2>1. PICK j \in K : Awaits(j, Rules[r].lhs)
    BY <1>8, <1>9
  <2>2. Rules[r].lhs \in NextSymbols(J)
    BY <2>1, <1>3, AwaitedNext
  <2>3. r # 1
    <3>1. Rules[1].lhs = "accept"
      BY DEF Rules, R
    <3>2. \A u : <<u, "accept">> \notin Fronts
      BY DEF Fronts
    <3>3. j \in AllItems /\ Unread(j)
      BY <1>2, <2>1 DEF Awaits
    <3>5. NextSymbol(j) # "accept"
      BY <3>3, ItemIs
    <3> QED BY <2>1, <3>1, <3>2, <3>5 DEF Awaits
  <2> HIDE DEF J
  <2> QED BY <1>2, <1>6, <2>1, <2>2, <2>3
<1> HIDE DEF J
<1>10. Stated(J)
  BY <1>2, <1>4, <1>6, <1>9 DEF Stated
<1> QED BY <1>1, <1>2, <1>5, <1>6, <1>7, <1>10

LEMMA StartIs ==
    /\ Start \subseteq AllItems /\ <<1, 0>> \in Start /\ \A i \in Start : i[2] = 0
    /\ \A r \in 1 .. 45 : <<r, 0>> \in Start /\ r # 1 => Rules[r].lhs \in NextSymbols(Start)
<1> DEFINE K == {<<1, 0>>}
<1>1. Start = Closed(K)
  BY DEF Start
<1>2. K \subseteq AllItems
  <2>1. 0 \in Nat /\ 0 <= Len(Rules[1].rhs) /\ 1 \in 1 .. 45
    BY RhsLong
  <2>2. <<1, 0>> \in AllItems
    BY <2>1, ItemMade
  <2> QED BY <2>2
<1>3. \A i \in Closed(K) : i[2] = 0
  <2> TAKE i \in Closed(K)
  <2>1. i \in K \/ \E r \in 1 .. 45 : i = <<r, 0>>
    <3> HIDE DEF K
    <3> QED BY <1>2, ClosedIs
  <2>2. PICK r : i = <<r, 0>>
    BY <2>1
  <2> QED BY <2>2
<1>4. ASSUME NEW r \in 1 .. 45, <<r, 0>> \in Closed(K), r # 1
      PROVE  Rules[r].lhs \in NextSymbols(Closed(K))
  <2>1. <<r, 0>> \notin K
    BY <1>4
  <2>2. \E s \in 1 .. 45 : <<r, 0>> = <<s, 0>> /\ \E j \in K : Awaits(j, Rules[s].lhs)
    BY <2>1, <1>4, <1>2, ClosedIs
  <2> QED BY <2>2, <1>2, AwaitedNext
<1> QED BY <1>1, <1>2, <1>3, <1>4, ClosedIs

-----------------------------------------------------------------------------
(* What the semantic actions take and return                               *)

\* p is a value that symbol X may have.
Fits(h, X, p) ==
    IF X \notin DOMAIN Kind THEN p = 0
    ELSE \/ X \in May /\ p = 0
         \/ p # 0 /\ IF X \in Bodies THEN IsBody(h, p, Kind[X]) ELSE IsWhole(h, p, Kind[X])
Has(h, K, X, p) == Fits(h, X, p) /\ (p # 0 => p \in K)
HasWhole(h, K, p, t) == p \in K /\ p # 0 /\ p \in DOMAIN h /\ IsWhole(h, p, t)
HasMaybe(h, K, p, t) == p = 0 \/ HasWhole(h, K, p, t)
HasBody(h, K, p, t) == p = 0 \/ (p \in K /\ p # 0 /\ IsBody(h, p, t))

\* An action makes of the values A the value p of symbol X, and of heap h heap g.
Made(h, K, A, g, p, X) == Steps(h, K, A \ {0}, g, {p} \ {0}) /\ Fits(g, X, p)

LEMMA KindsAre ==
    /\ DOMAIN Kind = {"program", "schema_decl", "schema_body", "entity_decl", "entity_body",
                      "attribute_decl", "modifier_list", "modifier", "primary_decl", "qualified_identifier_list",
                      "qualified_identifier", "assert_decl", "relationship_decl", "relationship_participant_list", "relationship_participant",
                      "participation_opt", "relationship_body", "attribute_list", "type_spec", "expression",
                      "literal", "IDENTIFIER", "LIT_STRING"}
    /\ Kind["program"] = "Program"
    /\ Kind["schema_decl"] = "Schema"
    /\ Kind["schema_body"] = "Schema"
    /\ Kind["entity_decl"] = "Entity"
    /\ Kind["entity_body"] = "Entity"
    /\ Kind["attribute_decl"] = "Attribute"
    /\ Kind["modifier_list"] = "ModifierList"
    /\ Kind["modifier"] = "Modifier"
    /\ Kind["primary_decl"] = "PrimaryKey"
    /\ Kind["qualified_identifier_list"] = "QualifiedIdentifierList"
    /\ Kind["qualified_identifier"] = "QualifiedIdentifier"
    /\ Kind["assert_decl"] = "Assertion"
    /\ Kind["relationship_decl"] = "Relationship"
    /\ Kind["relationship_participant_list"] = "ParticipantList"
    /\ Kind["relationship_participant"] = "Participant"
    /\ Kind["participation_opt"] = "Participation"
    /\ Kind["relationship_body"] = "Relationship"
    /\ Kind["attribute_list"] = "AttributeList"
    /\ Kind["type_spec"] = "Type"
    /\ Kind["expression"] = "Expression"
    /\ Kind["literal"] = "Literal"
    /\ Kind["IDENTIFIER"] = "String"
    /\ Kind["LIT_STRING"] = "String"
BY DEF Kind

LEMMA HasIs ==
    ASSUME NEW h, NEW K, NEW p, 0 \notin DOMAIN h
    PROVE  /\ Has(h, K, "program", p) => HasWhole(h, K, p, "Program")
           /\ Has(h, K, "schema_decl", p) => HasWhole(h, K, p, "Schema")
           /\ Has(h, K, "schema_body", p) => HasBody(h, K, p, "Schema")
           /\ Has(h, K, "entity_decl", p) => HasWhole(h, K, p, "Entity")
           /\ Has(h, K, "entity_body", p) => HasBody(h, K, p, "Entity")
           /\ Has(h, K, "attribute_decl", p) => HasWhole(h, K, p, "Attribute")
           /\ Has(h, K, "modifier_list", p) => HasMaybe(h, K, p, "ModifierList")
           /\ Has(h, K, "modifier", p) => HasWhole(h, K, p, "Modifier")
           /\ Has(h, K, "primary_decl", p) => HasWhole(h, K, p, "PrimaryKey")
           /\ Has(h, K, "qualified_identifier_list", p) => HasWhole(h, K, p, "QualifiedIdentifierList")
           /\ Has(h, K, "qualified_identifier", p) => HasWhole(h, K, p, "QualifiedIdentifier")
           /\ Has(h, K, "assert_decl", p) => HasWhole(h, K, p, "Assertion")
           /\ Has(h, K, "relationship_decl", p) => HasWhole(h, K, p, "Relationship")
           /\ Has(h, K, "relationship_participant_list", p) => HasWhole(h, K, p, "ParticipantList")
           /\ Has(h, K, "relationship_participant", p) => HasWhole(h, K, p, "Participant")
           /\ Has(h, K, "participation_opt", p) => HasMaybe(h, K, p, "Participation")
           /\ Has(h, K, "relationship_body", p) => HasBody(h, K, p, "Relationship")
           /\ Has(h, K, "attribute_list", p) => HasWhole(h, K, p, "AttributeList")
           /\ Has(h, K, "type_spec", p) => HasWhole(h, K, p, "Type")
           /\ Has(h, K, "expression", p) => HasWhole(h, K, p, "Expression")
           /\ Has(h, K, "literal", p) => HasWhole(h, K, p, "Literal")
           /\ Has(h, K, "IDENTIFIER", p) => HasWhole(h, K, p, "String")
           /\ Has(h, K, "LIT_STRING", p) => HasWhole(h, K, p, "String")
<1>1. Has(h, K, "program", p) => HasWhole(h, K, p, "Program")
  BY KindsAre DEF Has, Fits, HasWhole, IsWhole, IsBody, May, Bodies
<1>2. Has(h, K, "schema_decl", p) => HasWhole(h, K, p, "Schema")
  BY KindsAre DEF Has, Fits, HasWhole, IsWhole, IsBody, May, Bodies
<1>3. Has(h, K, "schema_body", p) => HasBody(h, K, p, "Schema")
  BY KindsAre DEF Has, Fits, HasBody, IsWhole, IsBody, May, Bodies
<1>4. Has(h, K, "entity_decl", p) => HasWhole(h, K, p, "Entity")
  BY KindsAre DEF Has, Fits, HasWhole, IsWhole, IsBody, May, Bodies
<1>5. Has(h, K, "entity_body", p) => HasBody(h, K, p, "Entity")
  BY KindsAre DEF Has, Fits, HasBody, IsWhole, IsBody, May, Bodies
<1>6. Has(h, K, "attribute_decl", p) => HasWhole(h, K, p, "Attribute")
  BY KindsAre DEF Has, Fits, HasWhole, IsWhole, IsBody, May, Bodies
<1>7. Has(h, K, "modifier_list", p) => HasMaybe(h, K, p, "ModifierList")
  BY KindsAre DEF Has, Fits, HasMaybe, HasWhole, IsWhole, IsBody, May, Bodies
<1>8. Has(h, K, "modifier", p) => HasWhole(h, K, p, "Modifier")
  BY KindsAre DEF Has, Fits, HasWhole, IsWhole, IsBody, May, Bodies
<1>9. Has(h, K, "primary_decl", p) => HasWhole(h, K, p, "PrimaryKey")
  BY KindsAre DEF Has, Fits, HasWhole, IsWhole, IsBody, May, Bodies
<1>10. Has(h, K, "qualified_identifier_list", p) => HasWhole(h, K, p, "QualifiedIdentifierList")
  BY KindsAre DEF Has, Fits, HasWhole, IsWhole, IsBody, May, Bodies
<1>11. Has(h, K, "qualified_identifier", p) => HasWhole(h, K, p, "QualifiedIdentifier")
  BY KindsAre DEF Has, Fits, HasWhole, IsWhole, IsBody, May, Bodies
<1>12. Has(h, K, "assert_decl", p) => HasWhole(h, K, p, "Assertion")
  BY KindsAre DEF Has, Fits, HasWhole, IsWhole, IsBody, May, Bodies
<1>13. Has(h, K, "relationship_decl", p) => HasWhole(h, K, p, "Relationship")
  BY KindsAre DEF Has, Fits, HasWhole, IsWhole, IsBody, May, Bodies
<1>14. Has(h, K, "relationship_participant_list", p) => HasWhole(h, K, p, "ParticipantList")
  BY KindsAre DEF Has, Fits, HasWhole, IsWhole, IsBody, May, Bodies
<1>15. Has(h, K, "relationship_participant", p) => HasWhole(h, K, p, "Participant")
  BY KindsAre DEF Has, Fits, HasWhole, IsWhole, IsBody, May, Bodies
<1>16. Has(h, K, "participation_opt", p) => HasMaybe(h, K, p, "Participation")
  BY KindsAre DEF Has, Fits, HasMaybe, HasWhole, IsWhole, IsBody, May, Bodies
<1>17. Has(h, K, "relationship_body", p) => HasBody(h, K, p, "Relationship")
  BY KindsAre DEF Has, Fits, HasBody, IsWhole, IsBody, May, Bodies
<1>18. Has(h, K, "attribute_list", p) => HasWhole(h, K, p, "AttributeList")
  BY KindsAre DEF Has, Fits, HasWhole, IsWhole, IsBody, May, Bodies
<1>19. Has(h, K, "type_spec", p) => HasWhole(h, K, p, "Type")
  BY KindsAre DEF Has, Fits, HasWhole, IsWhole, IsBody, May, Bodies
<1>20. Has(h, K, "expression", p) => HasWhole(h, K, p, "Expression")
  BY KindsAre DEF Has, Fits, HasWhole, IsWhole, IsBody, May, Bodies
<1>21. Has(h, K, "literal", p) => HasWhole(h, K, p, "Literal")
  BY KindsAre DEF Has, Fits, HasWhole, IsWhole, IsBody, May, Bodies
<1>22. Has(h, K, "IDENTIFIER", p) => HasWhole(h, K, p, "String")
  BY KindsAre DEF Has, Fits, HasWhole, IsWhole, IsBody, May, Bodies
<1>23. Has(h, K, "LIT_STRING", p) => HasWhole(h, K, p, "String")
  BY KindsAre DEF Has, Fits, HasWhole, IsWhole, IsBody, May, Bodies
<1> QED BY <1>1, <1>2, <1>3, <1>4, <1>5, <1>6, <1>7, <1>8, <1>9, <1>10, <1>11, <1>12, <1>13, <1>14, <1>15, <1>16, <1>17, <1>18, <1>19, <1>20, <1>21, <1>22, <1>23

LEMMA FitsIs ==
    ASSUME NEW h, NEW p, p # 0
    PROVE  /\ IsWhole(h, p, "Program") => Fits(h, "program", p)
           /\ IsWhole(h, p, "Schema") => Fits(h, "schema_decl", p)
           /\ IsBody(h, p, "Schema") => Fits(h, "schema_body", p)
           /\ IsWhole(h, p, "Entity") => Fits(h, "entity_decl", p)
           /\ IsBody(h, p, "Entity") => Fits(h, "entity_body", p)
           /\ IsWhole(h, p, "Attribute") => Fits(h, "attribute_decl", p)
           /\ IsWhole(h, p, "ModifierList") => Fits(h, "modifier_list", p)
           /\ IsWhole(h, p, "Modifier") => Fits(h, "modifier", p)
           /\ IsWhole(h, p, "PrimaryKey") => Fits(h, "primary_decl", p)
           /\ IsWhole(h, p, "QualifiedIdentifierList") => Fits(h, "qualified_identifier_list", p)
           /\ IsWhole(h, p, "QualifiedIdentifier") => Fits(h, "qualified_identifier", p)
           /\ IsWhole(h, p, "Assertion") => Fits(h, "assert_decl", p)
           /\ IsWhole(h, p, "Relationship") => Fits(h, "relationship_decl", p)
           /\ IsWhole(h, p, "ParticipantList") => Fits(h, "relationship_participant_list", p)
           /\ IsWhole(h, p, "Participant") => Fits(h, "relationship_participant", p)
           /\ IsWhole(h, p, "Participation") => Fits(h, "participation_opt", p)
           /\ IsBody(h, p, "Relationship") => Fits(h, "relationship_body", p)
           /\ IsWhole(h, p, "AttributeList") => Fits(h, "attribute_list", p)
           /\ IsWhole(h, p, "Type") => Fits(h, "type_spec", p)
           /\ IsWhole(h, p, "Expression") => Fits(h, "expression", p)
           /\ IsWhole(h, p, "Literal") => Fits(h, "literal", p)
           /\ IsWhole(h, p, "String") => Fits(h, "IDENTIFIER", p)
           /\ IsWhole(h, p, "String") => Fits(h, "LIT_STRING", p)
BY KindsAre DEF Fits, May, Bodies

LEMMA FitsEmpty == \A h : \A X \in May : Fits(h, X, 0)
BY KindsAre DEF Fits, May

\* What a new cell gets for one of its fields.
Supplies(h, K, f, u, x) ==
    \/ x = 0 /\ f \in Optional
    \/ x \in K /\ x # 0 /\ h[x].tag = u /\ Whole(h[x])
Supplied(h, K, tag, upd) ==
    /\ \A f \in DOMAIN upd : \E u : <<tag, f, u>> \in Slots /\ Supplies(h, K, f, u, upd[f])
    /\ \A f, u : <<tag, f, u>> \in Slots => f \in DOMAIN upd \/ f \in Optional
    /\ \A f, y \in DOMAIN upd : upd[f] = upd[y] /\ upd[f] # 0 => f = y
    /\ tag = "Expression" => \E f \in DOMAIN upd : upd[f] # 0
Buildable == Tags \ ({"String", "Schema", "Entity"} \cup ListTags)
Buildings(h, K, A, g, n, tag) ==
    Steps(h, K, A \ {0}, g, {n} \ {0}) /\ IsWhole(g, n, tag) /\ n # 0

\* A is what upd gives.
AllOf(upd, A) == A = {upd[f] : f \in DOMAIN upd}
GivesAll(h, K, tag, upd, A) ==
    Gives(h, K, tag, upd) /\ Plain(tag, upd) /\ Gifts(tag, upd) = A \ {0}

LEMMA SuppliedGives ==
    ASSUME NEW h, NEW K, Sound(h, K), NEW tag \in Buildable, NEW upd, Supplied(h, K, tag, upd),
           "next" \notin DOMAIN upd, NEW A, AllOf(upd, A)
    PROVE  GivesAll(h, K, tag, upd, A)
<1>1. K \subseteq DOMAIN h /\ Len(h) \in Nat /\ DOMAIN h = 1 .. Len(h)
  BY SoundFacts
<1>2. tag \in Tags
  BY DEF Buildable
<1>3. DOMAIN upd \subseteq Fields(tag)
  BY <1>2, SlotNames DEF Supplied
<1>4. DOMAIN upd \subseteq Names(tag) \ {"tag"}
  BY <1>2, <1>3, SlotNames
<1>5. \A f \in DOMAIN upd : upd[f] = 0 \/ upd[f] \in K
  BY DEF Supplied, Supplies
<1>6. Values(h, tag, upd)
  BY <1>1, <1>4, <1>5 DEF Values
<1>7. Gifts(tag, upd) = A \ {0}
  BY <1>3 DEF Gifts, AllOf
<1>8. ASSUME NEW f, NEW u, <<tag, f, u>> \in Slots, f \in DOMAIN upd, upd[f] # 0
      PROVE  h[upd[f]].tag = u /\ Whole(h[upd[f]])
  <2>1. PICK v : <<tag, f, v>> \in Slots /\ Supplies(h, K, f, v, upd[f])
    BY <1>8 DEF Supplied
  <2>2. u = v
    BY <2>1, <1>8, SlotFacts
  <2> QED BY <2>1, <2>2, <1>8 DEF Supplies
<1>9. Gives(h, K, tag, upd)
  <2>1. \A f, y \in DOMAIN upd \cap Fields(tag) : upd[f] = upd[y] /\ upd[f] # 0 => f = y
    BY DEF Supplied
  <2>2. Gifts(tag, upd) \subseteq K
    BY <1>5, <1>7 DEF AllOf
  <2> QED BY <1>6, <1>8, <2>1, <2>2 DEF Gives
<1>10. Plain(tag, upd)
  <2>1. EndNames(tag) \cap DOMAIN upd = {}
    <3>1. EndNames(tag) \subseteq Tails
      BY DEF EndNames
    <3>2. \A f \in DOMAIN upd : f \notin Tails
      BY SlotFacts DEF Supplied
    <3> QED BY <3>1, <3>2
  <2>2. \A f, l, u : <<tag, f, l, u>> \notin Begun
    BY DEF Begun, Buildable
  <2> QED BY <2>1, <2>2 DEF Plain
<1> QED BY <1>7, <1>9, <1>10 DEF GivesAll

LEMMA Building ==
    ASSUME NEW h, NEW K, Sound(h, K), NEW tag \in Buildable, NEW upd, Supplied(h, K, tag, upd),
           "next" \notin DOMAIN upd, NEW g, g = Append(h, New(tag, upd)), NEW n, n = Len(h) + 1,
           NEW A, AllOf(upd, A)
    PROVE  Buildings(h, K, A, g, n, tag)
<1>1. Gives(h, K, tag, upd) /\ Plain(tag, upd) /\ Gifts(tag, upd) = A \ {0}
  <2>1. GivesAll(h, K, tag, upd, A)
    BY SuppliedGives
  <2> QED BY <2>1 DEF GivesAll
<1>2. tag \in Tags \ {"String"} /\ tag \notin ListTags
  BY DEF Buildable
<1>3. PICK B : B = Gifts(tag, upd)
  OBVIOUS
<1>4. Built(h, K, tag, upd, g, B)
  BY <1>1, <1>2, <1>3, BuildStep
<1>5. /\ Steps(h, K, B, g, {n}) /\ g[n].tag = tag /\ n \in DOMAIN g
      /\ \A f \in Names(tag) \ {"tag"} : g[n][f] = IF f \in DOMAIN upd THEN upd[f] ELSE 0
  BY <1>4 DEF Built
<1>6. n # 0
  BY SoundFacts
<1>7. Whole(g[n])
  <2>1. ASSUME NEW f, NEW u, <<tag, f, u>> \in Slots
        PROVE  /\ g[n][f] # 0 \/ f \in Optional
               /\ f \in DOMAIN upd => g[n][f] = upd[f]
    <3>1. f \in Names(tag) \ {"tag"}
      BY <2>1, <1>2, SlotNames
    <3>2. CASE f \in DOMAIN upd
      <4>1. PICK v : Supplies(h, K, f, v, upd[f])
        BY <3>2 DEF Supplied
      <4> QED BY <4>1, <3>1, <3>2, <1>5 DEF Supplies
    <3>3. CASE f \notin DOMAIN upd
      BY <2>1, <3>3 DEF Supplied
    <3> QED BY <3>2, <3>3
  <2>2. ASSUME tag = "Expression" PROVE \E f, u : <<tag, f, u>> \in Slots /\ g[n][f] # 0
    <3>1. PICK f \in DOMAIN upd : upd[f] # 0
      BY <2>2 DEF Supplied
    <3>2. PICK u : <<tag, f, u>> \in Slots
      BY DEF Supplied
    <3> QED BY <3>1, <3>2, <2>1
  <2> QED BY <2>1, <2>2, <1>5 DEF Whole
<1> QED BY <1>1, <1>2, <1>3, <1>5, <1>6, <1>7 DEF Buildings, IsWhole

LEMMA WholeSupplies ==
    ASSUME NEW h, NEW K, NEW x, NEW t, NEW f
    PROVE  /\ HasWhole(h, K, x, t) => Supplies(h, K, f, t, x)
           /\ f \in Optional /\ HasMaybe(h, K, x, t) => Supplies(h, K, f, t, x)
BY DEF HasWhole, HasMaybe, IsWhole, Supplies

\* A value in two slots is none.
Differ(x, y) == x = y => x = 0

LEMMA BuildNone ==
    ASSUME NEW h, NEW K, Sound(h, K), NEW tag \in {"Type", "Modifier", "Participation", "Literal"},
           NEW upd, DOMAIN upd = {}, NEW g, g = Append(h, New(tag, upd)), NEW n, n = Len(h) + 1
    PROVE  Buildings(h, K, {}, g, n, tag)
<1>1. tag \in Buildable
  BY LayoutSmall DEF Buildable, ListTags
<1>2. Supplied(h, K, tag, upd)
  <2>1. \A f, u : <<tag, f, u>> \in Slots => f \in Optional
    BY SlotsOf DEF Optional
  <2> QED BY <2>1 DEF Supplied
<1>3. PICK A : A = {}
  OBVIOUS
<1>4. AllOf(upd, A) /\ "next" \notin DOMAIN upd
  BY <1>3 DEF AllOf
<1>5. Buildings(h, K, A, g, n, tag)
  BY <1>1, <1>2, <1>4, Building
<1> QED BY <1>3, <1>5

\* One field: its cell of tag u.
Single1(tag, f, u) ==
    /\ <<tag, f, u>> \in Slots
    /\ \A y, v : <<tag, y, v>> \in Slots => y = f \/ y \in Optional
LEMMA BuildOne ==
    ASSUME NEW h, NEW K, Sound(h, K), NEW tag \in Buildable, NEW f, NEW u, Single1(tag, f, u),
           f # "next", NEW x, HasWhole(h, K, x, u), NEW upd, One(upd, f, x),
           NEW g, g = Append(h, New(tag, upd)), NEW n, n = Len(h) + 1, NEW A, A = {x}
    PROVE  Buildings(h, K, A, g, n, tag)
<1>1. DOMAIN upd = {f} /\ upd[f] = x /\ x # 0
  BY DEF One, HasWhole
<1>2. Supplies(h, K, f, u, x)
  BY WholeSupplies
<1>3. Supplied(h, K, tag, upd)
  BY <1>1, <1>2 DEF Supplied, Single1
<1>4. AllOf(upd, A) /\ "next" \notin DOMAIN upd
  BY <1>1 DEF AllOf
<1> QED BY <1>3, <1>4, Building

LEMMA BuildTwo ==
    ASSUME NEW h, NEW K, Sound(h, K), NEW tag \in Buildable, NEW f, NEW u, NEW l, NEW v, f # l,
           <<tag, f, u>> \in Slots, <<tag, l, v>> \in Slots,
           \A y, w : <<tag, y, w>> \in Slots => y = f \/ y = l \/ y \in Optional,
           f # "next", l # "next", NEW x, Supplies(h, K, f, u, x), NEW z, Supplies(h, K, l, v, z),
           Differ(x, z), tag = "Expression" => x # 0,
           NEW upd, Two(upd, f, x, l, z),
           NEW g, g = Append(h, New(tag, upd)), NEW n, n = Len(h) + 1, NEW A, A = {x, z}
    PROVE  Buildings(h, K, A, g, n, tag)
<1>1. DOMAIN upd = {f, l} /\ upd[f] = x /\ upd[l] = z
  BY DEF Two
<1>3. Supplied(h, K, tag, upd)
  BY <1>1 DEF Supplied, Differ
<1>4. AllOf(upd, A) /\ "next" \notin DOMAIN upd
  BY <1>1 DEF AllOf
<1> QED BY <1>3, <1>4, Building

LEMMA BuildAttribute ==
    ASSUME NEW h, NEW K, Sound(h, K), NEW x, HasWhole(h, K, x, "String"),
           NEW y, HasWhole(h, K, y, "Type"), NEW z, HasMaybe(h, K, z, "ModifierList"),
           NEW upd, upd = [name |-> x, type |-> y, modifiers |-> z],
           NEW g, g = Append(h, New("Attribute", upd)), NEW n, n = Len(h) + 1,
           NEW A, A = {x, y, z}
    PROVE  Buildings(h, K, A, g, n, "Attribute")
<1>1. /\ DOMAIN upd = {"name", "type", "modifiers"} /\ upd["name"] = x /\ upd["type"] = y
      /\ upd["modifiers"] = z
  OBVIOUS
<1>2. Supplies(h, K, "name", "String", x) /\ Supplies(h, K, "type", "Type", y)
      /\ Supplies(h, K, "modifiers", "ModifierList", z)
  <2>1. "modifiers" \in Optional
    BY DEF Optional
  <2> QED BY <2>1, WholeSupplies
<1>3. x # y /\ Differ(x, z) /\ Differ(y, z) /\ x # 0 /\ y # 0
  BY DEF HasWhole, HasMaybe, IsWhole, Differ
<1>4. Supplied(h, K, "Attribute", upd)
  <2>1. \A f \in DOMAIN upd : \E u : <<"Attribute", f, u>> \in Slots /\ Supplies(h, K, f, u, upd[f])
    BY <1>1, <1>2, SlotsOf
  <2>2. \A f, u : <<"Attribute", f, u>> \in Slots => f \in DOMAIN upd
    BY <1>1, SlotsOf
  <2>3. \A f, k \in DOMAIN upd : upd[f] = upd[k] /\ upd[f] # 0 => f = k
    BY <1>1, <1>3 DEF Differ
  <2> QED BY <2>1, <2>2, <2>3 DEF Supplied
<1>5. AllOf(upd, A) /\ "next" \notin DOMAIN upd
  BY <1>1 DEF AllOf
<1>6. "Attribute" \in Buildable
  BY LayoutSmall DEF Buildable, ListTags
<1>7. PICK t : t = "Attribute"
  OBVIOUS
<1>8. Buildings(h, K, A, g, n, t)
  BY <1>4, <1>5, <1>6, <1>7, Building
<1> QED BY <1>7, <1>8

(* The actions that build a cell.                                          *)

Fresh(h, t, upd, g, n) == g = Append(h, New(t, upd)) /\ n = Len(h) + 1
LEMMA SchemaProgramMade ==
    ASSUME NEW h, NEW K, Sound(h, K), NEW x, Has(h, K, "schema_decl", x),
           NEW upd, upd = [schema |-> x], NEW g, NEW n, Fresh(h, "Program", upd, g, n), NEW A, A = {x}
    PROVE  Made(h, K, A, g, n, "program")
<1>0. g = Append(h, New("Program", upd)) /\ n = Len(h) + 1
  BY DEF Fresh
<1> USE <1>0
<1>1. HasWhole(h, K, x, "Schema")
  BY HasIs, SoundFacts
<1>2. PICK t : t = "Program"
  OBVIOUS
<1>3. PICK f : f = "schema"
  OBVIOUS
<1>4. PICK u : u = "Schema"
  OBVIOUS
<1>5. Single1(t, f, u) /\ f # "next" /\ t \in Buildable
  BY <1>2, <1>3, <1>4, SlotsOf, LayoutSmall DEF Single1, Buildable, ListTags, Optional
<1>6. One(upd, f, x)
  BY <1>3 DEF One
<1>7. Buildings(h, K, A, g, n, t)
  <2>1. HasWhole(h, K, x, u) /\ g = Append(h, New(t, upd))
    BY <1>1, <1>2, <1>4
  <2> QED BY <2>1, <1>5, <1>6, BuildOne
<1> QED BY <1>2, <1>7, FitsIs DEF Buildings, Made

LEMMA TypeMade ==
    ASSUME NEW h, NEW K, Sound(h, K), NEW upd, DOMAIN upd = {},
           NEW g, NEW n, Fresh(h, "Type", upd, g, n)
    PROVE  Made(h, K, {}, g, n, "type_spec")
<1>0. g = Append(h, New("Type", upd)) /\ n = Len(h) + 1
  BY DEF Fresh
<1> USE <1>0
<1>1. PICK t : t = "Type"
  OBVIOUS
<1>2. Buildings(h, K, {}, g, n, t)
  BY <1>1, BuildNone
<1> QED BY <1>1, <1>2, FitsIs DEF Buildings, Made

LEMMA ModifierMade ==
    ASSUME NEW h, NEW K, Sound(h, K), NEW upd, DOMAIN upd = {},
           NEW g, NEW n, Fresh(h, "Modifier", upd, g, n)
    PROVE  Made(h, K, {}, g, n, "modifier")
<1>0. g = Append(h, New("Modifier", upd)) /\ n = Len(h) + 1
  BY DEF Fresh
<1> USE <1>0
<1>1. PICK t : t = "Modifier"
  OBVIOUS
<1>2. Buildings(h, K, {}, g, n, t)
  BY <1>1, BuildNone
<1> QED BY <1>1, <1>2, FitsIs DEF Buildings, Made

LEMMA ParticipationMade ==
    ASSUME NEW h, NEW K, Sound(h, K), NEW upd, DOMAIN upd = {},
           NEW g, NEW n, Fresh(h, "Participation", upd, g, n)
    PROVE  Made(h, K, {}, g, n, "participation_opt")
<1>0. g = Append(h, New("Participation", upd)) /\ n = Len(h) + 1
  BY DEF Fresh
<1> USE <1>0
<1>1. PICK t : t = "Participation"
  OBVIOUS
<1>2. Buildings(h, K, {}, g, n, t)
  BY <1>1, BuildNone
<1> QED BY <1>1, <1>2, FitsIs DEF Buildings, Made

LEMMA LiteralMade ==
    ASSUME NEW h, NEW K, Sound(h, K), NEW upd, DOMAIN upd = {},
           NEW g, NEW n, Fresh(h, "Literal", upd, g, n)
    PROVE  Made(h, K, {}, g, n, "literal")
<1>0. g = Append(h, New("Literal", upd)) /\ n = Len(h) + 1
  BY DEF Fresh
<1> USE <1>0
<1>1. PICK t : t = "Literal"
  OBVIOUS
<1>2. Buildings(h, K, {}, g, n, t)
  BY <1>1, BuildNone
<1> QED BY <1>1, <1>2, FitsIs DEF Buildings, Made

LEMMA ModifierDefaultMade ==
    ASSUME NEW h, NEW K, Sound(h, K), NEW x, Has(h, K, "literal", x),
           NEW upd, upd = [defaultValue |-> x], NEW g, NEW n, Fresh(h, "Modifier", upd, g, n), NEW A, A = {x}
    PROVE  Made(h, K, A, g, n, "modifier")
<1>0. g = Append(h, New("Modifier", upd)) /\ n = Len(h) + 1
  BY DEF Fresh
<1> USE <1>0
<1>1. HasWhole(h, K, x, "Literal")
  BY HasIs, SoundFacts
<1>2. PICK t : t = "Modifier"
  OBVIOUS
<1>3. PICK f : f = "defaultValue"
  OBVIOUS
<1>4. PICK u : u = "Literal"
  OBVIOUS
<1>5. Single1(t, f, u) /\ f # "next" /\ t \in Buildable
  BY <1>2, <1>3, <1>4, SlotsOf, LayoutSmall DEF Single1, Buildable, ListTags, Optional
<1>6. One(upd, f, x)
  BY <1>3 DEF One
<1>7. Buildings(h, K, A, g, n, t)
  <2>1. HasWhole(h, K, x, u) /\ g = Append(h, New(t, upd))
    BY <1>1, <1>2, <1>4
  <2> QED BY <2>1, <1>5, <1>6, BuildOne
<1> QED BY <1>2, <1>7, FitsIs DEF Buildings, Made

LEMMA PrimaryKeyMade ==
    ASSUME NEW h, NEW K, Sound(h, K), NEW x, Has(h, K, "qualified_identifier_list", x),
           NEW upd, upd = [attributes |-> x], NEW g, NEW n, Fresh(h, "PrimaryKey", upd, g, n), NEW A, A = {x}
    PROVE  Made(h, K, A, g, n, "primary_decl")
<1>0. g = Append(h, New("PrimaryKey", upd)) /\ n = Len(h) + 1
  BY DEF Fresh
<1> USE <1>0
<1>1. HasWhole(h, K, x, "QualifiedIdentifierList")
  BY HasIs, SoundFacts
<1>2. PICK t : t = "PrimaryKey"
  OBVIOUS
<1>3. PICK f : f = "attributes"
  OBVIOUS
<1>4. PICK u : u = "QualifiedIdentifierList"
  OBVIOUS
<1>5. Single1(t, f, u) /\ f # "next" /\ t \in Buildable
  BY <1>2, <1>3, <1>4, SlotsOf, LayoutSmall DEF Single1, Buildable, ListTags, Optional
<1>6. One(upd, f, x)
  BY <1>3 DEF One
<1>7. Buildings(h, K, A, g, n, t)
  <2>1. HasWhole(h, K, x, u) /\ g = Append(h, New(t, upd))
    BY <1>1, <1>2, <1>4
  <2> QED BY <2>1, <1>5, <1>6, BuildOne
<1> QED BY <1>2, <1>7, FitsIs DEF Buildings, Made

LEMMA AssertionMade ==
    ASSUME NEW h, NEW K, Sound(h, K), NEW x, Has(h, K, "expression", x),
           NEW upd, upd = [condition |-> x], NEW g, NEW n, Fresh(h, "Assertion", upd, g, n), NEW A, A = {x}
    PROVE  Made(h, K, A, g, n, "assert_decl")
<1>0. g = Append(h, New("Assertion", upd)) /\ n = Len(h) + 1
  BY DEF Fresh
<1> USE <1>0
<1>1. HasWhole(h, K, x, "Expression")
  BY HasIs, SoundFacts
<1>2. PICK t : t = "Assertion"
  OBVIOUS
<1>3. PICK f : f = "condition"
  OBVIOUS
<1>4. PICK u : u = "Expression"
  OBVIOUS
<1>5. Single1(t, f, u) /\ f # "next" /\ t \in Buildable
  BY <1>2, <1>3, <1>4, SlotsOf, LayoutSmall DEF Single1, Buildable, ListTags, Optional
<1>6. One(upd, f, x)
  BY <1>3 DEF One
<1>7. Buildings(h, K, A, g, n, t)
  <2>1. HasWhole(h, K, x, u) /\ g = Append(h, New(t, upd))
    BY <1>1, <1>2, <1>4
  <2> QED BY <2>1, <1>5, <1>6, BuildOne
<1> QED BY <1>2, <1>7, FitsIs DEF Buildings, Made

LEMMA LiteralExpressionMade ==
    ASSUME NEW h, NEW K, Sound(h, K), NEW x, Has(h, K, "literal", x),
           NEW upd, upd = [literal |-> x], NEW g, NEW n, Fresh(h, "Expression", upd, g, n), NEW A, A = {x}
    PROVE  Made(h, K, A, g, n, "expression")
<1>0. g = Append(h, New("Expression", upd)) /\ n = Len(h) + 1
  BY DEF Fresh
<1> USE <1>0
<1>1. HasWhole(h, K, x, "Literal")
  BY HasIs, SoundFacts
<1>2. PICK t : t = "Expression"
  OBVIOUS
<1>3. PICK f : f = "literal"
  OBVIOUS
<1>4. PICK u : u = "Literal"
  OBVIOUS
<1>5. Single1(t, f, u) /\ f # "next" /\ t \in Buildable
  BY <1>2, <1>3, <1>4, SlotsOf, LayoutSmall DEF Single1, Buildable, ListTags, Optional
<1>6. One(upd, f, x)
  BY <1>3 DEF One
<1>7. Buildings(h, K, A, g, n, t)
  <2>1. HasWhole(h, K, x, u) /\ g = Append(h, New(t, upd))
    BY <1>1, <1>2, <1>4
  <2> QED BY <2>1, <1>5, <1>6, BuildOne
<1> QED BY <1>2, <1>7, FitsIs DEF Buildings, Made

LEMMA IdentifierExpressionMade ==
    ASSUME NEW h, NEW K, Sound(h, K), NEW x, Has(h, K, "IDENTIFIER", x),
           NEW upd, upd = [identifier |-> x], NEW g, NEW n, Fresh(h, "Expression", upd, g, n), NEW A, A = {x}
    PROVE  Made(h, K, A, g, n, "expression")
<1>0. g = Append(h, New("Expression", upd)) /\ n = Len(h) + 1
  BY DEF Fresh
<1> USE <1>0
<1>1. HasWhole(h, K, x, "String")
  BY HasIs, SoundFacts
<1>2. PICK t : t = "Expression"
  OBVIOUS
<1>3. PICK f : f = "identifier"
  OBVIOUS
<1>4. PICK u : u = "String"
  OBVIOUS
<1>5. Single1(t, f, u) /\ f # "next" /\ t \in Buildable
  BY <1>2, <1>3, <1>4, SlotsOf, LayoutSmall DEF Single1, Buildable, ListTags, Optional
<1>6. One(upd, f, x)
  BY <1>3 DEF One
<1>7. Buildings(h, K, A, g, n, t)
  <2>1. HasWhole(h, K, x, u) /\ g = Append(h, New(t, upd))
    BY <1>1, <1>2, <1>4
  <2> QED BY <2>1, <1>5, <1>6, BuildOne
<1> QED BY <1>2, <1>7, FitsIs DEF Buildings, Made

LEMMA StringLiteralMade ==
    ASSUME NEW h, NEW K, Sound(h, K), NEW x, Has(h, K, "LIT_STRING", x),
           NEW upd, upd = [string |-> x], NEW g, NEW n, Fresh(h, "Literal", upd, g, n), NEW A, A = {x}
    PROVE  Made(h, K, A, g, n, "literal")
<1>0. g = Append(h, New("Literal", upd)) /\ n = Len(h) + 1
  BY DEF Fresh
<1> USE <1>0
<1>1. HasWhole(h, K, x, "String")
  BY HasIs, SoundFacts
<1>2. PICK t : t = "Literal"
  OBVIOUS
<1>3. PICK f : f = "string"
  OBVIOUS
<1>4. PICK u : u = "String"
  OBVIOUS
<1>5. Single1(t, f, u) /\ f # "next" /\ t \in Buildable
  BY <1>2, <1>3, <1>4, SlotsOf, LayoutSmall DEF Single1, Buildable, ListTags, Optional
<1>6. One(upd, f, x)
  BY <1>3 DEF One
<1>7. Buildings(h, K, A, g, n, t)
  <2>1. HasWhole(h, K, x, u) /\ g = Append(h, New(t, upd))
    BY <1>1, <1>2, <1>4
  <2> QED BY <2>1, <1>5, <1>6, BuildOne
<1> QED BY <1>2, <1>7, FitsIs DEF Buildings, Made

LEMMA ArithmeticExpressionMade ==
    ASSUME NEW h, NEW K, Sound(h, K), NEW x, Has(h, K, "expression", x),
           NEW y, Has(h, K, "expression", y), Differ(x, y),
           NEW upd, upd = [left |-> x, right |-> y], NEW g, NEW n, Fresh(h, "Expression", upd, g, n), NEW A, A = {x, y}
    PROVE  Made(h, K, A, g, n, "expression")
<1>0. g = Append(h, New("Expression", upd)) /\ n = Len(h) + 1
  BY DEF Fresh
<1> USE <1>0
<1>1. HasWhole(h, K, x, "Expression") /\ HasWhole(h, K, y, "Expression")
  BY HasIs, SoundFacts DEF HasMaybe
<1>2. PICK t : t = "Expression"
  OBVIOUS
<1>3. PICK f, l : f = "left" /\ l = "right"
  OBVIOUS
<1>4. PICK u, v : u = "Expression" /\ v = "Expression"
  OBVIOUS
<1>5. /\ <<t, f, u>> \in Slots /\ <<t, l, v>> \in Slots /\ f # "next" /\ l # "next" /\ f # l
      /\ \A z, w : <<t, z, w>> \in Slots => z = f \/ z = l \/ z \in Optional
  BY <1>2, <1>3, <1>4, SlotsOf DEF Optional
<1>6. Two(upd, f, x, l, y)
  BY <1>3 DEF Two
<1>7. Supplies(h, K, f, u, x) /\ Supplies(h, K, l, v, y)
  <2>1. "entity" \in Optional /\ "participation" \in Optional
    BY DEF Optional
  <2> QED BY <2>1, <1>1, <1>3, <1>4, WholeSupplies
<1>8. Differ(x, y) /\ (t = "Expression" => x # 0)
  BY <1>1, <1>2 DEF Differ, HasWhole, HasMaybe, IsWhole
<1>9. Buildings(h, K, A, g, n, t)
  <2>1. g = Append(h, New(t, upd)) /\ t \in Buildable
    BY <1>2, LayoutSmall DEF Buildable, ListTags
  <2> QED BY <2>1, <1>5, <1>6, <1>7, <1>8, BuildTwo
<1> QED BY <1>2, <1>9, FitsIs DEF Buildings, Made

LEMMA ParticipantMade ==
    ASSUME NEW h, NEW K, Sound(h, K), NEW x, Has(h, K, "IDENTIFIER", x),
           NEW y, Has(h, K, "participation_opt", y),
           NEW upd, upd = [entityName |-> x, participation |-> y], NEW g, NEW n, Fresh(h, "Participant", upd, g, n), NEW A, A = {x, y}
    PROVE  Made(h, K, A, g, n, "relationship_participant")
<1>0. g = Append(h, New("Participant", upd)) /\ n = Len(h) + 1
  BY DEF Fresh
<1> USE <1>0
<1>1. HasWhole(h, K, x, "String") /\ HasMaybe(h, K, y, "Participation")
  BY HasIs, SoundFacts DEF HasMaybe
<1>2. PICK t : t = "Participant"
  OBVIOUS
<1>3. PICK f, l : f = "entityName" /\ l = "participation"
  OBVIOUS
<1>4. PICK u, v : u = "String" /\ v = "Participation"
  OBVIOUS
<1>5. /\ <<t, f, u>> \in Slots /\ <<t, l, v>> \in Slots /\ f # "next" /\ l # "next" /\ f # l
      /\ \A z, w : <<t, z, w>> \in Slots => z = f \/ z = l \/ z \in Optional
  BY <1>2, <1>3, <1>4, SlotsOf DEF Optional
<1>6. Two(upd, f, x, l, y)
  BY <1>3 DEF Two
<1>7. Supplies(h, K, f, u, x) /\ Supplies(h, K, l, v, y)
  <2>1. "entity" \in Optional /\ "participation" \in Optional
    BY DEF Optional
  <2> QED BY <2>1, <1>1, <1>3, <1>4, WholeSupplies
<1>8. Differ(x, y) /\ (t = "Expression" => x # 0)
  BY <1>1, <1>2 DEF Differ, HasWhole, HasMaybe, IsWhole
<1>9. Buildings(h, K, A, g, n, t)
  <2>1. g = Append(h, New(t, upd)) /\ t \in Buildable
    BY <1>2, LayoutSmall DEF Buildable, ListTags
  <2> QED BY <2>1, <1>5, <1>6, <1>7, <1>8, BuildTwo
<1> QED BY <1>2, <1>9, FitsIs DEF Buildings, Made

LEMMA QualifiedIdentifierMade ==
    ASSUME NEW h, NEW K, Sound(h, K), NEW x, x = 0 \/ Has(h, K, "IDENTIFIER", x),
           NEW y, Has(h, K, "IDENTIFIER", y), Differ(x, y),
           NEW upd, upd = [entity |-> x, attribute |-> y], NEW g, NEW n, Fresh(h, "QualifiedIdentifier", upd, g, n), NEW A, A = {x, y}
    PROVE  Made(h, K, A, g, n, "qualified_identifier")
<1>0. g = Append(h, New("QualifiedIdentifier", upd)) /\ n = Len(h) + 1
  BY DEF Fresh
<1> USE <1>0
<1>1. HasMaybe(h, K, x, "String") /\ HasWhole(h, K, y, "String")
  BY HasIs, SoundFacts DEF HasMaybe
<1>2. PICK t : t = "QualifiedIdentifier"
  OBVIOUS
<1>3. PICK f, l : f = "entity" /\ l = "attribute"
  OBVIOUS
<1>4. PICK u, v : u = "String" /\ v = "String"
  OBVIOUS
<1>5. /\ <<t, f, u>> \in Slots /\ <<t, l, v>> \in Slots /\ f # "next" /\ l # "next" /\ f # l
      /\ \A z, w : <<t, z, w>> \in Slots => z = f \/ z = l \/ z \in Optional
  BY <1>2, <1>3, <1>4, SlotsOf DEF Optional
<1>6. Two(upd, f, x, l, y)
  BY <1>3 DEF Two
<1>7. Supplies(h, K, f, u, x) /\ Supplies(h, K, l, v, y)
  <2>1. "entity" \in Optional /\ "participation" \in Optional
    BY DEF Optional
  <2> QED BY <2>1, <1>1, <1>3, <1>4, WholeSupplies
<1>8. Differ(x, y) /\ (t = "Expression" => x # 0)
  BY <1>1, <1>2 DEF Differ, HasWhole, HasMaybe, IsWhole
<1>9. Buildings(h, K, A, g, n, t)
  <2>1. g = Append(h, New(t, upd)) /\ t \in Buildable
    BY <1>2, LayoutSmall DEF Buildable, ListTags
  <2> QED BY <2>1, <1>5, <1>6, <1>7, <1>8, BuildTwo
<1> QED BY <1>2, <1>9, FitsIs DEF Buildings, Made

LEMMA AttributeMade ==
    ASSUME NEW h, NEW K, Sound(h, K), NEW x, Has(h, K, "IDENTIFIER", x),
           NEW y, Has(h, K, "type_spec", y), NEW z, Has(h, K, "modifier_list", z),
           NEW upd, upd = [name |-> x, type |-> y, modifiers |-> z],
           NEW g, NEW n, Fresh(h, "Attribute", upd, g, n),
           NEW A, A = {x, y, z}
    PROVE  Made(h, K, A, g, n, "attribute_decl")
<1>0. g = Append(h, New("Attribute", upd)) /\ n = Len(h) + 1
  BY DEF Fresh
<1> USE <1>0
<1>1. /\ HasWhole(h, K, x, "String") /\ HasWhole(h, K, y, "Type")
      /\ HasMaybe(h, K, z, "ModifierList")
  BY HasIs, SoundFacts
<1>2. Buildings(h, K, A, g, n, "Attribute")
  BY <1>1, BuildAttribute
<1> QED BY <1>2, FitsIs DEF Buildings, Made

(* The actions that put a cell at the end of a list.                       *)

\* Where both are values, x came before y.
Earlier(h, x, y) == x # 0 /\ y # 0 => Before(h, x, y)

LEMMA EarlierDiffers ==
    ASSUME NEW h, NEW x, NEW y, Earlier(h, x, y), x = 0 \/ x \in Nat
    PROVE  Differ(x, y)
<1> SUFFICES ASSUME x = y, x # 0 PROVE FALSE
  BY DEF Differ
<1>1. Before(h, x, x) /\ x \in Marks(h, x)
  BY DEF Earlier, Marks
<1>2. x < x
  BY <1>1 DEF Before
<1> QED BY <1>2

NodeIs(h, t, list, upd, g, p) ==
    LET n == Len(h) + 1
        k == Append(h, New(t, upd))
    IN  IF list = 0 THEN g = [k EXCEPT ![n].last = n] /\ p = n
        ELSE g = [k EXCEPT ![k[list].last].next = n, ![list].last = n] /\ p = list
Node(h, K, A, g, p, t) == Steps(h, K, A \ {0}, g, {p} \ {0}) /\ IsWhole(g, p, t) /\ p # 0

LEMMA NodeStep ==
    ASSUME NEW h, NEW K, Sound(h, K), NEW t, NEW item, NEW upd, NodeGifts(h, K, t, item, upd),
           NEW list, HasMaybe(h, K, list, t), Earlier(h, list, item),
           NEW g, NEW p, NodeIs(h, t, list, upd, g, p), NEW A, A = {list, item}
    PROVE  Node(h, K, A, g, p, t)
<1>1. 0 \notin K /\ Len(h) \in Nat /\ item \in K /\ K \subseteq DOMAIN h /\ DOMAIN h = 1 .. Len(h)
  BY SoundFacts DEF NodeGifts
<1>2. item # 0
  BY <1>1
<1>3. PICK k : k = Append(h, New(t, upd))
  OBVIOUS
<1>4. PICK n : n = Len(h) + 1
  OBVIOUS
<1>5. n # 0
  BY <1>1, <1>4
<1>6. PICK B : B = A \ {0}
  OBVIOUS
<1>7. CASE list = 0
  <2>1. g = [k EXCEPT ![n].last = n] /\ p = n
    BY <1>3, <1>4, <1>7 DEF NodeIs
  <2>2. B = {item}
    BY <1>2, <1>6, <1>7
  <2>3. Noded(h, K, B, g, n, t)
    BY <1>3, <1>4, <2>1, <2>2, NodeFirst
  <2>4. {p} \ {0} = {n}
    BY <2>1, <1>5
  <2> QED BY <2>1, <2>3, <2>4, <1>5, <1>6 DEF Noded, Node
<1>8. CASE list # 0
  <2>1. g = [k EXCEPT ![k[list].last].next = n, ![list].last = n] /\ p = list
    BY <1>3, <1>4, <1>8 DEF NodeIs
  <2>2. HasWhole(h, K, list, t)
    BY <1>8 DEF HasMaybe
  <2>3. list # item
    <3>1. list \in Nat
      BY <2>2, <1>1 DEF HasWhole
    <3> QED BY <3>1, <1>8, EarlierDiffers DEF Differ
  <2>4. list \in K \ {item} /\ IsWhole(h, list, t) /\ Before(h, list, item)
    BY <2>2, <2>3, <1>2, <1>8 DEF HasWhole, Earlier
  <2>5. B = {list, item}
    BY <1>2, <1>6, <1>8
  <2>6. Noded(h, K, B, g, list, t)
    BY <1>3, <1>4, <2>1, <2>4, <2>5, NodeNext
  <2>7. {p} \ {0} = {list}
    BY <2>1, <1>8
  <2> QED BY <2>1, <2>6, <2>7, <1>6, <1>8 DEF Noded, Node
<1> QED BY <1>7, <1>8

LEMMA AttributeListed ==
    ASSUME NEW h, NEW K, Sound(h, K), NEW x, x = 0 \/ Has(h, K, "attribute_list", x),
           NEW y, Has(h, K, "attribute_decl", y), Earlier(h, x, y),
           NEW upd, upd = [attribute |-> y], NEW g, NEW p, NodeIs(h, "AttributeList", x, upd, g, p),
           NEW A, A = {x, y}
    PROVE  Made(h, K, A, g, p, "attribute_list")
<1>1. HasMaybe(h, K, x, "AttributeList") /\ HasWhole(h, K, y, "Attribute")
  BY HasIs, SoundFacts DEF HasMaybe
<1>2. PICK t : t = "AttributeList"
  OBVIOUS
<1>3. NodeGifts(h, K, t, y, upd)
  <2>1. t \in ListTags /\ Leading[t] = "attribute" /\ \A v : <<t, "attribute", v>> \in Slots => v = "Attribute"
    BY <1>2, SlotsOf DEF ListTags, Leading
  <2> QED BY <2>1, <1>1 DEF NodeGifts, HasWhole, IsWhole
<1>4. Node(h, K, A, g, p, t)
  <2>1. HasMaybe(h, K, x, t) /\ NodeIs(h, t, x, upd, g, p)
    BY <1>1, <1>2
  <2> QED BY <2>1, <1>3, NodeStep
<1> QED BY <1>2, <1>4, FitsIs DEF Node, Made

LEMMA ModifierListed ==
    ASSUME NEW h, NEW K, Sound(h, K), NEW x, x = 0 \/ Has(h, K, "modifier_list", x),
           NEW y, Has(h, K, "modifier", y), Earlier(h, x, y),
           NEW upd, upd = [modifier |-> y], NEW g, NEW p, NodeIs(h, "ModifierList", x, upd, g, p),
           NEW A, A = {x, y}
    PROVE  Made(h, K, A, g, p, "modifier_list")
<1>1. HasMaybe(h, K, x, "ModifierList") /\ HasWhole(h, K, y, "Modifier")
  BY HasIs, SoundFacts DEF HasMaybe
<1>2. PICK t : t = "ModifierList"
  OBVIOUS
<1>3. NodeGifts(h, K, t, y, upd)
  <2>1. t \in ListTags /\ Leading[t] = "modifier" /\ \A v : <<t, "modifier", v>> \in Slots => v = "Modifier"
    BY <1>2, SlotsOf DEF ListTags, Leading
  <2> QED BY <2>1, <1>1 DEF NodeGifts, HasWhole, IsWhole
<1>4. Node(h, K, A, g, p, t)
  <2>1. HasMaybe(h, K, x, t) /\ NodeIs(h, t, x, upd, g, p)
    BY <1>1, <1>2
  <2> QED BY <2>1, <1>3, NodeStep
<1> QED BY <1>2, <1>4, FitsIs DEF Node, Made

LEMMA QualifiedListed ==
    ASSUME NEW h, NEW K, Sound(h, K), NEW x, x = 0 \/ Has(h, K, "qualified_identifier_list", x),
           NEW y, Has(h, K, "qualified_identifier", y), Earlier(h, x, y),
           NEW upd, upd = [qid |-> y], NEW g, NEW p, NodeIs(h, "QualifiedIdentifierList", x, upd, g, p),
           NEW A, A = {x, y}
    PROVE  Made(h, K, A, g, p, "qualified_identifier_list")
<1>1. HasMaybe(h, K, x, "QualifiedIdentifierList") /\ HasWhole(h, K, y, "QualifiedIdentifier")
  BY HasIs, SoundFacts DEF HasMaybe
<1>2. PICK t : t = "QualifiedIdentifierList"
  OBVIOUS
<1>3. NodeGifts(h, K, t, y, upd)
  <2>1. t \in ListTags /\ Leading[t] = "qid" /\ \A v : <<t, "qid", v>> \in Slots => v = "QualifiedIdentifier"
    BY <1>2, SlotsOf DEF ListTags, Leading
  <2> QED BY <2>1, <1>1 DEF NodeGifts, HasWhole, IsWhole
<1>4. Node(h, K, A, g, p, t)
  <2>1. HasMaybe(h, K, x, t) /\ NodeIs(h, t, x, upd, g, p)
    BY <1>1, <1>2
  <2> QED BY <2>1, <1>3, NodeStep
<1> QED BY <1>2, <1>4, FitsIs DEF Node, Made

LEMMA ParticipantListed ==
    ASSUME NEW h, NEW K, Sound(h, K), NEW x, x = 0 \/ Has(h, K, "relationship_participant_list", x),
           NEW y, Has(h, K, "relationship_participant", y), Earlier(h, x, y),
           NEW upd, upd = [participant |-> y], NEW g, NEW p, NodeIs(h, "ParticipantList", x, upd, g, p),
           NEW A, A = {x, y}
    PROVE  Made(h, K, A, g, p, "relationship_participant_list")
<1>1. HasMaybe(h, K, x, "ParticipantList") /\ HasWhole(h, K, y, "Participant")
  BY HasIs, SoundFacts DEF HasMaybe
<1>2. PICK t : t = "ParticipantList"
  OBVIOUS
<1>3. NodeGifts(h, K, t, y, upd)
  <2>1. t \in ListTags /\ Leading[t] = "participant" /\ \A v : <<t, "participant", v>> \in Slots => v = "Participant"
    BY <1>2, SlotsOf DEF ListTags, Leading
  <2> QED BY <2>1, <1>1 DEF NodeGifts, HasWhole, IsWhole
<1>4. Node(h, K, A, g, p, t)
  <2>1. HasMaybe(h, K, x, t) /\ NodeIs(h, t, x, upd, g, p)
    BY <1>1, <1>2
  <2> QED BY <2>1, <1>3, NodeStep
<1> QED BY <1>2, <1>4, FitsIs DEF Node, Made

\* The attributes of a relationship, with their tail.
LEMMA RelationshipBodyMade ==
    ASSUME NEW h, NEW K, Sound(h, K), NEW x, Has(h, K, "attribute_list", x),
           NEW upd, upd = [attributes |-> x, attributes_last |-> h[x].last],
           NEW g, NEW n, Fresh(h, "Relationship", upd, g, n), NEW A, A = {x}
    PROVE  Made(h, K, A, g, n, "relationship_body")
<1>0. g = Append(h, New("Relationship", upd)) /\ n = Len(h) + 1
  BY DEF Fresh
<1> USE <1>0
<1>1. Ownership(h, K) /\ K \subseteq DOMAIN h /\ Len(h) \in Nat /\ DOMAIN h = 1 .. Len(h)
  BY SoundFacts
<1>2. HasWhole(h, K, x, "AttributeList")
  BY HasIs, SoundFacts
<1>3. x \in K /\ x # 0 /\ h[x].tag = "AttributeList" /\ Whole(h[x]) /\ x \in DOMAIN h
  BY <1>2 DEF HasWhole, IsWhole
<1>4. /\ DOMAIN upd = {"attributes", "attributes_last"} /\ upd["attributes"] = x
      /\ upd["attributes_last"] = h[x].last
  OBVIOUS
<1>5. PICK t : t = "Relationship"
  OBVIOUS
<1>6. t \in Tags \ {"String"} /\ "attributes_last" \in Tails /\ "last" \in Tails
  BY <1>5, LayoutSmall DEF Tails
<1>7. /\ "attributes" \in Names(t) \ {"tag"} /\ "attributes_last" \in Names(t) \ {"tag"}
      /\ "attributes" \in Fields(t) /\ "attributes_last" \notin Fields(t)
      /\ \A u : <<t, "attributes", u>> \in Slots => u = "AttributeList"
      /\ "name" \in Names(t) \ {"tag"} /\ "participants" \in Names(t) \ {"tag"}
  <2>1. /\ <<t, "attributes", "AttributeList">> \in Slots /\ <<t, "name", "String">> \in Slots
        /\ <<t, "participants", "ParticipantList">> \in Slots
    BY <1>5, SlotsOf
  <2>2. "attributes_last" \notin Fields(t)
    <3>1. \A u : <<t, "attributes_last", u>> \notin Slots
      BY <1>5, SlotsOf
    <3>2. t \in Tags
      BY <1>6
    <3>3. "attributes_last" \in Fields(t) <=> \E u : <<t, "attributes_last", u>> \in Slots
      BY <3>2, FieldsAre
    <3> QED BY <3>1, <3>3
  <2>3. \A u : <<t, "attributes", u>> \in Slots => u = "AttributeList"
    BY <1>5, SlotsOf
  <2>4. /\ "attributes" \in Names(t) \ {"tag"} /\ "attributes" \in Fields(t)
        /\ "name" \in Names(t) \ {"tag"} /\ "participants" \in Names(t) \ {"tag"}
    BY <2>1, <1>6, SlotNames
  <2>5. "attributes_last" \in Names(t) \ {"tag"}
    BY <1>6, SlotNames
  <2> QED BY <2>2, <2>3, <2>4, <2>5
<1>8. Gifts(t, upd) = {x}
  BY <1>3, <1>4, <1>7 DEF Gifts
<1>9. Gives(h, K, t, upd)
  <2>1. Values(h, t, upd)
    <3>1. h[x].last \in 0 .. Len(h)
      BY <1>1, <1>3, <1>6, HeapFacts
    <3> QED BY <3>1, <1>1, <1>3, <1>4, <1>7 DEF Values
  <2>2. ASSUME NEW f, NEW u, <<t, f, u>> \in Slots, f \in DOMAIN upd
        PROVE  f = "attributes" /\ u = "AttributeList"
    BY <2>2, <1>4, <1>6, <1>7, SlotFacts
  <2>3. \A f, y \in DOMAIN upd \cap Fields(t) : f = y
    BY <1>4, <1>7
  <2>4. "next" \notin DOMAIN upd
    BY <1>4
  <2> QED BY <2>1, <2>2, <2>3, <2>4, <1>3, <1>4, <1>8 DEF Gives
<1>10. Plain(t, upd)
  <2>1. EndNames(t) = {}
    BY <1>5, <1>6, EndFacts DEF ListTags
  <2>2. \A f, l, u : <<t, f, l, u>> \notin Begun
    BY <1>5 DEF Begun
  <2> QED BY <2>1, <2>2, <1>4 DEF Plain
<1>11. PICK B : B = Gifts(t, upd)
  OBVIOUS
<1>12. Built(h, K, t, upd, g, B)
  <2>1. g = Append(h, New(t, upd))
    BY <1>5
  <2> QED BY <2>1, <1>6, <1>9, <1>10, <1>11, BuildStep
<1>13. /\ Steps(h, K, B, g, {n}) /\ n # 0 /\ B = A \ {0} /\ {n} \ {0} = {n}
  BY <1>1, <1>3, <1>8, <1>11, <1>12 DEF Built
<1>14. IsBody(g, n, "Relationship")
  <2>1. n \in DOMAIN g /\ g[n].tag = t /\ g[n]["name"] = 0 /\ g[n]["participants"] = 0
    BY <1>4, <1>7, <1>12 DEF Built
  <2> QED BY <2>1, <1>5 DEF IsBody, Bare
<1> QED BY <1>13, <1>14, FitsIs DEF Made

(* The actions that put a cell at the end of a list of a body.             *)

\* Body b of heap k is x of heap h, or new; n of heap m is y of heap h, or owns it.
Grown(h, K, x, t, k, b, y, m, n, f, l, u) ==
    /\ Bodied(h, K, x, t, k, b) /\ y \in K \ {x} /\ y # b
    /\ Steps(k, (K \ ({x} \ {0})) \cup {b}, {y}, m, {n}) /\ n # b
    /\ m[n].tag = u /\ Whole(m[n]) /\ m[n].next = 0
    /\ m[b][f] # 0 => Lead(m[m[b][l]]) < Lead(m[n])
Longer(h, K, A, g, b, t) == Steps(h, K, A \ {0}, g, {b} \ {0}) /\ IsBody(g, b, t) /\ b # 0

LEMMA GrownLinked ==
    ASSUME NEW h, NEW K, Sound(h, K), NEW t, NEW f, NEW l, NEW u, <<t, f, l, u>> \in Begun,
           NEW x, NEW k, NEW b, NEW y, NEW m, NEW n, Grown(h, K, x, t, k, b, y, m, n, f, l, u),
           NEW g, g = Link(m, b, f, l, n), NEW A, A = {x, y}
    PROVE  Longer(h, K, A, g, b, t)
<1>1. PICK A1 : A1 = {x} \ {0}
  OBVIOUS
<1>2. PICK J : J = (K \ A1) \cup {b}
  OBVIOUS
<1>3. /\ Steps(h, K, A1, k, {b}) /\ IsBody(k, b, t) /\ y \in K \ {x} /\ y # b
      /\ Steps(k, J, {y}, m, {n}) /\ n # b
      /\ m[n].tag = u /\ Whole(m[n]) /\ m[n].next = 0
      /\ m[b][f] # 0 => Lead(m[m[b][l]]) < Lead(m[n])
  BY <1>1, <1>2 DEF Grown, Bodied
<1>4. PICK J2 : J2 = (J \ {y}) \cup {n}
  OBVIOUS
<1>5. /\ Sound(m, J2) /\ b \in J2 /\ m[b] = k[b] /\ n \in J2 \ {b} /\ b # 0
  <2>1. b \in J \ {y}
    BY <1>2, <1>3
  <2>2. Sound(m, J2) /\ m[b] = k[b] /\ 0 \notin {b}
    BY <2>1, <1>3, <1>4 DEF Steps
  <2> QED BY <2>1, <2>2, <1>3, <1>4
<1>6. m[b].tag = t /\ Links(m, J2, b, u, n)
  BY <1>3, <1>5 DEF Links, IsBody
<1>7. Linked(m, J2, b, f, l, n, g)
  <2>1. <<m[b].tag, f, l, u>> \in Begun
    BY <1>6
  <2> QED BY <2>1, <1>3, <1>5, <1>6, LinkStep
<1>8. Steps(k, J, {y, b}, g, {b})
  <2>1. PICK P : P = {n}
    OBVIOUS
  <2>2. PICK Q : Q = {b}
    OBVIOUS
  <2>3. PICK A2 : A2 = {y}
    OBVIOUS
  <2>4. PICK B : B = {b, n}
    OBVIOUS
  <2>5. PICK AB : AB = {y, b}
    OBVIOUS
  <2>6. AB = A2 \cup (B \ P) /\ Q = (P \ B) \cup Q /\ J2 = (J \ A2) \cup P
    BY <2>1, <2>2, <2>3, <2>4, <2>5, <1>3, <1>4
  <2>7. Steps(k, J, A2, m, P) /\ Steps(m, J2, B, g, Q)
    BY <2>1, <2>2, <2>3, <2>4, <1>3, <1>7 DEF Linked
  <2>8. Steps(k, J, AB, g, Q)
    BY <2>6, <2>7, StepThen
  <2> QED BY <2>2, <2>5, <2>8
<1>9. Steps(h, K, A \ {0}, g, {b})
  <2>1. PICK P : P = {b}
    OBVIOUS
  <2>2. PICK B : B = {y, b}
    OBVIOUS
  <2>3. PICK AB : AB = A \ {0}
    OBVIOUS
  <2>4. y # 0
    BY <1>3, SoundFacts
  <2>5. AB = A1 \cup (B \ P) /\ P = (P \ B) \cup P /\ J = (K \ A1) \cup P
    BY <2>1, <2>2, <2>3, <2>4, <1>1, <1>2, <1>3
  <2>6. Steps(h, K, A1, k, P) /\ Steps(k, J, B, g, P)
    BY <2>1, <2>2, <1>3, <1>8
  <2>7. Steps(h, K, AB, g, P)
    BY <2>5, <2>6, StepThen
  <2> QED BY <2>1, <2>3, <2>7
<1>10. IsBody(g, b, t)
  <2>1. /\ DOMAIN g = DOMAIN m /\ g[b].tag = t
        /\ \A z \in Names(t) \ {f, l} : g[b][z] = m[b][z]
    BY <1>6, <1>7 DEF Linked
  <2>2. b \in DOMAIN m
    BY <1>5, SoundFacts
  <2>3. Bare[t] \subseteq Names(t) \ {f, l}
    <3>1. t \in Tags /\ f \notin Bare[t] /\ l \notin Bare[t]
      BY LayoutSmall DEF Begun, Bare
    <3>2. \A z \in Bare[t] : \E v : <<t, z, v>> \in Slots
      BY DEF Begun, Bare, Slots
    <3> QED BY <3>1, <3>2, SlotNames
  <2> QED BY <2>1, <2>2, <2>3, <1>3, <1>5 DEF IsBody
<1> QED BY <1>5, <1>9, <1>10 DEF Longer

LEMMA BeforeNot ==
    ASSUME NEW h, NEW x, x \in Nat \ {0}, NEW y, Before(h, x, y)
    PROVE  x # y
<1> SUFFICES ASSUME x = y PROVE FALSE
  OBVIOUS
<1>1. x \in Marks(h, x)
  BY DEF Marks
<1>2. x < x
  BY <1>1 DEF Before
<1> QED BY <1>2

\* What a body already has comes first.
LEMMA BodyReady ==
    ASSUME NEW h, NEW K, Sound(h, K), NEW t, NEW f, NEW l, NEW u, <<t, f, l, u>> \in Begun,
           NEW x, HasBody(h, K, x, t), NEW y, y \in K, Earlier(h, x, y),
           NEW k, k = BodyOf(h, x, t), NEW b, b = HereOf(h, x)
    PROVE  /\ Bodied(h, K, x, t, k, b) /\ y \in K \ {x} /\ y # b /\ k[y] = h[y]
           /\ k[b][f] # 0 => k = h /\ b = x /\ x # 0 /\ h[x][l] # 0 /\ x \in K
<1>1. Ownership(h, K) /\ K \subseteq DOMAIN h /\ Len(h) \in Nat /\ DOMAIN h = 1 .. Len(h) /\ 0 \notin K
  BY SoundFacts
<1>2. t \in {"Schema", "Entity", "Relationship"}
  BY DEF Begun
<1>3. Bodied(h, K, x, t, k, b)
  <2>1. x = 0 \/ (x \in K /\ IsBody(h, x, t))
    BY DEF HasBody
  <2> QED BY <2>1, <1>2, BodyStep
<1>4. y # x
  <2>1. x = 0 => y # x
    BY <1>1
  <2>2. x # 0 => x \in Nat \ {0} /\ Before(h, x, y)
    BY <1>1 DEF HasBody, Earlier
  <2> QED BY <2>1, <2>2, BeforeNot
<1>5. y # b /\ k[y] = h[y]
  BY <1>1, <1>3, <1>4 DEF Bodied
<1>6. ASSUME k[b][f] # 0 PROVE k = h /\ b = x /\ x # 0 /\ h[x][l] # 0 /\ x \in K
  <2>1. x # 0
    <3>1. f \in Names(t) \ {"tag"}
      <4>1. <<t, f, u>> \in Slots /\ t \in Tags
        BY <1>2, EndFacts, LayoutSmall
      <4> QED BY <4>1, SlotNames
    <3> QED BY <3>1, <1>3, <1>6 DEF Bodied
  <2>2. k = h /\ b = x
    BY <2>1 DEF BodyOf, HereOf
  <2>3. x \in K /\ h[x].tag = t
    BY <2>1 DEF HasBody, IsBody
  <2>4. Open(h, x)
    BY <2>3 DEF Sound
  <2>5. h[x][l] # 0
    BY <2>2, <2>3, <2>4, <1>6 DEF Open
  <2> QED BY <2>1, <2>2, <2>3, <2>5
<1> QED BY <1>3, <1>4, <1>5, <1>6

LEMMA AppendedTo ==
    ASSUME NEW h, NEW K, Sound(h, K), NEW t, NEW f, NEW l, NEW u, <<t, f, l, u>> \in Begun,
           u \notin ListTags,
           NEW x, HasBody(h, K, x, t), NEW y, HasWhole(h, K, y, u), Earlier(h, x, y),
           NEW k, k = BodyOf(h, x, t), NEW b, b = HereOf(h, x), NEW g, g = Link(k, b, f, l, y),
           NEW A, A = {x, y}
    PROVE  Longer(h, K, A, g, b, t)
<1>1. y \in K /\ h[y].tag = u /\ Whole(h[y]) /\ y # 0
  BY DEF HasWhole, IsWhole
<1>2. /\ Bodied(h, K, x, t, k, b) /\ y \in K \ {x} /\ y # b /\ k[y] = h[y]
      /\ k[b][f] # 0 => k = h /\ b = x /\ x # 0 /\ h[x][l] # 0 /\ x \in K
  BY <1>1, BodyReady
<1>3. h[y].next = 0
  <2>1. Open(h, y)
    BY <1>1 DEF Sound
  <2>2. u \in Chained \ ListTags
    <3>1. <<t, l, u>> \in Ends
      BY EndFacts
    <3> QED BY <3>1, EndFacts
  <2> QED BY <2>1, <2>2, <1>1 DEF Open
<1>4. ASSUME k[b][f] # 0 PROVE Lead(k[k[b][l]]) < Lead(k[y])
  <2>1. k = h /\ b = x /\ x # 0 /\ h[x][l] # 0 /\ x \in K
    BY <1>2, <1>4
  <2>2. h[x].tag = t /\ <<t, l, u>> \in Ends /\ Before(h, x, y)
    <3>1. <<t, l, u>> \in Ends
      BY EndFacts
    <3> QED BY <3>1, <2>1, <1>1 DEF HasBody, IsBody, Earlier
  <2>3. Lead(h[h[x][l]]) < Lead(h[y])
    <3>1. y \in K \ {x} /\ <<h[x].tag, l, u>> \in Ends
      BY <1>2, <2>2
    <3> QED BY <3>1, <2>1, <2>2, <1>1, BeforeLead
  <2> QED BY <2>1, <2>3
<1>5. Steps(k, (K \ ({x} \ {0})) \cup {b}, {y}, k, {y})
  <2>1. PICK J : J = (K \ ({x} \ {0})) \cup {b}
    OBVIOUS
  <2>2. Sound(k, J)
    BY <2>1, <1>2 DEF Bodied, Steps
  <2>3. {y} \subseteq J
    BY <2>1, <1>2
  <2> QED BY <2>1, <2>2, <2>3, NoStep
<1>6. Grown(h, K, x, t, k, b, y, k, y, f, l, u)
  BY <1>1, <1>2, <1>3, <1>4, <1>5 DEF Grown
<1> QED BY <1>6, GrownLinked

\* An attribute gets a node of its own.
LEMMA AppendedAttribute ==
    ASSUME NEW h, NEW K, Sound(h, K), NEW x, HasBody(h, K, x, "Entity"),
           NEW y, HasWhole(h, K, y, "Attribute"), Earlier(h, x, y),
           NEW k, k = BodyOf(h, x, "Entity"), NEW b, b = HereOf(h, x),
           NEW upd, upd = [attribute |-> y], NEW m, m = Append(k, New("AttributeList", upd)),
           NEW n, n = Len(k) + 1, NEW g, g = Link(m, b, "attributes", "attributes_last", n),
           NEW A, A = {x, y}
    PROVE  Longer(h, K, A, g, b, "Entity")
<1>1. PICK t : t = "Entity"
  OBVIOUS
<1>2. PICK u : u = "AttributeList"
  OBVIOUS
<1>3. PICK f, l : f = "attributes" /\ l = "attributes_last"
  OBVIOUS
<1>4. /\ <<t, f, l, u>> \in Begun /\ <<t, l, u>> \in Ends /\ u \in ListTags
      /\ Leading[u] = "attribute" /\ u \in Chained /\ u \in Tags
      /\ \A v : <<u, "attribute", v>> \in Slots => v = "Attribute"
  <2>1. <<t, f, l, u>> \in Begun /\ u \in ListTags /\ Leading[u] = "attribute"
    BY <1>1, <1>2, <1>3 DEF Begun, ListTags, Leading
  <2>2. <<t, l, u>> \in Ends
    BY <2>1, EndFacts
  <2>3. u \in Chained /\ u \in Tags
    BY <2>1, NodeFacts
  <2>4. \A v : <<u, "attribute", v>> \in Slots => v = "Attribute"
    BY <1>2, SlotsOf
  <2> QED BY <2>1, <2>2, <2>3, <2>4
<1>5. y \in K /\ h[y].tag = "Attribute" /\ Whole(h[y]) /\ y # 0 /\ HasBody(h, K, x, t)
  BY <1>1 DEF HasWhole, IsWhole
<1>6. /\ Bodied(h, K, x, t, k, b) /\ y \in K \ {x} /\ y # b /\ k[y] = h[y]
      /\ k[b][f] # 0 => k = h /\ b = x /\ x # 0 /\ h[x][l] # 0 /\ x \in K
  <2>1. k = BodyOf(h, x, t)
    BY <1>1
  <2> QED BY <2>1, <1>4, <1>5, BodyReady
<1>7. PICK J : J = (K \ ({x} \ {0})) \cup {b}
  OBVIOUS
<1>8. Sound(k, J) /\ y \in J \ {b}
  BY <1>6, <1>7 DEF Bodied, Steps
<1>9. Len(k) \in Nat /\ DOMAIN k = 1 .. Len(k) /\ b \in DOMAIN k /\ b # n /\ n # 0
  BY <1>6, <1>8, SoundFacts DEF Bodied, IsBody
<1>10. NodeGifts(k, J, u, y, upd)
  BY <1>4, <1>5, <1>6, <1>8 DEF NodeGifts
<1>11. PICK B : B = {y}
  OBVIOUS
<1>12. NodeMade(k, J, u, y, upd, m, B, n)
  <2>1. m = Append(k, New(u, upd))
    BY <1>2
  <2> QED BY <2>1, <1>8, <1>10, <1>11, NodeBuilt
<1>13. /\ Steps(k, J, B, m, {n}) /\ m[n].tag = u /\ Whole(m[n]) /\ m[n].next = 0
       /\ m[n][Leading[u]] = y /\ \A e \in DOMAIN k : m[e] = k[e]
  BY <1>12 DEF NodeMade, Built
<1>14. ASSUME m[b][f] # 0 PROVE Lead(m[m[b][l]]) < Lead(m[n])
  <2>1. Lead(m[n]) = y
    BY <1>4, <1>13 DEF Lead
  <2>2. k = h /\ b = x /\ x # 0 /\ h[x][l] # 0 /\ x \in K
    BY <1>6, <1>9, <1>13, <1>14
  <2>3. h[x].tag = t /\ Before(h, x, y)
    BY <2>2, <1>5 DEF HasBody, IsBody, Earlier
  <2>4. Ownership(h, K) /\ Open(h, x) /\ Len(h) \in Nat /\ DOMAIN h = 1 .. Len(h)
    BY <2>2, SoundFacts DEF Sound
  <2> DEFINE e == h[x][l]
  <2>5. h[e].tag = u /\ e \in Tips(h, x) /\ e \in DOMAIN h
    <3>1. h[e].tag = u
      BY <2>2, <2>3, <2>4, <1>4 DEF Open
    <3>2. l \in EndNames(t)
      BY <1>4, EndFacts
    <3>3. e \in Tips(h, x)
      BY <3>2, <2>2, <2>3 DEF Tips
    <3> QED BY <3>1, <3>3, <2>2, <2>4, TipFacts
  <2>6. m[m[b][l]] = h[e]
    BY <2>2, <2>5, <1>9, <1>13
  <2>7. Lead(h[e]) = h[e]["attribute"] /\ Lead(h[e]) \in 0 .. Len(h)
    <3>1. Lead(h[e]) = h[e]["attribute"]
      BY <2>5, <1>4 DEF Lead
    <3> QED BY <3>1, <2>4, <2>5, HeapFacts
  <2>8. y \in DOMAIN h
    BY <1>5, SoundFacts
  <2>9. CASE Lead(h[e]) = 0
    <3>1. 0 < y
      BY <2>4, <2>8
    <3> HIDE DEF e
    <3> QED BY <3>1, <2>1, <2>6, <2>9
  <2>10. CASE Lead(h[e]) # 0
    <3>1. <<u, "attribute", "Attribute">> \in Slots
      BY <1>2, SlotsOf
    <3>2. h[Lead(h[e])].tag = "Attribute"
      BY <3>1, <2>4, <2>5, <2>7, <2>10 DEF Ownership, Typed
    <3>3. Lead(h[e]) \in Marks(h, x) /\ y \in Marks(h, y)
      BY <2>5, <2>10, <1>5 DEF Marks
    <3>4. Lead(h[e]) < y
      BY <3>2, <3>3, <2>3, <1>5 DEF Before
    <3> QED BY <3>4, <2>1, <2>6
  <2> QED BY <2>9, <2>10
<1>15. Grown(h, K, x, t, k, b, y, m, n, f, l, u)
  BY <1>6, <1>7, <1>9, <1>11, <1>13, <1>14 DEF Grown
<1>16. Longer(h, K, A, g, b, t)
  <2>1. g = Link(m, b, f, l, n)
    BY <1>3
  <2> QED BY <2>1, <1>4, <1>15, GrownLinked
<1> QED BY <1>1, <1>16

LEMMA EntityAppended ==
    ASSUME NEW h, NEW K, Sound(h, K), NEW x, Has(h, K, "schema_body", x),
           NEW y, Has(h, K, "entity_decl", y), Earlier(h, x, y),
           NEW k, k = BodyOf(h, x, "Schema"), NEW b, b = HereOf(h, x),
           NEW g, g = Link(k, b, "entities", "entities_last", y), NEW A, A = {x, y}
    PROVE  Made(h, K, A, g, b, "schema_body")
<1>1. HasBody(h, K, x, "Schema") /\ HasWhole(h, K, y, "Entity")
  BY HasIs, SoundFacts
<1>2. PICK t, f, l, u : t = "Schema" /\ f = "entities" /\ l = "entities_last" /\ u = "Entity"
  OBVIOUS
<1>3. <<t, f, l, u>> \in Begun /\ u \notin ListTags
  BY <1>2 DEF Begun, ListTags
<1>4. Longer(h, K, A, g, b, t)
  <2>1. HasBody(h, K, x, t) /\ HasWhole(h, K, y, u) /\ k = BodyOf(h, x, t) /\ g = Link(k, b, f, l, y)
    BY <1>1, <1>2
  <2> QED BY <2>1, <1>3, AppendedTo
<1> QED BY <1>2, <1>4, FitsIs DEF Longer, Made

LEMMA RelationshipAppended ==
    ASSUME NEW h, NEW K, Sound(h, K), NEW x, Has(h, K, "schema_body", x),
           NEW y, Has(h, K, "relationship_decl", y), Earlier(h, x, y),
           NEW k, k = BodyOf(h, x, "Schema"), NEW b, b = HereOf(h, x),
           NEW g, g = Link(k, b, "relationships", "relationships_last", y), NEW A, A = {x, y}
    PROVE  Made(h, K, A, g, b, "schema_body")
<1>1. HasBody(h, K, x, "Schema") /\ HasWhole(h, K, y, "Relationship")
  BY HasIs, SoundFacts
<1>2. PICK t, f, l, u : t = "Schema" /\ f = "relationships" /\ l = "relationships_last" /\ u = "Relationship"
  OBVIOUS
<1>3. <<t, f, l, u>> \in Begun /\ u \notin ListTags
  BY <1>2 DEF Begun, ListTags
<1>4. Longer(h, K, A, g, b, t)
  <2>1. HasBody(h, K, x, t) /\ HasWhole(h, K, y, u) /\ k = BodyOf(h, x, t) /\ g = Link(k, b, f, l, y)
    BY <1>1, <1>2
  <2> QED BY <2>1, <1>3, AppendedTo
<1> QED BY <1>2, <1>4, FitsIs DEF Longer, Made

LEMMA AssertionAppended ==
    ASSUME NEW h, NEW K, Sound(h, K), NEW x, Has(h, K, "entity_body", x),
           NEW y, Has(h, K, "assert_decl", y), Earlier(h, x, y),
           NEW k, k = BodyOf(h, x, "Entity"), NEW b, b = HereOf(h, x),
           NEW g, g = Link(k, b, "assertions", "assertions_last", y), NEW A, A = {x, y}
    PROVE  Made(h, K, A, g, b, "entity_body")
<1>1. HasBody(h, K, x, "Entity") /\ HasWhole(h, K, y, "Assertion")
  BY HasIs, SoundFacts
<1>2. PICK t, f, l, u : t = "Entity" /\ f = "assertions" /\ l = "assertions_last" /\ u = "Assertion"
  OBVIOUS
<1>3. <<t, f, l, u>> \in Begun /\ u \notin ListTags
  BY <1>2 DEF Begun, ListTags
<1>4. Longer(h, K, A, g, b, t)
  <2>1. HasBody(h, K, x, t) /\ HasWhole(h, K, y, u) /\ k = BodyOf(h, x, t) /\ g = Link(k, b, f, l, y)
    BY <1>1, <1>2
  <2> QED BY <2>1, <1>3, AppendedTo
<1> QED BY <1>2, <1>4, FitsIs DEF Longer, Made

LEMMA AttributeAppended ==
    ASSUME NEW h, NEW K, Sound(h, K), NEW x, Has(h, K, "entity_body", x),
           NEW y, Has(h, K, "attribute_decl", y), Earlier(h, x, y),
           NEW k, k = BodyOf(h, x, "Entity"), NEW b, b = HereOf(h, x),
           NEW upd, upd = [attribute |-> y], NEW m, NEW n, Fresh(k, "AttributeList", upd, m, n), NEW g, g = Link(m, b, "attributes", "attributes_last", n),
           NEW A, A = {x, y}
    PROVE  Made(h, K, A, g, b, "entity_body")
<1>0. m = Append(k, New("AttributeList", upd)) /\ n = Len(k) + 1
  BY DEF Fresh
<1> USE <1>0
<1>1. HasBody(h, K, x, "Entity") /\ HasWhole(h, K, y, "Attribute")
  BY HasIs, SoundFacts
<1>2. Longer(h, K, A, g, b, "Entity")
  BY <1>1, AppendedAttribute
<1> QED BY <1>2, FitsIs DEF Longer, Made

(* The actions that fill in a body.                                        *)

LEMMA BodyShape ==
    ASSUME NEW h, NEW K, Sound(h, K), NEW t, t \in {"Schema", "Entity", "Relationship"},
           NEW x, HasBody(h, K, x, t), NEW k, k = BodyOf(h, x, t), NEW b, b = HereOf(h, x)
    PROVE  /\ Bodied(h, K, x, t, k, b) /\ Shape(k) /\ b \in DOMAIN k /\ b # 0 /\ k[b].tag = t
           /\ \A f \in Names(t) \ {"tag"} : FieldOf(k, b, f)
           /\ \A v \in 0 .. Len(h) : v \in 0 .. Len(k)
           /\ \A f \in Bare[t] : k[b][f] = 0
           /\ DOMAIN k[b] = Names(t)
<1>1. Bodied(h, K, x, t, k, b)
  <2>1. x = 0 \/ (x \in K /\ IsBody(h, x, t))
    BY DEF HasBody
  <2> QED BY <2>1, BodyStep
<1>2. PICK J : J = (K \ ({x} \ {0})) \cup {b}
  OBVIOUS
<1>3. Sound(k, J) /\ b \in J /\ DOMAIN h \subseteq DOMAIN k /\ IsBody(k, b, t)
  BY <1>1, <1>2 DEF Bodied, Steps
<1>4. Shape(k) /\ J \subseteq DOMAIN k /\ Len(k) \in Nat /\ DOMAIN k = 1 .. Len(k) /\ 0 \notin J
  BY <1>3, SoundFacts
<1>5. Len(h) \in Nat /\ DOMAIN h = 1 .. Len(h)
  BY SoundFacts
<1>6. \A v \in 0 .. Len(h) : v \in 0 .. Len(k)
  <2> TAKE v \in 0 .. Len(h)
  <2>1. v = 0 \/ v \in DOMAIN h
    BY <1>5
  <2>2. v = 0 \/ v \in DOMAIN k
    BY <2>1, <1>3
  <2> QED BY <2>2, <1>4
<1>7. b \in DOMAIN k /\ b # 0 /\ k[b].tag = t /\ DOMAIN k[b] = Names(t)
  BY <1>3, <1>4 DEF IsBody, Shape
<1>8. \A f \in Names(t) \ {"tag"} : FieldOf(k, b, f)
  BY <1>7 DEF FieldOf
<1>9. \A f \in Bare[t] : k[b][f] = 0
  BY <1>3 DEF IsBody
<1> QED BY <1>1, <1>4, <1>6, <1>7, <1>8, <1>9

Finished(h, K, A, g, b, t) == Steps(h, K, A \ {0}, g, {b} \ {0}) /\ b # 0 /\ b \in DOMAIN g /\ g[b].tag = t
FinishedAs(h, K, A, g, b, t, k, upd) ==
    /\ Finished(h, K, A, g, b, t)
    /\ \A f \in Names(t) \ {"tag"} : g[b][f] = IF f \in DOMAIN upd THEN upd[f] ELSE k[b][f]

LEMMA FilledIs ==
    ASSUME NEW h, NEW K, Sound(h, K), NEW t, t \in {"Schema", "Entity", "Relationship"},
           NEW p, HasBody(h, K, p, t), NEW k, k = BodyOf(h, p, t), NEW b, b = HereOf(h, p),
           NEW upd, Gives(h, K \ {p}, t, upd), Fillable(t, upd), Plain(t, upd),
           NEW g, Puts(k, g, b, upd), NEW A, A = Gifts(t, upd) \cup {p}
    PROVE  FinishedAs(h, K, A, g, b, t, k, upd)
<1>1. PICK B : B = A \ {0}
  OBVIOUS
<1>2. Filled(h, K, B, g, b, t, k, upd)
  <2>1. p = 0 \/ (p \in K /\ IsBody(h, p, t))
    BY DEF HasBody
  <2>2. B = (Gifts(t, upd) \cup {p}) \ {0}
    BY <1>1
  <2> QED BY <2>1, <2>2, FillStep
<1>3. b # 0
  BY BodyShape
<1>4. {b} \ {0} = {b}
  BY <1>3
<1> QED BY <1>1, <1>2, <1>3, <1>4 DEF Filled, Finished, FinishedAs

\* Nothing that the lists of a body need.
LEMMA PlainBody ==
    ASSUME NEW t, t \in {"Schema", "Entity", "Relationship"}, NEW upd,
           DOMAIN upd \subseteq {"name", "parent", "participants", "participants_last", "primaryKey"}
    PROVE  Plain(t, upd)
<1>1. \A l, u : <<t, l, u>> \in Ends =>
          l \in {"entities_last", "relationships_last", "attributes_last", "assertions_last"}
  BY DEF Ends, ListTags
<1>2. EndNames(t) \cap DOMAIN upd = {}
  BY <1>1 DEF EndNames
<1>3. \A f, l, u : <<t, f, l, u>> \in Begun => f \notin DOMAIN upd
  BY DEF Begun
<1> QED BY <1>2, <1>3 DEF Plain

LEMMA SchemaMade ==
    ASSUME NEW h, NEW K, Sound(h, K), NEW x, Has(h, K, "IDENTIFIER", x),
           NEW y, Has(h, K, "schema_body", y),
           NEW k, k = BodyOf(h, y, "Schema"), NEW b, b = HereOf(h, y),
           NEW g, g = [k EXCEPT ![b].name = x], NEW A, A = {x, y}
    PROVE  Made(h, K, A, g, b, "schema_decl")
<1>1. HasWhole(h, K, x, "String") /\ HasBody(h, K, y, "Schema")
  BY HasIs, SoundFacts
<1>2. PICK t, f : t = "Schema" /\ f = "name"
  OBVIOUS
<1>3. PICK upd : upd = [name |-> x]
  OBVIOUS
<1>4. One(upd, f, x) /\ DOMAIN upd = {f} /\ upd[f] = x
  BY <1>2, <1>3 DEF One
<1>5. /\ x \in K \ {y} /\ h[x].tag = "String" /\ Whole(h[x]) /\ x # 0 /\ x \in 0 .. Len(h)
      /\ HasBody(h, K, y, t) /\ k = BodyOf(h, y, t) /\ t \in {"Schema", "Entity", "Relationship"}
  <2>1. x # y
    BY <1>1 DEF HasWhole, HasBody, IsWhole, IsBody
  <2> QED BY <2>1, <1>1, <1>2, SoundFacts DEF HasWhole, IsWhole
<1>6. /\ f \in Names(t) \ {"tag"} /\ f \in Fields(t) /\ \A u : <<t, f, u>> \in Slots => u = "String"
  <2>1. <<t, f, "String">> \in Slots /\ \A u : <<t, f, u>> \in Slots => u = "String"
    BY <1>2, SlotsOf
  <2>2. t \in Tags
    BY <1>2, LayoutSmall
  <2> QED BY <2>1, <2>2, SlotNames
<1>7. /\ Shape(k) /\ FieldOf(k, b, f) /\ x \in 0 .. Len(k)
  BY <1>5, <1>6, BodyShape
<1>8. Puts(k, g, b, upd)
  <2>1. g = [k EXCEPT ![b][f] = x]
    BY <1>2
  <2> QED BY <2>1, <1>4, <1>7, PutOneAt
<1>9. Gives(h, K \ {y}, t, upd) /\ Gifts(t, upd) = {x}
  <2>1. Values(h, t, upd)
    BY <1>4, <1>5, <1>6 DEF Values
  <2>2. Gifts(t, upd) = {x}
    BY <1>4, <1>5, <1>6 DEF Gifts
  <2>3. "next" \notin DOMAIN upd
    BY <1>2, <1>4
  <2> QED BY <2>1, <2>2, <2>3, <1>4, <1>5, <1>6 DEF Gives
<1>10. Fillable(t, upd) /\ Plain(t, upd)
  <2>1. f \in Bare[t]
    BY <1>2 DEF Bare
  <2> QED BY <2>1, <1>2, <1>4, <1>5, PlainBody DEF Fillable
<1>11. FinishedAs(h, K, A, g, b, t, k, upd)
  <2>1. A = Gifts(t, upd) \cup {y}
    BY <1>9
  <2> QED BY <2>1, <1>5, <1>8, <1>9, <1>10, FilledIs
<1>12. IsWhole(g, b, t)
  <2>1. g[b].tag = t /\ g[b][f] # 0 /\ b \in DOMAIN g
    BY <1>4, <1>5, <1>6, <1>11 DEF Finished, FinishedAs
  <2>2. Whole(g[b])
    <3>1. \A z, u : <<t, z, u>> \in Slots => z = f \/ z \in Optional
      BY <1>2, SlotsOf DEF Optional
    <3> QED BY <3>1, <2>1, <1>2 DEF Whole
  <2> QED BY <2>1, <2>2, <1>2 DEF IsWhole, ListTags
<1> QED BY <1>2, <1>11, <1>12, FitsIs DEF Finished, FinishedAs, Made

\* An entity has a parent or none.
LEMMA EntityMade ==
    ASSUME NEW h, NEW K, Sound(h, K), NEW x, Has(h, K, "IDENTIFIER", x),
           NEW w, w = 0 \/ Has(h, K, "IDENTIFIER", w), Differ(x, w),
           NEW y, Has(h, K, "entity_body", y),
           NEW k, k = BodyOf(h, y, "Entity"), NEW b, b = HereOf(h, y),
           NEW g, g = [k EXCEPT ![b].name = x, ![b].parent = IF w # 0 THEN w ELSE @],
           NEW A, A = {x, w, y}
    PROVE  Made(h, K, A, g, b, "entity_decl")
<1>1. /\ HasWhole(h, K, x, "String") /\ HasMaybe(h, K, w, "String") /\ HasBody(h, K, y, "Entity")
  BY HasIs, SoundFacts DEF HasMaybe
<1>2. PICK t, f, l : t = "Entity" /\ f = "name" /\ l = "parent"
  OBVIOUS
<1>3. PICK upd : upd = [name |-> x, parent |-> w]
  OBVIOUS
<1>4. Two(upd, f, x, l, w) /\ DOMAIN upd = {f, l} /\ upd[f] = x /\ upd[l] = w /\ l # f
  BY <1>2, <1>3 DEF Two
<1>5. /\ x \in K \ {y} /\ h[x].tag = "String" /\ Whole(h[x]) /\ x # 0 /\ x \in 0 .. Len(h)
      /\ HasBody(h, K, y, t) /\ k = BodyOf(h, y, t) /\ t \in {"Schema", "Entity", "Relationship"}
      /\ w # 0 => w \in K \ {y} /\ h[w].tag = "String" /\ Whole(h[w])
      /\ w \in 0 .. Len(h) /\ x # w
  <2>1. x # y /\ (w # 0 => w # y)
    BY <1>1 DEF HasWhole, HasMaybe, HasBody, IsWhole, IsBody
  <2> QED BY <2>1, <1>1, <1>2, SoundFacts DEF HasWhole, HasMaybe, IsWhole, Differ
<1>6. /\ f \in Names(t) \ {"tag"} /\ f \in Fields(t) /\ \A u : <<t, f, u>> \in Slots => u = "String"
      /\ l \in Names(t) \ {"tag"} /\ l \in Fields(t) /\ \A u : <<t, l, u>> \in Slots => u = "String"
  <2>1. /\ <<t, f, "String">> \in Slots /\ \A u : <<t, f, u>> \in Slots => u = "String"
        /\ <<t, l, "String">> \in Slots /\ \A u : <<t, l, u>> \in Slots => u = "String"
    BY <1>2, SlotsOf
  <2>2. t \in Tags
    BY <1>2, LayoutSmall
  <2> QED BY <2>1, <2>2, SlotNames
<1>7. /\ Shape(k) /\ FieldOf(k, b, f) /\ FieldOf(k, b, l) /\ x \in 0 .. Len(k) /\ w \in 0 .. Len(k)
      /\ k[b][l] = 0
  <2>1. l \in Bare[t]
    BY <1>2 DEF Bare
  <2> QED BY <2>1, <1>5, <1>6, BodyShape
<1>8. Puts(k, g, b, upd)
  <2>1. k[b].parent = 0
    BY <1>2, <1>7
  <2>2. [k EXCEPT ![b].name = x][b].parent = 0
    <3>1. b \in DOMAIN k /\ DOMAIN k[b] = Names(t)
      BY <1>5, BodyShape
    <3>2. "parent" \in DOMAIN k[b]
      BY <3>1, <1>2, <1>6
    <3> QED BY <2>1, <3>1, <3>2
  <2>3. g = [k EXCEPT ![b]["name"] = x, ![b]["parent"] = w]
    BY <2>2
  <2>4. g = [[k EXCEPT ![b]["name"] = x] EXCEPT ![b]["parent"] = w]
    BY <2>3, PutTogether
  <2>5. Edits(k, g, b, f, x, l, w)
    BY <2>4, <1>2 DEF Edits
  <2> QED BY <2>5, <1>4, <1>7, PutTwoAt
<1>9. Gives(h, K \ {y}, t, upd) /\ Gifts(t, upd) = {x, w} \ {0}
  <2>1. Values(h, t, upd)
    BY <1>4, <1>5, <1>6 DEF Values
  <2>2. Gifts(t, upd) = {x, w} \ {0}
    BY <1>4, <1>5, <1>6 DEF Gifts
  <2>3. "next" \notin DOMAIN upd
    BY <1>2, <1>4
  <2> QED BY <2>1, <2>2, <2>3, <1>4, <1>5, <1>6 DEF Gives
<1>10. Fillable(t, upd) /\ Plain(t, upd)
  <2>1. f \in Bare[t] /\ l \in Bare[t]
    BY <1>2 DEF Bare
  <2>2. Fillable(t, upd)
    BY <2>1, <1>4 DEF Fillable
  <2> QED BY <2>2, <1>2, <1>4, <1>5, PlainBody
<1>11. PICK B : B = Gifts(t, upd) \cup {y}
  OBVIOUS
<1>12. FinishedAs(h, K, B, g, b, t, k, upd)
  BY <1>5, <1>8, <1>9, <1>10, <1>11, FilledIs
<1>13. B \ {0} = A \ {0}
  BY <1>9, <1>11
<1>14. IsWhole(g, b, t)
  <2>1. g[b].tag = t /\ g[b][f] # 0 /\ b \in DOMAIN g
    BY <1>4, <1>5, <1>6, <1>12 DEF Finished, FinishedAs
  <2>2. Whole(g[b])
    <3>1. \A z, u : <<t, z, u>> \in Slots => z = f \/ z \in Optional \/ z = "attributes"
      BY <1>2, SlotsOf DEF Optional
    <3> QED BY <3>1, <2>1, <1>2 DEF Whole
  <2> QED BY <2>1, <2>2, <1>2 DEF IsWhole, ListTags
<1> QED BY <1>2, <1>12, <1>13, <1>14, FitsIs DEF Finished, FinishedAs, Made

\* The key of an entity; one that was there is lost.
LEMMA KeySet ==
    ASSUME NEW h, NEW K, Sound(h, K), NEW y, Has(h, K, "entity_body", y),
           NEW x, Has(h, K, "primary_decl", x),
           NEW k, k = BodyOf(h, y, "Entity"), NEW b, b = HereOf(h, y),
           NEW g, g = [k EXCEPT ![b].primaryKey = x], NEW A, A = {y, x}
    PROVE  Made(h, K, A, g, b, "entity_body")
<1>1. HasWhole(h, K, x, "PrimaryKey") /\ HasBody(h, K, y, "Entity")
  BY HasIs, SoundFacts
<1>2. PICK t, f : t = "Entity" /\ f = "primaryKey"
  OBVIOUS
<1>3. PICK upd : upd = [primaryKey |-> x]
  OBVIOUS
<1>4. One(upd, f, x) /\ DOMAIN upd = {f} /\ upd[f] = x
  BY <1>2, <1>3 DEF One
<1>5. /\ x \in K \ {y} /\ h[x].tag = "PrimaryKey" /\ Whole(h[x]) /\ x # 0 /\ x \in 0 .. Len(h)
      /\ HasBody(h, K, y, t) /\ k = BodyOf(h, y, t) /\ t \in {"Schema", "Entity", "Relationship"}
  <2>1. x # y
    BY <1>1 DEF HasWhole, HasBody, IsWhole, IsBody
  <2> QED BY <2>1, <1>1, <1>2, SoundFacts DEF HasWhole, IsWhole
<1>6. /\ f \in Names(t) \ {"tag"} /\ f \in Fields(t) /\ \A u : <<t, f, u>> \in Slots => u = "PrimaryKey"
  <2>1. <<t, f, "PrimaryKey">> \in Slots /\ \A u : <<t, f, u>> \in Slots => u = "PrimaryKey"
    BY <1>2, SlotsOf
  <2>2. t \in Tags
    BY <1>2, LayoutSmall
  <2> QED BY <2>1, <2>2, SlotNames
<1>7. /\ Shape(k) /\ FieldOf(k, b, f) /\ x \in 0 .. Len(k)
  BY <1>5, <1>6, BodyShape
<1>8. Puts(k, g, b, upd)
  <2>1. g = [k EXCEPT ![b][f] = x]
    BY <1>2
  <2> QED BY <2>1, <1>4, <1>7, PutOneAt
<1>9. Gives(h, K \ {y}, t, upd) /\ Gifts(t, upd) = {x}
  <2>1. Values(h, t, upd)
    BY <1>4, <1>5, <1>6 DEF Values
  <2>2. Gifts(t, upd) = {x}
    BY <1>4, <1>5, <1>6 DEF Gifts
  <2>3. "next" \notin DOMAIN upd
    BY <1>2, <1>4
  <2> QED BY <2>1, <2>2, <2>3, <1>4, <1>5, <1>6 DEF Gives
<1>10. Fillable(t, upd) /\ Plain(t, upd)
  <2>1. Fillable(t, upd)
    BY <1>2, <1>4, <1>5 DEF Fillable
  <2> QED BY <2>1, <1>2, <1>4, <1>5, PlainBody
<1>11. FinishedAs(h, K, A, g, b, t, k, upd)
  <2>1. A = Gifts(t, upd) \cup {y}
    BY <1>9
  <2> QED BY <2>1, <1>5, <1>8, <1>9, <1>10, FilledIs
<1>12. IsBody(g, b, t)
  <2>1. Bare[t] \subseteq Names(t) \ {"tag", f}
    <3>1. Bare[t] = {"name", "parent"}
      BY <1>2 DEF Bare
    <3>2. <<t, "name", "String">> \in Slots /\ <<t, "parent", "String">> \in Slots
      BY <1>2, SlotsOf
    <3>3. t \in Tags
      BY <1>2, LayoutSmall
    <3>4. {"name", "parent"} \subseteq Names(t) \ {"tag"}
      BY <3>2, <3>3, SlotNames
    <3> QED BY <3>1, <3>4, <1>2
  <2>2. \A z \in Bare[t] : k[b][z] = 0
    BY <1>5, BodyShape
  <2> QED BY <2>1, <2>2, <1>4, <1>11 DEF Finished, FinishedAs, IsBody
<1> QED BY <1>2, <1>11, <1>12, FitsIs DEF Finished, FinishedAs, Made

Related(k, b, x, w, v, g) ==
    g = [k EXCEPT ![b].name = x, ![b].participants = w, ![b].participants_last = v]
LEMMA RelationshipMade ==
    ASSUME NEW h, NEW K, Sound(h, K), NEW x, Has(h, K, "IDENTIFIER", x),
           NEW w, Has(h, K, "relationship_participant_list", w),
           NEW y, Has(h, K, "relationship_body", y),
           NEW k, k = BodyOf(h, y, "Relationship"), NEW b, b = HereOf(h, y),
           NEW g, Related(k, b, x, w, h[w].last, g),
           NEW A, A = {x, w, y}
    PROVE  Made(h, K, A, g, b, "relationship_decl")
<1>0. g = [k EXCEPT ![b].name = x, ![b].participants = w, ![b].participants_last = h[w].last]
  BY DEF Related
<1> USE <1>0
<1>1. /\ HasWhole(h, K, x, "String") /\ HasWhole(h, K, w, "ParticipantList")
      /\ HasBody(h, K, y, "Relationship")
  BY HasIs, SoundFacts
<1>2. PICK t, f, l, m : t = "Relationship" /\ f = "name" /\ l = "participants" /\ m = "participants_last"
  OBVIOUS
<1>3. PICK v : v = h[w].last
  OBVIOUS
<1>4. PICK upd : upd = [name |-> x, participants |-> w, participants_last |-> v]
  OBVIOUS
<1>5. /\ Three(upd, f, x, l, w, m, v) /\ DOMAIN upd = {f, l, m} /\ upd[f] = x /\ upd[l] = w
      /\ upd[m] = v /\ l # f /\ m \notin {f, l}
  BY <1>2, <1>4 DEF Three
<1>6. /\ x \in K \ {y} /\ h[x].tag = "String" /\ Whole(h[x]) /\ x # 0 /\ x \in 0 .. Len(h)
      /\ HasBody(h, K, y, t) /\ k = BodyOf(h, y, t) /\ t \in {"Schema", "Entity", "Relationship"}
      /\ w \in K \ {y} /\ h[w].tag = "ParticipantList" /\ Whole(h[w])
      /\ w \in 0 .. Len(h) /\ x # w /\ w # 0 /\ v \in 0 .. Len(h)
  <2>1. x # y /\ w # y /\ x # w
    BY <1>1 DEF HasWhole, HasMaybe, HasBody, IsWhole, IsBody
  <2>2. v \in 0 .. Len(h)
    <3>1. Ownership(h, K) /\ w \in DOMAIN h
      BY <1>1, SoundFacts DEF HasWhole
    <3>2. "last" \in Tails
      BY DEF Tails
    <3> QED BY <3>1, <3>2, <1>3, HeapFacts
  <2> QED BY <2>1, <2>2, <1>1, <1>2, SoundFacts DEF HasWhole, IsWhole
<1>7. /\ f \in Names(t) \ {"tag"} /\ f \in Fields(t) /\ \A u : <<t, f, u>> \in Slots => u = "String"
      /\ l \in Names(t) \ {"tag"} /\ l \in Fields(t)
      /\ \A u : <<t, l, u>> \in Slots => u = "ParticipantList"
      /\ m \in Names(t) \ {"tag"} /\ m \notin Fields(t) /\ \A u : <<t, m, u>> \notin Slots
  <2>1. /\ <<t, f, "String">> \in Slots /\ \A u : <<t, f, u>> \in Slots => u = "String"
        /\ <<t, l, "ParticipantList">> \in Slots
        /\ \A u : <<t, l, u>> \in Slots => u = "ParticipantList"
        /\ \A u : <<t, m, u>> \notin Slots
    BY <1>2, SlotsOf
  <2>2. t \in Tags
    BY <1>2, LayoutSmall
  <2>3. m \notin Fields(t)
    <3>1. m \in Fields(t) <=> \E u : <<t, m, u>> \in Slots
      BY <2>2, FieldsAre
    <3> QED BY <3>1, <2>1
  <2>4. m \in Tails
    BY <1>2 DEF Tails
  <2>5. m \in Names(t) \ {"tag"}
    BY <2>2, <2>4, SlotNames
  <2>6. /\ f \in Names(t) \ {"tag"} /\ f \in Fields(t) /\ l \in Names(t) \ {"tag"} /\ l \in Fields(t)
    BY <2>1, <2>2, SlotNames
  <2> QED BY <2>1, <2>3, <2>5, <2>6
<1>8. /\ Shape(k) /\ FieldOf(k, b, f) /\ FieldOf(k, b, l) /\ FieldOf(k, b, m)
      /\ x \in 0 .. Len(k) /\ w \in 0 .. Len(k) /\ v \in 0 .. Len(k)
  BY <1>6, <1>7, BodyShape
<1>9. Puts(k, g, b, upd)
  <2>1. g = [k EXCEPT ![b]["name"] = x, ![b]["participants"] = w, ![b]["participants_last"] = v]
    BY <1>3
  <2>2. g = [[[k EXCEPT ![b]["name"] = x] EXCEPT ![b]["participants"] = w]
                EXCEPT ![b]["participants_last"] = v]
    BY <2>1, PutTogether
  <2>3. PICK k2 : Edits(k, k2, b, f, x, l, w)
    BY DEF Edits
  <2>4. g = [k2 EXCEPT ![b][m] = v]
    BY <2>2, <2>3, <1>2 DEF Edits
  <2>5. l # f /\ m \notin {f, l} /\ Three(upd, f, x, l, w, m, v)
    BY <1>5
  <2>6. /\ Shape(k) /\ FieldOf(k, b, f) /\ FieldOf(k, b, l) /\ FieldOf(k, b, m)
        /\ x \in 0 .. Len(k) /\ w \in 0 .. Len(k) /\ v \in 0 .. Len(k)
    BY <1>8
  <2>7. Puts(k, [k2 EXCEPT ![b][m] = v], b, upd)
    BY <2>3, <2>5, <2>6, PutThreeAt
  <2> QED BY <2>4, <2>7
<1>10. Gives(h, K \ {y}, t, upd) /\ Gifts(t, upd) = {x, w}
  <2>1. Values(h, t, upd)
    BY <1>5, <1>6, <1>7 DEF Values
  <2>2. Gifts(t, upd) = {x, w}
    BY <1>5, <1>6, <1>7 DEF Gifts
  <2>3. "next" \notin DOMAIN upd
    BY <1>2, <1>5
  <2>4. \A z, u : <<t, z, u>> \in Slots /\ z \in DOMAIN upd /\ upd[z] # 0 =>
            h[upd[z]].tag = u /\ Whole(h[upd[z]])
    BY <1>5, <1>6, <1>7
  <2>5. \A z, u \in DOMAIN upd \cap Fields(t) : upd[z] = upd[u] /\ upd[z] # 0 => z = u
    BY <1>5, <1>6, <1>7
  <2> QED BY <2>1, <2>2, <2>3, <2>4, <2>5, <1>6 DEF Gives
<1>11. Fillable(t, upd) /\ Plain(t, upd)
  <2>1. f \in Bare[t] /\ l \in Bare[t]
    BY <1>2 DEF Bare
  <2>2. Fillable(t, upd)
    BY <2>1, <1>5, <1>7 DEF Fillable
  <2> QED BY <2>2, <1>2, <1>5, <1>6, PlainBody
<1>12. FinishedAs(h, K, A, g, b, t, k, upd)
  <2>1. A = Gifts(t, upd) \cup {y}
    BY <1>10
  <2> QED BY <2>1, <1>6, <1>9, <1>10, <1>11, FilledIs
<1>13. IsWhole(g, b, t)
  <2>1. g[b].tag = t /\ g[b][f] # 0 /\ g[b][l] # 0 /\ b \in DOMAIN g
    BY <1>5, <1>6, <1>7, <1>12 DEF Finished, FinishedAs
  <2>2. Whole(g[b])
    <3>1. \A z, u : <<t, z, u>> \in Slots => z = f \/ z = l \/ z \in Optional \/ z = "attributes"
      BY <1>2, SlotsOf DEF Optional
    <3> QED BY <3>1, <2>1, <1>2 DEF Whole
  <2> QED BY <2>1, <2>2, <1>2 DEF IsWhole, ListTags
<1> QED BY <1>2, <1>12, <1>13, FitsIs DEF Finished, FinishedAs, Made

LEMMA EmptyMade ==
    ASSUME NEW h, NEW K, Sound(h, K), NEW X \in May
    PROVE  Made(h, K, {}, h, 0, X)
<1>1. PICK A : A = {}
  OBVIOUS
<1>2. Steps(h, K, A, h, A)
  BY <1>1, NoStep
<1>3. {0} \ {0} = A /\ {} \ {0} = A
  BY <1>1
<1> QED BY <1>1, <1>2, <1>3, FitsEmpty DEF Made
=============================================================================
