------------------------------ MODULE SyntaxTree ------------------------------
(***************************************************************************)
(* The push parser at work: the semantic actions that build the tree cell  *)
(* by cell (BisonActions.c) and the destructors that free it               *)
(* (AbstractSyntaxTree.c).  It reduces by default: without a token where   *)
(* it can shift none, and before it notices an error.                      *)
(***************************************************************************)
EXTENDS Grammar

CONSTANTS
    Terminals,  \* the tokens of the input
    Openings,   \* how the input may begin
    MaxTokens   \* bound: how many tokens follow the opening

ASSUME SyntaxAssumption == Openings \subseteq Seq(Terminals) /\ MaxTokens \in Nat

VARIABLES
    heap,       \* the cells allocated; a pointer is an index, 0 the null pointer
    freed,      \* the cells freed, in order
    stack,      \* [items, ptr]: the parser's states and semantic values
    lookahead,  \* [sym, ptr], or NoToken when the parser waits for one
    ahead,      \* what is left of the opening
    pushed,     \* the number of tokens that followed it
    program,    \* compilerState.abstractSyntaxtTree
    status,     \* of executeSyntacticAnalysis
    released    \* main has destroyed the program and the parser

vars == <<heap, freed, stack, lookahead, ahead, pushed, program, status, released>>
input == <<ahead, pushed>>

(* What the destructor of a cell destroys, in this order, before it frees  *)
(* the cell, and the tag of what each field points to.  The `next` of an   *)
(* attribute, a modifier and a participant is never set and left out.      *)
Layout == [
    Program |-> << <<"schema", "Schema">> >>,
    Schema |-> << <<"name", "String">>, <<"entities", "Entity">>,
                  <<"relationships", "Relationship">> >>,
    Entity |-> << <<"name", "String">>, <<"parent", "String">>,
                  <<"attributes", "AttributeList">>, <<"primaryKey", "PrimaryKey">>,
                  <<"assertions", "Assertion">>, <<"next", "Entity">> >>,
    Relationship |-> << <<"name", "String">>, <<"participants", "ParticipantList">>,
                        <<"attributes", "AttributeList">>, <<"next", "Relationship">> >>,
    Attribute |-> << <<"name", "String">>, <<"type", "Type">>, <<"modifiers", "ModifierList">> >>,
    AttributeList |-> << <<"attribute", "Attribute">>, <<"next", "AttributeList">> >>,
    Participant |-> << <<"entityName", "String">>, <<"participation", "Participation">> >>,
    ParticipantList |-> << <<"participant", "Participant">>, <<"next", "ParticipantList">> >>,
    Expression |-> << <<"identifier", "String">>, <<"literal", "Literal">>,
                      <<"left", "Expression">>, <<"right", "Expression">> >>,
    Literal |-> << <<"string", "String">> >>,
    Modifier |-> << <<"defaultValue", "Literal">> >>,
    ModifierList |-> << <<"modifier", "Modifier">>, <<"next", "ModifierList">> >>,
    PrimaryKey |-> << <<"attributes", "QualifiedIdentifierList">> >>,
    Assertion |-> << <<"condition", "Expression">>, <<"next", "Assertion">> >>,
    QualifiedIdentifierList |-> << <<"qid", "QualifiedIdentifier">>,
                                   <<"next", "QualifiedIdentifierList">> >>,
    QualifiedIdentifier |-> << <<"entity", "String">>, <<"attribute", "String">> >>,
    Type |-> <<>>, Participation |-> <<>>, String |-> <<>> ]
\* The tail pointers, which own nothing.
Tails == {"last", "entities_last", "relationships_last", "attributes_last",
          "assertions_last", "participants_last"}

\* A new cell, zeroed but for these fields.
New(tag, fields) ==
    LET owned == {Layout[tag][i][1] : i \in DOMAIN Layout[tag]}
    IN  [f \in {"tag", "next"} \cup Tails \cup owned |->
            IF f = "tag" THEN tag ELSE IF f \in DOMAIN fields THEN fields[f] ELSE 0]
calloc(tag) == New(tag, <<>>)

destroy(h, root) ==
    LET fields(p) == Layout[h[p].tag]
        cells[p \in 0 .. Len(h)] ==
            IF p = 0 THEN <<>>
            ELSE Append(FlattenSeq([i \in DOMAIN fields(p) |-> cells[h[p][fields(p)[i][1]]]]), p)
    IN  cells[root]

-----------------------------------------------------------------------------
NoToken == [sym |-> "none", ptr |-> 0]
Strings == {"IDENTIFIER", "LIT_STRING"}

Items == Last(stack).items
Parsing == status = "IN_PROGRESS"
Unexpected == lookahead # NoToken /\ lookahead.sym \notin Shiftable(Items)
Due == IF Parsing /\ (Shiftable(Items) = {} \/ Unexpected) THEN Complete(Items) ELSE {}

Init ==
    /\ heap = <<>> /\ freed = <<>> /\ lookahead = NoToken
    /\ stack = << [items |-> Start, ptr |-> 0] >>
    /\ ahead \in Openings /\ pushed = 0
    /\ program = 0 /\ status = "IN_PROGRESS" /\ released = FALSE

\* A lexeme action: the lexeme of a string moves into the semantic value.
pushToken ==
    /\ Parsing /\ lookahead = NoToken /\ Due = {}
    /\ \E sym \in Terminals \cup {"END"} :
          /\ IF ahead # <<>>
             THEN sym = Head(ahead) /\ ahead' = Tail(ahead) /\ UNCHANGED pushed
             ELSE /\ sym # "END" => pushed < MaxTokens
                  /\ pushed' = pushed + 1 /\ UNCHANGED ahead
          /\ IF sym \in Strings
             THEN heap' = Append(heap, calloc("String"))
                  /\ lookahead' = [sym |-> sym, ptr |-> Len(heap) + 1]
             ELSE lookahead' = [sym |-> sym, ptr |-> 0] /\ UNCHANGED heap
    /\ UNCHANGED <<freed, stack, program, status, released>>

shift ==
    /\ Parsing /\ lookahead.sym \in Shiftable(Items)
    /\ stack' = Append(stack, [items |-> Goto(Items, lookahead.sym), ptr |-> lookahead.ptr])
    /\ lookahead' = NoToken
    /\ UNCHANGED <<heap, freed, input, program, status, released>>

-----------------------------------------------------------------------------
(* Semantic actions: r is the rule that is due.                            *)

\* The k-th argument.
Arg(r, k) ==
    IF Rules[r].args[k] = 0 THEN 0
    ELSE stack[Len(stack) - Len(Rules[r].rhs) + Rules[r].args[k]].ptr

\* $$ is p, and the heap is h.
Return(r, h, p) ==
    LET below == SubSeq(stack, 1, Len(stack) - Len(Rules[r].rhs))
    IN  /\ heap' = h
        /\ stack' = Append(below, [items |-> Goto(Last(below).items, Rules[r].lhs), ptr |-> p])
        /\ UNCHANGED <<freed, lookahead, input, status, released>>

\* The action named a returns a new cell of this tag with these fields.
Build(r, a, tag, fields) ==
    /\ Rules[r].action = a
    /\ Return(r, Append(heap, New(tag, fields)), Len(heap) + 1)

\* A body is NULL until something is put into it.
Body(p, tag) == IF p # 0 THEN heap ELSE Append(heap, calloc(tag))
Here(p) == IF p # 0 THEN p ELSE Len(heap) + 1

\* Mutant: new cells go to the front.
linkInFront(h, owner, first, last, p) ==
    [h EXCEPT ![p].next = h[owner][first], ![owner][first] = p, ![owner][last] = p]

\* Cell p of heap h at the end of the list that owner's field `first` begins.
Link(h, owner, first, last, p) ==
    IF h[owner][first] = 0 THEN [h EXCEPT ![owner][first] = p, ![owner][last] = p]
    ELSE [h EXCEPT ![h[owner][last]].next = p, ![owner][last] = p]

\* $1 is a body, $2 a cell that goes to the end of one of its lists.
AppendTo(r, a, tag, first, last) ==
    /\ Rules[r].action = a
    /\ Return(r, Link(Body(Arg(r, 1), tag), Here(Arg(r, 1)), first, last, Arg(r, 2)),
              Here(Arg(r, 1)))

\* Mutant: list->last stays where it was.
tailNotMoved(r, a, tag, list, fields) ==
    LET node == Len(heap) + 1
        h == Append(heap, New(tag, fields))
    IN  /\ Rules[r].action = a
        /\ IF list = 0 THEN Return(r, [h EXCEPT ![node].last = node], node)
           ELSE Return(r, [h EXCEPT ![h[list].last].next = node], list)

\* A list that knows its own tail, 0 if there is none yet, gets an item.
AppendNode(r, a, tag, list, fields) ==
    LET node == Len(heap) + 1
        h == Append(heap, New(tag, fields))
    IN  /\ Rules[r].action = a
        /\ IF list = 0 THEN Return(r, [h EXCEPT ![node].last = node], node)
           ELSE Return(r, [h EXCEPT ![h[list].last].next = node, ![list].last = node], list)

\* Mutant: the compiler state is not told.
programNotPublished(r) ==
    /\ Build(r, "SchemaProgram", "Program", [schema |-> Arg(r, 1)])
    /\ UNCHANGED program

SchemaProgramSemanticAction(r) ==
    /\ Build(r, "SchemaProgram", "Program", [schema |-> Arg(r, 1)])
    /\ program' = Len(heap) + 1

SchemaSemanticAction(r) ==
    /\ Rules[r].action = "Schema"
    /\ Return(r, [Body(Arg(r, 2), "Schema") EXCEPT ![Here(Arg(r, 2))].name = Arg(r, 1)],
              Here(Arg(r, 2)))

EmptySemanticAction(r) == Rules[r].action = "Empty" /\ Return(r, heap, 0)

AppendEntitySchemaBodySemanticAction(r) ==
    AppendTo(r, "AppendEntitySchemaBody", "Schema", "entities", "entities_last")

AppendRelationshipSchemaBodySemanticAction(r) ==
    AppendTo(r, "AppendRelationshipSchemaBody", "Schema", "relationships", "relationships_last")

EntitySemanticAction(r) ==
    /\ Rules[r].action = "Entity"
    /\ Return(r, [Body(Arg(r, 3), "Entity") EXCEPT
                    ![Here(Arg(r, 3))].name = Arg(r, 1),
                    ![Here(Arg(r, 3))].parent = IF Arg(r, 2) # 0 THEN Arg(r, 2) ELSE @],
              Here(Arg(r, 3)))

AppendAttributeEntityBodySemanticAction(r) ==
    LET e == Here(Arg(r, 1))
        h == Append(Body(Arg(r, 1), "Entity"), New("AttributeList", [attribute |-> Arg(r, 2)]))
    IN  /\ Rules[r].action = "AppendAttributeEntityBody"
        /\ Return(r, Link(h, e, "attributes", "attributes_last", Len(h)), e)

\* A key that was there loses its only pointer.
SetPrimaryKeyEntityBodySemanticAction(r) ==
    /\ Rules[r].action = "SetPrimaryKeyEntityBody"
    /\ Return(r, [Body(Arg(r, 1), "Entity") EXCEPT ![Here(Arg(r, 1))].primaryKey = Arg(r, 2)],
              Here(Arg(r, 1)))

AppendAssertionEntityBodySemanticAction(r) ==
    AppendTo(r, "AppendAssertionEntityBody", "Entity", "assertions", "assertions_last")

\* Mutant: type and modifiers change places.
attributeSwapped(r) ==
    Build(r, "Attribute", "Attribute",
          [name |-> Arg(r, 1), type |-> Arg(r, 3), modifiers |-> Arg(r, 2)])

AttributeSemanticAction(r) ==
    Build(r, "Attribute", "Attribute",
          [name |-> Arg(r, 1), type |-> Arg(r, 2), modifiers |-> Arg(r, 3)])

AttributeListSemanticAction(r) ==
    AppendNode(r, "AttributeList", "AttributeList", 0, [attribute |-> Arg(r, 1)])

AppendAttributeListSemanticAction(r) ==
    AppendNode(r, "AppendAttributeList", "AttributeList", Arg(r, 1), [attribute |-> Arg(r, 2)])

TypeSemanticAction(r) == Build(r, "Type", "Type", <<>>)

AppendModifierSemanticAction(r) ==
    AppendNode(r, "AppendModifier", "ModifierList", Arg(r, 1), [modifier |-> Arg(r, 2)])

ModifierSemanticAction(r) == Build(r, "Modifier", "Modifier", <<>>)

ModifierDefaultSemanticAction(r) ==
    Build(r, "ModifierDefault", "Modifier", [defaultValue |-> Arg(r, 1)])

PrimaryKeySemanticAction(r) == Build(r, "PrimaryKey", "PrimaryKey", [attributes |-> Arg(r, 1)])

\* Mutant: attribute, entity for entity, attribute.
qualifiedIdentifierSwapped(r) ==
    Build(r, "CreateQualifiedIdentifier", "QualifiedIdentifier",
          [entity |-> Arg(r, 2), attribute |-> Arg(r, 1)])

CreateQualifiedIdentifier(r) ==
    Build(r, "CreateQualifiedIdentifier", "QualifiedIdentifier",
          [entity |-> Arg(r, 1), attribute |-> Arg(r, 2)])

QualifiedIdentifierListSemanticAction(r) ==
    AppendNode(r, "QualifiedIdentifierList", "QualifiedIdentifierList", 0, [qid |-> Arg(r, 1)])

AppendQualifiedIdentifierListSemanticAction(r) ==
    AppendNode(r, "AppendQualifiedIdentifierList", "QualifiedIdentifierList", Arg(r, 1),
               [qid |-> Arg(r, 2)])

AssertionSemanticAction(r) == Build(r, "Assertion", "Assertion", [condition |-> Arg(r, 1)])

RelationshipSemanticAction(r) ==
    LET p == Here(Arg(r, 3))
    IN  /\ Rules[r].action = "Relationship"
        /\ Return(r, [Body(Arg(r, 3), "Relationship") EXCEPT
                        ![p].name = Arg(r, 1), ![p].participants = Arg(r, 2),
                        ![p].participants_last = heap[Arg(r, 2)].last], p)

ParticipantListSemanticAction(r) ==
    AppendNode(r, "ParticipantList", "ParticipantList", 0, [participant |-> Arg(r, 1)])

AppendParticipantListSemanticAction(r) ==
    AppendNode(r, "AppendParticipantList", "ParticipantList", Arg(r, 1),
               [participant |-> Arg(r, 2)])

ParticipantSemanticAction(r) ==
    Build(r, "Participant", "Participant",
          [entityName |-> Arg(r, 1), participation |-> Arg(r, 2)])

ParticipationSemanticAction(r) == Build(r, "Participation", "Participation", <<>>)

RelationshipBodySemanticAction(r) ==
    Build(r, "RelationshipBody", "Relationship",
          [attributes |-> Arg(r, 1), attributes_last |-> heap[Arg(r, 1)].last])

LiteralExpressionSemanticAction(r) ==
    Build(r, "LiteralExpression", "Expression", [literal |-> Arg(r, 1)])

IdentifierExpressionSemanticAction(r) ==
    Build(r, "IdentifierExpression", "Expression", [identifier |-> Arg(r, 1)])

ArithmeticExpressionSemanticAction(r) ==
    Build(r, "ArithmeticExpression", "Expression", [left |-> Arg(r, 1), right |-> Arg(r, 2)])

LiteralSemanticAction(r) == Build(r, "Literal", "Literal", <<>>)

StringLiteralSemanticAction(r) == Build(r, "StringLiteral", "Literal", [string |-> Arg(r, 1)])

reduce(r) ==
    \/ SchemaProgramSemanticAction(r)
    \/ /\ \/ SchemaSemanticAction(r) \/ EmptySemanticAction(r)
          \/ AppendEntitySchemaBodySemanticAction(r)
          \/ AppendRelationshipSchemaBodySemanticAction(r)
          \/ EntitySemanticAction(r) \/ AppendAttributeEntityBodySemanticAction(r)
          \/ SetPrimaryKeyEntityBodySemanticAction(r)
          \/ AppendAssertionEntityBodySemanticAction(r)
          \/ AttributeSemanticAction(r) \/ AttributeListSemanticAction(r)
          \/ AppendAttributeListSemanticAction(r) \/ TypeSemanticAction(r)
          \/ AppendModifierSemanticAction(r) \/ ModifierSemanticAction(r)
          \/ ModifierDefaultSemanticAction(r) \/ PrimaryKeySemanticAction(r)
          \/ CreateQualifiedIdentifier(r) \/ QualifiedIdentifierListSemanticAction(r)
          \/ AppendQualifiedIdentifierListSemanticAction(r) \/ AssertionSemanticAction(r)
          \/ RelationshipSemanticAction(r) \/ ParticipantListSemanticAction(r)
          \/ AppendParticipantListSemanticAction(r) \/ ParticipantSemanticAction(r)
          \/ ParticipationSemanticAction(r) \/ RelationshipBodySemanticAction(r)
          \/ LiteralExpressionSemanticAction(r) \/ IdentifierExpressionSemanticAction(r)
          \/ ArithmeticExpressionSemanticAction(r) \/ LiteralSemanticAction(r)
          \/ StringLiteralSemanticAction(r)
       /\ UNCHANGED program

-----------------------------------------------------------------------------
(* The end of the analysis                                                 *)

accept ==
    /\ Parsing /\ 1 \in Complete(Items)
    /\ status' = "SUCCEEDED"
    /\ UNCHANGED <<heap, freed, stack, lookahead, input, program, released>>

\* Mutant: a %destructor for "program" too.
programDestructed(p) == IF p = 0 THEN <<>> ELSE destroy(heap, p)

\* There is no error rule: every symbol is popped and destroyed, but for
\* "program", which has no %destructor; then the token is.
Destructed(p) == IF p = 0 \/ p = program THEN <<>> ELSE destroy(heap, p)
syntaxError ==
    /\ Parsing /\ Unexpected /\ Due = {}
    /\ freed' = freed \o FlattenSeq([i \in DOMAIN stack |-> Destructed(Reverse(stack)[i].ptr)])
                      \o Destructed(lookahead.ptr)
    /\ stack' = <<>> /\ lookahead' = NoToken
    /\ status' = "FAILED"
    /\ UNCHANGED <<heap, input, program, released>>

\* The scanner gives up without telling the parser.
UnknownLexemeAction ==
    /\ Parsing /\ lookahead = NoToken /\ Due = {} /\ ahead = <<>>
    /\ status' = "FAILED"
    /\ UNCHANGED <<heap, freed, stack, lookahead, input, program, released>>

\* main; yypstate_delete runs no destructor on what is left on the stack.
release ==
    /\ ~Parsing /\ ~released
    /\ freed' = freed \o destroy(heap, program)
    /\ released' = TRUE
    /\ UNCHANGED <<heap, stack, lookahead, input, program, status>>

\* What yypush_parse does with the token it was given.
parse == shift \/ accept \/ syntaxError \/ \E r \in Due : reduce(r)

Next == pushToken \/ parse \/ UnknownLexemeAction \/ release

\* The parser's answer to the last token; BUSY and ENDING while it has none yet, for
\* a token and for the end.  A lexeme the scanner gives up on is not the parser's.
answer ==
    IF status = "SUCCEEDED" THEN "SUCCEEDED"
    ELSE IF stack = <<>> THEN "FAILED"
    ELSE IF lookahead = NoToken /\ Due = {} THEN "IN_PROGRESS"
    ELSE IF lookahead.sym = "END" \/ 1 \in Complete(Items) THEN "ENDING"
    ELSE "BUSY"
Working == answer \in {"BUSY", "ENDING"}

\* A call of yypush_parse runs on; the next lexeme need not come.  (This is weak
\* fairness of parse: parse is enabled when the parser is Working.)
Fairness == []<>~Working \/ []<><<parse>>_vars

Spec == Init /\ [][Next]_vars /\ Fairness
-----------------------------------------------------------------------------
Pointers(c) ==
    {<<c, Layout[heap[c].tag][i][1], Layout[heap[c].tag][i][2]>> : i \in DOMAIN Layout[heap[c].tag]}
Owning == {f \in UNION {Pointers(c) : c \in DOMAIN heap} : heap[f[1]][f[2]] # 0}
Held == {i \in DOMAIN stack : stack[i].ptr # 0}

TypeOK ==
    /\ \A f \in Owning : heap[f[1]][f[2]] \in DOMAIN heap /\ heap[heap[f[1]][f[2]]].tag = f[3]
    /\ \A t \in Tails, c \in DOMAIN heap : heap[c][t] \in 0 .. Len(heap)
    /\ ToSet(freed) \subseteq DOMAIN heap
    /\ \A i \in DOMAIN stack : stack[i].ptr \in 0 .. Len(heap)
    /\ Cardinality(Due) <= 1
    /\ lookahead.sym \in Terminals \cup {"none", "END"} /\ lookahead.ptr \in 0 .. Len(heap)
    /\ program \in 0 .. Len(heap) /\ pushed \in 0 .. MaxTokens + 1
    /\ status \in {"IN_PROGRESS", "SUCCEEDED", "FAILED"} /\ released \in BOOLEAN

\* Keys that a later PRIMARY clause of their entity replaced, with what they own:
\* nothing points at them any more (BisonActions.c:140).
Unowned == DOMAIN heap \ ({heap[f[1]][f[2]] : f \in Owning} \cup {stack[i].ptr : i \in Held}
                          \cup {lookahead.ptr})
Replaced == UNION {ToSet(destroy(heap, c)) : c \in {k \in Unowned : heap[k].tag = "PrimaryKey"}}

\* Whatever the semantic actions link, while the parser runs every cell has one
\* owner, a field of another cell, a symbol of the stack or the lookahead token:
\* the tail pointers of the lists (BisonActions.c:71, 191, 342) neither lose a
\* cell nor share one.
OwnedOnce ==
    Parsing =>
        /\ \A c \in Unowned : heap[c].tag = "PrimaryKey"
        /\ Cardinality(Owning) + Cardinality(Held) + (IF lookahead.ptr = 0 THEN 0 ELSE 1)
           = Cardinality(DOMAIN heap \ Unowned)

\* When main has released the tree nothing was freed twice, whether the parser
\* accepted, failed with the program already published in the compiler state
\* (BisonActions.c:42), or was left in the middle by the scanner; and if it came
\* to its end everything but the replaced keys was freed (BisonGrammar.y:57).
FreedOnce ==
    released => /\ IsInjective(freed)
                /\ stack = <<>> \/ status = "SUCCEEDED" =>
                      ToSet(freed) = DOMAIN heap \ Replaced

\* Lists are in source order: what an item begins with was built before what the
\* next one begins with.
FirstField(c) == heap[c][Layout[heap[c].tag][1][1]]
InSourceOrder ==
    \A c \in DOMAIN heap : heap[c].next # 0 => FirstField(c) < FirstField(heap[c].next)

\* An accepted tree has what the analyzer reads without a test: names, types,
\* the parts of a key, a participant, a condition (SymbolTable.c:195,
\* EntityPKRules.c:19, TypeInference.c:61).
Optional == {"entities", "relationships", "parent", "primaryKey", "assertions", "next",
             "modifiers", "participation", "identifier", "literal", "left", "right",
             "string", "defaultValue", "entity"}
HandsOverSchema ==
    status = "SUCCEEDED" =>
        /\ program # 0 /\ heap[program].tag = "Program"
        /\ \A c \in ToSet(destroy(heap, program)) : \A f \in Pointers(c) :
              \/ heap[c][f[2]] # 0
              \/ f[2] \in Optional
              \/ heap[c].tag \in {"Entity", "Relationship"} /\ f[2] = "attributes"
        /\ \A c \in ToSet(destroy(heap, program)) :
              heap[c].tag = "Expression" => \E f \in Pointers(c) : heap[c][f[2]] # 0

\* The automaton and its actions keep the contract the front end relies on
\* (Frontend.c:180): whatever is pushed, the parser answers, it asks for more only
\* before the end and before a program is published, and it succeeds only at the
\* end with a program published (BisonActions.c:42).
Contract == INSTANCE PushParser WITH
    answer <- answer, published <- program # 0, Failures <- {"FAILED", "OUT_OF_MEMORY"}
ImplementsPushParser == Contract!Spec

\* Destructors are executed after the parsing ends (BisonGrammar.y:57): then
\* nothing of the tree is left, but for replaced keys.
DestructorsExecuted == released => DOMAIN heap \ Replaced \subseteq ToSet(freed)
=============================================================================
