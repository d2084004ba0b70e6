------------------------------- MODULE ERSchema -------------------------------
(***************************************************************************)
(* The syntax tree the front end hands to the semantic analyzer            *)
(* (AbstractSyntaxTree.h), as values.  A linked list is a sequence, a      *)
(* pointer to an Entity or a Relationship is its position in the schema,   *)
(* an absent child is NULL.  Left out: cardinalities and isArray, which no *)
(* semantic rule reads, and operators within one class (+ and -, = and <). *)
(***************************************************************************)
EXTENDS Integers, Sequences

CONSTANTS
    Names,  \* the identifiers of the program
    NULL    \* the null pointer

TypeKind == {"TYPE_INTEGER", "TYPE_DECIMAL", "TYPE_STRING", "TYPE_BOOL",
             "TYPE_DATE", "TYPE_DATETIME", "TYPE_UUID", "TYPE_ENUM"}
LiteralType == {"INTEGER_LITERAL", "DECIMAL_LITERAL", "STRING_LITERAL", "BOOLEAN_LITERAL"}
ModifierType == {"MOD_PRIMARY", "MOD_UNIQUE", "MOD_NOT_NULL", "MOD_DEFAULT", "MOD_DERIVED"}
ExpressionType == {"LITERAL_EXPR", "IDENTIFIER_EXPR", "ARITHMETIC_EXPR", "RELATIONAL_EXPR",
                   "LOGICAL_EXPR", "LOGICAL_NOT_EXPR", "CONDITIONAL_EXPR",
                   "PARENTHESIZED_EXPR"}
ParticipationType == {"PARTICIPATION_TOTAL", "PARTICIPATION_PARTIAL"}

\* `zero` tells the value 0 apart from the others.
Literal == [type : LiteralType, zero : BOOLEAN]

\* An expression is the sequence of its nodes, operands before operators and
\* the root last; `args` are the positions of a node's operands.  A node's last
\* operand is just before it, and the nodes of an operand are just before those of
\* the next: every node but the root is an operand once.
Node == [type : ExpressionType, leaf : Names \cup LiteralType \cup {NULL}, args : Seq(Nat)]
Arity == [LITERAL_EXPR |-> 0, IDENTIFIER_EXPR |-> 0, ARITHMETIC_EXPR |-> 2,
          RELATIONAL_EXPR |-> 2, LOGICAL_EXPR |-> 2, LOGICAL_NOT_EXPR |-> 1,
          CONDITIONAL_EXPR |-> 3, PARENTHESIZED_EXPR |-> 1]
\* The first of the nodes below a node.
Begins(expr) ==
    LET from[i \in DOMAIN expr] ==
            IF expr[i].args = <<>> THEN i ELSE from[expr[i].args[1]]
    IN  from
Expression ==
    {expr \in Seq(Node) :
        /\ expr # <<>>
        /\ \A i \in DOMAIN expr :
              /\ expr[i].type = "LITERAL_EXPR" => expr[i].leaf \in LiteralType
              /\ expr[i].type = "IDENTIFIER_EXPR" => expr[i].leaf \in Names
              /\ Len(expr[i].args) = Arity[expr[i].type]
              /\ \A k \in DOMAIN expr[i].args : expr[i].args[k] \in 1 .. i - 1
        /\ Begins(expr)[Len(expr)] = 1
        /\ \A i \in DOMAIN expr : \A k \in DOMAIN expr[i].args :
              IF k = Len(expr[i].args) THEN expr[i].args[k] = i - 1
              ELSE Begins(expr)[expr[i].args[k + 1]] = expr[i].args[k] + 1}

Modifier == [type : ModifierType, defaultValue : Literal \cup {NULL}]
Attribute == [name : Names, kind : TypeKind, modifiers : Seq(Modifier)]
QualifiedIdentifier == [entity : Names \cup {NULL}, attribute : Names]

Entity ==
    [name : Names, parent : Names \cup {NULL}, weak : BOOLEAN,
     attributes : Seq(Attribute),
     primaryKey : Seq(QualifiedIdentifier) \cup {NULL},
     assertions : Seq(Expression)]

Participant == [entityName : Names, participation : ParticipationType \cup {NULL}]
Relationship == [name : Names, participants : Seq(Participant), attributes : Seq(Attribute)]
Schema == [entities : Seq(Entity), relationships : Seq(Relationship)]

-----------------------------------------------------------------------------
\* The loops over a ModifierList that look for one type of modifier.
HasModifier(attribute, type) ==
    \E i \in DOMAIN attribute.modifiers : attribute.modifiers[i].type = type

AttributeNamed(attributes, name) ==
    \E i \in DOMAIN attributes : attributes[i].name = name

\* lookupAttributeInEntity and lookupAttributeInRelationship: the first match.
lookupAttribute(attributes, name) ==
    IF ~AttributeNamed(attributes, name) THEN NULL
    ELSE attributes[CHOOSE i \in DOMAIN attributes :
             /\ attributes[i].name = name
             /\ \A j \in DOMAIN attributes : attributes[j].name = name => i <= j]
=============================================================================
