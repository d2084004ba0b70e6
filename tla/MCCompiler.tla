------------------------------ MODULE MCCompiler ------------------------------
(***************************************************************************)
(* Compiler on schemas that are accepted and that are not.  Between them   *)
(* they have every way to write a key, weak entities in every place of a   *)
(* relationship, inheritance, names that run together when joined by an    *)
(* underscore, and conditions of every kind.  Numbers are printed to just  *)
(* what fits in temp and to one more; labels outgrow the buffer.           *)
(***************************************************************************)
EXTENDS Compiler

CONSTANTS A, B, W, R, x, y, s, xy, Ax, U

MCNames == {A, B, W, R, x, y, s, xy, Ax, U}
MCSpelling ==
    A :> <<"A">> @@ B :> <<"B">> @@ W :> <<"W">> @@ R :> <<"R">> @@ x :> <<"x">> @@ y :> <<"y">>
    @@ s :> <<"s">> @@ xy :> <<"x", "_", "y">> @@ Ax :> <<"A", "_", "x">> @@ U :> <<"U">>
MCRendering == [INTEGER_LITERAL |-> <<"1", "2">>, DECIMAL_LITERAL |-> <<"1", ".", "5">>,
                STRING_LITERAL |-> <<"\"", "a", "\"">>, BOOLEAN_LITERAL |-> <<"true">>]
MCNumeral == [k \in 0 .. 2 |-> ToString(k)]
MCChar == {"A", "B", "W", "R", "x", "y", "s", "U", "_", "1", "2", ".", "5", "a", "true"}
          \cup Punctuation

Mod(type) == [type |-> type, defaultValue |-> NULL]
Attr(name, kind, modifiers) == [name |-> name, kind |-> kind, modifiers |-> modifiers]
Primary == Attr(x, "TYPE_INTEGER", <<Mod("MOD_PRIMARY")>>)
Stored(n) == Attr(n, "TYPE_INTEGER", <<>>)
Derived == Attr(y, "TYPE_INTEGER", <<Mod("MOD_DERIVED")>>)

Ent(name, parent, weak, attributes, primaryKey, assertions) ==
    [name |-> name, parent |-> parent, weak |-> weak, attributes |-> attributes,
     primaryKey |-> primaryKey, assertions |-> assertions]
Plain(name) == Ent(name, NULL, FALSE, <<Primary>>, NULL, <<>>)
Part(n, p) == [entityName |-> n, participation |-> p]
Rel(name, participants, attributes) ==
    [name |-> name, participants |-> participants, attributes |-> attributes]
Qid(n, a) == [entity |-> n, attribute |-> a]
Schema2(entities, relationships) == [entities |-> entities, relationships |-> relationships]

TotalPart == "PARTICIPATION_TOTAL"

-----------------------------------------------------------------------------
(* Conditions                                                              *)
Lit(type) == [type |-> "LITERAL_EXPR", leaf |-> type, args |-> <<>>]
Ident(n) == [type |-> "IDENTIFIER_EXPR", leaf |-> n, args |-> <<>>]
Op(type, args) == [type |-> type, leaf |-> NULL, args |-> args]

\* x * (12 + 1.5) < 12
Product == <<Ident(x), Lit("INTEGER_LITERAL"), Lit("DECIMAL_LITERAL"),
             Op("ARITHMETIC_EXPR", <<2, 3>>), Op("PARENTHESIZED_EXPR", <<4>>),
             Op("ARITHMETIC_EXPR", <<1, 5>>), Lit("INTEGER_LITERAL"),
             Op("RELATIONAL_EXPR", <<6, 7>>)>>
\* IF NOT (x < 12) THEN true OTHERWISE 1.5 < x AND true
Choice == <<Ident(x), Lit("INTEGER_LITERAL"), Op("RELATIONAL_EXPR", <<1, 2>>),
            Op("PARENTHESIZED_EXPR", <<3>>), Op("LOGICAL_NOT_EXPR", <<4>>),
            Lit("BOOLEAN_LITERAL"), Lit("DECIMAL_LITERAL"), Ident(x),
            Op("RELATIONAL_EXPR", <<7, 8>>), Lit("BOOLEAN_LITERAL"),
            Op("LOGICAL_EXPR", <<9, 10>>), Op("CONDITIONAL_EXPR", <<5, 6, 11>>)>>
\* x < 1.5
Short == <<Ident(x), Lit("DECIMAL_LITERAL"), Op("RELATIONAL_EXPR", <<1, 2>>)>>
\* s = "a"
SaysA == <<Ident(s), Lit("STRING_LITERAL"), Op("RELATIONAL_EXPR", <<1, 2>>)>>

-----------------------------------------------------------------------------
Between(name, attributes) == Rel(name, <<Part(A, NULL), Part(B, NULL)>>, attributes)
Weak(key) == Ent(W, NULL, TRUE, <<Stored(x), Stored(y)>>, key, <<>>)
WeakSchemas ==
    {Schema2(<<Plain(A), Weak(key), Plain(B)>>, <<Rel(R, parts, <<>>)>>) :
        key \in {<<Qid(NULL, y)>>, <<Qid(A, x)>>, <<Qid(W, y), Qid(A, x)>>},
        parts \in {<<Part(A, NULL), Part(W, TotalPart)>>,
                   <<Part(W, TotalPart), Part(A, TotalPart)>>,
                   <<Part(A, NULL), Part(W, NULL)>>,
                   <<Part(A, TotalPart), Part(B, NULL)>>}}

StrongSchemas == {
    Schema2(<<>>, <<>>),
    Schema2(<<Ent(A, NULL, FALSE, <<Primary, Derived>>, NULL, <<Product, Choice, Short>>),
              Plain(B)>>, <<>>),
    \* A composite key, an heir declared before its parent.
    Schema2(<<Ent(B, A, FALSE, <<Stored(s)>>, NULL, <<>>),
              Ent(A, NULL, FALSE, <<Stored(x), Stored(y), Derived>>,
                  <<Qid(NULL, x), Qid(A, y)>>, <<>>)>>, <<>>),
    \* A relationship of the name of an entity, with an attribute of the name of one of its.
    Schema2(<<Plain(A), Plain(B)>>, <<Between(A, <<Stored(x), Derived>>), Between(R, <<Stored(x)>>)>>),
    \* attr_A_x_y twice.
    Schema2(<<Ent(A, NULL, FALSE, <<Primary, Stored(xy)>>, NULL, <<>>),
              Ent(Ax, NULL, FALSE, <<Primary, Stored(y)>>, NULL, <<>>)>>, <<>>),
    \* An attribute twice.
    Schema2(<<Ent(A, NULL, FALSE, <<Primary, Stored(x)>>, NULL, <<>>)>>, <<>>),
    \* Rejected: an entity twice, an undeclared participant, an undeclared parent.
    Schema2(<<Plain(A), Plain(A)>>, <<>>),
    Schema2(<<Plain(A)>>, <<Rel(R, <<Part(A, NULL), Part(U, NULL)>>, <<>>)>>),
    Schema2(<<Ent(A, U, FALSE, <<>>, NULL, <<>>)>>, <<>>),
    \* Rejected: an entity that inherits from itself, and an heir with its attribute.
    Schema2(<<Ent(A, A, FALSE, <<Stored(x)>>, NULL, <<>>),
              Ent(B, A, FALSE, <<Stored(x)>>, NULL, <<>>)>>, <<>>)}

\* Never analyzed to the end: the heir of a cycle has an attribute of its own.
DivergingSchemas ==
    {Schema2(<<Ent(A, A, FALSE, <<Stored(x)>>, NULL, <<>>),
               Ent(B, A, FALSE, <<Stored(y)>>, NULL, <<>>)>>, <<>>)}

LabelSchemas ==
    {Schema2(<<Ent(A, NULL, FALSE, <<Primary, Attr(s, "TYPE_STRING", <<>>)>>, NULL, <<SaysA>>)>>,
             <<>>)}

MCSchemas == WeakSchemas \cup StrongSchemas \cup LabelSchemas \cup DivergingSchemas
=============================================================================
