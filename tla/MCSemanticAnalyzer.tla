-------------------------- MODULE MCSemanticAnalyzer --------------------------
(***************************************************************************)
(* SemanticAnalyzer on four families of schemas, each varying what one     *)
(* group of rules looks at: who inherits from whom, the key of a weak or a *)
(* strong entity, the participants of a relationship, the types of         *)
(* defaults and assertions.                                                *)
(***************************************************************************)
EXTENDS SemanticAnalyzer, TLC

CONSTANTS A, B, C, W, R, U, x, y

MCNames == {A, B, C, W, R, U, x, y}
MCText == [n \in MCNames |-> <<n>>]

Mod(type) == [type |-> type, defaultValue |-> NULL]
Default(type, zero) ==
    [type |-> "MOD_DEFAULT", defaultValue |-> [type |-> type, zero |-> zero]]
Attr(name, kind, modifiers) == [name |-> name, kind |-> kind, modifiers |-> modifiers]
Stored == Attr(x, "TYPE_INTEGER", <<>>)
Primary == Attr(x, "TYPE_INTEGER", <<Mod("MOD_UNIQUE"), Mod("MOD_PRIMARY")>>)
Derived == Attr(y, "TYPE_INTEGER", <<Mod("MOD_DERIVED")>>)

Ent(name, weak, attributes, primaryKey, assertions) ==
    [name |-> name, parent |-> NULL, weak |-> weak, attributes |-> attributes,
     primaryKey |-> primaryKey, assertions |-> assertions]
Part(n, p) == [entityName |-> n, participation |-> p]
Rel(participants, attributes) ==
    [name |-> R, participants |-> participants, attributes |-> attributes]
Plain(name) == Ent(name, FALSE, <<Primary, Derived>>, NULL, <<>>)

-----------------------------------------------------------------------------
(* Inheritance: every structure over three entities.  Each inherits from   *)
(* nobody, from one of the three or from an entity that is not declared,   *)
(* and the third may repeat the second's name.                             *)

\* A root's first attribute is its key, so that a sound schema is accepted.
Heir(name, parent, attributes) ==
    [name |-> name, parent |-> parent, weak |-> FALSE,
     attributes |-> [i \in DOMAIN attributes |-> Attr(attributes[i], "TYPE_INTEGER", <<>>)],
     primaryKey |-> IF parent = NULL /\ attributes # <<>>
                    THEN <<[entity |-> NULL, attribute |-> attributes[1]]>> ELSE NULL,
     assertions |-> <<>>]

Parents == {NULL, A, B, C, U}
AttributeLists == {<<>>, <<x>>, <<y>>, <<y, x>>}

InheritanceSchemas ==
    {[entities |-> <<Heir(A, p[1], a[1]), Heir(B, p[2], a[2]), Heir(c, p[3], a[3])>>,
      relationships |-> <<>>] :
        p \in [1 .. 3 -> Parents], a \in [1 .. 3 -> AttributeLists], c \in {B, C}}

-----------------------------------------------------------------------------
(* Keys: every clause of up to three parts over stored and derived         *)
(* attributes of W itself, of A, of an undeclared entity, one clause past  *)
(* the capacity, W weak or not, related to A, to B or to nobody.           *)
Qid(n, a) == [entity |-> n, attribute |-> a]
Qids == {Qid(NULL, x), Qid(NULL, y), Qid(W, x), Qid(A, x), Qid(A, y), Qid(U, x)}
Keys == UNION {[1 .. k -> Qids] : k \in 1 .. 3}
        \cup {NULL, <<Qid(NULL, x), Qid(A, x), Qid(NULL, y), Qid(A, y)>>}
Total == "PARTICIPATION_TOTAL"
WRelations == {<<>>, <<Rel(<<Part(A, NULL), Part(W, Total)>>, <<>>)>>,
               <<Rel(<<Part(A, NULL), Part(B, NULL)>>, <<>>)>>}

KeySchemas ==
    {[entities |-> <<Plain(A), Ent(W, weak, <<first, Derived>>, key, <<>>), Plain(B)>>,
      relationships |-> rels] :
        weak \in BOOLEAN, first \in {Stored, Primary}, key \in Keys, rels \in WRelations}

-----------------------------------------------------------------------------
(* Participants: every list of up to three.                                *)
Parts == {Part(n, p) : n \in {A, W, U}, p \in ParticipationType \cup {NULL}}
Weak == Ent(W, TRUE, <<Primary>>, NULL, <<>>)
ParticipantSchemas ==
    {[entities |-> <<Weak, Plain(A)>>,
      relationships |-> <<Rel(ps, as)>>] :
        ps \in UNION {[1 .. k -> Parts] : k \in 1 .. 3},
        as \in {<<Stored>>, <<Primary>>}}
    \cup {[entities |-> <<Weak, Plain(A)>>, relationships |-> <<r, r>>] :
            r \in {Rel(<<Part(A, NULL), Part(W, Total)>>, <<>>)}}

-----------------------------------------------------------------------------
(* Types: every kind of attribute with every kind of default, in an entity *)
(* or in a relationship, and conditions right and wrong at the root.       *)
Lit(type) == [type |-> "LITERAL_EXPR", leaf |-> type, args |-> <<>>]
Ident(n) == [type |-> "IDENTIFIER_EXPR", leaf |-> n, args |-> <<>>]
Op(type, args) == [type |-> type, leaf |-> NULL, args |-> args]
Conditions ==
    {<<Lit("BOOLEAN_LITERAL")>>, <<Ident(x)>>, <<Ident(U)>>,
     <<Ident(x), Lit("DECIMAL_LITERAL"), Op("RELATIONAL_EXPR", <<1, 2>>)>>,
     <<Ident(x), Ident(U), Op("RELATIONAL_EXPR", <<1, 2>>)>>,
     <<Ident(x), Op("LOGICAL_NOT_EXPR", <<1>>)>>}
Defaults == {<<>>} \cup {<<Default(t, FALSE)>> : t \in LiteralType}

TypeSchemas ==
    {[entities |-> <<Ent(A, FALSE, <<Attr(x, k, d), Attr(y, p, <<Mod("MOD_PRIMARY")>>)>>,
                         NULL, <<c>>),
                     Plain(B)>>,
      relationships |-> <<>>] :
        k \in TypeKind, d \in Defaults, p \in {"TYPE_UUID", "TYPE_DATE"}, c \in Conditions}
    \cup
    {[entities |-> <<Plain(A), Plain(B)>>,
      relationships |->
        <<Rel(<<Part(A, NULL), Part(B, NULL)>>, <<Attr(x, k, d)>>)>>] :
        k \in TypeKind, d \in Defaults}

-----------------------------------------------------------------------------
(* For the runs that end in a violation                                    *)

\* A comparison of two identifiers of which none, one or both are attributes.
MaskedSchemas ==
    {[entities |-> <<Ent(A, FALSE, <<Primary>>, NULL,
                         <<<<Ident(m), Ident(n), Op("RELATIONAL_EXPR", <<1, 2>>)>>>>),
                     Plain(B)>>,
      relationships |-> <<>>] : m \in {x, U}, n \in {x, y}}

\* A relationship attribute of each type, with or without the default 0.
DefaultSchemas ==
    {[entities |-> <<Plain(A), Plain(B)>>,
      relationships |->
        <<Rel(<<Part(A, NULL), Part(B, NULL)>>, <<Attr(x, k, d)>>)>>] :
        k \in TypeKind, d \in {<<>>, <<Default("INTEGER_LITERAL", TRUE)>>}}

\* A weak entity with either kind of key, related to another one or to nobody.
WeakSchemas ==
    {[entities |-> <<Plain(A), Ent(W, TRUE, <<first, Derived>>, key, <<>>), Plain(B)>>,
      relationships |-> rels] :
        first \in {Stored, Primary}, key \in {NULL, <<Qid(NULL, x)>>, <<Qid(A, x)>>},
        rels \in WRelations}

-----------------------------------------------------------------------------
\* The comparison has TLC sort the first set, or their union takes a minute.
MCSchemas ==
    LET heirs == InheritanceSchemas
        others == KeySchemas \cup ParticipantSchemas \cup TypeSchemas
    IN  IF heirs # {} THEN heirs \cup others ELSE others

\* The hypothesis of AnalyzerVerdictRight: the verdict is right on all of these, but
\* for a limit that is too low (MCDepthLimit).
ASSUME MCOrdinary == MAX_INHERITANCE_DEPTH >= 2 => \A s \in MCSchemas : Ordinary(s)
=============================================================================
