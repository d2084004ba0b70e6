---------------------------- MODULE MCExpressions ----------------------------
(***************************************************************************)
(* ExpressionParser on every input of two kinds.  Long ones with one       *)
(* operand and an operator of every level (two where a level's             *)
(* associativity is between different operators), for the shape of the     *)
(* tree.  Shorter ones over attributes of three types, an identifier that  *)
(* is not declared and one operator of every class, for its type.          *)
(***************************************************************************)
EXTENDS ExpressionParser, TLC

CONSTANTS n, d, b, u, MaxShape, MaxTyping

MCNames == {n, d, b, u}
Keyword(sym) == [sym |-> sym, value |-> NULL]
Attr(name, kind) == [name |-> name, kind |-> kind, modifiers |-> <<>>]

Constructs == {"OP_NOT", "IF", "THEN", "OTHERWISE", "OPEN_PAREN", "CLOSE_PAREN"}
Shapes ==
    {Keyword(s) : s \in Constructs \cup {"OP_OR", "OP_AND", "OP_EQ", "OP_LT", "OP_SUB", "OP_DIV"}}
    \cup {[sym |-> "IDENTIFIER", value |-> n]}
Typed ==
    {Keyword(s) : s \in Constructs \cup {"OP_AND", "OP_EQ", "OP_ADD"}}
    \cup {[sym |-> "IDENTIFIER", value |-> v] : v \in {n, b, u}}
    \cup {[sym |-> "literal", value |-> "DECIMAL_LITERAL"]}

MCVocabularies == {[tokens |-> Shapes, max |-> MaxShape], [tokens |-> Typed, max |-> MaxTyping]}
MCScope == <<Attr(n, "TYPE_INTEGER"), Attr(d, "TYPE_DECIMAL"), Attr(b, "TYPE_BOOL")>>
=============================================================================
