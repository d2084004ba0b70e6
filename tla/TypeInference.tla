---------------------------- MODULE TypeInference ----------------------------
(***************************************************************************)
(* TypeInference.c: the type of an expression in the scope of a list of    *)
(* attributes, and the nodes at which the inference logs an error.  A      *)
(* logged error does not by itself reject the program: the caller looks    *)
(* only at the type of the root.                                           *)
(***************************************************************************)
EXTENDS ERSchema

TYPE_ERROR == "TYPE_ERROR"

isNumeric(k) == k \in {"TYPE_INTEGER", "TYPE_DECIMAL"}

\* Mutant: what is not a number is a condition.
isNotNumeric(k) == ~isNumeric(k)

isBoolean(k) == k = "TYPE_BOOL"

\* Mutant: the left operand decides.
coerceToLeft(left, right) ==
    IF ~isNumeric(left) \/ ~isNumeric(right) THEN TYPE_ERROR ELSE left

\* Mutant: an integer is not promoted.
coerceEqualOnly(left, right) ==
    IF ~isNumeric(left) \/ left # right THEN TYPE_ERROR ELSE left

\* The operand of the higher rank, DECIMAL above INTEGER.
coerceNumeric(left, right) ==
    IF ~isNumeric(left) \/ ~isNumeric(right) THEN TYPE_ERROR
    ELSE IF left = "TYPE_DECIMAL" /\ right = "TYPE_INTEGER" THEN left ELSE right

isComparable(left, right) == left = right \/ (isNumeric(left) /\ isNumeric(right))

inferLiteralType(type) ==
    CASE type = "INTEGER_LITERAL" -> "TYPE_INTEGER"
      [] type = "DECIMAL_LITERAL" -> "TYPE_DECIMAL"
      [] type = "STRING_LITERAL"  -> "TYPE_STRING"
      [] type = "BOOLEAN_LITERAL" -> "TYPE_BOOL"

\* [kind, errors] of node i, from what infer says of its operands.  The branches of
\* a conditional are not visited when its condition is not boolean.
inferNode(node, i, infer, attributes) ==
    LET kind(k) == infer[node.args[k]].kind
        logged == UNION {infer[node.args[k]].errors : k \in DOMAIN node.args}
        typed(k) == [kind |-> k, errors |-> logged]
        error == [kind |-> TYPE_ERROR, errors |-> logged \cup {i}]
    IN  CASE node.type = "LITERAL_EXPR" -> typed(inferLiteralType(node.leaf))
          [] node.type = "IDENTIFIER_EXPR" ->
                IF AttributeNamed(attributes, node.leaf)
                THEN typed(lookupAttribute(attributes, node.leaf).kind) ELSE error
          [] node.type = "ARITHMETIC_EXPR" ->
                IF isNumeric(kind(1)) /\ isNumeric(kind(2))
                THEN typed(coerceNumeric(kind(1), kind(2))) ELSE error
          [] node.type = "RELATIONAL_EXPR" ->
                IF isComparable(kind(1), kind(2)) THEN typed("TYPE_BOOL") ELSE error
          [] node.type = "LOGICAL_EXPR" ->
                IF isBoolean(kind(1)) /\ isBoolean(kind(2))
                THEN typed("TYPE_BOOL") ELSE error
          [] node.type = "LOGICAL_NOT_EXPR" ->
                IF isBoolean(kind(1)) THEN typed("TYPE_BOOL") ELSE error
          [] node.type = "CONDITIONAL_EXPR" /\ ~isBoolean(kind(1)) ->
                [kind |-> TYPE_ERROR, errors |-> infer[node.args[1]].errors \cup {i}]
          [] node.type = "CONDITIONAL_EXPR" /\ isBoolean(kind(1)) ->
                IF kind(2) = kind(3) THEN typed(kind(2))
                ELSE IF coerceNumeric(kind(2), kind(3)) # TYPE_ERROR
                THEN typed(coerceNumeric(kind(2), kind(3))) ELSE error
          [] node.type = "PARENTHESIZED_EXPR" -> typed(kind(1))

inferTypes(expr, attributes) ==
    LET infer[i \in DOMAIN expr] == inferNode(expr[i], i, infer, attributes) IN infer

inferExpressionType(expr, attributes) == inferTypes(expr, attributes)[Len(expr)]
=============================================================================
