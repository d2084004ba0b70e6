--------------------------- MODULE ExpressionParser ---------------------------
(***************************************************************************)
(* The push parser on the expression of an assertion: BisonGrammar.y's     *)
(* rules for `expression` and `assert_decl`, the precedence declarations   *)
(* that resolve their conflicts, and the actions that build the tree.      *)
(* Tokens arrive one by one, as executeSyntacticAnalysis pushes them.  The *)
(* state of the automaton is what the top of the stack says of it; as in   *)
(* the generated tables, a state with one reduction takes it by default    *)
(* (before or whatever the lookahead), and an error is found when neither  *)
(* a shift nor a reduction is left.                                        *)
(***************************************************************************)
EXTENDS TypeInference, FiniteSets, SequencesExt

CONSTANTS
    Vocabularies,   \* [tokens, max]: inputs of at most max of these tokens; a token
                    \* is [sym, value], value NULL but for operands
    Scope           \* the attributes of the entity that holds the assertion

Operands == {"IDENTIFIER", "literal"}
Token == [sym : {"IDENTIFIER"}, value : Names] \cup [sym : {"literal"}, value : LiteralType]
         \cup [sym : STRING \ Operands, value : {NULL}]

ASSUME ParserAssumption ==
    /\ \A v \in Vocabularies : v.max \in Nat /\ \A t \in v.tokens : t \in Token
    /\ Scope \in Seq(Attribute)
    /\ NULL \notin Names \cup LiteralType

VARIABLES
    vocabulary, \* what the input is made of
    tokens,     \* the tokens shifted so far
    lookahead,  \* the token pushed and not yet shifted, or NULL
    stack,      \* [sym, value, node]: a token, or an expression and its node
    nodes,      \* the tree's nodes in the order of their allocation
    freed,      \* freed[i]: how often destroyExpression freed node i
    status

vars == <<vocabulary, tokens, lookahead, stack, nodes, freed, status>>

LogicalOps == {"OP_OR", "OP_AND"}
RelationalOps == {"OP_EQ", "OP_NEQ", "OP_LT", "OP_GT", "OP_LTE", "OP_GTE"}
ArithmeticOps == {"OP_ADD", "OP_SUB", "OP_MUL", "OP_DIV"}
BinaryOps == LogicalOps \cup RelationalOps \cup ArithmeticOps
Openers == Operands \cup {"OP_NOT", "IF", "OPEN_PAREN"}

\* Mutant: AND and OR on one level.
flatPrecedence(op) ==
    CASE op \in LogicalOps           -> 3
      [] op \in RelationalOps        -> 5
      [] op \in {"OP_ADD", "OP_SUB"} -> 6
      [] op \in {"OP_MUL", "OP_DIV"} -> 7
      [] OTHER                       -> 0

\* The order of the %left and %nonassoc lines; a token that cannot continue an
\* expression is below all of them.
precedence(op) ==
    CASE op = "OP_OR"                -> 3
      [] op = "OP_AND"               -> 4
      [] op \in RelationalOps        -> 5
      [] op \in {"OP_ADD", "OP_SUB"} -> 6
      [] op \in {"OP_MUL", "OP_DIV"} -> 7
      [] OTHER                       -> 0

End == [sym |-> "END", value |-> NULL]

-----------------------------------------------------------------------------
\* The k-th symbol from the top.
Peek(k) == IF k < Len(stack) THEN stack[Len(stack) - k].sym ELSE "bottom"
NodeAt(k) == stack[Len(stack) - k].node
Under(k) == SubSeq(stack, 1, Len(stack) - k)
AfterExpression == Peek(0) = "expression"

Reduces(op, next) ==
    \/ precedence(next) < precedence(op)
    \/ precedence(next) = precedence(op) /\ op \notin RelationalOps

ReducesBinary ==
    /\ AfterExpression /\ Peek(1) \in BinaryOps
    /\ lookahead # NULL /\ Reduces(Peek(1), lookahead.sym)
ReducesConditional ==
    /\ AfterExpression /\ Peek(1) = "OTHERWISE"
    /\ lookahead # NULL /\ lookahead.sym \notin BinaryOps
Reduction ==
    \/ Peek(0) \in Operands \cup {"CLOSE_PAREN"}
    \/ AfterExpression /\ Peek(1) = "OP_NOT"
    \/ ReducesBinary \/ ReducesConditional

\* The tokens that go on: the operand a construct waits for, the next keyword
\* or bracket of the construct the expression is in, an operator.
Shiftable(sym) ==
    IF ~AfterExpression THEN sym \in Openers
    ELSE \/ sym \in BinaryOps /\ (Peek(1) \in BinaryOps =>
                precedence(sym) > precedence(Peek(1)))
         \/ <<Peek(1), sym>> \in {<<"OPEN_PAREN", "CLOSE_PAREN">>, <<"IF", "THEN">>,
                                  <<"THEN", "OTHERWISE">>}

\* assert_decl is reduced by default, whatever follows the expression.
Asserted == AfterExpression /\ Len(stack) = 1 /\ lookahead.sym \notin BinaryOps

-----------------------------------------------------------------------------
Init ==
    /\ vocabulary \in Vocabularies
    /\ tokens = <<>> /\ lookahead = NULL
    /\ stack = <<>> /\ nodes = <<>> /\ freed = <<>>
    /\ status = "parsing"

pushToken ==
    /\ status = "parsing" /\ lookahead = NULL /\ ~Reduction
    /\ \E t \in vocabulary.tokens \cup {End} :
          /\ Len(tokens) = vocabulary.max => t = End
          /\ lookahead' = t
    /\ UNCHANGED <<vocabulary, tokens, stack, nodes, freed, status>>

shift ==
    /\ status = "parsing" /\ lookahead # NULL /\ ~Reduction
    /\ Shiftable(lookahead.sym)
    /\ stack' = Append(stack, [sym |-> lookahead.sym, value |-> lookahead.value, node |-> 0])
    /\ tokens' = Append(tokens, lookahead)
    /\ lookahead' = NULL
    /\ UNCHANGED <<vocabulary, nodes, freed, status>>

\* A rule of n symbols is replaced by an expression with a node of its own.
Reduce(n, type, op, leaf, args) ==
    /\ status = "parsing"
    /\ nodes' = Append(nodes, [type |-> type, op |-> op, leaf |-> leaf, args |-> args])
    /\ freed' = Append(freed, 0)
    /\ stack' = Append(Under(n), [sym |-> "expression", value |-> NULL,
                                  node |-> Len(nodes) + 1])
    /\ UNCHANGED <<vocabulary, tokens, lookahead, status>>

LiteralExpressionSemanticAction ==
    Peek(0) = "literal" /\ Reduce(1, "LITERAL_EXPR", NULL, stack[Len(stack)].value, <<>>)

IdentifierExpressionSemanticAction ==
    Peek(0) = "IDENTIFIER" /\ Reduce(1, "IDENTIFIER_EXPR", NULL, stack[Len(stack)].value, <<>>)

\* Mutant: $3, $1 for $1, $3.
arithmeticSwapped ==
    /\ ReducesBinary /\ Peek(1) \in ArithmeticOps
    /\ Reduce(3, "ARITHMETIC_EXPR", Peek(1), NULL, <<NodeAt(0), NodeAt(2)>>)

ArithmeticExpressionSemanticAction ==
    /\ ReducesBinary /\ Peek(1) \in ArithmeticOps
    /\ Reduce(3, "ARITHMETIC_EXPR", Peek(1), NULL, <<NodeAt(2), NodeAt(0)>>)

RelationalExpressionSemanticAction ==
    /\ ReducesBinary /\ Peek(1) \in RelationalOps
    /\ Reduce(3, "RELATIONAL_EXPR", Peek(1), NULL, <<NodeAt(2), NodeAt(0)>>)

LogicalExpressionSemanticAction ==
    /\ ReducesBinary /\ Peek(1) \in LogicalOps
    /\ Reduce(3, "LOGICAL_EXPR", Peek(1), NULL, <<NodeAt(2), NodeAt(0)>>)

LogicalNotExpressionSemanticAction ==
    /\ AfterExpression /\ Peek(1) = "OP_NOT"
    /\ Reduce(2, "LOGICAL_NOT_EXPR", "OP_NOT", NULL, <<NodeAt(0)>>)

\* Mutant: $2, $2, $6 for $2, $4, $6.
conditionTwice ==
    /\ ReducesConditional
    /\ Reduce(6, "CONDITIONAL_EXPR", NULL, NULL, <<NodeAt(4), NodeAt(4), NodeAt(0)>>)

ConditionalExpressionSemanticAction ==
    /\ ReducesConditional
    /\ Reduce(6, "CONDITIONAL_EXPR", NULL, NULL, <<NodeAt(4), NodeAt(2), NodeAt(0)>>)

ParenthesizedExpressionSemanticAction ==
    /\ Peek(0) = "CLOSE_PAREN"
    /\ Reduce(3, "PARENTHESIZED_EXPR", NULL, NULL, <<NodeAt(1)>>)

\* The assertion takes the expression over.
AssertionSemanticAction ==
    /\ status = "parsing" /\ lookahead # NULL /\ ~Reduction
    /\ Asserted
    /\ status' = "asserted"
    /\ UNCHANGED <<vocabulary, tokens, lookahead, stack, nodes, freed>>

syntaxError ==
    /\ status = "parsing" /\ lookahead # NULL /\ ~Reduction
    /\ ~Shiftable(lookahead.sym) /\ ~Asserted
    /\ status' = "discarding"
    /\ UNCHANGED <<vocabulary, tokens, lookahead, stack, nodes, freed>>

\* The nodes that destroyExpression frees when called on node i of an expression.
destroyExpression(expr, i) ==
    LET tree[k \in DOMAIN expr] ==
            {k} \cup UNION {tree[expr[k].args[j]] : j \in DOMAIN expr[k].args}
    IN  tree[i]

\* The parser has no error rule: it pops every symbol with its %destructor.
discardSymbol ==
    /\ status = "discarding" /\ stack # <<>>
    /\ stack' = Under(1)
    /\ freed' = IF AfterExpression
                THEN [i \in DOMAIN freed |->
                        IF i \in destroyExpression(nodes, NodeAt(0)) THEN freed[i] + 1 ELSE freed[i]]
                ELSE freed
    /\ UNCHANGED <<vocabulary, tokens, lookahead, nodes, status>>

abort ==
    /\ status = "discarding" /\ stack = <<>>
    /\ status' = "rejected"
    /\ UNCHANGED <<vocabulary, tokens, lookahead, stack, nodes, freed>>

Parsed == status \in {"asserted", "rejected"} /\ UNCHANGED vars

Next ==
    \/ pushToken \/ shift
    \/ LiteralExpressionSemanticAction \/ IdentifierExpressionSemanticAction
    \/ ArithmeticExpressionSemanticAction \/ RelationalExpressionSemanticAction
    \/ LogicalExpressionSemanticAction \/ LogicalNotExpressionSemanticAction
    \/ ConditionalExpressionSemanticAction \/ ParenthesizedExpressionSemanticAction
    \/ AssertionSemanticAction
    \/ syntaxError \/ discardSymbol \/ abort
    \/ Parsed

Spec == Init /\ [][Next]_vars
-----------------------------------------------------------------------------
\* Every live node has exactly one owner, a stack symbol or another node, and a
\* rejected expression has each node freed exactly once: no operand is lost or
\* shared between the semantic actions, so that the destructors of
\* BisonGrammar.y:71 neither leak nor free twice.
Owners(i) ==
    {o \in (DOMAIN nodes) \X (1 .. 3) :
        o[2] \in DOMAIN nodes[o[1]].args /\ nodes[o[1]].args[o[2]] = i}
    \cup {<<0, k>> : k \in {m \in DOMAIN stack :
        stack[m].sym = "expression" /\ stack[m].node = i}}
NodesOwnedOnce ==
    /\ status \in {"parsing", "asserted"} =>
          \A i \in DOMAIN nodes : Cardinality(Owners(i)) = 1 /\ freed[i] = 0
    /\ status = "rejected" => \A i \in DOMAIN nodes : freed[i] = 1

\* Written from left to right, the stack is what was shifted: the tree built is
\* of the input, each operand on its side of its operator.
Written(t) == IF t.value # NULL THEN t.value ELSE t.sym
Yield(node, yield) ==
    CASE node.type \in {"LITERAL_EXPR", "IDENTIFIER_EXPR"} -> <<node.leaf>>
      [] node.type \in {"ARITHMETIC_EXPR", "RELATIONAL_EXPR", "LOGICAL_EXPR"} ->
            yield[node.args[1]] \o <<node.op>> \o yield[node.args[2]]
      [] node.type = "LOGICAL_NOT_EXPR" -> <<node.op>> \o yield[node.args[1]]
      [] node.type = "CONDITIONAL_EXPR" ->
            <<"IF">> \o yield[node.args[1]] \o <<"THEN">> \o yield[node.args[2]]
            \o <<"OTHERWISE">> \o yield[node.args[3]]
      [] node.type = "PARENTHESIZED_EXPR" ->
            <<"OPEN_PAREN">> \o yield[node.args[1]] \o <<"CLOSE_PAREN">>
Yields(expr) ==
    LET yield[i \in DOMAIN expr] == Yield(expr[i], yield) IN yield
Text(symbols, expr) ==
    LET yield == Yields(expr)
    IN  FlattenSeq([k \in DOMAIN symbols |->
            IF symbols[k].sym = "expression" THEN yield[symbols[k].node]
            ELSE <<Written(symbols[k])>>])
YieldIsInput ==
    status \in {"parsing", "asserted"} =>
        Text(stack, nodes) = [i \in DOMAIN tokens |-> Written(tokens[i])]

\* Every expression of the tree is the one the declared levels ask for
\* (BisonGrammar.y:127): an operand without brackets binds tighter than its
\* operator: nothing that is open to the right ends the left operand, nothing
\* looser or (for the operators of one level) equal begins the right one, and
\* comparisons do not chain.  A conditional is open to the right as far as it goes.
Levels == <<{"OP_OR"}, {"OP_AND"}, RelationalOps, {"OP_ADD", "OP_SUB"}, {"OP_MUL", "OP_DIV"}>>
Infix(node) == node.type \in {"ARITHMETIC_EXPR", "RELATIONAL_EXPR", "LOGICAL_EXPR"}
OpenToTheRight(node) == Infix(node) \/ node.type \in {"LOGICAL_NOT_EXPR", "CONDITIONAL_EXPR"}
Level(op) == CHOOSE k \in DOMAIN Levels : op \in Levels[k]

\* The operators that no bracket separates from the end, or the beginning, of
\* an expression.
RightEdges(expr) ==
    LET edge[i \in DOMAIN expr] ==
            IF OpenToTheRight(expr[i])
            THEN {i} \cup edge[expr[i].args[Len(expr[i].args)]] ELSE {i}
    IN  edge
LeftEdges(expr) ==
    LET edge[i \in DOMAIN expr] ==
            IF Infix(expr[i]) THEN {i} \cup edge[expr[i].args[1]] ELSE {i}
    IN  edge

BindsTighter(node, op) ==
    Level(node.op) > Level(op) \/ (Level(node.op) = Level(op) /\ op \notin RelationalOps)
PrecedenceRespected ==
    \A i \in DOMAIN nodes :
        /\ Infix(nodes[i]) =>
              /\ \A j \in RightEdges(nodes)[nodes[i].args[1]] :
                    /\ nodes[j].type # "CONDITIONAL_EXPR"
                    /\ Infix(nodes[j]) => BindsTighter(nodes[j], nodes[i].op)
              /\ \A j \in LeftEdges(nodes)[nodes[i].args[2]] :
                    Infix(nodes[j]) => Level(nodes[j].op) > Level(nodes[i].op)
        /\ nodes[i].type = "LOGICAL_NOT_EXPR" => ~Infix(nodes[nodes[i].args[1]])

-----------------------------------------------------------------------------
(* inferExpressionType on the trees the parser builds                      *)

KindOf(i) == inferExpressionType(SubSeq(nodes, 1, i), Scope).kind

\* A condition that has no type was explained: at least one error was logged
\* on the way to TYPE_ERROR (TypeInference.c:54).
RejectionsExplained ==
    status = "asserted" =>
        LET root == inferExpressionType(nodes, Scope)
        IN  root.kind = TYPE_ERROR => root.errors # {}

\* Mirror images have the same type: that of no operator depends on the order of
\* its operands, nested conditionals and comparisons included.
Mirror(expr) ==
    [i \in DOMAIN expr |->
        IF expr[i].type \in {"ARITHMETIC_EXPR", "RELATIONAL_EXPR", "LOGICAL_EXPR"}
        THEN [expr[i] EXCEPT !.args = <<expr[i].args[2], expr[i].args[1]>>] ELSE expr[i]]
OperandOrderIrrelevant ==
    status = "asserted" =>
        inferExpressionType(Mirror(nodes), Scope).kind = inferExpressionType(nodes, Scope).kind

\* An error below a condition that is still boolean was swallowed by a
\* comparison of two operands that both have no type: no other operator hides
\* one.
ErrorsMaskedOnlyByComparison ==
    status = "asserted" =>
        LET root == inferExpressionType(nodes, Scope)
        IN  root.kind # TYPE_ERROR /\ root.errors # {} =>
                \E i \in DOMAIN nodes :
                    /\ nodes[i].type = "RELATIONAL_EXPR"
                    /\ \A k \in {1, 2} : KindOf(nodes[i].args[k]) = TYPE_ERROR
=============================================================================
