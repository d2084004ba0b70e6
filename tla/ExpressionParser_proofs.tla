------------------------ MODULE ExpressionParser_proofs ------------------------
(***************************************************************************)
(* What the parser guarantees for assertions of any length and shape: no   *)
(* node is lost or shared, every tree is the one the declared precedences  *)
(* ask for and is the whole input; and what the inference says of the tree *)
(* the assertion takes over.                                               *)
(***************************************************************************)
EXTENDS ExpressionParser, ListLemmas, FiniteSetTheorems

ParsedNode == [type : ExpressionType, op : BinaryOps \cup {"OP_NOT", NULL},
               leaf : Names \cup LiteralType \cup {NULL}, args : Seq(Nat)]

\* The operands of a node are before it, as many as its type takes, and the
\* operator, or the literal, is one of its type.
OpFits(node) ==
    /\ node.type = "ARITHMETIC_EXPR" => node.op \in ArithmeticOps
    /\ node.type = "RELATIONAL_EXPR" => node.op \in RelationalOps
    /\ node.type = "LOGICAL_EXPR" => node.op \in LogicalOps
    /\ node.type = "LITERAL_EXPR" => node.leaf \in LiteralType
Trees ==
    {expr \in Seq(ParsedNode) :
        \A i \in DOMAIN expr :
            /\ Len(expr[i].args) = Arity[expr[i].type]
            /\ \A k \in DOMAIN expr[i].args : expr[i].args[k] \in 1 .. i - 1
            /\ OpFits(expr[i])}

-----------------------------------------------------------------------------
(* Recursion over a tree                                                   *)

LEMMA ArityIs ==
    /\ Arity["LITERAL_EXPR"] = 0 /\ Arity["IDENTIFIER_EXPR"] = 0 /\ Arity["ARITHMETIC_EXPR"] = 2
    /\ Arity["RELATIONAL_EXPR"] = 2 /\ Arity["LOGICAL_EXPR"] = 2 /\ Arity["LOGICAL_NOT_EXPR"] = 1
    /\ Arity["CONDITIONAL_EXPR"] = 3 /\ Arity["PARENTHESIZED_EXPR"] = 1
BY DEF Arity

\* What the definition says of node i.
LEMMA OperandsAre ==
    ASSUME NEW expr \in Trees, NEW i \in DOMAIN expr
    PROVE  /\ i \in Nat /\ i \in 1 .. Len(expr) /\ expr[i] \in ParsedNode
           /\ expr[i].type \in ExpressionType
           /\ DOMAIN expr[i].args = 1 .. Len(expr[i].args)
           /\ Len(expr[i].args) = Arity[expr[i].type]
           /\ \A k \in DOMAIN expr[i].args : expr[i].args[k] \in 1 .. i - 1
           /\ OpFits(expr[i])
<1>1. expr \in Seq(ParsedNode) /\ DOMAIN expr = 1 .. Len(expr) /\ Len(expr) \in Nat
  BY DEF Trees
<1>2. expr[i] \in ParsedNode
  BY <1>1
<1>3. expr[i].type \in ExpressionType /\ expr[i].args \in Seq(Nat)
  BY <1>2 DEF ParsedNode
<1>4. DOMAIN expr[i].args = 1 .. Len(expr[i].args)
  BY <1>3
<1>5. /\ Len(expr[i].args) = Arity[expr[i].type]
      /\ \A k \in DOMAIN expr[i].args : expr[i].args[k] \in 1 .. i - 1
      /\ OpFits(expr[i])
  BY DEF Trees
<1> QED BY <1>1, <1>2, <1>3, <1>4, <1>5

LEMMA TreeIs ==
    ASSUME NEW expr \in Trees
    PROVE  expr \in Seq(ParsedNode) /\ DOMAIN expr = 1 .. Len(expr) /\ Len(expr) \in Nat
BY DEF Trees

\* A step that looks only at the operands of a node.
LooksDown(expr, V, st) ==
    /\ expr \in Trees /\ V # {} /\ st \in [1 .. Len(expr) -> [[1 .. Len(expr) -> V] -> V]]
    /\ \A i \in DOMAIN expr : \A f, g \in [1 .. Len(expr) -> V] :
           (\A k \in DOMAIN expr[i].args : f[expr[i].args[k]] = g[expr[i].args[k]])
           => st[i][f] = st[i][g]

LEMMA TreeRecursion ==
    ASSUME NEW expr, NEW V, NEW st, LooksDown(expr, V, st)
    PROVE  \E f \in [1 .. Len(expr) -> V] : \A i \in DOMAIN expr : f[i] = st[i][f]
<1>0. /\ Len(expr) \in Nat /\ DOMAIN expr = 1 .. Len(expr) /\ expr \in Trees
      /\ V # {} /\ st \in [1 .. Len(expr) -> [[1 .. Len(expr) -> V] -> V]]
  BY TreeIs DEF LooksDown
<1>1. ASSUME NEW i \in 1 .. Len(expr), NEW f \in [1 .. Len(expr) -> V],
             NEW g \in [1 .. Len(expr) -> V], \A j \in 1 .. i - 1 : f[j] = g[j]
      PROVE  st[i][f] = st[i][g]
  <2>1. \A k \in DOMAIN expr[i].args : expr[i].args[k] \in 1 .. i - 1
    BY <1>0, OperandsAre
  <2>2. \A k \in DOMAIN expr[i].args : f[expr[i].args[k]] = g[expr[i].args[k]]
    BY <1>1, <2>1
  <2>3. i \in DOMAIN expr
    BY <1>0
  <2> QED BY <2>2, <2>3, Zenon DEF LooksDown
<1>2. LooksBack(Len(expr), V, st)
  BY <1>0, <1>1, Zenon DEF LooksBack
<1>3. \E f \in [1 .. Len(expr) -> V] : \A i \in 1 .. Len(expr) : f[i] = st[i][f]
  BY <1>2, Recursion
<1> QED BY <1>0, <1>3

\* The sets of nodes that a node reaches through some of its operands: `use[i]`
\* are the operands that count.
SelectsOperands(expr, use) == \A i \in DOMAIN expr : use[i] \subseteq DOMAIN expr[i].args
Reach(expr, use, f, i) == {i} \cup UNION {f[expr[i].args[k]] : k \in use[i]}
Reaches(expr, use, f) == \A i \in DOMAIN expr : f[i] = Reach(expr, use, f, i)

LEMMA ReachDefined ==
    ASSUME NEW expr \in Trees, NEW use, SelectsOperands(expr, use)
    PROVE  \E f \in [1 .. Len(expr) -> SUBSET (1 .. Len(expr))] :
               \A i \in DOMAIN expr : f[i] = Reach(expr, use, f, i)
<1> DEFINE V == SUBSET (1 .. Len(expr))
           F == [1 .. Len(expr) -> V]
           st == [i \in 1 .. Len(expr) |-> [f \in F |-> Reach(expr, use, f, i)]]
<1>0. Len(expr) \in Nat /\ DOMAIN expr = 1 .. Len(expr)
  BY TreeIs
<1>1. ASSUME NEW i \in 1 .. Len(expr), NEW f \in F PROVE Reach(expr, use, f, i) \in V
  <2>1. \A k \in use[i] : expr[i].args[k] \in 1 .. Len(expr)
    BY <1>0, OperandsAre DEF SelectsOperands
  <2>2. \A k \in use[i] : f[expr[i].args[k]] \subseteq 1 .. Len(expr)
    BY <2>1
  <2> QED BY <2>2 DEF Reach
<1>2. st \in [1 .. Len(expr) -> [F -> V]]
  <2> HIDE DEF F, V
  <2> QED BY <1>1
<1>3. ASSUME NEW i \in DOMAIN expr, NEW f \in F, NEW g \in F,
             \A k \in DOMAIN expr[i].args : f[expr[i].args[k]] = g[expr[i].args[k]]
      PROVE  st[i][f] = st[i][g]
  <2>1. \A k \in use[i] : f[expr[i].args[k]] = g[expr[i].args[k]]
    BY <1>3 DEF SelectsOperands
  <2>2. Reach(expr, use, f, i) = Reach(expr, use, g, i)
    <3> HIDE DEF F
    <3> QED BY <2>1 DEF Reach
  <2> HIDE DEF F
  <2> QED BY <1>0, <2>2
<1>4. V # {}
  OBVIOUS
<1>5. LooksDown(expr, V, st)
  <2> HIDE DEF V, st
  <2> QED BY <1>2, <1>3, <1>4, Zenon DEF LooksDown
<1>6. PICK f \in F : \A i \in DOMAIN expr : f[i] = st[i][f]
  <2> HIDE DEF V, st
  <2> QED BY <1>5, TreeRecursion
<1>7. \A i \in DOMAIN expr : f[i] = Reach(expr, use, f, i)
  <2> HIDE DEF F
  <2> QED BY <1>0, <1>6
<1> QED BY <1>6, <1>7


\* What the three recursions of the properties make of a tree.
RightUse(expr) ==
    [i \in DOMAIN expr |-> IF OpenToTheRight(expr[i]) THEN {Len(expr[i].args)} ELSE {}]
LeftUse(expr) == [i \in DOMAIN expr |-> IF Infix(expr[i]) THEN {1} ELSE {}]
AllUse(expr) == [i \in DOMAIN expr |-> DOMAIN expr[i].args]

LEMMA UsesAre ==
    ASSUME NEW expr \in Trees
    PROVE  /\ SelectsOperands(expr, RightUse(expr))
           /\ SelectsOperands(expr, LeftUse(expr))
           /\ SelectsOperands(expr, AllUse(expr))
<1>1. ASSUME NEW i \in DOMAIN expr
      PROVE  /\ RightUse(expr)[i] \subseteq DOMAIN expr[i].args
             /\ LeftUse(expr)[i] \subseteq DOMAIN expr[i].args
             /\ AllUse(expr)[i] \subseteq DOMAIN expr[i].args
  <2>1. /\ expr[i].type \in ExpressionType /\ Len(expr[i].args) = Arity[expr[i].type]
        /\ DOMAIN expr[i].args = 1 .. Len(expr[i].args)
    BY OperandsAre
  <2>2. OpenToTheRight(expr[i]) => Len(expr[i].args) \in {1, 2, 3}
    BY <2>1, ArityIs DEF OpenToTheRight, Infix
  <2>3. Infix(expr[i]) => Len(expr[i].args) = 2
    BY <2>1, ArityIs DEF Infix
  <2> QED BY <2>1, <2>2, <2>3 DEF RightUse, LeftUse, AllUse
<1> QED BY <1>1 DEF SelectsOperands

LEMMA ReachUnique ==
    ASSUME NEW expr \in Trees, NEW use, SelectsOperands(expr, use),
           NEW f, Reaches(expr, use, f), NEW g, Reaches(expr, use, g)
    PROVE  \A i \in DOMAIN expr : f[i] = g[i]
<1> DEFINE n == Len(expr)
           G == {i \in 1 .. n : f[i] = g[i]}
<1>0. n \in Nat /\ DOMAIN expr = 1 .. n
  BY TreeIs
<1>1. ASSUME NEW i \in 1 .. n, \A j \in 1 .. i - 1 : j \in G PROVE i \in G
  <2>1. \A k \in use[i] : expr[i].args[k] \in 1 .. i - 1
    BY <1>0, OperandsAre DEF SelectsOperands
  <2>2. \A k \in use[i] : f[expr[i].args[k]] = g[expr[i].args[k]]
    BY <1>1, <2>1
  <2>3. Reach(expr, use, f, i) = Reach(expr, use, g, i)
    <3> HIDE DEF n
    <3> QED BY <2>2 DEF Reach
  <2> QED BY <1>0, <2>3 DEF Reaches
<1>2. \A i \in 1 .. n : i \in G
  <2> HIDE DEF G
  <2> QED BY <1>0, <1>1, StrongInduction
<1> QED BY <1>0, <1>2

\* A recursive definition that takes these steps is such a function.
LEMMA ReachChosen ==
    ASSUME NEW expr \in Trees, NEW use, SelectsOperands(expr, use),
           NEW R, R = CHOOSE f : f = [i \in DOMAIN expr |-> Reach(expr, use, f, i)]
    PROVE  /\ \A i \in DOMAIN expr : R[i] = Reach(expr, use, R, i)
           /\ \A i \in DOMAIN expr : R[i] \subseteq DOMAIN expr
<1> DEFINE n == Len(expr)
           Is(f) == f = [i \in DOMAIN expr |-> Reach(expr, use, f, i)]
<1>0. n \in Nat /\ DOMAIN expr = 1 .. n
  BY TreeIs
<1>1. PICK f \in [1 .. n -> SUBSET (1 .. n)] : \A i \in DOMAIN expr : f[i] = Reach(expr, use, f, i)
  BY ReachDefined
<1>2. Is(f)
  <2>1. f = [i \in DOMAIN expr |-> f[i]]
    BY <1>0
  <2> QED BY <1>1, <2>1
<1>3. Is(R)
  <2> HIDE DEF Is
  <2>1. R = CHOOSE g : Is(g)
    BY DEF Is
  <2> QED BY <1>2, <2>1
<1>4. \A i \in DOMAIN expr : R[i] = Reach(expr, use, R, i)
  <2>1. \A i \in DOMAIN expr : [j \in DOMAIN expr |-> Reach(expr, use, R, j)][i] = Reach(expr, use, R, i)
    OBVIOUS
  <2> QED BY <1>3, <2>1, Zenon
<1>5. \A i \in DOMAIN expr : R[i] = f[i]
  <2>1. Reaches(expr, use, R) /\ Reaches(expr, use, f)
    BY <1>1, <1>4 DEF Reaches
  <2> QED BY <2>1, ReachUnique
<1> QED BY <1>0, <1>1, <1>4, <1>5

LEMMA RightEdgesAre ==
    ASSUME NEW expr \in Trees
    PROVE  /\ \A i \in DOMAIN expr :
                 RightEdges(expr)[i] = Reach(expr, RightUse(expr), RightEdges(expr), i)
           /\ \A i \in DOMAIN expr : RightEdges(expr)[i] \subseteq DOMAIN expr
<1> DEFINE Step(f, i) == IF OpenToTheRight(expr[i])
                         THEN {i} \cup f[expr[i].args[Len(expr[i].args)]] ELSE {i}
<1>1. \A f : \A i \in DOMAIN expr : Step(f, i) = Reach(expr, RightUse(expr), f, i)
  BY DEF Reach, RightUse
<1>2. RightEdges(expr) = CHOOSE f : f = [i \in DOMAIN expr |-> Step(f, i)]
  BY DEF RightEdges
<1> HIDE DEF Step
<1>3. \A f : [i \in DOMAIN expr |-> Step(f, i)] = [i \in DOMAIN expr |-> Reach(expr, RightUse(expr), f, i)]
  BY <1>1
<1>4. RightEdges(expr) = CHOOSE f : f = [i \in DOMAIN expr |-> Reach(expr, RightUse(expr), f, i)]
  BY <1>2, <1>3, Zenon
<1> QED BY <1>4, ReachChosen, UsesAre

LEMMA LeftEdgesAre ==
    ASSUME NEW expr \in Trees
    PROVE  /\ \A i \in DOMAIN expr :
                 LeftEdges(expr)[i] = Reach(expr, LeftUse(expr), LeftEdges(expr), i)
           /\ \A i \in DOMAIN expr : LeftEdges(expr)[i] \subseteq DOMAIN expr
<1> DEFINE Step(f, i) == IF Infix(expr[i]) THEN {i} \cup f[expr[i].args[1]] ELSE {i}
<1>1. \A f : \A i \in DOMAIN expr : Step(f, i) = Reach(expr, LeftUse(expr), f, i)
  BY DEF Reach, LeftUse
<1>2. LeftEdges(expr) = CHOOSE f : f = [i \in DOMAIN expr |-> Step(f, i)]
  BY DEF LeftEdges
<1> HIDE DEF Step
<1>3. \A f : [i \in DOMAIN expr |-> Step(f, i)] = [i \in DOMAIN expr |-> Reach(expr, LeftUse(expr), f, i)]
  BY <1>1
<1>4. LeftEdges(expr) = CHOOSE f : f = [i \in DOMAIN expr |-> Reach(expr, LeftUse(expr), f, i)]
  BY <1>2, <1>3, Zenon
<1> QED BY <1>4, ReachChosen, UsesAre

\* What destroyExpression frees is the node and what it frees of the operands.
Destroyed(expr) == [i \in DOMAIN expr |-> destroyExpression(expr, i)]

LEMMA DestroyedAre ==
    ASSUME NEW expr \in Trees
    PROVE  /\ \A i \in DOMAIN expr :
                 Destroyed(expr)[i] = Reach(expr, AllUse(expr), Destroyed(expr), i)
           /\ \A i \in DOMAIN expr : Destroyed(expr)[i] \subseteq DOMAIN expr
<1> DEFINE Step(f, i) == {i} \cup UNION {f[expr[i].args[j]] : j \in DOMAIN expr[i].args}
           R == CHOOSE f : f = [i \in DOMAIN expr |-> Step(f, i)]
<1>1. \A f : \A i \in DOMAIN expr : Step(f, i) = Reach(expr, AllUse(expr), f, i)
  BY DEF Reach, AllUse
<1>2. \A i \in DOMAIN expr : Destroyed(expr)[i] = R[i]
  BY DEF destroyExpression, Destroyed
<1> HIDE DEF Step
<1>3. \A f : [i \in DOMAIN expr |-> Step(f, i)] = [i \in DOMAIN expr |-> Reach(expr, AllUse(expr), f, i)]
  BY <1>1
<1>4. R = CHOOSE f : f = [i \in DOMAIN expr |-> Reach(expr, AllUse(expr), f, i)]
  BY <1>3, Zenon
<1> HIDE DEF R
<1>5. /\ \A i \in DOMAIN expr : R[i] = Reach(expr, AllUse(expr), R, i)
      /\ \A i \in DOMAIN expr : R[i] \subseteq DOMAIN expr
  BY <1>4, ReachChosen, UsesAre
<1>6. ASSUME NEW i \in DOMAIN expr
      PROVE  Reach(expr, AllUse(expr), Destroyed(expr), i) = Reach(expr, AllUse(expr), R, i)
  <2>1. \A k \in AllUse(expr)[i] : expr[i].args[k] \in DOMAIN expr
    BY OperandsAre, UsesAre, TreeIs DEF SelectsOperands
  <2>2. \A k \in AllUse(expr)[i] : Destroyed(expr)[expr[i].args[k]] = R[expr[i].args[k]]
    BY <1>2, <2>1
  <2> QED BY <2>2 DEF Reach
<1> QED BY <1>2, <1>5, <1>6, Zenon


\* A node more leaves what is below it as it was.
CanTake(expr, node) ==
    /\ node \in ParsedNode /\ Len(node.args) = Arity[node.type] /\ OpFits(node)
    /\ \A k \in DOMAIN node.args : node.args[k] \in DOMAIN expr
Extends(big, expr) == \A i \in DOMAIN expr : i \in DOMAIN big /\ big[i] = expr[i]

LEMMA TreeGrows ==
    ASSUME NEW expr \in Trees, NEW node, CanTake(expr, node), NEW big, big = Append(expr, node)
    PROVE  /\ big \in Trees /\ Len(big) = Len(expr) + 1 /\ DOMAIN big = 1 .. Len(expr) + 1
           /\ big[Len(expr) + 1] = node /\ Extends(big, expr)
<1>0. /\ node \in ParsedNode /\ Len(node.args) = Arity[node.type] /\ OpFits(node)
      /\ \A k \in DOMAIN node.args : node.args[k] \in DOMAIN expr
  BY DEF CanTake
<1>1. expr \in Seq(ParsedNode) /\ DOMAIN expr = 1 .. Len(expr) /\ Len(expr) \in Nat
  BY TreeIs
<1>2. /\ big \in Seq(ParsedNode) /\ Len(big) = Len(expr) + 1 /\ DOMAIN big = 1 .. Len(expr) + 1
      /\ big[Len(expr) + 1] = node
      /\ \A i \in DOMAIN expr : i \in DOMAIN big /\ big[i] = expr[i]
  BY <1>0, <1>1
<1>3. ASSUME NEW i \in DOMAIN big
      PROVE  /\ Len(big[i].args) = Arity[big[i].type]
             /\ \A k \in DOMAIN big[i].args : big[i].args[k] \in 1 .. i - 1
             /\ OpFits(big[i])
  <2>1. CASE i \in DOMAIN expr
    BY <1>2, <2>1, OperandsAre
  <2>2. CASE i = Len(expr) + 1
    BY <1>0, <1>1, <1>2, <2>2
  <2> QED BY <1>1, <1>2, <2>1, <2>2
<1>4. big \in Trees
  BY <1>2, <1>3 DEF Trees
<1> QED BY <1>2, <1>4 DEF Extends

\* What a node reaches through `use` when another one is added.
LEMMA ReachGrows ==
    ASSUME NEW expr \in Trees, NEW use, SelectsOperands(expr, use),
           NEW f, Reaches(expr, use, f),
           NEW big, Extends(big, expr), NEW more, \A i \in DOMAIN expr : more[i] = use[i],
           NEW g, Reaches(big, more, g)
    PROVE  \A i \in DOMAIN expr : g[i] = f[i]
<1>1. ASSUME NEW i \in DOMAIN expr PROVE g[i] = Reach(expr, use, g, i)
  <2>1. g[i] = Reach(big, more, g, i)
    BY DEF Reaches, Extends
  <2> QED BY <2>1 DEF Reach, Extends
<1>2. Reaches(expr, use, g)
  BY <1>1 DEF Reaches
<1> QED BY <1>2, ReachUnique

\* What a node more makes of the recursions: `big` is expr and the node.
EdgesKept(expr, big) ==
    \A i \in DOMAIN expr :
        /\ RightEdges(big)[i] = RightEdges(expr)[i]
        /\ LeftEdges(big)[i] = LeftEdges(expr)[i]
        /\ destroyExpression(big, i) = destroyExpression(expr, i)
EdgesOfNew(expr, node, big, new) ==
    /\ RightEdges(big)[new] =
          {new} \cup IF OpenToTheRight(node)
                     THEN RightEdges(expr)[node.args[Len(node.args)]] ELSE {}
    /\ LeftEdges(big)[new] =
          {new} \cup IF Infix(node) THEN LeftEdges(expr)[node.args[1]] ELSE {}
    /\ destroyExpression(big, new) =
          {new} \cup UNION {destroyExpression(expr, node.args[k]) : k \in DOMAIN node.args}

LEMMA EdgesGrow ==
    ASSUME NEW expr \in Trees, NEW node, CanTake(expr, node), NEW big, big = Append(expr, node),
           NEW new, new = Len(expr) + 1
    PROVE  EdgesKept(expr, big) /\ EdgesOfNew(expr, node, big, new)
<1>1. /\ big \in Trees /\ DOMAIN big = 1 .. Len(expr) + 1 /\ big[new] = node
      /\ Extends(big, expr) /\ new \in DOMAIN big
      /\ \A k \in DOMAIN node.args : node.args[k] \in DOMAIN expr
  <2>1. /\ big \in Trees /\ DOMAIN big = 1 .. Len(expr) + 1 /\ big[Len(expr) + 1] = node
        /\ Extends(big, expr)
    BY TreeGrows
  <2>2. Len(expr) \in Nat
    BY TreeIs
  <2>3. \A k \in DOMAIN node.args : node.args[k] \in DOMAIN expr
    BY DEF CanTake
  <2> QED BY <2>1, <2>2, <2>3
<1>2. /\ Reaches(expr, RightUse(expr), RightEdges(expr))
      /\ Reaches(big, RightUse(big), RightEdges(big))
      /\ Reaches(expr, LeftUse(expr), LeftEdges(expr))
      /\ Reaches(big, LeftUse(big), LeftEdges(big))
      /\ Reaches(expr, AllUse(expr), Destroyed(expr))
      /\ Reaches(big, AllUse(big), Destroyed(big))
  BY <1>1, RightEdgesAre, LeftEdgesAre, DestroyedAre DEF Reaches
<1>3. \A i \in DOMAIN expr : /\ RightUse(big)[i] = RightUse(expr)[i]
                             /\ LeftUse(big)[i] = LeftUse(expr)[i]
                             /\ AllUse(big)[i] = AllUse(expr)[i]
  BY <1>1 DEF RightUse, LeftUse, AllUse, Extends
<1>4. \A i \in DOMAIN expr : RightEdges(big)[i] = RightEdges(expr)[i]
  <2>1. SelectsOperands(expr, RightUse(expr))
    BY UsesAre
  <2>2. \A i \in DOMAIN expr : RightUse(big)[i] = RightUse(expr)[i]
    BY <1>3
  <2>3. Extends(big, expr) /\ Reaches(expr, RightUse(expr), RightEdges(expr))
        /\ Reaches(big, RightUse(big), RightEdges(big))
    BY <1>1, <1>2
  <2> QED BY <2>1, <2>2, <2>3, ReachGrows
<1>5. \A i \in DOMAIN expr : LeftEdges(big)[i] = LeftEdges(expr)[i]
  <2>1. SelectsOperands(expr, LeftUse(expr))
    BY UsesAre
  <2>2. \A i \in DOMAIN expr : LeftUse(big)[i] = LeftUse(expr)[i]
    BY <1>3
  <2>3. Extends(big, expr) /\ Reaches(expr, LeftUse(expr), LeftEdges(expr)) /\ Reaches(big, LeftUse(big), LeftEdges(big))
    BY <1>1, <1>2
  <2> QED BY <2>1, <2>2, <2>3, ReachGrows
<1>6. \A i \in DOMAIN expr : Destroyed(big)[i] = Destroyed(expr)[i]
  <2>1. SelectsOperands(expr, AllUse(expr))
    BY UsesAre
  <2>2. \A i \in DOMAIN expr : AllUse(big)[i] = AllUse(expr)[i]
    BY <1>3
  <2>3. Extends(big, expr) /\ Reaches(expr, AllUse(expr), Destroyed(expr)) /\ Reaches(big, AllUse(big), Destroyed(big))
    BY <1>1, <1>2
  <2> QED BY <2>1, <2>2, <2>3, ReachGrows
<1>7. /\ RightUse(big)[new] \subseteq DOMAIN node.args
      /\ LeftUse(big)[new] \subseteq DOMAIN node.args
      /\ AllUse(big)[new] = DOMAIN node.args
  BY <1>1, UsesAre DEF AllUse, SelectsOperands
<1>8. RightEdges(big)[new] =
         {new} \cup IF OpenToTheRight(node)
                    THEN RightEdges(expr)[node.args[Len(node.args)]] ELSE {}
  <2>1. RightEdges(big)[new] = Reach(big, RightUse(big), RightEdges(big), new)
    BY <1>1, <1>2 DEF Reaches
  <2>2. RightUse(big)[new] = IF OpenToTheRight(node) THEN {Len(node.args)} ELSE {}
    BY <1>1 DEF RightUse
  <2> QED BY <1>1, <1>4, <1>7, <2>1, <2>2 DEF Reach
<1>9. LeftEdges(big)[new] =
         {new} \cup IF Infix(node) THEN LeftEdges(expr)[node.args[1]] ELSE {}
  <2>1. LeftEdges(big)[new] = Reach(big, LeftUse(big), LeftEdges(big), new)
    BY <1>1, <1>2 DEF Reaches
  <2>2. LeftUse(big)[new] = IF Infix(node) THEN {1} ELSE {}
    BY <1>1 DEF LeftUse
  <2> QED BY <1>1, <1>5, <1>7, <2>1, <2>2 DEF Reach
<1>10. destroyExpression(big, new) =
          {new} \cup UNION {destroyExpression(expr, node.args[k]) : k \in DOMAIN node.args}
  <2>1. Destroyed(big)[new] = Reach(big, AllUse(big), Destroyed(big), new)
    BY <1>1, <1>2 DEF Reaches
  <2>2. \A k \in DOMAIN node.args : Destroyed(big)[node.args[k]] = destroyExpression(expr, node.args[k])
    <3> TAKE k \in DOMAIN node.args
    <3>1. node.args[k] \in DOMAIN expr
      BY <1>1
    <3>2. Destroyed(expr)[node.args[k]] = destroyExpression(expr, node.args[k])
      BY <3>1 DEF Destroyed
    <3> QED BY <1>6, <3>1, <3>2
  <2>3. Destroyed(big)[new] = destroyExpression(big, new)
    BY <1>1 DEF Destroyed
  <2> QED BY <1>1, <1>7, <2>1, <2>2, <2>3 DEF Reach
<1>11. \A i \in DOMAIN expr : destroyExpression(big, i) = destroyExpression(expr, i)
  BY <1>1, <1>6 DEF Destroyed, Extends
<1> QED BY <1>4, <1>5, <1>8, <1>9, <1>10, <1>11 DEF EdgesKept, EdgesOfNew

-----------------------------------------------------------------------------
(* The stack                                                               *)

\* The tokens after which an expression is expected, and those that follow one.
Waiting == BinaryOps \cup {"OP_NOT", "IF", "THEN", "OTHERWISE", "OPEN_PAREN"}
Following == BinaryOps \cup {"CLOSE_PAREN", "THEN", "OTHERWISE"}
Symbol == [sym : Openers \cup Following \cup {"expression"},
           value : Names \cup LiteralType \cup {NULL}, node : Nat]
Statuses == {"parsing", "asserted", "discarding", "rejected"}

ParserTypes ==
    /\ vocabulary \in Vocabularies
    /\ lookahead # NULL => lookahead \in Token \cup {End}
    /\ stack \in Seq(Symbol) /\ nodes \in Trees
    /\ freed \in Seq(Nat) /\ Len(freed) = Len(nodes)
    /\ status \in Statuses

\* What a symbol says of itself and of the two below it.
Placed(k) ==
    /\ stack[k].sym = "IDENTIFIER" => stack[k].value \in Names
    /\ stack[k].sym = "literal" => stack[k].value \in LiteralType
    /\ stack[k].sym \notin Operands => stack[k].value = NULL
    /\ stack[k].sym = "expression" => stack[k].node \in DOMAIN nodes
    /\ stack[k].sym \in Following => k > 1 /\ stack[k - 1].sym = "expression"
    /\ stack[k].sym = "CLOSE_PAREN" => k > 2 /\ stack[k - 2].sym = "OPEN_PAREN"
    /\ stack[k].sym = "THEN" => k > 2 /\ stack[k - 2].sym = "IF"
    /\ stack[k].sym = "OTHERWISE" => k > 2 /\ stack[k - 2].sym = "THEN"
    /\ stack[k].sym \notin Following /\ k > 1 => stack[k - 1].sym \in Waiting
    /\ k < Len(stack) => stack[k].sym \notin Operands \cup {"CLOSE_PAREN"}
    /\ k < Len(stack) /\ k > 1 /\ stack[k].sym = "expression" => stack[k - 1].sym # "OP_NOT"
Shape == \A k \in DOMAIN stack : Placed(k)

\* The operators at the right, or the left, edge of node m are as those of an
\* operand of op must be.
RightIs(expr, m, op) ==
    \A j \in RightEdges(expr)[m] :
        /\ expr[j].type # "CONDITIONAL_EXPR"
        /\ Infix(expr[j]) => BindsTighter(expr[j], op)
LeftIs(expr, m, op) ==
    \A j \in LeftEdges(expr)[m] : Infix(expr[j]) => Level(expr[j].op) > Level(op)

\* Of an operator on the stack: its left operand, what has been read of the right
\* one, and the operator before it, are as the levels ask for.
Ranked(k) ==
    /\ stack[k].sym \in BinaryOps => RightIs(nodes, stack[k - 1].node, stack[k].sym)
    /\ stack[k].sym = "expression" /\ k > 1 /\ stack[k - 1].sym \in BinaryOps =>
          LeftIs(nodes, stack[k].node, stack[k - 1].sym)
    /\ k > 2 /\ stack[k].sym \in BinaryOps /\ stack[k - 2].sym \in BinaryOps =>
          Level(stack[k].sym) > Level(stack[k - 2].sym)
    /\ stack[k].sym = "expression" /\ k > 1 /\ stack[k - 1].sym = "OP_NOT" =>
          ~Infix(nodes[stack[k].node])
\* What is open to the right of the last expression ends at the lookahead.
Closing ==
    status = "parsing" /\ AfterExpression =>
        \A j \in RightEdges(nodes)[NodeAt(0)] :
            /\ Infix(nodes[j]) => lookahead # NULL /\ Reduces(nodes[j].op, lookahead.sym)
            /\ nodes[j].type = "CONDITIONAL_EXPR" =>
                  lookahead # NULL /\ lookahead.sym \notin BinaryOps
PrecedenceInv ==
    ParserTypes /\ Shape /\ (\A k \in DOMAIN stack : Ranked(k)) /\ Closing /\ PrecedenceRespected

\* Who holds a node: of a tree that is built or torn down each node hangs below one
\* symbol of the stack, or has been freed.
Holders(i) ==
    {k \in DOMAIN stack : stack[k].sym = "expression"
                          /\ i \in destroyExpression(nodes, stack[k].node)}
Held ==
    \A i \in DOMAIN nodes :
        \/ freed[i] = 0 /\ \E k : Holders(i) = {k}
        \/ freed[i] = 1 /\ Holders(i) = {} /\ status \in {"discarding", "rejected"}
Owned == status \in {"parsing", "asserted"} => \A i \in DOMAIN nodes : \E o : Owners(i) = {o}
OwnershipInv ==
    ParserTypes /\ Shape /\ Owned /\ Held /\ (status = "rejected" => stack = <<>>)


LEMMA LevelIsPrecedence ==
    ASSUME NEW op \in BinaryOps
    PROVE  Level(op) \in 1 .. 5 /\ precedence(op) = Level(op) + 2
<1>1. /\ DOMAIN Levels = 1 .. 5 /\ Levels[1] = {"OP_OR"} /\ Levels[2] = {"OP_AND"}
      /\ Levels[3] = RelationalOps /\ Levels[4] = {"OP_ADD", "OP_SUB"}
      /\ Levels[5] = {"OP_MUL", "OP_DIV"}
  BY DEF Levels
<1>2. PICK k \in 1 .. 5 : op \in Levels[k]
  <2>1. op \in Levels[1] \/ op \in Levels[2] \/ op \in Levels[3] \/ op \in Levels[4] \/ op \in Levels[5]
    BY <1>1 DEF BinaryOps, LogicalOps, ArithmeticOps
  <2> QED BY <2>1
<1>3. \A l, m \in 1 .. 5 : op \in Levels[l] /\ op \in Levels[m] => l = m
  BY <1>1 DEF RelationalOps
<1>4. Level(op) = k
  BY <1>1, <1>2, <1>3 DEF Level
<1>5. precedence(op) = k + 2
  <2>1. k = 1 \/ k = 2 \/ k = 3 \/ k = 4 \/ k = 5
    OBVIOUS
  <2> QED BY <1>1, <1>2, <2>1 DEF precedence, RelationalOps
<1> QED BY <1>2, <1>4, <1>5

\* The operators of a level are of one kind.
LEMMA LevelIsOneKind ==
    ASSUME NEW op \in BinaryOps, NEW other \in BinaryOps, Level(op) = Level(other)
    PROVE  op \in RelationalOps <=> other \in RelationalOps
<1>1. precedence(op) = precedence(other)
  BY LevelIsPrecedence
<1> QED BY <1>1 DEF precedence, RelationalOps

\* A symbol that is there.
LEMMA PeekIs ==
    ASSUME stack \in Seq(Symbol), NEW k \in Nat, Peek(k) # "bottom"
    PROVE  /\ k < Len(stack) /\ Len(stack) \in Nat /\ Len(stack) - k \in DOMAIN stack
           /\ stack[Len(stack) - k].sym = Peek(k)
BY DEF Peek

LEMMA UnderIs ==
    ASSUME stack \in Seq(Symbol), NEW n \in Nat, n <= Len(stack)
    PROVE  /\ Under(n) \in Seq(Symbol) /\ Len(Under(n)) = Len(stack) - n
           /\ \A k \in 1 .. Len(stack) - n : Under(n)[k] = stack[k]
BY DEF Under

-----------------------------------------------------------------------------
(* Reductions                                                              *)

\* The right-hand side of the node's rule, symbol by symbol.
Expresses(k, node, j) == stack[k].sym = "expression" /\ stack[k].node = node.args[j]
Spelled(n, node) ==
    LET L == Len(stack)
    IN  /\ node.type \in {"LITERAL_EXPR", "IDENTIFIER_EXPR"} =>
              n = 1 /\ stack[L].sym \in Operands /\ stack[L].value = node.leaf
        /\ Infix(node) =>
              /\ n = 3 /\ stack[L - 1].sym = node.op /\ node.op \in BinaryOps
              /\ Expresses(L - 2, node, 1) /\ Expresses(L, node, 2)
        /\ node.type = "LOGICAL_NOT_EXPR" =>
              n = 2 /\ stack[L - 1].sym = "OP_NOT" /\ node.op = "OP_NOT" /\ Expresses(L, node, 1)
        /\ node.type = "CONDITIONAL_EXPR" =>
              /\ n = 6 /\ stack[L - 5].sym = "IF" /\ stack[L - 3].sym = "THEN"
              /\ stack[L - 1].sym = "OTHERWISE" /\ Expresses(L - 4, node, 1)
              /\ Expresses(L - 2, node, 2) /\ Expresses(L, node, 3)
        /\ node.type = "PARENTHESIZED_EXPR" =>
              /\ n = 3 /\ stack[L - 2].sym = "OPEN_PAREN" /\ stack[L].sym = "CLOSE_PAREN"
              /\ Expresses(L - 1, node, 1)

\* What every rule replaces: n symbols whose expressions, at the positions P, are
\* the operands of the node, the last of them on top of the stack unless a bracket
\* closes it; and when it may replace them.
Handle(n, node, P) ==
    /\ n \in 1 .. Len(stack) /\ CanTake(nodes, node) /\ Spelled(n, node)
    /\ \A j \in DOMAIN node.args :
          /\ P[j] \in Len(stack) - n + 1 .. Len(stack)
          /\ stack[P[j]].sym = "expression" /\ stack[P[j]].node = node.args[j]
    /\ \A k \in Len(stack) - n + 1 .. Len(stack) :
          stack[k].sym = "expression" => \E j \in DOMAIN node.args : P[j] = k
    /\ \A i, j \in DOMAIN node.args : P[i] = P[j] => i = j
    /\ stack[Len(stack) - n + 1].sym \notin Following
    /\ OpenToTheRight(node) => P[Len(node.args)] = Len(stack)
    /\ Infix(node) =>
          /\ n = 3 /\ P[1] = Len(stack) - 2 /\ stack[Len(stack) - 1].sym = node.op
          /\ node.op \in BinaryOps /\ lookahead # NULL /\ Reduces(node.op, lookahead.sym)
    /\ node.type = "LOGICAL_NOT_EXPR" => n = 2 /\ stack[Len(stack) - 1].sym = "OP_NOT"
    /\ node.type = "CONDITIONAL_EXPR" => lookahead # NULL /\ lookahead.sym \notin BinaryOps

ReducesTo(n, node) == Reduce(n, node.type, node.op, node.leaf, node.args)

\* The state after a reduction, symbol by symbol and node by node.
Reduced(n, node) ==
    /\ status = "parsing"
    /\ UNCHANGED <<vocabulary, tokens, lookahead, status>>
    /\ nodes' = Append(nodes, node)
    /\ freed' \in Seq(Nat) /\ Len(freed') = Len(nodes) + 1
    /\ freed'[Len(nodes) + 1] = 0 /\ \A i \in DOMAIN nodes : freed'[i] = freed[i]
    /\ stack' \in Seq(Symbol) /\ Len(stack') = Len(stack) - n + 1
    /\ \A k \in 1 .. Len(stack) - n : stack'[k] = stack[k]
    /\ stack'[Len(stack) - n + 1].sym = "expression"
    /\ stack'[Len(stack) - n + 1].value = NULL
    /\ stack'[Len(stack) - n + 1].node = Len(nodes) + 1

LEMMA ReductionIs ==
    ASSUME ParserTypes, NEW n \in 1 .. Len(stack), NEW node \in ParsedNode, ReducesTo(n, node)
    PROVE  Reduced(n, node)
<1>1. /\ stack \in Seq(Symbol) /\ nodes \in Trees /\ freed \in Seq(Nat) /\ Len(freed) = Len(nodes)
      /\ Len(nodes) \in Nat /\ DOMAIN nodes = 1 .. Len(nodes)
  BY TreeIs DEF ParserTypes
<1>2. [type |-> node.type, op |-> node.op, leaf |-> node.leaf, args |-> node.args] = node
  BY DEF ParsedNode
<1> DEFINE e == [sym |-> "expression", value |-> NULL, node |-> Len(nodes) + 1]
<1>3. e \in Symbol /\ e.sym = "expression" /\ e.value = NULL /\ e.node = Len(nodes) + 1
  <2>1. Len(nodes) + 1 \in Nat
    BY <1>1
  <2>2. e \in Symbol
    BY <2>1 DEF Symbol
  <2> QED BY <2>2
<1>4. /\ status = "parsing" /\ nodes' = Append(nodes, node) /\ freed' = Append(freed, 0)
      /\ stack' = Append(Under(n), e)
      /\ UNCHANGED <<vocabulary, tokens, lookahead, status>>
  BY <1>2 DEF ReducesTo, Reduce
<1>5. /\ freed' \in Seq(Nat) /\ Len(freed') = Len(nodes) + 1
      /\ freed'[Len(nodes) + 1] = 0 /\ \A i \in DOMAIN nodes : freed'[i] = freed[i]
  BY <1>1, <1>4
<1>6. /\ Under(n) \in Seq(Symbol) /\ Len(Under(n)) = Len(stack) - n
      /\ \A k \in 1 .. Len(stack) - n : Under(n)[k] = stack[k]
      /\ Len(stack) \in Nat
  <2>1. Len(stack) \in Nat /\ n \in Nat /\ n <= Len(stack)
    BY <1>1
  <2> QED BY <1>1, <2>1, UnderIs
<1> HIDE DEF e
<1>7. /\ stack' \in Seq(Symbol) /\ Len(stack') = Len(stack) - n + 1
      /\ \A k \in 1 .. Len(stack) - n : stack'[k] = stack[k]
      /\ stack'[Len(stack) - n + 1] = e
  <2>1. Under(n) \in Seq(Symbol) /\ e \in Symbol /\ stack' = Append(Under(n), e)
    BY <1>3, <1>4, <1>6
  <2>2. /\ stack' \in Seq(Symbol) /\ Len(stack') = Len(Under(n)) + 1
        /\ \A k \in 1 .. Len(Under(n)) : stack'[k] = Under(n)[k]
        /\ stack'[Len(Under(n)) + 1] = e
    BY <2>1
  <2> QED BY <1>6, <2>2
<1> QED BY <1>3, <1>4, <1>5, <1>7 DEF Reduced


\* The numbers that the lemmas on reductions share: the new symbol is at `top`, the
\* new node is `new`.
StackSizes(n, top, new) ==
    /\ Len(stack) \in Nat /\ n \in 1 .. Len(stack) /\ top = Len(stack) - n + 1
    /\ DOMAIN stack = 1 .. Len(stack) /\ DOMAIN stack' = 1 .. top /\ Len(stack') = top
    /\ \A k \in 1 .. top - 1 : k \in DOMAIN stack /\ stack'[k] = stack[k]
    /\ stack'[top].sym = "expression" /\ stack'[top].value = NULL /\ stack'[top].node = new
TreeSizes(new) ==
    /\ Len(nodes) \in Nat /\ new = Len(nodes) + 1
    /\ DOMAIN nodes = 1 .. Len(nodes) /\ DOMAIN nodes' = 1 .. new
    /\ nodes \in Trees /\ nodes' \in Trees
    /\ \A i \in DOMAIN nodes : nodes'[i] = nodes[i]
Sizes(n, top, new) == StackSizes(n, top, new) /\ TreeSizes(new)

LEMMA SizesAre ==
    ASSUME ParserTypes, NEW n, NEW node, NEW P, Handle(n, node, P), Reduced(n, node)
    PROVE  Sizes(n, Len(stack) - n + 1, Len(nodes) + 1) /\ nodes'[Len(nodes) + 1] = node
<1>1. /\ stack \in Seq(Symbol) /\ nodes \in Trees /\ stack' \in Seq(Symbol)
      /\ nodes' = Append(nodes, node) /\ Len(stack') = Len(stack) - n + 1
      /\ \A k \in 1 .. Len(stack) - n : stack'[k] = stack[k]
      /\ stack'[Len(stack) - n + 1].sym = "expression"
      /\ stack'[Len(stack) - n + 1].value = NULL
      /\ stack'[Len(stack) - n + 1].node = Len(nodes) + 1
  BY DEF ParserTypes, Reduced
<1>2. /\ Len(stack) \in Nat /\ DOMAIN stack = 1 .. Len(stack) /\ DOMAIN stack' = 1 .. Len(stack')
      /\ Len(nodes) \in Nat /\ DOMAIN nodes = 1 .. Len(nodes)
  BY <1>1, TreeIs
<1>3. n \in 1 .. Len(stack) /\ CanTake(nodes, node)
  BY DEF Handle
<1>4. /\ nodes' \in Trees /\ DOMAIN nodes' = 1 .. Len(nodes) + 1
      /\ nodes'[Len(nodes) + 1] = node
      /\ \A i \in DOMAIN nodes : nodes'[i] = nodes[i]
  <2> PICK big : big = nodes'
    OBVIOUS
  <2>1. /\ big \in Trees /\ DOMAIN big = 1 .. Len(nodes) + 1 /\ big[Len(nodes) + 1] = node
        /\ Extends(big, nodes)
    BY <1>1, <1>3, TreeGrows
  <2> QED BY <2>1 DEF Extends
<1> QED BY <1>1, <1>2, <1>3, <1>4 DEF Sizes, StackSizes, TreeSizes

LEMMA ReductionGrows ==
    ASSUME ParserTypes, NEW n, NEW node, NEW P, Handle(n, node, P), Reduced(n, node),
           NEW new, new = Len(nodes) + 1
    PROVE  EdgesKept(nodes, nodes') /\ EdgesOfNew(nodes, node, nodes', new)
<1> PICK big : big = nodes'
  OBVIOUS
<1>1. nodes \in Trees /\ CanTake(nodes, node) /\ big = Append(nodes, node)
  BY DEF ParserTypes, Handle, Reduced
<1>2. EdgesKept(nodes, big) /\ EdgesOfNew(nodes, node, big, new)
  BY <1>1, EdgesGrow
<1> QED BY <1>2

LEMMA ReduceKeepsShape ==
    ASSUME ParserTypes, Shape, NEW n, NEW node, NEW P, Handle(n, node, P), Reduced(n, node)
    PROVE  ParserTypes' /\ Shape'
<1> PICK top, new : top = Len(stack) - n + 1 /\ new = Len(nodes) + 1
  OBVIOUS
<1>1. Sizes(n, top, new)
  BY SizesAre
<1>2. ParserTypes'
  BY <1>1 DEF ParserTypes, Reduced, Sizes, StackSizes, TreeSizes
<1>3. top \in DOMAIN stack /\ stack[top].sym \notin Following
  BY <1>1 DEF Handle, Sizes, StackSizes, TreeSizes
<1>4. ASSUME NEW k \in DOMAIN stack' PROVE Placed(k)'
  <2>1. CASE k < top
    <3>1. /\ k \in DOMAIN stack /\ stack'[k] = stack[k] /\ k < Len(stack) /\ k \in Nat
          /\ k > 1 => stack'[k - 1] = stack[k - 1]
          /\ k > 2 => stack'[k - 2] = stack[k - 2]
      BY <1>1, <2>1 DEF Sizes, StackSizes
    <3>3. DOMAIN nodes \subseteq DOMAIN nodes'
      BY <1>1 DEF Sizes, TreeSizes
    <3>2. Placed(k)
      BY <3>1 DEF Shape
    <3> QED BY <3>1, <3>2, <3>3 DEF Placed
  <2>2. CASE k = top
    <3>3. /\ stack'[k].sym = "expression" /\ stack'[k].node = new /\ k \in Nat
          /\ ~(k < Len(stack')) /\ stack'[k].value = NULL
          /\ k > 1 => stack'[k - 1] = stack[k - 1]
      <4>1. /\ stack'[top].sym = "expression" /\ stack'[top].node = new
            /\ stack'[top].value = NULL /\ Len(stack') = top
            /\ Len(stack) \in Nat /\ n \in 1 .. Len(stack)
        BY <1>1 DEF Sizes, StackSizes
      <4>2. \A j \in 1 .. top - 1 : stack'[j] = stack[j]
        BY <1>1 DEF Sizes, StackSizes
      <4>3. top \in Nat /\ ~(top < top) /\ (top > 1 => top - 1 \in 1 .. top - 1)
        BY <4>1
      <4> QED BY <2>2, <4>1, <4>2, <4>3
    <3>4. new \in DOMAIN nodes'
      BY <1>1 DEF Sizes, TreeSizes
    <3>1. /\ stack'[k].sym = "expression" /\ stack'[k].node \in DOMAIN nodes' /\ k \in Nat
          /\ ~(k < Len(stack')) /\ stack'[k].value = NULL
          /\ k > 1 => stack'[k - 1] = stack[k - 1]
      BY <3>3, <3>4
    <3>2. k > 1 => stack[k - 1].sym \in Waiting
      BY <1>3, <2>2 DEF Shape, Placed
    <3> QED BY <3>1, <3>2 DEF Placed, Operands, Following, BinaryOps, LogicalOps,
                              RelationalOps, ArithmeticOps
  <2> QED BY <1>1, <2>1, <2>2 DEF Sizes, StackSizes, TreeSizes
<1> QED BY <1>2, <1>4 DEF Shape


LEMMA ThreeOperands ==
    ASSUME NEW expr \in Trees, NEW i \in DOMAIN expr
    PROVE  DOMAIN expr[i].args \subseteq 1 .. 3
<1>1. /\ expr[i].type \in ExpressionType /\ Len(expr[i].args) = Arity[expr[i].type]
      /\ DOMAIN expr[i].args = 1 .. Len(expr[i].args)
  BY OperandsAre
<1>2. Len(expr[i].args) \in 0 .. 3
  BY <1>1, ArityIs DEF ExpressionType
<1> QED BY <1>1, <1>2

\* Owners, one by one.
NodeOwns(m, j, i) == m \in DOMAIN nodes /\ j \in DOMAIN nodes[m].args /\ nodes[m].args[j] = i
StackOwns(k, i) == k \in DOMAIN stack /\ stack[k].sym = "expression" /\ stack[k].node = i

LEMMA OwnersAre ==
    /\ nodes \in Trees =>
          \A i, o : o \in Owners(i) <=> \/ \E m, j : NodeOwns(m, j, i) /\ o = <<m, j>>
                                        \/ \E k : StackOwns(k, i) /\ o = <<0, k>>
    /\ (nodes \in Trees)' =>
          \A i, o : o \in Owners(i)' <=> \/ \E m, j : NodeOwns(m, j, i)' /\ o = <<m, j>>
                                         \/ \E k : StackOwns(k, i)' /\ o = <<0, k>>
<1>1. ASSUME nodes \in Trees
      PROVE  \A i, o : o \in Owners(i) <=> \/ \E m, j : NodeOwns(m, j, i) /\ o = <<m, j>>
                                           \/ \E k : StackOwns(k, i) /\ o = <<0, k>>
  BY <1>1, ThreeOperands DEF Owners, NodeOwns, StackOwns
<1>2. ASSUME (nodes \in Trees)'
      PROVE  \A i, o : o \in Owners(i)' <=> \/ \E m, j : NodeOwns(m, j, i)' /\ o = <<m, j>>
                                            \/ \E k : StackOwns(k, i)' /\ o = <<0, k>>
  BY <1>2, ThreeOperands DEF Owners, NodeOwns, StackOwns
<1> QED BY <1>1, <1>2

LEMMA ReduceKeepsOwned ==
    ASSUME ParserTypes, Shape, Owned, NEW n, NEW node, NEW P, Handle(n, node, P), Reduced(n, node)
    PROVE  Owned'
<1> PICK top, new : top = Len(stack) - n + 1 /\ new = Len(nodes) + 1
  OBVIOUS
<1>1. Sizes(n, top, new) /\ nodes'[new] = node
  BY SizesAre
<1> SUFFICES ASSUME NEW i \in DOMAIN nodes' PROVE \E o : Owners(i)' = {o}
  BY DEF Owned
<1>2. \A m, j : NodeOwns(m, j, i)' <=> \/ NodeOwns(m, j, i)
                                       \/ m = new /\ j \in DOMAIN node.args /\ node.args[j] = i
  BY <1>1 DEF NodeOwns, Sizes, TreeSizes
<1>3. \A k : StackOwns(k, i)' <=> \/ k < top /\ StackOwns(k, i)
                                  \/ k = top /\ i = new
  <2> TAKE k
  <2>1. k \in DOMAIN stack' <=> k \in 1 .. top - 1 \/ k = top
    BY <1>1 DEF Sizes, StackSizes
  <2>2. k \in DOMAIN stack /\ k < top <=> k \in 1 .. top - 1
    BY <1>1 DEF Sizes, StackSizes
  <2>3. k \in 1 .. top - 1 => stack'[k] = stack[k] /\ k # top
    BY <1>1 DEF Sizes, StackSizes
  <2>4. stack'[top].sym = "expression" /\ stack'[top].node = new
    BY <1>1 DEF Sizes, StackSizes
  <2> QED BY <2>1, <2>2, <2>3, <2>4 DEF StackOwns
<1>4. ASSUME NEW m, NEW j, NodeOwns(m, j, i)
      PROVE  m \in 1 .. new - 1 /\ i < m
  <2>1. nodes \in Trees /\ m \in DOMAIN nodes /\ m \in 1 .. new - 1
    BY <1>1, <1>4 DEF NodeOwns, Sizes, TreeSizes
  <2>2. m \in Nat /\ i \in 1 .. m - 1
    BY <1>4, <2>1, OperandsAre DEF NodeOwns
  <2> QED BY <2>1, <2>2
<1>5. \A k : StackOwns(k, i) => k \in 1 .. Len(stack)
  BY <1>1 DEF StackOwns, Sizes, StackSizes
<1>6. \A j \in DOMAIN node.args : node.args[j] = i =>
          P[j] >= top /\ StackOwns(P[j], i)
  <2>1. \A j \in DOMAIN node.args :
           /\ P[j] \in Len(stack) - n + 1 .. Len(stack)
           /\ stack[P[j]].sym = "expression" /\ stack[P[j]].node = node.args[j]
    BY Zenon DEF Handle
  <2>2. \A x \in Len(stack) - n + 1 .. Len(stack) : x >= top /\ x \in DOMAIN stack
    BY <1>1 DEF Sizes, StackSizes
  <2> QED BY <2>1, <2>2 DEF StackOwns
<1>7. \A k : StackOwns(k, i) /\ ~(k < top) =>
          \E j \in DOMAIN node.args : P[j] = k /\ node.args[j] = i
  <2> SUFFICES ASSUME NEW k, StackOwns(k, i), ~(k < top)
               PROVE  \E j \in DOMAIN node.args : P[j] = k /\ node.args[j] = i
    OBVIOUS
  <2>1. k \in Len(stack) - n + 1 .. Len(stack) /\ stack[k].sym = "expression" /\ stack[k].node = i
    BY <1>1, <1>5 DEF StackOwns, Sizes, StackSizes
  <2>2. PICK j \in DOMAIN node.args : P[j] = k
    BY <2>1, Zenon DEF Handle
  <2>3. stack[P[j]].node = node.args[j]
    BY Zenon DEF Handle
  <2> QED BY <2>1, <2>2, <2>3
<1>8. \A j, l \in DOMAIN node.args : P[j] = P[l] => j = l
  BY DEF Handle
<1>9. \A j \in DOMAIN node.args : node.args[j] # new
  BY <1>1 DEF Handle, CanTake, Sizes, StackSizes, TreeSizes
<1>10. /\ nodes \in Trees /\ (nodes \in Trees)' /\ status = "parsing"
       /\ i \in 1 .. new /\ new \in Nat /\ top \in Nat /\ DOMAIN nodes = 1 .. new - 1
  BY <1>1 DEF Sizes, StackSizes, TreeSizes, Reduced
<1>11. ASSUME NEW i2, NEW o
       PROVE  /\ o \in Owners(i2) <=> \/ \E m, j : NodeOwns(m, j, i2) /\ o = <<m, j>>
                                      \/ \E k : StackOwns(k, i2) /\ o = <<0, k>>
              /\ o \in Owners(i2)' <=> \/ \E m, j : NodeOwns(m, j, i2)' /\ o = <<m, j>>
                                       \/ \E k : StackOwns(k, i2)' /\ o = <<0, k>>
  BY <1>10, OwnersAre
<1>12. CASE i = new
  <2>1. \A m, j : ~NodeOwns(m, j, i)'
    BY <1>2, <1>4, <1>9, <1>10, <1>12
  <2>2. \A k : StackOwns(k, i) => FALSE
    BY <1>10, <1>12 DEF StackOwns, Shape, Placed
  <2>3. \A k : StackOwns(k, i)' <=> k = top
    BY <1>3, <1>12, <2>2
  <2>4. Owners(i)' = {<<0, top>>}
    BY <1>11, <2>1, <2>3
  <2> QED BY <2>4
<1>13. CASE i # new
  <2>0. i \in DOMAIN nodes
    BY <1>10, <1>13
  <2>1. PICK o : Owners(i) = {o}
    BY <1>10, <2>0 DEF Owned
  <2>4. \A m, j : NodeOwns(m, j, i) => <<m, j>> = o
    BY <1>11, <2>1
  <2>5. \A k : StackOwns(k, i) => <<0, k>> = o
    BY <1>11, <2>1
  <2>6. o \in Owners(i)
    BY <2>1
  <2>2. CASE \E m, j : NodeOwns(m, j, i) /\ o = <<m, j>>
    <3>1. PICK m, j : NodeOwns(m, j, i) /\ o = <<m, j>>
      BY <2>2
    <3>2. m > 0 /\ m # new
      BY <1>4, <1>10, <3>1
    <3>3. \A k : ~StackOwns(k, i)
      BY <2>5, <3>1, <3>2
    <3>4. \A m2, j2 : NodeOwns(m2, j2, i)' => m2 = m /\ j2 = j
      BY <1>2, <1>6, <2>4, <3>1, <3>3
    <3>5. \A k : ~StackOwns(k, i)'
      BY <1>3, <1>13, <3>3
    <3>6. Owners(i)' = {<<m, j>>}
      BY <1>2, <1>11, <3>1, <3>4, <3>5
    <3> QED BY <3>6
  <2>3. CASE \E k : StackOwns(k, i) /\ o = <<0, k>>
    <3>1. PICK k : StackOwns(k, i) /\ o = <<0, k>>
      BY <2>3
    <3>2. \A m, j : ~NodeOwns(m, j, i)
      BY <1>4, <1>10, <2>4, <3>1
    <3>3. \A k2 : StackOwns(k2, i) => k2 = k
      BY <2>5, <3>1
    <3>4. CASE k < top
      <4>1. \A j \in DOMAIN node.args : node.args[j] # i
        BY <1>6, <1>10, <3>3, <3>4, <1>5
      <4>2. \A m, j : ~NodeOwns(m, j, i)'
        BY <1>2, <3>2, <4>1
      <4>3. \A k2 : StackOwns(k2, i)' <=> k2 = k
        BY <1>3, <1>13, <3>1, <3>3, <3>4
      <4>4. Owners(i)' = {<<0, k>>}
        BY <1>11, <4>2, <4>3
      <4> QED BY <4>4
    <3>5. CASE ~(k < top)
      <4>1. PICK j \in DOMAIN node.args : P[j] = k /\ node.args[j] = i
        BY <1>7, <3>1, <3>5
      <4>2. \A l \in DOMAIN node.args : node.args[l] = i => l = j
        BY <1>6, <1>8, <3>3, <4>1
      <4>3. \A m, l : NodeOwns(m, l, i)' <=> m = new /\ l = j
        BY <1>2, <3>2, <4>1, <4>2
      <4>4. \A k2 : ~StackOwns(k2, i)'
        BY <1>3, <1>13, <3>3, <3>5
      <4>5. Owners(i)' = {<<new, j>>}
        BY <1>11, <4>3, <4>4
      <4> QED BY <4>5
    <3> QED BY <3>4, <3>5
  <2>7. \/ \E m, j : NodeOwns(m, j, i) /\ o = <<m, j>>
        \/ \E k : StackOwns(k, i) /\ o = <<0, k>>
    <3> DEFINE Known(x, y) == \/ \E m, j : NodeOwns(m, j, x) /\ y = <<m, j>>
                              \/ \E k : StackOwns(k, x) /\ y = <<0, k>>
    <3>1. \A x, y : y \in Owners(x) <=> Known(x, y)
      BY <1>10, OwnersAre
    <3> HIDE DEF Known
    <3>2. Known(i, o)
      BY <2>6, <3>1
    <3> QED BY <3>2 DEF Known
  <2> QED BY <2>2, <2>3, <2>7, Zenon
<1> QED BY <1>12, <1>13


LEMMA DestroyedBelow ==
    ASSUME NEW expr \in Trees, NEW i \in DOMAIN expr
    PROVE  destroyExpression(expr, i) \subseteq DOMAIN expr
BY DestroyedAre DEF Destroyed

LEMMA ReduceKeepsHeld ==
    ASSUME ParserTypes, Shape, Held, NEW n, NEW node, NEW P, Handle(n, node, P), Reduced(n, node)
    PROVE  Held'
<1> PICK top, new : top = Len(stack) - n + 1 /\ new = Len(nodes) + 1
  OBVIOUS
<1>1. Sizes(n, top, new) /\ nodes'[new] = node
  BY SizesAre
<1> SUFFICES ASSUME NEW i \in DOMAIN nodes'
             PROVE  freed'[i] = 0 /\ \E k : Holders(i)' = {k}
  BY DEF Held
<1>2. /\ \A m \in DOMAIN nodes : destroyExpression(nodes', m) = destroyExpression(nodes, m)
      /\ destroyExpression(nodes', new) =
            {new} \cup UNION {destroyExpression(nodes, node.args[j]) : j \in DOMAIN node.args}
  BY <1>1, ReductionGrows DEF Sizes, StackSizes, TreeSizes, EdgesKept, EdgesOfNew
<1>3. \A k : k \in Holders(i) <=>
         k \in DOMAIN stack /\ stack[k].sym = "expression"
         /\ i \in destroyExpression(nodes, stack[k].node)
  BY DEF Holders
<1>4. \A k : k \in Holders(i)' <=>
         k \in DOMAIN stack' /\ stack'[k].sym = "expression"
         /\ i \in destroyExpression(nodes', stack'[k].node)
  BY DEF Holders
<1>5. \A k \in DOMAIN stack : stack[k].sym = "expression" => stack[k].node \in DOMAIN nodes
  BY DEF Shape, Placed
<1>6. ASSUME NEW k \in 1 .. top - 1 PROVE k \in Holders(i)' <=> k \in Holders(i)
  <2>1. k \in DOMAIN stack /\ k \in DOMAIN stack' /\ stack'[k] = stack[k]
    BY <1>1 DEF Sizes, StackSizes, TreeSizes
  <2>2. stack[k].sym = "expression" =>
           destroyExpression(nodes', stack[k].node) = destroyExpression(nodes, stack[k].node)
    BY <1>2, <1>5, <2>1
  <2> QED BY <1>3, <1>4, <2>1, <2>2
<1>7. top \in Holders(i)' <=> i = new \/ \E j \in DOMAIN node.args : P[j] \in Holders(i)
  <2>1. top \in Holders(i)' <=> i \in destroyExpression(nodes', new)
    BY <1>1, <1>4 DEF Sizes, StackSizes, TreeSizes
  <2>2. \A j \in DOMAIN node.args :
            P[j] \in Holders(i) <=> i \in destroyExpression(nodes, node.args[j])
    <3> TAKE j \in DOMAIN node.args
    <3>1. /\ P[j] \in Len(stack) - n + 1 .. Len(stack) /\ n \in 1 .. Len(stack)
          /\ stack[P[j]].sym = "expression" /\ stack[P[j]].node = node.args[j]
      BY DEF Handle
    <3>2. P[j] \in DOMAIN stack
      BY <1>1, <3>1 DEF Sizes, StackSizes
    <3> QED BY <1>3, <3>1, <3>2
  <2> QED BY <1>2, <2>1, <2>2
<1>8. \A k : k \in Holders(i)' => k \in 1 .. top - 1 \/ k = top
  BY <1>1, <1>4 DEF Sizes, StackSizes, TreeSizes
<1>9. ASSUME NEW k \in Holders(i), ~(k < top) PROVE \E j \in DOMAIN node.args : P[j] = k
  <2>1. k \in Len(stack) - n + 1 .. Len(stack) /\ stack[k].sym = "expression"
    BY <1>1, <1>3, <1>9 DEF Sizes, StackSizes, TreeSizes
  <2> QED BY <2>1 DEF Handle
<1>10. \A j \in DOMAIN node.args : ~(P[j] < top)
  BY <1>1 DEF Handle, Sizes, StackSizes, TreeSizes
<1>11. CASE i = new
  <2>1. Holders(i) = {}
    BY <1>1, <1>3, <1>5, <1>11, DestroyedBelow DEF Sizes, TreeSizes
  <2>2. \A k : k \in Holders(i)' <=> k = top
    BY <1>1, <1>6, <1>7, <1>8, <1>11, <2>1 DEF Sizes, StackSizes, TreeSizes
  <2>3. Holders(i)' = {top}
    BY <2>2
  <2>4. freed'[i] = 0
    BY <1>1, <1>11 DEF Sizes, StackSizes, TreeSizes, Reduced
  <2> QED BY <2>3, <2>4
<1>12. CASE i # new
  <2>1. i \in DOMAIN nodes /\ top \in Nat
    BY <1>1, <1>12 DEF Sizes, StackSizes, TreeSizes
  <2>2. status = "parsing" /\ freed'[i] = freed[i]
    BY <2>1 DEF Reduced
  <2>3. freed[i] = 0 /\ \E k : Holders(i) = {k}
    BY <2>1, <2>2 DEF Held
  <2>4. PICK k : Holders(i) = {k}
    BY <2>3
  <2>5. k \in 1 .. Len(stack)
    BY <1>1, <1>3, <2>4 DEF Sizes, StackSizes, TreeSizes
  <2>6. CASE k < top
    <3>1. \A x : x \in Holders(i)' <=> x = k
      BY <1>6, <1>7, <1>8, <1>10, <1>12, <2>1, <2>4, <2>5, <2>6
    <3>2. Holders(i)' = {k}
      BY <3>1
    <3> QED BY <2>2, <2>3, <3>2
  <2>7. CASE ~(k < top)
    <3>1. PICK j \in DOMAIN node.args : P[j] = k
      BY <1>9, <2>4, <2>7
    <3>2. \A x : x \in Holders(i)' <=> x = top
      BY <1>6, <1>7, <1>8, <2>1, <2>4, <2>5, <2>7, <3>1
    <3>3. Holders(i)' = {top}
      BY <3>2
    <3> QED BY <2>2, <2>3, <3>3
  <2> QED BY <2>6, <2>7
<1> QED BY <1>11, <1>12


\* What PrecedenceRespected says of one node.
NodeRespects(expr, i) ==
    /\ Infix(expr[i]) => /\ RightIs(expr, expr[i].args[1], expr[i].op)
                         /\ LeftIs(expr, expr[i].args[2], expr[i].op)
    /\ expr[i].type = "LOGICAL_NOT_EXPR" => ~Infix(expr[expr[i].args[1]])

LEMMA RespectedNodeByNode ==
    PrecedenceRespected <=> \A i \in DOMAIN nodes : NodeRespects(nodes, i)
BY DEF PrecedenceRespected, NodeRespects, RightIs, LeftIs

LEMMA ArgumentsOf ==
    ASSUME NEW node \in ParsedNode, Len(node.args) = Arity[node.type]
    PROVE  /\ Infix(node) => Len(node.args) = 2 /\ 1 \in DOMAIN node.args /\ 2 \in DOMAIN node.args
           /\ OpenToTheRight(node) => Len(node.args) \in DOMAIN node.args
           /\ node.type = "LOGICAL_NOT_EXPR" => Len(node.args) = 1 /\ 1 \in DOMAIN node.args
<1>1. node.type \in ExpressionType /\ node.args \in Seq(Nat)
  BY DEF ParsedNode
<1>2. DOMAIN node.args = 1 .. Len(node.args)
  BY <1>1
<1>3. OpenToTheRight(node) => Len(node.args) \in {1, 2, 3}
  BY <1>1, ArityIs DEF OpenToTheRight, Infix
<1>4. Infix(node) => Len(node.args) = 2
  BY ArityIs DEF Infix
<1>5. node.type = "LOGICAL_NOT_EXPR" => Len(node.args) = 1
  BY ArityIs
<1> QED BY <1>2, <1>3, <1>4, <1>5

\* What is said of old nodes stays true when one is added.
LEMMA EdgesStay ==
    ASSUME NEW expr \in Trees, NEW m \in DOMAIN expr, NEW op,
           NEW big, Extends(big, expr), EdgesKept(expr, big)
    PROVE  /\ RightIs(expr, m, op) => RightIs(big, m, op)
           /\ LeftIs(expr, m, op) => LeftIs(big, m, op)
           /\ big[m] = expr[m]
<1>1. \A j \in DOMAIN expr : big[j] = expr[j]
  BY DEF Extends
<1>2. /\ RightEdges(big)[m] = RightEdges(expr)[m] /\ RightEdges(expr)[m] \subseteq DOMAIN expr
      /\ LeftEdges(big)[m] = LeftEdges(expr)[m] /\ LeftEdges(expr)[m] \subseteq DOMAIN expr
  BY RightEdgesAre, LeftEdgesAre DEF EdgesKept
<1>3. RightIs(expr, m, op) => RightIs(big, m, op)
  <2> SUFFICES ASSUME RightIs(expr, m, op), NEW j \in RightEdges(big)[m]
               PROVE  /\ big[j].type # "CONDITIONAL_EXPR"
                      /\ Infix(big[j]) => BindsTighter(big[j], op)
    BY DEF RightIs
  <2>1. j \in RightEdges(expr)[m] /\ big[j] = expr[j]
    BY <1>1, <1>2
  <2> QED BY <2>1 DEF RightIs
<1>4. LeftIs(expr, m, op) => LeftIs(big, m, op)
  <2> SUFFICES ASSUME LeftIs(expr, m, op), NEW j \in LeftEdges(big)[m], Infix(big[j])
               PROVE  Level(big[j].op) > Level(op)
    BY DEF LeftIs
  <2>1. j \in LeftEdges(expr)[m] /\ big[j] = expr[j]
    BY <1>1, <1>2
  <2> QED BY <2>1 DEF LeftIs
<1> QED BY <1>1, <1>3, <1>4

LEMMA OldRespects ==
    ASSUME NEW expr \in Trees, NEW i \in DOMAIN expr, NodeRespects(expr, i),
           NEW big, Extends(big, expr), EdgesKept(expr, big)
    PROVE  NodeRespects(big, i)
<1>1. /\ expr[i] \in ParsedNode /\ Len(expr[i].args) = Arity[expr[i].type]
      /\ \A k \in DOMAIN expr[i].args : expr[i].args[k] \in DOMAIN expr
  BY OperandsAre, TreeIs
<1>2. /\ Infix(expr[i]) => expr[i].args[1] \in DOMAIN expr /\ expr[i].args[2] \in DOMAIN expr
      /\ expr[i].type = "LOGICAL_NOT_EXPR" => expr[i].args[1] \in DOMAIN expr
  BY <1>1, ArgumentsOf
<1>3. big[i] = expr[i]
  BY DEF Extends
<1>4. Infix(expr[i]) => /\ RightIs(big, expr[i].args[1], expr[i].op)
                        /\ LeftIs(big, expr[i].args[2], expr[i].op)
  <2>1. ASSUME Infix(expr[i])
        PROVE  /\ RightIs(big, expr[i].args[1], expr[i].op)
               /\ LeftIs(big, expr[i].args[2], expr[i].op)
    <3>1. RightIs(expr, expr[i].args[1], expr[i].op) /\ LeftIs(expr, expr[i].args[2], expr[i].op)
      BY <2>1 DEF NodeRespects
    <3> QED BY <1>2, <2>1, <3>1, EdgesStay
  <2> QED BY <2>1
<1>5. expr[i].type = "LOGICAL_NOT_EXPR" => ~Infix(big[expr[i].args[1]])
  <2>1. expr[i].type = "LOGICAL_NOT_EXPR" => big[expr[i].args[1]] = expr[expr[i].args[1]]
    BY <1>2 DEF Extends
  <2> QED BY <2>1 DEF NodeRespects
<1> QED BY <1>3, <1>4, <1>5 DEF NodeRespects

\* The new node is as the levels ask for.
LEMMA NewRespects ==
    ASSUME ParserTypes, Shape, \A k \in DOMAIN stack : Ranked(k),
           NEW n, NEW node, NEW P, Handle(n, node, P), Reduced(n, node),
           NEW new, new = Len(nodes) + 1
    PROVE  NodeRespects(nodes', new)
<1>1. Sizes(n, Len(stack) - n + 1, new) /\ nodes'[new] = node
  BY SizesAre
<1>2. EdgesKept(nodes, nodes') /\ Extends(nodes', nodes)
  BY <1>1, ReductionGrows DEF Extends, Sizes, StackSizes, TreeSizes
<1>3. /\ node \in ParsedNode /\ Len(node.args) = Arity[node.type]
      /\ \A k \in DOMAIN node.args : node.args[k] \in DOMAIN nodes
  BY DEF Handle, CanTake
<1>4. /\ nodes \in Trees /\ Len(stack) \in Nat /\ DOMAIN stack = 1 .. Len(stack)
      /\ n \in 1 .. Len(stack)
  BY <1>1 DEF Sizes, StackSizes, TreeSizes
<1>5. OpenToTheRight(node) =>
         node.args[Len(node.args)] = stack[Len(stack)].node /\ stack[Len(stack)].sym = "expression"
  <2>1. OpenToTheRight(node) => Len(node.args) \in DOMAIN node.args
    BY <1>3, ArgumentsOf
  <2>2. OpenToTheRight(node) => P[Len(node.args)] = Len(stack)
    BY DEF Handle
  <2>3. \A j \in DOMAIN node.args :
           stack[P[j]].sym = "expression" /\ stack[P[j]].node = node.args[j]
    BY DEF Handle
  <2> QED BY <2>1, <2>2, <2>3
<1>6. ASSUME Infix(node)
      PROVE  RightIs(nodes', node.args[1], node.op) /\ LeftIs(nodes', node.args[2], node.op)
  <2>1. /\ Len(node.args) = 2 /\ n = 3 /\ P[1] = Len(stack) - 2
        /\ node.args[1] \in DOMAIN nodes /\ node.args[2] \in DOMAIN nodes
        /\ node.args[1] = stack[Len(stack) - 2].node
        /\ stack[Len(stack) - 1].sym = node.op /\ node.op \in BinaryOps
    BY <1>3, <1>6, ArgumentsOf DEF Handle
  <2>2. node.args[2] = stack[Len(stack)].node /\ stack[Len(stack)].sym = "expression"
    BY <1>5, <1>6, <2>1 DEF OpenToTheRight
  <2>3. /\ Len(stack) - 1 \in DOMAIN stack /\ Len(stack) \in DOMAIN stack /\ Len(stack) > 1
        /\ (Len(stack) - 1) - 1 = Len(stack) - 2
    BY <1>4, <2>1
  <2>4. RightIs(nodes, node.args[1], node.op)
    BY <2>1, <2>3 DEF Ranked
  <2>5. LeftIs(nodes, node.args[2], node.op)
    BY <2>1, <2>2, <2>3 DEF Ranked
  <2> QED BY <1>2, <1>4, <2>1, <2>4, <2>5, EdgesStay
<1>7. ASSUME node.type = "LOGICAL_NOT_EXPR" PROVE ~Infix(nodes'[node.args[1]])
  <2>1. /\ Len(node.args) = 1 /\ n = 2 /\ stack[Len(stack) - 1].sym = "OP_NOT"
        /\ node.args[1] \in DOMAIN nodes
    BY <1>3, <1>7, ArgumentsOf DEF Handle
  <2>2. node.args[1] = stack[Len(stack)].node /\ stack[Len(stack)].sym = "expression"
    BY <1>5, <1>7, <2>1 DEF OpenToTheRight
  <2>3. Len(stack) \in DOMAIN stack /\ Len(stack) > 1
    BY <1>4, <2>1
  <2>4. ~Infix(nodes[node.args[1]])
    BY <2>1, <2>2, <2>3 DEF Ranked
  <2> QED BY <1>2, <2>1, <2>4 DEF Extends
<1> QED BY <1>1, <1>6, <1>7 DEF NodeRespects


LEMMA ReduceKeepsRanks ==
    ASSUME ParserTypes, Shape, \A k \in DOMAIN stack : Ranked(k),
           NEW n, NEW node, NEW P, Handle(n, node, P), Reduced(n, node)
    PROVE  \A k \in DOMAIN stack' : Ranked(k)'
<1> PICK top, new : top = Len(stack) - n + 1 /\ new = Len(nodes) + 1
  OBVIOUS
<1>1. Sizes(n, top, new) /\ nodes'[new] = node
  BY SizesAre
<1>2. EdgesKept(nodes, nodes') /\ Extends(nodes', nodes) /\ EdgesOfNew(nodes, node, nodes', new)
  BY <1>1, ReductionGrows DEF Extends, Sizes, StackSizes, TreeSizes
<1>3. nodes \in Trees /\ nodes' \in Trees
  BY <1>1 DEF Sizes, StackSizes, TreeSizes
<1>4. ASSUME NEW k \in 1 .. top - 1 PROVE Ranked(k)'
  <2>1. /\ k \in DOMAIN stack /\ stack'[k] = stack[k]
        /\ k > 1 => k - 1 \in DOMAIN stack /\ stack'[k - 1] = stack[k - 1]
        /\ k > 2 => stack'[k - 2] = stack[k - 2]
    <3>1. /\ DOMAIN stack = 1 .. Len(stack) /\ Len(stack) \in Nat
          /\ \A j \in 1 .. top - 1 : j \in DOMAIN stack /\ stack'[j] = stack[j]
      BY <1>1 DEF Sizes, StackSizes
    <3>2. top \in Nat
      BY <1>1 DEF Sizes, StackSizes
    <3>3. k > 1 => k - 1 \in 1 .. top - 1
      BY <3>2
    <3>4. k > 2 => k - 2 \in 1 .. top - 1
      BY <3>2
    <3> QED BY <3>1, <3>3, <3>4
  <2>2. Ranked(k) /\ Placed(k)
    BY <2>1 DEF Shape
  <2>3. stack[k].sym \in BinaryOps => k > 1 /\ stack[k - 1].node \in DOMAIN nodes
    BY <2>1, <2>2 DEF Shape, Placed, Following
  <2>4. stack[k].sym = "expression" => stack[k].node \in DOMAIN nodes
    BY <2>2 DEF Placed
  <2>5. stack[k].sym \in BinaryOps => RightIs(nodes', stack[k - 1].node, stack[k].sym)
    <3>1. stack[k].sym \in BinaryOps => RightIs(nodes, stack[k - 1].node, stack[k].sym)
      BY <2>2 DEF Ranked
    <3> QED BY <1>2, <1>3, <2>3, <3>1, EdgesStay
  <2>6. stack[k].sym = "expression" /\ k > 1 /\ stack[k - 1].sym \in BinaryOps =>
            LeftIs(nodes', stack[k].node, stack[k - 1].sym)
    <3>1. stack[k].sym = "expression" /\ k > 1 /\ stack[k - 1].sym \in BinaryOps =>
              LeftIs(nodes, stack[k].node, stack[k - 1].sym)
      BY <2>2 DEF Ranked
    <3> QED BY <1>2, <1>3, <2>4, <3>1, EdgesStay
  <2>7. stack[k].sym = "expression" => nodes'[stack[k].node] = nodes[stack[k].node]
    BY <1>2, <2>4 DEF Extends
  <2>8. stack[k].sym \in BinaryOps => RightIs(nodes', stack'[k - 1].node, stack[k].sym)
    BY <2>1, <2>3, <2>5
  <2> QED BY <2>1, <2>2, <2>6, <2>7, <2>8 DEF Ranked
<1>5. Ranked(top)'
  <2>1. /\ top \in DOMAIN stack /\ top \in Nat /\ stack'[top].sym = "expression"
        /\ stack'[top].node = new
        /\ top > 1 => stack'[top - 1] = stack[top - 1]
        /\ Len(stack) \in Nat /\ n \in 1 .. Len(stack) /\ top = Len(stack) - n + 1
        /\ DOMAIN stack = 1 .. Len(stack)
    BY <1>1 DEF Sizes, StackSizes
  <2>2. "expression" \notin BinaryOps
    BY DEF BinaryOps, LogicalOps, RelationalOps, ArithmeticOps
  <2>3. /\ node \in ParsedNode /\ Len(node.args) = Arity[node.type]
    BY DEF Handle, CanTake
  <2>4. ASSUME Infix(node)
        PROVE  /\ n = 3 /\ stack[top].sym = "expression" /\ node.args[1] = stack[top].node
               /\ stack[top + 1].sym = node.op /\ node.op \in BinaryOps
               /\ node.args[1] \in DOMAIN nodes /\ top < Len(stack) /\ top + 1 \in DOMAIN stack
    <3>1. 1 \in DOMAIN node.args
      BY <2>3, <2>4, ArgumentsOf
    <3>2. n = 3 /\ P[1] = Len(stack) - 2 /\ stack[Len(stack) - 1].sym = node.op
          /\ node.op \in BinaryOps
      BY <2>4 DEF Handle
    <3>3. stack[P[1]].sym = "expression" /\ stack[P[1]].node = node.args[1]
          /\ node.args[1] \in DOMAIN nodes
      BY <3>1 DEF Handle, CanTake
    <3>4. P[1] = top /\ Len(stack) - 1 = top + 1
      BY <2>1, <3>2
    <3> QED BY <2>1, <3>2, <3>3, <3>4
  <2>5. ASSUME top > 1, stack[top - 1].sym \in BinaryOps
        PROVE  LeftIs(nodes', new, stack[top - 1].sym)
    <3> SUFFICES ASSUME NEW j \in LeftEdges(nodes')[new], Infix(nodes'[j])
                 PROVE  Level(nodes'[j].op) > Level(stack[top - 1].sym)
      BY DEF LeftIs
    <3>1. j = new \/ (Infix(node) /\ j \in LeftEdges(nodes)[node.args[1]])
      BY <1>2 DEF EdgesOfNew
    <3>2. CASE j = new
      <4>1. Infix(node)
        BY <1>1, <3>2
      <4>2. PICK k \in DOMAIN stack : k = top + 1
        BY <2>4, <4>1
      <4>4. Ranked(k) /\ k > 2 /\ k - 2 = top - 1
        BY <2>1, <2>5, <4>2
      <4>3. Level(stack[top + 1].sym) > Level(stack[top - 1].sym)
        BY <2>4, <2>5, <4>1, <4>2, <4>4 DEF Ranked
      <4> QED BY <1>1, <2>4, <3>2, <4>1, <4>3
    <3>3. CASE Infix(node) /\ j \in LeftEdges(nodes)[node.args[1]]
      <4>1. LeftIs(nodes, node.args[1], stack[top - 1].sym)
        BY <2>1, <2>4, <2>5, <3>3 DEF Ranked
      <4>2. j \in DOMAIN nodes /\ nodes'[j] = nodes[j]
        BY <1>2, <1>3, <2>4, <3>3, LeftEdgesAre DEF Extends
      <4> QED BY <3>3, <4>1, <4>2 DEF LeftIs
    <3> QED BY <3>1, <3>2, <3>3
  <2>6. ASSUME top > 1, stack[top - 1].sym = "OP_NOT" PROVE ~Infix(node)
    BY <2>1, <2>4, <2>6 DEF Shape, Placed
  <2> QED BY <1>1, <2>1, <2>2, <2>5, <2>6 DEF Ranked
<1> QED BY <1>1, <1>4, <1>5 DEF Sizes, StackSizes, TreeSizes


LEMMA ReduceKeepsClosing ==
    ASSUME ParserTypes, Closing,
           NEW n, NEW node, NEW P, Handle(n, node, P), Reduced(n, node)
    PROVE  Closing'
<1> PICK top, new : top = Len(stack) - n + 1 /\ new = Len(nodes) + 1
  OBVIOUS
<1>1. Sizes(n, top, new) /\ nodes'[new] = node
  BY SizesAre
<1>2. EdgesKept(nodes, nodes') /\ Extends(nodes', nodes) /\ EdgesOfNew(nodes, node, nodes', new)
  BY <1>1, ReductionGrows DEF Extends, Sizes, StackSizes, TreeSizes
<1>3. /\ stack'[Len(stack')].node = new /\ Len(stack') \in Nat /\ Len(stack) \in Nat \ {0}
      /\ nodes \in Trees
  BY <1>1 DEF Sizes, StackSizes, TreeSizes
<1>4. NodeAt(0)' = new
  BY <1>3 DEF NodeAt
<1>5. status = "parsing" /\ lookahead' = lookahead
  BY DEF Reduced
<1> SUFFICES ASSUME NEW j \in RightEdges(nodes')[new]
             PROVE  /\ Infix(nodes'[j]) => lookahead # NULL /\ Reduces(nodes'[j].op, lookahead.sym)
                    /\ nodes'[j].type = "CONDITIONAL_EXPR" =>
                          lookahead # NULL /\ lookahead.sym \notin BinaryOps
  BY <1>4, <1>5 DEF Closing
<1>6. CASE j = new
  BY <1>1, <1>6 DEF Handle
<1>7. CASE j # new
  <2>1. OpenToTheRight(node) /\ j \in RightEdges(nodes)[node.args[Len(node.args)]]
    BY <1>2, <1>7 DEF EdgesOfNew
  <2>2. Len(node.args) \in DOMAIN node.args /\ P[Len(node.args)] = Len(stack)
    BY <2>1, ArgumentsOf DEF Handle, CanTake
  <2>3. /\ stack[Len(stack)].sym = "expression"
        /\ node.args[Len(node.args)] = stack[Len(stack)].node
        /\ node.args[Len(node.args)] \in DOMAIN nodes
    <3>1. stack[P[Len(node.args)]].sym = "expression"
          /\ stack[P[Len(node.args)]].node = node.args[Len(node.args)]
      BY <2>2 DEF Handle
    <3>2. CanTake(nodes, node)
      BY DEF Handle
    <3>3. node.args[Len(node.args)] \in DOMAIN nodes
      BY <2>2, <3>2 DEF CanTake
    <3> QED BY <2>2, <3>1, <3>3
  <2>4. AfterExpression /\ NodeAt(0) = node.args[Len(node.args)]
    BY <1>3, <2>3 DEF AfterExpression, Peek, NodeAt
  <2>5. j \in DOMAIN nodes /\ nodes'[j] = nodes[j]
    BY <1>2, <1>3, <2>1, <2>3, RightEdgesAre DEF Extends
  <2> QED BY <1>5, <2>1, <2>4, <2>5 DEF Closing
<1> QED BY <1>6, <1>7

LEMMA ReduceKeepsPrecedence ==
    ASSUME PrecedenceInv, NEW n, NEW node, NEW P, Handle(n, node, P), Reduced(n, node)
    PROVE  PrecedenceInv'
<1> PICK top, new : top = Len(stack) - n + 1 /\ new = Len(nodes) + 1
  OBVIOUS
<1>0. ParserTypes /\ Shape /\ (\A k \in DOMAIN stack : Ranked(k)) /\ Closing /\ PrecedenceRespected
  BY DEF PrecedenceInv
<1>1. Sizes(n, top, new)
  BY <1>0, SizesAre
<1>2. EdgesKept(nodes, nodes') /\ Extends(nodes', nodes)
  BY <1>0, <1>1, ReductionGrows DEF Extends, Sizes, StackSizes, TreeSizes
<1>3. ParserTypes' /\ Shape' /\ (\A k \in DOMAIN stack : Ranked(k))' /\ Closing'
  BY <1>0, ReduceKeepsShape, ReduceKeepsRanks, ReduceKeepsClosing
<1>4. \A i \in DOMAIN nodes : NodeRespects(nodes, i)
  BY <1>0, RespectedNodeByNode
<1>5. \A i \in DOMAIN nodes : NodeRespects(nodes', i)
  BY <1>1, <1>2, <1>4, OldRespects DEF Sizes, StackSizes, TreeSizes
<1>6. NodeRespects(nodes', new)
  BY <1>0, NewRespects
<1>7. \A i \in DOMAIN nodes' : NodeRespects(nodes', i)
  BY <1>1, <1>5, <1>6 DEF Sizes, StackSizes, TreeSizes
<1>8. PrecedenceRespected'
  BY <1>7 DEF PrecedenceRespected, NodeRespects, RightIs, LeftIs
<1> QED BY <1>3, <1>8 DEF PrecedenceInv


FitsTree(type, op, leaf, args) ==
    /\ type \in ExpressionType /\ op \in BinaryOps \cup {"OP_NOT", NULL}
    /\ leaf \in Names \cup LiteralType \cup {NULL}
    /\ args \in Seq(Nat) /\ Len(args) = Arity[type]
    /\ \A k \in DOMAIN args : args[k] \in DOMAIN nodes

LEMMA NodeIs ==
    ASSUME NEW type, NEW op, NEW leaf, NEW args, FitsTree(type, op, leaf, args),
           NEW node, node = [type |-> type, op |-> op, leaf |-> leaf, args |-> args],
           OpFits(node)
    PROVE  /\ CanTake(nodes, node)
           /\ node.type = type /\ node.op = op /\ node.leaf = leaf /\ node.args = args
BY DEF CanTake, ParsedNode, FitsTree

LEMMA HandleReduces ==
    ASSUME ParserTypes, NEW n, NEW node, NEW P, Handle(n, node, P),
           Reduce(n, node.type, node.op, node.leaf, node.args)
    PROVE  Reduced(n, node)
BY ReductionIs DEF Handle, CanTake, ReducesTo

\* The symbols on top, as they lie.
LEMMA TopIs ==
    ASSUME ParserTypes, Shape
    PROVE  /\ stack \in Seq(Symbol) /\ Len(stack) \in Nat /\ DOMAIN stack = 1 .. Len(stack)
           /\ nodes \in Trees
           /\ \A k \in 0 .. 1 : Peek(k) # "bottom" =>
                 Len(stack) - k \in DOMAIN stack /\ stack[Len(stack) - k].sym = Peek(k)
           /\ \A k \in DOMAIN stack : /\ Placed(k) /\ stack[k] \in Symbol
                                      /\ stack[k].sym \in Openers \cup Following \cup {"expression"}
<1>1. stack \in Seq(Symbol) /\ nodes \in Trees
  BY DEF ParserTypes
<1>2. \A k \in 0 .. 1 : Peek(k) # "bottom" =>
          Len(stack) - k \in DOMAIN stack /\ stack[Len(stack) - k].sym = Peek(k)
  BY <1>1, PeekIs
<1>3. \A k \in DOMAIN stack : stack[k] \in Symbol
  BY <1>1
<1>4. \A k \in DOMAIN stack : stack[k].sym \in Openers \cup Following \cup {"expression"}
  BY <1>3 DEF Symbol
<1> QED BY <1>1, <1>2, <1>3, <1>4 DEF Shape

LEMMA OperandHandle ==
    ASSUME ParserTypes, Shape, NEW type \in {"LITERAL_EXPR", "IDENTIFIER_EXPR"},
           Peek(0) \in Operands, type = "LITERAL_EXPR" => Peek(0) = "literal",
           Reduce(1, type, NULL, stack[Len(stack)].value, <<>>)
    PROVE  \E n, node, P : Handle(n, node, P) /\ Reduced(n, node)
<1>1. /\ Len(stack) \in Nat /\ DOMAIN stack = 1 .. Len(stack) /\ nodes \in Trees
      /\ Len(stack) \in DOMAIN stack /\ stack[Len(stack)].sym \in Operands
      /\ stack[Len(stack)] \in Symbol /\ stack[Len(stack)].sym = Peek(0)
      /\ Placed(Len(stack))
  <2>1. Peek(0) # "bottom"
    BY DEF Operands
  <2> QED BY <2>1, TopIs
<1>2. PICK leaf, args : leaf = stack[Len(stack)].value /\ args = <<>>
  OBVIOUS
<1>3. leaf \in Names \cup LiteralType \cup {NULL}
  BY <1>1, <1>2 DEF Symbol
<1>4. args \in Seq(Nat) /\ Len(args) = Arity[type] /\ DOMAIN args = {}
  BY <1>2, ArityIs
<1>5. PICK node : node = [type |-> type, op |-> NULL, leaf |-> leaf, args |-> args]
  OBVIOUS
<1>6. OpFits(node) /\ ~OpenToTheRight(node) /\ ~Infix(node)
      /\ node.type \notin {"LOGICAL_NOT_EXPR", "CONDITIONAL_EXPR"}
  <2>1. type = "LITERAL_EXPR" => leaf \in LiteralType
    BY <1>1, <1>2 DEF Placed
  <2>2. node.type = type /\ node.leaf = leaf
    BY <1>5
  <2> QED BY <2>1, <2>2 DEF OpFits, OpenToTheRight, Infix
<1>7. type \in ExpressionType
  BY DEF ExpressionType
<1>8. /\ CanTake(nodes, node)
      /\ node.type = type /\ node.op = NULL /\ node.leaf = leaf /\ node.args = args
  <2>1. FitsTree(type, NULL, leaf, args)
    BY <1>3, <1>4, <1>7 DEF FitsTree
  <2> QED BY <1>5, <1>6, <2>1, NodeIs
<1>9. stack[Len(stack)].sym \notin Following \cup {"expression"}
  BY <1>1 DEF Operands, Following, BinaryOps, LogicalOps, RelationalOps, ArithmeticOps
<1>10. Handle(1, node, <<>>)
  <2>1. DOMAIN node.args = {} /\ 1 \in 1 .. Len(stack) /\ Len(stack) - 1 + 1 = Len(stack)
    BY <1>1, <1>4, <1>8
  <2>2. \A k \in Len(stack) - 1 + 1 .. Len(stack) : stack[k].sym # "expression"
    BY <1>1, <1>9
  <2>3. Spelled(1, node)
    BY <1>1, <1>2, <1>6, <1>8 DEF Spelled
  <2> QED BY <1>6, <1>8, <1>9, <2>1, <2>2, <2>3 DEF Handle
<1>11. Reduced(1, node)
  BY <1>2, <1>8, <1>10, HandleReduces
<1> QED BY <1>10, <1>11


\* What the operator on the stack, or the bracket, says of the symbols below it.
LEMMA InfixHandle ==
    ASSUME ParserTypes, Shape, ReducesBinary,
           NEW type \in {"ARITHMETIC_EXPR", "RELATIONAL_EXPR", "LOGICAL_EXPR"},
           type = "ARITHMETIC_EXPR" => Peek(1) \in ArithmeticOps,
           type = "RELATIONAL_EXPR" => Peek(1) \in RelationalOps,
           type = "LOGICAL_EXPR" => Peek(1) \in LogicalOps,
           Reduce(3, type, Peek(1), NULL, <<NodeAt(2), NodeAt(0)>>)
    PROVE  \E n, node, P : Handle(n, node, P) /\ Reduced(n, node)
<1> PICK L : L = Len(stack)
  OBVIOUS
<1>1. /\ L \in Nat /\ DOMAIN stack = 1 .. L /\ L \in DOMAIN stack /\ L - 1 \in DOMAIN stack
      /\ stack[L].sym = "expression" /\ stack[L - 1].sym = Peek(1) /\ Peek(1) \in BinaryOps
      /\ lookahead # NULL /\ Reduces(Peek(1), lookahead.sym)
  <2>1. Peek(0) = "expression" /\ Peek(1) \in BinaryOps /\ Peek(1) # "bottom" /\ Peek(0) # "bottom"
    BY DEF ReducesBinary, AfterExpression, BinaryOps, LogicalOps, RelationalOps, ArithmeticOps
  <2>2. L \in Nat /\ DOMAIN stack = 1 .. L /\ stack \in Seq(Symbol)
    BY TopIs
  <2>3. L - 1 \in DOMAIN stack /\ stack[L - 1].sym = Peek(1)
    BY <2>1, <2>2, PeekIs
  <2>4. L \in DOMAIN stack /\ stack[L].sym = "expression"
    BY <2>1, <2>2, PeekIs
  <2> QED BY <2>1, <2>2, <2>3, <2>4 DEF ReducesBinary
<1>2. /\ L > 2 /\ L - 2 \in DOMAIN stack /\ stack[L - 2].sym = "expression"
      /\ stack[L - 2].node \in DOMAIN nodes /\ stack[L].node \in DOMAIN nodes
  <2>1. L - 1 > 1 /\ stack[L - 1 - 1].sym = "expression"
    BY <1>1 DEF Shape, Placed, Following
  <2>2. L - 2 \in DOMAIN stack /\ stack[L - 2].sym = "expression"
    BY <1>1, <2>1
  <2>3. stack[L - 2].node \in DOMAIN nodes /\ stack[L].node \in DOMAIN nodes
    BY <1>1, <2>2 DEF Shape, Placed
  <2>4. L > 2
    BY <1>1, <2>1
  <2> QED BY <2>2, <2>3, <2>4
<1>3. PICK op, args : op = Peek(1) /\ args = <<NodeAt(2), NodeAt(0)>>
  OBVIOUS
<1>4. NodeAt(2) = stack[L - 2].node /\ NodeAt(0) = stack[L].node
  BY <1>1 DEF NodeAt
<1>5. DOMAIN nodes \subseteq Nat
  BY TopIs, TreeIs
<1>6. /\ args \in Seq(Nat) /\ Len(args) = 2 /\ DOMAIN args = {1, 2}
      /\ args[1] = stack[L - 2].node /\ args[2] = stack[L].node
  BY <1>2, <1>3, <1>4, <1>5
<1>7. PICK node : node = [type |-> type, op |-> op, leaf |-> NULL, args |-> args]
  OBVIOUS
<1>8. OpFits(node) /\ OpenToTheRight(node) /\ Infix(node)
      /\ node.type \notin {"LOGICAL_NOT_EXPR", "CONDITIONAL_EXPR"}
  BY <1>3, <1>7 DEF OpFits, OpenToTheRight, Infix
<1>9. FitsTree(type, op, NULL, args)
  BY <1>1, <1>2, <1>3, <1>6, ArityIs DEF FitsTree, ExpressionType
<1>10. /\ CanTake(nodes, node)
       /\ node.type = type /\ node.op = op /\ node.leaf = NULL /\ node.args = args
  BY <1>7, <1>8, <1>9, NodeIs
<1>11. PICK P : P[1] = L - 2 /\ P[2] = L
  <2>1. <<L - 2, L>>[1] = L - 2 /\ <<L - 2, L>>[2] = L
    OBVIOUS
  <2> QED BY <2>1
<1>12. Handle(3, node, P)
  <2>1. 3 \in 1 .. Len(stack) /\ Len(stack) - 3 + 1 = L - 2
    BY <1>1, <1>2
  <2>2. \A j \in DOMAIN node.args :
           /\ P[j] \in L - 2 .. L
           /\ stack[P[j]].sym = "expression" /\ stack[P[j]].node = node.args[j]
    BY <1>1, <1>2, <1>6, <1>10, <1>11
  <2>3. ASSUME NEW k \in L - 2 .. L, stack[k].sym = "expression"
        PROVE  \E j \in DOMAIN node.args : P[j] = k
    <3>1. k = L - 2 \/ k = L - 1 \/ k = L
      BY <1>1
    <3>2. "expression" \notin BinaryOps
      BY DEF BinaryOps, LogicalOps, RelationalOps, ArithmeticOps
    <3> QED BY <1>1, <1>6, <1>10, <1>11, <2>3, <3>1, <3>2
  <2>4. \A i, j \in DOMAIN node.args : P[i] = P[j] => i = j
    BY <1>1, <1>6, <1>10, <1>11
  <2>5. stack[L - 2].sym \notin Following
    BY <1>2 DEF Following, BinaryOps, LogicalOps, RelationalOps, ArithmeticOps
  <2>6. P[Len(node.args)] = Len(stack) /\ P[1] = Len(stack) - 2
        /\ stack[Len(stack) - 1].sym = node.op /\ node.op \in BinaryOps
        /\ lookahead # NULL /\ Reduces(node.op, lookahead.sym)
    BY <1>1, <1>3, <1>6, <1>10, <1>11
  <2>7. \A j \in DOMAIN node.args :
           /\ P[j] \in Len(stack) - 3 + 1 .. Len(stack)
           /\ stack[P[j]].sym = "expression" /\ stack[P[j]].node = node.args[j]
    BY <2>1, <2>2
  <2>8. \A k \in Len(stack) - 3 + 1 .. Len(stack) :
            stack[k].sym = "expression" => \E j \in DOMAIN node.args : P[j] = k
    BY <2>1, <2>3
  <2>9. stack[Len(stack) - 3 + 1].sym \notin Following
    BY <2>1, <2>5
  <2>10. Spelled(3, node)
    <3>1. node.type \notin {"LITERAL_EXPR", "IDENTIFIER_EXPR", "PARENTHESIZED_EXPR"}
      BY <1>10
    <3> QED BY <1>1, <1>2, <1>3, <1>6, <1>8, <1>10, <3>1 DEF Spelled, Expresses
  <2> QED BY <1>8, <1>10, <2>1, <2>4, <2>6, <2>7, <2>8, <2>9, <2>10, Zenon DEF Handle
<1>13. Reduced(3, node)
  BY <1>3, <1>10, <1>12, HandleReduces
<1> QED BY <1>12, <1>13


LEMMA NotHandle ==
    ASSUME ParserTypes, Shape, AfterExpression, Peek(1) = "OP_NOT",
           Reduce(2, "LOGICAL_NOT_EXPR", "OP_NOT", NULL, <<NodeAt(0)>>)
    PROVE  \E n, node, P : Handle(n, node, P) /\ Reduced(n, node)
<1> PICK L : L = Len(stack)
  OBVIOUS
<1>1. /\ L \in Nat /\ DOMAIN stack = 1 .. L /\ L \in DOMAIN stack /\ L - 1 \in DOMAIN stack
      /\ stack[L].sym = "expression" /\ stack[L - 1].sym = "OP_NOT"
      /\ stack[L].node \in DOMAIN nodes
  <2>1. Peek(0) = "expression" /\ Peek(1) # "bottom" /\ Peek(0) # "bottom"
    BY DEF AfterExpression
  <2>2. /\ L \in Nat /\ DOMAIN stack = 1 .. L /\ L \in DOMAIN stack /\ L - 1 \in DOMAIN stack
        /\ stack[L].sym = "expression" /\ stack[L - 1].sym = "OP_NOT"
    BY <2>1, TopIs
  <2> QED BY <2>2 DEF Shape, Placed
<1>3. PICK op, args : op = "OP_NOT" /\ args = <<NodeAt(0)>>
  OBVIOUS
<1>4. NodeAt(0) = stack[L].node
  BY <1>1 DEF NodeAt
<1>5. DOMAIN nodes \subseteq Nat
  BY TopIs, TreeIs
<1>6. args \in Seq(Nat) /\ Len(args) = 1 /\ DOMAIN args = {1} /\ args[1] = stack[L].node
  BY <1>1, <1>3, <1>4, <1>5
<1>7. PICK node : node = [type |-> "LOGICAL_NOT_EXPR", op |-> op, leaf |-> NULL, args |-> args]
  OBVIOUS
<1>8. OpFits(node) /\ OpenToTheRight(node) /\ ~Infix(node) /\ node.type = "LOGICAL_NOT_EXPR"
  BY <1>3, <1>7 DEF OpFits, OpenToTheRight, Infix
<1>9. FitsTree("LOGICAL_NOT_EXPR", op, NULL, args)
  BY <1>1, <1>3, <1>6, ArityIs DEF FitsTree, ExpressionType
<1>10. /\ CanTake(nodes, node)
       /\ node.type = "LOGICAL_NOT_EXPR" /\ node.op = op /\ node.leaf = NULL /\ node.args = args
  BY <1>7, <1>8, <1>9, NodeIs
<1>11. PICK P : P[1] = L
  <2>1. <<L>>[1] = L
    OBVIOUS
  <2> QED BY <2>1
<1>12. Handle(2, node, P)
  <2>1. 2 \in 1 .. Len(stack) /\ Len(stack) - 2 + 1 = L - 1
    BY <1>1
  <2>2. \A j \in DOMAIN node.args :
           /\ P[j] \in Len(stack) - 2 + 1 .. Len(stack)
           /\ stack[P[j]].sym = "expression" /\ stack[P[j]].node = node.args[j]
    BY <1>1, <1>6, <1>10, <1>11, <2>1
  <2>3. \A k \in Len(stack) - 2 + 1 .. Len(stack) :
            stack[k].sym = "expression" => \E j \in DOMAIN node.args : P[j] = k
    <3>1. \A k \in L - 1 .. L : stack[k].sym = "expression" => k = L
      BY <1>1
    <3> QED BY <1>6, <1>10, <1>11, <2>1, <3>1
  <2>4. \A i, j \in DOMAIN node.args : P[i] = P[j] => i = j
    BY <1>6, <1>10
  <2>5. stack[Len(stack) - 2 + 1].sym \notin Following
    BY <1>1, <2>1 DEF Following, BinaryOps, LogicalOps, RelationalOps, ArithmeticOps
  <2>6. P[Len(node.args)] = Len(stack) /\ stack[Len(stack) - 1].sym = "OP_NOT"
        /\ node.type # "CONDITIONAL_EXPR"
    BY <1>1, <1>6, <1>10, <1>11
  <2>7. Spelled(2, node)
    BY <1>1, <1>3, <1>6, <1>8, <1>10 DEF Spelled, Expresses
  <2> QED BY <1>8, <1>10, <2>1, <2>2, <2>3, <2>4, <2>5, <2>6, <2>7, Zenon DEF Handle
<1>13. Reduced(2, node)
  BY <1>3, <1>10, <1>12, HandleReduces
<1> QED BY <1>12, <1>13

LEMMA ParenthesizedHandle ==
    ASSUME ParserTypes, Shape, Peek(0) = "CLOSE_PAREN",
           Reduce(3, "PARENTHESIZED_EXPR", NULL, NULL, <<NodeAt(1)>>)
    PROVE  \E n, node, P : Handle(n, node, P) /\ Reduced(n, node)
<1> PICK L : L = Len(stack)
  OBVIOUS
<1>1. /\ L \in Nat /\ DOMAIN stack = 1 .. L /\ L \in DOMAIN stack /\ stack[L].sym = "CLOSE_PAREN"
  <2>1. Peek(0) # "bottom"
    OBVIOUS
  <2> QED BY <2>1, TopIs
<1>2. /\ L > 2 /\ L - 1 \in DOMAIN stack /\ L - 2 \in DOMAIN stack
      /\ stack[L - 1].sym = "expression" /\ stack[L - 2].sym = "OPEN_PAREN"
      /\ stack[L - 1].node \in DOMAIN nodes
  <2>1. L > 2 /\ stack[L - 1].sym = "expression" /\ stack[L - 2].sym = "OPEN_PAREN"
    BY <1>1 DEF Shape, Placed, Following
  <2>2. L - 1 \in DOMAIN stack /\ L - 2 \in DOMAIN stack
    BY <1>1, <2>1
  <2> QED BY <2>1, <2>2 DEF Shape, Placed
<1>3. PICK args : args = <<NodeAt(1)>>
  OBVIOUS
<1>4. NodeAt(1) = stack[L - 1].node
  BY <1>1 DEF NodeAt
<1>5. DOMAIN nodes \subseteq Nat
  BY TopIs, TreeIs
<1>6. args \in Seq(Nat) /\ Len(args) = 1 /\ DOMAIN args = {1} /\ args[1] = stack[L - 1].node
  BY <1>2, <1>3, <1>4, <1>5
<1>7. PICK node : node = [type |-> "PARENTHESIZED_EXPR", op |-> NULL, leaf |-> NULL, args |-> args]
  OBVIOUS
<1>8. OpFits(node) /\ ~OpenToTheRight(node) /\ ~Infix(node)
      /\ node.type \notin {"LOGICAL_NOT_EXPR", "CONDITIONAL_EXPR"}
  BY <1>7 DEF OpFits, OpenToTheRight, Infix
<1>9. FitsTree("PARENTHESIZED_EXPR", NULL, NULL, args)
  BY <1>2, <1>6, ArityIs DEF FitsTree, ExpressionType
<1>10. /\ CanTake(nodes, node)
       /\ node.type = "PARENTHESIZED_EXPR" /\ node.op = NULL /\ node.leaf = NULL /\ node.args = args
  BY <1>7, <1>8, <1>9, NodeIs
<1>11. PICK P : P[1] = L - 1
  <2>1. <<L - 1>>[1] = L - 1
    OBVIOUS
  <2> QED BY <2>1
<1>12. Handle(3, node, P)
  <2>1. 3 \in 1 .. Len(stack) /\ Len(stack) - 3 + 1 = L - 2
    BY <1>1, <1>2
  <2>2. \A j \in DOMAIN node.args :
           /\ P[j] \in Len(stack) - 3 + 1 .. Len(stack)
           /\ stack[P[j]].sym = "expression" /\ stack[P[j]].node = node.args[j]
    BY <1>1, <1>2, <1>6, <1>10, <1>11, <2>1
  <2>3. \A k \in Len(stack) - 3 + 1 .. Len(stack) :
            stack[k].sym = "expression" => \E j \in DOMAIN node.args : P[j] = k
    <3>1. \A k \in L - 2 .. L : k = L - 2 \/ k = L - 1 \/ k = L
      BY <1>1
    <3>2. \A k \in L - 2 .. L : stack[k].sym = "expression" => k = L - 1
      BY <1>1, <1>2, <3>1
    <3> QED BY <1>6, <1>10, <1>11, <2>1, <3>2
  <2>4. \A i, j \in DOMAIN node.args : P[i] = P[j] => i = j
    BY <1>6, <1>10
  <2>5. stack[Len(stack) - 3 + 1].sym \notin Following
    BY <1>2, <2>1 DEF Following, BinaryOps, LogicalOps, RelationalOps, ArithmeticOps
  <2>6. Spelled(3, node)
    BY <1>1, <1>2, <1>6, <1>8, <1>10 DEF Spelled, Expresses
  <2> QED BY <1>8, <1>10, <2>1, <2>2, <2>3, <2>4, <2>5, <2>6, Zenon DEF Handle
<1>13. Reduced(3, node)
  BY <1>3, <1>10, <1>12, HandleReduces
<1> QED BY <1>12, <1>13

LEMMA ConditionalHandle ==
    ASSUME ParserTypes, Shape, ReducesConditional,
           Reduce(6, "CONDITIONAL_EXPR", NULL, NULL, <<NodeAt(4), NodeAt(2), NodeAt(0)>>)
    PROVE  \E n, node, P : Handle(n, node, P) /\ Reduced(n, node)
<1> PICK L : L = Len(stack)
  OBVIOUS
<1>1. /\ L \in Nat /\ DOMAIN stack = 1 .. L /\ L \in DOMAIN stack /\ L - 1 \in DOMAIN stack
      /\ stack[L].sym = "expression" /\ stack[L - 1].sym = "OTHERWISE"
      /\ lookahead # NULL /\ lookahead.sym \notin BinaryOps
  <2>1. /\ Peek(0) = "expression" /\ Peek(1) = "OTHERWISE" /\ Peek(1) # "bottom" /\ Peek(0) # "bottom"
        /\ lookahead # NULL /\ lookahead.sym \notin BinaryOps
    BY DEF AfterExpression, ReducesConditional
  <2> QED BY <2>1, TopIs
<1>2. /\ L > 5 /\ L - 2 \in DOMAIN stack /\ L - 3 \in DOMAIN stack /\ L - 4 \in DOMAIN stack
      /\ L - 5 \in DOMAIN stack
      /\ stack[L - 2].sym = "expression" /\ stack[L - 3].sym = "THEN"
      /\ stack[L - 4].sym = "expression" /\ stack[L - 5].sym = "IF"
  <2>1. L - 1 > 2 /\ stack[L - 1 - 1].sym = "expression" /\ stack[L - 1 - 2].sym = "THEN"
    BY <1>1 DEF Shape, Placed, Following
  <2>2. L - 3 \in DOMAIN stack /\ L - 2 \in DOMAIN stack /\ L - 1 - 1 = L - 2 /\ L - 1 - 2 = L - 3
    BY <1>1, <2>1
  <2>3. L - 3 > 2 /\ stack[L - 3 - 1].sym = "expression" /\ stack[L - 3 - 2].sym = "IF"
    BY <2>1, <2>2 DEF Shape, Placed, Following
  <2>4. L - 3 - 1 = L - 4 /\ L - 3 - 2 = L - 5 /\ L - 4 \in DOMAIN stack /\ L - 5 \in DOMAIN stack
        /\ L > 5
    BY <1>1, <2>3
  <2> QED BY <2>1, <2>2, <2>3, <2>4
<1> DEFINE at == <<L - 4, L - 2, L>>
<1>0. stack[L - 4].node \in DOMAIN nodes /\ stack[L - 2].node \in DOMAIN nodes
      /\ stack[L].node \in DOMAIN nodes
  BY <1>1, <1>2 DEF Shape, Placed
<1>3. PICK args : args = <<NodeAt(4), NodeAt(2), NodeAt(0)>>
  OBVIOUS
<1>4. NodeAt(4) = stack[L - 4].node /\ NodeAt(2) = stack[L - 2].node /\ NodeAt(0) = stack[L].node
  BY <1>1 DEF NodeAt
<1>5. DOMAIN nodes \subseteq Nat
  BY TopIs, TreeIs
<1>6. /\ args \in Seq(Nat) /\ Len(args) = 3 /\ DOMAIN args = {1, 2, 3}
      /\ args[1] = stack[L - 4].node /\ args[2] = stack[L - 2].node /\ args[3] = stack[L].node
  BY <1>0, <1>3, <1>4, <1>5
<1>7. PICK node : node = [type |-> "CONDITIONAL_EXPR", op |-> NULL, leaf |-> NULL, args |-> args]
  OBVIOUS
<1>8. OpFits(node) /\ OpenToTheRight(node) /\ ~Infix(node) /\ node.type = "CONDITIONAL_EXPR"
  BY <1>7 DEF OpFits, OpenToTheRight, Infix
<1>9. FitsTree("CONDITIONAL_EXPR", NULL, NULL, args)
  BY <1>0, <1>6, ArityIs DEF FitsTree, ExpressionType
<1>10. /\ CanTake(nodes, node)
       /\ node.type = "CONDITIONAL_EXPR" /\ node.op = NULL /\ node.leaf = NULL /\ node.args = args
  BY <1>7, <1>8, <1>9, NodeIs
<1>11. PICK P : P[1] = L - 4 /\ P[2] = L - 2 /\ P[3] = L
  <2>1. at[1] = L - 4 /\ at[2] = L - 2 /\ at[3] = L
    OBVIOUS
  <2> QED BY <2>1
<1>12. Handle(6, node, P)
  <2>1. 6 \in 1 .. Len(stack) /\ Len(stack) - 6 + 1 = L - 5
    BY <1>1, <1>2
  <2>2. \A j \in DOMAIN node.args :
           /\ P[j] \in L - 5 .. L
           /\ stack[P[j]].sym = "expression" /\ stack[P[j]].node = node.args[j]
    <3>1. P[1] \in L - 5 .. L /\ P[2] \in L - 5 .. L /\ P[3] \in L - 5 .. L
      BY <1>1, <1>11
    <3>2. \A j \in DOMAIN node.args : j = 1 \/ j = 2 \/ j = 3
      BY <1>6, <1>10
    <3>3. /\ stack[P[1]].sym = "expression" /\ stack[P[1]].node = args[1]
          /\ stack[P[2]].sym = "expression" /\ stack[P[2]].node = args[2]
          /\ stack[P[3]].sym = "expression" /\ stack[P[3]].node = args[3]
      BY <1>1, <1>2, <1>6, <1>11
    <3> QED BY <1>10, <3>1, <3>2, <3>3
  <2>3. \A k \in L - 5 .. L :
            stack[k].sym = "expression" => \E j \in DOMAIN node.args : P[j] = k
    <3>1. \A k \in L - 5 .. L :
              k = L - 5 \/ k = L - 4 \/ k = L - 3 \/ k = L - 2 \/ k = L - 1 \/ k = L
      BY <1>1
    <3>2. \A k \in L - 5 .. L : stack[k].sym = "expression" => k \in {L - 4, L - 2, L}
      BY <1>1, <1>2, <3>1
    <3> QED BY <1>6, <1>10, <1>11, <3>2
  <2>4. \A i, j \in DOMAIN node.args : P[i] = P[j] => i = j
    BY <1>1, <1>6, <1>10, <1>11
  <2>5. stack[Len(stack) - 6 + 1].sym \notin Following
    BY <1>2, <2>1 DEF Following, BinaryOps, LogicalOps, RelationalOps, ArithmeticOps
  <2>6. P[Len(node.args)] = Len(stack) /\ node.type # "LOGICAL_NOT_EXPR"
    BY <1>6, <1>10, <1>11
  <2>7. \A j \in DOMAIN node.args :
           /\ P[j] \in Len(stack) - 6 + 1 .. Len(stack)
           /\ stack[P[j]].sym = "expression" /\ stack[P[j]].node = node.args[j]
    BY <2>1, <2>2
  <2>8. \A k \in Len(stack) - 6 + 1 .. Len(stack) :
            stack[k].sym = "expression" => \E j \in DOMAIN node.args : P[j] = k
    BY <2>1, <2>3
  <2>9. lookahead # NULL /\ lookahead.sym \notin BinaryOps
    BY <1>1
  <2>10. Spelled(6, node)
    BY <1>1, <1>2, <1>6, <1>8, <1>10 DEF Spelled, Expresses
  <2> QED BY <1>8, <1>10, <2>1, <2>4, <2>5, <2>6, <2>7, <2>8, <2>9, <2>10, Zenon DEF Handle
<1>13. Reduced(6, node)
  BY <1>3, <1>10, <1>12, HandleReduces
<1> QED BY <1>12, <1>13


-----------------------------------------------------------------------------
(* The steps                                                               *)

SemanticAction ==
    \/ LiteralExpressionSemanticAction \/ IdentifierExpressionSemanticAction
    \/ ArithmeticExpressionSemanticAction \/ RelationalExpressionSemanticAction
    \/ LogicalExpressionSemanticAction \/ LogicalNotExpressionSemanticAction
    \/ ConditionalExpressionSemanticAction \/ ParenthesizedExpressionSemanticAction

LEMMA ActionsReduce ==
    ASSUME ParserTypes, Shape, SemanticAction
    PROVE  \E n, node, P : Handle(n, node, P) /\ Reduced(n, node)
<1>1. CASE LiteralExpressionSemanticAction
  BY <1>1, OperandHandle DEF LiteralExpressionSemanticAction, Operands
<1>2. CASE IdentifierExpressionSemanticAction
  BY <1>2, OperandHandle DEF IdentifierExpressionSemanticAction, Operands
<1> DEFINE Infixes == {"ARITHMETIC_EXPR", "RELATIONAL_EXPR", "LOGICAL_EXPR"}
<1>0. /\ "ARITHMETIC_EXPR" \in Infixes /\ "RELATIONAL_EXPR" \in Infixes /\ "LOGICAL_EXPR" \in Infixes
      /\ "ARITHMETIC_EXPR" # "RELATIONAL_EXPR" /\ "ARITHMETIC_EXPR" # "LOGICAL_EXPR"
      /\ "RELATIONAL_EXPR" # "LOGICAL_EXPR"
  OBVIOUS
<1>3. CASE ArithmeticExpressionSemanticAction
  BY <1>0, <1>3, InfixHandle DEF ArithmeticExpressionSemanticAction
<1>4. CASE RelationalExpressionSemanticAction
  BY <1>0, <1>4, InfixHandle DEF RelationalExpressionSemanticAction
<1>5. CASE LogicalExpressionSemanticAction
  BY <1>0, <1>5, InfixHandle DEF LogicalExpressionSemanticAction
<1>6. CASE LogicalNotExpressionSemanticAction
  BY <1>6, NotHandle DEF LogicalNotExpressionSemanticAction
<1>7. CASE ConditionalExpressionSemanticAction
  BY <1>7, ConditionalHandle DEF ConditionalExpressionSemanticAction
<1>8. CASE ParenthesizedExpressionSemanticAction
  BY <1>8, ParenthesizedHandle DEF ParenthesizedExpressionSemanticAction
<1> QED BY <1>1, <1>2, <1>3, <1>4, <1>5, <1>6, <1>7, <1>8 DEF SemanticAction

\* The token that is shifted goes on top of what waits for it.
LEMMA ShiftIs ==
    ASSUME ParserTypes, Shape, shift, NEW top, top = Len(stack) + 1
    PROVE  /\ stack \in Seq(Symbol) /\ Len(stack) \in Nat /\ DOMAIN stack = 1 .. Len(stack)
           /\ stack' \in Seq(Symbol) /\ Len(stack') = top /\ DOMAIN stack' = 1 .. top
           /\ \A k \in DOMAIN stack : stack'[k] = stack[k]
           /\ stack'[top].sym = lookahead.sym /\ stack'[top].value = lookahead.value
           /\ lookahead # NULL /\ lookahead \in Token /\ lookahead' = NULL /\ status = "parsing"
           /\ UNCHANGED <<vocabulary, nodes, freed, status>>
           /\ lookahead.sym \in Openers \cup Following
<1>1. /\ stack \in Seq(Symbol) /\ Len(stack) \in Nat /\ DOMAIN stack = 1 .. Len(stack)
      /\ lookahead # NULL /\ lookahead \in Token \cup {End} /\ lookahead' = NULL
      /\ status = "parsing" /\ UNCHANGED <<vocabulary, nodes, freed, status>>
  BY DEF ParserTypes, shift
<1>2. lookahead.sym \in Openers \cup Following
  BY DEF shift, Shiftable, Following
<1>7. lookahead # End
  <2>1. "END" \notin Openers \cup Following
    BY DEF Openers, Operands, Following, BinaryOps, LogicalOps, RelationalOps, ArithmeticOps
  <2> QED BY <1>2, <2>1 DEF End
<1> DEFINE s == [sym |-> lookahead.sym, value |-> lookahead.value, node |-> 0]
<1>3. stack' = Append(stack, s)
  BY DEF shift
<1>4. lookahead.value \in Names \cup LiteralType \cup {NULL}
  BY <1>1, <1>7 DEF Token
<1>5. s \in Symbol /\ s.sym = lookahead.sym /\ s.value = lookahead.value
  BY <1>2, <1>4 DEF Symbol
<1> HIDE DEF s
<1>6. /\ stack' \in Seq(Symbol) /\ Len(stack') = top /\ DOMAIN stack' = 1 .. top
      /\ \A k \in DOMAIN stack : stack'[k] = stack[k]
      /\ stack'[top] = s
  BY <1>1, <1>3, <1>5
<1> QED BY <1>1, <1>2, <1>5, <1>6, <1>7

LEMMA ShiftKeepsShape ==
    ASSUME ParserTypes, Shape, shift
    PROVE  ParserTypes' /\ Shape'
<1> PICK L, top : L = Len(stack) /\ top = L + 1
  OBVIOUS
<1>1. /\ stack \in Seq(Symbol) /\ L \in Nat /\ DOMAIN stack = 1 .. L
      /\ stack' \in Seq(Symbol) /\ Len(stack') = top /\ DOMAIN stack' = 1 .. top
      /\ \A k \in DOMAIN stack : stack'[k] = stack[k]
      /\ stack'[top].sym = lookahead.sym /\ stack'[top].value = lookahead.value
      /\ lookahead # NULL /\ lookahead \in Token /\ lookahead' = NULL /\ status = "parsing"
      /\ UNCHANGED <<vocabulary, nodes, freed, status>>
      /\ lookahead.sym \in Openers \cup Following
  BY ShiftIs
<1>2. ParserTypes'
  BY <1>1 DEF ParserTypes
<1>3. /\ ~(Peek(0) \in Operands \cup {"CLOSE_PAREN"})
      /\ ~(AfterExpression /\ Peek(1) = "OP_NOT")
      /\ Shiftable(lookahead.sym)
  BY DEF shift, Reduction
<1>4. /\ L > 0 => Peek(0) = stack[L].sym
      /\ L > 1 => Peek(1) = stack[L - 1].sym
      /\ L = 0 => Peek(0) = "bottom"
      /\ ~(L > 1) => Peek(1) = "bottom"
  BY <1>1 DEF Peek
<1>5. ASSUME NEW k \in 1 .. L PROVE Placed(k)'
  <2>1. /\ k \in DOMAIN stack /\ stack'[k] = stack[k]
        /\ k > 1 => stack'[k - 1] = stack[k - 1]
        /\ k > 2 => stack'[k - 2] = stack[k - 2]
    BY <1>1
  <2>2. Placed(k)
    BY <2>1 DEF Shape
  <2>3. /\ stack[k].sym \notin Operands \cup {"CLOSE_PAREN"}
        /\ k > 1 /\ stack[k].sym = "expression" => stack[k - 1].sym # "OP_NOT"
    <3>1. CASE k < L
      BY <2>2, <3>1 DEF Placed
    <3>2. CASE k = L
      BY <1>1, <1>3, <1>4, <3>2 DEF AfterExpression
    <3> QED BY <1>1, <3>1, <3>2
  <2> QED BY <1>1, <2>1, <2>2, <2>3 DEF Placed
<1>6. Placed(top)'
  <2>1. /\ lookahead.sym = "IDENTIFIER" => lookahead.value \in Names
        /\ lookahead.sym = "literal" => lookahead.value \in LiteralType
        /\ lookahead.sym \notin Operands => lookahead.value = NULL
    BY <1>1 DEF Token, Operands
  <2>2. lookahead.sym # "expression"
    BY <1>1 DEF Openers, Operands, Following, BinaryOps, LogicalOps, RelationalOps, ArithmeticOps
  <2>3. "bottom" # "expression" /\ Following \cap Openers = {}
    BY DEF Openers, Operands, Following, BinaryOps, LogicalOps, RelationalOps, ArithmeticOps
  <2>4. lookahead.sym \in Following => L > 0 /\ stack[L].sym = "expression"
    BY <1>1, <1>3, <1>4, <2>3 DEF Shiftable, AfterExpression
  <2>5. /\ lookahead.sym = "CLOSE_PAREN" => L > 1 /\ stack[L - 1].sym = "OPEN_PAREN"
        /\ lookahead.sym = "THEN" => L > 1 /\ stack[L - 1].sym = "IF"
        /\ lookahead.sym = "OTHERWISE" => L > 1 /\ stack[L - 1].sym = "THEN"
    <3> DEFINE Allowed == {<<"OPEN_PAREN", "CLOSE_PAREN">>, <<"IF", "THEN">>, <<"THEN", "OTHERWISE">>}
    <3> SUFFICES ASSUME lookahead.sym \in {"CLOSE_PAREN", "THEN", "OTHERWISE"}
                 PROVE  /\ lookahead.sym = "CLOSE_PAREN" => L > 1 /\ stack[L - 1].sym = "OPEN_PAREN"
                        /\ lookahead.sym = "THEN" => L > 1 /\ stack[L - 1].sym = "IF"
                        /\ lookahead.sym = "OTHERWISE" => L > 1 /\ stack[L - 1].sym = "THEN"
      OBVIOUS
    <3>1. lookahead.sym \notin BinaryOps \cup Openers
      BY DEF BinaryOps, LogicalOps, RelationalOps, ArithmeticOps, Openers, Operands
    <3>2. <<Peek(1), lookahead.sym>> \in Allowed
      BY <1>3, <3>1 DEF Shiftable
    <3>3. /\ lookahead.sym = "CLOSE_PAREN" => Peek(1) = "OPEN_PAREN"
          /\ lookahead.sym = "THEN" => Peek(1) = "IF"
          /\ lookahead.sym = "OTHERWISE" => Peek(1) = "THEN"
      BY <3>2
    <3> QED BY <1>4, <3>3
  <2>6. lookahead.sym \notin Following /\ L > 0 => stack[L].sym \in Waiting
    <3> SUFFICES ASSUME lookahead.sym \notin Following, L > 0 PROVE stack[L].sym \in Waiting
      OBVIOUS
    <3>1. stack[L].sym # "expression"
      <4> SUFFICES ASSUME AfterExpression PROVE FALSE
        BY <1>4 DEF AfterExpression
      <4>1. lookahead.sym \in BinaryOps \cup {"CLOSE_PAREN", "THEN", "OTHERWISE"}
        BY <1>3 DEF Shiftable
      <4> QED BY <4>1 DEF Following
    <3>2. stack[L].sym \notin Operands \cup {"CLOSE_PAREN"}
      BY <1>3, <1>4
    <3>3. stack[L].sym \in Openers \cup Following \cup {"expression"}
      BY <1>1, TopIs
    <3> QED BY <3>1, <3>2, <3>3 DEF Waiting, Openers, Following
  <2>7. /\ top > 1 <=> L > 0
        /\ top > 2 <=> L > 1
        /\ L > 0 => stack'[top - 1] = stack[L]
        /\ L > 1 => stack'[top - 2] = stack[L - 1]
        /\ ~(top < Len(stack'))
    BY <1>1
  <2> QED BY <1>1, <2>1, <2>2, <2>4, <2>5, <2>6, <2>7 DEF Placed
<1> QED BY <1>1, <1>2, <1>5, <1>6 DEF Shape


\* What ends at an operator binds tighter than it.
LEMMA ReducesBindsTighter ==
    ASSUME NEW op \in BinaryOps, NEW next \in BinaryOps, Reduces(op, next), NEW node, node.op = op
    PROVE  BindsTighter(node, next)
<1>1. /\ Level(op) \in 1 .. 5 /\ Level(next) \in 1 .. 5
      /\ precedence(op) = Level(op) + 2 /\ precedence(next) = Level(next) + 2
  BY LevelIsPrecedence
<1>2. CASE precedence(next) < precedence(op)
  BY <1>1, <1>2 DEF BindsTighter
<1>3. CASE precedence(next) = precedence(op) /\ op \notin RelationalOps
  <2>1. Level(op) = Level(next)
    BY <1>1, <1>3
  <2>2. next \notin RelationalOps
    BY <1>3, <2>1, LevelIsOneKind
  <2> QED BY <2>1, <2>2 DEF BindsTighter
<1> QED BY <1>2, <1>3 DEF Reduces

LEMMA ShiftKeepsPrecedence ==
    ASSUME PrecedenceInv, shift
    PROVE  PrecedenceInv'
<1> PICK L, top : L = Len(stack) /\ top = L + 1
  OBVIOUS
<1>0. ParserTypes /\ Shape /\ (\A k \in DOMAIN stack : Ranked(k)) /\ Closing /\ PrecedenceRespected
  BY DEF PrecedenceInv
<1>1. /\ stack \in Seq(Symbol) /\ L \in Nat /\ DOMAIN stack = 1 .. L
      /\ Len(stack') = top /\ DOMAIN stack' = 1 .. top
      /\ \A k \in DOMAIN stack : stack'[k] = stack[k]
      /\ stack'[top].sym = lookahead.sym
      /\ lookahead # NULL /\ lookahead' = NULL /\ status = "parsing"
      /\ nodes' = nodes /\ status' = status
      /\ lookahead.sym \in Openers \cup Following
  BY <1>0, ShiftIs
<1>2. ParserTypes' /\ Shape'
  BY <1>0, ShiftKeepsShape
<1>3. nodes \in Trees
  BY <1>0 DEF ParserTypes
<1>4. ASSUME NEW k \in 1 .. L PROVE Ranked(k)'
  <2>1. /\ k \in DOMAIN stack /\ stack'[k] = stack[k]
        /\ k > 1 => stack'[k - 1] = stack[k - 1]
        /\ k > 2 => stack'[k - 2] = stack[k - 2]
    BY <1>1
  <2>2. Ranked(k) /\ Placed(k)
    BY <1>0, <2>1 DEF Shape
  <2>3. stack[k].sym \in BinaryOps => k > 1
    BY <2>2 DEF Placed, Following
  <2> QED BY <1>1, <2>1, <2>2, <2>3 DEF Ranked
<1>5. lookahead.sym # "expression" /\ "expression" \notin BinaryOps
  BY <1>1 DEF Openers, Operands, Following, BinaryOps, LogicalOps, RelationalOps, ArithmeticOps
<1>6. Shiftable(lookahead.sym)
  BY DEF shift
<1>7. ASSUME lookahead.sym \in BinaryOps
      PROVE  /\ L > 0 /\ RightIs(nodes, stack[L].node, lookahead.sym)
             /\ L > 1 /\ stack[L - 1].sym \in BinaryOps =>
                   Level(lookahead.sym) > Level(stack[L - 1].sym)
  <2>1. AfterExpression
    BY <1>6, <1>7 DEF Shiftable, Openers, Operands, BinaryOps, LogicalOps, RelationalOps,
                      ArithmeticOps
  <2>2. L > 0 /\ stack[L].sym = "expression" /\ NodeAt(0) = stack[L].node
    BY <1>1, <2>1 DEF AfterExpression, Peek, NodeAt
  <2>3. stack[L].node \in DOMAIN nodes
    BY <1>0, <1>1, <2>2 DEF Shape, Placed
  <2>4. ASSUME NEW j \in RightEdges(nodes)[stack[L].node]
        PROVE  /\ nodes[j].type # "CONDITIONAL_EXPR"
               /\ Infix(nodes[j]) => BindsTighter(nodes[j], lookahead.sym)
    <3>1. /\ Infix(nodes[j]) => Reduces(nodes[j].op, lookahead.sym)
          /\ nodes[j].type # "CONDITIONAL_EXPR"
      BY <1>0, <1>1, <1>7, <2>1, <2>2 DEF Closing
    <3>2. j \in DOMAIN nodes
      BY <1>3, <2>3, RightEdgesAre
    <3>3. Infix(nodes[j]) => nodes[j].op \in BinaryOps
      BY <1>3, <3>2, OperandsAre DEF OpFits, Infix, BinaryOps
    <3> QED BY <1>7, <3>1, <3>3, ReducesBindsTighter
  <2>5. ASSUME L > 1, stack[L - 1].sym \in BinaryOps
        PROVE  Level(lookahead.sym) > Level(stack[L - 1].sym)
    <3>1. Peek(1) = stack[L - 1].sym
      BY <1>1, <2>5 DEF Peek
    <3>2. precedence(lookahead.sym) > precedence(stack[L - 1].sym)
      <4> DEFINE Pairs == {<<"OPEN_PAREN", "CLOSE_PAREN">>, <<"IF", "THEN">>, <<"THEN", "OTHERWISE">>}
      <4>1. <<Peek(1), lookahead.sym>> \notin Pairs
        BY <1>7 DEF BinaryOps, LogicalOps, RelationalOps, ArithmeticOps
      <4>2. AfterExpression /\ lookahead.sym \in BinaryOps /\ Shiftable(lookahead.sym)
        BY <1>6, <1>7, <2>1, <2>5
      <4> QED BY <2>1, <2>5, <3>1, <4>1, <4>2 DEF Shiftable
    <3> QED BY <1>7, <2>5, <3>2, LevelIsPrecedence
  <2> QED BY <2>2, <2>4, <2>5 DEF RightIs
<1>8. Ranked(top)'
  <2>1. /\ top > 1 => stack'[top - 1] = stack[L]
        /\ top > 2 => stack'[top - 2] = stack[L - 1] /\ L > 1
    BY <1>1
  <2>2. stack'[top].sym = lookahead.sym /\ nodes' = nodes
    BY <1>1
  <2>3. lookahead.sym # "expression"
    BY <1>5
  <2>4. lookahead.sym \in BinaryOps /\ top > 2 /\ stack'[top - 2].sym \in BinaryOps =>
            Level(lookahead.sym) > Level(stack'[top - 2].sym)
    BY <1>7, <2>1
  <2>5. lookahead.sym \in BinaryOps => RightIs(nodes, stack'[top - 1].node, lookahead.sym)
    BY <1>7, <2>1, <2>2
  <2>6. lookahead.sym \in BinaryOps =>
            RightIs(nodes', stack'[top - 1].node, stack'[top].sym)
    BY <2>2, <2>5
  <2> QED BY <2>2, <2>3, <2>4, <2>6 DEF Ranked
<1>9. Closing'
  <2>1. Peek(0)' = lookahead.sym
    BY <1>1 DEF Peek
  <2> QED BY <1>5, <2>1 DEF Closing, AfterExpression
<1>10. PrecedenceRespected'
  BY <1>0, <1>1 DEF PrecedenceRespected
<1>11. (\A k \in DOMAIN stack : Ranked(k))'
  BY <1>1, <1>4, <1>8
<1> QED BY <1>2, <1>9, <1>10, <1>11 DEF PrecedenceInv


\* The steps that leave the stack and the tree alone.
Idle == pushToken \/ AssertionSemanticAction \/ syntaxError \/ abort \/ UNCHANGED vars

LEMMA IdleIs ==
    ASSUME Idle
    PROVE  /\ UNCHANGED <<vocabulary, stack, nodes, freed>>
           /\ status' = "parsing" => status = "parsing"
           /\ lookahead' # lookahead => lookahead = NULL /\ status' = status
BY DEF Idle, pushToken, AssertionSemanticAction, syntaxError, abort, vars

LEMMA IdleKeepsShape ==
    ASSUME ParserAssumption, ParserTypes, Shape, Idle
    PROVE  ParserTypes' /\ Shape'
<1>1. UNCHANGED <<vocabulary, stack, nodes, freed>>
  BY IdleIs
<1>2. status' \in Statuses
  BY DEF Idle, ParserTypes, Statuses, pushToken, AssertionSemanticAction, syntaxError, abort, vars
<1>3. lookahead' # NULL => lookahead' \in Token \cup {End}
  <2>1. CASE pushToken
    <3>1. PICK t \in vocabulary.tokens \cup {End} : lookahead' = t
      BY <2>1 DEF pushToken
    <3>2. vocabulary \in Vocabularies
      BY DEF ParserTypes
    <3>3. \A t1 \in vocabulary.tokens : t1 \in Token
      BY <3>2 DEF ParserAssumption
    <3> QED BY <3>1, <3>3
  <2>2. CASE AssertionSemanticAction \/ syntaxError \/ abort \/ UNCHANGED vars
    BY <2>2 DEF AssertionSemanticAction, syntaxError, abort, vars, ParserTypes
  <2> QED BY <2>1, <2>2 DEF Idle
<1>4. ParserTypes'
  BY <1>1, <1>2, <1>3 DEF ParserTypes
<1>5. Shape'
  BY <1>1 DEF Shape, Placed
<1> QED BY <1>4, <1>5

LEMMA IdleKeepsPrecedence ==
    ASSUME ParserAssumption, PrecedenceInv, Idle
    PROVE  PrecedenceInv'
<1>1. /\ UNCHANGED <<vocabulary, stack, nodes, freed>>
      /\ status' = "parsing" => status = "parsing"
      /\ lookahead' # lookahead => lookahead = NULL
  BY IdleIs
<1>2. ParserTypes' /\ Shape'
  BY IdleKeepsShape DEF PrecedenceInv
<1>3. (\A k \in DOMAIN stack : Ranked(k))'
  BY <1>1 DEF PrecedenceInv, Ranked
<1>4. PrecedenceRespected'
  BY <1>1 DEF PrecedenceInv, PrecedenceRespected
<1>5. Closing'
  <2> SUFFICES ASSUME (status = "parsing" /\ AfterExpression)', NEW j \in RightEdges(nodes)[NodeAt(0)]
               PROVE  /\ Infix(nodes[j]) => lookahead' # NULL /\ Reduces(nodes[j].op, lookahead'.sym)
                      /\ nodes[j].type = "CONDITIONAL_EXPR" =>
                            lookahead' # NULL /\ lookahead'.sym \notin BinaryOps
    BY <1>1 DEF Closing, NodeAt
  <2>1. status = "parsing" /\ AfterExpression
    BY <1>1 DEF AfterExpression, Peek
  <2>2. /\ Infix(nodes[j]) => lookahead # NULL /\ Reduces(nodes[j].op, lookahead.sym)
        /\ nodes[j].type = "CONDITIONAL_EXPR" => lookahead # NULL /\ lookahead.sym \notin BinaryOps
    BY <2>1 DEF PrecedenceInv, Closing
  <2> QED BY <1>1, <2>2
<1> QED BY <1>2, <1>3, <1>4, <1>5 DEF PrecedenceInv

\* A symbol that is popped leaves those below it as they were.
LEMMA DiscardIs ==
    ASSUME ParserTypes, discardSymbol
    PROVE  /\ stack \in Seq(Symbol) /\ Len(stack) \in Nat \ {0} /\ DOMAIN stack = 1 .. Len(stack)
           /\ stack' \in Seq(Symbol) /\ Len(stack') = Len(stack) - 1
           /\ DOMAIN stack' = 1 .. Len(stack) - 1
           /\ \A k \in DOMAIN stack' : stack'[k] = stack[k]
           /\ status = "discarding" /\ UNCHANGED <<vocabulary, tokens, lookahead, nodes, status>>
           /\ AfterExpression <=> stack[Len(stack)].sym = "expression"
           /\ NodeAt(0) = stack[Len(stack)].node
<1>1. /\ stack \in Seq(Symbol) /\ stack # <<>> /\ stack' = Under(1) /\ status = "discarding"
      /\ UNCHANGED <<vocabulary, tokens, lookahead, nodes, status>>
  BY DEF ParserTypes, discardSymbol
<1>2. Len(stack) \in Nat \ {0} /\ DOMAIN stack = 1 .. Len(stack)
  BY <1>1
<1>3. /\ stack' \in Seq(Symbol) /\ Len(stack') = Len(stack) - 1
      /\ \A k \in 1 .. Len(stack) - 1 : stack'[k] = stack[k]
  <2>1. 1 \in Nat /\ 1 <= Len(stack)
    BY <1>2
  <2>2. /\ Under(1) \in Seq(Symbol) /\ Len(Under(1)) = Len(stack) - 1
        /\ \A k \in 1 .. Len(stack) - 1 : Under(1)[k] = stack[k]
    BY <1>1, <2>1, UnderIs
  <2> QED BY <1>1, <2>2
<1>4. DOMAIN stack' = 1 .. Len(stack) - 1
  BY <1>3
<1>5. /\ AfterExpression <=> stack[Len(stack)].sym = "expression"
      /\ NodeAt(0) = stack[Len(stack)].node
  BY <1>2 DEF AfterExpression, Peek, NodeAt
<1> QED BY <1>1, <1>2, <1>3, <1>4, <1>5

LEMMA DiscardKeepsShape ==
    ASSUME ParserTypes, Shape, discardSymbol
    PROVE  ParserTypes' /\ Shape'
<1>1. /\ Len(stack) \in Nat \ {0} /\ DOMAIN stack = 1 .. Len(stack)
      /\ stack' \in Seq(Symbol) /\ Len(stack') = Len(stack) - 1
      /\ DOMAIN stack' = 1 .. Len(stack) - 1
      /\ \A k \in DOMAIN stack' : stack'[k] = stack[k]
      /\ UNCHANGED <<vocabulary, tokens, lookahead, nodes, status>>
  BY DiscardIs
<1>2. freed' \in Seq(Nat) /\ Len(freed') = Len(freed)
  <2>1. freed \in Seq(Nat) /\ DOMAIN freed = 1 .. Len(freed) /\ Len(freed) \in Nat
    BY DEF ParserTypes
  <2> DEFINE more == [i \in DOMAIN freed |->
                         IF i \in destroyExpression(nodes, NodeAt(0)) THEN freed[i] + 1 ELSE freed[i]]
  <2>2. more \in Seq(Nat) /\ Len(more) = Len(freed)
    BY <2>1
  <2> QED BY <2>1, <2>2 DEF discardSymbol
<1>3. ParserTypes'
  BY <1>1, <1>2 DEF ParserTypes
<1>4. ASSUME NEW k \in DOMAIN stack' PROVE Placed(k)'
  <2>1. /\ k \in DOMAIN stack /\ stack'[k] = stack[k] /\ k < Len(stack)
        /\ k > 1 => stack'[k - 1] = stack[k - 1]
        /\ k > 2 => stack'[k - 2] = stack[k - 2]
    BY <1>1
  <2>2. Placed(k)
    BY <2>1 DEF Shape
  <2> QED BY <1>1, <2>1, <2>2 DEF Placed
<1> QED BY <1>3, <1>4 DEF Shape

LEMMA DiscardKeepsPrecedence ==
    ASSUME PrecedenceInv, discardSymbol
    PROVE  PrecedenceInv'
<1>0. ParserTypes /\ Shape /\ (\A k \in DOMAIN stack : Ranked(k)) /\ PrecedenceRespected
  BY DEF PrecedenceInv
<1>1. /\ Len(stack) \in Nat \ {0} /\ DOMAIN stack = 1 .. Len(stack)
      /\ DOMAIN stack' = 1 .. Len(stack) - 1
      /\ \A k \in DOMAIN stack' : stack'[k] = stack[k]
      /\ UNCHANGED <<vocabulary, tokens, lookahead, nodes, status>> /\ status = "discarding"
  BY <1>0, DiscardIs
<1>2. ParserTypes' /\ Shape'
  BY <1>0, DiscardKeepsShape
<1>3. ASSUME NEW k \in DOMAIN stack' PROVE Ranked(k)'
  <2>1. /\ k \in DOMAIN stack /\ stack'[k] = stack[k]
        /\ k > 1 => stack'[k - 1] = stack[k - 1]
        /\ k > 2 => stack'[k - 2] = stack[k - 2]
    BY <1>1
  <2>2. Ranked(k) /\ Placed(k)
    BY <1>0, <2>1 DEF Shape
  <2>3. stack[k].sym \in BinaryOps => k > 1
    BY <2>2 DEF Placed, Following
  <2> QED BY <1>1, <2>1, <2>2, <2>3 DEF Ranked
<1>4. Closing' /\ PrecedenceRespected'
  BY <1>0, <1>1 DEF Closing, PrecedenceRespected
<1> QED BY <1>2, <1>3, <1>4 DEF PrecedenceInv

LEMMA StepIs == [Next]_vars => SemanticAction \/ shift \/ discardSymbol \/ Idle
BY DEF Next, SemanticAction, Idle, Parsed

LEMMA StartShape == ASSUME Init PROVE ParserTypes /\ Shape
<1>1. stack \in Seq(Symbol) /\ freed \in Seq(Nat) /\ Len(freed) = Len(nodes) /\ DOMAIN stack = {}
  BY DEF Init
<1>2. nodes \in Trees
  <2>1. nodes = <<>>
    BY DEF Init
  <2>2. nodes \in Seq(ParsedNode) /\ DOMAIN nodes = {}
    BY <2>1
  <2> QED BY <2>2 DEF Trees
<1> QED BY <1>1, <1>2 DEF Init, ParserTypes, Shape, Statuses

LEMMA PrecedenceInvariant == Spec => []PrecedenceInv
<1>1. ASSUME Init PROVE PrecedenceInv
  <2>1. ParserTypes /\ Shape
    BY <1>1, StartShape
  <2>2. DOMAIN stack = {} /\ DOMAIN nodes = {} /\ ~AfterExpression
    BY <1>1 DEF Init, AfterExpression, Peek
  <2> QED BY <2>1, <2>2 DEF PrecedenceInv, Closing, PrecedenceRespected
<1>2. ASSUME PrecedenceInv, [Next]_vars PROVE PrecedenceInv'
  <2>1. CASE SemanticAction
    <3>1. ParserTypes /\ Shape
      BY <1>2 DEF PrecedenceInv
    <3>2. PICK n, node, P : Handle(n, node, P) /\ Reduced(n, node)
      BY <2>1, <3>1, ActionsReduce
    <3> QED BY <1>2, <3>2, ReduceKeepsPrecedence
  <2>2. CASE shift
    BY <1>2, <2>2, ShiftKeepsPrecedence
  <2>3. CASE discardSymbol
    BY <1>2, <2>3, DiscardKeepsPrecedence
  <2>4. CASE Idle
    BY <1>2, <2>4, IdleKeepsPrecedence, ParserAssumption
  <2> QED BY <1>2, <2>1, <2>2, <2>3, <2>4, StepIs
<1> QED BY <1>1, <1>2, PTL DEF Spec

\* Every expression of every tree, of any length and shape, is the one the
\* precedence declarations (BisonGrammar.y:127) ask for, before as well as after
\* the end of the input.
THEOREM ParserRespectsPrecedence == Spec => []PrecedenceRespected
<1>1. PrecedenceInv => PrecedenceRespected
  BY DEF PrecedenceInv
<1> QED BY <1>1, PrecedenceInvariant, PTL


-----------------------------------------------------------------------------
(* Ownership                                                               *)

\* A symbol that is no expression owns nothing.
LEMMA ShiftKeepsOwnership ==
    ASSUME OwnershipInv, shift
    PROVE  OwnershipInv'
<1> PICK L, top : L = Len(stack) /\ top = L + 1
  OBVIOUS
<1>0. ParserTypes /\ Shape /\ Owned /\ Held
  BY DEF OwnershipInv
<1>1. /\ L \in Nat /\ DOMAIN stack = 1 .. L /\ DOMAIN stack' = 1 .. top
      /\ \A k \in DOMAIN stack : stack'[k] = stack[k]
      /\ stack'[top].sym = lookahead.sym /\ status = "parsing"
      /\ UNCHANGED <<vocabulary, nodes, freed, status>>
      /\ lookahead.sym \in Openers \cup Following
  BY <1>0, ShiftIs
<1>2. ParserTypes' /\ Shape'
  BY <1>0, ShiftKeepsShape
<1>3. stack'[top].sym # "expression"
  BY <1>1 DEF Openers, Operands, Following, BinaryOps, LogicalOps, RelationalOps, ArithmeticOps
<1>4. \A k : k \in DOMAIN stack' /\ stack'[k].sym = "expression" <=>
             k \in DOMAIN stack /\ stack[k].sym = "expression"
  BY <1>1, <1>3
<1>5. \A k : k \in DOMAIN stack => stack'[k] = stack[k]
  BY <1>1
<1>6. \A i : Owners(i)' = Owners(i)
  BY <1>1, <1>4, <1>5 DEF Owners
<1>7. \A i : Holders(i)' = Holders(i)
  BY <1>1, <1>4, <1>5 DEF Holders
<1>8. Owned' /\ Held'
  BY <1>0, <1>1, <1>6, <1>7 DEF Owned, Held
<1> QED BY <1>1, <1>2, <1>8 DEF OwnershipInv

LEMMA IdleKeepsOwnership ==
    ASSUME ParserAssumption, OwnershipInv, Idle
    PROVE  OwnershipInv'
<1>0. ParserTypes /\ Shape /\ Owned /\ Held
  BY DEF OwnershipInv
<1>1. UNCHANGED <<vocabulary, stack, nodes, freed>>
  BY IdleIs
<1>2. ParserTypes' /\ Shape'
  BY <1>0, IdleKeepsShape
<1>3. /\ status' \in {"parsing", "asserted"} => status \in {"parsing", "asserted"}
      /\ status \in {"discarding", "rejected"} => status' \in {"discarding", "rejected"}
      /\ status' = "rejected" => stack = <<>>
  BY DEF Idle, pushToken, AssertionSemanticAction, syntaxError, abort, vars, OwnershipInv
<1>4. \A i : Owners(i)' = Owners(i) /\ Holders(i)' = Holders(i)
  BY <1>1 DEF Owners, Holders
<1>5. Owned'
  BY <1>0, <1>1, <1>3, <1>4 DEF Owned
<1>6. Held'
  BY <1>0, <1>1, <1>3, <1>4 DEF Held
<1> QED BY <1>1, <1>2, <1>3, <1>5, <1>6 DEF OwnershipInv

\* Of the tree of the symbol that is popped each node is freed, and no other.
LEMMA DiscardKeepsHeld ==
    ASSUME ParserTypes, Shape, Held, discardSymbol
    PROVE  Held'
<1> PICK L : L = Len(stack)
  OBVIOUS
<1>1. /\ L \in Nat \ {0} /\ DOMAIN stack = 1 .. L /\ DOMAIN stack' = 1 .. L - 1
      /\ \A k \in DOMAIN stack' : stack'[k] = stack[k]
      /\ status = "discarding" /\ UNCHANGED <<nodes, status>>
      /\ AfterExpression <=> stack[L].sym = "expression"
      /\ NodeAt(0) = stack[L].node
  BY DiscardIs
<1> SUFFICES ASSUME NEW i \in DOMAIN nodes
             PROVE  \/ freed'[i] = 0 /\ \E k : Holders(i)' = {k}
                    \/ freed'[i] = 1 /\ Holders(i)' = {}
  BY <1>1 DEF Held
<1>2. i \in DOMAIN freed
  BY DEF ParserTypes, Trees
<1>3. L \in Holders(i) <=> AfterExpression /\ i \in destroyExpression(nodes, NodeAt(0))
  BY <1>1 DEF Holders
<1>4. freed'[i] = IF L \in Holders(i) THEN freed[i] + 1 ELSE freed[i]
  BY <1>2, <1>3 DEF discardSymbol
<1>5. Holders(i)' = Holders(i) \ {L}
  <2>1. \A k : k \in DOMAIN stack' <=> k \in DOMAIN stack /\ k # L
    BY <1>1
  <2>2. \A k : k \in DOMAIN stack /\ k # L => stack'[k] = stack[k]
    BY <1>1, <2>1
  <2> QED BY <1>1, <2>1, <2>2 DEF Holders
<1>6. CASE freed[i] = 0 /\ \E k : Holders(i) = {k}
  BY <1>4, <1>5, <1>6
<1>7. CASE freed[i] = 1 /\ Holders(i) = {}
  BY <1>4, <1>5, <1>7
<1> QED BY <1>6, <1>7 DEF Held

LEMMA OwnershipInvariant == Spec => []OwnershipInv
<1>1. ASSUME Init PROVE OwnershipInv
  <2>1. ParserTypes /\ Shape
    BY <1>1, StartShape
  <2>2. DOMAIN nodes = {} /\ status = "parsing"
    BY <1>1 DEF Init
  <2> QED BY <2>1, <2>2 DEF OwnershipInv, Owned, Held
<1>2. ASSUME OwnershipInv, [Next]_vars PROVE OwnershipInv'
  <2>0. ParserTypes /\ Shape /\ Owned /\ Held
    BY <1>2 DEF OwnershipInv
  <2>1. CASE SemanticAction
    <3>1. PICK n, node, P : Handle(n, node, P) /\ Reduced(n, node)
      BY <2>0, <2>1, ActionsReduce
    <3>2. ParserTypes' /\ Shape'
      BY <2>0, <3>1, ReduceKeepsShape
    <3>3. Owned' /\ Held'
      BY <2>0, <3>1, ReduceKeepsOwned, ReduceKeepsHeld
    <3>4. status' # "rejected"
      BY <3>1 DEF Reduced
    <3> QED BY <3>2, <3>3, <3>4 DEF OwnershipInv
  <2>2. CASE shift
    BY <1>2, <2>2, ShiftKeepsOwnership
  <2>3. CASE discardSymbol
    <3>1. ParserTypes' /\ Shape' /\ Held'
      BY <2>0, <2>3, DiscardKeepsShape, DiscardKeepsHeld
    <3>2. status' = "discarding"
      BY <2>3 DEF discardSymbol
    <3> QED BY <3>1, <3>2 DEF OwnershipInv, Owned
  <2>4. CASE Idle
    BY <1>2, <2>4, IdleKeepsOwnership, ParserAssumption
  <2> QED BY <1>2, <2>1, <2>2, <2>3, <2>4, StepIs
<1> QED BY <1>1, <1>2, PTL DEF Spec

\* However long the assertion and wherever it breaks off: until the parser gives
\* up, each node has one owner and is not freed, and when it has given up, the
\* destructors it ran on its stack (BisonGrammar.y:71) have freed each node
\* exactly once.
THEOREM ParserOwnsNodesOnce == Spec => []NodesOwnedOnce
<1>1. ASSUME OwnershipInv PROVE NodesOwnedOnce
  <2>1. ASSUME status \in {"parsing", "asserted"}, NEW i \in DOMAIN nodes
        PROVE  Cardinality(Owners(i)) = 1 /\ freed[i] = 0
    <3>1. PICK o : Owners(i) = {o}
      BY <1>1, <2>1 DEF OwnershipInv, Owned
    <3>2. freed[i] = 0
      BY <1>1, <2>1 DEF OwnershipInv, Held
    <3> QED BY <3>1, <3>2, FS_Singleton
  <2>2. ASSUME status = "rejected", NEW i \in DOMAIN nodes PROVE freed[i] = 1
    <3>1. Holders(i) = {}
      BY <1>1, <2>2 DEF OwnershipInv, Holders
    <3> QED BY <1>1, <3>1 DEF OwnershipInv, Held
  <2> QED BY <2>1, <2>2 DEF NodesOwnedOnce
<1> QED BY <1>1, OwnershipInvariant, PTL


-----------------------------------------------------------------------------
(* The text of a tree                                                      *)

Words == Names \cup LiteralType \cup {NULL} \cup Openers \cup Following

\* What a node writes is made of what its operands write.
LEMMA YieldIs ==
    ASSUME NEW expr \in Trees, NEW node, CanTake(expr, node),
           NEW f, \A k \in DOMAIN node.args : f[node.args[k]] \in Seq(Words)
    PROVE  Yield(node, f) \in Seq(Words)
<1>1. /\ node.type \in ExpressionType /\ node.leaf \in Words /\ OpFits(node)
      /\ DOMAIN node.args = 1 .. Arity[node.type]
  BY DEF CanTake, ParsedNode, Words
<1>2. /\ "IF" \in Words /\ "THEN" \in Words /\ "OTHERWISE" \in Words
      /\ "OPEN_PAREN" \in Words /\ "CLOSE_PAREN" \in Words /\ BinaryOps \subseteq Words
  BY DEF Words, Openers, Following
<1>3. node.op \in Words
  <2>1. node.op \in BinaryOps \cup {"OP_NOT", NULL}
    BY DEF CanTake, ParsedNode
  <2> QED BY <2>1 DEF Words, Openers, Following
<1>4. CASE node.type \in {"LITERAL_EXPR", "IDENTIFIER_EXPR"}
  BY <1>1, <1>4 DEF Yield
<1>5. CASE Infix(node)
  <2>1. 1 \in DOMAIN node.args /\ 2 \in DOMAIN node.args
    BY <1>1, <1>5, ArityIs DEF Infix
  <2>2. f[node.args[1]] \in Seq(Words) /\ f[node.args[2]] \in Seq(Words)
    BY <2>1
  <2>3. Yield(node, f) = f[node.args[1]] \o <<node.op>> \o f[node.args[2]]
    BY <1>5 DEF Yield, Infix
  <2> QED BY <1>3, <2>2, <2>3
<1>6. CASE node.type = "LOGICAL_NOT_EXPR"
  <2>1. f[node.args[1]] \in Seq(Words)
    BY <1>1, <1>6, ArityIs
  <2>2. Yield(node, f) = <<node.op>> \o f[node.args[1]]
    BY <1>6 DEF Yield
  <2> QED BY <1>3, <2>1, <2>2
<1>7. CASE node.type = "CONDITIONAL_EXPR"
  <2>1. 1 \in DOMAIN node.args /\ 2 \in DOMAIN node.args /\ 3 \in DOMAIN node.args
    BY <1>1, <1>7, ArityIs
  <2>2. /\ f[node.args[1]] \in Seq(Words) /\ f[node.args[2]] \in Seq(Words)
        /\ f[node.args[3]] \in Seq(Words)
    BY <2>1
  <2>3. PICK x : x = <<"IF">> \o f[node.args[1]] \o <<"THEN">>
    OBVIOUS
  <2>4. x \in Seq(Words)
    BY <1>2, <2>2, <2>3
  <2>5. PICK y : y = x \o f[node.args[2]] \o <<"OTHERWISE">>
    OBVIOUS
  <2>6. y \in Seq(Words)
    BY <1>2, <2>2, <2>4, <2>5
  <2>7. Yield(node, f) = y \o f[node.args[3]]
    BY <1>7, <2>3, <2>5 DEF Yield
  <2> QED BY <2>2, <2>6, <2>7
<1>8. CASE node.type = "PARENTHESIZED_EXPR"
  <2>1. f[node.args[1]] \in Seq(Words)
    BY <1>1, <1>8, ArityIs
  <2>2. Yield(node, f) = <<"OPEN_PAREN">> \o f[node.args[1]] \o <<"CLOSE_PAREN">>
    BY <1>8 DEF Yield
  <2> QED BY <1>2, <2>1, <2>2
<1> QED BY <1>1, <1>4, <1>5, <1>6, <1>7, <1>8 DEF ExpressionType, Infix

LEMMA YieldLooks ==
    ASSUME NEW expr \in Trees, NEW node, CanTake(expr, node), NEW f, NEW g,
           \A k \in DOMAIN node.args : f[node.args[k]] = g[node.args[k]]
    PROVE  Yield(node, f) = Yield(node, g)
<1>1. node.type \in ExpressionType /\ DOMAIN node.args = 1 .. Arity[node.type]
  BY DEF CanTake, ParsedNode
<1>2. CASE node.type \in {"LITERAL_EXPR", "IDENTIFIER_EXPR"}
  BY <1>2 DEF Yield
<1>3. CASE Infix(node)
  <2>1. f[node.args[1]] = g[node.args[1]] /\ f[node.args[2]] = g[node.args[2]]
    BY <1>1, <1>3, ArityIs DEF Infix
  <2> QED BY <1>3, <2>1 DEF Yield, Infix
<1>4. CASE node.type \in {"LOGICAL_NOT_EXPR", "PARENTHESIZED_EXPR"}
  <2>1. f[node.args[1]] = g[node.args[1]]
    BY <1>1, <1>4, ArityIs
  <2> QED BY <1>4, <2>1 DEF Yield
<1>5. CASE node.type = "CONDITIONAL_EXPR"
  <2>1. /\ f[node.args[1]] = g[node.args[1]] /\ f[node.args[2]] = g[node.args[2]]
        /\ f[node.args[3]] = g[node.args[3]]
    BY <1>1, <1>5, ArityIs
  <2> QED BY <1>5, <2>1 DEF Yield
<1> QED BY <1>1, <1>2, <1>3, <1>4, <1>5 DEF ExpressionType, Infix

LEMMA NodeFits ==
    ASSUME NEW expr \in Trees, NEW i \in DOMAIN expr
    PROVE  CanTake(expr, expr[i]) /\ \A k \in DOMAIN expr[i].args : expr[i].args[k] \in 1 .. i - 1
<1>1. /\ i \in 1 .. Len(expr) /\ expr[i] \in ParsedNode
      /\ Len(expr[i].args) = Arity[expr[i].type]
      /\ \A k \in DOMAIN expr[i].args : expr[i].args[k] \in 1 .. i - 1
      /\ OpFits(expr[i])
  BY OperandsAre
<1>2. DOMAIN expr = 1 .. Len(expr) /\ Len(expr) \in Nat
  BY TreeIs
<1> QED BY <1>1, <1>2 DEF CanTake

IsYield(expr, f) == \A i \in DOMAIN expr : f[i] = Yield(expr[i], f)

LEMMA YieldUnique ==
    ASSUME NEW expr \in Trees, NEW f, IsYield(expr, f), NEW g, IsYield(expr, g)
    PROVE  \A i \in DOMAIN expr : f[i] = g[i]
<1> DEFINE n == Len(expr)
           G == {i \in 1 .. n : f[i] = g[i]}
<1>0. n \in Nat /\ DOMAIN expr = 1 .. n
  BY TreeIs
<1>1. ASSUME NEW i \in 1 .. n, \A j \in 1 .. i - 1 : j \in G PROVE i \in G
  <2>1. CanTake(expr, expr[i]) /\ \A k \in DOMAIN expr[i].args : expr[i].args[k] \in 1 .. i - 1
    BY <1>0, NodeFits
  <2>2. \A k \in DOMAIN expr[i].args : f[expr[i].args[k]] = g[expr[i].args[k]]
    BY <1>1, <2>1
  <2>3. Yield(expr[i], f) = Yield(expr[i], g)
    BY <2>1, <2>2, YieldLooks
  <2> QED BY <1>0, <2>3 DEF IsYield
<1>2. \A i \in 1 .. n : i \in G
  <2> HIDE DEF G
  <2> QED BY <1>0, <1>1, StrongInduction
<1> QED BY <1>0, <1>2

LEMMA YieldDefined ==
    ASSUME NEW expr \in Trees
    PROVE  \E f \in [1 .. Len(expr) -> Seq(Words)] : IsYield(expr, f)
<1> DEFINE V == Seq(Words)
           F == [1 .. Len(expr) -> V]
           st == [i \in 1 .. Len(expr) |-> [f \in F |-> Yield(expr[i], f)]]
<1>0. Len(expr) \in Nat /\ DOMAIN expr = 1 .. Len(expr)
  BY TreeIs
<1>1. ASSUME NEW i \in 1 .. Len(expr), NEW f \in F PROVE Yield(expr[i], f) \in V
  <2>1. CanTake(expr, expr[i])
    BY <1>0, NodeFits
  <2>2. \A k \in DOMAIN expr[i].args : f[expr[i].args[k]] \in V
    BY <1>0, <2>1 DEF CanTake
  <2> QED BY <2>1, <2>2, YieldIs
<1>2. st \in [1 .. Len(expr) -> [F -> V]]
  <2> HIDE DEF F, V
  <2> QED BY <1>1
<1>3. ASSUME NEW i \in DOMAIN expr, NEW f \in F, NEW g \in F,
             \A k \in DOMAIN expr[i].args : f[expr[i].args[k]] = g[expr[i].args[k]]
      PROVE  st[i][f] = st[i][g]
  <2>1. Yield(expr[i], f) = Yield(expr[i], g)
    <3> HIDE DEF F
    <3> QED BY <1>3, NodeFits, YieldLooks
  <2> HIDE DEF F
  <2> QED BY <1>0, <2>1
<1>4. V # {}
  <2>1. <<>> \in V
    OBVIOUS
  <2> QED BY <2>1
<1>5. LooksDown(expr, V, st)
  <2> HIDE DEF V, st
  <2> QED BY <1>2, <1>3, <1>4, Zenon DEF LooksDown
<1>6. PICK f \in F : \A i \in DOMAIN expr : f[i] = st[i][f]
  <2> HIDE DEF V, st
  <2> QED BY <1>5, TreeRecursion
<1>7. \A i \in DOMAIN expr : f[i] = Yield(expr[i], f)
  <2> HIDE DEF F
  <2> QED BY <1>0, <1>6
<1> QED BY <1>6, <1>7 DEF IsYield

LEMMA YieldsAre ==
    ASSUME NEW expr \in Trees
    PROVE  IsYield(expr, Yields(expr)) /\ \A i \in DOMAIN expr : Yields(expr)[i] \in Seq(Words)
<1> DEFINE Is(f) == f = [i \in DOMAIN expr |-> Yield(expr[i], f)]
           R == Yields(expr)
<1>0. Len(expr) \in Nat /\ DOMAIN expr = 1 .. Len(expr)
  BY TreeIs
<1>1. PICK f \in [1 .. Len(expr) -> Seq(Words)] : IsYield(expr, f)
  BY YieldDefined
<1>2. Is(f)
  <2>1. f = [i \in DOMAIN expr |-> f[i]]
    BY <1>0
  <2> QED BY <1>1, <2>1 DEF IsYield
<1>3. Is(R)
  <2>1. R = CHOOSE g : Is(g)
    BY DEF Yields
  <2> HIDE DEF Is, R
  <2> QED BY <1>2, <2>1
<1>4. IsYield(expr, R)
  <2>1. \A i \in DOMAIN expr : [j \in DOMAIN expr |-> Yield(expr[j], R)][i] = Yield(expr[i], R)
    OBVIOUS
  <2> HIDE DEF R
  <2> QED BY <1>3, <2>1, Zenon DEF IsYield
<1>5. \A i \in DOMAIN expr : R[i] = f[i]
  <2> HIDE DEF R
  <2> QED BY <1>1, <1>4, YieldUnique
<1> QED BY <1>0, <1>1, <1>4, <1>5

\* A node more: what was written stays.
YieldsKept(expr, node, big, new) ==
    /\ \A i \in DOMAIN expr : Yields(big)[i] = Yields(expr)[i]
    /\ Yields(big)[new] = Yield(node, Yields(expr))

LEMMA YieldsGrow ==
    ASSUME NEW expr \in Trees, NEW node, CanTake(expr, node), NEW big, big = Append(expr, node),
           NEW new, new = Len(expr) + 1
    PROVE  YieldsKept(expr, node, big, new)
<1>1. /\ big \in Trees /\ new \in DOMAIN big /\ big[new] = node /\ Extends(big, expr)
  <2>1. /\ big \in Trees /\ DOMAIN big = 1 .. Len(expr) + 1 /\ big[Len(expr) + 1] = node
        /\ Extends(big, expr)
    BY TreeGrows
  <2>2. Len(expr) \in Nat
    BY TreeIs
  <2> QED BY <2>1, <2>2
<1>2. IsYield(big, Yields(big)) /\ IsYield(expr, Yields(expr))
  BY <1>1, YieldsAre
<1>3. IsYield(expr, Yields(big))
  BY <1>1, <1>2 DEF IsYield, Extends
<1>4. \A i \in DOMAIN expr : Yields(big)[i] = Yields(expr)[i]
  BY <1>2, <1>3, YieldUnique
<1>5. Yields(big)[new] = Yield(node, Yields(big))
  BY <1>1, <1>2 DEF IsYield
<1>6. Yield(node, Yields(big)) = Yield(node, Yields(expr))
  <2>1. \A k \in DOMAIN node.args : node.args[k] \in DOMAIN expr
    BY DEF CanTake
  <2>2. \A k \in DOMAIN node.args : Yields(big)[node.args[k]] = Yields(expr)[node.args[k]]
    BY <1>4, <2>1
  <2> QED BY <2>2, YieldLooks
<1> QED BY <1>4, <1>5, <1>6 DEF YieldsKept


-----------------------------------------------------------------------------
(* The text of the stack                                                   *)

Part(symbol, expr) ==
    IF symbol.sym = "expression" THEN Yields(expr)[symbol.node] ELSE <<Written(symbol)>>
Parts(symbols, expr) == [k \in DOMAIN symbols |-> Part(symbols[k], expr)]
InTree(symbols, expr) ==
    \A k \in DOMAIN symbols : symbols[k].sym = "expression" => symbols[k].node \in DOMAIN expr

LEMMA PartsAre ==
    ASSUME NEW symbols \in Seq(Symbol), NEW expr \in Trees, InTree(symbols, expr)
    PROVE  /\ Parts(symbols, expr) \in Seq(Seq(Words))
           /\ Len(Parts(symbols, expr)) = Len(symbols)
           /\ \A k \in DOMAIN symbols : Parts(symbols, expr)[k] = Part(symbols[k], expr)
           /\ Text(symbols, expr) = FlattenSeq(Parts(symbols, expr))
<1>1. ASSUME NEW k \in DOMAIN symbols PROVE Part(symbols[k], expr) \in Seq(Words)
  <2>1. CASE symbols[k].sym = "expression"
    <3>1. Yields(expr)[symbols[k].node] \in Seq(Words)
      BY <2>1, YieldsAre DEF InTree
    <3> QED BY <2>1, <3>1 DEF Part
  <2>2. CASE symbols[k].sym # "expression"
    <3>1. symbols[k] \in Symbol
      OBVIOUS
    <3>2. Written(symbols[k]) \in Words
      BY <2>2, <3>1 DEF Symbol, Written, Words
    <3> QED BY <2>2, <3>2 DEF Part
  <2> QED BY <2>1, <2>2
<1>2. /\ Len(symbols) \in Nat /\ DOMAIN symbols = 1 .. Len(symbols)
  OBVIOUS
<1>3. Text(symbols, expr) = FlattenSeq(Parts(symbols, expr))
  BY DEF Text, Parts, Part
<1>4. \A k \in DOMAIN symbols : Parts(symbols, expr)[k] = Part(symbols[k], expr)
  BY DEF Parts
<1>5. /\ Parts(symbols, expr) = [k \in 1 .. Len(symbols) |-> Part(symbols[k], expr)]
  BY <1>2 DEF Parts
<1>6. \A k \in 1 .. Len(symbols) : Part(symbols[k], expr) \in Seq(Words)
  BY <1>1, <1>2
<1> DEFINE V == Seq(Words)
           g == [k \in 1 .. Len(symbols) |-> Part(symbols[k], expr)]
<1>7. g \in Seq(V) /\ Len(g) = Len(symbols)
  <2>1. \A k \in 1 .. Len(symbols) : g[k] \in V
    BY <1>6
  <2>2. g = [k \in 1 .. Len(symbols) |-> g[k]]
    OBVIOUS
  <2> HIDE DEF V, g
  <2> QED BY <1>2, <2>1, <2>2
<1> QED BY <1>3, <1>4, <1>5, <1>7

LEMMA StackParts ==
    ASSUME ParserTypes, Shape
    PROVE  stack \in Seq(Symbol) /\ nodes \in Trees /\ InTree(stack, nodes)
BY DEF ParserTypes, Shape, Placed, InTree

\* A symbol that is no operand is written as its name, an operand as its value.
LEMMA WrittenAs ==
    ASSUME ParserAssumption, Shape, NEW k \in DOMAIN stack, stack[k].sym # "expression"
    PROVE  /\ stack[k].sym \in Operands => Part(stack[k], nodes) = <<stack[k].value>>
           /\ stack[k].sym \notin Operands => Part(stack[k], nodes) = <<stack[k].sym>>
<1>1. Placed(k)
  BY DEF Shape
<1>2. stack[k].sym \in Operands => stack[k].value # NULL
  BY <1>1 DEF Placed, Operands, ParserAssumption
<1>3. stack[k].sym \notin Operands => stack[k].value = NULL
  BY <1>1 DEF Placed
<1> QED BY <1>2, <1>3 DEF Part, Written

\* What the symbols of a handle write is what its node does.
LEMMA HandleWrites ==
    ASSUME ParserAssumption, ParserTypes, Shape, NEW n, NEW node, NEW P, Handle(n, node, P),
           NEW c, c = [i \in 1 .. n |-> Parts(stack, nodes)[Len(stack) - n + i]]
    PROVE  FlattenSeq(c) = Yield(node, Yields(nodes))
<1> PICK L, Y : L = Len(stack) /\ Y = Yields(nodes)
  OBVIOUS
<1>1. /\ stack \in Seq(Symbol) /\ L \in Nat /\ DOMAIN stack = 1 .. L
      /\ n \in 1 .. L /\ n \in Nat
  BY DEF ParserTypes, Handle
<1>2. /\ Parts(stack, nodes) \in Seq(Seq(Words)) /\ Len(Parts(stack, nodes)) = L
      /\ \A k \in DOMAIN stack : Parts(stack, nodes)[k] = Part(stack[k], nodes)
  BY StackParts, PartsAre
<1>3. c \in Seq(Seq(Words)) /\ Len(c) = n
  <2> DEFINE V == Seq(Words)
  <2>1. \A i \in 1 .. n : c[i] \in V
    BY <1>1, <1>2
  <2>2. c = [i \in 1 .. n |-> c[i]]
    OBVIOUS
  <2>3. c \in Seq(V) /\ Len(c) = n
    <3> HIDE DEF V
    <3> QED BY <1>1, <2>1, <2>2
  <2> QED BY <2>3
<1>4. \A i \in 1 .. n : c[i] = Part(stack[L - n + i], nodes)
  <2> TAKE i \in 1 .. n
  <2>1. L - n + i \in DOMAIN stack
    BY <1>1
  <2>2. c[i] = Parts(stack, nodes)[L - n + i]
    OBVIOUS
  <2> QED BY <1>2, <2>1, <2>2
<1>5. Spelled(n, node) /\ node.type \in ExpressionType
  BY DEF Handle, CanTake, ParsedNode
<1>6. ASSUME NEW k, NEW j, Expresses(k, node, j) PROVE Part(stack[k], nodes) = Y[node.args[j]]
  BY <1>6 DEF Expresses, Part
<1>7. ASSUME NEW k \in DOMAIN stack, stack[k].sym \notin Operands \cup {"expression"}
      PROVE  Part(stack[k], nodes) = <<stack[k].sym>>
  BY <1>7, WrittenAs
<1>8. /\ Operands = {"IDENTIFIER", "literal"}
      /\ \A op \in BinaryOps : op \notin Operands \cup {"expression"}
  BY DEF Operands, BinaryOps, LogicalOps, RelationalOps, ArithmeticOps
<1>9. CASE node.type \in {"LITERAL_EXPR", "IDENTIFIER_EXPR"}
  <2>1. n = 1 /\ stack[L].sym \in Operands /\ stack[L].value = node.leaf
    BY <1>5, <1>9 DEF Spelled
  <2>2. Part(stack[L], nodes) = <<node.leaf>>
    <3>1. L \in DOMAIN stack /\ stack[L].sym # "expression"
      BY <1>1, <1>8, <2>1
    <3> QED BY <2>1, <3>1, WrittenAs
  <2>3. c[1] = <<node.leaf>>
    BY <1>1, <1>4, <2>1, <2>2
  <2>4. FlattenSeq(c) = c[1]
    BY <1>3, <2>1, FlattenFew
  <2> QED BY <1>9, <2>3, <2>4 DEF Yield
<1>10. CASE Infix(node)
  <2>1. /\ n = 3 /\ stack[L - 1].sym = node.op /\ node.op \in BinaryOps
        /\ Expresses(L - 2, node, 1) /\ Expresses(L, node, 2)
    BY <1>5, <1>10 DEF Spelled
  <2>2. /\ Part(stack[L - 2], nodes) = Y[node.args[1]] /\ Part(stack[L], nodes) = Y[node.args[2]]
    BY <1>6, <2>1
  <2>3. Part(stack[L - 1], nodes) = <<node.op>>
    <3>1. L - 1 \in DOMAIN stack /\ stack[L - 1].sym \notin Operands \cup {"expression"}
      BY <1>1, <1>8, <2>1
    <3> QED BY <1>7, <2>1, <3>1
  <2>4. c[1] = Y[node.args[1]] /\ c[2] = <<node.op>> /\ c[3] = Y[node.args[2]]
    BY <1>1, <1>4, <2>1, <2>2, <2>3
  <2>5. FlattenSeq(c) = c[1] \o c[2] \o c[3]
    BY <1>3, <2>1, FlattenFew
  <2>6. Yield(node, Y) = Y[node.args[1]] \o <<node.op>> \o Y[node.args[2]]
    BY <1>10 DEF Yield, Infix
  <2> QED BY <2>4, <2>5, <2>6
<1>11. CASE node.type = "LOGICAL_NOT_EXPR"
  <2>1. n = 2 /\ stack[L - 1].sym = "OP_NOT" /\ node.op = "OP_NOT" /\ Expresses(L, node, 1)
    BY <1>5, <1>11 DEF Spelled
  <2>2. Part(stack[L], nodes) = Y[node.args[1]]
    BY <1>6, <2>1
  <2>3. Part(stack[L - 1], nodes) = <<node.op>>
    <3>1. L - 1 \in DOMAIN stack /\ stack[L - 1].sym \notin Operands \cup {"expression"}
      BY <1>1, <1>8, <2>1
    <3> QED BY <1>7, <2>1, <3>1
  <2>4. c[1] = <<node.op>> /\ c[2] = Y[node.args[1]]
    BY <1>1, <1>4, <2>1, <2>2, <2>3
  <2>5. FlattenSeq(c) = c[1] \o c[2]
    BY <1>3, <2>1, FlattenFew
  <2> QED BY <1>11, <2>4, <2>5 DEF Yield
<1>12. CASE node.type = "CONDITIONAL_EXPR"
  <2>1. /\ n = 6 /\ stack[L - 5].sym = "IF" /\ stack[L - 3].sym = "THEN"
        /\ stack[L - 1].sym = "OTHERWISE" /\ Expresses(L - 4, node, 1)
        /\ Expresses(L - 2, node, 2) /\ Expresses(L, node, 3)
    BY <1>5, <1>12 DEF Spelled
  <2>2. /\ Part(stack[L - 4], nodes) = Y[node.args[1]] /\ Part(stack[L - 2], nodes) = Y[node.args[2]]
        /\ Part(stack[L], nodes) = Y[node.args[3]]
    BY <1>6, <2>1
  <2>3. /\ Part(stack[L - 5], nodes) = <<"IF">> /\ Part(stack[L - 3], nodes) = <<"THEN">>
        /\ Part(stack[L - 1], nodes) = <<"OTHERWISE">>
    <3>1. L - 5 \in DOMAIN stack /\ L - 3 \in DOMAIN stack /\ L - 1 \in DOMAIN stack
      BY <1>1, <2>1
    <3>2. \A sym \in {"IF", "THEN", "OTHERWISE"} : sym \notin Operands \cup {"expression"}
      BY <1>8
    <3>3. Part(stack[L - 5], nodes) = <<"IF">>
      BY <1>7, <2>1, <3>1, <3>2
    <3>4. Part(stack[L - 3], nodes) = <<"THEN">>
      BY <1>7, <2>1, <3>1, <3>2
    <3>5. Part(stack[L - 1], nodes) = <<"OTHERWISE">>
      BY <1>7, <2>1, <3>1, <3>2
    <3> QED BY <3>3, <3>4, <3>5
  <2>4. /\ c[1] = <<"IF">> /\ c[2] = Y[node.args[1]] /\ c[3] = <<"THEN">>
        /\ c[4] = Y[node.args[2]] /\ c[5] = <<"OTHERWISE">> /\ c[6] = Y[node.args[3]]
    <3>1. /\ \A i \in 1 .. 6 : c[i] = Part(stack[L - 6 + i], nodes)
          /\ L - 6 + 1 = L - 5 /\ L - 6 + 2 = L - 4 /\ L - 6 + 3 = L - 3
          /\ L - 6 + 4 = L - 2 /\ L - 6 + 5 = L - 1 /\ L - 6 + 6 = L
      BY <1>1, <1>4, <2>1
    <3>2. /\ c[1] = Part(stack[L - 5], nodes) /\ c[2] = Part(stack[L - 4], nodes)
          /\ c[3] = Part(stack[L - 3], nodes) /\ c[4] = Part(stack[L - 2], nodes)
          /\ c[5] = Part(stack[L - 1], nodes) /\ c[6] = Part(stack[L], nodes)
      BY <3>1
    <3> QED BY <2>2, <2>3, <3>2
  <2>5. FlattenSeq(c) = c[1] \o c[2] \o c[3] \o c[4] \o c[5] \o c[6]
    BY <1>3, <2>1, FlattenFew
  <2>6. Yield(node, Y) = <<"IF">> \o Y[node.args[1]] \o <<"THEN">> \o Y[node.args[2]]
                         \o <<"OTHERWISE">> \o Y[node.args[3]]
    BY <1>12 DEF Yield
  <2> QED BY <2>4, <2>5, <2>6
<1>13. CASE node.type = "PARENTHESIZED_EXPR"
  <2>1. /\ n = 3 /\ stack[L - 2].sym = "OPEN_PAREN" /\ stack[L].sym = "CLOSE_PAREN"
        /\ Expresses(L - 1, node, 1)
    BY <1>5, <1>13 DEF Spelled
  <2>2. Part(stack[L - 1], nodes) = Y[node.args[1]]
    BY <1>6, <2>1
  <2>3. /\ Part(stack[L - 2], nodes) = <<"OPEN_PAREN">> /\ Part(stack[L], nodes) = <<"CLOSE_PAREN">>
    <3>1. L - 2 \in DOMAIN stack /\ L \in DOMAIN stack
      BY <1>1, <2>1
    <3>2. \A sym \in {"OPEN_PAREN", "CLOSE_PAREN"} : sym \notin Operands \cup {"expression"}
      BY <1>8
    <3>3. Part(stack[L - 2], nodes) = <<"OPEN_PAREN">>
      BY <1>7, <2>1, <3>1, <3>2
    <3>4. Part(stack[L], nodes) = <<"CLOSE_PAREN">>
      BY <1>7, <2>1, <3>1, <3>2
    <3> QED BY <3>3, <3>4
  <2>4. c[1] = <<"OPEN_PAREN">> /\ c[2] = Y[node.args[1]] /\ c[3] = <<"CLOSE_PAREN">>
    BY <1>1, <1>4, <2>1, <2>2, <2>3
  <2>5. FlattenSeq(c) = c[1] \o c[2] \o c[3]
    BY <1>3, <2>1, FlattenFew
  <2> QED BY <1>13, <2>4, <2>5 DEF Yield
<1> QED BY <1>5, <1>9, <1>10, <1>11, <1>12, <1>13 DEF ExpressionType, Infix


LEMMA ReduceKeepsText ==
    ASSUME ParserAssumption, ParserTypes, Shape, YieldIsInput,
           NEW n, NEW node, NEW P, Handle(n, node, P), Reduced(n, node)
    PROVE  YieldIsInput'
<1> PICK m, top, new, symbols, big : /\ m = Len(stack) - n /\ top = Len(stack) - n + 1
                                     /\ new = Len(nodes) + 1
                                     /\ symbols = stack' /\ big = nodes'
  OBVIOUS
<1>1. Sizes(n, top, new) /\ big[new] = node
  BY SizesAre
<1>2. ParserTypes' /\ Shape'
  BY ReduceKeepsShape
<1>3. symbols \in Seq(Symbol) /\ big \in Trees /\ InTree(symbols, big)
  BY <1>2 DEF ParserTypes, Shape, Placed, InTree
<1>4. /\ Len(stack) \in Nat /\ n \in 1 .. Len(stack) /\ m \in 0 .. Len(stack) /\ top = m + 1
      /\ DOMAIN stack = 1 .. Len(stack) /\ DOMAIN symbols = 1 .. top /\ Len(symbols) = top
      /\ n = Len(stack) - m
  BY <1>1 DEF Sizes, StackSizes
<1>5. \A k \in 1 .. m : k \in DOMAIN stack /\ symbols[k] = stack[k]
  BY <1>1, <1>4 DEF Sizes, StackSizes
<1>6. symbols[top].sym = "expression" /\ symbols[top].node = new
  BY <1>1 DEF Sizes, StackSizes
<1>7. YieldsKept(nodes, node, big, new)
  <2>1. nodes \in Trees /\ CanTake(nodes, node) /\ big = Append(nodes, node)
    BY DEF ParserTypes, Handle, Reduced
  <2>2. new = Len(nodes) + 1
    OBVIOUS
  <2> QED BY <2>1, <2>2, YieldsGrow
<1> PICK a, b, c : /\ a = Parts(stack, nodes) /\ b = Parts(symbols, big)
                   /\ c = [i \in 1 .. n |-> Parts(stack, nodes)[Len(stack) - n + i]]
  OBVIOUS
<1>8. /\ a \in Seq(Seq(Words)) /\ Len(a) = Len(stack) /\ Text(stack, nodes) = FlattenSeq(a)
      /\ \A k \in DOMAIN stack : a[k] = Part(stack[k], nodes)
  BY StackParts, PartsAre
<1>9. /\ b \in Seq(Seq(Words)) /\ Len(b) = m + 1 /\ Text(symbols, big) = FlattenSeq(b)
      /\ \A k \in DOMAIN symbols : b[k] = Part(symbols[k], big)
  BY <1>3, <1>4, PartsAre
<1>10. \A k \in 1 .. m : b[k] = a[k]
  <2> TAKE k \in 1 .. m
  <2>1. k \in DOMAIN stack /\ symbols[k] = stack[k] /\ k \in DOMAIN symbols
    BY <1>4, <1>5
  <2>2. stack[k].sym = "expression" => stack[k].node \in DOMAIN nodes
    BY <2>1, StackParts DEF InTree
  <2>3. Part(stack[k], big) = Part(stack[k], nodes)
    BY <1>7, <2>2 DEF Part, YieldsKept
  <2> QED BY <1>8, <1>9, <2>1, <2>3
<1>11. c = [i \in 1 .. Len(a) - m |-> a[m + i]]
  BY <1>4, <1>8
<1>12. b[m + 1] = FlattenSeq(c)
  <2>1. FlattenSeq(c) = Yield(node, Yields(nodes))
    BY HandleWrites
  <2>2. top \in DOMAIN symbols
    BY <1>4
  <2>3. b[top] = Yields(big)[new]
    BY <1>6, <1>9, <2>2 DEF Part
  <2>4. Yields(big)[new] = Yield(node, Yields(nodes))
    BY <1>7 DEF YieldsKept
  <2> QED BY <1>4, <2>1, <2>3, <2>4
<1>13. FlattenSeq(b) = FlattenSeq(a)
  <2>1. a \in Seq(Seq(Words)) /\ m \in 0 .. Len(a) /\ b \in Seq(Seq(Words)) /\ Len(b) = m + 1
    BY <1>4, <1>8, <1>9
  <2>2. Replaces(a, m, b)
    BY <2>1, <1>10, <1>11, <1>12 DEF Replaces
  <2> QED BY <2>1, <2>2, FlattenReplaced
<1>14. Text(stack', nodes') = Text(stack, nodes)
  BY <1>8, <1>9, <1>13
<1>15. status = "parsing" /\ status' = status /\ tokens' = tokens
  BY DEF Reduced
<1> QED BY <1>14, <1>15 DEF YieldIsInput

TextInv == ParserTypes /\ Shape /\ tokens \in Seq(Token \cup {End}) /\ YieldIsInput

LEMMA ShiftKeepsText ==
    ASSUME TextInv, shift
    PROVE  TextInv'
<1> PICK top, symbols : top = Len(stack) + 1 /\ symbols = stack'
  OBVIOUS
<1>1. ParserTypes /\ Shape /\ tokens \in Seq(Token \cup {End}) /\ YieldIsInput
  BY DEF TextInv
<1>2. /\ stack \in Seq(Symbol) /\ Len(stack) \in Nat /\ DOMAIN stack = 1 .. Len(stack)
      /\ symbols \in Seq(Symbol) /\ Len(symbols) = top /\ DOMAIN symbols = 1 .. top
      /\ \A k \in DOMAIN stack : symbols[k] = stack[k]
      /\ symbols[top].sym = lookahead.sym /\ symbols[top].value = lookahead.value
      /\ lookahead \in Token /\ status = "parsing" /\ nodes' = nodes /\ status' = status
      /\ lookahead.sym \in Openers \cup Following
  BY <1>1, ShiftIs
<1>3. ParserTypes' /\ Shape'
  BY <1>1, ShiftKeepsShape
<1>4. tokens' = Append(tokens, lookahead) /\ tokens' \in Seq(Token \cup {End})
  BY <1>1, <1>2 DEF shift
<1>5. InTree(symbols, nodes) /\ nodes \in Trees
  BY <1>2, <1>3 DEF ParserTypes, Shape, Placed, InTree
<1> PICK a, b, y : a = Parts(stack, nodes) /\ b = Parts(symbols, nodes) /\ y = <<Written(lookahead)>>
  OBVIOUS
<1>6. /\ a \in Seq(Seq(Words)) /\ Len(a) = Len(stack) /\ Text(stack, nodes) = FlattenSeq(a)
      /\ \A k \in DOMAIN stack : a[k] = Part(stack[k], nodes)
  BY <1>1, StackParts, PartsAre
<1>7. /\ b \in Seq(Seq(Words)) /\ Len(b) = top /\ Text(symbols, nodes) = FlattenSeq(b)
      /\ \A k \in DOMAIN symbols : b[k] = Part(symbols[k], nodes)
  BY <1>2, <1>5, PartsAre
<1>8. y \in Seq(Words) /\ b[top] = y
  <2>1. symbols[top].sym # "expression"
    BY <1>2 DEF Openers, Operands, Following, BinaryOps, LogicalOps, RelationalOps, ArithmeticOps
  <2>2. Part(symbols[top], nodes) = y
    BY <1>2, <2>1 DEF Part, Written
  <2>3. top \in DOMAIN symbols /\ top \in 1 .. Len(b)
    BY <1>2, <1>7
  <2>4. b[top] = y
    BY <1>7, <2>2, <2>3
  <2>5. b[top] \in Seq(Words)
    <3> DEFINE V == Seq(Words)
    <3>1. b \in Seq(V)
      BY <1>7
    <3>2. \A s \in Seq(V) : \A i \in 1 .. Len(s) : s[i] \in V
      <4> HIDE DEF V
      <4> QED OBVIOUS
    <3>3. b[top] \in V
      <4> HIDE DEF V
      <4> QED BY <2>3, <3>1, <3>2
    <3> QED BY <3>3
  <2> QED BY <2>4, <2>5
<1>9. \A k \in 1 .. Len(a) : b[k] = a[k]
  <2> TAKE k \in 1 .. Len(a)
  <2>1. k \in DOMAIN stack /\ k \in DOMAIN symbols
    BY <1>2, <1>6
  <2>2. b[k] = Part(symbols[k], nodes) /\ a[k] = Part(stack[k], nodes) /\ symbols[k] = stack[k]
    BY <1>2, <1>6, <1>7, <2>1
  <2> QED BY <2>2
<1>10. FlattenSeq(b) = FlattenSeq(a) \o y
  <2>1. a \in Seq(Seq(Words)) /\ b \in Seq(Seq(Words)) /\ y \in Seq(Words)
    BY <1>6, <1>7, <1>8
  <2>2. Len(b) = Len(a) + 1 /\ b[Len(a) + 1] = y
    BY <1>2, <1>6, <1>7, <1>8
  <2> QED BY <1>9, <2>1, <2>2, FlattenAppended, Zenon
<1>11. FlattenSeq(a) = [i \in DOMAIN tokens |-> Written(tokens[i])]
  BY <1>1, <1>2, <1>6 DEF YieldIsInput
<1>12. [i \in DOMAIN tokens' |-> Written(tokens'[i])]
           = [i \in DOMAIN tokens |-> Written(tokens[i])] \o <<Written(lookahead)>>
  <2> PICK L : L = Len(tokens)
    OBVIOUS
  <2>1. /\ L \in Nat /\ DOMAIN tokens = 1 .. L /\ DOMAIN tokens' = 1 .. L + 1
        /\ tokens'[L + 1] = lookahead /\ \A i \in 1 .. L : tokens'[i] = tokens[i]
    BY <1>1, <1>2, <1>4
  <2> PICK f, w : f = [i \in 1 .. L |-> Written(tokens[i])] /\ w = Written(lookahead)
    OBVIOUS
  <2>2. [i \in 1 .. L + 1 |-> Written(tokens'[i])] = [i \in 1 .. L + 1 |-> IF i <= L THEN f[i] ELSE w]
    <3>1. ASSUME NEW i \in 1 .. L + 1 PROVE Written(tokens'[i]) = IF i <= L THEN f[i] ELSE w
      BY <2>1
    <3> QED BY <3>1
  <2>3. f \o <<w>> = [i \in 1 .. L + 1 |-> IF i <= L THEN f[i] ELSE w]
    <3> DEFINE W == {w} \cup {f[i] : i \in 1 .. L}
    <3>1. f \in Seq(W) /\ w \in W /\ Len(f) = L
      BY <2>1
    <3> HIDE DEF W
    <3> QED BY <2>1, <3>1
  <2> QED BY <2>1, <2>2, <2>3
<1>13. YieldIsInput'
  BY <1>2, <1>7, <1>10, <1>11, <1>12 DEF YieldIsInput
<1> QED BY <1>3, <1>4, <1>13 DEF TextInv

LEMMA IdleKeepsText ==
    ASSUME ParserAssumption, TextInv, Idle
    PROVE  TextInv'
<1>1. ParserTypes /\ Shape /\ tokens \in Seq(Token \cup {End}) /\ YieldIsInput
  BY DEF TextInv
<1>2. ParserTypes' /\ Shape'
  BY <1>1, IdleKeepsShape
<1>3. UNCHANGED <<stack, nodes, tokens>>
  BY DEF Idle, pushToken, AssertionSemanticAction, syntaxError, abort, vars
<1>4. status' \in {"parsing", "asserted"} => status \in {"parsing", "asserted"}
  BY DEF Idle, pushToken, AssertionSemanticAction, syntaxError, abort, vars
<1>5. YieldIsInput'
  BY <1>1, <1>3, <1>4 DEF YieldIsInput
<1> QED BY <1>1, <1>2, <1>3, <1>5 DEF TextInv

LEMMA TextInvariant == Spec => []TextInv
<1>1. ASSUME Init PROVE TextInv
  <2>1. ParserTypes /\ Shape
    BY <1>1, StartShape
  <2>2. tokens = <<>> /\ stack = <<>>
    BY <1>1 DEF Init
  <2>3. Text(stack, nodes) = [i \in DOMAIN tokens |-> Written(tokens[i])]
    <3>1. Text(stack, nodes) = FlattenSeq(Parts(stack, nodes))
      BY <2>1, StackParts, PartsAre
    <3>2. Parts(stack, nodes) = <<>> /\ [i \in DOMAIN tokens |-> Written(tokens[i])] = <<>>
      BY <2>2 DEF Parts
    <3>3. FlattenSeq(<<>>) = <<>>
      <4>1. <<>> \in Seq({})
        OBVIOUS
      <4> QED BY <4>1, FlattenOne
    <3> QED BY <3>1, <3>2, <3>3
  <2> QED BY <2>1, <2>2, <2>3 DEF TextInv, YieldIsInput
<1>2. ASSUME TextInv, [Next]_vars PROVE TextInv'
  <2>0. ParserTypes /\ Shape /\ tokens \in Seq(Token \cup {End}) /\ YieldIsInput
    BY <1>2 DEF TextInv
  <2>1. CASE SemanticAction
    <3>1. PICK n, node, P : Handle(n, node, P) /\ Reduced(n, node)
      BY <2>0, <2>1, ActionsReduce
    <3>2. ParserTypes' /\ Shape'
      BY <2>0, <3>1, ReduceKeepsShape
    <3>3. YieldIsInput'
      BY <2>0, <3>1, ReduceKeepsText, ParserAssumption
    <3>4. tokens' = tokens
      BY <3>1 DEF Reduced
    <3> QED BY <2>0, <3>2, <3>3, <3>4 DEF TextInv
  <2>2. CASE shift
    BY <1>2, <2>2, ShiftKeepsText
  <2>3. CASE discardSymbol
    <3>1. ParserTypes' /\ Shape'
      BY <2>0, <2>3, DiscardKeepsShape
    <3>2. status' = "discarding" /\ tokens' = tokens
      BY <2>3 DEF discardSymbol
    <3> QED BY <2>0, <3>1, <3>2 DEF TextInv, YieldIsInput
  <2>4. CASE Idle
    BY <1>2, <2>4, IdleKeepsText, ParserAssumption
  <2> QED BY <1>2, <2>1, <2>2, <2>3, <2>4, StepIs
<1> QED BY <1>1, <1>2, PTL DEF Spec

\* However long the assertion: read from left to right, what is on the stack is
\* what was shifted, token by token, so the tree that an assertion takes over is
\* the whole input, each operand on its side of its operator (the semantic
\* actions of BisonGrammar.y:265 neither swap, repeat nor drop one).
THEOREM ParserKeepsText == Spec => []YieldIsInput
<1>1. TextInv => YieldIsInput
  BY DEF TextInv
<1> QED BY <1>1, TextInvariant, PTL

-----------------------------------------------------------------------------
(* The type of a tree                                                      *)

Kinds == TypeKind \cup {TYPE_ERROR}
Result == [kind : Kinds, errors : SUBSET Nat]
Numeric == {"TYPE_INTEGER", "TYPE_DECIMAL"}

\* What a node logs that none of its operands does.
KindIn(node, f, k) == f[node.args[k]].kind
LoggedIn(node, f) == UNION {f[node.args[k]].errors : k \in DOMAIN node.args}
Typed(node, f, k) == [kind |-> k, errors |-> LoggedIn(node, f)]
Mistyped(node, i, f) == [kind |-> TYPE_ERROR, errors |-> LoggedIn(node, f) \cup {i}]

LEMMA KindsAre ==
    /\ TYPE_ERROR \notin TypeKind /\ TYPE_ERROR \notin Numeric /\ Numeric \subseteq TypeKind
    /\ "TYPE_BOOL" \in TypeKind /\ "TYPE_BOOL" # TYPE_ERROR
    /\ \A k : isNumeric(k) <=> k \in Numeric
    /\ \A k : isBoolean(k) <=> k = "TYPE_BOOL"
    /\ \A a, b : a \in Numeric /\ b \in Numeric => coerceNumeric(a, b) \in Numeric
    /\ \A a, b : a \in Numeric /\ b \in Numeric => coerceNumeric(a, b) = coerceNumeric(b, a)
    /\ \A a, b : ~(a \in Numeric /\ b \in Numeric) => coerceNumeric(a, b) = TYPE_ERROR
    /\ \A a, b : isComparable(a, b) <=> a = b \/ (a \in Numeric /\ b \in Numeric)
    /\ \A leaf \in LiteralType : inferLiteralType(leaf) \in TypeKind
<1>1. \A k : isNumeric(k) <=> k \in Numeric
  BY DEF isNumeric, Numeric
<1>2. /\ TYPE_ERROR \notin TypeKind /\ TYPE_ERROR \notin Numeric /\ Numeric \subseteq TypeKind
      /\ "TYPE_BOOL" \in TypeKind /\ "TYPE_BOOL" # TYPE_ERROR
  BY DEF TYPE_ERROR, TypeKind, Numeric
<1>3. \A a, b : a \in Numeric /\ b \in Numeric => coerceNumeric(a, b) \in Numeric
  BY <1>1 DEF coerceNumeric
<1>4. \A a, b : a \in Numeric /\ b \in Numeric => coerceNumeric(a, b) = coerceNumeric(b, a)
  BY <1>1 DEF coerceNumeric, Numeric
<1>5. \A a, b : ~(a \in Numeric /\ b \in Numeric) => coerceNumeric(a, b) = TYPE_ERROR
  BY <1>1 DEF coerceNumeric
<1>6. \A a, b : isComparable(a, b) <=> a = b \/ (a \in Numeric /\ b \in Numeric)
  BY <1>1 DEF isComparable
<1>7. \A leaf \in LiteralType : inferLiteralType(leaf) \in TypeKind
  BY DEF inferLiteralType, LiteralType, TypeKind
<1>8. \A k : isBoolean(k) <=> k = "TYPE_BOOL"
  BY DEF isBoolean
<1> QED BY <1>1, <1>2, <1>3, <1>4, <1>5, <1>6, <1>7, <1>8

LEMMA AttributeFound ==
    ASSUME ParserAssumption, NEW name, AttributeNamed(Scope, name)
    PROVE  lookupAttribute(Scope, name).kind \in TypeKind
<1> DEFINE T == {i \in DOMAIN Scope : Scope[i].name = name}
<1>1. Scope \in Seq(Attribute) /\ DOMAIN Scope = 1 .. Len(Scope) /\ Len(Scope) \in Nat
  BY DEF ParserAssumption
<1>2. T \subseteq Nat /\ T # {}
  BY <1>1 DEF AttributeNamed
<1>3. PICK x \in T : \A y \in T : ~(y < x)
  <2> HIDE DEF T
  <2> QED BY <1>2, LeastNumber
<1>4. x \in DOMAIN Scope /\ Scope[x].name = name
      /\ \A j \in DOMAIN Scope : Scope[j].name = name => x <= j
  BY <1>1, <1>3
<1>5. PICK y \in DOMAIN Scope : lookupAttribute(Scope, name) = Scope[y]
  BY <1>4 DEF lookupAttribute
<1>6. Scope[y] \in Attribute
  BY <1>1
<1> QED BY <1>5, <1>6 DEF Attribute

\* One arm of the inference per type of node.
LEMMA LeafArms ==
    ASSUME NEW node, NEW i, NEW f
    PROVE  /\ node.type = "LITERAL_EXPR" =>
                 inferNode(node, i, f, Scope) = Typed(node, f, inferLiteralType(node.leaf))
           /\ node.type = "IDENTIFIER_EXPR" =>
                 inferNode(node, i, f, Scope) =
                     IF AttributeNamed(Scope, node.leaf)
                     THEN Typed(node, f, lookupAttribute(Scope, node.leaf).kind)
                     ELSE Mistyped(node, i, f)
BY DEF inferNode, Typed, Mistyped, LoggedIn


LEMMA OperatorArms ==
    ASSUME NEW node, NEW i, NEW f
    PROVE  /\ node.type = "ARITHMETIC_EXPR" =>
                 inferNode(node, i, f, Scope) =
                     IF KindIn(node, f, 1) \in Numeric /\ KindIn(node, f, 2) \in Numeric
                     THEN Typed(node, f, coerceNumeric(KindIn(node, f, 1), KindIn(node, f, 2)))
                     ELSE Mistyped(node, i, f)
           /\ node.type = "RELATIONAL_EXPR" =>
                 inferNode(node, i, f, Scope) =
                     IF isComparable(KindIn(node, f, 1), KindIn(node, f, 2))
                     THEN Typed(node, f, "TYPE_BOOL") ELSE Mistyped(node, i, f)
           /\ node.type = "LOGICAL_EXPR" =>
                 inferNode(node, i, f, Scope) =
                     IF KindIn(node, f, 1) = "TYPE_BOOL" /\ KindIn(node, f, 2) = "TYPE_BOOL"
                     THEN Typed(node, f, "TYPE_BOOL") ELSE Mistyped(node, i, f)
           /\ node.type = "LOGICAL_NOT_EXPR" =>
                 inferNode(node, i, f, Scope) =
                     IF KindIn(node, f, 1) = "TYPE_BOOL"
                     THEN Typed(node, f, "TYPE_BOOL") ELSE Mistyped(node, i, f)
<1>1. CASE node.type = "ARITHMETIC_EXPR"
  BY <1>1 DEF inferNode, Typed, Mistyped, LoggedIn, KindIn, isNumeric, Numeric
<1>2. CASE node.type = "RELATIONAL_EXPR"
  BY <1>2 DEF inferNode, Typed, Mistyped, LoggedIn, KindIn
<1>3. CASE node.type = "LOGICAL_EXPR"
  BY <1>3 DEF inferNode, Typed, Mistyped, LoggedIn, KindIn, isBoolean
<1>4. CASE node.type = "LOGICAL_NOT_EXPR"
  BY <1>4 DEF inferNode, Typed, Mistyped, LoggedIn, KindIn, isBoolean
<1> QED BY <1>1, <1>2, <1>3, <1>4

LEMMA NestingArms ==
    ASSUME NEW node, NEW i, NEW f
    PROVE  /\ node.type = "CONDITIONAL_EXPR" /\ KindIn(node, f, 1) # "TYPE_BOOL" =>
                 inferNode(node, i, f, Scope) =
                     [kind |-> TYPE_ERROR, errors |-> f[node.args[1]].errors \cup {i}]
           /\ node.type = "CONDITIONAL_EXPR" /\ KindIn(node, f, 1) = "TYPE_BOOL" =>
                 inferNode(node, i, f, Scope) =
                     IF KindIn(node, f, 2) = KindIn(node, f, 3)
                     THEN Typed(node, f, KindIn(node, f, 2))
                     ELSE IF KindIn(node, f, 2) \in Numeric /\ KindIn(node, f, 3) \in Numeric
                     THEN Typed(node, f, coerceNumeric(KindIn(node, f, 2), KindIn(node, f, 3)))
                     ELSE Mistyped(node, i, f)
           /\ node.type = "PARENTHESIZED_EXPR" =>
                 inferNode(node, i, f, Scope) = Typed(node, f, KindIn(node, f, 1))
<1>1. CASE node.type = "CONDITIONAL_EXPR" /\ KindIn(node, f, 1) # "TYPE_BOOL"
  BY <1>1 DEF inferNode, KindIn, isBoolean
<1>2. CASE node.type = "CONDITIONAL_EXPR" /\ KindIn(node, f, 1) = "TYPE_BOOL"
  <2>1. coerceNumeric(KindIn(node, f, 2), KindIn(node, f, 3)) # TYPE_ERROR
            <=> KindIn(node, f, 2) \in Numeric /\ KindIn(node, f, 3) \in Numeric
    BY KindsAre
  <2>2. inferNode(node, i, f, Scope) =
            IF KindIn(node, f, 2) = KindIn(node, f, 3)
            THEN Typed(node, f, KindIn(node, f, 2))
            ELSE IF coerceNumeric(KindIn(node, f, 2), KindIn(node, f, 3)) # TYPE_ERROR
            THEN Typed(node, f, coerceNumeric(KindIn(node, f, 2), KindIn(node, f, 3)))
            ELSE Mistyped(node, i, f)
    BY <1>2 DEF inferNode, Typed, Mistyped, LoggedIn, KindIn, isBoolean
  <2> QED BY <1>2, <2>1, <2>2
<1>3. CASE node.type = "PARENTHESIZED_EXPR"
  BY <1>3 DEF inferNode, Typed, LoggedIn, KindIn
<1> QED BY <1>1, <1>2, <1>3

\* A comparison of two operands without a type.
MasksHere(node, f) ==
    node.type = "RELATIONAL_EXPR" /\ \A k \in {1, 2} : KindIn(node, f, k) = TYPE_ERROR

\* A node without a type has logged an error, or an operand has none either; and
\* what is logged below a node with a type is logged below an operand with one,
\* unless the node masks it.
Explains(node, i, f, r) ==
    r.kind = TYPE_ERROR =>
        \/ i \in r.errors
        \/ \E k \in DOMAIN node.args :
               KindIn(node, f, k) = TYPE_ERROR /\ f[node.args[k]].errors \subseteq r.errors
PassesOn(node, f, r) ==
    r.kind # TYPE_ERROR /\ ~MasksHere(node, f) =>
        \A e \in r.errors : \E k \in DOMAIN node.args :
            KindIn(node, f, k) # TYPE_ERROR /\ e \in f[node.args[k]].errors

LEMMA InferSays ==
    ASSUME ParserAssumption, NEW expr \in Trees, NEW node, CanTake(expr, node), NEW i \in Nat,
           NEW f, \A k \in DOMAIN node.args : f[node.args[k]] \in Result,
           NEW r, r = inferNode(node, i, f, Scope)
    PROVE  r \in Result /\ Explains(node, i, f, r) /\ PassesOn(node, f, r)
<1> PICK logged : logged = LoggedIn(node, f)
  OBVIOUS
<1> DEFINE Goal == r \in Result /\ Explains(node, i, f, r) /\ PassesOn(node, f, r)
           Args == DOMAIN node.args
<1> SUFFICES Goal
  OBVIOUS
<1>1. /\ node.type \in ExpressionType /\ Args = 1 .. Arity[node.type] /\ OpFits(node)
  BY DEF CanTake, ParsedNode
<1>2. /\ logged \in SUBSET Nat
      /\ \A k \in Args : f[node.args[k]].errors \subseteq logged
      /\ \A e \in logged : \E k \in Args : e \in f[node.args[k]].errors
  BY DEF LoggedIn, Result
<1>3. \A k \in Args : KindIn(node, f, k) \in Kinds
  BY DEF KindIn, Result
<1>4. ASSUME r = Mistyped(node, i, f) PROVE Goal
  <2>1. r = [kind |-> TYPE_ERROR, errors |-> logged \cup {i}]
    BY <1>4 DEF Mistyped
  <2>2. r.kind = TYPE_ERROR /\ i \in r.errors
    BY <2>1
  <2>3. r \in Result
    BY <1>2, <2>1 DEF Result, Kinds
  <2> QED BY <2>2, <2>3 DEF Explains, PassesOn
<1>5. ASSUME NEW k \in TypeKind, r = Typed(node, f, k),
             MasksHere(node, f) \/ \A j \in Args : KindIn(node, f, j) # TYPE_ERROR
      PROVE  Goal
  <2>1. r = [kind |-> k, errors |-> logged]
    BY <1>5 DEF Typed
  <2>2. r.kind = k /\ r.errors = logged /\ k # TYPE_ERROR
    BY <2>1, KindsAre
  <2>3. r \in Result
    BY <1>2, <2>1 DEF Result, Kinds
  <2>4. PassesOn(node, f, r)
    BY <1>2, <1>5, <2>2 DEF PassesOn
  <2> QED BY <2>2, <2>3, <2>4 DEF Explains
<1>6. ASSUME NEW m \in Args, r = Typed(node, f, KindIn(node, f, m)),
             KindIn(node, f, m) # TYPE_ERROR => \A j \in Args : KindIn(node, f, j) # TYPE_ERROR
      PROVE  Goal
  <2>1. CASE KindIn(node, f, m) # TYPE_ERROR
    <3>1. KindIn(node, f, m) \in TypeKind
      BY <1>3, <2>1 DEF Kinds
    <3> HIDE DEF Goal
    <3> QED BY <1>5, <1>6, <2>1, <3>1
  <2>2. CASE KindIn(node, f, m) = TYPE_ERROR
    <3>1. r = [kind |-> TYPE_ERROR, errors |-> logged]
      BY <1>6, <2>2 DEF Typed
    <3>2. r \in Result
      BY <1>2, <3>1 DEF Result, Kinds
    <3>3. r.kind = TYPE_ERROR /\ f[node.args[m]].errors \subseteq r.errors
      BY <1>2, <3>1
    <3> QED BY <2>2, <3>2, <3>3 DEF Explains, PassesOn
  <2> QED BY <2>1, <2>2
<1> HIDE DEF Goal
<1>7. CASE node.type = "LITERAL_EXPR"
  <2>1. inferLiteralType(node.leaf) \in TypeKind
    BY <1>1, <1>7, KindsAre DEF OpFits
  <2>2. Args = {}
    BY <1>1, <1>7, ArityIs
  <2>3. r = Typed(node, f, inferLiteralType(node.leaf))
    BY <1>7, LeafArms
  <2> QED BY <1>5, <2>1, <2>2, <2>3
<1>8. CASE node.type = "IDENTIFIER_EXPR"
  <2>1. Args = {}
    BY <1>1, <1>8, ArityIs
  <2>2. CASE AttributeNamed(Scope, node.leaf)
    <3>1. r = Typed(node, f, lookupAttribute(Scope, node.leaf).kind)
      BY <1>8, <2>2, LeafArms
    <3>2. lookupAttribute(Scope, node.leaf).kind \in TypeKind
      BY <2>2, AttributeFound
    <3> QED BY <1>5, <2>1, <3>1, <3>2
  <2>3. CASE ~AttributeNamed(Scope, node.leaf)
    <3>1. r = Mistyped(node, i, f)
      BY <1>8, <2>3, LeafArms
    <3> QED BY <1>4, <3>1
  <2> QED BY <2>2, <2>3
<1>9. CASE Infix(node)
  <2>1. /\ node.type \in {"ARITHMETIC_EXPR", "RELATIONAL_EXPR", "LOGICAL_EXPR"}
        /\ Args = {1, 2}
    BY <1>1, <1>9, ArityIs DEF Infix
  <2> PICK a, b : a = KindIn(node, f, 1) /\ b = KindIn(node, f, 2)
    OBVIOUS
  <2>2. CASE r = Mistyped(node, i, f)
    BY <1>4, <2>2
  <2>3. CASE r # Mistyped(node, i, f)
    <3>1. CASE node.type = "ARITHMETIC_EXPR"
      <4>1. a \in Numeric /\ b \in Numeric /\ r = Typed(node, f, coerceNumeric(a, b))
        BY <2>3, <3>1, OperatorArms
      <4>2. coerceNumeric(a, b) \in TypeKind /\ a # TYPE_ERROR /\ b # TYPE_ERROR
        BY <4>1, KindsAre
      <4>3. \A j \in Args : KindIn(node, f, j) # TYPE_ERROR
        BY <2>1, <4>2
      <4> QED BY <1>5, <4>1, <4>2, <4>3
    <3>2. CASE node.type = "RELATIONAL_EXPR"
      <4>1. isComparable(a, b) /\ r = Typed(node, f, "TYPE_BOOL")
        BY <2>3, <3>2, OperatorArms
      <4>2. a = b \/ (a # TYPE_ERROR /\ b # TYPE_ERROR)
        BY <4>1, KindsAre
      <4>3. MasksHere(node, f) \/ \A j \in Args : KindIn(node, f, j) # TYPE_ERROR
        BY <2>1, <3>2, <4>2 DEF MasksHere
      <4>4. "TYPE_BOOL" \in TypeKind
        BY KindsAre
      <4> QED BY <1>5, <4>1, <4>3, <4>4
    <3>3. CASE node.type = "LOGICAL_EXPR"
      <4>1. a = "TYPE_BOOL" /\ b = "TYPE_BOOL" /\ r = Typed(node, f, "TYPE_BOOL")
        BY <2>3, <3>3, OperatorArms
      <4>2. "TYPE_BOOL" \in TypeKind /\ "TYPE_BOOL" # TYPE_ERROR
        BY KindsAre
      <4>3. \A j \in Args : KindIn(node, f, j) # TYPE_ERROR
        BY <2>1, <4>1, <4>2
      <4> QED BY <1>5, <4>1, <4>2, <4>3
    <3> QED BY <2>1, <3>1, <3>2, <3>3
  <2> QED BY <2>2, <2>3
<1>10. CASE node.type = "LOGICAL_NOT_EXPR"
  <2>1. Args = {1}
    BY <1>1, <1>10, ArityIs
  <2>2. CASE KindIn(node, f, 1) = "TYPE_BOOL"
    <3>1. r = Typed(node, f, "TYPE_BOOL")
      BY <1>10, <2>2, OperatorArms
    <3>2. "TYPE_BOOL" \in TypeKind /\ \A j \in Args : KindIn(node, f, j) # TYPE_ERROR
      BY <2>1, <2>2, KindsAre
    <3> QED BY <1>5, <3>1, <3>2
  <2>3. CASE KindIn(node, f, 1) # "TYPE_BOOL"
    <3>1. r = Mistyped(node, i, f)
      BY <1>10, <2>3, OperatorArms
    <3> QED BY <1>4, <3>1
  <2> QED BY <2>2, <2>3
<1>11. CASE node.type = "CONDITIONAL_EXPR"
  <2>1. Args = {1, 2, 3}
    BY <1>1, <1>11, ArityIs
  <2> PICK a, b : a = KindIn(node, f, 2) /\ b = KindIn(node, f, 3)
    OBVIOUS
  <2>2. CASE KindIn(node, f, 1) # "TYPE_BOOL"
    <3>1. r = [kind |-> TYPE_ERROR, errors |-> f[node.args[1]].errors \cup {i}]
      BY <1>11, <2>2, NestingArms
    <3>2. f[node.args[1]] \in Result
      BY <2>1
    <3>3. r \in Result
      BY <3>1, <3>2 DEF Result, Kinds
    <3>4. r.kind = TYPE_ERROR /\ i \in r.errors
      BY <3>1
    <3> QED BY <3>3, <3>4 DEF Goal, Explains, PassesOn
  <2>3. CASE KindIn(node, f, 1) = "TYPE_BOOL"
    <3>1. r = IF a = b THEN Typed(node, f, a)
              ELSE IF a \in Numeric /\ b \in Numeric THEN Typed(node, f, coerceNumeric(a, b))
              ELSE Mistyped(node, i, f)
      BY <1>11, <2>3, NestingArms
    <3>2. KindIn(node, f, 1) # TYPE_ERROR
      BY <2>3, KindsAre
    <3>3. CASE a = b
      <4>1. r = Typed(node, f, KindIn(node, f, 2)) /\ 2 \in Args
        BY <2>1, <3>1, <3>3
      <4>2. KindIn(node, f, 2) # TYPE_ERROR => \A j \in Args : KindIn(node, f, j) # TYPE_ERROR
        BY <2>1, <3>2, <3>3
      <4> QED BY <1>6, <4>1, <4>2
    <3>4. CASE a # b /\ a \in Numeric /\ b \in Numeric
      <4>1. r = Typed(node, f, coerceNumeric(a, b))
        BY <3>1, <3>4
      <4>2. coerceNumeric(a, b) \in TypeKind /\ a # TYPE_ERROR /\ b # TYPE_ERROR
        BY <3>4, KindsAre
      <4>3. \A j \in Args : KindIn(node, f, j) # TYPE_ERROR
        BY <2>1, <3>2, <4>2
      <4> QED BY <1>5, <4>1, <4>2, <4>3
    <3>5. CASE a # b /\ ~(a \in Numeric /\ b \in Numeric)
      BY <1>4, <3>1, <3>5
    <3> QED BY <3>3, <3>4, <3>5
  <2> QED BY <2>2, <2>3
<1>12. CASE node.type = "PARENTHESIZED_EXPR"
  <2>1. Args = {1}
    BY <1>1, <1>12, ArityIs
  <2>2. r = Typed(node, f, KindIn(node, f, 1))
    BY <1>12, NestingArms
  <2>3. KindIn(node, f, 1) # TYPE_ERROR => \A j \in Args : KindIn(node, f, j) # TYPE_ERROR
    BY <2>1
  <2> QED BY <1>6, <2>1, <2>2, <2>3
<1> QED BY <1>1, <1>7, <1>8, <1>9, <1>10, <1>11, <1>12 DEF ExpressionType, Infix


LEMMA InferLooks ==
    ASSUME NEW expr \in Trees, NEW node, CanTake(expr, node), NEW i, NEW f, NEW g,
           \A k \in DOMAIN node.args : f[node.args[k]] = g[node.args[k]]
    PROVE  inferNode(node, i, f, Scope) = inferNode(node, i, g, Scope)
<1>1. node.type \in ExpressionType /\ DOMAIN node.args = 1 .. Arity[node.type]
  BY DEF CanTake, ParsedNode
<1>2. \A k \in DOMAIN node.args : KindIn(node, f, k) = KindIn(node, g, k)
  BY DEF KindIn
<1>3. LoggedIn(node, f) = LoggedIn(node, g)
  BY DEF LoggedIn
<1>4. \A k : Typed(node, f, k) = Typed(node, g, k)
  BY <1>3 DEF Typed
<1>5. Mistyped(node, i, f) = Mistyped(node, i, g)
  BY <1>3 DEF Mistyped
<1>6. CASE node.type \in {"LITERAL_EXPR", "IDENTIFIER_EXPR"}
  BY <1>4, <1>5, <1>6, LeafArms
<1>7. CASE Infix(node)
  <2>1. 1 \in DOMAIN node.args /\ 2 \in DOMAIN node.args
    BY <1>1, <1>7, ArityIs DEF Infix
  <2>2. KindIn(node, f, 1) = KindIn(node, g, 1) /\ KindIn(node, f, 2) = KindIn(node, g, 2)
    BY <1>2, <2>1
  <2>3. node.type \in {"ARITHMETIC_EXPR", "RELATIONAL_EXPR", "LOGICAL_EXPR"}
    BY <1>7 DEF Infix
  <2>4. CASE node.type = "ARITHMETIC_EXPR"
    BY <1>4, <1>5, <2>2, <2>4, OperatorArms
  <2>5. CASE node.type = "RELATIONAL_EXPR"
    BY <1>4, <1>5, <2>2, <2>5, OperatorArms
  <2>6. CASE node.type = "LOGICAL_EXPR"
    BY <1>4, <1>5, <2>2, <2>6, OperatorArms
  <2> QED BY <2>3, <2>4, <2>5, <2>6
<1>8. CASE node.type = "LOGICAL_NOT_EXPR"
  <2>1. KindIn(node, f, 1) = KindIn(node, g, 1)
    BY <1>1, <1>2, <1>8, ArityIs
  <2> QED BY <1>4, <1>5, <1>8, <2>1, OperatorArms
<1>9. CASE node.type = "CONDITIONAL_EXPR"
  <2>1. 1 \in DOMAIN node.args /\ 2 \in DOMAIN node.args /\ 3 \in DOMAIN node.args
    BY <1>1, <1>9, ArityIs
  <2>2. /\ KindIn(node, f, 1) = KindIn(node, g, 1) /\ KindIn(node, f, 2) = KindIn(node, g, 2)
        /\ KindIn(node, f, 3) = KindIn(node, g, 3) /\ f[node.args[1]] = g[node.args[1]]
    BY <1>2, <2>1
  <2>3. CASE KindIn(node, f, 1) # "TYPE_BOOL"
    BY <1>9, <2>2, <2>3, NestingArms
  <2>4. CASE KindIn(node, f, 1) = "TYPE_BOOL"
    BY <1>4, <1>5, <1>9, <2>2, <2>4, NestingArms
  <2> QED BY <2>3, <2>4
<1>10. CASE node.type = "PARENTHESIZED_EXPR"
  <2>1. KindIn(node, f, 1) = KindIn(node, g, 1)
    BY <1>1, <1>2, <1>10, ArityIs
  <2> QED BY <1>4, <1>10, <2>1, NestingArms
<1> QED BY <1>1, <1>6, <1>7, <1>8, <1>9, <1>10 DEF ExpressionType, Infix

IsInference(expr, f) == \A i \in DOMAIN expr : f[i] = inferNode(expr[i], i, f, Scope)

LEMMA InferenceUnique ==
    ASSUME NEW expr \in Trees, NEW f, IsInference(expr, f), NEW g, IsInference(expr, g)
    PROVE  \A i \in DOMAIN expr : f[i] = g[i]
<1> DEFINE n == Len(expr)
           G == {i \in 1 .. n : f[i] = g[i]}
<1>0. n \in Nat /\ DOMAIN expr = 1 .. n
  BY TreeIs
<1>1. ASSUME NEW i \in 1 .. n, \A j \in 1 .. i - 1 : j \in G PROVE i \in G
  <2>1. CanTake(expr, expr[i]) /\ \A k \in DOMAIN expr[i].args : expr[i].args[k] \in 1 .. i - 1
    BY <1>0, NodeFits
  <2>2. \A k \in DOMAIN expr[i].args : f[expr[i].args[k]] = g[expr[i].args[k]]
    BY <1>1, <2>1
  <2>3. inferNode(expr[i], i, f, Scope) = inferNode(expr[i], i, g, Scope)
    BY <2>1, <2>2, InferLooks
  <2> QED BY <1>0, <2>3 DEF IsInference
<1>2. \A i \in 1 .. n : i \in G
  <2> HIDE DEF G
  <2> QED BY <1>0, <1>1, StrongInduction
<1> QED BY <1>0, <1>2

LEMMA InferenceDefined ==
    ASSUME ParserAssumption, NEW expr \in Trees
    PROVE  \E f \in [1 .. Len(expr) -> Result] : IsInference(expr, f)
<1> DEFINE F == [1 .. Len(expr) -> Result]
           st == [i \in 1 .. Len(expr) |-> [f \in F |-> inferNode(expr[i], i, f, Scope)]]
<1>0. Len(expr) \in Nat /\ DOMAIN expr = 1 .. Len(expr)
  BY TreeIs
<1>1. ASSUME NEW i \in 1 .. Len(expr), NEW f \in F PROVE inferNode(expr[i], i, f, Scope) \in Result
  <2>1. CanTake(expr, expr[i]) /\ i \in Nat
    BY <1>0, NodeFits
  <2>2. \A k \in DOMAIN expr[i].args : f[expr[i].args[k]] \in Result
    BY <1>0, <2>1 DEF CanTake
  <2> QED BY <2>1, <2>2, InferSays
<1>2. st \in [1 .. Len(expr) -> [F -> Result]]
  <2> HIDE DEF F
  <2> QED BY <1>1
<1>3. ASSUME NEW i \in DOMAIN expr, NEW f \in F, NEW g \in F,
             \A k \in DOMAIN expr[i].args : f[expr[i].args[k]] = g[expr[i].args[k]]
      PROVE  st[i][f] = st[i][g]
  <2>1. inferNode(expr[i], i, f, Scope) = inferNode(expr[i], i, g, Scope)
    <3> HIDE DEF F
    <3> QED BY <1>3, NodeFits, InferLooks
  <2> HIDE DEF F
  <2> QED BY <1>0, <2>1
<1>4. Result # {}
  <2>1. [kind |-> TYPE_ERROR, errors |-> {}] \in Result
    BY DEF Result, Kinds
  <2> QED BY <2>1
<1>5. LooksDown(expr, Result, st)
  <2> HIDE DEF st
  <2> QED BY <1>2, <1>3, <1>4, Zenon DEF LooksDown
<1>6. PICK f \in F : \A i \in DOMAIN expr : f[i] = st[i][f]
  <2> HIDE DEF st
  <2> QED BY <1>5, TreeRecursion
<1>7. \A i \in DOMAIN expr : f[i] = inferNode(expr[i], i, f, Scope)
  <2> HIDE DEF F
  <2> QED BY <1>0, <1>6
<1> QED BY <1>6, <1>7 DEF IsInference

LEMMA InferenceIs ==
    ASSUME ParserAssumption, NEW expr \in Trees
    PROVE  /\ IsInference(expr, inferTypes(expr, Scope))
           /\ \A i \in DOMAIN expr : inferTypes(expr, Scope)[i] \in Result
<1> DEFINE Is(f) == f = [i \in DOMAIN expr |-> inferNode(expr[i], i, f, Scope)]
           R == inferTypes(expr, Scope)
<1>0. Len(expr) \in Nat /\ DOMAIN expr = 1 .. Len(expr)
  BY TreeIs
<1>1. PICK f \in [1 .. Len(expr) -> Result] : IsInference(expr, f)
  BY InferenceDefined
<1>2. Is(f)
  <2>1. f = [i \in DOMAIN expr |-> f[i]]
    BY <1>0
  <2> QED BY <1>1, <2>1 DEF IsInference
<1>3. Is(R)
  <2>1. R = CHOOSE g : Is(g)
    BY DEF inferTypes
  <2> HIDE DEF Is, R
  <2> QED BY <1>2, <2>1
<1>4. IsInference(expr, R)
  <2>1. \A i \in DOMAIN expr :
            [j \in DOMAIN expr |-> inferNode(expr[j], j, R, Scope)][i]
                = inferNode(expr[i], i, R, Scope)
    OBVIOUS
  <2> HIDE DEF R
  <2> QED BY <1>3, <2>1, Zenon DEF IsInference
<1>5. \A i \in DOMAIN expr : R[i] = f[i]
  <2> HIDE DEF R
  <2> QED BY <1>1, <1>4, InferenceUnique
<1> QED BY <1>0, <1>1, <1>4, <1>5

LEMMA InferenceStays ==
    ASSUME ParserAssumption, NEW expr \in Trees, NEW big \in Trees, Extends(big, expr)
    PROVE  \A i \in DOMAIN expr : inferTypes(expr, Scope)[i] = inferTypes(big, Scope)[i]
<1>1. IsInference(expr, inferTypes(expr, Scope)) /\ IsInference(big, inferTypes(big, Scope))
  BY InferenceIs
<1>2. IsInference(expr, inferTypes(big, Scope))
  BY <1>1 DEF IsInference, Extends
<1> QED BY <1>1, <1>2, InferenceUnique

\* The tree below a node infers as it does alone.
LEMMA InferencePrefix ==
    ASSUME ParserAssumption, NEW expr \in Trees, NEW j \in DOMAIN expr
    PROVE  inferExpressionType(SubSeq(expr, 1, j), Scope) = inferTypes(expr, Scope)[j]
<1> PICK small : small = SubSeq(expr, 1, j)
  OBVIOUS
<1>0. expr \in Seq(ParsedNode) /\ Len(expr) \in Nat /\ DOMAIN expr = 1 .. Len(expr)
  BY TreeIs
<1>1. /\ small \in Seq(ParsedNode) /\ Len(small) = j /\ DOMAIN small = 1 .. j
      /\ \A i \in 1 .. j : small[i] = expr[i] /\ i \in DOMAIN expr
  <2>1. j \in Nat /\ j <= Len(expr)
    BY <1>0
  <2>2. small = [i \in 1 .. j |-> expr[i]]
    BY <1>0, <2>1
  <2>3. \A i \in 1 .. j : i \in DOMAIN expr /\ expr[i] \in ParsedNode
    BY <1>0, <2>1
  <2>4. small \in Seq(ParsedNode) /\ Len(small) = j
    BY <2>1, <2>2, <2>3
  <2> QED BY <2>1, <2>2, <2>3, <2>4
<1>2. small \in Trees
  <2>1. ASSUME NEW i \in DOMAIN small
        PROVE  /\ Len(small[i].args) = Arity[small[i].type]
               /\ \A k \in DOMAIN small[i].args : small[i].args[k] \in 1 .. i - 1
               /\ OpFits(small[i])
    <3>1. small[i] = expr[i] /\ i \in DOMAIN expr
      BY <1>1
    <3> QED BY <3>1, OperandsAre
  <2> QED BY <1>1, <2>1 DEF Trees
<1>3. Extends(expr, small) /\ j \in DOMAIN small
  BY <1>0, <1>1 DEF Extends
<1>4. inferTypes(small, Scope)[j] = inferTypes(expr, Scope)[j]
  BY <1>2, <1>3, InferenceStays
<1> QED BY <1>1, <1>4 DEF inferExpressionType

\* By induction over the tree: no node is without a type and without an error below.
LEMMA ErrorsExplain ==
    ASSUME ParserAssumption, NEW expr \in Trees, NEW f, f = inferTypes(expr, Scope)
    PROVE  \A i \in DOMAIN expr : f[i].kind = TYPE_ERROR => f[i].errors # {}
<1> DEFINE n == Len(expr)
           G == {i \in 1 .. n : f[i].kind = TYPE_ERROR => f[i].errors # {}}
<1>0. n \in Nat /\ DOMAIN expr = 1 .. n
  BY TreeIs
<1>1. IsInference(expr, f) /\ \A i \in DOMAIN expr : f[i] \in Result
  BY InferenceIs
<1>2. ASSUME NEW i \in 1 .. n, \A j \in 1 .. i - 1 : j \in G PROVE i \in G
  <2>1. CanTake(expr, expr[i]) /\ \A k \in DOMAIN expr[i].args : expr[i].args[k] \in 1 .. i - 1
    BY <1>0, NodeFits
  <2>2. \A k \in DOMAIN expr[i].args : f[expr[i].args[k]] \in Result
    BY <1>1, <2>1 DEF CanTake
  <2>3. f[i] = inferNode(expr[i], i, f, Scope) /\ i \in Nat
    BY <1>0, <1>1 DEF IsInference
  <2>4. Explains(expr[i], i, f, f[i])
    BY <2>1, <2>2, <2>3, InferSays
  <2>5. ASSUME f[i].kind = TYPE_ERROR PROVE f[i].errors # {}
    <3>1. CASE i \in f[i].errors
      BY <3>1
    <3>2. CASE i \notin f[i].errors
      <4>1. PICK k \in DOMAIN expr[i].args :
                KindIn(expr[i], f, k) = TYPE_ERROR /\ f[expr[i].args[k]].errors \subseteq f[i].errors
        BY <2>4, <2>5, <3>2 DEF Explains
      <4>2. f[expr[i].args[k]].errors # {}
        BY <1>2, <2>1, <4>1 DEF KindIn
      <4> QED BY <4>1, <4>2
    <3> QED BY <3>1, <3>2
  <2> QED BY <2>5
<1>3. \A i \in 1 .. n : i \in G
  <2> HIDE DEF G
  <2> QED BY <1>0, <1>2, StrongInduction
<1> QED BY <1>0, <1>3

\* By induction over the tree: what a node with a type has below it in errors, some
\* comparison masks.
LEMMA ErrorsMasked ==
    ASSUME ParserAssumption, NEW expr \in Trees, NEW f, f = inferTypes(expr, Scope)
    PROVE  \A i \in DOMAIN expr : f[i].kind # TYPE_ERROR /\ f[i].errors # {} =>
               \E m \in DOMAIN expr : MasksHere(expr[m], f)
<1> DEFINE n == Len(expr)
           Masked == \E m \in DOMAIN expr : MasksHere(expr[m], f)
           G == {i \in 1 .. n : f[i].kind # TYPE_ERROR /\ f[i].errors # {} => Masked}
<1>0. n \in Nat /\ DOMAIN expr = 1 .. n
  BY TreeIs
<1>1. IsInference(expr, f) /\ \A i \in DOMAIN expr : f[i] \in Result
  BY InferenceIs
<1>2. ASSUME NEW i \in 1 .. n, \A j \in 1 .. i - 1 : j \in G PROVE i \in G
  <2>1. CanTake(expr, expr[i]) /\ \A k \in DOMAIN expr[i].args : expr[i].args[k] \in 1 .. i - 1
    BY <1>0, NodeFits
  <2>2. \A k \in DOMAIN expr[i].args : f[expr[i].args[k]] \in Result
    BY <1>1, <2>1 DEF CanTake
  <2>3. f[i] = inferNode(expr[i], i, f, Scope) /\ i \in Nat
    BY <1>0, <1>1 DEF IsInference
  <2>4. PassesOn(expr[i], f, f[i])
    BY <2>1, <2>2, <2>3, InferSays
  <2>5. ASSUME f[i].kind # TYPE_ERROR, f[i].errors # {} PROVE Masked
    <3>1. CASE MasksHere(expr[i], f)
      BY <1>0, <3>1
    <3>2. CASE ~MasksHere(expr[i], f)
      <4>1. PICK e : e \in f[i].errors
        BY <2>5
      <4>2. PICK k \in DOMAIN expr[i].args :
                KindIn(expr[i], f, k) # TYPE_ERROR /\ e \in f[expr[i].args[k]].errors
        BY <2>4, <2>5, <3>2, <4>1 DEF PassesOn
      <4>3. expr[i].args[k] \in G /\ f[expr[i].args[k]].errors # {}
        BY <1>2, <2>1, <4>2
      <4> QED BY <4>2, <4>3 DEF KindIn
    <3> QED BY <3>1, <3>2
  <2> QED BY <2>5
<1>3. \A i \in 1 .. n : i \in G
  <2> HIDE DEF G
  <2> QED BY <1>0, <1>2, StrongInduction
<1> QED BY <1>0, <1>3


\* A node whose two operands change places.
Swapped(node) == [node EXCEPT !.args = <<node.args[2], node.args[1]>>]

LEMMA SwappedIs ==
    ASSUME NEW expr \in Trees, NEW node, CanTake(expr, node), Infix(node)
    PROVE  /\ Swapped(node) \in ParsedNode /\ Swapped(node).type = node.type
           /\ Len(Swapped(node).args) = 2 /\ DOMAIN Swapped(node).args = {1, 2}
           /\ Swapped(node).args[1] = node.args[2] /\ Swapped(node).args[2] = node.args[1]
           /\ OpFits(Swapped(node)) /\ DOMAIN node.args = {1, 2}
<1> PICK s : s = Swapped(node)
  OBVIOUS
<1>1. node \in ParsedNode /\ Len(node.args) = 2 /\ OpFits(node)
  BY ArityIs DEF CanTake, Infix
<1>2. node.args \in Seq(Nat) /\ DOMAIN node.args = {1, 2}
  BY <1>1 DEF ParsedNode
<1>3. node.args[1] \in Nat /\ node.args[2] \in Nat
  BY <1>1, <1>2
<1> PICK pair : pair = <<node.args[2], node.args[1]>>
  OBVIOUS
<1>4. /\ pair \in Seq(Nat) /\ Len(pair) = 2 /\ DOMAIN pair = {1, 2}
      /\ pair[1] = node.args[2] /\ pair[2] = node.args[1]
  BY <1>3
<1>5. s \in ParsedNode /\ s.type = node.type /\ s.op = node.op /\ s.leaf = node.leaf
      /\ s.args = pair
  BY <1>1, <1>4 DEF ParsedNode, Swapped
<1>6. OpFits(s)
  BY <1>1, <1>5 DEF OpFits
<1> QED BY <1>2, <1>4, <1>5, <1>6

\* No operator looks at the order of its two operands.
LEMMA InferSwapped ==
    ASSUME NEW expr \in Trees, NEW node, CanTake(expr, node), Infix(node), NEW i, NEW f
    PROVE  inferNode(Swapped(node), i, f, Scope) = inferNode(node, i, f, Scope)
<1> PICK s, a, b : s = Swapped(node) /\ a = KindIn(node, f, 1) /\ b = KindIn(node, f, 2)
  OBVIOUS
<1>1. /\ s.type = node.type /\ DOMAIN s.args = {1, 2} /\ DOMAIN node.args = {1, 2}
      /\ s.args[1] = node.args[2] /\ s.args[2] = node.args[1]
  BY SwappedIs
<1>2. KindIn(s, f, 1) = b /\ KindIn(s, f, 2) = a
  BY <1>1 DEF KindIn
<1>3. LoggedIn(s, f) = LoggedIn(node, f)
  BY <1>1 DEF LoggedIn
<1>4. /\ \A k : Typed(s, f, k) = Typed(node, f, k)
      /\ Mistyped(s, i, f) = Mistyped(node, i, f)
  BY <1>3 DEF Typed, Mistyped
<1>5. CASE node.type = "ARITHMETIC_EXPR"
  <2>1. CASE a \in Numeric /\ b \in Numeric
    <3>1. coerceNumeric(b, a) = coerceNumeric(a, b)
      BY <2>1, KindsAre
    <3>2. inferNode(s, i, f, Scope) = Typed(s, f, coerceNumeric(b, a))
      BY <1>1, <1>2, <1>5, <2>1, OperatorArms
    <3>3. inferNode(node, i, f, Scope) = Typed(node, f, coerceNumeric(a, b))
      BY <1>5, <2>1, OperatorArms
    <3> QED BY <1>4, <3>1, <3>2, <3>3
  <2>2. CASE ~(a \in Numeric /\ b \in Numeric)
    <3>1. inferNode(s, i, f, Scope) = Mistyped(s, i, f)
      BY <1>1, <1>2, <1>5, <2>2, OperatorArms
    <3>2. inferNode(node, i, f, Scope) = Mistyped(node, i, f)
      BY <1>5, <2>2, OperatorArms
    <3> QED BY <1>4, <3>1, <3>2
  <2> QED BY <2>1, <2>2
<1>6. CASE node.type = "RELATIONAL_EXPR"
  <2>1. isComparable(b, a) <=> isComparable(a, b)
    BY KindsAre
  <2>2. inferNode(s, i, f, Scope) =
            IF isComparable(b, a) THEN Typed(s, f, "TYPE_BOOL") ELSE Mistyped(s, i, f)
    BY <1>1, <1>2, <1>6, OperatorArms
  <2>3. inferNode(node, i, f, Scope) =
            IF isComparable(a, b) THEN Typed(node, f, "TYPE_BOOL") ELSE Mistyped(node, i, f)
    BY <1>6, OperatorArms
  <2> QED BY <1>4, <2>1, <2>2, <2>3
<1>7. CASE node.type = "LOGICAL_EXPR"
  <2>1. inferNode(s, i, f, Scope) =
            IF b = "TYPE_BOOL" /\ a = "TYPE_BOOL"
            THEN Typed(s, f, "TYPE_BOOL") ELSE Mistyped(s, i, f)
    BY <1>1, <1>2, <1>7, OperatorArms
  <2>2. inferNode(node, i, f, Scope) =
            IF a = "TYPE_BOOL" /\ b = "TYPE_BOOL"
            THEN Typed(node, f, "TYPE_BOOL") ELSE Mistyped(node, i, f)
    BY <1>7, OperatorArms
  <2> QED BY <1>4, <2>1, <2>2
<1> QED BY <1>5, <1>6, <1>7 DEF Infix

LEMMA MirrorIs ==
    ASSUME NEW expr \in Trees
    PROVE  /\ Mirror(expr) \in Trees /\ Len(Mirror(expr)) = Len(expr)
           /\ DOMAIN Mirror(expr) = DOMAIN expr
           /\ \A i \in DOMAIN expr :
                 Mirror(expr)[i] = IF Infix(expr[i]) THEN Swapped(expr[i]) ELSE expr[i]
<1> PICK other : other = Mirror(expr)
  OBVIOUS
<1>0. expr \in Seq(ParsedNode) /\ Len(expr) \in Nat /\ DOMAIN expr = 1 .. Len(expr)
  BY TreeIs
<1>1. other = [i \in DOMAIN expr |-> IF Infix(expr[i]) THEN Swapped(expr[i]) ELSE expr[i]]
  BY DEF Mirror, Infix, Swapped
<1>2. /\ DOMAIN other = 1 .. Len(expr)
      /\ \A i \in DOMAIN expr :
            other[i] = IF Infix(expr[i]) THEN Swapped(expr[i]) ELSE expr[i]
  BY <1>0, <1>1
<1>3. ASSUME NEW i \in DOMAIN expr
      PROVE  /\ other[i] \in ParsedNode /\ Len(other[i].args) = Arity[other[i].type]
             /\ \A k \in DOMAIN other[i].args : other[i].args[k] \in 1 .. i - 1
             /\ OpFits(other[i])
  <2>1. CASE ~Infix(expr[i])
    BY <1>2, <2>1, OperandsAre
  <2>2. CASE Infix(expr[i])
    <3>1. CanTake(expr, expr[i]) /\ \A k \in DOMAIN expr[i].args : expr[i].args[k] \in 1 .. i - 1
      BY NodeFits
    <3>2. other[i] = Swapped(expr[i])
      BY <1>2, <2>2
    <3>3. /\ other[i] \in ParsedNode /\ other[i].type = expr[i].type
          /\ Len(other[i].args) = 2 /\ DOMAIN other[i].args = {1, 2}
          /\ other[i].args[1] = expr[i].args[2] /\ other[i].args[2] = expr[i].args[1]
          /\ OpFits(other[i]) /\ DOMAIN expr[i].args = {1, 2}
      BY <2>2, <3>1, <3>2, SwappedIs
    <3>4. Arity[other[i].type] = 2
      BY <2>2, <3>3, ArityIs DEF Infix
    <3>5. other[i].args[1] \in 1 .. i - 1 /\ other[i].args[2] \in 1 .. i - 1
      BY <3>1, <3>3
    <3> QED BY <3>3, <3>4, <3>5
  <2> QED BY <2>1, <2>2
<1>4. other \in Seq(ParsedNode) /\ Len(other) = Len(expr)
  <2>1. other \in [1 .. Len(expr) -> ParsedNode]
    BY <1>0, <1>1, <1>2, <1>3
  <2> QED BY <1>0, <2>1
<1>5. other \in Trees
  BY <1>0, <1>2, <1>3, <1>4 DEF Trees
<1> QED BY <1>0, <1>2, <1>4, <1>5

\* So what is inferred of a tree and of its mirror image is the same at every node.
LEMMA MirrorInfers ==
    ASSUME ParserAssumption, NEW expr \in Trees
    PROVE  \A i \in DOMAIN expr : inferTypes(Mirror(expr), Scope)[i] = inferTypes(expr, Scope)[i]
<1> PICK other, f : other = Mirror(expr) /\ f = inferTypes(other, Scope)
  OBVIOUS
<1>1. /\ other \in Trees /\ DOMAIN other = DOMAIN expr
      /\ \A i \in DOMAIN expr :
            other[i] = IF Infix(expr[i]) THEN Swapped(expr[i]) ELSE expr[i]
  BY MirrorIs
<1>2. IsInference(other, f)
  BY <1>1, InferenceIs
<1>3. ASSUME NEW i \in DOMAIN expr PROVE f[i] = inferNode(expr[i], i, f, Scope)
  <2>1. f[i] = inferNode(other[i], i, f, Scope)
    BY <1>1, <1>2 DEF IsInference
  <2>2. CASE Infix(expr[i])
    <3>1. CanTake(expr, expr[i])
      BY NodeFits
    <3>2. other[i] = Swapped(expr[i])
      BY <1>1, <2>2
    <3> QED BY <2>1, <2>2, <3>1, <3>2, InferSwapped
  <2>3. CASE ~Infix(expr[i])
    BY <1>1, <2>1, <2>3
  <2> QED BY <2>2, <2>3
<1>4. IsInference(expr, f)
  BY <1>3 DEF IsInference
<1>5. IsInference(expr, inferTypes(expr, Scope))
  BY InferenceIs
<1> QED BY <1>4, <1>5, InferenceUnique

-----------------------------------------------------------------------------
(* What the caller of the inference sees: the root of a tree               *)

\* An assertion has taken a tree over, never nothing.
Rooted == status = "asserted" => Len(nodes) \in DOMAIN nodes
RootedInv == ParserTypes /\ Shape /\ Rooted

LEMMA RootedInvariant == Spec => []RootedInv
<1>1. ASSUME Init PROVE RootedInv
  <2>1. ParserTypes /\ Shape
    BY <1>1, StartShape
  <2>2. status # "asserted"
    BY <1>1 DEF Init
  <2> QED BY <2>1, <2>2 DEF RootedInv, Rooted
<1>2. ASSUME RootedInv, [Next]_vars PROVE RootedInv'
  <2>0. ParserTypes /\ Shape /\ Rooted
    BY <1>2 DEF RootedInv
  <2>1. CASE SemanticAction
    <3>1. PICK n, node, P : Handle(n, node, P) /\ Reduced(n, node)
      BY <2>0, <2>1, ActionsReduce
    <3>2. ParserTypes' /\ Shape'
      BY <2>0, <3>1, ReduceKeepsShape
    <3>3. status' = "parsing"
      BY <3>1 DEF Reduced
    <3> QED BY <3>2, <3>3 DEF RootedInv, Rooted
  <2>2. CASE shift
    <3>1. ParserTypes' /\ Shape'
      BY <2>0, <2>2, ShiftKeepsShape
    <3>2. status' = "parsing"
      BY <2>2 DEF shift
    <3> QED BY <3>1, <3>2 DEF RootedInv, Rooted
  <2>3. CASE discardSymbol
    <3>1. ParserTypes' /\ Shape'
      BY <2>0, <2>3, DiscardKeepsShape
    <3>2. status' = "discarding"
      BY <2>3 DEF discardSymbol
    <3> QED BY <3>1, <3>2 DEF RootedInv, Rooted
  <2>4. CASE Idle
    <3>1. ParserTypes' /\ Shape'
      BY <2>0, <2>4, IdleKeepsShape, ParserAssumption
    <3>2. nodes' = nodes
      BY <2>4, IdleIs
    <3>3. CASE AssertionSemanticAction
      <4>1. AfterExpression /\ Len(stack) = 1
        BY <3>3 DEF AssertionSemanticAction, Asserted
      <4>2. 1 \in DOMAIN stack /\ stack[1].sym = "expression"
        BY <2>0, <4>1 DEF ParserTypes, AfterExpression, Peek
      <4>3. stack[1].node \in DOMAIN nodes
        BY <2>0, <4>2 DEF Shape, Placed
      <4>4. Len(nodes) \in DOMAIN nodes
        <5>1. DOMAIN nodes = 1 .. Len(nodes) /\ Len(nodes) \in Nat
          BY <2>0, TreeIs DEF ParserTypes
        <5> QED BY <4>3, <5>1
      <4> QED BY <3>1, <3>2, <4>4 DEF RootedInv, Rooted
    <3>4. CASE ~AssertionSemanticAction
      <4>1. status' = "asserted" => status = "asserted"
        BY <2>4, <3>4 DEF Idle, pushToken, syntaxError, abort, vars
      <4> QED BY <2>0, <3>1, <3>2, <4>1 DEF RootedInv, Rooted
    <3> QED BY <3>3, <3>4
  <2> QED BY <1>2, <2>1, <2>2, <2>3, <2>4, StepIs
<1> QED BY <1>1, <1>2, PTL DEF Spec

LEMMA RootIs ==
    ASSUME RootedInv, status = "asserted"
    PROVE  /\ nodes \in Trees /\ Len(nodes) \in DOMAIN nodes
           /\ inferExpressionType(nodes, Scope) = inferTypes(nodes, Scope)[Len(nodes)]
BY DEF RootedInv, ParserTypes, Rooted, inferExpressionType

\* However deep the assertion and whatever the attributes in its scope: a condition
\* that is refused for having no type was explained, at least one error was logged
\* below it (TypeInference.c:54).
THEOREM RejectionsAreExplained == Spec => []RejectionsExplained
<1>1. ASSUME RootedInv PROVE RejectionsExplained
  <2>1. ASSUME status = "asserted", inferExpressionType(nodes, Scope).kind = TYPE_ERROR
        PROVE  inferExpressionType(nodes, Scope).errors # {}
    BY <1>1, <2>1, RootIs, ErrorsExplain, ParserAssumption
  <2> QED BY <2>1 DEF RejectionsExplained
<1> QED BY <1>1, RootedInvariant, PTL

\* However deep the assertion: exchanging the operands of all its operators leaves
\* its type as it was: coerceNumeric and isComparable see no left and right
\* (TypeInference.c:16).
THEOREM OperandOrderNeverMatters == Spec => []OperandOrderIrrelevant
<1>1. ASSUME RootedInv PROVE OperandOrderIrrelevant
  <2>1. ASSUME status = "asserted"
        PROVE  inferExpressionType(Mirror(nodes), Scope) = inferExpressionType(nodes, Scope)
    <3>1. /\ nodes \in Trees /\ Len(nodes) \in DOMAIN nodes
          /\ inferExpressionType(nodes, Scope) = inferTypes(nodes, Scope)[Len(nodes)]
      BY <1>1, <2>1, RootIs
    <3>2. inferExpressionType(Mirror(nodes), Scope) = inferTypes(Mirror(nodes), Scope)[Len(nodes)]
      BY <3>1, MirrorIs DEF inferExpressionType
    <3> QED BY <3>1, <3>2, MirrorInfers, ParserAssumption
  <2> QED BY <2>1 DEF OperandOrderIrrelevant
<1> QED BY <1>1, RootedInvariant, PTL

\* However deep the assertion: an error below a condition that is accepted is hidden
\* by a comparison of two operands without a type, the one operator that does
\* not pass the error on (TypeInference.c:27).
THEOREM OnlyComparisonsMask == Spec => []ErrorsMaskedOnlyByComparison
<1>1. ASSUME RootedInv PROVE ErrorsMaskedOnlyByComparison
  <2>1. ASSUME status = "asserted", inferExpressionType(nodes, Scope).kind # TYPE_ERROR,
               inferExpressionType(nodes, Scope).errors # {}
        PROVE  \E i \in DOMAIN nodes :
                   /\ nodes[i].type = "RELATIONAL_EXPR"
                   /\ \A k \in {1, 2} : KindOf(nodes[i].args[k]) = TYPE_ERROR
    <3> PICK f : f = inferTypes(nodes, Scope)
      OBVIOUS
    <3>1. /\ nodes \in Trees /\ Len(nodes) \in DOMAIN nodes
          /\ inferExpressionType(nodes, Scope) = f[Len(nodes)]
      BY <1>1, <2>1, RootIs
    <3>2. PICK m \in DOMAIN nodes : MasksHere(nodes[m], f)
      BY <2>1, <3>1, ErrorsMasked, ParserAssumption
    <3>3. ASSUME NEW k \in {1, 2} PROVE KindOf(nodes[m].args[k]) = TYPE_ERROR
      <4>1. CanTake(nodes, nodes[m]) /\ Infix(nodes[m])
        BY <3>1, <3>2, NodeFits DEF MasksHere, Infix
      <4>2. k \in DOMAIN nodes[m].args
        BY <3>1, <4>1, SwappedIs
      <4>3. nodes[m].args[k] \in DOMAIN nodes
        BY <4>1, <4>2 DEF CanTake
      <4>4. inferExpressionType(SubSeq(nodes, 1, nodes[m].args[k]), Scope) = f[nodes[m].args[k]]
        BY <3>1, <4>3, InferencePrefix, ParserAssumption
      <4> QED BY <3>2, <4>4 DEF KindOf, MasksHere, KindIn
    <3> QED BY <3>2, <3>3 DEF MasksHere
  <2> QED BY <2>1 DEF ErrorsMaskedOnlyByComparison
<1> QED BY <1>1, RootedInvariant, PTL
=============================================================================
