# Bandailer-ER in TLA+

Bandailer-ER compiles a small language of entity-relationship schemas: a Flex
scanner and a Bison push parser build a syntax tree, a semantic analyzer accepts
or rejects it, and a generator draws the accepted schema with Graphviz. These
modules model the whole run: the front end and its tokens, the parser with the
trees it builds and frees, the symbol table, the semantic rules and the loops that
drive them, the type inference, the diagram, and `main`, which puts them together.

Paths below are relative to `src/main/c/` of the repository.

## 1. Inventory

| Component | State | Operations | What makes it correct |
|---|---|---|---|
| Scanner and front end (`frontend/lexical-analysis`, `frontend/Frontend.c`) | stack of contexts and of input buffers, the parser's state, the token in flight | one action per lexeme class, `pushToken`, end of file, unknown lexeme | every token and lexeme is freed once; the status that ends the loop is the parser's, unless a comment is left open or a character is unknown |
| Parser (`BisonGrammar.y`, `BisonActions.c`) | the parser's stack, `compilerState.abstractSyntaxtTree` | one semantic action per rule, one destructor per kind of symbol | the tree is the one the grammar and its precedence ask for; nodes are neither shared nor lost, also after an error |
| Syntax tree (`AbstractSyntaxTree.c`) | the nodes | one destructor per node type | `destroyProgram` frees each node once |
| Symbol table (`SymbolTable.c`) | two arrays of 128 chains | create, destroy, add, lookup, has, count | it is a map from names to their first declarations |
| Analyzer driver (`SemanticAnalyzer.c`, `EntityValidator.c`, `RelationshipValidator.c`) | `ctx.hasErrors`, the local `ok` of each loop, the position in the lists | `buildSymbolTable`, `validateAllTypes`, `validateEntities`, `validateRelationships` | the verdict is "error" exactly when a rule failed; rules see a complete table |
| Inheritance rules (`InheritanceRules.c`) | the name the walk is at, its depth, the attribute looked for | parent exists, cycles, attribute redefinition | accepted chains are sound; every walk ends |
| Key, weak-entity, modifier rules (`EntityPKRules.c`, `WeakEntityRules.c`, `AttributeModifierRules.c`) | arrays of fixed size | one function per rule | each accepted entity has one well-formed key |
| Relationship rules (`Relationship*Rules.c`) | array of fixed size | one function per rule | participants are declared, distinct, at least two |
| Type checker and inference (`types/`) | none | `validateAllTypes`, `inferExpressionType` | defaults have the attribute's type, conditions are boolean |
| Generator (`GraphvizGenerator.c`) | the output file, a growing string buffer | `generateGraphviz`, `generateImageFromDot`, the `sb_` functions | every declaration has its own node, edges meet nodes, keys and identifying relationships are marked as the validators understood them, labels read as their conditions |
| Entry point (`EntryPoint.c`) | `compilerState`, `compilationStatus`, the module destructors | `main` | the exit code tells whether the program was accepted; everything is released once, and not before its last use |
| Support (`support/`) | loggers, environment variables | logging, string helpers | no decision depends on it |

How they interact. `main` runs the phases in order, in one thread.
`executeSyntacticAnalysis` calls the scanner until the status leaves
`IN_PROGRESS`; each lexeme action pushes one token into the parser, whose semantic
actions build the tree bottom-up and store the program in `compilerState`. The
analyzer reads the tree and never writes to it, builds the symbol table from it,
and then lets the validators read both. The generator reads tree and table. The
analyzer and the validators share one mutable word, `ctx.hasErrors`; every
validator also returns its own result, which its caller may or may not use.

What is hard. Nothing runs concurrently and nothing is persisted, so the hazards
are those of a sequential program over recursive data: loops along user-written
chains that may be cyclic, failures of a phase, of an allocation or of a file while
others hold memory, a failure reported in three places, rules that are only
right once another rule has passed, arrays of fixed size, trees half built when a
syntax error strikes, and a type error that may meet another one. `PROJECT.json`
lists them, each at its line.

## 2. Plan

Done, in this order:

1. `SymbolMap` (what the table promises), `SymbolTable` (the chains), `Djb2`;
   proofs in `SymbolTable_proofs`.
2. `ERSchema` (the tree as values), `TypeInference`, `ValidationRules` (the rules
   without an unbounded loop), `SemanticAnalyzer` (the driver and the walks);
   the promise in `SemanticPromise` and `Verdict`; proofs in
   `SemanticAnalyzer_proofs`.
3. `ExpressionParser`: the expression grammar, its trees and its destructors; proofs
   in `ExpressionParser_proofs`.
4. `Grammar` and `SyntaxTree`: the declarations, the list-building actions with
   their `_last` pointers, and the destructors of `AbstractSyntaxTree.c`; proofs in
   `SemanticActions_proofs` (the heap, the actions, the automaton),
   `SyntaxTree_proofs` (the parser) and `PushParser_proofs` (what is freed, and what
   the caller sees).
5. `PushParser` (what the front end relies on; `SyntaxTree` is shown to implement
   it) and `FrontEnd`: the lexeme actions, contexts and end of file against a parser
   that may accept, reject or ask for more.
6. `StringBuilder` and `Generator`: the memory of the label's buffer and the
   statements of the DOT file.
7. `Compilation` (what a run leaves behind) and `Compiler`: `main` as the
   composition of 5, the analyzer's promise (`Verdict`) and 6; proofs in
   `Compiler_proofs`.
8. `ListLemmas` (flattening, mapping, induction on lengths), and with it the rest of
   `Compiler_proofs`: the string builder, the statements of the file, and the labels, in
   the runs of `main`.

Open, and why: every invariant and action property of a run is a theorem too; what ends,
and that it does, is not (section 6). Not modelled is what section 7 lists.

How the modules fit together:

    Compiler  -- implements --> Compilation
      |-- FrontEnd --- relies on --> PushParser <-- implements -- SyntaxTree (Grammar)
      |-- Verdict  <-- implements -- SemanticAnalyzer
      |                                 |-- ValidationRules, TypeInference
      |                                 `-- SymbolMap <-- implements -- SymbolTable
      `-- Generator
            `-- StringBuilder

Each arrow is a property of a run and, but for the fairness of `PushParser`, a theorem.
So `main` need not be checked together with the automaton or with the
fifteen rules: it takes the steps of their abstract specifications.

## 3. Modules

| Module | Models | How |
|---|---|---|
| `SymbolMap` | `SymbolTable.h` | two partial functions; one action per exported function; `reply` is what the caller gets |
| `SymbolTable` | `SymbolTable.c` | `entities` and `relationships` are the arrays of chains, a chain is a sequence with its head first; the same actions |
| `Djb2` | `hash` | with the width of `unsigned int` |
| `ERSchema` | `AbstractSyntaxTree.h` | lists are sequences, a pointer to an entity is its position, NULL is an absent child |
| `TypeInference` | `TypeInference.c` | the type of an expression and the nodes at which an error is logged, as a recursive function over the node sequence |
| `ValidationRules` | the rules on one entity or relationship, `TypeChecker.c` | a rule is the set of errors it logs: it fails exactly when it logs one |
| `SemanticAnalyzer` | `executeSemanticAnalysis` and everything it calls | `pc` and `pos` are the loop that runs and its element; one action per iteration; the two walks up the chain take one step per iteration with `walk`, `depth` and `attr` |
| `SemanticPromise` | nothing: the reference | when a schema is well formed by what the error messages forbid, without table, loop or order; and when an analysis never ends (`Diverges`) |
| `Verdict` | what the caller of the analyzer sees | one step, from no verdict to the right one; what is right is a parameter, `SchemaSound` where it is used |
| `ExpressionParser` | the rules `expression` and `assert_decl` | the stack of the push parser, one action per semantic action, the default reductions of the generated tables, and the destructors on an error |
| `Grammar` | the rules of `BisonGrammar.y` but most expressions, and the automaton made of them | the rules are data; a state is a closed set of items; the shift of an operator that `%left` takes away is taken away |
| `SyntaxTree` | `BisonActions.c`, `AbstractSyntaxTree.c`, the tokens pushed, the end of the parse in `main` | `heap` is the sequence of allocated cells and a pointer an index into it; one action per semantic action; `Layout` says what each destructor destroys and in which order; `freed` is the sequence of calls of `free` |
| `PushParser` | what a caller of `yypush_parse` sees | an answer to each token; a program is published before success and never before "go on" |
| `FrontEnd` | `FlexActions.c`, `FlexPatterns.l`, `Frontend.c` | one action per kind of lexeme action, then `pushToken` and `destroyToken`; `contexts` is Flex's stack of start conditions, `cells` what is allocated, `strings` what the parser was given |
| `StringBuilder` | the `sb_` functions and the C functions they call | `data` is a function from offsets to bytes; a store outside it is lost; `appended` is the history of the texts it took |
| `Generator` | `GraphvizGenerator.c` | one action per iteration of its loops; a condition is turned into the sequence of calls of the builder, which are taken one by one; `dot` is the sequence of statements |
| `Compilation` | nothing: the reference | what a run decides, writes, renders and returns |
| `Compiler` | `EntryPoint.c` | `phase` is where `main` is; `FrontEndNext` and `GeneratorNext` are taken in their phases; `live` is the set of loggers and structures allocated; `Validators` are the modules that make a logger when they are first called |
| `MC*` | | the instances for TLC |
| `ListLemmas` | nothing: facts of sequences | flattened and mapped sequences, elements of a concatenation, associativity, induction on a length |
| `*_proofs` | | theorems |

`SemanticAnalyzer` uses `SymbolMap`'s actions for the table (its actions call
`addEntity` and `addRelationship`), and `SymbolTable` is proved to implement
`SymbolMap`, so what is shown of the analyzer holds with the real table.

Decisions a reader may ask about:

- A rule's errors are `<<rule, subject, detail>>`, not messages: two messages of
  one rule on one subject are one error. No property counts messages.
- `diagnostics` has the errors of the inference too, under the tag
  `"inference"`; the code logs these without setting `ctx.hasErrors`.
- The undefined reads are kept: a default of a relationship attribute other than
  the integer 0 dereferences the literal's bits, and a PRIMARY KEY clause longer
  than its array writes past it. The default build has the address sanitizer,
  which stops the program: `status = "ABORTED"`. What an unsanitized build would
  do is not modelled.
- Cardinalities and `isArray` are left out, since no semantic rule reads them.
- The parser of `SyntaxTree` reduces as the generated one does: by default. Where
  no token can be shifted it does not wait for one, and it reduces before it notices
  an error. So a wrong token after the last declaration still produces the program
  and publishes it, and only then fails; the cleanup must spare what `main` frees.
- The cleanup after a syntax error is one action here, because nothing runs in
  between, and one symbol at a time in `ExpressionParser`.
- Tokens that a rule treats alike are one token in `Grammar`, and conditions have
  one level of operators: the two modules share the literal, identifier and
  arithmetic rules, and `ExpressionParser` has the rest.
- A text in the generator is a sequence of pieces. A name is its spelling, with the
  underscore a piece of its own, so that two identifiers are equal exactly when what
  is printed is. A literal is printed as its `rendering`, that of a string with
  the quotes its lexeme keeps, and the number of an assertion as its `numeral`.
- The labels say what they say for every spelling and rendering. Operands are
  compared by what is left of a label without the pieces of `Punctuation`; brackets
  and signs are counted where no name or literal of the condition has one itself
  (`Bare`), as the text of a string literal may.
- An `Expression` is the sequence of its nodes in the order in which they are built,
  operands before the node that has them: `Begins` is the first node below a node, and
  the operands of a node are next to each other and end right before it.
- `NO_DATA`, a NULL `sb->data`, is memory without a byte.
- The strings the parser owns stay in `cells` of `FrontEnd`: when they are freed is
  the matter of `SyntaxTree`. There the parser's strings and tokens are the cells of
  the heap, so the two modules divide the memory between them.
- `FrontEnd` has one input buffer, since nothing calls `pushInputBuffer`: the
  stack of buffers of `Frontend.c` never has a second entry.
- `syntaxAccepted` picks the schema: which schemas a text parses to is the matter of
  `SyntaxTree`. `executeSemanticAnalysis` takes the step of `Verdict`; the table it
  creates is in `live` from there on. A run stopped by the address sanitizer in the
  analyzer (`"ABORTED"`) never gets back to `main` and is left out there. Nor does
  the analysis of a schema on which the redefinition walk has no end (`Diverges`):
  the action is not enabled, and `main` stays in that phase.
- Ten modules of the analyzer make themselves a logger in `initializeLogger`, when they
  are first called, and none destroys it. `Calls` says which of them a schema makes the
  analyzer call, once its table is built; their loggers join `live` and stay in it.
  They hang on static pointers, so the leak sanitizer says nothing of them.
- `SemanticPromise` follows the error messages, which is what the code does.
  `WeakEntityRules.h` asks for more, an identifying relationship of every weak entity;
  that is stated apart (`WeakEntitiesIdentified`) and violated in `weak_entities`.
- `generateImageFromDot` may fail, and fails when the file is no DOT file; `main`
  looks at neither result, so a file that cannot be opened leads to a picture of
  the old one.
- An operand that the grammar never leaves out is never NULL: the guards
  against a missing schema, context or operand, which no call of `main` can
  trigger, are not modelled.

## 4. Runs

| Run | Question | Instance |
|---|---|---|
| `symbols` | Is the chained table a map? | three names, two of which share a djb2 value, two declarations, four buckets, every sequence of calls |
| `analyzer` | Do the rules together accept exactly the sound schemas, and does every walk end? | 21279 schemas. All 16000 structures of three entities: each inherits from nobody, one of the three or an undeclared name, has none, one or two of two attributes in a fixed order of lists, and the third may repeat the second's name. And 5279 for the other rules: all keys of up to three parts and one of four, weak or strong, with and without relationships; all lists of up to three participants; all types against all defaults and a set of conditions |
| `expressions` | Does the grammar build the right tree, and is the inference consistent on it? | every sequence of up to eight tokens, one or two operators per level, all bracketing constructs; every sequence of up to six tokens over integer, decimal, boolean and unknown operands |
| `syntax_tree` | Is the tree built and freed without losing, sharing or doubling a cell? | eight beginnings (none, an empty schema, two entities and two relationships, the middle of an attribute, of a key, of assertions, of a relationship and of its body), each followed by every sequence of up to six tokens |
| `pipeline` | Does a run of `main` do what its exit code and its files say, and release what it took? | up to three lexemes of every kind, any answers of the parser, 24 schemas, one failed allocation per label, a file that cannot be written, a failing dot command |
| `destructors`, `cycle_detection`, `depth_limit`, `masked_errors`, `relationship_defaults`, `weak_entities`, `string_labels` | What the comments say and the code does not do | see section 5 |

What the properties of the passing runs say:

- `ChainsWellFormed`, `NeverRebound`, `ImplementsMap`: whatever collides, a name
  is in its own chain, once, keeps its first declaration, and every reply is the
  map's.
- `TableIsSchema`: after `buildSymbolTable`, "bound" means "declared once, here".
- `ErrorsDecideVerdict`: the logged errors, `ok`, `ctx.hasErrors` and the returned
  status agree at every step.
- `AcceptedInheritanceSound`: acceptance implies sound inheritance.
- `VerdictIsRight`: the analyzer implements `Verdict`; it accepts the well-formed
  schemas and rejects the others, or stops on one of the two undefined accesses
  and gives no verdict. Well formed is what violates no rule that has an error message.
- `Terminates`: every analysis ends, but for the schemas of `Diverges`, and those get no
  verdict: the exception is exact.
- `NodesOwnedOnce`, `YieldIsInput`, `PrecedenceRespected`: no node of the tree
  is shared, lost or freed twice, the tree reads as the input, and it is the tree
  of the declared levels.
- `OwnedOnce`, `FreedOnce`, `InSourceOrder`, `HandsOverSchema`: while the parser
  runs each cell has one owner, and when `main` is done each was freed once,
  whichever token the error was at; lists keep the order of the source; an accepted
  tree has every part the analyzer reads without a test. Two things are exempt,
  as the code does leak them: a primary key that a second `PRIMARY` clause of its
  entity replaced, and what is on the stack when the scanner meets an unknown
  character.
- `RejectionsExplained`, `OperandOrderIrrelevant`, `ErrorsMaskedOnlyByComparison`:
  a type error is always logged, no type depends on the order of operands, and
  only a comparison of two ill-typed operands can swallow an error.

- `ImplementsPushParser`: the automaton and its actions keep the contract of
  `PushParser`; with its liveness: no cycle of reductions, a token is answered.
- `TokensOwnedOnce`, `CommentsSilent`, `AcceptedWhole`: a token and what it owns is
  freed once and nothing the parser owns with it; a comment reaches the parser only as
  the end of the file; success is the parser's, unless a comment is open.
- `TextIntact`, `LabelReadsAsCondition`: the buffer holds what it took and its
  terminator, whatever was dropped; a label of which nothing was dropped has the
  operands in order, the operators and balanced brackets of its condition.
- `NodesToldApart`, `EdgesMeetNodes`: one node per declaration, for names without
  underscores, and no edge to a node that is not there.
- `KeysUnderlined`, `IdentifyingIffWeak`: what is drawn is what the validators have
  accepted: two parts of the compiler that read the same tree in different ways agree.
- `ReleasedOnce`, `UsedWhileLive`: on every way through `main` nothing is freed twice or
  used afterwards, and at the end the program, the table, the analyzer and the logger of
  each module with a destructor are gone. The loggers of the validators that ran are
  left, and nothing else is.
- `ImplementsCompilation`: exit code, `output.dot` and `output.png` are those of
  `Compilation`. `MainReturns`: `main` returns, or is for ever in the analysis of a schema
  that diverges.

Bounds. Three entities are the least with a cycle of two that a third one
inherits from, with a redefinition two levels up, and with a duplicate beside both.
`MAX_INHERITANCE_DEPTH` is 2, exactly the length of the longest chain of three declared
entities without a cycle: a comparison off by one would reject `A : B : C`, and a chain
that goes on to an undeclared parent is rejected anyway. In `depth_limit` it is 1, to
reach a chain longer than it.
The capacity of a key is 3 so that the clauses of four parts are past it, that
of the participants is 2, which three participants reach without losing a
repetition (the third is compared with both of the array), and that of the weak
references 3, never passed. `LABEL_SIZE` is 4: the labels of names of
one character are not cut. Eight tokens are enough for a conditional as an operand
with an operator before or after it, and for three operators in a row with any
bracketing; longer inputs repeat these contexts on a longer stack.

The beginnings of `syntax_tree` are there so that six tokens reach the third item of
each list: the first is the head and the second is linked to it, so a stale tail
shows at the third. From the empty beginning all inputs of up to six tokens
are tried, so that an error meets the parser in every early state as well.

In `pipeline` three lexemes (`MaxLexemes`) are a comment opened, something in it and
its end, or two tokens and one that fails; the end of the file comes after them. The
first capacity of the builder is 4 and `temp` holds 3 characters (256 and 128 in the
code), so that a label of seven pieces grows the buffer twice and the two numbers,
of two and three characters, are on the two sides of the edge of `temp`.
`OneFailure` bounds the allocations that fail in a label to one, besides the first; the
theorem about the builder has no such bound. The 24 schemas are each there for a
case: twelve with a weak entity in every place of a relationship and every kind of
key, an empty one, conditions of all kinds followed by another entity, a composite key
with an heir declared before its parent, a relationship with the name of an entity and
attributes with the names of others', names that collide when joined, an attribute
twice, three kinds of ill-formed schemas, two entities on and below a cycle of which the
analysis ends and two of which it does not, and a string literal.

Fairness. `SemanticAnalyzer!Spec` and `Compiler!Spec` have `WF_vars(Next)`: the compiler
is one thread that never waits, so it takes its next step; a diverging analysis leaves
`main` none. The end of the file comes
because the number of lexemes is bounded, as a file is finite. `SyntaxTree!Spec` is
weakly fair to the parser's own steps, `parse`, and to nothing else: who pushes may
stop pushing, a parser that was given a token runs on. It is written out
(`Fairness`) because `ENABLED` of the action enumerates all reductions. The other
modules have no liveness property and no fairness.

## 5. Where the code differs from its comments

- `destructors`: the grammar says that destructors run after the parsing ends; an
  unknown character ends it without the parser being told, and they do not.
- `cycle_detection`: if `a` inherits from `b`, and `b` and `c` from each other, the
  cycle rule reports the cycle by its depth limit, but the redefinition rule, which
  runs whatever the former said, walks the same chain without a limit and never
  returns if `a` has an attribute that `b` and `c` have not.
- `depth_limit`: a chain longer than the constant is reported as a cycle; the
  comment compares with the number of entities.
- `masked_errors`: two unknown identifiers compare, so that `assert u = v` is an
  accepted condition.
- `relationship_defaults`: the default of a relationship attribute is read as
  another structure than it is; an integer default 0 is reported as a mismatch.
- `weak_entities`: the header says that weak entities have identifying relationships. One
  with an inline key is accepted without any, and one whose key clause names only its own
  attributes is when the schema has some relationship, of whatever entities.
- `string_labels`: a string literal keeps its quotes, and its label wraps it in
  escaped ones. The label ends early, dot rejects the file, and the exit code is 0.

More are visible in the model and not a run of their own: a second
`PRIMARY` clause leaks the first one (`BisonActions.c:140`, `Replaced`); past their
capacity the arrays of participants and of weak references forget what they
should compare (`PROJECT.json`, hazards); a key label is cut at 255 characters;
names with underscores may share a node; a label silently lacks the text of a failed
`realloc`; an earlier `output.dot` is rendered when the new one cannot be written;
the loggers of ten validator modules are never destroyed (`ValidatorLoggers`); and
`OUT_OF_MEMORY` never becomes an exit code, which `Compilation` takes over from the
code, so that no property objects to it.

## 6. Proofs

`SymbolTable_proofs`, for any finite set of names, any declarations, any number of
buckets and any hash function into them:

- `TypeCorrect` and `ChainsCorrect`: the invariant is inductive with the type.
  An addition keeps a chain free of repetitions because it is refused when the
  lookup finds the name, and the lookup finds it because all symbols of that name
  are in that chain.
- `NeverRebinds`: a prepended symbol has another name than those bound before.
- `TableImplementsMap`: each action maps to the map's action of the same name; the
  counts need a bijection between cells and bound names, which is where
  `ChainsWellFormed` is used.

`SemanticAnalyzer_proofs`, for any set of schemas, depth limit and capacities:

- `AnalyzerTypeCorrect`: the type invariant is not inductive alone. It needs that
  `pos` is on an entity while that entity is validated (`InPlace`) and that a
  binding points at a declaration of its name (`BindsDeclarations`), or a walk
  could leave the tree.
- `VerdictIsErrors`: with `FailuresAgree`, which adds that there is no verdict
  before the end; the lemmas on tags say that no rule logs what only the
  inference does.
- `TableMatchesSchema`: with `TableInPlace`: while `ok` holds, each declaration
  read so far is the one its name is bound to. A second declaration of a name
  clears `ok`, and a cleared `ok` ends the analysis before the first validator.
- `AcceptedIsSound`: with `Checked`. As long as no rule failed, the entities
  before `pos` are sound, and a walk has a set S of names it has passed
  (`ChainSeen`): S holds the parent of the start and of each of its members, but
  for the name the walk is at. When the walk is over S is closed, so it contains all
  ancestors, and what the loop excluded for S it excluded for them. The depth
  limit plays no part in it: it only rejects.
- `AnalyzerVerdictRight`: the analyzer implements `Verdict`. Here the schemas must be
  `Ordinary`, that is, have none of the exceptions that the code makes; without this
  hypothesis the theorem is false, as the runs that end in a violation show (masked
  errors, a default 0 of a relationship, the depth limit). Every schema of
  `MCSemanticAnalyzer` is ordinary (`MCOrdinary`). Each rule finds nothing exactly when
  its sentence of the promise holds (`KeyRule`, `WeakRule`, `RelationshipRules` and so
  on, where distinct entries are a cardinality, `CountDistinct`). `Innocent` says that a
  sound schema has no error so far: its walk for cycles has counted names which are
  all declared, all different, and all heirs of the one it stands on (`Climbed`), so it
  neither comes back nor reaches the limit; `Passed` says that without an error so far
  all that the loops have looked at is sound.

`Compiler_proofs` has four parts. Of the string builder, for any capacity, any size
of `temp` and any texts:

- `BuilderKeepsText`: the invariant is `TextIntact` with the type of the buffer. The
  core is a lemma on `strcpy` into a buffer with room for text and terminator
  (`CopyHolds`), which appending with and without growth both come down to: the
  condition `length + len >= capacity` is exactly what makes it applicable.
- `ToStringIsText`: since no character is the terminator, the copy stops at `length`.

Of `main`, for inputs of any length, any schemas and any answers of the parser that
`PushParser` allows:

- `TokensAreOwnedOnce`, `CommentsAreSilent`, `AcceptedIsWhole`: `FrontEndInv` has
  three parts. The context of a token that is pushed is the current one (`InFlight`);
  but for the token's own cells the parser's strings are all that is allocated, and
  they are lexemes of earlier tokens (`Cells`); what the two answers were (`Answers`).
  Each step of `Compiler` is a step of the front end or leaves it alone, so the
  invariant carries over.
- `EverythingReleasedOnce`, `NothingUsedAfterRelease`: `Allocated` says what is live in
  each phase, as a function of `published` and `table`; the loggers of the validators are
  kept apart from what `main` releases (`KeptApart`), and are what is left. That the parser has published
  a program when the front end succeeds is where `AcceptedWhole` is needed.
- `CompilerImplementsCompilation`: with `Decided`, which ties the phase to the status,
  the verdict and the files; each action of `main` is one of `Compilation` or leaves
  its variables alone.

Of the diagram, for any schemas, any spelling and any numbers of assertions, what
`main` draws, whatever happened before:

- `PlaceInv` says where the generator is: its position is in the two lists, and it
  draws only what the analyzer has accepted. To that `DiagramInv` adds `DotIs`: the file has the statements of every part that was passed, and every
  statement in it is one of a part of the schema. Each action adds the statements of
  one part. At the end all parts were passed, so the statements are known: none is
  missing, and none is there that the schema does not account for (`Finished`).
- `DiagramEdgesMeet`: of an accepted schema participants and parents are declared, so
  the node at the end of an edge is one of those.
- `DiagramShowsKeys`: a node that is labelled and marked as the key of an entity's
  attribute was written for such an attribute (`ShownIsMarked`): where names have
  underscores another entity's attribute may have the identifier, but not the
  identifier together with the label. What is shown is then compared, case by case, with
  what the validator demands of the key.
- `DiagramShowsIdentifying`: a weak entity takes part totally in an accepted schema.
- `DiagramTellsApart`: with `ApartInv`, which adds that no two nodes written so far
  have one identifier. Without underscores in the names an identifier can be read back
  into its parts, and each step writes those of a part that is not yet there.

Of the labels, for any condition, spelling, rendering and size of the two buffers:

- `ConditionReads`: what is appended for a condition, as one text, reads as it. This is
  an induction over the nodes of the tree. What is appended for node n reads as the
  nodes from the first below it to n itself (`Reads`): it has the words of their leaves
  and a sign for each operator among them. Its operands read as intervals that
  adjoin, so the texts joined read as the intervals joined, and brackets stay balanced.
- `LabelsReadAsConditions`: with `Labelling`: unless something was lost, what the
  builder took and what the calls that are left will append are together the text of
  the condition. `BuilderInv` and `ToStringIsText` carry it to the characters that are
  read back from memory.
- `CompilerKeepsText`: every step of `main` is a step of the builder or leaves it alone.
- `CompilerTypeOK`: `LabelInv`, with the values of the results (`Results`).

`ExpressionParser_proofs`, for assertions of any length, any vocabulary of tokens and
any names:

- The stack has a shape (`Shape`, symbol by symbol: what waits below what), from which
  each of the eight semantic actions finds its operands: it replaces a `Handle` of n
  symbols whose expressions are the operands of the new node (`ActionsReduce`). What
  follows is proved once for a handle, not once per rule.
- `ParserRespectsPrecedence`: the invariant says it of the tree that is still open. Each
  operator on the stack ranks its left operand, what has been read of the right one,
  and the operator before it (`Ranked`); and what is open to the right of the last
  expression ends at the lookahead (`Closing`), for it was reduced because of it. The
  operators at the edges of an expression are recursive functions over the tree, of
  which an added node changes nothing but the new value (`EdgesGrow`).
- `ParserOwnsNodesOnce`: with `Held`: each node is below exactly one symbol of the
  stack, or has been freed once and is below none. A reduction moves what is below
  its operands to its own symbol; a destructor frees what is below the symbol popped.
- `ParserKeepsText`: `TextInv` adds to the shape that what was shifted are tokens. The
  text of the stack is a flattened list with a part for each symbol; a shift appends a
  part, and a reduction replaces the parts of its handle by one that flattens to the
  same (`HandleWrites`, from the symbols of the rule that `Spelled` gives one by one).
- `RejectionsAreExplained`, `OnlyComparisonsMask`: of the parser only that an assertion
  takes over a tree, never nothing (`RootedInv`). The rest is about any tree: what the
  inference says of a node follows from what it says of its operands (`InferSays`,
  type of node by type of node): a node without a type logs an error or has an operand
  without one (`Explains`); what is logged below a node with a type is logged below an
  operand with one, but for comparisons (`PassesOn`). Both go up the tree by induction.
- `OperandOrderNeverMatters`: no induction: what is inferred of the mirror image
  satisfies the defining equation of the tree itself, node by node (`InferSwapped`),
  and that equation has one solution (`InferenceUnique`).

`SemanticActions_proofs`, `SyntaxTree_proofs` and `PushParser_proofs`, for inputs of any
length that break off anywhere:

- The grammar is that of the language, with its 45 rules, but no theorem computes the
  automaton. A state is what it is reached by: `Stated` says that all its items have
  read the same symbol last, or begin a rule that another item waits for. What
  follows a symbol, and what a phrase begins with, is read off the rules (`NextTo`,
  `Fronts`).
- `Sound` says of the heap that each cell is owned by one field, or held by the parser,
  or is a replaced key; that what is owned is finished (`Whole`); that only what the
  parser holds still grows, and knows its own tail (`Open`); and that what was made
  first has the lower number (`Ordered`). A semantic action is a `Step`: of the cells it
  takes it makes one, and leaves the others and all their tails as they were. That
  is shown once for building a cell, linking one to a list and filling in a body
  (`SemanticActions_proofs`, by the shape of the action) and used for each action.
- `GrowthHolds`: each symbol on the stack has a value that `Fits` it, is `Earlier` than
  those above it, and together they are all that the parser holds. A rule that is due
  finds its operands on top because of the item that it completes. From `Growth`
  follow `InSourceOrderHolds`, `OwnedOnceHolds` (by counting the fields that own
  something) and `HandsOverSchemaHolds`, which needs that whoever points at a finished
  cell is finished.
- `FreedOnceHolds`: the heap is a forest: `Level` grows from a cell to its owner, so that
  the recursion of the destructors visits the tree below a cell, each cell once (`Tree`),
  and trees with different roots are apart. `Freeing` says of every moment which
  cells are freed and that what `destroyProgram` would free are the others. Two facts
  of the grammar are needed: on an error no primary key is on the stack, for a complete
  one becomes part of its entity by default (`KeyOnTop`), and when the parser accepts
  nothing else is left on it (`AcceptAlone`).
- `TypeOKHolds`: the interesting part is that no state has two complete rules
  (`CompleteOne`). Two rules with the same last symbols are told apart by what was read
  before them: `Backs` follows an item down the stack to where its rule was begun.
- `ContractKept`: `Settled` says that the program is made only when a token follows the
  schema, since after its body a declaration might come; so the error at a wrong
  token comes after the program was published, and success only at the end of the
  input. Each step is then `Push`, `Publish` or `Return` of `PushParser`, or none.

The recursive definitions of the generator (`buildExpressionString`, `Begins`,
`FlattenSeq`) and those over the parser's trees are functions or folds. What they
compute is proved by an induction on the set of the lengths for which a claim holds
(`NumberInduction` in `ListLemmas`, from the library's theorem on well-founded orders
in the form that takes a set).

The assumptions are those named in the modules (`SymbolTableAssumption`,
`SemanticAssumption`, `BuilderAssumption`, `GeneratorAssumption`, `FrontEndAssumption`,
`CompilerAssumption`, `ParserAssumption`, `SyntaxAssumption`): NULL is no declaration,
no position, no name and no status; hash values are buckets; schemas are trees;
beginnings are sequences of tokens; characters are no terminator; two names are not
spelled alike, two numbers not printed alike, and no number is printed as "rel".

Only model-checked: liveness (`Terminates`, `MainReturns`, that of
`ImplementsPushParser`), which is out of reach of the provers used here; the converse in
`Terminates`, that a schema on which the walk has no end gets no verdict; and what the
runs that end in a violation show, which one behaviour settles.

## 7. Not modelled

- Loggers beyond their life, levels and formatting; environment variables but
  `LOG_IGNORED_LEXEMES`; `String.c`: log messages only, no decision depends on them.
- The tables Flex and Bison generate: only the grammar's rules and the default
  reductions they imply, and the start conditions. How a text is cut into lexemes by
  the longest match is not modelled; a lexeme is of any kind its context allows.
- The values of literals, `atoi` and `atof`; the types, array marks, cardinalities and
  colours in the diagram; operators within one class in a label.
- Names that are keywords of DOT: the identifier of an entity is its bare name, so that
  an entity called `node` or `edge` is no node of the diagram.
- A rule that reports an error in one of the three ways and forgets another: read one by
  one each does all three, which `Report` says for all of them at once.
- The external `dot` command, but that it may fail, and fails on what is no DOT file.
- Running out of memory other than in the string builder, and of the parser's stack.
- A second input buffer, which no code enters.
- Scripts, container and CI files; the programs of the tests were read as documentation.
