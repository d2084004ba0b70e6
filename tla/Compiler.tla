------------------------------- MODULE Compiler -------------------------------
(***************************************************************************)
(* main: the modules are initialized, the front end parses, the analyzer   *)
(* judges, the generator draws, and everything is released.  The front end *)
(* (FrontEnd) and the generator (Generator) take their own steps; the      *)
(* parser is its contract (PushParser), the analyzer is its promise        *)
(* (Verdict), with the schemas on which it never returns (Diverges) and    *)
(* the loggers its validators make; the dot command may fail.              *)
(***************************************************************************)
EXTENDS FrontEnd, Generator, SemanticPromise

CONSTANTS
    Schemas,    \* what the parser may deliver
    UNTOUCHED   \* output.png was not written

ASSUME CompilerAssumption ==
    /\ Schemas \subseteq Schema /\ NULL \notin Schemas
    /\ \A s \in Schemas : \A i \in DOMAIN s.entities :
          \A k \in DOMAIN s.entities[i].assertions : k - 1 \in DOMAIN numeral
    /\ NULL \notin {"SUCCEEDED", "FAILED", "SEMANTIC_OK", "SEMANTIC_ERROR", "ACCEPTED", "REJECTED"}

VARIABLES
    phase,
    live,       \* the loggers and structures that are allocated
    doubled,    \* something was freed that was not live
    table,      \* compilerState.symbolTable is set
    computation,        \* the result of executeSemanticAnalysis
    compilationStatus,
    exit,       \* main's result
    png         \* what output.png was made from

process == <<phase, live, doubled, table, computation, compilationStatus, exit, png>>
vars == <<process, frontEnd, generator>>

Analysis == INSTANCE Verdict WITH status <- computation, Sound <- SchemaSound

\* In the order of moduleDestructors; each keeps a logger.
Modules == <<"AbstractSyntaxTree", "FlexActions", "BisonActions", "Frontend",
             "SemanticAnalyzer", "GraphvizGenerator">>

\* The modules that make themselves a logger when they are called first, and have
\* no destructor.
Validators == {"TypeChecker", "TypeInference", "EntityValidator", "InheritanceRules",
               "EntityPKRules", "WeakEntityRules", "AttributeModifierRules",
               "RelationshipValidator", "RelationshipParticipantRules",
               "RelationshipAttributeRules"}

HasDefault(attribute) ==
    \E m \in ToSet(attribute.modifiers) : m.type = "MOD_DEFAULT" /\ m.defaultValue # NULL

\* The analysis of s, once its symbol table is built, calls a function of v.
Calls(s, v) ==
    CASE v \in {"TypeChecker", "EntityValidator", "RelationshipValidator"} -> TRUE
      [] v \in {"EntityPKRules", "AttributeModifierRules"} -> s.entities # <<>>
      [] v \in {"RelationshipParticipantRules", "RelationshipAttributeRules"} ->
            s.relationships # <<>>
      [] v = "InheritanceRules" -> \E e \in ToSet(s.entities) : e.parent # NULL
      [] v = "WeakEntityRules" -> \E e \in ToSet(s.entities) : e.weak
      [] v = "TypeInference" ->
            \/ \E e \in ToSet(s.entities) : e.assertions # <<>>
            \/ \E r \in ToSet(s.relationships) : \E a \in ToSet(r.attributes) : HasDefault(a)

ValidatorLoggers(s) == {v \in Validators : NamesUnique(s) /\ Calls(s, v)}

-----------------------------------------------------------------------------
Init ==
    /\ FrontEndInit /\ GeneratorInit /\ schema = NULL
    /\ phase = "start" /\ live = {} /\ doubled = FALSE /\ table = FALSE
    /\ computation = NULL /\ compilationStatus = NULL /\ exit = NULL /\ png = UNTOUCHED

initialize ==
    /\ phase = "start"
    /\ live' = {"lexicalAnalyzer", "EntryPoint"} \cup ToSet(Modules)
    /\ phase' = "parsing"
    /\ UNCHANGED <<doubled, table, computation, compilationStatus, exit, png, frontEnd, generator>>

\* The published program belongs to main.
executeSyntacticAnalysis ==
    /\ phase = "parsing" /\ FrontEndNext
    /\ live' = live \cup IF published' THEN {"program"} ELSE {}
    /\ UNCHANGED <<phase, doubled, table, computation, compilationStatus, exit, png, generator>>

syntaxAccepted ==
    /\ phase = "parsing" /\ status = "SUCCEEDED"
    /\ schema' \in Schemas
    /\ compilationStatus' = status /\ phase' = "analyzing"
    /\ UNCHANGED <<live, doubled, table, computation, exit, png, frontEnd, drawer, builder>>

\* Mutant: the status is passed on.
statusPassedOn ==
    /\ phase = "parsing" /\ status \notin {"IN_PROGRESS", "SUCCEEDED"}
    /\ compilationStatus' = status /\ phase' = "program"
    /\ UNCHANGED <<live, doubled, table, computation, exit, png, frontEnd, generator>>

\* OUT_OF_MEMORY becomes FAILED.
syntaxRejected ==
    /\ phase = "parsing" /\ status \notin {"IN_PROGRESS", "SUCCEEDED"}
    /\ compilationStatus' = "FAILED" /\ phase' = "program"
    /\ UNCHANGED <<live, doubled, table, computation, exit, png, frontEnd, generator>>

\* Mutant: only the phase after the analysis is left out.
statusKept ==
    /\ phase = "analyzing" /\ ~Diverges(schema)
    /\ Analysis!Judge
    /\ live' = live \cup {"symbolTable"} \cup ValidatorLoggers(schema) /\ table' = TRUE
    /\ phase' = IF computation' = "SEMANTIC_OK" THEN "drawing" ELSE "program"
    /\ UNCHANGED <<doubled, compilationStatus, exit, png, frontEnd, drawer, builder>>

\* Mutant: the analyzer destroys the table it has created.
tableOfAnalyzer ==
    /\ phase = "analyzing" /\ ~Diverges(schema)
    /\ Analysis!Judge
    /\ live' = live \cup ValidatorLoggers(schema)
    /\ \/ computation' = "SEMANTIC_OK" /\ phase' = "drawing" /\ UNCHANGED compilationStatus
       \/ /\ computation' # "SEMANTIC_OK"
          /\ phase' = "program" /\ compilationStatus' = "FAILED"
    /\ UNCHANGED <<doubled, table, exit, png, frontEnd, drawer, builder>>

\* It never returns from a schema that diverges: main stays in this phase.
executeSemanticAnalysis ==
    /\ phase = "analyzing" /\ ~Diverges(schema)
    /\ Analysis!Judge
    /\ live' = live \cup {"symbolTable"} \cup ValidatorLoggers(schema) /\ table' = TRUE
    /\ \/ computation' = "SEMANTIC_OK" /\ phase' = "drawing" /\ UNCHANGED compilationStatus
       \/ /\ computation' # "SEMANTIC_OK"
          /\ phase' = "program" /\ compilationStatus' = "FAILED"
    /\ UNCHANGED <<doubled, exit, png, frontEnd, drawer, builder>>

draw ==
    /\ phase = "drawing" /\ GeneratorNext
    /\ UNCHANGED <<process, frontEnd>>

\* The dot command: it draws what is in the file, if that is a DOT file; whether
\* generateGraphviz wrote one is not looked at.
generateImageFromDot ==
    /\ phase = "drawing" /\ Drawn
    /\ \/ (dot # OLD => WellFormed(dot)) /\ png' = dot
       \/ UNCHANGED png
    /\ phase' = "program"
    /\ UNCHANGED <<live, doubled, table, computation, compilationStatus, exit, frontEnd, generator>>

-----------------------------------------------------------------------------
Free(x) == live' = live \ {x} /\ doubled' = (doubled \/ x \notin live)
Keep == UNCHANGED <<live, doubled>>

\* destroyProgram(NULL) does nothing.
destroyProgram ==
    /\ phase = "program"
    /\ IF published THEN Free("program") ELSE Keep
    /\ phase' = "table"
    /\ UNCHANGED <<table, computation, compilationStatus, exit, png, frontEnd, generator>>

\* Mutant: the table of an accepted program only.
tableOfAccepted ==
    /\ phase = "table"
    /\ IF compilationStatus = "SUCCEEDED" THEN Free("symbolTable") ELSE Keep
    /\ phase' = Last(Modules)
    /\ UNCHANGED <<table, computation, compilationStatus, exit, png, frontEnd, generator>>

destroySymbolTable ==
    /\ phase = "table"
    /\ IF table THEN Free("symbolTable") ELSE Keep
    /\ phase' = Last(Modules)
    /\ UNCHANGED <<table, computation, compilationStatus, exit, png, frontEnd, generator>>

\* The destructor of the k-th module.
shutdown(k) ==
    /\ phase = Modules[k]
    /\ Free(Modules[k])
    /\ phase' = IF k = 1 THEN "end" ELSE Modules[k - 1]
    /\ UNCHANGED <<table, computation, compilationStatus, exit, png, frontEnd, generator>>

\* destroyLogger, destroyLexicalAnalyzer, return.
finish ==
    /\ phase = "end"
    /\ live' = live \ {"EntryPoint", "lexicalAnalyzer"}
    /\ doubled' = (doubled \/ ~({"EntryPoint", "lexicalAnalyzer"} \subseteq live))
    /\ exit' = compilationStatus /\ phase' = "done"
    /\ UNCHANGED <<table, computation, compilationStatus, png, frontEnd, generator>>

Next ==
    \/ initialize
    \/ executeSyntacticAnalysis \/ syntaxAccepted \/ syntaxRejected
    \/ executeSemanticAnalysis
    \/ draw \/ generateImageFromDot
    \/ destroyProgram \/ destroySymbolTable \/ (\E k \in DOMAIN Modules : shutdown(k)) \/ finish

\* One thread, which runs on: the file ends, and calls return, but for an analysis
\* that diverges, which leaves no step to take.
Spec == Init /\ [][Next]_vars /\ WF_vars(Next)

-----------------------------------------------------------------------------
TypeOK ==
    /\ phase \in {"start", "parsing", "analyzing", "drawing", "program", "table", "end", "done"}
                 \cup ToSet(Modules)
    /\ live \subseteq {"lexicalAnalyzer", "EntryPoint", "program", "symbolTable"}
                      \cup ToSet(Modules) \cup Validators
    /\ doubled \in BOOLEAN /\ table \in BOOLEAN
    /\ computation \in {NULL, "SEMANTIC_OK", "SEMANTIC_ERROR"}
    /\ compilationStatus \in {NULL, "SUCCEEDED", "FAILED"}
    /\ exit \in {NULL, "SUCCEEDED", "FAILED"}
    /\ schema \in Schemas \cup {NULL}
    /\ status \in {"IN_PROGRESS", "SUCCEEDED", "FAILED", "OUT_OF_MEMORY"}
    /\ BuilderTypeOK

\* Whatever way the phases take, nothing is freed twice, and when main returns all
\* that is left are the loggers of the validators that ran: a program published by a
\* parser that then failed, a table of a rejected program, the logger of each module
\* with a destructor are gone (EntryPoint.c:67-79).  The validators' loggers stay for
\* the life of the process, as nothing destroys them (TypeInference.c:5-10).
ReleasedOnce ==
    /\ ~doubled
    /\ phase = "done" => live = IF table THEN ValidatorLoggers(schema) ELSE {}

\* What each phase reads is live then: destructors log, and the generator looks the
\* participants of the tree up in the table (EntryPoint.c:44-79).
Uses ==
    [start |-> {}, done |-> {}, table |-> {},
     parsing |-> {"lexicalAnalyzer", "Frontend", "FlexActions", "BisonActions",
                  "AbstractSyntaxTree"},
     analyzing |-> {"program", "SemanticAnalyzer", "EntryPoint"},
     drawing |-> {"program", "symbolTable", "GraphvizGenerator", "EntryPoint"},
     program |-> {"EntryPoint", "AbstractSyntaxTree"},
     end |-> {"EntryPoint", "lexicalAnalyzer"}]
UsedWhileLive ==
    /\ phase \in DOMAIN Uses => Uses[phase] \subseteq live
    /\ phase \in ToSet(Modules) => phase \in live

\* Every edge of a diagram joins two of its nodes: the analyzer has seen to it that
\* participants and parents are declared (GraphvizGenerator.c:297, 351).
Ids == {dot[i].id : i \in {j \in DOMAIN dot : NodeStmt(j)}}
EdgesMeetNodes ==
    drawing = "closed" =>
        \A i \in DOMAIN dot : dot[i].stmt = "edge" => {dot[i].from, dot[i].to} \subseteq Ids

\* What is underlined is the key the validator has accepted: one attribute or the
\* clause, nothing in an heir, and of a weak entity's clause the parts that are its
\* own, also where it has an attribute of the same name as a part that is not
\* (GraphvizGenerator.c:110, EntityPKRules.c:82).
Shown(e) ==
    {n \in {e.attributes[k].name : k \in DOMAIN e.attributes} :
        \E i \in DOMAIN dot : /\ NodeStmt(i) /\ "key" \in dot[i].marks
                              /\ dot[i].id = attributeId(e, [name |-> n])
                              /\ dot[i].label = spelling[n]}
KeysUnderlined ==
    drawing = "closed" =>
        \A e \in ToSet(schema.entities) :
            /\ e.parent # NULL => Shown(e) = {}
            /\ e.parent = NULL /\ e.primaryKey = NULL => Cardinality(Shown(e)) = 1
            /\ e.parent = NULL /\ ~e.weak => Shown(e) # {}
            /\ e.primaryKey # NULL =>
                  Shown(e) = {e.primaryKey[i].attribute :
                                 i \in {j \in DOMAIN e.primaryKey :
                                           Owner(e, e.primaryKey[j]) = e.name}}

\* A relationship has a double border exactly when a weak entity takes part in it,
\* wherever in the list: its participation is total, or it would not have been
\* accepted (GraphvizGenerator.c:255, RelationshipParticipantRules.c:108).
IdentifyingIffWeak ==
    drawing = "closed" =>
        \A r \in ToSet(schema.relationships), i \in DOMAIN dot :
            NodeStmt(i) /\ dot[i].id = relationshipId(r) /\ dot[i].label = spelling[r.name] =>
                ("identifying" \in dot[i].marks
                    <=> \E e \in ToSet(schema.entities) :
                            e.weak /\ e.name \in ParticipantNames(r))

\* A run does what Compilation says, whatever fails on the way: its exit code tells
\* whether the program is a well-formed schema, a rejected program leaves both
\* files alone, and an earlier file is rendered only if it could not be written
\* (EntryPoint.c:36-65).
Result == INSTANCE Compilation WITH
    Sound <- SchemaSound,
    program <- schema,
    decision <- IF compilationStatus = "FAILED" THEN "REJECTED"
                ELSE IF computation = "SEMANTIC_OK" THEN "ACCEPTED" ELSE NULL,
    dot <- IF drawing = "closed" THEN schema ELSE OLD,
    png <- IF png = UNTOUCHED THEN UNTOUCHED
           ELSE IF png # dot THEN NULL
           ELSE IF drawing = "closed" THEN schema ELSE OLD
ImplementsCompilation == Result!Spec

\* main returns, unless it analyzes a schema that diverges, and stays there: the
\* loops of the front end and of the generator end, and nothing else waits for ever
\* (Frontend.c:158, GraphvizGenerator.c:335-349, InheritanceRules.c:108).
MainReturns == <>[](phase = "done" \/ (phase = "analyzing" /\ Diverges(schema)))
=============================================================================
