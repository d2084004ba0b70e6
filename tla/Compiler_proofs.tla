---------------------------- MODULE Compiler_proofs ----------------------------
(***************************************************************************)
(* What a run of main guarantees for whatever the parser may deliver: what *)
(* the front end promises, that everything is released once and used only  *)
(* before, and that the run is one of Compilation.  What the generator     *)
(* writes, for schemas and conditions of any size: the string builder      *)
(* keeps every text it takes; every edge of the DOT file of an accepted    *)
(* schema meets nodes, keys are underlined, identifying relationships      *)
(* marked, and the nodes told apart; and the label of a condition reads as *)
(* the condition, by induction over the nodes of the tree and over the     *)
(* calls of the string builder.                                            *)
(***************************************************************************)
EXTENDS Compiler, StringBuilder, ListLemmas, FiniteSetTheorems

Outside == <<"INITIAL", "INITIAL">>
InComment == <<"INITIAL", "INITIAL", "COMMENT_BLOCK">>

LEMMA Contexts ==
    /\ Last(Outside) = "INITIAL" /\ Last(InComment) = "COMMENT_BLOCK"
    /\ Append(Outside, "COMMENT_BLOCK") = InComment
    /\ Front(InComment) = Outside
    /\ Outside # InComment
<1> DEFINE S == {"INITIAL", "COMMENT_BLOCK"}
<1>1. /\ Outside \in Seq(S) /\ Len(Outside) = 2
      /\ Outside[1] = "INITIAL" /\ Outside[2] = "INITIAL"
  BY DEF Outside
<1>2. /\ InComment \in Seq(S) /\ Len(InComment) = 3
      /\ InComment[1] = "INITIAL" /\ InComment[2] = "INITIAL" /\ InComment[3] = "COMMENT_BLOCK"
  BY DEF InComment
<1>3. Append(Outside, "COMMENT_BLOCK") = InComment
  <2> DEFINE s == Append(Outside, "COMMENT_BLOCK")
  <2>1. /\ s \in Seq(S) /\ Len(s) = 3
        /\ s[1] = "INITIAL" /\ s[2] = "INITIAL" /\ s[3] = "COMMENT_BLOCK"
    <3>1. Outside \in Seq(S) /\ "COMMENT_BLOCK" \in S
      BY <1>1
    <3> HIDE DEF S, s
    <3>2. Append(Outside, "COMMENT_BLOCK") \in Seq(S)
      BY <3>1, AppendProperties
    <3>3. Len(Append(Outside, "COMMENT_BLOCK")) = Len(Outside) + 1
      BY <3>1, AppendProperties
    <3>4. \A i \in 1 .. Len(Outside) : Append(Outside, "COMMENT_BLOCK")[i] = Outside[i]
      BY <3>1, AppendProperties
    <3>5. Append(Outside, "COMMENT_BLOCK")[Len(Outside) + 1] = "COMMENT_BLOCK"
      BY <3>1, AppendProperties
    <3> QED BY <1>1, <3>2, <3>3, <3>4, <3>5 DEF s
  <2>2. \A i \in 1 .. Len(s) : s[i] = InComment[i]
    BY <1>2, <2>1
  <2> HIDE DEF s, S
  <2> QED BY <1>2, <2>1, <2>2, SeqEqual DEF s
<1>4. Front(InComment) = Outside
  <2> DEFINE s == SubSeq(InComment, 1, 2)
  <2>1. s \in Seq(S) /\ Len(s) = 2 /\ s[1] = "INITIAL" /\ s[2] = "INITIAL"
    BY <1>2
  <2>2. \A i \in 1 .. Len(s) : s[i] = Outside[i]
    BY <1>1, <2>1
  <2>3. Front(InComment) = s
    BY <1>2 DEF Front
  <2> HIDE DEF s, S
  <2> QED BY <1>1, <2>1, <2>2, <2>3, SeqEqual
<1>5. Last(Outside) = "INITIAL" /\ Last(InComment) = "COMMENT_BLOCK"
  BY <1>1, <1>2 DEF Last
<1>6. Outside # InComment
  BY <1>1, <1>2
<1> QED BY <1>3, <1>4, <1>5, <1>6

\* The token in flight, where there is one: what it is and where it was found.
InFlight ==
    /\ step \in {"scan", "push", "return"}
    /\ scanned \in Nat
    /\ contexts \in {Outside, InComment}
    /\ step = "push" =>
          /\ token.label \notin {"IGNORED", "UNKNOWN"}
          /\ token.context = currentLexicalAnalyzerContext
          /\ contexts = Outside \/ token.label = "END"

OwnCells == {<<part, scanned>> : part \in Parts}

\* The parser has strings of earlier tokens only; but for the token's own cells
\* they are all that is allocated.
Cells ==
    /\ \A c \in strings : \E k \in 1 .. scanned : c = <<"lexeme", k>>
    /\ strings \subseteq cells
    /\ step = "scan" => cells = strings
    /\ step # "scan" => cells \ OwnCells = strings /\ OwnCells \cap strings = {}

\* What the two answers were so far.
Answers ==
    /\ step # "scan" => status = "IN_PROGRESS"
    /\ step = "push" => ~published /\ answer = "IN_PROGRESS"
    /\ step = "return" =>
          IF token.label \in {"IGNORED", "UNKNOWN"} THEN ~published /\ answer = "IN_PROGRESS"
          ELSE answer \in Parser!Outcomes(token.label = "END", published)
    /\ step = "scan" => (status = "SUCCEEDED" <=> answer = "SUCCEEDED" /\ contexts = Outside)
    /\ answer = "SUCCEEDED" => published
    /\ status = "IN_PROGRESS" /\ step = "scan" => ~published /\ answer = "IN_PROGRESS"

FrontEndInv == InFlight /\ Cells /\ Answers

LEMMA FrontEndStarts == FrontEndInit => FrontEndInv
<1> SUFFICES ASSUME FrontEndInit PROVE FrontEndInv
  OBVIOUS
<1>1. InFlight
  BY DEF FrontEndInit, InFlight, Outside
<1>2. Cells
  BY DEF FrontEndInit, Cells
<1>3. Answers
  BY Contexts DEF FrontEndInit, Answers, Outside
<1> QED BY <1>1, <1>2, <1>3 DEF FrontEndInv

\* A new token owns new cells.
LEMMA NewToken ==
    ASSUME FrontEndInv, step = "scan", NEW label, NEW context, createToken(label, context),
           scanned' = scanned + 1, strings' = strings, step' # "scan"
    PROVE  Cells'
<1> DEFINE new == TokenCells(scanned')
<1>1. scanned \in Nat /\ cells = strings
  BY DEF FrontEndInv, InFlight, Cells
<1>2. \A c \in strings : \E k \in 1 .. scanned : c = <<"lexeme", k>>
  BY DEF FrontEndInv, Cells
<1>3. new \cap strings = {}
  <2> SUFFICES ASSUME NEW part \in {"token", "lexeme", "semanticValue"},
                      <<part, scanned'>> \in strings
               PROVE  FALSE
    BY DEF TokenCells
  <2>1. PICK k \in 1 .. scanned : <<part, scanned'>> = <<"lexeme", k>>
    BY <1>2
  <2>2. scanned' = k
    BY <2>1
  <2> QED BY <1>1, <2>2
<1>4. OwnCells' = new
  BY DEF createToken, OwnCells, Parts, TokenCells
<1>5. cells' = cells \cup new
  BY DEF createToken
<1>6. \A c \in strings' : \E k \in 1 .. scanned' : c = <<"lexeme", k>>
  BY <1>1, <1>2
<1> HIDE DEF new
<1> QED BY <1>1, <1>3, <1>4, <1>5, <1>6 DEF Cells

LEMMA NewString == FrontEndInv /\ IdentifierLexemeAction => Cells'
<1> SUFFICES ASSUME FrontEndInv, IdentifierLexemeAction PROVE Cells'
  OBVIOUS
<1>1. /\ scanned \in Nat /\ cells = strings /\ scanned' = scanned + 1
      /\ cells' = cells \cup TokenCells(scanned') /\ step' = "push"
      /\ strings' = strings \cup {<<"lexeme", scanned'>>}
      /\ token'.lexeme = FALSE
  BY DEF FrontEndInv, InFlight, Cells, IdentifierLexemeAction, Scans
<1>2. \A c \in strings : \E k \in 1 .. scanned : c = <<"lexeme", k>>
  BY DEF FrontEndInv, Cells
<1>3. ASSUME NEW part, <<part, scanned'>> \in strings PROVE FALSE
  <2>1. PICK k \in 1 .. scanned : <<part, scanned'>> = <<"lexeme", k>>
    BY <1>2, <1>3
  <2>2. scanned' = k
    BY <2>1
  <2> QED BY <1>1, <2>2
<1>4. OwnCells' = {<<part, scanned'>> : part \in {"token", "semanticValue"}}
  BY <1>1 DEF OwnCells, Parts
<1>5. TokenCells(scanned') = OwnCells' \cup {<<"lexeme", scanned'>>}
  BY <1>4 DEF TokenCells
<1>6. OwnCells' \cap strings' = {}
  BY <1>1, <1>3, <1>4
<1>7. \A c \in strings' : \E k \in 1 .. scanned' : c = <<"lexeme", k>>
  <2> SUFFICES ASSUME NEW c \in strings' PROVE \E k \in 1 .. scanned' : c = <<"lexeme", k>>
    OBVIOUS
  <2>1. CASE c \in strings
    BY <1>1, <1>2, <2>1
  <2>2. CASE c = <<"lexeme", scanned'>>
    BY <1>1, <2>2
  <2> QED BY <1>1, <2>1, <2>2
<1> QED BY <1>1, <1>5, <1>6, <1>7 DEF Cells

\* A lexeme that is only logged takes its own cells, or none.
LEMMA NewLog ==
    ASSUME FrontEndInv, step = "scan", scanned' = scanned + 1, NEW context, LogLexeme(context)
    PROVE  Cells'
<1>1. CASE logIgnoredLexemes
  BY <1>1, NewToken DEF LogLexeme
<1>2. CASE ~logIgnoredLexemes
  <2>1. /\ scanned \in Nat /\ cells = strings /\ cells' = cells /\ strings' = strings
        /\ step' = "return"
    BY <1>2 DEF FrontEndInv, InFlight, Cells, LogLexeme
  <2>2. \A c \in strings : \E k \in 1 .. scanned : c = <<"lexeme", k>>
    BY DEF FrontEndInv, Cells
  <2>3. ASSUME NEW part, <<part, scanned'>> \in strings PROVE FALSE
    <3>1. PICK k \in 1 .. scanned : <<part, scanned'>> = <<"lexeme", k>>
      BY <2>2, <2>3
    <3>2. scanned' = k
      BY <3>1
    <3> QED BY <2>1, <3>2
  <2>4. OwnCells' \cap strings' = {}
    BY <2>1, <2>3 DEF OwnCells
  <2>5. \A c \in strings' : \E k \in 1 .. scanned' : c = <<"lexeme", k>>
    BY <2>1, <2>2
  <2> QED BY <2>1, <2>4, <2>5 DEF Cells
<1> QED BY <1>1, <1>2

LEMMA FrontEndKeeps == FrontEndInv /\ [FrontEndNext]_frontEnd => FrontEndInv'
<1> SUFFICES ASSUME FrontEndInv, [FrontEndNext]_frontEnd PROVE FrontEndInv'
  OBVIOUS
<1> USE DEF FrontEndInv
<1>1. CASE KeywordLexemeAction
  <2>1. InFlight'
    BY <1>1, Contexts DEF InFlight, KeywordLexemeAction, Scans, Matches, createToken,
                          currentLexicalAnalyzerContext
  <2>2. Cells'
    BY <1>1, NewToken DEF KeywordLexemeAction, Scans
  <2>3. Answers'
    BY <1>1 DEF Answers, KeywordLexemeAction, Scans
  <2> QED BY <2>1, <2>2, <2>3
<1>2. CASE IdentifierLexemeAction
  <2>1. InFlight'
    BY <1>2, Contexts DEF InFlight, IdentifierLexemeAction, Scans, Matches,
                          currentLexicalAnalyzerContext
  <2>2. Cells'
    BY <1>2, NewString
  <2>3. Answers'
    BY <1>2 DEF Answers, IdentifierLexemeAction, Scans
  <2> QED BY <2>1, <2>2, <2>3
<1>3. ASSUME step = "scan", status = "IN_PROGRESS", scanned' = scanned + 1,
             NEW context, LogLexeme(context), contexts' \in {Outside, InComment},
             UNCHANGED <<answer, published, status>>
      PROVE  FrontEndInv'
  <2>1. InFlight'
    BY <1>3 DEF InFlight, LogLexeme
  <2>2. Cells'
    BY <1>3, NewLog
  <2>3. token'.label = "IGNORED" /\ step' = "return"
    BY <1>3 DEF LogLexeme, createToken, NoToken
  <2>4. Answers'
    BY <1>3, <2>3 DEF Answers
  <2> QED BY <2>1, <2>2, <2>4
<1>4. CASE EnterCommentLexemeAction
  <2>1. contexts = Outside /\ contexts' = InComment
    BY <1>4, Contexts DEF EnterCommentLexemeAction, Scans, Matches, InFlight,
                          currentLexicalAnalyzerContext
  <2> QED BY <1>3, <1>4, <2>1 DEF EnterCommentLexemeAction, Scans
<1>5. CASE LeaveCommentLexemeAction
  <2>1. contexts = InComment /\ contexts' = Outside
    BY <1>5, Contexts DEF LeaveCommentLexemeAction, Scans, Matches, InFlight,
                          currentLexicalAnalyzerContext
  <2> QED BY <1>3, <1>5, <2>1 DEF LeaveCommentLexemeAction, Scans
<1>6. CASE IgnoredLexemeAction
  BY <1>3, <1>6 DEF IgnoredLexemeAction, Scans, InFlight
<1>7. CASE EOFLexemeAction
  <2>1. InFlight'
    BY <1>7 DEF InFlight, EOFLexemeAction, Scans, createToken, currentLexicalAnalyzerContext
  <2>2. Cells'
    BY <1>7, NewToken DEF EOFLexemeAction, Scans
  <2>3. Answers'
    BY <1>7 DEF Answers, EOFLexemeAction, Scans
  <2> QED BY <2>1, <2>2, <2>3
<1>8. CASE UnknownLexemeAction
  <2>1. InFlight'
    BY <1>8 DEF InFlight, UnknownLexemeAction, Scans
  <2>2. Cells'
    BY <1>8, NewToken DEF UnknownLexemeAction, Scans
  <2>3. token'.label = "UNKNOWN" /\ step' = "return"
    BY <1>8 DEF UnknownLexemeAction, createToken
  <2>4. Answers'
    BY <1>8, <2>3 DEF Answers, UnknownLexemeAction, Scans
  <2> QED BY <2>1, <2>2, <2>4
<1>9. CASE pushToken
  <2>1. InFlight'
    BY <1>9 DEF InFlight, pushToken
  <2>2. Cells'
    BY <1>9 DEF Cells, pushToken, OwnCells, Parts
  <2>3. Answers'
    BY <1>9 DEF Answers, InFlight, pushToken, Parser!Outcomes
  <2> QED BY <2>1, <2>2, <2>3
<1>10. CASE destroyToken
  <2>1. InFlight'
    BY <1>10 DEF InFlight, destroyToken
  <2>2. Cells'
    BY <1>10 DEF Cells, destroyToken, OwnCells
  <2>3. Answers'
    BY <1>10, Contexts DEF Answers, InFlight, destroyToken, Returned, Parser!Outcomes,
                           currentLexicalAnalyzerContext
  <2> QED BY <2>1, <2>2, <2>3
<1>11. CASE UNCHANGED frontEnd
  BY <1>11 DEF frontEnd, InFlight, Cells, Answers, OwnCells, Parts,
               currentLexicalAnalyzerContext, Parser!Outcomes
<1> QED BY <1>1, <1>2, <1>4, <1>5, <1>6, <1>7, <1>8, <1>9, <1>10, <1>11 DEF FrontEndNext

\* The three properties of the front end follow from the invariant.
LEMMA FrontEndInvSuffices == FrontEndInv => TokensOwnedOnce /\ CommentsSilent /\ AcceptedWhole
<1> SUFFICES ASSUME FrontEndInv PROVE TokensOwnedOnce /\ CommentsSilent /\ AcceptedWhole
  OBVIOUS
<1>1. TokensOwnedOnce
  BY DEF FrontEndInv, Cells, InFlight, OwnCells, TokensOwnedOnce
<1>2. CommentsSilent
  BY Contexts DEF FrontEndInv, InFlight, CommentsSilent, Outside, InComment,
                  currentLexicalAnalyzerContext
<1>3. AcceptedWhole
  BY DEF FrontEndInv, Answers, AcceptedWhole, Outside
<1> QED BY <1>1, <1>2, <1>3

-----------------------------------------------------------------------------

ModuleNames == {"AbstractSyntaxTree", "FlexActions", "BisonActions", "Frontend",
                "SemanticAnalyzer", "GraphvizGenerator"}
Early == {"start", "parsing", "analyzing", "drawing"}
Phases == Early \cup {"program", "table", "end", "done"} \cup ModuleNames

LEMMA ModulesAre ==
    /\ DOMAIN Modules = 1 .. 6 /\ Len(Modules) = 6
    /\ Modules[1] = "AbstractSyntaxTree" /\ Modules[2] = "FlexActions"
    /\ Modules[3] = "BisonActions" /\ Modules[4] = "Frontend"
    /\ Modules[5] = "SemanticAnalyzer" /\ Modules[6] = "GraphvizGenerator"
    /\ \A k \in 1 .. 6 : Modules[k] \in ModuleNames
    /\ \A k, l \in 1 .. 6 : Modules[k] = Modules[l] => k = l
    /\ ModuleNames = {Modules[i] : i \in 1 .. 6}
    /\ ToSet(Modules) = ModuleNames /\ Last(Modules) = "GraphvizGenerator"
<1>1. /\ DOMAIN Modules = 1 .. 6 /\ Len(Modules) = 6
      /\ Modules[1] = "AbstractSyntaxTree" /\ Modules[2] = "FlexActions"
      /\ Modules[3] = "BisonActions" /\ Modules[4] = "Frontend"
      /\ Modules[5] = "SemanticAnalyzer" /\ Modules[6] = "GraphvizGenerator"
  BY DEF Modules
<1>2. ToSet(Modules) = ModuleNames
  BY <1>1 DEF ToSet, ModuleNames
<1>3. Last(Modules) = "GraphvizGenerator"
  BY <1>1 DEF Last
<1>4. \A k \in 1 .. 6 : Modules[k] \in ModuleNames
  BY <1>1 DEF ModuleNames
<1>5. \A k, l \in 1 .. 6 : Modules[k] = Modules[l] => k = l
  BY <1>1
<1>6. ModuleNames = {Modules[i] : i \in 1 .. 6}
  BY <1>1 DEF ModuleNames
<1> QED BY <1>1, <1>2, <1>3, <1>4, <1>5, <1>6

\* What is allocated in each phase.
Always == {"lexicalAnalyzer", "EntryPoint"}
TheProgram == IF published THEN {"program"} ELSE {}
TheTable == IF table THEN {"symbolTable"} ELSE {}
Kept == IF table THEN ValidatorLoggers(schema) ELSE {}

Allocated ==
    /\ phase \in Phases
    /\ phase = "start" => live = {} /\ ~published /\ ~table
    /\ phase = "parsing" => live = Always \cup ModuleNames \cup TheProgram /\ ~table
    /\ phase = "analyzing" => live = Always \cup ModuleNames \cup TheProgram /\ published /\ ~table
    /\ phase = "drawing" =>
          /\ live = Always \cup ModuleNames \cup TheProgram \cup TheTable \cup Kept
          /\ published /\ table
    /\ phase = "program" => live = Always \cup ModuleNames \cup TheProgram \cup TheTable \cup Kept
    /\ phase = "table" => live = Always \cup ModuleNames \cup TheTable \cup Kept
    /\ \A k \in 1 .. 6 :
          phase = Modules[k] => live = Always \cup {Modules[i] : i \in 1 .. k} \cup Kept
    /\ phase = "end" => live = Always \cup Kept
    /\ phase = "done" => live = Kept
    /\ doubled = FALSE

\* A validator's logger is none of the things that are freed.
LEMMA KeptApart ==
    /\ Kept \subseteq Validators
    /\ Validators \cap (Always \cup ModuleNames \cup {"program", "symbolTable"}) = {}
<1>1. Kept \subseteq Validators
  BY DEF Kept, ValidatorLoggers
<1>2. Validators \cap (Always \cup ModuleNames \cup {"program", "symbolTable"}) = {}
  BY DEF Validators, Always, ModuleNames
<1> QED BY <1>1, <1>2

\* What was decided so far.
Decided ==
    /\ phase \in {"start", "parsing"} =>
          schema = NULL /\ computation = NULL /\ compilationStatus = NULL
    /\ phase = "analyzing" =>
          computation = NULL /\ compilationStatus = "SUCCEEDED" /\ schema # NULL
    /\ phase = "drawing" => computation = "SEMANTIC_OK" /\ compilationStatus = "SUCCEEDED"
    /\ phase \notin Early =>
          /\ compilationStatus \in {"SUCCEEDED", "FAILED"}
          /\ compilationStatus = "SUCCEEDED" => computation = "SEMANTIC_OK"
    /\ phase \in {"start", "parsing", "analyzing"} => drawing = "idle"
    /\ phase \in Early => png = UNTOUCHED
    /\ phase # "done" => exit = NULL

CompilerInv == FrontEndInv /\ Allocated /\ Decided

LEMMA CompilerStarts == Init => CompilerInv
<1> SUFFICES ASSUME Init PROVE CompilerInv
  OBVIOUS
<1>1. FrontEndInv
  BY FrontEndStarts DEF Init
<1>2. Allocated
  BY ModulesAre DEF Init, FrontEndInit, Allocated, Phases, Early, ModuleNames
<1>3. Decided
  BY DEF Init, GeneratorInit, Decided, Early
<1> QED BY <1>1, <1>2, <1>3 DEF CompilerInv

\* The generator leaves the schema alone, and does nothing once the file is closed.
LEMMA GeneratorSteps == GeneratorNext => schema' = schema /\ drawing # "closed"
<1>1. generateGraphviz => schema' = schema /\ drawing # "closed"
  BY DEF generateGraphviz
<1>2. writeEntity => schema' = schema /\ drawing # "closed"
  BY DEF writeEntity
<1>3. noEntities => schema' = schema /\ drawing # "closed"
  BY DEF noEntities
<1>4. expressionToString => schema' = schema /\ drawing # "closed"
  BY DEF expressionToString
<1>5. callBuilder => schema' = schema /\ drawing # "closed"
  BY DEF callBuilder
<1>6. writeAssertion => schema' = schema /\ drawing # "closed"
  BY DEF writeAssertion
<1>7. writeRelationship => schema' = schema /\ drawing # "closed"
  BY DEF writeRelationship
<1>8. closeFile => schema' = schema /\ drawing # "closed"
  BY DEF closeFile
<1> QED BY <1>1, <1>2, <1>3, <1>4, <1>5, <1>6, <1>7, <1>8 DEF GeneratorNext

LEMMA CompilerKeeps == CompilerInv /\ [Next]_vars => CompilerInv'
<1> SUFFICES ASSUME CompilerInv, [Next]_vars PROVE CompilerInv'
  OBVIOUS
<1> USE ModulesAre, CompilerAssumption DEF CompilerInv
<1>0. UNCHANGED frontEnd => FrontEndInv'
  BY FrontEndKeeps
<1>1. CASE initialize
  <2>1. Allocated'
    BY <1>1 DEF initialize, Allocated, Phases, Early, ModuleNames, Always, TheProgram, frontEnd
  <2>2. Decided'
    BY <1>1 DEF initialize, Decided, Early, generator, drawer
  <2> QED BY <1>0, <1>1, <2>1, <2>2 DEF initialize
<1>2. CASE executeSyntacticAnalysis
  <2>1. FrontEndInv'
    BY <1>2, FrontEndKeeps DEF executeSyntacticAnalysis
  <2>2. published => published'
    BY <1>2 DEF executeSyntacticAnalysis, FrontEndNext, KeywordLexemeAction,
       IdentifierLexemeAction, EnterCommentLexemeAction, LeaveCommentLexemeAction,
       IgnoredLexemeAction, EOFLexemeAction, UnknownLexemeAction, Scans, pushToken, destroyToken
  <2>3. Allocated'
    BY <1>2, <2>2 DEF executeSyntacticAnalysis, Allocated, Phases, Early, ModuleNames, Always,
                      TheProgram
  <2>4. Decided'
    BY <1>2 DEF executeSyntacticAnalysis, Decided, Early, generator, drawer
  <2> QED BY <2>1, <2>3, <2>4
<1>3. CASE syntaxAccepted
  <2>1. published
    BY <1>3, FrontEndInvSuffices DEF syntaxAccepted, FrontEndInv, InFlight, Answers
  <2>2. Allocated'
    BY <1>3, <2>1 DEF syntaxAccepted, Allocated, Phases, Early, ModuleNames, Always, TheProgram,
                      frontEnd
  <2>3. Decided'
    BY <1>3 DEF syntaxAccepted, Decided, Early, drawer
  <2> QED BY <1>0, <1>3, <2>2, <2>3 DEF syntaxAccepted
<1>4. CASE syntaxRejected
  <2>1. Allocated'
    BY <1>4 DEF syntaxRejected, Allocated, Phases, Early, ModuleNames, Always, TheProgram,
                TheTable, Kept, frontEnd
  <2>2. Decided'
    BY <1>4 DEF syntaxRejected, Decided, Early, generator, drawer
  <2> QED BY <1>0, <1>4, <2>1, <2>2 DEF syntaxRejected
<1>5. CASE executeSemanticAnalysis
  <2>1. Allocated'
    BY <1>5 DEF executeSemanticAnalysis, Allocated, Phases, Early, ModuleNames, Always,
                TheProgram, TheTable, Kept, Analysis!Judge, frontEnd
  <2>2. Decided'
    BY <1>5 DEF executeSemanticAnalysis, Decided, Early, drawer
  <2> QED BY <1>0, <1>5, <2>1, <2>2 DEF executeSemanticAnalysis
<1>6. CASE draw
  <2>1. UNCHANGED <<process, frontEnd, schema>>
    BY <1>6, GeneratorSteps DEF draw
  <2>2. Allocated'
    BY <2>1 DEF Allocated, TheProgram, TheTable, Kept, process, frontEnd
  <2>3. Decided'
    BY <1>6, <2>1 DEF draw, Decided, Early, process
  <2> QED BY <1>0, <2>1, <2>2, <2>3
<1>7. CASE generateImageFromDot
  <2>1. Allocated'
    BY <1>7 DEF generateImageFromDot, Allocated, Phases, Early, ModuleNames, Always,
                TheProgram, TheTable, Kept, frontEnd, generator
  <2>2. Decided'
    BY <1>7 DEF generateImageFromDot, Decided, Early
  <2> QED BY <1>0, <1>7, <2>1, <2>2 DEF generateImageFromDot
<1>8. CASE destroyProgram
  <2>1. /\ live = Always \cup ModuleNames \cup TheProgram \cup TheTable \cup Kept
        /\ phase' = "table" /\ table' = table /\ schema' = schema /\ doubled = FALSE
    BY <1>8 DEF destroyProgram, Allocated, generator
  <2>2. "program" \notin Always \cup ModuleNames \cup TheTable \cup Kept
    BY KeptApart DEF Always, ModuleNames, TheTable
  <2>3. live' = Always \cup ModuleNames \cup TheTable \cup Kept /\ doubled' = FALSE
    BY <1>8, <2>1, <2>2 DEF destroyProgram, Free, Keep, TheProgram
  <2>4. Kept' = Kept
    BY <2>1 DEF Kept
  <2>4a. Allocated'
    BY <2>1, <2>3, <2>4 DEF Allocated, Phases, Early, ModuleNames, TheTable
  <2>5. Decided'
    BY <1>8 DEF destroyProgram, Decided, Early, generator, drawer
  <2> QED BY <1>0, <1>8, <2>4a, <2>5 DEF destroyProgram
<1>9. CASE destroySymbolTable
  <2>1. /\ live = Always \cup ModuleNames \cup TheTable \cup Kept
        /\ phase' = Modules[6] /\ doubled = FALSE
    BY <1>9 DEF destroySymbolTable, Allocated
  <2>2. "symbolTable" \notin Always \cup ModuleNames \cup Kept
    BY KeptApart DEF Always, ModuleNames
  <2>3. /\ live' = Always \cup {Modules[i] : i \in 1 .. 6} \cup Kept
        /\ doubled' = FALSE /\ Kept' = Kept
    <3>1. live' = Always \cup ModuleNames \cup Kept /\ doubled' = FALSE
      BY <1>9, <2>1, <2>2 DEF destroySymbolTable, Free, Keep, TheTable
    <3>2. Kept' = Kept
      BY <1>9 DEF destroySymbolTable, Kept, generator
    <3> QED BY <3>1, <3>2
  <2>4. phase' \in ModuleNames
    BY <2>1
  <2>5. Allocated'
    BY <2>1, <2>3, <2>4 DEF Allocated, Phases, Early, ModuleNames
  <2>6. Decided'
    BY <1>9, <2>4 DEF destroySymbolTable, Decided, Early, ModuleNames, generator, drawer
  <2> QED BY <1>0, <1>9, <2>5, <2>6 DEF destroySymbolTable
<1>10. ASSUME NEW k \in DOMAIN Modules, shutdown(k) PROVE CompilerInv'
  <2>1. /\ k \in 1 .. 6 /\ phase = Modules[k] /\ doubled = FALSE
        /\ live = Always \cup {Modules[i] : i \in 1 .. k} \cup Kept
        /\ Kept' = Kept
    BY <1>10 DEF shutdown, Allocated, Kept, generator
  <2>2. Modules[k] \notin Always \cup Kept
    <3>1. Modules[k] \in ModuleNames
      BY <2>1
    <3> QED BY <3>1, KeptApart DEF ModuleNames, Always
  <2>3. {Modules[i] : i \in 1 .. k} \ {Modules[k]} = {Modules[i] : i \in 1 .. k - 1}
    BY <2>1
  <2>4. live' = Always \cup {Modules[i] : i \in 1 .. k - 1} \cup Kept /\ doubled' = FALSE
    <3>1. Modules[k] \in live
      BY <2>1
    <3>2. live \ {Modules[k]} = Always \cup {Modules[i] : i \in 1 .. k - 1} \cup Kept
      BY <2>1, <2>2, <2>3
    <3>3. live' = live \ {Modules[k]} /\ doubled' = (doubled \/ Modules[k] \notin live)
      BY <1>10 DEF shutdown, Free
    <3> QED BY <2>1, <3>1, <3>2, <3>3
  <2>5. CASE k = 1
    <3>1. phase' = "end"
      BY <1>10, <2>4, <2>5 DEF shutdown
    <3>2. live' = Always \cup Kept'
      BY <2>1, <2>4, <2>5
    <3>3. phase' \notin ModuleNames /\ phase \in ModuleNames
      BY <2>1, <3>1 DEF ModuleNames
    <3>4. Allocated'
      BY <2>4, <3>1, <3>2, <3>3 DEF Allocated, Phases, Early
    <3>5. Decided'
      BY <1>10, <3>1, <3>3 DEF shutdown, Decided, Early, ModuleNames, generator, drawer
    <3> QED BY <1>0, <1>10, <3>4, <3>5 DEF shutdown
  <2>6. CASE k # 1
    <3>1. k - 1 \in 1 .. 6 /\ phase' = Modules[k - 1]
      BY <1>10, <2>1, <2>6 DEF shutdown
    <3>2. phase' \in ModuleNames /\ phase \in ModuleNames
      BY <2>1, <3>1
    <3>3. \A l \in 1 .. 6 :
             phase' = Modules[l] => live' = Always \cup {Modules[i] : i \in 1 .. l} \cup Kept'
      BY <2>1, <2>4, <3>1
    <3>4. Allocated'
      BY <2>4, <3>2, <3>3 DEF Allocated, Phases, Early, ModuleNames
    <3>5. Decided'
      BY <1>10, <3>2 DEF shutdown, Decided, Early, ModuleNames, generator, drawer
    <3> QED BY <1>0, <1>10, <3>4, <3>5 DEF shutdown
  <2> QED BY <2>5, <2>6
<1>11. CASE finish
  <2>1. /\ live = Always \cup Kept /\ doubled = FALSE /\ Kept' = Kept
    BY <1>11 DEF finish, Allocated, Kept, generator
  <2>1a. live' = Kept' /\ phase' = "done" /\ doubled' = FALSE
    BY <1>11, <2>1, KeptApart DEF finish, Always
  <2>1b. Allocated'
    BY <2>1a DEF Allocated, Phases, Early, ModuleNames
  <2>2. Decided'
    BY <1>11 DEF finish, Decided, Early, generator, drawer
  <2> QED BY <1>0, <1>11, <2>1b, <2>2 DEF finish
<1>12. CASE UNCHANGED vars
  <2>1. Allocated' /\ Decided'
    BY <1>12 DEF vars, process, frontEnd, generator, drawer, Allocated, TheProgram, TheTable,
                 Kept, Decided
  <2> QED BY <1>0, <1>12, <2>1 DEF vars
<1> QED BY <1>1, <1>2, <1>3, <1>4, <1>5, <1>6, <1>7, <1>8, <1>9, <1>10, <1>11, <1>12 DEF Next

\* A token and what it owns is freed once, whatever the parser answers and
\* wherever a comment opens (FlexActions.c:63, Frontend.c:130).
THEOREM TokensAreOwnedOnce == Spec => []TokensOwnedOnce
<1>1. CompilerInv => TokensOwnedOnce
  BY FrontEndInvSuffices DEF CompilerInv
<1> QED BY CompilerStarts, CompilerKeeps, <1>1, PTL DEF Spec

\* No token of a comment is pushed into the parser (FlexPatterns.l:33).
THEOREM CommentsAreSilent == Spec => []CommentsSilent
<1>1. CompilerInv => CommentsSilent
  BY FrontEndInvSuffices DEF CompilerInv
<1> QED BY CompilerStarts, CompilerKeeps, <1>1, PTL DEF Spec

\* The front end's success is the parser's, unless a comment is open at the end of
\* the file (FlexActions.c:165).
THEOREM AcceptedIsWhole == Spec => []AcceptedWhole
<1>1. CompilerInv => AcceptedWhole
  BY FrontEndInvSuffices DEF CompilerInv
<1> QED BY CompilerStarts, CompilerKeeps, <1>1, PTL DEF Spec

\* Whichever way the phases went, nothing is freed twice, and what main leaves behind
\* are exactly the loggers of the validators that ran, none if the analysis found a
\* name twice or never began (EntryPoint.c:67-79, TypeInference.c:5-10).
THEOREM EverythingReleasedOnce == Spec => []ReleasedOnce
<1>1. CompilerInv => ReleasedOnce
  BY DEF CompilerInv, Allocated, Kept, ReleasedOnce
<1> QED BY CompilerStarts, CompilerKeeps, <1>1, PTL DEF Spec

\* No phase uses what another has released (EntryPoint.c:44-79).
THEOREM NothingUsedAfterRelease == Spec => []UsedWhileLive
<1>1. CompilerInv => UsedWhileLive
  <2> SUFFICES ASSUME CompilerInv PROVE UsedWhileLive
    OBVIOUS
  <2> USE DEF CompilerInv
  <2>1. ASSUME phase \in DOMAIN Uses PROVE Uses[phase] \subseteq live
    BY <2>1 DEF Allocated, Uses, Always, ModuleNames, TheProgram, TheTable
  <2>2. ASSUME phase \in ModuleNames PROVE phase \in live
    BY <2>2, ModulesAre DEF Allocated
  <2> QED BY <2>1, <2>2, ModulesAre DEF UsedWhileLive
<1> QED BY CompilerStarts, CompilerKeeps, <1>1, PTL DEF Spec

-----------------------------------------------------------------------------
(* Refinement                                                              *)
LEMMA StartsAsCompilation == Init => Result!Init
BY CompilerAssumption DEF Init, GeneratorInit, Result!Init

\* Each action of main is one of Compilation or leaves what it maps to alone.
LEMMA StepsAsCompilation ==
    CompilerInv /\ [Next]_vars => [Result!Next]_Result!compilation
<1> SUFFICES ASSUME CompilerInv, [Next]_vars PROVE [Result!Next]_Result!compilation
  OBVIOUS
<1> USE CompilerAssumption DEF CompilerInv
<1>0. UNCHANGED <<schema, compilationStatus, computation, drawing, dot, png, exit>>
         => UNCHANGED Result!compilation
  BY DEF Result!compilation
<1>1. CASE initialize
  BY <1>0, <1>1 DEF initialize, generator, drawer
<1>2. CASE executeSyntacticAnalysis
  BY <1>0, <1>2 DEF executeSyntacticAnalysis, generator, drawer
<1>3. CASE syntaxAccepted
  <2>1. /\ schema = NULL /\ schema' \in Schema /\ schema' # NULL
        /\ compilationStatus = NULL /\ compilationStatus' = "SUCCEEDED"
        /\ computation = NULL /\ computation' = NULL /\ drawing = "idle"
        /\ UNCHANGED <<drawing, dot, png, exit>> /\ png = UNTOUCHED
    BY <1>3 DEF syntaxAccepted, Decided, Early, drawer
  <2>2. Result!Parse
    BY <2>1 DEF Result!Parse
  <2> QED BY <2>2 DEF Result!Next
<1>4. CASE syntaxRejected
  <2>1. /\ schema = NULL /\ compilationStatus = NULL /\ compilationStatus' = "FAILED"
        /\ computation = NULL
        /\ UNCHANGED <<schema, computation, drawing, dot, png, exit>>
    BY <1>4 DEF syntaxRejected, Decided, generator, drawer
  <2>2. Result!Decide
    BY <2>1 DEF Result!Decide, Result!Accepted
  <2> QED BY <2>2 DEF Result!Next
<1>5. CASE executeSemanticAnalysis
  <2>1. /\ compilationStatus = "SUCCEEDED" /\ computation = NULL /\ schema # NULL
        /\ UNCHANGED <<schema, drawing, dot, png, exit>>
    BY <1>5 DEF executeSemanticAnalysis, Decided, drawer, Analysis!Judge
  <2>2. /\ computation' \in {"SEMANTIC_OK", "SEMANTIC_ERROR"}
        /\ computation' = "SEMANTIC_OK" <=> SchemaSound(schema)
    BY <1>5 DEF executeSemanticAnalysis, Analysis!Judge
  <2>3. compilationStatus' = IF SchemaSound(schema) THEN "SUCCEEDED" ELSE "FAILED"
    BY <1>5, <2>1, <2>2 DEF executeSemanticAnalysis
  <2>4. Result!Decide
    BY <2>1, <2>2, <2>3 DEF Result!Decide, Result!Accepted
  <2> QED BY <2>4 DEF Result!Next
<1>6. CASE draw
  <2>1. /\ compilationStatus = "SUCCEEDED" /\ computation = "SEMANTIC_OK"
        /\ png = UNTOUCHED /\ exit = NULL
        /\ UNCHANGED <<compilationStatus, computation, png, exit>>
    BY <1>6 DEF draw, Decided, Early, process
  <2>2. schema' = schema /\ drawing # "closed"
    BY <1>6, GeneratorSteps DEF draw
  <2>3. CASE drawing' = "closed"
    <3>1. Result!Draw
      BY <2>1, <2>2, <2>3 DEF Result!Draw
    <3> QED BY <3>1 DEF Result!Next
  <2>4. CASE drawing' # "closed"
    BY <2>1, <2>2, <2>4 DEF Result!compilation
  <2> QED BY <2>3, <2>4
<1>7. CASE generateImageFromDot
  <2>1. /\ compilationStatus = "SUCCEEDED" /\ computation = "SEMANTIC_OK"
        /\ png = UNTOUCHED /\ exit = NULL /\ png' \in {png, dot}
        /\ UNCHANGED <<schema, compilationStatus, computation, drawing, dot, exit>>
    BY <1>7 DEF generateImageFromDot, Decided, Early, generator, drawer
  <2>2. CASE png' = UNTOUCHED
    BY <2>1, <2>2 DEF Result!compilation
  <2>3. CASE png' # UNTOUCHED
    <3>1. Result!Render
      BY <2>1, <2>3 DEF Result!Render
    <3> QED BY <3>1 DEF Result!Next
  <2> QED BY <2>2, <2>3
<1>8. CASE destroyProgram
  BY <1>0, <1>8 DEF destroyProgram, generator, drawer
<1>9. CASE destroySymbolTable
  BY <1>0, <1>9 DEF destroySymbolTable, generator, drawer
<1>10. ASSUME NEW k \in DOMAIN Modules, shutdown(k) PROVE UNCHANGED Result!compilation
  BY <1>0, <1>10 DEF shutdown, generator, drawer
<1>11. CASE finish
  <2>1. /\ compilationStatus \in {"SUCCEEDED", "FAILED"}
        /\ compilationStatus = "SUCCEEDED" => computation = "SEMANTIC_OK"
        /\ exit = NULL /\ exit' = compilationStatus
        /\ UNCHANGED <<schema, compilationStatus, computation, drawing, dot, png>>
    BY <1>11 DEF finish, Decided, Early, generator, drawer
  <2>2. Result!Finish
    BY <2>1 DEF Result!Finish
  <2> QED BY <2>2 DEF Result!Next
<1>12. CASE UNCHANGED vars
  BY <1>0, <1>12 DEF vars, process, generator, drawer
<1> QED BY <1>1, <1>2, <1>3, <1>4, <1>5, <1>6, <1>7, <1>8, <1>9, <1>10, <1>11, <1>12 DEF Next

\* For whatever schemas, files and failures, a run of main is a run of Compilation:
\* its exit code tells whether the program is a well-formed schema, and what it
\* leaves in the two files (EntryPoint.c:33-80).
THEOREM CompilerImplementsCompilation == Spec => ImplementsCompilation
<1>1. Init => CompilerInv /\ Result!Init
  BY CompilerStarts, StartsAsCompilation
<1>2. CompilerInv /\ [Next]_vars => CompilerInv' /\ [Result!Next]_Result!compilation
  BY CompilerKeeps, StepsAsCompilation
<1> QED BY <1>1, <1>2, PTL DEF Spec, ImplementsCompilation, Result!Spec

-----------------------------------------------------------------------------
(* Where the generator is                                                  *)

Begun == drawing \notin {"idle", "failed"}

\* The place in the two lists, and that only an accepted schema is drawn.
Position ==
    /\ drawing \in {"idle", "failed", "entities", "assertions", "label", "relationships", "closed"}
    /\ drawing \in {"idle", "failed", "entities", "relationships", "closed"} => assertion = 0
    /\ drawing = "entities" =>
          at \in DOMAIN schema.entities \/ (at = 1 /\ schema.entities = <<>>)
    /\ drawing \in {"assertions", "label"} =>
          at \in DOMAIN schema.entities /\ assertion \in DOMAIN schema.entities[at].assertions
    /\ drawing = "relationships" => at \in 1 .. Len(schema.relationships) + 1

Judged ==
    /\ schema \in Schemas \cup {NULL}
    /\ computation = "SEMANTIC_OK" => schema \in Schemas /\ SchemaSound(schema)
    /\ drawing # "idle" => computation = "SEMANTIC_OK"

PlaceInv == CompilerInv /\ Position /\ Judged

LEMMA SchemaLists ==
    ASSUME NEW s \in Schemas
    PROVE  /\ s.entities \in Seq(Entity) /\ s.relationships \in Seq(Relationship)
           /\ \A i \in 1 .. Len(s.entities) :
                 /\ s.entities[i] \in Entity
                 /\ s.entities[i].attributes \in Seq(Attribute)
                 /\ s.entities[i].assertions \in Seq(Expression)
           /\ \A i \in 1 .. Len(s.relationships) :
                 /\ s.relationships[i] \in Relationship
                 /\ s.relationships[i].attributes \in Seq(Attribute)
                 /\ s.relationships[i].participants \in Seq(Participant)
<1>1. s \in Schema
  BY CompilerAssumption
<1>2. s.entities \in Seq(Entity) /\ s.relationships \in Seq(Relationship)
  BY <1>1 DEF Schema
<1>3. \A e \in Entity : e.attributes \in Seq(Attribute) /\ e.assertions \in Seq(Expression)
  BY DEF Entity
<1>4. \A r \in Relationship : r.attributes \in Seq(Attribute) /\ r.participants \in Seq(Participant)
  BY DEF Relationship
<1>5. \A i \in 1 .. Len(s.entities) : s.entities[i] \in Entity
  BY <1>2
<1>6. \A i \in 1 .. Len(s.relationships) : s.relationships[i] \in Relationship
  BY <1>2
<1> QED BY <1>2, <1>3, <1>4, <1>5, <1>6

LEMMA PlaceStarts == Init => PlaceInv
<1>1. Init => CompilerInv
  BY CompilerStarts
<1>2. Init => Position /\ Judged
  BY CompilerAssumption DEF Init, GeneratorInit, Position, Judged
<1> QED BY <1>1, <1>2 DEF PlaceInv

LEMMA ContinueKeepsPlace ==
    ASSUME schema \in Schemas, at \in DOMAIN schema.entities, assertion \in Nat,
           assertion <= Len(Here.assertions), Continue, schema' = schema
    PROVE  Position'
<1> DEFINE e == schema.entities[at]
<1>1. /\ Len(e.assertions) \in Nat /\ DOMAIN e.assertions = 1 .. Len(e.assertions)
      /\ DOMAIN schema.entities = 1 .. Len(schema.entities) /\ Len(schema.entities) \in Nat
      /\ Len(schema.relationships) \in Nat
  BY SchemaLists
<1>2. CASE assertion < Len(e.assertions) /\ assertion' = assertion + 1
           /\ drawing' = "assertions" /\ UNCHANGED at
  <2>1. assertion' \in DOMAIN schema'.entities[at'].assertions /\ at' \in DOMAIN schema'.entities
    BY <1>1, <1>2
  <2> QED BY <1>2, <2>1 DEF Position
<1>3. CASE at < Len(schema.entities) /\ assertion' = 0 /\ drawing' = "entities" /\ at' = at + 1
  <2>1. at' \in DOMAIN schema'.entities
    BY <1>1, <1>3
  <2> QED BY <1>3, <2>1 DEF Position
<1>4. CASE assertion' = 0 /\ drawing' = "relationships" /\ at' = 1
  <2>1. at' \in 1 .. Len(schema'.relationships) + 1
    BY <1>1, <1>4
  <2> QED BY <1>4, <2>1 DEF Position
<1> QED BY <1>2, <1>3, <1>4 DEF Continue, Here

LEMMA GeneratorKeepsPlace ==
    ASSUME Position, schema \in Schemas, GeneratorNext
    PROVE  Position'
<1>0. schema' = schema
  BY GeneratorSteps
<1>a. /\ Len(schema.entities) \in Nat /\ DOMAIN schema.entities = 1 .. Len(schema.entities)
      /\ Len(schema.relationships) \in Nat
      /\ DOMAIN schema.relationships = 1 .. Len(schema.relationships)
      /\ \A i \in DOMAIN schema.entities :
            /\ Len(schema.entities[i].assertions) \in Nat
            /\ DOMAIN schema.entities[i].assertions = 1 .. Len(schema.entities[i].assertions)
  BY SchemaLists
<1>1. CASE generateGraphviz
  <2>1. CASE Len(schema.entities) = 0
    <3>1. schema.entities = <<>>
      BY <2>1, SchemaLists
    <3> QED BY <1>0, <1>1, <3>1 DEF generateGraphviz, Position
  <2>2. CASE Len(schema.entities) # 0
    <3>1. 1 \in DOMAIN schema.entities
      BY <2>2, <1>a
    <3> QED BY <1>0, <1>1, <3>1 DEF generateGraphviz, Position
  <2> QED BY <2>1, <2>2
<1>2. CASE writeEntity
  <2>1. assertion = 0 /\ at \in DOMAIN schema.entities /\ Continue
    BY <1>2 DEF writeEntity, Position
  <2>2. assertion <= Len(Here.assertions)
    BY <1>a, <2>1 DEF Here
  <2> QED BY <1>0, <2>1, <2>2, ContinueKeepsPlace
<1>3. CASE noEntities
  <2>1. at' \in 1 .. Len(schema'.relationships) + 1
    BY <1>0, <1>a, <1>3 DEF noEntities
  <2> QED BY <1>3, <2>1 DEF noEntities, Position
<1>4. CASE expressionToString
  BY <1>4 DEF expressionToString, Position
<1>5. CASE callBuilder
  BY <1>5 DEF callBuilder, Position
<1>6. CASE writeAssertion
  <2>1. assertion \in DOMAIN Here.assertions /\ at \in DOMAIN schema.entities /\ Continue
    BY <1>6 DEF writeAssertion, Position, Here
  <2>2. assertion \in Nat /\ assertion <= Len(Here.assertions)
    BY <1>a, <2>1 DEF Here
  <2> QED BY <1>0, <2>1, <2>2, ContinueKeepsPlace
<1>7. CASE writeRelationship
  <2>1. at' \in 1 .. Len(schema'.relationships) + 1
    BY <1>0, <1>a, <1>7 DEF writeRelationship
  <2> QED BY <1>7, <2>1 DEF writeRelationship, Position
<1>8. CASE closeFile
  BY <1>8 DEF closeFile, Position
<1> QED BY <1>1, <1>2, <1>3, <1>4, <1>5, <1>6, <1>7, <1>8 DEF GeneratorNext

LEMMA PlaceKeeps == PlaceInv /\ [Next]_vars => PlaceInv'
<1> SUFFICES ASSUME PlaceInv, [Next]_vars PROVE PlaceInv'
  OBVIOUS
<1>0. CompilerInv'
  BY CompilerKeeps DEF PlaceInv
<1> USE DEF PlaceInv
<1>a. UNCHANGED <<schema, drawing, at, assertion>> => Position'
  BY DEF Position
<1>1. CASE draw
  <2>1. GeneratorNext /\ computation' = computation /\ computation = "SEMANTIC_OK"
    BY <1>1 DEF draw, process, CompilerInv, Decided
  <2>2. schema' = schema /\ schema \in Schemas /\ SchemaSound(schema)
    BY <2>1, GeneratorSteps DEF Judged
  <2>3. Position'
    BY <2>1, <2>2, GeneratorKeepsPlace
  <2>4. Judged'
    BY <2>1, <2>2 DEF Judged
  <2> QED BY <1>0, <2>3, <2>4
<1>2. CASE syntaxAccepted
  <2>1. drawing = "idle" /\ drawing' = "idle" /\ schema' \in Schemas /\ assertion' = 0
        /\ computation = NULL /\ computation' = NULL
    BY <1>2 DEF syntaxAccepted, drawer, CompilerInv, Decided, Position
  <2> QED BY <1>0, <2>1, CompilerAssumption DEF Position, Judged
<1>3. CASE executeSemanticAnalysis
  <2>1. /\ UNCHANGED <<schema, drawing, at, assertion>> /\ drawing = "idle"
        /\ schema # NULL
        /\ computation' = "SEMANTIC_OK" <=> SchemaSound(schema)
    BY <1>3 DEF executeSemanticAnalysis, drawer, Analysis!Judge, CompilerInv, Decided
  <2>2. Judged'
    BY <2>1 DEF Judged
  <2> QED BY <1>0, <1>a, <2>1, <2>2
<1>4. CASE UNCHANGED <<schema, drawing, at, assertion, computation>>
  <2>1. Judged'
    BY <1>4 DEF Judged
  <2> QED BY <1>0, <1>a, <1>4, <2>1
<1>5. ASSUME NEW k \in DOMAIN Modules, shutdown(k)
      PROVE  UNCHANGED <<schema, drawing, at, assertion, computation>>
  BY <1>5 DEF shutdown, generator, drawer
<1>6. [Next]_vars => \/ draw \/ syntaxAccepted \/ executeSemanticAnalysis
                     \/ UNCHANGED <<schema, drawing, at, assertion, computation>>
  BY <1>5 DEF Next, initialize, executeSyntacticAnalysis, syntaxRejected, generateImageFromDot,
     destroyProgram, destroySymbolTable, finish, vars, process, generator, drawer
<1> QED BY <1>1, <1>2, <1>3, <1>4, <1>6

\* Outside the phase of the generator nothing of it moves, and the schema comes
\* before it begins.
LEMMA OnlyDrawDraws ==
    ASSUME PlaceInv, [Next]_vars
    PROVE  \/ draw /\ GeneratorNext /\ schema \in Schemas /\ SchemaSound(schema)
           \/ UNCHANGED <<drawing, at, assertion, calls, dot, builder>> /\ UNCHANGED schema
           \/ UNCHANGED <<drawing, at, assertion, calls, dot, builder>> /\ drawing = "idle"
<1>1. CASE draw
  <2>1. GeneratorNext /\ computation = "SEMANTIC_OK"
    BY <1>1 DEF draw, PlaceInv, CompilerInv, Decided
  <2> QED BY <1>1, <2>1 DEF PlaceInv, Judged
<1>2. CASE syntaxAccepted
  <2>1. drawing = "idle" /\ UNCHANGED <<drawing, at, assertion, calls, dot, builder>>
    BY <1>2 DEF syntaxAccepted, drawer, PlaceInv, CompilerInv, Decided
  <2> QED BY <2>1
<1>3. CASE executeSemanticAnalysis
  <2>1. schema' = schema /\ UNCHANGED <<drawing, at, assertion, calls, dot, builder>>
    BY <1>3 DEF executeSemanticAnalysis, drawer, Analysis!Judge
  <2> QED BY <2>1
<1>4. ASSUME NEW k \in DOMAIN Modules, shutdown(k) PROVE UNCHANGED generator
  BY <1>4 DEF shutdown
<1>5. [Next]_vars => draw \/ syntaxAccepted \/ executeSemanticAnalysis \/ UNCHANGED generator
  BY <1>4 DEF Next, initialize, executeSyntacticAnalysis, syntaxRejected, generateImageFromDot,
     destroyProgram, destroySymbolTable, finish, vars
<1>6. CASE UNCHANGED generator
  BY <1>6 DEF generator, drawer
<1> QED BY <1>1, <1>2, <1>3, <1>5, <1>6

-----------------------------------------------------------------------------
(* The buffer of the string builder                                        *)

\* The conjuncts in the form the steps use.
Holds(d, len, text) ==
    /\ len = Len(text)
    /\ len \in DOMAIN d
    /\ \A i \in 1 .. len : d[i - 1] = text[i]
    /\ d[len] = NUL

\* Appending a text to a buffer with room for it and its terminator
\* (GraphvizGenerator.c:424).
LEMMA CopyHolds ==
    ASSUME NEW cap \in Nat, NEW d \in [0 .. cap - 1 -> Byte], NEW len \in Nat,
           NEW text \in Text, NEW str \in Text,
           len = Len(text), \A i \in 1 .. len : d[i - 1] = text[i],
           len + Len(str) < cap
    PROVE  /\ strcpy(d, len, str) \in [0 .. cap - 1 -> Byte]
           /\ Holds(strcpy(d, len, str), len + Len(str), text \o str)
<1> DEFINE e == strcpy(d, len, str)
<1>1. Len(str) \in Nat /\ Len(text) \in Nat /\ DOMAIN d = 0 .. cap - 1
  BY DEF Text
<1>2. ASSUME NEW i \in 0 .. cap - 1
      PROVE  e[i] = IF i \in len .. len + Len(str) - 1 THEN str[i - len + 1]
                    ELSE IF i = len + Len(str) THEN NUL ELSE d[i]
  BY <1>1 DEF strcpy
<1>3. DOMAIN e = 0 .. cap - 1
  BY <1>1 DEF strcpy
<1>4. ASSUME NEW i \in 0 .. cap - 1
      PROVE  e[i] \in Byte
  <2>1. CASE i \in len .. len + Len(str) - 1
    <3>1. i - len + 1 \in 1 .. Len(str)
      BY <2>1, <1>1
    <3>2. str[i - len + 1] \in Char
      BY <3>1 DEF Text
    <3> QED BY <1>2, <2>1, <3>2 DEF Byte
  <2>2. CASE i \notin len .. len + Len(str) - 1
    BY <1>1, <1>2, <2>2 DEF Byte
  <2> QED BY <2>1, <2>2
<1>5. e \in [0 .. cap - 1 -> Byte]
  BY <1>3, <1>4 DEF strcpy
<1>6. len + Len(str) = Len(text \o str)
  BY <1>1 DEF Text
<1>7. len + Len(str) \in DOMAIN e /\ e[len + Len(str)] = NUL
  BY <1>1, <1>2, <1>3
<1>8. ASSUME NEW i \in 1 .. len + Len(str)
      PROVE  e[i - 1] = (text \o str)[i]
  <2>1. i - 1 \in 0 .. cap - 1
    BY <1>1
  <2>2. CASE i <= len
    <3>1. e[i - 1] = d[i - 1]
      BY <1>1, <1>2, <2>1, <2>2
    <3>2. (text \o str)[i] = text[i]
      BY <1>1, <2>2 DEF Text
    <3> QED BY <3>1, <3>2, <2>2
  <2>3. CASE i > len
    <3>1. i - 1 \in len .. len + Len(str) - 1
      BY <1>1, <2>3
    <3>2. e[i - 1] = str[i - len]
      BY <1>2, <2>1, <3>1
    <3>3. (text \o str)[i] = str[i - len]
      BY <1>1, <2>3 DEF Text
    <3> QED BY <3>2, <3>3
  <2> QED BY <2>2, <2>3
<1> QED BY <1>5, <1>6, <1>7, <1>8 DEF Holds

\* The inductive invariant: the builder is well typed and holds its texts.
BuilderInv == BuilderTypeOK /\ TextIntact

LEMMA EmptyText == <<>> \in Text /\ Len(<<>>) = 0
BY DEF Text

LEMMA AppendKeeps ==
    ASSUME BuilderInv, NEW str \in Text, sb_append(str)
    PROVE  BuilderInv'
<1> USE BuilderAssumption
<1>1. CASE Dropped
  BY <1>1 DEF BuilderInv, BuilderTypeOK, TextIntact, Dropped
<1>2. CASE data # NO_DATA /\ Fits(str) /\ Copy(data, str) /\ UNCHANGED capacity
  <2>1. length = Len(appended) /\ length \in Nat /\ appended \in Text
        /\ data \in [0 .. capacity - 1 -> Byte] /\ capacity \in Nat
        /\ \A i \in 1 .. length : data[i - 1] = appended[i]
    BY <1>2 DEF BuilderInv, BuilderTypeOK, TextIntact, Text
  <2>2. length + Len(str) < capacity
    BY <1>2 DEF Fits
  <2>3. /\ strcpy(data, length, str) \in [0 .. capacity - 1 -> Byte]
        /\ Holds(strcpy(data, length, str), length + Len(str), appended \o str)
    BY <2>1, <2>2, CopyHolds
  <2>4. appended \o str \in Text
    BY <2>1 DEF Text
  <2> QED BY <1>2, <2>1, <2>3, <2>4
          DEF BuilderInv, BuilderTypeOK, TextIntact, Copy, Holds
<1>3. CASE /\ data # NO_DATA /\ ~Fits(str)
           /\ Copy(realloc(data, Grown(str)), str) /\ capacity' = Grown(str)
  <2>1. length = Len(appended) /\ length \in Nat /\ appended \in Text
        /\ data \in [0 .. capacity - 1 -> Byte] /\ capacity \in Nat
        /\ length \in 0 .. capacity - 1
        /\ \A i \in 1 .. length : data[i - 1] = appended[i]
    BY <1>3 DEF BuilderInv, BuilderTypeOK, TextIntact, Text
  <2>2. Grown(str) \in Nat /\ capacity <= Grown(str) /\ length + Len(str) < Grown(str)
    BY <2>1 DEF Grown, Text
  <2>3. /\ realloc(data, Grown(str)) \in [0 .. Grown(str) - 1 -> Byte]
        /\ \A i \in 1 .. length : realloc(data, Grown(str))[i - 1] = appended[i]
    <3>1. length < capacity
      BY <2>1
    <3> DEFINE n == Grown(str)
    <3>2. n \in Nat /\ capacity <= n
      BY <2>2
    <3> HIDE DEF n
    <3>3. /\ realloc(data, n) \in [0 .. n - 1 -> Byte]
          /\ \A i \in 1 .. length : realloc(data, n)[i - 1] = appended[i]
      <4>1. realloc(data, n) \in [0 .. n - 1 -> Byte]
        BY <2>1, <3>2 DEF realloc, Byte
      <4>2. ASSUME NEW i \in 1 .. length PROVE realloc(data, n)[i - 1] = appended[i]
        BY <2>1, <3>1, <3>2 DEF realloc
      <4> QED BY <4>1, <4>2
    <3> QED BY <3>3 DEF n
  <2>4. /\ strcpy(realloc(data, Grown(str)), length, str) \in [0 .. Grown(str) - 1 -> Byte]
        /\ Holds(strcpy(realloc(data, Grown(str)), length, str), length + Len(str),
                 appended \o str)
    BY <2>1, <2>2, <2>3, CopyHolds
  <2>5. appended \o str \in Text
    BY <2>1 DEF Text
  <2>6. /\ data' = strcpy(realloc(data, Grown(str)), length, str)
        /\ length' = length + Len(str) /\ appended' = appended \o str
        /\ capacity' = Grown(str) /\ lost' = lost
    BY <1>3 DEF Copy
  <2>7. BuilderTypeOK'
    BY <2>2, <2>4, <2>5, <2>6 DEF BuilderInv, BuilderTypeOK
  <2>8. TextIntact'
    BY <2>4, <2>6 DEF Holds, TextIntact
  <2> QED BY <2>7, <2>8 DEF BuilderInv
<1> QED BY <1>1, <1>2, <1>3 DEF sb_append

LEMMA StepKeeps == BuilderInv /\ [BuilderNext]_builder => BuilderInv'
<1> USE BuilderAssumption
<1> SUFFICES ASSUME BuilderInv, [BuilderNext]_builder PROVE BuilderInv'
  OBVIOUS
<1>1. CASE sb_init
  <2>1. CASE data' = NO_DATA
    BY <1>1, <2>1, EmptyText DEF sb_init, BuilderInv, BuilderTypeOK, TextIntact
  <2>2. CASE data' = [malloc(CAPACITY) EXCEPT ![0] = NUL] /\ lost' = FALSE
    <3>1. data' \in [0 .. CAPACITY - 1 -> Byte] /\ data'[0] = NUL /\ 0 \in DOMAIN data'
      BY <2>2 DEF malloc, Byte
    <3>2. length' = 0 /\ capacity' = CAPACITY /\ appended' = <<>> /\ lost' = FALSE
      BY <1>1, <2>2 DEF sb_init
    <3>3. BuilderTypeOK'
      BY <3>1, <3>2, EmptyText DEF BuilderTypeOK
    <3>4. TextIntact'
      BY <3>1, <3>2, EmptyText DEF TextIntact
    <3> QED BY <3>3, <3>4 DEF BuilderInv
  <2> QED BY <1>1, <2>1, <2>2 DEF sb_init
<1>2. ASSUME NEW str \in Text, sb_append(str) PROVE BuilderInv'
  BY <1>2, AppendKeeps
<1>3. ASSUME NEW str \in Text, sb_printf(str) PROVE BuilderInv'
  <2>1. CASE Dropped
    BY <2>1 DEF BuilderInv, BuilderTypeOK, TextIntact, Dropped
  <2>2. CASE Len(str) < TEMP_SIZE /\ sb_append(vsnprintf(TEMP_SIZE, str))
    BY <2>2, AppendKeeps DEF vsnprintf
  <2>3. CASE Len(str) >= TEMP_SIZE /\ sb_append(vsnprintf(Len(str) + 1, str))
    <3>1. vsnprintf(Len(str) + 1, str) = str
      BY DEF vsnprintf, Text
    <3> QED BY <2>3, <3>1, AppendKeeps
  <2> QED BY <1>3, <2>1, <2>2, <2>3 DEF sb_printf
<1>4. CASE sb_destroy
  BY <1>4, EmptyText DEF sb_destroy, BuilderInv, BuilderTypeOK, TextIntact
<1>5. CASE UNCHANGED builder
  BY <1>5 DEF builder, BuilderInv, BuilderTypeOK, TextIntact
<1> QED BY <1>1, <1>2, <1>3, <1>4, <1>5 DEF BuilderNext

\* Whatever texts of whatever length are appended to a builder of whatever
\* capacity, and whichever allocation fails, it holds what it took and the
\* terminator inside its capacity (GraphvizGenerator.c:402-468).
THEOREM BuilderKeepsText == BuilderSpec => []TextIntact
<1>1. BuilderInit => BuilderInv
  <2> SUFFICES ASSUME BuilderInit PROVE BuilderTypeOK /\ TextIntact
    BY DEF BuilderInv
  <2>1. BuilderTypeOK
    BY EmptyText DEF BuilderInit, BuilderTypeOK
  <2>2. TextIntact
    BY DEF BuilderInit, TextIntact
  <2> QED BY <2>1, <2>2
<1>2. BuilderInv /\ [BuilderNext]_builder => BuilderInv'
  BY StepKeeps
<1>3. BuilderInv => TextIntact
  BY DEF BuilderInv
<1> QED BY <1>1, <1>2, <1>3, PTL DEF BuilderSpec

\* So what expressionToString returns is the text that was appended, character
\* by character, unless an allocation failed at the very beginning
\* (GraphvizGenerator.c:593).
THEOREM ToStringIsText ==
    ASSUME BuilderInv, data # NO_DATA
    PROVE  sb_tostring = appended
<1> USE BuilderAssumption
<1>1. length \in Nat /\ length = Len(appended) /\ appended \in Text
      /\ length \in DOMAIN data /\ DOMAIN data \subseteq Nat
      /\ data[length] = NUL /\ \A i \in 1 .. length : data[i - 1] = appended[i]
  BY DEF BuilderInv, BuilderTypeOK, TextIntact, Text
<1>2. \A i \in 0 .. length - 1 : data[i] # NUL
  <2> SUFFICES ASSUME NEW i \in 0 .. length - 1 PROVE data[i] # NUL
    OBVIOUS
  <2>1. i + 1 \in 1 .. length /\ (i + 1) - 1 = i
    BY <1>1
  <2>2. data[i] = appended[i + 1]
    BY <1>1, <2>1
  <2>3. appended[i + 1] \in Char
    BY <1>1, <2>1 DEF Text
  <2> QED BY <2>2, <2>3
<1>3. \A n \in DOMAIN data :
          data[n] = NUL /\ (\A i \in 0 .. n - 1 : data[i] # NUL) => n = length
  <2> SUFFICES ASSUME NEW n \in DOMAIN data, data[n] = NUL,
                      \A i \in 0 .. n - 1 : data[i] # NUL
               PROVE  n = length
    OBVIOUS
  <2>1. n \in Nat
    BY <1>1
  <2>2. ~(n < length)
    BY <1>1, <1>2, <2>1
  <2>3. ~(length < n)
    BY <1>1, <2>1
  <2> QED BY <1>1, <2>1, <2>2, <2>3
<1>4. strlen(data) = length
  BY <1>1, <1>2, <1>3 DEF strlen
<1>5. strdup(data) = [i \in 1 .. length |-> appended[i]]
  BY <1>1, <1>4 DEF strdup
<1>6. [i \in 1 .. length |-> appended[i]] = appended
  BY <1>1 DEF Text
<1> QED BY <1>5, <1>6 DEF sb_tostring


\* An append that takes its text takes all of it, into a buffer, and leaves one
\* (GraphvizGenerator.c:414).
LEMMA AppendTakes ==
    ASSUME BuilderInv, NEW str \in Text, sb_append(str), ~lost'
    PROVE  data # NO_DATA /\ data' # NO_DATA /\ ~lost /\ appended' = appended \o str
<1> USE BuilderAssumption
<1>1. ~Dropped
  BY DEF Dropped
<1>2. data # NO_DATA
  BY <1>1 DEF sb_append
<1>3. length \in Nat /\ length \in DOMAIN data /\ capacity \in Nat /\ Len(str) \in Nat
      /\ data \in [0 .. capacity - 1 -> Byte]
  BY <1>2 DEF BuilderInv, BuilderTypeOK, TextIntact, Text
<1>4. PICK d : Copy(d, str) /\ 0 \in DOMAIN d
  <2>1. 0 \in DOMAIN data
    BY <1>3
  <2>2. Grown(str) \in Nat /\ Grown(str) > 0
    BY <1>3 DEF Grown
  <2>3. 0 \in DOMAIN realloc(data, Grown(str))
    BY <2>2 DEF realloc
  <2> QED BY <1>1, <2>1, <2>3 DEF sb_append
<1>5. 0 \in DOMAIN data' /\ appended' = appended \o str /\ lost' = lost
  BY <1>4 DEF Copy, strcpy
<1>6. 0 \notin DOMAIN NO_DATA
  BY DEF NO_DATA
<1> QED BY <1>2, <1>5, <1>6

\* So does a formatted one (GraphvizGenerator.c:441).
LEMMA PrintTakes ==
    ASSUME BuilderInv, NEW str \in Text, sb_printf(str), ~lost'
    PROVE  data # NO_DATA /\ data' # NO_DATA /\ ~lost /\ appended' = appended \o str
<1>1. sb_append(str)
  <2>1. CASE Len(str) < TEMP_SIZE /\ sb_append(vsnprintf(TEMP_SIZE, str))
    BY <2>1 DEF vsnprintf
  <2>2. CASE Len(str) >= TEMP_SIZE /\ sb_append(vsnprintf(Len(str) + 1, str))
    <3>1. vsnprintf(Len(str) + 1, str) = str
      BY DEF vsnprintf, Text
    <3> QED BY <2>2, <3>1
  <2>3. ~Dropped
    BY DEF Dropped
  <2> QED BY <2>1, <2>2, <2>3 DEF sb_printf
<1> QED BY <1>1, AppendTakes

-----------------------------------------------------------------------------
(* What is in the file                                                     *)

EntityDrawn(j) ==
    /\ j \in DOMAIN schema.entities
    /\ \/ drawing = "entities" /\ j < at
       \/ drawing \in {"assertions", "label"} /\ j <= at
       \/ drawing \in {"relationships", "closed"}
AssertionDrawn(j, k) ==
    /\ j \in DOMAIN schema.entities /\ k \in DOMAIN schema.entities[j].assertions
    /\ \/ drawing = "entities" /\ j < at
       \/ drawing \in {"assertions", "label"} /\ (j < at \/ (j = at /\ k < assertion))
       \/ drawing \in {"relationships", "closed"}
RelationshipDrawn(j) ==
    /\ j \in DOMAIN schema.relationships
    /\ (drawing = "relationships" /\ j < at) \/ drawing = "closed"

\* The statements of one entity, without its assertions.
AttributeStatements(e) ==
    FlattenSeq([i \in DOMAIN e.attributes |-> writeAttributeNode(e, e.attributes[i])])
OfEntity(e) ==
    {EntityNode(e)} \cup UNION {ToSet(writeAttributeNode(e, e.attributes[i])) :
                                   i \in DOMAIN e.attributes}
AssertionNode(e, k, st) ==
    st.stmt = "node" /\ st = NodeStatement(assertionId(e, k), st.label, {"note"})
AssertionEdge(e, k) == EdgeStatement(entityId(e), assertionId(e, k), {})
ParticipantEdge(r, i) ==
    EdgeStatement(spelling[r.participants[i].entityName], relationshipId(r),
                  Mark(Total(r.participants[i]), "total"))
RelationshipNode(r) ==
    NodeStatement(relationshipId(r), spelling[r.name], Mark(isIdentifyingRel(r), "identifying"))
RelationshipAttributeStatements(r) ==
    FlattenSeq([i \in DOMAIN r.attributes |-> writeRelationshipAttributeNode(r, r.attributes[i])])
OfRelationship(r) ==
    {RelationshipNode(r)}
    \cup {ParticipantEdge(r, i) : i \in DOMAIN r.participants}
    \cup UNION {ToSet(writeRelationshipAttributeNode(r, r.attributes[i])) :
                   i \in DOMAIN r.attributes}

\* The lists of an entity and of a relationship.
LEMMA EntityLists ==
    ASSUME NEW s \in Schemas, NEW j \in DOMAIN s.entities
    PROVE  s.entities[j].attributes \in Seq(Attribute) /\ s.entities[j].assertions \in Seq(Expression)
<1>1. s.entities \in Seq(Entity)
  BY SchemaLists
<1>2. j \in 1 .. Len(s.entities)
  BY <1>1
<1> QED BY <1>2, SchemaLists

LEMMA AssertionNumber ==
    ASSUME NEW s \in Schemas, NEW j \in DOMAIN s.entities, NEW i \in DOMAIN s.entities[j].assertions
    PROVE  i \in Nat
<1>1. s.entities[j].assertions \in Seq(Expression)
  BY EntityLists
<1> QED BY <1>1

LEMMA RelationshipLists ==
    ASSUME NEW s \in Schemas, NEW j \in DOMAIN s.relationships
    PROVE  /\ s.relationships[j].attributes \in Seq(Attribute)
           /\ s.relationships[j].participants \in Seq(Participant)
<1>1. s.relationships \in Seq(Relationship)
  BY SchemaLists
<1>2. j \in 1 .. Len(s.relationships)
  BY <1>1
<1> QED BY <1>2, SchemaLists

\* What a list of pairs of statements flattens to.
LEMMA PairsFlatten ==
    ASSUME NEW n \in Nat, NEW pairs, pairs = [i \in 1 .. n |-> pairs[i]],
           \A i \in 1 .. n : \E a, b : pairs[i] = <<a, b>>
    PROVE  /\ FlattenSeq(pairs) \in Seq(ToSet(FlattenSeq(pairs)))
           /\ ToSet(FlattenSeq(pairs)) = UNION {ToSet(pairs[i]) : i \in 1 .. n}
<1>1. ASSUME NEW i \in 1 .. n PROVE pairs[i] \in Seq(ToSet(pairs[i]))
  <2>1. PICK a, b : pairs[i] = <<a, b>>
    OBVIOUS
  <2>2. <<a, b>> \in Seq(ToSet(<<a, b>>))
    BY ShortToSet
  <2> QED BY <2>1, <2>2
<1> QED BY <1>1, FlattenElements

LEMMA AttributesInto ==
    ASSUME NEW e, e.attributes \in Seq(Attribute)
    PROVE  /\ AttributeStatements(e) \in Seq(ToSet(AttributeStatements(e)))
           /\ ToSet(AttributeStatements(e)) =
                 UNION {ToSet(writeAttributeNode(e, e.attributes[i])) : i \in DOMAIN e.attributes}
<1> DEFINE list == e.attributes
           pairs == [i \in DOMAIN list |-> writeAttributeNode(e, list[i])]
<1>1. AttributeStatements(e) = FlattenSeq(pairs)
  BY DEF AttributeStatements
<1>2. Len(list) \in Nat /\ DOMAIN list = 1 .. Len(list)
  OBVIOUS
<1> HIDE DEF list
<1>3. \A i \in 1 .. Len(list) : pairs[i] = writeAttributeNode(e, list[i])
  BY <1>2
<1>4. pairs = [i \in 1 .. Len(list) |-> pairs[i]]
  BY <1>2
<1> HIDE DEF pairs
<1>5. \A i \in 1 .. Len(list) : \E a, b : pairs[i] = <<a, b>>
  BY <1>3 DEF writeAttributeNode
<1>6. /\ FlattenSeq(pairs) \in Seq(ToSet(FlattenSeq(pairs)))
      /\ ToSet(FlattenSeq(pairs)) = UNION {ToSet(pairs[i]) : i \in 1 .. Len(list)}
  BY <1>2, <1>4, <1>5, PairsFlatten
<1>7. UNION {ToSet(pairs[i]) : i \in 1 .. Len(list)}
        = UNION {ToSet(writeAttributeNode(e, list[i])) : i \in DOMAIN list}
  BY <1>2, <1>3
<1> QED BY <1>1, <1>6, <1>7 DEF list

LEMMA RelationshipAttributesInto ==
    ASSUME NEW r, r.attributes \in Seq(Attribute)
    PROVE  /\ RelationshipAttributeStatements(r) \in Seq(ToSet(RelationshipAttributeStatements(r)))
           /\ ToSet(RelationshipAttributeStatements(r)) =
                 UNION {ToSet(writeRelationshipAttributeNode(r, r.attributes[i])) : i \in DOMAIN r.attributes}
<1> DEFINE list == r.attributes
           pairs == [i \in DOMAIN list |-> writeRelationshipAttributeNode(r, list[i])]
<1>1. RelationshipAttributeStatements(r) = FlattenSeq(pairs)
  BY DEF RelationshipAttributeStatements
<1>2. Len(list) \in Nat /\ DOMAIN list = 1 .. Len(list)
  OBVIOUS
<1> HIDE DEF list
<1>3. \A i \in 1 .. Len(list) : pairs[i] = writeRelationshipAttributeNode(r, list[i])
  BY <1>2
<1>4. pairs = [i \in 1 .. Len(list) |-> pairs[i]]
  BY <1>2
<1> HIDE DEF pairs
<1>5. \A i \in 1 .. Len(list) : \E a, b : pairs[i] = <<a, b>>
  BY <1>3 DEF writeRelationshipAttributeNode
<1>6. /\ FlattenSeq(pairs) \in Seq(ToSet(FlattenSeq(pairs)))
      /\ ToSet(FlattenSeq(pairs)) = UNION {ToSet(pairs[i]) : i \in 1 .. Len(list)}
  BY <1>2, <1>4, <1>5, PairsFlatten
<1>7. UNION {ToSet(pairs[i]) : i \in 1 .. Len(list)}
        = UNION {ToSet(writeRelationshipAttributeNode(r, list[i])) : i \in DOMAIN list}
  BY <1>2, <1>3
<1> QED BY <1>1, <1>6, <1>7 DEF list

\* Appending to a file, of whatever the statements are.
LEMMA Appended ==
    ASSUME NEW s, s \in Seq(ToSet(s)), NEW t, t \in Seq(ToSet(t))
    PROVE  s \o t \in Seq(ToSet(s \o t)) /\ ToSet(s \o t) = ToSet(s) \cup ToSet(t)
<1> DEFINE S == ToSet(s) \cup ToSet(t)
<1>1. ToSet(s) \subseteq S /\ ToSet(t) \subseteq S
  OBVIOUS
<1> HIDE DEF S
<1>2. s \in Seq(S) /\ t \in Seq(S)
  BY <1>1, SeqInLarger
<1>3. s \o t \in Seq(S) /\ ToSet(s \o t) = ToSet(s) \cup ToSet(t)
  BY <1>2, ConcatType, ToSetConcat
<1> QED BY <1>3, SeqOfElements

LEMMA RelationshipStatementsAre ==
    ASSUME NEW r, r.attributes \in Seq(Attribute), r.participants \in Seq(Participant)
    PROVE  /\ RelationshipStatements(r) \in Seq(ToSet(RelationshipStatements(r)))
           /\ ToSet(RelationshipStatements(r)) = OfRelationship(r)
<1> DEFINE list == r.attributes
           ps == r.participants
           node == <<RelationshipNode(r)>>
           attributes == RelationshipAttributeStatements(r)
           edges == [i \in DOMAIN ps |-> ParticipantEdge(r, i)]
<1>1. RelationshipStatements(r) = node \o attributes \o edges
  BY DEF RelationshipStatements, RelationshipNode, RelationshipAttributeStatements, ParticipantEdge
<1>2. node \in Seq(ToSet(node)) /\ ToSet(node) = {RelationshipNode(r)}
  BY ShortToSet
<1>3. /\ attributes \in Seq(ToSet(attributes))
      /\ ToSet(attributes) = UNION {ToSet(writeRelationshipAttributeNode(r, list[i])) : i \in DOMAIN list}
  BY RelationshipAttributesInto
<1>4. edges \in Seq(ToSet(edges)) /\ ToSet(edges) = {ParticipantEdge(r, i) : i \in DOMAIN ps}
  <2>1. DOMAIN edges = 1 .. Len(ps) /\ DOMAIN ps = 1 .. Len(ps) /\ Len(ps) \in Nat
        /\ \A i \in 1 .. Len(ps) : edges[i] = ParticipantEdge(r, i)
    OBVIOUS
  <2>2. ToSet(edges) = {ParticipantEdge(r, i) : i \in DOMAIN ps}
    BY <2>1 DEF ToSet
  <2>3. \A i \in 1 .. Len(ps) : ParticipantEdge(r, i) \in ToSet(edges)
    BY <2>1, <2>2
  <2>4. edges \in Seq(ToSet(edges))
    <3> DEFINE T == ToSet(edges)
    <3> HIDE DEF T
    <3>1. \A i \in 1 .. Len(ps) : ParticipantEdge(r, i) \in T
      BY <2>3 DEF T
    <3>2. edges \in Seq(T)
      BY <2>1, <3>1
    <3> QED BY <3>2 DEF T
  <2> QED BY <2>2, <2>4
<1> HIDE DEF node, attributes, edges
<1>5. /\ node \o attributes \in Seq(ToSet(node \o attributes))
      /\ ToSet(node \o attributes) = ToSet(node) \cup ToSet(attributes)
  BY <1>2, <1>3, Appended
<1>6. /\ node \o attributes \o edges \in Seq(ToSet(node \o attributes \o edges))
      /\ ToSet(node \o attributes \o edges) = ToSet(node) \cup ToSet(attributes) \cup ToSet(edges)
  BY <1>4, <1>5, Appended
<1> DEFINE middle == UNION {ToSet(writeRelationshipAttributeNode(r, list[i])) : i \in DOMAIN list}
           last == {ParticipantEdge(r, i) : i \in DOMAIN ps}
<1>7. OfRelationship(r) = {RelationshipNode(r)} \cup last \cup middle
  BY DEF OfRelationship
<1>8. ToSet(attributes) = middle /\ ToSet(edges) = last
  BY <1>3, <1>4
<1> HIDE DEF middle, last
<1>9. ToSet(node \o attributes \o edges) = OfRelationship(r)
  BY <1>2, <1>6, <1>7, <1>8
<1> QED BY <1>1, <1>6, <1>9

LEMMA InheritanceStatementsAre ==
    ASSUME schema.entities \in Seq(Entity)
    PROVE  /\ InheritanceStatements \in Seq(ToSet(InheritanceStatements))
           /\ ToSet(InheritanceStatements) =
                 UNION {ToSet(InheritanceStatement(schema.entities[i])) :
                           i \in DOMAIN schema.entities}
<1> DEFINE es == schema.entities
           lists == [i \in DOMAIN es |-> InheritanceStatement(es[i])]
<1>1. InheritanceStatements = FlattenSeq(lists)
  BY DEF InheritanceStatements
<1>2. Len(es) \in Nat /\ DOMAIN es = 1 .. Len(es)
  OBVIOUS
<1> HIDE DEF es
<1>3. \A i \in 1 .. Len(es) : lists[i] = InheritanceStatement(es[i])
  BY <1>2
<1>4. lists = [i \in 1 .. Len(es) |-> lists[i]]
  BY <1>2
<1> HIDE DEF lists
<1>5. ASSUME NEW i \in 1 .. Len(es) PROVE lists[i] \in Seq(ToSet(lists[i]))
  <2>1. lists[i] = <<>> \/ \E st : lists[i] = <<st>>
    BY <1>3 DEF InheritanceStatement
  <2>2. CASE lists[i] = <<>>
    <3>1. <<>> \in Seq(ToSet(<<>>))
      BY ShortToSet
    <3> QED BY <2>2, <3>1
  <2>3. CASE \E st : lists[i] = <<st>>
    <3>1. PICK st : lists[i] = <<st>>
      BY <2>3
    <3>2. <<st>> \in Seq(ToSet(<<st>>))
      BY ShortToSet
    <3> QED BY <3>1, <3>2
  <2> QED BY <2>1, <2>2, <2>3
<1>6. /\ FlattenSeq(lists) \in Seq(UNION {ToSet(lists[i]) : i \in 1 .. Len(es)})
      /\ ToSet(FlattenSeq(lists)) = UNION {ToSet(lists[i]) : i \in 1 .. Len(es)}
  BY <1>2, <1>4, <1>5, FlattenElements
<1>7. UNION {ToSet(lists[i]) : i \in 1 .. Len(es)}
        = UNION {ToSet(InheritanceStatement(es[i])) : i \in DOMAIN es}
  BY <1>2, <1>3
<1> QED BY <1>1, <1>6, <1>7 DEF es

\* Where a statement may come from, and what must have been written.
Source(st) ==
    \/ \E j \in DOMAIN schema.entities : EntityDrawn(j) /\ st \in OfEntity(schema.entities[j])
    \/ \E j \in DOMAIN schema.entities : \E k \in DOMAIN schema.entities[j].assertions :
          /\ AssertionDrawn(j, k)
          /\ \/ AssertionNode(schema.entities[j], k, st)
             \/ st = AssertionEdge(schema.entities[j], k)
    \/ \E j \in DOMAIN schema.relationships :
          RelationshipDrawn(j) /\ st \in OfRelationship(schema.relationships[j])
    \/ /\ drawing = "closed"
       /\ \E j \in DOMAIN schema.entities : st \in ToSet(InheritanceStatement(schema.entities[j]))
EntitiesIn(D) ==
    \A j \in DOMAIN schema.entities : EntityDrawn(j) => OfEntity(schema.entities[j]) \subseteq D
AssertionsIn(D) ==
    \A j \in DOMAIN schema.entities : \A k \in DOMAIN schema.entities[j].assertions :
        AssertionDrawn(j, k) => \E st \in D : AssertionNode(schema.entities[j], k, st)
RelationshipsIn(D) ==
    \A j \in DOMAIN schema.relationships :
        RelationshipDrawn(j) => OfRelationship(schema.relationships[j]) \subseteq D

DotIs ==
    Begun => /\ dot \in Seq(ToSet(dot))
             /\ \A st \in ToSet(dot) : Source(st)
             /\ EntitiesIn(ToSet(dot)) /\ AssertionsIn(ToSet(dot)) /\ RelationshipsIn(ToSet(dot))

\* No two nodes have one identifier.
Apart(stmts) ==
    \A i, j \in DOMAIN stmts :
        stmts[i].stmt = "node" /\ stmts[j].stmt = "node" /\ stmts[i].id = stmts[j].id => i = j
ToldApart == Begun /\ Separable => Apart(dot)

\* What a part is drawn as depends on the schema alone.
LEMMA SameSource ==
    ASSUME schema' = schema, NEW st
    PROVE  Source(st)' <=>
             \/ \E j \in DOMAIN schema.entities :
                   EntityDrawn(j)' /\ st \in OfEntity(schema.entities[j])
             \/ \E j \in DOMAIN schema.entities :
                   \E k \in DOMAIN schema.entities[j].assertions :
                      /\ AssertionDrawn(j, k)'
                      /\ \/ AssertionNode(schema.entities[j], k, st)
                         \/ st = AssertionEdge(schema.entities[j], k)
             \/ \E j \in DOMAIN schema.relationships :
                   RelationshipDrawn(j)' /\ st \in OfRelationship(schema.relationships[j])
             \/ /\ drawing' = "closed"
                /\ \E j \in DOMAIN schema.entities :
                      st \in ToSet(InheritanceStatement(schema.entities[j]))
<1>1. \A j : OfRelationship(schema.relationships[j])' = OfRelationship(schema.relationships[j])
  BY DEF OfRelationship, RelationshipNode, isIdentifyingRel, WeakEntity
<1> QED BY <1>1 DEF Source

\* Statements are appended to the file, those of the parts drawn by the step.
LEMMA DotGrows ==
    ASSUME DotIs, Begun, drawing # "closed", schema' = schema,
           NEW t, t \in Seq(ToSet(t)), dot' = dot \o t,
           \A st \in ToSet(t) : Source(st)',
           \A j \in DOMAIN schema.entities :
               /\ EntityDrawn(j) => EntityDrawn(j)'
               /\ EntityDrawn(j)' /\ ~EntityDrawn(j) => OfEntity(schema.entities[j]) \subseteq ToSet(t)
               /\ \A k \in DOMAIN schema.entities[j].assertions :
                     /\ AssertionDrawn(j, k) => AssertionDrawn(j, k)'
                     /\ AssertionDrawn(j, k)' /\ ~AssertionDrawn(j, k) =>
                           \E st \in ToSet(t) : AssertionNode(schema.entities[j], k, st),
           \A j \in DOMAIN schema.relationships :
               /\ RelationshipDrawn(j) => RelationshipDrawn(j)'
               /\ RelationshipDrawn(j)' /\ ~RelationshipDrawn(j) =>
                     OfRelationship(schema.relationships[j]) \subseteq ToSet(t)
    PROVE  DotIs'
<1>1. dot' \in Seq(ToSet(dot')) /\ ToSet(dot') = ToSet(dot) \cup ToSet(t)
  BY Appended DEF DotIs
<1>2. \A st \in ToSet(dot') : Source(st)'
  <2> SUFFICES ASSUME NEW st \in ToSet(dot) PROVE Source(st)'
    BY <1>1
  <2>1. Source(st)
    BY DEF DotIs
  <2> QED BY <2>1, SameSource DEF Source
<1>3. EntitiesIn(ToSet(dot))'
  BY <1>1 DEF EntitiesIn, DotIs
<1>4. AssertionsIn(ToSet(dot))'
  <2>1. ASSUME NEW j \in DOMAIN schema.entities, NEW k \in DOMAIN schema.entities[j].assertions,
               AssertionDrawn(j, k)'
        PROVE  \E st \in ToSet(dot') : AssertionNode(schema.entities[j], k, st)
    <3>1. CASE AssertionDrawn(j, k)
      BY <1>1, <3>1 DEF AssertionsIn, DotIs
    <3>2. CASE ~AssertionDrawn(j, k)
      BY <1>1, <2>1, <3>2
    <3> QED BY <3>1, <3>2
  <2> QED BY <2>1 DEF AssertionsIn
<1>5. RelationshipsIn(ToSet(dot))'
  <2>1. ASSUME NEW j \in DOMAIN schema.relationships, RelationshipDrawn(j)'
        PROVE  OfRelationship(schema.relationships[j]) \subseteq ToSet(dot')
    BY <1>1, <2>1 DEF RelationshipsIn, DotIs
  <2>2. \A j : OfRelationship(schema.relationships[j])' = OfRelationship(schema.relationships[j])
    BY DEF OfRelationship, RelationshipNode, isIdentifyingRel, WeakEntity
  <2> QED BY <2>1, <2>2 DEF RelationshipsIn
<1> QED BY <1>1, <1>2, <1>3, <1>4, <1>5 DEF DotIs

\* What Continue makes drawn.
LEMMA ContinueDraws ==
    ASSUME schema \in Schemas, schema' = schema, at \in DOMAIN schema.entities,
           assertion \in 0 .. Len(Here.assertions), Continue
    PROVE  /\ drawing' \in {"entities", "assertions", "relationships"}
           /\ \A j \in DOMAIN schema.entities :
                 /\ EntityDrawn(j)' <=> j <= at
                 /\ \A k \in DOMAIN schema.entities[j].assertions :
                       AssertionDrawn(j, k)' <=> j < at \/ (j = at /\ k <= assertion)
           /\ \A j \in DOMAIN schema.relationships : ~RelationshipDrawn(j)'
<1>1. /\ Len(schema.entities) \in Nat /\ DOMAIN schema.entities = 1 .. Len(schema.entities)
      /\ DOMAIN schema.relationships = 1 .. Len(schema.relationships)
      /\ Len(schema.relationships) \in Nat
      /\ \A i \in DOMAIN schema.entities :
            /\ Len(schema.entities[i].assertions) \in Nat
            /\ DOMAIN schema.entities[i].assertions = 1 .. Len(schema.entities[i].assertions)
  BY SchemaLists
<1>2. Here = schema.entities[at]
  BY DEF Here
<1>3. drawing' \in {"entities", "assertions", "relationships"}
  BY DEF Continue
<1>4. ASSUME NEW j \in DOMAIN schema.entities
      PROVE  EntityDrawn(j)' <=> j <= at
  BY <1>1 DEF Continue, EntityDrawn
<1>5. ASSUME NEW j \in DOMAIN schema.entities, NEW k \in DOMAIN schema.entities[j].assertions
      PROVE  AssertionDrawn(j, k)' <=> j < at \/ (j = at /\ k <= assertion)
  BY <1>1, <1>2 DEF Continue, AssertionDrawn
<1>6. ASSUME NEW j \in DOMAIN schema.relationships PROVE ~RelationshipDrawn(j)'
  BY <1>1 DEF Continue, RelationshipDrawn
<1> QED BY <1>3, <1>4, <1>5, <1>6

LEMMA EntityWritten ==
    ASSUME DotIs, Position, schema \in Schemas, writeEntity
    PROVE  DotIs'
<1> DEFINE t == <<EntityNode(Here)>> \o AttributeStatements(Here)
<1>0. /\ schema' = schema /\ Begun /\ drawing = "entities" /\ assertion = 0
      /\ at \in DOMAIN schema.entities /\ Continue
  BY DEF writeEntity, Begun, Position
<1>1. t \in Seq(ToSet(t)) /\ ToSet(t) = OfEntity(Here)
  <2>1. Here.attributes \in Seq(Attribute)
    BY <1>0, EntityLists DEF Here
  <2>2. <<EntityNode(Here)>> \in Seq(ToSet(<<EntityNode(Here)>>))
        /\ ToSet(<<EntityNode(Here)>>) = {EntityNode(Here)}
    BY ShortToSet
  <2>3. /\ AttributeStatements(Here) \in Seq(ToSet(AttributeStatements(Here)))
        /\ ToSet(AttributeStatements(Here)) =
              UNION {ToSet(writeAttributeNode(Here, Here.attributes[i])) :
                         i \in DOMAIN Here.attributes}
    BY <2>1, AttributesInto
  <2>4. /\ t \in Seq(ToSet(t))
        /\ ToSet(t) = ToSet(<<EntityNode(Here)>>) \cup ToSet(AttributeStatements(Here))
    BY <2>2, <2>3, Appended
  <2>5. ToSet(t) = OfEntity(Here)
    <3> HIDE DEF t
    <3> QED BY <2>2, <2>3, <2>4, Zenon DEF OfEntity
  <2> QED BY <2>4, <2>5
<1>2. dot' = dot \o t
  <2>1. dot' = dot \o <<EntityNode(Here)>> \o AttributeStatements(Here)
    BY DEF writeEntity, AttributeStatements
  <2>2. <<EntityNode(Here)>> \in Seq({EntityNode(Here)})
    OBVIOUS
  <2>3. AttributeStatements(Here) \in Seq(ToSet(AttributeStatements(Here)))
    BY <1>0, EntityLists, AttributesInto DEF Here
  <2>4. dot \in Seq(ToSet(dot))
    BY <1>0 DEF DotIs
  <2> QED BY <2>1, <2>2, <2>3, <2>4
<1> HIDE DEF t
<1>3. /\ drawing' \in {"entities", "assertions", "relationships"}
      /\ \A j \in DOMAIN schema.entities :
            /\ EntityDrawn(j)' <=> j <= at
            /\ \A k \in DOMAIN schema.entities[j].assertions :
                  AssertionDrawn(j, k)' <=> j < at \/ (j = at /\ k <= assertion)
      /\ \A j \in DOMAIN schema.relationships : ~RelationshipDrawn(j)'
  <2>1. assertion \in 0 .. Len(Here.assertions)
    BY <1>0, SchemaLists DEF Here
  <2> QED BY <1>0, <2>1, ContinueDraws
<1>4. DOMAIN schema.entities = 1 .. Len(schema.entities) /\ Len(schema.entities) \in Nat
      /\ \A i \in DOMAIN schema.entities :
            DOMAIN schema.entities[i].assertions = 1 .. Len(schema.entities[i].assertions)
  BY SchemaLists
<1>5. ASSUME NEW j \in DOMAIN schema.entities
      PROVE  /\ EntityDrawn(j) => EntityDrawn(j)'
             /\ EntityDrawn(j)' /\ ~EntityDrawn(j) => OfEntity(schema.entities[j]) \subseteq ToSet(t)
  BY <1>0, <1>1, <1>3, <1>4 DEF EntityDrawn, Here
<1>6. ASSUME NEW j \in DOMAIN schema.entities, NEW k \in DOMAIN schema.entities[j].assertions
      PROVE  AssertionDrawn(j, k) <=> AssertionDrawn(j, k)'
  BY <1>0, <1>3, <1>4 DEF AssertionDrawn
<1>7. ASSUME NEW j \in DOMAIN schema.relationships
      PROVE  ~RelationshipDrawn(j) /\ ~RelationshipDrawn(j)'
  BY <1>0, <1>3 DEF RelationshipDrawn
<1>8. ASSUME NEW st \in ToSet(t) PROVE Source(st)'
  <2>1. PICK n \in DOMAIN schema.entities : n = at
    BY <1>0
  <2>2. EntityDrawn(n)' /\ st \in OfEntity(schema.entities[n])
    BY <1>1, <1>3, <1>4, <2>1 DEF Here
  <2> QED BY <1>0, <2>2, SameSource
<1> QED BY <1>0, <1>1, <1>2, <1>5, <1>6, <1>7, <1>8, DotGrows

LEMMA AssertionWritten ==
    ASSUME DotIs, Position, schema \in Schemas, writeAssertion
    PROVE  DotIs'
<1> DEFINE node == NodeStatement(assertionId(Here, assertion), sb_tostring, {"note"})
           edge == EdgeStatement(entityId(Here), assertionId(Here, assertion), {})
           t == <<node, edge>>
<1>0. /\ schema' = schema /\ Begun /\ drawing = "label"
      /\ at \in DOMAIN schema.entities /\ assertion \in DOMAIN schema.entities[at].assertions
      /\ Continue /\ dot' = dot \o t
  BY DEF writeAssertion, Begun, Position
<1>2. AssertionNode(Here, assertion, node) /\ edge = AssertionEdge(Here, assertion)
  BY DEF AssertionNode, AssertionEdge, NodeStatement
<1> HIDE DEF node, edge
<1>1. t \in Seq(ToSet(t)) /\ ToSet(t) = {node, edge}
  BY ShortToSet
<1> HIDE DEF t
<1>4. /\ DOMAIN schema.entities = 1 .. Len(schema.entities) /\ Len(schema.entities) \in Nat
      /\ \A i \in DOMAIN schema.entities :
            /\ DOMAIN schema.entities[i].assertions = 1 .. Len(schema.entities[i].assertions)
            /\ Len(schema.entities[i].assertions) \in Nat
  BY SchemaLists
<1>3. /\ drawing' \in {"entities", "assertions", "relationships"}
      /\ \A j \in DOMAIN schema.entities :
            /\ EntityDrawn(j)' <=> j <= at
            /\ \A k \in DOMAIN schema.entities[j].assertions :
                  AssertionDrawn(j, k)' <=> j < at \/ (j = at /\ k <= assertion)
      /\ \A j \in DOMAIN schema.relationships : ~RelationshipDrawn(j)'
  <2>1. assertion \in 0 .. Len(Here.assertions)
    BY <1>0, <1>4 DEF Here
  <2> QED BY <1>0, <2>1, ContinueDraws
<1>5. ASSUME NEW j \in DOMAIN schema.entities
      PROVE  EntityDrawn(j) <=> EntityDrawn(j)'
  BY <1>0, <1>3, <1>4 DEF EntityDrawn
<1>6. ASSUME NEW j \in DOMAIN schema.entities, NEW k \in DOMAIN schema.entities[j].assertions
      PROVE  /\ AssertionDrawn(j, k) => AssertionDrawn(j, k)'
             /\ AssertionDrawn(j, k)' /\ ~AssertionDrawn(j, k) => j = at /\ k = assertion
  BY <1>0, <1>3, <1>4 DEF AssertionDrawn
<1>7. ASSUME NEW j \in DOMAIN schema.relationships
      PROVE  ~RelationshipDrawn(j) /\ ~RelationshipDrawn(j)'
  BY <1>0, <1>3 DEF RelationshipDrawn
<1>8. ASSUME NEW j \in DOMAIN schema.entities, NEW k \in DOMAIN schema.entities[j].assertions,
             j = at /\ k = assertion
      PROVE  \E st \in ToSet(t) : AssertionNode(schema.entities[j], k, st)
  BY <1>1, <1>2, <1>8 DEF Here
<1>9. ASSUME NEW st \in ToSet(t) PROVE Source(st)'
  <2>0. PICK j \in DOMAIN schema.entities : j = at
    BY <1>0
  <2>1. PICK k \in DOMAIN schema.entities[j].assertions : k = assertion
    BY <1>0, <2>0
  <2>2. AssertionDrawn(j, k)'
    BY <1>3, <1>4, <2>0, <2>1
  <2>3. AssertionNode(schema.entities[j], k, st) \/ st = AssertionEdge(schema.entities[j], k)
    BY <1>1, <1>2, <2>0, <2>1 DEF Here
  <2> QED BY <1>0, <2>2, <2>3, SameSource
<1> QED BY <1>0, <1>1, <1>5, <1>6, <1>7, <1>8, <1>9, DotGrows

LEMMA RelationshipWritten ==
    ASSUME DotIs, Position, schema \in Schemas, writeRelationship
    PROVE  DotIs'
<1> DEFINE t == RelationshipStatements(schema.relationships[at])
<1>0. /\ schema' = schema /\ Begun /\ drawing = "relationships" /\ drawing' = drawing
      /\ at \in DOMAIN schema.relationships /\ at' = at + 1 /\ dot' = dot \o t
  BY DEF writeRelationship, Begun
<1>1. t \in Seq(ToSet(t)) /\ ToSet(t) = OfRelationship(schema.relationships[at])
  BY <1>0, SchemaLists, RelationshipStatementsAre
<1> HIDE DEF t
<1>2. DOMAIN schema.relationships = 1 .. Len(schema.relationships)
      /\ Len(schema.relationships) \in Nat
  BY SchemaLists
<1>3. ASSUME NEW j \in DOMAIN schema.entities
      PROVE  /\ EntityDrawn(j) <=> EntityDrawn(j)'
             /\ \A k \in DOMAIN schema.entities[j].assertions :
                   AssertionDrawn(j, k) <=> AssertionDrawn(j, k)'
  BY <1>0 DEF EntityDrawn, AssertionDrawn
<1>4. ASSUME NEW j \in DOMAIN schema.relationships
      PROVE  /\ RelationshipDrawn(j) <=> j < at
             /\ RelationshipDrawn(j)' <=> j <= at
  BY <1>0, <1>2 DEF RelationshipDrawn
<1>5. ASSUME NEW st \in ToSet(t) PROVE Source(st)'
  <2>1. PICK n \in DOMAIN schema.relationships : n = at
    BY <1>0
  <2>2. RelationshipDrawn(n)' /\ st \in OfRelationship(schema.relationships[n])
    BY <1>1, <1>2, <1>4, <2>1
  <2> QED BY <1>0, <2>2, SameSource
<1>6. ASSUME NEW j \in DOMAIN schema.relationships
      PROVE  /\ RelationshipDrawn(j) => RelationshipDrawn(j)'
             /\ RelationshipDrawn(j)' /\ ~RelationshipDrawn(j) =>
                   OfRelationship(schema.relationships[j]) \subseteq ToSet(t)
  BY <1>0, <1>1, <1>2, <1>4
<1> QED BY <1>0, <1>1, <1>3, <1>5, <1>6, DotGrows

LEMMA FileClosed ==
    ASSUME DotIs, Position, schema \in Schemas, closeFile
    PROVE  DotIs'
<1>0. /\ schema' = schema /\ Begun /\ drawing = "relationships" /\ drawing' = "closed"
      /\ at = Len(schema.relationships) + 1 /\ dot' = dot \o InheritanceStatements
  BY DEF closeFile, Begun
<1>1. /\ InheritanceStatements \in Seq(ToSet(InheritanceStatements))
      /\ ToSet(InheritanceStatements) =
            UNION {ToSet(InheritanceStatement(schema.entities[i])) : i \in DOMAIN schema.entities}
  BY SchemaLists, InheritanceStatementsAre
<1>2. DOMAIN schema.relationships = 1 .. Len(schema.relationships)
      /\ Len(schema.relationships) \in Nat
  BY SchemaLists
<1>3. ASSUME NEW j \in DOMAIN schema.entities
      PROVE  /\ EntityDrawn(j) <=> EntityDrawn(j)'
             /\ \A k \in DOMAIN schema.entities[j].assertions :
                   AssertionDrawn(j, k) <=> AssertionDrawn(j, k)'
  BY <1>0 DEF EntityDrawn, AssertionDrawn
<1>4. ASSUME NEW j \in DOMAIN schema.relationships
      PROVE  RelationshipDrawn(j) /\ RelationshipDrawn(j)'
  BY <1>0, <1>2 DEF RelationshipDrawn
<1>5. ASSUME NEW st \in ToSet(InheritanceStatements) PROVE Source(st)'
  <2>1. \E j \in DOMAIN schema.entities : st \in ToSet(InheritanceStatement(schema.entities[j]))
    BY <1>1
  <2> QED BY <1>0, <2>1, SameSource
<1> QED BY <1>0, <1>1, <1>3, <1>4, <1>5, DotGrows

\* A step that draws no part and writes nothing.
LEMMA NothingDrawn ==
    ASSUME DotIs, Begun, schema' = schema, dot' = dot,
           drawing # "closed" \/ drawing' = "closed",
           \A j \in DOMAIN schema.entities :
               /\ EntityDrawn(j) <=> EntityDrawn(j)'
               /\ \A k \in DOMAIN schema.entities[j].assertions :
                     AssertionDrawn(j, k) <=> AssertionDrawn(j, k)',
           \A j \in DOMAIN schema.relationships : RelationshipDrawn(j) <=> RelationshipDrawn(j)'
    PROVE  DotIs'
<1>1. ASSUME NEW st \in ToSet(dot) PROVE Source(st)'
  <2>1. Source(st)
    BY DEF DotIs
  <2> QED BY <2>1, SameSource DEF Source
<1>2. EntitiesIn(ToSet(dot))' /\ AssertionsIn(ToSet(dot))'
  BY DEF DotIs, EntitiesIn, AssertionsIn
<1>3. RelationshipsIn(ToSet(dot))'
  <2>1. \A j : OfRelationship(schema.relationships[j])' = OfRelationship(schema.relationships[j])
    BY DEF OfRelationship, RelationshipNode, isIdentifyingRel, WeakEntity
  <2> QED BY <2>1 DEF DotIs, RelationshipsIn
<1> QED BY <1>1, <1>2, <1>3 DEF DotIs

LEMMA GeneratorKeepsDot ==
    ASSUME DotIs, Position, schema \in Schemas, GeneratorNext
    PROVE  DotIs'
<1>0. /\ schema' = schema
      /\ DOMAIN schema.entities = 1 .. Len(schema.entities) /\ Len(schema.entities) \in Nat
      /\ DOMAIN schema.relationships = 1 .. Len(schema.relationships)
  BY GeneratorSteps, SchemaLists
<1>1. CASE generateGraphviz
  <2>1. CASE drawing' = "failed"
    BY <2>1 DEF DotIs, Begun
  <2>2. CASE drawing' = "entities" /\ dot' = <<>>
    <3>1. at' = 1
      BY <1>1 DEF generateGraphviz
    <3>2. dot' \in Seq(ToSet(dot')) /\ ToSet(dot') = {}
      BY <2>2, ShortToSet
    <3>3. \A j \in DOMAIN schema.entities :
              /\ ~EntityDrawn(j)'
              /\ \A k \in DOMAIN schema.entities[j].assertions : ~AssertionDrawn(j, k)'
      BY <1>0, <2>2, <3>1 DEF EntityDrawn, AssertionDrawn
    <3>4. \A j \in DOMAIN schema.relationships : ~RelationshipDrawn(j)'
      BY <2>2 DEF RelationshipDrawn
    <3> QED BY <1>0, <3>2, <3>3, <3>4 DEF DotIs, EntitiesIn, AssertionsIn, RelationshipsIn
  <2> QED BY <1>1, <2>1, <2>2 DEF generateGraphviz
<1>2. CASE writeEntity
  BY <1>2, EntityWritten
<1>3. CASE noEntities
  <2>1. /\ Begun /\ drawing = "entities" /\ drawing' = "relationships" /\ at' = 1
        /\ dot' = dot /\ DOMAIN schema.entities = {}
    BY <1>3 DEF noEntities, Begun
  <2>2. \A j \in DOMAIN schema.relationships : RelationshipDrawn(j) <=> RelationshipDrawn(j)'
    BY <1>0, <2>1 DEF RelationshipDrawn
  <2> QED BY <1>0, <2>1, <2>2, NothingDrawn
<1>4. CASE expressionToString
  <2>1. /\ Begun /\ drawing = "assertions" /\ drawing' = "label"
        /\ dot' = dot /\ at' = at /\ assertion' = assertion
    BY <1>4 DEF expressionToString, Begun
  <2> QED BY <1>0, <2>1, NothingDrawn DEF EntityDrawn, AssertionDrawn, RelationshipDrawn
<1>5. CASE callBuilder
  <2>1. /\ Begun /\ drawing = "label" /\ drawing' = "label"
        /\ dot' = dot /\ at' = at /\ assertion' = assertion
    BY <1>5 DEF callBuilder, Begun
  <2> QED BY <1>0, <2>1, NothingDrawn DEF EntityDrawn, AssertionDrawn, RelationshipDrawn
<1>6. CASE writeAssertion
  BY <1>6, AssertionWritten
<1>7. CASE writeRelationship
  BY <1>7, RelationshipWritten
<1>8. CASE closeFile
  BY <1>8, FileClosed
<1> QED BY <1>1, <1>2, <1>3, <1>4, <1>5, <1>6, <1>7, <1>8 DEF GeneratorNext

\* The inductive invariant: where the generator is, and that the file has the
\* statements of the parts it has passed and no others.
DiagramInv == PlaceInv /\ DotIs

LEMMA DiagramStarts == Init => DiagramInv
<1>1. Init => ~Begun
  BY DEF Init, GeneratorInit, Begun
<1> QED BY <1>1, PlaceStarts DEF DiagramInv, DotIs

LEMMA DiagramKeeps == DiagramInv /\ [Next]_vars => DiagramInv'
<1> SUFFICES ASSUME DiagramInv, [Next]_vars PROVE DotIs'
  BY PlaceKeeps DEF DiagramInv
<1> USE DEF DiagramInv
<1>1. CASE GeneratorNext /\ schema \in Schemas
  BY <1>1, GeneratorKeepsDot DEF PlaceInv
<1>2. CASE UNCHANGED <<drawing, at, assertion, calls, dot, builder>> /\ UNCHANGED schema
  <2>1. CASE Begun
    BY <1>2, <2>1, NothingDrawn DEF EntityDrawn, AssertionDrawn, RelationshipDrawn
  <2>2. CASE ~Begun
    BY <1>2, <2>2 DEF Begun, DotIs
  <2> QED BY <2>1, <2>2
<1>3. CASE UNCHANGED <<drawing, at, assertion, calls, dot, builder>> /\ drawing = "idle"
  BY <1>3 DEF Begun, DotIs
<1> QED BY <1>1, <1>2, <1>3, OnlyDrawDraws

-----------------------------------------------------------------------------
(* The finished file                                                       *)
LEMMA Finished ==
    ASSUME DiagramInv, drawing = "closed"
    PROVE  /\ schema \in Schemas /\ SchemaSound(schema) /\ dot \in Seq(ToSet(dot))
           /\ \A j \in DOMAIN schema.entities : OfEntity(schema.entities[j]) \subseteq ToSet(dot)
           /\ \A j \in DOMAIN schema.entities : \A k \in DOMAIN schema.entities[j].assertions :
                 \E st \in ToSet(dot) : AssertionNode(schema.entities[j], k, st)
           /\ \A j \in DOMAIN schema.relationships :
                 OfRelationship(schema.relationships[j]) \subseteq ToSet(dot)
           /\ \A st \in ToSet(dot) :
                 \/ \E j \in DOMAIN schema.entities : st \in OfEntity(schema.entities[j])
                 \/ \E j \in DOMAIN schema.entities :
                       \E k \in DOMAIN schema.entities[j].assertions :
                          \/ AssertionNode(schema.entities[j], k, st)
                          \/ st = AssertionEdge(schema.entities[j], k)
                 \/ \E j \in DOMAIN schema.relationships :
                       st \in OfRelationship(schema.relationships[j])
                 \/ \E j \in DOMAIN schema.entities :
                       st \in ToSet(InheritanceStatement(schema.entities[j]))
<1>1. Begun
  BY DEF Begun
<1>2. schema \in Schemas /\ SchemaSound(schema)
  BY CompilerAssumption DEF DiagramInv, PlaceInv, Judged
<1>3. /\ \A j \in DOMAIN schema.entities :
            /\ EntityDrawn(j)
            /\ \A k \in DOMAIN schema.entities[j].assertions : AssertionDrawn(j, k)
      /\ \A j \in DOMAIN schema.relationships : RelationshipDrawn(j)
  BY DEF EntityDrawn, AssertionDrawn, RelationshipDrawn
<1>4. DotIs
  BY DEF DiagramInv
<1>5. /\ dot \in Seq(ToSet(dot)) /\ \A st \in ToSet(dot) : Source(st)
      /\ EntitiesIn(ToSet(dot)) /\ AssertionsIn(ToSet(dot)) /\ RelationshipsIn(ToSet(dot))
  BY <1>1, <1>4 DEF DotIs
<1>6. \A j \in DOMAIN schema.entities : OfEntity(schema.entities[j]) \subseteq ToSet(dot)
  BY <1>3, <1>5 DEF EntitiesIn
<1>7. \A j \in DOMAIN schema.entities : \A k \in DOMAIN schema.entities[j].assertions :
          \E st \in ToSet(dot) : AssertionNode(schema.entities[j], k, st)
  BY <1>3, <1>5 DEF AssertionsIn
<1>8. \A j \in DOMAIN schema.relationships :
          OfRelationship(schema.relationships[j]) \subseteq ToSet(dot)
  BY <1>3, <1>5 DEF RelationshipsIn
<1> QED BY <1>2, <1>5, <1>6, <1>7, <1>8 DEF Source

\* The statements of the parts, one by one.
LEMMA PartsOfEntity ==
    ASSUME NEW e, NEW st
    PROVE  st \in OfEntity(e) <=>
               \/ st = EntityNode(e)
               \/ \E i \in DOMAIN e.attributes :
                     \/ st = writeAttributeNode(e, e.attributes[i])[1]
                     \/ st = writeAttributeNode(e, e.attributes[i])[2]
<1>1. \A i : ToSet(writeAttributeNode(e, e.attributes[i]))
                = {writeAttributeNode(e, e.attributes[i])[1], writeAttributeNode(e, e.attributes[i])[2]}
  BY ShortToSet DEF writeAttributeNode
<1> QED BY <1>1 DEF OfEntity

LEMMA PartsOfRelationship ==
    ASSUME NEW r, NEW st
    PROVE  st \in OfRelationship(r) <=>
               \/ st = RelationshipNode(r)
               \/ \E i \in DOMAIN r.participants : st = ParticipantEdge(r, i)
               \/ \E i \in DOMAIN r.attributes :
                     \/ st = writeRelationshipAttributeNode(r, r.attributes[i])[1]
                     \/ st = writeRelationshipAttributeNode(r, r.attributes[i])[2]
<1>1. \A i : ToSet(writeRelationshipAttributeNode(r, r.attributes[i]))
                = {writeRelationshipAttributeNode(r, r.attributes[i])[1],
                   writeRelationshipAttributeNode(r, r.attributes[i])[2]}
  BY ShortToSet DEF writeRelationshipAttributeNode
<1> QED BY <1>1 DEF OfRelationship

LEMMA PartsOfInheritance ==
    ASSUME NEW e, NEW st
    PROVE  st \in ToSet(InheritanceStatement(e)) <=>
               e.parent # NULL /\ st = EdgeStatement(entityId(e), spelling[e.parent], {"is-a"})
<1> DEFINE edge == EdgeStatement(entityId(e), spelling[e.parent], {"is-a"})
<1>1. CASE e.parent = NULL
  BY <1>1, ShortToSet DEF InheritanceStatement
<1>2. CASE e.parent # NULL
  <2>1. InheritanceStatement(e) = <<edge>>
    BY <1>2 DEF InheritanceStatement
  <2> HIDE DEF edge
  <2>2. ToSet(InheritanceStatement(e)) = {edge}
    BY <2>1, ShortToSet
  <2> QED BY <1>2, <2>2 DEF edge
<1> QED BY <1>1, <1>2

\* The nodes and edges, by their fields.
LEMMA EntityNodeIs ==
    ASSUME NEW e
    PROVE  /\ EntityNode(e).stmt = "node" /\ EntityNode(e).id = spelling[e.name]
           /\ EntityNode(e).label = spelling[e.name] /\ EntityNode(e).marks \subseteq {"weak"}
BY DEF EntityNode, NodeStatement, Mark, entityId

LEMMA AttributeNodeIs ==
    ASSUME NEW e, NEW a
    PROVE  LET node == writeAttributeNode(e, a)[1]
               edge == writeAttributeNode(e, a)[2]
           IN  /\ node.stmt = "node" /\ node.id = attributeId(e, a) /\ node.label = spelling[a.name]
               /\ "key" \in node.marks <=>
                     HasModifier(a, "MOD_PRIMARY") \/ isAttributeInPrimaryKey(e, a.name)
               /\ edge.stmt = "edge" /\ edge.from = spelling[e.name] /\ edge.to = attributeId(e, a)
BY DEF writeAttributeNode, NodeStatement, EdgeStatement, Mark, entityId

LEMMA RelationshipNodeIs ==
    ASSUME NEW r
    PROVE  /\ RelationshipNode(r).stmt = "node" /\ RelationshipNode(r).id = relationshipId(r)
           /\ RelationshipNode(r).label = spelling[r.name]
           /\ RelationshipNode(r).marks \subseteq {"identifying"}
           /\ "identifying" \in RelationshipNode(r).marks <=> isIdentifyingRel(r)
BY DEF RelationshipNode, NodeStatement, Mark

LEMMA RelationshipAttributeNodeIs ==
    ASSUME NEW r, NEW a
    PROVE  LET node == writeRelationshipAttributeNode(r, a)[1]
               edge == writeRelationshipAttributeNode(r, a)[2]
           IN  /\ node.stmt = "node" /\ node.id = relationshipAttributeId(r, a)
               /\ node.label = spelling[a.name] /\ node.marks \subseteq {"derived"}
               /\ edge.stmt = "edge" /\ edge.from = relationshipId(r)
               /\ edge.to = relationshipAttributeId(r, a)
BY DEF writeRelationshipAttributeNode, NodeStatement, EdgeStatement, Mark

LEMMA ParticipantEdgeIs ==
    ASSUME NEW r, NEW i
    PROVE  /\ ParticipantEdge(r, i).stmt = "edge"
           /\ ParticipantEdge(r, i).from = spelling[r.participants[i].entityName]
           /\ ParticipantEdge(r, i).to = relationshipId(r)
BY DEF ParticipantEdge, EdgeStatement

LEMMA AssertionNodeIs ==
    ASSUME NEW e, NEW k
    PROVE  /\ \A st : AssertionNode(e, k, st) =>
                 st.stmt = "node" /\ st.id = assertionId(e, k) /\ st.marks = {"note"}
           /\ AssertionEdge(e, k).stmt = "edge" /\ AssertionEdge(e, k).from = spelling[e.name]
           /\ AssertionEdge(e, k).to = assertionId(e, k)
BY DEF AssertionNode, AssertionEdge, NodeStatement, EdgeStatement, entityId

\* Every edge joins two nodes of the file, for whatever schema was accepted.
LEMMA EdgesMeet == DiagramInv => EdgesMeetNodes
<1> SUFFICES ASSUME DiagramInv, drawing = "closed",
                    NEW n \in DOMAIN dot, dot[n].stmt = "edge"
             PROVE  dot[n].from \in Ids /\ dot[n].to \in Ids
  BY DEF EdgesMeetNodes
<1>1. \A st \in ToSet(dot) : st.stmt = "node" => st.id \in Ids
  BY DEF Ids, NodeStmt, ToSet
<1>2. dot[n] \in ToSet(dot)
  BY DEF ToSet
<1> DEFINE edge == dot[n]
<1>3. /\ SchemaSound(schema)
      /\ \A j \in DOMAIN schema.entities : OfEntity(schema.entities[j]) \subseteq ToSet(dot)
      /\ \A j \in DOMAIN schema.entities : \A k \in DOMAIN schema.entities[j].assertions :
            \E st \in ToSet(dot) : AssertionNode(schema.entities[j], k, st)
      /\ \A j \in DOMAIN schema.relationships :
            OfRelationship(schema.relationships[j]) \subseteq ToSet(dot)
  BY Finished
<1>4. \/ \E j \in DOMAIN schema.entities : edge \in OfEntity(schema.entities[j])
      \/ \E j \in DOMAIN schema.entities :
            \E k \in DOMAIN schema.entities[j].assertions :
               \/ AssertionNode(schema.entities[j], k, edge)
               \/ edge = AssertionEdge(schema.entities[j], k)
      \/ \E j \in DOMAIN schema.relationships : edge \in OfRelationship(schema.relationships[j])
      \/ \E j \in DOMAIN schema.entities : edge \in ToSet(InheritanceStatement(schema.entities[j]))
  BY <1>2, Finished
<1>5. edge.stmt = "edge"
  OBVIOUS
<1> HIDE DEF edge
<1>6. ASSUME NEW j \in DOMAIN schema.entities PROVE spelling[schema.entities[j].name] \in Ids
  BY <1>1, <1>3, PartsOfEntity, EntityNodeIs
<1>7. ASSUME NEW name \in DeclaredNames(schema) PROVE spelling[name] \in Ids
  BY <1>6 DEF DeclaredNames
<1>8. ASSUME NEW j \in DOMAIN schema.entities, edge \in OfEntity(schema.entities[j])
      PROVE  edge.from \in Ids /\ edge.to \in Ids
  <2> DEFINE e == schema.entities[j]
  <2>1. PICK i \in DOMAIN e.attributes : edge = writeAttributeNode(e, e.attributes[i])[2]
    BY <1>5, <1>8, PartsOfEntity, EntityNodeIs, AttributeNodeIs
  <2>2. writeAttributeNode(e, e.attributes[i])[1] \in ToSet(dot)
    BY <1>3, PartsOfEntity
  <2> QED BY <1>1, <1>6, <2>1, <2>2, AttributeNodeIs
<1>9. ASSUME NEW j \in DOMAIN schema.entities, NEW k \in DOMAIN schema.entities[j].assertions,
             AssertionNode(schema.entities[j], k, edge) \/ edge = AssertionEdge(schema.entities[j], k)
      PROVE  edge.from \in Ids /\ edge.to \in Ids
  <2>1. edge = AssertionEdge(schema.entities[j], k)
    BY <1>5, <1>9, AssertionNodeIs
  <2>2. PICK st \in ToSet(dot) : AssertionNode(schema.entities[j], k, st)
    BY <1>3
  <2> QED BY <1>1, <1>6, <2>1, <2>2, AssertionNodeIs
<1>10. ASSUME NEW j \in DOMAIN schema.relationships, edge \in OfRelationship(schema.relationships[j])
       PROVE  edge.from \in Ids /\ edge.to \in Ids
  <2> DEFINE r == schema.relationships[j]
  <2>1. RelationshipNode(r) \in ToSet(dot)
    BY <1>3, PartsOfRelationship
  <2>2. relationshipId(r) \in Ids
    BY <1>1, <2>1, RelationshipNodeIs
  <2>3. CASE \E i \in DOMAIN r.attributes :
                 edge = writeRelationshipAttributeNode(r, r.attributes[i])[2]
    <3>1. PICK i \in DOMAIN r.attributes :
              edge = writeRelationshipAttributeNode(r, r.attributes[i])[2]
      BY <2>3
    <3>2. writeRelationshipAttributeNode(r, r.attributes[i])[1] \in ToSet(dot)
      BY <1>3, PartsOfRelationship
    <3> QED BY <1>1, <2>2, <3>1, <3>2, RelationshipAttributeNodeIs
  <2>4. CASE \E i \in DOMAIN r.participants : edge = ParticipantEdge(r, i)
    <3>1. PICK i \in DOMAIN r.participants : edge = ParticipantEdge(r, i)
      BY <2>4
    <3>2. r.participants[i].entityName \in DeclaredNames(schema)
      BY <1>3 DEF SchemaSound, RelationshipSound, ParticipantNames
    <3> QED BY <1>7, <2>2, <3>1, <3>2, ParticipantEdgeIs
  <2> QED BY <1>5, <1>10, <2>3, <2>4, PartsOfRelationship, RelationshipNodeIs,
             RelationshipAttributeNodeIs
<1>11. ASSUME NEW j \in DOMAIN schema.entities,
              edge \in ToSet(InheritanceStatement(schema.entities[j]))
       PROVE  edge.from \in Ids /\ edge.to \in Ids
  <2> DEFINE e == schema.entities[j]
  <2>1. e.parent # NULL /\ edge = EdgeStatement(entityId(e), spelling[e.parent], {"is-a"})
    BY <1>11, PartsOfInheritance
  <2>2. e.parent \in DeclaredNames(schema)
    BY <1>3, <2>1 DEF SchemaSound, InheritanceSound
  <2> QED BY <1>6, <1>7, <2>1, <2>2 DEF EdgeStatement, entityId
<1>12. edge.from \in Ids /\ edge.to \in Ids
  BY <1>4, <1>8, <1>9, <1>10, <1>11
<1> QED BY <1>12 DEF edge

-----------------------------------------------------------------------------
(* Identifiers                                                             *)
LEMMA NamesOf ==
    ASSUME NEW s \in Schemas
    PROVE  /\ \A j \in DOMAIN s.entities :
                 /\ s.entities[j].name \in Names
                 /\ \A i \in DOMAIN s.entities[j].attributes : s.entities[j].attributes[i].name \in Names
           /\ \A j \in DOMAIN s.relationships :
                 /\ s.relationships[j].name \in Names
                 /\ \A i \in DOMAIN s.relationships[j].attributes :
                       s.relationships[j].attributes[i].name \in Names
<1>1. \A e \in Entity : e.name \in Names
  BY DEF Entity
<1>2. \A r \in Relationship : r.name \in Names
  BY DEF Relationship
<1>3. ASSUME NEW list \in Seq(Attribute), NEW i \in DOMAIN list PROVE list[i].name \in Names
  <2>0. DOMAIN list = 1 .. Len(list)
    OBVIOUS
  <2>1. list[i] \in Attribute
    BY <2>0
  <2> QED BY <2>1 DEF Attribute
<1>4. DOMAIN s.entities = 1 .. Len(s.entities) /\ DOMAIN s.relationships = 1 .. Len(s.relationships)
  BY SchemaLists
<1> QED BY <1>1, <1>2, <1>3, <1>4, SchemaLists

\* An identifier by its pieces.
Pieces == Char \cup {"_", "attr", "assert", "rel"} \cup {numeral[k] : k \in DOMAIN numeral}

LEMMA SpellingIs ==
    ASSUME NEW n \in Names
    PROVE  /\ spelling[n] \in Seq(Pieces) /\ Len(spelling[n]) \in Nat
           /\ DOMAIN spelling[n] = 1 .. Len(spelling[n])
<1>1. spelling[n] \in Seq(Char)
  BY GeneratorAssumption
<1>2. Char \subseteq Pieces
  BY DEF Pieces
<1>3. spelling[n] \in Seq(Pieces)
  BY <1>1, <1>2, SeqInLarger
<1> QED BY <1>3

AttributeIdParts(id, p, q) ==
    /\ Len(id) = 3 + Len(p) + Len(q) /\ id[1] = "attr"
    /\ \A i \in 1 .. Len(p) : id[2 + i] = p[i]
    /\ \A i \in 1 .. Len(q) : id[3 + Len(p) + i] = q[i]

LEMMA AttributeIdIs ==
    ASSUME NEW e, e.name \in Names, NEW a, a.name \in Names
    PROVE  AttributeIdParts(attributeId(e, a), spelling[e.name], spelling[a.name])
<1> DEFINE id == attributeId(e, a)
<1>0. PICK u : u = "_"
  OBVIOUS
<1>1. "attr" \in Pieces /\ u \in Pieces
  BY <1>0, Zenon DEF Pieces
<1>2. spelling[e.name] \in Seq(Pieces) /\ spelling[a.name] \in Seq(Pieces)
  BY SpellingIs
<1>3. id = Framing("attr", u, spelling[e.name], u, spelling[a.name])
  BY <1>0, Zenon DEF attributeId, Framing
<1> HIDE DEF id
<1>4. FramingParts(id, "attr", u, spelling[e.name], u, spelling[a.name])
  BY <1>1, <1>2, <1>3, Framed
<1>9. AttributeIdParts(id, spelling[e.name], spelling[a.name])
  BY <1>4 DEF FramingParts, AttributeIdParts
<1> QED BY <1>9 DEF id

AssertionIdParts(id, p, number) ==
    /\ Len(id) = 4 + Len(p) /\ id[1] = "assert" /\ id[4 + Len(p)] = number
    /\ \A i \in 1 .. Len(p) : id[2 + i] = p[i]

LEMMA AssertionIdIs ==
    ASSUME NEW e, e.name \in Names, NEW k, k - 1 \in DOMAIN numeral
    PROVE  AssertionIdParts(assertionId(e, k), spelling[e.name], numeral[k - 1])
<1> DEFINE id == assertionId(e, k)
<1>0. PICK u : u = "_"
  OBVIOUS
<1>1. "assert" \in Pieces /\ u \in Pieces /\ numeral[k - 1] \in Pieces
  BY <1>0, Zenon DEF Pieces
<1>2. spelling[e.name] \in Seq(Pieces)
  BY SpellingIs
<1>3. id = Ending("assert", u, spelling[e.name], numeral[k - 1])
  BY <1>0, Zenon DEF assertionId, Ending
<1> HIDE DEF id
<1>4. EndingParts(id, "assert", u, spelling[e.name], numeral[k - 1])
  BY <1>1, <1>2, <1>3, FramedEnd
<1>9. AssertionIdParts(id, spelling[e.name], numeral[k - 1])
  BY <1>4 DEF EndingParts, AssertionIdParts
<1> QED BY <1>9 DEF id

RelationshipIdParts(id, p) ==
    /\ Len(id) = 2 + Len(p) /\ id[2 + Len(p)] = "rel"
    /\ \A i \in 1 .. Len(p) : id[i] = p[i]

LEMMA RelationshipIdIs ==
    ASSUME NEW r, r.name \in Names
    PROVE  RelationshipIdParts(relationshipId(r), spelling[r.name])
<1> DEFINE id == relationshipId(r)
<1>0. PICK u : u = "_"
  OBVIOUS
<1>1. "rel" \in Pieces /\ u \in Pieces
  BY <1>0, Zenon DEF Pieces
<1>2. spelling[r.name] \in Seq(Pieces)
  BY SpellingIs
<1>3. id = spelling[r.name] \o <<u, "rel">>
  BY <1>0, Zenon DEF relationshipId
<1> HIDE DEF id
<1>9. RelationshipIdParts(id, spelling[r.name])
  BY <1>1, <1>2, <1>3, Followed DEF RelationshipIdParts
<1> QED BY <1>9 DEF id

RelationshipAttributeIdParts(id, p, q) ==
    /\ Len(id) = 5 + Len(p) + Len(q) /\ id[1] = "attr"
    /\ \A i \in 1 .. Len(p) : id[4 + i] = p[i]
    /\ \A i \in 1 .. Len(q) : id[5 + Len(p) + i] = q[i]

LEMMA RelationshipAttributeIdIs ==
    ASSUME NEW r, r.name \in Names, NEW a, a.name \in Names
    PROVE  RelationshipAttributeIdParts(relationshipAttributeId(r, a), spelling[r.name], spelling[a.name])
<1> DEFINE id == relationshipAttributeId(r, a)
<1>0. PICK u : u = "_"
  OBVIOUS
<1>1. "attr" \in Pieces /\ "rel" \in Pieces /\ u \in Pieces
  BY <1>0, Zenon DEF Pieces
<1>2. spelling[r.name] \in Seq(Pieces) /\ spelling[a.name] \in Seq(Pieces)
  BY SpellingIs
<1>3. id = FramingTwice("attr", u, "rel", spelling[r.name], spelling[a.name])
  BY <1>0, Zenon DEF relationshipAttributeId, FramingTwice
<1> HIDE DEF id
<1>4. FramingTwiceParts(id, "attr", u, "rel", spelling[r.name], spelling[a.name])
  BY <1>1, <1>2, <1>3, FramedTwice
<1>9. RelationshipAttributeIdParts(id, spelling[r.name], spelling[a.name])
  BY <1>4 DEF FramingTwiceParts, RelationshipAttributeIdParts
<1> QED BY <1>9 DEF id

\* The name of a spelling.
LEMMA SpellingTells ==
    ASSUME NEW m \in Names, NEW n \in Names, Len(spelling[m]) = Len(spelling[n]),
           \A i \in 1 .. Len(spelling[m]) : spelling[m][i] = spelling[n][i]
    PROVE  m = n
<1>1. spelling[m] \in Seq(Pieces) /\ spelling[n] \in Seq(Pieces)
  BY SpellingIs
<1>2. spelling[m] = spelling[n]
  BY <1>1, SeqEqual
<1> QED BY <1>2, GeneratorAssumption

\* An attribute node is that of one entity, once the name of the attribute is known.
LEMMA SameAttributeOwner ==
    ASSUME NEW e, e.name \in Names, NEW f, f.name \in Names, NEW a, NEW b,
           a.name \in Names, b.name = a.name, attributeId(e, a) = attributeId(f, b)
    PROVE  e.name = f.name
<1> DEFINE p == spelling[e.name]
           p2 == spelling[f.name]
           q == spelling[a.name]
<1>0. PICK id : id = attributeId(e, a) /\ id = attributeId(f, b)
  OBVIOUS
<1>1. Len(p) \in Nat /\ Len(p2) \in Nat /\ Len(q) \in Nat
  BY SpellingIs
<1>2. Len(id) = 3 + Len(p) + Len(q) /\ \A i \in 1 .. Len(p) : id[2 + i] = p[i]
  <2>1. AttributeIdParts(id, p, q)
    BY <1>0, AttributeIdIs
  <2> QED BY <2>1 DEF AttributeIdParts
<1>3. Len(id) = 3 + Len(p2) + Len(spelling[b.name])
      /\ \A i \in 1 .. Len(p2) : id[2 + i] = p2[i]
  <2>1. b.name \in Names
    OBVIOUS
  <2>2. AttributeIdParts(id, p2, spelling[b.name])
    BY <1>0, <2>1, AttributeIdIs
  <2> QED BY <2>2 DEF AttributeIdParts
<1>5. spelling[b.name] = q
  OBVIOUS
<1> HIDE DEF p, p2, q
<1>4. Len(p) = Len(p2) /\ \A i \in 1 .. Len(p) : p[i] = p2[i]
  BY <1>1, <1>2, <1>3, <1>5
<1> QED BY <1>4, SpellingTells DEF p, p2


-----------------------------------------------------------------------------
(* Keys and identifying relationships                                      *)

\* The nodes among the statements of a part.
LEMMA NodesOfEntity ==
    ASSUME NEW e, NEW st \in OfEntity(e), st.stmt = "node"
    PROVE  \/ st = EntityNode(e)
           \/ \E i \in DOMAIN e.attributes : st = writeAttributeNode(e, e.attributes[i])[1]
BY PartsOfEntity, AttributeNodeIs

LEMMA NodesOfRelationship ==
    ASSUME NEW r, NEW st \in OfRelationship(r), st.stmt = "node"
    PROVE  \/ st = RelationshipNode(r)
           \/ \E i \in DOMAIN r.attributes :
                 st = writeRelationshipAttributeNode(r, r.attributes[i])[1]
BY PartsOfRelationship, RelationshipAttributeNodeIs, ParticipantEdgeIs

LEMMA NodesOfFile ==
    ASSUME DiagramInv, drawing = "closed", NEW n \in DOMAIN dot, NodeStmt(n)
    PROVE  \/ \E j \in DOMAIN schema.entities : dot[n] = EntityNode(schema.entities[j])
           \/ \E j \in DOMAIN schema.entities : \E i \in DOMAIN schema.entities[j].attributes :
                 dot[n] = writeAttributeNode(schema.entities[j], schema.entities[j].attributes[i])[1]
           \/ \E j \in DOMAIN schema.entities : \E k \in DOMAIN schema.entities[j].assertions :
                 AssertionNode(schema.entities[j], k, dot[n])
           \/ \E j \in DOMAIN schema.relationships :
                 dot[n] = RelationshipNode(schema.relationships[j])
           \/ \E j \in DOMAIN schema.relationships :
              \E i \in DOMAIN schema.relationships[j].attributes :
                 dot[n] = writeRelationshipAttributeNode(schema.relationships[j],
                              schema.relationships[j].attributes[i])[1]
<1> DEFINE st == dot[n]
<1>1. st \in ToSet(dot) /\ st.stmt = "node"
  BY DEF ToSet, NodeStmt
<1>2. \/ \E j \in DOMAIN schema.entities : st \in OfEntity(schema.entities[j])
      \/ \E j \in DOMAIN schema.entities : \E k \in DOMAIN schema.entities[j].assertions :
            AssertionNode(schema.entities[j], k, st) \/ st = AssertionEdge(schema.entities[j], k)
      \/ \E j \in DOMAIN schema.relationships : st \in OfRelationship(schema.relationships[j])
      \/ \E j \in DOMAIN schema.entities : st \in ToSet(InheritanceStatement(schema.entities[j]))
  BY <1>1, Finished
<1> HIDE DEF st
<1>3. \A j \in DOMAIN schema.entities : st \notin ToSet(InheritanceStatement(schema.entities[j]))
  BY <1>1, PartsOfInheritance DEF EdgeStatement
<1>4. \A e, k : st # AssertionEdge(e, k)
  BY <1>1, AssertionNodeIs
<1>5. ASSUME NEW j \in DOMAIN schema.entities, st \in OfEntity(schema.entities[j])
      PROVE  \/ st = EntityNode(schema.entities[j])
             \/ \E i \in DOMAIN schema.entities[j].attributes :
                   st = writeAttributeNode(schema.entities[j], schema.entities[j].attributes[i])[1]
  BY <1>1, <1>5, NodesOfEntity
<1>6. ASSUME NEW j \in DOMAIN schema.relationships, st \in OfRelationship(schema.relationships[j])
      PROVE  \/ st = RelationshipNode(schema.relationships[j])
             \/ \E i \in DOMAIN schema.relationships[j].attributes :
                   st = writeRelationshipAttributeNode(schema.relationships[j],
                            schema.relationships[j].attributes[i])[1]
  BY <1>1, <1>6, NodesOfRelationship
<1>7. \/ \E j \in DOMAIN schema.entities : st \in OfEntity(schema.entities[j])
      \/ \E j \in DOMAIN schema.entities : \E k \in DOMAIN schema.entities[j].assertions :
            AssertionNode(schema.entities[j], k, st)
      \/ \E j \in DOMAIN schema.relationships : st \in OfRelationship(schema.relationships[j])
  BY <1>2, <1>3, <1>4
<1>8. CASE \E j \in DOMAIN schema.entities : st \in OfEntity(schema.entities[j])
  BY <1>5, <1>8 DEF st
<1>9. CASE \E j \in DOMAIN schema.relationships : st \in OfRelationship(schema.relationships[j])
  BY <1>6, <1>9 DEF st
<1> QED BY <1>7, <1>8, <1>9 DEF st

\* The border of a relationship tells whether a weak entity takes part.
LEMMA IdentifyingIff ==
    ASSUME SchemaSound(schema), schema \in Schemas, NEW j \in DOMAIN schema.relationships
    PROVE  isIdentifyingRel(schema.relationships[j])
             <=> \E e \in ToSet(schema.entities) :
                     e.weak /\ e.name \in ParticipantNames(schema.relationships[j])
<1> DEFINE r == schema.relationships[j]
<1>1. ASSUME NEW i \in DOMAIN r.participants, WeakEntity(r.participants[i].entityName)
      PROVE  \E e \in ToSet(schema.entities) : e.weak /\ e.name \in ParticipantNames(r)
  BY <1>1 DEF WeakEntity, ParticipantNames, ToSet
<1>2. ASSUME NEW e \in ToSet(schema.entities), e.weak, e.name \in ParticipantNames(r)
      PROVE  isIdentifyingRel(r)
  <2>1. PICK i \in DOMAIN r.participants : r.participants[i].entityName = e.name
    BY <1>2 DEF ParticipantNames
  <2>2. PICK k \in DOMAIN schema.entities : schema.entities[k] = e
    BY DEF ToSet
  <2>3. r.participants[i].participation = "PARTICIPATION_TOTAL"
    BY <1>2, <2>1, <2>2 DEF SchemaSound, RelationshipSound
  <2>4. WeakEntity(r.participants[i].entityName)
    BY <1>2, <2>1, <2>2 DEF WeakEntity
  <2> QED BY <2>3, <2>4 DEF isIdentifyingRel, Total
<1>3. isIdentifyingRel(r) =>
          \E i \in DOMAIN r.participants : WeakEntity(r.participants[i].entityName)
  BY DEF isIdentifyingRel
<1> QED BY <1>1, <1>2, <1>3

LEMMA IdentifyingShown == DiagramInv => IdentifyingIffWeak
<1> SUFFICES ASSUME DiagramInv, drawing = "closed", NEW r \in ToSet(schema.relationships),
                    NEW n \in DOMAIN dot, NodeStmt(n),
                    dot[n].id = relationshipId(r), dot[n].label = spelling[r.name]
             PROVE  "identifying" \in dot[n].marks
                      <=> \E e \in ToSet(schema.entities) : e.weak /\ e.name \in ParticipantNames(r)
  BY DEF IdentifyingIffWeak
<1>1. schema \in Schemas /\ SchemaSound(schema)
  BY Finished
<1>2. PICK j \in DOMAIN schema.relationships : r = schema.relationships[j]
  BY DEF ToSet
<1> DEFINE st == dot[n]
           p == spelling[r.name]
<1>3. r.name \in Names
  BY <1>1, <1>2, NamesOf
<1>4. p \in Seq(Pieces) /\ Len(p) \in Nat
  BY <1>3, SpellingIs
<1>5. PICK id : id = relationshipId(r)
  OBVIOUS
<1>6. Len(id) = 2 + Len(p) /\ id[2 + Len(p)] = "rel"
  BY <1>3, <1>5, RelationshipIdIs DEF RelationshipIdParts
<1>7. st.id = id /\ st.label = p
  BY <1>5
<1> HIDE DEF st, p
<1>8. \A j2 \in DOMAIN schema.entities : st # EntityNode(schema.entities[j2])
  BY <1>4, <1>6, <1>7, EntityNodeIs
<1>9. ASSUME NEW j2 \in DOMAIN schema.entities, NEW i \in DOMAIN schema.entities[j2].attributes
      PROVE  st # writeAttributeNode(schema.entities[j2], schema.entities[j2].attributes[i])[1]
  <2> DEFINE e == schema.entities[j2]
             a == schema.entities[j2].attributes[i]
  <2> SUFFICES ASSUME st = writeAttributeNode(e, a)[1] PROVE FALSE
    OBVIOUS
  <2>1. e.name \in Names /\ a.name \in Names
    BY <1>1, NamesOf
  <2> HIDE DEF e, a
  <2>2. id = attributeId(e, a) /\ p = spelling[a.name]
    BY <1>7, AttributeNodeIs
  <2>3. Len(id) = 3 + Len(spelling[e.name]) + Len(spelling[a.name])
    BY <2>1, <2>2, AttributeIdIs DEF AttributeIdParts
  <2>4. Len(id) = 3 + Len(spelling[e.name]) + Len(p)
    BY <2>2, <2>3
  <2>5. Len(spelling[e.name]) \in Nat /\ Len(id) = 2 + Len(p)
    BY <1>6, <2>1, SpellingIs
  <2> QED BY <1>4, <2>4, <2>5
<1>10. ASSUME NEW j2 \in DOMAIN schema.entities, NEW k \in DOMAIN schema.entities[j2].assertions
       PROVE  ~AssertionNode(schema.entities[j2], k, st)
  <2> DEFINE e == schema.entities[j2]
  <2> SUFFICES ASSUME AssertionNode(e, k, st) PROVE FALSE
    OBVIOUS
  <2>1. e.name \in Names /\ k - 1 \in DOMAIN numeral
    BY <1>1, NamesOf, CompilerAssumption
  <2> HIDE DEF e
  <2>2. id = assertionId(e, k)
    BY <1>7, AssertionNodeIs
  <2>3. Len(id) = 4 + Len(spelling[e.name]) /\ id[4 + Len(spelling[e.name])] = numeral[k - 1]
    BY <2>1, <2>2, AssertionIdIs DEF AssertionIdParts
  <2>4. id[Len(id)] = numeral[k - 1] /\ id[Len(id)] = "rel"
    BY <1>6, <2>3
  <2>5. numeral[k - 1] # "rel"
    BY <2>1, GeneratorAssumption
  <2> QED BY <2>4, <2>5
<1>11. ASSUME NEW j2 \in DOMAIN schema.relationships,
              NEW i \in DOMAIN schema.relationships[j2].attributes
       PROVE  st # writeRelationshipAttributeNode(schema.relationships[j2],
                       schema.relationships[j2].attributes[i])[1]
  <2> DEFINE e == schema.relationships[j2]
             a == schema.relationships[j2].attributes[i]
  <2> SUFFICES ASSUME st = writeRelationshipAttributeNode(e, a)[1] PROVE FALSE
    OBVIOUS
  <2>1. e.name \in Names /\ a.name \in Names
    BY <1>1, NamesOf
  <2> HIDE DEF e, a
  <2>2. id = relationshipAttributeId(e, a) /\ p = spelling[a.name]
    BY <1>7, RelationshipAttributeNodeIs
  <2>3. Len(id) = 5 + Len(spelling[e.name]) + Len(spelling[a.name])
    BY <2>1, <2>2, RelationshipAttributeIdIs DEF RelationshipAttributeIdParts
  <2>4. Len(id) = 5 + Len(spelling[e.name]) + Len(p)
    BY <2>2, <2>3
  <2>5. Len(spelling[e.name]) \in Nat /\ Len(id) = 2 + Len(p)
    BY <1>6, <2>1, SpellingIs
  <2> QED BY <1>4, <2>4, <2>5
<1>12. PICK j2 \in DOMAIN schema.relationships : st = RelationshipNode(schema.relationships[j2])
  BY <1>8, <1>9, <1>10, <1>11, NodesOfFile DEF st
<1>13. schema.relationships[j2].name \in Names
       /\ spelling[schema.relationships[j2].name] = spelling[r.name]
  BY <1>1, <1>7, <1>12, NamesOf, RelationshipNodeIs DEF p
<1>14. schema.relationships[j2].name = r.name
  BY <1>3, <1>13, GeneratorAssumption
<1>15. j2 = j
  BY <1>1, <1>2, <1>14 DEF SchemaSound, NamesUnique, NamedOnce
<1>16. "identifying" \in st.marks <=> isIdentifyingRel(r)
  BY <1>2, <1>12, <1>15, RelationshipNodeIs
<1> QED BY <1>1, <1>2, <1>16, IdentifyingIff DEF st


\* The attributes of an entity that its key is made of, as its nodes show it.
KeyMarked(e) ==
    {n \in {e.attributes[k].name : k \in DOMAIN e.attributes} :
        \E k \in DOMAIN e.attributes :
            /\ e.attributes[k].name = n
            /\ HasModifier(e.attributes[k], "MOD_PRIMARY") \/ isAttributeInPrimaryKey(e, n)}

LEMMA ShownIsMarked ==
    ASSUME DiagramInv, drawing = "closed", NEW j \in DOMAIN schema.entities
    PROVE  Shown(schema.entities[j]) = KeyMarked(schema.entities[j])
<1> DEFINE e == schema.entities[j]
<1>1. schema \in Schemas /\ SchemaSound(schema)
  BY Finished
<1>2. e.name \in Names /\ \A k \in DOMAIN e.attributes : e.attributes[k].name \in Names
  BY <1>1, NamesOf
<1>3. ASSUME NEW n \in Shown(e) PROVE n \in KeyMarked(e)
  <2>1. PICK k \in DOMAIN e.attributes : n = e.attributes[k].name
    BY <1>3 DEF Shown
  <2> n \in Names
    BY <1>2, <2>1
  <2>2. PICK i \in DOMAIN dot :
            /\ NodeStmt(i) /\ "key" \in dot[i].marks
            /\ dot[i].id = attributeId(e, [name |-> n]) /\ dot[i].label = spelling[n]
    BY <1>3 DEF Shown
  <2>3. \A j2 \in DOMAIN schema.entities : dot[i] # EntityNode(schema.entities[j2])
    BY <2>2, EntityNodeIs
  <2>4. \A j2 \in DOMAIN schema.entities : \A l \in DOMAIN schema.entities[j2].assertions :
            ~AssertionNode(schema.entities[j2], l, dot[i])
    <3> TAKE j2 \in DOMAIN schema.entities
    <3> TAKE l \in DOMAIN schema.entities[j2].assertions
    <3> DEFINE f == schema.entities[j2]
               st == dot[i]
    <3>1. "key" \in st.marks
      BY <2>2
    <3> HIDE DEF f, st
    <3>2. AssertionNode(f, l, st) => st.marks = {"note"}
      BY AssertionNodeIs
    <3>3. ~AssertionNode(f, l, st)
      BY <3>1, <3>2
    <3> QED BY <3>3 DEF f, st
  <2>5. \A j2 \in DOMAIN schema.relationships :
            dot[i] # RelationshipNode(schema.relationships[j2])
    BY <2>2, RelationshipNodeIs
  <2>6. \A j2 \in DOMAIN schema.relationships : \A l \in DOMAIN schema.relationships[j2].attributes :
            dot[i] # writeRelationshipAttributeNode(schema.relationships[j2],
                         schema.relationships[j2].attributes[l])[1]
    BY <2>2, RelationshipAttributeNodeIs
  <2>7. PICK j2 \in DOMAIN schema.entities : \E l \in DOMAIN schema.entities[j2].attributes :
            dot[i] = writeAttributeNode(schema.entities[j2], schema.entities[j2].attributes[l])[1]
    BY <2>2, <2>3, <2>4, <2>5, <2>6, NodesOfFile
  <2>8. PICK l \in DOMAIN schema.entities[j2].attributes :
            dot[i] = writeAttributeNode(schema.entities[j2], schema.entities[j2].attributes[l])[1]
    BY <2>7
  <2> DEFINE f == schema.entities[j2]
             a == schema.entities[j2].attributes[l]
  <2>9. f.name \in Names /\ a.name \in Names
    BY <1>1, NamesOf
  <2>10. /\ attributeId(f, a) = attributeId(e, [name |-> n]) /\ spelling[a.name] = spelling[n]
         /\ HasModifier(a, "MOD_PRIMARY") \/ isAttributeInPrimaryKey(f, a.name)
    BY <2>2, <2>8, AttributeNodeIs
  <2>11. a.name = n
    BY <2>9, <2>10, GeneratorAssumption
  <2>12. f.name = e.name
    <3> DEFINE b == [name |-> n]
    <3>1. b.name = a.name
      BY <2>11
    <3> HIDE DEF b, f, e, a
    <3> QED BY <1>2, <2>9, <2>10, <3>1, SameAttributeOwner DEF b
  <2>13. f = e
    BY <1>1, <2>12 DEF SchemaSound, NamesUnique, NamedOnce
  <2> QED BY <2>10, <2>11, <2>13 DEF KeyMarked
<1>4. ASSUME NEW n \in KeyMarked(e) PROVE n \in Shown(e)
  <2>1. PICK k \in DOMAIN e.attributes :
            /\ e.attributes[k].name = n
            /\ HasModifier(e.attributes[k], "MOD_PRIMARY") \/ isAttributeInPrimaryKey(e, n)
    BY <1>4 DEF KeyMarked
  <2> DEFINE node == writeAttributeNode(e, e.attributes[k])[1]
  <2>2. /\ node.stmt = "node" /\ node.id = attributeId(e, e.attributes[k])
        /\ node.label = spelling[n] /\ "key" \in node.marks
    BY <2>1, AttributeNodeIs
  <2>3. attributeId(e, e.attributes[k]) = attributeId(e, [name |-> n])
    BY <2>1 DEF attributeId
  <2>4. node \in ToSet(dot)
    BY Finished, PartsOfEntity
  <2> HIDE DEF node
  <2>5. PICK i \in DOMAIN dot : dot[i] = node
    BY <2>4 DEF ToSet
  <2>6. NodeStmt(i) /\ "key" \in dot[i].marks
        /\ dot[i].id = attributeId(e, [name |-> n]) /\ dot[i].label = spelling[n]
    BY <2>2, <2>3, <2>5 DEF NodeStmt
  <2> QED BY <2>1, <2>6 DEF Shown
<1> QED BY <1>3, <1>4

\* The parts of a key clause that are the entity's own.
LEMMA OwnKeyPart ==
    ASSUME NEW e, e.primaryKey # NULL, NEW n
    PROVE  isAttributeInPrimaryKey(e, n) <=>
               \E i \in DOMAIN e.primaryKey :
                   e.primaryKey[i].attribute = n /\ Owner(e, e.primaryKey[i]) = e.name
BY DEF isAttributeInPrimaryKey, Owner

\* What the diagram shows of the key of e.
KeyShown(e) ==
    /\ e.parent # NULL => Shown(e) = {}
    /\ e.parent = NULL /\ e.primaryKey = NULL => Cardinality(Shown(e)) = 1
    /\ e.parent = NULL /\ ~e.weak => Shown(e) # {}
    /\ e.primaryKey # NULL =>
          Shown(e) = {e.primaryKey[i].attribute :
                         i \in {k \in DOMAIN e.primaryKey :
                                   Owner(e, e.primaryKey[k]) = e.name}}

LEMMA KeysShownAre ==
    KeysUnderlined <=> (drawing = "closed" => \A e \in ToSet(schema.entities) : KeyShown(e))
BY Zenon DEF KeysUnderlined, KeyShown

LEMMA KeysShown == DiagramInv => KeysUnderlined
<1> SUFFICES ASSUME DiagramInv, drawing = "closed", NEW j \in DOMAIN schema.entities
             PROVE  KeyShown(schema.entities[j])
  BY KeysShownAre DEF ToSet
<1> DEFINE e == schema.entities[j]
           inline == {i \in DOMAIN e.attributes : HasModifier(e.attributes[i], "MOD_PRIMARY")}
<1>1. schema \in Schemas /\ SchemaSound(schema)
  BY Finished
<1>2. Shown(e) = KeyMarked(e)
  BY ShownIsMarked
<1>3. KeySound(schema, e)
  BY <1>1 DEF SchemaSound
<1>4. \A i \in DOMAIN schema.entities : schema.entities[i].name = e.name => schema.entities[i] = e
  BY <1>1 DEF SchemaSound, NamesUnique, NamedOnce
<1>5. IsFiniteSet(inline)
  <2>1. e.attributes \in Seq(Attribute)
    BY <1>1, EntityLists
  <2>2. DOMAIN e.attributes = 1 .. Len(e.attributes) /\ Len(e.attributes) \in Nat
    BY <2>1
  <2>3. inline \subseteq 1 .. Len(e.attributes)
    BY <2>2
  <2>4. IsFiniteSet(1 .. Len(e.attributes))
    BY <2>2, FS_Interval
  <2> HIDE DEF inline
  <2> QED BY <2>3, <2>4, FS_Subset
<1> HIDE DEF e
<1>6. CASE e.parent # NULL
  <2>1. e.primaryKey = NULL /\ inline = {}
    BY <1>3, <1>6 DEF KeySound
  <2>2. KeyMarked(e) = {}
    BY <2>1 DEF KeyMarked, isAttributeInPrimaryKey
  <2> QED BY <1>2, <1>6, <2>1, <2>2 DEF e, KeyShown
<1>7. CASE e.parent = NULL /\ e.primaryKey = NULL
  <2>1. Cardinality(inline) = 1
    BY <1>3, <1>7 DEF KeySound
  <2>2. PICK i : inline = {i}
    <3> HIDE DEF inline
    <3> QED BY <1>5, <2>1, FS_Singleton
  <2>3. KeyMarked(e) = {e.attributes[i].name}
    BY <1>7, <2>2 DEF KeyMarked, isAttributeInPrimaryKey
  <2>4. Cardinality(KeyMarked(e)) = 1
    BY <2>3, FS_Singleton
  <2> QED BY <1>2, <1>7, <2>3, <2>4 DEF e, KeyShown
<1>8. CASE e.parent = NULL /\ e.primaryKey # NULL
  <2>1. /\ inline = {} /\ e.primaryKey # <<>>
        /\ \A i \in DOMAIN e.primaryKey : KeyPartSound(schema, e, e.primaryKey[i])
    BY <1>3, <1>8 DEF KeySound
  <2>2. \A i \in DOMAIN e.primaryKey : Owner(e, e.primaryKey[i]) = e.name =>
            AttributeNamed(e.attributes, e.primaryKey[i].attribute)
    BY <1>4, <2>1 DEF KeyPartSound
  <2>3. \A i \in DOMAIN e.primaryKey : ~e.weak => Owner(e, e.primaryKey[i]) = e.name
    BY <2>1 DEF KeyPartSound
  <2>4. KeyMarked(e) = {e.primaryKey[i].attribute : i \in {k \in DOMAIN e.primaryKey :
                                                    Owner(e, e.primaryKey[k]) = e.name}}
    <3>1. \A n : isAttributeInPrimaryKey(e, n) <=>
               \E i \in DOMAIN e.primaryKey :
                   e.primaryKey[i].attribute = n /\ Owner(e, e.primaryKey[i]) = e.name
      BY <1>8, OwnKeyPart
    <3> QED BY <2>1, <2>2, <3>1 DEF KeyMarked, AttributeNamed
  <2>5. ~e.weak => KeyMarked(e) # {}
    <3>1. 1 \in DOMAIN e.primaryKey
      <4>1. e.primaryKey \in Seq(QualifiedIdentifier)
        <5>1. e \in Entity
          BY <1>1, SchemaLists DEF e
        <5> QED BY <1>8, <5>1 DEF Entity
      <4> QED BY <2>1, <4>1
    <3> QED BY <2>3, <2>4, <3>1
  <2> QED BY <1>2, <1>8, <2>4, <2>5 DEF e, KeyShown
<1> QED BY <1>6, <1>7, <1>8


-----------------------------------------------------------------------------
(* Nodes told apart: the underscores tell what an identifier is of         *)

\* What an identifier was made of: the attribute or assertion i of the j-th entity
\* or relationship, or that itself.
MadeOf(kind, j, i, id) ==
    \/ /\ kind = "entity" /\ j \in DOMAIN schema.entities /\ i = 0
       /\ id = entityId(schema.entities[j])
    \/ /\ kind = "attribute"
       /\ j \in DOMAIN schema.entities /\ i \in DOMAIN schema.entities[j].attributes
       /\ id = attributeId(schema.entities[j], schema.entities[j].attributes[i])
    \/ /\ kind = "assertion"
       /\ j \in DOMAIN schema.entities /\ i \in DOMAIN schema.entities[j].assertions
       /\ id = assertionId(schema.entities[j], i)
    \/ /\ kind = "relationship" /\ j \in DOMAIN schema.relationships /\ i = 0
       /\ id = relationshipId(schema.relationships[j])
    \/ /\ kind = "relationshipAttribute"
       /\ j \in DOMAIN schema.relationships /\ i \in DOMAIN schema.relationships[j].attributes
       /\ id = relationshipAttributeId(schema.relationships[j], schema.relationships[j].attributes[i])

Underscores(id) == {x \in 1 .. Len(id) : id[x] = "_"}

LEMMA SeparableNames ==
    ASSUME Separable, schema \in Schemas
    PROVE  /\ \A j \in DOMAIN schema.entities :
                 /\ "_" \notin ToSet(spelling[schema.entities[j].name])
                 /\ DistinctNames(schema.entities[j].attributes)
                 /\ \A i \in DOMAIN schema.entities[j].attributes :
                       "_" \notin ToSet(spelling[schema.entities[j].attributes[i].name])
           /\ \A j \in DOMAIN schema.relationships :
                 /\ "_" \notin ToSet(spelling[schema.relationships[j].name])
                 /\ DistinctNames(schema.relationships[j].attributes)
                 /\ \A i \in DOMAIN schema.relationships[j].attributes :
                       "_" \notin ToSet(spelling[schema.relationships[j].attributes[i].name])
<1>1. \A j \in DOMAIN schema.entities :
          schema.entities[j] \in ToSet(schema.entities) \cup ToSet(schema.relationships)
  BY DEF ToSet
<1>2. \A j \in DOMAIN schema.relationships :
          schema.relationships[j] \in ToSet(schema.entities) \cup ToSet(schema.relationships)
  BY DEF ToSet
<1> QED BY <1>1, <1>2 DEF Separable

\* The underscores of an identifier of each kind.
LEMMA EntityMarks ==
    ASSUME NEW n \in Names, "_" \notin ToSet(spelling[n]), NEW id, id = spelling[n]
    PROVE  Underscores(id) = {}
<1>1. DOMAIN spelling[n] = 1 .. Len(spelling[n])
  BY SpellingIs, Zenon
<1>2. ASSUME NEW x \in Underscores(id) PROVE FALSE
  <2>1. x \in DOMAIN spelling[n] /\ spelling[n][x] = "_"
    BY <1>1, Zenon DEF Underscores
  <2> QED BY <2>1, Zenon DEF ToSet
<1> QED BY <1>2, Zenon

LEMMA PlacesIn ==
    ASSUME NEW m \in Names, NEW n \in Names, NEW u \in Pieces,
           u \notin ToSet(spelling[m]), u \notin ToSet(spelling[n])
    PROVE  /\ u # "attr" => Places(Framing("attr", u, spelling[m], u, spelling[n]), u)
                                = {2, 3 + Len(spelling[m])}
           /\ u # "rel" => Places(spelling[m] \o <<u, "rel">>, u) = {1 + Len(spelling[m])}
           /\ u # "attr" /\ u # "rel"
                 => Places(FramingTwice("attr", u, "rel", spelling[m], spelling[n]), u)
                        = {2, 4, 5 + Len(spelling[m])}
<1>1. "attr" \in Pieces /\ "rel" \in Pieces
  BY Zenon DEF Pieces
<1>2. PICK p, q : p = spelling[m] /\ q = spelling[n]
  OBVIOUS
<1>3. p \in Seq(Pieces) /\ q \in Seq(Pieces) /\ u \notin ToSet(p) /\ u \notin ToSet(q)
  BY <1>2, SpellingIs
<1>4. u # "attr" => Places(Framing("attr", u, p, u, q), u) = {2, 3 + Len(p)}
  BY <1>1, <1>3, FramedMarks
<1>5. u # "rel" => Places(p \o <<u, "rel">>, u) = {1 + Len(p)}
  BY <1>1, <1>3, FollowedMarks
<1>6. u # "attr" /\ u # "rel"
         => Places(FramingTwice("attr", u, "rel", p, q), u) = {2, 4, 5 + Len(p)}
  BY <1>1, <1>3, FramedTwiceMarks
<1> QED BY <1>2, <1>4, <1>5, <1>6, Zenon

LEMMA AttributeMarks ==
    ASSUME NEW e, e.name \in Names, NEW a, a.name \in Names, NEW id, id = attributeId(e, a),
           "_" \notin ToSet(spelling[e.name]), "_" \notin ToSet(spelling[a.name])
    PROVE  Underscores(id) = {2, 3 + Len(spelling[e.name])}
<1>1. "_" \in Pieces /\ "_" # "attr"
  BY Zenon DEF Pieces
<1>2. Places(Framing("attr", "_", spelling[e.name], "_", spelling[a.name]), "_")
          = {2, 3 + Len(spelling[e.name])}
  BY <1>1, PlacesIn, Zenon
<1> QED BY <1>2, Zenon DEF Underscores, Places, attributeId, Framing

LEMMA RelationshipMarks ==
    ASSUME NEW r, r.name \in Names, NEW id, id = relationshipId(r),
           "_" \notin ToSet(spelling[r.name])
    PROVE  Underscores(id) = {1 + Len(spelling[r.name])}
<1>1. "_" \in Pieces /\ "_" # "rel"
  BY Zenon DEF Pieces
<1>2. Places(spelling[r.name] \o <<"_", "rel">>, "_") = {1 + Len(spelling[r.name])}
  BY <1>1, PlacesIn, Zenon
<1> QED BY <1>2, Zenon DEF Underscores, Places, relationshipId

LEMMA RelationshipAttributeMarks ==
    ASSUME NEW r, r.name \in Names, NEW a, a.name \in Names,
           NEW id, id = relationshipAttributeId(r, a),
           "_" \notin ToSet(spelling[r.name]), "_" \notin ToSet(spelling[a.name])
    PROVE  Underscores(id) = {2, 4, 5 + Len(spelling[r.name])}
<1>1. "_" \in Pieces /\ "_" # "attr" /\ "_" # "rel"
  BY Zenon DEF Pieces
<1>2. Places(FramingTwice("attr", "_", "rel", spelling[r.name], spelling[a.name]), "_")
          = {2, 4, 5 + Len(spelling[r.name])}
  BY <1>1, PlacesIn, Zenon
<1> QED BY <1>2, Zenon DEF Underscores, Places, relationshipAttributeId, FramingTwice

LEMMA AssertionMarks ==
    ASSUME NEW e, e.name \in Names, NEW k, k - 1 \in DOMAIN numeral,
           NEW id, id = assertionId(e, k)
    PROVE  {2, 3 + Len(spelling[e.name])} \subseteq Underscores(id)
<1> DEFINE p == spelling[e.name]
<1>0. PICK u, b : u = "_" /\ b = "assert"
  OBVIOUS
<1>1. b \in Pieces /\ u \in Pieces /\ numeral[k - 1] \in Pieces
  BY <1>0, Zenon DEF Pieces
<1>2. p \in Seq(Pieces) /\ Len(p) \in Nat
  BY SpellingIs
<1>3. id = Ending(b, u, p, numeral[k - 1])
  BY <1>0, Zenon DEF assertionId, Ending
<1>4. EndingParts(id, b, u, p, numeral[k - 1])
  BY <1>1, <1>2, <1>3, FramedEnd
<1>5. id[2] = u /\ id[3 + Len(p)] = u /\ 2 \in 1 .. Len(id) /\ 3 + Len(p) \in 1 .. Len(id)
  BY <1>2, <1>4 DEF EndingParts
<1> HIDE DEF p
<1>6. 2 \in Underscores(id) /\ 3 + Len(p) \in Underscores(id)
  BY <1>0, <1>5, Zenon DEF Underscores
<1> QED BY <1>6, Zenon DEF p


Kinds == {"entity", "attribute", "assertion", "relationship", "relationshipAttribute"}
Shape(kind, first, marks) ==
    /\ kind \in Kinds
    /\ kind = "entity" => marks = {}
    /\ kind = "relationship" => \E x \in Nat : marks = {x}
    /\ kind = "attribute" => first = "attr" /\ \E m \in Nat : marks = {2, 3 + m}
    /\ kind = "relationshipAttribute" => first = "attr" /\ \E m \in Nat : marks = {2, 4, 5 + m}
    /\ kind = "assertion" => first = "assert" /\ \E m \in Nat : {2, 3 + m} \subseteq marks

LEMMA ShapeTells ==
    ASSUME NEW first, NEW marks, NEW k1, NEW k2, Shape(k1, first, marks), Shape(k2, first, marks)
    PROVE  k1 = k2
<1>1. CASE k1 = "entity"
  BY <1>1 DEF Shape, Kinds
<1>2. CASE k1 = "relationship"
  BY <1>2 DEF Shape, Kinds
<1>3. CASE k1 = "attribute"
  BY <1>3 DEF Shape, Kinds
<1>4. CASE k1 = "relationshipAttribute"
  BY <1>4 DEF Shape, Kinds
<1>5. CASE k1 = "assertion"
  BY <1>5 DEF Shape, Kinds
<1> QED BY <1>1, <1>2, <1>3, <1>4, <1>5 DEF Shape, Kinds

LEMMA MadeOfShape ==
    ASSUME Separable, schema \in Schemas, NEW kind, NEW j, NEW i, NEW id, MadeOf(kind, j, i, id)
    PROVE  Shape(kind, id[1], Underscores(id))
<1> DEFINE e == schema.entities[j]
           r == schema.relationships[j]
<1>1. CASE /\ kind = "entity" /\ j \in DOMAIN schema.entities /\ id = entityId(e)
  <2>1. e.name \in Names /\ "_" \notin ToSet(spelling[e.name])
    BY <1>1, NamesOf, SeparableNames
  <2> HIDE DEF e
  <2>2. Underscores(id) = {}
    BY <1>1, <2>1, EntityMarks DEF entityId
  <2> QED BY <1>1, <2>2 DEF Shape, Kinds
<1>2. CASE /\ kind = "attribute" /\ j \in DOMAIN schema.entities /\ i \in DOMAIN e.attributes
           /\ id = attributeId(e, e.attributes[i])
  <2> DEFINE a == e.attributes[i]
  <2>1. /\ e.name \in Names /\ "_" \notin ToSet(spelling[e.name])
        /\ a.name \in Names /\ "_" \notin ToSet(spelling[a.name])
    BY <1>2, NamesOf, SeparableNames
  <2>2. id = attributeId(e, a)
    BY <1>2
  <2> HIDE DEF a, e
  <2>3. Underscores(id) = {2, 3 + Len(spelling[e.name])}
    BY <2>1, <2>2, AttributeMarks
  <2>4. id[1] = "attr"
    BY <2>1, <2>2, AttributeIdIs DEF AttributeIdParts
  <2>5. Len(spelling[e.name]) \in Nat
    BY <2>1, SpellingIs
  <2>6. \E m \in Nat : Underscores(id) = {2, 3 + m}
    BY <2>3, <2>5
  <2> QED BY <1>2, <2>4, <2>6, Zenon DEF Shape, Kinds
<1>3. CASE /\ kind = "assertion" /\ j \in DOMAIN schema.entities /\ i \in DOMAIN e.assertions
           /\ id = assertionId(e, i)
  <2>1. e.name \in Names /\ i - 1 \in DOMAIN numeral /\ id = assertionId(e, i)
    BY <1>3, NamesOf, CompilerAssumption
  <2> HIDE DEF e
  <2>2. {2, 3 + Len(spelling[e.name])} \subseteq Underscores(id)
    BY <2>1, AssertionMarks
  <2>3. id[1] = "assert"
    BY <2>1, AssertionIdIs DEF AssertionIdParts
  <2>4. Len(spelling[e.name]) \in Nat
    BY <2>1, SpellingIs
  <2>5. \E m \in Nat : {2, 3 + m} \subseteq Underscores(id)
    BY <2>2, <2>4
  <2> QED BY <1>3, <2>3, <2>5, Zenon DEF Shape, Kinds
<1>4. CASE /\ kind = "relationship" /\ j \in DOMAIN schema.relationships /\ id = relationshipId(r)
  <2>1. r.name \in Names /\ "_" \notin ToSet(spelling[r.name])
    BY <1>4, NamesOf, SeparableNames
  <2> HIDE DEF r
  <2>2. Underscores(id) = {1 + Len(spelling[r.name])}
    BY <1>4, <2>1, RelationshipMarks
  <2>3. 1 + Len(spelling[r.name]) \in Nat
    <3>1. Len(spelling[r.name]) \in Nat
      BY <2>1, SpellingIs, Zenon
    <3> QED BY <3>1
  <2> QED BY <1>4, <2>2, <2>3 DEF Shape, Kinds
<1>5. CASE /\ kind = "relationshipAttribute" /\ j \in DOMAIN schema.relationships
           /\ i \in DOMAIN r.attributes /\ id = relationshipAttributeId(r, r.attributes[i])
  <2> DEFINE a == r.attributes[i]
  <2>1. /\ r.name \in Names /\ "_" \notin ToSet(spelling[r.name])
        /\ a.name \in Names /\ "_" \notin ToSet(spelling[a.name])
    BY <1>5, NamesOf, SeparableNames
  <2>2. id = relationshipAttributeId(r, a)
    BY <1>5
  <2> HIDE DEF a, r
  <2>3. Underscores(id) = {2, 4, 5 + Len(spelling[r.name])}
    BY <2>1, <2>2, RelationshipAttributeMarks
  <2>4. id[1] = "attr"
    BY <2>1, <2>2, RelationshipAttributeIdIs DEF RelationshipAttributeIdParts
  <2>5. Len(spelling[r.name]) \in Nat
    BY <2>1, SpellingIs
  <2>6. \E m \in Nat : Underscores(id) = {2, 4, 5 + m}
    BY <2>3, <2>5
  <2> QED BY <1>5, <2>4, <2>6, Zenon DEF Shape, Kinds
<1> QED BY <1>1, <1>2, <1>3, <1>4, <1>5 DEF MadeOf


\* An identifier was made of one part.
LEMMA Separated ==
    ASSUME Separable, schema \in Schemas, NamesUnique(schema), NEW id,
           NEW k1, NEW j1, NEW i1, MadeOf(k1, j1, i1, id),
           NEW k2, NEW j2, NEW i2, MadeOf(k2, j2, i2, id)
    PROVE  k1 = k2 /\ j1 = j2 /\ i1 = i2
<1>1. Shape(k1, id[1], Underscores(id)) /\ Shape(k2, id[1], Underscores(id))
  BY MadeOfShape
<1>2. k1 = k2
  BY <1>1, ShapeTells
<1>3. /\ \A j, k \in DOMAIN schema.entities :
            schema.entities[j].name = schema.entities[k].name => j = k
      /\ \A j, k \in DOMAIN schema.relationships :
            schema.relationships[j].name = schema.relationships[k].name => j = k
  BY DEF NamesUnique, NamedOnce
<1>4. CASE k1 = "entity"
  <2>1. /\ j1 \in DOMAIN schema.entities /\ j2 \in DOMAIN schema.entities /\ i1 = i2
        /\ spelling[schema.entities[j1].name] = spelling[schema.entities[j2].name]
    BY <1>2, <1>4 DEF MadeOf, entityId
  <2>2. schema.entities[j1].name = schema.entities[j2].name
    BY <2>1, NamesOf, GeneratorAssumption
  <2> QED BY <1>2, <1>3, <2>1, <2>2
<1>5. CASE k1 = "attribute"
  <2> DEFINE e == schema.entities[j1]
             f == schema.entities[j2]
             a == e.attributes[i1]
             b == f.attributes[i2]
             p == spelling[e.name]
             p2 == spelling[f.name]
             q == spelling[a.name]
             q2 == spelling[b.name]
  <2>1. /\ j1 \in DOMAIN schema.entities /\ j2 \in DOMAIN schema.entities
        /\ i1 \in DOMAIN e.attributes /\ i2 \in DOMAIN f.attributes
        /\ id = attributeId(e, a) /\ id = attributeId(f, b)
    BY <1>2, <1>5 DEF MadeOf
  <2>2. e.name \in Names /\ f.name \in Names /\ a.name \in Names /\ b.name \in Names
    BY <2>1, NamesOf
  <2>3. "_" \notin ToSet(p) /\ "_" \notin ToSet(q) /\ "_" \notin ToSet(p2) /\ "_" \notin ToSet(q2)
    BY <2>1, SeparableNames, Zenon
  <2>4. DistinctNames(e.attributes)
    BY <2>1, SeparableNames, Zenon
  <2> HIDE DEF a, b
  <2>5. Underscores(id) = {2, 3 + Len(p)}
    BY <2>1, <2>2, <2>3, AttributeMarks, Zenon
  <2>6. Underscores(id) = {2, 3 + Len(p2)}
    BY <2>1, <2>2, <2>3, AttributeMarks, Zenon
  <2>7. /\ Len(id) = 3 + Len(p) + Len(q)
        /\ \A i \in 1 .. Len(p) : id[2 + i] = p[i]
        /\ \A i \in 1 .. Len(q) : id[3 + Len(p) + i] = q[i]
    <3>1. AttributeIdParts(id, p, q)
      BY <2>1, <2>2, AttributeIdIs
    <3> QED BY <3>1 DEF AttributeIdParts
  <2>8. /\ Len(id) = 3 + Len(p2) + Len(q2)
        /\ \A i \in 1 .. Len(p2) : id[2 + i] = p2[i]
        /\ \A i \in 1 .. Len(q2) : id[3 + Len(p2) + i] = q2[i]
    <3>1. AttributeIdParts(id, p2, q2)
      BY <2>1, <2>2, AttributeIdIs
    <3> QED BY <3>1 DEF AttributeIdParts
  <2>9. Len(p) \in Nat /\ Len(p2) \in Nat /\ Len(q) \in Nat /\ Len(q2) \in Nat
    BY <2>2, SpellingIs, Zenon
  <2> HIDE DEF p, p2, q, q2
  <2>10. Len(p) = Len(p2) /\ \A i \in 1 .. Len(p) : p[i] = p2[i]
    <3>1. Len(p) = Len(p2)
      <4>1. ASSUME NEW m \in Nat, NEW n \in Nat, {2, 3 + m} = {2, 3 + n}
            PROVE  m = n
        <5>1. 3 + m \notin {2} /\ 3 + m \in {2, 3 + m}
          OBVIOUS
        <5> QED BY <4>1, <5>1
      <4>2. {2, 3 + Len(p)} = {2, 3 + Len(p2)}
        BY <2>5, <2>6, Zenon
      <4> QED BY <2>9, <4>1, <4>2, Zenon
    <3> QED BY <2>7, <2>8, <3>1
  <2>11. Len(q) = Len(q2) /\ \A i \in 1 .. Len(q) : q[i] = q2[i]
    BY <2>7, <2>8, <2>9, <2>10
  <2>12. e.name = f.name
    BY <2>2, <2>10, SpellingTells DEF p, p2
  <2>13. a.name = b.name
    BY <2>2, <2>11, SpellingTells DEF q, q2
  <2>14. j1 = j2
    BY <1>3, <2>1, <2>12
  <2>15. i1 = i2
    BY <2>1, <2>4, <2>13, <2>14 DEF DistinctNames, a, b
  <2> QED BY <1>2, <2>14, <2>15
<1>6. CASE k1 = "assertion"
  <2> DEFINE e == schema.entities[j1]
             f == schema.entities[j2]
             p == spelling[e.name]
             p2 == spelling[f.name]
  <2>1. /\ j1 \in DOMAIN schema.entities /\ j2 \in DOMAIN schema.entities
        /\ i1 \in DOMAIN e.assertions /\ i2 \in DOMAIN f.assertions
        /\ id = assertionId(e, i1) /\ id = assertionId(f, i2)
    BY <1>2, <1>6 DEF MadeOf
  <2>2. /\ e.name \in Names /\ f.name \in Names
        /\ i1 - 1 \in DOMAIN numeral /\ i2 - 1 \in DOMAIN numeral
    BY <2>1, NamesOf, CompilerAssumption
  <2>3. /\ Len(id) = 4 + Len(p) /\ id[4 + Len(p)] = numeral[i1 - 1]
        /\ \A i \in 1 .. Len(p) : id[2 + i] = p[i]
    <3>1. AssertionIdParts(id, p, numeral[i1 - 1])
      BY <2>1, <2>2, AssertionIdIs
    <3> QED BY <3>1 DEF AssertionIdParts
  <2>4. /\ Len(id) = 4 + Len(p2) /\ id[4 + Len(p2)] = numeral[i2 - 1]
        /\ \A i \in 1 .. Len(p2) : id[2 + i] = p2[i]
    <3>1. AssertionIdParts(id, p2, numeral[i2 - 1])
      BY <2>1, <2>2, AssertionIdIs
    <3> QED BY <3>1 DEF AssertionIdParts
  <2>5. Len(p) \in Nat /\ Len(p2) \in Nat
    BY <2>2, SpellingIs, Zenon
  <2>6. i1 \in Nat /\ i2 \in Nat
    <3>1. i1 \in Nat
      BY <2>1, AssertionNumber
    <3>2. i2 \in Nat
      BY <2>1, AssertionNumber
    <3> QED BY <3>1, <3>2
  <2> HIDE DEF p, p2
  <2>7. Len(p) = Len(p2) /\ \A i \in 1 .. Len(p) : p[i] = p2[i]
    BY <2>3, <2>4, <2>5
  <2>8. numeral[i1 - 1] = numeral[i2 - 1]
    BY <2>3, <2>4, <2>7
  <2>9. i1 - 1 = i2 - 1
    BY <2>2, <2>8, GeneratorAssumption
  <2>10. e.name = f.name
    BY <2>2, <2>7, SpellingTells DEF p, p2
  <2> QED BY <1>2, <1>3, <2>1, <2>6, <2>9, <2>10
<1>7. CASE k1 = "relationship"
  <2> DEFINE e == schema.relationships[j1]
             f == schema.relationships[j2]
             p == spelling[e.name]
             p2 == spelling[f.name]
  <2>1. /\ j1 \in DOMAIN schema.relationships /\ j2 \in DOMAIN schema.relationships /\ i1 = i2
        /\ id = relationshipId(e) /\ id = relationshipId(f)
    BY <1>2, <1>7 DEF MadeOf
  <2>2. e.name \in Names /\ f.name \in Names
    BY <2>1, NamesOf
  <2>3. Len(id) = 2 + Len(p) /\ \A i \in 1 .. Len(p) : id[i] = p[i]
    BY <2>1, <2>2, RelationshipIdIs DEF RelationshipIdParts
  <2>4. Len(id) = 2 + Len(p2) /\ \A i \in 1 .. Len(p2) : id[i] = p2[i]
    BY <2>1, <2>2, RelationshipIdIs DEF RelationshipIdParts
  <2>5. Len(p) \in Nat /\ Len(p2) \in Nat
    BY <2>2, SpellingIs, Zenon
  <2> HIDE DEF p, p2
  <2>6. Len(p) = Len(p2) /\ \A i \in 1 .. Len(p) : p[i] = p2[i]
    BY <2>3, <2>4, <2>5
  <2>7. e.name = f.name
    BY <2>2, <2>6, SpellingTells DEF p, p2
  <2> QED BY <1>2, <1>3, <2>1, <2>7
<1>8. CASE k1 = "relationshipAttribute"
  <2> DEFINE e == schema.relationships[j1]
             f == schema.relationships[j2]
             a == e.attributes[i1]
             b == f.attributes[i2]
             p == spelling[e.name]
             p2 == spelling[f.name]
             q == spelling[a.name]
             q2 == spelling[b.name]
  <2>1. /\ j1 \in DOMAIN schema.relationships /\ j2 \in DOMAIN schema.relationships
        /\ i1 \in DOMAIN e.attributes /\ i2 \in DOMAIN f.attributes
        /\ id = relationshipAttributeId(e, a) /\ id = relationshipAttributeId(f, b)
    BY <1>2, <1>8 DEF MadeOf
  <2>2. e.name \in Names /\ f.name \in Names /\ a.name \in Names /\ b.name \in Names
    BY <2>1, NamesOf
  <2>3. "_" \notin ToSet(p) /\ "_" \notin ToSet(q) /\ "_" \notin ToSet(p2) /\ "_" \notin ToSet(q2)
    BY <2>1, SeparableNames, Zenon
  <2>4. DistinctNames(e.attributes)
    BY <2>1, SeparableNames, Zenon
  <2> HIDE DEF a, b
  <2>5. Underscores(id) = {2, 4, 5 + Len(p)}
    BY <2>1, <2>2, <2>3, RelationshipAttributeMarks, Zenon
  <2>6. Underscores(id) = {2, 4, 5 + Len(p2)}
    BY <2>1, <2>2, <2>3, RelationshipAttributeMarks, Zenon
  <2>7. /\ Len(id) = 5 + Len(p) + Len(q)
        /\ \A i \in 1 .. Len(p) : id[4 + i] = p[i]
        /\ \A i \in 1 .. Len(q) : id[5 + Len(p) + i] = q[i]
    <3>1. RelationshipAttributeIdParts(id, p, q)
      BY <2>1, <2>2, RelationshipAttributeIdIs
    <3> QED BY <3>1 DEF RelationshipAttributeIdParts
  <2>8. /\ Len(id) = 5 + Len(p2) + Len(q2)
        /\ \A i \in 1 .. Len(p2) : id[4 + i] = p2[i]
        /\ \A i \in 1 .. Len(q2) : id[5 + Len(p2) + i] = q2[i]
    <3>1. RelationshipAttributeIdParts(id, p2, q2)
      BY <2>1, <2>2, RelationshipAttributeIdIs
    <3> QED BY <3>1 DEF RelationshipAttributeIdParts
  <2>9. Len(p) \in Nat /\ Len(p2) \in Nat /\ Len(q) \in Nat /\ Len(q2) \in Nat
    BY <2>2, SpellingIs, Zenon
  <2> HIDE DEF p, p2, q, q2
  <2>10. Len(p) = Len(p2) /\ \A i \in 1 .. Len(p) : p[i] = p2[i]
    <3>1. Len(p) = Len(p2)
      <4>1. ASSUME NEW m \in Nat, NEW n \in Nat, {2, 4, 5 + m} = {2, 4, 5 + n}
            PROVE  m = n
        <5>1. 5 + m \notin {2, 4} /\ 5 + m \in {2, 4, 5 + m}
          OBVIOUS
        <5> QED BY <4>1, <5>1
      <4>2. {2, 4, 5 + Len(p)} = {2, 4, 5 + Len(p2)}
        BY <2>5, <2>6, Zenon
      <4> QED BY <2>9, <4>1, <4>2, Zenon
    <3> QED BY <2>7, <2>8, <3>1
  <2>11. Len(q) = Len(q2) /\ \A i \in 1 .. Len(q) : q[i] = q2[i]
    BY <2>7, <2>8, <2>9, <2>10
  <2>12. e.name = f.name
    BY <2>2, <2>10, SpellingTells DEF p, p2
  <2>13. a.name = b.name
    BY <2>2, <2>11, SpellingTells DEF q, q2
  <2>14. j1 = j2
    BY <1>3, <2>1, <2>12
  <2>15. i1 = i2
    BY <2>1, <2>4, <2>13, <2>14 DEF DistinctNames, a, b
  <2> QED BY <1>2, <2>14, <2>15
<1> QED BY <1>1, <1>4, <1>5, <1>6, <1>7, <1>8 DEF Shape, Kinds


-----------------------------------------------------------------------------
(* Nodes told apart: statement after statement                             *)

LEMMA ApartOne == ASSUME NEW a PROVE Apart(<<>>) /\ Apart(<<a>>)
BY DEF Apart

LEMMA ApartTwo == ASSUME NEW a, NEW b, b.stmt # "node" PROVE Apart(<<a, b>>)
BY DEF Apart

LEMMA ApartEdges ==
    ASSUME NEW t, \A st \in ToSet(t) : st.stmt # "node"
    PROVE  Apart(t)
BY DEF Apart, ToSet

LEMMA ApartJoined ==
    ASSUME NEW s, s \in Seq(ToSet(s)), NEW t, t \in Seq(ToSet(t)), Apart(s), Apart(t),
           \A a \in ToSet(s), b \in ToSet(t) : a.stmt = "node" /\ b.stmt = "node" => a.id # b.id
    PROVE  Apart(s \o t)
<1> DEFINE S == ToSet(s) \cup ToSet(t)
           u == s \o t
<1>0. s \in Seq(S) /\ t \in Seq(S)
  <2>1. ToSet(s) \subseteq S /\ ToSet(t) \subseteq S
    OBVIOUS
  <2> HIDE DEF S
  <2> QED BY <2>1, SeqInLarger
<1> HIDE DEF S
<1>1. /\ Len(u) = Len(s) + Len(t) /\ Len(s) \in Nat /\ Len(t) \in Nat
      /\ DOMAIN u = 1 .. Len(u) /\ DOMAIN s = 1 .. Len(s) /\ DOMAIN t = 1 .. Len(t)
      /\ \A i \in 1 .. Len(s) : u[i] = s[i]
      /\ \A i \in 1 .. Len(t) : u[Len(s) + i] = t[i]
  BY <1>0, ConcatType
<1> HIDE DEF u
<1>2. ASSUME NEW i \in DOMAIN u, i > Len(s)
      PROVE  i - Len(s) \in DOMAIN t /\ u[i] = t[i - Len(s)]
  <2>1. i - Len(s) \in 1 .. Len(t) /\ Len(s) + (i - Len(s)) = i
    BY <1>1, <1>2
  <2> QED BY <1>1, <2>1
<1>3. ASSUME NEW i \in DOMAIN u, i <= Len(s) PROVE i \in DOMAIN s /\ u[i] = s[i]
  BY <1>1, <1>3
<1>4. ASSUME NEW i \in DOMAIN s, NEW j \in DOMAIN t, s[i].stmt = "node", t[j].stmt = "node"
      PROVE  s[i].id # t[j].id
  BY <1>4 DEF ToSet
<1> SUFFICES ASSUME NEW i \in DOMAIN u, NEW j \in DOMAIN u, u[i].stmt = "node",
                    u[j].stmt = "node", u[i].id = u[j].id
             PROVE  i = j
  BY DEF Apart, u
<1>5. i \in Int /\ j \in Int
  BY <1>1
<1>6. CASE i <= Len(s) /\ j <= Len(s)
  BY <1>3, <1>6 DEF Apart
<1>7. CASE i > Len(s) /\ j > Len(s)
  <2>1. i - Len(s) = j - Len(s)
    BY <1>2, <1>7 DEF Apart
  <2> QED BY <1>1, <1>5, <2>1
<1>8. CASE i <= Len(s) /\ j > Len(s)
  BY <1>2, <1>3, <1>4, <1>8
<1>9. CASE i > Len(s) /\ j <= Len(s)
  BY <1>2, <1>3, <1>4, <1>9
<1> QED BY <1>1, <1>5, <1>6, <1>7, <1>8, <1>9

\* A list of pairs of a node and an edge.
PairList(n, pairs, node, edge) ==
    /\ pairs = [i \in 1 .. n |-> pairs[i]]
    /\ \A i \in 1 .. n : pairs[i] = <<node[i], edge[i]>> /\ edge[i].stmt # "node"
    /\ \A i, j \in 1 .. n : node[i].id = node[j].id => i = j

LEMMA ApartPairs ==
    ASSUME NEW n \in Nat, NEW pairs, NEW node, NEW edge, PairList(n, pairs, node, edge)
    PROVE  Apart(FlattenSeq(pairs))
<1> USE DEF PairList
<1> DEFINE S == {node[i] : i \in 1 .. n} \cup {edge[i] : i \in 1 .. n}
           G == {p \in Nat \X Seq(S) :
                    /\ Apart(p[2])
                    /\ \A st \in ToSet(p[2]) : st.stmt = "node" =>
                           \E i \in 1 .. p[1] : i \in 1 .. n /\ st = node[i]}
<1>1. pairs \in Seq(Seq(S)) /\ Len(pairs) = n
  <2>1. \A i \in 1 .. n : node[i] \in S /\ edge[i] \in S
    OBVIOUS
  <2> HIDE DEF S
  <2>2. \A i \in 1 .. n : pairs[i] \in Seq(S)
    <3> TAKE i \in 1 .. n
    <3>1. PICK a, b : a = node[i] /\ b = edge[i]
      OBVIOUS
    <3>2. pairs[i] = <<a, b>> /\ a \in S /\ b \in S
      BY <2>1, <3>1 DEF PairList
    <3>3. <<a, b>> \in Seq(S)
      <4> HIDE DEF PairList
      <4> QED BY <3>2
    <3> QED BY <3>2, <3>3, Zenon
  <2>3. [i \in 1 .. n |-> pairs[i]] \in Seq(Seq(S)) /\ Len([i \in 1 .. n |-> pairs[i]]) = n
    BY <2>2
  <2> QED BY <2>3
<1>2. <<0, <<>> >> \in G
  <2>1. <<>> \in Seq(S) /\ Apart(<<>>) /\ ToSet(<<>>) = {}
    <3>1. <<>> \in Seq(S) /\ DOMAIN <<>> = {}
      OBVIOUS
    <3> QED BY <3>1, ShortToSet DEF Apart
  <2> QED BY <2>1
<1>3. ASSUME NEW m \in Nat, NEW s \in Seq(S), m < Len(pairs), <<m, s>> \in G
      PROVE  <<m + 1, s \o pairs[m + 1]>> \in G
  <2> DEFINE a == node[m + 1]
             b == edge[m + 1]
             t == pairs[m + 1]
  <2>1. m + 1 \in 1 .. n /\ t = <<a, b>> /\ b.stmt # "node"
    BY <1>1, <1>3
  <2>2. /\ Apart(s)
        /\ \A st \in ToSet(s) : st.stmt = "node" => \E i \in 1 .. m : i \in 1 .. n /\ st = node[i]
    BY <1>3
  <2> HIDE DEF t, G
  <2>3. t \in Seq(ToSet(t)) /\ ToSet(t) = {a, b} /\ Apart(t)
    BY <2>1, ShortToSet, ApartTwo
  <2>4. s \in Seq(ToSet(s))
    BY SeqOfElements
  <2>5. ASSUME NEW x \in ToSet(s), NEW y \in ToSet(t), x.stmt = "node", y.stmt = "node"
        PROVE  x.id # y.id
    <3>1. y = node[m + 1]
      BY <2>1, <2>3, <2>5
    <3>2. PICK i \in 1 .. m : i \in 1 .. n /\ x = node[i]
      BY <2>2, <2>5
    <3> QED BY <2>1, <3>1, <3>2
  <2>6. Apart(s \o t) /\ ToSet(s \o t) = ToSet(s) \cup ToSet(t)
    <3>1. ToSet(s \o t) = ToSet(s) \cup ToSet(t)
      BY <2>3, <2>4, Appended, Zenon
    <3>2. \A x \in ToSet(s), y \in ToSet(t) : x.stmt = "node" /\ y.stmt = "node" => x.id # y.id
      BY <2>5
    <3>3. t \in Seq(ToSet(t)) /\ Apart(t)
      BY <2>3, Zenon
    <3> QED BY <2>2, <2>4, <3>1, <3>2, <3>3, ApartJoined, Zenon
  <2>7. s \o t \in Seq(S)
    <3>1. t \in Seq(S)
      BY <1>1, <2>1 DEF t
    <3> QED BY <3>1, ConcatType
  <2>8. ASSUME NEW st \in ToSet(s \o t), st.stmt = "node"
        PROVE  \E i \in 1 .. m + 1 : i \in 1 .. n /\ st = node[i]
    <3>1. CASE st \in ToSet(s)
      BY <2>2, <2>8, <3>1
    <3>2. CASE st \in ToSet(t)
      <4>1. st = node[m + 1]
        BY <2>1, <2>3, <2>8, <3>2
      <4>2. m + 1 \in 1 .. m + 1 /\ m + 1 \in 1 .. n
        BY <2>1
      <4> QED BY <4>1, <4>2
    <3> QED BY <2>6, <2>8, <3>1, <3>2
  <2> DEFINE u == s \o t
  <2>9. /\ m + 1 \in Nat /\ u \in Seq(S) /\ Apart(u)
        /\ \A st \in ToSet(u) : st.stmt = "node" =>
               \E i \in 1 .. m + 1 : i \in 1 .. n /\ st = node[i]
    BY <2>6, <2>7, <2>8
  <2> HIDE DEF u
  <2>10. <<m + 1, u>> \in G
    BY <2>9 DEF G
  <2> QED BY <2>10 DEF t, u
<1> HIDE DEF G, S
<1>4. FlattenSeq(pairs) \in Seq(S) /\ <<n, FlattenSeq(pairs)>> \in G
  BY <1>1, <1>2, <1>3, FlattenInduction
<1> QED BY <1>4 DEF G


\* The statements of an entity, and those of a relationship.
LEMMA EntityApart ==
    ASSUME Separable, schema \in Schemas, NamesUnique(schema), NEW j \in DOMAIN schema.entities
    PROVE  LET e == schema.entities[j]
           IN  Apart(<<EntityNode(e)>> \o AttributeStatements(e))
<1> DEFINE e == schema.entities[j]
           list == e.attributes
           pairs == [i \in DOMAIN list |-> writeAttributeNode(e, list[i])]
           node == [i \in DOMAIN list |-> writeAttributeNode(e, list[i])[1]]
           edge == [i \in DOMAIN list |-> writeAttributeNode(e, list[i])[2]]
<1>0. list \in Seq(Attribute)
  BY EntityLists
<1>1. Len(list) \in Nat /\ DOMAIN list = 1 .. Len(list)
  BY <1>0
<1>2. \A i \in DOMAIN list : MadeOf("attribute", j, i, node[i].id)
  BY AttributeNodeIs DEF MadeOf
<1>3. MadeOf("entity", j, 0, EntityNode(e).id)
  BY EntityNodeIs DEF MadeOf, entityId
<1>4. ASSUME NEW i \in DOMAIN list, NEW k \in DOMAIN list, node[i].id = node[k].id PROVE i = k
  <2> HIDE DEF node, list
  <2>1. MadeOf("attribute", j, i, node[i].id) /\ MadeOf("attribute", j, k, node[i].id)
    BY <1>2, <1>4
  <2> QED BY <2>1, Separated, Zenon
<1>5. \A i \in DOMAIN list : node[i].id # EntityNode(e).id
  <2>1. "attribute" # "entity"
    OBVIOUS
  <2> QED BY <1>2, <1>3, <2>1, Separated, Zenon
<1>6. \A i \in DOMAIN list : pairs[i] = <<node[i], edge[i]>> /\ edge[i].stmt # "node"
  BY DEF writeAttributeNode, EdgeStatement
<1>7. AttributeStatements(e) = FlattenSeq(pairs)
  BY DEF AttributeStatements
<1>8. pairs = [i \in 1 .. Len(list) |-> pairs[i]]
  BY <1>1
<1>9. /\ AttributeStatements(e) \in Seq(ToSet(AttributeStatements(e)))
      /\ ToSet(AttributeStatements(e)) =
            UNION {ToSet(writeAttributeNode(e, list[i])) : i \in DOMAIN list}
  BY <1>0, AttributesInto
<1>10. \A i \in DOMAIN list : ToSet(writeAttributeNode(e, list[i])) = {node[i], edge[i]}
  <2> TAKE i \in DOMAIN list
  <2>1. pairs[i] = <<node[i], edge[i]>> /\ pairs[i] = writeAttributeNode(e, list[i])
    BY <1>6
  <2> HIDE DEF pairs, node, edge, list, e
  <2>2. ToSet(<<node[i], edge[i]>>) = {node[i], edge[i]}
    BY ShortToSet
  <2> QED BY <2>1, <2>2
<1> HIDE DEF e, list, pairs, node, edge
<1>11. Apart(AttributeStatements(e))
  <2>1. \A i \in 1 .. Len(list) : pairs[i] = <<node[i], edge[i]>> /\ edge[i].stmt # "node"
    BY <1>1, <1>6
  <2>2. \A i, k \in 1 .. Len(list) : node[i].id = node[k].id => i = k
    BY <1>1, <1>4
  <2>3. PairList(Len(list), pairs, node, edge)
    BY <1>8, <2>1, <2>2 DEF PairList
  <2> QED BY <1>1, <1>7, <2>3, ApartPairs
<1>12. /\ <<EntityNode(e)>> \in Seq(ToSet(<<EntityNode(e)>>))
       /\ ToSet(<<EntityNode(e)>>) = {EntityNode(e)} /\ Apart(<<EntityNode(e)>>)
  BY ShortToSet, ApartOne, Zenon
<1>13. ASSUME NEW st \in ToSet(AttributeStatements(e)), st.stmt = "node"
       PROVE  st.id # EntityNode(e).id
  <2>1. PICK i \in DOMAIN list : st \in {node[i], edge[i]}
    BY <1>9, <1>10
  <2> QED BY <1>5, <1>6, <1>13, <2>1
<1>14. Apart(<<EntityNode(e)>> \o AttributeStatements(e))
  BY <1>9, <1>11, <1>12, <1>13, ApartJoined
<1> QED BY <1>14 DEF e

LEMMA RelationshipApart ==
    ASSUME Separable, schema \in Schemas, NamesUnique(schema),
           NEW j \in DOMAIN schema.relationships
    PROVE  Apart(RelationshipStatements(schema.relationships[j]))
<1> DEFINE r == schema.relationships[j]
           list == r.attributes
           ps == r.participants
           pairs == [i \in DOMAIN list |-> writeRelationshipAttributeNode(r, list[i])]
           node == [i \in DOMAIN list |-> writeRelationshipAttributeNode(r, list[i])[1]]
           edge == [i \in DOMAIN list |-> writeRelationshipAttributeNode(r, list[i])[2]]
           attributes == RelationshipAttributeStatements(r)
           edges == [i \in DOMAIN ps |-> ParticipantEdge(r, i)]
           diamond == RelationshipNode(r)
<1>0. list \in Seq(Attribute) /\ ps \in Seq(Participant)
  BY RelationshipLists
<1>1. Len(list) \in Nat /\ DOMAIN list = 1 .. Len(list)
  BY <1>0
<1>2. \A i \in DOMAIN list : MadeOf("relationshipAttribute", j, i, node[i].id)
  BY RelationshipAttributeNodeIs DEF MadeOf
<1>3. MadeOf("relationship", j, 0, diamond.id)
  BY RelationshipNodeIs DEF MadeOf
<1>4. ASSUME NEW i \in DOMAIN list, NEW k \in DOMAIN list, node[i].id = node[k].id PROVE i = k
  <2> HIDE DEF node, list
  <2>1. MadeOf("relationshipAttribute", j, i, node[i].id) /\ MadeOf("relationshipAttribute", j, k, node[i].id)
    BY <1>2, <1>4
  <2> QED BY <2>1, Separated, Zenon
<1>5. \A i \in DOMAIN list : node[i].id # diamond.id
  <2>1. "relationshipAttribute" # "relationship"
    OBVIOUS
  <2> QED BY <1>2, <1>3, <2>1, Separated, Zenon
<1>6. \A i \in DOMAIN list : pairs[i] = <<node[i], edge[i]>> /\ edge[i].stmt # "node"
  BY DEF writeRelationshipAttributeNode, EdgeStatement
<1>7. attributes = FlattenSeq(pairs)
  BY DEF RelationshipAttributeStatements
<1>8. pairs = [i \in 1 .. Len(list) |-> pairs[i]]
  BY <1>1
<1>9. /\ attributes \in Seq(ToSet(attributes))
      /\ ToSet(attributes) =
            UNION {ToSet(writeRelationshipAttributeNode(r, list[i])) : i \in DOMAIN list}
  BY <1>0, RelationshipAttributesInto
<1>10. \A i \in DOMAIN list : ToSet(writeRelationshipAttributeNode(r, list[i])) = {node[i], edge[i]}
  BY ShortToSet DEF writeRelationshipAttributeNode
<1>15. RelationshipStatements(r) = <<diamond>> \o attributes \o edges
  BY DEF RelationshipStatements, RelationshipNode, RelationshipAttributeStatements, ParticipantEdge
<1>16. edges \in Seq(ToSet(edges)) /\ \A st \in ToSet(edges) : st.stmt # "node"
  <2>1. /\ Len(ps) \in Nat /\ edges = [i \in 1 .. Len(ps) |-> ParticipantEdge(r, i)]
    BY <1>0
  <2>2. \A i \in 1 .. Len(ps) : edges[i] = ParticipantEdge(r, i) /\ edges[i] \in ToSet(edges)
    BY <2>1 DEF ToSet
  <2>3. \A st \in ToSet(edges) : st.stmt # "node"
    <3> TAKE st \in ToSet(edges)
    <3>1. PICK i \in DOMAIN edges : st = edges[i]
      BY DEF ToSet
    <3>2. st = ParticipantEdge(r, i)
      BY <2>1, <2>2, <3>1
    <3>3. ParticipantEdge(r, i).stmt = "edge"
      BY ParticipantEdgeIs, Zenon
    <3> QED BY <3>2, <3>3
  <2>4. edges \in Seq(ToSet(edges))
    <3> DEFINE T == ToSet(edges)
    <3> HIDE DEF T
    <3>1. \A i \in 1 .. Len(ps) : ParticipantEdge(r, i) \in T
      BY <2>2 DEF T
    <3>2. edges \in Seq(T)
      BY <2>1, <3>1
    <3> QED BY <3>2 DEF T
  <2> QED BY <2>3, <2>4
<1> HIDE DEF r, list, ps, pairs, node, edge, attributes, edges, diamond
<1>11. Apart(attributes)
  <2>1. \A i \in 1 .. Len(list) : pairs[i] = <<node[i], edge[i]>> /\ edge[i].stmt # "node"
    BY <1>1, <1>6
  <2>2. \A i, k \in 1 .. Len(list) : node[i].id = node[k].id => i = k
    BY <1>1, <1>4
  <2>3. PairList(Len(list), pairs, node, edge)
    BY <1>8, <2>1, <2>2 DEF PairList
  <2> QED BY <1>1, <1>7, <2>3, ApartPairs
<1>12. /\ <<diamond>> \in Seq(ToSet(<<diamond>>))
       /\ ToSet(<<diamond>>) = {diamond} /\ Apart(<<diamond>>)
  BY ShortToSet, ApartOne, Zenon
<1>13. ASSUME NEW st \in ToSet(attributes), st.stmt = "node"
       PROVE  st.id # diamond.id
  <2>1. PICK i \in DOMAIN list : st \in {node[i], edge[i]}
    BY <1>9, <1>10
  <2> QED BY <1>5, <1>6, <1>13, <2>1
<1> DEFINE front == <<diamond>> \o attributes
<1>14. Apart(front) /\ front \in Seq(ToSet(front))
  <2>1. attributes \in Seq(ToSet(attributes))
    BY <1>9
  <2>2. \A a \in ToSet(<<diamond>>), b \in ToSet(attributes) :
            a.stmt = "node" /\ b.stmt = "node" => a.id # b.id
    BY <1>12, <1>13
  <2>3. Apart(front)
    BY <1>11, <1>12, <2>1, <2>2, ApartJoined
  <2>4. front \in Seq(ToSet(front))
    BY <1>12, <2>1, Appended
  <2> QED BY <2>3, <2>4
<1> HIDE DEF front
<1>17. Apart(front \o edges)
  BY <1>14, <1>16, ApartEdges, ApartJoined
<1> QED BY <1>15, <1>17 DEF r, front


\* What a node of the file was made of has been drawn.
IsDrawn(kind, j, i) ==
    \/ kind \in {"entity", "attribute"} /\ EntityDrawn(j)
    \/ kind = "assertion" /\ AssertionDrawn(j, i)
    \/ kind \in {"relationship", "relationshipAttribute"} /\ RelationshipDrawn(j)

LEMMA EntityMadeOf ==
    ASSUME NEW j \in DOMAIN schema.entities, NEW st \in OfEntity(schema.entities[j]),
           st.stmt = "node"
    PROVE  \E kind \in {"entity", "attribute"} : \E i : MadeOf(kind, j, i, st.id)
<1>1. CASE st = EntityNode(schema.entities[j])
  <2>1. MadeOf("entity", j, 0, st.id)
    BY <1>1, EntityNodeIs DEF MadeOf, entityId
  <2> QED BY <2>1
<1>2. ASSUME NEW i \in DOMAIN schema.entities[j].attributes,
             st = writeAttributeNode(schema.entities[j], schema.entities[j].attributes[i])[1]
      PROVE  MadeOf("attribute", j, i, st.id)
  BY <1>2, AttributeNodeIs DEF MadeOf
<1> QED BY <1>1, <1>2, NodesOfEntity

LEMMA RelationshipMadeOf ==
    ASSUME NEW j \in DOMAIN schema.relationships,
           NEW st \in OfRelationship(schema.relationships[j]), st.stmt = "node"
    PROVE  \E kind \in {"relationship", "relationshipAttribute"} : \E i : MadeOf(kind, j, i, st.id)
<1>1. CASE st = RelationshipNode(schema.relationships[j])
  <2>1. MadeOf("relationship", j, 0, st.id)
    BY <1>1, RelationshipNodeIs DEF MadeOf
  <2> QED BY <2>1
<1>2. ASSUME NEW i \in DOMAIN schema.relationships[j].attributes,
             st = writeRelationshipAttributeNode(schema.relationships[j],
                      schema.relationships[j].attributes[i])[1]
      PROVE  MadeOf("relationshipAttribute", j, i, st.id)
  BY <1>2, RelationshipAttributeNodeIs DEF MadeOf
<1> QED BY <1>1, <1>2, NodesOfRelationship

LEMMA NodesMadeOf ==
    ASSUME DotIs, Begun, NEW st \in ToSet(dot), st.stmt = "node"
    PROVE  \E kind, j, i : MadeOf(kind, j, i, st.id) /\ IsDrawn(kind, j, i)
<1>1. Source(st)
  BY DEF DotIs
<1>2. \A j \in DOMAIN schema.entities : st \notin ToSet(InheritanceStatement(schema.entities[j]))
  BY PartsOfInheritance DEF EdgeStatement
<1>3. \A e, k : st # AssertionEdge(e, k)
  BY AssertionNodeIs
<1>4. ASSUME NEW j \in DOMAIN schema.entities, EntityDrawn(j), st \in OfEntity(schema.entities[j])
      PROVE  \E kind, i : MadeOf(kind, j, i, st.id) /\ IsDrawn(kind, j, i)
  BY <1>4, EntityMadeOf DEF IsDrawn
<1>5. ASSUME NEW j \in DOMAIN schema.relationships, RelationshipDrawn(j),
             st \in OfRelationship(schema.relationships[j])
      PROVE  \E kind, i : MadeOf(kind, j, i, st.id) /\ IsDrawn(kind, j, i)
  BY <1>5, RelationshipMadeOf DEF IsDrawn
<1>6. ASSUME NEW j \in DOMAIN schema.entities, NEW k \in DOMAIN schema.entities[j].assertions,
             AssertionDrawn(j, k), AssertionNode(schema.entities[j], k, st)
      PROVE  MadeOf("assertion", j, k, st.id) /\ IsDrawn("assertion", j, k)
  BY <1>6, AssertionNodeIs DEF MadeOf, IsDrawn
<1> QED BY <1>1, <1>2, <1>3, <1>4, <1>5, <1>6 DEF Source

LEMMA ApartGrows ==
    ASSUME DotIs, Begun, ToldApart, schema \in Schemas, NamesUnique(schema), schema' = schema,
           NEW t, t \in Seq(ToSet(t)), Separable => Apart(t), dot' = dot \o t,
           \A st \in ToSet(t) : st.stmt = "node" =>
               \E kind, j, i : MadeOf(kind, j, i, st.id) /\ ~IsDrawn(kind, j, i)
    PROVE  ToldApart'
<1> SUFFICES ASSUME Separable PROVE Apart(dot \o t)
  BY DEF ToldApart, Separable, Apart
<1>1. dot \in Seq(ToSet(dot)) /\ Apart(dot)
  BY DEF DotIs, ToldApart
<1>2. ASSUME NEW x \in ToSet(dot), NEW y \in ToSet(t), x.stmt = "node", y.stmt = "node",
             x.id = y.id
      PROVE  FALSE
  <2>1. PICK kind, j, i : MadeOf(kind, j, i, x.id) /\ IsDrawn(kind, j, i)
    BY <1>2, NodesMadeOf
  <2>2. PICK k2, j2, i2 : MadeOf(k2, j2, i2, y.id) /\ ~IsDrawn(k2, j2, i2)
    BY <1>2
  <2>3. kind = k2 /\ j = j2 /\ i = i2
    BY <1>2, <2>1, <2>2, Separated
  <2> QED BY <2>1, <2>2, <2>3
<1> QED BY <1>1, <1>2, ApartJoined

LEMMA GeneratorKeepsApart ==
    ASSUME DotIs, Position, ToldApart, schema \in Schemas, SchemaSound(schema), GeneratorNext
    PROVE  ToldApart'
<1>0. schema' = schema /\ NamesUnique(schema)
  BY GeneratorSteps DEF SchemaSound
<1>a. ASSUME Begun, dot' = dot PROVE ToldApart'
  BY <1>0, <1>a DEF ToldApart, Separable, Apart
<1>1. CASE generateGraphviz
  <2>1. CASE drawing' = "failed"
    BY <2>1 DEF ToldApart, Begun
  <2>2. CASE dot' = <<>>
    BY <2>2 DEF ToldApart, Apart
  <2> QED BY <1>1, <2>1, <2>2 DEF generateGraphviz
<1>2. CASE writeEntity
  <2> DEFINE e == schema.entities[at]
             t == <<EntityNode(e)>> \o AttributeStatements(e)
  <2>1. /\ Begun /\ drawing = "entities" /\ at \in DOMAIN schema.entities
        /\ dot' = dot \o <<EntityNode(e)>> \o AttributeStatements(e)
    BY <1>2 DEF writeEntity, Begun, Here, AttributeStatements
  <2>2. /\ AttributeStatements(e) \in Seq(ToSet(AttributeStatements(e)))
        /\ ToSet(AttributeStatements(e)) =
              UNION {ToSet(writeAttributeNode(e, e.attributes[i])) : i \in DOMAIN e.attributes}
    <3>1. e.attributes \in Seq(Attribute)
      BY <2>1, EntityLists
    <3> HIDE DEF e
    <3> QED BY <3>1, AttributesInto
  <2>3. /\ <<EntityNode(e)>> \in Seq(ToSet(<<EntityNode(e)>>))
        /\ ToSet(<<EntityNode(e)>>) = {EntityNode(e)}
    BY ShortToSet
  <2>4. t \in Seq(ToSet(t)) /\ ToSet(t) = OfEntity(e)
    BY <2>2, <2>3, Appended DEF OfEntity
  <2>5. dot' = dot \o t
    <3>1. dot \in Seq(ToSet(dot))
      BY <2>1 DEF DotIs
    <3> QED BY <2>1, <2>2, <2>3, <3>1
  <2>6. Separable => Apart(t)
    BY <1>0, <2>1, EntityApart
  <2> HIDE DEF t
  <2>7. ASSUME NEW st \in ToSet(t), st.stmt = "node"
        PROVE  \E kind, j, i : MadeOf(kind, j, i, st.id) /\ ~IsDrawn(kind, j, i)
    <3>1. PICK j \in DOMAIN schema.entities : j = at
      BY <2>1
    <3>0. PICK kind \in {"entity", "attribute"} : \E i : MadeOf(kind, j, i, st.id)
      BY <2>4, <2>7, <3>1, EntityMadeOf
    <3>2. PICK i : MadeOf(kind, j, i, st.id)
      BY <3>0
    <3>3. at \in Nat
      <4>1. schema.entities \in Seq(Entity)
        BY SchemaLists
      <4>2. DOMAIN schema.entities \subseteq Nat
        BY <4>1
      <4> QED BY <2>1, <4>2
    <3>4. ~EntityDrawn(j)
      BY <2>1, <3>1, <3>3 DEF EntityDrawn
    <3> QED BY <3>2, <3>4 DEF IsDrawn
  <2> QED BY <1>0, <2>1, <2>4, <2>5, <2>6, <2>7, ApartGrows
<1>3. CASE noEntities
  BY <1>a, <1>3 DEF noEntities, Begun
<1>4. CASE expressionToString
  BY <1>a, <1>4 DEF expressionToString, Begun
<1>5. CASE callBuilder
  BY <1>a, <1>5 DEF callBuilder, Begun
<1>6. CASE writeAssertion
  <2> DEFINE e == schema.entities[at]
             node == NodeStatement(assertionId(e, assertion), sb_tostring, {"note"})
             edge == EdgeStatement(entityId(e), assertionId(e, assertion), {})
             t == <<node, edge>>
  <2>1. /\ Begun /\ drawing = "label" /\ dot' = dot \o t
        /\ at \in DOMAIN schema.entities /\ assertion \in DOMAIN e.assertions
    BY <1>6 DEF writeAssertion, Begun, Here, Position
  <2>2. node.id = assertionId(e, assertion) /\ edge.stmt = "edge"
    BY DEF NodeStatement, EdgeStatement
  <2> HIDE DEF node, edge
  <2>3. t \in Seq(ToSet(t)) /\ ToSet(t) = {node, edge} /\ Apart(t)
    BY <2>2, ShortToSet, ApartTwo
  <2> HIDE DEF t
  <2>4. MadeOf("assertion", at, assertion, node.id)
    BY <2>1, <2>2 DEF MadeOf
  <2>5. at \in Nat /\ assertion \in Nat
    <3>0. schema \in Schemas
      OBVIOUS
    <3>1. schema.entities \in Seq(Entity)
      BY <3>0, SchemaLists
    <3>2. at \in 1 .. Len(schema.entities) /\ Len(schema.entities) \in Nat
      BY <2>1, <3>1
    <3>3. e.assertions \in Seq(Expression)
      BY <2>1, <3>0, EntityLists
    <3> HIDE DEF e
    <3>4. assertion \in 1 .. Len(e.assertions) /\ Len(e.assertions) \in Nat
      BY <2>1, <3>3
    <3> QED BY <3>2, <3>4
  <2>6. ~AssertionDrawn(at, assertion)
    BY <2>1, <2>5 DEF AssertionDrawn
  <2>7. ~IsDrawn("assertion", at, assertion)
    BY <2>6 DEF IsDrawn
  <2>8. ASSUME NEW st \in ToSet(t), st.stmt = "node"
        PROVE  \E kind, j, i : MadeOf(kind, j, i, st.id) /\ ~IsDrawn(kind, j, i)
    <3>1. st = node
      BY <2>2, <2>3, <2>8
    <3> QED BY <2>4, <2>7, <3>1
  <2> QED BY <1>0, <2>1, <2>3, <2>8, ApartGrows
<1>7. CASE writeRelationship
  <2> DEFINE r == schema.relationships[at]
             t == RelationshipStatements(r)
  <2>1. /\ Begun /\ drawing = "relationships" /\ at \in DOMAIN schema.relationships
        /\ dot' = dot \o t
    BY <1>7 DEF writeRelationship, Begun
  <2>2. t \in Seq(ToSet(t)) /\ ToSet(t) = OfRelationship(r)
    <3>1. r.attributes \in Seq(Attribute) /\ r.participants \in Seq(Participant)
      BY <2>1, RelationshipLists
    <3> HIDE DEF r
    <3> QED BY <3>1, RelationshipStatementsAre
  <2>3. Separable => Apart(t)
    BY <1>0, <2>1, RelationshipApart
  <2> HIDE DEF t
  <2>4. ASSUME NEW st \in ToSet(t), st.stmt = "node"
        PROVE  \E kind, j, i : MadeOf(kind, j, i, st.id) /\ ~IsDrawn(kind, j, i)
    <3>1. PICK j \in DOMAIN schema.relationships : j = at
      BY <2>1
    <3>0. PICK kind \in {"relationship", "relationshipAttribute"} : \E i : MadeOf(kind, j, i, st.id)
      BY <2>2, <2>4, <3>1, RelationshipMadeOf
    <3>2. PICK i : MadeOf(kind, j, i, st.id)
      BY <3>0
    <3>3. at \in Nat
      <4>1. schema.relationships \in Seq(Relationship)
        BY SchemaLists
      <4>2. DOMAIN schema.relationships \subseteq Nat
        BY <4>1
      <4> QED BY <2>1, <4>2
    <3>4. ~RelationshipDrawn(j)
      BY <2>1, <3>1, <3>3 DEF RelationshipDrawn
    <3> QED BY <3>2, <3>4 DEF IsDrawn
  <2> QED BY <1>0, <2>1, <2>2, <2>3, <2>4, ApartGrows
<1>8. CASE closeFile
  <2>1. Begun /\ dot' = dot \o InheritanceStatements
    BY <1>8 DEF closeFile, Begun
  <2>2. /\ InheritanceStatements \in Seq(ToSet(InheritanceStatements))
        /\ ToSet(InheritanceStatements) =
              UNION {ToSet(InheritanceStatement(schema.entities[i])) : i \in DOMAIN schema.entities}
    BY SchemaLists, InheritanceStatementsAre
  <2>3. \A st \in ToSet(InheritanceStatements) : st.stmt # "node"
    BY <2>2, PartsOfInheritance DEF EdgeStatement
  <2> QED BY <1>0, <2>1, <2>2, <2>3, ApartEdges, ApartGrows
<1> QED BY <1>1, <1>2, <1>3, <1>4, <1>5, <1>6, <1>7, <1>8 DEF GeneratorNext

\* With the nodes told apart, the invariant is inductive still.
ApartInv == DiagramInv /\ ToldApart

LEMMA ApartStarts == Init => ApartInv
<1>1. Init => ToldApart
  BY DEF Init, GeneratorInit, Begun, ToldApart
<1> QED BY <1>1, DiagramStarts DEF ApartInv

LEMMA ApartKeeps == ApartInv /\ [Next]_vars => ApartInv'
<1> SUFFICES ASSUME ApartInv, [Next]_vars PROVE ToldApart'
  BY DiagramKeeps DEF ApartInv
<1> USE DEF ApartInv, DiagramInv
<1>1. CASE GeneratorNext /\ schema \in Schemas /\ SchemaSound(schema)
  BY <1>1, GeneratorKeepsApart DEF PlaceInv
<1>2. CASE UNCHANGED <<drawing, at, assertion, calls, dot, builder>> /\ UNCHANGED schema
  BY <1>2 DEF ToldApart, Begun, Separable, Apart
<1>3. CASE UNCHANGED <<drawing, at, assertion, calls, dot, builder>> /\ drawing = "idle"
  BY <1>3 DEF ToldApart, Begun
<1> QED BY <1>1, <1>2, <1>3, OnlyDrawDraws

-----------------------------------------------------------------------------
(* Theorems                                                                *)

\* Every edge of a diagram joins two of its nodes, in the diagram of any accepted
\* schema (GraphvizGenerator.c:297, 351).
THEOREM DiagramEdgesMeet == Spec => []EdgesMeetNodes
BY DiagramStarts, DiagramKeeps, EdgesMeet, PTL DEF Spec

\* The attributes underlined in a diagram are those of the key the validator has
\* accepted, also where names coincide (GraphvizGenerator.c:110, EntityPKRules.c:82).
THEOREM DiagramShowsKeys == Spec => []KeysUnderlined
BY DiagramStarts, DiagramKeeps, KeysShown, PTL DEF Spec

\* A relationship has a double border exactly when a weak entity takes part in it
\* (GraphvizGenerator.c:255, RelationshipParticipantRules.c:108).
THEOREM DiagramShowsIdentifying == Spec => []IdentifyingIffWeak
BY DiagramStarts, DiagramKeeps, IdentifyingShown, PTL DEF Spec

\* Each entity, attribute, assertion and relationship has a node of its own, if no
\* name has an underscore (GraphvizGenerator.c:157, 201, 239, 271).
THEOREM DiagramTellsApart == Spec => []NodesToldApart
<1>1. ApartInv => NodesToldApart
  BY DEF ApartInv, ToldApart, Begun, NodesToldApart, Apart, NodeStmt
<1> QED BY ApartStarts, ApartKeeps, <1>1, PTL DEF Spec

-----------------------------------------------------------------------------
(* What is counted                                                         *)

\* How often c is among the first n.
CountTo(s, n, c) == Cardinality({i \in 1 .. n : s[i] = c})

LEMMA CountStep ==
    ASSUME NEW s, NEW c
    PROVE  /\ CountTo(s, 0, c) = 0
           /\ \A n \in Nat : /\ CountTo(s, n, c) \in Nat
                             /\ CountTo(s, n + 1, c) =
                                    CountTo(s, n, c) + (IF s[n + 1] = c THEN 1 ELSE 0)
<1> DEFINE In(n) == {i \in 1 .. n : s[i] = c}
<1>1. \A n \in Nat : IsFiniteSet(In(n)) /\ Cardinality(In(n)) \in Nat
  <2> TAKE n \in Nat
  <2>1. IsFiniteSet(1 .. n) /\ In(n) \subseteq 1 .. n
    BY FS_Interval
  <2> HIDE DEF In
  <2>2. IsFiniteSet(In(n))
    BY <2>1, FS_Subset
  <2> QED BY <2>2, FS_CardinalityType
<1>2. In(0) = {}
  OBVIOUS
<1>3. \A n \in Nat : In(n + 1) = IF s[n + 1] = c THEN In(n) \cup {n + 1} ELSE In(n)
  <2> TAKE n \in Nat
  <2>1. \A i : i \in 1 .. n + 1 <=> i \in 1 .. n \/ i = n + 1
    OBVIOUS
  <2> QED BY <2>1
<1>4. \A n \in Nat : n + 1 \notin In(n)
  OBVIOUS
<1> HIDE DEF In
<1>5. \A n \in Nat : Cardinality(In(n + 1)) =
                         Cardinality(In(n)) + (IF s[n + 1] = c THEN 1 ELSE 0)
  <2> TAKE n \in Nat
  <2>1. Cardinality(In(n) \cup {n + 1}) = Cardinality(In(n)) + 1
    BY <1>1, <1>4, FS_AddElement
  <2>2. Cardinality(In(n)) \in Nat
    BY <1>1
  <2>3. In(n + 1) = IF s[n + 1] = c THEN In(n) \cup {n + 1} ELSE In(n)
    BY <1>3
  <2> QED BY <2>1, <2>2, <2>3
<1>6. Cardinality(In(0)) = 0
  BY <1>2, FS_EmptySet
<1> QED BY <1>1, <1>5, <1>6 DEF CountTo, In

LEMMA CountIs ==
    ASSUME NEW S, NEW s \in Seq(S), NEW c
    PROVE  Count(s, c) = CountTo(s, Len(s), c)
<1>1. DOMAIN s = 1 .. Len(s)
  OBVIOUS
<1> QED BY <1>1 DEF Count, CountTo

\* It depends on those elements alone.
LEMMA CountSame ==
    ASSUME NEW s, NEW t, NEW n \in Nat, \A i \in 1 .. n : s[i] = t[i], NEW c
    PROVE  CountTo(s, n, c) = CountTo(t, n, c)
<1>1. {i \in 1 .. n : s[i] = c} = {i \in 1 .. n : t[i] = c}
  OBVIOUS
<1> QED BY <1>1 DEF CountTo

LEMMA CountNone ==
    ASSUME NEW s, NEW n \in Nat, NEW c, \A i \in 1 .. n : s[i] # c
    PROVE  CountTo(s, n, c) = 0
<1>1. {i \in 1 .. n : s[i] = c} = {}
  OBVIOUS
<1> QED BY <1>1, FS_EmptySet DEF CountTo

LEMMA CountPrefix ==
    ASSUME NEW S, NEW s \in Seq(S), NEW n \in 1 .. Len(s), NEW c
    PROVE  Count(SubSeq(s, 1, n), c) = CountTo(s, n, c)
<1>0. PICK u : u = SubSeq(s, 1, n)
  OBVIOUS
<1>1. u \in Seq(S) /\ Len(u) = n /\ n \in Nat /\ \A i \in 1 .. n : u[i] = s[i]
  BY <1>0
<1>2. Count(u, c) = CountTo(u, n, c)
  BY <1>1, CountIs
<1>3. CountTo(u, n, c) = CountTo(s, n, c)
  BY <1>1, CountSame
<1> QED BY <1>0, <1>2, <1>3

\* Counting on in u after s, as in t.
CountsOn(u, s, t, c) ==
    /\ \A n \in 0 .. Len(s) : CountTo(u, n, c) = CountTo(s, n, c)
    /\ \A n \in 0 .. Len(t) :
          CountTo(u, Len(s) + n, c) = CountTo(s, Len(s), c) + CountTo(t, n, c)

LEMMA CountJoined ==
    ASSUME NEW S, NEW s \in Seq(S), NEW t \in Seq(S), NEW c
    PROVE  CountsOn(s \o t, s, t, c)
<1>0. PICK u : u = s \o t
  OBVIOUS
<1>1. /\ Len(s) \in Nat /\ Len(t) \in Nat
      /\ \A i \in 1 .. Len(s) : u[i] = s[i]
      /\ \A i \in 1 .. Len(t) : u[Len(s) + i] = t[i]
  BY <1>0, ConcatType
<1>2. \A n \in 0 .. Len(s) : CountTo(u, n, c) = CountTo(s, n, c)
  <2> TAKE n \in 0 .. Len(s)
  <2>1. n \in Nat /\ \A i \in 1 .. n : u[i] = s[i]
    BY <1>1
  <2> QED BY <2>1, CountSame
<1> DEFINE G == {n \in Nat : n <= Len(t) =>
                    CountTo(u, Len(s) + n, c) = CountTo(s, Len(s), c) + CountTo(t, n, c)}
<1>3. 0 \in G
  <2>1. CountTo(u, Len(s) + 0, c) = CountTo(s, Len(s), c)
    BY <1>1, <1>2
  <2>2. CountTo(t, 0, c) = 0 /\ CountTo(s, Len(s), c) \in Nat
    BY <1>1, CountStep
  <2> QED BY <2>1, <2>2
<1>4. ASSUME NEW n \in Nat, n \in G PROVE n + 1 \in G
  <2>1. CASE ~(n + 1 <= Len(t))
    BY <2>1
  <2>2. CASE n + 1 <= Len(t)
    <3>1. CountTo(u, Len(s) + n, c) = CountTo(s, Len(s), c) + CountTo(t, n, c)
      BY <1>1, <1>4, <2>2
    <3>a. Len(s) \in Nat
      BY <1>1
    <3>2. PICK k \in Nat : k = Len(s) + n
      BY <3>a
    <3>3. k + 1 = Len(s) + (n + 1)
      BY <3>a, <3>2
    <3>4. u[k + 1] = t[n + 1]
      BY <1>1, <2>2, <3>3
    <3>5. CountTo(u, k + 1, c) = CountTo(u, k, c) + (IF t[n + 1] = c THEN 1 ELSE 0)
      <4>1. \A m \in Nat : CountTo(u, m + 1, c) = CountTo(u, m, c) + (IF u[m + 1] = c THEN 1 ELSE 0)
        BY CountStep
      <4> QED BY <3>4, <4>1
    <3>6. /\ CountTo(t, n + 1, c) = CountTo(t, n, c) + (IF t[n + 1] = c THEN 1 ELSE 0)
          /\ CountTo(t, n, c) \in Nat /\ CountTo(s, Len(s), c) \in Nat
      BY <1>1, CountStep
    <3>7. CountTo(u, k + 1, c) = CountTo(s, Len(s), c) + CountTo(t, n + 1, c)
      BY <3>1, <3>2, <3>5, <3>6
    <3> QED BY <3>3, <3>7
  <2> QED BY <2>1, <2>2
<1>5. \A n \in Nat : n \in G
  <2> HIDE DEF G
  <2> QED BY <1>3, <1>4, NumberInduction
<1>6. \A n \in 0 .. Len(t) :
          CountTo(u, Len(s) + n, c) = CountTo(s, Len(s), c) + CountTo(t, n, c)
  BY <1>1, <1>5
<1> QED BY <1>0, <1>2, <1>6 DEF CountsOn

LEMMA CountConcat ==
    ASSUME NEW S, NEW s \in Seq(S), NEW t \in Seq(S), NEW c
    PROVE  /\ Count(s \o t, c) = Count(s, c) + Count(t, c)
           /\ Count(s, c) \in Nat
<1>1. s \o t \in Seq(S) /\ Len(s \o t) = Len(s) + Len(t) /\ Len(s) \in Nat /\ Len(t) \in Nat
  BY ConcatType
<1>2. Count(s \o t, c) = CountTo(s \o t, Len(s) + Len(t), c)
  BY <1>1, CountIs
<1>3. CountTo(s \o t, Len(s) + Len(t), c) = CountTo(s, Len(s), c) + CountTo(t, Len(t), c)
  <2>1. CountsOn(s \o t, s, t, c)
    BY CountJoined
  <2>2. Len(t) \in 0 .. Len(t)
    BY <1>1
  <2> QED BY <2>1, <2>2 DEF CountsOn
<1>4. CountTo(s, Len(s), c) \in Nat
  BY <1>1, CountStep
<1> QED BY <1>2, <1>3, <1>4, CountIs

LEMMA CountOne ==
    ASSUME NEW d, NEW c
    PROVE  Count(<<d>>, c) = IF d = c THEN 1 ELSE 0
<1>1. <<d>> \in Seq({d}) /\ Len(<<d>>) = 0 + 1 /\ <<d>>[0 + 1] = d
  OBVIOUS
<1>2. Count(<<d>>, c) = CountTo(<<d>>, 0 + 1, c)
  BY <1>1, CountIs
<1>3. CountTo(<<d>>, 0 + 1, c) = CountTo(<<d>>, 0, c) + (IF <<d>>[0 + 1] = c THEN 1 ELSE 0)
  BY CountStep
<1>4. CountTo(<<d>>, 0, c) = 0
  BY CountStep
<1> QED BY <1>1, <1>2, <1>3, <1>4


-----------------------------------------------------------------------------
(* Brackets                                                                *)

\* No more is closed than was opened, wherever the reader is, and all in the end.
Nested(s, o, c) ==
    /\ \A n \in 0 .. Len(s) : CountTo(s, n, c) <= CountTo(s, n, o)
    /\ CountTo(s, Len(s), c) = CountTo(s, Len(s), o)

LEMMA BalancedIs ==
    ASSUME NEW S, NEW s \in Seq(S)
    PROVE  Nested(s, "(", ")") => Balanced(s)
<1>0. PICK o : o = "("
  OBVIOUS
<1>00. PICK c : c = ")"
  OBVIOUS
<1> SUFFICES ASSUME Nested(s, o, c)
             PROVE  /\ \A i \in DOMAIN s : Count(SubSeq(s, 1, i), c) <= Count(SubSeq(s, 1, i), o)
                    /\ Count(s, c) = Count(s, o)
  BY <1>0, <1>00, Zenon DEF Balanced
<1>1. DOMAIN s = 1 .. Len(s) /\ Len(s) \in Nat
  OBVIOUS
<1>2. ASSUME NEW i \in DOMAIN s PROVE Count(SubSeq(s, 1, i), c) <= Count(SubSeq(s, 1, i), o)
  <2>1. i \in 1 .. Len(s) /\ i \in 0 .. Len(s)
    BY <1>1
  <2>2. Count(SubSeq(s, 1, i), c) = CountTo(s, i, c)
    BY <2>1, CountPrefix
  <2>3. Count(SubSeq(s, 1, i), o) = CountTo(s, i, o)
    BY <2>1, CountPrefix
  <2>4. CountTo(s, i, c) <= CountTo(s, i, o)
    BY <2>1 DEF Nested
  <2> QED BY <2>2, <2>3, <2>4
<1>3. Count(s, c) = Count(s, o)
  <2>1. Count(s, c) = CountTo(s, Len(s), c) /\ Count(s, o) = CountTo(s, Len(s), o)
    BY CountIs
  <2> QED BY <2>1 DEF Nested
<1> QED BY <1>2, <1>3

LEMMA NestedJoined ==
    ASSUME NEW S, NEW s \in Seq(S), NEW t \in Seq(S), NEW o, NEW c, Nested(s, o, c), Nested(t, o, c)
    PROVE  Nested(s \o t, o, c)
<1>0. PICK u : u = s \o t
  OBVIOUS
<1>1. Len(u) = Len(s) + Len(t) /\ Len(s) \in Nat /\ Len(t) \in Nat
  BY <1>0
<1>2. ASSUME NEW x
      PROVE  /\ \A n \in 0 .. Len(s) : CountTo(u, n, x) = CountTo(s, n, x)
             /\ \A n \in 0 .. Len(t) :
                   CountTo(u, Len(s) + n, x) = CountTo(s, Len(s), x) + CountTo(t, n, x)
  <2>1. CountsOn(u, s, t, x)
    BY <1>0, CountJoined
  <2> QED BY <2>1 DEF CountsOn
<1>3. ASSUME NEW x, NEW n \in Nat
      PROVE  CountTo(s, n, x) \in Nat /\ CountTo(t, n, x) \in Nat
  <2>1. CountTo(s, n, x) \in Nat
    BY CountStep
  <2>2. CountTo(t, n, x) \in Nat
    BY CountStep
  <2> QED BY <2>1, <2>2
<1>4. /\ \A n \in 0 .. Len(s) : CountTo(s, n, c) <= CountTo(s, n, o)
      /\ \A n \in 0 .. Len(t) : CountTo(t, n, c) <= CountTo(t, n, o)
      /\ CountTo(s, Len(s), c) = CountTo(s, Len(s), o)
      /\ CountTo(t, Len(t), c) = CountTo(t, Len(t), o)
  BY DEF Nested
<1>5. ASSUME NEW n \in 0 .. Len(u) PROVE CountTo(u, n, c) <= CountTo(u, n, o)
  <2>1. CASE n <= Len(s)
    <3>1. n \in 0 .. Len(s)
      BY <1>1, <2>1
    <3> QED BY <1>2, <1>4, <3>1
  <2>2. CASE n > Len(s)
    <3>1. PICK m \in 0 .. Len(t) : n = Len(s) + m
      <4>1. n - Len(s) \in 0 .. Len(t) /\ n = Len(s) + (n - Len(s))
        BY <1>1, <2>2
      <4> QED BY <4>1
    <3>2. CountTo(u, n, c) = CountTo(s, Len(s), c) + CountTo(t, m, c)
      BY <1>2, <3>1
    <3>3. CountTo(u, n, o) = CountTo(s, Len(s), o) + CountTo(t, m, o)
      BY <1>2, <3>1
    <3>4. CountTo(t, m, c) <= CountTo(t, m, o)
      BY <1>4, <3>1
    <3>5. /\ CountTo(s, Len(s), c) \in Nat /\ CountTo(s, Len(s), o) \in Nat
          /\ CountTo(t, m, c) \in Nat /\ CountTo(t, m, o) \in Nat
      BY <1>1, <1>3, <3>1
    <3> QED BY <1>4, <3>2, <3>3, <3>4, <3>5
  <2> QED BY <1>1, <2>1, <2>2
<1>6. CountTo(u, Len(u), c) = CountTo(u, Len(u), o)
  <2>1. Len(t) \in 0 .. Len(t)
    BY <1>1
  <2>2. /\ CountTo(u, Len(u), c) = CountTo(s, Len(s), c) + CountTo(t, Len(t), c)
        /\ CountTo(u, Len(u), o) = CountTo(s, Len(s), o) + CountTo(t, Len(t), o)
    BY <1>1, <1>2, <2>1
  <2> QED BY <1>4, <2>2
<1> QED BY <1>0, <1>5, <1>6 DEF Nested

LEMMA NestedNone ==
    ASSUME NEW S, NEW s \in Seq(S), NEW o, NEW c, \A i \in 1 .. Len(s) : s[i] # o /\ s[i] # c
    PROVE  Nested(s, o, c)
<1>1. \A n \in 0 .. Len(s) : n \in Nat /\ \A i \in 1 .. n : s[i] # o /\ s[i] # c
  OBVIOUS
<1>2. ASSUME NEW n \in 0 .. Len(s) PROVE CountTo(s, n, c) = 0 /\ CountTo(s, n, o) = 0
  BY <1>1, CountNone
<1>3. Len(s) \in 0 .. Len(s)
  OBVIOUS
<1> QED BY <1>2, <1>3 DEF Nested

LEMMA NestedBracketed ==
    ASSUME NEW S, NEW o \in S, NEW c \in S, o # c, NEW t \in Seq(S), Nested(t, o, c)
    PROVE  Nested((<<o>> \o t) \o <<c>>, o, c)
<1>0. PICK v : v = <<o>> \o t
  OBVIOUS
<1>00. PICK u : u = v \o <<c>>
  OBVIOUS
<1>01. PICK a : a = <<o>>
  OBVIOUS
<1>02. PICK b : b = <<c>>
  OBVIOUS
<1>1. /\ a \in Seq(S) /\ Len(a) = 1 /\ b \in Seq(S) /\ Len(b) = 1
      /\ a[1] = o /\ b[1] = c
  BY <1>01, <1>02
<1>2. v \in Seq(S) /\ Len(v) = 1 + Len(t) /\ Len(t) \in Nat /\ Len(u) = Len(t) + 2
  BY <1>0, <1>00
<1>3. /\ CountTo(a, 1, o) = 1 /\ CountTo(a, 1, c) = 0
      /\ CountTo(b, 1, o) = 0 /\ CountTo(b, 1, c) = 1
  <2>1. \A s, x : CountTo(s, 0, x) = 0
    BY CountStep
  <2>2. \A s, x : CountTo(s, 0 + 1, x) = CountTo(s, 0, x) + (IF s[0 + 1] = x THEN 1 ELSE 0)
    BY CountStep
  <2>3. \A s, x : CountTo(s, 1, x) = IF s[1] = x THEN 1 ELSE 0
    BY <2>1, <2>2
  <2> QED BY <1>1, <2>3
<1>4. ASSUME NEW x
      PROVE  /\ \A n \in 0 .. Len(v) : CountTo(u, n, x) = CountTo(v, n, x)
             /\ \A n \in 0 .. 1 : CountTo(u, Len(v) + n, x) = CountTo(v, Len(v), x) + CountTo(b, n, x)
  <2>1. u = v \o b
    BY <1>00, <1>02
  <2>2. CountsOn(u, v, b, x)
    BY <1>1, <1>2, <2>1, CountJoined
  <2>3. Len(b) = 1
    BY <1>1
  <2> QED BY <2>2, <2>3 DEF CountsOn
<1>5. ASSUME NEW x, NEW n \in 0 .. Len(t)
      PROVE  CountTo(v, 1 + n, x) = CountTo(a, 1, x) + CountTo(t, n, x)
  <2>1. v = a \o t
    BY <1>0, <1>01
  <2>2. CountsOn(v, a, t, x)
    BY <1>1, <2>1, CountJoined
  <2>3. Len(a) = 1
    BY <1>1
  <2> QED BY <2>2, <2>3 DEF CountsOn
<1>6. \A x : \A n \in Nat : CountTo(t, n, x) \in Nat
  BY CountStep
<1>7. /\ \A n \in 0 .. Len(t) : CountTo(t, n, c) <= CountTo(t, n, o)
      /\ CountTo(t, Len(t), c) = CountTo(t, Len(t), o)
  BY DEF Nested
<1>8. ASSUME NEW n \in 0 .. Len(t)
      PROVE  CountTo(v, 1 + n, c) <= CountTo(v, 1 + n, o)
  <2>1. CountTo(v, 1 + n, c) = CountTo(t, n, c) /\ CountTo(v, 1 + n, o) = 1 + CountTo(t, n, o)
    <3>1. n \in Nat
      BY <1>2
    <3>2. CountTo(t, n, c) \in Nat
      BY <1>6, <3>1
    <3> QED BY <1>3, <1>5, <3>2
  <2>2. CountTo(t, n, c) \in Nat /\ CountTo(t, n, o) \in Nat
    BY <1>2, <1>6
  <2> QED BY <1>7, <2>1, <2>2
<1>9. CountTo(u, Len(u), c) = CountTo(u, Len(u), o)
  <2>1. Len(t) \in 0 .. Len(t) /\ Len(u) = Len(v) + 1 /\ 1 \in 0 .. 1
    BY <1>2
  <2>2. /\ CountTo(u, Len(u), c) = CountTo(v, Len(v), c) + 1
        /\ CountTo(u, Len(u), o) = CountTo(v, Len(v), o) + 0
    BY <1>3, <1>4, <2>1
  <2>3. CountTo(v, Len(v), c) = 0 + CountTo(t, Len(t), c) /\ CountTo(v, Len(v), o) = 1 + CountTo(t, Len(t), o)
    BY <1>2, <1>3, <1>5, <2>1
  <2>4. CountTo(t, Len(t), c) \in Nat
    BY <1>2, <1>6
  <2> QED BY <1>7, <2>2, <2>3, <2>4
<1>10. ASSUME NEW n \in 0 .. Len(u) PROVE CountTo(u, n, c) <= CountTo(u, n, o)
  <2>1. CASE n = 0
    <3>1. CountTo(u, 0, c) = 0 /\ CountTo(u, 0, o) = 0
      BY CountStep
    <3> QED BY <2>1, <3>1
  <2>2. CASE n \in 1 .. Len(v)
    <3>1. PICK m \in 0 .. Len(t) : n = 1 + m
      <4>1. n - 1 \in 0 .. Len(t) /\ n = 1 + (n - 1)
        BY <1>2, <2>2
      <4> QED BY <4>1
    <3>a. n \in 0 .. Len(v)
      BY <1>2, <2>2
    <3>2. CountTo(u, n, c) = CountTo(v, n, c) /\ CountTo(u, n, o) = CountTo(v, n, o)
      BY <1>4, <3>a
    <3> QED BY <1>8, <3>1, <3>2
  <2>3. CASE n = Len(u)
    <3>1. CountTo(u, Len(u), o) \in Nat
      <4>1. Len(u) \in Nat
        BY <1>2
      <4> QED BY <4>1, CountStep
    <3> QED BY <1>9, <2>3, <3>1
  <2> QED BY <1>2, <2>1, <2>2, <2>3
<1>11. Nested(u, o, c)
  BY <1>9, <1>10 DEF Nested
<1> QED BY <1>0, <1>00, <1>11


-----------------------------------------------------------------------------
(* The words of a text                                                     *)
WordOf == [c \in Char |-> Word(c)]

LEMMA WordsMapped ==
    ASSUME NEW s \in Seq(Char)
    PROVE  Words(s) = FlattenSeq(Mapped(WordOf, s))
<1>1. \A i \in DOMAIN s : WordOf[s[i]] = Word(s[i])
  BY DEF WordOf
<1>2. Mapped(WordOf, s) = [i \in DOMAIN s |-> Word(s[i])]
  BY <1>1 DEF Mapped
<1> QED BY <1>2 DEF Words

LEMMA WordOfMaps == Maps(WordOf, Char, Seq(Char))
<1>1. \A c \in Char : Word(c) \in Seq(Char)
  BY DEF Word
<1> QED BY <1>1 DEF Maps, WordOf

LEMMA WordsConcat ==
    ASSUME NEW s \in Seq(Char), NEW t \in Seq(Char)
    PROVE  Words(s \o t) = Words(s) \o Words(t) /\ Words(s) \in Seq(Char)
<1>1. s \o t \in Seq(Char)
  OBVIOUS
<1>2. /\ Words(s \o t) = FlattenSeq(Mapped(WordOf, s \o t))
      /\ Words(s) = FlattenSeq(Mapped(WordOf, s))
      /\ Words(t) = FlattenSeq(Mapped(WordOf, t))
  BY <1>1, WordsMapped
<1>3. /\ FlattenSeq(Mapped(WordOf, s)) \in Seq(Char)
      /\ FlattenSeq(Mapped(WordOf, s \o t))
             = FlattenSeq(Mapped(WordOf, s)) \o FlattenSeq(Mapped(WordOf, t))
  <2>1. PICK S : S = Char
    OBVIOUS
  <2>2. Maps(WordOf, S, Seq(Char)) /\ s \in Seq(S) /\ t \in Seq(S)
    BY <2>1, WordOfMaps
  <2> QED BY <2>2, FlattenMapped
<1> QED BY <1>2, <1>3

LEMMA WordsShort ==
    /\ Words(<<>>) = <<>>
    /\ \A c \in Punctuation : <<c>> \in Seq(Char) /\ Words(<<c>>) = <<>>
<1>1. Words(<<>>) = <<>>
  <2>1. [i \in DOMAIN <<>> |-> Word(<<>>[i])] = <<>>
    OBVIOUS
  <2>2. <<>> \in Seq(Char)
    OBVIOUS
  <2> QED BY <2>1, <2>2, FlattenOne DEF Words
<1>2. ASSUME NEW c \in Punctuation PROVE <<c>> \in Seq(Char) /\ Words(<<c>>) = <<>>
  <2>1. c \in Char
    BY GeneratorAssumption
  <2>2. Word(c) = <<>>
    BY DEF Word
  <2>3. [i \in DOMAIN <<c>> |-> Word(<<c>>[i])] = << <<>> >>
    <3>1. PICK a : a = <<c>>
      OBVIOUS
    <3>2. DOMAIN a = {1} /\ a[1] = c
      BY <3>1
    <3>3. [i \in DOMAIN a |-> Word(a[i])] = [i \in {1} |-> <<>>]
      <4>1. \A i \in {1} : Word(a[i]) = <<>>
        BY <2>2, <3>2
      <4>2. [i \in {1} |-> Word(a[i])] = [i \in {1} |-> <<>>]
        BY <4>1, Zenon
      <4> QED BY <3>2, <4>2, Zenon
    <3>4. [i \in {1} |-> <<>>] = << <<>> >>
      OBVIOUS
    <3> QED BY <3>1, <3>3, <3>4
  <2>4. <<>> \in Seq(Char)
    OBVIOUS
  <2>5. Words(<<c>>) = FlattenSeq(<< <<>> >>)
    BY <2>3, Zenon DEF Words
  <2>6. FlattenSeq(<< <<>> >>) = <<>>
    BY <2>4, FlattenOne
  <2>7. <<c>> \in Seq(Char)
    BY <2>1
  <2> QED BY <2>5, <2>6, <2>7, Zenon
<1> QED BY <1>1, <1>2

-----------------------------------------------------------------------------
(* The text of the calls                                                   *)
Call == [fn : {"sb_append", "sb_printf"}, text : Seq(Char)]
CallText == [c \in Call |-> c.text]
TextOf(list) == FlattenSeq(Mapped(CallText, list))

LEMMA TextConcat ==
    ASSUME NEW s \in Seq(Call), NEW t \in Seq(Call)
    PROVE  s \o t \in Seq(Call) /\ TextOf(s \o t) = TextOf(s) \o TextOf(t) /\ TextOf(s) \in Seq(Char)
<1>1. Maps(CallText, Call, Seq(Char))
  BY DEF Maps, CallText, Call
<1>2. /\ FlattenSeq(Mapped(CallText, s)) \in Seq(Char)
      /\ FlattenSeq(Mapped(CallText, s \o t))
             = FlattenSeq(Mapped(CallText, s)) \o FlattenSeq(Mapped(CallText, t))
  BY <1>1, FlattenMapped
<1>3. s \o t \in Seq(Call)
  OBVIOUS
<1> QED BY <1>2, <1>3 DEF TextOf

LEMMA TextOne ==
    ASSUME NEW c \in Call
    PROVE  <<c>> \in Seq(Call) /\ TextOf(<<c>>) = c.text
<1>1. CallText[c] = c.text /\ c.text \in Seq(Char)
  BY DEF CallText, Call
<1>2. Mapped(CallText, <<c>>) = <<c.text>>
  <2>1. DOMAIN <<c>> = {1} /\ <<c>>[1] = c
    OBVIOUS
  <2> QED BY <1>1, <2>1 DEF Mapped
<1> QED BY <1>1, <1>2, FlattenOne DEF TextOf

LEMMA TextShort ==
    /\ TextOf(<<>>) = <<>>
    /\ \A s \in Seq(Char) : /\ append(s) \in Seq(Call) /\ TextOf(append(s)) = s
                            /\ printf(s) \in Seq(Call) /\ TextOf(printf(s)) = s
<1>1. TextOf(<<>>) = <<>>
  <2>1. Mapped(CallText, <<>>) = <<>>
    BY DEF Mapped
  <2>2. <<>> \in Seq(Char)
    OBVIOUS
  <2> QED BY <2>1, <2>2, FlattenOne DEF TextOf
<1>2. ASSUME NEW s \in Seq(Char)
      PROVE  /\ append(s) \in Seq(Call) /\ TextOf(append(s)) = s
             /\ printf(s) \in Seq(Call) /\ TextOf(printf(s)) = s
  <2>1. [fn |-> "sb_append", text |-> s] \in Call /\ [fn |-> "sb_printf", text |-> s] \in Call
    BY DEF Call
  <2>2. [fn |-> "sb_append", text |-> s].text = s /\ [fn |-> "sb_printf", text |-> s].text = s
    OBVIOUS
  <2> QED BY <2>1, <2>2, TextOne DEF append, printf
<1> QED BY <1>1, <1>2


-----------------------------------------------------------------------------
(* The tree of an expression: its recursions are well founded              *)

LEMMA TreeIs ==
    ASSUME NEW expr \in Expression
    PROVE  /\ expr \in Seq(Node) /\ Len(expr) \in Nat \ {0} /\ DOMAIN expr = 1 .. Len(expr)
           /\ Begins(expr)[Len(expr)] = 1
<1>1. expr \in Seq(Node) /\ expr # <<>> /\ Begins(expr)[Len(expr)] = 1
  BY DEF Expression
<1>2. Len(expr) \in Nat /\ DOMAIN expr = 1 .. Len(expr) /\ (Len(expr) = 0 => expr = <<>>)
  BY <1>1
<1> QED BY <1>1, <1>2

\* The operands of node i, by number.
LEMMA OperandsAre ==
    ASSUME NEW expr \in Expression, NEW i \in DOMAIN expr
    PROVE  /\ i \in Nat /\ expr[i].type \in ExpressionType
           /\ Len(expr[i].args) = Arity[expr[i].type]
           /\ DOMAIN expr[i].args = 1 .. Len(expr[i].args)
           /\ \A k \in DOMAIN expr[i].args : expr[i].args[k] \in 1 .. i - 1
           /\ expr[i].args = <<>> <=> Len(expr[i].args) = 0
<1>1. expr \in Seq(Node) /\ DOMAIN expr = 1 .. Len(expr) /\ Len(expr) \in Nat
  BY TreeIs
<1>2. expr[i] \in Node /\ i \in Nat
  BY <1>1
<1>3. expr[i].type \in ExpressionType /\ expr[i].args \in Seq(Nat)
  BY <1>2 DEF Node
<1>4. /\ Len(expr[i].args) = Arity[expr[i].type]
      /\ \A k \in DOMAIN expr[i].args : expr[i].args[k] \in 1 .. i - 1
  BY DEF Expression
<1>5. DOMAIN expr[i].args = 1 .. Len(expr[i].args) /\ (expr[i].args = <<>> <=> Len(expr[i].args) = 0)
  BY <1>3
<1> QED BY <1>2, <1>3, <1>4, <1>5

\* The operands lie next to each other, the last of them next to the node.
LEMMA OperandsAdjoin ==
    ASSUME NEW expr \in Expression, NEW i \in DOMAIN expr, NEW k \in DOMAIN expr[i].args
    PROVE  IF k = Len(expr[i].args) THEN expr[i].args[k] = i - 1
           ELSE Begins(expr)[expr[i].args[k + 1]] = expr[i].args[k] + 1
BY DEF Expression

LEMMA ArityIs ==
    /\ Arity["LITERAL_EXPR"] = 0 /\ Arity["IDENTIFIER_EXPR"] = 0 /\ Arity["ARITHMETIC_EXPR"] = 2
    /\ Arity["RELATIONAL_EXPR"] = 2 /\ Arity["LOGICAL_EXPR"] = 2 /\ Arity["LOGICAL_NOT_EXPR"] = 1
    /\ Arity["CONDITIONAL_EXPR"] = 3 /\ Arity["PARENTHESIZED_EXPR"] = 1
BY DEF Arity

BeginStep(expr, f, i) == IF expr[i].args = <<>> THEN i ELSE f[expr[i].args[1]]

LEMMA BeginsIs ==
    ASSUME NEW expr \in Expression
    PROVE  \A i \in DOMAIN expr : Begins(expr)[i] = BeginStep(expr, Begins(expr), i)
<1> DEFINE G == {m \in Nat : m <= Len(expr) => \E f : f = [i \in 1 .. m |-> BeginStep(expr, f, i)]}
<1>0. Len(expr) \in Nat /\ DOMAIN expr = 1 .. Len(expr)
  BY TreeIs
<1>1. 0 \in G
  <2> DEFINE f == [i \in 1 .. 0 |-> 0]
  <2>1. f = [i \in 1 .. 0 |-> BeginStep(expr, f, i)]
    OBVIOUS
  <2> QED BY <2>1
<1>2. ASSUME NEW m \in Nat, m \in G PROVE m + 1 \in G
  <2> SUFFICES ASSUME m + 1 <= Len(expr)
               PROVE  \E f : f = [i \in 1 .. m + 1 |-> BeginStep(expr, f, i)]
    OBVIOUS
  <2>1. PICK f : f = [i \in 1 .. m |-> BeginStep(expr, f, i)]
    BY <1>0, <1>2
  <2> DEFINE g == [i \in 1 .. m + 1 |-> IF i \in 1 .. m THEN f[i] ELSE BeginStep(expr, f, i)]
  <2>2. \A i \in 1 .. m + 1 : g[i] = BeginStep(expr, g, i)
    <3> TAKE i \in 1 .. m + 1
    <3>1. g[i] = BeginStep(expr, f, i)
      BY <2>1
    <3>2. i \in DOMAIN expr
      BY <1>0
    <3>3. expr[i].args # <<>> => expr[i].args[1] \in 1 .. m
      <4>1. /\ Len(expr[i].args) \in Nat /\ DOMAIN expr[i].args = 1 .. Len(expr[i].args)
            /\ expr[i].args = <<>> <=> Len(expr[i].args) = 0
            /\ \A k \in DOMAIN expr[i].args : expr[i].args[k] \in 1 .. i - 1
        BY <3>2, OperandsAre
      <4>2. expr[i].args # <<>> => 1 \in DOMAIN expr[i].args
        BY <4>1
      <4>3. expr[i].args # <<>> => expr[i].args[1] \in 1 .. i - 1
        BY <4>1, <4>2
      <4> QED BY <4>3
    <3>4. expr[i].args # <<>> => g[expr[i].args[1]] = f[expr[i].args[1]]
      BY <3>3
    <3> QED BY <3>1, <3>4 DEF BeginStep
  <2>3. g = [i \in 1 .. m + 1 |-> g[i]]
    OBVIOUS
  <2> HIDE DEF g
  <2>4. g = [i \in 1 .. m + 1 |-> BeginStep(expr, g, i)]
    BY <2>2, <2>3
  <2> QED BY <2>4
<1>3. Len(expr) \in G
  <2> HIDE DEF G
  <2> QED BY <1>0, <1>1, <1>2, NumberInduction
<1>4. \E f : f = [i \in DOMAIN expr |-> BeginStep(expr, f, i)]
  BY <1>0, <1>3
<1>5. Begins(expr) = CHOOSE f : f = [i \in DOMAIN expr |-> BeginStep(expr, f, i)]
  BY DEF Begins, BeginStep
<1>6. Begins(expr) = [i \in DOMAIN expr |-> BeginStep(expr, Begins(expr), i)]
  BY <1>4, <1>5
<1> DEFINE F == Begins(expr)
<1>7. F = [i \in DOMAIN expr |-> BeginStep(expr, F, i)]
  BY <1>6
<1> HIDE DEF F
<1>8. \A i \in DOMAIN expr : F[i] = BeginStep(expr, F, i)
  BY <1>7
<1> QED BY <1>8 DEF F


\* What c is, for a node of each type with the calls p, q and r of its operands.
CallsFor(c, node, p, q, r) ==
    /\ node.type = "LITERAL_EXPR" => c = literalCalls(node.leaf)
    /\ node.type = "IDENTIFIER_EXPR" => c = append(spelling[node.leaf])
    /\ node.type = "ARITHMETIC_EXPR" =>
          c = append(<<"(">>) \o p \o append(<<"+">>) \o q \o append(<<")">>)
    /\ node.type = "RELATIONAL_EXPR" => c = p \o append(<<"<">>) \o q
    /\ node.type = "LOGICAL_EXPR" => c = p \o append(<<"&">>) \o q
    /\ node.type = "LOGICAL_NOT_EXPR" => c = append(<<"!">>) \o p
    /\ node.type = "CONDITIONAL_EXPR" => c = p \o append(<<"?">>) \o q \o append(<<":">>) \o r
    /\ node.type = "PARENTHESIZED_EXPR" => c = append(<<"(">>) \o p \o append(<<")">>)

LEMMA NodeCallsAre ==
    ASSUME NEW expr, NEW f, NEW i
    PROVE  CallsFor(nodeCalls(expr, f, i), expr[i],
                    f[expr[i].args[1]], f[expr[i].args[2]], f[expr[i].args[3]])
<1> DEFINE c == nodeCalls(expr, f, i)
           node == expr[i]
           p == f[expr[i].args[1]]
           q == f[expr[i].args[2]]
           r == f[expr[i].args[3]]
<1>1. node.type = "LITERAL_EXPR" => c = literalCalls(node.leaf)
  BY DEF nodeCalls
<1>2. node.type = "IDENTIFIER_EXPR" => c = append(spelling[node.leaf])
  BY DEF nodeCalls
<1>3. node.type = "ARITHMETIC_EXPR" =>
          c = append(<<"(">>) \o p \o append(<<"+">>) \o q \o append(<<")">>)
  BY DEF nodeCalls
<1>4. node.type = "RELATIONAL_EXPR" => c = p \o append(<<"<">>) \o q
  BY DEF nodeCalls
<1>5. node.type = "LOGICAL_EXPR" => c = p \o append(<<"&">>) \o q
  BY DEF nodeCalls
<1>6. node.type = "LOGICAL_NOT_EXPR" => c = append(<<"!">>) \o p
  BY DEF nodeCalls
<1>7. node.type = "CONDITIONAL_EXPR" => c = p \o append(<<"?">>) \o q \o append(<<":">>) \o r
  BY DEF nodeCalls
<1>8. node.type = "PARENTHESIZED_EXPR" => c = append(<<"(">>) \o p \o append(<<")">>)
  BY DEF nodeCalls
<1> HIDE DEF c, node, p, q, r
<1>9. CallsFor(c, node, p, q, r)
  BY <1>1, <1>2, <1>3, <1>4, <1>5, <1>6, <1>7, <1>8, Zenon DEF CallsFor
<1> QED BY <1>9 DEF c, node, p, q, r

\* One list of calls is the only one.
LEMMA CallsForOne ==
    ASSUME NEW node, node.type \in ExpressionType, NEW p, NEW q, NEW r, NEW p2, NEW q2, NEW r2,
           Arity[node.type] >= 1 => p = p2,
           Arity[node.type] >= 2 => q = q2,
           Arity[node.type] >= 3 => r = r2,
           NEW c, NEW d, CallsFor(c, node, p, q, r), CallsFor(d, node, p2, q2, r2)
    PROVE  c = d
<1>1. CASE node.type \in {"LITERAL_EXPR", "IDENTIFIER_EXPR"}
  BY <1>1, Zenon DEF CallsFor
<1>2. CASE node.type \in {"ARITHMETIC_EXPR", "RELATIONAL_EXPR", "LOGICAL_EXPR"}
  <2>1. p = p2 /\ q = q2
    BY <1>2, ArityIs
  <2> QED BY <1>2, <2>1, Zenon DEF CallsFor
<1>3. CASE node.type \in {"LOGICAL_NOT_EXPR", "PARENTHESIZED_EXPR"}
  <2>1. p = p2
    BY <1>3, ArityIs
  <2> QED BY <1>3, <2>1, Zenon DEF CallsFor
<1>4. CASE node.type = "CONDITIONAL_EXPR"
  <2>1. p = p2 /\ q = q2 /\ r = r2
    BY <1>4, ArityIs
  <2> QED BY <1>4, <2>1, Zenon DEF CallsFor
<1> QED BY <1>1, <1>2, <1>3, <1>4 DEF ExpressionType

LEMMA SameCalls ==
    ASSUME NEW expr \in Expression, NEW i \in DOMAIN expr, NEW f, NEW g,
           \A j \in 1 .. i - 1 : f[j] = g[j]
    PROVE  nodeCalls(expr, f, i) = nodeCalls(expr, g, i)
<1>1. expr[i].type \in ExpressionType /\ Len(expr[i].args) = Arity[expr[i].type]
      /\ DOMAIN expr[i].args = 1 .. Len(expr[i].args)
      /\ \A k \in DOMAIN expr[i].args : expr[i].args[k] \in 1 .. i - 1
  BY OperandsAre
<1>2. \A k \in 1 .. Arity[expr[i].type] : f[expr[i].args[k]] = g[expr[i].args[k]]
  BY <1>1
<1>3. Arity[expr[i].type] \in Nat
  BY <1>1, ArityIs DEF ExpressionType
<1>4. /\ Arity[expr[i].type] >= 1 => f[expr[i].args[1]] = g[expr[i].args[1]]
      /\ Arity[expr[i].type] >= 2 => f[expr[i].args[2]] = g[expr[i].args[2]]
      /\ Arity[expr[i].type] >= 3 => f[expr[i].args[3]] = g[expr[i].args[3]]
  BY <1>2, <1>3
<1>5. CallsFor(nodeCalls(expr, f, i), expr[i],
               f[expr[i].args[1]], f[expr[i].args[2]], f[expr[i].args[3]])
  BY NodeCallsAre
<1>6. CallsFor(nodeCalls(expr, g, i), expr[i],
               g[expr[i].args[1]], g[expr[i].args[2]], g[expr[i].args[3]])
  BY NodeCallsAre
<1> QED BY <1>1, <1>4, <1>5, <1>6, CallsForOne

\* The calls for each node.
CallsOf(expr) == CHOOSE f : f = [i \in DOMAIN expr |-> nodeCalls(expr, f, i)]

LEMMA CallsAre ==
    ASSUME NEW expr \in Expression
    PROVE  /\ \A i \in DOMAIN expr : CallsOf(expr)[i] = nodeCalls(expr, CallsOf(expr), i)
           /\ buildExpressionString(expr) = CallsOf(expr)[Len(expr)]
<1> DEFINE G == {m \in Nat : m <= Len(expr) => \E f : f = [i \in 1 .. m |-> nodeCalls(expr, f, i)]}
<1>0. Len(expr) \in Nat /\ DOMAIN expr = 1 .. Len(expr)
  BY TreeIs
<1>1. 0 \in G
  <2> DEFINE f == [i \in 1 .. 0 |-> 0]
  <2>1. f = [i \in 1 .. 0 |-> nodeCalls(expr, f, i)]
    OBVIOUS
  <2> QED BY <2>1
<1>2. ASSUME NEW m \in Nat, m \in G PROVE m + 1 \in G
  <2> SUFFICES ASSUME m + 1 <= Len(expr)
               PROVE  \E f : f = [i \in 1 .. m + 1 |-> nodeCalls(expr, f, i)]
    OBVIOUS
  <2>1. PICK f : f = [i \in 1 .. m |-> nodeCalls(expr, f, i)]
    BY <1>0, <1>2
  <2> DEFINE g == [i \in 1 .. m + 1 |-> IF i \in 1 .. m THEN f[i] ELSE nodeCalls(expr, f, i)]
  <2>2. \A i \in 1 .. m + 1 : g[i] = nodeCalls(expr, g, i)
    <3> TAKE i \in 1 .. m + 1
    <3>1. g[i] = nodeCalls(expr, f, i)
      BY <2>1
    <3>2. i \in DOMAIN expr
      BY <1>0
    <3>3. \A j \in 1 .. i - 1 : f[j] = g[j]
      OBVIOUS
    <3> HIDE DEF g
    <3> QED BY <3>1, <3>2, <3>3, SameCalls
  <2>3. g = [i \in 1 .. m + 1 |-> g[i]]
    OBVIOUS
  <2> HIDE DEF g
  <2>4. g = [i \in 1 .. m + 1 |-> nodeCalls(expr, g, i)]
    BY <2>2, <2>3
  <2> QED BY <2>4
<1>3. Len(expr) \in G
  <2> HIDE DEF G
  <2> QED BY <1>0, <1>1, <1>2, NumberInduction
<1>4. \E f : f = [i \in DOMAIN expr |-> nodeCalls(expr, f, i)]
  BY <1>0, <1>3
<1> DEFINE F == CallsOf(expr)
<1>5. F = [i \in DOMAIN expr |-> nodeCalls(expr, F, i)]
  BY <1>4 DEF CallsOf
<1>6. buildExpressionString(expr) = F[Len(expr)]
  BY DEF buildExpressionString, CallsOf
<1> HIDE DEF F
<1>7. \A i \in DOMAIN expr : F[i] = nodeCalls(expr, F, i)
  BY <1>5
<1> QED BY <1>6, <1>7 DEF F


-----------------------------------------------------------------------------
(* What a text reads as                                                    *)

\* What the first n nodes have: the words of their leaves, the nodes of a type.
LeafWords(expr, n) == Words(Prefix(Leaves(expr), n))
Types(expr) == [i \in DOMAIN expr |-> expr[i].type]
NodesOf(expr, n, type) == CountTo(Types(expr), n, type)
BareTree(expr) == \A i \in DOMAIN expr : Bare(Leaf(expr[i]))

\* The signs of the nodes from m + 1 to n, in brackets that are balanced.
SignsOf(t, expr, m, n) ==
    /\ Nested(t, "(", ")")
    /\ \A type \in DOMAIN Signs :
          NodesOf(expr, n, type) = NodesOf(expr, m, type) + Count(t, Signs[type])

\* The text t reads as the nodes from m + 1 to n.
Reads(t, expr, m, n) ==
    /\ t \in Seq(Char)
    /\ LeafWords(expr, n) = LeafWords(expr, m) \o Words(t)
    /\ BareTree(expr) => SignsOf(t, expr, m, n)

LEMMA LeavesAre ==
    ASSUME NEW expr \in Expression
    PROVE  /\ Leaves(expr) \in Seq(Seq(Char)) /\ Len(Leaves(expr)) = Len(expr)
           /\ \A i \in DOMAIN expr : Leaves(expr)[i] = Leaf(expr[i]) /\ Leaf(expr[i]) \in Seq(Char)
<1>1. DOMAIN expr = 1 .. Len(expr) /\ Len(expr) \in Nat
  BY TreeIs
<1>2. ASSUME NEW i \in DOMAIN expr PROVE Leaf(expr[i]) \in Seq(Char)
  <2>1. /\ expr[i].type = "LITERAL_EXPR" => expr[i].leaf \in LiteralType
        /\ expr[i].type = "IDENTIFIER_EXPR" => expr[i].leaf \in Names
    BY DEF Expression
  <2>2. <<>> \in Seq(Char)
    OBVIOUS
  <2>3. /\ \A n \in Names : spelling[n] \in Seq(Char)
        /\ \A t \in LiteralType : rendering[t] \in Seq(Char)
    BY GeneratorAssumption
  <2> QED BY <2>1, <2>2, <2>3 DEF Leaf
<1>3. \A i \in 1 .. Len(expr) : Leaves(expr)[i] = Leaf(expr[i])
  BY <1>1 DEF Leaves
<1>4. Leaves(expr) = [i \in 1 .. Len(expr) |-> Leaf(expr[i])]
  BY <1>1 DEF Leaves
<1>5. [i \in 1 .. Len(expr) |-> Leaf(expr[i])] \in [1 .. Len(expr) -> Seq(Char)]
  BY <1>1, <1>2
<1>6. Leaves(expr) \in Seq(Seq(Char)) /\ Len(Leaves(expr)) = Len(expr)
  BY <1>1, <1>4, <1>5
<1> QED BY <1>1, <1>2, <1>3, <1>6

LEMMA LeafWordsAre ==
    ASSUME NEW expr \in Expression
    PROVE  /\ LeafWords(expr, 0) = <<>>
           /\ LeafWords(expr, Len(expr)) = Words(FlattenSeq(Leaves(expr)))
           /\ \A n \in 0 .. Len(expr) : LeafWords(expr, n) \in Seq(Char)
           /\ \A n \in 0 .. Len(expr) - 1 :
                 LeafWords(expr, n + 1) = LeafWords(expr, n) \o Words(Leaf(expr[n + 1]))
<1>0. PICK l : l = Leaves(expr)
  OBVIOUS
<1>1. l \in Seq(Seq(Char)) /\ Len(l) = Len(expr) /\ Len(expr) \in Nat
      /\ \A i \in 1 .. Len(expr) : l[i] = Leaf(expr[i]) /\ Leaf(expr[i]) \in Seq(Char)
  BY <1>0, LeavesAre, TreeIs
<1>2. /\ Prefix(l, 0) = <<>>
      /\ \A n \in 0 .. Len(l) : Prefix(l, n) \in Seq(Char)
      /\ \A n \in 0 .. Len(l) - 1 : Prefix(l, n + 1) = Prefix(l, n) \o l[n + 1]
      /\ FlattenSeq(l) = Prefix(l, Len(l))
  BY <1>1, PrefixIs
<1>3. ASSUME NEW n \in 0 .. Len(expr) - 1
      PROVE  Words(Prefix(l, n + 1)) = Words(Prefix(l, n)) \o Words(Leaf(expr[n + 1]))
  <2>1. n \in 0 .. Len(l) /\ n + 1 \in 1 .. Len(expr) /\ n \in 0 .. Len(l) - 1
    BY <1>1
  <2>2. Prefix(l, n + 1) = Prefix(l, n) \o Leaf(expr[n + 1])
    BY <1>1, <1>2, <2>1
  <2>3. Prefix(l, n) \in Seq(Char) /\ Leaf(expr[n + 1]) \in Seq(Char)
    BY <1>1, <1>2, <2>1
  <2>4. Words(Prefix(l, n) \o Leaf(expr[n + 1])) = Words(Prefix(l, n)) \o Words(Leaf(expr[n + 1]))
    BY <2>3, WordsConcat
  <2> QED BY <2>2, <2>4
<1>4. ASSUME NEW n \in 0 .. Len(expr) PROVE Words(Prefix(l, n)) \in Seq(Char)
  <2>1. Prefix(l, n) \in Seq(Char)
    BY <1>1, <1>2
  <2> QED BY <2>1, WordsConcat
<1>5. Words(Prefix(l, 0)) = <<>>
  BY <1>2, WordsShort
<1> QED BY <1>0, <1>1, <1>2, <1>3, <1>4, <1>5, Zenon DEF LeafWords

LEMMA NodesOfAre ==
    ASSUME NEW expr \in Expression, NEW type
    PROVE  /\ NodesOf(expr, 0, type) = 0
           /\ \A n \in Nat : NodesOf(expr, n, type) \in Nat
           /\ \A n \in 0 .. Len(expr) - 1 :
                 NodesOf(expr, n + 1, type) =
                     NodesOf(expr, n, type) + (IF expr[n + 1].type = type THEN 1 ELSE 0)
<1>0. PICK s : s = Types(expr)
  OBVIOUS
<1>1. /\ CountTo(s, 0, type) = 0
      /\ \A n \in Nat : /\ CountTo(s, n, type) \in Nat
                        /\ CountTo(s, n + 1, type) =
                               CountTo(s, n, type) + (IF s[n + 1] = type THEN 1 ELSE 0)
  BY CountStep
<1>2. \A n \in 0 .. Len(expr) - 1 : n \in Nat /\ s[n + 1] = expr[n + 1].type
  BY <1>0, TreeIs DEF Types
<1> QED BY <1>0, <1>1, <1>2 DEF NodesOf


LEMMA TextAssociative ==
    ASSUME NEW x \in Seq(Char), NEW y \in Seq(Char), NEW z \in Seq(Char)
    PROVE  (x \o y) \o z = x \o (y \o z)
<1>1. Joins(x, y, z)
  BY Associative, Zenon
<1> QED BY <1>1, Zenon DEF Joins

LEMMA SignsAre ==
    /\ \A type \in DOMAIN Signs : /\ Signs[type] \in Punctuation /\ Signs[type] # "?"
                                  /\ Signs[type] # "(" /\ Signs[type] # ")"
    /\ \A type, type2 \in DOMAIN Signs : Signs[type] = Signs[type2] => type = type2
    /\ DOMAIN Signs = {"ARITHMETIC_EXPR", "RELATIONAL_EXPR", "LOGICAL_EXPR", "LOGICAL_NOT_EXPR",
                       "CONDITIONAL_EXPR"}
<1>1. /\ Signs["ARITHMETIC_EXPR"] = "+" /\ Signs["RELATIONAL_EXPR"] = "<"
      /\ Signs["LOGICAL_EXPR"] = "&" /\ Signs["LOGICAL_NOT_EXPR"] = "!"
      /\ Signs["CONDITIONAL_EXPR"] = ":"
      /\ DOMAIN Signs = {"ARITHMETIC_EXPR", "RELATIONAL_EXPR", "LOGICAL_EXPR", "LOGICAL_NOT_EXPR",
                         "CONDITIONAL_EXPR"}
  BY DEF Signs
<1>2. "+" \in Punctuation /\ "<" \in Punctuation /\ "&" \in Punctuation /\ "!" \in Punctuation
      /\ ":" \in Punctuation
  BY Zenon DEF Punctuation
<1>3. \A type \in DOMAIN Signs : Signs[type] \in Punctuation
  BY <1>1, <1>2
<1>4. \A type \in DOMAIN Signs : Signs[type] \in {"+", "<", "&", "!", ":"}
  BY <1>1
<1>5. \A c \in {"+", "<", "&", "!", ":"} : c # "?" /\ c # "(" /\ c # ")"
  OBVIOUS
<1>6. \A type, type2 \in DOMAIN Signs : Signs[type] = Signs[type2] => type = type2
  BY <1>1
<1> QED BY <1>1, <1>3, <1>4, <1>5, <1>6

LEMMA BareHasNone ==
    ASSUME NEW s \in Seq(Char), Bare(s)
    PROVE  /\ Nested(s, "(", ")")
           /\ \A type \in DOMAIN Signs : Count(s, Signs[type]) = 0
<1>1. /\ DOMAIN s = 1 .. Len(s) /\ Len(s) \in Nat
      /\ \A i \in DOMAIN s : s[i] \notin {"(", ")", "+", "<", "&", "!", ":"}
  BY DEF Bare
<1>2. Nested(s, "(", ")")
  <2>1. \A i \in 1 .. Len(s) : s[i] # "(" /\ s[i] # ")"
    BY <1>1
  <2> QED BY <2>1, NestedNone
<1>3. ASSUME NEW type \in DOMAIN Signs PROVE Count(s, Signs[type]) = 0
  <2>1. Signs[type] \in {"+", "<", "&", "!", ":"}
    BY DEF Signs
  <2>2. \A i \in 1 .. Len(s) : s[i] # Signs[type]
    BY <1>1, <2>1
  <2>3. Count(s, Signs[type]) = CountTo(s, Len(s), Signs[type])
    BY CountIs
  <2> QED BY <1>1, <2>2, <2>3, CountNone
<1> QED BY <1>2, <1>3

\* A sign is no bracket.
LEMMA SignAdds ==
    ASSUME NEW x \in Punctuation, x # "(", x # ")"
    PROVE  Nested(<<x>>, "(", ")")
<1>1. <<x>> \in Seq({x}) /\ Len(<<x>>) = 1 /\ <<x>>[1] = x
  OBVIOUS
<1>2. \A i \in 1 .. Len(<<x>>) : <<x>>[i] # "(" /\ <<x>>[i] # ")"
  BY <1>1
<1> QED BY <1>1, <1>2, NestedNone

LEMMA ReadsNothing ==
    ASSUME NEW expr \in Expression, NEW n \in 0 .. Len(expr)
    PROVE  Reads(<<>>, expr, n, n)
<1>1. <<>> \in Seq(Char) /\ Bare(<<>>)
  BY DEF Bare
<1>2. LeafWords(expr, n) \in Seq(Char)
  BY LeafWordsAre
<1>3. LeafWords(expr, n) = LeafWords(expr, n) \o Words(<<>>)
  BY <1>2, WordsShort
<1>4. SignsOf(<<>>, expr, n, n)
  <2>1. Nested(<<>>, "(", ")") /\ \A type \in DOMAIN Signs : Count(<<>>, Signs[type]) = 0
    BY <1>1, BareHasNone
  <2>2. n \in Nat
    BY TreeIs
  <2>3. \A type : NodesOf(expr, n, type) \in Nat
    BY <2>2, NodesOfAre
  <2> QED BY <2>1, <2>3 DEF SignsOf
<1> QED BY <1>1, <1>3, <1>4 DEF Reads

LEMMA ReadsJoin ==
    ASSUME NEW expr \in Expression, NEW s, NEW t,
           NEW l \in 0 .. Len(expr), NEW m \in 0 .. Len(expr), NEW n \in 0 .. Len(expr),
           Reads(s, expr, l, m), Reads(t, expr, m, n)
    PROVE  Reads(s \o t, expr, l, n)
<1>1. s \in Seq(Char) /\ t \in Seq(Char) /\ s \o t \in Seq(Char)
  BY DEF Reads
<1>2. LeafWords(expr, n) = LeafWords(expr, l) \o Words(s \o t)
  <2>1. Words(s \o t) = Words(s) \o Words(t) /\ Words(s) \in Seq(Char) /\ Words(t) \in Seq(Char)
    BY <1>1, WordsConcat
  <2>2. /\ LeafWords(expr, n) = LeafWords(expr, m) \o Words(t)
        /\ LeafWords(expr, m) = LeafWords(expr, l) \o Words(s)
    BY DEF Reads
  <2>3. LeafWords(expr, l) \in Seq(Char)
    BY LeafWordsAre
  <2>4. (LeafWords(expr, l) \o Words(s)) \o Words(t) = LeafWords(expr, l) \o (Words(s) \o Words(t))
    <3>1. PICK w : w = LeafWords(expr, l)
      OBVIOUS
    <3>2. PICK a : a = Words(s)
      OBVIOUS
    <3>3. PICK b : b = Words(t)
      OBVIOUS
    <3>4. w \in Seq(Char) /\ a \in Seq(Char) /\ b \in Seq(Char)
      BY <2>1, <2>3, <3>1, <3>2, <3>3
    <3>5. (w \o a) \o b = w \o (a \o b)
      BY <3>4, TextAssociative
    <3> QED BY <3>1, <3>2, <3>3, <3>5, Zenon
  <2> QED BY <2>1, <2>2, <2>4, Zenon
<1>3. ASSUME BareTree(expr) PROVE SignsOf(s \o t, expr, l, n)
  <2>1. SignsOf(s, expr, l, m) /\ SignsOf(t, expr, m, n)
    BY <1>3 DEF Reads
  <2>2. Nested(s \o t, "(", ")")
    BY <1>1, <2>1, NestedJoined DEF SignsOf
  <2>3. ASSUME NEW type \in DOMAIN Signs
        PROVE  NodesOf(expr, n, type) = NodesOf(expr, l, type) + Count(s \o t, Signs[type])
    <3>1. /\ NodesOf(expr, n, type) = NodesOf(expr, m, type) + Count(t, Signs[type])
          /\ NodesOf(expr, m, type) = NodesOf(expr, l, type) + Count(s, Signs[type])
      BY <2>1 DEF SignsOf
    <3>2. /\ Count(s \o t, Signs[type]) = Count(s, Signs[type]) + Count(t, Signs[type])
          /\ Count(s, Signs[type]) \in Nat
      BY <1>1, CountConcat
    <3>3. Count(t, Signs[type]) \in Nat
      BY <1>1, CountConcat
    <3>4. NodesOf(expr, l, type) \in Nat
      <4>1. l \in Nat
        BY TreeIs
      <4> QED BY <4>1, NodesOfAre
    <3> QED BY <3>1, <3>2, <3>3, <3>4
  <2> QED BY <2>2, <2>3 DEF SignsOf
<1> QED BY <1>1, <1>2, <1>3 DEF Reads


\* A mark that is no sign of a node changes nothing.
LEMMA ReadsMark ==
    ASSUME NEW expr \in Expression, NEW n \in 0 .. Len(expr)
    PROVE  Reads(<<"?">>, expr, n, n)
<1>1. PICK x : x = "?"
  OBVIOUS
<1>2. x \in Punctuation /\ x # "(" /\ x # ")"
  <2>1. "?" \in Punctuation
    BY Zenon DEF Punctuation
  <2> QED BY <1>1, <2>1
<1>3. <<x>> \in Seq(Char) /\ Words(<<x>>) = <<>>
  BY <1>2, WordsShort
<1>4. LeafWords(expr, n) = LeafWords(expr, n) \o Words(<<x>>)
  <2>1. LeafWords(expr, n) \in Seq(Char)
    BY LeafWordsAre
  <2> QED BY <1>3, <2>1
<1>5. SignsOf(<<x>>, expr, n, n)
  <2>1. Nested(<<x>>, "(", ")")
    BY <1>2, SignAdds
  <2>2. ASSUME NEW type \in DOMAIN Signs
        PROVE  NodesOf(expr, n, type) = NodesOf(expr, n, type) + Count(<<x>>, Signs[type])
    <3>1. x # Signs[type]
      BY <1>1, SignsAre
    <3>2. Count(<<x>>, Signs[type]) = 0
      BY <3>1, CountOne
    <3>3. n \in Nat
      BY TreeIs
    <3>4. NodesOf(expr, n, type) \in Nat
      BY <3>3, NodesOfAre
    <3> QED BY <3>2, <3>4
  <2> QED BY <2>1, <2>2 DEF SignsOf
<1> QED BY <1>1, <1>3, <1>4, <1>5 DEF Reads

\* The node after n has no leaf, so it changes the words of no text.
LEMMA NoLeaf ==
    ASSUME NEW expr \in Expression, NEW n \in 0 .. Len(expr) - 1, Leaf(expr[n + 1]) = <<>>
    PROVE  LeafWords(expr, n + 1) = LeafWords(expr, n)
<1>1. n \in 0 .. Len(expr)
  BY TreeIs
<1>2. LeafWords(expr, n) \in Seq(Char)
  BY <1>1, LeafWordsAre
<1>3. LeafWords(expr, n + 1) = LeafWords(expr, n) \o Words(Leaf(expr[n + 1]))
  BY LeafWordsAre
<1>4. Words(Leaf(expr[n + 1])) = <<>>
  BY WordsShort
<1> QED BY <1>2, <1>3, <1>4

\* The sign of the node after n.
LEMMA ReadsSign ==
    ASSUME NEW expr \in Expression, NEW n \in 0 .. Len(expr) - 1, expr[n + 1].type \in DOMAIN Signs
    PROVE  Reads(<<Signs[expr[n + 1].type]>>, expr, n, n + 1)
<1>0. PICK x : x = Signs[expr[n + 1].type]
  OBVIOUS
<1>1. Leaf(expr[n + 1]) = <<>>
  BY DEF Leaf, Signs
<1>2. x \in Punctuation /\ x # "(" /\ x # ")"
  BY <1>0, SignsAre
<1>3. <<x>> \in Seq(Char) /\ Words(<<x>>) = <<>>
  BY <1>2, WordsShort
<1>4. LeafWords(expr, n + 1) = LeafWords(expr, n) \o Words(<<x>>)
  <2>1. n \in 0 .. Len(expr)
    BY TreeIs
  <2>2. LeafWords(expr, n) \in Seq(Char)
    BY <2>1, LeafWordsAre
  <2>3. LeafWords(expr, n + 1) = LeafWords(expr, n)
    BY <1>1, NoLeaf
  <2> QED BY <1>3, <2>2, <2>3
<1>5. SignsOf(<<x>>, expr, n, n + 1)
  <2>1. Nested(<<x>>, "(", ")")
    BY <1>2, SignAdds
  <2>2. ASSUME NEW type \in DOMAIN Signs
        PROVE  NodesOf(expr, n + 1, type) = NodesOf(expr, n, type) + Count(<<x>>, Signs[type])
    <3>1. Count(<<x>>, Signs[type]) = IF expr[n + 1].type = type THEN 1 ELSE 0
      <4>1. Count(<<x>>, Signs[type]) = IF x = Signs[type] THEN 1 ELSE 0
        BY CountOne
      <4>2. x = Signs[type] <=> expr[n + 1].type = type
        BY <1>0, SignsAre
      <4> QED BY <4>1, <4>2
    <3>2. NodesOf(expr, n + 1, type) =
              NodesOf(expr, n, type) + (IF expr[n + 1].type = type THEN 1 ELSE 0)
      BY NodesOfAre
    <3> QED BY <3>1, <3>2
  <2> QED BY <2>1, <2>2 DEF SignsOf
<1> QED BY <1>0, <1>3, <1>4, <1>5 DEF Reads

\* A leaf: its text, or that in quotes.
LEMMA ReadsLeaf ==
    ASSUME NEW expr \in Expression, NEW n \in 0 .. Len(expr) - 1,
           expr[n + 1].type \in {"LITERAL_EXPR", "IDENTIFIER_EXPR"},
           NEW t \in Seq(Char), Words(t) = Words(Leaf(expr[n + 1])),
           Bare(Leaf(expr[n + 1])) => Bare(t)
    PROVE  Reads(t, expr, n, n + 1)
<1>1. LeafWords(expr, n + 1) = LeafWords(expr, n) \o Words(t)
  BY LeafWordsAre
<1>2. ASSUME BareTree(expr) PROVE SignsOf(t, expr, n, n + 1)
  <2>1. n + 1 \in DOMAIN expr
    BY TreeIs
  <2>2. Bare(t)
    BY <1>2, <2>1 DEF BareTree
  <2>3. Nested(t, "(", ")") /\ \A type \in DOMAIN Signs : Count(t, Signs[type]) = 0
    BY <2>2, BareHasNone
  <2>4. ASSUME NEW type \in DOMAIN Signs
        PROVE  NodesOf(expr, n + 1, type) = NodesOf(expr, n, type) + Count(t, Signs[type])
    <3>1. expr[n + 1].type # type
      BY SignsAre
    <3>2. NodesOf(expr, n + 1, type) =
              NodesOf(expr, n, type) + (IF expr[n + 1].type = type THEN 1 ELSE 0)
      BY NodesOfAre
    <3> QED BY <2>3, <3>1, <3>2
  <2> QED BY <2>3, <2>4 DEF SignsOf
<1> QED BY <1>1, <1>2 DEF Reads

\* Brackets around a text.
LEMMA ReadsBracketed ==
    ASSUME NEW expr \in Expression, NEW t, NEW m, NEW n, Reads(t, expr, m, n)
    PROVE  Reads((<<"(">> \o t) \o <<")">>, expr, m, n)
<1>0. PICK o : o = "("
  OBVIOUS
<1>00. PICK c : c = ")"
  OBVIOUS
<1>1. t \in Seq(Char) /\ o \in Punctuation /\ c \in Punctuation
  BY <1>0, <1>00, Zenon DEF Reads, Punctuation
<1>2. /\ <<o>> \in Seq(Char) /\ Words(<<o>>) = <<>>
      /\ <<c>> \in Seq(Char) /\ Words(<<c>>) = <<>>
      /\ o \in Char /\ c \in Char
  BY <1>1, WordsShort, GeneratorAssumption
<1>3. <<o>> \o t \in Seq(Char) /\ (<<o>> \o t) \o <<c>> \in Seq(Char)
  BY <1>1, <1>2
<1>4. Words((<<o>> \o t) \o <<c>>) = Words(t)
  <2>1. Words((<<o>> \o t) \o <<c>>) = Words(<<o>> \o t) \o Words(<<c>>)
    BY <1>2, <1>3, WordsConcat
  <2>2. Words(<<o>> \o t) = Words(<<o>>) \o Words(t) /\ Words(t) \in Seq(Char)
    BY <1>1, <1>2, WordsConcat
  <2>3. \A w \in Seq(Char) : (<<>> \o w) \o <<>> = w
    OBVIOUS
  <2> QED BY <1>2, <2>1, <2>2, <2>3, Zenon
<1>5. ASSUME BareTree(expr) PROVE SignsOf((<<o>> \o t) \o <<c>>, expr, m, n)
  <2>1. SignsOf(t, expr, m, n)
    BY <1>5 DEF Reads
  <2>2. Nested((<<o>> \o t) \o <<c>>, o, c)
    <3>1. Nested(t, o, c) /\ o # c
      BY <1>0, <1>00, <2>1 DEF SignsOf
    <3> QED BY <1>1, <1>2, <3>1, NestedBracketed
  <2>3. ASSUME NEW type \in DOMAIN Signs
        PROVE  Count((<<o>> \o t) \o <<c>>, Signs[type]) = Count(t, Signs[type])
    <3>1. /\ Count((<<o>> \o t) \o <<c>>, Signs[type])
                 = Count(<<o>> \o t, Signs[type]) + Count(<<c>>, Signs[type])
      BY <1>2, <1>3, CountConcat
    <3>2. Count(<<o>> \o t, Signs[type]) = Count(<<o>>, Signs[type]) + Count(t, Signs[type])
      BY <1>1, <1>2, CountConcat
    <3>3. Count(t, Signs[type]) \in Nat
      BY <1>1, CountConcat
    <3>4. o # Signs[type] /\ c # Signs[type]
      BY <1>0, <1>00, SignsAre
    <3>5. Count(<<o>>, Signs[type]) = 0 /\ Count(<<c>>, Signs[type]) = 0
      BY <3>4, CountOne
    <3> QED BY <3>1, <3>2, <3>3, <3>5
  <2> QED BY <1>0, <1>00, <2>1, <2>2, <2>3 DEF SignsOf
<1> QED BY <1>0, <1>00, <1>3, <1>4, <1>5 DEF Reads

\* A node of its own brackets has no sign.
LEMMA ReadsParenthesized ==
    ASSUME NEW expr \in Expression, NEW t, NEW m, NEW n \in 0 .. Len(expr) - 1,
           Reads(t, expr, m, n), expr[n + 1].type = "PARENTHESIZED_EXPR"
    PROVE  Reads(t, expr, m, n + 1)
<1>1. Leaf(expr[n + 1]) = <<>>
  BY DEF Leaf
<1>2. LeafWords(expr, n + 1) = LeafWords(expr, n)
  BY <1>1, NoLeaf
<1>3. ASSUME NEW type \in DOMAIN Signs PROVE NodesOf(expr, n + 1, type) = NodesOf(expr, n, type)
  <2>1. expr[n + 1].type # type
    BY SignsAre
  <2>2. NodesOf(expr, n + 1, type) =
            NodesOf(expr, n, type) + (IF expr[n + 1].type = type THEN 1 ELSE 0)
    BY NodesOfAre
  <2>3. n \in Nat
    BY TreeIs
  <2>4. NodesOf(expr, n, type) \in Nat
    BY <2>3, NodesOfAre
  <2> QED BY <2>1, <2>2, <2>4
<1> QED BY <1>2, <1>3 DEF Reads, SignsOf


\* The sign of a node between the texts of its operands.
LEMMA ReadsBetween ==
    ASSUME NEW expr \in Expression, NEW s, NEW t,
           NEW l \in 0 .. Len(expr), NEW m \in 0 .. Len(expr), NEW n \in 0 .. Len(expr) - 1,
           Reads(s, expr, l, m), Reads(t, expr, m, n), expr[n + 1].type \in DOMAIN Signs
    PROVE  Reads((s \o <<Signs[expr[n + 1].type]>>) \o t, expr, l, n + 1)
<1>0. PICK x : x = Signs[expr[n + 1].type]
  OBVIOUS
<1>1. n \in 0 .. Len(expr) /\ n + 1 \in 0 .. Len(expr)
  BY TreeIs
<1>2. x \in Punctuation /\ x # "(" /\ x # ")"
  BY <1>0, SignsAre
<1>3. <<x>> \in Seq(Char) /\ Words(<<x>>) = <<>>
  BY <1>2, WordsShort
<1>4. s \in Seq(Char) /\ t \in Seq(Char)
  BY DEF Reads
<1>5. PICK u : u = s \o t
  OBVIOUS
<1>6. PICK w : w = s \o <<x>>
  OBVIOUS
<1>7. u \in Seq(Char) /\ w \in Seq(Char) /\ u \o <<x>> \in Seq(Char) /\ w \o t \in Seq(Char)
  BY <1>3, <1>4, <1>5, <1>6
<1>8. Reads(u \o <<x>>, expr, l, n + 1)
  <2>1. Reads(u, expr, l, n)
    BY <1>1, <1>5, ReadsJoin
  <2>2. Reads(<<x>>, expr, n, n + 1)
    BY <1>0, ReadsSign
  <2> QED BY <1>1, <2>1, <2>2, ReadsJoin
<1>9. Words(u \o <<x>>) = Words(w \o t)
  <2>1. /\ Words(u \o <<x>>) = Words(u) \o Words(<<x>>) /\ Words(u) = Words(s) \o Words(t)
        /\ Words(s) \in Seq(Char)
    BY <1>3, <1>4, <1>5, <1>7, WordsConcat
  <2>2. /\ Words(w \o t) = Words(w) \o Words(t) /\ Words(w) = Words(s) \o Words(<<x>>)
        /\ Words(t) \in Seq(Char)
    BY <1>3, <1>4, <1>6, <1>7, WordsConcat
  <2>3. \A a, b \in Seq(Char) : (a \o b) \o <<>> = (a \o <<>>) \o b
    OBVIOUS
  <2>4. Words(u \o <<x>>) = (Words(s) \o Words(t)) \o <<>>
    BY <1>3, <2>1, Zenon
  <2>5. Words(w \o t) = (Words(s) \o <<>>) \o Words(t)
    BY <1>3, <2>2, Zenon
  <2>6. (Words(s) \o Words(t)) \o <<>> = (Words(s) \o <<>>) \o Words(t)
    BY <2>1, <2>2, <2>3, Zenon
  <2> QED BY <2>4, <2>5, <2>6, Zenon
<1>10. ASSUME NEW c PROVE Count(u \o <<x>>, c) = Count(w \o t, c)
  <2>1. /\ Count(u \o <<x>>, c) = Count(u, c) + Count(<<x>>, c)
        /\ Count(w \o t, c) = Count(w, c) + Count(t, c)
    BY <1>3, <1>4, <1>7, CountConcat
  <2>2. Count(u, c) = Count(s, c) + Count(t, c) /\ Count(w, c) = Count(s, c) + Count(<<x>>, c)
    BY <1>3, <1>4, <1>5, <1>6, CountConcat
  <2>3. Count(s, c) \in Nat
    BY <1>4, CountConcat
  <2>4. Count(t, c) \in Nat
    BY <1>4, CountConcat
  <2>5. Count(<<x>>, c) \in Nat
    BY <1>3, CountConcat
  <2> QED BY <2>1, <2>2, <2>3, <2>4, <2>5
<1>11. ASSUME BareTree(expr) PROVE SignsOf(w \o t, expr, l, n + 1)
  <2>1. Nested(s, "(", ")") /\ Nested(t, "(", ")") /\ Nested(<<x>>, "(", ")")
    BY <1>2, <1>11, SignAdds DEF Reads, SignsOf
  <2>2. Nested(w, "(", ")")
    BY <1>3, <1>4, <1>6, <2>1, NestedJoined
  <2>3. Nested(w \o t, "(", ")")
    BY <1>4, <1>7, <2>1, <2>2, NestedJoined
  <2>4. SignsOf(u \o <<x>>, expr, l, n + 1)
    BY <1>8, <1>11 DEF Reads
  <2> QED BY <1>10, <2>3, <2>4 DEF SignsOf
<1>12. Reads(w \o t, expr, l, n + 1)
  BY <1>7, <1>8, <1>9, <1>11 DEF Reads
<1> QED BY <1>0, <1>6, <1>12


-----------------------------------------------------------------------------
(* The calls of each node read as the nodes below it, and it               *)

LEMMA QuoteIs == EscapedQuote \in Seq(Char) /\ Words(EscapedQuote) = <<>> /\ Bare(EscapedQuote)
<1>1. PICK a : a = "\\"
  OBVIOUS
<1>2. PICK b : b = "\""
  OBVIOUS
<1>3. a \in Punctuation /\ b \in Punctuation
  BY <1>1, <1>2, Zenon DEF Punctuation
<1>4. a \notin {"(", ")", "+", "<", "&", "!", ":"} /\ b \notin {"(", ")", "+", "<", "&", "!", ":"}
  BY <1>1, <1>2, Zenon
<1>5. EscapedQuote = <<a, b>>
  BY <1>1, <1>2, Zenon DEF EscapedQuote
<1>6. <<a, b>> = <<a>> \o <<b>> /\ DOMAIN <<a, b>> = {1, 2} /\ <<a, b>>[1] = a /\ <<a, b>>[2] = b
  OBVIOUS
<1>7. /\ <<a>> \in Seq(Char) /\ Words(<<a>>) = <<>>
      /\ <<b>> \in Seq(Char) /\ Words(<<b>>) = <<>>
  BY <1>3, WordsShort
<1>8. <<a>> \o <<b>> \in Seq(Char) /\ <<>> \o <<>> = <<>>
  BY <1>7
<1>9. Words(<<a>> \o <<b>>) = Words(<<a>>) \o Words(<<b>>)
  BY <1>7, WordsConcat
<1>10. Bare(<<a, b>>)
  BY <1>4, <1>6 DEF Bare
<1> QED BY <1>5, <1>6, <1>7, <1>8, <1>9, <1>10, Zenon

LEMMA BareConcat ==
    ASSUME NEW s \in Seq(Char), NEW t \in Seq(Char), Bare(s), Bare(t)
    PROVE  Bare(s \o t)
<1>0. PICK u : u = s \o t
  OBVIOUS
<1>1. /\ DOMAIN u = 1 .. Len(u) /\ Len(u) = Len(s) + Len(t) /\ Len(s) \in Nat /\ Len(t) \in Nat
      /\ \A i \in 1 .. Len(s) : u[i] = s[i]
      /\ \A i \in 1 .. Len(t) : u[Len(s) + i] = t[i]
      /\ DOMAIN s = 1 .. Len(s) /\ DOMAIN t = 1 .. Len(t)
  BY <1>0
<1>2. ASSUME NEW i \in 1 .. Len(u)
      PROVE  u[i] \notin {"(", ")", "+", "<", "&", "!", ":"}
  <2>1. CASE i <= Len(s)
    <3>1. i \in 1 .. Len(s) /\ u[i] = s[i]
      BY <1>1, <2>1
    <3> QED BY <1>1, <3>1 DEF Bare
  <2>2. CASE i > Len(s)
    <3>1. PICK j : j = i - Len(s)
      OBVIOUS
    <3>2. j \in 1 .. Len(t) /\ i = Len(s) + j
      BY <1>1, <2>2, <3>1
    <3>3. u[i] = t[j]
      BY <1>1, <3>2
    <3> QED BY <1>1, <3>2, <3>3 DEF Bare
  <2> QED BY <1>1, <2>1, <2>2
<1> QED BY <1>0, <1>1, <1>2 DEF Bare

LEMMA LiteralReads ==
    ASSUME NEW type \in LiteralType
    PROVE  /\ literalCalls(type) \in Seq(Call)
           /\ TextOf(literalCalls(type)) \in Seq(Char)
           /\ Words(TextOf(literalCalls(type))) = Words(rendering[type])
           /\ Bare(rendering[type]) => Bare(TextOf(literalCalls(type)))
<1>0. PICK r : r = rendering[type]
  OBVIOUS
<1>1. r \in Seq(Char)
  BY <1>0, GeneratorAssumption
<1>2. /\ append(r) \in Seq(Call) /\ TextOf(append(r)) = r
      /\ printf(r) \in Seq(Call) /\ TextOf(printf(r)) = r
  BY <1>1, TextShort
<1>3. CASE type \in {"INTEGER_LITERAL", "DECIMAL_LITERAL"}
  <2>1. literalCalls(type) = printf(r)
    BY <1>0, <1>3, Zenon DEF literalCalls
  <2> QED BY <1>0, <1>1, <1>2, <2>1
<1>4. CASE type = "BOOLEAN_LITERAL"
  <2>1. literalCalls(type) = append(r)
    BY <1>0, <1>4, Zenon DEF literalCalls
  <2> QED BY <1>0, <1>1, <1>2, <2>1
<1>5. CASE type = "STRING_LITERAL"
  <2>1. PICK q : q = EscapedQuote
    OBVIOUS
  <2>2. q \in Seq(Char) /\ Words(q) = <<>> /\ Bare(q)
    BY <2>1, QuoteIs
  <2>3. literalCalls(type) = append(q) \o append(r) \o append(q)
    BY <1>0, <1>5, <2>1, Zenon DEF literalCalls
  <2>4. append(q) \in Seq(Call) /\ TextOf(append(q)) = q
    BY <2>2, TextShort
  <2>5. /\ append(q) \o append(r) \in Seq(Call)
        /\ TextOf(append(q) \o append(r)) = q \o r
    BY <1>2, <2>4, TextConcat
  <2>6. /\ literalCalls(type) \in Seq(Call)
        /\ TextOf(literalCalls(type)) = (q \o r) \o q
    BY <2>3, <2>4, <2>5, TextConcat
  <2>7. q \o r \in Seq(Char) /\ (q \o r) \o q \in Seq(Char)
    BY <1>1, <2>2
  <2>8. Words((q \o r) \o q) = (Words(q) \o Words(r)) \o Words(q) /\ Words(r) \in Seq(Char)
    <3>1. Words((q \o r) \o q) = Words(q \o r) \o Words(q)
      BY <2>2, <2>7, WordsConcat
    <3>2. Words(q \o r) = Words(q) \o Words(r)
      BY <1>1, <2>2, WordsConcat
    <3>3. Words(r) \in Seq(Char)
      BY <1>1, WordsConcat
    <3> QED BY <3>1, <3>2, <3>3
  <2>9. Words((q \o r) \o q) = Words(r)
    <3>1. \A w \in Seq(Char) : (<<>> \o w) \o <<>> = w
      OBVIOUS
    <3> QED BY <2>2, <2>8, <3>1, Zenon
  <2>10. Bare(r) => Bare((q \o r) \o q)
    BY <1>1, <2>2, <2>7, BareConcat
  <2> QED BY <1>0, <2>6, <2>7, <2>9, <2>10
<1> QED BY <1>3, <1>4, <1>5 DEF LiteralType

\* The calls c read as the nodes from m + 1 to n.
CallsRead(c, expr, m, n) == c \in Seq(Call) /\ Reads(TextOf(c), expr, m, n)

LEMMA MarkCalls ==
    ASSUME NEW c \in Punctuation
    PROVE  <<c>> \in Seq(Char) /\ append(<<c>>) \in Seq(Call) /\ TextOf(append(<<c>>)) = <<c>>
<1>1. <<c>> \in Seq(Char)
  BY WordsShort
<1> QED BY <1>1, TextShort

LEMMA MarksAre ==
    /\ "(" \in Punctuation /\ ")" \in Punctuation /\ "+" \in Punctuation /\ "<" \in Punctuation
    /\ "&" \in Punctuation /\ "!" \in Punctuation /\ "?" \in Punctuation /\ ":" \in Punctuation
BY Zenon DEF Punctuation


LEMMA SignIs ==
    /\ Signs["ARITHMETIC_EXPR"] = "+" /\ Signs["RELATIONAL_EXPR"] = "<"
    /\ Signs["LOGICAL_EXPR"] = "&" /\ Signs["LOGICAL_NOT_EXPR"] = "!"
    /\ Signs["CONDITIONAL_EXPR"] = ":"
BY DEF Signs

LEMMA CallsBetween ==
    ASSUME NEW expr \in Expression, NEW p, NEW q, NEW x, x \in Punctuation,
           NEW l \in 0 .. Len(expr), NEW m \in 0 .. Len(expr), NEW n \in 0 .. Len(expr) - 1,
           CallsRead(p, expr, l, m), CallsRead(q, expr, m, n),
           expr[n + 1].type \in DOMAIN Signs, x = Signs[expr[n + 1].type]
    PROVE  CallsRead(p \o append(<<x>>) \o q, expr, l, n + 1)
<1>1. /\ p \in Seq(Call) /\ Reads(TextOf(p), expr, l, m)
      /\ q \in Seq(Call) /\ Reads(TextOf(q), expr, m, n)
  BY DEF CallsRead
<1>2. append(<<x>>) \in Seq(Call) /\ TextOf(append(<<x>>)) = <<x>>
  BY MarkCalls
<1>3. p \o append(<<x>>) \in Seq(Call) /\ TextOf(p \o append(<<x>>)) = TextOf(p) \o <<x>>
  <2>1. PICK a : a = append(<<x>>)
    OBVIOUS
  <2>2. a \in Seq(Call) /\ TextOf(a) = <<x>>
    BY <1>2, <2>1
  <2>3. p \o a \in Seq(Call) /\ TextOf(p \o a) = TextOf(p) \o TextOf(a)
    BY <1>1, <2>2, TextConcat
  <2> QED BY <2>1, <2>2, <2>3, Zenon
<1>4. /\ (p \o append(<<x>>)) \o q \in Seq(Call)
      /\ TextOf((p \o append(<<x>>)) \o q) = (TextOf(p) \o <<x>>) \o TextOf(q)
  <2>1. PICK w : w = p \o append(<<x>>)
    OBVIOUS
  <2>2. w \in Seq(Call) /\ TextOf(w) = TextOf(p) \o <<x>>
    BY <1>3, <2>1
  <2>3. w \o q \in Seq(Call) /\ TextOf(w \o q) = TextOf(w) \o TextOf(q)
    BY <1>1, <2>2, TextConcat
  <2> QED BY <2>1, <2>2, <2>3, Zenon
<1>5. Reads((TextOf(p) \o <<x>>) \o TextOf(q), expr, l, n + 1)
  BY <1>1, ReadsBetween
<1> QED BY <1>4, <1>5 DEF CallsRead

LEMMA CallsBefore ==
    ASSUME NEW expr \in Expression, NEW p, NEW x, x \in Punctuation,
           NEW l \in 0 .. Len(expr), NEW n \in 0 .. Len(expr) - 1, CallsRead(p, expr, l, n),
           expr[n + 1].type \in DOMAIN Signs, x = Signs[expr[n + 1].type]
    PROVE  CallsRead(append(<<x>>) \o p, expr, l, n + 1)
<1>1. p \in Seq(Call) /\ Reads(TextOf(p), expr, l, n)
  BY DEF CallsRead
<1>2. append(<<x>>) \in Seq(Call) /\ TextOf(append(<<x>>)) = <<x>>
  BY MarkCalls
<1>3. append(<<x>>) \o p \in Seq(Call) /\ TextOf(append(<<x>>) \o p) = <<x>> \o TextOf(p)
  BY <1>1, <1>2, TextConcat
<1>4. Reads(<<>>, expr, l, l)
  BY ReadsNothing
<1>5. Reads((<<>> \o <<x>>) \o TextOf(p), expr, l, n + 1)
  BY <1>1, <1>4, ReadsBetween
<1>6. <<>> \o <<x>> = <<x>>
  OBVIOUS
<1> QED BY <1>3, <1>5, <1>6 DEF CallsRead

LEMMA CallsBracketed ==
    ASSUME NEW expr \in Expression, NEW p, NEW l, NEW n, CallsRead(p, expr, l, n)
    PROVE  CallsRead((append(<<"(">>) \o p) \o append(<<")">>), expr, l, n)
<1>0. PICK o : o = "("
  OBVIOUS
<1>00. PICK c : c = ")"
  OBVIOUS
<1>1. p \in Seq(Call) /\ Reads(TextOf(p), expr, l, n)
  BY DEF CallsRead
<1>2. /\ append(<<o>>) \in Seq(Call) /\ TextOf(append(<<o>>)) = <<o>>
      /\ append(<<c>>) \in Seq(Call) /\ TextOf(append(<<c>>)) = <<c>>
  BY <1>0, <1>00, MarksAre, MarkCalls
<1>3. append(<<o>>) \o p \in Seq(Call) /\ TextOf(append(<<o>>) \o p) = <<o>> \o TextOf(p)
  BY <1>1, <1>2, TextConcat
<1>4. /\ (append(<<o>>) \o p) \o append(<<c>>) \in Seq(Call)
      /\ TextOf((append(<<o>>) \o p) \o append(<<c>>)) = (<<o>> \o TextOf(p)) \o <<c>>
  BY <1>2, <1>3, TextConcat
<1>5. Reads((<<o>> \o TextOf(p)) \o <<c>>, expr, l, n)
  BY <1>0, <1>00, <1>1, ReadsBracketed
<1> QED BY <1>0, <1>00, <1>4, <1>5 DEF CallsRead

\* The middle of a conditional.
LEMMA CallsMarked ==
    ASSUME NEW expr \in Expression, NEW p, NEW q,
           NEW l \in 0 .. Len(expr), NEW m \in 0 .. Len(expr), NEW n \in 0 .. Len(expr),
           CallsRead(p, expr, l, m), CallsRead(q, expr, m, n)
    PROVE  CallsRead((p \o append(<<"?">>)) \o q, expr, l, n)
<1>0. PICK x : x = "?"
  OBVIOUS
<1>1. /\ p \in Seq(Call) /\ Reads(TextOf(p), expr, l, m)
      /\ q \in Seq(Call) /\ Reads(TextOf(q), expr, m, n)
  BY DEF CallsRead
<1>2. append(<<x>>) \in Seq(Call) /\ TextOf(append(<<x>>)) = <<x>>
  BY <1>0, MarksAre, MarkCalls
<1>3. p \o append(<<x>>) \in Seq(Call) /\ TextOf(p \o append(<<x>>)) = TextOf(p) \o <<x>>
  <2>1. PICK a : a = append(<<x>>)
    OBVIOUS
  <2>2. a \in Seq(Call) /\ TextOf(a) = <<x>>
    BY <1>2, <2>1
  <2>3. p \o a \in Seq(Call) /\ TextOf(p \o a) = TextOf(p) \o TextOf(a)
    BY <1>1, <2>2, TextConcat
  <2> QED BY <2>1, <2>2, <2>3, Zenon
<1>4. /\ (p \o append(<<x>>)) \o q \in Seq(Call)
      /\ TextOf((p \o append(<<x>>)) \o q) = (TextOf(p) \o <<x>>) \o TextOf(q)
  <2>1. PICK w : w = p \o append(<<x>>)
    OBVIOUS
  <2>2. w \in Seq(Call) /\ TextOf(w) = TextOf(p) \o <<x>>
    BY <1>3, <2>1
  <2>3. w \o q \in Seq(Call) /\ TextOf(w \o q) = TextOf(w) \o TextOf(q)
    BY <1>1, <2>2, TextConcat
  <2> QED BY <2>1, <2>2, <2>3, Zenon
<1>5. Reads(<<x>>, expr, m, m)
  BY <1>0, ReadsMark
<1>6. Reads(TextOf(p) \o <<x>>, expr, l, m)
  BY <1>1, <1>5, ReadsJoin
<1>7. Reads((TextOf(p) \o <<x>>) \o TextOf(q), expr, l, n)
  BY <1>1, <1>6, ReadsJoin
<1> QED BY <1>0, <1>4, <1>7 DEF CallsRead

LEMMA CallsAssociative ==
    \A a, p, s, q \in Seq(Call) : ((a \o p) \o s) \o q = a \o ((p \o s) \o q)
<1> SUFFICES ASSUME NEW a \in Seq(Call), NEW p \in Seq(Call),
                    NEW s \in Seq(Call), NEW q \in Seq(Call)
             PROVE  ((a \o p) \o s) \o q = a \o ((p \o s) \o q)
  OBVIOUS
<1>1. PICK S : S = Call
  OBVIOUS
<1>2. a \in Seq(S) /\ p \in Seq(S) /\ s \in Seq(S) /\ q \in Seq(S)
  BY <1>1
<1>0. a \in Seq(S)
  BY <1>2
<1>3. PICK u : u = p \o s
  OBVIOUS
<1>4. u \in Seq(S)
  BY <1>2, <1>3
<1>5. \A x, y \in Seq(S) : (a \o x) \o y = a \o (x \o y)
  <2> TAKE x \in Seq(S), y \in Seq(S)
  <2>1. Joins(a, x, y)
    BY <1>0, Associative, Zenon
  <2> QED BY <2>1, Zenon DEF Joins
<1>6. (a \o p) \o s = a \o (p \o s)
  BY <1>2, <1>5, Zenon
<1>7. (a \o u) \o q = a \o (u \o q)
  BY <1>2, <1>4, <1>5, Zenon
<1> QED BY <1>3, <1>6, <1>7, Zenon


\* That node reads as the nodes below it, and it.
NodeReads(expr, i) ==
    /\ Begins(expr)[i] \in 1 .. i
    /\ CallsRead(CallsOf(expr)[i], expr, Begins(expr)[i] - 1, i)

\* What the operands of a node read as, if each does.
LEMMA OperandsRead ==
    ASSUME NEW expr \in Expression, NEW i \in DOMAIN expr, \A j \in 1 .. i - 1 : NodeReads(expr, j),
           NEW a, a = expr[i].args, NEW F, F = CallsOf(expr), NEW B, B = Begins(expr)
    PROVE  /\ Arity[expr[i].type] = 0 => B[i] = i
           /\ Arity[expr[i].type] >= 1 =>
                 /\ B[i] \in 1 .. i - 1 /\ a[1] \in 1 .. i - 1
                 /\ CallsRead(F[a[1]], expr, B[i] - 1, a[1])
           /\ Arity[expr[i].type] >= 2 =>
                 a[2] \in 1 .. i - 1 /\ CallsRead(F[a[2]], expr, a[1], a[2])
           /\ Arity[expr[i].type] >= 3 =>
                 a[3] \in 1 .. i - 1 /\ CallsRead(F[a[3]], expr, a[2], a[3])
           /\ Arity[expr[i].type] # 0 => a[Arity[expr[i].type]] = i - 1
<1>1. /\ i \in Nat /\ expr[i].type \in ExpressionType /\ Len(a) = Arity[expr[i].type]
      /\ DOMAIN a = 1 .. Len(a) /\ (\A k \in DOMAIN a : a[k] \in 1 .. i - 1)
      /\ (a = <<>> <=> Len(a) = 0)
  BY OperandsAre
<1>2. Len(a) \in 0 .. 3
  BY <1>1, ArityIs DEF ExpressionType
<1>3. \A k \in DOMAIN a : IF k = Len(a) THEN a[k] = i - 1 ELSE B[a[k + 1]] = a[k] + 1
  BY OperandsAdjoin
<1>4. B[i] = IF a = <<>> THEN i ELSE B[a[1]]
  BY BeginsIs DEF BeginStep
<1>5. \A j \in 1 .. i - 1 : B[j] \in 1 .. j /\ CallsRead(F[j], expr, B[j] - 1, j)
  BY DEF NodeReads
<1>6. Len(a) >= 1 => /\ B[i] \in 1 .. i - 1 /\ a[1] \in 1 .. i - 1
                     /\ CallsRead(F[a[1]], expr, B[i] - 1, a[1])
  <2> SUFFICES ASSUME Len(a) >= 1
               PROVE  /\ B[i] \in 1 .. i - 1 /\ a[1] \in 1 .. i - 1
                      /\ CallsRead(F[a[1]], expr, B[i] - 1, a[1])
    OBVIOUS
  <2>1. 1 \in DOMAIN a /\ a # <<>>
    BY <1>1, <1>2
  <2>2. a[1] \in 1 .. i - 1 /\ B[i] = B[a[1]]
    BY <1>1, <1>4, <2>1
  <2>3. B[a[1]] \in 1 .. a[1] /\ CallsRead(F[a[1]], expr, B[a[1]] - 1, a[1])
    BY <1>5, <2>2
  <2>4. B[i] \in 1 .. i - 1
    BY <1>1, <2>2, <2>3
  <2> QED BY <2>2, <2>3, <2>4
<1>7. Len(a) >= 2 => a[2] \in 1 .. i - 1 /\ CallsRead(F[a[2]], expr, a[1], a[2])
  <2> SUFFICES ASSUME Len(a) >= 2
               PROVE  a[2] \in 1 .. i - 1 /\ CallsRead(F[a[2]], expr, a[1], a[2])
    OBVIOUS
  <2>1. 1 \in DOMAIN a /\ 2 \in DOMAIN a /\ 1 # Len(a) /\ 1 + 1 = 2
    BY <1>1, <1>2
  <2>2. a[1] \in 1 .. i - 1 /\ a[2] \in 1 .. i - 1 /\ B[a[2]] = a[1] + 1
    BY <1>1, <1>3, <2>1
  <2>3. CallsRead(F[a[2]], expr, B[a[2]] - 1, a[2])
    BY <1>5, <2>2
  <2>4. B[a[2]] - 1 = a[1]
    BY <1>1, <2>2
  <2> QED BY <2>2, <2>3, <2>4
<1>8. Len(a) >= 3 => a[3] \in 1 .. i - 1 /\ CallsRead(F[a[3]], expr, a[2], a[3])
  <2> SUFFICES ASSUME Len(a) >= 3
               PROVE  a[3] \in 1 .. i - 1 /\ CallsRead(F[a[3]], expr, a[2], a[3])
    OBVIOUS
  <2>1. 3 \in DOMAIN a /\ 2 \in DOMAIN a /\ 2 # Len(a) /\ 2 + 1 = 3
    BY <1>1, <1>2
  <2>2. a[2] \in 1 .. i - 1 /\ a[3] \in 1 .. i - 1 /\ B[a[3]] = a[2] + 1
    BY <1>1, <1>3, <2>1
  <2>3. CallsRead(F[a[3]], expr, B[a[3]] - 1, a[3])
    BY <1>5, <2>2
  <2>4. B[a[3]] - 1 = a[2]
    BY <1>1, <2>2
  <2> QED BY <2>2, <2>3, <2>4
<1>9. Len(a) # 0 => a[Len(a)] = i - 1
  <2>1. Len(a) # 0 => Len(a) \in DOMAIN a
    BY <1>1, <1>2
  <2> QED BY <1>3, <2>1
<1>10. Len(a) = 0 => B[i] = i
  BY <1>1, <1>4
<1> QED BY <1>1, <1>6, <1>7, <1>8, <1>9, <1>10

LEMMA LeafReads ==
    ASSUME NEW expr \in Expression, NEW n \in 0 .. Len(expr) - 1, NEW c,
           \/ expr[n + 1].type = "LITERAL_EXPR" /\ c = literalCalls(expr[n + 1].leaf)
           \/ expr[n + 1].type = "IDENTIFIER_EXPR" /\ c = append(spelling[expr[n + 1].leaf])
    PROVE  CallsRead(c, expr, n, n + 1)
<1>0. PICK node : node = expr[n + 1]
  OBVIOUS
<1>1. n + 1 \in DOMAIN expr
  BY TreeIs
<1>2. Leaf(node) \in Seq(Char)
  BY <1>0, <1>1, LeavesAre
<1>3. /\ node.type = "LITERAL_EXPR" => node.leaf \in LiteralType
      /\ node.type = "IDENTIFIER_EXPR" => node.leaf \in Names
  BY <1>0, <1>1 DEF Expression
<1>4. /\ c \in Seq(Call) /\ TextOf(c) \in Seq(Char) /\ Words(TextOf(c)) = Words(Leaf(node))
      /\ Bare(Leaf(node)) => Bare(TextOf(c))
  <2>1. CASE node.type = "LITERAL_EXPR"
    <3>1. c = literalCalls(node.leaf) /\ Leaf(node) = rendering[node.leaf]
      BY <1>0, <2>1, Zenon DEF Leaf
    <3> QED BY <1>3, <2>1, <3>1, LiteralReads
  <2>2. CASE node.type = "IDENTIFIER_EXPR"
    <3>1. c = append(spelling[node.leaf]) /\ Leaf(node) = spelling[node.leaf]
      BY <1>0, <2>2, Zenon DEF Leaf
    <3>2. c \in Seq(Call) /\ TextOf(c) = Leaf(node)
      BY <1>2, <3>1, TextShort
    <3> QED BY <1>2, <3>2
  <2> QED BY <1>0, <2>1, <2>2
<1>5. Reads(TextOf(c), expr, n, n + 1)
  BY <1>0, <1>4, ReadsLeaf
<1> QED BY <1>4, <1>5 DEF CallsRead


LEMMA NodeReadsNext ==
    ASSUME NEW expr \in Expression, NEW i \in DOMAIN expr, \A j \in 1 .. i - 1 : NodeReads(expr, j)
    PROVE  NodeReads(expr, i)
<1>1. PICK n \in Int : n = i - 1
  BY OperandsAre
<1>2. n \in 0 .. Len(expr) - 1 /\ n + 1 = i /\ n \in 0 .. Len(expr) /\ i \in Nat
  BY <1>1, TreeIs
<1>3. PICK F : F = CallsOf(expr)
  OBVIOUS
<1>4. PICK B : B = Begins(expr)
  OBVIOUS
<1>5. PICK a : a = expr[i].args
  OBVIOUS
<1>6. PICK node : node = expr[i]
  OBVIOUS
<1>7. CallsFor(F[i], node, F[a[1]], F[a[2]], F[a[3]])
  <2>1. F[i] = nodeCalls(expr, F, i)
    BY <1>3, CallsAre
  <2> QED BY <1>5, <1>6, <2>1, NodeCallsAre
<1>8. /\ Arity[node.type] = 0 => B[i] = i
      /\ Arity[node.type] >= 1 =>
            /\ B[i] \in 1 .. i - 1 /\ a[1] \in 1 .. i - 1
            /\ CallsRead(F[a[1]], expr, B[i] - 1, a[1])
      /\ Arity[node.type] >= 2 => a[2] \in 1 .. i - 1 /\ CallsRead(F[a[2]], expr, a[1], a[2])
      /\ Arity[node.type] >= 3 => a[3] \in 1 .. i - 1 /\ CallsRead(F[a[3]], expr, a[2], a[3])
      /\ Arity[node.type] # 0 => a[Arity[node.type]] = i - 1
  BY <1>3, <1>4, <1>5, <1>6, OperandsRead
<1>9. node.type \in ExpressionType
  BY <1>6, OperandsAre
<1> SUFFICES B[i] \in 1 .. i /\ CallsRead(F[i], expr, B[i] - 1, n + 1)
  BY <1>2, <1>3, <1>4 DEF NodeReads
<1>10. CASE node.type \in {"LITERAL_EXPR", "IDENTIFIER_EXPR"}
  <2>1. B[i] = i /\ B[i] - 1 = n
    BY <1>1, <1>2, <1>8, <1>10, ArityIs
  <2>2. \/ node.type = "LITERAL_EXPR" /\ F[i] = literalCalls(node.leaf)
        \/ node.type = "IDENTIFIER_EXPR" /\ F[i] = append(spelling[node.leaf])
    BY <1>7, <1>10, Zenon DEF CallsFor
  <2>3. CallsRead(F[i], expr, n, n + 1)
    BY <1>2, <1>6, <2>2, LeafReads
  <2>4. B[i] \in 1 .. i
    BY <1>2, <2>1
  <2> QED BY <2>1, <2>3, <2>4
<1>11. CASE Arity[node.type] >= 1
  <2> PICK p, q, r : p = F[a[1]] /\ q = F[a[2]] /\ r = F[a[3]]
    OBVIOUS
  <2>0. PICK l : l = B[i] - 1
    OBVIOUS
  <2>00. PICK m : m = a[1]
    OBVIOUS
  <2>01. PICK k : k = a[2]
    OBVIOUS
  <2>1. B[i] \in 1 .. i /\ l \in 0 .. Len(expr) /\ m \in 0 .. Len(expr) /\ CallsRead(p, expr, l, m)
    BY <1>2, <1>8, <1>11, <2>0, <2>00
  <2>2. CASE node.type \in {"ARITHMETIC_EXPR", "RELATIONAL_EXPR", "LOGICAL_EXPR"}
    <3>1. k = n /\ CallsRead(q, expr, m, n)
      BY <1>1, <1>8, <2>00, <2>01, <2>2, ArityIs
    <3>2. PICK x : x = Signs[node.type]
      OBVIOUS
    <3>3. x \in Punctuation /\ expr[n + 1].type \in DOMAIN Signs /\ x = Signs[expr[n + 1].type]
      BY <1>2, <1>6, <2>2, <3>2, SignsAre
    <3>4. CallsRead(p \o append(<<x>>) \o q, expr, l, n + 1)
      BY <1>2, <2>1, <3>1, <3>3, CallsBetween
    <3>5. CASE node.type = "RELATIONAL_EXPR" \/ node.type = "LOGICAL_EXPR"
      <4>1. F[i] = p \o append(<<x>>) \o q
        BY <1>7, <3>2, <3>5, SignIs, Zenon DEF CallsFor
      <4> QED BY <2>0, <2>1, <3>4, <4>1
    <3>6. CASE node.type = "ARITHMETIC_EXPR"
      <4>1. F[i] = append(<<"(">>) \o p \o append(<<x>>) \o q \o append(<<")">>)
        BY <1>7, <3>2, <3>6, SignIs, Zenon DEF CallsFor
      <4>2. CallsRead((append(<<"(">>) \o (p \o append(<<x>>) \o q)) \o append(<<")">>), expr, l, n + 1)
        BY <3>4, CallsBracketed
      <4>3. ((append(<<"(">>) \o p) \o append(<<x>>)) \o q
                = append(<<"(">>) \o ((p \o append(<<x>>)) \o q)
        <5>1. append(<<"(">>) \in Seq(Call) /\ append(<<x>>) \in Seq(Call)
          BY <3>3, MarksAre, MarkCalls
        <5>2. p \in Seq(Call) /\ q \in Seq(Call)
          BY <2>1, <3>1 DEF CallsRead
        <5>3. PICK o : o = append(<<"(">>)
          OBVIOUS
        <5>4. PICK b : b = append(<<x>>)
          OBVIOUS
        <5>5. o \in Seq(Call) /\ b \in Seq(Call)
          BY <5>1, <5>3, <5>4
        <5>6. ((o \o p) \o b) \o q = o \o ((p \o b) \o q)
          <6>1. \A s, v \in Seq(Call) : ((o \o p) \o s) \o v = o \o ((p \o s) \o v)
            BY <5>2, <5>5, CallsAssociative, Zenon
          <6>2. \A v \in Seq(Call) : ((o \o p) \o b) \o v = o \o ((p \o b) \o v)
            BY <5>5, <6>1, Zenon
          <6> QED BY <5>2, <6>2, Zenon
        <5> QED BY <5>3, <5>4, <5>6, Zenon
      <4> QED BY <2>0, <2>1, <4>1, <4>2, <4>3, Zenon
    <3> QED BY <2>2, <3>5, <3>6
  <2>3. CASE node.type = "LOGICAL_NOT_EXPR"
    <3>1. m = n
      BY <1>1, <1>8, <2>00, <2>3, ArityIs
    <3>2. PICK x : x = "!"
      OBVIOUS
    <3>3. x \in Punctuation /\ expr[n + 1].type \in DOMAIN Signs /\ x = Signs[expr[n + 1].type]
      BY <1>2, <1>6, <2>3, <3>2, SignsAre, SignIs
    <3>4. CallsRead(append(<<x>>) \o p, expr, l, n + 1)
      BY <1>2, <2>1, <3>1, <3>3, CallsBefore
    <3>5. F[i] = append(<<x>>) \o p
      BY <1>7, <2>3, <3>2, Zenon DEF CallsFor
    <3> QED BY <2>0, <2>1, <3>4, <3>5
  <2>4. CASE node.type = "PARENTHESIZED_EXPR"
    <3>1. m = n
      BY <1>1, <1>8, <2>00, <2>4, ArityIs
    <3>2. p \in Seq(Call) /\ Reads(TextOf(p), expr, l, n)
      BY <2>1, <3>1 DEF CallsRead
    <3>3. CallsRead(p, expr, l, n + 1)
      BY <1>2, <1>6, <2>4, <3>2, ReadsParenthesized DEF CallsRead
    <3>4. CallsRead((append(<<"(">>) \o p) \o append(<<")">>), expr, l, n + 1)
      BY <3>3, CallsBracketed
    <3>5. F[i] = (append(<<"(">>) \o p) \o append(<<")">>)
      BY <1>7, <2>4, Zenon DEF CallsFor
    <3> QED BY <2>0, <2>1, <3>4, <3>5
  <2>5. CASE node.type = "CONDITIONAL_EXPR"
    <3>1. /\ k \in 0 .. Len(expr) /\ CallsRead(q, expr, m, k)
          /\ CallsRead(r, expr, k, n)
      BY <1>1, <1>2, <1>8, <2>00, <2>01, <2>5, ArityIs
    <3>2. CallsRead((p \o append(<<"?">>)) \o q, expr, l, k)
      BY <2>1, <3>1, CallsMarked
    <3>3. PICK x : x = ":"
      OBVIOUS
    <3>4. x \in Punctuation /\ expr[n + 1].type \in DOMAIN Signs /\ x = Signs[expr[n + 1].type]
      BY <1>2, <1>6, <2>5, <3>3, SignsAre, SignIs
    <3>5. PICK b : b = (p \o append(<<"?">>)) \o q
      OBVIOUS
    <3>6. CallsRead(b \o append(<<x>>) \o r, expr, l, n + 1)
      BY <1>2, <2>1, <3>1, <3>2, <3>4, <3>5, CallsBetween
    <3>7. F[i] = p \o append(<<"?">>) \o q \o append(<<x>>) \o r
      BY <1>7, <2>5, <3>3, Zenon DEF CallsFor
    <3> QED BY <2>0, <2>1, <3>5, <3>6, <3>7, Zenon
  <2> QED BY <1>9, <1>11, <2>2, <2>3, <2>4, <2>5, ArityIs DEF ExpressionType
<1> QED BY <1>9, <1>10, <1>11, ArityIs DEF ExpressionType

LEMMA EveryNodeReads ==
    ASSUME NEW expr \in Expression, NEW i \in DOMAIN expr
    PROVE  NodeReads(expr, i)
<1> DEFINE G == {m \in Nat : m <= Len(expr) => \A j \in 1 .. m : NodeReads(expr, j)}
<1>0. Len(expr) \in Nat /\ DOMAIN expr = 1 .. Len(expr)
  BY TreeIs
<1>1. 0 \in G
  OBVIOUS
<1>2. ASSUME NEW m \in Nat, m \in G PROVE m + 1 \in G
  <2> SUFFICES ASSUME m + 1 <= Len(expr), NEW j \in 1 .. m + 1 PROVE NodeReads(expr, j)
    OBVIOUS
  <2>1. \A k \in 1 .. m : NodeReads(expr, k)
    BY <1>0, <1>2
  <2>2. j \in DOMAIN expr /\ \A k \in 1 .. j - 1 : k \in 1 .. m
    BY <1>0
  <2> QED BY <2>1, <2>2, NodeReadsNext
<1>3. Len(expr) \in G
  <2> HIDE DEF G
  <2> QED BY <1>0, <1>1, <1>2, NumberInduction
<1> QED BY <1>0, <1>3

\* What is appended for a condition reads as the condition.
LEMMA ConditionReads ==
    ASSUME NEW expr \in Expression, NEW t, t = TextOf(buildExpressionString(expr))
    PROVE  /\ buildExpressionString(expr) \in Seq(Call) /\ t \in Seq(Char)
           /\ Words(t) = Words(FlattenSeq(Leaves(expr)))
           /\ BareTree(expr) =>
                 /\ Balanced(t)
                 /\ \A type \in DOMAIN Signs :
                       Count(t, Signs[type]) = Cardinality({i \in DOMAIN expr : expr[i].type = type})
<1>1. Len(expr) \in DOMAIN expr /\ Begins(expr)[Len(expr)] = 1 /\ Len(expr) \in Nat
      /\ DOMAIN expr = 1 .. Len(expr)
  BY TreeIs
<1>2. NodeReads(expr, Len(expr))
  BY <1>1, EveryNodeReads
<1>3. CallsRead(buildExpressionString(expr), expr, 0, Len(expr))
  <2>1. Begins(expr)[Len(expr)] - 1 = 0
    BY <1>1
  <2> QED BY <1>2, <2>1, CallsAre DEF NodeReads
<1>4. buildExpressionString(expr) \in Seq(Call) /\ Reads(t, expr, 0, Len(expr))
  BY <1>3 DEF CallsRead
<1>5. t \in Seq(Char) /\ LeafWords(expr, Len(expr)) = LeafWords(expr, 0) \o Words(t)
  BY <1>4 DEF Reads
<1>6. Words(t) = Words(FlattenSeq(Leaves(expr)))
  <2>1. Words(t) \in Seq(Char)
    BY <1>5, WordsConcat
  <2>2. \A w \in Seq(Char) : <<>> \o w = w
    OBVIOUS
  <2> QED BY <1>5, <2>1, <2>2, LeafWordsAre, Zenon
<1>7. ASSUME BareTree(expr), NEW type \in DOMAIN Signs
      PROVE  Count(t, Signs[type]) = Cardinality({i \in DOMAIN expr : expr[i].type = type})
  <2>1. NodesOf(expr, Len(expr), type) = NodesOf(expr, 0, type) + Count(t, Signs[type])
    BY <1>4, <1>7 DEF Reads, SignsOf
  <2>2. NodesOf(expr, 0, type) = 0
    BY NodesOfAre
  <2>3. Count(t, Signs[type]) \in Nat
    BY <1>5, CountConcat
  <2>4. {i \in 1 .. Len(expr) : Types(expr)[i] = type} = {i \in DOMAIN expr : expr[i].type = type}
    BY <1>1 DEF Types
  <2>5. NodesOf(expr, Len(expr), type) = Cardinality({i \in DOMAIN expr : expr[i].type = type})
    BY <2>4 DEF NodesOf, CountTo
  <2> QED BY <2>1, <2>2, <2>3, <2>5
<1>8. BareTree(expr) => Balanced(t)
  BY <1>4, <1>5, BalancedIs DEF Reads, SignsOf
<1> QED BY <1>4, <1>5, <1>6, <1>7, <1>8


-----------------------------------------------------------------------------
(* The label as it grows                                                   *)

\* The inductive invariant: unless an allocation failed, what the builder took and
\* what it is still given are together what is appended for the condition.
Labelling ==
    drawing = "label" =>
        /\ calls \in Seq(Call)
        /\ ~lost => /\ data # NO_DATA
                    /\ appended \o TextOf(calls)
                           = TextOf(buildExpressionString(Here.assertions[assertion]))

LabelInv == PlaceInv /\ BuilderInv /\ Labelling

LEMMA LabelStarts == Init => LabelInv
<1> SUFFICES ASSUME Init PROVE LabelInv
  OBVIOUS
<1>1. PlaceInv
  BY PlaceStarts
<1>2. BuilderTypeOK /\ TextIntact
  BY EmptyText DEF Init, GeneratorInit, BuilderInit, BuilderTypeOK, TextIntact
<1>3. Labelling
  BY DEF Init, GeneratorInit, Labelling
<1> QED BY <1>1, <1>2, <1>3 DEF LabelInv, BuilderInv

\* The condition a label is written for is one.
LEMMA ConditionHere ==
    ASSUME Position, schema \in Schemas, drawing \in {"assertions", "label"}
    PROVE  Here.assertions[assertion] \in Expression
<1>1. at \in DOMAIN schema.entities /\ assertion \in DOMAIN Here.assertions
  BY DEF Position, Here
<1>2. DOMAIN schema.entities = 1 .. Len(schema.entities)
  BY SchemaLists
<1>3. Here.assertions \in Seq(Expression)
  BY <1>1, <1>2, SchemaLists DEF Here
<1> QED BY <1>1, <1>3

\* The first call and the rest.
LEMMA NextCall ==
    ASSUME NEW list \in Seq(Call), list # <<>>
    PROVE  /\ Head(list) \in Call /\ Head(list).text \in Seq(Char) /\ Tail(list) \in Seq(Call)
           /\ \A t \in Seq(Char) :
                 (t \o Head(list).text) \o TextOf(Tail(list)) = t \o TextOf(list)
<1>1. PICK h : h = Head(list)
  OBVIOUS
<1>2. PICK l : l = Tail(list)
  OBVIOUS
<1>3. h \in Call /\ l \in Seq(Call)
  BY <1>1, <1>2
<1>4. list = <<h>> \o l
  <2> PICK S : S = Call
    OBVIOUS
  <2>1. list \in Seq(S) /\ h \in S /\ l \in Seq(S)
    BY <1>3
  <2> QED BY <1>1, <1>2, <2>1
<1>5. h.text \in Seq(Char)
  BY <1>3 DEF Call
<1>6. TextOf(<<h>> \o l) = TextOf(<<h>>) \o TextOf(l) /\ TextOf(<<h>>) = h.text
      /\ TextOf(l) \in Seq(Char)
  BY <1>3, TextConcat, TextOne
<1>7. TextOf(list) = h.text \o TextOf(l)
  BY <1>4, <1>6, Zenon
<1>8. ASSUME NEW t \in Seq(Char) PROVE (t \o h.text) \o TextOf(l) = t \o TextOf(list)
  <2>1. PICK w : w = h.text
    OBVIOUS
  <2>2. PICK v : v = TextOf(l)
    OBVIOUS
  <2>3. w \in Seq(Char) /\ v \in Seq(Char)
    BY <1>5, <1>6, <2>1, <2>2
  <2>4. (t \o w) \o v = t \o (w \o v)
    BY <2>3, TextAssociative
  <2> QED BY <1>7, <2>1, <2>2, <2>4, Zenon
<1> QED BY <1>1, <1>2, <1>3, <1>5, <1>8, Zenon


\* A call that is taken adds its text.
LEMMA CallAdds ==
    ASSUME Labelling, BuilderInv, callBuilder, UNCHANGED schema
    PROVE  BuilderInv' /\ Labelling'
<1>1. /\ drawing = "label" /\ calls # <<>> /\ calls \in Seq(Call) /\ calls' = Tail(calls)
      /\ drawing' = "label" /\ Here' = Here /\ assertion' = assertion
  BY DEF callBuilder, Labelling, Here
<1>2. PICK text : text = Head(calls).text
  OBVIOUS
<1>3. text \in Text /\ calls' \in Seq(Call)
  BY <1>1, <1>2, NextCall DEF Text
<1>4. sb_append(text) \/ sb_printf(text)
  BY <1>2 DEF callBuilder
<1>5. BuilderInv'
  BY <1>3, <1>4, StepKeeps DEF BuilderNext
<1>6. ASSUME ~lost'
      PROVE  /\ data' # NO_DATA
             /\ appended' \o TextOf(calls')
                    = TextOf(buildExpressionString(Here.assertions[assertion]))
  <2>1. data' # NO_DATA /\ ~lost /\ appended' = appended \o text
    BY <1>3, <1>4, <1>6, AppendTakes, PrintTakes
  <2>2. appended \in Seq(Char)
    BY DEF BuilderInv, BuilderTypeOK, Text
  <2>3. (appended \o text) \o TextOf(calls') = appended \o TextOf(calls)
    <3>1. \A t \in Seq(Char) :
              (t \o Head(calls).text) \o TextOf(Tail(calls)) = t \o TextOf(calls)
      BY <1>1, NextCall
    <3> QED BY <1>1, <1>2, <2>2, <3>1, Zenon
  <2>4. appended \o TextOf(calls) = TextOf(buildExpressionString(Here.assertions[assertion]))
    BY <1>1, <2>1 DEF Labelling
  <2> QED BY <2>1, <2>3, <2>4, Zenon
<1>7. Labelling'
  <2>1. Here'.assertions[assertion'] = Here.assertions[assertion]
    BY <1>1
  <2> HIDE DEF Here
  <2>2. ~lost' => /\ data' # NO_DATA
                  /\ appended' \o TextOf(calls')
                        = TextOf(buildExpressionString(Here'.assertions[assertion']))
    BY <1>6, <2>1, Zenon
  <2> QED BY <1>3, <2>2, Zenon DEF Labelling
<1> QED BY <1>5, <1>7

\* A label begins with all that is to be appended, and nothing appended.
LEMMA LabelBegins ==
    ASSUME Position, schema \in Schemas, BuilderInv, expressionToString, UNCHANGED schema
    PROVE  BuilderInv' /\ Labelling'
<1>1. /\ calls' = buildExpressionString(Here.assertions[assertion])
      /\ Here' = Here /\ assertion' = assertion /\ sb_init /\ drawing = "assertions"
  BY DEF expressionToString, Here
<1>2. BuilderInv'
  BY <1>1, StepKeeps DEF BuilderNext
<1>3. PICK expr : expr = Here.assertions[assertion]
  OBVIOUS
<1>4. expr \in Expression
  BY <1>1, <1>3, ConditionHere
<1>5. PICK t : t = TextOf(buildExpressionString(expr))
  OBVIOUS
<1>6. buildExpressionString(expr) \in Seq(Call) /\ t \in Seq(Char)
  BY <1>4, <1>5, ConditionReads
<1>7. appended' = <<>> /\ (~lost' => data' # NO_DATA)
  <2>1. CASE data' = [malloc(CAPACITY) EXCEPT ![0] = NUL]
    <3>1. 0 \in DOMAIN data' /\ 0 \notin DOMAIN NO_DATA
      BY <2>1, BuilderAssumption DEF malloc, NO_DATA
    <3> QED BY <1>1, <3>1 DEF sb_init
  <2>2. CASE lost'
    BY <1>1, <2>2 DEF sb_init
  <2> QED BY <1>1, <2>1, <2>2 DEF sb_init
<1>8. <<>> \o t = t
  BY <1>6
<1>9. Labelling'
  <2>1. calls' \in Seq(Call)
    BY <1>1, <1>3, <1>6, Zenon
  <2>2. appended' \o TextOf(calls')
            = TextOf(buildExpressionString(Here'.assertions[assertion']))
    BY <1>1, <1>3, <1>5, <1>7, <1>8, Zenon
  <2> QED BY <1>7, <2>1, <2>2, Zenon DEF Labelling
<1> QED BY <1>2, <1>9

LEMMA GeneratorKeepsLabel ==
    ASSUME Position, schema \in Schemas, BuilderInv, Labelling, GeneratorNext
    PROVE  BuilderInv' /\ Labelling'
<1>0. UNCHANGED schema
  BY GeneratorSteps
<1>1. CASE expressionToString
  BY <1>0, <1>1, LabelBegins
<1>2. CASE callBuilder
  BY <1>0, <1>2, CallAdds
<1>3. CASE writeAssertion
  <2>1. sb_destroy /\ drawing' # "label"
    BY <1>3 DEF writeAssertion, Continue
  <2>2. BuilderInv'
    BY <2>1, StepKeeps DEF BuilderNext
  <2> QED BY <2>1, <2>2 DEF Labelling
<1>4. CASE UNCHANGED builder /\ drawing' # "label"
  <2>1. BuilderInv'
    BY <1>4, StepKeeps
  <2> QED BY <1>4, <2>1 DEF Labelling
<1>5. generateGraphviz \/ writeEntity \/ noEntities \/ writeRelationship \/ closeFile
          => UNCHANGED builder /\ drawing' # "label"
  BY DEF generateGraphviz, writeEntity, noEntities, writeRelationship, closeFile, Continue
<1> QED BY <1>1, <1>2, <1>3, <1>4, <1>5 DEF GeneratorNext

LEMMA LabelKeeps == LabelInv /\ [Next]_vars => LabelInv'
<1> SUFFICES ASSUME LabelInv, [Next]_vars PROVE BuilderInv' /\ Labelling'
  BY PlaceKeeps DEF LabelInv
<1>1. PlaceInv /\ Position /\ BuilderInv /\ Labelling
  BY DEF LabelInv, PlaceInv
<1>2. CASE GeneratorNext /\ schema \in Schemas
  BY <1>1, <1>2, GeneratorKeepsLabel
<1>3. CASE /\ UNCHANGED <<drawing, at, assertion, calls, dot, builder>>
           /\ schema' = schema \/ drawing = "idle"
  <2>1. BuilderInv'
    BY <1>1, <1>3, StepKeeps
  <2>2. CASE drawing = "idle"
    BY <1>3, <2>1, <2>2 DEF Labelling
  <2>3. CASE schema' = schema
    <3>1. UNCHANGED <<drawing, calls, lost, data, appended, assertion>> /\ Here' = Here
      BY <1>3, <2>3 DEF builder, Here
    <3>2. Labelling'
      BY <1>1, <3>1 DEF Labelling
    <3> QED BY <2>1, <3>2
  <2> QED BY <1>3, <2>2, <2>3
<1> QED BY <1>1, <1>2, <1>3, OnlyDrawDraws


LEMMA LabelIsText ==
    ASSUME LabelInv, drawing = "label", calls = <<>>, ~lost, schema \in Schemas
    PROVE  sb_tostring = TextOf(buildExpressionString(Here.assertions[assertion]))
<1>1. data # NO_DATA /\ appended \in Seq(Char)
      /\ appended \o TextOf(<<>>) = TextOf(buildExpressionString(Here.assertions[assertion]))
  BY DEF LabelInv, Labelling, BuilderInv, BuilderTypeOK, Text
<1>2. sb_tostring = appended
  BY <1>1, ToStringIsText DEF LabelInv
<1>3. appended \o <<>> = appended
  BY <1>1
<1> QED BY <1>1, <1>2, <1>3, TextShort, Zenon

LEMMA LabelReads == LabelInv => LabelReadsAsCondition
<1> SUFFICES ASSUME LabelInv, drawing = "label", calls = <<>>, ~lost
             PROVE  LET expr == Here.assertions[assertion]
                        label == sb_tostring
                    IN  /\ Words(label) = Words(FlattenSeq(Leaves(expr)))
                        /\ (\A i \in DOMAIN expr : Bare(Leaf(expr[i]))) =>
                              /\ Balanced(label)
                              /\ \A type \in DOMAIN Signs :
                                    Count(label, Signs[type]) =
                                        Cardinality({i \in DOMAIN expr : expr[i].type = type})
  BY DEF LabelReadsAsCondition
<1>1. schema \in Schemas /\ Position
  BY DEF LabelInv, PlaceInv, Judged
<1>2. PICK expr : expr = Here.assertions[assertion]
  OBVIOUS
<1>3. PICK label : label = sb_tostring
  OBVIOUS
<1>4. expr \in Expression
  BY <1>1, <1>2, ConditionHere
<1>5. label = TextOf(buildExpressionString(expr))
  BY <1>1, <1>2, <1>3, LabelIsText
<1>6. /\ Words(label) = Words(FlattenSeq(Leaves(expr)))
      /\ BareTree(expr) =>
            /\ Balanced(label)
            /\ \A type \in DOMAIN Signs :
                  Count(label, Signs[type]) = Cardinality({i \in DOMAIN expr : expr[i].type = type})
  BY <1>4, <1>5, ConditionReads
<1> QED BY <1>2, <1>3, <1>6, Zenon DEF BareTree

\* Whatever the condition, the names and the literals in it, and the sizes of the
\* buffers, a label of which nothing was lost has the names and the literals of the
\* condition, in the order of the source; and where these have no brackets or
\* signs of their own, its brackets are balanced and it has a sign for each
\* operator (GraphvizGenerator.c:470-593).
THEOREM LabelsReadAsConditions == Spec => []LabelReadsAsCondition
<1>1. Init => LabelInv
  BY LabelStarts
<1>2. LabelInv /\ [Next]_vars => LabelInv'
  BY LabelKeeps
<1> QED BY <1>1, <1>2, LabelReads, PTL DEF Spec

\* The builder of a run of main is never written outside its buffer: every call the
\* generator makes of it is one BuilderKeepsText is about
\* (GraphvizGenerator.c:402-468).
THEOREM CompilerKeepsText == Spec => []TextIntact
<1>1. Init => LabelInv
  BY LabelStarts
<1>2. LabelInv /\ [Next]_vars => LabelInv'
  BY LabelKeeps
<1>3. LabelInv => TextIntact
  BY DEF LabelInv, BuilderInv
<1> QED BY <1>1, <1>2, <1>3, PTL DEF Spec

-----------------------------------------------------------------------------
(* The types of the whole compiler                                         *)

\* The results that Decided says nothing of: those that are left when the run is
\* over, and those on the way.
Results ==
    /\ table \in BOOLEAN
    /\ computation \in {NULL, "SEMANTIC_OK", "SEMANTIC_ERROR"}
    /\ compilationStatus \in {NULL, "SUCCEEDED", "FAILED"}
    /\ exit \in {NULL, "SUCCEEDED", "FAILED"}
    /\ status \in {"IN_PROGRESS", "SUCCEEDED", "FAILED", "OUT_OF_MEMORY"}

LEMMA FrontEndReturns ==
    ASSUME FrontEndInv, Results, FrontEndNext
    PROVE  status' \in {"IN_PROGRESS", "SUCCEEDED", "FAILED", "OUT_OF_MEMORY"}
<1>1. CASE destroyToken
  <2>1. Answers /\ step = "return" /\ status' = Returned
    BY <1>1 DEF FrontEndInv, destroyToken
  <2>2. CASE token.label \in {"IGNORED", "UNKNOWN"}
    BY <2>1, <2>2 DEF Returned
  <2>3. CASE token.label \notin {"IGNORED", "UNKNOWN"}
    <3>1. answer \in Parser!Outcomes(token.label = "END", published)
      BY <2>1, <2>3 DEF Answers
    <3>2. answer \in {"IN_PROGRESS", "SUCCEEDED", "FAILED", "OUT_OF_MEMORY"}
      BY <3>1 DEF Parser!Outcomes
    <3> QED BY <2>1, <2>3, <3>2 DEF Returned
  <2> QED BY <2>2, <2>3
<1>2. FrontEndNext => destroyToken \/ UNCHANGED status
  BY DEF FrontEndNext, KeywordLexemeAction, IdentifierLexemeAction, EnterCommentLexemeAction,
     LeaveCommentLexemeAction, IgnoredLexemeAction, EOFLexemeAction, UnknownLexemeAction,
     pushToken, Scans
<1> QED BY <1>1, <1>2 DEF Results

LEMMA ResultsKeep == CompilerInv /\ Results /\ [Next]_vars => Results'
<1> SUFFICES ASSUME CompilerInv, Results, [Next]_vars PROVE Results'
  OBVIOUS
<1>1. CASE executeSyntacticAnalysis
  BY <1>1, FrontEndReturns DEF executeSyntacticAnalysis, generator, drawer, Results, CompilerInv
<1>2. CASE syntaxAccepted \/ syntaxRejected
  BY <1>2 DEF syntaxAccepted, syntaxRejected, frontEnd, Results
<1>3. CASE executeSemanticAnalysis
  BY <1>3 DEF executeSemanticAnalysis, Analysis!Judge, frontEnd, Results
<1>4. CASE finish
  BY <1>4 DEF finish, frontEnd, Results
<1>5. ASSUME NEW k \in DOMAIN Modules, shutdown(k)
      PROVE  UNCHANGED <<table, computation, compilationStatus, exit, status>>
  BY <1>5 DEF shutdown, frontEnd
<1>6. CASE UNCHANGED <<table, computation, compilationStatus, exit, status>>
  BY <1>6 DEF Results
<1>7. [Next]_vars => \/ executeSyntacticAnalysis \/ syntaxAccepted \/ syntaxRejected
                     \/ executeSemanticAnalysis \/ finish
                     \/ UNCHANGED <<table, computation, compilationStatus, exit, status>>
  BY <1>5 DEF Next, initialize, draw, generateImageFromDot, destroyProgram,
     destroySymbolTable, vars, process, frontEnd
<1> QED BY <1>1, <1>2, <1>3, <1>4, <1>6, <1>7

\* What is live is one of the things main allocates.
LEMMA LiveIs ==
    ASSUME CompilerInv
    PROVE  /\ phase \in Phases /\ ToSet(Modules) = ModuleNames
           /\ live \subseteq {"lexicalAnalyzer", "EntryPoint", "program", "symbolTable"}
                             \cup ModuleNames \cup Validators
<1>1. phase \in Phases /\ Allocated
  BY DEF CompilerInv, Allocated
<1>2. ASSUME NEW k \in 1 .. 6, phase = Modules[k]
      PROVE  live \subseteq Always \cup ModuleNames \cup Kept
  <2>1. live = Always \cup {Modules[i] : i \in 1 .. k} \cup Kept
    BY <1>1, <1>2 DEF Allocated
  <2>2. \A i \in 1 .. k : Modules[i] \in ModuleNames
    BY ModulesAre
  <2> QED BY <2>1, <2>2
<1>3. phase \in ModuleNames => \E k \in 1 .. 6 : phase = Modules[k]
  BY ModulesAre
<1>4. phase \in ModuleNames
         \/ live \subseteq Always \cup ModuleNames \cup TheProgram \cup TheTable \cup Kept
  BY <1>1 DEF Allocated, Phases, Early
<1> QED BY <1>1, <1>2, <1>3, <1>4, ModulesAre, KeptApart DEF Always, TheProgram, TheTable

\* The type invariant of the whole program: what is allocated, decided and returned
\* in each phase of main, and the builder (EntryPoint.c:24-79).
THEOREM CompilerTypeOK == Spec => []TypeOK
<1> DEFINE I == LabelInv /\ Results
<1>1. Init => I
  <2>1. Init => Results
    BY DEF Init, FrontEndInit, Results
  <2> QED BY <2>1, LabelStarts
<1>2. I /\ [Next]_vars => I'
  BY LabelKeeps, ResultsKeep DEF LabelInv, PlaceInv
<1>3. I => TypeOK
  <2> SUFFICES ASSUME LabelInv, Results PROVE TypeOK
    OBVIOUS
  <2>1. CompilerInv /\ Judged /\ BuilderTypeOK /\ doubled = FALSE
    BY DEF LabelInv, PlaceInv, BuilderInv, CompilerInv, Allocated
  <2>2. schema \in Schemas \cup {NULL}
    BY <2>1 DEF Judged
  <2> QED BY <2>1, <2>2, LiveIs DEF TypeOK, Results, Phases, Early
<1> HIDE DEF I
<1> QED BY <1>1, <1>2, <1>3, PTL DEF Spec
=============================================================================
