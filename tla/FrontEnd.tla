------------------------------- MODULE FrontEnd -------------------------------
(***************************************************************************)
(* executeSyntacticAnalysis: the scanner finds a lexeme, its action        *)
(* (FlexActions.c) makes a token, pushes it into the parser and destroys   *)
(* it, until one of the two has a final answer.  The parser is its         *)
(* contract, PushParser.  There is one input buffer: nothing in the code   *)
(* pushes a second one.                                                    *)
(***************************************************************************)
EXTENDS Integers, Sequences, SequencesExt

CONSTANT MaxLexemes \* bound: lexemes before the end of the file

ASSUME FrontEndAssumption == MaxLexemes \in Nat

VARIABLES
    logIgnoredLexemes,  \* LOG_IGNORED_LEXEMES of the environment
    contexts,   \* Flex's stack of start conditions, the current one last
    step,       \* of a lexeme action: it begins, it pushes, it returns
    token,      \* [label, context, lexeme: it still has its lexeme], or NoToken
    cells,      \* what is allocated: <<part, k>> is a part of the k-th token
    strings,    \* the cells that the parser was given
    scanned,    \* the number of lexemes so far
    answer,     \* the parser's last one
    published,  \* compilerState.abstractSyntaxtTree is set
    status      \* of executeSyntacticAnalysis

frontEnd == <<logIgnoredLexemes, contexts, step, token, cells, strings, scanned, answer,
              published, status>>

Parser == INSTANCE PushParser WITH Failures <- {"FAILED", "OUT_OF_MEMORY"}

\* What the actions tell apart: values are literals without a string; END is the
\* end of the file.
Labels == {"keyword", "value", "string", "IGNORED", "UNKNOWN", "END"}
NoToken == [label |-> "none", context |-> "INITIAL", lexeme |-> FALSE]

currentLexicalAnalyzerContext == Last(contexts)

FrontEndInit ==
    /\ logIgnoredLexemes \in BOOLEAN
    /\ contexts = <<"INITIAL", "INITIAL">>
    /\ step = "scan" /\ token = NoToken /\ scanned = 0
    /\ cells = {} /\ strings = {}
    /\ answer = "IN_PROGRESS" /\ published = FALSE /\ status = "IN_PROGRESS"

-----------------------------------------------------------------------------
\* Mutant: %s for %x, an inclusive start condition.
matchesInclusive(pattern) ==
    \/ pattern = "EOF"
    \/ pattern \in {"*/", "commented"} /\ currentLexicalAnalyzerContext = "COMMENT_BLOCK"
    \/ pattern \notin {"EOF", "*/", "commented"}

\* The start conditions of a pattern: COMMENT_BLOCK is exclusive.
Matches(pattern) ==
    \/ pattern = "EOF"
    \/ pattern \in {"*/", "commented"} /\ currentLexicalAnalyzerContext = "COMMENT_BLOCK"
    \/ /\ pattern \notin {"EOF", "*/", "commented"}
       /\ currentLexicalAnalyzerContext = "INITIAL"

Scans(pattern) ==
    /\ status = "IN_PROGRESS" /\ step = "scan"
    /\ Matches(pattern)
    /\ scanned < MaxLexemes \/ pattern = "EOF"
    /\ scanned' = scanned + 1
    /\ UNCHANGED <<logIgnoredLexemes, answer, published, status>>

TokenCells(k) == {<<part, k>> : part \in {"token", "lexeme", "semanticValue"}}

createToken(label, context) ==
    /\ token' = [label |-> label, context |-> context, lexeme |-> TRUE]
    /\ cells' = cells \cup TokenCells(scanned')

\* KeywordLexemeAction, TypeLexemeAction, OperatorLexemeAction and
\* SymbolLexemeAction, which are the same, and those of values.
KeywordLexemeAction ==
    /\ Scans("keyword")
    /\ \E label \in {"keyword", "value"} :
          createToken(label, currentLexicalAnalyzerContext)
    /\ step' = "push"
    /\ UNCHANGED <<contexts, strings>>

\* Mutant: the token keeps its lexeme.
lexemeShared ==
    /\ Scans("string")
    /\ createToken("string", currentLexicalAnalyzerContext)
    /\ strings' = strings \cup {<<"lexeme", scanned'>>}
    /\ step' = "push"
    /\ UNCHANGED contexts

\* IdentifierLexemeAction and StringLiteralLexemeAction: the lexeme becomes the
\* semantic value.
IdentifierLexemeAction ==
    /\ Scans("string")
    /\ token' = [label |-> "string", context |-> currentLexicalAnalyzerContext, lexeme |-> FALSE]
    /\ cells' = cells \cup TokenCells(scanned')
    /\ strings' = strings \cup {<<"lexeme", scanned'>>}
    /\ step' = "push"
    /\ UNCHANGED contexts

\* A token that is only logged, if at all.
LogLexeme(context) ==
    /\ IF logIgnoredLexemes THEN createToken("IGNORED", context)
       ELSE token' = [NoToken EXCEPT !.label = "IGNORED"] /\ UNCHANGED cells
    /\ step' = "return" /\ UNCHANGED strings

EnterCommentLexemeAction ==
    /\ Scans("/*") /\ LogLexeme(currentLexicalAnalyzerContext)
    /\ contexts' = Append(contexts, "COMMENT_BLOCK")

\* The context is left before the token is made.
LeaveCommentLexemeAction ==
    /\ Scans("*/") /\ LogLexeme(Last(Front(contexts)))
    /\ contexts' = Front(contexts)

IgnoredLexemeAction ==
    /\ Scans("commented") \/ Scans("whitespace")
    /\ LogLexeme(currentLexicalAnalyzerContext) /\ UNCHANGED contexts

EOFLexemeAction ==
    /\ Scans("EOF") /\ createToken("END", currentLexicalAnalyzerContext)
    /\ step' = "push" /\ UNCHANGED <<contexts, strings>>

UnknownLexemeAction ==
    /\ Scans("unknown") /\ createToken("UNKNOWN", currentLexicalAnalyzerContext)
    /\ step' = "return" /\ UNCHANGED <<contexts, strings>>

-----------------------------------------------------------------------------
\* yypush_parse: the program may be published on the way.
pushToken ==
    /\ step = "push"
    /\ published' \in {published, TRUE}
    /\ answer' \in Parser!Outcomes(token.label = "END", published')
    /\ step' = "return"
    /\ UNCHANGED <<logIgnoredLexemes, contexts, token, cells, strings, scanned, status>>

\* Mutant: an open context is only logged.
parserDecides ==
    CASE token.label = "IGNORED" -> "IN_PROGRESS"
      [] token.label = "UNKNOWN" -> "FAILED"
      [] OTHER                   -> answer

\* What the action returns.  An open context overrides the parser.
Returned ==
    CASE token.label = "IGNORED" -> "IN_PROGRESS"
      [] token.label = "UNKNOWN" -> "FAILED"
      [] token.label = "END" /\ currentLexicalAnalyzerContext # "INITIAL" -> "FAILED"
      [] OTHER -> answer

Parts == {"token", "semanticValue"} \cup IF token.lexeme THEN {"lexeme"} ELSE {}

\* destroyToken, and back in the loop of executeSyntacticAnalysis.
destroyToken ==
    /\ step = "return"
    /\ cells' = cells \ {<<part, scanned>> : part \in Parts}
    /\ status' = Returned
    /\ token' = NoToken /\ step' = "scan"
    /\ UNCHANGED <<logIgnoredLexemes, contexts, strings, scanned, answer, published>>

FrontEndNext ==
    \/ KeywordLexemeAction \/ IdentifierLexemeAction
    \/ EnterCommentLexemeAction \/ LeaveCommentLexemeAction \/ IgnoredLexemeAction
    \/ EOFLexemeAction \/ UnknownLexemeAction
    \/ pushToken \/ destroyToken

FrontEndSpec == FrontEndInit /\ [][FrontEndNext]_frontEnd

-----------------------------------------------------------------------------
\* A token is freed with everything it owns and nothing else: between two lexemes
\* exactly the strings handed to the parser are allocated, and while a token lives
\* it shares no cell with the parser (FlexActions.c:67, Frontend.c:130), which may
\* have freed its own already.
TokensOwnedOnce ==
    /\ strings \subseteq cells
    /\ step = "scan" => cells = strings
    /\ step # "scan" =>
          \A part \in Parts : <<part, scanned>> \notin strings

\* Nothing written in a comment reaches the parser but the end of the file, and
\* comments do not nest: no pop takes the last start condition (FlexPatterns.l:33).
CommentsSilent ==
    /\ step = "push" => token.context = "INITIAL" \/ token.label = "END"
    /\ contexts \in {<<"INITIAL", "INITIAL">>, <<"INITIAL", "INITIAL", "COMMENT_BLOCK">>}

\* The front end succeeds exactly when the parser accepted the end of the file and
\* no comment was open there; then there is a program for main to read.  When the
\* parser accepted and a comment was open, the tree is published all the same
\* (FlexActions.c:170).
AcceptedWhole ==
    /\ step = "scan" => (status = "SUCCEEDED" <=>
                            answer = "SUCCEEDED" /\ contexts = <<"INITIAL", "INITIAL">>)
    /\ answer = "SUCCEEDED" => published
    /\ status = "IN_PROGRESS" /\ step = "scan" => ~published /\ answer = "IN_PROGRESS"
=============================================================================
