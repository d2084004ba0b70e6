------------------------------ MODULE PushParser ------------------------------
(***************************************************************************)
(* What the front end relies on when it pushes tokens into the parser (the *)
(* contract of yypush_parse and of SchemaProgramSemanticAction): a parser  *)
(* asks for more or ends, it ends at the end of the input at the latest,   *)
(* and it publishes a program in the compiler state before it succeeds     *)
(* (and maybe before it fails), never before it asks for more.             *)
(***************************************************************************)
CONSTANTS Failures   \* the final answers that are no success

VARIABLES answer, published

parser == <<answer, published>>
Working == answer \in {"BUSY", "ENDING"}

\* The answers to a token, `end` the end of the input, if p: a program is published.
Outcomes(end, p) ==
    Failures \cup (IF end /\ p THEN {"SUCCEEDED"} ELSE {})
            \cup (IF ~end /\ ~p THEN {"IN_PROGRESS"} ELSE {})

Init == answer = "IN_PROGRESS" /\ published = FALSE

Push == answer = "IN_PROGRESS" /\ answer' \in {"BUSY", "ENDING"} /\ UNCHANGED published

Publish == Working /\ ~published /\ published' = TRUE /\ UNCHANGED answer

Return ==
    /\ Working
    /\ answer' \in Outcomes(answer = "ENDING", published)
    /\ UNCHANGED published

Next == Push \/ Publish \/ Return

\* A token that was pushed is answered: no cycle of reductions.
Spec == Init /\ [][Next]_parser /\ (Working ~> ~Working)
=============================================================================
