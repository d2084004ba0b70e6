----------------------------- MODULE Compilation -----------------------------
(***************************************************************************)
(* What a run of the compiler leaves behind.  A program is accepted when   *)
(* it parses to a well-formed schema; then the exit code is 0, the DOT     *)
(* file is of that schema unless it could not be written, and the picture  *)
(* is of the DOT file unless dot failed.  A rejected program leaves the    *)
(* files alone.                                                            *)
(***************************************************************************)
CONSTANTS
    NULL,
    Schema,     \* the programs
    Sound(_),   \* whether one is well formed
    OLD,        \* output.dot as an earlier run left it
    UNTOUCHED   \* output.png was not written

VARIABLES
    program,    \* the schema the parser delivered, or NULL
    decision,   \* NULL, "ACCEPTED" or "REJECTED"
    dot,        \* the schema output.dot shows, or OLD
    png,        \* what output.png was made from
    exit        \* the exit code, or NULL

compilation == <<program, decision, dot, png, exit>>

Init == program = NULL /\ decision = NULL /\ dot = OLD /\ png = UNTOUCHED /\ exit = NULL

Parse ==
    /\ program = NULL /\ decision = NULL
    /\ program' # NULL /\ program' \in Schema
    /\ UNCHANGED <<decision, dot, png, exit>>

Accepted == program # NULL /\ Sound(program)
Decide ==
    /\ decision = NULL
    /\ decision' = IF Accepted THEN "ACCEPTED" ELSE "REJECTED"
    /\ UNCHANGED <<program, dot, png, exit>>

Draw ==
    /\ decision = "ACCEPTED" /\ dot = OLD /\ png = UNTOUCHED /\ exit = NULL
    /\ dot' = program
    /\ UNCHANGED <<program, decision, png, exit>>

Render ==
    /\ decision = "ACCEPTED" /\ png = UNTOUCHED /\ exit = NULL
    /\ png' = dot
    /\ UNCHANGED <<program, decision, dot, exit>>

Finish ==
    /\ decision # NULL /\ exit = NULL
    /\ exit' = IF decision = "ACCEPTED" THEN "SUCCEEDED" ELSE "FAILED"
    /\ UNCHANGED <<program, decision, dot, png>>

Next == Parse \/ Decide \/ Draw \/ Render \/ Finish

Spec == Init /\ [][Next]_compilation
=============================================================================
