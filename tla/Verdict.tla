------------------------------- MODULE Verdict -------------------------------
(***************************************************************************)
(* What a caller of executeSemanticAnalysis sees: one verdict on a tree    *)
(* that does not change, OK exactly for the sound ones.  `status` is NULL  *)
(* while there is no verdict.                                              *)
(***************************************************************************)
CONSTANTS NULL, Schema, Sound(_)

VARIABLES schema, status

Init == schema \in Schema /\ status = NULL

Judge ==
    /\ status = NULL
    /\ status' \in {"SEMANTIC_OK", "SEMANTIC_ERROR"}
    /\ status' = "SEMANTIC_OK" <=> Sound(schema)
    /\ UNCHANGED schema

Spec == Init /\ [][Judge]_<<schema, status>>
=============================================================================
