---------------------------- MODULE MCSymbolTable ----------------------------
(***************************************************************************)
(* SymbolTable with names spelled as character codes and the hash the code *)
(* computes: "ab" and "bA" share a djb2 value, so they share a chain in a  *)
(* table of any size.                                                      *)
(***************************************************************************)
EXTENDS SymbolTable, Djb2, TLC

CONSTANTS e1, e2

ab == <<97, 98>>
bA == <<98, 65>>
b == <<98>>

MCNames == {ab, bA, b}
MCDecls == {e1, e2}
MCSize == 4
MCHash == ab :> 0 @@ bA :> 0 @@ b :> 3

\* Written out for speed, these are the buckets the code computes.
ASSUME HashIsDjb2 == \A n \in MCNames : MCHash[n] = djb2(n, MCSize)

\* No operation tells one declaration from another.
DeclSymmetry == Permutations(MCDecls)
=============================================================================
