--------------------------------- MODULE Djb2 ---------------------------------
(***************************************************************************)
(* The hash function of SymbolTable.c: hash * 33 + c over the characters   *)
(* of a name, in an unsigned int, reduced to a bucket.  WORD stands for    *)
(* 2^32: TLC's integers are narrower, and any multiple of the table size   *)
(* gives the same buckets.                                                 *)
(***************************************************************************)
LOCAL INSTANCE Integers
LOCAL INSTANCE SequencesExt

WORD == 2^24

\* `str` is a sequence of character codes, `size` a divisor of WORD.
djb2(str, size) ==
    FoldLeft(LAMBDA h, c : (h * 33 + c) % WORD, 5381, str) % size
=============================================================================
