---------------------------- MODULE StringBuilder ----------------------------
(***************************************************************************)
(* The growing buffer the label of an assertion is written into (the sb_   *)
(* functions of GraphvizGenerator.c).  The buffer is memory: characters    *)
(* at offsets, a store outside it is lost.                                 *)
(***************************************************************************)
EXTENDS Integers, Sequences

CONSTANTS
    Char,       \* the characters of a text
    NUL,        \* the terminator
    GARBAGE,    \* what malloc leaves in a byte
    CAPACITY,   \* the first capacity, 256 in the code
    TEMP_SIZE   \* sizeof(temp), 128 in the code

ASSUME BuilderAssumption ==
    /\ CAPACITY \in Nat \ {0} /\ TEMP_SIZE \in Nat \ {0}
    /\ NUL \notin Char /\ GARBAGE \notin Char \cup {NUL}

VARIABLES
    data, length, capacity,     \* the builder
    appended,                   \* history: the text it was given and has taken
    lost                        \* history: an allocation failed, text was dropped

builder == <<data, length, capacity, appended, lost>>

\* sb->data is NULL: there is no byte.
NO_DATA == <<>>

Text == Seq(Char)
Byte == Char \cup {NUL, GARBAGE}

-----------------------------------------------------------------------------
(* The C library                                                           *)
malloc(n) == [i \in 0 .. n - 1 |-> GARBAGE]
realloc(d, n) == [i \in 0 .. n - 1 |-> IF i \in DOMAIN d THEN d[i] ELSE GARBAGE]

\* strcpy(d + at, s): the characters, then the terminator.
strcpy(d, at, s) ==
    [i \in DOMAIN d |->
        IF i \in at .. at + Len(s) - 1 THEN s[i - at + 1]
        ELSE IF i = at + Len(s) THEN NUL ELSE d[i]]

\* Where strdup stops reading, and what it has read.
strlen(d) == CHOOSE n \in DOMAIN d : d[n] = NUL /\ \A i \in 0 .. n - 1 : d[i] # NUL
strdup(d) == [i \in 1 .. strlen(d) |-> d[i - 1]]

-----------------------------------------------------------------------------
BuilderInit ==
    /\ data = NO_DATA /\ length = 0 /\ capacity = 0
    /\ appended = <<>> /\ lost = FALSE

sb_init ==
    /\ length' = 0 /\ capacity' = CAPACITY /\ appended' = <<>>
    /\ \/ data' = [malloc(CAPACITY) EXCEPT ![0] = NUL] /\ lost' = FALSE
       \/ data' = NO_DATA /\ lost' = TRUE

\* str is not appended: there is no buffer, or no larger one.
Dropped ==
    /\ lost' = TRUE
    /\ UNCHANGED <<data, length, capacity, appended>>

Copy(d, str) ==
    /\ data' = strcpy(d, length, str)
    /\ length' = length + Len(str)
    /\ appended' = appended \o str
    /\ UNCHANGED lost

\* Mutant: no room is kept for the terminator.
fitsWithoutTerminator(str) == length + Len(str) <= capacity

Fits(str) == length + Len(str) < capacity

Grown(str) ==
    IF 2 * capacity < length + Len(str) + 1 THEN length + Len(str) + 1 ELSE 2 * capacity

sb_append(str) ==
    \/ data = NO_DATA /\ Dropped
    \/ data # NO_DATA /\ Fits(str) /\ Copy(data, str) /\ UNCHANGED capacity
    \/ /\ data # NO_DATA /\ ~Fits(str)
       /\ \/ Copy(realloc(data, Grown(str)), str) /\ capacity' = Grown(str)
          \/ Dropped

\* What vsnprintf leaves in a buffer of n characters.
vsnprintf(n, str) == IF Len(str) < n THEN str ELSE SubSeq(str, 1, n - 1)

\* Mutant: temp is taken to have room for the terminator besides.
sb_printfOffByOne(str) ==
    \/ Len(str) <= TEMP_SIZE /\ sb_append(vsnprintf(TEMP_SIZE, str))
    \/ /\ Len(str) > TEMP_SIZE
       /\ sb_append(vsnprintf(Len(str) + 1, str)) \/ Dropped

\* str is the formatted text; without a buffer it is dropped at once.
sb_printf(str) ==
    \/ Len(str) < TEMP_SIZE /\ sb_append(vsnprintf(TEMP_SIZE, str))
    \/ /\ Len(str) >= TEMP_SIZE
       /\ sb_append(vsnprintf(Len(str) + 1, str)) \/ Dropped

sb_tostring == IF data = NO_DATA THEN <<>> ELSE strdup(data)

\* free(NULL) does nothing.  The histories start again.
sb_destroy == data' = NO_DATA /\ length' = 0 /\ capacity' = 0 /\ appended' = <<>> /\ lost' = FALSE

BuilderNext ==
    \/ sb_init
    \/ \E str \in Text : sb_append(str) \/ sb_printf(str)
    \/ sb_destroy

BuilderSpec == BuilderInit /\ [][BuilderNext]_builder

-----------------------------------------------------------------------------
BuilderTypeOK ==
    /\ capacity \in Nat
    /\ data = NO_DATA \/ data \in [0 .. capacity - 1 -> Byte]
    /\ appended \in Text
    /\ lost \in BOOLEAN

\* Whatever sequence of texts of whatever length was appended, and whichever
\* allocation failed in between, the buffer holds exactly the texts it took and
\* their terminator, inside its capacity (GraphvizGenerator.c:414).
TextIntact ==
    data # NO_DATA =>
        /\ length = Len(appended)
        /\ length \in DOMAIN data
        /\ \A i \in 1 .. length : data[i - 1] = appended[i]
        /\ data[length] = NUL
=============================================================================
