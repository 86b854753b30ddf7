------------------------------ MODULE HashTable ------------------------------
(***************************************************************************)
(* The name table of the semaphore server (src/fs/hash.c).                 *)
(*                                                                         *)
(* Despite its name it is an array of MAX_HASH_ELEM rows searched from row *)
(* 0.  A row is in use when entry_array[row].key # NULL; its key is then   *)
(* the text stored in str_hash[row].  The struct declares                  *)
(*     char str_hash[MAX_STR][MAX_HASH_ELEM]                               *)
(* so consecutive rows are MAX_HASH_ELEM (40) bytes apart, while           *)
(* HashTableInsert copies and zero-pads MAX_STR (255) bytes from the start *)
(* of its row: the write runs over the first byte of the ROW_SPAN = 6 rows *)
(* that follow, whose keys read as the empty text from then on.  Names are *)
(* assumed shorter than one row, so that nothing but padding spills over.  *)
(***************************************************************************)
EXTENDS Integers

CONSTANTS
    MAX_HASH_ELEM,  \* rows of the table (40 in hash.c)
    ROW_SPAN,       \* later rows an insertion overwrites: 254 \div 40 = 6
    Keys,           \* the non-empty names clients use
    EmptyKey        \* the empty text, what an overwritten row reads as

ASSUME HashTableAssumption ==
    /\ MAX_HASH_ELEM \in Nat \ {0}
    /\ ROW_SPAN \in Nat
    /\ EmptyKey \notin Keys

Rows == 0 .. (MAX_HASH_ELEM - 1)

\* "No value": the row is free, or the search found nothing.
NULL == -1

\* What a table looks like: entry_array[r] is NULL for a free row and the
\* stored value (a slot index) otherwise.
HashTableType(values) ==
    [entry_array : [Rows -> values \cup {NULL}],
     str_hash    : [Rows -> Keys \cup {EmptyKey}]]

UsedRows(h) == {r \in Rows : h.entry_array[r] # NULL}
FreeRows(h) == {r \in Rows : h.entry_array[r] = NULL}

\* Rows whose key compares equal to the given one.
Matching(h, key) == {r \in UsedRows(h) : h.str_hash[r] = key}

\* The element a scan from index 0 stops at.
IsFirst(r, S) == r \in S /\ \A s \in S : r <= s

-----------------------------------------------------------------------------

NewHashTable ==
    [entry_array |-> [r \in Rows |-> NULL],
     str_hash    |-> [r \in Rows |-> EmptyKey]]

\* HashTableFind succeeds with this value; it fails when nothing matches.
HashTableFinds(h, key, value) ==
    \E r \in Rows : IsFirst(r, Matching(h, key)) /\ value = h.entry_array[r]

HashTableMisses(h, key) == Matching(h, key) = {}

WriteKey_Spill(h, row, key) ==  \* mutant: the text itself reaches the next row
    [r \in Rows |-> IF r = row \/ r = row + 1 THEN key
                    ELSE IF row < r /\ r <= row + ROW_SPAN THEN EmptyKey
                    ELSE h.str_hash[r]]

\* strncpy into str_hash[row]: the key, then padding over the next rows.
WriteKey(h, row, key) ==
    [r \in Rows |-> IF r = row THEN key
                    ELSE IF row < r /\ r <= row + ROW_SPAN THEN EmptyKey
                    ELSE h.str_hash[r]]

\* HashTableInsert: HASH_NO_MEM and HASH_ELEM_REPEATED leave the table as it
\* is; otherwise the first free row takes the pair.
HashTableInsert(h, key, value, h2) ==
    \/ /\ FreeRows(h) = {} \/ ~HashTableMisses(h, key)
       /\ h2 = h
    \/ /\ HashTableMisses(h, key)
       /\ \E row \in Rows :
            /\ IsFirst(row, FreeRows(h))
            /\ h2 = [entry_array |-> [h.entry_array EXCEPT ![row] = value],
                     str_hash    |-> WriteKey(h, row, key)]

\* HashTableRemove frees every matching row, not only the first.  The text of
\* a free row cannot be read again before it is overwritten: it is cleared.
HashTableRemove(h, key) ==
    [entry_array |-> [r \in Rows |-> IF r \in Matching(h, key) THEN NULL
                                     ELSE h.entry_array[r]],
     str_hash    |-> [r \in Rows |-> IF r \in Matching(h, key) THEN EmptyKey
                                     ELSE h.str_hash[r]]]
=============================================================================
