---------------------------- MODULE OrderedScan ----------------------------
(***************************************************************************)
(* What a keyset walk promises, whoever writes to the table meanwhile: it  *)
(* is a scan in the order of the keys.  Each step hands over the next few  *)
(* of the matching rows that come after the last one handed over, and the  *)
(* walk ends at a moment when none is left.                                *)
(***************************************************************************)
EXTENDS Integers, Sequences

VARIABLES
    table,   \* the rows stored, as a set of records
    filter,  \* the rows the query is about
    keys,    \* the keys the walk orders by: sequences of [col, desc]
    seen,    \* the rows handed over, in order
    walking  \* a walk has begun and not ended

CONSTANT Rank(_)  \* where ORDER BY puts a column value

vars == <<table, filter, keys, seen, walking>>

Below(key, a, b) ==
    IF key.desc THEN Rank(b[key.col]) < Rank(a[key.col])
                ELSE Rank(a[key.col]) < Rank(b[key.col])

\* a comes before b in the order of the keys.
Precedes(a, b) ==
    \E i \in 1 .. Len(keys) :
        /\ Below(keys[i], a, b)
        /\ \A j \in 1 .. i - 1 : Rank(a[keys[j].col]) = Rank(b[keys[j].col])

Remaining == {row \in table \cap filter :
                seen # <<>> => Precedes(seen[Len(seen)], row)}

RowsOf(batch) == {batch[i] : i \in 1 .. Len(batch)}

\* batch is the beginning of what remains.
IsNext(batch) ==
    /\ RowsOf(batch) \subseteq Remaining
    /\ \A i, j \in 1 .. Len(batch) : i < j => Precedes(batch[i], batch[j])
    /\ \A row \in Remaining \ RowsOf(batch), i \in 1 .. Len(batch) :
          Precedes(batch[i], row)

\* The rows of this step; none only when none remains.
HandOver ==
    LET batch == SubSeq(seen', Len(seen) + 1, Len(seen'))
    IN  /\ walking
        /\ seen' = seen \o batch
        /\ IsNext(batch)
        /\ walking' = (RowsOf(batch) # Remaining)
        /\ walking' => batch # <<>>
        /\ UNCHANGED <<table, filter, keys>>

\* Another client inserts, deletes or changes rows.
Write == UNCHANGED <<filter, keys, seen, walking>>

\* A new walk, perhaps of another query.
Restart == ~walking /\ walking' /\ seen' = <<>> /\ UNCHANGED table

Next == HandOver \/ Write \/ Restart

Spec == ~walking /\ seen = <<>> /\ [][Next]_vars
=============================================================================
