--------------------------- MODULE MCCursorPaging ---------------------------
(***************************************************************************)
(* Instances of CursorPaging for TLC.                                      *)
(***************************************************************************)
EXTENDS CursorPaging

Key1(col, desc) == <<[col |-> col, desc |-> desc]>>

\* One unique key both ways; a sort column with a tiebreaker, the same way and
\* the other way round.
Orders ==
    { Key1("id", FALSE), Key1("id", TRUE),
      Key1("sort", FALSE) \o Key1("id", FALSE),
      Key1("sort", TRUE) \o Key1("id", FALSE),
      Key1("sort", FALSE) \o Key1("id", TRUE) }

\* No predicate; and two, one of them an OR inside a group.
Queries ==
    { <<>>,
      <<And({row \in Row : row.id # 2}),
        And(Matching(<<And({row \in Row : row.id = 1}),
                       Or({row \in Row : row.sort = 2})>>, Row))>> }
=============================================================================
