------------------------------- MODULE Wheres -------------------------------
(***************************************************************************)
(* Where lists (builder.go) and what their SQL means (grammar.go).         *)
(*                                                                         *)
(* A clause of a where list carries the boolean that joins it to the       *)
(* clause before it.  The SQL lists the clauses flat, so AND binds tighter *)
(* than OR; a nested group is in parentheses and counts as one clause.  A  *)
(* clause is modelled by the set of rows its predicate is true of: SQL's   *)
(* UNKNOWN is not true, and no list negates.                               *)
(***************************************************************************)
EXTENDS Naturals, Sequences

And(rows) == [boolean |-> "AND", test |-> rows]
Or(rows)  == [boolean |-> "OR",  test |-> rows]

\* Clause i opens a run of clauses joined by AND; the first boolean of a list
\* is not written.
Opens(wheres, i) == i = 1 \/ wheres[i].boolean = "OR"

\* Clauses i .. j are one run.
Joined(wheres, i, j) == \A k \in i + 1 .. j : wheres[k].boolean = "AND"

\* The row satisfies the list: some run of it holds throughout.
Satisfies(wheres, row) ==
    \/ wheres = <<>>
    \/ \E i \in 1 .. Len(wheres) :
          /\ Opens(wheres, i)
          /\ \A j \in i .. Len(wheres) :
                Joined(wheres, i, j) => row \in wheres[j].test

\* The rows a list matches, which is also what a group around it tests.
Matching(wheres, table) == {row \in table : Satisfies(wheres, row)}
=============================================================================
