----------------------------- MODULE MCConnPool -----------------------------
(***************************************************************************)
(* An instance of ConnPool for TLC.                                        *)
(***************************************************************************)
EXTENDS ConnPool, TLC

CONSTANTS c1, c2, a1, a2, b1, big, small

\* big has two connections, small has one, as an in-memory SQLite database.
TwoPools == (a1 :> big) @@ (a2 :> big) @@ (b1 :> small)

\* A write, a count, Get with a relation.
SomeCalls == {<<"exec">>, <<"queryRow">>, <<"query", "query">>}

\* Closures of c1 on big also use the DB itself.
OneNests == (c1 :> {big}) @@ (c2 :> {})
=============================================================================
