---------------------------- MODULE MCQueryStats ----------------------------
(***************************************************************************)
(* Instances of QueryStats for TLC.                                        *)
(***************************************************************************)
EXTENDS QueryStats, TLC

CONSTANTS db1, db2, st1, st2, st3, sc1

\* Two handlers on db1.
OneDB == (db1 :> <<2, 3>>) @@ (db2 :> <<>>)

\* db1's first handler issues a statement of its own.
FirstQueries == {<<db1, 1>>}

\* Two statements of the scope on db1, and one of either DB, in it or not.
RaceOfTwo ==
    LET tracked == [db : {db1}, sc : {sc1}, dur : Durations]
    IN  (st1 :> tracked) @@ (st2 :> tracked)
           @@ (st3 :> [db : {db1}, sc : {sc1, Untracked}, dur : {1}]
                      \cup [db : {db2}, sc : {sc1, Untracked}, dur : {2}])
=============================================================================
