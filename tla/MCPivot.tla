------------------------------ MODULE MCPivot ------------------------------
(***************************************************************************)
(* Instances of Pivot for TLC.                                             *)
(***************************************************************************)
EXTENDS Pivot

\* A post, and a video of the same key, in one morph pivot.
Post  == [key |-> 1, type |-> "post"]
Morph == {Post, [key |-> 1, type |-> "video"]}

\* No id, one, two, and one twice.
SomeLists == {[r \in Related |-> times[r]] :
                 times \in {<<0, 0>>, <<1, 0>>, <<1, 1>>, <<0, 2>>}}
=============================================================================
