--------------------------- MODULE MCQueryScoping ---------------------------
(***************************************************************************)
(* Instances of QueryScoping for TLC: ids 1 and 2 belong to tenant t1, id  *)
(* 3 to t2.                                                                *)
(***************************************************************************)
EXTENDS QueryScoping

\* Related row 3 is soft-deleted; row 2 is of another mark than the others.
Direct ==
    [kind |-> "direct", joins |-> [id \in Ids |-> IF id = 1 THEN {1, 2}
                                                  ELSE IF id = 2 THEN {3}
                                                  ELSE {}]]
Pivot ==
    [kind |-> "pivot",
     junction |-> {[parent |-> 1, joins |-> {1}], [parent |-> 1, joins |-> {3}],
                   [parent |-> 2, joins |-> {2}]}]

\* One intermediate row with two far rows.
Through ==
    [kind |-> "through",
     junction |-> {[parent |-> 1, joins |-> {1, 2}],
                   [parent |-> 3, joins |-> {3}]}]

AllRelations  == {Direct, Pivot, Through}
JustDirect    == {Direct}
TwoPredicates == {{1, 3}, {2, 3}}
OneGroup      == {<<And({1}), Or({3})>>}
OneClosure    == {<<And({1, 3})>>}
OrClosure     == {<<And({1}), Or({2})>>}
AtLeastTwo    == {{2, 3}}

TenantRows(c) == IF c = "t1" THEN {1, 2} ELSE {3}
TenantOnly    == <<"tenant", "active">>

\* A tenant's rows; rows 2 and 3 are active under any context.
AndScopes ==
    [s \in {"tenant", "active"} |-> [c \in Contexts |->
        IF s = "tenant" THEN <<And(TenantRows(c))>> ELSE <<And({2, 3})>>]]

NoLists == {}
=============================================================================
