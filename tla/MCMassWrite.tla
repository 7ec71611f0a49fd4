---------------------------- MODULE MCMassWrite -----------------------------
(***************************************************************************)
(* Instances of MassWrite for TLC.                                         *)
(***************************************************************************)
EXTENDS MassWrite, TLC

Row(id, key, name, role, deleted) ==
    [id |-> id, key |-> key, name |-> name, role |-> role,
     created_at |-> 1, updated_at |-> 1, deleted_at |-> deleted]

\* The third row is trashed; two rows have a role of their own.
ThreeRows == <<Row(1, 4, 5, 2, Null), Row(2, 5, 4, 1, Null), Row(3, 6, 6, 2, 2)>>

Parts == {[id |-> 4, owner |-> 1], [id |-> 5, owner |-> 1], [id |-> 6, owner |-> 3]}

In(col, values)      == [Clause("in", col) EXCEPT !.values = values]
NotIn(col, values)   == [Clause("notIn", col) EXCEPT !.values = values]
Between(col, lo, hi) == [Clause("between", col) EXCEPT !.values = <<lo, hi>>]
Same(col, second)    == [Clause("column", col) EXCEPT !.second = second]
Has(inner)           == [Clause("exists", "id")
                           EXCEPT !.inner = <<Same("owner", "id")>> \o inner]
HasAtLeast(n, inner) == [Has(inner) EXCEPT !.count = <<n>>]
InSub(col, second, inner) ==
    [Clause("inSub", col) EXCEPT !.second = second, !.inner = inner]
Raw                  == Clause("raw", "id")
OrElse(w)            == [w EXCEPT !.boolean = "OR"]

Where(wheres) == [wheres |-> wheres, ctes |-> <<>>]

SomeQueries ==
    {Where(<<>>),
     Where(<<In("name", <<4>>), OrElse(In("role", <<>>)),
             OrElse(Between("key", 6, 9))>>),
     Where(<<HasAtLeast(2, <<In("id", <<4, 5>>)>>), NotIn("name", <<4, 6>>)>>),
     Where(<<Group(<<Has(<<NotIn("id", <<5>>)>>), OrElse(In("key", <<5>>))>>),
             In("name", <<4>>)>>),
     Where(<<InSub("name", "id", <<In("owner", <<1>>)>>), In("role", <<2>>)>>),
     [wheres |-> <<Raw, In("key", <<4, 6>>)>>,
      ctes   |-> <<Between("name", 5, 6), NotIn("deleted_at", <<>>)>>]}

\* With a guarded column, and with a timestamp.
SomeMaps    == {[key |-> 7, name |-> 8, role |-> 9], [key |-> 4, name |-> 8],
                [key |-> 7, updated_at |-> 3]}
SomeChanges == {[name |-> 8, role |-> 9], [role |-> 9], [name |-> 8, updated_at |-> 3]}
SomeBatches == {<<[key |-> 7, name |-> 8], [key |-> 4, role |-> 9]>>,
                <<[key |-> 6, name |-> 9, updated_at |-> 3]>>}
NameLists   == {<<"name">>, <<>>}
BothTaggings == {[fillable |-> {}, guarded |-> {"role"}],
                 [fillable |-> {"key", "name"}, guarded |-> {}]}
=============================================================================
