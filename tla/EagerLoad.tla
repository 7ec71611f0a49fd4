------------------------------ MODULE EagerLoad ------------------------------
(***************************************************************************)
(* Eager loading (relations.go) and deferred counts (deferred.go): a Get   *)
(* with With paths reads its models, then walks each path, a query or two  *)
(* per relation, and hangs what it reads below the models it has; other    *)
(* clients write between the queries.                                      *)
(*                                                                         *)
(* dest is a tree.  A node of it is the path that leads to it, each entry  *)
(* the relation followed and the row found, as it was when it was read.    *)
(* Relation fields are pointers and slices; a pivot lists no pair twice.   *)
(***************************************************************************)
EXTENDS Naturals, Sequences, FiniteSets, Wheres

CONSTANTS
    Versions,   \* the rows that may be stored: [table, live, col]
    Stores,     \* the databases a query may find
    Written,    \* the rows other clients write, or delete
    Relations,  \* the relations by name, see RelationsAssumption
    Requests,   \* the queries: a model and the list of its eager loads
    MaxWrites   \* bound: writes of other clients during one query

Key(row) == <<row.table, row.col.id>>

\* One row of each key.
Consistent(rows) == \A r1, r2 \in rows : Key(r1) = Key(r2) => r1 = r2

DirectKinds == {"hasMany", "hasOne", "belongsTo", "morphMany", "morphOne"}
PivotKinds  == {"belongsToMany", "morphToMany", "morphedByMany",
                "hasManyThrough", "hasOneThrough"}
ThroughKinds == {"hasManyThrough", "hasOneThrough"}
SingleKinds == {"hasOne", "belongsTo", "morphOne", "hasOneThrough", "morphTo"}

\* A relation's related rows carry in `foreign` the value its parents carry in
\* `local`; where a join or intermediate table `via` stands between, its rows
\* carry the parent's value in viaParent and the related row's in viaRelated.
\* `typed` are the rows that bear the parent's morph type: related rows, or rows
\* of `via`; of a relation that is not polymorphic, all rows.  A morphTo finds
\* the table of its parent in the type column.  `comparable` tells whether the
\* two key fields are of one Go type.
ASSUME RelationsAssumption ==
    \A name \in DOMAIN Relations :
        LET rel == Relations[name] IN
        /\ rel.kind \in DirectKinds \cup PivotKinds \cup {"morphTo"}
        /\ rel.comparable \in BOOLEAN
        /\ rel.kind # "morphTo" => rel.typed \subseteq Versions

ASSUME ConstantsAssumption ==
    /\ IsFiniteSet(Versions) /\ \A r \in Versions : r.live \in BOOLEAN
    /\ Stores \subseteq SUBSET Versions /\ Written \subseteq Versions
    /\ \A rows \in Stores : Consistent(rows)
    /\ \A query \in Requests :
          query.withs \in Seq([path : Seq(DOMAIN Relations) \ {<<>>},
                               closure : Seq([boolean : {"AND", "OR"},
                                              test : SUBSET Versions])])
    /\ MaxWrites \in Nat

VARIABLES
    store,    \* the rows stored now
    request,  \* the query
    phase,    \* how far the call is
    withs,    \* the eager loads that are left, the current one first
    path,     \* the relations of the current one that are left
    parents,  \* the nodes the next relation is loaded on
    pairs,    \* the rows of the join table read for it
    types,    \* the morph types whose owners are loaded
    tree,     \* dest: the nodes loaded so far
    counted,  \* the relation and closure of the deferred count
    counts,   \* the count of each model
    writes,   \* how often other clients wrote
    touched,  \* history: the keys they wrote
    seen      \* history: the rows stored at some time during the call

vars == <<store, request, phase, withs, path, parents, pairs, types, tree,
          counted, counts, writes, touched, seen>>

-----------------------------------------------------------------------------
(***************************************************************************)
(* Statements.                                                             *)
(***************************************************************************)
Table(table) == {r \in store : r.table = table}

WhereIn(rows, column, keys) == And({r \in rows : r.col[column] \in keys})

\* queryRelated: the list is the user's of a builder of its own, so Get puts the
\* soft-delete filter beside it, not inside.
QueryRelated(table, column, keys, closure) ==
    {r \in Matching(<<WhereIn(Table(table), column, keys)>> \o closure,
                    Table(table)) : r.live}

\* Mutant: rows of every type.
UntypedClosure(rel, closure) == closure

\* The type predicate comes before the constraint's own.
MorphClosure(rel, closure) == <<And(rel.typed)>> \o closure

\* queryPivot: the join table has no soft-delete filter.
QueryPivot(rel, keys) ==
    {[parent |-> v.col[rel.viaParent], related |-> v.col[rel.viaRelated]] :
        v \in Matching(<<WhereIn(Table(rel.via), rel.viaParent, keys),
                         And(rel.typed)>>, Table(rel.via))}

-----------------------------------------------------------------------------
(***************************************************************************)
(* The tree.                                                               *)
(***************************************************************************)
Node(rel, row)   == [rel |-> rel, row |-> row]
Row(n)           == n[Len(n)].row
Child(n, rel, row) == Append(n, Node(rel, row))
Roots(nodes)     == {n \in nodes : Len(n) = 1}

Below(nodes, n, name) ==
    {m \in nodes : /\ Len(m) > Len(n) /\ SubSeq(m, 1, Len(n)) = n
                   /\ m[Len(n) + 1].rel = name}

\* Mutant: only the first parent's children.
ChildrenOfOne(nodes, name) ==
    LET p == CHOOSE p \in parents : TRUE
    IN  {n \in Below(nodes, p, name) : Len(n) = Len(p) + 1}

\* collectChildren.
Children(nodes, name) ==
    UNION {{n \in Below(nodes, p, name) : Len(n) = Len(p) + 1} : p \in parents}

\* distinctKeys.
DistinctKeys(nodes, column) == {Row(n).col[column] : n \in nodes}

\* The groups and indexes are maps whose keys are Go interfaces: two keys are
\* the same if type and value are.
SameKey(rel, k1, k2) == rel.comparable /\ k1 = k2

Single(name) == Relations[name].kind \in SingleKinds

\* assignChildren and assignOne: a slice is replaced, and a single field is set
\* to one of the matches, if there is one.
Assigned(name, found) ==
    LET choices == IF Single(name)
                   THEN {given \in [parents -> SUBSET UNION {found[p] : p \in parents}] :
                           \A p \in parents :
                              /\ given[p] \subseteq found[p]
                              /\ Cardinality(given[p]) =
                                    IF found[p] = {} THEN 0 ELSE 1}
                   ELSE {found}
        set     == {p \in parents : Single(name) => found[p] # {}}
    IN  {(tree \ UNION {Below(tree, p, name) : p \in set})
            \cup UNION {{Child(p, name, c) : c \in given[p]} : p \in set} :
            given \in choices}

-----------------------------------------------------------------------------
(***************************************************************************)
(* The call.                                                               *)
(***************************************************************************)
Loading(kinds) == phase = "load" /\ Relations[path[1]].kind \in kinds

\* The constraint is for the deepest relation only.
Closure == IF Len(path) = 1 THEN withs[1].closure ELSE <<>>

\* The end of a path: the next one starts at the models again.
NextPath ==
    /\ withs' = Tail(withs)
    /\ IF Len(withs) > 1
       THEN path' = withs[2].path /\ parents' = Roots(tree') /\ phase' = "load"
       ELSE path' = <<>> /\ parents' = {} /\ phase' = "done"

\* Mutant: also when there are no children.
DescendAlways ==
    IF Len(path) > 1
    THEN /\ path' = Tail(path) /\ parents' = Children(tree', path[1])
         /\ phase' = "load"
         /\ UNCHANGED withs
    ELSE NextPath

\* The end of a relation: the rest of the path is loaded on its children.
Descend ==
    LET children == Children(tree', path[1])
    IN  IF Len(path) > 1 /\ children # {}
        THEN /\ path' = Tail(path) /\ parents' = children /\ phase' = "load"
             /\ UNCHANGED withs
        ELSE NextPath

\* The statement of Get, into a fresh dest; no models, nothing to load.
Get ==
    /\ phase = "query"
    /\ tree' = {<<Node("root", r)>> : r \in {r \in Table(request.model) : r.live}}
    /\ IF tree' = {} \/ request.withs = <<>>
       THEN phase' = "done" /\ UNCHANGED <<withs, path, parents>>
       ELSE /\ withs' = request.withs /\ path' = request.withs[1].path
            /\ parents' = tree' /\ phase' = "load"
    /\ UNCHANGED <<store, request, pairs, types, counted, counts, writes,
                   touched, seen>>

\* hasMany, hasOne, belongsTo, morphMany, morphOne: one query.
LoadRelation ==
    /\ Loading(DirectKinds)
    /\ LET rel     == Relations[path[1]]
           related == QueryRelated(rel.table, rel.foreign,
                                   DistinctKeys(parents, rel.local),
                                   MorphClosure(rel, Closure))
           found   == [p \in parents |->
                         {c \in related : SameKey(rel, c.col[rel.foreign],
                                                  Row(p).col[rel.local])}]
       IN  tree' \in Assigned(path[1], found)
    /\ Descend
    /\ UNCHANGED <<store, request, pairs, types, counted, counts, writes,
                   touched, seen>>

\* throughMap: one parent for each through key, that of the row that came last.
\* A group of loadPivotRelation keeps them all.
Mapped(kind, read) ==
    IF kind \notin ThroughKinds THEN {read}
    ELSE {kept \in SUBSET read :
            \A pr \in read :
               Cardinality({k \in kept : k.related = pr.related}) = 1}

\* The first query of loadPivotRelation and loadThrough, and what is kept of it.
LoadPivot ==
    /\ Loading(PivotKinds)
    /\ LET rel == Relations[path[1]]
       IN  pairs' \in Mapped(rel.kind,
                             QueryPivot(rel, DistinctKeys(parents, rel.local)))
    /\ phase' = "related"
    /\ UNCHANGED <<store, request, withs, path, parents, types, tree, counted,
                   counts, writes, touched, seen>>

\* Their second.
LoadThroughPivot ==
    /\ phase = "related"
    /\ LET rel     == Relations[path[1]]
           related == QueryRelated(rel.table, rel.foreign,
                                   {pr.related : pr \in pairs}, Closure)
           found   == [p \in parents |->
                         {c \in related : \E pr \in pairs :
                            /\ SameKey(rel, pr.parent, Row(p).col[rel.local])
                            /\ SameKey(rel, pr.related, c.col[rel.foreign])}]
       IN  tree' \in Assigned(path[1], found)
    /\ pairs' = {}
    /\ Descend
    /\ UNCHANGED <<store, request, types, counted, counts, writes, touched,
                   seen>>

\* The types of the holders that have an owner and are not loaded yet.
TypesLeft ==
    LET rel == Relations[path[1]]
    IN  (DistinctKeys(parents, rel.typeCol) \cap DOMAIN rel.owners) \ types

\* loadMorphTo: one query for each type, in any order.
LoadMorphOwners ==
    /\ Loading({"morphTo"})
    /\ \E type \in TypesLeft :
          LET rel    == Relations[path[1]]
              group  == {p \in parents : Row(p).col[rel.typeCol] = type}
              owners == QueryRelated(rel.owners[type], "id",
                                     DistinctKeys(group, rel.idCol), Closure)
              found  == [p \in parents |->
                           {o \in owners : p \in group /\
                              SameKey(rel, o.col.id, Row(p).col[rel.idCol])}]
          IN  /\ tree' \in Assigned(path[1], found)
              /\ types' = types \cup {type}
    /\ UNCHANGED <<store, request, phase, withs, path, parents, pairs, counted,
                   counts, writes, touched, seen>>

OwnersLoaded == Loading({"morphTo"}) /\ TypesLeft = {}

\* A morphTo can only end a path.
MorphToEnds ==
    /\ OwnersLoaded
    /\ types' = {} /\ tree' = tree
    /\ IF Len(path) = 1 THEN NextPath
       ELSE phase' = "failed" /\ UNCHANGED <<withs, path, parents>>
    /\ UNCHANGED <<store, request, pairs, counted, counts, writes, touched,
                   seen>>

\* A statement fails: the call returns its error, and dest keeps what it has.
StatementFails ==
    /\ phase \in {"query", "load", "related"} /\ ~OwnersLoaded
    /\ phase' = "failed"
    /\ UNCHANGED <<store, request, withs, path, parents, pairs, types, tree,
                   counted, counts, writes, touched, seen>>

-----------------------------------------------------------------------------
(***************************************************************************)
(* Deferred counts, and other clients.                                     *)
(***************************************************************************)
NotCounted == <<>>

\* Mutant: trashed rows are counted.
CountedWithTrashed(rel, closure, keys) ==
    Matching(<<WhereIn(Table(rel.table), rel.foreign, keys), And(rel.typed)>>
                \o closure, Table(rel.table))

\* loadAggregate: one list, flat, without the related model's scopes.
CountedRows(rel, closure, keys) ==
    Matching(<<WhereIn(Table(rel.table), rel.foreign, keys), And(rel.typed),
               And({r \in Table(rel.table) : r.live})>> \o closure,
             Table(rel.table))

\* LoadCount of a relation of the models, with the closure of an eager load or
\* without; keys are compared as text.
LoadCount ==
    /\ phase = "done" /\ tree # {} /\ counted = NotCounted
    /\ \E i \in 1 .. Len(request.withs) :
          LET name    == request.withs[i].path[1]
              rel     == Relations[name]
              closure == request.withs[i].closure
              rows    == CountedRows(rel, closure,
                                     DistinctKeys(Roots(tree), rel.local))
          IN  /\ rel.kind \in DirectKinds /\ Len(request.withs[i].path) = 1
              /\ counted' = <<i>>
              /\ counts' = [p \in Roots(tree) |->
                              Cardinality({c \in rows : c.col[rel.foreign] =
                                                        Row(p).col[rel.local]})]
    /\ UNCHANGED <<store, request, phase, withs, path, parents, pairs, types,
                   tree, writes, touched, seen>>

\* Another client inserts, changes or deletes a row.
OthersWrite ==
    /\ phase \in {"load", "related"} /\ writes < MaxWrites
    /\ \E v \in Written :
          LET others == {r \in store : Key(r) # Key(v)}
          IN  /\ \/ store' = others \cup {v}
                 \/ store' = others
              /\ store' # store
              /\ touched' = touched \cup {Key(v)}
    /\ seen' = seen \cup store'
    /\ writes' = writes + 1
    /\ UNCHANGED <<request, phase, withs, path, parents, pairs, types, tree,
                   counted, counts>>

-----------------------------------------------------------------------------
Init ==
    /\ store \in Stores /\ seen = store
    /\ request \in Requests /\ phase = "query"
    /\ withs = <<>> /\ path = <<>> /\ parents = {} /\ pairs = {} /\ types = {}
    /\ tree = {} /\ counted = NotCounted /\ counts = <<>>
    /\ writes = 0 /\ touched = {}

Statement == Get \/ LoadRelation \/ LoadPivot \/ LoadThroughPivot
                 \/ LoadMorphOwners \/ MorphToEnds

Next == Statement \/ StatementFails \/ LoadCount \/ OthersWrite

Spec == Init /\ [][Next]_vars

-----------------------------------------------------------------------------
Nodes == Seq([rel : DOMAIN Relations \cup {"root"}, row : Versions]) \ {<<>>}

\* The shape of the state.  The relation that is loading is that of the path's
\* head, on at least one parent of dest.
TypeOK ==
    /\ store \in SUBSET Versions /\ Consistent(store)
    /\ request \in Requests
    /\ phase \in {"query", "load", "related", "done", "failed"}
    /\ phase \in {"load", "related"} =>
          withs # <<>> /\ path # <<>> /\ parents # {}
    /\ \A i \in 1 .. Len(withs) : \E j \in 1 .. Len(request.withs) :
          withs[i] = request.withs[j]
    /\ \A i \in 1 .. Len(path) : path[i] \in DOMAIN Relations
    /\ parents \subseteq tree /\ tree \subseteq Nodes
    /\ writes \in 0 .. MaxWrites

Steady(row) == Key(row) \notin touched

\* Row v of the table between joins the two rows.
Connects(rel, v, p, c) ==
    /\ v.table = rel.via /\ v \in rel.typed
    /\ v.col[rel.viaParent] = p.col[rel.local]
    /\ v.col[rel.viaRelated] = c.col[rel.foreign]

\* c is a related row of p, by what rows say of each other.
Linked(rel, p, c, rows) ==
    CASE rel.kind \in DirectKinds ->
            /\ c.table = rel.table /\ c \in rel.typed
            /\ c.col[rel.foreign] = p.col[rel.local]
      [] rel.kind \in PivotKinds ->
            c.table = rel.table /\ \E v \in rows : Connects(rel, v, p, c)
      [] rel.kind = "morphTo" ->
            /\ p.col[rel.typeCol] \in DOMAIN rel.owners
            /\ c.table = rel.owners[p.col[rel.typeCol]]
            /\ c.col.id = p.col[rel.idCol]

\* The rows that step i of an eager load is to hang below a row.
Wanted(with, i, p) ==
    {c \in store : /\ c.live /\ Linked(Relations[with.path[i]], p, c, store)
                   /\ i = Len(with.path) => Satisfies(with.closure, c)}

\* Those that stayed as they are during the call, with what connects them.
Due(with, i, p) ==
    LET rel == Relations[with.path[i]]
    IN  {c \in Wanted(with, i, p) :
            /\ Steady(c)
            /\ rel.kind \in PivotKinds =>
                  \E v \in store : Steady(v) /\ Connects(rel, v, p, c)}

Loaded(n, name) ==
    {Row(m) : m \in {m \in Below(tree, n, name) : Len(m) = Len(n) + 1}}

\* The nodes step i of an eager load starts from.
Starts(with, i) ==
    {n \in tree : /\ Len(n) = i
                  /\ \A j \in 2 .. i : n[j].rel = with.path[j - 1]}

\* Below node n hang the live rows that step i links to it and its constraint
\* admits: all of them if a slice, one of them if a single field, and none that
\* is not linked.  Rows that other clients wrote during the call, and rows they
\* linked or unlinked, may be there or not.
Right(with, i, n) ==
    LET name == with.path[i]
        rel  == Relations[name]
        got  == Loaded(n, name)
    IN  rel.comparable =>
        /\ IF Single(name)
           THEN /\ Cardinality(got) <= 1
                /\ Due(with, i, Row(n)) # {} => got # {}
           ELSE Due(with, i, Row(n)) \subseteq got
        /\ \A c \in got :
              \/ ~Steady(c)
              \/ /\ rel.kind \in PivotKinds
                 /\ \E k \in touched : k[1] = rel.via
              \/ c \in Wanted(with, i, Row(n))

\* When the call returns, each relation asked for holds, below each model, what
\* is linked to it (builder.go:558-560, README.md:541-567).
LoadedAsLinked ==
    phase = "done" =>
        \A w \in 1 .. Len(request.withs) :
        \A i \in 1 .. Len(request.withs[w].path) :
        \A n \in Starts(request.withs[w], i) : Right(request.withs[w], i, n)

\* Whatever is written meanwhile, and also while the call is under way or after
\* it failed: a row hangs below another only if it was live and linked to it by
\* rows that were stored at some time during the call.
NothingInvented ==
    \A n \in tree : Len(n) > 1 =>
        LET c == Row(n)
            p == n[Len(n) - 1].row
        IN  c.live /\ c \in seen /\ Linked(Relations[n[Len(n)].rel], p, c, seen)

\* A deferred count and an eager load of the same relation agree when nobody
\* wrote in between (deferred.go:13-20).
CountsAgree ==
    counted # NotCounted /\ touched = {} =>
        LET name == request.withs[counted[1]].path[1]
            CountOf(n) == Cardinality(Loaded(n, name))
        IN  Relations[name].comparable =>
            \A n \in Roots(tree) :
                IF Single(name) THEN (counts[n] > 0) = (CountOf(n) = 1)
                                ELSE counts[n] = CountOf(n)
=============================================================================
