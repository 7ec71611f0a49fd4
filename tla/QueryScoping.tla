---------------------------- MODULE QueryScoping ----------------------------
(***************************************************************************)
(* One query builder (builder.go) from newBuilder to its terminals: what   *)
(* the application asks, the predicates the model's global scopes add      *)
(* (scope.go), the soft-delete filter, and the statement they become.      *)
(*                                                                         *)
(* Predicates are the sets of ids they are true of; a closure's list is a  *)
(* where list over the related rows.  The model soft-deletes: without a    *)
(* deleted_at column Delete would be ForceDelete and Restore an error.     *)
(***************************************************************************)
EXTENDS Integers, Sequences, FiniteSets, Wheres

CONSTANTS
    Ids,         \* primary keys of the model
    Related,     \* rows of the related model
    LiveRelated, \* those that are not soft-deleted
    Relations,   \* relations of the model, see RelationsAssumption
    Predicates,  \* what Where may test
    Groups,      \* the where lists closures of WhereGroup build
    Closures,    \* the where lists closures of WhereHas build
    Counts,      \* the count comparisons: sets of counts that pass
    Contexts,    \* request contexts
    Scopes,      \* the model's scopes, in order
    ScopeAdds,   \* ScopeAdds[s][c]: the list scope s adds under context c
    ScopeFaults, \* what may go wrong in a scope: "rejects", "fails"
    Limits,      \* arguments of Limit, page sizes
    Pages,       \* the pages Paginate asks for
    MaxCalls     \* bound: calls on one builder, its terminals included

\* A relation joins its rows to a parent's id directly, or through the rows of
\* a pivot or intermediate table, each of which joins some related rows.  A
\* pivot row joins one, and no pair is attached twice.
ASSUME RelationsAssumption ==
    \A rel \in Relations :
        \/ /\ rel.kind = "direct"
           /\ rel.joins \in [Ids -> SUBSET Related]
        \/ /\ rel.kind \in {"pivot", "through"}
           /\ rel.junction \subseteq [parent : Ids, joins : SUBSET Related]
           /\ rel.kind = "pivot" =>
                \A j \in rel.junction : Cardinality(j.joins) = 1

ASSUME ConstantsAssumption ==
    /\ Scopes \in Seq(DOMAIN ScopeAdds)
    /\ \A s \in DOMAIN ScopeAdds, c \in Contexts :
          ScopeAdds[s][c] \in Seq([boolean : {"AND", "OR"}, test : SUBSET Ids])
    /\ IsFiniteSet(Related) /\ LiveRelated \subseteq Related
    /\ Closures \subseteq Seq([boolean : {"AND", "OR"}, test : SUBSET Related])
    /\ Predicates \subseteq SUBSET Ids
    /\ Limits \subseteq Nat \ {0} /\ Pages \subseteq Nat \ {0}
    /\ MaxCalls \in Nat

VARIABLES
    rows,     \* rows[id]: "live", "trashed" (deleted_at is set) or "gone"
    b,        \* the Builder
    ctx,      \* the context of the request it is made for
    op,       \* the terminal that is running
    scope,    \* the scope that applies next; 0 between terminals
    touched,  \* the ids the last statement returned, counted or wrote
    counts,   \* the WithCount column of the rows it returned
    calls,    \* the calls on this builder so far
    said,     \* history: the alternatives the application's calls describe
    lapsed    \* history: a scope of this builder added not all its predicates

vars == <<rows, b, ctx, op, scope, touched, counts, calls, said, lapsed>>

-----------------------------------------------------------------------------
(***************************************************************************)
(* Relations as correlated subqueries.                                     *)
(***************************************************************************)
\* Mutant: no soft-delete filter on the related rows.
InnerWithTrashed(on, closure) == Matching(<<And(on)>> \o closure, Related)

\* relationExists: the correlation, the soft-delete filter of the related
\* model, then the closure's predicates.
Inner(on, closure) ==
    Matching(<<And(on), And(LiveRelated)>> \o closure, Related)

JunctionRows(rel, id) == {j \in rel.junction : j.parent = id}

\* buildExistsForKind: the rows the outer subquery selects for a parent.  A
\* pivot or intermediate table is the outer one and wraps the related rows.
Selected(rel, id, closure) ==
    IF rel.kind = "direct" THEN Inner(rel.joins[id], closure)
    ELSE {j \in JunctionRows(rel, id) : Inner(j.joins, closure) # {}}

\* throughCountExists counts the far rows by an IN-subquery.
CountSelected(rel, id, closure) ==
    IF rel.kind = "through"
    THEN Cardinality(Inner(UNION {j.joins : j \in JunctionRows(rel, id)},
                           closure))
    ELSE Cardinality(Selected(rel, id, closure))

\* aggregateCorrelation and buildAggregate: pivots too are correlated by an
\* IN-subquery.
Aggregated(rel, id, closure) ==
    IF rel.kind = "direct" THEN Inner(rel.joins[id], closure)
    ELSE Inner(UNION {j.joins : j \in JunctionRows(rel, id)}, closure)

(***************************************************************************)
(* The builder.                                                            *)
(***************************************************************************)
NoCount == <<>>

Booleans == {"AND", "OR"}
Clauses  == Seq([boolean : Booleans, test : SUBSET Ids])
Modes    == {"exclude", "include", "only"}

Builder ==
    [wheres : Clauses, scopeWheres : Clauses, trashed : Modes,
     limit : Nat, offset : Nat, skipScopes : BOOLEAN, scopesDone : BOOLEAN,
     err : BOOLEAN, withCount : {NoCount} \cup (Relations \X Closures)]

NewBuilder ==
    [wheres |-> <<>>, scopeWheres |-> <<>>, trashed |-> "exclude",
     limit |-> 0, offset |-> 0, skipScopes |-> FALSE, scopesDone |-> FALSE,
     err |-> FALSE, withCount |-> NoCount]

\* Mutant: a scope's predicates join the user's.
AddToWheres(builder, clauses, inScope) ==
    [builder EXCEPT !.wheres = @ \o clauses]

\* add, called once per clause.
AddClauses(builder, clauses, inScope) ==
    IF inScope THEN [builder EXCEPT !.scopeWheres = @ \o clauses]
               ELSE [builder EXCEPT !.wheres = @ \o clauses]

Fail(builder) == [builder EXCEPT !.err = TRUE]

SoftDeletePredicate(mode) ==
    CASE mode = "exclude" -> <<And({id \in Ids : rows[id] = "live"})>>
      [] mode = "only"    -> <<And({id \in Ids : rows[id] = "trashed"})>>
      [] mode = "include" -> <<>>

\* Mutant: the user's predicates follow the leading ones without a group.
FlatWheres(mode) ==
    b.scopeWheres \o SoftDeletePredicate(mode) \o b.wheres

EffectiveWheres(mode) ==
    LET lead == b.scopeWheres \o SoftDeletePredicate(mode)
    IN  IF lead = <<>> THEN b.wheres
        ELSE IF b.wheres = <<>> THEN lead
        ELSE Append(lead, And(Matching(b.wheres, Ids)))

-----------------------------------------------------------------------------
(***************************************************************************)
(* The application describes a query.                                      *)
(***************************************************************************)
Building == op = "none"

\* A call on the builder; the application has looked at the last answer.
Asks ==
    /\ Building /\ calls < MaxCalls
    /\ calls' = calls + 1
    /\ touched' = {} /\ counts' = <<>>

Said(boolean, ids) ==
    IF boolean = "OR" \/ said = <<>> THEN Append(said, ids)
    ELSE [said EXCEPT ![Len(said)] = @ \cap ids]

\* A call that adds one predicate, of which the application thinks `meant`.
Adds(boolean, test, meant) ==
    /\ Asks
    /\ b'    = AddClauses(b, <<[boolean |-> boolean, test |-> test]>>, FALSE)
    /\ said' = Said(boolean, meant)
    /\ UNCHANGED <<rows, ctx, op, scope, lapsed>>

Where == \E boolean \in Booleans, ids \in Predicates : Adds(boolean, ids, ids)

\* group: the closure builds its list on a builder of its own.
WhereGroup ==
    \E boolean \in Booleans, group \in Groups :
        Adds(boolean, Matching(group, Ids), Matching(group, Ids))

\* The live rows a relation joins to a parent.
LiveJoined(rel, id) ==
    LiveRelated \cap
        (IF rel.kind = "direct" THEN rel.joins[id]
         ELSE UNION {j.joins : j \in JunctionRows(rel, id)})

RelatedTo(rel, id, closure) ==
    {r \in LiveJoined(rel, id) : Satisfies(closure, r)}

\* addExists without a count; `not` is DoesntHave.
WhereHas ==
    \E boolean \in Booleans, rel \in Relations, closure \in Closures,
       not \in BOOLEAN :
        Adds(boolean,
             {id \in Ids : (Selected(rel, id, closure) # {}) # not},
             {id \in Ids : (RelatedTo(rel, id, closure) # {}) # not})

WhereHasCount ==
    \E boolean \in Booleans, rel \in Relations, closure \in Closures,
       passing \in Counts :
        Adds(boolean,
             {id \in Ids : CountSelected(rel, id, closure) \in passing},
             {id \in Ids : Cardinality(RelatedTo(rel, id, closure)) \in passing})

\* An unknown relation, a count on a dotted path, a lock outside a transaction,
\* or a closure whose own builder failed.
BadCall ==
    /\ Asks /\ ~b.err
    /\ b' = Fail(b)
    /\ UNCHANGED <<rows, ctx, op, scope, said, lapsed>>

WithCount ==
    /\ Asks /\ b.withCount = NoCount /\ ~b.err
    /\ \E rel \in Relations, closure \in Closures :
          b' = [b EXCEPT !.withCount = <<rel, closure>>]
    /\ UNCHANGED <<rows, ctx, op, scope, said, lapsed>>

\* WithTrashed, OnlyTrashed, WithoutGlobalScopes (of use only before the first
\* terminal), Limit.
Modify ==
    /\ Asks
    /\ \/ \E mode \in {"include", "only"} : b' = [b EXCEPT !.trashed = mode]
       \/ ~b.scopesDone /\ b' = [b EXCEPT !.skipScopes = TRUE]
       \/ \E n \in Limits : b' = [b EXCEPT !.limit = n]
    /\ UNCHANGED <<rows, ctx, op, scope, said, lapsed>>

\* A fresh builder, for another request.
NewQuery ==
    /\ Building
    /\ b' = NewBuilder /\ ctx' \in Contexts
    /\ touched' = {} /\ counts' = <<>> /\ calls' = 0
    /\ said' = <<>> /\ lapsed' = FALSE
    /\ UNCHANGED <<rows, op, scope>>

-----------------------------------------------------------------------------
(***************************************************************************)
(* Terminals.                                                              *)
(***************************************************************************)
Reads     == {"Get", "First", "Count", "Paginate"}
Terminals == Reads \cup {"Update", "Delete", "ForceDelete", "Restore"}

\* The last position of `scope`: all scopes are done.
Ready == Len(Scopes) + 1

NothingToApply == b.scopesDone \/ b.skipScopes \/ Scopes = <<>>

\* A terminal returns b.err, or goes on to applyScopes.
Call(terminal) ==
    /\ Asks /\ ~b.err
    /\ op' = terminal
    /\ scope' = IF NothingToApply THEN Ready ELSE 1
    /\ b' = [b EXCEPT !.scopesDone = TRUE]
    /\ UNCHANGED <<rows, ctx, said, lapsed>>

Applying == ~Building /\ scope < Ready

ScopeApplies ==
    /\ Applying
    /\ b' = AddClauses(b, ScopeAdds[Scopes[scope]][ctx], TRUE)
    /\ scope' = scope + 1
    /\ UNCHANGED <<rows, ctx, op, touched, counts, calls, said, lapsed>>

\* Mutant: an aborting scope leaves its builder in scope.
ReturnsInScope == op' = "none" /\ scope' = scope

Returns == op' = "none" /\ scope' = 0

\* Apply returns an error, or panics: the query is aborted.
ScopeRejects ==
    /\ Applying /\ "rejects" \in ScopeFaults
    /\ Returns /\ lapsed' = TRUE
    /\ UNCHANGED <<rows, b, ctx, touched, counts, calls, said>>

\* A builder call of Apply fails; Apply itself returns nil.
ScopeFails ==
    /\ Applying /\ "fails" \in ScopeFaults
    /\ b' = Fail(b) /\ lapsed' = TRUE
    /\ scope' = scope + 1
    /\ UNCHANGED <<rows, ctx, op, touched, counts, calls, said>>

\* The rows a statement's where list selects.
Hit(mode) ==
    {id \in Matching(EffectiveWheres(mode), Ids) : rows[id] # "gone"}

\* How many of n rows LIMIT and OFFSET leave.
Admitted(limit, n) ==
    LET left == IF b.offset < n THEN n - b.offset ELSE 0
    IN  IF limit = 0 \/ left < limit THEN left ELSE limit

\* The statement of Get and First.  Without ORDER BY the database hands over
\* any rows, as many as are admitted.
Select(limit) ==
    LET hit == Hit(b.trashed)
    IN  /\ touched' \in {ids \in SUBSET hit :
                           Cardinality(ids) = Admitted(limit, Cardinality(hit))}
        /\ counts' = IF b.withCount = NoCount THEN <<>>
                     ELSE [id \in touched' |->
                              Cardinality(Aggregated(b.withCount[1], id,
                                                     b.withCount[2]))]

Selecting(terminal) == op = terminal /\ scope = Ready

Get ==
    /\ Selecting("Get") /\ Select(b.limit)
    /\ Returns
    /\ UNCHANGED <<rows, b, ctx, calls, said, lapsed>>

First ==
    /\ Selecting("First") /\ Select(1)
    /\ b' = [b EXCEPT !.limit = 1]
    /\ Returns
    /\ UNCHANGED <<rows, ctx, calls, said, lapsed>>

Count ==
    /\ Selecting("Count")
    /\ touched' = Hit(b.trashed) /\ counts' = <<>>
    /\ Returns
    /\ UNCHANGED <<rows, b, ctx, calls, said, lapsed>>

\* Paginate: Count, then Get on the same builder with a page's limit; Get
\* returns the error a scope's builder call left.
CountPages ==
    /\ Selecting("Paginate")
    /\ touched' = Hit(b.trashed) /\ counts' = <<>>
    /\ \E n \in Limits, page \in Pages :
          b' = [b EXCEPT !.limit = n, !.offset = (page - 1) * n]
    /\ IF b.err THEN Returns ELSE op' = "Get" /\ scope' = scope
    /\ UNCHANGED <<rows, ctx, calls, said, lapsed>>

Write(terminal, mode, state) ==
    /\ Selecting(terminal)
    /\ touched' = Hit(mode) /\ counts' = <<>>
    /\ rows' = [id \in Ids |-> IF id \in Hit(mode) /\ state # "same"
                               THEN state ELSE rows[id]]
    /\ Returns
    /\ UNCHANGED <<b, ctx, calls, said, lapsed>>

Update      == Write("Update", b.trashed, "same")
Delete      == Write("Delete", "exclude", "trashed")
ForceDelete == Write("ForceDelete", "include", "gone")
Restore     == Write("Restore", "only", "live")

StatementFails ==
    /\ ~Building /\ scope = Ready
    /\ Returns
    /\ UNCHANGED <<rows, b, ctx, touched, counts, calls, said, lapsed>>

\* Another client soft-deletes or restores a row.
OthersWrite ==
    /\ \E id \in Ids, state \in {"live", "trashed"} :
          /\ rows[id] \notin {"gone", state}
          /\ rows' = [rows EXCEPT ![id] = state]
    /\ UNCHANGED <<b, ctx, op, scope, touched, counts, calls, said, lapsed>>

-----------------------------------------------------------------------------
Init ==
    /\ rows \in [Ids -> {"live", "trashed"}]
    /\ b = NewBuilder /\ ctx \in Contexts
    /\ op = "none" /\ scope = 0
    /\ touched = {} /\ counts = <<>> /\ calls = 0
    /\ said = <<>> /\ lapsed = FALSE

Describe == Where \/ WhereGroup \/ WhereHas \/ WhereHasCount \/ BadCall
                \/ WithCount \/ Modify \/ NewQuery

ApplyScopes == ScopeApplies \/ ScopeRejects \/ ScopeFails

Statement == Get \/ First \/ Count \/ CountPages
                 \/ Update \/ Delete \/ ForceDelete \/ Restore

Next ==
    \/ Describe
    \/ \E terminal \in Terminals : Call(terminal)
    \/ ApplyScopes
    \/ Statement
    \/ StatementFails
    \/ OthersWrite

Spec == Init /\ [][Next]_vars

-----------------------------------------------------------------------------
\* The shape of the state.  No terminal leaves its builder in scope.
TypeOK ==
    /\ rows \in [Ids -> {"live", "trashed", "gone"}]
    /\ b \in Builder /\ lapsed \in BOOLEAN
    /\ ctx \in Contexts
    /\ op \in Terminals \cup {"none"}
    /\ scope \in 0 .. Ready /\ (scope = 0 <=> op = "none")
    /\ touched \subseteq Ids /\ DOMAIN counts \subseteq touched
    /\ calls \in 0 .. MaxCalls /\ said \in Seq(SUBSET Ids)

Scoped(id) ==
    \A i \in 1 .. Len(Scopes) : id \in Matching(ScopeAdds[Scopes[i]][ctx], Ids)

Meant == IF said = <<>> THEN Ids ELSE UNION {said[i] : i \in 1 .. Len(said)}

\* The states of the rows each terminal is about.
States(terminal) ==
    CASE terminal = "Delete"      -> {"live"}
      [] terminal = "ForceDelete" -> {"live", "trashed"}
      [] terminal = "Restore"     -> {"trashed"}
      [] OTHER -> CASE b.trashed = "exclude" -> {"live"}
                    [] b.trashed = "only"    -> {"trashed"}
                    [] b.trashed = "include" -> {"live", "trashed"}

Wanted ==
    {id \in Meant : rows[id] \in States(op) /\ (b.skipScopes \/ Scoped(id))}

\* Every statement of a terminal returns, counts or writes exactly the rows that
\* satisfy what the application said, all of the model's scopes under the
\* request's context, and the terminal's soft-delete filter, whatever ORs were
\* said and in whatever order; a limit only takes rows away (README.md:851-852,
\* builder.go:601-608).  No scope of the builder has lapsed.
AnswerAsAsked ==
    [][Statement /\ ~lapsed =>
          /\ touched' \subseteq Wanted
          /\ Cardinality(touched') =
                IF op \in {"Get", "First"}
                THEN Admitted(IF op = "First" THEN 1 ELSE b.limit,
                              Cardinality(Wanted))
                ELSE Cardinality(Wanted)
          /\ \A id \in Ids : rows'[id] # rows[id] => id \in touched']_vars

\* No statement touches a row outside a scope of the model, unless the query was
\* made WithoutGlobalScopes or a scope failed to add its predicates.
NoRowEscapes ==
    [][Statement /\ ~lapsed /\ ~b.skipScopes =>
          \A id \in touched' : Scoped(id)]_vars

\* A WithCount column is the number of live related rows its closure admits,
\* through whatever tables the relation goes (README.md: relationship
\* aggregates; builder.go:786-821).
CountsAreOfLiveRelated ==
    \A id \in DOMAIN counts :
        counts[id] = Cardinality(RelatedTo(b.withCount[1], id, b.withCount[2]))
=============================================================================
