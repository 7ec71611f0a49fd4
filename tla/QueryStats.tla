----------------------------- MODULE QueryStats -----------------------------
(***************************************************************************)
(* Query-time accounting (querystats.go) and event delivery (events.go).   *)
(*                                                                         *)
(* Every statement of a session goes through listenRunner: the driver call *)
(* is timed, then emit adds it to the connection's lifetime counters, to   *)
(* the accumulator of the context's scope, fires the duration handlers the *)
(* scope has just crossed, and tells the listeners.  The statements of one *)
(* scope may run in many goroutines.  The actors here are the statements   *)
(* themselves: each is issued once, by the application or by a handler of  *)
(* another statement, and its steps interleave with those of the others.   *)
(***************************************************************************)
EXTENDS Naturals, Sequences, FiniteSets, Functions

CONSTANTS
    Statements,   \* statements the run may issue
    DBs,          \* *DB values of the process, each with its handlers
    Scopes,       \* contexts made by TrackQueryTime
    Untracked,    \* a context TrackQueryTime never wrapped
    Sends,        \* Sends[st]: what the application may issue st as
    Durations,    \* what the timer may measure (0 for QueryRowContext)
    Thresholds,   \* Thresholds[db]: thresholds of db's handlers, in order
    Querying,     \* handlers <<db, i>> that issue a statement under their ctx
    Resetting,    \* DBs whose counters the application resets
    Nobody        \* no statement

ASSUME ConstantsAssumption ==
    /\ Untracked \notin Scopes
    /\ Nobody \notin Statements
    /\ DBs # {}
    /\ Durations \subseteq Nat /\ Durations # {}
    /\ Thresholds \in [DBs -> Seq(Nat)]
    /\ Resetting \subseteq DBs
    /\ \A st \in Statements :
          Sends[st] \subseteq [db : DBs, sc : Scopes \cup {Untracked}, dur : Durations]

Handlers(db)  == DOMAIN Thresholds[db]
AllHandlers   == UNION {Handlers(db) : db \in DBs}
Contexts      == Scopes \cup {Untracked}
Request       == [db : DBs, sc : Contexts, dur : Durations]
Snapshot      == [total : Nat, count : Nat, slowest : Nat]
EmptySnapshot == [total |-> 0, count |-> 0, slowest |-> 0]

(***************************************************************************)
(* What a scope should hold, kept as the history of its statements: each   *)
(* entry has the stats of the scope after it, worked out from the entry    *)
(* before and from nothing else.                                           *)
(***************************************************************************)
Entry == [db : DBs, dur : Durations, stats : Snapshot]

Plus(stats, d) ==
    [total   |-> stats.total + d,
     count   |-> stats.count + 1,
     slowest |-> IF d > stats.slowest THEN d ELSE stats.slowest]

After(entries, k) == IF k = 0 THEN EmptySnapshot ELSE entries[k].stats
Latest(entries)   == After(entries, Len(entries))

VARIABLES
    pc,       \* pc[st]: where statement st is
    req,      \* req[st]: its session, context and measured duration
    copy,     \* copy[st]: sc.total and sc.fired as st read them
    snap,     \* snap[st]: the snapshot record returned
    todo,     \* todo[st]: tripped handlers that still have to run
    child,    \* child[st]: the statement a handler of st has issued
    mu,       \* mu[sc]: holder of the scope's mutex
    total,    \* total[sc], count[sc], slowest[sc]: the accumulator
    count,
    slowest,
    fired,    \* fired[sc]: handler indexes that have fired
    nanos,    \* nanos[db], calls[db]: the lifetime counters
    calls,
    resets,   \* resets[db]: ResetQueryStats is between its two stores
    warned,   \* untrackedOnce
    heard,    \* heard[st]: the listeners were told of st
    order,    \* history: the entries of the statements of each scope
    reports,  \* history: the handler calls
    seen      \* history: what Stats last returned for each scope

stmtVars   == <<pc, req, copy, snap, todo, child>>
scopeVars  == <<mu, total, count, slowest, fired>>
dbVars     == <<nanos, calls, resets>>
ghostVars  == <<order, reports, seen>>
vars       == <<stmtVars, scopeVars, dbVars, warned, heard, ghostVars>>

Goto(st, where) == pc' = [pc EXCEPT ![st] = where]
DB(st) == req[st].db
Sc(st) == req[st].sc

-----------------------------------------------------------------------------
Init ==
    /\ pc      = [st \in Statements |-> "idle"]
    /\ req     = [st \in Statements |-> CHOOSE r \in Request : TRUE]
    /\ copy    = [st \in Statements |-> [total |-> 0, fired |-> {}]]
    /\ snap    = [st \in Statements |-> EmptySnapshot]
    /\ todo    = [st \in Statements |-> {}]
    /\ child   = [st \in Statements |-> Nobody]
    /\ mu      = [sc \in Scopes |-> Nobody]
    /\ total   = [sc \in Scopes |-> 0]
    /\ count   = [sc \in Scopes |-> 0]
    /\ slowest = [sc \in Scopes |-> 0]
    /\ fired   = [sc \in Scopes |-> {}]
    /\ nanos   = [db \in DBs |-> 0]
    /\ calls   = [db \in DBs |-> 0]
    /\ resets  = [db \in DBs |-> FALSE]
    /\ warned  = FALSE
    /\ heard   = [st \in Statements |-> FALSE]
    /\ order   = [sc \in Scopes |-> <<>>]
    /\ reports = {}
    /\ seen    = [sc \in Scopes |-> EmptySnapshot]

(***************************************************************************)
(* The driver call is over and was timed.                                  *)
(***************************************************************************)
Issue(st, r) ==
    /\ pc[st] = "idle"
    /\ req' = [req EXCEPT ![st] = r]
    /\ Goto(st, "emit")

Send(st, r) ==
    /\ Issue(st, r)
    /\ UNCHANGED <<copy, snap, todo, child, scopeVars, dbVars, warned, heard,
                   ghostVars>>

(***************************************************************************)
(* session.record: the lifetime counters are two separate atomic adds.     *)
(***************************************************************************)
AddNanos(st) ==
    /\ pc[st] = "emit"
    /\ nanos' = [nanos EXCEPT ![DB(st)] = @ + req[st].dur]
    /\ Goto(st, "addCount")
    /\ UNCHANGED <<req, copy, snap, todo, child, scopeVars, calls, resets,
                   warned, heard, ghostVars>>

\* Mutant: only the statements of a scope are counted.
AddCountTracked(st) ==
    /\ pc[st] = "addCount"
    /\ calls' = IF Sc(st) = Untracked THEN calls
                ELSE [calls EXCEPT ![DB(st)] = @ + 1]
    /\ Goto(st, "scope")
    /\ UNCHANGED <<req, copy, snap, todo, child, scopeVars, nanos, resets,
                   warned, heard, ghostVars>>

AddCount(st) ==
    /\ pc[st] = "addCount"
    /\ calls' = [calls EXCEPT ![DB(st)] = @ + 1]
    /\ Goto(st, "scope")
    /\ UNCHANGED <<req, copy, snap, todo, child, scopeVars, nanos, resets,
                   warned, heard, ghostVars>>

\* Mutant: the return after the warning is missing.
NoScopeFallsThrough(st) ==
    /\ pc[st] = "scope" /\ Sc(st) = Untracked
    /\ warned' = (warned \/ Handlers(DB(st)) # {})
    /\ Goto(st, "load")
    /\ UNCHANGED <<req, copy, snap, todo, child, scopeVars, dbVars, heard,
                   ghostVars>>

\* scopeFrom returned nil: warn once if there are handlers, and that is all.
NoScope(st) ==
    /\ pc[st] = "scope" /\ Sc(st) = Untracked
    /\ warned' = (warned \/ Handlers(DB(st)) # {})
    /\ Goto(st, "listen")
    /\ UNCHANGED <<req, copy, snap, todo, child, scopeVars, dbVars, heard,
                   ghostVars>>

(***************************************************************************)
(* queryScope.record.  The additions are reads and writes of plain fields, *)
(* one step each; the mutex is what keeps them together.                   *)
(***************************************************************************)
\* Mutant: the mutex is not waited for.
AcquireUnlocked(st) ==
    /\ pc[st] = "scope" /\ Sc(st) # Untracked
    /\ mu' = [mu EXCEPT ![Sc(st)] = st]
    /\ Goto(st, "load")
    /\ UNCHANGED <<req, copy, snap, todo, child, total, count, slowest, fired,
                   dbVars, warned, heard, ghostVars>>

Acquire(st) ==
    /\ pc[st] = "scope" /\ Sc(st) # Untracked
    /\ mu[Sc(st)] = Nobody
    /\ mu' = [mu EXCEPT ![Sc(st)] = st]
    /\ Goto(st, "load")
    /\ UNCHANGED <<req, copy, snap, todo, child, total, count, slowest, fired,
                   dbVars, warned, heard, ghostVars>>

LoadScope(st) ==
    /\ pc[st] = "load"
    /\ copy' = [copy EXCEPT ![st] = [total |-> total[Sc(st)],
                                     fired |-> fired[Sc(st)]]]
    /\ Goto(st, "fold")
    /\ UNCHANGED <<req, snap, todo, child, scopeVars, dbVars, warned, heard,
                   ghostVars>>

FoldTotal(st) ==
    /\ pc[st] = "fold"
    /\ total' = [total EXCEPT ![Sc(st)] = copy[st].total + req[st].dur]
    /\ order' = [order EXCEPT ![Sc(st)] =
                   Append(@, [db |-> DB(st), dur |-> req[st].dur,
                              stats |-> Plus(Latest(@), req[st].dur)])]
    /\ Goto(st, "count")
    /\ UNCHANGED <<req, copy, snap, todo, child, mu, count, slowest, fired,
                   dbVars, warned, heard, reports, seen>>

FoldCount(st) ==
    /\ pc[st] = "count"
    /\ count'   = [count EXCEPT ![Sc(st)] = @ + 1]
    /\ slowest' = [slowest EXCEPT ![Sc(st)] =
                     IF req[st].dur > @ THEN req[st].dur ELSE @]
    /\ Goto(st, "trip")
    /\ UNCHANGED <<req, copy, snap, todo, child, mu, total, fired, dbVars,
                   warned, heard, ghostVars>>

\* Mutants: fired is not consulted; a statement is compared with the threshold
\* by its own time and not by the scope's.
TrippedAgain(st) ==
    {i \in Handlers(DB(st)) : total[Sc(st)] >= Thresholds[DB(st)][i]}
TrippedByItself(st) ==
    {i \in Handlers(DB(st)) \ copy[st].fired :
        req[st].dur >= Thresholds[DB(st)][i]}

\* The handlers whose threshold the scope has reached and whose index has not
\* fired in it; they are returned, with a snapshot, and run unlocked.
Tripped(st) ==
    {i \in Handlers(DB(st)) \ copy[st].fired :
        total[Sc(st)] >= Thresholds[DB(st)][i]}

CurrentSnapshot(sc) ==
    [total |-> total[sc], count |-> count[sc], slowest |-> slowest[sc]]

\* Mutant: the deferred unlock is missing.
TripHandlersLocked(st) ==
    /\ pc[st] = "trip"
    /\ fired' = [fired EXCEPT ![Sc(st)] = copy[st].fired \cup Tripped(st)]
    /\ snap'  = [snap EXCEPT ![st] = CurrentSnapshot(Sc(st))]
    /\ todo'  = [todo EXCEPT ![st] = Tripped(st)]
    /\ Goto(st, "handlers")
    /\ UNCHANGED <<req, copy, child, mu, total, count, slowest, dbVars, warned,
                   heard, ghostVars>>

TripHandlers(st) ==
    /\ pc[st] = "trip"
    /\ fired' = [fired EXCEPT ![Sc(st)] = copy[st].fired \cup Tripped(st)]
    /\ snap'  = [snap EXCEPT ![st] = CurrentSnapshot(Sc(st))]
    /\ todo'  = [todo EXCEPT ![st] = Tripped(st)]
    /\ mu'    = [mu EXCEPT ![Sc(st)] = Nobody]
    /\ Goto(st, "handlers")
    /\ UNCHANGED <<req, copy, child, total, count, slowest, dbVars, warned,
                   heard, ghostVars>>

(***************************************************************************)
(* The tripped handlers, one after the other, in the statement's own       *)
(* goroutine.  A handler may issue a statement under the ctx of the event; *)
(* a panic of a handler is contained.                                      *)
(***************************************************************************)
IsNext(st, i) == i \in todo[st] /\ \A j \in todo[st] : i <= j

Report(st, i) == [sc |-> Sc(st), db |-> DB(st), handler |-> i,
                  dur |-> req[st].dur, stats |-> snap[st]]

HandlerQueries(st, i, inner, dur) ==
    /\ pc[st] = "handlers" /\ IsNext(st, i) /\ child[st] = Nobody
    /\ <<DB(st), i>> \in Querying
    /\ inner # st
    /\ Issue(inner, [db |-> DB(st), sc |-> Sc(st), dur |-> dur])
    /\ child' = [child EXCEPT ![st] = inner]
    /\ UNCHANGED <<copy, snap, todo, scopeVars, dbVars, warned, heard,
                   ghostVars>>

\* The handler returns or panics, after its own statement if it issued one.
HandlerEnds(st, i) ==
    /\ pc[st] = "handlers" /\ IsNext(st, i)
    /\ child[st] # Nobody => pc[child[st]] = "done"
    /\ reports' = reports \cup {Report(st, i)}
    /\ todo'    = [todo EXCEPT ![st] = @ \ {i}]
    /\ child'   = [child EXCEPT ![st] = Nobody]
    /\ UNCHANGED <<pc, req, copy, snap, scopeVars, dbVars, warned, heard,
                   order, seen>>

HandlersDone(st) ==
    /\ pc[st] = "handlers" /\ todo[st] = {}
    /\ Goto(st, "listen")
    /\ UNCHANGED <<req, copy, snap, todo, child, scopeVars, dbVars, warned,
                   heard, ghostVars>>

\* emit's loop over the listeners; a panic of one is contained.
Listen(st) ==
    /\ pc[st] = "listen"
    /\ heard' = [heard EXCEPT ![st] = TRUE]
    /\ Goto(st, "done")
    /\ UNCHANGED <<req, copy, snap, todo, child, scopeVars, dbVars, warned,
                   ghostVars>>

(***************************************************************************)
(* Reading and resetting.                                                  *)
(***************************************************************************)
\* Mutant: the counters are read without the mutex.
StatsUnlocked(sc) ==
    /\ seen' = [seen EXCEPT ![sc] = CurrentSnapshot(sc)]
    /\ UNCHANGED <<stmtVars, scopeVars, dbVars, warned, heard, order, reports>>

Stats(sc) ==
    /\ mu[sc] = Nobody
    /\ seen' = [seen EXCEPT ![sc] = CurrentSnapshot(sc)]
    /\ UNCHANGED <<stmtVars, scopeVars, dbVars, warned, heard, order, reports>>

ResetNanos(db) ==
    /\ db \in Resetting /\ ~resets[db]
    /\ nanos'  = [nanos EXCEPT ![db] = 0]
    /\ resets' = [resets EXCEPT ![db] = TRUE]
    /\ UNCHANGED <<stmtVars, scopeVars, calls, warned, heard, ghostVars>>

ResetCount(db) ==
    /\ resets[db]
    /\ calls'  = [calls EXCEPT ![db] = 0]
    /\ resets' = [resets EXCEPT ![db] = FALSE]
    /\ UNCHANGED <<stmtVars, scopeVars, nanos, warned, heard, ghostVars>>

-----------------------------------------------------------------------------
\* The steps of statement st after it was issued.
Emit(st) ==
    \/ AddNanos(st) \/ AddCount(st) \/ NoScope(st)
    \/ Acquire(st) \/ LoadScope(st) \/ FoldTotal(st) \/ FoldCount(st)
    \/ TripHandlers(st)
    \/ \E i \in todo[st] : HandlerEnds(st, i)
    \/ HandlersDone(st) \/ Listen(st)

Next ==
    \/ \E st \in Statements : \E r \in Sends[st] : Send(st, r)
    \/ \E st, inner \in Statements, dur \in Durations : \E i \in todo[st] :
           HandlerQueries(st, i, inner, dur)
    \/ \E st \in Statements : Emit(st)
    \/ \E sc \in Scopes : Stats(sc)
    \/ \E db \in DBs : ResetNanos(db) \/ ResetCount(db)

Spec == Init /\ [][Next]_vars

\* The Go scheduler runs every goroutine that can run, and sync.Mutex serves
\* waiting goroutines (its starvation mode), so a step that stays possible is
\* taken.  The application need not issue anything.
FairSpec == Spec /\ \A st \in Statements : WF_vars(Emit(st))
-----------------------------------------------------------------------------
Phases == {"idle", "emit", "addCount", "scope", "load", "fold", "count",
           "trip", "handlers", "listen", "done"}

\* Phases only the statements of a tracked context reach.
InScope == {"load", "fold", "count", "trip", "handlers"}

\* The shape of the state.
TypeOK ==
    /\ pc      \in [Statements -> Phases]
    /\ req     \in [Statements -> Request]
    /\ \A st \in Statements : pc[st] \in InScope => Sc(st) \in Scopes
    /\ copy    \in [Statements -> [total : Nat, fired : SUBSET AllHandlers]]
    /\ snap    \in [Statements -> Snapshot]
    /\ todo    \in [Statements -> SUBSET AllHandlers]
    /\ child   \in [Statements -> Statements \cup {Nobody}]
    /\ mu      \in [Scopes -> Statements \cup {Nobody}]
    /\ total   \in [Scopes -> Nat]
    /\ count   \in [Scopes -> Nat]
    /\ slowest \in [Scopes -> Nat]
    /\ fired   \in [Scopes -> SUBSET AllHandlers]
    /\ nanos   \in [DBs -> Nat]
    /\ calls   \in [DBs -> Nat]
    /\ resets  \in [DBs -> BOOLEAN]
    /\ warned  \in BOOLEAN
    /\ heard   \in [Statements -> BOOLEAN]
    /\ order   \in [Scopes -> Seq(Entry)]
    /\ reports \subseteq [sc : Scopes, db : DBs, handler : AllHandlers,
                         dur : Durations, stats : Snapshot]
    /\ seen    \in [Scopes -> Snapshot]

\* The stats a scope has had between two statements.
Moments(sc) == {After(order[sc], k) : k \in 0 .. Len(order[sc])}
Active(sc)  == \E st \in Statements :
                        Sc(st) = sc /\ pc[st] \notin {"idle", "done"}

\* Statements of one scope that run in several goroutines lose no update of
\* its total, count and slowest (querystats.go: "Total, Count and Slowest have
\* to advance together").
ScopeCoherent ==
    \A sc \in Scopes :
        mu[sc] = Nobody => CurrentSnapshot(sc) = Latest(order[sc])

\* A snapshot, from Stats or in a handler, is the scope's state after some
\* whole number of statements, never in the middle of one.
SnapshotsCoherent ==
    /\ \A sc \in Scopes : seen[sc] \in Moments(sc)
    /\ \A r \in reports : r.stats \in Moments(r.sc)

\* A handler fires at most once per scope, whatever statements cross its
\* threshold at the same time (querystats.go: "It fires at most once per
\* scope").
HandlersFireOnce ==
    \A r1, r2 \in reports :
        r1.sc = r2.sc /\ r1.db = r2.db /\ r1.handler = r2.handler => r1 = r2

\* The k-th entry of the scope is the first that should call r's handler, and r
\* is about it.
TippedBy(r, k) ==
    LET limit == Thresholds[r.db][r.handler]
    IN  /\ order[r.sc][k] = [db |-> r.db, dur |-> r.dur, stats |-> r.stats]
        /\ r.stats.total >= limit
        /\ \A j \in 1 .. k - 1 :
              order[r.sc][j].db = r.db => order[r.sc][j].stats.total < limit

\* A handler is told of the statement that tipped the scope over, with the
\* scope's stats at that moment: the first statement of its DB at which the
\* scope's total was at or over the threshold.
TippingStatementReported ==
    \A r \in reports : \E k \in DOMAIN order[r.sc] : TippedBy(r, k)

\* Once the statements of a scope have returned, every handler of a DB that ran
\* a statement with the scope over the handler's threshold has fired, whatever
\* statements crossed it together (querystats.go: "have cumulatively spent longer
\* than threshold").
DueHandlersFire ==
    \A sc \in Scopes : ~Active(sc) =>
        \A k \in 1 .. Len(order[sc]) :
            LET entry == order[sc][k]
            IN  \A i \in Handlers(entry.db) :
                   entry.stats.total > Thresholds[entry.db][i] =>
                       \E r \in reports :
                           r.sc = sc /\ r.db = entry.db /\ r.handler = i

\* The statements of a DB that are through with its counters, and that none is
\* between them.
Past(db)  == {st \in Statements : DB(st) = db /\
                 pc[st] \notin {"idle", "emit", "addCount"}}
Quiet(db) == \A st \in Statements : DB(st) = db =>
                 pc[st] \notin {"emit", "addCount"}

\* The lifetime counters of a DB that is never reset count every statement it
\* ran, tracked or not, in any scope.
LifetimeTotals ==
    \A db \in DBs \ Resetting : Quiet(db) =>
        /\ calls[db] = Cardinality(Past(db))
        /\ nanos[db] = SumFunction([st \in Past(db) |-> req[st].dur])

\* Every statement returns to its caller and was reported to the listeners: no
\* handler, panicking or querying under the same scope, holds it up.
StatementsReturn ==
    \A st \in Statements : pc[st] = "emit" ~> pc[st] = "done" /\ heard[st]
=============================================================================
