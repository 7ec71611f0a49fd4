------------------------------ MODULE ConnPool ------------------------------
(***************************************************************************)
(* Which connection a statement runs on, and for how long (db.go,          *)
(* dynamic.go, events.go, debug.go and Builder.Get).                       *)
(*                                                                         *)
(* A statement of a Dynamic DB asks the resolver for a pool, waits for a   *)
(* connection of that pool, runs, tells the listeners while its rows are   *)
(* open, and gives the connection back when they are closed.  A DB of Open *)
(* or Use is one whose resolver always answers with the same pool.  Tx     *)
(* resolves once, begins, and runs the statements of its closure on the    *)
(* connection it began on until it commits or rolls back.  Pools, their    *)
(* connections and the transaction handle belong to database/sql.          *)
(***************************************************************************)
EXTENDS Naturals, Sequences

CONSTANTS
    Clients,   \* goroutines that use the DB
    Pools,     \* *sql.DB handles the resolver may answer with
    Conns,     \* their connections
    PoolOf,    \* PoolOf[k]: the pool connection k belongs to
    Calls,     \* statements one call sends, e.g. a count and then a page
    Nests,     \* Nests[c]: pools on which a closure of c may use the outer DB
    Nothing

Ops == {"query", "queryRow", "exec"}

ASSUME ConstantsAssumption ==
    /\ PoolOf \in [Conns -> Pools]
    /\ Calls \subseteq Seq(Ops) \ {<<>>}
    /\ Nests \in [Clients -> SUBSET Pools]
    /\ Nothing \notin Clients \cup Pools \cup Conns

VARIABLES
    pc,       \* pc[c]: "app" while the application's own code runs
    on,       \* on[c]: the session of the call, "db" or "tx"
    todo,     \* todo[c]: statements of the call still to send, current first
    answer,   \* answer[c]: what the resolver said for the current statement
    conn,     \* conn[c]: the connection of the current statement
    failed,   \* failed[c]: the runner returned an error
    tx,       \* tx[c]: the connection the running Tx of c has begun on
    alive,    \* alive[c]: that transaction is neither committed nor rolled back
    owner,    \* owner[k]: the client that has k out of its pool
    open,     \* connections with open rows
    last,     \* history: how the closure of c's last Tx ended, what Tx returned
    fates     \* history: what became of the statements that closure ran on it

ghostVars == <<last, fates>>
vars      == <<pc, on, todo, answer, conn, failed, tx, alive, owner, open,
               ghostVars>>

Op(c)        == Head(todo[c])
InTx(c)      == tx[c] # Nothing
Goto(c, at)  == pc' = [pc EXCEPT ![c] = at]
Free(k)      == owner' = [owner EXCEPT ![k] = Nothing]
FreeUnlessTx(c) == IF on[c] = "tx" THEN UNCHANGED owner ELSE Free(conn[c])

(***************************************************************************)
(* The history of a Tx.  A statement that succeeded on its connection is   *)
(* held by the transaction as long as that lives; run anywhere else, the   *)
(* database keeps it at once.                                              *)
(***************************************************************************)
Running == [closure |-> "running", returned |-> "running"]

Forget(c) == /\ last'  = [last EXCEPT ![c] = Running]
             /\ fates' = [fates EXCEPT ![c] = {}]

Note(c) ==
    LET fate == IF alive[c] /\ conn[c] = tx[c] THEN "held" ELSE "kept"
    IN  fates' = IF on[c] = "tx" THEN [fates EXCEPT ![c] = @ \cup {fate}]
                 ELSE fates

Settle(c, fate) ==
    fates' = [fates EXCEPT ![c] = {IF f = "held" THEN fate ELSE f : f \in @}]

-----------------------------------------------------------------------------
Init ==
    /\ pc     = [c \in Clients |-> "app"]
    /\ on     = [c \in Clients |-> "db"]
    /\ todo   = [c \in Clients |-> <<>>]
    /\ answer = [c \in Clients |-> Nothing]
    /\ conn   = [c \in Clients |-> Nothing]
    /\ failed = [c \in Clients |-> FALSE]
    /\ tx     = [c \in Clients |-> Nothing]
    /\ alive  = [c \in Clients |-> FALSE]
    /\ owner  = [k \in Conns |-> Nothing]
    /\ open   = {}
    /\ last   = [c \in Clients |-> Running]
    /\ fates  = [c \in Clients |-> {}]

(***************************************************************************)
(* The call returns, to the application or to the closure of a Tx.         *)
(***************************************************************************)
Return(c) ==
    /\ Goto(c, "app")
    /\ on'     = [on EXCEPT ![c] = "db"]
    /\ todo'   = [todo EXCEPT ![c] = <<>>]
    /\ answer' = [answer EXCEPT ![c] = Nothing]
    /\ conn'   = [conn EXCEPT ![c] = Nothing]
    /\ failed' = [failed EXCEPT ![c] = FALSE]

\* Mutant: the call goes on when nothing is left to send.
ContinueOnceMore(c) ==
    IF Len(todo[c]) > 0
    THEN /\ Goto(c, "send")
         /\ todo'   = [todo EXCEPT ![c] = Tail(@)]
         /\ answer' = [answer EXCEPT ![c] = Nothing]
         /\ conn'   = [conn EXCEPT ![c] = Nothing]
         /\ UNCHANGED <<on, failed>>
    ELSE Return(c)

\* The next statement of the call, such as the first relation query of Get.
Continue(c) ==
    IF Len(todo[c]) > 1
    THEN /\ Goto(c, "send")
         /\ todo'   = [todo EXCEPT ![c] = Tail(@)]
         /\ answer' = [answer EXCEPT ![c] = Nothing]
         /\ conn'   = [conn EXCEPT ![c] = Nothing]
         /\ UNCHANGED <<on, failed>>
    ELSE Return(c)

(***************************************************************************)
(* A call of the application.  A closure uses the Tx it was handed; it may *)
(* also use the DB around it, where the pool is known to have connections  *)
(* to spare.                                                               *)
(***************************************************************************)
Call(c, statements, session) ==
    /\ pc[c] = "app"
    /\ session = "tx" => InTx(c)
    /\ session = "db" /\ InTx(c) => PoolOf[tx[c]] \in Nests[c]
    /\ on'   = [on EXCEPT ![c] = session]
    /\ todo' = [todo EXCEPT ![c] = statements]
    /\ IF InTx(c) THEN UNCHANGED ghostVars ELSE Forget(c)
    /\ Goto(c, "send")
    /\ UNCHANGED <<answer, conn, failed, tx, alive, owner, open>>

BeginTx(c) ==
    /\ pc[c] = "app" /\ ~InTx(c)
    /\ on'   = [on EXCEPT ![c] = "db"]
    /\ todo' = [todo EXCEPT ![c] = <<"begin">>]
    /\ Forget(c)
    /\ Goto(c, "send")
    /\ UNCHANGED <<answer, conn, failed, tx, alive, owner, open>>

(***************************************************************************)
(* The runner could not run the statement.  The listeners are told of it   *)
(* all the same; a failed begin is no statement, and Tx just returns.      *)
(***************************************************************************)
Fails(c) ==
    IF Op(c) = "begin"
    THEN Return(c)
    ELSE /\ failed' = [failed EXCEPT ![c] = TRUE]
         /\ answer' = [answer EXCEPT ![c] = Nothing]
         /\ conn'   = [conn EXCEPT ![c] = Nothing]
         /\ Goto(c, "tell")
         /\ UNCHANGED <<on, todo>>

(***************************************************************************)
(* ctxRunner and DB.Tx ask the resolver.                                   *)
(***************************************************************************)
\* Mutant: the session of a Tx runs on the resolving runner of its DB.
ResolveInTx(c, pool) ==
    /\ pc[c] = "send"
    /\ answer' = [answer EXCEPT ![c] = pool]
    /\ Goto(c, "wait")
    /\ UNCHANGED <<on, todo, conn, failed, tx, alive, owner, open, ghostVars>>

Resolve(c, pool) ==
    /\ pc[c] = "send" /\ on[c] = "db"
    /\ answer' = [answer EXCEPT ![c] = pool]
    /\ Goto(c, "wait")
    /\ UNCHANGED <<on, todo, conn, failed, tx, alive, owner, open, ghostVars>>

ResolveFails(c) ==
    /\ pc[c] = "send" /\ on[c] = "db"
    /\ Fails(c)
    /\ UNCHANGED <<tx, alive, owner, open, ghostVars>>

(***************************************************************************)
(* database/sql: a free connection of the pool, or the context expires     *)
(* first.  The statements of a Tx have theirs; when its transaction is     *)
(* over because the context expired, they fail.                            *)
(***************************************************************************)
Acquire(c, k) ==
    /\ pc[c] = "wait"
    /\ PoolOf[k] = answer[c] /\ owner[k] = Nothing
    /\ owner' = [owner EXCEPT ![k] = c]
    /\ conn'  = [conn EXCEPT ![c] = k]
    /\ Goto(c, "run")
    /\ UNCHANGED <<on, todo, answer, failed, tx, alive, open, ghostVars>>

GiveUp(c) ==
    /\ pc[c] = "wait"
    /\ Fails(c)
    /\ UNCHANGED <<tx, alive, owner, open, ghostVars>>

SendOnTx(c) ==
    /\ pc[c] = "send" /\ on[c] = "tx"
    /\ IF alive[c]
       THEN /\ conn' = [conn EXCEPT ![c] = tx[c]]
            /\ Goto(c, "run")
            /\ UNCHANGED <<on, todo, answer, failed>>
       ELSE Fails(c)
    /\ UNCHANGED <<tx, alive, owner, open, ghostVars>>

(***************************************************************************)
(* The driver runs the statement.  QueryContext and QueryRowContext return *)
(* with the rows open and the connection kept; ExecContext, and a failure, *)
(* give it back at once.                                                   *)
(***************************************************************************)
RunSucceeds(c) ==
    /\ pc[c] = "run"
    /\ Op(c) # "begin"
    /\ IF Op(c) = "exec"
       THEN FreeUnlessTx(c) /\ UNCHANGED open
       ELSE open' = open \cup {conn[c]} /\ UNCHANGED owner
    /\ Note(c)
    /\ Goto(c, "tell")
    /\ UNCHANGED <<on, todo, answer, conn, failed, tx, alive, last>>

RunFails(c) ==
    /\ pc[c] = "run"
    /\ FreeUnlessTx(c)
    /\ Fails(c)
    /\ UNCHANGED <<tx, alive, open, ghostVars>>

\* BeginTx has succeeded: the connection is the transaction's from here on.
Begun(c) ==
    /\ pc[c] = "run"
    /\ Op(c) = "begin"
    /\ tx'    = [tx EXCEPT ![c] = conn[c]]
    /\ alive' = [alive EXCEPT ![c] = TRUE]
    /\ Return(c)
    /\ UNCHANGED <<owner, open, ghostVars>>

(***************************************************************************)
(* listenRunner tells the listeners and returns to the call, which ends    *)
(* with the error, goes on after an exec, or reads the rows.               *)
(***************************************************************************)
Tell(c) ==
    /\ pc[c] = "tell"
    /\ \/ failed[c] /\ Return(c)
       \/ ~failed[c] /\ Op(c) = "exec" /\ Continue(c)
       \/ /\ ~failed[c] /\ Op(c) # "exec"
          /\ Goto(c, "read")
          /\ UNCHANGED <<on, todo, answer, conn, failed>>
    /\ UNCHANGED <<tx, alive, owner, open, ghostVars>>

\* Mutant: the rows are closed when the call is over, by a defer in Get.
ReadRowsDeferred(c) ==
    /\ pc[c] = "read"
    /\ IF Len(todo[c]) > 1 THEN UNCHANGED <<owner, open>>
       ELSE FreeUnlessTx(c) /\ open' = open \ {conn[c]}
    /\ Continue(c)
    /\ UNCHANGED <<tx, alive, ghostVars>>

\* Mutant: an error of the scan returns before the rows are closed.
ReadRowsLeaky(c) ==
    /\ pc[c] = "read"
    /\ \/ Return(c) /\ UNCHANGED <<owner, open>>
       \/ FreeUnlessTx(c) /\ open' = open \ {conn[c]} /\ Continue(c)
    /\ UNCHANGED <<tx, alive, ghostVars>>

\* The rows are scanned and closed, which gives the connection back; then the
\* call returns the error of the scan, or what it has read, or goes on.
ReadRows(c) ==
    /\ pc[c] = "read"
    /\ FreeUnlessTx(c)
    /\ open' = open \ {conn[c]}
    /\ Return(c) \/ Continue(c)
    /\ UNCHANGED <<tx, alive, ghostVars>>

-----------------------------------------------------------------------------
(***************************************************************************)
(* The end of Tx.                                                          *)
(***************************************************************************)
EndTx(c, closure, returned, kept) ==
    /\ last'  = [last EXCEPT ![c] = [closure |-> closure, returned |-> returned]]
    /\ Settle(c, IF kept THEN "kept" ELSE "undone")
    /\ tx'    = [tx EXCEPT ![c] = Nothing]
    /\ alive' = [alive EXCEPT ![c] = FALSE]
    /\ IF alive[c] THEN Free(tx[c]) ELSE UNCHANGED owner
    /\ UNCHANGED open

\* The closure returns nil: Tx returns what Commit returns.  A commit may fail,
\* of a transaction that is over it must, or succeed without its answer arriving.
Commit(c) ==
    /\ pc[c] = "app" /\ InTx(c)
    /\ \E returned \in {"nil", "error"}, kept \in BOOLEAN :
          /\ kept => alive[c]
          /\ returned = "nil" => kept
          /\ EndTx(c, "nil", returned, kept)
    /\ UNCHANGED <<pc, on, todo, answer, conn, failed>>

\* The closure returns an error or panics: rolled back, and Tx passes it on.
Rollback(c, closure) ==
    /\ pc[c] = "app" /\ InTx(c)
    /\ EndTx(c, closure, closure, FALSE)
    /\ UNCHANGED <<pc, on, todo, answer, conn, failed>>

\* The builder of the next statement is under DD: its runner panics in place of
\* the session's, so nothing is resolved, run or told, and the panic unwinds the
\* call and, in a closure, the Tx.
DD(c) ==
    /\ pc[c] = "send" /\ Op(c) # "begin"
    /\ Return(c)
    /\ IF InTx(c) THEN EndTx(c, "panic", "panic", FALSE)
       ELSE UNCHANGED <<tx, alive, owner, open, ghostVars>>

\* The context of a Tx expires: database/sql rolls back as soon as no statement
\* is using the transaction, whatever the closure is doing.
Expire(c) ==
    /\ alive[c]
    /\ tx[c] \notin open
    /\ ~(pc[c] = "run" /\ on[c] = "tx")
    /\ alive' = [alive EXCEPT ![c] = FALSE]
    /\ Free(tx[c])
    /\ Settle(c, "undone")
    /\ UNCHANGED <<pc, on, todo, answer, conn, failed, tx, open, last>>

-----------------------------------------------------------------------------
\* The steps of a call once it has been made; waiting apart.
Step(c) ==
    \/ (\E pool \in Pools : Resolve(c, pool)) \/ ResolveFails(c)
    \/ SendOnTx(c) \/ DD(c)
    \/ RunSucceeds(c) \/ RunFails(c) \/ Begun(c)
    \/ Tell(c) \/ ReadRows(c)

Finish(c) == Commit(c) \/ \E closure \in {"error", "panic"} : Rollback(c, closure)

Next ==
    \E c \in Clients :
        \/ \E statements \in Calls, session \in {"db", "tx"} :
              Call(c, statements, session)
        \/ BeginTx(c)
        \/ Step(c)
        \/ \E k \in Conns : Acquire(c, k)
        \/ GiveUp(c)
        \/ Finish(c)
        \/ Expire(c)

Spec == Init /\ [][Next]_vars

\* Drivers answer and goroutines run; a pool hands a freed connection to one of
\* those waiting and starves none; a closure does not send statements for ever.
\* No context need expire and no call need be made.
FairSpec ==
    /\ Spec
    /\ \A c \in Clients :
          /\ WF_vars(Step(c))
          /\ SF_vars(\E k \in Conns : Acquire(c, k))
          /\ SF_vars(Finish(c))

-----------------------------------------------------------------------------
Sent == {"run", "tell", "read"}

\* The shape of the state; a call under way has a statement to run.
TypeOK ==
    /\ pc     \in [Clients -> {"app", "send", "wait"} \cup Sent]
    /\ on     \in [Clients -> {"db", "tx"}]
    /\ todo   \in [Clients -> Seq(Ops \cup {"begin"})]
    /\ \A c \in Clients : todo[c] = <<>> <=> pc[c] = "app"
    /\ answer \in [Clients -> Pools \cup {Nothing}]
    /\ conn   \in [Clients -> Conns \cup {Nothing}]
    /\ failed \in [Clients -> BOOLEAN]
    /\ tx     \in [Clients -> Conns \cup {Nothing}]
    /\ alive  \in [Clients -> BOOLEAN]
    /\ owner  \in [Conns -> Clients \cup {Nothing}]
    /\ open   \subseteq Conns
    /\ last   \in [Clients -> [closure  : {"running", "nil", "error", "panic"},
                               returned : {"running", "nil", "error", "panic"}]]
    /\ fates  \in [Clients -> SUBSET {"held", "kept", "undone"}]

\* The current statement of c is using connection k.
Using(c, k) ==
    /\ conn[c] = k
    /\ \/ pc[c] \in {"run", "read"}
       \/ pc[c] = "tell" /\ ~failed[c] /\ Op(c) # "exec"

\* A connection is out of its pool exactly as long as a statement of its owner
\* uses it or a live transaction of its owner is on it, however calls fail, give
\* up, are dumped or panic (builder.go: "Release the connection").
NoConnectionLeaked ==
    /\ \A k \in Conns, c \in Clients :
          owner[k] = c <=> Using(c, k) \/ (alive[c] /\ tx[c] = k)
    /\ \A k \in open : \E c \in Clients : Using(c, k)

\* A statement is never sent on a connection whose rows are still open, in or
\* out of a transaction: relation queries come after the parents' rows are
\* closed.
NoStatementUnderOpenRows ==
    \A c \in Clients : pc[c] = "run" => conn[c] \notin open

\* A statement of a DB runs in the pool the resolver named for it, and a
\* statement of a Tx on the connection the transaction began on, whatever the
\* resolver says meanwhile (dynamic.go: "never falls back to another
\* connection"; "pinned to one connection for its whole life").
RightConnection ==
    \A c \in Clients :
        pc[c] \in Sent /\ conn[c] # Nothing =>
            IF on[c] = "tx" THEN conn[c] = tx[c]
            ELSE PoolOf[conn[c]] = answer[c] /\ (alive[c] => conn[c] # tx[c])

\* The statements of a closure share one fate at every moment, whatever expires
\* between them and whatever the resolver says: when Tx returns nil all of them
\* are kept, and after an error or a panic of the closure none is (db.go: "Commit
\* on success, rollback on error or panic").
ClosureAllOrNothing ==
    \A c \in Clients :
        /\ \E fate \in {"held", "kept", "undone"} : fates[c] \subseteq {fate}
        /\ last[c].returned = "nil" => fates[c] \subseteq {"kept"}
        /\ last[c].closure \in {"error", "panic"} => fates[c] \subseteq {"undone"}

\* Every call returns, with pools of a single connection too, as long as
\* closures use the DB around them only where a connection can be spared.
CallsReturn ==
    \A c \in Clients : pc[c] # "app" ~> pc[c] = "app"
=============================================================================
