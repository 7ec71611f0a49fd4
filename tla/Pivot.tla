------------------------------- MODULE Pivot -------------------------------
(***************************************************************************)
(* Pivot writes (pivot.go): attaching, detaching, syncing and toggling the *)
(* rows of a join table.  Sync, SyncWithoutDetaching and Toggle read the   *)
(* current ids, decide from them, and then detach and attach in separate   *)
(* statements, each of which may fail; other clients write the same links  *)
(* in between.  A client may wrap a call in DB.Tx.                         *)
(*                                                                         *)
(* The database is external: a statement is atomic, a transaction sees its *)
(* own writes over the committed ones (read committed), and a writer waits *)
(* for a link that an open transaction has written.                        *)
(***************************************************************************)
EXTENDS Naturals, Sequences

CONSTANTS
    Clients,
    TxClients,   \* those that wrap calls in DB.Tx
    Parents,     \* [key, type] records: whose rows share the join table
    Owner,       \* the parent the calls are about
    Related,     \* ids on the other side
    Lists,       \* the relatedIDs of a call: how often it names each id
    Plain,       \* pivot columns of a row attached without any
    Notes,       \* pivot columns given to AttachWith and UpdatePivot
    MaxCopies,   \* bound: rows one link may have
    Clean,       \* the transaction has not written the link
    Lapsed       \* another client wrote the link since: nothing is promised

Links   == Parents \X Related
Columns == Notes \cup {Plain}
\* The rows of one link, by their pivot columns.
Copies  == UNION {[1 .. n -> Columns] : n \in 0 .. MaxCopies}

ASSUME ConstantsAssumption ==
    /\ TxClients \subseteq Clients
    /\ Owner \in Parents
    /\ \A p \in Parents : p = [key |-> p.key, type |-> p.type]
    /\ Lists \subseteq [Related -> Nat]
    /\ MaxCopies \in Nat \ {0}
    /\ Plain \notin Notes
    /\ Clean \notin Copies

VARIABLES
    unique,    \* the join table has a unique key on the link
    links,     \* the committed rows of each link
    pending,   \* pending[c]: the links c's open transaction has written
    pc,        \* pc[c]: the statement c's call runs next
    inTx,      \* inTx[c]: c's call is in DB.Tx
    toDetach,  \* what c's call decided from the ids it read: a set of ids,
    toAttach,  \* and how many rows to insert for each
    promise,   \* history: each link as c's last call read it and is to leave it
    outcome    \* history: how c's last call ended

vars == <<unique, links, pending, pc, inTx, toDetach, toAttach, promise,
          outcome>>

(***************************************************************************)
(* The database.                                                           *)
(***************************************************************************)
View(c) == [l \in Links |-> IF pending[c][l] = Clean THEN links[l]
                                                     ELSE pending[c][l]]

\* The others' promises lapse on the links that c changes.
Publish(c, written, new) ==
    LET over(old, value) ==
            [l \in Links |-> IF l \in written THEN value[l] ELSE old[l]]
    IN  /\ links'   = over(links, new)
        /\ promise' = [d \in Clients |->
                         IF d = c THEN promise[d]
                         ELSE over(promise[d], [l \in Links |-> Lapsed])]

\* Mutant: the session of a transaction kept the pool as its runner.
WriteOnPool(c, written, new) ==
    /\ \A d \in Clients \ {c}, l \in written : pending[d][l] = Clean
    /\ Publish(c, written, new)
    /\ UNCHANGED <<unique, pending>>

\* A statement of c leaves the links it writes as in new.
Write(c, written, new) ==
    /\ \A d \in Clients \ {c}, l \in written : pending[d][l] = Clean
    /\ IF inTx[c]
       THEN /\ pending' = [pending EXCEPT ![c] =
                  [l \in Links |-> IF l \in written THEN new[l] ELSE @[l]]]
            /\ UNCHANGED <<unique, links, promise>>
       ELSE /\ Publish(c, written, new)
            /\ UNCHANGED <<unique, pending>>

NoWrite == UNCHANGED <<unique, links, pending, promise>>

(***************************************************************************)
(* The statements.                                                         *)
(***************************************************************************)
\* An INSERT has a row for each id named, as often as it is named.
NewRows(n, columns) == [i \in 1 .. n |-> columns]
Named(ids)          == {r \in Related : ids[r] # 0}
Nobody              == [r \in Related |-> 0]
Once(r)             == [Nobody EXCEPT ![r] = 1]

\* attachIDs: one INSERT; a unique key refuses the whole of it.
AttachIDs(c, ids, columns) ==
    LET new     == [l \in Links |-> View(c)[l] \o NewRows(ids[l[2]], columns)]
        written == {Owner} \X Named(ids)
    IN  IF ids = Nobody
        THEN NoWrite
        ELSE /\ \A l \in written :
                   Len(new[l]) <= (IF unique THEN 1 ELSE MaxCopies)
             /\ Write(c, written, new)

\* Mutant: the type column is forgotten.
PivotScopeUntyped == {p \in Parents : p.key = Owner.key}

\* pivotScope: the rows of this parent and, for a morph, of this type.
PivotScope == {p \in Parents : p.key = Owner.key /\ p.type = Owner.type}

\* detachIDs: one DELETE; without ids, of all rows of the parent.
DetachIDs(c, ids) ==
    Write(c, PivotScope \X (IF ids = {} THEN Related ELSE ids),
          [l \in Links |-> <<>>])

(***************************************************************************)
(* Calls of a single statement.                                            *)
(***************************************************************************)
Single(c) ==
    /\ pc[c] = "idle"
    /\ outcome[c] = "none"
    /\ UNCHANGED <<pc, inTx, toDetach, toAttach, outcome>>

Attach(c, ids)            == Single(c) /\ AttachIDs(c, ids, Plain)
AttachWith(c, r, columns) == Single(c) /\ AttachIDs(c, Once(r), columns)
Detach(c, ids)            == Single(c) /\ DetachIDs(c, Named(ids))

UpdatePivot(c, r, columns) ==
    /\ Single(c)
    /\ Write(c, PivotScope \X {r},
             [l \in Links |-> [i \in DOMAIN View(c)[l] |-> columns]])

(***************************************************************************)
(* Calls that read first: pivotCurrentIDs, then the two lists.             *)
(***************************************************************************)
ReadFirst(c, tx, detach, attach, leaves) ==
    /\ pc[c] = "idle" /\ outcome[c] = "none"
    /\ tx => c \in TxClients /\ unique
    /\ pc'       = [pc EXCEPT ![c] = "detach"]
    /\ inTx'     = [inTx EXCEPT ![c] = tx]
    /\ toDetach' = [toDetach EXCEPT ![c] = detach]
    /\ toAttach' = [toAttach EXCEPT ![c] = attach]
    /\ promise'  = [promise EXCEPT ![c] =
            [l \in Links |-> [from |-> links[l],
                              to   |-> IF l[1] = Owner
                                       THEN leaves[l[2]] ELSE links[l]]]]
    /\ UNCHANGED <<unique, links, pending, outcome>>

Held(r)      == links[<<Owner, r>>]
Have         == {r \in Related : Held(r) # <<>>}
Missing(ids) == [r \in Related |-> IF r \in Have THEN 0 ELSE ids[r]]

\* A link named n times and not there gets n rows; one that is there keeps its
\* rows with their columns.
Linked(ids, r) == IF Held(r) = <<>> THEN NewRows(ids[r], Plain) ELSE Held(r)

\* The parent's links are exactly ids.
Sync(c, ids, tx) ==
    ReadFirst(c, tx, Have \ Named(ids), Missing(ids),
              [r \in Related |-> IF r \in Named(ids) THEN Linked(ids, r)
                                                     ELSE <<>>])

SyncWithoutDetaching(c, ids, tx) ==
    ReadFirst(c, tx, {}, Missing(ids), [r \in Related |-> Linked(ids, r)])

Toggle(c, ids, tx) ==
    ReadFirst(c, tx, Have \cap Named(ids), Missing(ids),
              [r \in Related |-> IF r \in Named(ids) /\ Held(r) # <<>>
                                 THEN <<>> ELSE Linked(ids, r)])

\* Mutant: nothing to detach is not told from no ids.
DetachStepUnguarded(c) ==
    /\ pc[c] = "detach"
    /\ DetachIDs(c, toDetach[c])
    /\ pc'       = [pc EXCEPT ![c] = "attach"]
    /\ toDetach' = [toDetach EXCEPT ![c] = {}]
    /\ UNCHANGED <<inTx, toAttach, outcome>>

DetachStep(c) ==
    /\ pc[c] = "detach"
    /\ IF toDetach[c] = {} THEN NoWrite ELSE DetachIDs(c, toDetach[c])
    /\ pc'       = [pc EXCEPT ![c] = "attach"]
    /\ toDetach' = [toDetach EXCEPT ![c] = {}]
    /\ UNCHANGED <<inTx, toAttach, outcome>>

AttachStep(c) ==
    /\ pc[c] = "attach"
    /\ AttachIDs(c, toAttach[c], Plain)
    /\ pc' = [pc EXCEPT ![c] = IF inTx[c] THEN "commit" ELSE "idle"]
    /\ outcome' = IF inTx[c] THEN outcome
                             ELSE [outcome EXCEPT ![c] = "done"]
    /\ toAttach' = [toAttach EXCEPT ![c] = Nobody]
    /\ UNCHANGED <<inTx, toDetach>>

Ends(c, how) ==
    /\ pc'      = [pc EXCEPT ![c] = "idle"]
    /\ inTx'    = [inTx EXCEPT ![c] = FALSE]
    /\ pending' = [pending EXCEPT ![c] = [l \in Links |-> Clean]]
    /\ toDetach' = [toDetach EXCEPT ![c] = {}]
    /\ toAttach' = [toAttach EXCEPT ![c] = Nobody]
    /\ outcome' = [outcome EXCEPT ![c] = how]
    /\ UNCHANGED unique

Commit(c) ==
    /\ pc[c] = "commit"
    /\ Publish(c, {l \in Links : pending[c][l] # Clean}, View(c))
    /\ Ends(c, "done")

\* Mutant: the error returns past the rollback.
FailsUnrolled(c) ==
    /\ pc[c] # "idle"
    /\ pc'      = [pc EXCEPT ![c] = "idle"]
    /\ outcome' = [outcome EXCEPT ![c] = "failed"]
    /\ UNCHANGED <<unique, links, pending, inTx, toDetach, toAttach, promise>>

\* A statement or the commit fails: the call returns the error, and DB.Tx rolls
\* back.
Fails(c) ==
    /\ pc[c] # "idle"
    /\ Ends(c, IF inTx[c] THEN "rolledBack" ELSE "failed")
    /\ UNCHANGED <<links, promise>>

\* The client goes on, and its last call is forgotten.
Proceed(c) ==
    /\ outcome[c] # "none"
    /\ outcome' = [outcome EXCEPT ![c] = "none"]
    /\ promise' = [promise EXCEPT ![c] = [l \in Links |-> Lapsed]]
    /\ UNCHANGED <<unique, links, pending, pc, inTx, toDetach, toAttach>>

-----------------------------------------------------------------------------
Init ==
    /\ unique   \in BOOLEAN
    /\ links    = [l \in Links |-> IF l[1] = Owner THEN <<>> ELSE <<Plain>>]
    /\ pending  = [c \in Clients |-> [l \in Links |-> Clean]]
    /\ pc       = [c \in Clients |-> "idle"]
    /\ inTx     = [c \in Clients |-> FALSE]
    /\ toDetach = [c \in Clients |-> {}]
    /\ toAttach = [c \in Clients |-> Nobody]
    /\ promise  = [c \in Clients |-> [l \in Links |-> Lapsed]]
    /\ outcome  = [c \in Clients |-> "none"]

Next ==
    \E c \in Clients :
        \/ \E ids \in Lists : Attach(c, ids) \/ Detach(c, ids)
        \/ \E r \in Related, n \in Notes : AttachWith(c, r, n)
        \/ \E r \in Related, n \in Notes : UpdatePivot(c, r, n)
        \/ \E ids \in Lists, tx \in BOOLEAN :
              \/ Sync(c, ids, tx) \/ SyncWithoutDetaching(c, ids, tx)
              \/ Toggle(c, ids, tx)
        \/ DetachStep(c) \/ AttachStep(c) \/ Commit(c) \/ Fails(c)
        \/ Proceed(c)

Spec == Init /\ [][Next]_vars
-----------------------------------------------------------------------------
\* The shape of the state.
TypeOK ==
    /\ unique   \in BOOLEAN
    /\ links    \in [Links -> Copies]
    /\ pending  \in [Clients -> [Links -> Copies \cup {Clean}]]
    /\ pc       \in [Clients -> {"idle", "detach", "attach", "commit"}]
    /\ inTx     \in [Clients -> BOOLEAN]
    /\ toDetach \in [Clients -> SUBSET Related]
    /\ toAttach \in [Clients -> [Related -> Nat]]
    /\ promise  \in [Clients -> [Links -> [from : Copies, to : Seq(Columns)]
                                            \cup {Lapsed}]]
    /\ outcome  \in [Clients -> {"none", "done", "failed", "rolledBack"}]
    /\ \A c \in Clients : pc[c] = "idle" => ~inTx[c]

Promised(c) == {l \in Links : promise[c][l] # Lapsed}

\* When Sync, SyncWithoutDetaching or Toggle has returned nil, every link no
\* other client wrote since the read is as the call says: a kept link still has
\* its rows with their pivot columns, a dropped one none, a new one as many as
\* it was named, and the links of other parents are as they were
\* (pivot.go: "Sync makes the parent's pivot rows exactly relatedIDs").
DoneAsPromised ==
    \A c \in Clients : outcome[c] = "done" =>
        \A l \in Promised(c) : links[l] = promise[c][l].to

\* A call that returned an error may have detached and has attached nothing; in
\* DB.Tx it has changed nothing (pivot.go: "wrap the call in db.Tx for
\* atomicity").
FailedHalfway ==
    \A c \in Clients, l \in Links : l \in Promised(c) =>
        /\ outcome[c] = "rolledBack" => links[l] = promise[c][l].from
        /\ outcome[c] = "failed" =>
              \/ links[l] = promise[c][l].from
              \/ links[l] = <<>> /\ promise[c][l].to = <<>>

\* No call touches the rows of another parent, or of the same key under another
\* morph type.
OtherParentsUntouched ==
    [][\A l \in Links : l[1] # Owner => links'[l] = links[l]]_vars
=============================================================================
