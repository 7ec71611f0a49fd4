---------------------------- MODULE PivotProofs ----------------------------
(***************************************************************************)
(* Pivot writes stay within the rows of their parent, and Sync,            *)
(* SyncWithoutDetaching and Toggle leave its links as they say, or at most *)
(* half way when they fail: proved for every set of clients, parents, ids  *)
(* and call lists, with and without transactions.                          *)
(***************************************************************************)
EXTENDS Pivot, TLAPS

\* What a transaction holds back is also about the parent's links only, so that
\* its commit publishes nothing else.
OwnPending ==
    /\ DOMAIN pending = Clients
    /\ \A c \in Clients, l \in Links : l[1] # Owner => pending[c][l] = Clean

OthersKept == \A l \in Links : l[1] # Owner => links'[l] = links[l]

\* pivotScope tells parents apart by key and, for a morph, by type.
LEMMA ScopeIsOwner == PivotScope = {Owner}
BY ConstantsAssumption DEF PivotScope

\* A statement that names only links of the parent keeps to them.
LEMMA WriteKeeps ==
    ASSUME OwnPending, NEW c \in Clients, NEW ids, NEW new,
           Write(c, {Owner} \X ids, new)
    PROVE  OwnPending' /\ OthersKept
<1>1. \A l \in {Owner} \X ids : l[1] = Owner
  OBVIOUS
<1>2. CASE inTx[c]
  <2>1. /\ pending' = [pending EXCEPT ![c] =
              [l \in Links |-> IF l \in {Owner} \X ids THEN new[l] ELSE @[l]]]
        /\ links' = links
    BY <1>2 DEF Write
  <2>2. DOMAIN pending' = Clients
    BY <2>1 DEF OwnPending
  <2>3. ASSUME NEW d \in Clients, NEW l \in Links, l[1] # Owner
        PROVE  pending'[d][l] = Clean
    <3>1. pending[d][l] = Clean /\ l \notin {Owner} \X ids
      BY <1>1, <2>3 DEF OwnPending
    <3>2. CASE d = c
      BY <2>1, <3>1, <3>2 DEF OwnPending
    <3>3. CASE d # c
      BY <2>1, <3>1, <3>3 DEF OwnPending
    <3> QED  BY <3>2, <3>3
  <2> QED  BY <2>1, <2>2, <2>3 DEF OwnPending, OthersKept
<1>3. CASE ~inTx[c]
  <2>1. /\ links' = [l \in Links |-> IF l \in {Owner} \X ids THEN new[l]
                                                            ELSE links[l]]
        /\ pending' = pending
    BY <1>3 DEF Write, Publish
  <2> QED  BY <1>1, <2>1 DEF OwnPending, OthersKept
<1> QED  BY <1>2, <1>3

LEMMA NoWriteKeeps == ASSUME OwnPending, UNCHANGED <<links, pending>>
                      PROVE  OwnPending' /\ OthersKept
BY DEF OwnPending, OthersKept

LEMMA AttachKeeps ==
    ASSUME OwnPending, NEW c \in Clients, NEW ids, NEW columns,
           AttachIDs(c, ids, columns)
    PROVE  OwnPending' /\ OthersKept
<1>1. CASE ids = Nobody
  BY <1>1, NoWriteKeeps DEF AttachIDs, NoWrite
<1>2. CASE ids # Nobody
  <2>1. PICK new : Write(c, {Owner} \X Named(ids), new)
    BY <1>2 DEF AttachIDs
  <2> QED  BY <2>1, WriteKeeps
<1> QED  BY <1>1, <1>2

LEMMA DetachKeeps ==
    ASSUME OwnPending, NEW c \in Clients, NEW ids, DetachIDs(c, ids)
    PROVE  OwnPending' /\ OthersKept
BY ScopeIsOwner, WriteKeeps DEF DetachIDs

LEMMA EndKeeps ==
    ASSUME OwnPending, NEW c \in Clients, NEW how, Ends(c, how)
    PROVE  OwnPending'
<1>1. pending' = [pending EXCEPT ![c] = [l \in Links |-> Clean]]
  BY DEF Ends
<1>2. DOMAIN pending' = Clients
  BY <1>1 DEF OwnPending
<1>3. ASSUME NEW d \in Clients, NEW l \in Links, l[1] # Owner
      PROVE  pending'[d][l] = Clean
  BY <1>1, <1>3 DEF OwnPending
<1> QED  BY <1>2, <1>3 DEF OwnPending

LEMMA StepKeeps ==
    ASSUME OwnPending, Next
    PROVE  OwnPending' /\ OthersKept
<1>1. ASSUME NEW c \in Clients, NEW ids, Attach(c, ids) \/ Detach(c, ids)
      PROVE  OwnPending' /\ OthersKept
  BY <1>1, AttachKeeps, DetachKeeps DEF Attach, Detach
<1>2. ASSUME NEW c \in Clients, NEW r, NEW n,
             AttachWith(c, r, n) \/ UpdatePivot(c, r, n)
      PROVE  OwnPending' /\ OthersKept
  <2>1. CASE AttachWith(c, r, n)
    BY <2>1, AttachKeeps DEF AttachWith
  <2>2. CASE UpdatePivot(c, r, n)
    BY <2>2, ScopeIsOwner, WriteKeeps DEF UpdatePivot
  <2> QED  BY <1>2, <2>1, <2>2
<1>3. ASSUME NEW c \in Clients, NEW ids, NEW t,
             \/ Sync(c, ids, t) \/ SyncWithoutDetaching(c, ids, t)
             \/ Toggle(c, ids, t)
      PROVE  OwnPending' /\ OthersKept
  BY <1>3, NoWriteKeeps DEF Sync, SyncWithoutDetaching, Toggle, ReadFirst
<1>4. ASSUME NEW c \in Clients, DetachStep(c) \/ AttachStep(c) \/ Proceed(c)
      PROVE  OwnPending' /\ OthersKept
  BY <1>4, AttachKeeps, DetachKeeps, NoWriteKeeps
     DEF DetachStep, AttachStep, Proceed, NoWrite
<1>5. ASSUME NEW c \in Clients, Fails(c)
      PROVE  OwnPending' /\ OthersKept
  BY <1>5, EndKeeps DEF Fails, OthersKept
<1>6. ASSUME NEW c \in Clients, Commit(c)
      PROVE  OwnPending' /\ OthersKept
  <2>1. OwnPending'
    BY <1>6, EndKeeps DEF Commit
  <2>2. links' = [l \in Links |->
                    IF l \in {m \in Links : pending[c][m] # Clean}
                    THEN View(c)[l] ELSE links[l]]
    BY <1>6 DEF Commit, Publish
  <2> QED  BY <2>1, <2>2 DEF OwnPending, OthersKept
<1> QED  BY <1>1, <1>2, <1>3, <1>4, <1>5, <1>6 DEF Next

\* No pivot write, alone or within a transaction that commits, touches the rows
\* of another parent, or of the same key under another morph type.
THEOREM ParentsApart == Spec => OtherParentsUntouched
<1>1. Init => OwnPending
  BY DEF Init, OwnPending
<1>2. OwnPending /\ [Next]_vars => OwnPending'
  BY StepKeeps, NoWriteKeeps DEF vars
<1>3. OwnPending /\ [Next]_vars =>
          [\A l \in Links : l[1] # Owner => links'[l] = links[l]]_vars
  BY StepKeeps DEF OthersKept
<1> QED  BY <1>1, <1>2, <1>3, PTL DEF Spec, OtherParentsUntouched
-----------------------------------------------------------------------------
(***************************************************************************)
(* The shape of the state.  The rows of a link are a sequence of pivot     *)
(* columns, at most MaxCopies long.                                        *)
(***************************************************************************)
LEMMA CopiesAre ==
    \A s : s \in Copies <=> s \in Seq(Columns) /\ Len(s) <= MaxCopies
<1>1. ASSUME NEW s \in Copies
      PROVE  s \in Seq(Columns) /\ Len(s) <= MaxCopies
  <2>1. PICK n \in 0 .. MaxCopies : s \in [1 .. n -> Columns]
    BY DEF Copies
  <2>2. n \in Nat /\ n <= MaxCopies
    BY ConstantsAssumption
  <2>3. s \in Seq(Columns)
    BY <2>1, <2>2
  <2>4. DOMAIN s = 1 .. n /\ DOMAIN s = 1 .. Len(s) /\ Len(s) \in Nat
    BY <2>1, <2>3
  <2>5. Len(s) = n
    BY <2>2, <2>4
  <2> QED  BY <2>2, <2>3, <2>5
<1>2. ASSUME NEW s \in Seq(Columns), Len(s) <= MaxCopies
      PROVE  s \in Copies
  <2>1. Len(s) \in 0 .. MaxCopies /\ s \in [1 .. Len(s) -> Columns]
    BY <1>2, ConstantsAssumption
  <2> QED  BY <2>1 DEF Copies
<1> QED  BY <1>1, <1>2

LEMMA RowsAdded ==
    ASSUME NEW s \in Copies, NEW n \in Nat, NEW col \in Columns
    PROVE  /\ s \o NewRows(n, col) \in Seq(Columns)
           /\ n = 0 => s \o NewRows(n, col) = s
           /\ s = <<>> => s \o NewRows(n, col) = NewRows(n, col)
<1>1. s \in Seq(Columns)
  BY CopiesAre
<1>2. NewRows(n, col) \in Seq(Columns) /\ Len(NewRows(n, col)) = n
  <2>1. NewRows(n, col) \in [1 .. n -> Columns]
    BY DEF NewRows
  <2>2. NewRows(n, col) \in Seq(Columns)
    BY <2>1
  <2>3. DOMAIN NewRows(n, col) = 1 .. n
    BY DEF NewRows
  <2> QED  BY <2>2, <2>3
<1>3. n = 0 => NewRows(n, col) = <<>>
  BY <1>2
<1> QED  BY <1>1, <1>2, <1>3

LEMMA NoRowsAdded == \A s \in Copies : s \o NewRows(0, Plain) = s
BY RowsAdded DEF Columns

LEMMA ViewType ==
    ASSUME TypeOK, NEW c \in Clients
    PROVE  View(c) \in [Links -> Copies]
BY DEF TypeOK, View

LEMMA Empties == <<>> \in Copies /\ Nobody \in [Related -> Nat]
<1>1. <<>> \in Seq(Columns) /\ Len(<<>>) <= MaxCopies
  BY ConstantsAssumption
<1>2. <<>> \in Copies
  BY <1>1, CopiesAre
<1> QED  BY <1>2 DEF Nobody

Promises == [Links -> [from : Copies, to : Seq(Columns)] \cup {Lapsed}]

DBType ==
    /\ unique  \in BOOLEAN
    /\ links   \in [Links -> Copies]
    /\ pending \in [Clients -> [Links -> Copies \cup {Clean}]]
    /\ promise \in [Clients -> Promises]

CallType ==
    /\ pc       \in [Clients -> {"idle", "detach", "attach", "commit"}]
    /\ inTx     \in [Clients -> BOOLEAN]
    /\ toDetach \in [Clients -> SUBSET Related]
    /\ toAttach \in [Clients -> [Related -> Nat]]
    /\ outcome  \in [Clients -> {"none", "done", "failed", "rolledBack"}]
    /\ \A c \in Clients : pc[c] = "idle" => ~inTx[c]

LEMMA TwoTypes == /\ TypeOK => DBType /\ CallType
                  /\ DBType' /\ CallType' => TypeOK'
BY DEF TypeOK, DBType, CallType, Promises

LEMMA PublishType ==
    ASSUME DBType, NEW c \in Clients, NEW written \in SUBSET Links, NEW new,
           \A l \in written : new[l] \in Copies,
           Publish(c, written, new)
    PROVE  links' \in [Links -> Copies] /\ promise' \in [Clients -> Promises]
<1>1. links' = [l \in Links |-> IF l \in written THEN new[l] ELSE links[l]]
  BY DEF Publish
<1>2. promise' = [d \in Clients |->
                    IF d = c THEN promise[d]
                    ELSE [l \in Links |-> IF l \in written
                                          THEN [m \in Links |-> Lapsed][l]
                                          ELSE promise[d][l]]]
  BY DEF Publish
<1>3. ASSUME NEW d \in Clients
      PROVE  promise'[d] \in Promises
  <2>1. promise[d] \in [Links -> [from : Copies, to : Seq(Columns)] \cup {Lapsed}]
    BY DEF DBType, Promises
  <2>2. promise'[d] = IF d = c THEN promise[d]
                      ELSE [l \in Links |-> IF l \in written THEN Lapsed
                                            ELSE promise[d][l]]
    BY <1>2
  <2>3. [l \in Links |-> IF l \in written THEN Lapsed ELSE promise[d][l]]
          \in [Links -> [from : Copies, to : Seq(Columns)] \cup {Lapsed}]
    BY <2>1
  <2> QED  BY <2>1, <2>2, <2>3 DEF Promises
<1> QED  BY <1>1, <1>2, <1>3 DEF DBType

LEMMA WriteType ==
    ASSUME DBType, NEW c \in Clients, NEW written \in SUBSET Links, NEW new,
           \A l \in written : new[l] \in Copies,
           Write(c, written, new)
    PROVE  DBType'
<1>1. CASE inTx[c]
  <2> DEFINE mine == [l \in Links |-> IF l \in written THEN new[l]
                                      ELSE pending[c][l]]
  <2>1. pending[c] \in [Links -> Copies \cup {Clean}]
    BY DEF DBType
  <2>2. mine \in [Links -> Copies \cup {Clean}]
    BY <2>1
  <2>3. pending' = [pending EXCEPT ![c] = mine]
    BY <1>1 DEF Write
  <2> QED  BY <1>1, <2>2, <2>3 DEF Write, DBType
<1>2. CASE ~inTx[c]
  BY <1>2, PublishType DEF Write, DBType
<1> QED  BY <1>1, <1>2

LEMMA AttachType ==
    ASSUME TypeOK, NEW c \in Clients, NEW ids \in [Related -> Nat],
           NEW columns \in Columns, AttachIDs(c, ids, columns)
    PROVE  DBType'
<1> DEFINE new     == [l \in Links |->
                         View(c)[l] \o NewRows(ids[l[2]], columns)]
           written == {Owner} \X Named(ids)
<1>1. CASE ids = Nobody
  BY <1>1, TwoTypes DEF AttachIDs, NoWrite, DBType
<1>2. CASE ids # Nobody
  <2>1. written \in SUBSET Links
    BY ConstantsAssumption DEF Links, Named
  <2>2. ASSUME NEW l \in written
        PROVE  new[l] \in Copies
    <3>1. l \in Links /\ ids[l[2]] \in Nat /\ View(c)[l] \in Copies
      BY <2>1, ViewType DEF Named
    <3>2. new[l] \in Seq(Columns)
      BY <3>1, RowsAdded
    <3>3. Len(new[l]) <= 1 \/ Len(new[l]) <= MaxCopies
      BY <1>2 DEF AttachIDs
    <3> HIDE DEF new
    <3>4. Len(new[l]) \in Nat
      BY <3>2
    <3>5. Len(new[l]) <= MaxCopies
      BY <3>3, <3>4, ConstantsAssumption
    <3> QED  BY <3>2, <3>5, CopiesAre
  <2>3. Write(c, written, new)
    BY <1>2 DEF AttachIDs
  <2> HIDE DEF new, written
  <2> QED  BY <2>1, <2>2, <2>3, WriteType, TwoTypes
<1> QED  BY <1>1, <1>2

LEMMA DetachType ==
    ASSUME TypeOK, NEW c \in Clients, NEW ids \in SUBSET Related,
           DetachIDs(c, ids)
    PROVE  DBType'
<1> DEFINE new     == [l \in Links |-> <<>>]
           written == PivotScope \X (IF ids = {} THEN Related ELSE ids)
<1>1. written \in SUBSET Links
  BY ScopeIsOwner, ConstantsAssumption DEF Links
<1>2. \A l \in written : new[l] \in Copies
  BY <1>1, Empties
<1>3. Write(c, written, new)
  BY DEF DetachIDs
<1> HIDE DEF new, written
<1> QED  BY <1>1, <1>2, <1>3, WriteType, TwoTypes

LEMMA SingleType ==
    ASSUME TypeOK, NEW c \in Clients,
           \/ \E ids \in Lists : Attach(c, ids) \/ Detach(c, ids)
           \/ \E r \in Related, n \in Notes :
                 AttachWith(c, r, n) \/ UpdatePivot(c, r, n)
    PROVE  TypeOK'
<1>1. CallType'
  BY TwoTypes DEF Attach, Detach, AttachWith, UpdatePivot, Single, CallType
<1>2. Plain \in Columns /\ Notes \subseteq Columns
  BY DEF Columns
<1>3. ASSUME NEW ids \in Lists, Attach(c, ids) \/ Detach(c, ids)
      PROVE  TypeOK'
  <2>1. ids \in [Related -> Nat] /\ Named(ids) \in SUBSET Related
    BY ConstantsAssumption DEF Named
  <2> QED  BY <1>1, <1>2, <1>3, <2>1, AttachType, DetachType, TwoTypes
              DEF Attach, Detach
<1>4. ASSUME NEW r \in Related, NEW n \in Notes, AttachWith(c, r, n)
      PROVE  TypeOK'
  <2>1. Once(r) \in [Related -> Nat]
    BY Empties DEF Once
  <2> QED  BY <1>1, <1>2, <1>4, <2>1, AttachType, TwoTypes DEF AttachWith
<1>5. ASSUME NEW r \in Related, NEW n \in Notes, UpdatePivot(c, r, n)
      PROVE  TypeOK'
  <2> DEFINE new     == [l \in Links |-> [i \in DOMAIN View(c)[l] |-> n]]
             written == PivotScope \X {r}
  <2>1. written \in SUBSET Links
    BY ScopeIsOwner, ConstantsAssumption DEF Links
  <2>2. ASSUME NEW l \in Links
        PROVE  new[l] \in Copies
    <3>1. View(c)[l] \in Copies
      BY ViewType
    <3>2. PICK k \in 0 .. MaxCopies : View(c)[l] \in [1 .. k -> Columns]
      BY <3>1 DEF Copies
    <3>3. new[l] \in [1 .. k -> Columns]
      BY <1>2, <3>2
    <3> QED  BY <3>3 DEF Copies
  <2>3. Write(c, written, new)
    BY <1>5 DEF UpdatePivot
  <2> HIDE DEF new, written
  <2> QED  BY <1>1, <2>1, <2>2, <2>3, WriteType, TwoTypes
<1> QED  BY <1>3, <1>4, <1>5

LEMMA ReadType ==
    ASSUME TypeOK, NEW c \in Clients, NEW tx \in BOOLEAN,
           NEW detach \in SUBSET Related, NEW attach \in [Related -> Nat],
           NEW leaves, \A r \in Related : leaves[r] \in Seq(Columns),
           ReadFirst(c, tx, detach, attach, leaves)
    PROVE  TypeOK'
<1>1. CallType'
  BY TwoTypes DEF ReadFirst, CallType
<1> DEFINE read == [l \in Links |->
                      [from |-> links[l],
                       to   |-> IF l[1] = Owner THEN leaves[l[2]] ELSE links[l]]]
<1>2. read \in Promises
  <2>1. ASSUME NEW l \in Links
        PROVE  read[l] \in [from : Copies, to : Seq(Columns)]
    <3>1. links[l] \in Copies /\ links[l] \in Seq(Columns) /\ l[2] \in Related
      BY CopiesAre DEF TypeOK, Links
    <3> QED  BY <3>1
  <2> QED  BY <2>1 DEF Promises
<1>3. promise' = [promise EXCEPT ![c] = read]
  BY DEF ReadFirst
<1>4. promise' \in [Clients -> Promises]
  BY <1>2, <1>3, TwoTypes DEF DBType
<1>5. DBType'
  BY <1>4, TwoTypes DEF ReadFirst, DBType
<1> QED  BY <1>1, <1>5, TwoTypes

LEMMA DecideTypes ==
    ASSUME TypeOK, NEW ids \in Lists
    PROVE  /\ Missing(ids) \in [Related -> Nat]
           /\ Have \subseteq Related
           /\ \A r \in Related : Held(r) \in Copies
<1>1. ids \in [Related -> Nat]
  BY ConstantsAssumption
<1>2. \A r \in Related : <<Owner, r>> \in Links
  BY ConstantsAssumption DEF Links
<1> QED  BY <1>1, <1>2 DEF Missing, Have, Held, TypeOK

LEMMA LinkedType ==
    ASSUME TypeOK, NEW ids \in Lists, NEW r \in Related
    PROVE  Linked(ids, r) \in Seq(Columns) /\ <<>> \in Seq(Columns)
<1>1. ids[r] \in Nat /\ Held(r) \in Seq(Columns)
  BY DecideTypes, CopiesAre, ConstantsAssumption
<1>2. NewRows(ids[r], Plain) \in Seq(Columns)
  <2>1. <<>> \o NewRows(ids[r], Plain) \in Seq(Columns) /\
        <<>> \o NewRows(ids[r], Plain) = NewRows(ids[r], Plain)
    BY <1>1, Empties, RowsAdded DEF Columns
  <2> QED  BY <2>1
<1> QED  BY <1>1, <1>2 DEF Linked

LEMMA DecideType ==
    ASSUME TypeOK, NEW c \in Clients, NEW ids \in Lists, NEW tx \in BOOLEAN,
           \/ Sync(c, ids, tx) \/ SyncWithoutDetaching(c, ids, tx)
           \/ Toggle(c, ids, tx)
    PROVE  TypeOK'
<1>1. /\ Have \ Named(ids) \in SUBSET Related /\ {} \in SUBSET Related
      /\ Have \cap Named(ids) \in SUBSET Related
      /\ Missing(ids) \in [Related -> Nat]
  BY DecideTypes
<1>2. ASSUME NEW S \in SUBSET Related, NEW leaves,
             \A r \in Related : leaves[r] \in {<<>>, Linked(ids, r)},
             ReadFirst(c, tx, S, Missing(ids), leaves)
      PROVE  TypeOK'
  <2>1. \A r \in Related : leaves[r] \in Seq(Columns)
    BY <1>2, LinkedType
  <2> QED  BY <1>1, <1>2, <2>1, ReadType
<1>3. CASE Sync(c, ids, tx)
  BY <1>1, <1>2, <1>3 DEF Sync
<1>4. CASE SyncWithoutDetaching(c, ids, tx)
  BY <1>1, <1>2, <1>4 DEF SyncWithoutDetaching
<1>5. CASE Toggle(c, ids, tx)
  BY <1>1, <1>2, <1>5 DEF Toggle
<1> QED  BY <1>3, <1>4, <1>5

LEMMA EndType ==
    ASSUME TypeOK, NEW c \in Clients,
           NEW how \in {"done", "failed", "rolledBack"}, Ends(c, how),
           \/ UNCHANGED <<links, promise>>
           \/ Publish(c, {l \in Links : pending[c][l] # Clean}, View(c))
    PROVE  TypeOK'
<1>1. CallType'
  BY TwoTypes, Empties DEF Ends, CallType
<1>2. pending' \in [Clients -> [Links -> Copies \cup {Clean}]]
  BY DEF Ends, TypeOK
<1>3. links' \in [Links -> Copies] /\ promise' \in [Clients -> Promises]
  <2> DEFINE written == {l \in Links : pending[c][l] # Clean}
  <2>1. /\ DBType /\ written \in SUBSET Links
        /\ \A l \in written : View(c)[l] \in Copies
    BY TwoTypes, ViewType
  <2>2. UNCHANGED <<links, promise>> \/ Publish(c, written, View(c))
    OBVIOUS
  <2> HIDE DEF written
  <2>3. CASE UNCHANGED <<links, promise>>
    BY <2>1, <2>3 DEF DBType
  <2> QED  BY <2>1, <2>2, <2>3, PublishType
<1> QED  BY <1>1, <1>2, <1>3, TwoTypes DEF Ends, DBType

LEMMA TypeStep ==
    ASSUME TypeOK, [Next]_vars
    PROVE  TypeOK'
<1>1. ASSUME NEW c \in Clients, DetachStep(c)
      PROVE  TypeOK'
  <2>1. CallType'
    BY <1>1, TwoTypes DEF DetachStep, CallType
  <2>2. CASE toDetach[c] = {}
    BY <1>1, <2>1, <2>2, TwoTypes DEF DetachStep, NoWrite, DBType
  <2>3. CASE toDetach[c] # {}
    <3>1. DetachIDs(c, toDetach[c]) /\ toDetach[c] \in SUBSET Related
      BY <1>1, <2>3 DEF DetachStep, TypeOK
    <3> QED  BY <2>1, <3>1, DetachType, TwoTypes
  <2> QED  BY <2>2, <2>3
<1>2. ASSUME NEW c \in Clients, AttachStep(c)
      PROVE  TypeOK'
  <2>1. CallType'
    BY <1>2, TwoTypes, Empties DEF AttachStep, CallType
  <2>2. AttachIDs(c, toAttach[c], Plain) /\ toAttach[c] \in [Related -> Nat]
    BY <1>2 DEF AttachStep, TypeOK
  <2> QED  BY <2>1, <2>2, AttachType, TwoTypes DEF Columns
<1>3. ASSUME NEW c \in Clients, Commit(c) \/ Fails(c)
      PROVE  TypeOK'
  BY <1>3, EndType DEF Commit, Fails
<1>4. ASSUME NEW c \in Clients, Proceed(c)
      PROVE  TypeOK'
  <2>1. [l \in Links |-> Lapsed] \in Promises
    BY DEF Promises
  <2> QED  BY <1>4, <2>1, TwoTypes DEF Proceed, DBType, CallType
<1>5. CASE UNCHANGED vars
  BY <1>5 DEF vars, TypeOK
<1> QED  BY <1>1, <1>2, <1>3, <1>4, <1>5, SingleType, DecideType DEF Next

LEMMA TypeInit == Init => TypeOK
<1>1. <<Plain>> \in Copies
  <2>1. <<Plain>> \in Seq(Columns) /\ Len(<<Plain>>) <= MaxCopies
    BY ConstantsAssumption DEF Columns
  <2> QED  BY <2>1, CopiesAre
<1> QED  BY <1>1, Empties DEF Init, TypeOK

\* For any clients, parents, ids and lists the tables, the calls under way and
\* what they decided keep their shape, and only a call in progress is in DB.Tx.
THEOREM TypeCorrect == Spec => []TypeOK
BY TypeInit, TypeStep, PTL DEF Spec
-----------------------------------------------------------------------------
(***************************************************************************)
(* What a call in progress has done and has left to do.  After(c, l, rows) *)
(* is what the rest of the call makes of a link with these rows; it is     *)
(* what the call promised, of every link no other client wrote since.      *)
(***************************************************************************)
After(c, l, rows) ==
    IF l[1] = Owner
    THEN (IF l[2] \in toDetach[c] THEN <<>> ELSE rows)
             \o NewRows(toAttach[c][l[2]], Plain)
    ELSE rows

Half(c, l) ==
    \/ links[l] = promise[c][l].from
    \/ links[l] = <<>> /\ promise[c][l].to = <<>>

OnCourse(c) ==
    /\ ~inTx[c] \/ pc[c] = "detach" => \A l \in Links : pending[c][l] = Clean
    /\ pc[c] # "idle" => outcome[c] = "none"
    /\ pc[c] \in {"attach", "commit"} => toDetach[c] = {}
    /\ pc[c] = "commit" => inTx[c] /\ toAttach[c] = Nobody
    /\ \A r \in toDetach[c] : toAttach[c][r] = 0

LinkOnCourse(c, l) ==
    /\ pc[c] # "idle" =>
         /\ promise[c][l].to = After(c, l, View(c)[l])
         /\ inTx[c] \/ pc[c] = "detach" => links[l] = promise[c][l].from
         /\ Half(c, l)
    /\ outcome[c] = "done" => links[l] = promise[c][l].to
    /\ outcome[c] = "rolledBack" => links[l] = promise[c][l].from
    /\ outcome[c] = "failed" => Half(c, l)

CallsOnCourse ==
    \A c \in Clients : /\ OnCourse(c)
                       /\ \A l \in Promised(c) : LinkOnCourse(c, l)

\* What one client's step leaves of another: its call as it was, and each of its
\* promises either lapsed or kept, with the link.
LEMMA BystanderKept ==
    ASSUME TypeOK, CallsOnCourse, NEW c \in Clients, NEW d \in Clients,
           UNCHANGED <<pc[d], inTx[d], toDetach[d], toAttach[d], outcome[d],
                       pending[d]>>,
           \A l \in Links : promise'[d][l] # Lapsed =>
                               /\ promise'[d][l] = promise[d][l]
                               /\ links'[l] = links[l]
    PROVE  /\ OnCourse(d)'
           /\ \A l \in Promised(d)' : LinkOnCourse(d, l)'
<1>1. OnCourse(d)'
  BY DEF CallsOnCourse, OnCourse
<1>2. ASSUME NEW l \in Promised(d)'
      PROVE  LinkOnCourse(d, l)'
  <2>1. l \in Links /\ promise'[d][l] = promise[d][l] /\ links'[l] = links[l]
    BY DEF Promised
  <2>2. l \in Promised(d)
    BY <2>1 DEF Promised
  <2>3. LinkOnCourse(d, l)
    BY <2>2 DEF CallsOnCourse
  <2>4. View(d)'[l] = View(d)[l]
    BY <2>1 DEF View
  <2>5. \A rows : After(d, l, rows)' = After(d, l, rows)
    BY DEF After
  <2> QED  BY <2>1, <2>3, <2>4, <2>5 DEF LinkOnCourse, Half
<1> QED  BY <1>1, <1>2

\* A write of one client, in a transaction or not, as any other client sees it.
LEMMA WriteSeenByOthers ==
    ASSUME TypeOK, NEW c \in Clients, NEW written, NEW new,
           NEW d \in Clients \ {c},
           \/ Write(c, written, new)
           \/ Publish(c, written, new)
              /\ pending' = [pending EXCEPT ![c] = [l \in Links |-> Clean]]
    PROVE  /\ pending'[d] = pending[d]
           /\ \A l \in Links : promise'[d][l] # Lapsed =>
                                  /\ promise'[d][l] = promise[d][l]
                                  /\ links'[l] = links[l]
<1>1. pending'[d] = pending[d]
  BY DEF Write, TypeOK
<1>2. CASE Publish(c, written, new)
  <2>1. links' = [l \in Links |-> IF l \in written THEN new[l] ELSE links[l]]
    BY <1>2 DEF Publish
  <2>2. promise'[d] = [l \in Links |-> IF l \in written
                                       THEN [m \in Links |-> Lapsed][l]
                                       ELSE promise[d][l]]
    BY <1>2 DEF Publish
  <2>3. ASSUME NEW l \in Links, promise'[d][l] # Lapsed
        PROVE  promise'[d][l] = promise[d][l] /\ links'[l] = links[l]
    <3>1. l \notin written
      BY <2>2, <2>3
    <3> QED  BY <2>1, <2>2, <3>1
  <2> QED  BY <1>1, <2>3
<1>3. CASE UNCHANGED <<links, promise>>
  BY <1>1, <1>3
<1> QED  BY <1>2, <1>3 DEF Write

\* ... and as the client itself sees it.
LEMMA WriteSeen ==
    ASSUME TypeOK, NEW c \in Clients, OnCourse(c), NEW written, NEW new,
           \A l \in written : new[l] \in Copies,
           Write(c, written, new)
    PROVE  /\ \A l \in Links :
                 View(c)'[l] = IF l \in written THEN new[l] ELSE View(c)[l]
           /\ promise'[c] = promise[c]
           /\ inTx[c] => links' = links
           /\ ~inTx[c] => /\ \A l \in Links : pending'[c][l] = Clean
                          /\ \A l \in Links : links'[l] = View(c)'[l]
<1>1. CASE inTx[c]
  <2> DEFINE mine == [l \in Links |-> IF l \in written THEN new[l]
                                      ELSE pending[c][l]]
  <2>1. pending'[c] = mine /\ UNCHANGED <<links, promise>>
    BY <1>1 DEF Write, TypeOK
  <2>2. \A l \in written : new[l] # Clean
    BY ConstantsAssumption
  <2> QED  BY <1>1, <2>1, <2>2 DEF View
<1>2. CASE ~inTx[c]
  <2>1. /\ links' = [l \in Links |-> IF l \in written THEN new[l] ELSE links[l]]
        /\ promise'[c] = promise[c] /\ pending' = pending
    BY <1>2 DEF Write, Publish
  <2>2. \A l \in Links : pending[c][l] = Clean
    BY <1>2 DEF OnCourse
  <2> QED  BY <1>2, <2>1, <2>2 DEF View
<1> QED  BY <1>1, <1>2

\* The prefix of a link's rows is all that After needs to be known of.
LEMMA NothingLeft ==
    ASSUME TypeOK, NEW c \in Clients, NEW l \in Links, toDetach[c] = {},
           toAttach[c] = Nobody, NEW s \in Copies
    PROVE  After(c, l, s) = s
<1>1. l[2] \in Related /\ toAttach[c][l[2]] = 0 /\ Plain \in Columns
  BY DEF Links, Nobody, Columns
<1> QED  BY <1>1, RowsAdded DEF After

\* A call that reads first promises what its two lists make of the rows it read.
Decides(detach, attach, leaves) ==
    \A r \in Related :
        /\ r \in detach => attach[r] = 0
        /\ leaves[r] = (IF r \in detach THEN <<>> ELSE Held(r))
                          \o NewRows(attach[r], Plain)

LEMMA ReadOnCourse ==
    ASSUME TypeOK, CallsOnCourse, NEW c \in Clients, NEW tx \in BOOLEAN,
           NEW detach \in SUBSET Related, NEW attach \in [Related -> Nat],
           NEW leaves, ReadFirst(c, tx, detach, attach, leaves),
           Decides(detach, attach, leaves)
    PROVE  /\ OnCourse(c)'
           /\ \A l \in Promised(c)' : LinkOnCourse(c, l)'
<1>1. /\ pc'[c] = "detach" /\ inTx'[c] = tx /\ toDetach'[c] = detach
      /\ toAttach'[c] = attach /\ outcome'[c] = "none" /\ links' = links
      /\ pending' = pending
  BY DEF ReadFirst, TypeOK
<1>2. \A l \in Links : pending[c][l] = Clean
  BY DEF ReadFirst, TypeOK, CallsOnCourse, OnCourse
<1>3. OnCourse(c)'
  BY <1>1, <1>2 DEF OnCourse, Decides
<1>4. ASSUME NEW l \in Links
      PROVE  LinkOnCourse(c, l)'
  <2>1. promise'[c][l] = [from |-> links[l],
                          to   |-> IF l[1] = Owner THEN leaves[l[2]]
                                                   ELSE links[l]]
    BY DEF ReadFirst, TypeOK
  <2>2. View(c)'[l] = links[l]
    BY <1>1, <1>2 DEF View
  <2>3. l = <<l[1], l[2]>> /\ l[2] \in Related
    BY DEF Links
  <2>4. promise'[c][l].to = After(c, l, links[l])'
    <3>1. CASE l[1] = Owner
      <4>1. leaves[l[2]] = (IF l[2] \in detach THEN <<>> ELSE links[l])
                               \o NewRows(attach[l[2]], Plain)
        BY <2>3, <3>1 DEF Held, Decides
      <4>2. promise'[c][l].to = leaves[l[2]]
        BY <2>1, <3>1
      <4>3. After(c, l, links[l])' = (IF l[2] \in detach THEN <<>> ELSE links[l])
                                         \o NewRows(attach[l[2]], Plain)
        BY <1>1, <3>1 DEF After
      <4> QED  BY <4>1, <4>2, <4>3
    <3>2. CASE l[1] # Owner
      BY <1>1, <2>1, <3>2 DEF After
    <3> QED  BY <3>1, <3>2
  <2> QED  BY <1>1, <2>1, <2>2, <2>4 DEF LinkOnCourse, Half
<1> QED  BY <1>3, <1>4 DEF Promised

LEMMA DecidedOnCourse ==
    ASSUME TypeOK, CallsOnCourse, NEW c \in Clients, NEW ids \in Lists,
           NEW tx \in BOOLEAN,
           \/ Sync(c, ids, tx) \/ SyncWithoutDetaching(c, ids, tx)
           \/ Toggle(c, ids, tx)
    PROVE  /\ OnCourse(c)'
           /\ \A l \in Promised(c)' : LinkOnCourse(c, l)'
<1>1. ids \in [Related -> Nat] /\ Plain \in Columns /\ <<>> \in Copies
  BY Empties, ConstantsAssumption DEF Columns
<1>2. ASSUME NEW r \in Related
      PROVE  /\ Held(r) \in Copies
             /\ r \in Have <=> Held(r) # <<>>
             /\ r \in Named(ids) <=> ids[r] # 0
             /\ Missing(ids)[r] = IF Held(r) = <<>> THEN ids[r] ELSE 0
             /\ Missing(ids)[r] \in Nat
             /\ Linked(ids, r) = Held(r) \o NewRows(Missing(ids)[r], Plain)
             /\ ids[r] = 0 => Linked(ids, r) = Held(r)
  <2>1. Held(r) \in Copies /\ Missing(ids)[r] \in Nat
    BY DecideTypes
  <2>2. /\ r \in Have <=> Held(r) # <<>>
        /\ r \in Named(ids) <=> ids[r] # 0
        /\ Missing(ids)[r] = IF Held(r) = <<>> THEN ids[r] ELSE 0
    BY DEF Have, Named, Missing
  <2>3. Linked(ids, r) = Held(r) \o NewRows(Missing(ids)[r], Plain)
    <3>1. CASE Held(r) = <<>>
      BY <1>1, <2>1, <2>2, <3>1, RowsAdded DEF Linked
    <3>2. CASE Held(r) # <<>>
      <4>1. Held(r) \o NewRows(0, Plain) = Held(r)
        BY <2>1, NoRowsAdded
      <4> QED  BY <2>2, <3>2, <4>1 DEF Linked
    <3> QED  BY <3>1, <3>2
  <2>4. ids[r] = 0 => Linked(ids, r) = Held(r)
    BY <1>1, <2>1, <2>2, <2>3, RowsAdded
  <2> QED  BY <2>1, <2>2, <2>3, <2>4
<1>3. <<>> \o NewRows(0, Plain) = <<>>
  BY <1>1, RowsAdded
<1>4. /\ Have \ Named(ids) \in SUBSET Related /\ {} \in SUBSET Related
      /\ Have \cap Named(ids) \in SUBSET Related
      /\ Missing(ids) \in [Related -> Nat]
  BY DecideTypes
<1>5. CASE Sync(c, ids, tx)
  <2> DEFINE leaves == [r \in Related |-> IF r \in Named(ids)
                                          THEN Linked(ids, r) ELSE <<>>]
             gone == Have \ Named(ids)
  <2>1. ReadFirst(c, tx, gone, Missing(ids), leaves)
    BY <1>5 DEF Sync
  <2>2. ASSUME NEW r \in Related
        PROVE  /\ r \in gone => Missing(ids)[r] = 0
               /\ leaves[r] = (IF r \in gone THEN <<>> ELSE Held(r))
                                 \o NewRows(Missing(ids)[r], Plain)
    BY <1>2, <1>3
  <2>3. gone \in SUBSET Related
    BY <1>4
  <2>4. Decides(gone, Missing(ids), leaves)
    BY <2>2 DEF Decides
  <2> HIDE DEF leaves, gone
  <2> QED  BY <1>4, <2>1, <2>3, <2>4, ReadOnCourse
<1>6. CASE SyncWithoutDetaching(c, ids, tx)
  <2> DEFINE leaves == [r \in Related |-> Linked(ids, r)]
  <2>1. ReadFirst(c, tx, {}, Missing(ids), leaves)
    BY <1>6 DEF SyncWithoutDetaching
  <2>2. Decides({}, Missing(ids), leaves)
    BY <1>2 DEF Decides
  <2> HIDE DEF leaves
  <2> QED  BY <1>4, <2>1, <2>2, ReadOnCourse
<1>7. CASE Toggle(c, ids, tx)
  <2> DEFINE leaves == [r \in Related |->
                          IF r \in Named(ids) /\ Held(r) # <<>>
                          THEN <<>> ELSE Linked(ids, r)]
             gone == Have \cap Named(ids)
  <2>1. ReadFirst(c, tx, gone, Missing(ids), leaves)
    BY <1>7 DEF Toggle
  <2>2. ASSUME NEW r \in Related
        PROVE  /\ r \in gone => Missing(ids)[r] = 0
               /\ leaves[r] = (IF r \in gone THEN <<>> ELSE Held(r))
                                 \o NewRows(Missing(ids)[r], Plain)
    BY <1>2, <1>3
  <2>3. gone \in SUBSET Related
    BY <1>4
  <2>4. Decides(gone, Missing(ids), leaves)
    BY <2>2 DEF Decides
  <2> HIDE DEF leaves, gone
  <2> QED  BY <1>4, <2>1, <2>3, <2>4, ReadOnCourse
<1> QED  BY <1>5, <1>6, <1>7

LEMMA DetachOnCourse ==
    ASSUME TypeOK, CallsOnCourse, NEW c \in Clients, DetachStep(c)
    PROVE  /\ OnCourse(c)'
           /\ \A l \in Promised(c)' : LinkOnCourse(c, l)'
<1> DEFINE written == {Owner} \X toDetach[c]
<1>1. /\ pc[c] = "detach" /\ pc'[c] = "attach" /\ toDetach'[c] = {}
      /\ inTx'[c] = inTx[c] /\ toAttach'[c] = toAttach[c]
      /\ outcome'[c] = outcome[c]
  BY DEF DetachStep, TypeOK
<1>2. OnCourse(c) /\ <<>> \in Copies /\ Plain \in Columns
  BY Empties DEF CallsOnCourse, Columns
<1>3. /\ \A l \in Links :
            View(c)'[l] = IF l \in written THEN <<>> ELSE View(c)[l]
      /\ promise'[c] = promise[c]
      /\ inTx[c] => links' = links
      /\ ~inTx[c] => /\ \A l \in Links : pending'[c][l] = Clean
                     /\ \A l \in Links : links'[l] = View(c)'[l]
  <2>1. CASE toDetach[c] = {}
    <3>1. UNCHANGED <<links, pending, promise>> /\ written = {}
      BY <2>1 DEF DetachStep, NoWrite
    <3>2. \A l \in Links : pending[c][l] = Clean
      BY <1>1, <1>2 DEF OnCourse
    <3> QED  BY <3>1, <3>2 DEF View
  <2>2. CASE toDetach[c] # {}
    <3> DEFINE new == [l \in Links |-> <<>>]
    <3>1. Write(c, written, new)
      BY <2>2, ScopeIsOwner DEF DetachStep, DetachIDs
    <3>2. \A l \in written : new[l] = <<>>
      BY ConstantsAssumption DEF TypeOK, Links
    <3> HIDE DEF new, written
    <3> QED  BY <1>2, <3>1, <3>2, WriteSeen
  <2> QED  BY <2>1, <2>2
<1>4. OnCourse(c)'
  BY <1>1, <1>2, <1>3 DEF OnCourse
<1>5. ASSUME NEW l \in Promised(c)'
      PROVE  LinkOnCourse(c, l)'
  <2>1. l \in Links /\ l \in Promised(c)
    BY <1>3 DEF Promised
  <2>2. LinkOnCourse(c, l)
    BY <2>1 DEF CallsOnCourse
  <2>3. View(c)[l] = links[l] /\ View(c)[l] \in Copies
    BY <1>1, <1>2, <2>1, ViewType DEF View, OnCourse
  <2>4. l \in written <=> l[1] = Owner /\ l[2] \in toDetach[c]
    BY <2>1 DEF Links
  <2>5. promise[c][l].to = After(c, l, View(c)[l])
    BY <1>1, <2>2 DEF LinkOnCourse
  <2>6. After(c, l, View(c)[l]) = After(c, l, View(c)[l])'
    BY <1>1, <1>3, <2>1, <2>4 DEF After
  <2>7. l \in written => promise[c][l].to = <<>>
    <3> SUFFICES ASSUME l \in written PROVE promise[c][l].to = <<>>
      OBVIOUS
    <3>1. toAttach[c][l[2]] = 0
      BY <1>2, <2>4 DEF OnCourse
    <3> QED  BY <1>2, <2>4, <2>5, <3>1, RowsAdded DEF After
  <2>8. links[l] = promise[c][l].from
    BY <1>1, <2>2 DEF LinkOnCourse
  <2>9. Half(c, l)'
    <3>1. links'[l] = links[l] \/ (l \in written /\ links'[l] = <<>>)
      BY <1>3, <2>1, <2>3
    <3> QED  BY <1>3, <2>7, <2>8, <3>1 DEF Half
  <2>10. outcome'[c] = "none" /\ (inTx[c] => links'[l] = promise'[c][l].from)
    BY <1>1, <1>2, <1>3, <2>8 DEF OnCourse
  <2> QED  BY <1>1, <1>3, <2>5, <2>6, <2>9, <2>10 DEF LinkOnCourse
<1> QED  BY <1>4, <1>5

LEMMA AttachOnCourse ==
    ASSUME TypeOK, TypeOK', CallsOnCourse, NEW c \in Clients, AttachStep(c)
    PROVE  /\ OnCourse(c)'
           /\ \A l \in Promised(c)' : LinkOnCourse(c, l)'
<1> DEFINE written == {Owner} \X Named(toAttach[c])
           new     == [l \in Links |->
                         View(c)[l] \o NewRows(toAttach[c][l[2]], Plain)]
<1>1. /\ pc[c] = "attach"
      /\ pc'[c] = IF inTx[c] THEN "commit" ELSE "idle"
      /\ inTx'[c] = inTx[c] /\ toDetach'[c] = toDetach[c]
      /\ toAttach'[c] = Nobody
      /\ outcome'[c] = IF inTx[c] THEN outcome[c] ELSE "done"
  BY DEF AttachStep, TypeOK
<1>2. /\ OnCourse(c) /\ toDetach[c] = {} /\ Plain \in Columns
      /\ toAttach[c] \in [Related -> Nat]
      /\ inTx[c] \in BOOLEAN
  BY <1>1 DEF CallsOnCourse, OnCourse, Columns, TypeOK
<1>3. ASSUME NEW l \in Links
      PROVE  /\ View(c)[l] \in Copies /\ toAttach[c][l[2]] \in Nat
             /\ l \in written <=> l[1] = Owner /\ toAttach[c][l[2]] # 0
             /\ toAttach[c][l[2]] = 0 => new[l] = View(c)[l]
  <2>1. View(c)[l] \in Copies /\ l[2] \in Related
    BY ViewType DEF Links
  <2>2. toAttach[c][l[2]] \in Nat
    BY <1>2, <2>1
  <2>3. l \in written <=> l[1] = Owner /\ toAttach[c][l[2]] # 0
    BY <2>1 DEF Links, Named
  <2>4. View(c)[l] \o NewRows(0, Plain) = View(c)[l]
    BY <2>1, NoRowsAdded
  <2>5. new[l] = View(c)[l] \o NewRows(toAttach[c][l[2]], Plain)
    OBVIOUS
  <2> HIDE DEF new, written
  <2> QED  BY <2>1, <2>2, <2>3, <2>4, <2>5
<1>4. /\ \A l \in Links :
            View(c)'[l] = IF l \in written THEN new[l] ELSE View(c)[l]
      /\ promise'[c] = promise[c]
      /\ inTx[c] => links' = links
      /\ ~inTx[c] => /\ \A l \in Links : pending'[c][l] = Clean
                     /\ \A l \in Links : links'[l] = View(c)'[l]
  <2>1. CASE toAttach[c] = Nobody
    <3>1. UNCHANGED <<links, pending, promise>>
      BY <2>1 DEF AttachStep, AttachIDs, NoWrite
    <3>2. \A l \in Links : l \notin written
      BY <2>1 DEF Named, Nobody
    <3>3. ~inTx[c] => \A l \in Links : pending[c][l] = Clean
      BY <1>2 DEF OnCourse
    <3> QED  BY <3>1, <3>2, <3>3 DEF View
  <2>2. CASE toAttach[c] # Nobody
    <3>1. Write(c, written, new)
      BY <2>2 DEF AttachStep, AttachIDs
    <3>2. \A l \in written : new[l] \in Copies
      <4> SUFFICES ASSUME NEW l \in written PROVE new[l] \in Copies
        OBVIOUS
      <4>1. l \in Links
        BY ConstantsAssumption DEF Links, Named
      <4>2. new[l] \in Seq(Columns)
        BY <1>2, <1>3, <4>1, RowsAdded
      <4>3. Len(new[l]) <= 1 \/ Len(new[l]) <= MaxCopies
        BY <2>2 DEF AttachStep, AttachIDs
      <4> HIDE DEF new, written
      <4>4. Len(new[l]) \in Nat
        BY <4>2
      <4>5. Len(new[l]) <= MaxCopies
        BY <4>3, <4>4, ConstantsAssumption
      <4> QED  BY <4>2, <4>5, CopiesAre
    <3> HIDE DEF new, written
    <3> QED  BY <1>2, <3>1, <3>2, WriteSeen
  <2> QED  BY <2>1, <2>2
<1>5. OnCourse(c)'
  BY <1>1, <1>2, <1>4 DEF OnCourse
<1>6. ASSUME NEW l \in Promised(c)'
      PROVE  LinkOnCourse(c, l)'
  <2>1. l \in Links /\ l \in Promised(c)
    BY <1>4 DEF Promised
  <2>2. LinkOnCourse(c, l)
    BY <2>1 DEF CallsOnCourse
  <2>3. promise[c][l].to = After(c, l, View(c)[l])
    BY <1>1, <2>2 DEF LinkOnCourse
  <2>4. After(c, l, View(c)[l]) = IF l \in written THEN new[l] ELSE View(c)[l]
    BY <1>2, <1>3, <2>1 DEF After
  <2>5. promise'[c][l].to = View(c)'[l]
    BY <1>4, <2>1, <2>3, <2>4
  <2>6. After(c, l, View(c)[l])' = View(c)'[l]
    <3>1. View(c)'[l] \in Copies
      <4>1. links'[l] \in Copies /\ pending'[c][l] \in Copies \cup {Clean}
        BY <2>1 DEF TypeOK
      <4> QED  BY <2>1, <4>1 DEF View
    <3>2. l[2] \in Related /\ toAttach'[c][l[2]] = 0 /\ toDetach'[c] = {}
      BY <1>1, <1>2, <2>1 DEF Links, Nobody
    <3>3. View(c)'[l] \o NewRows(0, Plain) = View(c)'[l]
      BY <3>1, NoRowsAdded
    <3> QED  BY <3>2, <3>3 DEF After
  <2>7. CASE inTx[c]
    <3>1. links'[l] = promise'[c][l].from /\ outcome'[c] = "none"
      BY <1>1, <1>2, <1>4, <2>2, <2>7 DEF LinkOnCourse, OnCourse
    <3> QED  BY <2>5, <2>6, <3>1 DEF LinkOnCourse, Half
  <2>8. CASE ~inTx[c]
    BY <1>1, <1>4, <2>1, <2>5, <2>8 DEF LinkOnCourse
  <2> QED  BY <2>7, <2>8
<1> QED  BY <1>5, <1>6

\* A call that ends outside of its statements: the commit publishes all that the
\* client sees, a failure leaves what is stored.
LEMMA EndOnCourse ==
    ASSUME TypeOK, CallsOnCourse, NEW c \in Clients, Commit(c) \/ Fails(c)
    PROVE  /\ OnCourse(c)'
           /\ \A l \in Promised(c)' : LinkOnCourse(c, l)'
<1>1. PICK how \in {"done", "failed", "rolledBack"} :
        /\ Ends(c, how)
        /\ how = "done" => Commit(c)
        /\ how = "failed" => Fails(c) /\ ~inTx[c]
        /\ how = "rolledBack" => Fails(c) /\ inTx[c]
  BY DEF Commit, Fails, TypeOK
<1>2. /\ pc'[c] = "idle" /\ inTx'[c] = FALSE /\ toDetach'[c] = {}
      /\ toAttach'[c] = Nobody /\ outcome'[c] = how
      /\ \A l \in Links : pending'[c][l] = Clean
  BY <1>1 DEF Ends, TypeOK
<1>3. promise'[c] = promise[c]
  BY DEF Commit, Fails, Publish
<1>4. OnCourse(c)'
  BY <1>2 DEF OnCourse
<1>5. ASSUME NEW l \in Promised(c)'
      PROVE  LinkOnCourse(c, l)'
  <2>1. l \in Links /\ l \in Promised(c)
    BY <1>3 DEF Promised
  <2>2. OnCourse(c) /\ LinkOnCourse(c, l)
    BY <2>1 DEF CallsOnCourse
  <2>3. CASE how = "done"
    <3>1. pc[c] = "commit" /\ toDetach[c] = {} /\ toAttach[c] = Nobody
      BY <1>1, <2>2, <2>3 DEF Commit, OnCourse
    <3>2. links'[l] = View(c)[l]
      <4>1. links' = [m \in Links |->
                        IF m \in {k \in Links : pending[c][k] # Clean}
                        THEN View(c)[m] ELSE links[m]]
        BY <1>1, <2>3 DEF Commit, Publish
      <4>2. pending[c][l] = Clean => View(c)[l] = links[l]
        BY <2>1 DEF View
      <4> QED  BY <2>1, <4>1, <4>2
    <3>3. View(c)[l] \in Copies
      BY <2>1, ViewType
    <3>4. promise[c][l].to = After(c, l, View(c)[l])
      BY <2>2, <3>1 DEF LinkOnCourse
    <3>5. links'[l] = promise[c][l].to
      BY <2>1, <3>1, <3>2, <3>3, <3>4, NothingLeft
    <3> QED  BY <1>2, <1>3, <2>3, <3>5 DEF LinkOnCourse
  <2>4. CASE how # "done"
    <3>1. Fails(c) /\ links' = links /\ pc[c] # "idle"
      BY <1>1, <2>4 DEF Fails
    <3>2. Half(c, l)'
      BY <1>3, <2>2, <3>1 DEF LinkOnCourse, Half
    <3>3. how = "rolledBack" => links'[l] = promise'[c][l].from
      BY <1>1, <1>3, <2>2, <3>1 DEF LinkOnCourse
    <3> QED  BY <1>2, <2>4, <3>2, <3>3 DEF LinkOnCourse
  <2> QED  BY <2>3, <2>4
<1> QED  BY <1>4, <1>5

\* A call of one statement makes no promise, and no other of the client is under
\* way.
LEMMA SingleOnCourse ==
    ASSUME TypeOK, CallsOnCourse, NEW c \in Clients, Single(c),
           pending'[c] = pending[c]
    PROVE  /\ OnCourse(c)'
           /\ \A l \in Promised(c)' : LinkOnCourse(c, l)'
<1>1. /\ pc'[c] = "idle" /\ outcome'[c] = "none"
      /\ UNCHANGED <<inTx[c], toDetach[c], toAttach[c]>>
      /\ pc[c] = "idle" /\ OnCourse(c)
  BY DEF Single, CallsOnCourse
<1>2. OnCourse(c)'
  BY <1>1 DEF OnCourse
<1>3. \A l : LinkOnCourse(c, l)'
  BY <1>1 DEF LinkOnCourse
<1> QED  BY <1>2, <1>3

LEMMA SingleKeepsPending ==
    ASSUME TypeOK, NEW c \in Clients, Single(c),
           NEW written, NEW new, Write(c, written, new)
    PROVE  pending' = pending
BY DEF Single, Write, TypeOK

\* What a step does to the tables: nothing, or one write.
Wrote(c) ==
    \/ UNCHANGED <<links, pending, promise>>
    \/ \E written, new : Write(c, written, new)

\* Each step but Next's quantifiers: the others' calls stay, and so do those of
\* their promises that do not lapse.
LEMMA OthersOnCourse ==
    ASSUME TypeOK, CallsOnCourse, NEW c \in Clients, NEW d \in Clients \ {c},
           UNCHANGED <<pc[d], inTx[d], toDetach[d], toAttach[d], outcome[d]>>,
           \/ Wrote(c)
           \/ \E written, new :
                 Publish(c, written, new)
                 /\ pending' = [pending EXCEPT ![c] = [l \in Links |-> Clean]]
           \/ links' = links /\ UNCHANGED <<pending[d], promise[d]>>
    PROVE  /\ OnCourse(d)'
           /\ \A l \in Promised(d)' : LinkOnCourse(d, l)'
<1>1. /\ pending'[d] = pending[d]
      /\ \A l \in Links : promise'[d][l] # Lapsed =>
                               /\ promise'[d][l] = promise[d][l]
                               /\ links'[l] = links[l]
  <2>1. CASE links' = links /\ UNCHANGED <<pending[d], promise[d]>>
    BY <2>1
  <2>2. CASE UNCHANGED <<links, pending, promise>>
    BY <2>2
  <2>3. ASSUME NEW written, NEW new,
               \/ Write(c, written, new)
               \/ Publish(c, written, new)
                  /\ pending' = [pending EXCEPT ![c] = [l \in Links |-> Clean]]
        PROVE  /\ pending'[d] = pending[d]
               /\ \A l \in Links : promise'[d][l] # Lapsed =>
                                        /\ promise'[d][l] = promise[d][l]
                                        /\ links'[l] = links[l]
    BY <2>3, WriteSeenByOthers
  <2> QED  BY <2>1, <2>2, <2>3 DEF Wrote
<1> QED  BY <1>1, BystanderKept

LEMMA AttachWrote == ASSUME NEW c, NEW ids, NEW columns,
                            AttachIDs(c, ids, columns)
                     PROVE  Wrote(c)
BY DEF AttachIDs, NoWrite, Wrote

LEMMA DetachWrote == ASSUME NEW c, NEW ids, DetachIDs(c, ids)
                     PROVE  Wrote(c)
BY DEF DetachIDs, Wrote

LEMMA CoursesKept ==
    ASSUME TypeOK, TypeOK', CallsOnCourse, [Next]_vars
    PROVE  CallsOnCourse'
<1> DEFINE Fine(c) == /\ OnCourse(c)'
                      /\ \A l \in Promised(c)' : LinkOnCourse(c, l)'
<1>1. CASE UNCHANGED vars
  BY <1>1 DEF vars, CallsOnCourse, OnCourse, Promised, LinkOnCourse, Half, View,
              After
<1>2. ASSUME NEW c \in Clients, NEW d \in Clients, Single(c), Wrote(c)
      PROVE  Fine(d)
  <2>1. CASE d = c
    BY <1>2, <2>1, SingleOnCourse, SingleKeepsPending DEF Wrote
  <2>2. CASE d # c
    BY <1>2, <2>2, OthersOnCourse DEF Single
  <2> QED  BY <2>1, <2>2
<1>3. ASSUME NEW c \in Clients, NEW d \in Clients,
             \/ \E ids \in Lists : Attach(c, ids) \/ Detach(c, ids)
             \/ \E r \in Related, n \in Notes :
                   AttachWith(c, r, n) \/ UpdatePivot(c, r, n)
      PROVE  Fine(d)
  <2>1. Single(c) /\ Wrote(c)
    BY <1>3, AttachWrote, DetachWrote
       DEF Attach, Detach, AttachWith, UpdatePivot, Wrote
  <2> QED  BY <1>2, <2>1
<1>4. ASSUME NEW c \in Clients, NEW d \in Clients, NEW ids \in Lists,
             NEW tx \in BOOLEAN,
             \/ Sync(c, ids, tx) \/ SyncWithoutDetaching(c, ids, tx)
             \/ Toggle(c, ids, tx)
      PROVE  Fine(d)
  <2>1. CASE d = c
    BY <1>4, <2>1, DecidedOnCourse
  <2>2. CASE d # c
    <3>1. /\ UNCHANGED <<pc[d], inTx[d], toDetach[d], toAttach[d], outcome[d]>>
          /\ links' = links /\ UNCHANGED <<pending[d], promise[d]>>
      BY <1>4, <2>2 DEF Sync, SyncWithoutDetaching, Toggle, ReadFirst, TypeOK
    <3> QED  BY <2>2, <3>1, OthersOnCourse
  <2> QED  BY <2>1, <2>2
<1>5. ASSUME NEW c \in Clients, NEW d \in Clients, DetachStep(c) \/ AttachStep(c)
      PROVE  Fine(d)
  <2>1. CASE d = c
    BY <1>5, <2>1, DetachOnCourse, AttachOnCourse
  <2>2. CASE d # c
    <3>1. UNCHANGED <<pc[d], inTx[d], toDetach[d], toAttach[d], outcome[d]>>
      BY <1>5, <2>2 DEF DetachStep, AttachStep, TypeOK
    <3>2. Wrote(c)
      BY <1>5, AttachWrote, DetachWrote
         DEF DetachStep, AttachStep, NoWrite, Wrote
    <3> QED  BY <2>2, <3>1, <3>2, OthersOnCourse
  <2> QED  BY <2>1, <2>2
<1>6. ASSUME NEW c \in Clients, NEW d \in Clients, Commit(c) \/ Fails(c)
      PROVE  Fine(d)
  <2>1. CASE d = c
    BY <1>6, <2>1, EndOnCourse
  <2>2. CASE d # c
    <3>1. UNCHANGED <<pc[d], inTx[d], toDetach[d], toAttach[d], outcome[d],
                      pending[d]>>
      BY <1>6, <2>2 DEF Commit, Fails, Ends, TypeOK
    <3>2. CASE Commit(c)
      <4>1. /\ \E written, new : Publish(c, written, new)
            /\ pending' = [pending EXCEPT ![c] = [l \in Links |-> Clean]]
        BY <3>2 DEF Commit, Ends
      <4> QED  BY <2>2, <3>1, <4>1, OthersOnCourse
    <3>3. CASE Fails(c)
      BY <2>2, <3>1, <3>3, OthersOnCourse DEF Fails
    <3> QED  BY <1>6, <3>2, <3>3
  <2> QED  BY <2>1, <2>2
<1>7. ASSUME NEW c \in Clients, NEW d \in Clients, Proceed(c)
      PROVE  Fine(d)
  <2>1. CASE d = c
    <3>1. Promised(d)' = {}
      BY <1>7, <2>1 DEF Proceed, Promised, TypeOK
    <3>2. OnCourse(d)'
      BY <1>7, <2>1 DEF Proceed, CallsOnCourse, OnCourse, TypeOK
    <3> QED  BY <3>1, <3>2
  <2>2. CASE d # c
    <3>1. /\ UNCHANGED <<pc[d], inTx[d], toDetach[d], toAttach[d], outcome[d]>>
          /\ links' = links /\ UNCHANGED <<pending[d], promise[d]>>
      BY <1>7, <2>2 DEF Proceed, TypeOK
    <3> QED  BY <2>2, <3>1, OthersOnCourse
  <2> QED  BY <2>1, <2>2
<1> HIDE DEF Fine
<1>8. CASE Next
  <2>1. \A d \in Clients : Fine(d)
    BY <1>3, <1>4, <1>5, <1>6, <1>7, <1>8 DEF Next
  <2> QED  BY <2>1 DEF CallsOnCourse, Fine
<1> QED  BY <1>1, <1>8

LEMMA AlwaysOnCourse == Spec => []CallsOnCourse
<1>1. Init => CallsOnCourse
  <2> SUFFICES ASSUME Init, NEW c \in Clients
               PROVE  OnCourse(c) /\ Promised(c) = {}
    BY DEF CallsOnCourse
  <2>1. /\ pc[c] = "idle" /\ toDetach[c] = {}
        /\ \A l \in Links : pending[c][l] = Clean /\ promise[c][l] = Lapsed
    BY DEF Init
  <2> QED  BY <2>1 DEF OnCourse, Promised
<1>2. TypeOK /\ TypeOK' /\ CallsOnCourse /\ [Next]_vars => CallsOnCourse'
  BY CoursesKept
<1> QED  BY <1>1, <1>2, TypeCorrect, PTL DEF Spec

\* A Sync, SyncWithoutDetaching or Toggle that returned nil has left every link
\* no other client wrote since as it promised, for any clients, lists and
\* interleaving of their statements, with and without transactions.
THEOREM DoneIsAsPromised == Spec => []DoneAsPromised
<1>1. CallsOnCourse => DoneAsPromised
  BY DEF CallsOnCourse, LinkOnCourse, DoneAsPromised
<1> QED  BY <1>1, AlwaysOnCourse, PTL

\* One that returned an error has changed nothing in DB.Tx; outside, each such
\* link is as it was or detached as it was to be.
THEOREM FailsHalfwayAtMost == Spec => []FailedHalfway
<1>1. CallsOnCourse => FailedHalfway
  BY DEF CallsOnCourse, LinkOnCourse, Half, FailedHalfway
<1> QED  BY <1>1, AlwaysOnCourse, PTL
=============================================================================
