--------------------------- MODULE ConnPoolProofs ---------------------------
(***************************************************************************)
(* ConnPool: connections are where they should be, for any number of       *)
(* clients, pools and connections and for calls of any length.             *)
(*                                                                         *)
(* The invariant is a predicate of one client, ClientInv(c).  A step is of *)
(* one client and touches no connection of another (Frame), so that what   *)
(* holds of the others still holds (OthersKeep), and each action has to be *)
(* looked at for the client that takes it alone.                           *)
(***************************************************************************)
EXTENDS ConnPool, TLAPS

\* What is left of a call is statements, or it is the begin of a Tx.
TodoKind(c) ==
    \/ todo[c] \in Seq(Ops) /\ (todo[c] # <<>> => Op(c) \in Ops)
    \/ /\ todo[c] = <<"begin">> /\ Op(c) = "begin"
       /\ pc[c] \in {"send", "wait", "run"}
       /\ on[c] = "db" /\ tx[c] = Nothing

\* What a client holds at each place of a call: a call on a Tx only while there
\* is one, and a connection from when it is acquired until the rows are closed.
Placed(c) ==
    /\ pc[c] \in {"app", "wait"} => on[c] = "db"
    /\ on[c] = "tx" => tx[c] # Nothing
    /\ alive[c] => tx[c] # Nothing
    /\ failed[c] => pc[c] = "tell" /\ conn[c] = Nothing
    /\ conn[c] # Nothing <=> pc[c] \in Sent /\ ~failed[c]
    /\ on[c] = "tx" /\ Using(c, conn[c]) => alive[c]

\* c has out of their pools what it uses and what its transaction is on, and of
\* these the rows are open on what it uses, once the statement has run.
Holds(c) ==
    /\ \A k \in Conns : owner[k] = c <=> Using(c, k) \/ (alive[c] /\ tx[c] = k)
    /\ \A k \in Conns : owner[k] = c =>
          (k \in open <=> Using(c, k) /\ pc[c] # "run")

RunsOn(c) ==
    pc[c] \in Sent /\ conn[c] # Nothing =>
        IF on[c] = "tx" THEN conn[c] = tx[c]
        ELSE PoolOf[conn[c]] = answer[c] /\ (alive[c] => conn[c] # tx[c])

ClientInv(c) == TodoKind(c) /\ Placed(c) /\ Holds(c) /\ RunsOn(c)

PoolInv ==
    /\ TypeOK
    /\ \A c \in Clients : ClientInv(c)
    /\ \A k \in open : owner[k] # Nothing

Locals(c) == <<pc[c], on[c], todo[c], answer[c], conn[c], failed[c], tx[c],
               alive[c]>>

\* A step of c: the other clients are as before, and c takes connections that
\* are free, gives back its own, with the rows closed, and opens and closes rows
\* on its own.
Frame(c) ==
    /\ \A d \in Clients \ {c} : Locals(d)' = Locals(d)
    /\ \A k \in Conns : owner'[k] = owner[k] \/ {owner[k], owner'[k]} = {c, Nothing}
    /\ \A k \in Conns : owner[k] # c => (k \in open' <=> k \in open)
    /\ \A k \in Conns : owner[k] = c /\ owner'[k] # c => k \notin open'

LEMMA OthersKeep ==
    ASSUME PoolInv, TypeOK', NEW c \in Clients, Frame(c), ClientInv(c)'
    PROVE  PoolInv'
<1>1. ASSUME NEW d \in Clients, d # c PROVE ClientInv(d)'
  <2>1. /\ pc'[d] = pc[d] /\ on'[d] = on[d] /\ todo'[d] = todo[d]
        /\ answer'[d] = answer[d] /\ conn'[d] = conn[d]
        /\ failed'[d] = failed[d] /\ tx'[d] = tx[d] /\ alive'[d] = alive[d]
    BY <1>1 DEF Frame, Locals
  <2>2. \A k : Using(d, k)' <=> Using(d, k)
    BY <2>1 DEF Using, Op
  <2>3. ClientInv(d)
    BY DEF PoolInv
  <2>4. TodoKind(d)' /\ RunsOn(d)'
    BY <2>1, <2>3 DEF ClientInv, TodoKind, RunsOn, Op
  <2>5. Placed(d)'
    BY <2>1, <2>2, <2>3 DEF ClientInv, Placed
  <2>6. \A k \in Conns : owner'[k] = d <=> owner[k] = d
    BY <1>1, ConstantsAssumption DEF Frame
  <2>7. \A k \in Conns : owner[k] = d => (k \in open' <=> k \in open)
    BY <1>1 DEF Frame
  <2>8. Holds(d)'
    BY <2>1, <2>2, <2>3, <2>6, <2>7 DEF ClientInv, Holds
  <2> QED  BY <2>4, <2>5, <2>8 DEF ClientInv
<1>2. ASSUME NEW k \in open' PROVE owner'[k] # Nothing
  <2>1. k \in Conns /\ owner[k] \in Clients \cup {Nothing}
        /\ owner'[k] \in Clients \cup {Nothing}
    BY <1>2 DEF TypeOK, PoolInv
  <2>2. CASE owner[k] # c
    <3>1. k \in open /\ owner[k] # Nothing
      BY <2>1, <2>2 DEF Frame, PoolInv
    <3> QED  BY <2>1, <2>2, <3>1 DEF Frame
  <2>3. CASE owner[k] = c
    BY <1>2, <2>1, <2>3, ConstantsAssumption DEF Frame
  <2> QED  BY <2>2, <2>3
<1> QED  BY <1>1, <1>2 DEF PoolInv

\* The history of a Tx stays one of fates.
LEMMA NoteTyped ==
    ASSUME TypeOK, NEW c \in Clients, Note(c)
    PROVE  fates' \in [Clients -> SUBSET {"held", "kept", "undone"}]
<1> DEFINE noted == fates[c] \cup
               {IF alive[c] /\ conn[c] = tx[c] THEN "held" ELSE "kept"}
<1>1. noted \in SUBSET {"held", "kept", "undone"}
  BY DEF TypeOK
<1>2. fates' = fates \/ fates' = [fates EXCEPT ![c] = noted]
  BY DEF Note
<1> HIDE DEF noted
<1> QED  BY <1>1, <1>2 DEF TypeOK

LEMMA SettleTyped ==
    ASSUME TypeOK, NEW c \in Clients, NEW fate \in {"kept", "undone"},
           Settle(c, fate)
    PROVE  fates' \in [Clients -> SUBSET {"held", "kept", "undone"}]
<1> DEFINE settled == {IF f = "held" THEN fate ELSE f : f \in fates[c]}
<1>1. settled \in SUBSET {"held", "kept", "undone"}
  BY DEF TypeOK
<1>2. fates' = [fates EXCEPT ![c] = settled]
  BY DEF Settle
<1> HIDE DEF settled
<1> QED  BY <1>1, <1>2 DEF TypeOK

LEMMA InitInv == Init => PoolInv
<1> SUFFICES ASSUME Init PROVE PoolInv
  OBVIOUS
<1>1. TypeOK
  BY DEF Init, TypeOK, Running
<1>2. ASSUME NEW c \in Clients PROVE ClientInv(c)
  BY <1>2, ConstantsAssumption
  DEF Init, ClientInv, TodoKind, Placed, Holds, RunsOn, Using, Sent
<1> QED  BY <1>1, <1>2 DEF PoolInv, Init

-----------------------------------------------------------------------------
\* What the invariant says of the client that takes the step.
LEMMA CallInv ==
    ASSUME PoolInv, NEW c \in Clients,
           NEW statements \in Calls, NEW session \in {"db", "tx"},
           Call(c, statements, session)
    PROVE  PoolInv'
<1>1. statements \in Seq(Ops) /\ statements # <<>> /\ Head(statements) \in Ops
      /\ statements \in Seq(Ops \cup {"begin"})
  BY ConstantsAssumption DEF Ops
<1>2. TypeOK'
  <2>1. fates' \in [Clients -> SUBSET {"held", "kept", "undone"}]
    BY DEF PoolInv, TypeOK, Call, Forget, ghostVars
  <2>2. last' = last \/ last' = [last EXCEPT ![c] = Running]
    BY DEF Call, Forget, ghostVars
  <2>3. last' \in [Clients -> [closure : {"running", "nil", "error", "panic"},
                               returned : {"running", "nil", "error", "panic"}]]
    <3>1. Running \in [closure : {"running", "nil", "error", "panic"},
                       returned : {"running", "nil", "error", "panic"}]
      BY DEF Running
    <3> QED  BY <2>2, <3>1 DEF PoolInv, TypeOK
  <2>4. /\ pc'   = [pc EXCEPT ![c] = "send"]
        /\ on'   = [on EXCEPT ![c] = session]
        /\ todo' = [todo EXCEPT ![c] = statements]
        /\ UNCHANGED <<answer, conn, failed, tx, alive, owner, open>>
    BY DEF Call, Goto
  <2> QED  BY <1>1, <2>1, <2>3, <2>4 DEF PoolInv, TypeOK
<1>3. Frame(c)
  BY DEF PoolInv, TypeOK, Call, Goto, Frame, Locals
<1>4. ClientInv(c)'
  <2>1. /\ pc[c] = "app" /\ pc'[c] = "send" /\ on'[c] = session
        /\ todo'[c] = statements
        /\ session = "tx" => tx[c] # Nothing
        /\ UNCHANGED <<answer, conn, failed, tx, alive, owner, open>>
    BY DEF Call, PoolInv, TypeOK, Goto, InTx
  <2>2. ClientInv(c)
    BY DEF PoolInv
  <2>3. \A k : ~Using(c, k) /\ ~Using(c, k)'
    BY <2>1 DEF Using
  <2>4. TodoKind(c)' /\ RunsOn(c)'
    BY <1>1, <2>1, <2>2 DEF TodoKind, RunsOn, Op, Sent
  <2>5. Placed(c)' /\ Holds(c)'
    BY <2>1, <2>2, <2>3 DEF ClientInv, Placed, Holds, Sent
  <2> QED  BY <2>4, <2>5 DEF ClientInv
<1> QED  BY <1>2, <1>3, <1>4, OthersKeep

LEMMA BeginTxInv ==
    ASSUME PoolInv, NEW c \in Clients, BeginTx(c)
    PROVE  PoolInv'
<1>1. <<"begin">> \in Seq(Ops \cup {"begin"}) /\ <<"begin">> # <<>>
      /\ Head(<<"begin">>) = "begin"
  OBVIOUS
<1>2. TypeOK'
  BY <1>1 DEF PoolInv, TypeOK, BeginTx, Goto, Running, Forget
<1>3. Frame(c)
  BY DEF PoolInv, TypeOK, BeginTx, Goto, Frame, Locals
<1>4. ClientInv(c)'
  <2>1. /\ pc[c] = "app" /\ pc'[c] = "send" /\ on'[c] = "db"
        /\ todo'[c] = <<"begin">> /\ tx[c] = Nothing
        /\ UNCHANGED <<answer, conn, failed, tx, alive, owner, open>>
    BY DEF BeginTx, PoolInv, TypeOK, Goto, InTx
  <2>2. ClientInv(c)
    BY DEF PoolInv
  <2>3. \A k : ~Using(c, k) /\ ~Using(c, k)'
    BY <2>1 DEF Using
  <2>4. TodoKind(c)' /\ RunsOn(c)'
    BY <1>1, <2>1, <2>2 DEF TodoKind, RunsOn, Op, Sent
  <2>5. Placed(c)' /\ Holds(c)'
    BY <2>1, <2>2, <2>3 DEF ClientInv, Placed, Holds, Sent
  <2> QED  BY <2>4, <2>5 DEF ClientInv
<1> QED  BY <1>2, <1>3, <1>4, OthersKeep

-----------------------------------------------------------------------------
(***************************************************************************)
(* How a call goes on.  It has returned or is about to send its next       *)
(* statement (Left), or the listeners are about to be told of an error     *)
(* (Told).  In both cases it uses no connection.                           *)
(***************************************************************************)
CallTypeOK ==
    /\ pc     \in [Clients -> {"app", "send", "wait"} \cup Sent]
    /\ on     \in [Clients -> {"db", "tx"}]
    /\ todo   \in [Clients -> Seq(Ops \cup {"begin"})]
    /\ \A c \in Clients : todo[c] = <<>> <=> pc[c] = "app"
    /\ answer \in [Clients -> Pools \cup {Nothing}]
    /\ conn   \in [Clients -> Conns \cup {Nothing}]
    /\ failed \in [Clients -> BOOLEAN]

Apart(c) ==
    \A d \in Clients \ {c} :
        /\ pc'[d] = pc[d] /\ on'[d] = on[d] /\ todo'[d] = todo[d]
        /\ answer'[d] = answer[d] /\ conn'[d] = conn[d]
        /\ failed'[d] = failed[d]

Left(c) ==
    /\ pc'[c] \in {"app", "send"}
    /\ conn'[c] = Nothing /\ failed'[c] = FALSE
    /\ todo'[c] \in Seq(Ops) /\ (todo'[c] # <<>> => Head(todo'[c]) \in Ops)
    /\ pc'[c] = "app" => on'[c] = "db"
    /\ pc'[c] = "send" => on'[c] = on[c]

Told(c) ==
    /\ pc'[c] = "tell"
    /\ conn'[c] = Nothing /\ failed'[c] = TRUE
    /\ todo'[c] \in Seq(Ops) /\ (todo'[c] # <<>> => Head(todo'[c]) \in Ops)
    /\ on'[c] = on[c]

LEMMA ReturnLeaves ==
    ASSUME TypeOK, NEW c \in Clients, Return(c)
    PROVE  CallTypeOK' /\ Apart(c) /\ Left(c) /\ pc'[c] = "app"
<1>1. <<>> \in Seq(Ops) /\ <<>> \in Seq(Ops \cup {"begin"})
  OBVIOUS
<1> QED  BY <1>1 DEF TypeOK, Return, Goto, CallTypeOK, Apart, Left

\* What is left of a call after one of several statements.
LEMMA RestOfCall ==
    ASSUME NEW s \in Seq(Ops), Len(s) > 1
    PROVE  /\ Tail(s) \in Seq(Ops) /\ Tail(s) # <<>>
           /\ Tail(s) \in Seq(Ops \cup {"begin"})
           /\ Head(Tail(s)) \in Ops
<1>1. /\ Tail(s) \in Seq(Ops) /\ Len(Tail(s)) = Len(s) - 1
      /\ Head(Tail(s)) = Tail(s)[1]
  OBVIOUS
<1>2. Len(Tail(s)) > 0 /\ 1 \in 1 .. Len(Tail(s))
  BY <1>1
<1>3. Tail(s)[1] \in Ops
  BY <1>1, <1>2
<1>4. Tail(s) \in Seq(Ops \cup {"begin"})
  BY <1>1
<1>5. Tail(s) # <<>>
  BY <1>2
<1> QED  BY <1>1, <1>3, <1>4, <1>5

LEMMA ContinueLeaves ==
    ASSUME TypeOK, NEW c \in Clients, Continue(c), TodoKind(c),
           Op(c) # "begin", failed[c] = FALSE
    PROVE  CallTypeOK' /\ Apart(c) /\ Left(c)
<1>1. CASE Len(todo[c]) > 1
  <2>1. todo[c] \in Seq(Ops)
    BY DEF TodoKind
  <2>2. /\ Tail(todo[c]) \in Seq(Ops) /\ Tail(todo[c]) # <<>>
        /\ Tail(todo[c]) \in Seq(Ops \cup {"begin"})
        /\ Head(Tail(todo[c])) \in Ops
    BY <1>1, <2>1, RestOfCall
  <2>3. /\ pc' = [pc EXCEPT ![c] = "send"]
        /\ todo' = [todo EXCEPT ![c] = Tail(todo[c])]
        /\ answer' = [answer EXCEPT ![c] = Nothing]
        /\ conn' = [conn EXCEPT ![c] = Nothing]
        /\ on' = on /\ failed' = failed
    BY <1>1 DEF Continue, Goto
  <2>4. CallTypeOK'
    BY <2>2, <2>3 DEF TypeOK, CallTypeOK, ghostVars
  <2>5. Apart(c) /\ Left(c)
    BY <2>2, <2>3 DEF TypeOK, Apart, Left
  <2> QED  BY <2>4, <2>5
<1>2. CASE ~(Len(todo[c]) > 1)
  BY <1>2, ReturnLeaves DEF Continue
<1> QED  BY <1>1, <1>2

LEMMA FailsLeaves ==
    ASSUME TypeOK, NEW c \in Clients, Fails(c), TodoKind(c), pc[c] # "app"
    PROVE  CallTypeOK' /\ Apart(c) /\ (Left(c) \/ Told(c))
<1>1. CASE Op(c) = "begin"
  BY <1>1, ReturnLeaves DEF Fails
<1>2. CASE Op(c) # "begin"
  <2>1. todo[c] \in Seq(Ops) /\ (todo[c] # <<>> => Head(todo[c]) \in Ops)
    BY <1>2 DEF TodoKind, Op
  <2>2. /\ failed' = [failed EXCEPT ![c] = TRUE]
        /\ answer' = [answer EXCEPT ![c] = Nothing]
        /\ conn' = [conn EXCEPT ![c] = Nothing]
        /\ pc' = [pc EXCEPT ![c] = "tell"]
        /\ on' = on /\ todo' = todo
    BY <1>2 DEF Fails, Goto
  <2>3. todo[c] # <<>>
    BY DEF TypeOK
  <2>4. \A d \in Clients : todo'[d] = <<>> <=> pc'[d] = "app"
    BY <2>2, <2>3 DEF TypeOK
  <2>5. CallTypeOK'
    BY <2>2, <2>4 DEF TypeOK, CallTypeOK, Sent
  <2>6. Apart(c) /\ Told(c)
    BY <2>1, <2>2 DEF TypeOK, Apart, Told
  <2> QED  BY <2>5, <2>6
<1> QED  BY <1>1, <1>2

LEMMA AtRest ==
    ASSUME NEW c \in Clients, Left(c) \/ Told(c),
           on'[c] = "tx" => tx'[c] # Nothing,
           alive'[c] => tx'[c] # Nothing
    PROVE  /\ TodoKind(c)' /\ Placed(c)' /\ RunsOn(c)'
           /\ \A k : ~Using(c, k)'
<1>1. \A k : ~Using(c, k)'
  BY DEF Left, Told, Using
<1>2. TodoKind(c)' /\ RunsOn(c)'
  BY DEF Left, Told, TodoKind, RunsOn, Op
<1>3. Placed(c)'
  BY <1>1 DEF Left, Told, Placed, Sent
<1> QED  BY <1>1, <1>2, <1>3

-----------------------------------------------------------------------------
(***************************************************************************)
(* The actions after which the client uses no connection: it has what its  *)
(* transaction is on, and nothing else.                                    *)
(***************************************************************************)
Keeps(c) ==
    \A k \in Conns : /\ owner'[k] = c <=> alive'[c] /\ tx'[c] = k
                     /\ owner'[k] = c => k \notin open'

LEMMA RestInv ==
    ASSUME PoolInv, NEW c \in Clients, TypeOK', Frame(c), Left(c) \/ Told(c),
           on'[c] = "tx" => tx'[c] # Nothing,
           alive'[c] => tx'[c] # Nothing,
           Keeps(c)
    PROVE  PoolInv'
<1>1. /\ TodoKind(c)' /\ Placed(c)' /\ RunsOn(c)'
      /\ \A k : ~Using(c, k)'
  BY AtRest
<1>2. Holds(c)'
  BY <1>1 DEF Holds, Keeps
<1> QED  BY <1>1, <1>2, OthersKeep DEF ClientInv

\* A call that has no connection yet, and so cannot be using one.
LEMMA UnusedInv ==
    ASSUME PoolInv, NEW c \in Clients, Fails(c), pc[c] \in {"send", "wait"},
           UNCHANGED <<tx, alive, owner, open, ghostVars>>
    PROVE  PoolInv'
<1>1. ClientInv(c) /\ TypeOK
  BY DEF PoolInv
<1>2. CallTypeOK' /\ Apart(c) /\ (Left(c) \/ Told(c))
  BY <1>1, FailsLeaves DEF ClientInv
<1>3. TypeOK'
  BY <1>1, <1>2 DEF TypeOK, CallTypeOK, ghostVars
<1>4. Frame(c)
  BY <1>2 DEF Frame, Apart, Locals
<1>5. /\ on'[c] = "tx" => tx'[c] # Nothing
      /\ alive'[c] => tx'[c] # Nothing
  BY <1>1, <1>2 DEF ClientInv, Placed, Left, Told
<1>6. Keeps(c)
  <2>1. \A k : ~Using(c, k)
    BY DEF Using
  <2> QED  BY <1>1, <2>1 DEF ClientInv, Holds, Keeps
<1> QED  BY <1>2, <1>3, <1>4, <1>5, <1>6, RestInv

\* The connection of the statement is given back, unless it is a transaction's.
LEMMA GiveBack ==
    ASSUME PoolInv, NEW c \in Clients, Using(c, conn[c]), FreeUnlessTx(c),
           UNCHANGED <<tx, alive>>,
           \/ pc[c] = "run" /\ UNCHANGED open
           \/ pc[c] # "run" /\ open' = open \ {conn[c]}
    PROVE  /\ owner' \in [Conns -> Clients \cup {Nothing}]
           /\ open' \subseteq Conns
           /\ \A k \in Conns : \/ owner'[k] = owner[k]
                               \/ {owner[k], owner'[k]} = {c, Nothing}
           /\ \A k \in Conns : owner[k] # c => (k \in open' <=> k \in open)
           /\ \A k \in Conns : owner[k] = c /\ owner'[k] # c => k \notin open'
           /\ Keeps(c)
<1>1. ClientInv(c) /\ TypeOK
  BY DEF PoolInv
<1>2. /\ conn[c] \in Conns /\ owner[conn[c]] = c
      /\ pc[c] \in Sent /\ ~failed[c]
  <2>1. pc[c] \in Sent /\ ~failed[c]
    BY <1>1 DEF ClientInv, Placed, Using, Sent
  <2>2. conn[c] \in Conns
    BY <1>1, <2>1 DEF ClientInv, Placed, TypeOK
  <2> QED  BY <1>1, <2>1, <2>2 DEF ClientInv, Holds
<1>3. \A k \in Conns : /\ owner[k] = c <=> k = conn[c] \/ (alive[c] /\ tx[c] = k)
                       /\ owner[k] = c /\ k \in open => k = conn[c]
                       /\ pc[c] = "run" => (owner[k] = c => k \notin open)
  BY <1>1, <1>2 DEF ClientInv, Holds, Using
<1>4. CASE on[c] = "tx"
  <2>1. alive[c] /\ conn[c] = tx[c] /\ owner' = owner
    BY <1>1, <1>2, <1>4 DEF ClientInv, Placed, RunsOn, FreeUnlessTx
  <2> QED  BY <1>1, <1>2, <1>3, <2>1 DEF Keeps, TypeOK
<1>5. CASE on[c] # "tx"
  <2>1. /\ owner' = [owner EXCEPT ![conn[c]] = Nothing]
        /\ alive[c] => conn[c] # tx[c]
    BY <1>1, <1>2, <1>5, ConstantsAssumption
    DEF ClientInv, RunsOn, FreeUnlessTx, Free
  <2> QED  BY <1>1, <1>2, <1>3, <2>1, ConstantsAssumption DEF Keeps, TypeOK
<1> QED  BY <1>4, <1>5

LEMMA RunFailsInv ==
    ASSUME PoolInv, NEW c \in Clients, RunFails(c)
    PROVE  PoolInv'
<1>1. /\ ClientInv(c) /\ TypeOK
      /\ pc[c] = "run" /\ FreeUnlessTx(c) /\ Fails(c)
      /\ UNCHANGED <<tx, alive, open, ghostVars>>
  BY DEF PoolInv, RunFails
<1>2. Using(c, conn[c])
  BY <1>1 DEF Using
<1>3. CallTypeOK' /\ Apart(c) /\ (Left(c) \/ Told(c))
  BY <1>1, FailsLeaves DEF ClientInv
<1>4. /\ owner' \in [Conns -> Clients \cup {Nothing}] /\ open' \subseteq Conns
      /\ \A k \in Conns : \/ owner'[k] = owner[k]
                          \/ {owner[k], owner'[k]} = {c, Nothing}
      /\ \A k \in Conns : owner[k] # c => (k \in open' <=> k \in open)
      /\ \A k \in Conns : owner[k] = c /\ owner'[k] # c => k \notin open'
      /\ Keeps(c)
  BY <1>1, <1>2, GiveBack
<1>5. TypeOK'
  BY <1>1, <1>3, <1>4 DEF TypeOK, CallTypeOK, ghostVars
<1>6. Frame(c)
  BY <1>1, <1>3, <1>4 DEF Frame, Apart, Locals
<1>7. /\ on'[c] = "tx" => tx'[c] # Nothing
      /\ alive'[c] => tx'[c] # Nothing
  BY <1>1, <1>3 DEF ClientInv, Placed, Left, Told
<1> QED  BY <1>3, <1>4, <1>5, <1>6, <1>7, RestInv

LEMMA ReadRowsInv ==
    ASSUME PoolInv, NEW c \in Clients, ReadRows(c)
    PROVE  PoolInv'
<1>1. /\ ClientInv(c) /\ TypeOK
      /\ pc[c] = "read" /\ FreeUnlessTx(c) /\ open' = open \ {conn[c]}
      /\ Return(c) \/ Continue(c)
      /\ UNCHANGED <<tx, alive, ghostVars>>
  BY DEF PoolInv, ReadRows
<1>2. Using(c, conn[c]) /\ failed[c] = FALSE /\ Op(c) # "begin"
  BY <1>1 DEF Using, ClientInv, Placed, TodoKind, TypeOK, Ops, Sent
<1>3. CallTypeOK' /\ Apart(c) /\ Left(c)
  BY <1>1, <1>2, ReturnLeaves, ContinueLeaves DEF ClientInv
<1>4. /\ owner' \in [Conns -> Clients \cup {Nothing}] /\ open' \subseteq Conns
      /\ \A k \in Conns : \/ owner'[k] = owner[k]
                          \/ {owner[k], owner'[k]} = {c, Nothing}
      /\ \A k \in Conns : owner[k] # c => (k \in open' <=> k \in open)
      /\ \A k \in Conns : owner[k] = c /\ owner'[k] # c => k \notin open'
      /\ Keeps(c)
  BY <1>1, <1>2, GiveBack
<1>5. TypeOK'
  BY <1>1, <1>3, <1>4 DEF TypeOK, CallTypeOK, ghostVars
<1>6. Frame(c)
  BY <1>1, <1>3, <1>4 DEF Frame, Apart, Locals
<1>7. /\ on'[c] = "tx" => tx'[c] # Nothing
      /\ alive'[c] => tx'[c] # Nothing
  BY <1>1, <1>3 DEF ClientInv, Placed, Left
<1> QED  BY <1>3, <1>4, <1>5, <1>6, <1>7, RestInv

\* A transaction has begun on the connection that was acquired for it.
LEMMA BegunInv ==
    ASSUME PoolInv, NEW c \in Clients, Begun(c)
    PROVE  PoolInv'
<1>1. /\ ClientInv(c) /\ TypeOK
      /\ pc[c] = "run" /\ Op(c) = "begin" /\ Return(c)
      /\ tx' = [tx EXCEPT ![c] = conn[c]] /\ alive' = [alive EXCEPT ![c] = TRUE]
      /\ UNCHANGED <<owner, open, ghostVars>>
  BY DEF PoolInv, Begun
<1>2. /\ conn[c] \in Conns /\ conn[c] # Nothing /\ ~failed[c]
      /\ tx[c] = Nothing /\ ~alive[c]
  BY <1>1, ConstantsAssumption
  DEF ClientInv, Placed, TodoKind, TypeOK, Ops, Sent
<1>3. CallTypeOK' /\ Apart(c) /\ Left(c) /\ pc'[c] = "app"
  BY <1>1, ReturnLeaves
<1>4. tx'[c] = conn[c] /\ alive'[c] /\ on'[c] = "db"
  BY <1>1, <1>3 DEF TypeOK, Left
<1>5. TypeOK'
  BY <1>1, <1>2, <1>3 DEF TypeOK, CallTypeOK, ghostVars
<1>6. Frame(c)
  BY <1>1, <1>3 DEF TypeOK, Frame, Apart, Locals
<1>7. Keeps(c)
  BY <1>1, <1>2, <1>4 DEF ClientInv, Holds, Using, Keeps
<1> QED  BY <1>2, <1>3, <1>4, <1>5, <1>6, <1>7, RestInv

\* The end of a Tx, which gives its connection back if it still has it.
LEMMA EndTxInv ==
    ASSUME PoolInv, NEW c \in Clients,
           NEW closure \in {"nil", "error", "panic"},
           NEW returned \in {"nil", "error", "panic"}, NEW kept \in BOOLEAN,
           EndTx(c, closure, returned, kept), \A k : ~Using(c, k),
           CallTypeOK', Apart(c), Left(c), pc'[c] = "app"
    PROVE  PoolInv'
<1>1. /\ ClientInv(c) /\ TypeOK
      /\ tx' = [tx EXCEPT ![c] = Nothing] /\ alive' = [alive EXCEPT ![c] = FALSE]
      /\ last' = [last EXCEPT ![c] = [closure |-> closure, returned |-> returned]]
      /\ Settle(c, IF kept THEN "kept" ELSE "undone")
      /\ owner' = IF alive[c] THEN [owner EXCEPT ![tx[c]] = Nothing] ELSE owner
      /\ open' = open
  BY DEF PoolInv, EndTx, Free
<1>2. \A k \in Conns : /\ owner[k] = c <=> alive[c] /\ tx[c] = k
                       /\ owner[k] = c => k \notin open
  BY <1>1 DEF ClientInv, Holds
<1>3. alive[c] => tx[c] \in Conns
  BY <1>1 DEF ClientInv, Placed, TypeOK
<1>4. tx'[c] = Nothing /\ ~alive'[c] /\ on'[c] = "db"
  BY <1>1 DEF TypeOK, Left
<1>5. /\ owner' \in [Conns -> Clients \cup {Nothing}]
      /\ \A k \in Conns : \/ owner'[k] = owner[k]
                          \/ {owner[k], owner'[k]} = {c, Nothing}
      /\ \A k \in Conns : owner'[k] # c
  BY <1>1, <1>2, <1>3, ConstantsAssumption DEF TypeOK
<1>6. TypeOK'
  BY <1>1, <1>5, SettleTyped DEF TypeOK, CallTypeOK, ghostVars
<1>7. Frame(c)
  BY <1>1, <1>2, <1>5 DEF TypeOK, Frame, Apart, Locals
<1>8. Keeps(c)
  BY <1>4, <1>5 DEF Keeps
<1> QED  BY <1>4, <1>6, <1>7, <1>8, RestInv

LEMMA FinishInv ==
    ASSUME PoolInv, NEW c \in Clients, Finish(c)
    PROVE  PoolInv'
<1>1. /\ ClientInv(c) /\ TypeOK /\ pc[c] = "app"
      /\ UNCHANGED <<pc, on, todo, answer, conn, failed>>
  BY DEF PoolInv, Finish, Commit, Rollback
<1>2. PICK closure \in {"nil", "error", "panic"},
           returned \in {"nil", "error", "panic"}, kept \in BOOLEAN :
              EndTx(c, closure, returned, kept)
  BY DEF Finish, Commit, Rollback
<1>3. \A k : ~Using(c, k)
  BY <1>1 DEF Using
<1>4. CallTypeOK' /\ Apart(c)
  BY <1>1 DEF TypeOK, CallTypeOK, Apart
<1>5. Left(c)
  <2>1. todo[c] = <<>> /\ on[c] = "db" /\ failed[c] = FALSE
    BY <1>1 DEF TypeOK, ClientInv, Placed
  <2>2. conn[c] = Nothing
    BY <1>1 DEF ClientInv, Placed, Sent
  <2> QED  BY <1>1, <2>1, <2>2 DEF Left
<1> QED  BY <1>1, <1>2, <1>3, <1>4, <1>5, EndTxInv

LEMMA DDInv ==
    ASSUME PoolInv, NEW c \in Clients, DD(c)
    PROVE  PoolInv'
<1>1. /\ ClientInv(c) /\ TypeOK /\ pc[c] = "send" /\ Return(c)
      /\ IF InTx(c) THEN EndTx(c, "panic", "panic", FALSE)
         ELSE UNCHANGED <<tx, alive, owner, open, ghostVars>>
  BY DEF PoolInv, DD
<1>2. CallTypeOK' /\ Apart(c) /\ Left(c) /\ pc'[c] = "app"
  BY <1>1, ReturnLeaves
<1>3. \A k : ~Using(c, k)
  BY <1>1 DEF Using
<1>4. CASE InTx(c)
  BY <1>1, <1>2, <1>3, <1>4, EndTxInv
<1>5. CASE ~InTx(c)
  <2>1. UNCHANGED <<tx, alive, owner, open, ghostVars>>
    BY <1>1, <1>5
  <2>2. TypeOK' /\ Frame(c)
    BY <1>1, <1>2, <2>1 DEF TypeOK, CallTypeOK, Frame, Apart, Locals, ghostVars
  <2>3. Keeps(c)
    BY <1>1, <1>3, <2>1 DEF ClientInv, Holds, Keeps
  <2>4. /\ on'[c] = "tx" => tx'[c] # Nothing
        /\ alive'[c] => tx'[c] # Nothing
    BY <1>1, <1>2, <2>1 DEF ClientInv, Placed, Left
  <2> QED  BY <1>2, <2>2, <2>3, <2>4, RestInv
<1> QED  BY <1>4, <1>5

-----------------------------------------------------------------------------
(***************************************************************************)
(* The actions of a statement on its way.                                  *)
(***************************************************************************)
LEMMA ResolveInv ==
    ASSUME PoolInv, NEW c \in Clients, NEW pool \in Pools, Resolve(c, pool)
    PROVE  PoolInv'
<1>1. /\ ClientInv(c) /\ TypeOK
      /\ pc[c] = "send" /\ on[c] = "db" /\ pc' = [pc EXCEPT ![c] = "wait"]
      /\ answer' = [answer EXCEPT ![c] = pool]
      /\ UNCHANGED <<on, todo, conn, failed, tx, alive, owner, open, ghostVars>>
  BY DEF PoolInv, Resolve, Goto
<1>2. TypeOK'
  BY <1>1 DEF TypeOK, ghostVars
<1>3. Frame(c)
  BY <1>1 DEF TypeOK, Frame, Locals
<1>4. ClientInv(c)'
  <2>1. pc'[c] = "wait"
    BY <1>1 DEF TypeOK
  <2>2. \A k : ~Using(c, k) /\ ~Using(c, k)'
    BY <1>1, <2>1 DEF Using
  <2> QED
    BY <1>1, <2>1, <2>2
    DEF ClientInv, TodoKind, Placed, Holds, RunsOn, Op, Sent
<1> QED  BY <1>2, <1>3, <1>4, OthersKeep

LEMMA AcquireInv ==
    ASSUME PoolInv, NEW c \in Clients, NEW k \in Conns, Acquire(c, k)
    PROVE  PoolInv'
<1>1. /\ ClientInv(c) /\ TypeOK
      /\ pc[c] = "wait" /\ PoolOf[k] = answer[c] /\ owner[k] = Nothing
      /\ pc' = [pc EXCEPT ![c] = "run"] /\ owner' = [owner EXCEPT ![k] = c]
      /\ conn' = [conn EXCEPT ![c] = k]
      /\ UNCHANGED <<on, todo, answer, failed, tx, alive, open, ghostVars>>
  BY DEF PoolInv, Acquire, Goto
<1>2. TypeOK'
  BY <1>1 DEF TypeOK, Sent, ghostVars
<1>3. k \notin open /\ k # Nothing /\ c # Nothing /\ owner[k] # c
  BY <1>1, ConstantsAssumption DEF PoolInv
<1>4. Frame(c)
  BY <1>1, <1>3 DEF TypeOK, Frame, Locals
<1>5. ClientInv(c)'
  <2>1. pc'[c] = "run" /\ conn'[c] = k /\ on[c] = "db" /\ ~failed[c]
    BY <1>1 DEF TypeOK, ClientInv, Placed
  <2>2. \A j : ~Using(c, j) /\ (Using(c, j)' <=> j = k)
    BY <1>1, <2>1 DEF Using
  <2>3. \A j \in Conns : owner'[j] = c <=> j = k \/ owner[j] = c
    BY <1>1 DEF TypeOK
  <2>4. Holds(c)'
    BY <1>1, <1>3, <2>1, <2>2, <2>3 DEF ClientInv, Holds
  <2>5. alive[c] => tx[c] # k
    BY <1>1, <1>3, <2>2 DEF ClientInv, Holds
  <2>6. TodoKind(c)' /\ Placed(c)' /\ RunsOn(c)'
    BY <1>1, <1>3, <2>1, <2>5
    DEF ClientInv, TodoKind, Placed, RunsOn, Op, Sent
  <2> QED  BY <2>4, <2>6 DEF ClientInv
<1> QED  BY <1>2, <1>4, <1>5, OthersKeep

LEMMA SendOnTxInv ==
    ASSUME PoolInv, NEW c \in Clients, SendOnTx(c)
    PROVE  PoolInv'
<1>1. CASE ~alive[c]
  BY <1>1, UnusedInv DEF SendOnTx
<1>2. CASE alive[c]
  <2>1. /\ ClientInv(c) /\ TypeOK
        /\ pc[c] = "send" /\ on[c] = "tx"
        /\ pc' = [pc EXCEPT ![c] = "run"] /\ conn' = [conn EXCEPT ![c] = tx[c]]
        /\ UNCHANGED <<on, todo, answer, failed, tx, alive, owner, open, ghostVars>>
    BY <1>2 DEF PoolInv, SendOnTx, Goto
  <2>2. tx[c] \in Conns /\ ~failed[c] /\ tx[c] # Nothing
    BY <1>2, <2>1 DEF ClientInv, Placed, TypeOK
  <2>3. TypeOK'
    BY <2>1, <2>2 DEF TypeOK, Sent, ghostVars
  <2>4. Frame(c)
    BY <2>1 DEF TypeOK, Frame, Locals
  <2>5. pc'[c] = "run" /\ conn'[c] = tx[c]
    BY <2>1 DEF TypeOK
  <2>6. \A k : ~Using(c, k) /\ (Using(c, k)' <=> k = tx[c])
    BY <2>1, <2>5 DEF Using
  <2>7. Holds(c)'
    BY <1>2, <2>1, <2>5, <2>6 DEF ClientInv, Holds
  <2>8. TodoKind(c)' /\ Placed(c)' /\ RunsOn(c)'
    BY <1>2, <2>1, <2>2, <2>5, <2>6
    DEF ClientInv, TodoKind, Placed, RunsOn, Op, Sent
  <2> QED  BY <2>3, <2>4, <2>7, <2>8, OthersKeep DEF ClientInv
<1> QED  BY <1>1, <1>2

LEMMA RunSucceedsInv ==
    ASSUME PoolInv, NEW c \in Clients, RunSucceeds(c)
    PROVE  PoolInv'
<1>1. /\ ClientInv(c) /\ TypeOK
      /\ pc[c] = "run" /\ Op(c) # "begin" /\ pc' = [pc EXCEPT ![c] = "tell"]
      /\ Note(c)
      /\ UNCHANGED <<on, todo, answer, conn, failed, tx, alive, last>>
  BY DEF PoolInv, RunSucceeds, Goto
<1>2. /\ pc'[c] = "tell" /\ Using(c, conn[c]) /\ ~failed[c]
      /\ conn[c] \in Conns /\ owner[conn[c]] = c
  <2>1. pc'[c] = "tell" /\ Using(c, conn[c]) /\ ~failed[c] /\ conn[c] # Nothing
    BY <1>1 DEF TypeOK, Using, ClientInv, Placed, Sent
  <2> QED  BY <1>1, <2>1 DEF ClientInv, Holds, TypeOK
<1>3. TodoKind(c)' /\ RunsOn(c)'
  BY <1>1, <1>2 DEF ClientInv, TodoKind, RunsOn, Op, Sent, Ops
<1>4. CASE Op(c) = "exec"
  <2>1. FreeUnlessTx(c) /\ open' = open
    BY <1>4 DEF RunSucceeds
  <2>2. /\ owner' \in [Conns -> Clients \cup {Nothing}] /\ open' \subseteq Conns
        /\ \A k \in Conns : \/ owner'[k] = owner[k]
                            \/ {owner[k], owner'[k]} = {c, Nothing}
        /\ \A k \in Conns : owner[k] # c => (k \in open' <=> k \in open)
        /\ \A k \in Conns : owner[k] = c /\ owner'[k] # c => k \notin open'
        /\ Keeps(c)
    BY <1>1, <1>2, <2>1, GiveBack
  <2>3. TypeOK'
    BY <1>1, <2>2, NoteTyped DEF TypeOK, Sent
  <2>4. Frame(c)
    BY <1>1, <2>2 DEF TypeOK, Frame, Locals
  <2>5. \A k : ~Using(c, k)'
    BY <1>1, <1>2, <1>4 DEF Using, Op
  <2>6. Holds(c)' /\ Placed(c)'
    BY <1>1, <1>2, <2>2, <2>5 DEF ClientInv, Keeps, Holds, Placed, Sent
  <2> QED  BY <1>3, <2>3, <2>4, <2>6, OthersKeep DEF ClientInv
<1>5. CASE Op(c) # "exec"
  <2>1. open' = open \cup {conn[c]} /\ owner' = owner
    BY <1>5 DEF RunSucceeds
  <2>2. TypeOK'
    BY <1>1, <1>2, <2>1, NoteTyped DEF TypeOK, Sent
  <2>3. Frame(c)
    BY <1>1, <1>2, <2>1 DEF TypeOK, Frame, Locals
  <2>4. \A k : Using(c, k) <=> Using(c, k)'
    BY <1>1, <1>2, <1>5 DEF Using, Op
  <2>5. \A k \in Conns : Using(c, k) <=> k = conn[c]
    BY <1>2 DEF Using
  <2>6. Holds(c)'
    BY <1>1, <1>2, <2>1, <2>4, <2>5 DEF ClientInv, Holds
  <2>7. Placed(c)'
    BY <1>1, <1>2, <2>4 DEF ClientInv, Placed, Sent
  <2> QED  BY <1>3, <2>2, <2>3, <2>6, <2>7, OthersKeep DEF ClientInv
<1> QED  BY <1>4, <1>5

LEMMA TellInv ==
    ASSUME PoolInv, NEW c \in Clients, Tell(c)
    PROVE  PoolInv'
<1>1. /\ ClientInv(c) /\ TypeOK /\ pc[c] = "tell"
      /\ UNCHANGED <<tx, alive, owner, open, ghostVars>>
  BY DEF PoolInv, Tell
<1>2. ASSUME ~Using(c, conn[c]), CallTypeOK', Apart(c), Left(c)
      PROVE  PoolInv'
  <2>1. TypeOK' /\ Frame(c)
    BY <1>1, <1>2 DEF TypeOK, CallTypeOK, Frame, Apart, Locals, ghostVars
  <2>2. \A k : ~Using(c, k)
    BY <1>2 DEF Using
  <2>3. Keeps(c)
    BY <1>1, <2>2 DEF ClientInv, Holds, Keeps
  <2>4. /\ on'[c] = "tx" => tx'[c] # Nothing
        /\ alive'[c] => tx'[c] # Nothing
    BY <1>1, <1>2 DEF ClientInv, Placed, Left
  <2> QED  BY <1>2, <2>1, <2>3, <2>4, RestInv
<1>3. CASE failed[c] /\ Return(c)
  BY <1>1, <1>2, <1>3, ReturnLeaves DEF Using
<1>4. CASE ~failed[c] /\ Op(c) = "exec" /\ Continue(c)
  <2>1. ~Using(c, conn[c]) /\ Op(c) # "begin" /\ failed[c] = FALSE
    BY <1>1, <1>4 DEF Using, TypeOK
  <2> QED  BY <1>1, <1>2, <1>4, <2>1, ContinueLeaves DEF ClientInv
<1>5. CASE /\ ~failed[c] /\ Op(c) # "exec" /\ Goto(c, "read")
           /\ UNCHANGED <<on, todo, answer, conn, failed>>
  <2>1. pc' = [pc EXCEPT ![c] = "read"] /\ pc'[c] = "read"
    BY <1>1, <1>5 DEF Goto, TypeOK
  <2>2. TypeOK' /\ Frame(c)
    BY <1>1, <1>5, <2>1 DEF TypeOK, Frame, Locals, Sent, ghostVars
  <2>3. \A k : Using(c, k) <=> Using(c, k)'
    BY <1>1, <1>5, <2>1 DEF Using
  <2>4. ClientInv(c)'
    BY <1>1, <1>5, <2>1, <2>3
    DEF ClientInv, TodoKind, Placed, Holds, RunsOn, Op, Sent
  <2> QED  BY <2>2, <2>4, OthersKeep
<1> QED  BY <1>3, <1>4, <1>5 DEF Tell

\* A transaction ends under its closure only when no statement is on it.
LEMMA ExpireInv ==
    ASSUME PoolInv, NEW c \in Clients, Expire(c)
    PROVE  PoolInv'
<1>1. /\ ClientInv(c) /\ TypeOK
      /\ alive[c] /\ tx[c] \notin open /\ ~(pc[c] = "run" /\ on[c] = "tx")
      /\ alive' = [alive EXCEPT ![c] = FALSE]
      /\ owner' = [owner EXCEPT ![tx[c]] = Nothing]
      /\ Settle(c, "undone")
      /\ UNCHANGED <<pc, on, todo, answer, conn, failed, tx, open, last>>
  BY DEF PoolInv, Expire, Free
<1>2. tx[c] \in Conns /\ owner[tx[c]] = c /\ ~alive'[c]
  BY <1>1 DEF ClientInv, Placed, Holds, TypeOK
<1>3. TypeOK'
  BY <1>1, SettleTyped DEF TypeOK
<1>4. Frame(c)
  BY <1>1, <1>2 DEF TypeOK, Frame, Locals
<1>5. \A k : Using(c, k) <=> Using(c, k)'
  BY <1>1 DEF Using, Op
<1>6. ~Using(c, tx[c])
  <2>1. CASE on[c] = "tx"
    BY <1>1, <1>2, <2>1 DEF ClientInv, Holds, Using
  <2>2. CASE on[c] # "tx"
    <3>1. Using(c, tx[c]) => pc[c] \in Sent /\ conn[c] = tx[c]
      BY DEF Using, Sent
    <3> QED
      BY <1>1, <1>2, <2>2, <3>1, ConstantsAssumption DEF ClientInv, RunsOn
  <2> QED  BY <2>1, <2>2
<1>7. on[c] = "tx" => ~Using(c, conn[c])
  <2>1. ASSUME on[c] = "tx", Using(c, conn[c]) PROVE FALSE
    <3>1. pc[c] \in Sent /\ conn[c] # Nothing
      BY <1>1, <2>1 DEF Using, Sent, ClientInv, Placed
    <3>2. conn[c] = tx[c]
      BY <1>1, <2>1, <3>1 DEF ClientInv, RunsOn
    <3> QED  BY <1>6, <2>1, <3>2
  <2> QED  BY <2>1
<1>8. \A k \in Conns : owner'[k] = c <=> owner[k] = c /\ k # tx[c]
  BY <1>1, <1>2, ConstantsAssumption DEF TypeOK
<1>9. Holds(c)'
  BY <1>1, <1>2, <1>5, <1>6, <1>8 DEF ClientInv, Holds
<1>10. TodoKind(c)' /\ Placed(c)' /\ RunsOn(c)'
  BY <1>1, <1>2, <1>5, <1>7 DEF ClientInv, TodoKind, Placed, RunsOn, Op, Sent
<1> QED  BY <1>3, <1>4, <1>9, <1>10, OthersKeep DEF ClientInv

-----------------------------------------------------------------------------
LEMMA NextInv == PoolInv /\ [Next]_vars => PoolInv'
<1> SUFFICES ASSUME PoolInv, [Next]_vars PROVE PoolInv'
  OBVIOUS
<1>1. ASSUME NEW c \in Clients, Step(c) PROVE PoolInv'
  <2>1. ASSUME ResolveFails(c) PROVE PoolInv'
    BY <2>1, UnusedInv DEF ResolveFails
  <2> QED
    BY <1>1, <2>1, ResolveInv, SendOnTxInv, DDInv, RunSucceedsInv, RunFailsInv,
       BegunInv, TellInv, ReadRowsInv
    DEF Step
<1>2. ASSUME NEW c \in Clients, GiveUp(c) PROVE PoolInv'
  BY <1>2, UnusedInv DEF GiveUp
<1>3. CASE UNCHANGED vars
  <2>1. \A c \in Clients : ClientInv(c)'
    BY <1>3
    DEF vars, PoolInv, ClientInv, TodoKind, Placed, Holds, RunsOn, Using, Op
  <2> QED  BY <1>3, <2>1 DEF vars, ghostVars, PoolInv, TypeOK
<1>4. CASE Next
  BY <1>1, <1>2, <1>4, CallInv, BeginTxInv, AcquireInv, FinishInv, ExpireInv
  DEF Next
<1> QED  BY <1>3, <1>4

LEMMA PoolInvHolds == Spec => []PoolInv
<1> QED  BY InitInv, NextInv, PTL DEF Spec

\* TypeOK.
THEOREM TypeCorrect == Spec => []TypeOK
<1>1. PoolInv => TypeOK
  BY DEF PoolInv
<1> QED  BY <1>1, PoolInvHolds, PTL

\* Connections are out of their pool exactly as long as they are used (db.go,
\* events.go, builder.go).
THEOREM NothingLeaks == Spec => []NoConnectionLeaked
<1>1. PoolInv => NoConnectionLeaked
  <2> SUFFICES ASSUME PoolInv PROVE NoConnectionLeaked
    OBVIOUS
  <2>1. \A k \in Conns, c \in Clients :
           owner[k] = c <=> Using(c, k) \/ (alive[c] /\ tx[c] = k)
    BY DEF PoolInv, ClientInv, Holds
  <2>2. ASSUME NEW k \in open PROVE \E c \in Clients : Using(c, k)
    <3>1. k \in Conns /\ owner[k] \in Clients
      BY DEF PoolInv, TypeOK
    <3>2. Using(owner[k], k)
      BY <3>1 DEF PoolInv, ClientInv, Holds
    <3> QED  BY <3>1, <3>2
  <2> QED  BY <2>1, <2>2 DEF NoConnectionLeaked
<1> QED  BY <1>1, PoolInvHolds, PTL

\* No statement is sent on a connection with open rows (builder.go, relations.go).
THEOREM RowsFirstClosed == Spec => []NoStatementUnderOpenRows
<1>1. PoolInv => NoStatementUnderOpenRows
  <2> SUFFICES ASSUME PoolInv, NEW c \in Clients, pc[c] = "run"
               PROVE  conn[c] \notin open
    BY DEF NoStatementUnderOpenRows
  <2>1. TypeOK /\ ClientInv(c)
    BY DEF PoolInv
  <2>2. conn[c] \in Conns
    BY <2>1 DEF ClientInv, Placed, TypeOK, Sent
  <2>3. owner[conn[c]] = c
    BY <2>1, <2>2 DEF ClientInv, Holds, Using
  <2> QED  BY <2>1, <2>2, <2>3 DEF ClientInv, Holds
<1> QED  BY <1>1, PoolInvHolds, PTL

\* A statement runs in the pool that was resolved for it, those of a Tx on its
\* own connection (dynamic.go, db.go).
THEOREM OnItsConnection == Spec => []RightConnection
<1>1. PoolInv => RightConnection
  BY DEF PoolInv, ClientInv, RunsOn, RightConnection
<1> QED  BY <1>1, PoolInvHolds, PTL

-----------------------------------------------------------------------------
(***************************************************************************)
(* The fate of the statements of a closure.  While the Tx is under way its *)
(* statements are all held, or were undone when the context expired; a Tx  *)
(* that is yet to begin has none.                                          *)
(***************************************************************************)
AllOrNothing(c) ==
    /\ \E fate \in {"held", "kept", "undone"} : fates[c] \subseteq {fate}
    /\ last[c].returned = "nil" => fates[c] \subseteq {"kept"}
    /\ last[c].closure \in {"error", "panic"} => fates[c] \subseteq {"undone"}

FateInv(c) ==
    /\ tx[c] # Nothing =>
          /\ last[c] = Running
          /\ fates[c] \subseteq {IF alive[c] THEN "held" ELSE "undone"}
    /\ todo[c] = <<"begin">> => last[c] = Running /\ fates[c] = {}
    /\ AllOrNothing(c)

Fates == \A c \in Clients : FateInv(c)

\* A step of c, as far as the other clients are concerned.
Alone(c) ==
    \A d \in Clients \ {c} :
        /\ tx'[d] = tx[d] /\ alive'[d] = alive[d] /\ todo'[d] = todo[d]
        /\ last'[d] = last[d] /\ fates'[d] = fates[d]

LEMMA AloneKeeps ==
    ASSUME Fates, NEW c \in Clients, Alone(c), FateInv(c)'
    PROVE  Fates'
<1>1. ASSUME NEW d \in Clients, d # c PROVE FateInv(d)'
  BY <1>1 DEF Fates, Alone, FateInv, AllOrNothing
<1> QED  BY <1>1 DEF Fates

\* A step that leaves the Tx of c alone, and the call a call of statements.
LEMMA QuietKeeps ==
    ASSUME Fates, NEW c \in Clients, UNCHANGED <<tx, alive, ghostVars>>,
           \A d \in Clients \ {c} : todo'[d] = todo[d],
           todo'[c] = todo[c] \/ todo'[c] # <<"begin">>
    PROVE  Fates'
<1>1. Alone(c)
  BY DEF Alone, ghostVars
<1>2. FateInv(c)'
  BY DEF Fates, FateInv, AllOrNothing, ghostVars
<1> QED  BY <1>1, <1>2, AloneKeeps

\* What is left of a call is not a begin.
LEMMA LeftIsNoBegin ==
    ASSUME NEW c \in Clients, Left(c) \/ Told(c)
    PROVE  todo'[c] # <<"begin">>
<1>1. ASSUME todo'[c] = <<"begin">> PROVE FALSE
  <2>1. Head(<<"begin">>) = "begin" /\ <<"begin">> # <<>>
    OBVIOUS
  <2>2. "begin" \in Ops
    BY <1>1, <2>1 DEF Left, Told
  <2> QED  BY <2>2 DEF Ops
<1> QED  BY <1>1

\* Nothing has been run yet when the application calls or begins.
LEMMA ForgetKeeps ==
    ASSUME PoolInv, Fates, NEW c \in Clients, Forget(c), tx[c] = Nothing,
           UNCHANGED <<tx, alive>>, \A d \in Clients \ {c} : todo'[d] = todo[d]
    PROVE  Fates'
<1>1. Alone(c) /\ last'[c] = Running /\ fates'[c] = {}
  BY DEF Alone, Forget, PoolInv, TypeOK
<1>2. FateInv(c)'
  BY <1>1 DEF FateInv, AllOrNothing, Running
<1> QED  BY <1>1, <1>2, AloneKeeps

LEMMA CallFates ==
    ASSUME PoolInv, Fates, NEW c \in Clients, NEW statements \in Calls,
           NEW session \in {"db", "tx"}, Call(c, statements, session)
    PROVE  Fates'
<1>1. /\ \A d \in Clients \ {c} : todo'[d] = todo[d]
      /\ todo'[c] = statements /\ UNCHANGED <<tx, alive>>
      /\ IF InTx(c) THEN UNCHANGED ghostVars ELSE Forget(c)
  BY DEF Call, PoolInv, TypeOK
<1>2. statements # <<"begin">>
  <2>1. ASSUME statements = <<"begin">> PROVE FALSE
    <3>1. /\ Head(<<"begin">>) = "begin" /\ <<"begin">> # <<>>
          /\ statements \in Seq(Ops)
      BY ConstantsAssumption
    <3>2. "begin" \in Ops
      BY <2>1, <3>1
    <3> QED  BY <3>2 DEF Ops
  <2> QED  BY <2>1
<1>3. CASE InTx(c)
  BY <1>1, <1>2, <1>3, QuietKeeps
<1>4. CASE ~InTx(c)
  BY <1>1, <1>4, ForgetKeeps DEF InTx
<1> QED  BY <1>3, <1>4

LEMMA BeginTxFates ==
    ASSUME PoolInv, Fates, NEW c \in Clients, BeginTx(c)
    PROVE  Fates'
<1>1. /\ \A d \in Clients \ {c} : todo'[d] = todo[d]
      /\ tx[c] = Nothing /\ UNCHANGED <<tx, alive>> /\ Forget(c)
  BY DEF BeginTx, InTx, PoolInv, TypeOK
<1> QED  BY <1>1, ForgetKeeps

\* The Tx that begins is the one nothing has been run in.
LEMMA BegunFates ==
    ASSUME PoolInv, Fates, NEW c \in Clients, Begun(c)
    PROVE  Fates'
<1>1. /\ ClientInv(c) /\ TypeOK /\ Op(c) = "begin" /\ Return(c)
      /\ tx' = [tx EXCEPT ![c] = conn[c]] /\ alive' = [alive EXCEPT ![c] = TRUE]
      /\ last' = last /\ fates' = fates
  BY DEF PoolInv, Begun, ghostVars
<1>2. todo[c] = <<"begin">>
  <2>1. "begin" \notin Ops
    BY DEF Ops
  <2>2. todo[c] # <<>>
    BY DEF Begun, PoolInv, TypeOK
  <2> QED  BY <1>1, <2>1, <2>2 DEF ClientInv, TodoKind
<1>3. last[c] = Running /\ fates[c] = {}
  BY <1>2 DEF Fates, FateInv
<1>4. Alone(c) /\ FateInv(c)'
  BY <1>1, <1>3 DEF Alone, Return, TypeOK, FateInv, AllOrNothing, Running
<1> QED  BY <1>4, AloneKeeps

\* A statement of a Tx runs on its connection while that lives, and is held.
LEMMA RunSucceedsFates ==
    ASSUME PoolInv, Fates, NEW c \in Clients, RunSucceeds(c)
    PROVE  Fates'
<1>1. /\ ClientInv(c) /\ TypeOK /\ FateInv(c) /\ pc[c] = "run" /\ Note(c)
      /\ tx' = tx /\ alive' = alive /\ todo' = todo /\ last' = last
  BY DEF PoolInv, Fates, RunSucceeds
<1>2. CASE on[c] # "tx"
  <2>1. fates' = fates
    BY <1>1, <1>2 DEF Note
  <2> QED  BY <1>1, <2>1, QuietKeeps DEF ghostVars
<1>3. CASE on[c] = "tx"
  <2>1. pc[c] \in Sent /\ conn[c] # Nothing /\ Using(c, conn[c])
    BY <1>1 DEF ClientInv, Placed, Using, Sent
  <2>2. alive[c] /\ conn[c] = tx[c] /\ tx[c] # Nothing
    BY <1>1, <1>3, <2>1 DEF ClientInv, Placed, RunsOn
  <2>3. fates' = [fates EXCEPT ![c] = fates[c] \cup {"held"}]
    BY <1>1, <1>3, <2>2 DEF Note
  <2>4. last[c] = Running /\ fates[c] \subseteq {"held"} /\ todo[c] # <<"begin">>
    <3>1. todo[c] # <<"begin">>
      <4>1. Op(c) # "begin" /\ Head(<<"begin">>) = "begin"
        BY DEF RunSucceeds
      <4> QED  BY <4>1 DEF Op
    <3> QED  BY <1>1, <2>2, <3>1 DEF FateInv
  <2>5. Alone(c) /\ fates'[c] \subseteq {"held"}
    BY <1>1, <2>3, <2>4 DEF Alone, TypeOK
  <2>6. FateInv(c)'
    BY <1>1, <2>2, <2>4, <2>5 DEF FateInv, AllOrNothing, Running
  <2> QED  BY <2>5, <2>6, AloneKeeps
<1> QED  BY <1>2, <1>3

\* When the transaction ends, what it held has one fate; what an expired context
\* had undone stays so, and Tx cannot return nil.
LEMMA EndTxFates ==
    ASSUME PoolInv, Fates, NEW c \in Clients, InTx(c),
           NEW closure \in {"nil", "error", "panic"},
           NEW returned \in {"nil", "error", "panic"}, NEW kept \in BOOLEAN,
           EndTx(c, closure, returned, kept),
           kept => alive[c] /\ closure = "nil", returned = "nil" => kept,
           \A d \in Clients \ {c} : todo'[d] = todo[d], todo'[c] # <<"begin">>
    PROVE  Fates'
<1> DEFINE settled == {IF f = "held" THEN (IF kept THEN "kept" ELSE "undone")
                                     ELSE f : f \in fates[c]}
           ended   == [closure |-> closure, returned |-> returned]
<1>1. /\ TypeOK
      /\ tx' = [tx EXCEPT ![c] = Nothing] /\ alive' = [alive EXCEPT ![c] = FALSE]
      /\ last' = [last EXCEPT ![c] = ended] /\ fates' = [fates EXCEPT ![c] = settled]
  BY DEF PoolInv, EndTx, Settle
<1>2. settled \subseteq {IF kept THEN "kept" ELSE "undone"}
  <2>1. fates[c] \subseteq {IF alive[c] THEN "held" ELSE "undone"}
    BY DEF Fates, FateInv, InTx
  <2>2. CASE kept
    BY <2>1, <2>2
  <2>3. CASE ~kept
    BY <2>1, <2>3
  <2> QED  BY <2>2, <2>3
<1>3. ended.closure = closure /\ ended.returned = returned
  OBVIOUS
<1> HIDE DEF settled, ended
<1>4. /\ Alone(c) /\ tx'[c] = Nothing
      /\ last'[c] = ended /\ fates'[c] = settled
  BY <1>1 DEF Alone, TypeOK
<1>5. FateInv(c)'
  <2>1. CASE kept
    <3>1. settled \subseteq {"kept"} /\ closure = "nil"
      BY <1>2, <2>1
    <3> QED  BY <1>3, <1>4, <3>1 DEF FateInv, AllOrNothing
  <2>2. CASE ~kept
    <3>1. settled \subseteq {"undone"} /\ returned # "nil"
      BY <1>2, <2>2
    <3> QED  BY <1>3, <1>4, <3>1 DEF FateInv, AllOrNothing
  <2> QED  BY <2>1, <2>2
<1> QED  BY <1>4, <1>5, AloneKeeps

LEMMA FinishFates ==
    ASSUME PoolInv, Fates, NEW c \in Clients, Finish(c)
    PROVE  Fates'
<1>1. pc[c] = "app" /\ InTx(c) /\ todo' = todo
  BY DEF Finish, Commit, Rollback
<1>2. todo[c] # <<"begin">>
  <2>1. todo[c] = <<>> /\ <<"begin">> # <<>>
    BY <1>1 DEF PoolInv, TypeOK
  <2> QED  BY <2>1
<1>3. PICK closure \in {"nil", "error", "panic"},
           returned \in {"nil", "error", "panic"}, kept \in BOOLEAN :
              /\ EndTx(c, closure, returned, kept)
              /\ kept => alive[c] /\ closure = "nil"
              /\ returned = "nil" => kept
  BY DEF Finish, Commit, Rollback
<1> QED  BY <1>1, <1>2, <1>3, EndTxFates

LEMMA DDFates ==
    ASSUME PoolInv, Fates, NEW c \in Clients, DD(c)
    PROVE  Fates'
<1>1. TypeOK /\ Return(c)
  BY DEF PoolInv, DD
<1>2. /\ \A d \in Clients \ {c} : todo'[d] = todo[d]
      /\ todo'[c] # <<"begin">>
  BY <1>1, ReturnLeaves, LeftIsNoBegin DEF Apart
<1>3. CASE InTx(c)
  BY <1>2, <1>3, EndTxFates DEF DD
<1>4. CASE ~InTx(c)
  BY <1>2, <1>4, QuietKeeps DEF DD
<1> QED  BY <1>3, <1>4

\* The context expires under the closure: what was held is undone, all of it.
LEMMA ExpireFates ==
    ASSUME PoolInv, Fates, NEW c \in Clients, Expire(c)
    PROVE  Fates'
<1> DEFINE settled == {IF f = "held" THEN "undone" ELSE f : f \in fates[c]}
<1>1. /\ TypeOK /\ ClientInv(c) /\ FateInv(c) /\ alive[c]
      /\ alive' = [alive EXCEPT ![c] = FALSE] /\ fates' = [fates EXCEPT ![c] = settled]
      /\ tx' = tx /\ todo' = todo /\ last' = last
  BY DEF PoolInv, Fates, Expire, Settle
<1>2. tx[c] # Nothing /\ last[c] = Running /\ fates[c] \subseteq {"held"}
  BY <1>1 DEF ClientInv, Placed, FateInv
<1>3. settled \subseteq {"undone"} /\ (fates[c] = {} => settled = {})
  BY <1>2
<1> HIDE DEF settled
<1>4. Alone(c) /\ fates'[c] = settled /\ ~alive'[c]
  BY <1>1 DEF Alone, TypeOK
<1>5. FateInv(c)'
  BY <1>1, <1>2, <1>3, <1>4 DEF FateInv, AllOrNothing, Running
<1> QED  BY <1>4, <1>5, AloneKeeps

\* The statements of a closure share one fate, and Tx returns which (db.go,
\* dynamic.go).
THEOREM OneFate == Spec => []ClosureAllOrNothing
<1>1. Init => Fates
  BY DEF Init, Fates, FateInv, AllOrNothing, Running
<1>2. PoolInv /\ Fates /\ [Next]_vars => Fates'
  <2> SUFFICES ASSUME PoolInv, Fates, [Next]_vars PROVE Fates'
    OBVIOUS
  <2>1. TypeOK /\ \A c \in Clients : ClientInv(c)
    BY DEF PoolInv
  <2>2. ASSUME NEW c \in Clients, UNCHANGED <<todo, tx, alive, ghostVars>>
        PROVE  Fates'
    BY <2>2, QuietKeeps
  <2>3. ASSUME NEW c \in Clients, UNCHANGED <<tx, alive, ghostVars>>,
               Apart(c), Left(c) \/ Told(c)
        PROVE  Fates'
    BY <2>3, LeftIsNoBegin, QuietKeeps DEF Apart
  <2>4. ASSUME NEW c \in Clients, Fails(c), pc[c] # "app",
               UNCHANGED <<tx, alive, ghostVars>>
        PROVE  Fates'
    BY <2>1, <2>3, <2>4, FailsLeaves DEF ClientInv
  <2>5. ASSUME NEW c \in Clients,
               ResolveFails(c) \/ GiveUp(c) \/ RunFails(c)
        PROVE  Fates'
    BY <2>4, <2>5 DEF ResolveFails, GiveUp, RunFails
  <2>6. ASSUME NEW c \in Clients, SendOnTx(c) PROVE Fates'
    BY <2>2, <2>4, <2>6 DEF SendOnTx
  <2>7. ASSUME NEW c \in Clients, Continue(c), pc[c] \in {"tell", "read"},
               failed[c] = FALSE, UNCHANGED <<tx, alive, ghostVars>>
        PROVE  Fates'
    <3>1. Op(c) # "begin"
      BY <2>1, <2>7 DEF ClientInv, TodoKind, TypeOK, Ops
    <3> QED  BY <2>1, <2>3, <2>7, <3>1, ContinueLeaves DEF ClientInv
  <2>8. ASSUME NEW c \in Clients, Return(c), UNCHANGED <<tx, alive, ghostVars>>
        PROVE  Fates'
    BY <2>1, <2>3, <2>8, ReturnLeaves
  <2>9. ASSUME NEW c \in Clients, Tell(c) PROVE Fates'
    <3>1. failed[c] \in BOOLEAN
      BY <2>1 DEF TypeOK
    <3> QED  BY <2>2, <2>7, <2>8, <2>9, <3>1 DEF Tell
  <2>10. ASSUME NEW c \in Clients, ReadRows(c) PROVE Fates'
    <3>1. failed[c] = FALSE
      BY <2>1, <2>10 DEF ReadRows, ClientInv, Placed, TypeOK
    <3> QED  BY <2>7, <2>8, <2>10, <3>1 DEF ReadRows
  <2>11. ASSUME NEW c \in Clients, NEW pool \in Pools, Resolve(c, pool)
         PROVE  Fates'
    BY <2>2, <2>11 DEF Resolve
  <2>12. ASSUME NEW c \in Clients, Step(c) PROVE Fates'
    BY <2>5, <2>6, <2>9, <2>10, <2>11, <2>12, RunSucceedsFates, BegunFates,
       DDFates
    DEF Step
  <2>13. ASSUME NEW c \in Clients, NEW k \in Conns, Acquire(c, k) PROVE Fates'
    BY <2>2, <2>13 DEF Acquire
  <2>14. CASE UNCHANGED vars
    BY <2>14 DEF vars, ghostVars, Fates, FateInv, AllOrNothing
  <2>15. CASE Next
    BY <2>5, <2>12, <2>13, <2>15, CallFates, BeginTxFates, FinishFates, ExpireFates
    DEF Next
  <2> QED  BY <2>14, <2>15
<1>3. Fates => ClosureAllOrNothing
  BY DEF Fates, FateInv, AllOrNothing, ClosureAllOrNothing
<1> QED  BY <1>1, <1>2, <1>3, PoolInvHolds, PTL DEF Spec
=============================================================================
