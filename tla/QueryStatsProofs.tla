-------------------------- MODULE QueryStatsProofs --------------------------
(***************************************************************************)
(* Theorems about QueryStats, for any statements, connections, scopes,     *)
(* durations and thresholds.                                               *)
(***************************************************************************)
EXTENDS QueryStats, FiniteSetTheorems, WellFoundedInduction, TLAPS

LEMMA HandlerIndexes ==
    /\ AllHandlers \subseteq Nat
    /\ \A db \in DBs : Handlers(db) \subseteq AllHandlers
<1>1. ASSUME NEW db \in DBs PROVE Handlers(db) \subseteq Nat
  BY ConstantsAssumption DEF Handlers
<1>2. \A db \in DBs : Handlers(db) \subseteq AllHandlers
  BY DEF AllHandlers
<1>3. AllHandlers \subseteq Nat
  BY <1>1 DEF AllHandlers
<1>4. QED
  BY <1>2, <1>3

LEMMA Folded ==
    ASSUME NEW entries \in Seq(Entry), NEW db \in DBs, NEW d \in Durations
    PROVE  /\ Latest(entries) \in Snapshot
           /\ Plus(Latest(entries), d) \in Snapshot
           /\ [db |-> db, dur |-> d, stats |-> Plus(Latest(entries), d)] \in Entry
<1>1. Latest(entries) \in Snapshot
  <2>1. CASE Len(entries) = 0
    BY <2>1 DEF Latest, After, EmptySnapshot, Snapshot
  <2>2. CASE Len(entries) # 0
    <3>1. entries[Len(entries)] \in Entry
      BY <2>2
    <3>2. QED
      BY <2>2, <3>1 DEF Latest, After, Entry
  <2>3. QED
    BY <2>1, <2>2
<1>2. Plus(Latest(entries), d) \in Snapshot
  BY <1>1, ConstantsAssumption DEF Plus, Snapshot
<1>3. QED
  BY <1>1, <1>2 DEF Entry

LEMMA InitTypeOK == Init => TypeOK
<1> SUFFICES ASSUME Init PROVE TypeOK
  OBVIOUS
<1>1. PICK db \in DBs, dur \in Durations : TRUE
  BY ConstantsAssumption
<1>2. [db |-> db, sc |-> Untracked, dur |-> dur] \in Request
  BY DEF Request, Contexts
<1>3. (CHOOSE r \in Request : TRUE) \in Request
  BY <1>2
<1>4. /\ req \in [Statements -> Request]
      /\ pc \in [Statements -> Phases]
      /\ \A st \in Statements : pc[st] \in InScope => Sc(st) \in Scopes
  BY <1>3 DEF Init, Phases, InScope
<1>5. /\ copy \in [Statements -> [total : Nat, fired : SUBSET AllHandlers]]
      /\ snap \in [Statements -> Snapshot]
      /\ seen \in [Scopes -> Snapshot]
  BY DEF Init, Snapshot, EmptySnapshot
<1>6. /\ todo \in [Statements -> SUBSET AllHandlers]
      /\ child \in [Statements -> Statements \cup {Nobody}]
      /\ mu \in [Scopes -> Statements \cup {Nobody}]
      /\ fired \in [Scopes -> SUBSET AllHandlers]
      /\ order \in [Scopes -> Seq(Entry)]
      /\ reports \subseteq [sc : Scopes, db : DBs, handler : AllHandlers,
                           dur : Durations, stats : Snapshot]
  BY DEF Init
<1>7. /\ total \in [Scopes -> Nat] /\ count \in [Scopes -> Nat]
      /\ slowest \in [Scopes -> Nat]
      /\ nanos \in [DBs -> Nat] /\ calls \in [DBs -> Nat]
  BY DEF Init
<1>8. /\ resets \in [DBs -> BOOLEAN]
      /\ warned \in BOOLEAN
      /\ heard \in [Statements -> BOOLEAN]
  BY DEF Init
<1>9. QED
  BY <1>4, <1>5, <1>6, <1>7, <1>8 DEF TypeOK

LEMMA NextTypeOK == TypeOK /\ [Next]_vars => TypeOK'
<1> SUFFICES ASSUME TypeOK, [Next]_vars PROVE TypeOK'
  OBVIOUS
<1> USE DEF TypeOK, Phases, InScope, Goto, DB, Sc
<1>1. ASSUME NEW st \in Statements, NEW r \in Sends[st], Send(st, r)
      PROVE  TypeOK'
  <2>1. r \in Request
    BY ConstantsAssumption DEF Request, Contexts
  <2>2. QED
    BY <1>1, <2>1 DEF Send, Issue, scopeVars, dbVars, ghostVars
<1>2. ASSUME NEW st \in Statements, NEW inner \in Statements,
             NEW dur \in Durations, NEW i \in todo[st],
             HandlerQueries(st, i, inner, dur)
      PROVE  TypeOK'
  <2>1. [db |-> DB(st), sc |-> Sc(st), dur |-> dur] \in Request
    BY DEF Request
  <2>2. QED
    BY <1>2, <2>1 DEF HandlerQueries, Issue, scopeVars, dbVars, ghostVars
<1>3. ASSUME NEW st \in Statements, Emit(st)
      PROVE  TypeOK'
  <2>1. req[st] \in Request /\ DB(st) \in DBs /\ Sc(st) \in Contexts
        /\ req[st].dur \in Nat /\ req[st].dur \in Durations
    BY ConstantsAssumption DEF Request
  <2>2. CASE AddNanos(st)
    BY <2>1, <2>2 DEF AddNanos, scopeVars, ghostVars
  <2>3. CASE AddCount(st)
    <3>1. calls' \in [DBs -> Nat]
      BY <2>1, <2>3 DEF AddCount
    <3>2. QED
      BY <2>1, <2>3, <3>1 DEF AddCount, scopeVars, ghostVars
  <2>4. CASE NoScope(st)
    <3>1. warned' \in BOOLEAN
      BY <2>4 DEF NoScope
    <3>2. QED
      BY <2>1, <2>4, <3>1 DEF NoScope, scopeVars, dbVars, ghostVars
  <2>5. CASE Acquire(st)
    BY <2>1, <2>5 DEF Acquire, Contexts, dbVars, ghostVars
  <2>6. CASE LoadScope(st)
    <3>1. /\ total[Sc(st)] \in Nat /\ fired[Sc(st)] \in SUBSET AllHandlers
      BY <2>6 DEF LoadScope
    <3>2. copy' \in [Statements -> [total : Nat, fired : SUBSET AllHandlers]]
      BY <2>6, <3>1 DEF LoadScope
    <3>3. QED
      BY <2>6, <3>2 DEF LoadScope, scopeVars, dbVars, ghostVars
  <2>7. CASE FoldTotal(st)
    <3>1. copy[st].total + req[st].dur \in Nat
      BY <2>1
    <3>2. total' \in [Scopes -> Nat]
      BY <2>7, <3>1 DEF FoldTotal
    <3>3. order' \in [Scopes -> Seq(Entry)]
      <4>1. order[Sc(st)] \in Seq(Entry)
        BY <2>7 DEF FoldTotal
      <4>2. [db |-> DB(st), dur |-> req[st].dur,
             stats |-> Plus(Latest(order[Sc(st)]), req[st].dur)] \in Entry
        BY <2>1, <4>1, Folded
      <4>3. QED
        BY <2>7, <4>1, <4>2 DEF FoldTotal
    <3>4. QED
      BY <2>7, <3>2, <3>3 DEF FoldTotal, dbVars
  <2>8. CASE FoldCount(st)
    <3>1. count' \in [Scopes -> Nat] /\ slowest' \in [Scopes -> Nat]
      BY <2>1, <2>8 DEF FoldCount
    <3>2. QED
      BY <2>8, <3>1 DEF FoldCount, dbVars, ghostVars
  <2>9. CASE TripHandlers(st)
    <3>1. /\ Tripped(st) \in SUBSET AllHandlers
          /\ copy[st].fired \in SUBSET AllHandlers
      BY <2>1, HandlerIndexes DEF Tripped
    <3>2. CurrentSnapshot(Sc(st)) \in Snapshot
      BY <2>9 DEF TripHandlers, CurrentSnapshot, Snapshot
    <3>3. /\ snap' \in [Statements -> Snapshot]
          /\ fired' \in [Scopes -> SUBSET AllHandlers]
          /\ todo' \in [Statements -> SUBSET AllHandlers]
      BY <2>9, <3>1, <3>2 DEF TripHandlers
    <3>4. QED
      BY <2>9, <3>3 DEF TripHandlers, dbVars, ghostVars
  <2>10. ASSUME NEW i \in todo[st], HandlerEnds(st, i)
         PROVE  TypeOK'
    <3>1. /\ Sc(st) \in Scopes /\ snap[st] \in Snapshot
          /\ i \in AllHandlers
      BY <2>10 DEF HandlerEnds
    <3>2. Report(st, i) \in [sc : Scopes, db : DBs, handler : AllHandlers,
                             dur : Durations, stats : Snapshot]
      BY <2>1, <3>1 DEF Report
    <3>3. /\ todo' \in [Statements -> SUBSET AllHandlers]
          /\ child' \in [Statements -> Statements \cup {Nobody}]
      BY <2>10 DEF HandlerEnds
    <3>4. QED
      BY <2>10, <3>2, <3>3 DEF HandlerEnds, scopeVars, dbVars
  <2>11. CASE HandlersDone(st)
    BY <2>11 DEF HandlersDone, scopeVars, dbVars, ghostVars
  <2>12. CASE Listen(st)
    BY <2>12 DEF Listen, scopeVars, dbVars, ghostVars
  <2>13. QED
    BY <1>3, <2>2, <2>3, <2>4, <2>5, <2>6, <2>7, <2>8, <2>9, <2>10, <2>11,
       <2>12 DEF Emit
<1>4. ASSUME NEW sc \in Scopes, Stats(sc)
      PROVE  TypeOK'
  BY <1>4 DEF Stats, CurrentSnapshot, Snapshot, stmtVars, scopeVars, dbVars
<1>5. ASSUME NEW db \in DBs, ResetNanos(db)
      PROVE  TypeOK'
  <2>1. resets' \in [DBs -> BOOLEAN]
    BY <1>5, Zenon DEF ResetNanos
  <2>2. QED
    BY <1>5, <2>1 DEF ResetNanos, stmtVars, scopeVars, ghostVars
<1>6. ASSUME NEW db \in DBs, ResetCount(db)
      PROVE  TypeOK'
  <2>1. resets' \in [DBs -> BOOLEAN]
    BY <1>6, Zenon DEF ResetCount
  <2>2. QED
    BY <1>6, <2>1 DEF ResetCount, stmtVars, scopeVars, ghostVars
<1>7. CASE UNCHANGED vars
  BY <1>7 DEF vars, stmtVars, scopeVars, dbVars, ghostVars
<1>8. QED
  BY <1>1, <1>2, <1>3, <1>4, <1>5, <1>6, <1>7 DEF Next

\* Every reachable state of the accounting has the declared shape.
THEOREM TypeCorrect == Spec => []TypeOK
<1>1. QED
  BY InitTypeOK, NextTypeOK, PTL DEF Spec
-----------------------------------------------------------------------------
(***************************************************************************)
(* A handler fires at most once per scope.  The copy of fired that the     *)
(* check reads is still the scope's when the result is stored, because     *)
(* only the holder of the mutex stores; so the handlers found tripped are  *)
(* new to the scope, and each is in the todo set of one statement until it *)
(* is reported.                                                            *)
(***************************************************************************)
InRecord(st) == pc[st] \in {"load", "fold", "count", "trip"}

HolderInRecord ==
    \A st \in Statements :
        InRecord(st) => Sc(st) \in Scopes /\ mu[Sc(st)] = st

CopyIsCurrent ==
    \A st \in Statements :
        pc[st] \in {"fold", "count", "trip"} => copy[st].fired = fired[Sc(st)]

TodoHasFired ==
    \A st \in Statements : todo[st] # {} =>
        /\ pc[st] = "handlers"
        /\ Sc(st) \in Scopes
        /\ todo[st] \subseteq fired[Sc(st)]

TodoIsExclusive ==
    \A st1, st2 \in Statements :
        st1 # st2 /\ Sc(st1) = Sc(st2) => todo[st1] \cap todo[st2] = {}

ReportsHaveFired ==
    \A r \in reports :
        /\ r.sc \in Scopes
        /\ r.handler \in fired[r.sc]
        /\ \A st \in Statements : Sc(st) = r.sc => r.handler \notin todo[st]

OneReport ==
    \A r1, r2 \in reports :
        r1.sc = r2.sc /\ r1.handler = r2.handler => r1 = r2

FireOnceInv ==
    /\ TypeOK
    /\ HolderInRecord
    /\ CopyIsCurrent
    /\ TodoHasFired
    /\ TodoIsExclusive
    /\ ReportsHaveFired
    /\ OneReport

LEMMA InitFireOnce == Init => FireOnceInv
<1> SUFFICES ASSUME Init PROVE FireOnceInv
  OBVIOUS
<1>1. TypeOK
  BY InitTypeOK
<1>2. QED
  BY <1>1 DEF Init, FireOnceInv, HolderInRecord, CopyIsCurrent, TodoHasFired,
              TodoIsExclusive, ReportsHaveFired, OneReport, InRecord

\* A statement that was only just issued takes no part in the argument.
LEMMA IssueKeepsFireOnce ==
    ASSUME FireOnceInv, TypeOK', NEW st \in Statements, NEW r \in Request,
           Issue(st, r), UNCHANGED <<copy, todo, mu, fired, reports>>
    PROVE  FireOnceInv'
<1> USE DEF FireOnceInv, TypeOK
<1>1. /\ pc[st] = "idle" /\ todo[st] = {}
      /\ pc' = [pc EXCEPT ![st] = "emit"]
      /\ \A s \in Statements \ {st} : pc'[s] = pc[s] /\ Sc(s)' = Sc(s)
      /\ pc'[st] = "emit"
  BY DEF Issue, Goto, TodoHasFired, Sc
<1>2. HolderInRecord'
  BY <1>1 DEF HolderInRecord, InRecord
<1>3. CopyIsCurrent'
  BY <1>1 DEF CopyIsCurrent
<1>4. TodoHasFired'
  BY <1>1 DEF TodoHasFired
<1>5. TodoIsExclusive'
  <2>1. SUFFICES ASSUME NEW st1 \in Statements, NEW st2 \in Statements,
                        st1 # st2, Sc(st1)' = Sc(st2)'
                 PROVE  todo[st1] \cap todo[st2] = {}
    BY DEF TodoIsExclusive
  <2>2. CASE st1 = st \/ st2 = st
    BY <1>1, <2>2
  <2>3. CASE st1 # st /\ st2 # st
    BY <1>1, <2>1, <2>3 DEF TodoIsExclusive
  <2>4. QED
    BY <2>2, <2>3
<1>6. ReportsHaveFired' /\ OneReport'
  BY <1>1 DEF ReportsHaveFired, OneReport
<1>7. QED
  BY <1>2, <1>3, <1>4, <1>5, <1>6

\* The lifetime counters come before the scope.
LEMMA CountersKeepFireOnce ==
    ASSUME FireOnceInv, TypeOK', NEW st \in Statements,
           AddNanos(st) \/ AddCount(st)
    PROVE  FireOnceInv'
<1>1. /\ UNCHANGED <<req, copy, todo, mu, fired, reports>>
      /\ pc[st] \in {"emit", "addCount"}
      /\ \E w \in {"addCount", "scope"} : pc' = [pc EXCEPT ![st] = w]
  BY DEF AddNanos, AddCount, Goto, scopeVars, ghostVars
<1>2. /\ \A s \in Statements \ {st} : pc'[s] = pc[s]
      /\ ~InRecord(st) /\ ~InRecord(st)'
  BY <1>1 DEF FireOnceInv, TypeOK, InRecord
<1>3. \A s \in Statements :
          /\ InRecord(s)' <=> InRecord(s)
          /\ InRecord(s) => pc'[s] = pc[s]
          /\ Sc(s)' = Sc(s)
  BY <1>1, <1>2 DEF InRecord, Sc
<1>4. HolderInRecord'
  BY <1>1, <1>3 DEF FireOnceInv, HolderInRecord
<1>5. CopyIsCurrent'
  BY <1>1, <1>2, <1>3 DEF FireOnceInv, CopyIsCurrent, InRecord
<1>6. TodoHasFired' /\ TodoIsExclusive' /\ ReportsHaveFired' /\ OneReport'
  BY <1>1, <1>2, <1>3
     DEF FireOnceInv, TodoHasFired, TodoIsExclusive, ReportsHaveFired, OneReport,
         InRecord
<1>7. QED
  BY <1>4, <1>5, <1>6 DEF FireOnceInv

LEMMA NextFireOnce == FireOnceInv /\ [Next]_vars => FireOnceInv'
<1> SUFFICES ASSUME FireOnceInv, [Next]_vars PROVE FireOnceInv'
  OBVIOUS
<1>0. TypeOK /\ TypeOK'
  BY NextTypeOK DEF FireOnceInv
<1> USE DEF FireOnceInv, HolderInRecord, CopyIsCurrent, TodoHasFired,
            TodoIsExclusive, ReportsHaveFired, OneReport, InRecord,
            Goto, DB, Sc
<1>1. ASSUME NEW st \in Statements, NEW r \in Sends[st], Send(st, r)
      PROVE  FireOnceInv'
  <2>1. Issue(st, r) /\ UNCHANGED <<copy, todo, mu, fired, reports>>
    BY <1>1 DEF Send, scopeVars, ghostVars
  <2>2. r \in Request
    BY ConstantsAssumption DEF Request, Contexts
  <2>3. QED
    BY <1>0, <2>1, <2>2, IssueKeepsFireOnce
<1>2. ASSUME NEW st \in Statements, NEW inner \in Statements,
             NEW dur \in Durations, NEW i \in todo[st],
             HandlerQueries(st, i, inner, dur)
      PROVE  FireOnceInv'
  <2>1. /\ Issue(inner, [db |-> DB(st), sc |-> Sc(st), dur |-> dur])
        /\ UNCHANGED <<copy, todo, mu, fired, reports>>
    BY <1>2 DEF HandlerQueries, scopeVars, ghostVars
  <2>2. req[st] \in Request
    BY <1>0 DEF TypeOK
  <2>3. [db |-> DB(st), sc |-> Sc(st), dur |-> dur] \in Request
    BY <2>2 DEF Request
  <2>4. QED
    BY <1>0, <2>1, <2>3, IssueKeepsFireOnce
<1>3. ASSUME NEW st \in Statements, Emit(st)
      PROVE  FireOnceInv'
  <2>3. CASE AddNanos(st) \/ AddCount(st)
    BY <1>0, <2>3, CountersKeepFireOnce
  <2>4. CASE NoScope(st)
    BY <1>0, <2>4 DEF NoScope, TypeOK, scopeVars, ghostVars
  <2>5. CASE Acquire(st)
    <3>1. Sc(st) \in Scopes
      BY <2>5 DEF Acquire, TypeOK, Request, Contexts
    <3>2. /\ pc' = [pc EXCEPT ![st] = "load"]
          /\ mu' = [mu EXCEPT ![Sc(st)] = st]
          /\ mu[Sc(st)] = Nobody /\ todo[st] = {}
          /\ UNCHANGED <<req, copy, todo, fired, reports>>
      BY <2>5 DEF Acquire, ghostVars
    <3>3. HolderInRecord'
      BY SMTT(20), <1>0, <3>1, <3>2, ConstantsAssumption DEF TypeOK
    <3>4. CopyIsCurrent' /\ TodoHasFired'
      BY <1>0, <3>2 DEF TypeOK
    <3>5. TodoIsExclusive' /\ ReportsHaveFired' /\ OneReport'
      BY <3>2
    <3>6. QED
      BY <1>0, <3>3, <3>4, <3>5
  <2>6. CASE LoadScope(st)
    <3>1. /\ pc[st] = "load" /\ pc' = [pc EXCEPT ![st] = "fold"]
          /\ InRecord(st) /\ todo[st] = {}
          /\ copy'[st].fired = fired[Sc(st)]
          /\ \A s \in Statements \ {st} : copy'[s] = copy[s]
          /\ UNCHANGED <<req, todo, mu, fired, reports>>
      <4>1. /\ pc[st] = "load" /\ pc' = [pc EXCEPT ![st] = "fold"]
            /\ copy' = [copy EXCEPT ![st] = [total |-> total[Sc(st)],
                                             fired |-> fired[Sc(st)]]]
            /\ UNCHANGED <<req, todo, mu, fired, reports>>
        BY <2>6 DEF LoadScope, scopeVars, ghostVars
      <4>2. InRecord(st) /\ todo[st] = {}
        BY <4>1
      <4>3. QED
        BY <1>0, <4>1, <4>2 DEF TypeOK
    <3>2. HolderInRecord' /\ CopyIsCurrent'
      BY <1>0, <3>1 DEF TypeOK
    <3>3. TodoHasFired' /\ TodoIsExclusive' /\ ReportsHaveFired' /\ OneReport'
      BY <1>0, <3>1 DEF TypeOK
    <3>4. QED
      BY <1>0, <3>2, <3>3
  <2>7. CASE FoldTotal(st)
    <3>1. /\ pc' = [pc EXCEPT ![st] = "count"]
          /\ InRecord(st) /\ todo[st] = {}
          /\ copy[st].fired = fired[Sc(st)]
          /\ UNCHANGED <<req, copy, todo, mu, fired, reports>>
      BY <2>7 DEF FoldTotal
    <3>2. HolderInRecord' /\ CopyIsCurrent'
      BY <1>0, <3>1 DEF TypeOK
    <3>3. TodoHasFired' /\ TodoIsExclusive' /\ ReportsHaveFired' /\ OneReport'
      BY <1>0, <3>1 DEF TypeOK
    <3>4. QED
      BY <1>0, <3>2, <3>3
  <2>8. CASE FoldCount(st)
    <3>1. /\ pc' = [pc EXCEPT ![st] = "trip"]
          /\ InRecord(st) /\ todo[st] = {}
          /\ copy[st].fired = fired[Sc(st)]
          /\ UNCHANGED <<req, copy, todo, mu, fired, reports>>
      BY <2>8 DEF FoldCount, ghostVars
    <3>2. HolderInRecord' /\ CopyIsCurrent'
      BY <1>0, <3>1 DEF TypeOK
    <3>3. TodoHasFired' /\ TodoIsExclusive' /\ ReportsHaveFired' /\ OneReport'
      BY <1>0, <3>1 DEF TypeOK
    <3>4. QED
      BY <1>0, <3>2, <3>3
  <2>9. CASE TripHandlers(st)
    <3>1. /\ Sc(st) \in Scopes /\ mu[Sc(st)] = st
          /\ copy[st].fired = fired[Sc(st)]
          /\ todo[st] = {}
      BY <2>9 DEF TripHandlers
    <3>2. /\ Tripped(st) \cap fired[Sc(st)] = {}
          /\ fired' = [fired EXCEPT ![Sc(st)] = @ \cup Tripped(st)]
      BY <2>9, <3>1 DEF TripHandlers, Tripped, TypeOK
    <3>3. HolderInRecord'
      BY <1>0, <2>9, <3>1 DEF TripHandlers, TypeOK
    <3>4. CopyIsCurrent'
      BY <1>0, <2>9, <3>1, <3>2 DEF TripHandlers, TypeOK
    <3>5. TodoHasFired'
      BY <1>0, <2>9, <3>1, <3>2 DEF TripHandlers, TypeOK
    <3>6. TodoIsExclusive'
      <4>1. /\ req' = req
            /\ todo' = [todo EXCEPT ![st] = Tripped(st)]
            /\ DOMAIN todo = Statements
        BY <1>0, <2>9 DEF TripHandlers, TypeOK
      <4>2. ASSUME NEW s \in Statements, s # st, Sc(s) = Sc(st)
            PROVE  todo[s] \cap Tripped(st) = {}
        BY <3>2, <4>2
      <4>3. ASSUME NEW s1 \in Statements, NEW s2 \in Statements,
                   s1 # s2, Sc(s1) = Sc(s2)
            PROVE  todo'[s1] \cap todo'[s2] = {}
        <5>1. CASE s1 = st
          BY <4>1, <4>2, <4>3, <5>1
        <5>2. CASE s2 = st
          BY <4>1, <4>2, <4>3, <5>2
        <5>3. CASE s1 # st /\ s2 # st
          BY <4>1, <4>3, <5>3
        <5>4. QED
          BY <5>1, <5>2, <5>3
      <4>4. QED
        BY <4>1, <4>3
    <3>7. ReportsHaveFired' /\ OneReport'
      BY <1>0, <2>9, <3>1, <3>2 DEF TripHandlers, TypeOK, ghostVars
    <3>8. QED
      BY <1>0, <3>3, <3>4, <3>5, <3>6, <3>7
  <2>10. ASSUME NEW i \in todo[st], HandlerEnds(st, i)
         PROVE  FireOnceInv'
    <3>1. Sc(st) \in Scopes /\ i \in fired[Sc(st)]
      BY <2>10 DEF HandlerEnds
    <3>2. Report(st, i).sc = Sc(st) /\ Report(st, i).handler = i
      BY DEF Report
    <3>3. \A r \in reports : r.sc = Sc(st) => r.handler # i
      BY <3>1
    <3>4. HolderInRecord' /\ CopyIsCurrent' /\ TodoHasFired' /\ TodoIsExclusive'
      BY <1>0, <2>10 DEF HandlerEnds, TypeOK, scopeVars
    <3>5. ReportsHaveFired'
      BY SMTT(20), <1>0, <2>10, <3>1, <3>2 DEF HandlerEnds, TypeOK, scopeVars
    <3>6. OneReport'
      BY <2>10, <3>2, <3>3 DEF HandlerEnds
    <3>7. QED
      BY <1>0, <3>4, <3>5, <3>6
  <2>11. CASE HandlersDone(st)
    BY <1>0, <2>11 DEF HandlersDone, TypeOK, scopeVars, ghostVars
  <2>12. CASE Listen(st)
    BY <1>0, <2>12 DEF Listen, TypeOK, scopeVars, ghostVars
  <2>13. QED
    BY <1>3, <2>3, <2>4, <2>5, <2>6, <2>7, <2>8, <2>9, <2>10, <2>11,
       <2>12 DEF Emit
<1>4. ASSUME NEW sc \in Scopes, Stats(sc)
      PROVE  FireOnceInv'
  BY <1>0, <1>4 DEF Stats, stmtVars, scopeVars
<1>5. ASSUME NEW db \in DBs, ResetNanos(db) \/ ResetCount(db)
      PROVE  FireOnceInv'
  BY <1>0, <1>5 DEF ResetNanos, ResetCount, stmtVars, scopeVars, ghostVars
<1>6. CASE UNCHANGED vars
  BY <1>0, <1>6 DEF vars, stmtVars, scopeVars, dbVars, ghostVars
<1>7. QED
  BY <1>1, <1>2, <1>3, <1>4, <1>5, <1>6 DEF Next

\* The handlers a scope has tripped fire at most once in it, however its
\* statements interleave and however many handlers and connections there are
\* (querystats.go: "It fires at most once per scope").
THEOREM FireOnce == Spec => []HandlersFireOnce
<1>1. FireOnceInv => HandlersFireOnce
  BY DEF FireOnceInv, OneReport, HandlersFireOnce
<1>2. QED
  BY <1>1, InitFireOnce, NextFireOnce, PTL DEF Spec
-----------------------------------------------------------------------------
(***************************************************************************)
(* The accumulator against the history of the scope.  While nobody holds   *)
(* the mutex the two agree; the holder is between them in a way its place  *)
(* tells (WholeBeforeFold, HalfFolded, WholeAfterFold).  An entry at or    *)
(* over the threshold of a handler of its DB has that handler in fired,    *)
(* except the holder's own entry before it trips its handlers; and a       *)
(* handler in fired was reported or is on the list of one statement, which *)
(* keeps the stats of the entry it is to report.                           *)
(***************************************************************************)
Top(entries) == entries[Len(entries)]

HeldByRecorder ==
    \A sc \in Scopes : mu[sc] # Nobody =>
        mu[sc] \in Statements /\ InRecord(mu[sc]) /\ Sc(mu[sc]) = sc

TotalIsCurrent ==
    \A st \in Statements :
        pc[st] = "fold" => copy[st].total = total[Sc(st)]

WholeBeforeFold ==
    \A st \in Statements : pc[st] \in {"load", "fold"} =>
        CurrentSnapshot(Sc(st)) = Latest(order[Sc(st)])

HalfFolded ==
    \A st \in Statements : pc[st] = "count" =>
        /\ order[Sc(st)] # <<>>
        /\ Top(order[Sc(st)]) =
              [db |-> DB(st), dur |-> req[st].dur,
               stats |-> [total   |-> total[Sc(st)],
                          count   |-> count[Sc(st)] + 1,
                          slowest |-> IF req[st].dur > slowest[Sc(st)]
                                      THEN req[st].dur ELSE slowest[Sc(st)]]]

WholeAfterFold ==
    \A st \in Statements : pc[st] = "trip" =>
        /\ order[Sc(st)] # <<>>
        /\ Top(order[Sc(st)]) = [db |-> DB(st), dur |-> req[st].dur,
                                 stats |-> CurrentSnapshot(Sc(st))]

HoldsEntry(sc) == mu[sc] # Nobody /\ pc[mu[sc]] \in {"count", "trip"}

PassedHaveFired ==
    \A sc \in Scopes : \A k \in DOMAIN order[sc] :
        \A i \in Handlers(order[sc][k].db) :
            order[sc][k].stats.total >= Thresholds[order[sc][k].db][i] =>
                i \in fired[sc] \/ (k = Len(order[sc]) /\ HoldsEntry(sc))

Due(r) ==
    /\ r.handler \in Handlers(r.db)
    /\ \E k \in DOMAIN order[r.sc] : TippedBy(r, k)

TodoIsDue ==
    \A st \in Statements : \A i \in todo[st] : Due(Report(st, i))

ReportsWereDue == \A r \in reports : Due(r)

FiredAreServed ==
    \A sc \in Scopes : \A i \in fired[sc] :
        \/ \E r \in reports : r.sc = sc /\ r.handler = i
        \/ \E st \in Statements : Sc(st) = sc /\ i \in todo[st]

StatsWereCurrent == \A sc \in Scopes : seen[sc] \in Moments(sc)

AccountInv ==
    /\ ScopeCoherent
    /\ HeldByRecorder
    /\ TotalIsCurrent
    /\ WholeBeforeFold
    /\ HalfFolded
    /\ WholeAfterFold
    /\ PassedHaveFired
    /\ TodoIsDue
    /\ ReportsWereDue
    /\ FiredAreServed
    /\ StatsWereCurrent

LEMMA InitAccount == Init => AccountInv
<1> SUFFICES ASSUME Init PROVE AccountInv
  OBVIOUS
<1>1. \A sc \in Scopes : order[sc] = <<>> /\ Len(order[sc]) = 0
  BY DEF Init
<1>2. ScopeCoherent
  BY <1>1 DEF Init, ScopeCoherent, CurrentSnapshot, Latest, After,
              EmptySnapshot
<1>3. StatsWereCurrent
  BY <1>1 DEF Init, StatsWereCurrent, Moments, After
<1>4. PassedHaveFired
  BY <1>1 DEF PassedHaveFired
<1>5. QED
  BY <1>2, <1>3, <1>4 DEF Init, AccountInv, HeldByRecorder, TotalIsCurrent,
     WholeBeforeFold, HalfFolded, WholeAfterFold, TodoIsDue, ReportsWereDue,
     FiredAreServed

LEMMA Alone ==
    ASSUME FireOnceInv, NEW s1 \in Statements, NEW s2 \in Statements,
           InRecord(s1), InRecord(s2), Sc(s1) = Sc(s2)
    PROVE  s1 = s2
BY DEF FireOnceInv, HolderInRecord

\* What a scope's history says of its earlier entries stays so.
LEMMA HistoryGrows ==
    ASSUME TypeOK, NEW sc \in Scopes, NEW e \in Entry,
           order' = [order EXCEPT ![sc] = Append(@, e)]
    PROVE  /\ \A other \in Scopes \ {sc} : order'[other] = order[other]
           /\ Len(order'[sc]) = Len(order[sc]) + 1
           /\ Top(order'[sc]) = e
           /\ order'[sc] # <<>>
           /\ \A k \in 1 .. Len(order[sc]) : order'[sc][k] = order[sc][k]
           /\ \A any \in Scopes : Moments(any) \subseteq Moments(any)'
<1>1. /\ order[sc] \in Seq(Entry) /\ order'[sc] = Append(order[sc], e)
      /\ \A other \in Scopes \ {sc} : order'[other] = order[other]
  BY DEF TypeOK
<1>2. /\ Len(order'[sc]) = Len(order[sc]) + 1
      /\ order'[sc][Len(order[sc]) + 1] = e
      /\ order'[sc] # <<>>
      /\ \A k \in 1 .. Len(order[sc]) : order'[sc][k] = order[sc][k]
  BY <1>1
<1>3. Moments(sc) \subseteq Moments(sc)'
  <2>1. Len(order[sc]) \in Nat
    BY <1>1
  <2>2. \A k \in 0 .. Len(order[sc]) : After(order'[sc], k) = After(order[sc], k)
    BY <1>2, <2>1 DEF After
  <2>3. QED
    BY <1>2, <2>1, <2>2 DEF Moments
<1>4. \A any \in Scopes : Moments(any) \subseteq Moments(any)'
  BY <1>1, <1>3 DEF Moments
<1>5. QED
  BY <1>1, <1>2, <1>4 DEF Top

LEMMA DueStays ==
    ASSUME TypeOK, NEW sc \in Scopes, NEW e \in Entry,
           order' = [order EXCEPT ![sc] = Append(@, e)],
           NEW r, r.sc \in Scopes, Due(r)
    PROVE  Due(r)'
<1>1. PICK k \in DOMAIN order[r.sc] : TippedBy(r, k)
  BY DEF Due
<1>2. order[r.sc] \in Seq(Entry)
  BY DEF TypeOK
<1>3. /\ k \in DOMAIN order'[r.sc]
      /\ \A j \in 1 .. k : order'[r.sc][j] = order[r.sc][j]
  <2>1. order'[r.sc] = order[r.sc] \/ order'[r.sc] = Append(order[r.sc], e)
    BY DEF TypeOK
  <2>2. QED
    BY <1>2, <2>1
<1>4. k \in 1 .. k /\ \A j \in 1 .. k - 1 : j \in 1 .. k
  BY <1>2
<1>5. TippedBy(r, k)'
  BY <1>1, <1>3, <1>4 DEF TippedBy
<1>6. QED
  BY <1>3, <1>5 DEF Due

\* Steps of statements outside the record change nothing of the argument.
LEMMA OutsideKeeps ==
    ASSUME FireOnceInv, AccountInv, TypeOK',
           UNCHANGED <<copy, snap, todo, scopeVars, order, reports, seen>>,
           \A s \in Statements : InRecord(s) \/ InRecord(s)' => pc'[s] = pc[s],
           \A s \in Statements : pc[s] # "idle" => req'[s] = req[s]
    PROVE  AccountInv'
<1> USE DEF AccountInv, InRecord, DB, Sc, scopeVars
<1>1. ScopeCoherent' /\ HeldByRecorder'
  BY DEF ScopeCoherent, CurrentSnapshot, HeldByRecorder
<1>2. TotalIsCurrent' /\ WholeBeforeFold'
  BY DEF TotalIsCurrent, WholeBeforeFold, CurrentSnapshot
<1>3. HalfFolded' /\ WholeAfterFold'
  BY DEF HalfFolded, WholeAfterFold, CurrentSnapshot
<1>4. PassedHaveFired'
  <2>1. \A sc \in Scopes : HoldsEntry(sc) => HoldsEntry(sc)'
    BY DEF HoldsEntry, HeldByRecorder
  <2>2. QED
    BY <2>1 DEF PassedHaveFired
<1>5. \A s \in Statements : todo[s] # {} => req'[s] = req[s]
  BY DEF FireOnceInv, TodoHasFired
<1>6. TodoIsDue' /\ ReportsWereDue'
  <2>1. \A r : Due(r) => Due(r)'
    BY DEF Due, TippedBy
  <2>2. \A s \in Statements : \A i \in todo[s] : Report(s, i)' = Report(s, i)
    BY <1>5 DEF Report
  <2>3. TodoIsDue'
    BY <2>1, <2>2 DEF TodoIsDue
  <2>4. ReportsWereDue'
    BY <2>1 DEF ReportsWereDue
  <2>5. QED
    BY <2>3, <2>4
<1>7. FiredAreServed' /\ StatsWereCurrent'
  BY <1>5 DEF FiredAreServed, StatsWereCurrent, Moments
<1>8. QED
  BY <1>1, <1>2, <1>3, <1>4, <1>6, <1>7

\* What has fired and was reported is undisturbed by a step within the record.
LEMMA ReportsUndisturbed ==
    ASSUME AccountInv, UNCHANGED <<req, snap, todo, fired, order, reports>>
    PROVE  TodoIsDue' /\ ReportsWereDue' /\ FiredAreServed'
<1> USE DEF AccountInv, DB, Sc
<1>1. /\ \A r : Due(r) => Due(r)'
      /\ \A s \in Statements : \A i \in todo[s] : Report(s, i)' = Report(s, i)
  BY DEF Due, TippedBy, Report
<1>2. TodoIsDue'
  BY <1>1 DEF TodoIsDue
<1>3. ReportsWereDue'
  BY <1>1 DEF ReportsWereDue
<1>4. FiredAreServed'
  BY DEF FiredAreServed
<1>5. QED
  BY <1>2, <1>3, <1>4

LEMMA AcquireKeeps ==
    ASSUME FireOnceInv, AccountInv, TypeOK', NEW st \in Statements, Acquire(st)
    PROVE  AccountInv'
<1> USE DEF AccountInv, InRecord, DB, Sc
<1>0. TypeOK
  BY DEF FireOnceInv
<1>1. /\ Sc(st) \in Scopes /\ mu[Sc(st)] = Nobody /\ pc[st] = "scope"
      /\ mu' = [mu EXCEPT ![Sc(st)] = st]
      /\ pc'[st] = "load"
      /\ \A s \in Statements \ {st} : pc'[s] = pc[s]
      /\ UNCHANGED <<req, copy, snap, todo, total, count, slowest, fired, order,
                     reports, seen>>
  BY <1>0 DEF Acquire, Goto, TypeOK, Request, Contexts, ghostVars
<1>2. st # Nobody
  BY ConstantsAssumption
<1>3. ScopeCoherent' /\ HeldByRecorder'
  BY <1>0, <1>1, <1>2 DEF TypeOK, ScopeCoherent, CurrentSnapshot,
     HeldByRecorder
<1>4. TotalIsCurrent' /\ HalfFolded' /\ WholeAfterFold'
  BY <1>1 DEF TotalIsCurrent, HalfFolded, WholeAfterFold, CurrentSnapshot
<1>5. WholeBeforeFold'
  BY <1>1 DEF WholeBeforeFold, CurrentSnapshot, ScopeCoherent
<1>6. PassedHaveFired'
  <2>1. \A sc \in Scopes : HoldsEntry(sc) => HoldsEntry(sc)'
    BY <1>0, <1>1 DEF HoldsEntry, HeldByRecorder, TypeOK
  <2>2. QED
    BY <1>1, <2>1 DEF PassedHaveFired
<1>7. TodoIsDue' /\ ReportsWereDue' /\ FiredAreServed' /\ StatsWereCurrent'
  BY <1>1, ReportsUndisturbed DEF StatsWereCurrent, Moments
<1>8. QED
  BY <1>3, <1>4, <1>5, <1>6, <1>7

LEMMA LoadKeeps ==
    ASSUME FireOnceInv, AccountInv, TypeOK', NEW st \in Statements, LoadScope(st)
    PROVE  AccountInv'
<1> USE DEF AccountInv, InRecord, DB, Sc
<1>0. TypeOK
  BY DEF FireOnceInv
<1>1. /\ pc[st] = "load" /\ pc'[st] = "fold"
      /\ copy'[st].total = total[Sc(st)]
      /\ \A s \in Statements \ {st} : pc'[s] = pc[s] /\ copy'[s] = copy[s]
      /\ UNCHANGED <<req, snap, todo, mu, total, count, slowest, fired, order,
                     reports, seen>>
  BY <1>0 DEF LoadScope, Goto, TypeOK, scopeVars, ghostVars
<1>2. ScopeCoherent' /\ HeldByRecorder'
  BY <1>1 DEF ScopeCoherent, CurrentSnapshot, HeldByRecorder
<1>3. TotalIsCurrent' /\ HalfFolded' /\ WholeAfterFold' /\ WholeBeforeFold'
  BY <1>1 DEF TotalIsCurrent, HalfFolded, WholeAfterFold, WholeBeforeFold,
     CurrentSnapshot
<1>4. PassedHaveFired'
  <2>1. \A sc \in Scopes : HoldsEntry(sc) => HoldsEntry(sc)'
    BY <1>1 DEF HoldsEntry, HeldByRecorder
  <2>2. QED
    BY <1>1, <2>1 DEF PassedHaveFired
<1>5. TodoIsDue' /\ ReportsWereDue' /\ FiredAreServed' /\ StatsWereCurrent'
  BY <1>1, ReportsUndisturbed DEF StatsWereCurrent, Moments
<1>6. QED
  BY <1>2, <1>3, <1>4, <1>5

LEMMA FoldTotalKeeps ==
    ASSUME FireOnceInv, AccountInv, TypeOK', NEW st \in Statements, FoldTotal(st),
           NEW sc \in Scopes, sc = Sc(st)
    PROVE  AccountInv'
<1> USE DEF AccountInv, InRecord, DB, Sc
<1> DEFINE e == [db |-> DB(st), dur |-> req[st].dur,
                 stats |-> Plus(Latest(order[sc]), req[st].dur)]
<1>0. TypeOK
  BY DEF FireOnceInv
<1>1. /\ sc = Sc(st) /\ sc = Sc(st)' /\ mu[sc] = st
      /\ pc[st] = "fold" /\ pc'[st] = "count"
      /\ \A s \in Statements \ {st} : pc'[s] = pc[s]
      /\ total'[sc] = copy[st].total + req[st].dur
      /\ \A other \in Scopes \ {sc} : total'[other] = total[other]
      /\ order' = [order EXCEPT ![sc] = Append(@, e)]
      /\ UNCHANGED <<req, copy, snap, todo, mu, count, slowest, fired, reports,
                     seen>>
  BY <1>0 DEF FoldTotal, Goto, TypeOK, FireOnceInv, HolderInRecord
<1>2. /\ e \in Entry /\ st # Nobody
      /\ \A s \in Statements \ {st} : InRecord(s) => Sc(s) \in Scopes \ {sc}
  <2>1. DB(st) \in DBs /\ req[st].dur \in Durations /\ order[sc] \in Seq(Entry)
    BY <1>0, <1>1 DEF TypeOK, Request
  <2>2. e \in Entry
    BY <2>1, Folded
  <2>3. QED
    BY <1>1, <2>2, Alone, ConstantsAssumption DEF FireOnceInv, HolderInRecord
<1> HIDE DEF e
<1>3. /\ \A other \in Scopes \ {sc} : order'[other] = order[other]
      /\ Len(order'[sc]) = Len(order[sc]) + 1
      /\ Top(order'[sc]) = e
      /\ order'[sc] # <<>>
      /\ \A k \in 1 .. Len(order[sc]) : order'[sc][k] = order[sc][k]
      /\ \A any \in Scopes : Moments(any) \subseteq Moments(any)'
  BY <1>0, <1>1, <1>2, HistoryGrows
<1>4. ScopeCoherent' /\ HeldByRecorder'
  <2>1. HeldByRecorder'
    BY <1>1, <1>2 DEF HeldByRecorder
  <2>2. ScopeCoherent'
    BY <1>1, <1>2, <1>3 DEF ScopeCoherent, CurrentSnapshot
  <2>3. QED
    BY <2>1, <2>2
<1>5. TotalIsCurrent' /\ WholeBeforeFold' /\ WholeAfterFold'
  <2>1. TotalIsCurrent'
    BY <1>1, <1>2 DEF TotalIsCurrent
  <2>2. WholeBeforeFold'
    BY <1>1, <1>2, <1>3 DEF WholeBeforeFold, CurrentSnapshot
  <2>3. WholeAfterFold'
    <3>1. ASSUME NEW s \in Statements, pc'[s] = "trip"
          PROVE  /\ order'[Sc(s)] # <<>>
                 /\ Top(order'[Sc(s)]) = [db |-> DB(s), dur |-> req[s].dur,
                                          stats |-> CurrentSnapshot(Sc(s))']
      <4>1. pc[s] = "trip" /\ Sc(s) \in Scopes \ {sc}
        BY <1>1, <1>2, <3>1
      <4>2. /\ order'[Sc(s)] = order[Sc(s)]
            /\ CurrentSnapshot(Sc(s))' = CurrentSnapshot(Sc(s))
        BY <1>1, <1>3, <4>1 DEF CurrentSnapshot
      <4>3. QED
        BY <4>1, <4>2 DEF WholeAfterFold
    <3>2. QED
      BY <1>1, <3>1 DEF WholeAfterFold
  <2>4. QED
    BY <2>1, <2>2, <2>3
<1>6. HalfFolded'
  <2>1. Latest(order[sc]) = CurrentSnapshot(sc) /\ copy[st].total = total[sc]
    BY <1>1 DEF WholeBeforeFold, TotalIsCurrent
  <2>2. e = [db |-> DB(st), dur |-> req[st].dur,
             stats |-> [total   |-> total'[sc],
                        count   |-> count[sc] + 1,
                        slowest |-> IF req[st].dur > slowest[sc]
                                    THEN req[st].dur ELSE slowest[sc]]]
    BY <1>1, <2>1 DEF e, Plus, CurrentSnapshot
  <2>3. ASSUME NEW s \in Statements, s # st, pc'[s] = "count"
        PROVE  /\ Sc(s) \in Scopes \ {sc} /\ pc[s] = "count"
               /\ order'[Sc(s)] = order[Sc(s)] /\ total'[Sc(s)] = total[Sc(s)]
    BY <1>1, <1>2, <1>3, <2>3
  <2>4. ASSUME NEW s \in Statements, pc'[s] = "count"
        PROVE  /\ order'[Sc(s)] # <<>>
               /\ Top(order'[Sc(s)]) =
                     [db |-> DB(s), dur |-> req[s].dur,
                      stats |-> [total   |-> total'[Sc(s)],
                                 count   |-> count[Sc(s)] + 1,
                                 slowest |-> IF req[s].dur > slowest[Sc(s)]
                                             THEN req[s].dur ELSE slowest[Sc(s)]]]
    <3>1. CASE s = st
      BY <1>1, <1>3, <2>2, <3>1
    <3>2. CASE s # st
      BY <2>3, <2>4, <3>2 DEF HalfFolded
    <3>3. QED
      BY <3>1, <3>2
  <2>5. QED
    BY <1>1, <2>4 DEF HalfFolded
<1>7. PassedHaveFired'
  <2>1. HoldsEntry(sc)' /\ ~HoldsEntry(sc)
    BY <1>1, <1>2 DEF HoldsEntry
  <2>2. \A other \in Scopes \ {sc} : HoldsEntry(other) => HoldsEntry(other)'
    BY <1>1, <1>2 DEF HoldsEntry, HeldByRecorder
  <2>3. ASSUME NEW other \in Scopes, NEW k \in DOMAIN order'[other],
               NEW i \in Handlers(order'[other][k].db),
               order'[other][k].stats.total >= Thresholds[order'[other][k].db][i]
        PROVE  i \in fired[other] \/ (k = Len(order'[other]) /\ HoldsEntry(other)')
    <3>1. CASE other # sc
      BY <1>3, <2>2, <2>3, <3>1 DEF PassedHaveFired
    <3>2. CASE other = sc
      <4>1. order[sc] \in Seq(Entry) /\ order'[sc] \in Seq(Entry)
        BY <1>0, <1>1 DEF TypeOK
      <4>2. CASE k = Len(order'[sc])
        BY <2>1, <3>2, <4>2
      <4>3. CASE k # Len(order'[sc])
        <5>1. /\ Len(order[sc]) \in Nat /\ DOMAIN order[sc] = 1 .. Len(order[sc])
              /\ DOMAIN order'[sc] = 1 .. Len(order'[sc])
          BY <4>1
        <5>2. k \in DOMAIN order[sc] /\ order'[sc][k] = order[sc][k]
          BY <1>3, <3>2, <4>3, <5>1
        <5>3. QED
          BY <2>1, <2>3, <3>2, <5>2 DEF PassedHaveFired
      <4>4. QED
        BY <4>2, <4>3
    <3>3. QED
      BY <3>1, <3>2
  <2>4. QED
    BY <1>1, <2>3 DEF PassedHaveFired
<1>8. TodoIsDue' /\ ReportsWereDue'
  <2>1. ASSUME NEW r, r.sc \in Scopes, Due(r) PROVE Due(r)'
    BY <1>0, <1>1, <1>2, <2>1, DueStays
  <2>2. ASSUME NEW s \in Statements, NEW i \in todo[s] PROVE Due(Report(s, i))'
    <3>1. Report(s, i).sc \in Scopes /\ Due(Report(s, i))
      BY DEF Report, TodoIsDue, FireOnceInv, TodoHasFired
    <3>2. Report(s, i)' = Report(s, i)
      BY <1>1 DEF Report
    <3>3. QED
      BY <1>0, <1>1, <1>2, <3>1, <3>2, <2>1
  <2>3. \A r \in reports : r.sc \in Scopes
    BY <1>0 DEF TypeOK
  <2>4. QED
    BY <1>1, <2>1, <2>2, <2>3 DEF TodoIsDue, ReportsWereDue
<1>9. FiredAreServed' /\ StatsWereCurrent'
  BY <1>1, <1>3 DEF FiredAreServed, StatsWereCurrent
<1>10. QED
  BY <1>4, <1>5, <1>6, <1>7, <1>8, <1>9

LEMMA FoldCountKeeps ==
    ASSUME FireOnceInv, AccountInv, TypeOK', NEW st \in Statements, FoldCount(st),
           NEW sc \in Scopes, sc = Sc(st)
    PROVE  AccountInv'
<1> USE DEF AccountInv, InRecord, DB, Sc
<1>0. TypeOK
  BY DEF FireOnceInv
<1>1. /\ sc = Sc(st) /\ sc = Sc(st)' /\ mu[sc] = st
      /\ pc[st] = "count" /\ pc'[st] = "trip"
      /\ \A s \in Statements \ {st} : pc'[s] = pc[s]
      /\ count'[sc] = count[sc] + 1
      /\ slowest'[sc] = IF req[st].dur > slowest[sc]
                        THEN req[st].dur ELSE slowest[sc]
      /\ \A other \in Scopes \ {sc} :
            count'[other] = count[other] /\ slowest'[other] = slowest[other]
      /\ UNCHANGED <<req, copy, snap, todo, mu, total, fired, order, reports,
                     seen>>
  BY <1>0 DEF FoldCount, Goto, TypeOK, ghostVars, FireOnceInv, HolderInRecord
<1>2. /\ st # Nobody
      /\ \A s \in Statements \ {st} : InRecord(s) => Sc(s) \in Scopes \ {sc}
  BY <1>1, Alone, ConstantsAssumption DEF FireOnceInv, HolderInRecord
<1>3. ScopeCoherent' /\ HeldByRecorder'
  BY <1>1, <1>2 DEF ScopeCoherent, CurrentSnapshot, HeldByRecorder
<1>4. TotalIsCurrent' /\ WholeBeforeFold' /\ HalfFolded'
  <2>1. TotalIsCurrent'
    BY <1>1, <1>2 DEF TotalIsCurrent
  <2>2. WholeBeforeFold'
    BY <1>1, <1>2 DEF WholeBeforeFold, CurrentSnapshot
  <2>3. HalfFolded'
    BY <1>1, <1>2 DEF HalfFolded
  <2>4. QED
    BY <2>1, <2>2, <2>3
<1>5. WholeAfterFold'
  <2>1. /\ order[sc] # <<>>
        /\ Top(order[sc]) = [db |-> DB(st), dur |-> req[st].dur,
                             stats |-> CurrentSnapshot(sc)']
    BY <1>1 DEF HalfFolded, CurrentSnapshot
  <2>2. ASSUME NEW s \in Statements, s # st, pc'[s] = "trip"
        PROVE  /\ Sc(s) \in Scopes \ {sc} /\ pc[s] = "trip"
               /\ CurrentSnapshot(Sc(s))' = CurrentSnapshot(Sc(s))
    BY <1>1, <1>2, <2>2 DEF CurrentSnapshot
  <2>3. QED
    BY <1>1, <2>1, <2>2 DEF WholeAfterFold
<1>6. PassedHaveFired'
  <2>1. \A any \in Scopes : HoldsEntry(any) => HoldsEntry(any)'
    BY <1>1, <1>2 DEF HoldsEntry, HeldByRecorder
  <2>2. QED
    BY <1>1, <2>1 DEF PassedHaveFired
<1>7. TodoIsDue' /\ ReportsWereDue' /\ FiredAreServed' /\ StatsWereCurrent'
  BY <1>1, ReportsUndisturbed DEF StatsWereCurrent, Moments
<1>8. QED
  BY <1>3, <1>4, <1>5, <1>6, <1>7

LEMMA TripKeeps ==
    ASSUME FireOnceInv, AccountInv, TypeOK', NEW st \in Statements,
           TripHandlers(st), NEW sc \in Scopes, sc = Sc(st)
    PROVE  AccountInv'
<1> USE DEF AccountInv, InRecord, DB, Sc
<1>0. TypeOK
  BY DEF FireOnceInv
<1>1. /\ sc = Sc(st) /\ sc = Sc(st)' /\ mu[sc] = st
      /\ pc[st] = "trip" /\ pc'[st] = "handlers"
      /\ copy[st].fired = fired[sc] /\ todo[st] = {}
      /\ \A s \in Statements \ {st} :
            pc'[s] = pc[s] /\ todo'[s] = todo[s] /\ snap'[s] = snap[s]
      /\ mu'[sc] = Nobody /\ \A other \in Scopes \ {sc} : mu'[other] = mu[other]
      /\ fired'[sc] = fired[sc] \cup Tripped(st)
      /\ \A other \in Scopes \ {sc} : fired'[other] = fired[other]
      /\ todo'[st] = Tripped(st)
      /\ snap'[st] = CurrentSnapshot(sc)
      /\ UNCHANGED <<req, copy, total, count, slowest, order, reports, seen>>
  <2>1. /\ pc[st] = "trip" /\ mu[sc] = st
        /\ copy[st].fired = fired[sc] /\ todo[st] = {}
    BY DEF TripHandlers, FireOnceInv, HolderInRecord, CopyIsCurrent, TodoHasFired
  <2>2. /\ pc' = [pc EXCEPT ![st] = "handlers"]
        /\ mu' = [mu EXCEPT ![sc] = Nobody]
        /\ fired' = [fired EXCEPT ![sc] = fired[sc] \cup Tripped(st)]
        /\ todo' = [todo EXCEPT ![st] = Tripped(st)]
        /\ snap' = [snap EXCEPT ![st] = CurrentSnapshot(sc)]
        /\ UNCHANGED <<req, copy, total, count, slowest, order, reports, seen>>
    BY <2>1 DEF TripHandlers, Goto, ghostVars
  <2>3. QED
    BY <1>0, <2>1, <2>2 DEF TypeOK
<1>2. /\ st # Nobody
      /\ \A s \in Statements \ {st} : InRecord(s) => Sc(s) \in Scopes \ {sc}
  BY <1>1, Alone, ConstantsAssumption DEF FireOnceInv, HolderInRecord
<1>3. /\ order[sc] \in Seq(Entry) /\ order[sc] # <<>>
      /\ Len(order[sc]) \in Nat \ {0} /\ Len(order[sc]) \in DOMAIN order[sc]
      /\ order[sc][Len(order[sc])] = [db |-> DB(st), dur |-> req[st].dur,
                                      stats |-> CurrentSnapshot(sc)]
  <2>1. order[sc] \in Seq(Entry) /\ order[sc] # <<>>
    BY <1>0, <1>1 DEF TypeOK, WholeAfterFold
  <2>2. Len(order[sc]) \in Nat \ {0} /\ Len(order[sc]) \in DOMAIN order[sc]
    BY <2>1
  <2>3. QED
    BY <1>1, <2>1, <2>2 DEF WholeAfterFold, Top
<1>4. ScopeCoherent' /\ HeldByRecorder'
  <2>1. CurrentSnapshot(sc) = Latest(order[sc])
    BY <1>3 DEF Latest, After
  <2>2. QED
    BY <1>1, <1>2, <2>1 DEF ScopeCoherent, CurrentSnapshot, HeldByRecorder
<1>5. TotalIsCurrent' /\ WholeBeforeFold' /\ HalfFolded' /\ WholeAfterFold'
  BY <1>1, <1>2 DEF TotalIsCurrent, WholeBeforeFold, HalfFolded,
     WholeAfterFold, CurrentSnapshot
<1>6. PassedHaveFired'
  <2>1. \A other \in Scopes \ {sc} : HoldsEntry(other) => HoldsEntry(other)'
    BY <1>1, <1>2 DEF HoldsEntry, HeldByRecorder
  <2>2. ASSUME NEW k \in DOMAIN order[sc], NEW i \in Handlers(order[sc][k].db),
               order[sc][k].stats.total >= Thresholds[order[sc][k].db][i]
        PROVE  i \in fired'[sc]
    <3>1. CASE k = Len(order[sc]) /\ i \notin fired[sc]
      <4>1. /\ order[sc][k].db = DB(st)
            /\ order[sc][k].stats.total = total[sc]
        BY <1>3, <3>1 DEF CurrentSnapshot
      <4>2. i \in Tripped(st)
        BY <1>1, <2>2, <3>1, <4>1 DEF Tripped
      <4>3. QED
        BY <1>1, <4>2
    <3>2. CASE ~(k = Len(order[sc]) /\ i \notin fired[sc])
      BY <1>1, <2>2, <3>2 DEF PassedHaveFired
    <3>3. QED
      BY <3>1, <3>2
  <2>3. QED
    BY <1>1, <2>1, <2>2 DEF PassedHaveFired
<1>7. TodoIsDue' /\ ReportsWereDue'
  <2>1. \A r : Due(r) => Due(r)'
    BY <1>1 DEF Due, TippedBy
  <2>2. ASSUME NEW i \in Tripped(st) PROVE Due(Report(st, i)')
    <3>1. /\ i \in Handlers(DB(st)) /\ i \notin fired[sc]
          /\ total[sc] >= Thresholds[DB(st)][i]
      BY <1>1 DEF Tripped
    <3>2. ASSUME NEW j \in 1 .. Len(order[sc]) - 1, order[sc][j].db = DB(st)
          PROVE  order[sc][j].stats.total < Thresholds[DB(st)][i]
      <4>1. j \in DOMAIN order[sc] /\ j # Len(order[sc])
        BY <1>3
      <4>2. ~(order[sc][j].stats.total >= Thresholds[DB(st)][i])
        BY <3>1, <3>2, <4>1 DEF PassedHaveFired
      <4>3. /\ order[sc][j].stats.total \in Nat
            /\ Thresholds[DB(st)][i] \in Nat
        <5>1. order[sc][j] \in Entry
          BY <1>3, <4>1
        <5>2. order[sc][j].stats.total \in Nat
          BY <5>1 DEF Entry, Snapshot
        <5>3. DB(st) \in DBs
          BY <1>0 DEF TypeOK, Request
        <5>4. QED
          BY <3>1, <5>2, <5>3, ConstantsAssumption DEF Handlers
      <4>4. QED
        BY <4>2, <4>3
    <3>3. Report(st, i)' = [sc |-> sc, db |-> DB(st), handler |-> i,
                            dur |-> req[st].dur, stats |-> CurrentSnapshot(sc)]
      BY <1>1 DEF Report
    <3>4. ASSUME NEW r, r = Report(st, i)' PROVE Due(r)
      <4>1. /\ r.sc = sc /\ r.db = DB(st) /\ r.handler = i
            /\ r.dur = req[st].dur /\ r.stats = CurrentSnapshot(sc)
        BY <3>3, <3>4
      <4>2. r.stats.total = total[sc]
        BY <4>1 DEF CurrentSnapshot
      <4>3. TippedBy(r, Len(order[sc]))
        BY <1>3, <3>1, <3>2, <4>1, <4>2 DEF TippedBy
      <4>4. QED
        BY <1>3, <3>1, <4>1, <4>3 DEF Due
    <3>5. QED
      BY <3>4
  <2>3. \A s \in Statements \ {st} : \A i \in todo[s] :
            Report(s, i)' = Report(s, i)
    BY <1>1 DEF Report
  <2>4. TodoIsDue'
    <3>1. ASSUME NEW s \in Statements, NEW i \in todo'[s]
          PROVE  Due(Report(s, i))'
      <4>1. CASE s = st
        BY <1>1, <2>1, <2>2, <3>1, <4>1
      <4>2. CASE s # st
        BY <1>1, <2>1, <2>3, <3>1, <4>2 DEF TodoIsDue
      <4>3. QED
        BY <4>1, <4>2
    <3>2. QED
      BY <3>1 DEF TodoIsDue
  <2>5. ReportsWereDue'
    BY <1>1, <2>1 DEF ReportsWereDue
  <2>6. QED
    BY <2>4, <2>5
<1>8. FiredAreServed'
  <2>1. ASSUME NEW other \in Scopes, NEW i \in fired[other]
        PROVE  \/ \E r \in reports : r.sc = other /\ r.handler = i
               \/ \E s \in Statements : Sc(s) = other /\ i \in todo'[s]
    BY <1>1 DEF FiredAreServed
  <2>2. \A i \in Tripped(st) :
            \E s \in Statements : Sc(s) = sc /\ i \in todo'[s]
    BY <1>1
  <2>3. QED
    BY <1>1, <2>1, <2>2 DEF FiredAreServed
<1>9. StatsWereCurrent'
  BY <1>1 DEF StatsWereCurrent, Moments
<1>10. QED
  BY <1>4, <1>5, <1>6, <1>7, <1>8, <1>9

LEMMA HandlerEndsKeeps ==
    ASSUME FireOnceInv, AccountInv, TypeOK', NEW st \in Statements,
           NEW i \in todo[st], HandlerEnds(st, i)
    PROVE  AccountInv'
<1> USE DEF AccountInv, InRecord, DB, Sc
<1>0. TypeOK
  BY DEF FireOnceInv
<1>1. /\ reports' = reports \cup {Report(st, i)}
      /\ todo'[st] = todo[st] \ {i}
      /\ \A s \in Statements \ {st} : todo'[s] = todo[s]
      /\ UNCHANGED <<pc, req, copy, snap, scopeVars, order, seen>>
  BY <1>0 DEF HandlerEnds, TypeOK
<1>2. ScopeCoherent' /\ HeldByRecorder' /\ StatsWereCurrent'
  BY <1>1 DEF ScopeCoherent, CurrentSnapshot, HeldByRecorder, StatsWereCurrent,
     Moments, scopeVars
<1>3. TotalIsCurrent' /\ WholeBeforeFold' /\ HalfFolded' /\ WholeAfterFold'
  BY <1>1 DEF TotalIsCurrent, WholeBeforeFold, HalfFolded,
     WholeAfterFold, CurrentSnapshot, scopeVars
<1>4. PassedHaveFired'
  BY <1>1 DEF PassedHaveFired, HoldsEntry, scopeVars
<1>5. TodoIsDue' /\ ReportsWereDue'
  <2>1. \A r : Due(r) => Due(r)'
    BY <1>1 DEF Due, TippedBy
  <2>2. \A s \in Statements : \A j \in todo'[s] :
            j \in todo[s] /\ Report(s, j)' = Report(s, j)
    BY <1>1 DEF Report
  <2>3. TodoIsDue'
    BY <2>1, <2>2 DEF TodoIsDue
  <2>4. ReportsWereDue'
    BY <1>1, <2>1 DEF ReportsWereDue, TodoIsDue
  <2>5. QED
    BY <2>3, <2>4
<1>6. FiredAreServed'
  <2>1. ASSUME NEW sc \in Scopes, NEW j \in fired[sc]
        PROVE  \/ \E r \in reports' : r.sc = sc /\ r.handler = j
               \/ \E s \in Statements : Sc(s) = sc /\ j \in todo'[s]
    <3>1. CASE \E r \in reports : r.sc = sc /\ r.handler = j
      BY <1>1, <3>1
    <3>2. CASE \E s \in Statements : Sc(s) = sc /\ j \in todo[s]
      <4>1. PICK s \in Statements : Sc(s) = sc /\ j \in todo[s]
        BY <3>2
      <4>2. CASE s = st /\ j = i
        <5>1. Report(st, i).sc = sc /\ Report(st, i).handler = j
          BY <4>1, <4>2 DEF Report
        <5>2. QED
          BY <1>1, <5>1
      <4>3. CASE ~(s = st /\ j = i)
        <5>1. j \in todo'[s]
          BY <1>1, <4>1, <4>3
        <5>2. QED
          BY <4>1, <5>1
      <4>4. QED
        BY <4>2, <4>3
    <3>3. QED
      BY <3>1, <3>2 DEF FiredAreServed
  <2>2. QED
    BY <1>1, <2>1 DEF FiredAreServed, scopeVars
<1>7. QED
  BY <1>2, <1>3, <1>4, <1>5, <1>6

LEMMA StatsKeeps ==
    ASSUME FireOnceInv, AccountInv, NEW sc \in Scopes, Stats(sc)
    PROVE  AccountInv'
<1> USE DEF AccountInv, InRecord, DB, Sc
<1>1. /\ mu[sc] = Nobody /\ seen' = [seen EXCEPT ![sc] = CurrentSnapshot(sc)]
      /\ UNCHANGED <<pc, req, copy, snap, todo, mu, total, count, slowest,
                     fired, order, reports>>
  BY DEF Stats, stmtVars, scopeVars
<1>2. StatsWereCurrent'
  <2>1. order[sc] \in Seq(Entry) /\ seen \in [Scopes -> Snapshot]
    BY DEF FireOnceInv, TypeOK
  <2>2. Latest(order[sc]) \in Moments(sc)
    <3>1. Len(order[sc]) \in 0 .. Len(order[sc])
      BY <2>1
    <3>2. QED
      BY <3>1 DEF Latest, Moments
  <2>3. QED
    BY <1>1, <2>1, <2>2 DEF StatsWereCurrent, ScopeCoherent, Moments
<1>3. ScopeCoherent' /\ HeldByRecorder'
  BY <1>1 DEF ScopeCoherent, CurrentSnapshot, HeldByRecorder
<1>4. TotalIsCurrent' /\ WholeBeforeFold' /\ HalfFolded' /\ WholeAfterFold'
  BY <1>1 DEF TotalIsCurrent, WholeBeforeFold, HalfFolded,
     WholeAfterFold, CurrentSnapshot
<1>5. PassedHaveFired' /\ TodoIsDue' /\ ReportsWereDue' /\ FiredAreServed'
  BY <1>1, ReportsUndisturbed DEF PassedHaveFired, HoldsEntry
<1>6. QED
  BY <1>2, <1>3, <1>4, <1>5

LEMMA NextAccount == FireOnceInv /\ AccountInv /\ [Next]_vars => AccountInv'
<1> SUFFICES ASSUME FireOnceInv, AccountInv, [Next]_vars PROVE AccountInv'
  OBVIOUS
<1>0. TypeOK /\ TypeOK'
  BY NextTypeOK DEF FireOnceInv
<1>1. ASSUME NEW st \in Statements, NEW r, Issue(st, r),
             UNCHANGED <<copy, snap, todo, scopeVars, order, reports, seen>>
      PROVE  AccountInv'
  <2>1. /\ \A s \in Statements :
              InRecord(s) \/ InRecord(s)' => pc'[s] = pc[s]
        /\ \A s \in Statements : pc[s] # "idle" => req'[s] = req[s]
    BY <1>0, <1>1 DEF Issue, Goto, InRecord, TypeOK
  <2>2. QED
    BY <1>0, <1>1, <2>1, OutsideKeeps
<1>2. ASSUME NEW st \in Statements, Emit(st)
      PROVE  AccountInv'
  <2>1. CASE AddNanos(st) \/ AddCount(st) \/ NoScope(st) \/ HandlersDone(st)
             \/ Listen(st)
    <3>1. UNCHANGED <<req, copy, snap, todo, scopeVars, order, reports, seen>>
      BY <2>1 DEF AddNanos, AddCount, NoScope, HandlersDone, Listen, ghostVars
    <3>2. /\ pc' \in [Statements -> Phases] /\ ~InRecord(st) /\ ~InRecord(st)'
          /\ \A s \in Statements \ {st} : pc'[s] = pc[s]
      <4>1. ~InRecord(st) /\ \E w \in {"addCount", "scope", "listen", "done"} :
                                pc' = [pc EXCEPT ![st] = w]
        <5>1. CASE AddNanos(st) \/ AddCount(st)
          BY <5>1 DEF AddNanos, AddCount, Goto, InRecord
        <5>2. CASE NoScope(st) \/ HandlersDone(st) \/ Listen(st)
          BY <5>2 DEF NoScope, HandlersDone, Listen, Goto, InRecord
        <5>3. QED
          BY <2>1, <5>1, <5>2
      <4>2. QED
        BY <1>0, <4>1 DEF InRecord, TypeOK
    <3>3. \A s \in Statements : InRecord(s) \/ InRecord(s)' => pc'[s] = pc[s]
      BY <3>2
    <3>4. QED
      BY <1>0, <3>1, <3>3, OutsideKeeps
  <2>2. CASE Acquire(st)
    BY <1>0, <2>2, AcquireKeeps
  <2>3. CASE LoadScope(st)
    BY <1>0, <2>3, LoadKeeps
  <2>4. ASSUME InRecord(st) PROVE Sc(st) \in Scopes
    BY <2>4 DEF FireOnceInv, HolderInRecord
  <2>5. CASE FoldTotal(st)
    <3>1. InRecord(st)
      BY <2>5 DEF FoldTotal, InRecord
    <3>2. QED
      BY <1>0, <2>4, <2>5, <3>1, FoldTotalKeeps
  <2>6. CASE FoldCount(st)
    <3>1. InRecord(st)
      BY <2>6 DEF FoldCount, InRecord
    <3>2. QED
      BY <1>0, <2>4, <2>6, <3>1, FoldCountKeeps
  <2>7. CASE TripHandlers(st)
    <3>1. InRecord(st)
      BY <2>7 DEF TripHandlers, InRecord
    <3>2. QED
      BY <1>0, <2>4, <2>7, <3>1, TripKeeps
  <2>8. ASSUME NEW i \in todo[st], HandlerEnds(st, i)
        PROVE  AccountInv'
    BY <1>0, <2>8, HandlerEndsKeeps
  <2>9. QED
    BY <1>2, <2>1, <2>2, <2>3, <2>5, <2>6, <2>7, <2>8 DEF Emit
<1>3. ASSUME NEW sc \in Scopes, Stats(sc)
      PROVE  AccountInv'
  BY <1>3, StatsKeeps
<1>4. CASE UNCHANGED vars \/ \E db \in DBs : ResetNanos(db) \/ ResetCount(db)
  <2>1. UNCHANGED <<pc, req, copy, snap, todo, scopeVars, order, reports, seen>>
    BY <1>4 DEF vars, ResetNanos, ResetCount, stmtVars, ghostVars
  <2>2. QED
    BY <1>0, <2>1, OutsideKeeps
<1>5. ASSUME NEW st \in Statements, NEW r \in Sends[st], Send(st, r)
      PROVE  AccountInv'
  BY <1>1, <1>5 DEF Send, ghostVars
<1>6. ASSUME NEW st \in Statements, NEW inner \in Statements,
             NEW dur \in Durations, NEW i \in todo[st],
             HandlerQueries(st, i, inner, dur)
      PROVE  AccountInv'
  BY <1>1, <1>6 DEF HandlerQueries, ghostVars
<1>7. QED
  BY <1>2, <1>3, <1>4, <1>5, <1>6 DEF Next

LEMMA AccountCorrect == Spec => [](FireOnceInv /\ AccountInv)
<1>1. Init => FireOnceInv /\ AccountInv
  BY InitFireOnce, InitAccount
<1>2. FireOnceInv /\ AccountInv /\ [Next]_vars => (FireOnceInv /\ AccountInv)'
  BY NextFireOnce, NextAccount
<1>3. QED
  BY <1>1, <1>2, PTL DEF Spec

\* However the goroutines of a scope interleave, its total, count and slowest
\* lose no update: whenever its mutex is free they are those of its statements
\* (querystats.go: "Total, Count and Slowest have to advance together").
THEOREM NothingLost == Spec => []ScopeCoherent
BY AccountCorrect, PTL DEF AccountInv

\* A handler is told of the statement that tipped the scope over, with the
\* scope's stats at that moment, whatever other statements the scope has going
\* and whichever DBs share it.
THEOREM TippingReported == Spec => []TippingStatementReported
<1>1. AccountInv => TippingStatementReported
  BY DEF AccountInv, ReportsWereDue, Due, TippingStatementReported
<1>2. QED
  BY <1>1, AccountCorrect, PTL

\* What Stats and the handlers get is the scope between two statements, never
\* one that was only half added.
THEOREM SnapshotsWhole == Spec => []SnapshotsCoherent
<1>1. ASSUME FireOnceInv, AccountInv PROVE SnapshotsCoherent
  <2>1. ASSUME NEW r \in reports PROVE r.stats \in Moments(r.sc)
    <3>1. PICK k \in DOMAIN order[r.sc] : TippedBy(r, k)
      BY <1>1, <2>1 DEF AccountInv, ReportsWereDue, Due
    <3>2. order[r.sc] \in Seq(Entry)
      BY <1>1, <2>1 DEF FireOnceInv, TypeOK
    <3>3. k \in 0 .. Len(order[r.sc]) /\ k # 0
      BY <3>2
    <3>4. r.stats = After(order[r.sc], k)
      BY <3>1, <3>3 DEF TippedBy, After
    <3>5. QED
      BY <3>3, <3>4 DEF Moments
  <2>2. QED
    BY <1>1, <2>1 DEF AccountInv, StatsWereCurrent, SnapshotsCoherent
<1>2. QED
  BY <1>1, AccountCorrect, PTL

\* One DB at most has handlers.  fired is keyed by the index of a handler in
\* its own DB, so the handlers of two DBs that share a scope are mistaken for
\* each other.
OneDBHasHandlers ==
    \A db1, db2 \in DBs :
        Handlers(db1) # {} /\ Handlers(db2) # {} => db1 = db2

\* No handler that is due is missed: when the statements of a scope are over,
\* each handler whose threshold one of them took the scope over was called,
\* where the scope is not shared by two DBs that have handlers.
THEOREM DueHandlersHaveFired ==
    ASSUME OneDBHasHandlers
    PROVE  Spec => []DueHandlersFire
<1>1. ASSUME FireOnceInv, AccountInv PROVE DueHandlersFire
  <2>1. SUFFICES ASSUME NEW sc \in Scopes, ~Active(sc),
                        NEW k \in 1 .. Len(order[sc]),
                        NEW i \in Handlers(order[sc][k].db),
                        order[sc][k].stats.total
                            > Thresholds[order[sc][k].db][i]
                 PROVE  \E r \in reports : /\ r.sc = sc
                                           /\ r.db = order[sc][k].db
                                           /\ r.handler = i
    BY DEF DueHandlersFire
  <2>2. /\ order[sc] \in Seq(Entry) /\ k \in DOMAIN order[sc]
        /\ order[sc][k].db \in DBs
    <3>1. order[sc] \in Seq(Entry)
      BY <1>1 DEF FireOnceInv, TypeOK
    <3>2. k \in DOMAIN order[sc] /\ order[sc][k] \in Entry
      BY <3>1
    <3>3. QED
      BY <3>1, <3>2 DEF Entry
  <2>3. \A st \in Statements :
            Sc(st) = sc => ~InRecord(st) /\ todo[st] = {}
    BY <1>1, <2>1 DEF Active, InRecord, FireOnceInv, TodoHasFired
  <2>4. mu[sc] = Nobody
    BY <1>1, <2>3 DEF AccountInv, HeldByRecorder
  <2>5. i \in fired[sc]
    <3>1. order[sc][k].stats.total >= Thresholds[order[sc][k].db][i]
      <4>1. order[sc][k].stats.total \in Nat
        <5>1. order[sc][k] \in Entry
          BY <2>2
        <5> QED  BY <5>1 DEF Entry, Snapshot
      <4>2. Thresholds[order[sc][k].db][i] \in Nat
        BY <2>1, <2>2, ConstantsAssumption DEF Handlers
      <4> QED  BY <2>1, <4>1, <4>2
    <3> QED  BY <1>1, <2>1, <2>2, <2>4, <3>1
             DEF AccountInv, PassedHaveFired, HoldsEntry
  <2>6. PICK r \in reports : r.sc = sc /\ r.handler = i
    BY <1>1, <2>3, <2>5 DEF AccountInv, FiredAreServed
  <2>7. r.db \in DBs /\ r.handler \in Handlers(r.db)
    BY <1>1, <2>6 DEF AccountInv, ReportsWereDue, Due, FireOnceInv, TypeOK
  <2>8. r.db = order[sc][k].db
    BY <2>2, <2>6, <2>7 DEF OneDBHasHandlers
  <2>9. QED
    BY <2>6, <2>8
<1>2. QED
  BY <1>1, AccountCorrect, PTL
-----------------------------------------------------------------------------
(***************************************************************************)
(* The lifetime counters.                                                  *)
(***************************************************************************)
CallsCounted ==
    /\ \A db \in DBs : resets[db] => db \in Resetting
    /\ \A db \in DBs \ Resetting :
          IsFiniteSet(Past(db)) /\ calls[db] = Cardinality(Past(db))

\* What LifetimeTotals says of the counter, at every moment: it is the number of
\* statements that are past it.
LifetimeCalls ==
    \A db \in DBs \ Resetting : calls[db] = Cardinality(Past(db))

\* Who does not pass the counter changes nothing.
LEMMA NobodyPasses ==
    ASSUME CallsCounted, UNCHANGED <<calls, resets>>,
           \A db \in DBs : Past(db)' = Past(db)
    PROVE  CallsCounted'
BY DEF CallsCounted

LEMMA NextCounted == TypeOK /\ CallsCounted /\ [Next]_vars => CallsCounted'
<1> SUFFICES ASSUME TypeOK, CallsCounted, [Next]_vars PROVE CallsCounted'
  OBVIOUS
<1> DEFINE Passed(st) == pc[st] \notin {"idle", "emit", "addCount"}
<1>1. ASSUME NEW st \in Statements, NEW r, Issue(st, r),
             UNCHANGED <<calls, resets>>
      PROVE  CallsCounted'
  <2>1. ~Passed(st) /\ ~Passed(st)'
    BY <1>1 DEF Issue, Goto, TypeOK
  <2>2. \A s \in Statements \ {st} : pc'[s] = pc[s] /\ req'[s] = req[s]
    BY <1>1 DEF Issue, Goto, TypeOK
  <2>3. \A db \in DBs : Past(db)' = Past(db)
    BY <2>1, <2>2 DEF Past, DB
  <2>4. QED
    BY <1>1, <2>3, NobodyPasses
<1>2. ASSUME NEW st \in Statements, Emit(st) PROVE CallsCounted'
  <2>1. CASE AddCount(st)
    <3>1. /\ pc[st] = "addCount" /\ pc' = [pc EXCEPT ![st] = "scope"]
          /\ UNCHANGED <<req, resets>> /\ DB(st) \in DBs
      BY <2>1 DEF AddCount, Goto, TypeOK, DB, Request
    <3>2. Passed(st)' /\ ~Passed(st)
          /\ \A s \in Statements \ {st} : Passed(s)' <=> Passed(s)
      BY <3>1 DEF TypeOK
    <3>3. PICK d \in DBs : d = DB(st)
      BY <3>1
    <3>4. \A s \in Statements : DB(s)' = DB(s)
      BY <3>1 DEF DB
    <3>5. ASSUME NEW db \in DBs \ Resetting, db # d
          PROVE  IsFiniteSet(Past(db)') /\ calls'[db] = Cardinality(Past(db)')
      <4>1. \A s \in Statements : DB(s) = db => s # st
        BY <3>3, <3>5
      <4>2. Past(db)' = Past(db)
        BY <3>2, <3>4, <4>1 DEF Past
      <4>3. calls'[db] = calls[db]
        BY <2>1, <3>3, <3>5 DEF AddCount, TypeOK
      <4>4. QED
        BY <4>2, <4>3 DEF CallsCounted
    <3>6. ASSUME d \notin Resetting
          PROVE  IsFiniteSet(Past(d)') /\ calls'[d] = Cardinality(Past(d)')
      <4>1. Past(d)' = Past(d) \cup {st} /\ st \notin Past(d)
        BY <3>2, <3>3, <3>4 DEF Past
      <4>2. calls'[d] = calls[d] + 1
        BY <2>1, <3>3 DEF AddCount, TypeOK
      <4>3. IsFiniteSet(Past(d)) /\ calls[d] = Cardinality(Past(d))
        BY <3>6 DEF CallsCounted
      <4>4. QED
        BY <4>1, <4>2, <4>3, FS_AddElement
    <3>7. QED
      BY <3>1, <3>5, <3>6 DEF CallsCounted
  <2>2. CASE ~AddCount(st)
    <3>1. UNCHANGED <<calls, resets, req>>
      BY <1>2, <2>2 DEF Emit, AddNanos, NoScope, Acquire, LoadScope, FoldTotal,
         FoldCount, TripHandlers, HandlerEnds, HandlersDone, Listen, dbVars
    <3>2. \/ pc' = pc
          \/ /\ pc[st] = "emit" /\ pc' = [pc EXCEPT ![st] = "addCount"]
          \/ /\ pc[st] \in {"scope", "load", "fold", "count", "trip",
                            "handlers", "listen"}
             /\ \E w \in {"load", "fold", "count", "trip", "handlers",
                          "listen", "done"} : pc' = [pc EXCEPT ![st] = w]
      BY <1>2, <2>2 DEF Emit, AddNanos, NoScope, Acquire, LoadScope, FoldTotal,
         FoldCount, TripHandlers, HandlerEnds, HandlersDone, Listen, Goto
    <3>3. \A s \in Statements : Passed(s)' <=> Passed(s)
      BY <3>2 DEF TypeOK
    <3>4. \A db \in DBs : Past(db)' = Past(db)
      BY <3>1, <3>3 DEF Past, DB
    <3>5. QED
      BY <3>1, <3>4, NobodyPasses
  <2>3. QED
    BY <2>1, <2>2
<1>3. ASSUME NEW sc \in Scopes, Stats(sc) PROVE CallsCounted'
  <2>1. UNCHANGED <<pc, req, calls, resets>>
    BY <1>3 DEF Stats, stmtVars, dbVars
  <2>2. QED
    BY <2>1, NobodyPasses DEF Past, DB
<1>4. ASSUME NEW db \in DBs, ResetNanos(db) \/ ResetCount(db)
      PROVE  CallsCounted'
  <2>1. UNCHANGED <<pc, req>> /\ db \in Resetting
    BY <1>4 DEF ResetNanos, ResetCount, stmtVars, CallsCounted
  <2>2. \A d \in DBs : Past(d)' = Past(d)
    BY <2>1 DEF Past, DB
  <2>3. \A d \in DBs \ {db} : calls'[d] = calls[d] /\ resets'[d] = resets[d]
    BY <1>4 DEF ResetNanos, ResetCount, TypeOK
  <2>4. QED
    BY <2>1, <2>2, <2>3 DEF CallsCounted
<1>5. CASE UNCHANGED vars
  BY <1>5, NobodyPasses DEF vars, stmtVars, dbVars, Past, DB
<1>6. ASSUME NEW st \in Statements, NEW r \in Sends[st], Send(st, r)
      PROVE  CallsCounted'
  BY <1>1, <1>6 DEF Send, dbVars
<1>7. ASSUME NEW st \in Statements, NEW inner \in Statements,
             NEW dur \in Durations, NEW i \in todo[st],
             HandlerQueries(st, i, inner, dur)
      PROVE  CallsCounted'
  BY <1>1, <1>7 DEF HandlerQueries, dbVars
<1>8. QED
  BY <1>2, <1>3, <1>4, <1>5, <1>6, <1>7 DEF Next

\* The lifetime counter of a DB that is never reset has counted every statement
\* that ran on it, tracked or not, however they interleave with one another and
\* with resets of other DBs (querystats.go: "counts every statement a connection
\* runs").
THEOREM EveryStatementCounted == Spec => []LifetimeCalls
<1>1. Init => CallsCounted
  <2>1. ASSUME Init PROVE \A db \in DBs : Past(db) = {} /\ ~resets[db] /\ calls[db] = 0
    BY <2>1 DEF Init, Past
  <2>2. QED
    BY <2>1, FS_EmptySet DEF CallsCounted
<1>2. CallsCounted => LifetimeCalls
  BY DEF CallsCounted, LifetimeCalls
<1>3. QED
  BY <1>1, <1>2, InitTypeOK, NextTypeOK, NextCounted, PTL DEF Spec

-----------------------------------------------------------------------------
(***************************************************************************)
(* Sums over finite sets.  SumFunction takes the elements one by one, in   *)
(* an order nothing is known of; what it returns does not depend on it.    *)
(***************************************************************************)
Any(s) == CHOOSE x \in s : TRUE

\* One step of the sum of fun over s, from g, which sums over what is left.
Added(g, fun, s) == IF s = {} THEN 0 ELSE fun[Any(s)] + g[s \ {Any(s)}]

\* g sums fun over every subset of S.
Sums(g, fun, S) == g = [s \in SUBSET S |-> Added(g, fun, s)]

\* The same, for the subsets of at most n elements.
Small(S, n)        == {s \in SUBSET S : Cardinality(s) <= n}
SumsTo(g, fun, S, n) == g = [s \in Small(S, n) |-> Added(g, fun, s)]

\* Induction, for a set of numbers.
LEMMA AllNumbers ==
    ASSUME NEW T, 0 \in T, \A n \in Nat : n \in T => n + 1 \in T
    PROVE  \A n \in Nat : n \in T
<1> SUFFICES ASSUME NEW k \in Nat, k \notin T PROVE FALSE
  OBVIOUS
<1> DEFINE Out == {n \in Nat : n \notin T}
<1>1. \E n \in Out : \A m \in Out : ~ (<<m, n>> \in OpToRel(<, Nat))
  <2>1. Out # {} /\ Out \subseteq Nat
    OBVIOUS
  <2> HIDE DEF Out
  <2> QED  BY <2>1, NatLessThanWellFounded, WFMin, Zenon
<1>2. PICK n \in Out : \A m \in Out : ~(m < n)
  <2> HIDE DEF Out
  <2>1. Out \subseteq Nat
    BY DEF Out
  <2> QED  BY <1>1, <2>1, Zenon DEF OpToRel
<1>3. n # 0 /\ n - 1 \in Nat /\ n - 1 \notin Out
  BY <1>2
<1> QED  BY <1>2, <1>3

LEMMA Smaller ==
    ASSUME NEW S, IsFiniteSet(S), S # {}
    PROVE  /\ Any(S) \in S /\ IsFiniteSet(S \ {Any(S)})
           /\ Cardinality(S) \in Nat /\ Cardinality(S) # 0
           /\ Cardinality(S \ {Any(S)}) = Cardinality(S) - 1
<1>1. Any(S) \in S
  BY DEF Any
<1>2. Cardinality(S) \in Nat /\ Cardinality(S) # 0
  BY FS_CardinalityType, FS_EmptySet
<1> QED  BY <1>1, <1>2, FS_RemoveElement

LEMMA OneLess ==
    ASSUME NEW S, IsFiniteSet(S), NEW n \in Nat, Cardinality(S) = n + 1
    PROVE  /\ S # {} /\ Any(S) \in S
           /\ \A x \in S : Cardinality(S \ {x}) = n
<1>1. S # {}
  <2>1. n + 1 # 0
    OBVIOUS
  <2> QED  BY <2>1, FS_EmptySet, Zenon
<1>2. ASSUME NEW x \in S PROVE Cardinality(S \ {x}) = n
  <2>1. Cardinality(S \ {x}) = Cardinality(S) - 1
    BY FS_RemoveElement
  <2> QED  BY <2>1
<1> QED  BY <1>1, <1>2, Smaller

LEMMA SumsToExists ==
    ASSUME NEW fun, NEW S, IsFiniteSet(S)
    PROVE  \A n \in Nat : \E g : SumsTo(g, fun, S, n)
<1> DEFINE T == {n \in Nat : \E g : SumsTo(g, fun, S, n)}
<1>1. \A s \in SUBSET S : IsFiniteSet(s) /\ Cardinality(s) \in Nat
  BY FS_Subset, FS_CardinalityType
<1>2. 0 \in T
  <2> DEFINE g == [s \in Small(S, 0) |-> 0]
  <2>1. \A s \in Small(S, 0) : s = {}
    BY <1>1, FS_EmptySet DEF Small
  <2>2. \A s \in Small(S, 0) : Added(g, fun, s) = 0
    BY <2>1 DEF Added
  <2>3. g = [s \in Small(S, 0) |-> Added(g, fun, s)]
    BY <2>2, Zenon
  <2>4. \E h : SumsTo(h, fun, S, 0)
    BY <2>3, Zenon DEF SumsTo
  <2> QED  BY <2>4
<1>3. ASSUME NEW n \in Nat, n \in T PROVE n + 1 \in T
  <2>1. PICK g : SumsTo(g, fun, S, n)
    BY <1>3
  <2> DEFINE h == [s \in Small(S, n + 1) |-> Added(g, fun, s)]
  <2>2. \A s \in Small(S, n) : g[s] = Added(g, fun, s)
    BY <2>1, Zenon DEF SumsTo
  <2>3. ASSUME NEW s \in Small(S, n + 1)
        PROVE  Added(g, fun, s) = Added(h, fun, s)
    <3>1. CASE s = {}
      BY <3>1 DEF Added
    <3>2. CASE s # {}
      <4> DEFINE t == s \ {Any(s)}
      <4>1. t \in Small(S, n) /\ t \in Small(S, n + 1)
        <5>1. s \in SUBSET S /\ Cardinality(s) <= n + 1
          BY DEF Small
        <5>2. Cardinality(t) = Cardinality(s) - 1 /\ Cardinality(s) \in Nat
          BY <1>1, <3>2, <5>1, Smaller
        <5>3. t \in SUBSET S
          BY <5>1
        <5> HIDE DEF t
        <5> QED  BY <5>1, <5>2, <5>3 DEF Small
      <4>2. h[t] = Added(g, fun, t)
        BY <4>1, Zenon
      <4>3. h[t] = g[t]
        BY <2>2, <4>1, <4>2, Zenon
      <4> QED  BY <3>2, <4>3, Zenon DEF Added
    <3> QED  BY <3>1, <3>2
  <2>4. h = [s \in Small(S, n + 1) |-> Added(h, fun, s)]
    BY <2>3, Zenon
  <2>5. \E f : SumsTo(f, fun, S, n + 1)
    BY <2>4, Zenon DEF SumsTo
  <2> QED  BY <2>5
<1> HIDE DEF T
<1>4. \A n \in Nat : n \in T
  BY <1>2, <1>3, AllNumbers
<1> QED  BY <1>4 DEF T

LEMMA SumsExists ==
    ASSUME NEW fun, NEW S, IsFiniteSet(S)
    PROVE  \E g : Sums(g, fun, S)
<1>1. Cardinality(S) \in Nat
  BY FS_CardinalityType
<1>2. PICK g : SumsTo(g, fun, S, Cardinality(S))
  BY <1>1, SumsToExists
<1>3. Small(S, Cardinality(S)) = SUBSET S
  <2>1. \A s \in SUBSET S : Cardinality(s) <= Cardinality(S)
    BY FS_Subset
  <2> QED  BY <2>1 DEF Small
<1>4. Sums(g, fun, S)
  BY <1>2, <1>3, Zenon DEF Sums, SumsTo
<1> QED  BY <1>4

\* Two of them agree on what both sum over.
LEMMA SumsAgree ==
    ASSUME NEW f, NEW F, NEW S, Sums(f, F, S), NEW g, NEW G, NEW R, Sums(g, G, R),
           NEW s, IsFiniteSet(s), s \subseteq S, s \subseteq R,
           \A x \in s : F[x] = G[x]
    PROVE  f[s] = g[s]
<1> DEFINE T == {n \in Nat : \A t \in SUBSET s : Cardinality(t) = n => f[t] = g[t]}
<1>1. \A t \in SUBSET s : IsFiniteSet(t) /\ Cardinality(t) \in Nat
  BY FS_Subset, FS_CardinalityType
<1>2. \A t \in SUBSET s : f[t] = Added(f, F, t) /\ g[t] = Added(g, G, t)
  <2>1. \A t \in SUBSET S : f[t] = Added(f, F, t)
    BY Zenon DEF Sums
  <2>2. \A t \in SUBSET R : g[t] = Added(g, G, t)
    BY Zenon DEF Sums
  <2> QED  BY <2>1, <2>2
<1>3. 0 \in T
  <2>1. \A t \in SUBSET s : Cardinality(t) = 0 => t = {}
    BY <1>1, FS_EmptySet
  <2>2. \A t \in SUBSET s : t = {} => f[t] = 0 /\ g[t] = 0
    BY <1>2 DEF Added
  <2> QED  BY <2>1, <2>2
<1>4. ASSUME NEW n \in Nat, n \in T PROVE n + 1 \in T
  <2> SUFFICES ASSUME NEW t \in SUBSET s, Cardinality(t) = n + 1 PROVE f[t] = g[t]
    OBVIOUS
  <2>1. IsFiniteSet(t)
    BY <1>1
  <2> DEFINE u == t \ {Any(t)}
  <2>2. t # {} /\ Any(t) \in t /\ Cardinality(u) = n
    BY <2>1, OneLess
  <2>3. f[u] = g[u] /\ F[Any(t)] = G[Any(t)]
    BY <1>4, <2>2
  <2>4. f[t] = F[Any(t)] + f[u] /\ g[t] = G[Any(t)] + g[u]
    BY <1>2, <2>2 DEF Added
  <2> QED  BY <2>3, <2>4
<1> HIDE DEF T
<1>5. \A n \in Nat : n \in T
  BY <1>3, <1>4, AllNumbers
<1>6. Cardinality(s) \in T
  BY <1>1, <1>5
<1> QED  BY <1>6 DEF T

LEMMA SumsType ==
    ASSUME NEW g, NEW S, NEW fun, Sums(g, fun, S), IsFiniteSet(S),
           \A x \in S : fun[x] \in Nat
    PROVE  \A s \in SUBSET S : g[s] \in Nat
<1> DEFINE T == {n \in Nat : \A s \in SUBSET S : Cardinality(s) = n => g[s] \in Nat}
<1>1. \A t \in SUBSET S : IsFiniteSet(t) /\ Cardinality(t) \in Nat
  BY FS_Subset, FS_CardinalityType
<1>2. \A t \in SUBSET S : g[t] = Added(g, fun, t)
  BY Zenon DEF Sums
<1>3. 0 \in T
  <2>1. \A t \in SUBSET S : Cardinality(t) = 0 => t = {}
    BY <1>1, FS_EmptySet
  <2>2. \A t \in SUBSET S : t = {} => g[t] = 0
    BY <1>2 DEF Added
  <2> QED  BY <2>1, <2>2
<1>4. ASSUME NEW n \in Nat, n \in T PROVE n + 1 \in T
  <2> SUFFICES ASSUME NEW s \in SUBSET S, Cardinality(s) = n + 1 PROVE g[s] \in Nat
    OBVIOUS
  <2>1. IsFiniteSet(s)
    BY <1>1
  <2> DEFINE t == s \ {Any(s)}
  <2>2. s # {} /\ Any(s) \in s /\ Cardinality(t) = n
    BY <2>1, OneLess
  <2>3. g[t] \in Nat /\ fun[Any(s)] \in Nat
    BY <1>4, <2>2
  <2>4. g[s] = fun[Any(s)] + g[t]
    BY <1>2, <2>2 DEF Added
  <2> HIDE DEF t
  <2> QED  BY <2>3, <2>4
<1> HIDE DEF T
<1>5. \A n \in Nat : n \in T
  BY <1>3, <1>4, AllNumbers
<1> QED  BY <1>1, <1>5 DEF T

\* Whichever element is taken first.
LEMMA AnyOrder ==
    ASSUME NEW g, NEW S, NEW fun, Sums(g, fun, S), IsFiniteSet(S),
           \A x \in S : fun[x] \in Nat
    PROVE  \A s \in SUBSET S : \A x \in s : g[s] = fun[x] + g[s \ {x}]
<1> DEFINE Ok(s) == \A x \in s : g[s] = fun[x] + g[s \ {x}]
           T == {n \in Nat : \A s \in SUBSET S : Cardinality(s) = n => Ok(s)}
<1>1. \A t \in SUBSET S : IsFiniteSet(t) /\ Cardinality(t) \in Nat
  BY FS_Subset, FS_CardinalityType
<1>2. \A t \in SUBSET S : g[t] = Added(g, fun, t) /\ g[t] \in Nat
  <2>1. \A t \in SUBSET S : g[t] = Added(g, fun, t)
    BY Zenon DEF Sums
  <2>2. \A t \in SUBSET S : g[t] \in Nat
    BY SumsType
  <2> QED  BY <2>1, <2>2
<1>3. 0 \in T
  <2>1. \A t \in SUBSET S : Cardinality(t) = 0 => t = {}
    BY <1>1, FS_EmptySet
  <2> QED  BY <2>1
<1>4. ASSUME NEW n \in Nat, n \in T PROVE n + 1 \in T
  <2> SUFFICES ASSUME NEW s \in SUBSET S, Cardinality(s) = n + 1 PROVE Ok(s)
    BY DEF T
  <2>1. IsFiniteSet(s) /\ s # {}
    BY <1>1, FS_EmptySet
  <2>2. ASSUME NEW x \in s PROVE s \ {x} \in SUBSET S /\ Ok(s \ {x})
    <3>1. Cardinality(s \ {x}) = n
      BY <2>1, OneLess
    <3>2. s \ {x} \in SUBSET S
      OBVIOUS
    <3> HIDE DEF Ok
    <3> QED  BY <1>4, <3>1, <3>2
  <2> DEFINE a == Any(s)
  <2>3. a \in s /\ g[s] = fun[a] + g[s \ {a}]
    BY <1>2, <2>1, Smaller DEF Added
  <2> HIDE DEF a
  <2>4. ASSUME NEW x \in s, x # a PROVE g[s] = fun[x] + g[s \ {x}]
    <3> DEFINE rest == g[(s \ {a}) \ {x}]
    <3>1. (s \ {a}) \ {x} = (s \ {x}) \ {a} /\ rest \in Nat
      BY <1>2
    <3>2. g[s \ {a}] = fun[x] + rest
      BY <2>2, <2>3, <2>4
    <3>3. g[s \ {x}] = fun[a] + rest
      BY <2>2, <2>3, <2>4, <3>1
    <3>4. fun[x] \in Nat /\ fun[a] \in Nat
      BY <2>3
    <3> HIDE DEF rest
    <3> QED  BY <2>3, <3>1, <3>2, <3>3, <3>4
  <2> QED  BY <2>3, <2>4
<1> HIDE DEF T
<1>5. \A n \in Nat : n \in T
  BY <1>3, <1>4, AllNumbers
<1> QED  BY <1>1, <1>5 DEF T

LEMMA SumIs ==
    ASSUME NEW S, IsFiniteSet(S), NEW fun, DOMAIN fun = S
    PROVE  \E g : Sums(g, fun, S) /\ SumFunction(fun) = g[S]
<1>1. SumFunction(fun) = (CHOOSE g : Sums(g, fun, S))[S]
  BY Zenon DEF SumFunction, SumFunctionOnSet, FoldFunctionOnSet, MapThenFoldSet,
     Sums, Added, Any
<1>2. Sums(CHOOSE g : Sums(g, fun, S), fun, S)
  BY SumsExists, Zenon
<1> QED  BY <1>1, <1>2

\* The sum of nothing, and what one more element adds to a sum.
LEMMA EmptySum ==
    ASSUME NEW fun, DOMAIN fun = {} PROVE SumFunction(fun) = 0
<1> DEFINE none == {}
<1>1. IsFiniteSet(none)
  BY FS_EmptySet
<1>2. DOMAIN fun = none
  OBVIOUS
<1> HIDE DEF none
<1>3. PICK g : Sums(g, fun, none) /\ SumFunction(fun) = g[none]
  BY <1>1, <1>2, SumIs
<1>4. g[none] = Added(g, fun, none)
  BY <1>3, Zenon DEF Sums
<1> QED  BY <1>3, <1>4 DEF Added, none

LEMMA OneMore ==
    ASSUME NEW S, IsFiniteSet(S), NEW fun, DOMAIN fun = S,
           \A x \in S : fun[x] \in Nat,
           NEW more, NEW x, x \notin S, DOMAIN more = S \cup {x}, more[x] \in Nat,
           \A y \in S : more[y] = fun[y]
    PROVE  SumFunction(more) = SumFunction(fun) + more[x]
<1> DEFINE R == S \cup {x}
<1>1. IsFiniteSet(R)
  BY FS_AddElement
<1>2. DOMAIN more = R /\ S \in SUBSET R /\ R \in SUBSET R /\ R \ {x} = S /\ x \in R
      /\ \A y \in R : more[y] \in Nat
  OBVIOUS
<1> HIDE DEF R
<1>3. PICK f : Sums(f, fun, S) /\ SumFunction(fun) = f[S]
  BY SumIs
<1>4. PICK g : Sums(g, more, R) /\ SumFunction(more) = g[R]
  BY <1>1, <1>2, SumIs
<1>5. g[R] = more[x] + g[S]
  <2>1. g[R] = more[x] + g[R \ {x}]
    BY <1>1, <1>2, <1>4, AnyOrder
  <2> QED  BY <1>2, <2>1
<1>6. f[S] = g[S]
  BY <1>2, <1>3, <1>4, SumsAgree
<1>7. g[S] \in Nat
  BY <1>1, <1>2, <1>4, SumsType
<1> QED  BY <1>2, <1>3, <1>4, <1>5, <1>6, <1>7

-----------------------------------------------------------------------------
\* The statements whose time has been added; t is the time of those of S.
Timed(db) == {st \in Statements : DB(st) = db /\ pc[st] \notin {"idle", "emit"}}
TimeOf(t, S, requests) ==
    IsFiniteSet(S) /\ t = SumFunction([st \in S |-> requests[st].dur])

NanosCounted ==
    \A db \in DBs \ Resetting : TimeOf(nanos[db], Timed(db), req)

LEMMA SameTime ==
    ASSUME NEW t, NEW S, NEW r, NEW q, TimeOf(t, S, r),
           \A st \in S : q[st] = r[st]
    PROVE  TimeOf(t, S, q)
<1>1. [st \in S |-> q[st].dur] = [st \in S |-> r[st].dur]
  OBVIOUS
<1> QED  BY <1>1, Zenon DEF TimeOf

LEMMA MoreTime ==
    ASSUME NEW S, NEW r, \A st \in S : r[st].dur \in Nat, NEW t, TimeOf(t, S, r),
           NEW x, x \notin S, r[x].dur \in Nat
    PROVE  TimeOf(t + r[x].dur, S \cup {x}, r)
<1> DEFINE R    == S \cup {x}
           fun  == [st \in S |-> r[st].dur]
           more == [st \in R |-> r[st].dur]
<1>1. IsFiniteSet(S) /\ t = SumFunction(fun)
  BY DEF TimeOf
<1>2. IsFiniteSet(R)
  BY <1>1, FS_AddElement
<1>3. /\ DOMAIN fun = S /\ DOMAIN more = S \cup {x} /\ more[x] = r[x].dur
      /\ \A st \in S : fun[st] \in Nat /\ more[st] = fun[st]
  OBVIOUS
<1> HIDE DEF fun, more
<1>4. SumFunction(more) = SumFunction(fun) + more[x]
  BY <1>1, <1>3, OneMore
<1> QED  BY <1>1, <1>2, <1>3, <1>4 DEF TimeOf, more

\* Who adds no time changes nothing.
LEMMA NoTimePasses ==
    ASSUME NanosCounted,
           \A db \in DBs \ Resetting :
              /\ nanos'[db] = nanos[db] /\ Timed(db)' = Timed(db)
              /\ \A st \in Timed(db) : req'[st] = req[st]
    PROVE  NanosCounted'
BY SameTime DEF NanosCounted

LEMMA NextTimed == TypeOK /\ NanosCounted /\ [Next]_vars => NanosCounted'
<1> SUFFICES ASSUME TypeOK, NanosCounted, [Next]_vars PROVE NanosCounted'
  OBVIOUS
<1> DEFINE Added1(st) == pc[st] \notin {"idle", "emit"}
<1>1. ASSUME NEW st \in Statements, NEW r, Issue(st, r), UNCHANGED nanos
      PROVE  NanosCounted'
  <2>1. ~Added1(st) /\ ~Added1(st)'
    BY <1>1 DEF Issue, Goto, TypeOK
  <2>2. \A s \in Statements \ {st} : pc'[s] = pc[s] /\ req'[s] = req[s]
    BY <1>1 DEF Issue, Goto, TypeOK
  <2>3. \A db \in DBs : /\ Timed(db)' = Timed(db)
                        /\ \A s \in Timed(db) : req'[s] = req[s]
    BY <2>1, <2>2 DEF Timed, DB
  <2> QED  BY <1>1, <2>3, NoTimePasses
<1>2. ASSUME NEW st \in Statements, Emit(st) PROVE NanosCounted'
  <2>1. CASE AddNanos(st)
    <3>1. /\ pc[st] = "emit" /\ pc' = [pc EXCEPT ![st] = "addCount"]
          /\ req' = req /\ DB(st) \in DBs
      BY <2>1 DEF AddNanos, Goto, TypeOK, DB, Request
    <3>2. Added1(st)' /\ ~Added1(st)
          /\ \A s \in Statements \ {st} : Added1(s)' <=> Added1(s)
      BY <3>1 DEF TypeOK
    <3>3. PICK d \in DBs : d = DB(st)
      BY <3>1
    <3>4. \A s \in Statements : DB(s)' = DB(s) /\ req[s].dur \in Nat
      BY <3>1, ConstantsAssumption DEF DB, TypeOK, Request
    <3>5. ASSUME NEW db \in DBs \ Resetting
          PROVE  TimeOf(nanos'[db], Timed(db)', req')
      <4>1. TimeOf(nanos[db], Timed(db), req)
        BY <3>5 DEF NanosCounted
      <4>2. CASE db # d
        <5>1. Timed(db)' = Timed(db)
          BY <3>2, <3>3, <3>4, <4>2 DEF Timed
        <5>2. nanos'[db] = nanos[db]
          BY <2>1, <3>3, <4>2 DEF AddNanos, TypeOK
        <5> QED  BY <3>1, <4>1, <5>1, <5>2
      <4>3. CASE db = d
        <5>1. Timed(db)' = Timed(db) \cup {st} /\ st \notin Timed(db)
          BY <3>2, <3>3, <3>4, <4>3 DEF Timed
        <5>2. nanos'[db] = nanos[db] + req[st].dur
          BY <2>1, <3>3, <4>3 DEF AddNanos, TypeOK
        <5>3. \A s \in Timed(db) : req[s].dur \in Nat
          BY <3>4 DEF Timed
        <5>4. TimeOf(nanos[db] + req[st].dur, Timed(db) \cup {st}, req)
          BY <3>4, <4>1, <5>1, <5>3, MoreTime
        <5> QED  BY <3>1, <5>1, <5>2, <5>4
      <4> QED  BY <4>2, <4>3
    <3> QED  BY <3>5 DEF NanosCounted
  <2>2. CASE ~AddNanos(st)
    <3>1. UNCHANGED <<nanos, req>>
      BY <1>2, <2>2 DEF Emit, AddCount, NoScope, Acquire, LoadScope, FoldTotal,
         FoldCount, TripHandlers, HandlerEnds, HandlersDone, Listen, dbVars
    <3>2. \/ pc' = pc
          \/ /\ pc[st] \in {"addCount", "scope", "load", "fold", "count", "trip",
                            "handlers", "listen"}
             /\ \E w \in {"scope", "load", "fold", "count", "trip",
                          "handlers", "listen", "done"} : pc' = [pc EXCEPT ![st] = w]
      BY <1>2, <2>2 DEF Emit, AddCount, NoScope, Acquire, LoadScope, FoldTotal,
         FoldCount, TripHandlers, HandlerEnds, HandlersDone, Listen, Goto
    <3>3. \A s \in Statements : Added1(s)' <=> Added1(s)
      BY <3>2 DEF TypeOK
    <3>4. \A db \in DBs : Timed(db)' = Timed(db)
      BY <3>1, <3>3 DEF Timed, DB
    <3> QED  BY <3>1, <3>4, NoTimePasses
  <2> QED  BY <2>1, <2>2
<1>3. ASSUME NEW sc \in Scopes, Stats(sc) PROVE NanosCounted'
  <2>1. UNCHANGED <<pc, req, nanos>>
    BY <1>3 DEF Stats, stmtVars, dbVars
  <2> QED  BY <2>1, NoTimePasses DEF Timed, DB
<1>4. ASSUME NEW db \in DBs, ResetNanos(db) \/ ResetCount(db)
      PROVE  NanosCounted'
  <2>1. UNCHANGED <<pc, req>>
    BY <1>4 DEF ResetNanos, ResetCount, stmtVars
  <2>2. \A d \in DBs : Timed(d)' = Timed(d)
    BY <2>1 DEF Timed, DB
  <2>3. \A d \in DBs \ Resetting : nanos'[d] = nanos[d]
    BY <1>4 DEF ResetNanos, ResetCount, TypeOK
  <2> QED  BY <2>1, <2>2, <2>3, NoTimePasses
<1>5. CASE UNCHANGED vars
  BY <1>5, NoTimePasses DEF vars, stmtVars, dbVars, Timed, DB
<1>6. ASSUME NEW st \in Statements, NEW r \in Sends[st], Send(st, r)
      PROVE  NanosCounted'
  BY <1>1, <1>6 DEF Send, dbVars
<1>7. ASSUME NEW st \in Statements, NEW inner \in Statements,
             NEW dur \in Durations, NEW i \in todo[st],
             HandlerQueries(st, i, inner, dur)
      PROVE  NanosCounted'
  BY <1>1, <1>7 DEF HandlerQueries, dbVars
<1> QED  BY <1>2, <1>3, <1>4, <1>5, <1>6, <1>7 DEF Next

\* The lifetime counters of a DB that is never reset are the number of all the
\* statements that ran on it and the sum of their times, whenever no statement is
\* between the two adds.
THEOREM TotalsAreLifetime == Spec => []LifetimeTotals
<1>1. Init => CallsCounted /\ NanosCounted
  <2> SUFFICES ASSUME Init PROVE CallsCounted /\ NanosCounted
    OBVIOUS
  <2>1. \A db \in DBs : /\ Past(db) = {} /\ Timed(db) = {} /\ ~resets[db]
                        /\ calls[db] = 0 /\ nanos[db] = 0
    BY DEF Init, Past, Timed
  <2>2. CallsCounted
    BY <2>1, FS_EmptySet DEF CallsCounted
  <2>3. ASSUME NEW db \in DBs PROVE TimeOf(nanos[db], Timed(db), req)
    <3> DEFINE fun == [st \in Timed(db) |-> req[st].dur]
    <3>1. DOMAIN fun = {}
      BY <2>1
    <3>2. IsFiniteSet(Timed(db))
      BY <2>1, FS_EmptySet
    <3> HIDE DEF fun
    <3>3. SumFunction(fun) = 0
      BY <3>1, EmptySum
    <3> QED  BY <2>1, <3>2, <3>3 DEF TimeOf, fun
  <2> QED  BY <2>2, <2>3 DEF NanosCounted
<1>2. CallsCounted /\ NanosCounted => LifetimeTotals
  <2> SUFFICES ASSUME CallsCounted, NanosCounted, NEW db \in DBs \ Resetting, Quiet(db)
               PROVE  /\ calls[db] = Cardinality(Past(db))
                      /\ nanos[db] = SumFunction([st \in Past(db) |-> req[st].dur])
    BY DEF LifetimeTotals
  <2>1. Past(db) = Timed(db)
    BY DEF Past, Timed, Quiet
  <2>2. calls[db] = Cardinality(Past(db)) /\ TimeOf(nanos[db], Timed(db), req)
    BY DEF CallsCounted, NanosCounted
  <2> QED  BY <2>1, <2>2, Zenon DEF TimeOf
<1> QED  BY <1>1, <1>2, InitTypeOK, NextTypeOK, NextCounted, NextTimed, PTL DEF Spec
=============================================================================
