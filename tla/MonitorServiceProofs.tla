------------------------ MODULE MonitorServiceProofs ------------------------
(***************************************************************************)
(* Proofs about MonitorLock and MonitorService, for any number of runs,    *)
(* readers and connections and any size of the pool.                       *)
(*                                                                         *)
(* The argument: a connection is in the hands of one session or idle in    *)
(* the pool, never both.  A run at work holds the lock on the connection   *)
(* in its hands, so whatever connection another session takes, gives back, *)
(* closes or unlocks is not that one; unless the server has lost it, after *)
(* which the run cannot commit.                                            *)
(***************************************************************************)
EXTENDS MonitorService, TLAPS

\* Statements with a transaction open, on a connection of the session's own.
InHand == {"conflict", "body", "committed", "recording", "closing", "reading"}

-----------------------------------------------------------------------------
\* A session has a connection exactly while its transaction is open, ...
ConnOK ==
    /\ \A s \in Sessions : conn[s] # None <=> pc[s] \in InHand
    /\ \A s \in Sessions : conn[s] # None => conn[s] \in open
    /\ \A s, u \in Sessions : conn[s] # None /\ s # u => conn[s] # conn[u]

\* ... and the pool has the other ones, each once.
PoolOK ==
    /\ \A i \in 1..Len(pool) : /\ pool[i] \in open
                               /\ \A s \in Sessions : conn[s] # pool[i]
    /\ \A i, j \in 1..Len(pool) : i # j => pool[i] # pool[j]

\* A held lock is held at least once, and a run at work holds it.
LockOK ==
    /\ holder # None => depth > 0
    /\ \A t \in Runs : pc[t] = "body" /\ Live(t) => holder = conn[t] /\ depth > 0

\* What the history and the caller of a run see at each of its statements.
Outcomes == {"success", "partial_failure"}
RowOf(t) ==
    /\ pc[t] \in {"idle", "conflict", "body"} => row[t] = "none"
    /\ pc[t] # "done" => answer[t] = "none"
    /\ pc[t] = "committed" => row[t] \in Outcomes
    /\ pc[t] \in {"unlock", "closing"} /\ t \notin raised => row[t] \in Outcomes
    /\ row[t] # "running"
    /\ answer[t] = "200" => row[t] \in Outcomes
    /\ row[t] = "failed" => answer[t] \in {"none", "500"}
    /\ answer[t] = "409" => row[t] = "none"
    /\ answer[t] # "409 with id"
RowOK == \A t \in Runs : RowOf(t)

\* The inductive invariant.
IInv == TypeOK /\ ConnOK /\ PoolOK /\ LockOK /\ RowOK

-----------------------------------------------------------------------------
\* Types of the variables that checking a connection out and in changes.
PoolType ==
    /\ conn \in [Sessions -> Conns \cup {None}]
    /\ pool \in Seq(Conns)
    /\ dead \subseteq open /\ open \subseteq Conns

\* The connection that a statement takes is in nobody's hands.
LEMMA CheckoutExclusive ==
    ASSUME PoolType, ConnOK, PoolOK, NEW s \in Sessions, NEW c \in Conns,
           Checkout(s, c)
    PROVE  /\ PoolType' /\ PoolOK'
           /\ conn' = [conn EXCEPT ![s] = c] /\ dead' = dead \ {c}
           /\ c \in open' /\ open \subseteq open'
           /\ \A u \in Sessions : conn[u] # c
<1> USE MonitorAssumption DEF PoolType
<1>1. CASE pool = <<>>
  <2>1. /\ c \notin open /\ open' = open \cup {c} /\ pool' = pool
        /\ conn' = [conn EXCEPT ![s] = c] /\ dead' = dead \ {c}
    BY <1>1 DEF Checkout
  <2>2. \A u \in Sessions : conn[u] # c BY <2>1 DEF ConnOK
  <2> QED BY <1>1, <2>1, <2>2 DEF PoolOK
<1>2. CASE pool # <<>>
  <2>1. /\ c = Head(pool) /\ pool' = Tail(pool) /\ open' = open
        /\ conn' = [conn EXCEPT ![s] = c] /\ dead' = dead \ {c}
    BY <1>2 DEF Checkout
  <2>2. /\ 1 \in 1..Len(pool) /\ c = pool[1] BY <1>2, <2>1
  <2>3. c \in open /\ \A u \in Sessions : conn[u] # c BY <2>2 DEF PoolOK
  <2>4. /\ pool' \in Seq(Conns) /\ Len(pool') = Len(pool) - 1
        /\ \A i \in 1..Len(pool') : i + 1 \in 1..Len(pool) /\ pool'[i] = pool[i + 1]
    BY <1>2, <2>1
  <2>5. \A i \in 1..Len(pool') : /\ pool'[i] \in open' /\ pool'[i] # c
                                 /\ \A u \in Sessions : conn[u] # pool'[i]
    <3> TAKE i \in 1..Len(pool')
    <3>1. i + 1 \in 1..Len(pool) /\ pool'[i] = pool[i + 1] /\ i + 1 # 1 BY <2>4
    <3> QED BY <3>1, <2>1, <2>2 DEF PoolOK
  <2>6. \A i, j \in 1..Len(pool') : i # j => pool'[i] # pool'[j]
    <3> TAKE i, j \in 1..Len(pool')
    <3>1. /\ i + 1 \in 1..Len(pool) /\ pool'[i] = pool[i + 1]
          /\ j + 1 \in 1..Len(pool) /\ pool'[j] = pool[j + 1]
      BY <2>4
    <3> QED BY <3>1 DEF PoolOK
  <2> QED BY <2>1, <2>3, <2>4, <2>5, <2>6 DEF PoolOK
<1> QED BY <1>1, <1>2

\* After it, sessions and pool share the connections out as before.
LEMMA CheckoutKeeps ==
    ASSUME PoolType, ConnOK, PoolOK, NEW s \in Sessions, NEW c \in Conns,
           NEW label \in InHand, pc \in [Sessions -> PCs],
           Checkout(s, c), Goto(s, label)
    PROVE  ConnOK'
<1>1. /\ conn' = [conn EXCEPT ![s] = c] /\ c \in open' /\ open \subseteq open'
      /\ \A u \in Sessions : conn[u] # c
  BY CheckoutExclusive
<1>2. pc' = [pc EXCEPT ![s] = label] BY DEF Goto
<1>3. c # None BY MonitorAssumption
<1> QED BY <1>1, <1>2, <1>3 DEF ConnOK, PoolType

\* A connection given back goes to the pool or is closed; if it is closed its
\* lock goes with it, and other connections keep theirs.
LEMMA CheckinKeeps ==
    ASSUME PoolType, ConnOK, PoolOK, NEW s \in Sessions, conn[s] # None,
           NEW label \in PCs \ InHand, pc \in [Sessions -> PCs],
           Checkin(s), Goto(s, label)
    PROVE  /\ PoolType' /\ ConnOK' /\ PoolOK'
           /\ conn' = [conn EXCEPT ![s] = None]
           /\ dead' \in {dead, dead \ {conn[s]}}
           /\ \/ UNCHANGED <<holder, depth>>
              \/ holder = conn[s] /\ holder' = None /\ depth' = 0
<1> USE MonitorAssumption DEF PoolType
<1>1. /\ conn' = [conn EXCEPT ![s] = None]
      /\ pc' = [pc EXCEPT ![s] = label]
      /\ conn[s] \in Conns /\ conn[s] \in open
  BY DEF Checkin, Goto, ConnOK
<1>2. \A u \in Sessions : conn'[u] # conn[s] BY <1>1 DEF ConnOK
<1>3. \A i \in 1..Len(pool) : /\ pool[i] # conn[s]
                              /\ \A u \in Sessions : conn'[u] # pool[i]
  BY <1>1 DEF PoolOK
<1>4. CASE Len(pool) < PoolSize
  <2>1. pool' = Append(pool, conn[s]) /\ UNCHANGED <<open, dead, holder, depth>>
    BY <1>4 DEF Checkin
  <2>2. /\ pool' \in Seq(Conns) /\ Len(pool') = Len(pool) + 1
        /\ pool'[Len(pool) + 1] = conn[s]
        /\ \A i \in 1..Len(pool) : pool'[i] = pool[i]
    BY <2>1, <1>1
  <2>3. \A i \in 1..Len(pool') : i \in 1..Len(pool) \/ i = Len(pool) + 1 BY <2>2
  <2>4. PoolOK' BY <1>1, <1>2, <1>3, <2>1, <2>2, <2>3 DEF PoolOK
  <2>5. ConnOK' BY <1>1, <2>1 DEF ConnOK
  <2> QED BY <1>1, <2>1, <2>2, <2>4, <2>5
<1>5. CASE ~(Len(pool) < PoolSize)
  <2>1. /\ pool' = pool /\ open' = open \ {conn[s]} /\ dead' = dead \ {conn[s]}
        /\ holder' = IF holder = conn[s] THEN None ELSE holder
        /\ depth' = IF holder = conn[s] THEN 0 ELSE depth
    BY <1>5 DEF Checkin
  <2>2. PoolOK' BY <1>2, <1>3, <2>1 DEF PoolOK
  <2>3. ConnOK' BY <1>1, <1>2, <2>1 DEF ConnOK
  <2> QED BY <1>1, <2>1, <2>2, <2>3
<1> QED BY <1>4, <1>5
-----------------------------------------------------------------------------
\* Runs and other requests execute statements of their own.
OwnStatements ==
    /\ pc \in [Sessions -> PCs]
    /\ \A t \in Runs : pc[t] # "reading"
    /\ \A q \in Readers : pc[q] \in {"idle", "reading", "done"}

\* No other request gets into the statements of a run (monitor_runner.py:30-107),
\* nor a run into those of get_session alone (database.py).
LEMMA EachItsOwn == Spec => []OwnStatements
<1>1. Init => OwnStatements BY DEF Init, OwnStatements, Sessions, PCs
<1>2. OwnStatements /\ [Next]_vars => OwnStatements'
  <2> SUFFICES ASSUME OwnStatements, [Next]_vars PROVE OwnStatements'
    OBVIOUS
  <2> USE MonitorAssumption DEF OwnStatements, Sessions
  <2>1. ASSUME NEW t \in Runs, NEW label \in PCs \ {"reading"}, Goto(t, label)
        PROVE  OwnStatements'
    BY <2>1 DEF Goto
  <2>2. ASSUME NEW q \in Readers, NEW label \in {"reading", "done"}, Goto(q, label)
        PROVE  OwnStatements'
    BY <2>2 DEF Goto, PCs
  <2>3. ASSUME NEW t \in Runs,
               \/ TryLock(t) \/ Conflict(t) \/ InsertFails(t) \/ Commit(t) \/ Committed(t)
               \/ Raise(t) \/ BeginRecord(t) \/ EndRecord(t) \/ Unlock(t) \/ Close(t)
        PROVE  OwnStatements'
    <3>1. \E label \in PCs \ {"reading"} : Goto(t, label)
      BY <2>3 DEF TryLock, Conflict, InsertFails, Commit, Committed, Raise, BeginRecord,
                  EndRecord, Unlock, Close, PCs
    <3> QED BY <2>1, <3>1
  <2>4. ASSUME NEW q \in Readers, BeginRead(q) \/ EndRead(q) PROVE OwnStatements'
    BY <2>2, <2>4 DEF BeginRead, EndRead
  <2>5. ASSUME NEW s \in Sessions, CheckoutFails(s) PROVE OwnStatements'
    <3>1. Goto(s, IF pc[s] = "record" THEN "unlock" ELSE "done") BY <2>5 DEF CheckoutFails
    <3>2. CASE s \in Runs BY <2>1, <3>1, <3>2 DEF PCs
    <3>3. CASE s \in Readers
      <4>1. pc[s] # "record" BY <3>3
      <4> QED BY <2>2, <3>1, <3>3, <4>1
    <3> QED BY <3>2, <3>3
  <2>6. ASSUME NEW c \in Conns, Disconnect(c) PROVE OwnStatements' BY <2>6 DEF Disconnect
  <2>7. CASE Restart BY <2>7 DEF Restart, PCs
  <2>8. CASE UNCHANGED vars BY <2>8 DEF vars
  <2> QED BY <2>3, <2>4, <2>5, <2>6, <2>7, <2>8 DEF Next
<1> QED BY <1>1, <1>2, PTL DEF Spec

-----------------------------------------------------------------------------
\* The inductive invariant holds before the first request.
LEMMA InitIInv == ASSUME Init PROVE IInv
<1> USE MonitorAssumption DEF Init
<1>1. TypeOK BY DEF TypeOK, PCs
<1>2. ConnOK /\ PoolOK BY DEF ConnOK, PoolOK, InHand
<1>3. LockOK /\ RowOK BY DEF LockOK, RowOK, RowOf, Sessions
<1> QED BY <1>1, <1>2, <1>3 DEF IInv

\* Statements that check a connection out keep the invariant: the connection
\* is not that of the run at work, and so a lock taken or released on it does
\* not concern that run.
LEMMA CheckoutStep ==
    ASSUME IInv, NEW s \in Sessions,
           \/ s \in Runs /\ (TryLock(s) \/ BeginRecord(s) \/ Unlock(s))
           \/ s \in Readers /\ BeginRead(s)
    PROVE  IInv'
<1> USE MonitorAssumption
<1>t. TypeOK /\ PoolType /\ ConnOK /\ PoolOK BY DEF IInv, TypeOK, PoolType
<1>h. holder \in Conns \cup {None} /\ depth \in Nat BY <1>t DEF TypeOK
<1>n. pc[s] \in {"idle", "record", "unlock"} /\ pc \in [Sessions -> PCs]
  BY <1>t DEF TryLock, BeginRecord, Unlock, BeginRead, TypeOK
<1>r. Runs \subseteq Sessions BY DEF Sessions
<1>1. PICK c \in Conns : Checkout(s, c)
  BY DEF TryLock, BeginRecord, Unlock, BeginRead
<1>2. /\ PoolType' /\ PoolOK' /\ conn' = [conn EXCEPT ![s] = c] /\ dead' = dead \ {c}
      /\ \A u \in Sessions : conn[u] # c
  BY <1>1, <1>t, CheckoutExclusive
<1>v. \A t \in Sessions : t # s => conn'[t] = conn[t] /\ Live(t)' = Live(t)
  BY <1>2, <1>t DEF Live, PoolType
<1>c. \A d \in Conns : Checkout(s, d) => d = c
  BY <1>2, <1>t DEF Checkout, PoolType
<1>3. \E label \in InHand : Goto(s, label)
  BY DEF TryLock, BeginRecord, Unlock, BeginRead, InHand
<1>4. ConnOK' BY <1>1, <1>3, <1>t, <1>n, CheckoutKeeps
<1>5. CASE s \in Runs /\ TryLock(s)
  <2>1. /\ pc[s] = "idle" /\ UNCHANGED <<row, raised, answer>>
        /\ \/ /\ holder \in {None, c} /\ holder' = c /\ depth' = depth + 1
              /\ Goto(s, "body")
           \/ Goto(s, "conflict") /\ UNCHANGED <<holder, depth>>
    BY <1>5, <1>c DEF TryLock
  <2>2. pc' \in [Sessions -> PCs] BY <2>1, <1>n DEF Goto, PCs
  <2>h. holder' \in Conns \cup {None} /\ depth' \in Nat BY <2>1, <1>h
  <2>3. TypeOK' BY <2>1, <2>2, <2>h, <1>2, <1>t DEF TypeOK, PoolType
  <2>4. LockOK'
    <3>1. CASE UNCHANGED <<holder, depth>> /\ Goto(s, "conflict")
      BY <3>1, <1>2, <1>v, <1>t, <1>n, <1>r DEF IInv, LockOK, TypeOK, Goto
    <3>2. CASE /\ holder \in {None, c} /\ holder' = c /\ depth' = depth + 1
               /\ Goto(s, "body")
      <4>1. depth' > 0 BY <3>2, <1>h
      <4>2. \A t \in Runs : ~(pc[t] = "body" /\ Live(t))
        BY <3>2, <1>2, <1>t, <1>r DEF IInv, LockOK, ConnOK, InHand
      <4> QED BY <3>2, <4>1, <4>2, <1>2, <1>v, <1>5, <1>n, <1>r, <1>t
              DEF LockOK, Goto, TypeOK
    <3> QED BY <2>1, <3>1, <3>2
  <2>5. RowOK' BY <2>1, <1>5, <1>n, <1>r DEF IInv, RowOK, RowOf, Goto
  <2> QED BY <2>3, <2>4, <2>5, <1>2, <1>4 DEF IInv
<1>6. CASE \/ s \in Runs /\ BeginRecord(s)
           \/ s \in Readers /\ BeginRead(s)
  <2>1. /\ UNCHANGED <<holder, depth, row, raised, answer>>
        /\ \/ s \in Runs /\ pc[s] = "record" /\ Goto(s, "recording")
           \/ s \in Readers /\ Goto(s, "reading")
    BY <1>6 DEF BeginRecord, BeginRead
  <2>2. TypeOK' BY <2>1, <1>2, <1>t DEF TypeOK, PoolType, Goto, PCs
  <2>3. LockOK'
    BY <2>1, <1>2, <1>v, <1>t, <1>n, <1>r, <1>6 DEF IInv, LockOK, TypeOK, Goto
  <2>4. RowOK' BY <2>1, <1>n, <1>r DEF IInv, RowOK, RowOf, Goto
  <2> QED BY <2>2, <2>3, <2>4, <1>2, <1>4 DEF IInv
<1>7. CASE s \in Runs /\ Unlock(s)
  <2>1. /\ pc[s] = "unlock" /\ UNCHANGED <<row, raised, answer>> /\ Goto(s, "closing")
        /\ depth' = IF holder = c THEN depth - 1 ELSE depth
        /\ holder' = IF holder = c /\ depth = 1 THEN None ELSE holder
    BY <1>7, <1>c DEF Unlock
  <2>2. depth \in Nat /\ (holder # None => depth > 0) /\ holder \in Conns \cup {None}
    BY <1>t DEF TypeOK, IInv, LockOK
  <2>3. /\ depth' \in Nat /\ holder' \in Conns \cup {None}
        /\ holder' # None => depth' > 0
    BY <2>1, <2>2
  <2>4. TypeOK' BY <2>1, <2>3, <1>2, <1>t DEF TypeOK, PoolType, Goto, PCs
  <2>5. LockOK'
    <3>1. ASSUME NEW t \in Runs, pc'[t] = "body", Live(t)' PROVE holder' = conn'[t] /\ depth' > 0
      <4>1. t # s /\ pc[t] = "body" BY <3>1, <2>1, <1>n, <1>r DEF Goto
      <4>2. holder = conn[t] /\ depth > 0 /\ conn'[t] = conn[t]
        BY <3>1, <4>1, <1>v, <1>r DEF IInv, LockOK
      <4>3. holder # c BY <4>2, <1>2, <1>r
      <4> QED BY <4>2, <4>3, <2>1
    <3> QED BY <3>1, <2>3 DEF LockOK
  <2>6. RowOK' BY <2>1, <1>n, <1>r DEF IInv, RowOK, RowOf, Goto
  <2> QED BY <2>4, <2>5, <2>6, <1>2, <1>4 DEF IInv
<1> QED BY <1>5, <1>6, <1>7

\* Statements that check a connection in keep the invariant: if the lock goes
\* with a closed connection, no other run was at work with it.
LEMMA CheckinStep ==
    ASSUME IInv, NEW s \in Sessions,
           \/ /\ s \in Runs
              /\ \/ Conflict(s) \/ InsertFails(s) \/ Committed(s) \/ Raise(s)
                 \/ EndRecord(s) \/ Close(s)
           \/ s \in Readers /\ EndRead(s)
    PROVE  IInv'
<1> USE MonitorAssumption
<1>t. TypeOK /\ PoolType /\ ConnOK /\ PoolOK BY DEF IInv, TypeOK, PoolType
<1>h. holder \in Conns \cup {None} /\ depth \in Nat BY <1>t DEF TypeOK
<1>n. /\ pc[s] \in InHand /\ pc \in [Sessions -> PCs] /\ Checkin(s)
      /\ \E label \in {"unlock", "record", "done"} : Goto(s, label)
  BY <1>t DEF Conflict, InsertFails, Committed, Raise, EndRecord, Close, EndRead, TypeOK, InHand
<1>r. Runs \subseteq Sessions BY DEF Sessions
<1>1. PICK label \in {"unlock", "record", "done"} : Goto(s, label) BY <1>n
<1>l. label \in PCs \ InHand BY DEF PCs, InHand
<1>2. /\ PoolType' /\ ConnOK' /\ PoolOK'
      /\ conn' = [conn EXCEPT ![s] = None] /\ dead' \in {dead, dead \ {conn[s]}}
      /\ \/ UNCHANGED <<holder, depth>>
         \/ holder = conn[s] /\ holder' = None /\ depth' = 0
  BY <1>1, <1>l, <1>n, <1>t, CheckinKeeps DEF ConnOK
<1>3. pc' = [pc EXCEPT ![s] = label] BY <1>1 DEF Goto
<1>4. conn[s] # None /\ \A u \in Sessions : u # s => conn[u] # conn[s]
  BY <1>n, <1>t DEF ConnOK
<1>5. LockOK'
  <2>1. holder' # None => depth' > 0 BY <1>2 DEF IInv, LockOK
  <2>2. ASSUME NEW t \in Runs, pc'[t] = "body", Live(t)' PROVE holder' = conn'[t] /\ depth' > 0
    <3>1. t # s /\ pc[t] = "body" BY <2>2, <1>3, <1>n, <1>r DEF InHand
    <3>3. conn'[t] = conn[t] /\ conn[t] # conn[s] BY <3>1, <1>2, <1>4, <1>r, <1>t DEF PoolType
    <3>2. holder = conn[t] /\ depth > 0
      <4>1. Live(t) BY <2>2, <3>3, <1>2 DEF Live
      <4> QED BY <3>1, <4>1 DEF IInv, LockOK
    <3> QED BY <3>2, <3>3, <1>2
  <2> QED BY <2>1, <2>2 DEF LockOK
<1>6. /\ pc' \in [Sessions -> PCs] /\ holder' \in Conns \cup {None} /\ depth' \in Nat
  <2>1. pc' \in [Sessions -> PCs] BY <1>3, <1>l, <1>n
  <2>2. holder' \in Conns \cup {None} /\ depth' \in Nat BY <1>2, <1>h
  <2> QED BY <2>1, <2>2
<1>g. TypeOK' <=> /\ row' \in [Runs -> {"none", "running", "success", "partial_failure", "failed"}]
                   /\ raised' \subseteq Runs
                   /\ answer' \in [Runs -> {"none", "200", "409", "409 with id", "500"}]
  BY <1>2, <1>6 DEF TypeOK, PoolType
<1>o. ASSUME s \in Runs, RowOf(s)', \A t \in Runs \ {s} : row'[t] = row[t] /\ answer'[t] = answer[t]
                                                    /\ (t \in raised' <=> t \in raised)
      PROVE  RowOK'
  <2>1. \A t \in Runs \ {s} : pc'[t] = pc[t] BY <1>3, <1>n, <1>r
  <2>2. \A t \in Runs \ {s} : RowOf(t)' BY <1>o, <2>1 DEF IInv, RowOK, RowOf
  <2> QED BY <1>o, <2>2 DEF RowOK
<1>s. s \in Runs => RowOf(s) BY DEF IInv, RowOK
<1>7. CASE s \in Runs /\ Conflict(s)
  <2>1. Running = {} BY <1>t DEF Running, IInv, RowOK, RowOf
  <2>2. /\ UNCHANGED <<row, raised>> /\ pc'[s] = "done" /\ pc[s] = "conflict"
        /\ \E a \in {"409", "500"} : answer' = [answer EXCEPT ![s] = a]
    BY <2>1, <1>7, <1>n DEF Conflict, Answer, Goto
  <2>3. TypeOK' BY <2>2, <1>g, <1>t DEF TypeOK
  <2>4. RowOf(s)' BY <2>2, <1>7, <1>s, <1>t DEF RowOf, TypeOK
  <2>5. RowOK' BY <2>2, <2>4, <1>7, <1>o, <1>t DEF TypeOK
  <2> QED BY <2>3, <2>5, <1>2, <1>5 DEF IInv
<1>8. CASE s \in Runs /\ InsertFails(s)
  <2>2. /\ UNCHANGED <<row, raised>> /\ pc'[s] = "done" /\ pc[s] = "body"
        /\ answer' = [answer EXCEPT ![s] = "500"]
    BY <1>8, <1>n DEF InsertFails, Answer, Goto
  <2>3. TypeOK' BY <2>2, <1>g, <1>t DEF TypeOK
  <2>4. RowOf(s)' BY <2>2, <1>8, <1>s, <1>t DEF RowOf, TypeOK
  <2>5. RowOK' BY <2>2, <2>4, <1>8, <1>o, <1>t DEF TypeOK
  <2> QED BY <2>3, <2>5, <1>2, <1>5 DEF IInv
<1>9. CASE s \in Runs /\ (Committed(s) \/ Raise(s))
  <2>1. /\ UNCHANGED <<row, raised, answer>>
        /\ \/ pc[s] = "committed" /\ pc'[s] \in {"unlock", "record"}
           \/ pc[s] = "body" /\ pc'[s] = "record"
    BY <1>9, <1>n DEF Committed, Raise, Goto
  <2>2. TypeOK' BY <2>1, <1>g, <1>t DEF TypeOK
  <2>3. RowOf(s)' BY <2>1, <1>9, <1>s DEF RowOf, Outcomes
  <2>4. RowOK' BY <2>1, <2>3, <1>9, <1>o
  <2> QED BY <2>2, <2>4, <1>2, <1>5 DEF IInv
<1>10. CASE s \in Runs /\ EndRecord(s)
  <2>1. /\ answer' = answer /\ raised' = raised \cup {s}
        /\ pc[s] = "recording" /\ pc'[s] = "unlock"
        /\ row' = [row EXCEPT ![s] = IF @ = "none" \/ ~Live(s) THEN @ ELSE "failed"]
    BY <1>10, <1>n DEF EndRecord, Mark, Goto
  <2>2. \E r \in {row[s], "failed"} : row' = [row EXCEPT ![s] = r]
    BY <2>1
  <2>3. PICK r \in {row[s], "failed"} : row' = [row EXCEPT ![s] = r] BY <2>2
  <2>4. TypeOK'
    <3>1. r \in {"none", "running", "success", "partial_failure", "failed"}
      BY <1>10, <1>t DEF TypeOK
    <3> QED BY <2>1, <2>3, <3>1, <1>10, <1>g, <1>t DEF TypeOK
  <2>5. row'[s] = r /\ \A t \in Runs \ {s} : row'[t] = row[t]
    BY <2>3, <1>10, <1>t DEF TypeOK
  <2>6. RowOf(s)'
    <3>1. answer[s] = "none" /\ row[s] # "running" BY <2>1, <1>10, <1>s DEF RowOf
    <3>2. s \in raised' BY <2>1
    <3> QED BY <2>1, <2>5, <3>1, <3>2 DEF RowOf
  <2>7. RowOK' BY <2>1, <2>5, <2>6, <1>10, <1>o
  <2> QED BY <2>4, <2>7, <1>2, <1>5 DEF IInv
<1>11. CASE s \in Runs /\ Close(s)
  <2>1. /\ UNCHANGED row /\ raised' = raised \ {s} /\ pc'[s] = "done" /\ pc[s] = "closing"
        /\ \/ s \notin raised /\ answer' = [answer EXCEPT ![s] = "200"]
           \/ answer' = [answer EXCEPT ![s] = "500"]
    BY <1>11, <1>n DEF Close, Answer, Goto
  <2>2. TypeOK' BY <2>1, <1>g, <1>t DEF TypeOK
  <2>3. RowOf(s)' BY <2>1, <1>11, <1>s, <1>t DEF RowOf, TypeOK, Outcomes
  <2>4. RowOK' BY <2>1, <2>3, <1>11, <1>o, <1>t DEF TypeOK
  <2> QED BY <2>2, <2>4, <1>2, <1>5 DEF IInv
<1>12. CASE s \in Readers /\ EndRead(s)
  <2>1. UNCHANGED <<row, raised, answer>> BY <1>12 DEF EndRead
  <2>2. TypeOK' BY <2>1, <1>g, <1>t DEF TypeOK
  <2>3. \A t \in Runs : pc'[t] = pc[t] BY <1>3, <1>12, <1>n, <1>r
  <2>4. RowOK' BY <2>1, <2>3 DEF IInv, RowOK, RowOf
  <2> QED BY <2>2, <2>4, <1>2, <1>5 DEF IInv
<1> QED BY <1>7, <1>8, <1>9, <1>10, <1>11, <1>12

\* The commit of a run (monitor_runner.py:94) leaves the connection in its hands.
LEMMA CommitStep ==
    ASSUME IInv, NEW t \in Runs, Commit(t)
    PROVE  IInv'
<1>t. TypeOK /\ ConnOK /\ PoolOK /\ t \in Sessions /\ Runs \subseteq Sessions
  BY DEF IInv, Sessions
<1>1. PICK status \in Outcomes : row' = [row EXCEPT ![t] = status] BY DEF Commit, Outcomes
<1>2. /\ pc[t] = "body" /\ pc' = [pc EXCEPT ![t] = "committed"]
      /\ UNCHANGED <<conn, pool, open, dead, holder, depth, raised, answer>>
  BY DEF Commit, Goto
<1>3. TypeOK' BY <1>1, <1>2, <1>t DEF TypeOK, PCs, Outcomes
<1>4. ConnOK' /\ PoolOK' BY <1>2, <1>t DEF ConnOK, PoolOK, InHand, TypeOK
<1>5. LockOK' BY <1>2, <1>t DEF IInv, LockOK, Live, TypeOK
<1>6. RowOK' BY <1>1, <1>2, <1>t DEF IInv, RowOK, RowOf, Outcomes, TypeOK
<1> QED BY <1>3, <1>4, <1>5, <1>6 DEF IInv

\* A lost connection that cannot be made anew (pool_pre_ping, database.py:15) goes
\* to the end of the queue: the pool has the same connections.
LEMMA Rotated ==
    ASSUME NEW S, NEW p \in Seq(S), p # <<>>, NEW r, r = Append(Tail(p), Head(p))
    PROVE  /\ r \in Seq(S) /\ Len(r) = Len(p) /\ Len(p) \in Nat \ {0}
           /\ r[Len(p)] = p[1]
           /\ \A i \in 1..(Len(p) - 1) : r[i] = p[i + 1]
<1>1. /\ Len(p) \in Nat \ {0} /\ Tail(p) \in Seq(S) /\ Head(p) = p[1]
      /\ Head(p) \in S /\ Len(Tail(p)) = Len(p) - 1
      /\ \A i \in 1..(Len(p) - 1) : Tail(p)[i] = p[i + 1]
  OBVIOUS
<1>2. ASSUME NEW q \in Seq(S), NEW h \in S
      PROVE  /\ Append(q, h) \in Seq(S) /\ Len(Append(q, h)) = Len(q) + 1
             /\ Append(q, h)[Len(q) + 1] = h
             /\ \A i \in 1..Len(q) : Append(q, h)[i] = q[i]
  OBVIOUS
<1>3. /\ r \in Seq(S) /\ Len(r) = Len(Tail(p)) + 1 /\ r[Len(Tail(p)) + 1] = Head(p)
      /\ \A i \in 1..Len(Tail(p)) : r[i] = Tail(p)[i]
  BY <1>1, <1>2
<1>4. Len(Tail(p)) + 1 = Len(p) BY <1>1
<1> QED BY <1>1, <1>3, <1>4

\* A statement that gets no connection (database.py:13-19) ends the request, or
\* the record of its failure; the connections stay where they are.
LEMMA FailStep ==
    ASSUME IInv, OwnStatements, NEW s \in Sessions, CheckoutFails(s)
    PROVE  IInv'
<1>t. TypeOK /\ ConnOK /\ PoolOK /\ Runs \subseteq Sessions BY DEF IInv, Sessions
<1> DEFINE label == IF pc[s] = "record" THEN "unlock" ELSE "done"
<1>1. /\ pc[s] \in {"idle", "record", "unlock"} /\ pc' = [pc EXCEPT ![s] = label]
      /\ UNCHANGED <<conn, open, dead, holder, depth, row>>
      /\ raised' = IF pc[s] = "record" THEN raised \cup {s} ELSE raised \ {s}
      /\ answer' = answer \/ (s \in Runs /\ pc[s] # "record" /\ answer' = [answer EXCEPT ![s] = "500"])
      /\ NoConnection
  BY DEF CheckoutFails, Goto, Answer
<1>2. /\ pool' \in Seq(Conns) /\ PoolOK'
  <2>1. CASE UNCHANGED pool BY <2>1, <1>1, <1>t DEF TypeOK, PoolOK
  <2>2. CASE pool # <<>> /\ pool' = Append(Tail(pool), Head(pool))
    <3> DEFINE f(i) == IF i = Len(pool) THEN 1 ELSE i + 1
    <3>0. /\ pool' \in Seq(Conns) /\ Len(pool') = Len(pool) /\ Len(pool) \in Nat \ {0}
          /\ pool'[Len(pool)] = pool[1]
          /\ \A i \in 1..(Len(pool) - 1) : pool'[i] = pool[i + 1]
      <4>1. pool \in Seq(Conns) BY <1>t DEF TypeOK
      <4> QED BY ONLY <2>2, <4>1, Rotated
    <3>1. /\ pool' \in Seq(Conns) /\ Len(pool') = Len(pool) /\ Len(pool) \in Nat
          /\ \A i \in 1..Len(pool) : pool'[i] = pool[f(i)]
      BY <3>0
    <3>2. \A i \in 1..Len(pool) : f(i) \in 1..Len(pool)
      BY <3>1
    <3>3. \A i, j \in 1..Len(pool) : i # j => f(i) # f(j)
      BY <3>1
    <3> HIDE DEF f
    <3> QED BY <3>1, <3>2, <3>3, <1>1, <1>t DEF PoolOK
  <2> QED BY <2>1, <2>2, <1>1 DEF NoConnection
<1>3. ConnOK' BY <1>1, <1>t DEF ConnOK, InHand, TypeOK
<1>4. LockOK' BY <1>1, <1>t DEF IInv, LockOK, Live, TypeOK
<1>5. pc[s] = "record" => s \in Runs
  BY DEF OwnStatements, Sessions
<1>6. TypeOK' BY <1>1, <1>2, <1>5, <1>t DEF TypeOK, PCs
<1>7. RowOK' BY <1>1, <1>5, <1>t DEF IInv, RowOK, RowOf, TypeOK, Outcomes
<1> QED BY <1>2, <1>3, <1>4, <1>6, <1>7 DEF IInv

\* A lost connection takes its lock with it, and no run at work on another one
\* had that (locking.py:27-30).
LEMMA DisconnectStep ==
    ASSUME IInv, NEW c \in Conns, Disconnect(c)
    PROVE  IInv'
<1>t. TypeOK /\ ConnOK /\ PoolOK /\ Runs \subseteq Sessions BY DEF IInv, Sessions
<1>1. /\ c \in open /\ dead' = dead \cup {c}
      /\ holder' = IF holder = c THEN None ELSE holder
      /\ depth' = IF holder = c THEN 0 ELSE depth
      /\ UNCHANGED <<pc, conn, pool, open, row, raised, answer>>
  BY DEF Disconnect
<1>2. TypeOK' BY <1>1, <1>t DEF TypeOK
<1>3. ConnOK' /\ PoolOK' /\ RowOK'
  BY <1>1, <1>t DEF IInv, ConnOK, PoolOK, RowOK, RowOf
<1>4. LockOK' BY <1>1, <1>t DEF IInv, LockOK, Live
<1> QED BY <1>2, <1>3, <1>4 DEF IInv
-----------------------------------------------------------------------------
\* The inductive invariant: a restart closes every connection and ends every
\* request under way, and so leaves no run at work.
THEOREM Invariance == Spec => []IInv
<1>1. Init => IInv BY InitIInv
<1>2. IInv /\ OwnStatements /\ [Next]_vars => IInv'
  <2> SUFFICES ASSUME IInv, OwnStatements, [Next]_vars PROVE IInv'
    OBVIOUS
  <2>1. CASE \E t \in Runs : \/ TryLock(t) \/ Conflict(t) \/ InsertFails(t)
                             \/ Commit(t) \/ Committed(t) \/ Raise(t)
                             \/ BeginRecord(t) \/ EndRecord(t)
                             \/ Unlock(t) \/ Close(t)
    <3>1. Runs \subseteq Sessions BY DEF Sessions
    <3> QED BY <2>1, <3>1, CheckoutStep, CheckinStep, CommitStep
  <2>2. CASE \E q \in Readers : BeginRead(q) \/ EndRead(q)
    <3>1. Readers \subseteq Sessions BY DEF Sessions
    <3> QED BY <2>2, <3>1, CheckoutStep, CheckinStep
  <2>3. CASE Restart
    <3> USE <2>3, MonitorAssumption DEF Restart, IInv
    <3>0. pc' \in [Sessions -> PCs] BY DEF TypeOK, PCs
    <3>c. conn' \in [Sessions -> Conns \cup {None}] OBVIOUS
    <3>l. pool' \in Seq(Conns) /\ depth' \in Nat OBVIOUS
    <3>1. TypeOK' BY <3>0, <3>c, <3>l DEF TypeOK
    <3>2. ConnOK' /\ PoolOK' BY DEF ConnOK, PoolOK, InHand
    <3>3. LockOK' BY DEF LockOK, Sessions
    <3>4. RowOK' BY DEF RowOK, RowOf, Sessions
    <3> QED BY <3>1, <3>2, <3>3, <3>4
  <2>4. CASE UNCHANGED vars
    BY <2>4 DEF vars, IInv, TypeOK, ConnOK, PoolOK, LockOK, RowOK, RowOf, Live
  <2>5. CASE \E s \in Sessions : CheckoutFails(s) BY <2>5, FailStep
  <2>6. CASE \E c \in Conns : Disconnect(c) BY <2>6, DisconnectStep
  <2> QED BY <2>1, <2>2, <2>3, <2>4, <2>5, <2>6 DEF Next
<1> QED BY <1>1, <1>2, EachItsOwn, PTL DEF Spec

\* The service of run_monitor and generate_changelog on one pool behaves, seen
\* from the runs and the other requests, as MonitorLock says: generating a
\* changelog (changelog.py) is a stutter of a session that has its connection.
THEOREM ServiceImplementsMonitor == ServiceSpec => Spec
<1>1. ServiceInit => Init BY DEF ServiceInit
<1>2. [ServiceNext]_serviceVars => [Next]_vars
  BY DEF ServiceNext, serviceVars, Monitoring, Reporting, Ask, CacheLookup, Generate,
         FlushChangelog, EndSession, RestartService, Next
<1> QED BY <1>1, <1>2, PTL DEF ServiceSpec, Spec

\* The variables of the service always have their types, and a changelog is
\* worked on only between the first statement of its session and its close
\* (generate_changelog, changelog.py; get_session, database.py).
THEOREM ServiceTypeCorrect == ServiceSpec => []ServiceTypeOK
<1>1. ServiceInit /\ IInv => ServiceTypeOK
  BY DEF ServiceInit, ServiceTypeOK, IInv, Steps
<1>2. ServiceTypeOK /\ IInv' /\ [ServiceNext]_serviceVars => ServiceTypeOK'
  <2> SUFFICES ASSUME ServiceTypeOK, TypeOK', [ServiceNext]_serviceVars
               PROVE  ServiceTypeOK'
    BY DEF IInv
  <2> USE MonitorAssumption DEF ServiceTypeOK, Steps
  <2>r. Readers \subseteq Sessions /\ Runs \subseteq Sessions
    BY DEF Sessions
  <2>p. pc \in [Sessions -> PCs] BY DEF TypeOK
  <2>1. ASSUME NEW t \in Runs, TryLock(t) \/ Monitoring(t), UNCHANGED <<asked, step, saved>>
        PROVE  ServiceTypeOK'
    <3>1. \A q \in Readers : pc'[q] = pc[q]
      BY <2>1, <2>p, <2>r DEF Monitoring, TryLock, Conflict, InsertFails, Commit, Committed,
                    Raise, BeginRecord, EndRecord, Unlock, Close, Goto
    <3> QED BY <3>1, <2>1
  <2>7. ASSUME NEW s \in Sessions, CheckoutFails(s), UNCHANGED <<asked, step, saved>>
        PROVE  ServiceTypeOK'
    <3>1. \A q \in Readers : pc[q] = "reading" => pc'[q] = pc[q]
      BY <2>7, <2>p, <2>r DEF CheckoutFails, Goto
    <3> QED BY <3>1, <2>7
  <2>8. ASSUME NEW c \in Conns, Disconnect(c), UNCHANGED <<asked, step, saved>>
        PROVE  ServiceTypeOK'
    BY <2>8 DEF Disconnect
  <2>2. ASSUME NEW q \in Readers, Ask(q) PROVE ServiceTypeOK'
    <3>1. /\ pc' = [pc EXCEPT ![q] = "reading"] /\ UNCHANGED <<asked, saved>>
          /\ \E s \in {"off", "lookup"} : step' = [step EXCEPT ![q] = s]
      BY <2>2 DEF Ask, BeginRead, Goto, Advance
    <3> QED BY <3>1, <2>p, <2>r
  <2>3. ASSUME NEW q \in Readers, CacheLookup(q) \/ Generate(q) \/ FlushChangelog(q)
        PROVE  ServiceTypeOK'
    <3>1. /\ UNCHANGED <<pc, asked, saved>> /\ step[q] \notin {"off", "conflict"}
          /\ \E s \in Steps : step' = [step EXCEPT ![q] = s]
      BY <2>3 DEF CacheLookup, Generate, FlushChangelog, Advance, vars
    <3> QED BY <3>1
  <2>4. ASSUME NEW q \in Readers, EndSession(q) PROVE ServiceTypeOK'
    <3>1. /\ pc' = [pc EXCEPT ![q] = "done"] /\ UNCHANGED <<asked, saved>>
          /\ \E s \in {"off", "conflict"} : step' = [step EXCEPT ![q] = s]
      BY <2>4 DEF EndSession, EndRead, Goto, Advance
    <3> QED BY <3>1, <2>p, <2>r
  <2>5. CASE RestartService
    BY <2>5 DEF RestartService
  <2>6. CASE UNCHANGED serviceVars
    BY <2>6 DEF serviceVars, vars
  <2> QED BY <2>1, <2>2, <2>3, <2>4, <2>5, <2>6, <2>7, <2>8 DEF ServiceNext, Reporting, Monitoring
<1> QED BY <1>1, <1>2, Invariance, ServiceImplementsMonitor, PTL DEF ServiceSpec

\* Two runs are never at work together, and the one at work holds the advisory
\* lock (locking.py:21-37, monitor_runner.py:43-94): for every pool size, any
\* number of requests beside it, late unlocks, overflow connections, connections
\* lost at any time and restarts.  A run whose connection is lost is no longer at
\* work: it cannot commit.
THEOREM OneRunAtATimeCorrect == ServiceSpec => []OneRunAtATime
<1>1. IInv => OneRunAtATime
  <2> SUFFICES ASSUME IInv, NEW t \in Runs, pc[t] = "body", Live(t)
               PROVE  /\ holder = conn[t] /\ depth > 0
                      /\ \A u \in Runs : pc[u] = "body" /\ Live(u) => u = t
    BY DEF OneRunAtATime
  <2>1. \A u \in Runs : pc[u] = "body" /\ Live(u) => holder = conn[u] /\ depth > 0
    BY DEF IInv, LockOK
  <2>2. \A u \in Runs : pc[u] = "body" => conn[u] # None
    BY DEF IInv, ConnOK, InHand, Sessions
  <2> QED BY <2>1, <2>2 DEF IInv, ConnOK, Sessions
<1> QED BY <1>1, Invariance, ServiceImplementsMonitor, PTL

\* Wherever a connection is lost or not to be had, up to the unlock that comes
\* before the answer (locking.py:34-37): a caller who was answered 200 finds the
\* run in the history with its final status, a run marked failed was not answered
\* 200, and no 409 names a run (monitor_runner.py:46-58, 94-110).
THEOREM HistoryCorrect == ServiceSpec => []HistoryShowsFinishedRuns
<1>1. IInv => HistoryShowsFinishedRuns
  BY DEF IInv, RowOK, RowOf, Outcomes, HistoryShowsFinishedRuns
<1> QED BY <1>1, Invariance, ServiceImplementsMonitor, PTL
-----------------------------------------------------------------------------
(***************************************************************************)
(* Nobody waits for ever: the waits are for a connection of the pool and   *)
(* for the uncommitted changelog of another request.                       *)
(***************************************************************************)
\* Every connection is in the hands of a session or idle in the pool, and only
\* who had a connection gets past the first statement.
AllAccountedFor ==
    /\ \A c \in open : \/ \E s \in Sessions : conn[s] = c
                       \/ \E i \in 1..Len(pool) : pool[i] = c
    /\ Conns = {} => \A s \in Sessions : pc[s] \in {"idle", "done"}

\* The guards of Monitoring and Reporting, where waits are disabled steps.
FreeConnection == pool # <<>> \/ open # Conns

RunCanGoOn(t) ==
    \/ pc[t] \in {"conflict", "body", "committed", "recording", "closing"}
    \/ pc[t] \in {"record", "unlock"} /\ FreeConnection

ReaderCanGoOn(q) ==
    \/ pc[q] = "reading" /\ (step[q] \in {"off", "cached", "flushed", "conflict"} \/ ~Live(q))
    \/ step[q] = "lookup" /\ Live(q)
    \/ step[q] = "generate"
    \/ /\ step[q] = "flush" /\ Live(q)
       /\ \A u \in Readers \ {q} : step[u] = "flushed" /\ Live(u) => asked[u] # asked[q]

SomebodyCanGoOn ==
    (\E s \in Sessions : pc[s] \notin {"idle", "done"}) =>
       \/ \E t \in Runs : RunCanGoOn(t)
       \/ \E q \in Readers : ReaderCanGoOn(q)
-----------------------------------------------------------------------------
\* A connection that is taken leaves the pool for its session.
LEMMA CheckoutAccounts ==
    ASSUME PoolType, AllAccountedFor, NEW s \in Sessions, NEW c \in Conns,
           conn[s] = None, Checkout(s, c)
    PROVE  \A d \in open' : \/ \E u \in Sessions : conn'[u] = d
                            \/ \E i \in 1..Len(pool') : pool'[i] = d
<1> USE MonitorAssumption DEF PoolType
<1>1. conn' = [conn EXCEPT ![s] = c] BY DEF Checkout
<1>2. ASSUME NEW d \in open', d # c
      PROVE  \/ \E u \in Sessions : conn'[u] = d
             \/ \E i \in 1..Len(pool') : pool'[i] = d
  <2>1. d \in open BY <1>2 DEF Checkout
  <2>2. CASE \E u \in Sessions : conn[u] = d BY <2>2, <1>1, <2>1
  <2>3. CASE \E i \in 1..Len(pool) : pool[i] = d
    <3>1. PICK i \in 1..Len(pool) : pool[i] = d BY <2>3
    <3>2. pool # <<>> BY <3>1
    <3>3. c = pool[1] /\ pool' = Tail(pool) BY <3>2 DEF Checkout
    <3>4. i # 1 BY <3>1, <3>3, <1>2
    <3>5. i - 1 \in 1..Len(pool') /\ pool'[i - 1] = pool[i] BY <3>2, <3>3, <3>4
    <3> QED BY <3>1, <3>5
  <2> QED BY <2>1, <2>2, <2>3 DEF AllAccountedFor
<1>3. conn'[s] = c BY <1>1
<1> QED BY <1>2, <1>3

\* A connection that is given back goes to the pool or is closed.
LEMMA CheckinAccounts ==
    ASSUME PoolType, AllAccountedFor, NEW s \in Sessions, conn[s] \in Conns, Checkin(s)
    PROVE  \A d \in open' : \/ \E u \in Sessions : conn'[u] = d
                            \/ \E i \in 1..Len(pool') : pool'[i] = d
<1> USE DEF PoolType
<1> SUFFICES ASSUME NEW d \in open'
             PROVE  \/ \E u \in Sessions : conn'[u] = d
                    \/ \E i \in 1..Len(pool') : pool'[i] = d
  OBVIOUS
<1>1. conn' = [conn EXCEPT ![s] = None] BY DEF Checkin
<1>2. d \in open BY DEF Checkin
<1>3. CASE Len(pool) < PoolSize
  <2>1. pool' = Append(pool, conn[s]) BY <1>3 DEF Checkin
  <2>2. /\ Len(pool') = Len(pool) + 1 /\ pool'[Len(pool) + 1] = conn[s]
        /\ \A i \in 1..Len(pool) : pool'[i] = pool[i]
    BY <2>1
  <2>3. CASE d = conn[s]
    <3>1. Len(pool) + 1 \in 1..Len(pool') BY <2>2
    <3> QED BY <2>2, <2>3, <3>1
  <2>4. CASE d # conn[s] /\ \E u \in Sessions : conn[u] = d BY <2>4, <1>1
  <2>5. CASE \E i \in 1..Len(pool) : pool[i] = d BY <2>5, <2>2
  <2> QED BY <1>2, <2>3, <2>4, <2>5 DEF AllAccountedFor
<1>4. CASE ~(Len(pool) < PoolSize)
  <2>1. pool' = pool /\ d # conn[s] BY <1>4 DEF Checkin
  <2>2. CASE \E u \in Sessions : conn[u] = d BY <2>1, <2>2, <1>1
  <2> QED BY <1>2, <2>1, <2>2 DEF AllAccountedFor
<1> QED BY <1>3, <1>4

\* Connections are never lost while the service runs (database.py:13-19), and
\* a restart closes all of them.
THEOREM NoConnectionLost == Spec => []AllAccountedFor
<1>1. Init => AllAccountedFor BY DEF Init, AllAccountedFor
<1>2. IInv /\ AllAccountedFor /\ [Next]_vars => AllAccountedFor'
  <2> SUFFICES ASSUME IInv, AllAccountedFor, [Next]_vars PROVE AllAccountedFor'
    OBVIOUS
  <2>t. TypeOK /\ PoolType /\ ConnOK BY DEF IInv, TypeOK, PoolType
  <2>r. Runs \subseteq Sessions /\ Readers \subseteq Sessions BY DEF Sessions
  <2>1. ASSUME NEW s \in Sessions, NEW c \in Conns, Checkout(s, c),
               pc[s] \in {"idle", "record", "unlock"}
        PROVE  AllAccountedFor'
    <3>1. conn[s] = None BY <2>1, <2>t DEF ConnOK, InHand
    <3> QED BY <2>1, <2>t, <3>1, CheckoutAccounts DEF AllAccountedFor
  <2>2. ASSUME NEW s \in Sessions, Checkin(s), pc[s] \in InHand
        PROVE  AllAccountedFor'
    <3>1. conn[s] \in Conns BY <2>2, <2>t DEF ConnOK, PoolType
    <3> QED BY <2>2, <2>t, <3>1, CheckinAccounts DEF AllAccountedFor
  <2>3. CASE \E t \in Runs : TryLock(t) \/ BeginRecord(t) \/ Unlock(t)
    BY <2>1, <2>3, <2>r DEF TryLock, BeginRecord, Unlock
  <2>4. CASE \E q \in Readers : BeginRead(q)
    BY <2>1, <2>4, <2>r DEF BeginRead
  <2>5. CASE \E t \in Runs : \/ Conflict(t) \/ InsertFails(t) \/ Committed(t) \/ Raise(t)
                             \/ EndRecord(t) \/ Close(t)
    BY <2>2, <2>5, <2>r DEF Conflict, InsertFails, Committed, Raise, EndRecord, Close, InHand
  <2>6. CASE \E q \in Readers : EndRead(q)
    BY <2>2, <2>6, <2>r DEF EndRead, InHand
  <2>7. CASE Restart BY <2>7 DEF Restart, AllAccountedFor
  <2>8. CASE UNCHANGED vars BY <2>8 DEF vars, AllAccountedFor
  <2>9. CASE \E t \in Runs : Commit(t)
    BY <2>9, <2>t, <2>r DEF Commit, Goto, AllAccountedFor, TypeOK
  <2>10. CASE \E c \in Conns : Disconnect(c)
    BY <2>10 DEF Disconnect, AllAccountedFor
  <2>11. ASSUME NEW s \in Sessions, CheckoutFails(s) PROVE AllAccountedFor'
    <3>1. UNCHANGED <<conn, open>> /\ NoConnection /\ pc' \in [Sessions -> PCs]
      BY <2>11, <2>t DEF CheckoutFails, Goto, TypeOK, PCs
    <3>2. \A c : (\E i \in 1..Len(pool) : pool[i] = c) => \E i \in 1..Len(pool') : pool'[i] = c
      <4>1. CASE UNCHANGED pool BY <4>1
      <4>2. CASE pool # <<>> /\ pool' = Append(Tail(pool), Head(pool))
        <5>1. /\ Len(pool') = Len(pool) /\ Len(pool) \in Nat \ {0}
              /\ pool'[Len(pool)] = pool[1]
              /\ \A i \in 1..(Len(pool) - 1) : pool'[i] = pool[i + 1]
          <6>1. pool \in Seq(Conns) BY <2>t DEF TypeOK
          <6> QED BY ONLY <4>2, <6>1, Rotated
        <5>2. ASSUME NEW i \in 1..Len(pool) PROVE \E j \in 1..Len(pool') : pool'[j] = pool[i]
          <6>1. CASE i = 1 BY <5>1, <6>1
          <6>2. CASE i # 1
            <7>1. i - 1 \in 1..(Len(pool) - 1) /\ (i - 1) + 1 = i BY <5>1, <6>2
            <7>2. pool'[i - 1] = pool[i] BY <5>1, <7>1
            <7>3. i - 1 \in 1..Len(pool') BY <5>1, <7>1
            <7> QED BY <7>2, <7>3
          <6> QED BY <6>1, <6>2
        <5> QED BY <5>2
      <4> QED BY <4>1, <4>2, <3>1 DEF NoConnection
    <3>3. Conns = {} => \A u \in Sessions : pc'[u] \in {"idle", "done"}
      BY <2>11, <3>1, <2>t DEF AllAccountedFor, CheckoutFails, Goto, TypeOK
    <3> QED BY <3>1, <3>2, <3>3 DEF AllAccountedFor
  <2> QED BY <2>3, <2>4, <2>5, <2>6, <2>7, <2>8, <2>9, <2>10, <2>11 DEF Next
<1> QED BY <1>1, <1>2, Invariance, PTL DEF Spec

\* While requests are under way one of them can go on, for every size of the
\* pool (database.py:13-19) and any number of changelogs being written
\* (changelog.py:112-153): who waits for a connection does not have one, and
\* who waits for a changelog waits for a request that only has to answer.
THEOREM NobodyWaitsForAllCorrect == ServiceSpec => []SomebodyCanGoOn
<1>1. IInv /\ OwnStatements /\ AllAccountedFor /\ ServiceTypeOK => SomebodyCanGoOn
  <2> SUFFICES ASSUME IInv, OwnStatements, AllAccountedFor, ServiceTypeOK,
                      NEW s \in Sessions, pc[s] \notin {"idle", "done"}
               PROVE  \/ \E t \in Runs : RunCanGoOn(t)
                      \/ \E q \in Readers : ReaderCanGoOn(q)
    BY DEF SomebodyCanGoOn
  <2>t. pc \in [Sessions -> PCs] /\ PoolType BY DEF IInv, TypeOK, PoolType
  <2>s. /\ step \in [Readers -> Steps]
        /\ \A q \in Readers : step[q] \notin {"off", "conflict"} => pc[q] = "reading"
    BY DEF ServiceTypeOK
  <2>1. CASE \E u \in Sessions : pc[u] = "reading" /\ u \in Readers
    <3>1. PICK q \in Readers : pc[q] = "reading" BY <2>1
    <3>2. CASE step[q] # "flush" \/ ~Live(q)
      <4>1. step[q] \in Steps BY <2>s
      <4>2. ReaderCanGoOn(q) BY <3>1, <3>2, <4>1 DEF ReaderCanGoOn, Steps
      <4> QED BY <4>2
    <3>3. CASE /\ step[q] = "flush" /\ Live(q)
               /\ \A u \in Readers \ {q} : step[u] = "flushed" /\ Live(u) => asked[u] # asked[q]
      <4>1. ReaderCanGoOn(q) BY <3>3 DEF ReaderCanGoOn
      <4> QED BY <4>1
    <3>4. CASE \E u \in Readers : step[u] = "flushed"
      <4>1. PICK u \in Readers : step[u] = "flushed" BY <3>4
      <4>2. pc[u] = "reading" BY <4>1, <2>s
      <4>3. ReaderCanGoOn(u) BY <4>1, <4>2 DEF ReaderCanGoOn
      <4> QED BY <4>3
    <3> QED BY <3>2, <3>3, <3>4
  <2>2. CASE \E u \in Runs : pc[u] \in {"conflict", "body", "committed", "recording", "closing"}
    BY <2>2 DEF RunCanGoOn
  <2>3. CASE \A u \in Sessions : pc[u] \notin InHand
    <3>1. \A u \in Sessions : conn[u] = None BY <2>3 DEF IInv, ConnOK
    <3>2. FreeConnection
      <4>1. CASE pool = <<>>
        <5>0. 1..Len(pool) = {} BY <4>1
        <5>1. ASSUME NEW c \in open PROVE FALSE
          <6>1. c # None BY MonitorAssumption, <2>t DEF PoolType
          <6> QED BY <3>1, <5>0, <6>1 DEF AllAccountedFor
        <5>2. Conns # {} BY DEF AllAccountedFor
        <5> QED BY <5>1, <5>2 DEF FreeConnection
      <4> QED BY <4>1 DEF FreeConnection
    <3>3. s \in Runs /\ pc[s] \in {"record", "unlock"}
      BY <2>3, <2>t DEF OwnStatements, InHand, PCs, Sessions
    <3> QED BY <3>2, <3>3 DEF RunCanGoOn
  <2> QED BY <2>1, <2>2, <2>3 DEF OwnStatements, InHand, Sessions
<1> QED BY <1>1, Invariance, EachItsOwn, NoConnectionLost, ServiceTypeCorrect,
           ServiceImplementsMonitor, PTL
=============================================================================
