----------------------------- MODULE StoreProofs -----------------------------
(***************************************************************************)
(* Proofs about Store, for any number of tasks, connections and calls.     *)
(***************************************************************************)
EXTENDS Store, TLAPS

(* What a call has got done: it holds the lock from its write to its       *)
(* commit, what it has written is the effect of its operation on the       *)
(* committed table, and what it has fetched is the row written.            *)
WorkOf(t) ==
  LET k == task[t] IN
  /\ k.op \in Table!Ops(db)
  /\ k.pc = "idle" => k.op = Table!List
  /\ k.pc = "written" => lock = k.conn /\ k.op.kind # "list"
  /\ k.pc = "fetched" => (lock = k.conn <=> k.op.kind # "list")
  /\ k.pc \in {"written", "fetched"} /\ lock = k.conn => draft = Table!Apply(db, k.op)
  /\ k.pc = "fetched" /\ lock = k.conn => k.found = Table!Found(draft, k.op)

WorkInv ==
  /\ \A t \in Tasks : WorkOf(t)
  /\ lock = None => draft = db

(* The inductive invariant. *)
IInv == TypeOK /\ PoolIsSound /\ OwnTransaction /\ WorkInv

Rows == Seq([id : Nat, status : Statuses])

USE DefaultAssumption, PoolSizeAssumption, MaxCallsAssumption

-----------------------------------------------------------------------------
(* The operations have the types of the table and of answers, and rows are *)
(* never taken away.                                                       *)
LEMMA ApplyTypes ==
  ASSUME NEW r \in Seq(Statuses), NEW o \in Table!Ops(r)
  PROVE  /\ o \in Operation
         /\ Table!Apply(r, o) \in Seq(Statuses)
         /\ Len(Table!Apply(r, o)) >= Len(r)
         /\ Table!Found(Table!Apply(r, o), o) \in Rows
  <1>1. CASE o = Table!Create
    <2>1. Table!Apply(r, o) = Append(r, Default)
      BY <1>1 DEF Table!Apply, Table!Create
    <2>2. Table!Found(Append(r, Default), o) =
            <<[id |-> Len(r) + 1, status |-> Default]>>
      BY <1>1 DEF Table!Found, Table!Create, Table!Row
    <2>3. o \in Operation
      BY <1>1 DEF Operation, Table!Create
    <2> QED BY <2>1, <2>2, <2>3 DEF Rows
  <1>2. CASE o = Table!List
    <2>1. Table!Apply(r, o) = r /\ o \in Operation
      BY <1>2 DEF Table!Apply, Table!List, Operation
    <2>2. Table!Found(r, o) = [i \in 1 .. Len(r) |-> [id |-> i, status |-> r[i]]]
      BY <1>2 DEF Table!Found, Table!List, Table!Row
    <2>3. \A i \in 1 .. Len(r) : [id |-> i, status |-> r[i]] \in [id : Nat, status : Statuses]
      OBVIOUS
    <2>4. Table!Found(r, o) \in Rows
      BY <2>2, <2>3 DEF Rows
    <2> QED BY <2>1, <2>4
  <1>3. ASSUME NEW i \in 1 .. Len(r), NEW s \in Statuses, o = Table!Update(i, s)
        PROVE  /\ o \in Operation
               /\ Table!Apply(r, o) \in Seq(Statuses)
               /\ Len(Table!Apply(r, o)) >= Len(r)
               /\ Table!Found(Table!Apply(r, o), o) \in Rows
    <2>1. Table!Apply(r, o) = [r EXCEPT ![i] = s] /\ o \in Operation
      BY <1>3 DEF Table!Apply, Table!Update, Operation
    <2>2. Table!Found([r EXCEPT ![i] = s], o) = <<[id |-> i, status |-> s]>>
      BY <1>3 DEF Table!Found, Table!Update, Table!Row
    <2>3. [r EXCEPT ![i] = s] \in Seq(Statuses) /\ Len([r EXCEPT ![i] = s]) = Len(r)
      OBVIOUS
    <2>4. <<[id |-> i, status |-> s]>> \in Rows
      BY DEF Rows
    <2> QED BY <2>1, <2>2, <2>3, <2>4
  <1> QED BY <1>1, <1>2, <1>3 DEF Table!Ops

(* An operation that makes sense goes on making sense. *)
LEMMA OpsGrow ==
  ASSUME NEW r \in Seq(Statuses), NEW q \in Seq(Statuses), Len(q) >= Len(r)
  PROVE  Table!Ops(r) \subseteq Table!Ops(q)
  BY DEF Table!Ops

(* Which operations those are, by kind. *)
LEMMA Kinds ==
  ASSUME NEW r, NEW o \in Table!Ops(r)
  PROVE  /\ o.kind = "list" <=> o = Table!List
         /\ o.kind \in {"create", "update"} <=> o # Table!List
         /\ o = Table!List => Table!Apply(r, o) = r
  BY DEF Table!Ops, Table!Create, Table!List, Table!Update, Table!Apply

-----------------------------------------------------------------------------
LEMMA InitInv == Init => IInv
  <1> SUFFICES ASSUME Init PROVE IInv
    OBVIOUS
  <1>1. TypeOK
    BY DEF Init, TypeOK, NoTask, Task, Operation, Table!List, Conns, None, Holding
  <1>2. PoolIsSound /\ OwnTransaction
    BY DEF Init, PoolIsSound, OwnTransaction, NoTask, Conns, None
  <1>3. WorkInv
    BY DEF Init, WorkInv, WorkOf, NoTask, Table!Ops
  <1> QED BY <1>1, <1>2, <1>3 DEF IInv

(* The connections. *)
LEMMA ConnsNotNone == None \notin Conns
  BY DEF Conns, None

(* A call begins: it has no connection yet. *)
LEMMA CallKeeps ==
  ASSUME IInv, NEW t \in Tasks, Call(t)
  PROVE  IInv'
  <1> USE DEF IInv
  <1>1. PICK o \in Table!Ops(db) : task' = [task EXCEPT ![t] = Asking(o)]
    BY DEF Call
  <1>2. /\ task[t].pc = "idle" /\ calls < MaxCalls /\ calls' = calls + 1
        /\ UNCHANGED <<db, draft, lock, conns, stale, reply>>
    BY DEF Call
  <1>3. o \in Operation
    BY ApplyTypes DEF TypeOK
  <1>4. task[t].conn = None
    BY <1>2 DEF TypeOK, Holding
  <1>5. TypeOK'
    <2>1. Asking(o) \in Task /\ Asking(o).conn = None /\ Asking(o).pc = "acquire"
      BY <1>3 DEF Asking, Task
    <2>2. task' \in [Tasks -> Task] /\ calls' \in 0 .. MaxCalls
      BY <1>1, <1>2, <2>1 DEF TypeOK
    <2>3. \A u \in Tasks : (task[u].conn # None <=> task[u].pc \in Holding)'
      BY <1>1, <2>1 DEF TypeOK, Holding
    <2> QED BY <1>2, <2>2, <2>3 DEF TypeOK
  <1>6. PoolIsSound'
    BY <1>1, <1>2, <1>4, ConnsNotNone DEF PoolIsSound, TypeOK, Asking
  <1>7. OwnTransaction'
    BY <1>1, <1>2 DEF OwnTransaction, TypeOK, Asking, Holding
  <1>8. WorkInv'
    <2>1. WorkOf(t)'
      BY <1>1, <1>2 DEF WorkOf, TypeOK, Asking
    <2>2. ASSUME NEW u \in Tasks, u # t PROVE WorkOf(u)'
      BY <1>1, <1>2, <2>2 DEF WorkInv, WorkOf, TypeOK
    <2> QED BY <1>2, <2>1, <2>2 DEF WorkInv
  <1> QED BY <1>5, <1>6, <1>7, <1>8

(* It gets a free connection; if that has the lock, then in a transaction  *)
(* that was left open.                                                     *)
LEMMA AcquireKeeps ==
  ASSUME IInv, NEW t \in Tasks, Acquire(t)
  PROVE  IInv'
  <1> USE DEF IInv
  <1>1. PICK c \in Conns :
          /\ conns[c] = "free" /\ conns' = [conns EXCEPT ![c] = "used"]
          /\ task' = [task EXCEPT ![t].pc = "begin", ![t].conn = c]
    BY DEF Acquire
  <1>2. task[t].pc = "acquire" /\ UNCHANGED <<db, draft, lock, stale, reply, calls>>
    BY DEF Acquire
  <1>3. task[t].conn = None
    BY <1>2 DEF TypeOK, Holding
  <1>4. (lock = c => c \in stale) /\ \A u \in Tasks : task[u].conn # c
    BY <1>1, ConnsNotNone DEF PoolIsSound, OwnTransaction, TypeOK
  <1>5. TypeOK'
    BY <1>1, <1>2, ConnsNotNone DEF TypeOK, Task, Holding
  <1>6. PoolIsSound'
    BY <1>1, <1>3, <1>4, ConnsNotNone DEF PoolIsSound, TypeOK, Task
  <1>7. OwnTransaction'
    BY <1>1, <1>2, <1>4 DEF OwnTransaction, TypeOK, Task, Holding
  <1>8. WorkInv'
    BY <1>1, <1>2 DEF WorkInv, WorkOf, TypeOK, Task
  <1> QED BY <1>5, <1>6, <1>7, <1>8

LEMMA BeginKeeps ==
  ASSUME IInv, NEW t \in Tasks, Begin(t)
  PROVE  IInv'
  <1> USE DEF IInv, Begin
  <1>1. TypeOK'
    BY DEF TypeOK, Task, Holding
  <1>2. PoolIsSound'
    BY DEF PoolIsSound, TypeOK, Task
  <1>3. OwnTransaction'
    BY DEF OwnTransaction, TypeOK, Task, Holding
  <1>4. WorkInv'
    BY DEF WorkInv, WorkOf, TypeOK, Task
  <1> QED BY <1>1, <1>2, <1>3, <1>4

(* It writes: the lock was free, so what it writes on is the committed     *)
(* table, and no other call has written and not committed.                 *)
LEMMA WriteKeeps ==
  ASSUME IInv, NEW t \in Tasks, Write(t)
  PROVE  IInv'
  <1> USE DEF IInv
  <1>1. /\ task[t].pc = "ready" /\ task[t].op.kind # "list" /\ lock = None
        /\ lock' = task[t].conn /\ draft' = Table!Apply(db, task[t].op)
        /\ task' = [task EXCEPT ![t].pc = "written"]
        /\ UNCHANGED <<db, conns, stale, reply, calls>>
    BY DEF Write
  <1>2. task[t].conn \in Conns
    BY <1>1 DEF TypeOK, Task, Holding
  <1>3. task[t].op \in Table!Ops(db) /\ draft' \in Seq(Statuses)
    BY <1>1, ApplyTypes DEF WorkInv, WorkOf, TypeOK
  <1>4. TypeOK'
    BY <1>1, <1>2, <1>3 DEF TypeOK, Task, Holding
  <1>5. PoolIsSound'
    BY <1>1 DEF PoolIsSound, TypeOK, Task
  <1>6. OwnTransaction'
    BY <1>1 DEF OwnTransaction, TypeOK, Task, Holding
  <1>7. ASSUME NEW u \in Tasks PROVE WorkOf(u)'
    <2>1. CASE u = t
      BY <1>1, <2>1 DEF WorkInv, WorkOf, TypeOK, Task
    <2>2. CASE u # t
      <3>1. task'[u] = task[u] /\ task[u].conn # task[t].conn
        BY <1>1, <1>2, <2>2, ConnsNotNone DEF PoolIsSound, TypeOK
      <3>2. task[u].pc # "written" /\ (task[u].pc = "fetched" => task[u].op.kind = "list")
        BY <1>1, ConnsNotNone DEF WorkInv, WorkOf, TypeOK, Task, Holding
      <3> QED BY <1>1, <3>1, <3>2 DEF WorkInv, WorkOf
    <2> QED BY <2>1, <2>2
  <1>8. WorkInv'
    BY <1>1, <1>2, <1>7, ConnsNotNone DEF WorkInv
  <1> QED BY <1>4, <1>5, <1>6, <1>8

LEMMA SelectKeeps ==
  ASSUME IInv, NEW t \in Tasks, Select(t)
  PROVE  IInv'
  <1> USE DEF IInv
  <1> DEFINE found == Table!Found(IF task[t].pc = "written" THEN draft ELSE db, task[t].op)
  <1>1. /\ task[t].pc = "written" \/ (task[t].pc = "ready" /\ task[t].op.kind = "list")
        /\ task' = [task EXCEPT ![t].pc = "fetched", ![t].found = found]
        /\ UNCHANGED <<db, draft, lock, conns, stale, reply, calls>>
    BY DEF Select
  <1>2. found \in Rows
    <2>1. task[t].op \in Table!Ops(db) /\ WorkOf(t)
      BY DEF WorkInv, WorkOf
    <2>2. CASE task[t].pc = "written"
      BY <2>1, <2>2, ApplyTypes DEF WorkOf, TypeOK
    <2>3. CASE task[t].pc = "ready" /\ task[t].op.kind = "list"
      BY <2>1, <2>3, ApplyTypes, Kinds DEF TypeOK
    <2> QED BY <1>1, <2>2, <2>3
  <1> HIDE DEF found
  <1>3. task[t].conn \in Conns
    BY <1>1 DEF TypeOK, Task, Holding
  <1>4. TypeOK'
    <2>1. task' \in [Tasks -> Task]
      <3>1. task \in [Tasks -> Task] /\ task[t] \in Task
        BY DEF TypeOK
      <3>2. [task[t] EXCEPT !.pc = "fetched", !.found = found] \in Task
        BY <1>2, <3>1 DEF Task, Rows
      <3>3. task' = [task EXCEPT ![t] = [task[t] EXCEPT !.pc = "fetched", !.found = found]]
        BY <1>1, <3>1
      <3> QED BY <3>1, <3>2, <3>3
    <2>2. \A u \in Tasks : (task[u].conn # None <=> task[u].pc \in Holding)'
      BY <1>1 DEF TypeOK, Task, Holding
    <2> QED BY <1>1, <2>1, <2>2 DEF TypeOK
  <1>5. PoolIsSound'
    <2>1. \A u \in Tasks : task'[u].conn = task[u].conn
      BY <1>1 DEF TypeOK, Task
    <2>2. conns' = conns
      BY <1>1
    <2> QED BY <2>1, <2>2 DEF PoolIsSound
  <1>6. OwnTransaction'
    BY <1>1 DEF OwnTransaction, TypeOK, Task, Holding
  <1>7. task[t].pc = "ready" => lock # task[t].conn
    BY <1>3, ConnsNotNone DEF PoolIsSound, OwnTransaction, TypeOK
  <1>8. WorkInv'
    <2>1. ASSUME NEW u \in Tasks, u # t PROVE WorkOf(u)'
      BY <1>1, <2>1 DEF WorkInv, WorkOf, TypeOK
    <2>2. WorkOf(t)'
      BY <1>1, <1>7 DEF WorkInv, WorkOf, TypeOK, Task, found
    <2> QED BY <1>1, <2>1, <2>2 DEF WorkInv
  <1> QED BY <1>4, <1>5, <1>6, <1>8

(* It commits: the table becomes what it has written, and the lock is free *)
(* again.                                                                  *)
LEMMA CommitKeeps ==
  ASSUME IInv, NEW t \in Tasks, Commit(t)
  PROVE  IInv'
  <1> USE DEF IInv
  <1>1. /\ task[t].pc = "fetched" /\ task' = [task EXCEPT ![t].pc = "committed"]
        /\ UNCHANGED <<draft, conns, stale, reply, calls>>
    BY DEF Commit
  <1>2. task[t].conn \in Conns
    BY <1>1 DEF TypeOK, Task, Holding
  <1>3. \A u \in Tasks : u # t => task'[u] = task[u] /\ task[u].conn # task[t].conn
    BY <1>1, <1>2, ConnsNotNone DEF PoolIsSound, TypeOK
  <1>4. PoolIsSound'
    BY <1>1 DEF PoolIsSound, TypeOK, Task
  <1>5. CASE lock = task[t].conn
    <2>1. db' = draft /\ lock' = None
      BY <1>5 DEF Commit
    <2>2. Table!Ops(db) \subseteq Table!Ops(draft)
      BY <1>1, <1>5, ApplyTypes, OpsGrow DEF WorkInv, WorkOf, TypeOK
    <2>3. TypeOK' /\ OwnTransaction'
      BY <1>1, <2>1 DEF TypeOK, Task, Holding, OwnTransaction
    <2>4. ASSUME NEW u \in Tasks, u # t PROVE WorkOf(u)'
      <3>1. task[u].pc # "written" /\ (task[u].pc = "fetched" => task[u].op.kind = "list")
        BY <1>3, <1>5, <2>4 DEF WorkInv, WorkOf
      <3>2. task[u].pc = "fetched" => task[u].conn # None
        BY DEF TypeOK, Holding
      <3> QED BY <1>3, <2>1, <2>2, <2>4, <3>1, <3>2 DEF WorkInv, WorkOf
    <2>5. WorkOf(t)'
      BY <1>1, <2>1, <2>2 DEF WorkInv, WorkOf, TypeOK, Task
    <2> QED BY <1>1, <1>4, <2>1, <2>3, <2>4, <2>5 DEF WorkInv
  <1>6. CASE lock # task[t].conn
    <2>1. UNCHANGED <<db, lock>>
      BY <1>6 DEF Commit
    <2>2. TypeOK'
      BY <1>1, <2>1 DEF TypeOK, Task, Holding
    <2>3. OwnTransaction'
      BY <1>1, <1>3, <1>6, <2>1 DEF OwnTransaction, TypeOK, Task, Holding
    <2>4. WorkInv'
      BY <1>1, <2>1 DEF WorkInv, WorkOf, TypeOK, Task
    <2> QED BY <1>4, <2>2, <2>3, <2>4
  <1> QED BY <1>5, <1>6

(* A call ends, and its connection goes back to the pool: with nothing of  *)
(* the call on it, left to be rolled back, left open, or with a            *)
(* transaction that SQLite has given up.                                   *)
LEMMA EndKeeps ==
  ASSUME IInv, NEW t \in Tasks,
         NEW state \in {"free", "rollback"}, NEW said \in {"none", "answered", "refused"},
         End(t, state, said), UNCHANGED <<db, calls>>,
         state = "rollback" => task[t].pc \in Holding,
         \/ /\ UNCHANGED <<draft, lock, stale>>
            /\ task[t].pc \in {"written", "fetched"} => state = "rollback"
         \/ /\ UNCHANGED <<draft, lock>> /\ stale' = stale \cup {task[t].conn}
            /\ task[t].pc \in Holding
         \/ Undo(task[t].conn) /\ UNCHANGED stale
  PROVE  IInv'
  <1> USE DEF IInv
  <1>1. /\ conns' = [c \in Conns |-> IF c = task[t].conn THEN state ELSE conns[c]]
        /\ task' = [task EXCEPT ![t] = NoTask]
        /\ reply' = [reply EXCEPT ![t] = said]
    BY DEF End
  <1>2. NoTask \in Task /\ NoTask.conn = None /\ NoTask.pc = "idle"
    BY DEF NoTask, Task, Operation, Table!List
  <1>3. /\ stale \subseteq stale' /\ stale' \subseteq stale \cup {task[t].conn}
        /\ task[t].pc \notin Holding => stale' = stale
    BY DEF Undo
  <1>4. \/ UNCHANGED <<lock, draft>>
        \/ lock = task[t].conn /\ lock' = None /\ draft' = db
    BY DEF Undo
  <1>5. TypeOK'
    <2>1. task' \in [Tasks -> Task] /\ reply' \in [Tasks -> {"none", "answered", "refused"}]
      BY <1>1, <1>2 DEF TypeOK
    <2>2. \A u \in Tasks : (task[u].conn # None <=> task[u].pc \in Holding)'
      BY <1>1, <1>2 DEF TypeOK, Holding
    <2>3. conns' \in [Conns -> {"free", "used", "rollback"}]
      BY <1>1 DEF TypeOK
    <2>4. stale' \subseteq Conns
      BY <1>3 DEF TypeOK, Task
    <2>5. lock' \in Conns \cup {None} /\ draft' \in Seq(Statuses)
      BY <1>4 DEF TypeOK
    <2> QED BY <2>1, <2>2, <2>3, <2>4, <2>5 DEF TypeOK
  <1>6. PoolIsSound'
    <2>1. \A u \in Tasks : task'[u].conn = IF u = t THEN None ELSE task[u].conn
      BY <1>1, <1>2 DEF TypeOK
    <2> QED BY <1>1, <2>1, ConnsNotNone DEF PoolIsSound, TypeOK
  <1>7. ASSUME NEW u \in Tasks, task'[u].pc \in Holding \ {"begin"}
        PROVE  task'[u].conn \notin stale'
    <2>1. u # t /\ task'[u] = task[u]
      BY <1>1, <1>2, <1>7 DEF TypeOK, Holding
    <2>2. task[u].conn \notin stale /\ task[u].conn # None
      BY <1>7, <2>1 DEF OwnTransaction, TypeOK
    <2>3. task[u].conn # task[t].conn
      BY <2>1, <2>2 DEF PoolIsSound
    <2> QED BY <1>3, <2>1, <2>2, <2>3
  <1>8. ASSUME lock' # None, conns'[lock'] # "rollback", lock' \notin stale'
        PROVE  \E u \in Tasks : task'[u].conn = lock' /\ task'[u].pc \in {"written", "fetched"}
    <2>1. lock' = lock /\ lock \in Conns /\ lock \notin stale
      BY <1>3, <1>4, <1>8 DEF TypeOK
    <2>2. CASE lock = task[t].conn
      <3>1. conns[lock] = "used"
        BY <2>1, <2>2 DEF PoolIsSound
      <3>2. PICK u \in Tasks : task[u].conn = lock /\ task[u].pc \in {"written", "fetched"}
        BY <1>8, <2>1, <3>1 DEF OwnTransaction
      <3>3. u = t
        BY <1>8, <2>1, <2>2, <3>2 DEF PoolIsSound
      <3>4. UNCHANGED <<draft, lock, stale>> /\ state = "rollback"
        BY <1>8, <2>1, <2>2, <3>2, <3>3 DEF Undo
      <3> QED BY <1>1, <1>8, <2>1, <2>2, <3>4
    <2>3. CASE lock # task[t].conn
      <3>1. conns[lock] # "rollback"
        BY <1>1, <1>8, <2>1, <2>3
      <3>2. PICK u \in Tasks : task[u].conn = lock /\ task[u].pc \in {"written", "fetched"}
        BY <1>8, <2>1, <3>1 DEF OwnTransaction
      <3> QED BY <1>1, <2>1, <2>3, <3>2 DEF TypeOK
    <2> QED BY <2>2, <2>3
  <1>9. OwnTransaction'
    BY <1>7, <1>8 DEF OwnTransaction
  <1>10. WorkInv'
    <2>1. WorkOf(t)'
      BY <1>1 DEF WorkOf, TypeOK, NoTask, Table!Ops
    <2>2. ASSUME NEW u \in Tasks, u # t PROVE WorkOf(u)'
      <3>1. task'[u] = task[u] /\ db' = db
        BY <1>1, <2>2 DEF TypeOK
      <3>2. CASE UNCHANGED <<lock, draft>>
        BY <3>1, <3>2 DEF WorkInv, WorkOf
      <3>3. CASE lock = task[t].conn /\ lock' = None /\ draft' = db
        <4>1. task[u].conn = None => task[u].pc \notin {"written", "fetched"}
          BY DEF TypeOK, Holding
        <4>2. task[u].conn # None => task[u].conn # lock
          BY <2>2, <3>3 DEF PoolIsSound
        <4>3. task[u].pc # "written" /\ (task[u].pc = "fetched" => task[u].op.kind = "list")
          BY <4>1, <4>2 DEF WorkInv, WorkOf
        <4> QED BY <3>1, <3>3, <4>1, <4>2, <4>3 DEF WorkInv, WorkOf
      <3> QED BY <1>4, <3>2, <3>3
    <2>3. lock' = None => draft' = db'
      BY <1>4 DEF WorkInv
    <2> QED BY <2>1, <2>2, <2>3 DEF WorkInv
  <1> QED BY <1>5, <1>6, <1>9, <1>10

LEMMA ReturnKeeps ==
  ASSUME IInv, NEW t \in Tasks, Return(t)
  PROVE  IInv'
  BY EndKeeps DEF Return

LEMMA FailKeeps ==
  ASSUME IInv, NEW t \in Tasks, Fail(t) \/ GiveUp(t)
  PROVE  IInv'
  <1>1. /\ UNCHANGED <<db, draft, lock, stale, calls>>
        /\ \/ task[t].pc \in {"acquire", "begin"} /\ End(t, "free", "refused")
           \/ task[t].pc \in {"ready", "written"} /\ End(t, "rollback", "refused")
    BY DEF Fail, GiveUp
  <1> QED BY <1>1, EndKeeps DEF Holding

LEMMA CommitFailsKeeps ==
  ASSUME IInv, NEW t \in Tasks, CommitFails(t)
  PROVE  IInv'
  BY EndKeeps DEF CommitFails, Uncommitted, Holding

LEMMA LeaveKeeps ==
  ASSUME IInv, NEW t \in Tasks, Leave(t)
  PROVE  IInv'
  <1> UNCHANGED <<db, calls>>
    BY DEF Leave
  <1>1. CASE /\ task[t].pc \in {"acquire", "committed"} /\ End(t, "free", "none")
             /\ UNCHANGED <<draft, lock, stale>>
    BY <1>1, EndKeeps
  <1>2. CASE /\ task[t].pc = "begin" /\ End(t, "free", "none")
             /\ stale' \in {stale, stale \cup {task[t].conn}}
             /\ UNCHANGED <<draft, lock>>
    BY <1>2, EndKeeps DEF Holding
  <1>3. CASE /\ task[t].pc \in {"ready", "written", "fetched"} /\ End(t, "rollback", "none")
             /\ UNCHANGED <<draft, lock, stale>>
    BY <1>3, EndKeeps DEF Holding
  <1>4. CASE /\ task[t].pc = "fetched" /\ End(t, "free", "none")
             /\ Uncommitted(task[t].conn)
    BY <1>4, EndKeeps DEF Uncommitted, Holding
  <1> QED BY <1>1, <1>2, <1>3, <1>4 DEF Leave

(* A transaction that is undone belongs to no call any more. *)
LEMMA UndoKeeps ==
  ASSUME IInv, NEW c \in Conns, conns[c] # "used", Undo(c), UNCHANGED <<db, task>>
  PROVE  /\ WorkInv'
         /\ lock' \in Conns \cup {None} /\ draft' \in Seq(Statuses)
  <1> USE DEF IInv
  <1>1. \A u \in Tasks : task[u].conn # c
    BY DEF PoolIsSound
  <1>2. CASE lock = c
    <2>1. lock' = None /\ draft' = db
      BY <1>2 DEF Undo
    <2>2. ASSUME NEW u \in Tasks PROVE WorkOf(u)'
      <3>1. task[u].pc # "written" /\ (task[u].pc = "fetched" => task[u].op.kind = "list")
        BY <1>1, <1>2 DEF WorkInv, WorkOf
      <3>2. task[u].pc = "fetched" => task[u].conn # None
        BY DEF TypeOK, Holding
      <3> QED BY <2>1, <3>1, <3>2 DEF WorkInv, WorkOf
    <2> QED BY <2>1, <2>2 DEF WorkInv, TypeOK
  <1>3. CASE lock # c
    BY <1>3 DEF Undo, WorkInv, WorkOf, TypeOK
  <1> QED BY <1>2, <1>3

LEMMA RollbackKeeps ==
  ASSUME IInv, NEW c \in Conns, Rollback(c)
  PROVE  IInv'
  <1> USE DEF IInv
  <1>1. /\ conns[c] = "rollback" /\ conns' = [conns EXCEPT ![c] = "free"] /\ Undo(c)
        /\ UNCHANGED <<db, stale, task, reply, calls>>
    BY DEF Rollback
  <1>2. \A u \in Tasks : task[u].conn # c
    BY <1>1 DEF PoolIsSound
  <1>3. WorkInv' /\ lock' \in Conns \cup {None} /\ draft' \in Seq(Statuses)
    BY <1>1, UndoKeeps
  <1>4. TypeOK'
    BY <1>1, <1>3 DEF TypeOK
  <1>5. PoolIsSound'
    BY <1>1, <1>2 DEF PoolIsSound, TypeOK
  <1>6. OwnTransaction'
    BY <1>1 DEF OwnTransaction, TypeOK, Undo
  <1> QED BY <1>3, <1>4, <1>5, <1>6

LEMMA RetireKeeps ==
  ASSUME IInv, NEW c \in Conns, Retire(c)
  PROVE  IInv'
  <1> USE DEF IInv
  <1>1. /\ conns[c] = "free" /\ stale' = stale \ {c} /\ Undo(c)
        /\ UNCHANGED <<db, conns, task, reply, calls>>
    BY DEF Retire
  <1>2. WorkInv' /\ lock' \in Conns \cup {None} /\ draft' \in Seq(Statuses)
    BY <1>1, UndoKeeps
  <1>3. TypeOK' /\ PoolIsSound'
    BY <1>1, <1>2 DEF TypeOK, PoolIsSound
  <1>4. OwnTransaction'
    BY <1>1 DEF OwnTransaction, Undo
  <1> QED BY <1>2, <1>3, <1>4

LEMMA CrashKeeps == IInv /\ Crash => IInv'
  <1> SUFFICES ASSUME IInv, Crash PROVE IInv'
    OBVIOUS
  <1> USE DEF IInv, Crash
  <1>1. NoTask \in Task /\ NoTask.conn = None /\ NoTask.pc = "idle" /\ NoTask.op = Table!List
    BY DEF NoTask, Task, Operation, Table!List
  <1>2. TypeOK'
    BY <1>1 DEF TypeOK, Holding
  <1>3. PoolIsSound' /\ OwnTransaction'
    BY <1>1, ConnsNotNone DEF PoolIsSound, OwnTransaction
  <1>4. WorkInv'
    BY <1>1 DEF WorkInv, WorkOf, Table!Ops
  <1> QED BY <1>2, <1>3, <1>4

LEMMA NextInv == IInv /\ [Next]_vars => IInv'
  <1> SUFFICES ASSUME IInv, [Next]_vars PROVE IInv'
    OBVIOUS
  <1>1. CASE UNCHANGED vars
    BY <1>1 DEF vars, IInv, TypeOK, PoolIsSound, OwnTransaction, WorkInv, WorkOf
  <1>2. ASSUME NEW t \in Tasks, Call(t) \/ Step(t) \/ Fail(t) \/ CommitFails(t) \/ Leave(t)
        PROVE  IInv'
    BY <1>2, CallKeeps, AcquireKeeps, BeginKeeps, WriteKeeps, SelectKeeps, CommitKeeps,
       ReturnKeeps, FailKeeps, CommitFailsKeeps, LeaveKeeps DEF Step
  <1>3. ASSUME NEW c \in Conns, Rollback(c) \/ Retire(c) PROVE IInv'
    BY <1>3, RollbackKeeps, RetireKeeps
  <1>4. CASE Crash
    BY <1>4, CrashKeeps
  <1> QED BY <1>1, <1>2, <1>3, <1>4 DEF Next

LEMMA Invariance == Spec => []IInv
  <1> QED BY InitInv, NextInv, PTL DEF Spec

-----------------------------------------------------------------------------
(* The connections and calls keep to their types (src/src/state/mod.rs,    *)
(* src/src/api/indexes.rs): whatever fails or hangs up, a call that is     *)
(* over has no connection.                                                 *)
THEOREM StoreTypeCorrect == Spec => []TypeOK
  <1>1. IInv => TypeOK
    BY DEF IInv
  <1> QED BY Invariance, <1>1, PTL

(* For any pool and any number of tasks no connection is lost to the pool, *)
(* or handed out twice (src/src/state/mod.rs:23).                          *)
THEOREM PoolKeepsItsConnections == Spec => []PoolIsSound
  <1>1. IInv => PoolIsSound
    BY DEF IInv
  <1> QED BY Invariance, <1>1, PTL

(* Although a failed or dropped BEGIN or COMMIT (src/src/api/indexes.rs)   *)
(* may put a connection back into the pool in a transaction, no call ever  *)
(* works in a transaction of another, and the write lock is held only by   *)
(* who has written, is being rolled back, or was so left.                  *)
THEOREM CallsKeepApart == Spec => []OwnTransaction
  <1>1. IInv => OwnTransaction
    BY DEF IInv
  <1> QED BY Invariance, <1>1, PTL

-----------------------------------------------------------------------------
(***************************************************************************)
(* Store implements Table: a call takes effect when it commits, a list     *)
(* when it is read, and every other step of a call is seen as no step, the *)
(* question, the answer, the refusal, or a caller who went away.           *)
(***************************************************************************)
abstract == [t \in Tasks |-> AbstractCall(task[t])]

(* A step that changes nothing but one task. *)
LEMMA AbstractExcept ==
  ASSUME NEW t \in Tasks, NEW k, task \in [Tasks -> Task], task' = [task EXCEPT ![t] = k]
  PROVE  abstract' = [abstract EXCEPT ![t] = AbstractCall(k)]
  BY DEF abstract

(* A task whose call is over is seen as one without a call. *)
LEMMA NoTaskIsNoCall == AbstractCall(NoTask) = Table!NoCall
  BY DEF AbstractCall, NoTask, TookEffect, Table!NoCall

LEMMA InitRefines == Init => Table!TableInit
  BY NoTaskIsNoCall DEF Init, Table!TableInit

LEMMA CallRefines ==
  ASSUME IInv, NEW t \in Tasks, Call(t)
  PROVE  Table!Ask(t)
  <1>1. PICK o \in Table!Ops(db) : task' = [task EXCEPT ![t] = Asking(o)]
    BY DEF Call
  <1>2. task[t].pc = "idle" /\ UNCHANGED <<db, reply>>
    BY DEF Call
  <1>3. abstract[t] = Table!NoCall
    BY <1>2 DEF IInv, WorkInv, WorkOf, abstract, AbstractCall, TookEffect, Table!NoCall
  <1>4. AbstractCall(Asking(o))
          = [stage |-> "asked", op |-> o, found |-> <<>>]
    BY DEF AbstractCall, Asking, TookEffect
  <1>5. abstract' = [abstract EXCEPT ![t] = [stage |-> "asked", op |-> o, found |-> <<>>]]
    BY <1>1, <1>4, AbstractExcept DEF IInv, TypeOK
  <1> QED BY <1>2, <1>3, <1>5 DEF Table!Ask, abstract

(* Until it has taken effect, the steps of a call are not seen. *)
LEMMA HiddenRefines ==
  ASSUME IInv, NEW t \in Tasks,
         NEW k, task' = [task EXCEPT ![t] = k], AbstractCall(k) = AbstractCall(task[t]),
         UNCHANGED <<db, reply>>
  PROVE  UNCHANGED Table!tableVars
  <1>1. abstract' = [abstract EXCEPT ![t] = abstract[t]]
    BY AbstractExcept DEF IInv, TypeOK, abstract
  <1>2. abstract' = abstract
    BY <1>1 DEF abstract
  <1> QED BY <1>2 DEF abstract, Table!tableVars
LEMMA AcquireRefines ==
  ASSUME IInv, NEW t \in Tasks, Acquire(t)
  PROVE  UNCHANGED Table!tableVars
  <1>1. PICK c \in Conns : task' = [task EXCEPT ![t].pc = "begin", ![t].conn = c]
    BY DEF Acquire
  <1>2. task[t].pc = "acquire" /\ UNCHANGED <<db, reply>>
    BY DEF Acquire
  <1> DEFINE k == [task[t] EXCEPT !.pc = "begin", !.conn = c]
  <1>3. task' = [task EXCEPT ![t] = k]
    BY <1>1 DEF IInv, TypeOK
  <1>4. AbstractCall(k) = AbstractCall(task[t])
    BY <1>2 DEF AbstractCall, TookEffect, IInv, TypeOK, Task
  <1> HIDE DEF k
  <1> QED BY <1>2, <1>3, <1>4, HiddenRefines

LEMMA BeginRefines ==
  ASSUME IInv, NEW t \in Tasks, Begin(t)
  PROVE  UNCHANGED Table!tableVars
  <1> DEFINE k == [task[t] EXCEPT !.pc = "ready"]
  <1>1. task[t].pc = "begin" /\ task' = [task EXCEPT ![t] = k] /\ UNCHANGED <<db, reply>>
    BY DEF Begin, IInv, TypeOK
  <1>2. AbstractCall(k) = AbstractCall(task[t])
    BY <1>1 DEF AbstractCall, TookEffect, IInv, TypeOK, Task
  <1> HIDE DEF k
  <1> QED BY <1>1, <1>2, HiddenRefines

LEMMA WriteRefines ==
  ASSUME IInv, NEW t \in Tasks, Write(t)
  PROVE  UNCHANGED Table!tableVars
  <1> DEFINE k == [task[t] EXCEPT !.pc = "written"]
  <1>1. task[t].pc = "ready" /\ task' = [task EXCEPT ![t] = k] /\ UNCHANGED <<db, reply>>
    BY DEF Write, IInv, TypeOK
  <1>2. AbstractCall(k) = AbstractCall(task[t])
    BY <1>1 DEF AbstractCall, TookEffect, IInv, TypeOK, Task
  <1> HIDE DEF k
  <1> QED BY <1>1, <1>2, HiddenRefines

(* A call takes effect. *)
LEMMA EffectRefines ==
  ASSUME IInv, NEW t \in Tasks, ~ TookEffect(task[t]), task[t].pc # "idle",
         NEW k, task' = [task EXCEPT ![t] = k],
         TookEffect(k), k.pc # "idle", k.op = task[t].op,
         db' = Table!Apply(db, k.op), k.found = Table!Found(db', k.op), UNCHANGED reply
  PROVE  Table!TakeEffect(t)
  <1>1. abstract[t].stage = "asked" /\ abstract[t].op = k.op
    BY DEF abstract, AbstractCall
  <1>2. AbstractCall(k) = [stage |-> "done", op |-> k.op, found |-> Table!Found(db', k.op)]
    BY DEF AbstractCall
  <1>3. abstract' = [abstract EXCEPT ![t] = AbstractCall(k)]
    BY AbstractExcept DEF IInv, TypeOK
  <1> QED BY <1>1, <1>2, <1>3 DEF abstract, Table!TakeEffect

LEMMA SelectRefines ==
  ASSUME IInv, NEW t \in Tasks, Select(t)
  PROVE  Table!TakeEffect(t) \/ UNCHANGED Table!tableVars
  <1> DEFINE found == Table!Found(IF task[t].pc = "written" THEN draft ELSE db, task[t].op)
             k == [task[t] EXCEPT !.pc = "fetched", !.found = found]
  <1>1. /\ task[t].pc = "written" \/ (task[t].pc = "ready" /\ task[t].op.kind = "list")
        /\ task' = [task EXCEPT ![t].pc = "fetched", ![t].found = found]
        /\ UNCHANGED <<db, reply>>
    BY DEF Select
  <1> HIDE DEF found
  <1>2. task' = [task EXCEPT ![t] = k]
    BY <1>1 DEF IInv, TypeOK
  <1>3. k.pc = "fetched" /\ k.op = task[t].op /\ k.found = found
    BY DEF IInv, TypeOK, Task
  <1> HIDE DEF k
  <1>4. CASE task[t].pc = "written"
    <2>1. task[t].op.kind # "list"
      BY <1>4 DEF IInv, WorkInv, WorkOf
    <2>2. AbstractCall(k) = AbstractCall(task[t])
      BY <1>3, <1>4, <2>1 DEF AbstractCall, TookEffect
    <2> QED BY <1>1, <1>2, <2>2, HiddenRefines
  <1>5. CASE task[t].pc = "ready" /\ task[t].op.kind = "list"
    <2>1. task[t].op \in Table!Ops(db)
      BY DEF IInv, WorkInv, WorkOf
    <2>2. db' = Table!Apply(db, k.op)
      BY <1>1, <1>3, <1>5, <2>1, Kinds
    <2>3. k.found = Table!Found(db', k.op)
      BY <1>1, <1>3, <1>5 DEF found
    <2>4. ~ TookEffect(task[t]) /\ TookEffect(k) /\ task[t].pc # "idle"
      BY <1>3, <1>5 DEF TookEffect
    <2> QED BY <1>1, <1>2, <1>3, <2>2, <2>3, <2>4, EffectRefines
  <1> QED BY <1>1, <1>4, <1>5

LEMMA CommitRefines ==
  ASSUME IInv, NEW t \in Tasks, Commit(t)
  PROVE  Table!TakeEffect(t) \/ UNCHANGED Table!tableVars
  <1> DEFINE k == [task[t] EXCEPT !.pc = "committed"]
  <1>1. /\ task[t].pc = "fetched" /\ task' = [task EXCEPT ![t] = k] /\ UNCHANGED reply
        /\ IF lock = task[t].conn THEN db' = draft ELSE db' = db
    BY DEF Commit, IInv, TypeOK
  <1>2. k.pc = "committed" /\ k.op = task[t].op /\ k.found = task[t].found
    BY DEF IInv, TypeOK, Task
  <1> HIDE DEF k
  <1>3. WorkOf(t)
    BY DEF IInv, WorkInv
  <1>4. CASE lock = task[t].conn
    <2>1. task[t].op.kind # "list" /\ db' = Table!Apply(db, k.op) /\ k.found = Table!Found(db', k.op)
      BY <1>1, <1>2, <1>3, <1>4 DEF WorkOf
    <2>2. ~ TookEffect(task[t]) /\ TookEffect(k) /\ task[t].pc # "idle"
      BY <1>1, <1>2, <2>1 DEF TookEffect
    <2> QED BY <1>1, <1>2, <2>1, <2>2, EffectRefines
  <1>5. CASE lock # task[t].conn
    <2>1. task[t].op.kind = "list" /\ db' = db
      BY <1>1, <1>3, <1>5 DEF WorkOf
    <2>2. AbstractCall(k) = AbstractCall(task[t])
      BY <1>1, <1>2, <2>1 DEF AbstractCall, TookEffect
    <2> QED BY <1>1, <2>1, <2>2, HiddenRefines
  <1> QED BY <1>4, <1>5

(* The end of a call is the answer, the refusal, or the caller's going     *)
(* away.                                                                   *)
LEMMA EndAbstract ==
  ASSUME IInv, NEW t \in Tasks, NEW state, NEW said, End(t, state, said)
  PROVE  /\ abstract' = [abstract EXCEPT ![t] = Table!NoCall]
         /\ reply' = [reply EXCEPT ![t] = said]
  BY AbstractExcept, NoTaskIsNoCall DEF End, IInv, TypeOK

LEMMA ReturnRefines ==
  ASSUME IInv, NEW t \in Tasks, Return(t)
  PROVE  Table!Answer(t)
  <1>1. task[t].pc = "committed" /\ End(t, "free", "answered") /\ UNCHANGED db
    BY DEF Return
  <1>2. abstract[t].stage = "done"
    BY <1>1 DEF abstract, AbstractCall, TookEffect
  <1>3. /\ abstract' = [abstract EXCEPT ![t] = Table!NoCall]
        /\ reply' = [reply EXCEPT ![t] = "answered"]
    BY <1>1, EndAbstract
  <1> QED BY <1>1, <1>2, <1>3 DEF Table!Answer, abstract

LEMMA FailRefines ==
  ASSUME IInv, NEW t \in Tasks, Fail(t) \/ GiveUp(t) \/ CommitFails(t)
  PROVE  Table!Refuse(t)
  <1>1. PICK state : End(t, state, "refused")
    BY DEF Fail, GiveUp, CommitFails
  <1>2. task[t].pc \in {"acquire", "begin", "ready", "written", "fetched"} /\ UNCHANGED db
    BY DEF Fail, GiveUp, CommitFails
  <1>3. task[t].op \in Table!Ops(db)
    BY DEF IInv, WorkInv, WorkOf
  <1>4. abstract[t].stage = "asked" \/ (abstract[t].stage = "done" /\ abstract[t].op = Table!List)
    BY <1>2, <1>3, Kinds DEF abstract, AbstractCall, TookEffect
  <1>5. /\ abstract' = [abstract EXCEPT ![t] = Table!NoCall]
        /\ reply' = [reply EXCEPT ![t] = "refused"]
    BY <1>1, EndAbstract
  <1> QED BY <1>2, <1>4, <1>5 DEF Table!Refuse, abstract

LEMMA LeaveRefines ==
  ASSUME IInv, NEW t \in Tasks, Leave(t)
  PROVE  Table!Forsake({t})
  <1>1. PICK state : End(t, state, "none")
    BY DEF Leave
  <1>2. UNCHANGED db
    BY DEF Leave
  <1>3. /\ abstract' = [abstract EXCEPT ![t] = Table!NoCall]
        /\ reply' = [reply EXCEPT ![t] = "none"]
    BY <1>1, EndAbstract
  <1>4. reply' = [u \in Tasks |-> IF u \in {t} THEN "none" ELSE reply[u]]
    BY <1>3 DEF IInv, TypeOK
  <1>5. abstract' = [u \in Tasks |-> IF u \in {t} THEN Table!NoCall ELSE abstract[u]]
    BY <1>3 DEF abstract
  <1> QED BY <1>2, <1>4, <1>5 DEF Table!Forsake, abstract

LEMMA RollbackRefines ==
  ASSUME NEW c \in Conns, Rollback(c) \/ Retire(c)
  PROVE  UNCHANGED Table!tableVars
  BY DEF Rollback, Retire, Table!tableVars, AbstractCall, TookEffect

LEMMA CrashRefines ==
  ASSUME Crash
  PROVE  Table!Forsake(Tasks)
  <1>1. /\ task' = [t \in Tasks |-> NoTask] /\ reply' = [t \in Tasks |-> "none"]
        /\ UNCHANGED db
    BY DEF Crash
  <1>2. abstract' = [t \in Tasks |-> Table!NoCall]
    BY <1>1, NoTaskIsNoCall DEF abstract
  <1> QED BY <1>1, <1>2 DEF Table!Forsake, abstract

LEMMA NextRefines == IInv /\ [Next]_vars => [Table!TableNext]_Table!tableVars
  <1> SUFFICES ASSUME IInv, [Next]_vars PROVE Table!TableNext \/ UNCHANGED Table!tableVars
    OBVIOUS
  <1>1. CASE UNCHANGED vars
    BY <1>1 DEF vars, Table!tableVars, AbstractCall, TookEffect
  <1>2. ASSUME NEW t \in Tasks,
               \/ Call(t) \/ Select(t) \/ Commit(t) \/ Return(t)
               \/ Fail(t) \/ GiveUp(t) \/ CommitFails(t)
        PROVE  Table!TableNext \/ UNCHANGED Table!tableVars
    BY <1>2, CallRefines, SelectRefines, CommitRefines, ReturnRefines, FailRefines
       DEF Table!TableNext
  <1>3. ASSUME NEW t \in Tasks, Acquire(t) \/ Begin(t) \/ Write(t)
        PROVE  UNCHANGED Table!tableVars
    BY <1>3, AcquireRefines, BeginRefines, WriteRefines
  <1>4. ASSUME NEW t \in Tasks, Leave(t) PROVE Table!TableNext
    <2>1. {t} \in SUBSET Tasks
      OBVIOUS
    <2> QED BY <1>4, <2>1, LeaveRefines DEF Table!TableNext
  <1>5. ASSUME NEW c \in Conns, Rollback(c) \/ Retire(c) PROVE UNCHANGED Table!tableVars
    BY <1>5, RollbackRefines
  <1>6. CASE Crash
    <2>1. Tasks \in SUBSET Tasks
      OBVIOUS
    <2> QED BY <1>6, <2>1, CrashRefines DEF Table!TableNext
  <1> QED BY <1>1, <1>2, <1>3, <1>4, <1>5, <1>6 DEF Next, Step

(* For any pool and any number of calls, what create_db, update_db and     *)
(* list_indexes (src/src/api/indexes.rs) do with their transactions,       *)
(* connections and errors looks like calls made one at a time on one       *)
(* table.                                                                  *)
THEOREM StoreImplementsTable == Spec => ImplementsTable
  <1>1. Init => Table!TableInit
    BY InitRefines
  <1>2. IInv /\ [Next]_vars => [Table!TableNext]_Table!tableVars
    BY NextRefines
  <1> QED BY Invariance, <1>1, <1>2, PTL DEF Spec, ImplementsTable, Table!TableSpec
=============================================================================
