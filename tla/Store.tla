-------------------------------- MODULE Store --------------------------------
(***************************************************************************)
(* The database as the service uses it: a pool of connections to one       *)
(* SQLite file, and the transactions that create_db, update_db and         *)
(* list_indexes run on them (src/src/api/indexes.rs, src/src/db/sqlite.rs, *)
(* src/src/state/mod.rs).  It implements Table.                            *)
(*                                                                         *)
(*   acquire -> BEGIN -> INSERT or UPDATE -> SELECT -> COMMIT -> return    *)
(*    (pool)              (write lock)                                     *)
(*                                                                         *)
(* Of sqlx and SQLite the model takes what the code relies on: a task      *)
(* waits for a free connection; BEGIN takes no lock, and fails within a    *)
(* transaction; a transaction takes the one write lock with its first      *)
(* write, waits for it, and keeps it to its end; a reader sees what is     *)
(* committed; any wait or statement may end in an error; a transaction     *)
(* that is dropped is rolled back in the background, on a connection that  *)
(* is not yet free.  But begin() and commit() have the connection itself:  *)
(* if they fail or are dropped, it goes back to the pool as it is, perhaps *)
(* in a transaction, with the lock.                                        *)
(***************************************************************************)
EXTENDS Sequences, Integers

CONSTANTS Tasks, Statuses, Default,  \* as in Table
          PoolSize,                  \* State::new asks for 5
          MaxCalls                   \* bound: how many calls are made

ASSUME DefaultAssumption == Default \in Statuses
ASSUME PoolSizeAssumption == PoolSize \in Nat \ {0}
ASSUME MaxCallsAssumption == MaxCalls \in Nat

Conns == 1 .. PoolSize
None == 0

VARIABLES db,     \* the committed table
          draft,  \* the table as the holder of the lock sees it, or else db
          lock,   \* the connection that holds the write lock, or None
          conns,  \* the pool
          stale,  \* the connections that a call has left in a transaction
          task,   \* of each task: where it is in its call (see Task)
          reply,  \* history: what its last call came to
          calls

vars == <<db, draft, lock, conns, stale, task, reply, calls>>

(* The abstract table.  A call has taken effect when it is committed; one  *)
(* that only reads, when it has read.                                      *)
TookEffect(k) ==
  k.pc = "committed" \/ (k.pc = "fetched" /\ k.op.kind = "list")

AbstractCall(k) ==
  [stage |-> IF k.pc = "idle" THEN "idle" ELSE IF TookEffect(k) THEN "done" ELSE "asked",
   op |-> k.op,
   found |-> IF TookEffect(k) THEN k.found ELSE <<>>]

Table == INSTANCE Table WITH rows <- db, call <- [t \in Tasks |-> AbstractCall(task[t])]

-----------------------------------------------------------------------------
Operation == [kind : {"create", "update", "list"}, id : Nat, status : Statuses]

Task ==
  [pc : {"idle", "acquire", "begin", "ready", "written", "fetched", "committed"},
   conn : Conns \cup {None}, op : Operation,
   found : Seq([id : Nat, status : Statuses])]

(* The pcs at which a task has a connection. *)
Holding == {"begin", "ready", "written", "fetched", "committed"}

NoTask == [pc |-> "idle", conn |-> None, op |-> Table!List, found |-> <<>>]
Asking(o) == [pc |-> "acquire", conn |-> None, op |-> o, found |-> <<>>]

Init ==
  /\ db = <<>> /\ draft = <<>>
  /\ lock = None
  /\ conns = [c \in Conns |-> "free"] /\ stale = {}
  /\ task = [t \in Tasks |-> NoTask]
  /\ reply = [t \in Tasks |-> "none"]
  /\ calls = 0

-----------------------------------------------------------------------------
(* A request, or a listener with a message, asks for a connection. *)
Call(t) ==
  /\ task[t].pc = "idle" /\ calls < MaxCalls
  /\ \E o \in Table!Ops(db) : task' = [task EXCEPT ![t] = Asking(o)]
  /\ calls' = calls + 1
  /\ UNCHANGED <<db, draft, lock, conns, stale, reply>>

(* The pool asks a connection whether it is alive, and not whether it is   *)
(* in a transaction.                                                       *)
Acquire(t) ==
  /\ task[t].pc = "acquire"
  /\ \E c \in Conns :
       /\ conns[c] = "free"
       /\ conns' = [conns EXCEPT ![c] = "used"]
       /\ task' = [task EXCEPT ![t].pc = "begin", ![t].conn = c]
  /\ UNCHANGED <<db, draft, lock, stale, reply, calls>>

(* The end of a call: what becomes of its connection, and what the caller  *)
(* is told.  Transaction's drop starts the roll back and does not wait.    *)
End(t, state, said) ==
  /\ conns' = [c \in Conns |-> IF c = task[t].conn THEN state ELSE conns[c]]
  /\ task' = [task EXCEPT ![t] = NoTask]
  /\ reply' = [reply EXCEPT ![t] = said]

(* (In the first form BEGIN has no error within a transaction.) *)
BeginAnyway(t) ==
  /\ task[t].pc = "begin"
  /\ task' = [task EXCEPT ![t].pc = "ready"]
  /\ UNCHANGED <<db, draft, lock, conns, stale, reply, calls>>

Begin(t) ==
  /\ task[t].pc = "begin" /\ task[t].conn \notin stale
  /\ task' = [task EXCEPT ![t].pc = "ready"]
  /\ UNCHANGED <<db, draft, lock, conns, stale, reply, calls>>

(* INSERT, or SAVEPOINT and UPDATE.  (The first form is what they would do *)
(* on a connection that is not in a transaction.)                          *)
WriteAtOnce(t) ==
  /\ task[t].pc = "ready" /\ task[t].op.kind \in {"create", "update"}
  /\ lock = None
  /\ db' = Table!Apply(db, task[t].op)
  /\ draft' = db'
  /\ task' = [task EXCEPT ![t].pc = "written"]
  /\ UNCHANGED <<lock, conns, stale, reply, calls>>

Write(t) ==
  /\ task[t].pc = "ready" /\ task[t].op.kind \in {"create", "update"}
  /\ lock = None
  /\ lock' = task[t].conn
  /\ draft' = Table!Apply(db, task[t].op)
  /\ task' = [task EXCEPT ![t].pc = "written"]
  /\ UNCHANGED <<db, conns, stale, reply, calls>>

(* The SELECT: the row just written (and RELEASE), or, without a write     *)
(* before it, all rows.                                                    *)
Select(t) ==
  /\ \/ task[t].pc = "written"
     \/ task[t].pc = "ready" /\ task[t].op.kind = "list"
  /\ task' = [task EXCEPT ![t].pc = "fetched",
                          ![t].found = Table!Found(IF task[t].pc = "written" THEN draft ELSE db,
                                                   task[t].op)]
  /\ UNCHANGED <<db, draft, lock, conns, stale, reply, calls>>

Commit(t) ==
  /\ task[t].pc = "fetched"
  /\ IF lock = task[t].conn THEN db' = draft /\ lock' = None ELSE UNCHANGED <<db, lock>>
  /\ task' = [task EXCEPT ![t].pc = "committed"]
  /\ UNCHANGED <<draft, conns, stale, reply, calls>>

(* (The first form forgets to take the connection from the task.) *)
ReturnAndKeep(t) ==
  /\ task[t].pc = "committed"
  /\ conns' = [conns EXCEPT ![task[t].conn] = "free"]
  /\ task' = [task EXCEPT ![t].pc = "idle"]
  /\ reply' = [reply EXCEPT ![t] = "answered"]
  /\ UNCHANGED <<db, draft, lock, stale, calls>>

Return(t) ==
  /\ task[t].pc = "committed"
  /\ End(t, "free", "answered")
  /\ UNCHANGED <<db, draft, lock, stale, calls>>

-----------------------------------------------------------------------------
(* The transaction on c, if any, is no more, and what it has written.      *)
Undo(c) == IF lock = c THEN lock' = None /\ draft' = db ELSE UNCHANGED <<lock, draft>>

(* A COMMIT on c has not committed: SQLite leaves the transaction open, to *)
(* be committed later (nobody will), or has given it up.                   *)
Uncommitted(c) ==
  \/ stale' = stale \cup {c} /\ UNCHANGED <<lock, draft>>
  \/ Undo(c) /\ UNCHANGED stale

(* A statement or a wait for the lock fails, the pool has had no           *)
(* connection for too long: `?' returns the error and drops what there is, *)
(* and a transaction is rolled back.  (In the first form the connection is *)
(* never given back.)                                                      *)
FailAndLeak(t) ==
  /\ task[t].pc \in {"acquire", "begin", "ready", "written"}
  /\ End(t, "used", "refused")
  /\ UNCHANGED <<db, draft, lock, stale, calls>>

Fail(t) ==
  /\ \/ task[t].pc \in {"acquire", "begin"} /\ End(t, "free", "refused")
     \/ task[t].pc \in {"ready", "written"} /\ End(t, "rollback", "refused")
  /\ UNCHANGED <<db, draft, lock, stale, calls>>

(* What is bound to fail because of a transaction left open by another:    *)
(* BEGIN on its connection, and, by SQLite's busy timeout, the wait for    *)
(* the lock it has.                                                        *)
GiveUp(t) ==
  /\ \/ task[t].pc = "begin" /\ task[t].conn \in stale /\ End(t, "free", "refused")
     \/ /\ task[t].pc = "ready" /\ task[t].op.kind # "list" /\ lock \in stale
        /\ End(t, "rollback", "refused")
  /\ UNCHANGED <<db, draft, lock, stale, calls>>

CommitFails(t) ==
  /\ task[t].pc = "fetched"
  /\ End(t, "free", "refused") /\ Uncommitted(task[t].conn)
  /\ UNCHANGED <<db, calls>>

(* The client of a request hangs up, and hyper drops the request where it  *)
(* waits, with its transaction or, during BEGIN and COMMIT, without; a     *)
(* listener has no client.  (A BEGIN or COMMIT that is dropped may have    *)
(* been carried out or not.)                                               *)
Leave(t) ==
  /\ task[t].op.kind # "update"
  /\ \/ /\ task[t].pc \in {"acquire", "committed"} /\ End(t, "free", "none")
        /\ UNCHANGED <<draft, lock, stale>>
     \/ /\ task[t].pc = "begin" /\ End(t, "free", "none")
        /\ stale' \in {stale, stale \cup {task[t].conn}}
        /\ UNCHANGED <<draft, lock>>
     \/ /\ task[t].pc \in {"ready", "written", "fetched"} /\ End(t, "rollback", "none")
        /\ UNCHANGED <<draft, lock, stale>>
     \/ /\ task[t].pc = "fetched" /\ End(t, "free", "none")
        /\ Uncommitted(task[t].conn)
  /\ UNCHANGED <<db, calls>>

(* The roll back that a dropped transaction left behind. *)
Rollback(c) ==
  /\ conns[c] = "rollback"
  /\ conns' = [conns EXCEPT ![c] = "free"]
  /\ Undo(c)
  /\ UNCHANGED <<db, stale, task, reply, calls>>

(* The pool replaces a connection that it has had for long. *)
Retire(c) ==
  /\ conns[c] = "free" /\ c \in stale
  /\ stale' = stale \ {c} /\ Undo(c)
  /\ UNCHANGED <<db, conns, task, reply, calls>>

(* The process dies and is started again; what was committed stays. *)
Crash ==
  /\ draft' = db /\ lock' = None
  /\ conns' = [c \in Conns |-> "free"] /\ stale' = {}
  /\ task' = [t \in Tasks |-> NoTask]
  /\ reply' = [t \in Tasks |-> "none"]
  /\ UNCHANGED <<db, calls>>

-----------------------------------------------------------------------------
Step(t) ==
  \/ Acquire(t) \/ Begin(t) \/ Write(t) \/ Select(t) \/ Commit(t) \/ Return(t)
  \/ GiveUp(t)

Next ==
  \/ \E t \in Tasks : Call(t) \/ Step(t) \/ Fail(t) \/ CommitFails(t) \/ Leave(t)
  \/ \E c \in Conns : Rollback(c) \/ Retire(c)
  \/ Crash

(* The runtime runs a task that can go on, and the rollbacks.  Nothing is  *)
(* owed to errors, to timeouts but that of GiveUp, or to the pool's        *)
(* replacing connections: waits must end without them.                     *)
Fairness ==
  /\ \A t \in Tasks : WF_vars(Step(t))
  /\ \A c \in Conns : WF_vars(Rollback(c))

Spec == Init /\ [][Next]_vars
FairSpec == Spec /\ Fairness

-----------------------------------------------------------------------------
(* The type invariant; a task has a connection from BEGIN to the end.      *)
TypeOK ==
  /\ db \in Seq(Statuses) /\ draft \in Seq(Statuses)
  /\ lock \in Conns \cup {None}
  /\ conns \in [Conns -> {"free", "used", "rollback"}]
  /\ stale \subseteq Conns
  /\ task \in [Tasks -> Task]
  /\ \A t \in Tasks : task[t].conn # None <=> task[t].pc \in Holding
  /\ reply \in [Tasks -> {"none", "answered", "refused"}]
  /\ calls \in 0 .. MaxCalls

(* Every connection is in the pool, is being rolled back, or belongs to    *)
(* one call: whatever fails or hangs up, none is lost to the pool and none *)
(* is handed out twice.                                                    *)
PoolIsSound ==
  /\ \A t, u \in Tasks : task[t].conn = task[u].conn /\ task[t].conn # None => t = u
  /\ \A c \in Conns : conns[c] = "used" <=> \E t \in Tasks : task[t].conn = c

(* A connection may come back to the pool in a transaction, but whoever    *)
(* gets it next does not go on in that: a call works in a transaction of   *)
(* its own, so that nothing which was refused is committed with what       *)
(* another wrote.  And the write lock is held by a call that has written,  *)
(* by one whose write is being rolled back, or with a transaction that was *)
(* left open, and by nothing else.                                         *)
OwnTransaction ==
  /\ \A t \in Tasks :
       task[t].pc \in Holding \ {"begin"} => task[t].conn \notin stale
  /\ lock # None =>
       \/ conns[lock] = "rollback"
       \/ lock \in stale
       \/ \E t \in Tasks : task[t].conn = lock /\ task[t].pc \in {"written", "fetched"}

(* Whatever the interleaving, the errors, the clients that hang up and the *)
(* crashes, the calls look as if made one at a time on one table: no lost  *)
(* update, no dirty read, no row without an answer unless nobody is left   *)
(* to be answered, and no refusal of what was done.                        *)
ImplementsTable == Table!TableSpec

(* Tasks do not wait for one another in a circle: every connection comes   *)
(* back without a timeout of the pool, since no call asks for a second     *)
(* one, and the lock comes back from whoever works or is rolled back.      *)
(* Only a lock that was left with a connection in the pool needs SQLite's  *)
(* busy timeout, which ends the waits for it one by one.  (How often a     *)
(* call is overtaken by others is not the question here.)                  *)
EveryCallEnds == \A t \in Tasks : task[t].pc # "idle" ~> task[t].pc = "idle"
=============================================================================
