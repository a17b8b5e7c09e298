-------------------------------- MODULE Table --------------------------------
(***************************************************************************)
(* What the rest of the service relies on the database for: a table of     *)
(* indexes on which calls to create a row, update a status and list all    *)
(* rows take effect one at a time, each at one moment between the question *)
(* and the answer.  A call that is refused had no effect; of a call whose  *)
(* caller is gone (a client that hung up, a process that died) it is not   *)
(* known whether it had.  The rows are in the order of their ids, 1, 2 and *)
(* so on; a row is its status.                                             *)
(***************************************************************************)
EXTENDS Sequences, Integers

CONSTANTS Tasks,     \* who calls: requests and listeners
          Statuses,  \* what the status column holds
          Default    \* its default

VARIABLES rows,  \* the table
          call,  \* of each task: its call, or NoCall
          reply  \* what its last call came to

tableVars == <<rows, call, reply>>

Create == [kind |-> "create", id |-> 0, status |-> Default]
List == [kind |-> "list", id |-> 0, status |-> Default]
Update(i, s) == [kind |-> "update", id |-> i, status |-> s]

(* The operations that make sense for a table r. *)
Ops(r) == {Create, List} \cup {Update(i, s) : i \in 1 .. Len(r), s \in Statuses}

(* The table after o, and the rows that o answers with: all, or its own.   *)
Apply(r, o) ==
  CASE o.kind = "create" -> Append(r, Default)
    [] o.kind = "update" -> [r EXCEPT ![o.id] = o.status]
    [] OTHER -> r

Row(r, i) == [id |-> i, status |-> r[i]]
Found(r, o) ==
  CASE o.kind = "create" -> <<Row(r, Len(r))>>
    [] o.kind = "update" -> <<Row(r, o.id)>>
    [] OTHER -> [i \in 1 .. Len(r) |-> Row(r, i)]

NoCall == [stage |-> "idle", op |-> List, found |-> <<>>]

TableInit ==
  /\ rows = <<>>
  /\ call = [t \in Tasks |-> NoCall]
  /\ reply = [t \in Tasks |-> "none"]

Ask(t) ==
  /\ call[t] = NoCall
  /\ \E o \in Ops(rows) :
       call' = [call EXCEPT ![t] = [stage |-> "asked", op |-> o, found |-> <<>>]]
  /\ UNCHANGED <<rows, reply>>

TakeEffect(t) ==
  /\ call[t].stage = "asked"
  /\ rows' = Apply(rows, call[t].op)
  /\ call' = [call EXCEPT ![t] = [stage |-> "done", op |-> call[t].op,
                                  found |-> Found(rows', call[t].op)]]
  /\ UNCHANGED reply

Answer(t) ==
  /\ call[t].stage = "done"
  /\ call' = [call EXCEPT ![t] = NoCall]
  /\ reply' = [reply EXCEPT ![t] = "answered"]
  /\ UNCHANGED rows

Refuse(t) ==
  /\ call[t].stage = "asked" \/ (call[t].stage = "done" /\ call[t].op = List)
  /\ call' = [call EXCEPT ![t] = NoCall]
  /\ reply' = [reply EXCEPT ![t] = "refused"]
  /\ UNCHANGED rows

(* The callers in T go away: one that hangs up, or all if the process dies. *)
Forsake(T) ==
  /\ call' = [t \in Tasks |-> IF t \in T THEN NoCall ELSE call[t]]
  /\ reply' = [t \in Tasks |-> IF t \in T THEN "none" ELSE reply[t]]
  /\ UNCHANGED rows

TableNext ==
  \/ \E t \in Tasks : Ask(t) \/ TakeEffect(t) \/ Answer(t) \/ Refuse(t)
  \/ \E T \in SUBSET Tasks : Forsake(T)

TableSpec == TableInit /\ [][TableNext]_tableVars
=============================================================================
