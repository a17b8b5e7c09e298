------------------------------- MODULE Ingest -------------------------------
(***************************************************************************)
(* The service: create_index requests, the builds they start, the ZeroMQ   *)
(* endpoint through which a build announces its states, the task that      *)
(* listens for them, and the row of the indexes table that the task keeps  *)
(* (src/src/api/indexes.rs, src/src/fsm/mod.rs, src/src/db/sqlite.rs).     *)
(*                                                                         *)
(*   create_index ---> INSERT row --> FSM::new (bind) --> spawn exec       *)
(*                                                    \-> spawn listener   *)
(*   exec --> PUB socket --> one queue per connected SUB --> UPDATE row    *)
(*                                                                         *)
(* Every build binds the same endpoint, so there is at most one publisher; *)
(* a listener is a peer of whichever build holds the endpoint.  ZeroMQ is  *)
(* modelled by what the code relies on: binding a held endpoint fails, a   *)
(* published message reaches the peers connected at that moment, in order, *)
(* and only those, and a listener reconnects behind the code's back.       *)
(*                                                                         *)
(* The steps of one build are those of module FSM, written for a function  *)
(* of machines; EachBuildIsAnFSM states that they are the same.            *)
(***************************************************************************)
EXTENDS FsmTransitions, Sequences, Integers, FiniteSets

CONSTANTS MaxIndexes,  \* bound: how many rows are ever inserted
          MaxCrashes,  \* bound: how often the process dies
          Requests     \* the requests clients send

ASSUME MaxIndexesAssumption == MaxIndexes \in Nat \ {0}
ASSUME MaxCrashesAssumption == MaxCrashes \in Nat
ASSUME RequestsAssumption ==
  Requests \subseteq [index_type : STRING, data_source : STRING]

(* Row ids.  AUTOINCREMENT hands them out in order and never again. *)
Ids == 1 .. MaxIndexes
Nobody == 0

VARIABLES requests,  \* the request that row i is, or will be, made for
          phase,     \* how far create_index got for row i
          fsm,       \* the machine of index i (see Machine)
          publisher, \* the build that holds the endpoint, or Nobody
          connected, \* the listeners whose subscription the publisher has seen
          listener,  \* where update_notifications is for index i
          inbox,     \* the messages queued at listener i
          rows,      \* the status column, and who wrote it (from: history)
          crashes

vars == <<requests, phase, fsm, publisher, connected, listener, inbox, rows, crashes>>

Phases == {"absent", "inserted", "rejected", "started", "lost"}
ListenerStates == {"none", "starting", "listening", "done", "failed"}

Machine ==
  [pc : {"loop", "publish", "run", "closed", "panicked"},
   state : States, events : Seq(Events),
   published : Seq(StateTypes),                 \* history
   imported : BOOLEAN]                          \* history

Message == [id : Ids, status : StateTypes]
Row == [status : StateTypes, from : Ids \cup {Nobody}]

(* The type invariant. *)
TypeOK ==
  /\ requests \in [Ids -> Requests]
  /\ phase \in [Ids -> Phases]
  /\ fsm \in [Ids -> Machine]
  /\ publisher \in Ids \cup {Nobody}
  /\ connected \subseteq {i \in Ids : listener[i] = "listening"}
  /\ publisher = Nobody => connected = {}
  /\ listener \in [Ids -> ListenerStates]
  /\ inbox \in [Ids -> Seq(Message)]
  /\ rows \in [Ids -> Row]
  /\ crashes \in 0 .. MaxCrashes

(* The machine FSM::new makes, with the event that exec queues first. *)
NewMachine ==
  [pc |-> "loop", state |-> InitialState, events |-> <<Event("Download", "none")>>,
   published |-> <<>>, imported |-> FALSE]

(* The default of the status column.  (The first form is not a state.) *)
NewRowCreated == [status |-> "Created", from |-> Nobody]
NewRow == [status |-> "NotAvailable", from |-> Nobody]

Init ==
  /\ requests \in [Ids -> Requests]
  /\ phase = [i \in Ids |-> "absent"]
  /\ fsm = [i \in Ids |-> NewMachine]
  /\ publisher = Nobody
  /\ connected = {}
  /\ listener = [i \in Ids |-> "none"]
  /\ inbox = [i \in Ids |-> <<>>]
  /\ rows = [i \in Ids |-> NewRow]
  /\ crashes = 0

-----------------------------------------------------------------------------
(***************************************************************************)
(* create_index.  Its database transaction commits before it makes the     *)
(* machine, so requests interleave between the two; from there on it does  *)
(* not wait for anything.                                                  *)
(***************************************************************************)

(* create_db: the row is committed with the default status. *)
CreateDb(i) ==
  /\ phase[i] = "absent"
  /\ \A j \in 1 .. i - 1 : phase[j] # "absent"
  /\ phase' = [phase EXCEPT ![i] = "inserted"]
  /\ UNCHANGED <<requests, fsm, publisher, connected, listener, inbox, rows, crashes>>

(* FSM::new binds the endpoint; create_index spawns the listener and exec. *)
(* (The first form does not look at whether the endpoint is taken.)        *)
StartFsmAnyway(i) ==
  /\ phase[i] = "inserted"
  /\ phase' = [phase EXCEPT ![i] = "started"]
  /\ publisher' = i
  /\ listener' = [listener EXCEPT ![i] = "starting"]
  /\ UNCHANGED <<requests, fsm, connected, inbox, rows, crashes>>

StartFsm(i) ==
  /\ phase[i] = "inserted" /\ publisher = Nobody
  /\ phase' = [phase EXCEPT ![i] = "started"]
  /\ publisher' = i
  /\ listener' = [listener EXCEPT ![i] = "starting"]
  /\ UNCHANGED <<requests, fsm, connected, inbox, rows, crashes>>

(* The bind fails, because the endpoint is taken or for another reason,    *)
(* and the client gets an error; or the client has hung up, and the        *)
(* request is dropped at its last await.  The row stays.                   *)
RejectCreate(i) ==
  /\ phase[i] = "inserted"
  /\ phase' = [phase EXCEPT ![i] = "rejected"]
  /\ UNCHANGED <<requests, fsm, publisher, connected, listener, inbox, rows, crashes>>

-----------------------------------------------------------------------------
(* exec and FSM::run, for the machine of index i (see module FSM). *)

Live(i) == phase[i] = "started" /\ fsm[i].pc \notin {"closed", "panicked"}

(* What a machine's step leaves alone when it only computes. *)
restVars == <<requests, phase, publisher, connected, listener, rows, crashes>>

(* (The first form forgets to announce the state.) *)
TransitionUnpublished(i) ==
  /\ Live(i) /\ fsm[i].pc = "loop" /\ fsm[i].events # <<>>
  /\ fsm' = [fsm EXCEPT ![i].pc = "run", ![i].events = Tail(@),
                        ![i].state = NextState(@, Head(fsm[i].events))]
  /\ UNCHANGED <<restVars, inbox>>

Transition(i) ==
  /\ Live(i) /\ fsm[i].pc = "loop" /\ fsm[i].events # <<>>
  /\ fsm' = [fsm EXCEPT ![i].pc = "publish", ![i].events = Tail(@),
                        ![i].state = NextState(@, Head(fsm[i].events))]
  /\ UNCHANGED <<restVars, inbox>>

(* ZeroMQ hands a message to the listeners that are connected now. *)
Deliver(queue, m) == Append(queue, m)

Publish(i) ==
  /\ Live(i) /\ fsm[i].pc = "publish" /\ fsm[i].state.type # "Failure"
  /\ fsm' = [fsm EXCEPT ![i].pc = "run",
                        ![i].published = Append(@, fsm[i].state.type)]
  /\ inbox' = [j \in Ids |->
                 IF j \in connected
                 THEN Deliver(inbox[j], [id |-> i, status |-> fsm[i].state.type])
                 ELSE inbox[j]]
  /\ UNCHANGED restVars

Run(i) ==
  /\ Live(i) /\ fsm[i].pc = "run"
  /\ \E e \in RunEvents(fsm[i].state, requests[i]) :
       fsm' = [fsm EXCEPT ![i].pc = "loop", ![i].events = Append(@, e),
                          ![i].imported = @ \/ e.type = "IndexingComplete"]
  /\ UNCHANGED <<restVars, inbox>>

RunNothing(i) ==
  /\ Live(i) /\ fsm[i].pc = "run" /\ RunEvents(fsm[i].state, requests[i]) = {}
  /\ fsm' = [fsm EXCEPT ![i].pc = "loop"]
  /\ UNCHANGED <<restVars, inbox>>

(* An unwrap panics: in exec, or in run after the program it called, which *)
(* may have done its work.                                                 *)
Panic(i) ==
  /\ Live(i)
  /\ \/ fsm[i].pc = "publish" /\ fsm' = [fsm EXCEPT ![i].pc = "panicked"]
     \/ /\ fsm[i].pc = "run" /\ MayPanic(fsm[i].state, requests[i])
        /\ \E done \in {FALSE, fsm[i].state.type = "IndexingInProgress"} :
             fsm' = [fsm EXCEPT ![i].pc = "panicked", ![i].imported = @ \/ done]
  /\ UNCHANGED <<restVars, inbox>>

(* The queue is empty: exec ends and drops the socket.  (The first form    *)
(* ends only when the index is available.)                                 *)
CloseWhenAvailable(i) ==
  /\ Live(i) /\ fsm[i].pc = "loop" /\ fsm[i].events = <<>>
  /\ fsm[i].state.type = "Available"
  /\ fsm' = [fsm EXCEPT ![i].pc = "closed"]
  /\ UNCHANGED <<restVars, inbox>>

Close(i) ==
  /\ Live(i) /\ fsm[i].pc = "loop" /\ fsm[i].events = <<>>
  /\ fsm' = [fsm EXCEPT ![i].pc = "closed"]
  /\ UNCHANGED <<restVars, inbox>>

ExecStep(i) ==
  Transition(i) \/ Publish(i) \/ Run(i) \/ RunNothing(i) \/ Panic(i) \/ Close(i)

(* The socket is dropped with the machine, when exec returns or panics; a  *)
(* little later ZeroMQ gives the endpoint back and the listeners lose      *)
(* their peer, though not what it sent them.                               *)
ReleaseEndpoint ==
  /\ publisher # Nobody /\ ~Live(publisher)
  /\ publisher' = Nobody
  /\ connected' = {}
  /\ UNCHANGED <<requests, phase, fsm, listener, inbox, rows, crashes>>

-----------------------------------------------------------------------------
(* update_notifications, the listener of index i. *)

(* It opens a SUB socket; connecting goes on in the background. *)
Subscribe(i) ==
  /\ listener[i] = "starting"
  /\ listener' = [listener EXCEPT ![i] = "listening"]
  /\ UNCHANGED <<requests, phase, fsm, publisher, connected, inbox, rows, crashes>>

(* ZeroMQ: the subscription reaches whoever publishes on the endpoint now. *)
Join(i) ==
  /\ listener[i] = "listening" /\ i \notin connected /\ publisher # Nobody
  /\ connected' = connected \cup {i}
  /\ UNCHANGED <<requests, phase, fsm, publisher, listener, inbox, rows, crashes>>

(* The statuses after which it stops.  (The first form waits for the index *)
(* to be available, the second takes an error for the end.)                *)
StopsOnAvailable == {"Available"}
StopsOnErrors == Terminal \cup ErrorTypes
StopsOn == Terminal

(* What is left in the queue after a message is taken.  (The first form    *)
(* takes one more and drops it.)                                           *)
RemainingButOne(queue) == IF Len(queue) > 1 THEN Tail(Tail(queue)) ELSE <<>>
Remaining(queue) == Tail(queue)

(* It takes a message, whichever build sent it, writes its status into row *)
(* i in one transaction, and stops at a final status; what it does between *)
(* these is its own business, so they are one step.                        *)
Update(i) ==
  /\ listener[i] = "listening" /\ inbox[i] # <<>>
  /\ LET m == Head(inbox[i]) IN
       /\ rows' = [rows EXCEPT ![i] = [status |-> m.status, from |-> m.id]]
       /\ IF m.status \in StopsOn
          THEN /\ listener' = [listener EXCEPT ![i] = "done"]
               /\ connected' = connected \ {i}
               /\ inbox' = [inbox EXCEPT ![i] = <<>>]
          ELSE /\ inbox' = [inbox EXCEPT ![i] = Remaining(@)]
               /\ UNCHANGED <<listener, connected>>
  /\ UNCHANGED <<requests, phase, fsm, publisher, crashes>>

(* A socket cannot be opened, or the database refuses the update: the task *)
(* returns the error to nobody, and the row keeps the status it has.       *)
ListenerFails(i) ==
  /\ \/ listener[i] = "starting"
     \/ listener[i] = "listening" /\ inbox[i] # <<>>
  /\ listener' = [listener EXCEPT ![i] = "failed"]
  /\ connected' = connected \ {i}
  /\ inbox' = [inbox EXCEPT ![i] = <<>>]
  /\ UNCHANGED <<requests, phase, fsm, publisher, rows, crashes>>

ListenerStep(i) == Subscribe(i) \/ Update(i) \/ ListenerFails(i)

-----------------------------------------------------------------------------
(* The process dies and is started again: the rows are all that is left of *)
(* it, and nothing in the code takes up a build that was under way.        *)
Crash ==
  /\ crashes < MaxCrashes
  /\ crashes' = crashes + 1
  /\ phase' = [i \in Ids |-> IF phase[i] \in {"inserted", "started"}
                             THEN "lost" ELSE phase[i]]
  /\ publisher' = Nobody
  /\ connected' = {}
  /\ listener' = [i \in Ids |-> IF listener[i] \in {"starting", "listening"}
                                THEN "failed" ELSE listener[i]]
  /\ inbox' = [i \in Ids |-> <<>>]
  /\ UNCHANGED <<requests, fsm, rows>>

Next ==
  \/ \E i \in Ids : \/ CreateDb(i) \/ StartFsm(i) \/ RejectCreate(i)
                    \/ ExecStep(i) \/ ListenerStep(i) \/ Join(i)
  \/ ReleaseEndpoint
  \/ Crash

(* Spawned tasks keep running, and ZeroMQ gives an endpoint back.  Nothing *)
(* makes a subscription arrive in time, so Join has no fairness; neither   *)
(* have requests.                                                          *)
Spec ==
  /\ Init /\ [][Next]_vars
  /\ \A i \in Ids : WF_vars(ExecStep(i)) /\ WF_vars(ListenerStep(i))
  /\ WF_vars(ReleaseEndpoint)

-----------------------------------------------------------------------------
(***************************************************************************)
(* Properties.                                                             *)
(***************************************************************************)

Panicked(i) == fsm[i].pc = "panicked"
OwnRow(i) == rows[i].from = i

(* All builds share one working directory, one Elasticsearch and one       *)
(* endpoint.  Whatever create_index requests overlap, and whenever the     *)
(* process dies, at most one machine runs, and it is the one that holds    *)
(* the endpoint.                                                           *)
OneBuildAtATime == \A i \in Ids : Live(i) => publisher = i

(* Once a listener has recorded a status of its build, it records every    *)
(* later one, in the order the build went through them: joining late loses *)
(* a prefix of a build's history, never anything in the middle.            *)
NoGapInHistory ==
  [][\A i \in Ids :
       OwnRow(i) /\ OwnRow(i)' /\ rows[i] # rows'[i] =>
         \E k \in 1 .. Len(fsm[i].published) - 1 :
            /\ fsm[i].published[k] = rows[i].status
            /\ fsm[i].published[k + 1] = rows'[i].status]_vars

(* The listener does not look at the id of a message.  Still, a row that   *)
(* shows a status of its own build is never overwritten by that of another *)
(* build, because its listener hears its build's last word, and stops,     *)
(* before the endpoint changes hands.  (A build that panics has no last    *)
(* word.)                                                                  *)
OwnRowIsKept ==
  [][\A i \in Ids : OwnRow(i) /\ ~OwnRow(i)' => Panicked(i)]_vars

(* A listener that ends on its own build's word leaves the truth in the    *)
(* row: Available if the data was imported, NotAvailable if it was not.    *)
DoneMeansOutcome ==
  \A i \in Ids : listener[i] = "done" /\ OwnRow(i) =>
    rows[i].status = IF fsm[i].imported THEN "Available" ELSE "NotAvailable"

(* A listener that has recorded a status of its own build never waits for  *)
(* the rest in vain: as long as it is not done and has nothing queued, the *)
(* build runs and the listener is connected to it, or the build panicked.  *)
NeverWaitsInVain ==
  \A i \in Ids : listener[i] = "listening" /\ OwnRow(i) /\ inbox[i] = <<>> =>
    (i \in connected /\ Live(i)) \/ Panicked(i)

(* A build does not keep the endpoint, so that another index can be made.  *)
EndpointIsReleased == \A i \in Ids : publisher = i ~> publisher # i

(* If a build's listener is connected before the build's last word, the    *)
(* row ends with the outcome of the build, unless the build panics, the    *)
(* listener fails, or the process dies.                                    *)
HeardInTheEnd ==
  \A i \in Ids :
    i \in connected /\ Live(i) /\ fsm[i].state.type \notin Terminal ~>
      \/ listener[i] = "done" /\ OwnRow(i)
      \/ listener[i] = "failed" \/ Panicked(i) \/ phase[i] = "lost"

(* What the id in the message is for ("Id of the index, used to identify   *)
(* the published notifications"): as long as nothing panics, a row shows   *)
(* what was published for its own index.                                   *)
RowShowsOwnNotifications ==
  (\A i \in Ids : ~Panicked(i)) => \A i \in Ids : rows[i].from \in {i, Nobody}

(* Each build, whatever goes on around it, takes the steps of FSM.         *)
Build(i) ==
  INSTANCE FSM WITH
    req <- requests[i], state <- fsm[i].state, events <- fsm[i].events,
    pc <- fsm[i].pc, published <- fsm[i].published,
    es <- IF fsm[i].imported
          THEN {Import([type |-> "IndexingInProgress",
                        file |-> IF requests[i].data_source \in Processors
                                 THEN "cooked" ELSE "raw"], requests[i])}
          ELSE {}

EachBuildIsAnFSM ==
  /\ \A i \in Ids : Build(i)!Init
  /\ [][\A i \in Ids : [Build(i)!Next]_(Build(i)!vars)]_vars
=============================================================================
