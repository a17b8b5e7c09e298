-------------------------------- MODULE FSM ---------------------------------
(***************************************************************************)
(* One index build: the FSM of src/src/fsm/mod.rs and the loop `exec` that *)
(* drives it.  The loop pops an event, lets `next` change the state,       *)
(* publishes the new state on the ZeroMQ socket, and calls `run`, which    *)
(* does the work of the state (a download, a program) and pushes the event *)
(* that follows.  It ends when the queue is empty.                         *)
(*                                                                         *)
(* `published` and `es` are the machine's surroundings: the sequence of    *)
(* states that left through the socket, and the imports that the XXX2mimir *)
(* programs completed in Elasticsearch.                                    *)
(***************************************************************************)
EXTENDS FsmTransitions, Sequences, Naturals

CONSTANT Requests   \* the requests an index may be created with

ASSUME RequestsAssumption ==
  Requests \subseteq [index_type : STRING, data_source : STRING]

VARIABLES req,        \* index_type and data_source of the FSM; never reassigned
          state,      \* FSM.state
          events,     \* FSM.events, the queue
          pc,         \* where exec is in its loop
          published,  \* the types of the states published so far
          es          \* the imports completed in Elasticsearch

vars == <<req, state, events, pc, published, es>>

Imports == [tool : STRING, input : Files, flags : SUBSET {"--import-admin", "--import-way"}]

(* The type invariant. *)
TypeOK ==
  /\ req \in Requests
  /\ state \in States
  /\ events \in Seq(Events)
  /\ pc \in {"loop", "publish", "run", "closed", "panicked"}
  /\ published \in Seq(StateTypes)
  /\ es \subseteq Imports

-----------------------------------------------------------------------------
(* FSM::new, and the first line of exec, which queues the Download event. *)
Init ==
  /\ req \in Requests
  /\ state = InitialState
  /\ events = <<Event("Download", "none")>>
  /\ pc = "loop"
  /\ published = <<>>
  /\ es = {}

(* exec pops an event and calls next.  (The first form announces the state *)
(* it is leaving, as a loop that sent before it called next would.)        *)
TransitionAnnouncesOld ==
  /\ pc = "loop" /\ events # <<>>
  /\ state' = NextState(state, Head(events))
  /\ events' = Tail(events)
  /\ pc' = "publish"
  /\ published' = Append(published, state.type)
  /\ UNCHANGED <<req, es>>

Transition ==
  /\ pc = "loop" /\ events # <<>>
  /\ state' = NextState(state, Head(events))
  /\ events' = Tail(events)
  /\ pc' = "publish"
  /\ UNCHANGED <<req, published, es>>

(* exec serialises the new state and sends it.  A Failure state cannot be  *)
(* serialised (a newtype variant of a string in an internally tagged enum) *)
(* and the unwrap of the result panics, see PublishPanics.                 *)
Publish ==
  /\ pc = "publish" /\ state.type # "Failure"
  /\ published' = Append(published, state.type)
  /\ pc' = "run"
  /\ UNCHANGED <<req, state, events, es>>

(* Either unwrap of exec (to_string, send) panics and kills the task. *)
PublishPanics ==
  /\ pc = "publish"
  /\ pc' = "panicked"
  /\ UNCHANGED <<req, state, events, published, es>>

(* run pushes an event; the indexing arm's success is also an import.  *)
Run ==
  /\ pc = "run"
  /\ \E e \in RunEvents(state, req) :
       /\ events' = Append(events, e)
       /\ es' = IF e.type = "IndexingComplete"
                THEN es \cup {Import(state, req)} ELSE es
  /\ pc' = "loop"
  /\ UNCHANGED <<req, state, published>>

(* run in a terminal state pushes nothing. *)
RunNothing ==
  /\ pc = "run" /\ RunEvents(state, req) = {}
  /\ pc' = "loop"
  /\ UNCHANGED <<req, state, events, published, es>>

(* An unwrap in run panics; the program it called may have succeeded. *)
RunPanics ==
  /\ pc = "run" /\ MayPanic(state, req)
  /\ pc' = "panicked"
  /\ es' \in {es} \cup (IF state.type = "IndexingInProgress"
                        THEN {es \cup {Import(state, req)}} ELSE {})
  /\ UNCHANGED <<req, state, events, published>>

(* The queue is empty: exec leaves the loop and closes the publisher. *)
Close ==
  /\ pc = "loop" /\ events = <<>>
  /\ pc' = "closed"
  /\ UNCHANGED <<req, state, events, published, es>>

Next ==
  \/ Transition \/ Publish \/ PublishPanics
  \/ Run \/ RunNothing \/ RunPanics \/ Close

(* exec is a spawned task: it keeps running until it returns or panics,    *)
(* and the programs it waits for are assumed to return.                    *)
Spec == Init /\ [][Next]_vars /\ WF_vars(Next)

-----------------------------------------------------------------------------
(***************************************************************************)
(* Properties.                                                             *)
(***************************************************************************)

(* Every event that run queues is one that next knows in the state it will *)
(* be popped in: the machine never takes the arm "Wrong state, event       *)
(* combination" (which would kill the task when the state is serialised).  *)
NoWrongCombination == state.type # "Failure"

(* update_notifications stops listening at the first NotAvailable or       *)
(* Available it receives.  So such a state must be published last, never   *)
(* earlier, and a machine that closes its publisher must have published it. *)
TerminalStateIsLastWord ==
  /\ \A k \in 1 .. Len(published) - 1 : published[k] \notin Terminal
  /\ pc = "closed" => /\ published # <<>>
                      /\ published[Len(published)] \in Terminal

(* What a build announces goes one way: no stage is gone through twice,    *)
(* nothing follows an error but the end, and no error sends the build back *)
(* to an earlier stage.                                                    *)
NeverGoesBack ==
  \A k \in 1 .. Len(published) - 1 : Progress[published[k]] < Progress[published[k + 1]]

(* The import is what the request asked for: made by the program of its    *)
(* data source, from the file the last stage made, with the right flags.   *)
ServesRequest(m) ==
  /\ m.tool = req.data_source
  /\ m.input = IF req.data_source = "cosmogony" THEN "cooked" ELSE "raw"
  /\ req.data_source = "osm" =>
       /\ "--import-admin" \in m.flags <=> req.index_type = "admins"
       /\ "--import-way" \in m.flags <=> req.index_type = "streets"

(* Nothing but the requested data is imported, and a machine that ends     *)
(* says Available if the import was made and NotAvailable if it was not.   *)
EndsAvailableIffImported ==
  /\ \A m \in es : ServesRequest(m)
  /\ pc = "closed" => (state.type = "Available" <=> es # {})

(* "We can't stay in downloading error state, we need to go back to not    *)
(* available to terminate the fsm": an error state is always left for      *)
(* NotAvailable, where the loop ends, unless the task dies.                *)
ErrorStateIsLeft ==
  state.type \in ErrorTypes ~> \/ pc = "closed" /\ state.type = "NotAvailable"
                               \/ pc = "panicked"

(***************************************************************************)
(* The machine implements Lifecycle: what a listener can tell is decided   *)
(* by the last state that was published.                                   *)
(***************************************************************************)
LastWord == IF published = <<>> THEN "none" ELSE published[Len(published)]

StageOfBuild ==
  IF pc = "panicked" THEN "aborted"
  ELSE IF LastWord = "Available" THEN "available"
  ELSE IF LastWord = "NotAvailable" THEN "unavailable"
  ELSE "building"

Life == INSTANCE Lifecycle WITH stage <- StageOfBuild, indexed <- es # {}

(* The build announces its outcome once, truthfully, and in the end. *)
ImplementsLifecycle == Life!LifeSpec

=============================================================================
