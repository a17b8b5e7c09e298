------------------------------ MODULE FSMProofs -----------------------------
(***************************************************************************)
(* Proofs about FSM, for every set of requests: the type invariant, the    *)
(* three safety invariants of the runs, and that every step of the machine *)
(* is a step of Lifecycle or leaves it unchanged.                          *)
(*                                                                         *)
(* The safety invariants are not inductive: they say nothing of the queue. *)
(* IInv adds what the loop maintains: the queue is empty except between    *)
(* run and next, where it holds one of the events that run pushes in the   *)
(* current state (QueueInv); the path in the state belongs to its stage    *)
(* (PathInv); the import is made exactly when indexing completes (EsInv);  *)
(* what was published ends in the current state (WordInv), and a state     *)
(* that is about to be published is of a later stage (AdvanceInv).         *)
(***************************************************************************)
EXTENDS FSM, FsmTransitionsProofs

(* Between two turns of the loop, the queue holds what run pushed. *)
QueueInv ==
  /\ pc \in {"publish", "run", "closed"} => events = <<>>
  /\ pc = "loop" =>
       \/ /\ published = <<>> /\ state = InitialState
          /\ events = <<Event("Download", "none")>>
       \/ /\ published # <<>> /\ RunEvents(state, req) = {}
          /\ events = <<>>
       \/ /\ published # <<>>
          /\ \E e \in RunEvents(state, req) : events = <<e>>
  /\ pc = "closed" => state.type \in Terminal /\ published # <<>>
  /\ state.type # "Failure"

(* The path held by a state is the product of the stage before it. *)
PathInv ==
  /\ state.type = "Downloaded" => state.file = "raw"
  /\ state.type = "ProcessingInProgress" =>
       state.file = "raw" /\ req.data_source = "cosmogony"
  /\ state.type = "Processed" =>
       state.file = "cooked" /\ req.data_source = "cosmogony"
  /\ state.type = "IndexingInProgress" =>
       state.file = IF req.data_source = "cosmogony" THEN "cooked" ELSE "raw"

Imported == {"Indexed", "ValidationInProgress", "Available"}

(* The import is there once indexing has completed, and not before. *)
EsInv ==
  /\ \A m \in es : ServesRequest(m)
  /\ state.type \in Imported => es # {}
  /\ es # {} => \/ state.type \in Imported
                \/ pc = "panicked"
                \/ /\ pc = "loop" /\ state.type = "IndexingInProgress"
                   /\ events = <<Event("IndexingComplete", "none")>>
  /\ pc = "loop" /\ events = <<Event("IndexingComplete", "none")>> => es # {}

(* The last published state is the current one, and no earlier one is      *)
(* terminal; a state waiting to be published follows none that is.         *)
WordInv ==
  /\ \A k \in 1 .. Len(published) - 1 : published[k] \notin Terminal
  /\ pc \in {"loop", "run", "closed"} /\ published # <<>> =>
       published[Len(published)] = state.type
  /\ pc = "run" => published # <<>>
  /\ pc \in {"publish", "panicked"} /\ published # <<>> =>
       published[Len(published)] \notin Terminal

(* What was published went through the stages one way, and the state that  *)
(* waits to be published is of a later stage still.                        *)
AdvanceInv ==
  /\ Advancing(published)
  /\ pc = "publish" /\ published # <<>> =>
       Progress[published[Len(published)]] < Progress[state.type]

IInv == TypeOK /\ QueueInv /\ PathInv /\ EsInv /\ WordInv /\ AdvanceInv

-----------------------------------------------------------------------------
LEMMA InitIInv == Init => IInv
<1> SUFFICES ASSUME Init PROVE IInv
  OBVIOUS
<1> USE DEF Init
<1>1. TypeOK
  BY DEF TypeOK, States, StateTypes, Files, Events, EventTypes, Event, InitialState
<1>2. QueueInv
  BY DEF QueueInv, InitialState
<1>3. PathInv
  BY DEF PathInv, InitialState
<1>4. EsInv
  BY DEF EsInv, Imported, InitialState, Event
<1>5. WordInv /\ AdvanceInv
  BY DEF WordInv, AdvanceInv, Advancing
<1>. QED
  BY <1>1, <1>2, <1>3, <1>4, <1>5 DEF IInv

(* The event popped is the first Download or one that run pushed. *)
LEMMA TransitionIInv == IInv /\ Transition => IInv'
<1> SUFFICES ASSUME IInv, Transition PROVE IInv'
  OBVIOUS
<1> USE DEF IInv
<1>1. CASE /\ published = <<>> /\ state = InitialState
           /\ events = <<Event("Download", "none")>>
  <2>1. /\ state' = [type |-> "DownloadingInProgress", file |-> "none"]
        /\ events' = <<>>
    BY <1>1 DEF Transition, NextState, NextType, CarriesPath, InitialState, Event
  <2>2. TypeOK'
    BY <2>1 DEF TypeOK, Transition, States, StateTypes, Files
  <2>3. QueueInv' /\ PathInv'
    BY <2>1 DEF QueueInv, PathInv, Transition
  <2>4. EsInv'
    BY <1>1, <2>1 DEF EsInv, Imported, Transition, InitialState, ServesRequest, Event
  <2>5. WordInv' /\ AdvanceInv'
    BY <1>1 DEF WordInv, AdvanceInv, Transition
  <2>. QED
    BY <2>2, <2>3, <2>4, <2>5
<1>2. ASSUME NEW e \in RunEvents(state, req), events = <<e>>, published # <<>>
      PROVE  IInv'
  <2>1. state' = NextState(state, e) /\ events' = <<>> /\ pc' = "publish"
    BY <1>2 DEF Transition
  <2>2. state \in States /\ state.type \notin Terminal
    BY <1>2, RunEventsType DEF TypeOK
  <2>3. PICK n \in States : NextState(state, e) = n /\ n.type # "Failure"
    BY <1>2, <2>2, TurnCases DEF States, StateTypes, ErrorTypes, Files
  <2>4. TypeOK' /\ QueueInv'
    BY <2>1, <2>3 DEF TypeOK, QueueInv, Transition
  <2>5. PathInv'
    BY <1>2, <2>1, <2>2, TurnCases DEF PathInv, Transition, States
  <2>6. EsInv'
    <3>1. state'.type \in Imported => es # {}
      BY <1>2, <2>1, <2>2, TurnCases DEF EsInv, Imported, Transition
    <3>2. es # {} => state'.type \in Imported
      BY <1>2, <2>1, <2>2, TurnCases
      DEF EsInv, Imported, Transition, Event, ErrorTypes, Terminal
    <3>. QED
      BY <2>1, <3>1, <3>2 DEF EsInv, Transition, ServesRequest
  <2>7. WordInv'
    BY <1>2, <2>1, <2>2 DEF WordInv, Transition
  <2>8. AdvanceInv'
    <3>1. Progress[state.type] < Progress[state'.type]
      BY <1>2, <2>1, <2>2, TurnAdvances
    <3>2. published' = published /\ published[Len(published)] = state.type
      BY <1>2 DEF WordInv, Transition
    <3>. QED
      BY <3>1, <3>2 DEF AdvanceInv
  <2>. QED
    BY <2>4, <2>5, <2>6, <2>7, <2>8
<1>. QED
  BY <1>1, <1>2 DEF QueueInv, Transition

LEMMA PublishIInv == IInv /\ Publish => IInv'
<1> SUFFICES ASSUME IInv, Publish PROVE IInv'
  OBVIOUS
<1> USE DEF IInv, Publish
<1>1. state.type \in StateTypes /\ published \in Seq(StateTypes)
  BY DEF TypeOK, States
<1>2. TypeOK'
  BY <1>1 DEF TypeOK
<1>3. QueueInv' /\ PathInv'
  BY DEF QueueInv, PathInv
<1>4. EsInv'
  BY DEF EsInv, ServesRequest
<1>5. WordInv'
  <2>1. /\ Len(published') = Len(published) + 1
        /\ published'[Len(published')] = state.type
        /\ \A k \in 1 .. Len(published) : published'[k] = published[k]
    BY <1>1
  <2>2. \A k \in 1 .. Len(published) : published[k] \notin Terminal
    BY <1>1 DEF WordInv
  <2>. QED
    BY <1>1, <2>1, <2>2 DEF WordInv
<1>6. AdvanceInv'
  BY <1>1, AdvanceAppend DEF AdvanceInv, QueueInv
<1>. QED
  BY <1>2, <1>3, <1>4, <1>5, <1>6

(* The import of a successful indexing stage is the one requested. *)
LEMMA ImportServes ==
  ASSUME IInv, state.type = "IndexingInProgress", CanIndex(req)
  PROVE  ServesRequest(Import(state, req)) /\ Import(state, req) \in Imports
<1> USE DEF IInv, TypeOK, States
<1>1. req \in [index_type : STRING, data_source : STRING]
  BY RequestsAssumption
<1>2. state.file = IF req.data_source = "cosmogony" THEN "cooked" ELSE "raw"
  BY DEF PathInv
<1>3. CASE req.data_source = "osm"
  <2>1. \/ req.index_type = "admins" /\ OsmFlags[req.index_type] = {"--import-admin"}
        \/ req.index_type = "streets" /\ OsmFlags[req.index_type] = {"--import-way"}
    BY <1>3 DEF CanIndex, OsmFlags
  <2>. QED
    BY <1>1, <1>2, <1>3, <2>1 DEF ServesRequest, Import, Imports, Files
<1>4. CASE req.data_source # "osm"
  BY <1>1, <1>2, <1>4 DEF ServesRequest, Import, Imports, Files
<1>. QED
  BY <1>3, <1>4

LEMMA RunIInv == IInv /\ Run => IInv'
<1> SUFFICES ASSUME IInv, Run PROVE IInv'
  OBVIOUS
<1> USE DEF IInv
<1>1. PICK e \in RunEvents(state, req) :
        /\ events' = Append(events, e)
        /\ es' = IF e.type = "IndexingComplete"
                 THEN es \cup {Import(state, req)} ELSE es
  BY DEF Run
<1>2. /\ pc = "run" /\ pc' = "loop"
      /\ req' = req /\ state' = state /\ published' = published
  BY DEF Run
<1>3. events = <<>> /\ published # <<>> /\ state \in States
  BY <1>2 DEF QueueInv, WordInv, TypeOK
<1>4. /\ e \in Events
      /\ e.type = "IndexingComplete" =>
           /\ state.type = "IndexingInProgress" /\ CanIndex(req)
           /\ e = Event("IndexingComplete", "none")
  BY <1>1, <1>3, RunEventsType
<1>5. events' = <<e>>
  BY <1>1, <1>3
<1>6. e.type = "IndexingComplete" =>
        ServesRequest(Import(state, req)) /\ Import(state, req) \in Imports
  BY <1>4, ImportServes
<1>7. TypeOK'
  BY <1>1, <1>2, <1>4, <1>5, <1>6 DEF TypeOK
<1>8. QueueInv' /\ PathInv'
  BY <1>1, <1>2, <1>3, <1>5 DEF QueueInv, PathInv
<1>9. EsInv'
  <2>1. \A m \in es' : ServesRequest(m)'
    BY <1>1, <1>2, <1>6 DEF EsInv, ServesRequest
  <2>2. es # {} => state.type \in Imported
    BY <1>2 DEF EsInv
  <2>3. events' = <<Event("IndexingComplete", "none")>> => e.type = "IndexingComplete"
    BY <1>5 DEF Event
  <2>. QED
    BY <1>1, <1>2, <1>4, <1>5, <2>1, <2>2, <2>3 DEF EsInv
<1>10. WordInv' /\ AdvanceInv'
  BY <1>2 DEF WordInv, AdvanceInv
<1>. QED
  BY <1>7, <1>8, <1>9, <1>10

(* The steps in which nothing is pushed and no state changes. *)
LEMMA OtherStepsIInv ==
  IInv /\ (PublishPanics \/ RunNothing \/ RunPanics \/ Close) => IInv'
<1> USE DEF IInv
<1>1. IInv /\ PublishPanics => IInv'
  BY DEF PublishPanics, TypeOK, QueueInv, PathInv, EsInv, WordInv, AdvanceInv,
         ServesRequest
<1>2. IInv /\ RunNothing => IInv'
  <2> SUFFICES ASSUME IInv, RunNothing PROVE IInv'
    OBVIOUS
  <2>1. published # <<>> /\ events = <<>>
    BY DEF RunNothing, WordInv, QueueInv
  <2>. QED
    BY <2>1 DEF RunNothing, TypeOK, QueueInv, PathInv, EsInv, WordInv, AdvanceInv,
         ServesRequest
<1>3. IInv /\ RunPanics => IInv'
  <2> SUFFICES ASSUME IInv, RunPanics PROVE IInv'
    OBVIOUS
  <2> USE DEF RunPanics
  <2>1. state.type = "IndexingInProgress" => CanIndex(req)
    BY DEF MayPanic
  <2>2. \A m \in es' : ServesRequest(m) /\ m \in Imports
    BY <2>1, ImportServes DEF EsInv, TypeOK
  <2>3. TypeOK' /\ QueueInv' /\ PathInv'
    BY <2>2 DEF TypeOK, QueueInv, PathInv
  <2>4. EsInv'
    BY <2>2 DEF EsInv, ServesRequest
  <2>5. state.type \notin Terminal
    BY DEF MayPanic, Terminal
  <2>6. WordInv' /\ AdvanceInv'
    BY <2>5 DEF WordInv, AdvanceInv
  <2>. QED
    BY <2>3, <2>4, <2>6
<1>4. IInv /\ Close => IInv'
  <2> SUFFICES ASSUME IInv, Close PROVE IInv'
    OBVIOUS
  <2>1. published # <<>> /\ state.type \in Terminal
    BY SilentStates DEF Close, QueueInv, TypeOK
  <2>. QED
    BY <2>1 DEF Close, TypeOK, QueueInv, PathInv, EsInv, WordInv, AdvanceInv,
         ServesRequest
<1>. QED
  BY <1>1, <1>2, <1>3, <1>4

LEMMA StepIInv == IInv /\ [Next]_vars => IInv'
<1>1. IInv /\ UNCHANGED vars => IInv'
  BY DEF vars, IInv, TypeOK, QueueInv, PathInv, EsInv, WordInv, AdvanceInv,
         ServesRequest
<1>. QED
  BY <1>1, TransitionIInv, PublishIInv, RunIInv, OtherStepsIInv DEF Next

(* The strengthened invariant holds of every run of the machine. *)
THEOREM Inductive == Spec => []IInv
  BY InitIInv, StepIInv, PTL DEF Spec

-----------------------------------------------------------------------------
(* Type correctness: the queue holds events, the socket carries states.    *)
THEOREM TypeCorrect == Spec => []TypeOK
<1>1. IInv => TypeOK
  BY DEF IInv
<1>. QED
  BY <1>1, Inductive, PTL

(* The loop of exec never pops an event that next has no arm for, whatever *)
(* the request: so no build dies on the Failure state.                     *)
THEOREM NeverWrong == Spec => []NoWrongCombination
<1>1. IInv => NoWrongCombination
  BY DEF IInv, QueueInv, NoWrongCombination
<1>. QED
  BY <1>1, Inductive, PTL

(* A listener that stops at the first terminal state it receives misses    *)
(* nothing, and one that received everything does stop.                    *)
THEOREM LastWordIsTerminal == Spec => []TerminalStateIsLastWord
<1>1. IInv => TerminalStateIsLastWord
  BY DEF IInv, TypeOK, QueueInv, WordInv, TerminalStateIsLastWord
<1>. QED
  BY <1>1, Inductive, PTL

(* What exec announces goes through the stages one way, whatever fails: no *)
(* arm of next, fed with what run pushes, leads back to an earlier one.    *)
THEOREM GoesOneWay == Spec => []NeverGoesBack
<1>1. IInv => NeverGoesBack
  BY DEF IInv, AdvanceInv, Advancing, NeverGoesBack
<1>. QED
  BY <1>1, Inductive, PTL

(* A build that ends says Available exactly if the requested data, and     *)
(* only that, was imported.                                                *)
THEOREM AvailableIffImported == Spec => []EndsAvailableIffImported
<1>1. IInv => EndsAvailableIffImported
  BY DEF IInv, QueueInv, EsInv, Imported, Terminal, EndsAvailableIffImported
<1>. QED
  BY <1>1, Inductive, PTL

-----------------------------------------------------------------------------
(* Until a terminal state is published, a listener knows only that the     *)
(* build goes on.                                                          *)
LEMMA Building ==
  ASSUME IInv, \/ pc = "publish"
               \/ pc = "run" /\ state.type \notin Terminal
  PROVE  StageOfBuild = "building"
<1>1. LastWord \notin Terminal
  BY DEF IInv, WordInv, LastWord, Terminal
<1>. QED
  BY <1>1 DEF StageOfBuild, Terminal

(* Each step of the machine is a step of Lifecycle, or invisible to it.    *)
LEMMA StepImplements == IInv /\ [Next]_vars => [Life!LifeNext]_Life!lifeVars
<1> SUFFICES ASSUME IInv, [Next]_vars PROVE [Life!LifeNext]_Life!lifeVars
  OBVIOUS
<1> USE DEF Life!lifeVars
<1>1. CASE Transition \/ RunNothing \/ Close \/ UNCHANGED vars
  BY <1>1 DEF Transition, RunNothing, Close, vars, StageOfBuild, LastWord
<1>2. CASE Publish
  <2>1. StageOfBuild = "building"
    BY <1>2, Building DEF Publish
  <2>2. state.type \in StateTypes /\ published \in Seq(StateTypes)
    BY DEF IInv, TypeOK, States
  <2>3. LastWord' = state.type
    BY <1>2, <2>2 DEF Publish, LastWord
  <2>4. /\ state.type = "Available" => es # {}
        /\ state.type = "NotAvailable" => es = {}
    BY <1>2 DEF IInv, EsInv, Imported, Publish
  <2>5. pc' = "run" /\ es' = es
    BY <1>2 DEF Publish
  <2>. QED
    BY <2>1, <2>3, <2>4, <2>5
    DEF StageOfBuild, Life!LifeNext, Life!AnnounceAvailable, Life!AnnounceFailure
<1>3. CASE Run
  <2>1. PICK e \in RunEvents(state, req) :
          es' = IF e.type = "IndexingComplete"
                THEN es \cup {Import(state, req)} ELSE es
    BY <1>3 DEF Run
  <2>2. state.type \notin Terminal
    BY <2>1, RunEventsType DEF IInv, TypeOK
  <2>3. StageOfBuild = "building"
    BY <1>3, <2>2, Building DEF Run
  <2>4. StageOfBuild' = StageOfBuild
    BY <1>3 DEF Run, StageOfBuild, LastWord
  <2>. QED
    BY <2>1, <2>3, <2>4 DEF Life!LifeNext, Life!ImportData
<1>4. CASE PublishPanics \/ RunPanics
  <2>1. StageOfBuild = "building"
    BY <1>4, Building DEF PublishPanics, RunPanics, MayPanic, Terminal
  <2>2. StageOfBuild' = "aborted" /\ es \subseteq es'
    BY <1>4 DEF PublishPanics, RunPanics, StageOfBuild
  <2>. QED
    BY <2>1, <2>2 DEF Life!LifeNext, Life!Abort
<1>. QED
  BY <1>1, <1>2, <1>3, <1>4 DEF Next

(* The machine is an implementation of Lifecycle: what it announces, once, *)
(* is whether the data is in Elasticsearch.  (That it does announce it is  *)
(* liveness, and model-checked.)                                           *)
THEOREM Implements == Spec => Life!LifeSafe
<1>1. Init => Life!LifeInit
  BY DEF Init, Life!LifeInit, StageOfBuild, LastWord
<1>. QED
  BY <1>1, StepImplements, Inductive, PTL DEF Spec, Life!LifeSafe

=============================================================================
