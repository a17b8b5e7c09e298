---------------------------- MODULE IngestProofs ----------------------------
(***************************************************************************)
(* Proofs about Ingest, for any number of indexes, any number of crashes   *)
(* and any requests.  Every safety property of that module is a theorem    *)
(* here.  The inductive invariant, IInv, has three layers:                 *)
(*                                                                         *)
(*   TypeOK, OneBuildAtATime   the sockets and who holds the endpoint;     *)
(*   MachinesInv, HistoryInv   what each build has said, and how that      *)
(*                             agrees with its state, its queue and what   *)
(*                             it imported;                                *)
(*   ListenersInv              what each listener wrote into its row and   *)
(*                             has yet to take, against what was said.     *)
(*                                                                         *)
(* The third layer is a theory of its own, of a reader of the endpoint and *)
(* its trail; SubscriptionsProofs uses it again, for streams.              *)
(***************************************************************************)
EXTENDS Ingest, FsmTransitionsProofs

(* The steps of create_index and of the sockets preserve the types. *)
LEMMA CreateTypes ==
  ASSUME TypeOK, NEW i \in Ids, CreateDb(i) \/ StartFsm(i) \/ RejectCreate(i)
  PROVE  TypeOK'
<1> USE DEF TypeOK, Phases, ListenerStates
<1>1. CASE CreateDb(i)
  BY <1>1 DEF CreateDb
<1>2. CASE StartFsm(i)
  BY <1>2 DEF StartFsm
<1>3. CASE RejectCreate(i)
  BY <1>3 DEF RejectCreate
<1>. QED
  BY <1>1, <1>2, <1>3

(* A step of a machine changes that machine, and at most fills inboxes. *)
LEMMA ExecTypes ==
  ASSUME TypeOK, NEW i \in Ids, ExecStep(i)
  PROVE  /\ TypeOK'
         /\ Live(i) /\ UNCHANGED restVars
         /\ \A j \in Ids \ {i} : fsm'[j] = fsm[j]
<1>1. /\ fsm \in [Ids -> Machine] /\ fsm[i] \in Machine
      /\ inbox \in [Ids -> Seq(Message)]
  BY DEF TypeOK
<1>2. Live(i) /\ UNCHANGED restVars
  BY DEF ExecStep, Transition, Publish, Run, RunNothing, Panic, Close
<1>3. /\ fsm' \in [Ids -> Machine]
      /\ \A j \in Ids \ {i} : fsm'[j] = fsm[j]
      /\ inbox' \in [Ids -> Seq(Message)]
  <2>1. CASE Transition(i)
    <3>1. /\ fsm[i].events \in Seq(Events) /\ fsm[i].events # <<>>
          /\ fsm[i].state \in States
      BY <1>1, <2>1 DEF Machine, Transition
    <3>2. Head(fsm[i].events) \in Events /\ Tail(fsm[i].events) \in Seq(Events)
      BY <3>1
    <3>3. NextState(fsm[i].state, Head(fsm[i].events)) \in States
      BY <3>1, <3>2, NextStateType
    <3>. QED
      BY <1>1, <2>1, <3>2, <3>3 DEF Transition, Machine
  <2>2. CASE Publish(i)
    <3>1. fsm[i].state.type \in StateTypes
      BY <1>1 DEF Machine, States
    <3>2. Append(fsm[i].published, fsm[i].state.type) \in Seq(StateTypes)
      BY <1>1, <3>1 DEF Machine
    <3>3. [id |-> i, status |-> fsm[i].state.type] \in Message
      BY <3>1 DEF Message
    <3>4. fsm' \in [Ids -> Machine] /\ \A j \in Ids \ {i} : fsm'[j] = fsm[j]
      BY <1>1, <2>2, <3>2 DEF Publish, Machine
    <3>5. inbox' \in [Ids -> Seq(Message)]
      BY <1>1, <2>2, <3>3 DEF Publish, Deliver
    <3>. QED
      BY <3>4, <3>5
  <2>3. CASE Run(i)
    <3>1. PICK e \in RunEvents(fsm[i].state, requests[i]) :
            fsm' = [fsm EXCEPT ![i].pc = "loop", ![i].events = Append(@, e),
                               ![i].imported = @ \/ e.type = "IndexingComplete"]
      BY <2>3 DEF Run
    <3>2. fsm[i].state \in States /\ fsm[i].events \in Seq(Events)
      BY <1>1 DEF Machine
    <3>3. Append(fsm[i].events, e) \in Seq(Events)
      BY <3>2, RunEventsType
    <3>. QED
      BY <1>1, <2>3, <3>1, <3>3 DEF Run, Machine
  <2>4. CASE RunNothing(i)
    BY <1>1, <2>4 DEF RunNothing, Machine
  <2>5. CASE Panic(i)
    <3>1. PICK b \in BOOLEAN :
            fsm' = [fsm EXCEPT ![i].pc = "panicked", ![i].imported = b]
      <4>1. fsm[i].imported \in BOOLEAN
        BY <1>1 DEF Machine
      <4>2. CASE fsm' = [fsm EXCEPT ![i].pc = "panicked"]
        <5>1. fsm' = [fsm EXCEPT ![i].pc = "panicked", ![i].imported = fsm[i].imported]
          BY <1>1, <4>2 DEF Machine
        <5>. QED
          BY <4>1, <5>1
      <4>3. ASSUME NEW done \in BOOLEAN,
                   fsm' = [fsm EXCEPT ![i].pc = "panicked", ![i].imported = @ \/ done]
            PROVE  \E b \in BOOLEAN :
                     fsm' = [fsm EXCEPT ![i].pc = "panicked", ![i].imported = b]
        <5>1. (fsm[i].imported \/ done) \in BOOLEAN
          OBVIOUS
        <5>. QED
          BY <4>3, <5>1, Zenon
      <4>4. (fsm[i].state.type = "IndexingInProgress") \in BOOLEAN
        OBVIOUS
      <4>. QED
        BY <2>5, <4>2, <4>3, <4>4, Zenon DEF Panic
    <3>. QED
      BY <1>1, <2>5, <3>1 DEF Panic, Machine
  <2>6. CASE Close(i)
    BY <1>1, <2>6 DEF Close, Machine
  <2>. QED
    BY <2>1, <2>2, <2>3, <2>4, <2>5, <2>6 DEF ExecStep
<1>. QED
  BY <1>2, <1>3 DEF TypeOK, restVars

(* The steps of a listener, and its background connection. *)
LEMMA ListenerTypes ==
  ASSUME TypeOK, NEW i \in Ids, ListenerStep(i) \/ Join(i)
  PROVE  TypeOK' /\ UNCHANGED <<phase, fsm, publisher>>
<1> USE DEF TypeOK, ListenerStates, Remaining
<1>1. CASE Subscribe(i)
  BY <1>1 DEF Subscribe
<1>2. CASE Join(i)
  BY <1>2 DEF Join
<1>3. CASE Update(i)
  <2> DEFINE m == Head(inbox[i])
  <2>1. m \in Message /\ Tail(inbox[i]) \in Seq(Message)
    BY <1>3 DEF Update
  <2>2. [status |-> m.status, from |-> m.id] \in Row
    BY <2>1 DEF Message, Row
  <2>3. rows' \in [Ids -> Row]
    BY <1>3, <2>2 DEF Update
  <2>4. CASE m.status \in StopsOn
    <3>1. /\ listener' = [listener EXCEPT ![i] = "done"]
          /\ connected' = connected \ {i}
          /\ inbox' = [inbox EXCEPT ![i] = <<>>]
      BY <1>3, <2>4, Zenon DEF Update
    <3>. QED
      BY <1>3, <2>3, <3>1 DEF Update
  <2>5. CASE m.status \notin StopsOn
    BY <1>3, <2>1, <2>3, <2>5 DEF Update
  <2>. QED
    BY <2>4, <2>5
<1>4. CASE ListenerFails(i)
  BY <1>4 DEF ListenerFails
<1>. QED
  BY <1>1, <1>2, <1>3, <1>4 DEF ListenerStep

(* The endpoint is given back, or the process dies. *)
LEMMA OtherTypes == TypeOK /\ (ReleaseEndpoint \/ Crash) => TypeOK'
<1> USE DEF TypeOK, Phases, ListenerStates
<1>1. TypeOK /\ ReleaseEndpoint => TypeOK'
  BY DEF ReleaseEndpoint
<1>2. TypeOK /\ Crash => TypeOK'
  BY MaxCrashesAssumption DEF Crash
<1>. QED
  BY <1>1, <1>2

-----------------------------------------------------------------------------
(* Initially nobody publishes and nothing runs. *)
LEMMA InitOneBuild == Init => TypeOK /\ OneBuildAtATime
<1> SUFFICES ASSUME Init PROVE TypeOK /\ OneBuildAtATime
  OBVIOUS
<1> USE DEF Init
<1>1. NewMachine \in Machine
  BY DEF NewMachine, Machine, InitialState, States, StateTypes, Files, Events,
         EventTypes, Event
<1>2. NewRow \in Row
  BY DEF NewRow, Row, StateTypes
<1>3. TypeOK
  BY <1>1, <1>2, MaxCrashesAssumption DEF TypeOK, Phases, ListenerStates
<1>4. OneBuildAtATime
  BY DEF OneBuildAtATime, Live
<1>. QED
  BY <1>3, <1>4

(* A machine starts only when nobody holds the endpoint, hence when none   *)
(* runs; and the endpoint is given back only when its holder runs no more. *)
LEMMA StepOneBuild ==
  TypeOK /\ OneBuildAtATime /\ [Next]_vars => (TypeOK /\ OneBuildAtATime)'
<1> SUFFICES ASSUME TypeOK, OneBuildAtATime, [Next]_vars
             PROVE  (TypeOK /\ OneBuildAtATime)'
  OBVIOUS
<1> USE DEF OneBuildAtATime
<1>1. ASSUME NEW i \in Ids, CreateDb(i) \/ StartFsm(i) \/ RejectCreate(i)
      PROVE  (TypeOK /\ OneBuildAtATime)'
  <2>1. \A j \in Ids : Live(j)' => Live(j) \/ (j = i /\ StartFsm(i))
    BY <1>1 DEF CreateDb, StartFsm, RejectCreate, Live, TypeOK
  <2>2. CASE StartFsm(i)
    <3>1. \A j \in Ids : ~Live(j)
      BY <2>2 DEF StartFsm, Nobody, Ids
    <3>. QED
      BY <1>1, <2>1, <2>2, <3>1, CreateTypes DEF StartFsm
  <2>3. CASE CreateDb(i) \/ RejectCreate(i)
    <3>1. publisher' = publisher /\ phase'[i] \in {"inserted", "rejected"}
      BY <2>3 DEF CreateDb, RejectCreate, TypeOK
    <3>2. \A j \in Ids : Live(j)' => Live(j)
      BY <2>1, <3>1 DEF Live
    <3>. QED
      BY <1>1, <3>1, <3>2, CreateTypes
  <2>. QED
    BY <1>1, <2>2, <2>3
<1>2. ASSUME NEW i \in Ids, ExecStep(i)
      PROVE  (TypeOK /\ OneBuildAtATime)'
  <2>1. /\ TypeOK' /\ Live(i) /\ publisher' = publisher /\ phase' = phase
        /\ \A j \in Ids \ {i} : fsm'[j] = fsm[j]
    BY <1>2, ExecTypes DEF restVars
  <2>. QED
    BY <2>1 DEF Live
<1>3. ASSUME NEW i \in Ids, ListenerStep(i) \/ Join(i)
      PROVE  (TypeOK /\ OneBuildAtATime)'
  BY <1>3, ListenerTypes DEF Live
<1>4. CASE ReleaseEndpoint
  BY <1>4, OtherTypes DEF ReleaseEndpoint, Live
<1>5. CASE Crash
  <2>1. \A j \in Ids : phase'[j] # "started"
    BY <1>5 DEF Crash
  <2>. QED
    BY <1>5, <2>1, OtherTypes DEF Live
<1>6. CASE UNCHANGED vars
  BY <1>6 DEF vars, TypeOK, Live
<1>. QED
  BY <1>1, <1>2, <1>3, <1>4, <1>5, <1>6 DEF Next

(* The two together are inductive. *)
LEMMA OneBuildInv == Spec => [](TypeOK /\ OneBuildAtATime)
  BY InitOneBuild, StepOneBuild, PTL DEF Spec

(* The service keeps to its types, however requests, builds, listeners and *)
(* crashes interleave; in particular nobody is connected to no publisher.  *)
THEOREM IngestTypeCorrect == Spec => []TypeOK
  BY OneBuildInv, PTL

(* The bind of FSM::new is a mutual exclusion: however many indexes are    *)
(* requested at once, at most one is being built, so that builds do not    *)
(* share the working directory at the same time.                           *)
THEOREM AtMostOneBuild == Spec => []OneBuildAtATime
  BY OneBuildInv, PTL

-----------------------------------------------------------------------------
(***************************************************************************)
(* One build.  What its steps maintain is what FSMProofs proves of module  *)
(* FSM, said of the record m that stands for the machine and the request r *)
(* it was made for.                                                        *)
(***************************************************************************)

(* The queue of a machine holds what run pushed since the last turn. *)
MachineQueue(m, r) ==
  /\ m.pc \in {"publish", "run", "closed"} => m.events = <<>>
  /\ m.pc = "loop" =>
       \/ /\ m.published = <<>> /\ m.state = InitialState
          /\ m.events = <<Event("Download", "none")>>
       \/ m.published # <<>> /\ m.events = <<>> /\ m.state.type \in Terminal
       \/ /\ m.published # <<>>
          /\ \E e \in RunEvents(m.state, r) : m.events = <<e>>
  /\ m.pc = "closed" => m.published # <<>> /\ m.state.type \in Terminal
  /\ m.state.type # "Failure"

(* The path held by a state is the product of the stage before it. *)
MachinePath(m, r) ==
  /\ m.state.type = "Downloaded" => m.state.file = "raw"
  /\ m.state.type = "ProcessingInProgress" =>
       m.state.file = "raw" /\ r.data_source = "cosmogony"
  /\ m.state.type = "Processed" =>
       m.state.file = "cooked" /\ r.data_source = "cosmogony"
  /\ m.state.type = "IndexingInProgress" =>
       m.state.file = IF r.data_source = "cosmogony" THEN "cooked" ELSE "raw"

(* The states of a machine whose import is done. *)
AfterImport == {"Indexed", "ValidationInProgress", "Available"}

(* An import is done once the machine has said Indexed, is about to, or    *)
(* panicked in the stage that makes it; and never otherwise.               *)
MachineImport(m) ==
  /\ m.state.type \in AfterImport => m.imported
  /\ m.imported => \/ m.state.type \in AfterImport \/ m.pc = "panicked"
                   \/ /\ m.pc = "loop" /\ m.state.type = "IndexingInProgress"
                      /\ m.events = <<Event("IndexingComplete", "none")>>
  /\ m.pc = "loop" /\ m.events = <<Event("IndexingComplete", "none")>> => m.imported

(* Its history ends in its state, and no word but the last is terminal. *)
MachineWords(m) ==
  /\ \A k \in 1 .. Len(m.published) - 1 : m.published[k] \notin Terminal
  /\ m.pc \in {"loop", "run", "closed"} /\ m.published # <<>> =>
       m.published[Len(m.published)] = m.state.type
  /\ m.pc = "run" => m.published # <<>>
  /\ m.pc \in {"publish", "panicked"} /\ m.published # <<>> =>
       m.published[Len(m.published)] \notin Terminal

(* Its history goes one way, and the state that waits to be published is   *)
(* further on.                                                             *)
MachineAdvance(m) ==
  /\ Advancing(m.published)
  /\ m.pc = "publish" /\ m.published # <<>> =>
       Progress[m.published[Len(m.published)]] < Progress[m.state.type]

(* The invariant of one machine. *)
MachineInv(m, r) ==
  /\ MachineQueue(m, r) /\ MachinePath(m, r)
  /\ MachineImport(m) /\ MachineWords(m) /\ MachineAdvance(m)

(* FSM::new makes a machine that has it. *)
LEMMA NewMachineInv == \A r : MachineInv(NewMachine, r)
  BY DEF MachineInv, MachineQueue, MachinePath, MachineImport, MachineWords, MachineAdvance,
         Advancing, NewMachine, InitialState, AfterImport, Event

(* The event popped is the first Download or the one that run pushed. *)
LEMMA TransitionMachine ==
  ASSUME NEW r, NEW m \in Machine, NEW n \in Machine, MachineInv(m, r),
         m.pc = "loop", m.events # <<>>,
         n.pc = "publish", n.events = Tail(m.events),
         n.state = NextState(m.state, Head(m.events)),
         n.published = m.published, n.imported = m.imported
  PROVE  MachineInv(n, r)
<1> USE DEF MachineInv
<1>1. CASE /\ m.published = <<>> /\ m.state = InitialState
           /\ m.events = <<Event("Download", "none")>>
  <2>1. /\ n.state = [type |-> "DownloadingInProgress", file |-> "none"]
        /\ n.events = <<>>
    BY <1>1 DEF NextState, NextType, CarriesPath, InitialState, Event
  <2>2. ~m.imported
    BY <1>1 DEF MachineImport, AfterImport, InitialState, Event
  <2>. QED
    BY <1>1, <2>1, <2>2
    DEF MachineQueue, MachinePath, MachineImport, MachineWords, MachineAdvance, AfterImport
<1>2. ASSUME NEW e \in RunEvents(m.state, r), m.events = <<e>>, m.published # <<>>
      PROVE  MachineInv(n, r)
  <2>1. m.state \in States /\ m.state.type \notin Terminal
    BY <1>2, RunEventsType DEF Machine
  <2>2. n.state = NextState(m.state, e) /\ n.events = <<>>
    BY <1>2
  <2>3. n.state.type # "Failure"
    BY <1>2, <2>1, <2>2, TurnCases DEF ErrorTypes
  <2>4. MachineQueue(n, r)
    BY <2>2, <2>3 DEF MachineQueue
  <2>5. MachinePath(n, r)
    BY <1>2, <2>1, <2>2, TurnCases DEF MachinePath, States
  <2>6. MachineImport(n)
    <3>1. n.state.type \in AfterImport => m.imported
      BY <1>2, <2>1, <2>2, TurnCases DEF MachineImport, AfterImport
    <3>2. m.imported => n.state.type \in AfterImport
      BY <1>2, <2>1, <2>2, TurnCases
      DEF MachineImport, AfterImport, Event, ErrorTypes, Terminal
    <3>. QED
      BY <3>1, <3>2, Zenon DEF MachineImport
  <2>7. MachineWords(n)
    BY <1>2, <2>1 DEF MachineWords
  <2>8. MachineAdvance(n)
    <3>1. Progress[m.state.type] < Progress[n.state.type]
      BY <1>2, <2>1, <2>2, TurnAdvances
    <3>2. m.published[Len(m.published)] = m.state.type
      BY <1>2 DEF MachineWords
    <3>. QED
      BY <3>1, <3>2 DEF MachineAdvance
  <2>. QED
    BY <2>4, <2>5, <2>6, <2>7, <2>8
<1>. QED
  BY <1>1, <1>2 DEF MachineQueue

(* Publishing makes the state of the machine the last word of its history. *)
LEMMA PublishMachine ==
  ASSUME NEW r, NEW m \in Machine, NEW n \in Machine, MachineInv(m, r),
         m.pc = "publish", n.pc = "run", n.events = m.events, n.state = m.state,
         n.published = Append(m.published, m.state.type), n.imported = m.imported
  PROVE  MachineInv(n, r)
<1> USE DEF MachineInv
<1>1. m.published \in Seq(StateTypes) /\ m.state.type \in StateTypes
  BY DEF Machine, States
<1>2. MachineQueue(n, r) /\ MachinePath(n, r) /\ MachineImport(n)
  BY DEF MachineQueue, MachinePath, MachineImport
<1>3. MachineWords(n)
  <2>1. /\ Len(n.published) = Len(m.published) + 1
        /\ n.published[Len(n.published)] = m.state.type
        /\ \A k \in 1 .. Len(m.published) : n.published[k] = m.published[k]
    BY <1>1
  <2>2. \A k \in 1 .. Len(m.published) : m.published[k] \notin Terminal
    BY <1>1 DEF MachineWords
  <2>3. /\ Len(m.published) \in Nat /\ n.published # <<>>
        /\ \A k \in 1 .. Len(n.published) - 1 : n.published[k] \notin Terminal
    <3>1. Len(m.published) \in Nat /\ n.published # <<>>
      BY <1>1
    <3>2. 1 .. Len(n.published) - 1 = 1 .. Len(m.published)
      BY <2>1, <3>1
    <3>. QED
      BY <2>1, <2>2, <3>1, <3>2
  <2>. QED
    BY <2>1, <2>3 DEF MachineWords
<1>4. MachineAdvance(n)
  BY <1>1, AdvanceAppend DEF MachineAdvance, MachineQueue
<1>. QED
  BY <1>2, <1>3, <1>4

(* run pushes one event, onto an empty queue; the event of a stage that    *)
(* succeeded is the sign of its import.                                    *)
LEMMA RunMachine ==
  ASSUME NEW r, NEW m \in Machine, NEW n \in Machine, MachineInv(m, r),
         NEW e \in RunEvents(m.state, r),
         m.pc = "run", n.pc = "loop", n.events = Append(m.events, e),
         n.state = m.state, n.published = m.published,
         n.imported = (m.imported \/ e.type = "IndexingComplete")
  PROVE  MachineInv(n, r)
<1> USE DEF MachineInv
<1>1. m.events = <<>> /\ m.published # <<>> /\ m.state \in States
  BY DEF MachineQueue, MachineWords, Machine
<1>2. /\ e \in Events
      /\ e.type = "IndexingComplete" =>
           m.state.type = "IndexingInProgress" /\ e = Event("IndexingComplete", "none")
  BY <1>1, RunEventsType
<1>3. n.events = <<e>>
  BY <1>1, <1>2
<1>4. MachineQueue(n, r) /\ MachinePath(n, r) /\ MachineWords(n) /\ MachineAdvance(n)
  BY <1>1, <1>3 DEF MachineQueue, MachinePath, MachineWords, MachineAdvance
<1>5. m.imported => m.state.type \in AfterImport
  BY DEF MachineImport
<1>6. n.imported => \/ n.state.type \in AfterImport
                    \/ /\ n.state.type = "IndexingInProgress"
                       /\ n.events = <<Event("IndexingComplete", "none")>>
  BY <1>2, <1>3, <1>5, Zenon
<1>7. n.state.type \in AfterImport => n.imported
  BY Zenon DEF MachineImport
<1>8. n.events = <<Event("IndexingComplete", "none")>> => e.type = "IndexingComplete"
  BY <1>3 DEF Event
<1>9. MachineImport(n)
  BY <1>6, <1>7, <1>8, Zenon DEF MachineImport
<1>. QED
  BY <1>4, <1>9

(* The steps in which nothing is pushed and no state changes: run pushed   *)
(* nothing, the loop ended, or an unwrap failed, in exec or in run.        *)
LEMMA StopMachine ==
  ASSUME NEW r, NEW m \in Machine, NEW n \in Machine, MachineInv(m, r),
         n.events = m.events, n.state = m.state, n.published = m.published,
         \/ /\ m.pc = "run" /\ n.pc = "loop" /\ n.imported = m.imported
            /\ RunEvents(m.state, r) = {}
         \/ /\ m.pc = "loop" /\ n.pc = "closed" /\ n.imported = m.imported
            /\ m.events = <<>>
         \/ m.pc = "publish" /\ n.pc = "panicked" /\ n.imported = m.imported
         \/ /\ m.pc = "run" /\ n.pc = "panicked" /\ MayPanic(m.state, r)
            /\ m.imported => n.imported
  PROVE  MachineInv(n, r)
<1> USE DEF MachineInv
<1>1. CASE /\ m.pc = "run" /\ n.pc = "loop" /\ n.imported = m.imported
           /\ RunEvents(m.state, r) = {}
  <2>1. m.published # <<>> /\ m.events = <<>> /\ m.state.type \in Terminal
    BY <1>1, SilentStates DEF MachineQueue, MachineWords, Machine
  <2>. QED
    BY <1>1, <2>1 DEF MachineQueue, MachinePath, MachineImport, MachineWords, MachineAdvance
<1>2. CASE /\ m.pc = "loop" /\ n.pc = "closed" /\ n.imported = m.imported
           /\ m.events = <<>>
  BY <1>2 DEF MachineQueue, MachinePath, MachineImport, MachineWords, MachineAdvance
<1>3. CASE m.pc = "publish" /\ n.pc = "panicked" /\ n.imported = m.imported
  BY <1>3 DEF MachineQueue, MachinePath, MachineImport, MachineWords, MachineAdvance
<1>4. CASE /\ m.pc = "run" /\ n.pc = "panicked" /\ MayPanic(m.state, r)
           /\ m.imported => n.imported
  <2>1. m.state.type \notin Terminal /\ m.published # <<>>
    BY <1>4 DEF MayPanic, Terminal, MachineWords
  <2>2. MachineImport(n)
    BY <1>4, Zenon DEF MachineImport
  <2>. QED
    BY <1>4, <2>1, <2>2 DEF MachineQueue, MachinePath, MachineWords, MachineAdvance
<1>. QED
  BY <1>1, <1>2, <1>3, <1>4

(* A panic: whether an import was done in the stage that panicked is open. *)
LEMMA PanicCases ==
  ASSUME TypeOK, NEW i \in Ids, Panic(i)
  PROVE  /\ fsm'[i].pc = "panicked" /\ fsm'[i].events = fsm[i].events
         /\ fsm'[i].state = fsm[i].state /\ fsm'[i].published = fsm[i].published
         /\ fsm[i].imported => fsm'[i].imported
         /\ \/ fsm[i].pc = "publish" /\ fsm'[i].imported = fsm[i].imported
            \/ /\ fsm[i].pc = "run" /\ MayPanic(fsm[i].state, requests[i])
               /\ fsm[i].state.type # "IndexingInProgress" =>
                    fsm'[i].imported = fsm[i].imported
<1>1. fsm \in [Ids -> Machine] /\ fsm[i] \in Machine
  BY DEF TypeOK
<1>2. CASE fsm[i].pc = "publish" /\ fsm' = [fsm EXCEPT ![i].pc = "panicked"]
  BY <1>1, <1>2 DEF Machine
<1>3. CASE /\ fsm[i].pc = "run" /\ MayPanic(fsm[i].state, requests[i])
           /\ \E done \in {FALSE, fsm[i].state.type = "IndexingInProgress"} :
                fsm' = [fsm EXCEPT ![i].pc = "panicked", ![i].imported = @ \/ done]
  <2>1. PICK done \in {FALSE, fsm[i].state.type = "IndexingInProgress"} :
          fsm' = [fsm EXCEPT ![i].pc = "panicked", ![i].imported = @ \/ done]
    BY <1>3
  <2>2. /\ fsm'[i].pc = "panicked" /\ fsm'[i].events = fsm[i].events
        /\ fsm'[i].state = fsm[i].state /\ fsm'[i].published = fsm[i].published
        /\ fsm'[i].imported = (fsm[i].imported \/ done)
    BY <1>1, <2>1 DEF Machine
  <2>3. fsm[i].imported \in BOOLEAN /\ fsm'[i].imported \in BOOLEAN
    BY <1>1, <2>2 DEF Machine
  <2>4. fsm[i].state.type # "IndexingInProgress" => ~done
    BY <2>1, Zenon
  <2>5. fsm[i].imported => fsm'[i].imported
    BY <2>2, Zenon
  <2>6. fsm[i].state.type # "IndexingInProgress" => fsm'[i].imported = fsm[i].imported
    BY <2>2, <2>3, <2>4
  <2>. QED
    BY <1>3, <2>2, <2>5, <2>6, Zenon
<1>. QED
  BY <1>2, <1>3 DEF Panic

(* What the steps of a machine do keeps its invariant. *)
LEMMA ExecMachine ==
  ASSUME TypeOK, NEW i \in Ids, ExecStep(i), MachineInv(fsm[i], requests[i])
  PROVE  MachineInv(fsm'[i], requests'[i])
<1>1. /\ fsm \in [Ids -> Machine] /\ fsm[i] \in Machine /\ fsm'[i] \in Machine
      /\ requests' = requests
  BY ExecTypes DEF TypeOK, restVars
<1> DEFINE m == fsm[i]
           n == fsm'[i]
           r == requests[i]
<1>2. CASE Transition(i)
  <2>1. /\ m.pc = "loop" /\ m.events # <<>>
        /\ n.pc = "publish" /\ n.events = Tail(m.events)
        /\ n.state = NextState(m.state, Head(m.events))
        /\ n.published = m.published /\ n.imported = m.imported
    BY <1>1, <1>2 DEF Transition, Machine
  <2>. QED
    BY <1>1, <2>1, TransitionMachine
<1>3. CASE Publish(i)
  <2>1. /\ m.pc = "publish" /\ n.pc = "run" /\ n.events = m.events /\ n.state = m.state
        /\ n.published = Append(m.published, m.state.type) /\ n.imported = m.imported
    BY <1>1, <1>3 DEF Publish, Machine
  <2>. QED
    BY <1>1, <2>1, PublishMachine
<1>4. CASE Run(i)
  <2>1. PICK e \in RunEvents(m.state, r) :
          fsm' = [fsm EXCEPT ![i].pc = "loop", ![i].events = Append(@, e),
                             ![i].imported = @ \/ e.type = "IndexingComplete"]
    BY <1>4 DEF Run
  <2>2. /\ m.pc = "run" /\ n.pc = "loop" /\ n.events = Append(m.events, e)
        /\ n.state = m.state /\ n.published = m.published
    BY <1>1, <1>4, <2>1 DEF Run, Machine
  <2>3. n.imported = (m.imported \/ e.type = "IndexingComplete")
    BY <1>1, <2>1 DEF Machine
  <2>. QED
    BY <1>1, <2>2, <2>3, RunMachine
<1>5. CASE RunNothing(i)
  <2>1. /\ m.pc = "run" /\ n.pc = "loop" /\ n.imported = m.imported
        /\ RunEvents(m.state, r) = {}
        /\ n.events = m.events /\ n.state = m.state /\ n.published = m.published
    BY <1>1, <1>5 DEF RunNothing, Machine
  <2>. QED
    BY <1>1, <2>1, StopMachine
<1>6. CASE Panic(i)
  <2>1. /\ n.pc = "panicked" /\ n.events = m.events /\ n.state = m.state
        /\ n.published = m.published
        /\ \/ m.pc = "publish" /\ n.imported = m.imported
           \/ /\ m.pc = "run" /\ MayPanic(m.state, r)
              /\ m.imported => n.imported
    BY <1>6, PanicCases
  <2>. QED
    BY <1>1, <2>1, StopMachine
<1>7. CASE Close(i)
  <2>1. /\ m.pc = "loop" /\ n.pc = "closed" /\ n.imported = m.imported
        /\ m.events = <<>>
        /\ n.events = m.events /\ n.state = m.state /\ n.published = m.published
    BY <1>1, <1>7 DEF Close, Machine
  <2>. QED
    BY <1>1, <2>1, StopMachine
<1>. QED
  BY <1>2, <1>3, <1>4, <1>5, <1>6, <1>7 DEF ExecStep

(* The operators of module FSM are those the service uses.                 *)
LEMMA SameOperators ==
  ASSUME NEW i, NEW s, NEW e, NEW r
  PROVE  /\ Build(i)!NextState(s, e) = NextState(s, e)
         /\ Build(i)!RunEvents(s, r) = RunEvents(s, r)
         /\ Build(i)!MayPanic(s, r) <=> MayPanic(s, r)
         /\ Build(i)!Import(s, r) = Import(s, r)
<1>1. Build(i)!NextState(s, e) = NextState(s, e)
  BY DEF Build!NextState, NextState, Build!NextType, NextType, Build!CarriesPath, CarriesPath,
     Build!Resettable, Resettable, Build!ResetsTo, ResetsTo, Build!ErrorTypes, ErrorTypes
<1>2. Build(i)!CanIndex(r) <=> CanIndex(r)
  BY DEF Build!CanIndex, CanIndex, Build!OsmFlags, OsmFlags
<1>3. /\ Build(i)!DownloadEvents(r) = DownloadEvents(r)
      /\ Build(i)!ProcessEvents(r) = ProcessEvents(r)
      /\ Build(i)!ErrorEvents = ErrorEvents
      /\ Build(i)!AfterDownload(r) = AfterDownload(r)
      /\ Build(i)!ErrorTypes = ErrorTypes
  BY DEF Build!DownloadEvents, DownloadEvents, Build!ProcessEvents, ProcessEvents,
     Build!ErrorEvents, ErrorEvents, Build!Event, Event, Build!Downloaders, Downloaders,
     Build!AfterDownload, AfterDownload, Build!Processors, Processors, Build!ErrorTypes, ErrorTypes
<1>4. Build(i)!IndexEvents(r) = IndexEvents(r)
  BY <1>2 DEF Build!IndexEvents, IndexEvents, Build!Event, Event
<1>5. Build(i)!RunEvents(s, r) = RunEvents(s, r)
  BY <1>3, <1>4 DEF Build!RunEvents, RunEvents, Build!Event, Event
<1>6. Build(i)!MayPanic(s, r) <=> MayPanic(s, r)
  BY <1>2 DEF Build!MayPanic, MayPanic, Build!Downloaders, Downloaders, Build!Processors, Processors
<1>7. Build(i)!Import(s, r) = Import(s, r)
  BY DEF Build!Import, Import, Build!OsmFlags, OsmFlags
<1>. QED
  BY <1>1, <1>5, <1>6, <1>7

(* The step of a machine is the step of the same name in module FSM; the   *)
(* import it completes is made of the file its state carries.              *)
LEMMA ExecIsBuilds ==
  ASSUME TypeOK, NEW i \in Ids, ExecStep(i), MachineInv(fsm[i], requests[i])
  PROVE  Build(i)!Next
<1>1. /\ fsm \in [Ids -> Machine] /\ fsm[i] \in Machine /\ requests' = requests
  BY ExecTypes DEF TypeOK, restVars
<1>2. CASE Transition(i)
  <2>1. /\ fsm'[i].pc = "publish" /\ fsm'[i].events = Tail(fsm[i].events)
        /\ fsm'[i].state = NextState(fsm[i].state, Head(fsm[i].events))
        /\ fsm'[i].published = fsm[i].published /\ fsm'[i].imported = fsm[i].imported
    BY <1>1, <1>2 DEF Transition, Machine
  <2>2. Build(i)!NextState(fsm[i].state, Head(fsm[i].events)) = fsm'[i].state
    BY <2>1, SameOperators
  <2>3. Build(i)!Transition
    BY <1>1, <1>2, <2>1, <2>2 DEF Transition, Build!Transition
  <2>. QED
    BY <2>3 DEF Build!Next
<1>3. CASE Publish(i)
  <2>1. /\ fsm'[i].pc = "run" /\ fsm'[i].events = fsm[i].events
        /\ fsm'[i].state = fsm[i].state
        /\ fsm'[i].published = Append(fsm[i].published, fsm[i].state.type)
        /\ fsm'[i].imported = fsm[i].imported
    BY <1>1, <1>3 DEF Publish, Machine
  <2>2. Build(i)!Publish
    BY <1>1, <1>3, <2>1 DEF Publish, Build!Publish
  <2>. QED
    BY <2>2 DEF Build!Next
<1>4. CASE Run(i)
  <2>1. PICK e \in RunEvents(fsm[i].state, requests[i]) :
          fsm' = [fsm EXCEPT ![i].pc = "loop", ![i].events = Append(@, e),
                             ![i].imported = @ \/ e.type = "IndexingComplete"]
    BY <1>4 DEF Run
  <2>2. /\ fsm'[i].pc = "loop" /\ fsm'[i].events = Append(fsm[i].events, e)
        /\ fsm'[i].state = fsm[i].state /\ fsm'[i].published = fsm[i].published
    BY <1>1, <2>1 DEF Machine
  <2>3. fsm'[i].imported = (fsm[i].imported \/ e.type = "IndexingComplete")
    BY <1>1, <2>1 DEF Machine
  <2>4. fsm[i].state \in States
    BY <1>1 DEF Machine
  <2>5. e.type = "IndexingComplete" =>
          fsm[i].state = [type |-> "IndexingInProgress",
                          file |-> IF requests[i].data_source \in Processors
                                   THEN "cooked" ELSE "raw"]
    BY <2>4, RunEventsType DEF MachineInv, MachinePath, Processors, States
  <2> DEFINE import == Import([type |-> "IndexingInProgress",
                               file |-> IF requests[i].data_source \in Processors
                                        THEN "cooked" ELSE "raw"], requests[i])
  <2>6. (IF fsm'[i].imported THEN {import} ELSE {}) =
          IF e.type = "IndexingComplete"
          THEN (IF fsm[i].imported THEN {import} ELSE {})
                 \cup {Import(fsm[i].state, requests[i])}
          ELSE IF fsm[i].imported THEN {import} ELSE {}
    <3>1. CASE e.type = "IndexingComplete"
      <4>1. fsm'[i].imported
        BY <2>3, <3>1, Zenon
      <4>2. Import(fsm[i].state, requests[i]) = import
        BY <2>5, <3>1
      <4>. HIDE DEF import
      <4>. QED
        BY <3>1, <4>1, <4>2
    <3>2. CASE e.type # "IndexingComplete"
      <4>1. fsm[i].imported \in BOOLEAN
        BY <1>1 DEF Machine
      <4>2. fsm'[i].imported = fsm[i].imported
        BY <2>3, <3>2, <4>1
      <4>. HIDE DEF import
      <4>. QED
        BY <3>2, <4>2
    <3>. QED
      BY <3>1, <3>2
  <2>7. Build(i)!RunEvents(fsm[i].state, requests[i]) = RunEvents(fsm[i].state, requests[i])
    BY SameOperators
  <2>8. Build(i)!Import(fsm[i].state, requests[i]) = Import(fsm[i].state, requests[i])
    BY SameOperators
  <2>9. Build(i)!Run
    BY <1>1, <1>4, <2>2, <2>6, <2>7, <2>8 DEF Run, Build!Run
  <2>. QED
    BY <2>9 DEF Build!Next
<1>5. CASE RunNothing(i)
  <2>1. /\ fsm'[i].pc = "loop" /\ fsm'[i].imported = fsm[i].imported
        /\ fsm'[i].events = fsm[i].events /\ fsm'[i].state = fsm[i].state
        /\ fsm'[i].published = fsm[i].published
    BY <1>1, <1>5 DEF RunNothing, Machine
  <2>2. Build(i)!RunEvents(fsm[i].state, requests[i]) = {}
    BY <1>5, SameOperators DEF RunNothing
  <2>3. Build(i)!RunNothing
    BY <1>1, <1>5, <2>1, <2>2 DEF RunNothing, Build!RunNothing
  <2>. QED
    BY <2>3 DEF Build!Next
<1>6. CASE Panic(i)
  <2>1. /\ fsm'[i].pc = "panicked" /\ fsm'[i].events = fsm[i].events
        /\ fsm'[i].state = fsm[i].state /\ fsm'[i].published = fsm[i].published
    BY <1>6, PanicCases
  <2>2. CASE fsm[i].pc = "publish" /\ fsm'[i].imported = fsm[i].imported
    <3>1. Build(i)!PublishPanics
      BY <1>1, <2>1, <2>2 DEF Build!PublishPanics
    <3>. QED
      BY <3>1 DEF Build!Next
  <2>3. CASE /\ fsm[i].pc = "run" /\ MayPanic(fsm[i].state, requests[i])
             /\ fsm[i].state.type # "IndexingInProgress"
             /\ fsm'[i].imported = fsm[i].imported
    <3>1. Build(i)!MayPanic(fsm[i].state, requests[i])
      BY <2>3, SameOperators
    <3>2. Build(i)!RunPanics
      BY <1>1, <2>1, <2>3, <3>1 DEF Build!RunPanics
    <3>. QED
      BY <3>2 DEF Build!Next
  <2>4. CASE /\ fsm[i].pc = "run" /\ MayPanic(fsm[i].state, requests[i])
             /\ fsm[i].state.type = "IndexingInProgress"
    <3>1. Build(i)!MayPanic(fsm[i].state, requests[i])
      BY <2>4, SameOperators
    <3>2. fsm[i].state = [type |-> "IndexingInProgress",
                          file |-> IF requests[i].data_source \in Processors
                                   THEN "cooked" ELSE "raw"]
      BY <1>1, <2>4 DEF MachineInv, MachinePath, Processors, States, Machine
    <3> DEFINE import == Import([type |-> "IndexingInProgress",
                                 file |-> IF requests[i].data_source \in Processors
                                          THEN "cooked" ELSE "raw"], requests[i])
    <3>3. Build(i)!Import(fsm[i].state, requests[i]) = import
      BY <3>2, SameOperators
    <3>4. /\ fsm[i].imported => fsm'[i].imported
      BY <1>6, PanicCases
    <3>5. (IF fsm'[i].imported THEN {import} ELSE {}) \in
             {IF fsm[i].imported THEN {import} ELSE {}} \cup
             {(IF fsm[i].imported THEN {import} ELSE {}) \cup {import}}
      <4>. HIDE DEF import
      <4>. QED
        BY <3>4
    <3>6. Build(i)!RunPanics
      BY <1>1, <2>1, <2>4, <3>1, <3>3, <3>5 DEF Build!RunPanics
    <3>. QED
      BY <3>6 DEF Build!Next
  <2>. QED
    BY <1>6, <2>2, <2>3, <2>4, PanicCases
<1>7. CASE Close(i)
  <2>1. /\ fsm'[i].pc = "closed" /\ fsm'[i].imported = fsm[i].imported
        /\ fsm'[i].events = fsm[i].events /\ fsm'[i].state = fsm[i].state
        /\ fsm'[i].published = fsm[i].published
    BY <1>1, <1>7 DEF Close, Machine
  <2>2. Build(i)!Close
    BY <1>1, <1>7, <2>1 DEF Close, Build!Close
  <2>. QED
    BY <2>2 DEF Build!Next
<1>. QED
  BY <1>2, <1>3, <1>4, <1>5, <1>6, <1>7 DEF ExecStep

(* Steps other than a machine's leave the machines and requests alone.     *)
LEMMA OtherSteps ==
  ASSUME TypeOK, Next, \A i \in Ids : ~ExecStep(i)
  PROVE  fsm' = fsm /\ requests' = requests
  BY DEF Next, CreateDb, StartFsm, RejectCreate, ListenerStep, Subscribe, Update, ListenerFails,
         Join, ReleaseEndpoint, Crash

(* The invariant of all machines. *)
MachinesInv == \A i \in Ids : MachineInv(fsm[i], requests[i])

(* A step of the service is at most one machine's; that one takes a step   *)
(* of FSM and keeps its invariant.                                         *)
LEMMA StepMachines ==
  TypeOK /\ MachinesInv /\ [Next]_vars =>
    MachinesInv' /\ \A i \in Ids : [Build(i)!Next]_(Build(i)!vars)
<1> SUFFICES ASSUME TypeOK, MachinesInv, [Next]_vars
             PROVE  MachinesInv' /\ \A i \in Ids : [Build(i)!Next]_(Build(i)!vars)
  OBVIOUS
<1>1. ASSUME NEW i \in Ids, fsm'[i] = fsm[i], requests' = requests
      PROVE  MachineInv(fsm'[i], requests'[i]) /\ UNCHANGED Build(i)!vars
  BY <1>1 DEF MachinesInv, Build!vars
<1>2. ASSUME NEW i \in Ids, ExecStep(i)
      PROVE  MachinesInv' /\ \A j \in Ids : [Build(j)!Next]_(Build(j)!vars)
  <2>1. /\ requests' = requests
        /\ \A j \in Ids \ {i} : fsm'[j] = fsm[j]
    BY <1>2, ExecTypes DEF restVars
  <2>2. MachineInv(fsm'[i], requests'[i]) /\ Build(i)!Next
    BY <1>2, ExecMachine, ExecIsBuilds DEF MachinesInv
  <2>3. \A j \in Ids \ {i} :
           MachineInv(fsm'[j], requests'[j]) /\ UNCHANGED Build(j)!vars
    BY <1>1, <2>1
  <2>. QED
    BY <2>2, <2>3 DEF MachinesInv
<1>3. CASE Next /\ \A i \in Ids : ~ExecStep(i)
  <2>1. fsm' = fsm /\ requests' = requests
    BY <1>3, OtherSteps
  <2>. QED
    BY <1>1, <2>1 DEF MachinesInv
<1>4. CASE UNCHANGED vars
  <2>1. fsm' = fsm /\ requests' = requests
    BY <1>4 DEF vars
  <2>. QED
    BY <1>1, <2>1 DEF MachinesInv
<1>. QED
  BY <1>2, <1>3, <1>4

(* Every machine starts as FSM::new makes it. *)
LEMMA InitMachines == Init => MachinesInv /\ \A i \in Ids : Build(i)!Init
<1> SUFFICES ASSUME Init PROVE MachinesInv /\ \A i \in Ids : Build(i)!Init
  OBVIOUS
<1>1. \A i \in Ids : fsm[i] = NewMachine /\ requests[i] \in Requests
  BY DEF Init
<1>2. MachinesInv
  BY <1>1, NewMachineInv DEF MachinesInv
<1>3. ASSUME NEW i \in Ids PROVE Build(i)!Init
  <2>1. /\ fsm[i].pc = "loop" /\ fsm[i].published = <<>> /\ ~fsm[i].imported
        /\ fsm[i].state = InitialState /\ fsm[i].events = <<Event("Download", "none")>>
    BY <1>1 DEF NewMachine
  <2>. QED
    BY <1>1, <2>1 DEF Build!Init, Build!InitialState, InitialState, Build!Event, Event
<1>. QED
  BY <1>2, <1>3

(* Whatever requests, listeners and crashes do around it, each build takes *)
(* the steps of one exec loop and no others (src/src/fsm/mod.rs): what     *)
(* FSMProofs shows of one machine in isolation is true of the builds of    *)
(* the service.                                                            *)
THEOREM BuildsAreFSMs == Spec => EachBuildIsAnFSM
<1>1. Init => TypeOK /\ OneBuildAtATime /\ MachinesInv /\ \A i \in Ids : Build(i)!Init
  BY InitOneBuild, InitMachines
<1>2. TypeOK /\ OneBuildAtATime /\ MachinesInv /\ [Next]_vars =>
        /\ (TypeOK /\ OneBuildAtATime /\ MachinesInv)'
        /\ [\A i \in Ids : [Build(i)!Next]_(Build(i)!vars)]_vars
  BY StepOneBuild, StepMachines
<1>. QED
  BY <1>1, <1>2, PTL DEF Spec, EachBuildIsAnFSM

-----------------------------------------------------------------------------
(***************************************************************************)
(* One reader of the endpoint, a listener or a stream.  Its trail is the   *)
(* last message it took (one from Nobody, if it took none), followed by    *)
(* the messages queued for it.  What can be said of a trail depends on the *)
(* builds only through four things, the view v: what every build has       *)
(* published, which builds do not run, which have panicked, and who holds  *)
(* the endpoint.                                                           *)
(***************************************************************************)
Views ==
  [said : [Ids -> Seq(StateTypes)], still : SUBSET Ids, panicked : SUBSET Ids,
   publisher : Ids \cup {Nobody}]

View ==
  [said |-> [j \in Ids |-> fsm[j].published],
   still |-> {j \in Ids : ~Live(j)}, panicked |-> {j \in Ids : Panicked(j)},
   publisher |-> publisher]

MessageOrNone == [id : Ids \cup {Nobody}, status : StateTypes]

(* The messages of a trail, from the last one taken, at 0. *)
TrailAt(last, queue, k) == IF k = 0 THEN last ELSE queue[k]

(* A message of a build is one of the words it published. *)
Said(m, v) == \E k \in 1 .. Len(v.said[m.id]) : v.said[m.id][k] = m.status

(* Nothing will follow m from its build, which has ended with this word or panicked. *)
Ended(m, v) == m.id \in v.still /\ (m.id \in v.panicked \/ m.status \in Terminal)

(* n comes next after m: it is the next word of the same build, or the     *)
(* first to be heard of another one after the build of m has ended.        *)
FollowedBy(m, n, v) ==
  IF n.id = m.id
  THEN \E k \in 1 .. Len(v.said[m.id]) - 1 :
         v.said[m.id][k] = m.status /\ v.said[m.id][k + 1] = n.status
  ELSE Ended(m, v)

(* Nothing was published after m that a reader would have missed. *)
UpToDate(m, attached, v) ==
  \/ /\ attached /\ m.id = v.publisher
     /\ m.status = v.said[m.id][Len(v.said[m.id])]
  \/ Ended(m, v)

(* What holds of a reader: each message was said, follows the one before   *)
(* it, and the last leaves nothing out.                                    *)
Trail(last, queue, attached, v) ==
  /\ \A k \in 0 .. Len(queue) :
       TrailAt(last, queue, k).id # Nobody => Said(TrailAt(last, queue, k), v)
  /\ \A k \in 1 .. Len(queue) :
       TrailAt(last, queue, k - 1).id # Nobody =>
         FollowedBy(TrailAt(last, queue, k - 1), queue[k], v)
  /\ TrailAt(last, queue, Len(queue)).id # Nobody =>
       UpToDate(TrailAt(last, queue, Len(queue)), attached, v)

(* Builds only add to what they said; one that spoke and ended stays so.   *)
Grows(v, w) ==
  \A j \in Ids :
    /\ Len(v.said[j]) <= Len(w.said[j])
    /\ \A k \in 1 .. Len(v.said[j]) : w.said[j][k] = v.said[j][k]
    /\ v.said[j] # <<>> /\ j \in v.still => j \in w.still
    /\ j \in v.panicked => j \in w.panicked

(* A trail consists of messages. *)
LEMMA TrailAtType ==
  ASSUME NEW last \in MessageOrNone, NEW queue \in Seq(Message), NEW k \in 0 .. Len(queue)
  PROVE  TrailAt(last, queue, k) \in MessageOrNone
<1>1. CASE k = 0
  BY <1>1 DEF TrailAt
<1>2. CASE k # 0
  <2>1. k \in 1 .. Len(queue)
    BY <1>2
  <2>2. queue[k] \in Message
    BY <2>1
  <2>. QED
    BY <1>2, <2>2 DEF TrailAt, Message, MessageOrNone
<1>. QED
  BY <1>1, <1>2

(* What was said stays said, and what followed still follows. *)
LEMMA GrowsWords ==
  ASSUME NEW v \in Views, NEW w \in Views, Grows(v, w),
         NEW m \in MessageOrNone, m.id # Nobody, Said(m, v)
  PROVE  /\ Said(m, w)
         /\ Ended(m, v) => Ended(m, w)
         /\ \A n \in Message : FollowedBy(m, n, v) => FollowedBy(m, n, w)
<1>1. m.id \in Ids
  BY DEF MessageOrNone
<1>2. v.said[m.id] \in Seq(StateTypes) /\ w.said[m.id] \in Seq(StateTypes)
  BY <1>1 DEF Views
<1>3. /\ Len(v.said[m.id]) \in Nat /\ Len(w.said[m.id]) \in Nat
      /\ Len(v.said[m.id]) <= Len(w.said[m.id])
      /\ \A k \in 1 .. Len(v.said[m.id]) : w.said[m.id][k] = v.said[m.id][k]
  BY <1>1, <1>2 DEF Grows
<1>4. Said(m, w)
  BY <1>3 DEF Said
<1>5. v.said[m.id] # <<>>
  BY <1>2 DEF Said
<1>6. Ended(m, v) => Ended(m, w)
  BY <1>1, <1>5 DEF Ended, Grows
<1>7. ASSUME NEW n \in Message, FollowedBy(m, n, v) PROVE FollowedBy(m, n, w)
  <2>1. CASE n.id # m.id
    BY <1>6, <1>7, <2>1 DEF FollowedBy
  <2>2. CASE n.id = m.id
    <3>1. PICK k \in 1 .. Len(v.said[m.id]) - 1 :
            v.said[m.id][k] = m.status /\ v.said[m.id][k + 1] = n.status
      BY <1>7, <2>2 DEF FollowedBy
    <3>2. /\ k \in 1 .. Len(v.said[m.id]) /\ k + 1 \in 1 .. Len(v.said[m.id])
          /\ k \in 1 .. Len(w.said[m.id]) - 1
      BY <1>3
    <3>3. w.said[m.id][k] = m.status /\ w.said[m.id][k + 1] = n.status
      BY <1>3, <3>1, <3>2
    <3>. QED
      BY <2>2, <3>2, <3>3 DEF FollowedBy
  <2>. QED
    BY <2>1, <2>2
<1>. QED
  BY <1>4, <1>6, <1>7

(* A trail stays a trail if its last message stays up to date. *)
LEMMA TrailKept ==
  ASSUME NEW v \in Views, NEW w \in Views, Grows(v, w),
         NEW last \in MessageOrNone, NEW queue \in Seq(Message),
         NEW attached, NEW attached2, Trail(last, queue, attached, v),
         LET m == TrailAt(last, queue, Len(queue))
         IN  m.id # Nobody /\ Said(m, v) /\ UpToDate(m, attached, v) =>
               UpToDate(m, attached2, w)
  PROVE  Trail(last, queue, attached2, w)
<1>1. Len(queue) \in Nat
  OBVIOUS
<1>2. ASSUME NEW k \in 0 .. Len(queue), TrailAt(last, queue, k).id # Nobody
      PROVE  Said(TrailAt(last, queue, k), v) /\ Said(TrailAt(last, queue, k), w)
  BY <1>2, TrailAtType, GrowsWords DEF Trail
<1>3. ASSUME NEW k \in 1 .. Len(queue), TrailAt(last, queue, k - 1).id # Nobody
      PROVE  FollowedBy(TrailAt(last, queue, k - 1), queue[k], w)
  <2>1. k - 1 \in 0 .. Len(queue) /\ queue[k] \in Message
    BY <1>1
  <2>2. TrailAt(last, queue, k - 1) \in MessageOrNone
    BY <2>1, TrailAtType
  <2>3. FollowedBy(TrailAt(last, queue, k - 1), queue[k], v)
    BY <1>3 DEF Trail
  <2>. QED
    BY <1>2, <1>3, <2>1, <2>2, <2>3, GrowsWords
<1>4. Len(queue) \in 0 .. Len(queue)
  BY <1>1
<1>. QED
  BY <1>2, <1>3, <1>4 DEF Trail

(* A reader that has taken nothing and is owed nothing. *)
LEMMA FreshTrail ==
  ASSUME NEW last, last.id = Nobody, NEW attached, NEW v
  PROVE  Trail(last, <<>>, attached, v)
  BY DEF Trail, TrailAt

(* While nobody publishes, a trail stays as it is, even if the reader      *)
(* becomes connected.                                                      *)
LEMMA QuietTrail ==
  ASSUME NEW v \in Views, NEW w \in Views, Grows(v, w),
         w.said = v.said, w.publisher = v.publisher,
         NEW last \in MessageOrNone, NEW queue \in Seq(Message),
         NEW me, NEW peers, NEW peers2, me \in peers => me \in peers2,
         Trail(last, queue, me \in peers, v)
  PROVE  Trail(last, queue, me \in peers2, w)
<1> DEFINE m == TrailAt(last, queue, Len(queue))
<1>1. m \in MessageOrNone
  BY TrailAtType
<1> HIDE DEF m
<1>2. m.id # Nobody /\ Said(m, v) /\ UpToDate(m, me \in peers, v) => UpToDate(m, me \in peers2, w)
  <2> SUFFICES ASSUME m.id # Nobody, Said(m, v), UpToDate(m, me \in peers, v)
               PROVE  UpToDate(m, me \in peers2, w)
    OBVIOUS
  <2>1. Ended(m, v) => Ended(m, w)
    BY <1>1, GrowsWords
  <2>. QED
    BY <2>1 DEF UpToDate
<1>. QED
  BY <1>2, TrailKept DEF m

(* What happens to builds does not concern a reader that is not connected. *)
LEMMA ApartTrail ==
  ASSUME NEW v \in Views, NEW w \in Views, Grows(v, w),
         NEW last \in MessageOrNone, NEW queue \in Seq(Message),
         NEW me, NEW peers, NEW peers2, me \notin peers,
         Trail(last, queue, me \in peers, v)
  PROVE  Trail(last, queue, me \in peers2, w)
<1> DEFINE m == TrailAt(last, queue, Len(queue))
<1>1. m \in MessageOrNone
  BY TrailAtType
<1> HIDE DEF m
<1>2. m.id # Nobody /\ Said(m, v) /\ UpToDate(m, me \in peers, v) => UpToDate(m, me \in peers2, w)
  <2> SUFFICES ASSUME m.id # Nobody, Said(m, v), UpToDate(m, me \in peers, v)
               PROVE  UpToDate(m, me \in peers2, w)
    OBVIOUS
  <2>1. Ended(m, v) => Ended(m, w)
    BY <1>1, GrowsWords
  <2>. QED
    BY <2>1 DEF UpToDate
<1>. QED
  BY <1>2, TrailKept DEF m

(* The holder of the endpoint goes: a connected reader has its last word,  *)
(* or it panicked.                                                         *)
LEMMA ReleaseTrail ==
  ASSUME NEW v \in Views, NEW w \in Views,
         w.said = v.said, w.still = v.still, w.panicked = v.panicked,
         v.publisher \in v.still,
         \/ v.publisher \in v.panicked
         \/ v.said[v.publisher][Len(v.said[v.publisher])] \in Terminal,
         NEW last \in MessageOrNone, NEW queue \in Seq(Message),
         NEW me, NEW peers, NEW peers2, Trail(last, queue, me \in peers, v)
  PROVE  Trail(last, queue, me \in peers2, w)
<1> DEFINE m == TrailAt(last, queue, Len(queue))
<1>1. Grows(v, w)
  <2>1. \A j \in Ids : Len(v.said[j]) \in Nat
    BY DEF Views
  <2>. QED
    BY <2>1 DEF Grows
<1> HIDE DEF m
<1>2. m.id # Nobody /\ Said(m, v) /\ UpToDate(m, me \in peers, v) => UpToDate(m, me \in peers2, w)
  BY DEF UpToDate, Ended
<1>. QED
  BY <1>1, <1>2, TrailKept DEF m

(* A word that a build adds leaves the others where they are. *)
LEMMA PublishGrows ==
  ASSUME NEW v \in Views, NEW w \in Views, NEW i \in Ids, NEW s \in StateTypes,
         w.said = [v.said EXCEPT ![i] = Append(@, s)],
         w.still = v.still, w.panicked = v.panicked
  PROVE  Grows(v, w)
<1>1. v.said \in [Ids -> Seq(StateTypes)]
  BY DEF Views
<1>2. \A j \in Ids : Len(v.said[j]) \in Nat
  BY <1>1
<1>3. /\ Len(w.said[i]) = Len(v.said[i]) + 1
      /\ \A k \in 1 .. Len(v.said[i]) : w.said[i][k] = v.said[i][k]
      /\ \A j \in Ids : j # i => w.said[j] = v.said[j]
  BY <1>1
<1>. QED
  BY <1>2, <1>3 DEF Grows

(* The holder of the endpoint speaks to a connected reader: its word comes *)
(* next after its last one, or after the end of another build.             *)
LEMMA PublishTrail ==
  ASSUME NEW v \in Views, NEW w \in Views, NEW i \in Ids, NEW s \in StateTypes,
         v.publisher = i, i \notin v.still,
         w.said = [v.said EXCEPT ![i] = Append(@, s)],
         w.still = v.still, w.panicked = v.panicked, w.publisher = v.publisher,
         NEW last \in MessageOrNone, NEW queue \in Seq(Message),
         NEW me, NEW peers, me \in peers, Trail(last, queue, me \in peers, v)
  PROVE  Trail(last, Append(queue, [id |-> i, status |-> s]), me \in peers, w)
<1> DEFINE n == [id |-> i, status |-> s]
           longer == Append(queue, n)
           c == Len(v.said[i])
<1>1. /\ v.said \in [Ids -> Seq(StateTypes)] /\ c \in Nat
      /\ v.still \subseteq Ids /\ v.panicked \subseteq Ids
  BY DEF Views
<1>2. /\ w.still = v.still /\ w.panicked = v.panicked /\ w.publisher = i
      /\ w.said = [v.said EXCEPT ![i] = Append(@, s)]
  OBVIOUS
<1>3. /\ Len(w.said[i]) = c + 1 /\ w.said[i][c + 1] = s
      /\ \A k \in 1 .. c : w.said[i][k] = v.said[i][k]
      /\ \A j \in Ids : j # i => w.said[j] = v.said[j]
  BY <1>1, <1>2
<1>4. Grows(v, w)
  BY PublishGrows
<1>5. n \in Message /\ n.id = i /\ n.status = s
  BY DEF Message
<1>6. /\ longer \in Seq(Message) /\ Len(longer) = Len(queue) + 1
      /\ longer[Len(queue) + 1] = n
      /\ \A k \in 1 .. Len(queue) : longer[k] = queue[k]
      /\ Len(queue) \in Nat
  BY <1>5
<1> HIDE DEF n, longer, c
<1>7. \A k \in 0 .. Len(queue) : TrailAt(last, longer, k) = TrailAt(last, queue, k)
  BY <1>6 DEF TrailAt
<1>8. TrailAt(last, longer, Len(queue) + 1) = n
  BY <1>6 DEF TrailAt
<1>9. Said(n, w)
  BY <1>1, <1>3, <1>5 DEF Said
<1>10. UpToDate(n, me \in peers, w)
  BY <1>2, <1>3, <1>5 DEF UpToDate
<1> DEFINE m == TrailAt(last, queue, Len(queue))
<1>11. m \in MessageOrNone
  BY TrailAtType
<1>12. m.id # Nobody => Said(m, v) /\ UpToDate(m, me \in peers, v)
  <2>1. Len(queue) \in 0 .. Len(queue)
    BY <1>6
  <2>. QED
    BY <2>1, Zenon DEF Trail
<1>13. m.id # Nobody => FollowedBy(m, n, w)
  <2> HIDE DEF m
  <2> SUFFICES ASSUME m.id # Nobody PROVE FollowedBy(m, n, w)
    OBVIOUS
  <2>1. CASE m.id # i
    <3>1. Ended(m, v)
      BY <1>12, <2>1 DEF UpToDate
    <3>2. Ended(m, w)
      BY <1>2, <3>1 DEF Ended
    <3>. QED
      BY <1>5, <2>1, <3>2 DEF FollowedBy
  <2>2. CASE m.id = i
    <3>1. PICK k \in 1 .. Len(v.said[i]) : v.said[i][k] = m.status
      BY <1>12, <2>2 DEF Said
    <3>2. c \in 1 .. Len(w.said[i]) - 1 /\ k \in 1 .. c
      BY <1>1, <1>3, <3>1 DEF c
    <3>3. m.status = v.said[i][c]
      BY <1>12, <2>2 DEF UpToDate, Ended, c
    <3>4. w.said[i][c] = m.status /\ w.said[i][c + 1] = n.status
      BY <1>3, <1>5, <3>2, <3>3
    <3>. QED
      BY <1>5, <2>2, <3>2, <3>4 DEF FollowedBy
  <2>. QED
    BY <2>1, <2>2
<1>14. ASSUME NEW k \in 0 .. Len(longer), TrailAt(last, longer, k).id # Nobody
       PROVE  Said(TrailAt(last, longer, k), w)
  <2>1. CASE k = Len(queue) + 1
    BY <1>8, <1>9, <2>1
  <2>2. CASE k \in 0 .. Len(queue)
    <3>1. Said(TrailAt(last, queue, k), v)
      BY <1>7, <1>14, <2>2 DEF Trail
    <3>. QED
      BY <1>4, <1>7, <1>14, <2>2, <3>1, TrailAtType, GrowsWords
  <2>. QED
    BY <1>6, <2>1, <2>2
<1>15. ASSUME NEW k \in 1 .. Len(longer), TrailAt(last, longer, k - 1).id # Nobody
       PROVE  FollowedBy(TrailAt(last, longer, k - 1), longer[k], w)
  <2>1. CASE k = Len(queue) + 1
    BY <1>6, <1>7, <1>13, <1>15, <2>1
  <2>2. CASE k \in 1 .. Len(queue)
    <3>1. k - 1 \in 0 .. Len(queue) /\ queue[k] \in Message /\ longer[k] = queue[k]
      BY <1>6, <2>2
    <3>2. TrailAt(last, longer, k - 1) = TrailAt(last, queue, k - 1)
      BY <1>7, <3>1
    <3>3. /\ FollowedBy(TrailAt(last, queue, k - 1), queue[k], v)
          /\ Said(TrailAt(last, queue, k - 1), v)
          /\ TrailAt(last, queue, k - 1) \in MessageOrNone
      BY <1>15, <2>2, <3>1, <3>2, TrailAtType DEF Trail
    <3>. QED
      BY <1>4, <1>15, <3>1, <3>2, <3>3, GrowsWords
  <2>. QED
    BY <1>6, <2>1, <2>2
<1>16. Trail(last, longer, me \in peers, w)
  BY <1>6, <1>8, <1>10, <1>14, <1>15 DEF Trail
<1>. QED
  BY <1>16 DEF longer, n

(* The reader takes the first message of its queue. *)
LEMMA TakeTrail ==
  ASSUME NEW last, NEW queue \in Seq(Message), queue # <<>>,
         NEW attached, NEW v, Trail(last, queue, attached, v)
  PROVE  /\ Trail(Head(queue), Tail(queue), attached, v)
         /\ last.id # Nobody => FollowedBy(last, Head(queue), v)
         /\ Said(Head(queue), v)
<1> DEFINE rest == Tail(queue)
<1>1. /\ Len(queue) \in Nat /\ Len(queue) >= 1 /\ Len(rest) = Len(queue) - 1
      /\ \A k \in 1 .. Len(rest) : rest[k] = queue[k + 1]
      /\ Head(queue) = queue[1] /\ Head(queue) \in Message
  OBVIOUS
<1> HIDE DEF rest
<1>2. \A k \in 0 .. Len(rest) : TrailAt(Head(queue), rest, k) = TrailAt(last, queue, k + 1)
  BY <1>1 DEF TrailAt
<1>3. ASSUME NEW k \in 0 .. Len(rest), TrailAt(Head(queue), rest, k).id # Nobody
      PROVE  Said(TrailAt(Head(queue), rest, k), v)
  <2>1. k + 1 \in 0 .. Len(queue)
    BY <1>1
  <2>. QED
    BY <1>2, <1>3, <2>1 DEF Trail
<1>4. ASSUME NEW k \in 1 .. Len(rest), TrailAt(Head(queue), rest, k - 1).id # Nobody
      PROVE  FollowedBy(TrailAt(Head(queue), rest, k - 1), rest[k], v)
  <2>1. /\ k + 1 \in 1 .. Len(queue) /\ k - 1 \in 0 .. Len(rest)
        /\ (k + 1) - 1 = k /\ (k - 1) + 1 = k
    BY <1>1
  <2>2. TrailAt(Head(queue), rest, k - 1) = TrailAt(last, queue, k)
    BY <1>2, <2>1
  <2>3. FollowedBy(TrailAt(last, queue, k), queue[k + 1], v)
    BY <1>4, <2>1, <2>2 DEF Trail
  <2>. QED
    BY <1>1, <2>2, <2>3
<1>5. TrailAt(Head(queue), rest, Len(rest)) = TrailAt(last, queue, Len(queue))
  <2>1. Len(rest) \in 0 .. Len(rest) /\ Len(rest) + 1 = Len(queue)
    BY <1>1
  <2>. QED
    BY <1>2, <2>1
<1>6. Trail(Head(queue), rest, attached, v)
  BY <1>3, <1>4, <1>5 DEF Trail
<1>7. last.id # Nobody => FollowedBy(last, Head(queue), v)
  <2>1. 1 \in 1 .. Len(queue) /\ 1 - 1 = 0
    BY <1>1
  <2>2. TrailAt(last, queue, 1 - 1) = last
    BY <2>1 DEF TrailAt
  <2>. QED
    BY <1>1, <2>1, <2>2 DEF Trail
<1>8. Said(Head(queue), v)
  <2>1. 1 \in 0 .. Len(queue) /\ TrailAt(last, queue, 1) = Head(queue)
    BY <1>1 DEF TrailAt
  <2>2. Head(queue).id # Nobody
    BY <1>1 DEF Message, Ids, Nobody
  <2>. QED
    BY <2>1, <2>2 DEF Trail
<1>. QED
  BY <1>6, <1>7, <1>8 DEF rest

-----------------------------------------------------------------------------
(***************************************************************************)
(* The view through the steps of the service.                              *)
(***************************************************************************)

(* Only a build that was started has a history, and only one that was      *)
(* started since the last crash holds the endpoint.                        *)
HistoryInv ==
  /\ \A i \in Ids : fsm[i].published # <<>> => phase[i] \in {"started", "lost"}
  /\ publisher # Nobody => phase[publisher] = "started"

(* The first two layers of the invariant. *)
BuildsInv == TypeOK /\ OneBuildAtATime /\ MachinesInv /\ HistoryInv

(* The view is of its type, before a step and after it. *)
LEMMA ViewType ==
  /\ TypeOK => View \in Views
  /\ TypeOK' => View' \in Views
<1>1. ASSUME TypeOK PROVE View \in Views
  <2>1. /\ [j \in Ids |-> fsm[j].published] \in [Ids -> Seq(StateTypes)]
        /\ publisher \in Ids \cup {Nobody}
    BY <1>1 DEF TypeOK, Machine
  <2>. QED
    BY <2>1 DEF View, Views
<1>2. ASSUME TypeOK' PROVE View' \in Views
  <2>1. /\ [j \in Ids |-> fsm'[j].published] \in [Ids -> Seq(StateTypes)]
        /\ publisher' \in Ids \cup {Nobody}
    BY <1>2 DEF TypeOK, Machine
  <2>. QED
    BY <2>1 DEF View, Views
<1>. QED
  BY <1>1, <1>2

(* Of a machine's steps, only Publish adds to what was said, and it adds   *)
(* the word of the build that holds the endpoint.                          *)
LEMMA ExecView ==
  ASSUME BuildsInv, NEW i \in Ids, ExecStep(i)
  PROVE  /\ View.publisher = i /\ i \notin View.still /\ View'.publisher = i
         /\ Publish(i) =>
              /\ View'.said = [View.said EXCEPT ![i] = Append(@, fsm[i].state.type)]
              /\ View'.still = View.still /\ View'.panicked = View.panicked
         /\ ~Publish(i) => View'.said = View.said /\ Grows(View, View') /\ inbox' = inbox
         /\ HistoryInv'
<1>1. /\ TypeOK /\ TypeOK' /\ Live(i) /\ UNCHANGED restVars
      /\ \A j \in Ids \ {i} : fsm'[j] = fsm[j]
      /\ fsm \in [Ids -> Machine] /\ fsm' \in [Ids -> Machine]
  BY ExecTypes DEF BuildsInv, TypeOK
<1>2. publisher = i /\ publisher' = i /\ phase' = phase
  BY <1>1 DEF BuildsInv, OneBuildAtATime, restVars
<1>3. View.publisher = i /\ i \notin View.still /\ View'.publisher = i
  BY <1>1, <1>2 DEF View
<1>4. ASSUME Publish(i)
      PROVE  /\ View'.said = [View.said EXCEPT ![i] = Append(@, fsm[i].state.type)]
             /\ View'.still = View.still /\ View'.panicked = View.panicked
  <2>1. /\ fsm'[i].pc = "run" /\ fsm[i].pc = "publish"
        /\ fsm'[i].published = Append(fsm[i].published, fsm[i].state.type)
    BY <1>1, <1>4 DEF Publish, Machine
  <2>2. \A j \in Ids : /\ Live(j)' <=> Live(j)
                       /\ Panicked(j)' <=> Panicked(j)
    BY <1>1, <1>2, <2>1 DEF Live, Panicked
  <2>3. [j \in Ids |-> fsm'[j].published] =
          [[j \in Ids |-> fsm[j].published] EXCEPT ![i] = Append(@, fsm[i].state.type)]
    BY <1>1, <2>1
  <2>. QED
    BY <2>2, <2>3 DEF View
<1>5. ASSUME ~Publish(i)
      PROVE  View'.said = View.said /\ Grows(View, View') /\ inbox' = inbox
  <2>1. fsm'[i].published = fsm[i].published /\ inbox' = inbox
    <3>1. CASE Transition(i) \/ RunNothing(i) \/ Close(i)
      BY <1>1, <3>1 DEF Transition, RunNothing, Close, Machine
    <3>2. CASE Run(i)
      BY <1>1, <3>2 DEF Run, Machine
    <3>3. CASE Panic(i)
      BY <1>1, <3>3, PanicCases DEF Panic
    <3>. QED
      BY <1>5, <3>1, <3>2, <3>3 DEF ExecStep
  <2>2. [j \in Ids |-> fsm'[j].published] = [j \in Ids |-> fsm[j].published]
    BY <1>1, <2>1
  <2>3. \A j \in Ids : Live(j)' => Live(j)
    BY <1>1, <1>2 DEF Live
  <2>4. \A j \in Ids : Panicked(j) => Panicked(j)'
    BY <1>1 DEF Live, Panicked
  <2>5. \A j \in Ids : View.said[j] = fsm[j].published /\ Len(View.said[j]) \in Nat
    BY <1>1 DEF View, Machine
  <2>6. View'.said = View.said
    BY <2>2 DEF View
  <2>7. \A j \in Ids : /\ j \in View.still => j \in View'.still
                       /\ j \in View.panicked => j \in View'.panicked
    BY <2>3, <2>4 DEF View
  <2>. QED
    BY <2>1, <2>5, <2>6, <2>7 DEF Grows
<1>6. HistoryInv'
  BY <1>1, <1>2 DEF BuildsInv, HistoryInv, Live
<1>. QED
  BY <1>3, <1>4, <1>5, <1>6

(* create_index goes forward only, and a crash stops it. *)
LEMMA PhaseSteps ==
  ASSUME TypeOK, Next, NEW j \in Ids
  PROVE  /\ phase[j] \in {"started", "lost"} => phase'[j] \in {"started", "lost"}
         /\ phase'[j] = "started" => phase[j] \in {"started", "inserted"}
<1> USE DEF TypeOK
<1>1. ASSUME NEW i \in Ids, CreateDb(i) \/ StartFsm(i) \/ RejectCreate(i)
      PROVE  /\ phase[j] \in {"started", "lost"} => phase'[j] \in {"started", "lost"}
             /\ phase'[j] = "started" => phase[j] \in {"started", "inserted"}
  BY <1>1 DEF CreateDb, StartFsm, RejectCreate
<1>2. ASSUME NEW i \in Ids, ExecStep(i) \/ ListenerStep(i) \/ Join(i)
      PROVE  phase' = phase
  BY <1>2, ExecTypes, ListenerTypes DEF restVars
<1>3. CASE ReleaseEndpoint \/ Crash
  BY <1>3 DEF ReleaseEndpoint, Crash
<1>. QED
  BY <1>1, <1>2, <1>3 DEF Next

(* Any other step leaves what was said as it is; a build that starts has   *)
(* said nothing yet.                                                       *)
LEMMA OtherView ==
  ASSUME BuildsInv, Next, fsm' = fsm
  PROVE  View'.said = View.said /\ Grows(View, View')
<1>1. TypeOK /\ fsm \in [Ids -> Machine]
  BY DEF BuildsInv, TypeOK
<1>2. \A j \in Ids : View.said[j] = fsm[j].published /\ Len(View.said[j]) \in Nat
  BY <1>1 DEF View, Machine
<1>3. ASSUME NEW j \in Ids, fsm[j].published # <<>>, ~Live(j) PROVE ~Live(j)'
  <2>1. phase[j] \in {"started", "lost"}
    BY <1>3 DEF BuildsInv, HistoryInv
  <2>. QED
    BY <1>1, <1>3, <2>1, PhaseSteps DEF Live
<1>4. View'.said = View.said
  BY DEF View
<1>5. \A j \in Ids : /\ View.said[j] # <<>> /\ j \in View.still => j \in View'.still
                     /\ j \in View.panicked => j \in View'.panicked
  BY <1>2, <1>3 DEF View, Panicked
<1>. QED
  BY <1>2, <1>4, <1>5 DEF Grows

(* create_index, the listeners and a crash leave histories and phases in   *)
(* agreement.                                                              *)
LEMMA OtherHistory ==
  ASSUME BuildsInv, Next, fsm' = fsm
  PROVE  HistoryInv'
<1>1. TypeOK
  BY DEF BuildsInv
<1>2. \A j \in Ids : fsm'[j].published # <<>> => phase'[j] \in {"started", "lost"}
  BY <1>1, PhaseSteps DEF BuildsInv, HistoryInv
<1>3. publisher' # Nobody => phase'[publisher'] = "started"
  <2> USE DEF BuildsInv, HistoryInv, TypeOK
  <2>1. ASSUME NEW i \in Ids, CreateDb(i) \/ RejectCreate(i)
        PROVE  publisher' # Nobody => phase'[publisher'] = "started"
    BY <2>1 DEF CreateDb, RejectCreate
  <2>2. ASSUME NEW i \in Ids, StartFsm(i)
        PROVE  publisher' # Nobody => phase'[publisher'] = "started"
    BY <2>2 DEF StartFsm
  <2>3. ASSUME NEW i \in Ids, ExecStep(i) \/ ListenerStep(i) \/ Join(i)
        PROVE  publisher' # Nobody => phase'[publisher'] = "started"
    BY <2>3, ExecTypes, ListenerTypes DEF restVars
  <2>4. CASE ReleaseEndpoint \/ Crash
    BY <2>4 DEF ReleaseEndpoint, Crash
  <2>. QED
    BY <2>1, <2>2, <2>3, <2>4 DEF Next
<1>. QED
  BY <1>2, <1>3 DEF HistoryInv

(* The holder of the endpoint that goes has panicked, or has said its      *)
(* last word.                                                              *)
LEMMA HolderIsDone ==
  ASSUME BuildsInv, ReleaseEndpoint
  PROVE  /\ publisher \in Ids /\ publisher \in View.still
         /\ \/ publisher \in View.panicked
            \/ View.said[publisher][Len(View.said[publisher])] \in Terminal
<1>1. publisher \in Ids /\ ~Live(publisher) /\ phase[publisher] = "started"
  BY DEF BuildsInv, HistoryInv, TypeOK, ReleaseEndpoint
<1>2. fsm[publisher].pc = "closed" =>
        fsm[publisher].published[Len(fsm[publisher].published)] \in Terminal
  BY <1>1 DEF BuildsInv, MachinesInv, MachineInv, MachineQueue, MachineWords
<1>. QED
  BY <1>1, <1>2 DEF View, Live, Panicked

(* The first two layers are inductive: no listener takes part in them. *)
LEMMA StepBuilds == BuildsInv /\ [Next]_vars => BuildsInv'
<1>1. BuildsInv /\ Next => BuildsInv'
  <2> SUFFICES ASSUME BuildsInv, Next PROVE BuildsInv'
    OBVIOUS
  <2>1. (TypeOK /\ OneBuildAtATime /\ MachinesInv)'
    BY StepOneBuild, StepMachines DEF BuildsInv
  <2>2. ASSUME NEW i \in Ids, ExecStep(i) PROVE HistoryInv'
    BY <2>2, ExecView
  <2>3. ASSUME \A i \in Ids : ~ExecStep(i) PROVE HistoryInv'
    BY <2>3, OtherSteps, OtherHistory DEF BuildsInv
  <2>. QED
    BY <2>1, <2>2, <2>3 DEF BuildsInv
<1>2. BuildsInv /\ UNCHANGED vars => BuildsInv'
  <2> SUFFICES ASSUME BuildsInv, UNCHANGED vars PROVE BuildsInv'
    OBVIOUS
  <2>1. (TypeOK /\ OneBuildAtATime /\ MachinesInv)'
    BY StepOneBuild, StepMachines DEF BuildsInv
  <2>2. HistoryInv'
    BY DEF BuildsInv, HistoryInv, vars
  <2>. QED
    BY <2>1, <2>2 DEF BuildsInv
<1>. QED
  BY <1>1, <1>2

-----------------------------------------------------------------------------
(***************************************************************************)
(* The listeners.  What is in a row is the last message its listener took. *)
(***************************************************************************)
Shown(i) == [id |-> rows[i].from, status |-> rows[i].status]

(* A listener that has not started has left the row alone; one that        *)
(* listens has not met a final status of its own or another build, and is  *)
(* on a trail from the status in its row; one that is done wrote a final   *)
(* status that some build did say.                                         *)
ListenerInv(i) ==
  /\ phase[i] \notin {"started", "lost"} => listener[i] = "none"
  /\ listener[i] \in {"none", "starting"} => rows[i] = NewRow /\ inbox[i] = <<>>
  /\ listener[i] = "listening" =>
       /\ rows[i].from # Nobody => rows[i].status \notin Terminal
       /\ Trail(Shown(i), inbox[i], i \in connected, View)
  /\ listener[i] = "done" =>
       /\ rows[i].from # Nobody /\ rows[i].status \in Terminal
       /\ Said(Shown(i), View)

(* The invariant of all listeners. *)
ListenersInv == \A i \in Ids : ListenerInv(i)

(* The inductive invariant. *)
IInv == BuildsInv /\ ListenersInv

(* What a row shows is a message, or the default. *)
LEMMA ShownType ==
  ASSUME TypeOK, NEW i \in Ids
  PROVE  /\ Shown(i) \in MessageOrNone /\ inbox[i] \in Seq(Message)
         /\ Shown(i).id = rows[i].from /\ Shown(i).status = rows[i].status
<1>1. rows[i] \in Row /\ inbox[i] \in Seq(Message)
  BY DEF TypeOK
<1>. QED
  BY <1>1 DEF Shown, MessageOrNone, Row

(* A machine's step: its word is queued at the listeners that are          *)
(* connected, and is the one after the last they have.                     *)
LEMMA ExecListeners ==
  ASSUME IInv, NEW i \in Ids, ExecStep(i), NEW j \in Ids
  PROVE  ListenerInv(j)'
<1>1. /\ TypeOK /\ TypeOK' /\ BuildsInv /\ ListenerInv(j)
      /\ View \in Views /\ View' \in Views
      /\ phase' = phase /\ rows' = rows /\ listener' = listener /\ connected' = connected
  BY ExecTypes, ViewType DEF IInv, BuildsInv, ListenersInv, restVars
<1>2. /\ Shown(j)' = Shown(j)
      /\ Shown(j) \in MessageOrNone /\ inbox[j] \in Seq(Message)
      /\ Shown(j).id = rows[j].from
  BY <1>1, ShownType DEF Shown
<1>3. Grows(View, View')
  <2>1. fsm[i].state.type \in StateTypes
    BY <1>1 DEF TypeOK, Machine, States
  <2>2. CASE Publish(i)
    <3>1. /\ View'.said = [View.said EXCEPT ![i] = Append(@, fsm[i].state.type)]
          /\ View'.still = View.still /\ View'.panicked = View.panicked
      BY <1>1, <2>2, ExecView
    <3>. QED
      BY <1>1, <2>1, <3>1, PublishGrows
  <2>3. CASE ~Publish(i)
    BY <1>1, <2>3, ExecView
  <2>. QED
    BY <2>2, <2>3
<1>4. j \notin connected => inbox'[j] = inbox[j]
  <2>1. CASE Publish(i)
    BY <2>1 DEF Publish
  <2>2. CASE ~Publish(i)
    BY <1>1, <2>2, ExecView
  <2>. QED
    BY <2>1, <2>2
<1>5. j \in connected => listener[j] = "listening"
  BY <1>1 DEF TypeOK
<1>6. ASSUME listener[j] = "listening"
      PROVE  Trail(Shown(j), inbox'[j], j \in connected, View')
  <2>1. Trail(Shown(j), inbox[j], j \in connected, View)
    BY <1>1, <1>6 DEF ListenerInv
  <2>2. CASE j \notin connected
    BY <1>1, <1>2, <1>3, <1>4, <2>1, <2>2, ApartTrail
  <2>3. CASE j \in connected /\ Publish(i)
    <3>1. inbox'[j] = Append(inbox[j], [id |-> i, status |-> fsm[i].state.type])
      BY <2>3 DEF Publish, Deliver
    <3>2. fsm[i].state.type \in StateTypes
      BY <1>1 DEF TypeOK, Machine, States
    <3>3. /\ View.publisher = i /\ i \notin View.still /\ View'.publisher = i
          /\ View'.said = [View.said EXCEPT ![i] = Append(@, fsm[i].state.type)]
          /\ View'.still = View.still /\ View'.panicked = View.panicked
      BY <1>1, <2>3, ExecView
    <3>. QED
      BY <1>1, <1>2, <2>1, <2>3, <3>1, <3>2, <3>3, PublishTrail
  <2>4. CASE ~Publish(i)
    <3>1. inbox' = inbox /\ View'.said = View.said /\ View'.publisher = View.publisher
      BY <1>1, <2>4, ExecView
    <3>. QED
      BY <1>1, <1>2, <1>3, <2>1, <3>1, QuietTrail
  <2>. QED
    BY <2>2, <2>3, <2>4
<1>7. ASSUME listener[j] = "done"
      PROVE  Said(Shown(j), View')
  BY <1>1, <1>2, <1>3, <1>7, GrowsWords DEF ListenerInv
<1>. QED
  BY <1>1, <1>2, <1>4, <1>5, <1>6, <1>7 DEF ListenerInv

(* A listener that is not concerned by a step, but for its connection.     *)
LEMMA IdleListener ==
  ASSUME IInv, Next, TypeOK', fsm' = fsm, NEW j \in Ids,
         rows'[j] = rows[j], listener'[j] = listener[j], inbox'[j] = inbox[j],
         \/ publisher' = publisher /\ (j \in connected => j \in connected')
         \/ j \notin connected
         \/ ReleaseEndpoint
  PROVE  ListenerInv(j)'
<1>1. /\ TypeOK /\ BuildsInv /\ ListenerInv(j)
      /\ View \in Views /\ View' \in Views
      /\ View'.said = View.said /\ Grows(View, View')
  BY ViewType, OtherView DEF IInv, BuildsInv, ListenersInv
<1>2. /\ Shown(j)' = Shown(j)
      /\ Shown(j) \in MessageOrNone /\ inbox[j] \in Seq(Message)
      /\ Shown(j).id = rows[j].from
  BY <1>1, ShownType DEF Shown
<1>3. phase'[j] \notin {"started", "lost"} => listener'[j] = "none"
  BY <1>1, PhaseSteps DEF ListenerInv
<1>4. ASSUME listener[j] = "listening"
      PROVE  Trail(Shown(j), inbox[j], j \in connected', View')
  <2>1. Trail(Shown(j), inbox[j], j \in connected, View)
    BY <1>1, <1>4 DEF ListenerInv
  <2>2. CASE j \notin connected
    BY <1>1, <1>2, <2>1, <2>2, ApartTrail
  <2>3. CASE publisher' = publisher /\ (j \in connected => j \in connected')
    <3>1. View'.publisher = View.publisher
      BY <2>3 DEF View
    <3>. QED
      BY <1>1, <1>2, <2>1, <2>3, <3>1, QuietTrail
  <2>4. CASE ReleaseEndpoint
    <3>1. /\ View.publisher \in View.still
          /\ \/ View.publisher \in View.panicked
             \/ View.said[View.publisher][Len(View.said[View.publisher])] \in Terminal
      BY <1>1, <2>4, HolderIsDone DEF View
    <3>2. View'.still = View.still /\ View'.panicked = View.panicked
      BY <2>4 DEF ReleaseEndpoint, View, Live, Panicked
    <3>. QED
      BY <1>1, <1>2, <2>1, <3>1, <3>2, ReleaseTrail
  <2>. QED
    BY <2>2, <2>3, <2>4
<1>5. ASSUME listener[j] = "done" PROVE Said(Shown(j), View')
  BY <1>1, <1>2, <1>5, GrowsWords DEF ListenerInv
<1>. QED
  BY <1>1, <1>2, <1>3, <1>4, <1>5 DEF ListenerInv

(* create_index makes listeners, which start with the default in their     *)
(* row.                                                                    *)
LEMMA CreateListeners ==
  ASSUME IInv, NEW i \in Ids, CreateDb(i) \/ StartFsm(i) \/ RejectCreate(i)
  PROVE  ListenersInv'
<1>1. /\ TypeOK /\ TypeOK' /\ Next /\ fsm' = fsm /\ rows' = rows /\ inbox' = inbox
      /\ connected' = connected
  BY CreateTypes DEF IInv, BuildsInv, Next, CreateDb, StartFsm, RejectCreate
<1>2. CASE CreateDb(i) \/ RejectCreate(i)
  <2>1. listener' = listener /\ publisher' = publisher
    BY <1>2 DEF CreateDb, RejectCreate
  <2>. QED
    BY <1>1, <2>1, IdleListener DEF ListenersInv
<1>3. CASE StartFsm(i)
  <2>1. connected = {} /\ listener' = [listener EXCEPT ![i] = "starting"]
        /\ phase'[i] = "started" /\ phase[i] = "inserted"
    BY <1>1, <1>3 DEF StartFsm, TypeOK
  <2>2. ASSUME NEW j \in Ids \ {i} PROVE ListenerInv(j)'
    <3>1. listener'[j] = listener[j]
      BY <1>1, <2>1 DEF TypeOK
    <3>. QED
      BY <1>1, <2>1, <3>1, IdleListener
  <2>3. ListenerInv(i)'
    <3>1. listener'[i] = "starting"
      BY <1>1, <2>1 DEF TypeOK
    <3>2. rows[i] = NewRow /\ inbox[i] = <<>>
      BY <2>1 DEF IInv, ListenersInv, ListenerInv
    <3>. QED
      BY <1>1, <2>1, <3>1, <3>2 DEF ListenerInv
  <2>. QED
    BY <2>2, <2>3 DEF ListenersInv
<1>. QED
  BY <1>2, <1>3

(* A listener takes the next word of its trail: its row shows that word,   *)
(* and it goes on only if the word is not terminal.                        *)
LEMMA UpdateListener ==
  ASSUME IInv, NEW i \in Ids, Update(i)
  PROVE  /\ ListenerInv(i)'
         /\ Shown(i)' = Head(inbox[i])
         /\ rows[i].from # Nobody => FollowedBy(Shown(i), Head(inbox[i]), View)
<1> DEFINE m == Head(inbox[i])
<1>1. /\ TypeOK /\ ListenerInv(i) /\ listener[i] = "listening"
      /\ inbox[i] \in Seq(Message) /\ inbox[i] # <<>> /\ m \in Message
  BY DEF IInv, BuildsInv, ListenersInv, TypeOK, Update
<1>2. /\ rows'[i] = [status |-> m.status, from |-> m.id]
      /\ phase' = phase /\ View' = View
  BY <1>1 DEF Update, TypeOK, View, Live, Panicked
<1>3. Shown(i)' = m
  BY <1>1, <1>2 DEF Shown, Message
<1>4. /\ Trail(m, Tail(inbox[i]), i \in connected, View)
      /\ Shown(i).id # Nobody => FollowedBy(Shown(i), m, View)
      /\ Said(m, View)
  BY <1>1, TakeTrail DEF ListenerInv
<1>5. phase[i] \in {"started", "lost"}
  BY <1>1 DEF ListenerInv
<1>6. m.id # Nobody
  BY <1>1 DEF Message, Ids, Nobody
<1>7. CASE m.status \in StopsOn
  <2>1. listener' = [listener EXCEPT ![i] = "done"]
    BY <1>7, Zenon DEF Update
  <2>2. listener'[i] = "done"
    BY <1>1, <2>1 DEF TypeOK
  <2>3. ListenerInv(i)'
    BY <1>2, <1>3, <1>4, <1>5, <1>6, <1>7, <2>2 DEF ListenerInv, StopsOn
  <2>. QED
    BY <1>3, <1>4, <2>3, ShownType, <1>1
<1>8. CASE m.status \notin StopsOn
  <2>1. /\ listener' = listener /\ connected' = connected
        /\ inbox' = [inbox EXCEPT ![i] = Tail(inbox[i])]
    BY <1>8 DEF Update, Remaining
  <2>2. inbox'[i] = Tail(inbox[i])
    BY <1>1, <2>1 DEF TypeOK
  <2>3. ListenerInv(i)'
    BY <1>1, <1>2, <1>3, <1>4, <1>5, <1>8, <2>1, <2>2 DEF ListenerInv, StopsOn
  <2>. QED
    BY <1>3, <1>4, <2>3, ShownType, <1>1
<1>. QED
  BY <1>7, <1>8

(* A step of a listener concerns that listener only. *)
LEMMA ListenerListeners ==
  ASSUME IInv, NEW i \in Ids, ListenerStep(i) \/ Join(i)
  PROVE  ListenersInv'
<1>1. /\ TypeOK /\ TypeOK' /\ Next /\ UNCHANGED <<phase, fsm, publisher>>
  BY ListenerTypes DEF IInv, BuildsInv, Next
<1>2. ASSUME NEW j \in Ids \ {i} PROVE ListenerInv(j)'
  <2>1. /\ rows'[j] = rows[j] /\ listener'[j] = listener[j] /\ inbox'[j] = inbox[j]
        /\ j \in connected => j \in connected'
    <3>1. CASE Subscribe(i) \/ Join(i)
      BY <1>1, <3>1 DEF Subscribe, Join, TypeOK
    <3>2. CASE Update(i) /\ Head(inbox[i]).status \in StopsOn
      BY <1>1, <3>2 DEF Update, TypeOK
    <3>3. CASE Update(i) /\ Head(inbox[i]).status \notin StopsOn
      BY <1>1, <3>3 DEF Update, TypeOK
    <3>4. CASE ListenerFails(i)
      BY <1>1, <3>4 DEF ListenerFails, TypeOK
    <3>. QED
      BY <3>1, <3>2, <3>3, <3>4 DEF ListenerStep
  <2>. QED
    BY <1>1, <2>1, IdleListener
<1>3. ListenerInv(i)'
  <2>1. ListenerInv(i)
    BY DEF IInv, ListenersInv
  <2>2. CASE Subscribe(i)
    <3>1. /\ listener[i] = "starting" /\ listener'[i] = "listening"
          /\ rows' = rows /\ inbox' = inbox
      BY <1>1, <2>2 DEF Subscribe, TypeOK
    <3>2. rows[i] = NewRow /\ inbox[i] = <<>>
      BY <2>1, <3>1 DEF ListenerInv
    <3>3. Shown(i)'.id = Nobody /\ rows'[i].from = Nobody
      BY <3>1, <3>2 DEF Shown, NewRow
    <3>4. Trail(Shown(i)', <<>>, i \in connected', View')
      BY <3>3, FreshTrail
    <3>. QED
      BY <1>1, <2>1, <3>1, <3>2, <3>3, <3>4 DEF ListenerInv
  <2>3. CASE Join(i)
    <3>1. /\ rows' = rows /\ listener' = listener /\ inbox' = inbox
          /\ i \in connected => i \in connected'
      BY <2>3 DEF Join
    <3>. QED
      BY <1>1, <3>1, IdleListener
  <2>4. CASE Update(i)
    BY <2>4, UpdateListener
  <2>5. CASE ListenerFails(i)
    <3>1. listener[i] \in {"starting", "listening"} /\ listener'[i] = "failed"
      BY <1>1, <2>5 DEF ListenerFails, TypeOK
    <3>. QED
      BY <1>1, <2>1, <3>1 DEF ListenerInv
  <2>. QED
    BY <2>2, <2>3, <2>4, <2>5 DEF ListenerStep
<1>. QED
  BY <1>2, <1>3 DEF ListenersInv

(* When the endpoint is given back, a connected listener has the last word *)
(* of its build queued; when the process dies, no listener is left.        *)
LEMMA OtherListeners ==
  ASSUME IInv, ReleaseEndpoint \/ Crash
  PROVE  ListenersInv'
<1>1. /\ TypeOK /\ TypeOK' /\ Next /\ fsm' = fsm /\ rows' = rows
  BY OtherTypes DEF IInv, BuildsInv, Next, ReleaseEndpoint, Crash
<1>2. CASE ReleaseEndpoint
  <2>1. listener' = listener /\ inbox' = inbox
    BY <1>2 DEF ReleaseEndpoint
  <2>. QED
    BY <1>1, <1>2, <2>1, IdleListener DEF ListenersInv
<1>3. CASE Crash
  <2> SUFFICES ASSUME NEW j \in Ids PROVE ListenerInv(j)'
    BY DEF ListenersInv
  <2>1. /\ ListenerInv(j) /\ View'.said = View.said
    BY <1>1, OtherView DEF IInv, ListenersInv
  <2>2. /\ inbox'[j] = <<>>
        /\ listener'[j] \in {"none", "done", "failed"}
        /\ listener'[j] \in {"none", "done"} => listener'[j] = listener[j]
        /\ listener[j] = "none" => listener'[j] = "none"
    BY <1>1, <1>3 DEF Crash, TypeOK, ListenerStates
  <2>3. phase'[j] \notin {"started", "lost"} => phase[j] \notin {"started", "lost"}
    BY <1>1, PhaseSteps
  <2>4. Said(Shown(j), View) => Said(Shown(j)', View')
    BY <1>1, <2>1 DEF Said, Shown
  <2>. QED
    BY <1>1, <2>1, <2>2, <2>3, <2>4 DEF ListenerInv
<1>. QED
  BY <1>2, <1>3

(* Every step of the service keeps the invariant. *)
LEMMA StepIInv == IInv /\ [Next]_vars => IInv'
<1> SUFFICES ASSUME IInv, [Next]_vars PROVE IInv'
  OBVIOUS
<1>1. BuildsInv'
  BY StepBuilds DEF IInv
<1>2. ASSUME NEW i \in Ids, ExecStep(i) PROVE ListenersInv'
  BY <1>2, ExecListeners DEF ListenersInv
<1>3. ASSUME UNCHANGED vars PROVE ListenersInv'
  <2>1. View' = View /\ \A i \in Ids : Shown(i)' = Shown(i)
    BY <1>3 DEF vars, View, Live, Panicked, Shown
  <2>. QED
    BY <1>3, <2>1 DEF IInv, ListenersInv, ListenerInv, vars
<1>4. ListenersInv'
  BY <1>2, <1>3, CreateListeners, ListenerListeners, OtherListeners DEF Next
<1>. QED
  BY <1>1, <1>4 DEF IInv

(* The service starts with it. *)
LEMMA InitIInv == Init => IInv
<1> SUFFICES ASSUME Init PROVE IInv
  OBVIOUS
<1>1. TypeOK /\ OneBuildAtATime /\ MachinesInv
  BY InitOneBuild, InitMachines
<1>2. HistoryInv
  BY DEF Init, HistoryInv, NewMachine
<1>3. ListenersInv
  BY DEF Init, ListenersInv, ListenerInv
<1>. QED
  BY <1>1, <1>2, <1>3 DEF IInv, BuildsInv

(* The invariant of create_index, exec and update_notifications together   *)
(* (src/src/api/indexes.rs): what a row shows was said by a build; what is *)
(* queued for its listener carries on from there without a gap; and when   *)
(* the endpoint changes hands, a listener that was connected has, in its   *)
(* row or queue, the final status of the build that goes, unless that      *)
(* build panicked.                                                         *)
THEOREM IngestInductive == Spec => []IInv
  BY InitIInv, StepIInv, PTL DEF Spec

-----------------------------------------------------------------------------
(***************************************************************************)
(* The properties of the rows.                                             *)
(***************************************************************************)

(* A terminal word is the last one of its build, and true. *)
LEMMA TerminalWord ==
  ASSUME NEW m \in Machine, NEW r, MachineInv(m, r),
         NEW k \in 1 .. Len(m.published), m.published[k] \in Terminal
  PROVE  /\ k = Len(m.published)
         /\ m.published[k] = IF m.imported THEN "Available" ELSE "NotAvailable"
<1>1. m.published \in Seq(StateTypes) /\ Len(m.published) \in Nat
  BY DEF Machine
<1>2. k = Len(m.published)
  BY <1>1 DEF MachineInv, MachineWords
<1>3. m.published # <<>>
  BY <1>1
<1>4. m.pc \in {"loop", "run", "closed"}
  BY <1>2, <1>3 DEF MachineInv, MachineWords, Machine
<1>5. m.published[k] = m.state.type
  BY <1>2, <1>3, <1>4 DEF MachineInv, MachineWords
<1>6. m.imported <=> m.state.type = "Available"
  BY <1>4, <1>5 DEF MachineInv, MachineImport, AfterImport, Terminal
<1>. QED
  BY <1>2, <1>5, <1>6 DEF Terminal

(* The status a listener stops at is the last of its build, hence true. *)
LEMMA DoneOutcome == IInv => DoneMeansOutcome
<1> SUFFICES ASSUME IInv, NEW i \in Ids, listener[i] = "done", OwnRow(i)
             PROVE  rows[i].status = IF fsm[i].imported THEN "Available" ELSE "NotAvailable"
  BY DEF DoneMeansOutcome
<1>1. /\ TypeOK /\ MachineInv(fsm[i], requests[i]) /\ fsm[i] \in Machine
      /\ rows[i].status \in Terminal /\ Said(Shown(i), View)
  BY DEF IInv, BuildsInv, MachinesInv, ListenersInv, ListenerInv, TypeOK
<1>2. Shown(i).id = i /\ Shown(i).status = rows[i].status /\ View.said[i] = fsm[i].published
  BY <1>1, ShownType DEF OwnRow, View
<1>3. PICK k \in 1 .. Len(fsm[i].published) : fsm[i].published[k] = rows[i].status
  BY <1>1, <1>2 DEF Said
<1>. QED
  BY <1>1, <1>3, TerminalWord

(* A reader with an empty queue is up to date, and the last word of a      *)
(* build that has ended is terminal.                                       *)
LEMMA UpToDateMeans ==
  ASSUME BuildsInv, NEW m \in Message, NEW me, NEW peers, UpToDate(m, me \in peers, View)
  PROVE  \/ m.status \in Terminal \/ Panicked(m.id)
         \/ me \in peers /\ Live(m.id)
<1>1. m.id \in Ids
  BY DEF Message
<1>2. CASE Ended(m, View)
  BY <1>1, <1>2 DEF Ended, View
<1>3. CASE ~Ended(m, View)
  <2>1. /\ me \in peers /\ m.id = publisher
        /\ m.status = fsm[m.id].published[Len(fsm[m.id].published)]
    BY <1>1, <1>3 DEF UpToDate, View
  <2>2. CASE Live(m.id)
    BY <2>1, <2>2
  <2>3. CASE ~Live(m.id)
    <3>1. phase[m.id] = "started" /\ MachineInv(fsm[m.id], requests[m.id])
      BY <1>1, <2>1 DEF BuildsInv, HistoryInv, MachinesInv, Ids, Nobody
    <3>2. fsm[m.id].pc = "closed" \/ Panicked(m.id)
      BY <2>3, <3>1 DEF Live, Panicked
    <3>. QED
      BY <2>1, <3>1, <3>2 DEF MachineInv, MachineQueue, MachineWords
  <2>. QED
    BY <2>2, <2>3
<1>. QED
  BY <1>2, <1>3

(* A listener that goes on has no terminal status in its row. *)
LEMMA NotInVain == IInv => NeverWaitsInVain
<1> SUFFICES ASSUME IInv, NEW i \in Ids,
                    listener[i] = "listening", OwnRow(i), inbox[i] = <<>>
             PROVE  (i \in connected /\ Live(i)) \/ Panicked(i)
  BY DEF NeverWaitsInVain
<1>1. /\ BuildsInv /\ TypeOK /\ i # Nobody /\ rows[i].from = i
      /\ rows[i].status \notin Terminal
      /\ Trail(Shown(i), <<>>, i \in connected, View)
  BY DEF IInv, BuildsInv, ListenersInv, ListenerInv, OwnRow, Ids, Nobody
<1>2. Shown(i) \in Message /\ Shown(i).id = i /\ Shown(i).status = rows[i].status
  BY <1>1, ShownType DEF MessageOrNone, Message
<1>3. UpToDate(Shown(i), i \in connected, View)
  BY <1>1, <1>2 DEF Trail, TrailAt
<1>. QED
  BY <1>1, <1>2, <1>3, UpToDateMeans

(* Only its listener writes a row. *)
LEMMA RowIsUpdated ==
  ASSUME TypeOK, [Next]_vars, NEW i \in Ids, rows'[i] # rows[i]
  PROVE  Update(i)
<1>1. ASSUME NEW j \in Ids, Update(j) PROVE j = i
  BY <1>1 DEF Update, TypeOK
<1>2. ASSUME NEW j \in Ids,
             \/ CreateDb(j) \/ StartFsm(j) \/ RejectCreate(j) \/ ExecStep(j)
             \/ Subscribe(j) \/ ListenerFails(j) \/ Join(j)
      PROVE  rows' = rows
  BY <1>2, ExecTypes DEF CreateDb, StartFsm, RejectCreate, Subscribe, ListenerFails, Join, restVars
<1>3. ReleaseEndpoint \/ Crash \/ UNCHANGED vars => rows' = rows
  BY DEF ReleaseEndpoint, Crash, vars
<1>. QED
  BY <1>1, <1>2, <1>3 DEF Next, ListenerStep

(* The listener takes the next word of its trail. *)
LEMMA StepNoGap ==
  ASSUME IInv, [Next]_vars, NEW i \in Ids, OwnRow(i), OwnRow(i)', rows[i] # rows'[i]
  PROVE  \E k \in 1 .. Len(fsm[i].published) - 1 :
            /\ fsm[i].published[k] = rows[i].status
            /\ fsm[i].published[k + 1] = rows'[i].status
<1>1. TypeOK /\ Update(i) /\ inbox[i] # <<>> /\ Head(inbox[i]) \in Message
  BY RowIsUpdated DEF IInv, BuildsInv, Update, TypeOK
<1>2. /\ Shown(i).id = i /\ Shown(i).status = rows[i].status
      /\ Shown(i)' = Head(inbox[i]) /\ rows'[i].status = Shown(i)'.status /\ Shown(i)'.id = i
      /\ FollowedBy(Shown(i), Head(inbox[i]), View)
  BY <1>1, ShownType, UpdateListener DEF OwnRow, Ids, Nobody, Shown
<1>3. View.said[i] = fsm[i].published
  BY DEF View
<1>. QED
  BY <1>2, <1>3 DEF FollowedBy

(* Hence a status is of a later stage than the one it replaces: a build    *)
(* announces none twice, so that the k above is the only one.              *)
LEMMA StepRowAdvances ==
  ASSUME IInv, [Next]_vars, NEW i \in Ids, OwnRow(i), OwnRow(i)', rows[i] # rows'[i]
  PROVE  Progress[rows[i].status] < Progress[rows'[i].status]
<1>1. PICK k \in 1 .. Len(fsm[i].published) - 1 :
        /\ fsm[i].published[k] = rows[i].status
        /\ fsm[i].published[k + 1] = rows'[i].status
  BY StepNoGap
<1>2. Advancing(fsm[i].published)
  BY DEF IInv, BuildsInv, MachinesInv, MachineInv, MachineAdvance
<1>. QED
  BY <1>1, <1>2 DEF Advancing

(* A word of another build follows only when the build of the row has      *)
(* ended: with a final status, at which the listener stops, or in a panic. *)
LEMMA StepOwnRow ==
  ASSUME IInv, [Next]_vars, NEW i \in Ids, OwnRow(i), ~OwnRow(i)'
  PROVE  Panicked(i)
<1>1. TypeOK /\ Update(i) /\ ListenerInv(i)
  BY RowIsUpdated DEF IInv, BuildsInv, OwnRow, ListenersInv
<1>2. i # Nobody /\ rows[i].from = i /\ rows'[i].from # i
  BY DEF OwnRow, Ids, Nobody
<1>3. rows[i].status \notin Terminal
  BY <1>1, <1>2 DEF ListenerInv, Update
<1>4. /\ Shown(i).id = i /\ Shown(i).status = rows[i].status
      /\ Shown(i)' = Head(inbox[i]) /\ Shown(i)'.id # i
  BY <1>1, <1>2, ShownType, UpdateListener DEF Shown
<1>5. FollowedBy(Shown(i), Head(inbox[i]), View)
  BY <1>1, <1>2, UpdateListener
<1>6. Ended(Shown(i), View)
  BY <1>4, <1>5 DEF FollowedBy
<1>. QED
  BY <1>3, <1>4, <1>6 DEF Ended, View

(* A listener that stops on its own build's word leaves the truth in the   *)
(* row, Available if and only if the data was imported, although it reads  *)
(* one message at a time and never looks at the build                      *)
(* (update_notifications, src/src/api/indexes.rs).                         *)
THEOREM DoneIsTruth == Spec => []DoneMeansOutcome
  BY IngestInductive, DoneOutcome, PTL

(* No row hangs at a status of work in progress while its listener waits   *)
(* for a word that was sent and lost, or never will be sent: it waits for  *)
(* a build that runs, over a connection that stands, or for one that       *)
(* panicked (exec, update_notifications).                                  *)
THEOREM ListenersWaitForBuilds == Spec => []NeverWaitsInVain
  BY IngestInductive, NotInVain, PTL

(* From the first status of its build that a listener records, it records  *)
(* every later one, in order, however late it joined and whatever other    *)
(* builds publish on the same endpoint (update_notifications,              *)
(* src/src/api/indexes.rs).                                                *)
THEOREM HistoryWithoutGap == Spec => NoGapInHistory
<1>1. IInv /\ [Next]_vars =>
        [\A i \in Ids :
           OwnRow(i) /\ OwnRow(i)' /\ rows[i] # rows'[i] =>
             \E k \in 1 .. Len(fsm[i].published) - 1 :
                /\ fsm[i].published[k] = rows[i].status
                /\ fsm[i].published[k + 1] = rows'[i].status]_vars
  BY StepNoGap
<1>. QED
  BY <1>1, IngestInductive, PTL DEF Spec, NoGapInHistory

(* Although update_notifications does not look at the id of a message, a   *)
(* row that shows its own build is overwritten by another build only if    *)
(* its own build panicked.                                                 *)
THEOREM RowIsKept == Spec => OwnRowIsKept
<1>1. IInv /\ [Next]_vars => [\A i \in Ids : OwnRow(i) /\ ~OwnRow(i)' => Panicked(i)]_vars
  BY StepOwnRow
<1>. QED
  BY <1>1, IngestInductive, PTL DEF Spec, OwnRowIsKept

(* What the table says of an index goes from stage to stage one way, as    *)
(* long as its row shows its own build: no error and no message that is    *)
(* late takes it back (FSM::next, update_notifications).                   *)
THEOREM RowGoesOneWay ==
  Spec => [][\A i \in Ids :
               OwnRow(i) /\ OwnRow(i)' /\ rows[i] # rows'[i] =>
                 Progress[rows[i].status] < Progress[rows'[i].status]]_vars
<1>1. IInv /\ [Next]_vars =>
        [\A i \in Ids :
           OwnRow(i) /\ OwnRow(i)' /\ rows[i] # rows'[i] =>
             Progress[rows[i].status] < Progress[rows'[i].status]]_vars
  BY StepRowAdvances
<1>. QED
  BY <1>1, IngestInductive, PTL DEF Spec

(* A build sends at most nine messages, so that no connection comes near   *)
(* the high-water mark at which a PUB socket drops messages: this is why   *)
(* the queues of the model, which lose nothing, are those of the code.     *)
THEOREM NineMessagesAtMost == Spec => [](\A i \in Ids : Len(fsm[i].published) <= 9)
<1>1. IInv => \A i \in Ids : Len(fsm[i].published) <= 9
  BY NineWords
  DEF IInv, BuildsInv, MachinesInv, MachineInv, MachineAdvance, TypeOK, Machine
<1>. QED
  BY <1>1, IngestInductive, PTL
=============================================================================
