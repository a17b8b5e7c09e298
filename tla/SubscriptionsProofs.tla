------------------------- MODULE SubscriptionsProofs -------------------------
(***************************************************************************)
(* Proofs about Subscriptions, for any number of clients, indexes and      *)
(* crashes.  Streams only read: with any number of them the service takes  *)
(* the steps of Ingest, so that what is proved of it holds here too.  And  *)
(* a stream is a reader of the endpoint like a listener, with the last     *)
(* message it was sent in place of the row, so that the same theory of     *)
(* trails (IngestProofs) says what it hears.                               *)
(***************************************************************************)
EXTENDS Subscriptions, IngestProofs

(* With streams, a step of the service is one of Ingest, and a step of a   *)
(* stream is none.                                                         *)
LEMMA StepIsIngests == [NextWithStreams]_allVars => [Next]_vars
<1> SUFFICES ASSUME NextWithStreams \/ UNCHANGED allVars PROVE Next \/ UNCHANGED vars
  OBVIOUS
<1>1. ASSUME NEW i \in Ids, ServiceStep(i) \/ PublishToAll(i) PROVE Next
  BY <1>1 DEF ServiceStep, QuietStep, PublishToAll, Next, ExecStep
<1>2. ASSUME NEW c \in Clients,
             Notifications(c) \/ JoinStream(c) \/ Hear(c) \/ HangUp(c)
      PROVE  UNCHANGED vars
  BY <1>2 DEF Notifications, JoinStream, Hear, HangUp
<1>3. CASE ReleaseAll \/ CrashAll
  BY <1>3 DEF ReleaseAll, CrashAll, Next
<1>4. CASE UNCHANGED allVars
  BY <1>4 DEF allVars
<1>. QED
  BY <1>1, <1>2, <1>3, <1>4 DEF NextWithStreams

(* Nobody streams when the service starts. *)
LEMMA InitStreams == InitWithStreams => TypeOK /\ OneBuildAtATime /\ StreamTypeOK
<1> SUFFICES ASSUME InitWithStreams PROVE TypeOK /\ OneBuildAtATime /\ StreamTypeOK
  OBVIOUS
<1>1. TypeOK /\ OneBuildAtATime
  BY InitOneBuild DEF InitWithStreams
<1>2. StreamTypeOK
  BY DEF InitWithStreams, StreamTypeOK, Nothing
<1>. QED
  BY <1>1, <1>2

(* What a build publishes is a message of the types a stream hears. *)
LEMMA PublishedType ==
  ASSUME TypeOK, NEW i \in Ids
  PROVE  [id |-> i, status |-> fsm[i].state.type] \in Message
  BY DEF TypeOK, Machine, States, Message

(* The steps of the service: the endpoint changes hands only with the      *)
(* streams losing their peer.                                              *)
LEMMA ServiceKeepsStreams ==
  ASSUME TypeOK, StreamTypeOK, NEW i \in Ids, ServiceStep(i) \/ PublishToAll(i)
  PROVE  StreamTypeOK'
<1> USE DEF StreamTypeOK
<1>1. CASE ServiceStep(i)
  <2>1. UNCHANGED streamVars
    BY <1>1 DEF ServiceStep
  <2>2. publisher' = publisher \/ publisher' # Nobody
    BY <1>1 DEF ServiceStep, QuietStep, CreateDb, StartFsm, RejectCreate, Transition, Run,
                RunNothing, Panic, Close, restVars, ListenerStep, Subscribe, Update,
                ListenerFails, Join, Ids, Nobody
  <2>. QED
    BY <2>1, <2>2 DEF streamVars
<1>2. CASE PublishToAll(i)
  <2>1. /\ UNCHANGED <<stream, joined, heard>> /\ publisher' = publisher
        /\ feed' = [c \in Clients |->
                      IF c \in joined
                      THEN Append(feed[c], [id |-> i, status |-> fsm[i].state.type])
                      ELSE feed[c]]
    BY <1>2 DEF PublishToAll, Publish, restVars
  <2>2. feed' \in [Clients -> Seq(Message)]
    BY <2>1, PublishedType
  <2>3. \A c \in Clients : stream[c] = "closed" => feed'[c] = <<>>
    BY <2>1
  <2>. QED
    BY <2>1, <2>2, <2>3
<1>. QED
  BY <1>1, <1>2

(* The steps of a client change its own stream only. *)
LEMMA ClientKeepsStreams ==
  ASSUME StreamTypeOK, NEW c \in Clients,
         Notifications(c) \/ JoinStream(c) \/ Hear(c) \/ HangUp(c)
  PROVE  StreamTypeOK'
<1> USE DEF StreamTypeOK, vars
<1>1. CASE Notifications(c)
  BY <1>1 DEF Notifications
<1>2. CASE JoinStream(c)
  BY <1>2 DEF JoinStream
<1>3. CASE Hear(c)
  <2>1. /\ feed[c] # <<>> /\ feed[c] \in Seq(Message)
        /\ heard' = [heard EXCEPT ![c] = Head(feed[c])]
        /\ feed' = [feed EXCEPT ![c] = Tail(feed[c])]
        /\ UNCHANGED <<vars, stream, joined>>
    BY <1>3 DEF Hear
  <2>2. Head(feed[c]) \in Message /\ Tail(feed[c]) \in Seq(Message)
    BY <2>1
  <2>3. stream[c] = "open"
    BY <2>1
  <2>4. feed' \in [Clients -> Seq(Message)] /\ heard' \in [Clients -> Message \cup {Nothing}]
    BY <2>1, <2>2
  <2>. QED
    BY <2>1, <2>3, <2>4
<1>4. CASE HangUp(c)
  BY <1>4 DEF HangUp
<1>. QED
  BY <1>1, <1>2, <1>3, <1>4

(* When the endpoint is given back or the process dies, no stream stays    *)
(* joined.                                                                 *)
LEMMA OthersKeepStreams ==
  ASSUME StreamTypeOK, ReleaseAll \/ CrashAll \/ UNCHANGED allVars
  PROVE  StreamTypeOK'
<1> USE DEF StreamTypeOK
<1>1. CASE ReleaseAll
  BY <1>1 DEF ReleaseAll, ReleaseEndpoint
<1>2. CASE CrashAll
  BY <1>2 DEF CrashAll
<1>3. CASE UNCHANGED allVars
  BY <1>3 DEF allVars, streamVars, vars
<1>. QED
  BY <1>1, <1>2, <1>3

(* The types of the streams are inductive, over those of the service. *)
LEMMA StepStreams ==
  TypeOK /\ OneBuildAtATime /\ StreamTypeOK /\ [NextWithStreams]_allVars
    => (TypeOK /\ OneBuildAtATime /\ StreamTypeOK)'
<1> SUFFICES ASSUME TypeOK, OneBuildAtATime, StreamTypeOK, [NextWithStreams]_allVars
             PROVE  (TypeOK /\ OneBuildAtATime /\ StreamTypeOK)'
  OBVIOUS
<1>1. (TypeOK /\ OneBuildAtATime)'
  BY StepIsIngests, StepOneBuild
<1>2. ASSUME NEW i \in Ids, ServiceStep(i) \/ PublishToAll(i) PROVE StreamTypeOK'
  BY <1>2, ServiceKeepsStreams
<1>3. ASSUME NEW c \in Clients,
             Notifications(c) \/ JoinStream(c) \/ Hear(c) \/ HangUp(c)
      PROVE  StreamTypeOK'
  BY <1>3, ClientKeepsStreams
<1>4. ASSUME ReleaseAll \/ CrashAll \/ UNCHANGED allVars PROVE StreamTypeOK'
  BY <1>4, OthersKeepStreams
<1>5. StreamTypeOK'
  BY <1>2, <1>3, <1>4 DEF NextWithStreams
<1>. QED
  BY <1>1, <1>5

(* The streams keep to their types: in particular no stream is joined to   *)
(* an endpoint nobody holds, and one that is closed is owed nothing        *)
(* (src/src/api/gql.rs).                                                   *)
THEOREM StreamTypeCorrect == SafeSpec => []StreamTypeOK
<1>1. SafeSpec => [](TypeOK /\ OneBuildAtATime /\ StreamTypeOK)
  BY InitStreams, StepStreams, PTL DEF SafeSpec
<1>. QED
  BY <1>1, PTL

(* Subscriptions do not disturb the service: with any number of streams    *)
(* that open, hear and hang up at any moment, requests, builds, listeners  *)
(* and rows do what they do without them (src/src/api/gql.rs reads the     *)
(* endpoint and writes nothing).                                           *)
THEOREM StreamsDoNotDisturb == SafeSpec => Init /\ [][Next]_vars
<1>1. InitWithStreams => Init
  BY DEF InitWithStreams
<1>2. [NextWithStreams]_allVars => [Next]_vars
  BY StepIsIngests
<1>. QED
  BY <1>1, <1>2, PTL DEF SafeSpec

-----------------------------------------------------------------------------
(* What a stream was sent, and what it is owed. *)
StreamInv(c) == Trail(heard[c], feed[c], c \in joined, View)

(* The trails of all streams. *)
StreamsInv == \A c \in Clients : StreamInv(c)

(* The inductive invariant of the service with its streams. *)
StreamIInv == IInv /\ StreamTypeOK /\ StreamsInv

(* What a stream was sent is a message, or none; so is what it is owed. *)
LEMMA HeardType ==
  ASSUME StreamTypeOK, NEW c \in Clients
  PROVE  heard[c] \in MessageOrNone /\ feed[c] \in Seq(Message)
<1>1. Nothing \in MessageOrNone
  BY DEF Nothing, MessageOrNone, StateTypes
<1>2. Message \subseteq MessageOrNone
  BY DEF Message, MessageOrNone
<1>. QED
  BY <1>1, <1>2 DEF StreamTypeOK

(* A view that stays the same has grown. *)
LEMMA SameViewGrows == ASSUME NEW v \in Views PROVE Grows(v, v)
<1>1. \A j \in Ids : Len(v.said[j]) \in Nat
  BY DEF Views
<1>. QED
  BY <1>1 DEF Grows

(* A step of the service that publishes nothing and keeps the endpoint's   *)
(* holder does not concern the streams.                                    *)
LEMMA ServiceStreams ==
  ASSUME StreamIInv, NEW i \in Ids, ServiceStep(i), NEW c \in Clients
  PROVE  StreamInv(c)'
<1>1. /\ TypeOK /\ TypeOK' /\ BuildsInv /\ View \in Views /\ View' \in Views
      /\ heard[c] \in MessageOrNone /\ feed[c] \in Seq(Message)
      /\ Trail(heard[c], feed[c], c \in joined, View)
      /\ Next /\ UNCHANGED streamVars
  BY StepIsIngests, StepOneBuild, ViewType, HeardType
  DEF StreamIInv, IInv, BuildsInv, StreamsInv, StreamInv, NextWithStreams, ServiceStep,
      QuietStep, Next, ExecStep
<1>2. ASSUME Grows(View, View'), View'.said = View.said,
             publisher' = publisher \/ c \notin joined
      PROVE  Trail(heard[c], feed[c], c \in joined, View')
  <2>1. CASE publisher' = publisher
    <3>1. View'.publisher = View.publisher
      BY <2>1 DEF View
    <3>. QED
      BY <1>1, <1>2, <3>1, QuietTrail
  <2>2. CASE c \notin joined
    BY <1>1, <1>2, <2>2, ApartTrail
  <2>. QED
    BY <1>2, <2>1, <2>2
<1>3. CASE QuietStep(i)
  <2>1. ExecStep(i)
    BY <1>3 DEF QuietStep, ExecStep
  <2>2. ~Publish(i)
    <3>1. CASE Panic(i)
      <4>1. fsm'[i].pc = "panicked"
        BY <1>1, <3>1, PanicCases
      <4>2. Publish(i) => fsm'[i].pc = "run"
        BY <1>1 DEF Publish, TypeOK, Machine
      <4>. QED
        BY <4>1, <4>2
    <3>2. CASE Transition(i) \/ Run(i) \/ RunNothing(i) \/ Close(i)
      BY <3>2 DEF Transition, Run, RunNothing, Close, Publish
    <3>. QED
      BY <1>3, <3>1, <3>2 DEF QuietStep
  <2>3. Grows(View, View') /\ View'.said = View.said /\ publisher' = publisher
    BY <1>1, <2>1, <2>2, ExecView, ExecTypes DEF restVars
  <2>. QED
    BY <1>1, <1>2, <2>3 DEF StreamInv, streamVars
<1>4. CASE \/ CreateDb(i) \/ StartFsm(i) \/ RejectCreate(i)
           \/ ListenerStep(i) \/ Join(i)
  <2>1. fsm' = fsm
    BY <1>1, <1>4, ListenerTypes DEF CreateDb, StartFsm, RejectCreate
  <2>2. publisher' = publisher \/ c \notin joined
    <3>1. CASE StartFsm(i)
      BY <3>1 DEF StartFsm, StreamIInv, StreamTypeOK
    <3>2. CASE CreateDb(i) \/ RejectCreate(i) \/ ListenerStep(i) \/ Join(i)
      BY <1>1, <3>2, ListenerTypes DEF CreateDb, RejectCreate
    <3>. QED
      BY <1>4, <3>1, <3>2
  <2>. QED
    BY <1>1, <1>2, <2>1, <2>2, OtherView DEF StreamInv, streamVars
<1>. QED
  BY <1>3, <1>4 DEF ServiceStep

(* A word that is published is the next one of every stream that is        *)
(* joined.                                                                 *)
LEMMA PublishStreams ==
  ASSUME StreamIInv, NEW i \in Ids, PublishToAll(i), NEW c \in Clients
  PROVE  StreamInv(c)'
<1>1. /\ TypeOK /\ TypeOK' /\ BuildsInv /\ View \in Views /\ View' \in Views
      /\ heard[c] \in MessageOrNone /\ feed[c] \in Seq(Message)
      /\ Trail(heard[c], feed[c], c \in joined, View)
      /\ ExecStep(i) /\ Publish(i)
  BY ExecTypes, ViewType, HeardType
  DEF StreamIInv, IInv, BuildsInv, StreamsInv, StreamInv, PublishToAll, ExecStep
<1>2. /\ heard' = heard /\ joined' = joined
      /\ feed'[c] = IF c \in joined
                    THEN Append(feed[c], [id |-> i, status |-> fsm[i].state.type])
                    ELSE feed[c]
  BY DEF PublishToAll
<1>3. fsm[i].state.type \in StateTypes
  BY <1>1 DEF TypeOK, Machine, States
<1>4. /\ View.publisher = i /\ i \notin View.still /\ View'.publisher = i
      /\ View'.said = [View.said EXCEPT ![i] = Append(@, fsm[i].state.type)]
      /\ View'.still = View.still /\ View'.panicked = View.panicked
  BY <1>1, ExecView
<1>5. Grows(View, View')
  BY <1>1, <1>3, <1>4, PublishGrows
<1>6. CASE c \in joined
  <2>1. feed'[c] = Append(feed[c], [id |-> i, status |-> fsm[i].state.type])
    BY <1>2, <1>6
  <2>2. Trail(heard[c], feed'[c], c \in joined, View')
    BY <1>1, <1>3, <1>4, <1>6, <2>1, PublishTrail
  <2>. QED
    BY <1>2, <2>2 DEF StreamInv
<1>7. CASE c \notin joined
  <2>1. Trail(heard[c], feed[c], c \in joined, View')
    BY <1>1, <1>5, <1>7, ApartTrail
  <2>. QED
    BY <1>2, <1>7, <2>1 DEF StreamInv
<1>. QED
  BY <1>6, <1>7

(* A client takes the next word of its trail, or starts afresh. *)
LEMMA ClientStreams ==
  ASSUME StreamIInv, NEW d \in Clients,
         Notifications(d) \/ JoinStream(d) \/ Hear(d) \/ HangUp(d), NEW c \in Clients
  PROVE  /\ StreamInv(c)'
         /\ Hear(d) => /\ heard'[d] = Head(feed[d])
                       /\ heard[d].id # Nobody => FollowedBy(heard[d], Head(feed[d]), View)
<1>1. /\ View \in Views
      /\ heard[c] \in MessageOrNone /\ feed[c] \in Seq(Message)
      /\ Trail(heard[c], feed[c], c \in joined, View)
      /\ StreamTypeOK
  BY ViewType, HeardType DEF StreamIInv, IInv, BuildsInv, StreamsInv, StreamInv
<1>2. View' = View
  BY DEF Notifications, JoinStream, Hear, HangUp, vars, View, Live, Panicked
<1>3. CASE Notifications(d)
  <2>1. heard' = heard /\ feed' = feed /\ joined' = joined
    BY <1>3 DEF Notifications
  <2>2. ~Hear(d)
    BY <1>3 DEF Notifications, Hear, StreamIInv, StreamTypeOK
  <2>. QED
    BY <1>1, <1>2, <2>1, <2>2 DEF StreamInv
<1>4. CASE JoinStream(d)
  <2>1. heard' = heard /\ feed' = feed /\ (c \in joined => c \in joined')
    BY <1>4 DEF JoinStream
  <2>2. Trail(heard[c], feed[c], c \in joined', View)
    BY <1>1, <2>1, QuietTrail, SameViewGrows
  <2>3. ~Hear(d)
    BY <1>4 DEF JoinStream, Hear
  <2>. QED
    BY <1>2, <2>1, <2>2, <2>3 DEF StreamInv
<1>5. CASE Hear(d)
  <2>1. /\ feed[d] \in Seq(Message) /\ feed[d] # <<>> /\ joined' = joined
        /\ heard'[d] = Head(feed[d]) /\ feed'[d] = Tail(feed[d])
        /\ c # d => heard'[c] = heard[c] /\ feed'[c] = feed[c]
    BY <1>1, <1>5, HeardType DEF Hear, StreamTypeOK
  <2>2. Trail(heard[d], feed[d], d \in joined, View)
    BY DEF StreamIInv, StreamsInv, StreamInv
  <2>3. /\ Trail(Head(feed[d]), Tail(feed[d]), d \in joined, View)
        /\ heard[d].id # Nobody => FollowedBy(heard[d], Head(feed[d]), View)
    BY <2>1, <2>2, TakeTrail
  <2>4. CASE c = d
    BY <1>2, <2>1, <2>3, <2>4 DEF StreamInv
  <2>5. CASE c # d
    BY <1>1, <1>2, <2>1, <2>3, <2>5 DEF StreamInv
  <2>. QED
    BY <2>4, <2>5
<1>6. CASE HangUp(d)
  <2>1. ~Hear(d)
    BY <1>1, <1>6 DEF HangUp, Hear, StreamTypeOK
  <2>2. CASE c = d
    <3>1. heard'[c] = Nothing /\ feed'[c] = <<>>
      BY <1>1, <1>6, <2>2 DEF HangUp, StreamTypeOK
    <3>. QED
      BY <2>1, <3>1, FreshTrail DEF StreamInv, Nothing
  <2>3. CASE c # d
    <3>1. heard'[c] = heard[c] /\ feed'[c] = feed[c] /\ (c \in joined <=> c \in joined')
      BY <1>1, <1>6, <2>3 DEF HangUp, StreamTypeOK
    <3>2. Trail(heard[c], feed[c], c \in joined', View)
      BY <1>1, <3>1, QuietTrail, SameViewGrows
    <3>. QED
      BY <1>2, <2>1, <3>1, <3>2 DEF StreamInv
  <2>. QED
    BY <2>2, <2>3
<1>. QED
  BY <1>3, <1>4, <1>5, <1>6

(* When the endpoint is given back, a joined stream is owed the last word  *)
(* of the build, if it did not panic; a crash ends all streams.            *)
LEMMA OtherStreams ==
  ASSUME StreamIInv, ReleaseAll \/ CrashAll \/ UNCHANGED allVars, NEW c \in Clients
  PROVE  StreamInv(c)'
<1>1. /\ TypeOK /\ BuildsInv /\ View \in Views
      /\ heard[c] \in MessageOrNone /\ feed[c] \in Seq(Message)
      /\ Trail(heard[c], feed[c], c \in joined, View)
  BY ViewType, HeardType DEF StreamIInv, IInv, BuildsInv, StreamsInv, StreamInv
<1>2. CASE ReleaseAll
  <2>1. /\ View.publisher \in View.still
        /\ \/ View.publisher \in View.panicked
           \/ View.said[View.publisher][Len(View.said[View.publisher])] \in Terminal
    BY <1>1, <1>2, HolderIsDone DEF View, ReleaseAll
  <2>2. /\ View'.said = View.said /\ View'.still = View.still
        /\ View'.panicked = View.panicked /\ View' \in Views
    BY <1>1, <1>2, OtherTypes, ViewType DEF ReleaseAll, ReleaseEndpoint, View, Live, Panicked
  <2>3. Trail(heard[c], feed[c], c \in joined', View')
    BY <1>1, <2>1, <2>2, ReleaseTrail
  <2>. QED
    BY <1>2, <2>3 DEF StreamInv, ReleaseAll
<1>3. CASE CrashAll
  BY <1>3, FreshTrail DEF CrashAll, StreamInv, Nothing
<1>4. CASE UNCHANGED allVars
  <2>1. View' = View /\ heard' = heard /\ feed' = feed /\ joined' = joined
    BY <1>4 DEF allVars, vars, streamVars, View, Live, Panicked
  <2>. QED
    BY <1>1, <2>1 DEF StreamInv
<1>. QED
  BY <1>2, <1>3, <1>4

(* Every step of the service or of a client keeps the invariant. *)
LEMMA StreamStep == StreamIInv /\ [NextWithStreams]_allVars => StreamIInv'
<1> SUFFICES ASSUME StreamIInv, [NextWithStreams]_allVars PROVE StreamIInv'
  OBVIOUS
<1>1. IInv'
  BY StepIsIngests, StepIInv DEF StreamIInv
<1>2. StreamTypeOK'
  BY StepStreams DEF StreamIInv, IInv, BuildsInv
<1>3. StreamsInv'
  <2> SUFFICES ASSUME NEW c \in Clients PROVE StreamInv(c)'
    BY DEF StreamsInv
  <2>1. ASSUME NEW i \in Ids, ServiceStep(i) \/ PublishToAll(i) PROVE StreamInv(c)'
    BY <2>1, ServiceStreams, PublishStreams
  <2>2. ASSUME NEW d \in Clients,
               Notifications(d) \/ JoinStream(d) \/ Hear(d) \/ HangUp(d)
        PROVE  StreamInv(c)'
    BY <2>2, ClientStreams
  <2>. QED
    BY <2>1, <2>2, OtherStreams DEF NextWithStreams
<1>. QED
  BY <1>1, <1>2, <1>3 DEF StreamIInv

(* It holds when the service starts. *)
LEMMA StreamInit == InitWithStreams => StreamIInv
<1> SUFFICES ASSUME InitWithStreams PROVE StreamIInv
  OBVIOUS
<1>1. IInv /\ StreamTypeOK
  BY InitIInv, InitStreams DEF InitWithStreams
<1>2. StreamsInv
  BY FreshTrail DEF InitWithStreams, StreamsInv, StreamInv, Nothing
<1>. QED
  BY <1>1, <1>2 DEF StreamIInv

(* It is an invariant. *)
LEMMA StreamInductive == SafeSpec => []StreamIInv
  BY StreamInit, StreamStep, PTL DEF SafeSpec

(* Only Hear lets a client know more; hanging up lets it forget.           *)
LEMMA HeardByHear ==
  ASSUME StreamIInv, [NextWithStreams]_allVars, NEW c \in Clients,
         heard'[c] # heard[c], heard'[c] # Nothing
  PROVE  Hear(c) /\ fsm' = fsm
<1>1. \A i \in Ids : ~ServiceStep(i) /\ ~PublishToAll(i)
  BY DEF ServiceStep, PublishToAll, streamVars
<1>2. ~ReleaseAll /\ ~CrashAll /\ ~UNCHANGED allVars
  BY DEF ReleaseAll, CrashAll, allVars, streamVars
<1>3. PICK d \in Clients : Notifications(d) \/ JoinStream(d) \/ Hear(d) \/ HangUp(d)
  BY <1>1, <1>2 DEF NextWithStreams
<1>4. Hear(d)
  BY <1>3 DEF Notifications, JoinStream, HangUp, StreamIInv, StreamTypeOK
<1>5. c = d
  BY <1>4 DEF Hear, StreamIInv, StreamTypeOK
<1>. QED
  BY <1>4, <1>5 DEF Hear, vars

(* A stream is sent the next word of its trail. *)
LEMMA StepStreamNoGap ==
  ASSUME StreamIInv, [NextWithStreams]_allVars, NEW c \in Clients,
         heard[c] # heard'[c], heard[c] # Nothing, heard'[c] # Nothing
  PROVE  IF heard'[c].id = heard[c].id
         THEN \E k \in 1 .. Len(fsm[heard[c].id].published) - 1 :
                /\ fsm[heard[c].id].published[k] = heard[c].status
                /\ fsm[heard[c].id].published[k + 1] = heard'[c].status
         ELSE /\ ~Live(heard[c].id)
              /\ Panicked(heard[c].id) \/ heard[c].status \in Terminal
<1>1. Hear(c)
  BY HeardByHear
<1>2. heard[c].id \in Ids /\ heard[c].id # Nobody
  BY DEF StreamIInv, StreamTypeOK, Message, Ids, Nobody
<1>3. FollowedBy(heard[c], heard'[c], View)
  BY <1>1, <1>2, ClientStreams
<1>4. View.said[heard[c].id] = fsm[heard[c].id].published
  BY <1>2 DEF View
<1>5. CASE heard'[c].id = heard[c].id
  BY <1>3, <1>4, <1>5 DEF FollowedBy
<1>6. CASE heard'[c].id # heard[c].id
  <2>1. Ended(heard[c], View)
    BY <1>3, <1>6 DEF FollowedBy
  <2>. QED
    BY <1>6, <2>1 DEF Ended, View
<1>. QED
  BY <1>5, <1>6

(* A final status that some build did say is the last that it said. *)
LEMMA LastSaid ==
  ASSUME TypeOK, MachinesInv, NEW m \in MessageOrNone, m.id \in Ids,
         m.status \in Terminal, Said(m, View)
  PROVE  m.status = fsm[m.id].published[Len(fsm[m.id].published)]
<1>1. fsm[m.id] \in Machine /\ MachineInv(fsm[m.id], requests[m.id])
  BY DEF TypeOK, MachinesInv
<1>2. PICK k \in 1 .. Len(fsm[m.id].published) : fsm[m.id].published[k] = m.status
  BY DEF Said, View
<1>. QED
  BY <1>1, <1>2, TerminalWord

(* What a stream was sent, some build did say. *)
LEMMA HeardIsSaid ==
  ASSUME StreamIInv, NEW c \in Clients, heard[c].id \in Ids
  PROVE  Said(heard[c], View)
<1>1. Trail(heard[c], feed[c], c \in joined, View) /\ Len(feed[c]) \in Nat
  BY HeardType DEF StreamIInv, StreamsInv, StreamInv
<1>2. 0 \in 0 .. Len(feed[c]) /\ TrailAt(heard[c], feed[c], 0) = heard[c]
  BY <1>1 DEF TrailAt
<1>3. heard[c].id # Nobody
  BY DEF Ids, Nobody
<1>. QED
  BY <1>1, <1>2, <1>3 DEF Trail

(* A final status is the last of its build, for a stream as for a row,     *)
(* whichever build the row has it from.                                    *)
LEMMA Agree == StreamIInv => StreamAndTableAgree
<1> SUFFICES ASSUME StreamIInv, NEW c \in Clients, NEW i \in Ids,
                    heard[c].id = i, heard[c].status \in Terminal,
                    listener[i] = "done"
             PROVE  LET j == rows[i].from IN
                    /\ j \in Ids
                    /\ heard[c].status = fsm[i].published[Len(fsm[i].published)]
                    /\ rows[i].status = fsm[j].published[Len(fsm[j].published)]
  BY DEF StreamAndTableAgree
<1>1. TypeOK /\ MachinesInv /\ ListenerInv(i)
  BY DEF StreamIInv, IInv, BuildsInv, ListenersInv
<1>2. heard[c].status = fsm[i].published[Len(fsm[i].published)]
  BY <1>1, HeardIsSaid, HeardType, LastSaid DEF StreamIInv
<1>3. rows[i].from \in Ids
  BY <1>1 DEF TypeOK, Row, ListenerInv
<1>4. /\ Shown(i) \in MessageOrNone /\ Shown(i).id = rows[i].from
      /\ Shown(i).status = rows[i].status
  BY <1>1, ShownType
<1>5. rows[i].status \in Terminal /\ Said(Shown(i), View)
  BY <1>1 DEF ListenerInv
<1>6. Shown(i).status = fsm[Shown(i).id].published[Len(fsm[Shown(i).id].published)]
  BY <1>1, <1>3, <1>4, <1>5, LastSaid
<1>. QED
  BY <1>2, <1>3, <1>4, <1>6

(* From its first message on, a stream gives every status of a build in    *)
(* the order the build went through them, and turns to another build only  *)
(* when the one it was on has ended, however many clients come and go      *)
(* (notifications, src/src/api/gql.rs).                                    *)
THEOREM StreamsHaveNoGap == SafeSpec => StreamHasNoGap
<1>1. StreamIInv /\ [NextWithStreams]_allVars =>
        [\A c \in Clients :
           LET m == heard[c] IN
           m # heard'[c] /\ m # Nothing /\ heard'[c] # Nothing =>
             IF heard'[c].id = m.id
             THEN \E k \in 1 .. Len(fsm[m.id].published) - 1 :
                    /\ fsm[m.id].published[k] = m.status
                    /\ fsm[m.id].published[k + 1] = heard'[c].status
             ELSE ~Live(m.id) /\ (Panicked(m.id) \/ m.status \in Terminal)]_allVars
  BY StepStreamNoGap
<1>. QED
  BY <1>1, StreamInductive, PTL DEF SafeSpec, StreamHasNoGap

(* The two readers of the endpoint, a client's stream and the task that    *)
(* keeps the table: what each of them takes for an outcome is how the      *)
(* build that its word is from ended, whenever it joined.  A row can have  *)
(* the word of another build (the id of a message is ignored,              *)
(* src/src/api/indexes.rs); then, and only then, can the two differ.       *)
THEOREM StreamsAgree == SafeSpec => []StreamAndTableAgree
  BY StreamInductive, Agree, PTL

(* A stream with nothing queued is up to date. *)
LEMMA StreamNotInVain == StreamIInv => StreamNeverWaitsInVain
<1> SUFFICES ASSUME StreamIInv, NEW c \in Clients, heard[c] # Nothing, feed[c] = <<>>
             PROVE  \/ heard[c].status \in Terminal \/ Panicked(heard[c].id)
                    \/ c \in joined /\ Live(heard[c].id)
  BY DEF StreamNeverWaitsInVain
<1>1. /\ BuildsInv /\ heard[c] \in Message /\ heard[c].id # Nobody
      /\ Trail(heard[c], <<>>, c \in joined, View)
  BY DEF StreamIInv, IInv, StreamTypeOK, StreamsInv, StreamInv, Message, Ids, Nobody
<1>2. UpToDate(heard[c], c \in joined, View)
  BY <1>1 DEF Trail, TrailAt
<1>. QED
  BY <1>1, <1>2, UpToDateMeans

(* A client on an open subscription knows the outcome of the build it      *)
(* heard of, or is still connected to it; silence means a panic.           *)
THEOREM StreamsWaitForBuilds == SafeSpec => []StreamNeverWaitsInVain
  BY StreamInductive, StreamNotInVain, PTL
=============================================================================
