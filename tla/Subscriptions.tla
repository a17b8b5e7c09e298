---------------------------- MODULE Subscriptions ----------------------------
(***************************************************************************)
(* GraphQL subscriptions beside the listeners of Ingest: each client of    *)
(* /subscriptions has a SUB socket of its own on the endpoint and gets, as *)
(* a stream, the id and status of every message that arrives there         *)
(* (src/src/api/gql.rs, src/src/server.rs).  What a client sees there and  *)
(* what it finds in the table come by two ways that know nothing of each   *)
(* other.                                                                  *)
(*                                                                         *)
(* Ingest's steps are taken as they are; those of ZeroMQ reach the streams *)
(* too.  A socket is opened, and one that cannot be is closed, in one      *)
(* step; connecting goes on in the background, as for a listener.          *)
(***************************************************************************)
EXTENDS Ingest

CONSTANT Clients

VARIABLES stream,  \* of each client: "closed" or "open"
          joined,  \* the streams whose subscription the publisher has seen
          feed,    \* the messages queued at the stream's socket
          heard    \* history: the last message the client was sent

streamVars == <<stream, joined, feed, heard>>
allVars == <<vars, streamVars>>

Nothing == [id |-> Nobody, status |-> "NotAvailable"]

StreamTypeOK ==
  /\ stream \in [Clients -> {"closed", "open"}]
  /\ joined \subseteq {c \in Clients : stream[c] = "open"}
  /\ publisher = Nobody => joined = {}
  /\ feed \in [Clients -> Seq(Message)]
  /\ \A c \in Clients : stream[c] = "closed" => feed[c] = <<>> /\ heard[c] = Nothing
  /\ heard \in [Clients -> Message \cup {Nothing}]

InitWithStreams ==
  /\ Init
  /\ stream = [c \in Clients |-> "closed"]
  /\ joined = {}
  /\ feed = [c \in Clients |-> <<>>]
  /\ heard = [c \in Clients |-> Nothing]

-----------------------------------------------------------------------------
(* The steps of Ingest that have nothing to do with the streams. *)
QuietStep(i) == Transition(i) \/ Run(i) \/ RunNothing(i) \/ Panic(i) \/ Close(i)

ServiceStep(i) ==
  /\ \/ CreateDb(i) \/ StartFsm(i) \/ RejectCreate(i)
     \/ QuietStep(i) \/ ListenerStep(i) \/ Join(i)
  /\ UNCHANGED streamVars

(* A client subscribes: the socket is opened, and told the topic. *)
Notifications(c) ==
  /\ stream[c] = "closed"
  /\ stream' = [stream EXCEPT ![c] = "open"]
  /\ UNCHANGED <<vars, joined, feed, heard>>

JoinStream(c) ==
  /\ stream[c] = "open" /\ c \notin joined /\ publisher # Nobody
  /\ joined' = joined \cup {c}
  /\ UNCHANGED <<vars, stream, feed, heard>>

(* ZeroMQ queues a message at the sockets that are connected: the listeners *)
(* in Publish, and the streams.                                             *)
PublishToAll(i) ==
  /\ Publish(i)
  /\ feed' = [c \in Clients |->
                IF c \in joined
                THEN Append(feed[c], [id |-> i, status |-> fsm[i].state.type])
                ELSE feed[c]]
  /\ UNCHANGED <<stream, joined, heard>>

(* The map of the stream: a message becomes the id and the status it has,  *)
(* whichever build sent it.  (The first form leaves out the errors.)       *)
HearNoErrors(c) ==
  /\ feed[c] # <<>>
  /\ heard' = [heard EXCEPT ![c] = IF Head(feed[c]).status \in ErrorTypes THEN @ ELSE Head(feed[c])]
  /\ feed' = [feed EXCEPT ![c] = Tail(@)]
  /\ UNCHANGED <<vars, stream, joined>>

Hear(c) ==
  /\ feed[c] # <<>>
  /\ heard' = [heard EXCEPT ![c] = Head(feed[c])]
  /\ feed' = [feed EXCEPT ![c] = Tail(@)]
  /\ UNCHANGED <<vars, stream, joined>>

(* The client hangs up: the stream is dropped with its socket.  (In the    *)
(* first form the socket is left behind.)                                  *)
HangUpButStay(c) ==
  /\ stream[c] = "open"
  /\ stream' = [stream EXCEPT ![c] = "closed"]
  /\ heard' = [heard EXCEPT ![c] = Nothing]
  /\ UNCHANGED <<vars, joined, feed>>

HangUp(c) ==
  /\ stream[c] = "open"
  /\ stream' = [stream EXCEPT ![c] = "closed"]
  /\ joined' = joined \ {c}
  /\ feed' = [feed EXCEPT ![c] = <<>>]
  /\ heard' = [heard EXCEPT ![c] = Nothing]
  /\ UNCHANGED vars

(* The endpoint changes hands: a stream loses its peer, though not what it *)
(* was sent, and stays.  (The first form loses both.)                      *)
ReleaseAndForget ==
  /\ ReleaseEndpoint
  /\ joined' = {}
  /\ feed' = [c \in Clients |-> <<>>]
  /\ UNCHANGED <<stream, heard>>

ReleaseAll ==
  /\ ReleaseEndpoint
  /\ joined' = {}
  /\ UNCHANGED <<stream, feed, heard>>

CrashAll ==
  /\ Crash
  /\ stream' = [c \in Clients |-> "closed"]
  /\ joined' = {}
  /\ feed' = [c \in Clients |-> <<>>]
  /\ heard' = [c \in Clients |-> Nothing]

NextWithStreams ==
  \/ \E i \in Ids : ServiceStep(i) \/ PublishToAll(i)
  \/ \E c \in Clients : Notifications(c) \/ JoinStream(c) \/ Hear(c) \/ HangUp(c)
  \/ ReleaseAll
  \/ CrashAll

SafeSpec == InitWithStreams /\ [][NextWithStreams]_allVars

(* As in Ingest; and a stream that has something to say is served, which   *)
(* takes a client that reads.                                              *)
MachineStep(i) == PublishToAll(i) \/ (QuietStep(i) /\ UNCHANGED streamVars)

Fairness ==
  /\ \A i \in Ids : /\ WF_allVars(MachineStep(i))
                    /\ WF_allVars(ListenerStep(i) /\ UNCHANGED streamVars)
  /\ WF_allVars(ReleaseAll)
  /\ \A c \in Clients : WF_allVars(Hear(c))

StreamSpec == SafeSpec /\ Fairness

-----------------------------------------------------------------------------
(* A stream may start in the middle of a build, but from there on it gives *)
(* every status in the order the build went through them, and it turns to  *)
(* another build only when the one it was on has ended.                    *)
StreamHasNoGap ==
  [][\A c \in Clients :
       LET m == heard[c] IN
       m # heard'[c] /\ m # Nothing /\ heard'[c] # Nothing =>
         IF heard'[c].id = m.id
         THEN \E k \in 1 .. Len(fsm[m.id].published) - 1 :
                /\ fsm[m.id].published[k] = m.status
                /\ fsm[m.id].published[k + 1] = heard'[c].status
         ELSE ~Live(m.id) /\ (Panicked(m.id) \/ m.status \in Terminal)]_allVars

(* A client that has been told how build i ended, and then finds in the    *)
(* table a row i whose listener is through: the stream tells how build i   *)
(* ended, the row how the build j that its word is from did, both truly.   *)
(* So they contradict each other only if the row has another build's word  *)
(* (the listener came too late for its own, and ignores the id); that      *)
(* stream and listener joined at different moments is no cause.            *)
StreamAndTableAgree ==
  \A c \in Clients, i \in Ids :
    heard[c].id = i /\ heard[c].status \in Terminal /\ listener[i] = "done" =>
      LET j == rows[i].from IN
      /\ j \in Ids
      /\ heard[c].status = fsm[i].published[Len(fsm[i].published)]
      /\ rows[i].status = fsm[j].published[Len(fsm[j].published)]

(* A client that has been sent a status of a build, and is owed nothing,   *)
(* either knows how the build ended, or is joined to it while it runs; but *)
(* for a build that panicked, of which nobody hears again.                 *)
StreamNeverWaitsInVain ==
  \A c \in Clients : LET m == heard[c] IN
    m # Nothing /\ feed[c] = <<>> =>
      \/ m.status \in Terminal \/ Panicked(m.id)
      \/ c \in joined /\ Live(m.id)

(* A client whose subscription arrives before the end of a build hears the *)
(* end, although nobody waits for it: the build may be over and have given *)
(* the endpoint back by then.  Unless it hangs up, the build panics or the *)
(* process dies.                                                           *)
LastWordHeard ==
  \A c \in Clients, i \in Ids :
    c \in joined /\ publisher = i /\ Live(i) /\ fsm[i].state.type \notin Terminal ~>
      \/ heard[c].id = i /\ heard[c].status \in Terminal
      \/ stream[c] = "closed" \/ Panicked(i)
=============================================================================
