-------------------------- MODULE MCSubscriptions --------------------------
(***************************************************************************)
(* Two runs.  A build with every outcome and one that fails after it: how  *)
(* a stream passes from one to the other, and what it says beside a row    *)
(* which either may have written.  And what must happen in the end, with a *)
(* crash, in two scenarios: one build and a stream, or two builds of data  *)
(* that cannot be downloaded and no stream.                                *)
(***************************************************************************)
EXTENDS Subscriptions

MCSupported == {[index_type |-> "addresses", data_source |-> "bano"]}

MCUnknown == {[index_type |-> "addresses", data_source |-> "openaddress"]}

MCBoth == MCSupported \cup MCUnknown

(* No request but the first is for data that can be downloaded. *)
MCInitLive ==
  /\ InitWithStreams
  /\ \A i \in Ids \ {1} : requests[i] \in MCUnknown

(* The first request is for data that can be downloaded, the other is not. *)
MCInitFirst == MCInitLive /\ requests[1] \in MCSupported

MCSupportedFirst == MCInitFirst /\ [][NextWithStreams]_allVars

MCLiveSpec == MCInitLive /\ [][NextWithStreams]_allVars /\ Fairness

(* Bound: the first of two builds may panic, and the second one follows;   *)
(* the second, which nothing follows, does not.                            *)
MCOnlyFirstPanics == MaxIndexes = 2 => ~Panicked(2)

(* Bound: the second index is made beside a build that cannot download and *)
(* while nobody subscribes.  That holds back requests and clients, which   *)
(* have no fairness, and no step that has.                                 *)
MCSecondIsAlone ==
  phase'[2] # "absent" => /\ requests[1] \in MCUnknown
                          /\ \A c \in Clients : stream'[c] = "closed"
=============================================================================
