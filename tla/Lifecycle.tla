----------------------------- MODULE Lifecycle ------------------------------
(***************************************************************************)
(* What building one index promises to whoever listens to its state, with  *)
(* the pipeline of stages hidden: the build goes on for a while, the data  *)
(* gets into Elasticsearch or it does not, and the build then announces    *)
(* exactly that, once, as its last word: "available" if the data is there, *)
(* "unavailable" if it is not.  A build may also die without a word, in    *)
(* which case nothing is said about the data.                              *)
(***************************************************************************)
VARIABLES stage,   \* what the listeners of this build have been told
          indexed  \* whether the data is in Elasticsearch

lifeVars == <<stage, indexed>>

LifeInit == stage = "building" /\ indexed = FALSE

(* The indexing program has done its work; nobody has been told yet. *)
ImportData ==
  /\ stage = "building"
  /\ indexed' = TRUE
  /\ UNCHANGED stage

AnnounceAvailable ==
  /\ stage = "building" /\ indexed
  /\ stage' = "available"
  /\ UNCHANGED indexed

AnnounceFailure ==
  /\ stage = "building" /\ ~indexed
  /\ stage' = "unavailable"
  /\ UNCHANGED indexed

(* The task dies, possibly right after the indexing program succeeded. *)
Abort ==
  /\ stage = "building"
  /\ stage' = "aborted"
  /\ indexed' \in {indexed, TRUE}

LifeNext == ImportData \/ AnnounceAvailable \/ AnnounceFailure \/ Abort

LifeSafe == LifeInit /\ [][LifeNext]_lifeVars

(* A build does not go on forever: something is announced, or it dies. *)
LifeSpec ==
  LifeSafe /\ WF_lifeVars(AnnounceAvailable \/ AnnounceFailure \/ Abort)
=============================================================================
