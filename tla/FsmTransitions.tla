--------------------------- MODULE FsmTransitions ---------------------------
(***************************************************************************)
(* The pure part of the index-building state machine of src/src/fsm/mod.rs: *)
(* the state and event types, the transition table of FSM::next, and, for  *)
(* every state, the events FSM::run may push onto the queue.  The machine  *)
(* itself (FSM.tla) and the service it runs in (Ingest.tla) both build on  *)
(* these operators.                                                        *)
(*                                                                         *)
(* Durations, timestamps and error texts are dropped.  A path is one of    *)
(* three values: "raw" is what the download stage left in the working      *)
(* directory, "cooked" what the cosmogony program made of it, and "none"   *)
(* stands in a state or an event that carries no path.                     *)
(***************************************************************************)

Files == {"none", "raw", "cooked"}

ErrorTypes ==
  {"DownloadingError", "ProcessingError", "IndexingError", "ValidationError"}

StateTypes == ErrorTypes \cup
  {"NotAvailable", "DownloadingInProgress", "Downloaded",
   "ProcessingInProgress", "Processed", "IndexingInProgress", "Indexed",
   "ValidationInProgress", "Available", "Failure"}

EventTypes == ErrorTypes \cup
  {"Download", "DownloadingComplete", "Process", "ProcessingComplete",
   "Index", "IndexingComplete", "Validate", "ValidationComplete", "Reset"}

States == [type : StateTypes, file : Files]
Events == [type : EventTypes, file : Files]

(* Four of the states hold a path (file_path). *)
CarriesPath ==
  {"Downloaded", "ProcessingInProgress", "Processed", "IndexingInProgress"}

(* In these states run() pushes nothing, and at them a listener stops. *)
Terminal == {"NotAvailable", "Available"}

Event(t, f) == [type |-> t, file |-> f]

(* FSM::new leaves the machine here; nothing has been published yet. *)
InitialState == [type |-> "NotAvailable", file |-> "none"]

(* The states next() leaves by a Reset; the second form forgets one of them. *)
ResettableButProcessing == ErrorTypes \ {"ProcessingError"}
Resettable == ErrorTypes

(* Where a Reset leads: to the end.  (The first form tries again.) *)
ResetsToRetry == "DownloadingInProgress"
ResetsTo == "NotAvailable"

(***************************************************************************)
(* The match of FSM::next on (state, event): the type of the next state.   *)
(* Every pair that is not listed ends in Failure.                          *)
(***************************************************************************)
NextType(s, e) ==
  CASE s = "NotAvailable" /\ e = "Download" -> "DownloadingInProgress"
    [] s = "DownloadingInProgress" /\ e = "DownloadingError" -> "DownloadingError"
    [] s = "DownloadingInProgress" /\ e = "DownloadingComplete" -> "Downloaded"
    [] s = "Downloaded" /\ e = "Process" -> "ProcessingInProgress"
    [] s = "ProcessingInProgress" /\ e = "ProcessingError" -> "ProcessingError"
    [] s = "ProcessingInProgress" /\ e = "ProcessingComplete" -> "Processed"
    [] s \in {"Processed", "Downloaded"} /\ e = "Index" -> "IndexingInProgress"
    [] s = "IndexingInProgress" /\ e = "IndexingError" -> "IndexingError"
    [] s = "IndexingInProgress" /\ e = "IndexingComplete" -> "Indexed"
    [] s = "Indexed" /\ e = "Validate" -> "ValidationInProgress"
    [] s = "ValidationInProgress" /\ e = "ValidationError" -> "ValidationError"
    [] s = "ValidationInProgress" /\ e = "ValidationComplete" -> "Available"
    [] s \in Resettable /\ e = "Reset" -> ResetsTo
    [] OTHER -> "Failure"

(* FSM::next: a state that holds a path takes it from the event. *)
NextState(s, e) ==
  LET t == NextType(s.type, e.type)
  IN  [type |-> t, file |-> IF t \in CarriesPath THEN e.file ELSE "none"]

-----------------------------------------------------------------------------
(***************************************************************************)
(* What run() may push, by state.  A request is the pair of strings the    *)
(* client sent, [index_type, data_source]; both are free text.             *)
(***************************************************************************)

(* The data sources the download arm knows; "cosmogony" downloads OSM data. *)
Downloaders == {"cosmogony", "bano", "osm", "ntfs"}

(* Only cosmogony has a processing stage. *)
Processors == {"cosmogony"}

(* The flags osm2mimir gets for an index type; other types are refused.    *)
(* The first form asks for points of interest too, which the code's FIXME  *)
(* leaves for later.                                                       *)
OsmFlagsWithPoi ==
  [admins |-> {"--import-admin"}, streets |-> {"--import-way", "--import-poi"}]
OsmFlags == [admins |-> {"--import-admin"}, streets |-> {"--import-way"}]

(* The indexing arm reaches a XXX2mimir program for these requests. *)
CanIndex(r) ==
  \/ r.data_source \in {"bano", "cosmogony", "ntfs"}
  \/ r.data_source = "osm" /\ r.index_type \in DOMAIN OsmFlags

(* A stage that calls out may fail in any case; it succeeds only if it     *)
(* knows the request.  (The first form lets an unknown data source fall    *)
(* through the download arm without an event.)                             *)
DownloadEventsNoDefault(r) ==
  IF r.data_source \in Downloaders
  THEN {Event("DownloadingError", "none"), Event("DownloadingComplete", "raw")}
  ELSE {}

DownloadEvents(r) ==
  {Event("DownloadingError", "none")} \cup
  (IF r.data_source \in Downloaders
   THEN {Event("DownloadingComplete", "raw")} ELSE {})

ProcessEvents(r) ==
  {Event("ProcessingError", "none")} \cup
  (IF r.data_source \in Processors
   THEN {Event("ProcessingComplete", "cooked")} ELSE {})

IndexEvents(r) ==
  {Event("IndexingError", "none")} \cup
  (IF CanIndex(r) THEN {Event("IndexingComplete", "none")} ELSE {})

(* After the download, cosmogony needs the extra processing stage (which   *)
(* the first form skips).                                                  *)
AfterDownloadDirect(r) == "Index"
AfterDownload(r) == IF r.data_source \in Processors THEN "Process" ELSE "Index"

(* The four error arms of run(); the first form lets the machine stay there. *)
ErrorEventsNone == {}
ErrorEvents == {Event("Reset", "none")}

(* All of run(): the events it may push in state s for request r. *)
RunEvents(s, r) ==
  CASE s.type = "DownloadingInProgress" -> DownloadEvents(r)
    [] s.type = "Downloaded" -> {Event(AfterDownload(r), s.file)}
    [] s.type = "ProcessingInProgress" -> ProcessEvents(r)
    [] s.type = "Processed" -> {Event("Index", s.file)}
    [] s.type = "IndexingInProgress" -> IndexEvents(r)
    [] s.type = "Indexed" -> {Event("Validate", "none")}
    [] s.type = "ValidationInProgress" -> {Event("ValidationComplete", "none")}
    [] s.type \in ErrorTypes -> ErrorEvents
    [] OTHER -> {}

(***************************************************************************)
(* run() unwraps two results that may be errors: the time elapsed since    *)
(* the stage started (an error if the system clock was set back), and the  *)
(* error output of a program (an error if it is not UTF-8).  Both happen   *)
(* only in an arm that has called out, so such an arm may also panic.      *)
(***************************************************************************)
MayPanic(s, r) ==
  \/ s.type = "DownloadingInProgress" /\ r.data_source \in Downloaders
  \/ s.type = "ProcessingInProgress" /\ r.data_source \in Processors
  \/ s.type = "IndexingInProgress" /\ CanIndex(r)

(* The import a successful indexing arm makes in Elasticsearch. *)
Import(s, r) ==
  [tool  |-> r.data_source,
   input |-> s.file,
   flags |-> IF r.data_source = "osm" THEN OsmFlags[r.index_type] ELSE {}]

(* How far a build is when it announces a state.  This is what the names   *)
(* of the states say, for the properties; nothing in the code counts.      *)
Progress ==
  [DownloadingInProgress |-> 1, Downloaded |-> 2, ProcessingInProgress |-> 3,
   Processed |-> 4, IndexingInProgress |-> 5, Indexed |-> 6, ValidationInProgress |-> 7,
   DownloadingError |-> 8, ProcessingError |-> 8, IndexingError |-> 8, ValidationError |-> 8,
   NotAvailable |-> 9, Available |-> 9]
=============================================================================
