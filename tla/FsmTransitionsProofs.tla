------------------------ MODULE FsmTransitionsProofs ------------------------
(***************************************************************************)
(* Lemmas about the transition table and about what run() pushes, used by  *)
(* the proofs about one machine and about the service.                     *)
(***************************************************************************)
EXTENDS FsmTransitions, Sequences, Integers, TLAPS

(* One turn of the loop: what next makes of an event that run pushed in    *)
(* state s.  This is the transition table restricted to the pairs that     *)
(* occur; Failure is not among its results.                                *)
LEMMA TurnCases ==
  ASSUME NEW s \in States, NEW r, NEW e \in RunEvents(s, r)
  PROVE
    \/ /\ s.type = "DownloadingInProgress" /\ e = Event("DownloadingError", "none")
       /\ NextState(s, e) = [type |-> "DownloadingError", file |-> "none"]
    \/ /\ s.type = "DownloadingInProgress" /\ e = Event("DownloadingComplete", "raw")
       /\ NextState(s, e) = [type |-> "Downloaded", file |-> "raw"]
    \/ /\ s.type = "Downloaded" /\ r.data_source = "cosmogony"
       /\ e = Event("Process", s.file)
       /\ NextState(s, e) = [type |-> "ProcessingInProgress", file |-> s.file]
    \/ /\ s.type = "Downloaded" /\ r.data_source # "cosmogony"
       /\ e = Event("Index", s.file)
       /\ NextState(s, e) = [type |-> "IndexingInProgress", file |-> s.file]
    \/ /\ s.type = "ProcessingInProgress" /\ e = Event("ProcessingError", "none")
       /\ NextState(s, e) = [type |-> "ProcessingError", file |-> "none"]
    \/ /\ s.type = "ProcessingInProgress" /\ r.data_source = "cosmogony"
       /\ e = Event("ProcessingComplete", "cooked")
       /\ NextState(s, e) = [type |-> "Processed", file |-> "cooked"]
    \/ /\ s.type = "Processed" /\ e = Event("Index", s.file)
       /\ NextState(s, e) = [type |-> "IndexingInProgress", file |-> s.file]
    \/ /\ s.type = "IndexingInProgress" /\ e = Event("IndexingError", "none")
       /\ NextState(s, e) = [type |-> "IndexingError", file |-> "none"]
    \/ /\ s.type = "IndexingInProgress" /\ CanIndex(r)
       /\ e = Event("IndexingComplete", "none")
       /\ NextState(s, e) = [type |-> "Indexed", file |-> "none"]
    \/ /\ s.type = "Indexed" /\ e = Event("Validate", "none")
       /\ NextState(s, e) = [type |-> "ValidationInProgress", file |-> "none"]
    \/ /\ s.type = "ValidationInProgress" /\ e = Event("ValidationComplete", "none")
       /\ NextState(s, e) = [type |-> "Available", file |-> "none"]
    \/ /\ s.type \in ErrorTypes /\ e = Event("Reset", "none")
       /\ NextState(s, e) = [type |-> "NotAvailable", file |-> "none"]
<1> USE DEF NextState, CarriesPath, Event
<1>1. CASE s.type = "DownloadingInProgress"
  <2>1. e \in DownloadEvents(r)
    BY <1>1 DEF RunEvents, ErrorTypes
  <2>. QED
    BY <1>1, <2>1 DEF DownloadEvents, NextType
<1>2. CASE s.type = "Downloaded"
  <2>1. e = Event(AfterDownload(r), s.file)
    BY <1>2 DEF RunEvents, ErrorTypes
  <2>. QED
    BY <1>2, <2>1 DEF AfterDownload, Processors, NextType
<1>3. CASE s.type = "ProcessingInProgress"
  <2>1. e \in ProcessEvents(r)
    BY <1>3 DEF RunEvents, ErrorTypes
  <2>. QED
    BY <1>3, <2>1 DEF ProcessEvents, Processors, NextType
<1>4. CASE s.type = "Processed"
  <2>1. e = Event("Index", s.file)
    BY <1>4 DEF RunEvents, ErrorTypes
  <2>. QED
    BY <1>4, <2>1 DEF NextType
<1>5. CASE s.type = "IndexingInProgress"
  <2>1. e \in IndexEvents(r)
    BY <1>5 DEF RunEvents, ErrorTypes
  <2>. QED
    BY <1>5, <2>1 DEF IndexEvents, NextType
<1>6. CASE s.type = "Indexed"
  <2>1. e = Event("Validate", "none")
    BY <1>6 DEF RunEvents, ErrorTypes
  <2>. QED
    BY <1>6, <2>1 DEF NextType
<1>7. CASE s.type = "ValidationInProgress"
  <2>1. e = Event("ValidationComplete", "none")
    BY <1>7 DEF RunEvents, ErrorTypes
  <2>. QED
    BY <1>7, <2>1 DEF NextType
<1>8. CASE s.type \in ErrorTypes
  <2>1. e = Event("Reset", "none")
    BY <1>8 DEF RunEvents, ErrorTypes, ErrorEvents
  <2>. QED
    BY <1>8, <2>1 DEF NextType, Resettable, ResetsTo, ErrorTypes
<1>9. CASE s.type \in {"NotAvailable", "Available", "Failure"}
  BY <1>9 DEF RunEvents, ErrorTypes
<1>. QED
  BY <1>1, <1>2, <1>3, <1>4, <1>5, <1>6, <1>7, <1>8, <1>9
  DEF States, StateTypes

(* The states in which run pushes nothing. *)
LEMMA SilentStates ==
  ASSUME NEW s \in States, NEW r, RunEvents(s, r) = {}, s.type # "Failure"
  PROVE  s.type \in Terminal
  BY DEF RunEvents, DownloadEvents, ProcessEvents, IndexEvents, ErrorEvents,
         States, StateTypes, ErrorTypes, Terminal

(* What run pushes is an event, and completes an import only from the      *)
(* indexing stage.                                                         *)
LEMMA RunEventsType ==
  ASSUME NEW s \in States, NEW r, NEW e \in RunEvents(s, r)
  PROVE  /\ e \in Events
         /\ s.type \notin Terminal
         /\ e.type = "IndexingComplete" =>
              /\ s.type = "IndexingInProgress" /\ CanIndex(r)
              /\ e = Event("IndexingComplete", "none")
  BY TurnCases DEF Events, EventTypes, Event, Files, ErrorTypes, Terminal, States

(* next always arrives in a state, whatever it is given.                   *)
LEMMA NextStateType ==
  ASSUME NEW s \in States, NEW e \in Events
  PROVE  NextState(s, e) \in States
<1>1. NextType(s.type, e.type) \in StateTypes
  BY DEF NextType, StateTypes, ErrorTypes, Resettable, ResetsTo
<1>. QED
  BY <1>1 DEF NextState, States, Events, Files

(* There are nine stages, and Failure is none. *)
LEMMA ProgressType == \A t \in StateTypes \ {"Failure"} : Progress[t] \in 1 .. 9
  BY DEF Progress, StateTypes, ErrorTypes

(* Each turn of the loop leads further, never back. *)
LEMMA TurnAdvances ==
  ASSUME NEW s \in States, NEW r, NEW e \in RunEvents(s, r)
  PROVE  Progress[s.type] < Progress[NextState(s, e).type]
  BY TurnCases DEF Progress, ErrorTypes, Terminal, States

(* What a build announces goes through the stages one way.  There are nine *)
(* stages, so a build that has come to the n-th has said at most n words.  *)
Advancing(words) ==
  /\ \A k \in 1 .. Len(words) : words[k] # "Failure"
  /\ \A k \in 1 .. Len(words) - 1 : Progress[words[k]] < Progress[words[k + 1]]
  /\ words # <<>> => Len(words) <= Progress[words[Len(words)]]

(* A word of a later stage may be added. *)
LEMMA AdvanceAppend ==
  ASSUME NEW words \in Seq(StateTypes), Advancing(words),
         NEW t \in StateTypes \ {"Failure"},
         words # <<>> => Progress[words[Len(words)]] < Progress[t]
  PROVE  Advancing(Append(words, t))
<1> DEFINE more == Append(words, t)
<1>1. /\ Len(words) \in Nat /\ Len(more) = Len(words) + 1 /\ more[Len(more)] = t
      /\ \A k \in 1 .. Len(words) : more[k] = words[k]
  OBVIOUS
<1>2. 1 .. Len(more) = (1 .. Len(words)) \cup {Len(more)} /\ 1 .. Len(more) - 1 = 1 .. Len(words)
  BY <1>1
<1> HIDE DEF more
<1>3. \A k \in 1 .. Len(more) : more[k] # "Failure"
  BY <1>1, <1>2 DEF Advancing
<1>4. ASSUME NEW k \in 1 .. Len(more) - 1
      PROVE  Progress[more[k]] < Progress[more[k + 1]]
  <2>1. CASE k = Len(words)
    BY <1>1, <1>2, <1>4, <2>1
  <2>2. CASE k # Len(words)
    <3>1. k \in 1 .. Len(words) - 1 /\ k \in 1 .. Len(words) /\ k + 1 \in 1 .. Len(words)
      BY <1>1, <1>4, <2>2
    <3>. QED
      BY <1>1, <3>1 DEF Advancing
  <2>. QED
    BY <2>1, <2>2
<1>5. Len(more) <= Progress[t]
  <2>1. CASE words = <<>>
    BY <1>1, <2>1, ProgressType
  <2>2. CASE words # <<>>
    <3>1. words[Len(words)] \in StateTypes \ {"Failure"}
      BY <1>1, <2>2 DEF Advancing
    <3>2. Progress[words[Len(words)]] \in 1 .. 9 /\ Progress[t] \in 1 .. 9
      BY <3>1, ProgressType
    <3>. QED
      BY <1>1, <2>2, <3>2 DEF Advancing
  <2>. QED
    BY <2>1, <2>2
<1>6. Advancing(more)
  BY <1>1, <1>3, <1>4, <1>5 DEF Advancing
<1>. QED
  BY <1>6 DEF more

(* A build says at most nine words. *)
LEMMA NineWords ==
  ASSUME NEW words \in Seq(StateTypes), Advancing(words)
  PROVE  Len(words) <= 9
<1>1. Len(words) \in Nat
  OBVIOUS
<1>2. CASE words = <<>>
  BY <1>2
<1>3. CASE words # <<>>
  <2>1. words[Len(words)] \in StateTypes \ {"Failure"}
    BY <1>1, <1>3 DEF Advancing
  <2>2. Progress[words[Len(words)]] \in 1 .. 9
    BY <2>1, ProgressType
  <2>. QED
    BY <1>1, <1>3, <2>2 DEF Advancing
<1>. QED
  BY <1>2, <1>3
=============================================================================
