--------------------------- MODULE SettingsProofs ---------------------------
(***************************************************************************)
(* Proofs about Settings, for any files, environments and command lines.   *)
(***************************************************************************)
EXTENDS Settings, TLAPS

(* The keys but one, whose value is always from a variable. *)
Plain == Keys \ {"database.url"}

(* With n layers merged, each setting is from the last that has it, and    *)
(* what has no value is in none.                                           *)
UpTo(n) ==
  /\ \A k \in Plain \cap DOMAIN config : \E m \in 1 .. n :
       /\ config[k] = Layers[m] /\ Says(input, Layers[m], k)
       /\ \A j \in m + 1 .. n : ~Says(input, Layers[j], k)
  /\ \A k \in Plain \ DOMAIN config : \A m \in 1 .. n : ~Says(input, Layers[m], k)

UrlInv ==
  pc \in {"cli", "freeze", "done"} =>
    /\ "database.url" \in DOMAIN config
    /\ config["database.url"] = DatabaseVariable(input)

(* The inductive invariant. *)
IInv ==
  /\ TypeOK
  /\ \A n \in 1 .. 6 : pc = Layers[n] => UpTo(n - 1)
  /\ pc \in {"freeze", "done"} => UpTo(6)
  /\ UrlInv
  /\ RefusedForCause

-----------------------------------------------------------------------------
(* The list of layers, and what each of them says. *)
LEMMA LayersAre ==
  /\ DOMAIN Layers = 1 .. 6 /\ Len(Layers) = 6
  /\ Layers[1] = "default" /\ Layers[2] = "mode" /\ Layers[3] = "local"
  /\ Layers[4] = "app" /\ Layers[5] = "url" /\ Layers[6] = "cli"
  /\ {Layers[n] : n \in DOMAIN Layers} = {"default", "mode", "local", "app", "url", "cli"}
  BY DEF Layers

LEMMA WhatLayersSay ==
  ASSUME NEW in, NEW k
  PROVE  /\ Says(in, "default", k) <=> k \in in.files["default"].keys
         /\ Says(in, "mode", k) <=> k \in in.files[Mode(in)].keys
         /\ Says(in, "local", k) <=> k \in in.files["local"].keys
         /\ Says(in, "app", k) <=> k \in in.app
         /\ ~Says(in, "url", k)
         /\ Says(in, "cli", k) <=> \/ k = "service.host" /\ in.host
                                   \/ k = "service.port" /\ in.port = "number"
  BY DEF Says

LEMMA FilesHaveKeys ==
  ASSUME NEW in \in Input
  PROVE  /\ Mode(in) \in Modes
         /\ \A f \in Files : in.files[f].keys \subseteq Keys
         /\ in.app \subseteq Keys
  BY ModesAssumption DEF Input, Mode, Files, Unset

(* One more layer on top. *)
LEMMA OneMore ==
  ASSUME NEW n \in 0 .. 5, UpTo(n), NEW K \in SUBSET Keys, NEW v,
         input' = input, config' = Merged(config, K, v),
         \A k \in Plain : Says(input, Layers[n + 1], k) <=> k \in K,
         v = Layers[n + 1] \/ K \cap Plain = {}
  PROVE  UpTo(n + 1)'
  <1>0. /\ DOMAIN config' = DOMAIN config \cup K
        /\ \A k \in K : config'[k] = v
        /\ \A k \in DOMAIN config \ K : config'[k] = config[k]
    BY DEF Merged
  <1>1. ASSUME NEW k \in Plain, k \in DOMAIN config'
        PROVE  \E m \in 1 .. n + 1 :
                 /\ config'[k] = Layers[m] /\ Says(input, Layers[m], k)
                 /\ \A j \in m + 1 .. n + 1 : ~Says(input, Layers[j], k)
    <2>1. CASE k \in K
      <3>1. config'[k] = Layers[n + 1] /\ Says(input, Layers[n + 1], k)
        BY <1>1, <2>1, <1>0
      <3> QED BY <3>1
    <2>2. CASE k \notin K
      <3>1. k \in DOMAIN config /\ config'[k] = config[k]
        BY <1>1, <2>2, <1>0
      <3>2. PICK m \in 1 .. n :
              /\ config[k] = Layers[m] /\ Says(input, Layers[m], k)
              /\ \A j \in m + 1 .. n : ~Says(input, Layers[j], k)
        BY <1>1, <3>1 DEF UpTo
      <3>3. ~Says(input, Layers[n + 1], k)
        BY <1>1, <2>2
      <3>4. \A j \in m + 1 .. n + 1 : j \in m + 1 .. n \/ j = n + 1
        OBVIOUS
      <3>5. \A j \in m + 1 .. n + 1 : ~Says(input, Layers[j], k)
        BY <3>2, <3>3, <3>4
      <3> QED BY <3>1, <3>2, <3>5
    <2> QED BY <2>1, <2>2
  <1>2. ASSUME NEW k \in Plain, k \notin DOMAIN config', NEW m \in 1 .. n + 1
        PROVE  ~Says(input, Layers[m], k)
    <2>1. k \notin K /\ k \notin DOMAIN config
      BY <1>2, <1>0
    <2>2. CASE m = n + 1
      BY <1>2, <2>1, <2>2
    <2>3. CASE m \in 1 .. n
      BY <1>2, <2>1, <2>3 DEF UpTo
    <2> QED BY <2>2, <2>3
  <1> QED BY <1>1, <1>2 DEF UpTo
-----------------------------------------------------------------------------
LEMMA InitHolds == Init => IInv
  <1> SUFFICES ASSUME Init PROVE IInv
    OBVIOUS
  <1>1. TypeOK
    BY InputsAssumption, LayersAre DEF Init, TypeOK
  <1>2. UpTo(0)
    BY DEF Init, UpTo
  <1>3. \A n \in 1 .. 6 : pc = Layers[n] => n = 1
    BY LayersAre DEF Init
  <1> QED BY <1>1, <1>2, <1>3 DEF Init, IInv, UrlInv, RefusedForCause, CauseElsewhere

(* A layer is merged. *)
LEMMA MergeKeeps ==
  ASSUME IInv, NEW n \in 1 .. 6, pc = Layers[n],
         NEW K \in SUBSET Keys, NEW v, NEW next, Merge(K, v, next),
         next = IF n = 6 THEN "freeze" ELSE Layers[n + 1],
         \A k \in Plain : Says(input, Layers[n], k) <=> k \in K,
         v = Layers[n] \/ (K \cap Plain = {} /\ v \in DatabaseVariables),
         n = 5 => K = {"database.url"} /\ v = DatabaseVariable(input),
         n = 6 => "database.url" \notin K
  PROVE  IInv'
  <1>1. config' = Merged(config, K, v) /\ pc' = next /\ input' = input
    BY DEF Merge
  <1>2. /\ DOMAIN config' = DOMAIN config \cup K
        /\ \A k \in K : config'[k] = v
        /\ \A k \in DOMAIN config \ K : config'[k] = config[k]
    BY <1>1 DEF Merged
  <1>3. v \in {Layers[m] : m \in DOMAIN Layers} \cup DatabaseVariables
    BY LayersAre
  <1>4. pc' \in {"mode", "local", "app", "url", "cli", "freeze"}
    BY <1>1, LayersAre
  <1>5. TypeOK'
    BY <1>1, <1>2, <1>3, <1>4, LayersAre DEF IInv, TypeOK
  <1>6. UpTo(n)'
    <2>1. n - 1 \in 0 .. 5 /\ UpTo(n - 1) /\ (n - 1) + 1 = n
      BY DEF IInv
    <2> QED BY <1>1, <2>1, OneMore
  <1>7. \A m \in 1 .. 6 : pc' = Layers[m] => m = n + 1
    BY <1>1, LayersAre
  <1>8. pc' \in {"freeze", "done"} => n = 6
    BY <1>1, LayersAre
  <1>9. UrlInv'
    <2>1. CASE n = 5
      BY <1>1, <1>2, <2>1 DEF UrlInv
    <2>2. CASE n = 6
      BY <1>1, <1>2, <2>2, LayersAre DEF IInv, UrlInv
    <2>3. CASE n \in 1 .. 4
      BY <1>1, <2>3, LayersAre DEF UrlInv
    <2> QED BY <2>1, <2>2, <2>3
  <1>10. RefusedForCause'
    BY <1>4 DEF RefusedForCause, CauseElsewhere
  <1>11. \A m \in 1 .. 6 : (pc = Layers[m] => UpTo(m - 1))'
    <2> SUFFICES ASSUME NEW m \in 1 .. 6, pc' = Layers[m] PROVE UpTo(m - 1)'
      OBVIOUS
    <2>1. m - 1 = n
      BY <1>7
    <2> QED BY <1>6, <2>1
  <1>12. (pc \in {"freeze", "done"} => UpTo(6))'
    BY <1>6, <1>8
  <1> QED BY <1>5, <1>9, <1>10, <1>11, <1>12 DEF IInv

(* There are no settings, and there is a cause. *)
LEMMA FailKeeps ==
  ASSUME IInv, Fail, RefusedForCause'
  PROVE  IInv'
  <1>1. pc' = "failed" /\ input' = input /\ config' = config
    BY DEF Fail
  <1>2. TypeOK'
    BY <1>1 DEF IInv, TypeOK
  <1>3. \A n \in 1 .. 6 : pc' # Layers[n]
    BY <1>1, LayersAre
  <1> QED BY <1>1, <1>2, <1>3 DEF IInv, UrlInv
-----------------------------------------------------------------------------
LEMMA DefaultKeeps == IInv /\ MergeDefault => IInv'
  <1> SUFFICES ASSUME IInv, MergeDefault PROVE IInv'
    OBVIOUS
  <1> DEFINE f == input.files["default"]
  <1>1. pc = Layers[1] /\ input \in Input /\ f.keys \subseteq Keys
    BY LayersAre, FilesHaveKeys DEF MergeDefault, IInv, TypeOK, Files
  <1>2. CASE f.readable
    <2>1. Merge(f.keys, "default", "mode")
      BY <1>2 DEF MergeDefault, MergeFile
    <2> HIDE DEF f
    <2>2. \A k \in Plain : Says(input, Layers[1], k) <=> k \in f.keys
      BY LayersAre, WhatLayersSay DEF f
    <2> QED BY <1>1, <2>1, <2>2, LayersAre, MergeKeeps
  <1>3. CASE ~f.readable
    <2>1. Fail
      BY <1>3 DEF MergeDefault, MergeFile
    <2>2. RefusedForCause'
      BY <1>3, <2>1 DEF Fail, RefusedForCause, CauseElsewhere
    <2> QED BY <2>1, <2>2, FailKeeps
  <1> QED BY <1>2, <1>3

LEMMA ModeKeeps == IInv /\ MergeMode => IInv'
  <1> SUFFICES ASSUME IInv, MergeMode PROVE IInv'
    OBVIOUS
  <1> DEFINE f == input.files[Mode(input)]
  <1>1. pc = Layers[2] /\ input \in Input /\ f.keys \subseteq Keys
    BY LayersAre, FilesHaveKeys DEF MergeMode, IInv, TypeOK, Files
  <1>2. CASE f.readable
    <2>1. Merge(f.keys, "mode", "local")
      BY <1>2 DEF MergeMode, MergeFile
    <2> HIDE DEF f
    <2>2. \A k \in Plain : Says(input, Layers[2], k) <=> k \in f.keys
      BY LayersAre, WhatLayersSay DEF f
    <2> QED BY <1>1, <2>1, <2>2, LayersAre, MergeKeeps
  <1>3. CASE ~f.readable
    <2>1. Fail
      BY <1>3 DEF MergeMode, MergeFile
    <2>2. RefusedForCause'
      BY <1>3, <2>1 DEF Fail, RefusedForCause, CauseElsewhere
    <2> QED BY <2>1, <2>2, FailKeeps
  <1> QED BY <1>2, <1>3

LEMMA LocalKeeps == IInv /\ MergeLocal => IInv'
  <1> SUFFICES ASSUME IInv, MergeLocal PROVE IInv'
    OBVIOUS
  <1> DEFINE f == input.files["local"]
  <1>1. pc = Layers[3] /\ input \in Input /\ f.keys \subseteq Keys
    BY LayersAre, FilesHaveKeys DEF MergeLocal, IInv, TypeOK, Files
  <1>2. CASE f.readable \/ ~f.there
    <2>1. Merge(f.keys, "local", "app")
      BY <1>2 DEF MergeLocal, MergeFile
    <2> HIDE DEF f
    <2>2. \A k \in Plain : Says(input, Layers[3], k) <=> k \in f.keys
      BY LayersAre, WhatLayersSay DEF f
    <2> QED BY <1>1, <2>1, <2>2, LayersAre, MergeKeeps
  <1>3. CASE ~f.readable /\ f.there
    <2>1. Fail
      BY <1>3 DEF MergeLocal, MergeFile
    <2>2. RefusedForCause'
      BY <1>3, <2>1 DEF Fail, RefusedForCause, CauseElsewhere
    <2> QED BY <2>1, <2>2, FailKeeps
  <1> QED BY <1>2, <1>3

LEMMA AppKeeps == IInv /\ MergeApp => IInv'
  <1> SUFFICES ASSUME IInv, MergeApp PROVE IInv'
    OBVIOUS
  <1>1. pc = Layers[4] /\ input.app \subseteq Keys /\ Merge(input.app, "app", "url")
    BY LayersAre, FilesHaveKeys DEF MergeApp, IInv, TypeOK
  <1>2. \A k \in Plain : Says(input, Layers[4], k) <=> k \in input.app
    BY LayersAre, WhatLayersSay
  <1> QED BY <1>1, <1>2, LayersAre, MergeKeeps

LEMMA UrlKeeps == IInv /\ SetDatabaseUrl => IInv'
  <1> SUFFICES ASSUME IInv, SetDatabaseUrl PROVE IInv'
    OBVIOUS
  <1> DEFINE v == DatabaseVariable(input)
  <1>1. pc = Layers[5] /\ v \in DatabaseVariables
    BY LayersAre DEF SetDatabaseUrl, DatabaseVariable, DatabaseVariables
  <1>2. CASE v \in input.variables
    <2>1. Merge({"database.url"}, v, "cli")
      BY <1>2 DEF SetDatabaseUrl
    <2>2. {"database.url"} \in SUBSET Keys /\ {"database.url"} \cap Plain = {}
      BY DEF Keys, Plain
    <2>3. \A k \in Plain : Says(input, Layers[5], k) <=> k \in {"database.url"}
      BY LayersAre, WhatLayersSay DEF Plain
    <2> HIDE DEF v
    <2> QED BY <1>1, <2>1, <2>2, <2>3, LayersAre, MergeKeeps DEF v
  <1>3. CASE v \notin input.variables
    <2>1. Fail
      BY <1>3 DEF SetDatabaseUrl
    <2>2. RefusedForCause'
      BY <1>3, <2>1 DEF Fail, RefusedForCause, CauseElsewhere, DatabaseVariable, Mode, Unset
    <2> QED BY <2>1, <2>2, FailKeeps
  <1> QED BY <1>2, <1>3

LEMMA ArgumentsKeep == IInv /\ SetFromArguments => IInv'
  <1> SUFFICES ASSUME IInv, SetFromArguments PROVE IInv'
    OBVIOUS
  <1> DEFINE K == (IF input.host THEN {"service.host"} ELSE {}) \cup
                  (IF input.port = "number" THEN {"service.port"} ELSE {})
  <1>1. pc = Layers[6]
    BY LayersAre DEF SetFromArguments
  <1>2. CASE input.port # "text"
    <2>1. Merge(K, "cli", "freeze")
      BY <1>2 DEF SetFromArguments
    <2>2. K \in SUBSET Keys /\ "database.url" \notin K
      BY DEF Keys
    <2>3. \A k \in Plain : Says(input, Layers[6], k) <=> k \in K
      BY LayersAre, WhatLayersSay
    <2> HIDE DEF K
    <2> QED BY <1>1, <2>1, <2>2, <2>3, LayersAre, MergeKeeps
  <1>3. CASE input.port = "text"
    <2>1. Fail
      BY <1>3 DEF SetFromArguments
    <2>2. RefusedForCause'
      BY <1>3, <2>1 DEF Fail, RefusedForCause, CauseElsewhere
    <2> QED BY <2>1, <2>2, FailKeeps
  <1> QED BY <1>2, <1>3

(* A setting that is missing at the end is in no layer. *)
LEMMA FreezeKeeps == IInv /\ Freeze => IInv'
  <1> SUFFICES ASSUME IInv, Freeze PROVE IInv'
    OBVIOUS
  <1>1. pc = "freeze" /\ UpTo(6)
    BY DEF Freeze, IInv
  <1>2. CASE DOMAIN config = Keys
    <2>1. pc' = "done" /\ input' = input /\ config' = config
      BY <1>2 DEF Freeze
    <2>2. TypeOK'
      BY <1>2, <2>1 DEF IInv, TypeOK
    <2>3. \A n \in 1 .. 6 : pc' # Layers[n]
      BY <2>1, LayersAre
    <2>4. UpTo(6)' /\ UrlInv'
      BY <1>1, <2>1 DEF UpTo, IInv, UrlInv
    <2> QED BY <2>1, <2>2, <2>3, <2>4 DEF IInv, RefusedForCause, CauseElsewhere
  <1>3. CASE DOMAIN config # Keys
    <2>1. Fail
      BY <1>3 DEF Freeze
    <2>2. PICK k \in Keys : k \notin DOMAIN config
      BY <1>3 DEF IInv, TypeOK
    <2>3. k # "database.url"
      BY <1>1, <2>2 DEF IInv, UrlInv
    <2>4. \A n \in DOMAIN Layers : ~Says(input, Layers[n], k)
      BY <1>1, <2>2, <2>3, LayersAre DEF UpTo, Plain
    <2>5. RefusedForCause'
      BY <2>1, <2>3, <2>4 DEF Fail, RefusedForCause, CauseElsewhere
    <2> QED BY <2>1, <2>5, FailKeeps
  <1> QED BY <1>2, <1>3

LEMMA NextKeeps == IInv /\ [Next]_vars => IInv'
  <1> SUFFICES ASSUME IInv, Next \/ UNCHANGED vars PROVE IInv'
    OBVIOUS
  <1>1. CASE UNCHANGED vars
    BY <1>1 DEF vars, IInv, TypeOK, UpTo, UrlInv, RefusedForCause, CauseElsewhere
  <1> QED BY <1>1, DefaultKeeps, ModeKeeps, LocalKeeps, AppKeeps, UrlKeeps, ArgumentsKeep,
             FreezeKeeps DEF Next

LEMMA Invariance == Spec => []IInv
  <1> QED BY InitHolds, NextKeeps, PTL DEF Spec

-----------------------------------------------------------------------------
(* Settings::new (src/src/settings.rs) keeps to its types, and returns     *)
(* settings only if every one of them has a value.                         *)
THEOREM SettingsTypeCorrect == Spec => []TypeOK
  <1>1. IInv => TypeOK
    BY DEF IInv
  <1> QED BY Invariance, <1>1, PTL

(* Whatever the files, the environment and the command line give, each     *)
(* setting is from the last layer that has it (src/src/settings.rs).       *)
THEOREM PrecedenceHolds == Spec => []LastLayerWins
  <1>1. IInv => LastLayerWins
    <2> SUFFICES ASSUME IInv, pc = "done", NEW k \in Keys \ {"database.url"}
                 PROVE  \E n \in DOMAIN Layers :
                          /\ config[k] = Layers[n] /\ Says(input, Layers[n], k)
                          /\ \A m \in n + 1 .. Len(Layers) : ~Says(input, Layers[m], k)
      BY DEF LastLayerWins
    <2>1. k \in Plain \cap DOMAIN config /\ UpTo(6)
      BY DEF IInv, TypeOK, Plain
    <2> QED BY <2>1, LayersAre DEF UpTo
  <1> QED BY Invariance, <1>1, PTL

(* The mode of the environment, and nothing else, decides which variable   *)
(* the database is taken from (src/src/settings.rs:112).                   *)
THEOREM TestsAreApart == Spec => []TestsKeepToTheirDatabase
  <1>1. IInv => TestsKeepToTheirDatabase
    BY DEF IInv, UrlInv, TestsKeepToTheirDatabase, DatabaseVariable, DatabaseVariables, Mode, Unset
  <1> QED BY Invariance, <1>1, PTL

(* Whenever Settings::new returns an error, the files, the environment or  *)
(* the command line have the fault (src/src/settings.rs).                  *)
THEOREM NoGroundlessRefusal == Spec => []RefusedForCause
  <1>1. IInv => RefusedForCause
    BY DEF IInv
  <1> QED BY Invariance, <1>1, PTL
=============================================================================
