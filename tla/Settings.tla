------------------------------ MODULE Settings ------------------------------
(***************************************************************************)
(* Settings::new (src/src/settings.rs), for the arguments that             *)
(* src/src/main.rs declares: layers of settings are merged one after the   *)
(* other, the later ones on top, and any of the steps may be the last.     *)
(*                                                                         *)
(*   default -> mode -> local -> APP_* -> database url -> -h, -p -> freeze *)
(*                                                                         *)
(* A value is the name of the layer it comes from, and of the settings     *)
(* there are as many as the layers tell apart (Keys).  That a value has    *)
(* the right type is assumed, but for the port at the command line.        *)
(***************************************************************************)
EXTENDS Sequences, Integers

CONSTANTS Modes,  \* the names of the mode files
          Inputs  \* what a process may find when it starts

Keys == {"debug", "database.url", "service.host", "service.port"}
Files == Modes \cup {"default", "local"}
DatabaseVariables == {"DATABASE_URL", "DATABASE_TEST_URL"}

(* A file is not there, cannot be parsed, or gives some of the settings.   *)
Absent == [readable |-> FALSE, there |-> FALSE, keys |-> {}]
Broken == [readable |-> FALSE, there |-> TRUE, keys |-> {}]
Gives(keys) == [readable |-> TRUE, there |-> TRUE, keys |-> keys]

Unset == "unset"

Input ==
  [files : [Files -> [readable : BOOLEAN, there : BOOLEAN, keys : SUBSET Keys]],
   SETTINGS : Modes \cup {Unset},            \* the environment: the mode,
   app : SUBSET Keys,                        \* the keys given as APP_*,
   variables : SUBSET DatabaseVariables,     \* and the urls
   settings : Modes \cup {Unset},            \* the command line: -s,
   host : BOOLEAN,                           \* -h,
   port : {"unset", "number", "text"}]       \* and -p

ASSUME ModesAssumption == {"development", "testing"} \subseteq Modes /\ Modes \subseteq STRING
ASSUME InputsAssumption == Inputs \subseteq Input

VARIABLES input,
          pc,      \* the layer to be merged next, or "done", or "failed"
          config   \* the keys that have a value, and from which layer

vars == <<input, pc, config>>

Layers == <<"default", "mode", "local", "app", "url", "cli">>

(* The mode is that of the environment.  (The first form asks the command  *)
(* line.)                                                                  *)
ModeOfArgument(in) == IF in.settings = Unset THEN "development" ELSE in.settings
Mode(in) == IF in.SETTINGS = Unset THEN "development" ELSE in.SETTINGS

(* The variable the database url is taken from.  (The first form forgets   *)
(* that tests have their own.)                                             *)
SameVariable(in) == "DATABASE_URL"
DatabaseVariable(in) ==
  IF Mode(in) = "testing" THEN "DATABASE_TEST_URL" ELSE "DATABASE_URL"

Init ==
  /\ input \in Inputs
  /\ pc = "default"
  /\ config = [k \in {} |-> ""]

(* Values on top of others, or, in the first form, below them. *)
MergedBelow(c, keys, layer) ==
  [k \in DOMAIN c \cup keys |-> IF k \in DOMAIN c THEN c[k] ELSE layer]
Merged(c, keys, layer) ==
  [k \in DOMAIN c \cup keys |-> IF k \in keys THEN layer ELSE c[k]]

Merge(keys, value, next) ==
  /\ config' = Merged(config, keys, value)
  /\ pc' = next
  /\ UNCHANGED input

Fail == pc' = "failed" /\ UNCHANGED <<input, config>>

(* config.merge(File::with_name(..).required(..)). *)
MergeFile(file, required, next) ==
  LET f == input.files[file] IN
    IF f.readable \/ (~f.there /\ ~required) THEN Merge(f.keys, pc, next) ELSE Fail

MergeDefault == pc = "default" /\ MergeFile("default", TRUE, "mode")
MergeMode == pc = "mode" /\ MergeFile(Mode(input), TRUE, "local")

(* (The first form insists on the file.) *)
MergeLocalRequired == pc = "local" /\ MergeFile("local", TRUE, "app")
MergeLocal == pc = "local" /\ MergeFile("local", FALSE, "app")

MergeApp == pc = "app" /\ Merge(input.app, "app", "url")

SetDatabaseUrl ==
  /\ pc = "url"
  /\ IF DatabaseVariable(input) \in input.variables
     THEN Merge({"database.url"}, DatabaseVariable(input), "cli")
     ELSE Fail

SetFromArguments ==
  /\ pc = "cli"
  /\ IF input.port = "text"
     THEN Fail
     ELSE Merge((IF input.host THEN {"service.host"} ELSE {}) \cup
                (IF input.port = "number" THEN {"service.port"} ELSE {}),
                "cli", "freeze")

(* try_into: every field of the struct must have a value.  (The first form *)
(* takes what there is.)                                                   *)
FreezeAnyway == pc = "freeze" /\ pc' = "done" /\ UNCHANGED <<input, config>>
Freeze ==
  /\ pc = "freeze"
  /\ IF DOMAIN config = Keys THEN pc' = "done" /\ UNCHANGED <<input, config>> ELSE Fail

Next ==
  \/ MergeDefault \/ MergeMode \/ MergeLocal \/ MergeApp
  \/ SetDatabaseUrl \/ SetFromArguments \/ Freeze

Spec == Init /\ [][Next]_vars

-----------------------------------------------------------------------------
(* The type invariant. *)
TypeOK ==
  /\ input \in Input
  /\ pc \in {Layers[n] : n \in DOMAIN Layers} \cup {"freeze", "done", "failed"}
  /\ DOMAIN config \subseteq Keys
  /\ \A k \in DOMAIN config :
       config[k] \in {Layers[n] : n \in DOMAIN Layers} \cup DatabaseVariables
  /\ pc = "done" => DOMAIN config = Keys

(* What layer gives key k, if it does: its own name, or a variable's.      *)
Says(in, layer, k) ==
  CASE layer = "default" -> k \in in.files["default"].keys
    [] layer = "mode" -> k \in in.files[Mode(in)].keys
    [] layer = "local" -> k \in in.files["local"].keys
    [] layer = "app" -> k \in in.app
    [] layer = "cli" -> \/ k = "service.host" /\ in.host
                        \/ k = "service.port" /\ in.port = "number"
    [] OTHER -> FALSE

(* Of the layers that have a value for a setting, the last of the list     *)
(* wins, whatever the others say: the command line over the environment,   *)
(* that over the local file, that over the files of the repository.        *)
LastLayerWins ==
  pc = "done" => \A k \in Keys \ {"database.url"} : \E n \in DOMAIN Layers :
    /\ config[k] = Layers[n] /\ Says(input, Layers[n], k)
    /\ \A m \in n + 1 .. Len(Layers) : ~Says(input, Layers[m], k)

(* Tests have a database of their own: with the testing mode, and only     *)
(* with it, the service takes the url from DATABASE_TEST_URL, whatever the *)
(* files and the other variable say.                                       *)
TestsKeepToTheirDatabase ==
  pc = "done" =>
    /\ config["database.url"] \in DatabaseVariables
    /\ config["database.url"] = "DATABASE_TEST_URL" <=> input.SETTINGS = "testing"

(* A cause to refuse settings that is not the mode file.                   *)
CauseElsewhere ==
  \/ ~input.files["default"].readable
  \/ input.files["local"].there /\ ~input.files["local"].readable
  \/ input.SETTINGS = "testing" /\ "DATABASE_TEST_URL" \notin input.variables
  \/ input.SETTINGS # "testing" /\ "DATABASE_URL" \notin input.variables
  \/ input.port = "text"
  \/ \E k \in Keys \ {"database.url"} : \A n \in DOMAIN Layers : ~Says(input, Layers[n], k)

(* Settings are refused only for a cause: a file that the code requires or *)
(* the variable is missing, a file cannot be parsed, the port is not a     *)
(* number, or there is a setting that no layer has.  The code requires the *)
(* mode file (src/src/settings.rs:81), so its absence is a cause here; the *)
(* comment above that line has it otherwise, see ModeFileIsOptional.       *)
RefusedForCause ==
  pc = "failed" => CauseElsewhere \/ ~input.files[Mode(input)].readable

(* What the comment on the mode file says (src/src/settings.rs:77): "Note  *)
(* that this file is _optional_".  That it is not there is no cause.       *)
ModeFileIsOptional ==
  pc = "failed" /\ ~input.files[Mode(input)].there => CauseElsewhere

(* What the help of the argument -s says: "Settings used".  Who names      *)
(* settings at the command line gets those.                                *)
NamedSettingsAreUsed ==
  pc = "done" /\ input.settings # Unset => Mode(input) = input.settings
=============================================================================
