----------------------------- MODULE MCSettings -----------------------------
(***************************************************************************)
(* Files that are missing, complete, or have a part of the settings, for   *)
(* every combination of what the environment and the command line give.    *)
(***************************************************************************)
EXTENDS Settings

MCModes == {"development", "testing"}

MCFiles ==
  {[default |-> d, development |-> v, testing |-> t, local |-> l] :
     d \in {Absent, Gives({"debug"}), Gives({"service.host"})},
     v \in {Absent, Gives(Keys), Gives({"debug", "database.url"})},
     t \in {Absent, Gives(Keys \ {"database.url"})},
     l \in {Absent, Broken, Gives({"service.port"}), Gives(Keys)}}

MCInputs ==
  {[files |-> f, SETTINGS |-> m, app |-> a, variables |-> v,
    settings |-> s, host |-> h, port |-> p] :
     f \in MCFiles, m \in MCModes \cup {Unset}, a \in {{}, {"debug"}},
     v \in SUBSET DatabaseVariables, s \in {Unset, "testing"},
     h \in BOOLEAN, p \in {"unset", "number", "text"}}
=============================================================================
