----------------------------- MODULE MCWorkDir ------------------------------
(* Model checking WorkDir: all four data sources take turns in one         *)
(* directory while the servers' data is replaced once.  The new archive    *)
(* replaces one file of the old one, and lacks the other.                  *)
EXTENDS WorkDir

MCArchived == [v \in Versions |-> IF v = 0 THEN NtfsFiles ELSE {"stops"}]
=============================================================================
