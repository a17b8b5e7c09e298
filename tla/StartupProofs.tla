---------------------------- MODULE StartupProofs ----------------------------
(***************************************************************************)
(* Proofs about Startup: what an interrupted or failed start leaves, over  *)
(* any number of starts.                                                   *)
(***************************************************************************)
EXTENDS Startup, TLAPS

(* How far init has got says what it has found: the program is started     *)
(* only with settings and in a directory.                                  *)
InitInv ==
  /\ pc \in {"init dir", "init migration", "init pipe"} => settings
  /\ pc \in {"init migration", "init pipe"} => workDir = "dir"
  /\ pc = "init pipe" => sqlite3 # "none"
  /\ pc \in {"wait", "init settings", "init dir", "init migration"} => sqlite3 = "none"

IInv == TypeOK /\ InitInv

USE DEF InitSteps, RunSteps, Programs, Goto

LEMMA InitHolds == Init => IInv
  <1> SUFFICES ASSUME Init PROVE IInv
    OBVIOUS
  <1>1. settings \in BOOLEAN /\ es \in BOOLEAN /\ logged \in BOOLEAN
    BY SettingsAssumption, Zenon DEF Init
  <1> QED BY <1>1 DEF Init, IInv, TypeOK, InitInv

(* The steps of the shell and of init. *)
LEMMA ShellKeeps ==
  ASSUME IInv, ShellStep
  PROVE  IInv'
  <1> USE DEF IInv, TypeOK, InitInv
  <1>1. CASE Wait
    BY <1>1 DEF Wait
  <1>2. CASE InitSettings
    BY <1>2 DEF InitSettings
  <1>3. CASE MakeWorkDir
    BY <1>3 DEF MakeWorkDir
  <1>4. CASE SpawnSqlite3
    BY <1>4 DEF SpawnSqlite3
  <1>5. CASE Pipe
    BY <1>5 DEF Pipe
  <1>6. CASE InitExit
    BY <1>6 DEF InitExit
  <1>7. CASE Sleep
    BY <1>7 DEF Sleep
  <1>8. CASE RunSettings
    BY <1>8 DEF RunSettings
  <1>9. CASE OpenDatabase
    BY <1>9 DEF OpenDatabase
  <1>10. CASE CheckElasticsearch
    BY <1>10 DEF CheckElasticsearch
  <1> QED BY <1>1, <1>2, <1>3, <1>4, <1>5, <1>6, <1>7, <1>8, <1>9, <1>10 DEF ShellStep

(* The program goes on beside them. *)
LEMMA Sqlite3Keeps ==
  ASSUME IInv, Sqlite3Step
  PROVE  IInv'
  BY DEF IInv, TypeOK, InitInv, Sqlite3Step, Sqlite3Fails, Sqlite3Locks, Sqlite3Migrates,
         Sqlite3Ends, CreateTableIfNotExists

LEMMA NextKeeps == IInv /\ [Next]_vars => IInv'
  <1> SUFFICES ASSUME IInv, Next \/ UNCHANGED vars PROVE IInv'
    OBVIOUS
  <1>1. CASE CreateIndex
    BY <1>1 DEF IInv, TypeOK, InitInv, CreateIndex
  <1>2. CASE Die
    BY <1>2 DEF IInv, TypeOK, InitInv, Die
  <1>3. CASE Restart
    BY <1>3 DEF IInv, TypeOK, InitInv, Restart
  <1>4. CASE Elasticsearch
    <2>1. es' \in BOOLEAN
      BY <1>4, Zenon DEF Elasticsearch
    <2> QED BY <1>4, <2>1 DEF IInv, TypeOK, InitInv, Elasticsearch
  <1>5. CASE UNCHANGED vars
    BY <1>5 DEF IInv, TypeOK, InitInv, vars
  <1> QED BY <1>1, <1>2, <1>3, <1>4, <1>5, ShellKeeps, Sqlite3Keeps DEF Next

(* The start keeps to its types; in particular sqlite3 is never started    *)
(* without settings, or when the working directory is a file               *)
(* (src/src/init.rs).                                                      *)
THEOREM StartupTypeCorrect == Spec => []TypeOK
  <1>1. IInv => TypeOK
    BY DEF IInv
  <1> QED BY InitHolds, NextKeeps, <1>1, PTL DEF Spec
=============================================================================
