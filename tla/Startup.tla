------------------------------- MODULE Startup -------------------------------
(***************************************************************************)
(* The start of the container: docker/entrypoint.sh runs the service       *)
(* twice, first with `init' (src/src/init.rs, init_db of                   *)
(* src/src/db/sqlite.rs), then, whatever came of that, with `run'          *)
(* (src/src/server.rs, State::new of src/src/state/mod.rs).                *)
(*                                                                         *)
(*   wait for Elasticsearch                                                *)
(*     -> init: settings, working directory, migration file, sqlite3       *)
(*     -> sleep                                                            *)
(*     -> run: settings, database, Elasticsearch, serve                    *)
(*                                                                         *)
(* init pipes the migration, a `create table if not exists', into the      *)
(* program sqlite3 and does not wait for it: the program goes on while the *)
(* shell does.  The sleep is a step; nothing says that it is long enough.  *)
(* The settings are those of module Settings; both subcommands find the    *)
(* same, so that either both have settings or neither has.  Elasticsearch  *)
(* comes and goes.                                                         *)
(***************************************************************************)
CONSTANT Settings  \* may the settings be complete? a subset of BOOLEAN

ASSUME SettingsAssumption == Settings \subseteq BOOLEAN

VARIABLES pc,        \* where the entry point is
          settings,  \* whether Settings::new succeeds
          es,        \* whether Elasticsearch answers
          workDir,   \* the path of the working directory: "absent", "dir", "file"
          sqlite3,   \* the program: see Programs
          db,        \* the database file: "none", "table", "rows"
          logged     \* whether this start has logged "Initialized database"

vars == <<pc, settings, es, workDir, sqlite3, db, logged>>

(* The parts of init and of run. *)
InitSteps == {"init settings", "init dir", "init migration", "init pipe", "init exit"}
RunSteps == {"run settings", "run database", "run elasticsearch"}

(* The program reads its input (what there is of it in the pipe: the whole *)
(* script or not), executes the statement, which takes the write lock, and *)
(* ends with its input.                                                    *)
Programs == {"none", "waiting", "fed", "locking", "migrated", "ended", "failed"}

(* The type invariant; init has one program, and starts none when it has   *)
(* failed before.                                                          *)
TypeOK ==
  /\ pc \in {"wait", "sleep", "serve", "exited"} \cup InitSteps \cup RunSteps
  /\ settings \in BOOLEAN /\ es \in BOOLEAN /\ logged \in BOOLEAN
  /\ workDir \in {"absent", "dir", "file"}
  /\ sqlite3 \in Programs
  /\ db \in {"none", "table", "rows"}
  /\ sqlite3 # "none" => settings /\ workDir = "dir"
  /\ logged => sqlite3 # "none"

Init ==
  /\ pc = "wait"
  /\ settings \in Settings
  /\ es \in BOOLEAN
  /\ workDir \in {"absent", "dir", "file"}
  /\ sqlite3 = "none" /\ db = "none" /\ logged = FALSE

Goto(next) == pc' = next

-----------------------------------------------------------------------------
(* The entry point: `while ! nc -z elasticsearch 9200'. *)
Wait ==
  /\ pc = "wait" /\ es
  /\ Goto("init settings")
  /\ UNCHANGED <<settings, es, workDir, sqlite3, db, logged>>

(* init ends, well or not, and the entry point does not look.  The end of  *)
(* the process closes the pipe.  (The first form waits for the program,    *)
(* whose input it still holds; in the second the program does not outlive  *)
(* the handle that waits for it.)                                          *)
WaitForChild ==
  /\ pc = "init exit" /\ sqlite3 \in {"none", "ended", "failed"}
  /\ Goto("sleep")
  /\ UNCHANGED <<settings, es, workDir, sqlite3, db, logged>>

KillChildOnExit ==
  /\ pc = "init exit"
  /\ Goto("sleep")
  /\ sqlite3' = IF sqlite3 = "none" THEN "none" ELSE "ended"
  /\ UNCHANGED <<settings, es, workDir, db, logged>>

InitExit ==
  /\ pc = "init exit"
  /\ Goto("sleep")
  /\ UNCHANGED <<settings, es, workDir, sqlite3, db, logged>>

Sleep ==
  /\ pc = "sleep"
  /\ Goto("run settings")
  /\ UNCHANGED <<settings, es, workDir, sqlite3, db, logged>>

-----------------------------------------------------------------------------
(* init. *)

InitSettings ==
  /\ pc = "init settings"
  /\ Goto(IF settings THEN "init dir" ELSE "init exit")
  /\ UNCHANGED <<settings, es, workDir, sqlite3, db, logged>>

(* The directory is made unless something is there; it may be a file, or   *)
(* its parent may be missing.  (The first form is content with a file.)    *)
MakeIfAbsent ==
  /\ pc = "init dir"
  /\ \/ workDir = "absent" /\ workDir' = "dir" /\ Goto("init migration")
     \/ workDir = "absent" /\ UNCHANGED workDir /\ Goto("init exit")
     \/ workDir # "absent" /\ UNCHANGED workDir /\ Goto("init migration")
  /\ UNCHANGED <<settings, es, sqlite3, db, logged>>

MakeWorkDir ==
  /\ pc = "init dir"
  /\ \/ workDir = "absent" /\ workDir' = "dir" /\ Goto("init migration")
     \/ workDir = "absent" /\ UNCHANGED workDir /\ Goto("init exit")
     \/ workDir = "dir" /\ UNCHANGED workDir /\ Goto("init migration")
     \/ workDir = "file" /\ UNCHANGED workDir /\ Goto("init exit")
  /\ UNCHANGED <<settings, es, sqlite3, db, logged>>

(* The script is read and the program started; either may fail. *)
SpawnSqlite3 ==
  /\ pc = "init migration"
  /\ \/ sqlite3' = "waiting" /\ Goto("init pipe")
     \/ UNCHANGED sqlite3 /\ Goto("init exit")
  /\ UNCHANGED <<settings, es, workDir, db, logged>>

(* write_all to the pipe; it fails if the program has gone. *)
Pipe ==
  /\ pc = "init pipe"
  /\ \/ sqlite3 = "waiting" /\ sqlite3' = "fed" /\ logged' = TRUE
     \/ sqlite3 # "fed" /\ sqlite3' = "failed" /\ UNCHANGED logged
  /\ Goto("init exit")
  /\ UNCHANGED <<settings, es, workDir, db>>

-----------------------------------------------------------------------------
(* The program sqlite3, a process of its own. *)

(* It fails to open the file, or to get the lock. *)
Sqlite3Fails ==
  /\ sqlite3 \in {"waiting", "fed"}
  /\ sqlite3' = "failed"
  /\ UNCHANGED <<pc, settings, es, workDir, db, logged>>

Sqlite3Locks ==
  /\ sqlite3 = "fed"
  /\ sqlite3' = "locking"
  /\ UNCHANGED <<pc, settings, es, workDir, db, logged>>

(* `create table if not exists'. *)
CreateTableIfNotExists(d) == IF d = "none" THEN "table" ELSE d

Sqlite3Migrates ==
  /\ sqlite3 = "locking"
  /\ db' = CreateTableIfNotExists(db)
  /\ sqlite3' = "migrated"
  /\ UNCHANGED <<pc, settings, es, workDir, logged>>

(* The end of its input, when init has ended. *)
Sqlite3Ends ==
  /\ sqlite3 = "migrated" /\ pc \notin InitSteps
  /\ sqlite3' = "ended"
  /\ UNCHANGED <<pc, settings, es, workDir, db, logged>>

-----------------------------------------------------------------------------
(* run. *)

RunSettings ==
  /\ pc = "run settings"
  /\ Goto(IF settings THEN "run database" ELSE "exited")
  /\ UNCHANGED <<settings, es, workDir, sqlite3, db, logged>>

(* The pool, and a query that asks for SQLite's version and not for the    *)
(* table.  It fails if the database is locked, or for a reason of its own. *)
OpenDatabase ==
  /\ pc = "run database"
  /\ \/ sqlite3 # "locking" /\ Goto("run elasticsearch")
     \/ Goto("exited")
  /\ UNCHANGED <<settings, es, workDir, sqlite3, db, logged>>

(* "What's the point of continuing if we don't have no elasticsearch": one *)
(* request, without a retry.                                               *)
CheckElasticsearch ==
  /\ pc = "run elasticsearch"
  /\ Goto(IF es THEN "serve" ELSE "exited")
  /\ UNCHANGED <<settings, es, workDir, sqlite3, db, logged>>

(* A request creates an index, which fails without a table. *)
CreateIndex ==
  /\ pc = "serve" /\ db # "none" /\ sqlite3 # "locking"
  /\ db' = "rows"
  /\ UNCHANGED <<pc, settings, es, workDir, sqlite3, logged>>

-----------------------------------------------------------------------------
(* The service dies, as if its address cannot be had, and the container    *)
(* with it.                                                                *)
Die ==
  /\ pc = "serve"
  /\ Goto("exited")
  /\ UNCHANGED <<settings, es, workDir, sqlite3, db, logged>>

(* The container is started again, on its files. *)
Restart ==
  /\ pc = "exited"
  /\ Goto("wait")
  /\ sqlite3' = "none" /\ logged' = FALSE
  /\ UNCHANGED <<settings, es, workDir, db>>

Elasticsearch ==
  /\ es' = ~es
  /\ UNCHANGED <<pc, settings, workDir, sqlite3, db, logged>>

ShellStep ==
  \/ Wait \/ InitSettings \/ MakeWorkDir \/ SpawnSqlite3 \/ Pipe \/ InitExit
  \/ Sleep \/ RunSettings \/ OpenDatabase \/ CheckElasticsearch

Sqlite3Step == Sqlite3Fails \/ Sqlite3Locks \/ Sqlite3Migrates \/ Sqlite3Ends

Next == ShellStep \/ Sqlite3Step \/ CreateIndex \/ Die \/ Restart \/ Elasticsearch

(* Processes run.  Nothing says that Elasticsearch is there, that anybody  *)
(* sends a request or that somebody starts the container again.            *)
Spec == Init /\ [][Next]_vars /\ WF_vars(ShellStep) /\ WF_vars(Sqlite3Step)

-----------------------------------------------------------------------------
(* A container that is started serves or ends; it waits for nothing but    *)
(* Elasticsearch.  In particular init ends, although it holds the input of *)
(* a program that does not end before its input does.                      *)
StartsOrExits ==
  /\ pc \in InitSteps ~> pc \in {"serve", "exited"}
  /\ <>[]es => (pc = "wait" ~> pc \in {"serve", "exited"})

(* init has logged that the database is initialized before it is.  It will *)
(* be, though nobody waits for it and init ends first, unless the program  *)
(* fails, which nobody notices, or the container ends.                     *)
TableInTheEnd == logged ~> db # "none" \/ sqlite3 = "failed" \/ pc = "exited"

(* What init_db logs when it returns: "Initialized database".              *)
LoggedMeansInitialized == logged => db # "none"
=============================================================================
