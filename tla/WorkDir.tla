------------------------------ MODULE WorkDir -------------------------------
(***************************************************************************)
(* The working directory: the files that the download and processing       *)
(* stages keep there for one region (src/src/fsm/download.rs, osm.rs,      *)
(* bano.rs, ntfs.rs, cosmogony.rs), build after build.                     *)
(*                                                                         *)
(*   pbf, csv  downloads of OSM and BANO, kept for ever                    *)
(*   foo       the list of NTFS datasets; its URL ends in a slash, and foo *)
(*             is the name such a file gets                                *)
(*   zip       the NTFS archive, named after the dataset                   *)
(*   and what unzip takes out of archives: nothing ever empties the        *)
(*             directory, and ntfs2mimir is given all that is in it        *)
(*   json      what the cosmogony program makes of pbf                     *)
(*                                                                         *)
(* Builds take turns here: Ingest's OneBuildAtATime.  The process may die  *)
(* anywhere (and the programs it started die with it); the directory is    *)
(* what it finds when it is started again.  The servers replace what they  *)
(* serve from time to time.                                                *)
(***************************************************************************)
EXTENDS Integers, FiniteSets

CONSTANTS DataSources,  \* a subset of those that run() can download
          MaxVersion,   \* bound: how often the servers' data is replaced
          NtfsFiles,    \* names of files in NTFS archives
          Archived      \* those in the archive of each version

ASSUME DataSourcesAssumption == DataSources \subseteq {"osm", "cosmogony", "bano", "ntfs"}
ASSUME MaxVersionAssumption == MaxVersion \in Nat
ASSUME ArchivedAssumption == Archived \in [0 .. MaxVersion -> SUBSET NtfsFiles]

VARIABLES server,       \* the data served now: its version, and whether the
                        \* list of datasets has an NTFS entry
          disk,         \* the working directory, but for what unzip makes
          extracted,    \* what unzip has made there, file by file
          unpacked,     \* history: the archive this build has extracted
          pc,           \* where the build is; "idle" between builds
          data_source,  \* of the build
          target,       \* the file download() is asked for
          url,          \* of the archive: the version of the list it is from
          body,         \* the response download() has read, until written
          started,      \* history: what the servers had when the build began
          interrupted,  \* history: files whose writing was cut short
          abandoned     \* history: files at which a build broke off

ntfsVars == <<extracted, unpacked>>
vars == <<server, disk, pc, data_source, target, url, body, started, interrupted,
          abandoned, ntfsVars>>

(* The files that download() names, and the one generate_cosmogony() does. *)
Downloads == {"pbf", "csv", "foo", "zip"}
Paths == Downloads \cup {"json"}

Versions == 0 .. MaxVersion
Served == [version : Versions, lists : BOOLEAN]
Content == [version : Versions, lists : BOOLEAN, whole : BOOLEAN]
NoFile == [version |-> -1, lists |-> FALSE, whole |-> FALSE]
NoBody == [version |-> -1, lists |-> FALSE]
Piece == [version : Versions, whole : BOOLEAN]
NoPiece == [version |-> -1, whole |-> FALSE]

Whole(s) == [version |-> s.version, lists |-> s.lists, whole |-> TRUE]
Partial(s) == [version |-> s.version, lists |-> s.lists, whole |-> FALSE]
Exists(p) == disk[p] # NoFile

Places == {"idle", "lookup", "get", "create", "write", "read", "forget",
           "unzip", "tidy", "discard", "generate", "generating", "index"}

(* The type invariant. *)
TypeOK ==
  /\ server \in Served
  /\ disk \in [Paths -> Content \cup {NoFile}]
  /\ pc \in Places
  /\ data_source \in DataSources
  /\ target \in Downloads
  /\ url \in Versions
  /\ body \in Served \cup {NoBody}
  /\ body # NoBody <=> pc \in {"create", "write"}
  /\ extracted \in [NtfsFiles -> Piece \cup {NoPiece}]
  /\ unpacked \in Versions
  /\ started \in Versions
  /\ interrupted \subseteq Downloads
  /\ abandoned \subseteq Downloads

Init ==
  /\ server \in [version : {0}, lists : BOOLEAN]
  /\ disk = [p \in Paths |-> NoFile]
  /\ pc = "idle"
  /\ data_source \in DataSources
  /\ target = "pbf"
  /\ url = 0
  /\ body = NoBody
  /\ extracted = [f \in NtfsFiles |-> NoPiece]
  /\ unpacked = 0
  /\ started = 0
  /\ interrupted = {}
  /\ abandoned = {}

-----------------------------------------------------------------------------
(* The file a data source downloads first, by the name its URL ends in.    *)
(* (In the first form an empty name stays empty.)                          *)
FirstTargetUnnamed(d) ==
  CASE d \in {"osm", "cosmogony"} -> "pbf" [] d = "bano" -> "csv" [] d = "ntfs" -> ""
FirstTarget(d) ==
  CASE d \in {"osm", "cosmogony"} -> "pbf" [] d = "bano" -> "csv" [] d = "ntfs" -> "foo"

(* What follows when download() has returned the path. *)
AfterDownload ==
  CASE target = "foo" -> "read"
    [] target = "zip" -> "unzip"
    [] target \in {"pbf", "csv"} ->
         IF data_source = "cosmogony" THEN "generate" ELSE "index"

(* A build reaches the stage of downloading. *)
Begin(d) ==
  /\ pc = "idle"
  /\ data_source' = d /\ target' = FirstTarget(d) /\ pc' = "lookup"
  /\ started' = server.version /\ url' = 0 /\ unpacked' = 0
  /\ UNCHANGED <<server, disk, extracted, body, interrupted, abandoned>>

-----------------------------------------------------------------------------
(* download(). *)

(* A file that exists is taken for the download. *)
Lookup ==
  /\ pc = "lookup"
  /\ pc' = IF Exists(target) THEN AfterDownload ELSE "get"
  /\ UNCHANGED <<server, disk, data_source, target, url, body, started, interrupted,
                 abandoned, ntfsVars>>

(* The whole response is read into memory.  What a server sends for the    *)
(* URL of an archive is at least as new as the list the URL comes from.    *)
Get ==
  /\ pc = "get"
  /\ \E v \in Versions :
       /\ v <= server.version
       /\ v >= IF target = "zip" THEN url ELSE server.version
       /\ body' = [version |-> v, lists |-> server.lists]
  /\ pc' = "create"
  /\ UNCHANGED <<server, disk, data_source, target, url, started, interrupted,
                 abandoned, ntfsVars>>

(* No connection, an error status, or a connection that breaks: an error.  *)
(* (The first form has created the file before it began to read.)          *)
GetFailsWithFile ==
  /\ pc = "get"
  /\ disk' = [disk EXCEPT ![target] = Partial(server)]
  /\ pc' = "idle"
  /\ UNCHANGED <<server, data_source, target, url, body, started, interrupted,
                 abandoned, ntfsVars>>

GetFails ==
  /\ pc = "get"
  /\ pc' = "idle"
  /\ UNCHANGED <<server, disk, data_source, target, url, body, started, interrupted,
                 abandoned, ntfsVars>>

Create ==
  /\ pc = "create"
  /\ disk' = [disk EXCEPT ![target] = Partial(body)]
  /\ pc' = "write"
  /\ interrupted' = interrupted \ {target}
  /\ abandoned' = abandoned \ {target}
  /\ UNCHANGED <<server, data_source, target, url, body, started, ntfsVars>>

Write ==
  /\ pc = "write"
  /\ disk' = [disk EXCEPT ![target] = Whole(body)]
  /\ pc' = AfterDownload /\ body' = NoBody
  /\ UNCHANGED <<server, data_source, target, url, started, interrupted, abandoned, ntfsVars>>

(* A single write() may take a part of the buffer, and download() does not *)
(* look at how much; or it fails, and the file stays.                      *)
WriteShort ==
  /\ pc = "write"
  /\ interrupted' = interrupted \cup {target} /\ body' = NoBody
  /\ \/ pc' = AfterDownload /\ UNCHANGED abandoned
     \/ pc' = "idle" /\ abandoned' = abandoned \cup {target}
  /\ UNCHANGED <<server, disk, data_source, target, url, started, ntfsVars>>

-----------------------------------------------------------------------------
(* download_ntfs_region(), between and after its two downloads. *)

(* Without a readable list that has an NTFS dataset there is no archive to *)
(* ask for.  (The first form removes the list as soon as it has read it.)  *)
ReadAndForgetCatalogue ==
  /\ pc = "read"
  /\ IF disk["foo"].whole /\ disk["foo"].lists
     THEN pc' = "forget" /\ url' = disk["foo"].version
     ELSE pc' = "idle" /\ UNCHANGED url
  /\ disk' = [disk EXCEPT !["foo"] = NoFile]
  /\ UNCHANGED <<server, data_source, target, body, started, interrupted, abandoned, ntfsVars>>

ReadCatalogue ==
  /\ pc = "read"
  /\ IF disk["foo"].whole /\ disk["foo"].lists
     THEN pc' = "forget" /\ url' = disk["foo"].version
     ELSE pc' = "idle" /\ UNCHANGED url
  /\ UNCHANGED <<server, disk, data_source, target, body, started, interrupted,
                 abandoned, ntfsVars>>

(* "We don't need the file returned by the previous download": it goes,    *)
(* and the archive is next.                                                *)
ForgetCatalogue ==
  /\ pc = "forget"
  /\ disk' = [disk EXCEPT !["foo"] = NoFile]
  /\ target' = "zip" /\ pc' = "lookup"
  /\ UNCHANGED <<server, data_source, url, body, started, interrupted, abandoned, ntfsVars>>

(* What the directory holds when unzip has got the files done out of the   *)
(* archive and parts of the files cut; it leaves all others as they were.  *)
Overwritten(done, cut) ==
  [f \in NtfsFiles |->
     IF f \in done \cup cut
     THEN [version |-> disk["zip"].version, whole |-> f \in done]
     ELSE extracted[f]]

(* unzip -o overwrites what is there, file by file.  It succeeds only on a *)
(* complete archive, and may fail on any, at any point.  (The first form,  *)
(* without -o, keeps the files that are there.)                            *)
UnzipMissing ==
  LET v == disk["zip"].version
      missing == {f \in Archived[v] : extracted[f] = NoPiece}
  IN
  /\ pc = "unzip"
  /\ \/ /\ disk["zip"].whole /\ pc' = "tidy"
        /\ extracted' = Overwritten(missing, {}) /\ unpacked' = v
     \/ /\ pc' = "discard" /\ UNCHANGED unpacked
        /\ \E done, cut \in SUBSET missing :
             done \cap cut = {} /\ extracted' = Overwritten(done, cut)
  /\ UNCHANGED <<server, disk, data_source, target, url, body, started, interrupted, abandoned>>

Unzip ==
  LET v == disk["zip"].version IN
  /\ pc = "unzip"
  /\ \/ /\ disk["zip"].whole /\ pc' = "tidy"
        /\ extracted' = Overwritten(Archived[v], {}) /\ unpacked' = v
     \/ /\ pc' = "discard" /\ UNCHANGED unpacked
        /\ \E done, cut \in SUBSET Archived[v] :
             done \cap cut = {} /\ extracted' = Overwritten(done, cut)
  /\ UNCHANGED <<server, disk, data_source, target, url, body, started, interrupted, abandoned>>

(* The archive is removed before the outcome of unzip is looked at.  (The  *)
(* first form looks first, and so indexes nothing but keeps the archive.)  *)
RemoveArchiveIfExtracted ==
  /\ pc \in {"tidy", "discard"}
  /\ disk' = IF pc = "tidy" THEN [disk EXCEPT !["zip"] = NoFile] ELSE disk
  /\ pc' = IF pc = "tidy" THEN "index" ELSE "idle"
  /\ UNCHANGED <<server, data_source, target, url, body, started, interrupted,
                 abandoned, ntfsVars>>

RemoveArchive ==
  /\ pc \in {"tidy", "discard"}
  /\ disk' = [disk EXCEPT !["zip"] = NoFile]
  /\ pc' = IF pc = "tidy" THEN "index" ELSE "idle"
  /\ UNCHANGED <<server, data_source, target, url, body, started, interrupted,
                 abandoned, ntfsVars>>

-----------------------------------------------------------------------------
(* generate_cosmogony(): the program writes its output afresh every time.  *)
(* (The first form would reuse an output that is there, as download does.) *)
GenerateOnce ==
  /\ pc = "generate"
  /\ \/ Exists("json") /\ pc' = "index" /\ UNCHANGED disk
     \/ /\ ~Exists("json") /\ pc' = "generating"
        /\ disk' = [disk EXCEPT !["json"] = Partial(disk["pbf"])]
  /\ UNCHANGED <<server, data_source, target, url, body, started, interrupted,
                 abandoned, ntfsVars>>

Generate ==
  /\ pc = "generate"
  /\ pc' = "generating"
  /\ disk' = [disk EXCEPT !["json"] = Partial(disk["pbf"])]
  /\ UNCHANGED <<server, data_source, target, url, body, started, interrupted,
                 abandoned, ntfsVars>>

Generated ==
  /\ pc = "generating"
  /\ \/ pc' = "index" /\ disk' = [disk EXCEPT !["json"] = disk["pbf"]]
     \/ pc' = "idle" /\ UNCHANGED disk
  /\ UNCHANGED <<server, data_source, target, url, body, started, interrupted,
                 abandoned, ntfsVars>>

(* The indexing program reads its input, and the build's files are done.   *)
Index ==
  /\ pc = "index"
  /\ pc' = "idle"
  /\ UNCHANGED <<server, disk, data_source, target, url, body, started, interrupted,
                 abandoned, ntfsVars>>

(* A directory cannot be made, a file not be created, read or removed, or  *)
(* a program not be started: the stage returns an error.                   *)
CallFails ==
  /\ \/ pc = "lookup" /\ target # "zip"
     \/ pc \in {"create", "read", "forget", "unzip", "tidy", "discard", "generate"}
  /\ pc' = "idle" /\ body' = NoBody
  /\ abandoned' = abandoned \cup {target}
  /\ UNCHANGED <<server, disk, data_source, target, url, started, interrupted, ntfsVars>>

(* The process dies, and what it had in memory with it. *)
Crash ==
  /\ pc # "idle"
  /\ pc' = "idle" /\ body' = NoBody
  /\ interrupted' = IF pc = "write" THEN interrupted \cup {target} ELSE interrupted
  /\ abandoned' = abandoned \cup {target}
  /\ UNCHANGED <<server, disk, data_source, target, url, started, ntfsVars>>

(* The servers have newer data, with or without an NTFS dataset. *)
Refresh ==
  /\ server.version < MaxVersion
  /\ \E l \in BOOLEAN : server' = [version |-> server.version + 1, lists |-> l]
  /\ UNCHANGED <<disk, pc, data_source, target, url, body, started, interrupted,
                 abandoned, ntfsVars>>

Next ==
  \/ \E d \in DataSources : Begin(d)
  \/ Lookup \/ Get \/ GetFails \/ Create \/ Write \/ WriteShort
  \/ ReadCatalogue \/ ForgetCatalogue \/ Unzip \/ RemoveArchive
  \/ Generate \/ Generated
  \/ Index \/ CallFails \/ Crash \/ Refresh

Spec == Init /\ [][Next]_vars

-----------------------------------------------------------------------------
(***************************************************************************)
(* Properties.                                                             *)
(***************************************************************************)

(* A response is read to its end before its file is created, so a transfer *)
(* that fails, at whatever moment, leaves nothing that the next build      *)
(* would take for a download.  Only writing itself can: a file is partial  *)
(* while it is written, or if its writing was cut short.                   *)
PartialOnlyIfInterrupted ==
  \A p \in Downloads :
    Exists(p) /\ ~disk[p].whole => p \in interrupted \/ (pc = "write" /\ target = p)

(* The cosmogony program makes its output anew in every build.  Whatever   *)
(* crashes and failures came before, what is indexed was made completely,  *)
(* from the pbf that is there now.                                         *)
CosmogonyIsOfThisBuild ==
  pc = "index" /\ data_source = "cosmogony" => disk["json"] = disk["pbf"]

(* A damaged archive does no harm, and what earlier extractions left, be   *)
(* it whole or half, does not stand in the way: when ntfs2mimir is called, *)
(* every file of this build's archive is there, complete, and from that    *)
(* archive.  (A file that only an earlier archive had is still there too,  *)
(* even half of it, and ntfs2mimir is given it with the others.)           *)
NtfsIsWhole ==
  pc = "index" /\ data_source = "ntfs" =>
    \A f \in Archived[unpacked] : extracted[f] = [version |-> unpacked, whole |-> TRUE]

(* "Same thing, we don't need the zip file, so remove it": the list and    *)
(* the archive serve one build.  So as long as no build breaks off at      *)
(* them, every file of the archive that is indexed is as new as what was   *)
(* served when the build began, even after builds whose archive or whose   *)
(* list was bad.  (Nothing is said of files the archive does not have.)    *)
NtfsIsFresh ==
  pc = "index" /\ data_source = "ntfs" /\ {"foo", "zip"} \cap abandoned = {} =>
    /\ unpacked >= started
    /\ \A f \in Archived[unpacked] : extracted[f].version >= started

(* What is downloaded once is downloaded for ever: a file of OSM or BANO   *)
(* data, however old or incomplete, and a list of datasets that is of no   *)
(* use (each later NTFS build reads it again and fails).  Only a list or   *)
(* an archive that led somewhere is removed.                               *)
Kept(p) ==
  /\ Exists(p) /\ ~(pc = "write" /\ target = p)
  /\ \/ p \in {"pbf", "csv"}
     \/ p = "foo" /\ ~(disk["foo"].whole /\ disk["foo"].lists)

CacheIsForEver ==
  [][\A p \in Downloads : Kept(p) => disk'[p] = disk[p]]_vars
=============================================================================
