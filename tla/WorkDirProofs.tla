--------------------------- MODULE WorkDirProofs ----------------------------
(***************************************************************************)
(* Proofs about WorkDir, for any data sources, any archives, and however   *)
(* often the servers' data is replaced: the five invariants of its run.    *)
(*                                                                         *)
(* They speak of the moment of indexing.  WInv adds how a build gets there *)
(* (FlowInv: which file each place of which data source is about), that    *)
(* the file being written is the response that was read (WriteInv), that   *)
(* unzip, when it succeeds, leaves every file of the archive as it is in   *)
(* the archive (DataInv), and, for freshness, that a list or an archive    *)
(* that no build broke off at belongs to the build that is under way, and  *)
(* is as new as its beginning (FooInv, UrlInv, ZipInv).                    *)
(***************************************************************************)
EXTENDS WorkDir, TLAPS

FlowInv ==
  /\ pc \in {"lookup", "get", "create", "write"} =>
       target = FirstTarget(data_source) \/ (data_source = "ntfs" /\ target = "zip")
  /\ pc \in {"get", "create"} => ~Exists(target)
  /\ pc = "forget" => disk["foo"].whole /\ disk["foo"].lists
  /\ pc \in {"read", "forget"} => data_source = "ntfs" /\ target = "foo"
  /\ pc \in {"unzip", "tidy", "discard"} => data_source = "ntfs" /\ target = "zip"
  /\ pc = "unzip" => Exists("zip")
  /\ pc \in {"generate", "generating"} => data_source = "cosmogony" /\ Exists("pbf")

WriteInv == pc = "write" => disk[target] = Partial(body)

Extracted ==
  \A f \in Archived[unpacked] : extracted[f] = [version |-> unpacked, whole |-> TRUE]

DataInv == pc = "tidy" => Extracted

StartInv ==
  /\ started <= server.version
  /\ /\ pc \in {"create", "write"}
     /\ target = "foo" \/ (target = "zip" /\ "foo" \notin abandoned)
     => body.version >= started

FooInv ==
  disk["foo"].whole /\ disk["foo"].lists /\ "foo" \notin abandoned =>
    pc \in {"read", "forget"} /\ disk["foo"].version >= started

UrlInv ==
  /\ pc = "forget" \/ (pc \in {"lookup", "get"} /\ target = "zip")
  /\ "foo" \notin abandoned
  => url >= started

ZipInv ==
  /\ Exists("zip") /\ "zip" \notin abandoned =>
       \/ pc = "write" /\ target = "zip"
       \/ pc \in {"unzip", "tidy", "discard"}
  /\ {"foo", "zip"} \cap abandoned = {} =>
       /\ pc = "unzip" => disk["zip"].version >= started
       /\ pc = "tidy" => unpacked >= started

WInv ==
  /\ TypeOK /\ FlowInv /\ WriteInv /\ DataInv
  /\ PartialOnlyIfInterrupted /\ CosmogonyIsOfThisBuild /\ NtfsIsWhole
  /\ StartInv /\ FooInv /\ UrlInv /\ ZipInv /\ NtfsIsFresh
-----------------------------------------------------------------------------
(* Where a finished download leads. *)
LEMMA AfterDownloadCases ==
  ASSUME TypeOK, FlowInv, pc \in {"lookup", "write"}
  PROVE
    \/ target = "foo" /\ data_source = "ntfs" /\ AfterDownload = "read"
    \/ target = "zip" /\ data_source = "ntfs" /\ AfterDownload = "unzip"
    \/ target = "pbf" /\ data_source = "cosmogony" /\ AfterDownload = "generate"
    \/ target = "pbf" /\ data_source = "osm" /\ AfterDownload = "index"
    \/ target = "csv" /\ data_source = "bano" /\ AfterDownload = "index"
<1>1. data_source \in {"osm", "cosmogony", "bano", "ntfs"}
  BY DataSourcesAssumption DEF TypeOK
<1>2. target = FirstTarget(data_source) \/ (data_source = "ntfs" /\ target = "zip")
  BY DEF FlowInv
<1>. QED
  BY <1>1, <1>2 DEF FirstTarget, AfterDownload

(* The numbers among the types. *)
LEMMA Numbers ==
  ASSUME TypeOK
  PROVE  /\ server.version \in Nat /\ body.version \in Int
         /\ started \in Nat /\ url \in Nat /\ unpacked \in Nat
         /\ \A p \in Paths : disk[p].version \in Int
<1>1. Versions \subseteq Nat
  BY MaxVersionAssumption DEF Versions
<1>2. server \in Served /\ started \in Versions /\ url \in Versions /\ unpacked \in Versions
  BY DEF TypeOK
<1>4. body.version \in Int
  <2>1. CASE body = NoBody
    BY <2>1 DEF NoBody
  <2>2. CASE body \in Served
    <3>1. body.version \in Versions
      BY <2>2 DEF Served
    <3>. QED
      BY <3>1, MaxVersionAssumption DEF Versions
  <2>. QED
    BY <2>1, <2>2 DEF TypeOK
<1>3. ASSUME NEW p \in Paths PROVE disk[p].version \in Int
  <2>1. disk[p] \in Content \/ disk[p] = NoFile
    BY DEF TypeOK
  <2>2. CASE disk[p] = NoFile
    BY <2>2 DEF NoFile
  <2>3. CASE disk[p] \in Content
    <3>1. disk[p].version \in Versions
      BY <2>3 DEF Content
    <3>. QED
      BY <3>1, MaxVersionAssumption DEF Versions
  <2>. QED
    BY <2>1, <2>2, <2>3
<1>. QED
  BY <1>1, <1>2, <1>3, <1>4 DEF Served

(* A missing file is neither whole nor partial, and a content is of its    *)
(* type whether it is whole or not.                                        *)
LEMMA Contents ==
  /\ \A c \in Content : c # NoFile /\ c.version \in Versions
  /\ NoFile.whole = FALSE
  /\ \A s \in Served \cup Content :
       /\ Partial(s) \in Content /\ Partial(s).whole = FALSE
       /\ Whole(s) \in Content /\ Whole(s).whole = TRUE
       /\ Partial(s).version = s.version /\ Whole(s).version = s.version
       /\ Partial(s).lists = s.lists /\ Whole(s).lists = s.lists
<1>1. Versions \subseteq Nat
  BY MaxVersionAssumption DEF Versions
<1>2. \A c \in Content : c.version \in Versions
  BY DEF Content
<1>3. \A c \in Content : c # NoFile
  <2>1. NoFile.version = -1
    BY DEF NoFile
  <2>. QED
    BY <1>1, <1>2, <2>1
<1>. QED
  BY <1>2, <1>3 DEF NoFile, Served, Content, Partial, Whole

-----------------------------------------------------------------------------
(* One lemma per action: it preserves WInv.                                *)
LEMMA LookupWInv == WInv /\ Lookup => WInv'
<1> SUFFICES ASSUME WInv, Lookup PROVE WInv'
  OBVIOUS
<1> USE DEF WInv, ntfsVars, Extracted
<1>1. TypeOK'
  BY AfterDownloadCases DEF TypeOK, Lookup, Places
<1>2. (FlowInv /\ WriteInv /\ DataInv)'
  BY AfterDownloadCases DEF Lookup, FlowInv, WriteInv, DataInv, Exists
<1>3. (PartialOnlyIfInterrupted /\ CosmogonyIsOfThisBuild /\ NtfsIsWhole)'
  BY AfterDownloadCases
     DEF Lookup, Exists, PartialOnlyIfInterrupted, CosmogonyIsOfThisBuild, NtfsIsWhole
<1>4. (StartInv /\ FooInv /\ UrlInv)'
  BY AfterDownloadCases DEF Lookup, StartInv, FooInv, UrlInv
<1>5. (ZipInv /\ NtfsIsFresh)'
  BY AfterDownloadCases DEF Lookup, Exists, ZipInv, NtfsIsFresh
<1>. QED
  BY <1>1, <1>2, <1>3, <1>4, <1>5

LEMMA GetWInv == WInv /\ Get => WInv'
<1> SUFFICES ASSUME WInv, Get PROVE WInv'
  OBVIOUS
<1> USE DEF WInv, ntfsVars, Extracted
<1>. PICK v \in Versions :
       /\ v <= server.version
       /\ v >= IF target = "zip" THEN url ELSE server.version
       /\ body' = [version |-> v, lists |-> server.lists]
  BY DEF Get
<1>. v \in Nat
  BY DEF Versions
<1>1. TypeOK'
  <2>1. body' \in Served
    BY DEF TypeOK, Served
  <2>2. body' # NoBody
    BY DEF NoBody
  <2>. QED
    BY <2>1, <2>2 DEF TypeOK, Get, Places
<1>2. (FlowInv /\ WriteInv /\ DataInv)'
  BY DEF Get, FlowInv, WriteInv, DataInv, Exists
<1>3. (PartialOnlyIfInterrupted /\ CosmogonyIsOfThisBuild /\ NtfsIsWhole)'
  BY DEF Get, Exists, PartialOnlyIfInterrupted, CosmogonyIsOfThisBuild, NtfsIsWhole
<1>4. (StartInv /\ FooInv /\ UrlInv)'
  BY Numbers DEF Get, StartInv, FooInv, UrlInv
<1>5. (ZipInv /\ NtfsIsFresh)'
  BY DEF Get, Exists, ZipInv, NtfsIsFresh
<1>. QED
  BY <1>1, <1>2, <1>3, <1>4, <1>5

LEMMA GetFailsWInv == WInv /\ GetFails => WInv'
<1> SUFFICES ASSUME WInv, GetFails PROVE WInv'
  OBVIOUS
<1> USE DEF WInv, ntfsVars, Extracted
<1>1. TypeOK'
  BY DEF TypeOK, GetFails, Places
<1>2. (FlowInv /\ WriteInv /\ DataInv)'
  BY DEF GetFails, FlowInv, WriteInv, DataInv
<1>3. (PartialOnlyIfInterrupted /\ CosmogonyIsOfThisBuild /\ NtfsIsWhole)'
  BY DEF GetFails, Exists, PartialOnlyIfInterrupted, CosmogonyIsOfThisBuild, NtfsIsWhole
<1>4. (StartInv /\ FooInv /\ UrlInv)'
  BY DEF GetFails, StartInv, FooInv, UrlInv
<1>5. (ZipInv /\ NtfsIsFresh)'
  BY DEF GetFails, Exists, ZipInv, NtfsIsFresh
<1>. QED
  BY <1>1, <1>2, <1>3, <1>4, <1>5

LEMMA CreateWInv == WInv /\ Create => WInv'
<1> SUFFICES ASSUME WInv, Create PROVE WInv'
  OBVIOUS
<1> USE DEF WInv, ntfsVars, Extracted
<1>1. TypeOK'
  BY Contents DEF TypeOK, Create, Places
<1>2. (FlowInv /\ WriteInv /\ DataInv)'
  BY DEF Create, TypeOK, Paths, Downloads, FlowInv, WriteInv, DataInv
<1>3. (PartialOnlyIfInterrupted /\ CosmogonyIsOfThisBuild /\ NtfsIsWhole)'
  BY DEF Create, Exists, PartialOnlyIfInterrupted, CosmogonyIsOfThisBuild, NtfsIsWhole
<1>4. (StartInv /\ FooInv /\ UrlInv)'
  BY Contents DEF Create, TypeOK, Paths, Downloads, StartInv, FooInv, UrlInv
<1>5. (ZipInv /\ NtfsIsFresh)'
  BY DEF Create, Exists, ZipInv, NtfsIsFresh
<1>. QED
  BY <1>1, <1>2, <1>3, <1>4, <1>5

LEMMA WriteWInv == WInv /\ Write => WInv'
<1> SUFFICES ASSUME WInv, Write PROVE WInv'
  OBVIOUS
<1> USE DEF WInv, ntfsVars, Extracted
<1>1. TypeOK'
  BY AfterDownloadCases, Contents DEF TypeOK, Write, Places
<1>2. (FlowInv /\ WriteInv /\ DataInv)'
  BY AfterDownloadCases, Contents DEF Write, TypeOK, FlowInv, WriteInv, DataInv, Exists
<1>3. (PartialOnlyIfInterrupted /\ CosmogonyIsOfThisBuild /\ NtfsIsWhole)'
  BY AfterDownloadCases, Contents
     DEF Write, TypeOK, Exists, Paths, Downloads, PartialOnlyIfInterrupted,
         CosmogonyIsOfThisBuild, NtfsIsWhole
<1>4. (StartInv /\ FooInv /\ UrlInv)'
  BY AfterDownloadCases, Contents DEF Write, TypeOK, StartInv, FooInv, UrlInv
<1>5. (ZipInv /\ NtfsIsFresh)'
  BY AfterDownloadCases, Contents
     DEF Write, TypeOK, Exists, WriteInv, StartInv, ZipInv, NtfsIsFresh
<1>. QED
  BY <1>1, <1>2, <1>3, <1>4, <1>5

LEMMA WriteShortWInv == WInv /\ WriteShort => WInv'
<1> SUFFICES ASSUME WInv, WriteShort PROVE WInv'
  OBVIOUS
<1> USE DEF WInv, ntfsVars, Extracted
<1>1. TypeOK'
  BY AfterDownloadCases DEF TypeOK, WriteShort, Places
<1>2. (FlowInv /\ WriteInv /\ DataInv)'
  BY AfterDownloadCases, Contents
     DEF WriteShort, TypeOK, FlowInv, WriteInv, DataInv, Exists
<1>3. (PartialOnlyIfInterrupted /\ CosmogonyIsOfThisBuild /\ NtfsIsWhole)'
  BY AfterDownloadCases
     DEF WriteShort, Exists, PartialOnlyIfInterrupted, CosmogonyIsOfThisBuild,
         NtfsIsWhole
<1>4. (StartInv /\ FooInv /\ UrlInv)'
  BY AfterDownloadCases DEF WriteShort, StartInv, FooInv, UrlInv
<1>5. (ZipInv /\ NtfsIsFresh)'
  BY AfterDownloadCases, Contents
     DEF WriteShort, TypeOK, Exists, WriteInv, StartInv, ZipInv, NtfsIsFresh
<1>. QED
  BY <1>1, <1>2, <1>3, <1>4, <1>5

LEMMA ReadCatalogueWInv == WInv /\ ReadCatalogue => WInv'
<1> SUFFICES ASSUME WInv, ReadCatalogue PROVE WInv'
  OBVIOUS
<1> USE DEF WInv, ntfsVars, Extracted
<1>1. TypeOK'
  <2>1. disk["foo"].whole => disk["foo"].version \in Versions
    BY Contents DEF TypeOK, Paths, Downloads
  <2>. QED
    BY <2>1 DEF TypeOK, ReadCatalogue, Places
<1>2. (FlowInv /\ WriteInv /\ DataInv)'
  BY DEF ReadCatalogue, FlowInv, WriteInv, DataInv
<1>3. (PartialOnlyIfInterrupted /\ CosmogonyIsOfThisBuild /\ NtfsIsWhole)'
  BY DEF ReadCatalogue, Exists, PartialOnlyIfInterrupted, CosmogonyIsOfThisBuild,
         NtfsIsWhole
<1>4. (StartInv /\ FooInv /\ UrlInv)'
  BY DEF ReadCatalogue, StartInv, FooInv, UrlInv
<1>5. (ZipInv /\ NtfsIsFresh)'
  BY DEF ReadCatalogue, Exists, ZipInv, NtfsIsFresh
<1>. QED
  BY <1>1, <1>2, <1>3, <1>4, <1>5

LEMMA ForgetCatalogueWInv == WInv /\ ForgetCatalogue => WInv'
<1> SUFFICES ASSUME WInv, ForgetCatalogue PROVE WInv'
  OBVIOUS
<1> USE DEF WInv, ntfsVars, Extracted
<1>1. TypeOK'
  BY DEF TypeOK, ForgetCatalogue, Places, Downloads
<1>2. (FlowInv /\ WriteInv /\ DataInv)'
  BY DEF ForgetCatalogue, FlowInv, WriteInv, DataInv
<1>3. (PartialOnlyIfInterrupted /\ CosmogonyIsOfThisBuild /\ NtfsIsWhole)'
  BY DEF ForgetCatalogue, Exists, PartialOnlyIfInterrupted, CosmogonyIsOfThisBuild,
         NtfsIsWhole
<1>4. (StartInv /\ FooInv /\ UrlInv)'
  BY Contents DEF ForgetCatalogue, TypeOK, Paths, Downloads, StartInv, FooInv, UrlInv
<1>5. (ZipInv /\ NtfsIsFresh)'
  BY DEF ForgetCatalogue, Exists, ZipInv, NtfsIsFresh
<1>. QED
  BY <1>1, <1>2, <1>3, <1>4, <1>5

(* What unzip leaves, whether it succeeds or not, is of its type. *)
LEMMA OverwrittenType ==
  ASSUME TypeOK, disk["zip"].version \in Versions, NEW done, NEW cut
  PROVE  Overwritten(done, cut) \in [NtfsFiles -> Piece \cup {NoPiece}]
<1> SUFFICES ASSUME NEW f \in NtfsFiles
             PROVE  (IF f \in done \cup cut
                     THEN [version |-> disk["zip"].version, whole |-> f \in done]
                     ELSE extracted[f]) \in Piece \cup {NoPiece}
  BY DEF Overwritten
<1>1. extracted[f] \in Piece \cup {NoPiece}
  BY DEF TypeOK
<1>2. [version |-> disk["zip"].version, whole |-> f \in done] \in Piece
  BY DEF Piece
<1>. QED
  BY <1>1, <1>2

(* A successful extraction has put every file of the archive in its place. *)
LEMMA OverwrittenWhole ==
  ASSUME disk["zip"].version \in Versions,
         NEW f \in Archived[disk["zip"].version]
  PROVE  Overwritten(Archived[disk["zip"].version], {})[f]
           = [version |-> disk["zip"].version, whole |-> TRUE]
<1>1. f \in NtfsFiles
  BY ArchivedAssumption DEF Versions
<1>. QED
  BY <1>1 DEF Overwritten

LEMMA UnzipWInv == WInv /\ Unzip => WInv'
<1> SUFFICES ASSUME WInv, Unzip PROVE WInv'
  OBVIOUS
<1> USE DEF WInv
<1>0. /\ disk["zip"] \in Content /\ disk["zip"].version \in Versions
      /\ disk["zip"].version \in Nat
  <2>1. disk["zip"] \in Content
    BY DEF TypeOK, Unzip, FlowInv, Exists, Paths, Downloads
  <2>2. disk["zip"].version \in Versions
    BY <2>1, Contents
  <2>. QED
    BY <2>1, <2>2, MaxVersionAssumption DEF Versions
<1>a. /\ pc = "unzip" /\ pc' \in {"tidy", "discard"}
      /\ UNCHANGED <<server, disk, data_source, target, url, body, started>>
      /\ UNCHANGED <<interrupted, abandoned>>
  BY DEF Unzip
<1>b. pc' = "tidy" =>
        unpacked' = disk["zip"].version /\ extracted' = Overwritten(Archived[unpacked'], {})
  BY DEF Unzip
<1>c. extracted' \in [NtfsFiles -> Piece \cup {NoPiece}] /\ unpacked' \in Versions
  BY <1>0, OverwrittenType DEF Unzip, TypeOK
<1>1. TypeOK'
  BY <1>a, <1>c DEF TypeOK, Places
<1>2. (FlowInv /\ WriteInv)'
  BY <1>a DEF FlowInv, WriteInv, Exists
<1>3. DataInv'
  <2> SUFFICES ASSUME pc' = "tidy", NEW f \in Archived[unpacked']
               PROVE  extracted'[f] = [version |-> unpacked', whole |-> TRUE]
    BY DEF DataInv, Extracted
  <2>. QED
    BY <1>0, <1>b, OverwrittenWhole
<1>4. (PartialOnlyIfInterrupted /\ CosmogonyIsOfThisBuild /\ NtfsIsWhole)'
  BY <1>a DEF Exists, PartialOnlyIfInterrupted, CosmogonyIsOfThisBuild, NtfsIsWhole
<1>5. (StartInv /\ FooInv /\ UrlInv)'
  BY <1>a DEF StartInv, FooInv, UrlInv
<1>6. (ZipInv /\ NtfsIsFresh)'
  BY <1>a, <1>b DEF ZipInv, NtfsIsFresh, Exists
<1>. QED
  BY <1>1, <1>2, <1>3, <1>4, <1>5, <1>6

LEMMA RemoveArchiveWInv == WInv /\ RemoveArchive => WInv'
<1> SUFFICES ASSUME WInv, RemoveArchive PROVE WInv'
  OBVIOUS
<1> USE DEF WInv
<1>0. UNCHANGED <<extracted, unpacked>> /\ (Extracted => Extracted')
  BY DEF RemoveArchive, ntfsVars, Extracted
<1>1. TypeOK'
  BY <1>0 DEF TypeOK, RemoveArchive, Places
<1>2. (FlowInv /\ WriteInv /\ DataInv)'
  BY DEF RemoveArchive, FlowInv, WriteInv, DataInv
<1>3. (PartialOnlyIfInterrupted /\ CosmogonyIsOfThisBuild)'
  BY DEF RemoveArchive, Exists, FlowInv, PartialOnlyIfInterrupted, CosmogonyIsOfThisBuild
<1>4. NtfsIsWhole'
  <2>1. pc' = "index" => Extracted'
    BY <1>0 DEF RemoveArchive, DataInv
  <2>. QED
    BY <2>1 DEF NtfsIsWhole, Extracted
<1>5. (StartInv /\ FooInv /\ UrlInv)'
  BY DEF RemoveArchive, StartInv, FooInv, UrlInv
<1>6. ZipInv'
  BY DEF RemoveArchive, TypeOK, Exists, Paths, Downloads, ZipInv
<1>7. NtfsIsFresh'
  <2> SUFFICES ASSUME pc' = "index", {"foo", "zip"} \cap abandoned' = {}
               PROVE  /\ unpacked' >= started'
                      /\ \A f \in Archived[unpacked'] : extracted'[f].version >= started'
    BY DEF NtfsIsFresh
  <2>1. pc = "tidy" /\ UNCHANGED <<started, abandoned>>
    BY DEF RemoveArchive
  <2>2. unpacked >= started /\ Extracted
    BY <2>1 DEF ZipInv, DataInv
  <2>3. \A f \in Archived[unpacked] : extracted[f].version = unpacked
    BY <2>2 DEF Extracted
  <2>. QED
    BY <1>0, <2>1, <2>2, <2>3
<1>. QED
  BY <1>1, <1>2, <1>3, <1>4, <1>5, <1>6, <1>7

LEMMA GenerateWInv == WInv /\ Generate => WInv'
<1> SUFFICES ASSUME WInv, Generate PROVE WInv'
  OBVIOUS
<1> USE DEF WInv, ntfsVars, Extracted
<1>1. TypeOK'
  <2>1. disk["pbf"] \in Content
    BY DEF TypeOK, Generate, FlowInv, Exists, Paths, Downloads
  <2>2. Partial(disk["pbf"]) \in Content
    BY <2>1, Contents
  <2>. QED
    BY <2>2 DEF TypeOK, Generate, Places
<1>2. (FlowInv /\ WriteInv /\ DataInv)'
  BY DEF Generate, FlowInv, WriteInv, DataInv, Exists
<1>3. (PartialOnlyIfInterrupted /\ CosmogonyIsOfThisBuild /\ NtfsIsWhole)'
  BY DEF Generate, Exists, Downloads, PartialOnlyIfInterrupted, CosmogonyIsOfThisBuild,
         NtfsIsWhole
<1>4. (StartInv /\ FooInv /\ UrlInv)'
  BY DEF Generate, StartInv, FooInv, UrlInv
<1>5. (ZipInv /\ NtfsIsFresh)'
  BY DEF Generate, Exists, ZipInv, NtfsIsFresh
<1>. QED
  BY <1>1, <1>2, <1>3, <1>4, <1>5

LEMMA GeneratedWInv == WInv /\ Generated => WInv'
<1> SUFFICES ASSUME WInv, Generated PROVE WInv'
  OBVIOUS
<1> USE DEF WInv, ntfsVars, Extracted
<1>1. TypeOK'
  BY DEF TypeOK, Generated, Places, Paths, Downloads
<1>2. (FlowInv /\ WriteInv /\ DataInv)'
  BY DEF Generated, FlowInv, WriteInv, DataInv
<1>3. (PartialOnlyIfInterrupted /\ CosmogonyIsOfThisBuild /\ NtfsIsWhole)'
  BY DEF Generated, TypeOK, Exists, Paths, Downloads, FlowInv,
         PartialOnlyIfInterrupted, CosmogonyIsOfThisBuild, NtfsIsWhole
<1>4. (StartInv /\ FooInv /\ UrlInv)'
  BY DEF Generated, TypeOK, Paths, Downloads, StartInv, FooInv, UrlInv
<1>5. (ZipInv /\ NtfsIsFresh)'
  BY DEF Generated, TypeOK, Exists, Paths, Downloads, FlowInv, ZipInv, NtfsIsFresh
<1>. QED
  BY <1>1, <1>2, <1>3, <1>4, <1>5

LEMMA IndexWInv == WInv /\ Index => WInv'
<1> SUFFICES ASSUME WInv, Index PROVE WInv'
  OBVIOUS
<1> USE DEF WInv, ntfsVars, Extracted
<1>1. TypeOK'
  BY DEF TypeOK, Index, Places
<1>2. (FlowInv /\ WriteInv /\ DataInv)'
  BY DEF Index, FlowInv, WriteInv, DataInv
<1>3. (PartialOnlyIfInterrupted /\ CosmogonyIsOfThisBuild /\ NtfsIsWhole)'
  BY DEF Index, Exists, PartialOnlyIfInterrupted, CosmogonyIsOfThisBuild, NtfsIsWhole
<1>4. (StartInv /\ FooInv /\ UrlInv)'
  BY DEF Index, StartInv, FooInv, UrlInv
<1>5. (ZipInv /\ NtfsIsFresh)'
  BY DEF Index, Exists, ZipInv, NtfsIsFresh
<1>. QED
  BY <1>1, <1>2, <1>3, <1>4, <1>5

LEMMA CallFailsWInv == WInv /\ CallFails => WInv'
<1> SUFFICES ASSUME WInv, CallFails PROVE WInv'
  OBVIOUS
<1> USE DEF WInv, ntfsVars, Extracted
<1>1. TypeOK'
  BY DEF TypeOK, CallFails, Places
<1>2. (FlowInv /\ WriteInv /\ DataInv)'
  BY DEF CallFails, FlowInv, WriteInv, DataInv
<1>3. (PartialOnlyIfInterrupted /\ CosmogonyIsOfThisBuild /\ NtfsIsWhole)'
  BY DEF CallFails, Exists, PartialOnlyIfInterrupted, CosmogonyIsOfThisBuild, NtfsIsWhole
<1>4. (StartInv /\ FooInv /\ UrlInv)'
  BY DEF CallFails, FlowInv, StartInv, FooInv, UrlInv
<1>5. (ZipInv /\ NtfsIsFresh)'
  BY DEF CallFails, Exists, FlowInv, ZipInv, NtfsIsFresh
<1>. QED
  BY <1>1, <1>2, <1>3, <1>4, <1>5

LEMMA CrashWInv == WInv /\ Crash => WInv'
<1> SUFFICES ASSUME WInv, Crash PROVE WInv'
  OBVIOUS
<1> USE DEF WInv, ntfsVars, Extracted
<1>1. TypeOK'
  BY DEF TypeOK, Crash, Places
<1>2. (FlowInv /\ WriteInv /\ DataInv)'
  BY DEF Crash, FlowInv, WriteInv, DataInv
<1>3. (PartialOnlyIfInterrupted /\ CosmogonyIsOfThisBuild /\ NtfsIsWhole)'
  BY DEF Crash, Exists, PartialOnlyIfInterrupted, CosmogonyIsOfThisBuild, NtfsIsWhole
<1>4. (StartInv /\ FooInv /\ UrlInv)'
  BY DEF Crash, FlowInv, StartInv, FooInv, UrlInv
<1>5. (ZipInv /\ NtfsIsFresh)'
  BY DEF Crash, Exists, FlowInv, ZipInv, NtfsIsFresh
<1>. QED
  BY <1>1, <1>2, <1>3, <1>4, <1>5

LEMMA RefreshWInv == WInv /\ Refresh => WInv'
<1> SUFFICES ASSUME WInv, Refresh PROVE WInv'
  OBVIOUS
<1> USE DEF WInv, ntfsVars, Extracted
<1>1. TypeOK'
  <2>1. server.version + 1 \in Versions
    BY MaxVersionAssumption DEF Refresh, TypeOK, Served, Versions
  <2>2. server' \in Served
    BY <2>1 DEF Refresh, Served
  <2>. QED
    BY <2>2 DEF TypeOK, Refresh
<1>2. (FlowInv /\ WriteInv /\ DataInv)'
  BY DEF Refresh, FlowInv, WriteInv, DataInv, Exists
<1>3. (PartialOnlyIfInterrupted /\ CosmogonyIsOfThisBuild /\ NtfsIsWhole)'
  BY DEF Refresh, Exists, PartialOnlyIfInterrupted, CosmogonyIsOfThisBuild, NtfsIsWhole
<1>4. (StartInv /\ FooInv /\ UrlInv)'
  BY Numbers DEF Refresh, StartInv, FooInv, UrlInv
<1>5. (ZipInv /\ NtfsIsFresh)'
  BY DEF Refresh, Exists, ZipInv, NtfsIsFresh
<1>. QED
  BY <1>1, <1>2, <1>3, <1>4, <1>5

LEMMA BeginWInv == ASSUME NEW d \in DataSources, WInv, Begin(d) PROVE WInv'
<1> USE DEF WInv, ntfsVars, Extracted
<1>. d \in {"osm", "cosmogony", "bano", "ntfs"}
  BY DataSourcesAssumption
<1>1. TypeOK'
  BY MaxVersionAssumption
     DEF TypeOK, Begin, FirstTarget, Places, Downloads, Served, Versions
<1>2. (FlowInv /\ WriteInv /\ DataInv)'
  BY DEF Begin, FlowInv, WriteInv, DataInv
<1>3. (PartialOnlyIfInterrupted /\ CosmogonyIsOfThisBuild /\ NtfsIsWhole)'
  BY DEF Begin, Exists, PartialOnlyIfInterrupted, CosmogonyIsOfThisBuild, NtfsIsWhole
<1>4. (StartInv /\ FooInv /\ UrlInv)'
  BY Numbers DEF Begin, FirstTarget, StartInv, FooInv, UrlInv
<1>5. (ZipInv /\ NtfsIsFresh)'
  BY DEF Begin, Exists, ZipInv, NtfsIsFresh
<1>. QED
  BY <1>1, <1>2, <1>3, <1>4, <1>5

LEMMA InitWInv == Init => WInv
<1> SUFFICES ASSUME Init PROVE WInv
  OBVIOUS
<1>0. 0 \in Versions
  BY MaxVersionAssumption DEF Versions
<1>1. TypeOK
  BY <1>0 DEF Init, TypeOK, Served, Places, Downloads
<1>2. \A p \in Paths : disk[p] = NoFile
  BY DEF Init
<1>3. \A p \in Paths : ~Exists(p) /\ disk[p].whole = FALSE
  BY <1>2, Contents DEF Exists
<1>4. FlowInv /\ WriteInv /\ DataInv
  BY DEF Init, FlowInv, WriteInv, DataInv
<1>5. PartialOnlyIfInterrupted /\ CosmogonyIsOfThisBuild /\ NtfsIsWhole /\ NtfsIsFresh
  BY <1>3 DEF Init, Paths, Downloads,
       PartialOnlyIfInterrupted, CosmogonyIsOfThisBuild, NtfsIsWhole, NtfsIsFresh
<1>6. StartInv /\ FooInv /\ UrlInv /\ ZipInv
  BY <1>3 DEF Init, Paths, Downloads, StartInv, FooInv, UrlInv, ZipInv
<1>. QED
  BY <1>1, <1>4, <1>5, <1>6 DEF WInv

LEMMA StepWInv == WInv /\ [Next]_vars => WInv'
<1> SUFFICES ASSUME WInv, [Next]_vars PROVE WInv'
  OBVIOUS
<1>1. CASE UNCHANGED vars
  <2> USE <1>1 DEF vars, ntfsVars, WInv
  <2>1. TypeOK'
    BY DEF TypeOK
  <2>2. (FlowInv /\ WriteInv /\ DataInv)'
    BY DEF FlowInv, WriteInv, DataInv, Extracted, Exists
  <2>3. (PartialOnlyIfInterrupted /\ CosmogonyIsOfThisBuild /\ NtfsIsWhole)'
    BY DEF PartialOnlyIfInterrupted, CosmogonyIsOfThisBuild, NtfsIsWhole, Exists
  <2>4. (StartInv /\ FooInv /\ UrlInv /\ ZipInv /\ NtfsIsFresh)'
    BY DEF StartInv, FooInv, UrlInv, ZipInv, NtfsIsFresh, Exists
  <2>. QED
    BY <2>1, <2>2, <2>3, <2>4
<1>2. ASSUME NEW d \in DataSources, Begin(d) PROVE WInv'
  BY <1>2, BeginWInv
<1>. QED
  BY <1>1, <1>2, LookupWInv, GetWInv, GetFailsWInv, CreateWInv, WriteWInv, WriteShortWInv,
     ReadCatalogueWInv, ForgetCatalogueWInv, UnzipWInv, RemoveArchiveWInv,
     GenerateWInv, GeneratedWInv, IndexWInv, CallFailsWInv, CrashWInv, RefreshWInv
     DEF Next

(* All of WInv holds throughout. *)
THEOREM Inductive == Spec => []WInv
BY InitWInv, StepWInv, PTL DEF Spec

-----------------------------------------------------------------------------
(* The directory, the build and the servers keep to their types. *)
THEOREM WorkDirTypeCorrect == Spec => []TypeOK
<1>1. WInv => TypeOK
  BY DEF WInv
<1>. QED
  BY <1>1, Inductive, PTL

(* download() never leaves a part of a response behind because a transfer  *)
(* failed: only an interrupted write does.                                 *)
THEOREM NoPartialDownload == Spec => []PartialOnlyIfInterrupted
<1>1. WInv => PartialOnlyIfInterrupted
  BY DEF WInv
<1>. QED
  BY <1>1, Inductive, PTL

(* What cosmogony2mimir indexes was made completely from the present pbf,  *)
(* whatever happened to earlier builds.                                    *)
THEOREM CosmogonyIsIndexedAfresh == Spec => []CosmogonyIsOfThisBuild
<1>1. WInv => CosmogonyIsOfThisBuild
  BY DEF WInv
<1>. QED
  BY <1>1, Inductive, PTL

(* Every file of the archive that a build extracts is there, complete and  *)
(* from that archive, when ntfs2mimir is called, whatever whole or partial *)
(* files earlier extractions left in the directory.                        *)
THEOREM NtfsIsIndexedWhole == Spec => []NtfsIsWhole
<1>1. WInv => NtfsIsWhole
  BY DEF WInv
<1>. QED
  BY <1>1, Inductive, PTL

(* Every file of the archive that ntfs2mimir is called for is as new as    *)
(* the beginning of the build, unless a build broke off at the list or the *)
(* archive that is on the disk.                                            *)
THEOREM NtfsIsIndexedFresh == Spec => []NtfsIsFresh
<1>1. WInv => NtfsIsFresh
  BY DEF WInv
<1>. QED
  BY <1>1, Inductive, PTL

(* A download of OSM or BANO data, and a list that led nowhere, is never   *)
(* replaced or removed: no step of a build changes a file that is Kept.    *)
THEOREM DownloadsAreForEver == Spec => CacheIsForEver
<1>1. WInv /\ [Next]_vars => [\A p \in Downloads : Kept(p) => disk'[p] = disk[p]]_vars
  <2> SUFFICES ASSUME WInv, [Next]_vars, NEW p \in Downloads, Kept(p)
               PROVE  disk'[p] = disk[p]
    OBVIOUS
  <2>1. TypeOK /\ FlowInv
    BY DEF WInv
  <2>2. disk \in [Paths -> Content \cup {NoFile}] /\ p \in Paths /\ target \in Paths
    BY <2>1 DEF TypeOK, Paths, Downloads
  <2>3. CASE UNCHANGED disk
    BY <2>3
  <2>4. CASE Create
    BY <2>1, <2>2, <2>4 DEF Create, FlowInv, Kept
  <2>5. CASE Write
    BY <2>1, <2>2, <2>5 DEF Write, Kept
  <2>6. CASE ForgetCatalogue
    BY <2>1, <2>2, <2>6 DEF ForgetCatalogue, FlowInv, Kept
  <2>7. CASE Unzip
    BY <2>7 DEF Unzip
  <2>8. CASE RemoveArchive
    BY <2>2, <2>8 DEF RemoveArchive, Kept
  <2>9. CASE Generate \/ Generated
    BY <2>2, <2>9 DEF Generate, Generated, Paths, Downloads
  <2>. QED
    BY <2>3, <2>4, <2>5, <2>6, <2>7, <2>8, <2>9
       DEF Next, vars, Begin, Lookup, Get, GetFails,
       WriteShort, ReadCatalogue, Index, CallFails, Crash, Refresh
<1>. QED
  BY <1>1, Inductive, PTL DEF Spec, CacheIsForEver
=============================================================================
