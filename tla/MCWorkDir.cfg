SPECIFICATION Spec
CONSTANTS
  DataSources = {"osm", "cosmogony", "bano", "ntfs"}
  MaxVersion = 1
  NtfsFiles = {"stops", "lines"}
  Archived <- MCArchived
INVARIANTS
  TypeOK
  PartialOnlyIfInterrupted
  CosmogonyIsOfThisBuild
  NtfsIsWhole
  NtfsIsFresh
PROPERTIES
  CacheIsForEver
