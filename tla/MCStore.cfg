CONSTANTS
  Tasks = {t1, t2, t3}
  Statuses = {"NotAvailable", "Available"}
  Default = "NotAvailable"
  PoolSize = 2
  MaxCalls = 3
SPECIFICATION FairSpec
INVARIANTS
  TypeOK
  PoolIsSound
  OwnTransaction
PROPERTIES
  ImplementsTable
  EveryCallEnds
