SPECIFICATION FairSpec
CONSTANTS
  e1 = e1
  m1 = m1
  m2 = m2
  f1 = f1
  v1 = v1
  None = None
  NoFile = NoFile
  Requests <- StatementAndMigrations
  Kind <- KindOf
  Size <- SizeOf
  File <- FileOf
  Sum <- SameSum
  MaxDepth = 1
INVARIANTS TypeOK MigrationOnce SequenceNamesRun
PROPERTIES StoreSpec AcceptedIsSettled StopTerminates
CHECK_DEADLOCK FALSE
