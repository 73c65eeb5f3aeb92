SPECIFICATION StoreSpec
CONSTANTS
  c1 = c1
  c2 = c2
  c3 = c3
  i1 = i1
  i2 = i2
  None = None
  NoFile = NoFile
  Torn = Torn
  Calls = {c1, c2, c3}
  Instances = {i1, i2}
  InstanceOf <- MCInstanceOf
  Txns = {t1, t2}
  Identities <- MCIdentities
  MaxRecords = 1
  MaxRevision = 2
  Contents <- MCContents
SYMMETRY Symmetry
INVARIANTS
    RefusedIsNotWritten
    ReadsSeeApplied
PROPERTIES
    SurvivingLockBlocks
    ImplementsDurableCas
CHECK_DEADLOCK FALSE
