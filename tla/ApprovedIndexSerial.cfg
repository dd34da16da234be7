SPECIFICATION FairSpec
CONSTANTS
  Tasks = {t1}
  Locks <- MCLocks
  FirstLock <- MCFirstLock
  PublicLocks <- MCPublicLocks
  HashedLocks <- MCHashedLocks
  Members <- MCMembers
  MaxLines = 4
  None = None
  Reverts = FALSE
  MaxFailures = 2
INVARIANTS
  TypeOK
  UsedIsBuilt
  TrustedIsBuilt
  ExportCheckIsExact
PROPERTIES
  NoPublicOverApproved
  SyncRecovers
