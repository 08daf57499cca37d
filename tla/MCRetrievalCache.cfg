SPECIFICATION FairSpec
CONSTANTS
  s1 = s1
  s2 = s2
  w1 = w1
  w2 = w2
  d1 = d1
  d2 = d2
  Earlier = Earlier
  NoVersion = NoVersion
  Nobody = Nobody
  Ghost = Ghost
  Searches <- MCSearches
  Updates <- MCUpdates
  Documents <- MCDocuments
  Old <- MCOld
  Faulty <- MCFaulty
  Targets <- SameOrNot
  Grounded = TRUE
  Faults <- UpToRestart
INVARIANTS
  TypeOK
  EntriesReflectAnnounced
PROPERTIES
  SearchBounds
  LockTakenByOwner
  SearchesEnd
