SPECIFICATION FairSpec
CONSTANTS
  a = a
  u1 = u1
  u2 = u2
  u3 = u3
  k1 = k1
  k2 = k2
  NoOne = NoOne
  Uploads <- MCUploads
  Articles <- MCArticles
  Faulty <- MCFaulty
  Codes <- MCCodes
INVARIANTS
  TypeOK
  NumbersUnique
  CurrentAgrees
  CurrentIndexed
  LeftoversExplained
PROPERTIES
  UploadsEnd
  LibraryRefines
