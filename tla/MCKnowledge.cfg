SPECIFICATION KnowledgeSpec
CONSTANTS
  Attempt = {a1, a2, a3}
  Action = {"signin"}
  Subject = {x1, x2}
  Origin = {h1}
  Limit <- MCLimit
  Window <- MCWindow
  MaxAge = 3
  Value = {"A", "B", "E", "F", "cuivre", "ftth", "wholesale", "retail"}
  Field = {"activite", "echec", "canal", "code"}
  Operational = {"op1", "op2"}
  Glossary = {"gl1", "gl2"}
  KeySchema <- MCSchema
  Length <- MCLength
  Bases <- MCBases
  None = None
  Articles <- MCArticles
  MaxWords = 220
  Overlap = 35
  PointWords = 120
  Docs = {"d1", "d2"}
  Content <- MCContent
  Questions <- MCQuestions
  Uploaded = {"d1"}
  LoadBatch = 2
  EmbedBatch = 2
  MaxVersion = 2
  Similarity <- MCSimilarity
  Generic = {"line"}
  Codes = {"F04", "PM"}
  TopK = 2
  NearestPerHit = 1
  RowsPerHit = 2
  FewestRows = 2
  MostCandidates = 2
INVARIANTS
  TypeOK
  CountsTheWindow
  StretchBounded
  
  TextKept
  CurrentContentFound
  SupersededOnlyUnlabelled
PROPERTIES
  LockoutEnds
CHECK_DEADLOCK FALSE
