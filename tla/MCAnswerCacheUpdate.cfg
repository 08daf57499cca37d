SPECIFICATION Spec
CONSTANTS
  m1 = m1
  m2 = m2
  m3 = m3
  f1 = f1
  f2 = f2
  answer = answer
  Alone = "none"
  Messages <- MCMessages
  Ratings <- MCRatings
  Asks <- MCAsks
  Similar <- MCSimilar
  Answers <- MCAnswers
  IndexSize = 1
  MaxUpdates = 1
  MaxUnsure = 0
  Faults <- NoFaults
SYMMETRY MCSymmetry
INVARIANTS
  AnswersFollowKnowledge
