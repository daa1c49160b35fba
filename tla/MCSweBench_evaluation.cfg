SPECIFICATION FairSpec
CONSTANTS
  d1 = d1
  d2 = d2
  c1 = c1
  c2 = c2
  Base = Base
  Absent = Absent
  None = None
  Foreign = Foreign
  Ids = {1, 2}
  Configs = 2
  Results = 2
  Commands = {c1}
  Converters = {d1, d2}
  Requests <- Selections
\* The evaluation ends.
CHECK_DEADLOCK FALSE
INVARIANTS
  TypeOK
  SuccessIsVerified
  LinesHaveArtifacts
  DatasetWhole
  PredictionsFaithful
PROPERTIES
  EvaluationEnds
