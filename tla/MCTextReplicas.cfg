SPECIFICATION Spec
CONSTANTS
  Actors = {0, 1, 2}
  Clients = {1, 2}
  Plans <- EditPlans
  BaseText <- TwoChars
  Words <- OneWord
  SnapshotThreshold = 3
  Depth = 2
INVARIANTS CopiesExact TextsConverge
PROPERTY UndoInverts
