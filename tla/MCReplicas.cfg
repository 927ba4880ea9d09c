SPECIFICATION Spec
CONSTANTS
  Actors = {0, 1, 2}
  Clients = {1, 2}
  Keys = {"k"}
  Plans <- EditPlans
  BaseSize = 2
  Interleaved = FALSE
INVARIANTS CopiesExact  Convergence
PROPERTY GarbageGoes
