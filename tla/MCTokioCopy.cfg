CONSTANTS
  FileSize = 4
  Needs = {0, 1, 2, 3}
  MaxOps = 6
SPECIFICATION Spec
INVARIANTS CopyExact ReaderExact
PROPERTY RepolledAnswered
