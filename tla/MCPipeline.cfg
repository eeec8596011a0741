SPECIFICATION Spec
CONSTANTS
  MaxFrames = 4
INVARIANTS
  TypeOK
PROPERTIES
  ImplementsSequence
  ErrIsFinal
  NothingIsLeftBehind
