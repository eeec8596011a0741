SPECIFICATION Spec
CONSTANTS
  MaxItems = 3
  MaxParts = 2
INVARIANTS
  TypeOK
  OnlyTheOpenWriterIsLive
  DoneItemsKeepTheirForm
  TerminalStatuses
PROPERTY ImplementsLifecycle
