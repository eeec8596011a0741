SPECIFICATION Spec
CONSTANTS
  MaxWild = 5
  MaxLawful = 10
  MaxIndex = 2
  KindOf <- Kinds
INVARIANTS
  TypeOK
  IndexNamesItsItem
  DeltasStayWithTheirItem
  FinishedItemsAreKept
  LawfulStreamsFoldExactly
