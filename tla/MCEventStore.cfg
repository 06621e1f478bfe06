SPECIFICATION Spec
CONSTANTS
  Records <- MCRecords
  MaxSize = 3
  MaxAdds = 5
INVARIANTS
  TypeOK
  IdsAreAWindow
  ReadersAgree
PROPERTY ImplementsAuditWindow
