\* Every table of three rows under every query of the instance, page by page.
SPECIFICATION Spec
CONSTANTS
  Tables <- SmallTables
  Queries <- SomeQueries
  Exact = 16
  Pieces <- Halves
  MaxAnswer = 4
INVARIANTS
  PagesAreTheAnswer
  GroupsAreTheAnswer
CHECK_DEADLOCK FALSE
