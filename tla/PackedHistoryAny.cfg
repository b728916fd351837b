SPECIFICATION Spec
CONSTANTS
  NoID = NoID
  id1 = id1
  id2 = id2
  Messages <- AnyMessage
  Budgets = {0, 45, 80}
  MaxLength = 5
INVARIANTS
  RoundsWhole
  WithinBudget
  TailKept
  SystemLeads
  PassesIdle
PROPERTY
  PrefixPinned
CHECK_DEADLOCK FALSE
