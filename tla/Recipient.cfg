SPECIFICATION Spec
CONSTANTS
  Width = 2
  IdSize = 4
  Short = 1
  Long = 2
  Version = 1
  Bodies = {0, 1, 2, 3}
  Senders <- mcSenders
  Ids <- mcIds
  Amounts = {1, 3, 4, 7}
  Slots = {0, 5, 15}
INVARIANT RecipientSurvives
CHECK_DEADLOCK FALSE
