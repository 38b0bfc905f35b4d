CONSTANTS
  Tasks = {1, 2}
  Keys <- MCKeys
  Limit = 2
  Window = 2
  Lowest <- MCLowest
  Most = 2
SPECIFICATION SlotSpec
PROPERTIES
  CounterHeals
CHECK_DEADLOCK FALSE
