SPECIFICATION Spec
CONSTANTS
  MaxAsked = 3
  MaxPushed = 2
  Limit = 2

  
PROPERTIES
  
  ReleasedInTheEnd
CHECK_DEADLOCK FALSE
