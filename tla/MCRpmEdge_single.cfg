CONSTANTS
  Width = 2
  MinEdge = 1
  Timeout = {1}
  MaxLate = 0
  MaxAge = 1
  FreqCap = 2
SPECIFICATION EdgeSpec
PROPERTY HeadAdvances
