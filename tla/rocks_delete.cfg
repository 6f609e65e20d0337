\* Does a delete remove every row that meets its condition?
SPECIFICATION Spec
CONSTANTS
  MaxA = 1
  MaxVal = 1
PROPERTY DeleteExact
