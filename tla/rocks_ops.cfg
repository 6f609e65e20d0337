\* All requests on rows with a in 0 .. 2, the rest in 0 .. 1: up to six rows.
SPECIFICATION Spec
CONSTANTS
  MaxA = 2
  MaxVal = 1
INVARIANTS TypeOK ScansAgree UpdateExact
