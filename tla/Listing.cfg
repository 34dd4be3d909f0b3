CONSTANTS
  Cases <- MCCases
  MaxInt = 13
SPECIFICATION Spec
INVARIANTS CopiedOnce LightsNamed NumberedThrough
CHECK_DEADLOCK FALSE
