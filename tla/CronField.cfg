SPECIFICATION TurnSpec
CONSTANTS
  NaN = NaN
  Fields <- MCFields
INVARIANTS
  FieldsFireAsWritten
CHECK_DEADLOCK FALSE
