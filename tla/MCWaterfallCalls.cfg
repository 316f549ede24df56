SPECIFICATION Spec
CHECK_DEADLOCK FALSE
CONSTANT Amounts <- MCAmounts
INVARIANTS
  NeverOverdrawn
  AllowedIsFunded
  MatchesReference
  HeadroomNeverHurts
