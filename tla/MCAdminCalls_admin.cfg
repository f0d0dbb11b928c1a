CONSTANTS
  Workers = {w1, w2}
  Nobody = Nobody
  Destinations <- MCDestinations
  AllowAny = TRUE
  SkipDns = FALSE
  MaxWalkLeaves = 4
  MaxAttempts = 2
  Calls <- MCCalls
  Overlapping <- MCOverlapping
  Payloads <- MCPayloads
  Statements <- MCStatements
  Values = {1}
  Unset = Unset
  Gone = Gone
  NoCall = NoCall
  ReadOnlyMode = FALSE
  MaxFaults = 2
  MaxEdits = 1
SPECIFICATION Spec
CHECK_DEADLOCK FALSE
INVARIANTS AdminInv ChangeInv ConnectionInv
PROPERTIES CallsEnd
