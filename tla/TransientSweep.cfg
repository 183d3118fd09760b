\* Three calls on rails of two chips, broken off, retried, with writes stored and with chips
\* powered up between them.
CONSTANTS
  Phases <- MCPhases
  Rails <- MCRails
  Slaves <- MCSlaves
  Low <- MCLow
  High <- MCHigh
  Command <- MCCommand
  Reach = 3
  StoredLimit <- MCStoredLimit
  StoredResponse <- MCStoredResponse
  MaxCalls = 3

SPECIFICATION Spec

INVARIANT TypeOK
INVARIANT NeverTrips
INVARIANT SetUpKept
INVARIANT NeverOverstates
