\* A server that reuses IDs and opens without closing; IDs wrap around.
CONSTANTS
    JavaIDs <- TwoIDs
    MaxWindowID = 2
    Positions <- OnePosition
    OrderlyServer = FALSE
    ClientConfirms = TRUE
    MaxInFlight = 1
SPECIFICATION Spec
INVARIANTS TypeOK TablesAgree
