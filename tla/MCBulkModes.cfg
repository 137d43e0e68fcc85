SPECIFICATION FairSpec
CONSTANTS
    Orders = {1, 2}
    Modes = {"direct", "substitution"}
    DirectOrders = {1}
    ReplaceOrders = {1, 2}
    Limit = 1
    Changes = {"label"}
    MaxRequests = 3
    MaxFaults = 1
INVARIANTS BatchReportsItems RunningItemHasJob RunningWithinLimit
PROPERTIES BatchCompletes SucceededStays
