SPECIFICATION FairSpec
CONSTANTS
    Orders = {1, 2}
    Modes = {"direct"}
    DirectOrders = {1, 2}
    ReplaceOrders = {1, 2}
    Limit = 1
    Changes = {"closing", "review", "label_failed", "shipped"}
    MaxRequests = 2
    MaxFaults = 1
INVARIANTS TypeOK
PROPERTIES EndedJobIsCounted
