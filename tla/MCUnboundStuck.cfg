SPECIFICATION FairSpec
CONSTANTS
    Orders = {1, 2}
    Handled = {1}
    Contents <- FewContents
    Decisions <- MCDecisions
    Quantities <- MCQuantities
    Background = background
    Operators = {h1}
    Requests = {"preview", "approve"}
    PageSize = 1
    MaxChanges = 1
    MaxRequests = 1
    MaxFaults = 1
    NoRow = NoRow
    NoReview = NoReview
    Idle = Idle
PROPERTIES BoundOrderIsUnblocked
