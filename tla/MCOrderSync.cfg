SPECIFICATION Spec
CONSTANTS
    Orders = {1, 2}
    Handled = {1}
    Contents <- MCContents
    Decisions <- FewDecisions
    Quantities <- MCQuantities
    Background = background
    Operators = {h1}
    Requests = {"preview", "refresh", "pend", "approve", "resolve", "reject", "buy"}
    PageSize = 1
    MaxChanges = 1
    MaxRequests = 2
    MaxFaults = 1
    NoRow = NoRow
    NoReview = NoReview
    Idle = Idle
INVARIANTS TypeOK SeveralItemsReviewed
PROPERTIES CompletedIsFinal AddressStays
