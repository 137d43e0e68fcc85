SPECIFICATION Spec
CONSTANTS
    Worker = worker
    Handlers = {h1}
    HandlerOps = {"refresh"}
    Packages = {p1, p2}
    Carriers = {c1, c2}
    NoCarrier = NoCarrier
    Timeouts = {"create", "detail"}
    Refusals = {}
    PrintOutcomes = {}
    Faults = {"duplicates"}
    MaxSubmissionAttempts = 2
    MaxConfirmationAttempts = 2
    MaxSteps = 4
    MaxRequests = 1
    MaxInterrupts = 0
SYMMETRY Symmetry
INVARIANT AtMostOneLabel
