SPECIFICATION Spec
CONSTANTS
    Worker = worker
    Handlers = {}
    HandlerOps = {}
    Packages = {p1, p2}
    Carriers = {c1, c2}
    NoCarrier = NoCarrier
    Timeouts = {"quote", "inventory", "create", "detail", "result", "confirm", "oms"}
    Refusals = {"quote", "inventory", "create", "detail", "result", "confirm"}
    PrintOutcomes = {"ready", "untracked", "failed", "address"}
    Faults = {"duplicates", "address", "failedPackage", "unlisted", "manual", "closing"}
    MaxSubmissionAttempts = 3
    MaxConfirmationAttempts = 3
    MaxSteps = 4
    MaxRequests = 0
    MaxInterrupts = 2
INVARIANTS TypeOK AtMostOneLabel AutomaticSubmissionsBounded FallbackAvoidsFailedCarriers

