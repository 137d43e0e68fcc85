SPECIFICATION Spec
CONSTANTS
    Worker = worker
    Handlers = {h1}
    HandlerOps = {"purchase", "refresh", "confirm"}
    Packages = {p1}
    Carriers = {c1}
    NoCarrier = NoCarrier
    Timeouts = {"create", "detail", "confirm"}
    Refusals = {}
    PrintOutcomes = {"ready"}
    Faults = {}
    MaxSubmissionAttempts = 2
    MaxConfirmationAttempts = 2
    MaxSteps = 4
    MaxRequests = 2
    MaxInterrupts = 1
PROPERTIES ConfirmedStays OutcomeKept
