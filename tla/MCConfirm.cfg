SPECIFICATION FairSpec
CONSTANTS
    Worker = worker
    Handlers = {h1}
    HandlerOps = {"refresh","confirm","checkOMS"}
    Packages = {p1}
    Carriers = {c1}
    NoCarrier = NoCarrier
    Timeouts = {"confirm","result","oms"}
    Refusals = {"confirm","result"}
    PrintOutcomes = {"ready","untracked","failed"}
    Faults = {"manual"}
    MaxSubmissionAttempts = 2
    MaxConfirmationAttempts = 2
    MaxSteps = 4
    MaxRequests = 2
    MaxInterrupts = 0
INVARIANTS ShippedIsConfirmed UncountedIsUnconfirmed
PROPERTIES ReadyLabelIsConfirmed
