SPECIFICATION Spec
CONSTANTS
    Worker = worker
    Handlers = {h1}
    HandlerOps = {"purchase", "refresh", "recover"}
    Packages = {p1, p2}
    Carriers = {c1, c2}
    NoCarrier = NoCarrier
    Timeouts = {"create"}
    Refusals = {}
    PrintOutcomes = {}
    Faults = {"late", "lag", "duplicates", "address"}
    MaxSubmissionAttempts = 2
    MaxConfirmationAttempts = 2
    MaxSteps = 4
    MaxRequests = 2
    MaxInterrupts = 0
SYMMETRY Symmetry
INVARIANTS LabelsWithinAttempts ShipmentHasJob
