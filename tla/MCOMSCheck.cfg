SPECIFICATION FairSpec
CONSTANTS
    Worker = worker
    Loop = loop
    Handlers = {h1}
    Views <- MCViews
    MaxRequests = 1
    MaxFaults = 1
INVARIANTS TypeOK OneReconciler ReleaseIsBacked CompletedJobReleased
PROPERTIES TerminalIsFinal VerifiedIsReleased OrderIsJudged PromiseKept
CHECK_DEADLOCK FALSE
