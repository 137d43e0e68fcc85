SPECIFICATION FairSpec
CONSTANTS
    RegionOf <- MCRegionOf
    Worlds <- MCWorlds
    Offers <- MCOffers
    Requests <- MCRequests
    MaxChanges = 1
    None = None
INVARIANTS TypeOK BoughtWasAllowed ChoiceIgnoresArrival PriceIsJustified
    OptionIsJustified UnchangedQuoteStands SnapshotIsRecordable
PROPERTIES WorkerStops
CHECK_DEADLOCK FALSE
