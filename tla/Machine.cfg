SPECIFICATION FairSpec
CONSTANTS
    Configs = {"a", "b"}
    Sources = {"seed", "net"}
    Booted = {"seed", "net"}
    Pinned = "net"
    Items = 2
    OperatorRuns <- MCOperatorRuns
    Offers <- MCOffers
    Rank <- MCRank
    Broken = "broken"
    Nothing = "nothing"
    Pending = Pending
    NotFound = NotFound
    NoAnswer = NoAnswer
    MaxFaults = 2
INVARIANTS
    MarkerTellsTheHost
PROPERTIES
    EventuallyMarked
