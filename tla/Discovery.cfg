SPECIFICATION Spec
CONSTANTS
    Systems = {"linux", "bsd"}
    Seats <- MCSeats
    DiskKinds <- MCDiskKinds
    NoDisk = NoDisk
    Replies = {"404", "error", "cut", "broken", "config", "badurl"}
    Net = "net"
    Pending = Pending
    NotFound = NotFound
    NoAnswer = NoAnswer
    MaxFaults = 2
INVARIANTS
    NothingStaysMounted
    RemovesNoMountedDisk
PROPERTIES
    ImplementsChoice
