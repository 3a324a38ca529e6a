SPECIFICATION FairSpec
CONSTANTS
    old = old  new = new  torn = torn  noFile = noFile  p600 = p600
    p755 = p755  root = root  svc = svc  ghost = ghost
    OSes <- MCAllOSes
    Bodies = {old, new}  Torn = torn  NoFile = noFile
    Perms = {p600, p755}  TempPerm = p600
    Owners = {root, svc}  Root = root  Unknown = ghost
    MaxFaults = 2
INVARIANTS
    TypeOK
    ReadersSeeWholeFiles
    ErrorLeavesNothing
    NeverTorn
PROPERTIES
    KeepsContract
    EventuallyLanded
