SPECIFICATION Spec
CONSTANTS
    k1 = k1  k2 = k2  cut = cut  alice = alice  root = root
    noFile = noFile  noDir = noDir
    OSes <- MCOSes
    Keys = {k1, k2}  Cut = cut  Account = alice  Root = root
    NoFile = noFile  NoDir = noDir
    Asked <- MCAsked  Existing <- MCExisting
    MaxLines = 4  MaxFaults = 2
INVARIANTS
    SuccessListsKey
    WrittenFileIsUsable
    NoKeyTwice
PROPERTY
    LinuxLosesNoKey
