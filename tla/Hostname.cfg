SPECIFICATION FairSpec
CONSTANTS
    web = web  old = old  dhcp = dhcp  none = none  other = other  cut = cut
    OSes = {"linux", "openbsd", "freebsd", "netbsd"}
    Names = {web, old, dhcp}  NoName = none  Other = other  Cut = cut
    Transient = {dhcp}
    Images <- MCImages
    MaxFaults = 2
INVARIANTS
    LiveNameIsDurable
    NothingElseIsLost
PROPERTIES
    KeepsContract
    EventuallyDurable
