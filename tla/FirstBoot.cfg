SPECIFICATION FairSpec
CONSTANTS
    web = web  dhcp = dhcp  none = none  p1 = p1  p2 = p2  b1 = b1  b2 = b2
    noFile = noFile  half = half  alice = alice  bob = bob  root = root
    wheel = wheel  ops = ops  k1 = k1  k2 = k2  git = git  nginx = nginx
    enable = enable  start = start
    Names = {web, dhcp}  NoName = none  Paths = {p1, p2}  Bodies = {b1, b2}
    NoFile = noFile  HalfFile = half  Users = {alice, bob}  Root = root
    Groups = {wheel, ops}  Wheel = wheel  Keys = {k1, k2}
    Packages = {git, nginx}  Commands = {enable, start}
    TransientNames = {dhcp}
    Configs <- MCConfigs
    OperatorRuns <- MCRuns
    FaultKinds = {"interrupt", "stat", "lose"}
    MaxFaults = 2
INVARIANTS
    TypeOK
    SentinelMeansProvisioned
    MarkedHostKeepsTheRest
    CommandsSeeProvisionedHost
    LiveNameIsDurable
    CommandsRunInOrder
PROPERTIES
    OnlyLicensedRunsMutate
    ImplementsProvision
    ReplayIsNoOp
    EventuallyMarked
