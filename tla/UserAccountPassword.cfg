SPECIFICATION MCNewSpec
CONSTANTS
    own = own  wheel = wheel  ops = ops  h1 = h1  noHash = noHash
    locked = locked  sh = sh  zsh = zsh
    OSes = {"linux", "openbsd", "freebsd", "netbsd"}
    Groups = {own, wheel, ops}  Primary = own
    Requests <- MCRequests
    Hashes = {h1}  NoHash = noHash  Locked = locked
    Shells = {sh, zsh}
    MaxFaults = 1
INVARIANT
    ReplayedPasswordIsSet
