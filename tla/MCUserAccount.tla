---------------------------- MODULE MCUserAccount ----------------------------
(***************************************************************************)
(* Instances of UserAccount for TLC.                                       *)
(***************************************************************************)
EXTENDS UserAccount

CONSTANTS own, wheel, ops, h1, noHash, locked, sh, zsh

MCRequests ==
    [groups : {{}, {wheel}, {wheel, ops}}, hash : {h1, noHash}, shell : {zsh}]

\* The entries and images in which the account was not there at first.
MCInitNew == Init /\ ~exists
MCNewSpec == MCInitNew /\ [][Next]_vars
=============================================================================
