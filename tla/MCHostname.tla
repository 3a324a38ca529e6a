------------------------------ MODULE MCHostname ------------------------------
(***************************************************************************)
(* Instances of Hostname for TLC.                                          *)
(***************************************************************************)
EXTENDS Hostname

CONSTANTS web, old, dhcp, none, other, cut

\* A name file that is missing, empty or holds a name; an rc.conf with no
\* host name, with one, and with two.
MCImages ==
    [os0 \in OSes |->
       IF os0 \in {"linux", "openbsd"} THEN {<<>>, <<old>>, <<web>>}
       ELSE {<<>>, <<other>>, <<old, other>>, <<other, web>>,
             <<old, other, old>>, <<web, other, old>>, <<old, web>>}]
=============================================================================
