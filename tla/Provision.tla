------------------------------ MODULE Provision ------------------------------
(***************************************************************************)
(* What weft-firstboot promises the owner of a virtual machine, with no    *)
(* word about how: at some point the host is provisioned, that is, all the *)
(* user-data asks for is in place; from then on no crash, retry or forced  *)
(* run undoes it; and the marker that makes later boots skip the work is   *)
(* only ever set on a provisioned host.  The marker itself may be lost     *)
(* (README.md, "Idempotence": disk reset, image baked then re-cloned).     *)
(***************************************************************************)
VARIABLES
    provisioned,  \* everything the user-data asks for is in place
    marked        \* the sentinel file exists

vars == <<provisioned, marked>>

TypeOK ==
    /\ provisioned \in BOOLEAN
    /\ marked \in BOOLEAN

Init ==
    /\ provisioned \in BOOLEAN
    /\ marked = FALSE

Complete ==
    /\ ~provisioned
    /\ provisioned' = TRUE
    /\ UNCHANGED marked

Mark ==
    /\ provisioned
    /\ marked' = TRUE
    /\ UNCHANGED provisioned

LoseMark ==
    /\ marked' = FALSE
    /\ UNCHANGED provisioned

Next == Complete \/ Mark \/ LoseMark

Spec == Init /\ [][Next]_vars
=============================================================================
