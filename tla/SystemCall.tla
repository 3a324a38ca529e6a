----------------------------- MODULE SystemCall ------------------------------
(***************************************************************************)
(* What Apply relies on when it calls a method of the System interface,    *)
(* over any number of calls with the same arguments: an effect that is in  *)
(* place stays in place, whatever later call fails or dies half-way, and a *)
(* call that returns nil has put it there.  The modules of the four        *)
(* methods implement this, and FirstBoot is built on it.                   *)
(***************************************************************************)
VARIABLES
    effect,  \* what the method promises is in place
    reply    \* of the last call: "none" while it runs or when it died

vars == <<effect, reply>>

Init ==
    /\ effect \in BOOLEAN
    /\ reply = "none"

\* A call begins, goes on, or dies.
Proceed ==
    /\ effect' \in {effect, TRUE}
    /\ reply' = "none"

Succeed ==
    /\ effect' = TRUE
    /\ reply' = "ok"

Fail ==
    /\ effect' \in {effect, TRUE}
    /\ reply' = "err"

Next == Proceed \/ Succeed \/ Fail

Spec == Init /\ [][Next]_vars
=============================================================================
