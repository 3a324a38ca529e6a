------------------------------ MODULE MCMachine ------------------------------
(* A seed disk, and the gateway's server, which an operator may also name.  *)
EXTENDS Machine

MCRank == [s \in {"seed", "net"} |-> IF s = "seed" THEN 1 ELSE 2]

\* The sources disagree, or the server's user-data is broken.
MCOffers == {[seed |-> "a", net |-> "b"], [seed |-> "a", net |-> "broken"]}

MCOperatorRuns ==
    {[force |-> TRUE, dryRun |-> FALSE, from |-> "file"],
     [force |-> TRUE, dryRun |-> FALSE, from |-> "url"],
     [force |-> FALSE, dryRun |-> TRUE, from |-> "auto"]}
=============================================================================
