------------------------------- MODULE Gateway -------------------------------
(***************************************************************************)
(* linuxDefaultGateway (datasource/gateway_linux.go): the gateway of the   *)
(* best default route among the rows of /proc/net/route.  A row is         *)
(*   whole   it has the eight fields the code reads                        *)
(*   dest    its destination field; the mask is not looked at              *)
(*   gw      its gateway field, the two-digit groups from left to right    *)
(*   metric  its metric field, a number or Text                            *)
(***************************************************************************)
EXTENDS Naturals, SequencesExt

CONSTANTS
    Zero,       \* the destination 00000000
    Bytes,      \* what a two-digit group may stand for; others are no hex
    NoGateway,
    Text,       \* a metric that is no number
    Greatest    \* the greatest metric: 2^64 - 1 in the code

ASSUME GreatestAssumption == Greatest \in Nat

ASSUME MarkersAssumption == Text \notin Nat /\ NoGateway \notin [1..4 -> Bytes]

\* hexLEIPv4: the groups of a little-endian address, last byte first.
HexLEIPv4(gw) == Reverse(gw)
WellFormed(gw) == Len(gw) = 4 /\ Range(gw) \subseteq Bytes

\* strconv.ParseUint, its error ignored: zero for what is no number, and the
\* greatest number for one that is too large.
ParseUint(metric) ==
    IF metric = Text THEN 0 ELSE IF metric > Greatest THEN Greatest ELSE metric

IsDefault(row) == row.whole /\ row.dest = Zero /\ WellFormed(row.gw)

\* (mistake: a later route of the same metric wins)
BetterOrEqual(best, row) ==
    IF IsDefault(row) /\ ParseUint(row.metric) <= best.metric
    THEN [gw |-> HexLEIPv4(row.gw), metric |-> ParseUint(row.metric)]
    ELSE best

Better(best, row) ==
    IF IsDefault(row) /\ ParseUint(row.metric) < best.metric
    THEN [gw |-> HexLEIPv4(row.gw), metric |-> ParseUint(row.metric)]
    ELSE best

\* best[n] is the best of the first n rows.
LinuxDefaultGateway(table) ==
    LET best[n \in 0..Len(table)] ==
            IF n = 0 THEN [gw |-> NoGateway, metric |-> Greatest]
            ELSE Better(best[n - 1], table[n])
    IN best[Len(table)].gw

-----------------------------------------------------------------------------
\* Reference: the first of the default routes with the lowest metric.  A route
\* of the greatest metric is as good as none.
Usable(table) ==
    {j \in DOMAIN table : IsDefault(table[j]) /\ ParseUint(table[j].metric) < Greatest}

IsBestRoute(table, j) ==
    /\ j \in Usable(table)
    /\ \A m \in Usable(table) :
          LET a == ParseUint(table[j].metric)  b == ParseUint(table[m].metric)
          IN a < b \/ (a = b /\ j <= m)
=============================================================================
