------------------------------- MODULE Machine -------------------------------
(***************************************************************************)
(* runApply (cmd/weft-firstboot/main.go) around a Discover that keeps      *)
(* SourceChoice: what FirstBoot takes as one step with one config, the     *)
(* loading of user-data, is here a choice between sources that appear one  *)
(* after the other and need not agree.  In return the walk of Apply is     *)
(* just a sequence of items, each of which the config in hand sets.        *)
(*                                                                         *)
(* Also unlike FirstBoot, what a call has done is in the page cache until  *)
(* it is written back.  Nothing is synced that would order this: items and *)
(* marker reach the disk one by one, whenever they do, and a file may be   *)
(* torn there for a while.  A loss of power leaves what has reached it.    *)
(***************************************************************************)
EXTENDS Naturals

CONSTANTS
    Configs,       \* what user-data may ask for
    Sources,       \* where it may come from
    Booted,        \* the sources that Discover looks at without --datasource
    Pinned,        \* the source that --datasource names
    Items,         \* bound: how many things a config sets
    OperatorRuns,  \* [force, dryRun, from]: from is "auto", "url" or "file"
    Offers,        \* [Sources -> Configs \cup {Broken}]: what each source has
    Rank,          \* the order of the sources, as in SourceChoice
    Broken,        \* user-data that does not parse
    Nothing,       \* no config; no marker; an item that is not as any asks
    Pending, NotFound, NoAnswer,  \* as in SourceChoice
    MaxFaults      \* bound: failures, kills and losses of power

ASSUME SourcesAssumption ==
    /\ Booted \subseteq Sources /\ Pinned \in Sources
    /\ Rank \in [Sources -> Nat]
    /\ Offers \subseteq [Sources -> Configs \cup {Broken}]
    /\ {Broken, Nothing} \cap Configs = {}

ASSUME BoundsAssumption == Items \in Nat /\ MaxFaults \in Nat

VARIABLES
    offer,        \* what the sources of this machine have, once they are there
    coming,       \* the sources that are going to be there some day
    ready, may, must, answer,  \* as in SourceChoice
    pc, flags,    \* the process and its command line
    cfg, i,       \* the config in hand, the item Apply is at
    host,         \* each item, by the config that set it last
    marker,       \* the config that the marker file stands for
    doubtful,     \* history: a run has gone over this host since it was marked,
                  \* or power was lost when the marker was kept, not all else
    kept,         \* host and marker as far as they are written back
    faults

source == <<ready, may, must, answer>>
disk == <<host, marker, doubtful>>
OnDisk == [host |-> host, marker |-> marker]
vars == <<offer, coming, source, pc, flags, cfg, i, disk, kept, faults>>

Sound == {s \in Sources : offer[s] # Broken}

D == INSTANCE SourceChoice WITH sound <- Sound, rank <- Rank, failed <- faults

BootFlags == [force |-> FALSE, dryRun |-> FALSE, from |-> "auto"]
Asked == IF flags.from = "url" THEN {Pinned} ELSE Booted

States ==
    [host : [1..Items -> Configs \cup {Nothing}], marker : Configs \cup {Nothing}]

TypeOK ==
    /\ offer \in Offers
    /\ pc \in {"off", "check", "load", "discover", "apply"}
    /\ cfg \in Configs \cup {Nothing} /\ i \in 1..(Items + 1)
    /\ pc = "apply" => cfg # Nothing
    /\ OnDisk \in States /\ kept \in States /\ doubtful \in BOOLEAN
    /\ faults \in 0..MaxFaults

Init ==
    /\ offer \in Offers /\ coming \in SUBSET Sources /\ ready \in SUBSET coming
    /\ may = {} /\ must = {} /\ answer = NoAnswer
    /\ pc = "off" /\ flags = BootFlags /\ cfg = Nothing /\ i = 1
    /\ host = [j \in 1..Items |-> Nothing]
    /\ marker = Nothing /\ doubtful = FALSE
    /\ kept = OnDisk /\ faults = 0

Fault(n) == faults + n <= MaxFaults /\ faults' = faults + n

\* The process is gone, and with it all it had in hand.
Exit == pc' = "off" /\ flags' = BootFlags /\ cfg' = Nothing /\ i' = 1

Dies == IF pc = "discover" THEN D!Abandon ELSE UNCHANGED source

-----------------------------------------------------------------------------
(* The world: boots, operators, sources, the disk.                          *)

Boot ==
    /\ pc = "off"
    /\ pc' = "check" /\ flags' = BootFlags
    /\ UNCHANGED <<offer, coming, source, cfg, i, disk, kept, faults>>

RunByHand ==
    /\ pc = "off"
    /\ pc' = "check" /\ flags' \in OperatorRuns
    /\ UNCHANGED <<offer, coming, source, cfg, i, disk, kept, faults>>

SourceAppears ==
    /\ UNCHANGED <<offer, coming, pc, flags, cfg, i, disk, kept, faults>>
    /\ \E s \in coming \ ready :
          /\ ready' = ready \cup {s}
          /\ may' = IF pc = "discover" THEN may \cup ({s} \cap Asked) ELSE may
    /\ must' = must
    /\ D!Change

\* One piece at a time, in any order; a file may come out empty first.
WriteBack ==
    /\ \/ \E j \in 1..Items : \E piece \in {host[j], Nothing} :
             host[j] # kept.host[j] /\ kept' = [kept EXCEPT !.host[j] = piece]
       \/ kept' = [kept EXCEPT !.marker = marker]
    /\ UNCHANGED <<offer, coming, source, pc, flags, cfg, i, disk, faults>>

LosePower ==
    /\ Fault(1) /\ Exit
    /\ host' = kept.host /\ marker' = kept.marker
    /\ doubtful' = (marker' # Nothing /\ (doubtful \/ kept # OnDisk))
    /\ UNCHANGED <<offer, coming, kept>>
    /\ Dies

Kill ==
    /\ pc # "off" /\ Fault(1) /\ Exit
    /\ UNCHANGED <<offer, coming, disk, kept>>
    /\ Dies

-----------------------------------------------------------------------------
(* runApply.                                                                *)

\* A marker that cannot be looked at counts as none.
SentinelPresent ==
    /\ pc = "check"
    /\ \/ ~flags.force /\ marker # Nothing /\ Exit /\ Fault(0)
       \/ /\ pc' = "load" /\ UNCHANGED <<flags, cfg, i>>
          /\ Fault(IF ~flags.force /\ marker # Nothing THEN 1 ELSE 0)
    /\ UNCHANGED <<offer, coming, source, disk, kept>>

Loaded(c) ==
    IF flags.dryRun THEN Exit
    ELSE pc' = "apply" /\ cfg' = c /\ UNCHANGED <<flags, i>>

\* --config: the file of the operator's choice, if it can be read and parsed.
LoadFile ==
    /\ pc = "load" /\ flags.from = "file"
    /\ Exit \/ \E c \in Configs : Loaded(c)
    /\ UNCHANGED <<offer, coming, source, disk, kept, faults>>

DiscoverBegins ==
    /\ pc = "load" /\ flags.from # "file"
    /\ pc' = "discover"
    /\ UNCHANGED <<offer, coming, flags, cfg, i, disk, kept, faults>>
    /\ D!Begin(Asked)

\* Reads that fail are faults; SourceChoice says what they may lead to.
Discovered ==
    /\ pc = "discover"
    /\ \E n \in 0..1 : Fault(n)
    /\ UNCHANGED <<offer, coming, disk, kept>>
    /\ \E s \in Sources :
          \/ D!AnswerFrom(s, TRUE) /\ Loaded(offer[s])
          \/ D!AnswerFrom(s, FALSE) /\ Exit

\* (mistake: wait in the hope that what was looked at appears)
NotDiscoveredWaits ==
    /\ pc = "discover"
    /\ \E n \in 0..1 : Fault(n)
    /\ UNCHANGED <<offer, coming, pc, flags, cfg, i, disk, kept>>
    /\ D!AnswerNotFound

NotDiscovered ==
    /\ pc = "discover" /\ Exit
    /\ \E n \in 0..1 : Fault(n)
    /\ UNCHANGED <<offer, coming, disk, kept>>
    /\ D!AnswerNotFound

Apply ==
    /\ pc = "apply" /\ i <= Items
    /\ host' = [host EXCEPT ![i] = cfg]
    /\ doubtful' = (doubtful \/ marker # Nothing)
    /\ i' = i + 1
    /\ UNCHANGED <<offer, coming, source, pc, flags, cfg, marker, kept, faults>>

\* An item that fails, or in which the process dies: done, half done or not.
ApplyFails ==
    /\ pc = "apply" /\ i <= Items /\ Fault(1) /\ Exit
    /\ \E left \in {host[i], Nothing, cfg} : host' = [host EXCEPT ![i] = left]
    /\ doubtful' = (doubtful \/ marker # Nothing)
    /\ UNCHANGED <<offer, coming, source, marker, kept>>

\* (mistake: the marker written before the last item is in place)
WriteSentinelEarly ==
    /\ pc = "apply" /\ i = Items /\ Exit
    /\ marker' = cfg /\ doubtful' = FALSE
    /\ UNCHANGED <<offer, coming, source, host, kept, faults>>

\* A marker that cannot be written is only warned about.
WriteSentinel ==
    /\ pc = "apply" /\ i > Items /\ Exit
    /\ \/ marker' = cfg /\ doubtful' = FALSE /\ Fault(0)
       \/ UNCHANGED <<marker, doubtful>> /\ Fault(1)
    /\ UNCHANGED <<offer, coming, source, host, kept>>

RunApply ==
    \/ SentinelPresent \/ LoadFile \/ DiscoverBegins \/ Discovered
    \/ NotDiscovered \/ Apply \/ WriteSentinel

Next ==
    \/ Boot \/ RunByHand \/ SourceAppears \/ WriteBack \/ LosePower \/ Kill
    \/ RunApply \/ ApplyFails

Spec == Init /\ [][Next]_vars

\* As in FirstBoot; an idle machine is booted some day however often operators
\* run the program, and what is going to appear does.
FairSpec == Spec /\ WF_vars(RunApply) /\ SF_vars(Boot) /\ WF_vars(SourceAppears)

-----------------------------------------------------------------------------
(* Properties.                                                              *)

\* A marked host is, item by item, what one and the same config asks for, the
\* one whose run wrote the marker, whatever other user-data earlier attempts
\* applied and wherever they failed, died or lost power (main.go:134-181).  Two
\* things take this from a marker: a run, forced or unable to see it, that goes
\* over the host; and a loss of power that finds it on the disk before the rest.
MarkerTellsTheHost ==
    marker # Nothing /\ ~doubtful => \A j \in 1..Items : host[j] = marker

\* The first of the sources that are ever there has a config.
Promising ==
    \E s \in coming \cap Booted \cap Sound :
        \A t \in coming \cap Booted : Rank[s] <= Rank[t]

\* However late the sources come, once faults stop the machine is marked for
\* good, provided the first of them has a config: a gateway that does not
\* answer in time only costs a boot (http.go:36-39, main.go:158-162).
EventuallyMarked == Promising => <>[](marker # Nothing)
=============================================================================
