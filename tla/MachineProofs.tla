---------------------------- MODULE MachineProofs ----------------------------
(***************************************************************************)
(* Machine: a marker tells what is on the host, for any number of sources, *)
(* configs and items, and any number of faults.  The disk may get items and *)
(* marker in any order.                                                    *)
(***************************************************************************)
EXTENDS Machine, TLAPS

\* What the live state of the disk must satisfy.
Tells == marker # Nothing /\ ~doubtful => \A j \in 1..Items : host[j] = marker

\* A process has set the items it has passed; only Apply passes any.
Progress ==
    /\ pc # "apply" => i = 1
    /\ pc = "apply" => \A j \in 1..(i - 1) : host[j] = cfg

\* What has reached the disk need not tell anything: a loss of power brings it
\* back with a marker only if it is all there was, or casts doubt on the marker.
IInv == TypeOK /\ Tells /\ Progress

\* The disk changes in few actions; the lemma covers the rest.
LEMMA DiskUntouched ==
    ASSUME IInv, UNCHANGED disk
    PROVE  OnDisk' \in States /\ doubtful' \in BOOLEAN /\ Tells'
BY DEF IInv, TypeOK, Tells, OnDisk, disk

\* A process that has exited has passed no item.
LEMMA Exited ==
    ASSUME Exit
    PROVE  /\ pc' = "off" /\ cfg' = Nothing /\ i' = 1
           /\ Progress'
BY DEF Exit, Progress

LEMMA FaultsBounded ==
    ASSUME faults \in 0..MaxFaults, NEW n \in Nat, Fault(n)
    PROVE  faults' \in 0..MaxFaults
BY BoundsAssumption DEF Fault

LEMMA Initially == Init => IInv
<1> SUFFICES ASSUME Init PROVE IInv
  OBVIOUS
<1>1. OnDisk \in States
  BY DEF Init, OnDisk, States
<1>2. TypeOK
  <2>1. kept \in States /\ doubtful \in BOOLEAN
    BY <1>1 DEF Init
  <2>2. i \in 1..(Items + 1) /\ faults \in 0..MaxFaults
    BY BoundsAssumption DEF Init
  <2> QED BY <1>1, <2>1, <2>2 DEF Init, TypeOK
<1>3. Tells
  BY DEF Init, Tells
<1> QED
  BY <1>2, <1>3 DEF Init, IInv, Progress

\* A config comes from a file, or from a source whose user-data is one.
LEMMA LoadedKeeps ==
    ASSUME IInv, NEW c \in Configs, Loaded(c), pc # "apply"
    PROVE  /\ pc' \in {"off", "apply"} /\ cfg' \in Configs \cup {Nothing} /\ i' = 1
           /\ pc' = "apply" => cfg' # Nothing
           /\ Progress'
<1>1. CASE flags.dryRun
  BY <1>1, Exited DEF Loaded
<1>2. CASE ~flags.dryRun
  BY <1>2, SourcesAssumption DEF Loaded, IInv, Progress
<1> QED
  BY <1>1, <1>2

LEMMA WorldKeeps ==
    ASSUME IInv, Boot \/ RunByHand \/ SourceAppears \/ WriteBack \/ LosePower \/ Kill
    PROVE  IInv'
<1>0. 1 \in 1..(Items + 1)
  BY BoundsAssumption
<1>1. CASE Boot \/ RunByHand
  <2>1. UNCHANGED <<offer, disk, kept, cfg, i, faults>> /\ pc = "off" /\ pc' = "check"
    BY <1>1 DEF Boot, RunByHand
  <2>2. TypeOK'
    BY <2>1, DiskUntouched DEF IInv, TypeOK
  <2> QED
    BY <2>1, <2>2, DiskUntouched DEF IInv, Progress
<1>2. CASE SourceAppears \/ WriteBack
  <2>0. kept' \in States
    <3>1. kept \in States /\ host \in [1..Items -> Configs \cup {Nothing}]
          /\ marker \in Configs \cup {Nothing}
      BY DEF IInv, TypeOK, States, OnDisk
    <3>2. CASE SourceAppears
      BY <3>1, <3>2 DEF SourceAppears
    <3>3. CASE kept' = [kept EXCEPT !.marker = marker]
      BY <3>1, <3>3 DEF States
    <3>4. ASSUME NEW j \in 1..Items, NEW piece \in {host[j], Nothing},
                 kept' = [kept EXCEPT !.host[j] = piece]
          PROVE  kept' \in States
      <4>1. piece \in Configs \cup {Nothing}
        BY <3>1
      <4>2. [kept.host EXCEPT ![j] = piece] \in [1..Items -> Configs \cup {Nothing}]
        BY <3>1, <4>1 DEF States
      <4> QED BY <3>1, <3>4, <4>2 DEF States
    <3> QED BY <1>2, <3>2, <3>3, <3>4 DEF WriteBack
  <2>1. UNCHANGED <<offer, disk, pc, cfg, i, faults>>
    BY <1>2 DEF SourceAppears, WriteBack
  <2>2. TypeOK'
    BY <2>0, <2>1, DiskUntouched DEF IInv, TypeOK
  <2> QED
    BY <2>1, <2>2, DiskUntouched DEF IInv, Progress, disk
<1>3. CASE LosePower
  <2>1. UNCHANGED <<offer, kept>> /\ Exit /\ Fault(1)
    BY <1>3 DEF LosePower
  <2>2. OnDisk' = kept /\ doubtful' \in BOOLEAN
    BY <1>3 DEF LosePower, OnDisk, IInv, TypeOK, States
  <2>4. Tells'
    <3> SUFFICES ASSUME marker' # Nothing, ~doubtful'
                 PROVE  \A j \in 1..Items : host'[j] = marker'
      BY DEF Tells
    <3>1. ~doubtful /\ kept = OnDisk
      BY <1>3 DEF LosePower
    <3>2. host' = host /\ marker' = marker
      BY <1>3, <3>1 DEF LosePower, OnDisk
    <3> QED BY <3>1, <3>2 DEF IInv, Tells
  <2>3. TypeOK'
    BY <2>1, <2>2, <1>0, Exited, FaultsBounded DEF IInv, TypeOK
  <2> QED
    BY <2>1, <2>3, <2>4, Exited DEF IInv
<1>4. CASE Kill
  <2>1. UNCHANGED <<offer, disk, kept>> /\ Exit /\ Fault(1)
    BY <1>4 DEF Kill
  <2>2. TypeOK'
    BY <2>1, <1>0, Exited, FaultsBounded, DiskUntouched DEF IInv, TypeOK
  <2> QED
    BY <2>1, <2>2, Exited, DiskUntouched DEF IInv
<1> QED
  BY <1>1, <1>2, <1>3, <1>4

LEMMA LoadingKeeps ==
    ASSUME IInv,
           SentinelPresent \/ LoadFile \/ DiscoverBegins \/ Discovered \/ NotDiscovered
    PROVE  IInv'
<1>0. 1 \in 1..(Items + 1)
  BY BoundsAssumption
<1>1. UNCHANGED <<offer, disk, kept>>
  BY DEF SentinelPresent, LoadFile, DiscoverBegins, Discovered, NotDiscovered, disk
<1>2. faults' \in 0..MaxFaults
  <2>1. CASE LoadFile \/ DiscoverBegins
    BY <2>1 DEF LoadFile, DiscoverBegins, IInv, TypeOK
  <2>2. CASE SentinelPresent
    <3>1. Fault(0) \/ Fault(1)
      BY <2>2 DEF SentinelPresent
    <3> QED
      BY <3>1, FaultsBounded DEF IInv, TypeOK
  <2>3. CASE Discovered \/ NotDiscovered
    <3>1. PICK n \in 0..1 : Fault(n)
      BY <2>3 DEF Discovered, NotDiscovered
    <3> QED
      BY <3>1, FaultsBounded DEF IInv, TypeOK
  <2> QED
    BY <2>1, <2>2, <2>3
<1>3. /\ pc' \in {"off", "load", "discover", "apply"}
      /\ cfg' \in Configs \cup {Nothing} /\ i' = 1
      /\ pc' = "apply" => cfg' # Nothing
      /\ Progress'
  <2>0. pc # "apply" => i = 1 /\ cfg \in Configs \cup {Nothing}
    BY DEF IInv, TypeOK, Progress
  <2>1. CASE SentinelPresent
    BY <2>0, <2>1, Exited DEF SentinelPresent, Progress
  <2>2. CASE LoadFile
    BY <2>2, Exited, LoadedKeeps DEF LoadFile
  <2>3. CASE DiscoverBegins
    BY <2>0, <2>3 DEF DiscoverBegins, Progress
  <2>4. CASE Discovered
    <3>1. PICK s \in Sources : \/ D!AnswerFrom(s, TRUE) /\ Loaded(offer[s])
                               \/ D!AnswerFrom(s, FALSE) /\ Exit
      BY <2>4 DEF Discovered
    <3>2. CASE D!AnswerFrom(s, TRUE) /\ Loaded(offer[s])
      <4>1. offer[s] # Broken
        BY <3>2 DEF D!AnswerFrom, Sound
      <4>2. offer[s] \in Configs
        BY <4>1, SourcesAssumption DEF IInv, TypeOK
      <4> QED
        BY <2>4, <3>2, <4>2, LoadedKeeps DEF Discovered
    <3>3. CASE Exit
      BY <3>3, Exited
    <3> QED
      BY <3>1, <3>2, <3>3
  <2>5. CASE NotDiscovered
    BY <2>5, Exited DEF NotDiscovered
  <2> QED
    BY <2>1, <2>2, <2>3, <2>4, <2>5
<1>4. TypeOK'
  BY <1>0, <1>1, <1>2, <1>3, DiskUntouched DEF IInv, TypeOK
<1> QED
  BY <1>1, <1>3, <1>4, DiskUntouched DEF IInv

\* A run that goes over a marked host is noted, so the marker need not tell.
LEMMA ApplyingKeeps ==
    ASSUME IInv, Apply \/ ApplyFails
    PROVE  IInv'
<1>1. /\ i \in 1..Items /\ cfg \in Configs /\ pc = "apply"
      /\ UNCHANGED <<offer, marker, kept>>
      /\ doubtful' = (doubtful \/ marker # Nothing)
  BY BoundsAssumption DEF IInv, TypeOK, Apply, ApplyFails
<1>2. PICK x \in Configs \cup {Nothing} : host' = [host EXCEPT ![i] = x]
  <2>1. host[i] \in Configs \cup {Nothing}
    BY <1>1 DEF IInv, TypeOK, OnDisk, States
  <2> QED
    BY <1>1, <2>1 DEF Apply, ApplyFails
<1>3. OnDisk' \in States
  BY <1>1, <1>2 DEF IInv, TypeOK, OnDisk, States
<1>4. Tells' /\ doubtful' \in BOOLEAN
  BY <1>1 DEF IInv, TypeOK, Tells
<1>5. CASE Apply
  <2>1. pc' = "apply" /\ cfg' = cfg /\ i' = i + 1 /\ faults' = faults
    BY <1>1, <1>5 DEF Apply
  <2>2. i' \in 1..(Items + 1)
    BY <1>1, <2>1, BoundsAssumption
  <2>3. TypeOK'
    BY <1>1, <1>3, <1>4, <2>1, <2>2 DEF IInv, TypeOK
  <2>4. \A j \in 1..(i' - 1) : host'[j] = cfg
    BY <1>1, <1>5, <2>1 DEF Apply, IInv, TypeOK, OnDisk, States, Progress
  <2> QED
    BY <1>4, <2>1, <2>3, <2>4 DEF IInv, Progress
<1>6. CASE ApplyFails
  <2>1. Exit /\ Fault(1)
    BY <1>6 DEF ApplyFails
  <2>2. TypeOK'
    BY <1>1, <1>3, <1>4, <2>1, Exited, FaultsBounded, BoundsAssumption DEF IInv, TypeOK
  <2> QED
    BY <1>4, <2>1, <2>2, Exited DEF IInv
<1> QED
  BY <1>5, <1>6

\* The marker is written when every item has been passed.
LEMMA MarkingKeeps ==
    ASSUME IInv, WriteSentinel
    PROVE  IInv'
<1>1. /\ pc = "apply" /\ i > Items /\ Exit
      /\ UNCHANGED <<offer, host, kept>>
      /\ \/ marker' = cfg /\ doubtful' = FALSE /\ Fault(0)
         \/ UNCHANGED <<marker, doubtful>> /\ Fault(1)
  BY DEF WriteSentinel
<1>2. OnDisk' \in States
  BY <1>1 DEF IInv, TypeOK, OnDisk, States
<1>3. TypeOK'
  <2>1. doubtful' \in BOOLEAN
    BY <1>1 DEF IInv, TypeOK
  <2>2. faults' \in 0..MaxFaults /\ 1 \in 1..(Items + 1)
    BY <1>1, FaultsBounded, BoundsAssumption DEF IInv, TypeOK
  <2> QED BY <1>1, <1>2, <2>1, <2>2, Exited DEF IInv, TypeOK
<1>4. \A j \in 1..Items : host[j] = cfg
  BY <1>1, BoundsAssumption DEF IInv, TypeOK, Progress
<1>5. Tells'
  BY <1>1, <1>4 DEF IInv, Tells
<1> QED
  BY <1>1, <1>3, <1>5, Exited DEF IInv

LEMMA Invariance == Spec => []IInv
<1>1. IInv /\ [Next]_vars => IInv'
  <2> SUFFICES ASSUME IInv, [Next]_vars PROVE IInv'
    OBVIOUS
  <2>1. CASE Next
    BY <2>1, WorldKeeps, LoadingKeeps, ApplyingKeeps, MarkingKeeps DEF Next, RunApply
  <2>2. CASE UNCHANGED vars
    <3>1. UNCHANGED <<offer, disk, kept, pc, cfg, i, faults>>
      BY <2>2 DEF vars
    <3>2. TypeOK'
      BY <3>1, DiskUntouched DEF IInv, TypeOK
    <3> QED
      BY <3>1, <3>2, DiskUntouched DEF IInv, Progress, disk
  <2> QED
    BY <2>1, <2>2
<1> QED
  BY Initially, <1>1, PTL DEF Spec

\* Type correctness: no config but one that some user-data asks for is ever
\* applied, a user-data that does not parse never (runApply).
THEOREM TypeCorrect == Spec => []TypeOK
<1>1. IInv => TypeOK
  BY DEF IInv
<1> QED
  BY Invariance, <1>1, PTL

\* A marked host is what one config asks for, the one whose run wrote the
\* marker, whatever reaches the disk in whatever order, unless a run has gone
\* over the host since or a loss of power found the marker there before the
\* rest (main.go:134-181).
THEOREM MarkerSafe == Spec => []MarkerTellsTheHost
<1>1. IInv => MarkerTellsTheHost
  BY DEF IInv, Tells, MarkerTellsTheHost
<1> QED
  BY Invariance, <1>1, PTL
==============================================================================
