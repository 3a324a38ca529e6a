--------------------------- MODULE DiscoveryProofs ---------------------------
(***************************************************************************)
(* Proofs about Discovery, for any seats, disks, answers of the server and *)
(* number of faults: a discovery undoes its mounts, before it removes the   *)
(* mount point, and keeps the promise of SourceChoice.                     *)
(*                                                                         *)
(* The inductive invariant says, for every step of a discovery, which of   *)
(* the sources that must not be passed over can still be there: those that *)
(* come after the candidate in the order of Rank, those that a node that   *)
(* is left to mount leads to, or the network alone.                        *)
(***************************************************************************)
EXTENDS Discovery, WellFoundedInduction, TLAPS

-----------------------------------------------------------------------------
(* The order of the candidates.                                            *)

LEMMA LeastElement ==
    ASSUME NEW T \in SUBSET Nat, T # {}
    PROVE  \E m \in T : \A k \in T : m <= k
<1>1. PICK m \in T : \A k \in T : ~(<<k, m>> \in OpToRel(<, Nat))
  BY NatLessThanWellFounded, WFMin
<1>2. \A k \in T : k \in Nat /\ m \in Nat
  OBVIOUS
<1>3. ASSUME NEW k \in T, ~(m <= k) PROVE FALSE
  <2>1. k < m
    BY <1>2, <1>3
  <2>2. <<k, m>> \in Nat \X Nat /\ <<k, m>>[1] < <<k, m>>[2]
    BY <1>2, <2>1
  <2>3. <<k, m>> \in OpToRel(<, Nat)
    BY <2>2, Zenon DEF OpToRel
  <2> QED BY <1>1, <2>3, Zenon
<1> QED BY <1>3

Disks == {s \in SeatSet : disk[s] # NoDisk}

\* One disk per label, as Init says.
MachineOK ==
    /\ system \in {"linux", "bsd"} /\ override \in BOOLEAN
    /\ reply = "badurl" => override
    /\ disk \in [SeatSet -> DiskKinds \cup {NoDisk}]
    /\ \A s, t \in Disks :
          disk[s].label = disk[t].label => s = t \/ disk[s].label = "other"

LEMMA LabelFacts ==
    /\ Range(Labels) = {"cidata", "CIDATA"} /\ Len(Labels) = 2
    /\ "other" \notin Range(Labels)
    /\ Labels \in Seq(Range(Labels))
    /\ \A j \in 1..2 : Labels[j] \in Range(Labels)
<1>1. Labels \in Seq({"cidata", "CIDATA"}) /\ DOMAIN Labels = {1, 2}
      /\ Labels[1] = "cidata" /\ Labels[2] = "CIDATA" /\ Len(Labels) = 2
  BY DEF Labels
<1>2. Range(Labels) = {"cidata", "CIDATA"}
  BY <1>1 DEF Range
<1> QED BY <1>1, <1>2

LEMMA SeatFacts ==
    /\ DOMAIN Seats = 1..Len(Seats) /\ Len(Seats) \in Nat
    /\ \A s \in SeatSet : \E i \in 1..Len(Seats) : Seats[i] = s
    /\ \A i, j \in 1..Len(Seats) : Seats[i] = Seats[j] => i = j
    /\ \A i \in 1..Len(Seats) : Seats[i] \in SeatSet
<1>1. DOMAIN Seats = 1..Len(Seats) /\ Len(Seats) \in Nat
  BY SeatsAssumption
<1> QED BY <1>1, SeatsAssumption DEF SeatSet, Range, IsInjective

LEMMA DiskFacts ==
    ASSUME MachineOK, NEW s \in Disks
    PROVE  /\ s \in SeatSet /\ s \in Sources /\ s # Net
           /\ disk[s].label \in Range(Labels) \cup {"other"}
           /\ disk[s].label \notin SeatSet /\ s \notin Range(Labels)
<1>1. s \in SeatSet /\ disk[s] \in DiskKinds
  BY DEF Disks, MachineOK
<1>2. disk[s].label \in Range(Labels) \cup {"other"}
  BY <1>1, DisksAssumption
<1> QED BY <1>1, <1>2, SeatsAssumption DEF Sources

Leads(j, s) == Nodes[j] = s \/ disk[s].label = Nodes[j]

LEMMA Concatenated ==
    ASSUME NEW S, NEW a \in Seq(S), NEW b \in Seq(S)
    PROVE  /\ Len(a \o b) = Len(a) + Len(b)
           /\ \A j \in 1..Len(a \o b) :
                 (a \o b)[j] = IF j <= Len(a) THEN a[j] ELSE b[j - Len(a)]
OBVIOUS

LEMMA NodeFacts ==
    ASSUME MachineOK
    PROVE  /\ Len(Nodes) \in Nat
           /\ \A j \in 1..Len(Nodes) : Nodes[j] \in SeatSet \cup Range(Labels)
           /\ \A s \in SeatSet : \E j \in 1..Len(Nodes) : Nodes[j] = s
           /\ system = "bsd" => Nodes = Seats
<1>1. CASE system = "bsd"
  <2>1. Nodes = Seats
    BY <1>1 DEF Nodes
  <2> QED BY <1>1, <2>1, SeatFacts
<1>2. CASE system = "linux"
  <2>1. Nodes = Labels \o Seats
    BY <1>2 DEF Nodes
  <2>2. \A j \in 1..2 : Labels[j] \in Range(Labels)
    BY LabelFacts
  <2>3. /\ Labels \in Seq(SeatSet \cup Range(Labels)) /\ Len(Labels) = 2
        /\ Seats \in Seq(SeatSet \cup Range(Labels)) /\ Len(Seats) \in Nat
    BY LabelFacts, SeatsAssumption
  <2>4. /\ Len(Nodes) = Len(Seats) + 2 /\ Len(Seats) \in Nat
        /\ \A j \in 1..Len(Nodes) :
              Nodes[j] = IF j <= 2 THEN Labels[j] ELSE Seats[j - 2]
    <3>1. /\ Len(Labels \o Seats) = Len(Labels) + Len(Seats)
          /\ \A j \in 1..Len(Labels \o Seats) :
                (Labels \o Seats)[j] =
                    IF j <= Len(Labels) THEN Labels[j] ELSE Seats[j - Len(Labels)]
      BY <2>3, Concatenated, Zenon
    <3>2. Len(Seats) + 2 = 2 + Len(Seats)
      BY <2>3
    <3> QED BY <2>1, <2>3, <3>1, <3>2, Zenon
  <2>5. ASSUME NEW s \in SeatSet
        PROVE  \E j \in 1..Len(Nodes) : Nodes[j] = s
    <3>1. PICK i \in 1..Len(Seats) : Seats[i] = s
      BY SeatFacts
    <3>2. i + 2 \in 1..Len(Nodes) /\ ~(i + 2 <= 2) /\ (i + 2) - 2 = i
      BY <2>4, <3>1
    <3>3. Nodes[i + 2] = s
      BY <2>4, <3>1, <3>2
    <3> QED BY <3>2, <3>3
  <2>6. ASSUME NEW j \in 1..Len(Nodes)
        PROVE  Nodes[j] \in SeatSet \cup Range(Labels)
    <3>1. CASE j <= 2
      <4>1. j \in 1..2 /\ Nodes[j] = Labels[j]
        BY <2>4, <3>1
      <4> QED BY <2>2, <4>1
    <3>2. CASE ~(j <= 2)
      <4>1. j - 2 \in 1..Len(Seats)
        BY <2>4, <3>2
      <4> QED BY <2>4, <3>2, <4>1, SeatFacts
    <3> QED BY <3>1, <3>2
  <2> QED BY <1>2, <2>4, <2>5, <2>6
<1> QED BY <1>1, <1>2 DEF MachineOK

LEMMA PositionIsFirst ==
    ASSUME MachineOK, NEW s \in SeatSet
    PROVE  /\ Position(s) \in 1..Len(Nodes) /\ Leads(Position(s), s)
           /\ \A j \in 1..Len(Nodes) : Leads(j, s) => Position(s) <= j
<1> DEFINE T == {j \in 1..Len(Nodes) : Leads(j, s)}
           First(j) == Leads(j, s) /\ \A m \in 1..(j - 1) : ~Leads(m, s)
<1>1. T \in SUBSET Nat /\ T # {} /\ Len(Nodes) \in Nat
  BY NodeFacts DEF Leads
<1>2. PICK j \in T : \A k \in T : j <= k
  BY <1>1, LeastElement
<1>3. j \in 1..Len(Nodes) /\ First(j)
  <2>1. ASSUME NEW m \in 1..(j - 1), Leads(m, s) PROVE FALSE
    <3>1. m \in T /\ ~(j <= m)
      BY <1>1, <1>2, <2>1
    <3> QED BY <1>2, <3>1
  <2> QED BY <1>2, <2>1
<1>4. Position(s) = CHOOSE k \in 1..Len(Nodes) : First(k)
  BY DEF Position, Leads
<1>5. Position(s) \in 1..Len(Nodes) /\ First(Position(s))
  <2> HIDE DEF First
  <2> QED BY <1>3, <1>4
<1>6. ASSUME NEW k \in 1..Len(Nodes), Leads(k, s), ~(Position(s) <= k)
      PROVE  FALSE
  <2>1. k \in 1..(Position(s) - 1)
    BY <1>1, <1>5, <1>6
  <2> QED BY <1>5, <1>6, <2>1
<1> QED BY <1>5, <1>6

LEMMA RankFacts ==
    ASSUME MachineOK
    PROVE  /\ Rank \in [Sources -> Nat]
           /\ Rank[Net] = 2 * Len(Nodes) + 1 /\ Len(Nodes) \in Nat
           /\ \A s \in Disks :
                 Rank[s] = Position(s) + IF ReadDirectly(s) THEN 0 ELSE Len(Nodes)
<1>1. Len(Nodes) \in Nat /\ \A s \in SeatSet : Position(s) \in Nat /\ s # Net
  BY NodeFacts, PositionIsFirst, SeatsAssumption
<1>2. /\ 2 * Len(Nodes) + 1 \in Nat
      /\ \A s \in SeatSet : /\ Position(s) + 0 \in Nat
                            /\ Position(s) + Len(Nodes) \in Nat
  BY <1>1
<1>3. Rank \in [Sources -> Nat]
  <2>1. ASSUME NEW s \in Sources
        PROVE  (IF s = Net THEN 2 * Len(Nodes) + 1
                ELSE IF disk[s] = NoDisk THEN 0
                ELSE Position(s) + IF ReadDirectly(s) THEN 0 ELSE Len(Nodes)) \in Nat
    BY <1>2 DEF Sources
  <2> QED BY <2>1 DEF Rank
<1>4. Rank[Net] = 2 * Len(Nodes) + 1
  BY DEF Rank, Sources
<1>5. ASSUME NEW s \in Disks
      PROVE  Rank[s] = Position(s) + IF ReadDirectly(s) THEN 0 ELSE Len(Nodes)
  BY <1>1 DEF Rank, Sources, Disks
<1> QED BY <1>1, <1>3, <1>4, <1>5

-----------------------------------------------------------------------------
(* What the nodes lead to.                                                 *)

Led(node) == {s \in Disks : s = node \/ disk[s].label = node}

LEMMA LedUnique ==
    ASSUME MachineOK, NEW node \in SeatSet \cup Range(Labels),
           NEW s \in Led(node), NEW t \in Led(node)
    PROVE  s = t
<1>1. s \in Disks /\ t \in Disks
  BY DEF Led
<1>2. CASE node \in SeatSet
  <2>1. s = node /\ t = node
    BY <1>1, <1>2, DiskFacts DEF Led
  <2> QED BY <2>1
<1>3. CASE node \in Range(Labels)
  <2>1. disk[s].label = node /\ disk[t].label = node /\ node # "other"
    BY <1>1, <1>3, DiskFacts, LabelFacts DEF Led
  <2> QED BY <1>1, <2>1 DEF MachineOK
<1> QED BY <1>2, <1>3

\* A node leads to its disk as soon as the kernel has found it.
LEMMA BehindIsLed ==
    ASSUME visible \subseteq Disks, NEW node
    PROVE  Behind(node) = Led(node) \cap visible
BY DEF Behind, Led

\* linuxMountCidata goes for one label that is there, the BSDs for every seat.
LEMMA MountNodesFacts ==
    ASSUME MachineOK
    PROVE  /\ system = "bsd" => MountNodes = Seats
           /\ system = "linux" =>
                 \/ MountNodes = <<>>
                 \/ \E l \in Range(Labels) : MountNodes = <<l>> /\ Behind(l) # {}
<1>1. CASE system = "bsd"
  BY <1>1 DEF MountNodes
<1>2. CASE system = "linux"
  <2> DEFINE I == {i \in 1..Len(Labels) : Behind(Labels[i]) # {}}
             first == IF I # {} THEN Min(I) ELSE 0
  <2>1. MountNodes = IF first = 0 THEN <<>> ELSE <<Labels[first]>>
    BY <1>2 DEF MountNodes, SelectInSeq
  <2>2. CASE I = {}
    BY <1>2, <2>1, <2>2
  <2>3. CASE I # {}
    <3>1. I \in SUBSET Nat
      BY LabelFacts
    <3>2. PICK m \in I : \A k \in I : m <= k
      BY <2>3, <3>1, LeastElement
    <3>3. first \in I
      BY <2>3, <3>2 DEF Min
    <3> HIDE DEF first
    <3>4. first \in 1..2 /\ Behind(Labels[first]) # {}
      BY <3>3, LabelFacts
    <3>5. first # 0 /\ Labels[first] \in Range(Labels)
      BY <3>4, LabelFacts
    <3> QED BY <1>2, <2>1, <3>4, <3>5 DEF first
  <2> QED BY <2>2, <2>3
<1> QED BY <1>1, <1>2 DEF MachineOK

-----------------------------------------------------------------------------
(* Mounts.  While no unmount has failed there is at most one mount, and it  *)
(* is there, as is the directory, between the steps that make and undo it.  *)

Steps == {"idle", "direct", "locate", "mkdir", "mount", "look", "pop", "read",
          "umount", "rmdir", "route", "get", "body", "done"}
HasMount == {"look", "pop", "read"}
HasDir == HasMount \cup {"mount", "umount", "rmdir"}

Tidy ==
    /\ pc \in HasMount => Len(mounted) = 1
    /\ pc = "umount" => Len(mounted) <= 1
    /\ pc \notin HasMount \cup {"umount"} => mounted = <<>>
    /\ pc \notin HasDir => littered \/ dir = FALSE

\* A process that was killed leaves what it had.
MountInv ==
    /\ pc \in Steps /\ mounted \in Seq(SeatSet) /\ visible \subseteq SeatSet
    /\ pc \in HasMount => mounted # <<>>
    /\ pc \in HasDir => dir = TRUE
    /\ pc = "idle" \/ jammed \/ Tidy

LEMMA Popped ==
    ASSUME mounted \in Seq(SeatSet), mounted # <<>>
    PROVE  /\ Front(mounted) \in Seq(SeatSet)
           /\ Len(mounted) <= 1 => Front(mounted) = <<>>
BY DEF Front

LEMMA UnmountsKeeps ==
    ASSUME mounted \in Seq(SeatSet), Unmounts
    PROVE  /\ mounted' \in Seq(SeatSet) /\ dir' = dir
           /\ ~jammed' => ~jammed /\ (Len(mounted) <= 1 => mounted' = <<>>)
BY Popped DEF Unmounts

\* The steps before a mount, after it, and of the world.
LEMMA OthersKeepMounts ==
    ASSUME MountInv,
           \/ Discover \/ DirectSkips \/ DirectFails \/ DirectReads \/ DirectDone
           \/ Locate \/ DefaultGateway \/ NoGateway \/ GetFails \/ GetRefused
           \/ GetAnswers \/ ReadBody \/ DiskAppears \/ NetworkAppears \/ Kill
    PROVE  MountInv'
<1>1. CASE Discover
  <2>1. pc' \in {"get", "direct"} /\ mounted' = <<>> /\ dir' = FALSE /\ visible' = visible
    BY <1>1 DEF Discover, world
  <2> QED
    BY <2>1 DEF MountInv, Tidy, Steps, HasMount, HasDir
<1>2. CASE DirectSkips \/ DirectFails \/ DirectReads \/ DirectDone
  <2>1. /\ pc = "direct" /\ pc' \in {"direct", "locate", "done"}
        /\ UNCHANGED <<mounted, dir, jammed, littered, visible>>
    BY <1>2 DEF DirectSkips, DirectFails, DirectReads, DirectDone, AtCandidate,
       NextCandidate, mount, world
  <2> QED
    BY <2>1 DEF MountInv, Tidy, Steps, HasMount, HasDir
<1>3. CASE Locate
  <2>1. /\ pc = "locate" /\ pc' \in {"mkdir", "route"}
        /\ UNCHANGED <<mounted, dir, jammed, littered, visible>>
    BY <1>3 DEF Locate, Goto, world
  <2> QED
    BY <2>1 DEF MountInv, Tidy, Steps, HasMount, HasDir
<1>4. CASE DefaultGateway \/ NoGateway \/ GetFails \/ GetRefused \/ GetAnswers \/ ReadBody
  <2>1. /\ pc \in {"route", "get", "body"} /\ pc' \in {"get", "body", "done"}
        /\ UNCHANGED <<mounted, dir, jammed, littered, visible>>
    BY <1>4 DEF DefaultGateway, NoGateway, GetFails, GetRefused, GetAnswers, ReadBody,
       Goto, Returns, mount, world
  <2> QED
    BY <2>1 DEF MountInv, Tidy, Steps, HasMount, HasDir
<1>5. CASE DiskAppears \/ NetworkAppears
  <2>1. UNCHANGED <<pc, mounted, dir, jammed, littered>> /\ visible' \subseteq SeatSet
    BY <1>5 DEF DiskAppears, NetworkAppears, mount, MountInv
  <2> QED
    BY <2>1 DEF MountInv, Tidy
<1>6. CASE Kill
  <2>1. pc' = "idle" /\ UNCHANGED <<mounted, visible>>
    BY <1>6 DEF Kill, mount, world
  <2> QED
    BY <2>1 DEF MountInv, Steps, HasMount, HasDir
<1> QED
  BY <1>1, <1>2, <1>3, <1>4, <1>5, <1>6

LEMMA MountingKeepsMounts ==
    ASSUME MountInv,
           \/ MkdirTemp \/ Mount \/ MountRefused \/ MountDone \/ Look
           \/ UnmountWrong \/ ReadFile \/ CleanupUnmounts \/ CleanupRemoves
    PROVE  MountInv'
<1>1. CASE MkdirTemp
  <2>1. pc = "mkdir" /\ UNCHANGED <<mounted, jammed, littered, visible>>
    BY <1>1 DEF MkdirTemp, Goto, world
  <2>2. \/ pc' = "mount" /\ dir' = TRUE
        \/ pc' = "route" /\ dir' = dir
    BY <1>1 DEF MkdirTemp, Goto
  <2> QED
    BY <2>1, <2>2 DEF MountInv, Tidy, Steps, HasMount, HasDir
<1>2. CASE Mount
  <2>1. PICK s \in Fitting : mounted' = Append(mounted, s)
    BY <1>2 DEF Mount
  <2>2. s \in SeatSet
    BY DEF Fitting, Behind, MountInv
  <2>3. pc = "mount" /\ pc' = "look" /\ UNCHANGED <<dir, jammed, littered, visible>>
    BY <1>2 DEF Mount, Goto, world
  <2>4. /\ mounted' \in Seq(SeatSet) /\ mounted' # <<>>
        /\ mounted = <<>> => Len(mounted') = 1
    BY <2>1, <2>2 DEF MountInv
  <2> QED
    BY <2>3, <2>4 DEF MountInv, Tidy, Steps, HasMount, HasDir
<1>3. CASE MountRefused \/ MountDone
  <2>1. /\ pc = "mount" /\ pc' \in {"mount", "umount"}
        /\ UNCHANGED <<mounted, dir, jammed, littered, visible>>
    BY <1>3 DEF MountRefused, MountDone, Goto, mount, world
  <2>2. Len(<<>>) <= 1
    OBVIOUS
  <2> QED
    BY <2>1, <2>2 DEF MountInv, Tidy, Steps, HasMount, HasDir
<1>4. CASE Look \/ ReadFile
  <2>1. pc \in {"look", "read"} /\ pc' \in {"read", "pop", "umount"}
    BY <1>4 DEF Look, ReadFile, Goto
  <2>2. UNCHANGED <<mounted, dir, jammed, littered, visible>>
    BY <1>4 DEF Look, ReadFile, Goto, mount, world
  <2>3. Len(mounted) = 1 => Len(mounted) <= 1
    OBVIOUS
  <2> QED
    BY <2>1, <2>2, <2>3 DEF MountInv, Tidy, Steps, HasMount, HasDir
<1>5. CASE UnmountWrong \/ CleanupUnmounts
  <2>1. /\ pc \in {"pop", "umount"} /\ pc' \in {"mount", "rmdir"} /\ Unmounts
        /\ visible' = visible
    BY <1>5 DEF UnmountWrong, CleanupUnmounts, Goto, world
  <2>2. mounted' \in Seq(SeatSet) /\ dir' = TRUE
    BY <2>1, UnmountsKeeps DEF MountInv, HasMount, HasDir
  <2>3. ~jammed' => Tidy'
    <3> SUFFICES ASSUME ~jammed' PROVE Tidy'
      OBVIOUS
    <3>1. ~jammed /\ Tidy
      BY <2>1, UnmountsKeeps DEF MountInv
    <3>2. Len(mounted) <= 1
      <4>1. Len(mounted) = 1 \/ Len(mounted) <= 1
        BY <2>1, <3>1 DEF Tidy, HasMount
      <4>2. Len(mounted) = 1 => Len(mounted) <= 1
        OBVIOUS
      <4> QED
        BY <4>1, <4>2
    <3>3. mounted' = <<>>
      BY <2>1, <3>2, UnmountsKeeps DEF MountInv
    <3> QED
      BY <2>1, <3>3 DEF Tidy, HasMount, HasDir
  <2> QED
    BY <2>1, <2>2, <2>3 DEF MountInv, Steps, HasMount, HasDir
<1>6. CASE CleanupRemoves
  <2>1. /\ pc = "rmdir" /\ pc' \in {"route", "done"}
        /\ dir' = (dir /\ mounted # <<>>) \/ littered'
        /\ UNCHANGED <<mounted, jammed, visible>>
    BY <1>6 DEF CleanupRemoves, Goto, world
  <2> QED
    BY <2>1 DEF MountInv, Tidy, Steps, HasMount, HasDir
<1> QED
  BY <1>1, <1>2, <1>3, <1>4, <1>5, <1>6

LEMMA MountInvStep ==
    ASSUME MountInv, [Next]_vars
    PROVE  MountInv'
<1>1. CASE Next
  BY <1>1, OthersKeepMounts, MountingKeepsMounts DEF Next, Probe
<1>2. CASE UNCHANGED vars
  BY <1>2 DEF vars, mount, world, MountInv, Tidy
<1> QED
  BY <1>1, <1>2

-----------------------------------------------------------------------------
(* The inductive invariant.                                                *)

Typed ==
    /\ MachineOK /\ visible \subseteq Disks
    /\ n \in 1..(Len(Nodes) + 1) /\ faults \in 0..MaxFaults

\* A result is a config exactly if its source has one, and no source that had
\* user-data all along comes before it.
Best(a) ==
    /\ a \in [from : may, config : BOOLEAN]
    /\ a.config <=> a.from \in Sound
    /\ \A t \in must : Rank[a.from] <= Rank[t]

\* A result is there only when the discovery is over or about to be.
Result ==
    /\ found \in {Pending, NotFound} \cup [from : Sources, config : BOOLEAN]
    /\ pc = "done" => found # Pending
    /\ pc \notin {"idle", "umount", "rmdir", "done"} => found = Pending
    /\ pc \in {"umount", "rmdir"} /\ found # Pending => Best(found)

\* What may answer and what must not be passed over is what is ready, and has
\* been.
Sets ==
    /\ must \subseteq may /\ may \subseteq Asked
    /\ ~Over => must \subseteq Ready /\ Ready \cap Asked \subseteq may
    /\ override => pc \in {"idle", "get", "body", "done"}
    /\ pc = "body" => up /\ reply \in {"cut", "broken", "config"}

\* The nodes that are left to mount, in the order of Rank.  Linux goes for one
\* label, and what that leads to was there when it was chosen.
Todo(nodes) ==
    /\ nodes \in Seq(SeatSet \cup Range(Labels))
    /\ system = "bsd" => \A i \in 1..Len(nodes) : nodes[i] \in SeatSet
    /\ system = "linux" =>
          /\ Len(nodes) <= 1
          /\ \A i \in 1..Len(nodes) : \A s \in Led(nodes[i]) : ReadMounted(s) => s \in may
    /\ \A i, j \in 1..Len(nodes) : i <= j =>
          \A s \in Led(nodes[i]), t \in Led(nodes[j]) : Position(s) <= Position(t)

\* What must not be passed over is what the probes have not come to yet.
FromNode(i) == \A t \in must \ {Net} : \E j \in i..Len(todo) : t \in Led(todo[j])

Order ==
    /\ pc = "direct" => \A t \in must : n <= Rank[t]
    /\ pc \in HasMount \cup {"locate", "mkdir", "mount"} =>
          \A t \in must \ {Net} : ~ReadDirectly(t)
    /\ pc \in HasMount \cup {"mkdir", "mount"} => Todo(todo)
    /\ pc \in {"mkdir", "mount", "look", "read"} => FromNode(1)
    /\ pc = "pop" => system = "bsd" /\ FromNode(2)
    /\ pc \in HasMount =>
          /\ todo # <<>> /\ Last(mounted) \in Led(todo[1]) \cap visible
          /\ disk[Last(mounted)].format \in MountFormats
    /\ pc = "read" => HasData(Last(mounted))
    /\ pc \in {"umount", "rmdir"} /\ found = Pending => must \subseteq {Net}
    /\ pc \in {"route", "get", "body"} => must \subseteq {Net}

IInv == MountInv /\ Typed /\ Result /\ Sets /\ Order

-----------------------------------------------------------------------------
(* What a step leaves as it is.                                            *)

LEMMA MachineKept ==
    ASSUME UNCHANGED machine
    PROVE  /\ Disks' = Disks /\ (MachineOK' <=> MachineOK)
           /\ Nodes' = Nodes /\ Rank' = Rank /\ Sound' = Sound /\ Asked' = Asked
           /\ \A s : Position(s)' = Position(s)
           /\ \A s : Led(s)' = Led(s)
           /\ \A s : ReadDirectly(s)' <=> ReadDirectly(s)
           /\ \A s : ReadMounted(s)' <=> ReadMounted(s)
           /\ \A s : HasData(s)' <=> HasData(s)
<1>1. system' = system /\ disk' = disk /\ reply' = reply /\ override' = override
  BY DEF machine
<1>2. Disks' = Disks /\ Nodes' = Nodes
  BY <1>1, Zenon DEF Disks, Nodes
<1>3. MachineOK' <=> MachineOK
  BY <1>1, <1>2, Zenon DEF MachineOK
<1>4. Sound' = Sound /\ Asked' = Asked
  BY <1>1, Zenon DEF Sound, Asked
<1>5. /\ \A s : HasData(s)' <=> HasData(s)
      /\ \A s : ReadDirectly(s)' <=> ReadDirectly(s)
      /\ \A s : ReadMounted(s)' <=> ReadMounted(s)
  BY <1>1, Zenon DEF HasData, ReadDirectly, ReadMounted
<1>6. \A s : Led(s)' = Led(s)
  BY <1>1, <1>2, Zenon DEF Led
<1>7. \A s : Position(s)' = Position(s)
  BY <1>1, <1>2, Zenon DEF Position
<1>8. Rank' = Rank
  BY <1>1, <1>2, <1>5, <1>7 DEF Rank
<1> QED BY <1>2, <1>3, <1>4, <1>5, <1>6, <1>7, <1>8

LEMMA ReadyKept ==
    ASSUME UNCHANGED machine, UNCHANGED world
    PROVE  Ready' = Ready /\ MountNodes' = MountNodes
<1>1. /\ system' = system /\ disk' = disk /\ reply' = reply
      /\ visible' = visible /\ up' = up
  BY DEF machine, world
<1>2. \A x : Behind(x)' = Behind(x)
  BY <1>1, Zenon DEF Behind
<1>3. MountNodes' = MountNodes
  BY <1>1, Zenon DEF MountNodes, SelectInSeq, Behind
<1>4. NetSpeaks' <=> NetSpeaks
  BY <1>1, Zenon DEF NetSpeaks
<1> QED
  BY <1>1, <1>2, <1>3, <1>4, Zenon DEF Ready, ReadDirectly, ReadMounted, HasData

\* What is ready, and why.
LEMMA ReadyFacts ==
    ASSUME MachineOK, visible \subseteq Disks
    PROVE  /\ Ready \subseteq Sources
           /\ Net \in Ready <=> NetSpeaks
           /\ \A s \in Ready \ {Net} :
                 /\ s \in visible /\ s \in Disks /\ HasData(s)
                 /\ ~ReadDirectly(s) =>
                       ReadMounted(s) /\ \E m \in Range(MountNodes) : s \in Led(m)
           /\ \A s \in visible : s # Net
           /\ \A s \in visible, m \in Range(MountNodes) :
                 ReadMounted(s) /\ s \in Led(m) => s \in Ready
           /\ \A s \in visible : ReadDirectly(s) => s \in Ready
<1>1. \A s \in visible : s \in Disks /\ s \in Sources /\ s # Net
  BY DiskFacts
<1>2. \A m : Behind(m) = Led(m) \cap visible
  BY BehindIsLed
<1>3. \A s \in Ready \ {Net} :
         /\ s \in visible
         /\ ReadDirectly(s) \/ (ReadMounted(s) /\ \E m \in Range(MountNodes) : s \in Behind(m))
  BY DEF Ready
<1>4. \A s : ReadDirectly(s) \/ ReadMounted(s) => HasData(s)
  BY DEF ReadDirectly, ReadMounted
<1>5. Net \in Ready <=> NetSpeaks
  BY <1>1 DEF Ready
<1>6. Ready \subseteq Sources
  BY <1>1, <1>3 DEF Sources
<1>7. \A s \in visible, m \in Range(MountNodes) :
         ReadMounted(s) /\ s \in Led(m) => s \in Ready
  BY <1>2 DEF Ready
<1>8. \A s \in visible : ReadDirectly(s) => s \in Ready
  BY DEF Ready
<1> QED BY <1>1, <1>2, <1>3, <1>4, <1>5, <1>6, <1>7, <1>8

-----------------------------------------------------------------------------
(* What every step does to the sets, and to the promise.                   *)

Refines == [Choice!Next]_(Choice!svars)

\* A call of the probes works, or fails for some sources.
Called ==
    \/ Works
    \/ Fails /\ UNCHANGED <<may, must>>
    \/ \E S : FailsFor(S)

LEMMA CalledFacts ==
    ASSUME IInv, Called
    PROVE  /\ may' = may /\ must' \subseteq must
           /\ faults \in Nat /\ faults' \in 0..MaxFaults /\ faults' >= faults
           /\ faults' = faults => must' = must
<1>1. faults \in 0..MaxFaults /\ MaxFaults \in Nat
  BY SeatsAssumption DEF IInv, Typed
<1>2. CASE Works
  BY <1>1, <1>2 DEF Works
<1>3. CASE Fails /\ UNCHANGED <<may, must>>
  BY <1>1, <1>3 DEF Fails
<1>4. CASE \E S : FailsFor(S)
  BY <1>1, <1>4 DEF FailsFor, Fails
<1> QED BY <1>2, <1>3, <1>4 DEF Called

\* A step that neither begins nor ends a discovery.
LEMMA Quiet ==
    ASSUME IInv, ~Over, UNCHANGED machine, UNCHANGED world, Called,
           pc' \notin {"idle", "done"},
           override => pc' \in {"get", "body"},
           pc' = "body" => up /\ reply \in {"cut", "broken", "config"}
    PROVE  /\ may' = may /\ must' \subseteq must /\ Ready' = Ready
           /\ Sets' /\ Refines
<1>1. /\ may' = may /\ must' \subseteq must
      /\ faults \in Nat /\ faults' \in Nat /\ faults' >= faults
      /\ faults' = faults => must' = must
  BY CalledFacts
<1>2. /\ Ready' = Ready /\ Asked' = Asked /\ Rank' = Rank /\ Sound' = Sound
      /\ UNCHANGED <<up, reply, override>>
  BY MachineKept, ReadyKept DEF machine, world
<1>3. must \subseteq Ready /\ Ready \subseteq Sources
  BY ReadyFacts DEF IInv, Sets, Typed
<1>4. Sets'
  BY <1>1, <1>2 DEF IInv, Sets, Over
<1>5. Choice!Change
  <2>1. ~Over /\ ~Over' /\ pc # "idle" /\ pc # "done" /\ pc' # "idle" /\ pc' # "done"
    BY DEF Over
  <2>2. must' \in Choice!Left /\ must' = must' \cap Ready'
    BY <1>1, <1>2, <1>3, <2>1 DEF Choice!Left
  <2> QED BY <1>1, <1>2, <1>3, <2>1, <2>2 DEF Choice!Change
<1> QED BY <1>1, <1>2, <1>4, <1>5 DEF Refines, Choice!Next

LEMMA TypedKept ==
    ASSUME IInv, UNCHANGED machine, UNCHANGED world, Called, n' = n
    PROVE  Typed'
BY MachineKept, CalledFacts DEF IInv, Typed, world

\* A discovery ends with a source: one that had user-data, and that is before
\* what must not be passed over, or what of it no failed read was for.
LEMMA EndsWith ==
    ASSUME IInv, ~Over, UNCHANGED machine, UNCHANGED world, Called, n' = n,
           pc' = "done", NEW s \in may, NEW c \in BOOLEAN,
           found' = [from |-> s, config |-> c],
           NEW left \in SUBSET must, faults' = faults => left = must,
           \A t \in left : Rank[s] <= Rank[t],
           IF c THEN s \in Sound ELSE s \notin Sound \cap left
    PROVE  Typed' /\ Result' /\ Sets' /\ Order' /\ Refines
<1>1. /\ may' = may /\ must' \subseteq must
      /\ faults \in Nat /\ faults' \in Nat /\ faults' >= faults
  BY CalledFacts
<1>2. /\ Ready' = Ready /\ Asked' = Asked /\ Rank' = Rank /\ Sound' = Sound
      /\ UNCHANGED <<up, reply, override>>
  BY MachineKept, ReadyKept DEF machine, world
<1>3. Typed'
  BY TypedKept
<1>4. s \in Sources
  BY DEF IInv, Sets, Asked, Sources
<1>5. Result'
  BY <1>4, AnswersAssumption DEF Result
<1>6. Sets' /\ Order'
  BY <1>1, <1>2 DEF IInv, Sets, Over, Order, HasMount
<1>7. Choice!AnswerFrom(s, c)
  <2>1. ~Over /\ Over' /\ pc # "idle" /\ pc # "done" /\ pc' # "idle"
    BY DEF Over
  <2>2. left \in Choice!Left
    BY <2>1 DEF Choice!Left
  <2>3. Choice!Ends([from |-> s, config |-> c])
    BY <1>1, <1>2, <2>1 DEF Choice!Ends
  <2> QED BY <2>1, <2>2, <2>3 DEF Choice!AnswerFrom
<1> QED BY <1>3, <1>4, <1>5, <1>6, <1>7 DEF Refines, Choice!Next

\* It ends without one: nothing is left that must not be passed over, or a read
\* has failed.
LEMMA EndsWithout ==
    ASSUME IInv, ~Over, UNCHANGED machine, UNCHANGED world, Called, n' = n,
           pc' = "done", found' = NotFound, must = {} \/ faults' # faults
    PROVE  Typed' /\ Result' /\ Sets' /\ Order' /\ Refines
<1>1. /\ may' = may /\ must' \subseteq must
      /\ faults \in Nat /\ faults' \in Nat /\ faults' >= faults
  BY CalledFacts
<1>2. /\ Ready' = Ready /\ Asked' = Asked /\ Rank' = Rank /\ Sound' = Sound
      /\ UNCHANGED <<up, reply, override>>
  BY MachineKept, ReadyKept DEF machine, world
<1>3. Typed'
  BY TypedKept
<1>4. Result'
  BY AnswersAssumption DEF Result
<1>5. Sets' /\ Order'
  BY <1>1, <1>2 DEF IInv, Sets, Over, Order, HasMount
<1>6. Choice!AnswerNotFound
  <2>1. ~Over /\ Over' /\ pc # "idle" /\ pc # "done" /\ pc' # "idle"
    BY DEF Over
  <2>2. {} \in Choice!Left
    BY <2>1 DEF Choice!Left
  <2>3. Choice!Ends(NotFound)
    BY <1>1, <1>2, <2>1 DEF Choice!Ends
  <2> QED BY <2>2, <2>3 DEF Choice!AnswerNotFound
<1> QED BY <1>3, <1>4, <1>5, <1>6 DEF Refines, Choice!Next

-----------------------------------------------------------------------------
(* The world, the beginning of a discovery, and its death.                 *)

LEMMA WorldStep ==
    ASSUME IInv, DiskAppears \/ NetworkAppears
    PROVE  Typed' /\ Result' /\ Sets' /\ Order' /\ Refines
<1>1. /\ UNCHANGED machine /\ UNCHANGED <<pc, n, found, todo, mounted, faults>>
      /\ visible \subseteq visible' /\ visible' \subseteq Disks /\ (up => up')
      /\ See
  BY DEF DiskAppears, NetworkAppears, mount, IInv, Typed, Disks
<1>2. /\ may' = may \cup (Ready' \cap Asked) /\ must' = must \cap Ready'
      /\ UNCHANGED <<reply, override>>
  BY <1>1 DEF See, machine
<1>3. Ready' \subseteq Sources
  BY <1>1 DEF Ready, Disks, Sources
<1>4. faults \in Nat /\ faults \in 0..MaxFaults
  BY SeatsAssumption DEF IInv, Typed
<1>5. Typed'
  BY <1>1, <1>4, MachineKept DEF IInv, Typed
<1>6. Asked' = Asked /\ Rank' = Rank /\ Sound' = Sound
  BY <1>1, MachineKept
<1>7. Result'
  BY <1>1, <1>2, <1>6 DEF IInv, Result, Best
<1>8. Sets'
  BY <1>1, <1>2, <1>6 DEF IInv, Sets, Over
<1>9. Order'
  <2>1. Todo(todo) => Todo(todo)'
    BY <1>1, <1>2, MachineKept DEF Todo, machine
  <2>2. \A k : FromNode(k) => FromNode(k)'
    BY <1>1, <1>2, MachineKept DEF FromNode
  <2>3. \A s : ReadDirectly(s)' <=> ReadDirectly(s)
    BY <1>1, MachineKept
  <2>4. HasData(Last(mounted))' <=> HasData(Last(mounted))
    BY <1>1, MachineKept DEF machine, HasData
  <2>5. Led(todo[1])' = Led(todo[1])
    BY <1>1, MachineKept
  <2>6. UNCHANGED <<system, disk>>
    BY <1>1 DEF machine
  <2> QED BY <1>1, <1>2, <1>6, <2>1, <2>2, <2>3, <2>4, <2>5, <2>6 DEF IInv, Order, Last
<1>10. Choice!Change
  <2>1. Over' <=> Over
    BY <1>1 DEF Over
  <2>2. CASE Over
    <3>1. {} \in Choice!Left
      BY <1>1, <2>2 DEF Choice!Left
    <3> QED BY <1>1, <1>2, <1>3, <1>4, <1>6, <2>1, <2>2, <3>1 DEF Choice!Change
  <2>3. CASE ~Over
    <3>1. must \in Choice!Left
      BY <1>1, <2>3 DEF Choice!Left
    <3> QED BY <1>1, <1>2, <1>3, <1>4, <1>6, <2>1, <2>3, <3>1 DEF Choice!Change
  <2> QED BY <2>2, <2>3
<1> QED BY <1>5, <1>7, <1>8, <1>9, <1>10 DEF Refines, Choice!Next

LEMMA DiscoverStep ==
    ASSUME IInv, Discover
    PROVE  Typed' /\ Result' /\ Sets' /\ Order' /\ Refines
<1>1. /\ pc \in {"idle", "done"} /\ pc' = (IF override THEN "get" ELSE "direct")
      /\ n' = 1 /\ found' = Pending /\ may' = Ready \cap Asked
      /\ must' = Ready \cap Asked /\ faults' = faults
      /\ UNCHANGED machine /\ UNCHANGED world
  BY DEF Discover
<1>2. /\ Ready' = Ready /\ Asked' = Asked /\ Rank' = Rank /\ Sound' = Sound
      /\ UNCHANGED <<up, reply, override, visible>>
  BY <1>1, MachineKept, ReadyKept DEF machine, world
<1>3. Typed'
  BY <1>1, <1>2, MachineKept, NodeFacts DEF IInv, Typed
<1>4. Result'
  BY <1>1 DEF Result
<1>5. Sets'
  BY <1>1, <1>2 DEF IInv, Sets, Over
<1>6. Order'
  <2>1. CASE override
    <3>1. must' \subseteq {Net} /\ pc' = "get"
      BY <1>1, <2>1 DEF Asked
    <3> QED BY <3>1 DEF Order, HasMount
  <2>2. CASE ~override
    <3>1. ASSUME NEW t \in Ready PROVE 1 <= Rank[t]
      <4>1. MachineOK /\ visible \subseteq Disks
        BY DEF IInv, Typed
      <4>2. CASE t = Net
        BY <4>1, <4>2, RankFacts
      <4>3. CASE t # Net
        <5>1. t \in Disks /\ t \in SeatSet
          BY <4>1, <4>3, ReadyFacts, DiskFacts
        <5>2. Position(t) \in 1..Len(Nodes) /\ Len(Nodes) \in Nat
          BY <4>1, <5>1, PositionIsFirst, NodeFacts
        <5>3. Rank[t] = Position(t) + IF ReadDirectly(t) THEN 0 ELSE Len(Nodes)
          BY <4>1, <5>1, RankFacts
        <5> QED BY <5>2, <5>3
      <4> QED BY <4>2, <4>3
    <3>2. pc' = "direct" /\ n' = 1
      BY <1>1, <2>2
    <3> QED BY <1>1, <1>2, <3>1, <3>2 DEF Order, HasMount
  <2> QED BY <2>1, <2>2 DEF IInv, Typed, MachineOK
<1>7. Choice!Begin(Asked)
  <2>1. Over /\ ~Over' /\ pc' # "idle" /\ pc' # "done"
    BY <1>1 DEF Over
  <2>2. pc = "done" => found # Pending
    BY DEF IInv, Result
  <2> QED BY <1>1, <1>2, <2>1, <2>2, AnswersAssumption DEF Choice!Begin
<1>8. Asked \in SUBSET Sources
  BY DEF Asked, Sources
<1> QED BY <1>3, <1>4, <1>5, <1>6, <1>7, <1>8 DEF Refines, Choice!Next

LEMMA KillStep ==
    ASSUME IInv, Kill
    PROVE  Typed' /\ Result' /\ Sets' /\ Order' /\ Refines
<1>1. /\ pc \notin {"idle", "done"} /\ pc' = "idle" /\ Called
      /\ UNCHANGED machine /\ UNCHANGED world
      /\ UNCHANGED <<n, found, may, must>>
  BY DEF Kill, Called
<1>2. faults \in Nat /\ faults' \in Nat /\ faults' >= faults
  BY <1>1, CalledFacts
<1>3. /\ Ready' = Ready /\ Asked' = Asked /\ Rank' = Rank /\ Sound' = Sound
      /\ UNCHANGED <<up, reply, override>>
  BY <1>1, MachineKept, ReadyKept DEF machine, world
<1>4. Typed'
  BY <1>1, TypedKept
<1>5. Result' /\ Sets' /\ Order'
  BY <1>1, <1>3 DEF IInv, Result, Sets, Order, Over, HasMount
<1>6. Choice!Abandon
  <2>1. ~Over /\ Over' /\ pc # "idle" /\ pc # "done"
    BY <1>1 DEF Over
  <2> QED BY <1>1, <1>2, <1>3, <2>1 DEF Choice!Abandon, Choice!Ends
<1> QED BY <1>4, <1>5, <1>6 DEF Refines, Choice!Next

-----------------------------------------------------------------------------
(* The direct read.                                                        *)

LEMMA SoundFacts ==
    ASSUME MachineOK
    PROVE  /\ Net \in Sound <=> reply = "config"
           /\ \A s \in Disks : s \in Sound <=> disk[s].data = "config"
BY DiskFacts DEF Sound, Disks

\* What must not be passed over is a disk that is there, or the network.
LEMMA MustFacts ==
    ASSUME IInv, ~Over, NEW t \in must
    PROVE  /\ t \in Ready /\ t \in may /\ t \in Asked
           /\ t # Net =>
                 /\ t \in Disks /\ t \in SeatSet /\ t \in visible /\ HasData(t)
                 /\ Position(t) \in 1..Len(Nodes)
                 /\ ~ReadDirectly(t) =>
                       ReadMounted(t) /\ \E m \in Range(MountNodes) : t \in Led(m)
           /\ Rank[t] = IF t = Net THEN 2 * Len(Nodes) + 1
                        ELSE IF ReadDirectly(t) THEN Position(t)
                        ELSE Position(t) + Len(Nodes)
           /\ Len(Nodes) \in Nat
<1>1. t \in Ready /\ t \in may /\ t \in Asked /\ MachineOK /\ visible \subseteq Disks
  BY DEF IInv, Sets, Typed
<1>2. t # Net =>
         /\ t \in Disks /\ t \in SeatSet /\ t \in visible /\ HasData(t)
         /\ ~ReadDirectly(t) =>
               ReadMounted(t) /\ \E m \in Range(MountNodes) : t \in Led(m)
  BY <1>1, ReadyFacts DEF Disks
<1>3. t # Net => Position(t) \in 1..Len(Nodes)
  BY <1>1, <1>2, PositionIsFirst
<1>4. Len(Nodes) \in Nat
  BY <1>1, NodeFacts
<1>5. Rank[t] = IF t = Net THEN 2 * Len(Nodes) + 1
                ELSE IF ReadDirectly(t) THEN Position(t)
                ELSE Position(t) + Len(Nodes)
  <2>1. CASE t = Net
    BY <1>1, <2>1, RankFacts
  <2>2. CASE t # Net
    <3>1. Rank[t] = Position(t) + IF ReadDirectly(t) THEN 0 ELSE Len(Nodes)
      BY <1>1, <1>2, <2>2, RankFacts
    <3> QED BY <1>3, <1>4, <2>2, <3>1
  <2> QED BY <2>1, <2>2
<1> QED BY <1>1, <1>2, <1>3, <1>4, <1>5

LEMMA AtDirect ==
    ASSUME IInv, pc \in {"direct", "locate", "mkdir", "mount", "look", "pop", "read"}
    PROVE  /\ ~Over /\ ~override /\ Asked = Sources /\ found = Pending
           /\ MachineOK /\ visible \subseteq Disks
<1>1. ~Over /\ ~override /\ found = Pending
  BY DEF IInv, Sets, Result, Over
<1> QED BY <1>1 DEF IInv, Typed, Asked

LEMMA CandidatePassed ==
    ASSUME IInv, AtCandidate, NEW t \in must, t \notin Readable
    PROVE  n + 1 <= Rank[t]
<1>1. /\ pc = "direct" /\ ~Over /\ n \in Nat /\ n <= Len(Nodes) /\ n <= Rank[t]
      /\ Len(Nodes) \in Nat
  BY AtDirect, MustFacts DEF AtCandidate, IInv, Typed, Order
<1>2. CASE t = Net
  <2>1. Rank[t] = 2 * Len(Nodes) + 1
    BY <1>1, <1>2, MustFacts
  <2> QED BY <1>1, <2>1
<1>3. CASE t # Net /\ ~ReadDirectly(t)
  <2>1. Rank[t] = Position(t) + Len(Nodes) /\ Position(t) \in 1..Len(Nodes)
    BY <1>1, <1>3, MustFacts
  <2> QED BY <1>1, <2>1
<1>4. CASE t # Net /\ ReadDirectly(t)
  <2>1. /\ Rank[t] = Position(t) /\ Position(t) \in 1..Len(Nodes)
        /\ t \in SeatSet /\ t \in visible
    BY <1>1, <1>4, MustFacts
  <2>2. Leads(Position(t), t)
    BY <2>1, PositionIsFirst DEF IInv, Typed
  <2>3. Position(t) # n
    BY <1>4, <2>1, <2>2 DEF Leads, Readable, Behind
  <2> QED BY <1>1, <2>1, <2>3
<1> QED BY <1>2, <1>3, <1>4

LEMMA DirectMisses ==
    ASSUME IInv, DirectSkips \/ DirectFails
    PROVE  Typed' /\ Result' /\ Sets' /\ Order' /\ Refines
<1>1. /\ AtCandidate /\ pc = "direct" /\ pc' = pc /\ n' = n + 1 /\ found' = found
      /\ UNCHANGED machine /\ UNCHANGED world /\ Called
  BY DEF DirectSkips, DirectFails, AtCandidate, NextCandidate, Called
<1>2. ~Over /\ ~override
  BY <1>1, AtDirect
<1>3. may' = may /\ must' \subseteq must /\ Sets' /\ Refines
  BY <1>1, <1>2, Quiet
<1>4. \A t \in must' : t \in must /\ t \notin Readable
  BY DEF DirectSkips, DirectFails, Works, FailsFor
<1>5. /\ Rank' = Rank /\ Nodes' = Nodes /\ Disks' = Disks /\ (MachineOK' <=> MachineOK)
      /\ visible' = visible
  BY <1>1, MachineKept DEF world
<1>6. Typed'
  <2>1. n' \in 1..(Len(Nodes) + 1)
    BY <1>1, NodeFacts DEF AtCandidate, IInv, Typed
  <2> QED BY <1>1, <1>5, <2>1, CalledFacts DEF IInv, Typed
<1>7. Result'
  BY <1>1 DEF IInv, Result
<1>8. Order'
  <2>1. \A t \in must' : n' <= Rank'[t]
    BY <1>1, <1>4, <1>5, CandidatePassed
  <2> QED BY <1>1, <2>1 DEF Order, HasMount
<1> QED BY <1>3, <1>6, <1>7, <1>8

LEMMA DirectReadsStep ==
    ASSUME IInv, DirectReads
    PROVE  Typed' /\ Result' /\ Sets' /\ Order' /\ Refines
<1>1. PICK s \in Readable : Parsed(s)
  BY DEF DirectReads
<1>2. /\ AtCandidate /\ pc = "direct" /\ pc' = "done" /\ n' = n
      /\ UNCHANGED machine /\ UNCHANGED world /\ Called /\ faults' = faults
  BY DEF DirectReads, AtCandidate, Called, Works
<1>3. ~Over /\ Asked = Sources /\ MachineOK /\ visible \subseteq Disks
  BY <1>2, AtDirect
<1>4. /\ s \in visible /\ s \in Disks /\ s \in SeatSet /\ ReadDirectly(s) /\ Leads(n, s)
      /\ n \in 1..Len(Nodes) /\ Len(Nodes) \in Nat
  BY <1>2, <1>3, NodeFacts DEF Readable, Behind, Leads, AtCandidate, IInv, Typed, Disks
<1>5. s \in may
  <2>1. s \in Ready /\ s \in Sources
    BY <1>3, <1>4, ReadyFacts DEF Sources
  <2> QED BY <1>3, <2>1 DEF IInv, Sets
<1>6. ASSUME NEW t \in must PROVE Rank[s] <= Rank[t]
  <2>1. Rank[s] = Position(s) + 0 /\ Position(s) \in 1..Len(Nodes) /\ Position(s) <= n
    BY <1>3, <1>4, RankFacts, PositionIsFirst
  <2>2. n <= Rank[t] /\ Rank[t] \in Nat
    <3>1. t \in Sources
      BY <1>3, MustFacts
    <3> QED BY <1>2, <1>3, <3>1, RankFacts DEF IInv, Order
  <2> QED BY <1>4, <2>1, <2>2
<1> DEFINE c == disk[s].data = "config"
<1>7. c \in BOOLEAN /\ found' = [from |-> s, config |-> c] /\ (c <=> s \in Sound)
  BY <1>1, <1>3, <1>4, SoundFacts DEF Parsed, Answer
<1> HIDE DEF c
<1> QED BY <1>2, <1>3, <1>5, <1>6, <1>7, EndsWith

LEMMA DirectDoneStep ==
    ASSUME IInv, DirectDone
    PROVE  Typed' /\ Result' /\ Sets' /\ Order' /\ Refines
<1>1. /\ pc = "direct" /\ n > Len(Nodes) /\ pc' = "locate" /\ n' = n /\ found' = found
      /\ UNCHANGED machine /\ UNCHANGED world /\ Called
  BY DEF DirectDone, Called
<1>2. ~Over /\ ~override /\ MachineOK
  BY <1>1, AtDirect
<1>3. may' = may /\ must' \subseteq must /\ Sets' /\ Refines
  BY <1>1, <1>2, Quiet
<1>4. Typed' /\ Result'
  BY <1>1, TypedKept DEF IInv, Result
<1>5. ASSUME NEW t \in must' \ {Net} PROVE ~ReadDirectly(t)
  <2>1. t \in must /\ n <= Rank[t] /\ n \in Nat
    BY <1>1, <1>3, NodeFacts DEF IInv, Order, Typed
  <2>2. /\ Position(t) \in 1..Len(Nodes) /\ Len(Nodes) \in Nat
        /\ ReadDirectly(t) => Rank[t] = Position(t)
    BY <1>2, <2>1, MustFacts
  <2> QED BY <1>1, <2>1, <2>2
<1>6. Order'
  BY <1>1, <1>5, MachineKept DEF Order, HasMount
<1> QED BY <1>3, <1>4, <1>6

-----------------------------------------------------------------------------
(* The mount fallback.                                                     *)

LEMMA TodoKept ==
    ASSUME UNCHANGED machine, may' = may, Todo(todo), todo' = todo
    PROVE  Todo(todo)'
BY MachineKept DEF Todo, machine

LEMMA TodoTail ==
    ASSUME UNCHANGED machine, may' = may, Todo(todo), todo # <<>>,
           todo' = Tail(todo)
    PROVE  /\ Todo(todo)' /\ Len(todo') = Len(todo) - 1 /\ Len(todo) \in Nat
           /\ \A i \in 1..Len(todo') : todo'[i] = todo[i + 1] /\ i + 1 \in 1..Len(todo)
<1> DEFINE N == SeatSet \cup Range(Labels)
<1>1. todo \in Seq(N) /\ todo' = Tail(todo) /\ todo # <<>>
  BY DEF Todo
<1>2. /\ todo' \in Seq(N) /\ Len(todo') = Len(todo) - 1 /\ Len(todo) \in Nat
      /\ \A i \in 1..Len(todo') : todo'[i] = todo[i + 1] /\ i + 1 \in 1..Len(todo)
  <2> HIDE DEF N
  <2> QED BY <1>1
<1>3. /\ SeatSet' = SeatSet /\ Range(Labels)' = Range(Labels)
      /\ system' = system
      /\ \A s : Led(s)' = Led(s) /\ (ReadMounted(s)' <=> ReadMounted(s))
                /\ Position(s)' = Position(s)
  BY MachineKept DEF machine
<1>4. (system = "bsd" => \A i \in 1..Len(todo) : todo[i] \in SeatSet)'
  BY <1>2, <1>3 DEF Todo
<1>5. system = "linux" =>
         /\ Len(todo') <= 1
         /\ \A i \in 1..Len(todo') : \A s \in Led(todo'[i]) : ReadMounted(s) => s \in may
  BY <1>2 DEF Todo
<1>6. \A i, j \in 1..Len(todo') : i <= j =>
         \A s \in Led(todo'[i]), t \in Led(todo'[j]) : Position(s) <= Position(t)
  <2> SUFFICES ASSUME NEW i \in 1..Len(todo'), NEW j \in 1..Len(todo'), i <= j,
                      NEW s \in Led(todo'[i]), NEW t \in Led(todo'[j])
               PROVE  Position(s) <= Position(t)
    OBVIOUS
  <2>1. s \in Led(todo[i + 1]) /\ t \in Led(todo[j + 1]) /\ i + 1 <= j + 1
        /\ i + 1 \in 1..Len(todo) /\ j + 1 \in 1..Len(todo)
    BY <1>2
  <2> QED BY <2>1 DEF Todo
<1>7. Todo(todo)'
  BY <1>2, <1>3, <1>4, <1>5, <1>6 DEF Todo
<1> QED BY <1>2, <1>7

\* What Locate chooses to mount.  The label that Linux chooses was there, so
\* that its one disk may answer; the seats of the BSDs are in the order of the
\* candidates.
LEMMA LocateTodo ==
    ASSUME IInv, pc = "locate"
    PROVE  /\ Todo(MountNodes)
           /\ \A t \in must \ {Net} :
                 \E j \in 1..Len(MountNodes) : t \in Led(MountNodes[j])
<1>1. ~Over /\ Asked = Sources /\ MachineOK /\ visible \subseteq Disks
  BY AtDirect
<1>2. MountNodes \in Seq(SeatSet \cup Range(Labels))
  <2> DEFINE N == SeatSet \cup Range(Labels)
  <2>1. Seats \in Seq(N) /\ <<>> \in Seq(N) /\ \A l \in Range(Labels) : <<l>> \in Seq(N)
    BY SeatsAssumption
  <2>2. \/ MountNodes = Seats \/ MountNodes = <<>>
        \/ \E l \in Range(Labels) : MountNodes = <<l>>
    BY <1>1, MountNodesFacts DEF MachineOK
  <2> HIDE DEF N
  <2>3. MountNodes \in Seq(N)
    BY <2>1, <2>2
  <2> QED BY <2>3 DEF N
<1>3. ASSUME NEW t \in must \ {Net}
      PROVE  \E j \in 1..Len(MountNodes) : t \in Led(MountNodes[j])
  <2>1. ~ReadDirectly(t)
    BY DEF IInv, Order
  <2>2. PICK m \in Range(MountNodes) : t \in Led(m)
    BY <1>1, <2>1, MustFacts
  <2>3. \E j \in DOMAIN MountNodes : m = MountNodes[j]
    BY DEF Range
  <2>4. DOMAIN MountNodes = 1..Len(MountNodes)
    BY <1>2
  <2> QED BY <2>2, <2>3, <2>4
<1>4. CASE system = "bsd"
  <2>1. MountNodes = Seats
    BY <1>1, <1>4, MountNodesFacts
  <2>2. ASSUME NEW i \in 1..Len(Seats), NEW s \in Led(Seats[i])
        PROVE  Position(s) = i
    <3>1. s \in Disks /\ Seats[i] \in SeatSet
      BY SeatFacts DEF Led
    <3>2. s \in SeatSet /\ disk[s].label \notin SeatSet
      BY <1>1, <3>1, DiskFacts
    <3>3. s = Seats[i]
      BY <3>1, <3>2 DEF Led
    <3>4. Position(s) \in 1..Len(Nodes) /\ Leads(Position(s), s)
      BY <1>1, <3>2, PositionIsFirst
    <3>5. Nodes = Seats
      BY <1>1, <1>4, NodeFacts
    <3>6. Seats[Position(s)] \in SeatSet
      BY <3>4, <3>5, SeatFacts
    <3>7. Seats[Position(s)] = s
      BY <3>2, <3>4, <3>5, <3>6 DEF Leads
    <3> QED BY <3>3, <3>4, <3>5, <3>7, SeatFacts
  <2>3. \A i, j \in 1..Len(Seats) : i <= j =>
           \A s \in Led(Seats[i]), t \in Led(Seats[j]) : Position(s) <= Position(t)
    BY <2>2
  <2> QED BY <1>2, <1>3, <1>4, <2>1, <2>3, SeatFacts DEF Todo
<1>5. CASE system = "linux"
  <2>1. CASE MountNodes = <<>>
    BY <1>2, <1>3, <1>5, <2>1 DEF Todo
  <2>2. CASE MountNodes # <<>>
    <3>1. PICK l \in Range(Labels) : MountNodes = <<l>> /\ Behind(l) # {}
      BY <1>1, <1>5, <2>2, MountNodesFacts
    <3>2. Len(MountNodes) = 1 /\ MountNodes[1] = l /\ l \in Range(MountNodes)
      BY <3>1 DEF Range
    <3>3. \A s, t \in Led(l) : s = t
      BY <1>1, LedUnique
    <3>4. ASSUME NEW s \in Led(l), ReadMounted(s) PROVE s \in may
      <4>1. s \in visible
        BY <1>1, <3>1, <3>3, BehindIsLed
      <4>2. s \in Ready
        BY <1>1, <3>2, <3>4, <4>1, ReadyFacts
      <4> QED BY <1>1, <4>2, ReadyFacts DEF IInv, Sets
    <3>5. \A s, t \in Led(l) : Position(s) <= Position(t)
      <4>1. ASSUME NEW s \in Led(l) PROVE Position(s) <= Position(s)
        <5>1. Position(s) \in Nat
          BY <1>1, PositionIsFirst, NodeFacts DEF Led, Disks
        <5> QED BY <5>1
      <4> QED BY <3>3, <4>1
    <3> QED BY <1>2, <1>3, <1>5, <3>2, <3>4, <3>5 DEF Todo
  <2> QED BY <2>1, <2>2
<1> QED BY <1>1, <1>4, <1>5 DEF MachineOK

LEMMA NothingButNet ==
    ASSUME IInv, ~Over, NEW S \in SUBSET must, \A t \in S : t \notin SeatSet
    PROVE  S \subseteq {Net}
BY MustFacts DEF Asked, Sources

LEMMA LocateStep ==
    ASSUME IInv, Locate
    PROVE  Typed' /\ Result' /\ Sets' /\ Order' /\ Refines
<1>1. /\ pc = "locate" /\ todo' = MountNodes
      /\ pc' = (IF todo' = <<>> THEN "route" ELSE "mkdir")
      /\ n' = n /\ found' = found /\ must' = must
      /\ UNCHANGED machine /\ UNCHANGED world /\ Called
  BY DEF Locate, Goto, Called, Works
<1>2. ~Over /\ ~override /\ MachineOK
  BY <1>1, AtDirect
<1>3. may' = may /\ Sets' /\ Refines
  BY <1>1, <1>2, Quiet
<1>4. Typed' /\ Result'
  BY <1>1, TypedKept DEF IInv, Result
<1>5. Todo(todo)'
  <2>1. Todo(MountNodes)
    BY <1>1, LocateTodo
  <2> QED BY <1>1, <1>3, <2>1, MachineKept DEF Todo, machine
<1>6. FromNode(1)'
  BY <1>1, LocateTodo, MachineKept DEF FromNode
<1>7. CASE todo' = <<>>
  <2>1. must \subseteq {Net}
    BY <1>1, <1>7, LocateTodo
  <2> QED BY <1>1, <1>3, <1>4, <1>7, <2>1 DEF Order, HasMount
<1>8. CASE todo' # <<>>
  <2>1. \A t \in must' \ {Net} : ~ReadDirectly(t)'
    BY <1>1, MachineKept DEF IInv, Order
  <2> QED BY <1>1, <1>3, <1>4, <1>5, <1>6, <1>8, <2>1 DEF Order, HasMount
<1> QED BY <1>7, <1>8

LEMMA MkdirStep ==
    ASSUME IInv, MkdirTemp
    PROVE  Typed' /\ Result' /\ Sets' /\ Order' /\ Refines
<1>1. /\ pc = "mkdir" /\ pc' \in {"mount", "route"} /\ todo' = todo
      /\ n' = n /\ found' = found
      /\ UNCHANGED machine /\ UNCHANGED world /\ Called
      /\ pc' = "route" => \A t \in must' : t \in must /\ t \notin SeatSet
  BY DEF MkdirTemp, Goto, Called, FailsFor
<1>2. ~Over /\ ~override
  BY <1>1, AtDirect
<1>3. may' = may /\ must' \subseteq must /\ Sets' /\ Refines
  BY <1>1, <1>2, Quiet
<1>4. Typed' /\ Result'
  BY <1>1, TypedKept DEF IInv, Result
<1>5. CASE pc' = "mount"
  <2>1. Todo(todo)'
    BY <1>1, <1>3, TodoKept DEF IInv, Order
  <2>2. FromNode(1)'
    BY <1>1, <1>3, MachineKept DEF IInv, Order, FromNode
  <2>3. \A t \in must' \ {Net} : ~ReadDirectly(t)'
    BY <1>1, <1>3, MachineKept DEF IInv, Order
  <2> QED BY <1>3, <1>4, <1>5, <2>1, <2>2, <2>3 DEF Order, HasMount
<1>6. CASE pc' = "route"
  <2>1. must' \subseteq {Net}
    BY <1>1, <1>2, <1>3, <1>6, NothingButNet
  <2> QED BY <1>3, <1>4, <1>6, <2>1 DEF Order, HasMount
<1> QED BY <1>1, <1>5, <1>6

LEMMA AtMount ==
    ASSUME IInv, pc \in HasMount \cup {"mount"}, todo # <<>>
    PROVE  /\ Todo(todo) /\ Len(todo) \in Nat /\ 1 \in 1..Len(todo)
           /\ todo[1] = Head(todo) /\ todo[1] \in SeatSet \cup Range(Labels)
           /\ \A s, t \in Led(todo[1]) : s = t
           /\ Fitting = {s \in Led(todo[1]) \cap visible : disk[s].format \in MountFormats}
<1>1. Todo(todo) /\ MachineOK /\ visible \subseteq Disks
  BY DEF IInv, Order, Typed
<1>2. todo \in Seq(SeatSet \cup Range(Labels))
  BY <1>1 DEF Todo
<1>3. /\ Len(todo) \in Nat /\ 1 \in 1..Len(todo)
      /\ todo[1] = Head(todo) /\ todo[1] \in SeatSet \cup Range(Labels)
  <2> DEFINE N == SeatSet \cup Range(Labels)
  <2>1. todo \in Seq(N)
    BY <1>2
  <2> HIDE DEF N
  <2>2. /\ Len(todo) \in Nat /\ 1 \in 1..Len(todo)
        /\ todo[1] = Head(todo) /\ todo[1] \in N
    BY <2>1
  <2> QED BY <2>2 DEF N
<1>4. \A s, t \in Led(todo[1]) : s = t
  BY <1>1, <1>3, LedUnique
<1>5. Fitting = {s \in Led(todo[1]) \cap visible : disk[s].format \in MountFormats}
  BY <1>1, <1>3, BehindIsLed DEF Fitting
<1> QED BY <1>1, <1>3, <1>4, <1>5

\* What the first node does not lead to, a later one does.
LEMMA LaterNode ==
    ASSUME IInv, pc \in {"mount", "look", "read"}, todo # <<>>,
           NEW t \in must \ {Net}, t \notin Led(todo[1])
    PROVE  \E j \in 2..Len(todo) : t \in Led(todo[j])
<1>1. PICK j \in 1..Len(todo) : t \in Led(todo[j])
  BY DEF IInv, Order, FromNode
<1>2. j # 1 /\ Len(todo) \in Nat
  BY <1>1, AtMount DEF HasMount
<1> QED BY <1>1, <1>2

LEMMA MountStep ==
    ASSUME IInv, Mount
    PROVE  Typed' /\ Result' /\ Sets' /\ Order' /\ Refines
<1>1. PICK s \in Fitting : mounted' = Append(mounted, s)
  BY DEF Mount
<1>2. /\ pc = "mount" /\ pc' = "look" /\ todo # <<>> /\ todo' = todo
      /\ n' = n /\ found' = found
      /\ UNCHANGED machine /\ UNCHANGED world /\ Called
  BY DEF Mount, Goto, Called
<1>3. ~Over /\ ~override /\ visible \subseteq Disks
  BY <1>2, AtDirect
<1>4. may' = may /\ must' \subseteq must /\ Sets' /\ Refines
  BY <1>2, <1>3, Quiet
<1>5. Typed' /\ Result'
  BY <1>2, TypedKept DEF IInv, Result
<1>6. s \in Led(todo[1]) \cap visible /\ disk[s].format \in MountFormats
  BY <1>2, AtMount
<1>7. Last(mounted') = s
  <2>1. s \in SeatSet /\ mounted \in Seq(SeatSet)
    BY <1>3, <1>6 DEF Disks, IInv, MountInv
  <2> QED BY <1>1, <2>1 DEF Last
<1>8. Todo(todo)' /\ FromNode(1)'
  BY <1>2, <1>4, TodoKept, MachineKept DEF IInv, Order, FromNode
<1>9. \A t \in must' \ {Net} : ~ReadDirectly(t)'
  BY <1>2, <1>4, MachineKept DEF IInv, Order
<1>10. /\ (todo # <<>>)' /\ Last(mounted)' \in (Led(todo[1]) \cap visible)'
       /\ (disk[Last(mounted)].format \in MountFormats)'
  <2>1. Last(mounted)' = s /\ disk' = disk /\ visible' = visible /\ MountFormats' = MountFormats
    BY <1>2, <1>7 DEF machine, world, Last, MountFormats
  <2>2. Led(todo[1])' = Led(todo[1])
    BY <1>2, MachineKept
  <2> QED BY <1>2, <1>6, <2>1, <2>2
<1>11. Order'
  BY <1>2, <1>8, <1>9, <1>10 DEF Order, HasMount
<1> QED BY <1>4, <1>5, <1>11

LEMMA RefusedStep ==
    ASSUME IInv, MountRefused
    PROVE  Typed' /\ Result' /\ Sets' /\ Order' /\ Refines
<1>1. /\ pc = "mount" /\ pc' = "mount" /\ todo # <<>> /\ todo' = Tail(todo)
      /\ n' = n /\ found' = found
      /\ UNCHANGED machine /\ UNCHANGED world /\ Called
      /\ \A t \in must' : t \in must /\ t \notin Fitting
  BY DEF MountRefused, Goto, Called, Works, FailsFor
<1>2. ~Over /\ ~override
  BY <1>1, AtDirect
<1>3. may' = may /\ must' \subseteq must /\ Sets' /\ Refines
  BY <1>1, <1>2, Quiet
<1>4. Typed' /\ Result'
  BY <1>1, TypedKept DEF IInv, Result
<1>5. /\ Todo(todo)' /\ Len(todo') = Len(todo) - 1 /\ Len(todo) \in Nat
      /\ \A i \in 1..Len(todo') : todo'[i] = todo[i + 1] /\ i + 1 \in 1..Len(todo)
  <2>1. Todo(todo)
    BY <1>1, AtMount
  <2> QED BY <1>1, <1>3, <2>1, TodoTail
<1>6. ASSUME NEW t \in must' \ {Net}
      PROVE  /\ ~ReadDirectly(t)'
             /\ \E j \in 1..Len(todo') : t \in Led(todo'[j])
  <2>1. t \in must \ {Net} /\ t \notin Fitting /\ ~ReadDirectly(t)
    BY <1>1, <1>3 DEF IInv, Order
  <2>2. ReadMounted(t) /\ t \in visible
    BY <1>2, <2>1, MustFacts
  <2>3. t \notin Led(todo[1])
    BY <1>1, <2>1, <2>2, AtMount DEF ReadMounted
  <2>4. PICK j \in 2..Len(todo) : t \in Led(todo[j])
    BY <1>1, <2>1, <2>3, LaterNode
  <2>5. j - 1 \in 1..Len(todo') /\ (j - 1) + 1 = j
    BY <1>5, <2>4
  <2>6. t \in Led(todo'[j - 1])
    BY <1>5, <2>4, <2>5
  <2> QED BY <1>1, <2>1, <2>5, <2>6, MachineKept
<1>7. FromNode(1)'
  BY <1>1, <1>6, MachineKept DEF FromNode
<1>8. Order'
  BY <1>1, <1>5, <1>6, <1>7 DEF Order, HasMount
<1> QED BY <1>3, <1>4, <1>8

LEMMA MountDoneStep ==
    ASSUME IInv, MountDone
    PROVE  Typed' /\ Result' /\ Sets' /\ Order' /\ Refines
<1>1. /\ pc = "mount" /\ pc' = "umount" /\ todo = <<>>
      /\ n' = n /\ found' = found
      /\ UNCHANGED machine /\ UNCHANGED world /\ Called
  BY DEF MountDone, Goto, Called
<1>2. ~Over /\ ~override /\ found = Pending
  BY <1>1, AtDirect
<1>3. may' = may /\ must' \subseteq must /\ Sets' /\ Refines
  BY <1>1, <1>2, Quiet
<1>4. Typed' /\ Result'
  BY <1>1, <1>2, TypedKept DEF IInv, Result
<1>5. must \subseteq {Net}
  <2>1. 1..Len(todo) = {}
    BY <1>1
  <2> QED BY <1>1, <2>1 DEF IInv, Order, FromNode
<1>6. Order'
  BY <1>1, <1>3, <1>5 DEF Order, HasMount
<1> QED BY <1>3, <1>4, <1>6

\* Only the BSDs go on if the disk on top has no user-data.
LEMMA LookStep ==
    ASSUME IInv, Look
    PROVE  Typed' /\ Result' /\ Sets' /\ Order' /\ Refines
<1> DEFINE top == Last(mounted)
<1>1. /\ pc = "look" /\ pc' \in {"read", "pop", "umount"}
      /\ n' = n /\ found' = found
      /\ UNCHANGED machine /\ UNCHANGED world /\ UNCHANGED mount /\ Called
      /\ pc' = "pop" => system = "bsd"
      /\ pc' = "umount" => system # "bsd"
      /\ pc' = "read" => HasData(top) /\ must' = must
      /\ pc' # "read" => \A t \in must' : t \in must /\ (t = top => ~HasData(top))
  BY DEF Look, Goto, Called, Works, FailsFor
<1>2. ~Over /\ ~override /\ found = Pending /\ MachineOK
  BY <1>1, AtDirect
<1>3. may' = may /\ must' \subseteq must /\ Sets' /\ Refines
  BY <1>1, <1>2, Quiet
<1>4. Typed' /\ Result'
  BY <1>1, <1>2, TypedKept DEF IInv, Result
<1>5. /\ todo # <<>> /\ top \in Led(todo[1]) \cap visible
      /\ disk[top].format \in MountFormats
  BY <1>1 DEF IInv, Order, HasMount
<1>6. todo' = todo /\ mounted' = mounted /\ disk' = disk /\ visible' = visible
      /\ system' = system
  BY <1>1 DEF mount, machine, world
<1>7. Todo(todo)' /\ (FromNode(1) => FromNode(1)')
  BY <1>1, <1>3, <1>6, TodoKept, MachineKept DEF IInv, Order, FromNode, HasMount
<1>8. \A t \in must' \ {Net} : ~ReadDirectly(t)'
  BY <1>1, <1>3, MachineKept DEF IInv, Order, HasMount
<1>9. pc' # "umount" =>
         /\ (todo # <<>>)' /\ Last(mounted)' \in (Led(todo[1]) \cap visible)'
         /\ (disk[Last(mounted)].format \in MountFormats)'
  <2>1. Led(todo[1])' = Led(todo[1]) /\ Last(mounted)' = top /\ MountFormats' = MountFormats
    BY <1>1, <1>6, MachineKept DEF Last, MountFormats
  <2> QED BY <1>5, <1>6, <2>1
<1>10. CASE pc' = "read"
  <2>1. FromNode(1)'
    BY <1>1, <1>7 DEF IInv, Order
  <2>2. HasData(Last(mounted))'
    BY <1>1, <1>6, <1>10 DEF HasData, Last
  <2>3. Order'
    BY <1>7, <1>8, <1>9, <1>10, <2>1, <2>2 DEF Order, HasMount
  <2> QED BY <1>3, <1>4, <2>3
<1>11. CASE pc' # "read"
  <2>1. ASSUME NEW t \in must' \ {Net}
        PROVE  \E j \in 2..Len(todo) : t \in Led(todo[j])
    <3>1. t \in must \ {Net} /\ HasData(t)
      BY <1>2, <1>3, MustFacts
    <3>2. t # top
      BY <1>1, <1>11, <3>1
    <3>3. t \notin Led(todo[1])
      BY <1>1, <1>5, <3>2, AtMount DEF HasMount
    <3> QED BY <1>1, <1>5, <3>1, <3>3, LaterNode
  <2>2. CASE pc' = "pop"
    <3>1. FromNode(2)'
      BY <1>1, <1>6, <2>1, MachineKept DEF FromNode
    <3>2. Order'
      BY <1>1, <1>6, <1>7, <1>8, <1>9, <2>2, <3>1 DEF Order, HasMount
    <3> QED BY <1>3, <1>4, <3>2
  <2>3. CASE pc' = "umount"
    <3>1. Len(todo) <= 1 /\ Len(todo) \in Nat
      BY <1>1, <1>2, <1>5, <2>3, AtMount DEF MachineOK, Todo, HasMount
    <3>2. must' \subseteq {Net}
      <4>1. 2..Len(todo) = {}
        BY <3>1
      <4> QED BY <2>1, <4>1
    <3>3. Order'
      BY <2>3, <3>2 DEF Order, HasMount
    <3> QED BY <1>3, <1>4, <3>3
  <2> QED BY <1>1, <1>11, <2>2, <2>3
<1> QED BY <1>10, <1>11

LEMMA UnmountWrongStep ==
    ASSUME IInv, UnmountWrong
    PROVE  Typed' /\ Result' /\ Sets' /\ Order' /\ Refines
<1>1. /\ pc = "pop" /\ pc' = "mount" /\ todo' = Tail(todo)
      /\ n' = n /\ found' = found
      /\ UNCHANGED machine /\ UNCHANGED world /\ Called
  BY DEF UnmountWrong, Unmounts, Goto, Called
<1>2. ~Over /\ ~override /\ todo # <<>>
  BY <1>1, AtDirect DEF IInv, Order, HasMount
<1>3. may' = may /\ must' \subseteq must /\ Sets' /\ Refines
  BY <1>1, <1>2, Quiet
<1>4. Typed' /\ Result'
  BY <1>1, TypedKept DEF IInv, Result
<1>5. /\ Todo(todo)' /\ Len(todo') = Len(todo) - 1 /\ Len(todo) \in Nat
      /\ \A i \in 1..Len(todo') : todo'[i] = todo[i + 1] /\ i + 1 \in 1..Len(todo)
  <2>1. Todo(todo)
    BY <1>1, <1>2, AtMount DEF HasMount
  <2> QED BY <1>1, <1>2, <1>3, <2>1, TodoTail
<1>6. ASSUME NEW t \in must' \ {Net}
      PROVE  ~ReadDirectly(t)' /\ \E j \in 1..Len(todo') : t \in Led(todo'[j])
  <2>1. t \in must \ {Net} /\ ~ReadDirectly(t)
    BY <1>1, <1>3 DEF IInv, Order, HasMount
  <2>2. PICK j \in 2..Len(todo) : t \in Led(todo[j])
    BY <1>1, <2>1 DEF IInv, Order, FromNode
  <2>3. j - 1 \in 1..Len(todo') /\ (j - 1) + 1 = j
    BY <1>5, <2>2
  <2>4. t \in Led(todo'[j - 1])
    BY <1>5, <2>2, <2>3
  <2> QED BY <1>1, <2>1, <2>3, <2>4, MachineKept
<1>7. FromNode(1)'
  BY <1>1, <1>6, MachineKept DEF FromNode
<1>8. Order'
  BY <1>1, <1>5, <1>6, <1>7 DEF Order, HasMount
<1> QED BY <1>3, <1>4, <1>8

\* The disk that is mounted may answer, and comes before all that is left.
LEMMA TopIsBest ==
    ASSUME IInv, pc = "read"
    PROVE  LET top == Last(mounted)
           IN  /\ top \in may /\ top \in Disks
               /\ \A t \in must : Rank[top] <= Rank[t]
<1> DEFINE top == Last(mounted)
<1>1. /\ todo # <<>> /\ top \in Led(todo[1]) \cap visible
      /\ disk[top].format \in MountFormats /\ HasData(top)
      /\ FromNode(1) /\ \A t \in must \ {Net} : ~ReadDirectly(t)
  BY DEF IInv, Order, HasMount
<1>2. ~Over /\ Asked = Sources /\ MachineOK /\ visible \subseteq Disks
  BY AtDirect
<1>3. top \in Disks /\ top \in SeatSet /\ ReadMounted(top)
  BY <1>1, <1>2 DEF Disks, ReadMounted
<1>4. /\ Todo(todo) /\ 1 \in 1..Len(todo) /\ Len(todo) \in Nat
  BY <1>1, AtMount DEF HasMount
<1>5. top \in may
  <2>1. CASE system = "linux"
    BY <1>1, <1>3, <1>4, <2>1 DEF Todo
  <2>2. CASE system = "bsd"
    <3>1. MountNodes = Seats /\ todo[1] \in SeatSet
      BY <1>2, <1>4, <2>2, MountNodesFacts DEF Todo
    <3>2. todo[1] \in Range(MountNodes)
      BY <3>1 DEF SeatSet
    <3>3. top \in Ready
      BY <1>1, <1>2, <1>3, <3>2, ReadyFacts
    <3> QED BY <1>2, <3>3, ReadyFacts DEF IInv, Sets
  <2> QED BY <1>2, <2>1, <2>2 DEF MachineOK
<1>6. ASSUME NEW t \in must PROVE Rank[top] <= Rank[t]
  <2>1. /\ Len(Nodes) \in Nat /\ Position(top) \in 1..Len(Nodes)
        /\ Rank[top] = Position(top) + IF ReadDirectly(top) THEN 0 ELSE Len(Nodes)
    BY <1>2, <1>3, RankFacts, PositionIsFirst, NodeFacts
  <2>2. Rank[top] <= Position(top) + Len(Nodes)
    BY <2>1
  <2>3. CASE t = Net
    <3>1. Rank[t] = 2 * Len(Nodes) + 1
      BY <1>2, <2>3, MustFacts
    <3> QED BY <2>1, <3>1
  <2>4. CASE t # Net
    <3>1. Rank[t] = Position(t) + Len(Nodes) /\ Position(t) \in 1..Len(Nodes)
      BY <1>1, <1>2, <2>4, MustFacts
    <3>2. PICK j \in 1..Len(todo) : t \in Led(todo[j])
      BY <1>1, <2>4 DEF FromNode
    <3>3. 1 <= j
      BY <1>4, <3>2
    <3>4. Position(top) <= Position(t)
      BY <1>1, <1>4, <3>2, <3>3 DEF Todo
    <3> QED BY <2>1, <3>1, <3>4
  <2> QED BY <2>3, <2>4
<1> HIDE DEF top
<1>7. /\ top \in may /\ top \in Disks
      /\ \A t \in must : Rank[top] <= Rank[t]
  BY <1>3, <1>5, <1>6
<1> QED BY <1>7 DEF top

LEMMA ReadFileStep ==
    ASSUME IInv, ReadFile
    PROVE  Typed' /\ Result' /\ Sets' /\ Order' /\ Refines
<1> DEFINE top == Last(mounted)
<1>1. /\ pc = "read" /\ pc' = "umount" /\ n' = n
      /\ UNCHANGED machine /\ UNCHANGED world /\ Called
      /\ \/ Parsed(top)
         \/ found' = found /\ \A t \in must' : t \in must /\ t \notin SeatSet
  BY DEF ReadFile, Called, FailsFor
<1>2. ~Over /\ ~override /\ found = Pending /\ MachineOK
  BY <1>1, AtDirect
<1>3. may' = may /\ must' \subseteq must /\ Sets' /\ Refines
  BY <1>1, <1>2, Quiet
<1>4. Typed'
  BY <1>1, TypedKept
<1>5. CASE Parsed(top)
  <2>1. /\ top \in may /\ top \in Disks
        /\ \A t \in must : Rank[top] <= Rank[t]
    BY <1>1, TopIsBest
  <2> DEFINE c == disk[top].data = "config"
  <2>2. /\ found' = [from |-> top, config |-> c] /\ c \in BOOLEAN
        /\ c <=> top \in Sound
    BY <1>2, <1>5, <2>1, SoundFacts DEF Parsed, Answer
  <2> HIDE DEF top, c
  <2>3. top \in Sources
    BY <1>2, <2>1 DEF IInv, Sets, Asked, Sources
  <2>4. found' # Pending /\ found' \in [from : Sources, config : BOOLEAN]
    BY <2>2, <2>3, AnswersAssumption
  <2>5. Rank' = Rank /\ Sound' = Sound
    BY <1>1, MachineKept
  <2>6. Best(found)'
    BY <1>3, <2>1, <2>2, <2>5 DEF Best
  <2>7. Result' /\ Order'
    BY <1>1, <2>4, <2>6 DEF Result, Order, HasMount
  <2> QED BY <1>3, <1>4, <2>7
<1>6. CASE found' = found /\ \A t \in must' : t \in must /\ t \notin SeatSet
  <2>1. must' \subseteq {Net}
    BY <1>2, <1>3, <1>6, NothingButNet
  <2>2. Result' /\ Order'
    BY <1>1, <1>2, <1>6, <2>1 DEF Result, Order, HasMount
  <2> QED BY <1>3, <1>4, <2>2
<1> QED BY <1>1, <1>5, <1>6

LEMMA CleanupUnmountsStep ==
    ASSUME IInv, CleanupUnmounts
    PROVE  Typed' /\ Result' /\ Sets' /\ Order' /\ Refines
<1>1. /\ pc = "umount" /\ pc' = "rmdir" /\ n' = n /\ found' = found
      /\ UNCHANGED machine /\ UNCHANGED world /\ Called
  BY DEF CleanupUnmounts, Unmounts, Goto, Called
<1>2. ~Over /\ ~override
  BY <1>1 DEF Over, IInv, Sets
<1>3. may' = may /\ must' \subseteq must /\ Sets' /\ Refines
  BY <1>1, <1>2, Quiet
<1>4. Typed' /\ Rank' = Rank /\ Sound' = Sound
  BY <1>1, TypedKept, MachineKept
<1>5. Best(found) => Best(found)'
  BY <1>1, <1>3, <1>4 DEF Best
<1>6. Result' /\ Order'
  BY <1>1, <1>3, <1>5 DEF IInv, Result, Order, HasMount
<1> QED BY <1>3, <1>4, <1>6

LEMMA CleanupRemovesStep ==
    ASSUME IInv, CleanupRemoves
    PROVE  Typed' /\ Result' /\ Sets' /\ Order' /\ Refines
<1>1. /\ pc = "rmdir" /\ pc' = (IF found = Pending THEN "route" ELSE "done")
      /\ n' = n /\ found' = found
      /\ UNCHANGED machine /\ UNCHANGED world /\ Called
  BY DEF CleanupRemoves, Goto, Called
<1>2. ~Over /\ ~override
  BY <1>1 DEF Over, IInv, Sets
<1>3. CASE found = Pending
  <2>1. may' = may /\ must' \subseteq must /\ Sets' /\ Refines
    BY <1>1, <1>2, <1>3, Quiet
  <2>2. Typed' /\ Result' /\ Order'
    BY <1>1, <1>3, <2>1, TypedKept DEF IInv, Result, Order, HasMount
  <2> QED BY <2>1, <2>2
<1>4. CASE found # Pending
  <2>1. Best(found)
    BY <1>1, <1>4 DEF IInv, Result
  <2> DEFINE s == found.from
             c == found.config
  <2>2. /\ s \in may /\ c \in BOOLEAN /\ found = [from |-> s, config |-> c]
        /\ c <=> s \in Sound
        /\ \A t \in must : Rank[s] <= Rank[t]
    BY <2>1 DEF Best
  <2> HIDE DEF s, c
  <2> QED BY <1>1, <1>2, <1>4, <2>2, EndsWith
<1> QED BY <1>3, <1>4

-----------------------------------------------------------------------------
(* The network, when nothing else is left.                                 *)

LEMMA RouteStep ==
    ASSUME IInv, DefaultGateway \/ GetAnswers
    PROVE  Typed' /\ Result' /\ Sets' /\ Order' /\ Refines
<1>1. /\ pc \in {"route", "get"} /\ pc' \in {"get", "body"}
      /\ n' = n /\ found' = found
      /\ UNCHANGED machine /\ UNCHANGED world /\ Called
      /\ pc' = "body" => up /\ reply \in {"cut", "broken", "config"}
  BY DEF DefaultGateway, GetAnswers, Goto, Called
<1>2. ~Over
  BY <1>1 DEF Over
<1>3. may' = may /\ must' \subseteq must /\ Sets' /\ Refines
  BY <1>1, <1>2, Quiet
<1>4. Typed' /\ Result' /\ Order'
  BY <1>1, <1>3, TypedKept DEF IInv, Result, Order, HasMount
<1> QED BY <1>3, <1>4

\* Nothing must be passed over if the server has no user-data.
LEMMA NoServerStep ==
    ASSUME IInv, NoGateway \/ GetFails
    PROVE  Typed' /\ Result' /\ Sets' /\ Order' /\ Refines
<1>1. /\ pc \in {"route", "get"} /\ pc' = "done" /\ n' = n /\ found' = NotFound
      /\ UNCHANGED machine /\ UNCHANGED world /\ Called
      /\ NetSpeaks => faults' = faults + 1
  BY DEF NoGateway, GetFails, Returns, Called, FailsFor, Fails, NetSpeaks, IInv,
     Typed, MachineOK, Sets
<1>2. ~Over /\ must \subseteq {Net}
  BY <1>1 DEF Over, IInv, Order
<1>3. faults \in Nat
  BY <1>1, CalledFacts
<1>4. must = {} \/ faults' # faults
  <2>1. CASE NetSpeaks
    BY <1>1, <1>3, <2>1
  <2>2. CASE ~NetSpeaks
    <3>1. Net \notin must
      BY <1>2, <2>2, ReadyFacts DEF IInv, Sets, Typed
    <3> QED BY <1>2, <3>1
  <2> QED BY <2>1, <2>2
<1> QED BY <1>1, <1>2, <1>4, EndsWithout

LEMMA ServerStep ==
    ASSUME IInv, GetRefused \/ ReadBody
    PROVE  Typed' /\ Result' /\ Sets' /\ Order' /\ Refines
<1>1. PICK c \in BOOLEAN :
         /\ found' = [from |-> Net, config |-> c]
         /\ c => reply = "config"
         /\ ~c => reply # "config" \/ faults' = faults + 1
  BY DEF GetRefused, ReadBody, Returns, FailsFor, Fails
<1>2. /\ pc \in {"get", "body"} /\ pc' = "done" /\ n' = n
      /\ UNCHANGED machine /\ UNCHANGED world /\ Called
      /\ NetSpeaks
  BY DEF GetRefused, ReadBody, Returns, Called, IInv, Sets, NetSpeaks
<1>3. ~Over /\ must \subseteq {Net} /\ MachineOK /\ visible \subseteq Disks
      /\ Net \in Asked
  BY <1>2 DEF Over, IInv, Order, Typed, Asked, Sources
<1>4. Net \in may
  BY <1>2, <1>3, ReadyFacts DEF IInv, Sets
<1>5. faults \in Nat /\ Rank[Net] \in Nat
  BY <1>2, <1>3, CalledFacts, RankFacts DEF Sources
<1>6. Net \in Sound <=> reply = "config"
  BY <1>3, SoundFacts
<1>7. PICK left \in SUBSET must :
         /\ faults' = faults => left = must
         /\ IF c THEN Net \in Sound ELSE Net \notin Sound \cap left
  <2>1. CASE faults' = faults + 1 /\ ~c
    <3>1. {} \in SUBSET must /\ Net \notin Sound \cap {} /\ faults' # faults
      BY <1>5, <2>1
    <3> QED BY <2>1, <3>1
  <2>2. CASE c \/ reply # "config"
    BY <1>1, <1>6, <2>2
  <2> QED BY <1>1, <2>1, <2>2
<1>8. \A t \in left : Rank[Net] <= Rank[t]
  BY <1>3, <1>5, <1>7
<1> QED BY <1>1, <1>2, <1>3, <1>4, <1>7, <1>8, EndsWith

-----------------------------------------------------------------------------
(* The theorems.                                                           *)

LEMMA InitInvariant == Init => IInv /\ Choice!Init
<1> SUFFICES ASSUME Init PROVE IInv /\ Choice!Init
  OBVIOUS
<1>1. /\ MachineOK /\ visible \subseteq Disks
  BY SeatsAssumption DEF Init, MachineOK, Disks
<1>2. /\ pc = "idle" /\ Over /\ found = NotFound /\ may = {} /\ must = {}
      /\ n = 1 /\ faults = 0 /\ mounted = <<>>
  BY DEF Init, Over
<1>3. Typed
  BY <1>1, <1>2, NodeFacts, SeatsAssumption DEF Typed
<1>4. MountInv
  BY <1>1, <1>2 DEF MountInv, Steps, HasMount, HasDir, Disks
<1>5. Result /\ Sets /\ Order
  BY <1>2, AnswersAssumption DEF Result, Sets, Order, Over, HasMount
<1>6. Ready \subseteq Sources /\ Sound \subseteq Sources /\ Rank \in [Sources -> Nat]
  BY <1>1, ReadyFacts, RankFacts DEF Sound, Sources
<1>7. Choice!Init
  BY <1>2, <1>6 DEF Choice!Init
<1> QED BY <1>2, <1>3, <1>4, <1>5, <1>7 DEF IInv

LEMMA StutterStep ==
    ASSUME IInv, UNCHANGED vars
    PROVE  Typed' /\ Result' /\ Sets' /\ Order' /\ Refines
<1>1. /\ UNCHANGED machine /\ UNCHANGED world
      /\ UNCHANGED <<pc, n, todo, mounted, found, may, must, faults>>
  BY DEF vars, mount
<1>2. /\ Ready' = Ready /\ Asked' = Asked /\ Rank' = Rank /\ Sound' = Sound
      /\ UNCHANGED <<up, reply, override, visible, system, disk>>
  BY <1>1, MachineKept, ReadyKept DEF machine, world
<1>3. Typed'
  BY <1>1, <1>2, MachineKept DEF IInv, Typed
<1>4. Result' /\ Sets'
  BY <1>1, <1>2 DEF IInv, Result, Best, Sets, Over
<1>5. Order'
  <2>1. Todo(todo) => Todo(todo)'
    BY <1>1, TodoKept
  <2>2. \A k : FromNode(k) => FromNode(k)'
    BY <1>1, MachineKept DEF FromNode
  <2>3. \A s : ReadDirectly(s)' <=> ReadDirectly(s)
    BY <1>1, MachineKept
  <2>4. HasData(Last(mounted))' <=> HasData(Last(mounted))
    BY <1>1, <1>2 DEF HasData, Last
  <2>5. Led(todo[1])' = Led(todo[1]) /\ Last(mounted)' = Last(mounted)
        /\ MountFormats' = MountFormats
    BY <1>1, MachineKept DEF Last, MountFormats
  <2> QED BY <1>1, <1>2, <2>1, <2>2, <2>3, <2>4, <2>5 DEF IInv, Order
<1>6. UNCHANGED Choice!svars
  BY <1>1, <1>2 DEF Choice!svars, Over
<1> QED BY <1>3, <1>4, <1>5, <1>6 DEF Refines

LEMMA StepInvariant ==
    ASSUME IInv, [Next]_vars
    PROVE  IInv' /\ Refines
<1>1. Typed' /\ Result' /\ Sets' /\ Order' /\ Refines
  <2>1. CASE Discover \/ DiskAppears \/ NetworkAppears \/ Kill
    BY <2>1, DiscoverStep, WorldStep, KillStep
  <2>2. CASE DirectSkips \/ DirectFails \/ DirectReads \/ DirectDone
    BY <2>2, DirectMisses, DirectReadsStep, DirectDoneStep
  <2>3. CASE Locate \/ MkdirTemp \/ Mount \/ MountRefused \/ MountDone
    BY <2>3, LocateStep, MkdirStep, MountStep, RefusedStep, MountDoneStep
  <2>4. CASE Look \/ UnmountWrong \/ ReadFile \/ CleanupUnmounts \/ CleanupRemoves
    BY <2>4, LookStep, UnmountWrongStep, ReadFileStep, CleanupUnmountsStep,
       CleanupRemovesStep
  <2>5. CASE DefaultGateway \/ NoGateway \/ GetFails \/ GetRefused \/ GetAnswers
             \/ ReadBody
    BY <2>5, RouteStep, NoServerStep, ServerStep
  <2>6. CASE UNCHANGED vars
    BY <2>6, StutterStep
  <2> QED BY <2>1, <2>2, <2>3, <2>4, <2>5, <2>6 DEF Next, Probe
<1>2. MountInv'
  BY MountInvStep DEF IInv
<1> QED BY <1>1, <1>2 DEF IInv

LEMMA Invariance == Spec => []IInv
<1>1. IInv /\ [Next]_vars => IInv'
  BY StepInvariant
<1> QED BY InitInvariant, <1>1, PTL DEF Spec

\* Every variable keeps its type.
THEOREM TypeCorrect == Spec => []TypeOK
<1>1. IInv => TypeOK
  BY DEF IInv, MountInv, Typed, Result, Sets, TypeOK, Steps, HasMount, HasDir, Disks
<1> QED BY <1>1, Invariance, PTL

\* A discovery that ended left neither mount nor directory, unless an unmount
\* failed (disk.go:84, disk_linux.go:69, disk_bsd.go:33).
THEOREM MountsUndone == Spec => []NothingStaysMounted
<1>1. IInv => NothingStaysMounted
  BY DEF IInv, MountInv, Tidy, HasMount, HasDir, NothingStaysMounted
<1> QED BY <1>1, Invariance, PTL

\* RemoveAll of the mount point comes to a mounted disk only if an unmount
\* failed (disk_linux.go:69-72, disk_bsd.go:33-36).
THEOREM UnmountedFirst == Spec => []RemovesNoMountedDisk
<1>1. IInv => RemovesNoMountedDisk
  BY DEF IInv, MountInv, Tidy, HasMount, HasDir, RemovesNoMountedDisk
<1> QED BY <1>1, Invariance, PTL

\* Discover keeps the promise of SourceChoice: the first source, in the
\* documented order, that had user-data all along is never passed over, and
\* user-data that does not parse is an error, whatever appears meanwhile and
\* whichever calls fail or kill it.
THEOREM Promise == Spec => ImplementsChoice
<1>1. IInv /\ [Next]_vars => [Choice!Next]_(Choice!svars)
  BY StepInvariant DEF Refines
<1> QED BY InitInvariant, Invariance, <1>1, PTL DEF Spec, ImplementsChoice, Choice!Spec
==============================================================================
