------------------------------ MODULE Discovery ------------------------------
(***************************************************************************)
(* datasource.Discover on one machine, again and again: the override URL,  *)
(* or the seed disk, read directly (fromDiskDirect) and then by mounting   *)
(* it (fromDiskMount, linuxMountCidata, bsdMountCidata), and then the      *)
(* default gateway's HTTP server (fromDefaultGatewayHTTP, fromHTTP).       *)
(*                                                                         *)
(* The probes run one after the other while the machine is still coming    *)
(* up: disks and the network appear meanwhile.  A disk stays where it is   *)
(* once it has appeared, and so does the network.  What the code only      *)
(* opens, decodes or parses is a matter of the disk's format and of        *)
(* whether its user-data is a config.                                      *)
(***************************************************************************)
EXTENDS Naturals, Sequences, SequencesExt

CONSTANTS
    Systems,     \* subset of {"linux", "bsd"}
    Seats,       \* the bare device nodes candidateDevices lists, in order
    DiskKinds,   \* the disks a seat may hold: [format, label, data]
    NoDisk,
    Replies,     \* what the HTTP server answers
    Net,         \* the HTTP server as a source, whatever URL names it
    Pending, NotFound, NoAnswer,  \* as in SourceChoice
    MaxFaults    \* bound: calls that fail, and kills

Labels == <<"cidata", "CIDATA">>
Formats == {"iso9660", "fat32", "fat16", "ext4"}
UserData == {"none", "broken", "config"}
SeatSet == Range(Seats)
Sources == SeatSet \cup {Net}

ASSUME SeatsAssumption ==
    /\ Systems \subseteq {"linux", "bsd"}
    /\ Seats \in Seq(SeatSet) /\ IsInjective(Seats) /\ Net \notin SeatSet
    /\ SeatSet \cap (Range(Labels) \cup {"other"}) = {}
    /\ MaxFaults \in Nat

ASSUME AnswersAssumption ==
    /\ Pending # NotFound /\ Pending # NoAnswer /\ NotFound # NoAnswer
    /\ {Pending, NotFound, NoAnswer} \cap [from : Sources, config : BOOLEAN] = {}

ASSUME DisksAssumption ==
    /\ DiskKinds \subseteq [format : Formats, data : UserData,
                            label : Range(Labels) \cup {"other"}]
    /\ NoDisk \notin DiskKinds
    /\ Replies \subseteq {"404", "error", "cut", "broken", "config", "badurl"}

VARIABLES
    system, disk, reply,  \* this machine: disk by seat, answer of the server
    override,             \* --datasource names a URL
    visible,              \* seats whose disk the kernel has found
    up,                   \* the network is there
    pc, n, todo,          \* the probe, its next candidate, nodes to mount
    mounted,              \* mounts stacked on the mount point, seats
    dir,                  \* the temporary mount point exists
    jammed,               \* an unmount failed
    littered,             \* the removal of the mount point failed
    found,                \* what the probes came to, given back when pc is "done"
    may, must,            \* as in SourceChoice
    faults

machine == <<system, disk, reply, override>>
world == <<visible, up>>
mount == <<todo, mounted, dir, jammed, littered>>
vars == <<machine, world, pc, n, mount, found, may, must, faults>>

-----------------------------------------------------------------------------
(* What the machine offers.                                                 *)

Nodes == IF system = "linux" THEN Labels \o Seats ELSE Seats

\* The disk a device node leads to: udev's links name it by its label.
Behind(node) == {s \in visible : s = node \/ disk[s].label = node}

DirectFormats == {"iso9660", "fat32"}          \* read without mounting
MountFormats == {"iso9660", "fat32", "fat16"}  \* mount as iso9660 or vfat

\* Linux mounts the first of the two labels that exists, and no other node.
MountNodes ==
    IF system = "bsd" THEN Seats
    ELSE LET first == SelectInSeq(Labels, LAMBDA l : Behind(l) # {})
         IN IF first = 0 THEN <<>> ELSE <<Labels[first]>>

HasData(s) == disk[s].data # "none"
ReadDirectly(s) == disk[s].format \in DirectFormats /\ HasData(s)
ReadMounted(s) == disk[s].format \in MountFormats /\ HasData(s)

\* "badurl": the override is no URL, which is an error without any network.
NetSpeaks == (up /\ reply # "404") \/ reply = "badurl"

Ready ==
    {s \in visible : \/ ReadDirectly(s)
                     \/ ReadMounted(s) /\ \E m \in Range(MountNodes) : s \in Behind(m)}
    \cup {s \in {Net} : NetSpeaks}

Asked == IF override THEN {Net} ELSE Sources

Sound == {s \in SeatSet : disk[s] # NoDisk /\ disk[s].data = "config"}
         \cup {s \in {Net} : reply = "config"}

\* Direct reads come first, each at the first node that leads to the disk;
\* then what has to be mounted; the network comes last.
Position(s) ==
    CHOOSE j \in 1..Len(Nodes) :
        /\ Nodes[j] = s \/ disk[s].label = Nodes[j]
        /\ \A m \in 1..(j - 1) : Nodes[m] # s /\ disk[s].label # Nodes[m]

Rank ==
    [s \in Sources |->
        IF s = Net THEN 2 * Len(Nodes) + 1
        ELSE IF disk[s] = NoDisk THEN 0
        ELSE Position(s) + IF ReadDirectly(s) THEN 0 ELSE Len(Nodes)]

TypeOK ==
    /\ pc \in {"idle", "direct", "locate", "mkdir", "mount", "look", "pop",
               "read", "umount", "rmdir", "route", "get", "body", "done"}
    /\ visible \subseteq {s \in SeatSet : disk[s] # NoDisk}
    /\ n \in 1..(Len(Nodes) + 1)
    /\ found \in {Pending, NotFound} \cup [from : Sources, config : BOOLEAN]
    /\ must \subseteq may /\ may \subseteq Asked
    /\ pc \in {"look", "pop", "read"} => mounted # <<>> /\ dir
    /\ pc = "done" => found # Pending
    /\ pc \notin {"idle", "umount", "rmdir", "done"} => found = Pending
    /\ faults \in 0..MaxFaults

Init ==
    /\ system \in Systems /\ reply \in Replies /\ override \in BOOLEAN
    /\ reply = "badurl" => override
    /\ disk \in [SeatSet -> DiskKinds \cup {NoDisk}]
    \* one disk per label: which of two udev's link names is not up to the code
    /\ \A s, t \in SeatSet :
          /\ NoDisk \notin {disk[s], disk[t]} /\ disk[s].label = disk[t].label
          => s = t \/ disk[s].label = "other"
    /\ visible \in SUBSET {s \in SeatSet : disk[s] # NoDisk}
    /\ up \in BOOLEAN
    /\ pc = "idle" /\ n = 1
    /\ todo = <<>> /\ mounted = <<>> /\ dir = FALSE
    /\ jammed = FALSE /\ littered = FALSE
    /\ found = NotFound /\ may = {} /\ must = {} /\ faults = 0

-----------------------------------------------------------------------------
(* The world, and failures.  A source whose read failed once in a discovery *)
(* is no longer one that must not be passed over.                           *)

See == /\ may' = may \cup (Ready' \cap Asked)
       /\ must' = must \cap Ready'

DiskAppears ==
    /\ \E s \in SeatSet \ visible : disk[s] # NoDisk /\ visible' = visible \cup {s}
    /\ UNCHANGED <<machine, up, pc, n, mount, found, faults>>
    /\ See

NetworkAppears ==
    /\ ~up /\ up' = TRUE
    /\ UNCHANGED <<machine, visible, pc, n, mount, found, faults>>
    /\ See

Fails == faults < MaxFaults /\ faults' = faults + 1
FailsFor(s) == Fails /\ must' = must \ s /\ UNCHANGED may
Works == UNCHANGED <<may, must, faults>>

Answer(s, config) == found' = [from |-> s, config |-> config]
Parsed(s) == Answer(s, disk[s].data = "config")

-----------------------------------------------------------------------------
(* Discover; then the direct read, one candidate per step.                  *)

Discover ==
    /\ pc \in {"idle", "done"}
    /\ pc' = IF override THEN "get" ELSE "direct"
    /\ n' = 1 /\ found' = Pending
    /\ todo' = <<>> /\ mounted' = <<>> /\ dir' = FALSE
    /\ jammed' = FALSE /\ littered' = FALSE
    /\ may' = Ready \cap Asked /\ must' = Ready \cap Asked
    /\ UNCHANGED <<machine, world, faults>>

AtCandidate == pc = "direct" /\ n <= Len(Nodes)
Readable == {s \in Behind(Nodes[n]) : ReadDirectly(s)}
NextCandidate == n' = n + 1 /\ UNCHANGED <<machine, world, pc, mount, found>>

\* Absent, of no format we decode, or without user-data: the next candidate.
DirectSkips == AtCandidate /\ Readable = {} /\ NextCandidate /\ Works

\* So is a disk that cannot be read, whatever is on it.
DirectFails ==
    AtCandidate /\ Readable # {} /\ NextCandidate /\ FailsFor(Readable)

\* (mistake: user-data that does not parse is no user-data)
DirectReadsConfigsOnly ==
    /\ AtCandidate
    /\ \E s \in Readable :
         IF disk[s].data = "config" THEN Parsed(s) /\ pc' = "done" /\ n' = n
         ELSE n' = n + 1 /\ UNCHANGED <<pc, found>>
    /\ Works /\ UNCHANGED <<machine, world, mount>>

\* User-data was read, so this is the seed disk: whether it parses or not,
\* nothing else is looked at.
DirectReads ==
    /\ AtCandidate
    /\ \E s \in Readable : Parsed(s)
    /\ pc' = "done"
    /\ Works /\ UNCHANGED <<machine, world, n, mount>>

DirectDone ==
    /\ pc = "direct" /\ n > Len(Nodes)
    /\ pc' = "locate"
    /\ Works /\ UNCHANGED <<machine, world, n, mount, found>>

-----------------------------------------------------------------------------
(* The mount fallback.  Mounting as iso9660 and then as vfat is one step.   *)

Goto(line) == pc' = line /\ UNCHANGED <<machine, world, n, found>>

Locate ==
    /\ pc = "locate"
    /\ todo' = MountNodes
    /\ Goto(IF todo' = <<>> THEN "route" ELSE "mkdir")
    /\ Works /\ UNCHANGED <<mounted, dir, jammed, littered>>

MkdirTemp ==
    /\ pc = "mkdir"
    /\ \/ dir' = TRUE /\ Goto("mount") /\ Works
       \/ dir' = dir /\ Goto("route") /\ FailsFor(SeatSet)
    /\ UNCHANGED <<todo, mounted, jammed, littered>>

\* Always read-only (-o ro, MS_RDONLY): files of the seed are only read.
Fitting == {s \in Behind(Head(todo)) : disk[s].format \in MountFormats}

Mount ==
    /\ pc = "mount" /\ todo # <<>>
    /\ \E s \in Fitting : mounted' = Append(mounted, s)
    /\ Goto("look")
    /\ Works /\ UNCHANGED <<todo, dir, jammed, littered>>

\* No such device, a format that does not fit, or no privilege.
MountRefused ==
    /\ pc = "mount" /\ todo # <<>>
    /\ IF Fitting = {} THEN Works ELSE FailsFor(Fitting)
    /\ todo' = Tail(todo) /\ Goto("mount")
    /\ UNCHANGED <<mounted, dir, jammed, littered>>

\* (mistake: no cleanup when no disk was the seed)
MountDoneNoCleanup ==
    /\ pc = "mount" /\ todo = <<>>
    /\ Goto("route")
    /\ Works /\ UNCHANGED mount

MountDone ==
    /\ pc = "mount" /\ todo = <<>>
    /\ Goto("umount")
    /\ Works /\ UNCHANGED mount

\* Readers of a stack of mounts see the one on top.  The BSDs look whether
\* user-data is there and go on if it seems not to be; Linux gives up.
Look ==
    /\ pc = "look"
    /\ \/ HasData(Last(mounted)) /\ Goto("read") /\ Works
       \/ /\ Goto(IF system = "bsd" THEN "pop" ELSE "umount")
          /\ IF HasData(Last(mounted)) THEN FailsFor({Last(mounted)}) ELSE Works
    /\ UNCHANGED mount

\* An unmount that fails is ignored: the next mount comes on top.
Unmounts ==
    /\ \/ /\ mounted' = IF mounted = <<>> THEN <<>> ELSE Front(mounted)
          /\ Works /\ UNCHANGED jammed
       \/ /\ mounted # <<>> /\ Fails
          /\ jammed' = TRUE /\ UNCHANGED <<mounted, may, must>>
    /\ UNCHANGED <<dir, littered>>

UnmountWrong ==
    /\ pc = "pop"
    /\ Unmounts
    /\ todo' = Tail(todo) /\ Goto("mount")

\* (mistake: the mount point is removed while the disk is mounted)
ReadFileRemoves ==
    /\ pc = "read"
    /\ \/ Parsed(Last(mounted)) /\ Works
       \/ UNCHANGED found /\ FailsFor(SeatSet)
    /\ pc' = "rmdir"
    /\ UNCHANGED <<machine, world, n, mount>>

\* If the read fails after all, no other disk is tried.
ReadFile ==
    /\ pc = "read"
    /\ \/ Parsed(Last(mounted)) /\ Works
       \/ UNCHANGED found /\ FailsFor(SeatSet)
    /\ pc' = "umount"
    /\ UNCHANGED <<machine, world, n, mount>>

CleanupUnmounts ==
    /\ pc = "umount"
    /\ Unmounts
    /\ Goto("rmdir") /\ UNCHANGED todo

\* RemoveAll of the mount point; it stays if something is mounted there, and
\* if RemoveAll fails, which is ignored.
CleanupRemoves ==
    /\ pc = "rmdir"
    /\ \/ dir' = (dir /\ mounted # <<>>) /\ Works /\ UNCHANGED littered
       \/ /\ mounted = <<>> /\ Fails
          /\ littered' = TRUE /\ UNCHANGED <<dir, may, must>>
    /\ Goto(IF found = Pending THEN "route" ELSE "done")
    /\ UNCHANGED <<todo, mounted, jammed>>

-----------------------------------------------------------------------------
(* The network.                                                             *)

Returns(answer) ==
    /\ found' = answer /\ pc' = "done"
    /\ UNCHANGED <<machine, world, n, mount>>

\* Without a network there may be a default route already, which leads nowhere.
DefaultGateway ==
    /\ pc = "route"
    /\ Goto("get")
    /\ Works /\ UNCHANGED mount

NoGateway ==
    /\ pc = "route"
    /\ IF up THEN FailsFor({Net}) ELSE Works
    /\ Returns(NotFound)

\* No answer within ten seconds, and 404, count as "not found".
GetFails ==
    /\ pc = "get" /\ reply # "badurl"
    /\ IF up /\ reply # "404" THEN FailsFor({Net}) ELSE Works
    /\ Returns(NotFound)

\* A status other than these, and an override that is no URL, are errors.
GetRefused ==
    /\ pc = "get" /\ (reply = "badurl" \/ (up /\ reply = "error"))
    /\ Returns([from |-> Net, config |-> FALSE]) /\ Works

GetAnswers ==
    /\ pc = "get" /\ up /\ reply \in {"cut", "broken", "config"}
    /\ Goto("body")
    /\ Works /\ UNCHANGED mount

\* A body that is cut short or longer than 1 MiB is an error.
ReadBody ==
    /\ pc = "body"
    /\ \/ Returns([from |-> Net, config |-> reply = "config"]) /\ Works
       \/ Returns([from |-> Net, config |-> FALSE]) /\ FailsFor({Net})

-----------------------------------------------------------------------------
(* The process may be killed anywhere; a later boot starts over.            *)

Kill ==
    /\ pc \notin {"idle", "done"} /\ Fails
    /\ pc' = "idle"
    /\ UNCHANGED <<machine, world, n, mount, found, may, must>>

Probe ==
    \/ DirectSkips \/ DirectFails \/ DirectReads \/ DirectDone
    \/ Locate \/ MkdirTemp \/ Mount \/ MountRefused \/ MountDone \/ Look
    \/ UnmountWrong \/ ReadFile \/ CleanupUnmounts \/ CleanupRemoves
    \/ DefaultGateway \/ NoGateway \/ GetFails \/ GetRefused \/ GetAnswers
    \/ ReadBody

Next == Discover \/ Probe \/ DiskAppears \/ NetworkAppears \/ Kill

Spec == Init /\ [][Next]_vars

-----------------------------------------------------------------------------
(* Properties.                                                              *)

\* A discovery that ended, with whatever result, left no mount behind unless
\* an unmount failed, and no directory unless that or its removal failed
\* (disk.go:84, disk_linux.go:69, disk_bsd.go:33).
NothingStaysMounted ==
    pc = "done" => jammed \/ (mounted = <<>> /\ (littered \/ ~dir))

\* RemoveAll goes into whatever is mounted on the mount point: on every way out
\* it comes after the unmount, and meets a disk only if an unmount failed
\* (disk_linux.go:69-72, disk_bsd.go:33-36).
RemovesNoMountedDisk == pc = "rmdir" => jammed \/ mounted = <<>>

\* Discover answers as SourceChoice promises: no source that had user-data all
\* along is passed over for a later one or for "not found", and user-data that
\* does not parse is an error, never a reason to look further
\* (datasource.go:73-82, disk.go:42-47 and 61-68, http.go:36-57).
Over == pc \in {"idle", "done"}
Choice == INSTANCE SourceChoice WITH
    ready <- Ready, sound <- Sound, rank <- Rank,
    may <- IF Over THEN {} ELSE may, must <- IF Over THEN {} ELSE must,
    failed <- faults,
    answer <- IF pc = "idle" THEN NoAnswer
              ELSE IF pc = "done" THEN found ELSE Pending

ImplementsChoice == Choice!Spec
=============================================================================
