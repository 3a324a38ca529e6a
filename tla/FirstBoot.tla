------------------------------ MODULE FirstBoot ------------------------------
(***************************************************************************)
(* One virtual machine and the program weft-firstboot on it, from the      *)
(* image's first boot on: runApply (cmd/weft-firstboot/main.go) and the    *)
(* walk of apply.Apply over the user-data, above the System interface      *)
(* (apply/apply.go).                                                       *)
(*                                                                         *)
(* A call of the System interface is one step here, with the effect the    *)
(* interface promises.  A call that fails, and a call in which the process *)
(* dies, both end the attempt and leave any part of that effect behind     *)
(* (Interrupt); the modules WriteFile, Hostname, UserAccount and           *)
(* AuthorizedKeys look inside the calls, one operating system at a time.   *)
(* An attempt starts at the next boot, or when an operator runs the        *)
(* program by hand; nothing but the host itself survives from one attempt  *)
(* to the next.                                                            *)
(***************************************************************************)
EXTENDS Integers, Sequences, FiniteSets

CONSTANTS
    Configs,         \* the parsed user-data a machine may be given
    Names,           \* host names
    NoName,          \* no host name: empty in a config, unset or torn on disk
    TransientNames,  \* names the network may give the kernel at boot
    Paths, Bodies,   \* files and what they hold: content, mode and ownership
    NoFile,          \* the file does not exist
    HalfFile,        \* new content is there, its mode or ownership is not
    Users, Root,     \* account names a config may declare; root always exists
    Groups, Wheel,   \* group names; Wheel is what sudo and doas stand for
    Keys, Packages, Commands,
    OperatorRuns,    \* the flags an operator may give: [force, dryRun]
    FaultKinds,      \* which faults happen: "interrupt", "stat", "lose"
    MaxFaults        \* bound: how many of them a behaviour has

FileEntries == [path : Paths, body : Bodies, owner : Users \cup {Root}]

UserEntries ==
    [name : Users, groups : SUBSET Groups, wheel : BOOLEAN, keys : Seq(Keys)]

ConfigType ==
    [hostname : Names \cup {NoName}, files : Seq(FileEntries),
     users : Seq(UserEntries), packages : SUBSET Packages,
     runcmds : Seq(Commands)]

\* No two write_files entries of a config name the same path.
DistinctPaths(c) ==
    \A m, n \in 1..Len(c.files) :
        c.files[m].path = c.files[n].path => m = n

\* No name the network hands out is one a config asks for.
NoTransientTarget == \A c \in Configs : c.hostname \notin TransientNames

ASSUME ConfigsAssumption == Configs \subseteq ConfigType

ASSUME ConstantsAssumption ==
    /\ NoName \notin Names /\ TransientNames \subseteq Names
    /\ {NoFile, HalfFile} \cap Bodies = {}
    /\ Wheel \in Groups
    /\ OperatorRuns \subseteq [force : BOOLEAN, dryRun : BOOLEAN]
    /\ FaultKinds \subseteq {"interrupt", "stat", "lose"}
    /\ MaxFaults \in Nat

VARIABLES
    cfg,       \* the user-data of this machine
    pc,        \* where the process is; "idle": no process runs
    flags,     \* its command line; blind: it could not read the marker
    i, k,      \* loop indices of Apply: entry, and key of a user
    durable,   \* host name in the durable configuration
    live,      \* host name of the running kernel
    files,     \* what is on disk at each path
    accounts,  \* accounts in the passwd database, root left aside
    member,    \* pairs <<account, group>>
    keys,      \* pairs <<account, key>> in authorized_keys files
    pkgs,      \* installed packages
    ran,       \* how often each command was run: 0, 1, or 2 for more
    sentinel,  \* the applied-marker file exists
    faults     \* faults so far

host == <<durable, files, accounts, member, keys, pkgs>>
loop == <<i, k>>
vars == <<cfg, pc, flags, i, k, durable, live, files, accounts, member, keys,
          pkgs, ran, sentinel, faults>>

CommandLine(force, dryRun) == [force |-> force, dryRun |-> dryRun, blind |-> FALSE]
BootFlags == CommandLine(FALSE, FALSE)

ApplyStages ==
    {"hostname", "files", "users", "keys", "packages", "runcmds", "sentinel"}

TypeOK ==
    /\ cfg \in Configs
    /\ pc \in {"idle", "start", "load"} \cup ApplyStages
    /\ flags \in [force : BOOLEAN, dryRun : BOOLEAN, blind : BOOLEAN]
    /\ i \in Nat \ {0} /\ k \in Nat \ {0}
    /\ pc = "keys" => i <= Len(cfg.users)
    /\ durable \in Names \cup {NoName}
    /\ live \in Names \cup {NoName}
    /\ files \in [Paths -> Bodies \cup {NoFile, HalfFile}]
    /\ accounts \subseteq Users
    /\ member \subseteq Users \X Groups
    /\ keys \subseteq Users \X Keys
    /\ pkgs \subseteq Packages
    /\ ran \in [Commands -> 0..2]
    /\ sentinel \in BOOLEAN
    /\ faults \in 0..MaxFaults

Init ==
    /\ cfg \in Configs
    /\ pc = "idle" /\ flags = BootFlags /\ i = 1 /\ k = 1
    /\ durable \in Names \cup {NoName}
    /\ live \in {durable} \cup TransientNames
    /\ files \in [Paths -> Bodies \cup {NoFile}]
    /\ accounts \in SUBSET Users
    /\ member = {} /\ keys = {} /\ pkgs = {}
    /\ ran = [c \in Commands |-> 0]
    /\ sentinel = FALSE
    /\ faults = 0

-----------------------------------------------------------------------------
(* The entries of the config the walk is at, and the groups Apply asks for: *)
(* doas and sudo both put the user into wheel.                              *)

Entry == cfg.files[i]
User == cfg.users[i]
Key == User.keys[k]
GroupsOf(u) == u.groups \cup (IF u.wheel THEN {Wheel} ELSE {})
Pairs(name, set) == {name} \X set
More(n) == IF n = 2 THEN 2 ELSE n + 1
OwnerExists(e) == e.owner \in accounts \cup {Root}
SetsHostname == cfg.hostname # NoName /\ live # cfg.hostname

-----------------------------------------------------------------------------
(* Attempts: a boot of the machine, or the operator's command line.         *)

Fault(kind) ==
    /\ kind \in FaultKinds
    /\ faults < MaxFaults
    /\ faults' = faults + 1

Boot ==
    /\ pc = "idle"
    /\ live' \in {durable} \cup TransientNames
    /\ pc' = "start" /\ flags' = BootFlags
    /\ UNCHANGED <<cfg, loop, host, ran, sentinel, faults>>

RunByHand ==
    /\ pc = "idle"
    /\ \E run \in OperatorRuns : flags' = CommandLine(run.force, run.dryRun)
    /\ pc' = "start"
    /\ UNCHANGED <<cfg, loop, live, host, ran, sentinel, faults>>

\* The marker is lost: a disk reset, or an image baked and cloned again.
LoseSentinel ==
    /\ sentinel /\ pc = "idle"
    /\ Fault("lose")
    /\ sentinel' = FALSE
    /\ UNCHANGED <<cfg, pc, flags, loop, live, host, ran>>

\* Any answer of stat(2) but success counts as "no sentinel": a marker that
\* cannot be read (its file system is not mounted yet) is one that is absent.
CheckSentinel ==
    /\ pc = "start"
    /\ \/ /\ pc' = IF ~flags.force /\ sentinel THEN "idle" ELSE "load"
          /\ UNCHANGED <<flags, faults>>
       \/ /\ sentinel /\ Fault("stat")
          /\ pc' = "load" /\ flags' = [flags EXCEPT !.blind = TRUE]
    /\ UNCHANGED <<cfg, loop, live, host, ran, sentinel>>

\* (mistake: --dry-run forgotten)
LoadIgnoringDryRun ==
    /\ pc = "load"
    /\ pc' = "hostname"
    /\ UNCHANGED <<cfg, flags, loop, live, host, ran, sentinel, faults>>

\* Discovery and parsing; a dry run prints the config and stops.
Load ==
    /\ pc = "load"
    /\ pc' = IF flags.dryRun THEN "idle" ELSE "hostname"
    /\ UNCHANGED <<cfg, flags, loop, live, host, ran, sentinel, faults>>

-----------------------------------------------------------------------------
(* The walk of Apply.  Each System call is one step; the calls happen in the *)
(* documented order and the next one only after the previous one succeeded.  *)

Goto(stage) ==
    /\ pc' = stage /\ i' = 1 /\ k' = 1
    /\ UNCHANGED <<cfg, flags, sentinel, faults>>

\* The live name alone decides whether SetHostname is called.
KeepHostname ==
    /\ pc = "hostname" /\ ~SetsHostname
    /\ Goto("files")
    /\ UNCHANGED <<live, host, ran>>

SetHostname ==
    /\ pc = "hostname" /\ SetsHostname
    /\ durable' = cfg.hostname /\ live' = cfg.hostname
    /\ Goto("files")
    /\ UNCHANGED <<files, accounts, member, keys, pkgs, ran>>

\* (mistake: a file that exists is left alone)
WriteFileOnce ==
    /\ pc = "files" /\ i <= Len(cfg.files)
    /\ OwnerExists(Entry)
    /\ files' = IF files[Entry.path] = NoFile
                THEN [files EXCEPT ![Entry.path] = Entry.body] ELSE files
    /\ i' = i + 1
    /\ UNCHANGED <<cfg, pc, flags, k, durable, live, accounts, member, keys,
                   pkgs, ran, sentinel, faults>>

\* The owner must resolve, or the call fails before it touches the disk.
WriteFile ==
    /\ pc = "files" /\ i <= Len(cfg.files)
    /\ OwnerExists(Entry)
    /\ files' = [files EXCEPT ![Entry.path] = Entry.body]
    /\ i' = i + 1
    /\ UNCHANGED <<cfg, pc, flags, k, durable, live, accounts, member, keys,
                   pkgs, ran, sentinel, faults>>

WriteFileUnknownOwner ==
    /\ pc = "files" /\ i <= Len(cfg.files)
    /\ ~OwnerExists(Entry)
    /\ pc' = "idle"
    /\ UNCHANGED <<cfg, flags, loop, live, host, ran, sentinel, faults>>

FilesDone ==
    /\ pc = "files" /\ i > Len(cfg.files)
    /\ Goto("users")
    /\ UNCHANGED <<live, host, ran>>

CreateUser ==
    /\ pc = "users" /\ i <= Len(cfg.users)
    /\ User.name \notin accounts
    /\ accounts' = accounts \cup {User.name}
    /\ member' = member \cup Pairs(User.name, GroupsOf(User))
    /\ pc' = "keys" /\ k' = 1
    /\ UNCHANGED <<cfg, flags, i, durable, live, files, keys, pkgs, ran,
                   sentinel, faults>>

\* (mistake: a user that exists is put into wheel, asked for or not)
AddUserToGroupsAndWheel ==
    /\ pc = "users" /\ i <= Len(cfg.users)
    /\ User.name \in accounts
    /\ member' = member \cup Pairs(User.name, GroupsOf(User) \cup {Wheel})
    /\ pc' = "keys" /\ k' = 1
    /\ UNCHANGED <<cfg, flags, i, durable, live, files, accounts, keys, pkgs,
                   ran, sentinel, faults>>

\* (mistake: the key file is emptied first and built anew from the config)
AddUserToGroupsAndDropKeys ==
    /\ pc = "users" /\ i <= Len(cfg.users)
    /\ User.name \in accounts
    /\ member' = member \cup Pairs(User.name, GroupsOf(User))
    /\ keys' = IF User.keys = <<>> THEN keys ELSE {p \in keys : p[1] # User.name}
    /\ pc' = "keys" /\ k' = 1
    /\ UNCHANGED <<cfg, flags, i, durable, live, files, accounts, pkgs, ran,
                   sentinel, faults>>

AddUserToGroups ==
    /\ pc = "users" /\ i <= Len(cfg.users)
    /\ User.name \in accounts
    /\ member' = member \cup Pairs(User.name, GroupsOf(User))
    /\ pc' = "keys" /\ k' = 1
    /\ UNCHANGED <<cfg, flags, i, durable, live, files, accounts, keys, pkgs,
                   ran, sentinel, faults>>

AddAuthorizedKey ==
    /\ pc = "keys" /\ k <= Len(User.keys)
    /\ keys' = keys \cup {<<User.name, Key>>}
    /\ k' = k + 1
    /\ UNCHANGED <<cfg, pc, flags, i, durable, live, files, accounts, member,
                   pkgs, ran, sentinel, faults>>

\* (mistake: the keys of the next user come next, and not its account)
KeysDoneNextKeys ==
    /\ pc = "keys" /\ k > Len(User.keys)
    /\ pc' = pc /\ i' = i + 1 /\ k' = 1
    /\ UNCHANGED <<cfg, flags, live, host, ran, sentinel, faults>>

KeysDone ==
    /\ pc = "keys" /\ k > Len(User.keys)
    /\ pc' = "users" /\ i' = i + 1 /\ k' = 1
    /\ UNCHANGED <<cfg, flags, live, host, ran, sentinel, faults>>

UsersDone ==
    /\ pc = "users" /\ i > Len(cfg.users)
    /\ Goto("packages")
    /\ UNCHANGED <<live, host, ran>>

\* One call for the whole list, and none for an empty one.
PackageInstall ==
    /\ pc = "packages"
    /\ pkgs' = pkgs \cup cfg.packages
    /\ Goto("runcmds")
    /\ UNCHANGED <<durable, live, files, accounts, member, keys, ran>>

RunShell ==
    /\ pc = "runcmds" /\ i <= Len(cfg.runcmds)
    /\ ran' = [ran EXCEPT ![cfg.runcmds[i]] = More(@)]
    /\ i' = i + 1
    /\ UNCHANGED <<cfg, pc, flags, k, live, host, sentinel, faults>>

\* (mistake: a config without commands returns early, without the marker)
RunCmdsDoneEarly ==
    /\ pc = "runcmds" /\ i > Len(cfg.runcmds)
    /\ Goto(IF cfg.runcmds = <<>> THEN "idle" ELSE "sentinel")
    /\ UNCHANGED <<live, host, ran>>

RunCmdsDone ==
    /\ pc = "runcmds" /\ i > Len(cfg.runcmds)
    /\ Goto("sentinel")
    /\ UNCHANGED <<live, host, ran>>

WriteSentinel ==
    /\ pc = "sentinel"
    /\ sentinel' = TRUE
    /\ pc' = "idle"
    /\ UNCHANGED <<cfg, flags, loop, live, host, ran, faults>>

-----------------------------------------------------------------------------
(* What a call leaves behind that failed, or in which the process died: the *)
(* durable name is written before the live one; the account exists before   *)
(* its groups do; a key file that is rewritten in place may have lost any   *)
(* of its keys; a command may have done its work.  What already is as       *)
(* requested is not written again, and so is not disturbed (but for a file  *)
(* that can be read and not examined, which is WriteFile's business).       *)

UnfinishedHostname ==
    /\ pc = "hostname" /\ SetsHostname
    /\ durable' \in {NoName, cfg.hostname} /\ durable # cfg.hostname
    /\ UNCHANGED <<files, accounts, member, keys, pkgs, ran, sentinel>>

UnfinishedFile ==
    /\ pc = "files" /\ i <= Len(cfg.files)
    /\ OwnerExists(Entry) /\ files[Entry.path] # Entry.body
    /\ \E b \in {HalfFile, Entry.body} :
          files' = [files EXCEPT ![Entry.path] = b]
    /\ UNCHANGED <<durable, accounts, member, keys, pkgs, ran, sentinel>>

UnfinishedUser ==
    /\ pc = "users" /\ i <= Len(cfg.users)
    /\ accounts' = accounts \cup {User.name}
    /\ \E g \in SUBSET GroupsOf(User) :
          member' = member \cup Pairs(User.name, g)
    /\ UNCHANGED <<durable, files, keys, pkgs, ran, sentinel>>

UnfinishedKey ==
    /\ pc = "keys" /\ k <= Len(User.keys)
    /\ <<User.name, Key>> \notin keys
    /\ \/ \E lost \in SUBSET Keys : keys' = keys \ Pairs(User.name, lost)
       \/ keys' = keys \cup {<<User.name, Key>>}
    /\ UNCHANGED <<durable, files, accounts, member, pkgs, ran, sentinel>>

UnfinishedPackages ==
    /\ pc = "packages"
    /\ \E p \in SUBSET cfg.packages : pkgs' = pkgs \cup p
    /\ UNCHANGED <<durable, files, accounts, member, keys, ran, sentinel>>

UnfinishedCommand ==
    /\ pc = "runcmds" /\ i <= Len(cfg.runcmds)
    /\ ran' = [ran EXCEPT ![cfg.runcmds[i]] = More(@)]
    /\ UNCHANGED <<host, sentinel>>

UnfinishedSentinel ==
    /\ pc = "sentinel"
    /\ sentinel' = TRUE
    /\ UNCHANGED <<host, ran>>

Unfinished ==
    \/ UnfinishedHostname \/ UnfinishedFile \/ UnfinishedUser
    \/ UnfinishedKey \/ UnfinishedPackages \/ UnfinishedCommand
    \/ UnfinishedSentinel
    \/ UNCHANGED <<host, ran, sentinel>>

\* (mistake: the marker is written although Apply returned an error)
InterruptThenMark ==
    /\ pc # "idle"
    /\ Fault("interrupt")
    /\ Unfinished
    /\ pc' = IF pc \in ApplyStages \ {"sentinel"} THEN "sentinel" ELSE "idle"
    /\ UNCHANGED <<cfg, flags, loop, live>>

\* (mistake: the kernel is renamed before the name is made durable)
InterruptLiveFirst ==
    /\ pc # "idle"
    /\ Fault("interrupt")
    /\ \/ Unfinished /\ UNCHANGED live
       \/ /\ pc = "hostname" /\ SetsHostname
          /\ live' = cfg.hostname
          /\ UNCHANGED <<host, ran, sentinel>>
    /\ pc' = "idle"
    /\ UNCHANGED <<cfg, flags, loop>>

\* (mistake: a command that fails does not end the walk)
InterruptThenNextCommand ==
    /\ pc # "idle"
    /\ Fault("interrupt")
    /\ Unfinished
    /\ IF pc = "runcmds" /\ i <= Len(cfg.runcmds)
       THEN pc' = pc /\ i' = i + 1
       ELSE pc' = "idle" /\ i' = i
    /\ UNCHANGED <<cfg, flags, k, live>>

Interrupt ==
    /\ pc # "idle"
    /\ Fault("interrupt")
    /\ Unfinished
    /\ pc' = "idle"
    /\ UNCHANGED <<cfg, flags, loop, live>>

-----------------------------------------------------------------------------
Step ==
    \/ CheckSentinel \/ Load
    \/ KeepHostname \/ SetHostname
    \/ WriteFile \/ WriteFileUnknownOwner \/ FilesDone
    \/ CreateUser \/ AddUserToGroups \/ AddAuthorizedKey \/ KeysDone
    \/ UsersDone \/ PackageInstall \/ RunShell \/ RunCmdsDone
    \/ WriteSentinel

Next == Boot \/ RunByHand \/ LoseSentinel \/ Step \/ Interrupt

Spec == Init /\ [][Next]_vars

\* A process that is not interrupted goes on, and the machine is booted again
\* and again, however often an operator runs the program between.
FairSpec == Spec /\ WF_vars(Step) /\ SF_vars(Boot)

-----------------------------------------------------------------------------
(* What a provisioned host is.  When two entries write the same path the    *)
(* last one counts; n is how far the walk has come.                         *)

HostnameKept == cfg.hostname # NoName => durable = cfg.hostname

FilesLanded(n) ==
    \A m \in 1..n :
        (\A l \in (m + 1)..n : cfg.files[l].path # cfg.files[m].path)
            => files[cfg.files[m].path] = cfg.files[m].body

AccountReady(u) ==
    /\ u.name \in accounts
    /\ Pairs(u.name, GroupsOf(u)) \subseteq member

KeysPresent(u, n) == \A j \in 1..n : <<u.name, u.keys[j]>> \in keys

UsersReady(n) ==
    \A m \in 1..n :
        /\ AccountReady(cfg.users[m])
        /\ KeysPresent(cfg.users[m], Len(cfg.users[m].keys))

Provisioned ==
    /\ HostnameKept
    /\ FilesLanded(Len(cfg.files))
    /\ UsersReady(Len(cfg.users))
    /\ cfg.packages \subseteq pkgs

\* Two entries of the config write this path.
Overridden(p) ==
    \E m, n \in 1..Len(cfg.files) :
        m # n /\ cfg.files[m].path = p /\ cfg.files[n].path = p

\* Provisioned, whatever overridden paths hold: a forced run that is cut short
\* between the two entries leaves the first content there.
RestInPlace ==
    /\ HostnameKept
    /\ \A m \in 1..Len(cfg.files) :
          ~Overridden(cfg.files[m].path) => files[cfg.files[m].path] = cfg.files[m].body
    /\ UsersReady(Len(cfg.users))
    /\ cfg.packages \subseteq pkgs

\* The marker is never found on a host that lacks something the user-data
\* asks for, whatever attempts failed, died or were forced before
\* (runApply returns before writeSentinel when Apply fails).
SentinelMeansProvisioned == DistinctPaths(cfg) /\ sentinel => Provisioned

\* Nor does it if the config writes a path twice, but for that path, whose first
\* content a forced run that is cut short leaves there (Apply, write_files).
MarkedHostKeepsTheRest == sentinel => RestInPlace

\* A command of runcmd starts on a host on which everything else is in place,
\* the running host name included: the walk comes to the commands last and
\* not after an error (Apply; config.go: "Packages-before-RunCmds is
\* intentional").
CommandsSeeProvisionedHost ==
    pc = "runcmds" =>
        Provisioned /\ (cfg.hostname # NoName => live = cfg.hostname)

\* A kernel that bears the requested name is one whose durable name is the
\* same, so that the test of the live name alone (Apply) never leaves the
\* durable name unset: SetHostname writes the durable name first.
LiveNameIsDurable ==
    cfg.hostname # NoName /\ live = cfg.hostname => durable = cfg.hostname

DistinctCommands ==
    \A m, n \in 1..Len(cfg.runcmds) :
        cfg.runcmds[m] = cfg.runcmds[n] => m = n

\* No command was run more often than one that precedes it, over all
\* attempts: runcmd halts at the first command that fails.
CommandsRunInOrder ==
    DistinctCommands =>
        \A m, n \in 1..Len(cfg.runcmds) :
            m < n => ran[cfg.runcmds[n]] <= ran[cfg.runcmds[m]]

\* A machine that bears the marker is changed only by a forced run, or by one
\* that could not read the marker, and a dry run changes nothing (runApply).
OnlyLicensedRunsMutate ==
    [][<<host, ran>>' # <<host, ran>> =>
          ~flags.dryRun /\ (flags.force \/ ~sentinel \/ flags.blind)]_vars

\* Replaying the config on a host where it is in place, to the end or not,
\* changes nothing but a path that it writes twice (commands are the user's
\* own): README.md, "Idempotence".
ReplayIsNoOp ==
    [][RestInPlace =>
          /\ UNCHANGED <<durable, accounts, member, keys, pkgs>>
          /\ \A p \in Paths : ~Overridden(p) => files'[p] = files[p]]_vars

\* The machine is a Provision: what is complete stays complete, and only a
\* complete machine is marked.
P == INSTANCE Provision WITH provisioned <- RestInPlace, marked <- sentinel

ImplementsProvision == P!Spec

\* The account of every file's owner exists; no run gets beyond a file whose
\* owner does not (files come before users).
OwnersExist == \A m \in 1..Len(cfg.files) : OwnerExists(cfg.files[m])

\* However attempts are interrupted and the marker is lost or unreadable, once
\* that stops the machine ends up marked, and stays so.
EventuallyMarked == <>[](OwnersExist => sentinel)
=============================================================================
