# weft-firstboot in TLA+

Models, model-checking runs and machine-checked proofs for weft-firstboot, the
program that a Linux, OpenBSD, FreeBSD or NetBSD virtual machine runs at boot
to take its user-data (host name, files, users, keys, packages, commands) and
apply it once. Paths below are relative to the repository's root.

    tlc -config FirstBoot.cfg MCFirstBoot.tla      check a run (PROJECT.json lists all)
    tlapm FirstBootProofs.tla                      check the proofs

## 1. The system

| Part | Code | State it keeps | Operations |
|---|---|---|---|
| Command `apply` | `cmd/weft-firstboot/main.go` | the applied-marker ("sentinel") file | check marker, load user-data, apply, write marker; `--force`, `--dry-run` |
| Apply | `apply/apply.go`, `config/config.go` | none: a walk over the config | hostname, write_files, users (groups, keys), packages, runcmd; halts at the first error |
| System primitives, four implementations | `apply/apply_{linux,openbsd,freebsd,netbsd}.go` | the host: name file, kernel name, passwd and group, key files, files, packages | SetHostname, WriteFile, UserExists, CreateUser, AddUserToGroups, AddAuthorizedKey, PackageInstall, RunShell |
| Discovery | `datasource/datasource.go`, `disk*.go`, `http.go` | none that outlives a run (a mount and its directory, while it runs) | seed disk read directly, seed disk mounted, HTTP from the gateway or from `--datasource` |
| Gateway | `datasource/gateway_*.go` | none | the best default route of the routing table |
| Parsers | `config/hcl.go`, `config/cloudconfig.go` | none | HCL or cloud-config text to `config.Config` |

The parts call each other in one direction: `runApply` checks the marker, calls
`Discover`, then `Apply`, which calls the System primitives; what one attempt
leaves on the host is all the next attempt knows of it. There is one process
and no goroutine. What makes the behaviour hard is not concurrency within the
program but the machine around it. It is still coming up: disks and the network
appear between two probes, so that two attempts may find different user-data.
And **an attempt may end anywhere**: a primitive fails, the
process is killed, the power goes, and the next boot, or an operator with
`--force`, starts again on a host that is half done. `apply/apply.go:5` makes
that a requirement: the agent "is allowed to crash and resume".

What must hold, by part (the properties that say so in parentheses):

* command: the marker is only ever on a complete host
  (`SentinelMeansProvisioned`), with the one exception of paths written twice
  (`MarkedHostKeepsTheRest`), and on one where no two configs are mixed
  (`MarkerTellsTheHost`); it is there in the end (`EventuallyMarked`, for one
  config and, in `Machine`, for sources that come late); a
  marked host is left alone (`OnlyLicensedRunsMutate`);
* Apply: commands start on a complete host (`CommandsSeeProvisionedHost`) and
  in order (`CommandsRunInOrder`); a replay changes nothing (`ReplayIsNoOp`);
* primitives: an effect in place stays in place and nil means it is in place
  (`KeepsContract`), nothing is half visible or torn (`ReadersSeeWholeFiles`,
  `NeverTorn`), nothing is done twice (`NoKeyTwice`), nothing else is lost
  (`LinuxLosesNoKey`, `KeepsMemberships`, `ExistingAccountKeepsPassword`,
  `NothingElseIsLost`), and in the end the effect is there
  (`EventuallyLanded`, `EventuallyInPlace`, `EventuallyDurable`);
* discovery: a source that was there all along is not passed over for a later
  one, and a seed that does not parse is an error, not a reason to take the
  network's user-data (`ImplementsChoice`); whatever happens, mounts are undone
  (`NothingStaysMounted`), and that before the mount point is removed
  (`RemovesNoMountedDisk`);
* gateway and parsers: the route with the lowest metric is found
  (`GatewayIsBestRoute`), the seed's file is told from its neighbours
  (`SeedNameIsTold`, `PlainNameWins`), a command given as a list reaches its
  program unchanged (`ArgumentsSurvive`), and no empty name reaches Apply nor is
  a given one dropped (`NamesReachApply`).

The hazards this comes from are listed line by line in `PROJECT.json`.

## 2. Modules

| Module | What it is |
|---|---|
| `Provision` | abstract: a machine becomes provisioned and stays so; only then is it marked |
| `FirstBoot` | `runApply` and `Apply` over boots, hand runs and faults; implements `Provision` |
| `SystemCall` | abstract: what `Apply` relies on when it calls a System method again and again |
| `WriteFile` | `WriteFile` of the four systems, one file-system operation at a time; implements `SystemCall` |
| `AuthorizedKeys` | `AddAuthorizedKey` of the four systems, likewise |
| `UserAccount` | `UserExists`, `CreateUser`, `AddUserToGroups`, one command at a time; implements `SystemCall` |
| `Hostname` | `SetHostname` of the four systems over boots; implements `SystemCall` |
| `SourceChoice` | abstract: what `Discover` promises while sources come up and reads fail |
| `Discovery` | `Discover` with its probes, one system call at a time; implements `SourceChoice` |
| `Machine` | `runApply` over a discovery that keeps `SourceChoice`: different user-data from attempt to attempt, losses of power |
| `Gateway`, `SeedNames`, `CloudConfig` | pure functions: the route table, the name matching of a seed, the cloud-config conversions |
| `Parsing` | the machine that grows the inputs of the pure functions, and their properties |
| `...Proofs` | theorems and proofs: of `FirstBoot`, `WriteFile`, `AuthorizedKeys`, `UserAccount`, `Hostname`, `Discovery`, `Machine` and `Parsing` |
| `MC...` | instances for TLC: user-data, images, disks, arguments |

The modules stack. In `FirstBoot` a call of a System method is one step that
has the effect the interface promises; a call that fails, or in which the
process dies, is an `Interrupt`, which leaves behind any part of that effect
that some of the four systems can leave (`UnfinishedHostname`,
`UnfinishedFile`, ...). The four primitive modules open these calls up and check
that nothing else can happen: `SystemCall` is the contract `FirstBoot` counts on
for a file, an account and a name; for keys it is `SuccessListsKey`, a call
that returned nil kept every key and added its own, which is all `FirstBoot` assumes
of them: in-place rewriting may lose other keys when it is interrupted
(`UnfinishedKey`). `FirstBoot` has neither of the two things that `WriteFile`'s contract excepts
(`lost`): losses of power, and on Linux a converged file that is written again because it could not
be examined, by a call that then dies between rename and chown. Where a system breaks the contract, that is a finding (section 6)
and `FirstBoot` models the contract, not the breach.

`Discovery` and `Machine` do the same with the loading of user-data, one step
`Load` in `FirstBoot`. `SourceChoice` speaks of two sets: a source that had
user-data at some moment of the discovery *may* answer it; one that had it all
along *must* not be passed over, unless a read has failed. `Discovery` shows
that the code keeps this promise, `Machine` takes it as its discovery
(`D == INSTANCE SourceChoice`, whose actions are conjuncts of its own) and asks
what follows for the host when attempts end anywhere and the next one
finds another source. In return the walk of `Apply` is in `Machine` a sequence of
items, each of which the config in hand sets: what is in an item is `FirstBoot`'s
business. `Machine` also has the disk under the page cache (`kept`): items and
marker reach it one at a time in any order, and a file may be empty there for a while,
since nothing in `main.go:192-198` or the unsynced `WriteFile`s orders them. A loss of power
leaves what is there. If that is a marker without all the rest, the history variable
`doubtful` says so.

In `Discovery` a disk is its format, its label and what its user-data is
(`none`, `broken`, `config`); `pc` names the system call the probe is at; `mounted` is the
stack of mounts on the mount point, as an unmount that fails is ignored and
the next mount comes on top (`jammed`), and `littered` says that the removal of the mount
point failed, which is ignored too. `found` is what the probes have come to.

Correspondence of the state of `FirstBoot`: `pc` is the line of `runApply` and
`Apply` the process is at, `i` and `k` are the loop indices; `durable`/`live` are
the two host names, `files`, `accounts`, `member`, `keys`, `pkgs` the host; `flags.blind`
tells a run that could not look at the marker;
`ran` counts runs of each command; `sentinel` is the marker file. In the
primitive modules every system is a list of operations (`LinuxWriteFile ==
<<"mkdir", "create", ...>>`), `pc` is the place in it, and there is one action per kind of
operation; `reply` is what the call returned. The map in `PROJECT.json` gives
the lines of every definition.

Abstractions worth knowing: contents, keys, names and hashes are model values; a
file's body in `FirstBoot` stands for content, mode and ownership together
(`WriteFile` takes them apart); a config may ask for a file owner, a mode
prefix, a padded key exactly where the code treats them differently. Definitions marked
`(mistake: ...)` are not part of the model: they are the wrong versions that
show each property can fail (`PROJECT.json`, mutants).

## 3. Runs

| Run | Shows |
|---|---|
| `firstboot` | five configs (full; a user declared twice and no host name; empty; a file whose owner the same config declares; one path written twice), all operator flags, two interruptions, unreadable markers or losses of the marker: six invariants, the licence to change a marked host, replays, refinement of `Provision`, and that the machine ends up marked |
| `write_file` | all four systems, all modes, owners and existing files, two failures, kills or losses of power anywhere: no half-made file is visible, Linux and NetBSD (which sync) never leave a torn one, the contract, and that repeated calls land the file in the end |
| `authorized_keys` | two keys, padded or not, four existing key files, two faults: keys are listed, once, and on Linux never lost |
| `user_account` | entries with no, one and two groups, with and without a hash, every account an image may have, an administrator who adds groups meanwhile; in the end the account is in place |
| `hostname` | every shape of name file and rc.conf, a network that names the kernel, two faults; a name that the network never hands out is durable in the end |
| `discovery` | Linux and BSD, two seats with seven kinds of disk or none, five answers of the server, `--datasource` with a URL, with one that does not parse, or not given, disks and network that appear at any moment, two failed calls or kills |
| `machine` | a seed and a server that agree, disagree or are broken, and appear in any order; boots, hand runs with a file, with a URL, with `--dry-run`; two faults or losses of power, with items and marker written back in any order |
| `parsing` | all route tables of up to three rows, names of up to five characters, root directories of up to three entries, commands of up to two arguments of up to three characters (letters, digits, `=`, blanks, quotes, `$`, reserved words), documents of up to two members |
| `authorized_keys_glued`, `user_account_password`, `hostname_network_name`, `parsing_assignment` | each a statement of the documentation that the code does not keep (section 6) |

Bounds, and why they are enough: two users, keys, files, packages, commands and groups are what it
takes for one entry to be done, one half done and one not reached, or for two
entries to meet on one path or account; two faults (`MaxFaults`) let a repair
itself be interrupted, and every hazard we know needs at most two; `ran`
stops at 2, which is all that "more than once" and the order of commands need;
a key file has at most four lines (`MaxLines`), two more than the keys. Two
seats let the seed be before or after another disk, on the same or on the other
probe; the kinds of disk are one for each way the code treats a disk. In `Machine` two
sources and two items let an attempt go over what another has half
done. In `parsing` the constants of the code are scaled down, so that their boundaries
are within the inputs: the wanted name has three characters (`u-d` for
`user-data`), the shortest truncation two instead of eight (`MinPrefix`), the greatest metric is 3
instead of 2^64 - 1 (`Greatest`), and characters are one of each class. The
proofs in section 5 remove the bounds for the properties they cover.
No run turns the deadlock check off.

## 4. Fairness

`FirstBoot` assumes `WF(Step)`: a process that is not interrupted goes on (it is one sequential
process), and `SF(Boot)`: operators may run the program between two boots, but the machine
is booted again and again; that every boot starts the program is what README.md
("Idempotence") and `main.go:13` build on. Nothing is assumed of operators or of faults, which
are bounded in number. Its `EventuallyMarked` is about machines on which the owner of every
file exists (`OwnersExist`): no run gets beyond a file whose owner only a later step creates. The primitive modules assume `WF(Run)`: a call goes on and is
made again, which is what those two give them. `Machine` assumes weak fairness of
`runApply`'s steps and of `SourceAppears` (a source that is going to be there
comes up, whatever the boots do), and the same strong fairness of `Boot`. Its
`EventuallyMarked` is about machines whose first source has a config; on one whose seed is broken
every boot fails, as the code intends. `EventuallyDurable` leaves out names that the network
hands out, for which it is false (section 6). `EventuallyLanded` needs arguments that are good for the
system (`Accepts`), and on NetBSD a directory that exists, since the
code there does not create it: on NetBSD a mode spelt `0o644` and a missing parent directory
fail on every boot (`ModeParses`, `CreateTempNoDir`).

## 5. Proofs

`FirstBootProofs`, for every set of configs, users, paths, keys, commands and
every bound on faults:

| Theorem | States |
|---|---|
| `TypeCorrect` | `TypeOK` |
| `HostnameSafe` | `LiveNameIsDurable` |
| `CommandsSafe` | `CommandsSeeProvisionedHost` |
| `MarkedRestSafe` | `MarkedHostKeepsTheRest` |
| `MarkerSafe` | `SentinelMeansProvisioned` |
| `ReplaySafe` | `ReplayIsNoOp` |
| `Implementation` | FirstBoot implements `Provision` |
| `LicenceSafe` | `OnlyLicensedRunsMutate` |
| `CommandsOrdered` | `CommandsRunInOrder` |

Assumptions: the named ones of `FirstBoot` on its constants, and one on the
configs that the theorems state where they need it. `NoTransientTarget`: the
network does not hand out the name a config asks for (otherwise the durable
name is skipped, section 6); `TypeCorrect`, `LicenceSafe`, `CommandsOrdered` and `ReplaySafe`
do without. Configs that write one path twice are not assumed away but accounted for in
the properties: `SentinelMeansProvisioned` is about the others, `MarkedHostKeepsTheRest`,
`ReplayIsNoOp` and the refinement about everything but such paths (`Overridden`), whose
first content comes back with each replay.

The argument. `SentinelMeansProvisioned` is not inductive: it says nothing of
a walk that is under way. The invariant that is (`Walk`, with the parts
`WalkHostname`, `WalkFiles`, `WalkUsers` and `WalkPackages`) says how much of the host is in place at each stage: at entry `i` of the
files, files `1 .. i-1`; at user `i` all files and users `1 .. i-1`; and so on to
the commands, where everything is. Each action of `Apply` extends that prefix
by one entry and disturbs nothing of it: files because the last entry of a path counts, users and keys because
memberships and keys are only added, or lost only for a key that is not
yet there. The host name needs one fact more, `LiveNameIsDurable`, as `Apply`
looks at the live name only. `ReplayIsNoOp` and the refinement follow from
the same lemma: once `RestInPlace` holds, no action changes more of the host than an
overridden path.
`CommandsRunInOrder` has an invariant of its own: during the walk the commands
before `i` have been run at least as often as those from `i` on, counted up to two.

`WriteFileProofs`, for all four systems, every content, mode, owner and number of
calls and faults:

| Theorem | States |
|---|---|
| `TypeCorrect` | `TypeOK` |
| `NothingHalfVisible` | `ReadersSeeWholeFiles` |
| `ErrorsAreClean` | `ErrorLeavesNothing` |
| `TornOnlyWithoutSync` | `NeverTorn` |
| `Contract` | WriteFile implements `SystemCall` |

Here `ReadersSeeWholeFiles` is not inductive because it says nothing of the temporary
file that the rename publishes. The invariant (`IInv`) follows that file through the
list of operations: which of its attributes are final at each of them
(`TempFile`), that the path is still what the call found
until the rename (`Path`), and, for `NeverTorn`, that data is synced when the rename comes
and all that a loss of power may bring back is whole (`WholeFiles`).
`OperationTable` and `NextOperation` give the order of operations of each system.

Two things may undo an effect that was in place: a loss of power, as a machine
may then get back the file it had before the last calls (no system syncs the directory), and on Linux
the rewrite of a converged file that could not be examined, if it is cut short between rename
and chown. The contract takes the effect to be due from then on (`lost`) until the next call
that returns nil, and that call has put the file in place, whatever was lost before.

`MachineProofs`, for every number of sources, configs and items and every bound on
faults and losses of power:

| Theorem | States |
|---|---|
| `TypeCorrect` | `TypeOK`, with it that only user-data that parses is ever applied |
| `MarkerSafe` | `MarkerTellsTheHost` |

`MarkerTellsTheHost` says nothing of a walk under way. The invariant (`IInv`) adds
that the items a process has passed are as its config asks (`Progress`). Of what has reached the
disk nothing is assumed and nothing can be said: any item or the marker may be there
without the others. That is why the property leaves out a marker that a loss of power has kept
without all the rest (`doubtful`), until a run has gone over the host and written it anew; what it says
beyond that is that no failure, kill, late source or other loss of power mixes configs under
a marker. Assumed are only the types of
the constants, and of discovery that a config comes from a source whose user-data is one.

`HostnameProofs`, for the four systems, any names, any name file or rc.conf an image may have,
any number of boots and faults:

| Theorem | States |
|---|---|
| `TypeCorrect` | `TypeOK` |
| `LiveNameSafe` | `LiveNameIsDurable` |
| `OtherLinesSafe` | `NothingElseIsLost` |
| `Contract` | Hostname implements `SystemCall` |

The invariant adds to the properties what each operation finds (`Stages`): the
temporary file is the rewritten one when the rename comes, the old name is not the
requested one when the file is truncated, and the name is durable when the kernel is named,
which is why `LiveNameIsDurable` holds. `RewrittenNames` and the lemmas around it say what the last
name line of a rewritten rc.conf is and which lines it keeps. Assumed is that the
file of Linux and OpenBSD has at most one line. `LiveNameIsDurable` itself leaves out names that
the network hands out (`Transient`).

`UserAccountProofs`, for the four systems, any entry, account, groups and number of
runs and faults, with an administrator who adds groups meanwhile:

| Theorem | States |
|---|---|
| `TypeCorrect` | `TypeOK` |
| `MembershipsKept` | `KeepsMemberships` |
| `PasswordKept` | `ExistingAccountKeepsPassword` |
| `PasswordSet` | `CreatedAccountGetsPassword` |
| `Contract` | UserAccount implements `SystemCall` |

`KeepsMemberships` is not inductive where the set of groups is replaced: that the
groups `id` printed hold all those of the account, as the run found it, is what
`Places` adds, with what the run knows of the account at each other command.

`AuthorizedKeysProofs`, for the four systems, any keys, existing key file and number of calls
and faults:

| Theorem | States |
|---|---|
| `TypeCorrect` | `TypeOK` |
| `KeyListed` | `SuccessListsKey` |
| `FileUsable` | `WrittenFileIsUsable` |
| `KeysListedOnce` | `NoKeyTwice` |
| `LinuxKeysKept` | `LinuxLosesNoKey` |

The properties speak of the moment a call returns. The invariant follows the
call to it: what owner and permissions the directory has by then (`Directory`), and that
the file is as the call found it, then a part, then all of the lines that were there and the
key (`File`). On NetBSD the append keeps the lines only if the file ended on a newline, which
is the exception `SuccessListsKey` makes. `NoKeyTwice` compares the lines of the file with the
keys themselves, not with what the code's lookup finds. Besides it needs that the
lines about to be written have the key once (`Once`), which rests on the trimming of key and
lines alike; on FreeBSD, which does not trim the key, a padded one is left out. A
line that is cut or glued is none of the keys.

`DiscoveryProofs`, for any seats and disks, labels, answers of the server and number of
failures and kills, on Linux and the BSDs:

| Theorem | States |
|---|---|
| `TypeCorrect` | `TypeOK` |
| `MountsUndone` | `NothingStaysMounted` |
| `UnmountedFirst` | `RemovesNoMountedDisk` |
| `Promise` | Discovery implements `SourceChoice` |

`Tidy` says where between the steps that make and undo them the mount and its
directory are there, as long as no unmount has failed; both properties about them follow. For the refinement the invariant
says at each step what has become of the sources that must not be passed over (`Order`): in
the direct probe they do not come before the candidate at hand; once disks are mounted,
none of them is one the direct probe reads, and each is led to by a node still to be mounted;
when the disks are done, only the network is left. `Result` and `Sets` tie what was
found, and the two sets of `SourceChoice`, to what is there. Every step is then one of
`SourceChoice`'s, or a stutter, with `must` and `may` mapped to themselves. Assumed are distinct seats and labels
that are none of them.

`ParsingProofs`, for inputs of any size, any wanted name, alphabet, rows, arguments and members:

| Theorem | States |
|---|---|
| `TypeCorrect` | `TypeOK`: the inputs are sequences over what they are made of |
| `BestRouteFound` | `GatewayIsBestRoute` |
| `NamesTold` | `SeedNameIsTold` |
| `PlainWins` | `PlainNameWins` |
| `ArgumentsKept` | `ArgumentsSurvive` |
| `NamesKept` | `NamesReachApply` |

Here `TypeOK` is the whole invariant, and each theorem rests on a lemma about the function for
every sequence. Such a function (`LinuxDefaultGateway`, `Select`, `Concat`, `After`) is defined by
recursion over the places of its input, with a `CHOOSE` of that function underneath. `RunExists`
shows once that the function exists; `UpTo`, induction over `0..n` for a set of
places, then shows what it computes. Both follow from `LeastElement`, the
library's well-founded induction for sets. (Its induction theorems that take an operator
cannot be used, and are not needed.) The lemmas, in the order of the argument:

* routes: after n rows the scan holds the best of the first n (`ScanKeepsBest`);
* names: folding and mangling go character by character (`Charwise`); trimming a
  version off a name leaves a beginning of it (`TrimShortens`), and off a minted name its stem
  (`TrimDropsVersion`);
* conversions: `Select` gives one member for each place, in order (`SelectSelects`);
* commands: the shell reads two lines in a row as one (`AfterConcat`); read from where a word
  may start, what `shellQuote` writes is one word, the argument itself, and nothing in it is
  read as anything but text (`AfterQuoted`, by `AfterPlain` and `AfterPieces`); so the words of a
  line are its arguments (`LineRead`, `CommandRead`). That its first word is a command follows from
what the reader knows of a bare first word (`TakenRightly`): it is taken for something
else only if it has the form of an assignment or is reserved, and it is the first argument.

The reader is a translation of POSIX (Shell Command Language 2.2-2.4 and 2.9.1), with
the characters that are special there; the code's list (`Unsafe`) is another set, and that it is enough is
what the lemmas about bare words show. It is stricter than a shell in one way: `#` and `~` count
as special anywhere in a word. Assumptions: the markers are none of the values they stand beside,
the wanted name has no version and is no shorter than the shortest truncation, letters and digits do not overlap with
`;`, `.` and `_`.

Only model-checked is liveness (`EventuallyMarked`, `EventuallyLanded`,
`EventuallyInPlace`, `EventuallyDurable`), which is beyond the prover. Every safety
invariant, action property and refinement that a passing run checks is also a
theorem, under the assumptions named above. The four statements that the code breaks
(section 6) are refuted by TLC.

## 6. Where code and documentation differ

Four runs with `expect: violation`, each checking a sentence of the repository:

* `authorized_keys_glued`: NetBSD appends to an unterminated last line.
* `user_account_password`: a crash after useradd leaves the account locked for good.
* `hostname_network_name`: the durable host name is never written if the network gives
  the kernel the same name first (`apply.go:76`; `apply.go:26`: "commits the new name to
  durable config"), so a machine may be marked without it; `FirstBoot` has such
  names in `TransientNames`.
* `parsing_assignment`: a list whose first argument has the form `name=value` goes out unquoted
  and is an assignment to the shell (`cloudconfig.go:214`; lines 188-189: "each arg is
  shell-quoted to preserve semantics"); likewise an unquoted reserved word such as `if` is no command.

The models also contain these, for which no run is kept:

* `main.go:10` puts users before files; the code and `config.go:13`
  put files first, and so a file owned by a declared user fails a first boot
  (`OwnedFileConfig`);
* Linux and NetBSD write a file again that is as asked for if they can read but not examine
  it (`apply_linux.go:221-236`, `apply_netbsd.go:313-319`; `apply.go:22-23`: "only re-writes on
  diff"), and on Linux it belongs to root until the chown (`ExaminationFails`);
* the marker is written without a sync of itself or of what it stands for
  (`main.go:192-198`), so that after a loss of power it may stand on a host that lacks
  something, which no later boot repairs (`doubtful`; `main.go:51`: "Runs once per VM lifetime");
* FreeBSD and NetBSD read the groups of an account, then replace the set: a group that an
  administrator adds in between is lost (`apply_freebsd.go:117`; `apply.go:40`: "appends
  extraGroups");
* OpenBSD and FreeBSD truncate the key file before they fill it: keys that were there and
  are not in the config are lost if the process dies in between (`apply_openbsd.go:199`);
* set-user-id, set-group-id and sticky bits of a mode never reach the file
  (`apply_linux.go:385`; `ChmodTemp`);
* a seed disk that turns up after the network's user-data was applied is never
  looked at, the machine being marked; one that turns up after a failed
  attempt is, over what that attempt left of other user-data (`Machine`);
* a forced run that is cut short leaves a marked host of two configs, which
  later boots skip (`doubtful`; `apply.go:5`: "allowed to crash and resume");
* a seed labelled `cidata` that must be mounted (FAT16) loses to any disk on a listed
  seat that is read directly, whatever its label (`Rank`; `disk_linux.go:20`:
  the links "are the precise answer and come first");
* an ext4 seed is never read on Linux, which mounts as iso9660 and vfat only
  (`disk_linux.go:73`; `MountFormats`), although `disk_linux.go:43-45`, `disk.go:33` and
  README.md's table name it;
* only the first label that exists is mounted: a disk labelled `cidata` that is no seed
  hides one labelled `CIDATA` (`disk_linux.go:56`);
* an unmount that fails is ignored and the mount point removed with what is below it; only
  that mounts are read-only keeps the seed's files then (`disk_linux.go:69-72`, `jammed`);
* a default route whose metric does not parse counts as the best one, one with the
  greatest metric as none, and the mask is not looked at (`gateway_linux.go:45-53`);
* members of a command list that are not strings (`[chmod, 644, f]` has one) are
  dropped without a word (`cloudconfig.go:198`; line 188 says the shape is "joined with spaces");
* an attempt that dies after a command, before the marker, runs the command again at the
  next boot (`main.go:51`: "Runs once per VM lifetime");
* a config that writes one path twice writes both contents again on each replay
  (`apply.go:6`: "must be a no-op"), and a forced run that dies in between leaves the first
  one on a marked machine, and all else in place (`MarkedHostKeepsTheRest`);
* a key file left to root by a crash before the last chown is never given back, as
  the next call finds the key and returns (`apply.go:44`);
* FreeBSD re-adds a key that ends on a blank, which it trims off the lines but not off
  the key (`apply_freebsd.go:184`, `apply.go:45`);
* the shell of an account that exists is not reconciled, although `apply.go:19-21` and
  `config.go:40-42` say so; its password is left alone too, which they do not promise to change
  (`ExistingAccountKeepsPassword`).

## 7. What is not modelled

* The grammars of HCL and YAML, which are the libraries', the field by field copy of
  `hclToConfig`, and which header makes `Parse` choose which of them; whether user-data parses is a matter of the disk or server that holds it.
* How file systems are decoded (`go-filesystems`), the staging bound of FAT32
  images, partitions and raw nodes of one disk, and which of two disks of the same label udev names.
* The URL that is asked (path, IPv6 brackets), redirects, and a server whose answer changes between two attempts; `route(8)` on
  the BSDs chooses the gateway, which `Discovery` takes as known or not.
* User-data that changes between attempts other than by another source coming up.
* Two processes at once: nothing in the code prevents it, and nothing starts two.
* Losses of power in the models of the other primitives; in `FirstBoot`, that the effect of a call that returned may be lost by a later loss of power
  (`WriteFile` looks at that within its own file, `Machine` for the host and its marker).
* What is inside `version`, `parse` and the system factory, which change no state.
* What package managers, shells and the user tools do inside; `usermod -G` on
  OpenBSD is taken to append, as the code there relies on; `groupadd -o` to
  accept a group that exists.
* Removing users, files or groups: the program never does.

## 8. Plan

Done: `Provision`, `FirstBoot`; `SystemCall` and the four primitive modules;
`SourceChoice`, `Discovery` and `Machine`; the pure functions; the proofs of all of them.
Next, in this order:

1. Composition of `FirstBoot` with the primitives of one system: the
   `Unfinished...` actions replaced by the real operations, to check and then prove that
   they cover them.
2. `PackageInstall` of the four systems: which of the installed packages are skipped, refreshes
   of the catalogue that fail.
