--------------------------- MODULE FirstBootProofs ---------------------------
(***************************************************************************)
(* Proofs about FirstBoot, for every value of its constants: any number of *)
(* configs, files, users, keys, packages, commands and faults.             *)
(*                                                                         *)
(* The inductive invariant says, for each place of Apply's walk, how much  *)
(* of the user-data is on the host when the walk is there (Walk); that the *)
(* host name is written durable first, live second (LiveNameIsDurable);    *)
(* and that nothing is missing from a marked host.                         *)
(***************************************************************************)
EXTENDS FirstBoot, TLAPS

\* Stages of the walk at which the previous part of the config is in place.
AfterHostname == {"files", "users", "keys", "packages", "runcmds", "sentinel"}
AfterFiles == {"users", "keys", "packages", "runcmds", "sentinel"}
AfterUsers == {"packages", "runcmds", "sentinel"}
AfterPackages == {"runcmds", "sentinel"}

WalkHostname ==
    pc \in AfterHostname =>
        HostnameKept /\ (cfg.hostname # NoName => live = cfg.hostname)

WalkFiles ==
    /\ pc = "files" => i \in 1..(Len(cfg.files) + 1) /\ FilesLanded(i - 1)
    /\ pc \in AfterFiles => FilesLanded(Len(cfg.files))

WalkUsers ==
    /\ pc \in {"users", "keys"} =>
          i \in 1..(Len(cfg.users) + 1) /\ UsersReady(i - 1)
    /\ pc = "keys" =>
          /\ i <= Len(cfg.users)
          /\ AccountReady(User)
          /\ k \in 1..(Len(User.keys) + 1)
          /\ KeysPresent(User, k - 1)
    /\ pc \in AfterUsers => UsersReady(Len(cfg.users))

WalkPackages == pc \in AfterPackages => cfg.packages \subseteq pkgs

Walk == WalkHostname /\ WalkFiles /\ WalkUsers /\ WalkPackages

-----------------------------------------------------------------------------
(* What the walk reads from a config has the type the config promises.     *)

LEMMA ConfigTyped ==
    ASSUME TypeOK
    PROVE  /\ cfg \in ConfigType
           /\ cfg.hostname \in Names \cup {NoName}
           /\ cfg.files \in Seq(FileEntries)
           /\ cfg.users \in Seq(UserEntries)
           /\ cfg.packages \subseteq Packages
           /\ cfg.runcmds \in Seq(Commands)
BY ConfigsAssumption DEF TypeOK, ConfigType

LEMMA EntryTyped ==
    ASSUME TypeOK, NEW m \in 1..Len(cfg.files)
    PROVE  /\ cfg.files[m] \in FileEntries
           /\ cfg.files[m].path \in Paths
           /\ cfg.files[m].body \in Bodies
<1>1. cfg.files \in Seq(FileEntries)
  BY ConfigTyped
<1>2. cfg.files[m] \in FileEntries
  BY <1>1
<1> QED BY <1>2 DEF FileEntries

LEMMA UserTyped ==
    ASSUME TypeOK, NEW m \in 1..Len(cfg.users)
    PROVE  /\ cfg.users[m] \in UserEntries
           /\ cfg.users[m].name \in Users
           /\ GroupsOf(cfg.users[m]) \subseteq Groups
           /\ cfg.users[m].keys \in Seq(Keys)
           /\ \A g \in SUBSET GroupsOf(cfg.users[m]) :
                 Pairs(cfg.users[m].name, g) \subseteq Users \X Groups
<1>1. cfg.users \in Seq(UserEntries)
  BY ConfigTyped
<1>2. cfg.users[m] \in UserEntries
  BY <1>1
<1>3. /\ cfg.users[m].name \in Users
      /\ cfg.users[m].groups \subseteq Groups
      /\ cfg.users[m].keys \in Seq(Keys)
  BY <1>2 DEF UserEntries
<1>4. GroupsOf(cfg.users[m]) \subseteq Groups
  BY <1>3, ConstantsAssumption DEF GroupsOf
<1> QED BY <1>2, <1>3, <1>4 DEF Pairs

LEMMA KeyTyped ==
    ASSUME TypeOK, pc = "keys", k <= Len(User.keys)
    PROVE  <<User.name, Key>> \in Users \X Keys
<1>1. i \in 1..Len(cfg.users)
  BY ConfigTyped DEF TypeOK
<1>2. User.name \in Users /\ User.keys \in Seq(Keys)
  BY <1>1, UserTyped DEF User
<1>3. k \in 1..Len(User.keys)
  BY <1>2 DEF TypeOK
<1> QED BY <1>2, <1>3 DEF Key

LEMMA CommandTyped ==
    ASSUME TypeOK, NEW m \in 1..Len(cfg.runcmds)
    PROVE  cfg.runcmds[m] \in Commands
BY ConfigTyped

LEMMA MoreTyped == ASSUME NEW n \in 0..2 PROVE More(n) \in 0..2
BY DEF More

-----------------------------------------------------------------------------
(* Type correctness.                                                       *)

LEMMA TypeInit == Init => TypeOK
<1> SUFFICES ASSUME Init PROVE TypeOK
  OBVIOUS
<1>1. live \in Names \cup {NoName}
  BY ConstantsAssumption DEF Init
<1>2. files \in [Paths -> Bodies \cup {NoFile, HalfFile}]
  BY DEF Init
<1>3. flags \in [force : BOOLEAN, dryRun : BOOLEAN, blind : BOOLEAN]
  BY DEF Init, BootFlags, CommandLine
<1>4. ran \in [Commands -> 0..2]
  BY DEF Init
<1>5. faults \in 0..MaxFaults
  BY ConstantsAssumption DEF Init
<1>6. /\ cfg \in Configs
      /\ pc \in {"idle", "start", "load"} \cup ApplyStages
      /\ i \in Nat \ {0} /\ k \in Nat \ {0}
      /\ pc = "keys" => i <= Len(cfg.users)
      /\ durable \in Names \cup {NoName}
  BY DEF Init
<1>7. /\ accounts \subseteq Users
      /\ member \subseteq Users \X Groups
      /\ keys \subseteq Users \X Keys
      /\ pkgs \subseteq Packages
      /\ sentinel \in BOOLEAN
  BY DEF Init
<1> QED BY <1>1, <1>2, <1>3, <1>4, <1>5, <1>6, <1>7 DEF TypeOK

LEMMA TypeStep == TypeOK /\ [Next]_vars => TypeOK'
<1> SUFFICES ASSUME TypeOK, [Next]_vars PROVE TypeOK'
  OBVIOUS
<1> USE DEF ApplyStages
<1>1. CASE Boot
  <2>1. live' \in Names \cup {NoName}
    BY <1>1, ConstantsAssumption DEF Boot, TypeOK
  <2>2. flags' \in [force : BOOLEAN, dryRun : BOOLEAN, blind : BOOLEAN]
    BY <1>1 DEF Boot, BootFlags, CommandLine
  <2> QED BY <1>1, <2>1, <2>2 DEF Boot, TypeOK, host, loop
<1>2. CASE RunByHand
  <2>1. flags' \in [force : BOOLEAN, dryRun : BOOLEAN, blind : BOOLEAN]
    BY <1>2, ConstantsAssumption DEF RunByHand, CommandLine
  <2> QED BY <1>2, <2>1 DEF RunByHand, TypeOK, host, loop
<1>3. CASE LoseSentinel
  <2>1. faults' \in 0..MaxFaults
    BY <1>3, ConstantsAssumption DEF LoseSentinel, Fault, TypeOK
  <2> QED BY <1>3, <2>1 DEF LoseSentinel, TypeOK, host, loop
<1>4. CASE CheckSentinel
  <2>1. flags' \in [force : BOOLEAN, dryRun : BOOLEAN, blind : BOOLEAN]
    BY <1>4 DEF CheckSentinel, TypeOK
  <2>2. faults' \in 0..MaxFaults /\ pc' \in {"idle", "load"}
    BY <1>4, ConstantsAssumption DEF CheckSentinel, Fault, TypeOK
  <2> QED BY <1>4, <2>1, <2>2 DEF CheckSentinel, TypeOK, host, loop
<1>5. CASE Load
  BY <1>5 DEF Load, TypeOK, host, loop
<1>6. CASE KeepHostname
  BY <1>6 DEF KeepHostname, Goto, TypeOK, host
<1>7. CASE SetHostname
  BY <1>7, ConfigTyped DEF SetHostname, SetsHostname, Goto, TypeOK
<1>8. CASE WriteFile
  <2>1. i \in 1..Len(cfg.files)
    BY <1>8, ConfigTyped DEF WriteFile, TypeOK
  <2>2. files' \in [Paths -> Bodies \cup {NoFile, HalfFile}]
    BY <1>8, <2>1, EntryTyped DEF WriteFile, Entry, TypeOK
  <2> QED BY <1>8, <2>2 DEF WriteFile, TypeOK
<1>9. CASE WriteFileUnknownOwner
  BY <1>9 DEF WriteFileUnknownOwner, TypeOK, host, loop
<1>10. CASE FilesDone
  BY <1>10 DEF FilesDone, Goto, TypeOK, host
<1>11. CASE CreateUser
  <2>1. i \in 1..Len(cfg.users)
    BY <1>11, ConfigTyped DEF CreateUser, TypeOK
  <2>2. accounts' \subseteq Users /\ member' \subseteq Users \X Groups
    BY <1>11, <2>1, UserTyped DEF CreateUser, User, TypeOK
  <2> QED BY <1>11, <2>2 DEF CreateUser, TypeOK
<1>12. CASE AddUserToGroups
  <2>1. i \in 1..Len(cfg.users)
    BY <1>12, ConfigTyped DEF AddUserToGroups, TypeOK
  <2>2. member' \subseteq Users \X Groups
    BY <1>12, <2>1, UserTyped DEF AddUserToGroups, User, TypeOK
  <2> QED BY <1>12, <2>2 DEF AddUserToGroups, TypeOK
<1>13. CASE AddAuthorizedKey
  <2>1. <<User.name, Key>> \in Users \X Keys
    BY <1>13, KeyTyped DEF AddAuthorizedKey
  <2> QED BY <1>13, <2>1 DEF AddAuthorizedKey, TypeOK
<1>14. CASE KeysDone
  BY <1>14 DEF KeysDone, TypeOK, host
<1>15. CASE UsersDone
  BY <1>15 DEF UsersDone, Goto, TypeOK, host
<1>16. CASE PackageInstall
  BY <1>16, ConfigTyped DEF PackageInstall, Goto, TypeOK
<1>17. CASE RunShell
  <2>1. i \in 1..Len(cfg.runcmds)
    BY <1>17, ConfigTyped DEF RunShell, TypeOK
  <2>2. ran' \in [Commands -> 0..2]
    BY <1>17, <2>1, CommandTyped, MoreTyped DEF RunShell, TypeOK
  <2> QED BY <1>17, <2>2 DEF RunShell, TypeOK, host
<1>18. CASE RunCmdsDone
  BY <1>18 DEF RunCmdsDone, Goto, TypeOK, host
<1>19. CASE WriteSentinel
  BY <1>19 DEF WriteSentinel, TypeOK, host, loop
<1>20. CASE Interrupt
  <2>1. /\ cfg' = cfg /\ flags' = flags /\ i' = i /\ k' = k /\ live' = live
        /\ pc' = "idle"
        /\ faults' \in 0..MaxFaults
    BY <1>20, ConstantsAssumption DEF Interrupt, Fault, TypeOK, loop
  <2> SUFFICES /\ durable' \in Names \cup {NoName}
               /\ files' \in [Paths -> Bodies \cup {NoFile, HalfFile}]
               /\ accounts' \subseteq Users
               /\ member' \subseteq Users \X Groups
               /\ keys' \subseteq Users \X Keys
               /\ pkgs' \subseteq Packages
               /\ ran' \in [Commands -> 0..2]
               /\ sentinel' \in BOOLEAN
    BY <2>1 DEF TypeOK
  <2>2. CASE UnfinishedHostname
    BY <2>2, ConfigTyped DEF UnfinishedHostname, TypeOK
  <2>3. CASE UnfinishedFile
    <3>1. i \in 1..Len(cfg.files)
      BY <2>3, ConfigTyped DEF UnfinishedFile, TypeOK
    <3>2. files' \in [Paths -> Bodies \cup {NoFile, HalfFile}]
      BY <2>3, <3>1, EntryTyped DEF UnfinishedFile, Entry, TypeOK
    <3> QED BY <2>3, <3>2 DEF UnfinishedFile, TypeOK
  <2>4. CASE UnfinishedUser
    <3>1. i \in 1..Len(cfg.users)
      BY <2>4, ConfigTyped DEF UnfinishedUser, TypeOK
    <3>2. accounts' \subseteq Users /\ member' \subseteq Users \X Groups
      BY <2>4, <3>1, UserTyped DEF UnfinishedUser, User, TypeOK
    <3> QED BY <2>4, <3>2 DEF UnfinishedUser, TypeOK
  <2>5. CASE UnfinishedKey
    <3>1. <<User.name, Key>> \in Users \X Keys
      BY <2>5, KeyTyped DEF UnfinishedKey
    <3> QED BY <2>5, <3>1 DEF UnfinishedKey, TypeOK
  <2>6. CASE UnfinishedPackages
    BY <2>6, ConfigTyped DEF UnfinishedPackages, TypeOK
  <2>7. CASE UnfinishedCommand
    <3>1. i \in 1..Len(cfg.runcmds)
      BY <2>7, ConfigTyped DEF UnfinishedCommand, TypeOK
    <3>2. ran' \in [Commands -> 0..2]
      BY <2>7, <3>1, CommandTyped, MoreTyped DEF UnfinishedCommand, TypeOK
    <3> QED BY <2>7, <3>2 DEF UnfinishedCommand, TypeOK, host
  <2>8. CASE UnfinishedSentinel
    BY <2>8 DEF UnfinishedSentinel, TypeOK, host
  <2>9. CASE UNCHANGED <<host, ran, sentinel>>
    BY <2>9 DEF TypeOK, host
  <2> QED BY <1>20, <2>2, <2>3, <2>4, <2>5, <2>6, <2>7, <2>8, <2>9
          DEF Interrupt, Unfinished
<1>21. CASE UNCHANGED vars
  BY <1>21 DEF vars, TypeOK
<1> QED
  BY <1>1, <1>2, <1>3, <1>4, <1>5, <1>6, <1>7, <1>8, <1>9, <1>10, <1>11,
     <1>12, <1>13, <1>14, <1>15, <1>16, <1>17, <1>18, <1>19, <1>20, <1>21
     DEF Next, Step

\* Every variable keeps its type, whatever the constants.
THEOREM TypeCorrect == Spec => []TypeOK
BY TypeInit, TypeStep, PTL DEF Spec

-----------------------------------------------------------------------------
(* What a provisioned host holds at the entry the walk is at.              *)

\* Nobody else of the config writes the path of entry m.
OnlyWriter(m) ==
    \A l \in 1..Len(cfg.files) : cfg.files[l].path = cfg.files[m].path => l = m

LEMMA WrittenOnce ==
    ASSUME NEW m \in 1..Len(cfg.files)
    PROVE  OnlyWriter(m) <=> ~Overridden(cfg.files[m].path)
BY DEF OnlyWriter, Overridden

\* A provisioned host has the rest in place, which is all of it if no path is
\* written twice.
LEMMA ProvisionedRest ==
    ASSUME TypeOK, Provisioned
    PROVE  /\ RestInPlace
           /\ DistinctPaths(cfg) => \A m \in 1..Len(cfg.files) : OnlyWriter(m)
<1>1. Len(cfg.files) \in Nat
  BY ConfigTyped
<1>2. ASSUME NEW m \in 1..Len(cfg.files), OnlyWriter(m)
      PROVE  files[cfg.files[m].path] = cfg.files[m].body
  <2>1. \A l \in (m + 1)..Len(cfg.files) : cfg.files[l].path # cfg.files[m].path
    BY <1>1, <1>2 DEF OnlyWriter
  <2> QED BY <2>1 DEF Provisioned, FilesLanded
<1>3. \A m \in 1..Len(cfg.files) :
         ~Overridden(cfg.files[m].path) => files[cfg.files[m].path] = cfg.files[m].body
  BY <1>2, WrittenOnce
<1> QED BY <1>3 DEF Provisioned, RestInPlace, DistinctPaths, OnlyWriter

LEMMA ProvisionedUser ==
    ASSUME TypeOK, RestInPlace, NEW m \in 1..Len(cfg.users)
    PROVE  /\ cfg.users[m].name \in accounts
           /\ \A g \in SUBSET GroupsOf(cfg.users[m]) :
                 Pairs(cfg.users[m].name, g) \subseteq member
           /\ \A j \in 1..Len(cfg.users[m].keys) :
                 <<cfg.users[m].name, cfg.users[m].keys[j]>> \in keys
<1>1. AccountReady(cfg.users[m])
  BY DEF RestInPlace, UsersReady
<1>2. KeysPresent(cfg.users[m], Len(cfg.users[m].keys))
  BY DEF RestInPlace, UsersReady
<1> QED BY <1>1, <1>2 DEF AccountReady, KeysPresent, Pairs

LEMMA ProvisionedKey ==
    ASSUME TypeOK, RestInPlace, pc = "keys", k <= Len(User.keys)
    PROVE  <<User.name, Key>> \in keys
<1>1. i \in 1..Len(cfg.users)
  BY ConfigTyped DEF TypeOK
<1>2. k \in 1..Len(User.keys)
  BY <1>1, UserTyped DEF User, TypeOK
<1> QED BY <1>1, <1>2, ProvisionedUser DEF User, Key

\* A step of WriteFile, one that fails included: it writes the path of the
\* entry it is at, unless the path is as the entry asks for.
FileStep ==
    /\ i \in 1..Len(cfg.files)
    /\ \E b : files' = [files EXCEPT ![Entry.path] = b]
    /\ files[Entry.path] = Entry.body => files' = files
    /\ UNCHANGED <<cfg, durable, accounts, member, keys, pkgs>>

\* No step, of a replay or any other, changes anything but a file of a host
\* on which the rest is in place.
LEMMA RestStep ==
    ASSUME TypeOK, RestInPlace, [Next]_vars
    PROVE  FileStep \/ UNCHANGED <<cfg, host>>
<1>1. CASE Boot \/ RunByHand \/ LoseSentinel
  BY <1>1 DEF Boot, RunByHand, LoseSentinel, host
<1>2. CASE CheckSentinel \/ Load \/ KeepHostname
  BY <1>2 DEF CheckSentinel, Load, KeepHostname, Goto, host
<1>3. CASE SetHostname
  BY <1>3 DEF SetHostname, SetsHostname, Goto, RestInPlace, HostnameKept, host
<1>4. CASE WriteFile
  <2>1. i \in 1..Len(cfg.files)
    BY <1>4, ConfigTyped DEF WriteFile, TypeOK
  <2>2. files[Entry.path] = Entry.body => files' = files
    BY <1>4 DEF WriteFile, TypeOK
  <2> QED BY <1>4, <2>1, <2>2 DEF WriteFile, FileStep
<1>5. CASE WriteFileUnknownOwner \/ FilesDone \/ UsersDone \/ KeysDone
  BY <1>5 DEF WriteFileUnknownOwner, FilesDone, UsersDone, KeysDone, Goto, host
<1>6. CASE CreateUser
  <2>1. i \in 1..Len(cfg.users)
    BY <1>6, ConfigTyped DEF CreateUser, TypeOK
  <2> QED BY <1>6, <2>1, ProvisionedUser DEF CreateUser, User
<1>7. CASE AddUserToGroups
  <2>1. i \in 1..Len(cfg.users)
    BY <1>7, ConfigTyped DEF AddUserToGroups, TypeOK
  <2>2. Pairs(User.name, GroupsOf(User)) \subseteq member
    BY <2>1, ProvisionedUser DEF User
  <2> QED BY <1>7, <2>2 DEF AddUserToGroups, host
<1>8. CASE AddAuthorizedKey
  <2>1. <<User.name, Key>> \in keys
    BY <1>8, ProvisionedKey DEF AddAuthorizedKey
  <2> QED BY <1>8, <2>1 DEF AddAuthorizedKey, host
<1>9. CASE PackageInstall
  BY <1>9 DEF PackageInstall, Goto, RestInPlace, host
<1>10. CASE RunShell \/ RunCmdsDone \/ WriteSentinel
  BY <1>10 DEF RunShell, RunCmdsDone, WriteSentinel, Goto, host
<1>11. CASE Interrupt
  <2>1. cfg' = cfg
    BY <1>11 DEF Interrupt
  <2>2. CASE UnfinishedHostname
    BY <2>2 DEF UnfinishedHostname, SetsHostname, RestInPlace, HostnameKept
  <2>3. CASE UnfinishedFile
    <3>1. i \in 1..Len(cfg.files)
      BY <2>3, ConfigTyped DEF UnfinishedFile, TypeOK
    <3> QED BY <2>1, <2>3, <3>1 DEF UnfinishedFile, FileStep
  <2>4. CASE UnfinishedUser
    <3>1. i \in 1..Len(cfg.users)
      BY <2>4, ConfigTyped DEF UnfinishedUser, TypeOK
    <3>2. accounts' = accounts /\ member' = member
      BY <2>4, <3>1, ProvisionedUser DEF UnfinishedUser, User
    <3> QED BY <2>1, <2>4, <3>2 DEF UnfinishedUser, host
  <2>5. CASE UnfinishedKey
    BY <2>5, ProvisionedKey DEF UnfinishedKey
  <2>6. CASE UnfinishedPackages
    BY <2>1, <2>6 DEF UnfinishedPackages, RestInPlace, host
  <2>7. CASE UnfinishedCommand \/ UnfinishedSentinel
             \/ UNCHANGED <<host, ran, sentinel>>
    BY <2>1, <2>7 DEF UnfinishedCommand, UnfinishedSentinel
  <2> QED BY <1>11, <2>2, <2>3, <2>4, <2>5, <2>6, <2>7 DEF Interrupt, Unfinished
<1>12. CASE UNCHANGED vars
  BY <1>12 DEF vars, host
<1> QED
  BY <1>1, <1>2, <1>3, <1>4, <1>5, <1>6, <1>7, <1>8, <1>9, <1>10, <1>11, <1>12
     DEF Next, Step

\* The rest stays in place.
LEMMA RestKept ==
    ASSUME TypeOK, RestInPlace, [Next]_vars
    PROVE  RestInPlace'
<1>1. CASE UNCHANGED <<cfg, host>>
  BY <1>1 DEF RestInPlace, HostnameKept, Overridden, UsersReady, AccountReady,
     KeysPresent, host
<1>2. CASE FileStep
  <2>1. HostnameKept' /\ UsersReady(Len(cfg.users))' /\ (cfg.packages \subseteq pkgs)'
    BY <1>2 DEF FileStep, RestInPlace, HostnameKept, UsersReady, AccountReady,
       KeysPresent
  <2>2. ASSUME NEW m \in 1..Len(cfg.files), ~Overridden(cfg.files[m].path)
        PROVE  files'[cfg.files[m].path] = cfg.files[m].body
    <3>1. files[cfg.files[m].path] = cfg.files[m].body /\ OnlyWriter(m)
      BY <2>2, WrittenOnce DEF RestInPlace
    <3>2. CASE i = m
      BY <1>2, <3>1, <3>2 DEF FileStep, Entry
    <3>3. CASE i # m
      <4>1. cfg.files[m].path # Entry.path
        BY <1>2, <3>1, <3>3 DEF FileStep, OnlyWriter, Entry
      <4>2. cfg.files[m].path \in Paths
        BY EntryTyped
      <4> QED BY <1>2, <3>1, <4>1, <4>2 DEF FileStep, TypeOK
    <3> QED BY <3>2, <3>3
  <2>3. cfg' = cfg
    BY <1>2 DEF FileStep
  <2> QED BY <2>1, <2>2, <2>3 DEF RestInPlace, Overridden
<1> QED BY <1>1, <1>2, RestStep

\* No step changes anything but an overridden path of such a host.
LEMMA ReplayStep ==
    ASSUME TypeOK, RestInPlace, [Next]_vars
    PROVE  /\ UNCHANGED <<cfg, durable, accounts, member, keys, pkgs>>
           /\ \A p \in Paths : ~Overridden(p) => files'[p] = files[p]
<1>1. CASE UNCHANGED <<cfg, host>>
  BY <1>1 DEF host
<1>2. CASE FileStep
  <2>1. ASSUME NEW p \in Paths, ~Overridden(p) PROVE files'[p] = files[p]
    <3>1. CASE p = Entry.path
      <4>1. files[Entry.path] = Entry.body
        BY <1>2, <2>1, <3>1 DEF FileStep, Entry, RestInPlace
      <4> QED BY <1>2, <4>1 DEF FileStep
    <3>2. CASE p # Entry.path
      BY <1>2, <3>2 DEF FileStep, TypeOK
    <3> QED BY <3>1, <3>2
  <2> QED BY <1>2, <2>1 DEF FileStep
<1> QED BY <1>1, <1>2, RestStep

-----------------------------------------------------------------------------
(* The host name: durable first, live second.                              *)

LEMMA HostnameStep ==
    ASSUME NoTransientTarget, TypeOK, LiveNameIsDurable, WalkHostname,
           [Next]_vars
    PROVE  LiveNameIsDurable' /\ WalkHostname'
<1> USE DEF LiveNameIsDurable, WalkHostname, HostnameKept, AfterHostname
<1>1. CASE Boot
  BY <1>1 DEF Boot, NoTransientTarget, TypeOK, host
<1>2. CASE RunByHand \/ LoseSentinel \/ CheckSentinel \/ Load
  BY <1>2 DEF RunByHand, LoseSentinel, CheckSentinel, Load, host
<1>3. CASE KeepHostname
  BY <1>3 DEF KeepHostname, SetsHostname, Goto, host
<1>4. CASE SetHostname
  BY <1>4 DEF SetHostname, SetsHostname, Goto
<1>5. CASE WriteFile \/ CreateUser \/ AddUserToGroups \/ AddAuthorizedKey
  BY <1>5 DEF WriteFile, CreateUser, AddUserToGroups, AddAuthorizedKey
<1>6. CASE WriteFileUnknownOwner \/ FilesDone \/ KeysDone \/ UsersDone
  BY <1>6 DEF WriteFileUnknownOwner, FilesDone, KeysDone, UsersDone, Goto, host
<1>7. CASE PackageInstall \/ RunShell \/ RunCmdsDone \/ WriteSentinel
  BY <1>7 DEF PackageInstall, RunShell, RunCmdsDone, WriteSentinel, Goto, host
<1>8. CASE Interrupt
  <2>1. pc' = "idle" /\ cfg' = cfg /\ live' = live
    BY <1>8 DEF Interrupt
  <2>2. CASE UnfinishedHostname
    BY <2>1, <2>2 DEF UnfinishedHostname, SetsHostname
  <2>3. CASE ~UnfinishedHostname
    <3>1. durable' = durable
      BY <1>8, <2>3 DEF Interrupt, Unfinished, UnfinishedFile, UnfinishedUser,
         UnfinishedKey, UnfinishedPackages, UnfinishedCommand,
         UnfinishedSentinel, host
    <3> QED BY <2>1, <3>1
  <2> QED BY <2>2, <2>3
<1>9. CASE UNCHANGED vars
  BY <1>9 DEF vars
<1> QED
  BY <1>1, <1>2, <1>3, <1>4, <1>5, <1>6, <1>7, <1>8, <1>9 DEF Next, Step

-----------------------------------------------------------------------------
(* The files: one more entry is in place after each WriteFile, and nothing  *)
(* of a running attempt touches them afterwards.                            *)

LEMMA FilesFrame ==
    ASSUME files' = files, cfg' = cfg, NEW n
    PROVE  FilesLanded(n) => FilesLanded(n)'
BY DEF FilesLanded

LEMMA FilesStep ==
    ASSUME TypeOK, WalkFiles, [Next]_vars
    PROVE  WalkFiles'
<1> USE DEF WalkFiles, AfterFiles
<1>0. Len(cfg.files) \in Nat
  BY ConfigTyped
<1>1. CASE Boot \/ RunByHand \/ LoseSentinel \/ CheckSentinel \/ Load
  BY <1>1 DEF Boot, RunByHand, LoseSentinel, CheckSentinel, Load
<1>2. CASE KeepHostname \/ SetHostname
  <2>1. pc' = "files" /\ i' = 1 /\ cfg' = cfg
    BY <1>2 DEF KeepHostname, SetHostname, Goto
  <2>2. FilesLanded(0)'
    BY DEF FilesLanded
  <2> QED BY <1>0, <2>1, <2>2
<1>3. CASE WriteFile
  <2>1. /\ pc = "files" /\ pc' = pc /\ cfg' = cfg /\ i' = i + 1
        /\ files' = [files EXCEPT ![Entry.path] = Entry.body]
    BY <1>3 DEF WriteFile
  <2>2. i \in 1..Len(cfg.files)
    BY <1>0, <1>3 DEF WriteFile, TypeOK
  <2>3. ASSUME NEW m \in 1..i,
               \A l \in (m + 1)..i : cfg.files[l].path # cfg.files[m].path
        PROVE  files'[cfg.files[m].path] = cfg.files[m].body
    <3>1. cfg.files[m].path \in Paths /\ cfg.files[m].body \in Bodies
      BY <1>0, <2>2, EntryTyped
    <3>2. CASE m = i
      BY <2>1, <3>1, <3>2 DEF Entry, TypeOK
    <3>3. CASE m # i
      <4>1. m \in 1..(i - 1) /\ i \in (m + 1)..i
        BY <2>2, <3>3
      <4>2. files[cfg.files[m].path] = cfg.files[m].body
        <5>1. FilesLanded(i - 1)
          BY <2>1
        <5>2. \A l \in (m + 1)..(i - 1) : cfg.files[l].path # cfg.files[m].path
          BY <2>2, <2>3
        <5> QED BY <4>1, <5>1, <5>2 DEF FilesLanded
      <4>3. cfg.files[m].path # Entry.path
        BY <2>3, <4>1 DEF Entry
      <4> QED BY <2>1, <3>1, <4>2, <4>3 DEF TypeOK
    <3> QED BY <3>2, <3>3
  <2>4. \A m \in 1..i :
          (\A l \in (m + 1)..i : cfg'.files[l].path # cfg'.files[m].path)
              => files'[cfg'.files[m].path] = cfg'.files[m].body
    BY <2>1, <2>3
  <2>5. FilesLanded(i - 1)'
    <3>1. i' - 1 = i
      BY <2>1, <2>2
    <3> QED BY <2>4, <3>1 DEF FilesLanded
  <2>6. i' \in 1..(Len(cfg'.files) + 1)
    BY <1>0, <2>1, <2>2
  <2> QED BY <2>1, <2>5, <2>6
<1>4. CASE WriteFileUnknownOwner \/ Interrupt
  BY <1>4 DEF WriteFileUnknownOwner, Interrupt
<1>5. CASE FilesDone
  <2>1. i - 1 = Len(cfg.files)
    BY <1>0, <1>5 DEF FilesDone
  <2> QED BY <1>5, <2>1, FilesFrame DEF FilesDone, Goto, host
<1>6. CASE CreateUser \/ AddUserToGroups \/ AddAuthorizedKey \/ KeysDone
  BY <1>6, FilesFrame
     DEF CreateUser, AddUserToGroups, AddAuthorizedKey, KeysDone, host
<1>7. CASE UsersDone \/ PackageInstall \/ RunShell \/ RunCmdsDone
  BY <1>7, FilesFrame
     DEF UsersDone, PackageInstall, RunShell, RunCmdsDone, Goto, host
<1>8. CASE WriteSentinel
  BY <1>8 DEF WriteSentinel
<1>9. CASE UNCHANGED vars
  BY <1>9, FilesFrame DEF vars
<1> QED
  BY <1>1, <1>2, <1>3, <1>4, <1>5, <1>6, <1>7, <1>8, <1>9 DEF Next, Step

-----------------------------------------------------------------------------
(* The users: account and groups first, then one key after the other.  A    *)
(* running attempt only ever adds to what an account has.                   *)

LEMMA UsersFrame ==
    ASSUME cfg' = cfg, accounts \subseteq accounts', member \subseteq member',
           keys \subseteq keys'
    PROVE  /\ \A n : UsersReady(n) => UsersReady(n)'
           /\ \A u : AccountReady(u) => AccountReady(u)'
           /\ \A u, n : KeysPresent(u, n) => KeysPresent(u, n)'
BY DEF UsersReady, AccountReady, KeysPresent, Pairs, GroupsOf

LEMMA UsersStep ==
    ASSUME TypeOK, WalkUsers, [Next]_vars
    PROVE  WalkUsers'
<1> USE DEF AfterUsers
<1>0. Len(cfg.users) \in Nat
  BY ConfigTyped
<1>1. CASE pc' \notin {"users", "keys"} \cup AfterUsers
  BY <1>1 DEF WalkUsers
<1>2. CASE FilesDone
  <2>1. pc' = "users" /\ i' = 1 /\ cfg' = cfg
    BY <1>2 DEF FilesDone, Goto
  <2>2. UsersReady(i - 1)'
    BY <2>1 DEF UsersReady
  <2> QED BY <1>0, <2>1, <2>2 DEF WalkUsers
<1>3. CASE CreateUser \/ AddUserToGroups
  <2>1. /\ pc = "users" /\ pc' = "keys" /\ cfg' = cfg /\ i' = i /\ k' = 1
        /\ keys' = keys
        /\ accounts \subseteq accounts' /\ member \subseteq member'
        /\ User.name \in accounts'
        /\ Pairs(User.name, GroupsOf(User)) \subseteq member'
    BY <1>3 DEF CreateUser, AddUserToGroups
  <2>2. i \in 1..Len(cfg.users) /\ UsersReady(i - 1)
    BY <1>0, <1>3, <2>1 DEF CreateUser, AddUserToGroups, WalkUsers
  <2>3. Len(User.keys) \in Nat
    BY <2>2, UserTyped DEF User
  <2>4. UsersReady(i - 1)'
    BY <2>1, <2>2, UsersFrame
  <2>5. User' = User
    BY <2>1 DEF User
  <2>6. AccountReady(User)'
    BY <2>1, <2>5 DEF AccountReady, Pairs, GroupsOf
  <2>7. KeysPresent(User, k - 1)'
    BY <2>1 DEF KeysPresent
  <2> QED BY <1>0, <2>1, <2>2, <2>3, <2>4, <2>5, <2>6, <2>7 DEF WalkUsers
<1>4. CASE AddAuthorizedKey
  <2>1. /\ pc = "keys" /\ pc' = pc /\ cfg' = cfg /\ i' = i /\ k' = k + 1
        /\ k <= Len(User.keys)
        /\ keys' = keys \cup {<<User.name, Key>>}
        /\ accounts' = accounts /\ member' = member
    BY <1>4 DEF AddAuthorizedKey
  <2>2. /\ i \in 1..Len(cfg.users) /\ UsersReady(i - 1)
        /\ AccountReady(User) /\ k \in Nat \ {0} /\ KeysPresent(User, k - 1)
    BY <1>0, <2>1 DEF WalkUsers, TypeOK
  <2>3. Len(User.keys) \in Nat
    BY <2>2, UserTyped DEF User
  <2>4. User' = User
    BY <2>1 DEF User
  <2>5. UsersReady(i - 1)' /\ AccountReady(User)'
    BY <2>1, <2>2, <2>4, UsersFrame
  <2>6. \A j \in 1..k : <<User.name, User.keys[j]>> \in keys'
    BY <2>1, <2>2 DEF KeysPresent, Key
  <2>7. KeysPresent(User, k - 1)'
    <3>1. k' - 1 = k
      BY <2>1, <2>2
    <3> QED BY <2>4, <2>6, <3>1 DEF KeysPresent
  <2> QED BY <1>0, <2>1, <2>2, <2>3, <2>4, <2>5, <2>7 DEF WalkUsers
<1>5. CASE KeysDone
  <2>1. /\ pc = "keys" /\ pc' = "users" /\ cfg' = cfg /\ i' = i + 1
        /\ k > Len(User.keys)
        /\ accounts' = accounts /\ member' = member /\ keys' = keys
    BY <1>5 DEF KeysDone, host
  <2>2. /\ i \in 1..Len(cfg.users) /\ UsersReady(i - 1) /\ AccountReady(User)
        /\ k \in 1..(Len(User.keys) + 1) /\ KeysPresent(User, k - 1)
    BY <1>0, <2>1 DEF WalkUsers
  <2>3. KeysPresent(User, Len(User.keys))
    <3>1. Len(User.keys) \in Nat
      BY <2>2, UserTyped DEF User
    <3>2. k - 1 = Len(User.keys)
      BY <2>1, <2>2, <3>1
    <3> QED BY <2>2, <3>2
  <2>4. UsersReady(i)
    BY <2>2, <2>3 DEF UsersReady, User
  <2>5. UsersReady(i - 1)'
    <3>1. i' - 1 = i
      BY <2>1, <2>2
    <3> QED BY <2>1, <2>4, <3>1, UsersFrame
  <2> QED BY <1>0, <2>1, <2>2, <2>5 DEF WalkUsers
<1>6. CASE WriteFile
  BY <1>6 DEF WriteFile, WalkUsers
<1>7. CASE UsersDone
  <2>1. UsersReady(Len(cfg.users))
    <3>1. i - 1 = Len(cfg.users)
      BY <1>0, <1>7 DEF UsersDone, WalkUsers
    <3> QED BY <1>7, <3>1 DEF UsersDone, WalkUsers
  <2> QED BY <1>7, <2>1, UsersFrame DEF UsersDone, Goto, WalkUsers, host
<1>8. CASE PackageInstall \/ RunShell \/ RunCmdsDone
  BY <1>8, UsersFrame
     DEF PackageInstall, RunShell, RunCmdsDone, Goto, WalkUsers, host
<1>9. CASE UNCHANGED vars
  <2>1. User' = User
    BY <1>9 DEF vars, User
  <2>2. \A n : KeysPresent(User, n) => KeysPresent(User, n)'
    BY <1>9, <2>1, UsersFrame DEF vars
  <2>3. AccountReady(User) => AccountReady(User)'
    BY <1>9, <2>1, UsersFrame DEF vars
  <2> QED BY <1>9, <2>1, <2>2, <2>3, UsersFrame DEF vars, WalkUsers
<1> QED
  <2>1. CASE Boot \/ RunByHand \/ LoseSentinel \/ CheckSentinel \/ Load
    BY <1>1, <2>1 DEF Boot, RunByHand, LoseSentinel, CheckSentinel, Load
  <2>2. CASE KeepHostname \/ SetHostname \/ WriteFileUnknownOwner
              \/ WriteSentinel \/ Interrupt
    BY <1>1, <2>2 DEF KeepHostname, SetHostname, WriteFileUnknownOwner,
       WriteSentinel, Interrupt, Goto
  <2> QED BY <1>2, <1>3, <1>4, <1>5, <1>6, <1>7, <1>8, <1>9, <2>1, <2>2
          DEF Next, Step

-----------------------------------------------------------------------------
(* The packages, and with them the whole of the walk.                      *)

LEMMA PackagesStep ==
    ASSUME TypeOK, WalkPackages, [Next]_vars
    PROVE  WalkPackages'
<1> USE DEF WalkPackages, AfterPackages
<1>1. CASE PackageInstall
  BY <1>1 DEF PackageInstall, Goto
<1>2. CASE RunShell \/ RunCmdsDone
  BY <1>2 DEF RunShell, RunCmdsDone, Goto, host
<1>3. CASE Boot \/ RunByHand \/ LoseSentinel \/ CheckSentinel \/ Load
  BY <1>3 DEF Boot, RunByHand, LoseSentinel, CheckSentinel, Load
<1>4. CASE KeepHostname \/ SetHostname \/ WriteFile \/ WriteFileUnknownOwner
            \/ FilesDone
  BY <1>4 DEF KeepHostname, SetHostname, WriteFile, WriteFileUnknownOwner,
     FilesDone, Goto
<1>5. CASE CreateUser \/ AddUserToGroups \/ AddAuthorizedKey \/ KeysDone
            \/ UsersDone
  BY <1>5 DEF CreateUser, AddUserToGroups, AddAuthorizedKey, KeysDone,
     UsersDone, Goto
<1>6. CASE WriteSentinel \/ Interrupt
  BY <1>6 DEF WriteSentinel, Interrupt
<1>7. CASE UNCHANGED vars
  BY <1>7 DEF vars
<1> QED BY <1>1, <1>2, <1>3, <1>4, <1>5, <1>6, <1>7 DEF Next, Step

LEMMA WalkStep ==
    ASSUME NoTransientTarget, TypeOK, LiveNameIsDurable, Walk, [Next]_vars
    PROVE  LiveNameIsDurable' /\ Walk'
BY HostnameStep, FilesStep, UsersStep, PackagesStep DEF Walk

\* At the commands and at the marker the walk has everything behind it.
LEMMA WalkComplete ==
    ASSUME Walk, pc \in AfterPackages
    PROVE  Provisioned /\ (cfg.hostname # NoName => live = cfg.hostname)
BY DEF Walk, WalkHostname, WalkFiles, WalkUsers, WalkPackages, AfterPackages,
   AfterHostname, AfterFiles, AfterUsers, Provisioned

LEMMA WalkInit ==
    ASSUME NoTransientTarget, Init
    PROVE  LiveNameIsDurable /\ Walk /\ SentinelMeansProvisioned
BY DEF Init, NoTransientTarget, LiveNameIsDurable, Walk, WalkHostname,
   WalkFiles, WalkUsers, WalkPackages, AfterHostname, AfterFiles, AfterUsers,
   AfterPackages, SentinelMeansProvisioned

WalkInv == TypeOK /\ LiveNameIsDurable /\ Walk

LEMMA WalkInvariant ==
    ASSUME NoTransientTarget
    PROVE  Spec => []WalkInv
<1>1. Init => WalkInv
  BY TypeInit, WalkInit DEF WalkInv
<1>2. WalkInv /\ [Next]_vars => WalkInv'
  BY TypeStep, WalkStep DEF WalkInv
<1> QED BY <1>1, <1>2, PTL DEF Spec

\* The kernel never bears the requested name while the durable configuration
\* does not: SetHostname makes it durable first.  The network must not hand
\* out the requested name itself.
THEOREM HostnameSafe ==
    ASSUME NoTransientTarget
    PROVE  Spec => []LiveNameIsDurable
<1>1. WalkInv => LiveNameIsDurable
  BY DEF WalkInv
<1> QED BY <1>1, WalkInvariant, PTL

\* The commands of runcmd start on a host where all the rest is in place.
THEOREM CommandsSafe ==
    ASSUME NoTransientTarget
    PROVE  Spec => []CommandsSeeProvisionedHost
<1>1. WalkInv => CommandsSeeProvisionedHost
  BY WalkComplete DEF WalkInv, CommandsSeeProvisionedHost, AfterPackages
<1> QED BY <1>1, WalkInvariant, PTL

-----------------------------------------------------------------------------
(* The marker.                                                              *)

LEMMA ProvisionedFrame ==
    ASSUME Provisioned, UNCHANGED <<cfg, host>>
    PROVE  Provisioned'
<1>1. UsersReady(Len(cfg.users))'
  BY UsersFrame DEF host, Provisioned
<1>2. FilesLanded(Len(cfg.files))'
  BY FilesFrame DEF host, Provisioned
<1> QED BY <1>1, <1>2 DEF host, Provisioned, HostnameKept

\* Only the last stage of the walk sets the marker.
LEMMA MarkStep ==
    ASSUME [Next]_vars, ~sentinel, sentinel'
    PROVE  pc = "sentinel" /\ UNCHANGED <<cfg, host>>
<1>1. CASE WriteSentinel
  BY <1>1 DEF WriteSentinel
<1>2. CASE Interrupt
  BY <1>2 DEF Interrupt, Unfinished, UnfinishedHostname, UnfinishedFile,
     UnfinishedUser, UnfinishedKey, UnfinishedPackages, UnfinishedCommand,
     UnfinishedSentinel
<1>3. CASE Boot \/ RunByHand \/ LoseSentinel \/ CheckSentinel \/ Load
            \/ UNCHANGED vars
  BY <1>3 DEF Boot, RunByHand, LoseSentinel, CheckSentinel, Load, vars
<1>4. CASE KeepHostname \/ SetHostname \/ WriteFile \/ WriteFileUnknownOwner
            \/ FilesDone \/ CreateUser \/ AddUserToGroups
  BY <1>4 DEF KeepHostname, SetHostname, WriteFile, WriteFileUnknownOwner,
     FilesDone, CreateUser, AddUserToGroups, Goto
<1>5. CASE AddAuthorizedKey \/ KeysDone \/ UsersDone \/ PackageInstall
            \/ RunShell \/ RunCmdsDone
  BY <1>5 DEF AddAuthorizedKey, KeysDone, UsersDone, PackageInstall,
     RunShell, RunCmdsDone, Goto
<1> QED BY <1>1, <1>2, <1>3, <1>4, <1>5 DEF Next, Step

\* The marker is found on hosts only that lack nothing, but for the last content
\* of a path that the config writes twice: a forced run undoes it for a while.
THEOREM MarkedRestSafe ==
    ASSUME NoTransientTarget
    PROVE  Spec => []MarkedHostKeepsTheRest
<1>1. Init => WalkInv /\ MarkedHostKeepsTheRest
  BY TypeInit, WalkInit DEF WalkInv, MarkedHostKeepsTheRest, Init
<1>2. WalkInv /\ MarkedHostKeepsTheRest /\ [Next]_vars
          => WalkInv' /\ MarkedHostKeepsTheRest'
  <2> SUFFICES ASSUME WalkInv, MarkedHostKeepsTheRest, [Next]_vars
               PROVE  WalkInv' /\ MarkedHostKeepsTheRest'
    OBVIOUS
  <2>1. TypeOK /\ WalkInv'
    BY TypeStep, WalkStep DEF WalkInv
  <2>2. CASE sentinel
    BY <2>1, <2>2, RestKept DEF MarkedHostKeepsTheRest
  <2>3. CASE ~sentinel /\ sentinel'
    <3>1. Provisioned
      BY <2>3, MarkStep, WalkComplete DEF WalkInv, AfterPackages
    <3>2. RestInPlace
      BY <2>1, <3>1, ProvisionedRest
    <3> QED BY <2>1, <3>2, RestKept DEF MarkedHostKeepsTheRest
  <2>4. CASE ~sentinel'
    BY <2>1, <2>4 DEF MarkedHostKeepsTheRest
  <2> QED BY <2>1, <2>2, <2>3, <2>4
<1> QED BY <1>1, <1>2, PTL DEF Spec

\* Where no path is written twice, that is a complete host.
LEMMA RestIsAll ==
    ASSUME TypeOK, DistinctPaths(cfg), RestInPlace
    PROVE  Provisioned
<1>1. \A m \in 1..Len(cfg.files) : ~Overridden(cfg.files[m].path)
  BY DEF DistinctPaths, Overridden
<1> QED BY <1>1 DEF Provisioned, FilesLanded, RestInPlace

Inv == WalkInv /\ MarkedHostKeepsTheRest

LEMMA Invariant ==
    ASSUME NoTransientTarget
    PROVE  Spec => []Inv
BY WalkInvariant, MarkedRestSafe, PTL DEF Inv

\* The marker is found on complete hosts only, after any crash or failure.
THEOREM MarkerSafe ==
    ASSUME NoTransientTarget
    PROVE  Spec => []SentinelMeansProvisioned
<1>1. Inv => SentinelMeansProvisioned
  BY RestIsAll DEF Inv, WalkInv, MarkedHostKeepsTheRest, SentinelMeansProvisioned
<1> QED BY <1>1, Invariant, PTL

\* Replaying a config on a host where it is in place changes nothing but a path
\* that the config writes twice.
THEOREM ReplaySafe == Spec => ReplayIsNoOp
<1>1. TypeOK /\ [Next]_vars =>
        [RestInPlace =>
            /\ UNCHANGED <<durable, accounts, member, keys, pkgs>>
            /\ \A p \in Paths : ~Overridden(p) => files'[p] = files[p]]_vars
  BY ReplayStep
<1> QED BY <1>1, TypeCorrect, PTL DEF Spec, ReplayIsNoOp

-----------------------------------------------------------------------------
(* The program keeps the promise stated in Provision.                      *)

LEMMA ProvisionInit == Init => P!Init
<1>1. RestInPlace \in BOOLEAN
  BY DEF RestInPlace
<1> QED BY <1>1 DEF Init, P!Init

LEMMA ProvisionStep ==
    ASSUME NoTransientTarget, Inv, [Next]_vars
    PROVE  [P!Next]_(P!vars)
<1> USE DEF Inv, WalkInv
<1>1. sentinel \in BOOLEAN /\ sentinel' \in BOOLEAN
  BY TypeStep DEF TypeOK
<1>2. CASE RestInPlace
  <2>1. RestInPlace'
    BY <1>2, RestKept
  <2>2. CASE sentinel'
    BY <1>1, <1>2, <2>1, <2>2 DEF P!Next, P!Mark
  <2>3. CASE ~sentinel'
    BY <1>1, <1>2, <2>1, <2>3 DEF P!Next, P!LoseMark
  <2> QED BY <2>2, <2>3
<1>3. CASE ~RestInPlace
  <2>1. ~sentinel
    BY <1>3 DEF MarkedHostKeepsTheRest
  <2>2. ~sentinel'
    BY <1>3, <2>1, MarkStep, WalkComplete, ProvisionedRest DEF AfterPackages
  <2>3. sentinel' = sentinel
    BY <1>1, <2>1, <2>2
  <2>4. CASE RestInPlace'
    BY <1>3, <2>3, <2>4 DEF P!Next, P!Complete
  <2>5. CASE ~RestInPlace'
    <3>1. RestInPlace \in BOOLEAN /\ RestInPlace' \in BOOLEAN
      BY DEF RestInPlace
    <3> QED BY <1>3, <2>3, <2>5, <3>1 DEF P!vars
  <2> QED BY <2>4, <2>5
<1> QED BY <1>2, <1>3

\* FirstBoot implements Provision: what is in place stays in place, and only a
\* host on which it is gets marked.
THEOREM Implementation ==
    ASSUME NoTransientTarget
    PROVE  Spec => ImplementsProvision
<1>1. Inv /\ [Next]_vars => [P!Next]_(P!vars)
  BY ProvisionStep
<1> QED BY <1>1, ProvisionInit, Invariant, PTL
        DEF Spec, ImplementsProvision, P!Spec

-----------------------------------------------------------------------------
(* Which runs may change the host.                                         *)

Licensed == flags.force \/ ~sentinel \/ flags.blind

Licence ==
    /\ pc \in ApplyStages \cup {"load"} => Licensed
    /\ pc \in ApplyStages => ~flags.dryRun

LEMMA LicenceStep ==
    ASSUME TypeOK, Licence, [Next]_vars
    PROVE  Licence'
<1> USE DEF Licence, Licensed, ApplyStages
<1>1. CASE CheckSentinel
  <2>1. CASE flags' = flags /\ pc' = IF ~flags.force /\ sentinel THEN "idle" ELSE "load"
    BY <1>1, <2>1 DEF CheckSentinel
  <2>2. CASE pc' = "load" /\ flags' = [flags EXCEPT !.blind = TRUE]
    BY <1>1, <2>2 DEF CheckSentinel, TypeOK
  <2> QED BY <1>1, <2>1, <2>2, Zenon DEF CheckSentinel
<1>2. CASE Load
  BY <1>2 DEF Load
<1>3. CASE pc \in ApplyStages /\ pc' \in ApplyStages /\ flags' = flags
           /\ sentinel' = sentinel
  BY <1>3
<1>4. CASE pc' \in {"idle", "start"}
  BY <1>4
<1>5. CASE UNCHANGED vars
  BY <1>5 DEF vars
<1> QED
  <2>1. CASE Boot \/ RunByHand \/ LoseSentinel \/ WriteFileUnknownOwner
              \/ WriteSentinel \/ Interrupt
    BY <1>4, <2>1 DEF Boot, RunByHand, LoseSentinel, WriteFileUnknownOwner,
       WriteSentinel, Interrupt
  <2>2. CASE KeepHostname \/ SetHostname \/ WriteFile \/ FilesDone
              \/ CreateUser \/ AddUserToGroups
    BY <1>3, <2>2 DEF KeepHostname, SetHostname, WriteFile, FilesDone,
       CreateUser, AddUserToGroups, Goto
  <2>3. CASE AddAuthorizedKey \/ KeysDone \/ UsersDone \/ PackageInstall
              \/ RunShell \/ RunCmdsDone
    BY <1>3, <2>3 DEF AddAuthorizedKey, KeysDone, UsersDone, PackageInstall,
       RunShell, RunCmdsDone, Goto
  <2> QED BY <1>1, <1>2, <1>5, <2>1, <2>2, <2>3 DEF Next, Step

\* Outside the walk of Apply nothing changes the host.
LEMMA OutsideStep ==
    ASSUME pc \notin ApplyStages, [Next]_vars
    PROVE  UNCHANGED <<host, ran>>
<1> USE DEF ApplyStages
<1>1. CASE Boot \/ RunByHand \/ LoseSentinel \/ CheckSentinel \/ Load
            \/ UNCHANGED vars
  BY <1>1 DEF Boot, RunByHand, LoseSentinel, CheckSentinel, Load, vars, host
<1>2. CASE Interrupt
  BY <1>2 DEF Interrupt, Unfinished, UnfinishedHostname, UnfinishedFile,
     UnfinishedUser, UnfinishedKey, UnfinishedPackages, UnfinishedCommand,
     UnfinishedSentinel
<1>3. CASE Step /\ ~CheckSentinel /\ ~Load
  BY <1>3 DEF Step, KeepHostname, SetHostname, WriteFile,
     WriteFileUnknownOwner, FilesDone, CreateUser, AddUserToGroups,
     AddAuthorizedKey, KeysDone, UsersDone, PackageInstall, RunShell,
     RunCmdsDone, WriteSentinel
<1> QED BY <1>1, <1>2, <1>3 DEF Next

\* Only an unmarked host or a forced run is changed, and never a dry run.
THEOREM LicenceSafe == Spec => OnlyLicensedRunsMutate
<1>1. Init => Licence
  BY DEF Init, Licence, ApplyStages
<1>2. TypeOK /\ Licence /\ [Next]_vars => Licence'
  BY LicenceStep
<1>3. Licence /\ [Next]_vars =>
        [<<host, ran>>' # <<host, ran>> =>
            ~flags.dryRun /\ (flags.force \/ ~sentinel \/ flags.blind)]_vars
  BY OutsideStep DEF Licence, Licensed
<1> QED BY <1>1, <1>2, <1>3, TypeCorrect, PTL DEF Spec, OnlyLicensedRunsMutate

-----------------------------------------------------------------------------
(* The order of the commands: those behind the walk are ahead of the rest.  *)

Times(m) == ran[cfg.runcmds[m]]
Indices == 1..Len(cfg.runcmds)

CommandOrder ==
    DistinctCommands =>
        \A m, n \in Indices :
            m < n => /\ Times(n) <= Times(m)
                     /\ pc = "runcmds" /\ m < i /\ i <= n =>
                           Times(n) < Times(m) \/ Times(m) = 2

LEMMA TimesTyped ==
    ASSUME TypeOK, NEW m \in Indices
    PROVE  Times(m) \in 0..2
BY CommandTyped DEF TypeOK, Times, Indices

\* One more run of the command the walk is at.
LEMMA CommandAgain ==
    ASSUME TypeOK, CommandOrder, DistinctCommands, pc = "runcmds",
           i \in Indices, cfg' = cfg,
           ran' = [ran EXCEPT ![cfg.runcmds[i]] = More(@)]
    PROVE  \A m, n \in Indices :
               m < n => /\ Times(n)' <= Times(m)'
                        /\ m < i + 1 /\ i + 1 <= n =>
                              Times(n)' < Times(m)' \/ Times(m)' = 2
<1>1. \A m \in Indices :
        /\ Times(m) \in 0..2
        /\ Times(m)' = IF m = i THEN More(Times(m)) ELSE Times(m)
  BY TimesTyped, CommandTyped DEF TypeOK, Times, Indices, DistinctCommands
<1> SUFFICES ASSUME NEW m \in Indices, NEW n \in Indices, m < n
             PROVE  /\ Times(n)' <= Times(m)'
                    /\ m < i + 1 /\ i + 1 <= n =>
                          Times(n)' < Times(m)' \/ Times(m)' = 2
  OBVIOUS
<1>2. /\ Times(n) <= Times(m)
      /\ m < i /\ i <= n => Times(n) < Times(m) \/ Times(m) = 2
  BY DEF CommandOrder
<1>3. m \in Int /\ n \in Int /\ i \in Int
  BY ConfigTyped DEF Indices
<1> QED BY <1>1, <1>2, <1>3 DEF More

LEMMA CommandStep ==
    ASSUME TypeOK, CommandOrder, [Next]_vars
    PROVE  CommandOrder'
<1>1. Len(cfg.runcmds) \in Nat /\ i \in Nat \ {0}
  BY ConfigTyped DEF TypeOK
<1>2. CASE cfg' = cfg /\ ran' = ran
           /\ (pc' = "runcmds" => i' = 1 \/ (pc = "runcmds" /\ i' = i))
  BY <1>1, <1>2 DEF CommandOrder, DistinctCommands, Times, Indices
<1>3. CASE RunShell
  <2>1. /\ i \in Indices /\ pc = "runcmds" /\ cfg' = cfg /\ i' = i + 1
        /\ ran' = [ran EXCEPT ![cfg.runcmds[i]] = More(@)]
    BY <1>1, <1>3 DEF RunShell, Indices
  <2>2. Indices' = Indices /\ DistinctCommands' = DistinctCommands
    BY <2>1 DEF Indices, DistinctCommands
  <2> QED BY <2>1, <2>2, CommandAgain DEF CommandOrder
<1>4. CASE Interrupt /\ UnfinishedCommand
  <2>1. /\ i \in Indices /\ pc = "runcmds" /\ cfg' = cfg /\ pc' = "idle"
        /\ ran' = [ran EXCEPT ![cfg.runcmds[i]] = More(@)]
    BY <1>1, <1>4 DEF Interrupt, UnfinishedCommand, Indices
  <2>2. Indices' = Indices /\ DistinctCommands' = DistinctCommands
    BY <2>1 DEF Indices, DistinctCommands
  <2> QED BY <2>1, <2>2, CommandAgain DEF CommandOrder
<1>5. CASE Interrupt /\ ~UnfinishedCommand
  <2>1. cfg' = cfg /\ ran' = ran /\ pc' = "idle"
    BY <1>5 DEF Interrupt, Unfinished, UnfinishedHostname, UnfinishedFile,
       UnfinishedUser, UnfinishedKey, UnfinishedPackages, UnfinishedSentinel
  <2> QED BY <1>2, <2>1
<1> QED
  <2>1. CASE Boot \/ RunByHand \/ LoseSentinel \/ CheckSentinel \/ Load
              \/ UNCHANGED vars
    BY <1>2, <2>1
       DEF Boot, RunByHand, LoseSentinel, CheckSentinel, Load, loop, vars
  <2>2. CASE KeepHostname \/ SetHostname \/ WriteFile \/ FilesDone
              \/ WriteFileUnknownOwner
    BY <1>2, <2>2 DEF KeepHostname, SetHostname, WriteFile, FilesDone,
       WriteFileUnknownOwner, Goto
  <2>3. CASE CreateUser \/ AddUserToGroups \/ AddAuthorizedKey \/ KeysDone
    BY <1>2, <2>3 DEF CreateUser, AddUserToGroups, AddAuthorizedKey, KeysDone
  <2>4. CASE UsersDone \/ PackageInstall \/ RunCmdsDone \/ WriteSentinel
    BY <1>2, <2>4
       DEF UsersDone, PackageInstall, RunCmdsDone, WriteSentinel, Goto
  <2> QED BY <1>3, <1>4, <1>5, <2>1, <2>2, <2>3, <2>4 DEF Next, Step

\* Over all attempts no command runs more often than one before it.
THEOREM CommandsOrdered == Spec => []CommandsRunInOrder
<1>1. Init => CommandOrder
  <2> SUFFICES ASSUME Init PROVE CommandOrder
    OBVIOUS
  <2>1. TypeOK
    BY TypeInit
  <2>2. \A m \in Indices : Times(m) = 0
    BY <2>1, CommandTyped DEF Init, Times, Indices
  <2> QED BY <2>2 DEF Init, CommandOrder
<1>2. TypeOK /\ CommandOrder /\ [Next]_vars => CommandOrder'
  BY CommandStep
<1>3. CommandOrder => CommandsRunInOrder
  BY DEF CommandOrder, CommandsRunInOrder, Times, Indices
<1> QED BY <1>1, <1>2, <1>3, TypeCorrect, PTL DEF Spec
=============================================================================
