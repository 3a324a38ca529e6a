----------------------------- MODULE UserAccount -----------------------------
(***************************************************************************)
(* What Apply does for one entry of users before its keys: UserExists, and *)
(* then CreateUser or AddUserToGroups, on the four operating systems, one  *)
(* command at a time and over repeated runs with the same entry.           *)
(*                                                                         *)
(* useradd, usermod, pw, groupadd, passwd, chpasswd and chpass belong to   *)
(* the system; they are taken to do what the code's comments say of them.  *)
(* An administrator may put the account into further groups meanwhile.     *)
(***************************************************************************)
EXTENDS Integers, Sequences, FiniteSets

CONSTANTS
    OSes,        \* the systems in scope
    Groups,      \* group names
    Primary,     \* the group useradd makes the account's primary one
    Requests,    \* entries of users: [groups, hash, shell]
    Hashes, NoHash,  \* crypt(3) hashes; none in the entry
    Locked,      \* a password field no password matches
    Shells,
    MaxFaults    \* bound: failed and killed commands, and acts of the admin

RequestType ==
    [groups : SUBSET (Groups \ {Primary}), hash : Hashes \cup {NoHash},
     shell : Shells]

ASSUME UserAccountAssumption ==
    /\ OSes \subseteq {"linux", "openbsd", "freebsd", "netbsd"}
    /\ Primary \in Groups
    /\ Requests \subseteq RequestType
    /\ {NoHash, Locked} \cap Hashes = {}
    /\ MaxFaults \in Nat

VARIABLES
    os, req,
    exists,   \* the account is in /etc/passwd
    shell,    \* its shell
    secret,   \* its password field
    groups,   \* groups of /etc/group
    member,   \* those the account is in
    current,  \* what id -Gn said to the running call
    pc,       \* where the call is
    reply,    \* "ok" or "err" once the entry is done, "none" otherwise
    before,   \* history: the account when the last run came to the entry
    faults

account == <<exists, shell, secret, member>>
vars == <<os, req, exists, shell, secret, groups, member, current, pc, reply,
          before, faults>>

Snapshot == [exists |-> exists, shell |-> shell, secret |-> secret,
             member |-> member]

\* groupadd runs for every group of the entry before anything else.
States ==
    {"idle", "createGroups", "useradd", "password",
     "reconcileGroups", "id", "usermod"}

TypeOK ==
    /\ os \in OSes
    /\ req \in Requests
    /\ exists \in BOOLEAN
    /\ shell \in Shells
    /\ secret \in Hashes \cup {Locked}
    /\ groups \subseteq Groups /\ member \subseteq groups
    /\ ~exists => member = {}
    /\ current \subseteq Groups
    /\ pc \in States
    /\ reply \in {"none", "ok", "err"}
    /\ faults \in 0..MaxFaults

Init ==
    /\ os \in OSes
    /\ req \in Requests
    /\ exists \in BOOLEAN
    /\ shell \in Shells
    /\ secret \in IF exists THEN Hashes \cup {Locked} ELSE {Locked}
    /\ groups \in SUBSET Groups
    /\ \E extra \in SUBSET groups :
          member = IF exists THEN extra \cup {Primary} ELSE {}
    /\ Primary \in groups
    /\ current = {} /\ pc = "idle" /\ reply = "none"
    /\ before = Snapshot
    /\ faults = 0

-----------------------------------------------------------------------------
\* Appending is what usermod does on Linux (-aG) and OpenBSD; FreeBSD and
\* NetBSD replace the set, so the current one is read first.
Appends == os \in {"linux", "openbsd"}

Goto(state) == pc' = state /\ UNCHANGED reply
Return(answer) == pc' = "idle" /\ reply' = answer

\* (mistake: an account that exists is left alone)
RunEntryKeepsExisting ==
    /\ pc = "idle"
    /\ before' = Snapshot
    /\ IF ~exists THEN pc' = "createGroups" /\ reply' = "none"
       ELSE Return("ok")
    /\ UNCHANGED <<os, req, account, groups, current, faults>>

\* (mistake: the answer of UserExists is not looked at)
RunEntryAlwaysCreates ==
    /\ pc = "idle"
    /\ before' = Snapshot
    /\ pc' = "createGroups" /\ reply' = "none"
    /\ UNCHANGED <<os, req, account, groups, current, faults>>

\* UserExists decides which call is made; AddUserToGroups returns at once if
\* there is nothing to add.
RunEntry ==
    /\ pc = "idle"
    /\ before' = Snapshot
    /\ IF ~exists THEN pc' = "createGroups" /\ reply' = "none"
       ELSE IF req.groups = {} THEN Return("ok")
       ELSE pc' = "reconcileGroups" /\ reply' = "none"
    /\ UNCHANGED <<os, req, account, groups, current, faults>>

\* (mistake: nobody creates the groups)
EnsureGroupsSkipped ==
    /\ pc \in {"createGroups", "reconcileGroups"}
    /\ Goto(IF pc = "createGroups" THEN "useradd"
            ELSE IF Appends THEN "usermod" ELSE "id")
    /\ UNCHANGED <<os, req, account, groups, current, before, faults>>

\* ensureGroups: one groupadd after the other.
EnsureGroups ==
    /\ pc \in {"createGroups", "reconcileGroups"}
    /\ groups' = groups \cup req.groups
    /\ Goto(IF pc = "createGroups" THEN "useradd"
            ELSE IF Appends THEN "usermod" ELSE "id")
    /\ UNCHANGED <<os, req, account, current, before, faults>>

\* useradd makes a locked account.  Like usermod it refuses a group that does
\* not exist, which is why ensureGroups comes first.
UserAdd ==
    /\ pc = "useradd"
    /\ IF req.groups \subseteq groups
       THEN /\ exists' = TRUE
            /\ shell' = req.shell /\ secret' = Locked
            /\ member' = req.groups \cup {Primary}
            /\ IF os = "netbsd" /\ req.hash = NoHash THEN Return("ok")
               ELSE Goto("password")
       ELSE Return("err") /\ UNCHANGED account
    /\ UNCHANGED <<os, req, groups, current, before, faults>>

Wanted == IF req.hash = NoHash THEN Locked ELSE req.hash

\* (mistake: the hash is left out, the account always locked)
SetPasswordLocks ==
    /\ pc = "password"
    /\ secret' = Locked
    /\ Return("ok")
    /\ UNCHANGED <<os, req, exists, shell, groups, member, current, before,
                   faults>>

SetPassword ==
    /\ pc = "password"
    /\ secret' = Wanted
    /\ Return("ok")
    /\ UNCHANGED <<os, req, exists, shell, groups, member, current, before,
                   faults>>

\* FreeBSD and NetBSD: the union is compared with what id printed.
ReadGroups ==
    /\ pc = "id"
    /\ current' = member
    /\ IF req.groups \subseteq member THEN Return("ok") ELSE Goto("usermod")
    /\ UNCHANGED <<os, req, account, groups, before, faults>>

\* (mistake: the requested groups replace the ones the account is in)
UserModReplaces ==
    /\ pc = "usermod" /\ req.groups \subseteq groups
    /\ member' = req.groups \cup {Primary}
    /\ Return("ok")
    /\ UNCHANGED <<os, req, exists, shell, secret, groups, current, before,
                   faults>>

UserMod ==
    /\ pc = "usermod"
    /\ IF req.groups \subseteq groups
       THEN /\ member' = req.groups \cup (IF Appends THEN member ELSE current)
            /\ Return("ok")
       ELSE Return("err") /\ UNCHANGED member
    /\ UNCHANGED <<os, req, exists, shell, secret, groups, current, before,
                   faults>>

-----------------------------------------------------------------------------
(* A command fails or dies, or the process does: some of the groups exist,  *)
(* the account is there but not all of its memberships.                     *)

Fault == faults < MaxFaults /\ faults' = faults + 1

UnfinishedUserAdd ==
    /\ pc = "useradd" /\ req.groups \subseteq groups
    /\ exists' = TRUE /\ shell' = req.shell /\ secret' = Locked
    /\ \E g \in SUBSET req.groups : member' = g \cup {Primary}
    /\ UNCHANGED groups

UnfinishedEnsureGroups ==
    /\ pc \in {"createGroups", "reconcileGroups"}
    /\ \E g \in SUBSET req.groups : groups' = groups \cup g
    /\ UNCHANGED account

UnfinishedPassword ==
    /\ pc = "password"
    /\ secret' = Wanted
    /\ UNCHANGED <<exists, shell, groups, member>>

UnfinishedUserMod ==
    /\ pc = "usermod" /\ req.groups \subseteq groups
    /\ \E g \in SUBSET req.groups : member' = member \cup g
    /\ UNCHANGED <<exists, shell, secret, groups>>

Unfinished ==
    \/ UnfinishedEnsureGroups \/ UnfinishedUserAdd
    \/ UnfinishedPassword \/ UnfinishedUserMod
    \/ UNCHANGED <<account, groups>>

\* /etc/passwd cannot be read: Apply stops before anything is done.
UserExistsFails ==
    /\ pc = "idle" /\ Fault
    /\ before' = Snapshot
    /\ Return("err")
    /\ UNCHANGED <<os, req, account, groups, current>>

CommandFails ==
    /\ pc # "idle" /\ Fault /\ Unfinished
    /\ Return("err")
    /\ UNCHANGED <<os, req, current, before>>

Kill ==
    /\ pc # "idle" /\ Fault /\ Unfinished
    /\ Return("none")
    /\ UNCHANGED <<os, req, current, before>>

AdminAddsGroup ==
    /\ exists /\ Fault
    /\ \E g \in groups : member' = member \cup {g}
    /\ UNCHANGED <<os, req, exists, shell, secret, groups, current, pc, reply,
                   before>>

Run ==
    \/ RunEntry \/ EnsureGroups \/ UserAdd \/ SetPassword \/ ReadGroups
    \/ UserMod

Next == Run \/ UserExistsFails \/ CommandFails \/ Kill \/ AdminAddsGroup

Spec == Init /\ [][Next]_vars
FairSpec == Spec /\ WF_vars(Run)

-----------------------------------------------------------------------------
InPlace == exists /\ req.groups \subseteq member

\* Every run keeps the contract Apply relies on: an account in its groups
\* stays so, and a nil reply means it is.
C == INSTANCE SystemCall WITH effect <- InPlace, reply <- reply
KeepsContract == C!Spec

\* No run takes the account out of a group it was in when the run came to it,
\* on the systems whose usermod replaces the set either (AddUserToGroups).
KeepsMemberships == before.member \subseteq member

\* An account that was there when the run came to it keeps its password: what
\* apply.go lets a run reconcile on an existing user (keys, shell, groups) does
\* not include it, whatever hash the entry has and whichever command dies.
ExistingAccountKeepsPassword ==
    before.exists => exists /\ secret = before.secret

\* An account that this run created is locked until its password is set, and
\* has the password of the entry when the run succeeds.
CreatedAccountGetsPassword ==
    exists /\ ~before.exists =>
        /\ secret \in {Locked, Wanted}
        /\ reply = "ok" => secret = Wanted

\* Once commands stop failing, the account is in place for good and every run
\* ends with success.
EventuallyInPlace == <>[]InPlace /\ []<>(reply = "ok")

\* On a machine that came without the account, a run that succeeds leaves it
\* with the password of the entry, a run that resumes an interrupted one
\* included (apply/apply.go:36, "passwordHash, when non-empty, becomes the
\* crypt(3) hash"; apply/apply.go:5, "A first-boot agent is allowed to crash
\* and resume").
ReplayedPasswordIsSet ==
    reply = "ok" /\ req.hash # NoHash => secret = req.hash
=============================================================================
