--------------------------- MODULE UserAccountProofs ---------------------------
(***************************************************************************)
(* Proofs about UserAccount, for any groups, entries and number of faults  *)
(* and acts of the administrator.                                          *)
(*                                                                         *)
(* The inductive invariant ties the place of a call to what the call found *)
(* when it began (before): CreateUser is under way only for an account     *)
(* that was not there, AddUserToGroups only for one that was.              *)
(***************************************************************************)
EXTENDS UserAccount, TLAPS

Creating == {"createGroups", "useradd"}
Reconciling == {"reconcileGroups", "id", "usermod"}

\* The groups there are: those an account is in, and those id has printed.
GroupsThere ==
    /\ Primary \in groups
    /\ current \subseteq groups

\* What a call knows of the account at each place.
Places ==
    /\ pc \in Creating => ~exists /\ ~before.exists /\ before.member = {}
    /\ pc = "password" => InPlace /\ ~before.exists
    /\ pc \in Reconciling => exists /\ before.exists
    /\ pc = "usermod" /\ ~Appends => before.member \subseteq current

Replies ==
    /\ pc # "idle" => reply = "none"
    /\ reply = "ok" => InPlace

IInv ==
    TypeOK /\ GroupsThere /\ Places /\ Replies /\ KeepsMemberships
    /\ ExistingAccountKeepsPassword /\ CreatedAccountGetsPassword

LEMMA EntryTyped ==
    ASSUME TypeOK
    PROVE  /\ req.groups \subseteq Groups
           /\ req.shell \in Shells
           /\ Wanted \in Hashes \cup {Locked}
           /\ req.hash = NoHash => Wanted = Locked
BY UserAccountAssumption DEF TypeOK, RequestType, Wanted

LEMMA InitInvariant == Init => IInv
<1> SUFFICES ASSUME Init PROVE IInv
  OBVIOUS
<1> USE UserAccountAssumption DEF Init
<1>1. TypeOK
  BY DEF TypeOK, States
<1>2. GroupsThere /\ Places /\ Replies
  BY DEF GroupsThere, Places, Replies, Creating, Reconciling
<1>3. KeepsMemberships /\ ExistingAccountKeepsPassword /\ CreatedAccountGetsPassword
  BY DEF KeepsMemberships, ExistingAccountKeepsPassword, CreatedAccountGetsPassword,
     Snapshot
<1> QED BY <1>1, <1>2, <1>3 DEF IInv

\* What a step of the account may do to the contract's effect.
Keeps ==
    \/ (InPlace => InPlace') /\ reply' \in {"none", "err"}
    \/ InPlace' /\ reply' = "ok"

\* A run comes to the entry: what the account was before is what it is now.
LEMMA BeginStep ==
    ASSUME IInv, RunEntry \/ UserExistsFails
    PROVE  IInv' /\ Keeps
<1> USE UserAccountAssumption
<1>1. /\ before' = Snapshot
      /\ UNCHANGED <<os, req, exists, shell, secret, member, groups, current>>
  BY DEF RunEntry, UserExistsFails, account
<1>2. /\ before'.exists = exists /\ before'.shell = shell
      /\ before'.secret = secret /\ before'.member = member
  BY <1>1 DEF Snapshot
<1>3. /\ KeepsMemberships' /\ ExistingAccountKeepsPassword'
      /\ CreatedAccountGetsPassword'
  BY <1>1, <1>2 DEF KeepsMemberships, ExistingAccountKeepsPassword,
     CreatedAccountGetsPassword
<1>4. \/ pc' = "createGroups" /\ reply' = "none" /\ ~exists
      \/ pc' = "idle" /\ reply' = "ok" /\ exists /\ req.groups = {}
      \/ pc' = "reconcileGroups" /\ reply' = "none" /\ exists
      \/ pc' = "idle" /\ reply' = "err"
  BY DEF RunEntry, UserExistsFails, Return
<1>5. (InPlace' <=> InPlace) /\ (exists /\ req.groups = {} => InPlace)
  BY <1>1 DEF InPlace
<1>6. faults' \in 0..MaxFaults
  BY DEF RunEntry, UserExistsFails, Fault, IInv, TypeOK
<1>7. TypeOK' /\ GroupsThere'
  BY <1>1, <1>4, <1>6 DEF IInv, TypeOK, GroupsThere, States
<1>8. Places'
  BY <1>1, <1>2, <1>4 DEF Places, Creating, Reconciling, IInv, TypeOK
<1>9. Replies' /\ Keeps
  BY <1>4, <1>5 DEF Replies, Keeps
<1> QED BY <1>3, <1>7, <1>8, <1>9 DEF IInv

\* Groups are made, or some of them when a groupadd fails.
LEMMA EnsureGroupsStep ==
    ASSUME IInv, EnsureGroups
    PROVE  IInv' /\ Keeps
<1> USE DEF EnsureGroups
<1>1. /\ UNCHANGED <<os, req, exists, shell, secret, member, current, before, faults>>
      /\ reply' = reply /\ reply = "none" /\ groups' = groups \cup req.groups
  BY DEF account, Goto, IInv, Replies
<1>2. \/ pc = "createGroups" /\ pc' = "useradd"
      \/ pc = "reconcileGroups" /\ pc' = "usermod" /\ Appends
      \/ pc = "reconcileGroups" /\ pc' = "id" /\ ~Appends
  BY DEF Goto
<1>3. TypeOK' /\ GroupsThere'
  BY <1>1, <1>2, EntryTyped DEF IInv, TypeOK, GroupsThere, States
<1>4. Places'
  BY <1>1, <1>2 DEF IInv, Places, Creating, Reconciling, Appends
<1>5. Replies' /\ Keeps
  BY <1>1 DEF Replies, Keeps, InPlace
<1>6. /\ KeepsMemberships' /\ ExistingAccountKeepsPassword'
      /\ CreatedAccountGetsPassword'
  BY <1>1 DEF IInv, KeepsMemberships, ExistingAccountKeepsPassword,
     CreatedAccountGetsPassword, Wanted
<1> QED BY <1>3, <1>4, <1>5, <1>6 DEF IInv

\* useradd: the account was not there, so it lost neither groups nor login.
LEMMA UserAddStep ==
    ASSUME IInv, UserAdd
    PROVE  IInv' /\ Keeps
<1> USE UserAccountAssumption
<1>1. /\ UNCHANGED <<os, req, groups, current, before, faults>>
      /\ reply = "none" /\ ~exists /\ ~before.exists /\ before.member = {}
  BY DEF UserAdd, IInv, Replies, Places, Creating
<1>2. CASE req.groups \subseteq groups
  <2>1. /\ exists' = TRUE /\ shell' = req.shell /\ secret' = Locked
        /\ member' = req.groups \cup {Primary}
        /\ \/ pc' = "idle" /\ reply' = "ok" /\ req.hash = NoHash
           \/ pc' = "password" /\ reply' = "none"
    BY <1>1, <1>2 DEF UserAdd, Return, Goto
  <2>2. TypeOK' /\ GroupsThere' /\ InPlace'
    BY <1>1, <1>2, <2>1, EntryTyped DEF IInv, TypeOK, GroupsThere, States, InPlace
  <2>3. Places' /\ Replies' /\ Keeps
    BY <1>1, <2>1, <2>2 DEF Places, Creating, Reconciling, Replies, Keeps
  <2>4. KeepsMemberships' /\ ExistingAccountKeepsPassword'
    BY <1>1, <2>1 DEF KeepsMemberships, ExistingAccountKeepsPassword
  <2>5. CreatedAccountGetsPassword'
    BY <1>1, <2>1, EntryTyped DEF IInv, CreatedAccountGetsPassword, Wanted
  <2> QED BY <2>2, <2>3, <2>4, <2>5 DEF IInv
<1>3. CASE ~(req.groups \subseteq groups)
  <2>1. UNCHANGED <<exists, shell, secret, member>> /\ pc' = "idle" /\ reply' = "err"
    BY <1>3 DEF UserAdd, Return, account
  <2>2. TypeOK' /\ GroupsThere'
    BY <1>1, <2>1 DEF IInv, TypeOK, GroupsThere, States
  <2>3. Places' /\ Replies' /\ Keeps
    BY <1>1, <2>1 DEF Places, Creating, Reconciling, Replies, Keeps, InPlace
  <2>4. /\ KeepsMemberships' /\ ExistingAccountKeepsPassword'
        /\ CreatedAccountGetsPassword'
    BY <1>1, <2>1 DEF IInv, KeepsMemberships, ExistingAccountKeepsPassword,
       CreatedAccountGetsPassword
  <2> QED BY <2>2, <2>3, <2>4 DEF IInv
<1> QED BY <1>2, <1>3

LEMMA SetPasswordStep ==
    ASSUME IInv, SetPassword
    PROVE  IInv' /\ Keeps
<1>1. /\ UNCHANGED <<os, req, exists, shell, groups, member, current, before, faults>>
      /\ secret' = Wanted /\ pc' = "idle" /\ reply' = "ok"
      /\ InPlace /\ ~before.exists
  BY DEF SetPassword, Return, IInv, Places
<1>2. TypeOK' /\ GroupsThere' /\ InPlace'
  BY <1>1, EntryTyped DEF IInv, TypeOK, GroupsThere, States, InPlace
<1>3. Places' /\ Replies' /\ Keeps
  BY <1>1, <1>2 DEF Places, Creating, Reconciling, Replies, Keeps
<1>4. KeepsMemberships' /\ ExistingAccountKeepsPassword'
  BY <1>1 DEF IInv, KeepsMemberships, ExistingAccountKeepsPassword
<1>5. CreatedAccountGetsPassword'
  BY <1>1 DEF CreatedAccountGetsPassword, Wanted
<1> QED BY <1>2, <1>3, <1>4, <1>5 DEF IInv

LEMMA ReadGroupsStep ==
    ASSUME IInv, ReadGroups
    PROVE  IInv' /\ Keeps
<1>1. /\ UNCHANGED <<os, req, exists, shell, secret, member, groups, before, faults>>
      /\ current' = member /\ exists /\ before.exists /\ reply = "none"
  BY DEF ReadGroups, account, IInv, Places, Reconciling, Replies
<1>2. \/ pc' = "idle" /\ reply' = "ok" /\ req.groups \subseteq member
      \/ pc' = "usermod" /\ reply' = "none"
  BY <1>1 DEF ReadGroups, Return, Goto
<1>3. TypeOK' /\ GroupsThere'
  BY <1>1, <1>2 DEF IInv, TypeOK, GroupsThere, States
<1>4. Places' /\ Replies' /\ Keeps
  BY <1>1, <1>2 DEF IInv, Places, Creating, Reconciling, Replies, Keeps, InPlace,
     KeepsMemberships
<1>5. /\ KeepsMemberships' /\ ExistingAccountKeepsPassword'
      /\ CreatedAccountGetsPassword'
  BY <1>1 DEF IInv, KeepsMemberships, ExistingAccountKeepsPassword,
     CreatedAccountGetsPassword
<1> QED BY <1>3, <1>4, <1>5 DEF IInv

\* usermod replaces the groups on two systems: by those id has printed, which
\* are at least those of the account when the run came to it.
LEMMA UserModStep ==
    ASSUME IInv, UserMod
    PROVE  IInv' /\ Keeps
<1>1. /\ UNCHANGED <<os, req, exists, shell, secret, groups, current, before, faults>>
      /\ exists /\ before.exists /\ pc' = "idle"
      /\ ~Appends => before.member \subseteq current
  BY DEF UserMod, Return, IInv, Places, Reconciling
<1>2. \/ /\ req.groups \subseteq groups /\ reply' = "ok"
         /\ member' = req.groups \cup (IF Appends THEN member ELSE current)
      \/ member' = member /\ reply' = "err"
  BY DEF UserMod, Return
<1>3. TypeOK' /\ GroupsThere'
  BY <1>1, <1>2 DEF IInv, TypeOK, GroupsThere, States
<1>4. Places' /\ Replies' /\ Keeps
  BY <1>1, <1>2 DEF Places, Creating, Reconciling, Replies, Keeps, InPlace
<1>5. KeepsMemberships'
  BY <1>1, <1>2 DEF IInv, KeepsMemberships
<1>6. ExistingAccountKeepsPassword' /\ CreatedAccountGetsPassword'
  BY <1>1 DEF IInv, ExistingAccountKeepsPassword, CreatedAccountGetsPassword
<1> QED BY <1>3, <1>4, <1>5, <1>6 DEF IInv

\* A command fails or dies, with whatever it had done.
LEMMA FaultStep ==
    ASSUME IInv, CommandFails \/ Kill
    PROVE  IInv' /\ Keeps
<1> USE UserAccountAssumption
<1>1. /\ Unfinished /\ pc # "idle" /\ pc' = "idle" /\ reply' \in {"none", "err"}
      /\ UNCHANGED <<os, req, current, before>> /\ faults' \in 0..MaxFaults
  BY DEF CommandFails, Kill, Return, Fault, IInv, TypeOK
<1>2. ASSUME TypeOK', GroupsThere', InPlace => InPlace', KeepsMemberships',
             ExistingAccountKeepsPassword', CreatedAccountGetsPassword'
      PROVE  IInv' /\ Keeps
  BY <1>1, <1>2 DEF IInv, Places, Creating, Reconciling, Replies, Keeps
<1>3. CASE UnfinishedEnsureGroups
  <2>1. PICK g \in SUBSET req.groups : groups' = groups \cup g
    BY <1>3 DEF UnfinishedEnsureGroups
  <2>2. UNCHANGED <<exists, shell, secret, member>>
    BY <1>3 DEF UnfinishedEnsureGroups, account
  <2>3. TypeOK' /\ GroupsThere'
    BY <1>1, <2>1, <2>2, EntryTyped DEF IInv, TypeOK, GroupsThere, States
  <2>4. /\ InPlace => InPlace'
        /\ KeepsMemberships' /\ ExistingAccountKeepsPassword'
        /\ CreatedAccountGetsPassword'
    BY <1>1, <2>2 DEF IInv, InPlace, KeepsMemberships, ExistingAccountKeepsPassword,
       CreatedAccountGetsPassword, Wanted
  <2> QED BY <1>2, <2>3, <2>4
<1>4. CASE UnfinishedUserAdd
  <2>1. /\ ~exists /\ ~before.exists /\ before.member = {}
        /\ exists' = TRUE /\ shell' = req.shell /\ secret' = Locked
        /\ groups' = groups /\ req.groups \subseteq groups
    BY <1>4 DEF UnfinishedUserAdd, IInv, Places, Creating
  <2>2. PICK g \in SUBSET req.groups : member' = g \cup {Primary}
    BY <1>4 DEF UnfinishedUserAdd
  <2>3. TypeOK' /\ GroupsThere'
    BY <1>1, <2>1, <2>2, EntryTyped DEF IInv, TypeOK, GroupsThere, States
  <2>4. (InPlace => InPlace') /\ KeepsMemberships' /\ ExistingAccountKeepsPassword'
    BY <1>1, <2>1 DEF InPlace, KeepsMemberships, ExistingAccountKeepsPassword
  <2>5. CreatedAccountGetsPassword'
    BY <1>1, <2>1 DEF CreatedAccountGetsPassword
  <2> QED BY <1>2, <2>3, <2>4, <2>5
<1>5. CASE UnfinishedPassword
  <2>1. /\ UNCHANGED <<exists, shell, groups, member>> /\ secret' = Wanted
        /\ ~before.exists
    BY <1>5 DEF UnfinishedPassword, IInv, Places
  <2>2. TypeOK' /\ GroupsThere'
    BY <1>1, <2>1, EntryTyped DEF IInv, TypeOK, GroupsThere, States
  <2>3. (InPlace => InPlace') /\ KeepsMemberships' /\ ExistingAccountKeepsPassword'
    BY <1>1, <2>1 DEF IInv, InPlace, KeepsMemberships, ExistingAccountKeepsPassword
  <2>4. CreatedAccountGetsPassword'
    BY <1>1, <2>1 DEF CreatedAccountGetsPassword, Wanted
  <2> QED BY <1>2, <2>2, <2>3, <2>4
<1>6. CASE UnfinishedUserMod
  <2>1. /\ UNCHANGED <<exists, shell, secret, groups>> /\ exists
        /\ req.groups \subseteq groups
    BY <1>6 DEF UnfinishedUserMod, IInv, Places, Reconciling
  <2>2. PICK g \in SUBSET req.groups : member' = member \cup g
    BY <1>6 DEF UnfinishedUserMod
  <2>3. TypeOK' /\ GroupsThere'
    BY <1>1, <2>1, <2>2 DEF IInv, TypeOK, GroupsThere, States
  <2>4. /\ InPlace => InPlace'
        /\ KeepsMemberships' /\ ExistingAccountKeepsPassword'
        /\ CreatedAccountGetsPassword'
    BY <1>1, <2>1, <2>2 DEF IInv, InPlace, KeepsMemberships,
       ExistingAccountKeepsPassword, CreatedAccountGetsPassword, Wanted
  <2> QED BY <1>2, <2>3, <2>4
<1>7. CASE UNCHANGED <<account, groups>>
  <2>1. UNCHANGED <<exists, shell, secret, member, groups>>
    BY <1>7 DEF account
  <2>2. TypeOK' /\ GroupsThere'
    BY <1>1, <2>1 DEF IInv, TypeOK, GroupsThere, States
  <2>3. /\ InPlace => InPlace'
        /\ KeepsMemberships' /\ ExistingAccountKeepsPassword'
        /\ CreatedAccountGetsPassword'
    BY <1>1, <2>1 DEF IInv, InPlace, KeepsMemberships, ExistingAccountKeepsPassword,
       CreatedAccountGetsPassword, Wanted
  <2> QED BY <1>2, <2>2, <2>3
<1> QED BY <1>1, <1>3, <1>4, <1>5, <1>6, <1>7 DEF Unfinished

\* An administrator only adds groups: between id and usermod, too.
LEMMA AdminStep ==
    ASSUME IInv, AdminAddsGroup
    PROVE  IInv' /\ (InPlace => InPlace') /\ reply' = reply
<1>1. PICK g \in groups : member' = member \cup {g}
  BY DEF AdminAddsGroup
<1>2. /\ UNCHANGED <<os, req, exists, shell, secret, groups, current, pc, reply, before>>
      /\ exists /\ faults' \in 0..MaxFaults
  BY UserAccountAssumption DEF AdminAddsGroup, Fault, IInv, TypeOK
<1>3. TypeOK' /\ GroupsThere' /\ (InPlace => InPlace')
  BY <1>1, <1>2 DEF IInv, TypeOK, GroupsThere, States, InPlace
<1>4. Places' /\ Replies'
  BY <1>2, <1>3 DEF IInv, Places, Creating, Reconciling, Replies, Appends
<1>5. /\ KeepsMemberships' /\ ExistingAccountKeepsPassword'
      /\ CreatedAccountGetsPassword'
  BY <1>1, <1>2 DEF IInv, KeepsMemberships, ExistingAccountKeepsPassword,
     CreatedAccountGetsPassword, Wanted
<1> QED BY <1>2, <1>3, <1>4, <1>5 DEF IInv

LEMMA StutterStep ==
    ASSUME IInv, UNCHANGED vars
    PROVE  IInv' /\ (InPlace' <=> InPlace) /\ reply' = reply
BY DEF vars, account, IInv, TypeOK, GroupsThere, Places, Replies, Appends, InPlace,
   KeepsMemberships, ExistingAccountKeepsPassword, CreatedAccountGetsPassword, Wanted

LEMMA StepInvariant ==
    ASSUME IInv, [Next]_vars
    PROVE  IInv' /\ (Keeps \/ ((InPlace' <=> InPlace) /\ reply' = reply))
<1>1. CASE AdminAddsGroup
  <2>1. reply \in {"none", "ok", "err"} /\ (reply = "ok" => InPlace)
    BY DEF IInv, TypeOK, Replies
  <2> QED BY <1>1, <2>1, AdminStep DEF Keeps
<1> QED BY <1>1, BeginStep, EnsureGroupsStep, UserAddStep, SetPasswordStep,
   ReadGroupsStep, UserModStep, FaultStep, StutterStep DEF Next, Run

LEMMA Invariance == Spec => []IInv
<1>1. IInv /\ [Next]_vars => IInv'
  BY StepInvariant
<1> QED BY InitInvariant, <1>1, PTL DEF Spec

-----------------------------------------------------------------------------
(* The theorems.                                                           *)

\* Every variable keeps its type: an account is only ever in groups there are.
THEOREM TypeCorrect == Spec => []TypeOK
<1>1. IInv => TypeOK
  BY DEF IInv
<1> QED BY <1>1, Invariance, PTL

\* No run takes the account out of a group it was in when the run came to it,
\* whichever command fails (AddUserToGroups).
THEOREM MembershipsKept == Spec => []KeepsMemberships
<1>1. IInv => KeepsMemberships
  BY DEF IInv
<1> QED BY <1>1, Invariance, PTL

\* An account that was there keeps its password, whatever hash the entry has.
THEOREM PasswordKept == Spec => []ExistingAccountKeepsPassword
<1>1. IInv => ExistingAccountKeepsPassword
  BY DEF IInv
<1> QED BY <1>1, Invariance, PTL

\* An account that a run has created is locked until it has the password of
\* the entry, which it has when that run succeeds (CreateUser).
THEOREM PasswordSet == Spec => []CreatedAccountGetsPassword
<1>1. IInv => CreatedAccountGetsPassword
  BY DEF IInv
<1> QED BY <1>1, Invariance, PTL

\* UserExists, CreateUser and AddUserToGroups together keep the contract that
\* Apply builds on: an account in its groups stays so, and a nil error means
\* it is.
THEOREM Contract == Spec => KeepsContract
<1>1. Init => C!Init
  BY UserAccountAssumption DEF Init, C!Init, InPlace
<1>2. IInv /\ [Next]_vars => [C!Next]_(C!vars)
  <2> SUFFICES ASSUME IInv, [Next]_vars PROVE [C!Next]_(C!vars)
    OBVIOUS
  <2>1. InPlace \in BOOLEAN /\ InPlace' \in BOOLEAN
    BY DEF InPlace, IInv, TypeOK
  <2>2. CASE (InPlace => InPlace') /\ reply' \in {"none", "err"}
    BY <2>1, <2>2, Zenon DEF C!Next, C!Proceed, C!Fail
  <2>3. CASE InPlace' /\ reply' = "ok"
    BY <2>1, <2>3, Zenon DEF C!Next, C!Succeed
  <2>4. CASE (InPlace' <=> InPlace) /\ reply' = reply
    BY <2>1, <2>4, Zenon DEF C!vars
  <2> QED BY <2>2, <2>3, <2>4, StepInvariant DEF Keeps
<1> QED BY <1>1, <1>2, Invariance, PTL DEF Spec, KeepsContract, C!Spec
================================================================================
