------------------------------ MODULE WriteFile ------------------------------
(***************************************************************************)
(* System.WriteFile of the four operating systems, one system call at a    *)
(* time, over repeated calls with the same arguments (a failed or killed   *)
(* first boot is resumed with the same config).                            *)
(*                                                                         *)
(* A call compares what is on disk with what is asked for, and if they     *)
(* differ goes through the list of file-system operations of its system    *)
(* (Operations).  An operation may fail, the process may be killed between *)
(* any two, and the machine may lose power: then a file whose data was     *)
(* never synced may come back torn, and what was not yet written back may  *)
(* be lost.                                                                *)
(***************************************************************************)
EXTENDS Integers, Sequences, FiniteSets

CONSTANTS
    OSes,          \* the systems in scope, of AllOSes below
    Bodies,        \* contents of files
    Torn,          \* a content that is cut short
    Perms,         \* permission bits: rwx for user, group and others
    TempPerm,      \* those of a new temporary file, 0600
    Owners, Root,  \* pairs of uid and gid that resolve; Root makes the files
    Unknown,       \* an owner that does not resolve
    NoFile,        \* there is no file
    MaxFaults      \* bound: failures, kills and power losses of a behaviour

AllOSes == {"linux", "openbsd", "freebsd", "netbsd"}

ASSUME WriteFileAssumption ==
    /\ OSes \subseteq AllOSes
    /\ Torn \notin Bodies
    /\ TempPerm \in Perms /\ Root \in Owners /\ Unknown \notin Owners
    /\ NoFile \notin [body : Bodies \cup {Torn}, perm : Perms,
                      special : BOOLEAN, owner : Owners]
    /\ MaxFaults \in Nat

\* A file; special stands for the set-user-id, set-group-id and sticky bits.
FileType ==
    [body : Bodies \cup {Torn}, perm : Perms, special : BOOLEAN,
     owner : Owners]

\* The arguments; prefixed: the mode is spelt with a leading 0o.
RequestType ==
    [body : Bodies, perm : Perms, special : BOOLEAN,
     owner : Owners \cup {Unknown}, prefixed : BOOLEAN]

VARIABLES
    os, req,  \* the system, and the arguments of the calls
    target,   \* the file at the path
    dir,      \* its directory exists
    temp,     \* the temporary file of the running call
    synced,   \* the data of temp is on disk
    onDisk,   \* what a power loss may leave at the path
    pc,       \* next operation of the running call; 0 when none runs
    reply,    \* "ok" or "err" once the call returned, "none" otherwise
    before,   \* history: target when the last call began
    lost,     \* history: the path was as asked for until a rewrite of it, which
              \* has not come to its end, or a loss of power
    faults

vars == <<os, req, target, dir, temp, synced, onDisk, pc, reply, before, lost, faults>>

-----------------------------------------------------------------------------
(* The operations of each system, in order.                                *)

\* (mistake: the data is not synced before the rename)
LinuxWriteFileUnsynced ==
    <<"mkdir", "create", "write", "chmod", "rename", "chown">>

LinuxWriteFile ==
    <<"mkdir", "create", "write", "chmod", "sync", "rename", "chown">>
\* (mistake: the parent directory is taken for granted)
OpenBSDWriteFileNoMkdir ==
    <<"create", "write", "chmod", "chownTemp", "rename">>

OpenBSDWriteFile ==
    <<"mkdir", "create", "write", "chmod", "chownTemp", "rename">>
\* (mistake: the owner is set after the rename)
FreeBSDWriteFileLateChown ==
    <<"mkdir", "create", "write", "chmod", "rename", "chown">>

FreeBSDWriteFile ==
    <<"mkdir", "create", "write", "chmod", "chownTemp", "rename">>
NetBSDWriteFile ==
    <<"create", "write", "chmod", "chownTemp", "sync", "rename">>

Operations ==
    CASE os = "linux" -> LinuxWriteFile
      [] os = "openbsd" -> OpenBSDWriteFile
      [] os = "freebsd" -> FreeBSDWriteFile
      [] os = "netbsd" -> NetBSDWriteFile

\* strconv.ParseUint reads digits only; NetBSD does not strip the 0o.
ModeParses == ~(os = "netbsd" /\ req.prefixed)

\* The comparison before the write: content, permission bits, uid and gid.
Same(f) ==
    /\ f # NoFile
    /\ f.body = req.body
    /\ f.perm = req.perm
    /\ f.owner = req.owner

TypeOK ==
    /\ os \in OSes
    /\ req \in RequestType
    /\ target \in FileType \cup {NoFile}
    /\ dir \in BOOLEAN
    /\ temp \in FileType \cup {NoFile}
    /\ synced \in BOOLEAN
    /\ onDisk \subseteq FileType \cup {NoFile}
    /\ pc \in 0..Len(Operations)
    /\ reply \in {"none", "ok", "err"}
    /\ before \in FileType \cup {NoFile}
    /\ lost \in BOOLEAN
    /\ faults \in 0..MaxFaults

Init ==
    /\ os \in OSes
    /\ req \in RequestType
    /\ target \in [body : Bodies, perm : Perms, special : BOOLEAN,
                   owner : Owners] \cup {NoFile}
    /\ dir \in BOOLEAN /\ (target # NoFile => dir)
    /\ temp = NoFile /\ synced = FALSE
    /\ onDisk = {target}
    /\ pc = 0 /\ reply = "none" /\ before = target
    /\ lost = FALSE /\ faults = 0

-----------------------------------------------------------------------------
(* The beginning of a call: it is refused, finds nothing to do, or goes on. *)

\* (mistake: a failed lookup of the owner is no error)
AcceptsAnyOwner == ModeParses

Accepts == ModeParses /\ req.owner # Unknown

CallRefused ==
    /\ pc = 0 /\ ~Accepts
    /\ reply' = "err" /\ before' = target
    /\ UNCHANGED <<os, req, target, dir, temp, synced, onDisk, pc, lost, faults>>

\* (mistake: the owner is left out of the comparison)
CallConvergedAnyOwner ==
    /\ pc = 0 /\ Accepts /\ target # NoFile
    /\ target.body = req.body /\ target.perm = req.perm
    /\ reply' = "ok" /\ before' = target /\ lost' = FALSE
    /\ UNCHANGED <<os, req, target, dir, temp, synced, onDisk, pc, faults>>

CallConverged ==
    /\ pc = 0 /\ Accepts /\ Same(target)
    /\ reply' = "ok" /\ before' = target /\ lost' = FALSE
    /\ UNCHANGED <<os, req, target, dir, temp, synced, onDisk, pc, faults>>

CallWrites ==
    /\ pc = 0 /\ Accepts /\ ~Same(target)
    /\ pc' = 1 /\ reply' = "none" /\ before' = target
    /\ UNCHANGED <<os, req, target, dir, temp, synced, onDisk, lost, faults>>

At(operation) == pc # 0 /\ Operations[pc] = operation

\* After its last operation the call returns nil.
Advance ==
    /\ IF pc = Len(Operations)
       THEN pc' = 0 /\ reply' = "ok" /\ lost' = FALSE
       ELSE /\ pc' = pc + 1 /\ reply' = reply
            /\ lost' = (lost \/ (At("rename") /\ Same(target)))
    /\ UNCHANGED <<os, req, before, faults>>

-----------------------------------------------------------------------------
(* The operations.                                                         *)

MkdirParent ==
    /\ At("mkdir")
    /\ dir' = TRUE
    /\ Advance
    /\ UNCHANGED <<target, temp, synced, onDisk>>

CreateTemp ==
    /\ At("create") /\ dir
    /\ temp' = [body |-> Torn, perm |-> TempPerm, special |-> FALSE,
                owner |-> Root]
    /\ synced' = FALSE
    /\ Advance
    /\ UNCHANGED <<target, dir, onDisk>>

\* No directory to create the temporary file in: the call fails.
CreateTempNoDir ==
    /\ At("create") /\ ~dir
    /\ pc' = 0 /\ reply' = "err"
    /\ UNCHANGED <<os, req, target, dir, temp, synced, onDisk, before, lost, faults>>

WriteTemp ==
    /\ At("write")
    /\ temp' = [temp EXCEPT !.body = req.body]
    /\ Advance
    /\ UNCHANGED <<target, dir, synced, onDisk>>

\* (mistake: an empty mode in the config leaves the temporary file's own)
ChmodTempSkipped ==
    /\ At("chmod")
    /\ Advance
    /\ UNCHANGED <<target, dir, temp, synced, onDisk>>

\* os.FileMode(0o4755) has no ModeSetuid, so Chmod applies 0755: the special
\* bits of the mode asked for never reach the file.
ChmodTemp ==
    /\ At("chmod")
    /\ temp' = [temp EXCEPT !.perm = req.perm, !.special = FALSE]
    /\ Advance
    /\ UNCHANGED <<target, dir, synced, onDisk>>

ChownTemp ==
    /\ At("chownTemp")
    /\ temp' = [temp EXCEPT !.owner = req.owner]
    /\ Advance
    /\ UNCHANGED <<target, dir, synced, onDisk>>

SyncTemp ==
    /\ At("sync")
    /\ synced' = TRUE
    /\ Advance
    /\ UNCHANGED <<target, dir, temp, onDisk>>

Rename ==
    /\ At("rename")
    /\ target' = temp /\ temp' = NoFile
    /\ onDisk' = onDisk \cup {temp}
                 \cup (IF synced THEN {} ELSE {[temp EXCEPT !.body = Torn]})
    /\ Advance
    /\ UNCHANGED <<dir, synced>>

ChownTarget ==
    /\ At("chown")
    /\ target' = [target EXCEPT !.owner = req.owner]
    /\ onDisk' = onDisk \cup {[f EXCEPT !.owner = req.owner] :
                                f \in onDisk \ {NoFile}}
    /\ Advance
    /\ UNCHANGED <<dir, temp, synced>>

-----------------------------------------------------------------------------
(* What goes wrong, and the kernel writing back what is in its memory.      *)

Fault == faults < MaxFaults /\ faults' = faults + 1

\* (mistake: the temporary file is left behind by a failed call)
OperationFailsUnclean ==
    /\ pc # 0 /\ Fault
    /\ pc' = 0 /\ reply' = "err"
    /\ UNCHANGED <<os, req, target, dir, temp, synced, onDisk, before, lost>>

\* The file at the path cannot be read (or, off Linux and NetBSD, examined).
ComparisonFails ==
    /\ pc = 0 /\ Accepts /\ Fault
    /\ reply' = "err" /\ before' = target
    /\ UNCHANGED <<os, req, target, dir, temp, synced, onDisk, pc, lost>>

\* Linux and NetBSD read the file first; one that they then cannot examine
\* they take to differ, so a file that is as asked for is written again.
ExaminationFails ==
    /\ pc = 0 /\ Accepts /\ Same(target) /\ os \in {"linux", "netbsd"} /\ Fault
    /\ pc' = 1 /\ reply' = "none" /\ before' = target
    /\ UNCHANGED <<os, req, target, dir, temp, synced, onDisk, lost>>

\* The error is returned and the temporary file, if there is one, removed.
OperationFails ==
    /\ pc # 0 /\ Fault
    /\ temp' = NoFile
    /\ pc' = 0 /\ reply' = "err"
    /\ UNCHANGED <<os, req, target, dir, synced, onDisk, before, lost>>

\* The temporary file of a killed process stays under a name no later call
\* uses: it is dropped from the model.
Kill ==
    /\ pc # 0 /\ Fault
    /\ temp' = NoFile
    /\ pc' = 0 /\ reply' = "none"
    /\ UNCHANGED <<os, req, target, dir, synced, onDisk, before, lost>>

LosePower ==
    /\ Fault
    /\ target' \in onDisk /\ onDisk' = {target'} /\ before' = target'
    /\ temp' = NoFile
    /\ lost' = (lost \/ Same(target))
    /\ pc' = 0 /\ reply' = "none"
    /\ UNCHANGED <<os, req, dir, synced>>

WriteBack ==
    /\ onDisk # {target}
    /\ onDisk' = {target}
    /\ UNCHANGED <<os, req, target, dir, temp, synced, pc, reply, before, lost, faults>>

Run ==
    \/ CallRefused \/ CallConverged \/ CallWrites
    \/ MkdirParent \/ CreateTemp \/ CreateTempNoDir \/ WriteTemp
    \/ ChmodTemp \/ ChownTemp \/ SyncTemp \/ Rename \/ ChownTarget

Next ==
    \/ Run \/ WriteBack
    \/ ComparisonFails \/ ExaminationFails \/ OperationFails \/ Kill \/ LosePower

Spec == Init /\ [][Next]_vars

\* Calls go on, and are repeated: the config is replayed until it succeeds.
FairSpec == Spec /\ WF_vars(Run)

-----------------------------------------------------------------------------
\* At every moment the path holds what it held when the call began, or the
\* new content with its permissions, and off Linux with its owner too: the
\* rename publishes a finished file (Linux changes the owner after it).
ReadersSeeWholeFiles ==
    \/ target = before
    \/ /\ target.body = req.body /\ target.perm = req.perm
       /\ os = "linux" \/ target.owner = req.owner

\* A call that returns an error has removed its temporary file, and off Linux
\* has left the path as it was.
ErrorLeavesNothing ==
    reply = "err" => temp = NoFile /\ (os # "linux" => target = before)

\* On Linux and NetBSD, where the data is synced before the rename, not even
\* a loss of power leaves a file cut short; nothing else does anywhere.
NeverTorn ==
    target # NoFile /\ target.body = Torn
        => os \in {"openbsd", "freebsd"}

\* Every call keeps the contract Apply relies on: what is in place stays in
\* place, and a call that returned nil has put it there.  Two things may undo
\* it until the next call returns: a loss of power, and on Linux, which gives a
\* file that it writes again to root first, a rewrite that is cut short.
C == INSTANCE SystemCall WITH effect <- Same(target) \/ lost, reply <- reply
KeepsContract == C!Spec

\* A call whose arguments are good is repeated with success in the end, if
\* failures and kills end; NetBSD also needs the directory to exist.
EventuallyLanded ==
    Accepts /\ (os = "netbsd" => dir) => <>[](reply = "ok" /\ Same(target))
=============================================================================
