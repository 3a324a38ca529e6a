---------------------------- MODULE AuthorizedKeys ----------------------------
(***************************************************************************)
(* System.AddAuthorizedKey of the four operating systems, one system call  *)
(* at a time, for one account and any number of calls with different keys. *)
(* Linux replaces the key file by a rename, OpenBSD and FreeBSD rewrite it *)
(* in place (os.WriteFile), NetBSD appends to it.                          *)
(***************************************************************************)
EXTENDS Integers, Sequences, FiniteSets

CONSTANTS
    OSes,         \* the systems in scope
    Keys, Cut,    \* public keys, and what is left of one that is cut short
    Asked,        \* the arguments a call may have: [key, padded]
    Account, Root,
    Existing,     \* key files an image may come with
    NoFile, NoDir,
    MaxLines,     \* bound: lines of the key file
    MaxFaults     \* bound: failures and kills of a behaviour

\* A line is what stands between two newlines: one key, or several that were
\* glued together.  ended: the file is empty or ends on a newline.
Line == Seq(Keys \cup {Cut})
FileType ==
    [lines : Seq(Line), ended : BOOLEAN, owner : {Account, Root},
     strict : BOOLEAN]
DirType == [owner : {Account, Root}, strict : BOOLEAN]

ASSUME AuthorizedKeysAssumption ==
    /\ OSes \subseteq {"linux", "openbsd", "freebsd", "netbsd"}
    /\ Asked \subseteq [key : Keys, padded : BOOLEAN]
    /\ Cut \notin Keys /\ Account # Root
    /\ Existing \subseteq FileType \cup {NoFile}
    /\ \A f \in Existing \ {NoFile} : f.ended \/ f.lines # <<>>
    /\ NoFile \notin FileType /\ NoDir \notin DirType
    /\ MaxLines \in Nat /\ MaxFaults \in Nat

VARIABLES
    os,
    asked,   \* the arguments of the last call
    dir,     \* ~/.ssh
    file,    \* ~/.ssh/authorized_keys
    buf,     \* the lines the running call is about to write
    pc,      \* next operation of the running call; 0 when none runs
    reply,   \* "ok" or "err" once the call returned, "none" otherwise
    before,  \* history: file when the last call began
    faults

vars == <<os, asked, dir, file, buf, pc, reply, before, faults>>

-----------------------------------------------------------------------------
(* The operations of each system, in order; padding around a key is trimmed *)
(* everywhere but on FreeBSD, which trims newlines only.                    *)

\* (mistake: the key file is rewritten in place)
LinuxAddAuthorizedKeyInPlace ==
    <<"mkdir", "chownDir", "chmodDir", "compare", "truncate", "fill", "chown">>

LinuxAddAuthorizedKey ==
    <<"mkdir", "chownDir", "chmodDir", "compare", "replace", "chown">>

\* (mistake: the new file is left to root)
OpenBSDAddAuthorizedKeyNoChown ==
    <<"mkdir", "chmodDir", "chownDir", "compare", "truncate", "fill", "chmod">>

OpenBSDAddAuthorizedKey ==
    <<"mkdir", "chmodDir", "chownDir", "compare", "truncate", "fill", "chmod",
      "chown">>

FreeBSDAddAuthorizedKey ==
    <<"mkdir", "chownDir", "compare", "truncate", "fill", "chmod", "chown">>

NetBSDAddAuthorizedKey ==
    <<"mkdir", "chmodDir", "chownDir", "compare", "open", "append", "chmod",
      "chown">>

Operations ==
    CASE os = "linux" -> LinuxAddAuthorizedKey
      [] os = "openbsd" -> OpenBSDAddAuthorizedKey
      [] os = "freebsd" -> FreeBSDAddAuthorizedKey
      [] os = "netbsd" -> NetBSDAddAuthorizedKey

At(operation) == pc # 0 /\ Operations[pc] = operation

Lines(f) == IF f = NoFile THEN <<>> ELSE f.lines
Listed(f) == {key \in Keys : \E n \in DOMAIN Lines(f) : Lines(f)[n] = <<key>>}
Ended(f) == f = NoFile \/ f.ended

\* (mistake: the key is not trimmed on the other systems either)
FindsUntrimmed(f, a) == a.key \in Listed(f) /\ ~a.padded

\* A line is trimmed before it is compared, so a key that still is padded
\* equals none.
Finds(f, a) == a.key \in Listed(f) /\ ~(os = "freebsd" /\ a.padded)
Present == Finds(file, asked)

TypeOK ==
    /\ os \in OSes
    /\ asked \in Asked
    /\ dir \in DirType \cup {NoDir}
    /\ file \in FileType \cup {NoFile}
    /\ ~Ended(file) => file.lines # <<>>
    /\ buf \in Seq(Line)
    /\ pc \in 0..Len(Operations)
    /\ reply \in {"none", "ok", "err"}
    /\ before \in FileType \cup {NoFile}
    /\ faults \in 0..MaxFaults

Init ==
    /\ os \in OSes
    /\ asked \in Asked
    /\ file \in Existing
    /\ dir \in IF file = NoFile THEN {NoDir} ELSE DirType
    /\ buf = <<>> /\ pc = 0 /\ reply = "none" /\ before = file
    /\ faults = 0

-----------------------------------------------------------------------------
\* Bounded: a file of MaxLines lines gets no more of them.
Call ==
    /\ pc = 0
    /\ asked' \in {a \in Asked : Len(Lines(file)) < MaxLines \/ Finds(file, a)}
    /\ pc' = 1 /\ reply' = "none" /\ before' = file
    /\ UNCHANGED <<os, dir, file, buf, faults>>

Advance ==
    /\ IF pc = Len(Operations)
       THEN pc' = 0 /\ reply' = "ok"
       ELSE pc' = pc + 1 /\ reply' = reply
    /\ UNCHANGED <<os, asked, before, faults>>

MkdirSsh ==
    /\ At("mkdir")
    /\ dir' = IF dir = NoDir THEN [owner |-> Root, strict |-> TRUE] ELSE dir
    /\ Advance
    /\ UNCHANGED <<file, buf>>

ChownSsh ==
    /\ At("chownDir")
    /\ dir' = [dir EXCEPT !.owner = Account]
    /\ Advance
    /\ UNCHANGED <<file, buf>>

ChmodSsh ==
    /\ At("chmodDir")
    /\ dir' = [dir EXCEPT !.strict = TRUE]
    /\ Advance
    /\ UNCHANGED <<file, buf>>

KeyPresent ==
    /\ At("compare") /\ Present
    /\ pc' = 0 /\ reply' = "ok"
    /\ UNCHANGED <<os, asked, dir, file, buf, before, faults>>

\* (mistake: the buffer is made of the new key alone)
KeyMissingForgetsOthers ==
    /\ At("compare") /\ ~Present
    /\ buf' = <<<<asked.key>>>>
    /\ Advance
    /\ UNCHANGED <<dir, file>>

\* The lines that are there, then the key; a newline is put in between where
\* it is missing (NetBSD does not look at them: see AppendKey).
KeyMissing ==
    /\ At("compare") /\ ~Present
    /\ buf' = Lines(file) \o <<<<asked.key>>>>
    /\ Advance
    /\ UNCHANGED <<dir, file>>

\* atomicWrite: a new file, owned by root, takes the place of the old one.
ReplaceFile ==
    /\ At("replace")
    /\ file' = [lines |-> buf, ended |-> TRUE, owner |-> Root, strict |-> TRUE]
    /\ Advance
    /\ UNCHANGED <<dir, buf>>

NewFile == [lines |-> <<>>, ended |-> TRUE, owner |-> Root, strict |-> TRUE]

TruncateFile ==
    /\ At("truncate")
    /\ file' = IF file = NoFile THEN NewFile
               ELSE [file EXCEPT !.lines = <<>>, !.ended = TRUE]
    /\ Advance
    /\ UNCHANGED <<dir, buf>>

FillFile ==
    /\ At("fill")
    /\ file' = [file EXCEPT !.lines = buf]
    /\ Advance
    /\ UNCHANGED <<dir, buf>>

OpenFile ==
    /\ At("open")
    /\ file' = IF file = NoFile THEN NewFile ELSE file
    /\ Advance
    /\ UNCHANGED <<dir, buf>>

\* What is written at the end of a file that lacks its last newline goes on
\* the line that is there.
Appended(f, word) ==
    IF f.ended THEN Append(f.lines, <<word>>)
    ELSE [f.lines EXCEPT ![Len(f.lines)] = Append(@, word)]

AppendKey ==
    /\ At("append")
    /\ file' = [file EXCEPT !.lines = Appended(file, asked.key), !.ended = TRUE]
    /\ Advance
    /\ UNCHANGED <<dir, buf>>

ChmodFile ==
    /\ At("chmod")
    /\ file' = [file EXCEPT !.strict = TRUE]
    /\ Advance
    /\ UNCHANGED <<dir, buf>>

ChownFile ==
    /\ At("chown")
    /\ file' = [file EXCEPT !.owner = Account]
    /\ Advance
    /\ UNCHANGED <<dir, buf>>

-----------------------------------------------------------------------------
(* Failures and kills.  A write that stops half-way leaves some lines of    *)
(* the buffer and perhaps part of the next one.                             *)

Prefixes ==
    {[file EXCEPT !.lines = SubSeq(buf, 1, n)] : n \in 0..Len(buf)}
    \cup {[file EXCEPT !.lines = Append(SubSeq(buf, 1, n), <<Cut>>),
                       !.ended = FALSE] : n \in 0..(Len(buf) - 1)}
    \cup {[file EXCEPT !.lines = buf, !.ended = FALSE]}

Half ==
    \/ ~At("fill") /\ ~At("append") /\ UNCHANGED file
    \/ At("fill") /\ file' \in Prefixes
    \/ At("append") /\ \E word \in {Cut, asked.key} :
          file' = [file EXCEPT !.lines = Appended(file, word), !.ended = FALSE]

Fault == faults < MaxFaults /\ faults' = faults + 1

OperationFails ==
    /\ pc # 0 /\ Fault /\ Half
    /\ pc' = 0 /\ reply' = "err"
    /\ UNCHANGED <<os, asked, dir, buf, before>>

Kill ==
    /\ pc # 0 /\ Fault /\ Half
    /\ pc' = 0 /\ reply' = "none"
    /\ UNCHANGED <<os, asked, dir, buf, before>>

Run ==
    \/ MkdirSsh \/ ChownSsh \/ ChmodSsh \/ KeyPresent \/ KeyMissing
    \/ ReplaceFile \/ TruncateFile \/ FillFile \/ OpenFile \/ AppendKey
    \/ ChmodFile \/ ChownFile

Next == Call \/ Run \/ OperationFails \/ Kill

Spec == Init /\ [][Next]_vars

-----------------------------------------------------------------------------
\* A call that returned nil has put its key on a line of its own, and kept
\* every key that was there; on NetBSD, if the file ended on a newline.
SuccessListsKey ==
    reply = "ok" /\ (os = "netbsd" => Ended(before))
        => Listed(before) \cup {asked.key} \subseteq Listed(file)

\* A successful call that wrote has left the directory and the file to the
\* account, with the permissions sshd insists on.
WrittenFileIsUsable ==
    reply = "ok" /\ file # before =>
        /\ file.owner = Account /\ file.strict
        /\ dir.owner = Account /\ (os # "freebsd" => dir.strict)

Once(lines, key) ==
    \A m, n \in DOMAIN lines : lines[m] = <<key>> /\ lines[n] = <<key>> => m = n

\* However often a key is asked for, padded or not, and whichever calls fail or
\* die between, it never stands on two lines of the file: a key that is present
\* is not added again (apply.go:45).  Two cases are left out: a key that the
\* image itself lists twice, and on FreeBSD one that a call pads.
NoKeyTwice ==
    \A key \in Keys :
        /\ \A f \in Existing : Once(Lines(f), key)
        /\ os = "freebsd" => [key |-> key, padded |-> TRUE] \notin Asked
        => Once(Lines(file), key)

\* On Linux no key is ever lost, not even for a moment or by a crash
\* (atomicWrite).
LinuxLosesNoKey ==
    [][os = "linux" => Listed(file) \subseteq Listed(file')]_vars

\* A call that returned nil has put the key into the file
\* (apply/apply.go:43, "AddAuthorizedKey appends key to user's
\* ~/.ssh/authorized_keys").
SuccessAlwaysLists == reply = "ok" => asked.key \in Listed(file)
=============================================================================
