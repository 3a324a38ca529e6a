------------------------- MODULE AuthorizedKeysProofs -------------------------
(***************************************************************************)
(* Proofs about AuthorizedKeys, for any keys, key files and number of      *)
(* calls and faults.                                                       *)
(*                                                                         *)
(* The inductive invariant follows the directory, the key file and the     *)
(* buffer through the operations of a call: the file is as the call found  *)
(* it, and without the key, until the operation that writes it.  That no   *)
(* key comes to stand on two lines is a second invariant upon the first.   *)
(***************************************************************************)
EXTENDS AuthorizedKeys, TLAPS

-----------------------------------------------------------------------------
(* Key files.                                                              *)

LEMMA FileTyped ==
    ASSUME NEW f \in FileType
    PROVE  /\ f # NoFile
           /\ f.lines \in Seq(Line) /\ f.ended \in BOOLEAN
           /\ f.owner \in {Account, Root} /\ f.strict \in BOOLEAN
           /\ f = [lines |-> f.lines, ended |-> f.ended, owner |-> f.owner,
                   strict |-> f.strict]
BY AuthorizedKeysAssumption DEF FileType

LEMMA LinesTyped ==
    ASSUME NEW f \in FileType \cup {NoFile}
    PROVE  Lines(f) \in Seq(Line) /\ (f # NoFile => Lines(f) = f.lines)
BY FileTyped DEF Lines

LEMMA FileLines ==
    ASSUME NEW f \in FileType
    PROVE  Lines(f) = f.lines
BY FileTyped DEF Lines

\* The lines a call is about to write list what was listed, and the key.
LEMMA AddedKey ==
    ASSUME NEW f \in FileType \cup {NoFile}, NEW g \in FileType, NEW key \in Keys,
           g.lines = Lines(f) \o <<<<key>>>>
    PROVE  Listed(f) \cup {key} \subseteq Listed(g)
<1>1. Lines(f) \in Seq(Line) /\ Lines(g) = g.lines
  BY LinesTyped, FileTyped
<1> DEFINE old == Lines(f)
           new == old \o <<<<key>>>>
<1>2. /\ DOMAIN old = 1..Len(old) /\ Len(old) \in Nat
      /\ DOMAIN new = 1..(Len(old) + 1)
      /\ \A n \in DOMAIN old : new[n] = old[n]
      /\ new[Len(old) + 1] = <<key>>
  <2> HIDE DEF old
  <2>1. old \in Seq(Line) /\ <<<<key>>>> \in Seq(Line)
    BY <1>1 DEF old, Line
  <2> QED BY <2>1
<1>3. key \in Listed(g)
  BY <1>1, <1>2 DEF Listed
<1>4. ASSUME NEW k \in Listed(f) PROVE k \in Listed(g)
  <2>1. PICK n \in DOMAIN old : old[n] = <<k>>
    BY DEF Listed
  <2>2. n \in DOMAIN new /\ new[n] = <<k>>
    BY <1>2, <2>1
  <2> QED BY <1>1, <2>2 DEF Listed
<1> QED BY <1>3, <1>4

-----------------------------------------------------------------------------
(* The operations of each system and their order.                          *)

AllOSes == {"linux", "openbsd", "freebsd", "netbsd"}

LEMMA OperationTable ==
    ASSUME os \in AllOSes
    PROVE  /\ os = "linux" => Operations =
                 <<"mkdir", "chownDir", "chmodDir", "compare", "replace", "chown">>
           /\ os = "openbsd" => Operations =
                 <<"mkdir", "chmodDir", "chownDir", "compare", "truncate", "fill",
                   "chmod", "chown">>
           /\ os = "freebsd" => Operations =
                 <<"mkdir", "chownDir", "compare", "truncate", "fill", "chmod",
                   "chown">>
           /\ os = "netbsd" => Operations =
                 <<"mkdir", "chmodDir", "chownDir", "compare", "open", "append",
                   "chmod", "chown">>
<1>1. CASE os = "linux"
  BY <1>1, Zenon DEF Operations, LinuxAddAuthorizedKey
<1>2. CASE os = "openbsd"
  BY <1>2, Zenon DEF Operations, OpenBSDAddAuthorizedKey
<1>3. CASE os = "freebsd"
  BY <1>3, Zenon DEF Operations, FreeBSDAddAuthorizedKey
<1>4. CASE os = "netbsd"
  BY <1>4, Zenon DEF Operations, NetBSDAddAuthorizedKey
<1> QED BY <1>1, <1>2, <1>3, <1>4 DEF AllOSes

LEMMA OperationsKept ==
    ASSUME os' = os
    PROVE  Operations' = Operations
BY Zenon DEF Operations

LEMMA FirstOperation ==
    ASSUME os \in AllOSes
    PROVE  Len(Operations) \in Nat /\ Len(Operations) > 1 /\ Operations[1] = "mkdir"
<1>1. CASE os = "linux"
  BY <1>1, OperationTable
<1>2. CASE os = "openbsd"
  BY <1>2, OperationTable
<1>3. CASE os = "freebsd"
  BY <1>3, OperationTable
<1>4. CASE os = "netbsd"
  BY <1>4, OperationTable
<1> QED BY <1>1, <1>2, <1>3, <1>4 DEF AllOSes

\* The operation after the one the call is at is o.
Follows(o) == pc < Len(Operations) /\ Operations[pc + 1] = o

\* The directory first; it has its owner, then its permissions or the other
\* way round.
LEMMA NextDirectoryOperation ==
    ASSUME os \in AllOSes, pc \in 1..Len(Operations)
    PROVE  /\ At("mkdir") /\ os \in {"linux", "freebsd"} => Follows("chownDir")
           /\ At("mkdir") /\ os \in {"openbsd", "netbsd"} => Follows("chmodDir")
           /\ At("chownDir") /\ os = "linux" => Follows("chmodDir")
           /\ At("chownDir") /\ os # "linux" => Follows("compare")
           /\ At("chmodDir") => os # "freebsd"
           /\ At("chmodDir") /\ os = "linux" => Follows("compare")
           /\ At("chmodDir") /\ os # "linux" => Follows("chownDir")
<1> USE DEF At, Follows
<1>1. CASE os = "linux"
  <2>1. Operations =
          <<"mkdir", "chownDir", "chmodDir", "compare", "replace", "chown">>
    BY <1>1, OperationTable
  <2> QED BY <1>1, <2>1
<1>2. CASE os = "openbsd"
  <2>1. Operations =
          <<"mkdir", "chmodDir", "chownDir", "compare", "truncate", "fill",
            "chmod", "chown">>
    BY <1>2, OperationTable
  <2> QED BY <1>2, <2>1
<1>3. CASE os = "freebsd"
  <2>1. Operations =
          <<"mkdir", "chownDir", "compare", "truncate", "fill", "chmod",
            "chown">>
    BY <1>3, OperationTable
  <2> QED BY <1>3, <2>1
<1>4. CASE os = "netbsd"
  <2>1. Operations =
          <<"mkdir", "chmodDir", "chownDir", "compare", "open", "append",
            "chmod", "chown">>
    BY <1>4, OperationTable
  <2> QED BY <1>4, <2>1
<1> QED BY <1>1, <1>2, <1>3, <1>4 DEF AllOSes

LEMMA NextFileOperation ==
    ASSUME os \in AllOSes, pc \in 1..Len(Operations)
    PROVE  /\ At("compare") /\ os = "linux" => Follows("replace")
           /\ At("compare") /\ os \in {"openbsd", "freebsd"} => Follows("truncate")
           /\ At("compare") /\ os = "netbsd" => Follows("open")
           /\ At("replace") => os = "linux" /\ Follows("chown")
           /\ At("truncate") => os \in {"openbsd", "freebsd"} /\ Follows("fill")
           /\ At("fill") => os \in {"openbsd", "freebsd"} /\ Follows("chmod")
           /\ At("open") => os = "netbsd" /\ Follows("append")
           /\ At("append") => os = "netbsd" /\ Follows("chmod")
           /\ At("chmod") => os # "linux" /\ Follows("chown")
           /\ At("chown") => pc = Len(Operations)
<1> USE DEF At, Follows
<1>1. CASE os = "linux"
  <2>1. Operations =
          <<"mkdir", "chownDir", "chmodDir", "compare", "replace", "chown">>
    BY <1>1, OperationTable
  <2> QED BY <1>1, <2>1
<1>2. CASE os = "openbsd"
  <2>1. Operations =
          <<"mkdir", "chmodDir", "chownDir", "compare", "truncate", "fill",
            "chmod", "chown">>
    BY <1>2, OperationTable
  <2> QED BY <1>2, <2>1
<1>3. CASE os = "freebsd"
  <2>1. Operations =
          <<"mkdir", "chownDir", "compare", "truncate", "fill", "chmod",
            "chown">>
    BY <1>3, OperationTable
  <2> QED BY <1>3, <2>1
<1>4. CASE os = "netbsd"
  <2>1. Operations =
          <<"mkdir", "chmodDir", "chownDir", "compare", "open", "append",
            "chmod", "chown">>
    BY <1>4, OperationTable
  <2> QED BY <1>4, <2>1
<1> QED BY <1>1, <1>2, <1>3, <1>4 DEF AllOSes

\* The two ways in which Advance ends an operation.
LEMMA AdvanceGoesOn ==
    ASSUME os \in AllOSes, pc \in 1..Len(Operations), Advance, NEW o, Follows(o)
    PROVE  /\ pc' \in 0..Len(Operations)' /\ reply' = reply
           /\ \A p : At(p)' <=> p = o
BY OperationsKept, FirstOperation DEF Advance, Follows, At

LEMMA AdvanceReturns ==
    ASSUME os \in AllOSes, Advance, pc = Len(Operations)
    PROVE  pc' = 0 /\ reply' = "ok" /\ \A p : ~At(p)'
BY DEF Advance, At

-----------------------------------------------------------------------------
(* The inductive invariant.                                                *)

Running == pc # 0 => reply = "none"

AtCompare == At("compare")
AtFile ==
    \/ At("replace") \/ At("truncate") \/ At("fill") \/ At("open")
    \/ At("append") \/ At("chmod") \/ At("chown")
Written == At("chmod") \/ At("chown")

\* The directory is there once it has been made, and has its owner and its
\* permissions before the key file is looked at.
Directory ==
    /\ At("chownDir") \/ At("chmodDir") => dir # NoDir
    /\ At("chownDir") /\ os \in {"openbsd", "netbsd"} => dir.strict
    /\ At("chmodDir") /\ os = "linux" => dir.owner = Account
    /\ AtCompare \/ AtFile =>
          dir # NoDir /\ dir.owner = Account /\ (os # "freebsd" => dir.strict)

\* The file is as the call found it until it is written, and is written only
\* if the key is not in it.
File ==
    /\ (pc # 0 /\ ~AtFile) \/ At("replace") \/ At("truncate") \/ At("open")
          => file = before
    /\ AtFile => ~Finds(before, asked) /\ buf = Lines(before) \o <<<<asked.key>>>>
    /\ At("fill") \/ At("append") \/ Written => file # NoFile
    /\ At("fill") => file.ended
    /\ At("append") => Lines(file) = Lines(before) /\ (Ended(before) => file.ended)
    /\ Written /\ (os = "netbsd" => Ended(before)) => file.lines = buf
    /\ At("chown") => file.strict

IInv ==
    TypeOK /\ Running /\ Directory /\ File /\ SuccessListsKey
    /\ WrittenFileIsUsable

LEMMA Typed ==
    ASSUME TypeOK
    PROVE  /\ os \in AllOSes
           /\ asked.key \in Keys /\ <<<<asked.key>>>> \in Seq(Line)
           /\ Lines(before) \in Seq(Line) /\ Lines(file) \in Seq(Line)
           /\ file # NoFile => file \in FileType /\ Lines(file) = file.lines
           /\ dir # NoDir => dir \in DirType
           /\ pc # 0 => pc \in 1..Len(Operations)
           /\ NoFile \notin FileType /\ NoDir \notin DirType
<1>1. os \in AllOSes
  BY AuthorizedKeysAssumption DEF TypeOK, AllOSes
<1>2. asked.key \in Keys
  BY AuthorizedKeysAssumption DEF TypeOK
<1>3. <<<<asked.key>>>> \in Seq(Line)
  BY <1>2 DEF Line
<1>4. Lines(before) \in Seq(Line) /\ Lines(file) \in Seq(Line)
  BY LinesTyped DEF TypeOK
<1>5. file # NoFile => file \in FileType /\ Lines(file) = file.lines
  BY DEF TypeOK, Lines
<1>6. pc # 0 => pc \in 1..Len(Operations)
  BY <1>1, FirstOperation DEF TypeOK
<1> QED BY <1>1, <1>2, <1>3, <1>4, <1>5, <1>6, AuthorizedKeysAssumption DEF TypeOK

LEMMA InitInvariant == Init => IInv
<1> SUFFICES ASSUME Init PROVE IInv
  OBVIOUS
<1>1. \A o : ~At(o)
  BY DEF Init, At
<1>2. os \in AllOSes /\ file \in FileType \cup {NoFile} /\ before = file
  BY AuthorizedKeysAssumption DEF Init, AllOSes
<1>3. TypeOK
  <2>1. pc \in 0..Len(Operations) /\ buf \in Seq(Line) /\ faults \in 0..MaxFaults
    BY <1>2, FirstOperation, AuthorizedKeysAssumption DEF Init, Line
  <2>2. ~Ended(file) => file.lines # <<>>
    BY AuthorizedKeysAssumption DEF Init, Ended
  <2> QED BY <1>2, <2>1, <2>2 DEF Init, TypeOK
<1>4. Running /\ Directory /\ File
  BY <1>1 DEF Init, Running, Directory, File, AtCompare, AtFile, Written
<1>5. SuccessListsKey /\ WrittenFileIsUsable
  BY DEF Init, SuccessListsKey, WrittenFileIsUsable
<1> QED BY <1>3, <1>4, <1>5 DEF IInv

\* A call begins.
LEMMA CallStep ==
    ASSUME IInv, Call
    PROVE  IInv' /\ file' = file
<1> USE DEF Call
<1>1. os \in AllOSes /\ os' = os /\ Operations' = Operations
  BY Typed, OperationsKept DEF IInv
<1>2. \A o : At(o)' <=> o = "mkdir"
  BY <1>1, FirstOperation DEF At
<1>3. TypeOK'
  BY <1>1, FirstOperation DEF IInv, TypeOK, Ended
<1>4. Running' /\ Directory' /\ File'
  BY <1>2 DEF Running, Directory, File, AtCompare, AtFile, Written
<1>5. SuccessListsKey' /\ WrittenFileIsUsable'
  BY DEF SuccessListsKey, WrittenFileIsUsable
<1> QED BY <1>3, <1>4, <1>5 DEF IInv

\* What is known wherever a call is running, and what is said of the file
\* before and after a step on Linux.
LEMMA InCall ==
    ASSUME IInv, pc # 0
    PROVE  os \in AllOSes /\ pc \in 1..Len(Operations) /\ reply = "none"
BY Typed DEF IInv, Running

Keeps == os = "linux" => Listed(file) \subseteq Listed(file')

\* An operation that is not the last one leaves what is said of the end of a
\* call to those that follow.
LEMMA GoesOn ==
    ASSUME IInv, pc # 0, Advance, NEW o, Follows(o)
    PROVE  /\ pc' \in 0..Len(Operations)' /\ reply' = "none"
           /\ UNCHANGED <<os, asked, before, faults>>
           /\ \A p : At(p)' <=> p = o
           /\ Running' /\ SuccessListsKey' /\ WrittenFileIsUsable'
<1>1. /\ pc' \in 0..Len(Operations)' /\ reply' = reply
      /\ \A p : At(p)' <=> p = o
  BY InCall, AdvanceGoesOn
<1>2. reply' = "none"
  BY <1>1, InCall
<1> QED
  BY <1>1, <1>2 DEF Advance, Running, SuccessListsKey, WrittenFileIsUsable

LEMMA DirectoryStep ==
    ASSUME IInv, MkdirSsh \/ ChownSsh \/ ChmodSsh
    PROVE  IInv' /\ Keeps
<1>1. pc # 0 /\ Advance /\ UNCHANGED <<file, buf>>
  BY DEF MkdirSsh, ChownSsh, ChmodSsh, At
<1>2. os \in AllOSes /\ pc \in 1..Len(Operations)
  BY <1>1, InCall
<1>3. file = before
  BY <1>1 DEF IInv, File, AtFile, MkdirSsh, ChownSsh, ChmodSsh, At
<1>4. PICK o \in {"chownDir", "chmodDir", "compare"} :
         /\ Follows(o)
         /\ dir' \in DirType
         /\ o = "chownDir" /\ os \in {"openbsd", "netbsd"} => dir'.strict
         /\ o = "chmodDir" /\ os = "linux" => dir'.owner = Account
         /\ o = "compare" => dir'.owner = Account /\ (os # "freebsd" => dir'.strict)
  <2>1. CASE MkdirSsh
    <3>1. dir' \in DirType
      BY <2>1, Typed DEF MkdirSsh, DirType, IInv
    <3>2. \/ os \in {"linux", "freebsd"} /\ Follows("chownDir")
          \/ os \in {"openbsd", "netbsd"} /\ Follows("chmodDir")
      BY <1>2, <2>1, NextDirectoryOperation DEF MkdirSsh, AllOSes
    <3> QED BY <3>1, <3>2
  <2>2. CASE ChownSsh
    <3>1. dir \in DirType /\ (os \in {"openbsd", "netbsd"} => dir.strict)
      BY <2>2, Typed DEF ChownSsh, IInv, Directory
    <3>2. /\ dir' \in DirType /\ dir'.owner = Account
          /\ os \in {"openbsd", "netbsd"} => dir'.strict
      BY <2>2, <3>1 DEF ChownSsh, DirType
    <3>3. \/ os = "linux" /\ Follows("chmodDir")
          \/ os \in {"openbsd", "freebsd", "netbsd"} /\ Follows("compare")
      BY <1>2, <2>2, NextDirectoryOperation DEF ChownSsh, AllOSes
    <3> QED BY <3>2, <3>3
  <2>3. CASE ChmodSsh
    <3>1. dir \in DirType /\ (os = "linux" => dir.owner = Account)
      BY <2>3, Typed DEF ChmodSsh, IInv, Directory
    <3>2. /\ dir' \in DirType /\ dir'.strict
          /\ os = "linux" => dir'.owner = Account
      BY <2>3, <3>1 DEF ChmodSsh, DirType
    <3>3. \/ os = "linux" /\ Follows("compare")
          \/ os \in {"openbsd", "netbsd"} /\ Follows("chownDir")
      BY <1>2, <2>3, NextDirectoryOperation DEF ChmodSsh, AllOSes
    <3> QED BY <3>2, <3>3
  <2> QED BY <2>1, <2>2, <2>3
<1>5. /\ pc' \in 0..Len(Operations)' /\ reply' = "none"
      /\ UNCHANGED <<os, asked, before, faults>>
      /\ \A p : At(p)' <=> p = o
      /\ Running' /\ SuccessListsKey' /\ WrittenFileIsUsable'
  BY <1>1, <1>4, GoesOn
<1>6. TypeOK'
  BY <1>1, <1>4, <1>5 DEF IInv, TypeOK, Ended
<1>7. Directory'
  BY <1>4, <1>5, Typed DEF Directory, AtCompare, AtFile, IInv
<1>8. File'
  BY <1>1, <1>3, <1>4, <1>5 DEF File, AtFile, Written
<1> QED BY <1>1, <1>5, <1>6, <1>7, <1>8 DEF IInv, Keeps

\* A key that is listed ends the call; one that is not goes into the buffer.
LEMMA CompareStep ==
    ASSUME IInv, KeyPresent \/ KeyMissing
    PROVE  IInv' /\ Keeps
<1>1. /\ pc # 0 /\ At("compare") /\ file = before
      /\ UNCHANGED <<os, asked, dir, file, before, faults>>
  BY DEF KeyPresent, KeyMissing, Advance, At, IInv, File, AtFile
<1>2. os \in AllOSes /\ pc \in 1..Len(Operations) /\ Operations' = Operations
  BY <1>1, InCall, OperationsKept
<1>3. CASE KeyPresent
  <2>1. Finds(before, asked) /\ asked.key \in Listed(before)
    BY <1>1, <1>3 DEF KeyPresent, Present, Finds
  <2>2. pc' = 0 /\ buf' = buf /\ reply' = "ok" /\ \A p : ~At(p)'
    BY <1>3 DEF KeyPresent, At
  <2>3. TypeOK'
    BY <1>1, <1>2, <2>2, FirstOperation DEF IInv, TypeOK, Ended
  <2>4. Running' /\ Directory' /\ File' /\ WrittenFileIsUsable'
    BY <1>1, <2>2 DEF Running, Directory, File, AtCompare, AtFile, Written,
       WrittenFileIsUsable
  <2>5. SuccessListsKey'
    BY <1>1, <2>1 DEF SuccessListsKey, Listed
  <2> QED BY <1>1, <2>3, <2>4, <2>5 DEF IInv, Keeps
<1>4. CASE KeyMissing
  <2>1. PICK o \in {"replace", "truncate", "open"} : Follows(o)
    BY <1>1, <1>2, NextFileOperation DEF AllOSes
  <2>2. Advance /\ ~Finds(before, asked) /\ buf' = Lines(before) \o <<<<asked.key>>>>
    BY <1>1, <1>4 DEF KeyMissing, Present
  <2>3. /\ pc' \in 0..Len(Operations)' /\ reply' = "none"
        /\ \A p : At(p)' <=> p = o
        /\ Running' /\ SuccessListsKey' /\ WrittenFileIsUsable'
    BY <1>1, <2>1, <2>2, GoesOn
  <2>4. buf' \in Seq(Line)
    BY <2>2, Typed DEF IInv
  <2>5. TypeOK'
    BY <1>1, <2>3, <2>4 DEF IInv, TypeOK, Ended
  <2>6. Directory'
    BY <1>1, <2>1, <2>3 DEF IInv, Directory, AtCompare, AtFile
  <2>7. File'
    <3>1. ~Finds(before, asked)' /\ buf' = Lines(before)' \o <<<<asked'.key>>>>
      BY <1>1, <2>2 DEF Finds, Listed, Lines
    <3> QED BY <1>1, <2>1, <2>3, <3>1 DEF File, AtFile, Written
  <2> QED BY <1>1, <2>3, <2>5, <2>6, <2>7 DEF IInv, Keeps
<1> QED BY <1>3, <1>4

\* What the operations on the file know: the call is about a key that is not
\* listed, and the directory is as it should be.
LEMMA AtFileFacts ==
    ASSUME IInv, AtFile
    PROVE  /\ pc # 0 /\ os \in AllOSes /\ pc \in 1..Len(Operations)
           /\ ~Finds(before, asked)
           /\ buf = Lines(before) \o <<<<asked.key>>>> /\ buf # <<>>
           /\ dir \in DirType /\ dir.owner = Account
           /\ os # "freebsd" => dir.strict
<1>1. pc # 0
  BY DEF AtFile, At
<1>2. ~Finds(before, asked) /\ buf = Lines(before) \o <<<<asked.key>>>>
  BY DEF IInv, File
<1>3. buf # <<>>
  BY <1>2, Typed DEF IInv
<1>4. /\ dir \in DirType /\ dir.owner = Account
      /\ os # "freebsd" => dir.strict
  BY Typed DEF IInv, Directory
<1> QED BY <1>1, <1>2, <1>3, <1>4, InCall

\* An operation on the file that is followed by another: what has to be shown
\* is what the next one finds.
LEMMA FileGoesOn ==
    ASSUME IInv, AtFile, Advance, UNCHANGED <<dir, buf>>,
           NEW o \in {"chown", "chmod", "fill", "append"}, Follows(o),
           file' \in FileType, file'.ended \/ file'.lines # <<>>,
           o = "fill" => file'.ended,
           o = "append" => /\ Lines(file') = Lines(before)
                           /\ Ended(before) => file'.ended,
           o \in {"chmod", "chown"} /\ (os = "netbsd" => Ended(before))
               => file'.lines = buf,
           o = "chown" => file'.strict
    PROVE  IInv'
<1>1. /\ pc' \in 0..Len(Operations)' /\ reply' = "none"
      /\ UNCHANGED <<os, asked, before, faults>>
      /\ \A p : At(p)' <=> p = o
      /\ Running' /\ SuccessListsKey' /\ WrittenFileIsUsable'
  BY AtFileFacts, GoesOn
<1>2. file' # NoFile /\ (~Ended(file)' => ~file'.ended)
  BY Typed DEF IInv, Ended
<1>3. TypeOK'
  BY <1>1, <1>2 DEF IInv, TypeOK
<1>4. Directory'
  BY <1>1, AtFileFacts, Typed DEF IInv, Directory, AtCompare, AtFile
<1>5. ~Finds(before, asked)' /\ Ended(before)' = Ended(before)
  BY <1>1, AtFileFacts DEF Finds, Listed, Lines, Ended
<1>6. buf' = Lines(before)' \o <<<<asked'.key>>>> /\ Lines(before)' = Lines(before)
  BY <1>1, AtFileFacts DEF Lines
<1>7. File'
  <2>1. Lines(file)' = Lines(file')
    BY DEF Lines
  <2>2. o = "append" => Lines(file)' = Lines(before)' /\ (Ended(before)' => file'.ended)
    BY <1>5, <1>6, <2>1
  <2>3. o \in {"chmod", "chown"} /\ (os' = "netbsd" => Ended(before)') => file'.lines = buf'
    BY <1>1, <1>5
  <2> QED BY <1>1, <1>2, <1>5, <1>6, <2>2, <2>3 DEF File, AtFile, Written
<1> QED BY <1>1, <1>3, <1>4, <1>7 DEF IInv

LEMMA ReplaceStep ==
    ASSUME IInv, ReplaceFile
    PROVE  IInv' /\ Keeps
<1>1. AtFile /\ At("replace") /\ Advance /\ UNCHANGED <<dir, buf>>
  BY DEF ReplaceFile, AtFile
<1>2. Follows("chown") /\ file = before
  BY <1>1, AtFileFacts, NextFileOperation DEF IInv, File
<1>3. /\ file' \in FileType /\ file'.ended /\ file'.strict
      /\ file'.lines = buf
  BY DEF ReplaceFile, FileType, IInv, TypeOK
<1>4. IInv'
  BY <1>1, <1>2, <1>3, FileGoesOn
<1>5. Listed(file) \subseteq Listed(file')
  <2>1. file'.lines = Lines(file) \o <<<<asked.key>>>>
    BY <1>1, <1>2, <1>3, AtFileFacts
  <2>2. file \in FileType \cup {NoFile} /\ asked.key \in Keys
    BY Typed DEF IInv, TypeOK
  <2> QED BY <1>3, <2>1, <2>2, AddedKey
<1> QED BY <1>4, <1>5 DEF Keeps

\* OpenBSD and FreeBSD.
LEMMA RewriteStep ==
    ASSUME IInv, TruncateFile \/ FillFile
    PROVE  IInv' /\ Keeps
<1>1. AtFile /\ Advance /\ UNCHANGED <<dir, buf>>
  BY DEF TruncateFile, FillFile, AtFile
<1>2. CASE TruncateFile
  <2>1. os # "linux" /\ Follows("fill")
    BY <1>1, <1>2, AtFileFacts, NextFileOperation DEF TruncateFile
  <2>2. file' \in FileType /\ file'.ended
    <3>1. <<>> \in Seq(Line)
      OBVIOUS
    <3>2. CASE file = NoFile
      BY <1>2, <3>1, <3>2 DEF TruncateFile, NewFile, FileType
    <3>3. CASE file # NoFile
      BY <1>2, <3>1, <3>3, Typed DEF TruncateFile, FileType, IInv
    <3> QED BY <3>2, <3>3
  <2> QED BY <1>1, <2>1, <2>2, FileGoesOn DEF Keeps
<1>3. CASE FillFile
  <2>1. os # "linux" /\ Follows("chmod") /\ file # NoFile /\ file.ended
    BY <1>1, <1>3, AtFileFacts, NextFileOperation DEF FillFile, IInv, File
  <2>2. file' \in FileType /\ file'.ended /\ file'.lines = buf
    BY <1>3, <2>1, Typed DEF FillFile, FileType, IInv, TypeOK
  <2> QED BY <1>1, <2>1, <2>2, FileGoesOn DEF Keeps
<1> QED BY <1>2, <1>3

LEMMA LastReplaced ==
    ASSUME NEW S, NEW s \in Seq(S), s # <<>>, NEW e \in S
    PROVE  /\ [s EXCEPT ![Len(s)] = e] \in Seq(S)
           /\ [s EXCEPT ![Len(s)] = e] # <<>>
<1> DEFINE r == [s EXCEPT ![Len(s)] = e]
<1>1. DOMAIN s = 1..Len(s) /\ Len(s) \in Nat /\ Len(s) \in DOMAIN s
  OBVIOUS
<1>2. r \in [1..Len(s) -> S]
  BY <1>1
<1>3. r \in Seq(S) /\ Len(s) \in DOMAIN r
  BY <1>1, <1>2
<1> QED BY <1>3

\* A word at the end of the file is a line of its own, or part of one that
\* lacks its newline.
LEMMA AppendedTyped ==
    ASSUME NEW f \in FileType, f.ended \/ f.lines # <<>>,
           NEW word \in Keys \cup {Cut}
    PROVE  /\ Appended(f, word) \in Seq(Line) /\ Appended(f, word) # <<>>
           /\ f.ended => Appended(f, word) = f.lines \o <<<<word>>>>
<1>1. f.lines \in Seq(Line) /\ <<word>> \in Line
  BY FileTyped DEF Line
<1>2. CASE f.ended
  <2>1. Appended(f, word) = Append(f.lines, <<word>>)
    BY <1>2 DEF Appended
  <2> QED BY <1>1, <1>2, <2>1
<1>3. CASE ~f.ended
  <2> DEFINE lines == f.lines
             last == Append(lines[Len(lines)], word)
  <2>1. Appended(f, word) = [lines EXCEPT ![Len(lines)] = last]
    BY <1>3 DEF Appended
  <2>2. Len(lines) \in DOMAIN lines
    BY <1>1, <1>3
  <2>3. last \in Line
    BY <1>1, <2>2 DEF Line
  <2> HIDE DEF lines, last
  <2>4. /\ [lines EXCEPT ![Len(lines)] = last] \in Seq(Line)
        /\ [lines EXCEPT ![Len(lines)] = last] # <<>>
    BY <1>1, <1>3, <2>3, LastReplaced DEF lines
  <2> QED BY <1>3, <2>1, <2>4
<1> QED BY <1>2, <1>3

\* NetBSD.
LEMMA AppendStep ==
    ASSUME IInv, OpenFile \/ AppendKey
    PROVE  IInv' /\ Keeps
<1>1. AtFile /\ Advance /\ UNCHANGED <<dir, buf>>
  BY DEF OpenFile, AppendKey, AtFile
<1>2. CASE OpenFile
  <2>1. os # "linux" /\ Follows("append") /\ file = before
    BY <1>1, <1>2, AtFileFacts, NextFileOperation DEF OpenFile, IInv, File
  <2>2. /\ file' \in FileType /\ Lines(file') = Lines(before)
        /\ file'.ended \/ file'.lines # <<>>
        /\ Ended(before) => file'.ended
    <3>1. CASE file = NoFile
      <4>1. file' = NewFile /\ <<>> \in Seq(Line)
        BY <1>2, <3>1 DEF OpenFile
      <4>2. file' \in FileType /\ file'.lines = <<>> /\ file'.ended
        BY <4>1 DEF NewFile, FileType
      <4> QED BY <2>1, <3>1, <4>2, LinesTyped, FileTyped DEF Lines
    <3>2. CASE file # NoFile
      BY <1>2, <2>1, <3>2, Typed DEF OpenFile, IInv, TypeOK, Ended
    <3> QED BY <3>1, <3>2
  <2> QED BY <1>1, <2>1, <2>2, FileGoesOn DEF Keeps
<1>3. CASE AppendKey
  <2>1. /\ os = "netbsd" /\ Follows("chmod") /\ file # NoFile
        /\ Lines(file) = Lines(before) /\ (Ended(before) => file.ended)
    BY <1>1, <1>3, AtFileFacts, NextFileOperation DEF AppendKey, IInv, File
  <2>2. /\ file \in FileType /\ Lines(file) = file.lines /\ asked.key \in Keys
        /\ file.ended \/ file.lines # <<>>
    BY <2>1, Typed DEF IInv, TypeOK, Ended
  <2>3. /\ Appended(file, asked.key) \in Seq(Line)
        /\ Ended(before) => Appended(file, asked.key) = buf
    BY <1>1, <2>1, <2>2, AppendedTyped, AtFileFacts
  <2>4. file' \in FileType /\ file'.ended /\ file'.lines = Appended(file, asked.key)
    <3> DEFINE lines == Appended(file, asked.key)
    <3>1. file' = [file EXCEPT !.lines = lines, !.ended = TRUE] /\ lines \in Seq(Line)
      BY <1>3, <2>3 DEF AppendKey
    <3> HIDE DEF lines
    <3>2. file' \in FileType /\ file'.ended /\ file'.lines = lines
      BY <2>2, <3>1 DEF FileType
    <3> QED BY <3>2 DEF lines
  <2> QED BY <1>1, <2>1, <2>3, <2>4, FileGoesOn DEF Keeps
<1> QED BY <1>2, <1>3

LEMMA ChmodStep ==
    ASSUME IInv, ChmodFile
    PROVE  IInv' /\ Keeps
<1>1. AtFile /\ At("chmod") /\ Advance /\ UNCHANGED <<dir, buf>>
  BY DEF ChmodFile, AtFile
<1>2. os # "linux" /\ Follows("chown") /\ file # NoFile
  BY <1>1, AtFileFacts, NextFileOperation DEF IInv, File, Written
<1>3. file \in FileType /\ (file.ended \/ file.lines # <<>>)
  BY <1>2, Typed DEF IInv, TypeOK, Ended
<1>4. /\ file' \in FileType /\ file'.strict
      /\ file'.lines = file.lines /\ file'.ended = file.ended
  BY <1>3 DEF ChmodFile, FileType
<1>5. (os = "netbsd" => Ended(before)) => file'.lines = buf
  BY <1>1, <1>4 DEF IInv, File, Written
<1> QED BY <1>1, <1>2, <1>3, <1>4, <1>5, FileGoesOn DEF Keeps

\* The last operation: the call returns nil.
LEMMA ChownStep ==
    ASSUME IInv, ChownFile
    PROVE  IInv' /\ Keeps
<1>1. AtFile /\ At("chown") /\ Advance /\ UNCHANGED <<dir, buf>>
  BY DEF ChownFile, AtFile
<1>2. /\ os \in AllOSes /\ ~Finds(before, asked) /\ dir.owner = Account
      /\ buf = Lines(before) \o <<<<asked.key>>>>
      /\ os # "freebsd" => dir.strict
      /\ pc = Len(Operations)
      /\ UNCHANGED <<os, asked, before, faults>>
  BY <1>1, AtFileFacts, NextFileOperation DEF Advance
<1>3. pc' = 0 /\ reply' = "ok" /\ (\A p : ~At(p)') /\ Operations' = Operations
  BY <1>1, <1>2, AdvanceReturns, OperationsKept
<1>4. file # NoFile /\ file.strict /\ ((os = "netbsd" => Ended(before)) => file.lines = buf)
  BY <1>1 DEF IInv, File, Written
<1>5. file \in FileType /\ (file.ended \/ file.lines # <<>>)
  BY <1>4, Typed DEF IInv, TypeOK, Ended
<1>6. /\ file' \in FileType /\ file'.lines = file.lines /\ file'.ended = file.ended
      /\ file'.owner = Account /\ file'.strict = file.strict /\ file' # NoFile
  BY <1>5, Typed DEF ChownFile, FileType, IInv
<1>7. TypeOK'
  BY <1>1, <1>2, <1>3, <1>5, <1>6, FirstOperation DEF IInv, TypeOK, Ended
<1>8. Running' /\ Directory' /\ File'
  BY <1>3 DEF Running, Directory, File, AtCompare, AtFile, Written
<1>9. SuccessListsKey'
  <2> SUFFICES ASSUME os = "netbsd" => Ended(before)
               PROVE  Listed(before) \cup {asked.key} \subseteq Listed(file')
    BY <1>2 DEF SuccessListsKey, Ended, Listed, Lines
  <2>1. file'.lines = Lines(before) \o <<<<asked.key>>>>
    BY <1>2, <1>4, <1>6
  <2>2. before \in FileType \cup {NoFile} /\ asked.key \in Keys
    BY Typed DEF IInv, TypeOK
  <2> QED BY <1>6, <2>1, <2>2, AddedKey
<1>10. WrittenFileIsUsable'
  BY <1>1, <1>2, <1>4, <1>6 DEF WrittenFileIsUsable
<1>11. Listed(file') = Listed(file)
  BY <1>4, <1>6 DEF Listed, Lines
<1> QED BY <1>7, <1>8, <1>9, <1>10, <1>11 DEF IInv, Keeps

LEMMA SomeLines ==
    ASSUME NEW S, NEW s \in Seq(S), NEW n \in 0..Len(s), NEW e \in S
    PROVE  /\ SubSeq(s, 1, n) \in Seq(S)
           /\ Append(SubSeq(s, 1, n), e) \in Seq(S)
           /\ Append(SubSeq(s, 1, n), e) # <<>>
<1>1. SubSeq(s, 1, n) \in Seq(S)
  OBVIOUS
<1> QED BY <1>1

\* Half a write.
LEMMA HalfFill ==
    ASSUME IInv, At("fill"), NEW f \in Prefixes
    PROVE  f \in FileType /\ (f.ended \/ f.lines # <<>>)
<1>1. /\ file \in FileType /\ file.ended
      /\ buf \in Seq(Line) /\ buf # <<>> /\ Len(buf) \in Nat
  <2>1. AtFile
    BY DEF AtFile
  <2>2. file # NoFile /\ file.ended
    BY DEF IInv, File
  <2>3. buf \in Seq(Line)
    BY DEF IInv, TypeOK
  <2> QED BY <2>1, <2>2, <2>3, AtFileFacts, Typed DEF IInv
<1>2. CASE \E k \in 0..Len(buf) : f = [file EXCEPT !.lines = SubSeq(buf, 1, k)]
  <2>1. PICK k \in 0..Len(buf) : f = [file EXCEPT !.lines = SubSeq(buf, 1, k)]
    BY <1>2
  <2> DEFINE lines == SubSeq(buf, 1, k)
  <2>2. lines \in Seq(Line)
    BY <1>1
  <2>3. f = [file EXCEPT !.lines = lines]
    BY <2>1
  <2> HIDE DEF lines
  <2> QED BY <1>1, <2>2, <2>3 DEF FileType
<1>3. CASE \E k \in 0..(Len(buf) - 1) :
         f = [file EXCEPT !.lines = Append(SubSeq(buf, 1, k), <<Cut>>),
                          !.ended = FALSE]
  <2>1. PICK k \in 0..(Len(buf) - 1) :
           f = [file EXCEPT !.lines = Append(SubSeq(buf, 1, k), <<Cut>>),
                            !.ended = FALSE]
    BY <1>3
  <2> DEFINE lines == Append(SubSeq(buf, 1, k), <<Cut>>)
  <2>2. lines \in Seq(Line) /\ lines # <<>>
    <3>1. k \in 0..Len(buf) /\ <<Cut>> \in Line
      BY <1>1 DEF Line
    <3> QED BY <1>1, <3>1, SomeLines
  <2>3. f = [file EXCEPT !.lines = lines, !.ended = FALSE]
    BY <2>1
  <2> HIDE DEF lines
  <2> QED BY <1>1, <2>2, <2>3 DEF FileType
<1>4. CASE f = [file EXCEPT !.lines = buf, !.ended = FALSE]
  BY <1>1, <1>4 DEF FileType
<1> QED BY <1>2, <1>3, <1>4 DEF Prefixes

LEMMA HalfAppend ==
    ASSUME IInv, At("append"), NEW word \in {Cut, asked.key},
           NEW f, f = [file EXCEPT !.lines = Appended(file, word), !.ended = FALSE]
    PROVE  f \in FileType /\ f.lines # <<>>
<1>1. /\ file \in FileType /\ (file.ended \/ file.lines # <<>>)
      /\ word \in Keys \cup {Cut}
  <2>1. file # NoFile /\ TypeOK
    BY DEF IInv, File
  <2> QED BY <2>1, Typed DEF TypeOK, Ended
<1> DEFINE lines == Appended(file, word)
<1>2. lines \in Seq(Line) /\ lines # <<>>
  BY <1>1, AppendedTyped
<1>3. f = [file EXCEPT !.lines = lines, !.ended = FALSE]
  OBVIOUS
<1> HIDE DEF lines
<1> QED BY <1>1, <1>2, <1>3 DEF FileType

\* A call that fails or dies: what it leaves is a key file, and on Linux the
\* one it found or the one it wrote.
LEMMA FaultStep ==
    ASSUME IInv, OperationFails \/ Kill
    PROVE  IInv' /\ Keeps
<1>1. /\ pc # 0 /\ Fault /\ Half /\ pc' = 0 /\ reply' \in {"none", "err"}
      /\ UNCHANGED <<os, asked, dir, buf, before>>
  BY DEF OperationFails, Kill
<1>2. os \in AllOSes /\ pc \in 1..Len(Operations) /\ Operations' = Operations
  BY <1>1, InCall, OperationsKept
<1>3. \A p : ~At(p)'
  BY <1>1 DEF At
<1>4. /\ file' \in FileType \cup {NoFile}
      /\ file' # NoFile => file'.ended \/ file'.lines # <<>>
      /\ os = "linux" => file' = file
  <2>1. CASE ~At("fill") /\ ~At("append") /\ UNCHANGED file
    <3>1. file \in FileType \cup {NoFile} /\ (file # NoFile => file.ended \/ file.lines # <<>>)
      BY DEF IInv, TypeOK, Ended
    <3> QED BY <2>1, <3>1
  <2>2. CASE At("fill") /\ file' \in Prefixes
    <3>1. os # "linux"
      BY <1>2, <2>2, NextFileOperation
    <3> QED BY <2>2, <3>1, HalfFill
  <2>3. CASE At("append") /\ \E word \in {Cut, asked.key} :
           file' = [file EXCEPT !.lines = Appended(file, word), !.ended = FALSE]
    <3>1. os # "linux"
      BY <1>2, <2>3, NextFileOperation
    <3>2. file' \in FileType /\ file'.lines # <<>>
      BY <2>3, HalfAppend
    <3> QED BY <3>1, <3>2
  <2> QED BY <1>1, <2>1, <2>2, <2>3 DEF Half
<1>5. TypeOK'
  <2>1. faults' \in 0..MaxFaults
    BY <1>1, AuthorizedKeysAssumption DEF IInv, TypeOK, Fault
  <2>2. pc' \in 0..Len(Operations)'
    BY <1>1, <1>2, FirstOperation
  <2> QED BY <1>1, <1>4, <2>1, <2>2 DEF IInv, TypeOK, Ended
<1>6. Running' /\ Directory' /\ File'
  BY <1>1, <1>3 DEF Running, Directory, File, AtCompare, AtFile, Written
<1>7. SuccessListsKey' /\ WrittenFileIsUsable'
  BY <1>1 DEF SuccessListsKey, WrittenFileIsUsable
<1>8. Keeps
  BY <1>4 DEF Keeps
<1> QED BY <1>5, <1>6, <1>7, <1>8 DEF IInv

LEMMA StutterStep ==
    ASSUME IInv, UNCHANGED vars
    PROVE  IInv' /\ Keeps
<1>1. UNCHANGED <<os, asked, dir, file, buf, pc, reply, before, faults>>
  BY DEF vars
<1>2. Operations' = Operations /\ \A p : At(p)' <=> At(p)
  BY <1>1, OperationsKept DEF At
<1>3. TypeOK' /\ Running' /\ Directory'
  BY <1>1, <1>2 DEF IInv, TypeOK, Running, Directory, AtCompare, AtFile, Ended
<1>4. Finds(before, asked)' <=> Finds(before, asked)
  BY <1>1 DEF Finds, Listed, Lines
<1>5. File'
  BY <1>1, <1>2, <1>4 DEF IInv, File, AtFile, Written, Ended, Lines
<1>6. SuccessListsKey' /\ WrittenFileIsUsable'
  BY <1>1, <1>4 DEF IInv, SuccessListsKey, WrittenFileIsUsable, Listed, Lines, Ended
<1> QED BY <1>1, <1>3, <1>5, <1>6 DEF IInv, Keeps

LEMMA StepInvariant ==
    ASSUME IInv, [Next]_vars
    PROVE  IInv' /\ Keeps
<1>1. CASE Call
  BY <1>1, CallStep DEF Keeps
<1>2. CASE MkdirSsh \/ ChownSsh \/ ChmodSsh
  BY <1>2, DirectoryStep
<1>3. CASE KeyPresent \/ KeyMissing
  BY <1>3, CompareStep
<1>4. CASE ReplaceFile
  BY <1>4, ReplaceStep
<1>5. CASE TruncateFile \/ FillFile
  BY <1>5, RewriteStep
<1>6. CASE OpenFile \/ AppendKey
  BY <1>6, AppendStep
<1>7. CASE ChmodFile
  BY <1>7, ChmodStep
<1>8. CASE ChownFile
  BY <1>8, ChownStep
<1>9. CASE OperationFails \/ Kill
  BY <1>9, FaultStep
<1>10. CASE UNCHANGED vars
  BY <1>10, StutterStep
<1> QED
  BY <1>1, <1>2, <1>3, <1>4, <1>5, <1>6, <1>7, <1>8, <1>9, <1>10 DEF Next, Run

LEMMA Invariance == Spec => []IInv
<1>1. IInv /\ [Next]_vars => IInv'
  BY StepInvariant
<1> QED BY InitInvariant, <1>1, PTL DEF Spec

-----------------------------------------------------------------------------
(* A key stands on one line at most.                                       *)

Good(key) ==
    /\ \A f \in Existing : Once(Lines(f), key)
    /\ os = "freebsd" => [key |-> key, padded |-> TRUE] \notin Asked
Single(key) == Once(Lines(file), key) /\ Once(Lines(before), key)
AllSingle == \A key \in Keys : Good(key) => Single(key)

\* One line that is new or changed does not make a second one.
LEMMA OnceGrown ==
    ASSUME NEW lines, NEW new, NEW key, NEW p, Once(lines, key),
           \A m \in DOMAIN new \ {p} : m \in DOMAIN lines /\ new[m] = lines[m],
           new[p] = <<key>> => \A m \in DOMAIN lines : lines[m] # <<key>>
    PROVE  Once(new, key)
BY DEF Once

LEMMA AppendLast ==
    ASSUME NEW S, NEW s \in Seq(S), NEW e \in S
    PROVE  Append(s, e)[Len(s) + 1] = e /\ Len(Append(s, e)) = Len(s) + 1
OBVIOUS

LEMMA OneWord ==
    ASSUME NEW S, NEW s \in Seq(S), NEW e \in S, NEW k, Append(s, e) = <<k>>
    PROVE  e = k
<1>1. Append(s, e)[Len(s) + 1] = e /\ Len(Append(s, e)) = Len(s) + 1
  BY AppendLast
<1>2. Len(<<k>>) = 1 /\ <<k>>[1] = k /\ Len(s) \in Nat
  OBVIOUS
<1>3. Len(s) = 0
  BY <1>1, <1>2
<1> QED BY <1>1, <1>2, <1>3

LEMMA OnceAdded ==
    ASSUME NEW lines \in Seq(Line), NEW line \in Line, NEW key, Once(lines, key),
           line = <<key>> => \A m \in DOMAIN lines : lines[m] # <<key>>
    PROVE  Once(lines \o <<line>>, key) /\ Once(Append(lines, line), key)
<1> DEFINE new == lines \o <<line>>
<1>1. /\ DOMAIN lines = 1..Len(lines) /\ Len(lines) \in Nat
      /\ DOMAIN new = 1..(Len(lines) + 1)
      /\ \A n \in DOMAIN lines : new[n] = lines[n]
      /\ new[Len(lines) + 1] = line
      /\ Append(lines, line) = new
  <2> HIDE DEF Line
  <2> QED OBVIOUS
<1>2. \A m \in DOMAIN new \ {Len(lines) + 1} : m \in DOMAIN lines /\ new[m] = lines[m]
  BY <1>1
<1>3. new[Len(lines) + 1] = <<key>> => \A m \in DOMAIN lines : lines[m] # <<key>>
  BY <1>1
<1> HIDE DEF new
<1>4. Once(new, key)
  BY <1>2, <1>3, OnceGrown
<1> QED BY <1>1, <1>4 DEF new

LEMMA OncePrefix ==
    ASSUME NEW lines \in Seq(Line), NEW n \in 0..Len(lines), NEW key, Once(lines, key)
    PROVE  SubSeq(lines, 1, n) \in Seq(Line) /\ Once(SubSeq(lines, 1, n), key)
<1> DEFINE new == SubSeq(lines, 1, n)
<1>1. /\ new \in Seq(Line) /\ DOMAIN new \subseteq DOMAIN lines
      /\ \A m \in DOMAIN new : new[m] = lines[m]
  <2> HIDE DEF Line
  <2> QED OBVIOUS
<1> HIDE DEF new
<1>2. Once(new, key)
  BY <1>1 DEF Once
<1> QED BY <1>1, <1>2 DEF new

\* A word at the end of the file, on a line of its own or glued to the last.
LEMMA OnceAppended ==
    ASSUME NEW f \in FileType, f.ended \/ f.lines # <<>>,
           NEW word \in Keys \cup {Cut}, NEW key, Once(f.lines, key),
           word = key => \A m \in DOMAIN f.lines : f.lines[m] # <<key>>
    PROVE  Once(Appended(f, word), key)
<1>1. f.lines \in Seq(Line) /\ <<word>> \in Line
  BY FileTyped DEF Line
<1>2. CASE f.ended
  <2>1. Appended(f, word) = Append(f.lines, <<word>>)
    BY <1>2 DEF Appended
  <2>2. <<word>> = <<key>> => \A m \in DOMAIN f.lines : f.lines[m] # <<key>>
    OBVIOUS
  <2> QED BY <1>1, <2>1, <2>2, OnceAdded
<1>3. CASE ~f.ended
  <2> DEFINE lines == f.lines
             last == Append(lines[Len(lines)], word)
             new == [lines EXCEPT ![Len(lines)] = last]
  <2>1. Appended(f, word) = new
    BY <1>3 DEF Appended
  <2>2. lines[Len(lines)] \in Seq(Keys \cup {Cut}) /\ Len(lines) \in DOMAIN lines
    BY <1>1, <1>3 DEF Line
  <2>3. last = <<key>> => \A m \in DOMAIN lines : lines[m] # <<key>>
    <3> SUFFICES ASSUME last = <<key>> PROVE word = key
      OBVIOUS
    <3> DEFINE glued == lines[Len(lines)]
    <3>1. glued \in Seq(Keys \cup {Cut}) /\ Append(glued, word) = <<key>>
      BY <2>2
    <3> HIDE DEF glued
    <3> QED BY <3>1, OneWord
  <2>4. /\ \A m \in DOMAIN new \ {Len(lines)} : m \in DOMAIN lines /\ new[m] = lines[m]
        /\ new[Len(lines)] = last
    BY <2>2
  <2> HIDE DEF last, new, lines
  <2>5. Once(lines, key)
    BY DEF lines
  <2>6. Once(new, key)
    BY <2>3, <2>4, <2>5, OnceGrown
  <2> QED BY <2>1, <2>6
<1> QED BY <1>2, <1>3

\* What a call that found its key missing is about to write.
LEMMA OnceInBuffer ==
    ASSUME IInv, AtFile, NEW key \in Keys, Good(key), Once(Lines(before), key)
    PROVE  /\ buf \in Seq(Line) /\ Once(buf, key)
           /\ asked.key = key => \A m \in DOMAIN Lines(before) : Lines(before)[m] # <<key>>
<1>1. /\ buf = Lines(before) \o <<<<asked.key>>>> /\ ~Finds(before, asked)
      /\ Lines(before) \in Seq(Line) /\ <<asked.key>> \in Line
      /\ buf \in Seq(Line) /\ asked.key \in Keys /\ asked \in Asked
  <2>1. asked.key \in Keys /\ Lines(before) \in Seq(Line)
    BY Typed DEF IInv
  <2>2. <<asked.key>> \in Line
    BY <2>1 DEF Line
  <2> QED BY <2>1, <2>2 DEF IInv, File, TypeOK
<1>2. asked.key = key => \A m \in DOMAIN Lines(before) : Lines(before)[m] # <<key>>
  <2> SUFFICES ASSUME asked.key = key PROVE key \notin Listed(before)
    BY DEF Listed
  <2>1. ~(os = "freebsd" /\ asked.padded)
    BY <1>1, AuthorizedKeysAssumption DEF Good
  <2> QED BY <1>1, <2>1 DEF Finds
<1>3. <<asked.key>> = <<key>> => asked.key = key
  OBVIOUS
<1>4. Once(Lines(before) \o <<<<asked.key>>>>, key)
  BY <1>1, <1>2, <1>3, OnceAdded
<1> QED BY <1>1, <1>2, <1>4

LEMMA SingleStep ==
    ASSUME IInv, [Next]_vars, NEW key \in Keys, Good(key), Single(key)
    PROVE  Single(key)'
<1>1. /\ os \in AllOSes
      /\ file \in FileType \cup {NoFile}
      /\ file # NoFile => (file.ended \/ file.lines # <<>>) /\ Lines(file) = file.lines
  BY Typed DEF IInv, TypeOK, Ended
<1>2. CASE before' = before /\ Lines(file') = Lines(file)
  BY <1>2 DEF Single, Once
<1>3. CASE Call \/ MkdirSsh \/ ChownSsh \/ ChmodSsh \/ KeyPresent \/ KeyMissing
  BY <1>3 DEF Call, MkdirSsh, ChownSsh, ChmodSsh, KeyPresent, KeyMissing,
              Advance, Single, Once
<1>4. Once(<<>>, key)
  BY DEF Once
<1>5. CASE ReplaceFile \/ FillFile
  <2>1. AtFile /\ before' = before
    BY <1>5 DEF ReplaceFile, FillFile, Advance, AtFile
  <2>2. Lines(file') = buf
    <3>1. CASE ReplaceFile
      <4>1. file' \in FileType /\ file'.lines = buf
        BY <3>1 DEF ReplaceFile, FileType, IInv, TypeOK
      <4> QED BY <4>1, FileLines
    <3>2. CASE FillFile
      <4>1. file \in FileType
        BY <1>1, <3>2 DEF FillFile, IInv, File
      <4>2. file' \in FileType /\ file'.lines = buf
        BY <3>2, <4>1 DEF FillFile, FileType, IInv, TypeOK
      <4> QED BY <4>2, FileLines
    <3> QED BY <1>5, <3>1, <3>2
  <2> QED BY <2>1, <2>2, OnceInBuffer DEF Single
<1>6. CASE TruncateFile \/ OpenFile
  <2>1. before' = before /\ NewFile \in FileType /\ NewFile.lines = <<>>
    BY <1>6, AuthorizedKeysAssumption DEF TruncateFile, OpenFile, Advance, NewFile, FileType
  <2>2. Lines(file') = <<>> \/ file' = file
    <3>1. CASE file = NoFile
      <4>1. file' = NewFile
        BY <1>6, <3>1 DEF TruncateFile, OpenFile
      <4> QED BY <2>1, <4>1, FileLines
    <3>2. CASE file # NoFile /\ TruncateFile
      <4>1. <<>> \in Seq(Line)
        OBVIOUS
      <4>2. file' \in FileType /\ file'.lines = <<>>
        BY <1>1, <3>2, <4>1 DEF TruncateFile, FileType
      <4> QED BY <4>2, FileLines
    <3> QED BY <1>6, <3>1, <3>2 DEF OpenFile
  <2> QED BY <1>2, <1>4, <2>1, <2>2 DEF Single, Once
<1>7. CASE ChmodFile \/ ChownFile
  <2>1. file \in FileType /\ before' = before
    BY <1>1, <1>7 DEF ChmodFile, ChownFile, IInv, File, Written, Advance
  <2>2. file' \in FileType /\ file'.lines = file.lines
    BY <1>7, <2>1 DEF ChmodFile, ChownFile, FileType
  <2> QED BY <1>2, <2>1, <2>2, FileLines
<1>8. ASSUME At("append"), before' = before, NEW word \in {asked.key, Cut},
             NEW e \in BOOLEAN,
             file' = [file EXCEPT !.lines = Appended(file, word), !.ended = e]
      PROVE  Single(key)'
  <2>1. AtFile /\ file \in FileType /\ Lines(file) = Lines(before)
    BY <1>1, <1>8 DEF AtFile, IInv, File
  <2>2. word \in Keys \cup {Cut} /\ (word = key => asked.key = key)
    BY Typed, AuthorizedKeysAssumption DEF IInv
  <2>3. word = key => \A m \in DOMAIN file.lines : file.lines[m] # <<key>>
    BY <1>1, <2>1, <2>2, OnceInBuffer, FileTyped DEF Single
  <2>4. Once(Appended(file, word), key) /\ Appended(file, word) \in Seq(Line)
    BY <1>1, <2>1, <2>2, <2>3, OnceAppended, AppendedTyped, FileTyped DEF Single
  <2> DEFINE new == Appended(file, word)
  <2>5. file' = [file EXCEPT !.lines = new, !.ended = e] /\ new \in Seq(Line)
    BY <1>8, <2>4
  <2> HIDE DEF new
  <2>6. file' \in FileType /\ file'.lines = new
    BY <2>1, <2>5 DEF FileType
  <2> QED BY <1>8, <2>4, <2>6, FileLines DEF Single, new
<1>9. CASE AppendKey
  BY <1>8, <1>9 DEF AppendKey, Advance
<1>10. CASE OperationFails \/ Kill
  <2>1. Half /\ before' = before
    BY <1>10 DEF OperationFails, Kill
  <2>2. CASE At("append") /\ \E word \in {Cut, asked.key} :
           file' = [file EXCEPT !.lines = Appended(file, word), !.ended = FALSE]
    BY <1>8, <2>1, <2>2
  <2>3. CASE At("fill") /\ file' \in Prefixes
    <3>1. buf \in Seq(Line) /\ Once(buf, key) /\ file' \in FileType
      BY <2>3, OnceInBuffer, HalfFill DEF AtFile, Single
    <3>2. file \in FileType /\ Len(buf) \in Nat /\ <<Cut>> \in Line
      BY <1>1, <2>3, <3>1 DEF IInv, File, Line
    <3>3. \/ file'.lines = buf
          \/ \E k \in 0..Len(buf) : file'.lines = SubSeq(buf, 1, k)
          \/ \E k \in 0..Len(buf) : file'.lines = Append(SubSeq(buf, 1, k), <<Cut>>)
      <4>1. CASE \E k \in 0..Len(buf) : file' = [file EXCEPT !.lines = SubSeq(buf, 1, k)]
        BY <3>2, <4>1 DEF FileType
      <4>2. CASE \E k \in 0..(Len(buf) - 1) :
               file' = [file EXCEPT !.lines = Append(SubSeq(buf, 1, k), <<Cut>>),
                                    !.ended = FALSE]
        <5>1. PICK k \in 0..(Len(buf) - 1) :
                 file' = [file EXCEPT !.lines = Append(SubSeq(buf, 1, k), <<Cut>>),
                                      !.ended = FALSE]
          BY <4>2
        <5>2. k \in 0..Len(buf) /\ file'.lines = Append(SubSeq(buf, 1, k), <<Cut>>)
          BY <3>2, <5>1 DEF FileType
        <5> QED BY <5>2
      <4>3. CASE file' = [file EXCEPT !.lines = buf, !.ended = FALSE]
        BY <3>2, <4>3 DEF FileType
      <4> QED BY <2>3, <4>1, <4>2, <4>3 DEF Prefixes
    <3>4. Cut # key
      BY AuthorizedKeysAssumption
    <3>5. Once(file'.lines, key)
      <4>1. ASSUME NEW k \in 0..Len(buf)
            PROVE  /\ Once(SubSeq(buf, 1, k), key)
                   /\ Once(Append(SubSeq(buf, 1, k), <<Cut>>), key)
        <5> DEFINE part == SubSeq(buf, 1, k)
        <5>1. part \in Seq(Line) /\ Once(part, key)
          BY <3>1, OncePrefix
        <5>2. <<Cut>> # <<key>>
          BY <3>4
        <5> HIDE DEF part
        <5>3. Once(Append(part, <<Cut>>), key)
          BY <3>2, <5>1, <5>2, OnceAdded
        <5> QED BY <5>1, <5>3 DEF part
      <4> QED BY <3>1, <3>3, <4>1
    <3> QED BY <2>1, <3>1, <3>5, FileLines DEF Single
  <2> QED BY <1>2, <2>1, <2>2, <2>3 DEF Half
<1> QED
  BY <1>2, <1>3, <1>5, <1>6, <1>7, <1>9, <1>10 DEF Next, Run, vars

LEMMA SinglesInvariance == Spec => [](IInv /\ AllSingle)
<1>1. Init => AllSingle
  BY DEF Init, AllSingle, Good, Single
<1>2. IInv /\ AllSingle /\ [Next]_vars => AllSingle'
  <2> SUFFICES ASSUME IInv, AllSingle, [Next]_vars, NEW key \in Keys, Good(key)'
               PROVE  Single(key)'
    BY DEF AllSingle
  <2>1. os' = os
    BY DEF Next, Run, vars, Call, MkdirSsh, ChownSsh, ChmodSsh, KeyPresent,
           KeyMissing, ReplaceFile, TruncateFile, FillFile, OpenFile, AppendKey,
           ChmodFile, ChownFile, Advance, OperationFails, Kill
  <2>2. Good(key)
    BY <2>1 DEF Good, Lines, Once
  <2> QED BY <2>2, SingleStep DEF AllSingle
<1> QED BY Invariance, <1>1, <1>2, PTL DEF Spec

-----------------------------------------------------------------------------
(* The theorems.                                                           *)

\* Every variable keeps its type, and a key file that does not end on a
\* newline has a line that lacks it.
THEOREM TypeCorrect == Spec => []TypeOK
<1>1. IInv => TypeOK
  BY DEF IInv
<1> QED BY <1>1, Invariance, PTL

\* AddAuthorizedKey that returned nil has listed its key and kept the others,
\* whatever earlier calls that failed or died left in the file; on NetBSD if
\* the file ended on a newline.
THEOREM KeyListed == Spec => []SuccessListsKey
<1>1. IInv => SuccessListsKey
  BY DEF IInv
<1> QED BY <1>1, Invariance, PTL

\* A call that wrote and returned nil leaves the file and ~/.ssh as sshd wants
\* them.
THEOREM FileUsable == Spec => []WrittenFileIsUsable
<1>1. IInv => WrittenFileIsUsable
  BY DEF IInv
<1> QED BY <1>1, Invariance, PTL

\* No key comes to stand on two lines, whichever calls fail or die, unless the
\* image lists it twice or a call on FreeBSD pads it.
THEOREM KeysListedOnce == Spec => []NoKeyTwice
<1>1. IInv /\ AllSingle => NoKeyTwice
  BY DEF AllSingle, Good, Single, NoKeyTwice
<1> QED BY <1>1, SinglesInvariance, PTL

\* On Linux a key that is listed stays listed through every step of a call
\* (atomicWrite).
THEOREM LinuxKeysKept == Spec => LinuxLosesNoKey
<1>1. IInv /\ [Next]_vars => [os = "linux" => Listed(file) \subseteq Listed(file')]_vars
  BY StepInvariant DEF Keeps
<1> QED BY <1>1, Invariance, PTL DEF Spec, LinuxLosesNoKey
==============================================================================
