--------------------------- MODULE WriteFileProofs ---------------------------
(***************************************************************************)
(* Proofs about WriteFile, for any contents, permissions and owners and    *)
(* any number of calls and faults.                                         *)
(*                                                                         *)
(* The inductive invariant follows the temporary file through the          *)
(* operations of a call (TempFile), and says that the path is untouched    *)
(* until the rename (Path).                                                *)
(***************************************************************************)
EXTENDS WriteFile, TLAPS

-----------------------------------------------------------------------------
(* The order of the operations on each system, one operation at a time.    *)

LEMMA OperationTable ==
    ASSUME os \in AllOSes
    PROVE  /\ os = "linux" =>
                 Operations = <<"mkdir", "create", "write", "chmod", "sync",
                                "rename", "chown">>
           /\ os \in {"openbsd", "freebsd"} =>
                 Operations = <<"mkdir", "create", "write", "chmod",
                                "chownTemp", "rename">>
           /\ os = "netbsd" =>
                 Operations = <<"create", "write", "chmod", "chownTemp",
                                "sync", "rename">>
<1>1. CASE os = "linux"
  BY <1>1, Zenon DEF Operations, LinuxWriteFile
<1>2. CASE os = "openbsd"
  BY <1>2, Zenon DEF Operations, OpenBSDWriteFile
<1>3. CASE os = "freebsd"
  BY <1>3, Zenon DEF Operations, FreeBSDWriteFile
<1>4. CASE os = "netbsd"
  BY <1>4, Zenon DEF Operations, NetBSDWriteFile
<1> QED BY <1>1, <1>2, <1>3, <1>4 DEF AllOSes

\* The operation after the one the call is at is o.
Follows(o) == pc < Len(Operations) /\ Operations[pc + 1] = o

\* What comes after the operation a call is at.
LEMMA NextOperation ==
    ASSUME os \in AllOSes, pc \in 1..Len(Operations)
    PROVE  /\ At("mkdir") => Follows("create")
           /\ At("create") => Follows("write")
           /\ At("write") => Follows("chmod")
           /\ At("chmod") /\ os = "linux" => Follows("sync")
           /\ At("chmod") /\ os # "linux" => Follows("chownTemp")
           /\ At("chownTemp") => os # "linux"
           /\ At("chownTemp") /\ os = "netbsd" => Follows("sync")
           /\ At("chownTemp") /\ os # "netbsd" => Follows("rename")
           /\ At("sync") => Follows("rename") /\ os \in {"linux", "netbsd"}
           /\ At("rename") /\ os = "linux" => Follows("chown")
           /\ At("rename") /\ os # "linux" => pc = Len(Operations)
           /\ At("chown") => os = "linux" /\ pc = Len(Operations)
<1> USE DEF At, Follows
<1>1. CASE os = "linux"
  <2>1. Operations = <<"mkdir", "create", "write", "chmod", "sync", "rename",
                       "chown">>
    BY <1>1, OperationTable
  <2> QED BY <1>1, <2>1
<1>2. CASE os \in {"openbsd", "freebsd"}
  <2>1. Operations = <<"mkdir", "create", "write", "chmod", "chownTemp",
                       "rename">>
    BY <1>2, OperationTable
  <2> QED BY <1>2, <2>1
<1>3. CASE os = "netbsd"
  <2>1. Operations = <<"create", "write", "chmod", "chownTemp", "sync",
                       "rename">>
    BY <1>3, OperationTable
  <2> QED BY <1>3, <2>1
<1> QED BY <1>1, <1>2, <1>3 DEF AllOSes

\* Every list begins before anything is written to the temporary file.
LEMMA FirstOperation ==
    ASSUME os \in AllOSes
    PROVE  /\ Len(Operations) \in Nat /\ Len(Operations) >= 1
           /\ Operations[1] \in {"mkdir", "create"}
<1>1. CASE os = "linux"
  <2>1. Operations = <<"mkdir", "create", "write", "chmod", "sync", "rename",
                       "chown">>
    BY <1>1, OperationTable
  <2> QED BY <2>1
<1>2. CASE os \in {"openbsd", "freebsd"}
  <2>1. Operations = <<"mkdir", "create", "write", "chmod", "chownTemp",
                       "rename">>
    BY <1>2, OperationTable
  <2> QED BY <2>1
<1>3. CASE os = "netbsd"
  <2>1. Operations = <<"create", "write", "chmod", "chownTemp", "sync",
                       "rename">>
    BY <1>3, OperationTable
  <2> QED BY <2>1
<1> QED BY <1>1, <1>2, <1>3 DEF AllOSes

\* No step changes the system, nor so its list.
LEMMA OperationsKept ==
    ASSUME os' = os
    PROVE  Operations' = Operations
BY Zenon DEF Operations

\* The two ways in which Advance ends an operation.
LEMMA AdvanceGoesOn ==
    ASSUME os \in AllOSes, pc \in 1..Len(Operations), Advance,
           NEW b, Follows(b)
    PROVE  /\ pc' \in 1..Len(Operations)' /\ reply' = reply
           /\ \A o : At(o)' <=> o = b
BY OperationsKept, FirstOperation DEF Advance, Follows, At

\* Only a rename gives up what is in place.
LEMMA AdvanceRemembers ==
    ASSUME Advance, lost \in BOOLEAN
    PROVE  /\ lost' \in BOOLEAN
           /\ pc # Len(Operations) /\ ~At("rename") => lost' = lost
BY DEF Advance

LEMMA AdvanceReturns ==
    ASSUME os \in AllOSes, Advance, pc = Len(Operations)
    PROVE  pc' = 0 /\ reply' = "ok" /\ \A o : ~At(o)'
BY DEF Advance, At

-----------------------------------------------------------------------------
(* The inductive invariant.                                                *)

\* A call that runs has been accepted, and has not returned.
Running == pc # 0 => Accepts /\ reply = "none"

\* The temporary file at each operation: none before create, then finished
\* one attribute at a time, and none when no call runs.
TempFile ==
    /\ pc = 0 \/ At("mkdir") \/ At("create") \/ At("chown") => temp = NoFile
    /\ At("write") \/ At("chmod") \/ At("chownTemp") \/ At("sync") \/ At("rename")
          => temp # NoFile
    /\ At("chmod") \/ At("chownTemp") \/ At("sync") \/ At("rename")
          => temp.body = req.body
    /\ At("chownTemp") \/ At("sync") \/ At("rename") => temp.perm = req.perm
    /\ os # "linux" /\ (At("sync") \/ At("rename")) => temp.owner = req.owner
    /\ os \in {"linux", "netbsd"} /\ At("rename") => synced

\* Until the rename the path is as the call found it; only Linux has an
\* operation after it, and it finds the new file.
Path ==
    /\ pc # 0 /\ ~At("chown") => target = before
    /\ At("chown") => /\ target # NoFile
                      /\ target.body = req.body /\ target.perm = req.perm

Whole(f) == f # NoFile => f.body # Torn

\* Where data is synced, what a loss of power may leave at the path is whole.
WholeFiles ==
    /\ Whole(target) \/ os \in {"openbsd", "freebsd"}
    /\ os \in {"linux", "netbsd"} => \A f \in onDisk : Whole(f)

IInv ==
    TypeOK /\ Running /\ TempFile /\ Path /\ WholeFiles
    /\ ReadersSeeWholeFiles /\ ErrorLeavesNothing

LEMMA InitInvariant == Init => IInv
<1> SUFFICES ASSUME Init PROVE IInv
  OBVIOUS
<1> USE WriteFileAssumption DEF Init
<1>1. os \in AllOSes /\ Len(Operations) \in Nat
  BY FirstOperation
<1>2. TypeOK
  <2>1. target \in FileType \cup {NoFile}
    BY DEF FileType
  <2>2. pc \in 0..Len(Operations) /\ faults \in 0..MaxFaults
    BY <1>1
  <2> QED BY <2>1, <2>2 DEF TypeOK
<1>3. Running /\ TempFile /\ Path
  BY DEF Running, TempFile, Path, At
<1>4. WholeFiles
  BY DEF WholeFiles, Whole
<1>5. ReadersSeeWholeFiles /\ ErrorLeavesNothing
  BY DEF ReadersSeeWholeFiles, ErrorLeavesNothing
<1> QED BY <1>2, <1>3, <1>4, <1>5 DEF IInv

\* A call that begins: the first operation creates the temporary file, or the
\* directory for it.
LEMMA BeginStep ==
    ASSUME IInv, CallRefused \/ CallConverged \/ CallWrites \/ ExaminationFails
    PROVE  IInv'
<1> USE WriteFileAssumption
<1>1. os \in AllOSes /\ Operations' = Operations /\ temp = NoFile
  BY OperationsKept DEF IInv, TypeOK, TempFile, CallRefused, CallConverged,
     CallWrites, ExaminationFails
<1>2. Len(Operations) \in Nat /\ Len(Operations) >= 1
      /\ Operations[1] \in {"mkdir", "create"}
  BY <1>1, FirstOperation
<1>3. TypeOK'
  <2>1. CASE CallWrites \/ ExaminationFails
    BY <1>1, <1>2, <2>1 DEF IInv, TypeOK, CallWrites, ExaminationFails, Fault
  <2>2. CASE CallRefused \/ CallConverged
    BY <1>1, <1>2, <2>2 DEF IInv, TypeOK, CallRefused, CallConverged
  <2> QED BY <2>1, <2>2
<1>4. CASE CallWrites \/ ExaminationFails
  <2> USE <1>4 DEF CallWrites, ExaminationFails
  <2>1. pc' = 1 /\ \A o : At(o)' => o \in {"mkdir", "create"}
    BY <1>1, <1>2 DEF At
  <2>2. Running' /\ TempFile' /\ Path'
    BY <1>1, <2>1 DEF IInv, Running, Accepts, ModeParses, TempFile, Path, Same
  <2>3. WholeFiles' /\ ReadersSeeWholeFiles' /\ ErrorLeavesNothing'
    BY DEF IInv, WholeFiles, Whole, ReadersSeeWholeFiles, ErrorLeavesNothing
  <2> QED BY <1>3, <2>2, <2>3 DEF IInv
<1>5. CASE CallRefused \/ CallConverged
  <2> USE <1>5 DEF CallRefused, CallConverged
  <2>1. pc' = 0 /\ \A o : ~At(o)'
    BY DEF At
  <2>2. Running' /\ TempFile' /\ Path'
    BY <1>1, <2>1 DEF Running, TempFile, Path
  <2>3. WholeFiles' /\ ReadersSeeWholeFiles' /\ ErrorLeavesNothing'
    BY <1>1 DEF IInv, WholeFiles, Whole, ReadersSeeWholeFiles,
       ErrorLeavesNothing
  <2> QED BY <1>3, <2>2, <2>3 DEF IInv
<1> QED BY <1>4, <1>5

\* What holds at every operation but the last one on Linux.
LEMMA BeforePublication ==
    ASSUME IInv, NEW a, At(a), a # "chown"
    PROVE  /\ os \in AllOSes /\ pc \in 1..Len(Operations)
           /\ Accepts /\ req.owner \in Owners /\ reply = "none"
           /\ target = before /\ \A o : At(o) => o = a
<1>1. pc # 0 /\ \A o : At(o) => o = a
  BY DEF At
<1>2. os \in AllOSes /\ Len(Operations) \in Nat
  BY WriteFileAssumption, FirstOperation DEF IInv, TypeOK
<1> QED BY <1>1, <1>2 DEF IInv, TypeOK, RequestType, Running, Accepts, Path

\* A step of the temporary file goes on to the next operation and leaves the
\* path alone.
LEMMA TempStep ==
    ASSUME IInv, NEW a, At(a), a # "chown", NEW b, b # "chown", Follows(b),
           Advance, target' = target, onDisk' = onDisk,
           dir' \in BOOLEAN, synced' \in BOOLEAN, temp' \in FileType \cup {NoFile}
    PROVE  /\ TypeOK' /\ Running' /\ Path' /\ WholeFiles'
           /\ ReadersSeeWholeFiles' /\ ErrorLeavesNothing'
           /\ pc' # 0 /\ \A o : At(o)' <=> o = b
<1>1. /\ os \in AllOSes /\ pc \in 1..Len(Operations) /\ Accepts
      /\ reply = "none" /\ target = before
  BY BeforePublication
<1>2. /\ pc' \in 1..Len(Operations)' /\ reply' = reply
      /\ \A o : At(o)' <=> o = b
  BY <1>1, AdvanceGoesOn
<1>3. Operations' = Operations /\ Len(Operations) \in Nat
  BY <1>1, OperationsKept, FirstOperation DEF Advance
<1>4. TypeOK'
  <2>1. lost' \in BOOLEAN
    BY AdvanceRemembers DEF IInv, TypeOK
  <2> QED BY <1>2, <1>3, <2>1 DEF IInv, TypeOK, Advance
<1>5. Running' /\ Path'
  BY <1>1, <1>2 DEF Running, Path, Accepts, ModeParses, Same, Advance
<1>6. WholeFiles' /\ ReadersSeeWholeFiles' /\ ErrorLeavesNothing'
  BY <1>1, <1>2 DEF IInv, WholeFiles, Whole, ReadersSeeWholeFiles,
     ErrorLeavesNothing, Advance
<1> QED BY <1>2, <1>3, <1>4, <1>5, <1>6

LEMMA PrepareStep ==
    ASSUME IInv, \/ MkdirParent \/ CreateTemp \/ WriteTemp
                 \/ ChmodTemp \/ ChownTemp \/ SyncTemp
    PROVE  IInv'
<1> USE WriteFileAssumption
<1> DEFINE Others == /\ TypeOK' /\ Running' /\ Path' /\ WholeFiles'
                     /\ ReadersSeeWholeFiles' /\ ErrorLeavesNothing'
<1>a. TypeOK /\ TempFile
  BY DEF IInv
<1>b. \A f \in FileType : f # NoFile
  BY DEF FileType
<1>1. CASE MkdirParent
  <2> USE <1>1 DEF MkdirParent
  <2>1. Follows("create") /\ temp = NoFile
    BY <1>a, BeforePublication, NextOperation DEF TempFile
  <2>2. Others /\ pc' # 0 /\ \A o : At(o)' <=> o = "create"
    BY <1>a, <2>1, TempStep DEF TypeOK
  <2>3. TempFile'
    BY <2>1, <2>2 DEF TempFile
  <2> QED BY <2>2, <2>3 DEF IInv
<1>2. CASE CreateTemp
  <2> USE <1>2 DEF CreateTemp
  <2>1. Follows("write")
    BY BeforePublication, NextOperation
  <2>2. temp' \in FileType
    BY DEF FileType
  <2>3. Others /\ pc' # 0 /\ \A o : At(o)' <=> o = "write"
    BY <1>a, <2>1, <2>2, TempStep DEF TypeOK
  <2> HIDE DEF CreateTemp
  <2>4. TempFile'
    BY <1>b, <2>2, <2>3 DEF TempFile
  <2> QED BY <2>3, <2>4 DEF IInv
<1>3. CASE WriteTemp
  <2> USE <1>3 DEF WriteTemp
  <2>1. Follows("chmod") /\ temp \in FileType
    BY <1>a, BeforePublication, NextOperation DEF TempFile, TypeOK
  <2>2. temp' \in FileType /\ temp'.body = req.body
    BY <1>a, <2>1 DEF TypeOK, FileType, RequestType
  <2>3. Others /\ pc' # 0 /\ \A o : At(o)' <=> o = "chmod"
    BY <1>a, <2>1, <2>2, TempStep DEF TypeOK
  <2>4. TempFile'
    BY <1>b, <2>2, <2>3 DEF TempFile, Advance
  <2> QED BY <2>3, <2>4 DEF IInv
<1>4. CASE ChmodTemp
  <2> USE <1>4 DEF ChmodTemp
  <2>1. temp \in FileType /\ temp.body = req.body
    BY <1>a DEF TempFile, TypeOK
  <2>2. temp' \in FileType /\ temp'.body = req.body /\ temp'.perm = req.perm
    BY <1>a, <2>1 DEF TypeOK, FileType, RequestType
  <2>3. PICK b \in {"sync", "chownTemp"} :
            Follows(b) /\ (b = "sync" => os = "linux")
    BY BeforePublication, NextOperation
  <2>4. Others /\ pc' # 0 /\ \A o : At(o)' <=> o = b
    BY <1>a, <2>2, <2>3, TempStep DEF TypeOK
  <2>5. TempFile'
    BY <1>b, <2>2, <2>3, <2>4 DEF TempFile, Advance
  <2> QED BY <2>4, <2>5 DEF IInv
<1>5. CASE ChownTemp
  <2> USE <1>5 DEF ChownTemp
  <2>1. temp \in FileType /\ temp.body = req.body /\ temp.perm = req.perm
    BY <1>a DEF TempFile, TypeOK
  <2>2. req.owner \in Owners
    BY BeforePublication
  <2>3. /\ temp' \in FileType /\ temp'.body = req.body
        /\ temp'.perm = req.perm /\ temp'.owner = req.owner
    BY <1>a, <2>1, <2>2 DEF TypeOK, FileType, RequestType
  <2>4. PICK b \in {"sync", "rename"} :
            Follows(b) /\ (b = "rename" => os \notin {"linux", "netbsd"})
    BY BeforePublication, NextOperation
  <2>5. Others /\ pc' # 0 /\ \A o : At(o)' <=> o = b
    BY <1>a, <2>3, <2>4, TempStep DEF TypeOK
  <2>6. TempFile'
    BY <1>b, <2>3, <2>4, <2>5 DEF TempFile, Advance
  <2> QED BY <2>5, <2>6 DEF IInv
<1>6. CASE SyncTemp
  <2> USE <1>6 DEF SyncTemp
  <2>1. Follows("rename")
    BY BeforePublication, NextOperation
  <2>2. Others /\ pc' # 0 /\ \A o : At(o)' <=> o = "rename"
    BY <1>a, <2>1, TempStep DEF TypeOK
  <2>3. TempFile'
    BY <1>a, <2>2 DEF TempFile, Advance
  <2> QED BY <2>2, <2>3 DEF IInv
<1> QED BY <1>1, <1>2, <1>3, <1>4, <1>5, <1>6

\* The rename publishes a finished file: off Linux the call returns, on Linux
\* the owner is still to be set.
LEMMA RenameStep ==
    ASSUME IInv, Rename
    PROVE  IInv' /\ \/ /\ os = "linux" /\ reply' = "none"
                       /\ lost' = (lost \/ Same(target))
                    \/ reply' = "ok" /\ Same(target)'
<1> USE WriteFileAssumption DEF Rename
<1>1. /\ os \in AllOSes /\ pc \in 1..Len(Operations) /\ Accepts
      /\ reply = "none"
  BY BeforePublication
<1>2. /\ TypeOK /\ temp \in FileType /\ temp # NoFile
      /\ temp.body = req.body /\ temp.perm = req.perm
      /\ os # "linux" => temp.owner = req.owner
      /\ os \in {"linux", "netbsd"} => synced
  BY DEF IInv, TypeOK, TempFile
<1>3. req.body \in Bodies /\ Whole(temp)
  BY <1>2 DEF TypeOK, RequestType, Whole
<1>4. target' = temp /\ temp' = NoFile /\ os' = os /\ req' = req
  BY DEF Advance
<1>5. onDisk' \subseteq FileType \cup {NoFile}
  <2>1. [temp EXCEPT !.body = Torn] \in FileType
    BY <1>2 DEF FileType
  <2> QED BY <1>2, <2>1 DEF TypeOK
<1>6. WholeFiles'
  BY <1>2, <1>3, <1>4 DEF IInv, WholeFiles, Whole
<1>7. /\ Operations' = Operations /\ Len(Operations) \in Nat
      /\ lost' \in BOOLEAN
  BY <1>1, <1>2, OperationsKept, FirstOperation, AdvanceRemembers
     DEF Advance, TypeOK
<1>8. CASE os = "linux"
  <2>1. /\ pc' \in 1..Len(Operations)' /\ reply' = "none"
        /\ \A o : At(o)' <=> o = "chown"
    BY <1>1, <1>8, NextOperation, AdvanceGoesOn
  <2>2. TypeOK'
    BY <1>2, <1>4, <1>5, <1>7, <2>1 DEF TypeOK, Advance
  <2>3. Running' /\ TempFile' /\ Path'
    BY <1>1, <1>2, <1>4, <1>8, <2>1
       DEF Running, Accepts, ModeParses, TempFile, Path, Advance
  <2>4. ReadersSeeWholeFiles' /\ ErrorLeavesNothing'
    BY <1>2, <1>4, <1>8, <2>1 DEF ReadersSeeWholeFiles, ErrorLeavesNothing
  <2>5. lost' = (lost \/ Same(target))
    <3>1. pc < Len(Operations)
      BY <1>1, <1>8, NextOperation DEF Follows
    <3> QED BY <1>1, <1>7, <3>1 DEF Advance
  <2> QED BY <1>6, <1>8, <2>1, <2>2, <2>3, <2>4, <2>5 DEF IInv
<1>9. CASE os # "linux"
  <2>1. pc' = 0 /\ reply' = "ok" /\ \A o : ~At(o)'
    BY <1>1, <1>9, NextOperation, AdvanceReturns
  <2>2. TypeOK'
    BY <1>2, <1>4, <1>5, <1>7, <2>1 DEF TypeOK, Advance
  <2>3. Running' /\ TempFile' /\ Path'
    BY <1>4, <2>1 DEF Running, TempFile, Path
  <2>4. ReadersSeeWholeFiles' /\ ErrorLeavesNothing' /\ Same(target)'
    BY <1>2, <1>4, <1>9, <2>1 DEF ReadersSeeWholeFiles, ErrorLeavesNothing, Same
  <2> QED BY <1>6, <2>1, <2>2, <2>3, <2>4 DEF IInv
<1> QED BY <1>8, <1>9

LEMMA ChownStep ==
    ASSUME IInv, ChownTarget
    PROVE  IInv' /\ reply' = "ok" /\ Same(target)'
<1> USE WriteFileAssumption DEF ChownTarget
<1>1. TypeOK /\ os \in AllOSes /\ pc # 0 /\ Accepts /\ req.owner \in Owners
  BY DEF IInv, TypeOK, At, Running, Accepts, RequestType
<1>2. Len(Operations) \in Nat /\ pc \in 1..Len(Operations)
  BY <1>1, FirstOperation DEF TypeOK
<1>3. os = "linux" /\ pc = Len(Operations)
  BY <1>1, <1>2, NextOperation
<1>4. pc' = 0 /\ reply' = "ok" /\ \A o : ~At(o)'
  BY <1>1, <1>3, AdvanceReturns
<1>5. /\ target \in FileType /\ target.body = req.body
      /\ target.perm = req.perm /\ target # NoFile
  BY <1>1 DEF IInv, Path, TypeOK
<1>6. /\ target' \in FileType /\ target'.body = req.body
      /\ target'.perm = req.perm /\ target'.owner = req.owner
  BY <1>1, <1>5 DEF FileType
<1>7. /\ onDisk' \subseteq FileType \cup {NoFile}
      /\ (\A f \in onDisk : Whole(f)) => \A f \in onDisk' : Whole(f)
  <2>1. \A f \in onDisk \ {NoFile} :
            /\ [f EXCEPT !.owner = req.owner] \in FileType
            /\ [f EXCEPT !.owner = req.owner].body = f.body
    BY <1>1 DEF TypeOK, FileType
  <2>2. \A f \in onDisk' : f \in onDisk
            \/ \E g \in onDisk \ {NoFile} : f = [g EXCEPT !.owner = req.owner]
    OBVIOUS
  <2>3. onDisk' \subseteq FileType \cup {NoFile}
    BY <1>1, <2>1, <2>2 DEF TypeOK
  <2>4. ASSUME \A f \in onDisk : Whole(f), NEW f \in onDisk' PROVE Whole(f)
    <3>1. CASE f \in onDisk
      BY <2>4, <3>1
    <3>2. ASSUME NEW g \in onDisk \ {NoFile}, f = [g EXCEPT !.owner = req.owner]
          PROVE  Whole(f)
      <4>1. f.body = g.body /\ g.body # Torn
        BY <2>1, <2>4, <3>2 DEF Whole
      <4> QED BY <4>1 DEF Whole
    <3> QED BY <2>2, <3>1, <3>2
  <2> QED BY <2>3, <2>4
<1>8. Operations' = Operations /\ lost' \in BOOLEAN
  BY <1>1, OperationsKept, AdvanceRemembers DEF Advance, TypeOK
<1>9. TypeOK'
  BY <1>1, <1>2, <1>4, <1>6, <1>7, <1>8 DEF TypeOK, Advance
<1>10. target' # NoFile /\ Same(target)'
  <2>1. \A f \in FileType : f # NoFile
    BY DEF FileType
  <2> QED BY <1>6, <2>1 DEF Same, Advance
<1>11. temp' = NoFile /\ os' = os /\ req' = req /\ target'.body = target.body
  BY <1>5, <1>6 DEF IInv, TempFile, Advance
<1>12. Running' /\ TempFile' /\ Path'
  BY <1>4, <1>11 DEF Running, TempFile, Path
<1>13. WholeFiles'
  BY <1>3, <1>5, <1>7, <1>11 DEF IInv, WholeFiles, Whole
<1>14. ReadersSeeWholeFiles' /\ ErrorLeavesNothing'
  BY <1>3, <1>4, <1>6, <1>11 DEF ReadersSeeWholeFiles, ErrorLeavesNothing
<1> QED BY <1>4, <1>9, <1>10, <1>12, <1>13, <1>14 DEF IInv

\* Failures, kills and losses of power leave no call and no temporary file
\* behind; of a call that is past its rename the path is kept.
LEMMA FaultStep ==
    ASSUME IInv, \/ CreateTempNoDir \/ ComparisonFails \/ OperationFails
                 \/ Kill \/ LosePower \/ WriteBack
    PROVE  IInv'
<1> USE WriteFileAssumption
<1>1. os \in AllOSes /\ Operations' = Operations /\ Len(Operations) \in Nat
  BY FirstOperation, OperationsKept
     DEF IInv, TypeOK, CreateTempNoDir, ComparisonFails, OperationFails, Kill,
         LosePower, WriteBack
<1>2. CASE CreateTempNoDir
  <2> USE <1>2 DEF CreateTempNoDir
  <2>1. temp = NoFile /\ target = before /\ \A o : ~At(o)'
    BY BeforePublication DEF IInv, TempFile, At
  <2>2. TypeOK'
    BY <1>1 DEF IInv, TypeOK, FileType
  <2>3. Running' /\ TempFile' /\ Path' /\ WholeFiles'
    BY <2>1 DEF IInv, Running, TempFile, Path, WholeFiles, Whole
  <2>4. ReadersSeeWholeFiles' /\ ErrorLeavesNothing'
    BY <2>1 DEF ReadersSeeWholeFiles, ErrorLeavesNothing
  <2> QED BY <2>2, <2>3, <2>4 DEF IInv
<1>3. CASE ComparisonFails
  <2> USE <1>3 DEF ComparisonFails, Fault
  <2>1. temp = NoFile /\ \A o : ~At(o)'
    BY DEF IInv, TempFile, At
  <2>2. TypeOK'
    BY <1>1 DEF IInv, TypeOK, FileType
  <2>3. Running' /\ TempFile' /\ Path' /\ WholeFiles'
    BY <2>1 DEF IInv, Running, TempFile, Path, WholeFiles, Whole
  <2>4. ReadersSeeWholeFiles' /\ ErrorLeavesNothing'
    BY <2>1 DEF ReadersSeeWholeFiles, ErrorLeavesNothing
  <2> QED BY <2>2, <2>3, <2>4 DEF IInv
<1>4. CASE OperationFails \/ Kill
  <2> USE <1>4 DEF OperationFails, Kill, Fault
  <2>1. temp' = NoFile /\ pc' = 0 /\ \A o : ~At(o)'
    BY DEF At
  <2>2. TypeOK'
    BY <1>1 DEF IInv, TypeOK, FileType
  <2>3. Running' /\ TempFile' /\ Path' /\ WholeFiles'
    BY <2>1 DEF IInv, Running, TempFile, Path, WholeFiles, Whole
  <2>4. os # "linux" => target = before
    <3>1. At("chown") => os = "linux"
      BY <1>1, NextOperation DEF IInv, TypeOK
    <3> QED BY <3>1 DEF IInv, Path
  <2>5. ReadersSeeWholeFiles' /\ ErrorLeavesNothing'
    BY <2>1, <2>4 DEF IInv, ReadersSeeWholeFiles, ErrorLeavesNothing
  <2> QED BY <2>2, <2>3, <2>5 DEF IInv
<1>5. CASE LosePower
  <2> USE <1>5 DEF LosePower, Fault
  <2>1. temp' = NoFile /\ pc' = 0 /\ \A o : ~At(o)'
    BY DEF At
  <2>2. TypeOK'
    BY <1>1 DEF IInv, TypeOK, FileType
  <2>3. Running' /\ TempFile' /\ Path'
    BY <2>1 DEF IInv, Running, TempFile, Path
  <2>4. WholeFiles'
    BY <1>1 DEF IInv, WholeFiles, AllOSes
  <2>5. ReadersSeeWholeFiles' /\ ErrorLeavesNothing'
    BY <2>1 DEF ReadersSeeWholeFiles, ErrorLeavesNothing
  <2> QED BY <2>2, <2>3, <2>4, <2>5 DEF IInv
<1>6. CASE WriteBack
  <2> USE <1>6 DEF WriteBack
  <2>1. \A o : At(o)' <=> At(o)
    BY <1>1 DEF At
  <2>2. TypeOK'
    BY <1>1 DEF IInv, TypeOK, FileType
  <2>3. Running' /\ TempFile' /\ Path'
    BY <2>1 DEF IInv, Running, Accepts, ModeParses, TempFile, Path, Same
  <2>4. WholeFiles'
    BY DEF IInv, WholeFiles, Whole
  <2>5. ReadersSeeWholeFiles' /\ ErrorLeavesNothing'
    BY DEF IInv, ReadersSeeWholeFiles, ErrorLeavesNothing
  <2> QED BY <2>2, <2>3, <2>4, <2>5 DEF IInv
<1> QED BY <1>2, <1>3, <1>4, <1>5, <1>6

LEMMA StepInvariant == IInv /\ [Next]_vars => IInv'
<1> SUFFICES ASSUME IInv, [Next]_vars PROVE IInv'
  OBVIOUS
<1>1. CASE CallRefused \/ CallConverged \/ CallWrites \/ ExaminationFails
  BY <1>1, BeginStep
<1>2. CASE MkdirParent \/ CreateTemp \/ WriteTemp \/ ChmodTemp \/ ChownTemp \/ SyncTemp
  BY <1>2, PrepareStep
<1>3. CASE Rename
  BY <1>3, RenameStep
<1>4. CASE ChownTarget
  BY <1>4, ChownStep
<1>5. CASE \/ CreateTempNoDir \/ ComparisonFails \/ OperationFails
           \/ Kill \/ LosePower \/ WriteBack
  BY <1>5, FaultStep
<1>6. CASE UNCHANGED vars
  <2>1. Operations' = Operations
    BY <1>6, OperationsKept DEF vars
  <2>2. \A o : At(o)' <=> At(o)
    BY <1>6, <2>1 DEF vars, At
  <2>3. TypeOK'
    BY <1>6, <2>1 DEF IInv, TypeOK, vars
  <2>4. Running' /\ TempFile' /\ Path' /\ WholeFiles'
    BY <1>6, <2>2 DEF IInv, Running, Accepts, ModeParses, TempFile, Path, Same,
       WholeFiles, Whole, vars
  <2>5. ReadersSeeWholeFiles' /\ ErrorLeavesNothing'
    BY <1>6 DEF IInv, ReadersSeeWholeFiles, ErrorLeavesNothing, vars
  <2> QED BY <2>3, <2>4, <2>5 DEF IInv
<1> QED BY <1>1, <1>2, <1>3, <1>4, <1>5, <1>6 DEF Next, Run

LEMMA Invariance == Spec => []IInv
BY InitInvariant, StepInvariant, PTL DEF Spec

\* Every state is well typed: no owner that does not resolve ever reaches a
\* file, which WriteFile sees to by looking it up before it writes.
THEOREM TypeCorrect == Spec => []TypeOK
<1>1. IInv => TypeOK
  BY DEF IInv
<1> QED BY <1>1, Invariance, PTL

\* A reader of the path finds the old file or a finished new one, at every
\* moment of every call and after every failure (atomicWrite).
THEOREM NothingHalfVisible == Spec => []ReadersSeeWholeFiles
<1>1. IInv => ReadersSeeWholeFiles
  BY DEF IInv
<1> QED BY <1>1, Invariance, PTL

\* A call that returned an error has cleaned up, and off Linux has left the
\* path as it was (the deferred os.Remove of atomicWrite).
THEOREM ErrorsAreClean == Spec => []ErrorLeavesNothing
<1>1. IInv => ErrorLeavesNothing
  BY DEF IInv
<1> QED BY <1>1, Invariance, PTL

\* A torn file is found only after a loss of power, and only on the systems
\* whose WriteFile does not sync before it renames.
THEOREM TornOnlyWithoutSync == Spec => []NeverTorn
<1>1. IInv => NeverTorn
  BY DEF IInv, WholeFiles, Whole, NeverTorn
<1> QED BY <1>1, Invariance, PTL

-----------------------------------------------------------------------------
(* The contract.                                                           *)

\* A step of WriteFile as a step of its contract: the effect is not given up,
\* but for what lost remembers.
LEMMA ContractStep ==
    ASSUME IInv, [Next]_vars
    PROVE  \/ /\ Same(target) \/ lost => Same(target)' \/ lost'
              /\ reply' \in {"none", "err"}
           \/ Same(target)' /\ reply' = "ok"
           \/ (Same(target)' <=> Same(target)) /\ lost' = lost /\ reply' = reply
<1>1. CASE CallRefused \/ CallConverged \/ CallWrites \/ ExaminationFails
  BY <1>1 DEF CallRefused, CallConverged, CallWrites, ExaminationFails, Same
<1>2. CASE MkdirParent \/ CreateTemp \/ WriteTemp \/ ChmodTemp \/ ChownTemp \/ SyncTemp
  <2>1. /\ target' = target /\ Advance /\ ~At("rename") /\ reply = "none"
        /\ \E b : Follows(b)
    BY <1>2, BeforePublication, NextOperation
       DEF MkdirParent, CreateTemp, WriteTemp, ChmodTemp, ChownTemp, SyncTemp
  <2>2. lost' = lost /\ reply' = "none" /\ req' = req
    BY <2>1, AdvanceRemembers DEF IInv, TypeOK, Advance, Follows
  <2> QED BY <2>1, <2>2 DEF Same
<1>3. CASE Rename
  BY <1>3, RenameStep
<1>4. CASE ChownTarget
  BY <1>4, ChownStep
<1>5. CASE CreateTempNoDir \/ ComparisonFails \/ OperationFails \/ Kill
  BY <1>5 DEF CreateTempNoDir, ComparisonFails, OperationFails, Kill, Same
<1>6. CASE LosePower \/ WriteBack
  BY <1>6 DEF LosePower, WriteBack, Same
<1>7. CASE UNCHANGED vars
  BY <1>7 DEF vars, Same
<1> QED BY <1>1, <1>2, <1>3, <1>4, <1>5, <1>6, <1>7 DEF Next, Run

\* WriteFile keeps the contract that Apply builds on: a nil error means that
\* the file is in place, and only a loss of power, or on Linux a rewrite that
\* is cut short, may undo what was in place.
THEOREM Contract == Spec => KeepsContract
<1>1. Init => C!Init
  BY DEF Init, C!Init, Same
<1>2. IInv /\ [Next]_vars => [C!Next]_(C!vars)
  <2> SUFFICES ASSUME IInv, [Next]_vars PROVE [C!Next]_(C!vars)
    OBVIOUS
  <2> DEFINE Effect == Same(target) \/ lost
  <2>1. Effect \in BOOLEAN /\ Effect' \in BOOLEAN
    BY DEF Same
  <2>2. CASE (Effect => Effect') /\ reply' \in {"none", "err"}
    BY <2>1, <2>2, Zenon DEF C!Next, C!Proceed, C!Fail
  <2>3. CASE Same(target)' /\ reply' = "ok"
    BY <2>1, <2>3, Zenon DEF C!Next, C!Succeed
  <2>4. CASE (Same(target)' <=> Same(target)) /\ lost' = lost /\ reply' = reply
    BY <2>1, <2>4, Zenon DEF C!vars
  <2> QED BY <2>2, <2>3, <2>4, ContractStep
<1> QED BY <1>1, <1>2, Invariance, PTL DEF Spec, KeepsContract, C!Spec
=============================================================================
