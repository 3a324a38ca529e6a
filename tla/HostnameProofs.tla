---------------------------- MODULE HostnameProofs ----------------------------
(***************************************************************************)
(* Proofs about Hostname, for any names, images and number of faults.      *)
(*                                                                         *)
(* The inductive invariant says what each operation of a call finds: the   *)
(* file is still as the image or an earlier call left it until it is       *)
(* replaced, and it holds the name before the kernel is given it.          *)
(***************************************************************************)
EXTENDS Hostname, WellFoundedInduction, TLAPS

-----------------------------------------------------------------------------
(* The last line that sets a name.                                         *)

LEMMA LeastElement ==
    ASSUME NEW T \in SUBSET Nat, T # {}
    PROVE  \E m \in T : \A k \in T : m <= k
<1>1. PICK m \in T : \A k \in T : ~(<<k, m>> \in OpToRel(<, Nat))
  BY NatLessThanWellFounded, WFMin
<1>2. \A k \in T : k \in Nat /\ m \in Nat
  OBVIOUS
<1>3. ASSUME NEW k \in T, ~(m <= k) PROVE FALSE
  <2>1. k < m
    BY <1>2, <1>3
  <2>2. <<k, m>> \in Nat \X Nat /\ <<k, m>>[1] < <<k, m>>[2]
    BY <1>2, <2>1
  <2>3. <<k, m>> \in OpToRel(<, Nat)
    BY <2>2, Zenon DEF OpToRel
  <2> QED BY <1>1, <2>3, Zenon
<1> QED BY <1>3

\* A bounded set of numbers has a greatest element: the one that is nearest
\* to the bound.
LEMMA GreatestElement ==
    ASSUME NEW b \in Nat, NEW T \in SUBSET (1..b), T # {}
    PROVE  Max(T) \in T /\ \A k \in T : k <= Max(T)
<1> DEFINE D == {b - k : k \in T}
<1>1. D \in SUBSET Nat /\ D # {}
  <2>1. \A k \in T : b - k \in Nat
    OBVIOUS
  <2>2. PICK k \in T : TRUE
    OBVIOUS
  <2>3. b - k \in D
    BY <2>2
  <2> QED BY <2>1, <2>3
<1>2. PICK d \in D : \A e \in D : d <= e
  BY <1>1, LeastElement
<1>3. PICK m \in T : d = b - m
  BY <1>2
<1>4. \A k \in T : m >= k
  <2> TAKE k \in T
  <2>1. b - m <= b - k
    BY <1>2, <1>3
  <2> QED BY <2>1
<1>5. Max(T) \in T /\ \A k \in T : Max(T) >= k
  BY <1>4 DEF Max
<1> QED BY <1>5

\* Nobody sets the name in a file without a name line.
SetsName(c) == {n \in DOMAIN c : c[n] \in Names}

LEMMA LastNameWins ==
    ASSUME NEW c \in Contents
    PROVE  /\ SetsName(c) = {} => DurableName(c) = NoName
           /\ SetsName(c) # {} =>
                 \E n \in SetsName(c) : /\ DurableName(c) = c[n]
                                        /\ \A m \in SetsName(c) : m <= n
<1>1. DOMAIN c = 1..Len(c) /\ Len(c) \in Nat
  BY DEF Contents
<1>2. SetsName(c) = {n \in 1..Len(c) : c[n] \in Names}
  BY <1>1 DEF SetsName
<1>3. SetsName(c) # {} =>
         Max(SetsName(c)) \in SetsName(c) /\ \A k \in SetsName(c) : k <= Max(SetsName(c))
  <2>1. SetsName(c) \in SUBSET (1..Len(c))
    BY <1>2
  <2> QED BY <1>1, <2>1, GreatestElement
<1>4. DurableName(c) = IF SetsName(c) = {} THEN NoName ELSE c[Max(SetsName(c))]
  <2>1. SetsName(c) # {} => Max(SetsName(c)) # 0
    BY <1>1, <1>2, <1>3
  <2> QED BY <1>2, <2>1 DEF DurableName, SelectLastInSeq
<1> QED BY <1>3, <1>4

\* A file with one line says what that line says.
LEMMA OneLine ==
    ASSUME NEW line \in Names \cup {Other, Cut}
    PROVE  /\ <<line>> \in Contents /\ <<>> \in Contents
           /\ DurableName(<<line>>) = IF line \in Names THEN line ELSE NoName
           /\ DurableName(<<>>) = NoName
<1>1. <<line>> \in Contents /\ <<>> \in Contents
  BY DEF Contents
<1>2. SetsName(<<>>) = {}
  BY DEF SetsName
<1>3. SetsName(<<line>>) = IF line \in Names THEN {1} ELSE {}
  BY DEF SetsName
<1> QED BY <1>1, <1>2, <1>3, LastNameWins

LEMMA AtMostOneLine ==
    ASSUME NEW c \in Contents, Len(c) <= 1
    PROVE  c = <<>> \/ \E line \in Names \cup {Other, Cut} : c = <<line>>
<1>1. c \in Seq(Names \cup {Other, Cut}) /\ Len(c) \in Nat
  BY DEF Contents
<1>2. CASE Len(c) = 0
  BY <1>1, <1>2
<1>3. CASE Len(c) = 1
  <2>1. c = <<c[1]>> /\ c[1] \in Names \cup {Other, Cut}
    BY <1>1, <1>3
  <2> QED BY <2>1
<1>4. Len(c) = 0 \/ Len(c) = 1
  <2>1. \A n \in Nat : n <= 1 => n = 0 \/ n = 1
    OBVIOUS
  <2> QED BY <1>1, <2>1
<1> QED BY <1>2, <1>3, <1>4

\* rewriteRcConfHostname does what sysrc does: the name wins, whatever other
\* lines set it, and a line that sets something else stays where it is.
LEMMA RewrittenNames ==
    ASSUME name \in Names, NEW c \in Contents
    PROVE  /\ Rewritten(c) \in Contents
           /\ DurableName(Rewritten(c)) = name
           /\ \A n \in DOMAIN c : c[n] = Other =>
                 n \in DOMAIN Rewritten(c) /\ Rewritten(c)[n] = Other
<1> DEFINE r == Rewritten(c)
<1>1. DOMAIN c = 1..Len(c) /\ Len(c) \in Nat
  BY DEF Contents
<1>2. CASE \E n \in DOMAIN c : c[n] \in Names
  <2>1. r = [n \in 1..Len(c) |-> IF c[n] \in Names THEN name ELSE c[n]]
    BY <1>1, <1>2 DEF Rewritten
  <2>2. r \in Contents /\ DOMAIN r = DOMAIN c
    BY <1>1, <2>1 DEF Contents
  <2>3. SetsName(r) # {} /\ \A n \in SetsName(r) : r[n] = name
    BY <1>1, <1>2, <2>1 DEF SetsName, Contents
  <2>4. DurableName(r) = name
    <3> HIDE DEF r
    <3> QED BY <2>2, <2>3, LastNameWins
  <2>5. \A n \in DOMAIN c : c[n] = Other => r[n] = Other
    BY <1>1, <2>1, HostnameAssumption
  <2> QED BY <2>2, <2>4, <2>5
<1>3. CASE ~\E n \in DOMAIN c : c[n] \in Names
  <2>1. r = Append(c, name)
    BY <1>3 DEF Rewritten
  <2>2. r \in Contents /\ DOMAIN r = 1..(Len(c) + 1) /\ r[Len(c) + 1] = name
        /\ \A n \in DOMAIN c : r[n] = c[n]
    BY <1>1, <2>1 DEF Contents
  <2>3. SetsName(r) = {Len(c) + 1}
    BY <1>1, <1>3, <2>2 DEF SetsName
  <2>4. DurableName(r) = name
    <3> HIDE DEF r
    <3> QED BY <2>2, <2>3, LastNameWins
  <2> QED BY <1>1, <2>2, <2>4
<1> QED BY <1>2, <1>3

-----------------------------------------------------------------------------
(* The operations of each system and their order.                          *)

LEMMA OperationTable ==
    ASSUME os \in OSes
    PROVE  /\ os \in {"linux", "netbsd"} =>
                 Operations = <<"temp", "rename", "hostname">>
           /\ os = "openbsd" => Operations = <<"truncate", "fill", "hostname">>
           /\ os = "freebsd" => Operations = <<"sysrc", "hostname">>
<1>1. os \in {"linux", "openbsd", "freebsd", "netbsd"}
  BY HostnameAssumption
<1>2. CASE os = "linux"
  BY <1>2, Zenon DEF Operations, LinuxSetHostname
<1>3. CASE os = "openbsd"
  BY <1>3, Zenon DEF Operations, OpenBSDSetHostname
<1>4. CASE os = "freebsd"
  BY <1>4, Zenon DEF Operations, FreeBSDSetHostname
<1>5. CASE os = "netbsd"
  BY <1>5, Zenon DEF Operations, NetBSDSetHostname
<1> QED BY <1>1, <1>2, <1>3, <1>4, <1>5

LEMMA OperationsKept ==
    ASSUME os' = os
    PROVE  Operations' = Operations
BY Zenon DEF Operations

\* The operation after the one the call is at is o.
Follows(o) == pc < Len(Operations) /\ Operations[pc + 1] = o

LEMMA NextOperation ==
    ASSUME os \in OSes, pc \in 1..Len(Operations)
    PROVE  /\ At("temp") \/ At("rename") => os \in {"linux", "netbsd"}
           /\ At("truncate") \/ At("fill") => os = "openbsd"
           /\ At("sysrc") => os = "freebsd"
           /\ At("temp") => Follows("rename")
           /\ At("truncate") => Follows("fill")
           /\ At("rename") \/ At("fill") \/ At("sysrc") => Follows("hostname")
           /\ At("hostname") <=> pc = Len(Operations)
<1> USE DEF At, Follows
<1>1. CASE os \in {"linux", "netbsd"}
  <2>1. Operations = <<"temp", "rename", "hostname">>
    BY <1>1, OperationTable
  <2> QED BY <1>1, <2>1
<1>2. CASE os = "openbsd"
  <2>1. Operations = <<"truncate", "fill", "hostname">>
    BY <1>2, OperationTable
  <2> QED BY <1>2, <2>1
<1>3. CASE os = "freebsd"
  <2>1. Operations = <<"sysrc", "hostname">>
    BY <1>3, OperationTable
  <2> QED BY <1>3, <2>1
<1> QED BY <1>1, <1>2, <1>3, HostnameAssumption

LEMMA FirstOperation ==
    ASSUME os \in OSes
    PROVE  /\ Len(Operations) \in Nat /\ Len(Operations) > 1
           /\ Operations[1] \in {"temp", "truncate", "sysrc"}
           /\ Operations[1] = "truncate" <=> os = "openbsd"
<1>1. CASE os \in {"linux", "netbsd"}
  <2>1. Operations = <<"temp", "rename", "hostname">>
    BY <1>1, OperationTable
  <2> QED BY <1>1, <2>1
<1>2. CASE os = "openbsd"
  <2>1. Operations = <<"truncate", "fill", "hostname">>
    BY <1>2, OperationTable
  <2> QED BY <1>2, <2>1
<1>3. CASE os = "freebsd"
  <2>1. Operations = <<"sysrc", "hostname">>
    BY <1>3, OperationTable
  <2> QED BY <1>3, <2>1
<1> QED BY <1>1, <1>2, <1>3, HostnameAssumption

\* The two ways in which Advance ends an operation.
LEMMA AdvanceGoesOn ==
    ASSUME os \in OSes, pc \in 1..Len(Operations), Advance, NEW o, Follows(o)
    PROVE  /\ pc' \in 0..Len(Operations)' /\ reply' = reply
           /\ \A p : At(p)' <=> p = o
BY OperationsKept, FirstOperation DEF Advance, Follows, At

LEMMA AdvanceReturns ==
    ASSUME os \in OSes, Advance, pc = Len(Operations)
    PROVE  pc' = 0 /\ reply' = "ok" /\ \A p : ~At(p)'
BY DEF Advance, At

-----------------------------------------------------------------------------
(* The inductive invariant.                                                *)

Running == pc # 0 => reply = "none"

\* What each operation finds.
Stages ==
    /\ At("rename") => temp = IF RcConf THEN Rewritten(conf) ELSE <<name>>
    /\ At("truncate") => ~Durable
    /\ At("fill") => conf = <<>>
    /\ At("hostname") => Durable

\* The file of Linux and OpenBSD has no second line.
NameFile == ~RcConf => Len(conf) <= 1

IInv ==
    TypeOK /\ Running /\ Stages /\ NameFile /\ LiveNameIsDurable
    /\ NothingElseIsLost

LEMMA NameFacts ==
    ASSUME TypeOK
    PROVE  /\ name \in Names /\ name # NoName
           /\ RcConf <=> os \notin {"linux", "openbsd"}
           /\ os \in {"linux", "openbsd", "freebsd", "netbsd"}
           /\ <<name>> \in Contents /\ DurableName(<<name>>) = name
           /\ <<>> \in Contents /\ DurableName(<<>>) = NoName
BY HostnameAssumption, OneLine DEF TypeOK, RcConf

LEMMA InitInvariant == Init => IInv
<1> SUFFICES ASSUME Init PROVE IInv
  OBVIOUS
<1>1. conf \in Contents /\ image = conf /\ name \in Names /\ os \in OSes
  BY HostnameAssumption DEF Init
<1>2. \A o : ~At(o)
  BY DEF Init, At
<1>3. DurableName(conf) \in Names \cup {NoName}
  BY <1>1, LastNameWins DEF SetsName
<1>4. TypeOK
  <2>1. Len(Operations) \in Nat
    BY <1>1, FirstOperation
  <2>2. <<>> \in Contents
    BY DEF Contents
  <2> QED BY <1>1, <1>3, <2>1, <2>2, HostnameAssumption DEF Init, TypeOK, Booted
<1>5. Running /\ Stages
  BY <1>2 DEF Init, Running, Stages
<1>6. NameFile
  BY <1>1, HostnameAssumption DEF Init, NameFile, RcConf
<1>7. LiveNameIsDurable
  BY <1>1 DEF Init, LiveNameIsDurable, Booted, Durable
<1>8. NothingElseIsLost
  BY <1>1 DEF NothingElseIsLost
<1> QED BY <1>4, <1>5, <1>6, <1>7, <1>8 DEF IInv

\* A step that leaves the file, the machine's names and what is asked as they
\* were keeps what is said of them.
LEMMA UntouchedFile ==
    ASSUME IInv, UNCHANGED <<os, name, conf, live, image>>
    PROVE  NameFile' /\ LiveNameIsDurable' /\ NothingElseIsLost' /\ (Durable' <=> Durable)
BY DEF IInv, NameFile, LiveNameIsDurable, NothingElseIsLost, Durable, RcConf

LEMMA RebootStep ==
    ASSUME IInv, Reboot
    PROVE  IInv' /\ (Durable' <=> Durable)
<1> USE DEF Reboot
<1>1. Operations' = Operations /\ \A o : ~At(o) /\ ~At(o)'
  BY OperationsKept DEF At
<1>2. DurableName(conf) \in Names \cup {NoName}
  BY LastNameWins DEF SetsName, IInv, TypeOK
<1>3. TypeOK'
  BY <1>1, <1>2, HostnameAssumption DEF IInv, TypeOK, Booted
<1>4. Running' /\ Stages' /\ NameFile' /\ NothingElseIsLost' /\ (Durable' <=> Durable)
  BY <1>1 DEF IInv, Running, Stages, NameFile, NothingElseIsLost, RcConf, Durable
<1>5. LiveNameIsDurable'
  BY <1>4 DEF LiveNameIsDurable, Booted, Durable, IInv, TypeOK
<1> QED BY <1>3, <1>4, <1>5 DEF IInv

\* A call that finds the file as it should be goes straight to the kernel; on
\* OpenBSD, one that does not finds another name there, or none.
LEMMA CallStep ==
    ASSUME IInv, CallSetHostname
    PROVE  IInv' /\ (Durable' <=> Durable)
<1> USE DEF CallSetHostname
<1>1. Operations' = Operations /\ os \in OSes /\ os' = os
  BY OperationsKept DEF IInv, TypeOK
<1>2. (Durable' <=> Durable) /\ NameFile' /\ LiveNameIsDurable' /\ NothingElseIsLost'
  BY UntouchedFile
<1>3. /\ Len(Operations) \in Nat /\ Len(Operations) > 1
      /\ Operations[1] \in {"temp", "truncate", "sysrc"}
      /\ Operations[1] = "truncate" <=> os = "openbsd"
  BY <1>1, FirstOperation
<1>4. TypeOK'
  <2>1. temp = <<>>
    BY DEF IInv, TypeOK, At
  <2>2. pc' \in 0..Len(Operations)'
    BY <1>1, <1>3
  <2> QED BY <2>1, <2>2 DEF IInv, TypeOK
<1>5. Running'
  BY DEF Running
<1>6. CASE FileConverged
  <2>1. \A o : At(o)' <=> o = Operations[Len(Operations)]
    BY <1>1, <1>3, <1>6 DEF At
  <2>2. Operations[Len(Operations)] = "hostname"
    <3>1. os \in {"linux", "netbsd"} \/ os = "openbsd" \/ os = "freebsd"
      BY <1>1, HostnameAssumption
    <3> QED BY <1>1, <3>1, OperationTable
  <2>3. Durable
    <3>1. CASE conf = <<name>>
      BY <3>1, NameFacts DEF IInv, Durable
    <3>2. CASE Rewritten(conf) = conf
      BY <3>2, NameFacts, RewrittenNames DEF IInv, TypeOK, Durable
    <3> QED BY <1>6, <3>1, <3>2 DEF FileConverged
  <2>4. Stages'
    BY <1>2, <2>1, <2>2, <2>3 DEF Stages
  <2> QED BY <1>2, <1>4, <1>5, <2>4 DEF IInv
<1>7. CASE ~FileConverged
  <2>1. \A o : At(o)' <=> o = Operations[1]
    BY <1>1, <1>3, <1>7 DEF At
  <2>2. os = "openbsd" => ~Durable
    <3> SUFFICES ASSUME os = "openbsd" PROVE ~Durable
      OBVIOUS
    <3>1. conf # <<name>> /\ Len(conf) <= 1 /\ conf \in Seq(Names \cup {Other, Cut})
      BY <1>7 DEF FileConverged, IInv, NameFile, RcConf, TypeOK, Contents
    <3>2. conf = <<>> \/ \E line \in Names \cup {Other, Cut} : conf = <<line>>
      BY <3>1, AtMostOneLine DEF Contents
    <3> QED BY <3>1, <3>2, NameFacts, OneLine DEF IInv, Durable
  <2>3. Stages'
    BY <1>2, <1>3, <2>1, <2>2 DEF Stages
  <2> QED BY <1>2, <1>4, <1>5, <2>3 DEF IInv
<1> QED BY <1>6, <1>7

\* The new contents are prepared aside.
LEMMA WriteTempStep ==
    ASSUME IInv, WriteTemp
    PROVE  IInv' /\ (Durable' <=> Durable) /\ reply' = reply
<1> USE DEF WriteTemp
<1>1. os \in OSes /\ pc \in 1..Len(Operations) /\ pc # 0
  BY DEF IInv, TypeOK, At
<1>2. Advance /\ Follows("rename") /\ os' = os /\ UNCHANGED <<name, image, faults>>
  BY <1>1, NextOperation DEF Advance
<1>3. pc' \in 0..Len(Operations)' /\ reply' = reply /\ \A p : At(p)' <=> p = "rename"
  BY <1>1, <1>2, AdvanceGoesOn
<1>4. (Durable' <=> Durable) /\ NameFile' /\ LiveNameIsDurable' /\ NothingElseIsLost'
  BY <1>2, UntouchedFile
<1>5. temp' \in Contents
  BY NameFacts, RewrittenNames DEF IInv, TypeOK
<1>6. TypeOK' /\ Running'
  BY <1>1, <1>2, <1>3, <1>5 DEF IInv, TypeOK, Running
<1>7. Stages'
  BY <1>2, <1>3 DEF Stages, RcConf, Rewritten
<1> QED BY <1>3, <1>4, <1>6, <1>7 DEF IInv

\* The file is replaced by one that has the name, and every line of rc.conf
\* that sets something else.
LEMMA ReplaceStep ==
    ASSUME IInv, RenameTemp \/ Sysrc
    PROVE  IInv' /\ Durable' /\ reply' = reply
<1>1. os \in OSes /\ pc \in 1..Len(Operations) /\ pc # 0
  BY DEF IInv, TypeOK, At, RenameTemp, Sysrc
<1>2. Advance /\ Follows("hostname") /\ UNCHANGED <<os, name, live, image, faults>>
  BY <1>1, NextOperation DEF Advance, RenameTemp, Sysrc
<1>3. pc' \in 0..Len(Operations)' /\ reply' = reply /\ \A p : At(p)' <=> p = "hostname"
  BY <1>1, <1>2, AdvanceGoesOn
<1>4. conf' = (IF RcConf THEN Rewritten(conf) ELSE <<name>>) /\ temp' = <<>>
      /\ os # "openbsd"
  <2>1. CASE RenameTemp
    BY <1>1, <2>1, NextOperation DEF IInv, Stages, RenameTemp
  <2>2. CASE Sysrc
    BY <1>1, <2>2, NextOperation DEF IInv, TypeOK, Sysrc, At, RcConf
  <2> QED BY <2>1, <2>2
<1>5. conf' \in Contents /\ DurableName(conf') = name
  BY <1>4, NameFacts, RewrittenNames DEF IInv, TypeOK
<1>6. TypeOK' /\ Running'
  BY <1>1, <1>2, <1>3, <1>4, <1>5, NameFacts DEF IInv, TypeOK, Running
<1>7. Durable' /\ Stages' /\ LiveNameIsDurable'
  BY <1>2, <1>3, <1>5 DEF Durable, Stages, LiveNameIsDurable
<1>8. NameFile'
  BY <1>2, <1>4 DEF NameFile, RcConf
<1>9. NothingElseIsLost'
  <2>1. DurableName(conf)' \in {name, DurableName(image)}'
    BY <1>2, <1>5
  <2>2. ASSUME os # "linux", NEW n \in DOMAIN image, image[n] = Other
        PROVE  n \in DOMAIN conf' /\ conf'[n] = Other
    <3>1. n \in DOMAIN conf /\ conf[n] = Other
      BY <1>4, <2>2 DEF IInv, NothingElseIsLost
    <3>2. conf' = Rewritten(conf)
      BY <1>4, <2>2, NameFacts DEF IInv
    <3> QED BY <3>1, <3>2, NameFacts, RewrittenNames DEF IInv, TypeOK
  <2> QED BY <1>2, <2>1, <2>2 DEF NothingElseIsLost
<1> QED BY <1>3, <1>6, <1>7, <1>8, <1>9 DEF IInv

\* OpenBSD's file is emptied only if it has another name, or none: a kernel
\* that bears the name is never left without it.
LEMMA RewriteStep ==
    ASSUME IInv, TruncateFile \/ FillFile
    PROVE  IInv' /\ (Durable => Durable') /\ reply' = reply
<1>1. os \in OSes /\ pc \in 1..Len(Operations) /\ pc # 0
  BY DEF IInv, TypeOK, At, TruncateFile, FillFile
<1>2. Advance /\ os = "openbsd" /\ UNCHANGED <<os, name, live, temp, image, faults>>
  BY <1>1, NextOperation DEF Advance, TruncateFile, FillFile
<1>3. CASE TruncateFile
  <2>1. pc' \in 0..Len(Operations)' /\ reply' = reply /\ \A p : At(p)' <=> p = "fill"
    BY <1>1, <1>2, <1>3, NextOperation, AdvanceGoesOn DEF TruncateFile
  <2>2. ~Durable /\ conf' = <<>>
    BY <1>3 DEF TruncateFile, IInv, Stages
  <2>3. temp = <<>>
    BY <1>1, <1>3, NextOperation DEF IInv, TypeOK, TruncateFile
  <2>4. TypeOK' /\ Running' /\ Stages'
    BY <1>1, <1>2, <2>1, <2>2, <2>3, NameFacts DEF IInv, TypeOK, Running, Stages
  <2>5. NameFile' /\ LiveNameIsDurable' /\ NothingElseIsLost'
    BY <1>2, <2>2 DEF IInv, NameFile, LiveNameIsDurable, NothingElseIsLost
  <2> QED BY <2>1, <2>2, <2>4, <2>5 DEF IInv
<1>4. CASE FillFile
  <2>1. pc' \in 0..Len(Operations)' /\ reply' = reply /\ \A p : At(p)' <=> p = "hostname"
    BY <1>1, <1>2, <1>4, NextOperation, AdvanceGoesOn DEF FillFile
  <2>2. conf' = <<name>> /\ DurableName(conf') = name
    BY <1>4, NameFacts DEF FillFile, IInv
  <2>3. temp = <<>>
    BY <1>1, <1>4, NextOperation DEF IInv, TypeOK, FillFile
  <2>4. TypeOK' /\ Running' /\ Stages' /\ Durable'
    BY <1>1, <1>2, <2>1, <2>2, <2>3, NameFacts DEF IInv, TypeOK, Running, Stages, Durable
  <2>5. NameFile' /\ LiveNameIsDurable' /\ NothingElseIsLost'
    BY <1>2, <2>2, <2>4 DEF NameFile, LiveNameIsDurable, NothingElseIsLost
  <2> QED BY <2>1, <2>4, <2>5 DEF IInv
<1> QED BY <1>3, <1>4

\* The kernel is named when the file says so, and that ends the call.
LEMMA NameKernelStep ==
    ASSUME IInv, NameKernel
    PROVE  IInv' /\ Durable' /\ reply' = "ok"
<1>1. os \in OSes /\ pc \in 1..Len(Operations) /\ pc # 0
  BY DEF IInv, TypeOK, At, NameKernel
<1>2. Advance /\ pc = Len(Operations) /\ UNCHANGED <<os, name, conf, temp, image, faults>>
  BY <1>1, NextOperation DEF Advance, NameKernel
<1>3. pc' = 0 /\ reply' = "ok" /\ \A p : ~At(p)'
  BY <1>1, <1>2, AdvanceReturns
<1>4. Durable /\ Durable' /\ temp = <<>> /\ live' = name
  <2>1. ~At("rename")
    BY DEF NameKernel, At
  <2> QED BY <1>2, <2>1 DEF IInv, Stages, TypeOK, NameKernel, Durable
<1>5. TypeOK' /\ Running' /\ Stages'
  BY <1>2, <1>3, <1>4, OperationsKept, FirstOperation DEF IInv, TypeOK, Running, Stages
<1>6. NameFile' /\ LiveNameIsDurable' /\ NothingElseIsLost'
  BY <1>2, <1>4 DEF IInv, NameFile, LiveNameIsDurable, NothingElseIsLost, RcConf
<1> QED BY <1>3, <1>4, <1>5, <1>6 DEF IInv

\* A call that fails or dies leaves the file, or on OpenBSD half a name in a
\* file that was empty.
LEMMA FaultStep ==
    ASSUME IInv, OperationFails \/ Kill
    PROVE  IInv' /\ (Durable => Durable') /\ reply' \in {"none", "err"}
<1>1. os \in OSes /\ pc \in 1..Len(Operations)
  BY DEF IInv, TypeOK, OperationFails, Kill
<1>2. /\ Fault /\ Half /\ pc' = 0 /\ reply' \in {"none", "err"}
      /\ UNCHANGED <<os, name, live, image>>
  BY DEF OperationFails, Kill
<1>3. (\A p : ~At(p)') /\ temp' = <<>> /\ Operations' = Operations
  BY <1>2, OperationsKept DEF At, Half
<1>4. CASE conf' = conf
  <2>1. NameFile' /\ LiveNameIsDurable' /\ NothingElseIsLost' /\ (Durable' <=> Durable)
    BY <1>2, <1>4, UntouchedFile
  <2>2. TypeOK'
    BY <1>2, <1>3, <1>4, FirstOperation, HostnameAssumption, NameFacts
       DEF IInv, TypeOK, Fault
  <2> QED BY <1>2, <1>3, <2>1, <2>2 DEF IInv, Running, Stages
<1>5. CASE conf' # conf
  <2>1. os = "openbsd" /\ conf = <<>> /\ conf' = <<Cut>>
    BY <1>1, <1>2, <1>5, NextOperation DEF Half, IInv, Stages
  <2>2. conf' \in Contents /\ ~Durable
    BY <2>1, NameFacts, OneLine DEF IInv, Durable
  <2>3. TypeOK'
    BY <1>2, <1>3, <2>2, FirstOperation, HostnameAssumption, NameFacts
       DEF IInv, TypeOK, Fault
  <2>4. NameFile' /\ LiveNameIsDurable' /\ NothingElseIsLost'
    BY <1>2, <2>1, <2>2 DEF IInv, NameFile, LiveNameIsDurable, NothingElseIsLost
  <2> QED BY <1>2, <1>3, <2>2, <2>3, <2>4 DEF IInv, Running, Stages
<1> QED BY <1>4, <1>5

LEMMA StepInvariant ==
    ASSUME IInv, [Next]_vars
    PROVE  /\ IInv'
           /\ \/ (Durable => Durable') /\ reply' \in {"none", "err"}
              \/ Durable' /\ reply' = "ok"
              \/ (Durable <=> Durable') /\ reply' = reply
<1>1. CASE Reboot \/ CallSetHostname
  BY <1>1, RebootStep, CallStep DEF Reboot, CallSetHostname
<1>2. CASE WriteTemp
  BY <1>2, WriteTempStep
<1>3. CASE RenameTemp \/ Sysrc \/ TruncateFile \/ FillFile
  <2>1. reply = "none"
    BY <1>3 DEF IInv, Running, RenameTemp, Sysrc, TruncateFile, FillFile, At
  <2> QED BY <1>3, <2>1, ReplaceStep, RewriteStep
<1>4. CASE NameKernel
  BY <1>4, NameKernelStep
<1>5. CASE OperationFails \/ Kill
  BY <1>5, FaultStep
<1>6. CASE UNCHANGED vars
  <2>1. Operations' = Operations
    BY <1>6, OperationsKept DEF vars
  <2> QED BY <1>6, <2>1 DEF vars, IInv, TypeOK, Running, Stages, NameFile,
       LiveNameIsDurable, NothingElseIsLost, RcConf, Durable, At, Rewritten
<1> QED BY <1>1, <1>2, <1>3, <1>4, <1>5, <1>6 DEF Next, Run

LEMMA Invariance == Spec => []IInv
<1>1. IInv /\ [Next]_vars => IInv'
  BY StepInvariant
<1> QED BY InitInvariant, <1>1, PTL DEF Spec

-----------------------------------------------------------------------------
(* The theorems.                                                           *)

\* Every variable keeps its type; a temporary file is there only while a call
\* is about to rename it.
THEOREM TypeCorrect == Spec => []TypeOK
<1>1. IInv => TypeOK
  BY DEF IInv
<1> QED BY <1>1, Invariance, PTL

\* A kernel that bears the name a config asks for is one that has it durably,
\* if the network does not hand that name out: Apply, which looks at the
\* kernel only, does not skip a name that a reboot would lose.
THEOREM LiveNameSafe == Spec => []LiveNameIsDurable
<1>1. IInv => LiveNameIsDurable
  BY DEF IInv
<1> QED BY <1>1, Invariance, PTL

\* Off OpenBSD the durable name is the old one or the new one at every moment,
\* and no line of rc.conf that sets something else is lost.
THEOREM OtherLinesSafe == Spec => []NothingElseIsLost
<1>1. IInv => NothingElseIsLost
  BY DEF IInv
<1> QED BY <1>1, Invariance, PTL

\* SetHostname keeps the contract that Apply builds on: a durable name stays,
\* and a nil error means that it is there.
THEOREM Contract == Spec => KeepsContract
<1>1. Init => C!Init
  BY DEF Init, C!Init, Durable
<1>2. IInv /\ [Next]_vars => [C!Next]_(C!vars)
  <2> SUFFICES ASSUME IInv, [Next]_vars PROVE [C!Next]_(C!vars)
    OBVIOUS
  <2>1. Durable \in BOOLEAN /\ Durable' \in BOOLEAN
    BY DEF Durable
  <2>2. CASE (Durable => Durable') /\ reply' \in {"none", "err"}
    BY <2>1, <2>2, Zenon DEF C!Next, C!Proceed, C!Fail
  <2>3. CASE Durable' /\ reply' = "ok"
    BY <2>1, <2>3, Zenon DEF C!Next, C!Succeed
  <2>4. CASE (Durable <=> Durable') /\ reply' = reply
    BY <2>1, <2>4, Zenon DEF C!vars
  <2> QED BY <2>2, <2>3, <2>4, StepInvariant
<1> QED BY <1>1, <1>2, Invariance, PTL DEF Spec, KeepsContract, C!Spec
==============================================================================
