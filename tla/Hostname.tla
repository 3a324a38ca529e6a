------------------------------- MODULE Hostname -------------------------------
(***************************************************************************)
(* System.SetHostname of the four operating systems and Apply's decision   *)
(* to call it, over boots of the machine.  Linux and OpenBSD keep the name *)
(* in a file of its own, FreeBSD and NetBSD on a line of /etc/rc.conf.     *)
(***************************************************************************)
EXTENDS Integers, Sequences, FiniteSets, SequencesExt

CONSTANTS
    OSes,       \* the systems in scope
    Names,      \* host names
    NoName,     \* the machine bears no name
    Other,      \* a line of rc.conf that sets something else
    Cut,        \* what is left of a name that was cut short
    Transient,  \* names the network may give the kernel at boot
    Images,     \* per system: contents of the file an image may come with
    MaxFaults   \* bound: failures and kills of a behaviour

\* Contents of the file that holds the durable name, line by line; a host
\* name stands for the line that sets it.
Contents == Seq(Names \cup {Other, Cut})

ASSUME HostnameAssumption ==
    /\ OSes \subseteq {"linux", "openbsd", "freebsd", "netbsd"}
    /\ NoName \notin Names /\ Other \notin Names /\ Cut \notin Names
    /\ Transient \subseteq Names
    /\ Images \in [OSes -> SUBSET Contents]
    \* a file that holds nothing but the name has one line, ended
    /\ \A o \in OSes \ {"freebsd", "netbsd"} : \A c \in Images[o] : Len(c) <= 1
    /\ MaxFaults \in Nat

VARIABLES
    os, name,  \* the system, and the name the config asks for
    conf,      \* the file
    live,      \* the name of the running kernel
    temp,      \* the new contents, in a temporary file
    pc,        \* next operation of the running call; 0 when none runs
    reply,     \* "ok" or "err" once the call returned, "none" otherwise
    image,     \* history: conf as the image had it
    faults

vars == <<os, name, conf, live, temp, pc, reply, image, faults>>

-----------------------------------------------------------------------------
RcConf == os \in {"freebsd", "netbsd"}

\* The shell that reads rc.conf lets the last line win.
DurableName(c) ==
    LET n == SelectLastInSeq(c, LAMBDA line : line \in Names)
    IN IF n = 0 THEN NoName ELSE c[n]

\* (mistake: only the first hostname line is rewritten)
RewrittenFirst(c) ==
    LET n == SelectInSeq(c, LAMBDA line : line \in Names)
    IN IF n = 0 THEN Append(c, name) ELSE [c EXCEPT ![n] = name]

\* (mistake: rc.conf is written anew)
RewrittenAfresh(c) == <<name>>

\* rewriteRcConfHostname: every hostname line is replaced, and one appended
\* if there is none; the other lines stay.
Rewritten(c) ==
    IF \E n \in DOMAIN c : c[n] \in Names
    THEN [n \in DOMAIN c |-> IF c[n] \in Names THEN name ELSE c[n]]
    ELSE Append(c, name)

\* (mistake: the kernel is named first)
LinuxSetHostnameLiveFirst == <<"hostname", "temp", "rename">>

\* Every system writes its file before it names the kernel.  sysrc(8) is
\* taken to replace rc.conf in one step.
LinuxSetHostname == <<"temp", "rename", "hostname">>
OpenBSDSetHostname == <<"truncate", "fill", "hostname">>
FreeBSDSetHostname == <<"sysrc", "hostname">>
NetBSDSetHostname == <<"temp", "rename", "hostname">>

Operations ==
    CASE os = "linux" -> LinuxSetHostname
      [] os = "openbsd" -> OpenBSDSetHostname
      [] os = "freebsd" -> FreeBSDSetHostname
      [] os = "netbsd" -> NetBSDSetHostname

\* (mistake: OpenBSD leaves a file alone that is not empty)
FileConvergedIfThere ==
    \/ os = "openbsd" /\ conf # <<>>
    \/ os = "netbsd" /\ Rewritten(conf) = conf

\* OpenBSD and NetBSD leave a file alone that is as it should be; Linux does
\* so only when the kernel agrees too, and then Apply does not call at all.
FileConverged ==
    \/ os = "openbsd" /\ conf = <<name>>
    \/ os = "netbsd" /\ Rewritten(conf) = conf

At(operation) == pc # 0 /\ Operations[pc] = operation

TypeOK ==
    /\ os \in OSes
    /\ name \in Names
    /\ conf \in Contents
    /\ live \in Names \cup {NoName}
    /\ temp \in Contents /\ (temp # <<>> => At("rename"))
    /\ pc \in 0..Len(Operations)
    /\ reply \in {"none", "ok", "err"}
    /\ image \in Contents
    /\ faults \in 0..MaxFaults

Booted(c) == {DurableName(c)} \cup Transient

Init ==
    /\ os \in OSes
    /\ name \in Names
    /\ conf \in Images[os]
    /\ live \in Booted(conf)
    /\ temp = <<>> /\ pc = 0 /\ reply = "none"
    /\ image = conf
    /\ faults = 0

-----------------------------------------------------------------------------
Reboot ==
    /\ pc = 0
    /\ live' \in Booted(conf)
    /\ reply' = "none"
    /\ UNCHANGED <<os, name, conf, temp, pc, image, faults>>

\* Apply compares the live name only.
CallSetHostname ==
    /\ pc = 0 /\ live # name
    /\ pc' = IF FileConverged THEN Len(Operations) ELSE 1
    /\ reply' = "none"
    /\ UNCHANGED <<os, name, conf, live, temp, image, faults>>

Advance ==
    /\ IF pc = Len(Operations)
       THEN pc' = 0 /\ reply' = "ok"
       ELSE pc' = pc + 1 /\ reply' = reply
    /\ UNCHANGED <<os, name, image, faults>>

WriteTemp ==
    /\ At("temp")
    /\ temp' = IF RcConf THEN Rewritten(conf) ELSE <<name>>
    /\ Advance
    /\ UNCHANGED <<conf, live>>

RenameTemp ==
    /\ At("rename")
    /\ conf' = temp /\ temp' = <<>>
    /\ Advance
    /\ UNCHANGED live

TruncateFile ==
    /\ At("truncate")
    /\ conf' = <<>>
    /\ Advance
    /\ UNCHANGED <<live, temp>>

FillFile ==
    /\ At("fill")
    /\ conf' = <<name>>
    /\ Advance
    /\ UNCHANGED <<live, temp>>

Sysrc ==
    /\ At("sysrc")
    /\ conf' = Rewritten(conf)
    /\ Advance
    /\ UNCHANGED <<live, temp>>

NameKernel ==
    /\ At("hostname")
    /\ live' = name
    /\ Advance
    /\ UNCHANGED <<conf, temp>>

-----------------------------------------------------------------------------
(* A failure or a kill; a write that stops half-way leaves part of a name.  *)

Fault == faults < MaxFaults /\ faults' = faults + 1

Half ==
    /\ conf' \in {conf} \cup (IF At("fill") THEN {<<Cut>>} ELSE {})
    /\ temp' = <<>>

OperationFails ==
    /\ pc # 0 /\ Fault /\ Half
    /\ pc' = 0 /\ reply' = "err"
    /\ UNCHANGED <<os, name, live, image>>

Kill ==
    /\ pc # 0 /\ Fault /\ Half
    /\ pc' = 0 /\ reply' = "none"
    /\ UNCHANGED <<os, name, live, image>>

Run ==
    \/ CallSetHostname \/ WriteTemp \/ RenameTemp \/ TruncateFile \/ FillFile
    \/ Sysrc \/ NameKernel

Next == Reboot \/ Run \/ OperationFails \/ Kill

Spec == Init /\ [][Next]_vars
FairSpec == Spec /\ WF_vars(Run)

-----------------------------------------------------------------------------
Durable == DurableName(conf) = name

\* SetHostname keeps the contract Apply relies on.
C == INSTANCE SystemCall WITH effect <- Durable, reply <- reply
KeepsContract == C!Spec

\* A kernel that bears the requested name is one that has it durably, as Apply
\* does not call SetHostname for it; only a name that the network hands out may
\* get into the kernel otherwise.
LiveNameIsDurable == live = name /\ name \notin Transient => Durable

\* On every system but OpenBSD the machine never loses the name it had, half
\* of a name is never in the file, and of rc.conf every other line is kept in
\* its place.
NothingElseIsLost ==
    os # "openbsd" =>
        /\ DurableName(conf) \in {name, DurableName(image)}
        /\ os # "linux" => \A n \in DOMAIN image :
              image[n] = Other => n \in DOMAIN conf /\ conf[n] = Other

\* A name that the network does not hand out ends up in the durable
\* configuration, whatever other name the network gave the kernel.
EventuallyDurable == name \notin Transient => <>[]Durable

\* Setting a host name, as config.go documents it, means /etc/hostname,
\* /etc/myname or rc.conf: any name asked for ends up there.  (It does not:
\* Apply looks at the kernel's name only, which may be the network's.)
AskedNameGetsDurable == <>[]Durable
=============================================================================
