------------------------------- MODULE Parsing -------------------------------
(***************************************************************************)
(* The functions of Gateway, SeedNames and CloudConfig over all inputs up  *)
(* to a size, which grow by one row, character, entry or member at a time. *)
(***************************************************************************)
EXTENDS Gateway, SeedNames, CloudConfig, FiniteSets

CONSTANTS
    Rows,       \* of /proc/net/route
    Chars,      \* of a file name
    Entries,    \* of a root directory
    Arguments,  \* of a command: sequences of characters, or NotString
    Users, Packages, Commands,  \* members of a cloud-config document
    MaxRows, MaxName, MaxEntries, MaxArgs, MaxMembers  \* bounds

IsSeq(s) == s \in Seq(Range(s))

ASSUME RowsAssumption ==
    \A r \in Rows : /\ r.whole \in BOOLEAN
                     /\ r.metric \in Nat \cup {Text}
                     /\ IsSeq(r.gw)

ASSUME EntriesAssumption ==
    \A e \in Entries : IsSeq(e.name) /\ e.data # Failure

ASSUME ArgumentsAssumption ==
    \A a \in Arguments \ {NotString} : IsSeq(a)

ASSUME MembersAssumption ==
    /\ \A u \in Users : /\ u.groups.kind \in {"string", "list", "other"}
                        /\ IsSeq(u.groups.v)
                        /\ u.groups.kind = "other" => u.groups.v = <<>>
    /\ \A p \in Packages : p.kind = "list" => IsSeq(p.v)

VARIABLES
    kind,   \* what the input is: "table", the rows of /proc/net/route; "name",
            \* a file name; "root", the entries of a root directory; "args",
            \* a command in list form; "document", a cloud-config document
    input

vars == <<kind, input>>

Kinds == {"table", "name", "root", "args", "document"}

NoDocument ==
    [hostname |-> Empty, fqdn |-> "host", users |-> <<>>, write_files |-> <<>>,
     packages |-> <<>>, runcmd |-> <<>>, bootcmd |-> <<>>]

Documents ==
    [hostname : {NoDocument.hostname}, fqdn : {NoDocument.fqdn},
     users : Seq(Users), write_files : {NoDocument.write_files},
     packages : Seq(Packages), runcmd : Seq(Commands), bootcmd : Seq(Commands)]

\* What an input of this kind is made of.
TypeOK ==
    /\ kind \in Kinds
    /\ kind = "table" => input \in Seq(Rows)
    /\ kind = "name" => input \in Seq(Chars)
    /\ kind = "root" => input \in Seq(Entries)
    /\ kind = "args" => input \in Seq(Arguments)
    /\ kind = "document" => input \in Documents

Init ==
    /\ kind \in Kinds
    /\ input = IF kind = "document" THEN NoDocument ELSE <<>>

Grow(k, max, items) ==
    /\ kind = k /\ Len(input) < max
    /\ \E x \in items : input' = Append(input, x)
    /\ kind' = kind

AddRow == Grow("table", MaxRows, Rows)
AddChar == Grow("name", MaxName, Chars)
AddEntry ==
    Grow("root", MaxEntries,
         {e \in Entries : \A o \in Range(input) : o.name # e.name})
AddArg == Grow("args", MaxArgs, Arguments)

AddMember ==
    /\ kind = "document"
    /\ Len(input.users \o input.packages \o input.runcmd \o input.bootcmd) < MaxMembers
    /\ \/ \E u \in Users : input' = [input EXCEPT !.users = Append(@, u)]
       \/ \E p \in Packages : input' = [input EXCEPT !.packages = Append(@, p)]
       \/ \E c \in Commands : input' = [input EXCEPT !.runcmd = Append(@, c)]
       \/ \E c \in Commands : input' = [input EXCEPT !.bootcmd = Append(@, c)]
    /\ kind' = kind

StartOver ==
    /\ kind' \in Kinds
    /\ input' = IF kind' = "document" THEN NoDocument ELSE <<>>

Next == AddRow \/ AddChar \/ AddEntry \/ AddArg \/ AddMember \/ StartOver

Spec == Init /\ [][Next]_vars

-----------------------------------------------------------------------------
\* The scan of the rows takes the gateway of the first route of the lowest
\* metric, decoded as the kernel wrote it, and none only if every default
\* route has the greatest metric (gateway_linux.go:19-22 and 39-61).
GatewayIsBestRoute ==
    kind = "table" =>
    LET gw == LinuxDefaultGateway(input)
    IN IF gw = NoGateway THEN Usable(input) = {}
       ELSE \E j \in DOMAIN input : IsBestRoute(input, j) /\ gw = Reverse(input[j].gw)

\* Whatever is matched to user-data looks like it, and every name a mastering
\* tool gives the file is matched (disk.go:209-224 and 249-262).
SeedNameIsTold ==
    kind = "name" =>
    LET matched == ExactName(input) \/ MangledName(input)
    IN (matched => Resembles(input)) /\ (input \in Minted => matched)

\* A directory with a plainly named user-data is never answered from a fuzzily
\* matched neighbour, in whatever order it lists them and whatever cannot be
\* read; a directory with a file of a minted name, readable, is answered
\* (disk.go:220-241).
PlainNameWins ==
    kind = "root" =>
    LET plain == {e \in Range(input) : ExactName(e.name)}
        read == ReadNamed(input, TRUE)
    IN /\ plain # {} => \A listable \in BOOLEAN :
             ReadNamed(input, listable) \in {e.data : e \in plain} \cup {Failure}
       /\ (/\ \E e \in Range(input) : e.name \in Minted
           /\ \A e \in Range(input) : e.data # Unreadable) => read # Failure

\* The shell splits a command given as a list into the very arguments that were
\* strings, whatever characters they hold, and runs the first of them, unless it
\* looks like an assignment or is a word that the shell reserves
\* (cloudconfig.go:187-218).
ArgumentsSurvive ==
    kind = "args" =>
    LET shell == Shell(CommandLine(input))
        strings == Strings(input)
    IN /\ shell.words = strings
       /\ shell.mode = "plain" /\ ~shell.odd
       /\ shell.taken => strings # <<>> /\ (\/ IsAssignment(Head(strings))
                                          \/ IsReserved(Head(strings)))

\* "each arg is shell-quoted to preserve semantics" (config/cloudconfig.go:189):
\* the first argument of a list is the command that the shell runs.
FirstArgumentIsCommand == kind = "args" => ~Shell(CommandLine(input)).taken

\* No empty user, group or package reaches Apply, in whatever shape the document
\* gives them, and none that is named is dropped (cloudconfig.go:77-92, 115-162).
NamesReachApply ==
    kind = "document" =>
    LET config == CloudToConfig(input)
    IN /\ \A u \in Range(config.users) :
             Range(<<u.name>> \o u.groups) \cap {Empty, NotString} = {}
       /\ Range(config.packages) \cap {Empty, NotString} = {}
       /\ \A u \in Range(input.users) : IsName(u.name) =>
             \E c \in Range(config.users) :
                 c.name = u.name /\ Len(c.groups) = Cardinality(Named(u.groups.v))
       /\ \A p \in Range(input.packages) :
             LET name == PackageName(p)
             IN IsName(name) => name \in Range(config.packages)
=============================================================================
