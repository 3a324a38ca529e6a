----------------------------- MODULE CloudConfig -----------------------------
(***************************************************************************)
(* cloudToConfig (config/cloudconfig.go): a decoded cloud-config document  *)
(* made into the config that Apply walks.  Decoding YAML is the library's. *)
(* Where cloud-config allows several shapes, a value is a record with its  *)
(* kind ("string", "list", "bool", "other") and its value v; a member of a *)
(* list that is not a string is NotString.  Text that is only passed on is *)
(* a model value; the arguments of a command are sequences of characters.  *)
(***************************************************************************)
EXTENDS Naturals, SequencesExt

CONSTANTS
    Empty,      \* the empty string, which a trim makes of blanks
    NotString   \* a number, a boolean, a list or null where a string belongs

Blank == " "
Tab == "\t"
Quote == "'"
Backslash == "\\"
Backquote == "backquote"  \* stands for the character, which has no form in TLA+

\* The characters that make the code quote an argument.
Unsafe ==
    {Blank, Tab, "\n", Quote, "\"", Backslash, "$", Backquote, "*", "?", "[", "]", "&",
     ";", "|", "<", ">", "(", ")", "{", "}", "#", "~", "!"}

\* The members of seq at these places, in their order; first[n] is what the
\* first n members of seq give.
Select(seq, places) ==
    LET first[n \in 0..Len(seq)] ==
            IF n = 0 THEN <<>>
            ELSE IF n \in places THEN Append(first[n - 1], seq[n])
            ELSE first[n - 1]
    IN first[Len(seq)]

IsName(s) == s \notin {Empty, NotString}
Named(seq) == {j \in DOMAIN seq : IsName(seq[j])}

\* (mistake: the parts of "a, ,b" are not looked at)
NormaliseGroupsUnchecked(groups) ==
    CASE groups.kind = "string" -> groups.v
      [] groups.kind = "list" -> Select(groups.v, Named(groups.v))
      [] OTHER -> <<>>

\* A string is given by its parts between commas, trimmed.
NormaliseGroups(groups) ==
    IF groups.kind \in {"string", "list"} THEN Select(groups.v, Named(groups.v))
    ELSE <<>>

NormaliseSudo(sudo) ==
    \/ sudo.kind = "bool" /\ sudo.v
    \/ sudo.kind = "string" /\ sudo.v # Empty

\* A package is a string, or a list whose first member is its name.
PackageName(entry) ==
    IF entry.kind = "string" THEN entry.v
    ELSE IF entry.kind = "list" /\ entry.v # <<>> THEN Head(entry.v)
    ELSE NotString

FlattenPackages(entries) ==
    LET names == [j \in DOMAIN entries |-> PackageName(entries[j])]
    IN Select(names, Named(names))

-----------------------------------------------------------------------------
(* Commands.                                                                *)

Concat(seqs) ==
    LET first[n \in 0..Len(seqs)] ==
            IF n = 0 THEN <<>> ELSE first[n - 1] \o seqs[n]
    IN first[Len(seqs)]
Quoted(chars) == <<Quote>> \o chars \o <<Quote>>

\* (mistake: a quote inside is only escaped, which means nothing in quotes)
ShellQuoteBackslash(s) ==
    IF s = <<>> THEN <<Quote, Quote>>
    ELSE IF Range(s) \cap Unsafe = {} THEN s
    ELSE Quoted(Concat([j \in DOMAIN s |->
             IF s[j] = Quote THEN <<Backslash, Quote>> ELSE <<s[j]>>]))

ShellQuote(s) ==
    IF s = <<>> THEN <<Quote, Quote>>
    ELSE IF Range(s) \cap Unsafe = {} THEN s
    ELSE Quoted(Concat([j \in DOMAIN s |->
             IF s[j] = Quote THEN <<Quote, Backslash, Quote, Quote>> ELSE <<s[j]>>]))

\* The members of a list that are strings.
Strings(args) == Select(args, {j \in DOMAIN args : args[j] # NotString})

\* strings.Join(parts, " ") of the arguments that are strings.
CommandLine(args) ==
    Concat([j \in DOMAIN Strings(args) |->
               LET part == ShellQuote(Strings(args)[j])
               IN IF j = 1 THEN part ELSE <<Blank>> \o part])

FlattenRunCmd(entries) ==
    LET kept == Select(entries, {j \in DOMAIN entries :
                                    entries[j].kind \in {"string", "list"}})
    IN [j \in DOMAIN kept |->
           IF kept[j].kind = "string" THEN kept[j].v ELSE CommandLine(kept[j].v)]

-----------------------------------------------------------------------------
(* The document.                                                            *)

SplitOwner(owner) ==
    IF owner = <<>> THEN [owner |-> Empty, group |-> Empty]
    ELSE [owner |-> owner[1], group |-> IF Len(owner) > 1 THEN owner[2] ELSE Empty]

User(u) ==
    [name |-> u.name, keys |-> u.keys, groups |-> NormaliseGroups(u.groups),
     sudo |-> NormaliseSudo(u.sudo), shell |-> u.shell, hash |-> u.passwd]

File(f) ==
    [path |-> f.path, content |-> f.content, mode |-> f.permissions,
     owner |-> SplitOwner(f.owner).owner, group |-> SplitOwner(f.owner).group]

RunCmds(raw) == FlattenRunCmd(raw.bootcmd) \o FlattenRunCmd(raw.runcmd)

CloudToConfig(raw) ==
    LET named == Select(raw.users, {j \in DOMAIN raw.users : IsName(raw.users[j].name)})
    IN [hostname |-> IF raw.hostname = Empty THEN raw.fqdn ELSE raw.hostname,
        users |-> [j \in DOMAIN named |-> User(named[j])],
        files |-> [j \in DOMAIN raw.write_files |-> File(raw.write_files[j])],
        packages |-> FlattenPackages(raw.packages),
        runcmds |-> RunCmds(raw)]

-----------------------------------------------------------------------------
(* Reference: what sh makes of a line (POSIX, Shell Command Language, 2.2   *)
(* to 2.4 and 2.9.1), which the code's list of characters must be enough    *)
(* for.                                                                     *)

\* Unquoted, these are operators, expansions, patterns or comments; where some
\* of them stand they are text, which is not told apart here.
Special ==
    {"|", "&", ";", "<", ">", "(", ")", "$", Backquote, "\"", "\n", "*", "?", "[", "#", "~"}

Digits == {"0", "1", "2", "3", "4", "5", "6", "7", "8", "9"}
NameChars ==
    Digits \cup
    {"_", "a", "b", "c", "d", "e", "f", "g", "h", "i", "j", "k", "l", "m", "n", "o",
     "p", "q", "r", "s", "t", "u", "v", "w", "x", "y", "z", "A", "B", "C", "D", "E",
     "F", "G", "H", "I", "J", "K", "L", "M", "N", "O", "P", "Q", "R", "S", "T", "U",
     "V", "W", "X", "Y", "Z"}

\* A name and "=" in front.
IsAssignment(w) ==
    \E n \in 2..Len(w) :
        w[n] = "=" /\ w[1] \notin Digits /\ \A j \in 1..(n - 1) : w[j] \in NameChars

IsReserved(w) ==
    w \in {<<"!">>, <<"{">>, <<"}">>, <<"c", "a", "s", "e">>, <<"d", "o">>,
           <<"d", "o", "n", "e">>, <<"e", "l", "i", "f">>, <<"e", "l", "s", "e">>,
           <<"e", "s", "a", "c">>, <<"f", "i">>, <<"f", "o", "r">>, <<"i", "f">>,
           <<"i", "n">>, <<"t", "h", "e", "n">>, <<"u", "n", "t", "i", "l">>,
           <<"w", "h", "i", "l", "e">>}

\* A word starts where a character or a quote stands, and is bare as long as
\* nothing of it is quoted.  odd: something unquoted was more than text.
\* taken: the first word is no command, but an assignment or reserved.
Begun(st) ==
    IF st.open THEN st
    ELSE [st EXCEPT !.open = TRUE, !.word = <<>>, !.bare = TRUE]

Put(st, c) == [Begun(st) EXCEPT !.word = Append(Begun(st).word, c)]

FirstBare(st) == st.words = <<>> /\ st.open /\ st.bare

Ended(st) ==
    IF st.open
    THEN [st EXCEPT !.open = FALSE, !.words = Append(@, st.word),
                    !.taken = st.taken \/ (FirstBare(st) /\ IsReserved(st.word))]
    ELSE st

Read(st, c) ==
    IF st.mode = "quote"
    THEN IF c = Quote THEN [st EXCEPT !.mode = "plain"] ELSE Put(st, c)
    ELSE IF st.mode = "escape" THEN [Put(st, c) EXCEPT !.mode = "plain"]
    ELSE CASE c \in {Blank, Tab} -> Ended(st)
           [] c = Quote -> [Begun(st) EXCEPT !.mode = "quote", !.bare = FALSE]
           [] c = Backslash -> [Begun(st) EXCEPT !.mode = "escape", !.bare = FALSE]
           [] c \in Special -> [st EXCEPT !.odd = TRUE]
           [] c = "=" -> [Put(st, c) EXCEPT !.taken =
                             st.taken \/ (FirstBare(st) /\ IsAssignment(Append(st.word, c)))]
           [] OTHER -> Put(st, c)

Between == [mode |-> "plain", open |-> FALSE, odd |-> FALSE, bare |-> FALSE,
            taken |-> FALSE, word |-> <<>>, words |-> <<>>]

\* What the shell has come to after a line that it began to read at st.
After(st, line) ==
    LET after[n \in 0..Len(line)] ==
            IF n = 0 THEN st ELSE Read(after[n - 1], line[n])
    IN after[Len(line)]

Shell(line) == Ended(After(Between, line))
=============================================================================
