------------------------------ MODULE MCParsing ------------------------------
(***************************************************************************)
(* Parsing for TLC: few rows, characters, entries and members, one of each *)
(* way in which the code treats them.                                      *)
(***************************************************************************)
EXTENDS Parsing

CONSTANT MaxArg  \* bound on the characters of an argument

Address == <<10, 0, 2, 2>>
MCRows ==
    [whole : {TRUE}, dest : {Zero, "0002000A"}, metric : {0, 1, Greatest, Text},
     gw : {Reverse(Address), <<1, 0, 2, 10>>}]
    \cup {[whole |-> FALSE, dest |-> Zero, metric |-> 0, gw |-> <<1, 0, 2, 10>>],
          [whole |-> TRUE, dest |-> Zero, metric |-> 0, gw |-> <<0, 0, 0>>],
          [whole |-> TRUE, dest |-> Zero, metric |-> Greatest + 1,
           gw |-> <<1, 0, 2, 10>>]}

\* "u-d" stands for user-data, "U_" is what two characters of level 1 leave.
MCWant == <<"u", "-", "d">>
MCLower == [c \in {"u", "d"} |-> IF c = "u" THEN "U" ELSE "D"]
MCChars == {"u", "U", "d", "D", "-", "_", ".", ";", "1"}
EntryNames ==
    {MCWant, <<"U", "-", "D">>, <<"U", "_">>, <<"U", "_", "D", ";", "1">>,
     <<"u", "-", "d", "2">>, <<"U">>}
MCEntries == [name : EntryNames, data : {"seed", "other", Unreadable}]

\* Words of characters that the shell treats in different ways, and some that
\* it reserves.
MCWords == SeqOf({"a", "1", "=", " ", "'", "$", "\\"}, MaxArg)
MCArguments ==
    MCWords \cup {<<"i", "f">>, <<"!">>, <<"a", "\n">>, <<"\t">>, NotString}

Groups ==
    [kind : {"string"}, v : SeqOf({"wheel", Empty}, 2)]
    \cup [kind : {"list"}, v : SeqOf({"wheel", NotString, Empty}, 2)]
    \cup [kind : {"other"}, v : {<<>>}]
MCPackages ==
    [kind : {"string"}, v : {"nginx", Empty}]
    \cup [kind : {"list"}, v : SeqOf({"nginx", NotString}, 2)]
    \cup [kind : {"other"}, v : {<<>>}]
MCUsers ==
    [name : {"ada", Empty}, keys : {<<>>}, groups : Groups, shell : {Empty},
     sudo : {[kind |-> "bool", v |-> TRUE], [kind |-> "string", v |-> Empty]},
     passwd : {Empty}]
MCCommands ==
    {[kind |-> "string", v |-> <<"a">>], [kind |-> "list", v |-> <<<<"$">>, NotString>>],
     [kind |-> "other", v |-> <<>>]}
=============================================================================
