------------------------------ MODULE SeedNames ------------------------------
(***************************************************************************)
(* readNamed (datasource/disk.go) and its two ways to match a name: which  *)
(* file of the seed disk's root directory is taken for user-data.  Names   *)
(* are sequences of characters.  The name that is wanted and the length of *)
(* the shortest truncation are constants, so that a short name shows what  *)
(* "user-data" and 8 do.                                                   *)
(***************************************************************************)
EXTENDS Naturals, SequencesExt

CONSTANTS
    Want,        \* userDataName
    MinPrefix,   \* minManglePrefix
    Lower,       \* upper-case letter of each lower-case one, a function
    Kept,        \* upper-case letters and digits, which level 1 allows
    Unreadable,  \* content of an entry that cannot be read
    Failure      \* readNamed returns an error

Semicolon == ";"
Dot == "."
Underscore == "_"

ASSUME LettersAssumption ==
    /\ Range(Lower) \subseteq Kept
    /\ DOMAIN Lower \cap Kept = {}
    /\ {Semicolon, Dot, Underscore} \cap (DOMAIN Lower \cup Kept) = {}

\* The wanted name has no version, and is longer than the shortest truncation.
ASSUME WantAssumption ==
    /\ Want \in Seq(Range(Want)) /\ {Semicolon, Dot} \cap Range(Want) = {}
    /\ MinPrefix \in 1..Len(Want)

ASSUME UnreadableAssumption == Unreadable # Failure

\* trimISOSuffix: drops ";version", then one dot.
TrimISOSuffix(name) ==
    LET semi == SelectLastInSeq(name, LAMBDA c : c = Semicolon)
        base == IF semi = 0 THEN name ELSE SubSeq(name, 1, semi - 1)
    IN IF base # <<>> /\ Last(base) = Dot THEN Front(base) ELSE base

Fold(c) == IF c \in DOMAIN Lower THEN Lower[c] ELSE c
Folded(name) == [j \in DOMAIN name |-> Fold(name[j])]

ExactName(got) == Folded(TrimISOSuffix(got)) = Folded(Want)

\* mangle: upper case, and "_" for what ECMA-119 level 1 forbids.
Mangle(name) ==
    [j \in DOMAIN name |->
        IF Fold(name[j]) \in Kept THEN Fold(name[j]) ELSE Underscore]

\* (mistake: a truncation of any length)
MangledNameAnyLength(got) ==
    LET g == Mangle(TrimISOSuffix(got)) IN IsPrefix(g, Mangle(Want))

MangledName(got) ==
    LET g == Mangle(TrimISOSuffix(got))  w == Mangle(Want)
    IN g = w \/ (Len(g) \in MinPrefix..(Len(w) - 1) /\ IsPrefix(g, w))

\* (mistake: one pass for both kinds of match)
FirstInOnePass(entries) ==
    SelectInSeq(entries, LAMBDA e : ExactName(e.name) \/ MangledName(e.name))

\* The entry that the two passes come across first, zero for none.
FirstMatch(entries) ==
    LET exact == SelectInSeq(entries, LAMBDA e : ExactName(e.name))
        mangled == SelectInSeq(entries, LAMBDA e : MangledName(e.name))
    IN IF exact # 0 THEN exact ELSE mangled

\* The exact path first; then the first match decides, readable or not.
ReadNamed(entries, listable) ==
    LET first == FirstMatch(entries)
    IN IF \E e \in Range(entries) : e.name = Want /\ e.data # Unreadable
       THEN (CHOOSE e \in Range(entries) : e.name = Want /\ e.data # Unreadable).data
       ELSE IF ~listable \/ first = 0 THEN Failure
       ELSE IF entries[first].data = Unreadable THEN Failure
       ELSE entries[first].data

-----------------------------------------------------------------------------
\* Reference: the names that tools give the file, with or without an ISO 9660
\* version: as it is or in capitals (Rock Ridge, Joliet, FAT), or what level 1
\* makes of it, truncated.
Versions == {<<>>, <<Dot>>, <<Semicolon, "1">>, <<Dot, Semicolon, "1">>}

Stems == {Want, Folded(Want), Mangle(Want), SubSeq(Mangle(Want), 1, MinPrefix)}

Minted == {stem \o suffix : stem \in Stems, suffix \in Versions}

\* Anything that is taken for user-data agrees with it on MinPrefix characters
\* at least, as far as level 1 can tell characters apart.
Resembles(got) ==
    /\ Len(got) >= MinPrefix
    /\ IsPrefix(SubSeq(Mangle(got), 1, MinPrefix), Mangle(Want))
=============================================================================
