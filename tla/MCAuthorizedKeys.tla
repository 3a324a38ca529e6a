--------------------------- MODULE MCAuthorizedKeys ---------------------------
(***************************************************************************)
(* Instances of AuthorizedKeys for TLC.                                    *)
(***************************************************************************)
EXTENDS AuthorizedKeys

CONSTANTS k1, k2, cut, alice, root, noFile, noDir

KeyFile(lines, ended, owner) ==
    [lines |-> lines, ended |-> ended, owner |-> owner, strict |-> TRUE]

\* No file; one of the account, with and without its last newline; one that a
\* tool left to root with loose permissions.
MCExisting ==
    {noFile, KeyFile(<<<<k1>>>>, TRUE, alice), KeyFile(<<<<k1>>>>, FALSE, alice),
     [KeyFile(<<<<k2>>>>, TRUE, root) EXCEPT !.strict = FALSE]}

\* One key comes padded or not, the other never is.
MCAsked == [key : {k1}, padded : BOOLEAN] \cup [key : {k2}, padded : {FALSE}]
MCOSes == {"linux", "openbsd", "freebsd", "netbsd"}
=============================================================================
