----------------------------- MODULE MCFirstBoot -----------------------------
(***************************************************************************)
(* Instances of FirstBoot for TLC: user-data of the shapes Apply tells     *)
(* apart.                                                                  *)
(***************************************************************************)
EXTENDS FirstBoot

CONSTANTS web, dhcp, none, p1, p2, b1, b2, noFile, half, alice, bob, root,
          wheel, ops, k1, k2, git, nginx, enable, start

MCFiles(b) == [path |-> p1, body |-> b, owner |-> root]
OwnedFile == [path |-> p2, body |-> b2, owner |-> alice]

Alice == [name |-> alice, groups |-> {ops}, wheel |-> TRUE, keys |-> <<k1, k2>>]
Bob == [name |-> bob, groups |-> {}, wheel |-> FALSE, keys |-> <<k1>>]

FullConfig ==
    [hostname |-> web,
     files |-> <<MCFiles(b1), [path |-> p2, body |-> b2, owner |-> root]>>,
     users |-> <<Alice, Bob>>, packages |-> {git, nginx},
     runcmds |-> <<enable, start>>]

\* The same user twice, an empty list of keys, no packages, no host name.
SplitUserConfig ==
    [hostname |-> none, files |-> <<MCFiles(b1)>>,
     users |-> <<[Alice EXCEPT !.wheel = FALSE],
                 [Alice EXCEPT !.groups = {}, !.keys = <<>>]>>,
     packages |-> {}, runcmds |-> <<enable>>]

EmptyConfig ==
    [hostname |-> none, files |-> <<>>, users |-> <<>>, packages |-> {},
     runcmds |-> <<>>]

\* One path twice: what a generated config holds that overrides a default.
OverridingConfig ==
    [SplitUserConfig EXCEPT !.files = <<MCFiles(b1), MCFiles(b2)>>]

\* A file that belongs to a user of the same config.
OwnedFileConfig ==
    [SplitUserConfig EXCEPT !.files = <<OwnedFile>>]

MCConfigs ==
    {FullConfig, SplitUserConfig, EmptyConfig, OwnedFileConfig, OverridingConfig}

MCRuns == [force : BOOLEAN, dryRun : BOOLEAN]
=============================================================================
