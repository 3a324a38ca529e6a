----------------------------- MODULE MCWriteFile -----------------------------
(***************************************************************************)
(* Instances of WriteFile for TLC.                                         *)
(***************************************************************************)
EXTENDS WriteFile

CONSTANTS old, new, torn, noFile, p600, p755, root, svc, ghost

MCAllOSes == AllOSes
=============================================================================
