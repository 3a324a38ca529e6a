----------------------------- MODULE MCDiscovery -----------------------------
(* Two seats, and the shapes of disk that README.md's table tells apart.    *)
EXTENDS Discovery

MCSeats == <<"vdb", "vdc">>

Disk(format, label, data) == [format |-> format, label |-> label, data |-> data]

\* Seeds of every kind, and disks that only look like one.
MCDiskKinds ==
    {Disk("iso9660", "cidata", "config"), Disk("iso9660", "cidata", "broken"),
     Disk("fat32", "other", "config"), Disk("fat16", "CIDATA", "config"),
     Disk("fat16", "cidata", "none"), Disk("fat16", "CIDATA", "broken"),
     Disk("ext4", "cidata", "config")}
=============================================================================
