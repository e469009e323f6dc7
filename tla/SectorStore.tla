---------------------------- MODULE SectorStore ----------------------------
(***************************************************************************)
(* What the FAT sector cache promises the FAT file system above it: the   *)
(* volume behaves as an array of sectors.  A write through the pointer of *)
(* GetSector(i, TRUE), or an EraseSector(i), sets sector i at once, and   *)
(* the sector keeps that contents until it is written again; reading,     *)
(* flushing, eviction, Uninitialize and the failures of the device below  *)
(* change nothing the file system can see.                                 *)
(***************************************************************************)
CONSTANTS Volume,     \* the sector indexes of the volume
          Payloads    \* what a sector may contain

VARIABLE disk

Init == disk \in [Volume -> Payloads]

\* The only step the abstraction allows: one sector takes a new contents.
Written(d, i, v) == [d EXCEPT ![i] = v]

\* the store goes from d to d2 by one such write
Step(d, d2) == \E i \in Volume, v \in Payloads : d2 = Written(d, i, v)

Next == Step(disk, disk')

Spec == Init /\ [][Next]_disk
=============================================================================
