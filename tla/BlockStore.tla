----------------------------- MODULE BlockStore -----------------------------
(***************************************************************************)
(* What the wear-leveling driver promises the file system above it: a     *)
(* virtual device of blocks of sectors that starts erased.  A write sets  *)
(* one sector to the value written; an EraseBlock sets every sector of    *)
(* one block back to the erased value.  Nothing else the driver does      *)
(* (relocation, block replacement, compaction, reads) changes what a      *)
(* sector reads as.  A write or erase that fails changes nothing.         *)
(***************************************************************************)
CONSTANTS VBlocks,    \* the virtual blocks the file system uses
          VSecs,      \* the sectors of a block
          Vals,       \* what a sector may be written with
          ErasedVal   \* what an erased sector reads as

VARIABLE disk

Init == disk = [v \in VBlocks |-> [s \in VSecs |-> ErasedVal]]

\* one sector takes the value written
Written(d, v, s, val) == [d EXCEPT ![v][s] = val]

\* every sector of a block reads as erased again
Cleared(d, v) == [d EXCEPT ![v] = [s \in VSecs |-> ErasedVal]]

\* the store goes from d to d2 by one write or one erase
Step(d, d2) ==
    \/ \E v \in VBlocks, s \in VSecs, val \in Vals : d2 = Written(d, v, s, val)
    \/ \E v \in VBlocks : d2 = Cleared(d, v)

Next == Step(disk, disk')

Spec == Init /\ [][Next]_disk
=============================================================================
