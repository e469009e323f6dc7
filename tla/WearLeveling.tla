---------------------------- MODULE WearLeveling ----------------------------
(***************************************************************************)
(* The wear-leveling flash translation layer of                            *)
(* src/DeviceCode/Drivers/BlockStorage/WearLeveling.                       *)
(*                                                                         *)
(* Every public entry point (Read, WriteInternal, EraseBlock,              *)
(* CompactBlocks) runs under GLOBAL_LOCK, i.e. with interrupts disabled,   *)
(* so each entry point is one atomic action here.  The helpers it calls    *)
(* (GetPhysicalAddress, ReplaceBlock, CompactBlocks, ...) are modelled as  *)
(* operators from a device state to a result record                        *)
(*     [st |-> device state, rc |-> "ok" | "fail", b, s, direct]           *)
(* and an action applies the whole call tree of its entry point.           *)
(*                                                                         *)
(* The device state d is a record:                                         *)
(*   d.blk[b]     block part of the 16-byte metadata of sector 0 of b      *)
(*                (bBlockFlags, wOwnerBlock, wBlockOffset[2])              *)
(*   d.sec[b][s]  sector part of the metadata (bSectorFlags,               *)
(*                wMappedSectorOffset, wLinkedSectorOffset)                *)
(*   d.dat[b][s]  the payload of the sector                                *)
(*   d.bbl        config->BadBlockList, head first                         *)
(*   d.weak       sectors whose next program operation will fail           *)
(*   d.hung       a retry loop or the recursion of the driver did not      *)
(*                terminate                                                *)
(*   d.nest       CompactBlocks calls in progress (0 between entry points) *)
(*   d.ub         the driver has used an uninitialised value (curBlock of   *)
(*                the bad-block swap); nothing is claimed after that       *)
(*   d.oob        the driver has addressed a virtual block past the end of *)
(*                the region; nothing is claimed after that either         *)
(* A flag is "set" when its bit has been cleared on the medium; a set of   *)
(* flag names is kept instead of the bit pattern.                          *)
(***************************************************************************)
EXTENDS Naturals, FiniteSets, Sequences, Bitwise, FiniteSetsExt

CONSTANTS
    NumBlocks,        \* pDevInfo->Size / config->BytesPerBlock
    SectorsPerBlock,  \* config->BytesPerBlock / BytesPerSector
    DataBits,         \* width of the abstract sector payload
    Junk,             \* payload read back after a failed program operation
    RetryBound,       \* loop iterations, or nested CompactBlocks calls, after
                      \* which the driver counts as hung
    ClientBlocks,     \* virtual blocks the file system above uses
    WriteVals,        \* sector contents the file system writes
    MaxOps,           \* bound on Read/Write/EraseBlock/CompactBlocks calls
    MaxFaults,        \* bound on injected faults
    FaultKinds,       \* which: "media" (a sector fails its next program),
                      \* "heap" (the next SimpleHeap_Allocate returns NULL)
    FactoryBad,       \* blocks the chip ships with as bad (all metadata zero)
    MaxRestarts,      \* bound on power cycles (InitializeDevice after boot)
    CutPoints         \* metadata writes of ReplaceBlock power may be lost at

ASSUME ClientBlocks \subseteq 0..NumBlocks-1 /\ WriteVals \subseteq 0..2^DataBits-1
ASSUME NumBlocks \in 2..16 /\ SectorsPerBlock \in 1..8
ASSUME DataBits \in 1..4 /\ RetryBound \in Nat \ {0}
ASSUME MaxOps \in Nat /\ MaxFaults \in Nat /\ MaxRestarts \in Nat
ASSUME FactoryBad \subseteq 0..NumBlocks-1 /\ CutPoints \subseteq 1..3

Blocks == 0..NumBlocks-1
Secs   == 0..SectorsPerBlock-1
Erased == 2^DataBits - 1            \* an erased sector reads as all ones
Data   == 0..Erased

W16  == 65535
FREE == 65535                       \* WL_SectorMetadata::c_FREE_LINK_INDEX
DEAD == 0                           \* WL_SectorMetadata::c_DEAD_LINK_INDEX
Inv16(x) == W16 - x                 \* ~x on a WORD

NoSector  == -1
NoBlock   == -1
AllBlocks == -1                     \* CompactBlocks(config, 0xFFFFFFFF)

(* InitializeDevice: the mask is halved until it is below the block count; *)
(* GetNextFreeBlock searches indexes below maxValue = mask << 1 (UINT16).  *)
RECURSIVE HalveMask(_)
HalveMask(m) == IF m >= NumBlocks THEN HalveMask(m \div 2) ELSE m
\* the code starts from 0x80000000; TLC integers stop below 2^31, and for
\* NumBlocks <= 16 the first halving step gives the same mask
BlockIndexMask == HalveMask(2^30)
MaxValue == (BlockIndexMask * 2) % 2^16

(* WORD operations, a byte at a time: the byte tables are constants that *)
(* TLC computes once, so a step never recurses over sixteen bits.         *)
ByteVals == 0 .. 255
AndByte  == [p \in ByteVals \X ByteVals |-> p[1] & p[2]]
OrByte   == [p \in ByteVals \X ByteVals |-> p[1] | p[2]]
RECURSIVE PopCount(_)
PopCount(x) == IF x = 0 THEN 0 ELSE (x % 2) + PopCount(x \div 2)
PopByte  == [x \in ByteVals |-> PopCount(x)]
\* x & y and x | y on WORDs (0 .. 65535)
AndW(x, y) == AndByte[<<x % 256, y % 256>>] + 256 * AndByte[<<x \div 256, y \div 256>>]
OrW(x, y)  == OrByte[<<x % 256, y % 256>>] + 256 * OrByte[<<x \div 256, y \div 256>>]

(* BitsSet16 *)
BitsSet16(x) == PopByte[x % 256] + PopByte[x \div 256]

(***************************************************************************)
(* WL_SectorMetadata (BS_WearLeveling.h)                                   *)
(***************************************************************************)
SecFlagNames == {"Bad", "ReadOnly", "Dirty", "InUse", "Mapped"}
BlkFlagNames == {"BadRep", "Trash", "InUse", "Mapped", "Dirty", "Format"}
\* Bits no code path clears; only a factory-marked bad block has them at 0.
SecSpare == {"s5", "s6", "s7"}
BlkSpare == {"b1", "b6"}

SecMeta == [flags: SUBSET (SecFlagNames \cup SecSpare), map: 0..W16, link: 0..W16]
BlkMeta == [flags: SUBSET (BlkFlagNames \cup BlkSpare), owner: 0..W16,
            off: (0..W16) \X (0..W16)]

IsSectorFree(m)  == m.flags \cap SecFlagNames = {}
IsLiveDirect(m)  == /\ m.flags \cap {"Bad", "Mapped", "Dirty"} = {}
                    /\ "InUse" \in m.flags
IsValidBlockMapOffset(bm) ==
    \/ bm.off[1] \notin {FREE, DEAD}
    \/ bm.off[2] \notin {FREE, DEAD}
GetBlockMapOffset(bm) ==
    IF bm.off[1] # DEAD THEN Inv16(bm.off[1]) ELSE Inv16(bm.off[2])
IsValidOwnerBlock(bm) == bm.owner \notin {FREE, DEAD}
\* c_BLOCK_FLAG_MASK covers the low six bits, spare bit 1 included
IsBlockFree(bm)  == bm.flags \cap {"BadRep", "b1", "Trash", "InUse", "Mapped", "Dirty"} = {}
IsBlockTrash(bm) == "Trash" \in bm.flags
IsBadBlockReplacement(bm) == "BadRep" \in bm.flags /\ "Dirty" \notin bm.flags
\* IsBadBlock: every field it inspects reads as zero
IsBadMeta(bm, sm0) ==
    /\ bm.off = <<0, 0>> /\ bm.flags = BlkFlagNames \cup BlkSpare
    /\ sm0.flags = SecFlagNames \cup SecSpare /\ sm0.map = 0 /\ sm0.link = 0
IsBadBlock(d, b) == IsBadMeta(d.blk[b], d.sec[b][0])

(* SetBlockMapOffset: reuse field 0 while no bit has to go 0->1, else kill *)
(* field 0 and program field 1.  The ASSERT on field 1 is compiled out of  *)
(* a release build; the medium then keeps old AND new.                     *)
SetBlockMapOffset(bm, map) ==
    IF AndW(Inv16(bm.off[1]), Inv16(map)) = 0
    THEN [bm EXCEPT !.off[1] = Inv16(map)]
    ELSE [bm EXCEPT !.off = <<DEAD, AndW(bm.off[2], Inv16(map))>>]

SetBlockTrash(d, b) ==
    [d EXCEPT !.blk[b].flags = @ \cup {"Trash"}, !.blk[b].owner = DEAD]

(***************************************************************************)
(* The raw device (IBlockStorageDevice of the chip driver below).          *)
(* Programming can only clear bits; EraseBlock resets a block to ones.     *)
(***************************************************************************)
ErasedSec == [flags |-> {}, map |-> FREE, link |-> FREE]
ErasedBlk == [flags |-> {}, owner |-> FREE, off |-> <<FREE, FREE>>]

DevEraseBlock(d, b) ==
    [d EXCEPT !.blk[b] = ErasedBlk,
              !.sec[b] = [s \in Secs |-> ErasedSec],
              !.dat[b] = [s \in Secs |-> Erased]]

ProgramBits(old, v) == IF old = Junk THEN Junk ELSE AndW(old, v)
\* bits of a payload as the driver sees them (a garbled sector reads as 0s)
PayloadBits(x) == IF x = Junk THEN 0 ELSE x

DevWrite(d, b, s, v) ==
    IF <<b, s>> \in d.weak
    THEN [d EXCEPT !.dat[b][s] = Junk, !.weak = @ \ {<<b, s>>}]
    ELSE [d EXCEPT !.dat[b][s] = ProgramBits(@, v)]

(* result records *)
R(d, rc, b, s, dir) == [st |-> d, rc |-> rc, b |-> b, s |-> s, direct |-> dir]
Ok(d)   == R(d, "ok", NoBlock, NoSector, FALSE)
Fail(d) == R(d, "fail", NoBlock, NoSector, FALSE)
Hang(d) == Fail([d EXCEPT !.hung = TRUE])
\* SimpleHeap_Allocate returned NULL: the call returns FALSE at once
NoMemory(d) == Fail([d EXCEPT !.oom = FALSE])

(***************************************************************************)
(* GetNextFreeSector: scan from the last sector down, never sector 0.      *)
(***************************************************************************)
GetNextFreeSector(d, b) ==
    LET free == {s \in Secs \ {0} : IsSectorFree(d.sec[b][s])}
    IN  IF free = {} THEN NoSector ELSE Max(free)

(***************************************************************************)
(* GetNextFreeBlock: first a free block whose index needs one more 1-bit   *)
(* than the current map index (so the inverted field can be reprogrammed), *)
(* then two more bits, ...; the highest candidate i wins at each level.    *)
(* Round 2 does the same against the second offset field.                  *)
(***************************************************************************)
\* mutant: a candidate is taken without reading its metadata (free or not)
RECURSIVE SearchLevelAnyBlock(_, _, _)
SearchLevelAnyBlock(d, cur, k) ==
    LET fits == {i \in 1..(MaxValue - 1) : BitsSet16(OrW(i, cur)) = k /\ OrW(i, cur) \in Blocks}
    IN  IF fits # {} THEN OrW(Max(fits), cur)
        ELSE IF 2^(k + 1) > MaxValue THEN NoBlock
        ELSE SearchLevelAnyBlock(d, cur, k + 1)

RECURSIVE SearchLevel(_, _, _)
\* the for loop over i = maxValue-1 .. 1 took the first (highest) of fits;
\* none fits: maxBits++, and the round ends once 1 << maxBits > maxValue
LevelResult(d, cur, k, fits) ==
    IF fits # {} THEN OrW(Max(fits), cur)
    ELSE IF 2^(k + 1) > MaxValue THEN NoBlock
    ELSE SearchLevel(d, cur, k + 1)

SearchLevel(d, cur, k) ==
    LevelResult(d, cur, k, {i \in 1..(MaxValue - 1) :
                               /\ BitsSet16(OrW(i, cur)) = k
                               /\ OrW(i, cur) \in Blocks        \* metadata read succeeds
                               /\ IsBlockFree(d.blk[OrW(i, cur)])})

\* the first search that finds a block, else the second
FirstFound(r1, r2) == IF r1 # NoBlock THEN r1 ELSE r2

GetNextFreeBlock(d, v) ==
    LET bm   == d.blk[v]
        cur0 == GetBlockMapOffset(bm)
        cur1 == Inv16(bm.off[2])
    IN  FirstFound(SearchLevel(d, cur0, BitsSet16(cur0) + 1),
                   SearchLevel(d, cur1, BitsSet16(cur1) + 1))

(***************************************************************************)
(* ReplaceBadBlock: the highest free block above block 0 becomes the       *)
(* replacement; the list entry of the bad block is reused or pushed.       *)
(***************************************************************************)
ReplaceBadBlock(d, bad) ==
    LET free == {b \in 1..(NumBlocks - 1) : IsBlockFree(d.blk[b])}
        nb   == Max(free)
        hits == {i \in DOMAIN d.bbl : d.bbl[i].virt = bad}
        bbl2 == IF hits = {} THEN <<[virt |-> bad, phys |-> nb]>> \o d.bbl
                ELSE [d.bbl EXCEPT ![Min(hits)].phys = nb]
    IN  IF free = {} THEN Fail(d)
        ELSE IF hits = {} /\ d.oom THEN NoMemory(d)
        ELSE R([d EXCEPT !.bbl = bbl2,
                         !.blk[nb].flags = @ \cup {"InUse", "Mapped", "BadRep"},
                         !.blk[nb].owner = bad], "ok", nb, NoSector, FALSE)

BadListLookup(d, v) ==
    LET hits == {i \in DOMAIN d.bbl : d.bbl[i].virt = v}
    IN  IF hits = {} THEN Fail(d)
        ELSE R(d, "ok", d.bbl[Min(hits)].phys, NoSector, FALSE)

(***************************************************************************)
(* The driver's helpers call each other recursively (ReplaceBlock copies   *)
(* through WriteToSector, which may compact, which replaces blocks, ...).  *)
(* Intermediate results are passed as operator arguments rather than bound *)
(* in LET, one small operator per step of the C function.                  *)
(***************************************************************************)
RECURSIVE Driver(_, _, _), Resolve(_, _, _, _, _, _, _), CopySectors(_, _, _, _, _),
          WriteToSector(_, _, _, _), WriteLoop(_, _, _, _, _, _, _, _, _),
          Program(_, _, _, _, _, _, _, _, _, _, _), Collapse(_, _, _, _, _, _, _, _),
          CompactBlock(_, _, _, _, _, _), Sweep(_, _, _, _, _), FormatSweep(_, _)

\* Every call that closes a cycle of the call graph (the three helpers below,
\* which reach each other through copies, retries and compaction) goes
\* through Driver, defined at the end; this keeps the number of call paths
\* TLC's profiler unfolds linear in the number of operators.
DoGetPhysicalBlockAddress(d, v, alloc) == Driver("GetPhysicalBlockAddress", d, <<v, alloc>>)
DoReplaceBlock(d, v, cur, new, copy) == Driver("ReplaceBlock", d, <<v, cur, new, copy>>)
DoCompactBlocks(d, hint) == Driver("CompactBlocks", d, <<hint>>)

\* a successful call continues at (b, s); a failed one is passed on
OkAt(r, b, s, dir) == IF r.rc = "ok" THEN R(r.st, "ok", b, s, dir) ELSE r

(***************************************************************************)
(* FormatBlock: erase and mark formatted; a bad block is never erased,     *)
(* its replacement is swapped instead.                                     *)
(***************************************************************************)
FormatBad(g, b) == IF g.rc = "ok" THEN ReplaceBadBlock(g.st, b) ELSE Ok(g.st)

FormatBlock(d, b) ==
    IF ~IsBadBlock(d, b)
    THEN Ok([DevEraseBlock(d, b) EXCEPT !.blk[b].flags = {"Format"}])
    ELSE FormatBad(DoGetPhysicalBlockAddress(d, b, TRUE), b)

(***************************************************************************)
(* GetPhysicalBlockAddress: direct map, the block map offset, or the bad   *)
(* block list; a trashed target or an orphaned Mapped block gets a new     *)
(* block (or a compaction that forces the direct map) when fAllocateNew.   *)
(***************************************************************************)
\* a new block for v: nb from GetNextFreeBlock, else a compaction
AllocBlock(d, v, nb) ==
    IF nb = NoBlock THEN OkAt(DoCompactBlocks(d, v), v, NoSector, FALSE)
    ELSE OkAt(DoReplaceBlock(d, v, nb, nb, FALSE), nb, NoSector, FALSE)

GetPhysicalBlockAddress(d, v, alloc) ==
    LET bm     == d.blk[v]
        mapped == IsValidBlockMapOffset(bm)
        getNew == ~mapped /\ "Mapped" \in bm.flags
        p      == IF mapped THEN GetBlockMapOffset(bm) ELSE v
    IN  IF d.hung THEN Fail(d)
        ELSE IF IsBadBlock(d, v) THEN BadListLookup(d, v)
        ELSE IF ~(getNew \/ IsBlockTrash(d.blk[p])) THEN R(d, "ok", p, NoSector, FALSE)
        ELSE IF ~alloc THEN Fail(d)
        ELSE AllocBlock(d, v, GetNextFreeBlock(d, v))

(***************************************************************************)
(* GetPhysicalAddress: resolve the block, then follow the sector's map     *)
(* offset once and its link offsets after that.  A direct sector that is   *)
(* Bad or is some other chain's target (Mapped) and has no map yet gets a  *)
(* first hop: a free sector of the block, else a new block, else a         *)
(* compaction.  Result: b, s and direct (= fDirectSectorMap).              *)
(***************************************************************************)
ResolveIn(g, v, s) == IF g.rc # "ok" THEN g ELSE Resolve(g.st, v, s, g.b, s, FALSE, 0)

GetPhysicalAddress(d, v, s) == ResolveIn(DoGetPhysicalBlockAddress(d, v, TRUE), v, s)

\* no free sector in pb: a new block nb for the first hop, else a compaction
HopToBlock(d, v, s, pb, nb) ==
    IF nb = NoBlock THEN OkAt(DoCompactBlocks(d, v), v, s, TRUE)
    ELSE OkAt(DoReplaceBlock(d, v, pb, nb, TRUE), nb, s, TRUE)

AllocFirstHop(d, v, s, pb, x) ==
    LET n == GetNextFreeSector(d, pb)
    IN  IF n # NoSector
        THEN R([d EXCEPT !.sec[pb][n].flags = @ \cup {"InUse", "Mapped"},
                         !.sec[pb][x].map = n], "ok", pb, n, TRUE)
        ELSE HopToBlock(d, v, s, pb, GetNextFreeBlock(d, v))

Resolve(d, v, s, pb, x, fMapped, n) ==
    LET m == d.sec[pb][x]
    IN  IF n > SectorsPerBlock THEN Hang(d)
        ELSE IF ~fMapped /\ m.map = FREE /\ m.flags \cap {"Bad", "Mapped"} # {}
             THEN AllocFirstHop(d, v, s, pb, x)
        ELSE IF ~fMapped
             THEN IF m.map = FREE THEN R(d, "ok", pb, x, TRUE)
                  ELSE Resolve(d, v, s, pb, m.map, TRUE, n + 1)
        ELSE IF m.link = FREE THEN R(d, "ok", pb, x, FALSE)
        ELSE Resolve(d, v, s, pb, m.link, TRUE, n + 1)

\* programming a WORD field keeps old AND new on the medium
Prog16(old, new) == AndW(old, new)

(***************************************************************************)
(* The end of a sector's link chain, as ReplaceBlock unwinds it; NoSector  *)
(* when the last sector is bad, dirty or not in use.                       *)
(***************************************************************************)
RECURSIVE ChainEnd(_, _, _, _)
ChainEnd(d, b, x, n) ==
    LET m == d.sec[b][x]
    IN  IF m.link # FREE
        THEN IF n < SectorsPerBlock THEN ChainEnd(d, b, m.link, n + 1) ELSE NoSector
        ELSE IF m.flags \cap {"Bad", "Dirty"} # {} \/ "InUse" \notin m.flags
             THEN NoSector ELSE x

(***************************************************************************)
(* ReplaceBlock: copy the live sectors of cur (direct ones and the ends of *)
(* chains) to their direct slots in new through WriteToSector, trash cur,  *)
(* point v's block map offset at new, and mark new InUse (and Mapped with  *)
(* owner v when it is not v's own block).                                  *)
(***************************************************************************)
\* mutant: the block map offset of v is never pointed at new
MarkReplacedWithoutMap(d, v, cur, new) ==
    LET d1 == IF new # cur /\ ~IsBlockTrash(d.blk[cur]) THEN SetBlockTrash(d, cur) ELSE d
    IN  IF v # new
        THEN [d1 EXCEPT !.blk[new].flags = @ \cup {"InUse", "Mapped"},
                        !.blk[new].owner = Prog16(@, v)]
        ELSE [d1 EXCEPT !.blk[new].flags = @ \cup {"InUse"}]
\* Power is lost in d's call with the medium as it stood in `at`: the rest
\* of the call never reaches the medium (d.img keeps the image).
PowerLost(d, at) == [d EXCEPT !.img = {[at EXCEPT !.cut = 0]}, !.cut = 0]

\* d3 as left by the call, or by a power loss before the k-th write, with
\* the medium as it stood then (before[k])
CutShort(d3, before, k) == IF k \in 1..3 THEN PowerLost(d3, before[k]) ELSE d3

\* The three metadata writes (lines 876-880, 895-905, 911-921), each one
\* SetSectorMetadata; d.cut = k loses power before the k-th of them.
MarkReplaced(d, v, cur, new) ==
    LET d1 == IF new # cur /\ ~IsBlockTrash(d.blk[cur]) THEN SetBlockTrash(d, cur) ELSE d
        d2 == IF v # new /\ ~IsBadBlock(d1, v)
              THEN [d1 EXCEPT !.blk[v] = SetBlockMapOffset(@, new)] ELSE d1
        d3 == IF v # new
              THEN [d2 EXCEPT !.blk[new].flags = @ \cup {"InUse", "Mapped"},
                              !.blk[new].owner = Prog16(@, v)]
              ELSE [d2 EXCEPT !.blk[new].flags = @ \cup {"InUse"}]
    IN  CutShort(d3, <<d, d1, d2>>, d.cut)

Replaced(c, v, cur, new) == IF c.rc # "ok" THEN c ELSE Ok(MarkReplaced(c.st, v, cur, new))

ReplaceBlock(d, v, cur, new, copy) ==
    IF copy /\ d.oom THEN NoMemory(d) ELSE
    Replaced(IF copy THEN CopySectors(d, cur, new, 0, 0) ELSE Ok(d), v, cur, new)

CopySource(d, cur, i) ==
    LET m == d.sec[cur][i]
    IN  IF m.map # FREE THEN ChainEnd(d, cur, m.map, 0)
        ELSE IF IsLiveDirect(m) THEN i ELSE NoSector

CopyNext(w, cur, new, o, i) ==
    IF w.rc # "ok" THEN w ELSE CopySectors(w.st, cur, new, o, i + 1)

\* phyNewSectAddr starts at sector o of new and advances one sector per
\* slot; WriteToSector takes it for a virtual address, so past the last
\* sector of new it lands in the next virtual block
CopyTarget(new, o, i) == <<new + (o + i) \div SectorsPerBlock, (o + i) % SectorsPerBlock>>

\* copy slot i onwards of cur to new, starting at sector o of new
CopySectors(d, cur, new, o, i) ==
    LET src == CopySource(d, cur, i)
        t   == CopyTarget(new, o, i)
    IN  IF i >= SectorsPerBlock \/ (i = 0 /\ IsBlockTrash(d.blk[cur])) THEN Ok(d)
        \* the CRC check: a garbled payload is not copied
        ELSE IF src = NoSector \/ d.dat[cur][src] = Junk THEN CopySectors(d, cur, new, o, i + 1)
        ELSE IF t[1] >= NumBlocks THEN Ok([d EXCEPT !.oob = TRUE])
        ELSE CopyNext(WriteToSector(d, t[1], t[2], d.dat[cur][src]), cur, new, o, i)

(***************************************************************************)
(* WriteToSector.  The sector at (pb, x) is the one GetPhysicalAddress     *)
(* resolved (phyAddr); (tb, ts) is where this iteration programs           *)
(* (mappedSectStart).  rmw = fReadModifyNeeded: some bit must go 0->1.     *)
(***************************************************************************)
\* GOOD_SECTOR: commit the metadata
\* mutant: GOOD_SECTOR does not mark the block in use
CommitWithoutBlockInUse(d, pb, x, direct, rmw, tb, ts) ==
    LET d1 == IF rmw THEN [d EXCEPT !.sec[tb][ts].flags = @ \cup {"InUse", "Mapped"}]
              ELSE d
    IN  IF ~rmw THEN [d1 EXCEPT !.sec[pb][x].flags = @ \cup {"InUse"}]
        ELSE IF direct
        THEN [d1 EXCEPT !.sec[pb][x].flags = @ \cup {"Dirty"},
                        !.sec[pb][x].map = Prog16(@, ts)]
        ELSE [d1 EXCEPT !.sec[pb][x].flags = @ \cup {"Dirty"},
                        !.sec[pb][x].link = Prog16(@, ts)]
Commit(d, pb, x, direct, rmw, tb, ts) ==
    LET d1 == IF rmw THEN [d EXCEPT !.sec[tb][ts].flags = @ \cup {"InUse", "Mapped"}]
              ELSE d
        d2 == IF ~rmw THEN [d1 EXCEPT !.sec[pb][x].flags = @ \cup {"InUse"}]
              ELSE IF direct
              THEN [d1 EXCEPT !.sec[pb][x].flags = @ \cup {"Dirty"},
                              !.sec[pb][x].map = Prog16(@, ts)]
              ELSE [d1 EXCEPT !.sec[pb][x].flags = @ \cup {"Dirty"},
                              !.sec[pb][x].link = Prog16(@, ts)]
    IN  [d2 EXCEPT !.blk[tb].flags = @ \cup {"InUse", "Dirty"}]

\* program the sector, read it back; BAD_SECTOR marks it and retries
Program(d, v, s, val, pb, x, direct, rmw, tb, ts, n) ==
    LET d1 == DevWrite(d, tb, ts, val)
    IN  IF d1.dat[tb][ts] # val
        THEN WriteLoop([d1 EXCEPT !.sec[tb][ts].flags = @ \cup {"Bad"}],
                       v, s, val, pb, x, direct, TRUE, n + 1)
        ELSE Ok(Commit(d1, pb, x, direct, rmw, tb, ts))

\* no free sector left in pb: the resolved sector is marked dirty and the
\* block is replaced by a free one, or the device is compacted
ReorganiseWith(d1, v, pb, nb) ==
    IF nb = NoBlock THEN DoCompactBlocks(d1, v) ELSE DoReplaceBlock(d1, v, pb, nb, TRUE)
Reorganise(d, v, pb, x) ==
    LET d1 == [d EXCEPT !.sec[pb][x].flags = @ \cup {"Dirty"}]
    IN  ReorganiseWith(d1, v, pb, GetNextFreeBlock(d1, v))

\* after a reorganisation the sector is resolved again and programmed there
ProgramResolved(g, v, s, val, n) ==
    IF g.rc # "ok" THEN g
    ELSE Program(g.st, v, s, val, g.b, g.s, g.direct, FALSE, g.b, g.s, n)
ProgramAfter(r, v, s, val, n) ==
    IF r.rc # "ok" THEN r ELSE ProgramResolved(GetPhysicalAddress(r.st, v, s), v, s, val, n)

\* one iteration of the while(TRUE) loop: pick the target sector
WriteLoop(d, v, s, val, pb, x, direct, rmw, n) ==
    LET f == GetNextFreeSector(d, pb)
    IN  IF n >= RetryBound THEN Hang(d)
        ELSE IF ~rmw THEN Program(d, v, s, val, pb, x, direct, FALSE, pb, x, n)
        ELSE IF f # NoSector THEN Program(d, v, s, val, pb, x, direct, TRUE, pb, f, n)
        ELSE ProgramAfter(Reorganise(d, v, pb, x), v, s, val, n)

NeedsRelocation(val, old) == AndW(val, Erased - PayloadBits(old)) # 0

StartWrite(g, v, s, val) ==
    IF g.rc # "ok" THEN g
    ELSE WriteLoop(g.st, v, s, val, g.b, g.s, g.direct,
                   NeedsRelocation(val, g.st.dat[g.b][g.s]), 0)

WriteToSector(d, v, s, val) ==
    IF d.hung THEN Fail(d)
    ELSE IF d.oom THEN NoMemory(d)
    ELSE StartWrite(GetPhysicalAddress(d, v, s), v, s, val)

(***************************************************************************)
(* CompactBlocks.  The state is threaded through every step; the results   *)
(* of the inner ReplaceBlock/FormatBlock calls are ignored, as in the code.*)
(***************************************************************************)
(* Sector compaction of block b at its first Mapped sector s, through the  *)
(* scratch block c1, with sectAddr = b + s sectors (line 486):             *)
(*   FormatBlock(C1); ReplaceBlock(sectAddr, sectAddr, C1): ReplaceBlock    *)
(*     rounds both addresses down, so b is copied to c1;                   *)
(*   FormatBlock(sectAddr): b is erased and the Format mark is written to  *)
(*     sector s, so for s > 0 sector 0 of b reads as a free block;         *)
(*   ReplaceBlock(sectAddr, C1, sectAddr): phyNewBlockAddress is not       *)
(*     rounded, so slot i of c1 is written to virtual sector s + i of b.   *)
(* For s = 0 (the branch at lines 442-447) every address is aligned.        *)
(***************************************************************************)
\* the metadata writes of ReplaceBlock(sectAddr, C1, sectAddr), s > 0: trash
\* c1; b's block map offset := (sectAddr - AddressSpace) / BytesPerBlock,
\* which is b; InUse, Mapped and owner b into sector s, whose block part
\* nothing reads.  d.cut = k loses power before the k-th write.
MarkReplacedAt(d, c1, b) ==
    LET d1 == IF ~IsBlockTrash(d.blk[c1]) THEN SetBlockTrash(d, c1) ELSE d
        d2 == IF ~IsBadBlock(d1, b)
              THEN [d1 EXCEPT !.blk[b] = SetBlockMapOffset(@, b)] ELSE d1
    IN  CutShort(d2, <<d, d1, d2>>, d.cut)

ReplaceBlockAt(d, c1, b, s) ==
    IF d.oom THEN NoMemory(d)
    ELSE LET w == CopySectors(d, c1, b, s, 0)
         IN  IF w.rc # "ok" THEN w ELSE Ok(MarkReplacedAt(w.st, c1, b))

\* FormatBlock(sectAddr) reads sector s: its block part only ever holds
\* Format, InUse, Mapped and an owner, never the all-zero bad mark, so the
\* block is erased
SectorCompact(d, c1, b, s) ==
    LET d1 == DoReplaceBlock(FormatBlock(d, c1).st, b, b, c1, TRUE).st
    IN  IF s = 0 THEN DoReplaceBlock(FormatBlock(d1, b).st, b, c1, b, TRUE).st
        ELSE ReplaceBlockAt(DevEraseBlock(d1, b), c1, b, s).st

\* a bad block at the head of the sweep: move its replacement to a new one.
\* g is the lookup of curBlock; when it fails (the block is not in the list)
\* curBlock is never assigned and ReplaceBlock copies from whatever the
\* stack held: undefined behaviour, recorded in ub (no call follows it)
SwapTo(rb, b, g) ==
    IF rb.rc # "ok" THEN rb.st
    ELSE IF g.rc # "ok" THEN [rb.st EXCEPT !.ub = TRUE]
    ELSE DoReplaceBlock(rb.st, b, g.b, rb.b, TRUE).st
SwapBadReplacement(d, b) ==
    SwapTo(ReplaceBadBlock(DoGetPhysicalBlockAddress(d, b, TRUE).st, b), b,
           DoGetPhysicalBlockAddress(d, b, TRUE))

SweepResult(d, c1, c2, free) == [st |-> d, c1 |-> c1, c2 |-> c2, free |-> free]

(* The block-map chain collapse loop (nextBlock / mappedBlock).  snap is   *)
(* the metadata of nextBlock read before it is touched.                    *)
SavesOwner(snap) == ~IsBlockTrash(snap[1]) /\ IsValidOwnerBlock(snap[1])
\* nextBlock holds another block's data: park it in the scratch block c1
SaveOwnerData(d, c1, next, snap) ==
    IF SavesOwner(snap) THEN DoReplaceBlock(FormatBlock(d, c1).st, c1, next, c1, TRUE).st
    ELSE d
\* nextBlock was bad: copy mappedBlock into a bad-block replacement
CollapseBad(rb, next, mapped) ==
    IF rb.rc = "ok" THEN DoReplaceBlock(rb.st, next, mapped, rb.b, TRUE).st ELSE rb.st
\* format nextBlock and copy mappedBlock back into it
CollapseMove(d, next, mapped) ==
    DoReplaceBlock(d, next, mapped, next, ~IsBlockTrash(d.blk[mapped])).st
\* the final FormatBlock of both scratch blocks
FinishCollapse(d, a1, a2) ==
    SweepResult(FormatBlock(FormatBlock(d, a1).st, a2).st, a1, a2, 0)
\* continue with the owner of the parked data, scratch blocks swapped
CollapseNext(d, c1, c2, b, own, n) ==
    Collapse(d, c2, c1, b, own, c1, <<d.blk[own], d.sec[own][0]>>, n + 1)
CollapseSaved(d, c1, c2, b, snap, n) ==
    IF SavesOwner(snap) THEN CollapseNext(d, c1, c2, b, snap[1].owner, n)
    ELSE FinishCollapse(d, c1, c2)

Collapse(d, c1, c2, b, next, mapped, snap, n) ==
    IF n > NumBlocks THEN SweepResult(Hang(d).st, c1, c2, 0)
    ELSE IF IsBadMeta(snap[1], snap[2])
    THEN FinishCollapse(CollapseBad(ReplaceBadBlock(SaveOwnerData(d, c1, next, snap), b),
                                    next, mapped), c1, c2)
    ELSE CollapseSaved(CollapseMove(FormatBlock(SaveOwnerData(d, c1, next, snap), next).st,
                                    next, mapped), c1, c2, b, snap, n)

\* end of the per-sector loop: a block whose sectors are all dirty is trash
MarkTrashIfAllDirty(d, b, dirty, c1, c2) ==
    SweepResult(IF dirty = SectorsPerBlock /\ ~IsBlockTrash(d.blk[b])
                THEN SetBlockTrash(d, b) ELSE d, c1, c2, 0)

\* the per-sector loop of one block of the sweep
CompactBlock(d, c1, c2, b, s, dirty) ==
    LET m  == d.sec[b][s]
        bm == d.blk[b]
    IN  IF s >= SectorsPerBlock THEN MarkTrashIfAllDirty(d, b, dirty, c1, c2)
        ELSE IF s = 0 /\ IsBlockFree(bm) THEN SweepResult(d, c1, c2, 1)
        ELSE IF s = 0 /\ IsValidBlockMapOffset(bm)
        THEN Collapse(d, c1, c2, b, b, GetBlockMapOffset(bm), <<bm, m>>, 0)
        ELSE IF s = 0 /\ IsBadBlock(d, b) THEN SweepResult(SwapBadReplacement(d, b), c1, c2, 0)
        ELSE IF s = 0 /\ "Format" \notin bm.flags
        THEN MarkTrashIfAllDirty(FormatBlock(d, b).st, b, dirty, c1, c2)
        ELSE IF "Mapped" \in m.flags
        THEN MarkTrashIfAllDirty(SectorCompact(d, c1, b, s), b, dirty, c1, c2)
        ELSE IF m.flags \cap {"Dirty", "Bad"} # {}
        THEN CompactBlock(d, c1, c2, b, s + 1, dirty + 1)
        ELSE MarkTrashIfAllDirty(d, b, dirty, c1, c2)

SweepNext(r, b, free) == Sweep(r.st, r.c1, r.c2, b + 1, free + r.free)

Sweep(d, c1, c2, b, free) ==
    IF b >= NumBlocks THEN SweepResult(d, c1, c2, free)
    ELSE SweepNext(CompactBlock(d, c1, c2, b, 0, 0), b, free)

\* forced compaction: format every trash or mapped block that is not bad
\* and not a bad-block replacement
FormatSweep(d, b) ==
    IF b >= NumBlocks THEN d
    ELSE FormatSweep(IF ~IsBadBlock(d, b)
                        /\ d.blk[b].flags \cap {"Trash", "Mapped"} # {}
                        /\ ~IsBadBlockReplacement(d.blk[b])
                     THEN FormatBlock(d, b).st ELSE d, b + 1)

Reclaim(d, hint, free) ==
    IF free < NumBlocks \div 5 \/ hint = AllBlocks THEN FormatSweep(d, 0)
    ELSE IF IsBlockTrash(d.blk[hint]) THEN FormatBlock(d, hint).st
    ELSE d

ReclaimAfter(sw, hint) == Ok([Reclaim(sw.st, hint, sw.free) EXCEPT !.nest = @ - 1])

ScratchBlocks(d) ==
    {b \in Blocks : IsBlockFree(d.blk[b])
                    \/ (IsBlockTrash(d.blk[b]) /\ ~IsValidBlockMapOffset(d.blk[b]))}

\* sc: the blocks the scratch search accepts; the two highest are copied through
CompactScratch(d, hint, sc) ==
    LET c1 == Max(sc)
    IN  IF d.hung \/ Cardinality(sc) < 2 THEN Fail(d)
        \* CompactBlocks -> ReplaceBlock -> WriteToSector -> CompactBlocks ...
        \* recurses on the C stack; too deep a nesting is a hang
        ELSE IF d.nest >= RetryBound THEN Hang(d)
        ELSE ReclaimAfter(Sweep([d EXCEPT !.nest = @ + 1], c1, Max(sc \ {c1}), 0, 0), hint)

CompactBlocks(d, hint) == CompactScratch(d, hint, ScratchBlocks(d))

Driver(f, d, a) ==
    CASE f = "GetPhysicalBlockAddress" -> GetPhysicalBlockAddress(d, a[1], a[2])
      [] f = "ReplaceBlock"            -> ReplaceBlock(d, a[1], a[2], a[3], a[4])
      [] f = "CompactBlocks"           -> CompactBlocks(d, a[1])

(***************************************************************************)
(* InitializeDevice: two scans over the blocks.  Every unformatted block   *)
(* is formatted.  Round 1 re-lists bad-block replacements (BadRep, not     *)
(* Dirty, owner # 0) under their owner; round 2 gives every bad block that *)
(* is still unlisted a new replacement.  GetSectorMetadata of the chip     *)
(* drivers always succeeds, so fMeta is TRUE; the results of FormatBlock   *)
(* and ReplaceBadBlock are ignored, as in the code.                        *)
(***************************************************************************)
\* the list already has an entry for block b (lines 113-119)
Listed(d, b) ==
    \E i \in DOMAIN d.bbl :
        \/ IsBadBlock(d, b) /\ d.bbl[i].virt = b
        \/ IsBadBlockReplacement(d.blk[b]) /\ d.bbl[i].phys = b

ScanBlock(d, round, b) ==
    LET bm == d.blk[b] IN
    IF "Format" \notin bm.flags THEN FormatBlock(d, b).st
    ELSE IF round = 2 /\ IsBadBlock(d, b) /\ ~Listed(d, b)
         THEN ReplaceBadBlock(d, b).st
    ELSE IF round = 1 /\ IsBadBlockReplacement(bm) /\ bm.owner # 0 /\ ~Listed(d, b)
         THEN [d EXCEPT !.bbl = <<[virt |-> bm.owner, phys |-> b]>> \o @]
    ELSE d

RECURSIVE Scan(_, _, _)
Scan(d, round, b) ==
    IF b = NumBlocks THEN d ELSE Scan(ScanBlock(d, round, b), round, b + 1)

\* d: the medium, with an empty bad-block list (the heap is fresh)
InitializeDevice(d) == Scan(Scan(d, 1, 0), 2, 0)

\* the chip as shipped: factory-bad blocks read as zeros, the rest erased
ZeroSec == [flags |-> SecFlagNames \cup SecSpare, map |-> 0, link |-> 0]
ZeroBlk == [flags |-> BlkFlagNames \cup BlkSpare, owner |-> 0, off |-> <<0, 0>>]
RawChip ==
    [blk  |-> [b \in Blocks |-> IF b \in FactoryBad THEN ZeroBlk ELSE ErasedBlk],
     sec  |-> [b \in Blocks |-> [s \in Secs |->
                  IF b \in FactoryBad THEN ZeroSec ELSE ErasedSec]],
     dat  |-> [b \in Blocks |-> [s \in Secs |-> IF b \in FactoryBad THEN 0 ELSE Erased]],
     bbl  |-> <<>>, weak |-> {}, hung |-> FALSE, nest |-> 0, ub |-> FALSE, oob |-> FALSE,
     cut  |-> 0, img |-> {}, oom |-> FALSE]

\* Power on after a power cycle: RAM (the bad-block list, the call stack,
\* a pending power loss, an exhausted heap) is gone, the medium is kept,
\* InitializeDevice runs.
Reboot(d) == InitializeDevice([d EXCEPT !.bbl = <<>>, !.hung = FALSE, !.nest = 0,
                                        !.cut = 0, !.img = {}, !.oom = FALSE])

\* Where a call leaves the device: as it returned, or, when power was lost
\* inside it, rebooted from the medium as the power loss left it.
Lost(d) == d.img # {}
Settle(d) == IF Lost(d) THEN Reboot(CHOOSE m \in d.img : TRUE) ELSE d

-----------------------------------------------------------------------------
(***************************************************************************)
(* The driver facade.  vmem is a history variable: what the file system    *)
(* has been told each virtual sector holds (the last successful write, or  *)
(* erased after EraseBlock).                                               *)
(***************************************************************************)
VARIABLES dev, vmem, ops, faults,
          wfail,     \* history: some WriteInternal has returned FALSE
          restarts   \* power cycles so far
vars == <<dev, vmem, ops, faults, wfail, restarts>>

ReadFailed == -1
\* what Read returns for a sector, ReadFailed when Read returns FALSE
ReadOf(g) == IF g.rc = "ok" /\ ~g.st.hung THEN g.st.dat[g.b][g.s] ELSE ReadFailed
ReadValue(d, v, s) == ReadOf(GetPhysicalAddress(d, v, s))

\* the first boot: InitializeDevice on the chip as shipped
Init ==
    /\ dev = InitializeDevice(RawChip)
    /\ vmem = [v \in ClientBlocks |-> [s \in Secs |-> Erased]]
    /\ ops = 0
    /\ faults = 0
    /\ wfail = FALSE
    /\ restarts = 0

\* every entry point runs under GLOBAL_LOCK; a hung driver takes no calls
Call == ~dev.hung /\ ~dev.ub /\ ~dev.oob /\ ops' = ops + 1

\* state constraint of the model-checking runs: at most MaxOps calls
OpsBound == ops <= MaxOps

\* a call that lost power counts as a power cycle
Cycled(d) == restarts' = restarts + (IF Lost(d) THEN 1 ELSE 0)

\* the device after a call that left it in d
Ended(d) == dev' = Settle(d) /\ Cycled(d)

\* WriteInternal of one whole sector; a call cut short by a power loss
\* never returns TRUE
WriteDone(r, v, s, val) ==
    /\ dev' = Settle(r.st)
    /\ vmem' = IF r.rc = "ok" /\ ~Lost(r.st) THEN [vmem EXCEPT ![v][s] = val] ELSE vmem
    /\ wfail' = (wfail \/ r.rc # "ok" \/ Lost(r.st))
    /\ Cycled(r.st)
Write(v, s, val) ==
    /\ Call
    /\ WriteDone(WriteToSector(dev, v, s, val), v, s, val)
    /\ UNCHANGED faults

\* Read of one sector: resolving it may allocate, replace or compact
Read(v, s) ==
    /\ Call
    /\ Ended(GetPhysicalAddress(dev, v, s).st)
    /\ UNCHANGED <<vmem, faults, wfail>>

\* g: the block as GetPhysicalBlockAddress resolves it without allocation
EraseResolved(g, v) ==
    IF g.rc = "ok" /\ "Dirty" \in dev.blk[g.b].flags
    THEN /\ dev' = IF IsBlockTrash(dev.blk[g.b]) THEN dev ELSE SetBlockTrash(dev, g.b)
         /\ vmem' = [vmem EXCEPT ![v] = [s \in Secs |-> Erased]]
    ELSE UNCHANGED <<dev, vmem>>
EraseBlock(v) ==
    /\ Call
    /\ EraseResolved(GetPhysicalBlockAddress(dev, v, FALSE), v)
    /\ UNCHANGED <<faults, wfail, restarts>>

\* the public CompactBlocks entry (file system format / idle compaction)
Compact(hint) ==
    /\ Call
    /\ Ended(CompactBlocks(dev, hint).st)
    /\ UNCHANGED <<vmem, faults, wfail>>

\* the medium: a sector wears out and its next program operation fails
MediaFault(b, s) ==
    /\ faults < MaxFaults /\ "media" \in FaultKinds
    /\ <<b, s>> \notin dev.weak
    /\ dev' = [dev EXCEPT !.weak = @ \cup {<<b, s>>}]
    /\ faults' = faults + 1
    /\ UNCHANGED <<vmem, ops, wfail, restarts>>

\* the simple heap, shared with the rest of the firmware, is exhausted: the
\* next SimpleHeap_Allocate of the driver returns NULL
HeapExhausted ==
    /\ faults < MaxFaults /\ "heap" \in FaultKinds /\ ~dev.oom
    /\ dev' = [dev EXCEPT !.oom = TRUE]
    /\ faults' = faults + 1
    /\ UNCHANGED <<vmem, ops, wfail, restarts>>

\* a power cycle between two calls: RAM (the bad-block list, the call
\* stack) is lost, the medium is kept and InitializeDevice runs again
Restart ==
    /\ restarts < MaxRestarts /\ ~dev.ub /\ ~dev.oob
    /\ dev' = Reboot(dev)
    /\ restarts' = restarts + 1
    /\ UNCHANGED <<vmem, ops, faults, wfail>>

\* the supply will fail at the k-th metadata write of the next ReplaceBlock
PowerLoss(k) ==
    /\ restarts < MaxRestarts /\ dev.cut = 0 /\ k \in CutPoints
    /\ dev' = [dev EXCEPT !.cut = k]
    /\ UNCHANGED <<vmem, ops, faults, wfail, restarts>>

Next ==
    \/ \E v \in ClientBlocks, s \in Secs, val \in WriteVals : Write(v, s, val)
    \/ \E v \in ClientBlocks, s \in Secs : Read(v, s)
    \/ \E v \in ClientBlocks : EraseBlock(v)
    \/ \E h \in ClientBlocks \cup {AllBlocks} : Compact(h)
    \/ \E b \in Blocks, s \in Secs : MediaFault(b, s)
    \/ HeapExhausted
    \/ Restart
    \/ \E k \in 1..3 : PowerLoss(k)

Spec == Init /\ [][Next]_vars

-----------------------------------------------------------------------------
TypeOK ==
    /\ dev.blk \in [Blocks -> BlkMeta]
    /\ dev.sec \in [Blocks -> [Secs -> SecMeta]]
    /\ dev.dat \in [Blocks -> [Secs -> Data \cup {Junk}]]
    /\ dev.weak \subseteq Blocks \X Secs
    /\ dev.bbl \in Seq([virt: Blocks, phys: Blocks])
    /\ dev.hung \in BOOLEAN /\ (dev.nest = 0 \/ dev.hung) /\ dev.ub \in BOOLEAN
    /\ dev.oob \in BOOLEAN
    /\ vmem \in [ClientBlocks -> [Secs -> Data]]
    /\ ops \in Nat /\ faults \in 0..MaxFaults /\ wfail \in BOOLEAN
    /\ restarts \in 0..MaxRestarts /\ dev.cut \in {0} \cup CutPoints /\ dev.img = {}
    /\ dev.oom \in BOOLEAN

(* Round trip (spec "Testable properties"): a Read of a virtual sector     *)
(* that succeeds returns what the last successful WriteInternal stored     *)
(* there, or erased ones after EraseBlock, whatever remapping, sector      *)
(* linking, block replacement and compaction happened in between (and      *)
(* whatever the failed calls left behind).  A Read may fail when the       *)
(* device has run out of free sectors, free blocks and scratch blocks.     *)
ReadYieldsLastWrite ==
    \A v \in ClientBlocks, s \in Secs :
        ReadValue(dev, v, s) \in {vmem[v][s], ReadFailed}


(* Spec section 3: a virtual block resolves to exactly one current         *)
(* physical block.  No two virtual blocks resolve (GetPhysicalBlockAddress *)
(* without allocation, as EraseBlock and IsBlockErased call it) to the     *)
(* same physical block, through direct maps, block map offsets, owner      *)
(* chains collapsed by CompactBlocks, or the bad-block list.               *)
Distinct(g1, g2) == g1.rc = "ok" /\ g2.rc = "ok" => g1.b # g2.b
NoAlias ==
    \A v1, v2 \in Blocks :
        v1 # v2 => Distinct(GetPhysicalBlockAddress(dev, v1, FALSE),
                            GetPhysicalBlockAddress(dev, v2, FALSE))

(* The allocators (GetNextFreeBlock, ReplaceBadBlock, the scratch search   *)
(* of CompactBlocks) hand out blocks whose flags read as free; such a      *)
(* block must really be erased, or the next program ANDs into old data.    *)
(* A sector flagged Bad is exempt: the resolver and GetNextFreeSector      *)
(* never program it (it is how a power loss can leave a failed first      *)
(* program in a block that was never committed).                          *)
FreeBlocksErased ==
    \A b \in Blocks : IsBlockFree(dev.blk[b]) =>
        \A s \in Secs : \/ dev.sec[b][s] = ErasedSec /\ dev.dat[b][s] = Erased
                       \/ "Bad" \in dev.sec[b][s].flags

(* Spec section 7: a full device is reported to the caller (NoFreeSpace,   *)
(* surfaced as FALSE); no entry point loops forever.  The driver's retry   *)
(* loops (WriteToSector's while(TRUE), the link walk of                    *)
(* GetPhysicalAddress, the chain collapse of CompactBlocks) all terminate. *)
NoHang == ~dev.hung

(* CompactBlocks swaps the replacement of every bad block it sweeps       *)
(* (lines 412-427): curBlock, the old replacement, must come from a        *)
(* successful bad-block list lookup before ReplaceBlock copies from it.    *)
NoUninitialisedCurBlock == ~dev.ub

(* What every client sector reads as, evaluated in device state d with   *)
(* memory available (a read that fails for want of heap says nothing of    *)
(* the data).                                                              *)
Contents(d) ==
    LET h == [d EXCEPT !.oom = FALSE]
    IN  [v \in ClientBlocks |-> [s \in Secs |-> ReadValue(h, v, s)]]

CompactIsTransparent ==
    [][(\E h \in ClientBlocks \cup {AllBlocks} : Compact(h)) => Contents(dev') = Contents(dev)]_vars

(* Refinement: with what every virtual sector reads as (Contents) for the *)
(* disk, the driver implements BlockStore.  Every call of the file system *)
(* either writes the one sector it names with the value it passes, erases *)
(* one whole virtual block, or leaves every sector as it read before.  A   *)
(* WriteToSector that relocates the sector, replaces the block, collapses *)
(* a chain or compacts the device on the way must not change any other    *)
(* sector or leave the written one with another value.                    *)
VirtualDisk == INSTANCE BlockStore WITH VBlocks <- ClientBlocks, VSecs <- Secs,
                                        Vals <- WriteVals, ErasedVal <- Erased,
                                        disk <- Contents(dev)
\* VirtualDisk!Spec, with the mapping evaluated once per state of a step
ImplementsBlockStore ==
    /\ VirtualDisk!Init
    /\ [][LET c == Contents(dev) c2 == Contents(dev') IN c2 = c \/ VirtualDisk!Step(c, c2)]_vars

(* Spec sec. 3: the bad-block list is "rebuilt from device metadata at    *)
(* initialization".  A power cycle followed by InitializeDevice may not    *)
(* change what any virtual sector reads as.                                *)
RestartPreservesContents ==
    [][Restart => Contents(dev') = Contents(dev)]_vars

(* Spec sec. 4.5.6: "each sector write is atomic with respect to this      *)
(* algorithm, but a crash between sectors leaves only already-committed    *)
(* sectors valid".  When power is lost inside a call, at one of the        *)
(* metadata writes of ReplaceBlock (relocation, block replacement, the     *)
(* bad-block swap, compaction), and InitializeDevice runs on the medium    *)
(* as it was left, every virtual sector still reads as before the call;    *)
(* only the sector being written may read as its new value instead.        *)
PowerLossKeepsCommitted ==
    [][restarts' > restarts /\ ~Restart =>
        \A w \in ClientBlocks, t \in Secs :
            \/ Contents(dev')[w][t] = Contents(dev)[w][t]
            \/ \E val \in WriteVals : Contents(dev')[w][t] = val /\ Write(w, t, val)]_vars

(* A block that carries the Mapped flag and a valid owner, and is neither  *)
(* trash nor a bad-block replacement, is where its owner resolves to.      *)
MappedBlockOwned ==
    \A p \in Blocks :
        LET bm == dev.blk[p] IN
        ("Mapped" \in bm.flags /\ ~IsBlockTrash(bm) /\ "BadRep" \notin bm.flags
         /\ IsValidOwnerBlock(bm) /\ bm.owner \in Blocks)
            => GetPhysicalBlockAddress(dev, bm.owner, FALSE).b = p

=============================================================================
