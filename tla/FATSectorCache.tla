--------------------------- MODULE FATSectorCache ---------------------------
(***************************************************************************)
(* The FAT sector cache (FAT_SectorCache.cpp) on top of the SPI SD card    *)
(* driver (SDBlockStorage).  The cache holds up to MaxLines lines of       *)
(* SectorsPerLine sectors each; a line is a record                         *)
(*   buf   : m_buffer is allocated,                                        *)
(*   begin : m_begin, the first sector of the line,                        *)
(*   dirty : the dirty bit of m_flags,                                     *)
(*   lru   : the LRU counter of m_flags (GetLRUCounter / SetLRUCOunter),   *)
(*   data  : the sectors of the buffer.                                    *)
(* The volume starts at byte 0 of the card (m_baseByteAddress = 0) and     *)
(* fills it.  Every public call of the cache is one action: the FAT file   *)
(* system calls it from one thread, and a call runs to its end before the *)
(* next.  The client writes the sector through the pointer GetSector      *)
(* returns before its next call, so that write is part of the action.     *)
(* CardFault is the card: a sector it will not read, or will not take,    *)
(* the next time it is asked.                                              *)
(***************************************************************************)
EXTENDS Integers, FiniteSets, FiniteSetsExt

CONSTANTS MaxLines,       \* SECTORCACHE_MAXSIZE
          SectorsPerLine, \* m_sectorsPerLine = SECTORCACHE_LINESIZE / bytesPerSector
          SectorCount,    \* m_sectorCount, the sectors of the volume
          Payloads,       \* sector contents
          Zero,           \* the contents EraseSector writes (memset 0)
          FaultKinds,     \* which card failures may happen: "read", "write"
          MaxCardFaults,  \* bound on card failures
          MaxCalls        \* bound on calls into the cache

ASSUME /\ MaxLines \in Nat \ {0} /\ SectorsPerLine \in Nat \ {0}
       /\ SectorCount \in Nat \ {0} /\ SectorCount % SectorsPerLine = 0
       /\ Zero \in Payloads /\ FaultKinds \subseteq {"read", "write"}
       /\ MaxCardFaults \in Nat /\ MaxCalls \in Nat

SD == INSTANCE SDBlockStorage WITH NumSectors <- SectorCount

Lines   == 0 .. MaxLines - 1
Volume  == 0 .. SectorCount - 1
NoLine  == -1                    \* the NULL FAT_CacheLine* / BYTE*
Offsets == 0 .. SectorsPerLine - 1
\* the indices GetSector's range check "sectorIndex > m_sectorCount" lets
\* through: the volume and one past its end
Indices == 0 .. SectorCount

VARIABLES lines,   \* m_cacheLines
          lru,     \* m_LRUCounter
          card,    \* the SD card (SDBlockStorage)
          calls,   \* calls made, bounded by MaxCalls
          faults   \* card failures so far

vars == <<lines, lru, card, calls, faults>>

\* The cache as one value, so that the helpers can be chained.
St == [lines |-> lines, lru |-> lru, card |-> card]
Apply(s) == lines' = s.lines /\ lru' = s.lru /\ card' = s.card

Covers(l, i) == l.buf /\ l.begin <= i /\ i < l.begin + SectorsPerLine

\* mutant: a sector is found only when it is the first of a line
GetCacheLineAtBegin(s, i) ==
    LET at == {k \in Lines : s.lines[k].buf /\ s.lines[k].begin = i} IN
    IF at = {} THEN NoLine ELSE Min(at)

\* GetCacheLine: the first line with a buffer whose range holds the sector.
Holding(s, i) == {k \in Lines : Covers(s.lines[k], i)}
GetCacheLine(s, i) == IF Holding(s, i) = {} THEN NoLine ELSE Min(Holding(s, i))

\* FlushSector(FAT_CacheLine*): a dirty line is written to the device, whose
\* answer is not looked at, and is clean afterwards.
FlushLine(s, k) ==
    IF s.lines[k].buf /\ s.lines[k].dirty
    THEN [s EXCEPT !.card = SD!Write(s.card, s.lines[k].begin, s.lines[k].data).card,
                   !.lines[k].dirty = FALSE]
    ELSE s

\* mutant: the comparison is reversed, the most recently used line is chosen
TopCandidateNewest(s) ==
    CHOOSE k \in Lines : \A j \in Lines :
        \/ s.lines[k].lru > s.lines[j].lru
        \/ s.lines[k].lru = s.lines[j].lru /\ k <= j

\* GetUnusedCacheLine: the first line without a buffer; else the first line
\* of least LRU counter, flushed.  (Counters stay far below 0x7FFFFFFF, so a
\* candidate always exists.)
TopCandidate(s) ==
    CHOOSE k \in Lines : \A j \in Lines :
        \/ s.lines[k].lru < s.lines[j].lru
        \/ s.lines[k].lru = s.lines[j].lru /\ k <= j
\* mutant: the least recently used line is reused without being flushed
GetUnusedCacheLineNoFlush(s) ==
    LET free == {k \in Lines : ~s.lines[k].buf} IN
    IF free # {} THEN [st |-> s, line |-> Min(free)]
    ELSE [st |-> s, line |-> TopCandidate(s)]

GetUnusedCacheLine(s) ==
    LET free == {k \in Lines : ~s.lines[k].buf} IN
    IF free # {} THEN [st |-> s, line |-> Min(free)]
    ELSE [st |-> FlushLine(s, TopCandidate(s)), line |-> TopCandidate(s)]

\* mutant: a write access does not set the dirty bit
TouchNoDirty(s, k, forWrite) ==
    IF s.lines[k].lru = s.lru THEN s
    ELSE [s EXCEPT !.lru = s.lru + 1, !.lines[k].lru = s.lru + 1]

\* The tail of GetSector for a line that holds the sector: mark it dirty for
\* a write, and give it a new LRU stamp unless it has the latest one.
Touch(s, k, forWrite) ==
    LET d == IF forWrite THEN [s EXCEPT !.lines[k].dirty = TRUE] ELSE s IN
    IF d.lines[k].lru = d.lru THEN d
    ELSE [d EXCEPT !.lru = d.lru + 1, !.lines[k].lru = d.lru + 1]

\* mutant: m_begin is the sector itself, not the start of its line
FillUnaligned(s, k, i) ==
    LET r == SD!Read(s.card, i, SectorsPerLine)
        l == [s.lines[k] EXCEPT !.begin = i, !.dirty = FALSE, !.lru = 0]
    IN  IF r.ok
        THEN [st |-> [s EXCEPT !.card = r.card,
                               !.lines[k] = [l EXCEPT !.buf = TRUE, !.data = r.buf]],
              line |-> k]
        ELSE [st |-> [s EXCEPT !.card = r.card, !.lines[k] = [l EXCEPT !.buf = FALSE]],
              line |-> NoLine]

\* The miss path of GetSector from m_begin on: the line takes the aligned
\* range, its flags are cleared, and it is read from the device; a failed
\* read frees the buffer and GetSector returns NULL.
Fill(s, k, i) ==
    LET b == i - (i % SectorsPerLine)
        r == SD!Read(s.card, b, SectorsPerLine)
        l == [s.lines[k] EXCEPT !.begin = b, !.dirty = FALSE, !.lru = 0]
    IN  IF r.ok
        THEN [st |-> [s EXCEPT !.card = r.card,
                               !.lines[k] = [l EXCEPT !.buf = TRUE, !.data = r.buf]],
              line |-> k]
        ELSE [st |-> [s EXCEPT !.card = r.card, !.lines[k] = [l EXCEPT !.buf = FALSE]],
              line |-> NoLine]

\* GetSector(sectorIndex, forWrite); mallocOk is whether private_malloc of a
\* line buffer succeeds.  The result is the cache after the call and the
\* line the returned pointer points into (NoLine for NULL).
GetSector(s, i, forWrite, mallocOk) ==
    IF i > SectorCount THEN [st |-> s, line |-> NoLine]
    ELSE IF GetCacheLine(s, i) # NoLine
         THEN [st |-> Touch(s, GetCacheLine(s, i), forWrite), line |-> GetCacheLine(s, i)]
    ELSE LET u == GetUnusedCacheLine(s) IN
         IF ~u.st.lines[u.line].buf /\ ~mallocOk THEN [st |-> u.st, line |-> NoLine]
         ELSE LET f == Fill(u.st, u.line, i) IN
              IF f.line = NoLine THEN f
              ELSE [st |-> Touch(f.st, f.line, forWrite), line |-> f.line]

\* The outcomes of private_malloc the call can meet: it is called only on a
\* miss that finds a line without a buffer.
MallocOutcomes(s, i) ==
    IF GetCacheLine(s, i) = NoLine /\ \E k \in Lines : ~s.lines[k].buf
    THEN BOOLEAN ELSE {TRUE}

\* The client's store of v into sector i through the pointer of g.
Store(g, i, v) ==
    IF g.line = NoLine THEN g.st
    ELSE [g.st EXCEPT !.lines[g.line].data[i - g.st.lines[g.line].begin] = v]

RECURSIVE FlushFrom(_, _)
FlushFrom(s, k) == IF k = MaxLines THEN s ELSE FlushFrom(FlushLine(s, k), k + 1)

\* Uninitialize: every line with a buffer is flushed and freed.
RECURSIVE Release(_, _)
Release(s, k) ==
    IF k = MaxLines THEN s
    ELSE IF s.lines[k].buf
         THEN Release([FlushLine(s, k) EXCEPT !.lines[k].buf = FALSE], k + 1)
         ELSE Release(s, k + 1)
-----------------------------------------------------------------------------
\* Initialize: no line has a buffer, all flags are clear, m_LRUCounter = 1.
\* begin and data are never read while a line has no buffer.
Init ==
    /\ lines = [k \in Lines |-> [buf |-> FALSE, begin |-> 0, dirty |-> FALSE,
                                 lru |-> 0, data |-> [o \in Offsets |-> Zero]]]
    /\ lru = 1
    /\ card = SD!GoodCard([i \in Volume |-> Zero])
    /\ calls = 0
    /\ faults = 0

Call == calls' = calls + 1

\* state constraint of the model-checking runs: at most MaxCalls calls
CallBound == calls <= MaxCalls

\* GetSector(i, FALSE), the file system reading a sector.
ReadSector(i) ==
    /\ Call
    /\ \E mallocOk \in MallocOutcomes(St, i) : Apply(GetSector(St, i, FALSE, mallocOk).st)
    /\ UNCHANGED faults

\* GetSector(i, TRUE) and the store of v through the returned pointer.
WriteSector(i, v) ==
    /\ Call
    /\ \E mallocOk \in MallocOutcomes(St, i) : Apply(Store(GetSector(St, i, TRUE, mallocOk), i, v))
    /\ UNCHANGED faults

\* EraseSector: GetSector(i, TRUE) and memset 0 of the sector.
EraseSector(i) ==
    /\ Call
    /\ \E mallocOk \in MallocOutcomes(St, i) : Apply(Store(GetSector(St, i, TRUE, mallocOk), i, Zero))
    /\ UNCHANGED faults

MarkSectorDirty(i) ==
    /\ Call
    /\ LET k == GetCacheLine(St, i) IN
       Apply(IF k = NoLine THEN St ELSE [St EXCEPT !.lines[k].dirty = TRUE])
    /\ UNCHANGED faults

\* FlushSector(UINT32): flush the line holding the sector, if any.
FlushSector(i) ==
    /\ Call
    /\ LET k == GetCacheLine(St, i) IN Apply(IF k = NoLine THEN St ELSE FlushLine(St, k))
    /\ UNCHANGED faults

FlushAll ==
    /\ Call
    /\ Apply(FlushFrom(St, 0))
    /\ UNCHANGED faults

Uninitialize ==
    /\ Call
    /\ Apply(Release(St, 0))
    /\ UNCHANGED faults

\* The card will fail the next read, or the next write, of sector s.
CardFault(s, kind) ==
    /\ faults < MaxCardFaults
    /\ kind \in FaultKinds
    /\ card' = IF kind = "read" THEN [card EXCEPT !.rfail = @ \cup {s}]
                                ELSE [card EXCEPT !.wfail = @ \cup {s}]
    /\ faults' = faults + 1
    /\ UNCHANGED <<lines, lru, calls>>

Next ==
    \/ \E i \in Indices : ReadSector(i) \/ EraseSector(i) \/ MarkSectorDirty(i) \/ FlushSector(i)
    \/ \E i \in Indices, v \in Payloads \ {Zero} : WriteSector(i, v)
    \/ FlushAll
    \/ Uninitialize
    \/ \E s \in Volume, kind \in {"read", "write"} : CardFault(s, kind)

Spec == Init /\ [][Next]_vars

-----------------------------------------------------------------------------
LineType == [buf : BOOLEAN, begin : {b \in Indices : b % SectorsPerLine = 0},
             dirty : BOOLEAN, lru : Nat, data : [Offsets -> Payloads]]

\* Every line starts on a line boundary of the volume, or at its end after
\* a GetSector of index m_sectorCount whose read failed, and every LRU stamp
\* is one m_LRUCounter has handed out.
TypeOK ==
    /\ lines \in [Lines -> LineType]
    /\ lru \in 1 .. calls + 1
    /\ \A k \in Lines : lines[k].lru < lru \/ lines[k].lru = lru
    /\ card.data \in [Volume -> Payloads]
    /\ card.rfail \subseteq Volume /\ card.wfail \subseteq Volume
    /\ calls \in Nat /\ faults \in 0 .. MaxCardFaults

\* What the file system sees of sector i: the line that holds it, or the
\* card when no line does.
View == [i \in Volume |->
            IF \E k \in Lines : Covers(lines[k], i)
            THEN LET k == CHOOSE k \in Lines : Covers(lines[k], i)
                 IN  lines[k].data[i - lines[k].begin]
            ELSE card.data[i]]

\* No sector is held by two lines: GetSector only fills a line after
\* GetCacheLine found none holding the sector, and a line's range is the
\* aligned range of the sector that filled it.  Two copies would let a
\* write to one be overwritten on the card by the flush of the other.
OneLinePerSector == \A i \in Volume : Cardinality(Holding(St, i)) <= 1

\* A line that is not dirty holds what the card holds: FlushSector clears
\* the dirty bit only after writing the line, and a line is filled from
\* the card.  It is why dropping a clean line on eviction loses nothing.
CleanLineMatchesCard ==
    \A k \in Lines : lines[k].buf /\ ~lines[k].dirty =>
        \A o \in Offsets : lines[k].data[o] = card.data[lines[k].begin + o]

\* The pointer GetSector returned stays usable across the calls that
\* follow, up to Uninitialize.  The line it points into is the one with
\* the latest LRU stamp (only GetSector stamps a line, and it stamps the
\* line it returns).  A later GetSector, whether it hits, evicts a line, or
\* fails to allocate or to read, leaves that line holding the same sectors,
\* and so do flushes and card failures.  The file system holds one
\* sector's pointer while it fetches another (a copy, a FAT chain update).
\* It relies on the stamp keeping the line out of GetUnusedCacheLine's
\* choice, and on a hit not moving the stamp elsewhere.
PreviousSectorSurvives ==
    [][~Uninitialize =>
           \A k \in Lines : lines[k].buf /\ lines[k].lru = lru =>
               lines'[k].buf /\ lines'[k].begin = lines[k].begin]_vars

\* The command CRC of the SD driver against the CRC7 code: a constant,
\* which TLC evaluates once, before the search.
CommandCRCs ==
    /\ SD!CRC7MatchesCode
    /\ SD!CommandCRCByte(0, 0) = 149
    /\ SD!CommandCRCByte(8, 426) = 135

\* Every command frame the driver sends ends with a valid CRC7: for each
\* two-byte message, the seven bits CRC7Encode computes complete it to a
\* codeword of the SD CRC7 code (x^7 + x^3 + 1), the per-byte mask and the
\* seven trailing zero shifts included; and the CRC byte ChipInitialize
\* hard-codes for CMD0 (0x95) is the one SD_SendCmdWithR7Resp would compute
\* for that frame, as the CMD8 frame of ChipInitialize (argument 0x1AA)
\* ends with 0x87, the SD specification's value.  The code checked is the
\* same in every state; the formula is stated of each state the driver is
\* used in, so that a wrong encoder shows as an ordinary counterexample.
CommandCRCCorrect == calls \in Nat /\ CommandCRCs

\* Refinement: with View as the volume's contents, every step of the cache
\* and the card either writes one sector, as the client asked, or leaves
\* the contents alone: the cache implements SectorStore.  Eviction,
\* flushes, Uninitialize and card failures never change what is read.
Abstract == INSTANCE SectorStore WITH disk <- View
\* Abstract!Spec, with the mapping evaluated once per state of a step
ImplementsSectorStore ==
    /\ Abstract!Init
    /\ [][LET d == View d2 == View' IN d2 = d \/ Abstract!Step(d, d2)]_vars
=============================================================================
