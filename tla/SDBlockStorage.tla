--------------------------- MODULE SDBlockStorage ---------------------------
(***************************************************************************)
(* The SPI SD card block-storage driver (SD_BL_driver.cpp), the whole-     *)
(* sector read and write paths.  The card is a record                      *)
(*   data  : sector -> payload (a sector is 512 bytes; a payload is a      *)
(*           model value standing for its contents),                       *)
(*   rfail : sectors whose next CMD17 never answers with the start token  *)
(*           within the ten attempts of ReadSector,                        *)
(*   wfail : sectors whose next CMD24 is not answered "ready", or whose    *)
(*           data response is not "accepted" (SD_CheckBusy).               *)
(* The card's own failures are the only nondeterminism: they are put in   *)
(* rfail / wfail by the composing module, and an operation consumes them. *)
(* The driver's operations are pure operators from a card to a result.    *)
(* Addresses are in sectors; the region starts at sector 0 (the byte       *)
(* address is the sector times 512, and PhysicalToSectorAddress divides    *)
(* it back).                                                               *)
(***************************************************************************)
EXTENDS Naturals, FiniteSets, Sequences

CONSTANTS NumSectors,   \* sectors of the card's single region
          Payloads      \* what a sector may contain

Sectors == 0 .. NumSectors - 1

\* FindRegionFromAddress: the start address lies in the card's region.
InRegion(s) == s \in Sectors

\* SD_SendCmdWithR1Resp(CMD17, ..., SD_START_DATA_BLOCK_TOKEN) answers with
\* the token, for a sector the card can read, within the ten attempts of
\* ReadSector; a sector past the end of the card is refused with an error.
ReadSectorOk(card, s) == s \in Sectors /\ s \notin card.rfail

\* SD_CheckBusy (after SD_SendCmdWithR1Resp(CMD24) was answered ready)
\* returns SD_SUCCESS: the card took the sector.
DataAccepted(card, s) == s \in Sectors /\ s \notin card.wfail

\* Read(context, phyAddress, n sectors, buf): sector after sector through
\* ReadSector; the first sector that fails ends the call with FALSE.  The
\* failure is consumed: the card answers the next time.
Read(card, first, n) ==
    LET span   == first .. first + n - 1
        failed == {s \in span : ~ReadSectorOk(card, s)}
        stop   == CHOOSE s \in failed : \A t \in failed : s <= t
    IN  IF ~InRegion(first) THEN [ok |-> FALSE, card |-> card]
        ELSE IF failed # {}
             THEN [ok |-> FALSE, card |-> [card EXCEPT !.rfail = @ \ {stop}]]
        ELSE [ok |-> TRUE, card |-> card,
              buf |-> [k \in 0 .. n - 1 |-> card.data[first + k]]]

\* One pass of the WriteX loop for a whole sector (fIncrementDataPtr and
\* bytes = BytesPerSector, so no read-modify-write): CMD24, then the data
\* and SD_CheckBusy when the card is ready.  Neither response is examined.
WriteSector(card, s, v) ==
    IF DataAccepted(card, s)
    THEN [card EXCEPT !.data[s] = v]
    ELSE [card EXCEPT !.wfail = @ \ {s}]

\* Write(context, phyAddr, n sectors, buf, ReadModifyWrite) = WriteX with
\* fIncrementDataPtr: every sector of the span is sent in turn, and the call
\* returns TRUE once the start address is in the region, whatever the card
\* answered.
RECURSIVE WriteLoop(_, _, _, _)
WriteLoop(card, first, buf, k) ==
    IF k \notin DOMAIN buf THEN card
    ELSE WriteLoop(WriteSector(card, first + k, buf[k]), first, buf, k + 1)

WriteX(card, first, buf) ==
    IF ~InRegion(first) THEN [ok |-> FALSE, card |-> card]
    ELSE [ok |-> TRUE, card |-> WriteLoop(card, first, buf, 0)]

Write(card, first, buf) == WriteX(card, first, buf)

\* A card with no pending failures.
GoodCard(data) == [data |-> data, rfail |-> {}, wfail |-> {}]
(***************************************************************************)
(* CRC7Encode: the command CRC, shifted bit by bit through a UINT8.  A     *)
(* byte is a number in 0 .. 255, the input a sequence of bytes.            *)
(***************************************************************************)
RECURSIVE XorBits(_, _)
XorBits(x, y) == IF x = 0 /\ y = 0 THEN 0
                 ELSE ((x + y) % 2) + 2 * XorBits(x \div 2, y \div 2)

\* exclusive or of two naturals, four bits at a time through a table
XorNibble == [p \in (0 .. 15) \X (0 .. 15) |-> XorBits(p[1], p[2])]
RECURSIVE XorW(_, _)
XorW(x, y) == IF x = 0 /\ y = 0 THEN 0
              ELSE XorNibble[<<x % 16, y % 16>>] + 16 * XorW(x \div 16, y \div 16)

\* "crc ^= 9" on a UINT8: bits 0 and 3 flipped
Xor9(crc) == XorW(crc, 9)

\* one pass of an inner loop: crc = (crc << 1) | bit, truncated to the
\* UINT8; the polynomial is folded in when bit 7 is set
ShiftBit(crc, bit) ==
    LET c == ((crc * 2) % 256) + bit IN IF c >= 128 THEN Xor9(c) ELSE c

\* i passes of the bit loop over byte, MSB first ("byte <<= 1")
RECURSIVE ShiftIn(_, _, _)
ShiftIn(crc, byte, i) ==
    IF i = 0 THEN crc
    ELSE ShiftIn(ShiftBit(crc, byte \div 128), (byte * 2) % 256, i - 1)

\* the loop over the input: eight bits of each byte, then "crc &= 0x7f"
RECURSIVE CRC7Bytes(_, _)
CRC7Bytes(crc, input) ==
    IF input = <<>> THEN crc
    ELSE CRC7Bytes(ShiftIn(crc, Head(input), 8) % 128, Tail(input))

\* mutant: the trailing loop runs eight times ("i >= 0")
CRC7EncodeLong(crc, input) == ShiftIn(CRC7Bytes(crc, input), 0, 8) % 128

\* seven zero bits shifted in after the input, and the final mask
CRC7Encode(crc, input) == ShiftIn(CRC7Bytes(crc, input), 0, 7) % 128

\* the frame of a command with a 32-bit argument (s_cmdBuff[0 .. 4]) and
\* the last byte SD_SendCmdWithR7Resp computes for it: CRC, then end bit
CommandFrame(cmd, arg) ==
    <<64 + cmd, arg \div 2^24, (arg \div 2^16) % 256, (arg \div 2^8) % 256, arg % 256>>
CommandCRCByte(cmd, arg) == (CRC7Encode(0, CommandFrame(cmd, arg)) * 2) + 1

(***************************************************************************)
(* The reference: the cyclic code of generator x^7 + x^3 + 1 (SD spec,     *)
(* CRC7).  Q(x) * G(x) over GF(2), for a quotient of 16 bits, is a         *)
(* codeword: its 16 high bits are a two-byte message and its 7 low bits     *)
(* the message's CRC.  Every two-byte message is the top of exactly one     *)
(* such product.                                                           *)
(***************************************************************************)
Codeword(q) == XorW(XorW(q * 128, q * 8), q)

CRC7MatchesCode ==
    \A q \in 0 .. 65535 :
        LET c == Codeword(q)
            m == c \div 128
        IN  CRC7Encode(0, <<m \div 256, m % 256>>) = c % 128
=============================================================================
