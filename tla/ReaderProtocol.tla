---------------------------- MODULE ReaderProtocol ----------------------------
(***************************************************************************)
(* The wire protocol of the reader (internal/protocol/reader18) and what   *)
(* its two users compute from it alike: bytes are numbers, packets and     *)
(* streams are sequences of bytes, arithmetic has the width it has in the  *)
(* code.  Responses of the reader are framed as commands are, with a       *)
(* status byte before the data.                                            *)
(***************************************************************************)
EXTENDS Integers, SequencesExt

Byte == 0..255

CmdInventory == 1
CmdInventorySingle == 15
CmdGetReaderInfo == 33

StatusSuccess == 0
StatusNoTag == 1
StatusNoTagOrTimeout == 251

\* Statuses that say that an inventory found no tag.
NoTagStatuses == {StatusNoTag, 2, 3, 4, StatusNoTagOrTimeout}

Bit(n, i) == (n \div 2^i) % 2
ToByte(n) == n % 256

-----------------------------------------------------------------------------
(***************************************************************************)
(* crc16MCRF4XX: the polynomial 0x8408 has the bits 15, 10 and 3.          *)
(***************************************************************************)
Flip(n, i) == IF Bit(n, i) = 1 THEN n - 2^i ELSE n + 2^i

\* One bit of a byte: the code takes the byte in first and then shifts eight times.
CrcBit(crc, bit) ==
    LET half == crc \div 2
    IN IF crc % 2 = bit THEN half ELSE Flip(Flip(Flip(half, 15), 10), 3)

\* The checksum after the first i bits of b, and after the first k bytes.
CrcByte[crc \in 0..65535, b \in Byte, i \in 0..8] ==
    IF i = 0 THEN crc ELSE CrcBit(CrcByte[crc, b, i - 1], Bit(b, i - 1))

CrcBytes[bytes \in Seq(Byte), k \in Nat] ==
    IF k = 0 THEN 65535 ELSE CrcByte[CrcBytes[bytes, k - 1], bytes[k], 8]

Crc16(bytes) == CrcBytes[bytes, Len(bytes)]

WithCrc(bytes) == LET crc == Crc16(bytes) IN bytes \o <<ToByte(crc), crc \div 256>>

\* The length byte wraps for a payload of 252 bytes and more.
BuildCommand(address, command, payload) ==
    WithCrc(<<ToByte(Len(payload) + 4), address, command>> \o payload)

-----------------------------------------------------------------------------
(***************************************************************************)
(* ParseFrames.                                                            *)
(***************************************************************************)
VerifyPacket(packet) ==
    /\ Len(packet) >= 6 /\ packet[1] + 1 = Len(packet)
    /\ packet = WithCrc(SubSeq(packet, 1, Len(packet) - 2))

FrameOf(raw) ==
    [address |-> raw[2], command |-> raw[3], status |-> raw[4],
     data |-> SubSeq(raw, 5, Len(raw) - 2), raw |-> raw]

\* Fault: a frame that is whole waits for one byte more.
WaitsLonger(buf) == Len(buf) < 6 \/ (buf[1] + 1 >= 6 /\ buf[1] + 1 >= Len(buf))

\* Bytes are missing: of the smallest frame, or of the length that the first says.
Waits(buf) == Len(buf) < 6 \/ (buf[1] + 1 >= 6 /\ buf[1] + 1 > Len(buf))

\* A frame is taken off the front, or a byte that starts none is skipped.
ParseFrames[buf \in Seq(Byte)] ==
    IF Waits(buf) THEN [frames |-> <<>>, remaining |-> buf]
    ELSE LET total == buf[1] + 1
             raw == SubSeq(buf, 1, total)
         IN IF total >= 6 /\ VerifyPacket(raw)
            THEN LET rest == ParseFrames[SubSeq(buf, total + 1, Len(buf))]
                 IN [frames |-> <<FrameOf(raw)>> \o rest.frames, remaining |-> rest.remaining]
            ELSE ParseFrames[Tail(buf)]

-----------------------------------------------------------------------------
(***************************************************************************)
(* Payloads.                                                               *)
(***************************************************************************)
\* One tag of an inventory payload: EpcLen, EPC, RSSI.
NextG2Tag(acc, i) ==
    LET c == acc.cursor
        last == c + acc.data[c]
    IN IF ~acc.ok \/ c > Len(acc.data) \/ acc.data[c] = 0 \/ last + 1 > Len(acc.data)
       THEN [acc EXCEPT !.ok = FALSE]
       ELSE [acc EXCEPT !.cursor = last + 2,
                        !.epcs = Append(@, SubSeq(acc.data, c + 1, last))]

\* The EPCs of AntMask, TagNum, tags.  A payload that is cut short gives none, not
\* even those before the cut.
ParseInventoryG2Tags(frame) ==
    LET data == frame.data
        all == FoldLeft(NextG2Tag, [data |-> data, ok |-> TRUE, cursor |-> 3, epcs |-> <<>>],
                        [i \in 1..data[2] |-> i])
    IN IF Len(data) < 2 \/ data[2] = 0 THEN [ok |-> TRUE, epcs |-> <<>>]
       ELSE IF all.ok THEN [ok |-> TRUE, epcs |-> all.epcs]
       ELSE [ok |-> FALSE, epcs |-> <<>>]

\* Ant, Count, EPCLen, EPC.
ParseSingleInventoryResult(frame) ==
    LET data == frame.data
        ok == /\ frame.status \in {StatusNoTag, StatusSuccess}
              /\ Len(data) >= 3 /\ Len(data) >= 3 + data[3]
    IN [ok |-> ok, count |-> IF ok THEN data[2] ELSE 0,
        epc |-> IF ok THEN SubSeq(data, 4, 3 + data[3]) ELSE <<>>]

-----------------------------------------------------------------------------
(***************************************************************************)
(* nextInventoryAntenna: the next port of the mask, from start on.         *)
(***************************************************************************)
PortsOf(mask) == {i \in 0..7 : Bit(IF mask = 0 THEN 1 ELSE mask, i) = 1}

\* Fault: a rotation that stays at its port.
NextInventoryAntennaStuck(mask, start) ==
    LET far == CHOOSE k \in 0..7 : /\ (start + k) % 8 \in PortsOf(mask)
                                   /\ \A j \in 0..(k - 1) : (start + j) % 8 \notin PortsOf(mask)
        port == (start + far) % 8
    IN [antenna |-> 128 + port, next |-> port]

NextInventoryAntenna(mask, start) ==
    LET far == CHOOSE k \in 0..7 : /\ (start + k) % 8 \in PortsOf(mask)
                                   /\ \A j \in 0..(k - 1) : (start + j) % 8 \notin PortsOf(mask)
        port == (start + far) % 8
    IN [antenna |-> 128 + port, next |-> (port + 1) % 8]
=============================================================================
