----------------------------- MODULE FrameProtocol -----------------------------
(***************************************************************************)
(* The binary frames of the telemetry server                               *)
(* (async_telemetry_server/src/FrameProtocol.cpp): a header of twelve      *)
(* bytes, with the length and the checksum of the payload that follows.    *)
(* Bytes are 0 .. 255.                                                     *)
(***************************************************************************)
EXTENDS Integers, Sequences

Byte == 0 .. 255

\* The types of messages
AUTH == 1
TELEMETRY == 2
ACK == 3
ERROR == 4

MAGIC == <<78, 69, 88, 84>>
VERSION == 1

-------------------------------------------------------------------------------
(* CRC-16/CCITT.  The checksum in progress is a word of sixteen bits, the    *)
(* highest first.                                                            *)

Word == [1 .. 16 -> {0, 1}]

\* Exclusive or of two bits, and the bit of a byte that has this weight
Plus(a, b) == (a + b) % 2
Bit(byte, weight) == (byte \div weight) % 2

\* A byte is added to the upper half.
AddByte(c, byte) ==
  <<Plus(c[1], Bit(byte, 128)), Plus(c[2], Bit(byte, 64)), Plus(c[3], Bit(byte, 32)),
    Plus(c[4], Bit(byte, 16)), Plus(c[5], Bit(byte, 8)), Plus(c[6], Bit(byte, 4)),
    Plus(c[7], Bit(byte, 2)), Plus(c[8], Bit(byte, 1)),
    c[9], c[10], c[11], c[12], c[13], c[14], c[15], c[16]>>

\* Shift, and subtract the polynomial 2^12 + 2^5 + 1 if a one falls out.
Shift == [c \in Word |->
  <<c[2], c[3], c[4], Plus(c[5], c[1]), c[6], c[7], c[8], c[9],
    c[10], c[11], Plus(c[12], c[1]), c[13], c[14], c[15], c[16], c[1]>>]

Shift4 == [c \in Word |-> Shift[Shift[Shift[Shift[c]]]]]
CrcByte == [byte \in Byte |-> [c \in Word |-> Shift4[Shift4[AddByte(c, byte)]]]]

\* The number that eight bits from the k-th on stand for
Octet(c, k) == 128 * c[k] + 64 * c[k + 1] + 32 * c[k + 2] + 16 * c[k + 3]
               + 8 * c[k + 4] + 4 * c[k + 5] + 2 * c[k + 6] + c[k + 7]

\* The number of a word
Number == [c \in Word |-> 256 * Octet(c, 1) + Octet(c, 9)]

AllOnes == <<1, 1, 1, 1, 1, 1, 1, 1, 1, 1, 1, 1, 1, 1, 1, 1>>

crc16(data) ==
  LET after[n \in 0 .. Len(data)] ==
        IF n = 0 THEN AllOnes ELSE CrcByte[data[n]][after[n - 1]]
  IN  Number[after[Len(data)]]

-------------------------------------------------------------------------------
(* Frames *)

\* Big-endian fields
Be16(n) == <<n \div 256, n % 256>>
Be32(n) == LET m == n \div 256
               k == m \div 256
           IN  <<k \div 256, k % 256, m % 256, n % 256>>

\* Mutant: the length is read in the byte order of the host.
PayloadLenHost(header) == 256 * (256 * (256 * header[10] + header[9]) + header[8]) + header[7]

PayloadLen(header) == 256 * (256 * (256 * header[7] + header[8]) + header[9]) + header[10]

Checksum(header) == 256 * header[11] + header[12]

Serialize(f) ==
  MAGIC \o <<VERSION, f.type>> \o Be32(Len(f.payload)) \o Be16(crc16(f.payload)) \o f.payload

\* deserialize() does not throw: size, magic, version, length and checksum are right.
Acceptable(buf) ==
  /\ Len(buf) >= 12
  /\ (\A k \in 1 .. 4 : buf[k] = MAGIC[k]) /\ buf[5] = VERSION
  /\ Len(buf) >= 12 + PayloadLen(buf)
  /\ crc16(SubSeq(buf, 13, 12 + PayloadLen(buf))) = Checksum(buf)

Deserialize(buf) == [type |-> buf[6], payload |-> SubSeq(buf, 13, 12 + PayloadLen(buf))]
===============================================================================
