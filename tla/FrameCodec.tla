------------------------------ MODULE FrameCodec ------------------------------
(***************************************************************************)
(* The bytes of one BSL frame: build_message() makes it, the line flips a  *)
(* bit or drops a byte of it, and hdlc_unescape(), parse_message() and     *)
(* detect_checksum() read it.  With it the checksums of the frames, of the *)
(* .pac file and of the NV region, and what each of them is to compute.    *)
(*                                                                         *)
(* A byte is a number below 256, a byte string a sequence of them.  The    *)
(* flags around a frame are HdlcLink's; here a damaged byte is never one.  *)
(***************************************************************************)
EXTENDS Integers, SequencesExt, Bitwise

CONSTANTS
  Cmds,       \* message types
  Payloads    \* the data of a message

VARIABLES
  mode, cmd, data,   \* the message and its checksum, fixed for a behaviour
  wire,              \* the bytes between the flags
  fault              \* "none", or what happened to them: "flip", "drop"

vars == <<mode, cmd, data, wire, fault>>

Flag == 126     \* 0x7e
Escape == 125   \* 0x7d
Ver == 129      \* BSL_REP_VER

High(w) == w \div 256
Low(w) == w % 256
Word(w) == <<High(w), Low(w)>>

From(s, n) == SubSeq(s, n, Len(s))

-----------------------------------------------------------------------------
(* Checksums.                                                               *)

RECURSIVE Apply(_, _, _)
Apply(f(_), n, x) == IF n = 0 THEN x ELSE Apply(f, n - 1, f(x))

\* CRC16 with the polynomial 0x11021, the high bit first.
CrcBit(c) == LET d == (2 * c) % 65536 IN IF c >= 32768 THEN d ^^ 4129 ELSE d

Crc16(s) == FoldLeft(LAMBDA c, b : Apply(CrcBit, 8, c ^^ (256 * b)), 0, s)

\* The little-endian words of a string; an odd last byte is a word.
LeWord(s, k) == s[2 * k - 1] + (IF 2 * k <= Len(s) THEN 256 * s[2 * k] ELSE 0)

LeWords(s) == [k \in 1..((Len(s) + 1) \div 2) |-> LeWord(s, k)]

Fold16(t) == (t \div 65536) + (t % 65536)

\* Mutant of SprdSum: the bytes are swapped for an odd length only.
SprdSumOdd(s) ==
  LET total == 65535 - (Fold16(Fold16(FoldLeft(+, 0, LeWords(s)))) % 65536)
  IN  IF Len(s) % 2 = 1 THEN High(total) + 256 * Low(total) ELSE total

SprdSum(s) ==
  LET total == 65535 - (Fold16(Fold16(FoldLeft(+, 0, LeWords(s)))) % 65536)
  IN  High(total) + 256 * Low(total)

ChecksumFor(m, s) == IF m = "crc" THEN Crc16(s) ELSE SprdSum(s)

\* CRC-16-ARC, bit by bit for the NV region and by table for the .pac file.
ArcBit(c) == IF c % 2 = 1 THEN (c \div 2) ^^ 40961 ELSE c \div 2

NvCrc16(s) == FoldLeft(LAMBDA c, b : Apply(ArcBit, 8, c ^^ b), 0, s)

ArcTable == [b \in 0..255 |-> Apply(ArcBit, 8, b)]

PacCrc16(s, crc) ==
  FoldLeft(LAMBDA c, b : (c \div 256) ^^ ArcTable[(c ^^ b) % 256], crc, s)

\* _verify_payload_crc: the file read in pieces of n bytes.
RECURSIVE PayloadCrc(_, _, _)
PayloadCrc(s, n, crc) ==
  IF s = <<>> THEN crc
  ELSE PayloadCrc(From(s, n + 1), n, PacCrc16(SubSeq(s, 1, Min({n, Len(s)})), crc))

NvFixCrc(s) == Word(NvCrc16(From(s, 3))) \o From(s, 3)

-----------------------------------------------------------------------------
(* Frames.                                                                  *)

\* Mutant of HdlcEscape: the escape itself is sent as it is.
HdlcEscapeFlag(s) ==
  FlattenSeq([i \in DOMAIN s |-> IF s[i] = Flag THEN <<Escape, s[i] ^^ 32>> ELSE <<s[i]>>])

HdlcEscape(s) ==
  FlattenSeq([i \in DOMAIN s |->
    IF s[i] \in {Flag, Escape} THEN <<Escape, s[i] ^^ 32>> ELSE <<s[i]>>])

\* An escape at the very end is dropped.
RECURSIVE HdlcUnescape(_)
HdlcUnescape(s) ==
  IF s = <<>> THEN <<>>
  ELSE IF Head(s) # Escape THEN <<Head(s)>> \o HdlcUnescape(Tail(s))
  ELSE IF Len(s) = 1 THEN <<>>
  ELSE <<s[2] ^^ 32>> \o HdlcUnescape(From(s, 3))

Body(m, c, d) ==
  LET body == Word(c) \o Word(Len(d)) \o d IN body \o Word(ChecksumFor(m, body))

Malformed == <<>>

\* <<type, data>>, or ValueError.  What is missing from the data is taken from
\* the checksum.
ParseMessage(s) ==
  IF Len(s) < 6 \/ Len(s) < 4 + 256 * s[3] + s[4] THEN Malformed
  ELSE <<256 * s[1] + s[2], SubSeq(s, 5, 4 + 256 * s[3] + s[4])>>

\* Mutant of DetectChecksum: what is no SPRD sum is taken for the CRC.
DetectChecksumElse(s) ==
  IF Len(s) < 6 THEN "none"
  ELSE IF Word(SprdSum(SubSeq(s, 1, Len(s) - 2))) = From(s, Len(s) - 1) THEN "sprd"
  ELSE "crc"

DetectChecksum(s) ==
  LET matches(m) ==
        Word(ChecksumFor(m, SubSeq(s, 1, Len(s) - 2))) = From(s, Len(s) - 1)
  IN  IF Len(s) < 6 THEN "none"
      ELSE IF matches("sprd") THEN "sprd"
      ELSE IF matches("crc") THEN "crc"
      ELSE "none"

\* The checksum autobaud() takes from a frame: that of a VER which has one.
VerChecksum(s) ==
  LET message == ParseMessage(s) IN
  IF message = Malformed \/ Head(message) # Ver THEN "none" ELSE DetectChecksum(s)

-----------------------------------------------------------------------------
Init ==
  /\ mode \in {"sprd", "crc"} /\ cmd \in Cmds /\ data \in Payloads
  /\ wire = HdlcEscape(Body(mode, cmd, data))
  /\ fault = "none"

Flip ==
  /\ fault = "none" /\ fault' = "flip"
  /\ \E i \in DOMAIN wire, bit \in 0..7 :
       /\ wire[i] ^^ (2 ^ bit) # Flag
       /\ wire' = ReplaceAt(wire, i, wire[i] ^^ (2 ^ bit))
  /\ UNCHANGED <<mode, cmd, data>>

Drop ==
  /\ fault = "none" /\ fault' = "drop"
  /\ \E i \in DOMAIN wire : wire' = RemoveAt(wire, i)
  /\ UNCHANGED <<mode, cmd, data>>

Next == Flip \/ Drop

Spec == Init /\ [][Next]_vars

-----------------------------------------------------------------------------
(* Properties.                                                              *)

Received == HdlcUnescape(wire)

\* The frame sent holds no flag, and read undamaged it is the message, under the
\* checksum it was built with unless both are equal.  protocol.py:111-172
RoundTrip ==
  fault = "none" =>
    /\ ~Contains(wire, Flag)
    /\ ParseMessage(Received) = <<cmd, data>>
    /\ LET found == DetectChecksum(Received) IN
         found # mode => ChecksumFor(found, Front(Front(Received)))
                          = ChecksumFor(mode, Front(Front(Received)))

\* Neither a flipped bit nor a dropped byte makes a VER set the wrong checksum for
\* the session, though neither checksum sees every zero go.  A flipped bit may well
\* make an ACK of a NAK, but the frame then no longer fits the checksum it was built
\* with: recv() need only have looked.  An answer without data that lost a byte is
\* never read as another one.  protocol.py:111-121, 161-172, 229-231, 243-258
DamageHarmless ==
  fault # "none" =>
    /\ VerChecksum(Received) \in {"none", mode}
    /\ fault = "flip" /\ ParseMessage(Received) # <<cmd, data>> => DetectChecksum(Received) # mode
    /\ fault = "drop" /\ data = <<>> => ParseMessage(Received) \in {Malformed, <<cmd, data>>}

\* The bits of a byte string, the high or the low bit of each byte first.
Bits(s, high) ==
  FlattenSeq([i \in DOMAIN s |-> [n \in 1..8 |->
    (s[i] \div 2 ^ (IF high THEN 8 - n ELSE n - 1)) % 2]])

\* The remainder of bits times x^16 by a polynomial of degree 16.
Remainder(bits, poly) ==
  LET step(r, bit) == LET t == 2 * r + bit IN IF t >= 65536 THEN t ^^ poly ELSE t
  IN  FoldLeft(step, 0, bits \o [n \in 1..16 |-> 0])

Mirrored(w) ==
  FoldLeft(LAMBDA r, n : 2 * r + ((w \div 2 ^ n) % 2), 0, [n \in 1..16 |-> n - 1])

\* What each checksum is: a division by 0x11021, a division by 0x18005 of the
\* mirrored bits, whether by table, by bit or in pieces, and the complement of
\* a sum modulo 65535; a corrected NV template passes the check of its slot.
\* protocol.py:71-108, pac.py:21-34, 134-142, native.py:72-93
ChecksumsAgree ==
  fault = "none" =>
    LET sum == FoldLeft(+, 0, LeWords(data))
        arc == Mirrored(Remainder(Bits(data, FALSE), 98309))
    IN  /\ Crc16(data) = Remainder(Bits(data, TRUE), 69665)
        /\ NvCrc16(data) = arc
        /\ \A n \in 1..(Len(data) + 1) : PayloadCrc(data, n, 0) = arc
        /\ Word(65535 - (IF sum = 0 THEN 0 ELSE 1 + ((sum - 1) % 65535)))
             = Reverse(Word(SprdSum(data)))
        /\ Len(data) >= 2 => PacCrc16(Reverse(SubSeq(NvFixCrc(data), 1, 2)),
                                     PacCrc16(From(NvFixCrc(data), 3), 0)) = 0

\* The frame lost one byte of its data, and nothing else.
DataCut == \E i \in DOMAIN data : Received = RemoveAt(Body(mode, cmd, data), 4 + i)

\* What test_protocol.py:86 says: a frame whose data is truncated is rejected.
TruncatedRejected == DataCut => ParseMessage(Received) = Malformed
=============================================================================
