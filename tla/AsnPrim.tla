------------------------------ MODULE AsnPrim ------------------------------
(***************************************************************************)
(* Byte-level primitives of the compact ASN.1 codec, src/lib/casn/asn.c:   *)
(* the tag skipper asn_typ, the header reader asn_set and the length       *)
(* encoder put_asn_lth.                                                    *)
(*                                                                         *)
(* A buffer is a sequence of bytes (0..255); positions are C offsets from  *)
(* the buffer start (0-based).  The codec never checks a position against  *)
(* the buffer end: what lies after the buffer is PadLen zero bytes (the    *)
(* calloc slack a loader leaves, e.g. st_size + 4 in get_casn_file) and    *)
(* after that memory the program does not own.  Byte reads as 0 past the *)
(* buffer (one of the values a read of unowned memory can return); the    *)
(* models record the highest position each reader touched, so that a      *)
(* read of the padding or of unowned memory shows.                        *)
(***************************************************************************)
EXTENDS Integers, Sequences

CONSTANT PadLen
ASSUME PadLen \in Nat

ASN_INDEF       == 128   \* 0x80: high bit of a length or tag octet
ASN_XT_TAG      == 31    \* 0x1F: low tag bits announcing a multi-octet tag
ASN_INTEGER     == 2
ASN_NULL        == 5
ASN_ENUMERATED  == 10

MemEnd(buf) == Len(buf) + PadLen

Byte(buf, i) == IF 0 <= i /\ i < Len(buf) THEN buf[i + 1] ELSE 0

HighBit(b) == b >= ASN_INDEF

IsConstructed(b) == (b \div 32) % 2 = 1

\* Two zero octets at i: an end-of-contents marker (*c || c[1] false).
AtEoc(buf, i) == Byte(buf, i) = 0 /\ Byte(buf, i + 1) = 0

\* The last position the test (*c || c[1]) reads: c[1] only when *c is 0.
EocReadHi(buf, i) == IF Byte(buf, i) # 0 THEN i ELSE i + 1

\* while (*c || c[1]) c++ : the first end-of-contents marker at or after c.
\* Memory past the buffer reads as zeros, so the scan always stops.
RECURSIVE FirstEoc(_, _)
FirstEoc(buf, c) == IF AtEoc(buf, c) THEN c ELSE FirstEoc(buf, c + 1)

Larger(a, b) == IF a >= b THEN a ELSE b

(***************************************************************************)
(* asn_typ: returns the position after the tag.  A first octet whose low  *)
(* five bits are 0x1F is followed by octets while their high bit is set,  *)
(* then one more.                                                          *)
(***************************************************************************)
RECURSIVE SkipTagCont(_, _)
SkipTagCont(buf, p) ==
    IF HighBit(Byte(buf, p)) THEN SkipTagCont(buf, p + 1) ELSE p + 1

asn_typ(buf, p) ==
    IF Byte(buf, p) % 32 = ASN_XT_TAG THEN SkipTagCont(buf, p + 1) ELSE p + 1

(***************************************************************************)
(* The long-form length octets, accumulated in a C int: lth = (lth << 8)  *)
(* + byte wraps modulo 2^32 and is read as a signed 32-bit value.  Only   *)
(* the low 24 bits of lth survive the shift; the result is negative when  *)
(* bit 23 of them was set.                                                 *)
(***************************************************************************)
ShiftInByte(v, b) ==
    LET u == v % 2^24
    IN  IF u >= 2^23 THEN (u - 2^24) * 256 + b ELSE u * 256 + b

RECURSIVE LthOctets(_, _, _)
LthOctets(buf, p, n) ==
    IF n > 4 THEN LthOctets(buf, p + n - 4, 4)   \* earlier octets are shifted out
    ELSE IF n = 0 THEN 0
    ELSE ShiftInByte(LthOctets(buf, p, n - 1), Byte(buf, p + n - 1))

(***************************************************************************)
(* asn_set: reads the tag and the length field of the item at p.  Returns *)
(* the position after the header (from), the length (lth) and whether it *)
(* is the indefinite form (the level's ASN_INDEF_FLAG).  Only the single  *)
(* octet 0x80 is indefinite: a long form whose value is 0 is definite.    *)
(***************************************************************************)
asn_set(buf, p) ==
    LET t    == asn_typ(buf, p)
        lead == Byte(buf, t)
        n    == lead % ASN_INDEF
    IN  [from  |-> t + 1 + (IF HighBit(lead) THEN n ELSE 0),
         lth   |-> IF ~HighBit(lead) THEN lead
                   ELSE LthOctets(buf, t + 1, n),
         indef |-> lead = ASN_INDEF]

(***************************************************************************)
(* put_asn_lth: the octets written for a length: one octet below 128,     *)
(* else 0x80 + N followed by the N big-endian octets of lth.              *)
(***************************************************************************)
RECURSIVE OctetsOf(_)
OctetsOf(n) == IF n = 0 THEN <<>> ELSE Append(OctetsOf(n \div 256), n % 256)

put_asn_lth(lth) ==
    IF lth < 128 THEN <<lth>>
    ELSE <<ASN_INDEF + Len(OctetsOf(lth))>> \o OctetsOf(lth)

=============================================================================
