------------------------------- MODULE RrConv -------------------------------
(***************************************************************************)
(* The word converters of the text-to-binary converter src/bin/asn1/rr.c: *)
(* cvt_out (a number word or a 0x hex word to content octets), cvt_int    *)
(* (the contents of an INTEGER from a signed decimal word) and            *)
(* cvt_obj_id (the contents of an OBJECT IDENTIFIER from dotted decimal). *)
(*                                                                         *)
(* Their input text is abstracted to what they parse: a word as a         *)
(* sequence of characters, each a hex digit value 0..15, "x" or " "; an   *)
(* INTEGER word as its sign and the bits of its magnitude; an OID as its  *)
(* arcs.  sprintf's %08lX and %lX are modelled by the digits they print.  *)
(* A long has LongBits bits, so that values past 2^31 are bit sequences,  *)
(* most significant first, rather than integers.                           *)
(***************************************************************************)
EXTENDS Naturals, Sequences, SequencesExt

CONSTANTS
    LongBits,  \* width of long and ulong in the build
    IntMags,   \* magnitudes of INTEGER words, as 64 bits
    ObjIds,    \* OBJECT IDENTIFIER words, as their arcs
    NumWords   \* decimal number words, as their digits

ASSUME LongBits \in {32, 64}

\* Characters other than hex digits, by their codes (disjoint from 0..15).
SP == 32   \* ' '
X  == 120  \* 'x'

----------------------------------------------------------------------------
(* Bits and hex digits                                                     *)

\* The w bits of n (n < 2^31), most significant first.
BitsOf(n, w) == [i \in 1 .. w |-> IF w - i >= 31 THEN 0 ELSE (n \div 2^(w - i)) % 2]

\* The value of a short sequence of digits in base r.
RECURSIVE DigitsVal(_, _)
DigitsVal(s, r) == IF s = <<>> THEN 0 ELSE DigitsVal(Front(s), r) * r + Last(s)

\* The hex digits of a bit sequence whose length is a multiple of 4.
Nibbles(b) == [i \in 1 .. Len(b) \div 4 |-> DigitsVal(SubSeq(b, 4 * i - 3, 4 * i), 2)]

\* Leading zero digits dropped while more than keep digits remain.
RECURSIVE StripZeros(_, _)
StripZeros(d, keep) == IF Len(d) > keep /\ Head(d) = 0 THEN StripZeros(Tail(d), keep) ELSE d

\* sprintf("%08lX", v) of the bit pattern b: at least 8 digits.
Fmt08(b) == StripZeros(Nibbles(b), 8)

\* sprintf("%lX", n) of a small nonnegative n: its digits, at least one.
RECURSIVE FmtHex(_)
FmtHex(n) == IF n < 16 THEN <<n>> ELSE FmtHex(n \div 16) \o <<n % 16>>

\* ulong u < 2^k: the bits from k upwards are all 0.
Below(u, k) == \A i \in 1 .. Len(u) - k : u[i] = 0

\* long v in [-2^k, 2^k): the bits from k upwards all equal the sign bit.
Fits(v, k) == \A i \in 1 .. Len(v) - k : v[i] = v[1]

RECURSIVE Inc(_)
Inc(b) == IF b = <<>> THEN <<>>
          ELSE IF Last(b) = 0 THEN Front(b) \o <<1>> ELSE Inc(Front(b)) \o <<0>>

\* val = uval; val = -val: the two's complement negation of the pattern.
Negate(b) == Inc([i \in DOMAIN b |-> 1 - b[i]])

----------------------------------------------------------------------------
(* cvt_out                                                                 *)

HexChars == 0 .. 15
DecChars == 0 .. 9

\* The longest prefix of s whose characters are in D.
RECURSIVE Run(_, _)
Run(s, D) == IF s # <<>> /\ Head(s) \in D THEN <<Head(s)>> \o Run(Tail(s), D) ELSE <<>>

\* Mutant of HexOctets: the odd leading digit dropped.
HexOctetsEven(d) ==
    LET p == IF Len(d) % 2 = 1 THEN Tail(d) ELSE d
    IN  [i \in 1 .. Len(p) \div 2 |-> 16 * p[2 * i - 1] + p[2 * i]]

\* Lines 597-618: an odd count of digits puts out the first one alone,
\* then every pair of digits is one octet.
HexOctets(d) ==
    LET odd  == Len(d) % 2 = 1
        p    == IF odd THEN Tail(d) ELSE d
    IN  (IF odd THEN <<Head(d)>> ELSE <<>>)
          \o [i \in 1 .. Len(p) \div 2 |-> 16 * p[2 * i - 1] + p[2 * i]]

(***************************************************************************)
(* cvt_out(c), s the text from c on: a word that does not start "0x" (the *)
(* test of line 584) is read as decimal and printed again with "0x%lX";   *)
(* the hex digits after the "0x" are put out as octets.                   *)
(***************************************************************************)
cvt_out(s) ==
    LET decimal == s[1] # 0 /\ s[2] # X
        digits  == IF decimal THEN FmtHex(DigitsVal(Run(s, DecChars), 10))
                   ELSE Run(SubSeq(s, 3, Len(s)), HexChars)
    IN  HexOctets(digits)

----------------------------------------------------------------------------
(* cvt_int                                                                 *)

\* Mutant of IntTrim: the one-octet case taken up to 128 inclusive.
IntTrimLE(neg, v) ==
    IF neg THEN CASE Fits(v, 7) -> 6 [] Fits(v, 15) -> 4 [] Fits(v, 23) -> 2 [] OTHER -> 0
    ELSE CASE Below(v, 7) \/ v = BitsOf(128, Len(v)) -> 6 [] Below(v, 15) -> 4
           [] Below(v, 23) -> 2 [] OTHER -> 0

\* Lines 514-533: how many of the digits %08lX printed the memmove drops
\* (b = &valbuf[8], [6] or [4]).
IntTrim(neg, v) ==
    IF neg THEN CASE Fits(v, 7) -> 6 [] Fits(v, 15) -> 4 [] Fits(v, 23) -> 2 [] OTHER -> 0
    ELSE CASE Below(v, 7) -> 6 [] Below(v, 15) -> 4 [] Below(v, 23) -> 2 [] OTHER -> 0

(***************************************************************************)
(* cvt_int on a word with sign neg and magnitude bits mag: the decimal     *)
(* digits are summed into a ulong (mod 2^LongBits); unsigned, a value     *)
(* with bit 31 set is printed "0x00%08lX", else "0x%08lX" and trimmed;   *)
(* negative, val = -uval is printed "0x%08lX" and trimmed by its range.   *)
(* The word then goes through cvt_out.                                     *)
(***************************************************************************)
cvt_int(neg, mag) ==
    LET uval   == SubSeq(mag, Len(mag) - LongBits + 1, Len(mag))
        val    == Negate(uval)
        v      == IF neg THEN val ELSE uval
        digits == IF ~neg /\ uval[LongBits - 31] = 1 THEN <<0, 0>> \o Fmt08(uval)
                  ELSE LET d == Fmt08(v) IN SubSeq(d, IntTrim(neg, v) + 1, Len(d))
    IN  cvt_out(<<0, X>> \o digits \o <<SP>>)

----------------------------------------------------------------------------
(* cvt_obj_id                                                              *)

RECURSIVE Septets(_, _)

\* Mutant of Septets: the continuation bit set on the last octet too.
SeptetsAllMarked(val, tmp) ==
    IF val = 0 THEN <<>>
    ELSE Septets(val \div 128, tmp) \o <<(val % 128) + 128>>

(***************************************************************************)
(* for (b = e, tmp = val; val; val >>= 7)                                  *)
(*     *(--b) = (val & 0x7F) | ((tmp != val) ? 0x80 : 0);                  *)
(* the octets the loop leaves in [b, e).                                   *)
(***************************************************************************)
Septets(val, tmp) ==
    IF val = 0 THEN <<>>
    ELSE Septets(val \div 128, tmp) \o <<(val % 128) + (IF tmp # val THEN 128 ELSE 0)>>

\* A later arc: 0 is the single octet 0 (line 566), else its septets.
SubId(val) == IF val = 0 THEN <<0>> ELSE Septets(val, val)

\* cvt_obj_id: the first two arcs as 40 * a + b, then every later arc.
cvt_obj_id(arcs) ==
    LET first == 40 * arcs[1] + arcs[2]
        rest  == SubSeq(arcs, 3, Len(arcs))
    IN  Septets(first, first) \o FlattenSeq([i \in 1 .. Len(rest) |-> SubId(rest[i])])

(***************************************************************************)
(* Lines 331-336, a quoted string: quote = *c++, then each character up *)
(* to the next quote character is put out, a backslash skipped and the   *)
(* character after it put out, whatever it is.  s is the text after the  *)
(* opening quote q.                                                        *)
(***************************************************************************)
BACKSLASH == 92

RECURSIVE Quoted(_, _)
Quoted(s, q) ==
    IF s = <<>> \/ Head(s) = q THEN <<>>
    ELSE IF Head(s) = BACKSLASH /\ Len(s) >= 2
         THEN <<s[2]>> \o Quoted(SubSeq(s, 3, Len(s)), q)
         ELSE <<Head(s)>> \o Quoted(Tail(s), q)

----------------------------------------------------------------------------
(* do_it's word dispatch                                                   *)

VARIABLES
    word,   \* ghost: the word do_it read last, or NoWord
    out     \* the octets its conversion put out

wvars == <<word, out>>

NoWord == [kind |-> "none"]

\* Lines 322-326: a word of digits with no '.' after them goes to cvt_out;
\* the text after it is the rest of the line.
NumberWord ==
    \E w, nx \in NumWords :
        /\ word' = [kind |-> "num", digits |-> w]
        /\ out' = cvt_out(w \o <<SP>> \o nx \o <<SP>>)

\* Lines 430-434: the word after a primitive INTEGER's type name.
IntegerWord ==
    \E neg \in BOOLEAN, mag \in IntMags :
        /\ word' = [kind |-> "int", neg |-> neg, mag |-> mag]
        /\ out' = cvt_int(neg, mag)

\* Lines 327-329 copy a dotted word into dot_buf; at the end of its line
\* (lines 296-299) cvt_obj_id converts it.
OidWord ==
    \E a \in ObjIds :
        /\ word' = [kind |-> "oid", arcs |-> a]
        /\ out' = cvt_obj_id(a)

WordNext == NumberWord \/ IntegerWord \/ OidWord

----------------------------------------------------------------------------
(* Reference encodings (X.690 DER; specification 3, NotCanonicalDer)      *)

RECURSIVE Dec(_)
Dec(b) == IF Last(b) = 1 THEN Front(b) \o <<0>> ELSE Dec(Front(b)) \o <<1>>

\* The value sign * mag as 72 bits of two's complement, wider than a long.
RefBits(neg, mag) ==
    LET ext == [i \in 1 .. 72 - Len(mag) |-> 0] \o mag
    IN  IF neg /\ ~Below(mag, 0) THEN [i \in 1 .. 72 |-> 1 - Dec(ext)[i]] ELSE ext

\* A leading 00 before a clear high bit, or FF before a set one, is redundant.
RECURSIVE MinimalInt(_)
MinimalInt(o) ==
    IF Len(o) > 1 /\ \/ o[1] = 0 /\ o[2] < 128
                     \/ o[1] = 255 /\ o[2] >= 128
    THEN MinimalInt(Tail(o)) ELSE o

DerInt(neg, mag) ==
    MinimalInt([i \in 1 .. 9 |-> DigitsVal(SubSeq(RefBits(neg, mag), 8 * i - 7, 8 * i), 2)])

\* A subidentifier in base 128, most significant first, high bit on all
\* octets but the last (arcs below 2^28).
RefSubId(v) ==
    LET n == CHOOSE k \in 1 .. 4 : v < 128^k
    IN  [i \in 1 .. n |-> ((v \div 128^(n - i)) % 128) + (IF i < n THEN 128 ELSE 0)]

DerOid(arcs) ==
    FlattenSeq([i \in 1 .. Len(arcs) - 1 |->
                  RefSubId(IF i = 1 THEN 40 * arcs[1] + arcs[2] ELSE arcs[i + 1])])

\* The big-endian octets of n, at least one.
RECURSIVE MinOctets(_)
MinOctets(n) == IF n < 256 THEN <<n>> ELSE MinOctets(n \div 256) \o <<n % 256>>

\* The words a long holds: unsigned below 2^LongBits, negative down to
\* -2^(LongBits-1).
InLong(neg, mag) ==
    IF neg THEN Below(mag, LongBits - 1) \/ mag = [i \in 1 .. Len(mag) |-> IF i = Len(mag) - LongBits + 1 THEN 1 ELSE 0]
    ELSE Below(mag, LongBits)

----------------------------------------------------------------------------
(* Properties                                                              *)

\* cvt_int turns every decimal INTEGER word a long holds into the minimal
\* two's complement DER contents: the %08lX printing, the trims at 128,
\* 32768 and 8388608 and the 00 prefix for bit 31 leave no redundant
\* leading octet and never flip the sign.
CvtIntIsDer ==
    word.kind = "int" /\ InLong(word.neg, word.mag) => out = DerInt(word.neg, word.mag)

\* cvt_obj_id encodes every dotted OID as DER: 40 * a + b and each later
\* arc in base 128 with the continuation bit on all octets but the last.
\* The first subidentifier 0 (arcs 0.0) is the exception: the loop puts
\* out nothing for it.
CvtObjIdIsDer ==
    word.kind = "oid" /\ 40 * word.arcs[1] + word.arcs[2] # 0 => out = DerOid(word.arcs)

\* cvt_out turns a decimal number word into the octets of its value,
\* whatever word follows it on the line.  Words with a leading 0 are the
\* exception: the test of line 584 takes them for "0x" words.
CvtOutIsValue ==
    word.kind = "num" /\ word.digits[1] # 0 => out = MinOctets(DigitsVal(word.digits, 10))

=============================================================================
