---------------------------- MODULE AsnDumpForm ----------------------------
(***************************************************************************)
(* How the dump tool, src/cg/tools/asn_dump.c, writes an item's contents: *)
(* asn1dump picks a form by the item's type (lines 89-125) and putform    *)
(* writes the contents in it: an object identifier as dotted arcs (mode   *)
(* 2), an INTEGER or ENUMERATED of at most four octets as a decimal with   *)
(* the -a option (aflag < 0, mode 3), anything else as text or hex.       *)
(* The text written is abstracted to the values it spells: the arcs of an *)
(* OID, the number of a decimal.  rr -d reads this output back, so the    *)
(* forms are what rr's word converters (RrConv) must invert.               *)
(*                                                                         *)
(* The type octets are the X.690 universal tags named in the switch; the   *)
(* header that defines them (asn.h) is not in the repository.              *)
(***************************************************************************)
EXTENDS AsnPrim, SequencesExt

ASN_OBJ_ID == 6

\* The putform mode asn1dump's switch passes for a type octet: 3 (hex,
\* or a decimal with -a), 2 (obj_id), 1 (text if printable), 0 for NULL,
\* SEQUENCE and SET, which have no contents line, and "other" for the
\* default branch (tagged and unknown types).
Mode(typ) ==
    CASE typ \in {1, ASN_INTEGER, 3, 7, 8, 9, ASN_ENUMERATED}                      -> 3
      [] typ = ASN_OBJ_ID                                    -> 2
      [] typ \in {4, 12, 18, 19, 20, 22, 21, 25, 26, 27, 28, 30, 23, 24} -> 1
      [] typ \in {ASN_NULL, 48, 49}                                 -> 0
      [] OTHER                                               -> "other"

\* The subidentifiers of obj_id contents: while an octet has its top bit,
\* val = (val << 7) + (octet & 0x7F); the octet without it ends the value.
RECURSIVE SubIdVals(_, _)
SubIdVals(c, val) ==
    IF c = <<>> THEN <<>>
    ELSE IF Head(c) >= 128 THEN SubIdVals(Tail(c), val * 128 + Head(c) - 128)
    ELSE <<val * 128 + Head(c)>> \o SubIdVals(Tail(c), 0)

\* Mutant of DumpOid: the first subidentifier always split as val / 40,
\* val % 40, without the 2.x case for val >= 80.
DumpOidSplit40(c) ==
    LET v == SubIdVals(c, 0)
    IN  <<v[1] \div 40, v[1] % 40>> \o Tail(v)

\* Mode 2: the first subidentifier is printed as val / 40 . val % 40 when
\* it is below 80, else as 2 . val - 80; each later one as . val.
DumpOid(c) ==
    LET v == SubIdVals(c, 0)
    IN  (IF v[1] < 80 THEN <<v[1] \div 40, v[1] % 40>> ELSE <<2, v[1] - 80>>)
          \o Tail(v)

\* Mutant of DumpInt: val starts at 0 whatever the first octet's sign.
DumpIntUnsigned(c) == FoldLeft(LAMBDA v, o : v * 256 + o, 0, c)

\* Mode 3 with -a, an INTEGER or ENUMERATED of at most four octets: val
\* starts at -1 if the first octet's top bit is set, else 0, and each
\* octet is shifted in: val <<= 8, val += octet.
DumpInt(c) ==
    FoldLeft(LAMBDA v, o : v * 256 + o, IF c[1] >= 128 THEN -1 ELSE 0, c)

\* Whether putform writes the contents c of an item of type typ as a
\* decimal under -a (line 210), else in hex.
DumpsDecimal(typ, c) ==
    Mode(typ) = 3 /\ 1 <= Len(c) /\ Len(c) <= 4 /\ typ \in {ASN_INTEGER, ASN_ENUMERATED}

QUOTE  == 39   \* '
DQUOTE == 34   \* "

\* Mutant of TextForm: the delimiter is ' whatever the string holds.
TextFormOneQuote(c) ==
    LET printable == \A i \in 1 .. Len(c) : 32 <= c[i] /\ c[i] <= 126
        j == \E i \in 1 .. Len(c) : c[i] = QUOTE
        k == \E i \in 1 .. Len(c) : c[i] = DQUOTE
    IN  [text |-> printable /\ ~(j /\ k), delim |-> QUOTE]

\* Mode 1 (lines 167-178): the contents are written as text when every
\* octet is printable (' ' to '~') and they do not hold both quote
\* characters, delimited by ' unless they hold one; else in hex (mode 3).
TextForm(c) ==
    LET printable == \A i \in 1 .. Len(c) : 32 <= c[i] /\ c[i] <= 126
        j == \E i \in 1 .. Len(c) : c[i] = QUOTE
        k == \E i \in 1 .. Len(c) : c[i] = DQUOTE
    IN  [text |-> printable /\ ~(j /\ k), delim |-> IF j THEN DQUOTE ELSE QUOTE]

\* One line of mode 1 or 3 output (lines 224-227): the delimited text, or
\* 0x and two hex digits an octet (as digit values); empty contents write
\* nothing (the loop runs while lth is nonzero).
DumpChars(c) ==
    LET f == TextForm(c) IN
    CASE c = <<>> -> [text |-> TRUE, chars |-> <<>>]
      [] f.text   -> [text |-> TRUE, chars |-> <<f.delim>> \o c \o <<f.delim>>]
      [] OTHER    -> [text |-> FALSE,
                      chars |-> FlattenSeq([i \in 1 .. Len(c) |-> <<c[i] \div 16, c[i] % 16>>])]

\* What putform writes for contents c of type typ, as the value it spells:
\* the arcs in mode 2, the number as a decimal, else the octets in hex
\* (0x and two digits an octet, lines 224-227), read back octet by octet.
DumpValue(typ, c) ==
    CASE Mode(typ) = 2          -> DumpOid(c)
      [] DumpsDecimal(typ, c)   -> DumpInt(c)
      [] OTHER                  -> c

====
