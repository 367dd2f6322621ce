------------------------------ MODULE MCRrAsn ------------------------------
(***************************************************************************)
(* Model-checking instance of RrAsn: SEQUENCE, OCTET STRING and a         *)
(* constructed OCTET STRING, content runs that push lengths across 127,   *)
(* and the words rr's converters read.                                     *)
(***************************************************************************)
EXTENDS RrAsn, RrConv, AsnDumpForm, MCRrWords

\* Contents of one dump line: plain text, each quote character, both, a
\* control character, a backslash, and nothing.
MCStrs == {<<>>, <<65, 66>>, <<39>>, <<65, 34>>, <<39, 34>>, <<65, 10>>, <<92, 65>>}

\* rr's own line parse (do_it) of a line putform wrote for the contents c
\* of an OCTET STRING: a quoted string through lines 331-336, else the hex
\* word through cvt_out.  The rewriting -d does first (lines 663-684) is
\* not modelled.
DumpedText ==
    \E c \in MCStrs :
        LET d == DumpChars(c) IN
        /\ word' = [kind |-> "text", octets |-> c]
        /\ out' = CASE d.chars = <<>> -> <<>>
                     [] d.text         -> Quoted(Tail(d.chars), Head(d.chars))
                     [] OTHER          -> cvt_out(<<0, X>> \o d.chars \o <<SP>>)

(***************************************************************************)
(* The builder and the word converters side by side.  out holds the      *)
(* octets a conversion puts out; where putout sends them is the builder's *)
(* Content step, so a word step leaves the builder's state alone and the  *)
(* builder's next step moves past the word.  Words are read at the start  *)
(* of the input only, so that the two state spaces add up rather than     *)
(* multiply.                                                               *)
(***************************************************************************)
\* The inputs of this instance have no braces: MCAsn's fields side reads
\* variable fields with smaller items.
Builder == (Item \/ Content \/ NewLine \/ EndLevel \/ Finish) /\ word' = NoWord /\ out' = <<>>

Words == next = 0 /\ events = 0 /\ word = NoWord /\ (WordNext \/ DumpedText) /\ UNCHANGED vars

MCInit == Init /\ word = NoWord /\ out = <<>>

MCSpec == MCInit /\ [][Builder \/ Words]_<<vars, wvars>>

TypeOK == BuilderTypeOK

----------------------------------------------------------------------------
(* rr and the dump tool together: the dump's contents as rr's parse reads *)

\* The INTEGER rr's cvt_int encodes, when the dump tool's putform writes
\* it back as a decimal (-a, at most four octets), is the number rr read:
\* rr's minimal two's complement and putform's sign extension agree.
IntDumpsBack ==
    word.kind = "int" /\ InLong(word.neg, word.mag)
      /\ DumpsDecimal(ASN_INTEGER, out)
      => IF word.neg /\ ~Below(word.mag, 0)
         THEN -1 - DumpValue(ASN_INTEGER, out) = DigitsVal(Dec(word.mag), 2)
         ELSE DumpValue(ASN_INTEGER, out) = DigitsVal(word.mag, 2)

\* The OBJECT IDENTIFIER contents rr's cvt_obj_id builds are dumped by
\* putform (mode 2) as the arcs rr read, the first two split back out of
\* 40 * X + Y, including X = 2 with Y of 40 or more (rr's 0.0 excepted).
OidDumpsBack ==
    word.kind = "oid" /\ 40 * word.arcs[1] + word.arcs[2] # 0
      => DumpValue(ASN_OBJ_ID, out) = word.arcs

\* Contents the dump tool writes as one line of text or hex are read back
\* by rr as the same octets: putform's choice of delimiter (" for a string
\* with ', hex for one with both quotes or a control character) matches
\* where rr's quoted-string loop stops.  The exception, stated here, is a
\* backslash: putform writes it as it is and rr drops it.
TextDumpsBack ==
    word.kind = "text" /\ BACKSLASH \notin Range(word.octets)
      => out = word.octets

=============================================================================
