------------------------------ MODULE AsnRef -------------------------------
(***************************************************************************)
(* Reference decoder: what the decode contract of the specification says  *)
(* (sections 4.1 and 4.3), written as a bounds-checked recursive descent.  *)
(* It is the yardstick the model of decode_asn is compared with; it is not *)
(* a model of any code.                                                    *)
(*                                                                         *)
(* An item is [pos, level, lth, indef]; for an indefinite item lth is the *)
(* span from the end of its header to its end-of-contents marker.          *)
(***************************************************************************)
EXTENDS AsnPrim

Fail == [ok |-> FALSE, items |-> <<>>, next |-> 0]

\* NotCanonicalDer: a non-minimal INTEGER or ENUMERATED, or a non-empty NULL.
NotCanonical(buf, p, h) ==
    LET typ == Byte(buf, p)
        b0  == Byte(buf, h.from)
        b1  == Byte(buf, h.from + 1)
    IN  \/ /\ typ \in {ASN_INTEGER, ASN_ENUMERATED}
           /\ h.lth >= 2
           /\ \/ b0 = 0 /\ ~HighBit(b1)
              \/ b0 = 255 /\ HighBit(b1)
        \/ typ = ASN_NULL /\ ~h.indef /\ h.lth # 0

\* The first end-of-contents marker in [q, limit), or -1 (MalformedLength).
RECURSIVE EocBefore(_, _, _)
EocBefore(buf, q, limit) ==
    IF q + 2 > limit THEN -1
    ELSE IF AtEoc(buf, q) THEN q ELSE EocBefore(buf, q + 1, limit)

RECURSIVE RefItem(_, _, _, _), RefSeq(_, _, _, _), RefIndef(_, _, _, _)

\* One item at p that must end by limit.
RefItem(buf, p, limit, level) ==
    LET h  == asn_set(buf, p)
        me == [pos |-> p, level |-> level, lth |-> h.lth, indef |-> h.indef]
        Ok(items, next) == [ok |-> TRUE, items |-> items, next |-> next]
    IN  IF h.from > limit \/ NotCanonical(buf, p, h) THEN Fail
        ELSE IF ~h.indef THEN
            IF h.lth < 0 \/ h.from + h.lth > limit THEN Fail
            ELSE IF ~IsConstructed(Byte(buf, p)) THEN Ok(<<me>>, h.from + h.lth)
            ELSE LET sub == RefSeq(buf, h.from, h.from + h.lth, level + 1)
                 IN  IF sub.ok THEN Ok(<<me>> \o sub.items, h.from + h.lth)
                     ELSE Fail
        ELSE IF IsConstructed(Byte(buf, p)) THEN
            LET sub == RefIndef(buf, h.from, limit, level + 1)
            IN  IF sub.ok
                THEN Ok(<<[me EXCEPT !.lth = sub.next - 2 - h.from]>> \o sub.items,
                        sub.next)
                ELSE Fail
        ELSE LET q == EocBefore(buf, h.from, limit)
             IN  IF q < 0 THEN Fail
                 ELSE Ok(<<[me EXCEPT !.lth = q - h.from]>>, q + 2)

\* Items exactly filling [p, end).
RefSeq(buf, p, end, level) ==
    IF p >= end THEN [ok |-> TRUE, items |-> <<>>, next |-> p]
    ELSE LET it   == RefItem(buf, p, end, level)
             rest == RefSeq(buf, it.next, end, level)
         IN  IF it.ok /\ rest.ok
             THEN [ok |-> TRUE, items |-> it.items \o rest.items, next |-> end]
             ELSE Fail

\* Items up to an end-of-contents marker before limit; next is after it.
RefIndef(buf, p, limit, level) ==
    IF p + 2 <= limit /\ AtEoc(buf, p)
    THEN [ok |-> TRUE, items |-> <<>>, next |-> p + 2]
    ELSE IF p >= limit THEN Fail
    ELSE LET it   == RefItem(buf, p, limit, level)
             rest == RefIndef(buf, it.next, limit, level)
         IN  IF it.ok /\ rest.ok
             THEN [ok |-> TRUE, items |-> it.items \o rest.items, next |-> rest.next]
             ELSE Fail

\* decode(buf) at top level: the buffer is a sequence of whole items.
RefDecode(buf) == RefSeq(buf, 0, Len(buf), 0)

=============================================================================
