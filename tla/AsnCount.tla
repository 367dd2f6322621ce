------------------------------ MODULE AsnCount ------------------------------
(***************************************************************************)
(* The item counter of src/lib/casn/asn.c: count_asns and count_sub_asns, *)
(* the pre-pass make_asn_table runs to size the item table.               *)
(*                                                                         *)
(* The C function is a do-while over items with an end pointer e that is  *)
(* set by the FIRST definite item of the call: a definite constructed     *)
(* item is not recursed into, its children are walked by the same loop    *)
(* until e; an indefinite item recurses (constructed) or is scanned to    *)
(* its end-of-contents (primitive).  Nothing is checked against the       *)
(* buffer end.  Each operator returns the count, the position reached (c) *)
(* and the highest position read (hi).                                    *)
(***************************************************************************)
EXTENDS AsnPrim

NoEnd == -1   \* e == (uchar *)0

RECURSIVE CountLoop(_, _, _, _, _), CountIndef(_, _, _, _)

(***************************************************************************)
(* Past the buffer every octet reads 0, so each pass of the loop there     *)
(* meets the item 00 00 (definite, length 0) and advances c by 2 until    *)
(* c >= e: the k = ceil((e - c) / 2) passes are summed in closed form.     *)
(***************************************************************************)
ZeroItems(c, e, count, hi) ==
    LET k == (e - c + 1) \div 2
    IN  [count |-> count + k, c |-> c + 2 * k, hi |-> Larger(hi, c + 2 * k - 1)]

(***************************************************************************)
(* The do-while of count_sub_asns from item position c, with end pointer  *)
(* e (NoEnd until the first definite item), count and hi so far.          *)
(***************************************************************************)
CountLoop(buf, c, e, count, hi) ==
    IF e # NoEnd /\ c >= Len(buf) THEN ZeroItems(c, e, count, hi) ELSE
    LET h   == asn_set(buf, c)
        typ == Byte(buf, c)
        hi1 == Larger(hi, h.from - 1)
    IN  IF h.indef THEN
            LET sub == IF IsConstructed(typ)
                       THEN CountIndef(buf, h.from, 0, hi1)
                       ELSE [count |-> 0, c |-> FirstEoc(buf, h.from),
                             hi |-> Larger(hi1, FirstEoc(buf, h.from) + 1)]
                c2  == sub.c + 2
            IN  IF e # NoEnd /\ c2 < e
                THEN CountLoop(buf, c2, e, count + 1 + sub.count, sub.hi)
                ELSE [count |-> count + 1 + sub.count, c |-> c2, hi |-> sub.hi]
        ELSE
            LET e2 == IF e = NoEnd THEN h.from + h.lth ELSE e
                c2 == IF IsConstructed(typ) THEN h.from ELSE h.from + h.lth
            IN  IF c2 < e2 THEN CountLoop(buf, c2, e2, count + 1, hi1)
                ELSE [count |-> count + 1, c |-> c2, hi |-> hi1]

(***************************************************************************)
(* do count += count_sub_asns(&c); while ( *c || c[1] );                    *)
(* the contents of an indefinite constructed item; c ends at its EOC.     *)
(***************************************************************************)
CountIndef(buf, c, count, hi) ==
    LET r   == CountLoop(buf, c, NoEnd, 0, hi)
        hi2 == Larger(r.hi, EocReadHi(buf, r.c))
    IN  IF AtEoc(buf, r.c)
        THEN [count |-> count + r.count, c |-> r.c, hi |-> hi2]
        ELSE CountIndef(buf, r.c, count + r.count, hi2)

count_sub_asns(buf, from) == CountLoop(buf, from, NoEnd, 0, -1)

count_asns(buf) ==
    LET r == count_sub_asns(buf, 0)
    IN  [count |-> 1 + r.count, hi |-> r.hi]

=============================================================================
