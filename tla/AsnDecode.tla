----------------------------- MODULE AsnDecode -----------------------------
(***************************************************************************)
(* make_asn_table and decode_asn (src/lib/casn/asn.c) as a state machine. *)
(*                                                                         *)
(* make_asn_table sizes the table with count_asns(c) + 1 slots (calloc:   *)
(* every slot zero, i.e. stringp NULL) and calls decode_asn on the whole  *)
(* buffer with nbytes = lth and level 0.  decode_asn is recursive; its    *)
(* activation records are the sequence stack, innermost last.  A frame    *)
(* holds the C locals: from, nbytes, level, did, curr (curr_asnp), ansr,   *)
(* and while a child runs the item's start (sp), its indef flag and the   *)
(* position after its header.  The pointer-to-pointer argument asnpp is   *)
(* shared by all activations: it is the variable asnp.                    *)
(*                                                                         *)
(* One loop iteration of decode_asn is one step, cut at the recursive     *)
(* call: ParseItem..EnterConstructed run the part before it, Resume the   *)
(* part after it.                                                          *)
(***************************************************************************)
EXTENDS AsnCount, AsnRef, FiniteSets, TLC

CONSTANTS
    Inputs,    \* the buffers make_asn_table may be called on
    Garbage    \* values an uninitialised int may hold

VARIABLES
    buf,       \* the input buffer (make_asn_table's c, lth = Len(buf))
    pc,        \* "count" | "decode" | "done" | "overflow"
    cap,       \* slots calloc'd: count_asns(c) + 1
    tbl,       \* the item table: slot index -> item
    asnp,      \* *asnpp: the slot decode_asn last filled
    stack,     \* decode_asn activations, innermost last
    decoded,   \* decode_asn's result in make_asn_table (its local count)
    ret,       \* make_asn_table's return value
    hi,        \* highest position decode_asn has read
    hiCount    \* highest position count_asns has read

vars == <<buf, pc, cap, tbl, asnp, stack, decoded, ret, hi, hiCount>>

\* A zeroed slot: what calloc leaves and what the sentinel writes.
NULLSLOT == [pos |-> -1, level |-> 0, lth |-> 0, indef |-> FALSE]

Frame(from, nbytes, level, curr) ==
    [from |-> from, nbytes |-> nbytes, level |-> level, did |-> 0,
     curr |-> curr, ansr |-> 0, ansrSet |-> FALSE, phase |-> "loop",
     sp |-> 0, indef |-> FALSE, child |-> 0]

Top == stack[Len(stack)]

----------------------------------------------------------------------------
(* make_asn_table, up to the call of decode_asn                            *)

Init ==
    /\ buf \in Inputs
    /\ pc = "count"
    /\ cap = 0
    /\ tbl = <<>>
    /\ asnp = 0
    /\ stack = <<>>
    /\ decoded = 0
    /\ ret = 0
    /\ hi = -1
    /\ hiCount = -1

\* count = count_asns(c) + 1; calloc; decode_asn(&asnp, &asnp[count], c, lth, 0)
make_asn_table ==
    /\ pc = "count"
    /\ LET r == count_asns(buf) IN
       /\ cap' = r.count + 1
       /\ hiCount' = r.hi
    /\ tbl' = [i \in 0 .. cap' - 1 |-> NULLSLOT]
    /\ asnp' = 0
    /\ stack' = <<Frame(0, Len(buf), 0, 0)>>
    /\ pc' = "decode"
    /\ UNCHANGED <<buf, decoded, ret, hi>>

\* calloc fails: make_asn_table returns 0 without decoding.
AllocFails ==
    /\ pc = "count"
    /\ pc' = "done"
    /\ ret' = 0
    /\ UNCHANGED <<buf, cap, tbl, asnp, stack, decoded, hi, hiCount>>

----------------------------------------------------------------------------
(* decode_asn                                                              *)

\* make_asn_table's result for decode_asn's v: v itself, or on failure
\* c - asnp->stringp, minus the offset of the slot *asnpp was left on.  That
\* slot may be the NULL one after an empty indefinite item or the one past
\* the table after (*asnpp)++ on the last slot: the result is then any value.
TableResult(v, t, a) ==
    IF v >= 0 THEN {v}
    ELSE IF a \in DOMAIN t /\ t[a] # NULLSLOT THEN {-t[a].pos}
    ELSE Garbage

\* The activation on top returns v with the table t, cursor a and reads h.
\* At the outermost level it returns to make_asn_table.
Return(v, t, a, h) ==
    /\ tbl' = t
    /\ asnp' = a
    /\ hi' = h
    /\ IF Len(stack) = 1
       THEN /\ stack' = <<>>
            /\ pc' = "done"
            /\ decoded' = v
            /\ ret' \in TableResult(v, t, a)
       ELSE LET s == SubSeq(stack, 1, Len(stack) - 1)
            IN  /\ stack' = [s EXCEPT ![Len(s)].child = v, ![Len(s)].phase = "resume"]
                /\ UNCHANGED <<pc, decoded, ret>>
    /\ UNCHANGED <<buf, cap, hiCount>>

\* End of a loop iteration: did += ansr, the budget check, and the break
\* on an end-of-contents marker when unbounded or the item was indefinite.
IterEnd(g, from, ansr, t, a, h) ==
    LET did2   == g.did + ansr
        eocTst == g.nbytes = 0 \/ g.indef
        brk    == eocTst /\ AtEoc(buf, from)
        h2     == IF eocTst THEN Larger(h, EocReadHi(buf, from)) ELSE h
    IN  IF did2 > g.nbytes /\ g.nbytes # 0
        THEN Return(-1, t, a, h)
        ELSE /\ stack' = [stack EXCEPT ![Len(stack)] =
                            [g EXCEPT !.from = from, !.did = did2, !.ansr = ansr,
                                      !.ansrSet = TRUE,
                                      !.phase = IF brk THEN "exit" ELSE "loop",
                                      !.curr = IF brk THEN g.curr ELSE g.curr + 1]]
             /\ tbl' = t
             /\ asnp' = a
             /\ hi' = h2
             /\ UNCHANGED <<buf, pc, cap, decoded, ret, hiCount>>

\* Mutant of PostChild: the two octets of the end-of-contents marker are
\* skipped by from but not added to ansr.
PostChildEocUncounted(g, ansr, t, a, h) ==
    LET from2 == g.from + ansr
        eoc   == g.indef /\ AtEoc(buf, from2)
        t2    == IF eoc THEN [t EXCEPT ![g.curr].lth = from2 - g.sp] ELSE t
    IN  IF g.nbytes # 0 /\ g.did + ansr > g.nbytes
        THEN Return(-1, t2, g.curr, h)
        ELSE IterEnd([g EXCEPT !.curr = a], IF eoc THEN from2 + 2 ELSE from2,
                     ansr, t2, a, h)

\* Mutant of PostChild: an indefinite item's lth taken from the end of its
\* header to its end-of-contents marker.
PostChildLthFromContents(g, ansr, t, a, h) ==
    LET from2 == g.from + ansr
        eoc   == g.indef /\ AtEoc(buf, from2)
        h2    == IF g.indef THEN Larger(h, EocReadHi(buf, from2)) ELSE h
        t2    == IF eoc THEN [t EXCEPT ![g.curr].lth = from2 - g.from] ELSE t
        ansr2 == IF eoc THEN ansr + 2 ELSE ansr
    IN  IF g.nbytes # 0 /\ g.did + ansr2 > g.nbytes
        THEN Return(-1, t2, g.curr, h2)
        ELSE IterEnd([g EXCEPT !.curr = a], IF eoc THEN from2 + 2 ELSE from2,
                     ansr2, t2, a, h2)

\* After the contents of a constructed item (ansr bytes from g.from): an
\* indefinite item consumes its EOC and gets lth = (from += 2) - stringp - 2;
\* then the budget check and curr_asnp = *asnpp.
PostChild(g, ansr, t, a, h) ==
    LET from2 == g.from + ansr
        eoc   == g.indef /\ AtEoc(buf, from2)
        h2    == IF g.indef THEN Larger(h, EocReadHi(buf, from2)) ELSE h
        t2    == IF eoc THEN [t EXCEPT ![g.curr].lth = from2 - g.sp] ELSE t
        ansr2 == IF eoc THEN ansr + 2 ELSE ansr
    IN  IF g.nbytes # 0 /\ g.did + ansr2 > g.nbytes
        THEN Return(-1, t2, g.curr, h2)
        ELSE IterEnd([g EXCEPT !.curr = a], IF eoc THEN from2 + 2 ELSE from2,
                     ansr2, t2, a, h2)

LoopCond(f) == f.nbytes = 0 \/ f.nbytes > f.did

\* The header of the item at f.from, written into slot f.curr.
Hdr(f)  == asn_set(buf, f.from)
Typ(f)  == Byte(buf, f.from)
Did1(f) == f.did + (Hdr(f).from - f.from)
Slot(f) == [pos |-> f.from, level |-> f.level, lth |-> Hdr(f).lth,
            indef |-> Hdr(f).indef]
\* A write past the table is a write to the heap beyond it: the domain grows.
Filled(f) == (f.curr :> Slot(f)) @@ tbl

\* A definite item that overruns the byte budget: return -did.
Overruns(f) ==
    ~Hdr(f).indef /\ f.nbytes # 0 /\ Did1(f) + Hdr(f).lth > f.nbytes

\* Mutant of Malformed: the minimal-encoding test of INTEGER left out.
MalformedIntegerUnchecked(f) ==
    \/ f.nbytes # 0 /\ f.nbytes < Did1(f)
    \/ Typ(f) = ASN_NULL /\ Hdr(f).lth # 0

\* Header past the budget, a non-minimal INTEGER, or a non-empty NULL.
Malformed(f) ==
    LET h  == Hdr(f)
        b0 == Byte(buf, h.from)
        b1 == Byte(buf, h.from + 1)
    IN  \/ f.nbytes # 0 /\ f.nbytes < Did1(f)
        \/ /\ Typ(f) = ASN_INTEGER /\ h.lth > 1
           /\ \/ b0 = 0 /\ ~HighBit(b1)
              \/ b0 = 255 /\ HighBit(b1)
        \/ Typ(f) = ASN_NULL /\ h.lth # 0

\* Reads of the header and of the INTEGER test.
HdrHi(f) ==
    LET h == Hdr(f)
    IN  IF Typ(f) = ASN_INTEGER /\ h.lth > 1
        THEN Larger(h.from - 1,
                    IF Byte(buf, h.from) \in {0, 255} THEN h.from + 1 ELSE h.from)
        ELSE h.from - 1

Running == pc = "decode" /\ stack # <<>>

\* Loop condition false, or a break: leave the loop; at level 0 write the
\* sentinel slot ++(*asnpp) and return did.  A sentinel past the table is a
\* heap overflow.
ExitLoop ==
    /\ Running
    /\ \/ Top.phase = "exit"
       \/ Top.phase = "loop" /\ ~LoopCond(Top)
    /\ IF Top.level # 0
       THEN Return(Top.did, tbl, asnp, hi)
       ELSE IF asnp + 1 >= cap
            THEN /\ pc' = "overflow"
                 /\ UNCHANGED <<buf, cap, tbl, asnp, stack, decoded, ret, hi, hiCount>>
            ELSE Return(Top.did, [tbl EXCEPT ![asnp + 1] = NULLSLOT], asnp + 1, hi)

\* if (curr_asnp >= easnp) return -1;
OutOfSlots ==
    /\ Running
    /\ Top.phase = "loop" /\ LoopCond(Top)
    /\ Top.curr >= cap
    /\ Return(-1, tbl, asnp, hi)

\* Mutant of ItemGuard: curr_asnp > easnp instead of >= (one slot past
\* the table accepted).
ItemGuardPastEnd ==
    /\ Running
    /\ Top.phase = "loop" /\ LoopCond(Top)
    /\ Top.curr <= cap

ItemGuard ==
    /\ Running
    /\ Top.phase = "loop" /\ LoopCond(Top)
    /\ Top.curr < cap

\* The header checks fail: return -did or -1.
RejectItem ==
    /\ ItemGuard
    /\ Overruns(Top) \/ Malformed(Top)
    /\ Return(IF Overruns(Top) THEN -Did1(Top) ELSE -1,
              Filled(Top), Top.curr, Larger(hi, HdrHi(Top)))

\* A constructed item with contents: (*asnpp)++ and recurse with
\* nbytes = lth (0 for indefinite) at level + 1.
EnterConstructed ==
    /\ ItemGuard
    /\ ~Overruns(Top) /\ ~Malformed(Top)
    /\ IsConstructed(Typ(Top))
    /\ Hdr(Top).lth # 0 \/ Hdr(Top).indef
    /\ ~(Hdr(Top).lth = 0 /\ AtEoc(buf, Hdr(Top).from))
    /\ LET f == Top
           h == Hdr(f)
           parent == [f EXCEPT !.phase = "wait", !.sp = f.from, !.from = h.from,
                               !.indef = h.indef, !.did = Did1(f)]
       IN  /\ stack' = Append([stack EXCEPT ![Len(stack)] = parent],
                              Frame(h.from, h.lth, f.level + 1, f.curr + 1))
           /\ tbl' = Filled(f)
           /\ asnp' = f.curr + 1
           /\ hi' = Larger(hi, Larger(HdrHi(f),
                        IF h.lth = 0 THEN EocReadHi(buf, h.from) ELSE HdrHi(f)))
    /\ UNCHANGED <<buf, pc, cap, decoded, ret, hiCount>>

\* A constructed item without recursion: definite length 0, or indefinite
\* with an immediate end-of-contents (ansr = 0 after (*asnpp)++).
EmptyConstructed ==
    /\ ItemGuard
    /\ ~Overruns(Top) /\ ~Malformed(Top)
    /\ IsConstructed(Typ(Top))
    /\ \/ Hdr(Top).lth = 0 /\ ~Hdr(Top).indef
       \/ Hdr(Top).indef /\ AtEoc(buf, Hdr(Top).from)
    /\ LET f == Top
           h == Hdr(f)
           g == [f EXCEPT !.sp = f.from, !.from = h.from, !.indef = h.indef,
                          !.did = Did1(f)]
       IN  PostChild(g, 0, Filled(f), IF h.indef THEN f.curr + 1 ELSE f.curr,
                     Larger(hi, IF h.indef THEN EocReadHi(buf, h.from) ELSE HdrHi(f)))

\* A primitive item: NULL (ansr = 0), definite (skip lth bytes), indefinite
\* with a non-zero tag octet (scan to the EOC, lth = from - stringp - 2), or
\* indefinite with tag octet 0, where ansr keeps its previous value.
Primitive ==
    /\ ItemGuard
    /\ ~Overruns(Top) /\ ~Malformed(Top)
    /\ ~IsConstructed(Typ(Top))
    /\ LET f  == Top
           h  == Hdr(f)
           g  == [f EXCEPT !.sp = f.from, !.indef = h.indef, !.did = Did1(f)]
           h0 == Larger(hi, HdrHi(f))
           q  == FirstEoc(buf, h.from)
       IN  \/ /\ Typ(f) = ASN_NULL
              /\ IterEnd(g, h.from, 0, Filled(f), f.curr, h0)
           \/ /\ Typ(f) # ASN_NULL /\ ~h.indef
              /\ IterEnd(g, h.from + h.lth, h.lth, Filled(f), f.curr, h0)
           \/ /\ Typ(f) # ASN_NULL /\ h.indef /\ Typ(f) # 0
              /\ IterEnd(g, q + 2, q + 2 - f.from - 2,
                         [Filled(f) EXCEPT ![f.curr].lth = q + 2 - f.from - 2],
                         f.curr, Larger(h0, q + 1))
           \/ /\ Typ(f) = 0 /\ h.indef
              /\ \E a \in IF f.ansrSet THEN {f.ansr} ELSE Garbage :
                    IterEnd(g, h.from, a, Filled(f), f.curr, h0)

\* Back from the recursive call: a negative result is returned as is.
Resume ==
    /\ Running
    /\ Top.phase = "resume"
    /\ IF Top.child < 0
       THEN Return(Top.child, tbl, asnp, hi)
       ELSE PostChild(Top, Top.child, tbl, asnp, hi)

Next ==
    \/ make_asn_table \/ AllocFails
    \/ ExitLoop \/ OutOfSlots \/ RejectItem
    \/ EnterConstructed \/ EmptyConstructed \/ Primitive \/ Resume

Spec == Init /\ [][Next]_vars /\ WF_vars(Next)

----------------------------------------------------------------------------
(* Properties                                                              *)

\* The table as a consumer sees it: the slots before the first NULL one.
Listed ==
    LET n == CHOOSE n \in 0 .. cap :
                /\ \A i \in 0 .. n - 1 : tbl[i] # NULLSLOT
                /\ n = cap \/ tbl[n] = NULLSLOT
    IN  [i \in 1 .. n |-> tbl[i - 1]]

Returned == pc = "done" /\ cap > 0

\* decode_asn succeeded on the whole buffer.
Accepted == Returned /\ decoded >= 0

\* Neither pass reads memory past the buffer and the slack the loader
\* leaves after it (specification 4.1: never read beyond the supplied
\* buffer): count_sub_asns while sizing the table, decode_asn after.
StaysInMemory ==
    /\ pc # "count" => hiCount < MemEnd(buf)
    /\ hi < MemEnd(buf)

\* On success the table lists items in document order, each starting inside
\* the bytes decode_asn consumed and ending inside the buffer, and the count
\* returned never exceeds the buffer: the budget checks after each header,
\* after each child and at each iteration's end keep did in step with the
\* cursor from, across the recursion and its end-of-contents markers.
TableWithinBuffer ==
    Accepted =>
        /\ decoded <= Len(buf)
        /\ \A i \in DOMAIN Listed :
              /\ Listed[i].pos < decoded
              /\ Listed[i].pos + Listed[i].lth <= Len(buf)
              /\ \A j \in DOMAIN Listed : i < j => Listed[i].pos < Listed[j].pos

\* make_asn_table touches only the table it allocated from count_asns: the
\* sentinel ++(*asnpp) never lands past it, and on failure the result
\* c - asnp->stringp is read from a slot of it that holds an item.
TableAccessInBounds ==
    /\ pc # "overflow"
    /\ Returned /\ decoded < 0 => asnp \in 0 .. cap - 1 /\ tbl[asnp] # NULLSLOT

\* asn_dump walks the table from its base to the first slot whose stringp
\* is NULL, whatever make_asn_table returned: the walk stops inside the
\* table, and after a success it passes every slot decode_asn filled.
TableWalk ==
    Returned =>
        /\ \E i \in 0 .. cap - 1 : tbl[i] = NULLSLOT
        /\ Accepted => \A i \in 0 .. asnp - 1 : tbl[i] # NULLSLOT

\* On a buffer without the indefinite length octet 0x80, make_asn_table
\* decodes exactly what the specification's decoder accepts, into the items
\* it lists, in document order, with nothing left out.
AgreesWithReference ==
    Returned /\ (\A i \in 1 .. Len(buf) : buf[i] # 128) =>
        LET ref == RefDecode(buf)
        IN  /\ ref.ok => ret = Len(buf) /\ Listed = ref.items
            /\ ~ref.ok => ret <= 0

\* The slots decode_asn filled, in table order, passing over any slot it
\* left empty (which TableWalk is about).
Written == SelectSeq([i \in 1 .. cap |-> tbl[i - 1]], LAMBDA s : s # NULLSLOT)

\* The lth decode_asn stores for an item the reference lists: an
\* indefinite one's counts its header as well (lines 238 and 254).
CodedLth(b, it) == IF it.indef THEN it.lth + asn_set(b, it.pos).from - it.pos ELSE it.lth

\* The reference's items with the lth decode_asn gives them.
CodedItems(b, items) ==
    [k \in DOMAIN items |-> [items[k] EXCEPT !.lth = CodedLth(b, items[k])]]

\* No item of the list has tag octet 0.
NoEocItem(b, items) == \A k \in DOMAIN items : Byte(b, items[k].pos) # 0

\* The reference decode of every input, computed once.
RefOf == [b \in Inputs |-> RefDecode(b)]

\* With indefinite lengths too, on a buffer the specification's decoder
\* accepts, make_asn_table decodes all of it into the items the
\* specification lists, an indefinite item's lth counted from its first
\* octet (lines 238 and 254), not from its contents as the specification
\* says.  Buffers with an item of tag 0, which BER keeps for the
\* end-of-contents marker, are left out: decode_asn takes 00 00 for the
\* marker and leaves ansr unset for 00 80.
IndefAgreesWithReference ==
    Returned /\ RefOf[buf].ok /\ NoEocItem(buf, RefOf[buf].items) =>
        /\ ret = Len(buf)
        /\ Written = CodedItems(buf, RefOf[buf].items)

=============================================================================
