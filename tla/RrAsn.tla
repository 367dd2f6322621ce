------------------------------- MODULE RrAsn -------------------------------
(***************************************************************************)
(* The DER builder of the text-to-binary converter src/bin/asn1/rr.c:     *)
(* do_it writes each item into asn_area as its tag and a placeholder       *)
(* length octet 0 (putasn), writes its contents, and when the item ends    *)
(* patches the length with adj_asn -> set_asn_lth.  Constructed items      *)
(* recurse one do_it level; each level has its own local start, the       *)
(* offset of the item whose length is still to be patched (-1 if none).  *)
(*                                                                         *)
(* The text is abstracted to the events the parser acts on: a reserved    *)
(* word naming a type, a run of content octets, a new line at the same    *)
(* margin, a line before the margin (end of a level), end of input.       *)
(*                                                                         *)
(* The ghost variables open and top hold the DER the input describes:     *)
(* the tag and the contents of each item not yet ended, and the complete  *)
(* encodings at top level.                                                  *)
(*                                                                         *)
(* putout sends octets to asn_area while it holds anything, else to       *)
(* out_area, or to genarea once a '{' has opened a variable field.  A '}' *)
(* dumps asn_area and writes the field's descriptor (write_varfld); at    *)
(* the end of the input asn_area is dumped and genarea appended.  Only    *)
(* the first input file is modelled, where bytes counts out_area.         *)
(***************************************************************************)
EXTENDS AsnLthPatch, FiniteSets

CONSTANTS
    Tags,       \* type octets the reserved words name
    Runs,       \* numbers of content octets a word or string converts to
    Values,     \* content octet values
    MemcpyDir,  \* copy orders memcpy may use on overlapping regions
    MaxEvents   \* bound on the number of parser events

ASN_CONSTRUCTED == 32
ASN_BITSTRING   == 3
ASN_OCTETSTRING == 4

\* struct name_tab asn_area = {"asn_area", 1024, 0x20000, NULL, 0, 0};
Chunk == 1024
Limit == 131072

\* genarea = {"genarea", 1024, 0x4000, ...}, out_area = {..., 0x20000, ...}
GenLimit == 16384
OutLimit == 131072

VARIABLES
    area,     \* asn_area.area, Len(area) = asn_area.size
    next,     \* asn_area.next
    starts,   \* the start local of each active do_it level, outermost first
    pc,       \* "run" | "done" | "fatal"
    events,   \* parser events so far
    open,     \* ghost: [tag, body] of each item not yet ended, outermost first
    top,      \* ghost: encodings of the ended top-level items
    hiW,      \* ghost: highest offset of asn_area written so far (-1: none)
    outArea,  \* out_area: the octets write_out has put out
    genOn,    \* genarea.area has been allocated (a '{' was read)
    genArea,  \* genarea: the octets of the variable area
    varOff,   \* varfld.offset
    fields,   \* ghost: [at, body, ok] of each descriptor write_varfld wrote
    grp       \* ghost: [on, mark, ok] of the variable field being read

outVars == <<outArea, genOn, genArea, varOff, fields, grp>>
vars == <<area, next, starts, pc, events, open, top, hiW, outVars>>

Init ==
    /\ area = <<>>
    /\ next = 0
    /\ starts = <<-1>>
    /\ pc = "run"
    /\ events = 0
    /\ open = <<>>
    /\ top = <<>>
    /\ hiW = -1
    /\ outArea = <<>> /\ genOn = FALSE /\ genArea = <<>> /\ varOff = 0
    /\ fields = <<>> /\ grp = [on |-> FALSE, mark |-> 0, ok |-> FALSE]

----------------------------------------------------------------------------
(* Operators on the builder state m = [area, next, fatal, hi]            *)

(***************************************************************************)
(* k calls putasn(v).  Each call first grows a full area: calloc of one   *)
(* chunk the first time, then realloc by one chunk, FATAL once the size   *)
(* reaches the limit; then asn_area.area[next++] = v.  The area grows to  *)
(* the least number of chunks holding next + k octets; the new octets of  *)
(* a realloc are indeterminate, modelled as 0 (they are written before    *)
(* they are read).                                                         *)
(***************************************************************************)
\* Mutant of PutRun: realloc to the octets needed rather than by a chunk.
PutRunExactSize(m, k, v) ==
    LET need == m.next + k
        size == IF need <= Len(m.area) THEN Len(m.area) ELSE need
        a    == m.area \o [i \in 1 .. size - Len(m.area) |-> 0]
    IN  IF m.fatal \/ k = 0 THEN m
        ELSE [m EXCEPT !.area = [i \in 1 .. size |->
                                   IF m.next < i /\ i <= need THEN v ELSE a[i]],
                       !.next = need, !.hi = Larger(m.hi, need - 1)]

PutRun(m, k, v) ==
    LET need == m.next + k
        size == IF need <= Len(m.area) THEN Len(m.area)
                ELSE Chunk * ((need + Chunk - 1) \div Chunk)
        dead == size > Len(m.area) /\ size > Chunk /\ size >= Limit
        a    == m.area \o [i \in 1 .. size - Len(m.area) |-> 0]
    IN  IF m.fatal \/ dead \/ k = 0 THEN [m EXCEPT !.fatal = m.fatal \/ dead]
        ELSE [m EXCEPT !.area = SubSeq(a, 1, m.next) \o [i \in 1 .. k |-> v]
                                   \o SubSeq(a, need + 1, size),
                       !.next = need, !.hi = Larger(m.hi, need - 1)]

putasn(m, val) == PutRun(m, 1, val)

\* adj_asn(start): two putasn(0) to make room, next -= 2, then
\* next += set_asn_lth(&area[start], &area[next]).
AdjRoom(m1, start, dir) ==
    LET e  == m1.next - 2
        r  == set_asn_lth(m1.area, start, e, dir)
    IN  IF m1.fatal THEN m1
        ELSE [m1 EXCEPT !.area = r.mem, !.next = e + r.ret,
                        !.hi = Larger(m1.hi, r.hiW)]

AdjAsn(m, start, dir) == AdjRoom(putasn(putasn(m, 0), 0), start, dir)

\* if (start >= 0) start = adj_asn(start);
ClosePending(m, start, dir) == IF start >= 0 THEN AdjAsn(m, start, dir) ELSE m

State  == [area |-> area, next |-> next, fatal |-> FALSE, hi |-> hiW]

Commit(m) ==
    /\ area' = m.area
    /\ next' = m.next
    /\ hiW' = m.hi
    /\ pc' = IF m.fatal THEN "fatal" ELSE pc

(***************************************************************************)
(* write_out(s): out_area grows two chunks at a time and FATAL stops it   *)
(* once it would pass its limit.  putout of octets s while asn_area is    *)
(* empty: to out_area before any '{', else to genarea, which realloc      *)
(* grows by a chunk and FATAL(MSG_EXTRA) stops when its size reaches the  *)
(* limit.                                                                  *)
(***************************************************************************)
WriteOut(o, s) == [out |-> o \o s, fatal |-> Len(o) + Len(s) > OutLimit]

PutOutDirect(s) ==
    IF ~genOn THEN LET w == WriteOut(outArea, s)
                   IN  [out |-> w.out, gen |-> genArea, fatal |-> w.fatal]
    ELSE [out |-> outArea, gen |-> genArea \o s,
          fatal |-> Len(genArea) + Len(s) > GenLimit - Chunk]

\* dump_asn: asn_area.next = 0, then putout of each octet it held.  After
\* the overrun of WritesInArea, next lies past the area; the octets read
\* past it are those the shift lost, taken as 0.
DumpAsn(m) ==
    PutOutDirect([i \in 1 .. m.next |-> IF i <= Len(m.area) THEN m.area[i] ELSE 0])

\* write_varfld: offset and lth, high octet first, one write_out each.
VarFld(off, lth) == <<off \div 256, off % 256, lth \div 256, lth % 256>>

\* The adj_asn(start) of each enclosing level as a '}' returns through it,
\* innermost first (line 422).
RECURSIVE AdjOuter(_, _, _)
AdjOuter(m, s, dir) ==
    IF s = <<>> THEN m
    ELSE AdjOuter(AdjAsn(m, s[Len(s)], dir), SubSeq(s, 1, Len(s) - 1), dir)

\* Ghost: the DER of an item, and ending the innermost open item.
Enc(item) == <<item.tag>> \o put_asn_lth(Len(item.body)) \o item.body

EndOpen(o, t) ==
    LET done == Enc(o[Len(o)])
        rest == SubSeq(o, 1, Len(o) - 1)
    IN  IF rest = <<>> THEN [open |-> rest, top |-> t \o done]
        ELSE [open |-> [rest EXCEPT ![Len(rest)].body = @ \o done], top |-> t]

RECURSIVE EndAll(_)
EndAll(g) == IF g.open = <<>> THEN g ELSE EndAll(EndOpen(g.open, g.top))

Step == pc = "run" /\ events < MaxEvents

Level == starts[Len(starts)]

\* A primitive's or constructed item's start pending at this level is open.
OpenAtLevel == Level >= 0

----------------------------------------------------------------------------
(* Parser events                                                           *)

\* A reserved word (typnames) at the current level, lines 379-428: end the
\* pending item, putasn(typ), putasn(0); a constructed item clears the
\* constructed bit of BIT/OCTET STRING and recurses one level.
Item ==
    /\ Step
    /\ \E typ \in Tags, dir \in MemcpyDir :
       LET m0   == ClosePending(State, Level, dir)
           st   == m0.next
           m1   == putasn(putasn(m0, typ), 0)
           cons == (typ \div ASN_CONSTRUCTED) % 2 = 1
           ctyp == IF typ \in {ASN_CONSTRUCTED + ASN_BITSTRING,
                               ASN_CONSTRUCTED + ASN_OCTETSTRING}
                   THEN typ - ASN_CONSTRUCTED ELSE typ
           m2   == IF cons /\ ~m1.fatal
                   THEN [m1 EXCEPT !.area[st + 1] = ctyp] ELSE m1
           g    == IF OpenAtLevel THEN EndOpen(open, top)
                   ELSE [open |-> open, top |-> top]
       IN  /\ Commit(m2)
           /\ starts' = IF cons THEN Append([starts EXCEPT ![Len(starts)] = st], -1)
                        ELSE [starts EXCEPT ![Len(starts)] = st]
           /\ open' = Append(g.open, [tag |-> ctyp, body |-> <<>>])
           /\ top' = g.top
    /\ events' = events + 1
    /\ UNCHANGED outVars

\* Content octets (a number, string or hex word) go through putout: into
\* asn_area once anything is in it, else out through PutOutDirect.
Content ==
    /\ Step
    /\ \E k \in Runs, v \in Values :
       /\ IF next > 0
          THEN /\ Commit(PutRun(State, k, v))
               /\ UNCHANGED <<outArea, genArea>>
          ELSE LET d == PutOutDirect([i \in 1 .. k |-> v])
               IN  /\ outArea' = d.out /\ genArea' = d.gen
                   /\ pc' = IF d.fatal THEN "fatal" ELSE pc
                   /\ UNCHANGED <<area, next, hiW>>
       /\ IF open = <<>> THEN /\ top' = top \o [i \in 1 .. k |-> v]
                              /\ UNCHANGED open
          ELSE /\ open' = [open EXCEPT ![Len(open)].body = @ \o [i \in 1 .. k |-> v]]
               /\ UNCHANGED top
    /\ events' = events + 1
    /\ UNCHANGED <<starts, genOn, varOff, fields, grp>>

\* A new line at the margin of this level (line 301): the pending item's
\* length is set.
NewLine ==
    /\ Step
    /\ OpenAtLevel
    /\ \E dir \in MemcpyDir : Commit(ClosePending(State, Level, dir))
    /\ starts' = [starts EXCEPT ![Len(starts)] = -1]
    /\ LET g == EndOpen(open, top) IN open' = g.open /\ top' = g.top
    /\ events' = events + 1
    /\ UNCHANGED outVars

\* A line left of this level's margin (lines 301-306): the level sets its
\* pending length and returns; the caller sets the constructed item's
\* length (line 422).
EndLevel ==
    /\ Step
    /\ Len(starts) > 1
    /\ \E d1, d2 \in MemcpyDir :
       LET s  == SubSeq(starts, 1, Len(starts) - 1)
           m  == AdjAsn(ClosePending(State, Level, d1), s[Len(s)], d2)
           g0 == IF OpenAtLevel THEN EndOpen(open, top)
                 ELSE [open |-> open, top |-> top]
           g  == EndOpen(g0.open, g0.top)
       IN  /\ Commit(m)
           /\ starts' = [s EXCEPT ![Len(s)] = -1]
           /\ open' = g.open
           /\ top' = g.top
    /\ events' = events + 1
    /\ UNCHANGED outVars

\* End of input at the top level (line 301): the pending length is set,
\* dump_asn puts asn_area out, and genarea, padded to an even length, is
\* written after out_area (lines 456-474; req is never set).
FinishOut(m, g) ==
    LET d  == DumpAsn(m)
        gp == IF genOn /\ Len(d.gen) % 2 = 1 THEN d.gen \o <<0>> ELSE d.gen
        w  == WriteOut(d.out, IF genOn THEN gp ELSE <<>>)
    IN  /\ area' = m.area
        /\ next' = 0
        /\ hiW' = m.hi
        /\ pc' = IF m.fatal \/ d.fatal \/ w.fatal THEN "fatal" ELSE "done"
        /\ open' = g.open
        /\ top' = g.top
        /\ outArea' = w.out
        /\ genArea' = gp

Finish ==
    /\ pc = "run"
    /\ Len(starts) = 1
    /\ \E dir \in MemcpyDir :
       FinishOut(ClosePending(State, Level, dir),
                 IF OpenAtLevel THEN EndOpen(open, top) ELSE [open |-> open, top |-> top])
    /\ starts' = [starts EXCEPT ![1] = -1]
    /\ UNCHANGED <<events, genOn, varOff, fields, grp>>

\* A '{' (lines 337-350): the first one callocs genarea and pads the
\* output to an even length with a NUL; genarea is padded to an even
\* length (the octet skipped is calloc's 0 or realloc's indeterminate one,
\* modelled as 0) and the field starts there.  Nothing ends the items
\* asn_area holds.
OpenBrace ==
    /\ Step
    /\ LET w  == IF ~genOn /\ Len(outArea) % 2 = 1 THEN WriteOut(outArea, <<0>>)
                 ELSE [out |-> outArea, fatal |-> FALSE]
           g1 == IF Len(genArea) % 2 = 1 THEN genArea \o <<0>> ELSE genArea
       IN  /\ outArea' = w.out /\ genArea' = g1 /\ varOff' = Len(g1)
           /\ pc' = IF w.fatal THEN "fatal" ELSE pc
    /\ genOn' = TRUE
    /\ grp' = [on |-> TRUE, mark |-> Len(top), ok |-> next = 0 /\ starts = <<-1>> /\ ~grp.on]
    /\ events' = events + 1
    /\ UNCHANGED <<area, next, starts, open, top, hiW, fields>>

(***************************************************************************)
(* A '}' (lines 351-358): a level above 0 returns at once, leaving its    *)
(* own pending length unset, and each caller sets its constructed item's  *)
(* length (line 422) and meets the '}' again; at level 0 asn_area is      *)
(* dumped, its start left as it was, and the descriptor of the field is   *)
(* written.                                                                *)
(***************************************************************************)
\* Mutant of CloseBraceOut: the field's length taken before dump_asn.
CloseBraceOutLthEarly(m, g) ==
    LET d  == DumpAsn(m)
        w  == WriteOut(d.out, VarFld(varOff, Len(genArea) - varOff))
    IN  /\ area' = m.area /\ next' = 0 /\ hiW' = m.hi
        /\ outArea' = w.out /\ genArea' = d.gen
        /\ pc' = IF m.fatal \/ d.fatal \/ w.fatal THEN "fatal" ELSE pc
        /\ open' = g.open /\ top' = g.top
        /\ fields' = Append(fields,
               [at |-> Len(d.out), body |-> SubSeq(g.top, grp.mark + 1, Len(g.top)),
                ok |-> grp.on /\ grp.ok /\ Level = -1])

CloseBraceOut(m, g) ==
    LET d  == DumpAsn(m)
        w  == WriteOut(d.out, VarFld(varOff, Len(d.gen) - varOff))
    IN  /\ area' = m.area /\ next' = 0 /\ hiW' = m.hi
        /\ outArea' = w.out /\ genArea' = d.gen
        /\ pc' = IF m.fatal \/ d.fatal \/ w.fatal THEN "fatal" ELSE pc
        /\ open' = g.open /\ top' = g.top
        /\ fields' = Append(fields,
               [at |-> Len(d.out), body |-> SubSeq(g.top, grp.mark + 1, Len(g.top)),
                ok |-> grp.on /\ grp.ok /\ Level = -1])

CloseBrace ==
    /\ Step
    /\ \E dir \in MemcpyDir :
       CloseBraceOut(AdjOuter(State, SubSeq(starts, 1, Len(starts) - 1), dir),
                     IF Len(starts) > 1 THEN EndAll([open |-> open, top |-> top])
                     ELSE [open |-> open, top |-> top])
    /\ starts' = IF Len(starts) > 1 THEN <<-1>> ELSE starts
    /\ grp' = [grp EXCEPT !.on = FALSE]
    /\ events' = events + 1
    /\ UNCHANGED <<genOn, varOff>>

Next == Item \/ Content \/ NewLine \/ EndLevel \/ OpenBrace \/ CloseBrace \/ Finish

Spec == Init /\ [][Next]_vars

----------------------------------------------------------------------------
(* Properties                                                              *)

\* The builder's variables, and the ghosts, have their types.
BuilderTypeOK ==
    /\ area \in Seq(0 .. 255)
    /\ Len(area) % Chunk = 0
    /\ next \in 0 .. Len(area)
    /\ starts \in Seq(-1 .. Len(area)) /\ starts # <<>>
    /\ pc \in {"run", "done", "fatal"}
    /\ events \in 0 .. MaxEvents
    /\ open \in Seq([tag : Tags \cup {ASN_OCTETSTRING, ASN_BITSTRING}, body : Seq(0 .. 255)])
    /\ top \in Seq(0 .. 255)
    /\ hiW \in Int
    /\ outArea \in Seq(0 .. 255) /\ genArea \in Seq(0 .. 255) /\ genOn \in BOOLEAN
    /\ varOff \in 0 .. Len(genArea)
    /\ fields \in Seq([at : Nat, body : Seq(0 .. 255), ok : BOOLEAN])
    /\ grp \in [on : BOOLEAN, mark : Nat, ok : BOOLEAN]

\* For an input without braces, what do_it writes when the input ends is
\* exactly the DER of the items it read: every length set by set_asn_lth
\* innermost first, the contents shifted right intact when a length needs
\* the long form, the two octets adj_asn reserves given back, and the
\* contents put out before the first item kept in front of them.
ExactEncoding ==
    pc = "done" /\ ~genOn /\ fields = <<>> => outArea = top

\* Where the variable area begins in what do_it wrote.
VarStart == Len(outArea) - Len(genArea)

(***************************************************************************)
(* When do_it ends, every descriptor write_varfld wrote locates, in the   *)
(* variable area appended after out_area, exactly the DER of the items    *)
(* and the contents between its braces: the padding at '{', the dump at   *)
(* '}' and the lengths set by the returns through enclosing levels all    *)
(* agree.  The exceptions, stated by ok, are a '}' on the line of an item *)
(* whose length is still unset (its placeholder is dumped, and the start  *)
(* left behind later patches octets of the next object), a '{' while     *)
(* asn_area still holds earlier items (they are dumped into the field),   *)
(* and a '{' inside an open field.                                        *)
(***************************************************************************)
VarFieldLocates ==
    pc = "done" =>
        \A k \in DOMAIN fields :
            LET f   == fields[k]
                d   == SubSeq(outArea, f.at + 1, f.at + 4)
                off == d[1] * 256 + d[2]
                lth == d[3] * 256 + d[4]
            IN  f.ok => SubSeq(outArea, VarStart + off + 1, VarStart + off + lth) = f.body

\* Every octet putasn and set_asn_lth write lies inside the area putasn
\* allocated: the two octets adj_asn reserves are enough for the length
\* field set_asn_lth writes and the contents it shifts right.
WritesInArea ==
    hiW < Len(area)

=============================================================================
