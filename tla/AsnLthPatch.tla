---------------------------- MODULE AsnLthPatch ----------------------------
(***************************************************************************)
(* The length patcher set_asn_lth of src/lib/casn/asn.c as an operator on *)
(* a memory area: a sequence of the octets allocated (positions 0-based). *)
(*                                                                         *)
(* set_asn_lth(s, e) re-reads the tag at s and the length field after it, *)
(* removes a long-form or indefinite field's extra octets by a memcpy to  *)
(* the left, shifts the contents right when the new length needs long     *)
(* form, and writes put_asn_lth(e - s) where the field began.  Nothing is *)
(* checked against the area: hiW is the highest position written.         *)
(*                                                                         *)
(* memcpy between overlapping regions is undefined: dir is the copy order *)
(* the C library happens to use, "fwd" (ascending) or "bwd" (descending). *)
(***************************************************************************)
EXTENDS AsnPrim

\* The octets of seq written from position p on; those past mem are lost.
PokeSeq(mem, p, seq) ==
    SubSeq(SubSeq(mem, 1, p) \o seq \o SubSeq(mem, p + Len(seq) + 1, Len(mem)),
           1, Len(mem))

(***************************************************************************)
(* memcpy(dst, src, n) with dst < src.  Ascending order reads every source *)
(* octet before it is overwritten.  Descending order first overwrites      *)
(* dst + k + d (d = src - dst), so dst + k receives the octet that the     *)
(* chain k, k + d, k + 2d, ... ends on.                                    *)
(***************************************************************************)
MemCopyLeft(mem, dst, src, n, dir) ==
    LET d == src - dst
        from(k) == IF dir = "fwd" THEN src + k
                   ELSE dst + k + d * (1 + (n - 1 - k) \div d)
    IN  [i \in 1 .. Len(mem) |->
            IF dst <= i - 1 /\ i - 1 < dst + n
            THEN Byte(mem, from(i - 1 - dst)) ELSE mem[i]]

\* Mutant of ShiftRight: the contents copied in ascending order.
ShiftRightAscending(mem, s, e0, n) ==
    [i \in 1 .. Len(mem) |->
        IF s + n <= i - 1 /\ i - 1 < e0 + n
        THEN Byte(mem, s + ((i - 1 - s - n) % n)) ELSE mem[i]]

\* while (c > s) *(--e) = *(--c);  with c = e0, e = e0 + n: descending,
\* so the overlapping regions shift right intact; octets past mem are lost.
ShiftRight(mem, s, e0, n) ==
    SubSeq(SubSeq(mem, 1, s + n) \o SubSeq(mem, s + 1, e0)
             \o SubSeq(mem, e0 + n + 1, Len(mem)),
           1, Len(mem))

\* Number of octets holding lth: for (tmp = lth; tmp; tmp >>= 8, e++)
LthOctetCount(lth) == Len(OctetsOf(lth))

(***************************************************************************)
(* The length field put_asn_lth writes for the ulong lth = e - s when e   *)
(* lies d octets before s: 2^64 - d, eight octets 0xFF ... (for d below   *)
(* 2^16, the last two are those of 2^16 - d).                             *)
(***************************************************************************)
WrappedLth(d) ==
    <<ASN_INDEF + 8, 255, 255, 255, 255, 255, 255, (65536 - d) \div 256, (65536 - d) % 256>>

(***************************************************************************)
(* set_asn_lth(s, e) with the memcpy order dir.  Returns the memory after  *)
(* the call, the C result (the change in size of the length field) and    *)
(* the highest position written.                                           *)
(***************************************************************************)
\* The body of set_asn_lth once *s++ has passed the tag: s1 is s after
\* s++, the position of the first length octet, and lead its value.
SetLthAt(mem, s1, lead, e, dir) ==
    LET bwd  == IF HighBit(lead) THEN lead % ASN_INDEF ELSE 0
        e1   == e - bwd
        m1   == IF HighBit(lead) THEN MemCopyLeft(mem, s1, s1 + bwd, e1 - s1, dir)
                ELSE mem
        lth  == e1 - s1
        n    == IF lth >= 128 THEN LthOctetCount(lth) ELSE 0
        m2   == IF lth >= 128 THEN ShiftRight(m1, s1, e1, n) ELSE m1
        out  == IF lth >= 0 THEN put_asn_lth(lth) ELSE WrappedLth(s1 - e1)
    IN  [mem |-> PokeSeq(m2, s1 - 1, out),
         ret |-> Len(out) - 1 - bwd,
         hiW |-> Larger(IF HighBit(lead) /\ e1 > s1 THEN e1 - 1 ELSE -1,
                        Larger(IF n > 0 THEN e1 + n - 1 ELSE -1,
                               s1 - 1 + Len(out) - 1))]

set_asn_lth(mem, s, e, dir) ==
    SetLthAt(mem, asn_typ(mem, s) + 1, Byte(mem, asn_typ(mem, s)), e, dir)

=============================================================================
