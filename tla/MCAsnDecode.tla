---------------------------- MODULE MCAsnDecode ----------------------------
(***************************************************************************)
(* Model-checking instance of AsnDecode: make_asn_table on every buffer of *)
(* at most MaxLen octets drawn from Bytes, compared with the reference     *)
(* decoder of AsnRef.                                                      *)
(***************************************************************************)
EXTENDS AsnDecode, AsnRef, SequencesExt

CONSTANTS Bytes, MaxLen,      \* definite-length buffers: octets, longest
          IndefBytes, IndefMaxLen  \* a second family, with the octet 0x80

MCInputs ==
    {b \in BoundedSeq(Bytes, MaxLen) \cup BoundedSeq(IndefBytes, IndefMaxLen) : Len(b) >= 1}

\* A long-form length of four octets FF FF FF FF (lth wraps to -1 in the
\* int of asn_set) on an OCTET STRING or a SEQUENCE, followed by up to
\* three octets.
MCWrapInputs ==
    {<<t, 132, 255, 255, 255, 255>> \o r : t \in {4, 48}, r \in BoundedSeq({0, 5, 255}, 3)}

Item == [pos : Int, level : Nat, lth : Int, indef : BOOLEAN]

TypeOK ==
    /\ buf \in Seq(0 .. 255)
    /\ pc \in {"count", "decode", "done", "overflow"}
    /\ cap \in Nat
    /\ tbl \in [0 .. cap - 1 -> Item] \/ (cap = 0 /\ tbl = <<>>)
    /\ asnp \in 0 .. cap
    /\ stack \in Seq([from : Int, nbytes : Int, level : Nat, did : Int,
                      curr : 0 .. cap + 1, ansr : Int, ansrSet : BOOLEAN,
                      phase : {"loop", "wait", "resume", "exit"},
                      sp : Int, indef : BOOLEAN, child : Int])
    /\ decoded \in Int /\ ret \in Int /\ hi \in Int /\ hiCount \in Int

=============================================================================
