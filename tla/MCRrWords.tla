------------------------------ MODULE MCRrWords ------------------------------
(***************************************************************************)
(* The words of rr's converters that the runs of RrConv read.  They are   *)
(* defined apart from RrConv, so that a run can instantiate RrConv with   *)
(* them.                                                                   *)
(***************************************************************************)
EXTENDS Naturals, Sequences

\* n < 2^31 as 64 bits, most significant first.
Bits64(n) == [i \in 1 .. 64 |-> IF i <= 33 THEN 0 ELSE (n \div 2^(64 - i)) % 2]

\* 2^k and 2^k - 1 as 64 bits.
Pow2Bits(k) == [i \in 1 .. 64 |-> IF i = 64 - k THEN 1 ELSE 0]
LowOnes(k)  == [i \in 1 .. 64 |-> IF i > 64 - k THEN 1 ELSE 0]

\* Every boundary of cvt_int's trims and of bit 31, on both sides, and
\* values only a 64-bit long holds.
MCIntMags ==
    {Bits64(n) : n \in {0, 1, 127, 128, 129, 255, 256, 32767, 32768, 32769,
                           8388607, 8388608, 8388609, 2147483647}}
    \cup {Pow2Bits(31), LowOnes(32), Pow2Bits(32), Pow2Bits(39), Pow2Bits(63), LowOnes(64)}

\* OIDs with arcs of one, two and three septets, a first subidentifier
\* past 127, a later arc 0, and the arcs 0.0.
MCObjIds == {<<1, 2, 840, 113549>>, <<2, 5, 4, 3>>, <<1, 3, 6, 1, 4, 1, 0>>,
             <<2, 100, 3>>, <<0, 1, 0>>, <<0, 0, 5>>}

\* Number words of odd and even hex length, at octet boundaries, and with
\* a leading 0.
MCNumWords == {<<0>>, <<1>>, <<2, 5, 5>>, <<2, 5, 6>>, <<1, 0>>, <<0, 7>>, <<4, 0, 9, 6>>}

====
