----------------------------- MODULE MCCasnFile -----------------------------
(***************************************************************************)
(* Model-checking instance of CasnFile: two objects of 2 and 3 octets.     *)
(***************************************************************************)
EXTENDS CasnFile

CONSTANTS o1, o2

MCSize == [o \in {o1, o2} |-> IF o = o1 THEN 2 ELSE 3]

=============================================================================
