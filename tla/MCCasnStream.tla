----------------------------- MODULE MCCasnStream ----------------------------
(***************************************************************************)
(* Model-checking instance of CasnStream: objects on both sides of a      *)
(* chunk, and one that spans three.                                        *)
(***************************************************************************)
EXTENDS CasnStream, TLC

CONSTANTS small, chunk, long, indef

\* 3 octets, exactly one chunk, three chunks in part, and an indefinite
\* object of less than a chunk.
MCSize == (small :> 3) @@ (chunk :> 2048) @@ (long :> 5000) @@ (indef :> 1500)

====
