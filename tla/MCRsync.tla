------------------------------- MODULE MCRsync -------------------------------
(***************************************************************************)
(* RsyncDispatch alone, for the -s handshake with rcli.                   *)
(***************************************************************************)
EXTENDS RsyncDispatch, MCRsyncInputs

====
