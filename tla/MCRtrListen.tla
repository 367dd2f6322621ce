---------------------------- MODULE MCRtrListen ----------------------------
(***************************************************************************)
(* Model-checking instance of RtrListen.                                   *)
(***************************************************************************)
EXTENDS RtrListen

TypeOK ==
    /\ bag \subseteq Slots
    /\ res \in [Slots -> {"free", "live", "freed"}]
    /\ thread \in [Slots -> {"none", "running", "ended", "joined"}]
    /\ sem \in [Slots -> 0 .. SemMax]
    /\ readable \in [Slots -> BOOLEAN]
    /\ lpc \in {"sweep", "dispatch", "accept"}
    /\ ready \subseteq Slots
    /\ listenReady \in BOOLEAN

=============================================================================
