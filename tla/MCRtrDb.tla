------------------------------ MODULE MCRtrDb ------------------------------
(***************************************************************************)
(* Model-checking instance of RtrDb: two DB threads, three requests.       *)
(***************************************************************************)
EXTENDS RtrDb

TypeOK ==
    /\ dbSem \in Nat
    /\ reqQueue \in Seq(Requests)
    /\ pc \in [DbThreads -> {"wait", "look", "serve", "exited"}]
    /\ held \in [DbThreads -> Requests \cup {NULL}]
    /\ cxn \in [Requests -> {"new", "pushed", "posted"}]
    /\ cancel \subseteq Requests
    /\ respQ \in [Requests -> Seq({"empty", "error"})]
    /\ respSem \in [Requests -> Nat]
    /\ taken \subseteq Requests

=============================================================================
