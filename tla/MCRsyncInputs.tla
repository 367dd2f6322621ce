---------------------------- MODULE MCRsyncInputs ----------------------------
(***************************************************************************)
(* The rsync logs and command lines the runs of RsyncDispatch give main.   *)
(***************************************************************************)
EXTENDS Naturals, Sequences

Line(k, m) == [kind |-> k, man |-> m]
N == Line("msg", FALSE)
M == Line("msg", TRUE)

\* An empty log; blocks with manifests between other files, a blank and
\* an ignored line; a malformed line and a too long path in the middle of
\* a block, each with a manifest before and after it.
MCLogs ==
    { <<>>,
      << <<N, M, N>>, <<Line("blank", FALSE), M, Line("ignored", TRUE), N>> >>,
      << <<M, N, Line("malformed", FALSE), N, M>>,
         <<N, Line("longpath", TRUE), M>>, <<M, N>> >> }

\* Every set of the option letters main's getopt loop tells apart.
MCOptSets == SUBSET {"t", "u", "n", "f", "s", "h", "?"}

\* The command lines that get past the option tests and ask for the -s
\* handshake: -f with -t, -u or -n.
MCSyncOpts == {{"f", "s", p} : p \in {"t", "u", "n"}}

\* The log with a block that main reads in both passes.
MCSyncLogs == {<< <<N, M>> >>}

====
