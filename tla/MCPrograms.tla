------------------------------ MODULE MCPrograms ------------------------------
(***************************************************************************)
(* The programs that run as processes of their own, in one model-checking *)
(* run: the RTR server's DB threads (db.c, RtrDb) and its connection      *)
(* control thread (connection_control.c, RtrListen), the rsync log        *)
(* dispatcher (rpki-rsync/main.c, RsyncDispatch), the OID table           *)
(* generator (make_oidtable.c, OidTable) and the garbage collector        *)
(* (garbage.c, GarbageCollector).  None of them shares state with         *)
(* another in this code (what links the two RTR groups, connection_main,  *)
(* is not in the repository).  So side, fixed in the initial state, says  *)
(* which one a behaviour runs, and the others stay in one initial state;  *)
(* every property of each is checked on exactly the behaviours of its own *)
(* specification.                                                          *)
(***************************************************************************)
EXTENDS Naturals, Sequences, FiniteSets, TLC, MCRsyncInputs

CONSTANTS DbThreads, Requests, NULL, AllocCanFail,
          Slots, Failures, SemMax, KillProbe,
          Faults, OptSets

VARIABLES dbSem, reqQueue, pc, held, cxn, cancel, respQ, respSem, taken,
          bag, res, thread, sem, readable, lpc, ready, listenReady,
          opts, log, proto, phase, blk, from, pass, li, broke, readErr, sent, partial, gotY,
          argv, fi, ln, oidtable, i, opc, written,
          now, crlNext, manNext, staleCrl, staleMan, gpc, curr, rows, list, manErr,
          area, next, starts, rpc, events, open, top, hiW,
          outArea, genOn, genArea, varOff, fields, grp,
          side   \* "db" | "listen" | "rsync" | "oid" | "gc" | "rr"

D(o, l) == [kind |-> "define", oid |-> o, label |-> l]
K(k)    == [kind |-> k, oid |-> <<0>>, label |-> "none"]

\* No header file; two files with an OID defined twice under two names
\* (once in each file), an OID that is a prefix of others, a first arc of
\* 3, a one-arc value and the lines main skips; and a file for each line
\* main stops at.
MCInputs ==
    { <<>>,
      << <<D(<<1, 2, 840>>, "a"), K("other"), D(<<1, 2>>, "b"), D(<<3, 1>>, "x"),
           D(<<2, 5, 4>>, "c"), K("private"), K("noquote")>>,
         <<D(<<1, 2, 840>>, "d"), D(<<1>>, "e"), D(<<2, 5, 4, 3>>, "f"),
           D(<<1, 2>>, "g")>> >>,
      << <<D(<<1, 3>>, "h"), K("nodigit"), D(<<1, 4>>, "i")>> >>,
      << <<K("noname")>> >>, << <<K("cut")>> >>, << <<K("unterminated")>> >> }

\* The garbage collector's database: two CA certificates, one with two
\* CRLs of its issuer and AKI and one with none, an EE certificate of the
\* first key, and a ROA; two manifests, one listing "a", the other "ba"
\* and "roa", where the name "a", as a regexp, also matches "ba".
GcCerts == {"ca", "ca2", "ee"}
GcCrls  == {"crlA", "crlB"}
GcObjs  == GcCerts \cup GcCrls \cup {"roa"}
GcKeyOf == [x \in GcCerts \cup GcCrls |-> IF x = "ca2" THEN "k2" ELSE "k1"]
GcNameOf == ("ca" :> "a") @@ ("ca2" :> "ba") @@ ("ee" :> "ee") @@ ("crlA" :> "crl")
            @@ ("crlB" :> "crl2") @@ ("roa" :> "roa")
GcManFiles == ("mA" :> {"a"}) @@ ("mB" :> {"ba", "roa"})
GcOccurs == {<<n, n>> : n \in {"a", "ba", "ee", "crl", "crl2", "roa"}} \cup {<<"a", "ba">>}

Db     == INSTANCE MCRtrDb
Listen == INSTANCE MCRtrListen
R      == INSTANCE RsyncDispatch WITH Logs <- MCLogs
O      == INSTANCE OidTable WITH Inputs <- MCInputs, pc <- opc
G      == INSTANCE GarbageCollector
            WITH Objs <- GcObjs, Certs <- GcCerts, CA <- {"ca", "ca2"}, Crls <- GcCrls, Gbrs <- {},
                 Mans <- {"mA", "mB"}, KeyOf <- GcKeyOf, NameOf <- GcNameOf,
                 ManFiles <- GcManFiles, Occurs <- GcOccurs, MaxTime <- 2
\* rr on inputs with braces: SEQUENCE and OCTET STRING items, one-octet
\* content runs and up to 6 parser events, so that a field of odd length
\* is followed by another and a field holds a nested item.
Rr     == INSTANCE RrAsn
            WITH PadLen <- 0, Tags <- {48, 4}, Runs <- {1}, Values <- {1},
                 MemcpyDir <- {"fwd"}, MaxEvents <- 6, pc <- rpc

dbVars     == <<dbSem, reqQueue, pc, held, cxn, cancel, respQ, respSem, taken>>
listenVars == <<bag, res, thread, sem, readable, lpc, ready, listenReady>>
rsyncVars  == <<opts, log, proto, phase, blk, from, pass, li, broke, readErr, sent, partial, gotY>>
oidVars    == <<argv, fi, ln, oidtable, i, opc, written>>
gcVars     == <<now, crlNext, manNext, staleCrl, staleMan, gpc, curr, rows, list, manErr>>
rrVars     == <<area, next, starts, rpc, events, open, top, hiW,
               outArea, genOn, genArea, varOff, fields, grp>>
allVars    == <<dbVars, listenVars, rsyncVars, oidVars, gcVars, rrVars, side>>

\* A tool a behaviour does not run keeps one initial state: no options
\* and an empty log, no header file, or a database whose CRLs and
\* manifests all fall due at time 0.
Init ==
    /\ side \in {"db", "listen", "rsync", "oid", "gc", "rr"}
    /\ Db!Init /\ Listen!Init /\ R!Init /\ O!Init /\ G!Init /\ Rr!Init
    /\ side # "rsync" => opts = {} /\ log = <<>>
    /\ side # "oid" => argv = <<>>
    /\ side # "gc" => crlNext = [r \in GcCrls |-> 0] /\ manNext = [m \in {"mA", "mB"} |-> 0]

DbStep(A)     == side = "db" /\ A /\ UNCHANGED <<listenVars, rsyncVars, oidVars, gcVars, rrVars, side>>
ListenStep(A) == side = "listen" /\ A /\ UNCHANGED <<dbVars, rsyncVars, oidVars, gcVars, rrVars, side>>
RsyncStep(A)  == side = "rsync" /\ A /\ UNCHANGED <<dbVars, listenVars, oidVars, gcVars, rrVars, side>>
OidStep(A)    == side = "oid" /\ A /\ UNCHANGED <<dbVars, listenVars, rsyncVars, gcVars, rrVars, side>>
RrStep(A)     == side = "rr" /\ A /\ UNCHANGED <<dbVars, listenVars, rsyncVars, oidVars, gcVars, side>>
GcStep(A)     == side = "gc" /\ A /\ UNCHANGED <<dbVars, listenVars, rsyncVars, oidVars, rrVars, side>>

\* One disjunct per action of each program's Next.
Next ==
    \/ \E t \in DbThreads : DbStep(Db!Wake(t))
    \/ \E t \in DbThreads : DbStep(Db!Look(t))
    \/ \E t \in DbThreads : DbStep(Db!Serve(t))
    \/ \E t \in DbThreads : DbStep(Db!AllocFail(t))
    \/ \E r \in Requests : DbStep(Db!Push(r))
    \/ \E r \in Requests : DbStep(Db!PostDb(r))
    \/ \E r \in Requests : DbStep(Db!Cancel(r))
    \/ \E r \in Requests : DbStep(Db!Take(r))
    \/ ListenStep(Listen!Sweep)
    \/ ListenStep(Listen!Dispatch)
    \/ ListenStep(Listen!Accept)
    \/ \E s \in Slots : ListenStep(Listen!Arrive(s))
    \/ \E s \in Slots : ListenStep(Listen!Consume(s))
    \/ \E s \in Slots : ListenStep(Listen!End(s))
    \/ RsyncStep(R!Options) \/ RsyncStep(R!Open) \/ RsyncStep(R!Announce)
    \/ RsyncStep(R!NextDirblock) \/ RsyncStep(R!ReadLine) \/ RsyncStep(R!EndPass)
    \/ RsyncStep(R!Sync) \/ RsyncStep(R!Recv) \/ RsyncStep(R!Finish)
    \/ OidStep(O!ReadLine) \/ OidStep(O!EndFile) \/ OidStep(O!NoFiles)
    \/ OidStep(O!SortStep) \/ OidStep(O!WriteTable)
    \/ GcStep(G!StartRun) \/ GcStep(G!StaleCrlSearch) \/ GcStep(G!CountCurrentCRLs)
    \/ GcStep(G!StaleManSearch) \/ GcStep(G!handleStaleMan2) \/ GcStep(G!FreshManSearch)
    \/ GcStep(G!handleFreshMan2) \/ GcStep(G!CurrentSearch) \/ GcStep(G!handleIfCurrent)
    \/ GcStep(G!WriteTimestamp) \/ GcStep(G!EndRun) \/ GcStep(G!Crash)
    \/ GcStep(G!Tick) \/ GcStep(G!NewCrl) \/ GcStep(G!NewManifest)
    \/ RrStep(Rr!Item) \/ RrStep(Rr!Content) \/ RrStep(Rr!NewLine)
    \/ RrStep(Rr!EndLevel) \/ RrStep(Rr!OpenBrace) \/ RrStep(Rr!CloseBrace)
    \/ RrStep(Rr!Finish)

\* Each program's own fairness (the Spec of RtrDb, RtrListen, RsyncDispatch
\* and OidTable), on its side; GarbageCollector's Spec has none.
Spec ==
    /\ Init /\ [][Next]_allVars
    /\ \A t \in DbThreads : /\ WF_allVars(DbStep(Db!Wake(t)))
                            /\ WF_allVars(DbStep(Db!Look(t)))
                            /\ WF_allVars(DbStep(Db!Serve(t)))
    /\ \A r \in Requests : WF_allVars(DbStep(Db!PostDb(r)))
    /\ WF_allVars(ListenStep(Listen!Listener))
    /\ WF_allVars(RsyncStep(R!Next))
    /\ WF_allVars(OidStep(O!Next))

----------------------------------------------------------------------------
(* The properties of each program (stated in its module)                   *)

TypeOK ==
    /\ Db!TypeOK /\ Listen!TypeOK /\ R!TypeOK /\ O!TypeOK /\ G!TypeOK /\ Rr!BuilderTypeOK
    /\ side \in {"db", "listen", "rsync", "oid", "gc", "rr"}

\* RtrDb: Queue_trypop hands each request to a single DB thread.
RequestOnce == Db!RequestOnce

\* RtrDb: every pushed request is answered, unless a malloc failure took it.
EveryRequestAnswered == Db!EveryRequestAnswered

\* RtrListen: no running connection thread outlives its socket and semaphore.
NoUseAfterCleanup == Listen!NoUseAfterCleanup

\* RtrListen: a connection whose thread is not running is cleaned up.
Reclaimed == Listen!Reclaimed

\* RsyncDispatch: what main sent is how the log begins to read.
SentAsLogged == R!SentAsLogged

WritesReference == O!WritesReference

\* OidTable: main always ends, however often the sort starts again.
Terminates == side = "oid" => O!Terminates

\* GarbageCollector: after a run, STALECRL marks exactly the CA
\* certificates whose issuer and AKI have CRLs and no current one.
StaleCrlExact == G!StaleCrlExact

\* GarbageCollector: after a run, current manifests clear STALEMAN and
\* stale manifests alone set it.
ManFlagsFollowManifests == G!ManFlagsFollowManifests

\* RrAsn: the offset and length rr writes for a field in braces locate,
\* in the genarea appended after the output, the DER of the items between
\* the braces (VarFieldLocates names the cases it leaves out).
VarFieldLocates == side = "rr" => Rr!VarFieldLocates

====
