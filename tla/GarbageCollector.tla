--------------------------- MODULE GarbageCollector ---------------------------
(***************************************************************************)
(* The garbage collector client, src/bin/rpki/garbage.c.  Each run reads  *)
(* the database's current time and then makes four passes over it:        *)
(*   - CRLs whose next update has passed: when no CRL of the same issuer   *)
(*     and AKI is still current, the CA certificates of that issuer and    *)
(*     AKI get the STALECRL flag (countCurrentCRLs, handleIfStale);        *)
(*   - stale manifests: every object whose file name matches one of the    *)
(*     manifest's files gets the STALEMAN flag (handleStaleMan2);          *)
(*   - manifests not stale: every object that matches loses STALEMAN       *)
(*     (handleFreshMan2), so that the fresh manifests win;                 *)
(*   - certificates with STALECRL: a current CRL of their issuer and AKI   *)
(*     clears the flag (countCurrentCRLs, handleIfCurrent).                *)
(* Then it writes the time into gc_last.                                   *)
(*                                                                         *)
(* The database is abstracted to the columns these passes read and write: *)
(* a CRL's issuer and AKI (one key), its next update, a manifest's next    *)
(* update and files, an object's file name, and the two flag bits.  A      *)
(* search visits the rows its where clause selects, in an order SQL does   *)
(* not fix.  Every statement commits on its own, so a run killed half way *)
(* leaves what it did.  Between runs the loader issues new CRLs and        *)
(* manifests and time passes.  "filename regexp files" is the relation     *)
(* Occurs: a name, read as a regular expression, matches a listed file.    *)
(***************************************************************************)
EXTENDS Naturals, FiniteSets

CONSTANTS
    Objs,      \* rows of the certificate, crl, ghostbusters and roa tables
    Certs,     \* the certificate rows
    CA,        \* certificates whose flags have SCM_FLAG_CA
    Crls,      \* the crl rows
    Gbrs,      \* the ghostbusters rows (the other objects are roa rows)
    Mans,      \* the manifest rows
    KeyOf,     \* KeyOf[x]: the issuer and aki of a certificate or CRL
    NameOf,    \* NameOf[o]: an object's filename
    ManFiles,  \* ManFiles[m]: the files a manifest lists
    Occurs,    \* <<n, f>>: the name n, as a regexp, matches the file f
    MaxTime,   \* the last time step the database clock reaches
    Faults     \* whether a search or a statement of main may fail

ASSUME /\ Certs \subseteq Objs /\ CA \subseteq Certs /\ Crls \subseteq Objs
       /\ Gbrs \subseteq Objs
       /\ MaxTime \in Nat

Times == 0 .. MaxTime

\* The four tables handleStaleMan2 and handleFreshMan2 each update, and
\* the table an object's row is in.
Tables == {"certificate", "crl", "ghostbusters", "roa"}
TableOf(o) == CASE o \in Certs -> "certificate"
                [] o \in Crls  -> "crl"
                [] o \in Gbrs  -> "ghostbusters"
                [] OTHER       -> "roa"

VARIABLES
    now,       \* the database's current_timestamp
    crlNext,   \* crlNext[r]: next_upd of CRL r
    manNext,   \* manNext[m]: next_upd of manifest m
    staleCrl,  \* staleCrl[c]: certificate c has SCM_FLAG_STALECRL
    staleMan,  \* staleMan[o]: object o has SCM_FLAG_STALEMAN
    gpc,       \* where main is; "idle" between runs
    curr,      \* currTimestamp, read at the start of the run
    rows,      \* the rows the current search has still to visit
    list,      \* staleManFiles: the manifests whose files are to be applied
    manErr     \* a STALEMAN update of this run failed (its status, which
               \* main ignores)

vars == <<now, crlNext, manNext, staleCrl, staleMan, gpc, curr, rows, list, manErr>>
db   == <<now, crlNext, manNext>>

Init ==
    /\ now = 0
    /\ crlNext \in [Crls -> Times]
    /\ manNext \in [Mans -> Times]
    /\ staleCrl = [c \in Certs |-> FALSE]
    /\ staleMan = [o \in Objs |-> FALSE]
    /\ gpc = "idle" /\ curr = 0 /\ rows = {} /\ list = {} /\ manErr = FALSE

\* count(*) of the CRLs of key k with next_upd >= t, as the where clause
\* of countCurrentCRLs selects them.
CurrentCount(k, t) == Cardinality({r \in Crls : KeyOf[r] = k /\ crlNext[r] >= t})

\* "filename regexp files": some file a manifest of ms lists matches o.
ListedBy(o, ms) == \E m \in ms : \E f \in ManFiles[m] : <<NameOf[o], f>> \in Occurs

\* A search of main fails: exit(EXIT_FAILURE), with what was done so far
\* left in the database.
Fail == Faults /\ gpc' = "exit" /\ UNCHANGED <<db, staleCrl, staleMan, curr, rows, list, manErr>>

\* The tables whose update statement fails (statementscm_no_data returns
\* an error) in one turn of a manifest loop.
FailedTables == IF Faults THEN SUBSET Tables ELSE {{}}

----------------------------------------------------------------------------
(* main                                                                    *)

\* Lines 217-264: the configuration, schema, connection and tables, then
\* the search of the metadata table whose callback handleTimestamps keeps
\* current_timestamp.
StartRun ==
    /\ gpc = "idle"
    /\ \/ /\ gpc' = "revoke" /\ curr' = now
          /\ UNCHANGED <<db, staleCrl, staleMan, rows, list, manErr>>
       \/ Fail

\* Lines 266-302: certificate_validity, whose error is ignored, and
\* iterate_crl, neither of which touches these flags; then the search for
\* the CRLs whose next update is not after currTimestamp.
StaleCrlSearch ==
    /\ gpc = "revoke"
    /\ \/ /\ gpc' = "stalecrl" /\ rows' = {r \in Crls : crlNext[r] <= curr}
          /\ UNCHANGED <<db, staleCrl, staleMan, curr, list, manErr>>
       \/ Fail

\* countCurrentCRLs on one stale CRL, with countHandler = handleIfStale:
\* when no CRL of its key is current, the update of lines 72-79 adds
\* STALECRL to the CA certificates of that key that lack it.
CountCurrentCRLs ==
    /\ gpc = "stalecrl"
    /\ \E r \in rows :
          /\ rows' = rows \ {r}
          /\ staleCrl' = IF CurrentCount(KeyOf[r], curr) > 0 THEN staleCrl
                         ELSE [c \in Certs |-> staleCrl[c] \/ (c \in CA /\ KeyOf[c] = KeyOf[r])]
    /\ UNCHANGED <<db, staleMan, gpc, curr, list, manErr>>

\* Lines 304-321: the search, with the same where clause, for the stale
\* manifests, whose callback handleStaleMan copies each one's files into
\* staleManFiles.
StaleManSearch ==
    /\ gpc = "stalecrl" /\ rows = {}
    /\ \/ /\ gpc' = "staleman" /\ list' = {m \in Mans : manNext[m] <= curr}
          /\ UNCHANGED <<db, staleCrl, staleMan, curr, rows, manErr>>
       \/ Fail

\* One turn of the loop of lines 322-333: handleStaleMan2 on each of the
\* four tables adds STALEMAN to every object of it a file of the manifest
\* matches; a statement that fails changes nothing, and main goes on.
handleStaleMan2 ==
    /\ gpc = "staleman"
    /\ \E m \in list, bad \in FailedTables :
          /\ list' = list \ {m}
          /\ staleMan' = [o \in Objs |-> IF TableOf(o) \in bad THEN staleMan[o]
                                         ELSE staleMan[o] \/ ListedBy(o, {m})]
          /\ manErr' = (manErr \/ bad # {})
    /\ UNCHANGED <<db, staleCrl, gpc, curr, rows>>

\* Mutant of FreshManSearch: the where clause is not rewritten, so the
\* stale manifests are searched for a second time.
FreshManSearchStaleWhere ==
    /\ gpc = "staleman" /\ list = {}
    /\ \/ /\ gpc' = "freshman" /\ list' = {m \in Mans : manNext[m] <= curr}
          /\ UNCHANGED <<db, staleCrl, staleMan, curr, rows, manErr>>
       \/ Fail

\* Lines 334-344: the search for the manifests whose next update is after
\* currTimestamp, into staleManFiles again.
FreshManSearch ==
    /\ gpc = "staleman" /\ list = {}
    /\ \/ /\ gpc' = "freshman" /\ list' = {m \in Mans : manNext[m] > curr}
          /\ UNCHANGED <<db, staleCrl, staleMan, curr, rows, manErr>>
       \/ Fail

\* One turn of the loop of lines 345-356: handleFreshMan2 on each of the
\* four tables clears STALEMAN on every object of it a file of the
\* manifest matches; a statement that fails changes nothing, and main
\* goes on.
handleFreshMan2 ==
    /\ gpc = "freshman"
    /\ \E m \in list, bad \in FailedTables :
          /\ list' = list \ {m}
          /\ staleMan' = [o \in Objs |-> IF TableOf(o) \in bad THEN staleMan[o]
                                         ELSE staleMan[o] /\ ~ListedBy(o, {m})]
          /\ manErr' = (manErr \/ bad # {})
    /\ UNCHANGED <<db, staleCrl, gpc, curr, rows>>

\* Lines 359-384: the search for the certificates with STALECRL.
CurrentSearch ==
    /\ gpc = "freshman" /\ list = {}
    /\ \/ /\ gpc' = "current" /\ rows' = {c \in Certs : staleCrl[c]}
          /\ UNCHANGED <<db, staleCrl, staleMan, curr, list, manErr>>
       \/ Fail

\* Mutant of handleIfCurrent: the count test of handleIfStale copied, so
\* the flag is cleared when no CRL is current.
handleIfCurrentInverted ==
    /\ gpc = "current"
    /\ \E c \in rows :
          /\ rows' = rows \ {c}
          /\ staleCrl' = [staleCrl EXCEPT ![c] = @ /\ CurrentCount(KeyOf[c], curr) > 0]
    /\ UNCHANGED <<db, staleMan, gpc, curr, list, manErr>>

\* countCurrentCRLs on one such certificate, with countHandler =
\* handleIfCurrent: a current CRL of its key clears its STALECRL.
handleIfCurrent ==
    /\ gpc = "current"
    /\ \E c \in rows :
          /\ rows' = rows \ {c}
          /\ staleCrl' = [staleCrl EXCEPT ![c] = @ /\ CurrentCount(KeyOf[c], curr) = 0]
    /\ UNCHANGED <<db, staleMan, gpc, curr, list, manErr>>

\* Lines 386-399: gc_last is set to currTimestamp (no run reads it back:
\* prevTimestamp is never used) and main returns.
WriteTimestamp ==
    /\ gpc = "current" /\ rows = {}
    /\ \/ /\ gpc' = "done"
          /\ UNCHANGED <<db, staleCrl, staleMan, curr, rows, list, manErr>>
       \/ Fail

----------------------------------------------------------------------------
(* Between runs, and faults                                                *)

\* The process ends; the next run starts from nothing but the database.
EndRun ==
    /\ gpc \in {"done", "exit"}
    /\ gpc' = "idle" /\ rows' = {} /\ list' = {} /\ manErr' = FALSE
    /\ UNCHANGED <<db, staleCrl, staleMan, curr>>

\* The process is killed between two statements.
Crash ==
    /\ Faults /\ gpc \notin {"idle", "done", "exit"}
    /\ gpc' = "idle" /\ rows' = {} /\ list' = {} /\ manErr' = FALSE
    /\ UNCHANGED <<db, staleCrl, staleMan, curr>>

\* Time passes, and the loader issues a CRL or a manifest with a later
\* next update in place of the one of the same issuer or directory.
Tick ==
    /\ gpc = "idle" /\ now < MaxTime
    /\ now' = now + 1
    /\ UNCHANGED <<crlNext, manNext, staleCrl, staleMan, gpc, curr, rows, list, manErr>>

NewCrl ==
    /\ gpc = "idle"
    /\ \E r \in Crls, t \in Times :
          /\ t > now /\ t > crlNext[r]
          /\ crlNext' = [crlNext EXCEPT ![r] = t]
    /\ UNCHANGED <<now, manNext, staleCrl, staleMan, gpc, curr, rows, list, manErr>>

NewManifest ==
    /\ gpc = "idle"
    /\ \E m \in Mans, t \in Times :
          /\ t > now /\ t > manNext[m]
          /\ manNext' = [manNext EXCEPT ![m] = t]
    /\ UNCHANGED <<now, crlNext, staleCrl, staleMan, gpc, curr, rows, list, manErr>>

Run ==
    \/ StartRun \/ StaleCrlSearch \/ CountCurrentCRLs \/ StaleManSearch
    \/ handleStaleMan2 \/ FreshManSearch \/ handleFreshMan2
    \/ CurrentSearch \/ handleIfCurrent \/ WriteTimestamp \/ EndRun

Next == Run \/ Crash \/ Tick \/ NewCrl \/ NewManifest

Spec == Init /\ [][Next]_vars

----------------------------------------------------------------------------
(* Properties                                                              *)

TypeOK ==
    /\ now \in Times /\ curr \in Times
    /\ crlNext \in [Crls -> Times] /\ manNext \in [Mans -> Times]
    /\ staleCrl \in [Certs -> BOOLEAN] /\ staleMan \in [Objs -> BOOLEAN]
    /\ rows \subseteq Crls \cup Certs /\ list \subseteq Mans /\ manErr \in BOOLEAN

\* When a run completes, a certificate has STALECRL exactly when it is a
\* CA certificate, some CRL of its issuer and AKI exists, and none of them
\* is current, whatever earlier runs did or were killed in the middle of:
\* the stale-CRL pass flags, and the last pass (handleIfCurrent) clears a
\* flag set by an earlier run once a new CRL has been issued.
StaleCrlExact ==
    gpc = "done" =>
        \A c \in Certs :
            staleCrl[c] <=> /\ c \in CA
                            /\ \E r \in Crls : KeyOf[r] = KeyOf[c]
                            /\ CurrentCount(KeyOf[c], curr) = 0

\* When a run completes and none of its STALEMAN updates failed, an
\* object a current manifest lists has no STALEMAN, and one only stale
\* manifests list has it, whatever earlier runs left: the fresh pass runs
\* after the stale one (the comment of garbage.c, lines 305-306), and a
\* run killed or failing between them is repaired by the next complete
\* one.  "Lists" is the code's own match, filename as a regexp against
\* the manifest's files.  A run whose update failed completes all the
\* same (main ignores the status, lines 324-331 and 347-354) and may leave
\* STALEMAN on a listed object: it is left out.
ManFlagsFollowManifests ==
    gpc = "done" /\ ~manErr =>
        \A o \in Objs :
            LET fresh == {m \in Mans : manNext[m] > curr}
                stale == {m \in Mans : manNext[m] <= curr}
            IN  /\ ListedBy(o, fresh) => ~staleMan[o]
                /\ ListedBy(o, stale) /\ ~ListedBy(o, fresh) => staleMan[o]

====
