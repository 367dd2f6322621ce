------------------------------ MODULE RtrListen ------------------------------
(***************************************************************************)
(* The connection control thread of the RTR server,                        *)
(* src/rtr/connection_control.c, and the connection threads it starts.    *)
(*                                                                         *)
(* Each round of connection_control_main's loop:                           *)
(*   1. sweep the bag of connections: a connection whose thread is gone    *)
(*      (pthread_kill(thread, 0) == ESRCH) is cleaned up and erased;       *)
(*   2. select on the listening socket and every connection's socket;      *)
(*   3. post the semaphore of every readable connection; a failing post    *)
(*      kills the thread (cancel + join) and cleans the connection up;     *)
(*   4. if the listening socket is readable, accept: allocate the          *)
(*      connection, its semaphore and socket, start its thread, add it to *)
(*      the bag.  Each of these may fail, and each failure frees what was  *)
(*      made so far.                                                       *)
(*                                                                         *)
(* A connection is a model value of Slots, each used at most once.  Its    *)
(* thread (connection_main, not in the repository) is the environment: it  *)
(* waits on its semaphore and reads its socket, and may end at any time.   *)
(***************************************************************************)
EXTENDS Naturals, FiniteSets

CONSTANTS
    Slots,      \* connection_info objects the listener may create
    Failures,   \* the steps of accepting that may fail
    SemMax,     \* SEM_VALUE_MAX: a post beyond it fails with EOVERFLOW
    KillProbe   \* results pthread_kill(thread, 0) may give for an ended thread

AcceptSteps == {"malloc", "sem_malloc", "sem_init", "accept", "args", "create", "bag_add"}

ASSUME /\ Failures \subseteq AcceptSteps
       /\ SemMax \in Nat \ {0}
       /\ KillProbe \subseteq {"ESRCH", "0"} /\ KillProbe # {}

VARIABLES
    bag,          \* the Bag connections
    res,          \* per slot, cxn_info with its fd and semaphore: "free" | "live" | "freed"
    thread,       \* per slot: "none" | "running" | "ended" | "joined"
    sem,          \* per slot: the value of its semaphore
    readable,     \* per slot: its socket has input (or end of file) unread
    lpc,          \* the listener: "sweep" | "dispatch" | "accept"
    ready,        \* the connections select reported readable
    listenReady   \* select reported the listening socket readable

vars == <<bag, res, thread, sem, readable, lpc, ready, listenReady>>

Init ==
    /\ bag = {}
    /\ res = [s \in Slots |-> "free"]
    /\ thread = [s \in Slots |-> "none"]
    /\ sem = [s \in Slots |-> 0]
    /\ readable = [s \in Slots |-> FALSE]
    /\ lpc = "sweep"
    /\ ready = {}
    /\ listenReady = FALSE

----------------------------------------------------------------------------
(* The listener                                                            *)

\* cleanup_connection of every connection in S: close, sem_destroy, free.
Cleanup(S) == res' = [s \in Slots |-> IF s \in S THEN "freed" ELSE res[s]]

\* kill_connection of every connection in S: pthread_cancel, then join.
Kill(S) == thread' = [s \in Slots |-> IF s \in S THEN "joined" ELSE thread[s]]

\* The connections the sweep finds gone: pthread_kill(thread, 0) == ESRCH.
Gone(probe) == {s \in bag : thread[s] = "ended" /\ probe[s] = "ESRCH"}

\* Mutant of Sweep: a gone connection erased without cleanup_connection.
SweepEraseOnly ==
    /\ lpc = "sweep"
    /\ \E probe \in [Slots -> KillProbe], lr \in BOOLEAN :
       LET gone == Gone(probe)
           rdy  == {s \in bag \ gone : readable[s]}
       IN  /\ bag' = bag \ gone
           /\ UNCHANGED res
           /\ lr => \E s \in Slots : res[s] = "free"
           /\ IF rdy = {} /\ ~lr
              THEN UNCHANGED <<lpc, ready, listenReady>>
              ELSE /\ ready' = rdy
                   /\ listenReady' = lr
                   /\ lpc' = "dispatch"
    /\ UNCHANGED <<thread, sem, readable>>

(***************************************************************************)
(* Lines 92-135: sweep, then select.  select returns the readable sockets, *)
(* or nothing on a timeout or an error, and the loop starts again.  The    *)
(* listening socket is readable when a client connects, which needs a     *)
(* free slot.                                                              *)
(***************************************************************************)
Sweep ==
    /\ lpc = "sweep"
    /\ \E probe \in [Slots -> KillProbe], lr \in BOOLEAN :
       LET gone == Gone(probe)
           rdy  == {s \in bag \ gone : readable[s]}
       IN  /\ bag' = bag \ gone
           /\ Cleanup(gone)
           /\ lr => \E s \in Slots : res[s] = "free"
           /\ IF rdy = {} /\ ~lr
              THEN UNCHANGED <<lpc, ready, listenReady>>
              ELSE /\ ready' = rdy
                   /\ listenReady' = lr
                   /\ lpc' = "dispatch"
    /\ UNCHANGED <<thread, sem, readable>>

\* Mutant of Dispatch: a post that never fails, the count growing past
\* SEM_VALUE_MAX.
DispatchNoOverflow ==
    /\ lpc = "dispatch"
    /\ sem' = [s \in Slots |-> IF s \in ready THEN sem[s] + 1 ELSE sem[s]]
    /\ lpc' = "accept"
    /\ UNCHANGED <<bag, res, thread, readable, ready, listenReady>>

\* Mutant of Dispatch: the failing post cleans up without kill_connection.
DispatchNoKill ==
    /\ lpc = "dispatch"
    /\ LET full == {s \in ready : sem[s] = SemMax}
       IN  /\ sem' = [s \in Slots |-> IF s \in ready \ full THEN sem[s] + 1 ELSE sem[s]]
           /\ UNCHANGED thread
           /\ Cleanup(full)
           /\ bag' = bag \ full
    /\ lpc' = "accept"
    /\ UNCHANGED <<readable, ready, listenReady>>

(***************************************************************************)
(* Lines 137-160: sem_post for every readable connection.  A post on a     *)
(* semaphore at SEM_VALUE_MAX fails: kill_connection, cleanup_connection,  *)
(* erase.                                                                  *)
(***************************************************************************)
Dispatch ==
    /\ lpc = "dispatch"
    /\ LET full == {s \in ready : sem[s] = SemMax}
       IN  /\ sem' = [s \in Slots |-> IF s \in ready \ full THEN sem[s] + 1 ELSE sem[s]]
           /\ Kill(full)
           /\ Cleanup(full)
           /\ bag' = bag \ full
    /\ lpc' = "accept"
    /\ UNCHANGED <<readable, ready, listenReady>>

(***************************************************************************)
(* Lines 162-231: accept a connection.  step is the first step that fails *)
(* ("ok": none).  Before pthread_create a failure frees what was made so   *)
(* far; the "args" and "create" failures call cleanup_connection; after    *)
(* pthread_create a failing Bag_add calls cleanup_connection too, while    *)
(* the new thread runs.                                                    *)
(***************************************************************************)
Accept ==
    /\ lpc = "accept"
    /\ lpc' = "sweep"
    /\ IF ~listenReady
       THEN UNCHANGED <<bag, res, thread, sem, readable>>
       ELSE \E s \in Slots, step \in Failures \cup {"ok"} :
            /\ res[s] = "free"
            /\ res' = [res EXCEPT ![s] = IF step = "ok" THEN "live" ELSE "freed"]
            /\ thread' = [thread EXCEPT ![s] =
                             IF step \in {"ok", "bag_add"} THEN "running" ELSE "none"]
            /\ bag' = IF step = "ok" THEN bag \cup {s} ELSE bag
            /\ UNCHANGED <<sem, readable>>
    /\ UNCHANGED <<ready, listenReady>>

----------------------------------------------------------------------------
(* Connection threads and their peers (environment)                       *)

\* The peer sends a PDU, or closes its end: the socket becomes readable.
Arrive(s) ==
    /\ res[s] = "live" /\ ~readable[s]
    /\ readable' = [readable EXCEPT ![s] = TRUE]
    /\ UNCHANGED <<bag, res, thread, sem, lpc, ready, listenReady>>

\* The connection thread: sem_wait on its semaphore, then read its socket.
Consume(s) ==
    /\ thread[s] = "running" /\ sem[s] > 0
    /\ sem' = [sem EXCEPT ![s] = @ - 1]
    /\ readable' = [readable EXCEPT ![s] = FALSE]
    /\ UNCHANGED <<bag, res, thread, lpc, ready, listenReady>>

\* The connection thread returns (peer gone, protocol error).
End(s) ==
    /\ thread[s] = "running"
    /\ thread' = [thread EXCEPT ![s] = "ended"]
    /\ UNCHANGED <<bag, res, sem, readable, lpc, ready, listenReady>>

Listener == Sweep \/ Dispatch \/ Accept

Next ==
    \/ Listener
    \/ \E s \in Slots : Arrive(s) \/ Consume(s) \/ End(s)

\* The listener loops forever, select returning at least every second: it
\* is weakly fair.  Peers and connection threads are not.
Spec == Init /\ [][Next]_vars /\ WF_vars(Listener)

----------------------------------------------------------------------------
(* Properties                                                              *)

\* A running connection thread never uses a semaphore or socket that
\* cleanup_connection has destroyed and freed: the listener cleans up a
\* connection only once its thread has ended or been joined.
NoUseAfterCleanup ==
    \A s \in Slots : thread[s] = "running" => res[s] = "live"

\* A connection whose thread is not running (it ended, was joined, or was
\* never started) is eventually cleaned up: its socket closed, its
\* semaphore destroyed, its memory freed.  This needs the sweep to see
\* the ended thread, and every failing step of accept to free its work.
Reclaimed ==
    \A s \in Slots : res[s] = "live" /\ thread[s] # "running" ~> res[s] = "freed"

=============================================================================
